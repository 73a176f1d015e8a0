-------------------------------- MODULE MCOtp -------------------------------
(***************************************************************************)
(* One-time codes for TLC: the challenges of a sign-in, the pairing of a   *)
(* source and the BlueBubbles provider.  They share no state, so a         *)
(* behaviour is one of any of them, while the others rest.                 *)
(***************************************************************************)
EXTENDS OtpChallenge, MCSourcePairing, MCBlueBubbles

VARIABLE part

pairingVars == <<vars, pairingLoad>>

PairingRests == Init /\ source.identity = (CHOOSE s \in Server : TRUE) /\ pairingLoad = "edits"

PartInit ==
  \/ part = "challenge" /\ OtpInit /\ PairingRests /\ BBInit /\ ~pairing
  \/ part = "pairing" /\ PairingLoadInit /\ OtpInit /\ BBInit /\ ~pairing
  \/ part = "provider" /\ BBInit /\ OtpInit /\ PairingRests

PartNext ==
  /\ UNCHANGED part
  /\ \/ part = "challenge" /\ OtpNext /\ UNCHANGED <<pairingVars, bbVars>>
     \/ part = "pairing" /\ PairingLoadNext /\ UNCHANGED <<otpVars, bbVars>>
     \/ part = "provider" /\ BBNext /\ ProviderWithin' /\ UNCHANGED <<otpVars, pairingVars>>

\* The fairness of the part that moves.
ChallengeFair(A) == part = "challenge" /\ A
PairingFair(A) == part = "pairing" /\ A
ProviderFair(A) == part = "provider" /\ A

PartFairness ==
  /\ WF_otpVars(ChallengeFair(HandleFrame)) /\ WF_otpVars(ChallengeFair(HandleAsync))
  /\ WF_otpVars(ChallengeFair(HandleDone)) /\ WF_otpVars(ChallengeFair(SendCancel))
  /\ \A c \in Challenge : /\ WF_otpVars(ChallengeFair(WaitForCode(c)))
                          /\ WF_otpVars(ChallengeFair(ExpireOTP(c)))
  /\ WF_otpVars(ChallengeFair(Read))
  /\ \A g \in Goroutine : WF_vars(PairingFair(Leaving(g))) /\ WF_vars(PairingFair(ChallengeEnds(g)))
  /\ \A j \in JobId : WF_vars(PairingFair(Finish(j)))
  /\ WF_bbVars(ProviderFair(pc = "sleep" /\ StartPoll)) /\ WF_bbVars(ProviderFair(FetchPage))

PartSpec == PartInit /\ [][PartNext]_<<part, otpVars, pairingVars, bbVars>> /\ PartFairness
=============================================================================
