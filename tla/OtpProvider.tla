---------------------------- MODULE OtpProvider -----------------------------
(***************************************************************************)
(* What otp.Provider promises the coordinator, for one Arm and one         *)
(* WaitForCode: the snapshot taken by Arm separates the messages that were *)
(* in the inbox from the ones that may answer the challenge.  BlueBubbles  *)
(* is shown to implement it; OtpChallenge builds on it.                    *)
(***************************************************************************)
EXTENDS Naturals, Sequences

CONSTANT Message   \* what an inbox can hold

VARIABLES
  inbox,      \* the messages, in the order they became visible
  wanted,     \* the messages the filter of the arm accepts
  armed,      \* how many there were when Arm took its snapshot
  outcome,    \* "idle", "armed", "failed" or "code"
  answer      \* the position of the message WaitForCode returned, or 0

vars == <<inbox, wanted, armed, outcome, answer>>

Init == inbox = <<>> /\ wanted = {} /\ armed = 0 /\ outcome = "idle" /\ answer = 0

Deliver ==
  /\ \E m \in Message : inbox' = Append(inbox, m)
  /\ UNCHANGED <<wanted, armed, outcome, answer>>

Arm ==
  /\ outcome = "idle" /\ outcome' = "armed"
  /\ armed' = Len(inbox) /\ wanted' \in SUBSET Message
  /\ UNCHANGED <<inbox, answer>>

WaitForCode ==
  /\ outcome = "armed" /\ outcome' = "code"
  /\ \E i \in armed + 1 .. Len(inbox) : inbox[i] \in wanted /\ answer' = i
  /\ UNCHANGED <<inbox, wanted, armed>>

Fail ==
  /\ outcome \in {"idle", "armed"} /\ outcome' = "failed"
  /\ UNCHANGED <<inbox, wanted, armed, answer>>

Next == Deliver \/ Arm \/ WaitForCode \/ Fail
Spec == Init /\ [][Next]_vars
=============================================================================
