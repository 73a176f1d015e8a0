--------------------------- MODULE MCControlPlane ---------------------------
(***************************************************************************)
(* The control plane's own records for TLC: accounts and sessions, and the *)
(* key and the schema of an installation.  They share no state here, so a  *)
(* behaviour is one of either, while the other rests.                      *)
(***************************************************************************)
EXTENDS MCAccounts, MCInstallation

VARIABLE part

accountsVars == <<vars, accountsLoad>>

PartInit ==
  \/ part = "accounts" /\ AccountsLoadInit /\ InstallInit /\ ~foreign
  \/ part = "installation" /\ InstallInit /\ accountsLoad = SetUp /\ Init

\* Requests may cease; a process of an installation always goes on.
PartNext ==
  /\ UNCHANGED part
  /\ \/ part = "accounts" /\ AccountsLoadNext /\ UNCHANGED installVars
     \/ part = "accounts" /\ UNCHANGED <<accountsVars, installVars>>
     \/ part = "installation" /\ InstallNext /\ UNCHANGED accountsVars

PartSpec == PartInit /\ [][PartNext]_<<part, accountsVars, installVars>>
=============================================================================
