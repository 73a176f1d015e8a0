-------------------------- MODULE MCRunEnvironment --------------------------
(***************************************************************************)
(* What surrounds a run, for TLC: the window of its booking, its           *)
(* directories and the pages that follow it.  They share no state, so a    *)
(* behaviour is one of any of them, while the others rest.                 *)
(***************************************************************************)
EXTENDS MCBookingWindow, MCStorage, JobStream

VARIABLE part

WindowRests == Init /\ now = 0 /\ ~session /\ booking = CHOOSE b \in Bookings : TRUE
StorageRests == StorageInit /\ \A i \in Profile : pdir[i] = "none"

PartInit ==
  \/ part = "window" /\ Init /\ StorageRests /\ StreamInit
  \/ part = "storage" /\ StorageLoadInit /\ WindowRests /\ StreamInit
  \/ part = "stream" /\ StreamInit /\ WindowRests /\ StorageRests

\* A booking ends for good; the clean-up and the pages never do.
PartNext ==
  /\ UNCHANGED part
  /\ \/ part = "window" /\ Next /\ UNCHANGED <<storageVars, streamVars>>
     \/ part = "window" /\ UNCHANGED <<vars, storageVars, streamVars>>
     \/ part = "storage" /\ StorageLoadNext /\ UNCHANGED <<vars, streamVars>>
     \/ part = "stream" /\ StreamNext /\ UNCHANGED <<vars, storageVars>>

\* The fairness of the part that moves.
WindowFair(A) == part = "window" /\ A
StorageFair(A) == part = "storage" /\ A
StreamFair(A) == part = "stream" /\ A

PartFairness ==
  /\ WF_vars(WindowFair(Tick)) /\ WF_vars(WindowFair(Timeout)) /\ WF_vars(WindowFair(ClickFails))
  /\ \A c \in Cleaner : WF_storageVars(StorageFair(CleanArtifacts(c) \/ CleanProfiles(c)))
  /\ \A j \in Job : /\ WF_storageVars(StorageFair(CleanProfiles(j)))
                    /\ WF_storageVars(StorageFair(MonitorArtifacts(j)))
                    /\ WF_storageVars(StorageFair(run[j] = "cancelled" /\ FinishRun(j)))
  /\ WF_streamVars(StreamFair(StreamTick)) /\ WF_streamVars(StreamFair(PublishEvent))
  /\ WF_streamVars(StreamFair(engine # "run" /\ Finish))
  /\ \A c \in Client : /\ WF_streamVars(StreamFair(OpenStream(c)))
                       /\ WF_streamVars(StreamFair(Serve(c)))

PartSpec == PartInit /\ [][PartNext]_<<part, vars, storageVars, streamVars>> /\ PartFairness
=============================================================================
