---------------------------- MODULE MCJobTracker ----------------------------
(* What the job tracker owes its callers in the end: a shutdown returns,   *)
(* and a batch is sealed.  A behaviour is about one of the two.            *)
EXTENDS JobSupervision

CONSTANTS Children, Handler, Observers, Interleaved, Watched

VARIABLES
    about,                  \* "shutdown" or "batch"
    parent, children, state, handle, request, refresh

batchVars == <<parent, children, state, handle, request, refresh>>

Batch == INSTANCE ParentAggregation

MCInit ==
    /\ about \in {"shutdown", "batch"}
    /\ TrackerInit /\ Batch!Init
    /\ about = "shutdown" => ~request.interleaved /\ ~request.watched

MCNext ==
    \/ about = "shutdown" /\ TrackerNext /\ UNCHANGED <<about, batchVars>>
    \/ about = "batch" /\ Batch!Next /\ UNCHANGED <<about, trackerVars>>

(* Fairness of JobSupervision, which has no fair step in a batch, and of   *)
(* ParentAggregation, in a batch.                                          *)
MCFairness ==
    /\ Fairness
    /\ WF_batchVars(about = "batch" /\ Batch!HandlerStep)
    /\ \A t \in Batch!Threads : WF_batchVars(about = "batch" /\ Batch!RefreshStep(t))

MCSpec == MCInit /\ [][MCNext]_<<about, trackerVars, batchVars>> /\ MCFairness

(* Once a batch request is over and its children have ended, its parent is *)
(* sealed (reaper_sweep).                                                  *)
EventuallySealed == Batch!EventuallySealed
=============================================================================
