---------------------------- MODULE StatusPromise ----------------------------
(***************************************************************************)
(* What the Registry's page relies on from the status monitor: snapshots   *)
(* only get newer, and whoever asks for a refresh gets one that was begun  *)
(* after the question, unless an agent that cannot be probed was active    *)
(* meanwhile.  StatusMonitor implements it, Dashboard uses it.             *)
(*                                                                         *)
(* epoch counts the changes of the agents and of the network.              *)
(***************************************************************************)
EXTENDS Naturals

CONSTANTS
  Request,   \* who may wait for a refresh
  MaxEpoch   \* bound on epoch

VARIABLES
  epoch,
  seen,      \* the epoch the snapshots are of, 0 before the first refresh
  asked,     \* the epoch in which each request was made, 0 if it waits no more
  unfit      \* the last epoch in which an agent that cannot be probed was active

promiseVars == <<epoch, seen, asked, unfit>>

TypeOK ==
  /\ epoch \in 1 .. MaxEpoch
  /\ seen \in 0 .. epoch
  /\ asked \in [Request -> 0 .. epoch]
  /\ unfit \in 0 .. epoch

Init ==
  /\ epoch = 1 /\ seen = 0
  /\ asked = [r \in Request |-> 0]
  /\ unfit \in {0, 1}

Probeable == unfit < epoch

Changes ==
  /\ epoch < MaxEpoch
  /\ epoch' = epoch + 1
  /\ unfit' \in {unfit, epoch'}
  /\ UNCHANGED <<seen, asked>>

Ask(r) ==
  /\ asked[r] = 0
  /\ asked' = [asked EXCEPT ![r] = epoch]
  /\ UNCHANGED <<epoch, seen, unfit>>

Leaves(r) == asked' = [asked EXCEPT ![r] = 0]

(* The snapshots after an answer are those the answer shows. *)
Answer(r) ==
  /\ asked[r] # 0
  /\ seen' \in {e \in seen .. epoch : e >= asked[r]}
  /\ Leaves(r)
  /\ UNCHANGED <<epoch, unfit>>

Refuse(r) ==
  /\ asked[r] # 0 /\ unfit >= asked[r]
  /\ Leaves(r)
  /\ UNCHANGED <<epoch, seen, unfit>>

(* The monitor's loop. *)
Refreshed ==
  /\ seen' \in seen .. epoch
  /\ UNCHANGED <<epoch, asked, unfit>>

CatchesUp == Probeable /\ Refreshed /\ seen' = epoch

Next ==
  \/ Changes \/ Refreshed
  \/ \E r \in Request : Ask(r) \/ Answer(r) \/ Refuse(r)

Spec == Init /\ [][Next]_promiseVars
=============================================================================
