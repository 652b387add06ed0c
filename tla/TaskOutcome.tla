---------------------------- MODULE TaskOutcome -----------------------------
(***************************************************************************)
(* What a queue-backed task promises, whatever the broker, the workers and *)
(* the Registry go through: a task has at most one outcome, recorded once  *)
(* and for all; a client that gets an answer gets that outcome; and the    *)
(* experience of a task is asked for only when it has completed.           *)
(* TaskExecution implements this specification.                            *)
(***************************************************************************)
CONSTANTS
  Agent, Task,  \* ids of agents and of tasks
  Text,         \* result texts
  Empty         \* the empty text

VARIABLES
  outcome,   \* the recorded outcome of each task
  task,      \* what the clients of the Gateway see of it
  requested  \* the tasks whose experience was asked for

vars == <<outcome, task, requested>>

Command == Agent \X Task
Outcome == [state: {"COMPLETED", "FAILED"}, text: Text]
NoOutcome == [state |-> "NONE", text |-> Empty]

Init ==
  /\ outcome = [k \in Command |-> NoOutcome]
  /\ task = [k \in Command |-> [phase |-> "new", outcome |-> NoOutcome]]
  /\ requested = {}

Submit(k) ==
  /\ task[k].phase = "new"
  /\ task' = [task EXCEPT ![k].phase = "waiting"]
  /\ UNCHANGED <<outcome, requested>>

Record(k) ==
  /\ outcome[k] = NoOutcome
  /\ task[k].phase # "new"
  /\ \E o \in Outcome : outcome' = [outcome EXCEPT ![k] = o]
  /\ UNCHANGED <<task, requested>>

Answer(k) ==
  /\ task[k].phase = "waiting"
  /\ outcome[k] # NoOutcome
  /\ task' = [task EXCEPT ![k] = [phase |-> "answered", outcome |-> outcome[k]]]
  /\ UNCHANGED <<outcome, requested>>

(* A task may end without an answer, all waiting ones if the Gateway stops. *)
GiveUp(k) ==
  /\ task[k].phase \in {"new", "waiting"}
  /\ \E p \in {"failed", "canceled"} : task' = [task EXCEPT ![k].phase = p]
  /\ UNCHANGED <<outcome, requested>>

Stop ==
  /\ task' = [k \in Command |->
       IF task[k].phase = "waiting" THEN [task[k] EXCEPT !.phase = "lost"]
       ELSE task[k]]
  /\ UNCHANGED <<outcome, requested>>

AskExperience(k) ==
  /\ outcome[k].state = "COMPLETED"
  /\ requested' = requested \cup {k}
  /\ UNCHANGED <<outcome, task>>

Next ==
  \/ \E k \in Command :
       Submit(k) \/ Record(k) \/ Answer(k) \/ GiveUp(k) \/ AskExperience(k)
  \/ Stop

Spec == Init /\ [][Next]_vars
=============================================================================
