--------------------------- MODULE TaskProjection ---------------------------
(***************************************************************************)
(* The task events of one managed agent: what the Gateway and the workers  *)
(* report while a task runs (gateway_executor.py, worker.py), and the      *)
(* timeline and latest state the Registry keeps of it (task_store.py).     *)
(*                                                                         *)
(* A report is an HTTP call whose failure is only logged, so the reporter  *)
(* goes on whether the Registry has recorded the event, will record it     *)
(* later, or never does: reports travel through the set network.  Every    *)
(* report carries a sequence number, from which its event id is formed.    *)
(***************************************************************************)
EXTENDS Naturals, Sequences, FiniteSets, FiniteSetsExt

CONSTANTS
  Task,        \* tasks of the Gateway
  NativeTask,  \* tasks reported without a sequence number
  NativeState, \* the states reported of them
  FollowUps,   \* clients answer a task that asks for input
  Lossy,       \* a report may be lost
  MaxEvents    \* bound on the timeline

ASSUME ProjectionAssumption ==
  /\ Task \cap NativeTask = {}
  /\ FollowUps \in BOOLEAN /\ Lossy \in BOOLEAN
  /\ MaxEvents \in Nat

TerminalState == {"COMPLETED", "FAILED", "CANCELED", "REJECTED"}
ActiveState == {"SUBMITTED", "WORKING", "INPUT_REQUIRED", "AUTH_REQUIRED"}
State == TerminalState \cup ActiveState \cup {"UNSPECIFIED"}

ASSUME NativeStateAssumption == NativeState \subseteq State

VARIABLES
  registered,  \* the agent has a row in the Registry
  timeline,    \* table task_events, in the order of its sequence column
  runs,        \* table task_runs: the latest state of each task
  network,     \* reports under way
  missed,      \* history: a report was lost or refused
  live,        \* the state of the Gateway's A2A task
  execution,   \* where execute() is for the task
  queued,      \* the Gateway has a dispatcher: workers execute the tasks
  commanded    \* the tasks whose command went to the workers

registryVars == <<registered, timeline, runs>>
gatewayVars == <<live, execution, commanded>>
vars == <<registryVars, network, missed, gatewayVars, queued>>

AnyTask == Task \cup NativeTask

(* The event id "task:{agent}:{task}:{sequence}" is the pair of task and   *)
(* sequence number; an unnumbered event gets an id of its own.             *)
Event == [task: AnyTask, seq: 1 .. MaxEvents + 4, state: State]
NoRun == [state |-> "NONE", seq |-> 0]
Run == [state: State \cup {"NONE"}, seq: 0 .. MaxEvents + 4]

(* execute() between its awaits: the task was accepted, waits for its      *)
(* result, or is about to become what was reported last.                   *)
Execution ==
  [at: {"none", "accepted", "running", "settling"}, to: State \cup {"NONE"}]
Ended == [at |-> "none", to |-> "NONE"]
At(place) == [at |-> place, to |-> "NONE"]
Settling(s) == [at |-> "settling", to |-> s]

TypeOK ==
  /\ registered \in BOOLEAN
  /\ timeline \in Seq(Event)
  /\ runs \in [AnyTask -> Run]
  /\ network \in SUBSET Event
  /\ missed \in BOOLEAN
  /\ live \in [Task -> State \cup {"NONE"}]
  /\ execution \in [Task -> Execution]
  /\ commanded \in SUBSET Task
  /\ queued \in BOOLEAN

Init ==
  /\ registered = TRUE
  /\ timeline = <<>>
  /\ runs = [t \in AnyTask |-> NoRun]
  /\ network = {}
  /\ missed = FALSE
  /\ live = [t \in Task |-> "NONE"]
  /\ execution = [t \in Task |-> Ended]
  /\ commanded = {}
  /\ queued \in BOOLEAN

-----------------------------------------------------------------------------
(* The Registry: TaskEventStore.record. *)

Recorded == {timeline[i] : i \in DOMAIN timeline}
IsDuplicate(e) == \E r \in Recorded : r.task = e.task /\ r.seq = e.seq

(* Mutant of Latest: the event that arrives last wins. *)
LatestArrival(run, e) == [state |-> e.state, seq |-> e.seq]

Latest(run, e) == IF e.seq > run.seq THEN [state |-> e.state, seq |-> e.seq] ELSE run

Insert(e) ==
  /\ Len(timeline) < MaxEvents
  /\ timeline' = Append(timeline, e)
  /\ runs' = [runs EXCEPT ![e.task] = Latest(@, e)]

Receive(e) ==
  /\ registered
  /\ network' = network \ {e}
  /\ IF IsDuplicate(e) THEN UNCHANGED <<timeline, runs>> ELSE Insert(e)
  /\ UNCHANGED <<registered, missed, gatewayVars>>

(* 404: the agent is not registered. *)
Refuse(e) ==
  /\ ~registered
  /\ network' = network \ {e}
  /\ missed' = TRUE
  /\ UNCHANGED <<registryVars, gatewayVars>>

Lose(e) ==
  /\ Lossy
  /\ network' = network \ {e}
  /\ missed' = TRUE
  /\ UNCHANGED <<registryVars, gatewayVars>>

(* Without a taskSequence the event follows the latest one of its task. *)
ReportUnnumbered(t, s) ==
  /\ registered
  /\ Insert([task |-> t, seq |-> runs[t].seq + 1, state |-> s])
  /\ UNCHANGED <<registered, network, missed, gatewayVars>>

(* ON DELETE CASCADE takes the events and runs of the agent along. *)
DeleteAgent ==
  /\ registered
  /\ registered' = FALSE
  /\ timeline' = <<>>
  /\ runs' = [t \in AnyTask |-> NoRun]
  /\ missed' = TRUE
  /\ UNCHANGED <<network, gatewayVars>>

RegisterAgent ==
  /\ ~registered
  /\ registered' = TRUE
  /\ UNCHANGED <<timeline, runs, network, missed, gatewayVars>>

-----------------------------------------------------------------------------
(* The reporters. *)

Report(t, s, n) == network' = network \cup {[task |-> t, seq |-> n, state |-> s]}

Goes(t, e) == execution' = [execution EXCEPT ![t] = e]

(* A message arrives: a new task, or the input an existing one asked for.  *)
Accept(t) ==
  /\ execution[t] = Ended
  /\ \/ live[t] = "NONE" /\ live' = [live EXCEPT ![t] = "SUBMITTED"]
     \/ live[t] = "INPUT_REQUIRED" /\ FollowUps /\ UNCHANGED live
  /\ Report(t, "SUBMITTED", 1)
  /\ Goes(t, At("accepted"))
  /\ UNCHANGED <<registryVars, missed, commanded>>

(* No managed agent to ask, or nothing to ask it. *)
TurnDown(t, s) ==
  /\ execution[t] = At("accepted")
  /\ Report(t, s, 2)
  /\ Goes(t, Settling(s))
  /\ UNCHANGED <<registryVars, missed, live, commanded>>

(* The Registry cannot be asked; execute() fails and the task stays.       *)
LookupFails(t) ==
  /\ execution[t] = At("accepted")
  /\ Goes(t, Ended)
  /\ UNCHANGED <<registryVars, network, missed, live, commanded>>

(* The task goes to the workers, or to the agent itself. *)
Start(t) ==
  /\ execution[t] = At("accepted")
  /\ IF queued THEN commanded' = commanded \cup {t} /\ UNCHANGED network
     ELSE Report(t, "WORKING", 2) /\ UNCHANGED commanded
  /\ live' = [live EXCEPT ![t] = "WORKING"]
  /\ Goes(t, At("running"))
  /\ UNCHANGED <<registryVars, missed>>

(* A worker was granted the execution, of the first delivery or of a later *)
(* one; the Gateway may have given up on the result long before.           *)
WorkerStarts(t) ==
  /\ t \in commanded
  /\ Report(t, "WORKING", 2)
  /\ UNCHANGED <<registryVars, missed, gatewayVars>>

(* Mutant of Finish: the report has the number of the WORKING one. *)
FinishAsSecond(t, s) ==
  /\ execution[t] = At("running")
  /\ Report(t, s, 2)
  /\ Goes(t, Settling(s))
  /\ UNCHANGED <<registryVars, missed, live, commanded>>

(* The result of the agent, its failure, or the end of the wait for it. *)
Finish(t, s) ==
  /\ execution[t] = At("running")
  /\ Report(t, s, 3)
  /\ Goes(t, Settling(s))
  /\ UNCHANGED <<registryVars, missed, live, commanded>>

(* The report was answered or given up; the A2A task takes its state. *)
Settle(t) ==
  /\ execution[t].at = "settling"
  /\ live' = [live EXCEPT ![t] = execution[t].to]
  /\ Goes(t, Ended)
  /\ UNCHANGED <<registryVars, network, missed, commanded>>

(* The A2A server ends execute() when a client cancels the task. *)
Cancel(t) ==
  /\ live[t] \in ActiveState
  /\ live' = [live EXCEPT ![t] = "CANCELED"]
  /\ Report(t, "CANCELED", 4)
  /\ Goes(t, Ended)
  /\ UNCHANGED <<registryVars, missed, commanded>>

-----------------------------------------------------------------------------
GatewayStep(t) ==
  \/ Accept(t) \/ LookupFails(t) \/ Start(t) \/ Settle(t) \/ Cancel(t) \/ WorkerStarts(t)
  \/ \E s \in {"REJECTED", "INPUT_REQUIRED"} : TurnDown(t, s)
  \/ \E s \in {"COMPLETED", "FAILED"} : Finish(t, s)

RegistryStep ==
  \/ \E e \in network : Receive(e) \/ Refuse(e) \/ Lose(e)
  \/ \E t \in NativeTask, s \in NativeState : ReportUnnumbered(t, s)
  \/ DeleteAgent
  \/ RegisterAgent

Next ==
  /\ RegistryStep \/ \E t \in Task : GatewayStep(t)
  /\ UNCHANGED queued

Spec == Init /\ [][Next]_vars

-----------------------------------------------------------------------------
(* Properties. *)

(* In whatever order the events of a task arrive, its latest state is the  *)
(* one with the highest number among those in its timeline.                *)
ProjectionIsLatest ==
  \A t \in AnyTask :
    LET events == {e \in Recorded : e.task = t} IN
    IF events = {} THEN runs[t] = NoRun
    ELSE /\ runs[t].seq = Max({e.seq : e \in events})
         /\ [task |-> t, seq |-> runs[t].seq, state |-> runs[t].state] \in events

(* README.md: late events cannot roll the latest task state back.  Once a  *)
(* task is shown as finished, no late report of the Gateway or of a worker *)
(* that runs its command again shows it as active, short of the agent      *)
(* being deleted. *)
StaysTerminal ==
  \A t \in Task :
    runs[t].state \in TerminalState /\ registered' => runs'[t].state \in TerminalState

TerminalStays == [][StaysTerminal]_vars

(* When no report is under way and none went missing, the Registry shows   *)
(* the state in which the Gateway left the task.                           *)
Quiet == network = {} /\ ~missed

AgreesWhenQuiet ==
  \A t \in Task : Quiet /\ live[t] # "NONE" /\ execution[t] = Ended =>
    runs[t].state = live[t]

-----------------------------------------------------------------------------
(* What these rest on. *)

Reported == network \cup Recorded

(* What the Gateway and the workers report, and the number that goes with  *)
(* each state.                                                             *)
Reportable ==
  {"SUBMITTED", "WORKING", "REJECTED", "INPUT_REQUIRED", "COMPLETED", "FAILED", "CANCELED"}

Number(s) ==
  CASE s = "SUBMITTED" -> 1
    [] s \in {"WORKING", "REJECTED", "INPUT_REQUIRED"} -> 2
    [] s \in {"COMPLETED", "FAILED"} -> 3
    [] OTHER -> 4

NumbersKept ==
  /\ \A e \in network : e.task \in Task
  /\ \A e \in Reported : e.task \in Task => e.seq = Number(e.state) /\ e.state \in Reportable
  /\ \A t \in NativeTask : runs[t].seq <= Len(timeline)

LatestKept ==
  \A t \in AnyTask :
    \/ /\ \A e \in Recorded : e.task # t
       /\ runs[t] = NoRun
    \/ /\ [task |-> t, seq |-> runs[t].seq, state |-> runs[t].state] \in Recorded
       /\ \A e \in Recorded : e.task = t => e.seq <= runs[t].seq

(* What the Gateway reported last, or leaves to a worker to report. *)
LastOf(e, l) ==
  CASE e = At("accepted") -> "SUBMITTED"
    [] e = At("running") -> "WORKING"
    [] e.at = "settling" -> e.to
    [] OTHER -> l

LastState(t) == LastOf(execution[t], live[t])
LastEvent(t) == [task |-> t, seq |-> Number(LastState(t)), state |-> LastState(t)]

(* As long as a task is executed once: nothing else has been reported with *)
(* the last number or a higher one, and that report is not lost.           *)
InOrder(t) ==
  /\ live[t] = "NONE" => execution[t] = Ended /\ t \notin commanded
  /\ execution[t] = At("accepted") => live[t] = "SUBMITTED"
  /\ t \in commanded => LastState(t) \in {"WORKING", "COMPLETED", "FAILED", "CANCELED"}
  /\ \A e \in Reported : e.task = t =>
       /\ live[t] # "NONE"
       /\ e.seq <= Number(LastState(t))
       /\ e.seq = Number(LastState(t)) => e = LastEvent(t)
  /\ ~missed /\ live[t] # "NONE" /\ execution[t] # At("running") => LastEvent(t) \in Reported

ReportsInOrder == \A t \in Task : InOrder(t)

(* The steps of an execution. *)
ExecutionKept ==
  /\ ~registered => missed
  /\ \A t \in Task :
       /\ execution[t] \in {Ended, At("accepted"), At("running")}
                           \cup {Settling(s) : s \in Reportable}
       /\ live[t] \in Reportable \cup {"NONE"}

IInv ==
  /\ TypeOK /\ NumbersKept /\ LatestKept /\ ExecutionKept
  /\ ~FollowUps => ReportsInOrder
=============================================================================
