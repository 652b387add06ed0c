------------------------- MODULE TaskProjectionProofs ------------------------
(***************************************************************************)
(* Proofs about TaskProjection, for any number of tasks and events.        *)
(*                                                                         *)
(* The argument: the number of a report follows from its state, so what is *)
(* reported later in an execution has a higher number, and the Registry    *)
(* keeps of each task the event with the highest number it has.            *)
(***************************************************************************)
EXTENDS TaskProjection, SequenceTheorems, TLAPS

-----------------------------------------------------------------------------
(* The timeline and the numbers. *)

LEMMA EventFields ==
  \A e \in Event : /\ e.task \in AnyTask /\ e.seq \in 1 .. MaxEvents + 4 /\ e.seq \in Nat
                   /\ e.seq > 0 /\ e.state \in State
                   /\ e = [task |-> e.task, seq |-> e.seq, state |-> e.state]
BY ProjectionAssumption DEF Event

LEMMA RunFields ==
  \A r \in Run : /\ r.seq \in 0 .. MaxEvents + 4 /\ r.seq \in Nat /\ r.state \in State \cup {"NONE"}
                 /\ r = [state |-> r.state, seq |-> r.seq]
BY ProjectionAssumption DEF Run

LEMMA ReportIsEvent ==
  ASSUME NEW t \in AnyTask, NEW s \in State, NEW n \in 1 .. 4
  PROVE  [task |-> t, seq |-> n, state |-> s] \in Event
<1>1. n \in 1 .. MaxEvents + 4
  BY ProjectionAssumption
<1>2. QED
  BY <1>1 DEF Event

LEMMA RecordedTypes ==
  ASSUME TypeOK
  PROVE  /\ Recorded \subseteq Event /\ Reported \subseteq Event /\ Len(timeline) \in Nat
         /\ timeline \in Seq(Event)
BY DEF TypeOK, Recorded, Reported

LEMMA RecordedAppended ==
  ASSUME TypeOK, NEW e \in Event, timeline' = Append(timeline, e)
  PROVE  /\ timeline' \in Seq(Event) /\ Len(timeline') = Len(timeline) + 1
         /\ Recorded' = Recorded \cup {e}
<1>1. timeline \in Seq(Event)
  BY DEF TypeOK
<1>2. /\ timeline' \in Seq(Event) /\ Len(timeline') = Len(timeline) + 1
      /\ DOMAIN timeline = 1 .. Len(timeline) /\ Len(timeline) \in Nat
      /\ DOMAIN timeline' = 1 .. Len(timeline) + 1
      /\ timeline'[Len(timeline) + 1] = e
      /\ \A i \in 1 .. Len(timeline) : timeline'[i] = timeline[i]
  BY <1>1
<1>3. \A x : x \in Recorded' <=> x \in Recorded \/ x = e
  <2>1. ASSUME NEW x, x \in Recorded' PROVE x \in Recorded \/ x = e
    <3>1. PICK i \in DOMAIN timeline' : x = timeline'[i]
      BY <2>1 DEF Recorded
    <3>2. CASE i = Len(timeline) + 1
      BY <1>2, <3>1, <3>2
    <3>3. CASE i # Len(timeline) + 1
      BY <1>2, <3>1, <3>3 DEF Recorded
    <3>4. QED
      BY <3>2, <3>3
  <2>2. ASSUME NEW x, x \in Recorded \/ x = e PROVE x \in Recorded'
    <3>1. CASE x = e
      BY <1>2, <3>1 DEF Recorded
    <3>2. CASE x \in Recorded
      <4>1. PICK i \in DOMAIN timeline : x = timeline[i]
        BY <3>2 DEF Recorded
      <4>2. i \in DOMAIN timeline' /\ timeline'[i] = x
        BY <1>2, <4>1
      <4>3. QED
        BY <4>2 DEF Recorded
    <3>3. QED
      BY <2>2, <3>1, <3>2
  <2>3. QED
    BY <2>1, <2>2
<1>4. QED
  BY <1>2, <1>3

LEMMA Numbers ==
  /\ Number("SUBMITTED") = 1
  /\ Number("WORKING") = 2 /\ Number("REJECTED") = 2 /\ Number("INPUT_REQUIRED") = 2
  /\ Number("COMPLETED") = 3 /\ Number("FAILED") = 3
  /\ Number("CANCELED") = 4
  /\ \A s \in State : Number(s) \in 1 .. 4
  /\ Reportable \subseteq State
BY DEF Number, State, TerminalState, ActiveState, Reportable

(* The steps of the Registry, and of the network. *)
LEMMA LatestIsRun ==
  ASSUME NEW r \in Run, NEW e \in Event
  PROVE  Latest(r, e) \in Run
<1>1. e.seq \in 0 .. MaxEvents + 4 /\ e.state \in State
  BY EventFields, ProjectionAssumption
<1>2. QED
  BY <1>1 DEF Latest, Run

LEMMA InsertTypes ==
  ASSUME TypeOK, NEW e \in Event, Insert(e)
  PROVE  /\ timeline' \in Seq(Event) /\ runs' \in [AnyTask -> Run]
         /\ Recorded' = Recorded \cup {e} /\ Len(timeline') = Len(timeline) + 1
         /\ Len(timeline') <= MaxEvents
         /\ runs'[e.task] = Latest(runs[e.task], e)
         /\ \A t \in AnyTask : t # e.task => runs'[t] = runs[t]
<1>1. runs' = [runs EXCEPT ![e.task] = Latest(runs[e.task], e)] /\ timeline' = Append(timeline, e)
  BY DEF Insert
<1>2. e.task \in AnyTask /\ runs[e.task] \in Run
  BY EventFields DEF TypeOK
<1>3. Latest(runs[e.task], e) \in Run
  BY <1>2, LatestIsRun
<1>4. /\ runs' \in [AnyTask -> Run] /\ runs'[e.task] = Latest(runs[e.task], e)
      /\ \A t \in AnyTask : t # e.task => runs'[t] = runs[t]
  BY <1>1, <1>2, <1>3 DEF TypeOK
<1>5. Len(timeline') <= MaxEvents
  BY <1>1, RecordedAppended, RecordedTypes, ProjectionAssumption DEF Insert
<1>6. QED
  BY <1>1, <1>4, <1>5, RecordedAppended

(* What follows an unnumbered event of a task is numbered after it. *)
LEMMA UnnumberedIsEvent ==
  ASSUME TypeOK, NumbersKept, NEW t \in NativeTask, NEW s \in NativeState,
         ReportUnnumbered(t, s)
  PROVE  [task |-> t, seq |-> runs[t].seq + 1, state |-> s] \in Event
<1>1. /\ runs[t].seq \in Nat /\ runs[t].seq <= Len(timeline) /\ Len(timeline) < MaxEvents
      /\ Len(timeline) \in Nat
  BY RunFields, RecordedTypes DEF TypeOK, NumbersKept, ReportUnnumbered, Insert, AnyTask
<1>2. runs[t].seq + 1 \in 1 .. MaxEvents + 4
  BY <1>1, ProjectionAssumption
<1>3. QED
  BY <1>2, NativeStateAssumption DEF Event, AnyTask

(* What a step of the Gateway or of a worker changes. *)
Reports(t) ==
  \/ UNCHANGED network
  \/ \E s \in Reportable :
       network' = network \cup {[task |-> t, seq |-> Number(s), state |-> s]}

LEMMA GatewayFacts ==
  ASSUME TypeOK, NEW t \in Task, GatewayStep(t)
  PROVE  /\ UNCHANGED <<registered, timeline, runs, missed>> /\ Reports(t)
         /\ live' \in [Task -> State \cup {"NONE"}] /\ execution' \in [Task -> Execution]
         /\ commanded' \in SUBSET Task
         /\ \A u \in Task : u # t => live'[u] = live[u] /\ execution'[u] = execution[u]
                                     /\ (u \in commanded' <=> u \in commanded)
<1>1. /\ {"SUBMITTED", "WORKING", "REJECTED", "INPUT_REQUIRED", "COMPLETED", "FAILED", "CANCELED"}
           \subseteq Reportable
      /\ Reportable \subseteq State
  BY Numbers DEF Reportable
<1>2. /\ Ended \in Execution /\ At("accepted") \in Execution /\ At("running") \in Execution
      /\ \A s \in State : Settling(s) \in Execution
  BY DEF Ended, At, Settling, Execution
<1>3. /\ live \in [Task -> State \cup {"NONE"}] /\ execution \in [Task -> Execution]
      /\ commanded \in SUBSET Task
  BY DEF TypeOK
<1> USE DEF registryVars, gatewayVars, Reports, Report, Goes
<1>4. CASE Accept(t)
  BY <1>1, <1>2, <1>3, <1>4, Numbers DEF Accept
<1>5. ASSUME NEW s \in {"REJECTED", "INPUT_REQUIRED"}, TurnDown(t, s)
      PROVE  /\ execution' = [execution EXCEPT ![t] = Settling(s)] /\ s \in State /\ Reports(t)
             /\ UNCHANGED <<registered, timeline, runs, missed, live, commanded>>
  BY <1>1, <1>5, Numbers DEF TurnDown
<1>6. ASSUME NEW s \in {"COMPLETED", "FAILED"}, Finish(t, s)
      PROVE  /\ execution' = [execution EXCEPT ![t] = Settling(s)] /\ s \in State /\ Reports(t)
             /\ UNCHANGED <<registered, timeline, runs, missed, live, commanded>>
  BY <1>1, <1>6, Numbers DEF Finish
<1>7. CASE \E s \in State : /\ execution' = [execution EXCEPT ![t] = Settling(s)] /\ Reports(t)
                            /\ UNCHANGED <<registered, timeline, runs, missed, live, commanded>>
  BY <1>2, <1>3, <1>7
<1>8. CASE LookupFails(t)
  BY <1>2, <1>3, <1>8 DEF LookupFails
<1>9. CASE Start(t)
  BY <1>1, <1>2, <1>3, <1>9, Numbers DEF Start
<1>10. CASE WorkerStarts(t)
  BY <1>1, <1>3, <1>10, Numbers DEF WorkerStarts
<1>11. CASE Settle(t)
  <2>1. execution[t].to \in State \cup {"NONE"}
    BY <1>3 DEF Execution
  <2>2. QED
    BY <1>2, <1>3, <1>11, <2>1 DEF Settle
<1>12. CASE Cancel(t)
  BY <1>1, <1>2, <1>3, <1>12, Numbers DEF Cancel
<1>13. QED
  BY <1>4, <1>5, <1>6, <1>7, <1>8, <1>9, <1>10, <1>11, <1>12 DEF GatewayStep

LEMMA ReportsEvents ==
  ASSUME TypeOK, NEW t \in Task, Reports(t)
  PROVE  /\ network' \in SUBSET Event
         /\ network \subseteq network'
         /\ \A e \in network' : e \in network \/ (e.task = t /\ e.seq = Number(e.state)
                                                  /\ e.state \in Reportable)
<1>1. CASE UNCHANGED network
  BY <1>1 DEF TypeOK
<1>2. ASSUME NEW s \in Reportable,
             network' = network \cup {[task |-> t, seq |-> Number(s), state |-> s]}
      PROVE  /\ network' \in SUBSET Event
             /\ network \subseteq network'
             /\ \A e \in network' : e \in network \/ (e.task = t /\ e.seq = Number(e.state)
                                                      /\ e.state \in Reportable)
  <2> DEFINE n == [task |-> t, seq |-> Number(s), state |-> s]
  <2>1. n \in Event /\ n.task = t /\ n.seq = Number(n.state) /\ n.state \in Reportable
    BY Numbers, ReportIsEvent DEF AnyTask
  <2> HIDE DEF n
  <2>2. network' = network \cup {n}
    BY <1>2 DEF n
  <2>3. QED
    BY <2>1, <2>2 DEF TypeOK
<1>3. QED
  BY <1>1, <1>2 DEF Reports

-----------------------------------------------------------------------------
(* The type invariant. *)

LEMMA InitIInv == Init => IInv
<1> SUFFICES ASSUME Init PROVE IInv
  OBVIOUS
<1> USE DEF Init
<1>1. TypeOK
  <2>1. /\ NoRun \in Run /\ Ended \in Execution /\ timeline \in Seq(Event)
        /\ network \in SUBSET Event
    BY ProjectionAssumption DEF NoRun, Run, Ended, Execution
  <2>2. QED
    BY <2>1 DEF TypeOK
<1>2. Recorded = {} /\ Reported = {} /\ Len(timeline) = 0
  BY DEF Recorded, Reported
<1>3. NumbersKept
  BY <1>2 DEF NumbersKept, NoRun, AnyTask
<1>4. LatestKept
  BY <1>2 DEF LatestKept
<1>5. ExecutionKept
  BY DEF ExecutionKept
<1>6. Ended # At("accepted") /\ Ended # At("running")
  BY DEF Ended, At
<1>7. ReportsInOrder
  BY <1>2, <1>6 DEF ReportsInOrder, InOrder
<1>8. QED
  BY <1>1, <1>3, <1>4, <1>5, <1>7 DEF IInv

LEMMA TypesKept == IInv /\ [Next]_vars => TypeOK'
<1> SUFFICES ASSUME IInv, [Next]_vars PROVE TypeOK'
  OBVIOUS
<1> USE DEF IInv
<1>1. TypeOK
  OBVIOUS
<1>2. CASE UNCHANGED vars
  BY <1>1, <1>2 DEF TypeOK, vars, registryVars, gatewayVars
<1>3. ASSUME NEW e \in network, Receive(e), UNCHANGED queued PROVE TypeOK'
  <2>1. e \in Event
    BY <1>1 DEF TypeOK
  <2>2. timeline' \in Seq(Event) /\ runs' \in [AnyTask -> Run]
    BY <1>1, <1>3, <2>1, InsertTypes DEF Receive, TypeOK
  <2>3. QED
    BY <1>1, <1>3, <2>2 DEF Receive, TypeOK, gatewayVars
<1>4. ASSUME NEW e \in network, Refuse(e) \/ Lose(e), UNCHANGED queued PROVE TypeOK'
  BY <1>1, <1>4 DEF Refuse, Lose, TypeOK, registryVars, gatewayVars
<1>5. ASSUME NEW t \in NativeTask, NEW s \in NativeState, ReportUnnumbered(t, s), UNCHANGED queued
      PROVE TypeOK'
  <2>1. timeline' \in Seq(Event) /\ runs' \in [AnyTask -> Run]
    BY <1>1, <1>5, UnnumberedIsEvent, InsertTypes DEF ReportUnnumbered
  <2>2. QED
    BY <1>1, <1>5, <2>1 DEF ReportUnnumbered, TypeOK, gatewayVars
<1>6. ASSUME DeleteAgent, UNCHANGED queued PROVE TypeOK'
  <2>1. NoRun \in Run /\ timeline' \in Seq(Event)
    BY <1>6, ProjectionAssumption DEF NoRun, Run, DeleteAgent
  <2>2. QED
    BY <1>1, <1>6, <2>1 DEF DeleteAgent, TypeOK, gatewayVars
<1>7. ASSUME RegisterAgent, UNCHANGED queued PROVE TypeOK'
  BY <1>1, <1>7 DEF RegisterAgent, TypeOK, gatewayVars
<1>8. ASSUME NEW t \in Task, GatewayStep(t), UNCHANGED queued PROVE TypeOK'
  <2>1. network' \in SUBSET Event
    BY <1>1, <1>8, GatewayFacts, ReportsEvents
  <2>2. QED
    BY <1>1, <1>8, <2>1, GatewayFacts DEF TypeOK
<1>9. QED
  BY <1>2, <1>3, <1>4, <1>5, <1>6, <1>7, <1>8 DEF Next, RegistryStep

-----------------------------------------------------------------------------
(* The timeline and the latest states. *)

(* What a recorded event makes of the numbers and of the latest state. *)
LEMMA InsertKeeps ==
  ASSUME TypeOK, LatestKept, NEW e \in Event, Insert(e)
  PROVE  LatestKept'
<1>1. /\ Recorded' = Recorded \cup {e} /\ e.task \in AnyTask
      /\ runs'[e.task] = Latest(runs[e.task], e)
      /\ \A t \in AnyTask : t # e.task => runs'[t] = runs[t]
  BY InsertTypes, EventFields
<1>2. ASSUME NEW t \in AnyTask
      PROVE  \/ /\ \A f \in Recorded' : f.task # t
                /\ runs'[t] = NoRun
             \/ /\ [task |-> t, seq |-> runs'[t].seq, state |-> runs'[t].state] \in Recorded'
                /\ \A f \in Recorded' : f.task = t => f.seq <= runs'[t].seq
  <2>1. CASE t # e.task
    BY <1>1, <2>1 DEF LatestKept
  <2>2. CASE t = e.task
    <3>1. /\ runs[t].seq \in Nat /\ e.seq \in Nat /\ e.seq > 0
          /\ e = [task |-> t, seq |-> e.seq, state |-> e.state]
          /\ \A f \in Recorded : f.seq \in Nat
      BY <2>2, EventFields, RunFields, RecordedTypes DEF TypeOK
    <3>2. \A f \in Recorded : f.task = t => f.seq <= runs[t].seq
      BY DEF LatestKept
    <3>3. CASE e.seq > runs[t].seq
      <4>1. runs'[t].seq = e.seq /\ runs'[t].state = e.state
        BY <1>1, <2>2, <3>3 DEF Latest
      <4>2. \A f \in Recorded' : f.task = t => f.seq <= e.seq
        BY <1>1, <3>1, <3>2, <3>3
      <4>3. QED
        BY <1>1, <3>1, <4>1, <4>2
    <3>4. CASE ~(e.seq > runs[t].seq)
      <4>1. runs'[t] = runs[t]
        BY <1>1, <2>2, <3>4 DEF Latest
      <4>2. runs[t].seq # 0 /\ e.seq <= runs[t].seq
        BY <3>1, <3>4
      <4>3. [task |-> t, seq |-> runs[t].seq, state |-> runs[t].state] \in Recorded
        BY <4>2 DEF LatestKept, NoRun
      <4>4. QED
        BY <1>1, <3>2, <4>1, <4>2, <4>3
    <3>5. QED
      BY <3>3, <3>4
  <2>3. QED
    BY <2>1, <2>2
<1>3. QED
  BY <1>2 DEF LatestKept

LEMMA TimelineKept == IInv /\ [Next]_vars => NumbersKept' /\ LatestKept'
<1> SUFFICES ASSUME IInv, [Next]_vars PROVE NumbersKept' /\ LatestKept'
  OBVIOUS
<1> USE DEF IInv
<1>1. /\ TypeOK /\ NumbersKept /\ LatestKept /\ Reported = network \cup Recorded
      /\ Reported' = network' \cup Recorded'
  BY DEF Reported
<1>2. ASSUME UNCHANGED <<timeline, runs>>, \A e \in network' : e \in network
      PROVE  NumbersKept' /\ LatestKept'
  <2>1. Recorded' = Recorded
    BY <1>2 DEF Recorded
  <2>2. QED
    BY <1>1, <1>2, <2>1 DEF NumbersKept, LatestKept
<1>3. ASSUME NEW e \in network, Receive(e), ~IsDuplicate(e) PROVE NumbersKept' /\ LatestKept'
  <2>1. e \in Event /\ Insert(e) /\ e.task \in Task /\ network' = network \ {e}
    BY <1>1, <1>3 DEF TypeOK, Receive, NumbersKept
  <2>2. /\ Recorded' = Recorded \cup {e} /\ Len(timeline') = Len(timeline) + 1
        /\ \A t \in AnyTask : t # e.task => runs'[t] = runs[t]
    BY <1>1, <2>1, InsertTypes
  <2>3. \A t \in NativeTask : runs'[t].seq <= Len(timeline')
    <3>1. \A t \in NativeTask : runs[t].seq \in Nat /\ runs[t].seq <= Len(timeline)
      BY <1>1, RunFields DEF NumbersKept, TypeOK, AnyTask
    <3>2. \A t \in NativeTask : t \in AnyTask /\ t # e.task
      BY <2>1, ProjectionAssumption DEF AnyTask
    <3>3. QED
      BY <1>1, <2>2, <3>1, <3>2, RecordedTypes
  <2>4. Reported' \subseteq Reported
    BY <1>1, <2>1, <2>2
  <2>5. QED
    BY <1>1, <2>1, <2>3, <2>4, InsertKeeps DEF NumbersKept
<1>4. ASSUME NEW t \in NativeTask, NEW s \in NativeState, ReportUnnumbered(t, s)
      PROVE  NumbersKept' /\ LatestKept'
  <2> DEFINE e == [task |-> t, seq |-> runs[t].seq + 1, state |-> s]
  <2>1. e \in Event /\ Insert(e) /\ e.task = t /\ e.seq = runs[t].seq + 1 /\ network' = network
    BY <1>1, <1>4, UnnumberedIsEvent DEF ReportUnnumbered
  <2> HIDE DEF e
  <2>2. /\ Recorded' = Recorded \cup {e} /\ Len(timeline') = Len(timeline) + 1
        /\ runs'[t] = Latest(runs[t], e)
        /\ \A u \in AnyTask : u # t => runs'[u] = runs[u]
    BY <1>1, <2>1, InsertTypes
  <2>3. \A u \in NativeTask : runs'[u].seq <= Len(timeline')
    <3>1. \A u \in NativeTask : runs[u].seq \in Nat /\ runs[u].seq <= Len(timeline)
      BY <1>1, RunFields DEF NumbersKept, TypeOK, AnyTask
    <3>2. runs'[t].seq = runs[t].seq + 1
      BY <2>1, <2>2, <3>1 DEF Latest
    <3>3. QED
      BY <1>1, <2>2, <3>1, <3>2, RecordedTypes DEF AnyTask
  <2>4. t \notin Task
    BY ProjectionAssumption
  <2>5. \A f \in Reported' : f \in Reported \/ f.task \notin Task
    BY <1>1, <2>1, <2>2, <2>4
  <2>6. QED
    BY <1>1, <2>1, <2>3, <2>5, InsertKeeps DEF NumbersKept
<1>5. ASSUME DeleteAgent PROVE NumbersKept' /\ LatestKept'
  <2>1. /\ Recorded' = {} /\ network' = network /\ Len(timeline') = 0
        /\ \A t \in AnyTask : runs'[t] = NoRun
    BY <1>5 DEF DeleteAgent, Recorded
  <2>2. LatestKept'
    BY <2>1 DEF LatestKept
  <2>3. NumbersKept'
    BY <1>1, <2>1 DEF NumbersKept, NoRun, AnyTask
  <2>4. QED
    BY <2>2, <2>3
<1>6. ASSUME NEW t \in Task, GatewayStep(t) PROVE NumbersKept' /\ LatestKept'
  <2>1. /\ UNCHANGED <<timeline, runs>>
        /\ \A e \in network' : e \in network \/ (e.task = t /\ e.seq = Number(e.state)
                                                 /\ e.state \in Reportable)
    BY <1>1, <1>6, GatewayFacts, ReportsEvents
  <2>2. Recorded' = Recorded
    BY <2>1 DEF Recorded
  <2>3. QED
    BY <1>1, <2>1, <2>2 DEF NumbersKept, LatestKept
<1>7. CASE UNCHANGED vars
  BY <1>2, <1>7 DEF vars, registryVars
<1>8. ASSUME NEW e \in network, Receive(e) \/ Refuse(e) \/ Lose(e)
      PROVE  NumbersKept' /\ LatestKept'
  BY <1>2, <1>3, <1>8 DEF Receive, Refuse, Lose, registryVars
<1>9. CASE RegisterAgent
  BY <1>2, <1>9 DEF RegisterAgent
<1>10. QED
  BY <1>4, <1>5, <1>6, <1>7, <1>8, <1>9 DEF Next, RegistryStep

-----------------------------------------------------------------------------
(* The steps of an execution. *)

LEMMA LastStates ==
  \A l : /\ LastOf(At("accepted"), l) = "SUBMITTED" /\ LastOf(At("running"), l) = "WORKING"
         /\ LastOf(Ended, l) = l /\ \A s : LastOf(Settling(s), l) = s
BY DEF LastOf, At, Ended, Settling

LEMMA Places ==
  /\ Ended # At("accepted") /\ Ended # At("running") /\ At("accepted") # At("running")
  /\ \A s : Settling(s) \notin {Ended, At("accepted"), At("running")} /\ Settling(s).to = s
            /\ Settling(s).at = "settling"
  /\ Ended.at # "settling" /\ At("accepted").at # "settling" /\ At("running").at # "settling"
BY DEF At, Ended, Settling

LEMMA ExecutionPreserved == IInv /\ [Next]_vars => ExecutionKept'
<1> SUFFICES ASSUME IInv, [Next]_vars PROVE ExecutionKept'
  OBVIOUS
<1> USE DEF IInv
<1>1. ASSUME UNCHANGED <<live, execution>>, ~registered' => missed' PROVE ExecutionKept'
  BY <1>1 DEF ExecutionKept
<1>2. CASE UNCHANGED vars
  BY <1>1, <1>2 DEF vars, registryVars, gatewayVars, ExecutionKept
<1>3. CASE RegistryStep
  BY <1>1, <1>3 DEF RegistryStep, Receive, Refuse, Lose, ReportUnnumbered, DeleteAgent,
     RegisterAgent, registryVars, gatewayVars, ExecutionKept
<1>4. ASSUME NEW t \in Task, GatewayStep(t) PROVE ExecutionKept'
  <2>1. /\ UNCHANGED <<registered, missed>>
        /\ \A u \in Task : u # t => live'[u] = live[u] /\ execution'[u] = execution[u]
        /\ execution \in [Task -> Execution] /\ live \in [Task -> State \cup {"NONE"}]
    BY <1>4, GatewayFacts DEF TypeOK
  <2> DEFINE Places0 == {Ended, At("accepted"), At("running")} \cup {Settling(s) : s \in Reportable}
  <2>2. /\ Ended \in Places0 /\ At("accepted") \in Places0 /\ At("running") \in Places0
        /\ \A s \in Reportable : Settling(s) \in Places0
        /\ execution[t] \in Places0 /\ live[t] \in Reportable \cup {"NONE"}
        /\ execution[t].at = "settling" => execution[t].to \in Reportable
    BY Places DEF ExecutionKept
  <2> HIDE DEF Places0
  <2>3. execution'[t] \in Places0 /\ live'[t] \in Reportable \cup {"NONE"}
    <3>1. CASE Accept(t) \/ LookupFails(t) \/ Start(t) \/ Cancel(t) \/ WorkerStarts(t)
      BY <2>1, <2>2, <3>1 DEF Accept, LookupFails, Start, Cancel, WorkerStarts, Goes, Reportable,
         gatewayVars
    <3>2. CASE Settle(t)
      BY <2>1, <2>2, <3>2 DEF Settle, Goes
    <3>3. ASSUME NEW s \in {"REJECTED", "INPUT_REQUIRED"}, TurnDown(t, s)
          PROVE execution'[t] \in Places0 /\ live'[t] \in Reportable \cup {"NONE"}
      BY <2>1, <2>2, <3>3 DEF TurnDown, Goes, Reportable
    <3>4. ASSUME NEW s \in {"COMPLETED", "FAILED"}, Finish(t, s)
          PROVE execution'[t] \in Places0 /\ live'[t] \in Reportable \cup {"NONE"}
      BY <2>1, <2>2, <3>4 DEF Finish, Goes, Reportable
    <3>5. QED
      BY <1>4, <3>1, <3>2, <3>3, <3>4 DEF GatewayStep
  <2>4. QED
    BY <2>1, <2>3 DEF ExecutionKept, Places0
<1>5. QED
  BY <1>2, <1>3, <1>4 DEF Next

-----------------------------------------------------------------------------
(* The reports of a task that is executed once. *)

LEMMA LastIsNumbered ==
  ASSUME ExecutionKept, NEW t \in Task, live[t] # "NONE"
  PROVE  /\ LastState(t) \in Reportable /\ Number(LastState(t)) \in 1 .. 4
         /\ LastEvent(t).task = t /\ LastEvent(t).seq = Number(LastState(t))
<1>1. LastState(t) \in Reportable
  <2>1. live[t] \in Reportable
    BY DEF ExecutionKept
  <2>2. CASE execution[t] \in {Ended, At("accepted"), At("running")}
    BY <2>1, <2>2, LastStates DEF LastState, Reportable
  <2>3. CASE \E s \in Reportable : execution[t] = Settling(s)
    BY <2>3, LastStates DEF LastState
  <2>4. QED
    BY <2>2, <2>3 DEF ExecutionKept
<1>2. QED
  BY <1>1, Numbers DEF LastEvent

(* A step that leaves the task alone, and loses its last report only if    *)
(* that counts as missed.                                                  *)
LEMMA OrderKept ==
  ASSUME NEW t \in Task, InOrder(t),
         live'[t] = live[t], execution'[t] = execution[t], t \in commanded' <=> t \in commanded,
         \A e \in Reported' : e.task = t => e \in Reported,
         ~missed' => ~missed /\ (LastEvent(t) \in Reported => LastEvent(t) \in Reported')
  PROVE  InOrder(t)'
<1>1. LastState(t)' = LastState(t) /\ LastEvent(t)' = LastEvent(t)
  BY DEF LastState, LastEvent
<1>2. QED
  BY <1>1 DEF InOrder

LEMMA RegistryKeepsOrder ==
  ASSUME IInv, ~FollowUps, RegistryStep
  PROVE  ReportsInOrder'
<1> SUFFICES ASSUME NEW t \in Task PROVE InOrder(t)'
  BY DEF ReportsInOrder
<1> USE DEF IInv
<1>1. /\ InOrder(t) /\ TypeOK /\ Reported = network \cup Recorded
      /\ Reported' = network' \cup Recorded'
  BY DEF ReportsInOrder, Reported
<1>2. /\ live'[t] = live[t] /\ execution'[t] = execution[t]
      /\ t \in commanded' <=> t \in commanded
  BY DEF RegistryStep, Receive, Refuse, Lose, ReportUnnumbered, DeleteAgent, RegisterAgent,
     gatewayVars
<1>3. ASSUME NEW e \in network, Receive(e) PROVE InOrder(t)'
  <2>1. network' = network \ {e} /\ e \in Event /\ missed' = missed
    BY <1>1, <1>3 DEF Receive, TypeOK
  <2>2. CASE IsDuplicate(e)
    <3>1. Recorded' = Recorded
      BY <1>3, <2>2 DEF Receive, Recorded
    <3>2. PICK r \in Recorded : r.task = e.task /\ r.seq = e.seq
      BY <2>2 DEF IsDuplicate
    <3>3. e = LastEvent(t) => r = LastEvent(t)
      <4>1. SUFFICES ASSUME e = LastEvent(t) PROVE r = LastEvent(t)
        OBVIOUS
      <4>2. r.task = t /\ r.seq = Number(LastState(t)) /\ r \in Reported
        BY <1>1, <3>2, <4>1 DEF LastEvent
      <4>3. QED
        BY <1>1, <4>2 DEF InOrder
    <3>4. LastEvent(t) \in Reported => LastEvent(t) \in Reported'
      BY <1>1, <2>1, <3>1, <3>2, <3>3
    <3>5. QED
      BY <1>1, <1>2, <2>1, <3>1, <3>4, OrderKept
  <2>3. CASE ~IsDuplicate(e)
    <3>1. Recorded' = Recorded \cup {e}
      BY <1>1, <1>3, <2>1, <2>3, InsertTypes DEF Receive
    <3>2. QED
      BY <1>1, <1>2, <2>1, <3>1, OrderKept
  <2>4. QED
    BY <2>2, <2>3
<1>4. ASSUME NEW e \in network, Refuse(e) \/ Lose(e) PROVE InOrder(t)'
  <2>1. network' = network \ {e} /\ missed' /\ Recorded' = Recorded
    BY <1>4 DEF Refuse, Lose, registryVars, Recorded
  <2>2. QED
    BY <1>1, <1>2, <2>1, OrderKept
<1>5. ASSUME NEW n \in NativeTask, NEW s \in NativeState, ReportUnnumbered(n, s)
      PROVE  InOrder(t)'
  <2> DEFINE e == [task |-> n, seq |-> runs[n].seq + 1, state |-> s]
  <2>1. e \in Event /\ Insert(e) /\ e.task = n /\ network' = network /\ missed' = missed
    BY <1>1, <1>5, UnnumberedIsEvent DEF ReportUnnumbered
  <2> HIDE DEF e
  <2>2. Recorded' = Recorded \cup {e}
    BY <1>1, <2>1, InsertTypes
  <2>3. e.task # t
    BY <2>1, ProjectionAssumption
  <2>4. QED
    BY <1>1, <1>2, <2>1, <2>2, <2>3, OrderKept
<1>6. CASE DeleteAgent
  <2>1. Recorded' = {} /\ network' = network /\ missed'
    BY <1>6 DEF DeleteAgent, Recorded
  <2>2. QED
    BY <1>1, <1>2, <2>1, OrderKept
<1>7. CASE RegisterAgent
  <2>1. Recorded' = Recorded /\ network' = network /\ missed' = missed
    BY <1>7 DEF RegisterAgent, Recorded
  <2>2. QED
    BY <1>1, <1>2, <2>1, OrderKept
<1>8. QED
  BY <1>3, <1>4, <1>5, <1>6, <1>7 DEF RegistryStep

(* A report goes out that has a higher number than those before it.        *)
LEMMA OrderAdvances ==
  ASSUME IInv, NEW t \in Task, NEW s \in Reportable,
         UNCHANGED <<timeline, missed>>,
         network' = network \cup {[task |-> t, seq |-> Number(s), state |-> s]},
         LastOf(execution'[t], live'[t]) = s, live'[t] # "NONE",
         \A e \in Reported : e.task = t => e.seq < Number(s) \/ e.state = s,
         execution'[t] = At("accepted") => live'[t] = "SUBMITTED",
         t \in commanded' => s \in {"WORKING", "COMPLETED", "FAILED", "CANCELED"}
  PROVE  InOrder(t)'
<1> USE DEF IInv
<1> DEFINE new == [task |-> t, seq |-> Number(s), state |-> s]
<1>1. LastEvent(t)' = new /\ new.task = t /\ new.seq = Number(s) /\ Number(s) \in 1 .. 4
  BY Numbers DEF LastState, LastEvent
<1>2. LastState(t)' = s
  BY DEF LastState
<1>3. Reported' = Reported \cup {new}
  BY DEF Reported, Recorded
<1>4. ASSUME NEW e \in Reported, e.task = t
      PROVE  e.seq <= Number(s) /\ (e.seq = Number(s) => e = new)
  <2>1. e \in Event /\ e.seq = Number(e.state)
    BY <1>4, RecordedTypes DEF NumbersKept
  <2>2. e.seq \in Nat /\ e = [task |-> e.task, seq |-> e.seq, state |-> e.state]
    BY <2>1, EventFields
  <2>3. CASE e.seq < Number(s)
    BY <1>1, <2>2, <2>3
  <2>4. CASE e.state = s
    BY <1>1, <1>4, <2>1, <2>2, <2>4
  <2>5. QED
    BY <1>4, <2>3, <2>4
<1> HIDE DEF new
<1>5. \A e \in Reported' : e.task = t => e.seq <= Number(s) /\ (e.seq = Number(s) => e = new)
  BY <1>1, <1>3, <1>4
<1>6. QED
  BY <1>1, <1>2, <1>3, <1>5 DEF InOrder

(* What is to be shown of the task that moves. *)
LEMMA OrderHolds ==
  ASSUME NEW t \in Task, NEW s, NEW new, new = [task |-> t, seq |-> Number(s), state |-> s],
         LastOf(execution'[t], live'[t]) = s, live'[t] # "NONE",
         execution'[t] = At("accepted") => live'[t] = "SUBMITTED",
         t \in commanded' => s \in {"WORKING", "COMPLETED", "FAILED", "CANCELED"},
         \A e \in Reported' : e.task = t => e.seq <= Number(s) /\ (e.seq = Number(s) => e = new),
         ~missed' /\ execution'[t] # At("running") => new \in Reported'
  PROVE  InOrder(t)'
<1>1. LastState(t)' = s /\ LastEvent(t)' = new
  BY DEF LastState, LastEvent
<1>2. QED
  BY <1>1 DEF InOrder

LEMMA GatewayKeepsOrder ==
  ASSUME IInv, ~FollowUps, NEW t \in Task, GatewayStep(t)
  PROVE  ReportsInOrder'
<1> USE DEF IInv
<1>1. /\ UNCHANGED <<registered, timeline, runs, missed>> /\ Reports(t)
      /\ \A u \in Task : u # t => live'[u] = live[u] /\ execution'[u] = execution[u]
                                  /\ (u \in commanded' <=> u \in commanded)
      /\ execution \in [Task -> Execution] /\ live \in [Task -> State \cup {"NONE"}]
      /\ TypeOK /\ InOrder(t)
  BY GatewayFacts DEF TypeOK, ReportsInOrder
<1>2. /\ network \subseteq network' /\ \A e \in network' : e \in network \/ e.task = t
      /\ Recorded' = Recorded
      /\ Reported = network \cup Recorded /\ Reported' = network' \cup Recorded
  BY <1>1, ReportsEvents DEF Recorded, Reported
<1>3. ASSUME NEW u \in Task, u # t PROVE InOrder(u)'
  <2>1. /\ InOrder(u) /\ Reported \subseteq Reported'
        /\ \A e \in Reported' : e.task = u => e \in Reported
    BY <1>2, <1>3 DEF ReportsInOrder
  <2>2. QED
    BY <1>1, <1>3, <2>1, OrderKept
<1>4. \A e \in Reported : e.task = t =>
        /\ live[t] # "NONE" /\ e.seq \in Nat /\ e.seq = Number(e.state) /\ e.state \in Reportable
        /\ e.seq <= Number(LastState(t))
        /\ e.seq = Number(LastState(t)) => e.state = LastState(t)
  BY <1>1, RecordedTypes, EventFields DEF NumbersKept, InOrder, LastEvent
<1>5. ASSUME Accept(t) PROVE InOrder(t)'
  <2>1. /\ live[t] = "NONE" /\ live'[t] = "SUBMITTED" /\ execution'[t] = At("accepted")
        /\ network' = network \cup {[task |-> t, seq |-> 1, state |-> "SUBMITTED"]}
        /\ commanded' = commanded
    BY <1>1, <1>5 DEF Accept, Report, Goes
  <2>2. t \notin commanded' /\ \A e \in Reported : e.task # t
    BY <1>1, <2>1, <1>4 DEF InOrder
  <2>3. LastOf(execution'[t], live'[t]) = "SUBMITTED"
    BY <2>1, LastStates DEF LastState
  <2>4. /\ network' = network \cup {[task |-> t, seq |-> Number("SUBMITTED"), state |-> "SUBMITTED"]}
        /\ "SUBMITTED" \in Reportable /\ live'[t] # "NONE"
    BY <2>1, Numbers DEF Reportable
  <2>5. QED
    BY <1>1, <2>1, <2>2, <2>3, <2>4, OrderAdvances
<1>6. ASSUME execution[t] = At("accepted")
      PROVE  /\ live[t] = "SUBMITTED" /\ LastState(t) = "SUBMITTED" /\ t \notin commanded
             /\ \A e \in Reported : e.task = t => e.seq <= 1
  BY <1>1, <1>4, <1>6, LastStates, Numbers DEF InOrder, LastState
<1>7. ASSUME NEW s \in {"REJECTED", "INPUT_REQUIRED"}, TurnDown(t, s) PROVE InOrder(t)'
  <2>1. /\ execution[t] = At("accepted") /\ live' = live /\ execution'[t] = Settling(s)
        /\ network' = network \cup {[task |-> t, seq |-> 2, state |-> s]}
        /\ commanded' = commanded
    BY <1>1, <1>7 DEF TurnDown, Report, Goes
  <2>2. LastOf(execution'[t], live'[t]) = s /\ execution'[t] # At("accepted")
    BY <2>1, LastStates, Places DEF LastState
  <2>3. Number(s) = 2 /\ s \in Reportable
    BY Numbers DEF Reportable
  <2>4. \A e \in Reported : e.task = t => e.seq < 2
    BY <1>4, <1>6, <2>1
  <2>5. live'[t] # "NONE" /\ t \notin commanded'
    BY <1>6, <2>1
  <2>6. QED
    BY <1>1, <2>1, <2>2, <2>3, <2>4, <2>5, OrderAdvances
<1>8. ASSUME LookupFails(t) PROVE InOrder(t)'
  <2>1. /\ execution[t] = At("accepted") /\ execution'[t] = Ended
        /\ UNCHANGED <<network, live, commanded>>
    BY <1>1, <1>8 DEF LookupFails, Goes
  <2>2. LastOf(execution'[t], live'[t]) = LastState(t)
    BY <1>6, <2>1, LastStates DEF LastState, LastEvent
  <2>3. /\ \A e \in Reported : e.task = t =>
             /\ e.seq <= Number(LastState(t)) /\ (e.seq = Number(LastState(t)) => e = LastEvent(t))
        /\ ~missed => LastEvent(t) \in Reported
    BY <1>1, <1>6, <2>1, Places DEF InOrder
  <2>4. Reported' = Reported /\ execution'[t] # At("accepted") /\ live'[t] # "NONE"
        /\ t \notin commanded'
    BY <1>2, <1>6, <2>1, Places
  <2>5. QED
    BY <1>1, <2>2, <2>3, <2>4, OrderHolds DEF LastEvent
<1>9. ASSUME Start(t) PROVE InOrder(t)'
  <2>1. /\ execution[t] = At("accepted") /\ execution'[t] = At("running") /\ live'[t] = "WORKING"
    BY <1>1, <1>9 DEF Start, Goes
  <2>2. LastOf(execution'[t], live'[t]) = "WORKING"
    BY <2>1, LastStates DEF LastState
  <2>3. CASE queued
    <3>1. network' = network
      BY <1>9, <2>3 DEF Start
    <3>2. \A e \in Reported' : e.task = t =>
            e.seq <= Number("WORKING") /\ e.seq # Number("WORKING")
      BY <1>2, <1>4, <1>6, <2>1, <3>1, Numbers
    <3>3. execution'[t] # At("accepted")
      BY <2>1, Places
    <3>4. QED
      BY <2>1, <2>2, <3>2, <3>3, OrderHolds
  <2>4. CASE ~queued
    <3>1. /\ network' = network \cup {[task |-> t, seq |-> 2, state |-> "WORKING"]}
      BY <1>9, <2>4 DEF Start, Report
    <3>2. \A e \in Reported : e.task = t => e.seq < 2
      BY <1>4, <1>6, <2>1
    <3>3. /\ network' = network \cup {[task |-> t, seq |-> Number("WORKING"), state |-> "WORKING"]}
          /\ "WORKING" \in Reportable /\ live'[t] # "NONE" /\ execution'[t] # At("accepted")
          /\ Number("WORKING") = 2
      BY <2>1, <3>1, Numbers, Places DEF Reportable
    <3>4. QED
      BY <1>1, <2>2, <3>2, <3>3, OrderAdvances
  <2>5. QED
    BY <2>3, <2>4
<1>10. ASSUME WorkerStarts(t) PROVE InOrder(t)'
  <2> DEFINE new == [task |-> t, seq |-> 2, state |-> "WORKING"]
  <2>1. /\ t \in commanded /\ UNCHANGED <<live, execution, commanded>>
        /\ network' = network \cup {new}
    BY <1>10 DEF WorkerStarts, Report, gatewayVars
  <2>2. /\ LastState(t) \in {"WORKING", "COMPLETED", "FAILED", "CANCELED"}
        /\ live[t] # "NONE"
        /\ LastOf(execution'[t], live'[t]) = LastState(t)
    BY <1>1, <2>1 DEF InOrder, LastState, LastEvent
  <2>3. /\ Number(LastState(t)) \in 2 .. 4
        /\ Number(LastState(t)) = 2 => LastState(t) = "WORKING"
    BY <2>2, Numbers
  <2>4. new.task = t /\ new.seq = 2 /\ (Number(LastState(t)) = 2 => new = LastEvent(t))
    BY <2>3 DEF LastEvent
  <2> HIDE DEF new
  <2>5. Reported' = Reported \cup {new}
    BY <1>2, <2>1
  <2>6. \A e \in Reported' : e.task = t =>
          /\ e.seq <= Number(LastState(t))
          /\ e.seq = Number(LastState(t)) => e = LastEvent(t)
    BY <1>1, <2>3, <2>4, <2>5 DEF InOrder
  <2>7. /\ live'[t] # "NONE" /\ (execution'[t] = At("accepted") => live'[t] = "SUBMITTED")
        /\ ~missed' /\ execution'[t] # At("running") => LastEvent(t) \in Reported'
    BY <1>1, <2>1, <2>2, <2>5 DEF InOrder
  <2>8. QED
    BY <2>2, <2>6, <2>7, OrderHolds DEF LastEvent
<1>11. ASSUME NEW s \in {"COMPLETED", "FAILED"}, Finish(t, s) PROVE InOrder(t)'
  <2>1. /\ execution[t] = At("running") /\ live' = live /\ execution'[t] = Settling(s)
        /\ network' = network \cup {[task |-> t, seq |-> 3, state |-> s]}
        /\ commanded' = commanded
    BY <1>1, <1>11 DEF Finish, Report, Goes
  <2>2. LastOf(execution'[t], live'[t]) = s /\ execution'[t] # At("accepted")
    BY <2>1, LastStates, Places DEF LastState
  <2>3. Number(s) = 3 /\ s \in Reportable
    BY Numbers DEF Reportable
  <2>4. LastState(t) = "WORKING" /\ \A e \in Reported : e.task = t => e.seq < 3
    BY <1>4, <2>1, LastStates, Numbers DEF LastState
  <2>5. live'[t] # "NONE"
    BY <1>1, <2>1, Places DEF InOrder
  <2>6. QED
    BY <1>1, <2>1, <2>2, <2>3, <2>4, <2>5, OrderAdvances
<1>12. ASSUME Settle(t) PROVE InOrder(t)'
  <2>1. /\ execution[t].at = "settling" /\ live'[t] = execution[t].to /\ execution'[t] = Ended
        /\ UNCHANGED <<network, commanded>>
    BY <1>1, <1>12 DEF Settle, Goes
  <2>2. PICK s \in Reportable : execution[t] = Settling(s)
    BY <2>1, Places DEF ExecutionKept
  <2>3. live'[t] = s /\ s # "NONE" /\ LastState(t) = s /\ LastOf(execution'[t], live'[t]) = s
    BY <2>1, <2>2, LastStates, Places DEF LastState, Reportable
  <2>4. Reported' = Reported /\ live[t] # "NONE"
        /\ execution[t] # At("running")
    BY <1>1, <1>2, <2>1, <2>2, <2>3, Places DEF LastEvent, InOrder
  <2>5. /\ \A e \in Reported : e.task = t =>
             /\ e.seq <= Number(s) /\ (e.seq = Number(s) => e = LastEvent(t))
        /\ ~missed => LastEvent(t) \in Reported
        /\ t \in commanded => s \in {"WORKING", "COMPLETED", "FAILED", "CANCELED"}
    BY <1>1, <2>3, <2>4 DEF InOrder
  <2>6. LastEvent(t) = [task |-> t, seq |-> Number(s), state |-> s]
    BY <2>3 DEF LastEvent
  <2>7. execution'[t] # At("accepted") /\ live'[t] # "NONE"
    BY <2>1, <2>3, Places
  <2>8. QED
    BY <1>1, <2>1, <2>3, <2>4, <2>5, <2>6, <2>7, OrderHolds
<1>13. ASSUME Cancel(t) PROVE InOrder(t)'
  <2>1. /\ live'[t] = "CANCELED" /\ execution'[t] = Ended
        /\ network' = network \cup {[task |-> t, seq |-> 4, state |-> "CANCELED"]}
    BY <1>1, <1>13 DEF Cancel, Report, Goes
  <2>2. LastOf(execution'[t], live'[t]) = "CANCELED" /\ execution'[t] # At("accepted")
    BY <2>1, LastStates, Places DEF LastState
  <2>3. \A s \in Reportable : Number(s) < 4 \/ s = "CANCELED"
    BY Numbers DEF Reportable
  <2>4. \A e \in Reported : e.task = t => e.seq < 4 \/ e.state = "CANCELED"
    BY <1>4, <2>3
  <2>5. /\ network' = network \cup {[task |-> t, seq |-> Number("CANCELED"), state |-> "CANCELED"]}
        /\ "CANCELED" \in Reportable /\ live'[t] # "NONE" /\ Number("CANCELED") = 4
    BY <2>1, Numbers DEF Reportable
  <2>6. QED
    BY <1>1, <2>2, <2>4, <2>5, OrderAdvances
<1>14. InOrder(t)'
  BY <1>5, <1>7, <1>8, <1>9, <1>10, <1>11, <1>12, <1>13 DEF GatewayStep
<1>15. QED
  BY <1>3, <1>14 DEF ReportsInOrder

-----------------------------------------------------------------------------
(* The theorems. *)

LEMMA OrderPreserved == IInv /\ ~FollowUps /\ [Next]_vars => ReportsInOrder'
<1>1. ASSUME IInv, ~FollowUps, UNCHANGED vars PROVE ReportsInOrder'
  BY <1>1 DEF IInv, ReportsInOrder, InOrder, Reported, Recorded, LastState, LastEvent, vars,
     registryVars, gatewayVars
<1>2. QED
  BY <1>1, RegistryKeepsOrder, GatewayKeepsOrder DEF Next

THEOREM ProjectionInvariant == Spec => []IInv
<1>1. IInv /\ [Next]_vars => IInv'
  BY TypesKept, TimelineKept, ExecutionPreserved, OrderPreserved DEF IInv
<1>2. QED
  BY InitIInv, <1>1, PTL DEF Spec

(* The Registry's tables, the reports under way and the Gateway's tasks    *)
(* keep their types: no event has a number beyond the timeline's.          *)
THEOREM TypeCorrect == Spec => []TypeOK
<1>1. IInv => TypeOK
  BY DEF IInv
<1>2. QED
  BY ProjectionInvariant, <1>1, PTL

LEMMA MaxIsTheLargest ==
  ASSUME NEW S \in SUBSET Nat, NEW m \in S, \A x \in S : x <= m
  PROVE  Max(S) = m
<1>1. \A y \in S : m >= y
  OBVIOUS
<1>2. \A x \in S : (\A y \in S : x >= y) => x = m
  OBVIOUS
<1>3. QED
  BY <1>1, <1>2 DEF Max

(* TaskEventStore.record leaves the latest state of a task on the event    *)
(* with the highest number, in whatever order the events arrive.           *)
THEOREM LatestHasTheHighestNumber == Spec => []ProjectionIsLatest
<1>1. ASSUME IInv PROVE ProjectionIsLatest
  <2> SUFFICES ASSUME NEW t \in AnyTask
               PROVE  LET events == {e \in Recorded : e.task = t} IN
                      IF events = {} THEN runs[t] = NoRun
                      ELSE /\ runs[t].seq = Max({e.seq : e \in events})
                           /\ [task |-> t, seq |-> runs[t].seq, state |-> runs[t].state] \in events
    BY DEF ProjectionIsLatest
  <2> DEFINE events == {e \in Recorded : e.task = t}
             last == [task |-> t, seq |-> runs[t].seq, state |-> runs[t].state]
  <2>1. CASE \A e \in Recorded : e.task # t
    BY <1>1, <2>1 DEF IInv, LatestKept
  <2>2. CASE \E e \in Recorded : e.task = t
    <3>1. last \in Recorded /\ \A e \in Recorded : e.task = t => e.seq <= runs[t].seq
      BY <1>1, <2>2 DEF IInv, LatestKept
    <3>2. {e.seq : e \in events} \in SUBSET Nat
      BY <1>1, RecordedTypes, EventFields DEF IInv
    <3>3. last \in events /\ runs[t].seq \in {e.seq : e \in events}
          /\ \A x \in {e.seq : e \in events} : x <= runs[t].seq
      BY <3>1
    <3>4. runs[t].seq = Max({e.seq : e \in events})
      BY <3>2, <3>3, MaxIsTheLargest
    <3>5. QED
      BY <3>3, <3>4
  <2>3. QED
    BY <2>1, <2>2
<1>2. QED
  BY ProjectionInvariant, <1>1, PTL

(* A late report never shows a finished task as active again.              *)
THEOREM FinishedTasksStayFinished == Spec => TerminalStays
<1>1. ASSUME IInv, [Next]_vars PROVE StaysTerminal
  <2> SUFFICES ASSUME NEW t \in Task, runs[t].state \in TerminalState, registered'
               PROVE  runs'[t].state \in TerminalState
    BY DEF StaysTerminal
  <2>1. TypeOK /\ NumbersKept /\ LatestKept /\ t \in AnyTask /\ runs[t] \in Run
    BY <1>1 DEF IInv, TypeOK, AnyTask
  <2>2. runs[t].state # "NONE" /\ runs[t].state # "SUBMITTED"
    BY DEF TerminalState
  <2>3. [task |-> t, seq |-> runs[t].seq, state |-> runs[t].state] \in Recorded
    BY <2>1, <2>2 DEF LatestKept, NoRun
  <2>4. runs[t].seq = Number(runs[t].state) /\ runs[t].state \in Reportable
    BY <2>1, <2>3 DEF NumbersKept, Reported
  <2>5. runs[t].seq \in 2 .. 4
    BY <2>2, <2>4, Numbers DEF Reportable
  <2>6. ASSUME NEW e \in network, Receive(e), ~IsDuplicate(e)
        PROVE  runs'[t].state \in TerminalState
    <3>1. e \in Event /\ Insert(e) /\ e.task \in Task /\ e.seq = Number(e.state)
          /\ e.state \in Reportable
      BY <2>1, <2>6 DEF TypeOK, Receive, NumbersKept, Reported
    <3>2. CASE e.task # t
      BY <2>1, <3>1, <3>2, InsertTypes
    <3>3. CASE e.task = t
      <4>1. runs'[t] = Latest(runs[t], e)
        BY <2>1, <3>1, <3>3, InsertTypes
      <4>2. CASE e.seq > runs[t].seq
        <5>1. e.seq > 2
          BY <2>5, <3>1, <4>2, EventFields
        <5>2. e.state \in TerminalState
          BY <3>1, <5>1, Numbers DEF Reportable, TerminalState
        <5>3. QED
          BY <4>1, <4>2, <5>2 DEF Latest
      <4>3. CASE ~(e.seq > runs[t].seq)
        BY <4>1, <4>3 DEF Latest
      <4>4. QED
        BY <4>2, <4>3
    <3>4. QED
      BY <3>2, <3>3
  <2>7. ASSUME NEW n \in NativeTask, NEW s \in NativeState, ReportUnnumbered(n, s)
        PROVE  runs'[t] = runs[t]
    <3> DEFINE e == [task |-> n, seq |-> runs[n].seq + 1, state |-> s]
    <3>1. e \in Event /\ Insert(e) /\ e.task = n
      BY <2>1, <2>7, UnnumberedIsEvent DEF ReportUnnumbered
    <3> HIDE DEF e
    <3>2. t # n
      BY ProjectionAssumption
    <3>3. QED
      BY <2>1, <3>1, <3>2, InsertTypes
  <2>8. ASSUME NEW u \in Task, GatewayStep(u) PROVE runs' = runs
    BY <2>1, <2>8, GatewayFacts
  <2>9. ~DeleteAgent
    BY DEF DeleteAgent
  <2>10. QED
    BY <1>1, <2>6, <2>7, <2>8, <2>9 DEF Next, RegistryStep, Receive, Refuse, Lose, RegisterAgent,
       registryVars, vars
<1>2. IInv /\ [Next]_vars => [StaysTerminal]_vars
  BY <1>1
<1>3. QED
  BY ProjectionInvariant, <1>2, PTL DEF Spec, TerminalStays

(* Of a task that is executed once, the Registry shows what the Gateway    *)
(* left, once every report has arrived.  A second execution of the task    *)
(* repeats the event ids of the first: of such a task it does not hold.    *)
THEOREM RegistryAgrees ==
  ASSUME ~FollowUps
  PROVE  Spec => []AgreesWhenQuiet
<1>1. ASSUME IInv PROVE AgreesWhenQuiet
  <2> SUFFICES ASSUME NEW t \in Task, Quiet, live[t] # "NONE", execution[t] = Ended
               PROVE  runs[t].state = live[t]
    BY DEF AgreesWhenQuiet
  <2>1. InOrder(t) /\ TypeOK /\ LatestKept /\ ExecutionKept /\ t \in AnyTask
    BY <1>1 DEF IInv, ReportsInOrder, AnyTask
  <2>2. LastState(t) = live[t] /\ Reported = Recorded
    BY LastStates DEF LastState, Quiet, Reported
  <2>3. LastEvent(t) \in Recorded /\ LastEvent(t).task = t
        /\ LastEvent(t).seq = Number(live[t]) /\ Number(live[t]) \in 1 .. 4
    BY <2>1, <2>2, LastIsNumbered, Places DEF InOrder, Quiet
  <2> DEFINE last == [task |-> t, seq |-> runs[t].seq, state |-> runs[t].state]
  <2>4. last \in Recorded /\ Number(live[t]) <= runs[t].seq
    BY <2>1, <2>3 DEF LatestKept
  <2>5. runs[t].seq <= Number(live[t])
    BY <2>1, <2>2, <2>4 DEF InOrder
  <2>6. runs[t].seq \in Nat
    BY <2>1, RunFields DEF TypeOK
  <2>7. runs[t].seq = Number(live[t])
    BY <2>3, <2>4, <2>5, <2>6
  <2>8. last = LastEvent(t)
    BY <2>1, <2>2, <2>4, <2>7 DEF InOrder
  <2>9. QED
    BY <2>2, <2>8 DEF LastEvent
<1>2. QED
  BY ProjectionInvariant, <1>1, PTL
=============================================================================
