------------------------- MODULE StatusMonitorProofs -------------------------
(***************************************************************************)
(* Proofs about StatusMonitor: its invariant, and that it implements       *)
(* StatusPromise, for any number of agents, endpoints and requests; about  *)
(* the page (Dashboard) on what StatusPromise says; and about the two      *)
(* together (MonitoredPage).                                               *)
(*                                                                         *)
(* The argument: asyncio.Lock hands the lock on in the order of arrival,   *)
(* only its holder has a refresh under way, so a refresh that ends was     *)
(* begun after the snapshots it replaces and after its caller came.  On    *)
(* the page a forced call waits at the monitor exactly while it waits for  *)
(* its statuses, since the epoch it was made in, so that what the monitor  *)
(* promises of a question holds of the call.                               *)
(***************************************************************************)
EXTENDS MonitoredPage, TLAPS

LEMMA InitIInv == Init => IInv
<1> SUFFICES ASSUME Init PROVE IInv
  OBVIOUS
<1> USE MonitorAssumption DEF Init
<1>1. TypeOK
  BY DEF TypeOK, Statuses, Availability
<1>2. QueueKept
  BY DEF QueueKept
<1>3. LooksKept
  <2>1. \A c \in Caller : asked[c] = 0 /\ refresh[c] = NoRefresh
    OBVIOUS
  <2>2. statuses.seen = 0 /\ unfit \in {0, 1} /\ (Probeable \/ unfit = 1)
    OBVIOUS
  <2>3. QED
    BY <2>1, <2>2 DEF LooksKept
<1>4. QED
  BY <1>1, <1>2, <1>3 DEF IInv

LEMMA RefreshIsNotNone ==
  \A r \in Refresh : r # NoRefresh /\ r.seen \in 1 .. MaxEpoch
BY DEF Refresh, NoRefresh

-----------------------------------------------------------------------------
(* The type invariant. *)

LEMMA AskTypes ==
  ASSUME IInv, NEW c \in Caller, AskRefresh(c)
  PROVE  TypeOK'
BY MonitorAssumption DEF IInv, TypeOK, AskRefresh, worldVars

LEMMA ListTypes ==
  ASSUME IInv, NEW c \in Caller, ListRecords(c)
  PROVE  TypeOK'
<1> USE MonitorAssumption DEF IInv, TypeOK
<1> DEFINE r == [records |-> registry, seen |-> epoch,
                 of |-> [a \in Agent |-> IF registry[a] = Absent THEN "NONE" ELSE "PENDING"]]
<1>1. r \in Refresh
  BY DEF Refresh, Availability
<1>2. refresh' = [refresh EXCEPT ![c] = r]
  BY DEF ListRecords
<1> HIDE DEF r
<1>3. QED
  BY <1>1, <1>2 DEF ListRecords, worldVars

(* What a refresh makes of the answer of one probe. *)
LEMMA ProbeUpdate ==
  ASSUME TypeOK, NEW c \in Caller, NEW a \in Agent, ProbeEnds(c, a)
  PROVE  /\ refresh[c] \in Refresh /\ refresh'[c] \in Refresh
         /\ refresh' \in [Caller -> Refresh \cup {NoRefresh}]
         /\ refresh'[c].seen = refresh[c].seen
         /\ refresh'[c].records = refresh[c].records
         /\ \A d \in Caller : d # c => refresh'[d] = refresh[d]
<1> USE DEF TypeOK
<1>1. refresh[c] \in Refresh
  BY DEF ProbeEnds, Pending
<1> DEFINE r == [refresh[c] EXCEPT !.of = [@ EXCEPT ![a] = Probe(refresh[c].records[a])]]
<1>2. refresh' = [refresh EXCEPT ![c] = r]
  BY DEF ProbeEnds
<1>3. Probe(refresh[c].records[a]) \in Availability
  BY DEF Probe, Availability
<1>4. /\ r \in Refresh /\ r.seen = refresh[c].seen
      /\ r.records = refresh[c].records
  BY <1>1, <1>3 DEF Refresh
<1> HIDE DEF r
<1>5. QED
  BY <1>1, <1>2, <1>4

LEMMA ProbeTypes ==
  ASSUME IInv, NEW c \in Caller, NEW a \in Agent, ProbeEnds(c, a)
  PROVE  TypeOK'
<1>1. refresh' \in [Caller -> Refresh \cup {NoRefresh}]
  BY ProbeUpdate DEF IInv
<1>2. QED
  BY <1>1 DEF IInv, TypeOK, ProbeEnds, worldVars

(* Whoever leaves has a refresh, and so holds the lock. *)
LEMMA LeaverHolds ==
  ASSUME IInv, NEW c \in Caller, Complete(c) \/ Raises(c)
  PROVE  /\ refresh[c] \in Refresh /\ HoldsLock(c) /\ asked[c] # 0
         /\ waiting \in Seq(Caller) /\ waiting # <<>>
<1>1. refresh[c] # NoRefresh
  BY DEF Complete, Raises, Pending
<1>2. refresh[c] \in Refresh /\ HoldsLock(c)
  BY <1>1 DEF IInv, TypeOK, QueueKept
<1>3. waiting \in Seq(Caller) /\ waiting # <<>> /\ waiting[1] = c /\ 1 \in DOMAIN waiting
  BY <1>2 DEF HoldsLock, IInv, TypeOK
<1>4. asked[c] # 0
  BY <1>3 DEF IInv, QueueKept
<1>5. QED
  BY <1>2, <1>3, <1>4

LEMMA LeaveTypes ==
  ASSUME IInv, NEW c \in Caller, Complete(c) \/ Raises(c), Leaves(c)
  PROVE  /\ waiting' \in Seq(Caller)
         /\ refresh' \in [Caller -> Refresh \cup {NoRefresh}]
         /\ asked' \in [Caller -> 0 .. MaxEpoch]
BY LeaverHolds, MonitorAssumption DEF IInv, TypeOK, Leaves

LEMMA KeptTypes ==
  ASSUME NEW of \in [Agent -> Availability]
  PROVE  Kept(of) \in [Agent -> Availability]
BY DEF Kept, Availability

LEMMA EndTypes ==
  ASSUME IInv, NEW c \in Caller, RefreshEnds(c)
  PROVE  TypeOK'
<1>1. Complete(c) /\ refresh[c] \in Refresh /\ Leaves(c)
  BY LeaverHolds DEF RefreshEnds
<1>2. refresh[c].of \in [Agent -> Availability]
  BY <1>1 DEF Complete, Pending, Refresh
<1>3. statuses' \in Statuses
  BY <1>1, <1>2, KeptTypes DEF RefreshEnds, Refresh, Statuses
<1>4. QED
  BY <1>1, <1>3, LeaveTypes DEF IInv, TypeOK, RefreshEnds, worldVars

LEMMA RaiseTypes ==
  ASSUME IInv, NEW c \in Caller, RefreshRaises(c)
  PROVE  TypeOK'
BY LeaveTypes DEF IInv, TypeOK, RefreshRaises, worldVars

LEMMA SnapshotTypes ==
  ASSUME IInv, TakeSnapshot
  PROVE  TypeOK' /\ statuses'.seen = statuses.seen
<1>1. statuses \in Statuses /\ statuses.of \in [Agent -> Availability]
  BY DEF IInv, TypeOK, Statuses
<1>2. statuses' = [statuses EXCEPT !.of = Kept(statuses.of)]
  BY DEF TakeSnapshot
<1>3. statuses' \in Statuses /\ statuses'.seen = statuses.seen
  BY <1>1, <1>2, KeptTypes DEF Statuses
<1>4. QED
  BY <1>3 DEF IInv, TypeOK, TakeSnapshot, worldVars

LEMMA ChangeTypes ==
  ASSUME IInv, (\E a \in Agent : AgentChanges(a)) \/ (\E e \in Endpoint \ Unprobeable : EndpointChanges(e))
  PROVE  /\ TypeOK' /\ Changes
         /\ epoch' = epoch + 1 /\ unfit' \in {unfit, epoch'}
         /\ Probeable' \/ unfit' = epoch'
<1> USE MonitorAssumption DEF IInv, TypeOK
<1>1. /\ registry' \in [Agent -> Definition \cup {Absent}]
      /\ up' \in SUBSET Endpoint /\ Changes
  BY DEF AgentChanges, EndpointChanges
<1>2. QED
  BY <1>1 DEF Changes

-----------------------------------------------------------------------------
(* The queue for the lock. *)

LEMMA AskKeepsQueue ==
  ASSUME IInv, NEW c \in Caller, AskRefresh(c)
  PROVE  QueueKept'
<1> USE DEF IInv, TypeOK, AskRefresh
<1>1. /\ waiting \in Seq(Caller) /\ Len(waiting) \in Nat
      /\ \A i \in DOMAIN waiting : waiting[i] # c
  BY DEF QueueKept
<1>2. /\ waiting' = Append(waiting, c)
      /\ DOMAIN waiting' = 1 .. (Len(waiting) + 1)
      /\ waiting'[Len(waiting) + 1] = c
      /\ \A i \in DOMAIN waiting : waiting'[i] = waiting[i]
  BY <1>1
<1>3. \A d \in Caller : asked'[d] # 0 <=> \E i \in DOMAIN waiting' : waiting'[i] = d
  <2> SUFFICES ASSUME NEW d \in Caller
               PROVE  asked'[d] # 0 <=> \E i \in DOMAIN waiting' : waiting'[i] = d
    OBVIOUS
  <2>1. CASE d = c
    BY <1>1, <1>2, <2>1
  <2>2. CASE d # c
    <3>1. asked'[d] = asked[d]
      BY <2>2
    <3>2. \A i \in DOMAIN waiting' : i \in DOMAIN waiting \/ i = Len(waiting) + 1
      BY <1>1, <1>2
    <3>3. DOMAIN waiting \subseteq DOMAIN waiting'
      BY <1>1, <1>2
    <3>4. QED
      BY <1>2, <2>2, <3>1, <3>2, <3>3 DEF QueueKept
  <2>3. QED
    BY <2>1, <2>2
<1>4. \A i, j \in DOMAIN waiting' : waiting'[i] = waiting'[j] => i = j
  BY <1>1, <1>2 DEF QueueKept
<1>5. ASSUME NEW d \in Caller, refresh'[d] # NoRefresh
      PROVE  HoldsLock(d)'
  <2>1. waiting # <<>> /\ Head(waiting) = d
    BY <1>5 DEF QueueKept, HoldsLock
  <2>2. QED
    BY <1>1, <1>2, <2>1 DEF HoldsLock
<1>6. QED
  BY <1>3, <1>4, <1>5 DEF QueueKept

LEMMA RefreshingKeepsQueue ==
  ASSUME IInv, NEW c \in Caller, UNCHANGED <<waiting, asked>>, HoldsLock(c),
         \A d \in Caller : d # c => refresh'[d] = refresh[d]
  PROVE  QueueKept'
BY DEF IInv, QueueKept, HoldsLock

(* The next in line gets the lock; nobody else has a refresh under way. *)
LEMMA LeavingKeepsQueue ==
  ASSUME IInv, NEW c \in Caller, Complete(c) \/ Raises(c), Leaves(c)
  PROVE  /\ QueueKept'
         /\ \A d \in Caller : refresh'[d] = NoRefresh
<1> USE DEF IInv, TypeOK, Leaves
<1>1. /\ waiting \in Seq(Caller) /\ waiting # <<>> /\ HoldsLock(c)
      /\ waiting[1] = c /\ Len(waiting) \in Nat \ {0}
  BY LeaverHolds DEF HoldsLock
<1>2. /\ waiting' = Tail(waiting)
      /\ DOMAIN waiting' = 1 .. (Len(waiting) - 1)
      /\ \A i \in DOMAIN waiting' : waiting'[i] = waiting[i + 1]
  BY <1>1
<1>3. \A i \in DOMAIN waiting' : i + 1 \in DOMAIN waiting /\ i \in Nat
  BY <1>1, <1>2
<1>4. \A d \in Caller : asked'[d] # 0 <=> \E i \in DOMAIN waiting' : waiting'[i] = d
  <2> SUFFICES ASSUME NEW d \in Caller
               PROVE  asked'[d] # 0 <=> \E i \in DOMAIN waiting' : waiting'[i] = d
    OBVIOUS
  <2>1. CASE d = c
    <3>1. \A i \in DOMAIN waiting' : waiting'[i] # c
      <4> SUFFICES ASSUME NEW i \in DOMAIN waiting', waiting'[i] = c PROVE FALSE
        OBVIOUS
      <4>1. waiting[i + 1] = waiting[1] /\ i + 1 \in DOMAIN waiting /\ 1 \in DOMAIN waiting
        BY <1>1, <1>2, <1>3
      <4>2. i + 1 = 1
        BY <4>1 DEF QueueKept
      <4>3. QED
        BY <1>2, <4>2
    <3>2. asked'[c] = 0
      OBVIOUS
    <3>3. QED
      BY <2>1, <3>1, <3>2
  <2>2. CASE d # c
    <3>1. asked'[d] = asked[d]
      BY <2>2
    <3>2. ASSUME NEW i \in DOMAIN waiting, waiting[i] = d
          PROVE  \E j \in DOMAIN waiting' : waiting'[j] = d
      <4>1. i # 1
        BY <1>1, <2>2, <3>2
      <4>2. i - 1 \in DOMAIN waiting' /\ waiting'[i - 1] = waiting[i]
        BY <1>1, <1>2, <4>1
      <4>3. QED
        BY <3>2, <4>2
    <3>3. QED
      BY <1>2, <1>3, <3>1, <3>2 DEF QueueKept
  <2>3. QED
    BY <2>1, <2>2
<1>5. \A i, j \in DOMAIN waiting' : waiting'[i] = waiting'[j] => i = j
  <2> SUFFICES ASSUME NEW i \in DOMAIN waiting', NEW j \in DOMAIN waiting',
                      waiting'[i] = waiting'[j]
               PROVE  i = j
    OBVIOUS
  <2>1. i + 1 = j + 1
    BY <1>2, <1>3 DEF QueueKept
  <2>2. QED
    BY <1>2, <2>1
<1>6. \A d \in Caller : refresh'[d] = NoRefresh
  <2>1. \A d \in Caller : d # c => refresh[d] = NoRefresh
    BY <1>1 DEF QueueKept, HoldsLock
  <2>2. QED
    BY <2>1
<1>7. QED
  BY <1>4, <1>5, <1>6 DEF QueueKept

LEMMA IdleKeepsQueue ==
  ASSUME IInv, UNCHANGED <<waiting, asked, refresh>>
  PROVE  QueueKept'
BY DEF IInv, QueueKept, HoldsLock

-----------------------------------------------------------------------------
(* What the refreshes look at. *)

LEMMA AskKeepsLooks ==
  ASSUME IInv, NEW c \in Caller, AskRefresh(c)
  PROVE  LooksKept'
<1> USE DEF IInv, AskRefresh, worldVars
<1>1. refresh[c] = NoRefresh
  <2>1. \A i \in DOMAIN waiting : waiting[i] # c
    BY DEF QueueKept
  <2>2. HoldsLock(c) => 1 \in DOMAIN waiting /\ waiting[1] = c
    BY DEF HoldsLock, TypeOK
  <2>3. QED
    BY <2>1, <2>2 DEF QueueKept
<1>2. \A d \in Caller : asked'[d] = IF d = c THEN epoch ELSE asked[d]
  BY DEF TypeOK
<1>3. Probeable' \/ unfit' = epoch'
  BY DEF LooksKept, Probeable, ProbeRaises
<1>4. QED
  BY <1>1, <1>2, <1>3 DEF LooksKept, TypeOK, ProbeRaises

LEMMA ListKeepsLooks ==
  ASSUME IInv, NEW c \in Caller, ListRecords(c)
  PROVE  LooksKept'
<1> USE DEF IInv, ListRecords, worldVars
<1>1. refresh'[c].records = registry /\ refresh'[c].seen = epoch
  BY DEF TypeOK
<1>2. \A d \in Caller : d # c => refresh'[d] = refresh[d]
  BY DEF TypeOK
<1>3. Probeable' \/ unfit' = epoch'
  BY DEF LooksKept, Probeable, ProbeRaises
<1>4. \A a \in Agent : ProbeRaises(refresh'[c].records[a]) => epoch <= unfit
  BY <1>1 DEF LooksKept, Probeable, TypeOK
<1>5. QED
  BY <1>1, <1>2, <1>3, <1>4 DEF LooksKept, TypeOK, ProbeRaises

LEMMA ProbeKeepsLooks ==
  ASSUME IInv, NEW c \in Caller, NEW a \in Agent, ProbeEnds(c, a)
  PROVE  LooksKept'
<1> USE DEF IInv
<1>1. /\ \A d \in Caller : d # c => refresh'[d] = refresh[d]
      /\ refresh'[c].seen = refresh[c].seen /\ refresh'[c].records = refresh[c].records
      /\ refresh[c] # NoRefresh
  BY ProbeUpdate, RefreshIsNotNone
<1>2. UNCHANGED <<registry, up, epoch, unfit, statuses, asked>>
  BY DEF ProbeEnds, worldVars
<1>3. Probeable' \/ unfit' = epoch'
  BY <1>2 DEF LooksKept, Probeable, ProbeRaises
<1>4. QED
  BY <1>1, <1>2, <1>3 DEF LooksKept, ProbeRaises

LEMMA LeavingKeepsLooks ==
  ASSUME IInv, NEW c \in Caller, Complete(c) \/ Raises(c), Leaves(c), UNCHANGED worldVars,
         statuses'.seen <= epoch
  PROVE  LooksKept'
<1> USE DEF IInv, worldVars
<1>1. \A d \in Caller : refresh'[d] = NoRefresh
  BY LeavingKeepsQueue
<1>2. \A d \in Caller : asked'[d] <= epoch
  BY DEF Leaves, TypeOK, LooksKept
<1>3. Probeable' \/ unfit' = epoch'
  BY DEF LooksKept, Probeable, ProbeRaises
<1>4. QED
  BY <1>1, <1>2, <1>3 DEF LooksKept

LEMMA ChangeKeepsLooks ==
  ASSUME IInv, TypeOK', Changes, unfit' \in {unfit, epoch'}, epoch' = epoch + 1,
         Probeable' \/ unfit' = epoch'
  PROVE  LooksKept'
<1> USE DEF IInv, Changes
<1>1. epoch \in Nat /\ unfit \in Nat /\ unfit <= unfit' /\ unfit' <= epoch'
  BY DEF TypeOK, LooksKept
<1>2. /\ statuses.seen \in Nat /\ \A c \in Caller : asked[c] \in Nat
  BY DEF TypeOK, Statuses
<1>3. \A c \in Caller : refresh[c] # NoRefresh => refresh[c].seen \in Nat
  BY DEF TypeOK, Refresh
<1>4. QED
  BY <1>1, <1>2, <1>3 DEF LooksKept, ProbeRaises

-----------------------------------------------------------------------------
LEMMA NextIInv == IInv /\ [Next]_vars => IInv'
<1> SUFFICES ASSUME IInv, [Next]_vars PROVE IInv'
  OBVIOUS
<1>1. CASE UNCHANGED vars
  BY <1>1 DEF vars, worldVars, IInv, TypeOK, QueueKept, HoldsLock, LooksKept, Probeable,
     ProbeRaises
<1>2. ASSUME NEW c \in Caller, AskRefresh(c) PROVE IInv'
  BY <1>2, AskTypes, AskKeepsQueue, AskKeepsLooks DEF IInv
<1>3. ASSUME NEW c \in Caller, ListRecords(c) PROVE IInv'
  <2>1. \A d \in Caller : d # c => refresh'[d] = refresh[d]
    BY <1>3 DEF ListRecords, IInv, TypeOK
  <2>2. QueueKept'
    BY <1>3, <2>1, RefreshingKeepsQueue DEF ListRecords
  <2>3. QED
    BY <1>3, <2>2, ListTypes, ListKeepsLooks DEF IInv
<1>4. ASSUME NEW c \in Caller, NEW a \in Agent, ProbeEnds(c, a) PROVE IInv'
  <2>1. HoldsLock(c)
    BY <1>4 DEF ProbeEnds, Pending, IInv, QueueKept
  <2>2. QueueKept'
    BY <1>4, <2>1, ProbeUpdate, RefreshingKeepsQueue DEF ProbeEnds, IInv
  <2>3. QED
    BY <1>4, <2>2, ProbeTypes, ProbeKeepsLooks DEF IInv
<1>5. ASSUME NEW c \in Caller, RefreshEnds(c) PROVE IInv'
  <2>1. Complete(c) /\ Leaves(c) /\ refresh[c] # NoRefresh
    BY <1>5 DEF RefreshEnds, Complete
  <2>2. statuses'.seen <= epoch
    BY <1>5, <2>1 DEF RefreshEnds, IInv, LooksKept
  <2>3. QED
    BY <1>5, <2>1, <2>2, EndTypes, LeavingKeepsQueue, LeavingKeepsLooks DEF RefreshEnds, IInv
<1>6. ASSUME NEW c \in Caller, RefreshRaises(c) PROVE IInv'
  <2>1. Raises(c) /\ Leaves(c) /\ statuses'.seen <= epoch
    BY <1>6 DEF RefreshRaises, IInv, LooksKept
  <2>2. QED
    BY <1>6, <2>1, RaiseTypes, LeavingKeepsQueue, LeavingKeepsLooks DEF RefreshRaises, IInv
<1>7. CASE TakeSnapshot
  <2>1. TypeOK' /\ statuses'.seen = statuses.seen
    BY <1>7, SnapshotTypes
  <2>2. UNCHANGED <<worldVars, waiting, refresh, asked>>
    BY <1>7 DEF TakeSnapshot
  <2>3. LooksKept'
    BY <2>1, <2>2 DEF IInv, LooksKept, worldVars, Probeable, ProbeRaises
  <2>4. QED
    BY <2>1, <2>2, <2>3, IdleKeepsQueue DEF IInv
<1>8. CASE (\E a \in Agent : AgentChanges(a)) \/ (\E e \in Endpoint \ Unprobeable : EndpointChanges(e))
  <2>1. QueueKept'
    BY <1>8, ChangeTypes, IdleKeepsQueue DEF Changes
  <2>2. QED
    BY <1>8, <2>1, ChangeTypes, ChangeKeepsLooks DEF IInv
<1>9. QED
  BY <1>1, <1>2, <1>3, <1>4, <1>5, <1>6, <1>7, <1>8 DEF Next, RefreshStep

THEOREM MonitorInvariant == Spec => []IInv
<1>1. Init => IInv
  BY InitIInv
<1>2. IInv /\ [Next]_vars => IInv'
  BY NextIInv
<1>3. QED
  BY <1>1, <1>2, PTL DEF Spec

(* The snapshots and the refreshes keep their types: no status that is     *)
(* pending is ever shown.                                                  *)
THEOREM TypeCorrect == Spec => []TypeOK
<1>1. IInv => TypeOK
  BY DEF IInv
<1>2. QED
  BY <1>1, MonitorInvariant, PTL

-----------------------------------------------------------------------------
(* What is known of an agent is right unless something has changed since.  *)

(* The two parts of LooksRight. *)
SnapshotsRight ==
  statuses.seen = epoch =>
    \A a \in Agent : registry[a] # Absent => statuses.of[a] = Probe(registry[a])

RefreshRight(c) ==
  refresh[c] # NoRefresh /\ refresh[c].seen = epoch =>
    /\ refresh[c].records = registry
    /\ \A a \in Agent : registry[a] # Absent =>
         refresh[c].of[a] \in {"PENDING", Probe(registry[a])}

LEMMA RightParts == LooksRight <=> SnapshotsRight /\ \A c \in Caller : RefreshRight(c)
BY DEF LooksRight, SnapshotsRight, RefreshRight

LEMMA RightPartsAfter ==
  ASSUME SnapshotsRight', \A c \in Caller : RefreshRight(c)'
  PROVE  LooksRight'
BY DEF LooksRight, SnapshotsRight, RefreshRight

LEMMA RefreshRightKept ==
  ASSUME NEW c \in Caller, RefreshRight(c), UNCHANGED worldVars, refresh'[c] = refresh[c]
  PROVE  RefreshRight(c)'
BY DEF RefreshRight, worldVars, Probe

LEMMA SnapshotsRightKept ==
  ASSUME SnapshotsRight, UNCHANGED worldVars, UNCHANGED statuses
  PROVE  SnapshotsRight'
BY DEF SnapshotsRight, worldVars, Probe

LEMMA ListIsRight ==
  ASSUME IInv, LooksRight, NEW c \in Caller, ListRecords(c)
  PROVE  LooksRight'
<1> DEFINE of == [a \in Agent |-> IF registry[a] = Absent THEN "NONE" ELSE "PENDING"]
<1> DEFINE r == [records |-> registry, seen |-> epoch, of |-> of]
<1>1. /\ refresh'[c] = r
      /\ \A d \in Caller : d # c => refresh'[d] = refresh[d]
  BY DEF ListRecords, IInv, TypeOK
<1>2. r.records = registry /\ r.of = of
  OBVIOUS
<1>3. \A a \in Agent : registry[a] # Absent => of[a] = "PENDING"
  OBVIOUS
<1> HIDE DEF r, of
<1>4. RefreshRight(c)'
  BY <1>1, <1>2, <1>3 DEF RefreshRight, ListRecords, worldVars
<1>5. QED
  BY <1>1, <1>4, RightParts, RightPartsAfter, RefreshRightKept, SnapshotsRightKept
     DEF ListRecords

LEMMA ProbeIsRight ==
  ASSUME IInv, LooksRight, NEW c \in Caller, NEW a \in Agent, ProbeEnds(c, a)
  PROVE  LooksRight'
<1>1. /\ refresh[c] \in Refresh /\ refresh[c] # NoRefresh
      /\ refresh'[c].seen = refresh[c].seen
      /\ refresh'[c].records = refresh[c].records
      /\ \A d \in Caller : d # c => refresh'[d] = refresh[d]
  BY ProbeUpdate, RefreshIsNotNone DEF IInv
<1>2. refresh'[c].of = [refresh[c].of EXCEPT ![a] = Probe(refresh[c].records[a])]
  BY <1>1 DEF ProbeEnds, IInv, TypeOK, Refresh
<1>3. \A b \in Agent : refresh'[c].of[b] \in {refresh[c].of[b], Probe(refresh[c].records[b])}
  BY <1>1, <1>2 DEF Refresh
<1>4. UNCHANGED worldVars /\ UNCHANGED statuses
  BY DEF ProbeEnds
<1>5. \A b \in Agent : Probe(registry[b])' = Probe(registry[b])
  BY <1>4 DEF worldVars, Probe
<1>6. RefreshRight(c)'
  BY <1>1, <1>3, <1>4, <1>5, RightParts DEF RefreshRight, worldVars
<1>7. QED
  BY <1>1, <1>4, <1>6, RightParts, RightPartsAfter, RefreshRightKept, SnapshotsRightKept

(* When the last probe is answered, what was right of the refresh is right *)
(* of the snapshots.                                                       *)
LEMMA EndIsRight ==
  ASSUME IInv, LooksRight, NEW c \in Caller, RefreshEnds(c)
  PROVE  LooksRight'
<1>1. /\ refresh[c] \in Refresh /\ refresh[c] # NoRefresh
      /\ Complete(c) /\ Leaves(c) /\ UNCHANGED worldVars
      /\ statuses'.seen = refresh[c].seen
      /\ statuses'.of \in {refresh[c].of, Kept(refresh[c].of)}
  BY LeaverHolds, RefreshIsNotNone DEF RefreshEnds
<1>2. \A a \in Agent : registry[a] # Absent => statuses'.of[a] = refresh[c].of[a]
  BY <1>1 DEF Kept
<1>3. \A a \in Agent : refresh[c].of[a] # "PENDING"
  BY <1>1 DEF Complete, Pending
<1>4. \A a \in Agent : Probe(registry[a])' = Probe(registry[a])
  BY <1>1 DEF worldVars, Probe
<1>5. SnapshotsRight'
  BY <1>1, <1>2, <1>3, <1>4, RightParts DEF RefreshRight, SnapshotsRight, worldVars
<1>6. \A d \in Caller : refresh'[d] = refresh[d] \/ refresh'[d] = NoRefresh
  BY <1>1 DEF Leaves, IInv, TypeOK
<1>7. ASSUME NEW d \in Caller PROVE RefreshRight(d)'
  <2>1. CASE refresh'[d] = refresh[d]
    BY <1>1, <2>1, RightParts, RefreshRightKept
  <2>2. CASE refresh'[d] = NoRefresh
    BY <2>2 DEF RefreshRight
  <2>3. QED
    BY <1>6, <2>1, <2>2
<1>8. QED
  BY <1>5, <1>7, RightPartsAfter

LEMMA RaiseIsRight ==
  ASSUME IInv, LooksRight, NEW c \in Caller, RefreshRaises(c)
  PROVE  LooksRight'
<1>1. UNCHANGED worldVars /\ UNCHANGED statuses /\ Leaves(c)
  BY DEF RefreshRaises
<1>2. \A d \in Caller : refresh'[d] = refresh[d] \/ refresh'[d] = NoRefresh
  BY <1>1 DEF Leaves, IInv, TypeOK
<1>3. ASSUME NEW d \in Caller PROVE RefreshRight(d)'
  <2>1. CASE refresh'[d] = refresh[d]
    BY <1>1, <2>1, RightParts, RefreshRightKept
  <2>2. CASE refresh'[d] = NoRefresh
    BY <2>2 DEF RefreshRight
  <2>3. QED
    BY <1>2, <2>1, <2>2
<1>4. QED
  BY <1>1, <1>3, RightParts, RightPartsAfter, SnapshotsRightKept

LEMMA SnapshotIsRight ==
  ASSUME IInv, LooksRight, TakeSnapshot
  PROVE  LooksRight'
<1>1. UNCHANGED worldVars /\ UNCHANGED refresh /\ statuses'.seen = statuses.seen
  BY SnapshotTypes DEF TakeSnapshot
<1>2. statuses \in Statuses
  BY DEF IInv, TypeOK
<1>3. statuses'.of = Kept(statuses.of)
  BY <1>2 DEF TakeSnapshot, Statuses
<1>4. \A a \in Agent : registry[a] # Absent => statuses'.of[a] = statuses.of[a]
  BY <1>3 DEF Kept
<1>5. \A a \in Agent : Probe(registry[a])' = Probe(registry[a])
  BY <1>1 DEF worldVars, Probe
<1>6. SnapshotsRight'
  BY <1>1, <1>4, <1>5, RightParts DEF SnapshotsRight, worldVars
<1>7. QED
  BY <1>1, <1>6, RightParts, RightPartsAfter, RefreshRightKept

(* After a change every look there was is too old. *)
LEMMA ChangeIsRight ==
  ASSUME IInv,
         (\E a \in Agent : AgentChanges(a)) \/ (\E e \in Endpoint \ Unprobeable : EndpointChanges(e))
  PROVE  LooksRight'
<1>1. /\ epoch' = epoch + 1 /\ UNCHANGED <<statuses, refresh>>
  BY ChangeTypes DEF Changes
<1>2. epoch \in Nat /\ statuses.seen <= epoch
  BY DEF IInv, TypeOK, LooksKept
<1>3. \A c \in Caller : refresh[c] # NoRefresh => refresh[c].seen <= epoch /\ refresh[c].seen \in Nat
  BY DEF IInv, TypeOK, LooksKept, Refresh
<1>4. statuses.seen \in Nat
  BY DEF IInv, TypeOK, Statuses
<1>5. SnapshotsRight' /\ \A c \in Caller : RefreshRight(c)'
  BY <1>1, <1>2, <1>3, <1>4 DEF SnapshotsRight, RefreshRight
<1>6. QED
  BY <1>5, RightPartsAfter

LEMMA LooksRightKept ==
  ASSUME IInv, LooksRight, [Next]_vars
  PROVE  LooksRight'
<1>1. CASE UNCHANGED vars
  BY <1>1, RightParts, RightPartsAfter, RefreshRightKept, SnapshotsRightKept DEF vars
<1>2. ASSUME NEW c \in Caller, AskRefresh(c) PROVE LooksRight'
  BY <1>2, RightParts, RightPartsAfter, RefreshRightKept, SnapshotsRightKept DEF AskRefresh
<1>3. ASSUME NEW c \in Caller, RefreshStep(c) PROVE LooksRight'
  BY <1>3, ListIsRight, ProbeIsRight, EndIsRight, RaiseIsRight DEF RefreshStep
<1>4. CASE TakeSnapshot
  BY <1>4, SnapshotIsRight
<1>5. CASE (\E a \in Agent : AgentChanges(a)) \/ (\E e \in Endpoint \ Unprobeable : EndpointChanges(e))
  BY <1>5, ChangeIsRight
<1>6. QED
  BY <1>1, <1>2, <1>3, <1>4, <1>5 DEF Next

(* Snapshots that are not older than the last change show of every agent   *)
(* what a probe of it would find now.                                      *)
THEOREM FreshSnapshotsAreRight == Spec => []FreshIsRight
<1>1. Init => LooksRight
  BY DEF Init, LooksRight
<1>2. IInv /\ LooksRight /\ [Next]_vars => LooksRight'
  BY LooksRightKept
<1>3. IInv /\ LooksRight => FreshIsRight
  <2>1. \A a \in Agent : Probe(registry[a]) # "NONE"
    BY DEF Probe
  <2>2. \A a \in Agent : registry[a] # Absent => Kept(statuses.of)[a] = statuses.of[a]
    BY DEF Kept
  <2>3. QED
    BY <2>1, <2>2 DEF LooksRight, FreshIsRight, Shown
<1>4. QED
  BY <1>1, <1>2, <1>3, MonitorInvariant, PTL DEF Spec

-----------------------------------------------------------------------------
(* The refinement of StatusPromise: what each step is for those who wait.  *)

LEMMA AskFulfils ==
  ASSUME IInv, NEW c \in Caller, AskRefresh(c)
  PROVE  /\ c \in Request => Promise!Ask(c)
         /\ c \notin Request => UNCHANGED Promise!promiseVars
<1> USE DEF IInv, TypeOK, AskRefresh, worldVars
<1>1. CASE c \in Request
  BY <1>1 DEF Promise!Ask, Caller
<1>2. CASE c \notin Request
  BY <1>2 DEF Promise!promiseVars, Caller
<1>3. QED
  BY <1>1, <1>2

(* An answer shows a refresh that was begun after the question. *)
LEMMA EndFulfils ==
  ASSUME IInv, NEW c \in Caller, RefreshEnds(c)
  PROVE  /\ c \in Request => Promise!Answer(c)
         /\ c \notin Request => Promise!Refreshed
<1>1. /\ refresh[c] \in Refresh /\ refresh[c] # NoRefresh /\ asked[c] # 0
      /\ Leaves(c) /\ UNCHANGED worldVars
      /\ statuses'.seen = refresh[c].seen
  BY LeaverHolds, RefreshIsNotNone DEF RefreshEnds
<1>2. /\ statuses'.seen \in statuses.seen .. epoch
      /\ statuses'.seen >= asked[c]
  BY <1>1 DEF IInv, TypeOK, LooksKept, Statuses, Refresh
<1>3. CASE c \in Request
  BY <1>1, <1>2, <1>3 DEF Promise!Answer, Promise!Leaves, Leaves, worldVars, IInv, TypeOK,
     Caller
<1>4. CASE c \notin Request
  BY <1>1, <1>2, <1>4 DEF Promise!Refreshed, Leaves, worldVars, IInv, TypeOK, Caller
<1>5. QED
  BY <1>3, <1>4

(* A refresh fails for a record it listed after its caller came. *)
LEMMA RaiseFulfils ==
  ASSUME IInv, NEW c \in Caller, RefreshRaises(c)
  PROVE  /\ c \in Request => Promise!Refuse(c)
         /\ c \notin Request => UNCHANGED Promise!promiseVars
<1>1. /\ refresh[c] # NoRefresh /\ asked[c] # 0
      /\ Leaves(c) /\ UNCHANGED worldVars /\ UNCHANGED statuses
      /\ refresh[c] \in Refresh
  BY LeaverHolds, RefreshIsNotNone DEF RefreshRaises
<1>2. unfit >= asked[c]
  <2>1. PICK a \in Agent : ProbeRaises(refresh[c].records[a])
    BY DEF RefreshRaises, Raises, Pending
  <2>2. refresh[c].seen <= unfit /\ asked[c] <= refresh[c].seen
    BY <1>1, <2>1 DEF IInv, LooksKept
  <2>3. QED
    BY <1>1, <2>2 DEF IInv, TypeOK, Refresh
<1>3. CASE c \in Request
  BY <1>1, <1>2, <1>3 DEF Promise!Refuse, Promise!Leaves, Leaves, worldVars, IInv, TypeOK,
     Caller
<1>4. CASE c \notin Request
  BY <1>1, <1>4 DEF Promise!promiseVars, Leaves, worldVars, IInv, TypeOK, Caller
<1>5. QED
  BY <1>3, <1>4

LEMMA ChangeFulfils ==
  ASSUME IInv,
         (\E a \in Agent : AgentChanges(a)) \/ (\E e \in Endpoint \ Unprobeable : EndpointChanges(e))
  PROVE  Promise!Changes
BY ChangeTypes DEF Changes, Promise!Changes

(* Nobody who waits notices a look at the records, a probe or a snapshot.  *)
LEMMA LookingFulfils ==
  ASSUME IInv,
         TakeSnapshot \/ \E c \in Caller : ListRecords(c) \/ \E a \in Agent : ProbeEnds(c, a)
  PROVE  UNCHANGED Promise!promiseVars
<1>1. CASE TakeSnapshot
  BY <1>1, SnapshotTypes DEF TakeSnapshot, worldVars, Promise!promiseVars
<1>2. ASSUME NEW c \in Caller, ListRecords(c) \/ \E a \in Agent : ProbeEnds(c, a)
      PROVE  UNCHANGED Promise!promiseVars
  BY <1>2 DEF ListRecords, ProbeEnds, worldVars, Promise!promiseVars
<1>3. QED
  BY <1>1, <1>2

LEMMA InitFulfils == Init => Promise!Init
BY DEF Init, Promise!Init, Caller

(* However refreshes interleave and whatever changes under them, the       *)
(* snapshots only get newer, an answer is never from before its question,  *)
(* and a request fails only for an agent that could not be probed.         *)
THEOREM KeepsThePromise == Spec => PromiseSpec
<1>1. Init => Promise!Init
  BY InitFulfils
<1>2. IInv /\ [Next]_vars => [Promise!Next]_(Promise!promiseVars)
  <2> SUFFICES ASSUME IInv, [Next]_vars PROVE [Promise!Next]_(Promise!promiseVars)
    OBVIOUS
  <2>1. CASE UNCHANGED vars
    BY <2>1 DEF vars, worldVars, Promise!promiseVars
  <2>2. ASSUME NEW c \in Caller, AskRefresh(c) \/ RefreshEnds(c) \/ RefreshRaises(c)
        PROVE  [Promise!Next]_(Promise!promiseVars)
    BY <2>2, AskFulfils, EndFulfils, RaiseFulfils DEF Promise!Next
  <2>3. CASE (\E a \in Agent : AgentChanges(a)) \/ (\E e \in Endpoint \ Unprobeable : EndpointChanges(e))
    BY <2>3, ChangeFulfils DEF Promise!Next
  <2>4. CASE TakeSnapshot \/ \E c \in Caller : ListRecords(c) \/ \E a \in Agent : ProbeEnds(c, a)
    BY <2>4, LookingFulfils
  <2>5. QED
    BY <2>1, <2>2, <2>3, <2>4 DEF Next, RefreshStep
<1>3. QED
  BY <1>1, <1>2, MonitorInvariant, PTL DEF Spec, PromiseSpec, Promise!Spec

-----------------------------------------------------------------------------
(* The page (Dashboard), as the monitor's clients see it.  What is proved  *)
(* of Page!Spec holds of every Registry that keeps StatusPromise.          *)

USE DEF Page!Statuses, Page!registryVars, Page!streamVars, Page!pageVars

(* What a call of refreshData is, and that it is not one that is over. *)
LEMMA CallFields ==
  ASSUME NEW c \in Page!Call
  PROVE  /\ c # Page!Idle
         /\ c.force \in BOOLEAN /\ c.since \in 1 .. MaxEpoch /\ c.agents \in 0 .. MaxEpoch
         /\ c.statuses \in Page!Statuses \cup {Page!Nothing}
BY DEF Page!Call, Page!Idle

LEMMA AnswersDiffer ==
  ASSUME NEW x \in Page!Statuses
  PROVE  x # Page!Nothing /\ x # Page!Idle
BY DEF Page!Nothing, Page!Idle

LEMMA NothingIsNotIdle == Page!Nothing # Page!Idle
BY DEF Page!Nothing, Page!Idle

(* The part of the invariant that is about the calls is kept when one of   *)
(* them becomes c and waits at the monitor just if c has to.               *)
LEMMA OneCallChanges ==
  ASSUME Page!PageInv, NEW s \in Request, NEW c \in Page!Call \cup {Page!Idle},
         calls' = [calls EXCEPT ![s] = c], epoch' = epoch,
         \A r \in Request : r # s => asked'[r] = asked[r],
         asked'[s] = IF c # Page!Idle /\ c.statuses = Page!Nothing /\ c.force
                     THEN c.since ELSE 0,
         c # Page!Idle =>
           /\ c.since <= epoch
           /\ c.agents # 0 => c.agents >= c.since
           /\ c.force /\ c.statuses # Page!Nothing => c.statuses.seen >= c.since
  PROVE  Page!ForcedWait' /\ Page!CallsFresh' /\ calls' \in [Request -> Page!Call \cup {Page!Idle}]
<1> USE DEF Page!PageInv, Page!AwaitsStatuses, Page!AwaitsAgents
<1>1. calls \in [Request -> Page!Call \cup {Page!Idle}]
  BY DEF Page!TypeOK
<1>2. calls'[s] = c /\ \A r \in Request : r # s => calls'[r] = calls[r]
  BY <1>1
<1>3. Page!ForcedWait'
  BY <1>2 DEF Page!ForcedWait
<1>4. Page!CallsFresh'
  BY <1>2 DEF Page!CallsFresh
<1>5. QED
  BY <1>1, <1>3, <1>4

(* Registry, stream, and the rest of the page are typed on their own. *)
PageRest ==
  /\ recorded \in 0 .. MaxEvent
  /\ queue \in 0 .. QueueSize
  /\ stream \in {"closed", "connecting", "open"}
  /\ timer \in BOOLEAN
  /\ statusCall \in Page!Statuses \cup {Page!Nothing, Page!Idle}
  /\ screen \in [agents: 0 .. MaxEpoch, seen: 0 .. MaxEpoch, tasks: 0 .. MaxEvent]
  /\ authorized \in BOOLEAN
  /\ incidents \in 0 .. MaxIncident
  /\ Page!QueueServed

LEMMA InvParts ==
  Page!PageInv <=>
    /\ Page!Monitor!TypeOK /\ PageRest
    /\ calls \in [Request -> Page!Call \cup {Page!Idle}]
    /\ Page!ForcedWait /\ Page!CallsFresh
BY DEF Page!PageInv, Page!TypeOK, PageRest
LEMMA InvPartsAfter ==
  ASSUME Page!Monitor!TypeOK', PageRest',
         Page!ForcedWait' /\ Page!CallsFresh' /\ calls' \in [Request -> Page!Call \cup {Page!Idle}]
  PROVE  Page!PageInv'
BY DEF Page!PageInv, Page!TypeOK, PageRest
(* Steps that leave the registry or everything but the calls alone. *)
LEMMA RegistryKept ==
  ASSUME Page!PageInv, UNCHANGED Page!registryVars
  PROVE  Page!Monitor!TypeOK' /\ epoch' = epoch /\ \A r \in Request : asked'[r] = asked[r]
<1>1. \A r \in Request : asked'[r] = [q \in Request |-> asked[q]]'[r]
  OBVIOUS
<1>2. \A r \in Request : asked[r] = [q \in Request |-> asked[q]][r]
  OBVIOUS
<1>3. [q \in Request |-> asked[q]]' = [q \in Request |-> asked[q]]
  OBVIOUS
<1>4. QED
  BY <1>1, <1>2, <1>3 DEF Page!PageInv, Page!TypeOK, Page!Monitor!TypeOK

LEMMA RestKept ==
  ASSUME Page!PageInv,
         UNCHANGED <<recorded, queue, stream, timer, statusCall, screen, authorized, incidents>>
  PROVE  PageRest'
BY InvParts DEF PageRest, Page!QueueServed

LEMMA CallsKept ==
  ASSUME Page!PageInv, UNCHANGED Page!registryVars, UNCHANGED calls
  PROVE  Page!ForcedWait' /\ Page!CallsFresh' /\ calls' \in [Request -> Page!Call \cup {Page!Idle}]
BY RegistryKept DEF Page!PageInv, Page!TypeOK, Page!ForcedWait, Page!CallsFresh,
   Page!AwaitsStatuses, Page!AwaitsAgents

LEMMA TypedPage ==
  ASSUME Page!PageInv
  PROVE  /\ epoch \in 1 .. MaxEpoch /\ statuses.seen \in 0 .. epoch /\ unfit \in 0 .. epoch
         /\ \A r \in Request : asked[r] \in 0 .. epoch
         /\ recorded \in 0 .. MaxEvent
         /\ [seen |-> statuses.seen, tasks |-> recorded] \in Page!Statuses
<1> USE MonitorAssumption, PageAssumption
<1>1. /\ epoch \in 1 .. MaxEpoch /\ statuses.seen \in 0 .. epoch /\ unfit \in 0 .. epoch
      /\ recorded \in 0 .. MaxEvent
      /\ [r \in Request |-> asked[r]] \in [Request -> 0 .. epoch]
  BY DEF Page!PageInv, Page!TypeOK, Page!Monitor!TypeOK
<1>2. \A r \in Request : asked[r] \in 0 .. epoch
  BY <1>1
<1>3. QED
  BY <1>1, <1>2

(* A call that is sent has got nothing yet. *)
LEMMA SentCall ==
  ASSUME Page!PageInv, NEW s \in Request, NEW force \in BOOLEAN, Page!Sends(s, force),
         epoch' = epoch, \A r \in Request : r # s => asked'[r] = asked[r],
         asked'[s] = IF force THEN epoch ELSE asked[s]
  PROVE  Page!ForcedWait' /\ Page!CallsFresh' /\ calls' \in [Request -> Page!Call \cup {Page!Idle}]
<1> DEFINE c == [force |-> force, since |-> epoch, agents |-> 0, statuses |-> Page!Nothing]
<1>1. epoch \in 1 .. MaxEpoch
  BY TypedPage
<1>2. /\ c \in Page!Call /\ c.force = force /\ c.since = epoch
      /\ c.agents = 0 /\ c.statuses = Page!Nothing
  BY <1>1, MonitorAssumption DEF Page!Call
<1>3. asked[s] = 0
  BY DEF Page!Sends, Page!PageInv, Page!ForcedWait, Page!AwaitsStatuses
<1>4. calls' = [calls EXCEPT ![s] = c]
  BY DEF Page!Sends
<1> HIDE DEF c
<1>5. asked'[s] = IF c # Page!Idle /\ c.statuses = Page!Nothing /\ c.force
                  THEN c.since ELSE 0
  BY <1>2, <1>3, CallFields
<1>6. /\ c.since <= epoch
      /\ c.agents # 0 => c.agents >= c.since
      /\ c.force /\ c.statuses # Page!Nothing => c.statuses.seen >= c.since
  BY <1>1, <1>2
<1>7. c \in Page!Call \cup {Page!Idle}
  BY <1>2
<1>8. QED
  BY <1>4, <1>5, <1>6, <1>7, OneCallChanges

LEMMA PollKeeps ==
  ASSUME Page!PageInv, NEW s \in Request, Page!Poll(s)
  PROVE  Page!PageInv'
<1>1. Page!Sends(s, FALSE)
  BY DEF Page!Poll
<1>2. Page!ForcedWait' /\ Page!CallsFresh' /\ calls' \in [Request -> Page!Call \cup {Page!Idle}]
  BY <1>1, RegistryKept, SentCall DEF Page!Poll
<1>3. QED
  BY <1>2, RegistryKept, RestKept, InvPartsAfter DEF Page!Poll

LEMMA ForceKeeps ==
  ASSUME Page!PageInv, NEW s \in Request, Page!Force(s)
  PROVE  Page!PageInv'
<1> USE DEF Page!Force, Page!ForceSent, Page!Monitor!Ask
<1>1. /\ epoch' = epoch /\ asked'[s] = epoch
      /\ \A r \in Request : r # s => asked'[r] = asked[r]
  <2>1. [r \in Request |-> asked'[r]] = [[r \in Request |-> asked[r]] EXCEPT ![s] = epoch]
    OBVIOUS
  <2>2. \A q \in Request : [r \in Request |-> asked'[r]][q]
                           = [[r \in Request |-> asked[r]] EXCEPT ![s] = epoch][q]
    BY <2>1
  <2>3. QED
    BY <2>2
<1>2. Page!Monitor!TypeOK'
  BY <1>1, TypedPage DEF Page!PageInv, Page!TypeOK, Page!Monitor!TypeOK
<1>3. Page!Sends(s, TRUE)
  OBVIOUS
<1>4. Page!ForcedWait' /\ Page!CallsFresh' /\ calls' \in [Request -> Page!Call \cup {Page!Idle}]
  BY <1>1, <1>3, SentCall
<1>5. QED
  BY <1>2, <1>4, RestKept, InvPartsAfter

LEMMA AgentsKeep ==
  ASSUME Page!PageInv, NEW s \in Request, Page!AgentsAnswered(s)
  PROVE  Page!PageInv'
<1> USE DEF Page!AgentsAnswered
<1> DEFINE c == [calls[s] EXCEPT !.agents = epoch]
<1>1. /\ calls[s] \in Page!Call /\ calls[s].since <= epoch /\ epoch \in 1 .. MaxEpoch
      /\ calls[s].force /\ calls[s].statuses # Page!Nothing
           => calls[s].statuses.seen >= calls[s].since
      /\ asked[s] = IF calls[s].statuses = Page!Nothing /\ calls[s].force
                    THEN calls[s].since ELSE 0
  BY TypedPage, CallFields DEF Page!AwaitsAgents, Page!PageInv, Page!TypeOK, Page!CallsFresh,
     Page!ForcedWait, Page!AwaitsStatuses
<1>2. /\ c \in Page!Call /\ c.force = calls[s].force /\ c.since = calls[s].since
      /\ c.agents = epoch /\ c.statuses = calls[s].statuses
  BY <1>1, MonitorAssumption DEF Page!Call
<1>3. calls' = [calls EXCEPT ![s] = c]
  OBVIOUS
<1> HIDE DEF c
<1>4. epoch' = epoch /\ \A r \in Request : asked'[r] = asked[r]
  BY RegistryKept
<1>5. asked'[s] = IF c # Page!Idle /\ c.statuses = Page!Nothing /\ c.force
                  THEN c.since ELSE 0
  BY <1>1, <1>2, <1>4, CallFields
<1>6. /\ c.since <= epoch
      /\ c.agents # 0 => c.agents >= c.since
      /\ c.force /\ c.statuses # Page!Nothing => c.statuses.seen >= c.since
  BY <1>1, <1>2, CallFields
<1>7. Page!ForcedWait' /\ Page!CallsFresh' /\ calls' \in [Request -> Page!Call \cup {Page!Idle}]
  BY <1>2, <1>3, <1>4, <1>5, <1>6, OneCallChanges
<1>8. QED
  BY <1>7, RegistryKept, RestKept, InvPartsAfter

(* A call that gets its statuses: answer is what it gets. *)
LEMMA StatusesTaken ==
  ASSUME Page!PageInv, NEW s \in Request, Page!AwaitsStatuses(s), NEW answer \in Page!Statuses,
         calls' = [calls EXCEPT ![s].statuses = answer], epoch' = epoch,
         calls[s].force => answer.seen >= calls[s].since, asked'[s] = 0,
         \A r \in Request : r # s => asked'[r] = asked[r]
  PROVE  Page!ForcedWait' /\ Page!CallsFresh' /\ calls' \in [Request -> Page!Call \cup {Page!Idle}]
<1> DEFINE c == [calls[s] EXCEPT !.statuses = answer]
<1>1. /\ calls[s] \in Page!Call /\ calls[s].since <= epoch
      /\ calls[s].agents # 0 => calls[s].agents >= calls[s].since
  BY DEF Page!AwaitsAgents, Page!PageInv, Page!TypeOK, Page!CallsFresh, Page!AwaitsStatuses
<1>2. /\ c \in Page!Call /\ c.force = calls[s].force /\ c.since = calls[s].since
      /\ c.agents = calls[s].agents /\ c.statuses = answer
  BY <1>1 DEF Page!Call
<1>3. calls' = [calls EXCEPT ![s] = c] /\ answer # Page!Nothing
  BY AnswersDiffer
<1> HIDE DEF c
<1>4. QED
  BY <1>1, <1>2, <1>3, CallFields, OneCallChanges

LEMMA AnswerKeeps ==
  ASSUME Page!PageInv, NEW s \in Request, Page!StatusesAnswered(s)
  PROVE  Page!PageInv'
<1> USE DEF Page!StatusesAnswered
<1>1. asked[s] = 0
  BY DEF Page!PageInv, Page!ForcedWait
<1>2. Page!ForcedWait' /\ Page!CallsFresh' /\ calls' \in [Request -> Page!Call \cup {Page!Idle}]
  BY <1>1, TypedPage, RegistryKept, StatusesTaken DEF Page!Ready
<1>3. QED
  BY <1>2, RegistryKept, RestKept, InvPartsAfter
(* Whom the monitor answers or refuses waits no more; others still do. *)
LEMMA LeavingMonitor ==
  ASSUME NEW s \in Request, Page!Monitor!Leaves(s)
  PROVE  asked'[s] = 0 /\ \A r \in Request : r # s => asked'[r] = asked[r]
<1>1. [r \in Request |-> asked'[r]] = [[r \in Request |-> asked[r]] EXCEPT ![s] = 0]
  BY DEF Page!Monitor!Leaves
<1>2. \A q \in Request : [r \in Request |-> asked'[r]][q]
                         = [[r \in Request |-> asked[r]] EXCEPT ![s] = 0][q]
  BY <1>1
<1>3. QED
  BY <1>2

LEMMA WaitsForced ==
  ASSUME Page!PageInv, NEW s \in Request, asked[s] # 0
  PROVE  Page!AwaitsStatuses(s) /\ calls[s].force /\ asked[s] = calls[s].since
BY DEF Page!PageInv, Page!ForcedWait

LEMMA RefreshAnswerKeeps ==
  ASSUME Page!PageInv, NEW s \in Request, Page!RefreshAnswered(s)
  PROVE  Page!PageInv'
<1> USE DEF Page!RefreshAnswered, Page!RefreshTaken, Page!Monitor!Answer
<1>1. /\ asked[s] # 0 /\ epoch' = epoch /\ unfit' = unfit
      /\ statuses'.seen \in statuses.seen .. epoch /\ statuses'.seen >= asked[s]
      /\ asked'[s] = 0 /\ \A r \in Request : r # s => asked'[r] = asked[r]
  BY LeavingMonitor
<1>2. Page!Monitor!TypeOK'
  BY <1>1, TypedPage DEF Page!PageInv, Page!TypeOK, Page!Monitor!TypeOK
<1> DEFINE answer == [seen |-> statuses'.seen, tasks |-> recorded]
<1>3. answer \in Page!Statuses /\ answer.seen = statuses'.seen
  BY <1>1, TypedPage, MonitorAssumption
<1>4. calls' = [calls EXCEPT ![s].statuses = answer]
  OBVIOUS
<1> HIDE DEF answer
<1>5. Page!ForcedWait' /\ Page!CallsFresh' /\ calls' \in [Request -> Page!Call \cup {Page!Idle}]
  BY <1>1, <1>3, <1>4, WaitsForced, StatusesTaken
<1>6. QED
  BY <1>2, <1>5, RestKept, InvPartsAfter

(* A call that is over, and does not wait. *)
LEMMA CallOver ==
  ASSUME Page!PageInv, NEW s \in Request, calls' = [calls EXCEPT ![s] = Page!Idle],
         epoch' = epoch, asked'[s] = 0, \A r \in Request : r # s => asked'[r] = asked[r]
  PROVE  Page!ForcedWait' /\ Page!CallsFresh' /\ calls' \in [Request -> Page!Call \cup {Page!Idle}]
BY OneCallChanges

LEMMA RefusalKeeps ==
  ASSUME Page!PageInv, NEW s \in Request, Page!RefreshRefused(s)
  PROVE  Page!PageInv'
<1> USE DEF Page!RefreshRefused, Page!RefreshRaised, Page!Monitor!Refuse
<1>1. /\ epoch' = epoch /\ unfit' = unfit /\ statuses'.seen = statuses.seen
      /\ asked'[s] = 0 /\ \A r \in Request : r # s => asked'[r] = asked[r]
  BY LeavingMonitor
<1>2. Page!Monitor!TypeOK'
  BY <1>1, TypedPage DEF Page!PageInv, Page!TypeOK, Page!Monitor!TypeOK
<1>3. Page!ForcedWait' /\ Page!CallsFresh' /\ calls' \in [Request -> Page!Call \cup {Page!Idle}]
  BY <1>1, CallOver
<1>4. QED
  BY <1>2, <1>3, RestKept, InvPartsAfter

(* A call that is shown has all it waited for. *)
LEMMA ShownCall ==
  ASSUME Page!PageInv, NEW s \in Request, Page!DataShown(s)
  PROVE  /\ calls[s] \in Page!Call /\ calls[s].statuses \in Page!Statuses
         /\ asked[s] = 0
         /\ calls[s].agents >= calls[s].since
         /\ calls[s].force => calls[s].statuses.seen >= calls[s].since
<1>1. /\ calls[s] \in Page!Call
      /\ calls[s].statuses # Page!Nothing /\ calls[s].agents # 0
  BY DEF Page!DataShown, Page!AwaitsAgents, Page!AwaitsStatuses, Page!PageInv, Page!TypeOK
<1>2. QED
  BY <1>1, CallFields DEF Page!PageInv, Page!ForcedWait, Page!CallsFresh, Page!AwaitsStatuses,
     Page!AwaitsAgents

LEMMA ShowingKeeps ==
  ASSUME Page!PageInv, NEW s \in Request, Page!DataShown(s)
  PROVE  Page!PageInv'
<1> USE DEF Page!DataShown
<1>1. PageRest'
  <2>1. screen' \in [agents: 0 .. MaxEpoch, seen: 0 .. MaxEpoch, tasks: 0 .. MaxEvent]
    BY ShownCall, CallFields
  <2>2. QED
    BY <2>1, InvParts DEF PageRest, Page!QueueServed
<1>2. Page!ForcedWait' /\ Page!CallsFresh' /\ calls' \in [Request -> Page!Call \cup {Page!Idle}]
  BY ShownCall, RegistryKept, CallOver
<1>3. QED
  BY <1>1, <1>2, RegistryKept, InvPartsAfter

LEMMA IncidentTyped ==
  ASSUME Page!PageInv, Page!Happens
  PROVE  incidents' \in 0 .. MaxIncident
BY PageAssumption DEF Page!Happens, Page!PageInv, Page!TypeOK

LEMMA FailingKeeps ==
  ASSUME Page!PageInv, NEW s \in Request, Page!DataFails(s)
  PROVE  Page!PageInv'
<1> USE DEF Page!DataFails
<1>1. PageRest'
  BY IncidentTyped, InvParts DEF PageRest, Page!QueueServed
<1>2. asked[s] = 0
  OBVIOUS
<1>3. Page!ForcedWait' /\ Page!CallsFresh' /\ calls' \in [Request -> Page!Call \cup {Page!Idle}]
  BY <1>2, RegistryKept, CallOver
<1>4. QED
  BY <1>1, <1>3, RegistryKept, InvPartsAfter

LEMMA TokenKeeps ==
  ASSUME Page!PageInv, NEW s \in Request, Page!EnterToken(s)
  PROVE  Page!PageInv'
<1> USE DEF Page!EnterToken, Page!Connect
<1>1. timer \in BOOLEAN /\ timer' = (timer \/ stream # "closed")
  BY DEF Page!PageInv, Page!TypeOK
<1>2. timer' \in BOOLEAN
  BY <1>1
<1>3. PageRest'
  BY <1>2, IncidentTyped, InvParts, PageAssumption DEF PageRest, Page!QueueServed
<1>4. Page!ForcedWait' /\ Page!CallsFresh' /\ calls' \in [Request -> Page!Call \cup {Page!Idle}]
  BY RegistryKept, SentCall, CallsKept
<1>5. QED
  BY <1>3, <1>4, RegistryKept, InvPartsAfter

(* The agents, the network and the monitor's loop move on. *)
LEMMA RegistryMoves ==
  ASSUME Page!PageInv, Page!RegistryChanges
  PROVE  Page!PageInv'
<1> USE DEF Page!RegistryChanges, Page!Monitor!Changes, Page!Monitor!Refreshed
<1>1. /\ epoch' \in 1 .. MaxEpoch /\ epoch <= epoch' /\ statuses'.seen \in 0 .. epoch'
      /\ unfit' \in 0 .. epoch'
      /\ [r \in Request |-> asked'[r]] = [r \in Request |-> asked[r]]
  BY TypedPage, MonitorAssumption
<1>2. \A r \in Request : asked'[r] = asked[r]
  <2>1. \A q \in Request : [r \in Request |-> asked'[r]][q] = [r \in Request |-> asked[r]][q]
    BY <1>1
  <2>2. QED
    BY <2>1
<1>3. Page!Monitor!TypeOK'
  BY <1>1, <1>2, TypedPage DEF Page!Monitor!TypeOK
<1>4. Page!CallsFresh'
  <2>1. \A s \in Request : calls[s] # Page!Idle => calls[s].since \in Nat
    BY CallFields DEF Page!PageInv, Page!TypeOK
  <2>2. QED
    BY <1>1, <2>1, TypedPage DEF Page!PageInv, Page!CallsFresh, Page!AwaitsStatuses, Page!AwaitsAgents
<1>5. Page!ForcedWait'
  BY <1>2 DEF Page!PageInv, Page!ForcedWait, Page!AwaitsStatuses
<1>6. QED
  BY <1>3, <1>4, <1>5, RestKept, InvParts, InvPartsAfter
(* The stream of events, and the call that events make the page do. *)
LEMMA StreamKeeps ==
  ASSUME Page!PageInv,
         Page!RecordEvent \/ Page!StreamStep \/ Page!StreamFails \/ Page!StreamEnds \/ Page!EventRead
  PROVE  Page!PageInv'
<1> USE PageAssumption
<1>1. /\ UNCHANGED Page!registryVars /\ UNCHANGED calls /\ UNCHANGED screen
      /\ UNCHANGED authorized
  BY DEF Page!RecordEvent, Page!StreamStep, Page!StreamOpens, Page!StreamRefused,
     Page!TimerFires, Page!StreamFails, Page!StreamEnds, Page!EventRead
<1>2. PageRest
  BY InvParts
<1>3. PageRest'
  <2> USE <1>1, <1>2 DEF PageRest, Page!QueueServed
  <2>1. CASE Page!RecordEvent
    BY <2>1 DEF Page!RecordEvent, Page!Queued
  <2>2. CASE Page!StreamOpens
    BY <2>2 DEF Page!StreamOpens
  <2>3. CASE Page!StreamRefused
    BY <2>3 DEF Page!StreamRefused, Page!Rejected
  <2>4. CASE Page!TimerFires
    <3>1. timer' = (FALSE \/ stream # "closed")
      BY <2>4 DEF Page!TimerFires, Page!Connect
    <3>2. timer' \in BOOLEAN
      BY <3>1
    <3>3. QED
      BY <2>4, <3>2 DEF Page!TimerFires, Page!Connect
  <2>5. CASE Page!StreamFails
    BY <2>5, IncidentTyped DEF Page!StreamFails, Page!Rejected
  <2>6. CASE Page!StreamEnds
    BY <2>6, IncidentTyped DEF Page!StreamEnds
  <2>7. CASE Page!EventRead
    BY <2>7 DEF Page!EventRead
  <2>8. QED
    BY <2>1, <2>2, <2>3, <2>4, <2>5, <2>6, <2>7 DEF Page!StreamStep
<1>4. QED
  BY <1>1, <1>3, RegistryKept, CallsKept, InvPartsAfter

LEMMA StatusCallKeeps ==
  ASSUME Page!PageInv, Page!StatusCallStep \/ Page!StatusCallFails
  PROVE  Page!PageInv'
<1>1. UNCHANGED Page!registryVars /\ UNCHANGED calls
  BY DEF Page!StatusCallStep, Page!StatusCallAnswered, Page!StatusesShown, Page!StatusCallFails
<1>2. PageRest
  BY InvParts
<1>3. PageRest'
  <2> USE <1>2 DEF PageRest, Page!QueueServed
  <2>1. CASE Page!StatusCallAnswered
    BY <2>1, TypedPage DEF Page!StatusCallAnswered, Page!Ready
  <2>2. CASE Page!StatusesShown
    BY <2>2 DEF Page!StatusesShown
  <2>3. CASE Page!StatusCallFails
    BY <2>3, IncidentTyped DEF Page!StatusCallFails
  <2>4. QED
    BY <2>1, <2>2, <2>3 DEF Page!StatusCallStep
<1>4. QED
  BY <1>1, <1>3, RegistryKept, CallsKept, InvPartsAfter

LEMMA PageInitInv == Page!Init => Page!PageInv
<1> SUFFICES ASSUME Page!Init PROVE Page!PageInv
  OBVIOUS
<1> USE MonitorAssumption, PageAssumption DEF Page!Init, Page!PageInit
<1>1. Page!Monitor!TypeOK /\ epoch = 1
  BY DEF Page!Monitor!Init, Page!Monitor!TypeOK
<1>2. /\ \A s \in Request : calls[s] = Page!Idle
      /\ calls \in [Request -> Page!Call \cup {Page!Idle}]
  OBVIOUS
<1>3. \A s \in Request : asked[s] = 0
  <2>1. [r \in Request |-> asked[r]] = [r \in Request |-> 0]
    BY DEF Page!Monitor!Init
  <2>2. \A q \in Request : [r \in Request |-> asked[r]][q] = [r \in Request |-> 0][q]
    BY <2>1
  <2>3. QED
    BY <2>2
<1>4. Page!ForcedWait /\ Page!CallsFresh
  BY <1>2, <1>3 DEF Page!ForcedWait, Page!CallsFresh, Page!AwaitsStatuses
<1>5. PageRest
  <2>1. timer \in BOOLEAN
    OBVIOUS
  <2>2. screen \in [agents: 0 .. MaxEpoch, seen: 0 .. MaxEpoch, tasks: 0 .. MaxEvent]
    OBVIOUS
  <2>3. QED
    BY <2>1, <2>2 DEF PageRest, Page!QueueServed
<1>6. QED
  BY <1>1, <1>2, <1>4, <1>5, InvParts

LEMMA PageNextInv == Page!PageInv /\ [Page!Next]_(Page!vars) => Page!PageInv'
<1> SUFFICES ASSUME Page!PageInv, [Page!Next]_(Page!vars) PROVE Page!PageInv'
  OBVIOUS
<1>1. CASE UNCHANGED Page!vars
  BY <1>1, RegistryKept, RestKept, CallsKept, InvPartsAfter DEF Page!vars
<1>2. CASE Page!RegistryChanges
  BY <1>2, RegistryMoves
<1>3. ASSUME NEW s \in Request, Page!Poll(s) \/ Page!Force(s) PROVE Page!PageInv'
  BY <1>3, PollKeeps, ForceKeeps
<1>4. ASSUME NEW s \in Request, Page!CallStep(s) PROVE Page!PageInv'
  BY <1>4, AgentsKeep, AnswerKeeps, RefreshAnswerKeeps, RefusalKeeps, ShowingKeeps
     DEF Page!CallStep
<1>5. ASSUME NEW s \in Request, Page!DataFails(s) \/ Page!EnterToken(s) PROVE Page!PageInv'
  BY <1>5, FailingKeeps, TokenKeeps
<1>6. CASE Page!RecordEvent \/ Page!StreamStep \/ Page!StreamFails \/ Page!StreamEnds
             \/ Page!EventRead
  BY <1>6, StreamKeeps
<1>7. CASE Page!StatusCallStep \/ Page!StatusCallFails
  BY <1>7, StatusCallKeeps
<1>8. QED
  BY <1>1, <1>2, <1>3, <1>4, <1>5, <1>6, <1>7 DEF Page!Next

(* On every page a forced call waits at the monitor from when it was made  *)
(* until it has its statuses, and nothing a call has got is older than it. *)
THEOREM PageInvariant == Page!Spec => []Page!PageInv
BY PageInitInv, PageNextInv, PTL DEF Page!Spec

(* The answers that overtake each other, the events, and what the page     *)
(* shows keep their types: a call is shown only with both its answers.     *)
THEOREM PageTypeCorrect == Page!Spec => []Page!TypeOK
<1>1. Page!PageInv => Page!TypeOK
  BY DEF Page!PageInv
<1>2. QED
  BY <1>1, PageInvariant, PTL

(* On any page, with any number of calls under way, a call that is shown   *)
(* shows agents that are not older than it, and one that was forced shows  *)
(* statuses that are not older than it.                                    *)
THEOREM ShownIsFresh == Page!Spec => Page!RefreshIsFresh
<1>1. Page!PageInv /\ [Page!Next]_(Page!vars) => [Page!ShowsFresh]_(Page!vars)
  <2> SUFFICES ASSUME Page!PageInv PROVE Page!ShowsFresh
    OBVIOUS
  <2>1. ASSUME NEW s \in Request, Page!DataShown(s)
        PROVE  /\ screen'.agents >= calls[s].since
               /\ calls[s].force => screen'.seen >= calls[s].since
    BY <2>1, ShownCall DEF Page!DataShown
  <2>2. QED
    BY <2>1 DEF Page!ShowsFresh
<1>2. QED
  BY <1>1, PageInvariant, PTL DEF Page!Spec, Page!RefreshIsFresh
-----------------------------------------------------------------------------
(* The page with the monitor (MonitoredPage): its steps are steps of the   *)
(* monitor, so that the monitor's invariant holds, and steps of the page   *)
(* on a monitor that keeps its promise.                                    *)

LEMMA MonitorSteps == [MonitoredNext]_monitoredVars => [Next]_vars
<1> SUFFICES ASSUME [MonitoredNext]_monitoredVars PROVE [Next]_vars
  OBVIOUS
<1>1. CASE UNCHANGED monitoredVars
  BY <1>1 DEF monitoredVars
<1>2. CASE MonitorAlone
  BY <1>2 DEF MonitorAlone, Next, RefreshStep, Caller
<1>3. CASE PageAlone
  BY <1>3 DEF PageAlone
<1>4. CASE StatusesRead
  BY <1>4 DEF StatusesRead, Next
<1>5. ASSUME NEW r \in Request, ForcedStep(r) PROVE Next
  BY <1>5 DEF ForcedStep, Next, RefreshStep, Caller
<1>6. QED
  BY <1>1, <1>2, <1>3, <1>4, <1>5 DEF MonitoredNext

(* The page takes from the monitor only what every caller may. *)
LEMMA PageIsAClient == MonitoredSpec => Spec
<1>1. MonitoredInit => Init
  BY DEF MonitoredInit
<1>2. QED
  BY <1>1, MonitorSteps, PTL DEF MonitoredSpec, Spec

(* The monitor's promise, said of the page's monitor. *)
LEMMA SamePromise ==
  /\ Promise!Init => Page!Monitor!Init
  /\ Promise!Changes => Page!Monitor!Changes
  /\ Promise!Refreshed => Page!Monitor!Refreshed
  /\ UNCHANGED Promise!promiseVars => UNCHANGED Page!registryVars
<1>1. Promise!Init => Page!Monitor!Init
  BY DEF Promise!Init, Page!Monitor!Init
<1>2. Promise!Changes => Page!Monitor!Changes
  BY DEF Promise!Changes, Page!Monitor!Changes
<1>3. Promise!Refreshed => Page!Monitor!Refreshed
  BY DEF Promise!Refreshed, Page!Monitor!Refreshed
<1>4. UNCHANGED Promise!promiseVars => UNCHANGED Page!registryVars
  BY DEF Promise!promiseVars
<1>5. QED
  BY <1>1, <1>2, <1>3, <1>4

LEMMA SameToCallers ==
  ASSUME NEW r \in Request
  PROVE  /\ Promise!Ask(r) => Page!Monitor!Ask(r)
         /\ Promise!Answer(r) => Page!Monitor!Answer(r)
         /\ Promise!Refuse(r) => Page!Monitor!Refuse(r)
<1>1. Promise!Ask(r) => Page!Monitor!Ask(r)
  BY DEF Promise!Ask, Page!Monitor!Ask
<1>2. Promise!Answer(r) => Page!Monitor!Answer(r)
  BY DEF Promise!Answer, Page!Monitor!Answer, Promise!Leaves, Page!Monitor!Leaves
<1>3. Promise!Refuse(r) => Page!Monitor!Refuse(r)
  BY DEF Promise!Refuse, Page!Monitor!Refuse, Promise!Leaves, Page!Monitor!Leaves
<1>4. QED
  BY <1>1, <1>2, <1>3

LEMMA ForcedIsForce ==
  ASSUME IInv, NEW r \in Request, ForcedStep(r)
  PROVE  Page!Next
<1>1. r \in Caller
  BY DEF Caller
<1>2. CASE AskRefresh(r) /\ Page!ForceSent(r)
  <2>1. Page!Force(r)
    BY <1>1, <1>2, AskFulfils, SameToCallers DEF Page!Force
  <2>2. QED
    BY <2>1 DEF Page!Next
<1>3. CASE RefreshEnds(r) /\ Page!RefreshTaken(r)
  <2>1. Page!RefreshAnswered(r)
    BY <1>1, <1>3, EndFulfils, SameToCallers DEF Page!RefreshAnswered
  <2>2. QED
    BY <2>1 DEF Page!Next, Page!CallStep
<1>4. CASE RefreshRaises(r) /\ Page!RefreshRaised(r)
  <2>1. Page!RefreshRefused(r)
    BY <1>1, <1>4, RaiseFulfils, SameToCallers DEF Page!RefreshRefused
  <2>2. QED
    BY <2>1 DEF Page!Next, Page!CallStep
<1>5. QED
  BY <1>2, <1>3, <1>4 DEF ForcedStep

LEMMA MonitorAloneIsRegistry ==
  ASSUME IInv, MonitorAlone
  PROVE  [Page!Next]_(Page!vars)
<1>1. "loop" \in Caller /\ "loop" \notin Request /\ UNCHANGED pageVars
  BY MonitorAssumption DEF Caller, MonitorAlone
<1>2. CASE UNCHANGED Promise!promiseVars
  BY <1>1, <1>2, SamePromise DEF Page!vars, pageVars
<1>3. CASE Promise!Changes \/ Promise!Refreshed
  BY <1>1, <1>3, SamePromise DEF Page!RegistryChanges, Page!Next, pageVars
<1>4. CASE AskRefresh("loop")
  BY <1>1, <1>2, <1>4, AskFulfils
<1>5. CASE RefreshEnds("loop")
  BY <1>1, <1>3, <1>5, EndFulfils
<1>6. CASE RefreshRaises("loop")
  BY <1>1, <1>2, <1>6, RaiseFulfils
<1>7. CASE TakeSnapshot \/ \E c \in Caller : ListRecords(c) \/ \E a \in Agent : ProbeEnds(c, a)
  BY <1>2, <1>7, LookingFulfils
<1>8. CASE (\E a \in Agent : AgentChanges(a)) \/ (\E e \in Endpoint \ Unprobeable : EndpointChanges(e))
  BY <1>3, <1>8, ChangeFulfils
<1>9. QED
  BY <1>4, <1>5, <1>6, <1>7, <1>8 DEF MonitorAlone

(* The page of the composition is the page of Dashboard: the monitor that  *)
(* is in the code does what Dashboard assumes of it.                       *)
THEOREM MonitorServesPage == MonitoredSpec => PageSpec
<1>1. MonitoredInit => Page!Init
  BY InitFulfils, SamePromise DEF MonitoredInit, Page!Init
<1>2. IInv /\ [MonitoredNext]_monitoredVars => [Page!Next]_(Page!vars)
  <2> SUFFICES ASSUME IInv, [MonitoredNext]_monitoredVars PROVE [Page!Next]_(Page!vars)
    OBVIOUS
  <2>1. CASE UNCHANGED monitoredVars
    BY <2>1 DEF monitoredVars, vars, worldVars, pageVars, Page!vars
  <2>2. CASE MonitorAlone
    BY <2>2, MonitorAloneIsRegistry
  <2>3. CASE PageAlone
    BY <2>3 DEF PageAlone, Page!Next, Page!CallStep, Page!StatusCallStep
  <2>4. CASE StatusesRead
    BY <2>4 DEF StatusesRead, Page!Next, Page!CallStep, Page!StatusCallStep
  <2>5. ASSUME NEW r \in Request, ForcedStep(r) PROVE Page!Next
    BY <2>5, ForcedIsForce
  <2>6. QED
    BY <2>1, <2>2, <2>3, <2>4, <2>5 DEF MonitoredNext
<1>3. MonitoredSpec => []IInv
  BY PageIsAClient, MonitorInvariant
<1>4. QED
  BY <1>1, <1>2, <1>3, PTL DEF MonitoredSpec, PageSpec, Page!Spec

(* So a refresh that an administrator forces at the page, with the monitor *)
(* of the code behind it, is shown with statuses that are not older than   *)
(* the click.                                                              *)
THEOREM ClickIsFresh == MonitoredSpec => Page!RefreshIsFresh
BY MonitorServesPage, ShownIsFresh DEF PageSpec

=============================================================================
