----------------------- MODULE ExperienceCollectionProofs -----------------------
(***************************************************************************)
(* Proofs about the collection of experiences, for any number of agents,   *)
(* tasks, workers and copies of a message, any delivery limit and any      *)
(* lease longer than the longest collection.                               *)
(*                                                                         *)
(* The argument: a claim gives one handler a token nobody else has and a   *)
(* lease that outlasts its collection, so that only this handler can touch *)
(* the row while it collects, and what it reports is what it wrote.        *)
(***************************************************************************)
EXTENDS ExperienceCollection, SequenceTheorems, TLAPS

(* The theorems about the store, for the tables of this module. *)
StoreProofs == INSTANCE ExecutionStoreProofs
                 WITH Message <- Key, Text <- Token, Empty <- 0,
                      MaxLease <- WorkerLease

-----------------------------------------------------------------------------
(* The two instances of the store are the same specification. *)

LEMMA StoreAssumptionHolds == StoreProofs!StoreAssumption
BY CollectionAssumption DEF StoreProofs!StoreAssumption, Key, Token

LEMMA SameTypes ==
  /\ StoreProofs!Key = Key
  /\ Store!Key = Key
  /\ StoreProofs!ExecutionRow = Store!ExecutionRow
  /\ StoreProofs!ExperienceRow = Store!ExperienceRow
  /\ StoreProofs!NoRow = Store!NoRow
BY DEF StoreProofs!Key, Store!Key, Key, StoreProofs!Terminal, Store!Terminal,
   StoreProofs!ExecutionRow, Store!ExecutionRow, StoreProofs!ExperienceRow,
   Store!ExperienceRow, StoreProofs!NoRow, Store!NoRow, StoreProofs!Row, Store!Row

LEMMA SameInvariant == StoreProofs!IInv <=> Store!IInv
BY SameTypes
DEF StoreProofs!IInv, Store!IInv, StoreProofs!TypeOK, Store!TypeOK,
    StoreProofs!ClaimsCounted, Store!ClaimsCounted,
    StoreProofs!ExperienceOfCompletedTask, Store!ExperienceOfCompletedTask,
    StoreProofs!TokensUnique, Store!TokensUnique,
    StoreProofs!OnlyRunningRowsLeased, Store!OnlyRunningRowsLeased,
    StoreProofs!NoOrphanRows, Store!NoOrphanRows

LEMMA SameClaim ==
  ASSUME NEW k \in Key, Store!ClaimExperience(k, k, WorkerLease)
  PROVE  StoreProofs!ClaimExperience(k, k, WorkerLease)
BY SameTypes
DEF Store!ClaimExperience, StoreProofs!ClaimExperience, Store!MayCollect,
    StoreProofs!MayCollect, Store!Claimed, StoreProofs!Claimed,
    Store!Unused, StoreProofs!Unused

LEMMA SameComplete ==
  ASSUME NEW k \in Key, NEW token, Store!CompleteExperience(k, k, token, token)
  PROVE  StoreProofs!CompleteExperience(k, k, token, token)
BY DEF Store!CompleteExperience, StoreProofs!CompleteExperience,
       Store!HoldsExperience, StoreProofs!HoldsExperience

LEMMA SameRelease ==
  ASSUME NEW k \in Key, NEW token, Store!ReleaseExperience(k, k, token)
  PROVE  StoreProofs!ReleaseExperience(k, k, token)
BY DEF Store!ReleaseExperience, StoreProofs!ReleaseExperience,
       Store!HoldsExperience, StoreProofs!HoldsExperience

LEMMA SameTick == Store!Tick => StoreProofs!Tick
BY SameTypes DEF Store!Tick, StoreProofs!Tick, Store!Aged, StoreProofs!Aged

-----------------------------------------------------------------------------
(* Handlers that are doing something. *)

LEMMA Busy ==
  ASSUME TypeOK, NEW w \in Worker, handler[w] # Idle \/ handler[w].pc # "idle"
  PROVE  /\ handler[w] \in Handler /\ handler[w] # Idle
         /\ handler[w].msg \in Envelope /\ KeyOf(w) \in Key
         /\ handler[w].token \in Token
<1>1. handler[w] \in Handler
  BY DEF TypeOK, Idle
<1>2. handler[w] # Idle
  BY <1>1 DEF Handler, Idle
<1>3. QED
  BY <1>1, <1>2 DEF Handler, Envelope, KeyOf

(* The ways in which a step can touch the store. *)
Claims(w) ==
  At(w, "claim") /\ Store!ClaimExperience(KeyOf(w), KeyOf(w), WorkerLease)

Completes(w) == At(w, "complete") /\ Complete(w)

Releases(w) ==
  At(w, "release") /\ Store!ReleaseExperience(KeyOf(w), KeyOf(w), handler[w].token)

LEMMA StoreUse ==
  ASSUME [Next]_vars
  PROVE  \/ UNCHANGED storeVars
         \/ \E w \in Worker : Claims(w) \/ Completes(w) \/ Releases(w)
         \/ Tick
<1>1. CASE UNCHANGED vars
  BY <1>1 DEF vars
<1>2. ASSUME NEW k \in Key, Request(k) PROVE UNCHANGED storeVars
  BY <1>2 DEF Request
<1>3. ASSUME NEW w \in Worker, WorkerStep(w)
      PROVE  UNCHANGED storeVars \/ Claims(w) \/ Completes(w) \/ Releases(w)
  <2>1. CASE ClaimGranted(w) \/ ClaimFails(w)
    BY <2>1 DEF ClaimGranted, ClaimFails, ClaimReady, Claims
  <2>2. CASE CompleteRecorded(w) \/ CompleteFails(w)
    BY <2>2 DEF CompleteRecorded, CompleteFails, Completes
  <2>3. CASE Release(w)
    BY <2>3 DEF Release, Releases
  <2>4. QED
    BY <1>3, <2>1, <2>2, <2>3 DEF WorkerStep, ClaimReplays, ClaimBusy, Reflect, Write,
       CollectionFails, CompleteDuplicate, Acknowledge
<1>4. ASSUME NEW w \in Worker, Deliver(w) \/ Crash(w) \/ Disconnect(w)
      PROVE  UNCHANGED storeVars
  BY <1>4 DEF Deliver, Crash, Disconnect
<1>5. QED
  BY <1>1, <1>2, <1>3, <1>4 DEF Next

LEMMA StoreStep ==
  ASSUME IInv, [Next]_vars
  PROVE  [StoreProofs!Next]_(StoreProofs!vars)
<1> USE DEF IInv
<1>1. CASE UNCHANGED storeVars
  BY <1>1 DEF storeVars, StoreProofs!vars
<1>2. ASSUME NEW w \in Worker, Claims(w)
      PROVE  StoreProofs!Next
  <2>1. KeyOf(w) \in Key /\ WorkerLease \in 1 .. WorkerLease
    BY <1>2, Busy, CollectionAssumption DEF Claims, At
  <2>2. StoreProofs!ExperienceOp(KeyOf(w), KeyOf(w))
    BY <1>2, <2>1, SameClaim DEF Claims, StoreProofs!ExperienceOp
  <2>3. QED
    BY <2>1, <2>2, SameTypes DEF StoreProofs!Next
<1>3. ASSUME NEW w \in Worker, Completes(w) \/ Releases(w)
      PROVE  StoreProofs!Next
  <2>1. KeyOf(w) \in Key /\ handler[w].token \in Token /\ handler[w].token \in 1 .. issued
    BY <1>3, Busy DEF Completes, Releases, At, TokensExclusive, Owns
  <2>2. StoreProofs!ExperienceOp(KeyOf(w), KeyOf(w))
    BY <1>3, <2>1, SameComplete, SameRelease
    DEF Completes, Releases, Complete, StoreProofs!ExperienceOp
  <2>3. QED
    BY <2>1, <2>2, SameTypes DEF StoreProofs!Next
<1>4. CASE Tick
  BY <1>4, SameTick DEF Tick, StoreProofs!Next
<1>5. QED
  BY <1>1, <1>2, <1>3, <1>4, StoreUse

LEMMA StoreInvariantKept ==
  ASSUME IInv, [Next]_vars
  PROVE  Store!IInv'
<1>1. StoreProofs!IInv
  BY SameInvariant DEF IInv
<1>2. StoreProofs!IInv'
  BY <1>1, StoreStep, StoreProofs!NextIInv, StoreAssumptionHolds
<1>3. StoreProofs!IInv' => Store!IInv'
  BY SameInvariant, PTL
<1>4. QED
  BY <1>2, <1>3

-----------------------------------------------------------------------------
(* What a step makes of a row. *)

RowClaimed(k) ==
  /\ experiences[k].state # "COMPLETED" /\ experiences[k].lease = 0
  /\ experiences'[k].state = "RUNNING" /\ experiences'[k].token = issued'
  /\ experiences'[k].lease = WorkerLease
  /\ issued' = issued + 1

RowCompleted(k, token) ==
  /\ experiences[k].state # "COMPLETED" /\ experiences[k].token = token
  /\ experiences'[k].state = "COMPLETED" /\ experiences'[k].token = token
  /\ experiences'[k].text = token

RowReleased(k, token) ==
  /\ experiences[k].state # "COMPLETED" /\ experiences[k].token = token
  /\ experiences'[k].state = "PENDING"

RowAged(k) ==
  /\ experiences'[k].state = experiences[k].state
  /\ experiences'[k].token = experiences[k].token
  /\ experiences'[k].text = experiences[k].text
  /\ experiences'[k].lease = Elapsed(experiences[k].lease)

LEMMA ClaimRows ==
  ASSUME IInv, NEW w \in Worker, Claims(w)
  PROVE  /\ KeyOf(w) \in Key /\ RowClaimed(KeyOf(w))
         /\ \A k \in Key \ {KeyOf(w)} : experiences'[k] = experiences[k]
<1> DEFINE j == KeyOf(w)
           row == Store!Claimed(experiences[j], j, WorkerLease)
<1>1. j \in Key
  BY Busy DEF Claims, At, IInv
<1>2. experiences \in [Key -> Store!ExperienceRow]
  BY SameTypes DEF IInv, TypeOK, Store!TypeOK
<1>3. experiences' = [experiences EXCEPT ![j] = row]
  BY DEF Claims, Store!ClaimExperience
<1>4. experiences'[j] = row /\ \A k \in Key \ {j} : experiences'[k] = experiences[k]
  BY <1>1, <1>2, <1>3
<1>5. /\ experiences[j].state # "COMPLETED" /\ issued' = issued + 1
      /\ experiences[j].state = "NONE" \/ experiences[j].lease = 0
  BY DEF Claims, Store!ClaimExperience, Store!MayCollect
<1>6. experiences[j].state = "NONE" => experiences[j].lease = 0
  BY <1>1, <1>2, SameTypes
  DEF IInv, Store!IInv, Store!OnlyRunningRowsLeased, Store!ExperienceRow, Store!Row
<1>7. RowClaimed(j)
  BY <1>4, <1>5, <1>6 DEF RowClaimed, Store!Claimed
<1>8. QED
  BY <1>1, <1>4, <1>7

LEMMA CompleteRows ==
  ASSUME IInv, NEW w \in Worker, Completes(w)
  PROVE  /\ KeyOf(w) \in Key /\ RowCompleted(KeyOf(w), handler[w].token)
         /\ \A k \in Key \ {KeyOf(w)} : experiences'[k] = experiences[k]
         /\ issued' = issued
<1> DEFINE j == KeyOf(w)
           row == [experiences[j] EXCEPT !.state = "COMPLETED", !.text = handler[w].token,
                                         !.lease = 0]
<1>1. j \in Key
  BY Busy DEF Completes, At, IInv
<1>2. /\ experiences \in [Key -> Store!ExperienceRow]
      /\ experiences[j] \in Store!ExperienceRow
  BY <1>1, SameTypes DEF IInv, TypeOK, Store!TypeOK
<1>3. experiences' = [experiences EXCEPT ![j] = row]
  BY DEF Completes, Complete, Store!CompleteExperience
<1>4. experiences'[j] = row /\ \A k \in Key \ {j} : experiences'[k] = experiences[k]
  BY <1>1, <1>2, <1>3
<1>5. /\ experiences[j].state # "COMPLETED" /\ experiences[j].token = handler[w].token
      /\ issued' = issued
  BY DEF Completes, Complete, Store!CompleteExperience, Store!HoldsExperience
<1>6. RowCompleted(j, handler[w].token)
  BY <1>2, <1>4, <1>5 DEF RowCompleted, Store!ExperienceRow, Store!Row
<1>7. QED
  BY <1>1, <1>4, <1>5, <1>6

LEMMA ReleaseRows ==
  ASSUME IInv, NEW w \in Worker, Releases(w)
  PROVE  /\ KeyOf(w) \in Key /\ RowReleased(KeyOf(w), handler[w].token)
         /\ \A k \in Key \ {KeyOf(w)} : experiences'[k] = experiences[k]
         /\ issued' = issued
<1> DEFINE j == KeyOf(w)
           row == [experiences[j] EXCEPT !.state = "PENDING", !.token = 0, !.lease = 0]
<1>1. j \in Key
  BY Busy DEF Releases, At, IInv
<1>2. /\ experiences \in [Key -> Store!ExperienceRow]
      /\ experiences[j] \in Store!ExperienceRow
  BY <1>1, SameTypes DEF IInv, TypeOK, Store!TypeOK
<1>3. experiences' = [experiences EXCEPT ![j] = row]
  BY DEF Releases, Store!ReleaseExperience
<1>4. experiences'[j] = row /\ \A k \in Key \ {j} : experiences'[k] = experiences[k]
  BY <1>1, <1>2, <1>3
<1>5. /\ experiences[j].state # "COMPLETED" /\ experiences[j].token = handler[w].token
      /\ issued' = issued
  BY DEF Releases, Store!ReleaseExperience, Store!HoldsExperience
<1>6. RowReleased(j, handler[w].token)
  BY <1>2, <1>4, <1>5 DEF RowReleased, Store!ExperienceRow, Store!Row
<1>7. QED
  BY <1>1, <1>4, <1>5, <1>6

LEMMA TickRows ==
  ASSUME IInv, Tick, NEW k \in Key
  PROVE  RowAged(k) /\ issued' = issued
<1>1. experiences[k] \in Store!ExperienceRow
  BY SameTypes DEF IInv, TypeOK, Store!TypeOK
<1> DEFINE left == IF experiences[k].lease > 0 THEN experiences[k].lease - 1 ELSE 0
<1>2. experiences'[k] = [experiences[k] EXCEPT !.lease = left]
  BY SameTypes, Zenon DEF Tick, Store!Tick, Store!Aged
<1>3. left = Elapsed(experiences[k].lease)
  BY DEF Elapsed
<1> HIDE DEF left
<1>4. QED
  BY <1>1, <1>2, <1>3 DEF RowAged, Store!ExperienceRow, Store!Row, Tick, Store!Tick

LEMMA RowsUnder ==
  ASSUME IInv, [Next]_vars, NEW k \in Key
  PROVE  \/ experiences'[k] = experiences[k]
         \/ Tick /\ RowAged(k)
         \/ \E w \in Worker :
              /\ KeyOf(w) = k
              /\ \/ Claims(w) /\ RowClaimed(k)
                 \/ Completes(w) /\ RowCompleted(k, handler[w].token)
                 \/ Releases(w) /\ RowReleased(k, handler[w].token)
<1>1. CASE UNCHANGED storeVars
  BY <1>1 DEF storeVars
<1>2. ASSUME NEW w \in Worker, Claims(w) \/ Completes(w) \/ Releases(w)
      PROVE  \/ experiences'[k] = experiences[k]
             \/ /\ KeyOf(w) = k
                /\ \/ Claims(w) /\ RowClaimed(k)
                   \/ Completes(w) /\ RowCompleted(k, handler[w].token)
                   \/ Releases(w) /\ RowReleased(k, handler[w].token)
  BY <1>2, ClaimRows, CompleteRows, ReleaseRows
<1>3. CASE Tick
  BY <1>3, TickRows
<1>4. QED
  BY <1>1, <1>2, <1>3, StoreUse

(* A report stays. *)
LEMMA ReportsStay ==
  ASSUME IInv, [Next]_vars, NEW k \in Key, experiences[k].state = "COMPLETED"
  PROVE  /\ experiences'[k].state = "COMPLETED"
         /\ experiences'[k].token = experiences[k].token
         /\ experiences'[k].text = experiences[k].text
BY RowsUnder DEF RowAged, RowClaimed, RowCompleted, RowReleased

-----------------------------------------------------------------------------
(* What a step makes of the queue. *)

LEMMA EnvelopeUpdate ==
  ASSUME NEW m \in Envelope, m.returns < DeliveryLimit
  PROVE  /\ [m EXCEPT !.returns = @ + 1] \in Envelope
         /\ [m EXCEPT !.returns = @ + 1].key = m.key
<1>1. m.returns + 1 \in 0 .. DeliveryLimit
  BY CollectionAssumption DEF Envelope
<1>2. QED
  BY <1>1 DEF Envelope

(* A delivery that is returned is in front of the queue or a dead letter.  *)
LEMMA ReturnUnder ==
  ASSUME TypeOK, NEW w \in Worker, handler[w] # Idle, unacked = w, ReturnDelivery(w)
  PROVE  /\ unacked' = NoWorker
         /\ \/ /\ dead' = dead
               /\ \E m \in Envelope : m.key = KeyOf(w) /\ messages' = <<m>> \o messages
            \/ messages' = messages /\ dead' = dead \cup {KeyOf(w)}
<1>1. handler[w].msg \in Envelope
  BY Busy
<1>2. CASE handler[w].msg.returns < DeliveryLimit
  <2> DEFINE m == [handler[w].msg EXCEPT !.returns = @ + 1]
  <2>1. m \in Envelope /\ m.key = KeyOf(w)
    BY <1>1, <1>2, EnvelopeUpdate DEF KeyOf
  <2>2. messages' = <<m>> \o messages /\ dead' = dead
    BY <1>2 DEF ReturnDelivery, Requeue
  <2> HIDE DEF m
  <2>3. QED
    BY <2>1, <2>2 DEF ReturnDelivery
<1>3. CASE ~(handler[w].msg.returns < DeliveryLimit)
  BY <1>3 DEF ReturnDelivery, Requeue, KeyOf
<1>4. QED
  BY <1>2, <1>3

Returns(w) == handler[w] # Idle /\ unacked = w /\ ReturnDelivery(w)

LEMMA QueueUnder ==
  ASSUME IInv, [Next]_vars
  PROVE  \/ UNCHANGED brokerVars /\ UNCHANGED copies
         \/ \E k \in Key : Request(k)
         \/ \E w \in Worker : Deliver(w)
         \/ UNCHANGED copies /\ \E w \in Worker : Returns(w) \/ Acknowledge(w)
<1> USE DEF IInv
<1>1. CASE UNCHANGED vars \/ Tick
  BY <1>1 DEF vars, brokerVars, Tick
<1>2. ASSUME NEW w \in Worker, WorkerStep(w) \/ Crash(w) \/ Disconnect(w)
      PROVE  UNCHANGED copies /\ (UNCHANGED brokerVars \/ Returns(w) \/ Acknowledge(w))
  <2>1. CASE ClaimFails(w) \/ Release(w) \/ Crash(w) \/ Disconnect(w)
    <3>1. ReturnDelivery(w) /\ UNCHANGED copies /\ handler[w] # Idle
      BY <2>1, CollectionAssumption
      DEF ClaimFails, ClaimReady, Release, Crash, Disconnect, Abandon, At, Idle,
          DeliveryHasHandler
    <3>2. QED
      BY <3>1 DEF ReturnDelivery, Returns
  <2>2. QED
    BY <1>2, <2>1 DEF WorkerStep, ClaimGranted, ClaimReplays, ClaimBusy, Reflect, Write,
       CollectionFails, CompleteRecorded, CompleteDuplicate, CompleteFails, Acknowledge,
       brokerVars
<1>3. QED
  BY <1>1, <1>2 DEF Next

LEMMA QueueTypes ==
  ASSUME IInv, [Next]_vars
  PROVE  /\ messages' \in Seq(Envelope)
         /\ unacked' \in Worker \cup {NoWorker}
         /\ dead' \in SUBSET Key
         /\ copies' \in [Key -> 0 .. MaxCopies]
<1> USE CollectionAssumption
<1>0. /\ TypeOK /\ messages \in Seq(Envelope) /\ unacked \in Worker \cup {NoWorker}
      /\ dead \in SUBSET Key /\ copies \in [Key -> 0 .. MaxCopies]
  BY DEF IInv, TypeOK
<1>1. CASE UNCHANGED brokerVars /\ UNCHANGED copies
  BY <1>0, <1>1 DEF brokerVars
<1>2. ASSUME NEW k \in Key, Request(k)
      PROVE  messages' \in Seq(Envelope) /\ copies' \in [Key -> 0 .. MaxCopies]
  <2> DEFINE m == [key |-> k, returns |-> 0]
  <2>1. m \in Envelope
    BY DEF Envelope
  <2>2. messages' = Append(messages, m)
    BY <1>2 DEF Request
  <2> HIDE DEF m
  <2>3. messages' \in Seq(Envelope)
    BY <1>0, <2>1, <2>2
  <2>4. QED
    BY <1>0, <1>2, <2>3 DEF Request
<1>3. ASSUME NEW w \in Worker, Returns(w)
      PROVE  /\ messages' \in Seq(Envelope)
             /\ unacked' \in Worker \cup {NoWorker}
             /\ dead' \in SUBSET Key
  <2>1. handler[w] # Idle /\ unacked = w /\ ReturnDelivery(w)
    BY <1>3 DEF Returns
  <2>2. KeyOf(w) \in Key
    BY <1>0, <2>1, Busy
  <2>3. /\ unacked' = NoWorker
        /\ \/ dead' = dead /\ \E m \in Envelope : messages' = <<m>> \o messages
           \/ messages' = messages /\ dead' = dead \cup {KeyOf(w)}
    BY <1>0, <2>1, ReturnUnder
  <2>4. ASSUME NEW m \in Envelope, messages' = <<m>> \o messages
        PROVE  messages' \in Seq(Envelope)
    BY <1>0, <2>4
  <2>5. QED
    BY <1>0, <2>2, <2>3, <2>4, Zenon
<1>4. ASSUME NEW w \in Worker, Deliver(w)
      PROVE  messages' \in Seq(Envelope)
  BY <1>0, <1>4 DEF Deliver
<1>5. QED
  BY <1>0, <1>1, <1>2, <1>3, <1>4, QueueUnder DEF Request, Deliver, Acknowledge, Settled

-----------------------------------------------------------------------------
(* What a step makes of the handlers. *)

LEMMA ConstantTypes ==
  /\ 0 \in Token /\ 0 \in 0 .. WorkerLease /\ 0 \in 0 .. MaxCollection
  /\ MaxCollection \in 0 .. MaxCollection
BY CollectionAssumption DEF Token

Carries(w) ==
  /\ handler[w] \in Handler /\ handler'[w] \in Handler
  /\ handler'[w].msg = handler[w].msg /\ handler'[w].token = handler[w].token

Granted(w) ==
  /\ Claims(w) /\ handler'[w] \in Handler
  /\ handler'[w].pc = "reflect" /\ handler'[w].msg = handler[w].msg
  /\ handler'[w].token = issued' /\ handler'[w].timer = MaxCollection

Advances(w) ==
  /\ Carries(w)
  /\ handler'[w].timer = handler[w].timer
  /\ \/ handler[w].pc = "reflect" /\ handler'[w].pc = "write" /\ UNCHANGED storeVars
     \/ /\ handler[w].pc = "write" /\ handler'[w].pc = "complete"
        /\ handler[w].token \in memories'[KeyOf(w)]
     \/ handler[w].pc \in {"reflect", "write", "complete"} /\ handler'[w].pc = "release"
     \/ handler'[w].pc = "ack" /\ experiences'[KeyOf(w)].state = "COMPLETED"

Waits(w) ==
  /\ Tick /\ Carries(w)
  /\ handler'[w].pc = handler[w].pc
  /\ handler'[w].timer = Elapsed(handler[w].timer)

Moves(w) ==
  \/ handler'[w] = handler[w]
  \/ handler'[w] = Idle /\ unacked' # w
  \/ handler'[w] \in Handler /\ handler'[w].pc = "claim" /\ Deliver(w)
  \/ Carries(w) /\ handler'[w].pc = "claim"
  \/ Granted(w)
  \/ Advances(w)
  \/ Waits(w)

(* The step of a handler to another point of its program. *)
LEMMA GoesTo ==
  ASSUME TypeOK, NEW w \in Worker, handler[w] \in Handler,
         NEW pc \in {"claim", "reflect", "write", "complete", "release", "ack"},
         Goes(w, pc)
  PROVE  /\ Carries(w) /\ handler'[w].pc = pc
         /\ handler'[w].timer = handler[w].timer
         /\ handler' = [handler EXCEPT ![w] = handler'[w]]
<1> DEFINE h == [handler[w] EXCEPT !.pc = pc]
<1>1. handler \in [Worker -> Handler \cup {Idle}]
  BY DEF TypeOK
<1>2. handler' = [handler EXCEPT ![w] = h] /\ handler'[w] = h
  BY <1>1 DEF Goes
<1>3. /\ h \in Handler /\ h.pc = pc /\ h.msg = handler[w].msg /\ h.token = handler[w].token
      /\ h.timer = handler[w].timer
  BY DEF Handler
<1> HIDE DEF h
<1>4. QED
  BY <1>2, <1>3 DEF Carries

LEMMA AbandonMoves ==
  ASSUME TypeOK, NEW w \in Worker, Abandon(w)
  PROVE  /\ handler'[w] = Idle /\ unacked' # w
         /\ handler' = [handler EXCEPT ![w] = Idle]
BY CollectionAssumption DEF Abandon, ReturnDelivery, brokerVars, TypeOK

(* The row of a handler that stops at "ack" has its report. *)
LEMMA CompletedRow ==
  ASSUME IInv, NEW w \in Worker, Completes(w)
  PROVE  experiences'[KeyOf(w)].state = "COMPLETED"
BY CompleteRows DEF RowCompleted

LEMMA GrantMoves ==
  ASSUME IInv, NEW w \in Worker, ClaimGranted(w)
  PROVE  Granted(w) /\ handler' = [handler EXCEPT ![w] = handler'[w]]
<1> USE DEF IInv
<1>1. Claims(w) /\ handler[w] \in Handler /\ handler \in [Worker -> Handler \cup {Idle}]
  BY Busy DEF ClaimGranted, ClaimReady, Claims, At, TypeOK
<1>2. issued' \in Token
  BY <1>1, CollectionAssumption
  DEF Claims, Store!ClaimExperience, TypeOK, Store!TypeOK, Token
<1> DEFINE h == [handler[w] EXCEPT !.pc = "reflect", !.token = issued',
                                   !.timer = MaxCollection]
<1>3. handler' = [handler EXCEPT ![w] = h] /\ handler'[w] = h
  BY <1>1 DEF ClaimGranted
<1>4. /\ h \in Handler /\ h.pc = "reflect" /\ h.msg = handler[w].msg /\ h.token = issued'
      /\ h.timer = MaxCollection
  BY <1>1, <1>2, ConstantTypes DEF Handler
<1> HIDE DEF h
<1>5. QED
  BY <1>1, <1>3, <1>4 DEF Granted

LEMMA BusyMoves ==
  ASSUME IInv, NEW w \in Worker, ClaimBusy(w)
  PROVE  /\ Carries(w) /\ handler'[w].pc = "claim"
         /\ handler' = [handler EXCEPT ![w] = handler'[w]]
<1> USE DEF IInv
<1>1. /\ handler[w] \in Handler /\ handler[w].pc = "claim" /\ KeyOf(w) \in Key
      /\ handler \in [Worker -> Handler \cup {Idle}]
  BY Busy DEF ClaimBusy, ClaimReady, At, TypeOK
<1>2. experiences[KeyOf(w)].lease \in 0 .. WorkerLease
  <2>1. experiences[KeyOf(w)] \in Store!ExperienceRow
    BY <1>1, SameTypes DEF TypeOK, Store!TypeOK
  <2>2. QED
    BY <2>1 DEF Store!ExperienceRow, Store!Row
<1> DEFINE h == [handler[w] EXCEPT !.wait = experiences[KeyOf(w)].lease]
<1>3. handler' = [handler EXCEPT ![w] = h] /\ handler'[w] = h
  BY <1>1 DEF ClaimBusy
<1>4. /\ h \in Handler /\ h.pc = "claim" /\ h.msg = handler[w].msg
      /\ h.token = handler[w].token
  BY <1>1, <1>2 DEF Handler
<1> HIDE DEF h
<1>5. QED
  BY <1>1, <1>3, <1>4 DEF Carries

LEMMA CollectMoves ==
  ASSUME IInv, NEW w \in Worker, Reflect(w) \/ Write(w) \/ CollectionFails(w)
  PROVE  Advances(w) /\ handler' = [handler EXCEPT ![w] = handler'[w]]
<1> USE DEF IInv
<1>1. handler[w] \in Handler /\ KeyOf(w) \in Key
  BY Busy DEF Reflect, Write, CollectionFails, At
<1>2. CASE Reflect(w)
  BY <1>1, <1>2, GoesTo DEF Reflect, Advances, At
<1>3. CASE Write(w)
  <2>1. handler[w].token \in memories'[KeyOf(w)]
    BY <1>1, <1>3 DEF Write, Remembered, TypeOK
  <2>2. QED
    BY <1>1, <1>3, <2>1, GoesTo DEF Write, Advances, At
<1>4. CASE CollectionFails(w)
  BY <1>1, <1>4, GoesTo DEF CollectionFails, Advances, At
<1>5. QED
  BY <1>2, <1>3, <1>4

LEMMA ReportMoves ==
  ASSUME IInv, NEW w \in Worker,
         ClaimReplays(w) \/ CompleteRecorded(w) \/ CompleteDuplicate(w) \/ CompleteFails(w)
  PROVE  Advances(w) /\ handler' = [handler EXCEPT ![w] = handler'[w]]
<1> USE DEF IInv
<1>1. handler[w] \in Handler
  BY Busy DEF ClaimReplays, ClaimReady, CompleteRecorded, CompleteDuplicate, CompleteFails, At
<1>2. CASE ClaimReplays(w) \/ CompleteDuplicate(w)
  BY <1>1, <1>2, GoesTo DEF ClaimReplays, CompleteDuplicate, Advances, storeVars
<1>3. CASE CompleteRecorded(w)
  BY <1>1, <1>3, GoesTo, CompletedRow DEF CompleteRecorded, Completes, Advances
<1>4. CASE CompleteFails(w)
  BY <1>1, <1>4, GoesTo DEF CompleteFails, Advances, At
<1>5. QED
  BY <1>2, <1>3, <1>4

LEMMA StepMoves ==
  ASSUME IInv, NEW w \in Worker, WorkerStep(w) \/ Crash(w)
  PROVE  Moves(w) /\ handler' = [handler EXCEPT ![w] = handler'[w]]
<1> USE DEF IInv
<1>1. CASE ClaimFails(w) \/ Release(w) \/ Crash(w)
  BY <1>1, AbandonMoves DEF ClaimFails, Release, Crash, Moves
<1>2. CASE Acknowledge(w)
  BY <1>2, CollectionAssumption DEF Acknowledge, Settled, Moves, TypeOK
<1>3. QED
  BY <1>1, <1>2, GrantMoves, BusyMoves, CollectMoves, ReportMoves DEF WorkerStep, Moves

LEMMA DeliverMoves ==
  ASSUME IInv, NEW w \in Worker, Deliver(w)
  PROVE  /\ handler'[w] \in Handler /\ handler'[w].pc = "claim"
         /\ handler'[w].msg = Head(messages)
         /\ handler' = [handler EXCEPT ![w] = handler'[w]]
<1>1. /\ messages \in Seq(Envelope) /\ messages # <<>>
      /\ handler \in [Worker -> Handler \cup {Idle}]
  BY DEF Deliver, IInv, TypeOK
<1>2. Head(messages) \in Envelope
  BY <1>1
<1> DEFINE h == [pc |-> "claim", msg |-> Head(messages), token |-> 0, wait |-> 0, timer |-> 0]
<1>3. h \in Handler /\ h.pc = "claim" /\ h.msg = Head(messages)
  BY <1>2, ConstantTypes DEF Handler
<1>4. handler' = [handler EXCEPT ![w] = h] /\ handler'[w] = h
  BY <1>1 DEF Deliver
<1> HIDE DEF h
<1>5. QED
  BY <1>3, <1>4

LEMMA TickMoves ==
  ASSUME IInv, Tick, NEW w \in Worker
  PROVE  IF handler[w] = Idle THEN handler'[w] = Idle ELSE Waits(w)
<1>1. CASE handler[w] = Idle
  BY <1>1 DEF Tick
<1>2. CASE handler[w] # Idle
  <2>1. handler[w] \in Handler
    BY <1>2 DEF IInv, TypeOK
  <2> DEFINE h == [handler[w] EXCEPT !.wait = Elapsed(handler[w].wait),
                                     !.timer = Elapsed(handler[w].timer)]
  <2>2. handler'[w] = h
    BY <1>2 DEF Tick
  <2>3. /\ Elapsed(handler[w].wait) \in 0 .. WorkerLease
        /\ Elapsed(handler[w].timer) \in 0 .. MaxCollection
    BY <2>1, CollectionAssumption DEF Handler, Elapsed
  <2>4. /\ h \in Handler /\ h.pc = handler[w].pc /\ h.msg = handler[w].msg
        /\ h.token = handler[w].token /\ h.timer = Elapsed(handler[w].timer)
    BY <2>1, <2>3 DEF Handler
  <2> HIDE DEF h
  <2>5. QED
    BY <1>2, <2>1, <2>2, <2>4 DEF Waits, Carries
<1>3. QED
  BY <1>1, <1>2

LEMMA HandlersUnder ==
  ASSUME IInv, [Next]_vars, NEW w \in Worker
  PROVE  Moves(w)
<1>1. handler \in [Worker -> Handler \cup {Idle}]
  BY DEF IInv, TypeOK
<1>2. ASSUME NEW v \in Worker, Deliver(v) \/ WorkerStep(v) \/ Crash(v) \/ Disconnect(v)
      PROVE  Moves(w)
  <2>1. CASE Disconnect(v)
    BY <2>1 DEF Disconnect, Moves
  <2>2. CASE v # w /\ ~Disconnect(v)
    BY <1>1, <1>2, <2>2, StepMoves, DeliverMoves DEF Moves
  <2>3. CASE v = w /\ ~Disconnect(v)
    BY <1>2, <2>3, StepMoves, DeliverMoves DEF Moves
  <2>4. QED
    BY <2>1, <2>2, <2>3
<1>3. QED
  BY <1>2, TickMoves DEF Next, vars, Request, Moves

LEMMA HandlerTypes ==
  ASSUME IInv, [Next]_vars
  PROVE  handler' \in [Worker -> Handler \cup {Idle}]
<1>1. handler \in [Worker -> Handler \cup {Idle}]
  BY DEF IInv, TypeOK
<1>2. \A w \in Worker : handler'[w] \in Handler \cup {Idle}
  BY <1>1, HandlersUnder DEF Moves, Granted, Advances, Waits, Carries
<1>3. ASSUME NEW v \in Worker, Deliver(v) \/ WorkerStep(v) \/ Crash(v) \/ Disconnect(v)
      PROVE  DOMAIN handler' = Worker /\ handler' = [w \in Worker |-> handler'[w]]
  <2>1. handler' = handler \/ handler' = [handler EXCEPT ![v] = handler'[v]]
    BY <1>3, StepMoves, DeliverMoves DEF Disconnect
  <2>2. QED
    BY <1>1, <2>1
<1>4. handler' = [w \in Worker |-> handler'[w]]
  BY <1>1, <1>3 DEF Next, vars, Request, Tick
<1>5. QED
  BY <1>2, <1>4

-----------------------------------------------------------------------------
(* MemOS. *)

LEMMA MemoriesUnder ==
  ASSUME IInv, [Next]_vars
  PROVE  /\ memories' \in [Key -> SUBSET Token]
         /\ \A k \in Key : memories[k] \subseteq memories'[k]
         /\ \A k \in Key : memories'[k] # memories[k] =>
              \E w \in Worker : At(w, "write") /\ KeyOf(w) = k
<1>1. memories \in [Key -> SUBSET Token]
  BY DEF IInv, TypeOK
<1>2. ASSUME NEW w \in Worker, At(w, "write"), Remembered(w)
      PROVE  /\ memories' \in [Key -> SUBSET Token]
             /\ \A k \in Key : memories[k] \subseteq memories'[k]
             /\ \A k \in Key : memories'[k] # memories[k] => KeyOf(w) = k
  <2>1. KeyOf(w) \in Key /\ handler[w].token \in Token
    BY <1>2, Busy DEF At, IInv
  <2>2. QED
    BY <1>1, <1>2, <2>1 DEF Remembered
<1>3. ASSUME NEW w \in Worker, WorkerStep(w)
      PROVE  UNCHANGED memories \/ (At(w, "write") /\ Remembered(w))
  BY <1>3 DEF WorkerStep, ClaimGranted, ClaimReplays, ClaimBusy, ClaimFails, Reflect, Write,
     CollectionFails, CompleteRecorded, CompleteDuplicate, CompleteFails, Release, Acknowledge
<1>4. UNCHANGED memories \/ \E w \in Worker : At(w, "write") /\ Remembered(w)
  BY <1>3 DEF Next, vars, Request, Deliver, Crash, Disconnect, Tick
<1>5. QED
  BY <1>1, <1>2, <1>4

-----------------------------------------------------------------------------
(* The parts of the invariant. *)

(* A tick apart, a step is a step of one handler. *)
LEMMA OneMoves ==
  ASSUME IInv, [Next]_vars, NEW v \in Worker, NEW w \in Worker, v # w
  PROVE  Tick \/ handler'[v] = handler[v] \/ handler'[w] = handler[w]
<1>1. handler \in [Worker -> Handler \cup {Idle}]
  BY DEF IInv, TypeOK
<1>2. ASSUME NEW u \in Worker, Deliver(u) \/ WorkerStep(u) \/ Crash(u) \/ Disconnect(u)
      PROVE  handler'[v] = handler[v] \/ handler'[w] = handler[w]
  <2>1. handler' = handler \/ handler' = [handler EXCEPT ![u] = handler'[u]]
    BY <1>2, StepMoves, DeliverMoves DEF Disconnect
  <2>2. QED
    BY <1>1, <2>1
<1>3. QED
  BY <1>2 DEF Next, vars, Request

LEMMA IssuedUnder ==
  ASSUME IInv, [Next]_vars
  PROVE  issued \in Nat /\ issued' \in {issued, issued + 1}
<1>1. issued \in Nat
  BY CollectionAssumption DEF IInv, TypeOK, Store!TypeOK
<1>2. ASSUME NEW w \in Worker, Claims(w) \/ Completes(w) \/ Releases(w)
      PROVE  issued' \in {issued, issued + 1}
  BY <1>2 DEF Claims, Completes, Complete, Releases, Store!ClaimExperience,
     Store!CompleteExperience, Store!ReleaseExperience
<1>3. QED
  BY <1>1, <1>2, StoreUse DEF storeVars, Tick, Store!Tick

(* A token comes with a claim and stays with its handler. *)
LEMMA OwnersUnder ==
  ASSUME IInv, [Next]_vars, NEW w \in Worker, Owns(w)'
  PROVE  (Owns(w) /\ handler'[w].token = handler[w].token) \/ Granted(w)
BY HandlersUnder DEF Moves, Advances, Waits, Carries, Owns, Idle

LEMMA TokensExclusiveKept ==
  ASSUME IInv, [Next]_vars
  PROVE  TokensExclusive'
<1> USE DEF IInv
<1> SUFFICES ASSUME NEW w \in Worker, Owns(w)'
             PROVE  /\ handler'[w].token \in 1 .. issued'
                    /\ \A v \in Worker : Owns(v)' /\ handler'[v].token = handler'[w].token
                         => v = w
  BY DEF TokensExclusive
<1>1. issued \in Nat /\ issued' \in {issued, issued + 1}
  BY IssuedUnder
<1>2. ASSUME NEW v \in Worker, Granted(v)
      PROVE  issued' = issued + 1 /\ handler'[v].token = issued' /\ handler'[v] # handler[v] /\ ~Tick
  <2>1. issued' = issued + 1 /\ handler'[v].token = issued'
    BY <1>2 DEF Granted, Claims, Store!ClaimExperience
  <2>2. handler[v].pc = "claim" /\ handler'[v].pc = "reflect"
    BY <1>2 DEF Granted, Claims, At
  <2>3. ~Tick
    BY <2>2, TickMoves DEF Waits, Idle
  <2>4. QED
    BY <2>1, <2>2, <2>3
<1>3. \A v \in Worker : Owns(v)' => handler'[v].token \in 1 .. issued'
  BY <1>1, <1>2, OwnersUnder DEF TokensExclusive
<1>4. ASSUME NEW v \in Worker, Owns(v)', handler'[v].token = handler'[w].token
      PROVE  v = w
  <2>1. CASE Granted(v) /\ Granted(w)
    BY <1>2, <2>1, OneMoves
  <2>2. CASE Granted(v) /\ ~Granted(w)
    <3>1. handler'[w].token \in 1 .. issued
      BY <2>2, OwnersUnder DEF TokensExclusive
    <3>2. QED
      BY <1>1, <1>2, <1>4, <2>2, <3>1
  <2>3. CASE ~Granted(v) /\ Granted(w)
    <3>1. handler'[v].token \in 1 .. issued
      BY <1>4, <2>3, OwnersUnder DEF TokensExclusive
    <3>2. QED
      BY <1>1, <1>2, <1>4, <2>3, <3>1
  <2>4. CASE ~Granted(v) /\ ~Granted(w)
    BY <1>4, <2>4, OwnersUnder DEF TokensExclusive
  <2>5. QED
    BY <2>1, <2>2, <2>3, <2>4
<1>5. QED
  BY <1>3, <1>4

(* Only the collector itself ends its lease. *)
LEMMA CollectorHoldsLeaseKept ==
  ASSUME IInv, [Next]_vars
  PROVE  CollectorHoldsLease'
<1> USE DEF IInv
<1> SUFFICES ASSUME NEW w \in Worker, Collecting(w)'
             PROVE  /\ experiences'[KeyOf(w)'].state = "RUNNING"
                    /\ experiences'[KeyOf(w)'].token = handler'[w].token
                    /\ experiences'[KeyOf(w)'].lease > handler'[w].timer
  BY DEF CollectorHoldsLease
<1>0. handler'[w].pc \in {"reflect", "write"}
  BY DEF Collecting, At
<1>1. CASE Granted(w)
  <2>1. KeyOf(w)' = KeyOf(w) /\ RowClaimed(KeyOf(w))
    BY <1>1, ClaimRows DEF Granted, KeyOf
  <2>2. QED
    BY <1>1, <2>1, CollectionAssumption DEF Granted, RowClaimed
<1>2. CASE ~Granted(w)
  <2>1. /\ Collecting(w) /\ handler[w] \in Handler
        /\ handler'[w].msg = handler[w].msg /\ handler'[w].token = handler[w].token
        /\ handler'[w].timer = handler[w].timer \/ Waits(w)
    <3>1. CASE handler'[w] = handler[w]
      BY <1>0, <3>1, Busy DEF Collecting, At
    <3>2. CASE Advances(w) \/ Waits(w)
      BY <1>0, <3>2 DEF Advances, Waits, Carries, Collecting, At
    <3>3. QED
      BY <1>0, <1>2, <3>1, <3>2, HandlersUnder DEF Moves, Idle
  <2> DEFINE k == KeyOf(w)
  <2>2. k \in Key /\ KeyOf(w)' = k
    BY <2>1, Busy DEF KeyOf, Collecting, At
  <2>3. /\ experiences[k].state = "RUNNING" /\ experiences[k].token = handler[w].token
        /\ experiences[k].lease > handler[w].timer
        /\ handler[w].timer \in Nat /\ experiences[k].lease \in Nat
    <3>1. experiences[k] \in Store!ExperienceRow
      BY <2>2, SameTypes DEF TypeOK, Store!TypeOK
    <3>2. QED
      BY <2>1, <3>1, CollectionAssumption
      DEF CollectorHoldsLease, Handler, Store!ExperienceRow, Store!Row
  <2>4. ASSUME NEW v \in Worker, Completes(v) \/ Releases(v), KeyOf(v) = k,
               experiences[k].token = handler[v].token
        PROVE  FALSE
    BY <2>1, <2>3, <2>4 DEF Completes, Releases, At, Owns, Collecting, TokensExclusive
  <2> HIDE DEF k
  <2>5. CASE Tick
    <3>1. Waits(w) /\ RowAged(k)
      BY <2>1, <2>2, <2>5, TickMoves, TickRows DEF Handler, Idle
    <3>2. handler[w].timer > 0
      BY <2>1, <2>5 DEF Tick
    <3>3. QED
      BY <2>1, <2>2, <2>3, <3>1, <3>2 DEF Waits, RowAged, Elapsed
  <2>6. CASE ~Tick
    <3>1. handler'[w].timer = handler[w].timer
      BY <2>1, <2>6 DEF Waits
    <3>2. experiences'[k] = experiences[k]
      BY <2>2, <2>3, <2>4, <2>6, RowsUnder DEF RowClaimed, RowCompleted, RowReleased
    <3>3. QED
      BY <2>1, <2>2, <2>3, <3>1, <3>2
  <2>7. QED
    BY <2>5, <2>6
<1>3. QED
  BY <1>1, <1>2

LEMMA InOrderKept ==
  ASSUME IInv, [Next]_vars
  PROVE  InOrder'
<1> USE DEF IInv
<1> SUFFICES ASSUME NEW w \in Worker
             PROVE  /\ At(w, "complete")' => handler'[w].token \in memories'[KeyOf(w)']
                    /\ At(w, "ack")' => experiences'[KeyOf(w)'].state = "COMPLETED"
  BY DEF InOrder
<1> SUFFICES ASSUME handler'[w].pc \in {"complete", "ack"}
             PROVE  /\ At(w, "complete")' => handler'[w].token \in memories'[KeyOf(w)']
                    /\ At(w, "ack")' => experiences'[KeyOf(w)'].state = "COMPLETED"
  BY DEF At
<1>1. CASE Advances(w)
  <2>1. KeyOf(w)' = KeyOf(w) /\ handler'[w].token = handler[w].token
    BY <1>1 DEF Advances, Carries, KeyOf
  <2>2. QED
    BY <1>1, <2>1 DEF Advances, At
<1>2. CASE handler'[w] = handler[w] \/ Waits(w)
  <2>1. /\ handler'[w].pc = handler[w].pc /\ handler'[w].msg = handler[w].msg
        /\ handler'[w].token = handler[w].token
    BY <1>2 DEF Waits, Carries
  <2>2. KeyOf(w) \in Key /\ KeyOf(w)' = KeyOf(w)
    BY <2>1, Busy DEF KeyOf
  <2>3. QED
    BY <2>1, <2>2, MemoriesUnder, ReportsStay DEF InOrder, At
<1>3. QED
  BY <1>1, <1>2, HandlersUnder DEF Moves, Granted, Idle

LEMMA DeliveryHasHandlerKept ==
  ASSUME IInv, [Next]_vars
  PROVE  DeliveryHasHandler'
<1> USE DEF IInv
<1>1. ASSUME NEW w \in Worker, Deliver(w)
      PROVE  DeliveryHasHandler'
  <2>1. unacked' = w /\ handler'[w] \in Handler
    BY <1>1, DeliverMoves DEF Deliver
  <2>2. QED
    BY <2>1 DEF DeliveryHasHandler, Handler, Idle
<1>2. CASE unacked' = unacked /\ unacked # NoWorker
  <2>1. unacked \in Worker /\ handler[unacked] # Idle
    BY <1>2 DEF TypeOK, DeliveryHasHandler
  <2>2. \A h \in Handler : h # Idle
    BY DEF Handler, Idle
  <2>3. handler'[unacked] # Idle
    BY <1>2, <2>1, <2>2, HandlersUnder DEF Moves, Granted, Advances, Waits, Carries
  <2>4. QED
    BY <1>2, <2>3 DEF DeliveryHasHandler
<1>3. unacked' = NoWorker \/ unacked' = unacked \/ \E w \in Worker : Deliver(w)
  <2>1. ASSUME NEW w \in Worker, Returns(w)
        PROVE  unacked' = NoWorker
    BY <2>1 DEF Returns, ReturnDelivery
  <2>2. QED
    BY <2>1, QueueUnder DEF brokerVars, Request, Acknowledge, Settled
<1>4. QED
  BY <1>1, <1>2, <1>3 DEF DeliveryHasHandler

LEMMA ReportIsRememberedKept ==
  ASSUME IInv, [Next]_vars
  PROVE  ReportIsRemembered'
<1> USE DEF IInv
<1> SUFFICES ASSUME NEW k \in Key, experiences'[k].state = "COMPLETED"
             PROVE  /\ experiences'[k].text = experiences'[k].token
                    /\ experiences'[k].token \in memories'[k]
  BY DEF ReportIsRemembered
<1>1. CASE experiences[k].state = "COMPLETED"
  BY <1>1, ReportsStay, MemoriesUnder DEF ReportIsRemembered
<1>2. CASE experiences[k].state # "COMPLETED"
  <2>1. PICK w \in Worker : KeyOf(w) = k /\ Completes(w) /\ RowCompleted(k, handler[w].token)
    BY <1>2, RowsUnder DEF RowAged, RowClaimed, RowReleased
  <2>2. handler[w].token \in memories[k]
    BY <2>1 DEF Completes, InOrder
  <2>3. QED
    BY <2>1, <2>2, MemoriesUnder DEF RowCompleted
<1>3. QED
  BY <1>1, <1>2

-----------------------------------------------------------------------------
(* No message disappears. *)

LEMMA ReadyKept ==
  ASSUME IInv, [Next]_vars, NEW k \in Key, Ready(k)
  PROVE  Ready(k)' \/ Outstanding(k)'
<1> USE DEF IInv
<1>1. PICK i \in DOMAIN messages : messages[i].key = k
  BY DEF Ready
<1>2. messages \in Seq(Envelope) /\ i \in 1 .. Len(messages) /\ Len(messages) \in Nat
  BY DEF TypeOK
<1>3. ASSUME NEW m, messages' = Append(messages, m)
      PROVE  Ready(k)'
  <2>1. i \in DOMAIN messages' /\ messages'[i] = messages[i]
    BY <1>2, <1>3
  <2>2. QED
    BY <1>1, <2>1 DEF Ready
<1>4. ASSUME NEW w \in Worker, Deliver(w)
      PROVE  Ready(k)' \/ Outstanding(k)'
  <2>1. CASE i = 1
    <3>1. handler'[w].msg = Head(messages) /\ unacked' = w
      BY <1>4, DeliverMoves DEF Deliver
    <3>2. Head(messages) = messages[1]
      BY <1>2
    <3>3. QED
      BY <1>1, <2>1, <3>1, <3>2, CollectionAssumption DEF Outstanding, KeyOf
  <2>2. CASE i # 1
    <3>1. i - 1 \in DOMAIN messages' /\ messages'[i - 1] = messages[i]
      BY <1>2, <1>4, <2>2 DEF Deliver
    <3>2. QED
      BY <1>1, <3>1 DEF Ready
  <2>3. QED
    BY <2>1, <2>2
<1>5. ASSUME NEW m \in Envelope, messages' = <<m>> \o messages
      PROVE  Ready(k)'
  <2>1. i + 1 \in DOMAIN messages' /\ messages'[i + 1] = messages[i]
    BY <1>2, <1>5
  <2>2. QED
    BY <1>1, <2>1 DEF Ready
<1>6. UNCHANGED messages => Ready(k)'
  BY DEF Ready
<1>7. ASSUME NEW w \in Worker, Returns(w)
      PROVE  Ready(k)'
  BY <1>5, <1>6, <1>7, ReturnUnder DEF Returns
<1>8. QED
  BY <1>3, <1>4, <1>6, <1>7, QueueUnder DEF Request, Acknowledge, brokerVars

LEMMA OutstandingKept ==
  ASSUME IInv, [Next]_vars, NEW k \in Key, Outstanding(k)
  PROVE  \/ Ready(k)' \/ Outstanding(k)' \/ k \in dead'
         \/ experiences'[k].state = "COMPLETED"
<1> USE DEF IInv
<1>1. unacked \in Worker /\ unacked # NoWorker /\ KeyOf(unacked) = k
  BY DEF Outstanding, TypeOK
<1>2. CASE unacked' = unacked
  <2>1. handler[unacked] # Idle /\ ~Deliver(unacked)
    BY <1>1 DEF DeliveryHasHandler, Deliver
  <2>2. handler'[unacked].msg = handler[unacked].msg
    BY <1>1, <1>2, <2>1, HandlersUnder DEF Moves, Granted, Advances, Waits, Carries
  <2>3. QED
    BY <1>1, <1>2, <2>2 DEF Outstanding, KeyOf
<1>3. ASSUME NEW w \in Worker, Returns(w)
      PROVE  Ready(k)' \/ k \in dead'
  <2>1. ASSUME NEW m \in Envelope, m.key = k, messages' = <<m>> \o messages
        PROVE  Ready(k)'
    <3>1. 1 \in DOMAIN messages' /\ messages'[1] = m
      BY <2>1 DEF TypeOK
    <3>2. QED
      BY <2>1, <3>1 DEF Ready
  <2>2. QED
    BY <1>1, <1>3, <2>1, ReturnUnder DEF Returns
<1>4. ASSUME NEW w \in Worker, Acknowledge(w), unacked' # unacked
      PROVE  experiences'[k].state = "COMPLETED"
  <2>1. unacked = w /\ At(w, "ack")
    BY <1>4 DEF Acknowledge, Settled
  <2>2. QED
    BY <1>1, <2>1, ReportsStay DEF InOrder
<1>5. ASSUME NEW w \in Worker, Deliver(w)
      PROVE  FALSE
  BY <1>1, <1>5 DEF Deliver
<1>6. QED
  BY <1>2, <1>3, <1>4, <1>5, QueueUnder DEF brokerVars, Request

LEMMA NothingUncollectedKept ==
  ASSUME IInv, [Next]_vars
  PROVE  NothingUncollected'
<1> USE DEF IInv
<1> SUFFICES ASSUME NEW k \in Key, copies'[k] > 0
             PROVE  \/ Ready(k)' \/ Outstanding(k)' \/ k \in dead'
                    \/ experiences'[k].state = "COMPLETED"
  BY DEF NothingUncollected
<1>1. dead \subseteq dead'
  <2>1. ASSUME NEW w \in Worker, Returns(w)
        PROVE  dead \subseteq dead'
    BY <2>1, ReturnUnder DEF Returns
  <2>2. QED
    BY <2>1, QueueUnder DEF brokerVars, Request, Deliver, Acknowledge
<1>2. CASE copies[k] > 0
  BY <1>1, <1>2, ReadyKept, OutstandingKept, ReportsStay DEF NothingUncollected
<1>3. CASE Request(k)
  <2> DEFINE m == [key |-> k, returns |-> 0]
  <2>1. messages' = Append(messages, m) /\ m.key = k
    BY <1>3 DEF Request
  <2> HIDE DEF m
  <2>2. Len(messages) + 1 \in DOMAIN messages' /\ messages'[Len(messages) + 1] = m
    BY <2>1 DEF TypeOK
  <2>3. QED
    BY <2>1, <2>2 DEF Ready
<1>4. CASE ~(copies[k] > 0) /\ ~Request(k)
  <2>1. ASSUME NEW j \in Key, Request(j), j # k
        PROVE  copies'[k] = copies[k]
    BY <2>1 DEF Request, TypeOK
  <2>2. QED
    BY <1>4, <2>1, QueueUnder DEF Deliver
<1>5. QED
  BY <1>2, <1>3, <1>4

-----------------------------------------------------------------------------
LEMMA InitIInv == Init => IInv
<1> SUFFICES ASSUME Init PROVE IInv
  OBVIOUS
<1> USE CollectionAssumption DEF Init
<1>1. Store!TypeOK /\ Store!IInv
  <2>1. /\ Store!NoRow \in Store!ExecutionRow /\ Store!NoRow \in Store!ExperienceRow
        /\ Store!NoRow.state = "NONE" /\ Store!NoRow.token = 0 /\ Store!NoRow.lease = 0
        /\ Store!NoRow.attempt = 0
    BY ConstantTypes DEF Store!NoRow, Store!ExecutionRow, Store!ExperienceRow, Store!Row
  <2>2. ASSUME NEW k \in Key
        PROVE  /\ Finished(k) \in Store!ExecutionRow
               /\ Finished(k).state = "COMPLETED" /\ Finished(k).token = 0
               /\ Finished(k).lease = 0 /\ Finished(k).attempt = 1
    <3>1. 1 \in 0 .. MaxClaims
      OBVIOUS
    <3>2. QED
      BY <3>1, ConstantTypes DEF Finished, Store!ExecutionRow, Store!Row, Store!Terminal
  <2>3. Store!TypeOK
    BY <2>1, <2>2, SameTypes DEF Store!TypeOK
  <2>4. \A k \in Key : k[1] \in agents
    BY DEF Key
  <2>5. \A k \in Key : executions[k] = Finished(k) /\ experiences[k] = Store!NoRow
    OBVIOUS
  <2>6. QED
    BY <2>1, <2>2, <2>3, <2>4, <2>5, SameTypes
    DEF Store!IInv, Store!ClaimsCounted, Store!ExperienceOfCompletedTask, Store!TokensUnique,
        Store!OnlyRunningRowsLeased, Store!NoOrphanRows
<1>2. TypeOK
  BY <1>1 DEF TypeOK
<1>3. \A w \in Worker : handler[w].pc = "idle"
  BY DEF Idle
<1>4. \A k \in Key : experiences[k].state = "NONE" /\ copies[k] = 0
  BY DEF Store!NoRow
<1>5. QED
  BY <1>1, <1>2, <1>3, <1>4
  DEF IInv, TokensExclusive, Owns, InOrder, At, DeliveryHasHandler, CollectorHoldsLease,
      Collecting, ReportIsRemembered, NothingUncollected

LEMMA NextIInv == IInv /\ [Next]_vars => IInv'
<1> SUFFICES ASSUME IInv, [Next]_vars PROVE IInv'
  OBVIOUS
<1>1. Store!IInv' /\ Store!TypeOK'
  BY StoreInvariantKept DEF Store!IInv
<1>2. TypeOK'
  BY <1>1, QueueTypes, HandlerTypes, MemoriesUnder DEF TypeOK
<1>3. QED
  BY <1>1, <1>2, TokensExclusiveKept, InOrderKept, DeliveryHasHandlerKept,
     CollectorHoldsLeaseKept, ReportIsRememberedKept, NothingUncollectedKept DEF IInv

THEOREM CollectionInvariant == Spec => []IInv
<1>1. Init => IInv
  BY InitIInv
<1>2. IInv /\ [Next]_vars => IInv'
  BY NextIInv
<1>3. QED
  BY <1>1, <1>2, PTL DEF Spec

(* The tables, the queue, the handlers and the memories keep their types.  *)
THEOREM TypeCorrect == Spec => []TypeOK
<1>1. IInv => TypeOK
  BY DEF IInv
<1>2. QED
  BY <1>1, CollectionInvariant, PTL

(* No two handlers collect the experience of one task at the same time,    *)
(* and none collects it once it is reported.                               *)
THEOREM CollectionsDoNotOverlap == Spec => []CollectorHoldsLease
<1>1. IInv => CollectorHoldsLease
  BY DEF IInv
<1>2. QED
  BY <1>1, CollectionInvariant, PTL

(* A recorded report is one that MemOS has, under the claim it was         *)
(* recorded with.                                                          *)
THEOREM ReportsAreRemembered == Spec => []ReportIsRemembered
<1>1. IInv => ReportIsRemembered
  BY DEF IInv
<1>2. QED
  BY <1>1, CollectionInvariant, PTL

(* A request for an experience is in the queue, out for delivery, in the   *)
(* dead letters, or the report is recorded.                                *)
THEOREM RequestsAreNotLost == Spec => []NothingUncollected
<1>1. IInv => NothingUncollected
  BY DEF IInv
<1>2. QED
  BY <1>1, CollectionInvariant, PTL

(* Once the report of a task is recorded, MemOS gets nothing more of it.   *)
THEOREM WritesEndWithTheReport == Spec => NoWriteAfterReport
<1>1. IInv /\ [Next]_vars => [WritesEnd]_vars
  <2> SUFFICES ASSUME IInv, [Next]_vars, NEW k \in Key, experiences[k].state = "COMPLETED",
                      memories'[k] # memories[k]
               PROVE  FALSE
    BY DEF WritesEnd
  <2>1. PICK w \in Worker : At(w, "write") /\ KeyOf(w) = k
    BY MemoriesUnder
  <2>2. experiences[k].state = "RUNNING"
    BY <2>1 DEF IInv, CollectorHoldsLease, Collecting
  <2>3. QED
    BY <2>2
<1>2. QED
  BY <1>1, CollectionInvariant, PTL DEF Spec, NoWriteAfterReport

-----------------------------------------------------------------------------
(* What the store promises its clients holds with the collection as one:   *)
(* recorded reports and leases.                                            *)

LEMMA SameVars == StoreProofs!vars = Store!vars /\ StoreProofs!vars' = Store!vars'
BY DEF StoreProofs!vars, Store!vars

LEMMA StorePromisesKept ==
  ASSUME IInv, [Next]_vars
  PROVE  [Store!KeepsReports /\ Store!KeepsLeases]_(Store!vars)
<1>1. StoreProofs!IInv
  BY SameInvariant DEF IInv
<1>2. [StoreProofs!KeepsReports /\ StoreProofs!KeepsLeases]_(StoreProofs!vars)
  BY <1>1, StoreStep, StoreProofs!NextKeeps, StoreAssumptionHolds
<1>3. StoreProofs!KeepsReports => Store!KeepsReports
  BY SameTypes DEF StoreProofs!KeepsReports, Store!KeepsReports
<1>4. StoreProofs!KeepsLeases => Store!KeepsLeases
  BY SameTypes DEF StoreProofs!KeepsLeases, Store!KeepsLeases
<1>5. QED
  BY <1>2, <1>3, <1>4, SameVars

(* Whatever is redelivered, released or answered late, a report that was   *)
(* recorded is never replaced.                                             *)
THEOREM ReportsArePermanent == Spec => Store!ReportImmutable
<1>1. IInv /\ [Next]_vars => [Store!KeepsReports]_(Store!vars)
  BY StorePromisesKept
<1>2. QED
  BY <1>1, CollectionInvariant, PTL DEF Spec, Store!ReportImmutable

(* Nor is the lease of a collection taken over before it has run out.      *)
THEOREM LeasesStay == Spec => Store!LeaseHonoured
<1>1. IInv /\ [Next]_vars => [Store!KeepsLeases]_(Store!vars)
  BY StorePromisesKept
<1>2. QED
  BY <1>1, CollectionInvariant, PTL DEF Spec, Store!LeaseHonoured
=============================================================================
