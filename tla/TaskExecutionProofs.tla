------------------------ MODULE TaskExecutionProofs -------------------------
(***************************************************************************)
(* Proofs about the queue-backed execution of tasks, for any number of     *)
(* agents, tasks and workers, any delivery limit and any lease longer than *)
(* the longest execution.                                                  *)
(***************************************************************************)
EXTENDS TaskExecution, SequenceTheorems, TLAPS

(* The theorems about the store, for the tables of this module. *)
StoreProofs == INSTANCE ExecutionStoreProofs
                 WITH Message <- Command, Text <- Token, Empty <- 0,
                      MaxLease <- WorkerLease

-----------------------------------------------------------------------------
(* The two instances of the store are the same specification. *)

LEMMA StoreAssumptionHolds == StoreProofs!StoreAssumption
BY ExecutionAssumption DEF StoreProofs!StoreAssumption, Command, Token

LEMMA SameTypes ==
  /\ StoreProofs!Key = Command
  /\ Store!Key = Command
  /\ StoreProofs!Terminal = Store!Terminal
  /\ StoreProofs!ExecutionRow = Store!ExecutionRow
  /\ StoreProofs!ExperienceRow = Store!ExperienceRow
  /\ StoreProofs!NoRow = Store!NoRow
BY DEF StoreProofs!Key, Store!Key, Command, StoreProofs!Terminal, Store!Terminal,
   StoreProofs!ExecutionRow, Store!ExecutionRow, StoreProofs!ExperienceRow,
   Store!ExperienceRow, StoreProofs!NoRow, Store!NoRow, StoreProofs!Row, Store!Row

LEMMA SameInvariant == StoreProofs!IInv <=> Store!IInv
BY SameTypes
DEF StoreProofs!IInv, Store!IInv, StoreProofs!TypeOK, Store!TypeOK,
    StoreProofs!ClaimsCounted, Store!ClaimsCounted,
    StoreProofs!ExperienceOfCompletedTask, Store!ExperienceOfCompletedTask,
    StoreProofs!TokensUnique, Store!TokensUnique,
    StoreProofs!OnlyRunningRowsLeased, Store!OnlyRunningRowsLeased,
    StoreProofs!NoOrphanRows, Store!NoOrphanRows

LEMMA SameClaim ==
  ASSUME NEW k \in Command, Store!ClaimExecution(k, k, WorkerLease)
  PROVE  StoreProofs!ClaimExecution(k, k, WorkerLease)
BY SameTypes
DEF Store!ClaimExecution, StoreProofs!ClaimExecution, Store!MayExecute,
    StoreProofs!MayExecute, Store!Claimed, StoreProofs!Claimed,
    Store!Unused, StoreProofs!Unused

LEMMA SameComplete ==
  ASSUME NEW k \in Command, NEW token, NEW state, NEW text,
         Store!CompleteExecution(k, k, token, state, text)
  PROVE  StoreProofs!CompleteExecution(k, k, token, state, text)
BY DEF Store!CompleteExecution, StoreProofs!CompleteExecution,
       Store!MayComplete, StoreProofs!MayComplete

LEMMA SameTick == Store!Tick => StoreProofs!Tick
BY SameTypes DEF Store!Tick, StoreProofs!Tick, Store!Aged, StoreProofs!Aged

-----------------------------------------------------------------------------
(* Types. *)

LEMMA ConstantTypes ==
  /\ NoOutcome \in Outcome \cup {NoOutcome}
  /\ 0 \in Token /\ 0 \in 0 .. WorkerLease /\ 0 \in 0 .. MaxExecution
  /\ 0 \in 0 .. DeliveryLimit /\ MaxExecution \in 0 .. MaxExecution
BY ExecutionAssumption DEF Token

(* A handler that is doing something is a Handler record. *)
LEMMA BusyHandler ==
  ASSUME TypeOK, NEW w \in Worker, handler[w].pc # "idle"
  PROVE  /\ handler[w] \in Handler
         /\ handler[w].cmd \in Envelope
         /\ KeyOf(w) \in Command
<1>1. handler[w] \in Handler
  BY DEF TypeOK, Idle
<1>2. QED
  BY <1>1 DEF Handler, Envelope, KeyOf

LEMMA NotIdle ==
  ASSUME TypeOK, NEW w \in Worker, handler[w] # Idle
  PROVE  handler[w] \in Handler /\ handler[w].cmd \in Envelope /\ KeyOf(w) \in Command
<1>1. handler[w] \in Handler
  BY DEF TypeOK
<1>2. QED
  BY <1>1 DEF Handler, Envelope, KeyOf

LEMMA RecordedType ==
  ASSUME TypeOK, NEW k \in Command, executions[k].state \in Store!Terminal
  PROVE  Recorded(k) \in Outcome
<1>1. executions[k] \in Store!ExecutionRow
  BY SameTypes DEF TypeOK, Store!TypeOK
<1>2. executions[k].text \in Token
  BY <1>1 DEF Store!ExecutionRow, Store!Row
<1>3. QED
  BY <1>2 DEF Recorded, Outcome

(* How the fields of a handler are rewritten. *)
LEMMA HandlerUpdates ==
  ASSUME NEW h \in Handler, NEW token \in Token,
         NEW outcome \in Outcome \cup {NoOutcome}, NEW wait \in 0 .. WorkerLease,
         NEW pc \in {"claim", "execute", "complete", "publish", "experience", "ack"}
  PROVE  /\ [h EXCEPT !.pc = pc] \in Handler
         /\ [h EXCEPT !.wait = wait] \in Handler
         /\ [h EXCEPT !.pc = pc, !.outcome = outcome] \in Handler
         /\ [h EXCEPT !.pc = pc, !.token = token, !.timer = MaxExecution] \in Handler
BY ConstantTypes DEF Handler

LEMMA EnvelopeUpdate ==
  ASSUME NEW c \in Envelope, c.returns < DeliveryLimit
  PROVE  [c EXCEPT !.returns = @ + 1] \in Envelope
<1>1. c.returns + 1 \in 0 .. DeliveryLimit
  BY ExecutionAssumption DEF Envelope
<1>2. QED
  BY <1>1 DEF Envelope

LEMMA ReturnDeliveryType ==
  ASSUME TypeOK, NEW w \in Worker, handler[w] # Idle, ReturnDelivery(w)
  PROVE  /\ commands' \in Seq(Envelope)
         /\ unacked' \in Worker \cup {NoWorker}
         /\ dead' \in SUBSET Command
<1>1. handler[w].cmd \in Envelope /\ handler[w].cmd.key \in Command
  BY NotIdle DEF KeyOf
<1>2. CASE unacked = w
  <2>1. CASE handler[w].cmd.returns < DeliveryLimit
    <3> DEFINE c == [handler[w].cmd EXCEPT !.returns = @ + 1]
    <3>1. c \in Envelope
      BY <1>1, <2>1, EnvelopeUpdate
    <3> HIDE DEF c
    <3>2. commands' = <<c>> \o commands /\ unacked' = NoWorker /\ dead' = dead
      BY <1>2, <2>1 DEF ReturnDelivery, Requeue, c
    <3>3. QED
      BY <3>1, <3>2 DEF TypeOK
  <2>2. CASE ~(handler[w].cmd.returns < DeliveryLimit)
    BY <1>1, <1>2, <2>2 DEF ReturnDelivery, Requeue, TypeOK
  <2>3. QED
    BY <2>1, <2>2
<1>3. CASE unacked # w
  BY <1>3 DEF ReturnDelivery, brokerVars, TypeOK
<1>4. QED
  BY <1>2, <1>3

-----------------------------------------------------------------------------
(* Every step takes a step of the store's specification or leaves it alone. *)

LEMMA ClaimIsStoreStep ==
  ASSUME NEW k \in Command, Store!ClaimExecution(k, k, WorkerLease)
  PROVE  StoreProofs!Next
<1>1. WorkerLease \in 1 .. WorkerLease
  BY ExecutionAssumption
<1>2. StoreProofs!ExecutionOp(k, k)
  BY <1>1, SameClaim DEF StoreProofs!ExecutionOp
<1>3. QED
  BY <1>2, SameTypes DEF StoreProofs!Next

(* The ways in which a step can touch the store. *)
WorkerClaims(w) ==
  AtPc(w, "claim") /\ Store!ClaimExecution(KeyOf(w), KeyOf(w), WorkerLease)

WorkerCompletes(w) ==
  /\ AtPc(w, "complete")
  /\ Store!CompleteExecution(KeyOf(w), KeyOf(w), handler[w].token,
                             handler[w].outcome.state, handler[w].outcome.text)

LEMMA StoreUse ==
  ASSUME [Next]_vars
  PROVE  \/ UNCHANGED storeVars
         \/ \E w \in Worker : WorkerClaims(w) \/ WorkerCompletes(w)
         \/ Tick
<1>1. CASE UNCHANGED vars
  BY <1>1 DEF vars
<1>2. CASE GatewayStep
  BY <1>2 DEF GatewayStep, Dispatch, DispatchFails, ReceiveReply,
     ResultTimeout, Cancel, GatewayRestart
<1>3. ASSUME NEW w \in Worker, Deliver(w) \/ WorkerStep(w) \/ Failure(w)
      PROVE  UNCHANGED storeVars \/ WorkerClaims(w) \/ WorkerCompletes(w)
  <2>1. CASE Deliver(w) \/ Failure(w)
    BY <2>1 DEF Deliver, Failure, Crash, Disconnect, PublishFails
  <2>2. CASE ClaimGranted(w) \/ ClaimFails(w)
    BY <2>2 DEF ClaimGranted, ClaimFails, ClaimReady, WorkerClaims
  <2>3. CASE CompleteRecorded(w) \/ CompleteFails(w)
    BY <2>3 DEF CompleteRecorded, CompleteFails, WorkerCompletes
  <2>4. CASE ClaimReplays(w) \/ ClaimBusy(w) \/ CompleteDuplicate(w) \/ PublishStep(w)
    BY <2>4 DEF ClaimReplays, ClaimBusy, CompleteDuplicate, PublishStep,
       PublishResult, PublishUnroutable, PublishExperience, Acknowledge
  <2>5. ASSUME NEW state \in Store!Terminal, Execute(w, state)
        PROVE  UNCHANGED storeVars
    BY <2>5 DEF Execute
  <2>6. QED
    BY <1>3, <2>1, <2>2, <2>3, <2>4, <2>5 DEF WorkerStep, ClaimStep, CompleteStep
<1>4. QED
  BY <1>1, <1>2, <1>3 DEF Next

LEMMA AtPcBusy ==
  ASSUME TypeOK, NEW w \in Worker, NEW pc, AtPc(w, pc), pc # "idle"
  PROVE  handler[w] \in Handler /\ KeyOf(w) \in Command
BY BusyHandler DEF AtPc

LEMMA CompleteIsStoreStep ==
  ASSUME IInv, NEW w \in Worker, WorkerCompletes(w)
  PROVE  StoreProofs!Next
<1>1. KeyOf(w) \in Command
  BY AtPcBusy DEF WorkerCompletes, IInv
<1>2. handler[w].token \in 1 .. issued /\ handler[w].outcome \in Outcome
  BY DEF IInv, WorkerCompletes, TokensExclusive, OwnsToken, ResultsHeld
<1>3. /\ handler[w].outcome.state \in StoreProofs!Terminal
      /\ handler[w].outcome.text \in Token
  BY <1>2, SameTypes DEF Outcome
<1>4. StoreProofs!CompleteExecution(KeyOf(w), KeyOf(w), handler[w].token,
                            handler[w].outcome.state, handler[w].outcome.text)
  BY <1>1, SameComplete DEF WorkerCompletes
<1>5. StoreProofs!ExecutionOp(KeyOf(w), KeyOf(w))
  BY <1>2, <1>3, <1>4 DEF StoreProofs!ExecutionOp
<1>6. QED
  BY <1>1, <1>5, SameTypes DEF StoreProofs!Next

LEMMA StoreStep ==
  ASSUME IInv, [Next]_vars
  PROVE  [StoreProofs!Next]_(StoreProofs!vars)
<1>1. CASE UNCHANGED storeVars
  BY <1>1 DEF storeVars, StoreProofs!vars
<1>2. ASSUME NEW w \in Worker, WorkerClaims(w)
      PROVE  StoreProofs!Next
  BY <1>2, AtPcBusy, ClaimIsStoreStep DEF WorkerClaims, IInv
<1>3. ASSUME NEW w \in Worker, WorkerCompletes(w)
      PROVE  StoreProofs!Next
  BY <1>3, CompleteIsStoreStep
<1>4. CASE Tick
  BY <1>4, SameTick DEF Tick, StoreProofs!Next
<1>5. QED
  BY <1>1, <1>2, <1>3, <1>4, StoreUse

LEMMA StoreInvariantKept ==
  ASSUME IInv, [Next]_vars
  PROVE  Store!IInv'
<1>1. StoreProofs!IInv
  BY SameInvariant DEF IInv
<1>2. StoreProofs!IInv'
  BY <1>1, StoreStep, StoreProofs!NextIInv, StoreAssumptionHolds
<1>3. StoreProofs!IInv' => Store!IInv'
  BY SameInvariant, PTL
<1>4. QED
  BY <1>2, <1>3

-----------------------------------------------------------------------------
(* The variables outside the store keep their types. *)

OwnTypes ==
  /\ epoch \in 0 .. MaxRestarts
  /\ gateway \in [Command -> GatewayTask]
  /\ commands \in Seq(Envelope)
  /\ unacked \in Worker \cup {NoWorker}
  /\ handler \in [Worker -> Handler \cup {Idle}]
  /\ replies \in SUBSET Reply
  /\ answered \in SUBSET Command
  /\ requested \in SUBSET Command
  /\ dead \in SUBSET Command

LEMMA GatewayUpdates ==
  ASSUME OwnTypes, NEW k \in Command,
         NEW p \in {"waiting", "failed", "canceled"}
  PROVE  [gateway EXCEPT ![k].phase = p] \in [Command -> GatewayTask]
BY DEF OwnTypes, GatewayTask

LEMMA GatewayTypes ==
  ASSUME OwnTypes, GatewayStep
  PROVE  OwnTypes'
<1>1. ASSUME NEW k \in Command
      PROVE  [key |-> k, replyTo |-> epoch, returns |-> 0] \in Envelope
  BY ConstantTypes DEF Envelope, OwnTypes
<1>2. ASSUME NEW k \in Command, Dispatch(k) \/ DispatchFails(k)
      PROVE  OwnTypes'
  <2> DEFINE c == [key |-> k, replyTo |-> epoch, returns |-> 0]
  <2>1. c \in Envelope
    BY <1>1
  <2>2. commands' = commands \/ commands' = Append(commands, c)
    BY <1>2 DEF Dispatch, DispatchFails
  <2> HIDE DEF c
  <2>3. commands' \in Seq(Envelope)
    BY <2>1, <2>2 DEF OwnTypes
  <2>4. gateway' \in [Command -> GatewayTask]
    BY <1>2, GatewayUpdates DEF Dispatch, DispatchFails
  <2>5. QED
    BY <1>2, <2>3, <2>4 DEF OwnTypes, Dispatch, DispatchFails, outputVars
<1>3. ASSUME NEW k \in Command, ResultTimeout(k) \/ Cancel(k)
      PROVE  OwnTypes'
  <2>1. gateway' \in [Command -> GatewayTask]
    BY <1>3, GatewayUpdates DEF ResultTimeout, Cancel
  <2>2. QED
    BY <1>3, <2>1 DEF OwnTypes, ResultTimeout, Cancel, outputVars, brokerVars
<1>4. ASSUME NEW r \in replies, ReceiveReply(r)
      PROVE  OwnTypes'
  <2>1. r.key \in Command /\ r.outcome \in Outcome
    BY DEF OwnTypes, Reply
  <2>2. [phase |-> "answered", outcome |-> r.outcome] \in GatewayTask
    BY <2>1 DEF GatewayTask
  <2>3. gateway' \in [Command -> GatewayTask]
    BY <1>4, <2>1, <2>2 DEF ReceiveReply, OwnTypes
  <2>4. QED
    BY <1>4, <2>3 DEF OwnTypes, ReceiveReply, brokerVars
<1>5. CASE GatewayRestart
  <2>1. gateway' \in [Command -> GatewayTask]
    BY <1>5 DEF GatewayRestart, OwnTypes, GatewayTask
  <2>2. epoch' \in 0 .. MaxRestarts
    BY <1>5, ExecutionAssumption DEF GatewayRestart, OwnTypes
  <2>3. QED
    BY <1>5, <2>1, <2>2 DEF OwnTypes, GatewayRestart, brokerVars
<1>6. QED
  BY <1>2, <1>3, <1>4, <1>5 DEF GatewayStep

LEMMA PutHandler ==
  ASSUME OwnTypes, NEW w \in Worker, NEW h \in Handler \cup {Idle},
         handler' = [handler EXCEPT ![w] = h]
  PROVE  handler' \in [Worker -> Handler \cup {Idle}]
BY DEF OwnTypes

(* What is common to the steps of a handler that neither touch the queue   *)
(* nor publish anything. *)
LEMMA PrivateStepTypes ==
  ASSUME OwnTypes, UNCHANGED <<brokerVars, outputVars, gatewayVars>>,
         handler' \in [Worker -> Handler \cup {Idle}]
  PROVE  OwnTypes'
BY DEF OwnTypes, brokerVars, outputVars, gatewayVars

LEMMA AbandonTypes ==
  ASSUME TypeOK, OwnTypes, NEW w \in Worker, handler[w] # Idle, Abandon(w)
  PROVE  OwnTypes'
<1>1. handler' \in [Worker -> Handler \cup {Idle}]
  BY PutHandler DEF Abandon
<1>2. QED
  BY <1>1, ReturnDeliveryType DEF OwnTypes, Abandon, outputVars, gatewayVars

LEMMA OwnTypesOfTypeOK == TypeOK => OwnTypes /\ Store!TypeOK
BY DEF TypeOK, OwnTypes

(* A completion writes the outcome it is given into the row. *)
LEMMA CompletedRow ==
  ASSUME TypeOK, NEW k \in Command, NEW token, NEW state \in Store!Terminal,
         NEW text \in Token, Store!CompleteExecution(k, k, token, state, text)
  PROVE  /\ executions'[k].state = state
         /\ executions'[k].text = text
         /\ \A j \in Command : j # k => executions'[j] = executions[j]
<1>1. executions \in [Command -> Store!ExecutionRow]
  BY SameTypes DEF TypeOK, Store!TypeOK
<1>2. executions[k] \in Store!ExecutionRow
  BY <1>1
<1>3. executions' = [executions EXCEPT ![k] =
        [executions[k] EXCEPT !.state = state, !.text = text, !.lease = 0]]
  BY DEF Store!CompleteExecution
<1>4. executions'[k] =
        [executions[k] EXCEPT !.state = state, !.text = text, !.lease = 0]
  BY <1>1, <1>3
<1>5. QED
  BY <1>1, <1>2, <1>3, <1>4 DEF Store!ExecutionRow, Store!Row

LEMMA ClaimStepTypes ==
  ASSUME IInv, NEW w \in Worker, ClaimStep(w)
  PROVE  OwnTypes'
<1> USE OwnTypesOfTypeOK DEF IInv
<1>1. handler[w].pc # "idle" /\ handler[w] # Idle
  BY DEF ClaimStep, ClaimGranted, ClaimReplays, ClaimBusy, ClaimFails,
         ClaimReady, AtPc, Idle
<1>2. handler[w] \in Handler /\ KeyOf(w) \in Command
  BY <1>1, BusyHandler
<1>3. CASE ClaimGranted(w)
  <2>1. issued' \in Token
    BY <1>3, ExecutionAssumption
    DEF ClaimGranted, Store!ClaimExecution, Store!TypeOK, Token
  <2> DEFINE h == [handler[w] EXCEPT !.pc = "execute", !.token = issued',
                                     !.timer = MaxExecution]
  <2>2. h \in Handler
    BY <1>2, <2>1, HandlerUpdates, ConstantTypes
  <2>3. handler' = [handler EXCEPT ![w] = h]
    BY <1>3 DEF ClaimGranted
  <2> HIDE DEF h
  <2>4. QED
    BY <1>3, <2>2, <2>3, PutHandler, PrivateStepTypes DEF ClaimGranted
<1>4. CASE ClaimReplays(w)
  <2>1. Recorded(KeyOf(w)) \in Outcome
    BY <1>2, <1>4, RecordedType DEF ClaimReplays, Store!Replays
  <2> DEFINE h == [handler[w] EXCEPT !.pc = "publish",
                                     !.outcome = Recorded(KeyOf(w))]
  <2>2. h \in Handler
    BY <1>2, <2>1, HandlerUpdates, ConstantTypes
  <2>3. handler' = [handler EXCEPT ![w] = h]
    BY <1>4 DEF ClaimReplays
  <2> HIDE DEF h
  <2>4. QED
    BY <1>4, <2>2, <2>3, PutHandler, PrivateStepTypes DEF ClaimReplays
<1>5. CASE ClaimBusy(w)
  <2>1. executions[KeyOf(w)] \in Store!ExecutionRow
    BY <1>2, SameTypes DEF Store!TypeOK
  <2>2. executions[KeyOf(w)].lease \in 0 .. WorkerLease
    BY <2>1 DEF Store!ExecutionRow, Store!Row
  <2> DEFINE h == [handler[w] EXCEPT !.wait = executions[KeyOf(w)].lease]
  <2>3. h \in Handler
    BY <1>2, <2>2, HandlerUpdates, ConstantTypes
  <2>4. handler' = [handler EXCEPT ![w] = h]
    BY <1>5 DEF ClaimBusy
  <2> HIDE DEF h
  <2>5. QED
    BY <1>5, <2>3, <2>4, PutHandler, PrivateStepTypes DEF ClaimBusy
<1>6. CASE ClaimFails(w)
  BY <1>1, <1>6, AbandonTypes DEF ClaimFails
<1>7. QED
  BY <1>3, <1>4, <1>5, <1>6 DEF ClaimStep

LEMMA ExecuteTypes ==
  ASSUME IInv, NEW w \in Worker, NEW state \in Store!Terminal, Execute(w, state)
  PROVE  OwnTypes'
<1> USE OwnTypesOfTypeOK DEF IInv
<1>1. handler[w] \in Handler
  BY BusyHandler DEF Execute, AtPc
<1>2. [state |-> state, text |-> handler[w].token] \in Outcome
  BY <1>1 DEF Handler, Outcome
<1> DEFINE h == [handler[w] EXCEPT !.pc = "complete",
                   !.outcome = [state |-> state, text |-> handler[w].token]]
<1>3. h \in Handler
  BY <1>1, <1>2, HandlerUpdates, ConstantTypes
<1>4. handler' = [handler EXCEPT ![w] = h]
  BY DEF Execute
<1> HIDE DEF h
<1>5. QED
  BY <1>3, <1>4, PutHandler, PrivateStepTypes DEF Execute

LEMMA CompleteStepTypes ==
  ASSUME IInv, NEW w \in Worker, CompleteStep(w)
  PROVE  OwnTypes'
<1> USE OwnTypesOfTypeOK DEF IInv
<1>1. /\ handler[w].pc # "idle" /\ handler[w] # Idle
      /\ AtPc(w, "complete")
  BY DEF CompleteStep, CompleteRecorded, CompleteDuplicate, CompleteFails, AtPc, Idle
<1>2. handler[w] \in Handler /\ KeyOf(w) \in Command
  BY <1>1, BusyHandler
<1>3. handler[w].outcome.state \in Store!Terminal /\ handler[w].outcome.text \in Token
  BY <1>1 DEF ResultsHeld, Outcome
<1>4. CASE CompleteRecorded(w)
  <2> DEFINE o == [state |-> executions'[KeyOf(w)].state,
                   text |-> executions'[KeyOf(w)].text]
             h == [handler[w] EXCEPT !.pc = "publish", !.outcome = o]
  <2>1. o \in Outcome
    BY <1>2, <1>3, <1>4, CompletedRow DEF CompleteRecorded, Outcome
  <2>2. handler' = [handler EXCEPT ![w] = h]
    BY <1>4 DEF CompleteRecorded
  <2> HIDE DEF o
  <2>3. h \in Handler
    BY <1>2, <2>1, HandlerUpdates, ConstantTypes
  <2> HIDE DEF h
  <2>4. QED
    BY <1>4, <2>2, <2>3, PutHandler, PrivateStepTypes DEF CompleteRecorded
<1>5. CASE CompleteDuplicate(w)
  <2>1. Recorded(KeyOf(w)) \in Outcome
    BY <1>2, <1>5, RecordedType DEF CompleteDuplicate, Store!IsDuplicate
  <2> DEFINE h == [handler[w] EXCEPT !.pc = "publish",
                                     !.outcome = Recorded(KeyOf(w))]
  <2>2. h \in Handler
    BY <1>2, <2>1, HandlerUpdates, ConstantTypes
  <2>3. handler' = [handler EXCEPT ![w] = h]
    BY <1>5 DEF CompleteDuplicate
  <2> HIDE DEF h
  <2>4. QED
    BY <1>5, <2>2, <2>3, PutHandler, PrivateStepTypes DEF CompleteDuplicate
<1>6. CASE CompleteFails(w)
  BY <1>1, <1>6, AbandonTypes DEF CompleteFails
<1>7. QED
  BY <1>4, <1>5, <1>6 DEF CompleteStep

LEMMA PublishStepTypes ==
  ASSUME IInv, NEW w \in Worker, PublishStep(w)
  PROVE  OwnTypes'
<1> USE OwnTypesOfTypeOK DEF IInv
<1>1. Reporting(w) /\ handler[w].pc # "idle" /\ handler[w] # Idle
  BY DEF PublishStep, PublishResult, PublishUnroutable, PublishExperience,
         Acknowledge, Reporting, AtPc, Idle
<1>2. handler[w] \in Handler /\ KeyOf(w) \in Command
  BY <1>1, BusyHandler
<1>3. handler[w].outcome \in Outcome
  BY <1>1, <1>2, RecordedType DEF ResultsHeld
<1>4. ASSUME NEW pc \in {"experience", "ack"},
             handler' = [handler EXCEPT ![w].pc = pc]
      PROVE  handler' \in [Worker -> Handler \cup {Idle}]
  <2> DEFINE h == [handler[w] EXCEPT !.pc = pc]
  <2>1. h \in Handler
    BY <1>2, HandlerUpdates, ConstantTypes
  <2>2. handler' = [handler EXCEPT ![w] = h]
    BY <1>4
  <2> HIDE DEF h
  <2>3. QED
    BY <2>1, <2>2, PutHandler
<1>5. CASE PublishResult(w)
  <2>1. handler' \in [Worker -> Handler \cup {Idle}]
    BY <1>4, <1>5 DEF PublishResult, AfterPublish
  <2>2. replies' \in SUBSET Reply
    BY <1>2, <1>3, <1>5 DEF PublishResult, OwnTypes, Reply
  <2>3. QED
    BY <1>2, <1>5, <2>1, <2>2 DEF PublishResult, OwnTypes, brokerVars, gatewayVars
<1>6. CASE PublishExperience(w)
  <2>1. handler' \in [Worker -> Handler \cup {Idle}]
    BY <1>4, <1>6 DEF PublishExperience
  <2>2. QED
    BY <1>2, <1>6, <2>1 DEF PublishExperience, OwnTypes, brokerVars, gatewayVars
<1>7. CASE PublishUnroutable(w)
  BY <1>1, <1>7, AbandonTypes DEF PublishUnroutable
<1>8. CASE Acknowledge(w)
  <2>1. handler' \in [Worker -> Handler \cup {Idle}]
    BY <1>8, PutHandler DEF Acknowledge
  <2>2. QED
    BY <1>8, <2>1 DEF Acknowledge, OwnTypes, outputVars, gatewayVars
<1>9. QED
  BY <1>5, <1>6, <1>7, <1>8 DEF PublishStep

LEMMA DeliverTypes ==
  ASSUME IInv, NEW w \in Worker, Deliver(w)
  PROVE  OwnTypes'
<1> USE OwnTypesOfTypeOK DEF IInv
<1>1. commands \in Seq(Envelope) /\ commands # <<>>
  BY DEF Deliver, OwnTypes
<1>2. Head(commands) \in Envelope /\ Tail(commands) \in Seq(Envelope)
  BY <1>1
<1> DEFINE h == [pc |-> "claim", cmd |-> Head(commands), token |-> 0, wait |-> 0,
                 timer |-> 0, outcome |-> NoOutcome]
<1>3. h \in Handler
  BY <1>2, ConstantTypes DEF Handler
<1>4. handler' = [handler EXCEPT ![w] = h]
  BY DEF Deliver
<1> HIDE DEF h
<1>5. handler' \in [Worker -> Handler \cup {Idle}]
  BY <1>3, <1>4, PutHandler
<1>6. QED
  BY <1>2, <1>5 DEF Deliver, OwnTypes, outputVars, gatewayVars

LEMMA FailureTypes ==
  ASSUME IInv, NEW w \in Worker, Failure(w)
  PROVE  OwnTypes'
<1> USE OwnTypesOfTypeOK DEF IInv
<1>1. CASE Crash(w)
  BY <1>1, AbandonTypes DEF Crash
<1>2. CASE PublishFails(w)
  <2>1. handler[w] # Idle
    BY <1>2 DEF PublishFails, AtPc, Idle
  <2>2. QED
    BY <1>2, <2>1, AbandonTypes DEF PublishFails
<1>3. CASE Disconnect(w) /\ handler[w] # Idle
  BY <1>3, ReturnDeliveryType DEF Disconnect, OwnTypes, outputVars, gatewayVars
<1>4. Disconnect(w) => handler[w] # Idle
  BY DEF Disconnect, DeliveryHasHandler
<1>5. QED
  BY <1>1, <1>2, <1>3, <1>4 DEF Failure

LEMMA TickTypes ==
  ASSUME IInv, Tick
  PROVE  OwnTypes'
<1> USE OwnTypesOfTypeOK DEF IInv
<1>1. ASSUME NEW h \in Handler
      PROVE  [h EXCEPT !.wait = Elapsed(@), !.timer = Elapsed(@)] \in Handler
  <2>1. Elapsed(h.wait) \in 0 .. WorkerLease
    BY ExecutionAssumption DEF Handler, Elapsed
  <2>2. Elapsed(h.timer) \in 0 .. MaxExecution
    BY ExecutionAssumption DEF Handler, Elapsed
  <2>3. QED
    BY <2>1, <2>2 DEF Handler
<1>2. handler' \in [Worker -> Handler \cup {Idle}]
  BY <1>1 DEF Tick, OwnTypes
<1>3. QED
  BY <1>2, PrivateStepTypes DEF Tick

LEMMA TypesKept ==
  ASSUME IInv, [Next]_vars
  PROVE  TypeOK'
<1>1. OwnTypes'
  <2>1. CASE UNCHANGED vars
    BY <2>1, OwnTypesOfTypeOK
    DEF IInv, OwnTypes, vars, brokerVars, outputVars, gatewayVars
  <2>2. CASE GatewayStep
    BY <2>2, GatewayTypes, OwnTypesOfTypeOK DEF IInv
  <2>3. ASSUME NEW w \in Worker, Deliver(w) \/ WorkerStep(w) \/ Failure(w)
        PROVE  OwnTypes'
    BY <2>3, DeliverTypes, FailureTypes, ClaimStepTypes, ExecuteTypes,
       CompleteStepTypes, PublishStepTypes DEF WorkerStep
  <2>4. CASE Tick
    BY <2>4, TickTypes
  <2>5. QED
    BY <2>1, <2>2, <2>3, <2>4 DEF Next
<1>2. Store!TypeOK'
  BY StoreInvariantKept DEF Store!IInv
<1>3. QED
  BY <1>1, <1>2 DEF TypeOK, OwnTypes

-----------------------------------------------------------------------------
(* The rows of the store under a step. *)

LEMMA FinishedRowsKept ==
  ASSUME IInv, [Next]_vars, NEW k \in Command, executions[k].state \in Store!Terminal
  PROVE  executions'[k] = executions[k]
<1> USE SameTypes DEF IInv, TypeOK, Store!TypeOK
<1>1. CASE UNCHANGED storeVars
  BY <1>1 DEF storeVars
<1>2. ASSUME NEW w \in Worker, WorkerClaims(w)
      PROVE  executions'[k] = executions[k]
  BY <1>2 DEF WorkerClaims, Store!ClaimExecution, Store!MayExecute, Store!Terminal
<1>3. ASSUME NEW w \in Worker, WorkerCompletes(w)
      PROVE  executions'[k] = executions[k]
  BY <1>3 DEF WorkerCompletes, Store!CompleteExecution, Store!MayComplete,
     Store!Terminal
<1>4. CASE Tick
  <2>1. executions[k].lease = 0
    <3>1. ~(executions[k].lease > 0)
      BY DEF Store!IInv, Store!OnlyRunningRowsLeased, Store!Terminal
    <3>2. executions[k] \in Store!ExecutionRow
      OBVIOUS
    <3>3. QED
      BY <3>1, <3>2 DEF Store!ExecutionRow, Store!Row
  <2>2. executions'[k] = [executions[k] EXCEPT !.lease = 0]
    <3> DEFINE left == IF executions[k].lease > 0 THEN executions[k].lease - 1 ELSE 0
    <3>1. executions'[k] = [executions[k] EXCEPT !.lease = left]
      BY <1>4, Zenon DEF Tick, Store!Tick, Store!Aged
    <3>2. left = 0
      BY <2>1
    <3> HIDE DEF left
    <3>3. QED
      BY <3>1, <3>2
  <2>3. executions[k] \in Store!ExecutionRow
    OBVIOUS
  <2>4. QED
    BY <2>1, <2>2, <2>3 DEF Store!ExecutionRow, Store!Row
<1>5. QED
  BY <1>1, <1>2, <1>3, <1>4, StoreUse

LEMMA RecordedKept ==
  ASSUME IInv, [Next]_vars, NEW k \in Command, executions[k].state \in Store!Terminal
  PROVE  Recorded(k)' = Recorded(k) /\ executions'[k].state \in Store!Terminal
BY FinishedRowsKept DEF Recorded

-----------------------------------------------------------------------------
(* What one step makes of the handlers. *)

Granted(w) ==
  /\ WorkerClaims(w)
  /\ handler'[w].pc = "execute" /\ handler'[w].cmd = handler[w].cmd
  /\ handler'[w].token = issued' /\ handler'[w].timer = MaxExecution

Executed(w) ==
  /\ AtPc(w, "execute")
  /\ handler'[w].pc = "complete" /\ handler'[w].cmd = handler[w].cmd
  /\ handler'[w].token = handler[w].token /\ handler'[w].outcome \in Outcome

Reports(w) ==
  /\ handler[w] # Idle
  /\ handler'[w].pc \in {"publish", "experience", "ack"}
  /\ handler'[w].cmd = handler[w].cmd
  /\ KeyOf(w) \in Command /\ executions'[KeyOf(w)].state \in Store!Terminal
  /\ handler'[w].outcome = [state |-> executions'[KeyOf(w)].state,
                            text |-> executions'[KeyOf(w)].text]
  /\ handler'[w].pc = "experience" => handler'[w].outcome.state = "COMPLETED"

Moves(w) ==
  \/ handler'[w] = handler[w]
  \/ handler'[w] = Idle /\ unacked' # w
  \/ /\ handler'[w].pc = "claim"
     /\ handler'[w].cmd = handler[w].cmd /\ handler[w] # Idle
  \/ /\ handler'[w].pc = "claim" /\ unacked = NoWorker
     /\ commands # <<>> /\ handler'[w].cmd = Head(commands)
  \/ Granted(w)
  \/ Executed(w)
  \/ Reports(w)

LEMMA AbandonMoves ==
  ASSUME IInv, NEW w \in Worker, Abandon(w)
  PROVE  /\ handler'[w] = Idle /\ unacked' # w
         /\ \A v \in Worker \ {w} : handler'[v] = handler[v]
BY ExecutionAssumption DEF Abandon, ReturnDelivery, brokerVars, IInv, TypeOK

LEMMA ClaimMoves ==
  ASSUME IInv, [Next]_vars, NEW w \in Worker, ClaimStep(w)
  PROVE  Moves(w) /\ \A v \in Worker \ {w} : handler'[v] = handler[v]
<1> USE DEF IInv
<1>1. AtPc(w, "claim") /\ handler[w] # Idle
  BY DEF ClaimStep, ClaimGranted, ClaimReplays, ClaimBusy, ClaimFails,
         ClaimReady, AtPc, Idle
<1>2. /\ handler[w] \in Handler /\ KeyOf(w) \in Command
      /\ handler \in [Worker -> Handler \cup {Idle}]
  BY <1>1, NotIdle DEF TypeOK
<1>3. CASE ClaimGranted(w)
  <2>1. handler' = [handler EXCEPT ![w] =
          [handler[w] EXCEPT !.pc = "execute", !.token = issued', !.timer = MaxExecution]]
    BY <1>3 DEF ClaimGranted
  <2>2. handler'[w] =
          [handler[w] EXCEPT !.pc = "execute", !.token = issued', !.timer = MaxExecution]
    BY <1>2, <2>1
  <2>3. Granted(w)
    BY <1>1, <1>2, <1>3, <2>2 DEF Granted, WorkerClaims, ClaimGranted, Handler
  <2>4. QED
    BY <1>2, <2>1, <2>3 DEF Moves
<1>4. CASE ClaimReplays(w)
  <2>1. handler' = [handler EXCEPT ![w] =
          [handler[w] EXCEPT !.pc = "publish", !.outcome = Recorded(KeyOf(w))]]
    BY <1>4 DEF ClaimReplays
  <2>2. handler'[w] =
          [handler[w] EXCEPT !.pc = "publish", !.outcome = Recorded(KeyOf(w))]
    BY <1>2, <2>1
  <2>3. executions[KeyOf(w)].state \in Store!Terminal
    BY <1>4 DEF ClaimReplays, Store!Replays
  <2>4. Reports(w)
    BY <1>1, <1>2, <2>2, <2>3, FinishedRowsKept DEF Reports, Recorded, Handler
  <2>5. QED
    BY <1>2, <2>1, <2>4 DEF Moves
<1>5. CASE ClaimBusy(w)
  <2>1. handler' = [handler EXCEPT ![w] =
          [handler[w] EXCEPT !.wait = executions[KeyOf(w)].lease]]
    BY <1>5 DEF ClaimBusy
  <2>2. handler'[w] = [handler[w] EXCEPT !.wait = executions[KeyOf(w)].lease]
    BY <1>2, <2>1
  <2>3. handler'[w].pc = "claim" /\ handler'[w].cmd = handler[w].cmd
    BY <1>1, <1>2, <2>2 DEF Handler, AtPc
  <2>4. QED
    BY <1>1, <1>2, <2>1, <2>3 DEF Moves
<1>6. CASE ClaimFails(w)
  BY <1>6, AbandonMoves DEF ClaimFails, Moves
<1>7. QED
  BY <1>3, <1>4, <1>5, <1>6 DEF ClaimStep

LEMMA ExecuteMoves ==
  ASSUME IInv, NEW w \in Worker, NEW state \in Store!Terminal, Execute(w, state)
  PROVE  Moves(w) /\ \A v \in Worker \ {w} : handler'[v] = handler[v]
<1> USE DEF IInv
<1>1. handler[w] \in Handler /\ handler \in [Worker -> Handler \cup {Idle}]
  BY BusyHandler DEF Execute, AtPc, TypeOK
<1> DEFINE o == [state |-> state, text |-> handler[w].token]
<1>2. o \in Outcome
  BY <1>1 DEF Handler, Outcome
<1>3. handler' = [handler EXCEPT ![w] =
        [handler[w] EXCEPT !.pc = "complete", !.outcome = o]]
  BY DEF Execute
<1> HIDE DEF o
<1>4. handler'[w] = [handler[w] EXCEPT !.pc = "complete", !.outcome = o]
  BY <1>1, <1>3
<1>5. Executed(w)
  BY <1>1, <1>2, <1>4 DEF Execute, Executed, Handler
<1>6. QED
  BY <1>1, <1>3, <1>5 DEF Moves

LEMMA CompleteMoves ==
  ASSUME IInv, [Next]_vars, NEW w \in Worker, CompleteStep(w)
  PROVE  Moves(w) /\ \A v \in Worker \ {w} : handler'[v] = handler[v]
<1> USE DEF IInv
<1>1. AtPc(w, "complete") /\ handler[w] # Idle
  BY DEF CompleteStep, CompleteRecorded, CompleteDuplicate, CompleteFails, AtPc, Idle
<1>2. /\ handler[w] \in Handler /\ KeyOf(w) \in Command
      /\ handler \in [Worker -> Handler \cup {Idle}]
  BY <1>1, NotIdle DEF TypeOK
<1>3. CASE CompleteRecorded(w)
  <2> DEFINE o == [state |-> executions'[KeyOf(w)].state,
                   text |-> executions'[KeyOf(w)].text]
  <2>1. handler' = [handler EXCEPT ![w] =
          [handler[w] EXCEPT !.pc = "publish", !.outcome = o]]
    BY <1>3 DEF CompleteRecorded
  <2>3. executions'[KeyOf(w)].state \in Store!Terminal
    BY <1>1, <1>2, <1>3, CompletedRow DEF CompleteRecorded, ResultsHeld, Outcome
  <2>4. handler'[w] = [handler[w] EXCEPT !.pc = "publish", !.outcome = o]
    BY <1>2, <2>1
  <2>5. Reports(w)
    BY <1>1, <1>2, <2>3, <2>4 DEF Reports, Handler
  <2>6. QED
    BY <1>2, <2>1, <2>5 DEF Moves
<1>4. CASE CompleteDuplicate(w)
  <2>1. handler' = [handler EXCEPT ![w] =
          [handler[w] EXCEPT !.pc = "publish", !.outcome = Recorded(KeyOf(w))]]
    BY <1>4 DEF CompleteDuplicate
  <2>2. handler'[w] =
          [handler[w] EXCEPT !.pc = "publish", !.outcome = Recorded(KeyOf(w))]
    BY <1>2, <2>1
  <2>3. executions[KeyOf(w)].state \in Store!Terminal
    BY <1>4 DEF CompleteDuplicate, Store!IsDuplicate
  <2>4. Reports(w)
    BY <1>1, <1>2, <2>2, <2>3, FinishedRowsKept DEF Reports, Recorded, Handler
  <2>5. QED
    BY <1>2, <2>1, <2>4 DEF Moves
<1>5. CASE CompleteFails(w)
  BY <1>5, AbandonMoves DEF CompleteFails, Moves
<1>6. QED
  BY <1>3, <1>4, <1>5 DEF CompleteStep

LEMMA PublishMoves ==
  ASSUME IInv, [Next]_vars, NEW w \in Worker, PublishStep(w)
  PROVE  Moves(w) /\ \A v \in Worker \ {w} : handler'[v] = handler[v]
<1> USE DEF IInv
<1>1. Reporting(w) /\ handler[w] # Idle
  BY DEF PublishStep, PublishResult, PublishUnroutable, PublishExperience,
         Acknowledge, Reporting, AtPc, Idle
<1>2. /\ handler[w] \in Handler /\ KeyOf(w) \in Command
      /\ handler \in [Worker -> Handler \cup {Idle}]
  BY <1>1, NotIdle DEF TypeOK
<1>3. /\ handler[w].outcome = Recorded(KeyOf(w))
      /\ executions[KeyOf(w)].state \in Store!Terminal
      /\ executions'[KeyOf(w)] = executions[KeyOf(w)]
  BY <1>1, <1>2, FinishedRowsKept DEF ResultsHeld
<1>4. ASSUME NEW pc \in {"experience", "ack"},
             pc = "experience" => handler[w].outcome.state = "COMPLETED",
             handler' = [handler EXCEPT ![w] = [handler[w] EXCEPT !.pc = pc]]
      PROVE  Reports(w)
  <2>1. handler'[w] = [handler[w] EXCEPT !.pc = pc]
    BY <1>2, <1>4
  <2>2. QED
    BY <1>1, <1>2, <1>3, <1>4, <2>1 DEF Reports, Recorded, Handler
<1>5. CASE PublishResult(w)
  <2>1. handler' = [handler EXCEPT ![w] = [handler[w] EXCEPT !.pc = AfterPublish(w)]]
    BY <1>5 DEF PublishResult
  <2>2. /\ AfterPublish(w) \in {"experience", "ack"}
        /\ AfterPublish(w) = "experience" => handler[w].outcome.state = "COMPLETED"
    BY DEF AfterPublish
  <2>3. QED
    BY <1>2, <1>4, <2>1, <2>2 DEF Moves
<1>6. CASE PublishExperience(w)
  <2>1. handler' = [handler EXCEPT ![w] = [handler[w] EXCEPT !.pc = "ack"]]
    BY <1>6 DEF PublishExperience
  <2>2. Reports(w)
    BY <1>4, <2>1
  <2>3. QED
    BY <1>2, <2>1, <2>2 DEF Moves
<1>7. CASE PublishUnroutable(w)
  BY <1>7, AbandonMoves DEF PublishUnroutable, Moves
<1>8. CASE Acknowledge(w)
  BY <1>2, <1>8, ExecutionAssumption DEF Acknowledge, Moves
<1>9. QED
  BY <1>5, <1>6, <1>7, <1>8 DEF PublishStep

LEMMA WorkerMoves ==
  ASSUME IInv, [Next]_vars, NEW w \in Worker, Deliver(w) \/ WorkerStep(w) \/ Failure(w)
  PROVE  Moves(w) /\ \A v \in Worker \ {w} : handler'[v] = handler[v]
<1>1. CASE Deliver(w)
  <2> DEFINE h == [pc |-> "claim", cmd |-> Head(commands), token |-> 0, wait |-> 0,
                   timer |-> 0, outcome |-> NoOutcome]
  <2>1. handler' = [handler EXCEPT ![w] = h]
    BY <1>1 DEF Deliver
  <2>2. h.pc = "claim" /\ h.cmd = Head(commands)
    OBVIOUS
  <2> HIDE DEF h
  <2>3. handler'[w] = h /\ \A v \in Worker \ {w} : handler'[v] = handler[v]
    BY <2>1 DEF IInv, TypeOK
  <2>4. QED
    BY <1>1, <2>2, <2>3 DEF Moves, Deliver
<1>2. CASE WorkerStep(w)
  BY <1>2, ClaimMoves, ExecuteMoves, CompleteMoves, PublishMoves DEF WorkerStep
<1>3. CASE Failure(w)
  BY <1>3, AbandonMoves DEF Failure, Crash, Disconnect, PublishFails, Moves
<1>4. QED
  BY <1>1, <1>2, <1>3

(* In a step other than a tick the handler of at most one worker moves. *)
LEMMA OneMoves ==
  ASSUME IInv, [Next]_vars
  PROVE  \/ UNCHANGED handler
         \/ \E w \in Worker : Moves(w) /\ \A v \in Worker \ {w} : handler'[v] = handler[v]
         \/ Tick
<1>1. CASE UNCHANGED vars
  BY <1>1 DEF vars
<1>2. CASE GatewayStep
  BY <1>2 DEF GatewayStep, Dispatch, DispatchFails, ReceiveReply,
     ResultTimeout, Cancel, GatewayRestart
<1>3. QED
  BY <1>1, <1>2, WorkerMoves DEF Next

-----------------------------------------------------------------------------
(* The parts of the invariant that speak of handlers. *)

(* A handler that does not move keeps what it holds, whatever the one that *)
(* moves does to the store. *)
LEMMA StillHolds ==
  ASSUME IInv, [Next]_vars, ~Tick, NEW v \in Worker, handler'[v] = handler[v],
         Executing(v)
  PROVE  HoldsLease(v)'
<1> USE DEF IInv, Executing
<1>1. /\ HoldsLease(v) /\ KeyOf(v)' = KeyOf(v)
      /\ handler[v] \in Handler /\ KeyOf(v) \in Command
  BY AtPcBusy DEF ExecutorHoldsLease, KeyOf
<1>2. executions[KeyOf(v)].lease > 0
  <2>1. handler[v].timer \in Nat /\ executions[KeyOf(v)].lease \in Nat
    <3>1. executions[KeyOf(v)] \in Store!ExecutionRow
      BY <1>1, SameTypes DEF TypeOK, Store!TypeOK
    <3>2. QED
      BY <1>1, <3>1, ExecutionAssumption DEF Handler, Store!ExecutionRow, Store!Row
  <2>2. QED
    BY <1>1, <2>1 DEF HoldsLease
<1>3. executions'[KeyOf(v)] = executions[KeyOf(v)]
  <2> USE SameTypes DEF TypeOK, Store!TypeOK
  <2>1. CASE UNCHANGED storeVars
    BY <2>1 DEF storeVars
  <2>2. ASSUME NEW w \in Worker, WorkerClaims(w)
        PROVE  executions'[KeyOf(v)] = executions[KeyOf(v)]
    BY <1>1, <1>2, <2>2
    DEF WorkerClaims, Store!ClaimExecution, Store!MayExecute, HoldsLease
  <2>3. ASSUME NEW w \in Worker, WorkerCompletes(w)
        PROVE  executions'[KeyOf(v)] = executions[KeyOf(v)]
    <3>1. CASE KeyOf(w) = KeyOf(v)
      <4>1. handler[w].token = handler[v].token
        BY <1>1, <2>3, <3>1
        DEF WorkerCompletes, Store!CompleteExecution, Store!MayComplete, HoldsLease
      <4>2. w = v
        BY <2>3, <4>1 DEF TokensExclusive, OwnsToken, WorkerCompletes
      <4>3. QED
        BY <2>3, <4>2 DEF WorkerCompletes, AtPc
    <3>2. CASE KeyOf(w) # KeyOf(v)
      BY <1>1, <2>3, <3>2 DEF WorkerCompletes, Store!CompleteExecution
    <3>3. QED
      BY <3>1, <3>2
  <2>4. QED
    BY <2>1, <2>2, <2>3, StoreUse
<1>4. QED
  BY <1>1, <1>3 DEF HoldsLease

LEMMA GrantedHolds ==
  ASSUME IInv, NEW w \in Worker, Granted(w)
  PROVE  /\ HoldsLease(w)'
         /\ issued' = issued + 1 /\ issued \in Nat
<1>1. KeyOf(w) \in Command /\ KeyOf(w)' = KeyOf(w)
  BY AtPcBusy DEF Granted, WorkerClaims, IInv, KeyOf
<1>2. issued' = issued + 1 /\ issued \in Nat
  BY ExecutionAssumption
  DEF Granted, WorkerClaims, Store!ClaimExecution, IInv, TypeOK, Store!TypeOK
<1>3. executions'[KeyOf(w)] =
        Store!Claimed(executions[KeyOf(w)], KeyOf(w), WorkerLease)
  BY <1>1, SameTypes
  DEF Granted, WorkerClaims, Store!ClaimExecution, IInv, TypeOK, Store!TypeOK
<1>4. WorkerLease > MaxExecution
  BY ExecutionAssumption
<1>5. QED
  BY <1>1, <1>2, <1>3, <1>4 DEF HoldsLease, Granted, Store!Claimed

(* Time runs down the lease and the timer of an execution alike. *)
LEMMA TickMoves ==
  ASSUME IInv, Tick, NEW w \in Worker
  PROVE  /\ handler[w] = Idle => handler'[w] = Idle
         /\ handler[w] # Idle =>
              /\ handler[w] \in Handler
              /\ handler'[w].pc = handler[w].pc /\ handler'[w].cmd = handler[w].cmd
              /\ handler'[w].token = handler[w].token
              /\ handler'[w].outcome = handler[w].outcome
              /\ handler'[w].timer = Elapsed(handler[w].timer)
<1>1. handler[w] # Idle => handler[w] \in Handler
  BY DEF IInv, TypeOK
<1>2. handler'[w] = IF handler[w] = Idle THEN Idle
        ELSE [handler[w] EXCEPT !.wait = Elapsed(@), !.timer = Elapsed(@)]
  BY DEF Tick
<1>3. QED
  BY <1>1, <1>2 DEF Handler

LEMMA TickHolds ==
  ASSUME IInv, Tick, NEW w \in Worker, Executing(w)'
  PROVE  HoldsLease(w)'
<1> USE DEF Executing, AtPc
<1>1. /\ handler[w] \in Handler /\ Executing(w) /\ KeyOf(w)' = KeyOf(w)
      /\ handler'[w].token = handler[w].token
      /\ handler'[w].timer = Elapsed(handler[w].timer)
  BY TickMoves DEF Idle, KeyOf
<1>2. KeyOf(w) \in Command /\ HoldsLease(w)
  BY <1>1, AtPcBusy DEF IInv, ExecutorHoldsLease
<1>3. executions[KeyOf(w)] \in Store!ExecutionRow
  BY <1>2, SameTypes DEF IInv, TypeOK, Store!TypeOK
<1> DEFINE row == executions[KeyOf(w)]
           left == IF row.lease > 0 THEN row.lease - 1 ELSE 0
<1>4. executions'[KeyOf(w)] = [row EXCEPT !.lease = left]
  BY <1>2, SameTypes, Zenon DEF Tick, Store!Tick, Store!Aged
<1>5. row.lease \in Nat /\ handler[w].timer \in Nat /\ handler[w].timer > 0
  <2>1. row.lease \in Nat
    BY <1>3, ExecutionAssumption DEF Store!ExecutionRow, Store!Row
  <2>2. handler[w].timer \in Nat
    BY <1>1, ExecutionAssumption DEF Handler
  <2>3. handler[w].timer > 0
    BY <1>1 DEF Tick
  <2>4. QED
    BY <2>1, <2>2, <2>3
<1>6. left > Elapsed(handler[w].timer)
  BY <1>2, <1>5 DEF HoldsLease, Elapsed
<1> HIDE DEF left
<1>7. QED
  BY <1>1, <1>2, <1>3, <1>4, <1>6 DEF HoldsLease, Store!ExecutionRow, Store!Row

LEMMA ExecutorHoldsLeaseKept ==
  ASSUME IInv, [Next]_vars
  PROVE  ExecutorHoldsLease'
<1> SUFFICES ASSUME NEW v \in Worker, Executing(v)' PROVE HoldsLease(v)'
  BY DEF ExecutorHoldsLease
<1> USE DEF Executing, AtPc
<1>1. CASE Tick
  BY <1>1, TickHolds
<1>2. CASE handler'[v] = handler[v] /\ ~Tick
  BY <1>2, StillHolds
<1>3. CASE Moves(v) /\ handler'[v] # handler[v]
  BY <1>3, GrantedHolds DEF Moves, Executed, Reports, Idle
<1>4. QED
  BY <1>1, <1>2, <1>3, OneMoves

LEMMA IssuedGrows ==
  ASSUME IInv, [Next]_vars
  PROVE  issued \in Nat /\ issued' \in Nat /\ issued <= issued'
<1>1. issued \in Nat
  BY ExecutionAssumption DEF IInv, TypeOK, Store!TypeOK
<1>2. UNCHANGED issued \/ issued' = issued + 1
  BY StoreUse DEF storeVars, WorkerClaims, WorkerCompletes, Tick, Store!Tick,
     Store!ClaimExecution, Store!CompleteExecution
<1>3. QED
  BY <1>1, <1>2

LEMMA TokensExclusiveKept ==
  ASSUME IInv, [Next]_vars
  PROVE  TokensExclusive'
<1> USE DEF OwnsToken, AtPc
<1>1. ASSUME NEW v \in Worker, OwnsToken(v)'
      PROVE  \/ OwnsToken(v) /\ handler'[v].token = handler[v].token
             \/ Granted(v)
  <2>1. CASE Tick
    BY <1>1, <2>1, TickMoves DEF Idle
  <2>2. CASE handler'[v] = handler[v]
    BY <1>1, <2>2
  <2>3. CASE Moves(v)
    BY <1>1, <2>3 DEF Moves, Executed, Reports, Idle
  <2>4. QED
    BY <2>1, <2>2, <2>3, OneMoves
<1>2. ASSUME NEW v \in Worker, Granted(v)
      PROVE  \A w \in Worker : Granted(w) => w = v
  <2>1. WorkerClaims(v) /\ ~Tick /\ handler'[v] # handler[v]
    <3>1. issued' = issued + 1 /\ issued \in Nat
      BY <1>2, GrantedHolds
    <3>2. Tick => issued' = issued
      BY DEF Tick, Store!Tick
    <3>3. QED
      BY <1>2, <3>1, <3>2 DEF Granted, WorkerClaims
  <2>2. ASSUME NEW w \in Worker, Granted(w) PROVE handler'[w] # handler[w]
    BY <2>2 DEF Granted, WorkerClaims
  <2>3. QED
    BY <2>1, <2>2, OneMoves
<1>3. ASSUME NEW v \in Worker, OwnsToken(v)'
      PROVE  handler'[v].token \in 1 .. issued'
  <2>1. CASE Granted(v)
    BY <2>1, GrantedHolds DEF Granted
  <2>2. CASE OwnsToken(v) /\ handler'[v].token = handler[v].token
    BY <2>2, IssuedGrows DEF IInv, TokensExclusive
  <2>3. QED
    BY <1>1, <1>3, <2>1, <2>2
<1>4. ASSUME NEW v \in Worker, OwnsToken(v)', NEW w \in Worker, OwnsToken(w)',
             handler'[w].token = handler'[v].token
      PROVE  v = w
  <2>1. ASSUME NEW x \in Worker, NEW y \in Worker, Granted(x),
               OwnsToken(y), handler'[y].token = handler[y].token
        PROVE  handler'[x].token # handler'[y].token
    <3>1. handler'[x].token = issued + 1 /\ issued \in Nat
      BY <2>1, GrantedHolds DEF Granted
    <3>2. handler'[y].token \in 1 .. issued
      BY <2>1 DEF IInv, TokensExclusive
    <3>3. QED
      BY <3>1, <3>2
  <2>2. CASE Granted(v) \/ Granted(w)
    BY <1>1, <1>2, <1>4, <2>1, <2>2
  <2>3. CASE ~Granted(v) /\ ~Granted(w)
    BY <1>1, <1>4, <2>3 DEF IInv, TokensExclusive
  <2>4. QED
    BY <2>2, <2>3
<1>5. QED
  BY <1>3, <1>4 DEF TokensExclusive

LEMMA ResultsHeldKept ==
  ASSUME IInv, [Next]_vars
  PROVE  ResultsHeld'
<1> DEFINE Held(v) ==
      /\ AtPc(v, "complete") => handler[v].outcome \in Outcome
      /\ Reporting(v) => /\ handler[v].outcome = Recorded(KeyOf(v))
                         /\ executions[KeyOf(v)].state \in Store!Terminal
      /\ AtPc(v, "experience") => handler[v].outcome.state = "COMPLETED"
<1> SUFFICES ASSUME NEW v \in Worker PROVE Held(v)'
  BY DEF ResultsHeld
<1>1. Held(v)
  BY DEF IInv, ResultsHeld
<1>2. ASSUME handler[v] # Idle, handler'[v].pc = handler[v].pc,
             handler'[v].cmd = handler[v].cmd,
             handler'[v].outcome = handler[v].outcome
      PROVE  Held(v)'
  <2>1. KeyOf(v) \in Command /\ KeyOf(v)' = KeyOf(v)
    BY <1>2, NotIdle DEF IInv, KeyOf
  <2>2. Reporting(v) =>
          /\ executions'[KeyOf(v)] = executions[KeyOf(v)]
    BY <1>1, <2>1, FinishedRowsKept
  <2>3. QED
    BY <1>1, <1>2, <2>1, <2>2 DEF Reporting, AtPc, Recorded
<1>3. handler'[v] = Idle => Held(v)'
  BY DEF Idle, Reporting, AtPc
<1>4. CASE Tick
  BY <1>2, <1>3, <1>4, TickMoves
<1>5. CASE handler'[v] = handler[v]
  BY <1>2, <1>3, <1>5
<1>6. CASE Reports(v)
  <2>1. KeyOf(v)' = KeyOf(v) /\ handler'[v].pc # "complete"
    BY <1>6 DEF Reports, KeyOf
  <2>2. QED
    BY <1>6, <2>1 DEF Reports, Reporting, AtPc, Recorded
<1>7. CASE Moves(v) /\ ~Reports(v)
  BY <1>3, <1>5, <1>7 DEF Moves, Granted, Executed, Reporting, AtPc
<1>8. QED
  BY <1>4, <1>5, <1>6, <1>7, OneMoves

(* The replies, and the tasks that got one, under a step. *)
LEMMA RepliesUnder ==
  ASSUME IInv, [Next]_vars
  PROVE  \A r \in replies' : r \in replies
           \/ \E w \in Worker : /\ Reporting(w)
                                /\ r = [key |-> KeyOf(w), outcome |-> handler[w].outcome]
<1>1. UNCHANGED replies \/ replies' \subseteq replies
      \/ \E w \in Worker : PublishResult(w)
  <2>1. CASE UNCHANGED vars
    BY <2>1 DEF vars, outputVars
  <2>2. CASE GatewayStep
    BY <2>2 DEF GatewayStep, Dispatch, DispatchFails, ReceiveReply,
       ResultTimeout, Cancel, GatewayRestart, outputVars
  <2>3. ASSUME NEW w \in Worker, Deliver(w) \/ WorkerStep(w) \/ Failure(w)
        PROVE  UNCHANGED replies \/ PublishResult(w)
    <3>1. Abandon(w) => UNCHANGED replies
      BY DEF Abandon, outputVars
    <3>2. CASE Deliver(w) \/ Failure(w)
      BY <3>1, <3>2 DEF Deliver, Failure, Crash, Disconnect, PublishFails, outputVars
    <3>3. CASE WorkerStep(w)
      BY <3>1, <3>3
      DEF WorkerStep, ClaimStep, CompleteStep, PublishStep, ClaimGranted,
          ClaimReplays, ClaimBusy, ClaimFails, Execute, CompleteRecorded,
          CompleteDuplicate, CompleteFails, PublishUnroutable,
          PublishExperience, Acknowledge, outputVars
    <3>4. QED
      BY <2>3, <3>2, <3>3
  <2>4. CASE Tick
    BY <2>4 DEF Tick, outputVars
  <2>5. QED
    BY <2>1, <2>2, <2>3, <2>4 DEF Next
<1>2. QED
  BY <1>1 DEF PublishResult, Reporting

LEMMA GatewayUnder ==
  ASSUME IInv, [Next]_vars, NEW k \in Command
  PROVE  \/ gateway'[k] = gateway[k]
         \/ /\ gateway[k].phase \in {"new", "waiting"}
            /\ gateway'[k].phase \in {"waiting", "failed", "canceled", "lost"}
         \/ \E r \in replies :
              /\ r.key = k /\ gateway[k].phase = "waiting"
              /\ gateway'[k] = [phase |-> "answered", outcome |-> r.outcome]
<1> USE DEF IInv, TypeOK
<1>1. gateway[k] \in GatewayTask
  OBVIOUS
<1>2. CASE GatewayStep
  <2>1. ASSUME NEW j \in Command,
               Dispatch(j) \/ DispatchFails(j) \/ ResultTimeout(j) \/ Cancel(j)
        PROVE  \/ gateway'[k] = gateway[k]
               \/ /\ gateway[k].phase \in {"new", "waiting"}
                  /\ gateway'[k].phase \in {"waiting", "failed", "canceled", "lost"}
    <3>1. CASE j # k
      BY <2>1, <3>1 DEF Dispatch, DispatchFails, ResultTimeout, Cancel
    <3>2. CASE j = k
      <4>1. PICK p \in {"waiting", "failed", "canceled"} :
              gateway' = [gateway EXCEPT ![k].phase = p]
        BY <2>1, <3>2 DEF Dispatch, DispatchFails, ResultTimeout, Cancel
      <4>2. gateway'[k].phase = p
        BY <1>1, <4>1 DEF GatewayTask
      <4>3. QED
        BY <2>1, <3>2, <4>2 DEF Dispatch, DispatchFails, ResultTimeout, Cancel
    <3>3. QED
      BY <3>1, <3>2
  <2>2. ASSUME NEW r \in replies, ReceiveReply(r)
        PROVE  \/ gateway'[k] = gateway[k]
               \/ /\ r.key = k /\ gateway[k].phase = "waiting"
                  /\ gateway'[k] = [phase |-> "answered", outcome |-> r.outcome]
    BY <2>2 DEF ReceiveReply
  <2>3. CASE GatewayRestart
    BY <1>1, <2>3 DEF GatewayRestart, GatewayTask
  <2>4. QED
    BY <1>2, <2>1, <2>2, <2>3 DEF GatewayStep
<1>3. CASE ~GatewayStep
  <2>1. UNCHANGED gateway
    BY <1>3
    DEF Next, vars, gatewayVars, Deliver, WorkerStep, ClaimStep, CompleteStep,
        PublishStep, Failure, ClaimGranted, ClaimReplays, ClaimBusy, ClaimFails,
        Execute, CompleteRecorded, CompleteDuplicate, CompleteFails,
        PublishResult, PublishUnroutable, PublishExperience, Acknowledge, Crash,
        Disconnect, PublishFails, Abandon, Tick
  <2>2. QED
    BY <2>1
<1>4. QED
  BY <1>2, <1>3

LEMMA AnswersAreRecordedKept ==
  ASSUME IInv, [Next]_vars
  PROVE  AnswersAreRecorded'
<1>1. ASSUME NEW r \in replies
      PROVE  /\ r.key \in Command /\ r.outcome = Recorded(r.key)
             /\ executions[r.key].state \in Store!Terminal
  BY DEF IInv, AnswersAreRecorded, TypeOK, Reply, Outcome, Recorded
<1>2. ASSUME NEW k \in Command, executions[k].state \in Store!Terminal
      PROVE  Recorded(k)' = Recorded(k) /\ executions'[k].state \in Store!Terminal
  BY <1>2, RecordedKept
<1>3. ASSUME NEW r \in replies' PROVE r.outcome = Recorded(r.key)'
  <2>1. CASE r \in replies
    BY <1>1, <1>2, <2>1
  <2>2. ASSUME NEW w \in Worker, Reporting(w),
               r = [key |-> KeyOf(w), outcome |-> handler[w].outcome]
        PROVE  r.outcome = Recorded(r.key)'
    <3>1. r.key \in Command
      BY <2>2, AtPcBusy DEF Reporting, IInv
    <3>2. r.outcome = Recorded(r.key) /\ executions[r.key].state \in Store!Terminal
      BY <2>2 DEF IInv, ResultsHeld
    <3>3. QED
      BY <1>2, <3>1, <3>2
  <2>3. QED
    BY <2>1, <2>2, RepliesUnder
<1>4. ASSUME NEW k \in Command, gateway'[k].phase = "answered"
      PROVE  gateway'[k].outcome = Recorded(k)' /\ executions'[k].state \in Store!Terminal
  <2>1. CASE gateway'[k] = gateway[k]
    BY <1>2, <1>4, <2>1 DEF IInv, AnswersAreRecorded
  <2>2. ASSUME NEW r \in replies, r.key = k,
               gateway'[k] = [phase |-> "answered", outcome |-> r.outcome]
        PROVE  gateway'[k].outcome = Recorded(k)' /\ executions'[k].state \in Store!Terminal
    BY <1>1, <1>2, <2>2
  <2>3. QED
    BY <1>4, <2>1, <2>2, GatewayUnder
<1>5. QED
  BY <1>3, <1>4 DEF AnswersAreRecorded

(* The commands of the queue after a step were there before, returned by a *)
(* worker or dispatched. *)
LEMMA ReturnedCommands ==
  ASSUME IInv, NEW w \in Worker, handler[w] # Idle, ReturnDelivery(w)
  PROVE  \A i \in DOMAIN commands' :
           \/ \E j \in DOMAIN commands : commands'[i].key = commands[j].key
           \/ commands'[i].key = KeyOf(w)
<1> USE DEF IInv
<1>1. handler[w].cmd \in Envelope /\ commands \in Seq(Envelope)
  BY NotIdle DEF TypeOK
<1>2. UNCHANGED commands
      \/ /\ handler[w].cmd.returns < DeliveryLimit
         /\ commands' = <<[handler[w].cmd EXCEPT !.returns = @ + 1]>> \o commands
  BY DEF ReturnDelivery, Requeue, brokerVars
<1> DEFINE c == [handler[w].cmd EXCEPT !.returns = @ + 1]
<1>3. handler[w].cmd.returns < DeliveryLimit => c \in Envelope
  BY <1>1, EnvelopeUpdate
<1>4. c.key = KeyOf(w)
  BY <1>1 DEF Envelope, KeyOf
<1> HIDE DEF c
<1>5. ASSUME c \in Envelope, commands' = <<c>> \o commands, NEW i \in DOMAIN commands'
      PROVE  \/ \E j \in DOMAIN commands : commands'[i].key = commands[j].key
             \/ commands'[i].key = c.key
  <2>1. Len(commands') = 1 + Len(commands) /\ i \in 1 .. Len(commands')
        /\ Len(commands) \in Nat
    BY <1>1, <1>5
  <2>2. CASE i = 1
    BY <1>1, <1>5, <2>2
  <2>3. CASE i # 1
    BY <1>1, <1>5, <2>1, <2>3
  <2>4. QED
    BY <2>2, <2>3
<1>6. QED
  BY <1>2, <1>3, <1>4, <1>5 DEF c

LEMMA CommandsUnder ==
  ASSUME IInv, [Next]_vars
  PROVE  \A i \in DOMAIN commands' :
           \/ \E j \in DOMAIN commands : commands'[i].key = commands[j].key
           \/ \E w \in Worker : handler[w] # Idle /\ commands'[i].key = KeyOf(w)
           \/ gateway'[commands'[i].key].phase # "new"
<1> USE DEF IInv
<1>1. /\ commands \in Seq(Envelope) /\ gateway \in [Command -> GatewayTask]
      /\ \A k \in Command : gateway[k] \in GatewayTask
  BY DEF TypeOK
<1>2. ASSUME NEW w \in Worker, ReturnDelivery(w), handler[w] # Idle,
             NEW i \in DOMAIN commands'
      PROVE  \/ \E j \in DOMAIN commands : commands'[i].key = commands[j].key
             \/ handler[w] # Idle /\ commands'[i].key = KeyOf(w)
  BY <1>2, ReturnedCommands
<1>3. ASSUME NEW w \in Worker, Deliver(w), NEW i \in DOMAIN commands'
      PROVE  \E j \in DOMAIN commands : commands'[i].key = commands[j].key
  <2>1. commands' = Tail(commands) /\ commands # <<>>
    BY <1>3 DEF Deliver
  <2>2. i + 1 \in DOMAIN commands /\ commands'[i] = commands[i + 1]
    BY <1>1, <1>3, <2>1
  <2>3. QED
    BY <2>2
<1>4. ASSUME NEW k \in Command, Dispatch(k) \/ DispatchFails(k),
             NEW i \in DOMAIN commands'
      PROVE  \/ \E j \in DOMAIN commands : commands'[i].key = commands[j].key
             \/ gateway'[commands'[i].key].phase # "new"
  <2> DEFINE c == [key |-> k, replyTo |-> epoch, returns |-> 0]
  <2>1. c.key = k /\ c \in Envelope
    BY ConstantTypes DEF Envelope, TypeOK
  <2>2. gateway'[k].phase # "new"
    BY <1>1, <1>4 DEF Dispatch, DispatchFails, GatewayTask
  <2>3. commands' = commands \/ commands' = Append(commands, c)
    BY <1>4 DEF Dispatch, DispatchFails
  <2> HIDE DEF c
  <2>4. CASE commands' = Append(commands, c)
    <3>1. Len(commands') = Len(commands) + 1 /\ i \in 1 .. Len(commands')
      BY <1>1, <1>4, <2>1, <2>4
    <3>2. CASE i = Len(commands')
      BY <1>1, <2>1, <2>2, <2>4, <3>1, <3>2
    <3>3. CASE i # Len(commands')
      BY <1>1, <2>1, <2>4, <3>1, <3>3
    <3>4. QED
      BY <3>2, <3>3
  <2>5. QED
    BY <2>3, <2>4
<1>5. \/ UNCHANGED commands
      \/ \E w \in Worker : Deliver(w) \/ (ReturnDelivery(w) /\ handler[w] # Idle)
      \/ \E k \in Command : Dispatch(k) \/ DispatchFails(k)
  <2>1. CASE UNCHANGED vars \/ Tick
    BY <2>1 DEF vars, brokerVars, Tick
  <2>2. CASE GatewayStep
    BY <2>2 DEF GatewayStep, ReceiveReply, ResultTimeout, Cancel, GatewayRestart,
       brokerVars
  <2>3. ASSUME NEW w \in Worker, WorkerStep(w) \/ Failure(w)
        PROVE  UNCHANGED commands \/ (ReturnDelivery(w) /\ handler[w] # Idle)
    <3>1. ClaimFails(w) \/ CompleteFails(w) \/ PublishUnroutable(w) \/ Failure(w)
            => ReturnDelivery(w) /\ handler[w] # Idle
      BY DEF ClaimFails, ClaimReady, CompleteFails, PublishUnroutable, Failure,
         Crash, Disconnect, PublishFails, Abandon, AtPc, Idle, DeliveryHasHandler
    <3>2. CASE ClaimStep(w) /\ ~ClaimFails(w)
      BY <3>2 DEF ClaimStep, ClaimGranted, ClaimReplays, ClaimBusy, brokerVars
    <3>3. CASE CompleteStep(w) /\ ~CompleteFails(w)
      BY <3>3 DEF CompleteStep, CompleteRecorded, CompleteDuplicate, brokerVars
    <3>4. CASE PublishStep(w) /\ ~PublishUnroutable(w)
      BY <3>4 DEF PublishStep, PublishResult, PublishExperience, Acknowledge, brokerVars
    <3>5. ASSUME NEW state \in Store!Terminal, Execute(w, state)
          PROVE  UNCHANGED commands
      BY <3>5 DEF Execute, brokerVars
    <3>6. QED
      BY <2>3, <3>1, <3>2, <3>3, <3>4, <3>5 DEF WorkerStep
  <2>4. QED
    BY <2>1, <2>2, <2>3 DEF Next
<1>6. QED
  BY <1>2, <1>3, <1>4, <1>5

(* A command that was submitted is not submitted again. *)
LEMMA StaysSubmitted ==
  ASSUME IInv, [Next]_vars, NEW k \in Command, gateway'[k].phase = "new"
  PROVE  gateway[k].phase = "new"
<1>1. gateway'[k].phase \notin {"waiting", "failed", "canceled", "lost"}
  OBVIOUS
<1>2. \A r \in replies : gateway'[k] # [phase |-> "answered", outcome |-> r.outcome]
  OBVIOUS
<1>3. QED
  BY <1>1, <1>2, GatewayUnder

LEMMA SubmittedFirstKept ==
  ASSUME IInv, [Next]_vars
  PROVE  SubmittedFirst'
<1> SUFFICES ASSUME NEW k \in Command, gateway'[k].phase = "new"
             PROVE  /\ \A i \in DOMAIN commands' : commands'[i].key # k
                    /\ \A w \in Worker : handler'[w] # Idle => handler'[w].cmd.key # k
  BY DEF SubmittedFirst, KeyOf
<1>1. gateway[k].phase = "new"
  BY StaysSubmitted
<1>2. /\ \A i \in DOMAIN commands : commands[i].key # k
      /\ \A w \in Worker : handler[w] # Idle => KeyOf(w) # k
  BY <1>1 DEF IInv, SubmittedFirst
<1>3. ASSUME NEW w \in Worker, handler'[w] # Idle
      PROVE  handler'[w].cmd.key # k
  <2>1. CASE handler[w] # Idle /\ handler'[w].cmd = handler[w].cmd
    BY <1>2, <2>1 DEF KeyOf
  <2>2. CASE commands # <<>> /\ handler'[w].cmd = Head(commands)
    <3>1. 1 \in DOMAIN commands /\ Head(commands) = commands[1]
      BY <2>2 DEF IInv, TypeOK
    <3>2. QED
      BY <1>2, <2>2, <3>1
  <2>3. CASE Tick
    BY <1>3, <2>1, <2>3, TickMoves
  <2>4. CASE Moves(w)
    <3>1. Granted(w) \/ Executed(w) \/ Reports(w)
            => handler[w] # Idle /\ handler'[w].cmd = handler[w].cmd
      BY DEF Granted, Executed, Reports, WorkerClaims, AtPc, Idle
    <3>2. QED
      BY <1>3, <2>1, <2>2, <2>4, <3>1 DEF Moves
  <2>5. CASE handler'[w] = handler[w]
    BY <1>3, <2>1, <2>5
  <2>6. QED
    BY <2>3, <2>4, <2>5, OneMoves
<1>4. QED
  BY <1>2, <1>3, CommandsUnder

LEMMA DeliveryHasHandlerKept ==
  ASSUME IInv, [Next]_vars
  PROVE  DeliveryHasHandler'
<1> USE DEF IInv
<1>1. UNCHANGED unacked \/ unacked' = NoWorker \/ handler'[unacked'] # Idle
  <2>1. CASE UNCHANGED vars \/ GatewayStep \/ Tick
    BY <2>1 DEF vars, brokerVars, GatewayStep, Dispatch, DispatchFails,
       ReceiveReply, ResultTimeout, Cancel, GatewayRestart, Tick
  <2>2. ASSUME NEW w \in Worker, Deliver(w)
        PROVE  handler'[unacked'] # Idle
    BY <2>2 DEF Deliver, Idle, TypeOK
  <2>3. ASSUME NEW w \in Worker, WorkerStep(w) \/ Failure(w)
        PROVE  UNCHANGED unacked \/ unacked' = NoWorker
    <3>1. ReturnDelivery(w) => UNCHANGED unacked \/ unacked' = NoWorker
      BY DEF ReturnDelivery, brokerVars
    <3>2. CASE Failure(w) \/ ClaimStep(w)
      BY <3>1, <3>2 DEF Failure, Crash, Disconnect, PublishFails, Abandon,
         ClaimStep, ClaimGranted, ClaimReplays, ClaimBusy, ClaimFails, brokerVars
    <3>3. CASE CompleteStep(w) \/ PublishStep(w)
      BY <3>1, <3>3 DEF CompleteStep, PublishStep, CompleteRecorded,
         CompleteDuplicate, CompleteFails, PublishResult, PublishUnroutable,
         PublishExperience, Acknowledge, Abandon, brokerVars
    <3>4. ASSUME NEW state \in Store!Terminal, Execute(w, state)
          PROVE  UNCHANGED unacked
      BY <3>4 DEF Execute, brokerVars
    <3>5. QED
      BY <2>3, <3>2, <3>3, <3>4 DEF WorkerStep
  <2>4. QED
    BY <2>1, <2>2, <2>3 DEF Next
<1>2. ASSUME unacked \in Worker, UNCHANGED unacked
      PROVE  handler'[unacked] # Idle
  <2>1. handler[unacked] # Idle
    BY <1>2 DEF DeliveryHasHandler
  <2>2. CASE Moves(unacked)
    BY <1>2, <2>1, <2>2 DEF Moves, Granted, Executed, Reports, Idle
  <2>3. CASE handler'[unacked] = handler[unacked]
    BY <2>1, <2>3
  <2>4. CASE Tick
    <3>1. handler'[unacked].pc = handler[unacked].pc /\ handler[unacked] \in Handler
      BY <1>2, <2>1, <2>4, TickMoves
    <3>2. QED
      BY <3>1 DEF Idle, Handler
  <2>5. QED
    BY <1>2, <2>2, <2>3, <2>4, OneMoves
<1>3. QED
  BY <1>1, <1>2, ExecutionAssumption DEF DeliveryHasHandler

-----------------------------------------------------------------------------
(* The invariant and what follows from it. *)

LEMMA InitIInv == Init => IInv
<1> SUFFICES ASSUME Init PROVE IInv
  OBVIOUS
<1>1. Store!IInv
  <2>1. StoreProofs!Init
    BY SameTypes DEF Init, Store!Init, StoreProofs!Init
  <2>2. QED
    BY <2>1, StoreProofs!InitIInv, StoreAssumptionHolds, SameInvariant
<1>2. OwnTypes
  <2>1. [phase |-> "new", outcome |-> NoOutcome] \in GatewayTask
    BY DEF GatewayTask
  <2>2. commands \in Seq(Envelope)
    BY DEF Init
  <2>3. epoch \in 0 .. MaxRestarts
    BY ExecutionAssumption DEF Init
  <2>4. QED
    BY <2>1, <2>2, <2>3 DEF Init, OwnTypes
<1>3. TypeOK
  BY <1>1, <1>2 DEF TypeOK, OwnTypes, Store!IInv
<1>4. \A w \in Worker : handler[w] = Idle /\ handler[w].pc = "idle"
  BY DEF Init, Idle
<1>5. TokensExclusive /\ ExecutorHoldsLease /\ ResultsHeld
  BY <1>4 DEF TokensExclusive, ExecutorHoldsLease, ResultsHeld, OwnsToken,
     Executing, Reporting, AtPc
<1>6. AnswersAreRecorded /\ SubmittedFirst /\ DeliveryHasHandler
  <2>1. \A k \in Command : gateway[k].phase # "answered"
    BY DEF Init
  <2>2. replies = {} /\ commands = <<>> /\ unacked \notin Worker
    BY ExecutionAssumption DEF Init
  <2>3. QED
    BY <1>4, <2>1, <2>2 DEF AnswersAreRecorded, SubmittedFirst, DeliveryHasHandler
<1>7. QED
  BY <1>1, <1>3, <1>5, <1>6 DEF IInv

LEMMA NextIInv == IInv /\ [Next]_vars => IInv'
BY TypesKept, StoreInvariantKept, TokensExclusiveKept, ExecutorHoldsLeaseKept,
   ResultsHeldKept, AnswersAreRecordedKept, SubmittedFirstKept,
   DeliveryHasHandlerKept
DEF IInv

(* Every part of IInv holds in every state the system can reach.           *)
THEOREM ExecutionInvariant == Spec => []IInv
<1>1. Init => IInv
  BY InitIInv
<1>2. IInv /\ [Next]_vars => IInv'
  BY NextIInv
<1>3. QED
  BY <1>1, <1>2, PTL DEF Spec

(* The variables keep their types.                                         *)
THEOREM TypeCorrect == Spec => []TypeOK
<1>1. IInv => TypeOK
  BY DEF IInv
<1>2. QED
  BY <1>1, ExecutionInvariant, PTL

(* At every moment of an agent call the row of the task is the caller's:   *)
(* its claim is the last one, its lease outlasts the call, and no result   *)
(* has been recorded.                                                      *)
THEOREM ExecutorsHoldLeases == Spec => []ExecutorHoldsLease
<1>1. IInv => ExecutorHoldsLease
  BY DEF IInv
<1>2. QED
  BY <1>1, ExecutionInvariant, PTL

(* However commands are redelivered and connections lost, the agent works  *)
(* on a task for one worker at a time: two executors of one task would     *)
(* hold the same lease under different tokens.                             *)
THEOREM ExecutionsDoNotOverlap == Spec => []NoOverlappingExecution
<1>1. IInv => NoOverlappingExecution
  BY DEF IInv, NoOverlappingExecution, ExecutorHoldsLease, HoldsLease,
         TokensExclusive, OwnsToken, Executing
<1>2. QED
  BY <1>1, ExecutionInvariant, PTL

(* Whichever execution a result came from, what the Gateway gets and shows *)
(* is the outcome the Registry recorded.                                   *)
THEOREM AnswersComeFromTheRecord == Spec => []AnswersAreRecorded
<1>1. IInv => AnswersAreRecorded
  BY DEF IInv
<1>2. QED
  BY <1>1, ExecutionInvariant, PTL

-----------------------------------------------------------------------------
(* What the store promises its clients holds with Gateway, broker and      *)
(* workers as the clients.                                                 *)

LEMMA StorePromisesKept ==
  ASSUME IInv, [Next]_vars
  PROVE  [Store!KeepsResults /\ Store!KeepsLeases]_(Store!vars)
<1>1. StoreProofs!IInv
  BY SameInvariant DEF IInv
<1>2. [StoreProofs!KeepsResults /\ StoreProofs!KeepsLeases]_(StoreProofs!vars)
  BY <1>1, StoreStep, StoreProofs!NextKeeps, StoreAssumptionHolds
<1>3. StoreProofs!KeepsResults => Store!KeepsResults
  BY SameTypes DEF StoreProofs!KeepsResults, Store!KeepsResults
<1>4. StoreProofs!KeepsLeases => Store!KeepsLeases
  BY SameTypes DEF StoreProofs!KeepsLeases, Store!KeepsLeases
<1>5. StoreProofs!vars = Store!vars /\ StoreProofs!vars' = Store!vars'
  BY DEF StoreProofs!vars, Store!vars
<1>6. QED
  BY <1>2, <1>3, <1>4, <1>5

(* Whatever is redelivered, cut off or answered late, the result that was  *)
(* recorded for a command is never replaced.                               *)
THEOREM ResultsStay == Spec => Store!ResultImmutable
<1>1. IInv /\ [Next]_vars => [Store!KeepsResults]_(Store!vars)
  BY StorePromisesKept
<1>2. QED
  BY <1>1, ExecutionInvariant, PTL DEF Spec, Store!ResultImmutable

(* Nor is the lease of a worker taken over before it has run out.          *)
THEOREM LeasesStay == Spec => Store!LeaseHonoured
<1>1. IInv /\ [Next]_vars => [Store!KeepsLeases]_(Store!vars)
  BY StorePromisesKept
<1>2. QED
  BY <1>1, ExecutionInvariant, PTL DEF Spec, Store!LeaseHonoured

-----------------------------------------------------------------------------
(* TaskExecution implements TaskOutcome. *)

LEMMA SamePromiseTypes ==
  /\ Promise!Command = Command
  /\ Promise!Outcome = Outcome
  /\ Promise!NoOutcome = NoOutcome
BY DEF Promise!Command, Command, Promise!Outcome, Outcome, Store!Terminal,
   Promise!NoOutcome, NoOutcome

(* A step that records no completion leaves the outcomes as they are. *)
LEMMA OutcomesKept ==
  ASSUME IInv, [Next]_vars, Tick \/ ~ \E w \in Worker : WorkerCompletes(w)
  PROVE  PromisedOutcome' = PromisedOutcome
<1> SUFFICES ASSUME NEW k \in Command
             PROVE  /\ executions'[k].state \in Store!Terminal <=>
                         executions[k].state \in Store!Terminal
                    /\ executions[k].state \in Store!Terminal =>
                         executions'[k] = executions[k]
  BY DEF PromisedOutcome, Recorded
<1>1. executions[k].state \in Store!Terminal => executions'[k] = executions[k]
  BY FinishedRowsKept
<1>2. ASSUME executions'[k].state \in Store!Terminal
      PROVE  executions[k].state \in Store!Terminal
  <2> USE SameTypes DEF IInv, TypeOK, Store!TypeOK
  <2>1. CASE UNCHANGED storeVars
    BY <1>2, <2>1 DEF storeVars
  <2>2. ASSUME NEW w \in Worker, WorkerClaims(w)
        PROVE  executions[k].state \in Store!Terminal
    <3>1. KeyOf(w) \in Command
      BY <2>2, AtPcBusy DEF WorkerClaims
    <3>2. executions'[k] = executions[k] \/ executions'[k].state = "RUNNING"
      BY <2>2, <3>1 DEF WorkerClaims, Store!ClaimExecution, Store!Claimed
    <3>3. QED
      BY <1>2, <3>2 DEF Store!Terminal
  <2>3. CASE Tick
    <3> DEFINE left == IF executions[k].lease > 0 THEN executions[k].lease - 1 ELSE 0
    <3>1. executions'[k] = [executions[k] EXCEPT !.lease = left]
      BY <2>3, Zenon DEF Tick, Store!Tick, Store!Aged
    <3> HIDE DEF left
    <3>2. executions[k] \in Store!ExecutionRow
      OBVIOUS
    <3>3. QED
      BY <1>2, <3>1, <3>2 DEF Store!ExecutionRow, Store!Row
  <2>4. QED
    BY <2>1, <2>2, <2>3, StoreUse
<1>3. QED
  BY <1>1, <1>2

LEMMA CompletionRecords ==
  ASSUME IInv, NEW w \in Worker, WorkerCompletes(w), UNCHANGED <<gateway, requested>>
  PROVE  Promise!Record(KeyOf(w))
<1> USE DEF IInv
<1>1. AtPc(w, "complete") /\ KeyOf(w) \in Command /\ handler[w] # Idle
  BY AtPcBusy DEF WorkerCompletes, AtPc, Idle
<1>2. handler[w].outcome \in Outcome
  BY <1>1 DEF ResultsHeld
<1> DEFINE k == KeyOf(w)
           o == handler[w].outcome
<1>3. o = [state |-> o.state, text |-> o.text]
      /\ o.state \in Store!Terminal /\ o.text \in Token
  BY <1>2 DEF Outcome
<1>4. /\ executions'[k].state = o.state /\ executions'[k].text = o.text
      /\ \A j \in Command : j # k => executions'[j] = executions[j]
  BY <1>1, <1>3, CompletedRow DEF WorkerCompletes
<1>5. PromisedOutcome[k] = NoOutcome /\ k \in Command
  BY <1>1 DEF PromisedOutcome, WorkerCompletes, Store!CompleteExecution,
     Store!MayComplete, Store!Terminal
<1>6. PromisedOutcome' = [PromisedOutcome EXCEPT ![k] = o]
  BY <1>1, <1>3, <1>4 DEF PromisedOutcome, Recorded
<1>7. gateway[k].phase # "new"
  BY <1>1 DEF SubmittedFirst
<1>8. QED
  BY <1>2, <1>5, <1>6, <1>7, SamePromiseTypes DEF Promise!Record

LEMMA GatewayFulfils ==
  ASSUME IInv, GatewayStep
  PROVE  [Promise!Next]_(Promise!vars)
<1> USE SamePromiseTypes DEF IInv, TypeOK
<1>1. UNCHANGED <<PromisedOutcome, requested>>
  BY DEF PromisedOutcome, Recorded, GatewayStep, Dispatch, DispatchFails,
     ReceiveReply, ResultTimeout, Cancel, GatewayRestart, outputVars, storeVars
<1>2. ASSUME NEW k \in Command,
             Dispatch(k) \/ DispatchFails(k) \/ ResultTimeout(k) \/ Cancel(k)
      PROVE  Promise!Next
  <2>1. Dispatch(k) => Promise!Submit(k)
    BY <1>1 DEF Dispatch, Promise!Submit
  <2>2. DispatchFails(k) \/ ResultTimeout(k) \/ Cancel(k) => Promise!GiveUp(k)
    BY <1>1 DEF DispatchFails, ResultTimeout, Cancel, Promise!GiveUp
  <2>3. QED
    BY <1>2, <2>1, <2>2 DEF Promise!Next
<1>3. ASSUME NEW r \in replies, ReceiveReply(r)
      PROVE  Promise!Next \/ UNCHANGED Promise!vars
  <2>1. r.key \in Command /\ r.outcome \in Outcome /\ r.outcome = Recorded(r.key)
    BY DEF AnswersAreRecorded, Reply
  <2>2. CASE gateway[r.key].phase = "waiting"
    <3>1. PromisedOutcome[r.key] = r.outcome /\ r.outcome # NoOutcome
      BY <2>1 DEF PromisedOutcome, Recorded, Outcome, NoOutcome, Store!Terminal
    <3>2. gateway' = [gateway EXCEPT ![r.key] =
                        [phase |-> "answered", outcome |-> r.outcome]]
      BY <1>3, <2>2, Zenon DEF ReceiveReply
    <3>3. Promise!Answer(r.key)
      BY <1>1, <2>2, <3>1, <3>2 DEF Promise!Answer
    <3>4. QED
      BY <2>1, <3>3 DEF Promise!Next
  <2>3. CASE gateway[r.key].phase # "waiting"
    <3>1. UNCHANGED gateway
      BY <1>3, <2>1, <2>3 DEF ReceiveReply
    <3>2. QED
      BY <1>1, <3>1 DEF Promise!vars
  <2>4. QED
    BY <2>2, <2>3
<1>4. GatewayRestart => Promise!Stop
  BY <1>1 DEF GatewayRestart, Promise!Stop
<1>5. QED
  BY <1>2, <1>3, <1>4 DEF GatewayStep, Promise!Next

LEMMA WorkerFulfils ==
  ASSUME IInv, [Next]_vars, NEW w \in Worker, Deliver(w) \/ WorkerStep(w) \/ Failure(w)
  PROVE  [Promise!Next]_(Promise!vars)
<1> USE SamePromiseTypes DEF IInv
<1>1. CASE PublishExperience(w)
  <2>1. /\ KeyOf(w) \in Command
        /\ executions[KeyOf(w)].state = "COMPLETED"
    <3>1. AtPc(w, "experience") /\ Reporting(w)
      BY <1>1 DEF PublishExperience, Reporting
    <3>2. handler[w].outcome.state = executions[KeyOf(w)].state
      <4>1. handler[w].outcome = Recorded(KeyOf(w))
        BY <3>1 DEF ResultsHeld
      <4>2. QED
        BY <4>1 DEF Recorded
    <3>3. KeyOf(w) \in Command
      BY <3>1, AtPcBusy
    <3>4. handler[w].outcome.state = "COMPLETED"
      BY <3>1 DEF ResultsHeld
    <3>5. QED
      BY <3>2, <3>3, <3>4
  <2>2. PromisedOutcome[KeyOf(w)].state = "COMPLETED"
    BY <2>1 DEF PromisedOutcome, Recorded, Store!Terminal
  <2>3. UNCHANGED <<PromisedOutcome, gateway>>
    BY <1>1 DEF PublishExperience, PromisedOutcome, Recorded, storeVars, gatewayVars
  <2>4. Promise!AskExperience(KeyOf(w))
    BY <1>1, <2>2, <2>3 DEF PublishExperience, Promise!AskExperience
  <2>5. QED
    BY <2>1, <2>4 DEF Promise!Next
<1>2. CASE ~PublishExperience(w)
  <2>1. UNCHANGED <<gateway, requested>>
    <3>1. CASE Deliver(w) \/ Failure(w)
      BY <3>1 DEF Deliver, Failure, Crash, Disconnect, PublishFails, Abandon,
         outputVars, gatewayVars
    <3>2. CASE ClaimStep(w) \/ CompleteStep(w)
      BY <3>2 DEF ClaimStep, CompleteStep, ClaimGranted, ClaimReplays, ClaimBusy,
         ClaimFails, CompleteRecorded, CompleteDuplicate, CompleteFails, Abandon,
         outputVars, gatewayVars
    <3>3. CASE PublishStep(w)
      BY <1>2, <3>3 DEF PublishStep, PublishResult, PublishUnroutable, Acknowledge,
         Abandon, outputVars, gatewayVars
    <3>4. ASSUME NEW state \in Store!Terminal, Execute(w, state)
          PROVE  UNCHANGED <<gateway, requested>>
      BY <3>4 DEF Execute, outputVars, gatewayVars
    <3>5. QED
      BY <3>1, <3>2, <3>3, <3>4 DEF WorkerStep
  <2>2. ASSUME NEW v \in Worker, WorkerCompletes(v)
        PROVE  Promise!Next
    <3>1. KeyOf(v) \in Command
      BY <2>2, AtPcBusy DEF WorkerCompletes
    <3>2. QED
      BY <2>1, <2>2, <3>1, CompletionRecords DEF Promise!Next
  <2>3. CASE ~ \E v \in Worker : WorkerCompletes(v)
    BY <2>1, <2>3, OutcomesKept DEF Promise!vars
  <2>4. QED
    BY <2>2, <2>3
<1>3. QED
  BY <1>1, <1>2

(* Whatever is lost, redelivered or cut off, the clients of the Gateway    *)
(* see what TaskOutcome promises them: one outcome per task, recorded once *)
(* and for all, and answers that agree with it.                            *)
THEOREM KeepsThePromise == Spec => PromiseSpec
<1>1. Init => Promise!Init
  BY SamePromiseTypes, SameTypes
  DEF Init, Promise!Init, PromisedOutcome, Store!Init, Store!NoRow, Store!Terminal
<1>2. IInv /\ [Next]_vars => [Promise!Next]_(Promise!vars)
  <2> SUFFICES ASSUME IInv, [Next]_vars PROVE [Promise!Next]_(Promise!vars)
    OBVIOUS
  <2>1. CASE UNCHANGED vars
    BY <2>1 DEF vars, storeVars, outputVars, gatewayVars, Promise!vars,
       PromisedOutcome, Recorded
  <2>2. CASE Tick
    <3>1. UNCHANGED <<gateway, requested>>
      BY <2>2 DEF Tick, outputVars, gatewayVars
    <3>2. QED
      BY <2>2, <3>1, OutcomesKept DEF Promise!vars
  <2>3. QED
    BY <2>1, <2>2, GatewayFulfils, WorkerFulfils DEF Next
<1>3. QED
  BY <1>1, <1>2, ExecutionInvariant, PTL DEF Spec, PromiseSpec, Promise!Spec
-----------------------------------------------------------------------------
(* Nothing is lost: what a step makes of the queue and of the delivery. *)

(* The Gateway submits a command once. *)
Submitted(k) == k \in Command /\ gateway[k].phase = "new" /\ gateway'[k].phase # "new"

LEMMA QueueUnder ==
  ASSUME IInv, [Next]_vars
  PROVE  \/ /\ UNCHANGED <<unacked, dead>>
            /\ \/ UNCHANGED commands
               \/ \E c \in Envelope : Submitted(c.key) /\ commands' = Append(commands, c)
         \/ \E w \in Worker : Deliver(w)
         \/ \E w \in Worker : handler[w] # Idle /\ unacked = w /\ ReturnDelivery(w)
         \/ \E w \in Worker : Acknowledge(w)
<1> USE DEF IInv
<1>1. CASE UNCHANGED vars \/ Tick
  BY <1>1 DEF vars, brokerVars, Tick
<1>2. CASE GatewayStep
  <2>1. ASSUME NEW k \in Command, Dispatch(k) \/ DispatchFails(k)
        PROVE  /\ UNCHANGED <<unacked, dead>>
               /\ \/ UNCHANGED commands
                  \/ \E c \in Envelope : Submitted(c.key) /\ commands' = Append(commands, c)
    <3> DEFINE c == [key |-> k, replyTo |-> epoch, returns |-> 0]
    <3>1. c \in Envelope /\ c.key = k
      BY ConstantTypes DEF Envelope, TypeOK
    <3>2. gateway[k] \in GatewayTask
      BY DEF TypeOK
    <3>3. Submitted(k)
      BY <2>1, <3>2 DEF Dispatch, DispatchFails, Submitted, GatewayTask, TypeOK
    <3>4. /\ UNCHANGED <<unacked, dead>>
          /\ UNCHANGED commands \/ commands' = Append(commands, c)
      BY <2>1 DEF Dispatch, DispatchFails
    <3>5. QED
      BY <3>1, <3>3, <3>4
  <2>2. QED
    BY <1>2, <2>1 DEF GatewayStep, ReceiveReply, ResultTimeout, Cancel, GatewayRestart,
       brokerVars
<1>3. ASSUME NEW w \in Worker, WorkerStep(w) \/ Failure(w)
      PROVE  \/ UNCHANGED brokerVars
             \/ handler[w] # Idle /\ unacked = w /\ ReturnDelivery(w)
             \/ Acknowledge(w)
  <2>1. ClaimFails(w) \/ CompleteFails(w) \/ PublishUnroutable(w) \/ Failure(w)
          => ReturnDelivery(w) /\ handler[w] # Idle
    BY DEF ClaimFails, ClaimReady, CompleteFails, PublishUnroutable, Failure,
       Crash, Disconnect, PublishFails, Abandon, AtPc, Idle, DeliveryHasHandler
  <2>2. ReturnDelivery(w) /\ unacked # w => UNCHANGED brokerVars
    BY DEF ReturnDelivery
  <2>3. CASE ClaimStep(w) /\ ~ClaimFails(w)
    BY <2>3 DEF ClaimStep, ClaimGranted, ClaimReplays, ClaimBusy
  <2>4. CASE CompleteStep(w) /\ ~CompleteFails(w)
    BY <2>4 DEF CompleteStep, CompleteRecorded, CompleteDuplicate
  <2>5. CASE PublishStep(w) /\ ~PublishUnroutable(w)
    BY <2>5 DEF PublishStep, PublishResult, PublishExperience
  <2>6. ASSUME NEW state \in Store!Terminal, Execute(w, state)
        PROVE  UNCHANGED brokerVars
    BY <2>6 DEF Execute
  <2>7. QED
    BY <1>3, <2>1, <2>2, <2>3, <2>4, <2>5, <2>6 DEF WorkerStep
<1>4. QED
  BY <1>1, <1>2, <1>3 DEF Next, brokerVars

(* Results and requests are never taken back; each is made by a handler    *)
(* that is at the point of making it.                                      *)
LEMMA PublicationsUnder ==
  ASSUME IInv, [Next]_vars
  PROVE  \/ UNCHANGED <<answered, requested>>
         \/ \E w \in Worker : PublishResult(w) \/ PublishExperience(w)
<1>1. CASE UNCHANGED vars \/ Tick
  BY <1>1 DEF vars, outputVars, Tick
<1>2. CASE GatewayStep
  BY <1>2 DEF GatewayStep, Dispatch, DispatchFails, ReceiveReply, ResultTimeout, Cancel,
     GatewayRestart, outputVars
<1>3. ASSUME NEW w \in Worker, Deliver(w) \/ WorkerStep(w) \/ Failure(w),
             ~PublishResult(w), ~PublishExperience(w)
      PROVE  UNCHANGED <<answered, requested>>
  <2>1. Abandon(w) => UNCHANGED <<answered, requested>>
    BY DEF Abandon, outputVars
  <2>2. CASE Deliver(w) \/ Failure(w)
    BY <2>1, <2>2 DEF Deliver, Failure, Crash, Disconnect, PublishFails, outputVars
  <2>3. CASE WorkerStep(w)
    BY <1>3, <2>1, <2>3
    DEF WorkerStep, ClaimStep, CompleteStep, PublishStep, ClaimGranted, ClaimReplays,
        ClaimBusy, ClaimFails, Execute, CompleteRecorded, CompleteDuplicate,
        CompleteFails, PublishUnroutable, Acknowledge, outputVars
  <2>4. QED
    BY <1>3, <2>2, <2>3
<1>4. QED
  BY <1>1, <1>2, <1>3 DEF Next

LEMMA PublicationsKept ==
  ASSUME IInv, [Next]_vars
  PROVE  answered \subseteq answered' /\ requested \subseteq requested'
BY PublicationsUnder DEF PublishResult, PublishExperience

(* Work that is done stays done. *)
LEMMA DoneKept ==
  ASSUME IInv, [Next]_vars, NEW k \in Command, Done(k)
  PROVE  Done(k)'
<1>1. executions'[k] = executions[k]
  BY FinishedRowsKept DEF Done
<1>2. QED
  BY <1>1, PublicationsKept DEF Done

(* How a handler comes to have published what it owes. *)
LEMMA ReportingUnder ==
  ASSUME IInv, [Next]_vars, NEW w \in Worker, AtPc(w, "experience")' \/ AtPc(w, "ack")'
  PROVE  \/ /\ handler[w] # Idle /\ handler'[w].pc = handler[w].pc
            /\ handler'[w].cmd = handler[w].cmd
         \/ PublishResult(w) /\ handler' = [handler EXCEPT ![w].pc = AfterPublish(w)]
         \/ PublishExperience(w) /\ handler' = [handler EXCEPT ![w].pc = "ack"]
<1> USE DEF IInv, AtPc
<1>1. handler'[w].pc \in {"experience", "ack"} /\ handler'[w] # Idle
  BY DEF Idle
<1>2. handler \in [Worker -> Handler \cup {Idle}]
  BY DEF TypeOK
<1>3. CASE handler'[w] = handler[w]
  BY <1>1, <1>3
<1>4. CASE Tick
  BY <1>1, <1>4, TickMoves
<1>5. ASSUME NEW v \in Worker, Deliver(v) \/ WorkerStep(v) \/ Failure(v), v # w
      PROVE  handler'[w] = handler[w]
  BY <1>5, WorkerMoves
<1>6. CASE Deliver(w) \/ Failure(w)
  <2>1. Deliver(w) => handler'[w].pc = "claim"
    BY <1>2 DEF Deliver
  <2>2. Failure(w) => handler'[w] = handler[w] \/ handler'[w] = Idle
    BY <1>2 DEF Failure, Crash, Disconnect, PublishFails, Abandon
  <2>3. QED
    BY <1>1, <1>3, <1>6, <2>1, <2>2
<1>7. CASE WorkerStep(w)
  <2> USE <1>1, <1>2
  <2>0. handler[w] # Idle => handler[w] \in Handler
    BY DEF TypeOK
  <2>1. CASE ClaimStep(w)
    <3>1. AtPc(w, "claim") /\ handler[w] \in Handler
      BY <2>0, <2>1 DEF ClaimStep, ClaimGranted, ClaimReplays, ClaimBusy, ClaimFails,
         ClaimReady, Idle
    <3>2. handler'[w] = Idle \/ handler'[w].pc \in {"claim", "execute", "publish"}
      BY <2>1, <3>1 DEF ClaimStep, ClaimGranted, ClaimReplays, ClaimBusy, ClaimFails,
         Abandon, Handler
    <3>3. QED
      BY <3>2
  <2>2. CASE \E state \in Store!Terminal : Execute(w, state)
    <3>1. handler[w] \in Handler
      BY <2>0, <2>2 DEF Execute, Idle
    <3>2. handler'[w].pc = "complete"
      BY <2>2, <3>1 DEF Execute, Handler
    <3>3. QED
      BY <3>2
  <2>3. CASE CompleteStep(w)
    <3>1. handler[w] \in Handler
      BY <2>0, <2>3 DEF CompleteStep, CompleteRecorded, CompleteDuplicate, CompleteFails, Idle
    <3>2. handler'[w] = Idle \/ handler'[w].pc = "publish"
      BY <2>3, <3>1 DEF CompleteStep, CompleteRecorded, CompleteDuplicate, CompleteFails,
         Abandon, Handler
    <3>3. QED
      BY <3>2
  <2>4. CASE PublishStep(w)
    <3>1. ~PublishUnroutable(w) /\ ~Acknowledge(w)
      BY DEF PublishUnroutable, Abandon, Acknowledge
    <3>2. QED
      BY <2>4, <3>1 DEF PublishStep, PublishResult, PublishExperience
  <2>5. QED
    BY <1>7, <2>1, <2>2, <2>3, <2>4 DEF WorkerStep
<1>8. CASE UNCHANGED vars \/ GatewayStep
  BY <1>3, <1>8 DEF vars, GatewayStep, Dispatch, DispatchFails, ReceiveReply,
     ResultTimeout, Cancel, GatewayRestart
<1>9. QED
  BY <1>3, <1>4, <1>5, <1>6, <1>7, <1>8 DEF Next

LEMMA PublishedInOrderKept ==
  ASSUME IInv, PublishedInOrder, [Next]_vars
  PROVE  PublishedInOrder'
<1> SUFFICES ASSUME NEW w \in Worker
             PROVE  /\ AtPc(w, "experience")' => KeyOf(w)' \in answered'
                    /\ AtPc(w, "ack")' => Done(KeyOf(w))'
  BY DEF PublishedInOrder
<1> USE DEF IInv
<1> SUFFICES ASSUME AtPc(w, "experience")' \/ AtPc(w, "ack")'
             PROVE  /\ AtPc(w, "experience")' => KeyOf(w)' \in answered'
                    /\ AtPc(w, "ack")' => Done(KeyOf(w))'
  OBVIOUS
<1>1. CASE handler[w] # Idle /\ handler'[w].pc = handler[w].pc /\ handler'[w].cmd = handler[w].cmd
  <2>1. KeyOf(w) \in Command /\ KeyOf(w)' = KeyOf(w)
    BY <1>1, NotIdle DEF KeyOf
  <2>2. AtPc(w, "experience")' => KeyOf(w) \in answered'
    BY <1>1, PublicationsKept DEF PublishedInOrder, AtPc
  <2>3. ASSUME AtPc(w, "ack")' PROVE Done(KeyOf(w))'
    <3>1. Done(KeyOf(w))
      BY <1>1, <2>3 DEF PublishedInOrder, AtPc
    <3>2. executions'[KeyOf(w)] = executions[KeyOf(w)]
      BY <2>1, <3>1, FinishedRowsKept DEF Done
    <3>3. QED
      BY <2>1, <3>1, <3>2, PublicationsKept DEF Done
  <2>4. QED
    BY <2>1, <2>2, <2>3
<1>2. CASE PublishResult(w) \/ PublishExperience(w)
  <2>1. /\ Reporting(w) /\ handler[w] \in Handler /\ KeyOf(w) \in Command
        /\ handler \in [Worker -> Handler \cup {Idle}]
    BY <1>2, AtPcBusy DEF PublishResult, PublishExperience, Reporting, TypeOK
  <2>2. /\ handler[w].outcome = Recorded(KeyOf(w))
        /\ executions[KeyOf(w)].state \in Store!Terminal
        /\ AtPc(w, "experience") => handler[w].outcome.state = "COMPLETED"
    BY <2>1 DEF ResultsHeld
  <2>3. executions'[KeyOf(w)] = executions[KeyOf(w)]
    BY <2>1, <2>2, FinishedRowsKept
  <2>4. CASE PublishResult(w)
    <3>1. handler'[w] = [handler[w] EXCEPT !.pc = AfterPublish(w)]
      BY <2>1, <2>4 DEF PublishResult
    <3>2. handler'[w].pc = AfterPublish(w) /\ KeyOf(w)' = KeyOf(w)
      BY <2>1, <3>1 DEF Handler, KeyOf
    <3>3. KeyOf(w) \in answered'
      BY <2>4 DEF PublishResult
    <3>4. AtPc(w, "ack")' => ~(ExperienceEnabled /\ executions[KeyOf(w)].state = "COMPLETED")
      BY <2>2, <3>2 DEF AtPc, AfterPublish, Recorded
    <3>5. QED
      BY <2>2, <2>3, <3>2, <3>3, <3>4 DEF Done
  <2>5. CASE PublishExperience(w)
    <3>1. handler'[w] = [handler[w] EXCEPT !.pc = "ack"]
      BY <2>1, <2>5 DEF PublishExperience
    <3>2. handler'[w].pc = "ack" /\ KeyOf(w)' = KeyOf(w)
      BY <2>1, <3>1 DEF Handler, KeyOf
    <3>3. KeyOf(w) \in answered' /\ KeyOf(w) \in requested'
      BY <2>5, PublicationsKept DEF PublishExperience, PublishedInOrder
    <3>4. QED
      BY <2>2, <2>3, <3>2, <3>3 DEF Done, AtPc
  <2>6. QED
    BY <1>2, <2>4, <2>5
<1>3. QED
  BY <1>1, <1>2, ReportingUnder

LEMMA ExperienceAfterAnswerKept ==
  ASSUME IInv, PublishedInOrder, ExperienceAfterAnswer, [Next]_vars
  PROVE  ExperienceAfterAnswer'
<1> SUFFICES ASSUME NEW k \in requested'
             PROVE  k \in answered' /\ executions'[k].state = "COMPLETED"
  BY DEF ExperienceAfterAnswer
<1> USE DEF IInv
<1>1. k \in Command /\ k \in answered /\ executions[k].state = "COMPLETED"
  <2>1. CASE k \in requested
    BY <2>1 DEF ExperienceAfterAnswer, TypeOK
  <2>2. CASE k \notin requested
    <3>1. PICK w \in Worker : PublishExperience(w) /\ k = KeyOf(w)
      BY <2>2, PublicationsUnder DEF PublishResult, PublishExperience
    <3>2. AtPc(w, "experience") /\ Reporting(w) /\ KeyOf(w) \in Command
      BY <3>1, AtPcBusy DEF PublishExperience, Reporting
    <3>3. handler[w].outcome = Recorded(KeyOf(w)) /\ handler[w].outcome.state = "COMPLETED"
      BY <3>2 DEF ResultsHeld
    <3>4. QED
      BY <3>1, <3>2, <3>3 DEF PublishedInOrder, Recorded
  <2>3. QED
    BY <2>1, <2>2
<1>2. executions'[k] = executions[k]
  BY <1>1, FinishedRowsKept DEF Store!Terminal
<1>3. QED
  BY <1>1, <1>2, PublicationsKept

(* Commands that are in the queue stay there, are delivered, or are        *)
(* dispatched into it.                                                     *)
LEMMA ReadyKept ==
  ASSUME IInv, [Next]_vars, NEW k \in Command, Ready(k)
  PROVE  Ready(k)' \/ Outstanding(k)'
<1> USE DEF IInv
<1>1. PICK i \in DOMAIN commands : commands[i].key = k
  BY DEF Ready
<1>2. commands \in Seq(Envelope) /\ i \in 1 .. Len(commands) /\ Len(commands) \in Nat
  BY DEF TypeOK
<1>3. ASSUME NEW c \in Envelope, commands' = Append(commands, c)
      PROVE  Ready(k)'
  <2>1. i \in DOMAIN commands' /\ commands'[i] = commands[i]
    BY <1>2, <1>3
  <2>2. QED
    BY <1>1, <2>1 DEF Ready
<1>4. ASSUME NEW w \in Worker, Deliver(w)
      PROVE  Ready(k)' \/ Outstanding(k)'
  <2>1. CASE i = 1
    <3>1. handler'[w].cmd = commands[1] /\ unacked' = w
      BY <1>2, <1>4 DEF Deliver, TypeOK
    <3>2. QED
      BY <1>1, <2>1, <3>1, ExecutionAssumption DEF Outstanding, KeyOf
  <2>2. CASE i # 1
    <3>1. i - 1 \in DOMAIN commands' /\ commands'[i - 1] = commands[i]
      BY <1>2, <1>4, <2>2 DEF Deliver
    <3>2. QED
      BY <1>1, <3>1 DEF Ready
  <2>3. QED
    BY <2>1, <2>2
<1>5. ASSUME NEW c \in Envelope, commands' = <<c>> \o commands
      PROVE  Ready(k)'
  <2>1. i + 1 \in DOMAIN commands' /\ commands'[i + 1] = commands[i]
    BY <1>2, <1>5
  <2>2. QED
    BY <1>1, <2>1 DEF Ready
<1>6. ASSUME NEW w \in Worker, handler[w] # Idle, unacked = w, ReturnDelivery(w)
      PROVE  Ready(k)'
  <2>1. handler[w].cmd \in Envelope
    BY <1>6, NotIdle
  <2>2. CASE handler[w].cmd.returns < DeliveryLimit
    BY <1>5, <1>6, <2>1, <2>2, EnvelopeUpdate DEF ReturnDelivery, Requeue
  <2>3. CASE ~(handler[w].cmd.returns < DeliveryLimit)
    BY <1>6, <2>3 DEF ReturnDelivery, Requeue, Ready
  <2>4. QED
    BY <2>2, <2>3
<1>7. UNCHANGED commands => Ready(k)'
  BY DEF Ready
<1>8. QED
  BY <1>3, <1>4, <1>6, <1>7, QueueUnder DEF Acknowledge

(* A delivery ends with its work done, or goes back. *)
LEMMA OutstandingKept ==
  ASSUME IInv, PublishedInOrder, [Next]_vars, NEW k \in Command, Outstanding(k)
  PROVE  Ready(k)' \/ Outstanding(k)' \/ k \in dead' \/ Done(k)'
<1> USE DEF IInv
<1>1. unacked \in Worker /\ KeyOf(unacked) = k /\ handler[unacked] # Idle
  BY DEF Outstanding, TypeOK, DeliveryHasHandler
<1>2. handler[unacked].cmd \in Envelope
  BY <1>1, NotIdle
<1>3. CASE UNCHANGED unacked
  <2>1. handler'[unacked].cmd = handler[unacked].cmd
    <3>1. CASE Tick
      BY <1>1, <3>1, TickMoves
    <3>2. CASE Moves(unacked)
      BY <1>1, <1>3, <3>2, ExecutionAssumption DEF Moves, Granted, Executed, Reports
    <3>3. CASE handler'[unacked] = handler[unacked]
      BY <3>3
    <3>4. QED
      BY <1>1, <3>1, <3>2, <3>3, OneMoves
  <2>2. QED
    BY <1>1, <1>3, <2>1 DEF Outstanding, KeyOf
<1>4. ASSUME NEW w \in Worker, handler[w] # Idle, unacked = w, ReturnDelivery(w)
      PROVE  Ready(k)' \/ k \in dead'
  <2> DEFINE c == [handler[w].cmd EXCEPT !.returns = @ + 1]
  <2>1. CASE handler[w].cmd.returns < DeliveryLimit
    <3>1. commands' = <<c>> \o commands
      BY <1>4, <2>1 DEF ReturnDelivery, Requeue
    <3>2. c.key = k /\ c \in Envelope
      BY <1>1, <1>2, <1>4, <2>1, EnvelopeUpdate DEF Envelope, KeyOf
    <3> HIDE DEF c
    <3>3. 1 \in DOMAIN commands' /\ commands'[1] = c
      BY <3>1, <3>2 DEF TypeOK
    <3>4. QED
      BY <3>2, <3>3 DEF Ready
  <2>2. CASE ~(handler[w].cmd.returns < DeliveryLimit)
    BY <1>1, <1>4, <2>2 DEF ReturnDelivery, Requeue, KeyOf
  <2>3. QED
    BY <2>1, <2>2
<1>5. ASSUME NEW w \in Worker, Acknowledge(w), ~UNCHANGED unacked
      PROVE  Done(k)'
  <2>1. unacked = w /\ AtPc(w, "ack")
    BY <1>5 DEF Acknowledge
  <2>2. Done(k)
    BY <1>1, <2>1 DEF PublishedInOrder
  <2>3. QED
    BY <2>2, DoneKept
<1>6. ASSUME NEW w \in Worker, Deliver(w)
      PROVE  FALSE
  BY <1>1, <1>6, ExecutionAssumption DEF Deliver
<1>7. QED
  BY <1>3, <1>4, <1>5, <1>6, QueueUnder

LEMMA PublishedUnder ==
  ASSUME IInv, [Next]_vars, NEW k \in Command, Published(k)'
  PROVE  Published(k) \/ Ready(k)'
<1> USE DEF IInv
<1>1. gateway[k] \in GatewayTask /\ gateway \in [Command -> GatewayTask]
  BY DEF TypeOK
<1>2. CASE gateway'[k] = gateway[k] \/ gateway[k].phase = "waiting"
  BY <1>2 DEF Published
<1>3. CASE gateway'[k] # gateway[k] /\ gateway[k].phase = "new"
  <2>1. gateway'[k].phase \in {"waiting", "canceled", "lost"}
    BY <1>3, GatewayUnder DEF Published
  <2>2. GatewayStep
    BY <1>3
    DEF Next, vars, gatewayVars, Deliver, WorkerStep, ClaimStep, CompleteStep,
        PublishStep, Failure, ClaimGranted, ClaimReplays, ClaimBusy, ClaimFails,
        Execute, CompleteRecorded, CompleteDuplicate, CompleteFails,
        PublishResult, PublishUnroutable, PublishExperience, Acknowledge, Crash,
        Disconnect, PublishFails, Abandon, Tick
  <2>3. Dispatch(k)
    <3>1. ASSUME NEW j \in Command, j # k,
                 Dispatch(j) \/ DispatchFails(j) \/ ResultTimeout(j) \/ Cancel(j)
          PROVE  gateway'[k] = gateway[k]
      BY <1>1, <3>1 DEF Dispatch, DispatchFails, ResultTimeout, Cancel
    <3>2. DispatchFails(k) => gateway'[k].phase = "failed"
      BY <1>1 DEF DispatchFails, GatewayTask
    <3>3. ~ResultTimeout(k) /\ ~Cancel(k)
      BY <1>3 DEF ResultTimeout, Cancel
    <3>4. ~GatewayRestart
      BY <1>1, <1>3 DEF GatewayRestart
    <3>5. ASSUME NEW r \in replies, ReceiveReply(r)
          PROVE  gateway'[k] = gateway[k]
      BY <1>1, <1>3, <3>5 DEF ReceiveReply
    <3>6. QED
      BY <1>3, <2>1, <2>2, <3>1, <3>2, <3>3, <3>4, <3>5 DEF GatewayStep
  <2> DEFINE c == [key |-> k, replyTo |-> epoch, returns |-> 0]
  <2>4. commands' = Append(commands, c) /\ c.key = k /\ c \in Envelope
    BY <2>3, ConstantTypes DEF Dispatch, Envelope, TypeOK
  <2> HIDE DEF c
  <2>5. Len(commands) + 1 \in DOMAIN commands' /\ commands'[Len(commands) + 1] = c
    BY <2>4 DEF TypeOK
  <2>6. QED
    BY <2>4, <2>5 DEF Ready
<1>4. QED
  BY <1>2, <1>3, GatewayUnder

LEMMA NothingLostKept ==
  ASSUME IInv, PublishedInOrder, NothingLost, [Next]_vars
  PROVE  NothingLost'
<1> SUFFICES ASSUME NEW k \in Command, Published(k)'
             PROVE  Ready(k)' \/ Outstanding(k)' \/ k \in dead' \/ Done(k)'
  BY DEF NothingLost
<1>1. k \in dead => k \in dead'
  BY QueueUnder DEF Deliver, ReturnDelivery, Requeue, Acknowledge
<1>2. CASE Published(k)
  BY <1>1, <1>2, ReadyKept, OutstandingKept, DoneKept DEF NothingLost
<1>3. QED
  BY <1>2, PublishedUnder

LEMMA InitDeliveryInv == Init => DeliveryInv
BY DEF Init, DeliveryInv, PublishedInOrder, NothingLost, ExperienceAfterAnswer, AtPc, Idle,
   Published

LEMMA NextDeliveryInv == IInv /\ DeliveryInv /\ [Next]_vars => DeliveryInv'
BY PublishedInOrderKept, NothingLostKept, ExperienceAfterAnswerKept DEF DeliveryInv

(* Beside the invariant of the executions: a handler owes nothing any more *)
(* when it acknowledges, and nothing published is lost.                    *)
THEOREM DeliveryInvariant == Spec => []DeliveryInv
<1>1. Init => DeliveryInv
  BY InitDeliveryInv
<1>2. IInv /\ DeliveryInv /\ [Next]_vars => DeliveryInv'
  BY NextDeliveryInv
<1>3. QED
  BY <1>1, <1>2, ExecutionInvariant, PTL DEF Spec

(* A command that was published is in the queue, out for delivery, in the  *)
(* dead letters, or has been done with completely: no crash, cut-off,      *)
(* unroutable result or refused claim makes it disappear.                  *)
THEOREM CommandsAreNotLost == Spec => []NothingLost
<1>1. DeliveryInv => NothingLost
  BY DEF DeliveryInv
<1>2. QED
  BY <1>1, DeliveryInvariant, PTL

(* The experience of a task is asked for only when its execution completed *)
(* and its result has been returned.                                       *)
THEOREM ExperienceFollowsAnswer == Spec => []ExperienceAfterAnswer
<1>1. DeliveryInv => ExperienceAfterAnswer
  BY DEF DeliveryInv
<1>2. QED
  BY <1>1, DeliveryInvariant, PTL
-----------------------------------------------------------------------------
(* A command that is done with does not come back. *)

(* What is put into or taken from the queue is ready afterwards or before. *)
LEMMA ReadyAppended ==
  ASSUME commands \in Seq(Envelope), NEW c \in Envelope, commands' = Append(commands, c),
         NEW k \in Command
  PROVE  Ready(k)' => Ready(k) \/ k = c.key
<1> SUFFICES ASSUME NEW i \in DOMAIN commands', commands'[i].key = k
             PROVE  Ready(k) \/ k = c.key
  BY DEF Ready
<1>1. \/ i \in DOMAIN commands /\ commands'[i] = commands[i]
      \/ commands'[i] = c
  OBVIOUS
<1>2. QED
  BY <1>1 DEF Ready

LEMMA ReadyTaken ==
  ASSUME commands \in Seq(Envelope), commands # <<>>, commands' = Tail(commands),
         NEW k \in Command
  PROVE  Ready(k)' => Ready(k)
<1> SUFFICES ASSUME NEW i \in DOMAIN commands', commands'[i].key = k
             PROVE  Ready(k)
  BY DEF Ready
<1>1. i + 1 \in DOMAIN commands /\ commands'[i] = commands[i + 1]
  OBVIOUS
<1>2. QED
  BY <1>1 DEF Ready

LEMMA ReadyReturned ==
  ASSUME commands \in Seq(Envelope), NEW c \in Envelope, commands' = <<c>> \o commands,
         NEW k \in Command
  PROVE  Ready(k)' => Ready(k) \/ k = c.key
<1> SUFFICES ASSUME NEW i \in DOMAIN commands', commands'[i].key = k
             PROVE  Ready(k) \/ k = c.key
  BY DEF Ready
<1>1. \/ i = 1 /\ commands'[i] = c
      \/ i - 1 \in DOMAIN commands /\ commands'[i] = commands[i - 1]
  OBVIOUS
<1>2. QED
  BY <1>1 DEF Ready

(* No two commands of the queue are the same. *)
Distinct == \A i, j \in DOMAIN commands : commands[i].key = commands[j].key => i = j

LEMMA DistinctAppended ==
  ASSUME Distinct, commands \in Seq(Envelope), NEW c \in Envelope,
         commands' = Append(commands, c), ~Ready(c.key)
  PROVE  Distinct'
<1> SUFFICES ASSUME NEW i \in DOMAIN commands', NEW j \in DOMAIN commands',
                    commands'[i].key = commands'[j].key
             PROVE  i = j
  BY DEF Distinct
<1>1. \A n \in DOMAIN commands' :
        \/ n \in DOMAIN commands /\ commands'[n] = commands[n] /\ commands[n].key # c.key
        \/ n = Len(commands) + 1 /\ commands'[n] = c
  BY DEF Ready
<1>2. QED
  BY <1>1 DEF Distinct

LEMMA DistinctTaken ==
  ASSUME Distinct, commands \in Seq(Envelope), commands # <<>>, commands' = Tail(commands)
  PROVE  Distinct' /\ \A n \in DOMAIN commands' : commands'[n].key # commands[1].key
<1>1. \A n \in DOMAIN commands' :
        n \in Nat /\ n + 1 \in DOMAIN commands /\ commands'[n] = commands[n + 1]
  OBVIOUS
<1>2. 1 \in DOMAIN commands
  OBVIOUS
<1>3. Distinct'
  BY <1>1 DEF Distinct
<1>4. \A n \in DOMAIN commands' : commands'[n].key # commands[1].key
  <2>1. ASSUME NEW n \in DOMAIN commands', commands'[n].key = commands[1].key
        PROVE  FALSE
    <3>1. n \in Nat /\ n + 1 \in DOMAIN commands /\ commands[n + 1].key = commands[1].key
      BY <1>1, <2>1
    <3>2. n + 1 = 1
      BY <1>2, <3>1 DEF Distinct
    <3>3. QED
      BY <3>1, <3>2
  <2>2. QED
    BY <2>1
<1>5. QED
  BY <1>3, <1>4

LEMMA DistinctReturned ==
  ASSUME Distinct, commands \in Seq(Envelope), NEW c \in Envelope,
         commands' = <<c>> \o commands, ~Ready(c.key)
  PROVE  Distinct'
<1> SUFFICES ASSUME NEW i \in DOMAIN commands', NEW j \in DOMAIN commands',
                    commands'[i].key = commands'[j].key
             PROVE  i = j
  BY DEF Distinct
<1>1. \A n \in DOMAIN commands' :
        \/ n = 1 /\ commands'[n] = c
        \/ /\ n \in Nat /\ n - 1 \in DOMAIN commands /\ commands'[n] = commands[n - 1]
           /\ commands[n - 1].key # c.key
  BY DEF Ready
<1>2. QED
  BY <1>1 DEF Distinct

(* A handler keeps the command of its delivery. *)
LEMMA DeliveryKept ==
  ASSUME IInv, [Next]_vars, UNCHANGED unacked, NEW k \in Command
  PROVE  Outstanding(k)' <=> Outstanding(k)
<1> USE DEF IInv
<1>1. CASE unacked = NoWorker
  BY <1>1 DEF Outstanding
<1>2. CASE unacked # NoWorker
  <2>1. unacked \in Worker /\ handler[unacked] # Idle
    BY <1>2 DEF TypeOK, DeliveryHasHandler
  <2>2. handler'[unacked].cmd = handler[unacked].cmd
    <3>1. CASE Tick
      BY <2>1, <3>1, TickMoves
    <3>2. CASE Moves(unacked)
      BY <2>1, <3>2, ExecutionAssumption DEF Moves, Granted, Executed, Reports
    <3>3. CASE handler'[unacked] = handler[unacked]
      BY <3>3
    <3>4. QED
      BY <2>1, <3>1, <3>2, <3>3, OneMoves
  <2>3. QED
    BY <2>2 DEF Outstanding, KeyOf
<1>3. QED
  BY <1>1, <1>2

(* What a step must show to keep QueuedOnce and StaySettled. *)
Settles == QueuedOnce' /\ StaySettled

LEMMA UnchangedSettles ==
  ASSUME IInv, QueuedOnce, [Next]_vars, UNCHANGED <<unacked, commands, dead>>
  PROVE  Settles
<1>1. \A k \in Command : Ready(k)' <=> Ready(k)
  BY DEF Ready
<1>2. \A k \in Command : Outstanding(k)' <=> Outstanding(k)
  BY DeliveryKept
<1>3. \A k \in Command : gateway'[k].phase = "new" => gateway[k].phase = "new"
  BY StaysSubmitted
<1>4. dead \subseteq Command
  BY DEF IInv, TypeOK
<1>5. QED
  BY <1>1, <1>2, <1>3, <1>4 DEF Settles, QueuedOnce, StaySettled

LEMMA SubmissionSettles ==
  ASSUME IInv, QueuedOnce, [Next]_vars, UNCHANGED <<unacked, dead>>,
         NEW c \in Envelope, Submitted(c.key), commands' = Append(commands, c)
  PROVE  Settles
<1>1. commands \in Seq(Envelope) /\ c.key \in Command /\ dead \subseteq Command
  BY DEF IInv, TypeOK, Envelope
<1>2. ~Ready(c.key)
  BY <1>1 DEF IInv, SubmittedFirst, Submitted, Ready
<1>3. ~Outstanding(c.key)
  BY <1>1 DEF IInv, TypeOK, SubmittedFirst, DeliveryHasHandler, Submitted, Outstanding
<1>4. Distinct'
  BY <1>1, <1>2, DistinctAppended DEF QueuedOnce, Distinct
<1>5. \A k \in Command : Ready(k)' => Ready(k) \/ k = c.key
  BY <1>1, ReadyAppended
<1>6. \A k \in Command : Outstanding(k)' <=> Outstanding(k)
  BY DeliveryKept
<1>7. \A k \in Command : gateway'[k].phase = "new" => gateway[k].phase = "new"
  BY StaysSubmitted
<1>8. QueuedOnce'
  BY <1>1, <1>3, <1>4, <1>5, <1>6, <1>7 DEF QueuedOnce, Distinct, Submitted
<1>9. StaySettled
  BY <1>5, <1>6 DEF StaySettled, Submitted
<1>10. QED
  BY <1>8, <1>9 DEF Settles

LEMMA DeliverySettles ==
  ASSUME IInv, QueuedOnce, [Next]_vars, NEW w \in Worker, Deliver(w)
  PROVE  Settles
<1>1. /\ commands \in Seq(Envelope) /\ commands # <<>> /\ commands' = Tail(commands)
      /\ unacked' = w /\ UNCHANGED dead /\ dead \subseteq Command
  BY DEF Deliver, IInv, TypeOK
<1>2. 1 \in DOMAIN commands /\ handler'[w].cmd = commands[1]
  BY <1>1 DEF Deliver, IInv, TypeOK
<1>3. Ready(commands[1].key)
  BY <1>2 DEF Ready
<1>4. Distinct' /\ \A n \in DOMAIN commands' : commands'[n].key # commands[1].key
  BY <1>1, DistinctTaken DEF QueuedOnce, Distinct
<1>5. \A k \in Command : Outstanding(k)' => k = commands[1].key
  BY <1>1, <1>2 DEF Outstanding, KeyOf
<1>6. \A k \in Command : Ready(k)' => Ready(k) /\ k # commands[1].key
  BY <1>1, <1>4, ReadyTaken DEF Ready
<1>7. \A k \in Command : gateway'[k].phase = "new" => gateway[k].phase = "new"
  BY StaysSubmitted
<1>8. QueuedOnce'
  BY <1>1, <1>3, <1>4, <1>5, <1>6, <1>7 DEF QueuedOnce, Distinct
<1>9. StaySettled
  BY <1>3, <1>5, <1>6 DEF StaySettled
<1>10. QED
  BY <1>8, <1>9 DEF Settles

LEMMA ReturnSettles ==
  ASSUME IInv, QueuedOnce, [Next]_vars,
         NEW w \in Worker, handler[w] # Idle, unacked = w, ReturnDelivery(w)
  PROVE  Settles
<1> DEFINE q == KeyOf(w)
<1>1. /\ commands \in Seq(Envelope) /\ dead \subseteq Command
      /\ handler[w].cmd \in Envelope /\ q \in Command
  BY NotIdle DEF IInv, TypeOK, Envelope, KeyOf
<1>2. Outstanding(q) /\ ~Ready(q)
  BY <1>1, ExecutionAssumption DEF Outstanding, QueuedOnce
<1>3. gateway[q].phase # "new"
  BY <1>1 DEF IInv, SubmittedFirst
<1>4. \A k \in Command : ~Outstanding(k)'
  BY DEF ReturnDelivery, Outstanding
<1>5. \A k \in Command : gateway'[k].phase = "new" => gateway[k].phase = "new"
  BY StaysSubmitted
<1>6. CASE handler[w].cmd.returns < DeliveryLimit
  <2> DEFINE c == [handler[w].cmd EXCEPT !.returns = @ + 1]
  <2>1. commands' = <<c>> \o commands /\ UNCHANGED dead
    BY <1>6 DEF ReturnDelivery, Requeue
  <2>2. c \in Envelope /\ c.key = q
    BY <1>1, <1>6, EnvelopeUpdate DEF Envelope, KeyOf
  <2> HIDE DEF c, q
  <2>3. Distinct'
    BY <1>1, <1>2, <2>1, <2>2, DistinctReturned DEF QueuedOnce, Distinct
  <2>4. \A k \in Command : Ready(k)' => Ready(k) \/ k = q
    BY <1>1, <2>1, <2>2, ReadyReturned
  <2>5. QueuedOnce'
    BY <1>1, <1>2, <1>4, <1>5, <2>1, <2>3, <2>4 DEF QueuedOnce, Distinct
  <2>6. StaySettled
    BY <1>2, <1>4, <2>4 DEF StaySettled
  <2>7. QED
    BY <2>5, <2>6 DEF Settles
<1>7. CASE ~(handler[w].cmd.returns < DeliveryLimit)
  <2>1. UNCHANGED commands /\ dead' = dead \cup {q}
    BY <1>7 DEF ReturnDelivery, Requeue, KeyOf
  <2>2. \A k \in Command : Ready(k)' <=> Ready(k)
    BY <2>1 DEF Ready
  <2> HIDE DEF q
  <2>3. QueuedOnce'
    BY <1>1, <1>2, <1>3, <1>4, <1>5, <2>1, <2>2 DEF QueuedOnce
  <2>4. StaySettled
    BY <1>4, <2>2 DEF StaySettled
  <2>5. QED
    BY <2>3, <2>4 DEF Settles
<1>8. QED
  BY <1>6, <1>7

LEMMA AcknowledgementSettles ==
  ASSUME IInv, QueuedOnce, [Next]_vars, NEW w \in Worker, Acknowledge(w)
  PROVE  Settles
<1>1. UNCHANGED <<commands, dead>> /\ (UNCHANGED unacked \/ unacked' = NoWorker)
  BY DEF Acknowledge
<1>2. CASE UNCHANGED unacked
  BY <1>1, <1>2, UnchangedSettles
<1>3. CASE unacked' = NoWorker
  <2>1. \A k \in Command : (Ready(k)' <=> Ready(k)) /\ ~Outstanding(k)'
    BY <1>1, <1>3 DEF Ready, Outstanding
  <2>2. \A k \in Command : gateway'[k].phase = "new" => gateway[k].phase = "new"
    BY StaysSubmitted
  <2>3. dead \subseteq Command
    BY DEF IInv, TypeOK
  <2>4. QED
    BY <1>1, <2>1, <2>2, <2>3 DEF Settles, QueuedOnce, StaySettled
<1>4. QED
  BY <1>1, <1>2, <1>3

LEMMA StepSettles ==
  ASSUME IInv, QueuedOnce, [Next]_vars
  PROVE  Settles
BY QueueUnder, UnchangedSettles, SubmissionSettles, DeliverySettles, ReturnSettles,
   AcknowledgementSettles

(* However often a command is returned to the queue, there is one of it:   *)
(* never two copies, nor one in the queue beside the one out for delivery, *)
(* nor any beside its dead letter.                                         *)
THEOREM CommandsAreQueuedOnce == Spec => []QueuedOnce
<1>1. Init => QueuedOnce
  BY ExecutionAssumption DEF Init, QueuedOnce, Outstanding
<1>2. IInv /\ QueuedOnce /\ [Next]_vars => QueuedOnce'
  BY StepSettles DEF Settles
<1>3. QED
  BY <1>1, <1>2, ExecutionInvariant, PTL DEF Spec

(* A command that was acknowledged or went to the dead letters is never    *)
(* again in the queue or out for delivery: not by the late failure of a    *)
(* handler that was cut off, nor by the Gateway's retries or restarts.     *)
THEOREM SettledStaysSettled == Spec => SettledForGood
<1>1. IInv /\ QueuedOnce /\ [Next]_vars => [StaySettled]_vars
  BY StepSettles DEF Settles
<1>2. QED
  BY <1>1, ExecutionInvariant, CommandsAreQueuedOnce, PTL DEF Spec, SettledForGood
=============================================================================
