--------------------------- MODULE TaskExecution ----------------------------
(***************************************************************************)
(* The life of a queue-backed task: the Gateway's dispatcher, one          *)
(* partition of the RabbitMQ command queue, the workers that consume it    *)
(* and the Registry's execution records they claim.                        *)
(*                                                                         *)
(* A partition is a quorum queue with a single active consumer and         *)
(* prefetch 1, so one command at a time is delivered and not yet           *)
(* acknowledged.  A worker that loses its connection goes on running its   *)
(* handler while the broker hands the command to another one; it is the    *)
(* lease in the Registry, not the queue, that keeps them apart.            *)
(*                                                                         *)
(* A member of Worker is one running _handle_message call.  Every call of  *)
(* the Registry may fail before or after the Registry has acted on it, a   *)
(* worker may crash or be cut off at any point, and the Gateway may time   *)
(* out or restart.  A result is identified by the claim token under which  *)
(* the agent was called, so that results of two calls differ.              *)
(***************************************************************************)
EXTENDS Naturals, Sequences, FiniteSets

CONSTANTS
  Agent, Task,        \* ids of registered agents and of submitted tasks
  Worker,             \* handler slots of the workers
  WorkerLease,        \* A2A_WORKER_LEASE_SECONDS, in ticks
  MaxExecution,       \* the longest execution after a claim, in ticks
  DeliveryLimit,      \* x-delivery-limit of the command queues
  ExperienceEnabled,  \* AGENT_EXPERIENCE_ENABLED
  MaxRestarts,        \* bound on Gateway restarts
  MaxClaims,          \* bound on claims, see ExecutionStore
  NoWorker,           \* no delivery is outstanding
  NoMessage           \* see ExecutionStore

(* README.md asks for a lease longer than the longest execution. *)
ASSUME ExecutionAssumption ==
  /\ WorkerLease \in Nat \ {0}
  /\ MaxExecution \in Nat
  /\ MaxExecution < WorkerLease
  /\ DeliveryLimit \in Nat
  /\ ExperienceEnabled \in BOOLEAN
  /\ MaxRestarts \in Nat
  /\ MaxClaims \in Nat
  /\ NoWorker \notin Worker
  /\ NoMessage \notin Agent \X Task

VARIABLES
  agents, executions, experiences, issued,  \* the Registry's tables
  epoch,      \* the Gateway process, and with it the name of its reply queue
  gateway,    \* the Gateway's live A2A task for each command
  commands,   \* the ready commands of the partition, in order
  unacked,    \* the worker that holds the outstanding delivery, or NoWorker
  handler,    \* what each handler is doing
  replies,    \* results in the reply queue
  answered,   \* history: the commands whose result was routed to a reply queue
  requested,  \* the tasks with a CollectExperience message
  dead        \* the commands in the dead letter queue

storeVars == <<agents, executions, experiences, issued>>
brokerVars == <<commands, unacked, dead>>
outputVars == <<replies, answered, requested>>
gatewayVars == <<epoch, gateway>>
vars == <<storeVars, brokerVars, outputVars, gatewayVars, handler>>

(* A command is named by its (agent, task); so is its message id, which    *)
(* TaskCommand.create derives from the two.                                *)
Command == Agent \X Task

(* The text of a result stands for the claim it was produced under. *)
Token == 0 .. MaxClaims

Store == INSTANCE ExecutionStore
           WITH Message <- Command, Text <- Token, Empty <- 0,
                MaxLease <- WorkerLease

(* A message of the command queue: the command, the reply queue of the     *)
(* Gateway that sent it, and how often it was returned.                    *)
Envelope == [key: Command, replyTo: 0 .. MaxRestarts, returns: 0 .. DeliveryLimit]

Outcome == [state: Store!Terminal, text: Token]
NoOutcome == [state |-> "NONE", text |-> 0]

Handler ==
  [pc: {"claim", "execute", "complete", "publish", "experience", "ack"},
   cmd: Envelope, token: Token, wait: 0 .. WorkerLease,
   timer: 0 .. MaxExecution, outcome: Outcome \cup {NoOutcome}]
Idle == [pc |-> "idle"]

Reply == [key: Command, outcome: Outcome]

GatewayTask ==
  [phase: {"new", "waiting", "answered", "failed", "canceled", "lost"},
   outcome: Outcome \cup {NoOutcome}]

TypeOK ==
  /\ Store!TypeOK
  /\ epoch \in 0 .. MaxRestarts
  /\ gateway \in [Command -> GatewayTask]
  /\ commands \in Seq(Envelope)
  /\ unacked \in Worker \cup {NoWorker}
  /\ handler \in [Worker -> Handler \cup {Idle}]
  /\ replies \in SUBSET Reply
  /\ answered \in SUBSET Command
  /\ requested \in SUBSET Command
  /\ dead \in SUBSET Command

Init ==
  /\ Store!Init
  /\ agents = Agent
  /\ epoch = 0
  /\ gateway = [k \in Command |-> [phase |-> "new", outcome |-> NoOutcome]]
  /\ commands = <<>>
  /\ unacked = NoWorker
  /\ handler = [w \in Worker |-> Idle]
  /\ replies = {}
  /\ answered = {}
  /\ requested = {}
  /\ dead = {}

(* The recorded outcome of a command, as the Registry answers it. *)
Recorded(k) == [state |-> executions[k].state, text |-> executions[k].text]

-----------------------------------------------------------------------------
(* The Gateway: RabbitTaskDispatcher and the part of execute() around it. *)

(* The pending future is registered, then the command published. *)
Dispatch(k) ==
  /\ gateway[k].phase = "new"
  /\ gateway' = [gateway EXCEPT ![k].phase = "waiting"]
  /\ commands' = Append(commands, [key |-> k, replyTo |-> epoch, returns |-> 0])
  /\ UNCHANGED <<storeVars, unacked, dead, outputVars, epoch, handler>>

(* Mutant of DispatchFails: the client may send the message again. *)
DispatchAgain(k) ==
  /\ gateway[k].phase = "new"
  /\ commands' = Append(commands, [key |-> k, replyTo |-> epoch, returns |-> 0])
  /\ UNCHANGED <<storeVars, unacked, dead, outputVars, gatewayVars, handler>>

(* The publish raises: the task fails, whether or not the broker has the   *)
(* command.                                                                *)
DispatchFails(k) ==
  /\ gateway[k].phase = "new"
  /\ gateway' = [gateway EXCEPT ![k].phase = "failed"]
  /\ \/ UNCHANGED commands
     \/ commands' =
          Append(commands, [key |-> k, replyTo |-> epoch, returns |-> 0])
  /\ UNCHANGED <<storeVars, unacked, dead, outputVars, epoch, handler>>

(* Mutant of ReceiveReply: a reply settles a task that no longer waits. *)
SettleLate(r) ==
  /\ r \in replies
  /\ replies' = replies \ {r}
  /\ gateway' = [gateway EXCEPT ![r.key] = [phase |-> "answered", outcome |-> r.outcome]]
  /\ UNCHANGED <<storeVars, brokerVars, answered, requested, epoch, handler>>

(* A reply is consumed; it settles the task if the dispatcher still waits. *)
ReceiveReply(r) ==
  /\ r \in replies
  /\ replies' = replies \ {r}
  /\ gateway' = [gateway EXCEPT ![r.key] =
       IF @.phase = "waiting" THEN [phase |-> "answered", outcome |-> r.outcome]
       ELSE @]
  /\ UNCHANGED <<storeVars, brokerVars, answered, requested, epoch, handler>>

(* wait_for gives up after A2A_QUEUE_RESULT_TIMEOUT_SECONDS. *)
ResultTimeout(k) ==
  /\ gateway[k].phase = "waiting"
  /\ gateway' = [gateway EXCEPT ![k].phase = "failed"]
  /\ UNCHANGED <<storeVars, brokerVars, outputVars, epoch, handler>>

(* A cancellation ends the live task and the wait for its result; neither  *)
(* the broker nor the worker hears of it.                                  *)
Cancel(k) ==
  /\ gateway[k].phase = "waiting"
  /\ gateway' = [gateway EXCEPT ![k].phase = "canceled"]
  /\ UNCHANGED <<storeVars, brokerVars, outputVars, epoch, handler>>

(* The live tasks, the pending futures and the reply queue are in the      *)
(* memory of the Gateway process or bound to its connection.               *)
GatewayRestart ==
  /\ epoch < MaxRestarts
  /\ epoch' = epoch + 1
  /\ gateway' = [k \in Command |->
       IF gateway[k].phase = "waiting" THEN [gateway[k] EXCEPT !.phase = "lost"]
       ELSE gateway[k]]
  /\ replies' = {}
  /\ UNCHANGED <<storeVars, brokerVars, answered, requested, handler>>

-----------------------------------------------------------------------------
(* The broker. *)

Deliver(w) ==
  /\ unacked = NoWorker
  /\ commands # <<>>
  /\ handler[w] = Idle
  /\ unacked' = w
  /\ commands' = Tail(commands)
  /\ handler' = [handler EXCEPT ![w] =
       [pc |-> "claim", cmd |-> Head(commands), token |-> 0, wait |-> 0,
        timer |-> 0, outcome |-> NoOutcome]]
  /\ UNCHANGED <<storeVars, dead, outputVars, gatewayVars>>

(* Mutant of Requeue: returns are not counted. *)
RequeueForever(cmd) == commands' = <<cmd>> \o commands /\ UNCHANGED dead

(* A returned command goes back to the head of the queue, or to the dead   *)
(* letters once it has been returned more often than the limit.            *)
Requeue(cmd) ==
  IF cmd.returns < DeliveryLimit
    THEN /\ commands' = <<[cmd EXCEPT !.returns = @ + 1]>> \o commands
         /\ UNCHANGED dead
    ELSE /\ dead' = dead \cup {cmd.key}
         /\ UNCHANGED commands

(* Mutant of ReturnDelivery: the broker takes back what a worker that was  *)
(* cut off no longer has.                                                  *)
ReturnStale(w) ==
  /\ unacked' = IF unacked = w THEN NoWorker ELSE unacked
  /\ Requeue(handler[w].cmd)

(* The delivery of w ends without an acknowledgement.  A worker that was   *)
(* cut off has none left to return.                                        *)
ReturnDelivery(w) ==
  IF unacked = w THEN unacked' = NoWorker /\ Requeue(handler[w].cmd)
  ELSE UNCHANGED brokerVars

-----------------------------------------------------------------------------
(* The worker: _handle_message. *)

AtPc(w, pc) == handler[w].pc = pc
KeyOf(w) == handler[w].cmd.key

(* The except clause of the handler: nack(requeue=True), and the handler   *)
(* ends.                                                                   *)
Abandon(w) ==
  /\ ReturnDelivery(w)
  /\ handler' = [handler EXCEPT ![w] = Idle]
  /\ UNCHANGED <<outputVars, gatewayVars>>

ClaimReady(w) == AtPc(w, "claim") /\ handler[w].wait = 0

(* Mutant of ClaimGranted: the lease is as long as the execution may be.   *)
ClaimGrantedShort(w) ==
  /\ ClaimReady(w)
  /\ Store!ClaimExecution(KeyOf(w), KeyOf(w), MaxExecution)
  /\ handler' = [handler EXCEPT ![w].pc = "execute", ![w].token = issued',
                                ![w].timer = MaxExecution]
  /\ UNCHANGED <<brokerVars, outputVars, gatewayVars>>

ClaimGranted(w) ==
  /\ ClaimReady(w)
  /\ Store!ClaimExecution(KeyOf(w), KeyOf(w), WorkerLease)
  /\ handler' = [handler EXCEPT ![w].pc = "execute", ![w].token = issued',
                                ![w].timer = MaxExecution]
  /\ UNCHANGED <<brokerVars, outputVars, gatewayVars>>

ClaimReplays(w) ==
  /\ ClaimReady(w)
  /\ Store!Replays(KeyOf(w), KeyOf(w))
  /\ handler' = [handler EXCEPT ![w].pc = "publish",
                                ![w].outcome = Recorded(KeyOf(w))]
  /\ UNCHANGED <<storeVars, brokerVars, outputVars, gatewayVars>>

(* BUSY: sleep for the retryAfterMs of the answer, then claim again. *)
ClaimBusy(w) ==
  /\ ClaimReady(w)
  /\ Store!Busy(KeyOf(w), KeyOf(w))
  /\ handler' = [handler EXCEPT ![w].wait = executions[KeyOf(w)].lease]
  /\ UNCHANGED <<storeVars, brokerVars, outputVars, gatewayVars>>

(* The claim request raises, before or after the Registry granted it. *)
ClaimFails(w) ==
  /\ ClaimReady(w)
  /\ \/ Store!ClaimExecution(KeyOf(w), KeyOf(w), WorkerLease)
     \/ UNCHANGED storeVars
  /\ Abandon(w)

(* _execute: the agent answers, or its failure becomes a FAILED result. *)
Execute(w, state) ==
  /\ AtPc(w, "execute")
  /\ handler' = [handler EXCEPT ![w].pc = "complete",
       ![w].outcome = [state |-> state, text |-> handler[w].token]]
  /\ UNCHANGED <<storeVars, brokerVars, outputVars, gatewayVars>>

CompleteRecorded(w) ==
  LET o == handler[w].outcome IN
  /\ AtPc(w, "complete")
  /\ Store!CompleteExecution(KeyOf(w), KeyOf(w), handler[w].token, o.state, o.text)
  /\ handler' = [handler EXCEPT ![w].pc = "publish",
       ![w].outcome = [state |-> executions'[KeyOf(w)].state,
                       text |-> executions'[KeyOf(w)].text]]
  /\ UNCHANGED <<brokerVars, outputVars, gatewayVars>>

(* Mutant of CompleteDuplicate: the worker publishes its own result. *)
PublishOwnResult(w) ==
  /\ AtPc(w, "complete")
  /\ Store!IsDuplicate(KeyOf(w), KeyOf(w))
  /\ handler' = [handler EXCEPT ![w].pc = "publish"]
  /\ UNCHANGED <<storeVars, brokerVars, outputVars, gatewayVars>>

(* Somebody else finished it: the stored result replaces the own one. *)
CompleteDuplicate(w) ==
  /\ AtPc(w, "complete")
  /\ Store!IsDuplicate(KeyOf(w), KeyOf(w))
  /\ handler' = [handler EXCEPT ![w].pc = "publish",
                                ![w].outcome = Recorded(KeyOf(w))]
  /\ UNCHANGED <<storeVars, brokerVars, outputVars, gatewayVars>>

(* The claim is stale, or the request raises before or after the Registry  *)
(* recorded the result.                                                    *)
CompleteFails(w) ==
  LET o == handler[w].outcome IN
  /\ AtPc(w, "complete")
  /\ \/ Store!CompleteExecution(KeyOf(w), KeyOf(w), handler[w].token, o.state, o.text)
     \/ UNCHANGED storeVars
  /\ Abandon(w)

(* Mutant of AfterPublish: failed executions are reflected on as well. *)
ExperienceOfAll(w) == IF ExperienceEnabled THEN "experience" ELSE "ack"

(* The experience message follows the result of a completed execution. *)
AfterPublish(w) ==
  IF ExperienceEnabled /\ handler[w].outcome.state = "COMPLETED"
  THEN "experience" ELSE "ack"

PublishResult(w) ==
  /\ AtPc(w, "publish")
  /\ handler[w].cmd.replyTo = epoch
  /\ replies' = replies \cup {[key |-> KeyOf(w), outcome |-> handler[w].outcome]}
  /\ answered' = answered \cup {KeyOf(w)}
  /\ handler' = [handler EXCEPT ![w].pc = AfterPublish(w)]
  /\ UNCHANGED <<storeVars, brokerVars, requested, gatewayVars>>

(* Mutant of PublishUnroutable: mandatory=False, the result is dropped. *)
DropUnroutable(w) ==
  /\ AtPc(w, "publish")
  /\ handler[w].cmd.replyTo # epoch
  /\ handler' = [handler EXCEPT ![w].pc = AfterPublish(w)]
  /\ UNCHANGED <<storeVars, brokerVars, outputVars, gatewayVars>>

(* mandatory=True: a result for a reply queue that is gone is returned.    *)
PublishUnroutable(w) ==
  /\ AtPc(w, "publish")
  /\ handler[w].cmd.replyTo # epoch
  /\ Abandon(w)
  /\ UNCHANGED storeVars

PublishExperience(w) ==
  /\ AtPc(w, "experience")
  /\ requested' = requested \cup {KeyOf(w)}
  /\ handler' = [handler EXCEPT ![w].pc = "ack"]
  /\ UNCHANGED <<storeVars, brokerVars, replies, answered, gatewayVars>>

(* The acknowledgement of a worker that was cut off is not the broker's    *)
(* to see: it raises, so does the nack that follows, and the handler ends. *)
Acknowledge(w) ==
  /\ AtPc(w, "ack")
  /\ unacked' = IF unacked = w THEN NoWorker ELSE unacked
  /\ handler' = [handler EXCEPT ![w] = Idle]
  /\ UNCHANGED <<storeVars, commands, dead, outputVars, gatewayVars>>

-----------------------------------------------------------------------------
(* Failures and time. *)

(* The process of the worker dies; the broker takes its delivery back. *)
Crash(w) ==
  /\ handler[w] # Idle
  /\ Abandon(w)
  /\ UNCHANGED storeVars

(* The connection of the worker is lost, and its handler goes on. *)
Disconnect(w) ==
  /\ unacked = w
  /\ ReturnDelivery(w)
  /\ UNCHANGED <<storeVars, outputVars, gatewayVars, handler>>

(* A publication of a worker that was cut off may raise as well. *)
PublishFails(w) ==
  /\ AtPc(w, "publish") \/ AtPc(w, "experience")
  /\ unacked # w
  /\ Abandon(w)
  /\ UNCHANGED storeVars

(* One tick of the clock: leases run down, and so do the sleeps and the    *)
(* executions, which end by their deadline.                                *)
Elapsed(n) == IF n > 0 THEN n - 1 ELSE 0

Tick ==
  /\ \A w \in Worker : AtPc(w, "execute") => handler[w].timer > 0
  /\ Store!Tick
  /\ handler' = [w \in Worker |->
       IF handler[w] = Idle THEN Idle
       ELSE [handler[w] EXCEPT !.wait = Elapsed(@), !.timer = Elapsed(@)]]
  /\ UNCHANGED <<brokerVars, outputVars, gatewayVars>>

-----------------------------------------------------------------------------
GatewayStep ==
  \/ \E k \in Command :
       Dispatch(k) \/ DispatchFails(k) \/ ResultTimeout(k) \/ Cancel(k)
  \/ \E r \in replies : ReceiveReply(r)
  \/ GatewayRestart

ClaimStep(w) ==
  ClaimGranted(w) \/ ClaimReplays(w) \/ ClaimBusy(w) \/ ClaimFails(w)

CompleteStep(w) == CompleteRecorded(w) \/ CompleteDuplicate(w) \/ CompleteFails(w)

PublishStep(w) ==
  PublishResult(w) \/ PublishUnroutable(w) \/ PublishExperience(w) \/ Acknowledge(w)

(* What a handler does on its own, given that it is neither killed nor     *)
(* cut off.                                                                *)
WorkerStep(w) ==
  \/ ClaimStep(w)
  \/ \E state \in Store!Terminal : Execute(w, state)
  \/ CompleteStep(w)
  \/ PublishStep(w)

Failure(w) == Crash(w) \/ Disconnect(w) \/ PublishFails(w)

Next ==
  \/ GatewayStep
  \/ \E w \in Worker : Deliver(w) \/ WorkerStep(w) \/ Failure(w)
  \/ Tick

Spec == Init /\ [][Next]_vars

(* The event loops of the services run what is ready, the broker delivers  *)
(* what it holds to a free consumer, and time passes.  Failures and what   *)
(* the Gateway's clients do are not owed to anybody.                       *)
Fairness ==
  /\ \A w \in Worker : WF_vars(WorkerStep(w))
  /\ WF_vars(\E w \in Worker : Deliver(w))
  /\ WF_vars(Tick)

FairSpec == Spec /\ Fairness

-----------------------------------------------------------------------------
(* Properties. *)

Executing(w) == AtPc(w, "execute")

(* A worker that is calling the agent owns the lease of its task, and the  *)
(* lease outlasts the call: nobody took the claim over, nobody finished    *)
(* the execution, whatever was redelivered or lost in between.             *)
HoldsLease(w) ==
  LET row == executions[KeyOf(w)] IN
  /\ row.state = "RUNNING"
  /\ row.token = handler[w].token
  /\ row.lease > handler[w].timer

ExecutorHoldsLease == \A w \in Worker : Executing(w) => HoldsLease(w)

(* The agent never works on the same task for two workers at once, given   *)
(* the lease README.md asks for.                                           *)
NoOverlappingExecution ==
  \A w1, w2 \in Worker :
    Executing(w1) /\ Executing(w2) /\ KeyOf(w1) = KeyOf(w2) => w1 = w2

(* README.md: "messages in one partition execute sequentially".  They do   *)
(* not once a worker was cut off and its command has gone to the dead      *)
(* letters: the next command starts while the agent is still at work.      *)
SequentialPartition ==
  \A w1, w2 \in Worker : Executing(w1) /\ Executing(w2) => w1 = w2

(* A worker that owes the Registry a completion does so under a token that *)
(* was issued to it alone.                                                 *)
OwnsToken(w) == AtPc(w, "execute") \/ AtPc(w, "complete")

TokensExclusive ==
  \A w1 \in Worker : OwnsToken(w1) =>
    /\ handler[w1].token \in 1 .. issued
    /\ \A w2 \in Worker : OwnsToken(w2) /\ handler[w2].token = handler[w1].token => w1 = w2

(* What a worker hands out as the result is the recorded outcome, and only *)
(* a completed execution gets as far as its experience.                    *)
Reporting(w) == AtPc(w, "publish") \/ AtPc(w, "experience") \/ AtPc(w, "ack")

ResultsHeld ==
  \A w \in Worker :
    /\ AtPc(w, "complete") => handler[w].outcome \in Outcome
    /\ Reporting(w) => /\ handler[w].outcome = Recorded(KeyOf(w))
                       /\ executions[KeyOf(w)].state \in Store!Terminal
    /\ AtPc(w, "experience") => handler[w].outcome.state = "COMPLETED"

(* Whatever execution a result comes from, what the Gateway is told, and   *)
(* what it shows as the answer, is the one outcome the Registry recorded.  *)
AnswersAreRecorded ==
  /\ \A r \in replies : r.outcome = Recorded(r.key)
  /\ \A k \in Command : gateway[k].phase = "answered" =>
       /\ gateway[k].outcome = Recorded(k)
       /\ executions[k].state \in Store!Terminal

(* Nothing works on a command before a client submitted it. *)
SubmittedFirst ==
  \A k \in Command : gateway[k].phase = "new" =>
    /\ \A i \in DOMAIN commands : commands[i].key # k
    /\ \A w \in Worker : handler[w] # Idle => KeyOf(w) # k

(* A delivery that is not yet acknowledged has a handler at work on it. *)
DeliveryHasHandler == unacked \in Worker => handler[unacked] # Idle

(* The inductive invariant behind NoOverlappingExecution,                  *)
(* AnswersAreRecorded and the refinement of TaskOutcome.                   *)
IInv ==
  /\ TypeOK
  /\ Store!IInv
  /\ TokensExclusive
  /\ ExecutorHoldsLease
  /\ ResultsHeld
  /\ AnswersAreRecorded
  /\ SubmittedFirst
  /\ DeliveryHasHandler

(* The queue holds or has out for delivery the command k. *)
Ready(k) == \E i \in DOMAIN commands : commands[i].key = k
Outstanding(k) == unacked # NoWorker /\ KeyOf(unacked) = k
Published(k) == gateway[k].phase \in {"waiting", "answered", "canceled", "lost"}

(* All there is to do for the command k was done. *)
Done(k) ==
  /\ k \in answered
  /\ executions[k].state \in Store!Terminal
  /\ ExperienceEnabled /\ executions[k].state = "COMPLETED" => k \in requested

(* A command leaves the queue only into the dead letters or with its work  *)
(* done: the outcome recorded, the result returned and, for a completed    *)
(* task, the collection of its experience requested.                       *)
NothingLost ==
  \A k \in Command : Published(k) => Ready(k) \/ Outstanding(k) \/ k \in dead \/ Done(k)

(* README.md: the experience of a completed task is requested after its    *)
(* formal result has been returned.                                        *)
ExperienceAfterAnswer ==
  \A k \in requested : k \in answered /\ executions[k].state = "COMPLETED"

(* What NothingLost and ExperienceAfterAnswer rest on: a handler publishes *)
(* the result first, then the experience message, then acknowledges.       *)
PublishedInOrder ==
  \A w \in Worker :
    /\ AtPc(w, "experience") => KeyOf(w) \in answered
    /\ AtPc(w, "ack") => Done(KeyOf(w))

(* The inductive invariant behind the two, given IInv. *)
DeliveryInv == PublishedInOrder /\ NothingLost /\ ExperienceAfterAnswer

(* A command is in the queue or out for delivery at most once: however     *)
(* often it is returned, no copy of it is left behind, nor any once it has *)
(* gone to the dead letters.                                               *)
QueuedOnce ==
  /\ \A i, j \in DOMAIN commands : commands[i].key = commands[j].key => i = j
  /\ \A k \in Command : Outstanding(k) => ~Ready(k)
  /\ \A k \in dead : gateway[k].phase # "new" /\ ~Ready(k) /\ ~Outstanding(k)

(* The safety half of EveryCommandSettles: no crash or late failure of a   *)
(* handler that was cut off brings back a command that was acknowledged or *)
(* dead-lettered, and no client submits it again.                          *)
StaySettled ==
  \A k \in Command : gateway[k].phase # "new" /\ ~Ready(k) /\ ~Outstanding(k) =>
    ~Ready(k)' /\ ~Outstanding(k)'

SettledForGood == [][StaySettled]_vars

(* Every command the broker accepted is eventually done with, whatever     *)
(* crashes: the delivery limit bounds the retries, the leases the waits.   *)
EveryCommandSettles ==
  \A k \in Command :
    (Ready(k) \/ Outstanding(k)) ~> [](~Ready(k) /\ ~Outstanding(k))

(* What the system promises to the Gateway's clients, see TaskOutcome: the *)
(* outcome of a task is the finished execution in the Registry.            *)
PromisedOutcome ==
  [k \in Command |->
     IF executions[k].state \in Store!Terminal THEN Recorded(k) ELSE NoOutcome]

Promise == INSTANCE TaskOutcome WITH
  Text <- Token, Empty <- 0, outcome <- PromisedOutcome, task <- gateway

PromiseSpec == Promise!Spec
=============================================================================
