------------------------ MODULE ExperienceCollection ------------------------
(***************************************************************************)
(* Collecting the experience of completed tasks: the partition of the      *)
(* experience queue, the workers that consume it (worker.py,               *)
(* _handle_experience_message), the Registry's experience leases and the   *)
(* memories written to MemOS (experience.py).                              *)
(*                                                                         *)
(* The queue is declared as the command queues are, so deliveries and      *)
(* returns are those of TaskExecution.  A CollectExperience message can be *)
(* there more than once: the command it follows may be redelivered after   *)
(* it was published.  The executions are all recorded as COMPLETED, which  *)
(* TaskExecution shows to precede the message.                             *)
(***************************************************************************)
EXTENDS Naturals, Sequences, FiniteSets

CONSTANTS
  Agent, Task,
  Worker,         \* handler slots of the workers
  WorkerLease,    \* A2A_WORKER_LEASE_SECONDS, in ticks
  MaxCollection,  \* the longest reflection and write, in ticks
  DeliveryLimit,  \* x-delivery-limit of the experience queues
  MaxCopies,      \* bound on the messages published for one task
  MaxClaims,      \* bound on claims, see ExecutionStore
  NoWorker, NoMessage

ASSUME CollectionAssumption ==
  /\ WorkerLease \in Nat \ {0}
  /\ MaxCollection \in Nat /\ MaxCollection < WorkerLease
  /\ DeliveryLimit \in Nat /\ MaxCopies \in Nat
  /\ MaxClaims \in Nat \ {0}  \* the executions have been claimed already
  /\ NoWorker \notin Worker
  /\ NoMessage \notin Agent \X Task

VARIABLES
  agents, executions, experiences, issued,  \* the Registry's tables
  messages,   \* the ready messages of the partition, in order
  unacked,    \* the worker that holds the outstanding delivery, or NoWorker
  handler,    \* what each handler is doing
  dead,       \* the messages in the dead letter queue
  copies,     \* how often the message of a task was published
  memories    \* MemOS: the claims under which a task's experience was written

storeVars == <<agents, executions, experiences, issued>>
brokerVars == <<messages, unacked, dead>>
vars == <<storeVars, brokerVars, handler, copies, memories>>

(* An ExperienceCommand is named by its (agent, task), and so is its id.   *)
Key == Agent \X Task
Token == 0 .. MaxClaims

Store == INSTANCE ExecutionStore
           WITH Message <- Key, Text <- Token, Empty <- 0, MaxLease <- WorkerLease

Envelope == [key: Key, returns: 0 .. DeliveryLimit]

Handler ==
  [pc: {"claim", "reflect", "write", "complete", "release", "ack"},
   msg: Envelope, token: Token, wait: 0 .. WorkerLease, timer: 0 .. MaxCollection]
Idle == [pc |-> "idle"]

TypeOK ==
  /\ Store!TypeOK
  /\ messages \in Seq(Envelope)
  /\ unacked \in Worker \cup {NoWorker}
  /\ handler \in [Worker -> Handler \cup {Idle}]
  /\ dead \in SUBSET Key
  /\ copies \in [Key -> 0 .. MaxCopies]
  /\ memories \in [Key -> SUBSET Token]

(* The task was executed and its result recorded. *)
Finished(k) ==
  [state |-> "COMPLETED", message |-> k, token |-> 0, lease |-> 0, attempt |-> 1, text |-> 0]

Init ==
  /\ agents = Agent
  /\ executions = [k \in Key |-> Finished(k)]
  /\ experiences = [k \in Key |-> Store!NoRow]
  /\ issued = 1
  /\ messages = <<>>
  /\ unacked = NoWorker
  /\ handler = [w \in Worker |-> Idle]
  /\ dead = {}
  /\ copies = [k \in Key |-> 0]
  /\ memories = [k \in Key |-> {}]

-----------------------------------------------------------------------------
(* The queue. *)

(* A worker publishes the message of a completed task, perhaps again. *)
Request(k) ==
  /\ copies[k] < MaxCopies
  /\ copies' = [copies EXCEPT ![k] = @ + 1]
  /\ messages' = Append(messages, [key |-> k, returns |-> 0])
  /\ UNCHANGED <<storeVars, unacked, dead, handler, memories>>

Deliver(w) ==
  /\ unacked = NoWorker
  /\ messages # <<>>
  /\ handler[w] = Idle
  /\ unacked' = w
  /\ messages' = Tail(messages)
  /\ handler' = [handler EXCEPT ![w] =
       [pc |-> "claim", msg |-> Head(messages), token |-> 0, wait |-> 0, timer |-> 0]]
  /\ UNCHANGED <<storeVars, dead, copies, memories>>

(* Mutant of Requeue: the queue has no delivery limit. *)
RequeueForever(msg) == messages' = <<msg>> \o messages /\ UNCHANGED dead

Requeue(msg) ==
  IF msg.returns < DeliveryLimit
    THEN messages' = <<[msg EXCEPT !.returns = @ + 1]>> \o messages /\ UNCHANGED dead
    ELSE dead' = dead \cup {msg.key} /\ UNCHANGED messages

ReturnDelivery(w) ==
  IF unacked = w THEN unacked' = NoWorker /\ Requeue(handler[w].msg)
  ELSE UNCHANGED brokerVars

Settled(w) == unacked' = IF unacked = w THEN NoWorker ELSE unacked

-----------------------------------------------------------------------------
(* _handle_experience_message. *)

At(w, pc) == handler[w].pc = pc
KeyOf(w) == handler[w].msg.key
Goes(w, pc) == handler' = [handler EXCEPT ![w].pc = pc]

(* nack(requeue=True), and the handler ends. *)
Abandon(w) ==
  /\ ReturnDelivery(w)
  /\ handler' = [handler EXCEPT ![w] = Idle]
  /\ UNCHANGED copies

ClaimReady(w) == At(w, "claim") /\ handler[w].wait = 0

ClaimGranted(w) ==
  /\ ClaimReady(w)
  /\ Store!ClaimExperience(KeyOf(w), KeyOf(w), WorkerLease)
  /\ handler' = [handler EXCEPT ![w].pc = "reflect", ![w].token = issued',
                                ![w].timer = MaxCollection]
  /\ UNCHANGED <<brokerVars, copies, memories>>

(* Mutant of ClaimReplays: a replay is taken for a grant. *)
CollectAgain(w) ==
  /\ ClaimReady(w)
  /\ experiences[KeyOf(w)].state = "COMPLETED"
  /\ Goes(w, "reflect")
  /\ UNCHANGED <<storeVars, brokerVars, copies, memories>>

(* REPLAY: the report is there already. *)
ClaimReplays(w) ==
  /\ ClaimReady(w)
  /\ experiences[KeyOf(w)].state = "COMPLETED"
  /\ Goes(w, "ack")
  /\ UNCHANGED <<storeVars, brokerVars, copies, memories>>

ClaimBusy(w) ==
  /\ ClaimReady(w)
  /\ experiences[KeyOf(w)].state \in {"RUNNING", "PENDING"}
  /\ experiences[KeyOf(w)].lease > 0
  /\ handler' = [handler EXCEPT ![w].wait = experiences[KeyOf(w)].lease]
  /\ UNCHANGED <<storeVars, brokerVars, copies, memories>>

(* The request raises before or after the claim was granted.  Without its  *)
(* token the worker cannot release it.                                     *)
ClaimFails(w) ==
  /\ ClaimReady(w)
  /\ \/ Store!ClaimExperience(KeyOf(w), KeyOf(w), WorkerLease)
     \/ UNCHANGED storeVars
  /\ Abandon(w)
  /\ UNCHANGED memories

(* Mutant of Reflect: the report is recorded before anything is written. *)
ReflectUnwritten(w) ==
  /\ At(w, "reflect")
  /\ Goes(w, "complete")
  /\ UNCHANGED <<storeVars, brokerVars, copies, memories>>

(* The agent answers with a reflection. *)
Reflect(w) ==
  /\ At(w, "reflect")
  /\ Goes(w, "write")
  /\ UNCHANGED <<storeVars, brokerVars, copies, memories>>

Remembered(w) == memories' = [memories EXCEPT ![KeyOf(w)] = @ \cup {handler[w].token}]

Write(w) ==
  /\ At(w, "write")
  /\ Remembered(w)
  /\ Goes(w, "complete")
  /\ UNCHANGED <<storeVars, brokerVars, copies>>

(* The agent, its reflection, or MemOS fails; MemOS may have the memory.   *)
CollectionFails(w) ==
  /\ At(w, "reflect") \/ At(w, "write")
  /\ \/ At(w, "write") /\ Remembered(w)
     \/ UNCHANGED memories
  /\ Goes(w, "release")
  /\ UNCHANGED <<storeVars, brokerVars, copies>>

Complete(w) ==
  Store!CompleteExperience(KeyOf(w), KeyOf(w), handler[w].token, handler[w].token)

CompleteRecorded(w) ==
  /\ At(w, "complete")
  /\ Complete(w)
  /\ Goes(w, "ack")
  /\ UNCHANGED <<brokerVars, copies, memories>>

(* Somebody else's report is there: the answer is a duplicate. *)
CompleteDuplicate(w) ==
  /\ At(w, "complete")
  /\ experiences[KeyOf(w)].state = "COMPLETED"
  /\ Goes(w, "ack")
  /\ UNCHANGED <<storeVars, brokerVars, copies, memories>>

(* The claim is stale, or the request raises before or after the report    *)
(* was recorded.                                                           *)
CompleteFails(w) ==
  /\ At(w, "complete")
  /\ Complete(w) \/ UNCHANGED storeVars
  /\ Goes(w, "release")
  /\ UNCHANGED <<brokerVars, copies, memories>>

(* Mutant of Release: the message is acknowledged, not returned. *)
ReleaseAndDrop(w) ==
  /\ At(w, "release")
  /\ \/ Store!ReleaseExperience(KeyOf(w), KeyOf(w), handler[w].token)
     \/ UNCHANGED storeVars
  /\ Settled(w)
  /\ handler' = [handler EXCEPT ![w] = Idle]
  /\ UNCHANGED <<messages, dead, copies, memories>>

(* The claim is given back, unless that fails too or comes too late. *)
Release(w) ==
  /\ At(w, "release")
  /\ \/ Store!ReleaseExperience(KeyOf(w), KeyOf(w), handler[w].token)
     \/ UNCHANGED storeVars
  /\ Abandon(w)
  /\ UNCHANGED memories

Acknowledge(w) ==
  /\ At(w, "ack")
  /\ Settled(w)
  /\ handler' = [handler EXCEPT ![w] = Idle]
  /\ UNCHANGED <<storeVars, messages, dead, copies, memories>>

-----------------------------------------------------------------------------
(* Failures and time. *)

Crash(w) ==
  /\ handler[w] # Idle
  /\ Abandon(w)
  /\ UNCHANGED <<storeVars, memories>>

(* The connection of the worker is lost, and its handler goes on. *)
Disconnect(w) ==
  /\ unacked = w
  /\ ReturnDelivery(w)
  /\ UNCHANGED <<storeVars, handler, copies, memories>>

Elapsed(n) == IF n > 0 THEN n - 1 ELSE 0

Collecting(w) == At(w, "reflect") \/ At(w, "write")

Tick ==
  /\ \A w \in Worker : Collecting(w) => handler[w].timer > 0
  /\ Store!Tick
  /\ handler' = [w \in Worker |->
       IF handler[w] = Idle THEN Idle
       ELSE [handler[w] EXCEPT !.wait = Elapsed(@), !.timer = Elapsed(@)]]
  /\ UNCHANGED <<brokerVars, copies, memories>>

-----------------------------------------------------------------------------
WorkerStep(w) ==
  \/ ClaimGranted(w) \/ ClaimReplays(w) \/ ClaimBusy(w) \/ ClaimFails(w)
  \/ Reflect(w) \/ Write(w) \/ CollectionFails(w)
  \/ CompleteRecorded(w) \/ CompleteDuplicate(w) \/ CompleteFails(w)
  \/ Release(w) \/ Acknowledge(w)

Next ==
  \/ \E k \in Key : Request(k)
  \/ \E w \in Worker : Deliver(w) \/ WorkerStep(w) \/ Crash(w) \/ Disconnect(w)
  \/ Tick

Spec == Init /\ [][Next]_vars

(* As in TaskExecution: what is ready runs, the broker delivers, and time  *)
(* passes.                                                                 *)
Fairness ==
  /\ \A w \in Worker : WF_vars(WorkerStep(w))
  /\ WF_vars(\E w \in Worker : Deliver(w))
  /\ WF_vars(Tick)

FairSpec == Spec /\ Fairness

-----------------------------------------------------------------------------
(* Properties. *)

(* The lease of a collection outlasts it: the agent is never asked to      *)
(* reflect on a task twice at the same time, or on one whose report is     *)
(* recorded, however often the message was published and redelivered.      *)
CollectorHoldsLease ==
  \A w \in Worker : Collecting(w) =>
    LET row == experiences[KeyOf(w)] IN
    row.state = "RUNNING" /\ row.token = handler[w].token /\ row.lease > handler[w].timer

(* README.md: "a completed collection is replayed without invoking the     *)
(* Agent again".  Once the report of a task is recorded, nothing more is   *)
(* written to MemOS for it.                                                *)
WritesEnd ==
  \A k \in Key : experiences[k].state = "COMPLETED" => memories'[k] = memories[k]

NoWriteAfterReport == [][WritesEnd]_vars

(* A recorded report is the one that was written to MemOS under the claim  *)
(* that completed it.                                                      *)
ReportIsRemembered ==
  \A k \in Key : experiences[k].state = "COMPLETED" =>
    experiences[k].text = experiences[k].token /\ experiences[k].token \in memories[k]

Ready(k) == \E i \in DOMAIN messages : messages[i].key = k
Outstanding(k) == unacked # NoWorker /\ KeyOf(unacked) = k

(* A message leaves the queue only with the report recorded, or into the   *)
(* dead letters.                                                           *)
NothingUncollected ==
  \A k \in Key : copies[k] > 0 =>
    \/ Ready(k) \/ Outstanding(k) \/ k \in dead
    \/ experiences[k].state = "COMPLETED"

(* What these rest on.  The token under which a handler collects was       *)
(* issued to it alone, and MemOS has what it is about to report.           *)
Owns(w) == handler[w].pc \in {"reflect", "write", "complete", "release"}

TokensExclusive ==
  \A w \in Worker : Owns(w) =>
    /\ handler[w].token \in 1 .. issued
    /\ \A v \in Worker : Owns(v) /\ handler[v].token = handler[w].token => v = w

InOrder ==
  \A w \in Worker :
    /\ At(w, "complete") => handler[w].token \in memories[KeyOf(w)]
    /\ At(w, "ack") => experiences[KeyOf(w)].state = "COMPLETED"

DeliveryHasHandler == unacked # NoWorker => handler[unacked] # Idle

IInv ==
  /\ TypeOK /\ Store!IInv
  /\ TokensExclusive /\ InOrder /\ DeliveryHasHandler
  /\ CollectorHoldsLease /\ ReportIsRemembered /\ NothingUncollected

(* Every message is done with in the end, whatever crashes. *)
EveryMessageSettles ==
  \A k \in Key : (Ready(k) \/ Outstanding(k)) ~> (~Ready(k) /\ ~Outstanding(k))
=============================================================================
