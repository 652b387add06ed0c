--------------------------- MODULE ExecutionStore ---------------------------
(***************************************************************************)
(* The Registry's durable execution records (execution_store.py).          *)
(*                                                                         *)
(* A queue worker must own a lease on (agent, task) before it calls the    *)
(* agent, and hands its result back under the claim token of that lease.   *)
(* A second table leases the collection of the experience of a completed   *)
(* task.  Each operation is one SQLite transaction inside a handler that   *)
(* never awaits, hence one atomic step here.                               *)
(*                                                                         *)
(* A row keeps what the decisions read.  lease_until is kept as the time   *)
(* left on the Registry's clock, so that a lease of 0 has expired; a       *)
(* missing row is the record NoRow.  Worker names, timestamps and error    *)
(* texts are left out: nothing is decided by them.                         *)
(*                                                                         *)
(* An operation that is refused, answers BUSY or replays a stored result   *)
(* changes nothing; the predicates below say which answer a caller gets.   *)
(***************************************************************************)
EXTENDS Integers

CONSTANTS
  Agent,      \* agent_id values
  Task,       \* task_id values
  Message,    \* message_id values
  NoMessage,  \* the message_id of a missing row
  Text,       \* result texts and experience reports
  Empty,      \* the empty text
  MaxLease,   \* the longest lease a caller asks for, in ticks
  MaxClaims   \* bound on the claim tokens handed out (uuid4 in the code)

ASSUME StoreAssumption ==
  /\ NoMessage \notin Message
  /\ Empty \in Text
  /\ MaxLease \in Nat \ {0}
  /\ MaxClaims \in Nat

VARIABLES
  agents,       \* the registered agent ids (table agents)
  executions,   \* table task_executions
  experiences,  \* table task_experiences
  issued        \* number of claim tokens handed out: the tokens are 1 .. issued

vars == <<agents, executions, experiences, issued>>

(* The primary key of both tables. *)
Key == Agent \X Task

Terminal == {"COMPLETED", "FAILED"}

Row(states) ==
  [state: states, message: Message \cup {NoMessage}, token: 0 .. MaxClaims,
   lease: 0 .. MaxLease, attempt: 0 .. MaxClaims, text: Text]

ExecutionRow == Row({"NONE", "RUNNING"} \cup Terminal)
ExperienceRow == Row({"NONE", "RUNNING", "PENDING", "COMPLETED"})

NoRow == [state |-> "NONE", message |-> NoMessage, token |-> 0,
          lease |-> 0, attempt |-> 0, text |-> Empty]

TypeOK ==
  /\ agents \in SUBSET Agent
  /\ executions \in [Key -> ExecutionRow]
  /\ experiences \in [Key -> ExperienceRow]
  /\ issued \in 0 .. MaxClaims

-----------------------------------------------------------------------------
(* Task executions. *)

(* The message_id column is UNIQUE: an insert of a used one fails. *)
Unused(table, m) == \A k \in Key : table[k].message # m

(* The row claim() writes, be it the insert or the renewal of a lease. *)
Claimed(row, m, d) ==
  [state |-> "RUNNING", message |-> m, token |-> issued + 1, lease |-> d,
   attempt |-> row.attempt + 1, text |-> row.text]

(* Mutant of MayExecute: the lease of the current owner is not looked at. *)
ExecuteLeased(k, m) ==
  /\ k[1] \in agents
  /\ \/ executions[k].state = "NONE" /\ Unused(executions, m)
     \/ executions[k].state = "RUNNING" /\ executions[k].message = m

(* The decisions of claim(): EXECUTE, REPLAY and BUSY. *)
MayExecute(k, m) ==
  /\ k[1] \in agents
  /\ \/ executions[k].state = "NONE" /\ Unused(executions, m)
     \/ /\ executions[k].state = "RUNNING"
        /\ executions[k].message = m
        /\ executions[k].lease = 0

Replays(k, m) ==
  /\ k[1] \in agents
  /\ executions[k].message = m
  /\ executions[k].state \in Terminal

Busy(k, m) ==
  /\ k[1] \in agents
  /\ executions[k].message = m
  /\ executions[k].state = "RUNNING"
  /\ executions[k].lease > 0

ClaimExecution(k, m, d) ==
  /\ issued < MaxClaims
  /\ MayExecute(k, m)
  /\ issued' = issued + 1
  /\ executions' = [executions EXCEPT ![k] = Claimed(@, m, d)]
  /\ UNCHANGED <<agents, experiences>>

(* Mutant of MayComplete: the token alone decides. *)
CompleteByToken(k, m, token) ==
  executions[k].message = m /\ executions[k].token = token

(* complete() answers the stored result of a finished execution, whatever  *)
(* the token; it refuses a stale token only for one that still runs.       *)
IsDuplicate(k, m) ==
  /\ executions[k].message = m
  /\ executions[k].state \in Terminal

MayComplete(k, m, token) ==
  /\ executions[k].message = m
  /\ executions[k].state = "RUNNING"
  /\ executions[k].token = token

CompleteExecution(k, m, token, state, text) ==
  /\ MayComplete(k, m, token)
  /\ executions' = [executions EXCEPT ![k].state = state, ![k].text = text,
                                      ![k].lease = 0]
  /\ UNCHANGED <<agents, experiences, issued>>

-----------------------------------------------------------------------------
(* Task experiences. *)

(* Mutant of MayCollect: any finished execution will do. *)
CollectFinished(k, m) ==
  /\ executions[k].state \in Terminal
  /\ \/ experiences[k].state = "NONE" /\ Unused(experiences, m)
     \/ /\ experiences[k].state \in {"RUNNING", "PENDING"}
        /\ experiences[k].message = m
        /\ experiences[k].lease = 0

(* Another mutant of MayCollect: the lease is not looked at. *)
CollectLeased(k, m) ==
  /\ executions[k].state = "COMPLETED"
  /\ \/ experiences[k].state = "NONE" /\ Unused(experiences, m)
     \/ experiences[k].state \in {"RUNNING", "PENDING"} /\ experiences[k].message = m

MayCollect(k, m) ==
  /\ executions[k].state = "COMPLETED"
  /\ \/ experiences[k].state = "NONE" /\ Unused(experiences, m)
     \/ /\ experiences[k].state \in {"RUNNING", "PENDING"}
        /\ experiences[k].message = m
        /\ experiences[k].lease = 0

ClaimExperience(k, m, d) ==
  /\ issued < MaxClaims
  /\ MayCollect(k, m)
  /\ issued' = issued + 1
  /\ experiences' = [experiences EXCEPT ![k] = Claimed(@, m, d)]
  /\ UNCHANGED <<agents, executions>>

(* Mutant of HoldsExperience: the token alone decides. *)
HoldsByToken(k, m, token) ==
  experiences[k].message = m /\ experiences[k].token = token

(* The guard complete_experience() and release_experience() share. *)
HoldsExperience(k, m, token) ==
  /\ experiences[k].message = m
  /\ experiences[k].state \in {"RUNNING", "PENDING"}
  /\ experiences[k].token = token

CompleteExperience(k, m, token, report) ==
  /\ HoldsExperience(k, m, token)
  /\ experiences' = [experiences EXCEPT ![k].state = "COMPLETED",
                                        ![k].text = report, ![k].lease = 0]
  /\ UNCHANGED <<agents, executions, issued>>

ReleaseExperience(k, m, token) ==
  /\ HoldsExperience(k, m, token)
  /\ experiences' = [experiences EXCEPT ![k].state = "PENDING",
                                        ![k].token = 0, ![k].lease = 0]
  /\ UNCHANGED <<agents, executions, issued>>

-----------------------------------------------------------------------------
(* The agents table and the clock. *)

RegisterAgent(a) ==
  /\ a \notin agents
  /\ agents' = agents \cup {a}
  /\ UNCHANGED <<executions, experiences, issued>>

(* Mutant of Cascade: foreign keys are not enforced, SQLite's default. *)
NoCascade(table, a) == table

(* ON DELETE CASCADE: the rows of the agent go, then theirs. *)
Cascade(table, a) == [k \in Key |-> IF k[1] = a THEN NoRow ELSE table[k]]

DeleteAgent(a) ==
  /\ a \in agents
  /\ agents' = agents \ {a}
  /\ executions' = Cascade(executions, a)
  /\ experiences' = Cascade(experiences, a)
  /\ UNCHANGED issued

Aged(table) ==
  [k \in Key |-> [table[k] EXCEPT !.lease = IF @ > 0 THEN @ - 1 ELSE 0]]

Tick ==
  /\ executions' = Aged(executions)
  /\ experiences' = Aged(experiences)
  /\ UNCHANGED <<agents, issued>>

-----------------------------------------------------------------------------
Init ==
  /\ agents \in SUBSET Agent
  /\ executions = [k \in Key |-> NoRow]
  /\ experiences = [k \in Key |-> NoRow]
  /\ issued = 0

ExecutionOp(k, m) ==
  \/ \E d \in 1 .. MaxLease : ClaimExecution(k, m, d)
  \/ \E token \in 1 .. issued, state \in Terminal, text \in Text :
       CompleteExecution(k, m, token, state, text)

ExperienceOp(k, m) ==
  \/ \E d \in 1 .. MaxLease : ClaimExperience(k, m, d)
  \/ \E token \in 1 .. issued, report \in Text :
       CompleteExperience(k, m, token, report)
  \/ \E token \in 1 .. issued : ReleaseExperience(k, m, token)

Next ==
  \/ \E k \in Key, m \in Message : ExecutionOp(k, m) \/ ExperienceOp(k, m)
  \/ \E a \in Agent : RegisterAgent(a) \/ DeleteAgent(a)
  \/ Tick

Spec == Init /\ [][Next]_vars

-----------------------------------------------------------------------------
(* Properties. *)

(* An experience is only ever collected for an execution that is recorded  *)
(* as COMPLETED, and does not outlive it when the agent is deleted.        *)
ExperienceOfCompletedTask ==
  \A k \in Key : experiences[k].state # "NONE" => executions[k].state = "COMPLETED"

(* A claim token opens one row: no two rows, of the same table or not, can *)
(* be completed or released with the same token.                           *)
TokensUnique ==
  /\ \A k1, k2 \in Key :
       executions[k1].token # 0 => executions[k1].token # experiences[k2].token
  /\ \A k1, k2 \in Key : k1 # k2 =>
       /\ executions[k1].token # 0 => executions[k1].token # executions[k2].token
       /\ experiences[k1].token # 0 => experiences[k1].token # experiences[k2].token

(* A row has been claimed at most as often as tokens were handed out, and  *)
(* its token is one of them.                                               *)
ClaimsCounted ==
  \A k \in Key :
    /\ executions[k].token <= issued /\ executions[k].attempt <= issued
    /\ experiences[k].token <= issued /\ experiences[k].attempt <= issued

(* A row holds a lease only while somebody works under its token. *)
OnlyRunningRowsLeased ==
  \A k \in Key :
    /\ executions[k].lease > 0 => executions[k].state = "RUNNING"
    /\ experiences[k].lease > 0 => experiences[k].state = "RUNNING"

(* The rows of a deleted agent are gone: a later registration under the    *)
(* same id starts with no record of the old one's tasks.                   *)
NoOrphanRows ==
  \A k \in Key : k[1] \notin agents =>
    executions[k] = NoRow /\ experiences[k] = NoRow

(* The inductive invariant: each part needs others to be preserved.        *)
IInv ==
  /\ TypeOK
  /\ ClaimsCounted
  /\ ExperienceOfCompletedTask
  /\ TokensUnique
  /\ OnlyRunningRowsLeased
  /\ NoOrphanRows

(* A recorded result is never replaced, by a late completion of an older   *)
(* claim or a repeated one of the same: the row stays as it is until its   *)
(* agent is deleted.  (The token stays valid in a finished row; the order  *)
(* of the checks in complete() is what protects the result.)               *)
KeepsResults ==
  \A k \in Key : executions[k].state \in Terminal =>
    executions'[k] \in {executions[k], NoRow}

ResultImmutable == [][KeepsResults]_vars

(* Likewise for a collected report, which a late release could reset.      *)
KeepsReports ==
  \A k \in Key : experiences[k].state = "COMPLETED" =>
    experiences'[k] \in {experiences[k], NoRow}

ReportImmutable == [][KeepsReports]_vars

(* A new claim never cuts short a lease that still has time left, of an    *)
(* execution or of an experience.                                          *)
KeepsLeases ==
  \A k \in Key :
    /\ executions[k].lease > 0 =>
         \/ executions'[k].token = executions[k].token
         \/ executions'[k] = NoRow
    /\ experiences[k].lease > 0 =>
         \/ experiences'[k].token \in {experiences[k].token, 0}
         \/ experiences'[k] = NoRow

LeaseHonoured == [][KeepsLeases]_vars
=============================================================================
