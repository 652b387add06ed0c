------------------------ MODULE ExecutionStoreProofs ------------------------
(***************************************************************************)
(* Proofs about the Registry's execution records, for any agents, tasks,   *)
(* messages, lease lengths and number of claims.                           *)
(***************************************************************************)
EXTENDS ExecutionStore, TLAPS

USE DEF Key

(* The shape of the rows the operations write. *)
LEMMA NoRowType ==
  /\ NoRow \in ExecutionRow
  /\ NoRow \in ExperienceRow
  /\ NoRow.state = "NONE" /\ NoRow.token = 0 /\ NoRow.attempt = 0 /\ NoRow.lease = 0
BY StoreAssumption DEF NoRow, ExecutionRow, ExperienceRow, Row

LEMMA ClaimedType ==
  ASSUME NEW S, "RUNNING" \in S, NEW row \in Row(S), NEW m \in Message,
         NEW d \in 1 .. MaxLease, issued \in 0 .. MaxClaims, issued < MaxClaims,
         row.attempt <= issued
  PROVE  Claimed(row, m, d) \in Row(S)
BY StoreAssumption DEF Claimed, Row

LEMMA ZeroLease == 0 \in 0 .. MaxLease /\ 0 \in 0 .. MaxClaims
BY StoreAssumption

LEMMA SettledType ==
  ASSUME NEW S, NEW row \in Row(S), NEW state \in S, NEW text \in Text
  PROVE  [row EXCEPT !.state = state, !.text = text, !.lease = 0] \in Row(S)
BY ZeroLease DEF Row

LEMMA ReleasedType ==
  ASSUME NEW S, NEW row \in Row(S), NEW state \in S
  PROVE  [row EXCEPT !.state = state, !.token = 0, !.lease = 0] \in Row(S)
BY ZeroLease DEF Row

(* One tick changes nothing of a row but a lease that is running. *)
AgedRow(new, old) ==
  /\ new.state = old.state
  /\ new.token = old.token
  /\ new.attempt = old.attempt
  /\ old.lease = 0 => new = old
  /\ new.lease <= old.lease

LEMMA AgedType ==
  ASSUME NEW S, NEW table \in [Key -> Row(S)]
  PROVE  /\ Aged(table) \in [Key -> Row(S)]
         /\ \A k \in Key : AgedRow(Aged(table)[k], table[k])
BY StoreAssumption DEF Aged, Row, AgedRow

LEMMA AgedTables ==
  ASSUME TypeOK, Tick
  PROVE  /\ executions' \in [Key -> ExecutionRow]
         /\ experiences' \in [Key -> ExperienceRow]
         /\ \A k \in Key : AgedRow(executions'[k], executions[k])
         /\ \A k \in Key : AgedRow(experiences'[k], experiences[k])
BY AgedType DEF TypeOK, Tick, ExecutionRow, ExperienceRow

LEMMA CascadedTables ==
  ASSUME TypeOK, NEW a \in Agent, DeleteAgent(a)
  PROVE  /\ executions' \in [Key -> ExecutionRow]
         /\ experiences' \in [Key -> ExperienceRow]
         /\ \A k \in Key : executions'[k] = IF k[1] = a THEN NoRow ELSE executions[k]
         /\ \A k \in Key : experiences'[k] = IF k[1] = a THEN NoRow ELSE experiences[k]
BY NoRowType DEF TypeOK, DeleteAgent, Cascade

-----------------------------------------------------------------------------
(* The invariant, one lemma per operation. *)

LEMMA InitIInv == Init => IInv
BY NoRowType, StoreAssumption
DEF   Init, IInv, TypeOK, ClaimsCounted, ExperienceOfCompletedTask,
      TokensUnique, OnlyRunningRowsLeased, NoOrphanRows

LEMMA ClaimExecutionIInv ==
  ASSUME IInv, NEW k \in Key, NEW m \in Message, NEW d \in 1 .. MaxLease,
         ClaimExecution(k, m, d)
  PROVE  IInv'
<1> DEFINE row == Claimed(executions[k], m, d)
<1>1. row \in ExecutionRow
  BY ClaimedType DEF IInv, TypeOK, ClaimsCounted, ClaimExecution, ExecutionRow
<1>2. /\ row.token = issued + 1
      /\ row.attempt = executions[k].attempt + 1
      /\ row.state = "RUNNING"
  BY DEF Claimed
<1>3. /\ executions' = [executions EXCEPT ![k] = row]
      /\ issued' = issued + 1 /\ issued < MaxClaims
      /\ agents' = agents /\ experiences' = experiences
      /\ k[1] \in agents
      /\ executions[k].state \in {"NONE", "RUNNING"}
  BY DEF ClaimExecution, MayExecute
<1> HIDE DEF row
<1>4. TypeOK'
  BY <1>1, <1>3, StoreAssumption DEF IInv, TypeOK
<1>5. ClaimsCounted'
  BY <1>2, <1>3, StoreAssumption DEF IInv, TypeOK, ClaimsCounted, ExecutionRow, ExperienceRow, Row
<1>6. ExperienceOfCompletedTask'
  BY <1>2, <1>3 DEF IInv, TypeOK, ExperienceOfCompletedTask
<1>7. TokensUnique'
  BY <1>2, <1>3 DEF IInv, TypeOK, TokensUnique, ClaimsCounted, Row
<1>8. NoOrphanRows'
  BY <1>3 DEF IInv, TypeOK, NoOrphanRows
<1>9. OnlyRunningRowsLeased'
  BY <1>2, <1>3 DEF IInv, TypeOK, OnlyRunningRowsLeased
<1>10. QED
  BY <1>4, <1>5, <1>6, <1>7, <1>8, <1>9 DEF IInv

LEMMA CompleteExecutionIInv ==
  ASSUME IInv, NEW k \in Key, NEW m \in Message, NEW token, NEW state \in Terminal,
         NEW text \in Text, CompleteExecution(k, m, token, state, text)
  PROVE  IInv'
<1> DEFINE row == [executions[k] EXCEPT !.state = state, !.text = text, !.lease = 0]
<1>1. executions[k] \in ExecutionRow /\ state \in {"NONE", "RUNNING"} \cup Terminal
  BY DEF IInv, TypeOK
<1>2. /\ row \in ExecutionRow
      /\ row.token = executions[k].token
      /\ row.attempt = executions[k].attempt
      /\ row.state = state /\ row.lease = 0
  BY <1>1, SettledType DEF ExecutionRow, Row
<1>3. /\ executions' = [executions EXCEPT ![k] = row]
      /\ issued' = issued /\ agents' = agents /\ experiences' = experiences
      /\ executions[k].state = "RUNNING"
  BY DEF CompleteExecution, MayComplete
<1> HIDE DEF row
<1>4. TypeOK'
  BY <1>2, <1>3 DEF IInv, TypeOK
<1>5. ClaimsCounted'
  BY <1>2, <1>3 DEF IInv, TypeOK, ClaimsCounted
<1>6. ExperienceOfCompletedTask'
  BY <1>2, <1>3 DEF IInv, TypeOK, ExperienceOfCompletedTask
<1>7. TokensUnique'
  BY <1>2, <1>3 DEF IInv, TypeOK, TokensUnique
<1>8. NoOrphanRows'
  <2>1. k[1] \in agents
    BY <1>3 DEF IInv, NoOrphanRows, NoRow
  <2>2. QED
    BY <2>1, <1>3 DEF IInv, TypeOK, NoOrphanRows
<1>9. OnlyRunningRowsLeased'
  BY <1>2, <1>3 DEF IInv, TypeOK, OnlyRunningRowsLeased
<1>10. QED
  BY <1>4, <1>5, <1>6, <1>7, <1>8, <1>9 DEF IInv

LEMMA ClaimExperienceIInv ==
  ASSUME IInv, NEW k \in Key, NEW m \in Message, NEW d \in 1 .. MaxLease,
         ClaimExperience(k, m, d)
  PROVE  IInv'
<1> DEFINE row == Claimed(experiences[k], m, d)
<1>1. row \in ExperienceRow
  BY ClaimedType DEF IInv, TypeOK, ClaimsCounted, ClaimExperience, ExperienceRow
<1>2. /\ row.token = issued + 1
      /\ row.attempt = experiences[k].attempt + 1
      /\ row.state = "RUNNING"
  BY DEF Claimed
<1>3. /\ experiences' = [experiences EXCEPT ![k] = row]
      /\ issued' = issued + 1 /\ issued < MaxClaims
      /\ agents' = agents /\ executions' = executions
      /\ executions[k].state = "COMPLETED"
  BY DEF ClaimExperience, MayCollect
<1> HIDE DEF row
<1>4. TypeOK'
  BY <1>1, <1>3, StoreAssumption DEF IInv, TypeOK
<1>5. ClaimsCounted'
  BY <1>2, <1>3, StoreAssumption DEF IInv, TypeOK, ClaimsCounted, ExecutionRow, ExperienceRow, Row
<1>6. ExperienceOfCompletedTask'
  BY <1>3 DEF IInv, TypeOK, ExperienceOfCompletedTask
<1>7. TokensUnique'
  BY <1>2, <1>3 DEF IInv, TypeOK, TokensUnique, ClaimsCounted, Row
<1>8. NoOrphanRows'
  <2>1. k[1] \in agents
    BY <1>3 DEF IInv, NoOrphanRows, NoRow
  <2>2. QED
    BY <2>1, <1>3 DEF IInv, TypeOK, NoOrphanRows
<1>9. OnlyRunningRowsLeased'
  BY <1>2, <1>3 DEF IInv, TypeOK, OnlyRunningRowsLeased
<1>10. QED
  BY <1>4, <1>5, <1>6, <1>7, <1>8, <1>9 DEF IInv

(* Completing and releasing an experience rewrite a row that exists,       *)
(* keeping its token or dropping it.                                       *)
LEMMA SettledExperienceIInv ==
  ASSUME IInv, NEW k \in Key, NEW row \in ExperienceRow,
         row.token \in {experiences[k].token, 0},
         row.attempt = experiences[k].attempt,
         row.lease = 0,
         experiences[k].state # "NONE",
         experiences' = [experiences EXCEPT ![k] = row],
         UNCHANGED <<agents, executions, issued>>
  PROVE  IInv'
<1>1. TypeOK'
  BY DEF IInv, TypeOK
<1>2. ClaimsCounted'
  BY DEF IInv, TypeOK, ClaimsCounted, Row
<1>3. ExperienceOfCompletedTask'
  BY DEF IInv, TypeOK, ExperienceOfCompletedTask
<1>4. TokensUnique'
  BY DEF IInv, TypeOK, TokensUnique
<1>5. NoOrphanRows'
  <2>1. k[1] \in agents
    BY DEF IInv, NoOrphanRows, NoRow
  <2>2. QED
    BY <2>1 DEF IInv, TypeOK, NoOrphanRows
<1>6. OnlyRunningRowsLeased'
  BY DEF IInv, TypeOK, OnlyRunningRowsLeased
<1>7. QED
  BY <1>1, <1>2, <1>3, <1>4, <1>5, <1>6 DEF IInv

LEMMA CompleteExperienceIInv ==
  ASSUME IInv, NEW k \in Key, NEW m \in Message, NEW token, NEW report \in Text,
         CompleteExperience(k, m, token, report)
  PROVE  IInv'
<1> DEFINE row == [experiences[k] EXCEPT !.state = "COMPLETED", !.text = report, !.lease = 0]
<1>1. experiences[k] \in ExperienceRow
  BY DEF IInv, TypeOK
<1>2. /\ row \in ExperienceRow
      /\ row.token = experiences[k].token
      /\ row.attempt = experiences[k].attempt
      /\ row.lease = 0
  BY <1>1, SettledType DEF ExperienceRow, Row
<1>3. /\ experiences' = [experiences EXCEPT ![k] = row]
      /\ UNCHANGED <<agents, executions, issued>>
      /\ experiences[k].state # "NONE"
  BY DEF CompleteExperience, HoldsExperience
<1>4. QED
  BY <1>2, <1>3, SettledExperienceIInv

LEMMA ReleaseExperienceIInv ==
  ASSUME IInv, NEW k \in Key, NEW m \in Message, NEW token,
         ReleaseExperience(k, m, token)
  PROVE  IInv'
<1> DEFINE row == [experiences[k] EXCEPT !.state = "PENDING", !.token = 0, !.lease = 0]
<1>1. experiences[k] \in ExperienceRow
  BY DEF IInv, TypeOK
<1>2. /\ row \in ExperienceRow
      /\ row.token = 0
      /\ row.attempt = experiences[k].attempt
      /\ row.lease = 0
  BY <1>1, ReleasedType DEF ExperienceRow, Row
<1>3. /\ experiences' = [experiences EXCEPT ![k] = row]
      /\ UNCHANGED <<agents, executions, issued>>
      /\ experiences[k].state # "NONE"
  BY DEF ReleaseExperience, HoldsExperience
<1>4. QED
  BY <1>2, <1>3, SettledExperienceIInv

LEMMA DeleteAgentIInv ==
  ASSUME IInv, NEW a \in Agent, DeleteAgent(a)
  PROVE  IInv'
<1>1. agents' = agents \ {a} /\ issued' = issued
  BY DEF DeleteAgent
<1>2. /\ executions' \in [Key -> ExecutionRow]
      /\ \A k \in Key : executions'[k] = IF k[1] = a THEN NoRow ELSE executions[k]
  BY CascadedTables DEF IInv
<1>3. /\ experiences' \in [Key -> ExperienceRow]
      /\ \A k \in Key : experiences'[k] = IF k[1] = a THEN NoRow ELSE experiences[k]
  BY CascadedTables DEF IInv
<1>4. NoRow.token = 0 /\ NoRow.attempt = 0 /\ NoRow.state = "NONE"
  BY NoRowType
<1>5. TypeOK'
  BY <1>1, <1>2, <1>3 DEF IInv, TypeOK
<1>6. ClaimsCounted'
  BY <1>1, <1>2, <1>3, <1>4 DEF IInv, TypeOK, ClaimsCounted
<1>7. ExperienceOfCompletedTask'
  BY <1>2, <1>3, <1>4 DEF IInv, ExperienceOfCompletedTask
<1>8. TokensUnique'
  BY <1>2, <1>3, <1>4 DEF IInv, TokensUnique
<1>9. NoOrphanRows'
  BY <1>1, <1>2, <1>3 DEF IInv, NoOrphanRows
<1>10. OnlyRunningRowsLeased'
  BY NoRowType, <1>2, <1>3 DEF IInv, OnlyRunningRowsLeased
<1>11. QED
  BY <1>5, <1>6, <1>7, <1>8, <1>9, <1>10 DEF IInv

LEMMA TickIInv ==
  ASSUME IInv, Tick
  PROVE  IInv'
<1>1. agents' = agents /\ issued' = issued
  BY DEF Tick
<1>2. /\ executions' \in [Key -> ExecutionRow]
      /\ \A k \in Key : AgedRow(executions'[k], executions[k])
  BY AgedTables DEF IInv
<1>3. /\ experiences' \in [Key -> ExperienceRow]
      /\ \A k \in Key : AgedRow(experiences'[k], experiences[k])
  BY AgedTables DEF IInv
<1>4. TypeOK'
  BY <1>1, <1>2, <1>3 DEF IInv, TypeOK
<1>5. ClaimsCounted'
  BY <1>1, <1>2, <1>3 DEF IInv, ClaimsCounted, AgedRow
<1>6. ExperienceOfCompletedTask'
  BY <1>2, <1>3 DEF IInv, ExperienceOfCompletedTask, AgedRow
<1>7. TokensUnique'
  BY <1>2, <1>3 DEF IInv, TokensUnique, AgedRow
<1>8. NoOrphanRows'
  BY NoRowType, <1>1, <1>2, <1>3 DEF IInv, NoOrphanRows, AgedRow
<1>9. OnlyRunningRowsLeased'
  BY <1>2, <1>3 DEF IInv, TypeOK, OnlyRunningRowsLeased, AgedRow, ExecutionRow, ExperienceRow, Row
<1>10. QED
  BY <1>4, <1>5, <1>6, <1>7, <1>8, <1>9 DEF IInv

LEMMA NextIInv == IInv /\ [Next]_vars => IInv'
<1> SUFFICES ASSUME IInv, [Next]_vars PROVE IInv'
  OBVIOUS
<1>1. ASSUME NEW k \in Key, NEW m \in Message, ExecutionOp(k, m) PROVE IInv'
  BY <1>1, ClaimExecutionIInv, CompleteExecutionIInv DEF ExecutionOp
<1>2. ASSUME NEW k \in Key, NEW m \in Message, ExperienceOp(k, m) PROVE IInv'
  BY <1>2, ClaimExperienceIInv, CompleteExperienceIInv, ReleaseExperienceIInv
  DEF ExperienceOp
<1>3. ASSUME NEW a \in Agent, RegisterAgent(a) PROVE IInv'
  BY <1>3 DEF RegisterAgent, IInv, TypeOK, ClaimsCounted,
     ExperienceOfCompletedTask, TokensUnique, OnlyRunningRowsLeased, NoOrphanRows
<1>4. ASSUME NEW a \in Agent, DeleteAgent(a) PROVE IInv'
  BY <1>4, DeleteAgentIInv
<1>5. CASE Tick
  BY <1>5, TickIInv
<1>6. CASE UNCHANGED vars
  BY <1>6 DEF vars, IInv, TypeOK, ClaimsCounted,
     ExperienceOfCompletedTask, TokensUnique, OnlyRunningRowsLeased, NoOrphanRows
<1>7. QED
  BY <1>1, <1>2, <1>3, <1>4, <1>5, <1>6 DEF Next

(* The inductive invariant holds of the store in every reachable state.    *)
THEOREM StoreInvariant == Spec => []IInv
<1>1. Init => IInv
  BY InitIInv
<1>2. IInv /\ [Next]_vars => IInv'
  BY NextIInv
<1>3. QED
  BY <1>1, <1>2, PTL DEF Spec

(* The tables have their types: states, tokens, leases and attempts stay   *)
(* in their ranges.                                                        *)
THEOREM TypeCorrect == Spec => []TypeOK
<1>1. IInv => TypeOK
  BY DEF IInv
<1>2. QED
  BY <1>1, StoreInvariant, PTL

(* No experience without a COMPLETED execution, whatever is claimed,       *)
(* released, deleted and registered again.                                 *)
THEOREM ExperiencesFollowExecutions == Spec => []ExperienceOfCompletedTask
<1>1. IInv => ExperienceOfCompletedTask
  BY DEF IInv
<1>2. QED
  BY <1>1, StoreInvariant, PTL

(* A claim token opens one row.                                            *)
THEOREM TokensOpenOneRow == Spec => []TokensUnique
<1>1. IInv => TokensUnique
  BY DEF IInv
<1>2. QED
  BY <1>1, StoreInvariant, PTL

(* Deleting an agent leaves no record of its tasks.                        *)
THEOREM DeletionIsComplete == Spec => []NoOrphanRows
<1>1. IInv => NoOrphanRows
  BY DEF IInv
<1>2. QED
  BY <1>1, StoreInvariant, PTL

-----------------------------------------------------------------------------
(* What a step may not do. *)

(* The steps that touch one row of one table leave all others alone. *)
LEMMA NextKeeps ==
  ASSUME IInv, Next
  PROVE  KeepsResults /\ KeepsReports /\ KeepsLeases
<1> USE DEF IInv, TypeOK, KeepsResults, KeepsReports, KeepsLeases
<1>1. ASSUME NEW k \in Key, NEW m \in Message, ExecutionOp(k, m)
      PROVE  KeepsResults /\ KeepsReports /\ KeepsLeases
  <2>1. ASSUME NEW d \in 1 .. MaxLease, ClaimExecution(k, m, d)
        PROVE  KeepsResults /\ KeepsReports /\ KeepsLeases
    BY <2>1 DEF ClaimExecution, MayExecute, Terminal, OnlyRunningRowsLeased
  <2>2. ASSUME NEW token, NEW state, NEW text,
               CompleteExecution(k, m, token, state, text)
        PROVE  KeepsResults /\ KeepsReports /\ KeepsLeases
    BY <2>2 DEF CompleteExecution, MayComplete, Terminal, ExecutionRow, Row
  <2>3. QED
    BY <1>1, <2>1, <2>2 DEF ExecutionOp
<1>2. ASSUME NEW k \in Key, NEW m \in Message, ExperienceOp(k, m)
      PROVE  KeepsResults /\ KeepsReports /\ KeepsLeases
  <2>1. ASSUME NEW d \in 1 .. MaxLease, ClaimExperience(k, m, d)
        PROVE  KeepsResults /\ KeepsReports /\ KeepsLeases
    BY <2>1 DEF ClaimExperience, MayCollect, OnlyRunningRowsLeased
  <2>2. ASSUME NEW token, NEW report, CompleteExperience(k, m, token, report)
        PROVE  KeepsResults /\ KeepsReports /\ KeepsLeases
    BY <2>2 DEF CompleteExperience, HoldsExperience, ExperienceRow, Row
  <2>3. ASSUME NEW token, ReleaseExperience(k, m, token)
        PROVE  KeepsResults /\ KeepsReports /\ KeepsLeases
    BY <2>3 DEF ReleaseExperience, HoldsExperience, ExperienceRow, Row
  <2>4. QED
    BY <1>2, <2>1, <2>2, <2>3 DEF ExperienceOp
<1>3. ASSUME NEW a \in Agent, RegisterAgent(a)
      PROVE  KeepsResults /\ KeepsReports /\ KeepsLeases
  BY <1>3 DEF RegisterAgent
<1>4. ASSUME NEW a \in Agent, DeleteAgent(a)
      PROVE  KeepsResults /\ KeepsReports /\ KeepsLeases
  BY <1>4, CascadedTables
<1>5. ASSUME Tick
      PROVE  KeepsResults /\ KeepsReports /\ KeepsLeases
  <2>1. /\ \A k \in Key : AgedRow(executions'[k], executions[k])
        /\ \A k \in Key : AgedRow(experiences'[k], experiences[k])
    BY <1>5, AgedTables
  <2>2. \A k \in Key : executions[k].state \in Terminal => executions[k].lease = 0
    BY DEF OnlyRunningRowsLeased, Terminal, ExecutionRow, Row
  <2>3. \A k \in Key : experiences[k].state = "COMPLETED" => experiences[k].lease = 0
    BY DEF OnlyRunningRowsLeased, ExperienceRow, Row
  <2>4. QED
    BY <2>1, <2>2, <2>3 DEF AgedRow
<1>6. QED
  BY <1>1, <1>2, <1>3, <1>4, <1>5 DEF Next

(* Once recorded, the result of an execution only disappears with its      *)
(* agent.                                                                  *)
THEOREM ResultsArePermanent == Spec => ResultImmutable
<1>1. IInv /\ [Next]_vars => [KeepsResults]_vars
  BY NextKeeps
<1>2. QED
  BY <1>1, StoreInvariant, PTL DEF Spec, ResultImmutable

(* So does the report of an experience.                                    *)
THEOREM ReportsArePermanent == Spec => ReportImmutable
<1>1. IInv /\ [Next]_vars => [KeepsReports]_vars
  BY NextKeeps
<1>2. QED
  BY <1>1, StoreInvariant, PTL DEF Spec, ReportImmutable

(* A running lease is not taken over.                                      *)
THEOREM LeasesAreHonoured == Spec => LeaseHonoured
<1>1. IInv /\ [Next]_vars => [KeepsLeases]_vars
  BY NextKeeps
<1>2. QED
  BY <1>1, StoreInvariant, PTL DEF Spec, LeaseHonoured
=============================================================================
