------------------------ MODULE SkillEvolutionProofs ------------------------
(***************************************************************************)
(* Proofs about the evolution of a Skill, for any number of policies,      *)
(* processes, runs and files, and any lease, interval and retry.           *)
(*                                                                         *)
(* The argument: run ids grow, a process that runs a policy is the last    *)
(* that claimed it as long as no lease lapses, so the hash of the policy   *)
(* is the digest of the last run that has one, and what a process fetched  *)
(* is still the current version when it publishes.                         *)
(***************************************************************************)
EXTENDS SkillEvolution, FiniteSetTheorems, SequenceTheorems, TLAPS

-----------------------------------------------------------------------------
(* Rows and run ids. *)

USE DEF Evidence

LEMMA ConstantTypes ==
  /\ Unknown \in PolicyRow /\ NoRun \in RunRow
  /\ Lease \in 0 .. Lease /\ Interval \in 0 .. Interval /\ Retry \in 0 .. Interval
  /\ 0 \in 0 .. Lease /\ 0 \in 0 .. Interval /\ 0 \in Evidence
BY EvolutionAssumption DEF Unknown, PolicyRow, NoRun, RunRow

LEMMA RowFacts ==
  ASSUME TypeOK, NEW p \in Policy
  PROVE  /\ Row(p) \in PolicyRow /\ Row(p).hash = policies[p].hash
         /\ policies[p] # Unknown => Row(p) = policies[p]
         /\ policies[p] = Unknown => Row(p).status = "IDLE"
BY ConstantTypes DEF Row, TypeOK, PolicyRow, Unknown

(* A run id that is handed out is larger than all before. *)
LEMMA NextRunIsNew ==
  ASSUME TypeOK, RunsCounted
  PROVE  /\ NextRun \in Nat /\ Started = 1 .. (NextRun - 1)
         /\ NextRun \notin Started
         /\ \A r \in Started : r < NextRun
<1>1. PICK n \in 0 .. MaxRuns : Started = 1 .. n
  BY DEF RunsCounted
<1>2. n \in Nat
  BY <1>1, EvolutionAssumption
<1>3. Cardinality(1 .. n) = n
  BY <1>2, FS_Interval
<1>4. NextRun = n + 1
  BY <1>1, <1>3 DEF NextRun, Started
<1>5. QED
  BY <1>1, <1>2, <1>4

(* Every version has a run of its own, so there are no more than runs. *)
LEMMA VersionsBounded ==
  ASSUME TypeOK, VersionsOwned
  PROVE  Len(hub) \in 0 .. MaxRuns
<1>1. hub \in Seq(Version) /\ Len(hub) \in Nat /\ MaxRuns \in Nat
  BY EvolutionAssumption DEF TypeOK
<1> DEFINE f == [i \in 1 .. Len(hub) |-> hub[i].run]
<1>2. f \in [1 .. Len(hub) -> RunId]
  <2>1. \A i \in 1 .. Len(hub) : hub[i] \in Version
    BY <1>1
  <2>2. \A i \in 1 .. Len(hub) : hub[i].run \in RunId
    BY <2>1 DEF Version
  <2>3. QED
    BY <2>2
<1>3. /\ IsFiniteSet(1 .. Len(hub)) /\ Cardinality(1 .. Len(hub)) = Len(hub)
      /\ IsFiniteSet(RunId) /\ Cardinality(RunId) = MaxRuns
  <2>1. ASSUME NEW n \in Nat
        PROVE  IsFiniteSet(1 .. n) /\ Cardinality(1 .. n) = n
    BY FS_Interval
  <2>2. QED
    BY <1>1, <2>1 DEF RunId
<1>4. \A i, j \in 1 .. Len(hub) : i # j => hub[i].run # hub[j].run
  <2>1. DOMAIN hub = 1 .. Len(hub)
    BY <1>1
  <2>2. \A i, j \in DOMAIN hub : hub[i].run = hub[j].run => i = j
    BY DEF VersionsOwned
  <2>3. QED
    BY <2>1, <2>2
<1>5. ASSUME MaxRuns < Len(hub) PROVE FALSE
  <2>1. Cardinality(RunId) < Cardinality(1 .. Len(hub))
    BY <1>3, <1>5
  <2>2. \E x, y \in 1 .. Len(hub) : x # y /\ f[x] = f[y]
    <3> HIDE DEF f
    <3> QED
      BY <1>2, <1>3, <2>1, FS_PigeonHole
  <2>3. QED
    BY <2>2, <1>4
<1>6. QED
  BY <1>1, <1>5

LEMMA BusyTypes ==
  ASSUME TypeOK, NEW w \in Runner, Busy(w)
  PROVE  /\ runner[w] \in Running
         /\ runner[w].run \in RunId /\ runner[w].policy \in Policy
         /\ runner[w].found \in Evidence /\ runner[w].base \in 0 .. MaxRuns
         /\ runner[w].unseen \in BOOLEAN /\ runner[w].files \in SUBSET Resource
<1>1. runner[w] \in Running
  BY DEF TypeOK, Busy, At, Idle
<1>2. QED
  BY <1>1 DEF Running

LEMMA RunningIsBusy ==
  ASSUME TypeOK, NEW w \in Runner
  PROVE  Busy(w) <=> runner[w] # Idle
BY DEF TypeOK, Busy, At, Idle, Running

-----------------------------------------------------------------------------
(* The steps of a run. *)

(* What the end of a run makes of its policy and its row. *)
Ended(w) ==
  /\ Busy(w)
  /\ runner' = [runner EXCEPT ![w] = Idle]
  /\ packages' \in SUBSET RunId
  /\ UNCHANGED <<hub, lapsed>>
  /\ \E row \in PolicyRow, run \in RunRow :
       /\ policies' = [policies EXCEPT ![runner[w].policy] = row]
       /\ runs' = [runs EXCEPT ![runner[w].run] = run]
       /\ row.status = "IDLE"
       /\ run.status \in {"COMPLETED", "FAILED"} /\ run.policy = runner[w].policy
       /\ \/ /\ run.digest = 0 /\ row.hash = policies[runner[w].policy].hash
             /\ run.status = "COMPLETED" => At(w, "search")
          \/ /\ run.digest # 0 /\ row.hash = run.digest
             /\ At(w, "search") \/ run.digest = runner[w].found

LEMMA CompleteRows ==
  ASSUME IInv, NEW w \in Runner, Busy(w),
         NEW digest \in Evidence,
         digest = 0 => At(w, "search"),
         digest # 0 => At(w, "search") \/ digest = runner[w].found,
         Complete(runner[w].policy, runner[w].run, digest), Ends(w),
         packages' \in SUBSET RunId, UNCHANGED <<hub, lapsed>>
  PROVE  Ended(w)
<1> DEFINE p == runner[w].policy
           r == runner[w].run
           hash == IF digest = 0 THEN policies[p].hash ELSE digest
           row == [status |-> "IDLE", next |-> Interval, lease |-> 0, hash |-> hash]
           run == [runs[r] EXCEPT !.status = "COMPLETED", !.digest = digest]
<1>1. /\ p \in Policy /\ r \in RunId /\ policies[p] \in PolicyRow /\ runs[r] \in RunRow
      /\ runs[r].policy = p
  BY BusyTypes DEF IInv, TypeOK, RunsOwned
<1>2. hash \in Evidence
  BY <1>1 DEF PolicyRow
<1>3. policies' = [policies EXCEPT ![p] = row] /\ runs' = [runs EXCEPT ![r] = run]
  BY DEF Complete
<1>4. row \in PolicyRow /\ row.status = "IDLE" /\ row.hash = hash
  BY <1>2, ConstantTypes DEF PolicyRow
<1>5. /\ run \in RunRow /\ run.status = "COMPLETED" /\ run.digest = digest
      /\ run.policy = p
  BY <1>1 DEF RunRow
<1>6. IF digest = 0 THEN hash = policies[p].hash ELSE hash = digest
  OBVIOUS
<1> HIDE DEF row, run, hash
<1>7. QED
  BY <1>3, <1>4, <1>5, <1>6 DEF Ended, Ends

LEMMA FailRows ==
  ASSUME IInv, NEW w \in Runner, RunFails(w)
  PROVE  Ended(w)
<1> DEFINE p == runner[w].policy
           r == runner[w].run
           row == [policies[p] EXCEPT !.status = "IDLE", !.next = Retry, !.lease = 0]
           run == [runs[r] EXCEPT !.status = "FAILED"]
<1>0. Busy(w)
  BY DEF RunFails, Busy, At
<1>1. /\ p \in Policy /\ r \in RunId /\ policies[p] \in PolicyRow /\ runs[r] \in RunRow
      /\ runs[r].policy = p /\ runs[r].digest = 0
  BY <1>0, BusyTypes DEF IInv, TypeOK, RunsOwned
<1>2. policies' = [policies EXCEPT ![p] = row] /\ runs' = [runs EXCEPT ![r] = run]
  BY DEF RunFails, Fail
<1>3. row \in PolicyRow /\ row.status = "IDLE" /\ row.hash = policies[p].hash
  BY <1>1, ConstantTypes DEF PolicyRow
<1>4. run \in RunRow /\ run.status = "FAILED" /\ run.digest = 0 /\ run.policy = p
  BY <1>1 DEF RunRow
<1> HIDE DEF row, run
<1>5. QED
  BY <1>0, <1>2, <1>3, <1>4 DEF Ended, Ends, RunFails, worldVars, IInv, TypeOK

(* A candidate that is to be published. *)
Packaged(w) ==
  /\ At(w, "propose") /\ runner[w].policy \in AutoPublish
  /\ packages' \in SUBSET RunId
  /\ UNCHANGED <<storeVars, hub, lapsed>>
  /\ \E files \in SUBSET Resource :
       /\ runner' = [runner EXCEPT ![w].at = "publish", ![w].files = files]
       /\ runner[w].base > 0 => hub[runner[w].base].files \subseteq files

LEMMA ProposeCases ==
  ASSUME IInv, NEW w \in Runner, NEW action \in {"CREATE", "UPDATE", "REVIEW"},
         Propose(w, action)
  PROVE  Ended(w) \/ Packaged(w)
<1> USE DEF IInv
<1>1. /\ At(w, "propose") /\ Busy(w) /\ runner[w].found # 0
      /\ runner[w].base <= Len(hub)
  BY DEF Propose, At, Busy, VersionsOwned
<1>2. /\ runner[w].run \in RunId /\ runner[w].base \in 0 .. MaxRuns
      /\ runner[w].found \in Evidence
  BY <1>1, BusyTypes
<1>3. packages' \in SUBSET RunId
  BY <1>2 DEF Propose, WritePackage, TypeOK
<1>4. CASE runner[w].policy \in AutoPublish /\ action # "REVIEW"
  <2> DEFINE base == IF action = "UPDATE" THEN runner[w].base ELSE 0
  <2>1. PICK written \in SUBSET Resource :
          runner' = [runner EXCEPT ![w].at = "publish", ![w].files = Overlaid(base, written)]
    BY <1>4 DEF Propose, PackageReady
  <2>2. base = runner[w].base
    BY <1>2, <1>4 DEF Propose, Fits
  <2> HIDE DEF base
  <2>3. base > 0 => hub[base] \in Version
    BY <1>1, <1>2, <2>2, EvolutionAssumption DEF TypeOK
  <2>4. /\ Overlaid(base, written) \in SUBSET Resource
        /\ base > 0 => hub[base].files \subseteq Overlaid(base, written)
    BY <2>3 DEF Overlaid, Version
  <2>5. QED
    BY <1>1, <1>3, <1>4, <2>1, <2>2, <2>4 DEF Packaged, Propose
<1>5. CASE ~(runner[w].policy \in AutoPublish /\ action # "REVIEW")
  <2>1. Complete(runner[w].policy, runner[w].run, runner[w].found) /\ Ends(w)
    BY <1>5 DEF Propose
  <2>2. QED
    BY <1>1, <1>2, <1>3, <2>1, CompleteRows DEF Propose
<1>6. QED
  BY <1>4, <1>5

LEMMA FinishCases ==
  ASSUME IInv, NEW w \in Runner, NEW evidence \in Evidence,
         \/ TooLittle(w, evidence) \/ Duplicate(w, evidence)
         \/ NoCandidate(w) \/ Published(w)
  PROVE  Ended(w)
<1> USE DEF IInv
<1>1. Busy(w)
  BY DEF TooLittle, Duplicate, Published, NoCandidate, Busy, At
<1>2. /\ runner[w].found \in Evidence
      /\ packages \in SUBSET RunId /\ 0 \in Evidence
      /\ ~At(w, "search") => runner[w].found # 0
  BY <1>1, BusyTypes, ConstantTypes DEF TypeOK, VersionsOwned
<1>3. PICK digest \in Evidence :
        /\ Finish(w, digest)
        /\ digest = 0 => At(w, "search")
        /\ digest # 0 => At(w, "search") \/ digest = runner[w].found
  <2>1. CASE TooLittle(w, evidence)
    BY <1>2, <2>1 DEF TooLittle
  <2>2. CASE Duplicate(w, evidence)
    BY <1>2, <2>2 DEF Duplicate
  <2>3. CASE Published(w)
    BY <1>2, <2>3 DEF Published, At
  <2>4. CASE NoCandidate(w)
    BY <1>2, <2>4 DEF NoCandidate, At
  <2>5. QED
    BY <1>2, <2>1, <2>2, <2>3, <2>4
<1>4. QED
  BY <1>1, <1>2, <1>3, CompleteRows DEF Finish, worldVars

(* A search that returns new evidence. *)
Finds(w) == \E evidence \in Evidence : Search(w, evidence)

(* Every step is of one of these kinds. *)
LEMMA StepCases ==
  ASSUME IInv, [Next]_vars
  PROVE  \/ UNCHANGED vars
         \/ \E w \in Runner :
              \/ \E p \in Policy : Introduce(w, p) \/ \E force \in BOOLEAN : Start(w, p, force)
              \/ Ended(w) \/ Finds(w) \/ Fetch(w) \/ Packaged(w) \/ Publish(w) \/ Crash(w)
         \/ Recover \/ Tick
<1>1. ASSUME NEW w \in Runner, RunStep(w)
      PROVE  Ended(w) \/ Finds(w) \/ Fetch(w) \/ Packaged(w) \/ Publish(w)
  BY <1>1, FinishCases, ProposeCases, ConstantTypes DEF RunStep, Finds
<1>2. QED
  BY <1>1, FailRows DEF Next

-----------------------------------------------------------------------------
(* The type invariant. *)

LEMMA InitIInv == Init => IInv
<1> SUFFICES ASSUME Init PROVE IInv
  OBVIOUS
<1> USE EvolutionAssumption DEF Init
<1>1. TypeOK
  <2>1. /\ policies \in [Policy -> PolicyRow] /\ runs \in [RunId -> RunRow]
        /\ runner \in [Runner -> Running \cup {Idle}]
    <3>1. Unknown \in PolicyRow /\ NoRun \in RunRow
      BY ConstantTypes
    <3>2. QED
      BY <3>1
  <2>2. hub \in Seq(Version) /\ packages \in SUBSET RunId
    OBVIOUS
  <2>3. QED
    BY <2>1, <2>2 DEF TypeOK
<1>2. /\ Started = {} /\ \A w \in Runner : ~Busy(w)
      /\ \A r \in RunId : runs[r] = NoRun /\ runs[r].digest = 0
      /\ \A p \in Policy : policies[p].status # "RUNNING"
      /\ hub = <<>> /\ DOMAIN hub = {}
  BY DEF Started, Busy, At, Idle, NoRun, Unknown
<1>3. RunsCounted
  <2>1. 0 \in 0 .. MaxRuns /\ 1 .. 0 = {}
    OBVIOUS
  <2>2. QED
    BY <2>1, <1>2 DEF RunsCounted
<1>4. RunsOwned /\ VersionsOwned
  BY <1>2 DEF RunsOwned, VersionsOwned
<1>5. RunningIsRecoverable /\ LeaseHeld /\ OneRunAtATime
  BY <1>2 DEF RunningIsRecoverable, LeaseHeld, OneRunAtATime, Busy
<1>6. HashIsLast /\ VersionsInOrder /\ UnchangedEvidenceSkipped
  BY <1>2 DEF HashIsLast, VersionsInOrder, UnchangedEvidenceSkipped, At, Idle
<1>7. BaseIsCurrent /\ NoLostUpdate
  BY <1>2 DEF BaseIsCurrent, NoLostUpdate, At, Idle
<1>8. QED
  BY <1>1, <1>3, <1>4, <1>5, <1>6, <1>7 DEF IInv

LEMMA StartTypes ==
  ASSUME IInv, NEW w \in Runner, NEW p \in Policy, NEW force \in BOOLEAN, Start(w, p, force)
  PROVE  TypeOK'
<1> USE DEF IInv, TypeOK
<1> DEFINE row == [Row(p) EXCEPT !.status = "RUNNING", !.lease = Lease]
           work == [at |-> "search", run |-> NextRun, policy |-> p, found |-> 0, base |-> 0,
                    unseen |-> FALSE, files |-> {}]
           run == [runs[NextRun] EXCEPT !.status = "RUNNING", !.policy = p]
<1>1. NextRun \in RunId
  BY DEF Start, Claim
<1>2. row \in PolicyRow
  BY RowFacts, ConstantTypes DEF PolicyRow
<1>3. work \in Running
  BY <1>1, ConstantTypes, EvolutionAssumption DEF Running
<1>4. run \in RunRow
  BY <1>1 DEF RunRow
<1>5. /\ policies' = [policies EXCEPT ![p] = row]
      /\ runner' = [runner EXCEPT ![w] = work]
      /\ runs' = [runs EXCEPT ![NextRun] = run]
  BY DEF Start, Claim
<1> HIDE DEF row, work, run
<1>6. QED
  BY <1>1, <1>2, <1>3, <1>4, <1>5 DEF Start, worldVars

LEMMA WorkTypes ==
  ASSUME IInv, NEW w \in Runner, Finds(w) \/ Fetch(w) \/ Packaged(w) \/ Publish(w)
  PROVE  TypeOK'
<1> USE DEF IInv, TypeOK
<1>1. Busy(w)
  BY DEF Finds, Search, Fetch, Packaged, Publish, At, Busy
<1>2. runner[w] \in Running
  BY <1>1, BusyTypes
<1>3. CASE Finds(w)
  <2>1. PICK evidence \in Evidence : Search(w, evidence)
    BY <1>3 DEF Finds
  <2>2. [runner[w] EXCEPT !.at = "fetch", !.found = evidence] \in Running
    BY <1>2 DEF Running
  <2>3. QED
    BY <2>1, <2>2 DEF Search, storeVars, worldVars
<1>4. CASE Fetch(w)
  <2>1. PICK base \in Fetched :
          runner' = [runner EXCEPT ![w].at = "propose", ![w].base = base,
                                   ![w].unseen = base # Len(hub)]
    BY <1>4 DEF Fetch
  <2>2. base \in 0 .. MaxRuns
    <3>1. 0 \in 0 .. MaxRuns
      BY EvolutionAssumption
    <3>2. QED
      BY <3>1, VersionsBounded DEF Fetched
  <2>3. [runner[w] EXCEPT !.at = "propose", !.base = base, !.unseen = base # Len(hub)]
          \in Running
    BY <1>2, <2>2 DEF Running
  <2>4. QED
    BY <1>4, <2>1, <2>3 DEF Fetch, storeVars, worldVars
<1>5. CASE Packaged(w)
  <2>1. PICK files \in SUBSET Resource :
          runner' = [runner EXCEPT ![w].at = "publish", ![w].files = files]
    BY <1>5 DEF Packaged
  <2>2. [runner[w] EXCEPT !.at = "publish", !.files = files] \in Running
    BY <1>2 DEF Running
  <2>3. QED
    BY <1>5, <2>1, <2>2 DEF Packaged, storeVars
<1>6. CASE Publish(w)
  <2> DEFINE version == [run |-> runner[w].run, policy |-> runner[w].policy,
                         found |-> runner[w].found, base |-> runner[w].base,
                         unseen |-> runner[w].unseen, files |-> runner[w].files]
  <2>1. version \in Version
    BY <1>1, BusyTypes DEF Version
  <2>2. hub' = Append(hub, version)
    BY <1>6 DEF Publish
  <2>3. hub' \in Seq(Version)
    <3> HIDE DEF version
    <3> QED
      BY <2>1, <2>2
  <2>4. PICK place \in {"complete", "fail"} : runner' = [runner EXCEPT ![w].at = place]
    BY <1>6 DEF Publish, Goes
  <2>5. [runner[w] EXCEPT !.at = place] \in Running
    BY <1>2 DEF Running
  <2>6. runner' \in [Runner -> Running \cup {Idle}]
    BY <2>4, <2>5
  <2>7. QED
    BY <1>6, <2>3, <2>6 DEF Publish, storeVars
<1>7. QED
  BY <1>3, <1>4, <1>5, <1>6

LEMMA StoreTypes ==
  ASSUME IInv, Recover \/ Tick
  PROVE  TypeOK'
<1> USE DEF IInv, TypeOK
<1>1. CASE Recover
  <2>1. \A p \in Policy :
          [policies[p] EXCEPT !.status = "IDLE", !.next = 0, !.lease = 0] \in PolicyRow
    BY ConstantTypes DEF PolicyRow
  <2>2. \A r \in RunId : [runs[r] EXCEPT !.status = "FAILED"] \in RunRow
    BY DEF RunRow
  <2>3. policies' \in [Policy -> PolicyRow] /\ runs' \in [RunId -> RunRow]
    BY <1>1, <2>1, <2>2 DEF Recover, RecoverRunning
  <2>4. QED
    BY <1>1, <2>3 DEF Recover, worldVars
<1>2. CASE Tick
  <2>1. \A m \in Nat : \A n \in 0 .. m : Aged(n) \in 0 .. m
    BY DEF Aged
  <2>2. ASSUME NEW p \in Policy
        PROVE  [policies[p] EXCEPT !.next = Aged(@), !.lease = Aged(@)] \in PolicyRow
    <3>1. policies[p] \in PolicyRow /\ policies[p].next \in 0 .. Interval
          /\ policies[p].lease \in 0 .. Lease
      BY DEF PolicyRow
    <3>2. Aged(policies[p].next) \in 0 .. Interval /\ Aged(policies[p].lease) \in 0 .. Lease
      BY <2>1, <3>1, EvolutionAssumption
    <3>3. \A n \in 0 .. Interval, l \in 0 .. Lease :
            [policies[p] EXCEPT !.next = n, !.lease = l] \in PolicyRow
      BY <3>1 DEF PolicyRow
    <3>4. QED
      BY <3>2, <3>3
  <2>3. policies' \in [Policy -> PolicyRow]
    BY <1>2, <2>2 DEF Tick
  <2>4. QED
    BY <1>2, <2>3 DEF Tick, worldVars
<1>3. QED
  BY <1>1, <1>2

LEMMA TypesKept == IInv /\ [Next]_vars => TypeOK'
<1> SUFFICES ASSUME IInv, [Next]_vars PROVE TypeOK'
  OBVIOUS
<1>1. CASE UNCHANGED vars
  BY <1>1 DEF IInv, TypeOK, vars, storeVars, worldVars
<1>2. ASSUME NEW w \in Runner, NEW p \in Policy, Introduce(w, p) PROVE TypeOK'
  BY <1>2, RowFacts DEF IInv, TypeOK, Introduce, worldVars
<1>3. ASSUME NEW w \in Runner, Ended(w) PROVE TypeOK'
  BY <1>3 DEF IInv, TypeOK, Ended
<1>4. ASSUME NEW w \in Runner, Crash(w) PROVE TypeOK'
  BY <1>4 DEF IInv, TypeOK, Crash, Ends, storeVars, worldVars
<1>5. QED
  BY StepCases, <1>1, <1>2, <1>3, <1>4, StartTypes, WorkTypes, StoreTypes

-----------------------------------------------------------------------------
(* Who works on what. *)

WorkInv == RunsCounted /\ RunsOwned /\ RunningIsRecoverable /\ LeaseHeld /\ OneRunAtATime

(* A step that leaves the store alone, and gives no process another run. *)
LEMMA WorkKept ==
  ASSUME IInv, UNCHANGED <<policies, runs, lapsed>>,
         \A w \in Runner : Busy(w)' =>
           Busy(w) /\ runner'[w].run = runner[w].run /\ runner'[w].policy = runner[w].policy
  PROVE  WorkInv'
<1> USE DEF IInv
<1>1. RunsCounted'
  BY DEF RunsCounted, Started
<1>2. RunsOwned'
  BY DEF RunsOwned, Started
<1>3. RunningIsRecoverable'
  BY DEF RunningIsRecoverable
<1>4. LeaseHeld'
  BY DEF LeaseHeld
<1>5. OneRunAtATime'
  BY DEF OneRunAtATime, Busy
<1>6. QED
  BY <1>1, <1>2, <1>3, <1>4, <1>5 DEF WorkInv

LEMMA IntroduceWork ==
  ASSUME IInv, NEW v \in Runner, NEW p \in Policy, Introduce(v, p)
  PROVE  WorkInv'
<1> USE DEF IInv
<1>1. /\ policies[p] = Unknown /\ policies' = [policies EXCEPT ![p] = Row(p)]
      /\ UNCHANGED <<runs, runner, lapsed>>
  BY DEF Introduce
<1>2. /\ policies[p].status = "NONE" /\ policies'[p].status = "IDLE"
      /\ \A q \in Policy : q # p => policies'[q] = policies[q]
  BY <1>1, RowFacts DEF Unknown, TypeOK
<1>3. \A w \in Runner : Busy(w)' <=> Busy(w)
  BY <1>1 DEF Busy, At
<1>4. RunsCounted'
  BY <1>1 DEF RunsCounted, Started
<1>5. RunsOwned'
  BY <1>1, <1>3 DEF RunsOwned, Started
<1>6. RunningIsRecoverable'
  BY <1>1, <1>2 DEF RunningIsRecoverable
<1>7. LeaseHeld'
  <2> SUFFICES ASSUME ~lapsed, NEW w \in Runner, Busy(w)
               PROVE  /\ policies'[runner[w].policy].status = "RUNNING"
                      /\ policies'[runner[w].policy].lease > 0
                      /\ \A r \in RunId : runs[r].policy = runner[w].policy => r <= runner[w].run
    BY <1>1, <1>3 DEF LeaseHeld
  <2>1. runner[w].policy # p
    BY <1>2 DEF LeaseHeld
  <2>2. QED
    BY <1>2, <2>1, BusyTypes DEF LeaseHeld
<1>8. OneRunAtATime'
  BY <1>1, <1>3 DEF OneRunAtATime, Busy
<1>9. QED
  BY <1>4, <1>5, <1>6, <1>7, <1>8 DEF WorkInv

(* What the claim of a policy does. *)
LEMMA StartFacts ==
  ASSUME IInv, NEW v \in Runner, NEW p \in Policy, NEW force \in BOOLEAN, Start(v, p, force)
  PROVE  /\ ~Busy(v) /\ Busy(v)' /\ At(v, "search")'
         /\ runner'[v].run = NextRun /\ runner'[v].policy = p /\ runner'[v].base = 0
         /\ \A w \in Runner : w # v => runner'[w] = runner[w]
         /\ NextRun \in RunId /\ runs[NextRun] = NoRun
         /\ runs'[NextRun].status = "RUNNING" /\ runs'[NextRun].policy = p
         /\ runs'[NextRun].digest = 0
         /\ \A r \in RunId : r # NextRun => runs'[r] = runs[r]
         /\ policies'[p].status = "RUNNING" /\ policies'[p].lease > 0
         /\ policies'[p].hash = policies[p].hash
         /\ \A q \in Policy : q # p => policies'[q] = policies[q]
         /\ ~(policies[p].status = "RUNNING" /\ policies[p].lease > 0)
         /\ UNCHANGED <<packages, hub, lapsed>>
<1> USE DEF IInv
<1>1. NextRun \in RunId /\ NextRun \notin Started
  BY NextRunIsNew DEF Start, Claim
<1>2. runs[NextRun] = NoRun
  BY <1>1 DEF RunsOwned, Started
<1>3. /\ runner' = [runner EXCEPT ![v] =
           [at |-> "search", run |-> NextRun, policy |-> p, found |-> 0, base |-> 0,
            unseen |-> FALSE, files |-> {}]]
      /\ policies' = [policies EXCEPT ![p] =
           [Row(p) EXCEPT !.status = "RUNNING", !.lease = Lease]]
      /\ runs' = [runs EXCEPT ![NextRun].status = "RUNNING", ![NextRun].policy = p]
  BY DEF Start, Claim
<1>4. /\ ~Busy(v) /\ Busy(v)' /\ At(v, "search")'
      /\ runner'[v].run = NextRun /\ runner'[v].policy = p /\ runner'[v].base = 0
      /\ \A w \in Runner : w # v => runner'[w] = runner[w]
  BY <1>3 DEF TypeOK, Start, At, Busy
<1>5. /\ runs'[NextRun].status = "RUNNING" /\ runs'[NextRun].policy = p
      /\ runs'[NextRun].digest = 0
      /\ \A r \in RunId : r # NextRun => runs'[r] = runs[r]
  BY <1>1, <1>2, <1>3 DEF TypeOK, NoRun, RunRow
<1>6. Row(p) \in PolicyRow /\ Row(p).hash = policies[p].hash
  BY RowFacts
<1>7. /\ policies'[p].status = "RUNNING" /\ policies'[p].lease = Lease
      /\ policies'[p].hash = policies[p].hash
      /\ \A q \in Policy : q # p => policies'[q] = policies[q]
  BY <1>3, <1>6 DEF TypeOK, PolicyRow
<1>8. ~(policies[p].status = "RUNNING" /\ policies[p].lease > 0)
  BY DEF Start, Claim, Claimable, Row, Unknown
<1>9. QED
  BY <1>1, <1>2, <1>4, <1>5, <1>7, <1>8, EvolutionAssumption DEF Start, worldVars

LEMMA StartWork ==
  ASSUME IInv, NEW v \in Runner, NEW p \in Policy, NEW force \in BOOLEAN, Start(v, p, force)
  PROVE  WorkInv'
<1> DEFINE new == NextRun
<1> USE DEF IInv
<1>1. /\ ~Busy(v) /\ Busy(v)' /\ runner'[v].run = new /\ runner'[v].policy = p
      /\ \A w \in Runner : w # v => runner'[w] = runner[w]
  BY StartFacts
<1>2. /\ new \in RunId /\ runs[new] = NoRun
      /\ runs'[new].status = "RUNNING" /\ runs'[new].policy = p /\ runs'[new].digest = 0
      /\ \A r \in RunId : r # new => runs'[r] = runs[r]
  BY StartFacts
<1>3. /\ policies'[p].status = "RUNNING" /\ policies'[p].lease > 0
      /\ \A q \in Policy : q # p => policies'[q] = policies[q]
      /\ ~(policies[p].status = "RUNNING" /\ policies[p].lease > 0)
      /\ lapsed' = lapsed
  BY StartFacts
<1>4. /\ new \in Nat /\ Started = 1 .. (new - 1) /\ new \notin Started
      /\ \A r \in Started : r < new
  BY NextRunIsNew
<1> HIDE DEF new
<1>5. Started' = Started \cup {new}
  BY <1>2 DEF Started
<1>6. \A w \in Runner : Busy(w)' <=> Busy(w) \/ w = v
  BY <1>1 DEF Busy, At
<1>7. \A w \in Runner : Busy(w) =>
        runner[w].run \in Started /\ runner[w].run # new /\ runner[w].policy \in Policy
  BY <1>4, BusyTypes DEF RunsOwned
<1>8. RunsCounted'
  <2>1. Started' = 1 .. new
    BY <1>2, <1>4, <1>5 DEF RunId
  <2>2. new \in 0 .. MaxRuns
    BY <1>2, EvolutionAssumption DEF RunId
  <2>3. QED
    BY <2>1, <2>2 DEF RunsCounted
<1>9. RunsOwned'
  <2>1. \A r \in RunId :
          IF r \in Started' THEN runs'[r].policy \in Policy ELSE runs'[r] = NoRun
    BY <1>2, <1>5 DEF RunsOwned
  <2>2. ASSUME NEW w \in Runner, Busy(w)'
        PROVE  /\ runner'[w].run \in Started' /\ runs'[runner'[w].run].policy = runner'[w].policy
               /\ runs'[runner'[w].run].digest = 0
               /\ runs'[runner'[w].run].status # "COMPLETED"
    <3>1. CASE w = v
      BY <1>1, <1>2, <1>5, <3>1
    <3>2. CASE w # v
      BY <1>1, <1>2, <1>5, <1>6, <1>7, <2>2, <3>2 DEF RunsOwned, Started
    <3>3. QED
      BY <3>1, <3>2
  <2>3. \A u, w \in Runner : (Busy(u) /\ Busy(w))' /\ runner'[u].run = runner'[w].run => u = w
    BY <1>1, <1>6, <1>7 DEF RunsOwned
  <2>4. QED
    BY <2>1, <2>2, <2>3 DEF RunsOwned
<1>10. RunningIsRecoverable'
  <2> SUFFICES ASSUME NEW q \in Policy, policies'[q].status = "RUNNING"
               PROVE  \E r \in RunId : runs'[r].status = "RUNNING" /\ runs'[r].policy = q
    BY DEF RunningIsRecoverable
  <2>1. CASE q = p
    BY <1>2, <2>1
  <2>2. CASE q # p
    <3>1. PICK r \in RunId : runs[r].status = "RUNNING" /\ runs[r].policy = q
      BY <1>3, <2>2 DEF RunningIsRecoverable
    <3>2. r # new
      BY <1>2, <3>1 DEF NoRun
    <3>3. QED
      BY <1>2, <3>1, <3>2
  <2>3. QED
    BY <2>1, <2>2
<1>11. ASSUME ~lapsed, NEW w \in Runner, Busy(w) PROVE runner[w].policy # p
  BY <1>3, <1>11 DEF LeaseHeld
<1>12. LeaseHeld'
  <2> SUFFICES ASSUME ~lapsed', NEW w \in Runner, Busy(w)'
               PROVE  /\ policies'[runner'[w].policy].status = "RUNNING"
                      /\ policies'[runner'[w].policy].lease > 0
                      /\ \A r \in RunId : runs'[r].policy = runner'[w].policy => r <= runner'[w].run
    BY DEF LeaseHeld
  <2>1. CASE w = v
    <3>1. ASSUME NEW r \in RunId, runs'[r].policy = p PROVE r <= new
      <4>1. CASE r = new
        BY <4>1, <1>4
      <4>2. CASE r # new
        <5>1. runs[r].policy = p
          BY <1>2, <3>1, <4>2
        <5>2. r \in Started
          BY <5>1, EvolutionAssumption DEF RunsOwned, Started, NoRun
        <5>3. QED
          BY <5>2, <1>4
      <4>3. QED
        BY <4>1, <4>2
    <3>2. QED
      BY <1>1, <1>3, <2>1, <3>1
  <2>2. CASE w # v
    <3>1. Busy(w) /\ ~lapsed /\ runner'[w] = runner[w]
      BY <1>1, <1>3, <1>6, <2>2
    <3>2. runner[w].policy # p /\ runner[w].policy \in Policy
      BY <1>7, <1>11, <3>1
    <3>3. \A r \in RunId : runs'[r].policy = runner[w].policy => runs[r].policy = runner[w].policy
      BY <1>2, <3>2
    <3>4. QED
      BY <1>3, <3>1, <3>2, <3>3 DEF LeaseHeld
  <2>3. QED
    BY <2>1, <2>2
<1>13. OneRunAtATime'
  BY <1>1, <1>3, <1>6, <1>11 DEF OneRunAtATime, Busy
<1>14. QED
  BY <1>8, <1>9, <1>10, <1>12, <1>13 DEF WorkInv

(* What the end of a run leaves of the others. *)
LEMMA EndedFacts ==
  ASSUME IInv, NEW v \in Runner, Ended(v)
  PROVE  /\ Busy(v) /\ ~Busy(v)'
         /\ \A w \in Runner : w # v => runner'[w] = runner[w] /\ (Busy(w)' <=> Busy(w))
         /\ \A q \in Policy : q # runner[v].policy => policies'[q] = policies[q]
         /\ policies'[runner[v].policy].status = "IDLE"
         /\ \A r \in RunId : r # runner[v].run => runs'[r] = runs[r]
         /\ \A r \in RunId : runs'[r].policy = runs[r].policy
         /\ Started' = Started
         /\ UNCHANGED <<hub, lapsed>>
<1> DEFINE p == runner[v].policy
           s == runner[v].run
<1> USE DEF IInv
<1>1. /\ Busy(v) /\ p \in Policy /\ s \in RunId /\ s \in Started /\ runs[s].policy = p
  BY BusyTypes DEF Ended, RunsOwned
<1>2. PICK row \in PolicyRow, run \in RunRow :
        /\ policies' = [policies EXCEPT ![p] = row] /\ runs' = [runs EXCEPT ![s] = run]
        /\ row.status = "IDLE" /\ run.status \in {"COMPLETED", "FAILED"} /\ run.policy = p
  BY DEF Ended
<1>3. runner' = [runner EXCEPT ![v] = Idle] /\ UNCHANGED <<hub, lapsed>>
  BY DEF Ended
<1> HIDE DEF p, s
<1>4. /\ runs'[s] = run /\ \A r \in RunId : r # s => runs'[r] = runs[r]
      /\ policies'[p] = row /\ \A q \in Policy : q # p => policies'[q] = policies[q]
  BY <1>1, <1>2 DEF TypeOK
<1>5. /\ runner'[v] = Idle /\ \A w \in Runner : w # v => runner'[w] = runner[w]
  BY <1>3 DEF TypeOK
<1>6. Started' = Started
  BY <1>1, <1>2, <1>4 DEF Started
<1>7. ~Busy(v)' /\ \A w \in Runner : w # v => (Busy(w)' <=> Busy(w))
  BY <1>5 DEF Busy, At, Idle
<1>8. QED
  BY <1>1, <1>2, <1>3, <1>4, <1>5, <1>6, <1>7 DEF p, s

LEMMA EndedWork ==
  ASSUME IInv, NEW v \in Runner, Ended(v)
  PROVE  WorkInv'
<1> DEFINE p == runner[v].policy
           s == runner[v].run
<1> USE DEF IInv
<1>1. /\ p \in Policy /\ s \in Started /\ s \in RunId /\ runs[s].policy = p
  BY BusyTypes, EndedFacts DEF RunsOwned
<1>2. /\ Busy(v) /\ ~Busy(v)'
      /\ \A w \in Runner : w # v => runner'[w] = runner[w] /\ (Busy(w)' <=> Busy(w))
  BY EndedFacts
<1>3. /\ \A q \in Policy : q # p => policies'[q] = policies[q]
      /\ policies'[p].status = "IDLE"
      /\ \A r \in RunId : r # s => runs'[r] = runs[r]
      /\ \A r \in RunId : runs'[r].policy = runs[r].policy
      /\ Started' = Started /\ lapsed' = lapsed
  BY EndedFacts
<1>4. \A w \in Runner : Busy(w)' =>
        /\ w # v /\ Busy(w) /\ runner'[w] = runner[w] /\ runner[w].run # s
        /\ runner[w].run \in RunId /\ runner[w].policy \in Policy
  BY <1>2, BusyTypes DEF RunsOwned
<1> HIDE DEF p, s
<1>5. RunsCounted'
  BY <1>3 DEF RunsCounted
<1>6. RunsOwned'
  <2>1. s \in Started'
    BY <1>1, <1>3
  <2>2. \A r \in RunId :
          IF r \in Started' THEN runs'[r].policy \in Policy ELSE runs'[r] = NoRun
    BY <1>3, <2>1 DEF RunsOwned, Started
  <2>3. ASSUME NEW w \in Runner, Busy(w)'
        PROVE  /\ runner'[w].run \in Started' /\ runs'[runner'[w].run].policy = runner'[w].policy
               /\ runs'[runner'[w].run].digest = 0
               /\ runs'[runner'[w].run].status # "COMPLETED"
    BY <1>3, <1>4, <2>3 DEF RunsOwned
  <2>4. \A u, w \in Runner : (Busy(u) /\ Busy(w))' /\ runner'[u].run = runner'[w].run => u = w
    BY <1>4 DEF RunsOwned
  <2>5. QED
    BY <2>2, <2>3, <2>4 DEF RunsOwned
<1>7. RunningIsRecoverable'
  <2> SUFFICES ASSUME NEW q \in Policy, policies'[q].status = "RUNNING"
               PROVE  \E r \in RunId : runs'[r].status = "RUNNING" /\ runs'[r].policy = q
    BY DEF RunningIsRecoverable
  <2>1. q # p /\ policies[q].status = "RUNNING"
    BY <1>3
  <2>2. PICK r \in RunId : runs[r].status = "RUNNING" /\ runs[r].policy = q
    BY <2>1 DEF RunningIsRecoverable
  <2>3. QED
    BY <1>1, <1>3, <2>1, <2>2
<1>8. LeaseHeld'
  <2> SUFFICES ASSUME ~lapsed, NEW w \in Runner, Busy(w)'
               PROVE  /\ policies'[runner[w].policy].status = "RUNNING"
                      /\ policies'[runner[w].policy].lease > 0
                      /\ \A r \in RunId : runs[r].policy = runner[w].policy => r <= runner[w].run
    BY <1>3, <1>4 DEF LeaseHeld
  <2>1. runner[w].policy # p
    BY <1>2, <1>4 DEF OneRunAtATime, Busy, p
  <2>2. policies'[runner[w].policy] = policies[runner[w].policy]
    BY <1>3, <1>4, <2>1
  <2>3. QED
    BY <1>4, <2>2 DEF LeaseHeld
<1>9. OneRunAtATime'
  BY <1>3, <1>4 DEF OneRunAtATime, Busy
<1>10. QED
  BY <1>5, <1>6, <1>7, <1>8, <1>9 DEF WorkInv

(* Recovery ends every run that is RUNNING, and with it every policy. *)
LEMMA RecoverFacts ==
  ASSUME IInv, Recover
  PROVE  /\ UNCHANGED <<runner, packages, hub>>
         /\ \A w \in Runner : (Busy(w)' <=> Busy(w)) /\ (~lapsed' => ~Busy(w) /\ ~lapsed)
         /\ \A p \in Policy : /\ policies'[p].status # "RUNNING"
                              /\ policies'[p].hash = policies[p].hash
         /\ \A r \in RunId : /\ runs'[r].policy = runs[r].policy
                             /\ runs'[r].digest = runs[r].digest
                             /\ runs'[r].status = "COMPLETED" <=> runs[r].status = "COMPLETED"
                             /\ runs'[r].status = "NONE" => runs'[r] = runs[r]
         /\ Started' = Started
<1> USE DEF IInv
<1>1. /\ UNCHANGED <<runner, packages, hub>>
      /\ lapsed' = (lapsed \/ \E w \in Runner : ~At(w, "idle"))
  BY DEF Recover, worldVars
<1>2. ASSUME NEW p \in Policy
      PROVE  policies'[p].status # "RUNNING" /\ policies'[p].hash = policies[p].hash
  BY DEF Recover, RecoverRunning, TypeOK, PolicyRow
<1>3. ASSUME NEW r \in RunId
      PROVE  /\ runs'[r].policy = runs[r].policy
             /\ runs'[r].digest = runs[r].digest
             /\ runs'[r].status = "COMPLETED" <=> runs[r].status = "COMPLETED"
             /\ runs'[r].status = "NONE" <=> runs[r].status = "NONE"
             /\ runs'[r].status = "NONE" => runs'[r] = runs[r]
  <2>1. runs[r] \in RunRow
    BY DEF TypeOK
  <2>2. CASE runs[r].status = "RUNNING"
    <3>1. runs'[r] = [runs[r] EXCEPT !.status = "FAILED"]
      BY <2>2 DEF Recover, RecoverRunning, RunsUnder
    <3>2. QED
      BY <2>1, <2>2, <3>1 DEF RunRow
  <2>3. CASE runs[r].status # "RUNNING"
    BY <2>3 DEF Recover, RecoverRunning, RunsUnder
  <2>4. QED
    BY <2>2, <2>3
<1>4. Started' = Started
  BY <1>3 DEF Started
<1>5. \A w \in Runner : (Busy(w)' <=> Busy(w)) /\ (~lapsed' => ~Busy(w) /\ ~lapsed)
  BY <1>1 DEF Busy, At
<1>6. QED
  BY <1>1, <1>2, <1>3, <1>4, <1>5

LEMMA RecoverWork ==
  ASSUME IInv, Recover
  PROVE  WorkInv'
<1> USE DEF IInv
<1>1. /\ runner' = runner /\ Started' = Started
      /\ \A w \in Runner : (Busy(w)' <=> Busy(w)) /\ (~lapsed' => ~Busy(w))
      /\ \A p \in Policy : policies'[p].status # "RUNNING"
      /\ \A r \in RunId : /\ runs'[r].policy = runs[r].policy
                          /\ runs'[r].digest = runs[r].digest
                          /\ runs'[r].status = "COMPLETED" <=> runs[r].status = "COMPLETED"
                          /\ r \notin Started => runs'[r] = runs[r]
  BY RecoverFacts DEF Started
<1>2. RunsCounted'
  BY <1>1 DEF RunsCounted
<1>3. RunsOwned'
  <2>1. \A r \in RunId :
          IF r \in Started' THEN runs'[r].policy \in Policy ELSE runs'[r] = NoRun
    BY <1>1 DEF RunsOwned
  <2>2. ASSUME NEW w \in Runner, Busy(w)'
        PROVE  /\ runner'[w].run \in Started' /\ runs'[runner'[w].run].policy = runner'[w].policy
               /\ runs'[runner'[w].run].digest = 0
               /\ runs'[runner'[w].run].status # "COMPLETED"
    BY <1>1, <2>2, BusyTypes DEF RunsOwned
  <2>3. \A u, w \in Runner : (Busy(u) /\ Busy(w))' /\ runner'[u].run = runner'[w].run => u = w
    BY <1>1 DEF RunsOwned
  <2>4. QED
    BY <2>1, <2>2, <2>3 DEF RunsOwned
<1>4. RunningIsRecoverable'
  BY <1>1 DEF RunningIsRecoverable
<1>5. LeaseHeld' /\ OneRunAtATime'
  BY <1>1 DEF LeaseHeld, OneRunAtATime, Busy
<1>6. QED
  BY <1>2, <1>3, <1>4, <1>5 DEF WorkInv

(* Time takes the lease of a run that is under way only by lapsing. *)
LEMMA TickFacts ==
  ASSUME IInv, Tick
  PROVE  /\ UNCHANGED <<runs, runner, packages, hub>>
         /\ ~lapsed' => ~lapsed
         /\ \A w \in Runner : Busy(w)' <=> Busy(w)
         /\ \A p \in Policy : /\ policies'[p].status = policies[p].status
                              /\ policies'[p].hash = policies[p].hash
         /\ ~lapsed' => \A w \in Runner : Busy(w) => policies'[runner[w].policy].lease > 0
<1> USE DEF IInv
<1>1. /\ UNCHANGED <<runs, runner, packages, hub>>
      /\ lapsed' = (lapsed \/ \E w \in Runner :
                       ~At(w, "idle") /\ policies[runner[w].policy].lease = 1)
  BY DEF Tick, worldVars
<1>2. ASSUME NEW p \in Policy
      PROVE  /\ policies'[p].status = policies[p].status /\ policies'[p].hash = policies[p].hash
             /\ policies'[p].lease = Aged(policies[p].lease) /\ policies[p].lease \in Nat
  <2>1. policies'[p] = [policies[p] EXCEPT !.next = Aged(policies[p].next),
                                           !.lease = Aged(policies[p].lease)]
    BY DEF Tick
  <2>2. policies[p] \in PolicyRow
    BY DEF TypeOK
  <2>3. QED
    BY <2>1, <2>2, EvolutionAssumption DEF PolicyRow
<1>3. ASSUME ~lapsed', NEW w \in Runner, Busy(w)
      PROVE  policies'[runner[w].policy].lease > 0
  <2>1. runner[w].policy \in Policy
    BY <1>3, BusyTypes
  <2>2. policies[runner[w].policy].lease > 0 /\ policies[runner[w].policy].lease # 1
    BY <1>1, <1>3 DEF LeaseHeld, Busy
  <2>3. QED
    BY <1>2, <2>1, <2>2 DEF Aged
<1>4. QED
  BY <1>1, <1>2, <1>3 DEF Busy, At

LEMMA TickWork ==
  ASSUME IInv, Tick
  PROVE  WorkInv'
<1> USE DEF IInv
<1>1. /\ UNCHANGED <<runs, runner>> /\ (~lapsed' => ~lapsed)
      /\ \A w \in Runner : Busy(w)' <=> Busy(w)
      /\ \A p \in Policy : policies'[p].status = policies[p].status
      /\ ~lapsed' => \A w \in Runner : Busy(w) => policies'[runner[w].policy].lease > 0
  BY TickFacts
<1>2. RunsCounted'
  BY <1>1 DEF RunsCounted, Started
<1>3. RunsOwned'
  BY <1>1 DEF RunsOwned, Started
<1>4. RunningIsRecoverable'
  BY <1>1 DEF RunningIsRecoverable
<1>5. LeaseHeld'
  <2> SUFFICES ASSUME ~lapsed', NEW w \in Runner, Busy(w)
               PROVE  /\ policies'[runner[w].policy].status = "RUNNING"
                      /\ policies'[runner[w].policy].lease > 0
                      /\ \A r \in RunId : runs[r].policy = runner[w].policy => r <= runner[w].run
    BY <1>1 DEF LeaseHeld
  <2>1. runner[w].policy \in Policy
    BY BusyTypes
  <2>2. QED
    BY <1>1, <2>1 DEF LeaseHeld
<1>6. OneRunAtATime'
  BY <1>1 DEF OneRunAtATime, Busy
<1>7. QED
  BY <1>2, <1>3, <1>4, <1>5, <1>6 DEF WorkInv

LEMMA WorkPreserved == IInv /\ [Next]_vars => WorkInv'
<1> SUFFICES ASSUME IInv, [Next]_vars PROVE WorkInv'
  OBVIOUS
<1>1. CASE UNCHANGED vars
  BY <1>1, WorkKept DEF vars, storeVars, Busy, At
<1>2. ASSUME NEW w \in Runner, Crash(w) PROVE WorkInv'
  <2>1. UNCHANGED <<policies, runs, lapsed>> /\ runner' = [runner EXCEPT ![w] = Idle]
    BY <1>2 DEF Crash, Ends, storeVars
  <2>2. \A u \in Runner : Busy(u)' => Busy(u) /\ runner'[u] = runner[u]
    BY <2>1 DEF Busy, At, Idle, IInv, TypeOK
  <2>3. QED
    BY <2>1, <2>2, WorkKept
<1>3. ASSUME NEW w \in Runner, Finds(w) \/ Fetch(w) \/ Packaged(w) \/ Publish(w) PROVE WorkInv'
  <2>1. UNCHANGED <<policies, runs, lapsed>>
    BY <1>3 DEF Finds, Search, Fetch, Packaged, Publish, storeVars
  <2>2. Busy(w) /\ runner[w] \in Running
    BY <1>3, BusyTypes DEF IInv, Finds, Search, Fetch, Packaged, Publish, At, Busy
  <2>3. /\ runner'[w].run = runner[w].run /\ runner'[w].policy = runner[w].policy
        /\ \A u \in Runner : u # w => runner'[u] = runner[u]
    <3>1. CASE Fetch(w)
      <4>1. PICK base \in Fetched : runner' = [runner EXCEPT ![w] =
              [runner[w] EXCEPT !.at = "propose", !.base = base, !.unseen = base # Len(hub)]]
        BY <3>1 DEF Fetch
      <4>2. QED
        BY <2>2, <4>1 DEF IInv, TypeOK, Running
    <3>2. CASE Finds(w)
      BY <2>2, <3>2 DEF Finds, Search, IInv, TypeOK, Running
    <3>3. CASE Packaged(w) \/ Publish(w)
      BY <2>2, <3>3 DEF Packaged, Publish, Goes, IInv, TypeOK, Running
    <3>4. QED
      BY <1>3, <3>1, <3>2, <3>3
  <2>4. \A u \in Runner : Busy(u)' =>
          Busy(u) /\ runner'[u].run = runner[u].run /\ runner'[u].policy = runner[u].policy
    BY <2>2, <2>3 DEF Busy, At
  <2>5. QED
    BY <2>1, <2>4, WorkKept
<1>4. QED
  BY StepCases, <1>1, <1>2, <1>3, IntroduceWork, StartWork, EndedWork, RecoverWork, TickWork

-----------------------------------------------------------------------------
(* What is published. *)

VersionInv ==
  /\ VersionsOwned /\ HashIsLast /\ VersionsInOrder /\ UnchangedEvidenceSkipped
  /\ OnePublisher => BaseIsCurrent /\ NoLostUpdate

LEMMA VersionTypes ==
  ASSUME TypeOK
  PROVE  /\ DOMAIN hub = 1 .. Len(hub) /\ Len(hub) \in Nat
         /\ \A i \in DOMAIN hub : /\ hub[i] \in Version /\ hub[i].policy \in Policy
                                  /\ hub[i].run \in RunId /\ hub[i].run \in Nat
<1>1. hub \in Seq(Version)
  BY DEF TypeOK
<1>2. \A i \in DOMAIN hub : hub[i] \in Version
  BY <1>1
<1>3. RunId \subseteq Nat
  BY DEF RunId
<1>4. \A i \in DOMAIN hub : hub[i].policy \in Policy /\ hub[i].run \in RunId
  BY <1>2 DEF Version
<1>5. DOMAIN hub = 1 .. Len(hub) /\ Len(hub) \in Nat
  BY <1>1
<1>6. QED
  BY <1>2, <1>3, <1>4, <1>5

(* The runs between two versions of a Skill are run ids. *)
LEMMA RunsBetween ==
  ASSUME NEW a \in RunId, NEW b \in RunId
  PROVE  a .. b \subseteq RunId
BY EvolutionAssumption DEF RunId

LEMMA DigestedAreStarted ==
  ASSUME RunsOwned, NEW r \in RunId, runs[r].digest # 0
  PROVE  r \in Started /\ runs[r].policy \in Policy
BY DEF RunsOwned, NoRun

(* A step that publishes nothing and ends no run: runs may start, and      *)
(* processes may stop.                                                     *)
LEMMA VersionsKept ==
  ASSUME IInv, hub' = hub, ~lapsed' => ~lapsed,
         \A p \in Policy : policies'[p].hash = policies[p].hash,
         \A r \in RunId : runs'[r].digest = runs[r].digest,
         \A r \in Started : /\ r \in Started' /\ runs'[r].policy = runs[r].policy
                            /\ runs'[r].status = "COMPLETED" <=> runs[r].status = "COMPLETED",
         \A w \in Runner : \/ runner'[w] = runner[w]
                           \/ runner'[w].at = "idle"
                           \/ /\ runner'[w].at = "search" /\ runner'[w].base = 0
                              /\ runner'[w].run \notin Started
  PROVE  VersionInv'
<1> USE DEF IInv
<1>1. \A i \in DOMAIN hub : hub[i].run \in Started
  BY DEF VersionsOwned
<1>2. VersionsOwned'
  <2>1. ASSUME NEW w \in Runner, Busy(w)'
        PROVE  /\ runner'[w].base <= Len(hub)
               /\ ~At(w, "search")' => runner'[w].found # 0
               /\ At(w, "publish")' => runner'[w].policy \in AutoPublish
               /\ \A i \in DOMAIN hub : hub[i].run = runner'[w].run =>
                    (At(w, "complete") \/ At(w, "fail"))' /\ hub[i].found = runner'[w].found
    <3>1. CASE runner'[w] = runner[w]
      BY <2>1, <3>1 DEF VersionsOwned, Busy, At
    <3>2. CASE /\ runner'[w].at = "search" /\ runner'[w].base = 0
               /\ runner'[w].run \notin Started
      BY <1>1, <3>2, VersionTypes DEF At
    <3>3. QED
      BY <2>1, <3>1, <3>2 DEF Busy, At
  <2>2. \A i \in DOMAIN hub :
          /\ hub[i].run \in Started' /\ hub[i].found # 0
          /\ runs'[hub[i].run].policy = hub[i].policy
          /\ runs'[hub[i].run].status = "COMPLETED" => runs'[hub[i].run].digest = hub[i].found
    BY <1>1, VersionTypes DEF VersionsOwned
  <2>3. \A i, j \in DOMAIN hub : hub[i].run = hub[j].run => i = j
    BY DEF VersionsOwned
  <2>4. QED
    BY <2>1, <2>2, <2>3 DEF VersionsOwned
<1>3. HashIsLast'
  <2>1. ASSUME ~lapsed', NEW r \in RunId, runs'[r].digest # 0
        PROVE  \E s \in RunId : /\ s >= r /\ runs'[s].policy = runs'[r].policy
                                /\ runs'[s].digest # 0
                                /\ runs'[s].digest = policies'[runs'[r].policy].hash
    <3>1. runs[r].digest # 0 /\ ~lapsed
      BY <2>1
    <3>2. PICK s \in RunId : /\ s >= r /\ runs[s].policy = runs[r].policy
                             /\ runs[s].digest # 0
                             /\ runs[s].digest = policies[runs[r].policy].hash
      BY <3>1 DEF HashIsLast
    <3>3. /\ runs'[r].policy = runs[r].policy /\ runs[r].policy \in Policy
          /\ runs'[s].policy = runs[s].policy
      BY <3>1, <3>2, DigestedAreStarted
    <3>4. QED
      BY <3>2, <3>3
  <2>2. ASSUME ~lapsed', NEW w \in Runner, (At(w, "fetch") \/ At(w, "propose") \/ At(w, "publish"))'
        PROVE  runner'[w].found # policies'[runner'[w].policy].hash
    <3>1. runner'[w] = runner[w] /\ Busy(w)
      BY <2>2 DEF At, Busy
    <3>2. runner[w].policy \in Policy
      BY <3>1, BusyTypes
    <3>3. QED
      BY <2>2, <3>1, <3>2 DEF HashIsLast, At
  <2>3. QED
    BY <2>1, <2>2 DEF HashIsLast
<1>4. VersionsInOrder'
  BY DEF VersionsInOrder
<1>5. UnchangedEvidenceSkipped'
  <2> SUFFICES ASSUME ~lapsed', NEW i \in DOMAIN hub, NEW j \in DOMAIN hub,
                      i < j, hub[i].policy = hub[j].policy, hub[i].found = hub[j].found,
                      runs'[hub[i].run].status = "COMPLETED"
               PROVE  \E r \in hub[i].run .. hub[j].run :
                        runs'[r].policy = hub[i].policy /\ runs'[r].digest \notin {0, hub[i].found}
    BY DEF UnchangedEvidenceSkipped
  <2>1. runs[hub[i].run].status = "COMPLETED" /\ ~lapsed
    BY <1>1
  <2>2. PICK r \in hub[i].run .. hub[j].run :
          runs[r].policy = hub[i].policy /\ runs[r].digest \notin {0, hub[i].found}
    BY <2>1 DEF UnchangedEvidenceSkipped
  <2>3. r \in RunId
    BY <2>2, VersionTypes, RunsBetween
  <2>4. runs'[r].policy = runs[r].policy /\ runs'[r].digest = runs[r].digest
    BY <2>2, <2>3, DigestedAreStarted
  <2>5. QED
    BY <2>2, <2>4
<1>6. ASSUME OnePublisher PROVE BaseIsCurrent' /\ NoLostUpdate'
  <2>1. BaseIsCurrent /\ NoLostUpdate
    BY <1>6
  <2>2. BaseIsCurrent'
    BY <2>1 DEF BaseIsCurrent, At
  <2>3. NoLostUpdate'
    BY <2>1 DEF NoLostUpdate
  <2>4. QED
    BY <2>2, <2>3
<1>7. QED
  BY <1>2, <1>3, <1>4, <1>5, <1>6 DEF VersionInv, OnePublisher

(* A process that goes on with its run, up to the publication. *)
LEMMA VersionsWorked ==
  ASSUME IInv, NEW w \in Runner, UNCHANGED <<policies, runs, hub, lapsed>>,
         \A u \in Runner : u # w => runner'[u] = runner[u],
         At(w, "search") \/ At(w, "fetch") \/ At(w, "propose"),
         (At(w, "fetch") \/ At(w, "propose") \/ At(w, "publish"))',
         runner'[w].run = runner[w].run, runner'[w].policy = runner[w].policy,
         runner'[w].found # 0, runner'[w].base <= Len(hub),
         ~lapsed => runner'[w].found # policies[runner[w].policy].hash,
         At(w, "publish")' => runner[w].policy \in AutoPublish,
         OnePublisher /\ ~lapsed =>
           /\ (At(w, "propose") \/ At(w, "publish"))' /\ runner[w].policy \in AutoPublish
                => runner'[w].base = IF runner'[w].unseen THEN 0 ELSE Len(hub)
           /\ At(w, "publish")' /\ runner'[w].base > 0
                => hub[runner'[w].base].files \subseteq runner'[w].files
  PROVE  VersionInv'
<1> USE DEF IInv
<1>1. Busy(w) /\ ~At(w, "complete") /\ ~At(w, "fail")
  BY DEF Busy, At
<1>2. \A i \in DOMAIN hub : hub[i].run # runner[w].run
  BY <1>1 DEF VersionsOwned
<1>3. VersionsOwned'
  <2>1. ASSUME NEW u \in Runner, Busy(u)'
        PROVE  /\ runner'[u].base <= Len(hub)
               /\ ~At(u, "search")' => runner'[u].found # 0
               /\ At(u, "publish")' => runner'[u].policy \in AutoPublish
               /\ \A i \in DOMAIN hub : hub[i].run = runner'[u].run =>
                    (At(u, "complete") \/ At(u, "fail"))' /\ hub[i].found = runner'[u].found
    <3>1. CASE u = w
      BY <1>2, <3>1
    <3>2. CASE u # w
      BY <2>1, <3>2 DEF VersionsOwned, Busy, At
    <3>3. QED
      BY <3>1, <3>2
  <2>2. \A i \in DOMAIN hub :
          /\ hub[i].run \in Started' /\ hub[i].found # 0
          /\ runs'[hub[i].run].policy = hub[i].policy
          /\ runs'[hub[i].run].status = "COMPLETED" => runs'[hub[i].run].digest = hub[i].found
    BY DEF VersionsOwned, Started
  <2>3. \A i, j \in DOMAIN hub : hub[i].run = hub[j].run => i = j
    BY DEF VersionsOwned
  <2>4. QED
    BY <2>1, <2>2, <2>3 DEF VersionsOwned
<1>4. HashIsLast'
  BY DEF HashIsLast, At
<1>5. VersionsInOrder' /\ UnchangedEvidenceSkipped'
  BY DEF VersionsInOrder, UnchangedEvidenceSkipped
<1>6. ASSUME OnePublisher PROVE BaseIsCurrent' /\ NoLostUpdate'
  <2>1. BaseIsCurrent /\ NoLostUpdate
    BY <1>6
  <2>2. BaseIsCurrent'
    BY <1>6, <2>1 DEF BaseIsCurrent, At
  <2>3. NoLostUpdate'
    BY <2>1 DEF NoLostUpdate
  <2>4. QED
    BY <2>2, <2>3
<1>7. QED
  BY <1>3, <1>4, <1>5, <1>6 DEF VersionInv, OnePublisher

LEMMA EndedVersions ==
  ASSUME IInv, NEW v \in Runner, Ended(v)
  PROVE  VersionInv'
<1> DEFINE p == runner[v].policy
           s == runner[v].run
<1> USE DEF IInv
<1>1. /\ Busy(v) /\ p \in Policy /\ s \in RunId /\ runs[s].policy = p /\ runs[s].digest = 0
      /\ s \in Nat
  BY BusyTypes, EndedFacts DEF RunsOwned, RunId
<1>2. /\ ~Busy(v)'
      /\ \A w \in Runner : w # v => runner'[w] = runner[w] /\ (Busy(w)' <=> Busy(w))
      /\ \A q \in Policy : q # p => policies'[q] = policies[q]
      /\ \A r \in RunId : r # s => runs'[r] = runs[r]
      /\ \A r \in RunId : runs'[r].policy = runs[r].policy
      /\ Started' = Started
      /\ UNCHANGED <<hub, lapsed>>
  BY EndedFacts
<1>3. /\ runs'[s].digest = 0 => policies'[p].hash = policies[p].hash
      /\ runs'[s].digest # 0 => policies'[p].hash = runs'[s].digest
      /\ runs'[s].status = "COMPLETED" =>
           At(v, "search") \/ (runs'[s].digest # 0 /\ runs'[s].digest = runner[v].found)
  <2>1. PICK row \in PolicyRow, run \in RunRow :
          /\ policies' = [policies EXCEPT ![p] = row]
          /\ runs' = [runs EXCEPT ![s] = run]
          /\ \/ /\ run.digest = 0 /\ row.hash = policies[p].hash
                /\ run.status = "COMPLETED" => At(v, "search")
             \/ /\ run.digest # 0 /\ row.hash = run.digest
                /\ At(v, "search") \/ run.digest = runner[v].found
    BY DEF Ended
  <2> HIDE DEF p, s
  <2>2. policies'[p] = row /\ runs'[s] = run
    BY <1>1, <2>1 DEF TypeOK
  <2>3. QED
    BY <2>1, <2>2
<1> HIDE DEF p, s
<1>4. \A w \in Runner : Busy(w)' => w # v /\ Busy(w) /\ runner'[w] = runner[w]
  BY <1>2
<1>5. \A w \in Runner : (At(w, "fetch") \/ At(w, "propose") \/ At(w, "publish"))' => Busy(w)'
  BY DEF At, Busy
<1>6. VersionsOwned'
  <2>1. ASSUME NEW w \in Runner, Busy(w)'
        PROVE  /\ runner'[w].base <= Len(hub)
               /\ ~At(w, "search")' => runner'[w].found # 0
               /\ At(w, "publish")' => runner'[w].policy \in AutoPublish
               /\ \A i \in DOMAIN hub : hub[i].run = runner'[w].run =>
                    (At(w, "complete") \/ At(w, "fail"))' /\ hub[i].found = runner'[w].found
    BY <1>4, <2>1 DEF VersionsOwned, At
  <2>2. ASSUME NEW i \in DOMAIN hub
        PROVE  /\ hub[i].run \in Started' /\ hub[i].found # 0
               /\ runs'[hub[i].run].policy = hub[i].policy
               /\ runs'[hub[i].run].status = "COMPLETED" => runs'[hub[i].run].digest = hub[i].found
    <3>1. /\ hub[i].run \in Started' /\ hub[i].found # 0 /\ hub[i].run \in RunId
          /\ runs'[hub[i].run].policy = hub[i].policy
      BY <1>2, VersionTypes DEF VersionsOwned
    <3>2. CASE hub[i].run # s
      BY <1>2, <3>1, <3>2 DEF VersionsOwned
    <3>3. CASE hub[i].run = s
      <4>1. (At(v, "complete") \/ At(v, "fail")) /\ hub[i].found = runner[v].found
        BY <1>1, <3>3 DEF VersionsOwned, s
      <4>2. ~At(v, "search")
        BY <4>1 DEF At
      <4>3. QED
        BY <1>3, <3>1, <3>3, <4>1, <4>2
    <3>4. QED
      BY <3>2, <3>3, <3>1
  <2>3. \A i, j \in DOMAIN hub : hub[i].run = hub[j].run => i = j
    BY DEF VersionsOwned
  <2>4. QED
    BY <1>2, <2>1, <2>2, <2>3 DEF VersionsOwned
<1>7. ASSUME ~lapsed, NEW r \in RunId, runs[r].policy = p PROVE r <= s
  BY <1>1, <1>7 DEF LeaseHeld, p, s
<1>8. HashIsLast'
  <2>1. ASSUME ~lapsed, NEW r \in RunId, runs'[r].digest # 0
        PROVE  \E t \in RunId : /\ t >= r /\ runs'[t].policy = runs'[r].policy
                                /\ runs'[t].digest # 0
                                /\ runs'[t].digest = policies'[runs'[r].policy].hash
    <3>1. CASE runs'[s].digest # 0 /\ runs[r].policy = p
      <4>1. s >= r
        BY <1>1, <1>7, <2>1, <3>1 DEF RunId
      <4>2. QED
        BY <1>1, <1>2, <1>3, <3>1, <4>1
    <3>2. CASE ~(runs'[s].digest # 0 /\ runs[r].policy = p)
      <4>1. r # s
        BY <1>1, <2>1, <3>2
      <4>2. runs[r].digest # 0 /\ runs[r].policy \in Policy
        BY <1>2, <2>1, <4>1, DigestedAreStarted
      <4>3. PICK t \in RunId : /\ t >= r /\ runs[t].policy = runs[r].policy
                               /\ runs[t].digest # 0
                               /\ runs[t].digest = policies[runs[r].policy].hash
        BY <2>1, <4>2 DEF HashIsLast
      <4>4. t # s
        BY <1>1, <4>3
      <4>5. policies'[runs[r].policy].hash = policies[runs[r].policy].hash
        BY <1>2, <1>3, <3>2, <4>2
      <4>6. QED
        BY <1>2, <4>3, <4>4, <4>5
    <3>3. QED
      BY <3>1, <3>2
  <2>2. ASSUME ~lapsed, NEW w \in Runner, (At(w, "fetch") \/ At(w, "propose") \/ At(w, "publish"))'
        PROVE  runner'[w].found # policies'[runner'[w].policy].hash
    <3>1. Busy(w) /\ runner'[w] = runner[w] /\ w # v
      BY <1>4, <1>5, <2>2
    <3>2. runner[w].policy \in Policy /\ runner[w].policy # p
      BY <1>1, <2>2, <3>1, BusyTypes DEF OneRunAtATime, Busy, p
    <3>3. policies'[runner[w].policy] = policies[runner[w].policy]
      BY <1>2, <3>2
    <3>4. QED
      BY <2>2, <3>1, <3>3 DEF HashIsLast, At
  <2>3. QED
    BY <1>2, <2>1, <2>2 DEF HashIsLast
<1>9. VersionsInOrder'
  BY <1>2 DEF VersionsInOrder
<1>10. UnchangedEvidenceSkipped'
  <2> SUFFICES ASSUME ~lapsed, NEW i \in DOMAIN hub, NEW j \in DOMAIN hub,
                      i < j, hub[i].policy = hub[j].policy, hub[i].found = hub[j].found,
                      runs'[hub[i].run].status = "COMPLETED"
               PROVE  \E r \in hub[i].run .. hub[j].run :
                        runs'[r].policy = hub[i].policy /\ runs'[r].digest \notin {0, hub[i].found}
    BY <1>2 DEF UnchangedEvidenceSkipped
  <2>1. hub[i].run # s
    <3>1. SUFFICES ASSUME hub[i].run = s PROVE FALSE
      OBVIOUS
    <3>2. hub[j].run > s /\ hub[j].run \in RunId
      BY <3>1, VersionTypes DEF VersionsInOrder
    <3>3. runs[hub[j].run].policy = p
      BY <1>1, <3>1 DEF VersionsOwned
    <3>4. hub[j].run <= s
      BY <1>7, <3>2, <3>3
    <3>5. QED
      BY <1>1, <3>2, <3>4 DEF RunId
  <2>2. runs[hub[i].run].status = "COMPLETED"
    BY <1>2, <2>1, VersionTypes
  <2>3. PICK r \in hub[i].run .. hub[j].run :
          runs[r].policy = hub[i].policy /\ runs[r].digest \notin {0, hub[i].found}
    BY <2>2 DEF UnchangedEvidenceSkipped
  <2>4. r \in RunId /\ r # s
    BY <1>1, <2>3, VersionTypes, RunsBetween
  <2>5. QED
    BY <1>2, <2>3, <2>4
<1>11. ASSUME OnePublisher PROVE BaseIsCurrent' /\ NoLostUpdate'
  <2>1. BaseIsCurrent /\ NoLostUpdate
    BY <1>11
  <2>2. BaseIsCurrent'
    BY <1>2, <1>4, <1>5, <2>1 DEF BaseIsCurrent, At
  <2>3. NoLostUpdate'
    BY <1>2, <2>1 DEF NoLostUpdate
  <2>4. QED
    BY <2>2, <2>3
<1>12. QED
  BY <1>6, <1>8, <1>9, <1>10, <1>11 DEF VersionInv, OnePublisher

LEMMA PublishVersions ==
  ASSUME IInv, NEW w \in Runner, Publish(w)
  PROVE  VersionInv'
<1> DEFINE version == [run |-> runner[w].run, policy |-> runner[w].policy,
                       found |-> runner[w].found, base |-> runner[w].base,
                       unseen |-> runner[w].unseen, files |-> runner[w].files]
           n == Len(hub) + 1
           p == runner[w].policy
           s == runner[w].run
<1> USE DEF IInv
<1>1. /\ Busy(w) /\ At(w, "publish") /\ ~At(w, "complete") /\ ~At(w, "fail")
      /\ UNCHANGED <<policies, runs, lapsed>>
  BY DEF Publish, At, Busy, storeVars
<1>2. /\ runner[w] \in Running /\ p \in Policy /\ s \in RunId /\ runner[w].found # 0
      /\ p \in AutoPublish /\ runner[w].base <= Len(hub) /\ runner[w].base \in Nat
      /\ ~At(w, "search")
  BY <1>1, BusyTypes DEF VersionsOwned, At
<1>3. /\ s \in Started /\ runs[s].policy = p /\ runs[s].status # "COMPLETED"
      /\ runs[s].digest = 0
  BY <1>1 DEF RunsOwned
<1>4. /\ hub'[n] = version /\ Len(hub') = n /\ DOMAIN hub' = 1 .. n
      /\ \A i \in 1 .. Len(hub) : hub'[i] = hub[i]
      /\ DOMAIN hub = 1 .. Len(hub) /\ Len(hub) \in Nat /\ n \in Nat
  <2>1. hub' = Append(hub, version) /\ hub \in Seq(Version)
    BY DEF Publish, TypeOK
  <2> HIDE DEF version
  <2>2. QED
    BY <2>1
<1>5. /\ hub'[n].run = s /\ hub'[n].policy = p /\ hub'[n].found = runner[w].found
      /\ hub'[n].base = runner[w].base /\ hub'[n].files = runner[w].files
      /\ hub'[n].unseen = runner[w].unseen
  BY <1>4
<1>6. /\ (At(w, "complete") \/ At(w, "fail"))' /\ Busy(w)'
      /\ runner'[w].run = s /\ runner'[w].policy = p
      /\ runner'[w].found = runner[w].found /\ runner'[w].base = runner[w].base
      /\ \A u \in Runner : u # w => runner'[u] = runner[u]
  <2>1. PICK place \in {"complete", "fail"} : runner' = [runner EXCEPT ![w].at = place]
    BY DEF Publish, Goes
  <2>2. runner' = [runner EXCEPT ![w] = [runner[w] EXCEPT !.at = place]]
    BY <2>1
  <2>3. runner'[w] = [runner[w] EXCEPT !.at = place]
    BY <2>2 DEF TypeOK
  <2>4. \A u \in Runner : u # w => runner'[u] = runner[u]
    BY <2>2 DEF TypeOK
  <2>5. QED
    BY <1>2, <2>3, <2>4 DEF At, Busy, Running
<1> HIDE DEF version, n, p, s
<1>7. \A i \in DOMAIN hub' : i = n \/ (i \in DOMAIN hub /\ i < n /\ hub'[i] = hub[i])
  BY <1>4 DEF n
<1>8. \A i \in DOMAIN hub : /\ hub[i].run # s /\ hub[i].run \in RunId
                            /\ runs[hub[i].run].policy = hub[i].policy
  BY <1>1, VersionTypes DEF VersionsOwned, s
<1>9. VersionsOwned'
  <2>1. ASSUME NEW u \in Runner, Busy(u)'
        PROVE  /\ runner'[u].base <= Len(hub')
               /\ ~At(u, "search")' => runner'[u].found # 0
               /\ At(u, "publish")' => runner'[u].policy \in AutoPublish
    <3>1. CASE u = w
      BY <1>2, <1>4, <1>6, <3>1 DEF At, n
    <3>2. CASE u # w
      <4>1. Busy(u) /\ runner'[u] = runner[u]
        BY <1>6, <2>1, <3>2 DEF Busy, At
      <4>2. runner[u].base \in 0 .. MaxRuns /\ runner[u].base <= Len(hub)
        BY <4>1, BusyTypes DEF VersionsOwned
      <4>3. runner[u].base <= n
        BY <1>4, <4>2, EvolutionAssumption DEF n
      <4>4. QED
        BY <1>4, <4>1, <4>3 DEF VersionsOwned, At
    <3>3. QED
      BY <3>1, <3>2
  <2>2. ASSUME NEW u \in Runner, NEW i \in DOMAIN hub', Busy(u)', hub'[i].run = runner'[u].run
        PROVE  (At(u, "complete") \/ At(u, "fail"))' /\ hub'[i].found = runner'[u].found
    <3>1. CASE u = w
      <4>1. i = n
        BY <1>6, <1>7, <1>8, <2>2, <3>1
      <4>2. QED
        BY <1>5, <1>6, <3>1, <4>1
    <3>2. CASE u # w
      <4>1. Busy(u) /\ runner'[u] = runner[u]
        BY <1>6, <2>2, <3>2 DEF Busy, At
      <4>2. runner[u].run # s
        BY <1>1, <3>2, <4>1 DEF RunsOwned, s
      <4>3. i \in DOMAIN hub /\ hub'[i] = hub[i]
        BY <1>5, <1>7, <2>2, <4>1, <4>2
      <4>4. QED
        BY <2>2, <4>1, <4>3 DEF VersionsOwned, At
    <3>3. QED
      BY <3>1, <3>2
  <2>3. ASSUME NEW i \in DOMAIN hub'
        PROVE  /\ hub'[i].run \in Started' /\ hub'[i].found # 0
               /\ runs'[hub'[i].run].policy = hub'[i].policy
               /\ runs'[hub'[i].run].status = "COMPLETED" => runs'[hub'[i].run].digest = hub'[i].found
    <3>1. CASE i = n
      BY <1>1, <1>2, <1>3, <1>5, <3>1 DEF Started
    <3>2. CASE i # n
      BY <1>1, <1>7, <3>2 DEF VersionsOwned, Started
    <3>3. QED
      BY <3>1, <3>2
  <2>4. \A i, j \in DOMAIN hub' : hub'[i].run = hub'[j].run => i = j
    BY <1>5, <1>7, <1>8 DEF VersionsOwned
  <2>5. QED
    BY <2>1, <2>2, <2>3, <2>4 DEF VersionsOwned
<1>10. ASSUME NEW u \in Runner, (At(u, "fetch") \/ At(u, "propose") \/ At(u, "publish"))'
       PROVE  u # w /\ runner'[u] = runner[u] /\ Busy(u)
  BY <1>6, <1>10 DEF At, Busy
<1>11. HashIsLast'
  BY <1>1, <1>10 DEF HashIsLast, At
<1>12. ASSUME ~lapsed, NEW i \in DOMAIN hub, hub[i].policy = p
       PROVE  hub[i].run < s
  <2>1. hub[i].run <= s /\ hub[i].run # s
    BY <1>1, <1>8, <1>12 DEF LeaseHeld, p, s
  <2>2. QED
    BY <1>2, <1>8, <2>1 DEF RunId
<1>13. VersionsInOrder'
  BY <1>1, <1>4, <1>5, <1>7, <1>12 DEF VersionsInOrder
<1>14. UnchangedEvidenceSkipped'
  <2> SUFFICES ASSUME ~lapsed, NEW i \in DOMAIN hub', NEW j \in DOMAIN hub',
                      i < j, hub'[i].policy = hub'[j].policy, hub'[i].found = hub'[j].found,
                      runs[hub'[i].run].status = "COMPLETED"
               PROVE  \E r \in hub'[i].run .. hub'[j].run :
                        runs[r].policy = hub'[i].policy /\ runs[r].digest \notin {0, hub'[i].found}
    BY <1>1 DEF UnchangedEvidenceSkipped
  <2>1. i \in DOMAIN hub /\ hub'[i] = hub[i]
    BY <1>4, <1>7
  <2>2. CASE j # n
    BY <1>7, <2>1, <2>2 DEF UnchangedEvidenceSkipped
  <2>3. CASE j = n
    <3>1. hub[i].policy = p /\ hub[i].found = runner[w].found /\ hub'[j].run = s
      BY <1>5, <2>1, <2>3
    <3>2. runs[hub[i].run].digest # 0
      BY <2>1 DEF VersionsOwned
    <3>3. PICK r \in RunId : /\ r >= hub[i].run /\ runs[r].policy = p
                             /\ runs[r].digest # 0 /\ runs[r].digest = policies[p].hash
      BY <1>8, <2>1, <3>1, <3>2 DEF HashIsLast
    <3>4. r <= s
      BY <1>1, <3>3 DEF LeaseHeld, p, s
    <3>5. runner[w].found # policies[p].hash
      BY <1>1 DEF HashIsLast, p
    <3>6. r \in hub'[i].run .. hub'[j].run
      BY <1>2, <1>8, <2>1, <3>1, <3>3, <3>4 DEF RunId
    <3>7. QED
      BY <2>1, <3>1, <3>3, <3>5, <3>6
  <2>4. QED
    BY <2>2, <2>3
<1>15. ASSUME OnePublisher PROVE BaseIsCurrent' /\ NoLostUpdate'
  <2>1. BaseIsCurrent /\ NoLostUpdate
    BY <1>15
  <2>2. BaseIsCurrent'
    <3> SUFFICES ASSUME ~lapsed, NEW u \in Runner, (At(u, "propose") \/ At(u, "publish"))',
                        runner'[u].policy \in AutoPublish
                 PROVE  FALSE
      <4>1. \A u \in Runner : At(u, "publish")' => runner'[u].policy \in AutoPublish
        BY <1>10 DEF VersionsOwned, At
      <4>2. QED
        BY <1>1, <4>1 DEF BaseIsCurrent
    <3>1. u # w /\ runner'[u] = runner[u] /\ Busy(u)
      BY <1>10
    <3>2. runner[u].policy = p
      BY <1>2, <1>15, <3>1 DEF OnePublisher
    <3>3. QED
      BY <1>1, <3>1, <3>2 DEF OneRunAtATime, Busy, p
  <2>3. NoLostUpdate'
    <3> SUFFICES ASSUME ~lapsed, NEW i \in DOMAIN hub'
                 PROVE  IF hub'[i].base = 0 THEN i = 1 \/ hub'[i].unseen
                        ELSE hub'[i].base = i - 1 /\ hub'[i - 1].files \subseteq hub'[i].files
      BY <1>1 DEF NoLostUpdate
    <3>1. CASE i # n
      BY <1>4, <1>7, <2>1, <3>1 DEF NoLostUpdate
    <3>2. CASE i = n
      <4>1. runner[w].base = IF runner[w].unseen THEN 0 ELSE Len(hub)
        BY <1>1, <1>2, <2>1 DEF BaseIsCurrent, p
      <4>2. runner[w].base > 0 => hub[runner[w].base].files \subseteq runner[w].files
        BY <1>1, <2>1 DEF BaseIsCurrent
      <4>3. n - 1 = Len(hub) /\ (Len(hub) # 0 => Len(hub) \in 1 .. Len(hub))
        BY <1>4 DEF n
      <4>4. CASE runner[w].base = 0
        <5>1. runner[w].unseen \/ Len(hub) = 0
          BY <4>1, <4>4
        <5>2. Len(hub) = 0 => i = 1
          BY <3>2 DEF n
        <5>3. QED
          BY <1>5, <3>2, <4>4, <5>1, <5>2
      <4>5. CASE runner[w].base # 0
        <5>1. runner[w].base = Len(hub) /\ Len(hub) # 0
          BY <4>1, <4>5
        <5>2. hub'[i - 1] = hub[Len(hub)] /\ i - 1 = Len(hub)
          BY <1>4, <3>2, <4>3, <5>1
        <5>3. hub[Len(hub)].files \subseteq runner[w].files
          BY <1>4, <4>2, <5>1
        <5>4. QED
          BY <1>5, <3>2, <4>5, <5>1, <5>2, <5>3
      <4>6. QED
        BY <4>4, <4>5
    <3>3. QED
      BY <3>1, <3>2
  <2>4. QED
    BY <2>2, <2>3
<1>16. QED
  BY <1>9, <1>11, <1>13, <1>14, <1>15 DEF VersionInv, OnePublisher

LEMMA WorkVersions ==
  ASSUME IInv, NEW w \in Runner, Finds(w) \/ Fetch(w) \/ Packaged(w)
  PROVE  VersionInv'
<1> USE DEF IInv
<1>1. /\ Busy(w) /\ UNCHANGED <<policies, runs, hub, lapsed>>
      /\ At(w, "search") \/ At(w, "fetch") \/ At(w, "propose")
  BY DEF Finds, Search, Fetch, Packaged, At, Busy, storeVars, worldVars
<1>2. /\ runner[w] \in Running /\ runner[w].base <= Len(hub)
      /\ ~At(w, "search") => runner[w].found # 0
      /\ Len(hub) \in Nat
  BY <1>1, BusyTypes, VersionTypes DEF VersionsOwned
<1>3. CASE Finds(w)
  <2>1. PICK evidence \in Evidence : Search(w, evidence)
    BY <1>3 DEF Finds
  <2>2. runner' = [runner EXCEPT ![w] = [runner[w] EXCEPT !.at = "fetch", !.found = evidence]]
    BY <2>1 DEF Search
  <2>3. runner'[w] = [runner[w] EXCEPT !.at = "fetch", !.found = evidence]
    BY <2>2 DEF TypeOK
  <2>4. /\ At(w, "fetch")' /\ ~At(w, "propose")' /\ ~At(w, "publish")'
        /\ runner'[w].found = evidence /\ runner'[w].base = runner[w].base
        /\ runner'[w].run = runner[w].run /\ runner'[w].policy = runner[w].policy
    BY <1>2, <2>3 DEF At, Running
  <2>5. \A u \in Runner : u # w => runner'[u] = runner[u]
    BY <2>2 DEF TypeOK
  <2>6. evidence # 0 /\ evidence # policies[runner[w].policy].hash
    BY <2>1, EvolutionAssumption DEF Search, IsDuplicate, TypeOK
  <2>7. QED
    BY <1>1, <1>2, <2>4, <2>5, <2>6, VersionsWorked
<1>4. CASE Fetch(w)
  <2>1. PICK base \in Fetched :
          runner' = [runner EXCEPT ![w] =
            [runner[w] EXCEPT !.at = "propose", !.base = base, !.unseen = base # Len(hub)]]
    BY <1>4 DEF Fetch
  <2>2. runner'[w] =
          [runner[w] EXCEPT !.at = "propose", !.base = base, !.unseen = base # Len(hub)]
    BY <2>1 DEF TypeOK
  <2>3. /\ At(w, "propose")' /\ ~At(w, "publish")'
        /\ runner'[w].found = runner[w].found /\ runner'[w].base = base
        /\ runner'[w].run = runner[w].run /\ runner'[w].policy = runner[w].policy
    BY <1>2, <2>2 DEF At, Running
  <2>4. \A u \in Runner : u # w => runner'[u] = runner[u]
    BY <2>1 DEF TypeOK
  <2>5. /\ At(w, "fetch") /\ ~At(w, "search")
        /\ ~lapsed => runner[w].found # policies[runner[w].policy].hash
    BY <1>4 DEF Fetch, At, HashIsLast
  <2>6. runner'[w].base <= Len(hub)
    BY <1>2, <2>3 DEF Fetched
  <2>7. runner'[w].base = IF runner'[w].unseen THEN 0 ELSE Len(hub)
    <3>1. runner'[w].unseen = (base # Len(hub))
      BY <1>2, <2>2 DEF Running
    <3>2. base = IF base # Len(hub) THEN 0 ELSE Len(hub)
      BY DEF Fetched
    <3>3. QED
      BY <2>3, <3>1, <3>2
  <2>8. QED
    BY <1>1, <1>2, <2>3, <2>4, <2>5, <2>6, <2>7, VersionsWorked
<1>5. CASE Packaged(w)
  <2>1. PICK files \in SUBSET Resource :
          /\ runner' = [runner EXCEPT ![w].at = "publish", ![w].files = files]
          /\ runner[w].base > 0 => hub[runner[w].base].files \subseteq files
    BY <1>5 DEF Packaged
  <2>2. runner' = [runner EXCEPT ![w] = [runner[w] EXCEPT !.at = "publish", !.files = files]]
    BY <2>1
  <2>3. runner'[w] = [runner[w] EXCEPT !.at = "publish", !.files = files]
    BY <2>2 DEF TypeOK
  <2>4. /\ At(w, "publish")' /\ runner'[w].files = files
        /\ runner'[w].found = runner[w].found /\ runner'[w].base = runner[w].base
        /\ runner'[w].run = runner[w].run /\ runner'[w].policy = runner[w].policy
        /\ runner'[w].unseen = runner[w].unseen
    BY <1>2, <2>3 DEF At, Running
  <2>5. \A u \in Runner : u # w => runner'[u] = runner[u]
    BY <2>2 DEF TypeOK
  <2>6. /\ At(w, "propose") /\ ~At(w, "search") /\ runner[w].policy \in AutoPublish
        /\ ~lapsed => runner[w].found # policies[runner[w].policy].hash
        /\ OnePublisher /\ ~lapsed
             => runner[w].base = IF runner[w].unseen THEN 0 ELSE Len(hub)
    BY <1>5 DEF Packaged, At, HashIsLast, BaseIsCurrent
  <2>7. QED
    BY <1>1, <1>2, <2>1, <2>4, <2>5, <2>6, VersionsWorked
<1>6. QED
  BY <1>3, <1>4, <1>5

LEMMA VersionPreserved == IInv /\ [Next]_vars => VersionInv'
<1> SUFFICES ASSUME IInv, [Next]_vars PROVE VersionInv'
  OBVIOUS
<1>1. CASE UNCHANGED vars
  BY <1>1, VersionsKept DEF vars, storeVars, worldVars, Started
<1>2. ASSUME NEW w \in Runner, Crash(w) PROVE VersionInv'
  <2>1. /\ UNCHANGED <<policies, runs, hub, lapsed>>
        /\ runner' = [runner EXCEPT ![w] = Idle]
    BY <1>2 DEF Crash, Ends, storeVars, worldVars
  <2>2. \A u \in Runner : runner'[u] = runner[u] \/ runner'[u].at = "idle"
    BY <2>1 DEF IInv, TypeOK, Idle
  <2>3. QED
    BY <2>1, <2>2, VersionsKept DEF Started
<1>3. ASSUME NEW w \in Runner, NEW p \in Policy, Introduce(w, p) PROVE VersionInv'
  <2>1. /\ UNCHANGED <<runs, runner, hub, lapsed>>
        /\ policies' = [policies EXCEPT ![p] = Row(p)]
    BY <1>3 DEF Introduce, worldVars
  <2>2. \A q \in Policy : policies'[q].hash = policies[q].hash
    BY <2>1, RowFacts DEF IInv, TypeOK
  <2>3. QED
    BY <2>1, <2>2, VersionsKept DEF Started
<1>4. ASSUME NEW w \in Runner, NEW p \in Policy, NEW force \in BOOLEAN, Start(w, p, force)
      PROVE  VersionInv'
  <2> DEFINE new == NextRun
  <2>1. new \notin Started
    BY NextRunIsNew DEF IInv
  <2>2. /\ runner'[w].at = "search" /\ runner'[w].run = new /\ runner'[w].base = 0
        /\ \A u \in Runner : u # w => runner'[u] = runner[u]
        /\ runs[new].digest = 0 /\ runs'[new].digest = 0
        /\ \A r \in RunId : r # new => runs'[r] = runs[r]
        /\ UNCHANGED <<hub, lapsed>>
    BY <1>4, StartFacts DEF At, NoRun
  <2>3. \A q \in Policy : policies'[q].hash = policies[q].hash
    BY <1>4, StartFacts
  <2> HIDE DEF new
  <2>4. \A r \in Started : r \in Started' /\ runs'[r] = runs[r]
    BY <2>1, <2>2 DEF Started
  <2>5. \A r \in RunId : runs'[r].digest = runs[r].digest
    BY <2>2
  <2>6. QED
    BY <2>1, <2>2, <2>3, <2>4, <2>5, VersionsKept
<1>5. CASE Recover
  <2>1. /\ hub' = hub /\ runner' = runner
        /\ \A p \in Policy : policies'[p].hash = policies[p].hash
        /\ \A r \in RunId : /\ runs'[r].policy = runs[r].policy
                            /\ runs'[r].digest = runs[r].digest
                            /\ runs'[r].status = "COMPLETED" <=> runs[r].status = "COMPLETED"
        /\ Started' = Started
    BY <1>5, RecoverFacts
  <2>2. ~lapsed' => ~lapsed
    BY <1>5 DEF Recover, IInv, TypeOK
  <2>3. \A r \in Started : r \in RunId
    BY DEF Started
  <2>4. QED
    BY <2>1, <2>2, <2>3, VersionsKept
<1>6. CASE Tick
  <2>1. /\ UNCHANGED <<runs, hub, runner>> /\ (~lapsed' => ~lapsed)
        /\ \A p \in Policy : policies'[p].hash = policies[p].hash
    BY <1>6, TickFacts
  <2>2. QED
    BY <2>1, VersionsKept DEF Started
<1>7. QED
  BY StepCases, <1>1, <1>2, <1>3, <1>4, <1>5, <1>6, EndedVersions, PublishVersions, WorkVersions

-----------------------------------------------------------------------------
(* The theorems. *)

THEOREM EvolutionInvariant == Spec => []IInv
<1>1. IInv /\ [Next]_vars => IInv'
  <2>1. OnePublisher' <=> OnePublisher
    BY DEF OnePublisher
  <2>2. QED
    BY <2>1, TypesKept, WorkPreserved, VersionPreserved DEF IInv, WorkInv, VersionInv
<1>2. QED
  BY InitIInv, <1>1, PTL DEF Spec

(* Every table, run and package keeps its type: no step of a run and no    *)
(* recovery leaves a row with a status, a time or a version of its own.    *)
THEOREM TypeCorrect == Spec => []TypeOK
<1>1. IInv => TypeOK
  BY DEF IInv
<1>2. QED
  BY EvolutionInvariant, <1>1, PTL

(* The lease of a policy (EvolutionStore.claim) keeps the processes apart, *)
(* however many there are and whatever they force, as long as it lasts.    *)
THEOREM RunsDoNotOverlap == Spec => []OneRunAtATime
<1>1. IInv => OneRunAtATime
  BY DEF IInv
<1>2. QED
  BY EvolutionInvariant, <1>1, PTL

(* A policy that is RUNNING has a run that is RUNNING, for                 *)
(* recover_running to find: also when leases lapse and processes crash.    *)
THEOREM RunningCanBeRecovered == Spec => []RunningIsRecoverable
<1>1. IInv => RunningIsRecoverable
  BY DEF IInv
<1>2. QED
  BY EvolutionInvariant, <1>1, PTL

(* run_policy does not publish twice from the same evidence: several       *)
(* policies may evolve and publish the Skill.                              *)
THEOREM UnchangedIsSkipped == Spec => []UnchangedEvidenceSkipped
<1>1. IInv => UnchangedEvidenceSkipped
  BY DEF IInv
<1>2. QED
  BY EvolutionInvariant, <1>1, PTL

(* An update keeps the files of the version before it, and is made from    *)
(* that version; what is made from none over an existing Skill comes from  *)
(* a run whose download of it was answered "not found".  The lease is per  *)
(* policy: this holds of a Skill that one policy publishes, however many   *)
(* others work on drafts of it.                                            *)
THEOREM UpdatesAreKept ==
  ASSUME OnePublisher
  PROVE  Spec => []NoLostUpdate
<1>1. IInv => NoLostUpdate
  BY OnePublisher DEF IInv
<1>2. QED
  BY EvolutionInvariant, <1>1, PTL
=============================================================================
