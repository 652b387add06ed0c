--------------------------- MODULE SkillEvolution ---------------------------
(***************************************************************************)
(* The scheduled evolution of a Skill (skill-evolution-service): processes *)
(* that claim a policy's lease in SQLite (store.py), and under it search   *)
(* the evidence, ask the Manager for a candidate, write its package and    *)
(* publish it to SkillHub (service.py).                                    *)
(*                                                                         *)
(* A Runner is a process that calls tick(): the scheduler, or a --once or  *)
(* --policy command.  A transaction of the store is one step, and so is    *)
(* the code between two awaits of run_policy.  Times are kept as the time  *)
(* left, in ticks: a lease of 0 has expired and a next_run of 0 is due.    *)
(* The evidence a search returns is one number, which stands for its hash, *)
(* and any one each time, for memories come and their ranking changes.  Of *)
(* what is recorded of a run the outcome is left out, since it is shown    *)
(* but nothing the service does depends on it.                             *)
(***************************************************************************)
EXTENDS Naturals, Sequences, FiniteSets

CONSTANTS
  Policy,        \* policies with fetchCurrentSkill, all for one Skill
  AutoPublish,   \* the policies with autoPublish
  AtStartup,     \* the policies with runOnStartup
  Runner,        \* processes
  Lease,         \* SKILL_EVOLUTION_LEASE_SECONDS
  Interval,      \* intervalSeconds
  Retry,         \* min(intervalSeconds, 300)
  MinEvidence,   \* minimumNewMemories: less evidence than this is too little
  MaxEvidence,   \* bound on the evidence a search returns
  MaxRuns,       \* bound on the runs claimed
  Resource,      \* the files a package may have beside SKILL.md
  NoPolicy

ASSUME EvolutionAssumption ==
  /\ NoPolicy \notin Policy /\ AutoPublish \subseteq Policy /\ AtStartup \subseteq Policy
  /\ Lease \in Nat \ {0} /\ Interval \in Nat \ {0} /\ Retry \in 1 .. Interval
  /\ MinEvidence \in Nat \ {0} /\ MaxEvidence \in Nat /\ MaxRuns \in Nat

VARIABLES
  policies,   \* table evolution_policy_state
  runs,       \* table evolution_runs
  runner,     \* where run_policy is in each process
  packages,   \* the runs that have a candidate package on disk
  hub,        \* the published versions of the Skill, in order
  lapsed      \* history: a run went on without its lease

storeVars == <<policies, runs>>
worldVars == <<packages, hub>>
vars == <<storeVars, runner, worldVars, lapsed>>

(* Run ids are uuid4 values in the code: here they are counted. *)
RunId == 1 .. MaxRuns

(* What a search of MemOS may return; 0: nothing. *)
Evidence == 0 .. MaxEvidence

PolicyRow ==
  [status: {"NONE", "IDLE", "RUNNING"}, next: 0 .. Interval, lease: 0 .. Lease,
   hash: Evidence]
RunRow ==
  [status: {"NONE", "RUNNING", "COMPLETED", "FAILED"}, policy: Policy \cup {NoPolicy},
   digest: Evidence]

(* No run and no row yet. *)
NoRun == [status |-> "NONE", policy |-> NoPolicy, digest |-> 0]
Unknown == [status |-> "NONE", next |-> 0, lease |-> 0, hash |-> 0]

(* run_policy between its awaits.  base is the version of the package that *)
(* was fetched, 0 if there was none to be had; files is what is in the     *)
(* package on disk, which only this run reads.  unseen is history: the run *)
(* was told there is none of a Skill that SkillHub has.                    *)
Running ==
  [at: {"search", "fetch", "propose", "publish", "complete", "fail"},
   run: RunId, policy: Policy, found: Evidence, base: 0 .. MaxRuns,
   unseen: BOOLEAN, files: SUBSET Resource]
Idle == [at |-> "idle"]

(* A published version: the run and evidence it comes from, the version it *)
(* was made from, with what its run saw of the Skill, and its files.       *)
Version ==
  [run: RunId, policy: Policy, found: Evidence, base: 0 .. MaxRuns,
   unseen: BOOLEAN, files: SUBSET Resource]

TypeOK ==
  /\ policies \in [Policy -> PolicyRow]
  /\ runs \in [RunId -> RunRow]
  /\ runner \in [Runner -> Running \cup {Idle}]
  /\ packages \in SUBSET RunId
  /\ hub \in Seq(Version)
  /\ lapsed \in BOOLEAN

Init ==
  /\ policies = [p \in Policy |-> Unknown]
  /\ runs = [r \in RunId |-> NoRun]
  /\ runner = [w \in Runner |-> Idle]
  /\ packages = {}
  /\ hub = <<>>
  /\ lapsed = FALSE

-----------------------------------------------------------------------------
(* EvolutionStore. *)

NextRun == Cardinality({r \in RunId : runs[r].status # "NONE"}) + 1

(* The row of a policy; claim() inserts it when it sees the policy first. *)
Row(p) ==
  IF policies[p] # Unknown THEN policies[p]
  ELSE [Unknown EXCEPT !.status = "IDLE", !.next = IF p \in AtStartup THEN 0 ELSE Interval]

(* Mutant of Claimable: the lease is not looked at. *)
ClaimableWhenDue(p, force) == force \/ Row(p).next = 0

Claimable(p, force) ==
  /\ ~(Row(p).status = "RUNNING" /\ Row(p).lease > 0)
  /\ force \/ Row(p).next = 0

Claim(p, force) ==
  /\ NextRun \in RunId
  /\ Claimable(p, force)
  /\ policies' = [policies EXCEPT ![p] = [Row(p) EXCEPT !.status = "RUNNING", !.lease = Lease]]
  /\ runs' = [runs EXCEPT ![NextRun].status = "RUNNING", ![NextRun].policy = p]

(* Mutant of Complete: the hash of the evidence is not kept. *)
CompleteUnhashed(p, r, digest) ==
  /\ policies' = [policies EXCEPT ![p].status = "IDLE", ![p].next = Interval, ![p].lease = 0]
  /\ runs' = [runs EXCEPT ![r].status = "COMPLETED", ![r].digest = digest]

(* complete(): a digest of 0 stands for none and keeps the last one. *)
Complete(p, r, digest) ==
  /\ policies' = [policies EXCEPT ![p] =
       [status |-> "IDLE", next |-> Interval, lease |-> 0,
        hash |-> IF digest = 0 THEN @.hash ELSE digest]]
  /\ runs' = [runs EXCEPT ![r].status = "COMPLETED", ![r].digest = digest]

Fail(p, r) ==
  /\ policies' = [policies EXCEPT ![p].status = "IDLE", ![p].next = Retry, ![p].lease = 0]
  /\ runs' = [runs EXCEPT ![r].status = "FAILED"]

RunsUnder(status) == {r \in RunId : runs[r].status = status}

(* Mutant of RecoverRunning: the policies are left as they are. *)
RecoverRuns ==
  /\ RunsUnder("RUNNING") # {}
  /\ runs' = [r \in RunId |->
       IF r \in RunsUnder("RUNNING") THEN [runs[r] EXCEPT !.status = "FAILED"] ELSE runs[r]]
  /\ UNCHANGED policies

RecoverRunning ==
  /\ RunsUnder("RUNNING") # {}
  /\ runs' = [r \in RunId |->
       IF r \in RunsUnder("RUNNING") THEN [runs[r] EXCEPT !.status = "FAILED"] ELSE runs[r]]
  /\ policies' = [p \in Policy |->
       IF policies[p].status = "RUNNING"
       THEN [policies[p] EXCEPT !.status = "IDLE", !.next = 0, !.lease = 0] ELSE policies[p]]

-----------------------------------------------------------------------------
(* SkillEvolutionService.run_policy. *)

At(w, place) == runner[w].at = place
Goes(w, place) == runner' = [runner EXCEPT ![w].at = place]
Ends(w) == runner' = [runner EXCEPT ![w] = Idle]

(* tick() meets a new policy whose first run is later. *)
Introduce(w, p) ==
  /\ At(w, "idle")
  /\ policies[p] = Unknown
  /\ ~Claimable(p, FALSE)
  /\ policies' = [policies EXCEPT ![p] = Row(p)]
  /\ UNCHANGED <<runs, runner, worldVars, lapsed>>

(* tick() claims a policy and runs it. *)
Start(w, p, force) ==
  /\ At(w, "idle")
  /\ Claim(p, force)
  /\ runner' = [runner EXCEPT ![w] =
       [at |-> "search", run |-> NextRun, policy |-> p, found |-> 0, base |-> 0,
        unseen |-> FALSE, files |-> {}]]
  /\ UNCHANGED <<worldVars, lapsed>>

(* The run ends, with the digest of what it was for. *)
Finish(w, digest) ==
  /\ Complete(runner[w].policy, runner[w].run, digest)
  /\ Ends(w)
  /\ UNCHANGED <<worldVars, lapsed>>

(* The search returns evidence, or nothing (0); too little, or what the    *)
(* last completed run saw, ends the run.                                   *)
TooLittle(w, evidence) ==
  /\ At(w, "search")
  /\ evidence < MinEvidence
  /\ Finish(w, 0)

IsDuplicate(w, evidence) == evidence = policies[runner[w].policy].hash

Duplicate(w, evidence) ==
  /\ At(w, "search")
  /\ evidence >= MinEvidence
  /\ IsDuplicate(w, evidence)
  /\ Finish(w, evidence)

Search(w, evidence) ==
  /\ At(w, "search")
  /\ evidence >= MinEvidence
  /\ ~IsDuplicate(w, evidence)
  /\ runner' = [runner EXCEPT ![w].at = "fetch", ![w].found = evidence]
  /\ UNCHANGED <<storeVars, worldVars, lapsed>>

(* fetch_current: the version SkillHub resolves the Skill to with its      *)
(* files, which do not change until they are downloaded.  It is none (0)   *)
(* if there is none to resolve, and also if the download of the version    *)
(* that was resolved is answered "not found".                              *)
Fetched == {0, Len(hub)}

Fetch(w) ==
  /\ At(w, "fetch")
  /\ \E base \in Fetched :
       runner' = [runner EXCEPT ![w].at = "propose", ![w].base = base,
                                ![w].unseen = base # Len(hub)]
  /\ UNCHANGED <<storeVars, worldVars, lapsed>>

(* The Manager sees no reason for a change, or asks for a review only. *)
NoCandidate(w) ==
  /\ At(w, "propose")
  /\ Finish(w, runner[w].found)

(* CREATE is for a Skill of which none was fetched, UPDATE for the others. *)
Fits(w, action) ==
  CASE action = "CREATE" -> runner[w].base = 0
    [] action = "UPDATE" -> runner[w].base > 0
    [] OTHER -> TRUE

(* Mutant of Overlaid: the package has the files of the candidate only.    *)
CandidateOnly(base, written) == written

(* The candidate's files are written over those of the base, which there   *)
(* is for an UPDATE.                                                       *)
Overlaid(base, written) == written \cup (IF base > 0 THEN hub[base].files ELSE {})

(* The directory of a package is named by the run and must not exist yet.  *)
WritePackage(w) ==
  /\ runner[w].run \notin packages
  /\ packages' = packages \cup {runner[w].run}

PackageReady(w, action) ==
  \E written \in SUBSET Resource :
    LET base == IF action = "UPDATE" THEN runner[w].base ELSE 0 IN
    runner' = [runner EXCEPT ![w].at = "publish",
                             ![w].files = Overlaid(base, written)]

(* A candidate with files: it is published, or left as a draft. *)
Propose(w, action) ==
  /\ At(w, "propose")
  /\ Fits(w, action)
  /\ WritePackage(w)
  /\ IF runner[w].policy \in AutoPublish /\ action # "REVIEW"
       THEN PackageReady(w, action) /\ UNCHANGED storeVars
       ELSE Complete(runner[w].policy, runner[w].run, runner[w].found) /\ Ends(w)
  /\ UNCHANGED <<hub, lapsed>>

(* What is on disk is a version in SkillHub now; the answer or the         *)
(* comparison with a download may fail.                                    *)
Publish(w) ==
  /\ At(w, "publish")
  /\ hub' = Append(hub, [run |-> runner[w].run, policy |-> runner[w].policy,
                         found |-> runner[w].found, base |-> runner[w].base,
                         unseen |-> runner[w].unseen, files |-> runner[w].files])
  /\ \/ Goes(w, "complete")
     \/ Goes(w, "fail")
  /\ UNCHANGED <<storeVars, packages, lapsed>>

Published(w) ==
  /\ At(w, "complete")
  /\ Finish(w, runner[w].found)

(* Any await of the run raises, or the candidate does not fit. *)
RunFails(w) ==
  /\ At(w, "search") \/ At(w, "fetch") \/ At(w, "propose") \/ At(w, "publish") \/ At(w, "fail")
  /\ Fail(runner[w].policy, runner[w].run)
  /\ Ends(w)
  /\ UNCHANGED <<worldVars, lapsed>>

(* The process dies; its run stays RUNNING in the store. *)
Crash(w) ==
  /\ ~At(w, "idle")
  /\ Ends(w)
  /\ UNCHANGED <<storeVars, worldVars, lapsed>>

(* --recover-running.  It is for a stopped scheduler, but does not check   *)
(* that there is no run it takes the lease from.                           *)
Recover ==
  /\ RecoverRunning
  /\ lapsed' = (lapsed \/ \E w \in Runner : ~At(w, "idle"))
  /\ UNCHANGED <<runner, worldVars>>

-----------------------------------------------------------------------------
(* The environment. *)

Aged(n) == IF n > 0 THEN n - 1 ELSE 0

(* A run that outlasts its lease goes on without it. *)
Tick ==
  /\ policies' = [p \in Policy |->
       [policies[p] EXCEPT !.next = Aged(@), !.lease = Aged(@)]]
  /\ lapsed' = (lapsed \/ \E w \in Runner :
                            ~At(w, "idle") /\ policies[runner[w].policy].lease = 1)
  /\ UNCHANGED <<runs, runner, worldVars>>

-----------------------------------------------------------------------------
RunStep(w) ==
  \/ \E evidence \in Evidence :
       TooLittle(w, evidence) \/ Duplicate(w, evidence) \/ Search(w, evidence)
  \/ Fetch(w) \/ NoCandidate(w) \/ Publish(w) \/ Published(w)
  \/ \E action \in {"CREATE", "UPDATE", "REVIEW"} : Propose(w, action)

Next ==
  \/ \E w \in Runner :
       \/ \E p \in Policy : Introduce(w, p) \/ \E force \in BOOLEAN : Start(w, p, force)
       \/ RunStep(w) \/ RunFails(w) \/ Crash(w)
  \/ Recover
  \/ Tick

Spec == Init /\ [][Next]_vars

-----------------------------------------------------------------------------
(* Properties. *)

(* The lease keeps the processes apart: no two of them run a policy at the *)
(* same time, whatever was forced, crashed or recovered, as long as no run *)
(* outlasts its lease or has it taken away.                                *)
OneRunAtATime ==
  ~lapsed => \A v, w \in Runner :
    v # w /\ ~At(v, "idle") /\ ~At(w, "idle") => runner[v].policy # runner[w].policy

(* A policy that is RUNNING has a run that is RUNNING, which is what       *)
(* recover_running looks for before it releases any lease: not even a run  *)
(* that goes on without its lease leaves a policy nobody can recover.      *)
RunningIsRecoverable ==
  \A p \in Policy : policies[p].status = "RUNNING" =>
    \E r \in RunId : runs[r].status = "RUNNING" /\ runs[r].policy = p

(* manager.py tells the Manager that the files an UPDATE omits are         *)
(* preserved automatically.  A version that was made from another was made *)
(* from the one it follows and has all files of that one, whatever ran,    *)
(* failed to be verified or crashed between the two.  One that was made    *)
(* from none is the first, or its run was told that the Skill is not there.*)
NoLostUpdate ==
  ~lapsed => \A i \in DOMAIN hub :
    IF hub[i].base = 0 THEN i = 1 \/ hub[i].unseen
    ELSE hub[i].base = i - 1 /\ hub[i - 1].files \subseteq hub[i].files

(* README.md: the service uses a deterministic evidence hash to skip an    *)
(* unchanged result set.  A policy publishes again from the same evidence  *)
(* only if the run that did it before is not recorded as completed, or if  *)
(* a run in between was completed on other evidence.                       *)
UnchangedEvidenceSkipped ==
  ~lapsed => \A i, j \in DOMAIN hub :
    /\ i < j /\ hub[i].policy = hub[j].policy /\ hub[i].found = hub[j].found
    /\ runs[hub[i].run].status = "COMPLETED"
    => \E r \in hub[i].run .. hub[j].run :
         runs[r].policy = hub[i].policy /\ runs[r].digest \notin {0, hub[i].found}

-----------------------------------------------------------------------------
(* What these rest on. *)

Busy(w) == ~At(w, "idle")
Started == {r \in RunId : runs[r].status # "NONE"}

(* Runs are numbered in the order of their claims. *)
RunsCounted == \E n \in 0 .. MaxRuns : Started = 1 .. n

(* A process works on a run of its own that has no result yet. *)
RunsOwned ==
  /\ \A r \in RunId : IF r \in Started THEN runs[r].policy \in Policy ELSE runs[r] = NoRun
  /\ \A w \in Runner : Busy(w) =>
       /\ runner[w].run \in Started
       /\ runs[runner[w].run].policy = runner[w].policy
       /\ runs[runner[w].run].digest = 0 /\ runs[runner[w].run].status # "COMPLETED"
  /\ \A v, w \in Runner : Busy(v) /\ Busy(w) /\ runner[v].run = runner[w].run => v = w

(* What a run has found and published. *)
VersionsOwned ==
  /\ \A w \in Runner : Busy(w) =>
       /\ runner[w].base <= Len(hub)
       /\ ~At(w, "search") => runner[w].found # 0
       /\ At(w, "publish") => runner[w].policy \in AutoPublish
  /\ \A w \in Runner, i \in DOMAIN hub : Busy(w) /\ hub[i].run = runner[w].run =>
       (At(w, "complete") \/ At(w, "fail")) /\ hub[i].found = runner[w].found
  /\ \A i \in DOMAIN hub :
       /\ hub[i].run \in Started /\ hub[i].found # 0
       /\ runs[hub[i].run].policy = hub[i].policy
       /\ runs[hub[i].run].status = "COMPLETED" => runs[hub[i].run].digest = hub[i].found
  /\ \A i, j \in DOMAIN hub : hub[i].run = hub[j].run => i = j

(* Who runs a policy has its lease, and no later run of it exists. *)
LeaseHeld ==
  ~lapsed => \A w \in Runner : Busy(w) =>
    /\ policies[runner[w].policy].status = "RUNNING" /\ policies[runner[w].policy].lease > 0
    /\ \A r \in RunId : runs[r].policy = runner[w].policy => r <= runner[w].run

(* The hash of a policy is the digest of the last run that has one, and a  *)
(* run goes on only from other evidence.                                   *)
HashIsLast ==
  ~lapsed =>
    /\ \A r \in RunId : runs[r].digest # 0 =>
         \E s \in RunId : /\ s >= r /\ runs[s].policy = runs[r].policy
                         /\ runs[s].digest # 0
                         /\ runs[s].digest = policies[runs[r].policy].hash
    /\ \A w \in Runner : At(w, "fetch") \/ At(w, "propose") \/ At(w, "publish") =>
         runner[w].found # policies[runner[w].policy].hash

VersionsInOrder ==
  ~lapsed => \A i, j \in DOMAIN hub :
    i < j /\ hub[i].policy = hub[j].policy => hub[i].run < hub[j].run

(* As long as one policy alone publishes, nobody publishes between the     *)
(* fetch and the publication of a run.                                     *)
OnePublisher == \A p, q \in AutoPublish : p = q

BaseIsCurrent ==
  ~lapsed => \A w \in Runner :
    /\ (At(w, "propose") \/ At(w, "publish")) /\ runner[w].policy \in AutoPublish
         => runner[w].base = IF runner[w].unseen THEN 0 ELSE Len(hub)
    /\ At(w, "publish") /\ runner[w].base > 0
         => hub[runner[w].base].files \subseteq runner[w].files

IInv ==
  /\ TypeOK
  /\ RunsCounted /\ RunsOwned /\ VersionsOwned
  /\ RunningIsRecoverable
  /\ LeaseHeld /\ OneRunAtATime
  /\ HashIsLast /\ VersionsInOrder /\ UnchangedEvidenceSkipped
  /\ OnePublisher => BaseIsCurrent /\ NoLostUpdate
=============================================================================
