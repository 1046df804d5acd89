----------------------------- MODULE BenchmarkProofs -----------------------------
(* The two promises of the benchmark, for every set of cases and patches:  *)
(* its steps are steps of the pipeline, so that the pipeline's invariant   *)
(* holds, and what its driver knows of the worktree at each place decides  *)
(* what the case is counted as.                                            *)
EXTENDS BenchmarkSuite, PipelineProofs

Fresh == {"head", "reproduce", "run test"}
Tests == {"acceptance", "fingerprint", "record", "judge"}
Answers == {"fingerprint", "record", "judge"}

(* The worktree of case r, from its own patch, passes everything.          *)
Passing(r) ==
  /\ tree[Repo[r]] = {CasePatch[r]}
  /\ CasePatch[r] \in Fixes[r]
  /\ r \in Guarded => CasePatch[r] \in Accepts[r]

(* The row of case r says why the case failed.                             *)
Counted(r) ==
  /\ runs[r].status \in Terminal
  /\ runs[r].status # "SUCCEEDED" /\ Passing(r) => runs[r].last_error = "error"

(* What the driver remembers is what the worktree of case r says now:      *)
(* nobody else changes it, and the driver does only before it measures.    *)
Aware(r) ==
  LET me == worker[Driver]
      patches == tree[Repo[r]]
  IN  /\ me.patch \in {None, CasePatch[r]}
      /\ me.at \in Fresh => patches = {}
      /\ me.at \in Tests => (me.tests <=> patches \cap Fixes[r] # {})
      /\ me.at = "acceptance" => r \in Guarded
      /\ me.at \in Answers /\ me.acceptance = FALSE =>
           r \in Guarded /\ patches \cap Accepts[r] = {}
      /\ me.at \notin Answers \cup {"complete", "raised"} => me.acceptance = None
      /\ me.at = "raised" /\ Passing(r) => me.error = "error"

(* The suite has settled the cases of its result; the others are to come.  *)
Done == DOMAIN suite.status
ToCome == Runs \ Done

SuiteTypeOK ==
  /\ suite = [at |-> suite.at, case |-> suite.case, result |-> suite.result,
              status |-> suite.status, succeeded |-> suite.succeeded]
  /\ Done \subseteq Runs
  /\ suite.at \in {"claim", "execute", "record"} => suite.case \in ToCome

SuiteInv ==
  /\ SuiteTypeOK
  /\ NeverDiverges
  /\ \A r \in Runs : tree[Repo[r]] \subseteq {CasePatch[r]}
  /\ \A r \in Done : suite.status[r] = runs[r].status /\ Counted(r)
  /\ suite.at \in {"next", "claim", "execute", "record"} =>
       \A r \in ToCome : \/ tree[Repo[r]] = {}
                         \/ suite.at \in {"execute", "record"} /\ r = suite.case
  /\ suite.at = "execute" => RunOf(Driver) = suite.case /\ Aware(suite.case)
  /\ suite.at = "record" =>
       runs[suite.case].status = suite.result /\ Counted(suite.case)
  /\ suite.at = "written" =>
       /\ Done = Runs
       /\ suite.succeeded = Cardinality({r \in Runs : suite.status[r] = "SUCCEEDED"})

-----------------------------------------------------------------------------
(* What the driver's moves leave it knowing.                               *)

(* It goes on to another place: to one where it relies on the worktree     *)
(* only from one where it did, and without a change of it.                 *)
LEMMA GotoAware ==
  ASSUME NEW r \in Runs, Aware(r), Typed(Places),
         NEW place \in Places \cup ApplySteps \cup VerifySteps, place # "raised",
         Goto(Driver, place),
         place \in Fresh \cup Tests => tree' = tree,
         place \in Fresh => worker[Driver].at \in Fresh,
         place \in Answers => worker[Driver].at \in Answers,
         place = "acceptance" => worker[Driver].at = "acceptance",
         worker[Driver].at \in Answers \cup {"complete", "raised"} =>
           place \in Answers \cup {"complete"}
  PROVE  Aware(r)'
<1>1. Driver \in Workers
  BY SuiteAssumption
<1>2. Moves(Driver, Places, place) /\ Remembers(Driver)
  BY <1>1, GotoMoves
<1>3. /\ worker'[Driver].at = place
      /\ worker'[Driver].patch = worker[Driver].patch
      /\ worker'[Driver].tests = worker[Driver].tests
      /\ worker'[Driver].acceptance = worker[Driver].acceptance
  BY <1>2 DEF Moves, Remembers
<1> QED
  BY <1>3 DEF Aware, Fresh, Tests, Answers

(* It raises: that something went wrong, or what it found.                 *)
LEMMA RaiseAware ==
  ASSUME NEW r \in Runs, Aware(r), Typed(Places), NEW error \in Errors,
         Raise(Driver, error), error = "error" \/ ~Passing(r)'
  PROVE  Aware(r)'
<1> DEFINE new == [worker[Driver] EXCEPT !.at = "raised", !.error = error]
<1>1. Driver \in Workers /\ worker[Driver] \in Worker(Places)
  BY SuiteAssumption DEF Typed
<1>2. new \in Worker(Places) /\ new.at = "raised" /\ new.error = error
      /\ new.patch = worker[Driver].patch
  BY <1>1 DEF Worker
<1>3. worker' = [worker EXCEPT ![Driver] = new]
  BY DEF Raise
<1> HIDE DEF new
<1>4. worker'[Driver] = new
  BY <1>1, <1>2, <1>3, OneMoves
<1> QED
  BY <1>2, <1>4 DEF Aware, Fresh, Tests, Answers

(* It measures the worktree.                                               *)
LEMMA MeasureAware ==
  ASSUME NEW r \in Runs, r = RunOf(Driver), Aware(r), Typed(Places), tree' = tree,
         Verification(Driver) \/ Acceptance(Driver) \/ TakeFingerprint(Driver)
  PROVE  Aware(r)'
<1>1. /\ Driver \in Workers /\ worker[Driver] \in Worker(Places)
      /\ None \notin BOOLEAN
  BY SuiteAssumption DEF Typed
<1>2. /\ Passes(Driver) <=> tree[Repo[r]] \cap Fixes[r] # {}
      /\ PassesAcceptance(Driver) <=> tree[Repo[r]] \cap Accepts[r] # {}
      /\ Passes(Driver) \in BOOLEAN /\ PassesAcceptance(Driver) \in BOOLEAN
  BY DEF Passes, PassesAcceptance, TreeOf
<1>3. CASE Verification(Driver)
  <2> DEFINE passes == Passes(Driver)
             place == IF passes /\ r \in Guarded THEN "acceptance" ELSE "fingerprint"
             new == [worker[Driver] EXCEPT !.tests = passes, !.at = place]
  <2>1. worker' = [worker EXCEPT ![Driver] = new] /\ At(Driver, "verification")
    BY <1>3 DEF Verification
  <2>2. place \in {"acceptance", "fingerprint"} /\ (place = "acceptance" => r \in Guarded)
    OBVIOUS
  <2>3. passes \in BOOLEAN /\ (passes <=> tree[Repo[r]] \cap Fixes[r] # {})
    BY <1>2
  <2> HIDE DEF passes, place
  <2>4. /\ new \in Worker(Places) /\ new.at = place /\ new.tests = passes
        /\ new.patch = worker[Driver].patch
        /\ new.acceptance = worker[Driver].acceptance
    <3>1. new \in Worker(Places)
      BY <1>1, <2>2, <2>3 DEF Worker, VerifySteps
    <3>2. new.at = place /\ new.tests = passes
      BY <1>1 DEF Worker
    <3>3. /\ new.patch = worker[Driver].patch
          /\ new.acceptance = worker[Driver].acceptance
      BY <1>1 DEF Worker
    <3> QED
      BY <3>1, <3>2, <3>3
  <2> HIDE DEF new
  <2>5. worker'[Driver] = new /\ worker[Driver].acceptance = None
    BY <1>1, <2>1, <2>4, OneMoves DEF Aware, At, Answers
  <2> QED
    BY <1>1, <2>2, <2>3, <2>4, <2>5 DEF Aware, Fresh, Tests, Answers
<1>4. CASE Acceptance(Driver)
  <2> DEFINE passes == PassesAcceptance(Driver)
             new == [worker[Driver] EXCEPT !.acceptance = passes, !.at = "fingerprint"]
  <2>1. worker' = [worker EXCEPT ![Driver] = new] /\ At(Driver, "acceptance")
    BY <1>4 DEF Acceptance
  <2>2. passes \in BOOLEAN /\ (passes <=> tree[Repo[r]] \cap Accepts[r] # {})
    BY <1>2
  <2> HIDE DEF passes
  <2>3. /\ new \in Worker(Places) /\ new.at = "fingerprint" /\ new.acceptance = passes
        /\ new.patch = worker[Driver].patch /\ new.tests = worker[Driver].tests
    <3>1. new \in Worker(Places)
      BY <1>1, <2>2 DEF Worker, VerifySteps
    <3>2. new.at = "fingerprint" /\ new.acceptance = passes
      BY <1>1 DEF Worker
    <3>3. new.patch = worker[Driver].patch /\ new.tests = worker[Driver].tests
      BY <1>1 DEF Worker
    <3> QED
      BY <3>1, <3>2, <3>3
  <2> HIDE DEF new
  <2>4. worker'[Driver] = new
    BY <1>1, <2>1, <2>3, OneMoves
  <2>5. (worker[Driver].tests <=> tree[Repo[r]] \cap Fixes[r] # {}) /\ r \in Guarded
    BY <2>1 DEF Aware, At, Tests
  <2> QED
    BY <2>2, <2>3, <2>4, <2>5 DEF Aware, Fresh, Tests, Answers
<1>5. CASE TakeFingerprint(Driver)
  <2> DEFINE files == SourceFingerprint(Driver)
             new == [worker[Driver] EXCEPT !.source = files, !.at = "record"]
  <2>1. worker' = [worker EXCEPT ![Driver] = new] /\ At(Driver, "fingerprint")
    BY <1>5 DEF TakeFingerprint
  <2>2. new.at = "record" /\ new.acceptance = worker[Driver].acceptance
        /\ new.patch = worker[Driver].patch /\ new.tests = worker[Driver].tests
    BY <1>1 DEF Worker
  <2> HIDE DEF new
  <2>3. worker'[Driver] = new
    BY <1>1, <2>1 DEF Typed
  <2> QED
    BY <2>1, <2>2, <2>3 DEF Aware, At, Fresh, Tests, Answers
<1> QED
  BY <1>3, <1>4, <1>5

(* A step of the attempt at case r writes to no other worktree, and to     *)
(* this one no other patch.                                                *)
LEMMA AttemptWrites ==
  ASSUME NEW r \in Runs, r = RunOf(Driver), Works(Driver), Aware(r),
         tree[Repo[r]] \subseteq {CasePatch[r]}
  PROVE  /\ tree'[Repo[r]] \subseteq {CasePatch[r]}
         /\ \A s \in Runs \ {r} : tree'[Repo[s]] = tree[Repo[s]]
<1>1. /\ None \notin Requests /\ Repo \in [Runs -> Worktrees]
      /\ \A s \in Runs \ {r} : Repo[s] # Repo[r]
  BY StoreAssumption, WorkspaceAssumption, SuiteAssumption
<1>2. \A t \in Worktrees : \A patch \in tree'[t] :
        patch \in tree[t] \/ (t = Repo[r] /\ patch = CasePatch[r])
  <2>1. worker[Driver].patch \in {None, CasePatch[r]}
    BY DEF Aware
  <2>2. Asked(Driver, KEY) => worker[Driver].patch = CasePatch[r]
    BY <1>1, <2>1 DEF Asked
  <2>3. \A t \in Worktrees : \A patch \in tree'[t] :
          \/ patch \in tree[t]
          \/ t = Repo[r] /\ patch = worker[Driver].patch /\ Asked(Driver, KEY)
    BY DEF Works, Honest
  <2> QED
    BY <2>2, <2>3
<1>3. \A t \in Worktrees : tree[t] \subseteq tree'[t]
  BY DEF Works, TreesGrow
<1>4. tree'[Repo[r]] \subseteq {CasePatch[r]}
  BY <1>1, <1>2
<1>5. ASSUME NEW s \in Runs \ {r} PROVE tree'[Repo[s]] = tree[Repo[s]]
  <2>1. Repo[s] \in Worktrees /\ Repo[s] # Repo[r]
    BY <1>1
  <2> QED
    BY <1>2, <1>3, <2>1
<1> QED
  BY <1>4, <1>5

(* apply_patch: the driver measures nothing, and what it raises is that    *)
(* something went wrong.                                                   *)
LEMMA ApplyAware ==
  ASSUME NEW r \in Runs, Aware(r), Typed(Places), ApplyPatch(Driver, KEY, "verify")
  PROVE  Aware(r)'
<1>1. "error" \in Errors /\ "verify" \in Places
  BY EvidenceAssumption DEF Places, StoreCalls
<1>2. \A place \in ApplySteps \cup {"verify"} :
        Goto(Driver, place) /\ worker[Driver].at \in ApplySteps => Aware(r)'
  BY <1>1, GotoAware DEF ApplySteps, Fresh, Tests, Answers
<1>3. Raise(Driver, "error") => Aware(r)'
  BY <1>1, RaiseAware
<1>4. ASSUME ReverseCheck(Driver) PROVE Aware(r)'
  <2> DEFINE new == [worker[Driver] EXCEPT !.at = "reconcile",
                       !.applied = worker[Driver].patch \in TreeOf(Driver)]
  <2>1. worker' = [worker EXCEPT ![Driver] = new] /\ At(Driver, "reverse check")
    BY <1>4 DEF ReverseCheck
  <2>2. Driver \in Workers /\ worker[Driver] \in Worker(Places)
    BY SuiteAssumption DEF Typed
  <2>3. new.at = "reconcile" /\ new.patch = worker[Driver].patch
        /\ new.acceptance = worker[Driver].acceptance
    BY <2>2 DEF Worker
  <2> HIDE DEF new
  <2>4. worker'[Driver] = new
    BY <2>1, <2>2 DEF Typed
  <2> QED
    BY <2>1, <2>3, <2>4 DEF Aware, At, Fresh, Tests, Answers
<1>5. ASSUME BeginApply(Driver, KEY, "verify") PROVE Aware(r)'
  <2>1. worker[Driver].at \in ApplySteps
    BY <1>5 DEF BeginApply, At, ApplySteps
  <2>2. \/ \E place \in ApplySteps \cup {"verify"} : Goto(Driver, place)
        \/ Raise(Driver, "error")
    BY <1>5 DEF BeginApply, ApplySteps
  <2> QED
    BY <1>2, <1>3, <2>1, <2>2
<1>6. ASSUME ReconcileApply(Driver, KEY, "verify") PROVE Aware(r)'
  BY <1>2, <1>3, <1>6 DEF ReconcileApply, At, ApplySteps
<1>7. ASSUME GitApply(Driver) \/ GitApplyKilled(Driver)
             \/ ConfirmApply(Driver, KEY, "verify") \/ DisconfirmApply(Driver, KEY)
      PROVE  Aware(r)'
  BY <1>2, <1>3, <1>7 DEF GitApply, GitApplyKilled, ConfirmApply, DisconfirmApply,
     At, ApplySteps
<1> QED
  BY <1>4, <1>5, <1>6, <1>7 DEF ApplyPatch

(* Every step of the attempt, with the one answer of the repairer.         *)
LEMMA AttemptAware ==
  ASSUME NEW r \in Runs, r = RunOf(Driver), Aware(r), Typed(Places),
         tree'[Repo[r]] \subseteq {CasePatch[r]},
         Attempt(Driver),
         At(Driver, "propose") => worker'[Driver].patch \in {None, CasePatch[r]}
  PROVE  Aware(r)'
<1>1. /\ {"error", "not reproducibly failing", "failed verification",
          "failed acceptance"} \subseteq Errors
      /\ \A place \in {"reproduce", "run test", "repair", "propose", "begin",
                       "verification", "judge", "complete"} :
           place \in Places \cup ApplySteps \cup VerifySteps
  BY EvidenceAssumption, PipelineAssumption
     DEF Places, StoreCalls, Commands, ApplySteps, VerifySteps
<1>2. CASE CheckHead(Driver)
  BY <1>1, <1>2, GotoAware DEF CheckHead, At, Fresh, Tests, Answers
<1>3. CASE \/ EnterStage(Driver, "reproduce", "reproduce", "run test")
           \/ EnterStage(Driver, "repair", "repair", "propose")
           \/ EnterStage(Driver, "apply", "apply", "begin")
           \/ EnterStage(Driver, "verify", "verify", "verification")
  BY <1>1, <1>3, GotoAware DEF EnterStage, At, Fresh, Tests, Answers
<1>4. CASE Reproduce(Driver)
  <2>1. ~Passes(Driver)
    BY <1>4 DEF Reproduce, At, Aware, Fresh, Passes, TreeOf
  <2> QED
    BY <1>1, <1>4, <2>1, GotoAware DEF Reproduce, At, Fresh, Tests, Answers
<1>5. CASE Propose(Driver)
  <2>1. PICK patch \in Requests :
          worker' = [worker EXCEPT ![Driver].at = "apply", ![Driver].patch = patch]
    BY <1>5 DEF Propose
  <2> DEFINE new == [worker[Driver] EXCEPT !.at = "apply", !.patch = patch]
  <2>2. Driver \in Workers /\ worker[Driver] \in Worker(Places)
    BY SuiteAssumption DEF Typed
  <2>3. new.at = "apply" /\ new.acceptance = worker[Driver].acceptance
    BY <2>2 DEF Worker
  <2>4. worker' = [worker EXCEPT ![Driver] = new]
    BY <2>1
  <2> HIDE DEF new
  <2>5. worker'[Driver] = new
    BY <2>2, <2>4 DEF Typed
  <2> QED
    BY <1>5, <2>3, <2>5 DEF Propose, Aware, At, Fresh, Tests, Answers
<1>6. CASE ApplyPatch(Driver, KEY, "verify")
  BY <1>6, ApplyAware
<1>7. CASE Verification(Driver) \/ Acceptance(Driver) \/ TakeFingerprint(Driver)
  BY <1>7, MeasureAware DEF Verification, Acceptance, TakeFingerprint
<1>8. CASE Record(Driver)
  BY <1>1, <1>8, GotoAware DEF Record, At, Fresh, Tests, Answers
<1>9. CASE Judge(Driver)
  <2>1. worker[Driver].at = "judge" /\ tree' = tree
    BY <1>9 DEF Judge, At
  <2>2. CASE Raise(Driver, "failed verification") /\ ~worker[Driver].tests
    <3>1. tree[Repo[r]] \cap Fixes[r] = {}
      BY <2>1, <2>2 DEF Aware, Tests
    <3>2. ~Passing(r)'
      BY <2>1, <3>1 DEF Passing
    <3> QED
      BY <1>1, <2>2, <3>2, RaiseAware
  <2>3. CASE Raise(Driver, "failed acceptance") /\ worker[Driver].acceptance = FALSE
    <3>1. r \in Guarded /\ tree[Repo[r]] \cap Accepts[r] = {}
      BY <2>1, <2>3 DEF Aware, Answers
    <3>2. ~Passing(r)'
      BY <2>1, <3>1 DEF Passing
    <3> QED
      BY <1>1, <2>3, <3>2, RaiseAware
  <2>4. CASE Goto(Driver, "complete")
    BY <1>1, <2>1, <2>4, GotoAware DEF Fresh, Tests, Answers
  <2> QED
    BY <1>9, <2>2, <2>3, <2>4 DEF Judge
<1>10. CASE Raises(Driver)
  BY <1>1, <1>10, RaiseAware DEF Raises
<1> QED
  BY <1>2, <1>3, <1>4, <1>5, <1>6, <1>7, <1>8, <1>9, <1>10 DEF Attempt

-----------------------------------------------------------------------------
(* The suite's steps are the pipeline's.                                   *)

LEMMA SuiteSteps ==
  ASSUME SuiteNext PROVE Next \/ UNCHANGED vars
<1>1. Driver \in Workers
  BY SuiteAssumption
<1>2. ASSUME ClaimCase \/ Execute \/ Executed \/ LoseCase PROVE WorkerStep(Driver)
  BY <1>2 DEF ClaimCase, Execute, Executed, LoseCase, WorkerStep
<1>3. ASSUME RecordCase \/ AbortCase \/ WriteSuite PROVE UNCHANGED vars
  BY <1>3 DEF RecordCase, AbortCase, WriteSuite
<1>4. ASSUME NEW r \in Runs, SubmitCase(r) PROVE Submit(r) /\ UNCHANGED since
  BY <1>4 DEF SubmitCase
<1> QED
  BY <1>1, <1>2, <1>3, <1>4 DEF SuiteNext, DriverStep, SuitePass, Next

(* A case that was counted stays what it was counted as.                   *)
LEMMA CountedLasts ==
  ASSUME PipelineInv, [Next]_vars, NEW r \in Runs, Counted(r),
         tree'[Repo[r]] = tree[Repo[r]]
  PROVE  Counted(r)' /\ runs'[r] = runs[r]
<1>1. runs'[r] = runs[r]
  BY StoreSteps, EndedRunFrozen DEF PipelineInv, Counted, Frozen
<1> QED
  BY <1>1 DEF Counted, Passing

(* The settled cases and the worktrees, after a step of the suite that     *)
(* settles none and writes to the worktree of case c at most.              *)
LEMMA SettledLast ==
  ASSUME PipelineInv, SuiteInv, [Next]_vars, suite'.status = suite.status,
         NEW c, c \notin Done,
         \A s \in Runs \ {c} : tree'[Repo[s]] = tree[Repo[s]]
  PROVE  /\ Done' = Done /\ ToCome' = ToCome
         /\ \A r \in Done : suite'.status[r] = runs'[r].status /\ Counted(r)'
<1>1. Done' = Done /\ ToCome' = ToCome
  BY DEF Done, ToCome
<1>2. \A r \in Done : r \in Runs /\ r # c /\ Counted(r) /\ suite.status[r] = runs[r].status
  BY DEF SuiteInv, SuiteTypeOK
<1> QED
  BY <1>1, <1>2, CountedLasts

LEMMA SuiteInvInit == SuiteInit => SuiteInv
<1>1. SUFFICES ASSUME SuiteInit PROVE SuiteInv
  OBVIOUS
<1>2. /\ suite = [at |-> "next", case |-> None, result |-> None, status |-> <<>>,
                  succeeded |-> 0]
      /\ tree = [t \in Worktrees |-> {}]
  BY <1>1 DEF SuiteInit, Init
<1>3. suite.at = "next" /\ suite.status = <<>>
  BY <1>2
<1>4. Done = {} /\ ToCome = Runs
  BY <1>3 DEF Done, ToCome
<1>5. \A r \in Runs : tree[Repo[r]] = {}
  BY <1>2, WorkspaceAssumption
<1>6. SuiteTypeOK
  BY <1>2, <1>3, <1>4 DEF SuiteTypeOK
<1> QED
  BY <1>3, <1>4, <1>5, <1>6 DEF SuiteInv, NeverDiverges

(* A step of the suite that leaves the worktrees and the results alone and *)
(* comes to neither of the places that promise something.                  *)
LEMMA QuietSuite ==
  ASSUME PipelineInv, SuiteInv, [Next]_vars, tree' = tree,
         suite'.status = suite.status, SuiteTypeOK',
         suite'.at \in {"next", "claim", "aborted"},
         suite'.at # "aborted" => suite.at \in {"next", "claim"}
  PROVE  SuiteInv'
<1>1. -1 \notin Done
  BY StoreAssumption DEF SuiteInv, SuiteTypeOK
<1>2. /\ Done' = Done /\ ToCome' = ToCome
      /\ \A r \in Done : suite'.status[r] = runs'[r].status /\ Counted(r)'
  BY <1>1, SettledLast
<1> QED
  BY <1>2 DEF SuiteInv, NeverDiverges

(* An attempt's step.                                                      *)
LEMMA ExecuteKeeps ==
  ASSUME PipelineInv, SuiteInv, Execute, Over(Driver) PROVE SuiteInv'
<1>1. PICK r \in Runs : r = suite.case
  BY DEF Execute, AtSuite, SuiteInv, SuiteTypeOK, ToCome
<1>2. /\ Attempt(Driver) /\ suite' = suite /\ suite.at = "execute"
      /\ r \in ToCome /\ r \in Runs /\ RunOf(Driver) = r /\ Aware(r)
      /\ tree[Repo[r]] \subseteq {CasePatch[r]}
      /\ At(Driver, "propose") => worker'[Driver].patch \in {None, CasePatch[r]}
      /\ Driver \in Workers
  BY <1>1, SuiteAssumption DEF Execute, AtSuite, SuiteInv, SuiteTypeOK, ToCome
<1>3. [Next]_vars
  BY <1>2 DEF Next, WorkerStep
<1>4. Works(Driver) /\ Typed(Places)
  BY <1>2, BusyInAttempt, AttemptWorks, PlacesTyped DEF PipelineInv, Standing
<1>5. /\ tree'[Repo[r]] \subseteq {CasePatch[r]}
      /\ \A s \in Runs \ {r} : tree'[Repo[s]] = tree[Repo[s]]
  BY <1>2, <1>4, AttemptWrites
<1>6. Aware(r)' /\ RunOf(Driver)' = r
  BY <1>2, <1>4, <1>5, AttemptAware DEF Works, RunOf
<1>7. /\ Done' = Done /\ ToCome' = ToCome
      /\ \A s \in Done : suite'.status[s] = runs'[s].status /\ Counted(s)'
  BY <1>2, <1>3, <1>5, SettledLast DEF ToCome
<1>8. \A s \in Runs : tree'[Repo[s]] \subseteq {CasePatch[s]}
  BY <1>5 DEF SuiteInv
<1>9. suite'.case = r /\ suite'.at = "execute"
  BY <1>1, <1>2
<1>10. SuiteTypeOK' /\ NeverDiverges'
  BY <1>2, <1>7 DEF SuiteInv, SuiteTypeOK, NeverDiverges
<1>11. \A s \in ToCome' : tree'[Repo[s]] = {} \/ s = r
  BY <1>1, <1>2, <1>5, <1>7 DEF SuiteInv, ToCome
<1> QED
  BY <1>6, <1>7, <1>8, <1>9, <1>10, <1>11 DEF SuiteInv

(* What execute returned is what the store kept.                           *)
LEMMA ExecutedKeeps ==
  ASSUME PipelineInv, SuiteInv, Executed, Over(Driver) PROVE SuiteInv'
<1> DEFINE l == worker[Driver].lease
<1>1. PICK r \in Runs : r = suite.case
  BY DEF Executed, AtSuite, SuiteInv, SuiteTypeOK, ToCome
<1>2. /\ suite.at = "execute" /\ tree' = tree
      /\ r \in ToCome /\ r \in Runs /\ r \notin Done
      /\ RunOf(Driver) = r /\ Aware(r) /\ Driver \in Workers
  BY <1>1, SuiteAssumption DEF Executed, Complete, FailRun, AtSuite, SuiteInv, SuiteTypeOK, ToCome
<1>3. [Next]_vars
  BY <1>2 DEF Executed, Next, WorkerStep
<1>4. ~At(Driver, "idle")
  BY DEF Executed, Complete, FailRun, At
<1>5. /\ l \in leases /\ l.run = r /\ Knows(Driver, KEY)
      /\ worker[Driver].error \in Errors \cup {None} /\ Typed(Places) /\ Inv
  BY <1>2, <1>4, PlacesTyped DEF PipelineInv, Standing, Leased, WorkersTyped, Worker
<1>6. /\ "complete" \in Stages /\ "failed" \in Stages
      /\ "SUCCEEDED" \in Terminal /\ "FAILED" \in Terminal
  BY WorkspaceAssumption DEF Terminal
<1>7. CASE worker'[Driver].at = "raised"
  <2>1. Raise(Driver, "error") /\ UNCHANGED suite
    <3>1. GoIdle(Driver) => worker'[Driver].at = "idle"
      BY <1>2, <1>5 DEF GoIdle, Idle, Typed
    <3> QED
      BY <1>7, <3>1 DEF Executed, Returns, Complete, FailRun
  <2>2. worker'[Driver].run = r
    BY <1>2, <1>5, <2>1, RaiseMoves, EvidenceAssumption DEF Moves, RunOf
  <2>3. Aware(r)'
    BY <1>2, <1>5, <2>1, RaiseAware, EvidenceAssumption
  <2>4. /\ Done' = Done /\ ToCome' = ToCome
        /\ \A s \in Done : suite'.status[s] = runs'[s].status /\ Counted(s)'
    BY <1>2, <1>3, <2>1, SettledLast
  <2>5. SuiteTypeOK' /\ NeverDiverges'
    BY <2>1, <2>4 DEF SuiteInv, SuiteTypeOK, NeverDiverges
  <2> QED
    BY <1>1, <1>2, <2>1, <2>2, <2>3, <2>4, <2>5 DEF SuiteInv, RunOf
<1>8. CASE worker'[Driver].at # "raised"
  <2>1. /\ suite' = [suite EXCEPT !.at = "record", !.result = runs'[r].status]
        /\ Counted(r)'
    <3>1. CASE Complete(Driver) /\ suite' = [suite EXCEPT !.at = "record",
                                                          !.result = "SUCCEEDED"]
      <4>1. EvidenceOf(Driver) \in Evidence
        BY <1>2, <1>5, <3>1, KeyTyped, FindingsTyped DEF Complete, At, Measured
      <4>2. PICK now \in ClockReads :
              Transition(l, "SUCCEEDED", "complete", EvidenceOf(Driver), None, now)
        BY <3>1 DEF Complete, ReadsOf
      <4> HIDE DEF l
      <4>3. runs'[r].status = "SUCCEEDED"
        BY <1>5, <1>6, <4>1, <4>2, TransitionCalled
      <4> QED
        BY <1>6, <3>1, <4>3 DEF Counted
    <3>2. CASE FailRun(Driver) /\ suite' = [suite EXCEPT !.at = "record",
                                                         !.result = "FAILED"]
      <4> DEFINE error == worker[Driver].error
      <4>1. PICK now \in ClockReads : Transition(l, "FAILED", "failed", None, error, now)
        BY <3>2 DEF FailRun, ReadsOf
      <4>2. Passing(r) => error = "error"
        BY <1>2, <3>2 DEF FailRun, At, Aware
      <4> HIDE DEF l, error
      <4>3. runs'[r].status = "FAILED" /\ runs'[r].last_error = error
        BY <1>5, <1>6, <4>1, TransitionCalled DEF error
      <4>4. Passing(r)' <=> Passing(r)
        BY <1>2 DEF Passing
      <4> QED
        BY <1>6, <3>2, <4>2, <4>3, <4>4 DEF Counted
    <3> QED
      BY <1>8, <3>1, <3>2 DEF Executed, Returns
  <2>2. /\ suite'.at = "record" /\ suite'.case = r /\ suite'.status = suite.status
        /\ suite'.result = runs'[r].status
        /\ suite' = [at |-> suite'.at, case |-> suite'.case, result |-> suite'.result,
                     status |-> suite'.status, succeeded |-> suite'.succeeded]
    BY <1>1, <2>1 DEF SuiteInv, SuiteTypeOK
  <2>3. /\ Done' = Done /\ ToCome' = ToCome
        /\ \A s \in Done : suite'.status[s] = runs'[s].status /\ Counted(s)'
    BY <1>2, <1>3, <2>2, SettledLast
  <2>4. SuiteTypeOK' /\ NeverDiverges'
    BY <1>2, <2>2, <2>3 DEF SuiteInv, SuiteTypeOK, NeverDiverges
  <2>5. \A s \in ToCome' : tree'[Repo[s]] = {} \/ s = r
    BY <1>1, <1>2, <2>3 DEF SuiteInv
  <2> QED
    BY <1>2, <2>1, <2>2, <2>3, <2>4, <2>5 DEF SuiteInv
<1> QED
  BY <1>7, <1>8

(* A claim: the driver begins with a worktree nobody has touched.          *)
LEMMA ClaimCaseKeeps ==
  ASSUME PipelineInv, SuiteInv, ClaimCase, Over(Driver) PROVE SuiteInv'
<1>1. PICK r \in Runs : r = suite.case
  BY DEF ClaimCase, AtSuite, SuiteInv, SuiteTypeOK, ToCome
<1>2. /\ Claim(Driver) /\ suite.at = "claim" /\ r \in ToCome /\ r \notin Done
      /\ worker'[Driver].run = r /\ tree' = tree /\ Driver \in Workers
      /\ tree[Repo[r]] = {}
  BY <1>1, SuiteAssumption DEF ClaimCase, Claim, AtSuite, RunOf, SuiteInv, SuiteTypeOK, ToCome
<1>3. [Next]_vars
  BY <1>2 DEF Next, WorkerStep
<1>4. /\ suite'.at = "execute" /\ suite'.case = r /\ suite'.status = suite.status
      /\ suite' = [at |-> suite'.at, case |-> suite'.case, result |-> suite'.result,
                   status |-> suite'.status, succeeded |-> suite'.succeeded]
  BY <1>1 DEF ClaimCase, Proceed, SuiteInv, SuiteTypeOK
<1>5. worker'[Driver].at = "head" /\ worker'[Driver].patch = None
      /\ worker'[Driver].acceptance = None
  <2>1. PICK s \in Runs :
          worker' = [worker EXCEPT ![Driver] =
            [Idle EXCEPT !.at = "head", !.run = s,
                         !.lease = [run |-> s, owner |-> NameOf[Driver],
                                    fence |-> NextToken(runs[s])]]]
    BY <1>2 DEF Claim
  <2> DEFINE new == [Idle EXCEPT !.at = "head", !.run = s,
                                 !.lease = [run |-> s, owner |-> NameOf[Driver],
                                            fence |-> NextToken(runs[s])]]
  <2>2. new.at = "head" /\ new.patch = None /\ new.acceptance = None
    BY DEF Idle
  <2>3. worker' = [worker EXCEPT ![Driver] = new]
    BY <2>1
  <2> HIDE DEF new
  <2>4. worker'[Driver] = new
    BY <1>2, <2>3 DEF PipelineInv, WorkersTyped
  <2> QED
    BY <2>2, <2>4
<1>6. Aware(r)'
  BY <1>2, <1>5 DEF Aware, Fresh, Tests, Answers
<1>7. /\ Done' = Done /\ ToCome' = ToCome
      /\ \A s \in Done : suite'.status[s] = runs'[s].status /\ Counted(s)'
  BY <1>2, <1>3, <1>4, SettledLast
<1>8. SuiteTypeOK' /\ NeverDiverges'
  BY <1>2, <1>4, <1>7 DEF SuiteInv, SuiteTypeOK, NeverDiverges
<1>9. \A s \in ToCome' : tree'[Repo[s]] = {}
  BY <1>2, <1>7 DEF SuiteInv
<1> QED
  BY <1>2, <1>4, <1>6, <1>7, <1>8, <1>9 DEF SuiteInv, RunOf

(* The case is counted as the store has it; the comparison finds the two   *)
(* equal.                                                                  *)
LEMMA RecordCaseKeeps ==
  ASSUME PipelineInv, SuiteInv, RecordCase PROVE SuiteInv'
<1>1. PICK r \in Runs : r = suite.case
  BY DEF RecordCase, AtSuite, SuiteInv, SuiteTypeOK, ToCome
<1> DEFINE stored == runs[r].status
           results == [s \in Done \cup {r} |->
                         IF s = r THEN stored ELSE suite.status[s]]
<1>2. /\ suite.at = "record" /\ r \in ToCome /\ r \notin Done /\ UNCHANGED vars
      /\ stored = suite.result /\ Counted(r)
      /\ suite' = [suite EXCEPT !.at = IF stored = suite.result THEN "next" ELSE "diverged",
                                !.status = results]
  BY <1>1 DEF RecordCase, AtSuite, SuiteInv, SuiteTypeOK, ToCome, Done
<1>3. /\ DOMAIN results = Done \cup {r}
      /\ \A s \in Done \cup {r} : results[s] = IF s = r THEN stored ELSE suite.status[s]
  OBVIOUS
<1>4. UNCHANGED <<runs, tree, worker>>
  BY <1>2 DEF vars, storeVars
<1> HIDE DEF results
<1>5. /\ suite'.at = "next" /\ suite'.status = results
      /\ suite' = [at |-> suite'.at, case |-> suite'.case, result |-> suite'.result,
                   status |-> suite'.status, succeeded |-> suite'.succeeded]
  BY <1>2 DEF SuiteInv, SuiteTypeOK
<1>6. Done' = Done \cup {r} /\ ToCome' = ToCome \ {r}
  BY <1>3, <1>5 DEF Done, ToCome
<1>7. \A s \in Runs : Counted(s)' <=> Counted(s)
  BY <1>4 DEF Counted, Passing
<1>8. \A s \in Done' : suite'.status[s] = runs'[s].status /\ Counted(s)'
  BY <1>2, <1>3, <1>4, <1>5, <1>6, <1>7 DEF SuiteInv, SuiteTypeOK
<1>9. SuiteTypeOK' /\ NeverDiverges'
  BY <1>5, <1>6 DEF SuiteInv, SuiteTypeOK, NeverDiverges
<1>10. \A s \in ToCome' : tree'[Repo[s]] = {}
  BY <1>1, <1>2, <1>4, <1>6 DEF SuiteInv
<1> QED
  BY <1>4, <1>5, <1>8, <1>9, <1>10 DEF SuiteInv

(* The result of the suite counts the cases.                               *)
LEMMA WriteSuiteKeeps ==
  ASSUME SuiteInv, WriteSuite PROVE SuiteInv'
<1> DEFINE count == Cardinality({r \in Runs : suite.status[r] = "SUCCEEDED"})
<1>1. /\ suite' = [suite EXCEPT !.at = "written", !.succeeded = count]
      /\ UNCHANGED vars /\ Done = Runs
  BY DEF WriteSuite, Done
<1>2. UNCHANGED <<runs, tree>>
  BY <1>1 DEF vars, storeVars
<1> HIDE DEF count
<1>3. /\ suite'.at = "written" /\ suite'.status = suite.status
      /\ suite'.succeeded = count
      /\ suite' = [at |-> suite'.at, case |-> suite'.case, result |-> suite'.result,
                   status |-> suite'.status, succeeded |-> suite'.succeeded]
  BY <1>1 DEF SuiteInv, SuiteTypeOK
<1>4. Done' = Done /\ ToCome' = ToCome
  BY <1>3 DEF Done, ToCome
<1>5. \A r \in Runs : Counted(r)' <=> Counted(r)
  BY <1>2 DEF Counted, Passing
<1>6. SuiteTypeOK' /\ NeverDiverges'
  BY <1>3, <1>4 DEF SuiteInv, SuiteTypeOK, NeverDiverges
<1> QED
  BY <1>1, <1>2, <1>3, <1>4, <1>5, <1>6 DEF SuiteInv, SuiteTypeOK, count

(* The clock, or nothing.                                                  *)
LEMMA PauseKeeps ==
  ASSUME SuiteInv, UNCHANGED <<suite, runs, worker, tree>> PROVE SuiteInv'
<1>1. Done' = Done /\ ToCome' = ToCome
  BY DEF Done, ToCome
<1>2. \A r \in Runs : (Counted(r)' <=> Counted(r)) /\ (Aware(r)' <=> Aware(r))
  BY DEF Counted, Passing, Aware
<1>3. SuiteTypeOK' /\ NeverDiverges' /\ RunOf(Driver)' = RunOf(Driver)
  BY <1>1 DEF SuiteInv, SuiteTypeOK, NeverDiverges, RunOf
<1>4. suite.at \in {"execute", "record"} => suite.case \in Runs
  BY DEF SuiteInv, SuiteTypeOK, ToCome
<1>5. /\ suite.at = "execute" => Aware(suite.case)'
      /\ suite.at = "record" => Counted(suite.case)'
  BY <1>2, <1>4 DEF SuiteInv, Aware, Counted, Passing
<1> QED
  BY <1>1, <1>2, <1>3, <1>5 DEF SuiteInv, SuiteTypeOK

(* Between two cases: the next one is submitted, or the suite ends without *)
(* a result.                                                               *)
LEMMA QuietCaseKeeps ==
  ASSUME PipelineInv, SuiteInv,
         (\E r \in Runs : SubmitCase(r)) \/ (LoseCase /\ Over(Driver)) \/ AbortCase
  PROVE  SuiteInv'
<1>1. [Next]_vars
  BY SuiteSteps DEF SuiteNext, DriverStep
<1>2. ASSUME NEW r \in Runs, SubmitCase(r) PROVE SuiteInv'
  <2>1. /\ tree' = tree /\ suite.at = "next" /\ r \in ToCome
        /\ suite' = [suite EXCEPT !.at = "claim", !.case = r]
    BY <1>2 DEF SubmitCase, Submit, AtSuite, ToCome, Done
  <2>2. /\ suite'.at = "claim" /\ suite'.case = r /\ suite'.status = suite.status
        /\ suite' = [at |-> suite'.at, case |-> suite'.case, result |-> suite'.result,
                     status |-> suite'.status, succeeded |-> suite'.succeeded]
    BY <2>1 DEF SuiteInv, SuiteTypeOK
  <2>3. SuiteTypeOK'
    BY <2>1, <2>2 DEF SuiteInv, SuiteTypeOK, ToCome, Done
  <2> QED
    BY <1>1, <2>1, <2>2, <2>3, QuietSuite
<1>3. ASSUME LoseCase \/ AbortCase PROVE SuiteInv'
  <2>1. tree' = tree /\ Proceed("aborted")
    BY <1>3 DEF LoseCase, LoseLease, AbortCase, vars
  <2>2. /\ suite'.at = "aborted" /\ suite'.status = suite.status
        /\ suite' = [at |-> suite'.at, case |-> suite'.case, result |-> suite'.result,
                     status |-> suite'.status, succeeded |-> suite'.succeeded]
    BY <2>1 DEF Proceed, SuiteInv, SuiteTypeOK
  <2>3. SuiteTypeOK'
    BY <2>2 DEF SuiteInv, SuiteTypeOK, Done
  <2> QED
    BY <1>1, <2>1, <2>2, <2>3, QuietSuite
<1> QED
  BY <1>2, <1>3

LEMMA SuiteInvNext ==
  PipelineInv /\ SuiteInv /\ [SuiteNext]_suiteVars => SuiteInv'
<1>1. SUFFICES ASSUME PipelineInv, SuiteInv, [SuiteNext]_suiteVars PROVE SuiteInv'
  OBVIOUS
<1>2. CASE SuitePass \/ UNCHANGED suiteVars
  BY <1>1, <1>2, PauseKeeps DEF SuitePass, Pass, Tick, suiteVars, vars, storeVars
<1> QED
  BY <1>1, <1>2, QuietCaseKeeps, ClaimCaseKeeps, ExecuteKeeps, ExecutedKeeps,
     RecordCaseKeeps, WriteSuiteKeeps
     DEF SuiteNext, DriverStep

-----------------------------------------------------------------------------
(* The theorems.                                                           *)

(* What holds of the pipeline holds of the benchmark: its driver is one    *)
(* more worker, and the cases are runs.                                    *)
THEOREM SuiteIsPipeline == SuiteSpec => Spec
<1>1. SuiteInit => Init
  BY DEF SuiteInit
<1>2. [SuiteNext]_suiteVars => [Next]_vars
  BY SuiteSteps DEF suiteVars
<1> QED
  BY <1>1, <1>2, PTL DEF SuiteSpec, Spec

(* At every moment the settled cases are counted as the store has them,    *)
(* worktrees hold at most the patch of their case, and the driver knows    *)
(* the worktree it works in.                                               *)
THEOREM SuiteInvariant == SuiteSpec => []SuiteInv
<1>1. SuiteSpec => []PipelineInv
  BY SuiteIsPipeline, PipelineInvariant
<1> QED
  BY <1>1, SuiteInvInit, SuiteInvNext, PTL DEF SuiteSpec

(* What the pipeline returned and what the store kept are never found to   *)
(* differ, whatever the patches and however long a case takes.             *)
THEOREM SuiteNeverDiverges == SuiteSpec => []NeverDiverges
<1>1. SuiteInv => NeverDiverges
  BY DEF SuiteInv
<1> QED
  BY <1>1, SuiteInvariant, PTL

(* A suite that has a result counts as succeeded only cases whose worktree,*)
(* from the case's own patch, passes everything, and each other such case  *)
(* failed because something went wrong.                                    *)
THEOREM SuiteResultVerified == SuiteSpec => []SuiteCountsVerified
<1>1. PipelineInv /\ SuiteInv => SuiteCountsVerified
  <2>1. SUFFICES ASSUME PipelineInv, SuiteInv, suite.at = "written"
                 PROVE  SuiteCountsVerified
    BY DEF SuiteCountsVerified, AtSuite
  <2> DEFINE succeeded == {r \in Runs : suite.status[r] = "SUCCEEDED"}
             passing == {r \in Runs : Passing(r)}
  <2>2. \A r \in Runs : suite.status[r] = runs[r].status /\ Counted(r)
    BY <2>1 DEF SuiteInv
  <2>3. suite.succeeded = Cardinality(succeeded)
    BY <2>1 DEF SuiteInv
  <2>4. ASSUME NEW r \in Runs, runs[r].status = "SUCCEEDED" PROVE Passing(r)
    <3>1. /\ tree[Repo[r]] \cap Fixes[r] # {}
          /\ r \in Guarded => tree[Repo[r]] \cap Accepts[r] # {}
      BY <2>1, <2>4 DEF PipelineInv, SuccessIsVerified
    <3>2. tree[Repo[r]] \subseteq {CasePatch[r]}
      BY <2>1 DEF SuiteInv
    <3> QED
      BY <3>1, <3>2 DEF Passing
  <2>5. succeeded \subseteq passing
    BY <2>2, <2>4
  <2>6. \A r \in passing \ succeeded : runs[r].last_error = "error"
    BY <2>2 DEF Counted
  <2> QED
    BY <2>2, <2>3, <2>5, <2>6 DEF SuiteCountsVerified, Passing
<1>2. SuiteSpec => []PipelineInv
  BY SuiteIsPipeline, PipelineInvariant
<1> QED
  BY <1>1, <1>2, SuiteInvariant, PTL
===============================================================================
