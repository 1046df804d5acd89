----------------------------- MODULE PipelineProofs -----------------------------
(* The safety properties of the pipeline, for every set of runs, workers,  *)
(* worktrees and patches.                                                  *)
EXTENDS RepairPipeline, WorkspaceProofs, FiniteSetTheorems

Places == StoreCalls \cup Commands

(* While its token is the run's, a worker that judges judges what the last *)
(* checkpoint recorded.                                                    *)
JudgesLastCheckpoint(w) ==
  /\ worker[w].at \in {"judge", "complete"}
  /\ runs[RunOf(w)].fence_token = worker[w].lease.fence
  => Recorded(w)

(* What holds of each worker: it works under a lease of its run, and what  *)
(* it knows holds.                                                         *)
Standing(w) ==
  /\ ~At(w, "idle") => Leased(w)
  /\ Knows(w, KEY)
  /\ JudgesLastCheckpoint(w)

(* The inductive invariant.                                                *)
PipelineInv ==
  /\ Inv
  /\ WorkersTyped
  /\ \A w \in Workers : Standing(w)
  /\ OneWorkerPerToken
  /\ ConfirmedIsApplied
  /\ AppliedIsBegun
  /\ SuccessIsVerified

(* A step of w within its attempt: a step of the store and a move of w; it *)
(* writes a checkpoint only while it holds the run's token, and comes to   *)
(* judge and to complete only with what it recorded.                       *)
Works(w) ==
  /\ [StoreNext]_storeVars
  /\ worker' \in [Workers -> Worker(Places)]
  /\ \A v \in Workers \ {w} : worker'[v] = worker[v]
  /\ worker'[w].run = worker[w].run /\ worker'[w].lease = worker[w].lease
  /\ tree' \in [Worktrees -> SUBSET Requests] /\ TreesGrow
  /\ Uneventful /\ Honest(w, KEY)
  /\ Knows(w, KEY)'
  /\ \/ /\ checkpoints' = checkpoints
        /\ worker'[w].at \in {"judge", "complete"} =>
             At(w, "judge") /\ EvidenceOf(w)' = EvidenceOf(w)
     \/ /\ runs[RunOf(w)].fence_token = worker[w].lease.fence
        /\ \A r \in Runs \ {RunOf(w)} : checkpoints'[r] = checkpoints[r]
        /\ Recorded(w)'

-----------------------------------------------------------------------------
(* The steps of an attempt.                                                *)

LEMMA PlacesTyped ==
  WorkersTyped <=> Typed(Places)
BY DEF WorkersTyped, Typed, Places

(* The operation key is one of the ledger's.                               *)
LEMMA KeyTyped == KEY \in Keys /\ Keys = {KEY}
BY PipelineAssumption DEF KEY

(* A step that keeps lease and checkpoints and does not come to judge.     *)
LEMMA AdvancesWorks ==
  ASSUME NEW w \in Workers, Advances(w, KEY, Places, "verify"),
         checkpoints' = checkpoints, worker'[w].at \notin {"judge", "complete"}
  PROVE  Works(w)
BY DEF Advances, Moves, Works

(* A place that relies on nothing, reached without touching store or       *)
(* worktree.                                                               *)
LEMMA LooksWorks ==
  ASSUME Inv, NEW w \in Workers, WorkersTyped, Leased(w), UNCHANGED <<storeVars, tree>>,
         NEW place, Moves(w, Places, place),
         place \notin {"apply", "begin"} \cup Executing \cup Verifying
  PROVE  Works(w)
<1>1. worker'[w].at = place
  BY DEF Moves
<1>2. Knows(w, KEY)' /\ place # "verify" /\ place \notin {"judge", "complete"}
  BY <1>1, NothingKnown, KeyTyped DEF Verifying, VerifySteps
<1> QED
  BY <1>1, <1>2, PlacesTyped, KeyTyped, LookAdvances, AdvancesWorks

(* propose: the candidate is bound to the attempt.                         *)
LEMMA ProposeWorks ==
  ASSUME Inv, WorkersTyped, NEW w \in Workers, Leased(w), Propose(w)
  PROVE  Works(w)
<1>1. PICK patch \in Requests :
        worker' = [worker EXCEPT ![w].at = "apply", ![w].patch = patch]
  BY DEF Propose
<1> DEFINE new == [worker[w] EXCEPT !.at = "apply", !.patch = patch]
<1>2. worker[w] \in Worker(Places)
  BY PlacesTyped DEF Typed
<1>3. /\ new \in Worker(Places) /\ new.at = "apply" /\ new.run = worker[w].run
      /\ new.lease = worker[w].lease /\ new.patch = patch
  BY <1>2 DEF Worker, Places, StoreCalls
<1>4. worker' = [worker EXCEPT ![w] = new]
  BY <1>1
<1> HIDE DEF new
<1>5. /\ worker' \in [Workers -> Worker(Places)] /\ worker'[w] = new
      /\ \A v \in Workers \ {w} : worker'[v] = worker[v]
  BY <1>3, <1>4, PlacesTyped, OneMoves
<1>6. Knows(w, KEY)'
  BY <1>3, <1>5 DEF Knows, Executing, Verifying, VerifySteps, Tested, Judged, Measured
<1>7. UNCHANGED storeVars /\ tree' = tree
  BY DEF Propose
<1>8. /\ [StoreNext]_storeVars /\ Uneventful
      /\ checkpoints' = checkpoints /\ effects' = effects
  BY <1>7, StoreLeftAlone
<1>9. Honest(w, KEY) /\ TreesGrow /\ tree' \in [Worktrees -> SUBSET Requests]
  BY <1>7, <1>8, PlacesTyped, KeyTyped, HonestRead
<1> QED
  BY <1>3, <1>5, <1>6, <1>8, <1>9 DEF Works

(* Judging leads to completion only a patch that passed.                   *)
LEMMA JudgeWorks ==
  ASSUME Inv, WorkersTyped, NEW w \in Workers, Leased(w), Knows(w, KEY),
         Judge(w), Goto(w, "complete"), worker[w].tests, worker[w].acceptance # FALSE
  PROVE  Works(w)
<1>1. /\ UNCHANGED <<storeVars, tree>> /\ At(w, "judge") /\ tree' = tree
      /\ RunOf(w) \in Runs
  BY DEF Judge, Leased
<1>2. Moves(w, Places, "complete") /\ Remembers(w)
  BY PlacesTyped, GotoMoves DEF Places, StoreCalls
<1>3. /\ worker'[w].at = "complete" /\ worker'[w].run = worker[w].run
      /\ worker'[w].lease = worker[w].lease /\ worker'[w].patch = worker[w].patch
      /\ worker'[w].tests = worker[w].tests
      /\ worker'[w].acceptance = worker[w].acceptance
      /\ worker'[w].source = worker[w].source
  BY <1>2 DEF Moves, Remembers
<1>4. /\ [StoreNext]_storeVars /\ Uneventful /\ StoreGrows
      /\ checkpoints' = checkpoints /\ effects' = effects
  BY <1>1, StoreLeftAlone, StoreOnlyGrows
<1>5. Honest(w, KEY) /\ TreesGrow /\ tree' \in [Worktrees -> SUBSET Requests]
  BY <1>1, <1>4, PlacesTyped, KeyTyped, HonestRead
<1>6. Knows(w, KEY)'
  <2>1. /\ Confirmed(w, KEY)' /\ (Passes(w) => Passes(w)')
        /\ PassesAcceptance(w) => PassesAcceptance(w)'
    BY <1>1, <1>3, <1>4, <1>5, KeyTyped, FactsLast DEF Knows, At, Verifying, VerifySteps
  <2>2. /\ worker[w].tests \in BOOLEAN /\ (worker[w].tests => Passes(w))
        /\ RunOf(w) \in Guarded =>
             /\ worker[w].acceptance \in BOOLEAN
             /\ worker[w].acceptance => PassesAcceptance(w)
        /\ worker[w].patch \in worker[w].source
    BY <1>1 DEF Knows, At, Tested, Judged, Measured
  <2>3. worker[w].tests = TRUE
    BY <2>2
  <2>4. RunOf(w)' = RunOf(w)
    BY <1>3 DEF RunOf
  <2> QED
    BY <1>3, <2>1, <2>2, <2>3, <2>4
       DEF Knows, Executing, Verifying, VerifySteps, Tested, Judged, Measured
<1>7. EvidenceOf(w)' = EvidenceOf(w)
  BY <1>3 DEF EvidenceOf
<1> QED
  BY <1>1, <1>2, <1>3, <1>4, <1>5, <1>6, <1>7 DEF Works, Moves

(* A worker within an attempt is not idle.                                 *)
LEMMA BusyInAttempt ==
  ASSUME NEW w, Attempt(w) PROVE ~At(w, "idle")
BY DEF Attempt, At, CheckHead, EnterStage, Reproduce, Propose, ApplyPatch,
   BeginApply, GitApply, GitApplyKilled, ConfirmApply, DisconfirmApply,
   ReverseCheck, ReconcileApply, Verification, Acceptance, TakeFingerprint,
   Record, Judge, Raises, StoreCalls, Commands

(* Every step of an attempt.                                               *)
LEMMA AttemptWorks ==
  ASSUME Inv, WorkersTyped, ConfirmedIsApplied, NEW w \in Workers,
         Leased(w), Knows(w, KEY), Attempt(w)
  PROVE  Works(w)
<1>1. Typed(Places) /\ KEY \in Keys /\ "verify" \in Places
  BY PlacesTyped, KeyTyped DEF Places, StoreCalls
<1>2. \A place \in {"head", "reproduce", "run test", "repair", "propose", "complete"} :
        place \in Places
  BY DEF Places, StoreCalls, Commands
<1>3. \A place \in {"reproduce", "run test", "repair", "propose", "raised"} :
        place \notin {"apply", "begin"} \cup Executing \cup Verifying
  BY DEF Executing, Verifying, VerifySteps
<1>4. \A error \in Errors :
        Raise(w, error) /\ UNCHANGED <<storeVars, tree>> => Works(w)
  BY <1>1, <1>3, RaiseMoves, LooksWorks
<1>5. \A place \in {"reproduce", "repair"} :
        Goto(w, place) /\ UNCHANGED <<storeVars, tree>> => Works(w)
  BY <1>1, <1>2, <1>3, GotoMoves, LooksWorks
<1>6. CASE CheckHead(w) \/ Reproduce(w) \/ Raises(w)
  BY <1>4, <1>5, <1>6, PipelineAssumption, EvidenceAssumption
     DEF CheckHead, Reproduce, Raises
<1>7. ASSUME NEW here, NEW stage \in Stages, NEW place \in Places \cup ApplySteps \cup VerifySteps,
             \/ here = "apply" /\ place = "begin"
             \/ here = "verify" /\ place = "verification"
             \/ place \in {"run test", "propose"},
             EnterStage(w, here, stage, place)
      PROVE  Works(w)
  <2>1. Advances(w, KEY, Places, "verify") /\ checkpoints' = checkpoints
    BY <1>1, <1>7, EnterStageAdvances
  <2>2. Moves(w, Places, place)
    BY <1>1, <1>7, GotoMoves DEF EnterStage
  <2>3. worker'[w].at \notin {"judge", "complete"}
    BY <1>7, <2>2 DEF Moves
  <2> QED
    BY <2>1, <2>3, AdvancesWorks
<1>8. CASE \/ EnterStage(w, "reproduce", "reproduce", "run test")
           \/ EnterStage(w, "repair", "repair", "propose")
           \/ EnterStage(w, "apply", "apply", "begin")
           \/ EnterStage(w, "verify", "verify", "verification")
  BY <1>2, <1>7, <1>8, WorkspaceAssumption DEF ApplySteps, VerifySteps
<1>9. CASE ApplyPatch(w, KEY, "verify")
  <2>1. Advances(w, KEY, Places, "verify") /\ checkpoints' = checkpoints
    BY <1>1, <1>9, ApplyPatchAdvances
  <2>2. worker'[w].at \in ApplySteps \cup {"verify", "raised"}
    BY <1>1, <1>9, ApplyPatchPlaces
  <2> QED
    BY <2>1, <2>2, AdvancesWorks DEF ApplySteps
<1>10. CASE Verification(w) \/ Acceptance(w) \/ TakeFingerprint(w)
  BY <1>1, <1>10, MeasureAdvances, MeasurePlaces, AdvancesWorks
<1>11. CASE Record(w)
  BY <1>1, <1>11, RecordAdvances DEF Works, Advances, Moves
<1>12. CASE Judge(w)
  <2>1. \/ Raise(w, "failed verification") \/ Raise(w, "failed acceptance")
        \/ Goto(w, "complete") /\ worker[w].tests /\ worker[w].acceptance # FALSE
    BY <1>12 DEF Judge
  <2>2. UNCHANGED <<storeVars, tree>>
    BY <1>12 DEF Judge
  <2> QED
    BY <1>4, <1>12, <2>1, <2>2, JudgeWorks, EvidenceAssumption
<1> QED
  BY <1>6, <1>8, <1>9, <1>10, <1>11, <1>12, ProposeWorks DEF Attempt

-----------------------------------------------------------------------------
(* The invariant.                                                          *)

(* A worker that does not move stands where it stood, if nobody else       *)
(* records a checkpoint under its token and no token comes back.           *)
LEMMA StandingLasts ==
  ASSUME Inv, [StoreNext]_storeVars, TreesGrow, NEW v \in Workers, Standing(v),
         worker'[v] = worker[v],
         \A r \in Runs :
           /\ ~At(v, "idle") /\ Leased(v) /\ r = RunOf(v)
           /\ runs'[r].fence_token = worker[v].lease.fence
           => /\ runs[r].fence_token = worker[v].lease.fence
              /\ checkpoints'[r] = checkpoints[r]
  PROVE  Standing(v)'
<1>1. StoreGrows /\ KEY \in Keys
  BY StoreOnlyGrows, KeyTyped
<1>2. Knows(v, KEY)'
  BY <1>1, KnowledgeLasts DEF Standing, Leased
<1>3. At(v, "idle")' <=> At(v, "idle")
  BY DEF At
<1>4. RunOf(v)' = RunOf(v) /\ EvidenceOf(v)' = EvidenceOf(v)
  BY DEF RunOf, EvidenceOf
<1>5. Leased(v) => Leased(v)'
  BY <1>1, <1>4 DEF Leased, StoreGrows
<1>6. JudgesLastCheckpoint(v)'
  <2>1. SUFFICES ASSUME worker[v].at \in {"judge", "complete"},
                        runs'[RunOf(v)].fence_token = worker[v].lease.fence
                 PROVE  Recorded(v)'
    BY <1>4 DEF JudgesLastCheckpoint
  <2>2. ~At(v, "idle") /\ Leased(v) /\ RunOf(v) \in Runs
    BY <2>1 DEF Standing, At, Leased
  <2>3. runs[RunOf(v)].fence_token = worker[v].lease.fence
        /\ checkpoints'[RunOf(v)] = checkpoints[RunOf(v)]
    BY <2>1, <2>2
  <2>4. Recorded(v)
    BY <2>1, <2>3 DEF Standing, JudgesLastCheckpoint
  <2> QED
    BY <1>4, <2>3, <2>4 DEF Recorded
<1> QED
  BY <1>2, <1>3, <1>5, <1>6 DEF Standing

LEMMA PipelineInvInit == Init => PipelineInv
<1>1. SUFFICES ASSUME Init PROVE PipelineInv
  OBVIOUS
<1>2. Inv /\ WorkersTyped
  BY <1>1, InvInit DEF Init, WorkersTyped, Idle, Worker
<1>3. \A w \in Workers : worker[w].at = "idle" /\ At(w, "idle")
  BY <1>1 DEF Init, Idle, At
<1>4. \A w \in Workers : Knows(w, KEY)
  BY <1>3 DEF Knows, Executing, Verifying, VerifySteps, Tested, Judged, Measured
<1>5. \A w \in Workers : Standing(w)
  BY <1>3, <1>4 DEF Standing, JudgesLastCheckpoint
<1>6. /\ \A r \in Runs : runs[r].status # "SUCCEEDED"
      /\ \A r \in Runs, k \in Keys : effects[r][k].status # "SUCCEEDED"
  BY <1>1 DEF Init, StoreInit, AbsentRun, AbsentEffect
<1>7. AppliedIsBegun
  BY <1>1 DEF Init, AppliedIsBegun
<1> QED
  BY <1>2, <1>3, <1>5, <1>6, <1>7
     DEF PipelineInv, OneWorkerPerToken, ConfirmedIsApplied, SuccessIsVerified

(* A step of an attempt.                                                   *)
LEMMA WorksKeeps ==
  ASSUME PipelineInv, NEW w \in Workers, ~At(w, "idle"), Works(w)
  PROVE  PipelineInv'
<1>1. /\ Inv' /\ StoreGrows /\ Leased(w) /\ RunOf(w) \in Runs /\ KEY \in Keys
      /\ worker[w].lease \in leases /\ worker[w].lease.run = RunOf(w)
  BY InvNext, StoreOnlyGrows, KeyTyped DEF PipelineInv, Works, Standing, Leased
<1>2. WorkersTyped'
  BY DEF Works, WorkersTyped, Places
<1>3. ConfirmedIsApplied' /\ AppliedIsBegun' /\ SuccessIsVerified'
  BY <1>1, AgreementLasts, NoNewSuccess DEF PipelineInv, Works, Uneventful
<1>4. leases' = leases /\ \A r \in Runs : runs'[r].fence_token = runs[r].fence_token
  BY DEF Works, Uneventful
<1>5. Standing(w)'
  <2>1. RunOf(w)' = RunOf(w)
    BY DEF Works, RunOf
  <2>2. Leased(w)' /\ Knows(w, KEY)'
    BY <1>1, <1>4, <2>1 DEF Leased, Works
  <2>3. JudgesLastCheckpoint(w)'
    <3>1. SUFFICES ASSUME worker'[w].at \in {"judge", "complete"},
                          runs[RunOf(w)].fence_token = worker[w].lease.fence
                   PROVE  Recorded(w)'
      BY <1>1, <1>4, <2>1 DEF JudgesLastCheckpoint, Works
    <3>2. CASE /\ checkpoints' = checkpoints /\ At(w, "judge")
               /\ EvidenceOf(w)' = EvidenceOf(w)
      <4>1. Recorded(w)
        BY <3>1, <3>2 DEF PipelineInv, Standing, JudgesLastCheckpoint, At
      <4> QED
        BY <2>1, <3>2, <4>1 DEF Recorded
    <3> QED
      BY <3>1, <3>2 DEF Works
  <2> QED
    BY <2>2, <2>3 DEF Standing
<1>6. ASSUME NEW v \in Workers \ {w} PROVE Standing(v)'
  <2>1. worker'[v] = worker[v] /\ Standing(v)
    BY <1>6 DEF Works, PipelineInv
  <2>2. ASSUME ~At(v, "idle"), Leased(v),
               runs[RunOf(v)].fence_token = worker[v].lease.fence
        PROVE  checkpoints'[RunOf(v)] = checkpoints[RunOf(v)]
    <3>1. ASSUME RunOf(v) = RunOf(w), runs[RunOf(w)].fence_token = worker[w].lease.fence
          PROVE  FALSE
      <4>1. worker[v].lease = worker[w].lease
        BY <1>1, <2>2, <3>1 DEF PipelineInv, Inv, OneHolderPerToken, Leased
      <4> QED
        BY <1>6, <2>2, <4>1 DEF PipelineInv, OneWorkerPerToken
    <3> QED
      BY <2>2, <3>1 DEF Works, Leased
  <2> QED
    BY <1>4, <2>1, <2>2, StandingLasts DEF PipelineInv, Works
<1>7. OneWorkerPerToken'
  BY DEF PipelineInv, OneWorkerPerToken, Works, At
<1> QED
  BY <1>1, <1>2, <1>3, <1>5, <1>6, <1>7 DEF PipelineInv

(* A worker that stays where it was, is idle now, or raises.               *)
Quiet(v) ==
  \/ worker'[v] \in {worker[v], Idle}
  \/ /\ ~At(v, "idle") /\ worker'[v].at = "raised"
     /\ worker'[v].run = worker[v].run /\ worker'[v].lease = worker[v].lease

(* A step after which every worker is quiet and nothing but rows and the   *)
(* clock has changed.                                                      *)
LEMMA QuietKeeps ==
  ASSUME PipelineInv, [StoreNext]_storeVars, tree' = tree,
         UNCHANGED <<effects, checkpoints, leases>>,
         \A r \in Runs : runs'[r].fence_token = runs[r].fence_token,
         WorkersTyped', SuccessIsVerified',
         \A v \in Workers : Quiet(v)
  PROVE  PipelineInv'
<1>1. Inv' /\ TreesGrow
  BY InvNext DEF PipelineInv, TreesGrow
<1>2. ConfirmedIsApplied' /\ AppliedIsBegun'
  BY DEF PipelineInv, ConfirmedIsApplied, AppliedIsBegun
<1>3. ASSUME NEW v \in Workers PROVE Standing(v)'
  <2>1. CASE worker'[v] = worker[v]
    BY <1>1, <2>1, StandingLasts DEF PipelineInv
  <2>2. CASE worker'[v] = Idle
    <3>1. worker'[v].at = "idle" /\ At(v, "idle")'
      BY <2>2 DEF Idle, At
    <3>2. Knows(v, KEY)'
      BY <3>1, NothingKnown, KeyTyped DEF Executing, Verifying, VerifySteps
    <3> QED
      BY <3>1, <3>2 DEF Standing, JudgesLastCheckpoint
  <2>3. CASE /\ ~At(v, "idle") /\ worker'[v].at = "raised"
             /\ worker'[v].run = worker[v].run /\ worker'[v].lease = worker[v].lease
    <3>1. Knows(v, KEY)'
      BY <2>3, NothingKnown, KeyTyped DEF Executing, Verifying, VerifySteps
    <3>2. Leased(v) /\ RunOf(v)' = RunOf(v)
      BY <2>3 DEF PipelineInv, Standing, RunOf
    <3>3. Leased(v)'
      BY <2>3, <3>2 DEF Leased
    <3> QED
      BY <2>3, <3>1, <3>3 DEF Standing, JudgesLastCheckpoint
  <2> QED
    BY <2>1, <2>2, <2>3 DEF Quiet
<1>4. OneWorkerPerToken'
  <2>1. \A v \in Workers : ~At(v, "idle")' =>
          ~At(v, "idle") /\ worker'[v].lease = worker[v].lease
    BY DEF At, Idle, Quiet
  <2> QED
    BY <2>1 DEF PipelineInv, OneWorkerPerToken
<1> QED
  BY <1>1, <1>2, <1>3, <1>4 DEF PipelineInv

(* A worker whose program returns, or raises, or whose process ends.       *)
LEMMA LeavesQuietly ==
  ASSUME WorkersTyped, NEW w \in Workers, ~At(w, "idle"),
         GoIdle(w) \/ Raise(w, "error"), tree' = tree
  PROVE  WorkersTyped' /\ \A v \in Workers : Quiet(v)
<1>1. CASE GoIdle(w)
  BY <1>1, PlacesTyped, GoIdleMoves DEF WorkersTyped, Places, Quiet
<1>2. CASE Raise(w, "error")
  BY <1>2, PlacesTyped, RaiseMoves, EvidenceAssumption
     DEF WorkersTyped, Places, Moves, Quiet
<1> QED
  BY <1>1, <1>2

(* create_run and the clock: no worker moves.                              *)
LEMMA SubmitKeeps ==
  ASSUME PipelineInv, NEW r \in Runs, Submit(r) PROVE PipelineInv'
<1>1. PICK now \in ClockReads : CreateRun(r, now)
  BY DEF Submit
<1>2. now \in Nat /\ IInv
  BY ClockReadsType DEF PipelineInv, Inv, IInv
<1>3. /\ Writes(r, runs[r].fence_token) /\ runs'[r].status = "PENDING"
      /\ leases' = leases
  BY <1>1, <1>2, CreateRunWrites
<1>4. /\ \A s \in Runs : runs'[s].fence_token = runs[s].fence_token
      /\ \A s \in Runs : runs'[s].status = "SUCCEEDED" => runs[s].status = "SUCCEEDED"
  BY <1>3 DEF Writes
<1>5. StoreNext /\ UNCHANGED <<effects, checkpoints, worker, tree>>
  BY <1>1 DEF StoreNext, ClaimStep, CreateRun, Submit
<1>6. SuccessIsVerified' /\ WorkersTyped'
  BY <1>4, <1>5, NoNewSuccess DEF PipelineInv, TreesGrow, WorkersTyped
<1> QED
  BY <1>3, <1>4, <1>5, <1>6, QuietKeeps DEF Quiet

LEMMA PassKeeps ==
  ASSUME PipelineInv, Pass PROVE PipelineInv'
<1>1. StoreNext /\ UNCHANGED <<runs, effects, checkpoints, leases, worker, tree>>
  BY DEF Pass, Tick, StoreNext
<1>2. SuccessIsVerified' /\ WorkersTyped'
  BY <1>1, NoNewSuccess DEF PipelineInv, TreesGrow, WorkersTyped
<1> QED
  BY <1>1, <1>2, QuietKeeps DEF Quiet

(* A worker whose process ends, without success: it was killed, or it lost *)
(* its lease, or it stored the failure.                                    *)
LEMMA EndKeeps ==
  ASSUME PipelineInv, NEW w \in Workers,
         FailRun(w) \/ LoseLease(w) \/ Crash(w)
  PROVE  PipelineInv'
<1>1. (GoIdle(w) \/ Raise(w, "error")) /\ tree' = tree /\ ~At(w, "idle")
  BY DEF FailRun, LoseLease, Crash, At, StoreCalls
<1>2. worker[w].lease \in leases /\ worker[w].error \in Errors \cup {None}
  BY <1>1 DEF PipelineInv, Standing, Leased, WorkersTyped, Worker
<1>3. WorkersTyped' /\ \A v \in Workers : Quiet(v)
  BY <1>1, LeavesQuietly DEF PipelineInv
<1>4. CASE UNCHANGED storeVars
  <2>1. SuccessIsVerified'
    BY <1>1, <1>4, NoNewSuccess DEF PipelineInv, TreesGrow, storeVars
  <2> QED
    BY <1>1, <1>3, <1>4, <2>1, QuietKeeps DEF storeVars
<1>5. CASE FailRun(w)
  <2> DEFINE l == worker[w].lease
             error == worker[w].error
  <2>1. PICK now \in ClockReads : Transition(l, "FAILED", "failed", None, error, now)
    BY <1>5 DEF FailRun, ReadsOf
  <2>2. "failed" \in Stages
    BY WorkspaceAssumption
  <2> HIDE DEF l, error
  <2>3. /\ StoreNext /\ leases' = leases /\ UNCHANGED <<effects, checkpoints>>
        /\ \A r \in Runs : runs'[r].fence_token = runs[r].fence_token
        /\ \A r \in Runs \ {l.run} : runs'[r] = runs[r]
        /\ l.run \in Runs /\ runs'[l.run].status = "FAILED"
    BY <1>2, <2>1, <2>2, TransitionCalled DEF PipelineInv, l, error
  <2>4. \A r \in Runs : runs'[r].status = "SUCCEEDED" => runs[r].status = "SUCCEEDED"
    BY <2>3
  <2>5. SuccessIsVerified'
    BY <1>1, <2>3, <2>4, NoNewSuccess DEF PipelineInv, TreesGrow
  <2> QED
    BY <1>1, <1>3, <2>3, <2>5, QuietKeeps
<1> QED
  BY <1>4, <1>5 DEF LoseLease, Crash

(* A worker that completes its run stores what it found and recorded.      *)
LEMMA CompleteKeeps ==
  ASSUME PipelineInv, NEW w \in Workers, Complete(w) PROVE PipelineInv'
<1> DEFINE l == worker[w].lease
           found == EvidenceOf(w)
<1>1. /\ GoIdle(w) \/ Raise(w, "error")
      /\ tree' = tree /\ At(w, "complete") /\ ~At(w, "idle")
  BY DEF Complete, At
<1>2. /\ Inv /\ l \in leases /\ l.run = RunOf(w) /\ RunOf(w) \in Runs
      /\ Knows(w, KEY) /\ Typed(Places) /\ KEY \in Keys
  BY <1>1, PlacesTyped, KeyTyped DEF PipelineInv, Standing, Leased
<1>3. found \in Evidence /\ "complete" \in Stages
  BY <1>1, <1>2, FindingsTyped, WorkspaceAssumption DEF At, Measured
<1>4. PICK now \in ClockReads : Transition(l, "SUCCEEDED", "complete", found, None, now)
  BY DEF Complete, ReadsOf
<1>5. PICK r \in Runs : r = RunOf(w)
  BY <1>2
<1>6. /\ StoreNext /\ leases' = leases /\ UNCHANGED <<effects, checkpoints>>
      /\ \A s \in Runs : runs'[s].fence_token = runs[s].fence_token
      /\ \A s \in Runs \ {r} : runs'[s] = runs[s]
      /\ runs[r].fence_token = l.fence /\ runs'[r].result = found
  <2>1. found # None
    BY <1>3, StoreAssumption
  <2> HIDE DEF l, found
  <2> QED
    BY <1>2, <1>3, <1>4, <1>5, <2>1, TransitionCalled
<1>7. Recorded(w)
  BY <1>1, <1>5, <1>6 DEF PipelineInv, Standing, JudgesLastCheckpoint, At
<1>8. Verified(r)'
  BY <1>1, <1>2, <1>5, <1>6, <1>7, SuccessEarned DEF PipelineInv
<1>9. SuccessIsVerified'
  <2>1. SUFFICES ASSUME NEW s \in Runs, s # r, runs'[s].status = "SUCCEEDED"
                 PROVE  Verified(s)'
    BY <1>8 DEF SuccessIsVerified, Verified
  <2>2. runs[s].status = "SUCCEEDED" /\ Verified(s)
    BY <1>6, <2>1, VerifiedRuns DEF PipelineInv
  <2> QED
    BY <1>1, <1>6, <2>2, SuccessLasts DEF PipelineInv, TreesGrow
<1>10. WorkersTyped' /\ \A v \in Workers : Quiet(v)
  BY <1>1, LeavesQuietly DEF PipelineInv
<1> QED
  BY <1>1, <1>6, <1>9, <1>10, QuietKeeps

(* A claim: the lease is new, and whoever held the run before no longer    *)
(* holds its token.                                                        *)
LEMMA ClaimKeeps ==
  ASSUME PipelineInv, NEW w \in Workers, Claim(w) PROVE PipelineInv'
<1>1. PICK r \in Runs, now \in ClockReads :
        /\ ClaimNext(r, NameOf[w], now)
        /\ worker' = [worker EXCEPT ![w] =
             [Idle EXCEPT !.at = "head", !.run = r,
                          !.lease = [run |-> r, owner |-> NameOf[w],
                                     fence |-> NextToken(runs[r])]]]
  BY DEF Claim, ReadsOf
<1> DEFINE l == [run |-> r, owner |-> NameOf[w], fence |-> NextToken(runs[r])]
           new == [Idle EXCEPT !.at = "head", !.run = r, !.lease = l]
<1>2. /\ NameOf[w] \in Owners /\ Grant(r, NameOf[w], now) /\ tree' = tree
      /\ runs[r].status # "SUCCEEDED"
  BY <1>1, PipelineAssumption DEF ClaimNext, Claimable, Lapsed, Claim
<1>3. StoreNext
  BY <1>1, <1>2 DEF StoreNext, ClaimStep
<1>4. /\ leases' = leases \cup {l} /\ l \in Lease /\ l.run = r
      /\ \A m \in leases : m # l
      /\ \A m \in leases : m.run = r => m.fence # runs'[r].fence_token
      /\ UNCHANGED <<effects, checkpoints>>
      /\ runs'[r].status = "RUNNING"
      /\ \A s \in Runs \ {r} : runs'[s] = runs[s]
  <2>1. l = [run |-> r, owner |-> NameOf[w], fence |-> NextToken(runs[r])] /\ l.run = r
    OBVIOUS
  <2> HIDE DEF l
  <2> QED
    BY <1>2, <2>1, GrantCalled DEF PipelineInv
<1> HIDE DEF l
<1>5. /\ new \in Worker(Places) /\ new.at = "head" /\ new.run = r /\ new.lease = l
  BY <1>4 DEF Idle, Worker, Places, Commands
<1>6. worker' = [worker EXCEPT ![w] = new]
  BY <1>1 DEF l
<1> HIDE DEF new
<1>7. /\ worker' \in [Workers -> Worker(Places)] /\ worker'[w] = new
      /\ \A v \in Workers \ {w} : worker'[v] = worker[v]
  BY <1>5, <1>6, PlacesTyped, OneMoves DEF PipelineInv
<1>8. Inv' /\ TreesGrow /\ WorkersTyped'
  BY <1>2, <1>3, <1>7, InvNext DEF PipelineInv, TreesGrow, WorkersTyped, Places
<1>9. ConfirmedIsApplied' /\ AppliedIsBegun'
  BY <1>2, <1>4 DEF PipelineInv, ConfirmedIsApplied, AppliedIsBegun
<1>10. SuccessIsVerified'
  <2>1. \A s \in Runs : runs'[s].status = "SUCCEEDED" => runs[s].status = "SUCCEEDED"
    BY <1>4
  <2> QED
    BY <1>3, <1>8, <2>1, NoNewSuccess DEF PipelineInv
<1>11. Standing(w)'
  <2>1. worker'[w].at = "head" /\ worker'[w].run = r /\ worker'[w].lease = l
    BY <1>5, <1>7
  <2>2. Leased(w)'
    BY <1>4, <2>1 DEF Leased, RunOf
  <2>3. Knows(w, KEY)'
    BY <2>1, NothingKnown, KeyTyped DEF Executing, Verifying, VerifySteps
  <2> QED
    BY <2>1, <2>2, <2>3 DEF Standing, JudgesLastCheckpoint
<1>12. ASSUME NEW v \in Workers \ {w} PROVE Standing(v)'
  <2>1. worker'[v] = worker[v] /\ Standing(v)
    BY <1>7 DEF PipelineInv
  <2>2. ASSUME Leased(v), runs'[RunOf(v)].fence_token = worker[v].lease.fence
        PROVE  runs[RunOf(v)].fence_token = worker[v].lease.fence
    BY <1>4, <2>2 DEF Leased
  <2> QED
    BY <1>3, <1>4, <1>8, <2>1, <2>2, StandingLasts DEF PipelineInv
<1>13. OneWorkerPerToken'
  <2>1. ASSUME NEW v \in Workers \ {w}, ~At(v, "idle")' PROVE worker'[v].lease # l
    <3>1. worker'[v] = worker[v] /\ ~At(v, "idle")
      BY <1>7, <2>1 DEF At
    <3>2. worker[v].lease \in leases
      BY <3>1 DEF PipelineInv, Standing, Leased
    <3> QED
      BY <1>4, <3>1, <3>2
  <2>2. worker'[w].lease = l
    BY <1>5, <1>7
  <2>3. ASSUME NEW u \in Workers \ {w}, NEW v \in Workers \ {w}, u # v,
               ~At(u, "idle")', ~At(v, "idle")'
        PROVE  worker'[u].lease # worker'[v].lease
    BY <1>7, <2>3 DEF PipelineInv, OneWorkerPerToken, At
  <2>4. SUFFICES ASSUME NEW u \in Workers, NEW v \in Workers, u # v,
                        ~At(u, "idle")', ~At(v, "idle")'
                 PROVE  worker'[u].lease # worker'[v].lease
    BY DEF OneWorkerPerToken
  <2>5. CASE u = w
    BY <2>1, <2>2, <2>4, <2>5
  <2>6. CASE v = w
    BY <2>1, <2>2, <2>4, <2>6
  <2>7. CASE u # w /\ v # w
    BY <2>3, <2>4, <2>7
  <2> QED
    BY <2>5, <2>6, <2>7
<1> QED
  BY <1>8, <1>9, <1>10, <1>11, <1>12, <1>13 DEF PipelineInv

LEMMA PipelineInvNext == PipelineInv /\ [Next]_vars => PipelineInv'
<1>1. SUFFICES ASSUME PipelineInv, [Next]_vars PROVE PipelineInv'
  OBVIOUS
<1>2. CASE UNCHANGED vars
  <2>1. UNCHANGED <<storeVars, worker, tree>> /\ UNCHANGED <<runs, effects, checkpoints, leases>>
    BY <1>2 DEF vars, storeVars
  <2>2. SuccessIsVerified' /\ WorkersTyped'
    BY <1>1, <2>1 DEF PipelineInv, WorkersTyped, SuccessIsVerified, Settled
  <2> QED
    BY <1>1, <2>1, <2>2, QuietKeeps DEF Quiet
<1>3. ASSUME NEW w \in Workers, Attempt(w) PROVE PipelineInv'
  <2>1. ~At(w, "idle")
    BY <1>3, BusyInAttempt
  <2>2. Leased(w) /\ Knows(w, KEY)
    BY <1>1, <2>1 DEF PipelineInv, Standing
  <2>3. Works(w)
    BY <1>1, <1>3, <2>2, AttemptWorks DEF PipelineInv
  <2> QED
    BY <1>1, <2>1, <2>3, WorksKeeps
<1> QED
  BY <1>1, <1>2, <1>3, SubmitKeeps, PassKeeps, EndKeeps, CompleteKeeps, ClaimKeeps
     DEF Next, WorkerStep

-----------------------------------------------------------------------------
(* The theorems.                                                           *)

(* In every reachable state each worker's lease is one that was handed out *)
(* for its run, what it knows of ledger and worktree is so, and the ledger *)
(* agrees with the worktrees.                                              *)
THEOREM PipelineInvariant == Spec => []PipelineInv
<1> QED
  BY PipelineInvInit, PipelineInvNext, PTL DEF Spec

(* No worker has read the clock in the future.                             *)
LEMMA SinceTyped == Spec => [](since \in [Workers -> Nat])
<1> DEFINE Since == since \in [Workers -> Nat]
<1>1. Init => Since
  BY DEF Init
<1>2. PipelineInv /\ Since /\ [Next]_vars => Since'
  <2>1. SUFFICES ASSUME PipelineInv, Since, [Next]_vars PROVE Since'
    OBVIOUS
  <2>2. clock \in Nat
    BY <2>1 DEF PipelineInv, Inv, IInv, TypeOK
  <2> QED
    BY <2>1, <2>2 DEF Next, vars, Over, Pass
<1> QED
  BY <1>1, <1>2, PipelineInvariant, PTL DEF Spec

(* What the workers store, what they remember, the worktrees and the clock *)
(* readings are of their types.                                            *)
THEOREM PipelineTypeCorrect == Spec => []PipelineTypeOK
<1>1. PipelineInv /\ since \in [Workers -> Nat] => PipelineTypeOK
  BY DEF PipelineInv, Inv, IInv, PipelineTypeOK
<1> QED
  BY <1>1, PipelineInvariant, SinceTyped, PTL

(* What a worker's program writes, it writes to its run, under a lease that*)
(* had not run out when it read the clock.                                 *)
LEMMA WritesUnderLease ==
  ASSUME TypeOK, NEW w \in Workers, Attempt(w) \/ Complete(w) \/ FailRun(w)
  PROVE  \/ \A s \in Runs : Untouched(s)
         \/ /\ \E now \in ReadsOf(w) : HoldsLease(worker[w].lease, now)
            /\ \A s \in Runs \ {worker[w].lease.run} : Untouched(s)
<1> DEFINE me == worker[w].lease
<1>1. CASE UNCHANGED storeVars
  BY <1>1 DEF storeVars, Untouched
<1>2. ASSUME NEW now, NEW stage, AdvanceStage(me, stage, now)
      PROVE  HoldsLease(me, now) /\ \A s \in Runs \ {me.run} : Untouched(s)
  BY <1>2 DEF AdvanceStage, UpdateRun, AppendEvent, TypeOK, Untouched
<1>3. ASSUME NEW now, NEW stage, NEW evidence, RecordCheckpoint(me, stage, evidence, now)
      PROVE  HoldsLease(me, now) /\ \A s \in Runs \ {me.run} : Untouched(s)
  BY <1>3 DEF RecordCheckpoint, AppendEvent, TypeOK, Untouched
<1>4. ASSUME NEW now, NEW target, NEW stage, NEW result, NEW error,
             Transition(me, target, stage, result, error, now)
      PROVE  HoldsLease(me, now) /\ \A s \in Runs \ {me.run} : Untouched(s)
  BY <1>4 DEF Transition, UpdateRun, AppendEvent, TypeOK, Untouched
<1>5. ASSUME NEW now, NEW key, NEW patch, NEW said, NEW evidence,
             \/ BeginEffect(me, key, patch, now)
             \/ FinishEffect(me, key, said, evidence, now)
             \/ ReconcileEffect(me, key, said, evidence, now)
      PROVE  HoldsLease(me, now) /\ \A s \in Runs \ {me.run} : Untouched(s)
  BY <1>5 DEF BeginEffect, FinishEffect, ReconcileEffect, EffectStarts, EffectRestarts,
     EffectBecomesUnknown, UpdateEffect, AppendEvent, TypeOK, Untouched
<1> HIDE DEF me
<1>6. CASE Complete(w) \/ FailRun(w)
  BY <1>4, <1>6 DEF Complete, FailRun, me
<1>7. ASSUME NEW here, NEW stage, NEW next, EnterStage(w, here, stage, next)
      PROVE  /\ \E now \in ReadsOf(w) : HoldsLease(me, now)
             /\ \A s \in Runs \ {me.run} : Untouched(s)
  BY <1>2, <1>7 DEF EnterStage, me
<1>8. CASE ApplyPatch(w, KEY, "verify")
  BY <1>1, <1>5, <1>8 DEF ApplyPatch, BeginApply, GitApply, GitApplyKilled, ConfirmApply,
     DisconfirmApply, ReverseCheck, ReconcileApply, me
<1>9. CASE Record(w)
  BY <1>3, <1>9 DEF Record, me
<1>10. CASE Attempt(w) /\ ~Record(w) /\ ~ApplyPatch(w, KEY, "verify")
  BY <1>1, <1>7, <1>10 DEF Attempt, CheckHead, Reproduce, Propose, Verification,
     Acceptance, TakeFingerprint, Judge, Raises, me
<1> QED
  BY <1>6, <1>8, <1>9, <1>10 DEF me

(* However long a worker stalls, the one store call it was in when its     *)
(* lease ran out is the last that any process under that token gets        *)
(* through.                                                                *)
THEOREM OneLateCallAtMost == Spec => LateCallsRefused
<1>1. ASSUME PipelineInv, since \in [Workers -> Nat], [Next]_vars,
             NEW v \in Workers, NEW r \in Runs, ~At(v, "idle"), RunOf(v) = r,
             runs[r].status = "RUNNING",
             runs[r].fence_token = worker[v].lease.fence,
             runs[r].lease_expires_at <= since[v]
      PROVE  Untouched(r) \/ runs'[r].fence_token = runs[r].fence_token + 1
  <2>1. /\ TypeOK /\ OneHolderPerToken /\ Leased(v)
        /\ \A w \in Workers : ~At(w, "idle") => Leased(w)
        /\ \A now \in ClockReads : now \in Nat
    BY <1>1, ClockReadsType DEF PipelineInv, Inv, IInv, Standing
  <2>2. CASE UNCHANGED storeVars
    BY <2>2 DEF storeVars, Untouched
  <2>3. ASSUME NEW s \in Runs, Submit(s) PROVE Untouched(r)
    BY <1>1, <2>1, <2>3 DEF Submit, CreateRun, AppendEvent, TypeOK, Untouched
  <2>4. ASSUME NEW w \in Workers, Claim(w)
        PROVE  Untouched(r) \/ runs'[r].fence_token = runs[r].fence_token + 1
    <3>1. PICK s \in Runs, now \in ReadsOf(w) : Grant(s, NameOf[w], now)
      BY <2>4 DEF Claim, ClaimNext
    <3>2. CASE s # r
      BY <2>1, <3>1, <3>2 DEF Grant, UpdateRun, AppendEvent, TypeOK, Untouched
    <3>3. CASE s = r
      BY <2>1, <3>1, <3>3 DEF Grant, UpdateRun, NextToken, TypeOK, Run
    <3> QED
      BY <3>2, <3>3
  <2>5. ASSUME NEW w \in Workers, Attempt(w) \/ Complete(w) \/ FailRun(w)
        PROVE  Untouched(r)
    <3>1. SUFFICES ASSUME ~Untouched(r) PROVE FALSE
      OBVIOUS
    <3>2. PICK now \in ReadsOf(w) : HoldsLease(worker[w].lease, now)
      BY <2>1, <2>5, <3>1, WritesUnderLease
    <3>3. worker[w].lease.run = r
      BY <2>1, <2>5, <3>1, WritesUnderLease
    <3>4. ~At(w, "idle")
      BY <2>5, BusyInAttempt DEF Complete, FailRun, At
    <3>5. worker[w].lease = worker[v].lease
      BY <1>1, <2>1, <3>2, <3>3, <3>4 DEF HoldsLease, OneHolderPerToken, Leased
    <3>6. w = v
      BY <1>1, <3>4, <3>5 DEF PipelineInv, OneWorkerPerToken
    <3>7. /\ now \in Nat /\ since[v] \in Nat /\ now >= since[v]
          /\ runs[r].lease_expires_at # None /\ runs[r].lease_expires_at > now
          /\ runs[r].lease_expires_at \in Nat \cup {None}
      BY <1>1, <2>1, <3>2, <3>3, <3>6 DEF ReadsOf, HoldsLease, TypeOK, Run
    <3> QED
      BY <1>1, <3>7
  <2> QED
    BY <1>1, <2>2, <2>3, <2>4, <2>5
       DEF Next, WorkerStep, LoseLease, Crash, Pass, Tick, vars, storeVars, Untouched
<1>2. PipelineInv /\ since \in [Workers -> Nat] /\ [Next]_vars =>
        [\A w \in Workers, r \in Runs :
           /\ ~At(w, "idle") /\ RunOf(w) = r
           /\ runs[r].status = "RUNNING"
           /\ runs[r].fence_token = worker[w].lease.fence
           /\ runs[r].lease_expires_at <= since[w]
           => Untouched(r) \/ runs'[r].fence_token = runs[r].fence_token + 1]_vars
  BY <1>1
<1> QED
  BY <1>2, PipelineInvariant, SinceTyped, PTL DEF Spec, LateCallsRefused

(* However many processes run under one owner name, no two of them work    *)
(* under the same token of a run.                                          *)
THEOREM TokenNamesOneWorker == Spec => []OneWorkerPerToken
<1>1. PipelineInv => OneWorkerPerToken
  BY DEF PipelineInv
<1> QED
  BY <1>1, PipelineInvariant, PTL

(* What the ledger confirmed is in the worktree, whether it was reported,  *)
(* reconciled or replayed, and whoever was stalled or killed meanwhile.    *)
THEOREM LedgerConfirmsApplied == Spec => []ConfirmedIsApplied
<1>1. PipelineInv => ConfirmedIsApplied
  BY DEF PipelineInv
<1> QED
  BY <1>1, PipelineInvariant, PTL

(* A worker verifies only a patch that the ledger confirmed for its run    *)
(* and that is in the worktree.                                            *)
THEOREM VerifiedPatchIsApplied == Spec => []VerifiesAppliedPatch
<1>1. PipelineInv => VerifiesAppliedPatch
  <2>1. SUFFICES ASSUME PipelineInv, NEW w \in Workers, worker[w].at \in Verifying
                 PROVE  /\ Ledger(RunOf(w)).status = "SUCCEEDED"
                        /\ Ledger(RunOf(w)).request = worker[w].patch
                        /\ worker[w].patch \in TreeOf(w)
    BY DEF VerifiesAppliedPatch, Verifying, VerifySteps
  <2>2. Confirmed(w, KEY) /\ RunOf(w) \in Runs
    BY <2>1 DEF PipelineInv, Standing, Leased, Knows, At, Verifying, VerifySteps
  <2> QED
    BY <2>1, <2>2, KeyTyped
       DEF PipelineInv, ConfirmedIsApplied, Confirmed, Asked, Ledger, TreeOf
<1> QED
  BY <1>1, PipelineInvariant, PTL

(* A worktree with one run gets one patch at most: the ledger binds the    *)
(* run's operation to the first patch it was begun with, and nothing is    *)
(* written to the worktree that was not begun.                             *)
THEOREM RunAppliesOnePatch == Spec => []OnePatchPerRun
<1>1. PipelineInv => OnePatchPerRun
  <2>1. SUFFICES ASSUME PipelineInv, NEW r \in Runs,
                        \A s \in Runs \ {r} : Repo[s] # Repo[r]
                 PROVE  Cardinality(tree[Repo[r]]) <= 1
    BY DEF OnePatchPerRun
  <2> DEFINE begun == Ledger(r).request
  <2>2. Repo[r] \in Worktrees
    BY WorkspaceAssumption
  <2>3. \A p \in tree[Repo[r]] : p = begun
    BY <2>1, <2>2, KeyTyped DEF PipelineInv, AppliedIsBegun, Ledger
  <2>4. tree[Repo[r]] \subseteq {begun}
    BY <2>3
  <2>5. IsFiniteSet({begun}) /\ Cardinality({begun}) = 1
    BY FS_Singleton
  <2>6. Cardinality(tree[Repo[r]]) <= Cardinality({begun})
    BY <2>4, <2>5, FS_Subset
  <2> QED
    BY <2>5, <2>6
<1> QED
  BY <1>1, PipelineInvariant, PTL

(* A run that succeeded names a patch the ledger confirmed, that is in its *)
(* worktree and passes test and acceptance command, and its result is what *)
(* its last checkpoint recorded.                                           *)
THEOREM SucceededRunVerified == Spec => []SuccessIsVerified
<1>1. PipelineInv => SuccessIsVerified
  BY DEF PipelineInv
<1> QED
  BY <1>1, PipelineInvariant, PTL

(* Where every run has a worktree of its own, a run succeeds on its own    *)
(* patch: one that fixes its test (the design document, line 49).  The     *)
(* worktree has no other.                                                  *)
THEOREM OwnWorktreeOwnSuccess ==
  ASSUME \A r, s \in Runs : Repo[r] = Repo[s] => r = s
  PROVE  Spec => []SuccessIsItsOwn
<1>1. PipelineInv => SuccessIsItsOwn
  <2>1. SUFFICES ASSUME PipelineInv, NEW r \in Runs, runs[r].status = "SUCCEEDED"
                 PROVE  runs[r].result.patch \in Fixes[r]
    BY DEF SuccessIsItsOwn
  <2>2. /\ runs[r].result.patch \in tree[Repo[r]]
        /\ tree[Repo[r]] \cap Fixes[r] # {}
    BY <2>1, VerifiedRuns DEF PipelineInv, Verified
  <2>3. \A p \in tree[Repo[r]] : p = Ledger(r).request
    <3>1. Repo[r] \in Worktrees
      BY WorkspaceAssumption
    <3> QED
      BY <2>1, <3>1, KeyTyped DEF PipelineInv, AppliedIsBegun, Ledger
  <2> QED
    BY <2>2, <2>3
<1> QED
  BY <1>1, PipelineInvariant, PTL

(* Every step of the pipeline is a step of the store or leaves it alone.   *)
LEMMA StoreSteps == PipelineInv /\ [Next]_vars => [StoreNext]_storeVars
<1>1. SUFFICES ASSUME PipelineInv, [Next]_vars PROVE [StoreNext]_storeVars
  OBVIOUS
<1>2. ASSUME NEW w \in Workers, Attempt(w) PROVE [StoreNext]_storeVars
  <2>1. ~At(w, "idle")
    BY <1>2, BusyInAttempt
  <2> QED
    BY <1>1, <1>2, <2>1, AttemptWorks DEF PipelineInv, Standing, Works
<1>3. ASSUME NEW w \in Workers, Claim(w) PROVE StoreNext
  BY <1>3, PipelineAssumption DEF Claim, StoreNext, ClaimStep, ReadsOf
<1>4. ASSUME NEW w \in Workers, FailRun(w) PROVE StoreNext
  <2>1. worker[w].lease \in leases /\ worker[w].error \in Errors \cup {None}
    BY <1>1, <1>4 DEF PipelineInv, Standing, Leased, WorkersTyped, Worker, FailRun, At
  <2>2. "failed" \in Stages /\ "FAILED" \in RunStatus
    BY WorkspaceAssumption DEF RunStatus, Terminal
  <2> QED
    BY <1>4, <2>1, <2>2, HolderCalls DEF FailRun, ReadsOf
<1>5. ASSUME NEW w \in Workers, Complete(w) PROVE StoreNext
  <2>1. At(w, "complete") /\ worker[w].lease \in leases
    BY <1>1, <1>5 DEF PipelineInv, Standing, Leased, Complete, At
  <2>2. EvidenceOf(w) \in Evidence
    BY <1>1, <2>1, PlacesTyped, FindingsTyped, KeyTyped
       DEF PipelineInv, Standing, At, Measured
  <2>3. "complete" \in Stages /\ "SUCCEEDED" \in RunStatus
    BY WorkspaceAssumption DEF RunStatus, Terminal
  <2> QED
    BY <1>5, <2>1, <2>2, <2>3, HolderCalls DEF Complete, ReadsOf
<1>6. ASSUME NEW r \in Runs, Submit(r) PROVE StoreNext
  BY <1>6 DEF Submit, StoreNext, ClaimStep
<1> QED
  BY <1>1, <1>2, <1>3, <1>4, <1>5, <1>6
     DEF Next, WorkerStep, LoseLease, Crash, Pass, StoreNext, vars, storeVars

(* The pipeline's workers are callers of the store like any others: what   *)
(* holds of the store among arbitrary callers holds of the pipeline.       *)
THEOREM PipelineUsesStore == Spec => StoreSpec
<1>1. Init => StoreInit
  BY DEF Init
<1> QED
  BY <1>1, StoreSteps, PipelineInvariant, PTL DEF Spec, StoreSpec

(* So a run of the pipeline that has ended stays as it ended.              *)
THEOREM PipelineRunsStayEnded == Spec => TerminalFrozen
<1> QED
  BY PipelineUsesStore, FinishedRunsFrozen

(* And its ledger keeps the contract: a confirmed patch is never applied   *)
(* again, a doubt is settled by one adjudicator.                           *)
THEOREM PipelineFollowsContract == Spec => EffectsFollowContract
<1> QED
  BY PipelineUsesStore, LedgerImplementsContract
===============================================================================
