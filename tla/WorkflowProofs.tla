----------------------------- MODULE WorkflowProofs -----------------------------
(* The safety properties of the OpenRath workflow, for every set of runs,  *)
(* workers, worktrees and patches, and every outer runtime that retries,   *)
(* recovers and gives up attempts as it likes.                             *)
EXTENDS OpenRathWorkflow, WorkspaceProofs

(* Where the functions of the steps are.                                   *)
ReproducePlaces == {"head", "run test"}
RepairPlaces == {"propose"}
ApplyPlaces == {"acquire for apply", "apply"} \cup ApplySteps
VerifyPlaces == {"acquire for verify", "verify", "complete", "failed"} \cup VerifySteps
Leasing == (ApplyPlaces \cup VerifyPlaces) \ Acquiring
Executors == {"git apply", "confirm", "disconfirm"}

(* The one candidate of a workflow: the ledger has no other operation than *)
(* its application, and the verify step is reached with that confirmed.    *)
OneCandidate(r) ==
  /\ outer[r].step \in {"apply", "verify"} => outer[r].patch \in Requests
  /\ \A k \in Keys : effects[r][k].status # "ABSENT" =>
       /\ outer[r].step \in {"apply", "verify"}
       /\ effects[r][k].request = outer[r].patch
       /\ k = KeyOf[outer[r].patch]
  /\ outer[r].step = "verify" =>
       effects[r][KeyOf[outer[r].patch]].status = "SUCCEEDED"

(* A workflow that succeeded is over, and so is its domain run.            *)
DomainSucceeded(r) ==
  outer[r].status = "succeeded" =>
    /\ outer[r].holder = None
    /\ runs[r].status = "SUCCEEDED" /\ runs[r].result.patch = outer[r].patch

(* What the process that runs the current attempt brings back.             *)
Brings(w) ==
  LET row == outer[RunOf(w)]
  IN  /\ worker[w].at \in ReproducePlaces => row.step = "reproduce"
      /\ worker[w].at \in RepairPlaces => row.step = "repair"
      /\ worker[w].at \in ApplyPlaces => row.step = "apply"
      /\ worker[w].at = "returned" =>
           /\ row.step # "reproduce" => worker[w].patch \in Requests
           /\ row.step \in {"apply", "verify"} => worker[w].patch = row.patch
           /\ row.step = "apply" =>
                effects[RunOf(w)][KeyOf[row.patch]].status = "SUCCEEDED"
           /\ row.step = "verify" =>
                /\ runs[RunOf(w)].status = "SUCCEEDED"
                /\ runs[RunOf(w)].result.patch = row.patch

(* While its token is the run's, a process that executes an operation is   *)
(* the one the ledger was told of.                                         *)
ExecutesStarted(w) ==
  /\ worker[w].at \in Executors
  /\ runs[RunOf(w)].fence_token = worker[w].lease.fence
  => /\ effects[RunOf(w)][KeyOf[worker[w].patch]].status = "STARTED"
     /\ effects[RunOf(w)][KeyOf[worker[w].patch]].fence_token = worker[w].lease.fence

(* What holds of each process, of a current attempt or of one that was     *)
(* given up.                                                               *)
Standing(w) ==
  /\ ~At(w, "idle") => RunOf(w) \in Runs
  /\ worker[w].at \in Leasing => Leased(w)
  /\ worker[w].at \in ApplyPlaces \cup VerifyPlaces =>
       /\ worker[w].patch = outer[RunOf(w)].patch
       /\ outer[RunOf(w)].step \in {"apply", "verify"}
  /\ worker[w].at \in VerifyPlaces => outer[RunOf(w)].step = "verify"
  /\ \A k \in Keys :
       worker[w].patch \in Requests /\ k = KeyOf[worker[w].patch] => Knows(w, k)
  /\ ExecutesStarted(w)
  /\ ~At(w, "idle") /\ IsCurrent(w) => Brings(w)

(* The inductive invariant.                                                *)
WorkflowInv ==
  /\ Inv
  /\ AttemptsTyped
  /\ \A r \in Runs : OneCandidate(r) /\ DomainSucceeded(r)
  /\ \A w \in Workers : Standing(w)
  /\ OneExecutorPerLease
  /\ ConfirmedIsApplied
  /\ AppliedIsBegun

-----------------------------------------------------------------------------
(* What a step does to the ledger.                                         *)

LEMMA PlacesTyped ==
  AttemptsTyped => Typed(Places) /\ "returned" \in Places \cap {"verify", "returned"}
BY DEF AttemptsTyped, Typed, Places

(* Two patches never share a key.                                          *)
LEMMA KeysTyped ==
  \A p \in Requests : KeyOf[p] \in Keys
BY WorkflowAssumption

(* A step of w touches at most operation k of its run, under the run's own *)
(* token and for its own patch; it does not touch the operation while      *)
(* somebody else executes it under the same lease; and if w executes it    *)
(* after the step, the ledger was told so by w.                            *)
LedgerKept(w, k) ==
  LET l == worker[w].lease
      r == RunOf(w)
      old == effects[r][k]
      new == effects'[r][k]
      goesOn == old.status = "STARTED" /\ old.fence_token = l.fence
  IN  /\ \A s \in Runs, j \in Keys : s # r \/ j # k => effects'[s][j] = effects[s][j]
      /\ \/ /\ new = old
            /\ worker'[w].at \in Executors => At(w, "git apply")
         \/ /\ runs[r].fence_token = l.fence
            /\ new.status # "ABSENT" /\ new.request = worker[w].patch
            /\ goesOn => worker[w].at \in {"confirm", "disconfirm"}
            /\ worker'[w].at \in Executors =>
                 /\ new.status = "STARTED" /\ new.fence_token = l.fence
                 /\ ~goesOn

(* Where Goto and Raise lead.                                              *)
LEMMA Leads ==
  ASSUME NEW P, Typed(P), NEW w \in Workers
  PROVE  /\ \A place : Goto(w, place) => worker'[w].at = place
         /\ \A error : Raise(w, error) => worker'[w].at = "raised"
<1>1. worker[w] \in Worker(P) /\ w \in DOMAIN worker
  BY DEF Typed
<1>2. /\ \A place : Goto(w, place) => worker'[w] = [worker[w] EXCEPT !.at = place]
      /\ \A error : Raise(w, error) =>
           worker'[w] = [worker[w] EXCEPT !.at = "raised", !.error = error]
  BY <1>1 DEF Goto, Raise
<1>3. "at" \in DOMAIN worker[w]
  BY <1>1 DEF Worker
<1> QED
  BY <1>2, <1>3

LEMMA ApplyKeepsLedger ==
  ASSUME Inv, NEW P, Typed(P), NEW w \in Workers, NEW k \in Keys, Leased(w),
         Knows(w, k), NEW next, next \notin Executors, ApplyPatch(w, k, next)
  PROVE  LedgerKept(w, k)
<1> DEFINE l == worker[w].lease
           r == RunOf(w)
           patch == worker[w].patch
<1>1. l \in leases /\ l.run = r /\ r \in Runs
  BY DEF Leased
<1>2. CASE UNCHANGED storeVars /\ (worker'[w].at \in Executors => At(w, "git apply"))
  BY <1>2 DEF LedgerKept, storeVars
<1>3. CASE BeginApply(w, k, next)
  <2>1. patch \in Requests /\ At(w, "begin")
    BY <1>3 DEF BeginApply, Knows, At
  <2>2. PICK now \in ClockReads :
          \/ /\ BeginEffect(l, k, patch, now)
             /\ Goto(w, IF effects'[l.run][k].status = "STARTED"
                        THEN "git apply" ELSE "reverse check")
          \/ /\ Goto(w, "reverse check") \/ Goto(w, next) \/ Raise(w, "error")
             /\ UNCHANGED storeVars
    BY <1>3 DEF BeginApply, ReadsOf
  <2>3. CASE /\ BeginEffect(l, k, patch, now)
             /\ Goto(w, IF effects'[l.run][k].status = "STARTED"
                        THEN "git apply" ELSE "reverse check")
    <3>1. /\ effects'[l.run][k].status \in {"STARTED", "UNKNOWN"}
          /\ effects'[l.run][k].request = patch
          /\ runs[l.run].fence_token = l.fence
          /\ ~ /\ effects[l.run][k].status = "STARTED"
               /\ effects[l.run][k].fence_token = l.fence
          /\ effects'[l.run][k].status = "STARTED" =>
               effects'[l.run][k].fence_token = l.fence
          /\ \A s \in Runs, j \in Keys :
               s # l.run \/ j # k => effects'[s][j] = effects[s][j]
      <4>1. BeginEffect(l, k, patch, now) /\ l \in leases /\ patch \in Requests
        BY <1>1, <2>1, <2>3
      <4> HIDE DEF l, patch
      <4> QED
        BY <4>1, BeginEffectCalled
    <3>2. worker'[w].at \in Executors => effects'[l.run][k].status = "STARTED"
      BY <2>3, Leads DEF Executors
    <3> QED
      BY <1>1, <3>1, <3>2 DEF LedgerKept
  <2>4. CASE /\ Goto(w, "reverse check") \/ Goto(w, next) \/ Raise(w, "error")
             /\ UNCHANGED storeVars
    BY <1>2, <2>4, Leads DEF Executors
  <2> QED
    BY <2>2, <2>3, <2>4
<1>4. CASE GitApply(w) \/ GitApplyKilled(w)
  BY <1>2, <1>4 DEF GitApply, GitApplyKilled
<1>5. CASE ReverseCheck(w)
  <2>1. worker'[w].at = "reconcile"
    BY <1>5 DEF ReverseCheck, Typed, Worker
  <2> QED
    BY <1>2, <1>5, <2>1 DEF ReverseCheck, Executors
<1>6. ASSUME NEW now \in ClockReads, NEW succeeded \in BOOLEAN,
             NEW result \in Evidence \cup {None}, worker'[w].at \notin Executors,
             Asked(w, k),
             \/ /\ FinishEffect(l, k, succeeded, result, now)
                /\ worker[w].at \in {"confirm", "disconfirm"}
             \/ ReconcileEffect(l, k, succeeded, result, now)
      PROVE  LedgerKept(w, k)
  <2>1. /\ runs[l.run].fence_token = l.fence
        /\ effects[l.run][k].status = "STARTED" => worker[w].at \in {"confirm", "disconfirm"}
    BY <1>6 DEF FinishEffect, ReconcileEffect, HoldsLease
  <2>2. FinishEffect(l, k, succeeded, result, now) \/ ReconcileEffect(l, k, succeeded, result, now)
    BY <1>6
  <2>3. /\ effects'[l.run][k].status = Verdict(succeeded)
        /\ effects'[l.run][k].request = effects[l.run][k].request
        /\ \A s \in Runs, j \in Keys :
             s # l.run \/ j # k => effects'[s][j] = effects[s][j]
    <3> HIDE DEF l
    <3> QED
      BY <1>1, <1>6, <2>2, VerdictCalled
  <2>4. Verdict(succeeded) # "ABSENT"
    BY DEF Verdict
  <2> QED
    BY <1>1, <1>6, <2>1, <2>3, <2>4 DEF LedgerKept, Asked
<1>7. ASSUME worker[w].at \in Executing
      PROVE  /\ Asked(w, k)
             /\ [source |-> SourceFingerprint(w), patch |-> patch] \in Evidence
             /\ worker[w].applied \in BOOLEAN
  <2>1. Asked(w, k) /\ patch \in Requests
    BY <1>7 DEF Knows, Asked
  <2>2. SourceFingerprint(w) \in SUBSET Requests
    BY <1>1, WorkspaceAssumption DEF SourceFingerprint, TreeOf, Typed
  <2> QED
    BY <2>1, <2>2, EvidenceAssumption DEF PatchEvidence, Typed, Worker
<1>8. CASE ConfirmApply(w, k, next)
  <2>1. worker[w].at = "confirm" /\ worker'[w].at \notin Executors
    BY <1>8, Leads DEF ConfirmApply, At
  <2> HIDE DEF l
  <2> QED
    BY <1>6, <1>7, <1>8, <2>1 DEF ConfirmApply, Executing, ReadsOf, l
<1>9. CASE DisconfirmApply(w, k)
  <2>1. worker[w].at = "disconfirm" /\ worker'[w].at \notin Executors
    BY <1>9, Leads DEF DisconfirmApply, At, Executors
  <2> QED
    BY <1>6, <1>7, <1>9, <2>1 DEF DisconfirmApply, Executing, ReadsOf
<1>10. CASE ReconcileApply(w, k, next)
  <2>1. worker[w].at = "reconcile" /\ worker'[w].at \notin Executors
    BY <1>10, Leads DEF ReconcileApply, At, Executors
  <2>2. PICK now \in ClockReads :
          \/ ReconcileEffect(l, k, worker[w].applied,
               [source |-> SourceFingerprint(w), patch |-> patch], now)
          \/ UNCHANGED storeVars
    BY <1>10 DEF ReconcileApply, ReadsOf
  <2> QED
    BY <1>2, <1>6, <1>7, <2>1, <2>2 DEF Executing
<1> QED
  BY <1>3, <1>4, <1>5, <1>8, <1>9, <1>10 DEF ApplyPatch

-----------------------------------------------------------------------------
(* Who does not move.                                                      *)

(* The workflows go on for the attempts of w only: the candidate stays once*)
(* there is one, and nobody else becomes current.                          *)
OuterKept(w) ==
  /\ \A r \in Runs : outer[r].step \in {"apply", "verify"} =>
       /\ outer'[r].patch = outer[r].patch
       /\ outer'[r].step \in {"apply", "verify"}
       /\ outer[r].step = "verify" => outer'[r].step = "verify"
  /\ \A r \in Runs, v \in Workers : outer'[r].holder = v =>
       \/ v = w
       \/ /\ outer[r].holder = v
          /\ outer'[r].step = outer[r].step /\ outer'[r].patch = outer[r].patch

(* The operation a process executes is left to it as long as its token is  *)
(* the run's.                                                              *)
LeftToExecute(v) ==
  LET k == KeyOf[worker[v].patch]
  IN  /\ worker[v].at \in Executors
      /\ runs[RunOf(v)].fence_token = worker[v].lease.fence
      => effects'[RunOf(v)][k] = effects[RunOf(v)][k]

(* A process that does not move stands where it stood.                     *)
LEMMA StandingLasts ==
  ASSUME WorkflowInv, [StoreNext]_storeVars, TreesGrow, NEW w, OuterKept(w),
         NEW v \in Workers, v # w, worker'[v] = worker[v], LeftToExecute(v)
  PROVE  Standing(v)'
<1>1. StoreGrows /\ Standing(v) /\ Typed(Places)
  BY StoreOnlyGrows, PlacesTyped DEF WorkflowInv
<1>2. RunOf(v)' = RunOf(v) /\ (At(v, "idle")' <=> At(v, "idle"))
  BY DEF RunOf, At
<1>3. worker[v].at \in ApplyPlaces \cup VerifyPlaces \cup Leasing \cup Executors
        => ~At(v, "idle") /\ RunOf(v) \in Runs
  BY <1>1 DEF Standing, ApplyPlaces, VerifyPlaces, Leasing, Executors, ApplySteps,
     VerifySteps, At
<1>4. worker'[v].at \in Leasing => Leased(v)'
  BY <1>1, <1>2 DEF Standing, Leased, StoreGrows
<1>5. /\ worker'[v].at \in ApplyPlaces \cup VerifyPlaces =>
           /\ worker'[v].patch = outer'[RunOf(v)].patch
           /\ outer'[RunOf(v)].step \in {"apply", "verify"}
      /\ worker'[v].at \in VerifyPlaces => outer'[RunOf(v)].step = "verify"
  BY <1>1, <1>3 DEF Standing, OuterKept
<1>6. ASSUME NEW k \in Keys, worker'[v].patch \in Requests, k = KeyOf[worker'[v].patch]
      PROVE  Knows(v, k)'
  <2>1. Knows(v, k) /\ (RunOf(v) \in Runs \/ At(v, "idle"))
    BY <1>1, <1>6 DEF Standing
  <2> QED
    BY <1>1, <2>1, KnowledgeLasts
<1>7. ExecutesStarted(v)'
  <2>1. SUFFICES ASSUME worker[v].at \in Executors,
                        runs'[RunOf(v)].fence_token = worker[v].lease.fence
                 PROVE  LET effect == effects'[RunOf(v)][KeyOf[worker[v].patch]]
                        IN  /\ effect.status = "STARTED"
                            /\ effect.fence_token = worker[v].lease.fence
    BY <1>2 DEF ExecutesStarted
  <2>2. Leased(v)
    BY <1>1, <2>1 DEF Standing, Leasing, Executors, ApplyPlaces, ApplySteps, Acquiring
  <2>3. runs[RunOf(v)].fence_token = worker[v].lease.fence
    BY <2>1, <2>2, TokensNeverReturn DEF WorkflowInv, Leased
  <2> QED
    BY <1>1, <2>1, <2>3 DEF Standing, ExecutesStarted, LeftToExecute
<1>8. ASSUME ~At(v, "idle"), outer'[RunOf(v)].holder = v PROVE Brings(v)'
  <2> DEFINE r == RunOf(v)
  <2>1. /\ r \in Runs /\ Brings(v)
        /\ outer'[r].step = outer[r].step /\ outer'[r].patch = outer[r].patch
    BY <1>1, <1>8 DEF Standing, OuterKept, IsCurrent
  <2>2. ASSUME runs[r].status = "SUCCEEDED" PROVE runs'[r] = runs[r]
    BY <2>1, <2>2, EndedRunFrozen DEF WorkflowInv, Frozen, Terminal
  <2>3. ASSUME outer[r].patch \in Requests,
               effects[r][KeyOf[outer[r].patch]].status = "SUCCEEDED"
        PROVE  effects'[r][KeyOf[outer[r].patch]].status = "SUCCEEDED"
    BY <1>1, <2>1, <2>3, KeysTyped DEF StoreGrows
  <2> QED
    BY <1>2, <2>1, <2>2, <2>3 DEF Brings
<1> QED
  BY <1>2, <1>1, <1>4, <1>5, <1>6, <1>7, <1>8 DEF Standing, IsCurrent

-----------------------------------------------------------------------------
(* What is left to show of a step.                                         *)

(* A step moves w, or nobody if w is no worker; the parts of the invariant *)
(* that are about w, the ledger and the workflows are left to show.        *)
LEMMA StepKeeps ==
  ASSUME WorkflowInv, NEW w, [StoreNext]_storeVars, AttemptsTyped', TreesGrow,
         OuterKept(w),
         \A v \in Workers \ {w} : worker'[v] = worker[v] /\ LeftToExecute(v),
         w \in Workers => Standing(w)',
         \A r \in Runs : OneCandidate(r)' /\ DomainSucceeded(r)',
         ConfirmedIsApplied', AppliedIsBegun',
         w \in Workers /\ worker'[w].at \in Executors =>
           \A v \in Workers \ {w} :
             worker[v].at \in Executors => worker[v].lease # worker'[w].lease
  PROVE  WorkflowInv'
<1>1. Inv'
  BY InvNext DEF WorkflowInv
<1>2. \A v \in Workers : Standing(v)'
  BY StandingLasts
<1>3. OneExecutorPerLease'
  <2>1. SUFFICES ASSUME NEW u \in Workers, NEW v \in Workers, u # v,
                        worker'[u].at \in Executors, worker'[v].at \in Executors
                 PROVE  worker'[u].lease # worker'[v].lease
    BY DEF OneExecutorPerLease, Executors
  <2>2. CASE u = w
    BY <2>1, <2>2
  <2>3. CASE v = w
    BY <2>1, <2>3
  <2>4. CASE u # w /\ v # w
    <3>1. worker'[u] = worker[u] /\ worker'[v] = worker[v]
      BY <2>4
    <3> QED
      BY <2>1, <3>1 DEF WorkflowInv, OneExecutorPerLease, Executors
  <2> QED
    BY <2>2, <2>3, <2>4
<1> QED
  BY <1>1, <1>2, <1>3 DEF WorkflowInv

(* Without a change of the workflows, the candidates stay what they are if *)
(* the ledger is told of nothing else.                                     *)
LEMMA CandidatesLast ==
  ASSUME WorkflowInv, [StoreNext]_storeVars, outer' = outer,
         \A r \in Runs, k \in Keys : effects'[r][k].status # "ABSENT" =>
           \/ effects[r][k].status # "ABSENT"
           \/ /\ outer[r].step \in {"apply", "verify"}
              /\ effects'[r][k].request = outer[r].patch
              /\ k = KeyOf[outer[r].patch]
  PROVE  \A r \in Runs : OneCandidate(r)' /\ DomainSucceeded(r)'
<1>1. SUFFICES ASSUME NEW r \in Runs PROVE OneCandidate(r)' /\ DomainSucceeded(r)'
  OBVIOUS
<1>2. StoreGrows /\ OneCandidate(r) /\ DomainSucceeded(r)
  BY StoreOnlyGrows DEF WorkflowInv
<1>3. OneCandidate(r)'
  <2>1. ASSUME NEW k \in Keys, effects'[r][k].status # "ABSENT"
        PROVE  /\ outer[r].step \in {"apply", "verify"}
               /\ effects'[r][k].request = outer[r].patch
               /\ k = KeyOf[outer[r].patch]
    BY <1>2, <2>1 DEF OneCandidate, StoreGrows
  <2>2. ASSUME outer[r].step = "verify"
        PROVE  effects'[r][KeyOf[outer[r].patch]].status = "SUCCEEDED"
    BY <1>2, <2>2, KeysTyped DEF OneCandidate, StoreGrows
  <2> QED
    BY <1>2, <2>1, <2>2 DEF OneCandidate
<1>4. DomainSucceeded(r)'
  <2>1. ASSUME runs[r].status = "SUCCEEDED" PROVE runs'[r] = runs[r]
    BY <2>1, EndedRunFrozen DEF WorkflowInv, Frozen, Terminal
  <2> QED
    BY <1>2, <2>1 DEF DomainSucceeded
<1> QED
  BY <1>3, <1>4

(* A step that leaves ledger, worktrees and workflows alone, and after     *)
(* which w executes nothing.                                               *)
LEMMA QuietKeeps ==
  ASSUME WorkflowInv, NEW w, [StoreNext]_storeVars, outer' = outer,
         tree' = tree, effects' = effects, worker' \in [Workers -> Worker(Places)],
         \A v \in Workers \ {w} : worker'[v] = worker[v],
         w \in Workers => Standing(w)' /\ worker'[w].at \notin Executors
  PROVE  WorkflowInv'
<1>1. AttemptsTyped' /\ TreesGrow
  BY DEF WorkflowInv, AttemptsTyped, TreesGrow
<1>2. OuterKept(w)
  BY DEF OuterKept
<1>3. \A v \in Workers : LeftToExecute(v)
  BY DEF LeftToExecute
<1>4. \A r \in Runs : OneCandidate(r)' /\ DomainSucceeded(r)'
  BY CandidatesLast
<1>5. ConfirmedIsApplied' /\ AppliedIsBegun'
  BY DEF WorkflowInv, ConfirmedIsApplied, AppliedIsBegun
<1> QED
  BY <1>1, <1>2, <1>3, <1>4, <1>5, StepKeeps

-----------------------------------------------------------------------------
(* Where w stands after its step.                                          *)

(* In the apply and the verify step a process works on the candidate.      *)
LEMMA OnCandidate ==
  ASSUME WorkflowInv, NEW w \in Workers, worker[w].at \in ApplyPlaces \cup VerifyPlaces
  PROVE  /\ RunOf(w) \in Runs /\ ~At(w, "idle")
         /\ worker[w].patch \in Requests /\ worker[w].patch = outer[RunOf(w)].patch
         /\ KeyOf[worker[w].patch] \in Keys
         /\ Knows(w, KeyOf[worker[w].patch])
         /\ worker[w].at \in Leasing => Leased(w)
<1>1. Standing(w) /\ ~At(w, "idle")
  BY DEF WorkflowInv, ApplyPlaces, VerifyPlaces, ApplySteps, VerifySteps, At
<1>2. /\ RunOf(w) \in Runs /\ outer[RunOf(w)].step \in {"apply", "verify"}
      /\ worker[w].patch = outer[RunOf(w)].patch
  BY <1>1 DEF Standing
<1>3. worker[w].patch \in Requests
  BY <1>2 DEF WorkflowInv, OneCandidate
<1>4. KeyOf[worker[w].patch] \in Keys
  BY <1>3, KeysTyped
<1> QED
  BY <1>1, <1>2, <1>3, <1>4 DEF Standing

(* Nothing is asked of a process that is idle or whose step raised.        *)
LEMMA RaisedStands ==
  ASSUME NEW w \in Workers, worker'[w].at \in {"idle", "raised"},
         worker'[w].at = "raised" => worker'[w].run \in Runs
  PROVE  Standing(w)'
<1>1. \A k \in Keys : Knows(w, k)'
  BY NothingKnown DEF Executing, Verifying, VerifySteps
<1>2. worker'[w].at \notin Leasing \cup ApplyPlaces \cup VerifyPlaces \cup Executors
                         \cup ReproducePlaces \cup RepairPlaces
  BY DEF Leasing, ApplyPlaces, VerifyPlaces, Executors, ReproducePlaces, RepairPlaces,
     ApplySteps, VerifySteps
<1> QED
  BY <1>1, <1>2 DEF Standing, ExecutesStarted, Brings, At, RunOf

(* A process goes on within the apply or the verify step.                  *)
LEMMA MovedStands ==
  ASSUME WorkflowInv, [StoreNext]_storeVars, outer' = outer, NEW w \in Workers,
         worker[w].at \in Leasing, NEW place \in Leasing, Moves(w, Places, place),
         place \in ApplyPlaces <=> worker[w].at \in ApplyPlaces,
         Knows(w, KeyOf[worker[w].patch])', ExecutesStarted(w)'
  PROVE  Standing(w)'
<1>1. StoreGrows /\ Standing(w) /\ Leased(w) /\ RunOf(w) \in Runs
  BY OnCandidate, StoreOnlyGrows DEF WorkflowInv, Leasing
<1>2. /\ worker'[w].at = place /\ worker'[w].run = worker[w].run
      /\ worker'[w].lease = worker[w].lease /\ worker'[w].patch = worker[w].patch
      /\ RunOf(w)' = RunOf(w)
  BY DEF Moves, RunOf
<1>3. Leased(w)'
  BY <1>1, <1>2 DEF Leased, StoreGrows
<1>4. /\ place \in VerifyPlaces => worker[w].at \in VerifyPlaces
      /\ place \notin ReproducePlaces \cup RepairPlaces \cup {"returned", "idle"}
      /\ worker[w].at # "idle"
      /\ worker[w].at \in ApplyPlaces \cup VerifyPlaces
  BY DEF Leasing, ApplyPlaces, VerifyPlaces, ReproducePlaces, RepairPlaces,
     ApplySteps, VerifySteps, Acquiring
<1>5. ~At(w, "idle")' /\ ~At(w, "idle")
  BY <1>2, <1>4 DEF At
<1>6. ~At(w, "idle") /\ IsCurrent(w)' => Brings(w)'
  BY <1>1, <1>2, <1>4, <1>5 DEF Standing, Brings, IsCurrent
<1>7. \A k \in Keys : k = KeyOf[worker'[w].patch] => Knows(w, k)'
  BY <1>2
<1> QED
  BY <1>1, <1>2, <1>3, <1>4, <1>5, <1>6, <1>7 DEF Standing

-----------------------------------------------------------------------------
(* The steps of an attempt.                                                *)

(* Nobody else's execution is touched by apply_patch, and nobody joins an  *)
(* execution that goes on.                                                 *)
LEMMA ExecutionsExclude ==
  ASSUME WorkflowInv, NEW w \in Workers, worker[w].at \in ApplySteps,
         NEW k \in Keys, k = KeyOf[worker[w].patch], LedgerKept(w, k),
         worker'[w].lease = worker[w].lease, NEW v \in Workers \ {w}
  PROVE  /\ LeftToExecute(v)
         /\ worker'[w].at \in Executors /\ worker[v].at \in Executors =>
              worker[v].lease # worker'[w].lease
<1> DEFINE l == worker[w].lease
           r == RunOf(w)
<1>1. /\ l \in leases /\ l.run = r /\ r \in Runs
      /\ worker[w].patch = outer[r].patch
  BY OnCandidate DEF Leasing, ApplyPlaces, ApplySteps, Acquiring, Leased
<1>2. SUFFICES ASSUME worker[v].at \in Executors
               PROVE  /\ LeftToExecute(v)
                      /\ worker'[w].at \in Executors => worker[v].lease # l
  BY DEF LeftToExecute
<1>3. /\ worker[v].lease \in leases /\ worker[v].lease.run = RunOf(v)
      /\ RunOf(v) \in Runs /\ worker[v].patch = outer[RunOf(v)].patch
      /\ KeyOf[worker[v].patch] \in Keys
      /\ ExecutesStarted(v)
  BY <1>2, OnCandidate
     DEF Executors, ApplyPlaces, ApplySteps, Leasing, Acquiring, Leased, WorkflowInv, Standing
<1>4. worker[w].at \in Executors => worker[v].lease # l
  BY <1>2 DEF WorkflowInv, OneExecutorPerLease, Executors
<1>5. ASSUME worker[v].lease = l, runs[r].fence_token = l.fence
      PROVE  effects[r][k].status = "STARTED" /\ effects[r][k].fence_token = l.fence
  BY <1>1, <1>2, <1>3, <1>5 DEF ExecutesStarted
<1>6. LeftToExecute(v)
  <2>1. SUFFICES ASSUME RunOf(v) = r, runs[r].fence_token = worker[v].lease.fence,
                        effects'[r][k] # effects[r][k]
                 PROVE  FALSE
    BY <1>1, <1>3 DEF LeftToExecute, LedgerKept
  <2>2. runs[r].fence_token = l.fence
    BY <2>1 DEF LedgerKept
  <2>3. worker[v].lease = l
    <3>1. OneHolderPerToken
      BY DEF WorkflowInv, Inv
    <3> QED
      BY <1>1, <1>3, <2>1, <2>2, <3>1 DEF OneHolderPerToken
  <2>4. worker[w].at \in {"confirm", "disconfirm"}
    BY <1>5, <2>1, <2>2, <2>3 DEF LedgerKept
  <2> QED
    BY <1>4, <2>3, <2>4 DEF Executors
<1>7. ASSUME worker'[w].at \in Executors, worker[v].lease = l PROVE FALSE
  <2>1. ~At(w, "git apply")
    BY <1>4, <1>7 DEF At, Executors
  <2> QED
    BY <1>5, <1>7, <2>1 DEF LedgerKept
<1> QED
  BY <1>6, <1>7

(* apply_patch.                                                            *)
LEMMA ApplyPatchKeeps ==
  ASSUME WorkflowInv, NEW w \in Workers, outer' = outer,
         ApplyPatch(w, KeyOf[worker[w].patch], "returned")
  PROVE  WorkflowInv'
<1> DEFINE r == RunOf(w)
           l == worker[w].lease
<1>1. worker[w].at \in ApplySteps
  BY DEF ApplyPatch, BeginApply, GitApply, GitApplyKilled, ConfirmApply, DisconfirmApply,
     ReverseCheck, ReconcileApply, At, ApplySteps
<1>2. /\ r \in Runs /\ worker[w].patch \in Requests
      /\ worker[w].patch = outer[r].patch
      /\ Leased(w) /\ worker[w].at \in Leasing /\ worker[w].at \in ApplyPlaces
  BY <1>1, OnCandidate DEF ApplyPlaces, Leasing, ApplySteps, Acquiring
<1>3. PICK k \in Keys : k = KeyOf[worker[w].patch]
  BY <1>2, KeysTyped
<1>4. Knows(w, k) /\ Standing(w)
  BY <1>2, <1>3, OnCandidate DEF WorkflowInv
<1>5. Advances(w, k, Places, "returned")
  BY <1>2, <1>3, <1>4, PlacesTyped, ApplyPatchAdvances DEF WorkflowInv
<1>6. PICK place \in ApplySteps \cup {"returned", "raised"} : Moves(w, Places, place)
  <2>1. worker'[w].at \in ApplySteps \cup {"returned", "raised"}
    BY PlacesTyped, ApplyPatchPlaces DEF WorkflowInv
  <2>2. PICK place : Moves(w, Places, place)
    BY <1>5 DEF Advances
  <2> QED
    BY <2>1, <2>2 DEF Moves
<1>7. LedgerKept(w, k)
  BY <1>2, <1>3, <1>4, PlacesTyped, ApplyKeepsLedger DEF WorkflowInv, Executors
<1>8. /\ worker'[w].at = place /\ worker'[w].run = worker[w].run
      /\ worker'[w].lease = worker[w].lease /\ worker'[w].patch = worker[w].patch
      /\ RunOf(w)' = r
      /\ \A v \in Workers \ {w} : worker'[v] = worker[v]
  BY <1>6 DEF Moves, RunOf
<1>9. StoreGrows /\ TreesGrow /\ Honest(w, k) /\ [StoreNext]_storeVars /\ Uneventful
  BY <1>5, StoreOnlyGrows DEF Advances, WorkflowInv
<1>10. ConfirmedIsApplied' /\ AppliedIsBegun'
  BY <1>2, <1>9, AgreementLasts DEF WorkflowInv
<1>11. AttemptsTyped'
  BY <1>5, <1>6 DEF WorkflowInv, AttemptsTyped, Advances, Moves
<1>12. ExecutesStarted(w)'
  <2>1. SUFFICES ASSUME worker'[w].at \in Executors, runs'[r].fence_token = l.fence
                 PROVE  effects'[r][k].status = "STARTED"
                        /\ effects'[r][k].fence_token = l.fence
    BY <1>3, <1>8 DEF ExecutesStarted
  <2>2. runs[r].fence_token = l.fence
    BY <1>2, <1>9, <2>1 DEF Uneventful
  <2>3. CASE effects'[r][k] = effects[r][k] /\ At(w, "git apply")
    BY <1>3, <1>4, <2>2, <2>3 DEF Standing, ExecutesStarted, Executors, At
  <2> QED
    BY <1>7, <2>1, <2>3 DEF LedgerKept
<1>13. Standing(w)'
  <2>1. CASE place \in ApplySteps
    <3>1. /\ place \in Leasing /\ place \in ApplyPlaces
          /\ Knows(w, KeyOf[worker[w].patch])'
      BY <1>3, <1>5, <1>8, <2>1 DEF Leasing, ApplyPlaces, ApplySteps, Acquiring, Advances
    <3> QED
      BY <1>2, <1>6, <1>9, <1>12, <3>1, MovedStands
  <2>2. CASE place = "raised"
    BY <1>2, <1>8, <2>2, RaisedStands DEF RunOf
  <2>3. CASE place = "returned"
    <3>1. /\ effects'[r][k].status = "SUCCEEDED"
          /\ \A j \in Keys : j = KeyOf[worker'[w].patch] => Knows(w, j)'
      BY <1>3, <1>5, <1>8, <2>3 DEF Advances, Confirmed
    <3>2. worker'[w].at \notin Leasing \cup ApplyPlaces \cup VerifyPlaces \cup Executors
                               \cup ReproducePlaces \cup RepairPlaces
      BY <1>8, <2>3 DEF Leasing, ApplyPlaces, VerifyPlaces, Executors,
         ReproducePlaces, RepairPlaces, ApplySteps, VerifySteps
    <3>3. ASSUME IsCurrent(w)' PROVE Brings(w)'
      <4>1. outer[r].step = "apply"
        BY <1>2, <1>4, <1>8, <3>3, OnCandidate DEF Standing, IsCurrent, Brings
      <4> QED
        BY <1>2, <1>3, <1>8, <3>1, <3>2, <4>1 DEF Brings
    <3> QED
      BY <1>2, <1>8, <3>1, <3>2, <3>3 DEF Standing, ExecutesStarted
  <2> QED
    BY <2>1, <2>2, <2>3
<1>14. \A s \in Runs : OneCandidate(s)' /\ DomainSucceeded(s)'
  <2>1. \A s \in Runs, j \in Keys : effects'[s][j].status # "ABSENT" =>
           \/ effects[s][j].status # "ABSENT"
           \/ /\ outer[s].step \in {"apply", "verify"}
              /\ effects'[s][j].request = outer[s].patch
              /\ j = KeyOf[outer[s].patch]
    <3>1. outer[r].step \in {"apply", "verify"}
      BY <1>2, <1>4 DEF Standing
    <3>2. \A s \in Runs, j \in Keys : s # r \/ j # k => effects'[s][j] = effects[s][j]
      BY <1>7 DEF LedgerKept
    <3>3. effects'[r][k] = effects[r][k] \/ effects'[r][k].request = worker[w].patch
      BY <1>7 DEF LedgerKept
    <3> QED
      BY <1>2, <1>3, <3>1, <3>2, <3>3
  <2> QED
    BY <1>9, <2>1, CandidatesLast
<1>15. \A v \in Workers \ {w} :
         /\ LeftToExecute(v)
         /\ worker'[w].at \in Executors /\ worker[v].at \in Executors =>
              worker[v].lease # worker'[w].lease
  BY <1>1, <1>3, <1>7, <1>8, ExecutionsExclude
<1>16. OuterKept(w)
  BY DEF OuterKept
<1> QED
  BY <1>8, <1>9, <1>10, <1>11, <1>13, <1>14, <1>15, <1>16, StepKeeps

(* A quiet step after which w is idle or at an exception.                  *)
LEMMA RaisedKeeps ==
  ASSUME WorkflowInv, NEW w \in Workers, [StoreNext]_storeVars,
         UNCHANGED <<outer, tree, effects>>, worker' \in [Workers -> Worker(Places)],
         \A v \in Workers \ {w} : worker'[v] = worker[v],
         worker'[w].at \in {"idle", "raised"},
         worker'[w].at = "raised" => worker'[w].run \in Runs
  PROVE  WorkflowInv'
<1>1. Standing(w)' /\ worker'[w].at \notin Executors
  BY RaisedStands DEF Executors
<1> QED
  BY <1>1, QuietKeeps

(* A process outside apply and verify, or one whose step returned.         *)
LEMMA OutsideStands ==
  ASSUME NEW w \in Workers,
         worker'[w].at \in ReproducePlaces \cup RepairPlaces \cup {"returned"},
         worker'[w].run \in Runs, IsCurrent(w)' => Brings(w)'
  PROVE  Standing(w)' /\ worker'[w].at \notin Executors
<1>1. \A k \in Keys : Knows(w, k)'
  BY NothingKnown
     DEF Executing, Verifying, VerifySteps, ReproducePlaces, RepairPlaces
<1>2. worker'[w].at \notin Leasing \cup ApplyPlaces \cup VerifyPlaces \cup Executors
  BY DEF Leasing, ApplyPlaces, VerifyPlaces, Executors, ReproducePlaces, RepairPlaces,
     ApplySteps, VerifySteps
<1> QED
  BY <1>1, <1>2 DEF Standing, ExecutesStarted, At, RunOf

(* A quiet step within the apply or the verify step.                       *)
LEMMA MovedKeeps ==
  ASSUME WorkflowInv, NEW w \in Workers, [StoreNext]_storeVars,
         UNCHANGED <<outer, tree, effects>>,
         worker[w].at \in Leasing, NEW place \in Leasing \ Executors,
         Moves(w, Places, place),
         place \in ApplyPlaces <=> worker[w].at \in ApplyPlaces,
         Knows(w, KeyOf[worker[w].patch])'
  PROVE  WorkflowInv'
<1>1. worker'[w].at \notin Executors
  BY DEF Moves
<1>2. ExecutesStarted(w)'
  BY <1>1 DEF ExecutesStarted
<1>3. Standing(w)'
  BY <1>2, MovedStands
<1> QED
  BY <1>1, <1>3, QuietKeeps DEF Moves

(* The reproduce and the repair step.                                      *)
LEMMA OutsideKeeps ==
  ASSUME WorkflowInv, NEW w \in Workers, outer' = outer,
         CheckHead(w) \/ Reproduce(w) \/ Propose(w)
  PROVE  WorkflowInv'
<1>1. /\ Typed(Places) /\ worker[w] \in Worker(Places) /\ w \in DOMAIN worker
      /\ Standing(w) /\ UNCHANGED <<storeVars, tree>>
  BY PlacesTyped DEF WorkflowInv, Typed, CheckHead, Reproduce, Propose
<1>2. /\ worker[w].at \in ReproducePlaces \cup RepairPlaces /\ ~At(w, "idle")
      /\ RunOf(w) \in Runs
  BY <1>1 DEF CheckHead, Reproduce, Propose, At, Standing, ReproducePlaces, RepairPlaces
<1>3. /\ [StoreNext]_storeVars /\ effects' = effects /\ tree' = tree
  BY <1>1, StoreLeftAlone
<1>4. CASE Raise(w, "error")
  <2>1. Moves(w, Places, "raised")
    BY <1>1, <1>4, RaiseMoves, EvidenceAssumption
  <2> QED
    BY <1>2, <1>3, <2>1, RaisedKeeps DEF Moves, RunOf
<1>5. ASSUME NEW place \in {"run test", "returned"}, Goto(w, place),
             (At(w, "head") /\ place = "run test") \/ At(w, "run test")
      PROVE  WorkflowInv'
  <2>1. Moves(w, Places, place)
    BY <1>1, <1>5, GotoMoves DEF Places, Commands
  <2>2. ASSUME IsCurrent(w)' PROVE Brings(w)'
    <3>1. outer[RunOf(w)].step = "reproduce" /\ RunOf(w)' = RunOf(w)
      BY <1>1, <1>2, <1>5, <2>1, <2>2
         DEF Standing, IsCurrent, Brings, At, ReproducePlaces, Moves, RunOf
    <3> QED
      BY <1>5, <2>1, <3>1
         DEF Brings, Moves, RepairPlaces, ApplyPlaces, ApplySteps
  <2>3. Standing(w)' /\ worker'[w].at \notin Executors
    BY <1>2, <1>5, <2>1, <2>2, OutsideStands DEF Moves, RunOf, ReproducePlaces
  <2> QED
    BY <1>3, <2>1, <2>3, QuietKeeps DEF Moves
<1>6. CASE Propose(w)
  <2>1. PICK patch \in Requests :
          worker' = [worker EXCEPT ![w].at = "returned", ![w].patch = patch]
    BY <1>6 DEF Propose
  <2> DEFINE new == [worker[w] EXCEPT !.at = "returned", !.patch = patch]
  <2>2. /\ new \in Worker(Places) /\ new.at = "returned" /\ new.run = worker[w].run
        /\ new.patch = patch
    BY <1>1 DEF Worker, Places
  <2>3. worker' = [worker EXCEPT ![w] = new]
    BY <2>1
  <2> HIDE DEF new
  <2>4. /\ worker' \in [Workers -> Worker(Places)] /\ worker'[w] = new
        /\ \A v \in Workers \ {w} : worker'[v] = worker[v]
    BY <1>1, <2>2, <2>3, OneMoves
  <2>5. ASSUME IsCurrent(w)' PROVE Brings(w)'
    <3>1. outer[RunOf(w)].step = "repair" /\ RunOf(w)' = RunOf(w)
      BY <1>1, <1>2, <1>6, <2>2, <2>4, <2>5
         DEF Standing, IsCurrent, Brings, At, RepairPlaces, RunOf, Propose
    <3> QED
      BY <2>2, <2>4, <3>1
         DEF Brings, ReproducePlaces, RepairPlaces, ApplyPlaces, ApplySteps
  <2>6. Standing(w)' /\ worker'[w].at \notin Executors
    BY <1>2, <2>2, <2>4, <2>5, OutsideStands DEF RunOf
  <2> QED
    BY <1>3, <2>4, <2>6, QuietKeeps
<1> QED
  BY <1>4, <1>5, <1>6 DEF CheckHead, Reproduce

(* acquire_run gives w a lease of its run, new or live, or an exception.   *)
LEMMA AcquireKeeps ==
  ASSUME WorkflowInv, NEW w \in Workers, outer' = outer, NEW here, NEW next,
         \/ here = "acquire for apply" /\ next = "apply"
         \/ here = "acquire for verify" /\ next = "verify",
         Acquire(w, here, next)
  PROVE  WorkflowInv'
<1>1. /\ Typed(Places) /\ worker[w] \in Worker(Places) /\ w \in DOMAIN worker
      /\ Standing(w) /\ tree' = tree /\ At(w, here)
  BY PlacesTyped DEF WorkflowInv, Typed, Acquire
<1>2. worker[w].at \in ApplyPlaces \cup VerifyPlaces
  BY <1>1 DEF At, ApplyPlaces, VerifyPlaces
<1>3. PICK r \in Runs : r = RunOf(w)
  BY <1>2, OnCandidate
<1>4. PICK owner \in Owners : owner = OwnerOf[r]
  BY WorkflowAssumption
<1> DEFINE l == [run |-> r, owner |-> owner, fence |-> runs'[r].fence_token]
           new == [worker[w] EXCEPT !.at = next, !.lease = l]
<1>5. PICK now \in ClockReads :
        \/ /\ AcquireRun(r, owner, now) \/ ReenterRun(r, owner, now)
           /\ worker' = [worker EXCEPT ![w].at = next, ![w].lease = l]
        \/ /\ AcquireRefused(r, owner, now)
           /\ Raise(w, "error")
           /\ UNCHANGED storeVars
  BY <1>3, <1>4 DEF Acquire, ReadsOf
<1>6. CASE Raise(w, "error") /\ UNCHANGED storeVars
  <2>1. Moves(w, Places, "raised")
    BY <1>1, <1>6, RaiseMoves, EvidenceAssumption
  <2>2. [StoreNext]_storeVars /\ effects' = effects
    BY <1>6, StoreLeftAlone
  <2> QED
    BY <1>1, <1>3, <2>1, <2>2, RaisedKeeps DEF Moves, RunOf
<1>7. CASE /\ AcquireRun(r, owner, now) \/ ReenterRun(r, owner, now)
           /\ worker' = [worker EXCEPT ![w].at = next, ![w].lease = l]
  <2>1. StoreNext
    BY <1>7 DEF StoreNext, ClaimStep
  <2>2. Inv' /\ StoreGrows
    BY <2>1, InvNext, StoreOnlyGrows DEF WorkflowInv
  <2>3. effects' = effects
    BY <1>7 DEF AcquireRun, Grant, ReenterRun
  <2>4. l \in leases'
    <3>1. CASE AcquireRun(r, owner, now)
      <4>1. runs'[r].fence_token = NextToken(runs[r])
        BY <3>1, ClockReadsType, GrantWrites
           DEF AcquireRun, WorkflowInv, Inv, IInv, Writes, NextToken
      <4> QED
        BY <3>1, <4>1 DEF AcquireRun, Grant
    <3>2. CASE ReenterRun(r, owner, now)
      BY <3>2 DEF ReenterRun
    <3> QED
      BY <1>7, <3>1, <3>2
  <2>5. l.run = r
    OBVIOUS
  <2>6. worker' = [worker EXCEPT ![w] = new]
    BY <1>7
  <2> HIDE DEF l
  <2>7. l \in Lease
    <3>1. TypeOK'
      BY <2>2 DEF Inv, IInv
    <3>2. leases' \subseteq Lease
      BY <3>1 DEF TypeOK
    <3> QED
      BY <2>4, <3>2
  <2>8. /\ new \in Worker(Places) /\ new.at = next /\ new.run = r /\ new.lease = l
        /\ new.patch = worker[w].patch
    <3>1. next \in Places
      BY DEF Places, StoreCalls
    <3>2. new \in Worker(Places)
      BY <1>1, <2>7, <3>1 DEF Worker
    <3>3. new.at = next /\ new.lease = l
      BY <1>1 DEF Worker
    <3>4. new.run = r /\ new.patch = worker[w].patch
      <4>1. new.run = worker[w].run /\ new.patch = worker[w].patch
        BY <1>1 DEF Worker
      <4> QED
        BY <1>3, <4>1 DEF RunOf
    <3> QED
      BY <3>2, <3>3, <3>4
  <2> HIDE DEF new
  <2>9. /\ worker' \in [Workers -> Worker(Places)] /\ worker'[w] = new
        /\ \A v \in Workers \ {w} : worker'[v] = worker[v]
    BY <1>1, <2>6, <2>8, OneMoves
  <2>10. worker'[w].at = next /\ worker'[w].run = r /\ worker'[w].patch = worker[w].patch
    BY <2>8, <2>9
  <2>11. Leased(w)'
    BY <2>4, <2>5, <2>8, <2>9 DEF Leased, RunOf
  <2>12. /\ worker'[w].at \notin Executors \cup ReproducePlaces \cup RepairPlaces
         /\ worker'[w].at \notin {"returned", "idle"}
         /\ worker'[w].at \in ApplyPlaces <=> here = "acquire for apply"
         /\ worker'[w].at \in VerifyPlaces <=> here = "acquire for verify"
    BY <2>10 DEF Executors, ReproducePlaces, RepairPlaces, ApplyPlaces, VerifyPlaces,
       ApplySteps, VerifySteps
  <2>13. /\ worker[w].patch \in Requests /\ worker[w].patch = outer[r].patch
         /\ outer[r].step \in {"apply", "verify"}
         /\ here = "acquire for verify" => outer[r].step = "verify"
    BY <1>1, <1>2, <1>3, OnCandidate DEF Standing, At, VerifyPlaces
  <2>14. PICK k \in Keys : k = KeyOf[worker[w].patch]
    BY <2>13, KeysTyped
  <2>15. Knows(w, k)'
    <3>1. CASE next = "apply"
      BY <2>10, <2>13, <3>1
         DEF Knows, Executing, Verifying, VerifySteps, Tested, Judged, Measured
    <3>2. CASE next = "verify"
      <4>1. outer[r].step = "verify"
        BY <2>13, <3>2
      <4>2. effects[r][k].status = "SUCCEEDED" /\ effects[r][k].request = worker[w].patch
        BY <2>13, <2>14, <4>1 DEF WorkflowInv, OneCandidate
      <4>3. Confirmed(w, k)'
        BY <2>3, <2>10, <2>13, <4>2 DEF Confirmed, Asked, RunOf
      <4> QED
        BY <2>10, <3>2, <4>3
           DEF Knows, Executing, Verifying, VerifySteps, Tested, Judged, Measured
    <3> QED
      BY <3>1, <3>2
  <2>16. ASSUME IsCurrent(w)' PROVE Brings(w)'
    <3>1. IsCurrent(w) /\ ~At(w, "idle")
      BY <1>1, <1>3, <2>10, <2>16 DEF IsCurrent, RunOf, At
    <3>2. Brings(w)
      BY <1>1, <3>1 DEF Standing
    <3>3. here = "acquire for apply" => outer[r].step = "apply"
      BY <1>1, <1>3, <3>2 DEF Brings, ApplyPlaces, At
    <3> QED
      BY <2>10, <2>12, <3>3 DEF Brings, RunOf
  <2>17. Standing(w)'
    BY <2>10, <2>11, <2>12, <2>13, <2>14, <2>15, <2>16
       DEF Standing, ExecutesStarted, RunOf, At
  <2> QED
    BY <1>1, <2>1, <2>3, <2>9, <2>12, <2>17, QuietKeeps
<1> QED
  BY <1>5, <1>6, <1>7

(* advance_stage, and the measurements.                                    *)
LEMMA AdvanceKeeps ==
  ASSUME WorkflowInv, NEW w \in Workers, outer' = outer,
         \/ EnterStage(w, "apply", "apply", "begin")
         \/ EnterStage(w, "verify", "verify", "verification")
         \/ Verification(w) \/ Acceptance(w) \/ TakeFingerprint(w) \/ Record(w)
  PROVE  WorkflowInv'
<1>1. Typed(Places) /\ "verify" \in Places
  BY PlacesTyped DEF WorkflowInv, Places, StoreCalls
<1>2. worker[w].at \in Leasing
  BY DEF EnterStage, Verification, Acceptance, TakeFingerprint, Record, At, Leasing,
     ApplyPlaces, VerifyPlaces, ApplySteps, VerifySteps, Acquiring
<1>3. worker[w].at \in ApplyPlaces \cup VerifyPlaces
  BY <1>2 DEF Leasing
<1>4. PICK k \in Keys : k = KeyOf[worker[w].patch]
  BY <1>3, OnCandidate
<1>5. Leased(w) /\ Knows(w, k)
  BY <1>2, <1>3, <1>4, OnCandidate
<1>6. ASSUME Advances(w, k, Places, "verify"), effects' = effects, tree' = tree,
             worker'[w].at \in Leasing \ Executors,
             worker'[w].at \in ApplyPlaces <=> worker[w].at \in ApplyPlaces
      PROVE  WorkflowInv'
  BY <1>2, <1>4, <1>6, MovedKeeps DEF Advances, Moves
<1>7. CASE EnterStage(w, "apply", "apply", "begin")
  <2>1. Advances(w, k, Places, "verify")
    BY <1>1, <1>5, <1>7, EnterStageAdvances, WorkspaceAssumption DEF WorkflowInv, ApplySteps
  <2>2. worker[w].at = "apply" /\ worker'[w].at = "begin" /\ tree' = tree
    BY <1>1, <1>7, Leads DEF EnterStage, At
  <2>3. effects' = effects
    BY <1>7 DEF EnterStage, AdvanceStage
  <2> QED
    BY <1>6, <2>1, <2>2, <2>3
       DEF Leasing, Executors, ApplyPlaces, VerifyPlaces, ApplySteps, Acquiring
<1>8. CASE EnterStage(w, "verify", "verify", "verification")
  <2>1. Advances(w, k, Places, "verify")
    BY <1>1, <1>5, <1>8, EnterStageAdvances, WorkspaceAssumption DEF WorkflowInv, VerifySteps
  <2>2. worker[w].at = "verify" /\ worker'[w].at = "verification" /\ tree' = tree
    BY <1>1, <1>8, Leads DEF EnterStage, At
  <2>3. effects' = effects
    BY <1>8 DEF EnterStage, AdvanceStage
  <2> QED
    BY <1>6, <2>1, <2>2, <2>3
       DEF Leasing, Executors, ApplyPlaces, VerifyPlaces, ApplySteps, VerifySteps, Acquiring
<1>9. CASE Verification(w) \/ Acceptance(w) \/ TakeFingerprint(w)
  <2>1. Advances(w, k, Places, "verify")
    BY <1>1, <1>5, <1>9, MeasureAdvances DEF WorkflowInv
  <2>2. worker'[w].at \in {"acceptance", "fingerprint", "record"}
    BY <1>1, <1>9, MeasurePlaces
  <2>3. /\ effects' = effects /\ tree' = tree
        /\ worker[w].at \in {"verification", "acceptance", "fingerprint"}
    BY <1>9 DEF Verification, Acceptance, TakeFingerprint, At, storeVars
  <2> QED
    BY <1>6, <2>1, <2>2, <2>3
       DEF Leasing, Executors, ApplyPlaces, VerifyPlaces, ApplySteps, VerifySteps, Acquiring
<1>10. CASE Record(w)
  <2>1. Advances(w, k, Places, "verify") /\ worker'[w].at = "judge"
    BY <1>1, <1>5, <1>10, RecordAdvances DEF WorkflowInv
  <2>2. effects' = effects /\ tree' = tree /\ worker[w].at = "record"
    BY <1>10 DEF Record, RecordCheckpoint, At
  <2> QED
    BY <1>6, <2>1, <2>2
       DEF Leasing, Executors, ApplyPlaces, VerifyPlaces, ApplySteps, VerifySteps, Acquiring
<1> QED
  BY <1>7, <1>8, <1>9, <1>10

(* Judging: on to completion only with what passed, else to the end of the *)
(* domain run.                                                             *)
LEMMA JudgeKeeps ==
  ASSUME WorkflowInv, NEW w \in Workers, outer' = outer, Judge(w)
  PROVE  WorkflowInv'
<1>1. /\ Typed(Places) /\ worker[w] \in Worker(Places) /\ w \in DOMAIN worker
      /\ worker[w].at = "judge" /\ UNCHANGED <<storeVars, tree>>
  BY PlacesTyped DEF WorkflowInv, Typed, Judge, At
<1>2. /\ worker[w].at \in Leasing /\ worker[w].at \in ApplyPlaces \cup VerifyPlaces
      /\ worker[w].at \notin ApplyPlaces
      /\ "complete" \in Leasing \ Executors /\ "complete" \notin ApplyPlaces
      /\ "failed" \in Leasing \ Executors /\ "failed" \notin ApplyPlaces
      /\ "complete" \in Places /\ "failed" \in Places
  BY <1>1 DEF Leasing, ApplyPlaces, VerifyPlaces, ApplySteps, VerifySteps, Acquiring,
     Executors, Places, StoreCalls
<1>3. PICK k \in Keys : k = KeyOf[worker[w].patch]
  BY <1>2, OnCandidate
<1>4. Leased(w) /\ Knows(w, k) /\ RunOf(w) \in Runs
  BY <1>2, <1>3, OnCandidate
<1>5. /\ [StoreNext]_storeVars /\ effects' = effects /\ tree' = tree
      /\ StoreGrows /\ TreesGrow
  BY <1>1, StoreLeftAlone, StoreOnlyGrows DEF WorkflowInv, TreesGrow
<1>6. CASE Goto(w, "complete") /\ worker[w].tests /\ worker[w].acceptance # FALSE
  <2>1. Moves(w, Places, "complete") /\ Remembers(w)
    BY <1>1, <1>2, <1>6, GotoMoves
  <2>2. /\ worker'[w].at = "complete" /\ worker'[w].run = worker[w].run
        /\ worker'[w].patch = worker[w].patch
        /\ worker'[w].tests = worker[w].tests
        /\ worker'[w].acceptance = worker[w].acceptance
        /\ worker'[w].source = worker[w].source
    BY <2>1 DEF Moves, Remembers
  <2>3. /\ Confirmed(w, k)' /\ (Passes(w) => Passes(w)')
        /\ PassesAcceptance(w) => PassesAcceptance(w)'
    BY <1>1, <1>4, <1>5, <2>2, FactsLast DEF Knows, Verifying, VerifySteps
  <2>4. /\ worker[w].tests \in BOOLEAN /\ (worker[w].tests => Passes(w))
        /\ RunOf(w) \in Guarded =>
             /\ worker[w].acceptance \in BOOLEAN
             /\ worker[w].acceptance => PassesAcceptance(w)
        /\ worker[w].patch \in worker[w].source
    BY <1>1, <1>4, <1>6 DEF Knows, Tested, Judged, Measured
  <2>5. worker[w].tests = TRUE /\ RunOf(w)' = RunOf(w)
    BY <1>6, <2>2, <2>4 DEF RunOf
  <2>6. Knows(w, k)'
    BY <1>6, <2>2, <2>3, <2>4, <2>5
       DEF Knows, Executing, Verifying, VerifySteps, Tested, Judged, Measured
  <2> QED
    BY <1>2, <1>3, <1>5, <2>1, <2>2, <2>6, MovedKeeps
<1>7. ASSUME NEW error \in {"failed acceptance", "failed verification"},
             worker' = [worker EXCEPT ![w].at = "failed", ![w].error = error]
      PROVE  WorkflowInv'
  <2> DEFINE new == [worker[w] EXCEPT !.at = "failed", !.error = error]
  <2>1. /\ new \in Worker(Places) /\ new.at = "failed" /\ new.run = worker[w].run
        /\ new.lease = worker[w].lease /\ new.patch = worker[w].patch
    <3>1. error \in Errors
      BY <1>7, EvidenceAssumption
    <3> QED
      BY <1>1, <1>2, <3>1 DEF Worker
  <2>2. worker' = [worker EXCEPT ![w] = new]
    BY <1>7
  <2> HIDE DEF new
  <2>3. Moves(w, Places, "failed")
    BY <1>1, <2>1, <2>2, OneMoves DEF Moves
  <2>4. Knows(w, k)'
    BY <2>3, NothingKnown DEF Moves, Executing, Verifying, VerifySteps
  <2> QED
    BY <1>2, <1>3, <1>5, <2>3, <2>4, MovedKeeps DEF Moves
<1>8. worker[w].tests \in BOOLEAN
  BY <1>1, <1>4 DEF Knows, Tested
<1>9. CASE worker[w].tests /\ worker[w].acceptance # FALSE
  BY <1>6, <1>9 DEF Judge
<1>10. CASE ~(worker[w].tests /\ worker[w].acceptance # FALSE)
  <2>1. worker' = [worker EXCEPT ![w].at = "failed",
           ![w].error = IF worker[w].tests THEN "failed acceptance"
                                           ELSE "failed verification"]
    BY <1>10 DEF Judge
  <2>2. CASE worker[w].tests
    BY <1>7, <2>1, <2>2
  <2>3. CASE ~worker[w].tests
    BY <1>7, <2>1, <2>3
  <2> QED
    BY <2>2, <2>3
<1> QED
  BY <1>9, <1>10

(* transition_run, after a failed verification and at the end.             *)
LEMMA EndKeeps ==
  ASSUME WorkflowInv, NEW w \in Workers, outer' = outer,
         EndDomainRun(w) \/ Complete(w) \/ SuccessUnreported(w)
  PROVE  WorkflowInv'
<1> DEFINE l == worker[w].lease
           found == EvidenceOf(w)
           error == worker[w].error
<1>1. /\ Typed(Places) /\ worker[w] \in Worker(Places) /\ w \in DOMAIN worker
      /\ worker[w].at \in {"complete", "failed"} /\ tree' = tree /\ Inv
      /\ error \in Errors \cup {None}
  BY PlacesTyped DEF WorkflowInv, Typed, EndDomainRun, Complete, SuccessUnreported,
     StoreSuccess, At, Worker
<1>2. /\ worker[w].at \in Leasing /\ worker[w].at \in VerifyPlaces
      /\ worker[w].at \in ApplyPlaces \cup VerifyPlaces
  BY <1>1 DEF Leasing, VerifyPlaces, Acquiring, ApplyPlaces
<1>3. PICK k \in Keys : k = KeyOf[worker[w].patch]
  BY <1>2, OnCandidate
<1>4. /\ Leased(w) /\ Knows(w, k) /\ l \in leases /\ l.run = RunOf(w)
      /\ worker[w].patch = outer[RunOf(w)].patch
      /\ outer[RunOf(w)].step = "verify"
  BY <1>2, <1>3, OnCandidate DEF Leased, WorkflowInv, Standing
<1>5. PICK r \in Runs : r = RunOf(w)
  BY <1>4 DEF Leased
<1>6. "failed" \in Stages /\ "complete" \in Stages
  BY WorkspaceAssumption
<1>7. CASE EndDomainRun(w)
  <2>1. PICK now \in ClockReads : Transition(l, "FAILED", "failed", None, error, now)
    BY <1>7 DEF EndDomainRun, ReadsOf
  <2>2. StoreNext /\ UNCHANGED <<effects, checkpoints>>
    <3> HIDE DEF l, error
    <3> QED
      BY <1>1, <1>4, <1>6, <2>1, TransitionCalled
  <2> DEFINE new == [worker[w] EXCEPT !.at = "raised", !.error = error]
  <2>3. new \in Worker(Places) /\ new.at = "raised" /\ new.run = worker[w].run
    BY <1>1 DEF Worker
  <2>4. worker' = [worker EXCEPT ![w] = new]
    BY <1>7 DEF EndDomainRun, Raise
  <2> HIDE DEF new
  <2>5. /\ worker' \in [Workers -> Worker(Places)] /\ worker'[w] = new
        /\ \A v \in Workers \ {w} : worker'[v] = worker[v]
    BY <1>1, <2>3, <2>4, OneMoves
  <2> QED
    BY <1>1, <1>5, <2>2, <2>3, <2>5, RaisedKeeps DEF RunOf
<1>8. CASE StoreSuccess(w)
  <2>1. PICK now \in ClockReads : Transition(l, "SUCCEEDED", "complete", found, None, now)
    BY <1>8 DEF StoreSuccess, ReadsOf
  <2>2. found \in Evidence /\ At(w, "complete")
    BY <1>1, <1>4, <1>8, FindingsTyped DEF StoreSuccess, At, Measured
  <2>3. found # None /\ found.patch = worker[w].patch
    BY <2>2, StoreAssumption DEF EvidenceOf
  <2>4. /\ StoreNext /\ UNCHANGED <<effects, checkpoints>>
        /\ runs'[l.run].status = "SUCCEEDED" /\ runs'[l.run].result = found
    <3> HIDE DEF l, found
    <3> QED
      BY <1>1, <1>4, <1>6, <2>1, <2>2, <2>3, TransitionCalled
  <2>5. CASE Goto(w, "returned")
    <3>1. Moves(w, Places, "returned")
      BY <1>1, <2>5, GotoMoves DEF Places
    <3>2. runs'[r].status = "SUCCEEDED" /\ runs'[r].result.patch = outer[r].patch
      BY <1>4, <1>5, <2>3, <2>4
    <3>3. outer[r].patch \in Requests /\ outer[r].step = "verify"
      BY <1>4, <1>5, <1>2, OnCandidate
    <3>4. /\ worker'[w].at = "returned" /\ worker'[w].run = r
          /\ worker'[w].patch = outer[r].patch
      BY <1>4, <1>5, <3>1 DEF Moves, RunOf
    <3>5. Brings(w)'
      BY <3>2, <3>3, <3>4
         DEF Brings, ReproducePlaces, RepairPlaces, ApplyPlaces, ApplySteps, RunOf
    <3>6. Standing(w)' /\ worker'[w].at \notin Executors
      BY <3>4, <3>5, OutsideStands
    <3> QED
      BY <1>1, <2>4, <3>1, <3>6, QuietKeeps DEF Moves
  <2>6. CASE Raise(w, "error")
    <3>1. Moves(w, Places, "raised")
      BY <1>1, <2>6, RaiseMoves, EvidenceAssumption
    <3> QED
      BY <1>1, <1>5, <2>4, <3>1, RaisedKeeps DEF Moves, RunOf
  <2> QED
    BY <1>7, <1>8, <2>5, <2>6 DEF Complete, SuccessUnreported
<1> QED
  BY <1>7, <1>8 DEF Complete, SuccessUnreported

(* A process whose step raises, or that is gone.                           *)
LEMMA LeaveKeeps ==
  ASSUME WorkflowInv, NEW w \in Workers, outer' = outer,
         LoseLease(w) \/ Raises(w) \/ Crash(w)
  PROVE  WorkflowInv'
<1>1. Typed(Places) /\ Standing(w) /\ UNCHANGED <<storeVars, tree>>
  BY PlacesTyped DEF WorkflowInv, LoseLease, Raises, Crash
<1>2. [StoreNext]_storeVars /\ effects' = effects /\ tree' = tree
  BY <1>1, StoreLeftAlone
<1>3. CASE Raise(w, "error") /\ ~At(w, "idle")
  <2>1. Moves(w, Places, "raised") /\ RunOf(w) \in Runs
    BY <1>1, <1>3, RaiseMoves, EvidenceAssumption DEF Standing
  <2> QED
    BY <1>2, <2>1, RaisedKeeps DEF Moves, RunOf
<1>4. CASE GoIdle(w)
  <2>1. /\ worker' \in [Workers -> Worker(Places)] /\ worker'[w].at = "idle"
        /\ \A v \in Workers \ {w} : worker'[v] = worker[v]
    BY <1>1, <1>4, GoIdleMoves DEF Idle
  <2> QED
    BY <1>2, <2>1, RaisedKeeps
<1>5. worker[w].at \in Places => ~At(w, "idle")
  BY DEF Places, StoreCalls, Acquiring, Commands, At
<1> QED
  BY <1>3, <1>4, <1>5 DEF LoseLease, Raises, Crash, Places

-----------------------------------------------------------------------------
(* The steps of the runtime.                                               *)

(* A step of the runtime replaces the row of one workflow, and moves the   *)
(* process that takes up or ends an attempt of it, if any.                 *)
LEMMA RowKeeps ==
  ASSUME WorkflowInv, NEW w, UNCHANGED <<storeVars, tree>>,
         NEW r \in Runs, NEW row \in Outer, outer' = [outer EXCEPT ![r] = row],
         worker' \in [Workers -> Worker(Places)],
         \A v \in Workers \ {w} : worker'[v] = worker[v],
         w \in Workers => Standing(w)' /\ worker'[w].at \notin Executors,
         outer[r].step \in {"apply", "verify"} =>
           /\ row.patch = outer[r].patch
           /\ row.step \in {"apply", "verify"}
           /\ outer[r].step = "verify" => row.step = "verify",
         \/ row.holder \in {None, w}
         \/ /\ row.holder = outer[r].holder
            /\ row.step = outer[r].step /\ row.patch = outer[r].patch,
         OneCandidate(r)', DomainSucceeded(r)'
  PROVE  WorkflowInv'
<1>1. /\ [StoreNext]_storeVars /\ tree' = tree /\ TreesGrow
      /\ runs' = runs /\ effects' = effects
  BY DEF storeVars, TreesGrow
<1>2. /\ outer'[r] = row /\ \A s \in Runs \ {r} : outer'[s] = outer[s]
      /\ outer' \in [Runs -> Outer]
  BY DEF WorkflowInv, AttemptsTyped
<1>3. AttemptsTyped'
  BY <1>1, <1>2 DEF WorkflowInv, AttemptsTyped
<1>4. OuterKept(w)
  BY <1>2, WorkflowAssumption DEF OuterKept
<1>5. \A v \in Workers : LeftToExecute(v)
  BY <1>1 DEF LeftToExecute
<1>6. ASSUME NEW s \in Runs \ {r} PROVE OneCandidate(s)' /\ DomainSucceeded(s)'
  BY <1>1, <1>2 DEF WorkflowInv, OneCandidate, DomainSucceeded
<1>7. ConfirmedIsApplied' /\ AppliedIsBegun'
  BY <1>1 DEF WorkflowInv, ConfirmedIsApplied, AppliedIsBegun
<1> QED
  BY <1>1, <1>3, <1>4, <1>5, <1>6, <1>7, StepKeeps

(* Submission and giving up: nobody moves.                                 *)
LEMMA RuntimeKeeps ==
  ASSUME WorkflowInv, NEW r \in Runs, Submit(r) \/ GiveUp(r)
  PROVE  WorkflowInv'
<1>1. /\ outer[r] \in Outer /\ r \in DOMAIN outer /\ UNCHANGED vars
      /\ OneCandidate(r) /\ DomainSucceeded(r)
  BY DEF WorkflowInv, AttemptsTyped, Submit, GiveUp
<1>2. /\ UNCHANGED <<storeVars, tree>> /\ worker' \in [Workers -> Worker(Places)]
      /\ worker' = worker /\ runs' = runs /\ effects' = effects
  BY <1>1 DEF vars, storeVars, WorkflowInv, AttemptsTyped
<1>3. PICK row \in Outer :
        /\ outer' = [outer EXCEPT ![r] = row]
        /\ row.patch = outer[r].patch /\ row.step = outer[r].step
        /\ row.status # "succeeded"
        /\ row.holder \in {None, outer[r].holder}
  <2>1. CASE Submit(r)
    <3> DEFINE row == [outer[r] EXCEPT !.status = "active"]
    <3>1. row \in Outer /\ outer' = [outer EXCEPT ![r] = row]
      BY <1>1, <2>1 DEF Submit, Outer
    <3> QED
      BY <1>1, <3>1 DEF Outer
  <2>2. CASE GiveUp(r)
    <3>1. outer[r].status # "succeeded"
      BY <1>1, <2>2 DEF GiveUp, DomainSucceeded
    <3>2. CASE outer' = [outer EXCEPT ![r].holder = None]
      <4> DEFINE row == [outer[r] EXCEPT !.holder = None]
      <4>1. row \in Outer /\ outer' = [outer EXCEPT ![r] = row]
        BY <1>1, <3>2 DEF Outer
      <4> QED
        BY <1>1, <3>1, <4>1 DEF Outer
    <3>3. CASE outer' = [outer EXCEPT ![r].holder = None, ![r].status = "failed"]
      <4> DEFINE row == [outer[r] EXCEPT !.holder = None, !.status = "failed"]
      <4>1. row \in Outer /\ outer' = [outer EXCEPT ![r] = row]
        BY <1>1, <3>3 DEF Outer
      <4> QED
        BY <1>1, <4>1 DEF Outer
    <3> QED
      BY <2>2, <3>2, <3>3 DEF GiveUp
  <2> QED
    BY <2>1, <2>2
<1>4. outer'[r] = row
  BY <1>1, <1>3
<1>5. OneCandidate(r)' /\ DomainSucceeded(r)'
  BY <1>1, <1>2, <1>3, <1>4 DEF OneCandidate, DomainSucceeded
<1> QED
  BY <1>2, <1>3, <1>5, RowKeeps, WorkflowAssumption

(* work_once takes up an attempt.                                          *)
LEMMA StartKeeps ==
  ASSUME WorkflowInv, NEW w \in Workers, StartAttempt(w)
  PROVE  WorkflowInv'
<1>1. PICK r \in Runs :
        /\ outer[r].status = "active" /\ outer[r].holder = None
        /\ worker' = [worker EXCEPT ![w] =
             [Idle EXCEPT !.at = Entry[outer[r].step], !.run = r,
                          !.patch = outer[r].patch]]
        /\ outer' = [outer EXCEPT ![r].holder = w]
  BY DEF StartAttempt
<1> DEFINE step == outer[r].step
           new == [Idle EXCEPT !.at = Entry[step], !.run = r, !.patch = outer[r].patch]
           row == [outer[r] EXCEPT !.holder = w]
<1>2. /\ outer[r] \in Outer /\ r \in DOMAIN outer /\ OneCandidate(r) /\ DomainSucceeded(r)
      /\ step \in Steps /\ outer[r].patch \in Requests \cup {None}
      /\ Typed(Places) /\ UNCHANGED <<storeVars, tree>>
  BY PlacesTyped DEF WorkflowInv, AttemptsTyped, Outer, StartAttempt
<1>3. /\ row \in Outer /\ outer' = [outer EXCEPT ![r] = row] /\ outer'[r] = row
      /\ row.holder = w /\ row.step = step /\ row.patch = outer[r].patch
      /\ row.status = "active"
  BY <1>1, <1>2 DEF Outer
<1>4. /\ step = "reproduce" => Entry[step] = "head"
      /\ step = "repair" => Entry[step] = "propose"
      /\ step = "apply" => Entry[step] = "acquire for apply"
      /\ step = "verify" => Entry[step] = "acquire for verify"
  <2>1. /\ Entry["reproduce"] = "head" /\ Entry["repair"] = "propose"
        /\ Entry["apply"] = "acquire for apply"
        /\ Entry["verify"] = "acquire for verify"
    BY DEF Entry
  <2> HIDE DEF step
  <2> QED
    BY <2>1
<1>5. Entry[step] \in Places
  BY <1>2, <1>4 DEF Steps, Places, Acquiring, Commands
<1>6. /\ new \in Worker(Places) /\ new.at = Entry[step] /\ new.run = r
      /\ new.patch = outer[r].patch
  BY <1>2, <1>5 DEF Idle, Worker
<1>7. worker' = [worker EXCEPT ![w] = new]
  BY <1>1
<1> HIDE DEF new, row
<1>8. /\ worker' \in [Workers -> Worker(Places)] /\ worker'[w] = new
      /\ \A v \in Workers \ {w} : worker'[v] = worker[v]
  BY <1>2, <1>6, <1>7, OneMoves
<1>9. /\ worker'[w].at = Entry[step] /\ worker'[w].run = r
      /\ worker'[w].patch = outer[r].patch
  BY <1>6, <1>8
<1>10. /\ worker'[w].at \notin Executors \cup Leasing \cup {"returned", "idle"}
       /\ worker'[w].at \notin {"apply", "begin"} \cup Executing \cup Verifying
       /\ worker'[w].at \in ReproducePlaces <=> step = "reproduce"
       /\ worker'[w].at \in RepairPlaces <=> step = "repair"
       /\ worker'[w].at \in ApplyPlaces <=> step = "apply"
       /\ worker'[w].at \in VerifyPlaces <=> step = "verify"
  <2> HIDE DEF step
  <2> QED
    BY <1>2, <1>4, <1>9 DEF Steps, Executors, Leasing, Executing, Verifying,
       ReproducePlaces, RepairPlaces, ApplyPlaces, VerifyPlaces, ApplySteps, VerifySteps,
       Acquiring
<1>11. \A k \in Keys : Knows(w, k)'
  BY <1>10, NothingKnown
<1>12. Brings(w)'
  BY <1>3, <1>9, <1>10 DEF Brings, RunOf
<1>13. Standing(w)'
  BY <1>3, <1>9, <1>10, <1>11, <1>12 DEF Standing, ExecutesStarted, RunOf
<1>14. OneCandidate(r)' /\ DomainSucceeded(r)'
  BY <1>2, <1>3 DEF OneCandidate, DomainSucceeded, storeVars
<1> QED
  BY <1>2, <1>3, <1>8, <1>10, <1>13, <1>14, RowKeeps

(* The runtime persists what a step returned, or counts what it raised.    *)
LEMMA PersistKeeps ==
  ASSUME WorkflowInv, NEW w \in Workers, PersistStep(w) \/ RetryOrFail(w)
  PROVE  WorkflowInv'
<1>1. /\ Typed(Places) /\ Standing(w) /\ UNCHANGED <<storeVars, tree>> /\ GoIdle(w)
      /\ ~At(w, "idle")
  BY PlacesTyped DEF WorkflowInv, PersistStep, RetryOrFail, At
<1>2. PICK r \in Runs : r = RunOf(w)
  BY <1>1 DEF Standing
<1>3. /\ worker' \in [Workers -> Worker(Places)] /\ worker'[w].at = "idle"
      /\ \A v \in Workers \ {w} : worker'[v] = worker[v]
  BY <1>1, GoIdleMoves DEF Idle
<1>4. Standing(w)' /\ worker'[w].at \notin Executors
  BY <1>3, RaisedStands DEF Executors
<1>5. runs' = runs /\ effects' = effects /\ tree' = tree /\ [StoreNext]_storeVars
  BY <1>1 DEF storeVars
<1>6. CASE outer' = outer
  BY <1>3, <1>4, <1>5, <1>6, QuietKeeps
<1>7. /\ outer[r] \in Outer /\ r \in DOMAIN outer /\ OneCandidate(r) /\ DomainSucceeded(r)
      /\ worker[w].patch \in Requests \cup {None}
      /\ outer[r].step \in Steps /\ outer[r].raised \in 0..2
  BY <1>1 DEF WorkflowInv, AttemptsTyped, Typed, Worker, Outer
<1>8. ASSUME IsCurrent(w) PROVE Brings(w) /\ outer[r].status # "succeeded"
  BY <1>1, <1>2, <1>7, <1>8, WorkflowAssumption DEF Standing, DomainSucceeded, IsCurrent
<1>9. ASSUME NEW row \in Outer, outer' = [outer EXCEPT ![r] = row], row.holder = None,
             outer[r].step \in {"apply", "verify"} =>
               /\ row.patch = outer[r].patch
               /\ row.step \in {"apply", "verify"}
               /\ outer[r].step = "verify" => row.step = "verify",
             outer[r].step = "reproduce" => row.step \in {"reproduce", "repair"},
             row.step \in {"apply", "verify"} => row.patch \in Requests,
             outer[r].step = "apply" /\ row.step = "verify" =>
               effects[r][KeyOf[row.patch]].status = "SUCCEEDED",
             outer[r].step = "repair" => row.step \in {"repair", "apply"},
             row.status = "succeeded" =>
               runs[r].status = "SUCCEEDED" /\ runs[r].result.patch = row.patch
      PROVE  WorkflowInv'
  <2>1. outer'[r] = row
    BY <1>7, <1>9
  <2>2. DomainSucceeded(r)'
    BY <1>5, <1>9, <2>1 DEF DomainSucceeded
  <2>3. row.step = "verify" => effects[r][KeyOf[row.patch]].status = "SUCCEEDED"
    BY <1>7, <1>9 DEF OneCandidate, Steps
  <2>4. OneCandidate(r)'
    BY <1>5, <1>7, <1>9, <2>1, <2>3 DEF OneCandidate
  <2> QED
    BY <1>1, <1>3, <1>4, <1>9, <2>2, <2>4, RowKeeps
<1>10. CASE IsCurrent(w) /\ PersistStep(w)
  <2>1. /\ Brings(w) /\ worker[w].at = "returned"
        /\ outer' = [outer EXCEPT ![r] =
             IF outer[r].step = "verify"
             THEN [outer[r] EXCEPT !.status = "succeeded", !.holder = None]
             ELSE [outer[r] EXCEPT !.step = Successor[outer[r].step], !.raised = 0,
                                   !.patch = worker[w].patch, !.holder = None]]
    BY <1>2, <1>8, <1>10 DEF PersistStep, At
  <2>2. CASE outer[r].step = "verify"
    <3> DEFINE row == [outer[r] EXCEPT !.status = "succeeded", !.holder = None]
    <3>1. /\ row \in Outer /\ row.holder = None /\ row.status = "succeeded"
          /\ row.step = "verify" /\ row.patch = outer[r].patch
          /\ outer' = [outer EXCEPT ![r] = row]
      BY <1>7, <2>1, <2>2 DEF Outer
    <3> HIDE DEF row
    <3>2. /\ runs[r].status = "SUCCEEDED" /\ runs[r].result.patch = outer[r].patch
          /\ outer[r].patch \in Requests
      BY <1>2, <1>7, <2>1, <2>2 DEF Brings, OneCandidate
    <3> QED
      BY <1>9, <2>2, <3>1, <3>2
  <2>3. CASE outer[r].step # "verify"
    <3> DEFINE row == [outer[r] EXCEPT !.step = Successor[outer[r].step], !.raised = 0,
                                       !.patch = worker[w].patch, !.holder = None]
    <3>1. /\ outer[r].step \in {"reproduce", "repair", "apply"}
          /\ outer[r].step = "reproduce" => Successor[outer[r].step] = "repair"
          /\ outer[r].step = "repair" => Successor[outer[r].step] = "apply"
          /\ outer[r].step = "apply" => Successor[outer[r].step] = "verify"
      BY <1>7, <2>3 DEF Steps, Successor
    <3>2. Successor[outer[r].step] \in Steps
      BY <3>1 DEF Steps
    <3>3. /\ row \in Outer /\ row.holder = None /\ row.status = outer[r].status
          /\ row.step = Successor[outer[r].step] /\ row.patch = worker[w].patch
          /\ outer' = [outer EXCEPT ![r] = row]
      <4>1. outer' = [outer EXCEPT ![r] = row]
        BY <2>1, <2>3
      <4>2. 0 \in 0..2
        OBVIOUS
      <4> QED
        BY <1>7, <3>2, <4>1, <4>2 DEF Outer
    <3> HIDE DEF row
    <3>4. /\ outer[r].step # "reproduce" => worker[w].patch \in Requests
          /\ outer[r].step = "apply" =>
               /\ worker[w].patch = outer[r].patch
               /\ effects[r][KeyOf[outer[r].patch]].status = "SUCCEEDED"
      BY <1>2, <2>1 DEF Brings
    <3>5. row.status # "succeeded"
      BY <1>8, <1>10, <3>3
    <3> QED
      BY <1>9, <3>1, <3>3, <3>4, <3>5
  <2> QED
    BY <2>2, <2>3
<1>11. CASE IsCurrent(w) /\ RetryOrFail(w)
  <2>1. /\ outer[r].status # "succeeded"
        /\ outer' = [outer EXCEPT ![r] =
             IF outer[r].raised + 1 < MaxAttempts[outer[r].step]
             THEN [outer[r] EXCEPT !.raised = @ + 1, !.holder = None]
             ELSE [outer[r] EXCEPT !.status = "failed", !.holder = None]]
    BY <1>2, <1>8, <1>11 DEF RetryOrFail
  <2>2. MaxAttempts[outer[r].step] \in 1..3
    BY <1>7 DEF MaxAttempts, Steps
  <2>3. PICK row \in Outer :
          /\ outer' = [outer EXCEPT ![r] = row] /\ row.holder = None
          /\ row.step = outer[r].step /\ row.patch = outer[r].patch
          /\ row.status # "succeeded"
    <3>1. CASE outer[r].raised + 1 < MaxAttempts[outer[r].step]
      <4> DEFINE row == [outer[r] EXCEPT !.raised = @ + 1, !.holder = None]
      <4>1. outer[r].raised + 1 \in 0..2
        BY <1>7, <2>2, <3>1
      <4>2. row \in Outer /\ outer' = [outer EXCEPT ![r] = row]
        BY <1>7, <2>1, <3>1, <4>1 DEF Outer
      <4> QED
        BY <1>7, <2>1, <4>2 DEF Outer
    <3>2. CASE ~(outer[r].raised + 1 < MaxAttempts[outer[r].step])
      <4> DEFINE row == [outer[r] EXCEPT !.status = "failed", !.holder = None]
      <4>1. row \in Outer /\ outer' = [outer EXCEPT ![r] = row]
        BY <1>7, <2>1, <3>2 DEF Outer
      <4> QED
        BY <1>7, <4>1 DEF Outer
    <3> QED
      BY <3>1, <3>2
  <2>4. outer[r].step \in {"apply", "verify"} => outer[r].patch \in Requests
    BY <1>7 DEF OneCandidate
  <2> QED
    BY <1>9, <2>3, <2>4
<1> QED
  BY <1>2, <1>6, <1>10, <1>11 DEF PersistStep, RetryOrFail

-----------------------------------------------------------------------------
(* The invariant.                                                          *)

(* create_run, the clock and stuttering.                                   *)
LEMMA NobodyMovesKeeps ==
  ASSUME WorkflowInv, [StoreNext]_storeVars, UNCHANGED <<worker, tree, outer, effects>>
  PROVE  WorkflowInv'
<1>1. worker' \in [Workers -> Worker(Places)] /\ \A v \in Workers : worker'[v] = worker[v]
  BY DEF WorkflowInv, AttemptsTyped
<1> QED
  BY <1>1, QuietKeeps, WorkflowAssumption

(* Nobody has begun anything.                                              *)
LEMMA WorkflowInvInit == Init => WorkflowInv
<1>1. SUFFICES ASSUME Init PROVE WorkflowInv
  OBVIOUS
<1>2. Inv /\ AttemptsTyped
  BY <1>1, InvInit DEF Init, AttemptsTyped, Idle, Worker, NoWorkflow, Outer, Steps
<1>3. \A w \in Workers : worker[w].at = "idle"
  BY <1>1 DEF Init, Idle
<1>4. \A w \in Workers, k \in Keys : Knows(w, k)
  BY <1>3 DEF Knows, Executing, Verifying, VerifySteps, Tested, Judged, Measured
<1>5. \A w \in Workers : Standing(w)
  BY <1>3, <1>4 DEF Standing, ExecutesStarted, At, Leasing, ApplyPlaces, VerifyPlaces,
     Executors, ApplySteps, VerifySteps
<1>6. /\ \A r \in Runs, k \in Keys : effects[r][k].status = "ABSENT"
      /\ \A r \in Runs : outer[r].step = "reproduce" /\ outer[r].status = "none"
  BY <1>1 DEF Init, StoreInit, AbsentEffect, NoWorkflow
<1>7. \A r \in Runs : OneCandidate(r) /\ DomainSucceeded(r)
  BY <1>6 DEF OneCandidate, DomainSucceeded
<1>8. AppliedIsBegun
  BY <1>1 DEF Init, AppliedIsBegun
<1> QED
  BY <1>2, <1>3, <1>5, <1>6, <1>7, <1>8
     DEF WorkflowInv, OneExecutorPerLease, ConfirmedIsApplied

(* A step of an attempt of the workflow.                                   *)
LEMMA AttemptKeeps ==
  ASSUME WorkflowInv, NEW w \in Workers,
         StepFunction(w) \/ StepRaises(w) \/ Crash(w)
  PROVE  WorkflowInv'
<1>1. outer' = outer
  BY DEF StepFunction, StepRaises, Crash
<1>2. CASE Apply(w)
  BY <1>1, <1>2, AcquireKeeps, AdvanceKeeps, ApplyPatchKeeps DEF Apply
<1>3. CASE Verify(w)
  BY <1>1, <1>3, AcquireKeeps, AdvanceKeeps, JudgeKeeps, EndKeeps DEF Verify
<1> QED
  BY <1>1, <1>2, <1>3, OutsideKeeps, LeaveKeeps, EndKeeps DEF StepFunction, StepRaises

LEMMA WorkflowInvNext == WorkflowInv /\ [Next]_workflowVars => WorkflowInv'
<1>1. SUFFICES ASSUME WorkflowInv, [Next]_workflowVars PROVE WorkflowInv'
  OBVIOUS
<1>2. ASSUME NEW r \in Runs, CreateDomainRun(r) PROVE WorkflowInv'
  <2>1. PICK now \in ClockReads : CreateRun(r, now)
    BY <1>2 DEF CreateDomainRun
  <2>2. StoreNext /\ UNCHANGED <<worker, tree, outer, effects>>
    BY <1>2, <2>1 DEF StoreNext, ClaimStep, CreateRun, CreateDomainRun
  <2> QED
    BY <1>1, <2>2, NobodyMovesKeeps
<1>3. CASE Pass
  BY <1>1, <1>3, NobodyMovesKeeps DEF Pass, Tick, StoreNext
<1>4. CASE UNCHANGED workflowVars
  BY <1>1, <1>4, NobodyMovesKeeps DEF workflowVars, vars, storeVars
<1> QED
  BY <1>1, <1>2, <1>3, <1>4, RuntimeKeeps, StartKeeps, PersistKeeps, AttemptKeeps
     DEF Next, ProcessStep, Runtime

-----------------------------------------------------------------------------
(* The theorems.                                                           *)

(* The inductive invariant holds of every behaviour of the adapter.        *)
THEOREM WorkflowInvariant == Spec => []WorkflowInv
<1> QED
  BY WorkflowInvInit, WorkflowInvNext, PTL DEF Spec

(* No process has read the clock in the future.                            *)
LEMMA SinceTyped == Spec => [](since \in [Workers -> Nat])
<1> DEFINE Since == since \in [Workers -> Nat]
<1>1. Init => Since
  BY DEF Init
<1>2. WorkflowInv /\ Since /\ [Next]_workflowVars => Since'
  <2>1. SUFFICES ASSUME WorkflowInv, Since, [Next]_workflowVars PROVE Since'
    OBVIOUS
  <2>2. clock \in Nat
    BY <2>1 DEF WorkflowInv, Inv, IInv, TypeOK
  <2> QED
    BY <2>1, <2>2 DEF Next, workflowVars, vars, CreateDomainRun, Submit, GiveUp, Over, Pass
<1> QED
  BY <1>1, <1>2, WorkflowInvariant, PTL DEF Spec

(* What both stores hold, what the processes remember, the worktrees and   *)
(* the clock readings are of their types.                                  *)
THEOREM WorkflowTypeCorrect == Spec => []WorkflowTypeOK
<1>1. WorkflowInv /\ since \in [Workers -> Nat] => WorkflowTypeOK
  BY DEF WorkflowInv, Inv, IInv, WorkflowTypeOK
<1> QED
  BY <1>1, WorkflowInvariant, SinceTyped, PTL

(* Attempts of a workflow share the owner name and may share the lease; at *)
(* most one of those that do executes an operation of the ledger.          *)
THEOREM LeaseHasOneExecutor == Spec => []OneExecutorPerLease
<1>1. WorkflowInv => OneExecutorPerLease
  BY DEF WorkflowInv
<1> QED
  BY <1>1, WorkflowInvariant, PTL

(* What the ledger confirmed is in the worktree, whichever attempt         *)
(* reported, reconciled or replayed it.                                    *)
THEOREM WorkflowConfirmsApplied == Spec => []ConfirmedIsApplied
<1>1. WorkflowInv => ConfirmedIsApplied
  BY DEF WorkflowInv
<1> QED
  BY <1>1, WorkflowInvariant, PTL

(* A workflow that succeeded has a domain run that succeeded with the      *)
(* candidate of the repair step, although no transaction covers the two    *)
(* stores.                                                                 *)
THEOREM WorkflowAgreesWithRun == Spec => []SucceededTogether
<1>1. WorkflowInv => SucceededTogether
  BY DEF WorkflowInv, DomainSucceeded, SucceededTogether
<1> QED
  BY <1>1, WorkflowInvariant, PTL

(* Only the candidate the runtime persisted is ever asked of the ledger or,*)
(* where the run has a worktree to itself, written to that.                *)
THEOREM CandidateIsPersisted == Spec => []PersistedCandidateOnly
<1>1. WorkflowInv => PersistedCandidateOnly
  <2>1. SUFFICES ASSUME WorkflowInv, NEW r \in Runs
                 PROVE  /\ \A k \in Keys : effects[r][k].status # "ABSENT" =>
                             /\ effects[r][k].request = outer[r].patch
                             /\ k = KeyOf[outer[r].patch]
                        /\ (\A s \in Runs \ {r} : Repo[s] # Repo[r])
                             => tree[Repo[r]] \subseteq {outer[r].patch}
    BY DEF PersistedCandidateOnly
  <2>2. \A k \in Keys : effects[r][k].status # "ABSENT" =>
          effects[r][k].request = outer[r].patch /\ k = KeyOf[outer[r].patch]
    BY <2>1 DEF WorkflowInv, OneCandidate
  <2>3. ASSUME \A s \in Runs \ {r} : Repo[s] # Repo[r], NEW p \in tree[Repo[r]]
        PROVE  p = outer[r].patch
    BY <2>1, <2>2, <2>3, WorkspaceAssumption DEF WorkflowInv, AppliedIsBegun
  <2> QED
    BY <2>2, <2>3
<1> QED
  BY <1>1, WorkflowInvariant, PTL

-----------------------------------------------------------------------------
(* The workflow and the store.                                             *)

(* What a process does in the apply and the verify step is a step of the   *)
(* store or none.                                                          *)
LEMMA LeasingUsesStore ==
  ASSUME WorkflowInv, NEW w \in Workers,
         Apply(w) \/ Verify(w) \/ SuccessUnreported(w)
  PROVE  [StoreNext]_storeVars
<1>1. Typed(Places) /\ "verify" \in Places
  BY PlacesTyped DEF WorkflowInv, Places, StoreCalls
<1>2. ASSUME NEW here, NEW next, Acquire(w, here, next), here \in Acquiring
      PROVE  [StoreNext]_storeVars
  <2>1. RunOf(w) \in Runs
    BY <1>2, OnCandidate DEF Acquire, At, Acquiring, ApplyPlaces, VerifyPlaces
  <2>2. OwnerOf[RunOf(w)] \in Owners
    BY <2>1, WorkflowAssumption
  <2> QED
    BY <1>2, <2>1, <2>2 DEF Acquire, StoreNext, ClaimStep, ReadsOf
<1>3. CASE worker[w].at \in Leasing
  <2>1. PICK k \in Keys : k = KeyOf[worker[w].patch]
    BY <1>3, OnCandidate DEF Leasing
  <2>2. Leased(w) /\ Knows(w, k) /\ worker[w].lease \in leases
    BY <1>3, <2>1, OnCandidate DEF Leasing, Leased
  <2>3. ApplyPatch(w, KeyOf[worker[w].patch], "returned") => [StoreNext]_storeVars
    BY <1>1, <2>1, <2>2, PlacesTyped, ApplyPatchAdvances DEF WorkflowInv, Advances
  <2>4. ASSUME NEW here, NEW stage \in Stages, NEW place, EnterStage(w, here, stage, place)
        PROVE  [StoreNext]_storeVars
    BY <2>2, <2>4, HolderCalls DEF EnterStage, ReadsOf
  <2>5. Record(w) => [StoreNext]_storeVars
    BY <1>1, <2>2, RecordAdvances DEF WorkflowInv, Advances
  <2>6. Verification(w) \/ Acceptance(w) \/ TakeFingerprint(w) \/ Judge(w)
          => [StoreNext]_storeVars
    BY DEF Verification, Acceptance, TakeFingerprint, Judge
  <2>7. ASSUME EndDomainRun(w) PROVE [StoreNext]_storeVars
    <3>1. worker[w].error \in Errors \cup {None}
      BY <1>1 DEF Typed, Worker
    <3>2. "failed" \in Stages /\ "FAILED" \in RunStatus
      BY WorkspaceAssumption DEF RunStatus, Terminal
    <3> QED
      BY <2>2, <2>7, <3>1, <3>2, HolderCalls DEF EndDomainRun, ReadsOf
  <2>8. ASSUME StoreSuccess(w) PROVE [StoreNext]_storeVars
    <3>1. EvidenceOf(w) \in Evidence
      BY <1>1, <2>2, <2>8, FindingsTyped DEF StoreSuccess, At, Measured
    <3>2. "complete" \in Stages /\ "SUCCEEDED" \in RunStatus
      BY WorkspaceAssumption DEF RunStatus, Terminal
    <3> QED
      BY <2>2, <2>8, <3>1, <3>2, HolderCalls DEF StoreSuccess, ReadsOf
  <2> QED
    BY <1>2, <2>3, <2>4, <2>5, <2>6, <2>7, <2>8, WorkspaceAssumption
       DEF Apply, Verify, Complete, SuccessUnreported, Acquiring
<1>4. CASE worker[w].at \notin Leasing
  <2>1. ~ \/ EnterStage(w, "apply", "apply", "begin")
          \/ EnterStage(w, "verify", "verify", "verification")
          \/ ApplyPatch(w, KeyOf[worker[w].patch], "returned")
          \/ Verification(w) \/ Acceptance(w) \/ TakeFingerprint(w) \/ Record(w)
          \/ Judge(w) \/ EndDomainRun(w) \/ StoreSuccess(w)
    BY <1>4 DEF EnterStage, ApplyPatch, BeginApply, GitApply, GitApplyKilled,
       ConfirmApply, DisconfirmApply, ReverseCheck, ReconcileApply, Verification,
       Acceptance, TakeFingerprint, Record, Judge, EndDomainRun, StoreSuccess, At,
       Leasing, ApplyPlaces, VerifyPlaces, ApplySteps, VerifySteps, Acquiring
  <2> QED
    BY <1>2, <2>1 DEF Apply, Verify, Complete, SuccessUnreported, Acquiring
<1> QED
  BY <1>3, <1>4

(* Every step is a step of the store or none.                              *)
LEMMA StepUsesStore ==
  ASSUME WorkflowInv, [Next]_workflowVars PROVE [StoreNext]_storeVars
<1>1. \A w \in Workers :
        Apply(w) \/ Verify(w) \/ SuccessUnreported(w) => [StoreNext]_storeVars
  BY LeasingUsesStore
<1>2. \A w \in Workers : StepFunction(w) => [StoreNext]_storeVars
  BY <1>1 DEF StepFunction, CheckHead, Reproduce, Propose, LoseLease
<1>3. \A w \in Workers :
        StepRaises(w) \/ Runtime(w) \/ Crash(w) => [StoreNext]_storeVars
  BY <1>1 DEF StepRaises, Raises, Runtime, StartAttempt, PersistStep, RetryOrFail, Crash
<1>4. \A r \in Runs : CreateDomainRun(r) => StoreNext
  BY DEF CreateDomainRun, StoreNext, ClaimStep
<1>5. \A r \in Runs : Submit(r) \/ GiveUp(r) => UNCHANGED storeVars
  BY DEF Submit, GiveUp, vars
<1>6. Pass => StoreNext
  BY DEF Pass, StoreNext
<1>7. UNCHANGED workflowVars => UNCHANGED storeVars
  BY DEF workflowVars, vars
<1> QED
  BY <1>2, <1>3, <1>4, <1>5, <1>6, <1>7 DEF Next, ProcessStep

(* The attempts of the workflows are callers of the store like any others: *)
(* what holds of the store among arbitrary callers holds of the adapter.   *)
THEOREM WorkflowUsesStore == Spec => StoreSpec
<1>1. Init => StoreInit
  BY DEF Init
<1> QED
  BY <1>1, StepUsesStore, WorkflowInvariant, PTL DEF Spec, StoreSpec

(* So a domain run that has ended stays as it ended, however often the     *)
(* runtime attempts its steps again.                                       *)
THEOREM WorkflowRunsStayEnded == Spec => TerminalFrozen
<1> QED
  BY WorkflowUsesStore, FinishedRunsFrozen

(* And the ledger keeps its contract among attempts of one workflow that   *)
(* overlap: a confirmed patch is never applied again, a doubt is settled by*)
(* one adjudicator.                                                        *)
THEOREM WorkflowFollowsContract == Spec => EffectsFollowContract
<1> QED
  BY WorkflowUsesStore, LedgerImplementsContract

-----------------------------------------------------------------------------
(* What a verification finds.                                              *)

(* Each run has a worktree of its own.                                     *)
Unshared == \A r, s \in Runs : r # s => Repo[r] # Repo[s]

(* Then what a verification finds is settled by the candidate alone.       *)
Finding(r) ==
  LET patch == outer[r].patch
      passes == patch \in Fixes[r]
  IN  [source |-> {patch}, patch |-> patch, tests |-> passes,
       acceptance |-> IF passes /\ r \in Guarded THEN patch \in Accepts[r] ELSE None]

Unmeasured == {"acquire for verify", "verify", "verification", "acceptance"}

Finds(w) ==
  LET found == Finding(RunOf(w))
  IN  /\ worker[w].at \in Unmeasured => worker[w].acceptance = None
      /\ worker[w].at = "acceptance" => RunOf(w) \in Guarded
      /\ worker[w].at \in Tested => worker[w].tests = found.tests
      /\ worker[w].at \in Judged => worker[w].acceptance = found.acceptance
      /\ worker[w].at \in Measured => worker[w].source = found.source
      /\ worker[w].at \in {"judge", "complete"} => checkpoints[RunOf(w)] # <<>>

(* The workflows stay with the candidate they verify.                      *)
CandidateKept ==
  \A r \in Runs : outer[r].step = "verify" =>
    outer'[r].step = "verify" /\ outer'[r].patch = outer[r].patch

(* The invariant that makes a success a verified one.                      *)
FindingsInv ==
  /\ \A w \in Workers : Finds(w)
  /\ \A r \in Runs : checkpoints[r] # <<>> =>
       /\ outer[r].step = "verify"
       /\ checkpoints[r][Len(checkpoints[r])].evidence = Finding(r)
  /\ SuccessIsVerified

(* Only the verify step asks for findings.                                 *)
LEMMA NothingFound ==
  ASSUME NEW w \in Workers, worker'[w].at \notin VerifyPlaces
  PROVE  Finds(w)'
BY DEF Finds, VerifyPlaces, VerifySteps, Unmeasured, Tested, Judged, Measured

(* What a process that does not move has found is what it would find.      *)
LEMMA FindingsLast ==
  ASSUME WorkflowInv, CandidateKept, NEW v \in Workers, worker'[v] = worker[v],
         Finds(v),
         \A r \in Runs : checkpoints[r] # <<>> => checkpoints'[r] # <<>>
  PROVE  Finds(v)'
<1>1. CASE worker[v].at \notin VerifyPlaces
  BY <1>1, NothingFound
<1>2. CASE worker[v].at \in VerifyPlaces
  <2>1. PICK r \in Runs : r = RunOf(v)
    BY <1>2, OnCandidate
  <2>2. RunOf(v)' = r /\ outer[r].step = "verify"
    BY <1>2, <2>1 DEF WorkflowInv, Standing, RunOf
  <2>3. Finding(r)' = Finding(r)
    BY <2>1, <2>2 DEF CandidateKept, Finding
  <2> QED
    BY <2>1, <2>2, <2>3 DEF Finds
<1> QED
  BY <1>1, <1>2

(* A step that moves w, or nobody, records nothing and ends no run with    *)
(* success.                                                                *)
LEMMA QuietFinds ==
  ASSUME WorkflowInv, FindingsInv, CandidateKept, NEW w, [StoreNext]_storeVars,
         TreesGrow, checkpoints' = checkpoints,
         \A v \in Workers \ {w} : worker'[v] = worker[v],
         w \in Workers => Finds(w)',
         \A r \in Runs : runs'[r].status = "SUCCEEDED" => runs[r].status = "SUCCEEDED"
  PROVE  FindingsInv'
<1>1. \A v \in Workers : Finds(v)'
  BY FindingsLast DEF FindingsInv
<1>2. ASSUME NEW r \in Runs, checkpoints'[r] # <<>>
      PROVE  /\ outer'[r].step = "verify"
             /\ checkpoints'[r][Len(checkpoints'[r])].evidence = Finding(r)'
  <2>1. outer[r].step = "verify" /\ Finding(r)' = Finding(r)
    BY <1>2 DEF FindingsInv, CandidateKept, Finding
  <2> QED
    BY <1>2, <2>1 DEF FindingsInv, CandidateKept
<1>3. SuccessIsVerified'
  BY NoNewSuccess DEF WorkflowInv, FindingsInv
<1> QED
  BY <1>1, <1>2, <1>3 DEF FindingsInv

(* Nothing happens to the store, and w finds nothing.                      *)
LEMMA IdleFinds ==
  ASSUME WorkflowInv, FindingsInv, CandidateKept, NEW w, UNCHANGED <<storeVars, tree>>,
         \A v \in Workers \ {w} : worker'[v] = worker[v],
         w \in Workers => Finds(w)'
  PROVE  FindingsInv'
<1>1. /\ [StoreNext]_storeVars /\ TreesGrow /\ checkpoints' = checkpoints
      /\ runs' = runs
  BY DEF storeVars, TreesGrow
<1> QED
  BY <1>1, QuietFinds

(* Once a workflow is at its verify step nobody replaces the candidate.    *)
LEMMA CandidateStays ==
  ASSUME WorkflowInv, [Next]_workflowVars PROVE CandidateKept
<1>1. \A r \in Runs : outer[r] \in Outer /\ r \in DOMAIN outer
  BY DEF WorkflowInv, AttemptsTyped
<1>2. CASE outer' = outer
  BY <1>2 DEF CandidateKept
<1>3. ASSUME NEW r \in Runs, NEW row, outer' = [outer EXCEPT ![r] = row],
             outer[r].step = "verify" =>
               row.step = "verify" /\ row.patch = outer[r].patch
      PROVE  CandidateKept
  BY <1>1, <1>3 DEF CandidateKept
<1>4. ASSUME NEW r \in Runs, Submit(r) \/ GiveUp(r) PROVE CandidateKept
  <2>1. \A s \in Runs : outer'[s].step = outer[s].step /\ outer'[s].patch = outer[s].patch
    BY <1>1, <1>4 DEF Submit, GiveUp, Outer
  <2> QED
    BY <2>1 DEF CandidateKept
<1>5. ASSUME NEW w \in Workers, StartAttempt(w) PROVE CandidateKept
  <2>1. \A s \in Runs : outer'[s].step = outer[s].step /\ outer'[s].patch = outer[s].patch
    BY <1>1, <1>5 DEF StartAttempt, Outer
  <2> QED
    BY <2>1 DEF CandidateKept
<1>6. ASSUME NEW w \in Workers, PersistStep(w) \/ RetryOrFail(w) PROVE CandidateKept
  <2>1. RunOf(w) \in Runs
    BY <1>6 DEF WorkflowInv, Standing, PersistStep, RetryOrFail, At
  <2>2. PICK r \in Runs : r = RunOf(w)
    BY <2>1
  <2>3. CASE outer[r].step = "verify"
    <3>1. ASSUME NEW row, outer' = [outer EXCEPT ![r] = row],
                 \/ row = [outer[r] EXCEPT !.status = "succeeded", !.holder = None]
                 \/ row = [outer[r] EXCEPT !.raised = @ + 1, !.holder = None]
                 \/ row = [outer[r] EXCEPT !.status = "failed", !.holder = None]
          PROVE  CandidateKept
      <4>1. row.step = outer[r].step /\ row.patch = outer[r].patch
        BY <1>1, <3>1 DEF Outer
      <4> QED
        BY <1>3, <2>3, <3>1, <4>1
    <3> QED
      BY <1>2, <1>6, <2>2, <2>3, <3>1 DEF PersistStep, RetryOrFail
  <2>4. CASE outer[r].step # "verify"
    <3>1. \A s \in Runs \ {r} : outer'[s] = outer[s]
      BY <1>1, <1>6, <2>2 DEF PersistStep, RetryOrFail
    <3> QED
      BY <2>4, <3>1 DEF CandidateKept
  <2> QED
    BY <2>3, <2>4
<1> QED
  BY <1>2, <1>4, <1>5, <1>6
     DEF Next, ProcessStep, StepFunction, StepRaises, Runtime, Crash, CreateDomainRun,
         Pass, workflowVars

(* A process that verifies alone in its worktree finds its candidate there *)
(* and nothing else.                                                       *)
LEMMA FindsCandidate ==
  ASSUME WorkflowInv, Unshared, NEW w \in Workers, worker[w].at \in VerifySteps,
         NEW r \in Runs, r = RunOf(w), NEW patch, patch = outer[r].patch
  PROVE  /\ worker[w].patch = patch /\ outer[r].step = "verify"
         /\ TreeOf(w) = {patch}
         /\ Passes(w) <=> patch \in Fixes[r]
         /\ PassesAcceptance(w) <=> patch \in Accepts[r]
         /\ SourceFingerprint(w) = {patch}
<1>1. /\ worker[w].at \in ApplyPlaces \cup VerifyPlaces /\ worker[w].at \in Verifying
      /\ worker[w].at \in VerifyPlaces
  BY DEF VerifyPlaces, Verifying
<1>2. /\ worker[w].patch = patch /\ patch \in Requests
      /\ KeyOf[patch] \in Keys /\ Knows(w, KeyOf[patch])
      /\ outer[r].step = "verify"
  BY <1>1, OnCandidate DEF WorkflowInv, Standing
<1>3. effects[r][KeyOf[patch]].status = "SUCCEEDED" /\ effects[r][KeyOf[patch]].request = patch
  BY <1>1, <1>2 DEF Knows, Confirmed, Asked
<1>4. patch \in tree[Repo[r]] /\ Repo[r] \in Worktrees
  BY <1>2, <1>3, WorkspaceAssumption DEF WorkflowInv, ConfirmedIsApplied
<1>5. ASSUME NEW p \in tree[Repo[r]] PROVE p = patch
  <2>1. PICK s \in Runs, k \in Keys :
          Repo[s] = Repo[r] /\ effects[s][k].status # "ABSENT" /\ effects[s][k].request = p
    BY <1>4, <1>5 DEF WorkflowInv, AppliedIsBegun
  <2>2. s = r
    BY <2>1 DEF Unshared
  <2> QED
    BY <2>1, <2>2 DEF WorkflowInv, OneCandidate
<1>6. TreeOf(w) = {patch}
  BY <1>4, <1>5 DEF TreeOf
<1>7. patch \in SameFiles[patch]
  BY <1>2, WorkspaceAssumption
<1> QED
  BY <1>2, <1>6, <1>7 DEF Passes, PassesAcceptance, SourceFingerprint

(* The measurements.                                                       *)
LEMMA MeasureFinds ==
  ASSUME WorkflowInv, FindingsInv, Unshared, NEW w \in Workers, outer' = outer,
         Verification(w) \/ Acceptance(w) \/ TakeFingerprint(w)
  PROVE  FindingsInv'
<1>1. /\ worker[w].at \in {"verification", "acceptance", "fingerprint"}
      /\ worker[w].at \in VerifySteps /\ worker[w].at \in VerifyPlaces
      /\ UNCHANGED <<storeVars, tree>> /\ tree' = tree
  BY DEF Verification, Acceptance, TakeFingerprint, At, VerifySteps, VerifyPlaces
<1>2. PICK r \in Runs : r = RunOf(w)
  BY <1>1, OnCandidate
<1>3. PICK patch : patch = outer[r].patch
  OBVIOUS
<1>4. /\ Passes(w) <=> patch \in Fixes[r]
      /\ PassesAcceptance(w) <=> patch \in Accepts[r]
      /\ SourceFingerprint(w) = {patch}
  BY <1>1, <1>2, <1>3, FindsCandidate
<1>5. /\ worker[w] \in Worker(Places) /\ w \in DOMAIN worker /\ Finds(w)
      /\ Knows(w, KeyOf[worker[w].patch])
  BY <1>1, OnCandidate DEF WorkflowInv, AttemptsTyped, FindingsInv, Places
<1>6. Finding(r)' = Finding(r) /\ Finding(r).source = {patch}
      /\ Finding(r).tests = (patch \in Fixes[r])
      /\ Finding(r).acceptance =
           IF patch \in Fixes[r] /\ r \in Guarded THEN patch \in Accepts[r] ELSE None
  BY <1>3 DEF Finding
<1>7. /\ worker'[w].run = worker[w].run /\ RunOf(w)' = r
      /\ \A v \in Workers \ {w} : worker'[v] = worker[v]
  <2>1. worker'[w].run = worker[w].run
    BY <1>5 DEF Verification, Acceptance, TakeFingerprint, Worker
  <2>2. \A v \in Workers \ {w} : worker'[v] = worker[v]
    BY DEF Verification, Acceptance, TakeFingerprint, WorkflowInv, AttemptsTyped
  <2> QED
    BY <1>2, <2>1, <2>2 DEF RunOf
<1>8. CASE Verification(w)
  <2>1. /\ worker'[w].tests = Passes(w) /\ worker'[w].acceptance = None
        /\ worker'[w].at = IF Passes(w) /\ r \in Guarded THEN "acceptance" ELSE "fingerprint"
    BY <1>2, <1>5, <1>8 DEF Verification, Worker, Finds, Unmeasured, At
  <2>2. Passes(w) = (patch \in Fixes[r])
    BY <1>4 DEF Passes
  <2>3. Finds(w)'
    BY <1>6, <1>7, <2>1, <2>2 DEF Finds, Unmeasured, Tested, Judged, Measured
  <2> QED
    BY <1>1, <1>7, <2>3, IdleFinds DEF CandidateKept
<1>9. CASE Acceptance(w)
  <2>1. /\ worker'[w].tests = worker[w].tests
        /\ worker'[w].acceptance = PassesAcceptance(w)
        /\ worker'[w].at = "fingerprint" /\ worker[w].at = "acceptance"
    BY <1>5, <1>9 DEF Acceptance, Worker, At
  <2>2. worker[w].tests = Finding(r).tests /\ worker[w].tests = TRUE /\ r \in Guarded
    BY <1>2, <1>5, <2>1 DEF Finds, Knows, Tested
  <2>3. PassesAcceptance(w) = (patch \in Accepts[r])
    BY <1>4 DEF PassesAcceptance
  <2>4. Finding(r).acceptance = PassesAcceptance(w)
    BY <1>6, <2>2, <2>3
  <2>5. Finds(w)'
    BY <1>6, <1>7, <2>1, <2>2, <2>4 DEF Finds, Unmeasured, Tested, Judged, Measured
  <2> QED
    BY <1>1, <1>7, <2>5, IdleFinds DEF CandidateKept
<1>10. CASE TakeFingerprint(w)
  <2>1. /\ worker'[w].tests = worker[w].tests
        /\ worker'[w].acceptance = worker[w].acceptance
        /\ worker'[w].source = SourceFingerprint(w)
        /\ worker'[w].at = "record" /\ worker[w].at = "fingerprint"
    BY <1>5, <1>10 DEF TakeFingerprint, Worker, At
  <2>2. Finds(w)'
    BY <1>2, <1>4, <1>5, <1>6, <1>7, <2>1 DEF Finds, Unmeasured, Tested, Judged, Measured
  <2> QED
    BY <1>1, <1>7, <2>2, IdleFinds DEF CandidateKept
<1> QED
  BY <1>8, <1>9, <1>10

(* What a process at its findings has found.                               *)
LEMMA FoundIt ==
  ASSUME WorkflowInv, FindingsInv, Unshared, NEW w \in Workers,
         worker[w].at \in Measured
  PROVE  /\ RunOf(w) \in Runs /\ outer[RunOf(w)].step = "verify"
         /\ EvidenceOf(w) = Finding(RunOf(w))
<1>1. worker[w].at \in VerifyPlaces /\ Finds(w) /\ worker[w].at \in Judged \cap Tested
  BY DEF Measured, VerifyPlaces, VerifySteps, FindingsInv, Judged, Tested
<1>2. /\ RunOf(w) \in Runs /\ outer[RunOf(w)].step = "verify"
      /\ worker[w].patch = outer[RunOf(w)].patch
  BY <1>1, OnCandidate DEF WorkflowInv, Standing
<1>3. /\ worker[w].tests = Finding(RunOf(w)).tests
      /\ worker[w].acceptance = Finding(RunOf(w)).acceptance
      /\ worker[w].source = Finding(RunOf(w)).source
  BY <1>1 DEF Finds
<1> QED
  BY <1>2, <1>3 DEF EvidenceOf, Finding

(* Recording and judging.                                                  *)
LEMMA RecordFinds ==
  ASSUME WorkflowInv, FindingsInv, Unshared, NEW w \in Workers, outer' = outer, Record(w)
  PROVE  FindingsInv'
<1>1. /\ Typed(Places) /\ worker[w].at = "record" /\ Finds(w)
      /\ worker[w].at \in Measured /\ worker[w].at \in Leasing
      /\ worker[w].at \in ApplyPlaces \cup VerifyPlaces
  BY PlacesTyped DEF WorkflowInv, FindingsInv, Record, At, Measured, Leasing,
     ApplyPlaces, VerifyPlaces, VerifySteps, Acquiring
<1>2. PICK r \in Runs : r = RunOf(w)
  BY <1>1, OnCandidate
<1>3. PICK k \in Keys : k = KeyOf[worker[w].patch]
  BY <1>1, OnCandidate
<1>4. Leased(w) /\ Knows(w, k)
  BY <1>1, <1>3, OnCandidate
<1>5. /\ Advances(w, k, Places, "verify")
      /\ \A s \in Runs \ {r} : checkpoints'[s] = checkpoints[s]
      /\ Recorded(w)'
  BY <1>1, <1>2, <1>3, <1>4, RecordAdvances DEF WorkflowInv
<1>6. Moves(w, Places, "judge") /\ Remembers(w)
  BY <1>1, GotoMoves DEF Record, VerifySteps
<1>7. /\ worker'[w].at = "judge" /\ RunOf(w)' = r
      /\ worker'[w].tests = worker[w].tests
      /\ worker'[w].acceptance = worker[w].acceptance
      /\ worker'[w].source = worker[w].source
      /\ worker'[w].patch = worker[w].patch
      /\ \A v \in Workers \ {w} : worker'[v] = worker[v]
  BY <1>2, <1>6 DEF Moves, Remembers, RunOf
<1>8. \A s \in Runs : Finding(s)' = Finding(s)
  BY DEF Finding
<1>9. outer[r].step = "verify" /\ EvidenceOf(w) = Finding(r)
  BY <1>1, <1>2, FoundIt
<1>10. EvidenceOf(w)' = EvidenceOf(w)
  BY <1>7 DEF EvidenceOf
<1>11. /\ checkpoints'[r] # <<>>
       /\ checkpoints'[r][Len(checkpoints'[r])].evidence = Finding(r)
  BY <1>5, <1>7, <1>9, <1>10 DEF Recorded
<1>12. Finds(w)'
  BY <1>1, <1>2, <1>7, <1>8, <1>11 DEF Finds, Unmeasured, Tested, Judged, Measured
<1>13. CandidateKept
  BY DEF CandidateKept
<1>14. \A s \in Runs : checkpoints[s] # <<>> => checkpoints'[s] # <<>>
  BY <1>5, <1>11
<1>15. \A v \in Workers : Finds(v)'
  BY <1>7, <1>12, <1>13, <1>14, FindingsLast DEF FindingsInv
<1>16. ASSUME NEW s \in Runs, checkpoints'[s] # <<>>
       PROVE  /\ outer[s].step = "verify"
              /\ checkpoints'[s][Len(checkpoints'[s])].evidence = Finding(s)
  BY <1>5, <1>9, <1>11, <1>16 DEF FindingsInv
<1>17. SuccessIsVerified'
  BY <1>5, NoNewSuccess DEF WorkflowInv, FindingsInv, Advances, Uneventful
<1> QED
  BY <1>8, <1>15, <1>16, <1>17 DEF FindingsInv

LEMMA JudgeFinds ==
  ASSUME WorkflowInv, FindingsInv, Unshared, NEW w \in Workers, outer' = outer, Judge(w)
  PROVE  FindingsInv'
<1>1. /\ worker[w] \in Worker(Places) /\ w \in DOMAIN worker /\ Finds(w)
      /\ worker[w].at = "judge" /\ UNCHANGED <<storeVars, tree>>
      /\ \A v \in Workers \ {w} : worker'[v] = worker[v]
      /\ CandidateKept
  BY DEF WorkflowInv, AttemptsTyped, FindingsInv, Judge, At, Places, Goto, CandidateKept
<1>2. CASE Goto(w, "complete")
  <2>1. /\ worker'[w].at = "complete" /\ RunOf(w)' = RunOf(w)
        /\ worker'[w].tests = worker[w].tests
        /\ worker'[w].acceptance = worker[w].acceptance
        /\ worker'[w].source = worker[w].source
    BY <1>1, <1>2 DEF Goto, Worker, RunOf
  <2>2. Finding(RunOf(w))' = Finding(RunOf(w)) /\ checkpoints' = checkpoints
    BY <1>1, <2>1 DEF Finding, storeVars
  <2>3. Finds(w)'
    BY <1>1, <2>1, <2>2 DEF Finds, Unmeasured, Tested, Judged, Measured
  <2> QED
    BY <1>1, <2>3, IdleFinds
<1>3. CASE worker'[w].at = "failed"
  <2>1. Finds(w)'
    BY <1>3 DEF Finds, Unmeasured, Tested, Judged, Measured
  <2> QED
    BY <1>1, <2>1, IdleFinds
<1>4. \A error : worker' = [worker EXCEPT ![w].at = "failed", ![w].error = error]
        => worker'[w].at = "failed"
  BY <1>1 DEF Worker
<1> QED
  BY <1>2, <1>3, <1>4 DEF Judge

(* The end of the domain run: a success is what the process found and      *)
(* recorded.                                                               *)
LEMMA EndFinds ==
  ASSUME WorkflowInv, FindingsInv, Unshared, NEW w \in Workers, outer' = outer,
         EndDomainRun(w) \/ Complete(w) \/ SuccessUnreported(w)
  PROVE  FindingsInv'
<1> DEFINE l == worker[w].lease
           found == EvidenceOf(w)
           error == worker[w].error
<1>1. /\ Typed(Places) /\ worker[w].at \in {"complete", "failed"} /\ tree' = tree /\ Inv
      /\ error \in Errors \cup {None}
      /\ \A v \in Workers \ {w} : worker'[v] = worker[v]
      /\ CandidateKept /\ TreesGrow
  <2>1. Typed(Places) /\ Inv /\ worker \in [Workers -> Worker(Places)]
    BY PlacesTyped DEF WorkflowInv, Typed
  <2>2. worker[w].at \in {"complete", "failed"} /\ tree' = tree
    BY DEF EndDomainRun, Complete, SuccessUnreported, StoreSuccess, At
  <2>3. error \in Errors \cup {None}
    BY <2>1 DEF Worker
  <2>4. \A v \in Workers \ {w} : worker'[v] = worker[v]
    BY <2>1 DEF EndDomainRun, Complete, SuccessUnreported, Raise, Goto
  <2> QED
    BY <2>1, <2>2, <2>3, <2>4 DEF CandidateKept, TreesGrow
<1>2. /\ worker[w].at \in Leasing /\ worker[w].at \in VerifyPlaces
      /\ worker[w].at \in ApplyPlaces \cup VerifyPlaces
  BY <1>1 DEF Leasing, VerifyPlaces, Acquiring, ApplyPlaces
<1>3. PICK k \in Keys : k = KeyOf[worker[w].patch]
  BY <1>2, OnCandidate
<1>4. Leased(w) /\ Knows(w, k) /\ l \in leases /\ l.run = RunOf(w)
  BY <1>2, <1>3, OnCandidate DEF Leased
<1>5. PICK r \in Runs : r = RunOf(w)
  BY <1>4 DEF Leased
<1>6. "failed" \in Stages /\ "complete" \in Stages
  BY WorkspaceAssumption
<1>7. worker'[w].at \in {"raised", "returned"}
  BY <1>1, Leads DEF EndDomainRun, Complete, SuccessUnreported
<1>8. Finds(w)'
  BY <1>7 DEF Finds, Unmeasured, Tested, Judged, Measured
<1>9. CASE EndDomainRun(w)
  <2>1. PICK now \in ClockReads : Transition(l, "FAILED", "failed", None, error, now)
    BY <1>9 DEF EndDomainRun, ReadsOf
  <2>2. /\ StoreNext /\ checkpoints' = checkpoints /\ l.run = r
        /\ \A s \in Runs \ {l.run} : runs'[s] = runs[s]
        /\ runs'[l.run].status = "FAILED"
    <3> HIDE DEF l, error
    <3> QED
      BY <1>1, <1>4, <1>5, <1>6, <2>1, TransitionCalled
  <2> QED
    BY <1>1, <1>8, <2>2, QuietFinds
<1>10. CASE StoreSuccess(w)
  <2>1. PICK now \in ClockReads : Transition(l, "SUCCEEDED", "complete", found, None, now)
    BY <1>10 DEF StoreSuccess, ReadsOf
  <2>2. found \in Evidence /\ At(w, "complete") /\ worker[w].at \in Measured
    BY <1>1, <1>4, <1>10, FindingsTyped DEF StoreSuccess, At, Measured
  <2>3. found # None
    BY <2>2, StoreAssumption
  <2>4. /\ StoreNext /\ UNCHANGED <<effects, checkpoints>>
        /\ \A s \in Runs \ {l.run} : runs'[s] = runs[s]
        /\ runs'[l.run].result = found
    <3> HIDE DEF l, found
    <3> QED
      BY <1>1, <1>4, <1>6, <2>1, <2>2, <2>3, TransitionCalled
  <2>5. Recorded(w)
    <3>1. checkpoints[r] # <<>>
      BY <1>5, <2>2 DEF FindingsInv, Finds, At
    <3>2. EvidenceOf(w) = Finding(r)
      BY <1>5, <2>2, FoundIt
    <3> QED
      BY <1>5, <3>1, <3>2 DEF FindingsInv, Recorded
  <2>6. Verified(r)'
    BY <1>1, <1>4, <1>5, <2>2, <2>4, <2>5, SuccessEarned DEF WorkflowInv
  <2>7. SuccessIsVerified'
    <3>1. SUFFICES ASSUME NEW s \in Runs, s # r, runs'[s].status = "SUCCEEDED"
                   PROVE  Verified(s)'
      BY <2>6 DEF SuccessIsVerified, Verified
    <3>2. runs[s].status = "SUCCEEDED" /\ Verified(s)
      BY <1>4, <1>5, <2>4, <3>1, VerifiedRuns DEF FindingsInv
    <3> QED
      BY <1>1, <2>4, <3>2, SuccessLasts DEF WorkflowInv
  <2>8. \A v \in Workers : Finds(v)'
    BY <1>1, <1>8, <2>4, FindingsLast DEF FindingsInv
  <2>9. \A s \in Runs : Finding(s)' = Finding(s)
    BY DEF Finding
  <2> QED
    BY <2>4, <2>7, <2>8, <2>9 DEF FindingsInv
<1> QED
  BY <1>9, <1>10 DEF Complete, SuccessUnreported

(* Acquiring the lease, and entering the stage.                            *)
LEMMA AcquireFinds ==
  ASSUME WorkflowInv, FindingsInv, NEW w \in Workers, outer' = outer, NEW here, NEW next,
         \/ here = "acquire for apply" /\ next = "apply"
         \/ here = "acquire for verify" /\ next = "verify",
         Acquire(w, here, next)
  PROVE  FindingsInv'
<1>1. /\ worker[w] \in Worker(Places) /\ w \in DOMAIN worker /\ Finds(w)
      /\ worker[w].at = here /\ Inv
  BY DEF WorkflowInv, AttemptsTyped, FindingsInv, Acquire, At, Places
<1>2. PICK r \in Runs : r = RunOf(w)
  BY <1>1, OnCandidate DEF ApplyPlaces, VerifyPlaces
<1>3. PICK owner \in Owners : owner = OwnerOf[r]
  BY WorkflowAssumption
<1>4. PICK now \in ClockReads :
        \/ /\ AcquireRun(r, owner, now) \/ ReenterRun(r, owner, now)
           /\ worker' = [worker EXCEPT ![w].at = next,
                ![w].lease = [run |-> r, owner |-> owner, fence |-> runs'[r].fence_token]]
        \/ /\ Raise(w, "error")
           /\ UNCHANGED storeVars
  BY <1>2, <1>3 DEF Acquire, ReadsOf
<1>5. CandidateKept /\ TreesGrow
  BY DEF CandidateKept, TreesGrow, Acquire
<1>6. \A v \in Workers \ {w} : worker'[v] = worker[v]
  BY <1>4 DEF Raise, WorkflowInv, AttemptsTyped
<1>7. CASE Raise(w, "error") /\ UNCHANGED storeVars
  <2>1. worker'[w].at = "raised"
    BY <1>1, <1>7 DEF Raise, Worker
  <2>2. Finds(w)'
    BY <2>1, NothingFound DEF VerifyPlaces, VerifySteps
  <2> QED
    BY <1>5, <1>6, <1>7, <2>2, IdleFinds DEF Acquire
<1>8. CASE /\ AcquireRun(r, owner, now) \/ ReenterRun(r, owner, now)
           /\ worker' = [worker EXCEPT ![w].at = next,
                ![w].lease = [run |-> r, owner |-> owner, fence |-> runs'[r].fence_token]]
  <2>1. StoreNext
    BY <1>8 DEF StoreNext, ClaimStep
  <2>2. checkpoints' = checkpoints
    BY <1>8 DEF AcquireRun, Grant, ReenterRun
  <2>3. \A s \in Runs : runs'[s].status = "SUCCEEDED" => runs[s].status = "SUCCEEDED"
    <3>1. CASE AcquireRun(r, owner, now)
      <4>1. Grant(r, owner, now)
        BY <3>1 DEF AcquireRun
      <4> QED
        BY <1>1, <4>1, GrantCalled
    <3>2. CASE ReenterRun(r, owner, now)
      BY <3>2 DEF ReenterRun
    <3> QED
      BY <1>8, <3>1, <3>2
  <2>4. worker'[w].at = next /\ worker'[w].acceptance = worker[w].acceptance
    BY <1>1, <1>8 DEF Worker
  <2>5. CASE next = "apply"
    <3>1. Finds(w)'
      BY <2>4, <2>5, NothingFound DEF VerifyPlaces, VerifySteps
    <3> QED
      BY <1>5, <1>6, <2>1, <2>2, <2>3, <3>1, QuietFinds
  <2>6. CASE next = "verify"
    <3>1. here = "acquire for verify" /\ worker[w].acceptance = None
      BY <1>1, <2>6 DEF Finds, Unmeasured
    <3>2. Finds(w)'
      BY <2>4, <2>6, <3>1 DEF Finds, Unmeasured, Tested, Judged, Measured
    <3> QED
      BY <1>5, <1>6, <2>1, <2>2, <2>3, <3>2, QuietFinds
  <2> QED
    BY <2>5, <2>6
<1> QED
  BY <1>4, <1>7, <1>8

LEMMA StageFinds ==
  ASSUME WorkflowInv, FindingsInv, NEW w \in Workers, outer' = outer,
         \/ EnterStage(w, "apply", "apply", "begin")
         \/ EnterStage(w, "verify", "verify", "verification")
         \/ ApplyPatch(w, KeyOf[worker[w].patch], "returned")
  PROVE  FindingsInv'
<1>1. Typed(Places) /\ Finds(w) /\ "returned" \in Places \cap {"verify", "returned"}
  BY PlacesTyped DEF WorkflowInv, FindingsInv
<1>2. worker[w].at \in {"apply", "verify"} \cup ApplySteps
  BY DEF EnterStage, ApplyPatch, BeginApply, GitApply, GitApplyKilled, ConfirmApply,
     DisconfirmApply, ReverseCheck, ReconcileApply, At, ApplySteps
<1>3. worker[w].at \in Leasing /\ worker[w].at \in ApplyPlaces \cup VerifyPlaces
  BY <1>2 DEF Leasing, ApplyPlaces, VerifyPlaces, ApplySteps, Acquiring
<1>4. PICK k \in Keys : k = KeyOf[worker[w].patch]
  BY <1>3, OnCandidate
<1>5. Leased(w) /\ Knows(w, k)
  BY <1>3, <1>4, OnCandidate
<1>6. Advances(w, k, Places, "returned") /\ checkpoints' = checkpoints
  <2>1. CASE EnterStage(w, "apply", "apply", "begin")
    BY <1>1, <1>5, <2>1, EnterStageAdvances, WorkspaceAssumption DEF WorkflowInv, ApplySteps
  <2>2. CASE EnterStage(w, "verify", "verify", "verification")
    BY <1>1, <1>5, <2>2, EnterStageAdvances, WorkspaceAssumption DEF WorkflowInv, VerifySteps
  <2>3. CASE ApplyPatch(w, KeyOf[worker[w].patch], "returned")
    BY <1>1, <1>4, <1>5, <2>3, ApplyPatchAdvances DEF WorkflowInv
  <2> QED
    BY <2>1, <2>2, <2>3
<1>7. Finds(w)'
  <2>1. CASE EnterStage(w, "apply", "apply", "begin")
    <3>1. worker'[w].at = "begin"
      BY <1>1, <2>1, Leads DEF EnterStage
    <3> QED
      BY <3>1, NothingFound DEF VerifyPlaces, VerifySteps
  <2>2. CASE EnterStage(w, "verify", "verify", "verification")
    <3>1. Moves(w, Places, "verification") /\ Remembers(w) /\ worker[w].at = "verify"
      BY <1>1, <2>2, GotoMoves DEF EnterStage, VerifySteps, At
    <3>2. worker'[w].at = "verification" /\ worker'[w].acceptance = None
      BY <1>1, <3>1 DEF Moves, Remembers, Finds, Unmeasured
    <3> QED
      BY <3>2 DEF Finds, Unmeasured, Tested, Judged, Measured
  <2>3. CASE ApplyPatch(w, KeyOf[worker[w].patch], "returned")
    <3>1. worker'[w].at \in ApplySteps \cup {"returned", "raised"}
      BY <1>1, <2>3, ApplyPatchPlaces
    <3> QED
      BY <3>1, NothingFound DEF ApplySteps, VerifyPlaces, VerifySteps
  <2> QED
    BY <2>1, <2>2, <2>3
<1>8. CandidateKept
  BY DEF CandidateKept
<1> QED
  BY <1>6, <1>7, <1>8, QuietFinds DEF Advances, Moves, Uneventful

(* The steps that leave the store alone.                                   *)
LEMMA AsideFinds ==
  ASSUME WorkflowInv, FindingsInv, CandidateKept, NEW w \in Workers,
         \/ CheckHead(w) \/ Reproduce(w) \/ Propose(w)
         \/ LoseLease(w) \/ Raises(w) \/ Crash(w)
         \/ StartAttempt(w) \/ PersistStep(w) \/ RetryOrFail(w)
  PROVE  FindingsInv'
<1>1. /\ worker \in [Workers -> Worker(Places)] /\ worker[w] \in Worker(Places)
      /\ w \in DOMAIN worker
  BY DEF WorkflowInv, AttemptsTyped
<1>2. /\ UNCHANGED <<storeVars, tree>>
      /\ \A v \in Workers \ {w} : worker'[v] = worker[v]
  BY <1>1 DEF CheckHead, Reproduce, Propose, LoseLease, Raises, Crash, StartAttempt,
     PersistStep, RetryOrFail, Goto, Raise, GoIdle
<1>3. CASE worker'[w].at \in {"run test", "returned", "raised", "idle"}
  <2>1. Finds(w)'
    BY <1>3, NothingFound DEF VerifyPlaces, VerifySteps
  <2> QED
    BY <1>2, <2>1, IdleFinds
<1>4. CASE StartAttempt(w)
  <2>1. PICK r \in Runs :
          worker' = [worker EXCEPT ![w] =
            [Idle EXCEPT !.at = Entry[outer[r].step], !.run = r,
                         !.patch = outer[r].patch]]
    BY <1>4 DEF StartAttempt
  <2>2. worker'[w].acceptance = None /\ worker'[w].at = Entry[outer[r].step]
    BY <1>1, <2>1 DEF Idle
  <2>3. outer[r].step \in Steps
    BY DEF WorkflowInv, AttemptsTyped, Outer
  <2>4. worker'[w].at \in {"head", "propose", "acquire for apply", "acquire for verify"}
    <3>1. /\ Entry["reproduce"] = "head" /\ Entry["repair"] = "propose"
          /\ Entry["apply"] = "acquire for apply"
          /\ Entry["verify"] = "acquire for verify"
      BY DEF Entry
    <3> QED
      BY <2>2, <2>3, <3>1 DEF Steps
  <2>5. Finds(w)'
    BY <2>2, <2>4 DEF Finds, Unmeasured, Tested, Judged, Measured
  <2> QED
    BY <1>2, <2>5, IdleFinds
<1>5. CASE Propose(w)
  <2>1. PICK patch \in Requests :
          worker' = [worker EXCEPT ![w].at = "returned", ![w].patch = patch]
    BY <1>5 DEF Propose
  <2>2. worker'[w].at = "returned"
    BY <1>1, <2>1 DEF Worker
  <2> QED
    BY <1>3, <2>2
<1>6. /\ \A place : Goto(w, place) => worker'[w].at = place
      /\ \A error : Raise(w, error) => worker'[w].at = "raised"
      /\ GoIdle(w) => worker'[w].at = "idle"
  BY <1>1, PlacesTyped, Leads DEF WorkflowInv, GoIdle, Idle
<1> QED
  BY <1>3, <1>4, <1>5, <1>6 DEF CheckHead, Reproduce, LoseLease, Raises, Crash,
     PersistStep, RetryOrFail

(* The steps that move nobody.                                             *)
LEMMA NobodyMovesFinds ==
  ASSUME WorkflowInv, FindingsInv, CandidateKept, worker' = worker, tree' = tree,
         \/ UNCHANGED storeVars \/ Tick
         \/ \E r \in Runs, now \in ClockReads : CreateRun(r, now)
  PROVE  FindingsInv'
<1>1. CASE UNCHANGED storeVars
  BY <1>1, IdleFinds, WorkflowAssumption
<1>2. TreesGrow /\ Inv
  BY DEF TreesGrow, WorkflowInv
<1>3. CASE Tick
  <2>1. StoreNext /\ checkpoints' = checkpoints /\ runs' = runs
    BY <1>3 DEF StoreNext, Tick
  <2> QED
    BY <1>2, <2>1, QuietFinds, WorkflowAssumption
<1>4. CASE \E r \in Runs, now \in ClockReads : CreateRun(r, now)
  <2>1. PICK r \in Runs, now \in ClockReads : CreateRun(r, now)
    BY <1>4
  <2>2. now \in Nat /\ IInv
    BY <1>2, ClockReadsType DEF Inv, IInv
  <2>3. Writes(r, runs[r].fence_token) /\ runs'[r].status = "PENDING"
    BY <2>1, <2>2, CreateRunWrites
  <2>4. \A s \in Runs : runs'[s].status = "SUCCEEDED" => runs[s].status = "SUCCEEDED"
    BY <2>3 DEF Writes
  <2>5. StoreNext /\ checkpoints' = checkpoints
    BY <2>1 DEF StoreNext, ClaimStep, CreateRun
  <2> QED
    BY <1>2, <2>4, <2>5, QuietFinds, WorkflowAssumption
<1> QED
  BY <1>1, <1>3, <1>4

LEMMA FindingsInvNext ==
  ASSUME Unshared, WorkflowInv, FindingsInv, [Next]_workflowVars
  PROVE  FindingsInv'
<1>1. CandidateKept
  BY CandidateStays
<1>2. ASSUME NEW w \in Workers, StepFunction(w) PROVE FindingsInv'
  <2>1. outer' = outer
    BY <1>2 DEF StepFunction
  <2>2. CASE Apply(w)
    BY <2>1, <2>2, AcquireFinds, StageFinds DEF Apply
  <2>3. CASE Verify(w)
    BY <2>1, <2>3, AcquireFinds, StageFinds, MeasureFinds, RecordFinds, JudgeFinds, EndFinds
       DEF Verify
  <2> QED
    BY <1>1, <1>2, <2>2, <2>3, AsideFinds DEF StepFunction
<1>3. ASSUME NEW w \in Workers, StepRaises(w) \/ Runtime(w) \/ Crash(w) PROVE FindingsInv'
  BY <1>1, <1>3, AsideFinds, EndFinds DEF StepRaises, Runtime
<1>4. ASSUME NEW r \in Runs, CreateDomainRun(r) \/ Submit(r) \/ GiveUp(r)
      PROVE  FindingsInv'
  BY <1>1, <1>4, NobodyMovesFinds DEF CreateDomainRun, Submit, GiveUp, vars
<1>5. CASE Pass \/ UNCHANGED workflowVars
  BY <1>1, <1>5, NobodyMovesFinds DEF Pass, workflowVars, vars
<1> QED
  BY <1>2, <1>3, <1>4, <1>5 DEF Next, ProcessStep

(* If every run has a worktree of its own, a domain run that succeeded     *)
(* names a patch the ledger confirmed, that is in the worktree and passes  *)
(* test and acceptance command, and its result is what the last checkpoint *)
(* recorded: attempts of the verify step that overlap find the same.       *)
THEOREM WorkflowSuccessVerified ==
  ASSUME Unshared PROVE Spec => []SuccessIsVerified
<1>1. Init => FindingsInv
  <2>1. SUFFICES ASSUME Init PROVE FindingsInv
    OBVIOUS
  <2>2. /\ \A w \in Workers : worker[w].at = "idle"
        /\ \A r \in Runs : checkpoints[r] = <<>> /\ runs[r].status = "ABSENT"
    BY <2>1 DEF Init, Idle, StoreInit, AbsentRun
  <2> QED
    BY <2>2 DEF FindingsInv, Finds, Unmeasured, Tested, Judged, Measured, SuccessIsVerified
<1>2. WorkflowInv /\ FindingsInv /\ [Next]_workflowVars => FindingsInv'
  BY FindingsInvNext
<1>3. FindingsInv => SuccessIsVerified
  BY DEF FindingsInv
<1> QED
  BY <1>1, <1>2, <1>3, WorkflowInvariant, PTL DEF Spec
-----------------------------------------------------------------------------
(* What the two stores know of each other's end.                           *)

(* acquire_run raises for the verify step.                                 *)
Refused(w) ==
  /\ At(w, "acquire for verify")
  /\ \E now \in ReadsOf(w) : AcquireRefused(RunOf(w), OwnerOf[RunOf(w)], now)

(* What a process that works on an attempt does to the domain runs: it     *)
(* takes the lease of one, or ends its own; with success as its last call. *)
DomainStep(w) ==
  \A r \in Runs :
    \/ /\ runs'[r].status = runs[r].status
       /\ runs'[r].lease_owner = runs[r].lease_owner
    \/ runs'[r].status = "RUNNING" /\ runs'[r].lease_owner = OwnerOf[r]
    \/ /\ r = RunOf(w)
       /\ \/ runs'[r].status = "FAILED"
          \/ /\ runs'[r].status = "SUCCEEDED"
             /\ worker[w].at = "complete"
             /\ worker'[w].at = "returned" \/ SuccessUnreported(w)

(* What it does to itself, and nobody else.                                *)
AttemptStep(w) ==
  /\ \A v \in Workers \ {w} : worker'[v] = worker[v]
  /\ worker'[w].run = worker[w].run
  /\ worker'[w].at \in VerifyPlaces => worker[w].at \in VerifyPlaces
  /\ worker[w].at \notin {"idle", "raised", "returned"}
  /\ DomainStep(w)
  /\ worker[w].at \in VerifyPlaces /\ worker'[w].at = "raised" =>
       \/ Raises(w) \/ LoseLease(w) \/ Refused(w)
       \/ runs'[RunOf(w)].status \in Terminal

LEMMA ApplyPatchSteps ==
  ASSUME WorkflowInv, NEW w \in Workers,
         ApplyPatch(w, KeyOf[worker[w].patch], "returned")
  PROVE  AttemptStep(w)
<1>1. worker[w].at \in ApplySteps
  BY DEF ApplyPatch, BeginApply, GitApply, GitApplyKilled, ConfirmApply, DisconfirmApply,
     ReverseCheck, ReconcileApply, At, ApplySteps
<1>2. /\ worker[w].at \in Leasing /\ worker[w].at \in ApplyPlaces \cup VerifyPlaces
      /\ worker[w].at \notin VerifyPlaces \cup {"idle", "raised", "returned"}
  BY <1>1 DEF ApplyPlaces, VerifyPlaces, VerifySteps, Leasing, ApplySteps, Acquiring
<1>3. PICK k \in Keys : k = KeyOf[worker[w].patch]
  BY <1>2, OnCandidate
<1>4. Leased(w) /\ Knows(w, k)
  BY <1>2, <1>3, OnCandidate
<1>5. Advances(w, k, Places, "returned")
  BY <1>3, <1>4, PlacesTyped, ApplyPatchAdvances DEF WorkflowInv
<1>6. worker'[w].at \in ApplySteps \cup {"returned", "raised"}
  BY PlacesTyped, ApplyPatchPlaces DEF WorkflowInv
<1>7. worker'[w].at \notin VerifyPlaces
  BY <1>6 DEF ApplySteps, VerifyPlaces, VerifySteps
<1>8. runs' = runs
  BY DEF ApplyPatch, BeginApply, GitApply, GitApplyKilled, ConfirmApply, DisconfirmApply,
     ReverseCheck, ReconcileApply, BeginEffect, FinishEffect, ReconcileEffect, storeVars
<1>9. DomainStep(w)
  BY <1>8 DEF DomainStep
<1> QED
  BY <1>2, <1>5, <1>7, <1>9 DEF AttemptStep, Advances, Moves

LEMMA StageSteps ==
  ASSUME WorkflowInv, NEW w \in Workers, NEW here, NEW next,
         \/ here = "apply" /\ next = "begin"
         \/ here = "verify" /\ next = "verification",
         EnterStage(w, here, here, next)
  PROVE  AttemptStep(w)
<1>1. Typed(Places) /\ worker[w].at = here /\ Goto(w, next) /\ Inv
  BY PlacesTyped DEF WorkflowInv, EnterStage, At
<1>2. worker[w].at \in Leasing /\ worker[w].at \in ApplyPlaces \cup VerifyPlaces
  BY <1>1 DEF ApplyPlaces, VerifyPlaces, VerifySteps, Leasing, ApplySteps, Acquiring
<1>3. worker[w].lease \in leases
  BY <1>2, OnCandidate DEF Leased
<1>4. PICK now \in ClockReads : AdvanceStage(worker[w].lease, here, now)
  BY DEF EnterStage, ReadsOf
<1>5. here \in Stages
  BY WorkspaceAssumption
<1>6. \A r \in Runs : /\ runs'[r].status = runs[r].status
                      /\ runs'[r].lease_owner = runs[r].lease_owner
  BY <1>1, <1>3, <1>4, <1>5, AdvanceStageCalled
<1>7. Moves(w, Places, next)
  <2>1. next \in ApplySteps \cup VerifySteps
    BY DEF ApplySteps, VerifySteps
  <2> QED
    BY <1>1, <2>1, GotoMoves
<1>8. /\ worker[w].at \notin {"idle", "raised", "returned"}
      /\ next \in VerifyPlaces => worker[w].at \in VerifyPlaces
      /\ next # "raised"
  BY <1>1 DEF VerifyPlaces, VerifySteps
<1> QED
  BY <1>6, <1>7, <1>8 DEF AttemptStep, DomainStep, Moves

LEMMA MeasureSteps ==
  ASSUME WorkflowInv, NEW w \in Workers,
         Verification(w) \/ Acceptance(w) \/ TakeFingerprint(w) \/ Record(w) \/ Judge(w)
  PROVE  AttemptStep(w)
<1>1. /\ Typed(Places) /\ worker \in [Workers -> Worker(Places)]
      /\ worker[w] \in Worker(Places) /\ w \in DOMAIN worker
  BY PlacesTyped DEF WorkflowInv, Typed
<1>2. runs' = runs
  BY DEF Verification, Acceptance, TakeFingerprint, Record, RecordCheckpoint, Judge,
     storeVars
<1>3. worker[w].at \in VerifySteps
  BY DEF Verification, Acceptance, TakeFingerprint, Record, Judge, At, VerifySteps
<1>4. /\ worker[w].at \in VerifyPlaces
      /\ worker[w].at \notin {"idle", "raised", "returned"}
  BY <1>3 DEF VerifyPlaces, VerifySteps
<1>5. PICK new : /\ worker' = [worker EXCEPT ![w] = new]
                 /\ new.run = worker[w].run /\ new.at # "raised"
  <2>1. CASE Verification(w) \/ Acceptance(w) \/ TakeFingerprint(w)
    <3>1. worker'[w].at # "raised"
      BY <1>1, <2>1, MeasurePlaces
    <3>2. worker'[w].run = worker[w].run /\ worker' = [worker EXCEPT ![w] = worker'[w]]
      BY <1>1, <2>1 DEF Verification, Acceptance, TakeFingerprint, Worker
    <3> QED
      BY <3>1, <3>2
  <2>2. ASSUME NEW place \in {"judge", "complete"}, Goto(w, place)
        PROVE  \E new : /\ worker' = [worker EXCEPT ![w] = new]
                        /\ new.run = worker[w].run /\ new.at # "raised"
    <3> DEFINE goes == [worker[w] EXCEPT !.at = place]
    <3>1. worker' = [worker EXCEPT ![w] = goes]
      BY <2>2 DEF Goto
    <3>2. goes.run = worker[w].run /\ goes.at # "raised"
      BY <1>1, <2>2 DEF Worker
    <3> QED
      BY <3>1, <3>2
  <2>3. ASSUME NEW error,
               worker' = [worker EXCEPT ![w].at = "failed", ![w].error = error]
        PROVE  \E new : /\ worker' = [worker EXCEPT ![w] = new]
                        /\ new.run = worker[w].run /\ new.at # "raised"
    <3> DEFINE fails == [worker[w] EXCEPT !.at = "failed", !.error = error]
    <3>1. worker' = [worker EXCEPT ![w] = fails]
      BY <2>3
    <3>2. fails.run = worker[w].run /\ fails.at # "raised"
      BY <1>1 DEF Worker
    <3> QED
      BY <3>1, <3>2
  <2> QED
    BY <2>1, <2>2, <2>3 DEF Record, Judge
<1>6. /\ \A v \in Workers \ {w} : worker'[v] = worker[v]
      /\ worker'[w].run = worker[w].run /\ worker'[w].at # "raised"
  BY <1>1, <1>5
<1>7. DomainStep(w)
  BY <1>2 DEF DomainStep
<1> QED
  BY <1>4, <1>6, <1>7 DEF AttemptStep

LEMMA EndSteps ==
  ASSUME WorkflowInv, NEW w \in Workers,
         EndDomainRun(w) \/ Complete(w) \/ SuccessUnreported(w)
  PROVE  AttemptStep(w)
<1> DEFINE l == worker[w].lease
           found == EvidenceOf(w)
           error == worker[w].error
<1>1. /\ Typed(Places) /\ worker[w].at \in {"complete", "failed"} /\ Inv
      /\ error \in Errors \cup {None}
  BY PlacesTyped DEF WorkflowInv, Typed, EndDomainRun, Complete, SuccessUnreported,
     StoreSuccess, At, Worker
<1>2. /\ worker[w].at \in Leasing /\ worker[w].at \in VerifyPlaces
      /\ worker[w].at \in ApplyPlaces \cup VerifyPlaces
      /\ worker[w].at \notin {"idle", "raised", "returned"}
  BY <1>1 DEF Leasing, VerifyPlaces, Acquiring, ApplyPlaces
<1>3. PICK k \in Keys : k = KeyOf[worker[w].patch]
  BY <1>2, OnCandidate
<1>4. Leased(w) /\ Knows(w, k) /\ l \in leases /\ l.run = RunOf(w)
  BY <1>2, <1>3, OnCandidate DEF Leased
<1>5. "failed" \in Stages /\ "complete" \in Stages
  BY WorkspaceAssumption
<1>6. CASE EndDomainRun(w)
  <2>1. PICK now \in ClockReads : Transition(l, "FAILED", "failed", None, error, now)
    BY <1>6 DEF EndDomainRun, ReadsOf
  <2>2. /\ \A s \in Runs \ {RunOf(w)} : runs'[s] = runs[s]
        /\ runs'[RunOf(w)].status = "FAILED"
    <3>1. /\ \A s \in Runs \ {l.run} : runs'[s] = runs[s]
          /\ runs'[l.run].status = "FAILED"
      <4> HIDE DEF l, error
      <4> QED
        BY <1>1, <1>4, <1>5, <2>1, TransitionCalled
    <3> QED
      BY <1>4, <3>1
  <2>3. DomainStep(w)
    BY <2>2 DEF DomainStep
  <2> DEFINE new == [worker[w] EXCEPT !.at = "raised", !.error = error]
  <2>4. new \in Worker(Places) /\ new.at = "raised" /\ new.run = worker[w].run
    <3>1. worker[w] \in Worker(Places)
      BY <1>1 DEF Typed
    <3> HIDE DEF error
    <3> QED
      BY <1>1, <3>1 DEF Worker
  <2>5. worker' = [worker EXCEPT ![w] = new]
    BY <1>6 DEF EndDomainRun, Raise
  <2> HIDE DEF new
  <2>6. worker'[w] = new /\ \A v \in Workers \ {w} : worker'[v] = worker[v]
    BY <1>1, <2>4, <2>5, OneMoves
  <2>7. "raised" \notin VerifyPlaces
    BY DEF VerifyPlaces, VerifySteps
  <2> QED
    BY <1>2, <2>2, <2>3, <2>4, <2>6, <2>7 DEF AttemptStep, Terminal
<1>7. CASE Complete(w) \/ SuccessUnreported(w)
  <2>1. PICK now \in ClockReads : Transition(l, "SUCCEEDED", "complete", found, None, now)
    BY <1>7 DEF Complete, SuccessUnreported, StoreSuccess, ReadsOf
  <2>2. found \in Evidence /\ At(w, "complete")
    BY <1>1, <1>4, <1>7, FindingsTyped
       DEF Complete, SuccessUnreported, StoreSuccess, At, Measured
  <2>3. /\ \A s \in Runs \ {RunOf(w)} : runs'[s] = runs[s]
        /\ runs'[RunOf(w)].status = "SUCCEEDED"
    <3>1. /\ \A s \in Runs \ {l.run} : runs'[s] = runs[s]
          /\ runs'[l.run].status = "SUCCEEDED"
      <4> HIDE DEF l, found
      <4> QED
        BY <1>1, <1>4, <1>5, <2>1, <2>2, TransitionCalled
    <3> QED
      BY <1>4, <3>1
  <2>4. PICK place \in {"returned", "raised"} :
          Moves(w, Places, place) /\ (place = "raised" => SuccessUnreported(w))
    BY <1>1, <1>7, GotoMoves, RaiseMoves, EvidenceAssumption
       DEF Complete, SuccessUnreported, Places
  <2>5. worker'[w].at = place /\ worker[w].at = "complete"
    BY <2>2, <2>4 DEF Moves, At
  <2>6. DomainStep(w)
    BY <2>3, <2>4, <2>5 DEF DomainStep
  <2>7. place \notin VerifyPlaces
    BY DEF VerifyPlaces, VerifySteps
  <2> QED
    BY <1>2, <2>3, <2>4, <2>5, <2>6, <2>7 DEF AttemptStep, Moves, Terminal
<1> QED
  BY <1>6, <1>7

LEMMA AcquireSteps ==
  ASSUME WorkflowInv, NEW w \in Workers, NEW here, NEW next,
         \/ here = "acquire for apply" /\ next = "apply"
         \/ here = "acquire for verify" /\ next = "verify",
         Acquire(w, here, next)
  PROVE  AttemptStep(w)
<1>1. /\ Typed(Places) /\ worker[w] \in Worker(Places) /\ w \in DOMAIN worker
      /\ worker[w].at = here /\ Inv
  BY PlacesTyped DEF WorkflowInv, Typed, Acquire, At
<1>2. /\ worker[w].at \in ApplyPlaces \cup VerifyPlaces
      /\ worker[w].at \notin {"idle", "raised", "returned"}
      /\ next # "raised"
      /\ next \in VerifyPlaces => worker[w].at \in VerifyPlaces
      /\ "raised" \notin VerifyPlaces
  BY <1>1 DEF ApplyPlaces, VerifyPlaces, ApplySteps, VerifySteps
<1>3. PICK r \in Runs : r = RunOf(w)
  BY <1>2, OnCandidate
<1>4. PICK owner \in Owners : owner = OwnerOf[r]
  BY WorkflowAssumption
<1>5. PICK now \in ReadsOf(w) :
        \/ /\ AcquireRun(r, owner, now) \/ ReenterRun(r, owner, now)
           /\ worker' = [worker EXCEPT ![w].at = next,
                ![w].lease = [run |-> r, owner |-> owner, fence |-> runs'[r].fence_token]]
        \/ /\ AcquireRefused(r, owner, now)
           /\ Raise(w, "error")
           /\ UNCHANGED storeVars
  BY <1>3, <1>4 DEF Acquire
<1>6. CASE AcquireRefused(r, owner, now) /\ Raise(w, "error") /\ UNCHANGED storeVars
  <2>1. Moves(w, Places, "raised")
    BY <1>1, <1>6, RaiseMoves, EvidenceAssumption
  <2>2. here = "acquire for verify" => Refused(w)
    BY <1>1, <1>3, <1>4, <1>6 DEF Refused, At
  <2>3. worker[w].at \in VerifyPlaces => here = "acquire for verify"
    BY <1>1 DEF VerifyPlaces, VerifySteps
  <2>4. DomainStep(w)
    BY <1>6 DEF DomainStep, storeVars
  <2> QED
    BY <1>2, <2>1, <2>2, <2>3, <2>4 DEF AttemptStep, Moves
<1>7. CASE /\ AcquireRun(r, owner, now) \/ ReenterRun(r, owner, now)
           /\ worker' = [worker EXCEPT ![w].at = next,
                ![w].lease = [run |-> r, owner |-> owner, fence |-> runs'[r].fence_token]]
  <2>1. /\ \A v \in Workers \ {w} : worker'[v] = worker[v]
        /\ worker'[w].run = worker[w].run /\ worker'[w].at = next
    BY <1>1, <1>7 DEF Worker, Typed
  <2>2. DomainStep(w)
    <3>1. CASE ReenterRun(r, owner, now)
      BY <3>1 DEF ReenterRun, DomainStep
    <3>2. CASE AcquireRun(r, owner, now)
      <4>1. Grant(r, owner, now) /\ IInv /\ now \in Nat
        BY <1>1, <1>5, <3>2, ClockReadsType DEF AcquireRun, Inv, IInv, ReadsOf
      <4>2. /\ Writes(r, runs[r].fence_token + 1) /\ runs'[r].status = "RUNNING"
            /\ runs'[r].lease_owner = OwnerOf[r]
        BY <1>4, <4>1, GrantWrites
      <4>3. \A s \in Runs \ {r} : runs'[s] = runs[s]
        BY <4>2 DEF Writes
      <4> QED
        BY <4>2, <4>3 DEF DomainStep
    <3> QED
      BY <1>7, <3>1, <3>2
  <2> QED
    BY <1>2, <2>1, <2>2 DEF AttemptStep
<1> QED
  BY <1>5, <1>6, <1>7

LEMMA AsideSteps ==
  ASSUME WorkflowInv, NEW w \in Workers,
         CheckHead(w) \/ Reproduce(w) \/ Propose(w) \/ LoseLease(w) \/ Raises(w)
  PROVE  AttemptStep(w)
<1>1. /\ Typed(Places) /\ worker \in [Workers -> Worker(Places)]
      /\ worker[w] \in Worker(Places) /\ w \in DOMAIN worker /\ UNCHANGED storeVars
  BY PlacesTyped
     DEF WorkflowInv, Typed, CheckHead, Reproduce, Propose, LoseLease, Raises
<1>2. worker[w].at \in Places \ {"returned"}
  BY DEF CheckHead, Reproduce, Propose, LoseLease, Raises, At, Places, Commands, StoreCalls
<1>3. worker[w].at \notin {"idle", "raised", "returned"}
  BY <1>2 DEF Places, Commands, StoreCalls, Acquiring
<1>4. DomainStep(w)
  BY <1>1 DEF DomainStep, storeVars
<1>5. /\ \A v \in Workers \ {w} : worker'[v] = worker[v]
      /\ worker'[w].run = worker[w].run
      /\ worker'[w].at \in {"run test", "returned", "raised"}
  <2>1. ASSUME Raise(w, "error")
        PROVE  /\ \A v \in Workers \ {w} : worker'[v] = worker[v]
               /\ worker'[w].run = worker[w].run /\ worker'[w].at = "raised"
    BY <1>1, <2>1, RaiseMoves, EvidenceAssumption DEF Moves
  <2>2. ASSUME NEW place \in {"run test", "returned"}, Goto(w, place)
        PROVE  /\ \A v \in Workers \ {w} : worker'[v] = worker[v]
               /\ worker'[w].run = worker[w].run /\ worker'[w].at = place
    <3>1. place \in Places
      BY <2>2 DEF Places, Commands
    <3>2. Moves(w, Places, place)
      BY <1>1, <2>2, <3>1, GotoMoves
    <3> QED
      BY <3>2 DEF Moves
  <2>3. ASSUME Propose(w)
        PROVE  /\ \A v \in Workers \ {w} : worker'[v] = worker[v]
               /\ worker'[w].run = worker[w].run /\ worker'[w].at = "returned"
    <3>1. PICK patch \in Requests :
            worker' = [worker EXCEPT ![w].at = "returned", ![w].patch = patch]
      BY <2>3 DEF Propose
    <3> DEFINE proposes == [worker[w] EXCEPT !.at = "returned", !.patch = patch]
    <3>2. proposes.run = worker[w].run /\ proposes.at = "returned"
      BY <1>1 DEF Worker
    <3>3. worker' = [worker EXCEPT ![w] = proposes]
      BY <3>1
    <3> HIDE DEF proposes
    <3>4. worker'[w] = proposes /\ \A v \in Workers \ {w} : worker'[v] = worker[v]
      BY <1>1, <3>3
    <3> QED
      BY <3>2, <3>4
  <2>4. \/ Raise(w, "error") \/ Propose(w)
        \/ Goto(w, "run test") \/ Goto(w, "returned")
    BY DEF CheckHead, Reproduce, LoseLease, Raises
  <2> QED
    BY <2>1, <2>2, <2>3, <2>4
<1>6. worker'[w].at \notin VerifyPlaces
  BY <1>5 DEF VerifyPlaces, VerifySteps
<1>7. worker[w].at \in VerifyPlaces => LoseLease(w) \/ Raises(w)
  BY DEF CheckHead, Reproduce, Propose, At, VerifyPlaces, VerifySteps
<1> QED
  BY <1>3, <1>4, <1>5, <1>6, <1>7 DEF AttemptStep

LEMMA AttemptsStep ==
  ASSUME WorkflowInv, NEW w \in Workers, StepFunction(w) \/ StepRaises(w)
  PROVE  AttemptStep(w) /\ outer' = outer
<1>1. outer' = outer
  BY DEF StepFunction, StepRaises
<1>2. CASE Apply(w)
  BY <1>1, <1>2, AcquireSteps, StageSteps, ApplyPatchSteps DEF Apply
<1>3. CASE Verify(w)
  BY <1>1, <1>3, AcquireSteps, StageSteps, MeasureSteps, EndSteps DEF Verify
<1> QED
  BY <1>1, <1>2, <1>3, AsideSteps, EndSteps DEF StepFunction, StepRaises

(* What a step of the runtime leaves alone that is about row r and process *)
(* w.                                                                      *)
RuntimeStep(w, r) ==
  /\ runs' = runs
  /\ \A s \in Runs \ {r} : outer'[s] = outer[s]
  /\ \A v \in Workers \ {w} : worker'[v] = worker[v]

(* Submission.                                                             *)
LEMMA SubmitStep ==
  ASSUME WorkflowInv, NEW r \in Runs, Submit(r)
  PROVE  /\ RuntimeStep(None, r) /\ worker' = worker
         /\ runs[r].status # "ABSENT"
         /\ outer[r].status = "none" /\ outer'[r].status = "active"
         /\ outer'[r].holder = outer[r].holder
         /\ outer'[r].step = outer[r].step /\ outer'[r].raised = outer[r].raised
<1>1. outer[r] \in Outer /\ r \in DOMAIN outer
  BY DEF WorkflowInv, AttemptsTyped
<1> DEFINE row == [outer[r] EXCEPT !.status = "active"]
<1>2. /\ row.status = "active" /\ row.holder = outer[r].holder
      /\ row.step = outer[r].step /\ row.raised = outer[r].raised
  BY <1>1 DEF Outer
<1>3. outer' = [outer EXCEPT ![r] = row]
  BY <1>1 DEF Submit
<1> HIDE DEF row
<1>4. outer'[r] = row /\ \A s \in Runs \ {r} : outer'[s] = outer[s]
  BY <1>1, <1>3
<1> QED
  BY <1>2, <1>4 DEF Submit, RuntimeStep, vars, storeVars

(* An attempt is given up.                                                 *)
LEMMA GiveUpStep ==
  ASSUME WorkflowInv, NEW r \in Runs, GiveUp(r)
  PROVE  /\ RuntimeStep(None, r) /\ worker' = worker
         /\ outer[r].holder # None /\ outer'[r].holder = None
         /\ outer'[r].step = outer[r].step /\ outer'[r].raised = outer[r].raised
         /\ \/ outer'[r].status = outer[r].status
            \/ outer'[r].status = "failed" /\ outer[r].step = "repair"
<1>1. outer[r] \in Outer /\ r \in DOMAIN outer
  BY DEF WorkflowInv, AttemptsTyped
<1>2. PICK row : /\ outer' = [outer EXCEPT ![r] = row] /\ row.holder = None
                 /\ row.step = outer[r].step /\ row.raised = outer[r].raised
                 /\ \/ row.status = outer[r].status
                    \/ row.status = "failed" /\ outer[r].step = "repair"
  <2>1. CASE outer' = [outer EXCEPT ![r].holder = None]
    <3> DEFINE row == [outer[r] EXCEPT !.holder = None]
    <3>1. /\ row.holder = None /\ row.step = outer[r].step
          /\ row.raised = outer[r].raised /\ row.status = outer[r].status
      BY <1>1 DEF Outer
    <3>2. outer' = [outer EXCEPT ![r] = row]
      BY <2>1
    <3> QED
      BY <3>1, <3>2
  <2>2. CASE /\ outer[r].step = "repair"
             /\ outer' = [outer EXCEPT ![r].holder = None, ![r].status = "failed"]
    <3> DEFINE row == [outer[r] EXCEPT !.holder = None, !.status = "failed"]
    <3>1. /\ row.holder = None /\ row.step = outer[r].step
          /\ row.raised = outer[r].raised /\ row.status = "failed"
      BY <1>1 DEF Outer
    <3>2. outer' = [outer EXCEPT ![r] = row]
      BY <1>1, <2>2
    <3> QED
      BY <2>2, <3>1, <3>2
  <2> QED
    BY <2>1, <2>2 DEF GiveUp
<1>3. outer'[r] = row /\ \A s \in Runs \ {r} : outer'[s] = outer[s]
  BY <1>1, <1>2
<1> QED
  BY <1>2, <1>3 DEF GiveUp, RuntimeStep, vars, storeVars

(* An attempt begins.                                                      *)
LEMMA StartStep ==
  ASSUME WorkflowInv, NEW w \in Workers, StartAttempt(w)
  PROVE  \E r \in Runs :
           /\ RuntimeStep(w, r) /\ worker[w].at = "idle"
           /\ worker'[w].run = r /\ worker'[w].at \notin {"idle", "raised", "returned"}
           /\ worker'[w].at \in VerifyPlaces => outer[r].step = "verify"
           /\ outer[r].status = "active" /\ outer'[r].status = "active"
           /\ outer[r].holder = None /\ outer'[r].holder = w
           /\ outer'[r].step = outer[r].step /\ outer'[r].raised = outer[r].raised
<1>1. PICK r \in Runs :
        /\ outer[r].status = "active" /\ outer[r].holder = None
        /\ worker' = [worker EXCEPT ![w] =
             [Idle EXCEPT !.at = Entry[outer[r].step], !.run = r,
                          !.patch = outer[r].patch]]
        /\ outer' = [outer EXCEPT ![r].holder = w]
  BY DEF StartAttempt
<1> DEFINE step == outer[r].step
           goes == [Idle EXCEPT !.at = Entry[step], !.run = r, !.patch = outer[r].patch]
           row == [outer[r] EXCEPT !.holder = w]
<1>2. /\ outer[r] \in Outer /\ r \in DOMAIN outer /\ step \in Steps
      /\ w \in DOMAIN worker
  BY DEF WorkflowInv, AttemptsTyped, Outer
<1>3. /\ row.status = outer[r].status /\ row.holder = w
      /\ row.step = outer[r].step /\ row.raised = outer[r].raised
  BY <1>2 DEF Outer
<1>4. outer' = [outer EXCEPT ![r] = row]
  BY <1>1
<1>5. /\ step = "reproduce" => Entry[step] = "head"
      /\ step = "repair" => Entry[step] = "propose"
      /\ step = "apply" => Entry[step] = "acquire for apply"
      /\ step = "verify" => Entry[step] = "acquire for verify"
  <2>1. /\ Entry["reproduce"] = "head" /\ Entry["repair"] = "propose"
        /\ Entry["apply"] = "acquire for apply"
        /\ Entry["verify"] = "acquire for verify"
    BY DEF Entry
  <2> HIDE DEF step
  <2> QED
    BY <2>1
<1>6. goes.at = Entry[step] /\ goes.run = r
  BY DEF Idle
<1>7. worker' = [worker EXCEPT ![w] = goes]
  BY <1>1
<1> HIDE DEF row, goes
<1>8. /\ outer'[r] = row /\ \A s \in Runs \ {r} : outer'[s] = outer[s]
      /\ worker'[w] = goes /\ \A v \in Workers \ {w} : worker'[v] = worker[v]
  BY <1>2, <1>4, <1>7
<1>9. /\ Entry[step] \notin {"idle", "raised", "returned"}
      /\ Entry[step] \in VerifyPlaces => step = "verify"
  <2> HIDE DEF step
  <2> QED
    BY <1>2, <1>5 DEF Steps, VerifyPlaces, VerifySteps
<1>10. RuntimeStep(w, r) /\ worker[w].at = "idle"
  BY <1>8 DEF StartAttempt, At, RuntimeStep, storeVars
<1> HIDE DEF step
<1>11. /\ worker'[w].run = r /\ worker'[w].at \notin {"idle", "raised", "returned"}
       /\ worker'[w].at \in VerifyPlaces => step = "verify"
  BY <1>6, <1>8, <1>9
<1>12. /\ outer[r].status = "active" /\ outer'[r].status = "active"
       /\ outer[r].holder = None /\ outer'[r].holder = w
       /\ outer'[r].step = outer[r].step /\ outer'[r].raised = outer[r].raised
  BY <1>1, <1>3, <1>8
<1> QED
  BY <1>10, <1>11, <1>12 DEF step

(* What a step returned is persisted, if the attempt is the current one.   *)
LEMMA PersistedStep ==
  ASSUME WorkflowInv, NEW w \in Workers, PersistStep(w)
  PROVE  \E r \in Runs :
           /\ RuntimeStep(w, r) /\ r = RunOf(w)
           /\ worker[w].at = "returned" /\ worker'[w].at = "idle"
           /\ \/ outer' = outer /\ outer[r].holder # w
              \/ /\ outer[r].holder = w /\ outer'[r].holder = None
                 /\ \/ /\ outer[r].step = "verify" /\ outer'[r].step = "verify"
                       /\ outer'[r].status = "succeeded"
                       /\ outer'[r].raised = outer[r].raised
                    \/ /\ outer[r].step # "verify"
                       /\ outer'[r].status = outer[r].status
                       /\ outer'[r].raised = 0
<1>1. /\ Typed(Places) /\ Standing(w) /\ UNCHANGED storeVars /\ GoIdle(w)
      /\ worker[w].at = "returned" /\ ~At(w, "idle")
  BY PlacesTyped DEF WorkflowInv, PersistStep, At
<1>2. PICK r \in Runs : r = RunOf(w)
  BY <1>1 DEF Standing
<1>3. worker'[w].at = "idle" /\ \A v \in Workers \ {w} : worker'[v] = worker[v]
  BY <1>1, GoIdleMoves DEF Idle
<1>4. outer[r] \in Outer /\ r \in DOMAIN outer
  BY DEF WorkflowInv, AttemptsTyped
<1>5. CASE ~IsCurrent(w)
  <2>1. outer' = outer /\ outer[r].holder # w
    BY <1>2, <1>5 DEF PersistStep, IsCurrent
  <2> QED
    BY <1>1, <1>2, <1>3, <2>1 DEF RuntimeStep, storeVars
<1>6. CASE IsCurrent(w)
  <2>1. /\ outer[r].holder = w
        /\ outer' = [outer EXCEPT ![r] =
             IF outer[r].step = "verify"
             THEN [outer[r] EXCEPT !.status = "succeeded", !.holder = None]
             ELSE [outer[r] EXCEPT !.step = Successor[outer[r].step], !.raised = 0,
                                   !.patch = worker[w].patch, !.holder = None]]
    BY <1>2, <1>6 DEF PersistStep, IsCurrent
  <2>2. PICK row :
          /\ outer' = [outer EXCEPT ![r] = row] /\ row.holder = None
          /\ \/ /\ outer[r].step = "verify" /\ row.step = "verify"
                /\ row.status = "succeeded" /\ row.raised = outer[r].raised
             \/ /\ outer[r].step # "verify"
                /\ row.status = outer[r].status /\ row.raised = 0
    <3>1. CASE outer[r].step = "verify"
      <4> DEFINE row == [outer[r] EXCEPT !.status = "succeeded", !.holder = None]
      <4>1. /\ row.holder = None /\ row.step = "verify" /\ row.status = "succeeded"
            /\ row.raised = outer[r].raised
        BY <1>4, <3>1 DEF Outer
      <4>2. outer' = [outer EXCEPT ![r] = row]
        BY <2>1, <3>1
      <4> QED
        BY <3>1, <4>1, <4>2
    <3>2. CASE outer[r].step # "verify"
      <4> DEFINE row == [outer[r] EXCEPT !.step = Successor[outer[r].step], !.raised = 0,
                                         !.patch = worker[w].patch, !.holder = None]
      <4>1. row.holder = None /\ row.status = outer[r].status /\ row.raised = 0
        BY <1>4 DEF Outer
      <4>2. outer' = [outer EXCEPT ![r] = row]
        BY <2>1, <3>2
      <4> QED
        BY <3>2, <4>1, <4>2
    <3> QED
      BY <3>1, <3>2
  <2>3. outer'[r] = row /\ \A s \in Runs \ {r} : outer'[s] = outer[s]
    BY <1>4, <2>2
  <2> QED
    BY <1>1, <1>2, <1>3, <2>1, <2>2, <2>3 DEF RuntimeStep, storeVars
<1> QED
  BY <1>5, <1>6

(* What a step raised is counted, if the attempt is the current one.       *)
LEMMA RetriedStep ==
  ASSUME WorkflowInv, NEW w \in Workers, RetryOrFail(w)
  PROVE  \E r \in Runs :
           /\ RuntimeStep(w, r) /\ r = RunOf(w)
           /\ worker[w].at = "raised" /\ worker'[w].at = "idle"
           /\ \/ outer' = outer /\ outer[r].holder # w
              \/ /\ outer[r].holder = w /\ outer'[r].holder = None
                 /\ outer'[r].step = outer[r].step
                 /\ outer'[r].status \in {outer[r].status, "failed"}
<1>1. /\ Typed(Places) /\ Standing(w) /\ UNCHANGED storeVars /\ GoIdle(w)
      /\ worker[w].at = "raised" /\ ~At(w, "idle")
  BY PlacesTyped DEF WorkflowInv, RetryOrFail, At
<1>2. PICK r \in Runs : r = RunOf(w)
  BY <1>1 DEF Standing
<1>3. worker'[w].at = "idle" /\ \A v \in Workers \ {w} : worker'[v] = worker[v]
  BY <1>1, GoIdleMoves DEF Idle
<1>4. outer[r] \in Outer /\ r \in DOMAIN outer
  BY DEF WorkflowInv, AttemptsTyped
<1>5. CASE ~IsCurrent(w)
  <2>1. outer' = outer /\ outer[r].holder # w
    BY <1>2, <1>5 DEF RetryOrFail, IsCurrent
  <2> QED
    BY <1>1, <1>2, <1>3, <2>1 DEF RuntimeStep, storeVars
<1>6. CASE IsCurrent(w)
  <2>1. /\ outer[r].holder = w
        /\ outer' = [outer EXCEPT ![r] =
             IF outer[r].raised + 1 < MaxAttempts[outer[r].step]
             THEN [outer[r] EXCEPT !.raised = @ + 1, !.holder = None]
             ELSE [outer[r] EXCEPT !.status = "failed", !.holder = None]]
    BY <1>2, <1>6 DEF RetryOrFail, IsCurrent
  <2>2. PICK row :
          /\ outer' = [outer EXCEPT ![r] = row] /\ row.holder = None
          /\ row.step = outer[r].step /\ row.status \in {outer[r].status, "failed"}
    <3>1. CASE outer[r].raised + 1 < MaxAttempts[outer[r].step]
      <4> DEFINE row == [outer[r] EXCEPT !.raised = @ + 1, !.holder = None]
      <4>1. row.holder = None /\ row.step = outer[r].step /\ row.status = outer[r].status
        BY <1>4 DEF Outer
      <4>2. outer' = [outer EXCEPT ![r] = row]
        BY <2>1, <3>1
      <4> QED
        BY <4>1, <4>2
    <3>2. CASE ~(outer[r].raised + 1 < MaxAttempts[outer[r].step])
      <4> DEFINE row == [outer[r] EXCEPT !.status = "failed", !.holder = None]
      <4>1. row.holder = None /\ row.step = outer[r].step /\ row.status = "failed"
        BY <1>4 DEF Outer
      <4>2. outer' = [outer EXCEPT ![r] = row]
        BY <2>1, <3>2
      <4> QED
        BY <4>1, <4>2
    <3> QED
      BY <3>1, <3>2
  <2>3. outer'[r] = row /\ \A s \in Runs \ {r} : outer'[s] = outer[s]
    BY <1>4, <2>2
  <2> QED
    BY <1>1, <1>2, <1>3, <2>1, <2>2, <2>3 DEF RuntimeStep, storeVars
<1> QED
  BY <1>5, <1>6

-----------------------------------------------------------------------------
(* The domain runs of the workflows.                                       *)

(* Only a workflow under way has a current attempt.                        *)
HolderActive(r) == outer[r].holder # None => outer[r].status = "active"

(* A domain run that was submitted exists; it never waits for an approval; *)
(* and nobody but its workflow leases it.                                  *)
DomainOwned(r) ==
  /\ outer[r].status # "none" => runs[r].status # "ABSENT"
  /\ runs[r].status # "WAITING"
  /\ runs[r].status = "RUNNING" => runs[r].lease_owner = OwnerOf[r]

DomainInv == \A r \in Runs : HolderActive(r) /\ DomainOwned(r)

(* create_run, the clock and stuttering.                                   *)
LEMMA BystanderSteps ==
  ASSUME WorkflowInv,
         \/ \E r \in Runs : CreateDomainRun(r)
         \/ Pass \/ UNCHANGED workflowVars
  PROVE  /\ worker' = worker /\ outer' = outer
         /\ \A r \in Runs : runs'[r] = runs[r] \/ runs'[r].status = "PENDING"
<1>1. ASSUME NEW r \in Runs, CreateDomainRun(r)
      PROVE  /\ worker' = worker /\ outer' = outer
             /\ \A s \in Runs : runs'[s] = runs[s] \/ runs'[s].status = "PENDING"
  <2>1. PICK now \in ClockReads : CreateRun(r, now)
    BY <1>1 DEF CreateDomainRun
  <2>2. now \in Nat /\ IInv
    BY ClockReadsType DEF WorkflowInv, Inv, IInv
  <2>3. Writes(r, runs[r].fence_token) /\ runs'[r].status = "PENDING"
    BY <2>1, <2>2, CreateRunWrites
  <2> QED
    BY <1>1, <2>3 DEF CreateDomainRun, Writes
<1> QED
  BY <1>1 DEF Pass, Tick, workflowVars, vars, storeVars

(* Where acquire_run raises, the domain run has ended.                     *)
LEMMA RefusedEnded ==
  ASSUME WorkflowInv, DomainInv, NEW w \in Workers, Refused(w), RunOf(w) \in Runs,
         outer[RunOf(w)].holder = w
  PROVE  runs[RunOf(w)].status \in Terminal
<1> DEFINE r == RunOf(w)
<1>1. outer[r].status = "active" /\ DomainOwned(r)
  BY WorkflowAssumption DEF DomainInv, HolderActive
<1>2. runs[r].status \in RunStatus
  BY <1>1 DEF WorkflowInv, Inv, IInv, TypeOK, Run, DomainOwned
<1>3. runs[r].status \notin {"PENDING", "RUNNING"}
  BY <1>1 DEF Refused, AcquireRefused, DomainOwned
<1> QED
  BY <1>1, <1>2, <1>3 DEF DomainOwned, RunStatus, Held

LEMMA DomainInvNext ==
  ASSUME WorkflowInv, DomainInv, [Next]_workflowVars PROVE DomainInv'
<1>1. \A r \in Runs : HolderActive(r) /\ DomainOwned(r)
  BY DEF DomainInv
<1>2. ASSUME NEW w \in Workers, StepFunction(w) \/ StepRaises(w) PROVE DomainInv'
  <2>1. DomainStep(w) /\ outer' = outer
    BY <1>2, AttemptsStep DEF AttemptStep
  <2>2. \A r \in Runs : DomainOwned(r)'
    BY <1>1, <2>1 DEF DomainStep, DomainOwned
  <2> QED
    BY <1>1, <2>1, <2>2 DEF DomainInv, HolderActive
<1>3. ASSUME NEW w \in Workers, Crash(w) PROVE DomainInv'
  BY <1>1, <1>3 DEF Crash, storeVars, DomainInv, HolderActive, DomainOwned
<1>4. ASSUME NEW w, NEW r \in Runs, RuntimeStep(w, r),
             outer'[r].holder # None => outer'[r].status = "active",
             outer'[r].status # "none" => runs[r].status # "ABSENT"
      PROVE  DomainInv'
  <2>1. HolderActive(r)' /\ DomainOwned(r)'
    BY <1>1, <1>4 DEF RuntimeStep, HolderActive, DomainOwned
  <2>2. \A s \in Runs \ {r} : HolderActive(s)' /\ DomainOwned(s)'
    BY <1>1, <1>4 DEF RuntimeStep, HolderActive, DomainOwned
  <2> QED
    BY <2>1, <2>2 DEF DomainInv
<1>5. ASSUME outer' = outer, runs' = runs PROVE DomainInv'
  BY <1>1, <1>5 DEF DomainInv, HolderActive, DomainOwned
<1>6. ASSUME NEW r \in Runs, Submit(r) PROVE DomainInv'
  BY <1>1, <1>4, <1>6, SubmitStep
<1>7. ASSUME NEW r \in Runs, GiveUp(r) PROVE DomainInv'
  <2>1. outer[r].status = "active" /\ runs[r].status # "ABSENT"
    BY <1>1, <1>7, GiveUpStep DEF HolderActive, DomainOwned
  <2> QED
    BY <1>4, <1>7, <2>1, GiveUpStep
<1>8. ASSUME NEW w \in Workers, StartAttempt(w) PROVE DomainInv'
  <2>1. PICK r \in Runs : /\ RuntimeStep(w, r)
                          /\ outer[r].status = "active" /\ outer'[r].status = "active"
    BY <1>8, StartStep
  <2>2. runs[r].status # "ABSENT"
    BY <1>1, <2>1 DEF DomainOwned
  <2> QED
    BY <1>4, <2>1, <2>2
<1>9. ASSUME NEW w \in Workers, PersistStep(w) \/ RetryOrFail(w) PROVE DomainInv'
  <2>1. PICK r \in Runs :
          /\ RuntimeStep(w, r)
          /\ \/ outer' = outer
             \/ outer[r].holder = w /\ outer'[r].holder = None
    BY <1>9, PersistedStep, RetriedStep
  <2>2. CASE outer' = outer
    BY <1>5, <2>1, <2>2 DEF RuntimeStep
  <2>3. CASE outer[r].holder = w /\ outer'[r].holder = None
    <3>1. runs[r].status # "ABSENT"
      BY <1>1, <2>3, WorkflowAssumption DEF HolderActive, DomainOwned
    <3> QED
      BY <1>4, <2>1, <2>3, <3>1
  <2> QED
    BY <2>1, <2>2, <2>3
<1>10. ASSUME \/ \E r \in Runs : CreateDomainRun(r)
              \/ Pass \/ UNCHANGED workflowVars
       PROVE  DomainInv'
  <2>1. /\ worker' = worker /\ outer' = outer
        /\ \A r \in Runs : runs'[r] = runs[r] \/ runs'[r].status = "PENDING"
    BY <1>10, BystanderSteps
  <2> QED
    BY <1>1, <2>1 DEF DomainInv, HolderActive, DomainOwned
<1> QED
  BY <1>2, <1>3, <1>6, <1>7, <1>8, <1>9, <1>10 DEF Next, ProcessStep, Runtime

(* Only a workflow under way has a current attempt, and a domain run is    *)
(* leased by nobody but its workflow and never waits: the verify step is   *)
(* refused the lease only of a domain run that has ended. (So it is as long*)
(* as no worker of the queue claims the run.)                              *)
THEOREM DomainInvariant == Spec => []DomainInv
<1>1. Init => DomainInv
  BY DEF Init, StoreInit, AbsentRun, NoWorkflow, DomainInv, HolderActive, DomainOwned
<1>2. WorkflowInv /\ DomainInv /\ [Next]_workflowVars => DomainInv'
  BY DomainInvNext
<1> QED
  BY <1>1, <1>2, WorkflowInvariant, PTL DEF Spec

-----------------------------------------------------------------------------
(* A stored success, reported.                                             *)

(* The current attempt of the verify step of r is w's.                     *)
VerifiesFor(w, r) ==
  outer[r].step = "verify" /\ outer[r].holder = w /\ worker[w].run = r

(* An attempt of the verify step is lost to the runtime: it is given up    *)
(* while its process goes on, or the process is gone, or the call raises,  *)
(* between the commit of its success and the runtime's record of it.       *)
AttemptLost ==
  \E r \in Runs, w \in Workers :
    /\ VerifiesFor(w, r)
    /\ GiveUp(r) \/ (At(w, "returned") /\ Crash(w)) \/ SuccessUnreported(w)

(* If none is, nobody verifies but in a current attempt,                   *)
VerifierCurrent(w) == worker[w].at \in VerifyPlaces => IsCurrent(w)

(* and a success of the domain run is reported, or held by the attempt     *)
(* that is about to be persisted.                                          *)
SuccessHeld(r) ==
  runs[r].status = "SUCCEEDED" =>
    \/ outer[r].status = "succeeded"
    \/ \E w \in Workers : VerifiesFor(w, r) /\ At(w, "returned")

AttendedInv ==
  /\ \A w \in Workers : VerifierCurrent(w)
  /\ \A r \in Runs : SuccessHeld(r)

LEMMA AttendedInvNext ==
  ASSUME WorkflowInv, DomainInv, AttendedInv, [Next]_workflowVars,
         [~AttemptLost]_workflowVars
  PROVE  AttendedInv'
<1>1. /\ \A w \in Workers : VerifierCurrent(w) /\ Standing(w)
      /\ \A r \in Runs : SuccessHeld(r) /\ HolderActive(r)
      /\ None \notin Workers
  BY WorkflowAssumption DEF AttendedInv, WorkflowInv, DomainInv
<1>2. ASSUME NEW w \in Workers, worker[w].at \in VerifyPlaces
      PROVE  RunOf(w) \in Runs /\ VerifiesFor(w, RunOf(w))
  <2>1. IsCurrent(w) /\ outer[RunOf(w)].step = "verify" /\ ~At(w, "idle")
    BY <1>1, <1>2 DEF VerifierCurrent, Standing, VerifyPlaces, VerifySteps, At
  <2> QED
    BY <1>1, <2>1 DEF Standing, IsCurrent, VerifiesFor, RunOf
<1>3. ASSUME UNCHANGED <<worker, outer>>,
             \A r \in Runs : runs'[r] = runs[r] \/ runs'[r].status = "PENDING"
      PROVE  AttendedInv'
  BY <1>1, <1>3 DEF AttendedInv, VerifierCurrent, SuccessHeld, VerifiesFor, IsCurrent,
     RunOf, At
<1>4. ASSUME NEW w \in Workers, StepFunction(w) \/ StepRaises(w) PROVE AttendedInv'
  <2>1. AttemptStep(w) /\ outer' = outer
    BY <1>4, AttemptsStep
  <2>2. /\ \A v \in Workers \ {w} : worker'[v] = worker[v]
        /\ worker'[w].run = worker[w].run
        /\ worker'[w].at \in VerifyPlaces => worker[w].at \in VerifyPlaces
        /\ worker[w].at # "returned" /\ DomainStep(w)
    BY <2>1 DEF AttemptStep
  <2>3. ASSUME NEW v \in Workers PROVE VerifierCurrent(v)'
    BY <1>1, <2>1, <2>2 DEF VerifierCurrent, IsCurrent, RunOf
  <2>4. ASSUME NEW r \in Runs, runs'[r].status = "SUCCEEDED",
               outer[r].status # "succeeded"
        PROVE  \E v \in Workers : VerifiesFor(v, r)' /\ At(v, "returned")'
    <3>1. CASE runs[r].status = "SUCCEEDED"
      <4>1. PICK v \in Workers : VerifiesFor(v, r) /\ At(v, "returned")
        BY <1>1, <2>4, <3>1 DEF SuccessHeld
      <4>2. worker'[v] = worker[v]
        BY <2>2, <4>1 DEF At
      <4> QED
        BY <2>1, <4>1, <4>2 DEF VerifiesFor, At
    <3>2. CASE runs[r].status # "SUCCEEDED"
      <4>1. /\ r = RunOf(w) /\ worker[w].at = "complete"
            /\ worker'[w].at = "returned" \/ SuccessUnreported(w)
        BY <2>2, <2>4, <3>2 DEF DomainStep
      <4>2. VerifiesFor(w, r)
        BY <1>2, <4>1 DEF VerifyPlaces
      <4>3. ~AttemptLost
        <5>1. Typed(Places)
          BY PlacesTyped DEF WorkflowInv
        <5>2. ASSUME Raise(w, "error") PROVE worker'[w].at = "raised"
          BY <5>1, <5>2, RaiseMoves, EvidenceAssumption DEF Moves
        <5>3. worker' # worker
          BY <4>1, <5>2 DEF SuccessUnreported
        <5> QED
          BY <5>3 DEF workflowVars, vars
      <4>4. VerifiesFor(w, r)' /\ At(w, "returned")'
        BY <2>1, <2>2, <4>1, <4>2, <4>3 DEF VerifiesFor, At, AttemptLost
      <4> QED
        BY <4>4
    <3> QED
      BY <3>1, <3>2
  <2>5. \A r \in Runs : SuccessHeld(r)'
    BY <2>1, <2>4 DEF SuccessHeld
  <2> QED
    BY <2>3, <2>5 DEF AttendedInv
<1>5. ASSUME NEW w, NEW r \in Runs, RuntimeStep(w, r),
             w \in Workers =>
               worker[w].at # "returned" \/ outer[worker[w].run].holder # w
                 \/ worker[w].run = r,
             w \in Workers => VerifierCurrent(w)',
             \A v \in Workers \ {w} : VerifiesFor(v, r) => outer'[r].holder = v,
             SuccessHeld(r)'
      PROVE  AttendedInv'
  <2>1. ASSUME NEW v \in Workers \ {w} PROVE VerifierCurrent(v)'
    <3>1. SUFFICES ASSUME worker[v].at \in VerifyPlaces
                   PROVE  outer'[RunOf(v)].holder = v
      BY <1>5, <2>1 DEF RuntimeStep, VerifierCurrent, IsCurrent, RunOf
    <3>2. RunOf(v) \in Runs /\ VerifiesFor(v, RunOf(v))
      BY <1>2, <3>1
    <3>3. CASE RunOf(v) = r
      BY <1>5, <3>2, <3>3
    <3>4. CASE RunOf(v) # r
      BY <1>5, <3>2, <3>4 DEF RuntimeStep, VerifiesFor
    <3> QED
      BY <3>3, <3>4
  <2>2. ASSUME NEW s \in Runs \ {r} PROVE SuccessHeld(s)'
    <3>1. /\ runs'[s] = runs[s] /\ outer'[s] = outer[s] /\ SuccessHeld(s)
      BY <1>1, <1>5, <2>2 DEF RuntimeStep
    <3>2. ASSUME NEW v \in Workers, VerifiesFor(v, s), At(v, "returned")
          PROVE  VerifiesFor(v, s)' /\ At(v, "returned")'
      <4>1. v # w
        BY <1>5, <2>2, <3>2 DEF VerifiesFor, At
      <4>2. worker'[v] = worker[v]
        BY <1>5, <4>1 DEF RuntimeStep
      <4> QED
        BY <3>1, <3>2, <4>2 DEF VerifiesFor, At
    <3> QED
      BY <3>1, <3>2 DEF SuccessHeld
  <2>3. \A v \in Workers : VerifierCurrent(v)'
    BY <1>5, <2>1
  <2>4. \A s \in Runs : SuccessHeld(s)'
    BY <1>5, <2>2
  <2> QED
    BY <2>3, <2>4 DEF AttendedInv
<1>6. ASSUME NEW w \in Workers, Crash(w) PROVE AttendedInv'
  <2>1. /\ runs' = runs /\ outer' = outer /\ worker'[w].at = "idle"
        /\ \A v \in Workers \ {w} : worker'[v] = worker[v]
    BY <1>6, PlacesTyped, GoIdleMoves DEF Crash, storeVars, WorkflowInv, Idle
  <2>2. worker'[w].at \notin VerifyPlaces
    BY <2>1 DEF VerifyPlaces, VerifySteps
  <2>3. ASSUME NEW v \in Workers PROVE VerifierCurrent(v)'
    BY <1>1, <2>1, <2>2 DEF VerifierCurrent, IsCurrent, RunOf
  <2>4. ~AttemptLost
    <3>1. worker' # worker
      BY <1>6, <2>1 DEF Crash, At
    <3> QED
      BY <3>1 DEF workflowVars, vars
  <2>5. ASSUME NEW r \in Runs, NEW v \in Workers, VerifiesFor(v, r), At(v, "returned")
        PROVE  VerifiesFor(v, r)' /\ At(v, "returned")'
    <3>1. v # w
      BY <1>6, <2>4, <2>5 DEF AttemptLost
    <3> QED
      BY <2>1, <2>5, <3>1 DEF VerifiesFor, At
  <2>6. \A r \in Runs : SuccessHeld(r)'
    BY <1>1, <2>1, <2>5 DEF SuccessHeld
  <2> QED
    BY <2>3, <2>6 DEF AttendedInv
<1>7. ASSUME NEW r \in Runs, Submit(r) PROVE AttendedInv'
  <2>1. /\ RuntimeStep(None, r) /\ worker' = worker
        /\ outer[r].status = "none" /\ outer'[r].holder = outer[r].holder
    BY <1>7, SubmitStep
  <2>2. outer[r].holder = None /\ runs[r].status # "SUCCEEDED"
    BY <1>1, <2>1 DEF HolderActive, SuccessHeld, VerifiesFor
  <2>3. SuccessHeld(r)'
    BY <2>1, <2>2 DEF RuntimeStep, SuccessHeld
  <2> QED
    BY <1>1, <1>5, <2>1, <2>2, <2>3 DEF VerifiesFor
<1>8. ASSUME NEW r \in Runs, GiveUp(r) PROVE AttendedInv'
  <2>1. /\ RuntimeStep(None, r) /\ worker' = worker
        /\ outer[r].holder # None /\ outer'[r].holder = None
    BY <1>8, GiveUpStep
  <2>2. ~AttemptLost
    <3>1. outer' # outer
      BY <2>1
    <3> QED
      BY <3>1 DEF workflowVars
  <2>3. ASSUME NEW v \in Workers PROVE ~VerifiesFor(v, r)
    BY <1>8, <2>2 DEF AttemptLost
  <2>4. outer[r].status = "active"
    BY <1>1, <2>1 DEF HolderActive
  <2>5. runs[r].status # "SUCCEEDED"
    BY <1>1, <2>3, <2>4 DEF SuccessHeld
  <2>6. SuccessHeld(r)'
    BY <2>1, <2>5 DEF RuntimeStep, SuccessHeld
  <2> QED
    BY <1>1, <1>5, <2>1, <2>3, <2>6
<1>9. ASSUME NEW w \in Workers, StartAttempt(w) PROVE AttendedInv'
  <2>1. PICK r \in Runs :
          /\ RuntimeStep(w, r) /\ worker[w].at = "idle" /\ worker'[w].run = r
          /\ outer[r].status = "active"
          /\ outer[r].holder = None /\ outer'[r].holder = w
    BY <1>9, StartStep
  <2>2. runs[r].status # "SUCCEEDED"
    BY <1>1, <2>1 DEF SuccessHeld, VerifiesFor
  <2>3. SuccessHeld(r)' /\ VerifierCurrent(w)'
    BY <2>1, <2>2 DEF RuntimeStep, SuccessHeld, VerifierCurrent, IsCurrent, RunOf
  <2> QED
    BY <1>1, <1>5, <2>1, <2>3 DEF VerifiesFor
<1>10. ASSUME NEW w \in Workers, PersistStep(w) \/ RetryOrFail(w) PROVE AttendedInv'
  <2>1. PICK r \in Runs :
          /\ RuntimeStep(w, r) /\ r = RunOf(w) /\ worker'[w].at = "idle"
          /\ \/ outer' = outer /\ outer[r].holder # w
             \/ /\ outer[r].holder = w /\ outer'[r].holder = None
                /\ \/ outer[r].step = "verify" /\ outer'[r].status = "succeeded"
                   \/ outer[r].step # "verify"
                   \/ worker[w].at = "raised"
    BY <1>10, PersistedStep, RetriedStep
  <2>2. VerifierCurrent(w)' /\ runs' = runs
    BY <2>1 DEF RuntimeStep, VerifierCurrent, VerifyPlaces, VerifySteps
  <2>3. \A v \in Workers \ {w} : VerifiesFor(v, r) => outer'[r].holder = v
    BY <2>1 DEF VerifiesFor
  <2>4. SuccessHeld(r)'
    <3>1. SUFFICES ASSUME runs[r].status = "SUCCEEDED", outer'[r].status # "succeeded"
                   PROVE  \E v \in Workers : VerifiesFor(v, r)' /\ At(v, "returned")'
      BY <2>2 DEF SuccessHeld
    <3>2. CASE outer' = outer /\ outer[r].holder # w
      <4>1. PICK v \in Workers : VerifiesFor(v, r) /\ At(v, "returned")
        BY <1>1, <3>1, <3>2 DEF SuccessHeld
      <4>2. worker'[v] = worker[v]
        BY <2>1, <3>2, <4>1 DEF VerifiesFor, RuntimeStep
      <4> QED
        BY <3>2, <4>1, <4>2 DEF VerifiesFor, At
    <3>3. CASE outer[r].holder = w /\ outer'[r].holder = None
      <4>1. outer[r].status = "active"
        BY <1>1, <3>3 DEF HolderActive
      <4>2. PICK v \in Workers : VerifiesFor(v, r) /\ At(v, "returned")
        BY <1>1, <3>1, <4>1 DEF SuccessHeld
      <4>3. v = w /\ outer[r].step = "verify" /\ worker[w].at = "returned"
        BY <3>3, <4>2 DEF VerifiesFor, At
      <4> QED
        BY <1>1, <2>1, <3>1, <3>3, <4>3
    <3> QED
      BY <2>1, <3>2, <3>3
  <2> QED
    BY <1>5, <2>1, <2>2, <2>3, <2>4 DEF RunOf
<1>11. ASSUME \/ \E r \in Runs : CreateDomainRun(r)
              \/ Pass \/ UNCHANGED workflowVars
       PROVE  AttendedInv'
  BY <1>3, <1>11, BystanderSteps
<1> QED
  BY <1>4, <1>6, <1>7, <1>8, <1>9, <1>10, <1>11 DEF Next, ProcessStep, Runtime

(* The disagreement that StoredSuccessReported is about takes a lost       *)
(* attempt: as long as no attempt of the verify step is given up while its *)
(* process goes on, and no process is gone and no transition raises after  *)
(* the commit of its success and before the runtime persisted the step, a  *)
(* workflow whose domain run succeeded is not failed.  Processes may crash *)
(* anywhere else, and steps raise everywhere else.                         *)
THEOREM StoredSuccessIsReported ==
  Spec /\ [][~AttemptLost]_workflowVars => []StoredSuccessReported
<1>1. Init => AttendedInv
  <2>1. SUFFICES ASSUME Init PROVE AttendedInv
    OBVIOUS
  <2>2. /\ \A w \in Workers : worker[w].at = "idle"
        /\ \A r \in Runs : runs[r].status = "ABSENT"
    BY <2>1 DEF Init, Idle, StoreInit, AbsentRun
  <2> QED
    BY <2>2 DEF AttendedInv, VerifierCurrent, SuccessHeld, VerifyPlaces, VerifySteps
<1>2. /\ WorkflowInv /\ DomainInv /\ AttendedInv
      /\ [Next]_workflowVars /\ [~AttemptLost]_workflowVars
      => AttendedInv'
  BY AttendedInvNext
<1>3. DomainInv /\ AttendedInv => StoredSuccessReported
  BY WorkflowAssumption
     DEF DomainInv, HolderActive, AttendedInv, SuccessHeld, VerifiesFor,
         StoredSuccessReported
<1> QED
  BY <1>1, <1>2, <1>3, WorkflowInvariant, DomainInvariant, PTL DEF Spec

-----------------------------------------------------------------------------
(* A failed verification, ended.                                           *)

(* The current attempt of the verify step raises although it has the lease *)
(* or could take it: an exception from outside, or a lease that ran out.   *)
VerifyInterrupted ==
  \E w \in Workers :
    /\ worker[w].at \in VerifyPlaces /\ IsCurrent(w) /\ ~Refused(w)
    /\ Raises(w) \/ LoseLease(w)

(* If none does, the domain run has ended before the runtime counts what   *)
(* the step raised.                                                        *)
FailureEnds(r) ==
  /\ outer[r].step = "verify" /\ (outer[r].status = "failed" \/ outer[r].raised > 0)
       => runs[r].status \in Terminal
  /\ \A w \in Workers : VerifiesFor(w, r) /\ At(w, "raised")
       => runs[r].status \in Terminal

FailureInv == \A r \in Runs : FailureEnds(r)

LEMMA FailureInvNext ==
  ASSUME WorkflowInv, DomainInv, FailureInv, [Next]_workflowVars,
         [~VerifyInterrupted]_workflowVars
  PROVE  FailureInv'
<1>1. /\ \A r \in Runs : FailureEnds(r) /\ HolderActive(r)
      /\ \A w \in Workers : Standing(w)
      /\ None \notin Workers /\ Inv
  BY WorkflowAssumption DEF FailureInv, WorkflowInv, DomainInv
<1>2. \A r \in Runs : runs[r].status \in Terminal => runs'[r].status \in Terminal
  BY <1>1, StepUsesStore, EndedRunFrozen DEF Frozen
<1>3. ASSUME outer' = outer, NEW w,
             \A v \in Workers \ {w} : worker'[v] = worker[v],
             \A r \in Runs : w \in Workers /\ VerifiesFor(w, r)' /\ At(w, "raised")'
               => runs'[r].status \in Terminal
      PROVE  FailureInv'
  <2>1. ASSUME NEW r \in Runs, NEW v \in Workers \ {w}, VerifiesFor(v, r)',
               At(v, "raised")'
        PROVE  runs'[r].status \in Terminal
    <3>1. VerifiesFor(v, r) /\ At(v, "raised")
      BY <1>3, <2>1 DEF VerifiesFor, At
    <3> QED
      BY <1>1, <1>2, <3>1 DEF FailureEnds
  <2>2. ASSUME NEW r \in Runs PROVE FailureEnds(r)'
    <3>1. \A v \in Workers : VerifiesFor(v, r)' /\ At(v, "raised")'
            => runs'[r].status \in Terminal
      BY <1>3, <2>1
    <3> QED
      BY <1>1, <1>2, <1>3, <3>1 DEF FailureEnds
  <2> QED
    BY <2>2 DEF FailureInv
<1>4. ASSUME NEW w \in Workers, StepFunction(w) \/ StepRaises(w) PROVE FailureInv'
  <2>1. AttemptStep(w) /\ outer' = outer
    BY <1>4, AttemptsStep
  <2>2. /\ \A v \in Workers \ {w} : worker'[v] = worker[v]
        /\ worker'[w].run = worker[w].run
        /\ worker[w].at \notin {"idle", "raised", "returned"}
    BY <2>1 DEF AttemptStep
  <2>3. ASSUME NEW r \in Runs, VerifiesFor(w, r)', At(w, "raised")'
        PROVE  runs'[r].status \in Terminal
    <3>1. /\ VerifiesFor(w, r) /\ r = RunOf(w) /\ IsCurrent(w)
          /\ outer[RunOf(w)].holder = w
      BY <2>1, <2>2, <2>3 DEF VerifiesFor, RunOf, IsCurrent
    <3>2. worker[w].at \in VerifyPlaces
      <4>1. Brings(w) /\ outer[RunOf(w)].step = "verify"
        BY <1>1, <2>2, <3>1 DEF Standing, At, VerifiesFor
      <4>2. worker[w].at \notin ReproducePlaces \cup RepairPlaces \cup ApplyPlaces
        BY <4>1 DEF Brings
      <4>3. worker[w].at \in Places \cup ApplySteps \cup VerifySteps
        BY <2>2 DEF WorkflowInv, AttemptsTyped, Worker
      <4> QED
        BY <2>2, <4>2, <4>3 DEF Places, StoreCalls, Acquiring, Commands, ReproducePlaces,
           RepairPlaces, ApplyPlaces, VerifyPlaces, ApplySteps, VerifySteps
    <3>3. \/ Raises(w) \/ LoseLease(w) \/ Refused(w)
          \/ runs'[RunOf(w)].status \in Terminal
      BY <2>1, <2>3, <3>2 DEF AttemptStep, At
    <3>4. CASE Refused(w)
      <4>1. runs[RunOf(w)].status \in Terminal
        BY <3>1, <3>4, RefusedEnded
      <4> QED
        BY <1>2, <3>1, <4>1
    <3>5. CASE runs'[RunOf(w)].status \in Terminal
      BY <3>1, <3>5
    <3>6. CASE ~Refused(w) /\ (Raises(w) \/ LoseLease(w))
      <4>1. VerifyInterrupted
        BY <3>1, <3>2, <3>6 DEF VerifyInterrupted
      <4>2. worker' # worker
        BY <2>2, <2>3 DEF At
      <4> QED
        BY <4>1, <4>2 DEF workflowVars, vars
    <3> QED
      BY <3>3, <3>4, <3>5, <3>6
  <2> QED
    BY <1>3, <2>1, <2>2, <2>3
<1>5. ASSUME NEW w \in Workers, Crash(w) PROVE FailureInv'
  <2>1. /\ outer' = outer /\ worker'[w].at = "idle"
        /\ \A v \in Workers \ {w} : worker'[v] = worker[v]
    BY <1>5, PlacesTyped, GoIdleMoves DEF Crash, WorkflowInv, Idle
  <2> QED
    BY <1>3, <2>1 DEF At
<1>6. ASSUME NEW w, NEW r \in Runs, RuntimeStep(w, r), FailureEnds(r)',
             w \in Workers => worker'[w].at # "raised"
      PROVE  FailureInv'
  <2>1. ASSUME NEW s \in Runs \ {r} PROVE FailureEnds(s)'
    <3>1. /\ runs'[s] = runs[s] /\ outer'[s] = outer[s] /\ FailureEnds(s)
      BY <1>1, <1>6, <2>1 DEF RuntimeStep
    <3>2. ASSUME NEW v \in Workers, VerifiesFor(v, s)', At(v, "raised")'
          PROVE  VerifiesFor(v, s) /\ At(v, "raised")
      <4>1. worker'[v] = worker[v]
        BY <1>6, <3>2 DEF RuntimeStep, At
      <4> QED
        BY <3>1, <3>2, <4>1 DEF VerifiesFor, At
    <3> QED
      BY <3>1, <3>2 DEF FailureEnds
  <2> QED
    BY <1>6, <2>1 DEF FailureInv
<1>7. ASSUME NEW r \in Runs, Submit(r) PROVE FailureInv'
  <2>1. /\ RuntimeStep(None, r) /\ worker' = worker
        /\ outer[r].status = "none" /\ outer'[r].status = "active"
        /\ outer'[r].holder = outer[r].holder
        /\ outer'[r].step = outer[r].step /\ outer'[r].raised = outer[r].raised
    BY <1>7, SubmitStep
  <2>2. FailureEnds(r)'
    BY <1>1, <2>1 DEF RuntimeStep, FailureEnds, VerifiesFor, At
  <2> QED
    BY <1>1, <1>6, <2>1, <2>2
<1>8. ASSUME NEW r \in Runs, GiveUp(r) PROVE FailureInv'
  <2>1. /\ RuntimeStep(None, r) /\ outer'[r].holder = None
        /\ outer'[r].step = outer[r].step /\ outer'[r].raised = outer[r].raised
        /\ \/ outer'[r].status = outer[r].status
           \/ outer'[r].status = "failed" /\ outer[r].step = "repair"
    BY <1>8, GiveUpStep
  <2>2. FailureEnds(r)'
    BY <1>1, <2>1 DEF RuntimeStep, FailureEnds, VerifiesFor
  <2> QED
    BY <1>1, <1>6, <2>1, <2>2
<1>9. ASSUME NEW w \in Workers, StartAttempt(w) PROVE FailureInv'
  <2>1. PICK r \in Runs :
          /\ RuntimeStep(w, r) /\ worker'[w].at # "raised"
          /\ outer'[r].status = "active" /\ outer'[r].holder = w
          /\ outer'[r].step = outer[r].step /\ outer'[r].raised = outer[r].raised
    BY <1>9, StartStep
  <2>2. FailureEnds(r)'
    BY <1>1, <2>1 DEF RuntimeStep, FailureEnds, VerifiesFor, At
  <2> QED
    BY <1>6, <2>1, <2>2
<1>10. ASSUME NEW w \in Workers, PersistStep(w) \/ RetryOrFail(w) PROVE FailureInv'
  <2>1. PICK r \in Runs :
          /\ RuntimeStep(w, r) /\ r = RunOf(w) /\ worker'[w].at = "idle"
          /\ \/ outer' = outer
             \/ /\ outer[r].holder = w /\ outer'[r].holder = None
                /\ \/ /\ outer'[r].status = "succeeded" /\ outer[r].step = "verify"
                      /\ outer'[r].raised = outer[r].raised
                   \/ /\ outer'[r].status = outer[r].status /\ outer'[r].raised = 0
                   \/ /\ worker[w].at = "raised" /\ outer'[r].step = outer[r].step
    BY <1>10, PersistedStep, RetriedStep
  <2>2. CASE outer' = outer
    BY <1>3, <2>1, <2>2 DEF RuntimeStep, At
  <2>3. CASE outer[r].holder = w /\ outer'[r].holder = None
    <3>1. outer[r].status = "active" /\ runs' = runs
      BY <1>1, <2>1, <2>3 DEF HolderActive, RuntimeStep
    <3>2. \A v \in Workers : ~VerifiesFor(v, r)'
      BY <1>1, <2>3 DEF VerifiesFor
    <3>3. worker[w].at = "raised" /\ outer[r].step = "verify"
            => runs[r].status \in Terminal
      BY <1>1, <2>1, <2>3 DEF FailureEnds, VerifiesFor, At, RunOf
    <3>4. FailureEnds(r)'
      BY <1>1, <2>1, <2>2, <3>1, <3>2, <3>3 DEF FailureEnds
    <3> QED
      BY <1>6, <2>1, <3>4
  <2> QED
    BY <2>1, <2>2, <2>3
<1>11. ASSUME \/ \E r \in Runs : CreateDomainRun(r)
              \/ Pass \/ UNCHANGED workflowVars
       PROVE  FailureInv'
  <2>1. worker' = worker /\ outer' = outer
    BY <1>11, BystanderSteps
  <2> QED
    BY <1>1, <1>3, <2>1
<1> QED
  BY <1>4, <1>5, <1>7, <1>8, <1>9, <1>10, <1>11 DEF Next, ProcessStep, Runtime

(* The disagreement that EndedTogether is about, at the verify step, takes *)
(* an interrupted attempt: as long as no current attempt of that step      *)
(* raises an exception from outside or loses its lease, a workflow that is *)
(* failed there has ended its domain run, however its processes crash and  *)
(* its attempts are given up.                                              *)
THEOREM FailedVerificationEnds ==
  Spec /\ [][~VerifyInterrupted]_workflowVars =>
    [](\A r \in Runs : outer[r].status = "failed" /\ outer[r].step = "verify" =>
         runs[r].status \in Terminal)
<1> DEFINE Ended ==
      \A r \in Runs : outer[r].status = "failed" /\ outer[r].step = "verify" =>
        runs[r].status \in Terminal
<1>1. Init => FailureInv
  BY DEF Init, NoWorkflow, FailureInv, FailureEnds, VerifiesFor
<1>2. /\ WorkflowInv /\ DomainInv /\ FailureInv
      /\ [Next]_workflowVars /\ [~VerifyInterrupted]_workflowVars
      => FailureInv'
  BY FailureInvNext
<1>3. FailureInv => Ended
  BY DEF FailureInv, FailureEnds
<1> HIDE DEF Ended
<1>4. Spec /\ [][~VerifyInterrupted]_workflowVars => []Ended
  BY <1>1, <1>2, <1>3, WorkflowInvariant, DomainInvariant, PTL DEF Spec
<1> QED
  BY <1>4 DEF Ended
===============================================================================
