------------------------------ MODULE GitWorkspace ------------------------------
(***************************************************************************)
(* Processes that work in Git worktrees (LocalGitWorkspace, workspace.py)  *)
(* over the run store.  What they do to a worktree is not in any           *)
(* transaction of the store and is not checked against the lease: git apply*)
(* and its ledger row are two pieces of state.  RepairPipeline and         *)
(* OpenRathWorkflow are the programs the processes run; here is what the   *)
(* two have in common: applying a patch under the ledger and measuring     *)
(* the worktree.                                                           *)
(*                                                                         *)
(* The requests of the ledger are the patches: a request is the hash of a  *)
(* patch and the files it touches.                                         *)
(***************************************************************************)
EXTENDS RunStore

CONSTANTS
  Workers,    \* worker processes
  Worktrees,
  Repo,       \* Repo[r]: the worktree run r works in
  Fixes,      \* Fixes[r]: the patches that make run r's test pass
  Accepts,    \* Accepts[r]: the patches that pass run r's acceptance command
  Guarded,    \* the runs that have an acceptance command
  Applicable, \* the patches whose context the base commit has
  SameFiles   \* SameFiles[p]: the patches that touch a file patch p touches

ASSUME WorkspaceAssumption ==
  /\ Repo \in [Runs -> Worktrees]
  /\ Fixes \in [Runs -> SUBSET Requests]
  /\ Accepts \in [Runs -> SUBSET Requests]
  /\ Guarded \subseteq Runs
  /\ Applicable \subseteq Requests
  /\ SameFiles \in [Requests -> SUBSET Requests]
  /\ \A p \in Requests : p \in SameFiles[p]
  /\ {"reproduce", "repair", "apply", "verify", "complete", "failed"} \subseteq Stages

VARIABLES
  worker,  \* worker[w]: where process w is and what it remembers
  tree,    \* tree[t]: the patches applied to worktree t, on top of its HEAD
  since    \* since[w]: when the last step of process w was over

vars == <<storeVars, worker, tree, since>>

(* What an effect's evidence and a verification's evidence say.            *)
PatchEvidence == [source : SUBSET Requests, patch : Requests]
TestEvidence == [source : SUBSET Requests, patch : Requests,
                 tests : BOOLEAN, acceptance : BOOLEAN \cup {None}]

(* The store's text columns take whatever the programs write.              *)
ASSUME EvidenceAssumption ==
  /\ PatchEvidence \cup TestEvidence \subseteq Evidence
  /\ {"error", "failed verification", "failed acceptance"} \subseteq Errors

-----------------------------------------------------------------------------
(* A process is idle or in the middle of a program: "at" names what it     *)
(* does next, "run" the run it does it for.  The actions below say what    *)
(* becomes of worker and tree; that since goes with a step (Over) is said  *)
(* of all steps of a process at once, in the programs' next-state          *)
(* relations.                                                              *)

ApplySteps ==
  {"begin", "git apply", "confirm", "disconfirm", "reverse check", "reconcile"}
VerifySteps == {"verification", "acceptance", "fingerprint", "record", "judge"}

Worker(places) ==
  [at : places \cup ApplySteps \cup VerifySteps \cup {"idle", "raised"},
   run : Runs \cup {None},
   lease : Lease \cup {None},
   patch : Requests \cup {None},
   applied : BOOLEAN,                     \* what the reverse check said
   tests : BOOLEAN \cup {None},
   acceptance : BOOLEAN \cup {None},
   source : SUBSET Requests,
   error : Errors \cup {None}]

Idle ==
  [at |-> "idle", run |-> None, lease |-> None, patch |-> None, applied |-> FALSE,
   tests |-> None, acceptance |-> None, source |-> {}, error |-> None]

RunOf(w) == worker[w].run
TreeOf(w) == tree[Repo[RunOf(w)]]

At(w, here) == worker[w].at = here
Goto(w, next) == worker' = [worker EXCEPT ![w].at = next]
GoIdle(w) == worker' = [worker EXCEPT ![w] = Idle]

(* An exception leaves the program; its caller goes on from there.         *)
Raise(w, error) == worker' = [worker EXCEPT ![w].at = "raised", ![w].error = error]

(* A process that is in a store call has read the clock at any time since  *)
(* its step before; how long it stalls between that and the commit has no  *)
(* bound.                                                                  *)
ReadsOf(w) == {now \in ClockReads : now >= since[w]}

(* The step process w has taken is over.                                   *)
Over(w) == since' = [since EXCEPT ![w] = clock]

(* A store call without the lease raises LeaseLost.                        *)
LeaseLost(w) == \E now \in ReadsOf(w) : ~HoldsLease(worker[w].lease, now)

(* The test command passes if a fix is in the worktree.                    *)
Passes(w) == TreeOf(w) \cap Fixes[RunOf(w)] # {}
PassesAcceptance(w) == TreeOf(w) \cap Accepts[RunOf(w)] # {}

(* git apply refuses a patch whose context is not there: it never was, it  *)
(* is applied already, or another patch has changed the files.             *)
AppliesCleanly(w) ==
  /\ worker[w].patch \in Applicable
  /\ TreeOf(w) \cap SameFiles[worker[w].patch] = {}
PatchedTree(w) == [tree EXCEPT ![Repo[RunOf(w)]] = @ \cup {worker[w].patch}]

(* source_fingerprint: the content of the files the patch touches.         *)
SourceFingerprint(w) == TreeOf(w) \cap SameFiles[worker[w].patch]

(* advance_stage, then on to next.                                         *)
EnterStage(w, here, stage, next) ==
  /\ At(w, here)
  /\ \E now \in ReadsOf(w) : AdvanceStage(worker[w].lease, stage, now)
  /\ Goto(w, next)
  /\ UNCHANGED tree

-----------------------------------------------------------------------------
(* apply_patch under the operation key, then on to next.                   *)

BeginApply(w, key, next) ==
  LET l == worker[w].lease
      patch == worker[w].patch
  IN  /\ At(w, "begin")
      /\ \E now \in ReadsOf(w) :
           \/ /\ BeginEffect(l, key, patch, now)
              /\ Goto(w, IF effects'[l.run][key].status = "STARTED"
                         THEN "git apply" ELSE "reverse check")
           \/ /\ HoldsLease(l, now)
              /\ \/ EffectUnsettled(l, key, patch) /\ Goto(w, "reverse check")
                 \/ EffectReplays(l, key, patch) /\ Goto(w, next)
                 \/ EffectConflicts(l, key, patch) /\ Raise(w, "error")
              /\ UNCHANGED storeVars
      /\ UNCHANGED tree

GitApply_Unchecked(w) ==    \* mutant: the exit code is ignored
  /\ At(w, "git apply")
  /\ tree' = IF AppliesCleanly(w) THEN PatchedTree(w) ELSE tree
  /\ Goto(w, "confirm")
  /\ UNCHANGED storeVars

GitApply(w) ==
  /\ At(w, "git apply")
  /\ IF AppliesCleanly(w)
     THEN tree' = PatchedTree(w) /\ Goto(w, "confirm")
     ELSE Goto(w, "disconfirm") /\ UNCHANGED tree
  /\ UNCHANGED storeVars

(* git apply runs into its timeout and is killed, before or after it wrote;*)
(* nothing is said to the ledger.                                          *)
GitApplyKilled(w) ==
  /\ At(w, "git apply")
  /\ tree' \in {tree} \cup (IF AppliesCleanly(w) THEN {PatchedTree(w)} ELSE {})
  /\ Raise(w, "error")
  /\ UNCHANGED storeVars

ConfirmApply(w, key, next) ==
  /\ At(w, "confirm")
  /\ \E now \in ReadsOf(w) :
       FinishEffect(worker[w].lease, key, TRUE,
                    [source |-> SourceFingerprint(w), patch |-> worker[w].patch], now)
  /\ Goto(w, next)
  /\ UNCHANGED tree

DisconfirmApply(w, key) ==
  /\ At(w, "disconfirm")
  /\ \E now \in ReadsOf(w) : FinishEffect(worker[w].lease, key, FALSE, None, now)
  /\ Raise(w, "error")
  /\ UNCHANGED tree

ReverseCheck_Forward(w) ==    \* mutant: git apply --check, without --reverse
  /\ At(w, "reverse check")
  /\ worker' = [worker EXCEPT ![w].at = "reconcile",
                              ![w].applied = AppliesCleanly(w)]
  /\ UNCHANGED <<storeVars, tree>>

(* git apply --reverse --check: is the patch in the worktree?              *)
ReverseCheck(w) ==
  /\ At(w, "reverse check")
  /\ worker' = [worker EXCEPT ![w].at = "reconcile",
                              ![w].applied = worker[w].patch \in TreeOf(w)]
  /\ UNCHANGED <<storeVars, tree>>

(* reconcile_effect with what the check said; EffectConflict if the        *)
(* operation is not in doubt.                                              *)
ReconcileApply(w, key, next) ==
  LET l == worker[w].lease
  IN  /\ At(w, "reconcile")
      /\ \E now \in ReadsOf(w) :
           \/ /\ ReconcileEffect(l, key, worker[w].applied,
                   [source |-> SourceFingerprint(w), patch |-> worker[w].patch], now)
              /\ IF worker[w].applied THEN Goto(w, next) ELSE Raise(w, "error")
           \/ /\ HoldsLease(l, now)
              /\ effects[l.run][key].status # "UNKNOWN"
              /\ Raise(w, "error")
              /\ UNCHANGED storeVars
      /\ UNCHANGED tree

ApplyPatch(w, key, next) ==
  \/ BeginApply(w, key, next)
  \/ GitApply(w)
  \/ GitApplyKilled(w)
  \/ ConfirmApply(w, key, next)
  \/ DisconfirmApply(w, key)
  \/ ReverseCheck(w)
  \/ ReconcileApply(w, key, next)

-----------------------------------------------------------------------------
(* Measuring the worktree.                                                 *)

(* The acceptance command runs only if there is one and the test passed.   *)
Verification(w) ==
  /\ At(w, "verification")
  /\ worker' = [worker EXCEPT
       ![w].tests = Passes(w),
       ![w].at = IF Passes(w) /\ RunOf(w) \in Guarded THEN "acceptance"
                                                       ELSE "fingerprint"]
  /\ UNCHANGED <<storeVars, tree>>

Acceptance(w) ==
  /\ At(w, "acceptance")
  /\ worker' = [worker EXCEPT ![w].acceptance = PassesAcceptance(w),
                              ![w].at = "fingerprint"]
  /\ UNCHANGED <<storeVars, tree>>

TakeFingerprint(w) ==
  /\ At(w, "fingerprint")
  /\ worker' = [worker EXCEPT ![w].source = SourceFingerprint(w), ![w].at = "record"]
  /\ UNCHANGED <<storeVars, tree>>

EvidenceOf(w) ==
  [source |-> worker[w].source, patch |-> worker[w].patch,
   tests |-> worker[w].tests, acceptance |-> worker[w].acceptance]

Record(w) ==
  /\ At(w, "record")
  /\ \E now \in ReadsOf(w) :
       RecordCheckpoint(worker[w].lease, "verify", EvidenceOf(w), now)
  /\ Goto(w, "judge")
  /\ UNCHANGED tree

-----------------------------------------------------------------------------
(* Properties of any program over worktree and store.                      *)

Settled(r, patch) ==
  \E k \in Keys : effects[r][k].status = "SUCCEEDED" /\ effects[r][k].request = patch

(* A run that succeeded has what it claims: the patch it names is one the  *)
(* ledger confirmed, is in the worktree, passes the test and, where there  *)
(* is one, the acceptance command, and its result is what the last         *)
(* checkpoint recorded.                                                    *)
SuccessIsVerified ==
  \A r \in Runs : runs[r].status = "SUCCEEDED" =>
    LET report == runs[r].result
        patches == tree[Repo[r]]
    IN  /\ Settled(r, report.patch)
        /\ report.patch \in patches /\ report.patch \in report.source
        /\ report.tests /\ patches \cap Fixes[r] # {}
        /\ r \in Guarded => report.acceptance = TRUE /\ patches \cap Accepts[r] # {}
        /\ checkpoints[r][Len(checkpoints[r])].evidence = report

(* However often a run is taken over or retried and whatever its repairer  *)
(* answers, one patch of it reaches the worktree at most: a retry cannot   *)
(* silently apply a changed request (README.md:45).                        *)
OnePatchPerRun ==
  \A r \in Runs : (\A s \in Runs \ {r} : Repo[s] # Repo[r])
                    => Cardinality(tree[Repo[r]]) <= 1

(* What the ledger confirmed is in the worktree, however the confirmation  *)
(* came about: reported, reconciled or replayed.                           *)
ConfirmedIsApplied ==
  \A r \in Runs, k \in Keys :
    effects[r][k].status = "SUCCEEDED" => effects[r][k].request \in tree[Repo[r]]
===============================================================================
