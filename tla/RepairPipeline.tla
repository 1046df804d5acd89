---------------------------- MODULE RepairPipeline ----------------------------
(***************************************************************************)
(* Worker processes (cli.py, pipeline.py) that repair dependency upgrades: *)
(* a worker claims a run and walks it through reproduce, repair, apply and *)
(* verify.  A worker may be killed at any point, and may be so slow that   *)
(* its run is taken over; it goes on where it was when it wakes up.        *)
(***************************************************************************)
EXTENDS GitWorkspace

CONSTANT NameOf    \* NameOf[w]: the owner name worker w claims under

ASSUME PipelineAssumption ==
  /\ NameOf \in [Workers -> Owners]
  /\ Keys = {"candidate-1/apply-patch"}
  /\ "not reproducibly failing" \in Errors

KEY == "candidate-1/apply-patch"

StoreCalls ==
  {"reproduce", "repair", "apply", "begin", "confirm", "disconfirm",
   "reconcile", "verify", "record", "complete", "raised"}
Commands ==
  {"head", "run test", "propose", "reverse check", "verification", "acceptance",
   "fingerprint"}

-----------------------------------------------------------------------------
(* Starting.                                                               *)

Submit(r) ==
  /\ \E now \in ClockReads : CreateRun(r, now)
  /\ UNCHANGED <<worker, tree>>

Claim(w) ==
  /\ At(w, "idle")
  /\ \E r \in Runs, now \in ReadsOf(w) :
       /\ ClaimNext(r, NameOf[w], now)
       /\ worker' = [worker EXCEPT ![w] =
            [Idle EXCEPT !.at = "head",
                         !.run = r,
                         !.lease = [run |-> r, owner |-> NameOf[w],
                                    fence |-> NextToken(runs[r])]]]
  /\ UNCHANGED tree

-----------------------------------------------------------------------------
(* Reproduce and repair.                                                   *)

CheckHead(w) ==
  /\ At(w, "head")
  /\ Goto(w, "reproduce")
  /\ UNCHANGED <<storeVars, tree>>

Reproduce(w) ==
  /\ At(w, "run test")
  /\ IF Passes(w) THEN Raise(w, "not reproducibly failing") ELSE Goto(w, "repair")
  /\ UNCHANGED <<storeVars, tree>>

(* The repairer may answer with any patch, a new one on every attempt.     *)
Propose(w) ==
  /\ At(w, "propose")
  /\ \E patch \in Requests :
       worker' = [worker EXCEPT ![w].at = "apply", ![w].patch = patch]
  /\ UNCHANGED <<storeVars, tree>>

-----------------------------------------------------------------------------
(* Judge and complete.                                                     *)

Judge_TestOnly(w) ==    \* mutant: the acceptance result is not looked at
  /\ At(w, "judge")
  /\ IF ~worker[w].tests THEN Raise(w, "failed verification") ELSE Goto(w, "complete")
  /\ UNCHANGED <<storeVars, tree>>

Judge(w) ==
  /\ At(w, "judge")
  /\ IF ~worker[w].tests THEN Raise(w, "failed verification")
     ELSE IF worker[w].acceptance = FALSE THEN Raise(w, "failed acceptance")
     ELSE Goto(w, "complete")
  /\ UNCHANGED <<storeVars, tree>>

(* transition reads the run again after its commit, and may raise there:   *)
(* the success is stored and not returned.                                 *)
Complete(w) ==
  /\ At(w, "complete")
  /\ \E now \in ReadsOf(w) :
       Transition(worker[w].lease, "SUCCEEDED", "complete", EvidenceOf(w), None, now)
  /\ GoIdle(w) \/ Raise(w, "error")
  /\ UNCHANGED tree

-----------------------------------------------------------------------------
(* Everything that goes wrong.                                             *)

(* A foreign HEAD, a timeout of a command, a policy violation, an unusable *)
(* answer of the repairer, an unreadable file, a database that stays       *)
(* locked: caught by execute, which fails the run.                         *)
Raises(w) ==
  /\ worker[w].at \in (StoreCalls \cup Commands) \ {"raised"}
  /\ Raise(w, "error")
  /\ UNCHANGED <<storeVars, tree>>

FailRun_LossIgnored(w) ==    \* mutant: a failure that cannot be stored is returned
  /\ At(w, "raised")
  /\ \/ \E now \in ReadsOf(w) :
          Transition(worker[w].lease, "FAILED", "failed", None, worker[w].error, now)
     \/ LeaseLost(w) /\ UNCHANGED storeVars
  /\ GoIdle(w)
  /\ UNCHANGED tree

(* The failure may be stored and not returned as well; to store another is *)
(* refused then, as the lease is gone.                                     *)
FailRun(w) ==
  /\ At(w, "raised")
  /\ \E now \in ReadsOf(w) :
       Transition(worker[w].lease, "FAILED", "failed", None, worker[w].error, now)
  /\ GoIdle(w) \/ Raise(w, "error")
  /\ UNCHANGED tree

(* Nobody catches LeaseLost.                                               *)
LoseLease(w) ==
  /\ worker[w].at \in StoreCalls
  /\ LeaseLost(w)
  /\ GoIdle(w)
  /\ UNCHANGED <<storeVars, tree>>

Crash(w) ==
  /\ ~At(w, "idle")
  /\ GoIdle(w)
  /\ UNCHANGED <<storeVars, tree>>

-----------------------------------------------------------------------------

Init ==
  /\ StoreInit
  /\ worker = [w \in Workers |-> Idle]
  /\ tree = [t \in Worktrees |-> {}]
  /\ since = [w \in Workers |-> 0]

(* What a worker does with its lease before the run ends.                  *)
Attempt(w) ==
  \/ CheckHead(w)
  \/ EnterStage(w, "reproduce", "reproduce", "run test")
  \/ Reproduce(w)
  \/ EnterStage(w, "repair", "repair", "propose")
  \/ Propose(w)
  \/ EnterStage(w, "apply", "apply", "begin")
  \/ ApplyPatch(w, KEY, "verify")
  \/ EnterStage(w, "verify", "verify", "verification")
  \/ Verification(w)
  \/ Acceptance(w)
  \/ TakeFingerprint(w)
  \/ Record(w)
  \/ Judge(w)
  \/ Raises(w)

WorkerStep(w) ==
  Claim(w) \/ Attempt(w) \/ Complete(w) \/ FailRun(w) \/ LoseLease(w)

Pass == Tick /\ UNCHANGED <<worker, tree, since>>

Next ==
  \/ \E r \in Runs : Submit(r) /\ UNCHANGED since
  \/ \E w \in Workers : (WorkerStep(w) \/ Crash(w)) /\ Over(w)
  \/ Pass

Spec == Init /\ [][Next]_vars

-----------------------------------------------------------------------------
(* Properties.                                                             *)

WorkersTyped ==
  /\ worker \in [Workers -> Worker(StoreCalls \cup Commands)]
  /\ tree \in [Worktrees -> SUBSET Requests]

(* What the workers store, what they remember, the worktrees and the       *)
(* clock readings are of their types.                                      *)
PipelineTypeOK == TypeOK /\ WorkersTyped /\ since \in [Workers -> Nat]

Ledger(r) == effects[r][KEY]

(* A worker that verifies under the run's own token verifies a patch that  *)
(* the ledger confirmed and that is in the worktree.                       *)
VerifiesAppliedPatch ==
  \A w \in Workers :
    /\ worker[w].at \in {"verify", "verification", "acceptance", "fingerprint",
                         "record", "judge", "complete"}
    /\ runs[RunOf(w)].fence_token = worker[w].lease.fence
    => /\ Ledger(RunOf(w)).status = "SUCCEEDED"
       /\ Ledger(RunOf(w)).request = worker[w].patch
       /\ worker[w].patch \in TreeOf(w)

(* No two processes work under the same token of a run, although all of    *)
(* them may use the same owner name (the worker command's default is       *)
(* local-worker).                                                          *)
OneWorkerPerToken ==
  \A v, w \in Workers :
    v # w /\ ~At(v, "idle") /\ ~At(w, "idle") => worker[v].lease # worker[w].lease

Untouched(r) == UNCHANGED <<runs[r], effects[r], checkpoints[r], events[r]>>

(* At most the store call that a worker was in when its lease ran out goes *)
(* through late: once the expiry lies before the worker's last step, no    *)
(* process writes to the run or its ledger any more, whatever the owner    *)
(* names, until somebody takes the run over.                               *)
LateCallsRefused ==
  [][\A w \in Workers, r \in Runs :
       /\ ~At(w, "idle") /\ RunOf(w) = r
       /\ runs[r].status = "RUNNING"
       /\ runs[r].fence_token = worker[w].lease.fence
       /\ runs[r].lease_expires_at <= since[w]
       => Untouched(r) \/ runs'[r].fence_token = runs[r].fence_token + 1]_vars

(* Every submitted run ends, in spite of crashed and stalled workers, once *)
(* attempts fit into their leases.                                         *)
EveryRunEnds ==
  \A r \in Runs : runs[r].status = "PENDING" ~> runs[r].status \in Terminal

(* After the patch was written and the process exited, recovery checks the *)
(* actual files (docs/index.html:156): no run is judged while the ledger   *)
(* still has, unsettled, an operation of a lost lease whose patch is in    *)
(* the worktree.  It does not hold: the recovering worker finds the test   *)
(* passing, judges the run not reproducibly failing and never gets to the  *)
(* reconciliation in apply_patch.                                          *)
InterruptedPatchReconciled ==
  \A r \in Runs :
    ~ /\ runs[r].status \in Terminal /\ runs[r].last_error # "error"
      /\ Ledger(r).status = "STARTED"
      /\ Ledger(r).request \in tree[Repo[r]]
      /\ Ledger(r).fence_token < runs[r].fence_token

(* Worktree mutations are bound to leases and fencing tokens               *)
(* (README.md:44): nobody changes the worktree of a run that has ended.    *)
(* It does not hold: a stalled worker still runs its git apply.            *)
EndedWorktreeFrozen ==
  [][\A r \in Runs : runs[r].status \in Terminal => tree'[Repo[r]] = tree[Repo[r]]]_vars

(* Each candidate has a worktree of its own (the design document, line     *)
(* 49): a run that succeeded did so on its own patch, not on another       *)
(* run's.  It does not hold of two runs submitted for one worktree.        *)
SuccessIsItsOwn ==
  \A r \in Runs : runs[r].status = "SUCCEEDED" => runs[r].result.patch \in Fixes[r]
===============================================================================
