--------------------------- MODULE OpenRathWorkflow ---------------------------
(***************************************************************************)
(* The OpenRath adapter (openrath.py): the repair of a run as a workflow of*)
(* four steps that an outer runtime schedules, retries and recovers.  The  *)
(* runtime persists what each step returns; the adapter's steps persist    *)
(* what they do in the run store, as the domain run.  No transaction covers*)
(* both.                                                                   *)
(*                                                                         *)
(* The runtime is not in this repository; it is modelled from how the      *)
(* adapter uses it: one attempt of a step is current at a time, a step that*)
(* raises is attempted again as often as its RetryPolicy says, an attempt  *)
(* whose process is gone, or is taken for gone, is replaced by another of  *)
(* the same step, and only the current attempt moves the workflow.         *)
(***************************************************************************)
EXTENDS GitWorkspace

CONSTANTS
  OwnerOf,   \* OwnerOf[r]: "openrath:" and the id of the workflow of run r
  KeyOf      \* KeyOf[p]: "candidate/", the hash of patch p, "/apply"

ASSUME WorkflowAssumption ==
  /\ OwnerOf \in [Runs -> Owners]
  /\ KeyOf \in [Requests -> Keys]
  /\ \A p, q \in Requests : p # q => KeyOf[p] # KeyOf[q]
  /\ None \notin Workers

VARIABLE outer    \* outer[r]: the persisted workflow of run r

workflowVars == <<vars, outer>>

-----------------------------------------------------------------------------
(* The workflow.                                                           *)

Steps == {"reproduce", "repair", "apply", "verify"}
Successor == [reproduce |-> "repair", repair |-> "apply", apply |-> "verify"]

MaxAttempts == [reproduce |-> 1, repair |-> 1, apply |-> 3, verify |-> 2]

(* Where the function of a step begins.                                    *)
Entry == [reproduce |-> "head", repair |-> "propose",
          apply |-> "acquire for apply", verify |-> "acquire for verify"]

Outer ==
  [status : {"none", "active", "succeeded", "failed"},
   step : Steps,
   raised : 0..2,                      \* attempts of the step that raised
   patch : Requests \cup {None},       \* state["candidate"]
   holder : Workers \cup {None}]       \* who runs the current attempt

NoWorkflow ==
  [status |-> "none", step |-> "reproduce", raised |-> 0, patch |-> None,
   holder |-> None]

StoreCalls ==
  {"apply", "begin", "confirm", "disconfirm", "reconcile", "verify", "record",
   "complete", "failed"}
Acquiring == {"acquire for apply", "acquire for verify"}
Commands ==
  {"head", "run test", "propose", "reverse check", "verification", "acceptance",
   "fingerprint"}
Places == StoreCalls \cup Acquiring \cup Commands \cup {"returned"}

IsCurrent(w) == outer[RunOf(w)].holder = w

-----------------------------------------------------------------------------
(* The runtime.                                                            *)

CreateDomainRun(r) ==
  /\ \E now \in ClockReads : CreateRun(r, now)
  /\ UNCHANGED <<worker, tree, since, outer>>

(* The idempotency key makes a second submission a no-op.                  *)
Submit(r) ==
  /\ runs[r].status # "ABSENT"
  /\ outer[r].status = "none"
  /\ outer' = [outer EXCEPT ![r].status = "active"]
  /\ UNCHANGED vars

(* work_once: worker w begins an attempt of the step the workflow is at,   *)
(* with the state the steps before it returned.                            *)
StartAttempt(w) ==
  /\ At(w, "idle")
  /\ \E r \in Runs :
       /\ outer[r].status = "active" /\ outer[r].holder = None
       /\ worker' = [worker EXCEPT ![w] =
            [Idle EXCEPT !.at = Entry[outer[r].step], !.run = r,
                         !.patch = outer[r].patch]]
       /\ outer' = [outer EXCEPT ![r].holder = w]
  /\ UNCHANGED <<storeVars, tree>>

PersistStep_LateAnswer(w) ==    \* mutant: a given-up attempt stores its candidate
  LET r == RunOf(w)
      row == outer[r]
  IN  /\ At(w, "returned")
      /\ outer' = [outer EXCEPT ![r] =
            IF ~IsCurrent(w)
            THEN [row EXCEPT !.patch = IF worker[w].patch = None THEN @ ELSE worker[w].patch]
            ELSE IF row.step = "verify"
            THEN [row EXCEPT !.status = "succeeded", !.holder = None]
            ELSE [row EXCEPT !.step = Successor[row.step], !.raised = 0,
                             !.patch = worker[w].patch, !.holder = None]]
      /\ GoIdle(w)
      /\ UNCHANGED <<storeVars, tree>>

(* The step returned: the workflow moves on, unless the attempt is not the *)
(* current one any more.                                                   *)
PersistStep(w) ==
  LET r == RunOf(w)
      row == outer[r]
  IN  /\ At(w, "returned")
      /\ IF ~IsCurrent(w) THEN UNCHANGED outer
         ELSE outer' = [outer EXCEPT ![r] =
                IF row.step = "verify"
                THEN [row EXCEPT !.status = "succeeded", !.holder = None]
                ELSE [row EXCEPT !.step = Successor[row.step], !.raised = 0,
                                 !.patch = worker[w].patch, !.holder = None]]
      /\ GoIdle(w)
      /\ UNCHANGED <<storeVars, tree>>

(* The step raised: another attempt, or the workflow has failed.           *)
RetryOrFail(w) ==
  LET r == RunOf(w)
      row == outer[r]
  IN  /\ At(w, "raised")
      /\ IF ~IsCurrent(w) THEN UNCHANGED outer
         ELSE outer' = [outer EXCEPT ![r] =
                IF row.raised + 1 < MaxAttempts[row.step]
                THEN [row EXCEPT !.raised = @ + 1, !.holder = None]
                ELSE [row EXCEPT !.status = "failed", !.holder = None]]
      /\ GoIdle(w)
      /\ UNCHANGED <<storeVars, tree>>

(* The runtime gives the current attempt up: its process is gone, or is so *)
(* slow that it seems to be.  The step is attempted again; the repair step,*)
(* which is not idempotent, may also fail the workflow.                    *)
GiveUp(r) ==
  /\ outer[r].holder # None
  /\ \/ outer' = [outer EXCEPT ![r].holder = None]
     \/ /\ outer[r].step = "repair"
        /\ outer' = [outer EXCEPT ![r].holder = None, ![r].status = "failed"]
  /\ UNCHANGED vars

-----------------------------------------------------------------------------
(* The reproduce and the repair step: the domain run is not touched.       *)

CheckHead(w) ==
  /\ At(w, "head")
  /\ Goto(w, "run test")
  /\ UNCHANGED <<storeVars, tree>>

Reproduce(w) ==
  /\ At(w, "run test")
  /\ IF Passes(w) THEN Raise(w, "error") ELSE Goto(w, "returned")
  /\ UNCHANGED <<storeVars, tree>>

Propose(w) ==
  /\ At(w, "propose")
  /\ \E patch \in Requests :
       worker' = [worker EXCEPT ![w].at = "returned", ![w].patch = patch]
  /\ UNCHANGED <<storeVars, tree>>

-----------------------------------------------------------------------------
(* The apply and the verify step.                                          *)

(* acquire_run raises: the run has ended or waits, or it is leased to      *)
(* somebody else.                                                          *)
AcquireRefused(r, owner, now) ==
  \/ runs[r].status \notin {"PENDING", "RUNNING"}
  \/ /\ runs[r].status = "RUNNING"
     /\ runs[r].lease_expires_at > now
     /\ runs[r].lease_owner # owner

Acquire_Blocks(w, here, next) ==    \* mutant: waits for a run that has ended
  LET r == RunOf(w)
      owner == OwnerOf[r]
  IN  /\ At(w, here)
      /\ \E now \in ReadsOf(w) : AcquireRun(r, owner, now) \/ ReenterRun(r, owner, now)
      /\ worker' = [worker EXCEPT
           ![w].at = next,
           ![w].lease = [run |-> r, owner |-> owner, fence |-> runs'[r].fence_token]]
      /\ UNCHANGED tree

(* acquire_run under the owner name all attempts of a workflow share, then *)
(* on to next: a new lease, the live one once more, or an exception.       *)
Acquire(w, here, next) ==
  LET r == RunOf(w)
      owner == OwnerOf[r]
  IN  /\ At(w, here)
      /\ \E now \in ReadsOf(w) :
           \/ /\ AcquireRun(r, owner, now) \/ ReenterRun(r, owner, now)
              /\ worker' = [worker EXCEPT
                   ![w].at = next,
                   ![w].lease = [run |-> r, owner |-> owner,
                                 fence |-> runs'[r].fence_token]]
           \/ /\ AcquireRefused(r, owner, now)
              /\ Raise(w, "error")
              /\ UNCHANGED storeVars
      /\ UNCHANGED tree

Apply(w) ==
  \/ Acquire(w, "acquire for apply", "apply")
  \/ EnterStage(w, "apply", "apply", "begin")
  \/ ApplyPatch(w, KeyOf[worker[w].patch], "returned")

(* A failed verification ends the domain run and raises.                   *)
Judge_TestOnly(w) ==    \* mutant: the acceptance result is not looked at
  /\ At(w, "judge")
  /\ IF worker[w].tests THEN Goto(w, "complete")
     ELSE worker' = [worker EXCEPT ![w].at = "failed", ![w].error = "failed verification"]
  /\ UNCHANGED <<storeVars, tree>>

Judge(w) ==
  /\ At(w, "judge")
  /\ IF worker[w].tests /\ worker[w].acceptance # FALSE
     THEN Goto(w, "complete")
     ELSE worker' = [worker EXCEPT
            ![w].at = "failed",
            ![w].error = IF worker[w].tests THEN "failed acceptance"
                                            ELSE "failed verification"]
  /\ UNCHANGED <<storeVars, tree>>

EndDomainRun_Unmarked(w) ==    \* mutant: a failed verification returns
  /\ At(w, "failed")
  /\ \E now \in ReadsOf(w) :
       Transition(worker[w].lease, "FAILED", "failed", None, worker[w].error, now)
  /\ Goto(w, "returned")
  /\ UNCHANGED tree

EndDomainRun(w) ==
  /\ At(w, "failed")
  /\ \E now \in ReadsOf(w) :
       Transition(worker[w].lease, "FAILED", "failed", None, worker[w].error, now)
  /\ Raise(w, worker[w].error)
  /\ UNCHANGED tree

StoreSuccess(w) ==
  /\ At(w, "complete")
  /\ \E now \in ReadsOf(w) :
       Transition(worker[w].lease, "SUCCEEDED", "complete", EvidenceOf(w), None, now)
  /\ UNCHANGED tree

Complete(w) == StoreSuccess(w) /\ Goto(w, "returned")

(* transition reads the run again after its commit, and raises there: the  *)
(* success is stored and the step raises.                                  *)
SuccessUnreported(w) == StoreSuccess(w) /\ Raise(w, "error")

Verify(w) ==
  \/ Acquire(w, "acquire for verify", "verify")
  \/ EnterStage(w, "verify", "verify", "verification")
  \/ Verification(w)
  \/ Acceptance(w)
  \/ TakeFingerprint(w)
  \/ Record(w)
  \/ Judge(w)
  \/ EndDomainRun(w)
  \/ Complete(w)

(* A store call without the lease, for the runtime an exception like any   *)
(* other.                                                                  *)
LoseLease(w) ==
  /\ worker[w].at \in StoreCalls
  /\ LeaseLost(w)
  /\ Raise(w, "error")
  /\ UNCHANGED <<storeVars, tree>>

(* A foreign HEAD, a timeout, a policy violation, an unusable answer, a    *)
(* database that stays locked.                                             *)
Raises(w) ==
  /\ worker[w].at \in Places \ {"returned"}
  /\ Raise(w, "error")
  /\ UNCHANGED <<storeVars, tree>>

Crash(w) ==
  /\ ~At(w, "idle")
  /\ GoIdle(w)
  /\ UNCHANGED <<storeVars, tree, outer>>

-----------------------------------------------------------------------------

Init ==
  /\ StoreInit
  /\ worker = [w \in Workers |-> Idle]
  /\ tree = [t \in Worktrees |-> {}]
  /\ since = [w \in Workers |-> 0]
  /\ outer = [r \in Runs |-> NoWorkflow]

(* What the process that runs an attempt does.                             *)
StepFunction(w) ==
  /\ \/ CheckHead(w) \/ Reproduce(w) \/ Propose(w)
     \/ Apply(w) \/ Verify(w) \/ LoseLease(w)
  /\ UNCHANGED outer

StepRaises(w) == (Raises(w) \/ SuccessUnreported(w)) /\ UNCHANGED outer

Runtime(w) == StartAttempt(w) \/ PersistStep(w) \/ RetryOrFail(w)

ProcessStep(w) == StepFunction(w) \/ StepRaises(w) \/ Runtime(w) \/ Crash(w)

Pass == Tick /\ UNCHANGED <<worker, tree, since, outer>>

Next ==
  \/ \E r \in Runs : CreateDomainRun(r) \/ Submit(r) \/ GiveUp(r)
  \/ \E w \in Workers : ProcessStep(w) /\ Over(w)
  \/ Pass

Spec == Init /\ [][Next]_workflowVars

-----------------------------------------------------------------------------
(* Properties.                                                             *)

AttemptsTyped ==
  /\ worker \in [Workers -> Worker(Places)]
  /\ tree \in [Worktrees -> SUBSET Requests]
  /\ outer \in [Runs -> Outer]

(* What both stores hold, what the processes remember, the worktrees and   *)
(* the clock readings are of their types.                                  *)
WorkflowTypeOK == TypeOK /\ AttemptsTyped /\ since \in [Workers -> Nat]

(* A workflow the runtime reports as succeeded has a domain run that       *)
(* succeeded, with the candidate that the repair step returned: crashes,   *)
(* retries and given-up attempts never let the two stores tell different   *)
(* success stories.                                                        *)
SucceededTogether ==
  \A r \in Runs : outer[r].status = "succeeded" =>
    runs[r].status = "SUCCEEDED" /\ runs[r].result.patch = outer[r].patch

(* Two attempts of a workflow may work under one and the same lease, since *)
(* they share the owner name; still at most one of them executes an        *)
(* operation of the ledger: nobody else under that token is at git apply   *)
(* or about to report on it.                                               *)
OneExecutorPerLease ==
  \A v, w \in Workers :
    /\ v # w
    /\ worker[v].at \in {"git apply", "confirm", "disconfirm"}
    /\ worker[w].at \in {"git apply", "confirm", "disconfirm"}
    => worker[v].lease # worker[w].lease

(* Whatever becomes of the attempts of the repair step, only the candidate *)
(* the runtime persisted is ever asked of the ledger or written to the     *)
(* worktree.                                                               *)
PersistedCandidateOnly ==
  \A r \in Runs :
    /\ \A k \in Keys : effects[r][k].status # "ABSENT" =>
         effects[r][k].request = outer[r].patch /\ k = KeyOf[outer[r].patch]
    /\ (\A s \in Runs \ {r} : Repo[s] # Repo[r])
         => tree[Repo[r]] \subseteq {outer[r].patch}

(* Every submitted workflow ends, once processes stop crashing and the     *)
(* runtime stops giving up attempts that go on.                            *)
EveryWorkflowEnds ==
  \A r \in Runs :
    outer[r].status = "active" ~> outer[r].status \in {"succeeded", "failed"}

(* The apply step is declared idempotent so that the runtime can recover   *)
(* at its boundary (openrath.py:118, README.md:122-124), and a recovery    *)
(* confirms from the actual files that an interrupted patch is done (the   *)
(* design document, line 61): a workflow is not failed at the apply step   *)
(* with its own candidate in the worktree.  It does not hold: a retry re-  *)
(* enters the live lease, finds the operation STARTED under its own token, *)
(* and may not reconcile it.                                               *)
AppliedPatchAccepted ==
  \A r \in Runs :
    ~ /\ outer[r].status = "failed" /\ outer[r].step = "apply"
      /\ outer[r].patch \in tree[Repo[r]]

(* The verify step is declared idempotent as well (openrath.py:145): run   *)
(* again after its success was stored in the domain run, it reports that   *)
(* success.  It does not hold: the domain run is terminal, acquire_run     *)
(* raises, and the workflow fails.                                         *)
StoredSuccessReported ==
  \A r \in Runs : runs[r].status = "SUCCEEDED" => outer[r].status # "failed"

(* Without a qualified candidate the repair ends explicitly (the design    *)
(* document, line 51), with a persisted terminal result (README.md:24): a  *)
(* workflow that ended has ended its domain run.  It does not hold: only   *)
(* the verify step ends the domain run.                                    *)
EndedTogether ==
  \A r \in Runs :
    outer[r].status \in {"succeeded", "failed"} => runs[r].status \in Terminal
===============================================================================
