--------------------------- MODULE MCRepairPipeline ---------------------------
(* Small instances of RepairPipeline.  The patches are p (a fix that       *)
(* passes the acceptance command), q (a fix that only satisfies the test), *)
(* no (no fix) and x (does not apply), each in a file of its own.          *)
EXTENDS RepairPipeline, PipelineProofs

CONSTANTS MaxClock, p, q, no, x

MCKeys == {"candidate-1/apply-patch"}
MCStages == {"queued", "reproduce", "repair", "apply", "verify", "complete", "failed"}
MCErrors == {"error", "not reproducibly failing", "failed verification",
             "failed acceptance"}
MCEvidence == PatchEvidence \cup TestEvidence
MCNameOf == [w \in Workers |-> CHOOSE o \in Owners : TRUE]
MCFixes == [r \in Runs |-> Requests \ {no, x}]
MCAccepts == [r \in Runs |-> Requests \cap {p}]
MCApplicable == Requests \ {x}
MCSameFiles == [patch \in Requests |-> {patch}]
MCRepoEach == [r \in Runs |-> CHOOSE t \in Worktrees : TRUE]

(* Time stops at MaxClock.  A worker crashes only if the run was taken     *)
(* over already or the lease runs out by then, so that somebody can recover*)
(* the run: the bound must not leave a run with a dead worker whose lease  *)
(* never ends.                                                             *)
BoundedPass == clock < MaxClock /\ Pass
BoundedCrash(w) ==
  /\ Crash(w)
  /\ HoldsLease(worker[w].lease, clock)
       => runs[RunOf(w)].lease_expires_at <= MaxClock

BoundedNext ==
  \/ \E r \in Runs : Submit(r) /\ UNCHANGED since
  \/ \E w \in Workers : (WorkerStep(w) \/ BoundedCrash(w)) /\ Over(w)
  \/ BoundedPass

BoundedSpec == Init /\ [][BoundedNext]_vars

FairSpec ==
  /\ BoundedSpec
  /\ WF_vars(BoundedPass)
  /\ \A w \in Workers : WF_vars(WorkerStep(w) /\ Over(w))
===============================================================================
