------------------------------ MODULE MCOpenRath ------------------------------
(* Small instances of OpenRathWorkflow.  The patches are p (a fix that     *)
(* passes the acceptance command), q (a fix that only satisfies the test)  *)
(* and x (does not apply).                                                 *)
EXTENDS OpenRathWorkflow, WorkflowProofs, TLC

CONSTANTS MaxClock, p, q, x

MCKeyOf == [patch \in Requests |-> patch]
MCOwnerOf == [r \in Runs |-> CHOOSE o \in Owners : TRUE]
MCStages == {"queued", "apply", "verify", "complete", "failed", "reproduce", "repair"}
MCErrors == {"error", "failed verification", "failed acceptance"}
MCEvidence == PatchEvidence \cup TestEvidence
MCFixes == [r \in Runs |-> Requests \ {x}]
MCAccepts == [r \in Runs |-> Requests \cap {p}]
MCApplicable == Requests \ {x}
MCSameFiles == [patch \in Requests |-> {patch}]
MCRepo == [r \in Runs |-> CHOOSE t \in Worktrees : TRUE]

(* Time stops at MaxClock.                                                 *)
BoundedPass == clock < MaxClock /\ Pass

BoundedNext ==
  \/ \E r \in Runs : CreateDomainRun(r) \/ Submit(r) \/ GiveUp(r)
  \/ \E w \in Workers : ProcessStep(w) /\ Over(w)
  \/ BoundedPass

(* Nothing but what the adapter and the programs it runs do: no exceptions *)
(* from outside and an attentive runtime.                                  *)
CalmNext ==
  \/ \E r \in Runs : CreateDomainRun(r) \/ Submit(r)
  \/ \E w \in Workers : (StepFunction(w) \/ Runtime(w)) /\ Over(w)

(* An attempt is gone when its process is.                                 *)
Gone(r) == outer[r].holder # None /\ worker[outer[r].holder].run # r

CrashingNext ==
  \/ CalmNext
  \/ \E w \in Workers : Crash(w) /\ Over(w)
  \/ \E r \in Runs : Gone(r) /\ GiveUp(r)

BoundedSpec == Init /\ [][BoundedNext]_workflowVars
CalmSpec == Init /\ [][CalmNext]_workflowVars
CrashingSpec == Init /\ [][CrashingNext]_workflowVars

(* The hypotheses of StoredSuccessIsReported and FailedVerificationEnds.   *)
AttendedSpec == Init /\ [][BoundedNext /\ ~AttemptLost]_workflowVars
UninterruptedSpec == Init /\ [][BoundedNext /\ ~VerifyInterrupted]_workflowVars

(* Crashes, and giving up an attempt that goes on.  (An attempt that is    *)
(* given up ends like one that crashes.)                                   *)
Disturbance ==
  \/ \E w \in Workers : Crash(w) /\ ~Runtime(w)
  \/ \E r \in Runs : ~Gone(r) /\ GiveUp(r)

(* The runtime has its workers work and notices a process that is gone;    *)
(* processes go on; disturbances stop at some time.                        *)
FairSpec ==
  /\ BoundedSpec
  /\ WF_workflowVars(BoundedPass)
  /\ \A w \in Workers : WF_workflowVars((StepFunction(w) \/ Runtime(w)) /\ Over(w))
  /\ \A r \in Runs : WF_workflowVars(Gone(r) /\ GiveUp(r))
  /\ <>[][~Disturbance]_workflowVars

WorkerSymmetry == Permutations(Workers)

(* Since when a process reads the clock matters only to a store call.      *)
ReadingSince ==
  [w \in Workers |-> IF worker[w].at \in StoreCalls \cup Acquiring THEN since[w] ELSE 0]

(* What a state is told by: the events, the handed-out leases, all         *)
(* checkpoints but the last, and the counters of a row are histories that  *)
(* no action of the workflow and no property of these runs reads; crashes  *)
(* and retries would let them grow for ever.                               *)
LastCheckpoint(r) ==
  IF checkpoints[r] = <<>> THEN <<>> ELSE <<checkpoints[r][Len(checkpoints[r])]>>
Present ==
  <<[r \in Runs |-> [runs[r] EXCEPT !.revision = 0, !.attempt = 0, !.created_at = 0]],
    [r \in Runs |-> LastCheckpoint(r)], effects, worker, tree, ReadingSince, outer, clock>>
===============================================================================
