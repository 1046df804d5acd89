----------------------------- MODULE WorkspaceProofs -----------------------------
(* What a step of any program over store and worktrees leaves true: the    *)
(* lemmas that the proofs about RepairPipeline and OpenRathWorkflow share. *)
EXTENDS GitWorkspace, RunStoreProofs

(* Where a process, on its way through apply and verify, may rely on       *)
(* something.                                                              *)
Executing == {"git apply", "confirm", "disconfirm", "reverse check", "reconcile"}
Verifying == {"verify", "complete"} \cup VerifySteps
Tested == {"acceptance", "fingerprint", "record", "judge", "complete"}
Judged == {"fingerprint", "record", "judge", "complete"}
Measured == {"record", "judge", "complete"}

(* The operation k of the run has been begun with the process's own patch; *)
(* it has been confirmed.                                                  *)
Asked(w, k) ==
  /\ worker[w].patch \in Requests
  /\ effects[RunOf(w)][k].status # "ABSENT"
  /\ effects[RunOf(w)][k].request = worker[w].patch
Confirmed(w, k) == Asked(w, k) /\ effects[RunOf(w)][k].status = "SUCCEEDED"

(* What a process knows about ledger and worktree from what it did or read,*)
(* and what nobody takes back: it stays true when the process stalls, its  *)
(* lease ends and others go on with the run.                               *)
Knows(w, k) ==
  /\ worker[w].at \in {"apply", "begin"} => worker[w].patch \in Requests
  /\ worker[w].at \in Executing => Asked(w, k)
  /\ \/ worker[w].at = "confirm"
     \/ worker[w].at = "reconcile" /\ worker[w].applied
     => worker[w].patch \in TreeOf(w)
  /\ worker[w].at \in Verifying => Confirmed(w, k)
  /\ worker[w].at \in Tested =>
       /\ worker[w].tests \in BOOLEAN
       /\ worker[w].tests => Passes(w)
  /\ worker[w].at = "acceptance" => worker[w].tests = TRUE
  /\ worker[w].at \in Judged /\ worker[w].tests = TRUE /\ RunOf(w) \in Guarded =>
       /\ worker[w].acceptance \in BOOLEAN
       /\ worker[w].acceptance => PassesAcceptance(w)
  /\ worker[w].at \in Measured => worker[w].patch \in worker[w].source
  /\ worker[w].at = "complete" =>
       worker[w].tests = TRUE /\ worker[w].acceptance # FALSE

(* Workers and worktrees are typed; P are the places of the program.       *)
Typed(P) ==
  /\ worker \in [Workers -> Worker(P)]
  /\ tree \in [Worktrees -> SUBSET Requests]

(* A process at one of the places P holds a lease that was handed out for  *)
(* its run.                                                                *)
Leased(w) ==
  /\ RunOf(w) \in Runs
  /\ worker[w].lease \in leases
  /\ worker[w].lease.run = RunOf(w)

(* Nothing is taken back: leases stay handed out, worktrees only gain      *)
(* patches, an operation keeps its request and a confirmed one stays       *)
(* confirmed.                                                              *)
StoreGrows ==
  /\ leases \subseteq leases'
  /\ \A r \in Runs, k \in Keys : effects[r][k].status # "ABSENT" =>
       /\ effects'[r][k].status # "ABSENT"
       /\ effects'[r][k].request = effects[r][k].request
       /\ effects[r][k].status = "SUCCEEDED" => effects'[r][k].status = "SUCCEEDED"
TreesGrow == \A t \in Worktrees : tree[t] \subseteq tree'[t]

(* Process w goes on to a place of its program and works for the same run, *)
(* under the same lease, on the same patch; it remembers what it measured. *)
Moves(w, P, place) ==
  /\ worker' \in [Workers -> Worker(P)]
  /\ \A v \in Workers \ {w} : worker'[v] = worker[v]
  /\ worker'[w].at = place
  /\ worker'[w].run = worker[w].run
  /\ worker'[w].lease = worker[w].lease
  /\ worker'[w].patch = worker[w].patch
Remembers(w) ==
  /\ worker'[w].tests = worker[w].tests
  /\ worker'[w].acceptance = worker[w].acceptance
  /\ worker'[w].source = worker[w].source

(* What a step of process w for operation k may do to ledger and worktree: *)
(* it confirms only what is in the worktree, and it writes to the worktree *)
(* only its own patch, and only after the ledger was told.                 *)
Honest(w, k) ==
  /\ \A r \in Runs, j \in Keys : effects'[r][j].status = "SUCCEEDED" =>
       effects[r][j].status = "SUCCEEDED" \/ effects'[r][j].request \in tree[Repo[r]]
  /\ \A t \in Worktrees : \A patch \in tree'[t] :
       \/ patch \in tree[t]
       \/ t = Repo[RunOf(w)] /\ patch = worker[w].patch /\ Asked(w, k)

(* No run changes hands or succeeds.                                       *)
Uneventful ==
  /\ leases' = leases
  /\ \A r \in Runs :
       /\ runs'[r].fence_token = runs[r].fence_token
       /\ runs'[r].status = "SUCCEEDED" => runs[r].status = "SUCCEEDED"

(* What every step of a program that keeps its lease amounts to: a step of *)
(* the store, a move, and nothing taken back; next is where the program    *)
(* goes on once the patch is confirmed.                                    *)
Advances(w, k, P, next) ==
  /\ [StoreNext]_storeVars
  /\ \E place : Moves(w, P, place)
  /\ tree' \in [Worktrees -> SUBSET Requests] /\ TreesGrow
  /\ Uneventful /\ Honest(w, k)
  /\ Knows(w, k)'
  /\ worker'[w].at = next => Confirmed(w, k)'

(* The last checkpoint of the run is what the process found.               *)
Recorded(w) ==
  LET rows == checkpoints[RunOf(w)]
  IN  rows # <<>> /\ rows[Len(rows)].evidence = EvidenceOf(w)

-----------------------------------------------------------------------------
(* The store as the programs see it.                                       *)

(* One slot of the abstract ledger, after a write to it.                   *)
LEMMA SlotWritten ==
  ASSUME TypeOK', NEW r \in Runs, NEW k \in Keys,
         NEW phase, NEW request, NEW executor, NEW result,
         Contract!Becomes(r, k, phase, request, executor, result)
  PROVE  /\ effects'[r][k].request = request
         /\ Phase[effects'[r][k].status] = phase
         /\ \A s \in Runs, j \in Keys : s # r \/ j # k =>
              /\ effects'[s][j].request = effects[s][j].request
              /\ Phase[effects'[s][j].status] = Phase[effects[s][j].status]
<1> DEFINE after == [phase |-> phase, request |-> request, executor |-> executor,
                     result |-> result]
<1>1. Slots' = [Slots EXCEPT ![r][k] = after]
  BY DEF Contract!Becomes
<1>2. after.phase = phase /\ after.request = request
  OBVIOUS
<1> HIDE DEF after
<1>3. \A s \in Runs, j \in Keys :
        /\ Slots[s][j].request = effects[s][j].request
        /\ Slots[s][j].phase = Phase[effects[s][j].status]
  BY DEF Slots, SlotOf
<1>4. \A s \in Runs, j \in Keys :
        /\ Slots'[s][j].request = effects'[s][j].request
        /\ Slots'[s][j].phase = Phase[effects'[s][j].status]
  BY DEF Slots, SlotOf, Phase
<1>5. Slots \in [Runs -> [Keys -> {SlotOf(effects[s][j]) : s \in Runs, j \in Keys}]]
  BY DEF Slots
<1>6. Slots'[r][k] = after
  BY <1>1, <1>5
<1>7. \A s \in Runs, j \in Keys : s # r \/ j # k => Slots'[s][j] = Slots[s][j]
  BY <1>1, <1>5
<1> QED
  BY <1>2, <1>3, <1>4, <1>6, <1>7

(* No transaction takes back a lease, the request of an operation or its   *)
(* confirmation.                                                           *)
LEMMA StoreOnlyGrows ==
  ASSUME Inv, [StoreNext]_storeVars PROVE StoreGrows
<1>1. \A status \in EffectStatus \cup {"ABSENT"} :
        /\ Phase[status] = "idle" <=> status = "ABSENT"
        /\ Phase[status] = "done" <=> status = "SUCCEEDED"
  BY DEF Phase, EffectStatus
<1>2. TypeOK /\ TypeOK'
  BY InvNext DEF Inv, IInv
<1>3. \A r \in Runs, k \in Keys :
        /\ effects[r][k].status \in EffectStatus \cup {"ABSENT"}
        /\ effects'[r][k].status \in EffectStatus \cup {"ABSENT"}
  BY <1>2 DEF TypeOK, Effect
<1>4. CASE effects' = effects /\ leases \subseteq leases'
  BY <1>4 DEF StoreGrows
<1>5. ASSUME NEW l \in leases, HolderWrote(l), effects' # effects PROVE StoreGrows
  <2>1. leases' = leases /\ l.run \in Runs
    BY <1>5 DEF HolderWrote, KeepsHolder
  <2> DEFINE r == l.run
  <2>2. PICK k \in Keys :
          \/ \E request \in Requests : Contract!Start(r, k, request)
          \/ Contract!Doubt(r, k)
          \/ \E phase \in {"done", "void"}, result \in Evidence \cup {None} :
               \/ Contract!Confirm(r, k, phase, result)
               \/ Contract!Adjudicate(r, k, phase, result)
    BY <1>5 DEF HolderWrote
  <2> DEFINE Rewrites(phase, request, executor, result) ==
               /\ Contract!Becomes(r, k, phase, request, executor, result)
               /\ Slots[r][k].phase # "done"
               /\ Slots[r][k].phase # "idle" => request = Slots[r][k].request
               /\ phase # "idle"
  <2>6. \E phase, request, executor, result :
          Rewrites(phase, request, executor, result)
    <3>1. ASSUME NEW request \in Requests, Contract!Start(r, k, request)
          PROVE  Rewrites("open", request, Epochs[r], None)
      BY <3>1 DEF Contract!Start
    <3>2. ASSUME Contract!Doubt(r, k)
          PROVE  Rewrites("doubt", Slots[r][k].request, Slots[r][k].executor, None)
      BY <3>2 DEF Contract!Doubt
    <3>3. ASSUME NEW phase \in {"done", "void"}, NEW result \in Evidence \cup {None},
                 \/ Contract!Confirm(r, k, phase, result)
                 \/ Contract!Adjudicate(r, k, phase, result)
          PROVE  Rewrites(phase, Slots[r][k].request, Epochs[r], result)
      BY <3>3 DEF Contract!Confirm, Contract!Adjudicate
    <3> QED
      BY <2>2, <3>1, <3>2, <3>3
  <2>3. PICK phase, request, executor, result :
          Rewrites(phase, request, executor, result)
    BY <2>6
  <2>4. /\ effects'[r][k].request = request
        /\ Phase[effects'[r][k].status] = phase
        /\ \A s \in Runs, j \in Keys : s # r \/ j # k =>
             /\ effects'[s][j].request = effects[s][j].request
             /\ Phase[effects'[s][j].status] = Phase[effects[s][j].status]
    BY <1>2, <2>1, <2>3, SlotWritten
  <2>5. /\ Slots[r][k].phase = Phase[effects[r][k].status]
        /\ Slots[r][k].request = effects[r][k].request
    BY <1>2, <2>1, SlotFields
  <2> QED
    BY <1>1, <1>3, <2>1, <2>3, <2>4, <2>5 DEF StoreGrows
<1> QED
  BY <1>4, <1>5, StepKinds DEF Inv, Created, Granted, Reentered, HolderWrote,
     KeepsHolder, StoreUnchanged

(* A token that a lease carries is not the run's again once it no longer   *)
(* was.                                                                    *)
LEMMA TokensNeverReturn ==
  ASSUME Inv, [StoreNext]_storeVars, NEW l \in leases,
         runs'[l.run].fence_token = l.fence
  PROVE  runs[l.run].fence_token = l.fence
<1>1. /\ l.run \in Runs /\ l.fence \in Nat /\ l.fence <= runs[l.run].fence_token
      /\ runs[l.run].fence_token \in Nat
  BY DEF Inv, IInv, TypeOK, TokenOrder, Lease, Run
<1>2. ASSUME NEW r \in Runs, Created(r) PROVE runs[l.run].fence_token = l.fence
  BY <1>1, <1>2 DEF Created, Writes
<1>3. ASSUME NEW r \in Runs, NEW owner \in Owners, Granted(r, owner)
      PROVE  runs[l.run].fence_token = l.fence
  BY <1>1, <1>3 DEF Granted, Writes
<1>4. ASSUME NEW r \in Runs, Reentered(r) PROVE runs[l.run].fence_token = l.fence
  BY <1>1, <1>4 DEF Reentered
<1>5. ASSUME NEW m \in leases, HolderWrote(m) PROVE runs[l.run].fence_token = l.fence
  BY <1>1, <1>5 DEF HolderWrote, Writes
<1> QED
  BY <1>1, <1>2, <1>3, <1>4, <1>5, StepKinds DEF Inv, StoreUnchanged

-----------------------------------------------------------------------------
(* Moving a process.                                                       *)

(* One process changes its state, the others keep theirs.                  *)
LEMMA OneMoves ==
  ASSUME NEW P, Typed(P), NEW w \in Workers, NEW new \in Worker(P),
         worker' = [worker EXCEPT ![w] = new]
  PROVE  /\ worker' \in [Workers -> Worker(P)]
         /\ worker'[w] = new
         /\ \A v \in Workers \ {w} : worker'[v] = worker[v]
BY DEF Typed

(* A process goes to another place of its program.                         *)
LEMMA GotoMoves ==
  ASSUME NEW P, Typed(P), NEW w \in Workers,
         NEW next \in P \cup ApplySteps \cup VerifySteps \cup {"idle", "raised"},
         Goto(w, next)
  PROVE  Moves(w, P, next) /\ Remembers(w)
<1> DEFINE new == [worker[w] EXCEPT !.at = next]
<1>1. worker[w] \in Worker(P)
  BY DEF Typed
<1>2. new \in Worker(P)
  BY <1>1 DEF Worker
<1>3. worker' = [worker EXCEPT ![w] = new]
  BY DEF Goto
<1>4. /\ new.at = next /\ new.run = worker[w].run /\ new.lease = worker[w].lease
      /\ new.patch = worker[w].patch /\ new.tests = worker[w].tests
      /\ new.acceptance = worker[w].acceptance /\ new.source = worker[w].source
  BY <1>1 DEF Worker
<1> HIDE DEF new
<1> QED
  BY <1>2, <1>3, <1>4, OneMoves DEF Moves, Remembers

(* A process whose program raised is where its caller catches it.          *)
LEMMA RaiseMoves ==
  ASSUME NEW P, Typed(P), NEW w \in Workers, NEW error \in Errors, Raise(w, error)
  PROVE  Moves(w, P, "raised") /\ Remembers(w)
<1> DEFINE new == [worker[w] EXCEPT !.at = "raised", !.error = error]
<1>1. worker[w] \in Worker(P)
  BY DEF Typed
<1>2. new \in Worker(P)
  BY <1>1 DEF Worker
<1>3. worker' = [worker EXCEPT ![w] = new]
  BY DEF Raise
<1>4. /\ new.at = "raised" /\ new.run = worker[w].run /\ new.lease = worker[w].lease
      /\ new.patch = worker[w].patch /\ new.tests = worker[w].tests
      /\ new.acceptance = worker[w].acceptance /\ new.source = worker[w].source
  BY <1>1 DEF Worker
<1> HIDE DEF new
<1> QED
  BY <1>2, <1>3, <1>4, OneMoves DEF Moves, Remembers

(* A process that ended remembers nothing.                                 *)
LEMMA GoIdleMoves ==
  ASSUME NEW P, Typed(P), NEW w \in Workers, GoIdle(w)
  PROVE  /\ worker' \in [Workers -> Worker(P)]
         /\ worker'[w] = Idle
         /\ \A v \in Workers \ {w} : worker'[v] = worker[v]
<1>1. Idle \in Worker(P)
  BY DEF Idle, Worker
<1> QED
  BY <1>1, OneMoves DEF GoIdle

-----------------------------------------------------------------------------
(* What a process knows stays true.                                        *)

(* What a process once read of ledger and worktree stays true, whoever     *)
(* takes the step.                                                         *)
LEMMA FactsLast ==
  ASSUME StoreGrows, TreesGrow, NEW w \in Workers, NEW k \in Keys,
         RunOf(w) \in Runs,
         worker'[w].run = worker[w].run, worker'[w].patch = worker[w].patch
  PROVE  /\ Asked(w, k) => Asked(w, k)'
         /\ Confirmed(w, k) => Confirmed(w, k)'
         /\ worker[w].patch \in TreeOf(w) => (worker[w].patch \in TreeOf(w))'
         /\ Passes(w) => Passes(w)'
         /\ PassesAcceptance(w) => PassesAcceptance(w)'
<1>1. RunOf(w)' = RunOf(w) /\ Repo[RunOf(w)] \in Worktrees
  BY WorkspaceAssumption DEF RunOf
<1>2. TreeOf(w) \subseteq TreeOf(w)'
  BY <1>1 DEF TreeOf, TreesGrow
<1>3. Asked(w, k) => Asked(w, k)'
  BY <1>1 DEF Asked, StoreGrows
<1>4. Confirmed(w, k) => Confirmed(w, k)'
  BY <1>1, <1>3 DEF Confirmed, Asked, StoreGrows
<1> QED
  BY <1>1, <1>2, <1>3, <1>4 DEF Passes, PassesAcceptance

(* A process that does not move knows what it knew.                        *)
LEMMA KnowledgeLasts ==
  ASSUME StoreGrows, TreesGrow, NEW w \in Workers, NEW k \in Keys,
         RunOf(w) \in Runs \/ At(w, "idle"), worker'[w] = worker[w], Knows(w, k)
  PROVE  Knows(w, k)'
<1>1. CASE RunOf(w) \in Runs
  <2>1. RunOf(w)' = RunOf(w)
    BY DEF RunOf
  <2> QED
    BY <1>1, <2>1, FactsLast DEF Knows
<1>2. CASE At(w, "idle")
  BY <1>2 DEF Knows, At, Executing, Verifying, VerifySteps, Tested, Judged, Measured
<1> QED
  BY <1>1, <1>2

(* Idle, or where its program raised, a process relies on nothing.         *)
LEMMA NothingKnown ==
  ASSUME NEW w \in Workers, NEW k \in Keys,
         worker'[w].at \notin {"apply", "begin"} \cup Executing \cup Verifying
  PROVE  Knows(w, k)'
BY DEF Knows, Executing, Verifying, VerifySteps, Tested, Judged, Measured

-----------------------------------------------------------------------------
(* The transactions a process makes.                                       *)

(* A transaction of a holder is a step of the store.                       *)
LEMMA HolderCalls ==
  ASSUME NEW l \in leases, NEW now \in ClockReads
  PROVE  /\ \A stage \in Stages : AdvanceStage(l, stage, now) => StoreNext
         /\ \A stage \in Stages, evidence \in Evidence :
              RecordCheckpoint(l, stage, evidence, now) => StoreNext
         /\ \A target \in RunStatus, stage \in Stages \cup {None},
               result \in Evidence \cup {None}, error \in Errors \cup {None} :
              Transition(l, target, stage, result, error, now) => StoreNext
         /\ \A k \in Keys, request \in Requests :
              BeginEffect(l, k, request, now) => StoreNext
         /\ \A k \in Keys, succeeded \in BOOLEAN, result \in Evidence \cup {None} :
              FinishEffect(l, k, succeeded, result, now) => StoreNext
         /\ \A k \in Keys, succeeded \in BOOLEAN, evidence \in Evidence :
              ReconcileEffect(l, k, succeeded, evidence, now) => StoreNext
BY DEF StoreNext, HolderStep, EffectStep

(* advance_stage: nothing but the run's stage and revision.                *)
LEMMA AdvanceStageCalled ==
  ASSUME Inv, NEW l \in leases, NEW now \in ClockReads, NEW stage \in Stages,
         AdvanceStage(l, stage, now)
  PROVE  /\ Uneventful /\ UNCHANGED <<effects, checkpoints>>
         /\ \A r \in Runs : /\ runs'[r].status = runs[r].status
                           /\ runs'[r].lease_owner = runs[r].lease_owner
<1>1. now \in Nat /\ IInv /\ HoldsLease(l, now)
  BY ClockReadsType DEF Inv, IInv, AdvanceStage
<1>2. /\ l.run \in Runs /\ runs[l.run] \in Run /\ runs[l.run].fence_token = l.fence
      /\ runs[l.run].status \in Held
  BY <1>1, Admitted
<1>3. Writes(l.run, l.fence) /\ KeepsHolder(l.run)
  BY <1>1, AdvanceStageWrites
<1> DEFINE row == [runs[l.run] EXCEPT !.stage = stage]
<1>4. row \in Run /\ row.status = runs[l.run].status
  BY <1>2 DEF Run
<1>5. UpdateRun(l.run, row)
  BY DEF AdvanceStage
<1> HIDE DEF row
<1>6. runs'[l.run] = [row EXCEPT !.revision = runs[l.run].revision + 1]
  BY <1>1, <1>2, <1>4, <1>5, UpdateRunType DEF IInv
<1>7. runs'[l.run].status = runs[l.run].status
  BY <1>4, <1>6 DEF Run
<1>8. \A r \in Runs : /\ runs'[r].fence_token = runs[r].fence_token
                      /\ runs'[r].status = runs[r].status
  BY <1>2, <1>3, <1>7 DEF Writes
<1>9. \A r \in Runs : runs'[r].lease_owner = runs[r].lease_owner
  BY <1>2, <1>3, <1>7 DEF Writes, KeepsHolder
<1>10. Uneventful
  BY <1>3, <1>8 DEF Uneventful, KeepsHolder
<1> QED
  BY <1>8, <1>9, <1>10 DEF AdvanceStage

(* transition: the row has the new status and, when one is given, the new  *)
(* result.                                                                 *)
LEMMA TransitionCalled ==
  ASSUME Inv, NEW l \in leases, NEW now \in ClockReads,
         NEW target \in {"SUCCEEDED", "FAILED"}, NEW stage \in Stages,
         NEW result \in Evidence \cup {None}, NEW error \in Errors \cup {None},
         Transition(l, target, stage, result, error, now)
  PROVE  /\ StoreNext
         /\ leases' = leases /\ UNCHANGED <<effects, checkpoints>>
         /\ \A r \in Runs : runs'[r].fence_token = runs[r].fence_token
         /\ \A r \in Runs \ {l.run} : runs'[r] = runs[r]
         /\ l.run \in Runs /\ runs[l.run].fence_token = l.fence
         /\ runs'[l.run].status = target
         /\ result # None => runs'[l.run].result = result
         /\ runs'[l.run].last_error = error
<1>1. now \in Nat /\ IInv /\ HoldsLease(l, now)
  BY ClockReadsType DEF Inv, IInv, Transition
<1>2. l.run \in Runs /\ runs[l.run] \in Run /\ runs[l.run].fence_token = l.fence
  BY <1>1, Admitted
<1>3. target \in RunStatus /\ target \in Terminal /\ stage # None
  BY StoreAssumption DEF RunStatus, Terminal
<1>4. Writes(l.run, l.fence) /\ KeepsHolder(l.run)
  BY <1>1, <1>3, TransitionWrites
<1> DEFINE released == [runs[l.run] EXCEPT !.lease_owner = None,
                                           !.lease_expires_at = None]
           next_result == IF result = None THEN released.result ELSE result
           row == [released EXCEPT !.status = target, !.stage = stage,
                                   !.result = next_result, !.last_error = error]
<1>5. released \in Run /\ Released(runs[l.run], target) = released
  BY <1>2, <1>3 DEF Run, Released
<1> HIDE DEF released
<1>6. next_result \in Evidence \cup {None}
  BY <1>5 DEF Run
<1>7. UpdateRun(l.run, row)
  BY <1>3, <1>5 DEF Transition
<1> HIDE DEF next_result
<1>8. /\ row \in Run /\ row.status = target /\ row.result = next_result
      /\ row.last_error = error
  BY <1>3, <1>5, <1>6 DEF Run
<1> HIDE DEF row
<1>9. runs'[l.run] = [row EXCEPT !.revision = runs[l.run].revision + 1]
  BY <1>1, <1>2, <1>7, <1>8, UpdateRunType DEF IInv
<1>10. /\ runs'[l.run].status = target /\ runs'[l.run].result = next_result
       /\ runs'[l.run].last_error = error
  BY <1>8, <1>9 DEF Run
<1>11. /\ \A r \in Runs : runs'[r].fence_token = runs[r].fence_token
       /\ \A r \in Runs \ {l.run} : runs'[r] = runs[r]
  BY <1>2, <1>4 DEF Writes
<1>12. StoreNext
  BY <1>3, HolderCalls
<1> QED
  BY <1>2, <1>10, <1>11, <1>12 DEF Transition, next_result

(* A claim hands out a lease that nobody had, under a token the run had    *)
(* not reached.                                                            *)
LEMMA GrantCalled ==
  ASSUME Inv, NEW r \in Runs, NEW owner \in Owners, NEW now \in ClockReads,
         Grant(r, owner, now),
         NEW l, l = [run |-> r, owner |-> owner, fence |-> NextToken(runs[r])]
  PROVE  /\ leases' = leases \cup {l} /\ l \in Lease
         /\ \A m \in leases : m # l
         /\ \A m \in leases : m.run = r => m.fence # runs'[r].fence_token
         /\ UNCHANGED <<effects, checkpoints>>
         /\ runs'[r].status = "RUNNING"
         /\ \A s \in Runs \ {r} : runs'[s] = runs[s]
<1>1. now \in Nat /\ IInv /\ NextToken(runs[r]) = runs[r].fence_token + 1
  BY ClockReadsType DEF Inv, IInv, NextToken
<1>2. /\ Writes(r, runs[r].fence_token + 1) /\ runs'[r].status = "RUNNING"
      /\ leases' = leases \cup {l}
  BY <1>1, GrantWrites
<1>3. runs[r].fence_token \in Nat /\ l \in Lease
  BY <1>1 DEF IInv, TypeOK, Run, Lease
<1>4. \A m \in leases : m.fence \in Nat /\ m.fence <= runs[m.run].fence_token
  BY <1>1 DEF IInv, TypeOK, TokenOrder, Lease
<1>5. \A m \in leases : m.run = r => m.fence # runs[r].fence_token + 1
  BY <1>3, <1>4
<1>6. l.run = r /\ l.fence = runs[r].fence_token + 1
  BY <1>1
<1> QED
  BY <1>2, <1>3, <1>5, <1>6 DEF Writes, Grant

(* A write to operation k leaves the other operations and all runs alone.  *)
LEMMA LedgerCalled ==
  ASSUME Inv, NEW l \in leases, NEW now \in ClockReads, HoldsLease(l, now),
         NEW k \in Keys, NEW effect \in Effect,
         UpdateEffect(l.run, k, effect), UNCHANGED <<runs, checkpoints, leases>>
  PROVE  /\ Uneventful
         /\ effects'[l.run][k] = effect
         /\ \A s \in Runs, j \in Keys :
              s # l.run \/ j # k => effects'[s][j] = effects[s][j]
<1>1. now \in Nat /\ IInv
  BY ClockReadsType DEF Inv, IInv
<1>2. l.run \in Runs
  BY <1>1, Admitted
<1> QED
  BY <1>1, <1>2, UpdateEffectType DEF IInv, Uneventful

(* begin_effect, when it writes: the operation is bound to the request and *)
(* not confirmed; an execution that goes on under the same lease is not    *)
(* touched.                                                                *)
LEMMA BeginEffectCalled ==
  ASSUME Inv, NEW l \in leases, NEW now \in ClockReads, NEW k \in Keys,
         NEW request \in Requests, BeginEffect(l, k, request, now)
  PROVE  /\ Uneventful /\ checkpoints' = checkpoints
         /\ effects'[l.run][k].status \in {"STARTED", "UNKNOWN"}
         /\ effects'[l.run][k].request = request
         /\ runs[l.run].fence_token = l.fence
         /\ ~ /\ effects[l.run][k].status = "STARTED"
              /\ effects[l.run][k].fence_token = l.fence
         /\ effects'[l.run][k].status = "STARTED" =>
              effects'[l.run][k].fence_token = l.fence
         /\ \A s \in Runs, j \in Keys :
              s # l.run \/ j # k => effects'[s][j] = effects[s][j]
<1> DEFINE old == effects[l.run][k]
<1>1. HoldsLease(l, now) /\ UNCHANGED <<runs, checkpoints, leases>>
  BY DEF BeginEffect
<1>2. l.run \in Runs /\ l.fence \in Nat /\ now \in Nat
  BY <1>1, ClockReadsType, Admitted DEF Inv, IInv
<1>3. old \in Effect
  BY <1>2 DEF Inv, IInv, TypeOK
<1>4. PICK effect \in Effect :
        /\ UpdateEffect(l.run, k, effect)
        /\ effect.status \in {"STARTED", "UNKNOWN"} /\ effect.request = request
        /\ effect.status = "STARTED" => effect.fence_token = l.fence
        /\ ~(old.status = "STARTED" /\ old.fence_token = l.fence)
  <2>1. CASE EffectStarts(l, k, request)
    <3> DEFINE effect == [status |-> "STARTED", request |-> request,
                          fence_token |-> l.fence, result |-> None]
    <3>1. effect \in Effect /\ old.status = "ABSENT"
      BY <1>2, <2>1 DEF Effect, EffectStatus, EffectStarts
    <3> QED
      BY <2>1, <3>1 DEF EffectStarts
  <2>2. CASE EffectRestarts(l, k, request)
    <3> DEFINE effect == [old EXCEPT !.status = "STARTED", !.fence_token = l.fence]
    <3>1. /\ old.request = request /\ UpdateEffect(l.run, k, effect)
          /\ old.status = "FAILED"
      BY <2>2 DEF EffectRestarts, SameRequest
    <3>2. /\ effect \in Effect
          /\ effect.status = "STARTED" /\ effect.request = request
          /\ effect.fence_token = l.fence
      BY <1>2, <1>3, <3>1 DEF Effect, EffectStatus
    <3> QED
      BY <3>1, <3>2
  <2>3. CASE EffectBecomesUnknown(l, k, request)
    <3> DEFINE effect == [old EXCEPT !.status = "UNKNOWN"]
    <3>1. /\ old.request = request /\ UpdateEffect(l.run, k, effect)
          /\ old.fence_token # l.fence
      BY <2>3 DEF EffectBecomesUnknown, SameRequest
    <3>2. /\ effect \in Effect
          /\ effect.status = "UNKNOWN" /\ effect.request = request
      BY <1>2, <1>3, <3>1 DEF Effect, EffectStatus
    <3> QED
      BY <3>1, <3>2
  <2> QED
    BY <2>1, <2>2, <2>3 DEF BeginEffect
<1> QED
  BY <1>1, <1>4, LedgerCalled DEF HoldsLease

(* finish_effect and reconcile_effect: the operation has the verdict and   *)
(* its old request.                                                        *)
LEMMA VerdictCalled ==
  ASSUME Inv, NEW l \in leases, NEW now \in ClockReads, NEW k \in Keys,
         NEW succeeded \in BOOLEAN, NEW result \in Evidence \cup {None},
         \/ FinishEffect(l, k, succeeded, result, now)
         \/ ReconcileEffect(l, k, succeeded, result, now)
  PROVE  /\ Uneventful /\ checkpoints' = checkpoints
         /\ effects'[l.run][k].status = Verdict(succeeded)
         /\ effects'[l.run][k].request = effects[l.run][k].request
         /\ \A s \in Runs, j \in Keys :
              s # l.run \/ j # k => effects'[s][j] = effects[s][j]
<1> DEFINE old == effects[l.run][k]
<1>1. HoldsLease(l, now) /\ UNCHANGED <<runs, checkpoints, leases>>
  BY DEF FinishEffect, ReconcileEffect
<1>2. l.run \in Runs /\ l.fence \in Nat /\ now \in Nat
  BY <1>1, ClockReadsType, Admitted DEF Inv, IInv
<1>3. old \in Effect
  BY <1>2 DEF Inv, IInv, TypeOK
<1>4. Verdict(succeeded) \in EffectStatus
  BY DEF Verdict, EffectStatus
<1>5. PICK effect \in Effect :
        /\ UpdateEffect(l.run, k, effect)
        /\ effect.status = Verdict(succeeded) /\ effect.request = old.request
  <2>1. CASE FinishEffect(l, k, succeeded, result, now)
    <3> DEFINE effect == [old EXCEPT !.status = Verdict(succeeded), !.result = result]
    <3>1. UpdateEffect(l.run, k, effect)
      BY <2>1 DEF FinishEffect
    <3>2. /\ effect \in Effect
          /\ effect.status = Verdict(succeeded) /\ effect.request = old.request
      BY <1>3, <1>4 DEF Effect
    <3> QED
      BY <3>1, <3>2
  <2>2. CASE ReconcileEffect(l, k, succeeded, result, now)
    <3> DEFINE outcome == IF succeeded THEN result ELSE None
               effect == [old EXCEPT !.status = Verdict(succeeded),
                                     !.result = outcome, !.fence_token = l.fence]
    <3>1. UpdateEffect(l.run, k, effect)
      BY <2>2 DEF ReconcileEffect
    <3>2. outcome \in Evidence \cup {None}
      OBVIOUS
    <3> HIDE DEF outcome
    <3>3. /\ effect \in Effect
          /\ effect.status = Verdict(succeeded) /\ effect.request = old.request
      BY <1>2, <1>3, <1>4, <3>2 DEF Effect
    <3> QED
      BY <3>1, <3>3
  <2> QED
    BY <2>1, <2>2
<1> QED
  BY <1>1, <1>5, LedgerCalled

-----------------------------------------------------------------------------
(* apply_patch under the ledger.                                           *)

(* Steps that leave the store alone.                                       *)
LEMMA StoreLeftAlone ==
  ASSUME UNCHANGED storeVars
  PROVE  /\ [StoreNext]_storeVars /\ Uneventful
         /\ checkpoints' = checkpoints /\ effects' = effects
BY DEF storeVars, Uneventful

(* Steps that leave worktrees alone and confirm at most the operation of a *)
(* patch that is there.                                                    *)
LEMMA HonestWrite ==
  ASSUME NEW P, Typed(P), NEW w \in Workers, NEW k \in Keys, tree' = tree,
         NEW r \in Runs,
         \A s \in Runs, j \in Keys : s # r \/ j # k => effects'[s][j] = effects[s][j],
         effects'[r][k].status = "SUCCEEDED" =>
           effects[r][k].status = "SUCCEEDED" \/ effects'[r][k].request \in tree[Repo[r]]
  PROVE  Honest(w, k) /\ TreesGrow /\ tree' \in [Worktrees -> SUBSET Requests]
<1>1. \A s \in Runs, j \in Keys : effects'[s][j].status = "SUCCEEDED" =>
        effects[s][j].status = "SUCCEEDED" \/ effects'[s][j].request \in tree[Repo[s]]
  OBVIOUS
<1> QED
  BY <1>1 DEF Honest, TreesGrow, Typed

(* Steps that write neither to the ledger nor to a worktree.               *)
LEMMA HonestRead ==
  ASSUME NEW P, Typed(P), NEW w \in Workers, NEW k \in Keys,
         tree' = tree, effects' = effects
  PROVE  Honest(w, k) /\ TreesGrow /\ tree' \in [Worktrees -> SUBSET Requests]
BY DEF Honest, TreesGrow, Typed

(* What the ledger has to say for a process to have asked.                 *)
LEMMA LedgerSays ==
  ASSUME NEW w \in Workers, NEW k \in Keys, NEW r \in Runs,
         worker'[w].run = r, worker'[w].patch \in Requests,
         effects'[r][k].request = worker'[w].patch,
         effects'[r][k].status # "ABSENT"
  PROVE  /\ Asked(w, k)'
         /\ effects'[r][k].status = "SUCCEEDED" => Confirmed(w, k)'
<1>1. RunOf(w)' = r
  BY DEF RunOf
<1>2. effects'[RunOf(w)'][k].request = worker'[w].patch
  BY <1>1
<1>3. effects'[RunOf(w)'][k].status # "ABSENT"
  BY <1>1
<1>4. Asked(w, k)'
  BY <1>2, <1>3 DEF Asked
<1> QED
  BY <1>1, <1>4 DEF Confirmed

(* begin_effect and where the process goes with its answer.                *)
LEMMA BeginApplyAdvances ==
  ASSUME Inv, NEW P, Typed(P), NEW w \in Workers, NEW k \in Keys, Leased(w),
         Knows(w, k), NEW next \in P \cap {"verify", "returned"},
         BeginApply(w, k, next)
  PROVE  Advances(w, k, P, next) /\ checkpoints' = checkpoints
<1> DEFINE l == worker[w].lease
           patch == worker[w].patch
           r == RunOf(w)
<1>1. /\ At(w, "begin") /\ tree' = tree /\ patch \in Requests
      /\ l \in leases /\ l.run = r /\ r \in Runs
  BY DEF BeginApply, Knows, At, Leased
<1>2. PICK now \in ClockReads :
        \/ /\ BeginEffect(l, k, patch, now)
           /\ Goto(w, IF effects'[l.run][k].status = "STARTED"
                      THEN "git apply" ELSE "reverse check")
        \/ /\ HoldsLease(l, now)
           /\ \/ EffectUnsettled(l, k, patch) /\ Goto(w, "reverse check")
              \/ EffectReplays(l, k, patch) /\ Goto(w, next)
              \/ EffectConflicts(l, k, patch) /\ Raise(w, "error")
           /\ UNCHANGED storeVars
  BY DEF BeginApply, ReadsOf
<1>4. "returned" \notin {"git apply", "reverse check", "raised", "verify"}
  OBVIOUS
<1>5. CASE /\ BeginEffect(l, k, patch, now)
           /\ Goto(w, IF effects'[l.run][k].status = "STARTED"
                      THEN "git apply" ELSE "reverse check")
  <2>1. /\ Uneventful /\ checkpoints' = checkpoints
        /\ effects'[r][k].status \in {"STARTED", "UNKNOWN"}
        /\ effects'[r][k].request = patch
        /\ \A s \in Runs, j \in Keys :
             s # r \/ j # k => effects'[s][j] = effects[s][j]
    <3>1. BeginEffect(l, k, patch, now)
      BY <1>5
    <3> HIDE DEF l, patch, r
    <3> QED
      BY <1>1, <3>1, BeginEffectCalled
  <2>2. StoreNext
    BY <1>1, <1>5, HolderCalls
  <2>3. PICK place \in {"git apply", "reverse check"} : Moves(w, P, place)
    BY <1>5, GotoMoves DEF ApplySteps
  <2>4. Honest(w, k) /\ TreesGrow /\ tree' \in [Worktrees -> SUBSET Requests]
    BY <1>1, <2>1, HonestWrite
  <2>5. Asked(w, k)' /\ worker'[w].at = place
    BY <1>1, <2>1, <2>3 DEF Asked, RunOf, Moves
  <2>6. Knows(w, k)'
    BY <2>5 DEF Knows, Executing, Verifying, VerifySteps, Tested, Judged, Measured
  <2> QED
    BY <1>4, <2>1, <2>2, <2>3, <2>4, <2>5, <2>6 DEF Advances
<1>6. CASE EffectUnsettled(l, k, patch) /\ Goto(w, "reverse check") /\ UNCHANGED storeVars
  <2>1. /\ effects'[r][k].request = patch
        /\ effects'[r][k].status # "ABSENT"
    BY <1>1, <1>6 DEF EffectUnsettled, SameRequest, storeVars
  <2>2. Moves(w, P, "reverse check")
    BY <1>6, GotoMoves DEF ApplySteps
  <2>3. Asked(w, k)' /\ worker'[w].at = "reverse check"
    <3>1. /\ worker'[w].at = "reverse check" /\ worker'[w].run = r
          /\ worker'[w].patch = patch
      BY <2>2 DEF Moves, RunOf
    <3> QED
      BY <1>1, <2>1, <3>1, LedgerSays
  <2>4. Knows(w, k)'
    BY <2>3 DEF Knows, Executing, Verifying, VerifySteps, Tested, Judged, Measured
  <2> QED
    BY <1>1, <1>4, <1>6, <2>2, <2>3, <2>4, StoreLeftAlone, HonestRead DEF Advances
<1>7. CASE EffectReplays(l, k, patch) /\ Goto(w, next) /\ UNCHANGED storeVars
  <2>1. /\ effects'[r][k].request = patch
        /\ effects'[r][k].status = "SUCCEEDED"
    BY <1>1, <1>7 DEF EffectReplays, SameRequest, storeVars
  <2>2. Moves(w, P, next)
    BY <1>7, GotoMoves
  <2>3. Confirmed(w, k)' /\ worker'[w].at = next
    BY <1>1, <2>1, <2>2 DEF Asked, Confirmed, RunOf, Moves
  <2>4. Knows(w, k)'
    BY <2>3 DEF Knows, Executing, Verifying, VerifySteps, Tested, Judged, Measured, Confirmed
  <2> QED
    BY <1>1, <1>7, <2>2, <2>3, <2>4, StoreLeftAlone, HonestRead DEF Advances
<1>8. CASE Raise(w, "error") /\ UNCHANGED storeVars
  <2>1. Moves(w, P, "raised")
    BY <1>8, RaiseMoves, EvidenceAssumption
  <2>2. Knows(w, k)'
    BY <2>1, NothingKnown DEF Moves, Executing, Verifying, VerifySteps
  <2>3. worker'[w].at # next
    BY <2>1 DEF Moves
  <2> QED
    BY <1>1, <1>8, <2>1, <2>2, <2>3, StoreLeftAlone, HonestRead DEF Advances
<1> QED
  BY <1>2, <1>5, <1>6, <1>7, <1>8

(* git apply, finished or killed: only a patch the ledger was told of is   *)
(* written, and a process that confirms has written it.                    *)
LEMMA GitApplyAdvances ==
  ASSUME Inv, NEW P, Typed(P), NEW w \in Workers, NEW k \in Keys, Leased(w),
         Knows(w, k), NEW next \in P \cap {"verify", "returned"},
         GitApply(w) \/ GitApplyKilled(w)
  PROVE  Advances(w, k, P, next) /\ checkpoints' = checkpoints
<1> DEFINE patch == worker[w].patch
           t == Repo[RunOf(w)]
<1>1. /\ UNCHANGED storeVars /\ At(w, "git apply")
      /\ tree' = tree \/ tree' = PatchedTree(w)
  BY DEF GitApply, GitApplyKilled
<1>2. Asked(w, k) /\ patch \in Requests /\ RunOf(w) \in Runs /\ t \in Worktrees
  BY <1>1, WorkspaceAssumption DEF Knows, At, Executing, Asked, Leased
<1>3. \A u \in Worktrees : tree[u] \in SUBSET Requests
  BY DEF Typed
<1>4. PatchedTree(w) = [tree EXCEPT ![t] = @ \cup {patch}]
  BY DEF PatchedTree
<1> HIDE DEF patch, t
<1>5. /\ tree' \in [Worktrees -> SUBSET Requests] /\ TreesGrow
      /\ \A u \in Worktrees, p \in Requests : p \in tree'[u] =>
           p \in tree[u] \/ (u = t /\ p = patch)
  <2>1. CASE tree' = tree
    BY <2>1 DEF Typed, TreesGrow
  <2>2. CASE tree' = PatchedTree(w)
    <3>1. \A u \in Worktrees :
            tree'[u] = IF u = t THEN tree[u] \cup {patch} ELSE tree[u]
      BY <1>2, <1>4, <2>2 DEF Typed
    <3>2. tree' \in [Worktrees -> SUBSET Requests]
      BY <1>2, <1>3, <1>4, <2>2 DEF Typed
    <3> QED
      BY <3>1, <3>2 DEF TreesGrow
  <2> QED
    BY <1>1, <2>1, <2>2
<1>6. \A u \in Worktrees : \A p \in tree'[u] :
        p \in tree[u] \/ (u = t /\ p = patch)
  BY <1>5
<1>7. /\ [StoreNext]_storeVars /\ Uneventful /\ StoreGrows
      /\ checkpoints' = checkpoints /\ effects' = effects
  BY <1>1, StoreLeftAlone, StoreOnlyGrows
<1>8. Honest(w, k)
  BY <1>2, <1>6, <1>7 DEF Honest, patch, t
<1>9. \/ /\ Moves(w, P, "confirm") /\ tree' = PatchedTree(w)
      \/ Moves(w, P, "disconfirm") \/ Moves(w, P, "raised")
  BY GotoMoves, RaiseMoves, EvidenceAssumption DEF ApplySteps, GitApply, GitApplyKilled
<1>10. PICK place \in {"confirm", "disconfirm", "raised"} :
         /\ Moves(w, P, place)
         /\ place = "confirm" => tree' = PatchedTree(w)
  BY <1>9
<1>11. /\ worker'[w].at = place /\ worker'[w].run = worker[w].run
       /\ worker'[w].patch = patch
  BY <1>10 DEF Moves, patch
<1>12. Asked(w, k)'
  BY <1>2, <1>5, <1>7, <1>11, FactsLast DEF patch
<1>13. place = "confirm" => worker'[w].patch \in TreeOf(w)'
  <2>1. TreeOf(w)' = tree'[t]
    BY <1>11 DEF TreeOf, RunOf, t
  <2>2. place = "confirm" => patch \in tree'[t]
    BY <1>2, <1>4, <1>10 DEF Typed
  <2> QED
    BY <1>11, <2>1, <2>2
<1>14. Knows(w, k)'
  BY <1>11, <1>12, <1>13
     DEF Knows, Executing, Verifying, VerifySteps, Tested, Judged, Measured
<1>15. worker'[w].at # next
  BY <1>11
<1> QED
  BY <1>5, <1>7, <1>8, <1>10, <1>14, <1>15 DEF Advances

(* finish_effect after git apply: what is confirmed is in the worktree.    *)
LEMMA FinishApplyAdvances ==
  ASSUME Inv, NEW P, Typed(P), NEW w \in Workers, NEW k \in Keys, Leased(w),
         Knows(w, k), NEW next \in P \cap {"verify", "returned"},
         ConfirmApply(w, k, next) \/ DisconfirmApply(w, k)
  PROVE  Advances(w, k, P, next) /\ checkpoints' = checkpoints
<1> DEFINE l == worker[w].lease
           patch == worker[w].patch
           r == RunOf(w)
           evidence == [source |-> SourceFingerprint(w), patch |-> patch]
<1>1. At(w, "confirm") \/ At(w, "disconfirm")
  BY DEF ConfirmApply, DisconfirmApply
<1>2. /\ Asked(w, k) /\ patch \in Requests /\ r \in Runs /\ l \in leases /\ l.run = r
      /\ tree' = tree /\ effects[r][k].request = patch
      /\ Repo[r] \in Worktrees
  BY <1>1, WorkspaceAssumption
     DEF Knows, At, Executing, Asked, Leased, ConfirmApply, DisconfirmApply
<1>3. evidence \in Evidence
  <2>1. SourceFingerprint(w) \in SUBSET Requests
    BY <1>2 DEF SourceFingerprint, TreeOf, Typed
  <2> QED
    BY <1>2, <2>1, EvidenceAssumption DEF PatchEvidence
<1> HIDE DEF evidence
<1>4. CASE ConfirmApply(w, k, next)
  <2>1. PICK now \in ClockReads : FinishEffect(l, k, TRUE, evidence, now)
    BY <1>4 DEF ConfirmApply, evidence, ReadsOf
  <2>2. patch \in tree[Repo[r]]
    BY <1>4 DEF ConfirmApply, Knows, At, TreeOf
  <2>3. /\ Uneventful /\ checkpoints' = checkpoints
        /\ effects'[l.run][k].status = Verdict(TRUE)
        /\ effects'[l.run][k].request = effects[l.run][k].request
        /\ \A s \in Runs, j \in Keys :
             s # l.run \/ j # k => effects'[s][j] = effects[s][j]
    <3> HIDE DEF l, patch, r
    <3> QED
      BY <1>2, <1>3, <2>1, VerdictCalled
  <2>4. StoreNext
    BY <1>2, <1>3, <2>1, HolderCalls
  <2>5. /\ effects'[r][k].status = "SUCCEEDED" /\ effects'[r][k].request = patch
        /\ \A s \in Runs, j \in Keys :
             s # r \/ j # k => effects'[s][j] = effects[s][j]
    BY <1>2, <2>3 DEF Verdict
  <2>6. Honest(w, k) /\ TreesGrow /\ tree' \in [Worktrees -> SUBSET Requests]
    BY <1>2, <2>2, <2>5, HonestWrite
  <2>7. Moves(w, P, next)
    BY <1>4, GotoMoves DEF ConfirmApply
  <2>8. worker'[w].at = next /\ worker'[w].run = r /\ worker'[w].patch = patch
    BY <2>7 DEF Moves, RunOf
  <2>9. Asked(w, k)' /\ Confirmed(w, k)'
    BY <1>2, <2>5, <2>8, LedgerSays
  <2>10. Knows(w, k)'
    BY <2>8, <2>9 DEF Knows, Executing, Verifying, VerifySteps, Tested, Judged, Measured
  <2> QED
    BY <2>3, <2>4, <2>6, <2>7, <2>9, <2>10 DEF Advances
<1>5. CASE DisconfirmApply(w, k)
  <2>1. PICK now \in ClockReads : FinishEffect(l, k, FALSE, None, now)
    BY <1>5 DEF DisconfirmApply, ReadsOf
  <2>3. /\ Uneventful /\ checkpoints' = checkpoints
        /\ effects'[l.run][k].status = Verdict(FALSE)
        /\ \A s \in Runs, j \in Keys :
             s # l.run \/ j # k => effects'[s][j] = effects[s][j]
    <3> HIDE DEF l, patch, r
    <3> QED
      BY <1>2, <2>1, VerdictCalled
  <2>4. StoreNext
    BY <1>2, <2>1, HolderCalls
  <2>5. /\ effects'[r][k].status # "SUCCEEDED"
        /\ \A s \in Runs, j \in Keys :
             s # r \/ j # k => effects'[s][j] = effects[s][j]
    BY <1>2, <2>3 DEF Verdict
  <2>6. Honest(w, k) /\ TreesGrow /\ tree' \in [Worktrees -> SUBSET Requests]
    BY <1>2, <2>5, HonestWrite
  <2>7. Moves(w, P, "raised")
    BY <1>5, RaiseMoves, EvidenceAssumption DEF DisconfirmApply
  <2>8. worker'[w].at = "raised"
    BY <2>7 DEF Moves
  <2>9. Knows(w, k)'
    BY <2>8, NothingKnown DEF Executing, Verifying, VerifySteps
  <2> QED
    BY <2>3, <2>4, <2>6, <2>7, <2>8, <2>9 DEF Advances
<1> QED
  BY <1>4, <1>5

(* The reverse check tells what is in the worktree.                        *)
LEMMA ReverseCheckAdvances ==
  ASSUME Inv, NEW P, Typed(P), NEW w \in Workers, NEW k \in Keys, Leased(w),
         Knows(w, k), NEW next \in P \cap {"verify", "returned"}, ReverseCheck(w)
  PROVE  Advances(w, k, P, next) /\ checkpoints' = checkpoints
<1> DEFINE patch == worker[w].patch
           new == [worker[w] EXCEPT !.at = "reconcile",
                                    !.applied = patch \in TreeOf(w)]
<1>1. /\ At(w, "reverse check") /\ UNCHANGED storeVars /\ tree' = tree
      /\ worker' = [worker EXCEPT ![w] = new]
  BY DEF ReverseCheck
<1>2. Asked(w, k) /\ RunOf(w) \in Runs
  BY <1>1 DEF Knows, At, Executing, Leased
<1>3. worker[w] \in Worker(P)
  BY DEF Typed
<1>4. /\ new \in Worker(P) /\ new.at = "reconcile" /\ new.run = worker[w].run
      /\ new.lease = worker[w].lease /\ new.patch = patch
      /\ new.applied <=> patch \in TreeOf(w)
  <2> DEFINE found == patch \in TreeOf(w)
  <2>1. found \in BOOLEAN /\ new = [worker[w] EXCEPT !.at = "reconcile", !.applied = found]
    OBVIOUS
  <2> HIDE DEF found
  <2>2. /\ new \in Worker(P) /\ new.at = "reconcile" /\ new.run = worker[w].run
        /\ new.lease = worker[w].lease /\ new.patch = patch
        /\ new.applied = found
    BY <1>3, <2>1 DEF Worker, ApplySteps
  <2> QED
    BY <2>2 DEF found
<1> HIDE DEF new
<1>5. Moves(w, P, "reconcile") /\ worker'[w] = new
  BY <1>1, <1>4, OneMoves DEF Moves
<1>6. /\ worker'[w].at = "reconcile" /\ worker'[w].run = worker[w].run
      /\ worker'[w].patch = patch
      /\ worker'[w].applied <=> patch \in TreeOf(w)
  BY <1>4, <1>5
<1>7. /\ [StoreNext]_storeVars /\ Uneventful /\ StoreGrows
      /\ checkpoints' = checkpoints /\ effects' = effects
  BY <1>1, StoreLeftAlone, StoreOnlyGrows
<1>8. Honest(w, k) /\ TreesGrow /\ tree' \in [Worktrees -> SUBSET Requests]
  BY <1>1, <1>7, HonestRead
<1>9. Asked(w, k)'
  BY <1>2, <1>6, <1>7, <1>8, FactsLast
<1>10. worker'[w].applied => worker'[w].patch \in TreeOf(w)'
  BY <1>1, <1>6 DEF TreeOf, RunOf
<1>11. Knows(w, k)'
  BY <1>6, <1>9, <1>10
     DEF Knows, Executing, Verifying, VerifySteps, Tested, Judged, Measured
<1> QED
  BY <1>5, <1>6, <1>7, <1>8, <1>11 DEF Advances

(* reconcile_effect: a doubt is settled as success only if the patch is in *)
(* the worktree.                                                           *)
LEMMA ReconcileApplyAdvances ==
  ASSUME Inv, NEW P, Typed(P), NEW w \in Workers, NEW k \in Keys, Leased(w),
         Knows(w, k), NEW next \in P \cap {"verify", "returned"},
         ReconcileApply(w, k, next)
  PROVE  Advances(w, k, P, next) /\ checkpoints' = checkpoints
<1> DEFINE l == worker[w].lease
           patch == worker[w].patch
           r == RunOf(w)
           applied == worker[w].applied
           evidence == [source |-> SourceFingerprint(w), patch |-> patch]
<1>1. /\ At(w, "reconcile") /\ tree' = tree
  BY DEF ReconcileApply
<1>2. /\ Asked(w, k) /\ patch \in Requests /\ r \in Runs /\ l \in leases /\ l.run = r
      /\ effects[r][k].request = patch /\ Repo[r] \in Worktrees
      /\ applied => patch \in tree[Repo[r]]
      /\ applied \in BOOLEAN
  BY <1>1, WorkspaceAssumption
     DEF Knows, At, Executing, Asked, Leased, TreeOf, Typed, Worker
<1>3. evidence \in Evidence
  <2>1. SourceFingerprint(w) \in SUBSET Requests
    BY <1>2 DEF SourceFingerprint, TreeOf, Typed
  <2> QED
    BY <1>2, <2>1, EvidenceAssumption DEF PatchEvidence
<1>4. PICK now \in ClockReads :
        \/ /\ ReconcileEffect(l, k, applied, evidence, now)
           /\ IF applied THEN Goto(w, next) ELSE Raise(w, "error")
        \/ Raise(w, "error") /\ UNCHANGED storeVars
  BY DEF ReconcileApply, ReadsOf
<1>5. Moves(w, P, "raised") => worker'[w].at = "raised" /\ Knows(w, k)'
  <2>1. Moves(w, P, "raised") => worker'[w].at = "raised"
    BY DEF Moves
  <2> QED
    BY <2>1, NothingKnown DEF Executing, Verifying, VerifySteps
<1>6. Raise(w, "error") => Moves(w, P, "raised")
  BY RaiseMoves, EvidenceAssumption
<1> HIDE DEF evidence
<1>7. CASE /\ ReconcileEffect(l, k, applied, evidence, now)
           /\ IF applied THEN Goto(w, next) ELSE Raise(w, "error")
  <2>1. ReconcileEffect(l, k, applied, evidence, now)
    BY <1>7
  <2>2. /\ Uneventful /\ checkpoints' = checkpoints
        /\ effects'[l.run][k].status = Verdict(applied)
        /\ effects'[l.run][k].request = effects[l.run][k].request
        /\ \A s \in Runs, j \in Keys :
             s # l.run \/ j # k => effects'[s][j] = effects[s][j]
    <3> HIDE DEF l, patch, r, applied
    <3> QED
      BY <1>2, <1>3, <2>1, VerdictCalled
  <2>3. StoreNext
    BY <1>2, <1>3, <2>1, HolderCalls
  <2>4. /\ effects'[r][k].status = "SUCCEEDED" <=> applied
        /\ effects'[r][k].request = patch
        /\ \A s \in Runs, j \in Keys :
             s # r \/ j # k => effects'[s][j] = effects[s][j]
    BY <1>2, <2>2 DEF Verdict
  <2>5. Honest(w, k) /\ TreesGrow /\ tree' \in [Worktrees -> SUBSET Requests]
    BY <1>1, <1>2, <2>4, HonestWrite
  <2>6. CASE applied
    <3>1. Moves(w, P, next)
      BY <1>7, <2>6, GotoMoves
    <3>2. worker'[w].at = next /\ worker'[w].run = r /\ worker'[w].patch = patch
      BY <3>1 DEF Moves, RunOf
    <3>3. Asked(w, k)' /\ Confirmed(w, k)'
      BY <1>2, <2>4, <2>6, <3>2, LedgerSays
    <3>4. Knows(w, k)'
      BY <3>2, <3>3 DEF Knows, Executing, Verifying, VerifySteps, Tested, Judged, Measured
    <3> QED
      BY <2>2, <2>3, <2>5, <3>1, <3>3, <3>4 DEF Advances
  <2>7. CASE ~applied
    BY <1>5, <1>6, <1>7, <2>2, <2>3, <2>5, <2>7 DEF Advances
  <2> QED
    BY <2>6, <2>7
<1>8. CASE Raise(w, "error") /\ UNCHANGED storeVars
  BY <1>1, <1>5, <1>6, <1>8, StoreLeftAlone, HonestRead DEF Advances
<1> QED
  BY <1>4, <1>7, <1>8

(* apply_patch as a whole.                                                 *)
LEMMA ApplyPatchAdvances ==
  ASSUME Inv, NEW P, Typed(P), NEW w \in Workers, NEW k \in Keys, Leased(w),
         Knows(w, k), NEW next \in P \cap {"verify", "returned"},
         ApplyPatch(w, k, next)
  PROVE  Advances(w, k, P, next) /\ checkpoints' = checkpoints
BY BeginApplyAdvances, GitApplyAdvances, FinishApplyAdvances,
   ReverseCheckAdvances, ReconcileApplyAdvances DEF ApplyPatch

-----------------------------------------------------------------------------
(* Stages, measurements and the checkpoint.                                *)

(* advance_stage on the way to a command or to apply_patch.                *)
LEMMA EnterStageAdvances ==
  ASSUME Inv, NEW P, Typed(P), NEW w \in Workers, NEW k \in Keys, Leased(w),
         Knows(w, k), NEW here, NEW stage \in Stages, NEW next \in P \cup {"returned"},
         NEW place \in P \cup ApplySteps \cup VerifySteps,
         \/ here = "apply" /\ place = "begin"
         \/ here = "verify" /\ place = "verification"
         \/ place \in {"run test", "propose"},
         next \in {"verify", "returned"},
         EnterStage(w, here, stage, place)
  PROVE  Advances(w, k, P, next) /\ checkpoints' = checkpoints
<1> DEFINE l == worker[w].lease
<1>1. /\ At(w, here) /\ l \in leases /\ RunOf(w) \in Runs /\ tree' = tree
      /\ Goto(w, place)
  BY DEF EnterStage, Leased
<1>2. PICK now \in ClockReads : AdvanceStage(l, stage, now)
  BY DEF EnterStage, ReadsOf
<1>3. Uneventful /\ UNCHANGED <<effects, checkpoints>>
  <2> HIDE DEF l
  <2> QED
    BY <1>1, <1>2, AdvanceStageCalled
<1>4. StoreNext
  BY <1>1, <1>2, HolderCalls
<1>5. StoreGrows
  BY <1>4, StoreOnlyGrows
<1>6. Honest(w, k) /\ TreesGrow /\ tree' \in [Worktrees -> SUBSET Requests]
  BY <1>1, <1>3, HonestRead
<1>7. Moves(w, P, place)
  BY <1>1, GotoMoves
<1>8. /\ worker'[w].at = place /\ worker'[w].run = worker[w].run
      /\ worker'[w].patch = worker[w].patch
  BY <1>7 DEF Moves
<1>9. ASSUME here = "apply", place = "begin" PROVE Knows(w, k)'
  <2>1. worker'[w].patch \in Requests
    BY <1>1, <1>8, <1>9 DEF Knows, At
  <2> QED
    BY <1>8, <1>9, <2>1
       DEF Knows, Executing, Verifying, VerifySteps, Tested, Judged, Measured
<1>10. ASSUME here = "verify", place = "verification" PROVE Knows(w, k)'
  <2>1. Confirmed(w, k)'
    BY <1>1, <1>5, <1>6, <1>8, <1>10, FactsLast DEF Knows, At, Verifying
  <2> QED
    BY <1>8, <1>10, <2>1
       DEF Knows, Executing, Verifying, VerifySteps, Tested, Judged, Measured
<1>11. ASSUME place \in {"run test", "propose"} PROVE Knows(w, k)'
  <2>1. worker'[w].at \notin {"apply", "begin"} \cup Executing \cup Verifying
    BY <1>8, <1>11 DEF Executing, Verifying, VerifySteps
  <2> QED
    BY <2>1, NothingKnown
<1>12. Knows(w, k)'
  BY <1>9, <1>10, <1>11
<1>13. worker'[w].at # next
  BY <1>8
<1> QED
  BY <1>3, <1>4, <1>6, <1>7, <1>12, <1>13 DEF Advances

(* A step that only looks.                                                 *)
LEMMA LookAdvances ==
  ASSUME Inv, NEW P, Typed(P), NEW w \in Workers, NEW k \in Keys, Leased(w),
         UNCHANGED <<storeVars, tree>>, NEW place, Moves(w, P, place),
         NEW next, place # next, Knows(w, k)'
  PROVE  Advances(w, k, P, next) /\ checkpoints' = checkpoints
<1>1. worker'[w].at # next
  BY DEF Moves
<1> QED
  BY <1>1, StoreLeftAlone, HonestRead DEF Advances

(* The commands that measure the worktree: what a process remembers of     *)
(* them holds, and the patch it judges is among what it measured.          *)
LEMMA MeasureAdvances ==
  ASSUME Inv, ConfirmedIsApplied, NEW P, Typed(P), NEW w \in Workers,
         NEW k \in Keys, Leased(w), Knows(w, k), NEW next \in {"verify", "returned"},
         Verification(w) \/ Acceptance(w) \/ TakeFingerprint(w)
  PROVE  Advances(w, k, P, next) /\ checkpoints' = checkpoints
<1> DEFINE patch == worker[w].patch
           r == RunOf(w)
<1>1. /\ UNCHANGED <<storeVars, tree>> /\ tree' = tree /\ worker[w] \in Worker(P)
      /\ At(w, "verification") \/ At(w, "acceptance") \/ At(w, "fingerprint")
  BY DEF Verification, Acceptance, TakeFingerprint, Typed
<1>2. /\ Confirmed(w, k) /\ r \in Runs /\ patch \in Requests
      /\ Repo[r] \in Worktrees
  BY <1>1, WorkspaceAssumption
     DEF Knows, At, Verifying, VerifySteps, Leased, Confirmed, Asked
<1>3. patch \in TreeOf(w) /\ TreeOf(w) \in SUBSET Requests
  BY <1>2 DEF ConfirmedIsApplied, Confirmed, Asked, TreeOf, Typed
<1>4. /\ patch \in SourceFingerprint(w) /\ SourceFingerprint(w) \in SUBSET Requests
      /\ Passes(w) \in BOOLEAN /\ PassesAcceptance(w) \in BOOLEAN
  BY <1>2, <1>3, WorkspaceAssumption DEF SourceFingerprint, Passes, PassesAcceptance
<1>5. StoreGrows /\ TreesGrow
  BY <1>1, StoreLeftAlone, StoreOnlyGrows DEF TreesGrow
<1>6. ASSUME NEW new \in Worker(P), worker' = [worker EXCEPT ![w] = new],
             new.run = worker[w].run, new.lease = worker[w].lease, new.patch = patch
      PROVE  /\ Moves(w, P, new.at) /\ worker'[w] = new
             /\ Confirmed(w, k)'
             /\ Passes(w) => Passes(w)'
             /\ PassesAcceptance(w) => PassesAcceptance(w)'
             /\ RunOf(w)' = r
  <2>1. Moves(w, P, new.at) /\ worker'[w] = new
    BY <1>6, OneMoves DEF Moves
  <2>2. worker'[w].run = worker[w].run /\ worker'[w].patch = worker[w].patch
    BY <1>6, <2>1
  <2> QED
    BY <1>2, <1>5, <2>1, <2>2, FactsLast DEF RunOf
<1>7. CASE Verification(w)
  <2> DEFINE passes == Passes(w)
             place == IF passes /\ r \in Guarded THEN "acceptance" ELSE "fingerprint"
             new == [worker[w] EXCEPT !.tests = passes, !.at = place]
  <2>1. worker' = [worker EXCEPT ![w] = new]
    BY <1>7 DEF Verification
  <2>2. passes \in BOOLEAN
    BY <1>4
  <2>3. place \in {"acceptance", "fingerprint"} /\ (place = "acceptance" <=> passes /\ r \in Guarded)
    OBVIOUS
  <2> HIDE DEF passes, place
  <2>4. /\ new \in Worker(P) /\ new.at = place /\ new.run = worker[w].run
        /\ new.lease = worker[w].lease /\ new.patch = patch
        /\ new.tests = passes
    <3>1. new \in Worker(P)
      BY <1>1, <2>2, <2>3 DEF Worker, VerifySteps
    <3>2. new.at = place /\ new.tests = passes
      BY <1>1 DEF Worker
    <3>3. new.run = worker[w].run /\ new.lease = worker[w].lease /\ new.patch = patch
      BY <1>1 DEF Worker
    <3> QED
      BY <3>1, <3>2, <3>3
  <2> HIDE DEF new
  <2>5. /\ Moves(w, P, place) /\ worker'[w] = new /\ RunOf(w)' = r
        /\ Confirmed(w, k)' /\ (passes => Passes(w)')
    BY <1>6, <2>1, <2>4 DEF passes
  <2>6. worker'[w].at = place /\ worker'[w].tests = passes
    BY <2>4, <2>5
  <2>7. Knows(w, k)'
    BY <2>2, <2>3, <2>5, <2>6
       DEF Knows, Executing, Verifying, VerifySteps, Tested, Judged, Measured
  <2> QED
    BY <1>1, <2>3, <2>5, <2>7, LookAdvances
<1>8. CASE Acceptance(w)
  <2> DEFINE passes == PassesAcceptance(w)
             new == [worker[w] EXCEPT !.acceptance = passes, !.at = "fingerprint"]
  <2>1. worker' = [worker EXCEPT ![w] = new] /\ At(w, "acceptance")
    BY <1>8 DEF Acceptance
  <2>2. passes \in BOOLEAN
    BY <1>4
  <2> HIDE DEF passes
  <2>3. /\ new \in Worker(P) /\ new.at = "fingerprint" /\ new.run = worker[w].run
        /\ new.lease = worker[w].lease /\ new.patch = patch
        /\ new.tests = worker[w].tests /\ new.acceptance = passes
    <3>1. new \in Worker(P)
      BY <1>1, <2>2 DEF Worker, VerifySteps
    <3>2. new.at = "fingerprint" /\ new.acceptance = passes
      BY <1>1 DEF Worker
    <3>3. /\ new.run = worker[w].run /\ new.lease = worker[w].lease
          /\ new.patch = patch /\ new.tests = worker[w].tests
      BY <1>1 DEF Worker
    <3> QED
      BY <3>1, <3>2, <3>3
  <2> HIDE DEF new
  <2>4. /\ Moves(w, P, "fingerprint") /\ worker'[w] = new /\ RunOf(w)' = r
        /\ Confirmed(w, k)' /\ (Passes(w) => Passes(w)')
        /\ passes => PassesAcceptance(w)'
    BY <1>6, <2>1, <2>3 DEF passes
  <2>5. /\ worker'[w].at = "fingerprint" /\ worker'[w].tests = worker[w].tests
        /\ worker'[w].acceptance = passes
    BY <2>3, <2>4
  <2>6. worker[w].tests \in BOOLEAN /\ (worker[w].tests => Passes(w))
    BY <2>1 DEF Knows, At, Tested
  <2>7. Knows(w, k)'
    BY <2>2, <2>4, <2>5, <2>6
       DEF Knows, Executing, Verifying, VerifySteps, Tested, Judged, Measured
  <2> QED
    BY <1>1, <2>4, <2>7, LookAdvances
<1>9. CASE TakeFingerprint(w)
  <2> DEFINE files == SourceFingerprint(w)
             new == [worker[w] EXCEPT !.source = files, !.at = "record"]
  <2>1. worker' = [worker EXCEPT ![w] = new] /\ At(w, "fingerprint")
    BY <1>9 DEF TakeFingerprint
  <2>2. files \in SUBSET Requests /\ patch \in files
    BY <1>4
  <2> HIDE DEF files
  <2>3. /\ new \in Worker(P) /\ new.at = "record" /\ new.run = worker[w].run
        /\ new.lease = worker[w].lease /\ new.patch = patch
        /\ new.tests = worker[w].tests /\ new.acceptance = worker[w].acceptance
        /\ new.source = files
    BY <1>1, <2>2 DEF Worker, VerifySteps
  <2> HIDE DEF new
  <2>4. /\ Moves(w, P, "record") /\ worker'[w] = new /\ RunOf(w)' = r
        /\ Confirmed(w, k)' /\ (Passes(w) => Passes(w)')
        /\ PassesAcceptance(w) => PassesAcceptance(w)'
    BY <1>6, <2>1, <2>3
  <2>5. /\ worker'[w].at = "record" /\ worker'[w].tests = worker[w].tests
        /\ worker'[w].acceptance = worker[w].acceptance
        /\ worker'[w].source = files /\ worker'[w].patch = patch
    BY <2>3, <2>4
  <2>6. /\ worker[w].tests \in BOOLEAN /\ (worker[w].tests => Passes(w))
        /\ worker[w].tests = TRUE /\ r \in Guarded =>
             worker[w].acceptance \in BOOLEAN
             /\ (worker[w].acceptance => PassesAcceptance(w))
    BY <2>1 DEF Knows, At, Tested, Judged
  <2>7. Knows(w, k)'
    BY <2>2, <2>4, <2>5, <2>6
       DEF Knows, Executing, Verifying, VerifySteps, Tested, Judged, Measured
  <2> QED
    BY <1>1, <2>4, <2>7, LookAdvances
<1> QED
  BY <1>7, <1>8, <1>9

(* Appending to a sequence: the new element is the last.                   *)
LEMMA AppendedLast ==
  ASSUME NEW S, NEW rows \in Seq(S), NEW row \in S
  PROVE  /\ Append(rows, row) # <<>>
         /\ Append(rows, row)[Len(Append(rows, row))] = row
OBVIOUS

(* What a process is about to record is evidence of a verification.        *)
LEMMA FindingsTyped ==
  ASSUME NEW P, Typed(P), NEW w \in Workers, NEW k \in Keys, Knows(w, k),
         worker[w].at \in Measured
  PROVE  EvidenceOf(w) \in Evidence
<1>1. /\ worker[w].patch \in Requests /\ worker[w].tests \in BOOLEAN
  BY DEF Knows, Measured, Tested, Verifying, VerifySteps, Confirmed, Asked
<1>2. worker[w].source \in SUBSET Requests /\ worker[w].acceptance \in BOOLEAN \cup {None}
  BY DEF Typed, Worker
<1> QED
  BY <1>1, <1>2, EvidenceAssumption DEF EvidenceOf, TestEvidence

(* record_checkpoint: what the process found is the run's last checkpoint, *)
(* and the process held the run's token when it wrote it.                  *)
LEMMA RecordAdvances ==
  ASSUME Inv, NEW P, Typed(P), NEW w \in Workers, NEW k \in Keys, Leased(w),
         Knows(w, k), NEW next \in {"verify", "returned"}, Record(w)
  PROVE  /\ Advances(w, k, P, next)
         /\ runs[RunOf(w)].fence_token = worker[w].lease.fence
         /\ \A r \in Runs \ {RunOf(w)} : checkpoints'[r] = checkpoints[r]
         /\ worker'[w].at = "judge" /\ Recorded(w)'
<1> DEFINE l == worker[w].lease
           r == RunOf(w)
           found == EvidenceOf(w)
           row == [stage |-> "verify", evidence |-> found]
<1>1. /\ At(w, "record") /\ l \in leases /\ r \in Runs /\ l.run = r
      /\ tree' = tree /\ Goto(w, "judge") /\ worker[w] \in Worker(P)
  BY DEF Record, Leased, Typed
<1>2. PICK now \in ClockReads : RecordCheckpoint(l, "verify", found, now)
  BY DEF Record, ReadsOf
<1>3. found \in Evidence /\ "verify" \in Stages
  BY <1>1, FindingsTyped, WorkspaceAssumption DEF At, Measured
<1>4. row \in Checkpoint /\ row.evidence = found
  BY <1>3 DEF Checkpoint
<1> HIDE DEF found, row
<1>5. /\ HoldsLease(l, now) /\ UNCHANGED <<runs, effects, leases>>
      /\ checkpoints' = [checkpoints EXCEPT ![r] = Append(@, row)]
  BY <1>1, <1>2 DEF RecordCheckpoint, row
<1>6. StoreNext
  BY <1>1, <1>2, <1>3, HolderCalls DEF found
<1>7. StoreGrows /\ Uneventful
  BY <1>5, <1>6, StoreOnlyGrows DEF Uneventful
<1>8. Honest(w, k) /\ TreesGrow /\ tree' \in [Worktrees -> SUBSET Requests]
  BY <1>1, <1>5, HonestRead
<1>9. Moves(w, P, "judge") /\ Remembers(w)
  BY <1>1, GotoMoves DEF VerifySteps
<1>10. /\ worker'[w].at = "judge" /\ worker'[w].run = worker[w].run
       /\ worker'[w].patch = worker[w].patch
       /\ worker'[w].tests = worker[w].tests
       /\ worker'[w].acceptance = worker[w].acceptance
       /\ worker'[w].source = worker[w].source
  BY <1>9 DEF Moves, Remembers
<1>11. RunOf(w)' = r /\ EvidenceOf(w)' = found
  BY <1>10 DEF RunOf, EvidenceOf, found
<1>12. /\ checkpoints[r] \in Seq(Checkpoint)
       /\ checkpoints'[r] = Append(checkpoints[r], row)
       /\ \A s \in Runs \ {r} : checkpoints'[s] = checkpoints[s]
  BY <1>1, <1>5 DEF Inv, IInv, TypeOK
<1>13. Recorded(w)'
  BY <1>4, <1>11, <1>12, AppendedLast DEF Recorded
<1>14. Knows(w, k)'
  <2>1. /\ Confirmed(w, k)' /\ (Passes(w) => Passes(w)')
        /\ PassesAcceptance(w) => PassesAcceptance(w)'
    BY <1>1, <1>7, <1>8, <1>10, FactsLast DEF Knows, At, Verifying, VerifySteps
  <2>2. /\ worker[w].tests \in BOOLEAN /\ (worker[w].tests => Passes(w))
        /\ worker[w].tests = TRUE /\ r \in Guarded =>
             /\ worker[w].acceptance \in BOOLEAN
             /\ worker[w].acceptance => PassesAcceptance(w)
        /\ worker[w].patch \in worker[w].source
    BY <1>1 DEF Knows, At, Tested, Judged, Measured
  <2> QED
    BY <1>10, <1>11, <2>1, <2>2
       DEF Knows, Executing, Verifying, VerifySteps, Tested, Judged, Measured
<1> QED
  BY <1>1, <1>5, <1>6, <1>7, <1>8, <1>9, <1>10, <1>12, <1>13, <1>14
     DEF Advances, HoldsLease

(* Where apply_patch leads.                                                *)
LEMMA ApplyPatchPlaces ==
  ASSUME NEW P, Typed(P), NEW w \in Workers, NEW k, NEW next, ApplyPatch(w, k, next)
  PROVE  worker'[w].at \in ApplySteps \cup {next, "raised"}
<1>1. worker[w] \in Worker(P) /\ w \in DOMAIN worker
  BY DEF Typed
<1>2. \A place : Goto(w, place) => worker'[w].at = place
  BY <1>1 DEF Goto, Worker
<1>3. \A error : Raise(w, error) => worker'[w].at = "raised"
  BY <1>1 DEF Raise, Worker
<1>4. ReverseCheck(w) => worker'[w].at = "reconcile"
  <2>1. ReverseCheck(w) => \E applied :
          worker'[w] = [worker[w] EXCEPT !.at = "reconcile", !.applied = applied]
    BY <1>1 DEF ReverseCheck
  <2> QED
    BY <1>1, <2>1 DEF Worker
<1>5. BeginApply(w, k, next) => worker'[w].at \in ApplySteps \cup {next, "raised"}
  BY <1>2, <1>3 DEF BeginApply, ApplySteps
<1>6. ReconcileApply(w, k, next) => worker'[w].at \in ApplySteps \cup {next, "raised"}
  BY <1>2, <1>3 DEF ReconcileApply, ApplySteps
<1> QED
  BY <1>2, <1>3, <1>4, <1>5, <1>6
     DEF ApplyPatch, GitApply, GitApplyKilled, ConfirmApply, DisconfirmApply, ApplySteps

(* Where the measuring commands lead.                                      *)
LEMMA MeasurePlaces ==
  ASSUME NEW P, Typed(P), NEW w \in Workers,
         Verification(w) \/ Acceptance(w) \/ TakeFingerprint(w)
  PROVE  worker'[w].at \in {"acceptance", "fingerprint", "record"}
BY DEF Typed, Worker, Verification, Acceptance, TakeFingerprint

-----------------------------------------------------------------------------
(* What every program over store and worktrees keeps.                      *)

(* What a run that succeeded claims of ledger, worktree and checkpoints.   *)
Verified(r) ==
  LET report == runs[r].result
      patches == tree[Repo[r]]
  IN  /\ Settled(r, report.patch)
      /\ report.patch \in patches /\ report.patch \in report.source
      /\ report.tests /\ patches \cap Fixes[r] # {}
      /\ r \in Guarded => report.acceptance = TRUE /\ patches \cap Accepts[r] # {}
      /\ checkpoints[r][Len(checkpoints[r])].evidence = report

LEMMA VerifiedRuns ==
  SuccessIsVerified <=> \A r \in Runs : runs[r].status = "SUCCEEDED" => Verified(r)
BY DEF SuccessIsVerified, Verified

(* A patch in a worktree was begun, in the ledger, for a run of that       *)
(* worktree.                                                               *)
AppliedIsBegun ==
  \A t \in Worktrees : \A p \in tree[t] : \E r \in Runs, k \in Keys :
    Repo[r] = t /\ effects[r][k].status # "ABSENT" /\ effects[r][k].request = p

(* Honest steps keep ledger and worktrees in agreement.                    *)
LEMMA AgreementLasts ==
  ASSUME StoreGrows, TreesGrow, NEW w \in Workers, NEW k \in Keys,
         RunOf(w) \in Runs, Honest(w, k)
  PROVE  /\ ConfirmedIsApplied => ConfirmedIsApplied'
         /\ AppliedIsBegun => AppliedIsBegun'
<1>1. \A r \in Runs : Repo[r] \in Worktrees
  BY WorkspaceAssumption
<1>2. ASSUME ConfirmedIsApplied PROVE ConfirmedIsApplied'
  <2>1. SUFFICES ASSUME NEW r \in Runs, NEW j \in Keys, effects'[r][j].status = "SUCCEEDED"
                 PROVE  effects'[r][j].request \in tree'[Repo[r]]
    BY DEF ConfirmedIsApplied
  <2>2. CASE effects[r][j].status = "SUCCEEDED"
    BY <1>1, <1>2, <2>2 DEF ConfirmedIsApplied, StoreGrows, TreesGrow
  <2>3. CASE effects'[r][j].request \in tree[Repo[r]]
    BY <1>1, <2>3 DEF TreesGrow
  <2> QED
    BY <2>1, <2>2, <2>3 DEF Honest
<1>3. ASSUME AppliedIsBegun PROVE AppliedIsBegun'
  <2>1. SUFFICES ASSUME NEW t \in Worktrees, NEW p \in tree'[t]
                 PROVE  \E r \in Runs, j \in Keys :
                          /\ Repo[r] = t /\ effects[r][j].status # "ABSENT"
                          /\ effects[r][j].request = p
    <3>1. SUFFICES ASSUME NEW t \in Worktrees, NEW p \in tree'[t]
                   PROVE  \E r \in Runs, j \in Keys :
                            /\ Repo[r] = t /\ effects'[r][j].status # "ABSENT"
                            /\ effects'[r][j].request = p
      BY DEF AppliedIsBegun
    <3>2. PICK r \in Runs, j \in Keys :
            /\ Repo[r] = t /\ effects[r][j].status # "ABSENT"
            /\ effects[r][j].request = p
      BY <2>1
    <3> QED
      BY <3>2 DEF StoreGrows
  <2>2. CASE p \in tree[t]
    BY <1>3, <2>2 DEF AppliedIsBegun
  <2>3. CASE t = Repo[RunOf(w)] /\ p = worker[w].patch /\ Asked(w, k)
    BY <2>3 DEF Asked
  <2> QED
    BY <2>2, <2>3 DEF Honest
<1> QED
  BY <1>2, <1>3

(* A run that had succeeded keeps what it claims.                          *)
LEMMA SuccessLasts ==
  ASSUME Inv, [StoreNext]_storeVars, TreesGrow, NEW r \in Runs,
         runs[r].status = "SUCCEEDED", Verified(r)
  PROVE  Verified(r)'
<1>1. /\ runs'[r] = runs[r] /\ checkpoints'[r] = checkpoints[r]
  BY EndedRunFrozen DEF Terminal, Frozen
<1>2. StoreGrows /\ Repo[r] \in Worktrees
  BY StoreOnlyGrows, WorkspaceAssumption
<1>3. tree[Repo[r]] \subseteq tree'[Repo[r]]
  BY <1>2 DEF TreesGrow
<1>4. Settled(r, runs[r].result.patch) => Settled(r, runs[r].result.patch)'
  BY <1>1, <1>2 DEF Settled, StoreGrows
<1> QED
  BY <1>1, <1>3, <1>4 DEF Verified

(* Without a new success, all that succeeded are still verified.           *)
LEMMA NoNewSuccess ==
  ASSUME Inv, [StoreNext]_storeVars, TreesGrow, SuccessIsVerified,
         \A r \in Runs : runs'[r].status = "SUCCEEDED" => runs[r].status = "SUCCEEDED"
  PROVE  SuccessIsVerified'
<1>1. SUFFICES ASSUME NEW r \in Runs, runs'[r].status = "SUCCEEDED" PROVE Verified(r)'
  BY DEF SuccessIsVerified, Verified
<1>2. runs[r].status = "SUCCEEDED" /\ Verified(r)
  BY <1>1, VerifiedRuns
<1> QED
  BY <1>2, SuccessLasts

(* A run that succeeds with what its process found is verified.            *)
LEMMA SuccessEarned ==
  ASSUME ConfirmedIsApplied, NEW w \in Workers, NEW k \in Keys,
         NEW r \in Runs, r = RunOf(w),
         At(w, "complete"), Knows(w, k), Recorded(w),
         runs'[r].result = EvidenceOf(w),
         UNCHANGED <<effects, checkpoints, tree>>
  PROVE  Verified(r)'
<1> DEFINE report == EvidenceOf(w)
<1>1. /\ report.patch = worker[w].patch /\ report.source = worker[w].source
      /\ report.tests = worker[w].tests /\ report.acceptance = worker[w].acceptance
  BY DEF EvidenceOf
<1>2. /\ Confirmed(w, k) /\ worker[w].tests = TRUE /\ worker[w].acceptance # FALSE
      /\ Passes(w) /\ worker[w].patch \in worker[w].source
      /\ r \in Guarded => worker[w].acceptance \in BOOLEAN
                          /\ (worker[w].acceptance => PassesAcceptance(w))
  BY DEF Knows, At, Verifying, Tested, Judged, Measured
<1>3. Settled(r, report.patch) /\ report.patch \in tree[Repo[r]]
  BY <1>1, <1>2 DEF Confirmed, Asked, Settled, ConfirmedIsApplied
<1>4. checkpoints[r][Len(checkpoints[r])].evidence = report
  BY DEF Recorded
<1> HIDE DEF report
<1>5. /\ report.patch \in report.source /\ report.tests = TRUE
      /\ tree[Repo[r]] \cap Fixes[r] # {}
  BY <1>1, <1>2 DEF Passes, TreeOf
<1>6. r \in Guarded => report.acceptance = TRUE /\ tree[Repo[r]] \cap Accepts[r] # {}
  BY <1>1, <1>2 DEF PassesAcceptance, TreeOf
<1>7. runs'[r].result = report
  BY DEF report
<1>8. \E j \in Keys : effects'[r][j].status = "SUCCEEDED"
                      /\ effects'[r][j].request = runs'[r].result.patch
  BY <1>3, <1>7 DEF Settled
<1> QED
  BY <1>3, <1>4, <1>5, <1>6, <1>7, <1>8 DEF Verified, Settled
===============================================================================
