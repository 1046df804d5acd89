------------------------------- MODULE RunStore -------------------------------
(***************************************************************************)
(* SQLiteRunStore (store.py): runs, effects, checkpoints and events, each  *)
(* mutated by one BEGIN IMMEDIATE transaction per operation.  An operation *)
(* here is the committed transaction; an operation that raises rolls back  *)
(* and is a stuttering step.  The callers are arbitrary: any Lease ever    *)
(* handed out may be used at any later time, by a live worker, a stalled   *)
(* one or one that came back after its lease was taken over.               *)
(*                                                                         *)
(* Every operation reads the clock BEFORE it asks for the write lock.      *)
(* Nothing bounds the time from there to the commit: the process may stall *)
(* between the two, or wait for the lock.  So an operation may act on any  *)
(* time that has been: the parameter "now", drawn from ClockReads.         *)
(***************************************************************************)
EXTENDS Integers, Sequences, FiniteSets

CONSTANTS
  Runs,        \* run ids, numbered in the order claim_next compares them
  Owners,      \* worker names
  Keys,        \* operation keys of the effect ledger
  Requests,    \* what an effect was asked to do (name and request hash)
  Stages,      \* stage names
  Evidence,    \* results, effect results and checkpoint contents
  Errors,      \* error messages
  None,        \* NULL
  LeaseTicks   \* lease_seconds

ASSUME StoreAssumption ==
  /\ Runs \subseteq Nat
  /\ None \notin Owners \cup Stages \cup Keys \cup Requests \cup Evidence
  /\ "queued" \in Stages
  /\ LeaseTicks \in Nat \ {0}

VARIABLES
  runs,         \* runs[r]: the row of run r
  effects,      \* effects[r][k]: the ledger row of operation k of run r
  checkpoints,  \* checkpoints[r]: the rows of run r, by sequence number
  events,       \* events[r]: the audit events of run r, in order
  leases,       \* every Lease value handed to a caller so far
  clock         \* the wall clock, in ticks

storeVars == <<runs, effects, checkpoints, events, leases, clock>>

-----------------------------------------------------------------------------
(* Rows.  "ABSENT" stands for a row that has not been inserted.            *)

Terminal == {"SUCCEEDED", "FAILED", "CANCELED"}
Held == {"RUNNING", "WAITING"}
RunStatus == {"PENDING"} \cup Held \cup Terminal
EffectStatus == {"STARTED", "SUCCEEDED", "FAILED", "UNKNOWN"}

ALLOWED_TRANSITIONS ==
  [PENDING   |-> {"RUNNING", "CANCELED"},
   RUNNING   |-> {"WAITING", "SUCCEEDED", "FAILED", "CANCELED"},
   WAITING   |-> {"RUNNING", "CANCELED"},
   SUCCEEDED |-> {},
   FAILED    |-> {},
   CANCELED  |-> {}]

Lease == [run : Runs, owner : Owners, fence : Nat]

Run ==
  [status : RunStatus \cup {"ABSENT"},
   stage : Stages \cup {None},
   revision : Nat,
   fence_token : Nat,
   lease_owner : Owners \cup {None},
   lease_expires_at : Nat \cup {None},
   attempt : Nat,
   result : Evidence \cup {None},
   last_error : Errors \cup {None},
   created_at : Nat]

Effect ==
  [status : EffectStatus \cup {"ABSENT"},
   request : Requests \cup {None},
   fence_token : Nat,
   result : Evidence \cup {None}]

Checkpoint == [stage : Stages, evidence : Evidence]

EventType ==
  {"RUN_CREATED", "RUN_CLAIMED", "LEASE_RECOVERED", "LEASE_RENEWED",
   "RUN_TRANSITIONED", "STAGE_STARTED", "CHECKPOINT_RECORDED",
   "EFFECT_STARTED", "EFFECT_BECAME_UNKNOWN", "EFFECT_FINISHED",
   "EFFECT_RECONCILED"}

(* An audit event: its type, the owner and token it was written under (the *)
(* Lease the transaction was admitted with), and from its payload the      *)
(* operation key, the status reached and the stage.                        *)
Event ==
  [type : EventType,
   owner : Owners \cup {None},
   fence : Nat,
   key : Keys \cup {None},
   to : RunStatus \cup EffectStatus \cup {None},
   stage : Stages \cup {None}]

AbsentRun ==
  [status |-> "ABSENT", stage |-> None, revision |-> 0, fence_token |-> 0,
   lease_owner |-> None, lease_expires_at |-> None, attempt |-> 0,
   result |-> None, last_error |-> None, created_at |-> 0]

AbsentEffect ==
  [status |-> "ABSENT", request |-> None, fence_token |-> 0, result |-> None]

-----------------------------------------------------------------------------
(* Pieces of a transaction.                                                *)

(* What self.clock() may have returned to a call that commits now.         *)
ClockReads == 0..clock

(* _require_lease admits the caller.                                       *)
HoldsLease_AnyToken(l, now) ==    \* mutant: the token is not compared
  /\ runs[l.run].lease_owner = l.owner
  /\ runs[l.run].lease_expires_at # None
  /\ runs[l.run].lease_expires_at > now

HoldsLease_NeverExpires(l, now) ==    \* mutant: the expiry is not compared
  /\ runs[l.run].lease_owner = l.owner
  /\ runs[l.run].fence_token = l.fence

HoldsLease(l, now) ==
  /\ runs[l.run].lease_owner = l.owner
  /\ runs[l.run].fence_token = l.fence
  /\ runs[l.run].lease_expires_at # None
  /\ runs[l.run].lease_expires_at > now

(* The row of run r is replaced under its revision.                        *)
UpdateRun(r, row) ==
  runs' = [runs EXCEPT ![r] = [row EXCEPT !.revision = runs[r].revision + 1]]

UpdateEffect(r, k, effect) == effects' = [effects EXCEPT ![r][k] = effect]

AppendEvent(r, type, owner, fence, key, to, stage) ==
  events' = [events EXCEPT ![r] =
    Append(@, [type |-> type, owner |-> owner, fence |-> fence,
               key |-> key, to |-> to, stage |-> stage])]

-----------------------------------------------------------------------------
(* Queueing and claiming.                                                  *)

CreateRun(r, now) ==
  /\ runs[r].status = "ABSENT"
  /\ runs' = [runs EXCEPT ![r] = [@ EXCEPT !.status = "PENDING",
                                           !.stage = "queued",
                                           !.created_at = now]]
  /\ AppendEvent(r, "RUN_CREATED", None, 0, None, None, "queued")
  /\ UNCHANGED <<effects, checkpoints, leases, clock>>

Lapsed(r, now) ==
  /\ runs[r].status = "RUNNING"
  /\ runs[r].lease_expires_at # None
  /\ runs[r].lease_expires_at <= now

Claimable_PendingOnly(r, now) == runs[r].status = "PENDING"    \* mutant

Claimable(r, now) == runs[r].status = "PENDING" \/ Lapsed(r, now)

(* ORDER BY: interrupted runs first, then the oldest, then the id.         *)
Precedes(r, s) ==
  LET class(x) == IF runs[x].status = "RUNNING" THEN 0 ELSE 1
  IN  \/ class(r) < class(s)
      \/ /\ class(r) = class(s)
         /\ \/ runs[r].created_at < runs[s].created_at
            \/ runs[r].created_at = runs[s].created_at /\ r < s

NextToken_OncePerRun(row) ==    \* mutant: a recovery keeps the token
  IF row.status = "RUNNING" THEN row.fence_token ELSE row.fence_token + 1

NextToken(row) == row.fence_token + 1

(* The new lease of run r: next token, one more attempt.                   *)
Grant(r, owner, now) ==
  LET row == runs[r]
      fence == NextToken(row)
  IN  /\ UpdateRun(r, [row EXCEPT !.status = "RUNNING",
                                  !.lease_owner = owner,
                                  !.lease_expires_at = now + LeaseTicks,
                                  !.fence_token = fence,
                                  !.attempt = @ + 1])
      /\ leases' = leases \cup {[run |-> r, owner |-> owner, fence |-> fence]}
      /\ AppendEvent(r, IF row.status = "RUNNING" THEN "LEASE_RECOVERED"
                                                  ELSE "RUN_CLAIMED",
                     owner, fence, None, None, None)
      /\ UNCHANGED <<effects, checkpoints, clock>>

ClaimNext(r, owner, now) ==
  /\ Claimable(r, now)
  /\ \A s \in Runs \ {r} : Claimable(s, now) => Precedes(r, s)
  /\ Grant(r, owner, now)

(* acquire_run hands the live lease back to its own owner: no write.       *)
ReenterRun(r, owner, now) ==
  /\ runs[r].status = "RUNNING"
  /\ runs[r].lease_expires_at > now
  /\ runs[r].lease_owner = owner
  /\ leases' = leases \cup
       {[run |-> r, owner |-> owner, fence |-> runs[r].fence_token]}
  /\ UNCHANGED <<runs, effects, checkpoints, events, clock>>

AcquireRun_Steals(r, owner, now) ==    \* mutant: a live lease is taken over
  /\ runs[r].status \in {"PENDING", "RUNNING"}
  /\ Grant(r, owner, now)

AcquireRun(r, owner, now) ==
  /\ \/ runs[r].status = "PENDING"
     \/ runs[r].status = "RUNNING" /\ runs[r].lease_expires_at <= now
  /\ Grant(r, owner, now)

-----------------------------------------------------------------------------
(* Operations of the lease holder.                                         *)

RenewLease(l, now) ==
  /\ HoldsLease(l, now)
  /\ UpdateRun(l.run, [runs[l.run] EXCEPT !.lease_expires_at = now + LeaseTicks])
  /\ AppendEvent(l.run, "LEASE_RENEWED", l.owner, l.fence, None, None, None)
  /\ UNCHANGED <<effects, checkpoints, leases, clock>>

(* A run that ends is held by nobody; its token stays.                     *)
Released_Never(row, target) == row    \* mutant: the lease is not cleared

Released_WithToken(row, target) ==    \* mutant: the token is cleared as well
  IF target \in Terminal
  THEN [row EXCEPT !.lease_owner = None, !.lease_expires_at = None,
                   !.fence_token = None]
  ELSE row

Released(row, target) ==
  IF target \in Terminal
  THEN [row EXCEPT !.lease_owner = None, !.lease_expires_at = None]
  ELSE row

(* stage and result fall back to the row's when the caller gives none;     *)
(* the error does not.                                                     *)
Transition(l, target, stage, result, error, now) ==
  LET row == runs[l.run]
      next_stage == IF stage = None THEN row.stage ELSE stage
  IN  /\ HoldsLease(l, now)
      /\ target \in ALLOWED_TRANSITIONS[row.status]
      /\ UpdateRun(l.run,
           [Released(row, target) EXCEPT
              !.status = target,
              !.stage = next_stage,
              !.result = IF result = None THEN @ ELSE result,
              !.last_error = error])
      /\ AppendEvent(l.run, "RUN_TRANSITIONED", l.owner, l.fence, None,
                     target, next_stage)
      /\ UNCHANGED <<effects, checkpoints, leases, clock>>

AdvanceStage_Silent(l, stage, now) ==    \* mutant: no event
  /\ HoldsLease(l, now)
  /\ runs[l.run].status = "RUNNING"
  /\ UpdateRun(l.run, [runs[l.run] EXCEPT !.stage = stage])
  /\ UNCHANGED <<effects, checkpoints, events, leases, clock>>

AdvanceStage(l, stage, now) ==
  /\ HoldsLease(l, now)
  /\ runs[l.run].status = "RUNNING"
  /\ UpdateRun(l.run, [runs[l.run] EXCEPT !.stage = stage])
  /\ AppendEvent(l.run, "STAGE_STARTED", l.owner, l.fence, None, None, stage)
  /\ UNCHANGED <<effects, checkpoints, leases, clock>>

(* The row's sequence number MAX(sequence) + 1 is its position.            *)
RecordCheckpoint(l, stage, evidence, now) ==
  /\ HoldsLease(l, now)
  /\ checkpoints' = [checkpoints EXCEPT ![l.run] =
       Append(@, [stage |-> stage, evidence |-> evidence])]
  /\ AppendEvent(l.run, "CHECKPOINT_RECORDED", l.owner, l.fence, None, None, None)
  /\ UNCHANGED <<runs, effects, leases, clock>>

-----------------------------------------------------------------------------
(* The effect ledger.  begin_effect has six outcomes: three that write     *)
(* (below), and three that leave the store as it is (the predicates).      *)

SameRequest_NotCompared(l, k, request) == TRUE    \* mutant

(* The name and the request hash are those the key was first used with.    *)
SameRequest(l, k, request) == effects[l.run][k].request = request

(* First use of the key: execute.                                          *)
EffectStarts(l, k, request) ==
  /\ effects[l.run][k].status = "ABSENT"
  /\ UpdateEffect(l.run, k, [status |-> "STARTED", request |-> request,
                             fence_token |-> l.fence, result |-> None])
  /\ AppendEvent(l.run, "EFFECT_STARTED", l.owner, l.fence, k, "STARTED", None)

EffectRestarts_WhileStarted(l, k, request) ==    \* mutant: a re-entry starts again
  /\ \/ effects[l.run][k].status = "FAILED"
     \/ effects[l.run][k].status = "STARTED" /\ effects[l.run][k].fence_token = l.fence
  /\ SameRequest(l, k, request)
  /\ UpdateEffect(l.run, k, [effects[l.run][k] EXCEPT !.status = "STARTED",
                                                      !.fence_token = l.fence])
  /\ UNCHANGED events

(* The last execution is known to have failed: execute again.  This write  *)
(* appends no event.                                                       *)
EffectRestarts(l, k, request) ==
  /\ effects[l.run][k].status = "FAILED"
  /\ SameRequest(l, k, request)
  /\ UpdateEffect(l.run, k, [effects[l.run][k] EXCEPT !.status = "STARTED",
                                                      !.fence_token = l.fence])
  /\ UNCHANGED events

EffectBecomesUnknown_Silent(l, k, request) ==    \* mutant: no event
  /\ effects[l.run][k].status = "STARTED"
  /\ SameRequest(l, k, request)
  /\ effects[l.run][k].fence_token # l.fence
  /\ UpdateEffect(l.run, k, [effects[l.run][k] EXCEPT !.status = "UNKNOWN"])
  /\ UNCHANGED events

EffectBecomesUnknown_Eager(l, k, request) ==    \* mutant: the token is not compared
  /\ effects[l.run][k].status = "STARTED"
  /\ SameRequest(l, k, request)
  /\ UpdateEffect(l.run, k, [effects[l.run][k] EXCEPT !.status = "UNKNOWN"])
  /\ AppendEvent(l.run, "EFFECT_BECAME_UNKNOWN", l.owner, l.fence, k,
                 "UNKNOWN", None)

(* An execution begun under another lease was never confirmed: record the  *)
(* doubt, then raise EffectNeedsReconciliation.                            *)
EffectBecomesUnknown(l, k, request) ==
  /\ effects[l.run][k].status = "STARTED"
  /\ SameRequest(l, k, request)
  /\ effects[l.run][k].fence_token # l.fence
  /\ UpdateEffect(l.run, k, [effects[l.run][k] EXCEPT !.status = "UNKNOWN"])
  /\ AppendEvent(l.run, "EFFECT_BECAME_UNKNOWN", l.owner, l.fence, k,
                 "UNKNOWN", None)

(* EffectConflict: the key is bound to another request.                    *)
EffectConflicts(l, k, request) ==
  /\ effects[l.run][k].status # "ABSENT"
  /\ ~SameRequest(l, k, request)

(* The confirmed result is returned, nothing is executed.                  *)
EffectReplays(l, k, request) ==
  /\ effects[l.run][k].status = "SUCCEEDED"
  /\ SameRequest(l, k, request)

(* EffectNeedsReconciliation without a write: already in doubt, or begun   *)
(* under this very lease and not finished.                                 *)
EffectUnsettled(l, k, request) ==
  /\ SameRequest(l, k, request)
  /\ \/ effects[l.run][k].status = "UNKNOWN"
     \/ /\ effects[l.run][k].status = "STARTED"
        /\ effects[l.run][k].fence_token = l.fence

BeginEffect(l, k, request, now) ==
  /\ HoldsLease(l, now)
  /\ \/ EffectStarts(l, k, request)
     \/ EffectRestarts(l, k, request)
     \/ EffectBecomesUnknown(l, k, request)
  /\ UNCHANGED <<runs, checkpoints, leases, clock>>

Verdict_EventName(succeeded) ==    \* mutant: the event's name is stored as the status
  IF succeeded THEN "EFFECT_FINISHED" ELSE "FAILED"

Verdict(succeeded) == IF succeeded THEN "SUCCEEDED" ELSE "FAILED"

FinishEffect(l, k, succeeded, result, now) ==
  /\ HoldsLease(l, now)
  /\ effects[l.run][k].status = "STARTED"
  /\ effects[l.run][k].fence_token = l.fence
  /\ UpdateEffect(l.run, k, [effects[l.run][k] EXCEPT !.status = Verdict(succeeded),
                                                      !.result = result])
  /\ AppendEvent(l.run, "EFFECT_FINISHED", l.owner, l.fence, k,
                 Verdict(succeeded), None)
  /\ UNCHANGED <<runs, checkpoints, leases, clock>>

ReconcileEffect(l, k, succeeded, evidence, now) ==
  /\ HoldsLease(l, now)
  /\ effects[l.run][k].status = "UNKNOWN"
  /\ UpdateEffect(l.run, k,
       [effects[l.run][k] EXCEPT !.status = Verdict(succeeded),
                                 !.result = IF succeeded THEN evidence ELSE None,
                                 !.fence_token = l.fence])
  /\ AppendEvent(l.run, "EFFECT_RECONCILED", l.owner, l.fence, k,
                 Verdict(succeeded), None)
  /\ UNCHANGED <<runs, checkpoints, leases, clock>>

-----------------------------------------------------------------------------
(* The store among arbitrary callers.                                      *)

StoreInit ==
  /\ runs = [r \in Runs |-> AbsentRun]
  /\ effects = [r \in Runs |-> [k \in Keys |-> AbsentEffect]]
  /\ checkpoints = [r \in Runs |-> <<>>]
  /\ events = [r \in Runs |-> <<>>]
  /\ leases = {}
  /\ clock = 0

Tick ==
  /\ clock' = clock + 1
  /\ UNCHANGED <<runs, effects, checkpoints, events, leases>>

ClaimStep ==
  \E r \in Runs, now \in ClockReads :
    \/ CreateRun(r, now)
    \/ \E owner \in Owners :
         \/ ClaimNext(r, owner, now)
         \/ AcquireRun(r, owner, now)
         \/ ReenterRun(r, owner, now)

HolderStep ==
  \E l \in leases, now \in ClockReads :
    \/ RenewLease(l, now)
    \/ \E target \in RunStatus, stage \in Stages \cup {None},
          result \in Evidence \cup {None}, error \in Errors \cup {None} :
         Transition(l, target, stage, result, error, now)
    \/ \E stage \in Stages : AdvanceStage(l, stage, now)
    \/ \E stage \in Stages, evidence \in Evidence :
         RecordCheckpoint(l, stage, evidence, now)

EffectStep ==
  \E l \in leases, k \in Keys, now \in ClockReads :
    \/ \E request \in Requests : BeginEffect(l, k, request, now)
    \/ \E succeeded \in BOOLEAN, result \in Evidence \cup {None} :
         FinishEffect(l, k, succeeded, result, now)
    \/ \E succeeded \in BOOLEAN, evidence \in Evidence :
         ReconcileEffect(l, k, succeeded, evidence, now)

StoreNext == ClaimStep \/ HolderStep \/ EffectStep \/ Tick

StoreSpec == StoreInit /\ [][StoreNext]_storeVars

-----------------------------------------------------------------------------
(* Properties.                                                             *)

(* Every variable holds rows, events and leases of its type.               *)
TypeOK ==
  /\ runs \in [Runs -> Run]
  /\ effects \in [Runs -> [Keys -> Effect]]
  /\ checkpoints \in [Runs -> Seq(Checkpoint)]
  /\ events \in [Runs -> Seq(Event)]
  /\ leases \in SUBSET Lease
  /\ clock \in Nat

(* Exactly the runs that somebody works on carry an owner and an expiry:   *)
(* acquire_run compares lease_expires_at of a RUNNING row without a NULL   *)
(* check (store.py:242), and _require_lease relies on a finished or queued *)
(* row naming no owner.                                                    *)
LeaseWellFormed ==
  \A r \in Runs :
    IF runs[r].status \in Held
    THEN /\ runs[r].lease_owner \in Owners
         /\ runs[r].lease_expires_at \in Nat
    ELSE /\ runs[r].lease_owner = None
         /\ runs[r].lease_expires_at = None

(* A fencing token names one lease: two callers that hold the same token   *)
(* of a run hold the same lease, however often the run changed hands.      *)
OneHolderPerToken ==
  \A l, m \in leases : l.run = m.run /\ l.fence = m.fence => l = m

(* Fencing: once somebody wrote under a token, nobody writes under an      *)
(* older one.  The audit events of a run, in commit order, carry           *)
(* nondecreasing tokens (README: fencing tokens reject stale writes).      *)
FencedWrites ==
  \A r \in Runs : \A i, j \in DOMAIN events[r] :
    i < j => events[r][i].fence <= events[r][j].fence

(* Why tokens order the writers: nothing carries a token the run has not   *)
(* reached yet, and while somebody works on the run, whoever holds its     *)
(* current token is the owner the row names.  An operation is in doubt     *)
(* only after the lease that began it was taken over.                      *)
TokenOrder ==
  /\ \A r \in Runs : runs[r].status = "ABSENT" => runs[r].fence_token = 0
  /\ \A l \in leases :
       /\ l.fence <= runs[l.run].fence_token
       /\ runs[l.run].status \in Held /\ runs[l.run].fence_token = l.fence
            => runs[l.run].lease_owner = l.owner
  /\ \A r \in Runs : \A i \in DOMAIN events[r] :
       events[r][i].fence <= runs[r].fence_token
  /\ \A r \in Runs, k \in Keys :
       /\ effects[r][k].fence_token <= runs[r].fence_token
       /\ effects[r][k].status = "UNKNOWN" =>
            effects[r][k].fence_token < runs[r].fence_token

(* Where the last event of a log that Sel selects is.                      *)
Latest(log, Sel(_)) ==
  {i \in DOMAIN log :
     /\ Sel(log[i])
     /\ \A j \in DOMAIN log : j > i => ~Sel(log[j])}

IsClaim(e) == e.type \in {"RUN_CLAIMED", "LEASE_RECOVERED"}
SetsStatus(e) == IsClaim(e) \/ e.type \in {"RUN_CREATED", "RUN_TRANSITIONED"}
SetsStage(e) == e.type \in {"RUN_CREATED", "RUN_TRANSITIONED", "STAGE_STARTED"}

StatusSetBy(e) ==
  IF IsClaim(e) THEN "RUNNING"
  ELSE IF e.type = "RUN_CREATED" THEN "PENDING" ELSE e.to

(* The log leads to the row: its status, its stage, the token and the      *)
(* holder are the ones the last event about each left.                     *)
Explains(log, row) ==
  /\ row.status = "ABSENT" <=> log = <<>>
  /\ \A i \in Latest(log, SetsStatus) : row.status = StatusSetBy(log[i])
  /\ \A i \in Latest(log, SetsStage) : row.stage = log[i].stage
  /\ \A i \in Latest(log, IsClaim) :
       /\ row.fence_token = log[i].fence
       /\ row.lease_owner \in {None, log[i].owner}

(* The audit log alone explains a run's row, so a timeline built from the  *)
(* events never disagrees with the row.                                    *)
AuditExplainsRun == \A r \in Runs : Explains(events[r], runs[r])

(* The audit log explains the ledger: an operation has the status its last *)
(* event says.  The one exception is the restart of a failed operation,    *)
(* which begin_effect writes without an event (store.py:515-531).          *)
AuditExplainsEffect ==
  \A r \in Runs, k \in Keys :
    LET About(e) == e.key = k
        status == effects[r][k].status
    IN  /\ status = "ABSENT" <=> Latest(events[r], About) = {}
        /\ \A i \in Latest(events[r], About) :
             \/ status = events[r][i].to
             \/ status = "STARTED" /\ events[r][i].to = "FAILED"

(* A finished run is finished: no call, with whatever lease, changes its   *)
(* row, its ledger, its checkpoints or its events any more.                *)
TerminalFrozen ==
  [][\A r \in Runs : runs[r].status \in Terminal =>
       /\ runs'[r] = runs[r]
       /\ effects'[r] = effects[r]
       /\ checkpoints'[r] = checkpoints[r]
       /\ events'[r] = events[r]]_storeVars

(* A run changes hands only after its holder's lease ran out by the wall   *)
(* clock, although the claim compares the expiry with a time read before   *)
(* its transaction, and may commit at any time after that.                 *)
NoPrematureTakeover ==
  [][\A r \in Runs :
       runs[r].status = "RUNNING" /\ runs'[r].fence_token # runs[r].fence_token
         => runs[r].lease_expires_at <= clock]_storeVars

-----------------------------------------------------------------------------
(* What the effect ledger promises.                                        *)

Phase ==
  [ABSENT |-> "idle", STARTED |-> "open", UNKNOWN |-> "doubt",
   SUCCEEDED |-> "done", FAILED |-> "void"]

SlotOf(effect) ==
  [phase |-> Phase[effect.status],
   request |-> effect.request,
   executor |-> effect.fence_token,
   result |-> IF effect.status = "SUCCEEDED" THEN effect.result ELSE None]

Slots == [r \in Runs |-> [k \in Keys |-> SlotOf(effects[r][k])]]
Epochs == [r \in Runs |-> runs[r].fence_token]

Contract ==
  INSTANCE EffectContract WITH Results <- Evidence, slot <- Slots, epoch <- Epochs

(* The ledger implements the contract: one executor at a time, doubt only  *)
(* after a takeover, one adjudicator, one confirmed result, one request.   *)
EffectsFollowContract == Contract!Spec
===============================================================================
