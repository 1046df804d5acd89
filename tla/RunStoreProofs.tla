---------------------------- MODULE RunStoreProofs ----------------------------
(* Theorems about RunStore, for every set of runs, owners, keys, requests, *)
(* every lease length and clock readings of any age.                       *)
EXTENDS RunStore, SequenceTheorems, FiniteSetTheorems, TLAPS

(* The inductive invariant.  The typing is what the arithmetic needs; that *)
(* a held run names its holder ties a caller's lease to the row; the order *)
(* of tokens is what keeps the two fencing properties from breaking one    *)
(* step later.                                                             *)
IInv == TypeOK /\ LeaseWellFormed /\ TokenOrder
Inv == IInv /\ OneHolderPerToken /\ FencedWrites

(* What every transaction that writes to run r under a token leaves true.  *)
Writes(r, fence) ==
  /\ \A s \in Runs \ {r} : /\ runs'[s] = runs[s]
                           /\ effects'[s] = effects[s]
                           /\ checkpoints'[s] = checkpoints[s]
                           /\ events'[s] = events[s]
  /\ runs'[r].fence_token = fence
  /\ \/ events'[r] = events[r]
     \/ \E e \in Event : e.fence = fence /\ events'[r] = Append(events[r], e)
  /\ \A k \in Keys :
       /\ effects'[r][k].fence_token \in {effects[r][k].fence_token, fence}
       /\ effects'[r][k].status = "UNKNOWN" => effects'[r][k].fence_token < fence

(* The row of run r names a holder exactly if somebody works on it.        *)
RowWellFormed(row) ==
  IF row.status \in Held
  THEN row.lease_owner \in Owners /\ row.lease_expires_at \in Nat
  ELSE row.lease_owner = None /\ row.lease_expires_at = None

(* What a transaction of the holder of run r does to the row's lease.      *)
KeepsHolder(r) ==
  /\ RowWellFormed(runs'[r])
  /\ runs'[r].status \in Held => runs'[r].lease_owner = runs[r].lease_owner
  /\ runs'[r].status # "ABSENT"
  /\ leases' = leases

-----------------------------------------------------------------------------
(* The two ways a transaction writes.                                      *)

(* A row of type Run, replaced under its revision, leaves the table well   *)
(* typed and the other rows alone.                                         *)
LEMMA UpdateRunType ==
  ASSUME TypeOK, NEW r \in Runs, NEW row \in Run, UpdateRun(r, row)
  PROVE  /\ runs' \in [Runs -> Run]
         /\ runs'[r] = [row EXCEPT !.revision = runs[r].revision + 1]
         /\ \A s \in Runs \ {r} : runs'[s] = runs[s]
<1> DEFINE n == runs[r].revision + 1
<1>1. n \in Nat
  BY DEF TypeOK, Run
<1> HIDE DEF n
<1>2. [row EXCEPT !.revision = n] \in Run
  BY <1>1 DEF Run
<1>3. runs' = [runs EXCEPT ![r] = [row EXCEPT !.revision = n]]
  BY DEF UpdateRun, n
<1> QED
  BY <1>2, <1>3 DEF TypeOK, n

(* append_event adds one well-typed event to the log of one run.           *)
LEMMA AppendEventType ==
  ASSUME TypeOK, NEW r \in Runs,
         NEW type \in EventType, NEW owner \in Owners \cup {None}, NEW fence \in Nat,
         NEW key \in Keys \cup {None},
         NEW to \in RunStatus \cup EffectStatus \cup {None},
         NEW stage \in Stages \cup {None},
         AppendEvent(r, type, owner, fence, key, to, stage)
  PROVE  /\ events' \in [Runs -> Seq(Event)]
         /\ events'[r] = Append(events[r],
              [type |-> type, owner |-> owner, fence |-> fence,
               key |-> key, to |-> to, stage |-> stage])
         /\ \A s \in Runs \ {r} : events'[s] = events[s]
<1> DEFINE e == [type |-> type, owner |-> owner, fence |-> fence,
                 key |-> key, to |-> to, stage |-> stage]
<1>1. e \in Event
  BY DEF Event
<1>2. events' = [events EXCEPT ![r] = Append(@, e)]
  BY DEF AppendEvent
<1> HIDE DEF e
<1>3. Append(events[r], e) \in Seq(Event)
  BY <1>1, AppendProperties DEF TypeOK
<1>4. events' \in [Runs -> Seq(Event)] /\ events'[r] = Append(events[r], e)
  BY <1>2, <1>3 DEF TypeOK
<1>5. \A s \in Runs \ {r} : events'[s] = events[s]
  BY <1>2 DEF TypeOK
<1> QED
  BY <1>4, <1>5 DEF e

(* A write to one operation leaves the ledger well typed and the other     *)
(* operations alone.                                                       *)
LEMMA UpdateEffectType ==
  ASSUME TypeOK, NEW r \in Runs, NEW k \in Keys, NEW effect \in Effect,
         UpdateEffect(r, k, effect)
  PROVE  /\ effects' \in [Runs -> [Keys -> Effect]]
         /\ effects'[r][k] = effect
         /\ \A s \in Runs, j \in Keys :
              s # r \/ j # k => effects'[s][j] = effects[s][j]
<1>1. effects' = [effects EXCEPT ![r][k] = effect]
  BY DEF UpdateEffect
<1>2. [effects[r] EXCEPT ![k] = effect] \in [Keys -> Effect]
  BY DEF TypeOK
<1>3. effects' = [effects EXCEPT ![r] = [effects[r] EXCEPT ![k] = effect]]
  BY <1>1
<1> QED
  BY <1>2, <1>3 DEF TypeOK

-----------------------------------------------------------------------------
(* What each action writes.                                                *)

(* A time an operation may have read is no later than the clock.           *)
LEMMA ClockReadsType ==
  ASSUME TypeOK, NEW now \in ClockReads
  PROVE  now \in Nat /\ now <= clock
  BY DEF TypeOK, ClockReads

(* A caller that _require_lease admits writes under the run's own token,   *)
(* and the run is one somebody works on.                                   *)
LEMMA Admitted ==
  ASSUME IInv, NEW l \in leases, NEW now \in Nat, HoldsLease(l, now)
  PROVE  /\ l.run \in Runs /\ l.owner \in Owners /\ l.fence \in Nat
         /\ runs[l.run] \in Run
         /\ runs[l.run].fence_token = l.fence
         /\ runs[l.run].lease_owner = l.owner
         /\ runs[l.run].status \in Held
         /\ runs[l.run].lease_expires_at \in Nat
         /\ runs[l.run].lease_expires_at > now
<1>1. l.run \in Runs /\ l.owner \in Owners /\ l.fence \in Nat
  BY DEF IInv, TypeOK, Lease
<1>2. runs[l.run].lease_owner # None
  BY <1>1, StoreAssumption DEF HoldsLease
<1> QED
  BY <1>1, <1>2 DEF HoldsLease, IInv, TypeOK, LeaseWellFormed

(* create_run leaves a PENDING row that nobody holds.                      *)
LEMMA CreateRunWrites ==
  ASSUME IInv, NEW r \in Runs, NEW now \in Nat, CreateRun(r, now)
  PROVE  /\ TypeOK'
         /\ Writes(r, runs[r].fence_token)
         /\ runs[r].status = "ABSENT" /\ runs'[r].status = "PENDING"
         /\ runs'[r].lease_owner = runs[r].lease_owner
         /\ runs'[r].lease_expires_at = runs[r].lease_expires_at
         /\ leases' = leases
<1> DEFINE row == [runs[r] EXCEPT !.status = "PENDING", !.stage = "queued",
                                  !.created_at = now]
<1>1. runs[r] \in Run /\ runs[r].status = "ABSENT" /\ runs[r].fence_token = 0
  BY DEF CreateRun, IInv, TypeOK, TokenOrder
<1>2. row \in Run
  BY <1>1, StoreAssumption DEF Run, RunStatus
<1>3. /\ row.status = "PENDING"
      /\ row.fence_token = 0
      /\ row.lease_owner = runs[r].lease_owner
      /\ row.lease_expires_at = runs[r].lease_expires_at
  BY <1>1 DEF Run
<1>4. runs' = [runs EXCEPT ![r] = row]
  BY DEF CreateRun
<1> HIDE DEF row
<1>5. runs' \in [Runs -> Run] /\ runs'[r] = row /\ \A s \in Runs \ {r} : runs'[s] = runs[s]
  BY <1>2, <1>4 DEF IInv, TypeOK
<1>6. /\ events' \in [Runs -> Seq(Event)]
      /\ events'[r] = Append(events[r],
           [type |-> "RUN_CREATED", owner |-> None, fence |-> 0, key |-> None,
            to |-> None, stage |-> "queued"])
      /\ \A s \in Runs \ {r} : events'[s] = events[s]
  BY AppendEventType, StoreAssumption DEF CreateRun, IInv, EventType
<1>7. [type |-> "RUN_CREATED", owner |-> None, fence |-> 0, key |-> None,
       to |-> None, stage |-> "queued"] \in Event
  BY StoreAssumption DEF Event, EventType
<1>8. UNCHANGED <<effects, checkpoints, leases, clock>>
  BY DEF CreateRun
<1>9. TypeOK'
  BY <1>5, <1>6, <1>8 DEF IInv, TypeOK
<1>10. Writes(r, runs[r].fence_token)
  BY <1>1, <1>3, <1>5, <1>6, <1>7, <1>8 DEF Writes, IInv, TokenOrder
<1> QED
  BY <1>1, <1>3, <1>5, <1>8, <1>9, <1>10

(* A claim writes under the next token, and the row then names the         *)
(* claimer.                                                                *)
LEMMA GrantWrites ==
  ASSUME IInv, NEW r \in Runs, NEW owner \in Owners, NEW now \in Nat,
         Grant(r, owner, now)
  PROVE  /\ TypeOK'
         /\ Writes(r, runs[r].fence_token + 1)
         /\ runs'[r].status = "RUNNING"
         /\ runs'[r].lease_owner = owner
         /\ runs'[r].lease_expires_at \in Nat
         /\ leases' = leases \cup
              {[run |-> r, owner |-> owner, fence |-> runs[r].fence_token + 1]}
         /\ effects' = effects
<1> DEFINE fence == runs[r].fence_token + 1
           row == [runs[r] EXCEPT !.status = "RUNNING",
                                  !.lease_owner = owner,
                                  !.lease_expires_at = now + LeaseTicks,
                                  !.fence_token = runs[r].fence_token + 1,
                                  !.attempt = @ + 1]
           type == IF runs[r].status = "RUNNING" THEN "LEASE_RECOVERED"
                                                 ELSE "RUN_CLAIMED"
           e == [type |-> type, owner |-> owner, fence |-> fence,
                 key |-> None, to |-> None, stage |-> None]
<1>1. /\ runs[r] \in Run
      /\ fence \in Nat
      /\ runs[r].attempt + 1 \in Nat
      /\ now + LeaseTicks \in Nat
  BY StoreAssumption DEF IInv, TypeOK, Run
<1>2. row \in Run
  BY <1>1 DEF Run, RunStatus, Held
<1>3. UpdateRun(r, row)
  BY DEF Grant, NextToken
<1>4. /\ runs' \in [Runs -> Run]
      /\ runs'[r] = [row EXCEPT !.revision = runs[r].revision + 1]
      /\ \A s \in Runs \ {r} : runs'[s] = runs[s]
  BY <1>2, <1>3, UpdateRunType DEF IInv
<1>5. /\ row.status = "RUNNING" /\ row.lease_owner = owner
      /\ row.lease_expires_at = now + LeaseTicks /\ row.fence_token = fence
  BY <1>1 DEF Run
<1>6. /\ runs'[r].status = "RUNNING" /\ runs'[r].lease_owner = owner
      /\ runs'[r].lease_expires_at = now + LeaseTicks /\ runs'[r].fence_token = fence
  <2> HIDE DEF row, fence
  <2> QED
    BY <1>2, <1>4, <1>5 DEF Run
<1>7. AppendEvent(r, type, owner, fence, None, None, None)
  BY DEF Grant, NextToken
<1>8. e \in Event /\ type \in EventType
  BY <1>1 DEF Event, EventType
<1> HIDE DEF fence, row, type
<1>9. /\ events' \in [Runs -> Seq(Event)]
      /\ events'[r] = Append(events[r], e)
      /\ \A s \in Runs \ {r} : events'[s] = events[s]
  BY <1>1, <1>7, <1>8, AppendEventType DEF IInv
<1>10. leases' = leases \cup {[run |-> r, owner |-> owner, fence |-> fence]}
       /\ UNCHANGED <<effects, checkpoints, clock>>
  BY DEF Grant, NextToken, fence
<1>11. leases' \in SUBSET Lease
  BY <1>1, <1>10 DEF IInv, TypeOK, Lease
<1>12. TypeOK'
  BY <1>4, <1>9, <1>10, <1>11 DEF IInv, TypeOK
<1>13. Writes(r, fence)
  <2>1. \A k \in Keys :
          /\ effects[r][k].fence_token \in Nat
          /\ effects[r][k].fence_token <= runs[r].fence_token
    BY DEF IInv, TypeOK, TokenOrder, Effect
  <2>2. \A k \in Keys : effects[r][k].fence_token < fence
    BY <1>1, <2>1 DEF fence, Run
  <2> QED
    BY <1>4, <1>6, <1>8, <1>9, <1>10, <2>2 DEF Writes
<1> QED
  BY <1>1, <1>6, <1>10, <1>12, <1>13 DEF fence

(* renew_lease writes under its caller's token and keeps the holder.       *)
LEMMA RenewLeaseWrites ==
  ASSUME IInv, NEW l \in leases, NEW now \in Nat, RenewLease(l, now)
  PROVE  TypeOK' /\ Writes(l.run, l.fence) /\ KeepsHolder(l.run) /\ effects' = effects
<1> DEFINE r == l.run
           row == [runs[r] EXCEPT !.lease_expires_at = now + LeaseTicks]
           e == [type |-> "LEASE_RENEWED", owner |-> l.owner, fence |-> l.fence,
                 key |-> None, to |-> None, stage |-> None]
<1>1. /\ r \in Runs /\ l.owner \in Owners /\ l.fence \in Nat
      /\ runs[r] \in Run /\ runs[r].fence_token = l.fence
      /\ runs[r].lease_owner = l.owner /\ runs[r].status \in Held
  BY Admitted DEF RenewLease
<1>2. now + LeaseTicks \in Nat
  BY StoreAssumption
<1>3. row \in Run
  BY <1>1, <1>2 DEF Run
<1>4. /\ row.status = runs[r].status /\ row.lease_owner = l.owner
      /\ row.lease_expires_at = now + LeaseTicks /\ row.fence_token = l.fence
  BY <1>1 DEF Run
<1>5. UpdateRun(r, row)
  BY DEF RenewLease
<1>6. e \in Event
  BY <1>1 DEF Event, EventType
<1>7. AppendEvent(r, "LEASE_RENEWED", l.owner, l.fence, None, None, None)
  BY DEF RenewLease
<1>8. UNCHANGED <<effects, checkpoints, leases, clock>>
  BY DEF RenewLease
<1> HIDE DEF row, r
<1>9. /\ runs' \in [Runs -> Run]
      /\ runs'[r] = [row EXCEPT !.revision = runs[r].revision + 1]
      /\ \A s \in Runs \ {r} : runs'[s] = runs[s]
  BY <1>1, <1>3, <1>5, UpdateRunType DEF IInv
<1>10. /\ runs'[r].status = runs[r].status /\ runs'[r].lease_owner = l.owner
       /\ runs'[r].lease_expires_at = now + LeaseTicks /\ runs'[r].fence_token = l.fence
  BY <1>3, <1>4, <1>9 DEF Run
<1>11. /\ events' \in [Runs -> Seq(Event)]
       /\ events'[r] = Append(events[r], e)
       /\ \A s \in Runs \ {r} : events'[s] = events[s]
  BY <1>1, <1>7, AppendEventType DEF IInv, EventType
<1>12. TypeOK'
  BY <1>8, <1>9, <1>11 DEF IInv, TypeOK
<1>13. Writes(r, l.fence)
  BY <1>1, <1>6, <1>8, <1>9, <1>10, <1>11 DEF Writes, IInv, TokenOrder
<1>14. KeepsHolder(r)
  BY <1>1, <1>2, <1>8, <1>10 DEF KeepsHolder, RowWellFormed, Held
<1> QED
  BY <1>8, <1>12, <1>13, <1>14 DEF r

(* transition writes under its caller's token; afterwards the row names a  *)
(* holder exactly if the run has not ended.                                *)
LEMMA TransitionWrites ==
  ASSUME IInv, NEW l \in leases, NEW now \in Nat, NEW target \in RunStatus,
         NEW stage \in Stages \cup {None}, NEW result \in Evidence \cup {None},
         NEW error \in Errors \cup {None},
         Transition(l, target, stage, result, error, now)
  PROVE  TypeOK' /\ Writes(l.run, l.fence) /\ KeepsHolder(l.run) /\ effects' = effects
<1> DEFINE r == l.run
           released == Released(runs[r], target)
           next_stage == IF stage = None THEN runs[r].stage ELSE stage
           next_result == IF result = None THEN released.result ELSE result
           row == [released EXCEPT !.status = target, !.stage = next_stage,
                                   !.result = next_result, !.last_error = error]
           e == [type |-> "RUN_TRANSITIONED", owner |-> l.owner, fence |-> l.fence,
                 key |-> None, to |-> target, stage |-> next_stage]
<1>1. /\ r \in Runs /\ l.owner \in Owners /\ l.fence \in Nat
      /\ runs[r] \in Run /\ runs[r].fence_token = l.fence
      /\ runs[r].lease_owner = l.owner /\ runs[r].status \in Held
      /\ runs[r].lease_expires_at \in Nat
  BY Admitted DEF Transition
<1>2. target \in ALLOWED_TRANSITIONS[runs[r].status]
  BY DEF Transition
<1>3. target \in Held \cup Terminal
  BY <1>1, <1>2 DEF Held, Terminal, ALLOWED_TRANSITIONS
<1>4. /\ released \in Run /\ released.fence_token = l.fence
      /\ target \in Terminal => /\ released.lease_owner = None
                                /\ released.lease_expires_at = None
      /\ target \notin Terminal => released = runs[r]
  BY <1>1 DEF Released, Run
<1>5. next_stage \in Stages \cup {None} /\ next_result \in Evidence \cup {None}
  BY <1>1, <1>4 DEF Run
<1>6. UpdateRun(r, row)
  BY DEF Transition
<1>7. AppendEvent(r, "RUN_TRANSITIONED", l.owner, l.fence, None, target, next_stage)
  BY DEF Transition
<1>8. UNCHANGED <<effects, checkpoints, leases, clock>>
  BY DEF Transition
<1> HIDE DEF released, next_stage, next_result
<1>9. row \in Run
  BY <1>4, <1>5 DEF Run
<1>10. /\ row.status = target /\ row.lease_owner = released.lease_owner
       /\ row.lease_expires_at = released.lease_expires_at /\ row.fence_token = l.fence
  BY <1>4 DEF Run
<1>11. e \in Event
  BY <1>1, <1>5 DEF Event, EventType
<1> HIDE DEF row, r
<1>12. /\ runs' \in [Runs -> Run]
       /\ runs'[r] = [row EXCEPT !.revision = runs[r].revision + 1]
       /\ \A s \in Runs \ {r} : runs'[s] = runs[s]
  BY <1>1, <1>6, <1>9, UpdateRunType DEF IInv
<1>13. /\ runs'[r].status = target /\ runs'[r].lease_owner = released.lease_owner
       /\ runs'[r].lease_expires_at = released.lease_expires_at
       /\ runs'[r].fence_token = l.fence
  BY <1>9, <1>10, <1>12 DEF Run
<1>14. /\ events' \in [Runs -> Seq(Event)]
       /\ events'[r] = Append(events[r], e)
       /\ \A s \in Runs \ {r} : events'[s] = events[s]
  BY <1>1, <1>5, <1>7, AppendEventType DEF IInv, EventType
<1>15. TypeOK'
  BY <1>8, <1>12, <1>14 DEF IInv, TypeOK
<1>16. Writes(r, l.fence)
  BY <1>1, <1>8, <1>11, <1>12, <1>13, <1>14 DEF Writes, IInv, TokenOrder
<1>17. Held \cap Terminal = {} /\ "ABSENT" \notin Held \cup Terminal
  BY DEF Held, Terminal
<1>18. KeepsHolder(r)
  BY <1>1, <1>3, <1>4, <1>8, <1>13, <1>17 DEF KeepsHolder, RowWellFormed
<1> QED
  BY <1>8, <1>15, <1>16, <1>18 DEF r

(* advance_stage writes under its caller's token and keeps the holder.     *)
LEMMA AdvanceStageWrites ==
  ASSUME IInv, NEW l \in leases, NEW now \in Nat, NEW stage \in Stages,
         AdvanceStage(l, stage, now)
  PROVE  TypeOK' /\ Writes(l.run, l.fence) /\ KeepsHolder(l.run) /\ effects' = effects
<1> DEFINE r == l.run
           row == [runs[r] EXCEPT !.stage = stage]
           e == [type |-> "STAGE_STARTED", owner |-> l.owner, fence |-> l.fence,
                 key |-> None, to |-> None, stage |-> stage]
<1>1. /\ r \in Runs /\ l.owner \in Owners /\ l.fence \in Nat
      /\ runs[r] \in Run /\ runs[r].fence_token = l.fence
      /\ runs[r].lease_owner = l.owner /\ runs[r].status \in Held
      /\ runs[r].lease_expires_at \in Nat
  BY Admitted DEF AdvanceStage
<1>2. row \in Run
  BY <1>1 DEF Run
<1>3. /\ row.status = runs[r].status /\ row.lease_owner = l.owner
      /\ row.lease_expires_at = runs[r].lease_expires_at /\ row.fence_token = l.fence
  BY <1>1 DEF Run
<1>4. UpdateRun(r, row)
  BY DEF AdvanceStage
<1>5. e \in Event
  BY <1>1 DEF Event, EventType
<1>6. AppendEvent(r, "STAGE_STARTED", l.owner, l.fence, None, None, stage)
  BY DEF AdvanceStage
<1>7. UNCHANGED <<effects, checkpoints, leases, clock>>
  BY DEF AdvanceStage
<1> HIDE DEF row, r
<1>8. /\ runs' \in [Runs -> Run]
      /\ runs'[r] = [row EXCEPT !.revision = runs[r].revision + 1]
      /\ \A s \in Runs \ {r} : runs'[s] = runs[s]
  BY <1>1, <1>2, <1>4, UpdateRunType DEF IInv
<1>9. /\ runs'[r].status = runs[r].status /\ runs'[r].lease_owner = l.owner
      /\ runs'[r].lease_expires_at = runs[r].lease_expires_at
      /\ runs'[r].fence_token = l.fence
  BY <1>2, <1>3, <1>8 DEF Run
<1>10. /\ events' \in [Runs -> Seq(Event)]
       /\ events'[r] = Append(events[r], e)
       /\ \A s \in Runs \ {r} : events'[s] = events[s]
  BY <1>1, <1>6, AppendEventType DEF IInv, EventType
<1>11. TypeOK'
  BY <1>7, <1>8, <1>10 DEF IInv, TypeOK
<1>12. Writes(r, l.fence)
  BY <1>1, <1>5, <1>7, <1>8, <1>9, <1>10 DEF Writes, IInv, TokenOrder
<1>13. KeepsHolder(r)
  BY <1>1, <1>7, <1>9 DEF KeepsHolder, RowWellFormed, Held
<1> QED
  BY <1>7, <1>11, <1>12, <1>13 DEF r

(* record_checkpoint writes under its caller's token and keeps the holder. *)
LEMMA RecordCheckpointWrites ==
  ASSUME IInv, NEW l \in leases, NEW now \in Nat, NEW stage \in Stages,
         NEW evidence \in Evidence, RecordCheckpoint(l, stage, evidence, now)
  PROVE  TypeOK' /\ Writes(l.run, l.fence) /\ KeepsHolder(l.run) /\ effects' = effects
<1> DEFINE r == l.run
           c == [stage |-> stage, evidence |-> evidence]
           e == [type |-> "CHECKPOINT_RECORDED", owner |-> l.owner, fence |-> l.fence,
                 key |-> None, to |-> None, stage |-> None]
<1>1. /\ r \in Runs /\ l.owner \in Owners /\ l.fence \in Nat
      /\ runs[r] \in Run /\ runs[r].fence_token = l.fence
      /\ runs[r].lease_owner = l.owner /\ runs[r].status \in Held
      /\ runs[r].lease_expires_at \in Nat
  BY Admitted DEF RecordCheckpoint
<1>2. c \in Checkpoint /\ e \in Event
  BY <1>1 DEF Checkpoint, Event, EventType
<1>3. AppendEvent(r, "CHECKPOINT_RECORDED", l.owner, l.fence, None, None, None)
  BY DEF RecordCheckpoint
<1>4. /\ checkpoints' = [checkpoints EXCEPT ![r] = Append(@, c)]
      /\ UNCHANGED <<runs, effects, leases, clock>>
  BY DEF RecordCheckpoint
<1> HIDE DEF c, r
<1>5. Append(checkpoints[r], c) \in Seq(Checkpoint)
  BY <1>1, <1>2, AppendProperties DEF IInv, TypeOK
<1>6. /\ checkpoints' \in [Runs -> Seq(Checkpoint)]
      /\ \A s \in Runs \ {r} : checkpoints'[s] = checkpoints[s]
  BY <1>4, <1>5 DEF IInv, TypeOK
<1>7. /\ events' \in [Runs -> Seq(Event)]
      /\ events'[r] = Append(events[r], e)
      /\ \A s \in Runs \ {r} : events'[s] = events[s]
  BY <1>1, <1>3, AppendEventType DEF IInv, EventType
<1>8. TypeOK'
  BY <1>4, <1>6, <1>7 DEF IInv, TypeOK
<1>9. Writes(r, l.fence)
  BY <1>1, <1>2, <1>4, <1>6, <1>7 DEF Writes, IInv, TokenOrder
<1>10. KeepsHolder(r)
  BY <1>1, <1>4 DEF KeepsHolder, RowWellFormed, Held
<1> QED
  BY <1>4, <1>8, <1>9, <1>10 DEF r

-----------------------------------------------------------------------------
(* The ledger: what any write to one operation under a held lease does.    *)

(* One operation of the ledger is written, with or without an event, under *)
(* the caller's token; the abstract ledger sees one slot change.           *)
LEMMA LedgerWrites ==
  ASSUME IInv, NEW l \in leases, NEW now \in Nat, HoldsLease(l, now),
         NEW k \in Keys, NEW effect \in Effect,
         effect.fence_token \in {effects[l.run][k].fence_token, l.fence},
         effect.status = "UNKNOWN" => effect.fence_token < l.fence,
         UpdateEffect(l.run, k, effect),
         NEW type \in EventType, NEW to \in EffectStatus,
         \/ UNCHANGED events
         \/ AppendEvent(l.run, type, l.owner, l.fence, k, to, None),
         UNCHANGED <<runs, checkpoints, leases, clock>>
  PROVE  /\ TypeOK' /\ Writes(l.run, l.fence) /\ KeepsHolder(l.run)
         /\ Slots' = [Slots EXCEPT ![l.run][k] = SlotOf(effect)]
         /\ Epochs' = Epochs
<1> DEFINE r == l.run
           e == [type |-> type, owner |-> l.owner, fence |-> l.fence,
                 key |-> k, to |-> to, stage |-> None]
<1>1. /\ r \in Runs /\ l.owner \in Owners /\ l.fence \in Nat
      /\ runs[r] \in Run /\ runs[r].fence_token = l.fence
      /\ runs[r].lease_owner = l.owner /\ runs[r].status \in Held
      /\ runs[r].lease_expires_at \in Nat
  BY Admitted
<1>2. e \in Event
  BY <1>1 DEF Event
<1> HIDE DEF r
<1>3. /\ effects' \in [Runs -> [Keys -> Effect]]
      /\ effects'[r][k] = effect
      /\ \A s \in Runs, j \in Keys :
           s # r \/ j # k => effects'[s][j] = effects[s][j]
  BY <1>1, UpdateEffectType DEF IInv, r
<1>4. \A s \in Runs \ {r} : effects'[s] = effects[s]
  BY <1>3 DEF IInv, TypeOK
<1>5. /\ events' \in [Runs -> Seq(Event)]
      /\ events'[r] = events[r] \/ events'[r] = Append(events[r], e)
      /\ \A s \in Runs \ {r} : events'[s] = events[s]
  <2>1. CASE UNCHANGED events
    BY <2>1 DEF IInv, TypeOK
  <2>2. CASE AppendEvent(r, type, l.owner, l.fence, k, to, None)
    BY <1>1, <2>2, AppendEventType DEF IInv
  <2> QED
    BY <2>1, <2>2 DEF r
<1>6. TypeOK'
  BY <1>3, <1>5 DEF IInv, TypeOK
<1>7. Writes(r, l.fence)
  <2>1. \A j \in Keys :
          /\ effects'[r][j].fence_token \in {effects[r][j].fence_token, l.fence}
          /\ effects'[r][j].status = "UNKNOWN" => effects'[r][j].fence_token < l.fence
    BY <1>1, <1>3 DEF r, IInv, TokenOrder
  <2> QED
    BY <1>1, <1>2, <1>4, <1>5, <2>1 DEF Writes
<1>8. KeepsHolder(r)
  BY <1>1 DEF KeepsHolder, RowWellFormed, Held
<1>9. Slots' = [Slots EXCEPT ![r][k] = SlotOf(effect)]
  <2>1. Slots' = [s \in Runs |-> [j \in Keys |-> SlotOf(effects'[s][j])]]
    BY DEF Slots, SlotOf, Phase
  <2>2. \A s \in Runs : [j \in Keys |-> SlotOf(effects'[s][j])] =
          IF s = r THEN [Slots[r] EXCEPT ![k] = SlotOf(effect)] ELSE Slots[s]
    BY <1>1, <1>3 DEF Slots
  <2>3. Slots' = [s \in Runs |-> IF s = r THEN [Slots[r] EXCEPT ![k] = SlotOf(effect)]
                                         ELSE Slots[s]]
    BY <2>1, <2>2
  <2> QED
    BY <2>3 DEF Slots
<1>10. Epochs' = Epochs
  BY DEF Epochs
<1> QED
  BY <1>6, <1>7, <1>8, <1>9, <1>10 DEF r

(* The abstract slot of an operation, field by field.                      *)
LEMMA SlotFields ==
  ASSUME TypeOK, NEW r \in Runs, NEW k \in Keys
  PROVE  /\ Slots[r][k].phase = Phase[effects[r][k].status]
         /\ Slots[r][k].request = effects[r][k].request
         /\ Slots[r][k].executor = effects[r][k].fence_token
         /\ Epochs[r] = runs[r].fence_token
  BY DEF Slots, Epochs, SlotOf

(* Each write of begin_effect is a Start or a Doubt of the contract.       *)
LEMMA BeginEffectWrites ==
  ASSUME IInv, NEW l \in leases, NEW now \in Nat, NEW k \in Keys,
         NEW request \in Requests, BeginEffect(l, k, request, now)
  PROVE  /\ TypeOK' /\ Writes(l.run, l.fence) /\ KeepsHolder(l.run)
         /\ Contract!Start(l.run, k, request) \/ Contract!Doubt(l.run, k)
<1> DEFINE r == l.run
           old == effects[r][k]
<1>1. /\ r \in Runs /\ l.fence \in Nat /\ runs[r].fence_token = l.fence
      /\ HoldsLease(l, now) /\ TypeOK
  BY Admitted DEF BeginEffect, IInv
<1>2. old \in Effect /\ old.fence_token <= runs[r].fence_token
  BY <1>1 DEF IInv, TypeOK, TokenOrder
<1>3. UNCHANGED <<runs, checkpoints, leases, clock>>
  BY DEF BeginEffect
<1>4. /\ Slots[r][k].phase = Phase[old.status]
      /\ Slots[r][k].request = old.request
      /\ Slots[r][k].executor = old.fence_token
      /\ Epochs[r] = l.fence
  BY <1>1, SlotFields
<1>5. CASE EffectStarts(l, k, request)
  <2> DEFINE effect == [status |-> "STARTED", request |-> request,
                        fence_token |-> l.fence, result |-> None]
  <2>1. effect \in Effect /\ effect.fence_token = l.fence /\ effect.status = "STARTED"
    BY <1>1 DEF Effect, EffectStatus
  <2>2. UpdateEffect(l.run, k, effect)
    BY <1>5 DEF EffectStarts
  <2>3. AppendEvent(l.run, "EFFECT_STARTED", l.owner, l.fence, k, "STARTED", None)
    BY <1>5 DEF EffectStarts
  <2>4. SlotOf(effect) = [phase |-> "open", request |-> request,
                          executor |-> l.fence, result |-> None]
    BY DEF SlotOf, Phase
  <2>5. Slots[r][k].phase = "idle"
    BY <1>4, <1>5 DEF EffectStarts, Phase
  <2> HIDE DEF effect
  <2>6. /\ TypeOK' /\ Writes(l.run, l.fence) /\ KeepsHolder(l.run)
        /\ Slots' = [Slots EXCEPT ![l.run][k] = SlotOf(effect)]
        /\ Epochs' = Epochs
    BY <1>1, <1>3, <2>1, <2>2, <2>3, LedgerWrites DEF EventType, EffectStatus
  <2> QED
    BY <1>4, <2>4, <2>5, <2>6 DEF Contract!Start, Contract!Becomes
<1>6. CASE EffectRestarts(l, k, request)
  <2> DEFINE effect == [old EXCEPT !.status = "STARTED", !.fence_token = l.fence]
  <2>1. old.status = "FAILED" /\ old.request = request
    BY <1>6 DEF EffectRestarts, SameRequest
  <2>2. /\ effect \in Effect /\ effect.fence_token = l.fence
        /\ effect.status = "STARTED" /\ effect.request = request
    BY <1>1, <1>2, <2>1 DEF Effect, EffectStatus
  <2>3. UpdateEffect(l.run, k, effect) /\ UNCHANGED events
    BY <1>6 DEF EffectRestarts
  <2> HIDE DEF effect
  <2>4. SlotOf(effect) = [phase |-> "open", request |-> request,
                          executor |-> l.fence, result |-> None]
    BY <2>2 DEF SlotOf, Phase
  <2>5. Slots[r][k].phase = "void" /\ Slots[r][k].request = request
    BY <1>4, <2>1 DEF Phase
  <2>6. /\ TypeOK' /\ Writes(l.run, l.fence) /\ KeepsHolder(l.run)
        /\ Slots' = [Slots EXCEPT ![l.run][k] = SlotOf(effect)]
        /\ Epochs' = Epochs
    BY <1>1, <1>3, <2>2, <2>3, LedgerWrites DEF EventType, EffectStatus
  <2> QED
    BY <1>4, <2>4, <2>5, <2>6 DEF Contract!Start, Contract!Becomes
<1>7. CASE EffectBecomesUnknown(l, k, request)
  <2> DEFINE effect == [old EXCEPT !.status = "UNKNOWN"]
  <2>1. old.status = "STARTED" /\ old.fence_token # l.fence
    BY <1>7 DEF EffectBecomesUnknown
  <2>2. /\ effect \in Effect /\ effect.fence_token = old.fence_token
        /\ effect.status = "UNKNOWN" /\ effect.request = old.request
    BY <1>2 DEF Effect, EffectStatus
  <2>3. /\ UpdateEffect(l.run, k, effect)
        /\ AppendEvent(l.run, "EFFECT_BECAME_UNKNOWN", l.owner, l.fence, k,
                       "UNKNOWN", None)
    BY <1>7 DEF EffectBecomesUnknown
  <2> HIDE DEF effect
  <2>4. SlotOf(effect) = [phase |-> "doubt", request |-> old.request,
                          executor |-> old.fence_token, result |-> None]
    BY <2>2 DEF SlotOf, Phase
  <2>5. Slots[r][k].phase = "open" /\ Slots[r][k].executor < Epochs[r]
    BY <1>1, <1>2, <1>4, <2>1 DEF Phase, Effect
  <2>7. effect.fence_token < l.fence
    BY <1>4, <2>2, <2>5
  <2>6. /\ TypeOK' /\ Writes(l.run, l.fence) /\ KeepsHolder(l.run)
        /\ Slots' = [Slots EXCEPT ![l.run][k] = SlotOf(effect)]
        /\ Epochs' = Epochs
    BY <1>1, <1>3, <2>2, <2>3, <2>7, LedgerWrites DEF EventType, EffectStatus
  <2> QED
    BY <1>4, <2>4, <2>5, <2>6 DEF Contract!Doubt, Contract!Becomes
<1> QED
  BY <1>5, <1>6, <1>7 DEF BeginEffect

(* finish_effect is the executor's Confirm.                                *)
LEMMA FinishEffectWrites ==
  ASSUME IInv, NEW l \in leases, NEW now \in Nat, NEW k \in Keys,
         NEW succeeded \in BOOLEAN, NEW result \in Evidence \cup {None},
         FinishEffect(l, k, succeeded, result, now)
  PROVE  /\ TypeOK' /\ Writes(l.run, l.fence) /\ KeepsHolder(l.run)
         /\ \E phase \in {"done", "void"}, outcome \in Evidence \cup {None} :
              /\ Contract!Outcome(phase, outcome)
              /\ Contract!Confirm(l.run, k, phase, outcome)
<1> DEFINE r == l.run
           old == effects[r][k]
           status == Verdict(succeeded)
           effect == [old EXCEPT !.status = status, !.result = result]
           phase == IF succeeded THEN "done" ELSE "void"
           outcome == IF succeeded THEN result ELSE None
<1>1. /\ r \in Runs /\ l.fence \in Nat /\ runs[r].fence_token = l.fence
      /\ HoldsLease(l, now) /\ TypeOK
  BY Admitted DEF FinishEffect, IInv
<1>2. old \in Effect /\ old.status = "STARTED" /\ old.fence_token = l.fence
  BY <1>1 DEF FinishEffect, TypeOK
<1>3. status \in {"SUCCEEDED", "FAILED"} /\ (status = "SUCCEEDED" <=> succeeded)
  BY DEF Verdict
<1>4. UNCHANGED <<runs, checkpoints, leases, clock>>
  BY DEF FinishEffect
<1>5. /\ UpdateEffect(l.run, k, effect)
      /\ AppendEvent(l.run, "EFFECT_FINISHED", l.owner, l.fence, k, status, None)
  BY DEF FinishEffect
<1> HIDE DEF status
<1>6. /\ effect \in Effect /\ effect.fence_token = l.fence
      /\ effect.status = status /\ effect.request = old.request
      /\ effect.result = result
  BY <1>2, <1>3 DEF Effect, EffectStatus
<1> HIDE DEF effect
<1>7. SlotOf(effect) = [phase |-> phase, request |-> old.request,
                        executor |-> l.fence, result |-> outcome]
  BY <1>3, <1>6 DEF SlotOf, Phase
<1>8. /\ Slots[r][k].phase = "open" /\ Slots[r][k].request = old.request
      /\ Slots[r][k].executor = Epochs[r] /\ Epochs[r] = l.fence
  BY <1>1, <1>2, SlotFields DEF Phase
<1>9. /\ TypeOK' /\ Writes(l.run, l.fence) /\ KeepsHolder(l.run)
      /\ Slots' = [Slots EXCEPT ![l.run][k] = SlotOf(effect)]
      /\ Epochs' = Epochs
  BY <1>1, <1>3, <1>4, <1>5, <1>6, LedgerWrites DEF EventType, EffectStatus
<1>10. phase \in {"done", "void"} /\ outcome \in Evidence \cup {None}
  OBVIOUS
<1>11. Contract!Outcome(phase, outcome)
  BY DEF Contract!Outcome
<1>12. Contract!Confirm(r, k, phase, outcome)
  BY <1>7, <1>8, <1>9 DEF Contract!Confirm, Contract!Becomes
<1> QED
  BY <1>9, <1>10, <1>11, <1>12

(* reconcile_effect is the Adjudicate of an epoch after the executor's.    *)
LEMMA ReconcileEffectWrites ==
  ASSUME IInv, NEW l \in leases, NEW now \in Nat, NEW k \in Keys,
         NEW succeeded \in BOOLEAN, NEW evidence \in Evidence,
         ReconcileEffect(l, k, succeeded, evidence, now)
  PROVE  /\ TypeOK' /\ Writes(l.run, l.fence) /\ KeepsHolder(l.run)
         /\ \E phase \in {"done", "void"}, outcome \in Evidence \cup {None} :
              /\ Contract!Outcome(phase, outcome)
              /\ Contract!Adjudicate(l.run, k, phase, outcome)
<1> DEFINE r == l.run
           old == effects[r][k]
           status == Verdict(succeeded)
           outcome == IF succeeded THEN evidence ELSE None
           effect == [old EXCEPT !.status = status, !.result = outcome,
                                 !.fence_token = l.fence]
           phase == IF succeeded THEN "done" ELSE "void"
<1>1. /\ r \in Runs /\ l.fence \in Nat /\ runs[r].fence_token = l.fence
      /\ HoldsLease(l, now) /\ TypeOK
  BY Admitted DEF ReconcileEffect, IInv
<1>2. /\ old \in Effect /\ old.status = "UNKNOWN"
      /\ old.fence_token < runs[r].fence_token
  BY <1>1 DEF ReconcileEffect, TypeOK, IInv, TokenOrder
<1>3. status \in {"SUCCEEDED", "FAILED"} /\ (status = "SUCCEEDED" <=> succeeded)
  BY DEF Verdict
<1>4. UNCHANGED <<runs, checkpoints, leases, clock>>
  BY DEF ReconcileEffect
<1>5. /\ UpdateEffect(l.run, k, effect)
      /\ AppendEvent(l.run, "EFFECT_RECONCILED", l.owner, l.fence, k, status, None)
  BY DEF ReconcileEffect
<1> HIDE DEF status
<1>6. /\ effect \in Effect /\ effect.fence_token = l.fence
      /\ effect.status = status /\ effect.request = old.request
      /\ effect.result = outcome
  BY <1>1, <1>2, <1>3 DEF Effect, EffectStatus
<1> HIDE DEF effect
<1>7. SlotOf(effect) = [phase |-> phase, request |-> old.request,
                        executor |-> l.fence, result |-> outcome]
  BY <1>3, <1>6 DEF SlotOf, Phase
<1>8. /\ Slots[r][k].phase = "doubt" /\ Slots[r][k].request = old.request
      /\ Slots[r][k].executor < Epochs[r] /\ Epochs[r] = l.fence
  BY <1>1, <1>2, SlotFields DEF Phase
<1>9. /\ TypeOK' /\ Writes(l.run, l.fence) /\ KeepsHolder(l.run)
      /\ Slots' = [Slots EXCEPT ![l.run][k] = SlotOf(effect)]
      /\ Epochs' = Epochs
  BY <1>1, <1>3, <1>4, <1>5, <1>6, LedgerWrites DEF EventType, EffectStatus
<1>10. phase \in {"done", "void"} /\ outcome \in Evidence \cup {None}
  OBVIOUS
<1>11. Contract!Outcome(phase, outcome)
  BY DEF Contract!Outcome
<1>12. Contract!Adjudicate(r, k, phase, outcome)
  BY <1>7, <1>8, <1>9 DEF Contract!Adjudicate, Contract!Becomes
<1> QED
  BY <1>9, <1>10, <1>11, <1>12

-----------------------------------------------------------------------------
(* Every step is one of five kinds.                                        *)

Created(r) ==
  /\ TypeOK' /\ Writes(r, runs[r].fence_token)
  /\ runs[r].status = "ABSENT" /\ runs'[r].status = "PENDING"
  /\ runs'[r].lease_owner = runs[r].lease_owner
  /\ runs'[r].lease_expires_at = runs[r].lease_expires_at
  /\ leases' = leases /\ effects' = effects

Granted(r, owner) ==
  /\ TypeOK' /\ Writes(r, runs[r].fence_token + 1)
  /\ runs[r].status \in {"PENDING", "RUNNING"}
  /\ runs[r].status = "RUNNING" => runs[r].lease_expires_at <= clock
  /\ runs'[r].status = "RUNNING"
  /\ runs'[r].lease_owner = owner
  /\ runs'[r].lease_expires_at \in Nat
  /\ leases' = leases \cup
       {[run |-> r, owner |-> owner, fence |-> runs[r].fence_token + 1]}
  /\ effects' = effects

Reentered(r) ==
  /\ TypeOK'
  /\ runs[r].status = "RUNNING"
  /\ leases' = leases \cup
       {[run |-> r, owner |-> runs[r].lease_owner, fence |-> runs[r].fence_token]}
  /\ UNCHANGED <<runs, effects, checkpoints, events, clock>>

(* A transaction of the holder, whose lease may have expired since it read *)
(* the clock.                                                              *)
HolderWrote(l) ==
  /\ TypeOK' /\ Writes(l.run, l.fence) /\ KeepsHolder(l.run)
  /\ l.run \in Runs /\ runs[l.run].fence_token = l.fence
  /\ runs[l.run].status \in Held
  /\ \/ effects' = effects
     \/ \E k \in Keys :
          \/ \E request \in Requests : Contract!Start(l.run, k, request)
          \/ Contract!Doubt(l.run, k)
          \/ \E phase \in {"done", "void"}, result \in Evidence \cup {None} :
               /\ Contract!Outcome(phase, result)
               /\ \/ Contract!Confirm(l.run, k, phase, result)
                  \/ Contract!Adjudicate(l.run, k, phase, result)

StoreUnchanged == TypeOK' /\ UNCHANGED <<runs, effects, checkpoints, events, leases>>

(* What create_run, claim_next and acquire_run can amount to.              *)
LEMMA ClaimKinds ==
  ASSUME IInv, ClaimStep
  PROVE  \E r \in Runs :
           Created(r) \/ Reentered(r) \/ \E owner \in Owners : Granted(r, owner)
<1>1. PICK r \in Runs, now \in ClockReads :
        \/ CreateRun(r, now)
        \/ \E owner \in Owners : \/ ClaimNext(r, owner, now)
                               \/ AcquireRun(r, owner, now)
                               \/ ReenterRun(r, owner, now)
  BY DEF ClaimStep
<1>2. now \in Nat /\ now <= clock /\ runs[r] \in Run
  BY ClockReadsType DEF IInv, TypeOK
<1>3. CASE CreateRun(r, now)
  BY <1>2, <1>3, CreateRunWrites DEF CreateRun, Created
<1>4. ASSUME NEW owner \in Owners, ClaimNext(r, owner, now) \/ AcquireRun(r, owner, now)
      PROVE  Granted(r, owner)
  <2>1. Grant(r, owner, now)
    BY <1>4 DEF ClaimNext, AcquireRun
  <2>2. /\ runs[r].status \in {"PENDING", "RUNNING"}
        /\ runs[r].status = "RUNNING" => runs[r].lease_expires_at <= now
    BY <1>4 DEF ClaimNext, AcquireRun, Claimable, Lapsed
  <2>3. runs[r].status = "RUNNING" => runs[r].lease_expires_at \in Nat
    BY DEF IInv, LeaseWellFormed, Held
  <2>4. runs[r].status = "RUNNING" => runs[r].lease_expires_at <= clock
    BY <1>2, <2>2, <2>3 DEF IInv, TypeOK
  <2> QED
    BY <1>2, <2>1, <2>2, <2>4, GrantWrites DEF Granted
<1>5. ASSUME NEW owner \in Owners, ReenterRun(r, owner, now)
      PROVE  Reentered(r)
  <2>1. /\ runs[r].status = "RUNNING" /\ runs[r].lease_owner = owner
        /\ leases' = leases \cup
             {[run |-> r, owner |-> owner, fence |-> runs[r].fence_token]}
        /\ UNCHANGED <<runs, effects, checkpoints, events, clock>>
    BY <1>5 DEF ReenterRun
  <2>2. leases' \in SUBSET Lease
    BY <1>2, <2>1 DEF IInv, TypeOK, Lease, Run
  <2>3. TypeOK'
    BY <2>1, <2>2 DEF IInv, TypeOK
  <2> QED
    BY <2>1, <2>3 DEF Reentered
<1> QED
  BY <1>1, <1>3, <1>4, <1>5

(* What the operations behind _require_lease can amount to.                *)
LEMMA HolderKinds ==
  ASSUME IInv, HolderStep \/ EffectStep
  PROVE  \E l \in leases : HolderWrote(l)
<1> DEFINE Admits(l) == /\ l.run \in Runs /\ runs[l.run].fence_token = l.fence
                        /\ runs[l.run].status \in Held
<1>1. ASSUME NEW l \in leases, NEW now \in ClockReads, HoldsLease(l, now)
      PROVE  Admits(l)
  <2>1. now \in Nat
    BY ClockReadsType DEF IInv
  <2> QED
    BY <1>1, <2>1, Admitted
<1>2. CASE HolderStep
  <2>1. PICK l \in leases, now \in ClockReads :
          \/ RenewLease(l, now)
          \/ \E target \in RunStatus, stage \in Stages \cup {None},
                result \in Evidence \cup {None}, error \in Errors \cup {None} :
               Transition(l, target, stage, result, error, now)
          \/ \E stage \in Stages : AdvanceStage(l, stage, now)
          \/ \E stage \in Stages, evidence \in Evidence :
               RecordCheckpoint(l, stage, evidence, now)
    BY <1>2 DEF HolderStep
  <2>2. now \in Nat
    BY ClockReadsType DEF IInv
  <2>3. HoldsLease(l, now)
    BY <2>1 DEF RenewLease, Transition, AdvanceStage, RecordCheckpoint
  <2>4. /\ TypeOK' /\ Writes(l.run, l.fence) /\ KeepsHolder(l.run)
        /\ effects' = effects
    BY <2>1, <2>2, RenewLeaseWrites, TransitionWrites, AdvanceStageWrites,
       RecordCheckpointWrites
  <2>5. Admits(l)
    BY <1>1, <2>3
  <2> QED
    BY <2>4, <2>5 DEF HolderWrote
<1>3. CASE EffectStep
  <2>1. PICK l \in leases, k \in Keys, now \in ClockReads :
          \/ \E request \in Requests : BeginEffect(l, k, request, now)
          \/ \E succeeded \in BOOLEAN, result \in Evidence \cup {None} :
               FinishEffect(l, k, succeeded, result, now)
          \/ \E succeeded \in BOOLEAN, evidence \in Evidence :
               ReconcileEffect(l, k, succeeded, evidence, now)
    BY <1>3 DEF EffectStep
  <2>2. now \in Nat
    BY ClockReadsType DEF IInv
  <2>3. HoldsLease(l, now)
    BY <2>1 DEF BeginEffect, FinishEffect, ReconcileEffect
  <2>4. Admits(l)
    BY <1>1, <2>3
  <2>5. ASSUME NEW request \in Requests, BeginEffect(l, k, request, now)
        PROVE  HolderWrote(l)
    BY <2>2, <2>4, <2>5, BeginEffectWrites DEF HolderWrote
  <2>6. ASSUME NEW succeeded \in BOOLEAN, NEW result \in Evidence \cup {None},
               FinishEffect(l, k, succeeded, result, now)
        PROVE  HolderWrote(l)
    BY <2>2, <2>4, <2>6, FinishEffectWrites DEF HolderWrote
  <2>7. ASSUME NEW succeeded \in BOOLEAN, NEW evidence \in Evidence,
               ReconcileEffect(l, k, succeeded, evidence, now)
        PROVE  HolderWrote(l)
    BY <2>2, <2>4, <2>7, ReconcileEffectWrites DEF HolderWrote
  <2> QED
    BY <2>1, <2>5, <2>6, <2>7
<1> QED
  BY <1>2, <1>3

(* Every step of the store is of one of four kinds; the invariant, the     *)
(* action properties and the refinement look at the kinds only.            *)
LEMMA StepKinds ==
  ASSUME IInv, [StoreNext]_storeVars
  PROVE  \/ \E r \in Runs :
              Created(r) \/ Reentered(r) \/ \E owner \in Owners : Granted(r, owner)
         \/ \E l \in leases : HolderWrote(l)
         \/ StoreUnchanged
<1>1. CASE Tick
  BY <1>1 DEF Tick, StoreUnchanged, IInv, TypeOK
<1>2. CASE UNCHANGED storeVars
  BY <1>2 DEF storeVars, StoreUnchanged, IInv, TypeOK
<1> QED
  BY <1>1, <1>2, ClaimKinds, HolderKinds DEF StoreNext

-----------------------------------------------------------------------------
(* The invariant.                                                          *)

(* The empty database satisfies the invariant.                             *)
LEMMA InvInit == StoreInit => Inv
<1> SUFFICES ASSUME StoreInit PROVE Inv
  OBVIOUS
<1>1. AbsentRun \in Run /\ AbsentEffect \in Effect
  BY DEF AbsentRun, Run, AbsentEffect, Effect
<1>2. <<>> \in Seq(Checkpoint) /\ <<>> \in Seq(Event) /\ DOMAIN <<>> = {}
  BY EmptySeq
<1>3. leases = {} /\ clock = 0 /\ runs = [r \in Runs |-> AbsentRun]
  BY DEF StoreInit
<1>4. effects = [r \in Runs |-> [k \in Keys |-> AbsentEffect]]
  BY DEF StoreInit
<1>5. checkpoints = [r \in Runs |-> <<>>] /\ events = [r \in Runs |-> <<>>]
  BY DEF StoreInit
<1>6. TypeOK
  BY <1>1, <1>2, <1>3, <1>4, <1>5 DEF TypeOK
<1>7. LeaseWellFormed
  BY <1>3 DEF LeaseWellFormed, AbsentRun, Held
<1>8. TokenOrder
  BY <1>2, <1>3, <1>4, <1>5 DEF TokenOrder, AbsentRun, AbsentEffect
<1>9. OneHolderPerToken /\ FencedWrites
  BY <1>2, <1>3, <1>5 DEF OneHolderPerToken, FencedWrites
<1> QED
  BY <1>6, <1>7, <1>8, <1>9 DEF Inv, IInv

(* The clauses of TokenOrder about rows that a write does not disturb.     *)
LEMMA WritesKeepOrder ==
  ASSUME Inv, TypeOK', NEW r \in Runs, NEW fence \in Nat,
         runs[r].fence_token <= fence, Writes(r, fence)
  PROVE  /\ \A s \in Runs : \A i \in DOMAIN events'[s] :
              events'[s][i].fence <= runs'[s].fence_token
         /\ \A s \in Runs, k \in Keys :
              /\ effects'[s][k].fence_token <= runs'[s].fence_token
              /\ effects'[s][k].status = "UNKNOWN" =>
                   effects'[s][k].fence_token < runs'[s].fence_token
         /\ FencedWrites'
<1>1. runs[r].fence_token \in Nat /\ runs'[r].fence_token = fence
  BY DEF Inv, IInv, TypeOK, Run, Writes
<1>2. \A s \in Runs \ {r} : /\ runs'[s] = runs[s] /\ effects'[s] = effects[s]
                             /\ events'[s] = events[s]
  BY DEF Writes
<1>3. /\ \A s \in Runs : \A i \in DOMAIN events[s] :
            events[s][i].fence <= runs[s].fence_token
      /\ \A s \in Runs, k \in Keys :
            /\ effects[s][k].fence_token <= runs[s].fence_token
            /\ effects[s][k].status = "UNKNOWN" =>
                 effects[s][k].fence_token < runs[s].fence_token
  BY DEF Inv, IInv, TokenOrder
<1>4. /\ \A i \in DOMAIN events'[r] : events'[r][i].fence <= fence
      /\ \A i, j \in DOMAIN events'[r] :
            i < j => events'[r][i].fence <= events'[r][j].fence
  <2>1. /\ events[r] \in Seq(Event)
        /\ \A i \in DOMAIN events[r] : events[r][i].fence \in Nat
        /\ \A i \in DOMAIN events[r] : events[r][i].fence <= fence
        /\ \A i, j \in DOMAIN events[r] :
             i < j => events[r][i].fence <= events[r][j].fence
    <3>1. events[r] \in Seq(Event)
      BY DEF Inv, IInv, TypeOK
    <3>2. \A i \in DOMAIN events[r] : events[r][i] \in Event
      BY <3>1, ElementOfSeq
    <3>3. \A i \in DOMAIN events[r] : events[r][i].fence \in Nat
      BY <3>2 DEF Event
    <3>4. \A i \in DOMAIN events[r] : events[r][i].fence <= fence
      BY <1>1, <1>3, <3>3
    <3> QED
      BY <3>1, <3>3, <3>4 DEF Inv, FencedWrites
  <2>2. CASE events'[r] = events[r]
    BY <2>1, <2>2
  <2>3. ASSUME NEW e \in Event, e.fence = fence, events'[r] = Append(events[r], e)
        PROVE  <1>4
    <3> DEFINE n == Len(events[r])
    <3>1. /\ n \in Nat
          /\ DOMAIN events[r] = 1..n /\ DOMAIN events'[r] = 1..(n + 1)
          /\ \A i \in 1..n : events'[r][i] = events[r][i]
          /\ events'[r][n + 1] = e
      BY <2>1, <2>3, AppendProperties, LenProperties
    <3> HIDE DEF n
    <3>2. \A i \in DOMAIN events'[r] : i \in DOMAIN events[r] \/ i = n + 1
      BY <3>1
    <3>3. \A i \in DOMAIN events'[r] : events'[r][i].fence <= fence
      BY <2>1, <2>3, <3>1, <3>2
    <3>4. ASSUME NEW i \in DOMAIN events'[r], NEW j \in DOMAIN events'[r], i < j
          PROVE  events'[r][i].fence <= events'[r][j].fence
      <4>1. CASE j = n + 1
        BY <2>3, <3>1, <3>3, <4>1
      <4>2. CASE j # n + 1
        BY <2>1, <3>1, <3>4, <4>2
      <4> QED
        BY <4>1, <4>2
    <3> QED
      BY <3>3, <3>4
  <2> QED
    BY <2>2, <2>3 DEF Writes
<1>5. \A k \in Keys :
        /\ effects'[r][k].fence_token <= fence
        /\ effects'[r][k].status = "UNKNOWN" => effects'[r][k].fence_token < fence
  <2>1. \A k \in Keys : effects[r][k].fence_token \in Nat
    BY DEF Inv, IInv, TypeOK, Effect
  <2> QED
    BY <1>1, <1>3, <2>1 DEF Writes
<1>6. FencedWrites'
  BY <1>2, <1>4 DEF Inv, FencedWrites
<1> QED
  BY <1>1, <1>2, <1>3, <1>4, <1>5, <1>6

(* Every step preserves it: one case for each kind of step.                *)
LEMMA InvNext == Inv /\ [StoreNext]_storeVars => Inv'
<1> SUFFICES ASSUME Inv, [StoreNext]_storeVars PROVE Inv'
  OBVIOUS
<1> USE DEF Inv
<1>1. /\ \A r \in Runs : runs[r] \in Run /\ runs[r].fence_token \in Nat
      /\ \A l \in leases : /\ l \in Lease /\ l.run \in Runs /\ l.owner \in Owners
                            /\ l.fence \in Nat
      /\ None \notin Owners
  BY StoreAssumption DEF IInv, TypeOK, Run, Lease
<1>2. ASSUME NEW r \in Runs, Created(r) PROVE Inv'
  <2>1. /\ TypeOK' /\ Writes(r, runs[r].fence_token) /\ leases' = leases
        /\ runs[r].status = "ABSENT" /\ runs'[r].status = "PENDING"
        /\ runs'[r].lease_owner = runs[r].lease_owner
        /\ runs'[r].lease_expires_at = runs[r].lease_expires_at
    BY <1>2 DEF Created
  <2>2. /\ \A s \in Runs \ {r} : runs'[s] = runs[s]
        /\ runs'[r].fence_token = runs[r].fence_token
    BY <2>1 DEF Writes
  <2>3. LeaseWellFormed'
    BY <2>1, <2>2 DEF IInv, LeaseWellFormed, Held
  <2>4. TokenOrder'
    BY <1>1, <2>1, <2>2, WritesKeepOrder DEF IInv, TokenOrder, Held
  <2>5. FencedWrites'
    BY <1>1, <2>1, WritesKeepOrder
  <2> QED
    BY <2>1, <2>3, <2>4, <2>5 DEF IInv, OneHolderPerToken
<1>3. ASSUME NEW r \in Runs, NEW owner \in Owners, Granted(r, owner) PROVE Inv'
  <2> DEFINE fence == runs[r].fence_token + 1
             new == [run |-> r, owner |-> owner, fence |-> fence]
  <2>1. /\ TypeOK' /\ Writes(r, fence) /\ leases' = leases \cup {new}
        /\ runs'[r].status = "RUNNING" /\ runs'[r].lease_owner = owner
        /\ runs'[r].lease_expires_at \in Nat
    BY <1>3 DEF Granted
  <2>2. /\ \A s \in Runs \ {r} : runs'[s] = runs[s]
        /\ runs'[r].fence_token = fence
    BY <2>1 DEF Writes
  <2>3. fence \in Nat /\ fence > runs[r].fence_token
    BY <1>1
  <2>4. \A l \in leases : l.run = r => l.fence < fence
    BY <1>1, <2>3 DEF IInv, TokenOrder
  <2>5. new.run = r /\ new.owner = owner /\ new.fence = fence
    OBVIOUS
  <2> HIDE DEF fence, new
  <2>6. LeaseWellFormed'
    BY <2>1, <2>2 DEF IInv, LeaseWellFormed, Held
  <2>7. \A l \in leases' :
          /\ l.fence <= runs'[l.run].fence_token
          /\ runs'[l.run].status \in Held /\ runs'[l.run].fence_token = l.fence
               => runs'[l.run].lease_owner = l.owner
    <3> TAKE l \in leases'
    <3>1. CASE l = new
      BY <2>1, <2>2, <2>3, <2>5, <3>1
    <3>2. CASE l \in leases /\ l.run = r
      BY <1>1, <2>2, <2>3, <2>4, <3>2
    <3>3. CASE l \in leases /\ l.run # r
      BY <1>1, <2>2, <3>3 DEF IInv, TokenOrder
    <3> QED
      BY <2>1, <3>1, <3>2, <3>3
  <2>8. TokenOrder'
    BY <1>1, <2>1, <2>2, <2>3, <2>7, WritesKeepOrder DEF IInv, TokenOrder
  <2>9. FencedWrites'
    BY <1>1, <2>1, <2>3, WritesKeepOrder
  <2>10. OneHolderPerToken'
    BY <1>1, <2>1, <2>3, <2>4, <2>5 DEF OneHolderPerToken
  <2> QED
    BY <2>1, <2>6, <2>8, <2>9, <2>10 DEF IInv
<1>4. ASSUME NEW r \in Runs, Reentered(r) PROVE Inv'
  <2> DEFINE again == [run |-> r, owner |-> runs[r].lease_owner,
                       fence |-> runs[r].fence_token]
  <2>1. /\ TypeOK' /\ runs[r].status = "RUNNING" /\ leases' = leases \cup {again}
        /\ runs' = runs /\ effects' = effects /\ events' = events
    BY <1>4 DEF Reentered
  <2>2. /\ again.run = r /\ again.owner = runs[r].lease_owner
        /\ again.fence = runs[r].fence_token /\ again \in leases'
    BY <2>1
  <2>3. again \in Lease
    BY <2>1, <2>2 DEF TypeOK
  <2>4. \A l \in leases : l.run = r /\ l.fence = runs[r].fence_token => l = again
    <3> SUFFICES ASSUME NEW l \in leases, l.run = r, l.fence = runs[r].fence_token
                 PROVE  l = again
      OBVIOUS
    <3>1. l.owner = runs[r].lease_owner
      BY <2>1 DEF IInv, TokenOrder, Held
    <3>2. l = [run |-> l.run, owner |-> l.owner, fence |-> l.fence]
      BY <1>1 DEF Lease
    <3> QED
      BY <3>1, <3>2
  <2> HIDE DEF again
  <2>5. LeaseWellFormed' /\ FencedWrites'
    BY <2>1 DEF IInv, LeaseWellFormed, FencedWrites
  <2>6. TokenOrder'
    BY <1>1, <2>1, <2>2 DEF IInv, TokenOrder
  <2>7. OneHolderPerToken'
    BY <2>1, <2>2, <2>4 DEF OneHolderPerToken
  <2> QED
    BY <2>1, <2>5, <2>6, <2>7 DEF IInv
<1>5. ASSUME NEW l \in leases, HolderWrote(l) PROVE Inv'
  <2> DEFINE r == l.run
  <2>1. /\ TypeOK' /\ Writes(r, l.fence) /\ leases' = leases
        /\ r \in Runs /\ l.fence \in Nat /\ runs[r].fence_token = l.fence
        /\ runs[r].status \in Held /\ runs'[r].status # "ABSENT"
        /\ RowWellFormed(runs'[r])
        /\ runs'[r].status \in Held => runs'[r].lease_owner = runs[r].lease_owner
    BY <1>1, <1>5 DEF HolderWrote, KeepsHolder
  <2> HIDE DEF r
  <2>2. /\ \A s \in Runs \ {r} : runs'[s] = runs[s]
        /\ runs'[r].fence_token = runs[r].fence_token
    BY <2>1 DEF Writes
  <2>3. LeaseWellFormed'
    BY <2>1, <2>2 DEF IInv, LeaseWellFormed, RowWellFormed
  <2>4. \A m \in leases' :
          /\ m.fence <= runs'[m.run].fence_token
          /\ runs'[m.run].status \in Held /\ runs'[m.run].fence_token = m.fence
               => runs'[m.run].lease_owner = m.owner
    BY <1>1, <2>1, <2>2 DEF IInv, TokenOrder
  <2>5. TokenOrder'
    BY <1>1, <2>1, <2>2, <2>4, WritesKeepOrder DEF IInv, TokenOrder
  <2>6. FencedWrites'
    BY <1>1, <2>1, WritesKeepOrder
  <2>7. OneHolderPerToken'
    BY <2>1 DEF OneHolderPerToken
  <2> QED
    BY <2>1, <2>3, <2>5, <2>6, <2>7 DEF IInv
<1>6. ASSUME StoreUnchanged PROVE Inv'
  BY <1>6 DEF StoreUnchanged, IInv, LeaseWellFormed, TokenOrder,
              OneHolderPerToken, FencedWrites
<1> QED
  BY <1>2, <1>3, <1>4, <1>5, <1>6, StepKinds

(* The inductive invariant holds of every reachable store.                 *)
THEOREM StoreInvariant == StoreSpec => []Inv
BY InvInit, InvNext, PTL DEF StoreSpec

(* Every reachable row, effect, checkpoint, event and lease is typed: in   *)
(* particular a token is never lost and a revision never negative.         *)
THEOREM TypeCorrect == StoreSpec => []TypeOK
BY StoreInvariant, PTL DEF Inv, IInv

(* acquire_run never compares a NULL expiry and _require_lease never       *)
(* admits a caller to a queued or finished run.                            *)
THEOREM HeldRunsNameHolder == StoreSpec => []LeaseWellFormed
BY StoreInvariant, PTL DEF Inv, IInv

(* The order of tokens, on which the other theorems rest.                  *)
THEOREM TokensInOrder == StoreSpec => []TokenOrder
BY StoreInvariant, PTL DEF Inv, IInv

(* Two callers with the same token of a run hold the same lease.           *)
THEOREM TokenNamesOneHolder == StoreSpec => []OneHolderPerToken
BY StoreInvariant, PTL DEF Inv

(* Fencing tokens reject stale writes: the writes to a run are in the      *)
(* order of the tokens they were made under.                               *)
THEOREM StaleWritesRejected == StoreSpec => []FencedWrites
BY StoreInvariant, PTL DEF Inv

-----------------------------------------------------------------------------
(* What a step may never do.                                               *)

(* A run that has ended is the same after every step of the store.         *)
Frozen(r) ==
  /\ runs'[r] = runs[r]
  /\ effects'[r] = effects[r]
  /\ checkpoints'[r] = checkpoints[r]
  /\ events'[r] = events[r]

LEMMA EndedRunFrozen ==
  ASSUME Inv, [StoreNext]_storeVars, NEW r \in Runs, runs[r].status \in Terminal
  PROVE  Frozen(r)
<1>1. Terminal \cap {"ABSENT", "PENDING", "RUNNING", "WAITING"} = {}
  BY DEF Terminal
<1>2. ASSUME NEW s \in Runs, Created(s) PROVE Frozen(r)
  BY <1>1, <1>2 DEF Created, Writes, Frozen
<1>3. ASSUME NEW s \in Runs, NEW owner \in Owners, Granted(s, owner) PROVE Frozen(r)
  BY <1>1, <1>3 DEF Granted, Writes, Frozen
<1>4. ASSUME NEW s \in Runs, Reentered(s) PROVE Frozen(r)
  BY <1>4 DEF Reentered, Frozen
<1>5. ASSUME NEW l \in leases, HolderWrote(l) PROVE Frozen(r)
  BY <1>1, <1>5 DEF HolderWrote, Writes, Held, Frozen
<1>6. ASSUME StoreUnchanged PROVE Frozen(r)
  BY <1>6 DEF StoreUnchanged, Frozen
<1> QED
  BY <1>2, <1>3, <1>4, <1>5, <1>6, StepKinds DEF Inv

(* No call changes anything of a run that has ended.                       *)
THEOREM FinishedRunsFrozen == StoreSpec => TerminalFrozen
<1>1. Inv /\ [StoreNext]_storeVars =>
        [\A r \in Runs : runs[r].status \in Terminal =>
             /\ runs'[r] = runs[r]
             /\ effects'[r] = effects[r]
             /\ checkpoints'[r] = checkpoints[r]
             /\ events'[r] = events[r]]_storeVars
  BY EndedRunFrozen DEF Frozen
<1> QED
  BY <1>1, StoreInvariant, PTL DEF StoreSpec, TerminalFrozen

(* A run changes hands only once its holder's lease has run out.           *)
THEOREM LiveLeasesRespected == StoreSpec => NoPrematureTakeover
<1> DEFINE Due(r) == runs[r].lease_expires_at <= clock
           Taken(r) == /\ runs[r].status = "RUNNING"
                       /\ runs'[r].fence_token # runs[r].fence_token
<1>1. ASSUME Inv, [StoreNext]_storeVars, NEW r \in Runs, Taken(r)
      PROVE  Due(r)
  <2>1. ASSUME NEW s \in Runs, Created(s) PROVE FALSE
    BY <1>1, <2>1 DEF Created, Writes
  <2>2. ASSUME NEW s \in Runs, NEW owner \in Owners, Granted(s, owner) PROVE Due(r)
    BY <1>1, <2>2 DEF Granted, Writes
  <2>3. ASSUME NEW s \in Runs, Reentered(s) PROVE FALSE
    BY <1>1, <2>3 DEF Reentered
  <2>4. ASSUME NEW l \in leases, HolderWrote(l) PROVE FALSE
    BY <1>1, <2>4 DEF HolderWrote, Writes
  <2>5. ASSUME StoreUnchanged PROVE FALSE
    BY <1>1, <2>5 DEF StoreUnchanged
  <2> QED
    BY <1>1, <2>1, <2>2, <2>3, <2>4, <2>5, StepKinds DEF Inv
<1>2. Inv /\ [StoreNext]_storeVars =>
        [\A r \in Runs : runs[r].status = "RUNNING"
                          /\ runs'[r].fence_token # runs[r].fence_token
                            => runs[r].lease_expires_at <= clock]_storeVars
  BY <1>1
<1> QED
  BY <1>2, StoreInvariant, PTL DEF StoreSpec, NoPrematureTakeover

-----------------------------------------------------------------------------
(* The ledger implements its contract.                                     *)

(* The empty database is the idle ledger.                                  *)
LEMMA ContractInit == StoreInit => Contract!Init
<1> SUFFICES ASSUME StoreInit PROVE Contract!Init
  OBVIOUS
<1>1. runs = [r \in Runs |-> AbsentRun] /\ AbsentRun.fence_token = 0
  BY DEF StoreInit, AbsentRun
<1>2. effects = [r \in Runs |-> [k \in Keys |-> AbsentEffect]]
  BY DEF StoreInit
<1>3. SlotOf(AbsentEffect) = Contract!Idle
  BY DEF SlotOf, AbsentEffect, Phase, Contract!Idle
<1>4. Epochs = [r \in Runs |-> 0]
  BY <1>1 DEF Epochs
<1>5. Slots = [r \in Runs |-> [k \in Keys |-> Contract!Idle]]
  BY <1>2, <1>3 DEF Slots
<1> QED
  BY <1>4, <1>5 DEF Contract!Init

(* A step that leaves the ledger alone leaves every slot alone.            *)
LEMMA SlotsUnchanged == effects' = effects => Slots' = Slots
  BY DEF Slots, SlotOf, Phase

(* Every step of the store is a step of the contract or leaves slots and   *)
(* epochs alone.                                                           *)
LEMMA ContractNext ==
  Inv /\ [StoreNext]_storeVars => [Contract!Next]_(Contract!vars)
<1> SUFFICES ASSUME Inv, [StoreNext]_storeVars
             PROVE  Contract!Next \/ (Epochs' = Epochs /\ Slots' = Slots)
  BY DEF Contract!vars
<1>1. ASSUME NEW r \in Runs, Created(r) PROVE Epochs' = Epochs /\ Slots' = Slots
  <2>1. \A s \in Runs : runs'[s].fence_token = runs[s].fence_token
    BY <1>1 DEF Created, Writes
  <2> QED
    BY <1>1, <2>1, SlotsUnchanged DEF Created, Epochs
<1>2. ASSUME NEW r \in Runs, NEW owner \in Owners, Granted(r, owner)
      PROVE  Contract!Next
  <2>1. /\ \A s \in Runs \ {r} : runs'[s] = runs[s]
        /\ runs'[r].fence_token = runs[r].fence_token + 1
    BY <1>2 DEF Granted, Writes
  <2>2. Epochs' = [Epochs EXCEPT ![r] = @ + 1]
    BY <2>1 DEF Epochs
  <2>3. Slots' = Slots
    BY <1>2, SlotsUnchanged DEF Granted
  <2> QED
    BY <2>2, <2>3 DEF Contract!Next, Contract!NewEpoch
<1>3. ASSUME NEW r \in Runs, Reentered(r) PROVE Epochs' = Epochs /\ Slots' = Slots
  BY <1>3, SlotsUnchanged DEF Reentered, Epochs
<1>4. ASSUME NEW l \in leases, HolderWrote(l)
      PROVE  Contract!Next \/ (Epochs' = Epochs /\ Slots' = Slots)
  <2>1. l.run \in Runs
    BY <1>4 DEF HolderWrote
  <2>2. CASE effects' = effects
    <3>1. \A s \in Runs : runs'[s].fence_token = runs[s].fence_token
      BY <1>4 DEF HolderWrote, Writes
    <3> QED
      BY <2>2, <3>1, SlotsUnchanged DEF Epochs
  <2>3. CASE effects' # effects
    BY <1>4, <2>1, <2>3 DEF HolderWrote, Contract!Next
  <2> QED
    BY <2>2, <2>3
<1>5. ASSUME StoreUnchanged PROVE Epochs' = Epochs /\ Slots' = Slots
  BY <1>5, SlotsUnchanged DEF StoreUnchanged, Epochs
<1> QED
  BY <1>1, <1>2, <1>3, <1>4, <1>5, StepKinds DEF Inv

(* begin_effect, finish_effect and reconcile_effect implement the contract *)
(* of the ledger, whoever calls them, with whatever lease, at whatever     *)
(* time: one executor at a time, doubt only after a takeover, a confirmed  *)
(* result for ever, one request per key.                                   *)
THEOREM LedgerImplementsContract == StoreSpec => EffectsFollowContract
BY ContractInit, ContractNext, StoreInvariant, PTL
   DEF StoreSpec, EffectsFollowContract, Contract!Spec

-----------------------------------------------------------------------------
(* The audit log.                                                          *)

(* Where the last event of a log that is in the set T is: Latest, for a    *)
(* selector that is a set.                                                 *)
LastIn(log, T) ==
  {i \in DOMAIN log : /\ log[i] \in T
                      /\ \A j \in DOMAIN log : j > i => log[j] \notin T}

Claims == {e \in Event : IsClaim(e)}
StatusSetters == {e \in Event : SetsStatus(e)}
StageSetters == {e \in Event : SetsStage(e)}
Concerning(k) == {e \in Event : e.key = k}

(* Appending an event moves the last place to the end if the event is in   *)
(* the set, and else leaves it alone.                                      *)
LEMMA LastInAppend ==
  ASSUME NEW log \in Seq(Event), NEW e \in Event, NEW T
  PROVE  /\ e \in T => LastIn(Append(log, e), T) = {Len(log) + 1}
         /\ e \notin T => LastIn(Append(log, e), T) = LastIn(log, T)
         /\ Append(log, e)[Len(log) + 1] = e
<1> DEFINE n == Len(log)
           new == Append(log, e)
<1>1. /\ n \in Nat
      /\ DOMAIN log = 1..n /\ DOMAIN new = 1..(n + 1)
      /\ \A i \in 1..n : new[i] = log[i]
      /\ new[n + 1] = e
  BY AppendProperties, LenProperties
<1> HIDE DEF n, new
<1>2. ASSUME e \in T PROVE LastIn(new, T) = {n + 1}
  <2>1. n + 1 \in LastIn(new, T)
    BY <1>1, <1>2 DEF LastIn
  <2>2. ASSUME NEW i \in LastIn(new, T) PROVE i = n + 1
    <3>1. /\ i \in 1..(n + 1) /\ \A j \in 1..(n + 1) : j > i => new[j] \notin T
      BY <1>1, <2>2 DEF LastIn
    <3>2. n + 1 \in 1..(n + 1)
      BY <1>1
    <3>3. ~(n + 1 > i)
      BY <1>1, <1>2, <3>1, <3>2
    <3> QED
      BY <1>1, <3>1, <3>3
  <2> QED
    BY <2>1, <2>2
<1>3. ASSUME e \notin T PROVE LastIn(new, T) = LastIn(log, T)
  <2>1. ASSUME NEW i \in LastIn(new, T) PROVE i \in LastIn(log, T)
    BY <1>1, <1>3, <2>1 DEF LastIn
  <2>2. ASSUME NEW i \in LastIn(log, T) PROVE i \in LastIn(new, T)
    BY <1>1, <1>3, <2>2 DEF LastIn
  <2> QED
    BY <2>1, <2>2
<1> QED
  BY <1>1, <1>2, <1>3 DEF n, new

(* The selectors of the audit properties are sets of events.               *)
LEMMA LatestIsLastIn ==
  ASSUME NEW log \in Seq(Event)
  PROVE  /\ Latest(log, IsClaim) = LastIn(log, Claims)
         /\ Latest(log, SetsStatus) = LastIn(log, StatusSetters)
         /\ Latest(log, SetsStage) = LastIn(log, StageSetters)
<1>1. \A i \in DOMAIN log : log[i] \in Event
  BY ElementOfSeq
<1>2. \A i \in DOMAIN log : /\ log[i] \in Claims <=> IsClaim(log[i])
                            /\ log[i] \in StatusSetters <=> SetsStatus(log[i])
                            /\ log[i] \in StageSetters <=> SetsStage(log[i])
  BY <1>1 DEF Claims, StatusSetters, StageSetters
<1>3. Latest(log, IsClaim) = LastIn(log, Claims)
  BY <1>2 DEF Latest, LastIn
<1>4. Latest(log, SetsStatus) = LastIn(log, StatusSetters)
  BY <1>2 DEF Latest, LastIn
<1>5. Latest(log, SetsStage) = LastIn(log, StageSetters)
  BY <1>2 DEF Latest, LastIn
<1> QED
  BY <1>3, <1>4, <1>5

(* What an event about the row says the row becomes.                       *)
RowFollows(row, e, new) ==
  /\ new.status = IF SetsStatus(e) THEN StatusSetBy(e) ELSE row.status
  /\ new.status # "ABSENT"
  /\ new.stage = IF SetsStage(e) THEN e.stage ELSE row.stage
  /\ new.fence_token = IF IsClaim(e) THEN e.fence ELSE row.fence_token
  /\ IF IsClaim(e) THEN new.lease_owner = e.owner
                   ELSE new.lease_owner \in {None, row.lease_owner}

(* A log that explains a row explains the next row when it is extended by  *)
(* the event that led there.                                               *)
LEMMA ExplainsAppend ==
  ASSUME NEW log \in Seq(Event), NEW e \in Event, NEW row, NEW new,
         Explains(log, row), RowFollows(row, e, new)
  PROVE  Explains(Append(log, e), new)
<1> DEFINE longer == Append(log, e)
<1>1. longer \in Seq(Event) /\ longer # <<>>
  BY AppendProperties
<1>2. /\ Latest(log, IsClaim) = LastIn(log, Claims)
      /\ Latest(log, SetsStatus) = LastIn(log, StatusSetters)
      /\ Latest(log, SetsStage) = LastIn(log, StageSetters)
      /\ Latest(longer, IsClaim) = LastIn(longer, Claims)
      /\ Latest(longer, SetsStatus) = LastIn(longer, StatusSetters)
      /\ Latest(longer, SetsStage) = LastIn(longer, StageSetters)
  <2> HIDE DEF longer
  <2> QED
    BY <1>1, LatestIsLastIn
<1>3. /\ e \in Claims <=> IsClaim(e)
      /\ e \in StatusSetters <=> SetsStatus(e)
      /\ e \in StageSetters <=> SetsStage(e)
  BY DEF Claims, StatusSetters, StageSetters
<1>4. \A T \in {Claims, StatusSetters, StageSetters} :
        /\ e \in T => LastIn(longer, T) = {Len(log) + 1}
        /\ e \notin T => LastIn(longer, T) = LastIn(log, T)
        /\ \A i \in LastIn(log, T) : longer[i] = log[i]
  <2> TAKE T \in {Claims, StatusSetters, StageSetters}
  <2>1. e \in T => LastIn(Append(log, e), T) = {Len(log) + 1}
    BY LastInAppend
  <2>2. e \notin T => LastIn(Append(log, e), T) = LastIn(log, T)
    BY LastInAppend
  <2>3. \A i \in LastIn(log, T) : Append(log, e)[i] = log[i]
    BY AppendProperties, LenProperties DEF LastIn
  <2> QED
    BY <2>1, <2>2, <2>3
<1>5. longer[Len(log) + 1] = e
  BY LastInAppend
<1> HIDE DEF longer
<1>6. \A i \in Latest(longer, SetsStatus) : new.status = StatusSetBy(longer[i])
  <2>1. CASE SetsStatus(e)
    BY <1>2, <1>3, <1>4, <1>5, <2>1 DEF RowFollows
  <2>2. CASE ~SetsStatus(e)
    BY <1>2, <1>3, <1>4, <2>2 DEF RowFollows, Explains
  <2> QED
    BY <2>1, <2>2
<1>7. \A i \in Latest(longer, SetsStage) : new.stage = longer[i].stage
  <2>1. CASE SetsStage(e)
    BY <1>2, <1>3, <1>4, <1>5, <2>1 DEF RowFollows
  <2>2. CASE ~SetsStage(e)
    BY <1>2, <1>3, <1>4, <2>2 DEF RowFollows, Explains
  <2> QED
    BY <2>1, <2>2
<1>8. \A i \in Latest(longer, IsClaim) :
        new.fence_token = longer[i].fence /\ new.lease_owner \in {None, longer[i].owner}
  <2>1. CASE IsClaim(e)
    BY <1>2, <1>3, <1>4, <1>5, <2>1 DEF RowFollows
  <2>2. CASE ~IsClaim(e)
    BY <1>2, <1>3, <1>4, <2>2 DEF RowFollows, Explains
  <2> QED
    BY <2>1, <2>2
<1>9. new.status # "ABSENT"
  BY DEF RowFollows
<1> QED
  BY <1>1, <1>6, <1>7, <1>8, <1>9 DEF Explains, longer

-----------------------------------------------------------------------------
(* Every write is one event, or the silent restart of a failed operation.  *)

(* Nothing but run r's rows and log changes.                               *)
OnlyRun(r) ==
  \A s \in Runs \ {r} : /\ runs'[s] = runs[s] /\ effects'[s] = effects[s]
                        /\ checkpoints'[s] = checkpoints[s] /\ events'[s] = events[s]

(* The event e tells all that the step did to run r.                       *)
Logged(r, e) ==
  /\ OnlyRun(r)
  /\ events'[r] = Append(events[r], e)
  /\ RowFollows(runs[r], e, runs'[r])
  /\ \A k \in Keys :
       IF e.key = k
       THEN effects'[r][k].status = e.to /\ effects'[r][k].status # "ABSENT"
       ELSE effects'[r][k].status = effects[r][k].status
  /\ IF e.type = "CHECKPOINT_RECORDED"
     THEN \E row \in Checkpoint : checkpoints'[r] = Append(checkpoints[r], row)
     ELSE checkpoints'[r] = checkpoints[r]

(* The restart of a failed operation of run r.                             *)
Restarted(r) ==
  /\ OnlyRun(r)
  /\ UNCHANGED <<runs, checkpoints, events>>
  /\ \A k \in Keys :
       \/ effects'[r][k].status = effects[r][k].status
       \/ effects[r][k].status = "FAILED" /\ effects'[r][k].status = "STARTED"

(* The fields of a replaced row that the audit log is about.               *)
LEMMA RowReplaced ==
  ASSUME TypeOK, NEW r \in Runs, NEW row \in Run, UpdateRun(r, row)
  PROVE  /\ runs'[r].status = row.status /\ runs'[r].stage = row.stage
         /\ runs'[r].fence_token = row.fence_token
         /\ runs'[r].lease_owner = row.lease_owner
<1>1. runs'[r] = [row EXCEPT !.revision = runs[r].revision + 1]
  BY UpdateRunType
<1> QED
  BY <1>1 DEF Run

(* create_run: the row is queued.                                          *)
LEMMA CreateRunLogged ==
  ASSUME IInv, NEW r \in Runs, NEW now \in Nat, CreateRun(r, now)
  PROVE  \E e \in Event : Logged(r, e)
<1> DEFINE e == [type |-> "RUN_CREATED", owner |-> None, fence |-> 0, key |-> None,
                 to |-> None, stage |-> "queued"]
<1>1. OnlyRun(r)
  BY CreateRunWrites DEF Writes, OnlyRun
<1>2. /\ events' = [events EXCEPT ![r] = Append(@, e)]
      /\ e \in Event /\ e.type = "RUN_CREATED" /\ e.key = None /\ e.stage = "queued"
  BY StoreAssumption DEF CreateRun, AppendEvent, Event, EventType
<1> HIDE DEF e
<1>3. /\ runs[r] \in Run
      /\ runs'[r] = [runs[r] EXCEPT !.status = "PENDING", !.stage = "queued",
                                    !.created_at = now]
  BY DEF CreateRun, IInv, TypeOK
<1>4. RowFollows(runs[r], e, runs'[r])
  BY <1>2, <1>3 DEF RowFollows, SetsStatus, SetsStage, IsClaim, StatusSetBy, Run
<1>5. UNCHANGED <<effects, checkpoints>> /\ None \notin Keys
  BY StoreAssumption DEF CreateRun
<1>6. events'[r] = Append(events[r], e)
  BY <1>2 DEF IInv, TypeOK
<1> QED
  BY <1>1, <1>2, <1>4, <1>5, <1>6 DEF Logged

(* A claim or a recovery: the row is RUNNING under the next token.         *)
LEMMA GrantLogged ==
  ASSUME IInv, NEW r \in Runs, NEW owner \in Owners, NEW now \in Nat,
         Grant(r, owner, now)
  PROVE  \E e \in Event : Logged(r, e)
<1> DEFINE fence == runs[r].fence_token + 1
           row == [runs[r] EXCEPT !.status = "RUNNING",
                                  !.lease_owner = owner,
                                  !.lease_expires_at = now + LeaseTicks,
                                  !.fence_token = runs[r].fence_token + 1,
                                  !.attempt = @ + 1]
           type == IF runs[r].status = "RUNNING" THEN "LEASE_RECOVERED"
                                                 ELSE "RUN_CLAIMED"
           e == [type |-> type, owner |-> owner, fence |-> fence,
                 key |-> None, to |-> None, stage |-> None]
<1>1. OnlyRun(r)
  BY GrantWrites DEF Writes, OnlyRun
<1>2. /\ runs[r] \in Run /\ fence \in Nat /\ runs[r].attempt + 1 \in Nat
      /\ now + LeaseTicks \in Nat
  BY StoreAssumption DEF IInv, TypeOK, Run
<1>3. /\ UpdateRun(r, row)
      /\ AppendEvent(r, type, owner, fence, None, None, None)
      /\ UNCHANGED <<effects, checkpoints>>
  BY DEF Grant, NextToken
<1>4. row \in Run
  BY <1>2 DEF Run, RunStatus, Held
<1>5. /\ row.status = "RUNNING" /\ row.stage = runs[r].stage
      /\ row.lease_owner = owner /\ row.fence_token = fence
  BY <1>2 DEF Run
<1>6. type \in {"LEASE_RECOVERED", "RUN_CLAIMED"}
  OBVIOUS
<1> HIDE DEF fence, row, type
<1>7. /\ events' = [events EXCEPT ![r] = Append(@, e)]
      /\ e \in Event /\ e.type = type /\ e.key = None
      /\ e.owner = owner /\ e.fence = fence
  BY <1>2, <1>3, <1>6 DEF AppendEvent, Event, EventType
<1> HIDE DEF e
<1>8. /\ runs'[r].status = "RUNNING" /\ runs'[r].stage = runs[r].stage
      /\ runs'[r].lease_owner = owner /\ runs'[r].fence_token = fence
  BY <1>3, <1>4, <1>5, RowReplaced DEF IInv
<1>9. RowFollows(runs[r], e, runs'[r])
  BY <1>6, <1>7, <1>8 DEF RowFollows, SetsStatus, SetsStage, IsClaim, StatusSetBy
<1>10. e.key \notin Keys /\ e.type # "CHECKPOINT_RECORDED"
  BY <1>6, <1>7, StoreAssumption
<1>11. events'[r] = Append(events[r], e)
  BY <1>7 DEF IInv, TypeOK
<1> QED
  BY <1>1, <1>3, <1>7, <1>9, <1>10, <1>11 DEF Logged

(* renew_lease appends an event that changes nothing the log is about.     *)
LEMMA RenewLeaseLogged ==
  ASSUME IInv, NEW l \in leases, NEW now \in Nat, RenewLease(l, now)
  PROVE  \E e \in Event : Logged(l.run, e)
<1> DEFINE r == l.run
           row == [runs[r] EXCEPT !.lease_expires_at = now + LeaseTicks]
           e == [type |-> "LEASE_RENEWED", owner |-> l.owner, fence |-> l.fence,
                 key |-> None, to |-> None, stage |-> None]
<1>1. OnlyRun(r)
  BY RenewLeaseWrites DEF Writes, OnlyRun
<1>2. /\ r \in Runs /\ l.owner \in Owners /\ l.fence \in Nat /\ runs[r] \in Run
      /\ runs[r].status \in Held
  BY Admitted DEF RenewLease
<1>3. /\ UpdateRun(r, row)
      /\ AppendEvent(r, "LEASE_RENEWED", l.owner, l.fence, None, None, None)
      /\ UNCHANGED <<effects, checkpoints>>
  BY DEF RenewLease
<1>4. now + LeaseTicks \in Nat
  BY StoreAssumption
<1>5. /\ row \in Run /\ row.status = runs[r].status /\ row.stage = runs[r].stage
      /\ row.lease_owner = runs[r].lease_owner /\ row.fence_token = runs[r].fence_token
  BY <1>2, <1>4 DEF Run
<1> HIDE DEF row, r
<1>6. /\ events' = [events EXCEPT ![r] = Append(@, e)]
      /\ e \in Event /\ e.type = "LEASE_RENEWED" /\ e.key = None
  BY <1>2, <1>3 DEF AppendEvent, Event, EventType
<1> HIDE DEF e
<1>7. /\ runs'[r].status = runs[r].status /\ runs'[r].stage = runs[r].stage
      /\ runs'[r].lease_owner = runs[r].lease_owner
      /\ runs'[r].fence_token = runs[r].fence_token
  BY <1>2, <1>3, <1>5, RowReplaced DEF IInv
<1>8. events'[r] = Append(events[r], e)
  BY <1>2, <1>6 DEF IInv, TypeOK
<1>9. RowFollows(runs[r], e, runs'[r])
  BY <1>2, <1>6, <1>7 DEF RowFollows, SetsStatus, SetsStage, IsClaim, Held
<1>10. e.key \notin Keys /\ e.type # "CHECKPOINT_RECORDED"
  BY <1>6, StoreAssumption
<1> QED
  BY <1>1, <1>3, <1>6, <1>8, <1>9, <1>10 DEF Logged, r

(* transition: status and stage are the event's.                           *)
LEMMA TransitionLogged ==
  ASSUME IInv, NEW l \in leases, NEW now \in Nat, NEW target \in RunStatus,
         NEW stage \in Stages \cup {None}, NEW result \in Evidence \cup {None},
         NEW error \in Errors \cup {None},
         Transition(l, target, stage, result, error, now)
  PROVE  \E e \in Event : Logged(l.run, e)
<1> DEFINE r == l.run
           released == Released(runs[r], target)
           next_stage == IF stage = None THEN runs[r].stage ELSE stage
           next_result == IF result = None THEN released.result ELSE result
           row == [released EXCEPT !.status = target, !.stage = next_stage,
                                   !.result = next_result, !.last_error = error]
           e == [type |-> "RUN_TRANSITIONED", owner |-> l.owner, fence |-> l.fence,
                 key |-> None, to |-> target, stage |-> next_stage]
<1>1. OnlyRun(r)
  BY TransitionWrites DEF Writes, OnlyRun
<1>2. /\ r \in Runs /\ l.owner \in Owners /\ l.fence \in Nat /\ runs[r] \in Run
  BY Admitted DEF Transition
<1>3. /\ UpdateRun(r, row)
      /\ AppendEvent(r, "RUN_TRANSITIONED", l.owner, l.fence, None, target, next_stage)
      /\ UNCHANGED <<effects, checkpoints>>
  BY DEF Transition
<1>4. /\ released \in Run /\ released.fence_token = runs[r].fence_token
      /\ released.lease_owner \in {None, runs[r].lease_owner}
  BY <1>2 DEF Released, Run
<1>5. next_stage \in Stages \cup {None} /\ next_result \in Evidence \cup {None}
  BY <1>2, <1>4 DEF Run
<1> HIDE DEF released, next_stage, next_result
<1>6. /\ row \in Run /\ row.status = target /\ row.stage = next_stage
      /\ row.lease_owner = released.lease_owner /\ row.fence_token = released.fence_token
  BY <1>4, <1>5 DEF Run
<1> HIDE DEF row, r
<1>7. /\ events' = [events EXCEPT ![r] = Append(@, e)]
      /\ e \in Event /\ e.type = "RUN_TRANSITIONED" /\ e.key = None
      /\ e.to = target /\ e.stage = next_stage
  BY <1>2, <1>3, <1>5 DEF AppendEvent, Event, EventType
<1> HIDE DEF e
<1>8. /\ runs'[r].status = target /\ runs'[r].stage = next_stage
      /\ runs'[r].lease_owner = released.lease_owner
      /\ runs'[r].fence_token = released.fence_token
  BY <1>2, <1>3, <1>6, RowReplaced DEF IInv
<1>9. events'[r] = Append(events[r], e)
  BY <1>2, <1>7 DEF IInv, TypeOK
<1>10. target # "ABSENT"
  BY DEF RunStatus, Held, Terminal
<1>11. RowFollows(runs[r], e, runs'[r])
  BY <1>4, <1>7, <1>8, <1>10 DEF RowFollows, SetsStatus, SetsStage, IsClaim, StatusSetBy
<1>12. e.key \notin Keys /\ e.type # "CHECKPOINT_RECORDED"
  BY <1>7, StoreAssumption
<1> QED
  BY <1>1, <1>3, <1>7, <1>9, <1>11, <1>12 DEF Logged, r

(* advance_stage: the stage is the event's.                                *)
LEMMA AdvanceStageLogged ==
  ASSUME IInv, NEW l \in leases, NEW now \in Nat, NEW stage \in Stages,
         AdvanceStage(l, stage, now)
  PROVE  \E e \in Event : Logged(l.run, e)
<1> DEFINE r == l.run
           row == [runs[r] EXCEPT !.stage = stage]
           e == [type |-> "STAGE_STARTED", owner |-> l.owner, fence |-> l.fence,
                 key |-> None, to |-> None, stage |-> stage]
<1>1. OnlyRun(r)
  BY AdvanceStageWrites DEF Writes, OnlyRun
<1>2. /\ r \in Runs /\ l.owner \in Owners /\ l.fence \in Nat /\ runs[r] \in Run
      /\ runs[r].status \in Held
  BY Admitted DEF AdvanceStage
<1>3. /\ UpdateRun(r, row)
      /\ AppendEvent(r, "STAGE_STARTED", l.owner, l.fence, None, None, stage)
      /\ UNCHANGED <<effects, checkpoints>>
  BY DEF AdvanceStage
<1>4. /\ row \in Run /\ row.status = runs[r].status /\ row.stage = stage
      /\ row.lease_owner = runs[r].lease_owner /\ row.fence_token = runs[r].fence_token
  BY <1>2 DEF Run
<1> HIDE DEF row, r
<1>5. /\ events' = [events EXCEPT ![r] = Append(@, e)]
      /\ e \in Event /\ e.type = "STAGE_STARTED" /\ e.key = None /\ e.stage = stage
  BY <1>2, <1>3 DEF AppendEvent, Event, EventType
<1> HIDE DEF e
<1>6. /\ runs'[r].status = runs[r].status /\ runs'[r].stage = stage
      /\ runs'[r].lease_owner = runs[r].lease_owner
      /\ runs'[r].fence_token = runs[r].fence_token
  BY <1>2, <1>3, <1>4, RowReplaced DEF IInv
<1>7. RowFollows(runs[r], e, runs'[r])
  BY <1>2, <1>5, <1>6 DEF RowFollows, SetsStatus, SetsStage, IsClaim, Held
<1>8. e.key \notin Keys /\ e.type # "CHECKPOINT_RECORDED"
  BY <1>5, StoreAssumption
<1>9. events'[r] = Append(events[r], e)
  BY <1>2, <1>5 DEF IInv, TypeOK
<1> QED
  BY <1>1, <1>3, <1>5, <1>7, <1>8, <1>9 DEF Logged, r

(* record_checkpoint: one row more, and the event that counts it.          *)
LEMMA RecordCheckpointLogged ==
  ASSUME IInv, NEW l \in leases, NEW now \in Nat, NEW stage \in Stages,
         NEW evidence \in Evidence, RecordCheckpoint(l, stage, evidence, now)
  PROVE  \E e \in Event : Logged(l.run, e)
<1> DEFINE r == l.run
           row == [stage |-> stage, evidence |-> evidence]
           e == [type |-> "CHECKPOINT_RECORDED", owner |-> l.owner, fence |-> l.fence,
                 key |-> None, to |-> None, stage |-> None]
<1>1. OnlyRun(r)
  BY RecordCheckpointWrites DEF Writes, OnlyRun
<1>2. /\ r \in Runs /\ l.owner \in Owners /\ l.fence \in Nat /\ runs[r] \in Run
      /\ runs[r].status \in Held
  BY Admitted DEF RecordCheckpoint
<1>3. /\ AppendEvent(r, "CHECKPOINT_RECORDED", l.owner, l.fence, None, None, None)
      /\ UNCHANGED <<runs, effects>>
      /\ checkpoints' = [checkpoints EXCEPT ![r] = Append(@, row)]
  BY DEF RecordCheckpoint
<1>4. row \in Checkpoint
  BY DEF Checkpoint
<1> HIDE DEF row, r
<1>5. /\ events' = [events EXCEPT ![r] = Append(@, e)]
      /\ e \in Event /\ e.type = "CHECKPOINT_RECORDED" /\ e.key = None /\ e.stage = None
  BY <1>2, <1>3 DEF AppendEvent, Event, EventType
<1> HIDE DEF e
<1>6. checkpoints'[r] = Append(checkpoints[r], row)
  BY <1>2, <1>3 DEF IInv, TypeOK
<1>7. RowFollows(runs[r], e, runs'[r])
  BY <1>2, <1>3, <1>5 DEF RowFollows, SetsStatus, SetsStage, IsClaim, Held
<1>8. e.key \notin Keys /\ e.type = "CHECKPOINT_RECORDED"
  BY <1>5, StoreAssumption
<1>9. events'[r] = Append(events[r], e)
  BY <1>2, <1>5 DEF IInv, TypeOK
<1> QED
  BY <1>1, <1>3, <1>4, <1>5, <1>6, <1>7, <1>8, <1>9 DEF Logged, r

(* An operation of the ledger that appends an event changes the status of  *)
(* its own entry to what the event says, and leaves the row alone.         *)
LEMMA LedgerLogged ==
  ASSUME IInv, NEW l \in leases, NEW now \in Nat, NEW k \in Keys, HoldsLease(l, now),
         NEW effect \in Effect, effect.status \in EffectStatus,
         NEW type \in {"EFFECT_STARTED", "EFFECT_BECAME_UNKNOWN", "EFFECT_FINISHED",
                       "EFFECT_RECONCILED"},
         OnlyRun(l.run), UpdateEffect(l.run, k, effect), UNCHANGED <<runs, checkpoints>>,
         AppendEvent(l.run, type, l.owner, l.fence, k, effect.status, None)
  PROVE  \E e \in Event : Logged(l.run, e)
<1> DEFINE r == l.run
           to == effect.status
           e == [type |-> type, owner |-> l.owner, fence |-> l.fence,
                 key |-> k, to |-> to, stage |-> None]
<1>1. /\ r \in Runs /\ l.owner \in Owners /\ l.fence \in Nat
      /\ runs[r].status \in Held
  BY Admitted
<1>2. to # "ABSENT" /\ to \in EffectStatus
  BY DEF EffectStatus
<1>3. /\ effects'[r][k].status = to
      /\ \A j \in Keys : j # k => effects'[r][j] = effects[r][j]
  BY <1>1, UpdateEffectType DEF IInv
<1> HIDE DEF r, to
<1>4. /\ events' = [events EXCEPT ![r] = Append(@, e)]
      /\ e \in Event /\ e.type = type /\ e.key = k /\ e.to = to
  BY <1>1, <1>2 DEF AppendEvent, Event, EventType, r, to
<1> HIDE DEF e
<1>5. events'[r] = Append(events[r], e)
  BY <1>1, <1>4 DEF IInv, TypeOK
<1>6. RowFollows(runs[r], e, runs'[r])
  BY <1>1, <1>4 DEF RowFollows, SetsStatus, SetsStage, IsClaim, Held
<1>7. e.type # "CHECKPOINT_RECORDED"
  BY <1>4
<1> QED
  BY <1>1, <1>2, <1>3, <1>4, <1>5, <1>6, <1>7 DEF Logged, r

(* begin_effect appends an event, or silently restarts a failed operation. *)
LEMMA BeginEffectLogged ==
  ASSUME IInv, NEW l \in leases, NEW now \in Nat, NEW k \in Keys,
         NEW request \in Requests, BeginEffect(l, k, request, now)
  PROVE  (\E e \in Event : Logged(l.run, e)) \/ Restarted(l.run)
<1> DEFINE old == effects[l.run][k]
<1>1. OnlyRun(l.run)
  BY BeginEffectWrites DEF Writes, OnlyRun
<1>2. /\ HoldsLease(l, now) /\ UNCHANGED <<runs, checkpoints>>
  BY DEF BeginEffect
<1>3. l.run \in Runs /\ l.fence \in Nat /\ old \in Effect
  BY <1>2, Admitted DEF IInv, TypeOK
<1>4. CASE EffectStarts(l, k, request)
  <2> DEFINE effect == [status |-> "STARTED", request |-> request,
                        fence_token |-> l.fence, result |-> None]
  <2>1. effect \in Effect /\ effect.status = "STARTED"
    BY <1>3 DEF Effect, EffectStatus
  <2>2. /\ UpdateEffect(l.run, k, effect)
        /\ AppendEvent(l.run, "EFFECT_STARTED", l.owner, l.fence, k, "STARTED", None)
    BY <1>4 DEF EffectStarts
  <2> HIDE DEF effect
  <2> QED
    BY <1>1, <1>2, <2>1, <2>2, LedgerLogged DEF EffectStatus
<1>5. CASE EffectRestarts(l, k, request)
  <2> DEFINE effect == [old EXCEPT !.status = "STARTED", !.fence_token = l.fence]
  <2>1. effect \in Effect /\ effect.status = "STARTED" /\ old.status = "FAILED"
    BY <1>3, <1>5 DEF Effect, EffectStatus, EffectRestarts
  <2>2. UpdateEffect(l.run, k, effect) /\ UNCHANGED events
    BY <1>5 DEF EffectRestarts
  <2> HIDE DEF effect
  <2>3. /\ effects'[l.run][k].status = "STARTED"
        /\ \A j \in Keys : j # k => effects'[l.run][j] = effects[l.run][j]
    BY <1>3, <2>1, <2>2, UpdateEffectType DEF IInv
  <2> QED
    BY <1>1, <1>2, <2>1, <2>2, <2>3 DEF Restarted
<1>6. CASE EffectBecomesUnknown(l, k, request)
  <2> DEFINE effect == [old EXCEPT !.status = "UNKNOWN"]
  <2>1. effect \in Effect /\ effect.status = "UNKNOWN"
    BY <1>3 DEF Effect, EffectStatus
  <2>2. /\ UpdateEffect(l.run, k, effect)
        /\ AppendEvent(l.run, "EFFECT_BECAME_UNKNOWN", l.owner, l.fence, k,
                       "UNKNOWN", None)
    BY <1>6 DEF EffectBecomesUnknown
  <2> HIDE DEF effect
  <2> QED
    BY <1>1, <1>2, <2>1, <2>2, LedgerLogged DEF EffectStatus
<1> QED
  BY <1>4, <1>5, <1>6 DEF BeginEffect

(* finish_effect: the verdict is the event's.                              *)
LEMMA FinishEffectLogged ==
  ASSUME IInv, NEW l \in leases, NEW now \in Nat, NEW k \in Keys,
         NEW succeeded \in BOOLEAN, NEW result \in Evidence \cup {None},
         FinishEffect(l, k, succeeded, result, now)
  PROVE  \E e \in Event : Logged(l.run, e)
<1> DEFINE old == effects[l.run][k]
           status == Verdict(succeeded)
           effect == [old EXCEPT !.status = status, !.result = result]
<1>1. OnlyRun(l.run)
  BY FinishEffectWrites DEF Writes, OnlyRun
<1>2. /\ HoldsLease(l, now) /\ UNCHANGED <<runs, checkpoints>>
      /\ UpdateEffect(l.run, k, effect)
      /\ AppendEvent(l.run, "EFFECT_FINISHED", l.owner, l.fence, k, status, None)
  BY DEF FinishEffect
<1>3. l.run \in Runs /\ old \in Effect
  BY <1>2, Admitted DEF IInv, TypeOK
<1>4. status \in EffectStatus
  BY DEF Verdict, EffectStatus
<1> HIDE DEF status
<1>5. effect \in Effect /\ effect.status = status
  BY <1>3, <1>4 DEF Effect
<1> HIDE DEF effect
<1> QED
  BY <1>1, <1>2, <1>4, <1>5, LedgerLogged

(* reconcile_effect: the verdict is the event's.                           *)
LEMMA ReconcileEffectLogged ==
  ASSUME IInv, NEW l \in leases, NEW now \in Nat, NEW k \in Keys,
         NEW succeeded \in BOOLEAN, NEW evidence \in Evidence,
         ReconcileEffect(l, k, succeeded, evidence, now)
  PROVE  \E e \in Event : Logged(l.run, e)
<1> DEFINE old == effects[l.run][k]
           status == Verdict(succeeded)
           outcome == IF succeeded THEN evidence ELSE None
           effect == [old EXCEPT !.status = status, !.result = outcome,
                                 !.fence_token = l.fence]
<1>1. OnlyRun(l.run)
  BY ReconcileEffectWrites DEF Writes, OnlyRun
<1>2. /\ HoldsLease(l, now) /\ UNCHANGED <<runs, checkpoints>>
      /\ UpdateEffect(l.run, k, effect)
      /\ AppendEvent(l.run, "EFFECT_RECONCILED", l.owner, l.fence, k, status, None)
  BY DEF ReconcileEffect
<1>3. l.run \in Runs /\ l.fence \in Nat /\ old \in Effect
  BY <1>2, Admitted DEF IInv, TypeOK
<1>4. status \in EffectStatus
  BY DEF Verdict, EffectStatus
<1> HIDE DEF status
<1>5. effect \in Effect /\ effect.status = status
  BY <1>3, <1>4 DEF Effect
<1> HIDE DEF effect
<1> QED
  BY <1>1, <1>2, <1>4, <1>5, LedgerLogged

(* Every step of the store appends one event that tells what it did,       *)
(* restarts a failed operation, or leaves the rows and the logs alone.     *)
LEMMA StepLogged ==
  ASSUME IInv, [StoreNext]_storeVars
  PROVE  \/ \E r \in Runs : Restarted(r) \/ \E e \in Event : Logged(r, e)
         \/ UNCHANGED <<runs, effects, checkpoints, events>>
<1> DEFINE Goal == \/ \E r \in Runs : Restarted(r) \/ \E e \in Event : Logged(r, e)
                   \/ UNCHANGED <<runs, effects, checkpoints, events>>
<1>1. \A now \in ClockReads : now \in Nat
  BY ClockReadsType DEF IInv
<1>2. \A l \in leases : l.run \in Runs
  BY DEF IInv, TypeOK, Lease
<1>3. CASE ClaimStep
  <2>1. PICK r \in Runs, now \in ClockReads :
          \/ CreateRun(r, now)
          \/ \E owner \in Owners : \/ ClaimNext(r, owner, now)
                                 \/ AcquireRun(r, owner, now)
                                 \/ ReenterRun(r, owner, now)
    BY <1>3 DEF ClaimStep
  <2>2. CASE CreateRun(r, now)
    BY <1>1, <2>2, CreateRunLogged
  <2>3. ASSUME NEW owner \in Owners, ClaimNext(r, owner, now) \/ AcquireRun(r, owner, now)
        PROVE  Goal
    <3>1. Grant(r, owner, now)
      BY <2>3 DEF ClaimNext, AcquireRun
    <3> QED
      BY <1>1, <3>1, GrantLogged
  <2>4. ASSUME NEW owner \in Owners, ReenterRun(r, owner, now) PROVE Goal
    BY <2>4 DEF ReenterRun
  <2> QED
    BY <2>1, <2>2, <2>3, <2>4
<1>4. CASE HolderStep
  <2>1. PICK l \in leases, now \in ClockReads :
          \/ RenewLease(l, now)
          \/ \E target \in RunStatus, stage \in Stages \cup {None},
                result \in Evidence \cup {None}, error \in Errors \cup {None} :
               Transition(l, target, stage, result, error, now)
          \/ \E stage \in Stages : AdvanceStage(l, stage, now)
          \/ \E stage \in Stages, evidence \in Evidence :
               RecordCheckpoint(l, stage, evidence, now)
    BY <1>4 DEF HolderStep
  <2>2. \E e \in Event : Logged(l.run, e)
    BY <1>1, <2>1, RenewLeaseLogged, TransitionLogged, AdvanceStageLogged,
       RecordCheckpointLogged
  <2> QED
    BY <1>2, <2>2
<1>5. CASE EffectStep
  <2>1. PICK l \in leases, k \in Keys, now \in ClockReads :
          \/ \E request \in Requests : BeginEffect(l, k, request, now)
          \/ \E succeeded \in BOOLEAN, result \in Evidence \cup {None} :
               FinishEffect(l, k, succeeded, result, now)
          \/ \E succeeded \in BOOLEAN, evidence \in Evidence :
               ReconcileEffect(l, k, succeeded, evidence, now)
    BY <1>5 DEF EffectStep
  <2>2. (\E e \in Event : Logged(l.run, e)) \/ Restarted(l.run)
    BY <1>1, <2>1, BeginEffectLogged, FinishEffectLogged, ReconcileEffectLogged
  <2> QED
    BY <1>2, <2>2
<1>6. CASE Tick \/ UNCHANGED storeVars
  BY <1>6 DEF Tick, storeVars
<1> QED
  BY <1>3, <1>4, <1>5, <1>6 DEF StoreNext

-----------------------------------------------------------------------------
(* What the audit log keeps: it explains the rows and the ledger, and      *)
(* lists each checkpoint once.                                             *)

EntryExplained(log, k, status) ==
  /\ status = "ABSENT" <=> LastIn(log, Concerning(k)) = {}
  /\ \A i \in LastIn(log, Concerning(k)) :
       \/ status = log[i].to
       \/ status = "STARTED" /\ log[i].to = "FAILED"

EntriesExplained ==
  \A r \in Runs, k \in Keys : EntryExplained(events[r], k, effects[r][k].status)

RecordedIn(log) == {i \in DOMAIN log : log[i].type = "CHECKPOINT_RECORDED"}

AuditCountsCheckpoints ==
  \A r \in Runs : /\ IsFiniteSet(RecordedIn(events[r]))
                  /\ Cardinality(RecordedIn(events[r])) = Len(checkpoints[r])

AuditInv == AuditExplainsRun /\ AuditExplainsEffect /\ AuditCountsCheckpoints

(* The property, in terms of sets of events.                               *)
LEMMA LedgerExplained == TypeOK => (AuditExplainsEffect <=> EntriesExplained)
<1> SUFFICES ASSUME TypeOK PROVE AuditExplainsEffect <=> EntriesExplained
  OBVIOUS
<1> DEFINE About(r, k) ==
             {i \in DOMAIN events[r] :
                /\ events[r][i].key = k
                /\ \A j \in DOMAIN events[r] : j > i => ~(events[r][j].key = k)}
           Explained(r, k) ==
             /\ effects[r][k].status = "ABSENT" <=> About(r, k) = {}
             /\ \A i \in About(r, k) :
                  \/ effects[r][k].status = events[r][i].to
                  \/ effects[r][k].status = "STARTED" /\ events[r][i].to = "FAILED"
<1>1. AuditExplainsEffect <=> \A r \in Runs, k \in Keys : Explained(r, k)
  BY DEF AuditExplainsEffect, Latest
<1>2. ASSUME NEW r \in Runs, NEW k \in Keys
      PROVE  About(r, k) = LastIn(events[r], Concerning(k))
  <2>1. \A i \in DOMAIN events[r] : events[r][i] \in Event
    BY ElementOfSeq DEF TypeOK
  <2>2. \A i \in DOMAIN events[r] :
          events[r][i] \in Concerning(k) <=> events[r][i].key = k
    BY <2>1 DEF Concerning
  <2> QED
    BY <2>2 DEF LastIn
<1> HIDE DEF About
<1>3. \A r \in Runs, k \in Keys :
        Explained(r, k) <=> EntryExplained(events[r], k, effects[r][k].status)
  BY <1>2 DEF EntryExplained
<1> HIDE DEF Explained
<1> QED
  BY <1>1, <1>3 DEF EntriesExplained

(* A log that explains an entry explains the next one when it is extended  *)
(* by the event that led there.                                            *)
LEMMA EntryAppend ==
  ASSUME NEW log \in Seq(Event), NEW e \in Event, NEW k, NEW old, NEW new,
         EntryExplained(log, k, old),
         IF e.key = k THEN new = e.to /\ new # "ABSENT" ELSE new = old
  PROVE  EntryExplained(Append(log, e), k, new)
<1>1. e \in Concerning(k) <=> e.key = k
  BY DEF Concerning
<1>2. CASE e.key = k
  <2>1. /\ LastIn(Append(log, e), Concerning(k)) = {Len(log) + 1}
        /\ Append(log, e)[Len(log) + 1] = e
    BY <1>1, <1>2, LastInAppend
  <2> QED
    BY <1>2, <2>1 DEF EntryExplained
<1>3. CASE e.key # k
  <2>1. LastIn(Append(log, e), Concerning(k)) = LastIn(log, Concerning(k))
    BY <1>1, <1>3, LastInAppend
  <2>2. \A i \in LastIn(log, Concerning(k)) : Append(log, e)[i] = log[i]
    BY AppendProperties, LenProperties DEF LastIn
  <2> QED
    BY <1>3, <2>1, <2>2 DEF EntryExplained
<1> QED
  BY <1>2, <1>3

(* An event adds to the checkpoints the log lists exactly if it records one.*)
LEMMA RecordedAppend ==
  ASSUME NEW log \in Seq(Event), NEW e \in Event, IsFiniteSet(RecordedIn(log))
  PROVE  /\ IsFiniteSet(RecordedIn(Append(log, e)))
         /\ Cardinality(RecordedIn(Append(log, e))) =
              IF e.type = "CHECKPOINT_RECORDED" THEN Cardinality(RecordedIn(log)) + 1
                                                ELSE Cardinality(RecordedIn(log))
<1> DEFINE n == Len(log)
           new == Append(log, e)
<1>1. /\ n \in Nat /\ DOMAIN log = 1..n /\ DOMAIN new = 1..(n + 1)
      /\ \A i \in 1..n : new[i] = log[i]
      /\ new[n + 1] = e
  BY AppendProperties, LenProperties
<1> HIDE DEF n, new
<1>2. CASE e.type = "CHECKPOINT_RECORDED"
  <2>1. RecordedIn(new) = RecordedIn(log) \cup {n + 1} /\ n + 1 \notin RecordedIn(log)
    BY <1>1, <1>2 DEF RecordedIn
  <2> QED
    BY <1>2, <2>1, FS_AddElement DEF new
<1>3. CASE e.type # "CHECKPOINT_RECORDED"
  <2>1. RecordedIn(new) = RecordedIn(log)
    BY <1>1, <1>3 DEF RecordedIn
  <2> QED
    BY <1>3, <2>1 DEF new
<1> QED
  BY <1>2, <1>3

(* The empty log explains the empty database.                              *)
LEMMA AuditInit == StoreInit => AuditInv
<1> SUFFICES ASSUME StoreInit PROVE AuditInv
  OBVIOUS
<1>1. /\ runs = [r \in Runs |-> AbsentRun] /\ events = [r \in Runs |-> <<>>]
      /\ effects = [r \in Runs |-> [k \in Keys |-> AbsentEffect]]
      /\ checkpoints = [r \in Runs |-> <<>>]
  BY DEF StoreInit
<1>2. <<>> \in Seq(Event) /\ DOMAIN <<>> = {} /\ Len(<<>>) = 0
  BY EmptySeq
<1>3. AuditExplainsRun
  BY <1>1, <1>2 DEF AuditExplainsRun, Explains, Latest, AbsentRun
<1>4. AuditExplainsEffect
  <2>1. TypeOK
    BY InvInit DEF Inv, IInv
  <2>2. \A k \in Keys : LastIn(<<>>, Concerning(k)) = {}
    BY <1>2 DEF LastIn
  <2> QED
    BY <1>1, <2>1, <2>2, LedgerExplained
       DEF EntriesExplained, EntryExplained, AbsentEffect
<1>5. AuditCountsCheckpoints
  <2>1. RecordedIn(<<>>) = {}
    BY <1>2 DEF RecordedIn
  <2> QED
    BY <1>1, <1>2, <2>1, FS_EmptySet DEF AuditCountsCheckpoints
<1> QED
  BY <1>3, <1>4, <1>5 DEF AuditInv

(* Every step preserves it.                                                *)
LEMMA AuditNext == Inv /\ AuditInv /\ [StoreNext]_storeVars => AuditInv'
<1> SUFFICES ASSUME Inv, AuditInv, [StoreNext]_storeVars PROVE AuditInv'
  OBVIOUS
<1>1. /\ events \in [Runs -> Seq(Event)] /\ events' \in [Runs -> Seq(Event)]
      /\ checkpoints \in [Runs -> Seq(Checkpoint)]
  BY InvNext DEF Inv, IInv, TypeOK
<1>2. \A s \in Runs : Explains(events[s], runs[s])
  BY DEF AuditInv, AuditExplainsRun
<1>3. \A s \in Runs, k \in Keys : EntryExplained(events[s], k, effects[s][k].status)
  BY LedgerExplained DEF Inv, IInv, AuditInv, EntriesExplained
<1>4. \A s \in Runs : /\ IsFiniteSet(RecordedIn(events[s]))
                      /\ Cardinality(RecordedIn(events[s])) = Len(checkpoints[s])
  BY DEF AuditInv, AuditCountsCheckpoints
<1>5. (\A s \in Runs, k \in Keys :
         EntryExplained(events'[s], k, effects'[s][k].status)) => AuditExplainsEffect'
  <2>1. (TypeOK => (AuditExplainsEffect <=> EntriesExplained))'
    BY LedgerExplained, PTL
  <2> QED
    BY <2>1, InvNext DEF Inv, IInv, EntriesExplained
<1>6. ASSUME NEW r \in Runs, NEW e \in Event, Logged(r, e) PROVE AuditInv'
  <2>1. /\ OnlyRun(r) /\ events'[r] = Append(events[r], e) /\ events[r] \in Seq(Event)
        /\ RowFollows(runs[r], e, runs'[r])
    BY <1>1, <1>6 DEF Logged
  <2>2. \A s \in Runs : Explains(events'[s], runs'[s])
    BY <1>2, <2>1, ExplainsAppend DEF OnlyRun
  <2>3. \A s \in Runs, k \in Keys :
          EntryExplained(events'[s], k, effects'[s][k].status)
    <3> TAKE s \in Runs, k \in Keys
    <3>1. CASE s = r
      <4>1. IF e.key = k
            THEN effects'[r][k].status = e.to /\ effects'[r][k].status # "ABSENT"
            ELSE effects'[r][k].status = effects[r][k].status
        BY <1>6 DEF Logged
      <4> QED
        BY <1>3, <2>1, <3>1, <4>1, EntryAppend
    <3>2. CASE s # r
      BY <1>3, <2>1, <3>2 DEF OnlyRun
    <3> QED
      BY <3>1, <3>2
  <2>4. \A s \in Runs : /\ IsFiniteSet(RecordedIn(events'[s]))
                        /\ Cardinality(RecordedIn(events'[s])) = Len(checkpoints'[s])
    <3> TAKE s \in Runs
    <3>1. CASE s = r
      <4>1. checkpoints[r] \in Seq(Checkpoint)
        BY <1>1
      <4>2. Len(checkpoints'[r]) = IF e.type = "CHECKPOINT_RECORDED"
                                   THEN Len(checkpoints[r]) + 1 ELSE Len(checkpoints[r])
        BY <1>6, <4>1, AppendProperties DEF Logged
      <4> QED
        BY <1>4, <2>1, <3>1, <4>2, RecordedAppend
    <3>2. CASE s # r
      BY <1>4, <2>1, <3>2 DEF OnlyRun
    <3> QED
      BY <3>1, <3>2
  <2> QED
    BY <1>5, <2>2, <2>3, <2>4 DEF AuditInv, AuditExplainsRun, AuditCountsCheckpoints
<1>7. ASSUME NEW r \in Runs, Restarted(r) PROVE AuditInv'
  <2>1. /\ runs' = runs /\ events' = events /\ checkpoints' = checkpoints
        /\ OnlyRun(r)
    BY <1>7 DEF Restarted
  <2>2. \A s \in Runs, k \in Keys :
          EntryExplained(events'[s], k, effects'[s][k].status)
    <3> TAKE s \in Runs, k \in Keys
    <3>1. \/ effects'[s][k].status = effects[s][k].status
          \/ effects[s][k].status = "FAILED" /\ effects'[s][k].status = "STARTED"
      BY <1>7 DEF Restarted, OnlyRun
    <3> QED
      BY <1>3, <2>1, <3>1 DEF EntryExplained
  <2> QED
    BY <1>2, <1>4, <1>5, <2>1, <2>2
       DEF AuditInv, AuditExplainsRun, AuditCountsCheckpoints
<1>8. ASSUME UNCHANGED <<runs, effects, checkpoints, events>> PROVE AuditInv'
  <2>1. /\ runs' = runs /\ events' = events /\ checkpoints' = checkpoints
        /\ effects' = effects
    BY <1>8
  <2>2. AuditExplainsEffect'
    BY <1>3, <1>5, <2>1
  <2> QED
    BY <1>2, <1>4, <2>1, <2>2 DEF AuditInv, AuditExplainsRun, AuditCountsCheckpoints
<1> QED
  BY <1>6, <1>7, <1>8, StepLogged DEF Inv

(* The audit log is complete at every moment.                              *)
THEOREM AuditInvariant == StoreSpec => []AuditInv
BY AuditInit, AuditNext, StoreInvariant, PTL DEF StoreSpec

(* The events of a run alone lead to its row: its status, stage, token and *)
(* holder are those the last event about each left, whoever wrote them and *)
(* in whatever order the callers came.                                     *)
THEOREM LogExplainsRow == StoreSpec => []AuditExplainsRun
BY AuditInvariant, PTL DEF AuditInv

(* An operation has the status its last event says, except a failed one    *)
(* that is being executed again, which begin_effect restarts without an    *)
(* event.                                                                  *)
THEOREM LogExplainsLedger == StoreSpec => []AuditExplainsEffect
BY AuditInvariant, PTL DEF AuditInv
===============================================================================
