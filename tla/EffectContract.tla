---------------------------- MODULE EffectContract ----------------------------
(***************************************************************************)
(* What the effect ledger promises to its callers, without leases, clocks  *)
(* or rows.  A run passes through epochs, one per lease.  A slot is one    *)
(* operation of a run; it is executed by one epoch at a time:              *)
(*                                                                         *)
(*            Start                Confirm                                 *)
(*   idle ------------->  open  ------------->  done   (for ever)          *)
(*   void ------------->   |   ------------->  void                        *)
(*                         | Doubt (a later epoch)                         *)
(*                         v            Adjudicate                         *)
(*                       doubt ------------->  done or void                *)
(***************************************************************************)
EXTENDS Integers

CONSTANTS Runs, Keys, Requests, Results, None

VARIABLES
  epoch,  \* epoch[r]: the epoch run r is in
  slot    \* slot[r][k]: operation k of run r

vars == <<epoch, slot>>

Slot ==
  [phase : {"idle", "open", "doubt", "done", "void"},
   request : Requests \cup {None},
   executor : Nat,
   result : Results \cup {None}]

Idle == [phase |-> "idle", request |-> None, executor |-> 0, result |-> None]

Init ==
  /\ epoch = [r \in Runs |-> 0]
  /\ slot = [r \in Runs |-> [k \in Keys |-> Idle]]

(* The run changes hands; what its operations are in stays.                *)
NewEpoch(r) ==
  /\ epoch' = [epoch EXCEPT ![r] = @ + 1]
  /\ UNCHANGED slot

Becomes(r, k, phase, request, executor, result) ==
  /\ slot' = [slot EXCEPT ![r][k] =
       [phase |-> phase, request |-> request, executor |-> executor,
        result |-> result]]
  /\ UNCHANGED epoch

(* The current epoch executes: the first time with any request, after a    *)
(* known failure with the request the slot is bound to.                    *)
Start(r, k, request) ==
  /\ \/ slot[r][k].phase = "idle"
     \/ slot[r][k].phase = "void" /\ slot[r][k].request = request
  /\ Becomes(r, k, "open", request, epoch[r], None)

(* The executor reports, and only while the run is still in its epoch.     *)
Confirm(r, k, phase, result) ==
  /\ slot[r][k].phase = "open"
  /\ slot[r][k].executor = epoch[r]
  /\ Becomes(r, k, phase, slot[r][k].request, epoch[r], result)

(* A later epoch meets an execution nobody will confirm any more.          *)
Doubt(r, k) ==
  /\ slot[r][k].phase = "open"
  /\ slot[r][k].executor < epoch[r]
  /\ Becomes(r, k, "doubt", slot[r][k].request, slot[r][k].executor, None)

(* The current epoch, never the executor's, settles the doubt.             *)
Adjudicate(r, k, phase, result) ==
  /\ slot[r][k].phase = "doubt"
  /\ slot[r][k].executor < epoch[r]
  /\ Becomes(r, k, phase, slot[r][k].request, epoch[r], result)

Outcome(phase, result) ==
  \/ phase = "done" /\ result \in Results \cup {None}
  \/ phase = "void" /\ result = None

Next ==
  \E r \in Runs :
    \/ NewEpoch(r)
    \/ \E k \in Keys :
         \/ \E request \in Requests : Start(r, k, request)
         \/ Doubt(r, k)
         \/ \E phase \in {"done", "void"}, result \in Results \cup {None} :
              /\ Outcome(phase, result)
              /\ Confirm(r, k, phase, result) \/ Adjudicate(r, k, phase, result)

Spec == Init /\ [][Next]_vars
===============================================================================
