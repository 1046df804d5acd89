----------------------------- MODULE BytecodeCache -----------------------------
(***************************************************************************)
(* What the tests of a worktree really execute.  Python keeps the compiled *)
(* form of a source file and uses it as long as the source has the second  *)
(* of modification and the size it had when it was compiled.  A patch that *)
(* keeps the size and is applied in the second of the checkout is not      *)
(* noticed; apply_patch (workspace.py) therefore deletes the bytecode of   *)
(* the files it touched, before it confirms the operation, and again when  *)
(* it reconciles one.                                                      *)
(*                                                                         *)
(* One run, one patched file.  Workers claim the run, reproduce, apply and *)
(* verify; they crash and stall, and the test command of a worker that is  *)
(* gone goes on running.  Of the store there is the lease and the state of *)
(* the apply operation; RunStore and RepairPipeline have the rest.         *)
(***************************************************************************)
EXTENDS Naturals

CONSTANTS
  Workers,       \* worker processes
  Tests,         \* processes of the test command
  SizeKept,      \* does the patch keep the size of the file?
  LeaseSeconds,  \* length of a lease
  None

ASSUME BytecodeAssumption ==
  /\ SizeKept \in BOOLEAN
  /\ LeaseSeconds \in Nat \ {0}
  /\ None \notin Workers /\ None \notin Tests

VARIABLES
  second,  \* the clock, of the file system and of the store
  source,  \* the file: patched or not, and its second of modification
  cache,   \* the bytecode: from which source, of which second; or None
  run,     \* holder and end of the lease, the operation, whether it has ended
  worker,  \* worker[w]: where worker w is, and the test command it waits for
  test     \* test[t]: where test command t is, and which source it executes

bytecodeVars == <<second, source, cache, run, worker, test>>

Codes == {"base", "patched"}
Compiled == [code : Codes, mtime : Nat]

Run ==
  [holder : Workers \cup {None}, expires : Nat,
   effect : {"ABSENT", "STARTED", "SUCCEEDED", "FAILED"}, ended : BOOLEAN]

Worker ==
  [at : {"idle", "reproduce", "reproducing", "begin", "git apply", "reverse check",
         "invalidate", "confirm", "disconfirm", "verify", "verifying", "judge", "raised"},
   test : Tests \cup {None}]

Test == [at : {"look", "read", "write", "ended"}, stamp : Nat, code : Codes]

-----------------------------------------------------------------------------
(* A test command imports the file.                                        *)

(* Bytecode made of another source has the same size only if the patch     *)
(* keeps it.                                                               *)
CacheIsValid ==
  /\ cache # None
  /\ cache.mtime = source.mtime
  /\ cache.code = source.code \/ SizeKept

Look(t) ==
  /\ test[t].at = "look"
  /\ test' = [test EXCEPT ![t] =
       IF CacheIsValid THEN [at |-> "ended", stamp |-> 0, code |-> cache.code]
                       ELSE [at |-> "read", stamp |-> source.mtime, code |-> "base"]]
  /\ UNCHANGED <<second, source, cache, run, worker>>

Read(t) ==
  /\ test[t].at = "read"
  /\ test' = [test EXCEPT ![t] =
       [at |-> "write", stamp |-> test[t].stamp, code |-> source.code]]
  /\ UNCHANGED <<second, source, cache, run, worker>>

Write(t) ==
  /\ test[t].at = "write"
  /\ cache' = [code |-> test[t].code, mtime |-> test[t].stamp]
  /\ test' = [test EXCEPT ![t] =
       [at |-> "ended", stamp |-> 0, code |-> test[t].code]]
  /\ UNCHANGED <<second, source, run, worker>>

-----------------------------------------------------------------------------
(* A worker's attempt at the run.                                          *)

Becomes(w, at, t) == worker' = [worker EXCEPT ![w] = [at |-> at, test |-> t]]
Goto(w, next) == Becomes(w, next, None)
At(w, here) == worker[w].at = here

(* A store call reads the clock before its transaction begins, however     *)
(* long before.                                                            *)
ClockReads == 0..second

Holds(w) == run.holder = w /\ ~run.ended /\ \E now \in ClockReads : now < run.expires

Claim(w) ==
  /\ At(w, "idle")
  /\ ~run.ended
  /\ \E now \in ClockReads :
       /\ run.holder = None \/ run.expires <= now
       /\ run' = [run EXCEPT !.holder = w, !.expires = now + LeaseSeconds]
  /\ Goto(w, "reproduce")
  /\ UNCHANGED <<second, source, cache, test>>

RunTest(w, here, next) ==
  /\ At(w, here)
  /\ \E t \in Tests :
       /\ test[t].at = "ended"
       /\ \A v \in Workers : worker[v].test # t
       /\ test' = [test EXCEPT ![t] = [at |-> "look", stamp |-> 0, code |-> "base"]]
       /\ Becomes(w, next, t)
  /\ UNCHANGED <<second, source, cache, run>>

(* The test fails if it executes the base.                                 *)
Reproduced(w) ==
  /\ At(w, "reproducing")
  /\ \E t \in Tests :
       /\ t = worker[w].test /\ test[t].at = "ended"
       /\ Goto(w, IF test[t].code = "base" THEN "begin" ELSE "raised")
  /\ UNCHANGED <<second, source, cache, run, test>>

(* An operation started by an earlier holder is in doubt.                  *)
BeginApply(w) ==
  /\ At(w, "begin") /\ Holds(w)
  /\ \/ /\ run.effect \in {"ABSENT", "FAILED"}
        /\ run' = [run EXCEPT !.effect = "STARTED"]
        /\ Goto(w, "git apply")
     \/ run.effect = "STARTED" /\ Goto(w, "reverse check") /\ UNCHANGED run
     \/ run.effect = "SUCCEEDED" /\ Goto(w, "verify") /\ UNCHANGED run
  /\ UNCHANGED <<second, source, cache, test>>

Following_ConfirmsFirst ==    \* mutant: bytecode is deleted after the confirmation
  [applied |-> "confirm", confirmed |-> "invalidate", invalidated |-> "verify"]

(* Where apply_patch goes on once the patch is there.                      *)
Following ==
  [applied |-> "invalidate", invalidated |-> "confirm", confirmed |-> "verify"]

GitApply(w) ==
  /\ At(w, "git apply")
  /\ IF source.code = "base"
     THEN /\ source' = [code |-> "patched", mtime |-> second]
          /\ Goto(w, Following.applied)
     ELSE Goto(w, "disconfirm") /\ UNCHANGED source
  /\ UNCHANGED <<second, cache, run, test>>

ReverseCheck_TrustsBytecode(w) ==    \* mutant: only a new patch invalidates
  /\ At(w, "reverse check")
  /\ Goto(w, IF source.code = "patched" THEN "confirm" ELSE "disconfirm")
  /\ UNCHANGED <<second, source, cache, run, test>>

ReverseCheck(w) ==
  /\ At(w, "reverse check")
  /\ Goto(w, IF source.code = "patched" THEN Following.applied ELSE "disconfirm")
  /\ UNCHANGED <<second, source, cache, run, test>>

Invalidate(w) ==
  /\ At(w, "invalidate")
  /\ cache' = None
  /\ Goto(w, Following.invalidated)
  /\ UNCHANGED <<second, source, run, test>>

Confirm(w) ==
  /\ At(w, "confirm") /\ Holds(w)
  /\ run' = [run EXCEPT !.effect = "SUCCEEDED"]
  /\ Goto(w, Following.confirmed)
  /\ UNCHANGED <<second, source, cache, test>>

(* Nothing was applied: the operation has failed, and the run with it.     *)
Disconfirm(w) ==
  /\ At(w, "disconfirm") /\ Holds(w)
  /\ run' = [run EXCEPT !.effect = "FAILED"]
  /\ Goto(w, "raised")
  /\ UNCHANGED <<second, source, cache, test>>

Verified(w) ==
  /\ At(w, "verifying")
  /\ \E t \in Tests :
       /\ t = worker[w].test /\ test[t].at = "ended"
       /\ Becomes(w, "judge", t)
  /\ UNCHANGED <<second, source, cache, run, test>>

(* Success or failure, if the worker still may (Leave if not).             *)
End(w) ==
  /\ worker[w].at \in {"judge", "raised"}
  /\ Holds(w)
  /\ run' = [run EXCEPT !.ended = TRUE, !.holder = None]
  /\ Goto(w, "idle")
  /\ UNCHANGED <<second, source, cache, test>>

(* A timeout or another exception.                                         *)
Raises(w) ==
  /\ worker[w].at \notin {"idle", "raised"}
  /\ Goto(w, "raised")
  /\ UNCHANGED <<second, source, cache, run, test>>

(* LeaseLost, or the end of the process; its test command goes on.         *)
Leave(w) ==
  /\ ~At(w, "idle")
  /\ Goto(w, "idle")
  /\ UNCHANGED <<second, source, cache, run, test>>

Pass ==
  /\ second' = second + 1
  /\ UNCHANGED <<source, cache, run, worker, test>>

-----------------------------------------------------------------------------
(* The worst case: the checkout is of this very second (as that of the     *)
(* demo is, cli.py:130-150), and may have been imported.                   *)
BytecodeInit ==
  /\ second = 0
  /\ source = [code |-> "base", mtime |-> 0]
  /\ cache \in {None, [code |-> "base", mtime |-> 0]}
  /\ run = [holder |-> None, expires |-> 0, effect |-> "ABSENT", ended |-> FALSE]
  /\ worker = [w \in Workers |-> [at |-> "idle", test |-> None]]
  /\ test = [t \in Tests |-> [at |-> "ended", stamp |-> 0, code |-> "base"]]

WorkerStep(w) ==
  \/ Claim(w)
  \/ RunTest(w, "reproduce", "reproducing")
  \/ Reproduced(w)
  \/ BeginApply(w)
  \/ GitApply(w)
  \/ ReverseCheck(w)
  \/ Invalidate(w)
  \/ Confirm(w)
  \/ Disconfirm(w)
  \/ RunTest(w, "verify", "verifying")
  \/ Verified(w)
  \/ End(w)
  \/ Raises(w)
  \/ Leave(w)

BytecodeNext ==
  \/ \E t \in Tests : Look(t) \/ Read(t) \/ Write(t)
  \/ \E w \in Workers : WorkerStep(w)
  \/ Pass

BytecodeSpec == BytecodeInit /\ [][BytecodeNext]_bytecodeVars

-----------------------------------------------------------------------------
(* Properties.                                                             *)

(* A verification executes the source it is about, after a crash between   *)
(* patch and invalidation, on a replayed and on a reconciled operation, and*)
(* with test commands of lost workers still writing bytecode.  That a      *)
(* takeover is a second or more after the claim is what makes the latter   *)
(* harmless (workspace.py:178, 144, 168).                                  *)
VerifiesPatchedSource ==
  \A w \in Workers :
    At(w, "judge") => test[worker[w].test].code = source.code

(* Once the ledger has the patch as applied, replaying the confirmation    *)
(* needs no invalidation (workspace.py:165-166): no bytecode of the base   *)
(* is in use, or will be.                                                  *)
ConfirmedMeansFresh ==
  run.effect = "SUCCEEDED" /\ CacheIsValid => cache.code = source.code

-----------------------------------------------------------------------------
(* The inductive invariant (proved in PatchProofs).                        *)

BytecodeTypeOK ==
  /\ second \in Nat
  /\ source \in [code : Codes, mtime : Nat]
  /\ cache \in Compiled \cup {None}
  /\ run \in Run
  /\ worker \in [Workers -> Worker]
  /\ test \in [Tests -> Test]

(* Bytecode that would be used and is not that of the source, whether or   *)
(* not the patch keeps the size; once the patch is there without it, none  *)
(* ever comes back.                                                        *)
Stale == cache # None /\ cache.mtime = source.mtime /\ cache.code # source.code
Safe == source.code = "patched" /\ ~Stale

(* Before the patch there is nothing of it, and everything that was        *)
(* compiled or is being compiled has the second of the checkout.           *)
BeforePatch ==
  source.code = "base" =>
    /\ source.mtime = 0
    /\ cache # None => cache.code = "base"
    /\ \A t \in Tests : test[t].at \in {"read", "write"} => test[t].stamp = 0
    /\ \A t \in Tests : test[t].at \in {"write", "ended"} => test[t].code = "base"

(* After it, a test command that has read the base compiles it for another *)
(* second than the patch's.                                                *)
AfterPatch ==
  source.code = "patched" =>
    \A t \in Tests :
      test[t].at = "write" /\ test[t].code = "base" => test[t].stamp # source.mtime

(* What each worker knows of the worktree, for good.                       *)
Known ==
  /\ run.effect = "SUCCEEDED" => Safe
  /\ \A w \in Workers :
       /\ At(w, "invalidate") => source.code = "patched"
       /\ worker[w].at \in {"confirm", "verify", "verifying", "judge"} => Safe

(* The test command a verification waits for began after all that.         *)
Verifications ==
  \A w \in Workers : worker[w].at \in {"verifying", "judge"} =>
    LET t == worker[w].test
    IN  /\ t \in Tests
        /\ test[t].at \in {"write", "ended"} => test[t].code = "patched"
        /\ At(w, "judge") => test[t].at = "ended"

(* In the second of the checkout there is one attempt at most, for its     *)
(* lease lasts longer; no test command runs when it comes to git apply.    *)
Quiet(T) == \A t \in T : test[t].at = "ended"

FirstSecond ==
  second = 0 =>
    /\ run.holder # None => run.expires > 0
    /\ \A w \in Workers : ~At(w, "idle") => run.holder = w /\ ~run.ended
    /\ run.holder = None /\ ~run.ended => Quiet(Tests)
    /\ source.code = "base" =>
         \A w \in Workers :
           /\ worker[w].at \in {"reproduce", "begin", "git apply"} => Quiet(Tests)
           /\ At(w, "reproducing") => Quiet(Tests \ {worker[w].test})

BytecodeInv ==
  /\ BytecodeTypeOK
  /\ BeforePatch /\ AfterPatch
  /\ Known
  /\ Verifications
  /\ FirstSecond
===============================================================================
