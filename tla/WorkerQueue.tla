------------------------------ MODULE WorkerQueue ------------------------------
(***************************************************************************)
(* What becomes of many runs: the queue as calls of the worker command     *)
(* (cli.py) work it off.  A lease is live or has lapsed, and may lapse at  *)
(* any time; with the run it claimed, a worker has the repairer propose a  *)
(* candidate and ends the run, unless the process fails before that.  Time *)
(* has no bound here, so that "for ever" can be said; the details of a     *)
(* claim and of an attempt are in RunStore and RepairPipeline.             *)
(***************************************************************************)
EXTENDS Naturals

CONSTANTS
  Runs,           \* numbered in the order of submission
  Workers,        \* the processes that run the worker command, one call at a time
  Gone,           \* the runs whose worktree does not exist any more
  MaxCandidates,  \* bound: candidates counted
  None

ASSUME QueueAssumption ==
  Runs \subseteq Nat /\ Gone \subseteq Runs /\ MaxCandidates \in Nat

VARIABLES
  row,        \* row[r]: the run's status, and whether the lease is live
  holder,     \* holder[r]: the worker whose token the row has
  worker,     \* worker[w]: where the command is, and the run it claimed
  candidates  \* candidates[r]: how many were proposed for run r, as far as counted

vars == <<row, holder, worker, candidates>>

-----------------------------------------------------------------------------
(* "absent", "pending", "live" and "lapsed" (both RUNNING), "ended".       *)

Submit(r) ==
  /\ row[r] = "absent"
  /\ \A s \in Runs : s < r => row[s] # "absent"
  /\ row' = [row EXCEPT ![r] = "pending"]
  /\ UNCHANGED <<holder, worker, candidates>>

(* A lease lasts minutes, and looking for the worktree an instant: no      *)
(* lease runs out in between.                                              *)
Lapse(r) ==
  /\ row[r] = "live"
  /\ \A w \in Workers : worker[w] # [at |-> "open", run |-> r]
  /\ row' = [row EXCEPT ![r] = "lapsed"]
  /\ UNCHANGED <<holder, worker, candidates>>

First(S) == {r \in S : \A s \in S : r <= s}

Interrupted_AnyLease == {r \in Runs : row[r] \in {"live", "lapsed"}}    \* mutant

Interrupted == {r \in Runs : row[r] = "lapsed"}

(* Interrupted runs before pending ones, the oldest first.                 *)
NextInLine ==
  IF Interrupted # {} THEN First(Interrupted)
                      ELSE First({r \in Runs : row[r] = "pending"})

-----------------------------------------------------------------------------
Goto(w, next) == worker' = [worker EXCEPT ![w].at = next]
GoIdle(w) == worker' = [worker EXCEPT ![w] = [at |-> "idle", run |-> None]]

Claim(w, r) ==
  /\ worker[w].at = "idle"
  /\ r \in NextInLine
  /\ row' = [row EXCEPT ![r] = "live"]
  /\ holder' = [holder EXCEPT ![r] = w]
  /\ worker' = [worker EXCEPT ![w] = [at |-> "open", run |-> r]]
  /\ UNCHANGED candidates

(* LocalGitWorkspace raises if the worktree is not there, before execute   *)
(* could fail the run.                                                     *)
Open(w) ==
  /\ worker[w].at = "open"
  /\ IF worker[w].run \in Gone THEN GoIdle(w) ELSE Goto(w, "repair")
  /\ UNCHANGED <<row, holder, candidates>>

Propose(w) ==
  LET r == worker[w].run
  IN  /\ worker[w].at = "repair"
      /\ Goto(w, "end")
      /\ candidates' = IF candidates[r] < MaxCandidates
                       THEN [candidates EXCEPT ![r] = candidates[r] + 1]
                       ELSE candidates
      /\ UNCHANGED <<row, holder>>

(* Success or failure; a test that does not fail ends the run before a     *)
(* candidate is asked for.                                                 *)
End(w) ==
  LET r == worker[w].run
  IN  /\ worker[w].at \in {"repair", "end"}
      /\ row[r] = "live" /\ holder[r] = w
      /\ row' = [row EXCEPT ![r] = "ended"]
      /\ GoIdle(w)
      /\ UNCHANGED <<holder, candidates>>

LoseLease(w) ==
  LET r == worker[w].run
  IN  /\ worker[w].at \in {"repair", "end"}
      /\ ~(row[r] = "live" /\ holder[r] = w)
      /\ GoIdle(w)
      /\ UNCHANGED <<row, holder, candidates>>

Crash(w) ==
  /\ worker[w].at # "idle"
  /\ GoIdle(w)
  /\ UNCHANGED <<row, holder, candidates>>

-----------------------------------------------------------------------------
Init ==
  /\ row = [r \in Runs |-> "absent"]
  /\ holder = [r \in Runs |-> None]
  /\ worker = [w \in Workers |-> [at |-> "idle", run |-> None]]
  /\ candidates = [r \in Runs |-> 0]

Command(w) == Open(w) \/ Propose(w) \/ End(w) \/ LoseLease(w)

Next ==
  \/ \E r \in Runs : Submit(r) \/ Lapse(r)
  \/ \E w \in Workers : Command(w) \/ Crash(w) \/ \E r \in Runs : Claim(w, r)

Spec == Init /\ [][Next]_vars

(* A crash, where it is not what the command does itself.                  *)
Disturbance == \E w \in Workers : Crash(w) /\ ~Command(w)

(* Processes go on and leases lapse in the end; an attempt that begins     *)
(* again and again fits into its lease at last, and workers do not crash   *)
(* for ever.  Workers keep calling the command, now and then also while no *)
(* lease has lapsed: more often than a lease lasts.                        *)
FairSpec ==
  /\ Spec
  /\ \A w \in Workers : WF_vars(Command(w)) /\ SF_vars(End(w))
  /\ \A r \in Runs : WF_vars(Lapse(r)) /\ SF_vars(\E w \in Workers : Claim(w, r))
  /\ <>[][~Disturbance]_vars

-----------------------------------------------------------------------------
(* Properties.                                                             *)

Ends(r) == row[r] = "pending" ~> row[r] = "ended"

(* Every run that can be repaired is, although interrupted runs go first   *)
(* (store.py:207) and one of them is interrupted for ever.                 *)
PendingRunsServed == \A r \in Runs \ Gone : Ends(r)

(* Without a candidate a repair ends explicitly or asks for a human (the   *)
(* design document, line 51).  It does not hold of a run whose worktree is *)
(* gone: it is claimed at every lapse, fails before anything could be      *)
(* written about it, and is never ended.                                   *)
EveryRunSettled == \A r \in Runs : Ends(r)

(* A task has one candidate, two at most if it goes on failing (the design *)
(* document, line 49).  It does not hold: every attempt proposes anew, and *)
(* attempts are not limited.                                               *)
CandidatesBounded == \A r \in Runs : candidates[r] <= 2
===============================================================================
