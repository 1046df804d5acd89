---------------------------- MODULE BenchmarkSuite ----------------------------
(***************************************************************************)
(* The benchmark (benchmark.py): one process that takes its cases one by   *)
(* one, makes a fresh worktree and a fresh store for each, submits, claims *)
(* and repairs the run as a worker would, and reports what the store says  *)
(* of it.  The cases share nothing, so one RunStore stands for the stores  *)
(* of all.  An exception of a case ends the suite.                         *)
(***************************************************************************)
EXTENDS RepairPipeline

CONSTANTS
  Driver,     \* the process
  CasePatch   \* CasePatch[r]: the patch of case r; cases are runs, in their order

ASSUME SuiteAssumption ==
  /\ Driver \in Workers
  /\ CasePatch \in [Runs -> Requests]
  /\ None \notin BOOLEAN
  /\ \A r, s \in Runs : Repo[r] = Repo[s] => r = s

VARIABLE suite

suiteVars == <<vars, suite>>

-----------------------------------------------------------------------------
(* "next", "claim", "execute", "record": where it is in a case, or between *)
(* two; "written" has a result of the suite, "diverged" and "aborted" none.*)
AtSuite(here) == suite.at = here
Proceed(next) == suite' = [suite EXCEPT !.at = next]

SubmitCase(r) ==
  /\ AtSuite("next")
  /\ r \in Runs \ DOMAIN suite.status
  /\ \A s \in Runs \ DOMAIN suite.status : r <= s
  /\ Submit(r)
  /\ suite' = [suite EXCEPT !.at = "claim", !.case = r]
  /\ UNCHANGED since

ClaimCase ==
  /\ AtSuite("claim")
  /\ Claim(Driver)
  /\ RunOf(Driver)' = suite.case
  /\ Proceed("execute")

(* DeterministicMigrationRepairer has one answer.                          *)
Execute ==
  /\ AtSuite("execute")
  /\ Attempt(Driver)
  /\ At(Driver, "propose") => worker'[Driver].patch \in {None, CasePatch[suite.case]}
  /\ UNCHANGED suite

(* What execute returns, if the call that ends the run does.               *)
Returns(result) ==
  IF worker'[Driver].at = "raised" THEN UNCHANGED suite
  ELSE suite' = [suite EXCEPT !.at = "record", !.result = result]

Executed ==
  /\ AtSuite("execute")
  /\ \/ Complete(Driver) /\ Returns("SUCCEEDED")
     \/ FailRun(Driver) /\ Returns("FAILED")

(* LeaseLost is not caught anywhere.                                       *)
LoseCase ==
  /\ AtSuite("execute")
  /\ LoseLease(Driver)
  /\ Proceed("aborted")

(* The report and the result are of the stored run; then the two are       *)
(* compared.                                                               *)
RecordCase ==
  LET stored == runs[suite.case].status
  IN  /\ AtSuite("record")
      /\ suite' = [suite EXCEPT
           !.at = IF stored = suite.result THEN "next" ELSE "diverged",
           !.status = [r \in DOMAIN @ \cup {suite.case} |->
                         IF r = suite.case THEN stored ELSE @[r]]]
      /\ UNCHANGED vars

(* Missing files, a failing git init, a disk that is full.                 *)
AbortCase ==
  /\ suite.at \in {"next", "claim", "record"}
  /\ Proceed("aborted")
  /\ UNCHANGED vars

WriteSuite ==
  /\ AtSuite("next")
  /\ DOMAIN suite.status = Runs
  /\ suite' = [suite EXCEPT
       !.at = "written",
       !.succeeded = Cardinality({r \in Runs : suite.status[r] = "SUCCEEDED"})]
  /\ UNCHANGED vars

SuiteInit ==
  /\ Init
  /\ suite = [at |-> "next", case |-> None, result |-> None, status |-> <<>>,
              succeeded |-> 0]

DriverStep ==
  \/ \E r \in Runs : SubmitCase(r)
  \/ (ClaimCase \/ Execute \/ Executed \/ LoseCase) /\ Over(Driver)
  \/ RecordCase \/ AbortCase \/ WriteSuite

SuitePass == Pass /\ UNCHANGED suite

SuiteNext == DriverStep \/ SuitePass

SuiteSpec == SuiteInit /\ [][SuiteNext]_suiteVars

-----------------------------------------------------------------------------
(* Properties.                                                             *)

(* What the pipeline returned and what the store kept are the same, in     *)
(* spite of leases that run out while a case is being repaired: the        *)
(* exception of benchmark.py:233 is never raised.                          *)
NeverDiverges == suite.at # "diverged"

(* The suite counts as succeeded exactly the cases whose worktree, from    *)
(* the case's own patch, passes the visible contract and the acceptance    *)
(* script, where nothing went wrong otherwise (README.md:92-93).           *)
SuiteCountsVerified ==
  AtSuite("written") =>
    LET passing == {r \in Runs : /\ tree[Repo[r]] = {CasePatch[r]}
                                 /\ CasePatch[r] \in Fixes[r]
                                 /\ r \in Guarded => CasePatch[r] \in Accepts[r]}
        succeeded == {r \in Runs : suite.status[r] = "SUCCEEDED"}
    IN  /\ suite.succeeded = Cardinality(succeeded)
        /\ succeeded \subseteq passing
        /\ \A r \in Runs : suite.status[r] = runs[r].status
        /\ \A r \in passing \ succeeded : runs[r].last_error = "error"
===============================================================================
