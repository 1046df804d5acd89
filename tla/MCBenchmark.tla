------------------------------ MODULE MCBenchmark ------------------------------
(* A small instance of BenchmarkSuite: two cases, with a patch that passes *)
(* everything (p), one that only satisfies the visible test (q), or one    *)
(* that git refuses (x).                                                   *)
EXTENDS BenchmarkSuite, BenchmarkProofs, TLC

CONSTANTS MaxClock, p, q, x, First, Second

MCKeys == {"candidate-1/apply-patch"}
MCStages == {"queued", "reproduce", "repair", "apply", "verify", "complete", "failed"}
MCErrors == {"error", "not reproducibly failing", "failed verification",
             "failed acceptance"}
MCEvidence == PatchEvidence \cup TestEvidence
MCNameOf == [w \in Workers |-> CHOOSE o \in Owners : TRUE]
MCRepo == [r \in Runs |-> r]
MCFixes == [r \in Runs |-> {p, q}]
MCAccepts == [r \in Runs |-> {p}]
MCSameFiles == [patch \in Requests |-> {patch}]
MCCasePatch == [r \in Runs |-> IF r = 1 THEN First ELSE Second]

(* Time stops at MaxClock.                                                 *)
BoundedSpec ==
  /\ SuiteInit
  /\ [][DriverStep \/ (clock < MaxClock /\ SuitePass)]_suiteVars
===============================================================================
