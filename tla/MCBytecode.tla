------------------------------ MODULE MCBytecode ------------------------------
(* A small instance of BytecodeCache: claim, takeover and takeover of the  *)
(* takeover, with a test command to spare for a worker that is gone.       *)
EXTENDS BytecodeCache, TLC

CONSTANT MaxSecond  \* bound: the last second

InBounds == second' <= MaxSecond
BoundedSpec == BytecodeInit /\ [][BytecodeNext /\ InBounds]_bytecodeVars

WorkerSymmetry == Permutations(Workers) \cup Permutations(Tests)
===============================================================================
