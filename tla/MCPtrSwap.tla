------------------------------ MODULE MCPtrSwap ------------------------------
(* PtrSwap with a few threads and blocks.                                  *)
EXTENDS PtrSwap, TLC

\* Threads and blocks are interchangeable.
Symmetry == Permutations(Threads) \cup Permutations(Blocks)

\* The disciplines under which the cell is safe, and that of the test of rcu.
Disciplined == {"anchored", "moves", "exclusive"}
RcuOnly     == {"rcu"}
=============================================================================
