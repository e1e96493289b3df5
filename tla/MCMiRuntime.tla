---------------------------- MODULE MCMiRuntime -----------------------------
(* Two threads; an arena of three blocks in words of two; three areas for    *)
(* arenas of one block; a page of four blocks; two options that decide about *)
(* messages and one more.                                                    *)
EXTENDS MiRuntime, TLC

Symmetry == Permutations(Threads)

\* The numbers below are AnyNode, -1, and NoId, 0, of MiArenas.
TheKinds ==
  {[memkind |-> "OS", exclusive |-> TRUE, is_large |-> FALSE, numa_node |-> -1],
   [memkind |-> "EXTERNAL", exclusive |-> FALSE, is_large |-> TRUE, numa_node |-> 0]}

TheAsks ==
  {[blocks |-> 1, node |-> 1, large |-> TRUE, req |-> 0],
   [blocks |-> 1, node |-> 0, large |-> FALSE, req |-> 1]}

TheEnvironments ==
  {[verbose |-> "bogus", show_errors |-> "absent", other |-> "legacy"],
   [verbose |-> "absent", show_errors |-> "valid", other |-> "bogus"]}
=============================================================================
