--------------------------- MODULE MCSysRegistry ---------------------------
(* SysRegistry on small instances. *)
EXTENDS SysRegistry, TLC

CONSTANTS c1, c2

\* Handler threads are interchangeable.
ClientSymmetry == Permutations({c1, c2})

=============================================================================
