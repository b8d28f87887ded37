--------------------------- MODULE MCPipelineLock ---------------------------
(* Two global holders and two resolves of one staging item, for TLC. *)
EXTENDS PipelineLock, TLC

CONSTANTS r1, r2, s1, s2, itemA

MCItemOf == (s1 :> itemA) @@ (s2 :> itemA)

\* Processes of one kind are interchangeable: s1 and s2 resolve the same item.
Symmetry == Permutations({r1, r2}) \union Permutations({s1, s2})
=============================================================================
