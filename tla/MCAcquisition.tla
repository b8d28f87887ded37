--------------------------- MODULE MCAcquisition ---------------------------
EXTENDS Acquisition, TLC

CONSTANTS p1, p2, h1, h2

\* The variables some action reads: the others record what happened.
Acting == <<row, outside, pc, local, trouble>>

\* A race lost is lost for good, and the safety properties say nothing after it: what only
\* records is left out from there on.
AheadOfRaces == IF overtaken THEN <<Acting>> ELSE <<Acting, owed, fresh, history>>

Symmetries == Permutations(Passes)
=============================================================================
