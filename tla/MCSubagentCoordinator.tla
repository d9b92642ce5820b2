----------------------- MODULE MCSubagentCoordinator -----------------------
(* Small instances of SubagentCoordinator for TLC. *)
EXTENDS SubagentCoordinator, TLC

Symmetry == Permutations(Ids) \cup Permutations(Clients)

\* For instances whose properties (TypeOK apart, which is proved) read neither
\* the output of a step nor the flags and history that only flow into it: those
\* fields decide no other field.
AdmissionView == [co EXCEPT !.report = {}, !.killed = {}, !.tornDown = {}]
=============================================================================
