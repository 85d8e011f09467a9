------------------------------- MODULE MCSubagent -------------------------------
(* Small instances of SubagentTask for TLC. *)
EXTENDS SubagentTask, TLC
CONSTANTS t1, t2, w1, w2

Alone == {t1}
Pair  == {t1, t2}
NoDeps == [t \in Task |-> {}]
Chain  == [t \in Task |-> IF t = t2 THEN {t1} ELSE {}]
Symmetry == Permutations({w1, w2})
=============================================================================
