------------------------------ MODULE MCSession -----------------------------
(***************************************************************************)
(* TLC instance of SessionPersist: the goroutines are interchangeable.     *)
(***************************************************************************)
EXTENDS SessionPersist, TLC

\* Nothing is claimed once an excused hazard has struck.
Unhurt == hurt \cap Excused = {}

Symmetry == Permutations(Saver)

=============================================================================
