----------------------------- MODULE MCOutbound -----------------------------
(* DurableOutbound on a small instance.                                    *)
EXTENDS DurableOutbound, TLC

CONSTANTS r1, r2, c1, c2

OwnKeys == [r \in Msg |-> r]

\* r1 goes to c1, r2 to the same channel or to another.
FirstToC1 == {f \in [Msg -> Channel] : f[r1] = c1}
=============================================================================
