----------------------------- MODULE MCInbound -----------------------------
(* DurableInbound on small instances.                                      *)
EXTENDS DurableInbound, TLC

CONSTANTS m1, m2, m3

\* Every message has a dedupe key of its own.
OwnKeys == [m \in Msg |-> m]

\* m1 and m2 share one: a redelivery, or two chats with the same message id.
TwinKeys == [m \in Msg |-> IF m = m2 THEN m1 ELSE m]

Symmetry == Permutations(Slot)
=============================================================================
