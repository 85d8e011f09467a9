------------------------------ MODULE MCHandoff -----------------------------
(***************************************************************************)
(* TLC instances of Handoff.                                               *)
(***************************************************************************)
EXTENDS Handoff

H(t, does)  == [does |-> does, critical |-> FALSE, timeout |-> t]
HC(t, does) == [does |-> does, critical |-> TRUE, timeout |-> t]

\* The gateway's, in seconds: lock-release, mcp-stop, services-stop, http-stop,
\* channels-stop, sessions-save, durable-inbound-shutdown, durable-outbound-shutdown,
\* agent-drain.
GatewayHooks ==
    <<HC(2, "release"), HC(5, "other"), H(5, "other"), H(5, "other"), H(5, "other"), H(5, "other"),
      H(3, "other"), H(3, "other"), H(10, "drain")>>

\* In units of five seconds; the two durable shutdowns are one hook, whose time
\* the budget cuts when the drain took its own.
CoarseHooks == <<HC(1, "release"), HC(1, "other"), H(1, "other"), H(2, "other"), H(2, "drain")>>

\* Nothing is claimed once an excused hazard has struck.
Unhurt == ~Excusing
=============================================================================
