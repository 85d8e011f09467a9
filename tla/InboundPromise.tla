--------------------------- MODULE InboundPromise ---------------------------
(***************************************************************************)
(* What the durable inbound spool promises for a message it accepted: it   *)
(* stays on disk until it is settled, or is carried in memory alone after  *)
(* its replay; a message is lost only while it is carried, and only by     *)
(* the teardown of the process that carries it.                            *)
(***************************************************************************)
CONSTANT Msg

VARIABLES
    state,   \* what has become of each message
    serving  \* the gateway takes messages: no teardown has begun

State == {"new", "kept", "carried", "settled", "lost"}

Init ==
    /\ state = [m \in Msg |-> "new"]
    /\ serving = FALSE

Move(m, from, to) == state[m] \in from /\ state' = [state EXCEPT ![m] = to]

Accept(m) == Move(m, {"new"}, "kept") /\ UNCHANGED serving

\* The row is replayed on the bus and deleted.
Replay(m) == Move(m, {"kept"}, "carried") /\ UNCHANGED serving

\* During a teardown the replayed copy may be cancelled before the row goes.
ReplayLost(m) == ~serving /\ Move(m, {"kept"}, "lost") /\ UNCHANGED serving

\* Its turn ended, it was recognised as a duplicate, or it was dead-lettered.
Settle(m) == Move(m, {"kept", "carried"}, "settled") /\ UNCHANGED serving

Serve == ~serving /\ serving' = TRUE /\ UNCHANGED state

Teardown ==
    /\ serving' = FALSE
    /\ \E L \in SUBSET {m \in Msg : state[m] = "carried"} :
          state' = [m \in Msg |-> IF m \in L THEN "lost" ELSE state[m]]

Next ==
    \/ \E m \in Msg : Accept(m) \/ Replay(m) \/ ReplayLost(m) \/ Settle(m)
    \/ Serve
    \/ Teardown

Spec == Init /\ [][Next]_<<state, serving>>
=============================================================================
