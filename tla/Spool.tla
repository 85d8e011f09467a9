------------------------------- MODULE Spool -------------------------------
(***************************************************************************)
(* The spool table and the dedupe ledger of pkg/store/spool.go, as         *)
(* operators on a table value.  Every SpoolRepo method is one SQL          *)
(* statement or one transaction on a single-connection pool, so each is    *)
(* one atomic change of the table.                                         *)
(*                                                                         *)
(* A row is known by the message it backs: one message is spooled at most  *)
(* once, because Enqueue declines a message that carries a SpoolID.  A     *)
(* redelivery, or a second chat that reuses a message id, is another       *)
(* message with the same dedupe key (Key).                                 *)
(***************************************************************************)
EXTENDS Naturals, FiniteSets

CONSTANTS
    Msg,        \* the messages that may be spooled
    Key,        \* Key[m]: the (channel, msg_id) pair of the ledger
    ClaimLimit, \* rows one ClaimBatch takes at most
    AttemptCap  \* bound: attempts are counted up to here, the limits are below it

ASSUME SpoolAssumption ==
    /\ ClaimLimit \in Nat \ {0}
    /\ AttemptCap \in Nat

\* claimed_by = ''
Nobody == 0

\* One row: here is whether the row exists; id is its AUTOINCREMENT id, which
\* the message keeps as its SpoolID after the row is deleted (0: never
\* spooled); stale is claimed_at < now - StaleClaimTimeout.
Row == [here : BOOLEAN, id : Nat, owner : Nat, stale : BOOLEAN, attempts : Nat]

NoRow == [here |-> FALSE, id |-> 0, owner |-> Nobody, stale |-> FALSE, attempts |-> 0]

Pending(t) == {m \in Msg : t[m].here /\ t[m].owner = Nobody}

HeldBy(t, i) == {m \in Msg : t[m].here /\ t[m].owner = i}

EnqueueClaimed(t, m, id, i) ==
    [t EXCEPT ![m] =
        [here |-> TRUE, id |-> id, owner |-> i, stale |-> FALSE, attempts |-> 0]]

\* ORDER BY id LIMIT ClaimLimit over the unclaimed rows.
NextBatch(t) ==
    {m \in Pending(t) :
        Cardinality({k \in Pending(t) : t[k].id < t[m].id}) < ClaimLimit}

ClaimBatch(t, i) ==
    [m \in Msg |-> IF m \in NextBatch(t)
                   THEN [t[m] EXCEPT !.owner = i, !.stale = FALSE]
                   ELSE t[m]]

Complete(t, m) ==
    [t EXCEPT ![m] = [@ EXCEPT !.here = FALSE, !.owner = Nobody, !.stale = FALSE]]

\* A likely bug: every claim of i, not only those of S.
ReleaseAll(t, S, i) ==
    [m \in Msg |-> IF m \in HeldBy(t, i)
                   THEN [t[m] EXCEPT !.owner = Nobody, !.stale = FALSE]
                   ELSE t[m]]

\* A likely bug: the ids are released under another instance's name.
ReleaseNone(t, S, i) == t

\* The rows of S still held by i go back to the pending set.
ReleaseIDs(t, S, i) ==
    [m \in Msg |-> IF m \in S \cap HeldBy(t, i)
                   THEN [t[m] EXCEPT !.owner = Nobody, !.stale = FALSE]
                   ELSE t[m]]

ReleaseClaims(t, i) ==
    [m \in Msg |-> IF m \in HeldBy(t, i)
                   THEN [t[m] EXCEPT !.owner = Nobody, !.stale = FALSE]
                   ELSE t[m]]

\* Whoever holds a stale claim loses it: neither the holder nor the direction
\* of the row is looked at.
ReclaimStale(t) ==
    [m \in Msg |-> IF t[m].here /\ t[m].owner # Nobody /\ t[m].stale
                   THEN [t[m] EXCEPT !.owner = Nobody, !.stale = FALSE]
                   ELSE t[m]]

IncAttempt(t, m) ==
    [t EXCEPT ![m].attempts =
        IF t[m].here /\ @ < AttemptCap THEN @ + 1 ELSE @]

\* StaleClaimTimeout passes: every claim taken so far is now stale.  A later
\* claim is fresh, so the stale claims are always the oldest ones.
AgeClaims(t) ==
    [m \in Msg |-> IF t[m].here /\ t[m].owner # Nobody
                   THEN [t[m] EXCEPT !.stale = TRUE]
                   ELSE t[m]]

WasProcessed(l, m) == Key[m] \in l

MarkProcessed(l, m) == l \cup {Key[m]}
=============================================================================
