---------------------------- MODULE SpoolProofs ----------------------------
(***************************************************************************)
(* What the operations of the spool do to a table: which rows come, go and *)
(* stay, and who holds them.                                               *)
(***************************************************************************)
EXTENDS Spool, Sequences, TLAPS

-----------------------------------------------------------------------------
(* Rows *)

Table == [Msg -> Row]

\* u is t with other claims or attempts: no row came, went or was renumbered.
SameRows(t, u) ==
    /\ u \in Table
    /\ \A m \in Msg : u[m].id = t[m].id /\ u[m].here = t[m].here

\* None of these adds, removes or renumbers a row.
LEMMA ClaimBatchKeepsRows ==
    ASSUME NEW t \in Table, NEW i \in Nat
    PROVE  SameRows(t, ClaimBatch(t, i))
  BY DEF SameRows, Table, Row, ClaimBatch

LEMMA ReleaseIDsKeepsRows ==
    ASSUME NEW t \in Table, NEW S, NEW i \in Nat
    PROVE  SameRows(t, ReleaseIDs(t, S, i))
  BY DEF SameRows, Table, Row, ReleaseIDs, Nobody

LEMMA ReleaseClaimsKeepsRows ==
    ASSUME NEW t \in Table, NEW i \in Nat
    PROVE  SameRows(t, ReleaseClaims(t, i))
  BY DEF SameRows, Table, Row, ReleaseClaims, Nobody

LEMMA ReclaimStaleKeepsRows ==
    ASSUME NEW t \in Table
    PROVE  SameRows(t, ReclaimStale(t))
  BY DEF SameRows, Table, Row, ReclaimStale, Nobody

LEMMA AgeClaimsKeepsRows ==
    ASSUME NEW t \in Table
    PROVE  SameRows(t, AgeClaims(t))
  BY DEF SameRows, Table, Row, AgeClaims

LEMMA IncAttemptKeepsRows ==
    ASSUME NEW t \in Table, NEW k \in Msg
    PROVE  SameRows(t, IncAttempt(t, k))
  BY SpoolAssumption DEF SameRows, Table, Row, IncAttempt

LEMMA CompleteRemovesOne ==
    ASSUME NEW t \in Table, NEW k \in Msg
    PROVE  /\ Complete(t, k) \in Table
           /\ \A m \in Msg : Complete(t, k)[m].id = t[m].id
           /\ \A m \in Msg \ {k} : Complete(t, k)[m].here = t[m].here
  BY DEF Table, Row, Complete, Nobody

LEMMA EnqueueAddsOne ==
    ASSUME NEW t \in Table, NEW new \in Msg, NEW id \in Nat, NEW i \in Nat
    PROVE  /\ EnqueueClaimed(t, new, id, i) \in Table
           /\ EnqueueClaimed(t, new, id, i)[new].id = id
           /\ EnqueueClaimed(t, new, id, i)[new].here
           /\ \A m \in Msg \ {new} : EnqueueClaimed(t, new, id, i)[m] = t[m]
  BY DEF Table, Row, EnqueueClaimed

-----------------------------------------------------------------------------
(* Claims *)

LEMMA BatchIsPending ==
    ASSUME NEW t, NEW m \in NextBatch(t)
    PROVE  m \in Msg /\ t[m].here /\ t[m].owner = Nobody
  BY DEF NextBatch, Pending

LEMMA ClaimBatchClaims ==
    ASSUME NEW t \in Table, NEW i \in Nat, NEW m \in Msg
    PROVE  ClaimBatch(t, i)[m].owner = IF m \in NextBatch(t) THEN i ELSE t[m].owner
  BY DEF Table, Row, ClaimBatch

LEMMA ReleaseIDsClaims ==
    ASSUME NEW t \in Table, NEW S, NEW i \in Nat, NEW m \in Msg
    PROVE  ReleaseIDs(t, S, i)[m].owner =
              IF m \in S /\ t[m].here /\ t[m].owner = i THEN Nobody ELSE t[m].owner
  BY DEF Table, Row, ReleaseIDs, HeldBy

LEMMA ReleaseClaimsClaims ==
    ASSUME NEW t \in Table, NEW i \in Nat, NEW m \in Msg
    PROVE  ReleaseClaims(t, i)[m].owner =
              IF t[m].here /\ t[m].owner = i THEN Nobody ELSE t[m].owner
  BY DEF Table, Row, ReleaseClaims, HeldBy

LEMMA ReclaimStaleClaims ==
    ASSUME NEW t \in Table, NEW m \in Msg
    PROVE  ReclaimStale(t)[m].owner =
              IF t[m].here /\ t[m].stale THEN Nobody ELSE t[m].owner
  BY DEF Table, Row, ReclaimStale, Nobody

LEMMA AgeClaimsClaims ==
    ASSUME NEW t \in Table, NEW m \in Msg
    PROVE  AgeClaims(t)[m].owner = t[m].owner
  BY DEF Table, Row, AgeClaims

LEMMA IncAttemptClaims ==
    ASSUME NEW t \in Table, NEW k \in Msg, NEW m \in Msg
    PROVE  IncAttempt(t, k)[m].owner = t[m].owner
  BY SpoolAssumption DEF Table, Row, IncAttempt

LEMMA CompleteClaims ==
    ASSUME NEW t \in Table, NEW k \in Msg, NEW m \in Msg
    PROVE  Complete(t, k)[m].owner = IF m = k THEN Nobody ELSE t[m].owner
  BY DEF Table, Row, Complete, Nobody

-----------------------------------------------------------------------------
(* Queues of messages *)

In(s, r) == \E i \in DOMAIN s : s[i] = r
Distinct(s) == \A i, j \in DOMAIN s : s[i] = s[j] => i = j

\* Putting a message at the end of a queue, and taking its head.
LEMMA AppendIn ==
    ASSUME NEW s \in Seq(Msg), NEW r \in Msg
    PROVE  /\ \A k : In(Append(s, r), k) <=> In(s, k) \/ k = r
           /\ Distinct(s) /\ ~In(s, r) => Distinct(Append(s, r))
<1>1. ASSUME NEW k PROVE In(Append(s, r), k) <=> In(s, k) \/ k = r
  <2>1. ASSUME In(s, k) PROVE In(Append(s, r), k)
    <3>1. PICK i \in DOMAIN s : s[i] = k
      BY <2>1 DEF In
    <3>2. i \in DOMAIN Append(s, r) /\ Append(s, r)[i] = k
      BY <3>1
    <3> QED BY <3>2 DEF In
  <2>2. In(Append(s, r), r)
    <3>1. Len(s) + 1 \in DOMAIN Append(s, r) /\ Append(s, r)[Len(s) + 1] = r
      OBVIOUS
    <3> QED BY <3>1 DEF In
  <2>3. ASSUME In(Append(s, r), k), k # r PROVE In(s, k)
    BY <2>3 DEF In
  <2> QED BY <2>1, <2>2, <2>3
<1>2. ASSUME Distinct(s), ~In(s, r) PROVE Distinct(Append(s, r))
  BY <1>2 DEF In, Distinct
<1> QED BY <1>1, <1>2

LEMMA TailIn ==
    ASSUME NEW s \in Seq(Msg), s # <<>>, Distinct(s)
    PROVE  /\ Head(s) \in Msg /\ In(s, Head(s))
           /\ \A k : In(Tail(s), k) <=> In(s, k) /\ k # Head(s)
           /\ Distinct(Tail(s))
<1>1. Head(s) = s[1] /\ Len(s) >= 1 /\ 1 \in DOMAIN s
  OBVIOUS
<1>2. /\ DOMAIN Tail(s) = 1 .. (Len(s) - 1)
      /\ \A i \in DOMAIN Tail(s) : Tail(s)[i] = s[i + 1] /\ i + 1 \in DOMAIN s /\ i + 1 # 1
  BY <1>1
<1>3. ASSUME NEW k, In(Tail(s), k) PROVE In(s, k) /\ k # Head(s)
  BY <1>1, <1>2, <1>3 DEF In, Distinct
<1>4. ASSUME NEW k, In(s, k), k # Head(s) PROVE In(Tail(s), k)
  <2>1. PICK i \in DOMAIN s : s[i] = k
    BY <1>4 DEF In
  <2>2. i - 1 \in DOMAIN Tail(s) /\ Tail(s)[i - 1] = k
    BY <2>1, <1>1, <1>2, <1>4
  <2> QED BY <2>2 DEF In
<1>5. Distinct(Tail(s))
  <2> SUFFICES ASSUME NEW i \in DOMAIN Tail(s), NEW j \in DOMAIN Tail(s), Tail(s)[i] = Tail(s)[j]
               PROVE  i = j
    BY DEF Distinct
  <2>1. i + 1 = j + 1
    BY <1>2 DEF Distinct
  <2> QED BY <2>1, <1>2
<1>6. In(s, Head(s)) /\ Head(s) \in Msg
  BY <1>1 DEF In
<1> QED BY <1>3, <1>4, <1>5, <1>6
=============================================================================
