------------------------ MODULE SessionPersistProofs ------------------------
(***************************************************************************)
(* Proofs about SessionPersist, for any goroutines and bounds: what it     *)
(* stores and writes has its type, clean dirty flags tell the truth, and a *)
(* load misses no message to go on with.                                   *)
(***************************************************************************)
EXTENDS SessionPersist, FiniteSetTheorems, SequenceTheorems, WellFoundedInduction, TLAPS

Kind  == {"full", "incremental", "delete", "range", "boundary"}
Phase == {"idle", "loading", "meta", "rows", "update", "back"}

\* The rows n mutations can have made, and the calls of goroutines then, when k
\* objects have been built.
Rows(n)    == UNION {[D -> Message] : D \in SUBSET (0 .. n - 1)}
Call(n, k) == [pc : Phase, why : {"none", "save", "evict", "compact"}, kind : Kind \cup {"none"},
               outer : 0 .. k, target : 0 .. k, col : 0 .. n, put : Rows(n), update : Rows(n),
               cut : Index \cup {-1}, moved : BOOLEAN, touched : BOOLEAN, behind : BOOLEAN,
               owed : BOOLEAN, failed : BOOLEAN]

-----------------------------------------------------------------------------
(* Numbers.                                                                *)

\* A set of numbers has a smallest one: induction without an operator to
\* instantiate.
LEMMA SmallestExists ==
    ASSUME NEW T, T \subseteq Nat, T # {}
    PROVE  \E x \in T : \A y \in T : x <= y
  <1>1. PICK x \in T : \A y \in T : ~(<<y, x>> \in OpToRel(<, Nat))
    BY NatLessThanWellFounded, WFMin
  <1>2. \A y \in T : ~(y < x)
    BY <1>1 DEF OpToRel
  <1> QED
    BY <1>2

LEMMA MinIs ==
    ASSUME NEW T, T \subseteq Nat, T # {}
    PROVE  Min(T) \in T /\ \A y \in T : Min(T) <= y
  BY SmallestExists DEF Min

\* A bounded set of numbers has a largest one.
LEMMA MaxIs ==
    ASSUME NEW n \in Nat, NEW T, T \subseteq -1 .. n, T # {}
    PROVE  Max(T) \in T /\ \A y \in T : y <= Max(T)
  <1> DEFINE U == {n - x : x \in T}
  <1>1. U \subseteq Nat /\ U # {}
    <2>1. \A x \in T : n - x \in Nat
      OBVIOUS
    <2>2. \A u \in U : u \in Nat
      BY <2>1
    <2> QED
      BY <2>2
  <1> HIDE DEF U
  <1>2. PICK u \in U : \A y \in U : u <= y
    BY <1>1, SmallestExists
  <1>3. PICK x \in T : u = n - x
    BY <1>2 DEF U
  <1>4. ASSUME NEW y \in T PROVE x >= y
    <2>1. n - y \in U
      BY DEF U
    <2> QED
      BY <1>2, <1>3, <2>1
  <1> QED
    BY <1>4 DEF Max

-----------------------------------------------------------------------------
(* Rows.                                                                   *)

LEMMA RowsDef ==
    ASSUME NEW n \in Nat, NEW r
    PROVE  r \in Rows(n) <=> /\ r = [q \in DOMAIN r |-> r[q]]
                             /\ DOMAIN r \subseteq 0 .. n - 1
                             /\ \A q \in DOMAIN r : r[q] \in Message
  BY DEF Rows

LEMMA RowsGrow ==
    ASSUME NEW n \in Nat, NEW m \in Nat, n <= m
    PROVE  Rows(n) \subseteq Rows(m)
  BY DEF Rows

LEMMA NoRows ==
    ASSUME NEW n \in Nat
    PROVE  <<>> \in Rows(n)
  <1>1. <<>> \in [{} -> Message]
    OBVIOUS
  <1> QED
    BY <1>1 DEF Rows

LEMMA OnlyType ==
    ASSUME NEW n \in Nat, NEW r \in Rows(n), NEW T
    PROVE  Only(r, T) \in Rows(n) /\ DOMAIN Only(r, T) = DOMAIN r \cap T
  BY RowsDef DEF Only

LEMMA UpdatedType ==
    ASSUME NEW n \in Nat, NEW r \in Rows(n), NEW u \in Rows(n)
    PROVE  Updated(r, u) \in Rows(n)
  BY RowsDef DEF Updated

LEMMA ReplacedType ==
    ASSUME NEW n \in Nat, NEW r \in Rows(n), NEW u \in Rows(n)
    PROVE  Replaced(r, u) \in Rows(n)
  BY RowsDef DEF Replaced

LEMMA RowsFromType ==
    ASSUME NEW n \in Nat, NEW f \in Nat, NEW l \in Seq(Message), f + Len(l) <= n
    PROVE  RowsFrom(f, l) \in Rows(n) /\ DOMAIN RowsFrom(f, l) = f .. f + Len(l) - 1
  <1>1. /\ RowsFrom(f, l) = [q \in DOMAIN RowsFrom(f, l) |-> RowsFrom(f, l)[q]]
        /\ DOMAIN RowsFrom(f, l) = f .. f + Len(l) - 1
    BY DEF RowsFrom
  <1>2. \A i \in 1 .. Len(l) : l[i] \in Message
    OBVIOUS
  <1>3. ASSUME NEW q \in f .. f + Len(l) - 1
        PROVE  q \in 0 .. n - 1 /\ RowsFrom(f, l)[q] \in Message
    <2>1. q - f + 1 \in 1 .. Len(l)
      OBVIOUS
    <2> QED
      BY <1>2, <2>1 DEF RowsFrom
  <1> QED
    BY <1>1, <1>3, RowsDef

\* The rows of a part of the seqs are at most as many as the seqs.
LEMMA Counted ==
    ASSUME NEW a \in Nat, NEW b \in Nat, a <= b, NEW D, D \subseteq a .. b - 1
    PROVE  IsFiniteSet(D) /\ Cardinality(D) \in Nat /\ Cardinality(D) <= b - a
  <1>1. b - 1 \in Int /\ (a > b - 1 => b - a = 0)
    OBVIOUS
  <1>2. /\ IsFiniteSet(a .. b - 1)
        /\ Cardinality(a .. b - 1) = IF a > b - 1 THEN 0 ELSE b - 1 - a + 1
    BY <1>1, FS_Interval
  <1>3. Cardinality(a .. b - 1) = b - a
    BY <1>1, <1>2
  <1>4. D \in SUBSET (a .. b - 1)
    OBVIOUS
  <1>5. IsFiniteSet(D) /\ Cardinality(D) <= Cardinality(a .. b - 1)
    BY <1>2, <1>4, FS_Subset
  <1> QED
    BY <1>3, <1>5, FS_CardinalityType

LEMMA SeqsCounted ==
    ASSUME NEW l \in Nat
    PROVE  IsFiniteSet(0 .. l - 1) /\ Cardinality(0 .. l - 1) = l
  <1>1. 0 \in Int /\ l - 1 \in Int /\ (0 > l - 1 => l = 0)
    OBVIOUS
  <1>2. /\ IsFiniteSet(0 .. l - 1)
        /\ Cardinality(0 .. l - 1) = IF 0 > l - 1 THEN 0 ELSE l - 1 - 0 + 1
    BY <1>1, FS_Interval
  <1> QED
    BY <1>1, <1>2

LEMMA RowsCounted ==
    ASSUME NEW n \in Nat, NEW r \in Rows(n)
    PROVE  /\ DOMAIN r \subseteq 0 .. n - 1 /\ IsFiniteSet(DOMAIN r)
           /\ Cardinality(DOMAIN r) \in Nat /\ Cardinality(DOMAIN r) <= n
           /\ \A q \in DOMAIN r : r[q] \in Message
  <1>1. DOMAIN r \subseteq 0 .. n - 1 /\ \A q \in DOMAIN r : r[q] \in Message
    BY RowsDef
  <1>2. 0 \in Nat /\ 0 <= n /\ n - 0 = n
    OBVIOUS
  <1>3. /\ IsFiniteSet(DOMAIN r) /\ Cardinality(DOMAIN r) \in Nat
        /\ Cardinality(DOMAIN r) <= n - 0
    BY <1>1, <1>2, Counted
  <1> QED
    BY <1>1, <1>2, <1>3

\* Of any rows there is a first, a second, and so on up to the last.
LEMMA RankExists ==
    ASSUME NEW n \in Nat, NEW r \in Rows(n), NEW i \in 1 .. Cardinality(DOMAIN r)
    PROVE  \E q \in DOMAIN r : Cardinality(Before(r, q)) = i - 1
  <1> DEFINE D == DOMAIN r
             Bad == {j \in 1 .. Cardinality(D) : ~\E q \in D : Cardinality(Before(r, q)) = j - 1}
  <1>1. D \subseteq 0 .. n - 1 /\ IsFiniteSet(D) /\ Cardinality(D) \in Nat
    BY RowsCounted
  <1>2. SUFFICES ASSUME Bad # {} PROVE FALSE
    OBVIOUS
  <1>3. PICK j \in Bad : \A k \in Bad : j <= k
    <2>1. Bad \subseteq Nat
      BY <1>1
    <2> QED
      BY <1>2, <2>1, SmallestExists
  <1>4. D # {}
    BY <1>1, <1>3, FS_EmptySet
  <1>5. CASE j = 1
    <2>1. Min(D) \in D /\ \A y \in D : Min(D) <= y
      BY <1>1, <1>4, MinIs
    <2>2. Before(r, Min(D)) = {}
      BY <1>1, <2>1 DEF Before
    <2> QED
      BY <1>3, <1>5, <2>1, <2>2, FS_EmptySet
  <1>6. CASE j # 1
    <2>1. j - 1 \in 1 .. Cardinality(D) /\ j - 1 \notin Bad
      BY <1>1, <1>3, <1>6
    <2>2. PICK q \in D : Cardinality(Before(r, q)) = j - 2
      BY <2>1
    <2> DEFINE After == {p \in D : q < p}
               Upto  == Before(r, q) \cup {q}
    <2>3. Before(r, q) \subseteq D /\ IsFiniteSet(Before(r, q)) /\ q \notin Before(r, q)
      BY <1>1, FS_Subset DEF Before
    <2>4. Cardinality(Upto) = j - 1 /\ Upto \subseteq D
      <3>1. Cardinality(Upto) = Cardinality(Before(r, q)) + 1
        BY <2>3, FS_AddElement
      <3> QED
        BY <1>1, <1>3, <2>2, <2>3, <3>1
    <2>5. After # {}
      <3>1. SUFFICES ASSUME After = {} PROVE FALSE
        OBVIOUS
      <3>2. D = Upto
        <4>1. \A p \in D : p \in Int /\ q \in Int
          BY <1>1
        <4>2. \A p \in D : p < q \/ p = q
          BY <3>1, <4>1
        <4> QED
          BY <2>4, <4>2 DEF Before
      <3> QED
        BY <1>1, <1>3, <2>4, <3>2
    <2>6. Min(After) \in After /\ \A y \in After : Min(After) <= y
      BY <1>1, <2>5, MinIs
    <2>7. Before(r, Min(After)) = Upto
      <3>1. q \in Int /\ Min(After) \in D /\ Min(After) \in Int /\ q < Min(After)
        BY <1>1, <2>6
      <3>2. ASSUME NEW p \in D PROVE p < Min(After) <=> p < q \/ p = q
        <4>1. p \in Int
          BY <1>1
        <4>2. q < p => Min(After) <= p
          BY <2>6
        <4> QED
          BY <3>1, <4>1, <4>2
      <3> HIDE DEF After
      <3> QED
        BY <2>4, <3>2 DEF Before
    <2> QED
      BY <1>3, <2>4, <2>6, <2>7
  <1> QED
    BY <1>5, <1>6

\* A list of rows holds messages, one for each row.
LEMMA ListedType ==
    ASSUME NEW n \in Nat, NEW r \in Rows(n)
    PROVE  Listed(r) \in Seq(Message) /\ Len(Listed(r)) = Cardinality(DOMAIN r)
  <1> DEFINE c == Cardinality(DOMAIN r)
             At(i) == CHOOSE q \in DOMAIN r : Cardinality(Before(r, q)) = i - 1
  <1>1. c \in Nat /\ DOMAIN r \subseteq 0 .. n - 1 /\ \A q \in DOMAIN r : r[q] \in Message
    BY RowsCounted
  <1>2. \A i \in 1 .. c : At(i) \in DOMAIN r
    BY RankExists
  <1>3. \A i \in 1 .. c : r[At(i)] \in Message
    BY <1>1, <1>2
  <1>4. Listed(r) = [i \in 1 .. c |-> r[At(i)]]
    BY DEF Listed
  <1> HIDE DEF At, c
  <1>5. Listed(r) \in [1 .. c -> Message]
    BY <1>3, <1>4
  <1>6. Listed(r) \in Seq(Message) /\ Len(Listed(r)) = c
    BY <1>1, <1>5
  <1> QED
    BY <1>6 DEF c
-----------------------------------------------------------------------------
(* The type invariant: an object never has more messages, counted from the *)
(* seq it starts at, than there were mutations, and neither has the full   *)
(* rewrite of an object that nobody has changed since its snapshot.        *)

Inside(o, n) == o \in Object /\ o.first + Len(o.msgs) <= n

InFlight(c) == c.pc \in {"meta", "rows", "update", "back"}

Sane(c, objs, n) ==
    /\ c \in Call(n, Len(objs))
    /\ c.pc # "idle" => c.target # 0
    /\ InFlight(c) => c.outer # 0 /\ c.kind \in Kind
    /\ c.pc = "rows" => c.kind # "boundary"
    /\ c.pc = "meta" /\ c.kind = "full" => c.col + Cardinality(DOMAIN c.put) <= n
    /\ InFlight(c) /\ c.kind = "full" /\ ~c.moved => c.col + Len(objs[c.target].msgs) <= n

ObjsInv == /\ obj \in Seq(Object) /\ Len(obj) <= MaxObjs /\ live \in 0 .. Len(obj)
           /\ \A i \in 1 .. Len(obj) : Inside(obj[i], edits)
RowsInv == rows \in Rows(edits) /\ column \in -1 .. edits
Counts  == /\ edits \in Nat /\ faults \in Nat /\ boots \in Nat \ {0}
           /\ Events <= MaxEvents
Ghosts  == torn \in BOOLEAN /\ hurt \subseteq Hazard /\ folded \subseteq Stamp
CallsInv(calls, objs, n) == /\ calls = [s \in Saver |-> calls[s]]
                            /\ \A s \in Saver : Sane(calls[s], objs, n)

TypeInv == ObjsInv /\ RowsInv /\ Counts /\ Ghosts /\ CallsInv(op, obj, edits)

-----------------------------------------------------------------------------
(* Calls.                                                                  *)

LEMMA InsideIs ==
    ASSUME NEW n \in Nat, NEW o, Inside(o, n)
    PROVE  /\ o.msgs \in Seq(Message) /\ Len(o.msgs) \in Nat /\ o.first \in Nat
           /\ o.first \in 0 .. n /\ Len(o.msgs) \in 0 .. n /\ o.first + Len(o.msgs) <= n
           /\ o.cut \in Index \cup {-1}
  BY SessionAssumption DEF Inside, Object, Index

LEMMA IdleSane ==
    ASSUME NEW objs, NEW n \in Nat, Len(objs) \in Nat
    PROVE  Sane(Idle, objs, n)
  <1>1. <<>> \in Rows(n)
    BY NoRows
  <1>2. Idle \in Call(n, Len(objs))
    BY <1>1 DEF Idle, Call, Phase, Kind, Index
  <1> QED
    BY <1>2 DEF Sane, Idle, InFlight

\* A call stays what it is when there are more objects and mutations, unless
\* the object it rewrites has grown.
LEMMA StaysSane ==
    ASSUME NEW objs, NEW more, NEW n \in Nat, NEW m \in Nat, NEW c, Sane(c, objs, n), n <= m,
           Len(objs) \in Nat, Len(more) \in Nat, Len(objs) <= Len(more),
           c.pc # "idle" /\ ~c.moved
              => Len(more[c.target].msgs) <= Len(objs[c.target].msgs)
                 /\ Len(more[c.target].msgs) \in Nat /\ Len(objs[c.target].msgs) \in Nat
    PROVE  Sane(c, more, m)
  <1>1. c \in Call(n, Len(objs))
    BY DEF Sane
  <1>2. c.put \in Rows(m) /\ c.update \in Rows(m)
    BY <1>1, RowsGrow DEF Call
  <1>3. c \in Call(m, Len(more))
    BY <1>1, <1>2 DEF Call
  <1>4. Cardinality(DOMAIN c.put) \in Nat /\ c.col \in Nat
    BY <1>1, RowsCounted DEF Call
  <1>5. c.pc = "meta" /\ c.kind = "full" => c.col + Cardinality(DOMAIN c.put) <= m
    BY <1>4 DEF Sane
  <1>6. ASSUME InFlight(c), c.kind = "full", ~c.moved
        PROVE  c.col + Len(more[c.target].msgs) <= m
    <2>1. c.pc # "idle" /\ c.col + Len(objs[c.target].msgs) <= n
      BY <1>6 DEF Sane, InFlight
    <2>2. /\ Len(more[c.target].msgs) <= Len(objs[c.target].msgs)
          /\ Len(more[c.target].msgs) \in Nat /\ Len(objs[c.target].msgs) \in Nat
      BY <1>6, <2>1, Zenon
    <2>3. \A a, b, d \in Nat : a + b <= n /\ d <= b => a + d <= m
      OBVIOUS
    <2> QED
      BY <1>4, <2>1, <2>2, <2>3, Zenon
  <1> QED
    BY <1>3, <1>5, <1>6 DEF Sane

\* The marks left on a call are its own affair.
LEMMA MarkedSane ==
    ASSUME NEW objs, NEW n \in Nat, NEW c, Sane(c, objs, n), NEW b \in BOOLEAN
    PROVE  /\ Sane([c EXCEPT !.moved = TRUE], objs, n)
           /\ Sane([c EXCEPT !.touched = b], objs, n)
           /\ Sane([c EXCEPT !.behind = TRUE], objs, n)
           /\ Sane([c EXCEPT !.owed = TRUE], objs, n)
  <1>1. Sane([c EXCEPT !.moved = TRUE], objs, n)
    BY DEF Sane, Call, InFlight
  <1>2. Sane([c EXCEPT !.touched = b], objs, n)
    BY DEF Sane, Call, InFlight
  <1>3. Sane([c EXCEPT !.behind = TRUE], objs, n)
    BY DEF Sane, Call, InFlight
  <1>4. Sane([c EXCEPT !.owed = TRUE], objs, n)
    BY DEF Sane, Call, InFlight
  <1> QED
    BY <1>1, <1>2, <1>3, <1>4

LEMMA TouchedSane ==
    ASSUME NEW objs, NEW n \in Nat, NEW calls, CallsInv(calls, objs, n)
    PROVE  CallsInv(Touched(calls), objs, n)
  <1>1. ASSUME NEW s \in Saver PROVE Sane(Touched(calls)[s], objs, n)
    <2>1. (calls[s].pc = "loading" \/ calls[s].why = "evict") \in BOOLEAN
      OBVIOUS
    <2> QED
      BY <2>1, MarkedSane DEF CallsInv, Touched
  <1> QED
    BY <1>1 DEF CallsInv, Touched

\* What a save takes along.
LEMMA SnapshotIs ==
    ASSUME NEW n \in Nat, n <= MaxEvents, NEW k \in Nat, NEW call \in Call(n, k), NEW i \in 1 .. k,
           NEW o, Inside(o, n), NEW kind \in Kind
    PROVE  /\ Snapshot(call, i, o, kind) \in Call(n, k)
           /\ Snapshot(call, i, o, kind).pc = "meta" /\ Snapshot(call, i, o, kind).kind = kind
           /\ Snapshot(call, i, o, kind).target = i /\ Snapshot(call, i, o, kind).outer = call.outer
           /\ Snapshot(call, i, o, kind).col = o.first
           /\ kind = "full" => Cardinality(DOMAIN Snapshot(call, i, o, kind).put) = Len(o.msgs)
  <1> DEFINE put    == CASE kind = "full" -> RowsFrom(0, o.msgs)
                         [] kind = "incremental" -> NewRows(o)
                         [] OTHER -> <<>>
             update == CASE kind = "range" -> RangeRows(o)
                         [] kind = "incremental" -> ChangedRows(o)
                         [] OTHER -> <<>>
  <1>1. /\ o.msgs \in Seq(Message) /\ Len(o.msgs) \in Nat /\ o.first \in Nat
        /\ o.first \in 0 .. n /\ Len(o.msgs) <= n /\ o.first + Len(o.msgs) <= n
        /\ o.cut \in Index \cup {-1}
    BY InsideIs
  <1>2. /\ RowsFrom(0, o.msgs) \in Rows(n) /\ RowsFrom(o.first, o.msgs) \in Rows(n)
        /\ DOMAIN RowsFrom(0, o.msgs) = 0 .. Len(o.msgs) - 1
    BY <1>1, RowsFromType
  <1>3. NewRows(o) \in Rows(n) /\ RangeRows(o) \in Rows(n)
    BY <1>2, OnlyType DEF NewRows, RangeRows
  <1>4. ChangedRows(o) \in Rows(n) /\ <<>> \in Rows(n)
    BY <1>2, OnlyType, NoRows DEF ChangedRows
  <1>5. put \in Rows(n) /\ update \in Rows(n)
    BY <1>2, <1>3, <1>4
  <1>6. Cardinality(0 .. Len(o.msgs) - 1) = Len(o.msgs)
    BY <1>1, SeqsCounted
  <1>7. kind = "full" => Cardinality(DOMAIN put) = Len(o.msgs)
    BY <1>2, <1>6
  <1> HIDE DEF put, update
  <1>8. Snapshot(call, i, o, kind) =
           [call EXCEPT !.pc = "meta", !.kind = kind, !.target = i, !.col = o.first,
               !.put = put, !.update = update, !.cut = o.cut,
               !.moved = FALSE, !.behind = FALSE, !.owed = FALSE, !.failed = FALSE]
    BY DEF Snapshot, put, update
  <1>9. put \in Rows(n) /\ update \in Rows(n) /\ call \in Call(n, k)
    BY <1>5
  <1>a. call = [pc |-> call.pc, why |-> call.why, kind |-> call.kind, outer |-> call.outer,
                target |-> call.target, col |-> call.col, put |-> call.put, update |-> call.update,
                cut |-> call.cut, moved |-> call.moved, touched |-> call.touched,
                behind |-> call.behind, owed |-> call.owed, failed |-> call.failed]
    BY <1>9 DEF Call
  <1>b. Snapshot(call, i, o, kind) =
           [pc |-> "meta", why |-> call.why, kind |-> kind, outer |-> call.outer,
            target |-> i, col |-> o.first, put |-> put, update |-> update,
            cut |-> o.cut, moved |-> FALSE, touched |-> call.touched,
            behind |-> FALSE, owed |-> FALSE, failed |-> FALSE]
    BY <1>8, <1>a
  <1>10. /\ Snapshot(call, i, o, kind) \in Call(n, k)
         /\ Snapshot(call, i, o, kind).put = put
    BY <1>1, <1>9, <1>b DEF Call, Phase
  <1> QED
    BY <1>7, <1>10, <1>b

LEMMA SnapshotSane ==
    ASSUME NEW objs \in Seq(Object), NEW n \in Nat, n <= MaxEvents, NEW call \in Call(n, Len(objs)),
           call.outer # 0, NEW i \in 1 .. Len(objs), Inside(objs[i], n), NEW kind \in Kind
    PROVE  Sane(Snapshot(call, i, objs[i], kind), objs, n)
  <1> DEFINE c == Snapshot(call, i, objs[i], kind)
  <1>1. Len(objs[i].msgs) \in Nat /\ objs[i].first \in Nat
    BY InsideIs
  <1>2. /\ c \in Call(n, Len(objs)) /\ c.pc = "meta" /\ c.kind = kind /\ c.target = i
        /\ c.outer = call.outer /\ c.col = objs[i].first
        /\ kind = "full" => Cardinality(DOMAIN c.put) = Len(objs[i].msgs)
    BY SnapshotIs
  <1> HIDE DEF c
  <1>3. Sane(c, objs, n)
    BY <1>1, <1>2 DEF Sane, Inside, InFlight
  <1> QED
    BY <1>3 DEF c

LEMMA BeginSane ==
    ASSUME NEW objs \in Seq(Object), NEW n \in Nat, n <= MaxEvents, NEW calls, CallsInv(calls, objs, n),
           NEW s \in Saver, live \in 1 .. Len(objs), Inside(objs[live], n),
           NEW why \in {"save", "evict", "compact"}, NEW kind \in Kind
    PROVE  CallsInv(Begin(calls, s, why, objs[live], kind), objs, n)
  <1> DEFINE o == objs[live]
             c == Snapshot(Idle, live, o, kind)
             b == [c EXCEPT !.why = why, !.outer = live]
  <1>1. Len(o.msgs) \in Nat /\ o.first \in Nat
    BY InsideIs
  <1>2. Idle \in Call(n, Len(objs))
    BY IdleSane DEF Sane
  <1>3. /\ c \in Call(n, Len(objs)) /\ c.pc = "meta" /\ c.kind = kind /\ c.target = live
        /\ c.col = o.first /\ (kind = "full" => Cardinality(DOMAIN c.put) = Len(o.msgs))
    BY <1>2, SnapshotIs
  <1>4. Begin(calls, s, why, o, kind) = [calls EXCEPT ![s] = b]
    BY DEF Begin
  <1> HIDE DEF c
  <1>5. /\ b \in Call(n, Len(objs)) /\ b.pc = "meta" /\ b.kind = kind /\ b.target = live
        /\ b.outer = live /\ b.col = o.first /\ b.put = c.put
    BY <1>3 DEF Call
  <1> HIDE DEF b
  <1>6. Sane(b, objs, n)
    BY <1>1, <1>3, <1>5 DEF Sane, Inside, InFlight
  <1> QED
    BY <1>4, <1>6 DEF CallsInv

-----------------------------------------------------------------------------
(* Mutations.                                                              *)

LEMMA Numbers ==
    ASSUME TypeInv
    PROVE  /\ edits \in Nat /\ edits <= MaxEvents /\ MaxEvents \in Nat /\ MaxObjs \in Nat
           /\ Len(obj) \in Nat /\ (Events < MaxEvents => edits + 1 \in Stamp)
           /\ obj \in Seq(Object)
           /\ \A i \in 1 .. Len(obj) : Inside(obj[i], edits)
           /\ live \in 0 .. Len(obj) /\ (live # 0 => live \in 1 .. Len(obj))
  BY SessionAssumption DEF TypeInv, Counts, Events, ObjsInv, Stamp

LEMMA InsideGrows ==
    ASSUME NEW n \in Nat, NEW m \in Nat, n <= m, NEW o, Inside(o, n)
    PROVE  Inside(o, m)
  <1>1. o \in Object /\ o.first + Len(o.msgs) \in Nat /\ o.first + Len(o.msgs) <= n
    BY InsideIs DEF Inside
  <1> QED
    BY <1>1 DEF Inside

\* The saves of the object that changes are marked, so none of them settles a
\* rewrite of what it no longer is.
LEMMA MovedSane ==
    ASSUME TypeInv, live # 0, NEW m \in Nat, edits <= m, NEW o, Inside(o, m)
    PROVE  CallsInv(Moved(op), [obj EXCEPT ![live] = o], m)
  <1> DEFINE objs == [obj EXCEPT ![live] = o]
  <1>1. Len(objs) = Len(obj) /\ Len(obj) \in Nat /\ live \in 1 .. Len(obj) /\ edits \in Nat
    BY Numbers
  <1>2. objs[live] = o /\ \A i \in 1 .. Len(obj) : i # live => objs[i] = obj[i]
    BY <1>1, Numbers
  <1> HIDE DEF objs
  <1>3. ASSUME NEW s \in Saver PROVE Sane(Moved(op)[s], objs, m)
    <2>1. Sane(op[s], obj, edits)
      BY DEF TypeInv, CallsInv
    <2> DEFINE c == IF op[s].target = live THEN [op[s] EXCEPT !.moved = TRUE] ELSE op[s]
    <2>2. Moved(op)[s] = c
      BY DEF Moved
    <2>3. Sane(c, obj, edits) /\ (op[s].target = live => c.moved) /\ c.target = op[s].target
      <3>1. CASE op[s].target = live
        <4>1. op[s] \in Call(edits, Len(obj))
          BY <2>1 DEF Sane
        <4>2. c = [op[s] EXCEPT !.moved = TRUE]
          BY <3>1
        <4>3. c.moved /\ c.target = op[s].target
          BY <4>1, <4>2 DEF Call
        <4> QED
          BY <2>1, <1>1, <4>2, <4>3, MarkedSane
      <3>2. CASE op[s].target # live
        BY <2>1, <3>2
      <3> QED
        BY <3>1, <3>2
    <2> HIDE DEF c
    <2>4. ASSUME c.pc # "idle", ~c.moved
          PROVE  /\ Len(objs[c.target].msgs) <= Len(obj[c.target].msgs)
                 /\ Len(objs[c.target].msgs) \in Nat /\ Len(obj[c.target].msgs) \in Nat
      <3>1. c.target \in 1 .. Len(obj) /\ c.target # live
        BY <2>3, <2>4, <1>1 DEF Sane, Call
      <3>2. objs[c.target] = obj[c.target] /\ Inside(obj[c.target], edits)
        BY <3>1, <1>2, Numbers
      <3>3. Len(obj[c.target].msgs) \in Nat
        BY <1>1, <3>2, InsideIs
      <3> QED
        BY <3>2, <3>3
    <2>5. Sane(c, objs, m)
      <3>1. c.pc # "idle" /\ ~c.moved
               => Len(objs[c.target].msgs) <= Len(obj[c.target].msgs)
                  /\ Len(objs[c.target].msgs) \in Nat /\ Len(obj[c.target].msgs) \in Nat
        BY <2>4, Zenon
      <3>2. Sane(c, obj, edits) /\ Len(obj) <= Len(objs) /\ Len(objs) \in Nat
        BY <1>1, <2>3
      <3> QED
        BY <1>1, <3>1, <3>2, StaysSane
    <2> QED
      BY <2>2, <2>5
  <1>4. Moved(op) = [s \in Saver |-> Moved(op)[s]]
    BY DEF Moved
  <1> QED
    BY <1>3, <1>4 DEF CallsInv, objs

\* A mutation keeps the types when what it makes of the session and of the
\* calls has them.
LEMMA MutateType ==
    ASSUME TypeInv, NEW o, live # 0 /\ Events < MaxEvents => Inside(o, edits + 1), NEW calls,
           live # 0 /\ Events < MaxEvents => CallsInv(calls, [obj EXCEPT ![live] = o], edits + 1),
           Mutate(o, calls), hurt' \subseteq Hazard
    PROVE  TypeInv'
  <1>1. /\ live # 0 /\ Events < MaxEvents /\ obj' = [obj EXCEPT ![live] = o] /\ edits' = edits + 1
        /\ op' = calls /\ UNCHANGED <<rows, column, live, faults, boots, torn, folded>>
    BY DEF Mutate
  <1>2. /\ edits \in Nat /\ edits + 1 \in Nat /\ edits <= edits + 1 /\ live \in 1 .. Len(obj)
        /\ Len(obj) \in Nat /\ obj \in Seq(Object)
    BY <1>1, Numbers
  <1>3. o \in Object /\ Inside(o, edits + 1)
    BY <1>1 DEF Inside
  <1>4. obj' \in Seq(Object) /\ Len(obj') = Len(obj)
    BY <1>1, <1>2, <1>3
  <1>5. ASSUME NEW i \in 1 .. Len(obj') PROVE Inside(obj'[i], edits')
    <2>1. CASE i = live
      BY <1>1, <1>2, <1>3, <2>1
    <2>2. CASE i # live
      <3>1. obj'[i] = obj[i] /\ Inside(obj[i], edits)
        BY <1>1, <1>2, <1>4, <2>2, Numbers
      <3> QED
        BY <1>1, <1>2, <3>1, InsideGrows
    <2> QED
      BY <2>1, <2>2
  <1>6. ObjsInv'
    BY <1>1, <1>4, <1>5 DEF TypeInv, ObjsInv
  <1>7. RowsInv'
    <2>1. rows \in Rows(edits + 1)
      BY <1>2, RowsGrow DEF TypeInv, RowsInv
    <2> QED
      BY <1>1, <1>2, <2>1 DEF TypeInv, RowsInv
  <1>8. Counts'
    BY <1>1, SessionAssumption DEF TypeInv, Counts, Events
  <1>9. CallsInv(op, obj, edits)'
    BY <1>1 DEF CallsInv
  <1> QED
    BY <1>1, <1>6, <1>7, <1>8, <1>9 DEF TypeInv, Ghosts

LEMMA Fresh ==
    ASSUME TypeInv, Events < MaxEvents
    PROVE  /\ Draft \in Message /\ Final \in Message
           /\ \A m \in Message, b \in BOOLEAN : Rewritten(m, b) \in Message
           /\ \A m \in Message, b \in BOOLEAN : [m EXCEPT !.draft = b] \in Message
  <1>1. edits + 1 \in Stamp
    BY Numbers
  <1> QED
    BY <1>1 DEF Draft, Final, Rewritten, Message

LEMMA AppendedInside ==
    ASSUME NEW n \in Nat, NEW o, Inside(o, n), NEW m \in Message
    PROVE  /\ Inside(Appended(o, m), n + 1)
           /\ Len(Appended(o, m).msgs) = Len(o.msgs) + 1
           /\ Appended(o, m).msgs[Len(o.msgs) + 1] = m
  <1>1. /\ o \in Object /\ o.msgs \in Seq(Message) /\ Len(o.msgs) \in Nat /\ o.first \in Nat
        /\ o.first + Len(o.msgs) <= n
    BY InsideIs DEF Inside
  <1>2. /\ Append(o.msgs, m) \in Seq(Message) /\ Len(Append(o.msgs, m)) = Len(o.msgs) + 1
        /\ Append(o.msgs, m)[Len(o.msgs) + 1] = m
    BY <1>1
  <1>3. /\ Appended(o, m) \in Object /\ Appended(o, m).msgs = Append(o.msgs, m)
        /\ Appended(o, m).first = o.first
    BY <1>1, <1>2 DEF Appended, Object
  <1> QED
    BY <1>1, <1>2, <1>3 DEF Inside

LEMMA ChangedInside ==
    ASSUME NEW n \in Nat, n <= MaxEvents, NEW o, Inside(o, n), NEW m \in Message,
           NEW i \in 1 .. Len(o.msgs)
    PROVE  /\ Inside(Changed(o, i, m), n)
           /\ Len(Changed(o, i, m).msgs) = Len(o.msgs)
           /\ Changed(o, i, m).changed \in Nat /\ Changed(o, i, m).changed > 0
  <1> DEFINE l == [o.msgs EXCEPT ![i] = m]
             d == IF o.changed = 0 \/ i < o.changed THEN i ELSE o.changed
  <1>1. /\ o \in Object /\ o.msgs \in Seq(Message) /\ Len(o.msgs) \in 0 .. n /\ o.first \in Nat
        /\ o.first + Len(o.msgs) <= n
    BY InsideIs DEF Inside
  <1>2. l \in Seq(Message) /\ Len(l) = Len(o.msgs)
    BY <1>1
  <1>3. o.changed \in Index /\ MaxEvents \in Nat
    BY <1>1, SessionAssumption DEF Object
  <1>4. d \in Index /\ d > 0 /\ d \in Nat
    BY <1>1, <1>3 DEF Index
  <1> HIDE DEF d, l
  <1>5. Changed(o, i, m) = [o EXCEPT !.msgs = l, !.changed = d]
    BY <1>1 DEF Changed, d, l, Object
  <1>6. /\ Changed(o, i, m) \in Object /\ Changed(o, i, m).msgs = l
        /\ Changed(o, i, m).first = o.first /\ Changed(o, i, m).changed = d
    BY <1>1, <1>2, <1>4, <1>5 DEF Object
  <1> QED
    BY <1>1, <1>2, <1>4, <1>6 DEF Inside

LEMMA PendingType ==
    ASSUME NEW o
    PROVE  /\ \A left : Pending(o, left) \in Kind \cup {"none"}
           /\ HasNew(o) => Due(o) \in Kind
  BY DEF Pending, Due, Kind

\* A mutation whose calls are marked as moved, or moved and touched.
LEMMA MarkedMutation ==
    ASSUME TypeInv, NEW o, live # 0 /\ Events < MaxEvents => Inside(o, edits + 1), hurt' \subseteq Hazard,
           Mutate(o, Touched(Moved(op))) \/ Mutate(o, Moved(op))
    PROVE  TypeInv'
  <1>1. live # 0 /\ Events < MaxEvents
    BY DEF Mutate
  <1>2. edits \in Nat /\ edits + 1 \in Nat /\ edits <= edits + 1 /\ Inside(o, edits + 1)
    BY <1>1, Numbers
  <1>3. CallsInv(Moved(op), [obj EXCEPT ![live] = o], edits + 1)
    BY <1>1, <1>2, MovedSane
  <1>4. CallsInv(Touched(Moved(op)), [obj EXCEPT ![live] = o], edits + 1)
    BY <1>2, <1>3, TouchedSane
  <1> QED
    BY <1>2, <1>3, <1>4, MutateType

\* A mutation that saves at once.
LEMMA SavedMutation ==
    ASSUME TypeInv, NEW o, live # 0 /\ Events < MaxEvents => Inside(o, edits + 1), hurt' = hurt,
           NEW s \in Saver, NEW kind \in Kind,
           Mutate(o, Begin(Touched(Moved(op)), s, "save", o, kind))
    PROVE  TypeInv'
  <1> DEFINE objs == [obj EXCEPT ![live] = o]
  <1>1. live # 0 /\ Events < MaxEvents
    BY DEF Mutate
  <1>2. /\ edits \in Nat /\ edits + 1 \in Nat /\ edits <= edits + 1 /\ Inside(o, edits + 1)
        /\ edits + 1 <= MaxEvents /\ live \in 1 .. Len(obj) /\ obj \in Seq(Object)
    BY <1>1, Numbers DEF Stamp
  <1>3. o \in Object /\ objs \in Seq(Object) /\ Len(objs) = Len(obj) /\ objs[live] = o
    BY <1>2 DEF Inside
  <1>4. CallsInv(Moved(op), objs, edits + 1)
    BY <1>1, <1>2, MovedSane
  <1>5. CallsInv(Touched(Moved(op)), objs, edits + 1)
    BY <1>2, <1>4, TouchedSane
  <1> HIDE DEF objs
  <1>6. CallsInv(Begin(Touched(Moved(op)), s, "save", objs[live], kind), objs, edits + 1)
    BY <1>2, <1>3, <1>5, BeginSane
  <1>7. CallsInv(Begin(Touched(Moved(op)), s, "save", o, kind), [obj EXCEPT ![live] = o], edits + 1)
    BY <1>3, <1>6 DEF objs
  <1>8. hurt' \subseteq Hazard
    BY DEF TypeInv, Ghosts
  <1> QED
    BY <1>2, <1>7, <1>8, MutateType

LEMMA AddType ==
    ASSUME TypeInv, NEW assistant \in BOOLEAN, AddFullMessage(assistant)
    PROVE  TypeInv'
  <1> DEFINE o    == obj[live]
             n    == Count(o)
             last == [Last(o.msgs) EXCEPT !.draft = FALSE]
             new  == IF ~HasDraft(o) THEN Appended(o, Final)
                     ELSE IF assistant THEN Changed(o, n, Rewritten(Last(o.msgs), FALSE))
                     ELSE Appended(Changed(o, n, last), Final)
  <1>1. live # 0 /\ Events < MaxEvents /\ Mutate(new, Touched(Moved(op))) /\ hurt' = hurt
    BY DEF AddFullMessage, Mutate
  <1>2. /\ edits \in Nat /\ edits <= edits + 1 /\ edits + 1 \in Nat /\ edits <= MaxEvents
        /\ Inside(o, edits) /\ Final \in Message
    BY <1>1, Numbers, Fresh
  <1>3. o.msgs \in Seq(Message) /\ Len(o.msgs) \in Nat
    BY <1>2, InsideIs
  <1>4. CASE ~HasDraft(o)
    BY <1>1, <1>2, <1>4, AppendedInside, MarkedMutation DEF TypeInv, Ghosts
  <1>5. CASE HasDraft(o)
    <2>1. n \in 1 .. Len(o.msgs) /\ Last(o.msgs) \in Message
      BY <1>3, <1>5 DEF HasDraft, Count, Last
    <2>2. Rewritten(Last(o.msgs), FALSE) \in Message /\ last \in Message
      BY <1>1, <2>1, Fresh
    <2> HIDE DEF last
    <2>3. /\ Inside(Changed(o, n, Rewritten(Last(o.msgs), FALSE)), edits)
          /\ Inside(Changed(o, n, last), edits)
      BY <1>2, <2>1, <2>2, ChangedInside
    <2>4. /\ Inside(Changed(o, n, Rewritten(Last(o.msgs), FALSE)), edits + 1)
          /\ Inside(Appended(Changed(o, n, last), Final), edits + 1)
      BY <1>2, <2>3, AppendedInside, InsideGrows
    <2>5. Inside(new, edits + 1)
      BY <1>5, <2>4
    <2> HIDE DEF new
    <2> QED
      BY <1>1, <2>5, MarkedMutation DEF TypeInv, Ghosts
  <1> QED
    BY <1>4, <1>5

LEMMA ChunkInside ==
    ASSUME TypeInv, live # 0, Events < MaxEvents
    PROVE  Inside(WithChunk(obj[live]), edits + 1)
  <1> DEFINE o == obj[live]
  <1>2. /\ edits \in Nat /\ edits <= edits + 1 /\ edits + 1 \in Nat /\ edits + 1 <= MaxEvents
        /\ edits <= MaxEvents /\ Inside(o, edits) /\ Draft \in Message
    BY Numbers, Fresh DEF Stamp
  <1>3. o.msgs \in Seq(Message) /\ Len(o.msgs) \in Nat
    BY <1>2, InsideIs
  <1>4. CASE HasDraft(o)
    <2>1. Count(o) \in 1 .. Len(o.msgs) /\ Last(o.msgs) \in Message
      BY <1>3, <1>4 DEF HasDraft, Count, Last
    <2>2. Rewritten(Last(o.msgs), TRUE) \in Message
      BY <2>1, Fresh
    <2>3. Inside(Changed(o, Count(o), Rewritten(Last(o.msgs), TRUE)), edits)
      BY <1>2, <2>1, <2>2, ChangedInside
    <2> QED
      BY <1>2, <1>4, <2>3, InsideGrows DEF WithChunk
  <1>5. CASE ~HasDraft(o)
    <2>1. /\ Inside(Appended(o, Draft), edits + 1)
          /\ Count(o) + 1 \in 1 .. Len(Appended(o, Draft).msgs)
      BY <1>2, <1>3, AppendedInside DEF Count
    <2> QED
      BY <1>2, <1>5, <2>1, ChangedInside DEF WithChunk
  <1> QED
    BY <1>4, <1>5

LEMMA ChunkType ==
    ASSUME TypeInv, AppendChunk \/ \E s \in Saver : AppendFlush(s)
    PROVE  TypeInv'
  <1>1. CASE AppendChunk
    BY <1>1, ChunkInside, MarkedMutation DEF AppendChunk, TypeInv, Ghosts
  <1>2. ASSUME NEW s \in Saver, AppendFlush(s) PROVE TypeInv'
    <2>1. "incremental" \in Kind
      BY DEF Kind
    <2> QED
      BY <1>2, <2>1, ChunkInside, SavedMutation DEF AppendFlush
  <1> QED
    BY <1>1, <1>2

LEMMA AttachType ==
    ASSUME TypeInv, NEW s \in Saver, NEW i, AttachFiles(s, i)
    PROVE  TypeInv'
  <1> DEFINE m == obj[live].msgs[i]
             o == Changed(obj[live], i, Rewritten(m, m.draft))
  <1>1. /\ live # 0 /\ i \in 1 .. Len(obj[live].msgs) /\ Events < MaxEvents /\ hurt' = hurt
        /\ Mutate(o, Begin(Touched(Moved(op)), s, "save", o, Due(o)))
    BY DEF AttachFiles, Mutate, Count
  <1>2. /\ edits \in Nat /\ edits + 1 \in Nat /\ edits <= edits + 1 /\ edits <= MaxEvents
        /\ Inside(obj[live], edits)
    BY <1>1, Numbers
  <1>3. m \in Message /\ m.draft \in BOOLEAN
    <2>1. obj[live].msgs \in Seq(Message)
      BY <1>2, InsideIs
    <2>2. m \in Message
      BY <1>1, <2>1
    <2> QED
      BY <2>2 DEF Message
  <1>4. Rewritten(m, m.draft) \in Message
    BY <1>1, <1>3, Fresh
  <1> HIDE DEF m
  <1>5. Inside(o, edits + 1) /\ HasNew(o)
    BY <1>1, <1>2, <1>4, ChangedInside, InsideGrows DEF HasNew
  <1>6. Due(o) \in Kind
    BY <1>5, PendingType
  <1> HIDE DEF o
  <1> QED
    BY <1>1, <1>5, <1>6, SavedMutation

LEMMA RemoveType ==
    ASSUME TypeInv, RemoveLast
    PROVE  TypeInv'
  <1> DEFINE o == obj[live]
             n == Count(o) - 1
             b == IF o.boundary > n THEN 0 ELSE o.boundary
             new == [o EXCEPT !.msgs = Front(o.msgs), !.cut = o.first + n, !.boundary = b]
  <1>1. /\ live # 0 /\ Events < MaxEvents /\ o.msgs # <<>> /\ hurt' \subseteq hurt \cup {"raised"}
        /\ Mutate(new, Touched(Moved(op)))
    BY DEF RemoveLast, Mutate
  <1>2. /\ edits \in Nat /\ edits + 1 \in Nat /\ edits <= MaxEvents /\ MaxEvents \in Nat
        /\ Inside(o, edits)
    BY <1>1, Numbers
  <1>3. /\ o.msgs \in Seq(Message) /\ Len(o.msgs) \in 0 .. edits /\ o.first \in 0 .. edits
        /\ o.first + Len(o.msgs) <= edits /\ o \in Object
    BY <1>2, InsideIs DEF Inside
  <1>4. Front(o.msgs) \in Seq(Message) /\ Len(Front(o.msgs)) = n /\ n \in Nat
    BY <1>1, <1>3 DEF Front, Count
  <1>5. o.first + n \in Index /\ b \in Index
    <2>1. o.boundary \in Index
      BY <1>3 DEF Object
    <2>2. n = Len(o.msgs) - 1
      BY DEF Count
    <2> HIDE DEF n
    <2>3. o.first + n \in Index
      <3>1. \A l \in 0 .. edits, f \in 0 .. edits :
                f + l <= edits /\ l - 1 \in Nat => f + (l - 1) \in 0 .. MaxEvents
        BY <1>2
      <3> QED
        BY <1>3, <1>4, <2>2, <3>1, Zenon DEF Index
    <2> QED
      BY <1>2, <2>1, <2>3 DEF Index
  <1> HIDE DEF b
  <1>6. new \in Object /\ new.msgs = Front(o.msgs) /\ new.first = o.first
    BY <1>3, <1>4, <1>5 DEF Object
  <1> HIDE DEF new
  <1>7. Inside(new, edits + 1)
    BY <1>2, <1>3, <1>4, <1>6 DEF Inside, Count
  <1>8. hurt' \subseteq Hazard
    BY <1>1 DEF TypeInv, Ghosts, Hazard
  <1> QED
    BY <1>1, <1>7, <1>8, MarkedMutation

\* A full rewrite is owed of an object whose messages are others now.
LEMMA OwedInside ==
    ASSUME NEW n \in Nat, n <= MaxEvents, NEW o, Inside(o, n), NEW l \in Seq(Message),
           o.first + Len(l) <= n, NEW b \in Index
    PROVE  Inside(Owed([o EXCEPT !.msgs = l, !.from = 0, !.to = 0, !.boundary = b]), n)
  <1>1. o \in Object /\ 0 \in Index
    BY SessionAssumption DEF Inside, Index
  <1>2. -1 \in -1 .. MaxEvents - 1
    BY SessionAssumption
  <1> DEFINE new == Owed([o EXCEPT !.msgs = l, !.from = 0, !.to = 0, !.boundary = b])
  <1>3. new \in Object /\ new.msgs = l /\ new.first = o.first
    BY <1>1, <1>2 DEF Object, Owed
  <1> QED
    BY <1>3 DEF Inside

LEMMA TruncateType ==
    ASSUME TypeInv, NEW keep \in {0, 1}, TruncateHistory(keep)
    PROVE  TypeInv'
  <1> DEFINE o == obj[live]
             l == IF keep = 0 THEN <<>> ELSE SubSeq(o.msgs, Count(o) - keep + 1, Count(o))
             new == Owed([o EXCEPT !.msgs = l, !.from = 0, !.to = 0, !.boundary = 0])
  <1>1. /\ live # 0 /\ Events < MaxEvents /\ (keep > 0 => Count(o) > keep) /\ hurt' = hurt
        /\ Mutate(new, Touched(Moved(op)))
    BY DEF TruncateHistory, Mutate
  <1>2. /\ edits \in Nat /\ edits + 1 \in Nat /\ edits <= edits + 1 /\ edits <= MaxEvents
        /\ MaxEvents \in Nat /\ Inside(o, edits) /\ 0 \in Index
    BY <1>1, Numbers DEF Index
  <1>3. /\ o.msgs \in Seq(Message) /\ Len(o.msgs) \in 0 .. edits /\ o.first \in 0 .. edits
        /\ o.first + Len(o.msgs) <= edits
    BY <1>2, InsideIs
  <1>4. l \in Seq(Message) /\ Len(l) \in Nat /\ Len(l) <= Len(o.msgs)
    BY <1>1, <1>3 DEF Count
  <1> HIDE DEF l
  <1>5. o.first + Len(l) <= edits
    BY <1>2, <1>3, <1>4
  <1>6. Inside(new, edits)
    BY <1>2, <1>4, <1>5, OwedInside
  <1> HIDE DEF new
  <1>7. Inside(new, edits + 1)
    BY <1>2, <1>6, InsideGrows
  <1> QED
    BY <1>1, <1>7, MarkedMutation DEF TypeInv, Ghosts

LEMMA SetHistoryType ==
    ASSUME TypeInv, SetHistoryCalls
    PROVE  TypeInv'
  <1> DEFINE o == obj[live]
  <1>0. live # 0 /\ Resident = o /\ Events < MaxEvents
    BY DEF SetHistoryCalls, SetHistory, Mutate, Resident
  <1>2. /\ edits \in Nat /\ edits + 1 \in Nat /\ edits + 1 <= MaxEvents
        /\ MaxEvents \in Nat /\ Inside(o, edits) /\ 0 \in Index /\ Final \in Message
    BY <1>0, Numbers, Fresh DEF Index, Stamp
  <1>3. /\ o.msgs \in Seq(Message) /\ Len(o.msgs) \in 0 .. edits /\ o.first \in 0 .. edits
        /\ o.first + Len(o.msgs) <= edits /\ o \in Object
    BY <1>2, InsideIs DEF Inside
  <1>4. ASSUME NEW l \in Seq(Message), Len(l) <= Len(o.msgs) + 1, SetHistory(l) PROVE TypeInv'
    <2> DEFINE b == IF o.boundary > Len(l) THEN 0 ELSE o.boundary
               new == Owed([o EXCEPT !.msgs = l, !.from = 0, !.to = 0, !.boundary = b])
    <2>1. Mutate(new, Touched(Moved(op))) /\ hurt' = hurt
      BY <1>4 DEF SetHistory
    <2>2. b \in Index
      BY <1>2, <1>3 DEF Object
    <2> HIDE DEF b
    <2>3. Len(l) \in Nat
      BY <1>4
    <2>4. o.first + Len(l) <= edits + 1
      BY <1>2, <1>3, <1>4, <2>3
    <2>5. Inside(o, edits + 1)
      BY <1>2, InsideGrows
    <2>6. Inside(new, edits + 1)
      BY <1>2, <2>2, <2>4, <2>5, OwedInside
    <2> HIDE DEF new
    <2> QED
      BY <2>1, <2>6, MarkedMutation DEF TypeInv, Ghosts
  <1>5. CASE SetHistory(Append(o.msgs, Final))
    <2>1. /\ Append(o.msgs, Final) \in Seq(Message)
          /\ Len(Append(o.msgs, Final)) <= Len(o.msgs) + 1
      BY <1>2, <1>3
    <2> QED
      BY <1>4, <1>5, <2>1
  <1>6. ASSUME NEW i \in 1 .. Count(o), SetHistory(RemoveAt(o.msgs, i)) PROVE TypeInv'
    <2>1. i \in 1 .. Len(o.msgs)
      BY DEF Count
    <2>2. /\ SubSeq(o.msgs, 1, i - 1) \in Seq(Message) /\ Len(SubSeq(o.msgs, 1, i - 1)) = i - 1
          /\ SubSeq(o.msgs, i + 1, Len(o.msgs)) \in Seq(Message)
          /\ Len(SubSeq(o.msgs, i + 1, Len(o.msgs))) = Len(o.msgs) - i
      BY <1>3, <2>1
    <2>3. RemoveAt(o.msgs, i) \in Seq(Message) /\ Len(RemoveAt(o.msgs, i)) <= Len(o.msgs) + 1
      <3>1. SubSeq(o.msgs, 1, i - 1) \o SubSeq(o.msgs, i + 1, Len(o.msgs)) \in Seq(Message)
        BY <2>2
      <3>2. Len(SubSeq(o.msgs, 1, i - 1) \o SubSeq(o.msgs, i + 1, Len(o.msgs)))
               = (i - 1) + (Len(o.msgs) - i)
        <4>1. \A x, y \in Seq(Message) : Len(x \o y) = Len(x) + Len(y)
          OBVIOUS
        <4> QED
          BY <2>2, <4>1, Zenon
      <3>3. (i - 1) + (Len(o.msgs) - i) <= Len(o.msgs) + 1
        BY <1>3, <2>1
      <3> QED
        BY <3>1, <3>2, <3>3 DEF RemoveAt
    <2> QED
      BY <1>4, <1>6, <2>3
  <1> QED
    BY <1>0, <1>5, <1>6 DEF SetHistoryCalls

LEMMA ExcludeType ==
    ASSUME TypeInv, NEW up \in 0 .. MaxEvents, NEW pins, Exclude(up, pins)
    PROVE  TypeInv'
  <1> DEFINE o     == obj[live]
             first == IF o.msgs[1].out THEN 0 ELSE 1
             heads == {up, first + 1} \cup {i \in pins : o.msgs[i].out}
             top   == Max(heads)
             l     == Marked(o, up, pins)
             new   == [o EXCEPT !.msgs = l, !.from = first, !.to = top, !.boundary = top]
  <1>1. /\ live # 0 /\ Events < MaxEvents /\ up < Count(o) + 1 /\ pins \subseteq 2 .. Count(o)
        /\ Count(o) > 0 /\ hurt' \subseteq hurt \cup {"overlapped"}
        /\ Mutate(new, Moved(op))
    BY DEF Exclude, Mutate
  <1>2. /\ edits \in Nat /\ edits + 1 \in Nat /\ edits <= edits + 1 /\ edits + 1 <= MaxEvents
        /\ MaxEvents \in Nat /\ Inside(o, edits)
    BY <1>1, Numbers DEF Stamp
  <1>3. /\ o.msgs \in Seq(Message) /\ Len(o.msgs) \in 0 .. edits /\ o.first \in 0 .. edits
        /\ o.first + Len(o.msgs) <= edits /\ o \in Object
    BY <1>2, InsideIs DEF Inside
  <1>4. Len(o.msgs) \in 1 .. edits /\ Count(o) = Len(o.msgs)
    BY <1>1, <1>3 DEF Count
  <1>5. first \in {0, 1}
    OBVIOUS
  <1> HIDE DEF first
  <1>6. heads \subseteq 0 .. Len(o.msgs) + 1 /\ heads # {}
    BY <1>1, <1>4, <1>5
  <1>7. top \in heads
    <2>1. heads \subseteq -1 .. Len(o.msgs) + 1 /\ Len(o.msgs) + 1 \in Nat
      BY <1>4, <1>6
    <2> QED
      BY <1>6, <2>1, MaxIs
  <1>8. top \in Index /\ first \in Index
    <2>1. top \in 0 .. Len(o.msgs) + 1
      BY <1>6, <1>7
    <2> HIDE DEF top
    <2>2. first = 0 \/ first = 1
      BY <1>5
    <2> QED
      BY <1>2, <1>4, <2>1, <2>2 DEF Index
  <1>9. l \in Seq(Message) /\ Len(l) = Len(o.msgs)
    <2>1. \A i \in 1 .. Count(o) : o.msgs[i] \in Message
      BY <1>3, <1>4
    <2>2. \A m \in Message : \A b : [m EXCEPT !.out = FALSE] \in Message /\ [m EXCEPT !.out = b \/ m.out] \in Message
      BY DEF Message
    <2>3. ASSUME NEW i \in 1 .. Count(o)
          PROVE  [o.msgs[i] EXCEPT !.out = IF i = 1 \/ i \in pins THEN FALSE ELSE (i <= up /\ up > 1) \/ @]
                    \in Message
      <3>1. CASE i = 1 \/ i \in pins
        BY <2>1, <2>2, <3>1
      <3>2. CASE ~(i = 1 \/ i \in pins)
        <4>1. [o.msgs[i] EXCEPT !.out = (i <= up /\ up > 1) \/ o.msgs[i].out] \in Message
          BY <2>1, <2>2
        <4> QED
          BY <3>2, <4>1
      <3> QED
        BY <3>1, <3>2
    <2>4. l \in [1 .. Count(o) -> Message]
      BY <2>3 DEF Marked
    <2> QED
      BY <1>4, <2>4
  <1> HIDE DEF top, l
  <1>10. new \in Object /\ new.msgs = l /\ new.first = o.first
    BY <1>3, <1>8, <1>9 DEF Object
  <1> HIDE DEF new
  <1>11. Inside(new, edits + 1)
    BY <1>2, <1>3, <1>9, <1>10 DEF Inside
  <1>12. hurt' \subseteq Hazard
    BY <1>1 DEF TypeInv, Ghosts, Hazard
  <1> QED
    BY <1>1, <1>11, <1>12, MarkedMutation

-----------------------------------------------------------------------------
(* Sessions become resident.                                               *)

LEMMA LoadFromType ==
    ASSUME TypeInv
    PROVE  LoadFrom \in 0 .. edits
  <1>1. /\ edits \in Nat /\ rows \in Rows(edits) /\ column \in -1 .. edits
        /\ DOMAIN rows \subseteq 0 .. edits - 1
    BY Numbers, RowsCounted DEF TypeInv, RowsInv
  <1>2. InContext # {} => Min(InContext) \in 0 .. edits
    <2>1. InContext \subseteq DOMAIN rows /\ InContext \subseteq Nat
      BY <1>1 DEF InContext
    <2> QED
      BY <1>1, <2>1, MinIs
  <1>3. Max({0} \cup DOMAIN rows) \in 0 .. edits
    <2>1. {0} \cup DOMAIN rows \subseteq -1 .. edits /\ {0} \cup DOMAIN rows \subseteq 0 .. edits
      BY <1>1
    <2>2. Max({0} \cup DOMAIN rows) \in {0} \cup DOMAIN rows
      BY <1>1, <2>1, MaxIs
    <2> QED
      BY <2>1, <2>2
  <1> QED
    BY <1>1, <1>2, <1>3 DEF LoadFrom

LEMMA LoadedInside ==
    ASSUME TypeInv, NEW k \in 0 .. edits
    PROVE  Inside(LoadedFrom(k), edits) /\ LoadedFrom(k).first = k
  <1> DEFINE part == Only(rows, From(k))
             l    == Listed(part)
             p    == LoadedFrom(k)
  <1>1. edits \in Nat /\ edits <= MaxEvents /\ MaxEvents \in Nat /\ rows \in Rows(edits)
    BY Numbers DEF TypeInv, RowsInv
  <1>2. part \in Rows(edits) /\ DOMAIN part = DOMAIN rows \cap From(k)
    BY <1>1, OnlyType
  <1>3. DOMAIN part \subseteq k .. edits - 1
    BY <1>1, <1>2, RowsCounted DEF From
  <1>4. Cardinality(DOMAIN part) \in Nat /\ Cardinality(DOMAIN part) <= edits - k
    BY <1>1, <1>3, Counted
  <1>5. l \in Seq(Message) /\ Len(l) = Cardinality(DOMAIN part)
    BY <1>1, <1>2, ListedType
  <1>6. p = [Blank EXCEPT !.msgs = l, !.first = k, !.saved = Len(l) - 1]
    BY DEF LoadedFrom
  <1> HIDE DEF part, l, p
  <1>7. Len(l) - 1 \in -1 .. MaxEvents - 1 /\ k \in Index /\ 0 \in Index
    BY <1>1, <1>4, <1>5 DEF Index
  <1>8. p \in Object /\ p.msgs = l /\ p.first = k
    BY <1>5, <1>6, <1>7 DEF Object, Blank
  <1> QED
    BY <1>1, <1>4, <1>5, <1>8 DEF Inside, p

LEMMA BlankInside ==
    ASSUME TypeInv
    PROVE  Inside(Blank, edits)
  <1>1. 0 \in Index /\ -1 \in -1 .. MaxEvents - 1 /\ edits \in Nat
    BY Numbers DEF Index
  <1>2. Blank \in Object /\ Len(Blank.msgs) = 0 /\ Blank.first = 0
    BY <1>1 DEF Blank, Object
  <1> QED
    BY <1>1, <1>2 DEF Inside

\* With one object more, what was an object or a call still is one.
LEMMA ObjectAdded ==
    ASSUME TypeInv, NEW o, Inside(o, edits), Len(obj) < MaxObjs
    PROVE  /\ Append(obj, o) \in Seq(Object) /\ Len(Append(obj, o)) = Len(obj) + 1
           /\ Len(obj) + 1 <= MaxObjs
           /\ \A i \in 1 .. Len(obj) + 1 : Inside(Append(obj, o)[i], edits)
           /\ CallsInv(op, Append(obj, o), edits)
  <1> DEFINE objs == Append(obj, o)
  <1>1. /\ obj \in Seq(Object) /\ Len(obj) \in Nat /\ edits \in Nat /\ o \in Object /\ MaxObjs \in Nat
        /\ \A i \in 1 .. Len(obj) : Inside(obj[i], edits)
    BY Numbers DEF Inside
  <1>2. /\ objs \in Seq(Object) /\ Len(objs) = Len(obj) + 1
        /\ objs[Len(obj) + 1] = o /\ \A i \in 1 .. Len(obj) : objs[i] = obj[i]
    BY <1>1
  <1> HIDE DEF objs
  <1>3. \A i \in 1 .. Len(obj) + 1 : Inside(objs[i], edits)
    BY <1>1, <1>2
  <1>4. ASSUME NEW s \in Saver PROVE Sane(op[s], objs, edits)
    <2>1. Sane(op[s], obj, edits)
      BY DEF TypeInv, CallsInv
    <2>2. op[s].pc # "idle" /\ ~op[s].moved
             => /\ Len(objs[op[s].target].msgs) <= Len(obj[op[s].target].msgs)
                /\ Len(objs[op[s].target].msgs) \in Nat /\ Len(obj[op[s].target].msgs) \in Nat
      <3>1. op[s].pc # "idle" => op[s].target \in 1 .. Len(obj)
        BY <1>1, <2>1 DEF Sane, Call
      <3>2. \A i \in 1 .. Len(obj) : Len(obj[i].msgs) \in Nat /\ objs[i] = obj[i]
        BY <1>1, <1>2, InsideIs
      <3> QED
        BY <3>1, <3>2
    <2>3. Len(obj) <= Len(objs) /\ Len(objs) \in Nat /\ edits <= edits
      BY <1>1, <1>2
    <2> QED
      BY <1>1, <2>1, <2>2, <2>3, StaysSane
  <1>5. CallsInv(op, objs, edits)
    BY <1>4 DEF TypeInv, CallsInv
  <1> QED
    BY <1>1, <1>2, <1>3, <1>5 DEF objs

\* What a load or a new session puts in memory, and what its reads leave.
Opened(o) ==
    \/ /\ column # -1 /\ UNCHANGED hurt
       /\ \E n \in 0 .. 2 * MaxEvents : Read(n) /\ o = LoadedFrom(n)
    \/ NotFound /\ o = Blank /\ UNCHANGED column

LEMMA ReadIs ==
    ASSUME TypeInv, NEW n \in 0 .. 2 * MaxEvents, Read(n)
    PROVE  /\ n \in 0 .. edits /\ n \in {column, LoadFrom}
           /\ column' \in {column, LoadFrom} /\ (faults' = faults \/ Fault)
  <1>1. LoadFrom \in 0 .. edits /\ column \in -1 .. edits /\ edits \in Nat /\ MaxEvents \in Nat
    BY LoadFromType, Numbers DEF TypeInv, RowsInv
  <1> QED
    BY <1>1 DEF Read

LEMMA OpenedType ==
    ASSUME TypeInv, NEW o, Opened(o), UNCHANGED <<rows, edits, boots, torn, folded>>
    PROVE  Inside(o, edits) /\ RowsInv' /\ Counts' /\ Ghosts'
  <1>1. /\ Inside(o, edits) /\ column' \in {column, LoadFrom} /\ (faults' = faults \/ Fault)
        /\ hurt' \subseteq hurt \cup {"unread"}
    <2>1. CASE UNCHANGED hurt /\ \E n \in 0 .. 2 * MaxEvents : Read(n) /\ o = LoadedFrom(n)
      BY <2>1, ReadIs, LoadedInside
    <2>2. CASE NotFound /\ o = Blank /\ UNCHANGED column
      BY <2>2, BlankInside DEF NotFound
    <2> QED
      BY <2>1, <2>2 DEF Opened
  <1>2. RowsInv'
    BY <1>1, LoadFromType, Numbers DEF TypeInv, RowsInv
  <1>3. Counts'
    BY <1>1, SessionAssumption DEF TypeInv, Counts, Events, Fault
  <1>4. Ghosts'
    BY <1>1 DEF TypeInv, Ghosts, Hazard
  <1> QED
    BY <1>1, <1>2, <1>3, <1>4

LEMMA LoadType ==
    ASSUME TypeInv, Load \/ Create
    PROVE  TypeInv'
  <1>1. PICK o : /\ Opened(o) /\ Len(obj) < MaxObjs /\ obj' = Append(obj, o) /\ live' = Len(obj) + 1
                 /\ op' = Touched(op) /\ UNCHANGED <<rows, edits, boots, torn, folded>>
    BY DEF Load, Create, Opened
  <1>2. Inside(o, edits) /\ RowsInv' /\ Counts' /\ Ghosts'
    BY <1>1, OpenedType
  <1>3. /\ obj' \in Seq(Object) /\ Len(obj') = Len(obj) + 1 /\ Len(obj') <= MaxObjs
        /\ \A i \in 1 .. Len(obj') : Inside(obj'[i], edits)
        /\ CallsInv(op, obj', edits) /\ Len(obj) \in Nat /\ edits \in Nat
    BY <1>1, <1>2, ObjectAdded, Numbers
  <1>4. CallsInv(op', obj', edits)
    BY <1>1, <1>3, TouchedSane
  <1>5. ObjsInv'
    BY <1>1, <1>3 DEF ObjsInv
  <1> QED
    BY <1>1, <1>2, <1>4, <1>5 DEF TypeInv, CallsInv

LEMMA LoadingCall ==
    ASSUME NEW n \in Nat, NEW k \in Nat, NEW c \in Call(n, k), NEW t \in 1 .. k
    PROVE  /\ [c EXCEPT !.pc = "loading", !.target = t] \in Call(n, k)
           /\ [c EXCEPT !.pc = "loading", !.target = t].pc = "loading"
           /\ [c EXCEPT !.pc = "loading", !.target = t].target = t
  <1> DEFINE d == [c EXCEPT !.pc = "loading"]
  <1>1. d \in Call(n, k) /\ d.pc = "loading"
    BY DEF Call, Phase
  <1>2. [c EXCEPT !.pc = "loading", !.target = t] = [d EXCEPT !.target = t]
    OBVIOUS
  <1> HIDE DEF d
  <1>3. /\ [d EXCEPT !.target = t] \in Call(n, k) /\ [d EXCEPT !.target = t].pc = "loading"
        /\ [d EXCEPT !.target = t].target = t
    BY <1>1 DEF Call
  <1> QED
    BY <1>2, <1>3

LEMMA LoadReadType ==
    ASSUME TypeInv, NEW s \in Saver, LoadRead(s) \/ CreateBlank(s)
    PROVE  TypeInv'
  <1> DEFINE c == [Idle EXCEPT !.pc = "loading", !.target = Len(obj) + 1]
  <1>1. PICK o : /\ Opened(o) /\ Len(obj) < MaxObjs /\ obj' = Append(obj, o) /\ op' = [op EXCEPT ![s] = c]
                 /\ UNCHANGED <<rows, live, edits, boots, torn, folded>>
    BY DEF LoadRead, CreateBlank, Opened, Inserting
  <1>2. Inside(o, edits) /\ RowsInv' /\ Counts' /\ Ghosts'
    BY <1>1, OpenedType
  <1>3. /\ obj' \in Seq(Object) /\ Len(obj') = Len(obj) + 1 /\ Len(obj') <= MaxObjs
        /\ \A i \in 1 .. Len(obj') : Inside(obj'[i], edits)
        /\ CallsInv(op, obj', edits) /\ Len(obj) \in Nat /\ edits \in Nat /\ live \in 0 .. Len(obj)
    BY <1>1, <1>2, ObjectAdded, Numbers
  <1>4. Sane(c, obj', edits)
    <2>1. Idle \in Call(edits, Len(obj'))
      BY <1>3, IdleSane DEF Sane
    <2>2. Len(obj) + 1 \in 1 .. Len(obj')
      BY <1>3
    <2>3. c \in Call(edits, Len(obj')) /\ c.pc = "loading" /\ c.target = Len(obj) + 1
      <3>1. Len(obj') \in Nat /\ edits \in Nat
        BY <1>3
      <3>2. \A x \in Call(edits, Len(obj')), t \in 1 .. Len(obj') :
               /\ [x EXCEPT !.pc = "loading", !.target = t] \in Call(edits, Len(obj'))
               /\ [x EXCEPT !.pc = "loading", !.target = t].pc = "loading"
               /\ [x EXCEPT !.pc = "loading", !.target = t].target = t
        BY <3>1, LoadingCall
      <3> DEFINE k == Len(obj')
      <3>3. Len(obj) + 1 \in 1 .. k /\ Idle \in Call(edits, k)
        BY <2>1, <2>2
      <3> HIDE DEF k
      <3> QED
        BY <3>2, <3>3, Zenon DEF k
    <2> HIDE DEF c
    <2> QED
      BY <1>3, <2>3 DEF Sane, InFlight
  <1> HIDE DEF c
  <1>5. CallsInv(op', obj', edits)
    BY <1>1, <1>3, <1>4 DEF CallsInv
  <1>6. ObjsInv'
    BY <1>1, <1>3 DEF ObjsInv
  <1> QED
    BY <1>1, <1>2, <1>5, <1>6 DEF TypeInv, CallsInv

LEMMA InstallType ==
    ASSUME TypeInv, NEW s \in Saver, LoadInstall(s)
    PROVE  TypeInv'
  <1>1. /\ live' = op[s].target /\ op' = Touched([op EXCEPT ![s] = Idle])
        /\ hurt' \subseteq hurt \cup {"installed"}
        /\ UNCHANGED <<rows, column, obj, edits, faults, boots, torn, folded>>
    BY DEF LoadInstall
  <1>2. edits \in Nat /\ Len(obj) \in Nat
    BY Numbers
  <1>3. CallsInv([op EXCEPT ![s] = Idle], obj, edits)
    BY <1>2, IdleSane DEF TypeInv, CallsInv
  <1>4. CallsInv(op', obj, edits)
    BY <1>1, <1>2, <1>3, TouchedSane
  <1>5. op[s].target \in 0 .. Len(obj)
    BY DEF TypeInv, CallsInv, Sane, Call
  <1>6. hurt' \subseteq Hazard
    BY <1>1 DEF TypeInv, Ghosts, Hazard
  <1> QED
    BY <1>1, <1>4, <1>5, <1>6 DEF TypeInv, ObjsInv, RowsInv, Counts, Events, Ghosts, CallsInv

-----------------------------------------------------------------------------
(* Saves begin.                                                            *)

LEMMA SaveType ==
    ASSUME TypeInv, NEW s \in Saver, Save(s) \/ FlushDraft(s)
    PROVE  TypeInv'
  <1>1. /\ edits \in Nat /\ edits <= MaxEvents /\ obj \in Seq(Object)
        /\ live \in 1 .. Len(obj) /\ Inside(obj[live], edits)
    BY Numbers DEF Save, FlushDraft
  <1>2. CallsInv(op, obj, edits) /\ CallsInv(Touched(op), obj, edits)
    BY <1>1, TouchedSane DEF TypeInv
  <1>3. "incremental" \in Kind /\ (Due(obj[live]) # "none" => Due(obj[live]) \in Kind)
    BY PendingType DEF Kind, Due
  <1>4. CallsInv(op', obj, edits)
    BY <1>1, <1>2, <1>3, BeginSane DEF Save, FlushDraft
  <1>5. UNCHANGED <<rows, column, obj, live, edits, faults, boots, hurt, torn, folded>>
    BY DEF Save, FlushDraft
  <1> QED
    BY <1>4, <1>5 DEF TypeInv, ObjsInv, RowsInv, Counts, Events, Ghosts, CallsInv

LEMMA EvictType ==
    ASSUME TypeInv, NEW s \in Saver, Evict(s)
    PROVE  TypeInv'
  <1>1. /\ edits \in Nat /\ edits <= MaxEvents /\ obj \in Seq(Object) /\ Len(obj) \in Nat
        /\ live \in 1 .. Len(obj) /\ Inside(obj[live], edits)
    BY Numbers DEF Evict
  <1>2. CallsInv(op, obj, edits) /\ CallsInv(Touched(op), obj, edits)
    BY <1>1, TouchedSane DEF TypeInv
  <1>3. Due(obj[live]) # "none" => Due(obj[live]) \in Kind
    BY PendingType DEF Due
  <1>4. CallsInv(op', obj, edits) /\ live' \in 0 .. Len(obj)
    BY <1>1, <1>2, <1>3, BeginSane DEF Evict
  <1>5. UNCHANGED <<rows, column, obj, edits, faults, boots, torn, folded>>
    BY DEF Evict
  <1>6. hurt' \subseteq Hazard
    BY DEF Evict, Torn, TypeInv, Ghosts, Hazard
  <1> QED
    BY <1>4, <1>5, <1>6 DEF TypeInv, ObjsInv, RowsInv, Counts, Events, Ghosts, CallsInv

\* An eviction of excluded messages takes none, or some, or all of them.
LEMMA EvictUpToType ==
    ASSUME NEW n \in Nat, n <= MaxEvents, NEW o, Inside(o, n), OutAt(o) # {}
    PROVE  EvictUpTo(o) \in 0 .. Len(o.msgs)
  <1>1. Len(o.msgs) \in Nat /\ Count(o) = Len(o.msgs) /\ o.boundary \in Nat
    BY InsideIs, SessionAssumption DEF Count, Inside, Object, Index
  <1>2. OutAt(o) \subseteq 1 .. Len(o.msgs) /\ InAt(o) \subseteq 1 .. Len(o.msgs)
    BY <1>1 DEF OutAt, InAt
  <1>3. Min(OutAt(o)) \in OutAt(o) /\ Max(OutAt(o)) \in OutAt(o)
    <2>1. OutAt(o) \subseteq Nat /\ OutAt(o) \subseteq -1 .. Len(o.msgs)
      BY <1>1, <1>2
    <2> QED
      BY <1>1, <2>1, MinIs, MaxIs
  <1>4. FirstRun(o) \in 0 .. Len(o.msgs)
    <2> DEFINE T == {i \in InAt(o) : i > Min(OutAt(o))} \cup {Count(o) + 1}
    <2>1. T \subseteq Nat /\ T # {} /\ T \subseteq 1 .. Len(o.msgs) + 1
      BY <1>1, <1>2
    <2>2. Min(T) \in T
      BY <2>1, MinIs
    <2>3. Min(T) \in 1 .. Len(o.msgs) + 1
      BY <2>1, <2>2
    <2> HIDE DEF T
    <2>4. Min(T) - 1 \in 0 .. Len(o.msgs)
      BY <1>1, <2>3
    <2> QED
      BY <2>4 DEF FirstRun, T
  <1>5. \A a \in 0 .. Len(o.msgs), b \in Nat : Min({a, b}) \in 0 .. Len(o.msgs)
    <2> TAKE a \in 0 .. Len(o.msgs), b \in Nat
    <2>1. {a, b} \subseteq Nat /\ {a, b} # {}
      BY <1>1
    <2>2. Min({a, b}) \in {a, b} /\ Min({a, b}) <= a
      BY <2>1, MinIs
    <2> QED
      BY <1>1, <2>2
  <1>6. Reach(o) \in 0 .. Len(o.msgs)
    <2>1. Max(OutAt(o)) \in 0 .. Len(o.msgs)
      BY <1>1, <1>2, <1>3
    <2> QED
      BY <1>1, <1>4, <1>5, <2>1 DEF Reach
  <1>7. InAt(o) # {} => Max(InAt(o)) - 1 \in Nat
    <2>1. InAt(o) \subseteq -1 .. Len(o.msgs)
      BY <1>1, <1>2
    <2>2. InAt(o) # {} => Max(InAt(o)) \in InAt(o)
      BY <1>1, <2>1, MaxIs
    <2> QED
      BY <1>1, <1>2, <2>2
  <1> QED
    BY <1>5, <1>6, <1>7 DEF EvictUpTo

LEMMA CleanedInside ==
    ASSUME NEW n \in Nat, n <= MaxEvents, NEW o, Inside(o, n)
    PROVE  Inside(Cleaned(o), n) /\ Cleaned(o).msgs = o.msgs /\ Cleaned(o).first = o.first
  <1>1. o \in Object /\ Len(o.msgs) \in 0 .. n /\ MaxEvents \in Nat
    BY InsideIs, SessionAssumption DEF Inside
  <1>2. Count(o) - 1 \in -1 .. MaxEvents - 1 /\ 0 \in Index
    BY <1>1 DEF Count, Index
  <1>3. Cleaned(o) \in Object /\ Cleaned(o).msgs = o.msgs /\ Cleaned(o).first = o.first
    BY <1>1, <1>2 DEF Cleaned, Object
  <1> QED
    BY <1>3 DEF Inside

\* A session whose flags change, and no message.
LEMMA SameMessages ==
    ASSUME TypeInv, NEW calls, CallsInv(calls, obj, edits), NEW i \in 1 .. Len(obj),
           NEW o, Inside(o, edits), o.msgs = obj[i].msgs
    PROVE  /\ [obj EXCEPT ![i] = o] \in Seq(Object) /\ Len([obj EXCEPT ![i] = o]) = Len(obj)
           /\ \A j \in 1 .. Len(obj) : Inside([obj EXCEPT ![i] = o][j], edits)
           /\ CallsInv(calls, [obj EXCEPT ![i] = o], edits)
  <1> DEFINE objs == [obj EXCEPT ![i] = o]
  <1>1. /\ obj \in Seq(Object) /\ Len(obj) \in Nat /\ edits \in Nat /\ o \in Object
        /\ \A j \in 1 .. Len(obj) : Inside(obj[j], edits)
    BY Numbers DEF Inside
  <1>2. /\ objs \in Seq(Object) /\ Len(objs) = Len(obj) /\ objs[i] = o
        /\ \A j \in 1 .. Len(obj) : j # i => objs[j] = obj[j]
    BY <1>1
  <1> HIDE DEF objs
  <1>3. \A j \in 1 .. Len(obj) : Inside(objs[j], edits) /\ objs[j].msgs = obj[j].msgs
    BY <1>1, <1>2
  <1>4. ASSUME NEW s \in Saver PROVE Sane(calls[s], objs, edits)
    <2> DEFINE c == calls[s]
    <2>1. Sane(c, obj, edits)
      BY DEF CallsInv
    <2>2. c.pc # "idle" => c.target \in 1 .. Len(obj)
      BY <1>1, <2>1 DEF Sane, Call
    <2> HIDE DEF c
    <2>3. c.pc # "idle" /\ ~c.moved
             => /\ Len(objs[c.target].msgs) <= Len(obj[c.target].msgs)
                /\ Len(objs[c.target].msgs) \in Nat /\ Len(obj[c.target].msgs) \in Nat
      <3>1. \A j \in 1 .. Len(obj) : Len(obj[j].msgs) \in Nat
        BY <1>1, InsideIs
      <3>2. \A k \in Nat : k <= k
        OBVIOUS
      <3> QED
        BY <1>3, <2>2, <3>1, <3>2, Zenon
    <2>4. Len(obj) <= Len(objs) /\ Len(objs) \in Nat /\ edits <= edits
      BY <1>1, <1>2
    <2>5. Sane(c, objs, edits)
      BY <1>1, <2>1, <2>3, <2>4, StaysSane
    <2> QED
      BY <2>5 DEF c
  <1> QED
    BY <1>2, <1>3, <1>4 DEF CallsInv, objs

LEMMA EvictExcludedType ==
    ASSUME TypeInv, NEW s \in Saver, EvictExcluded(s)
    PROVE  TypeInv'
  <1> DEFINE o == obj[live]
             n == EvictUpTo(o)
             tail == [o EXCEPT !.msgs = SubSeq(o.msgs, n + 1, Count(o)), !.first = o.first + n]
  <1>1. /\ edits \in Nat /\ edits <= MaxEvents /\ obj \in Seq(Object) /\ Len(obj) \in Nat
        /\ live \in 1 .. Len(obj) /\ live # 0 /\ Inside(o, edits) /\ OutAt(o) # {}
    BY Numbers DEF EvictExcluded
  <1>2. /\ UNCHANGED <<rows, column, live, edits, faults, boots, torn>>
        /\ hurt' \subseteq hurt \cup {"wiped"}
    BY DEF EvictExcluded
  <1>3. /\ o.msgs \in Seq(Message) /\ Len(o.msgs) \in 0 .. edits /\ o.first \in 0 .. edits
        /\ o.first + Len(o.msgs) <= edits /\ o \in Object
    BY <1>1, InsideIs DEF Inside
  <1>4. n \in 0 .. Len(o.msgs) /\ Count(o) = Len(o.msgs)
    BY <1>1, EvictUpToType DEF Count
  <1>5. hurt' \subseteq Hazard
    BY <1>2 DEF TypeInv, Ghosts, Hazard
  <1>6. CASE n = 0
    <2>1. obj' = [obj EXCEPT ![live] = Cleaned(o)] /\ op' = Touched(op) /\ folded' = folded
      BY <1>6 DEF EvictExcluded
    <2>2. Inside(Cleaned(o), edits) /\ Cleaned(o).msgs = o.msgs
      BY <1>1, CleanedInside
    <2>3. CallsInv(Touched(op), obj, edits)
      BY <1>1, TouchedSane DEF TypeInv
    <2>4. /\ obj' \in Seq(Object) /\ Len(obj') = Len(obj) /\ CallsInv(op', obj', edits)
          /\ \A j \in 1 .. Len(obj) : Inside(obj'[j], edits)
      BY <1>1, <2>1, <2>2, <2>3, SameMessages
    <2> QED
      BY <1>2, <1>5, <2>1, <2>4
         DEF TypeInv, ObjsInv, RowsInv, Counts, Events, Ghosts, CallsInv
  <1>7. CASE n # 0
    <2>1. /\ obj' = [obj EXCEPT ![live] = tail] /\ op' = Begin(Moved(op), s, "compact", tail, "boundary")
          /\ folded' = folded \cup Folded(o, n)
      BY <1>7 DEF EvictExcluded
    <2>2. Inside(tail, edits)
      <3>1. /\ SubSeq(o.msgs, n + 1, Count(o)) \in Seq(Message)
            /\ Len(SubSeq(o.msgs, n + 1, Count(o))) = Len(o.msgs) - n
        BY <1>3, <1>4
      <3>2. o.first + n \in Index /\ o.first + n + (Len(o.msgs) - n) <= edits
        BY <1>1, <1>3, <1>4, SessionAssumption DEF Index
      <3>3. /\ tail \in Object /\ tail.msgs = SubSeq(o.msgs, n + 1, Count(o))
            /\ tail.first = o.first + n
        BY <1>3, <3>1, <3>2 DEF Object
      <3> QED
        BY <3>1, <3>2, <3>3 DEF Inside
    <2>3. Folded(o, n) \subseteq Stamp
      <3>1. \A i \in 1 .. Len(o.msgs) : o.msgs[i].id \in Stamp
        <4>1. \A i \in 1 .. Len(o.msgs) : o.msgs[i] \in Message
          BY <1>3
        <4> QED
          BY <4>1 DEF Message
      <3> QED
        BY <1>4, <3>1 DEF Folded, InAt
    <2> DEFINE objs == [obj EXCEPT ![live] = tail]
    <2> HIDE DEF tail, n
    <2>4. /\ objs \in Seq(Object) /\ Len(objs) = Len(obj) /\ objs[live] = tail
          /\ \A j \in 1 .. Len(obj) : j # live => objs[j] = obj[j]
      BY <1>1, <2>2 DEF Inside
    <2>5. \A j \in 1 .. Len(obj) : Inside(objs[j], edits)
      BY <2>2, <2>4, Numbers
    <2>6. edits <= edits /\ CallsInv(Moved(op), [obj EXCEPT ![live] = tail], edits)
      BY <1>1, <2>2, MovedSane
    <2>7. CallsInv(Moved(op), objs, edits)
      BY <2>6
    <2> HIDE DEF objs
    <2>8. "boundary" \in Kind
      BY DEF Kind
    <2>9. CallsInv(Begin(Moved(op), s, "compact", objs[live], "boundary"), objs, edits)
      BY <1>1, <2>2, <2>4, <2>7, <2>8, BeginSane
    <2>10. CallsInv(op', objs, edits) /\ obj' = objs
      BY <2>1, <2>4, <2>9 DEF objs
    <2> QED
      BY <1>2, <1>5, <2>1, <2>3, <2>4, <2>5, <2>10
         DEF TypeInv, ObjsInv, RowsInv, Counts, Events, Ghosts, CallsInv
  <1> QED
    BY <1>6, <1>7

-----------------------------------------------------------------------------
(* Saves execute their statements.                                         *)

LEMMA LandedSane ==
    ASSUME NEW objs, NEW n \in Nat, NEW c, Sane(c, objs, n), InFlight(c)
    PROVE  /\ Sane(Landed(c), objs, n)
           /\ Sane([Landed(c) EXCEPT !.failed = TRUE], objs, n)
  <1> DEFINE k == Len(objs)
  <1>1. c \in Call(n, k) /\ <<>> \in Rows(n) /\ -1 \in Index \cup {-1}
    BY NoRows DEF Sane
  <1>2. /\ Landed(c) \in Call(n, k) /\ Landed(c).pc = "back"
        /\ Landed(c).kind = c.kind /\ Landed(c).target = c.target /\ Landed(c).outer = c.outer
        /\ Landed(c).col = c.col /\ Landed(c).moved = c.moved
    BY <1>1 DEF Landed, Call, Phase
  <1> DEFINE d == Landed(c)
  <1> HIDE DEF d
  <1>3. d \in Call(n, k)
    BY <1>2 DEF d
  <1>4. /\ [d EXCEPT !.failed = TRUE] \in Call(n, k) /\ [d EXCEPT !.failed = TRUE].pc = d.pc
        /\ [d EXCEPT !.failed = TRUE].kind = d.kind /\ [d EXCEPT !.failed = TRUE].target = d.target
        /\ [d EXCEPT !.failed = TRUE].outer = d.outer /\ [d EXCEPT !.failed = TRUE].col = d.col
        /\ [d EXCEPT !.failed = TRUE].moved = d.moved
    BY <1>3 DEF Call
  <1> QED
    BY <1>1, <1>2, <1>4 DEF Sane, InFlight, d

LEMMA ExecutedSane ==
    ASSUME NEW objs, NEW n \in Nat, NEW c, Sane(c, objs, n), c.pc \in {"rows", "update"}
    PROVE  Sane(Executed(c), objs, n)
  <1>1. InFlight(c) /\ c \in Call(n, Len(objs))
    BY DEF InFlight, Sane
  <1>2. Sane([c EXCEPT !.pc = "update"], objs, n)
    BY <1>1 DEF Sane, Call, InFlight, Phase
  <1> QED
    BY <1>1, <1>2, LandedSane DEF Executed

LEMMA BehindSane ==
    ASSUME NEW objs, NEW n \in Nat, NEW calls, CallsInv(calls, objs, n), NEW s \in Saver
    PROVE  CallsInv(Behind(calls, s), objs, n)
  <1>1. ASSUME NEW x \in Saver PROVE Sane(Behind(calls, s)[x], objs, n)
    BY MarkedSane DEF CallsInv, Behind
  <1> QED
    BY <1>1 DEF CallsInv, Behind

LEMMA FailType ==
    ASSUME TypeInv, NEW s \in Saver, InFlight(op[s]), Fail(s)
    PROVE  CallsInv(op', obj, edits) /\ faults' \in Nat /\ edits + faults' + boots - 1 <= MaxEvents
  <1>1. edits \in Nat
    BY Numbers
  <1>2. Sane([Landed(op[s]) EXCEPT !.failed = TRUE], obj, edits)
    BY <1>1, LandedSane DEF TypeInv, CallsInv
  <1>3. op' = [op EXCEPT ![s] = [Landed(op[s]) EXCEPT !.failed = TRUE]]
    BY DEF Fail
  <1>4. CallsInv(op', obj, edits)
    BY <1>2, <1>3 DEF TypeInv, CallsInv
  <1> QED
    BY <1>4, SessionAssumption DEF Fail, Fault, TypeInv, Counts, Events

\* UpsertSession of a full rewrite reads the evicted rows and puts them in front.
LEMMA RewriteSane ==
    ASSUME TypeInv, NEW s \in Saver, op[s].pc = "meta", op[s].kind = "full"
    PROVE  Sane(WithEvicted(op[s]), obj, edits)
  <1> DEFINE c       == op[s]
             part    == Only(rows, Below(c.col))
             evicted == Listed(part)
             own     == Listed(c.put)
             put     == RowsFrom(0, evicted \o own)
             d == [c EXCEPT !.pc = "rows", !.col = Len(evicted), !.put = put]
  <1>1. edits \in Nat /\ rows \in Rows(edits) /\ Sane(c, obj, edits)
    BY Numbers DEF TypeInv, RowsInv, CallsInv
  <1>2. c \in Call(edits, Len(obj)) /\ c.put \in Rows(edits) /\ c.col \in 0 .. edits
    BY <1>1 DEF Sane, Call
  <1>3. part \in Rows(edits) /\ DOMAIN part \subseteq 0 .. c.col - 1
    <2>1. part \in Rows(edits) /\ DOMAIN part = DOMAIN rows \cap Below(c.col)
      BY <1>1, OnlyType
    <2> HIDE DEF part
    <2> QED
      BY <2>1 DEF Below
  <1>4. Cardinality(DOMAIN part) \in Nat /\ Cardinality(DOMAIN part) <= c.col
    <2>1. 0 <= c.col /\ 0 \in Nat /\ c.col \in Nat /\ c.col - 0 = c.col
      BY <1>2
    <2>2. Cardinality(DOMAIN part) \in Nat /\ Cardinality(DOMAIN part) <= c.col - 0
      BY <1>3, <2>1, Counted
    <2> QED
      BY <2>1, <2>2
  <1>5. evicted \in Seq(Message) /\ Len(evicted) = Cardinality(DOMAIN part)
    BY <1>1, <1>3, ListedType
  <1>6. own \in Seq(Message) /\ Len(own) = Cardinality(DOMAIN c.put)
    BY <1>1, <1>2, ListedType
  <1>7. c.col + Cardinality(DOMAIN c.put) <= edits /\ Cardinality(DOMAIN c.put) \in Nat
    BY <1>1, <1>2, RowsCounted DEF Sane
  <1> HIDE DEF evicted, own, part
  <1>8. evicted \o own \in Seq(Message) /\ Len(evicted \o own) = Len(evicted) + Len(own)
    <2>1. \A x, y \in Seq(Message) : x \o y \in Seq(Message) /\ Len(x \o y) = Len(x) + Len(y)
      OBVIOUS
    <2> QED
      BY <1>5, <1>6, <2>1, Zenon
  <1>9. 0 + Len(evicted \o own) <= edits
    BY <1>1, <1>2, <1>4, <1>5, <1>6, <1>7, <1>8
  <1>10. put \in Rows(edits)
    BY <1>1, <1>8, <1>9, RowsFromType
  <1>11. Len(evicted) \in 0 .. edits /\ Len(evicted) <= c.col
    BY <1>1, <1>2, <1>4, <1>5
  <1> HIDE DEF put
  <1>12. /\ d \in Call(edits, Len(obj)) /\ d.pc = "rows" /\ d.kind = "full"
         /\ d.target = c.target /\ d.outer = c.outer /\ d.col = Len(evicted) /\ d.moved = c.moved
    BY <1>2, <1>10, <1>11 DEF Call, Phase
  <1> HIDE DEF d
  <1>13. ~c.moved => Len(evicted) + Len(obj[c.target].msgs) <= edits
    <2>1. c.target \in 1 .. Len(obj)
      BY <1>1, <1>2, Numbers DEF Sane, Call
    <2>2. Len(obj[c.target].msgs) \in Nat
      BY <1>1, <2>1, Numbers, InsideIs
    <2>3. ~c.moved => c.col + Len(obj[c.target].msgs) <= edits
      BY <1>1 DEF Sane, InFlight
    <2>4. Len(evicted) \in Nat /\ c.col \in Nat /\ edits \in Nat
      BY <1>1, <1>2, <1>11
    <2>5. \A a, b, l, n \in Nat : a <= b /\ b + l <= n => a + l <= n
      OBVIOUS
    <2> QED
      BY <1>11, <2>2, <2>3, <2>4, <2>5, Zenon
  <1>14. c.target # 0 /\ c.outer # 0
    BY <1>1 DEF Sane, InFlight
  <1> HIDE DEF c
  <1>15. Sane(d, obj, edits)
    BY <1>12, <1>13, <1>14 DEF Sane, InFlight, Kind
  <1> QED
    BY <1>15 DEF WithEvicted, d, put, evicted, own, part, c

LEMMA WriteMetaType ==
    ASSUME TypeInv, NEW s \in Saver, WriteMeta(s)
    PROVE  TypeInv'
  <1> DEFINE c == op[s]
             full == WithEvicted(c)
             meta == [op[s] EXCEPT !.pc = "rows", !.col = 0]
  <1>1. edits \in Nat /\ Sane(c, obj, edits) /\ c \in Call(edits, Len(obj)) /\ c.pc = "meta" /\ InFlight(c)
    BY Numbers DEF TypeInv, CallsInv, Sane, WriteMeta, InFlight
  <1>2. UNCHANGED <<rows, obj, live, edits, boots, torn, folded>>
    BY DEF WriteMeta
  <1>3. hurt' \subseteq Hazard
    BY DEF TypeInv, Ghosts, Hazard, WriteMeta, Renumbered, Outdated
  <1>4. ASSUME NEW d, Sane(d, obj, edits), op' = [op EXCEPT ![s] = d], column' \in {-1, c.col},
               UNCHANGED faults
        PROVE  TypeInv'
    <2>1. CallsInv(op', obj, edits)
      BY <1>4 DEF TypeInv, CallsInv
    <2>2. column' \in -1 .. edits
      BY <1>1, <1>4 DEF Call
    <2> QED
      BY <1>2, <1>4, <1>3, <2>1, <2>2 DEF TypeInv, ObjsInv, RowsInv, Counts, Events, Ghosts, CallsInv
  <1>5. CASE Fail(s) /\ UNCHANGED <<column, hurt>>
    BY <1>1, <1>2, <1>5, <1>3, FailType DEF TypeInv, ObjsInv, RowsInv, Counts, Events, Ghosts, CallsInv
  <1>6. CASE ~(Fail(s) /\ UNCHANGED <<column, hurt>>)
    <2>1. column' \in {-1, c.col} /\ UNCHANGED faults
      BY <1>6 DEF WriteMeta
    <2>2. CASE c.kind = "boundary"
      <3>1. op' = [op EXCEPT ![s] = Landed(c)]
        BY <1>6, <2>2 DEF WriteMeta
      <3> QED
        BY <1>1, <1>4, <2>1, <3>1, LandedSane
    <2>3. CASE c.kind = "full"
      <3>1. op' = [op EXCEPT ![s] = full]
        BY <1>6, <2>3 DEF WriteMeta
      <3>2. Sane(full, obj, edits)
        BY <1>1, <2>3, RewriteSane
      <3> HIDE DEF full
      <3> QED
        BY <1>4, <2>1, <3>1, <3>2
    <2>4. CASE c.kind \notin {"boundary", "full"}
      <3>1. op' = [op EXCEPT ![s] = meta]
        BY <1>6, <2>4 DEF WriteMeta
      <3>2. 0 \in 0 .. edits
        BY <1>1
      <3>3. Sane(meta, obj, edits)
        BY <1>1, <2>4, <3>2 DEF Sane, Call, InFlight, Phase
      <3> HIDE DEF meta
      <3> QED
        BY <1>4, <2>1, <3>1, <3>3
    <2> QED
      BY <2>2, <2>3, <2>4
  <1> QED
    BY <1>5, <1>6

\* A statement that changes rows.
LEMMA WriteType ==
    ASSUME TypeInv, NEW s \in Saver, WriteRows(s) \/ WriteUpdate(s)
    PROVE  TypeInv'
  <1> DEFINE c == op[s]
  <1>1. edits \in Nat /\ Sane(c, obj, edits) /\ c \in Call(edits, Len(obj)) /\ rows \in Rows(edits)
    BY Numbers DEF TypeInv, CallsInv, Sane, RowsInv
  <1>2. c.pc \in {"rows", "update"} /\ InFlight(c)
    BY DEF WriteRows, WriteUpdate, InFlight
  <1>3. UNCHANGED <<column, obj, live, edits, boots, folded>>
    BY DEF WriteRows, WriteUpdate
  <1>4. CASE /\ rows' \in {Updated(rows, c.update), RowsAfter(c)} /\ (rows' # Updated(rows, c.update) => c.pc = "rows")
             /\ op' = Behind([op EXCEPT ![s] = Executed(c)], s)
             /\ hurt' = hurt \cup Late(s) /\ torn' = TornBy(s) /\ UNCHANGED faults
    <2>1. c.update \in Rows(edits) /\ c.put \in Rows(edits)
      BY <1>1 DEF Call
    <2>2. Updated(rows, c.update) \in Rows(edits)
      BY <1>1, <2>1, UpdatedType
    <2>3. c.pc = "rows" => RowsAfter(c) \in Rows(edits)
      <3>1. c.pc = "rows" => c.kind \in {"full", "incremental", "delete", "range"}
        BY <1>1, <1>2 DEF Sane, Kind
      <3>2. Replaced(rows, c.put) \in Rows(edits) /\ Only(rows, Below(c.cut)) \in Rows(edits)
        BY <1>1, <2>1, ReplacedType, OnlyType
      <3> QED
        BY <2>1, <2>2, <3>1, <3>2 DEF RowsAfter
    <2>4. rows' \in Rows(edits)
      BY <1>4, <2>2, <2>3
    <2>5. Sane(Executed(c), obj, edits)
      BY <1>1, <1>2, ExecutedSane
    <2>6. CallsInv([op EXCEPT ![s] = Executed(c)], obj, edits)
      BY <2>5 DEF TypeInv, CallsInv
    <2>7. CallsInv(op', obj, edits)
      BY <1>1, <1>4, <2>6, BehindSane
    <2>8. hurt' \subseteq Hazard
      BY <1>4 DEF Late, TypeInv, Ghosts, Hazard
    <2>9. torn' \in BOOLEAN
      <3>1. c.behind \in BOOLEAN /\ torn \in BOOLEAN
        BY <1>1 DEF Call, TypeInv, Ghosts
      <3>2. TornBy(s) \in BOOLEAN
        BY <3>1 DEF TornBy
      <3> QED
        BY <1>4, <3>1, <3>2
    <2> QED
      BY <1>3, <1>4, <2>4, <2>7, <2>8, <2>9
         DEF TypeInv, ObjsInv, RowsInv, Counts, Events, Ghosts, CallsInv
  <1>5. CASE Fail(s) /\ UNCHANGED <<rows, hurt, torn>>
    BY <1>1, <1>2, <1>3, <1>5, FailType DEF TypeInv, ObjsInv, RowsInv, Counts, Events, Ghosts, CallsInv
  <1> QED
    BY <1>4, <1>5 DEF WriteRows, WriteUpdate

-----------------------------------------------------------------------------
(* Saves settle.                                                           *)

LEMMA SettledInside ==
    ASSUME TypeInv, NEW s \in Saver, op[s].pc = "back"
    PROVE  /\ op[s].target \in 1 .. Len(obj)
           /\ Inside(Settled(s), edits) /\ Settled(s).msgs = obj[op[s].target].msgs
  <1> DEFINE c == op[s]
             o == obj[c.target]
  <1>1. /\ edits \in Nat /\ edits <= MaxEvents /\ MaxEvents \in Nat
        /\ Sane(c, obj, edits) /\ c \in Call(edits, Len(obj)) /\ c.kind \in Kind
    BY Numbers DEF TypeInv, CallsInv, Sane, InFlight
  <1>2. c.target \in 1 .. Len(obj) /\ Inside(o, edits)
    BY <1>1, Numbers DEF Sane, Call
  <1>3. /\ o \in Object /\ Len(o.msgs) \in 0 .. edits /\ o.first \in Nat
        /\ o.first + Len(o.msgs) <= edits /\ Count(o) = Len(o.msgs)
    BY <1>1, <1>2, InsideIs DEF Inside, Count
  <1>4. Inside(Owed(o), edits) /\ Owed(o).msgs = o.msgs
    <2>1. -1 \in -1 .. MaxEvents - 1
      BY <1>1
    <2>2. Owed(o) \in Object /\ Owed(o).msgs = o.msgs /\ Owed(o).first = o.first
      BY <1>3, <2>1 DEF Owed, Object
    <2> QED
      BY <1>3, <2>2 DEF Inside
  <1>5. ASSUME ~c.moved PROVE Inside(SettledClean(s, o), edits) /\ SettledClean(s, o).msgs = o.msgs
    <2>1. Count(o) - 1 \in -1 .. MaxEvents - 1 /\ 0 \in Index /\ -1 \in Index \cup {-1}
      BY <1>1, <1>3 DEF Index
    <2>2. CASE c.kind = "incremental"
      <3> DEFINE new == [o EXCEPT !.saved = Count(o) - 1, !.appended = FALSE, !.changed = 0]
      <3>1. new \in Object /\ new.msgs = o.msgs /\ new.first = o.first
        BY <1>3, <2>1 DEF Object
      <3>2. SettledClean(s, o) = new
        BY <2>2 DEF SettledClean
      <3> QED
        BY <1>3, <3>1, <3>2 DEF Inside
    <2>3. CASE c.kind = "delete"
      <3> DEFINE new == [o EXCEPT !.saved = Count(o) - 1, !.cut = -1]
      <3>1. new \in Object /\ new.msgs = o.msgs /\ new.first = o.first
        BY <1>3, <2>1 DEF Object
      <3>2. SettledClean(s, o) = new
        BY <2>3 DEF SettledClean
      <3> QED
        BY <1>3, <3>1, <3>2 DEF Inside
    <2>4. CASE c.kind \in {"full", "range", "boundary"} /\ live # c.target
      <3>1. SettledClean(s, o) = o
        BY <2>4 DEF SettledClean
      <3> QED
        BY <1>2, <3>1
    <2>5. CASE c.kind = "full" /\ live = c.target
      <3> DEFINE new == [Cleaned(o) EXCEPT !.first = c.col]
      <3>1. Cleaned(o) \in Object /\ Cleaned(o).msgs = o.msgs
        BY <1>1, <1>2, CleanedInside DEF Inside
      <3>2. c.col \in Index /\ c.col + Len(o.msgs) <= edits
        BY <1>1, <1>5, <2>5 DEF Sane, Call, Index, InFlight
      <3>3. new \in Object /\ new.msgs = o.msgs /\ new.first = c.col
        BY <3>1, <3>2 DEF Object
      <3>4. SettledClean(s, o) = new
        BY <2>5 DEF SettledClean
      <3> HIDE DEF new
      <3> QED
        BY <3>2, <3>3, <3>4 DEF Inside
    <2>6. CASE c.kind = "range" /\ live = c.target
      <3> DEFINE new == [o EXCEPT !.from = 0, !.to = 0]
      <3>1. new \in Object /\ new.msgs = o.msgs /\ new.first = o.first
        BY <1>3, <2>1 DEF Object
      <3>2. SettledClean(s, o) = new
        BY <2>6 DEF SettledClean
      <3> QED
        BY <1>3, <3>1, <3>2 DEF Inside
    <2>7. CASE c.kind = "boundary" /\ live = c.target
      <3>1. SettledClean(s, o) = Cleaned(o)
        BY <2>7 DEF SettledClean
      <3> QED
        BY <1>1, <1>2, <3>1, CleanedInside
    <2> QED
      BY <1>1, <2>2, <2>3, <2>4, <2>5, <2>6, <2>7 DEF Kind
  <1>6. Settled(s) = o \/ Settled(s) = Owed(o) \/ (~c.moved /\ Settled(s) = SettledClean(s, o))
    <2>1. CASE Failed(s) \/ (c.moved /\ c.kind = "incremental")
      BY <2>1 DEF Settled
    <2>2. CASE ~(Failed(s) \/ (c.moved /\ c.kind = "incremental")) /\ c.moved
      BY <2>2 DEF Settled
    <2>3. CASE ~(Failed(s) \/ (c.moved /\ c.kind = "incremental")) /\ ~c.moved
      BY <2>3 DEF Settled
    <2> QED
      BY <2>1, <2>2, <2>3
  <1> QED
    BY <1>2, <1>4, <1>5, <1>6

LEMMA ToldSane ==
    ASSUME NEW objs, NEW n \in Nat, NEW calls, CallsInv(calls, objs, n), NEW s \in Saver
    PROVE  /\ CallsInv(Told(calls, s), objs, n)
           /\ Told(calls, s)[s] = calls[s]
  <1>1. ASSUME NEW x \in Saver PROVE Sane(Told(calls, s)[x], objs, n)
    BY MarkedSane DEF CallsInv, Told
  <1> QED
    BY <1>1 DEF CallsInv, Told

LEMMA SettleType ==
    ASSUME TypeInv, NEW s \in Saver, Settle(s)
    PROVE  TypeInv'
  <1> DEFINE after == [obj EXCEPT ![op[s].target] = Settled(s)]
             next  == Following(s, after[op[s].outer])
             more  == next # "none" /\ live # 0
             gone  == ~more /\ op[s].why = "evict" /\ ~op[s].touched
             used  == gone \/ (op[s].kind = "boundary" /\ ~op[s].moved /\ live = op[s].target)
             rest  == Told(op, s)
             calls == IF more THEN [rest EXCEPT ![s] = Snapshot(rest[s], live, after[live], next)]
                      ELSE [rest EXCEPT ![s] = Idle]
  <1>1. /\ op[s].pc = "back" /\ obj' = after /\ live' = IF gone THEN 0 ELSE live
        /\ op' = IF used THEN Touched(calls) ELSE calls
        /\ hurt' = hurt \cup Struck(s) \cup (IF gone THEN Torn ELSE {})
        /\ UNCHANGED <<rows, column, edits, faults, boots, torn, folded>>
    BY DEF Settle
  <1>2. /\ edits \in Nat /\ edits <= MaxEvents /\ Len(obj) \in Nat /\ live \in 0 .. Len(obj)
        /\ (live # 0 => live \in 1 .. Len(obj))
    BY Numbers
  <1>3. /\ op[s].target \in 1 .. Len(obj)
        /\ Inside(Settled(s), edits) /\ Settled(s).msgs = obj[op[s].target].msgs
    BY <1>1, SettledInside
  <1>4. CallsInv(op, obj, edits)
    BY DEF TypeInv
  <1>5. /\ after \in Seq(Object) /\ Len(after) = Len(obj) /\ CallsInv(op, after, edits)
        /\ \A j \in 1 .. Len(obj) : Inside(after[j], edits)
    BY <1>3, <1>4, SameMessages
  <1> HIDE DEF after
  <1>6. CallsInv(rest, after, edits) /\ rest[s] = op[s]
    BY <1>2, <1>5, ToldSane
  <1>7. op[s] \in Call(edits, Len(after)) /\ op[s].outer # 0
    BY <1>1, <1>5 DEF CallsInv, Sane, InFlight
  <1>8. next \in Kind \cup {"none"}
    BY PendingType DEF Following
  <1> HIDE DEF next, rest
  <1>9. CallsInv(calls, after, edits)
    <2>1. CASE more
      <3>1. live \in 1 .. Len(after) /\ next \in Kind /\ Inside(after[live], edits)
        BY <1>2, <1>5, <1>8, <2>1
      <3>2. Sane(Snapshot(rest[s], live, after[live], next), after, edits)
        BY <1>2, <1>5, <1>6, <1>7, <3>1, SnapshotSane
      <3> QED
        BY <1>6, <2>1, <3>2 DEF CallsInv
    <2>2. CASE ~more
      <3>1. Sane(Idle, after, edits)
        BY <1>2, <1>5, IdleSane
      <3> QED
        BY <1>6, <2>2, <3>1 DEF CallsInv
    <2> QED
      BY <2>1, <2>2
  <1> HIDE DEF calls
  <1>10. CallsInv(op', obj', edits)
    BY <1>1, <1>2, <1>9, TouchedSane
  <1>11. hurt' \subseteq Hazard
    <2>1. Struck(s) \subseteq Hazard /\ Torn \subseteq Hazard
      BY DEF Struck, Torn, Hazard
    <2> QED
      BY <1>1, <2>1 DEF TypeInv, Ghosts
  <1>12. live' \in 0 .. Len(obj)
    BY <1>1, <1>2
  <1> QED
    BY <1>1, <1>5, <1>10, <1>11, <1>12
       DEF TypeInv, ObjsInv, RowsInv, Counts, Events, Ghosts, CallsInv

-----------------------------------------------------------------------------

LEMMA RestartType ==
    ASSUME TypeInv, Restart
    PROVE  TypeInv'
  <1>1. edits \in Nat
    BY Numbers
  <1>2. CallsInv(op', obj', edits) /\ obj' \in Seq(Object) /\ Len(obj') = 0
    BY <1>1, IdleSane DEF Restart, CallsInv
  <1>3. hurt' \subseteq Hazard
    BY DEF Restart, Torn, TypeInv, Ghosts, Hazard
  <1>4. Counts'
    BY SessionAssumption DEF Restart, TypeInv, Counts, Events
  <1>5. ObjsInv'
    BY <1>2, SessionAssumption DEF Restart, ObjsInv
  <1> QED
    BY <1>2, <1>3, <1>4, <1>5 DEF Restart, TypeInv, RowsInv, Ghosts, CallsInv

LEMMA TypeInit == Init => TypeInv
  <1> SUFFICES ASSUME Init PROVE TypeInv
    OBVIOUS
  <1>1. obj = <<>> /\ edits = 0 /\ op = [s \in Saver |-> Idle] /\ rows = <<>>
    BY DEF Init
  <1>2. CallsInv(op, obj, edits) /\ rows \in Rows(edits)
    BY <1>1, IdleSane, NoRows DEF CallsInv
  <1>3. ObjsInv
    BY <1>1, SessionAssumption DEF Init, ObjsInv
  <1>4. Counts /\ Ghosts
    <2>1. edits = 0 /\ faults = 0 /\ boots = 1 /\ torn = FALSE /\ hurt = {} /\ folded = {}
      BY DEF Init
    <2>2. MaxEvents \in Nat
      BY SessionAssumption
    <2>3. Counts
      BY <2>1, <2>2 DEF Counts, Events
    <2> QED
      BY <2>1, <2>3 DEF Ghosts
  <1> QED
    BY <1>2, <1>3, <1>4 DEF Init, TypeInv, RowsInv

LEMMA TypeStep ==
    ASSUME TypeInv, [Next]_vars
    PROVE  TypeInv'
  <1>1. CASE Load \/ Create
    BY <1>1, LoadType
  <1>2. CASE Restart
    BY <1>2, RestartType
  <1>3. ASSUME NEW assistant \in BOOLEAN, AddFullMessage(assistant) PROVE TypeInv'
    BY <1>3, AddType
  <1>4. CASE AppendChunk \/ \E s \in Saver : AppendFlush(s)
    BY <1>4, ChunkType
  <1>5. CASE RemoveLast
    BY <1>5, RemoveType
  <1>6. CASE SetHistoryCalls
    BY <1>6, SetHistoryType
  <1>7. ASSUME NEW keep \in {0, 1}, TruncateHistory(keep) PROVE TypeInv'
    BY <1>7, TruncateType
  <1>8. ASSUME NEW up \in 0 .. MaxEvents, NEW pins, Exclude(up, pins) PROVE TypeInv'
    BY <1>8, ExcludeType
  <1>9. ASSUME NEW s \in Saver, LoadRead(s) \/ CreateBlank(s) \/ LoadInstall(s) PROVE TypeInv'
    BY <1>9, LoadReadType, InstallType
  <1>10. ASSUME NEW s \in Saver, NEW i, AttachFiles(s, i) PROVE TypeInv'
    BY <1>10, AttachType
  <1>11. ASSUME NEW s \in Saver, Save(s) \/ FlushDraft(s) \/ Evict(s) \/ EvictExcluded(s) PROVE TypeInv'
    BY <1>11, SaveType, EvictType, EvictExcludedType
  <1>12. ASSUME NEW s \in Saver, WriteMeta(s) \/ WriteRows(s) \/ WriteUpdate(s) \/ Settle(s) PROVE TypeInv'
    BY <1>12, WriteMetaType, WriteType, SettleType
  <1>13. CASE UNCHANGED vars
    BY <1>13 DEF vars, TypeInv, ObjsInv, RowsInv, Counts, Events, Ghosts, CallsInv
  <1> QED
    BY <1>1, <1>2, <1>3, <1>4, <1>5, <1>6, <1>7, <1>8, <1>9, <1>10, <1>11, <1>12, <1>13 DEF Next

LEMMA TypeInvMeans == TypeInv => TypeOK
  <1> SUFFICES ASSUME TypeInv PROVE TypeOK
    OBVIOUS
  <1>1. /\ edits \in Nat /\ edits <= MaxEvents /\ MaxEvents \in Nat
        /\ DOMAIN rows \subseteq 0 .. edits - 1 /\ \A q \in DOMAIN rows : rows[q] \in Message
    BY Numbers, RowsCounted DEF TypeInv, RowsInv
  <1>2. DOMAIN rows \subseteq 0 .. 2 * MaxEvents
    BY <1>1
  <1>3. column \in -1 .. 2 * MaxEvents
    BY <1>1 DEF TypeInv, RowsInv
  <1>4. /\ edits \in 0 .. MaxEvents /\ faults \in 0 .. MaxEvents /\ boots \in 1 .. MaxEvents + 1
    BY <1>1 DEF TypeInv, Counts, Events
  <1>5. ASSUME NEW s \in Saver
        PROVE  /\ op[s].pc \in {"idle", "loading", "meta", "rows", "update", "back"}
               /\ op[s].target \in 0 .. Len(obj)
    BY DEF TypeInv, CallsInv, Sane, Call, Phase
  <1> QED
    BY <1>1, <1>2, <1>3, <1>4, <1>5 DEF TypeInv, ObjsInv, Ghosts, TypeOK

LEMMA TypeInvAlways == Spec => []TypeInv
  <1>1. TypeInv /\ [Next]_vars => TypeInv'
    BY TypeStep
  <1> QED
    BY <1>1, TypeInit, PTL DEF Spec

(* Every variable of a session keeps its type, whatever mutates, saves, loads  *)
(* or fails: no row, no seq and no message is counted beyond the mutations.    *)
THEOREM SessionTypes == Spec => []TypeOK
  BY TypeInvAlways, TypeInvMeans, PTL
-----------------------------------------------------------------------------
(* The invariant of CleanIsSaved.  Of each seq from the object's first on, *)
(* the dirty flags say whether its row may be missing or too many, and     *)
(* whether it may hold an old message.                                     *)

End(o)          == o.first + Len(o.msgs)
At(o, q)        == o.msgs[q - o.first + 1]
CutAt(o, q)     == o.cut # -1 /\ q >= o.cut
NewAt(o, q)     == q < End(o) /\ (o.saved = -1 \/ (o.appended /\ q > o.first + o.saved))
ChangedAt(o, q) == q < End(o) /\ o.changed > 0 /\ q >= o.first + o.changed - 1
RangeAt(o, q)   == q < End(o) /\ o.first + o.from <= q /\ q < o.first + o.to
Missing(o, q)   == o.owed \/ CutAt(o, q) \/ NewAt(o, q)
Stale(o, q)     == Missing(o, q) \/ ChangedAt(o, q) \/ RangeAt(o, q)

\* The rows from the first on, and what the flags say of them.
Same(r, o, q)    == IF q < End(o) THEN q \in DOMAIN r /\ r[q] = At(o, q) ELSE q \notin DOMAIN r
Present(r, o, q) == q \in DOMAIN r <=> q < End(o)
Tells(r, o, q)    == (Missing(o, q) \/ Present(r, o, q)) /\ (Stale(o, q) \/ Same(r, o, q))
Upward(o)        == {q \in Nat : q >= o.first}
Main(r, o)       == \A q \in Upward(o) : Tells(r, o, q)

\* Where the flags of an object can be.
Flags(o) == /\ o.owed => o.saved = -1
            /\ o.cut # -1 /\ ~o.owed => o.first <= o.cut /\ o.cut <= End(o)

On(c, i)    == InFlight(c) /\ c.target = i /\ i # 0
Holds(o, p, q) == q < End(o) /\ p[q] = At(o, q)
Carried(o, p) == \A q \in DOMAIN p : q >= o.first /\ Holds(o, p, q)

\* What a save of an object not mutated since its snapshot takes along.
Exact(c, o) ==
    /\ c.kind = "full" =>
          /\ c.col = o.first
          /\ c.pc = "meta" => c.put = RowsFrom(0, o.msgs)
          /\ c.pc = "rows" => \A q \in Upward(o) : Same(c.put, o, q)
    /\ c.kind = "incremental" /\ c.pc # "back" =>
          /\ Carried(o, c.put) /\ Carried(o, c.update)
          /\ ~o.owed /\ c.pc # "update" =>
                \A q \in Upward(o) : /\ NewAt(o, q) => q \in DOMAIN c.put
                                     /\ ChangedAt(o, q) => q \in DOMAIN c.put \cup DOMAIN c.update
    /\ c.kind = "range" /\ c.pc # "back" =>
          /\ Carried(o, c.update)
          /\ \A q \in Upward(o) : RangeAt(o, q) => q \in DOMAIN c.update
    /\ c.kind = "delete" /\ c.pc # "back" => c.cut # -1 /\ o.cut \in {-1, c.cut}
    /\ c.kind = "boundary" => o.owed \/ (o.cut = -1 /\ ~HasNew(o) /\ ~HasRange(o) /\ (o.saved = -1 => Len(o.msgs) = 0))

\* What such a save has done to the rows when its statements have landed.
Done(r, c, o) ==
    /\ c.kind = "incremental" /\ ~c.failed /\ c.pc \in {"update", "back"} /\ ~o.owed =>
          \A q \in Upward(o) :
             /\ NewAt(o, q) => Same(r, o, q) \/ CutAt(o, q)
             /\ ChangedAt(o, q) => \/ Same(r, o, q) \/ CutAt(o, q)
                                   \/ c.pc = "update" /\ q \in DOMAIN c.update
    /\ c.kind = "range" /\ ~c.failed /\ c.pc = "back" =>
          \A q \in Upward(o) : RangeAt(o, q) => Same(r, o, q) \/ Missing(o, q) \/ ChangedAt(o, q)
    /\ c.kind = "delete" /\ ~c.failed /\ c.pc = "back" /\ ~o.owed => \A q \in Nat : q >= o.cut => q \notin DOMAIN r
    /\ c.kind = "full" /\ ~c.failed /\ c.pc = "back" /\ ~c.owed => \A q \in Upward(o) : Same(r, o, q)
    /\ c.kind = "boundary" /\ ~o.owed => \A q \in Upward(o) : Same(r, o, q)

\* An incremental save that was not overtaken writes nothing that the flags
\* do not know of.
Covered(c, o) ==
    c.kind = "incremental" /\ ~c.behind /\ c.pc # "back" =>
       /\ c.pc # "update" => \A q \in DOMAIN c.put : q >= o.first =>
             (q < End(o) \/ Missing(o, q)) /\ (Holds(o, c.put, q) \/ Stale(o, q))
       /\ \A q \in DOMAIN c.update : q >= o.first /\ q < End(o) => Holds(o, c.update, q) \/ Stale(o, q)

\* A full rewrite will be owed when this call settles, or a hazard strikes then.
Pledge(c)    == c.moved /\ \/ c.kind = "boundary"
                           \/ c.kind # "incremental" /\ c.pc = "back" /\ ~c.failed
Doomed(c, o) == /\ ~c.moved /\ c.kind = "delete" /\ c.pc = "back" /\ ~c.failed
                /\ o.cut = -1 \/ End(o) > o.cut
Loose(calls, o, i) == \E s \in Saver : On(calls[s], i) /\ (Pledge(calls[s]) \/ Doomed(calls[s], o))

\* A compaction cuts the messages under the watermark; nothing else does.
Compacts(calls, i) == \E s \in Saver : On(calls[s], i) /\ calls[s].kind = "boundary"
Low(o)             == o.saved = -1 \/ o.saved < Len(o.msgs) \/ o.cut # -1

\* A save knows when a newer one has written.
Outrun(c) == c.moved /\ c.pc # "back"
Newer(c) == ~c.moved /\ ~c.failed /\ c.kind # "boundary" /\ c.pc \in {"update", "back"}
Overtook(calls, i) == \A c, d \in Saver : On(calls[c], i) /\ On(calls[d], i) /\ Outrun(calls[c]) /\ Newer(calls[d])
                         => calls[c].behind

\* The flags tell the truth, and each save in flight knows what it does: one not
\* overtaken does what they say is due, any other nothing they do not know of.
Truth(r, o, i, calls) == /\ Main(r, o)
                         /\ \A s \in Saver : On(calls[s], i) => Covered(calls[s], o) /\ (calls[s].moved \/ Done(r, calls[s], o))

\* The resident object, its rows and the saves in flight of it.
Live(r, o, i, calls) ==
    /\ Flags(o)
    /\ Low(o) \/ Compacts(calls, i)
    /\ \A s \in Saver : On(calls[s], i) => calls[s].moved \/ Exact(calls[s], o)
    /\ Overtook(calls, i)
    /\ Loose(calls, o, i) \/ Truth(r, o, i, calls)

Dense(r)   == \A q \in DOMAIN r : q > 0 => q - 1 \in DOMAIN r
\* An object just read back from the rows.
Reloaded(r, o) == /\ ~o.owed /\ o.cut = -1 /\ o.saved = Len(o.msgs) - 1
                  /\ \A q \in Upward(o) : Same(r, o, q)

\* The database by itself: no row without a sessions row, none missing in between.
Disk == /\ column = -1 => rows = <<>> /\ \A s \in Saver : op[s].pc \notin {"rows", "update"}
        /\ live = 0 => ~torn
        /\ torn \/ Dense(rows)

\* A call by itself, and a load between its read and its insertion.
Shaped(c) == /\ c.pc = "update" => c.kind = "incremental"
             /\ c.pc \in {"meta", "rows", "update"} => ~c.failed
             /\ c.kind = "full" /\ c.pc \in {"meta", "rows"} => Dense(c.put)
Shapes == \A s \in Saver : Shaped(op[s])
Loading == \A s \in Saver : op[s].pc = "loading" =>
    /\ op[s].target # live
    /\ \A x \in Saver : x # s => op[x].target # op[s].target
    /\ ~op[s].touched => live = 0 /\ Reloaded(rows, obj[op[s].target])

(* The invariant of ContextReloads.  A load starts at the boundary, so no   *)
(* message in front of it may be one to go on with.                        *)

\* A message out of context, or in the summary.
Known(m, f)     == m.out \/ m.id \in f
Passed(r, n, f) == \A q \in DOMAIN r : q < n => Known(r[q], f)

\* The message m at q is that of o, or the flags of o own up to it.
Fits(o, q, m) == Stale(o, q) \/ (q < End(o) /\ m = At(o, q))

\* The rows that a save has yet to write.
Puts(c, q, m) ==
    \/ c.kind = "full" /\ c.pc = "meta" /\ q - c.col \in DOMAIN c.put /\ m = c.put[q - c.col]
    \/ c.kind = "full" /\ c.pc = "rows" /\ q \in DOMAIN c.put /\ m = c.put[q]
    \/ c.kind = "incremental" /\ c.pc \in {"meta", "rows"} /\ q \in DOMAIN c.put /\ m = c.put[q]
    \/ c.kind \in {"incremental", "range"} /\ c.pc # "back" /\ q \in DOMAIN c.update /\ m = c.update[q]

\* One not overtaken writes what fits the object; none writes a message to go on
\* with in front of its first, or a boundary behind it.
Agrees(c, o)   == ~c.behind => \A q \in Upward(o) : \A m : Puts(c, q, m) => Fits(o, q, m)
Under(c, n, f) == \A q \in Nat : \A m : q < n /\ Puts(c, q, m) => Known(m, f)
Fair(c, o, f)  == Agrees(c, o) /\ Under(c, o.first, f) /\ (c.pc = "meta" => c.col <= o.first)

\* A row holds another message than the object; its flags will still own up to it
\* when the save that has written by now settles.
Wrong(r, o, q)     == q \in DOMAIN r /\ ~(q < End(o) /\ r[q] = At(o, q))
Leaves(c, o, q)    ==
    /\ c.kind = "incremental" /\ c.pc \in {"update", "back"} /\ ~o.owed =>
          /\ NewAt(o, q) => CutAt(o, q)
          /\ ChangedAt(o, q) => CutAt(o, q) \/ (c.pc = "update" /\ q \in DOMAIN c.update)
    /\ c.kind = "range" /\ c.pc = "back" => (RangeAt(o, q) => Missing(o, q) \/ ChangedAt(o, q))
    /\ c.kind = "delete" /\ c.pc = "back" /\ ~o.owed => (CutAt(o, q) => q < End(o))
    /\ c.kind = "full" /\ c.pc = "back" => c.owed
Finished(r, c, o)  == c.moved \/ c.failed \/ \A q \in Upward(o) : Wrong(r, o, q) => Leaves(c, o, q)
RowsFit(r, o)      == \A q \in Upward(o) : q \in DOMAIN r => Fits(o, q, r[q])

\* The boundary is not behind the object's first message; or a load of a session
\* that came and went meanwhile put it there, and the next save will write it anew.
Bounded(r, k, n, i, calls, f) ==
    k <= n \/ (Passed(r, k, f) /\ \A s \in Saver : On(calls[s], i) => calls[s].pc \notin {"rows", "update"})

Clear(r, k, o, i, calls, t, f) ==
    /\ Passed(r, o.first, f)
    /\ Bounded(r, k, o.first, i, calls, f)
    /\ t \/ RowsFit(r, o)
    /\ \A s \in Saver : On(calls[s], i) => Fair(calls[s], o, f) /\ (t \/ Finished(r, calls[s], o))

Recalled ==
    /\ live = 0 => Passed(rows, column, folded)
    /\ live # 0 => Clear(rows, column, obj[live], live, op, torn, folded)
    /\ \A s \in Saver : op[s].pc = "loading" /\ ~op[s].touched => Passed(rows, obj[op[s].target].first, folded)

\* Until a hazard strikes.
Sound == Disk /\ Shapes /\ Loading /\ Recalled /\ (live # 0 => Live(rows, obj[live], live, op))

-----------------------------------------------------------------------------
(* Objects and their mutations.                                            *)

LEMMA ObjectIs ==
    ASSUME NEW o \in Object
    PROVE  /\ o.msgs \in Seq(Message) /\ Len(o.msgs) \in Nat /\ o.first \in Nat
           /\ o.saved \in Int /\ o.saved >= -1 /\ o.appended \in BOOLEAN /\ o.changed \in Nat
           /\ o.from \in Nat /\ o.to \in Nat /\ o.cut \in Int /\ o.cut >= -1
           /\ o.boundary \in Nat /\ o.owed \in BOOLEAN
           /\ End(o) \in Nat /\ End(o) = o.first + Len(o.msgs) /\ Count(o) = Len(o.msgs)
  <1>1. /\ o.msgs \in Seq(Message) /\ o.first \in Index /\ o.saved \in -1 .. MaxEvents - 1
        /\ o.appended \in BOOLEAN /\ o.changed \in Index /\ o.from \in Index /\ o.to \in Index
        /\ o.cut \in Index \cup {-1} /\ o.boundary \in Index /\ o.owed \in BOOLEAN
    BY DEF Object
  <1>2. Len(o.msgs) \in Nat /\ MaxEvents \in Nat
    BY <1>1, SessionAssumption
  <1>3. \A i \in Index : i \in Nat
    BY <1>2 DEF Index
  <1>4. /\ o.first \in Nat /\ o.changed \in Nat /\ o.from \in Nat /\ o.to \in Nat /\ o.boundary \in Nat
        /\ o.cut \in Nat \cup {-1}
    BY <1>1, <1>3
  <1>5. o.saved \in Int /\ o.saved >= -1 /\ o.cut \in Int /\ o.cut >= -1
    BY <1>1, <1>2, <1>4
  <1>6. End(o) \in Nat /\ End(o) = o.first + Len(o.msgs) /\ Count(o) = Len(o.msgs)
    BY <1>2, <1>4 DEF End, Count
  <1> QED
    BY <1>1, <1>2, <1>4, <1>5, <1>6

\* p is o mutated: what the flags of o tell they still tell of p, and of what
\* they do not tell o and p have the same.
Mutated(o, p) ==
    /\ p.first = o.first
    /\ \A q \in Upward(o) :
          /\ Missing(o, q) => Missing(p, q)
          /\ Stale(o, q) => Stale(p, q)
          /\ Missing(p, q) \/ (q < End(o) <=> q < End(p))
          /\ Stale(p, q) \/ (q < End(p) => At(o, q) = At(p, q))

LEMMA MutatedTwice ==
    ASSUME NEW o, NEW p, NEW x, Mutated(o, p), Mutated(p, x)
    PROVE  Mutated(o, x)
  <1>1. Upward(o) = Upward(p) /\ x.first = o.first
    BY DEF Mutated, Upward
  <1>2. ASSUME NEW q \in Upward(o)
        PROVE  /\ Missing(o, q) => Missing(x, q)
               /\ Stale(o, q) => Stale(x, q)
               /\ Missing(x, q) \/ (q < End(o) <=> q < End(x))
               /\ Stale(x, q) \/ (q < End(x) => At(o, q) = At(x, q))
    <2>1. /\ Missing(o, q) => Missing(p, q)
          /\ Stale(o, q) => Stale(p, q)
          /\ Missing(p, q) \/ (q < End(o) <=> q < End(p))
          /\ Stale(p, q) \/ (q < End(p) => At(o, q) = At(p, q))
      BY DEF Mutated
    <2>2. /\ Missing(p, q) => Missing(x, q)
          /\ Stale(p, q) => Stale(x, q)
          /\ Missing(x, q) \/ (q < End(p) <=> q < End(x))
          /\ Stale(x, q) \/ (q < End(x) => At(p, q) = At(x, q))
      BY <1>1 DEF Mutated
    <2>3. Missing(x, q) => Stale(x, q)
      BY DEF Stale
    <2> QED
      BY <2>1, <2>2, <2>3
  <1> QED
    BY <1>1, <1>2 DEF Mutated

\* What fits o, fits p.
Mild(o, p) == \A q \in Upward(o) : \A m : Fits(o, q, m) => Fits(p, q, m)

\* Unless a compaction is in flight, whose object counts as saved beyond its end.
Edited(o, p) == p.first = o.first /\ Flags(p) /\ Mild(o, p) /\ (Low(o) => Mutated(o, p) /\ Low(p))

LEMMA MutatedMild ==
    ASSUME NEW o, NEW p, Mutated(o, p)
    PROVE  Mild(o, p)
  BY DEF Mutated, Mild, Fits, Stale

LEMMA EditedTwice ==
    ASSUME NEW o, NEW p, NEW x, Edited(o, p), Edited(p, x)
    PROVE  Edited(o, x)
  <1>1. Mild(o, x)
    BY DEF Edited, Mild, Upward
  <1> QED
    BY <1>1, MutatedTwice DEF Edited

\* A rewrite is owed: nothing needs to be told any more.
LEMMA OwedMutated ==
    ASSUME NEW o, NEW p, p.owed, p.saved = -1, p.first = o.first
    PROVE  Edited(o, p)
  <1>1. Mutated(o, p)
    BY DEF Mutated, Missing, Stale
  <1> QED
    BY <1>1, MutatedMild DEF Edited, Flags, Low

\* The index, in the window, of a message known by its global index.
LEMMA IndexIn ==
    ASSUME NEW f \in Nat, NEW l \in Nat, NEW q \in Nat, q >= f, q < f + l
    PROVE  q - f + 1 \in 1 .. l
  OBVIOUS

\* And back: the global index of a place in the window.
LEMMA PlaceIn ==
    ASSUME NEW f \in Nat, NEW a \in Nat, NEW b \in Nat, NEW q \in Nat, NEW k, k = q - f + 1, a <= k - 1, k - 1 < b
    PROVE  f + a <= q /\ q < f + b
  OBVIOUS

LEMMA AppendedMutated ==
    ASSUME NEW o \in Object, NEW p \in Object, NEW m, Flags(o), p = Appended(o, m)
    PROVE  Edited(o, p)
  <1>0. /\ o.msgs \in Seq(Message) /\ Len(o.msgs) \in Nat /\ o.first \in Nat
        /\ o.saved \in Int /\ o.saved >= -1 /\ o.changed \in Nat /\ o.from \in Nat /\ o.to \in Nat
        /\ o.cut \in Int /\ o.cut >= -1 /\ End(o) \in Nat /\ End(o) = o.first + Len(o.msgs)
    BY ObjectIs
  <1>1. /\ p.msgs = Append(o.msgs, m) /\ p.appended /\ p.first = o.first /\ p.saved = o.saved
        /\ p.changed = o.changed /\ p.from = o.from /\ p.to = o.to /\ p.cut = o.cut /\ p.owed = o.owed
    BY DEF Appended, Object
  <1>2. Len(p.msgs) = Len(o.msgs) + 1 /\ \A i \in 1 .. Len(o.msgs) : p.msgs[i] = o.msgs[i]
    BY <1>0, <1>1
  <1>3. End(p) = End(o) + 1 /\ End(o) \in Nat /\ End(p) \in Nat
    BY SMTT(30), <1>0, <1>1, <1>2 DEF End
  <1>4. Flags(p) /\ (Low(o) => Low(p))
    BY <1>0, <1>1, <1>2, <1>3 DEF Flags, Low
  <1>5. ASSUME Low(o), NEW q \in Upward(o)
        PROVE  /\ Missing(o, q) => Missing(p, q)
               /\ Stale(o, q) => Stale(p, q)
               /\ Missing(p, q) \/ (q < End(o) <=> q < End(p))
               /\ Stale(p, q) \/ (q < End(p) => At(o, q) = At(p, q))
    <2>1. q \in Nat /\ q >= o.first
      BY DEF Upward
    <2>2. /\ CutAt(o, q) => CutAt(p, q)
          /\ NewAt(o, q) => NewAt(p, q)
          /\ ChangedAt(o, q) => ChangedAt(p, q)
          /\ RangeAt(o, q) => RangeAt(p, q)
      BY <1>0, <1>1, <1>3, <2>1 DEF CutAt, NewAt, ChangedAt, RangeAt
    <2>3. q = End(o) => Missing(p, q)
      BY SMTT(30), <1>0, <1>1, <1>3, <1>5 DEF Missing, CutAt, NewAt, Flags, Low
    <2>4. q < End(o) => At(o, q) = At(p, q)
      <3>1. q < End(o) => q - o.first + 1 \in 1 .. Len(o.msgs)
        BY IndexIn, <2>1, <1>0, Zenon
      <3> QED
        BY <1>1, <1>2, <3>1 DEF At
    <2>5. q < End(p) <=> q < End(o) \/ q = End(o)
      BY <1>3, <2>1
    <2> QED
      BY <1>1, <2>2, <2>3, <2>4, <2>5 DEF Missing, Stale
  <1>6. ASSUME NEW q \in Upward(o), NEW x, Fits(o, q, x) PROVE Fits(p, q, x)
    <2>1. q \in Nat /\ q >= o.first
      BY DEF Upward
    <2>2. /\ CutAt(o, q) => CutAt(p, q)
          /\ NewAt(o, q) => NewAt(p, q)
          /\ ChangedAt(o, q) => ChangedAt(p, q)
          /\ RangeAt(o, q) => RangeAt(p, q)
      BY <1>0, <1>1, <1>3, <2>1 DEF CutAt, NewAt, ChangedAt, RangeAt
    <2>3. q < End(o) => At(o, q) = At(p, q)
      <3>1. q < End(o) => q - o.first + 1 \in 1 .. Len(o.msgs)
        BY IndexIn, <2>1, <1>0, Zenon
      <3> QED
        BY <1>1, <1>2, <3>1 DEF At
    <2>4. q < End(o) => q < End(p)
      BY <1>3, <2>1
    <2> QED
      BY <1>1, <1>6, <2>2, <2>3, <2>4 DEF Missing, Stale, Fits
  <1> QED
    BY <1>1, <1>4, <1>5, <1>6 DEF Edited, Mutated, Mild

LEMMA ChangedMutated ==
    ASSUME NEW o \in Object, NEW i \in 1 .. Len(o.msgs), NEW m, Flags(o), NEW p \in Object, p = Changed(o, i, m)
    PROVE  Edited(o, p)
  <1>0. /\ o.msgs \in Seq(Message) /\ Len(o.msgs) \in Nat /\ o.first \in Nat
        /\ o.saved \in Int /\ o.saved >= -1 /\ o.changed \in Nat /\ o.from \in Nat /\ o.to \in Nat
        /\ o.cut \in Int /\ o.cut >= -1 /\ End(o) \in Nat /\ End(o) = o.first + Len(o.msgs)
    BY ObjectIs
  <1>1. /\ p.msgs = [o.msgs EXCEPT ![i] = m] /\ p.appended = o.appended /\ p.first = o.first
        /\ p.saved = o.saved /\ p.from = o.from /\ p.to = o.to /\ p.cut = o.cut /\ p.owed = o.owed
        /\ p.changed = IF o.changed = 0 \/ i < o.changed THEN i ELSE o.changed
    BY DEF Changed, Object
  <1>2. Len(p.msgs) = Len(o.msgs) /\ \A j \in 1 .. Len(o.msgs) : j # i => p.msgs[j] = o.msgs[j]
    BY <1>0, <1>1
  <1>3. End(p) = End(o) /\ End(o) \in Nat
    BY <1>0, <1>1, <1>2 DEF End
  <1>4. Flags(p) /\ (Low(o) => Low(p))
    BY <1>1, <1>2, <1>3 DEF Flags, Low
  <1>5. p.changed \in Nat /\ p.changed > 0 /\ p.changed <= i /\ (o.changed > 0 => p.changed <= o.changed)
    BY <1>0, <1>1
  <1>6. ASSUME NEW q \in Upward(o)
        PROVE  /\ Missing(o, q) => Missing(p, q)
               /\ Stale(o, q) => Stale(p, q)
               /\ Missing(p, q) \/ (q < End(o) <=> q < End(p))
               /\ Stale(p, q) \/ (q < End(p) => At(o, q) = At(p, q))
    <2>1. q \in Nat /\ q >= o.first
      BY DEF Upward
    <2>2. /\ CutAt(o, q) <=> CutAt(p, q)
          /\ NewAt(o, q) <=> NewAt(p, q)
          /\ RangeAt(o, q) <=> RangeAt(p, q)
      BY <1>1, <1>3 DEF CutAt, NewAt, RangeAt
    <2>3. ChangedAt(o, q) => ChangedAt(p, q)
      BY SMTT(30), <1>1, <1>3, <1>5, <2>1, <1>0 DEF ChangedAt
    <2>4. q < End(o) => ChangedAt(p, q) \/ At(o, q) = At(p, q)
      <3>1. ASSUME q < End(o) PROVE q - o.first + 1 \in 1 .. Len(o.msgs)
        BY IndexIn, <2>1, <3>1, <1>0, Zenon
      <3>2. ASSUME q < End(o), q - o.first + 1 = i PROVE ChangedAt(p, q)
        BY SMTT(30), <1>1, <1>3, <1>5, <2>1, <3>2, <1>0 DEF ChangedAt
      <3> QED
        BY <1>1, <1>2, <3>1, <3>2 DEF At
    <2> QED
      BY <1>1, <1>3, <2>2, <2>3, <2>4 DEF Missing, Stale
  <1> QED
    BY <1>1, <1>4, <1>6, MutatedMild DEF Edited, Mutated

\* Without its last message.
LEMMA FrontIs ==
    ASSUME NEW o \in Object, Len(o.msgs) > 0, NEW p \in Object, p.msgs = Front(o.msgs), p.first = o.first
    PROVE  /\ Len(p.msgs) = Len(o.msgs) - 1 /\ \A j \in 1 .. Len(p.msgs) : p.msgs[j] = o.msgs[j]
           /\ End(p) = o.first + Len(p.msgs) /\ End(p) = o.first + Len(o.msgs) - 1 /\ End(p) = End(o) - 1
           /\ Len(p.msgs) \in Nat /\ End(p) \in Nat
  <1>0. o.msgs \in Seq(Message) /\ Len(o.msgs) \in Nat /\ o.first \in Nat /\ End(o) = o.first + Len(o.msgs)
    BY ObjectIs
  <1>1. Len(p.msgs) = Len(o.msgs) - 1 /\ \A j \in 1 .. Len(p.msgs) : p.msgs[j] = o.msgs[j]
    BY <1>0 DEF Front
  <1>2. Len(p.msgs) \in Nat /\ End(p) = o.first + Len(p.msgs)
    BY <1>0, <1>1 DEF End
  <1> QED
    BY <1>0, <1>1, <1>2

LEMMA RemovedMutated ==
    ASSUME NEW o \in Object, Len(o.msgs) > 0, Flags(o), NEW p \in Object,
           p = [o EXCEPT !.msgs = Front(@), !.cut = o.first + Len(o.msgs) - 1,
                         !.boundary = IF @ > Len(o.msgs) - 1 THEN 0 ELSE @],
           o.saved = -1 \/ o.cut = -1 \/ o.cut >= o.first + Len(o.msgs) - 1
    PROVE  Edited(o, p)
  <1>0. /\ o.msgs \in Seq(Message) /\ Len(o.msgs) \in Nat /\ o.first \in Nat
        /\ o.saved \in Int /\ o.saved >= -1 /\ o.changed \in Nat /\ o.from \in Nat /\ o.to \in Nat
        /\ o.cut \in Int /\ o.cut >= -1 /\ End(o) \in Nat /\ End(o) = o.first + Len(o.msgs)
    BY ObjectIs
  <1>1. /\ p.msgs = Front(o.msgs) /\ p.appended = o.appended /\ p.first = o.first
        /\ p.saved = o.saved /\ p.from = o.from /\ p.to = o.to /\ p.owed = o.owed
        /\ p.changed = o.changed /\ p.cut = o.first + Len(o.msgs) - 1
    BY DEF Object
  <1>2. Len(p.msgs) = Len(o.msgs) - 1 /\ \A j \in 1 .. Len(p.msgs) : p.msgs[j] = o.msgs[j]
    BY <1>1, FrontIs, Zenon
  <1>3. /\ End(p) = End(o) - 1 /\ End(p) = o.first + Len(p.msgs) /\ p.cut = End(p)
        /\ Len(p.msgs) \in Nat /\ p.cut \in Nat
    <2>1. End(p) = o.first + Len(p.msgs) /\ End(p) = o.first + Len(o.msgs) - 1 /\ End(p) = End(o) - 1
      BY <1>1, FrontIs, Zenon
    <2>2. Len(p.msgs) \in Nat /\ End(p) \in Nat
      BY <1>1, FrontIs, Zenon
    <2> QED
      BY <1>1, <2>1, <2>2, Zenon
  <1>4. Flags(p) /\ Low(p)
    BY <1>0, <1>1, <1>2, <1>3 DEF Flags, Low
  <1>5. ASSUME NEW q \in Upward(o)
        PROVE  /\ Missing(o, q) => Missing(p, q)
               /\ Stale(o, q) => Stale(p, q)
               /\ Missing(p, q) \/ (q < End(o) <=> q < End(p))
               /\ Stale(p, q) \/ (q < End(p) => At(o, q) = At(p, q))
    <2>1. q \in Nat /\ q >= o.first
      BY DEF Upward
    <2>2. q >= End(p) => CutAt(p, q)
      BY <1>3 DEF CutAt
    <2>3. q < End(p) => /\ CutAt(o, q) => NewAt(p, q)
                        /\ NewAt(o, q) => NewAt(p, q)
                        /\ ChangedAt(o, q) => ChangedAt(p, q)
                        /\ RangeAt(o, q) => RangeAt(p, q)
                        /\ q < End(o)
      BY <1>0, <1>1, <1>3, <2>1 DEF CutAt, NewAt, ChangedAt, RangeAt
    <2>4. q < End(p) => At(o, q) = At(p, q)
      <3>1. q < End(p) => q - o.first + 1 \in 1 .. Len(p.msgs)
        <4>1. q < End(p) => q < o.first + Len(p.msgs)
          BY <1>3, Zenon
        <4> QED
          BY IndexIn, <1>0, <1>3, <2>1, <4>1, Zenon
      <3> QED
        BY <1>1, <1>2, <3>1 DEF At
    <2>5. q < End(p) \/ q >= End(p)
      BY <1>3, <2>1
    <2> QED
      BY <1>1, <2>2, <2>3, <2>4, <2>5 DEF Missing, Stale
  <1> QED
    BY <1>1, <1>4, <1>5, MutatedMild DEF Edited, Mutated

LEMMA ExcludedMutated ==
    ASSUME NEW o \in Object, Len(o.msgs) > 0, Flags(o), NEW p \in Object,
           NEW up \in Nat, NEW pins, pins \subseteq 2 .. Len(o.msgs),
           NEW first, first = IF o.msgs[1].out THEN 0 ELSE 1,
           NEW top \in Nat, top >= up, top >= first + 1, \A i \in pins : o.msgs[i].out => top >= i,
           p = [o EXCEPT !.msgs = Marked(o, up, pins), !.from = first, !.to = top, !.boundary = top],
           ~HasRange(o) \/ (o.from >= first /\ o.to <= top)
    PROVE  Edited(o, p)
  <1>0. /\ o.msgs \in Seq(Message) /\ Len(o.msgs) \in Nat /\ o.first \in Nat
        /\ o.saved \in Int /\ o.saved >= -1 /\ o.changed \in Nat /\ o.from \in Nat /\ o.to \in Nat
        /\ o.cut \in Int /\ o.cut >= -1 /\ End(o) \in Nat /\ End(o) = o.first + Len(o.msgs)
    BY ObjectIs
  <1>1. /\ p.msgs = Marked(o, up, pins) /\ p.appended = o.appended /\ p.first = o.first
        /\ p.saved = o.saved /\ p.from = first /\ p.to = top /\ p.owed = o.owed
        /\ p.changed = o.changed /\ p.cut = o.cut
    BY DEF Object
  <1> DEFINE out(i) == IF i = 1 \/ i \in pins THEN FALSE ELSE (i <= up /\ up > 1) \/ o.msgs[i].out
  <1>2. /\ Len(p.msgs) = Len(o.msgs)
        /\ \A i \in 1 .. Len(o.msgs) : p.msgs[i] = [o.msgs[i] EXCEPT !.out = out(i)]
    <2>1. p.msgs = [i \in 1 .. Len(o.msgs) |-> [o.msgs[i] EXCEPT !.out = out(i)]]
      BY <1>1 DEF Marked, Count
    <2> HIDE DEF out
    <2>2. DOMAIN p.msgs = 1 .. Len(o.msgs)
      BY <2>1
    <2>3. p.msgs \in Seq(Message)
      BY ObjectIs
    <2>4. Len(p.msgs) \in Nat /\ DOMAIN p.msgs = 1 .. Len(p.msgs)
      BY <2>3
    <2>5. Len(p.msgs) = Len(o.msgs)
      BY <1>0, <2>2, <2>4
    <2> QED
      BY <2>1, <2>5
  <1>3. End(p) = End(o) /\ End(o) \in Nat
    BY <1>0, <1>1, <1>2 DEF End
  <1>4. Flags(p) /\ (Low(o) => Low(p))
    BY <1>1, <1>2, <1>3 DEF Flags, Low
  <1>5. ASSUME NEW i \in 1 .. Len(o.msgs) PROVE p.msgs[i] = o.msgs[i] \/ (first <= i - 1 /\ i - 1 < top)
    <2>1. o.msgs[i] \in Message
      BY <1>0
    <2>2. o.msgs[i].out \in BOOLEAN /\ \A b : b = o.msgs[i].out => [o.msgs[i] EXCEPT !.out = b] = o.msgs[i]
      BY <2>1 DEF Message
    <2>3. ASSUME out(i) = o.msgs[i].out PROVE p.msgs[i] = o.msgs[i]
      <3> HIDE DEF out
      <3> QED
        BY <1>2, <2>2, <2>3
    <2>4. CASE i = 1
      <3>1. CASE o.msgs[i].out
        BY <2>4, <3>1
      <3>2. CASE ~o.msgs[i].out
        <4>1. o.msgs[i].out = FALSE /\ out(i) = FALSE
          BY <2>2, <2>4, <3>2
        <4> HIDE DEF out
        <4> QED
          BY <2>3, <4>1
      <3> QED
        BY <3>1, <3>2
    <2>5. CASE i # 1 /\ i \in pins
      <3>1. CASE o.msgs[i].out
        BY <2>5, <3>1
      <3>2. CASE ~o.msgs[i].out
        <4>1. o.msgs[i].out = FALSE /\ out(i) = FALSE
          BY <2>2, <2>5, <3>2
        <4> HIDE DEF out
        <4> QED
          BY <2>3, <4>1
      <3> QED
        BY <3>1, <3>2
    <2>6. CASE i # 1 /\ i \notin pins
      <3>1. CASE i <= up
        BY <2>6, <3>1
      <3>2. CASE ~(i <= up)
        <4>1. out(i) = o.msgs[i].out
          BY <2>2, <2>6, <3>2
        <4> HIDE DEF out
        <4> QED
          BY <2>3, <4>1
      <3> QED
        BY <3>1, <3>2
    <2> QED
      BY <2>4, <2>5, <2>6
  <1>6. ASSUME NEW q \in Upward(o)
        PROVE  /\ Missing(o, q) => Missing(p, q)
               /\ Stale(o, q) => Stale(p, q)
               /\ Missing(p, q) \/ (q < End(o) <=> q < End(p))
               /\ Stale(p, q) \/ (q < End(p) => At(o, q) = At(p, q))
    <2>1. q \in Nat /\ q >= o.first
      BY DEF Upward
    <2>2. /\ CutAt(o, q) <=> CutAt(p, q)
          /\ NewAt(o, q) <=> NewAt(p, q)
          /\ ChangedAt(o, q) <=> ChangedAt(p, q)
      BY <1>1, <1>3 DEF CutAt, NewAt, ChangedAt
    <2>3. RangeAt(o, q) => RangeAt(p, q)
      BY SMTT(30), <1>0, <1>1, <1>3, <2>1 DEF RangeAt, HasRange
    <2>4. q < End(o) => RangeAt(p, q) \/ At(o, q) = At(p, q)
      <3>1. q < End(o) => q - o.first + 1 \in 1 .. Len(o.msgs)
        <4>1. q < End(o) => q < o.first + Len(o.msgs)
          BY <1>0, Zenon
        <4>2. o.first \in Nat /\ Len(o.msgs) \in Nat /\ q >= o.first
          BY <1>0, <2>1, Zenon
        <4> QED
          BY IndexIn, <2>1, <4>1, <4>2, Zenon
      <3>2. ASSUME NEW k, k = q - o.first + 1, q < End(o), first <= k - 1, k - 1 < top PROVE RangeAt(p, q)
        <4>1. o.first \in Nat /\ first \in Nat /\ top \in Nat /\ q \in Nat
          BY <1>0, <2>1
        <4>2. o.first + first <= q /\ q < o.first + top
          BY PlaceIn, <3>2, <4>1, Zenon
        <4> QED
          BY <1>1, <1>3, <3>2, <4>2, Zenon DEF RangeAt
      <3>3. ASSUME NEW k, k = q - o.first + 1, p.msgs[k] = o.msgs[k] PROVE At(o, q) = At(p, q)
        BY <1>1, <3>3 DEF At
      <3>4. ASSUME q < End(o) PROVE RangeAt(p, q) \/ At(o, q) = At(p, q)
        <4>1. PICK k : k = q - o.first + 1
          OBVIOUS
        <4>2. k \in 1 .. Len(o.msgs)
          BY <3>1, <3>4, <4>1, Zenon
        <4>3. p.msgs[k] = o.msgs[k] \/ (first <= k - 1 /\ k - 1 < top)
          BY <1>5, <4>2, Zenon
        <4> QED
          BY <3>2, <3>3, <3>4, <4>1, <4>3, Zenon
      <3> QED
        BY <3>4, Zenon
    <2> QED
      BY <1>1, <1>3, <2>2, <2>3, <2>4 DEF Missing, Stale
  <1> QED
    BY <1>1, <1>4, <1>6, MutatedMild DEF Edited, Mutated

-----------------------------------------------------------------------------
(* Calls: what of them the invariant tells apart.                          *)

Alike(c, d) == /\ d.pc = c.pc /\ d.kind = c.kind /\ d.target = c.target /\ d.col = c.col
               /\ d.put = c.put /\ d.update = c.update /\ d.cut = c.cut /\ d.moved = c.moved
               /\ d.behind = c.behind /\ d.owed = c.owed /\ d.failed = c.failed

LEMMA AlikeSame ==
    ASSUME NEW c, NEW d, Alike(c, d), NEW o, NEW r, NEW i
    PROVE  /\ On(c, i) <=> On(d, i)
           /\ Exact(c, o) <=> Exact(d, o)
           /\ Done(r, c, o) <=> Done(r, d, o)
           /\ Covered(c, o) <=> Covered(d, o)
           /\ Pledge(c) <=> Pledge(d)
           /\ Doomed(c, o) <=> Doomed(d, o)
           /\ Outrun(c) <=> Outrun(d)
           /\ Newer(c) <=> Newer(d)
           /\ c.moved = d.moved /\ c.behind = d.behind /\ c.kind = d.kind
  <1>1. (On(c, i) <=> On(d, i)) /\ c.moved = d.moved /\ c.behind = d.behind /\ c.kind = d.kind
    BY DEF Alike, On, InFlight
  <1>2. Exact(c, o) <=> Exact(d, o)
    BY DEF Alike, Exact
  <1>3. Done(r, c, o) <=> Done(r, d, o)
    BY DEF Alike, Done
  <1>4. Covered(c, o) <=> Covered(d, o)
    BY DEF Alike, Covered
  <1>5. (Pledge(c) <=> Pledge(d)) /\ (Doomed(c, o) <=> Doomed(d, o))
    BY DEF Alike, Pledge, Doomed
  <1>6. (Outrun(c) <=> Outrun(d)) /\ (Newer(c) <=> Newer(d))
    BY DEF Alike, Outrun, Newer
  <1> QED
    BY <1>1, <1>2, <1>3, <1>4, <1>5, <1>6

LEMMA AlikeLive ==
    ASSUME NEW calls, NEW more, \A s \in Saver : Alike(calls[s], more[s]),
           NEW r, NEW o, NEW i, Live(r, o, i, calls)
    PROVE  Live(r, o, i, more)
  <1>1. \A s \in Saver :
           /\ On(calls[s], i) <=> On(more[s], i)
           /\ Exact(calls[s], o) <=> Exact(more[s], o)
           /\ Done(r, calls[s], o) <=> Done(r, more[s], o)
           /\ Covered(calls[s], o) <=> Covered(more[s], o)
           /\ Pledge(calls[s]) <=> Pledge(more[s])
           /\ Doomed(calls[s], o) <=> Doomed(more[s], o)
           /\ Outrun(calls[s]) <=> Outrun(more[s])
           /\ Newer(calls[s]) <=> Newer(more[s])
           /\ calls[s].moved = more[s].moved /\ calls[s].behind = more[s].behind /\ calls[s].kind = more[s].kind
    BY AlikeSame
  <1>2. Loose(calls, o, i) => Loose(more, o, i)
    BY <1>1 DEF Loose
  <1>3. Compacts(calls, i) => Compacts(more, i)
    BY <1>1 DEF Compacts
  <1>4. Overtook(calls, i) => Overtook(more, i)
    BY <1>1 DEF Overtook
  <1>5. Truth(r, o, i, calls) => Truth(r, o, i, more)
    BY <1>1 DEF Truth
  <1> QED
    BY <1>1, <1>2, <1>3, <1>4, <1>5 DEF Live

LEMMA TouchedAlike ==
    ASSUME NEW n, NEW k, NEW calls, \A s \in Saver : calls[s] \in Call(n, k)
    PROVE  \A s \in Saver : Alike(calls[s], Touched(calls)[s])
  <1>1. ASSUME NEW s \in Saver, NEW b PROVE Alike(calls[s], [calls[s] EXCEPT !.touched = b])
    BY DEF Alike, Call
  <1> QED
    BY <1>1 DEF Touched

\* A save not mutated since its snapshot writes only what is so.
LEMMA ExactCovered ==
    ASSUME NEW c, NEW o \in Object, Exact(c, o)
    PROVE  Covered(c, o)
  <1> SUFFICES ASSUME c.kind = "incremental", c.pc # "back" PROVE Covered(c, o)
    BY DEF Covered
  <1>1. Carried(o, c.put) /\ Carried(o, c.update)
    BY DEF Exact
  <1> QED
    BY <1>1 DEF Covered, Carried, Holds

\* An object is mutated, and the saves in flight learn of it.
LEMMA MutatedLive ==
    ASSUME TypeInv, live # 0, NEW r, NEW o \in Object, NEW p, Live(r, o, live, op),
           Mutated(o, p) \/ Compacts(op, live), Flags(p), Low(p) \/ Compacts(op, live), p.first = o.first
    PROVE  Live(r, p, live, Moved(op))
  <1> DEFINE new == Moved(op)
  <1>1. ASSUME NEW s \in Saver, On(op[s], live)
        PROVE  new[s] = [op[s] EXCEPT !.moved = TRUE] /\ op[s] \in Call(edits, Len(obj))
    BY <1>1 DEF On, Moved, TypeInv, CallsInv, Sane
  <1>2. ASSUME NEW s \in Saver PROVE On(new[s], live) <=> On(op[s], live)
    <2>1. op[s] \in Call(edits, Len(obj))
      BY DEF TypeInv, CallsInv, Sane
    <2>2. new[s] = op[s] \/ new[s] = [op[s] EXCEPT !.moved = TRUE]
      BY DEF Moved
    <2>3. new[s].pc = op[s].pc /\ new[s].target = op[s].target
      BY <2>1, <2>2 DEF Call
    <2> QED
      BY <2>3 DEF On, InFlight
  <1>3. ASSUME NEW s \in Saver, On(op[s], live)
        PROVE  /\ new[s].moved /\ new[s].kind = op[s].kind
               /\ Pledge(op[s]) \/ Doomed(op[s], o) \/ op[s].kind = "boundary" => Pledge(new[s])
               /\ Covered(op[s], p) => Covered(new[s], p)
               /\ ~Newer(new[s])
    <2>1. /\ new[s].moved /\ new[s].pc = op[s].pc /\ new[s].kind = op[s].kind
          /\ new[s].put = op[s].put /\ new[s].update = op[s].update
          /\ new[s].behind = op[s].behind /\ new[s].failed = op[s].failed
      BY <1>1, <1>3 DEF Call
    <2> QED
      BY <2>1 DEF Pledge, Doomed, Covered, Newer
  <1> HIDE DEF new
  <1>4. (Low(p) \/ Compacts(new, live)) /\ Flags(p)
    BY <1>2, <1>3 DEF Compacts
  <1>5. \A s \in Saver : On(new[s], live) => new[s].moved \/ Exact(new[s], p)
    BY <1>2, <1>3
  <1>6. Overtook(new, live)
    BY <1>2, <1>3 DEF Overtook
  <1>7. Compacts(op, live) => Loose(new, p, live)
    BY <1>2, <1>3 DEF Compacts, Loose
  <1>8. Loose(op, o, live) => Loose(new, p, live)
    BY <1>2, <1>3 DEF Loose
  <1>9. ASSUME Mutated(o, p), Truth(r, o, live, op) PROVE Truth(r, p, live, new)
    <2>1. Upward(p) = Upward(o)
      BY DEF Upward
    <2>2. ASSUME NEW q \in Upward(o) PROVE Tells(r, p, q)
      <3>1. Tells(r, o, q) /\ Upward(o) \subseteq Nat
        BY <1>9 DEF Truth, Main, Upward
      <3>2. /\ Missing(o, q) => Missing(p, q)
            /\ Stale(o, q) => Stale(p, q)
            /\ Missing(p, q) \/ (q < End(o) <=> q < End(p))
            /\ Stale(p, q) \/ (q < End(p) => At(o, q) = At(p, q))
            /\ Missing(p, q) => Stale(p, q)
        BY <1>9 DEF Mutated, Stale
      <3> QED
        BY <3>1, <3>2 DEF Tells, Present, Same
    <2>3. ASSUME NEW s \in Saver, On(op[s], live) PROVE Covered(op[s], p)
      <3>1. Covered(op[s], o)
        BY <1>9, <2>3 DEF Truth
      <3>2. op[s].put \in Rows(edits) /\ op[s].update \in Rows(edits)
        BY DEF TypeInv, CallsInv, Sane, Call
      <3>3. \A q \in DOMAIN op[s].put \cup DOMAIN op[s].update : q >= o.first => q \in Upward(o)
        <4>1. edits \in Nat
          BY Numbers
        <4> QED
          BY <3>2, <4>1, RowsCounted DEF Upward
      <3>4. \A q \in Upward(o) :
            /\ Missing(o, q) => Missing(p, q)
            /\ Stale(o, q) => Stale(p, q)
            /\ Missing(p, q) \/ (q < End(o) <=> q < End(p))
            /\ Stale(p, q) \/ (q < End(p) => At(o, q) = At(p, q))
            /\ Missing(p, q) => Stale(p, q)
        BY <1>9 DEF Mutated, Stale
      <3> QED
        BY <3>1, <3>3, <3>4 DEF Covered, Holds
    <2> QED
      BY <1>2, <1>3, <2>1, <2>2, <2>3 DEF Truth, Main
  <1>10. Live(r, p, live, new)
    BY <1>4, <1>5, <1>6, <1>7, <1>8, <1>9 DEF Live
  <1> QED
    BY <1>10 DEF new

\* A snapshot, as the lemmas about it need it.
Snapped(d, i, o, k) ==
    /\ d.pc = "meta" /\ d.kind = k /\ d.target = i /\ d.col = o.first /\ d.cut = o.cut /\ ~d.moved /\ ~d.failed
    /\ d.put = (CASE k = "full" -> RowsFrom(0, o.msgs) [] k = "incremental" -> NewRows(o) [] OTHER -> <<>>)
    /\ d.update = (CASE k = "range" -> RangeRows(o) [] k = "incremental" -> ChangedRows(o) [] OTHER -> <<>>)

\* A save takes its snapshot.
LEMMA NewLive ==
    ASSUME NEW r, NEW o \in Object, NEW i, NEW calls, Live(r, o, i, calls), End(o) <= MaxEvents,
           NEW s \in Saver, ~On(calls[s], i), NEW k \in Kind \ {"boundary"}, k = "delete" => o.cut # -1,
           NEW more, Snapped(more[s], i, o, k), \A x \in Saver \ {s} : more[x] = calls[x]
    PROVE  Live(r, o, i, more)
  <1> DEFINE d == more[s]
  <1>d. /\ d.pc = "meta" /\ d.kind = k /\ d.target = i /\ d.col = o.first /\ d.cut = o.cut /\ ~d.moved
        /\ d.put = (CASE k = "full" -> RowsFrom(0, o.msgs) [] k = "incremental" -> NewRows(o) [] OTHER -> <<>>)
        /\ d.update = (CASE k = "range" -> RangeRows(o) [] k = "incremental" -> ChangedRows(o) [] OTHER -> <<>>)
    BY DEF Snapped
  <1> HIDE DEF d
  <1>0. /\ o.msgs \in Seq(Message) /\ Len(o.msgs) \in Nat /\ o.first \in Nat
        /\ o.saved \in Int /\ o.saved >= -1 /\ o.changed \in Nat /\ o.from \in Nat /\ o.to \in Nat
        /\ o.cut \in Int /\ o.cut >= -1 /\ End(o) \in Nat /\ End(o) = o.first + Len(o.msgs)
        /\ MaxEvents \in Nat
    BY ObjectIs, SessionAssumption
  <1> DEFINE all == RowsFrom(o.first, o.msgs)
  <1>1. /\ DOMAIN all = o.first .. End(o) - 1
        /\ \A q \in DOMAIN all : all[q] = At(o, q)
    BY <1>0 DEF RowsFrom, At
  <1>2. \A T : DOMAIN Only(all, T) = DOMAIN all \cap T /\ \A q \in DOMAIN all \cap T : Only(all, T)[q] = all[q]
    BY DEF Only
  <1> HIDE DEF all
  <1>3. ASSUME NEW T PROVE Carried(o, Only(all, T))
    <2>1. \A q \in DOMAIN all : q >= o.first /\ q < End(o)
      BY <1>0, <1>1
    <2>2. ASSUME NEW q \in DOMAIN Only(all, T) PROVE q >= o.first /\ Holds(o, Only(all, T), q)
      <3>1. DOMAIN Only(all, T) = DOMAIN all \cap T /\ \A x \in DOMAIN all \cap T : Only(all, T)[x] = all[x]
        BY <1>2, Zenon
      <3> QED
        BY <1>1, <2>1, <3>1 DEF Holds
    <2> QED
      BY <2>2, Zenon DEF Carried
  <1>4. Carried(o, NewRows(o)) /\ Carried(o, RangeRows(o)) /\ Carried(o, ChangedRows(o))
    <2>1. Carried(o, <<>>)
      BY DEF Carried
    <2> QED
      BY <1>3, <2>1 DEF NewRows, RangeRows, ChangedRows, all
  <1>5. ASSUME NEW q \in Upward(o)
        PROVE  /\ NewAt(o, q) => q \in DOMAIN NewRows(o)
               /\ ChangedAt(o, q) => q \in DOMAIN NewRows(o) \cup DOMAIN ChangedRows(o)
               /\ RangeAt(o, q) => q \in DOMAIN RangeRows(o)
    <2>1. q \in Nat /\ q >= o.first /\ (q < End(o) => q \in DOMAIN all)
      BY <1>0, <1>1 DEF Upward
    <2>2. q < End(o) /\ q >= o.first + o.saved + 1 => q \in DOMAIN NewRows(o)
      <3>1. q < End(o) /\ q >= o.first + o.saved + 1 => q \in From(o.first + o.saved + 1)
        BY <1>0, <2>1 DEF From
      <3> QED
        BY <1>2, <2>1, <3>1 DEF NewRows, all
    <2>3. NewAt(o, q) => q < End(o) /\ q >= o.first + o.saved + 1
      BY <1>0, <2>1 DEF NewAt
    <2>4. ASSUME ChangedAt(o, q), q <= o.first + o.saved PROVE q \in DOMAIN ChangedRows(o)
      <3>1. o.changed # 0 /\ q < End(o) /\ q \in o.first + o.changed - 1 .. o.first + o.saved
        BY <1>0, <2>1, <2>4 DEF ChangedAt
      <3> QED
        BY <1>2, <2>1, <3>1 DEF ChangedRows, all
    <2>5. ASSUME RangeAt(o, q) PROVE q \in DOMAIN RangeRows(o)
      <3>1. q < End(o) /\ q \in o.first + o.from .. o.first + o.to - 1
        BY <1>0, <2>1, <2>5 DEF RangeAt
      <3> QED
        BY <1>2, <2>1, <3>1 DEF RangeRows, all
    <2>6. q <= o.first + o.saved \/ q >= o.first + o.saved + 1
      BY <1>0, <2>1
    <2>7. ChangedAt(o, q) => q < End(o)
      BY DEF ChangedAt
    <2> QED
      BY <2>2, <2>3, <2>4, <2>5, <2>6, <2>7
  <1>6. Exact(d, o)
    <2>1. CASE k = "full"
      BY <1>d, <2>1 DEF Exact
    <2>2. CASE k = "incremental"
      <3>1. d.put = NewRows(o) /\ d.update = ChangedRows(o)
        BY <1>d, <2>2
      <3> QED
        BY <1>d, <1>4, <1>5, <2>2, <3>1 DEF Exact
    <2>3. CASE k = "range"
      <3>1. d.update = RangeRows(o)
        BY <1>d, <2>3
      <3> QED
        BY <1>d, <1>4, <1>5, <2>3, <3>1 DEF Exact
    <2>4. CASE k = "delete"
      BY <1>d, <2>4 DEF Exact
    <2> QED
      BY <2>1, <2>2, <2>3, <2>4 DEF Kind
  <1>7. Covered(d, o)
    BY <1>6, ExactCovered
  <1>8. /\ ~Pledge(d) /\ ~Doomed(d, o) /\ ~Outrun(d) /\ ~Newer(d) /\ Done(r, d, o)
    BY <1>d DEF Pledge, Doomed, Outrun, Newer, Done
  <1>9. Loose(calls, o, i) => Loose(more, o, i)
    BY DEF Loose
  <1>10. Compacts(calls, i) => Compacts(more, i)
    BY DEF Compacts
  <1>11. Overtook(calls, i) => Overtook(more, i)
    BY <1>8 DEF Overtook, d
  <1>12. Truth(r, o, i, calls) => Truth(r, o, i, more)
    BY <1>7, <1>8 DEF Truth, d
  <1> QED
    BY <1>6, <1>9, <1>10, <1>11, <1>12 DEF Live, d

-----------------------------------------------------------------------------
(* Saves settle.                                                           *)

\* calls without the call of s.
Without(calls, more, s, i) == ~On(more[s], i) /\ \A x \in Saver \ {s} : more[x] = calls[x]

\* A save that settles without a hazard is no reason for the flags to be wrong.
LEMMA Settling ==
    ASSUME NEW r, NEW o, NEW p, NEW i, NEW calls, NEW more, NEW s \in Saver, Live(r, o, i, calls),
           Without(calls, more, s, i), ~(Pledge(calls[s]) \/ Doomed(calls[s], o)),
           Flags(p), Low(p) \/ Compacts(more, i),
           \A x \in Saver : On(calls[x], i) => calls[x].moved \/ Exact(calls[x], p),
           \A x \in Saver : Doomed(calls[x], o) => Doomed(calls[x], p),
           Truth(r, o, i, calls) =>
              \/ Loose(more, p, i)
              \/ /\ Main(r, p)
                 /\ \A x \in Saver \ {s} : On(calls[x], i) => Covered(calls[x], p) /\ (calls[x].moved \/ Done(r, calls[x], p))
    PROVE  Live(r, p, i, more)
  <1>1. \A x \in Saver : On(more[x], i) => x # s /\ On(calls[x], i) /\ more[x] = calls[x]
    BY DEF Without
  <1>2. Loose(calls, o, i) => Loose(more, p, i)
    <2>1. ASSUME NEW x \in Saver, On(calls[x], i), Pledge(calls[x]) \/ Doomed(calls[x], o)
          PROVE  Loose(more, p, i)
      <3>1. x # s /\ more[x] = calls[x]
        BY <2>1 DEF Without
      <3> QED
        BY <2>1, <3>1 DEF Loose
    <2> QED
      BY <2>1 DEF Loose
  <1>3. Overtook(more, i)
    BY <1>1 DEF Live, Overtook
  <1>4. Loose(more, p, i) \/ Truth(r, p, i, more)
    BY <1>1, <1>2 DEF Live, Truth
  <1> QED
    BY <1>1, <1>3, <1>4 DEF Live

\* One that failed, or an incremental one that was overtaken, leaves the flags.
LEMMA LeftLive ==
    ASSUME NEW r, NEW o, NEW i, NEW calls, NEW more, NEW s \in Saver, Live(r, o, i, calls),
           Without(calls, more, s, i), calls[s].kind # "boundary",
           calls[s].failed \/ (calls[s].moved /\ calls[s].kind = "incremental")
    PROVE  Live(r, o, i, more)
  <1>1. ~(Pledge(calls[s]) \/ Doomed(calls[s], o))
    BY DEF Pledge, Doomed
  <1>2. Compacts(calls, i) => Compacts(more, i)
    BY DEF Compacts, Without
  <1> QED
    BY <1>1, <1>2, Settling DEF Live, Truth

\* Any other that was overtaken orders a full rewrite.
LEMMA OwedLive ==
    ASSUME NEW r, NEW o, NEW i, NEW calls, NEW more, NEW s \in Saver, Live(r, o, i, calls),
           ~On(more[s], i),
           \A x \in Saver \ {s} : On(more[x], i) =>
              /\ On(calls[x], i) /\ Alike([calls[x] EXCEPT !.owed = TRUE], more[x])
              /\ \E n, k : calls[x] \in Call(n, k),
           NEW p, p.owed, p.saved = -1, p.first = o.first, p.msgs = o.msgs, p.cut = o.cut,
           p.from = o.from, p.to = o.to
    PROVE  Live(r, p, i, more)
  <1>1. Flags(p) /\ Low(p)
    BY DEF Flags, Low
  <1>2. \A q : Missing(p, q) /\ Stale(p, q)
    BY DEF Missing, Stale
  <1>3. End(p) = End(o) /\ Upward(p) = Upward(o) /\ \A q : At(p, q) = At(o, q) /\ (RangeAt(p, q) <=> RangeAt(o, q))
    BY DEF End, Upward, At, RangeAt
  <1>4. ASSUME NEW x \in Saver, On(more[x], i)
        PROVE  /\ x # s /\ On(calls[x], i)
               /\ more[x].pc = calls[x].pc /\ more[x].kind = calls[x].kind /\ more[x].col = calls[x].col
               /\ more[x].put = calls[x].put /\ more[x].update = calls[x].update
               /\ more[x].cut = calls[x].cut /\ more[x].moved = calls[x].moved
               /\ more[x].behind = calls[x].behind /\ more[x].failed = calls[x].failed
               /\ more[x].owed
    <2>1. x # s
      BY <1>4
    <2>2. PICK n, k : calls[x] \in Call(n, k)
      BY <1>4, <2>1
    <2> QED
      BY <1>4, <2>1, <2>2 DEF Alike, Call
  <1>5. ASSUME NEW x \in Saver, On(more[x], i), ~more[x].moved PROVE Exact(more[x], p)
    <2>1. Exact(calls[x], o)
      BY <1>4, <1>5 DEF Live
    <2> QED
      BY <1>3, <1>4, <1>5, <2>1 DEF Exact, Same, Carried, Holds
  <1>6. Overtook(more, i)
    <2>1. \A x \in Saver : On(more[x], i) => /\ On(calls[x], i)
                                             /\ more[x].behind = calls[x].behind
                                             /\ (Outrun(more[x]) <=> Outrun(calls[x]))
                                             /\ (Newer(more[x]) <=> Newer(calls[x]))
      BY <1>4 DEF Outrun, Newer
    <2> QED
      BY <2>1 DEF Live, Overtook
  <1>7. ASSUME NEW x \in Saver, On(more[x], i) PROVE Covered(more[x], p) /\ Done(r, more[x], p)
    BY <1>2, <1>4, <1>7 DEF Covered, Done
  <1>8. Main(r, p)
    BY <1>2 DEF Main, Tells
  <1> QED
    BY <1>1, <1>5, <1>6, <1>7, <1>8 DEF Live, Truth

LEMMA OvertookCovered ==
    ASSUME NEW o, NEW p, NEW i, NEW calls, NEW r, Live(r, o, i, calls), NEW s \in Saver, On(calls[s], i),
           Newer(calls[s]), NEW x \in Saver, On(calls[x], i), calls[x].moved
    PROVE  Covered(calls[x], p)
  BY DEF Live, Overtook, Outrun, Covered

LEMMA IncrementalSettled ==
    ASSUME NEW r, NEW o \in Object, NEW p \in Object, NEW i, NEW calls, NEW more, NEW s \in Saver,
           Live(r, o, i, calls), Without(calls, more, s, i), On(calls[s], i),
           calls[s].kind = "incremental", calls[s].pc = "back", ~calls[s].moved, ~calls[s].failed, ~o.owed,
           p = [o EXCEPT !.saved = Len(o.msgs) - 1, !.appended = FALSE, !.changed = 0]
    PROVE  Live(r, p, i, more)
  <1> DEFINE c == calls[s]
  <1>1. /\ p.first = o.first /\ p.msgs = o.msgs /\ p.cut = o.cut /\ p.from = o.from /\ p.to = o.to
        /\ p.owed = o.owed /\ p.saved = Len(o.msgs) - 1 /\ ~p.appended /\ p.changed = 0
    BY DEF Object
  <1>2. Len(o.msgs) \in Nat /\ End(o) = o.first + Len(o.msgs) /\ o.first \in Nat
    BY ObjectIs
  <1>3. End(p) = End(o) /\ Upward(p) = Upward(o) /\ Upward(o) \subseteq Nat
    BY <1>1 DEF End, Upward
  <1>4. \A q : At(p, q) = At(o, q) /\ (RangeAt(p, q) <=> RangeAt(o, q)) /\ (CutAt(p, q) <=> CutAt(o, q))
    BY <1>1 DEF At, RangeAt, CutAt, End
  <1>5. \A q \in Upward(o) : ~NewAt(p, q) /\ ~ChangedAt(p, q)
    BY <1>1, <1>2 DEF NewAt, ChangedAt, End, Upward
  <1>6. Flags(p) /\ Low(p)
    BY <1>1, <1>2, <1>3 DEF Live, Flags, Low
  <1>7. ASSUME NEW x \in Saver, On(calls[x], i), ~calls[x].moved PROVE Exact(calls[x], p)
    <2>1. Exact(calls[x], o)
      BY <1>7 DEF Live
    <2>2. CASE calls[x].kind = "boundary"
      BY <1>1, <1>2, <2>1, <2>2 DEF Exact, HasNew, HasRange
    <2>3. CASE calls[x].kind # "boundary"
      BY <1>1, <1>3, <1>4, <1>5, <2>1, <2>3 DEF Exact, Same, Carried, Holds
    <2> QED
      BY <2>2, <2>3
  <1>8. \A x \in Saver : Doomed(calls[x], o) => Doomed(calls[x], p)
    BY <1>1, <1>3 DEF Doomed
  <1>9. ASSUME Truth(r, o, i, calls), ~Loose(more, p, i)
        PROVE  /\ Main(r, p)
               /\ \A x \in Saver \ {s} : On(calls[x], i) => Covered(calls[x], p) /\ (calls[x].moved \/ Done(r, calls[x], p))
    <2>1. \A q \in Upward(o) : /\ NewAt(o, q) => Same(r, o, q) \/ CutAt(o, q)
                               /\ ChangedAt(o, q) => Same(r, o, q) \/ CutAt(o, q)
      <3>1. Done(r, c, o)
        BY <1>9 DEF Truth
      <3> QED
        BY <3>1 DEF Done
    <2>2. \A q : Same(r, p, q) <=> Same(r, o, q)
      BY <1>3, <1>4 DEF Same
    <2>3. \A q : Present(r, p, q) <=> Present(r, o, q)
      BY <1>3 DEF Present
    <2>4. \A q : Same(r, o, q) => Present(r, o, q)
      BY DEF Same, Present
    <2>5. Main(r, p)
      <3>1. ASSUME NEW q \in Upward(o) PROVE Tells(r, p, q)
        <4>1. Tells(r, o, q)
          BY <1>9 DEF Truth, Main
        <4> QED
          BY <1>1, <1>4, <1>5, <2>1, <2>2, <2>3, <2>4, <4>1 DEF Tells, Missing, Stale
      <3> QED
        BY <1>3, <3>1 DEF Main
    <2>6. ASSUME NEW x \in Saver \ {s}, On(calls[x], i) PROVE Covered(calls[x], p)
      <3>1. Newer(c)
        BY DEF Newer
      <3> QED
        BY <1>7, <2>6, <3>1, OvertookCovered, ExactCovered
    <2>7. ASSUME NEW x \in Saver \ {s}, On(calls[x], i), ~calls[x].moved PROVE Done(r, calls[x], p)
      <3>1. Done(r, calls[x], o)
        BY <1>9, <2>7 DEF Truth
      <3>2. CASE calls[x].kind = "incremental"
        BY <1>3, <1>5, <3>2 DEF Done
      <3>3. CASE calls[x].kind = "range"
        <4>1. ASSUME calls[x].pc = "back", ~calls[x].failed, NEW q \in Upward(o), RangeAt(o, q)
              PROVE  Same(r, p, q) \/ Missing(p, q)
          <5>1. Same(r, o, q) \/ Missing(o, q) \/ ChangedAt(o, q)
            BY <3>1, <3>3, <4>1 DEF Done
          <5> QED
            BY <1>4, <2>1, <2>2, <5>1 DEF Missing
        <4> QED
          BY <1>3, <1>4, <3>3, <4>1 DEF Done
      <3>4. CASE calls[x].kind = "delete"
        BY <1>1, <3>1, <3>4 DEF Done
      <3>5. CASE calls[x].kind = "full"
        BY <1>3, <2>2, <3>1, <3>5 DEF Done
      <3>6. CASE calls[x].kind = "boundary"
        BY <1>1, <1>3, <2>2, <3>1, <3>6 DEF Done
      <3>7. CASE calls[x].kind \notin Kind
        BY <3>7 DEF Done, Kind
      <3> QED
        BY <3>2, <3>3, <3>4, <3>5, <3>6, <3>7 DEF Kind
    <2> QED
      BY <2>5, <2>6, <2>7
  <1>10. ~(Pledge(c) \/ Doomed(c, o))
    BY DEF Pledge, Doomed
  <1> QED
    BY <1>6, <1>7, <1>8, <1>9, <1>10, Settling

LEMMA DeleteSettled ==
    ASSUME NEW r, NEW o \in Object, NEW p \in Object, NEW i, NEW calls, NEW more, NEW s \in Saver,
           Live(r, o, i, calls), Without(calls, more, s, i), On(calls[s], i),
           calls[s].kind = "delete", calls[s].pc = "back", ~calls[s].moved, ~calls[s].failed, ~o.owed,
           o.saved >= Len(o.msgs) - 1, Len(o.msgs) <= o.cut - o.first,
           p = [o EXCEPT !.saved = Len(o.msgs) - 1, !.cut = -1]
    PROVE  Live(r, p, i, more)
  <1> DEFINE c == calls[s]
  <1>1. /\ p.first = o.first /\ p.msgs = o.msgs /\ p.changed = o.changed /\ p.from = o.from /\ p.to = o.to
        /\ p.owed = o.owed /\ p.saved = Len(o.msgs) - 1 /\ p.appended = o.appended /\ p.cut = -1
    BY DEF Object
  <1>2. /\ Len(o.msgs) \in Nat /\ End(o) = o.first + Len(o.msgs) /\ o.first \in Nat /\ End(o) \in Nat
        /\ o.saved \in Int /\ o.cut \in Int
    BY ObjectIs
  <1>3. End(p) = End(o) /\ Upward(p) = Upward(o) /\ Upward(o) \subseteq Nat
    BY <1>1 DEF End, Upward
  <1>4. \A q : At(p, q) = At(o, q) /\ (RangeAt(p, q) <=> RangeAt(o, q)) /\ (ChangedAt(p, q) <=> ChangedAt(o, q))
    BY <1>1 DEF At, RangeAt, ChangedAt, End
  <1>5. o.cut = End(o) /\ o.cut # -1 /\ o.cut >= o.first
    BY <1>2 DEF Live, Flags
  <1>6. \A q \in Upward(o) : ~NewAt(p, q) /\ ~NewAt(o, q) /\ ~CutAt(p, q) /\ (CutAt(o, q) => q >= End(o))
    BY <1>1, <1>2, <1>3, <1>5 DEF NewAt, CutAt, Upward
  <1>7. Flags(p) /\ Low(p)
    BY <1>1, <1>2, <1>3 DEF Flags, Low
  <1>8. ASSUME NEW x \in Saver, On(calls[x], i), ~calls[x].moved PROVE Exact(calls[x], p)
    <2>1. Exact(calls[x], o)
      BY <1>8 DEF Live
    <2>2. calls[x].kind # "boundary"
      BY <1>5, <2>1 DEF Exact
    <2> QED
      BY <1>1, <1>3, <1>4, <1>6, <2>1, <2>2 DEF Exact, Same, Carried, Holds
  <1>9. \A x \in Saver : Doomed(calls[x], o) => Doomed(calls[x], p)
    BY <1>1 DEF Doomed
  <1>10. ASSUME Truth(r, o, i, calls), ~Loose(more, p, i)
         PROVE  /\ Main(r, p)
                /\ \A x \in Saver \ {s} : On(calls[x], i) => Covered(calls[x], p) /\ (calls[x].moved \/ Done(r, calls[x], p))
    <2>1. \A q \in Upward(o) : q >= End(o) => q \notin DOMAIN r
      <3>1. Done(r, c, o)
        BY <1>10 DEF Truth
      <3> QED
        BY <1>3, <1>5, <3>1 DEF Done
    <2>2. \A q : (Same(r, p, q) <=> Same(r, o, q)) /\ (Present(r, p, q) <=> Present(r, o, q))
      BY <1>3, <1>4 DEF Same, Present
    <2>3. \A q \in Upward(o) : q < End(o) \/ q >= End(o)
      BY <1>2, <1>3
    <2>4. Main(r, p)
      <3>1. ASSUME NEW q \in Upward(o) PROVE Tells(r, p, q)
        <4>1. Tells(r, o, q) /\ ~(q < End(o) /\ q >= End(o))
          BY <1>2, <1>3, <1>10 DEF Truth, Main
        <4>2. CASE q >= End(o)
          BY <2>1, <2>2, <4>1, <4>2 DEF Tells, Same, Present
        <4>3. CASE q < End(o)
          <5>1. ~Missing(o, q)
            BY <1>6, <4>1, <4>3 DEF Missing
          <5> QED
            BY <1>1, <1>4, <1>6, <2>2, <4>1, <5>1 DEF Tells, Missing, Stale
        <4> QED
          BY <2>3, <4>2, <4>3
      <3> QED
        BY <1>3, <3>1 DEF Main
    <2>5. ASSUME NEW x \in Saver \ {s}, On(calls[x], i) PROVE Covered(calls[x], p)
      <3>1. Newer(c)
        BY DEF Newer
      <3> QED
        BY <1>8, <2>5, <3>1, OvertookCovered, ExactCovered
    <2>6. ASSUME NEW x \in Saver \ {s}, On(calls[x], i), ~calls[x].moved PROVE Done(r, calls[x], p)
      <3>1. Done(r, calls[x], o)
        BY <1>10, <2>6 DEF Truth
      <3>2. CASE calls[x].kind = "incremental"
        <4>1. ASSUME calls[x].pc \in {"update", "back"}, ~calls[x].failed, NEW q \in Upward(o), ChangedAt(o, q)
              PROVE  Same(r, o, q) \/ (calls[x].pc = "update" /\ q \in DOMAIN calls[x].update)
          <5>1. Same(r, o, q) \/ CutAt(o, q) \/ (calls[x].pc = "update" /\ q \in DOMAIN calls[x].update)
            BY <3>1, <3>2, <4>1 DEF Done
          <5>2. q < End(o) /\ q \in Nat
            BY <1>3, <4>1 DEF ChangedAt
          <5>3. ~CutAt(o, q)
            BY <1>2, <1>6, <5>2
          <5> QED
            BY <5>1, <5>3
        <4> QED
          BY <1>3, <1>4, <1>6, <2>2, <3>2, <4>1 DEF Done
      <3>3. CASE calls[x].kind = "range"
        <4>1. ASSUME calls[x].pc = "back", ~calls[x].failed, NEW q \in Upward(o), RangeAt(o, q)
              PROVE  Same(r, o, q) \/ ChangedAt(o, q)
          <5>1. Same(r, o, q) \/ Missing(o, q) \/ ChangedAt(o, q)
            BY <3>1, <3>3, <4>1 DEF Done
          <5>2. q < End(o) /\ q \in Nat
            BY <1>3, <4>1 DEF RangeAt
          <5>3. ~Missing(o, q)
            BY <1>2, <1>6, <5>2 DEF Missing
          <5> QED
            BY <5>1, <5>3
        <4> QED
          BY <1>3, <1>4, <2>2, <3>3, <4>1 DEF Done
      <3>4. CASE calls[x].kind = "delete"
        <4>1. ASSUME calls[x].pc = "back", ~calls[x].failed PROVE Loose(more, p, i)
          <5>1. Doomed(calls[x], p) /\ more[x] = calls[x]
            BY <1>1, <2>6, <3>4, <4>1 DEF Doomed, Without
          <5> QED
            BY <2>6, <5>1 DEF Loose
        <4> QED
          BY <1>10, <3>4, <4>1 DEF Done
      <3>5. CASE calls[x].kind = "full"
        BY <1>3, <2>2, <3>1, <3>5 DEF Done
      <3>6. CASE calls[x].kind = "boundary"
        <4>1. Exact(calls[x], o)
          BY <2>6 DEF Live
        <4> QED
          BY <1>5, <3>6, <4>1 DEF Exact
      <3>7. CASE calls[x].kind \notin Kind
        BY <3>7 DEF Done, Kind
      <3> QED
        BY <3>2, <3>3, <3>4, <3>5, <3>6, <3>7 DEF Kind
    <2> QED
      BY <2>4, <2>5, <2>6
  <1>11. ~(Pledge(c) \/ Doomed(c, o))
    BY <1>2, <1>5 DEF Pledge, Doomed
  <1> QED
    BY <1>7, <1>8, <1>9, <1>10, <1>11, Settling

LEMMA FullSettled ==
    ASSUME NEW r, NEW o \in Object, NEW p \in Object, NEW i, NEW calls, NEW more, NEW s \in Saver,
           Live(r, o, i, calls), Without(calls, more, s, i), On(calls[s], i),
           calls[s].kind = "full", calls[s].pc = "back", ~calls[s].moved, ~calls[s].failed, ~calls[s].owed,
           p = [Cleaned(o) EXCEPT !.first = calls[s].col]
    PROVE  Live(r, p, i, more)
  <1> DEFINE c == calls[s]
  <1>1. /\ p.msgs = o.msgs /\ p.changed = 0 /\ p.from = 0 /\ p.to = 0 /\ ~p.owed
        /\ p.saved = Len(o.msgs) - 1 /\ ~p.appended /\ p.cut = -1 /\ p.first = c.col
    BY DEF Object, Cleaned, Count
  <1>2. /\ Len(o.msgs) \in Nat /\ End(o) = o.first + Len(o.msgs) /\ o.first \in Nat /\ End(o) \in Nat
    BY ObjectIs
  <1>3. p.first = o.first
    BY <1>1 DEF Live, Exact
  <1>4. End(p) = End(o) /\ Upward(p) = Upward(o) /\ Upward(o) \subseteq Nat /\ \A q : At(p, q) = At(o, q)
    BY <1>1, <1>3 DEF End, Upward, At
  <1>5. ASSUME NEW q \in Upward(o) PROVE ~NewAt(p, q) /\ ~CutAt(p, q) /\ ~RangeAt(p, q) /\ ~ChangedAt(p, q)
    <2>1. q \in Nat /\ q >= o.first
      BY DEF Upward
    <2> QED
      BY SMTT(30), <1>1, <1>2, <1>3, <1>4, <2>1 DEF NewAt, CutAt, RangeAt, ChangedAt
  <1>6. Flags(p) /\ Low(p)
    <2>1. p.saved < Len(p.msgs)
      BY <1>1, <1>2
    <2> QED
      BY <1>1, <2>1 DEF Flags, Low
  <1>7. ASSUME NEW x \in Saver, On(calls[x], i), ~calls[x].moved PROVE Exact(calls[x], p)
    <2>1. Exact(calls[x], o)
      BY <1>7 DEF Live
    <2>2. CASE calls[x].kind = "boundary"
      BY <1>1, <1>2, <2>2 DEF Exact, HasNew, HasRange
    <2>3. CASE calls[x].kind # "boundary"
      BY <1>1, <1>3, <1>4, <1>5, <2>1, <2>3 DEF Exact, Same, Carried, Holds
    <2> QED
      BY <2>2, <2>3
  <1>8. \A x \in Saver : Doomed(calls[x], o) => Doomed(calls[x], p)
    BY <1>1 DEF Doomed
  <1>9. ASSUME Truth(r, o, i, calls), ~Loose(more, p, i)
        PROVE  /\ Main(r, p)
               /\ \A x \in Saver \ {s} : On(calls[x], i) => Covered(calls[x], p) /\ (calls[x].moved \/ Done(r, calls[x], p))
    <2>1. \A q \in Upward(o) : Same(r, p, q)
      <3>1. Done(r, c, o)
        BY <1>9 DEF Truth
      <3> QED
        BY <1>4, <3>1 DEF Done, Same
    <2>2. Main(r, p)
      BY <1>4, <2>1 DEF Main, Tells, Same, Present
    <2>3. ASSUME NEW x \in Saver \ {s}, On(calls[x], i) PROVE Covered(calls[x], p)
      <3>1. Newer(c)
        BY DEF Newer
      <3> QED
        BY <1>7, <2>3, <3>1, OvertookCovered, ExactCovered
    <2>4. ASSUME NEW x \in Saver \ {s}, On(calls[x], i), ~calls[x].moved PROVE Done(r, calls[x], p)
      <3>1. CASE calls[x].kind = "delete"
        <4>1. ASSUME calls[x].pc = "back", ~calls[x].failed PROVE Loose(more, p, i)
          <5>1. Doomed(calls[x], p) /\ more[x] = calls[x]
            BY <1>1, <2>4, <3>1, <4>1 DEF Doomed, Without
          <5> QED
            BY <2>4, <5>1 DEF Loose
        <4> QED
          BY <1>9, <3>1, <4>1 DEF Done
      <3>2. CASE calls[x].kind # "delete"
        BY <1>4, <1>5, <2>1, <3>2 DEF Done
      <3> QED
        BY <3>1, <3>2
    <2> QED
      BY <2>2, <2>3, <2>4
  <1>10. ~(Pledge(c) \/ Doomed(c, o))
    BY DEF Pledge, Doomed
  <1> QED
    BY <1>6, <1>7, <1>8, <1>9, <1>10, Settling

LEMMA RangeSettled ==
    ASSUME NEW r, NEW o \in Object, NEW p \in Object, NEW i, NEW calls, NEW more, NEW s \in Saver,
           Live(r, o, i, calls), Without(calls, more, s, i), On(calls[s], i),
           calls[s].kind = "range", calls[s].pc = "back", ~calls[s].moved, ~calls[s].failed,
           p = [o EXCEPT !.from = 0, !.to = 0]
    PROVE  Live(r, p, i, more)
  <1> DEFINE c == calls[s]
  <1>1. /\ p.first = o.first /\ p.msgs = o.msgs /\ p.changed = o.changed /\ p.from = 0 /\ p.to = 0
        /\ p.owed = o.owed /\ p.saved = o.saved /\ p.appended = o.appended /\ p.cut = o.cut
    BY DEF Object
  <1>2. o.first \in Nat /\ End(o) \in Nat
    BY ObjectIs
  <1>3. End(p) = End(o) /\ Upward(p) = Upward(o) /\ Upward(o) \subseteq Nat
    BY <1>1 DEF End, Upward
  <1>4. \A q : /\ At(p, q) = At(o, q) /\ (CutAt(p, q) <=> CutAt(o, q))
               /\ (NewAt(p, q) <=> NewAt(o, q)) /\ (ChangedAt(p, q) <=> ChangedAt(o, q))
    BY <1>1 DEF At, CutAt, NewAt, ChangedAt, End
  <1>5. \A q \in Upward(o) : ~RangeAt(p, q) /\ (Missing(p, q) <=> Missing(o, q))
    BY <1>1, <1>2, <1>3, <1>4 DEF RangeAt, Missing, Upward
  <1>6. Flags(p) /\ (Low(p) \/ Compacts(more, i))
    <2>1. Compacts(calls, i) => Compacts(more, i)
      BY DEF Compacts, Without
    <2> QED
      BY <1>1, <1>3, <2>1 DEF Live, Flags, Low
  <1>7. ASSUME NEW x \in Saver, On(calls[x], i), ~calls[x].moved PROVE Exact(calls[x], p)
    <2>1. Exact(calls[x], o)
      BY <1>7 DEF Live
    <2>2. CASE calls[x].kind = "boundary"
      BY <1>1, <2>1, <2>2 DEF Exact, HasNew, HasRange
    <2>3. CASE calls[x].kind # "boundary"
      BY <1>1, <1>3, <1>4, <1>5, <2>1, <2>3 DEF Exact, Same, Carried, Holds
    <2> QED
      BY <2>2, <2>3
  <1>8. \A x \in Saver : Doomed(calls[x], o) => Doomed(calls[x], p)
    BY <1>1, <1>3 DEF Doomed
  <1>9. ASSUME Truth(r, o, i, calls), ~Loose(more, p, i)
        PROVE  /\ Main(r, p)
               /\ \A x \in Saver \ {s} : On(calls[x], i) => Covered(calls[x], p) /\ (calls[x].moved \/ Done(r, calls[x], p))
    <2>1. \A q \in Upward(o) : RangeAt(o, q) => Same(r, o, q) \/ Missing(o, q) \/ ChangedAt(o, q)
      <3>1. Done(r, c, o)
        BY <1>9 DEF Truth
      <3> QED
        BY <3>1 DEF Done
    <2>2. \A q : (Same(r, p, q) <=> Same(r, o, q)) /\ (Present(r, p, q) <=> Present(r, o, q))
      BY <1>3, <1>4 DEF Same, Present
    <2>3. Main(r, p)
      <3>1. ASSUME NEW q \in Upward(o) PROVE Tells(r, p, q)
        <4>1. Tells(r, o, q)
          BY <1>9 DEF Truth, Main
        <4> QED
          BY <1>4, <1>5, <2>1, <2>2, <4>1 DEF Tells, Stale
      <3> QED
        BY <1>3, <3>1 DEF Main
    <2>4. ASSUME NEW x \in Saver \ {s}, On(calls[x], i) PROVE Covered(calls[x], p)
      <3>1. Newer(c)
        BY DEF Newer
      <3> QED
        BY <1>7, <2>4, <3>1, OvertookCovered, ExactCovered
    <2>5. ASSUME NEW x \in Saver \ {s}, On(calls[x], i), ~calls[x].moved PROVE Done(r, calls[x], p)
      <3>1. Done(r, calls[x], o)
        BY <1>9, <2>5 DEF Truth
      <3> QED
        BY <1>1, <1>3, <1>4, <1>5, <2>2, <3>1 DEF Done
    <2> QED
      BY <2>3, <2>4, <2>5
  <1>10. ~(Pledge(c) \/ Doomed(c, o))
    BY DEF Pledge, Doomed
  <1> QED
    BY <1>6, <1>7, <1>8, <1>9, <1>10, Settling

\* A boundary is written of an object of which nothing is due.
LEMMA BoundaryUnstale ==
    ASSUME NEW o \in Object, NEW c, c.kind = "boundary", Exact(c, o), ~o.owed
    PROVE  \A q \in Upward(o) : ~Stale(o, q)
  <1>1. /\ Len(o.msgs) \in Nat /\ End(o) = o.first + Len(o.msgs) /\ o.first \in Nat /\ End(o) \in Nat
        /\ o.changed \in Nat /\ o.from \in Nat /\ o.to \in Nat /\ o.saved \in Int
    BY ObjectIs
  <1>2. o.cut = -1 /\ ~HasNew(o) /\ ~HasRange(o) /\ (o.saved = -1 => Len(o.msgs) = 0)
    BY DEF Exact
  <1>3. ASSUME NEW q \in Upward(o) PROVE ~Stale(o, q)
    <2>1. q \in Nat /\ q >= o.first
      BY DEF Upward
    <2>2. ~CutAt(o, q) /\ ~ChangedAt(o, q)
      BY <1>2 DEF CutAt, ChangedAt, HasNew
    <2>3. ~NewAt(o, q)
      BY <1>1, <1>2, <2>1 DEF NewAt, HasNew
    <2>4. ~RangeAt(o, q)
      BY <1>1, <1>2, <2>1 DEF RangeAt, HasRange
    <2> QED
      BY <2>2, <2>3, <2>4 DEF Stale, Missing
  <1> QED
    BY <1>3

LEMMA BoundarySettled ==
    ASSUME NEW r, NEW o \in Object, NEW p \in Object, NEW i, NEW calls, NEW more, NEW s \in Saver,
           Live(r, o, i, calls), Without(calls, more, s, i), On(calls[s], i),
           calls[s].kind = "boundary", ~calls[s].moved, ~o.owed, p = Cleaned(o),
           NEW n \in Nat, NEW k, \A x \in Saver : calls[x] \in Call(n, k)
    PROVE  Live(r, p, i, more)
  <1> DEFINE c == calls[s]
  <1>1. /\ p.msgs = o.msgs /\ p.changed = 0 /\ p.from = 0 /\ p.to = 0 /\ ~p.owed
        /\ p.saved = Len(o.msgs) - 1 /\ ~p.appended /\ p.cut = -1 /\ p.first = o.first
    BY DEF Object, Cleaned, Count
  <1>2. /\ Len(o.msgs) \in Nat /\ End(o) = o.first + Len(o.msgs) /\ o.first \in Nat /\ End(o) \in Nat
        /\ o.changed \in Nat /\ o.from \in Nat /\ o.to \in Nat /\ o.saved \in Int
    BY ObjectIs
  <1>3. End(p) = End(o) /\ Upward(p) = Upward(o) /\ Upward(o) \subseteq Nat /\ \A q : At(p, q) = At(o, q)
    BY <1>1 DEF End, Upward, At
  <1>4. ASSUME NEW q \in Upward(o) PROVE ~NewAt(p, q) /\ ~CutAt(p, q) /\ ~RangeAt(p, q) /\ ~ChangedAt(p, q)
    <2>1. q \in Nat /\ q >= o.first
      BY DEF Upward
    <2> QED
      BY <1>1, <1>2, <1>3, <2>1 DEF NewAt, CutAt, RangeAt, ChangedAt
  <1>5. \A q \in Upward(o) : ~Stale(o, q)
    <2>1. Exact(c, o)
      BY DEF Live
    <2> QED
      BY <2>1, BoundaryUnstale
  <1>6. Flags(p) /\ Low(p)
    BY <1>1, <1>2 DEF Flags, Low
  <1>7. ASSUME NEW x \in Saver, On(calls[x], i), ~calls[x].moved PROVE Exact(calls[x], p)
    <2>1. Exact(calls[x], o)
      BY <1>7 DEF Live
    <2>2. CASE calls[x].kind = "boundary"
      BY <1>1, <1>2, <2>2 DEF Exact, HasNew, HasRange
    <2>3. CASE calls[x].kind # "boundary"
      BY <1>1, <1>3, <1>4, <2>1, <2>3 DEF Exact, Same, Carried, Holds
    <2> QED
      BY <2>2, <2>3
  <1>8. \A x \in Saver : Doomed(calls[x], o) => Doomed(calls[x], p)
    BY <1>1 DEF Doomed
  <1>9. ASSUME Truth(r, o, i, calls), ~Loose(more, p, i)
        PROVE  /\ Main(r, p)
               /\ \A x \in Saver \ {s} : On(calls[x], i) => Covered(calls[x], p) /\ (calls[x].moved \/ Done(r, calls[x], p))
    <2>1. \A q \in Upward(o) : Same(r, p, q)
      <3>1. Done(r, c, o)
        BY <1>9 DEF Truth
      <3> QED
        BY <1>3, <3>1 DEF Done, Same
    <2>2. Main(r, p)
      BY <1>3, <2>1 DEF Main, Tells, Same, Present
    <2>3. ASSUME NEW x \in Saver \ {s}, On(calls[x], i) PROVE Covered(calls[x], p)
      <3>1. Covered(calls[x], o)
        BY <1>9, <2>3 DEF Truth
      <3>2. \A q \in DOMAIN calls[x].put \cup DOMAIN calls[x].update : q >= o.first => q \in Upward(o)
        <4>1. calls[x].put \in Rows(n) /\ calls[x].update \in Rows(n)
          BY DEF Call
        <4> QED
          BY <4>1, RowsCounted DEF Upward
      <3>3. \A q \in Upward(o) : ~Stale(o, q) /\ ~Missing(o, q)
        BY <1>5 DEF Stale
      <3> QED
        BY <1>1, <1>3, <3>1, <3>2, <3>3 DEF Covered, Holds
    <2>4. ASSUME NEW x \in Saver \ {s}, On(calls[x], i), ~calls[x].moved PROVE Done(r, calls[x], p)
      <3>1. CASE calls[x].kind = "delete"
        <4>1. ASSUME calls[x].pc = "back", ~calls[x].failed PROVE Loose(more, p, i)
          <5>1. Doomed(calls[x], p) /\ more[x] = calls[x]
            BY <1>1, <2>4, <3>1, <4>1 DEF Doomed, Without
          <5> QED
            BY <2>4, <5>1 DEF Loose
        <4> QED
          BY <1>9, <3>1, <4>1 DEF Done
      <3>2. CASE calls[x].kind # "delete"
        BY <1>3, <1>4, <2>1, <3>2 DEF Done
      <3> QED
        BY <3>1, <3>2
    <2> QED
      BY <2>2, <2>3, <2>4
  <1>10. ~(Pledge(c) \/ Doomed(c, o))
    BY DEF Pledge, Doomed
  <1> QED
    BY <1>6, <1>7, <1>8, <1>9, <1>10, Settling

-----------------------------------------------------------------------------
(* Memory and rows, as far as a load can tell.                             *)

\* What c has yet to write, and has written, is what d has.
Likes(c, d) == /\ d.pc = c.pc /\ d.kind = c.kind /\ d.col = c.col /\ d.put = c.put /\ d.update = c.update
               /\ c.behind => d.behind

LEMMA LikesFair ==
    ASSUME NEW c, NEW d, Likes(c, d), NEW o
    PROVE  /\ \A q, m : Puts(d, q, m) <=> Puts(c, q, m)
           /\ \A f : Fair(c, o, f) => Fair(d, o, f)
  <1>1. \A q, m : Puts(d, q, m) <=> Puts(c, q, m)
    BY DEF Likes, Puts
  <1>2. Agrees(c, o) => Agrees(d, o)
    BY <1>1 DEF Likes, Agrees
  <1>3. \A n, f : Under(c, n, f) => Under(d, n, f)
    BY <1>1 DEF Under
  <1>4. d.pc = c.pc /\ d.col = c.col
    BY DEF Likes
  <1> QED
    BY <1>1, <1>2, <1>3, <1>4 DEF Fair

\* Fewer calls, or calls that differ in nothing that counts.
LEMMA ClearBy ==
    ASSUME NEW r, NEW k, NEW o, NEW i, NEW calls, NEW t, NEW f, Clear(r, k, o, i, calls, t, f), NEW more,
           \A x \in Saver : On(more[x], i) =>
              \/ On(calls[x], i) /\ Alike(calls[x], more[x])
              \/ more[x].pc = "meta" /\ Fair(more[x], o, f)
    PROVE  Clear(r, k, o, i, more, t, f)
  <1>1. ASSUME NEW x \in Saver, On(more[x], i)
        PROVE  /\ Fair(more[x], o, f) /\ (t \/ Finished(r, more[x], o))
               /\ more[x].pc \in {"rows", "update"} => On(calls[x], i) /\ calls[x].pc \in {"rows", "update"}
    <2>1. CASE On(calls[x], i) /\ Alike(calls[x], more[x])
      <3>1. Likes(calls[x], more[x])
        BY <2>1 DEF Alike, Likes
      <3>2. Fair(calls[x], o, f) /\ (t \/ Finished(r, calls[x], o))
        BY <2>1 DEF Clear
      <3>3. Finished(r, calls[x], o) => Finished(r, more[x], o)
        BY <2>1 DEF Alike, Finished, Leaves
      <3>4. Fair(more[x], o, f)
        BY <3>1, <3>2, LikesFair
      <3> QED
        BY <2>1, <3>2, <3>3, <3>4 DEF Alike
    <2>2. CASE more[x].pc = "meta" /\ Fair(more[x], o, f)
      <3>1. Finished(r, more[x], o)
        BY <2>2 DEF Finished, Leaves
      <3> QED
        BY <2>2, <3>1
    <2> QED
      BY <1>1, <2>1, <2>2
  <1>2. Bounded(r, k, o.first, i, more, f)
    BY <1>1 DEF Clear, Bounded
  <1> QED
    BY <1>1, <1>2 DEF Clear

LEMMA AlikeClear ==
    ASSUME NEW r, NEW k, NEW o, NEW i, NEW calls, NEW t, NEW f, Clear(r, k, o, i, calls, t, f),
           NEW more, \A x \in Saver : Alike(calls[x], more[x])
    PROVE  Clear(r, k, o, i, more, t, f)
  <1>1. \A x \in Saver : On(more[x], i) => On(calls[x], i)
    BY DEF Alike, On, InFlight
  <1> QED
    BY <1>1, ClearBy

\* An object is mutated, and the saves in flight learn of it.
LEMMA EditedClear ==
    ASSUME TypeInv, NEW r, NEW k, NEW o, NEW p, NEW t, NEW f, Clear(r, k, o, live, op, t, f),
           p.first = o.first, Mild(o, p)
    PROVE  Clear(r, k, p, live, Moved(op), t, f)
  <1> DEFINE new == Moved(op)
  <1>1. ASSUME NEW s \in Saver
        PROVE  /\ On(new[s], live) => On(op[s], live) /\ new[s].moved
               /\ Likes(op[s], new[s])
    <2>1. op[s] \in Call(edits, Len(obj))
      BY DEF TypeInv, CallsInv, Sane
    <2>2. new[s] = IF op[s].target = live /\ live # 0 THEN [op[s] EXCEPT !.moved = TRUE] ELSE op[s]
      BY DEF Moved
    <2> HIDE DEF new
    <2>3. new[s].pc = op[s].pc /\ new[s].target = op[s].target /\ Likes(op[s], new[s])
      BY <2>1, <2>2 DEF Call, Likes
    <2>4. op[s].target = live /\ live # 0 => new[s].moved
      BY <2>1, <2>2 DEF Call
    <2> QED
      BY <2>3, <2>4 DEF On, InFlight
  <1> HIDE DEF new
  <1>2. Upward(p) = Upward(o)
    BY DEF Upward
  <1>3. ASSUME NEW s \in Saver, On(new[s], live) PROVE Fair(new[s], p, f) /\ Finished(r, new[s], p)
    <2>1. Fair(op[s], o, f)
      BY <1>1, <1>3 DEF Clear
    <2>2. Fair(op[s], p, f)
      BY <1>2, <2>1 DEF Fair, Agrees, Mild
    <2>3. Fair(new[s], p, f)
      BY <1>1, <2>2, LikesFair
    <2> QED
      BY <1>1, <1>3, <2>3 DEF Finished
  <1>4. Bounded(r, k, p.first, live, new, f)
    <2>1. \A s \in Saver : On(new[s], live) => On(op[s], live) /\ new[s].pc = op[s].pc
      BY <1>1 DEF Likes
    <2> QED
      BY <2>1 DEF Clear, Bounded
  <1>5. RowsFit(r, o) => RowsFit(r, p)
    BY <1>2 DEF RowsFit, Mild
  <1>6. Clear(r, k, p, live, new, t, f)
    BY <1>3, <1>4, <1>5 DEF Clear
  <1> QED
    BY <1>6 DEF new

LEMMA DenseRows ==
    ASSUME NEW l \in Seq(Message)
    PROVE  DOMAIN RowsFrom(0, l) = 0 .. Len(l) - 1 /\ Dense(RowsFrom(0, l))
  <1>1. DOMAIN RowsFrom(0, l) = 0 .. Len(l) - 1 /\ Len(l) \in Nat
    BY DEF RowsFrom
  <1> QED
    BY <1>1 DEF Dense

\* A snapshot takes along rows of its object only.
LEMMA SnappedFair ==
    ASSUME NEW o \in Object, NEW i, NEW k, NEW d, Snapped(d, i, o, k), NEW f
    PROVE  Fair(d, o, f)
  <1>0. /\ o.msgs \in Seq(Message) /\ Len(o.msgs) \in Nat /\ o.first \in Nat
        /\ End(o) \in Nat /\ End(o) = o.first + Len(o.msgs)
    BY ObjectIs
  <1> DEFINE all == RowsFrom(o.first, o.msgs)
  <1>1. /\ DOMAIN all = o.first .. End(o) - 1
        /\ \A q \in DOMAIN all : all[q] = At(o, q)
    BY <1>0 DEF RowsFrom, At
  <1>2. \A T : DOMAIN Only(all, T) = DOMAIN all \cap T /\ \A q \in DOMAIN all \cap T : Only(all, T)[q] = all[q]
    BY DEF Only
  <1> HIDE DEF all
  <1>3. ASSUME NEW T, NEW q \in DOMAIN Only(all, T) PROVE q >= o.first /\ q < End(o) /\ Only(all, T)[q] = At(o, q)
    <2>1. q \in DOMAIN all /\ Only(all, T)[q] = all[q]
      BY <1>2, <1>3
    <2> QED
      BY <1>0, <1>1, <2>1
  <1>4. /\ \A q \in DOMAIN NewRows(o) : q >= o.first /\ q < End(o) /\ NewRows(o)[q] = At(o, q)
        /\ \A q \in DOMAIN RangeRows(o) : q >= o.first /\ q < End(o) /\ RangeRows(o)[q] = At(o, q)
        /\ \A q \in DOMAIN ChangedRows(o) : q >= o.first /\ q < End(o) /\ ChangedRows(o)[q] = At(o, q)
    <2>1. ASSUME NEW q \in DOMAIN ChangedRows(o) PROVE q >= o.first /\ q < End(o) /\ ChangedRows(o)[q] = At(o, q)
      <3>1. o.changed # 0
        BY <2>1 DEF ChangedRows
      <3> QED
        BY <1>3, <2>1, <3>1 DEF ChangedRows, all
    <2> QED
      BY <1>3, <2>1 DEF NewRows, RangeRows, all
  <1>5. ASSUME NEW q \in Nat, NEW m, Puts(d, q, m) PROVE q >= o.first /\ q < End(o) /\ m = At(o, q)
    <2>1. d.pc = "meta" /\ d.kind = k /\ d.col = o.first
      BY DEF Snapped
    <2>2. CASE k = "full"
      <3>1. d.put = RowsFrom(0, o.msgs)
        BY <2>2 DEF Snapped
      <3>2. q - o.first \in DOMAIN d.put /\ m = d.put[q - o.first]
        BY <1>5, <2>1, <2>2 DEF Puts
      <3>3. q - o.first \in 0 .. Len(o.msgs) - 1
        BY <1>0, <3>1, <3>2, DenseRows
      <3>4. d.put[q - o.first] = o.msgs[q - o.first + 1]
        BY <1>0, <3>1, <3>3 DEF RowsFrom
      <3>5. q >= o.first /\ q < End(o)
        <4>1. \A a, b, l \in Nat : a - b \in 0 .. l - 1 => a >= b /\ a < b + l
          OBVIOUS
        <4> QED
          BY <1>0, <3>3, <4>1
      <3> QED
        BY <3>2, <3>4, <3>5 DEF At
    <2>3. CASE k = "incremental"
      <3>1. d.put = NewRows(o) /\ d.update = ChangedRows(o)
        BY <2>3 DEF Snapped
      <3> QED
        BY <1>4, <1>5, <2>1, <2>3, <3>1 DEF Puts
    <2>4. CASE k = "range"
      <3>1. d.update = RangeRows(o)
        BY <2>4 DEF Snapped
      <3> QED
        BY <1>4, <1>5, <2>1, <2>4, <3>1 DEF Puts
    <2> QED
      BY <1>5, <2>1, <2>2, <2>3, <2>4 DEF Puts
  <1>6. Agrees(d, o)
    BY <1>5 DEF Agrees, Fits, Upward
  <1>7. Under(d, o.first, f)
    BY <1>0, <1>5 DEF Under
  <1>8. d.col <= o.first
    BY <1>0 DEF Snapped
  <1> QED
    BY <1>6, <1>7, <1>8 DEF Fair

\* A save takes its snapshot.
LEMMA NewClear ==
    ASSUME NEW r, NEW k, NEW o \in Object, NEW i, NEW calls, NEW t, NEW f, Clear(r, k, o, i, calls, t, f),
           NEW s \in Saver, NEW kind, NEW more, Snapped(more[s], i, o, kind), \A x \in Saver \ {s} : more[x] = calls[x]
    PROVE  Clear(r, k, o, i, more, t, f)
  <1>1. more[s].pc = "meta" /\ Fair(more[s], o, f)
    BY SnappedFair DEF Snapped
  <1>2. \A x \in Saver : Alike(calls[x], calls[x])
    BY DEF Alike
  <1> QED
    BY <1>1, <1>2, ClearBy

\* A save not mutated since its snapshot writes what the object holds.
LEMMA ExactPuts ==
    ASSUME NEW o, NEW c, InFlight(c), Exact(c, o), Shaped(c), o.msgs \in Seq(Message), o.first \in Nat,
           NEW q \in Upward(o), NEW m, Puts(c, q, m)
    PROVE  q < End(o) /\ m = At(o, q)
  <1>1. q \in Nat /\ q >= o.first /\ Len(o.msgs) \in Nat
    BY DEF Upward
  <1>2. CASE c.kind = "full" /\ c.pc = "meta"
    <2>1. c.col = o.first /\ c.put = RowsFrom(0, o.msgs)
      BY <1>2 DEF Exact
    <2>2. q - o.first \in DOMAIN c.put /\ m = c.put[q - o.first]
      BY <1>2, <2>1 DEF Puts
    <2>3. q - o.first \in 0 .. Len(o.msgs) - 1
      BY <2>1, <2>2, DenseRows
    <2>4. c.put[q - o.first] = o.msgs[q - o.first + 1]
      BY <2>1, <2>3 DEF RowsFrom
    <2> QED
      BY <1>1, <2>2, <2>3, <2>4 DEF At, End
  <1>3. CASE c.kind = "full" /\ c.pc = "rows"
    <2>1. q \in DOMAIN c.put /\ m = c.put[q] /\ Same(c.put, o, q)
      BY <1>3 DEF Exact, Puts
    <2> QED
      BY <2>1 DEF Same
  <1>4. CASE c.kind \in {"incremental", "range"}
    <2>1. c.pc # "back"
      BY <1>4 DEF Puts, InFlight
    <2>2. /\ c.kind = "incremental" => Carried(o, c.put) /\ Carried(o, c.update)
          /\ c.kind = "range" => Carried(o, c.update)
      BY <2>1 DEF Exact
    <2> QED
      BY <1>4, <2>2 DEF Puts, Carried, Holds
  <1> QED
    BY <1>2, <1>3, <1>4 DEF Puts

\* A save settles: the flags own up to the same wrong rows, or to no less than the
\* saves in flight will leave.
LEMMA ForgivenClear ==
    ASSUME NEW r, NEW k, NEW o, NEW p, NEW i, NEW calls, NEW t, NEW f, Clear(r, k, o, i, calls, t, f),
           p.first = o.first, p.msgs = o.msgs,
           NEW more, \A x \in Saver : On(more[x], i) => On(calls[x], i) /\ more[x] = calls[x] /\ Agrees(calls[x], p),
           ~t => \A q \in Upward(o) : Wrong(r, o, q) =>
                    (Stale(o, q) => Stale(p, q)) /\ \A c : Leaves(c, o, q) => Leaves(c, p, q)
    PROVE  Clear(r, k, p, i, more, t, f)
  <1>1. Upward(p) = Upward(o) /\ End(p) = End(o) /\ \A q : At(p, q) = At(o, q)
    BY DEF Upward, End, At
  <1>2. \A q : Wrong(r, p, q) <=> Wrong(r, o, q)
    BY <1>1 DEF Wrong
  <1>3. ASSUME ~t PROVE RowsFit(r, p)
    <2>1. ASSUME NEW q \in Upward(o), q \in DOMAIN r PROVE Fits(p, q, r[q])
      <3>1. Fits(o, q, r[q])
        BY <1>3, <2>1 DEF Clear, RowsFit
      <3>2. Wrong(r, o, q) => (Stale(o, q) => Stale(p, q))
        BY <1>3
      <3> QED
        BY <1>1, <2>1, <3>1, <3>2 DEF Fits, Wrong
    <2> QED
      BY <1>1, <2>1 DEF RowsFit
  <1>4. ASSUME NEW x \in Saver, On(more[x], i) PROVE Fair(more[x], p, f) /\ (t \/ Finished(r, more[x], p))
    <2>1. Fair(calls[x], o, f) /\ (t \/ Finished(r, calls[x], o)) /\ more[x] = calls[x] /\ Agrees(calls[x], p)
      BY <1>4 DEF Clear
    <2>2. Fair(more[x], p, f)
      BY <2>1 DEF Fair
    <2>3. ASSUME ~t PROVE Finished(r, more[x], p)
      <3>1. \A q \in Upward(o) : Wrong(r, o, q) => (Leaves(more[x], o, q) => Leaves(more[x], p, q))
        BY <2>3
      <3> QED
        BY <1>1, <1>2, <2>1, <2>3, <3>1 DEF Finished
    <2> QED
      BY <2>2, <2>3
  <1>5. Bounded(r, k, p.first, i, more, f)
    BY DEF Clear, Bounded
  <1> QED
    BY <1>3, <1>4, <1>5 DEF Clear

\* Nobody writes anything else where a newer save has written.
LEMMA OvertakenAgrees ==
    ASSUME NEW r, NEW o \in Object, NEW p \in Object, NEW i, NEW calls, Live(r, o, i, calls),
           p.first = o.first, p.msgs = o.msgs, NEW s \in Saver, On(calls[s], i), Newer(calls[s]),
           NEW x \in Saver, On(calls[x], i), Shaped(calls[x])
    PROVE  Agrees(calls[x], p)
  <1>1. Upward(p) = Upward(o) /\ End(p) = End(o) /\ \A q : At(p, q) = At(o, q)
    BY DEF Upward, End, At
  <1>2. o.msgs \in Seq(Message) /\ o.first \in Nat
    BY ObjectIs
  <1>3. CASE calls[x].pc = "back"
    BY <1>3 DEF Agrees, Puts
  <1>4. CASE calls[x].moved /\ calls[x].pc # "back"
    BY <1>4 DEF Live, Overtook, Outrun, Agrees
  <1>5. CASE ~calls[x].moved
    <2>1. Exact(calls[x], o) /\ InFlight(calls[x])
      BY <1>5 DEF Live, On
    <2>2. \A q \in Upward(o) : \A m : Puts(calls[x], q, m) => q < End(o) /\ m = At(o, q)
      BY <1>2, <2>1, ExactPuts
    <2> QED
      BY <1>1, <2>2 DEF Agrees, Fits
  <1> QED
    BY <1>3, <1>4, <1>5

\* Of an object of which nothing is stale, no row is wrong and none will be written.
LEMMA UnstaleClear ==
    ASSUME NEW r, NEW k, NEW o, NEW p, NEW i, NEW calls, NEW t, NEW f, Clear(r, k, o, i, calls, t, f),
           p.first = o.first, p.msgs = o.msgs, \A q \in Upward(o) : ~Stale(o, q),
           NEW more, \A x \in Saver : On(more[x], i) => On(calls[x], i) /\ more[x] = calls[x]
    PROVE  Clear(r, k, p, i, more, t, f)
  <1>1. Upward(p) = Upward(o) /\ End(p) = End(o) /\ \A q : At(p, q) = At(o, q)
    BY DEF Upward, End, At
  <1>2. \A q \in Upward(o) : \A m : Fits(o, q, m) => Fits(p, q, m)
    BY <1>1 DEF Fits
  <1>3. \A x \in Saver : On(more[x], i) => Agrees(calls[x], p)
    BY <1>1, <1>2 DEF Clear, Fair, Agrees
  <1>4. ~t => \A q \in Upward(o) : ~Wrong(r, o, q)
    BY DEF Clear, RowsFit, Fits, Wrong
  <1> QED
    BY <1>3, <1>4, ForgivenClear

\* A save orders a full rewrite: the flags own up to everything.
LEMMA OwedClear ==
    ASSUME NEW r, NEW k, NEW o, NEW p, NEW i, NEW calls, NEW t, NEW f, Clear(r, k, o, i, calls, t, f),
           p.owed, p.first = o.first, NEW more,
           \A x \in Saver : On(more[x], i) => On(calls[x], i) /\ Likes(calls[x], more[x]) /\ more[x].owed
    PROVE  Clear(r, k, p, i, more, t, f)
  <1>1. \A q : Missing(p, q) /\ Stale(p, q)
    BY DEF Missing, Stale
  <1>2. ASSUME NEW x \in Saver, On(more[x], i)
        PROVE  On(calls[x], i) /\ Likes(calls[x], more[x]) /\ more[x].owed
    BY <1>2
  <1>3. ASSUME NEW x \in Saver, On(more[x], i) PROVE Fair(more[x], p, f) /\ Finished(r, more[x], p)
    <2>1. Fair(calls[x], o, f)
      BY <1>2, <1>3 DEF Clear
    <2>2. Fair(more[x], o, f)
      BY <1>2, <1>3, <2>1, LikesFair
    <2>3. Agrees(more[x], p)
      BY <1>1 DEF Agrees, Fits
    <2>4. \A q : Leaves(more[x], p, q)
      BY <1>1, <1>2, <1>3 DEF Leaves
    <2> QED
      BY <2>2, <2>3, <2>4 DEF Fair, Finished
  <1>4. Bounded(r, k, p.first, i, more, f)
    BY <1>2 DEF Clear, Bounded, Likes
  <1>5. RowsFit(r, p)
    BY <1>1 DEF RowsFit, Fits
  <1> QED
    BY <1>3, <1>4, <1>5 DEF Clear

\* A save that has written clears its flags; what it leaves wrong, others own up to.
LEMMA CleanClear ==
    ASSUME NEW r, NEW k, NEW o \in Object, NEW p \in Object, NEW i, NEW calls, NEW t, NEW f,
           Clear(r, k, o, i, calls, t, f), Live(r, o, i, calls), \A x \in Saver : Shaped(calls[x]),
           NEW s \in Saver, NEW more, Without(calls, more, s, i), On(calls[s], i),
           calls[s].pc = "back", ~calls[s].moved, ~calls[s].failed, calls[s].kind # "boundary",
           p.first = o.first, p.msgs = o.msgs,
           \A q \in Upward(o) : Wrong(r, o, q) /\ Leaves(calls[s], o, q) =>
              (Stale(o, q) => Stale(p, q)) /\ \A c : Leaves(c, o, q) => Leaves(c, p, q)
    PROVE  Clear(r, k, p, i, more, t, f)
  <1>1. Newer(calls[s])
    BY DEF Newer
  <1>2. ASSUME NEW x \in Saver, On(more[x], i) PROVE On(calls[x], i) /\ more[x] = calls[x] /\ Agrees(calls[x], p)
    <2>1. On(calls[x], i) /\ more[x] = calls[x]
      BY <1>2 DEF Without
    <2> QED
      BY <1>1, <2>1, OvertakenAgrees
  <1>3. ~t => \A q \in Upward(o) : Wrong(r, o, q) => Leaves(calls[s], o, q)
    BY DEF Clear, Finished
  <1> QED
    BY <1>2, <1>3, ForgivenClear

LEMMA IncrementalLeaves ==
    ASSUME NEW o \in Object, NEW p, p.first = o.first, p.msgs = o.msgs, p.cut = o.cut,
           p.from = o.from, p.to = o.to, p.owed = o.owed, p.saved = Len(o.msgs) - 1, ~p.appended, p.changed = 0,
           ~o.owed, NEW d, d.kind = "incremental", d.pc = "back", NEW q \in Upward(o), Leaves(d, o, q)
    PROVE  (Stale(o, q) => Stale(p, q)) /\ \A c : Leaves(c, o, q) => Leaves(c, p, q)
  <1>1. /\ p.first = o.first /\ p.msgs = o.msgs /\ p.cut = o.cut /\ p.from = o.from /\ p.to = o.to
        /\ p.owed = o.owed /\ p.saved = Len(o.msgs) - 1 /\ ~p.appended /\ p.changed = 0
    OBVIOUS
  <1>2. Len(o.msgs) \in Nat /\ End(o) = o.first + Len(o.msgs) /\ o.first \in Nat /\ End(o) \in Nat
    BY ObjectIs
  <1>3. End(p) = End(o) /\ (CutAt(p, q) <=> CutAt(o, q)) /\ (RangeAt(p, q) <=> RangeAt(o, q))
    BY <1>1 DEF End, CutAt, RangeAt
  <1>4. ~NewAt(p, q) /\ ~ChangedAt(p, q)
    <2>1. q \in Nat /\ q >= o.first
      BY DEF Upward
    <2>2. p.saved = -1 => End(o) = o.first
      BY <1>1, <1>2
    <2>3. End(o) = o.first => ~(q < End(o))
      BY <1>2, <2>1
    <2> QED
      BY <1>1, <1>3, <2>2, <2>3 DEF NewAt, ChangedAt
  <1>5. (NewAt(o, q) => CutAt(o, q)) /\ (ChangedAt(o, q) => CutAt(o, q))
    BY DEF Leaves
  <1>6. Missing(o, q) => Missing(p, q)
    BY <1>1, <1>3, <1>5 DEF Missing
  <1>7. Stale(o, q) => Stale(p, q)
    BY <1>3, <1>5, <1>6 DEF Stale, Missing
  <1>8. ASSUME NEW c, Leaves(c, o, q) PROVE Leaves(c, p, q)
    <2>1. ChangedAt(o, q) => Missing(p, q)
      BY <1>3, <1>5 DEF Missing
    <2> QED
      BY <1>1, <1>3, <1>4, <1>6, <1>8, <2>1 DEF Leaves
  <1> QED
    BY <1>7, <1>8

LEMMA DeleteLeaves ==
    ASSUME NEW o \in Object, NEW p, p.first = o.first, p.msgs = o.msgs, p.changed = o.changed,
           p.from = o.from, p.to = o.to, p.owed = o.owed, p.saved = Len(o.msgs) - 1, p.appended = o.appended, p.cut = -1,
           ~o.owed, o.saved >= Len(o.msgs) - 1, Len(o.msgs) <= o.cut - o.first,
           NEW d, d.kind = "delete", d.pc = "back", NEW q \in Upward(o), Leaves(d, o, q)
    PROVE  (Stale(o, q) => Stale(p, q)) /\ \A c : Leaves(c, o, q) => Leaves(c, p, q)
  <1>1. /\ p.first = o.first /\ p.msgs = o.msgs /\ p.changed = o.changed /\ p.from = o.from /\ p.to = o.to
        /\ p.owed = o.owed /\ p.saved = Len(o.msgs) - 1 /\ p.appended = o.appended /\ p.cut = -1
    OBVIOUS
  <1>2. /\ Len(o.msgs) \in Nat /\ End(o) = o.first + Len(o.msgs) /\ o.first \in Nat /\ End(o) \in Nat
        /\ o.saved \in Int /\ o.cut \in Int
    BY ObjectIs
  <1>3. End(p) = End(o) /\ (ChangedAt(p, q) <=> ChangedAt(o, q)) /\ (RangeAt(p, q) <=> RangeAt(o, q))
    BY <1>1 DEF End, ChangedAt, RangeAt
  <1>4. q \in Nat /\ q >= o.first
    BY DEF Upward
  <1>5. ~NewAt(o, q) /\ ~NewAt(p, q)
    <2>1. o.saved = -1 \/ p.saved = -1 => End(o) = o.first
      BY <1>1, <1>2
    <2>2. End(o) = o.first => ~(q < End(o))
      BY <1>2, <1>4
    <2>3. q < End(o) => ~(q > o.first + o.saved) /\ ~(q > o.first + (Len(o.msgs) - 1))
      <3>1. \A a, l, x \in Nat : \A z \in Int : x < a + l /\ z >= l - 1 => ~(x > a + z) /\ ~(x > a + (l - 1))
        OBVIOUS
      <3> QED
        BY <1>2, <1>4, <3>1
    <2> QED
      BY <1>1, <1>3, <2>1, <2>2, <2>3 DEF NewAt
  <1>6. ~CutAt(o, q) /\ ~CutAt(p, q)
    <2>1. CutAt(o, q) => q < End(o)
      BY DEF Leaves
    <2>2. q >= o.cut => ~(q < End(o))
      BY <1>2, <1>4
    <2> QED
      BY <1>1, <2>1, <2>2 DEF CutAt
  <1>7. ~Missing(o, q) /\ ~Missing(p, q)
    BY <1>1, <1>5, <1>6 DEF Missing
  <1> QED
    BY <1>1, <1>3, <1>5, <1>6, <1>7 DEF Leaves, Stale

LEMMA RangeLeaves ==
    ASSUME NEW o \in Object, NEW p, p.first = o.first, p.msgs = o.msgs, p.changed = o.changed,
           p.from = 0, p.to = 0, p.owed = o.owed, p.saved = o.saved, p.appended = o.appended, p.cut = o.cut,
           NEW d, d.kind = "range", d.pc = "back", NEW q \in Upward(o), Leaves(d, o, q)
    PROVE  (Stale(o, q) => Stale(p, q)) /\ \A c : Leaves(c, o, q) => Leaves(c, p, q)
  <1>1. /\ p.first = o.first /\ p.msgs = o.msgs /\ p.changed = o.changed /\ p.from = 0 /\ p.to = 0
        /\ p.owed = o.owed /\ p.saved = o.saved /\ p.appended = o.appended /\ p.cut = o.cut
    OBVIOUS
  <1>2. o.first \in Nat /\ q \in Nat /\ q >= o.first
    BY ObjectIs DEF Upward
  <1>3. /\ End(p) = End(o) /\ (CutAt(p, q) <=> CutAt(o, q))
        /\ (NewAt(p, q) <=> NewAt(o, q)) /\ (ChangedAt(p, q) <=> ChangedAt(o, q))
    BY <1>1 DEF CutAt, NewAt, ChangedAt, End
  <1>4. ~RangeAt(p, q)
    BY <1>1, <1>2 DEF RangeAt
  <1>5. Missing(p, q) <=> Missing(o, q)
    BY <1>1, <1>3 DEF Missing
  <1>6. RangeAt(o, q) => Missing(o, q) \/ ChangedAt(o, q)
    BY DEF Leaves
  <1> QED
    BY <1>1, <1>3, <1>4, <1>5, <1>6 DEF Leaves, Stale

-----------------------------------------------------------------------------
(* Rows, loads and shapes of the calls.                                    *)

Kept(c, d) == /\ d.pc = c.pc /\ d.kind = c.kind /\ d.put = c.put /\ d.target = c.target
              /\ d.failed = c.failed
              /\ c.pc = "loading" /\ c.touched => d.touched
Fresher(c, d) == /\ d.pc \in {"idle", "meta", "back"} /\ Shaped(d)
                 /\ d.target \in {0, live, c.target}

LEMMA CallsAre ==
    ASSUME TypeInv, NEW s \in Saver
    PROVE  /\ op[s] \in Call(edits, Len(obj)) /\ (op[s].pc # "idle" => op[s].target # 0)
           /\ InFlight(op[s]) => op[s].outer # 0 /\ op[s].kind \in Kind
  BY DEF TypeInv, CallsInv, Sane

LEMMA LoadingKept ==
    ASSUME TypeInv, Loading, rows' = rows \/ live' # 0, live' \in {live, 0},
           \A x \in Saver : Kept(op[x], op'[x]) \/ Fresher(op[x], op'[x]),
           \A x \in Saver : op[x].pc = "loading" => obj'[op[x].target] = obj[op[x].target]
    PROVE  Loading'
  <1> SUFFICES ASSUME NEW s \in Saver, op'[s].pc = "loading"
               PROVE  /\ op'[s].target # live'
                      /\ \A x \in Saver : x # s => op'[x].target # op'[s].target
                      /\ ~op'[s].touched => live' = 0 /\ Reloaded(rows', obj'[op'[s].target])
    BY DEF Loading
  <1>1. Kept(op[s], op'[s])
    BY DEF Fresher
  <1>2. op[s].pc = "loading" /\ op'[s].target = op[s].target /\ op[s].target # 0
    BY <1>1, CallsAre DEF Kept
  <1>3. /\ op[s].target # live
        /\ \A x \in Saver : x # s => op[x].target # op[s].target
        /\ ~op[s].touched => live = 0 /\ Reloaded(rows, obj[op[s].target])
    BY <1>2 DEF Loading
  <1>4. op'[s].target # live'
    BY <1>2, <1>3
  <1>5. \A x \in Saver : x # s => op'[x].target # op'[s].target
    BY <1>2, <1>3 DEF Kept, Fresher
  <1>6. ASSUME ~op'[s].touched PROVE live' = 0 /\ Reloaded(rows', obj'[op'[s].target])
    <2>1. ~op[s].touched
      BY <1>1, <1>2, <1>6 DEF Kept
    <2>2. live = 0 /\ live' = 0
      BY <1>3, <2>1
    <2> QED
      BY <1>2, <1>3, <2>1, <2>2
  <1> QED
    BY <1>4, <1>5, <1>6

LEMMA ShapesKept ==
    ASSUME Shapes, \A x \in Saver : Kept(op[x], op'[x]) \/ Fresher(op[x], op'[x])
    PROVE  Shapes'
  <1>1. ASSUME NEW x \in Saver PROVE Shaped(op'[x])
    BY DEF Shapes, Kept, Fresher, Shaped
  <1> QED
    BY <1>1 DEF Shapes

\* Steps that write no rows.
LEMMA RestKept ==
    ASSUME TypeInv, Disk, Shapes, Loading, UNCHANGED <<rows, column, torn>>,
           live' \in {live, 0}, live' = 0 => live = 0 \/ ~torn,
           \A x \in Saver : Kept(op[x], op'[x]) \/ Fresher(op[x], op'[x]),
           \A x \in Saver : op[x].pc = "loading" => obj'[op[x].target] = obj[op[x].target]
    PROVE  Disk' /\ Shapes' /\ Loading'
  <1>1. Disk'
    <2>1. \A x \in Saver : op[x].pc \notin {"rows", "update"} => op'[x].pc \notin {"rows", "update"}
      BY DEF Kept, Fresher
    <2> QED
      BY <2>1 DEF Disk
  <1> QED
    BY <1>1, LoadingKept, ShapesKept

\* Fewer rows to pass, or more messages in the summary.
LEMMA PassedBy ==
    ASSUME NEW r, DOMAIN r \subseteq Nat, NEW n \in Int, NEW f, Passed(r, n, f), NEW k \in Int, k <= n, NEW g, f \subseteq g
    PROVE  Passed(r, k, g)
  BY DEF Passed, Known

\* Behind the boundary there is nothing to go on with.
LEMMA ClearPassed ==
    ASSUME TypeInv, NEW o \in Object, NEW i, NEW t, Clear(rows, column, o, i, op, t, folded)
    PROVE  Passed(rows, column, folded)
  <1>1. DOMAIN rows \subseteq Nat /\ column \in Int /\ o.first \in Int
    BY RowsCounted, Numbers, ObjectIs DEF TypeInv, RowsInv
  <1>2. column <= o.first \/ Passed(rows, column, folded)
    BY DEF Clear, Bounded
  <1>3. Passed(rows, o.first, folded)
    BY DEF Clear
  <1> QED
    BY <1>1, <1>2, <1>3, PassedBy

LEMMA RecalledKept ==
    ASSUME TypeInv, Recalled, UNCHANGED <<rows, column>>, folded \subseteq folded', live' \in {live, 0},
           live' # 0 => Clear(rows, column, obj'[live], live, op', torn', folded'),
           \A x \in Saver : Kept(op[x], op'[x]) \/ Fresher(op[x], op'[x]),
           \A x \in Saver : op[x].pc = "loading" => obj'[op[x].target] = obj[op[x].target]
    PROVE  Recalled'
  <1>1. DOMAIN rows \subseteq Nat /\ column \in Int
    BY RowsCounted, Numbers DEF TypeInv, RowsInv
  <1>2. Passed(rows, column, folded) \/ live' # 0
    <2>1. CASE live = 0
      BY <2>1 DEF Recalled
    <2>2. CASE live # 0
      <3>1. obj[live] \in Object
        BY <2>2, Numbers DEF Inside
      <3>2. Clear(rows, column, obj[live], live, op, torn, folded)
        BY <2>2 DEF Recalled
      <3> QED
        BY <3>1, <3>2, ClearPassed
    <2> QED
      BY <2>1, <2>2
  <1>3. live' = 0 => Passed(rows', column', folded')
    BY <1>1, <1>2, PassedBy
  <1>4. live' # 0 => Clear(rows', column', obj'[live'], live', op', torn', folded')
    OBVIOUS
  <1>5. ASSUME NEW s \in Saver, op'[s].pc = "loading", ~op'[s].touched PROVE Passed(rows', obj'[op'[s].target].first, folded')
    <2>1. Kept(op[s], op'[s])
      BY <1>5 DEF Fresher
    <2>2. op[s].pc = "loading" /\ op'[s].target = op[s].target /\ ~op[s].touched
      BY <1>5, <2>1 DEF Kept
    <2>3. op[s].target \in 1 .. Len(obj)
      BY <2>2, CallsAre, Numbers DEF Call
    <2>4. obj[op[s].target] \in Object /\ obj'[op'[s].target] = obj[op[s].target]
      BY <2>2, <2>3, Numbers
    <2>5. obj[op[s].target].first \in Int
      BY <2>4, ObjectIs
    <2>6. Passed(rows, obj[op[s].target].first, folded)
      BY <2>2 DEF Recalled
    <2> QED
      BY <1>1, <2>4, <2>5, <2>6, PassedBy
  <1> QED
    BY <1>3, <1>4, <1>5 DEF Recalled


LEMMA TouchedKept ==
    ASSUME NEW n, NEW k, NEW calls, \A s \in Saver : calls[s] \in Call(n, k)
    PROVE  \A s \in Saver : Kept(calls[s], Touched(calls)[s])
  <1>1. ASSUME NEW s \in Saver, NEW b, b = (calls[s].pc = "loading" \/ calls[s].why = "evict")
        PROVE  Kept(calls[s], [calls[s] EXCEPT !.touched = b])
    BY <1>1 DEF Kept, Call
  <1> QED
    BY <1>1 DEF Touched

LEMMA MovedKept ==
    ASSUME NEW n, NEW k, NEW calls, \A s \in Saver : calls[s] \in Call(n, k)
    PROVE  \A s \in Saver : Kept(calls[s], Moved(calls)[s]) /\ Moved(calls)[s] \in Call(n, k)
  <1>1. ASSUME NEW s \in Saver
        PROVE  Kept(calls[s], [calls[s] EXCEPT !.moved = TRUE]) /\ [calls[s] EXCEPT !.moved = TRUE] \in Call(n, k)
    BY <1>1 DEF Kept, Call
  <1>2. \A s \in Saver : Kept(calls[s], calls[s])
    BY DEF Kept
  <1> QED
    BY <1>1, <1>2 DEF Moved

LEMMA SnapshotSnapped ==
    ASSUME NEW n, NEW k, NEW call \in Call(n, k), NEW o, NEW kind
    PROVE  Snapped(Snapshot(call, live, o, kind), live, o, kind)
  <1> DEFINE put    == CASE kind = "full" -> RowsFrom(0, o.msgs)
                         [] kind = "incremental" -> NewRows(o)
                         [] OTHER -> <<>>
             update == CASE kind = "range" -> RangeRows(o)
                         [] kind = "incremental" -> ChangedRows(o)
                         [] OTHER -> <<>>
             d      == Snapshot(call, live, o, kind)
  <1> HIDE DEF put, update
  <1>1. d = [call EXCEPT !.pc = "meta", !.kind = kind, !.target = live, !.col = o.first,
               !.put = put, !.update = update, !.cut = o.cut,
               !.moved = FALSE, !.behind = FALSE, !.owed = FALSE, !.failed = FALSE]
    BY DEF Snapshot, put, update
  <1>2. call = [pc |-> call.pc, why |-> call.why, kind |-> call.kind, outer |-> call.outer,
                target |-> call.target, col |-> call.col, put |-> call.put, update |-> call.update,
                cut |-> call.cut, moved |-> call.moved, touched |-> call.touched,
                behind |-> call.behind, owed |-> call.owed, failed |-> call.failed]
    BY DEF Call
  <1>3. d = [pc |-> "meta", why |-> call.why, kind |-> kind, outer |-> call.outer,
             target |-> live, col |-> o.first, put |-> put, update |-> update,
             cut |-> o.cut, moved |-> FALSE, touched |-> call.touched,
             behind |-> FALSE, owed |-> FALSE, failed |-> FALSE]
    BY <1>1, <1>2
  <1> HIDE DEF d
  <1>4. /\ d.pc = "meta" /\ d.kind = kind /\ d.target = live /\ d.col = o.first /\ d.cut = o.cut /\ ~d.moved
        /\ ~d.failed /\ d.put = put /\ d.update = update
    BY <1>3
  <1>5. Snapped(d, live, o, kind)
    BY <1>4 DEF Snapped, put, update
  <1> QED
    BY <1>5 DEF d

LEMMA BeginSnapped ==
    ASSUME NEW n \in Nat, n <= MaxEvents, NEW k \in Nat, live \in 1 .. k, NEW s \in Saver,
           NEW calls, calls = [x \in Saver |-> calls[x]], NEW why, NEW o, Inside(o, n), NEW kind \in Kind,
           NEW more, more = Begin(calls, s, why, o, kind)
    PROVE  Snapped(more[s], live, o, kind) /\ \A x \in Saver \ {s} : more[x] = calls[x]
  <1> DEFINE d == Snapshot(Idle, live, o, kind)
             e == [d EXCEPT !.why = why, !.outer = live]
  <1>1. Idle \in Call(n, k)
    <2>1. <<>> \in Rows(n)
      BY NoRows
    <2> QED
      BY <2>1 DEF Idle, Call, Phase, Kind, Index
  <1>2. Snapped(d, live, o, kind) /\ d \in Call(n, k)
    BY <1>1, SnapshotSnapped, SnapshotIs
  <1>3. more = [calls EXCEPT ![s] = e]
    BY DEF Begin
  <1> HIDE DEF d
  <1>4. /\ e.pc = d.pc /\ e.kind = d.kind /\ e.target = d.target /\ e.col = d.col /\ e.cut = d.cut
        /\ e.moved = d.moved /\ e.failed = d.failed /\ e.put = d.put /\ e.update = d.update
    BY <1>2 DEF Call
  <1>5. Snapped(e, live, o, kind)
    BY <1>2, <1>4 DEF Snapped
  <1> QED
    BY <1>3, <1>5

\* What is taken along has the shape it should have, and the object stays true.
LEMMA SnappedShaped ==
    ASSUME NEW d, NEW i, NEW o, o.msgs \in Seq(Message), NEW k, Snapped(d, i, o, k)
    PROVE  Shaped(d)
  BY DenseRows DEF Snapped, Shaped

\* The flags of the live object when a save of it settles.
LEMMA SettledLive ==
    ASSUME TypeInv, live # 0, Live(rows, obj[live], live, op), NEW s \in Saver, op[s].pc = "back",
           Struck(s) = {}, NEW more, ~On(more[s], live), \A x \in Saver \ {s} : more[x] = Told(op, s)[x]
    PROVE  Live(rows, [obj EXCEPT ![op[s].target] = Settled(s)][live], live, more)
  <1> DEFINE c == op[s]
             o == obj[c.target]
  <1>1. /\ c \in Call(edits, Len(obj)) /\ c.target # 0 /\ c.kind \in Kind /\ edits \in Nat
        /\ Len(obj) \in Nat /\ obj \in Seq(Object) /\ live \in 1 .. Len(obj)
    BY CallsAre, Numbers DEF InFlight
  <1>2. \A x \in Saver : op[x] \in Call(edits, Len(obj))
    BY CallsAre
  <1>3. ~Failed(s) /\ ~c.moved => ~Skipped(s, o) /\ ~Swallowed(s, o)
    BY DEF Struck, Hazard
  <1>4. CASE c.target # live
    <2>1. [obj EXCEPT ![c.target] = Settled(s)][live] = obj[live]
      BY <1>1, <1>4
    <2>2. ~On(c, live)
      BY <1>4 DEF On
    <2>3. ASSUME NEW x \in Saver \ {s}, On(op[x], live) \/ On(more[x], live) PROVE more[x] = op[x]
      <3>1. more[x] = op[x] \/ (op[x].target = c.target /\ more[x] = [op[x] EXCEPT !.owed = TRUE])
        BY <1>1 DEF Told
      <3>2. op[x].target = c.target => more[x].target = op[x].target
        BY <1>2, <3>1 DEF Call
      <3> QED
        BY <1>4, <2>3, <3>1, <3>2 DEF On
    <2>4. Live(rows, obj[live], live, more)
      <3>1. \A x \in Saver : On(more[x], live) => x # s /\ On(op[x], live) /\ more[x] = op[x]
        BY <2>3
      <3>2. \A x \in Saver : On(op[x], live) => x # s /\ On(more[x], live) /\ more[x] = op[x]
        BY <2>2, <2>3
      <3>3. Loose(op, obj[live], live) => Loose(more, obj[live], live)
        BY <3>2 DEF Loose
      <3>4. Compacts(op, live) => Compacts(more, live)
        BY <3>2 DEF Compacts
      <3>5. Overtook(op, live) => Overtook(more, live)
        BY <3>1 DEF Overtook
      <3>6. Truth(rows, obj[live], live, op) => Truth(rows, obj[live], live, more)
        BY <3>1 DEF Truth
      <3> QED
        BY <3>1, <3>3, <3>4, <3>5, <3>6 DEF Live
    <2> QED
      BY <2>1, <2>4
  <1>5. CASE c.target = live
    <2> DEFINE p == Settled(s)
    <2>1. o = obj[live] /\ [obj EXCEPT ![c.target] = p][live] = p /\ On(c, live)
      BY <1>1, <1>5 DEF On, InFlight
    <2>2. o \in Object /\ p \in Object /\ Count(o) = Len(o.msgs)
      BY <1>1, <1>5, SettledInside, ObjectIs DEF Inside
    <2>3. CASE Failed(s) \/ (c.moved /\ c.kind = "incremental")
      <3>1. p = o
        BY <2>3 DEF Settled
      <3>2. Without(op, more, s, live)
        BY <2>3 DEF Without, Told
      <3> QED
        BY <2>1, <2>3, <3>1, <3>2, LeftLive DEF Failed
    <2>4. CASE ~Failed(s) /\ c.moved /\ c.kind # "incremental"
      <3>1. p = Owed(o)
        BY <2>4 DEF Settled
      <3>2. p.owed /\ p.saved = -1 /\ p.first = o.first /\ p.msgs = o.msgs /\ p.cut = o.cut
            /\ p.from = o.from /\ p.to = o.to
        BY <2>2, <3>1 DEF Owed, Object
      <3>3. ASSUME NEW x \in Saver \ {s}, On(more[x], live)
            PROVE  /\ On(op[x], live) /\ Alike([op[x] EXCEPT !.owed = TRUE], more[x])
                   /\ \E n, k : op[x] \in Call(n, k)
        <4>1. more[x] = IF op[x].target = c.target THEN [op[x] EXCEPT !.owed = TRUE] ELSE op[x]
          BY <2>4, <3>3 DEF Told
        <4>2. more[x].target = op[x].target /\ more[x].pc = op[x].pc
          BY <1>2, <4>1 DEF Call
        <4>3. more[x] = [op[x] EXCEPT !.owed = TRUE] /\ On(op[x], live)
          BY <1>5, <3>3, <4>1, <4>2 DEF On, InFlight
        <4> QED
          BY <1>2, <4>3 DEF Alike
      <3>4. Live(rows, o, live, op)
        BY <2>1
      <3> HIDE DEF p, o
      <3>5. Live(rows, p, live, more)
        BY <3>2, <3>3, <3>4, OwedLive
      <3> QED
        BY <2>1, <3>5 DEF p, o
    <2>5. CASE ~Failed(s) /\ ~c.moved
      <3>1. p = SettledClean(s, o) /\ ~Skipped(s, o) /\ ~Swallowed(s, o)
        BY <1>3, <2>5 DEF Settled
      <3>2. Without(op, more, s, live)
        BY <2>5 DEF Without, Told
      <3>3. c.kind # "boundary" => ~c.failed
        BY <2>5 DEF Failed
      <3>4. Live(rows, o, live, op)
        BY <2>1
      <3>5. CASE c.kind = "incremental"
        <4>1. p = [o EXCEPT !.saved = Len(o.msgs) - 1, !.appended = FALSE, !.changed = 0]
          BY <2>2, <3>1, <3>5 DEF SettledClean
        <4>2. ~o.owed
          BY <3>1, <3>5 DEF Swallowed
        <4> HIDE DEF p, o
        <4>3. Live(rows, p, live, more)
          BY <2>1, <2>2, <2>5, <3>2, <3>3, <3>4, <3>5, <4>1, <4>2, IncrementalSettled
        <4> QED
          BY <2>1, <4>3 DEF p, o
      <3>6. CASE c.kind = "delete"
        <4>1. p = [o EXCEPT !.saved = Len(o.msgs) - 1, !.cut = -1]
          BY <2>2, <3>1, <3>6 DEF SettledClean
        <4>2. ~o.owed /\ o.saved >= Len(o.msgs) - 1 /\ Len(o.msgs) <= o.cut - o.first
          <5>1. ~o.owed
            BY <3>1, <3>6 DEF Swallowed
          <5>2. ~(o.saved < Count(o) - 1) /\ ~(Count(o) > o.cut - o.first)
            BY <3>1, <3>6 DEF Skipped
          <5>3. o.saved \in Int /\ Len(o.msgs) \in Nat /\ o.cut \in Int /\ o.first \in Nat
            BY <2>2, ObjectIs
          <5> HIDE DEF o
          <5> QED
            BY <2>2, <5>1, <5>2, <5>3
        <4> HIDE DEF p, o
        <4>3. Live(rows, p, live, more)
          BY <2>1, <2>2, <2>5, <3>2, <3>3, <3>4, <3>6, <4>1, <4>2, DeleteSettled
        <4> QED
          BY <2>1, <4>3 DEF p, o
      <3>7. CASE c.kind = "full"
        <4>1. p = [Cleaned(o) EXCEPT !.first = c.col]
          BY <1>5, <3>1, <3>7 DEF SettledClean
        <4>2. ~c.owed
          BY <3>1, <3>7 DEF Swallowed
        <4> HIDE DEF p, o
        <4>3. Live(rows, p, live, more)
          BY <2>1, <2>2, <2>5, <3>2, <3>3, <3>4, <3>7, <4>1, <4>2, FullSettled
        <4> QED
          BY <2>1, <4>3 DEF p, o
      <3>8. CASE c.kind = "range"
        <4>1. p = [o EXCEPT !.from = 0, !.to = 0]
          BY <1>5, <3>1, <3>8 DEF SettledClean
        <4> HIDE DEF p, o
        <4>2. Live(rows, p, live, more)
          BY <2>1, <2>2, <2>5, <3>2, <3>3, <3>4, <3>8, <4>1, RangeSettled
        <4> QED
          BY <2>1, <4>2 DEF p, o
      <3>9. CASE c.kind = "boundary"
        <4>1. p = Cleaned(o)
          BY <1>5, <3>1, <3>9 DEF SettledClean
        <4>2. ~o.owed
          BY <3>1, <3>9 DEF Swallowed
        <4> HIDE DEF p, o
        <4>3. Live(rows, p, live, more)
          BY <1>1, <1>2, <2>1, <2>2, <2>5, <3>2, <3>4, <3>9, <4>1, <4>2, BoundarySettled
        <4> QED
          BY <2>1, <4>3 DEF p, o
      <3> QED
        BY <1>1, <3>5, <3>6, <3>7, <3>8, <3>9 DEF Kind
    <2> QED
      BY <2>3, <2>4, <2>5
  <1> QED
    BY <1>4, <1>5

\* The object, its rows and its calls when a save of it settles.
LEMMA SettledClear ==
    ASSUME TypeInv, Shapes, live # 0, Live(rows, obj[live], live, op),
           Clear(rows, column, obj[live], live, op, torn, folded), NEW s \in Saver, op[s].pc = "back",
           Struck(s) = {}, NEW more, ~On(more[s], live), \A x \in Saver \ {s} : more[x] = Told(op, s)[x]
    PROVE  Clear(rows, column, [obj EXCEPT ![op[s].target] = Settled(s)][live], live, more, torn, folded)
  <1> DEFINE c == op[s]
             o == obj[c.target]
             p == Settled(s)
  <1>0. c.pc = "back"
    OBVIOUS
  <1>1. /\ c \in Call(edits, Len(obj)) /\ c.target # 0 /\ c.kind \in Kind /\ edits \in Nat
        /\ Len(obj) \in Nat /\ obj \in Seq(Object) /\ live \in 1 .. Len(obj)
    BY CallsAre, Numbers DEF InFlight
  <1>2. \A x \in Saver : op[x] \in Call(edits, Len(obj))
    BY CallsAre
  <1>3. ~Failed(s) /\ ~c.moved => ~Skipped(s, o) /\ ~Swallowed(s, o)
    BY DEF Struck, Hazard
  <1>4. \A x \in Saver : Alike(op[x], op[x])
    BY DEF Alike
  <1>5. CASE c.target # live
    <2>1. [obj EXCEPT ![c.target] = p][live] = obj[live]
      BY <1>1, <1>5
    <2>2. ASSUME NEW x \in Saver, On(more[x], live) PROVE On(op[x], live) /\ more[x] = op[x]
      <3>1. more[x] = op[x] \/ (op[x].target = c.target /\ more[x] = [op[x] EXCEPT !.owed = TRUE])
        BY <1>1, <2>2 DEF Told
      <3>2. op[x].target = c.target => more[x].target = op[x].target
        BY <1>2, <3>1 DEF Call
      <3> QED
        BY <1>5, <2>2, <3>1, <3>2 DEF On
    <2> QED
      BY <1>4, <2>1, <2>2, ClearBy
  <1>6. CASE c.target = live
    <2>1. o = obj[live] /\ [obj EXCEPT ![c.target] = p][live] = p /\ On(c, live)
      BY <1>1, <1>6 DEF On, InFlight
    <2>2. o \in Object /\ p \in Object /\ Count(o) = Len(o.msgs)
      BY <1>1, <1>6, SettledInside, ObjectIs DEF Inside
    <2>3. CASE Failed(s) \/ (c.moved /\ c.kind = "incremental")
      <3>1. p = o
        BY <2>3 DEF Settled
      <3>2. \A x \in Saver : On(more[x], live) => On(op[x], live) /\ more[x] = op[x]
        BY <2>3 DEF Told
      <3> QED
        BY <1>4, <2>1, <3>1, <3>2, ClearBy
    <2>4. CASE ~Failed(s) /\ c.moved /\ c.kind # "incremental"
      <3>1. p = Owed(o)
        BY <2>4 DEF Settled
      <3>2. p.owed /\ p.first = o.first
        BY <2>2, <3>1 DEF Owed, Object
      <3>3. ASSUME NEW x \in Saver, On(more[x], live)
            PROVE  On(op[x], live) /\ Likes(op[x], more[x]) /\ more[x].owed
        <4>1. x # s
          BY <3>3
        <4>2. more[x] = IF op[x].target = c.target THEN [op[x] EXCEPT !.owed = TRUE] ELSE op[x]
          BY <2>4, <4>1 DEF Told
        <4>3. more[x].target = op[x].target /\ more[x].pc = op[x].pc
          BY <1>2, <4>2 DEF Call
        <4>4. more[x] = [op[x] EXCEPT !.owed = TRUE] /\ On(op[x], live)
          BY <1>6, <3>3, <4>2, <4>3 DEF On, InFlight
        <4> QED
          BY <1>2, <4>4 DEF Likes, Call
      <3>4. Clear(rows, column, o, live, op, torn, folded)
        BY <2>1
      <3> HIDE DEF p, o
      <3>5. Clear(rows, column, p, live, more, torn, folded)
        BY <3>2, <3>3, <3>4, OwedClear
      <3> QED
        BY <2>1, <3>5 DEF p, o
    <2>5. CASE ~Failed(s) /\ ~c.moved
      <3>1. p = SettledClean(s, o) /\ ~Skipped(s, o) /\ ~Swallowed(s, o)
        BY <1>3, <2>5 DEF Settled
      <3>2. Without(op, more, s, live)
        BY <2>5 DEF Without, Told
      <3>3. c.kind # "boundary" => ~c.failed
        BY <2>5 DEF Failed
      <3>4. /\ Live(rows, o, live, op) /\ Clear(rows, column, o, live, op, torn, folded)
            /\ \A x \in Saver : Shaped(op[x])
        BY <2>1 DEF Shapes
      <3>5. /\ o.msgs \in Seq(Message) /\ Len(o.msgs) \in Nat /\ o.saved \in Int /\ o.cut \in Int /\ o.first \in Nat
        BY <2>2, ObjectIs
      <3>6. CASE c.kind = "incremental"
        <4>1. p = [o EXCEPT !.saved = Len(o.msgs) - 1, !.appended = FALSE, !.changed = 0] /\ ~o.owed
          BY <2>2, <3>1, <3>6 DEF SettledClean, Swallowed
        <4>2. p.first = o.first /\ p.msgs = o.msgs
          BY <2>2, <4>1 DEF Object
        <4>9. /\ p.first = o.first /\ p.msgs = o.msgs /\ p.cut = o.cut /\ p.from = o.from /\ p.to = o.to
              /\ p.owed = o.owed /\ p.saved = Len(o.msgs) - 1 /\ ~p.appended /\ p.changed = 0
          BY <2>2, <4>1 DEF Object
        <4> HIDE DEF p, o
        <4>3. ASSUME NEW q \in Upward(o), Leaves(c, o, q)
              PROVE  (Stale(o, q) => Stale(p, q)) /\ \A d : Leaves(d, o, q) => Leaves(d, p, q)
          BY <1>0, <2>2, <3>6, <4>1, <4>9, <4>3, IncrementalLeaves
        <4>4. Clear(rows, column, p, live, more, torn, folded)
          BY <2>1, <2>2, <2>5, <3>2, <3>3, <3>4, <3>6, <4>2, <4>3, CleanClear
        <4> QED
          BY <2>1, <4>4 DEF p, o
      <3>7. CASE c.kind = "delete"
        <4>1. p = [o EXCEPT !.saved = Len(o.msgs) - 1, !.cut = -1]
          BY <2>2, <3>1, <3>7 DEF SettledClean
        <4>2. ~o.owed /\ o.saved >= Len(o.msgs) - 1 /\ Len(o.msgs) <= o.cut - o.first
          <5>1. ~o.owed
            BY <3>1, <3>7 DEF Swallowed
          <5>2. ~(o.saved < Count(o) - 1) /\ ~(Count(o) > o.cut - o.first)
            BY <3>1, <3>7 DEF Skipped
          <5> HIDE DEF o
          <5> QED
            BY <2>2, <3>5, <5>1, <5>2
        <4>3. p.first = o.first /\ p.msgs = o.msgs
          BY <2>2, <4>1 DEF Object
        <4>9. /\ p.first = o.first /\ p.msgs = o.msgs /\ p.changed = o.changed /\ p.from = o.from /\ p.to = o.to
              /\ p.owed = o.owed /\ p.saved = Len(o.msgs) - 1 /\ p.appended = o.appended /\ p.cut = -1
          BY <2>2, <4>1 DEF Object
        <4> HIDE DEF p, o
        <4>4. ASSUME NEW q \in Upward(o), Leaves(c, o, q)
              PROVE  (Stale(o, q) => Stale(p, q)) /\ \A d : Leaves(d, o, q) => Leaves(d, p, q)
          BY <1>0, <2>2, <3>7, <4>1, <4>9, <4>2, <4>4, DeleteLeaves
        <4>5. Clear(rows, column, p, live, more, torn, folded)
          BY <2>1, <2>2, <2>5, <3>2, <3>3, <3>4, <3>7, <4>3, <4>4, CleanClear
        <4> QED
          BY <2>1, <4>5 DEF p, o
      <3>8. CASE c.kind = "full"
        <4>1. p = [Cleaned(o) EXCEPT !.first = c.col] /\ ~c.owed
          BY <1>6, <3>1, <3>8 DEF SettledClean, Swallowed
        <4>2. c.col = o.first
          <5>1. Live(rows, o, live, op) /\ On(op[s], live) /\ ~op[s].moved
            BY <2>1, <2>5, <3>4
          <5> HIDE DEF o
          <5>2. Exact(op[s], o)
            BY <5>1 DEF Live
          <5> QED
            BY <3>8, <5>2 DEF Exact
        <4>3. p.first = o.first /\ p.msgs = o.msgs
          <5> HIDE DEF o, p
          <5>1. p.first = op[s].col /\ p.msgs = o.msgs
            BY <2>2, <4>1 DEF Object, Cleaned
          <5> QED
            BY <4>2, <5>1
        <4>4. \A q \in Upward(o) : ~Leaves(op[s], o, q)
          BY <3>8, <4>1 DEF Leaves
        <4> HIDE DEF p, o
        <4>5. Clear(rows, column, p, live, more, torn, folded)
          BY <2>1, <2>2, <2>5, <3>2, <3>3, <3>4, <3>8, <4>3, <4>4, CleanClear
        <4> QED
          BY <2>1, <4>5 DEF p, o
      <3>9. CASE c.kind = "range"
        <4>1. p = [o EXCEPT !.from = 0, !.to = 0]
          BY <1>6, <3>1, <3>9 DEF SettledClean
        <4>2. p.first = o.first /\ p.msgs = o.msgs
          BY <2>2, <4>1 DEF Object
        <4>9. /\ p.first = o.first /\ p.msgs = o.msgs /\ p.changed = o.changed /\ p.from = 0 /\ p.to = 0
              /\ p.owed = o.owed /\ p.saved = o.saved /\ p.appended = o.appended /\ p.cut = o.cut
          BY <2>2, <4>1 DEF Object
        <4> HIDE DEF p, o
        <4>3. ASSUME NEW q \in Upward(o), Leaves(c, o, q)
              PROVE  (Stale(o, q) => Stale(p, q)) /\ \A d : Leaves(d, o, q) => Leaves(d, p, q)
          BY <1>0, <2>2, <3>9, <4>1, <4>9, <4>3, RangeLeaves
        <4>4. Clear(rows, column, p, live, more, torn, folded)
          BY <2>1, <2>2, <2>5, <3>2, <3>3, <3>4, <3>9, <4>2, <4>3, CleanClear
        <4> QED
          BY <2>1, <4>4 DEF p, o
      <3>10. CASE c.kind = "boundary"
        <4>1. p = Cleaned(o) /\ ~o.owed
          BY <1>6, <3>1, <3>10 DEF SettledClean, Swallowed
        <4>2. p.first = o.first /\ p.msgs = o.msgs
          BY <2>2, <4>1 DEF Object, Cleaned
        <4>3. \A x \in Saver : On(more[x], live) => On(op[x], live) /\ more[x] = op[x]
          BY <3>2 DEF Without
        <4>4. Exact(c, o)
          BY <2>1, <2>5, <3>4 DEF Live
        <4> HIDE DEF p, o
        <4>5. \A q \in Upward(o) : ~Stale(o, q)
          BY <2>2, <3>10, <4>1, <4>4, BoundaryUnstale
        <4>6. Clear(rows, column, p, live, more, torn, folded)
          BY <3>4, <4>2, <4>3, <4>5, UnstaleClear
        <4> QED
          BY <2>1, <4>6 DEF p, o
      <3> QED
        BY <1>1, <3>6, <3>7, <3>8, <3>9, <3>10 DEF Kind
    <2> QED
      BY <2>3, <2>4, <2>5
  <1> QED
    BY <1>5, <1>6

LEMMA PendingKinds ==
    ASSUME NEW s, NEW o
    PROVE  Following(s, o) \in {"none", "full", "range", "incremental"}
  BY DEF Following, Pending

LEMMA SettleSound ==
    ASSUME TypeInv, Sound, NEW s \in Saver, Settle(s), hurt' = {}
    PROVE  Sound'
  <1> DEFINE after == [obj EXCEPT ![op[s].target] = Settled(s)]
             next  == Following(s, after[op[s].outer])
             more  == next # "none" /\ live # 0
             gone  == ~more /\ op[s].why = "evict" /\ ~op[s].touched
             used  == gone \/ (op[s].kind = "boundary" /\ ~op[s].moved /\ live = op[s].target)
             rest  == Told(op, s)
             snap  == Snapshot(rest[s], live, after[live], next)
             calls == IF more THEN [rest EXCEPT ![s] = snap] ELSE [rest EXCEPT ![s] = Idle]
  <1>1. /\ op[s].pc = "back" /\ obj' = after /\ live' = IF gone THEN 0 ELSE live
        /\ op' = IF used THEN Touched(calls) ELSE calls
        /\ hurt' = hurt \cup Struck(s) \cup (IF gone THEN Torn ELSE {})
        /\ UNCHANGED <<rows, column, edits, faults, boots, torn, folded>>
    BY DEF Settle
  <1>2. /\ edits \in Nat /\ edits <= MaxEvents /\ MaxEvents \in Nat /\ Len(obj) \in Nat /\ live \in 0 .. Len(obj)
        /\ (live # 0 => live \in 1 .. Len(obj)) /\ obj \in Seq(Object)
    BY Numbers
  <1>3. /\ op[s].target \in 1 .. Len(obj)
        /\ Inside(Settled(s), edits) /\ Settled(s).msgs = obj[op[s].target].msgs
    BY <1>1, SettledInside
  <1>4. CallsInv(op, obj, edits)
    BY DEF TypeInv
  <1>5. /\ after \in Seq(Object) /\ Len(after) = Len(obj)
        /\ \A j \in 1 .. Len(obj) : Inside(after[j], edits)
        /\ CallsInv(op, after, edits)
    BY <1>3, <1>4, SameMessages
  <1>6. /\ \A x \in Saver : rest[x] = op[x] \/ rest[x] = [op[x] EXCEPT !.owed = TRUE]
        /\ rest = [x \in Saver |-> rest[x]] /\ rest[s] = op[s]
    BY DEF Told
  <1>7. \A x \in Saver : Kept(op[x], rest[x]) /\ rest[x] \in Call(edits, Len(obj))
    <2>1. ASSUME NEW x \in Saver
          PROVE  Kept(op[x], [op[x] EXCEPT !.owed = TRUE]) /\ [op[x] EXCEPT !.owed = TRUE] \in Call(edits, Len(obj))
      <3>1. op[x] \in Call(edits, Len(obj))
        BY CallsAre
      <3> QED
        BY <3>1 DEF Kept, Call
    <2>2. \A x \in Saver : Kept(op[x], op[x]) /\ op[x] \in Call(edits, Len(obj))
      BY CallsAre DEF Kept
    <2> HIDE DEF rest
    <2>3. ASSUME NEW x \in Saver PROVE Kept(op[x], rest[x]) /\ rest[x] \in Call(edits, Len(obj))
      BY <1>6, <2>1, <2>2
    <2> QED
      BY <2>3
  <1>8. next \in {"none", "full", "range", "incremental"}
    BY PendingKinds
  <1>9. more => Snapped(snap, live, after[live], next) /\ snap \in Call(edits, Len(obj)) /\ Shaped(snap)
    <2> SUFFICES ASSUME more PROVE Snapped(snap, live, after[live], next) /\ snap \in Call(edits, Len(obj)) /\ Shaped(snap)
      OBVIOUS
    <2>1. live \in 1 .. Len(obj) /\ Inside(after[live], edits) /\ next \in Kind
      BY <1>2, <1>5, <1>8 DEF Kind
    <2> HIDE DEF after, next, rest
    <2>2. Snapped(snap, live, after[live], next)
      BY <1>7, SnapshotSnapped
    <2>3. snap \in Call(edits, Len(obj))
      BY <1>2, <1>7, <2>1, SnapshotIs
    <2>4. after[live].msgs \in Seq(Message)
      BY <1>2, <2>1, InsideIs
    <2>5. Shaped(snap)
      BY <2>2, <2>4, SnappedShaped
    <2> QED
      BY <2>2, <2>3, <2>5
  <1>10. Idle \in Call(edits, Len(obj)) /\ Shaped(Idle)
    <2>1. Sane(Idle, obj, edits)
      BY <1>2, IdleSane
    <2> QED
      BY <2>1 DEF Sane, Shaped, Idle
  <1>11. live # 0 => /\ Live(rows, after[live], live, [rest EXCEPT ![s] = Idle])
                     /\ Clear(rows, column, after[live], live, [rest EXCEPT ![s] = Idle], torn, folded)
    <2>1. ASSUME live # 0
          PROVE  /\ Live(rows, after[live], live, [rest EXCEPT ![s] = Idle])
                 /\ Clear(rows, column, after[live], live, [rest EXCEPT ![s] = Idle], torn, folded)
      <3>1. Live(rows, obj[live], live, op) /\ Struck(s) = {}
        BY <1>1, <2>1 DEF Sound
      <3>2. ~On([rest EXCEPT ![s] = Idle][s], live)
        BY <1>6 DEF On, InFlight, Idle
      <3>3. \A x \in Saver \ {s} : [rest EXCEPT ![s] = Idle][x] = Told(op, s)[x]
        BY <1>6
      <3>4. Shapes /\ Clear(rows, column, obj[live], live, op, torn, folded)
        BY <2>1 DEF Sound, Recalled
      <3> HIDE DEF rest
      <3>5. Live(rows, after[live], live, [rest EXCEPT ![s] = Idle])
        BY <1>1, <2>1, <3>1, <3>2, <3>3, SettledLive
      <3>6. Clear(rows, column, after[live], live, [rest EXCEPT ![s] = Idle], torn, folded)
        BY <1>1, <2>1, <3>1, <3>2, <3>3, <3>4, SettledClear
      <3> QED
        BY <3>5, <3>6
    <2> QED
      BY <2>1
  <1> HIDE DEF after, next, rest, snap
  <1>12. live # 0 => Live(rows, after[live], live, calls) /\ Clear(rows, column, after[live], live, calls, torn, folded)
    <2>1. CASE more
      <3> DEFINE base == [rest EXCEPT ![s] = Idle]
                 full == [rest EXCEPT ![s] = snap]
      <3>1. after[live] \in Object /\ End(after[live]) <= MaxEvents
        <4>1. Inside(after[live], edits) /\ after[live] \in Object
          BY <1>2, <1>5, <2>1 DEF Inside
        <4>2. after[live].first + Len(after[live].msgs) <= edits /\ End(after[live]) \in Nat
              /\ End(after[live]) = after[live].first + Len(after[live].msgs)
          BY <4>1, ObjectIs DEF Inside
        <4> QED
          BY <1>2, <4>1, <4>2
      <3>2. ~On(base[s], live) /\ full[s] = snap /\ \A x \in Saver \ {s} : full[x] = base[x]
        BY <1>6 DEF On, InFlight, Idle
      <3>3. next \in Kind \ {"boundary"} /\ next # "delete"
        BY <1>8, <2>1 DEF Kind
      <3>4. /\ Live(rows, after[live], live, base) /\ Clear(rows, column, after[live], live, base, torn, folded)
            /\ Snapped(full[s], live, after[live], next)
        BY <1>9, <1>11, <2>1, <3>2
      <3> HIDE DEF base, full
      <3>5. Live(rows, after[live], live, full)
        BY <3>1, <3>2, <3>3, <3>4, NewLive
      <3>6. Clear(rows, column, after[live], live, full, torn, folded)
        BY <3>1, <3>2, <3>4, NewClear
      <3> QED
        BY <2>1, <3>5, <3>6 DEF full
    <2>2. CASE ~more
      BY <1>11, <2>2
    <2> QED
      BY <2>1, <2>2
  <1>13. \A x \in Saver : /\ calls[x] \in Call(edits, Len(obj))
                          /\ x # s => Kept(op[x], calls[x])
                          /\ x = s => Fresher(op[x], calls[x])
    <2>1. CASE more
      <3>1. calls[s] = snap /\ \A x \in Saver : x # s => calls[x] = rest[x]
        BY <1>6, <2>1
      <3>2. Fresher(op[s], snap)
        BY <1>9, <2>1 DEF Fresher, Snapped
      <3> QED
        BY <1>7, <1>9, <2>1, <3>1, <3>2
    <2>2. CASE ~more
      <3>1. calls[s] = Idle /\ \A x \in Saver : x # s => calls[x] = rest[x]
        BY <1>6, <2>2
      <3>2. Fresher(op[s], Idle)
        BY <1>10 DEF Fresher, Idle
      <3> QED
        BY <1>7, <1>10, <3>1, <3>2
    <2> QED
      BY <2>1, <2>2
  <1> HIDE DEF calls
  <1>14. \A x \in Saver : /\ Alike(calls[x], op'[x]) /\ Kept(calls[x], op'[x])
    <2>1. \A x \in Saver : Alike(calls[x], calls[x]) /\ Kept(calls[x], calls[x])
      BY DEF Alike, Kept
    <2> QED
      BY <1>1, <1>13, <2>1, TouchedAlike, TouchedKept
  <1>15. \A x \in Saver : Kept(op[x], op'[x]) \/ Fresher(op[x], op'[x])
    <2>1. \A x \in Saver : x # s => Kept(op[x], op'[x])
      BY <1>13, <1>14 DEF Kept
    <2>2. Fresher(op[s], op'[s])
      BY <1>13, <1>14 DEF Kept, Fresher, Shaped
    <2> QED
      BY <2>1, <2>2
  <1>16. \A x \in Saver : op[x].pc = "loading" => obj'[op[x].target] = obj[op[x].target]
    <2>1. ASSUME NEW x \in Saver, op[x].pc = "loading" PROVE obj'[op[x].target] = obj[op[x].target]
      <3>1. op[x].target # op[s].target
        BY <1>1, <2>1 DEF Sound, Loading
      <3>2. op[x].target \in 1 .. Len(obj)
        BY <1>2, <2>1, CallsAre DEF Call
      <3> QED
        BY <1>1, <1>2, <1>3, <3>1, <3>2 DEF after
    <2> QED
      BY <2>1
  <1>17. live' \in {live, 0} /\ (live' = 0 => live = 0 \/ ~torn)
    BY <1>1 DEF Torn
  <1>18. Disk' /\ Shapes' /\ Loading'
    BY <1>1, <1>15, <1>16, <1>17, RestKept DEF Sound
  <1>19. live' # 0 => Live(rows', obj'[live'], live', op')
    <2>1. live' # 0 => live' = live /\ live # 0
      BY <1>17
    <2> QED
      BY <1>1, <1>12, <1>14, <2>1, AlikeLive
  <1>20. Recalled'
    <2>1. live # 0 => Clear(rows, column, after[live], live, op', torn, folded)
      BY <1>12, <1>14, AlikeClear
    <2>2. live' # 0 => live' = live /\ live # 0
      BY <1>17
    <2>3. live' # 0 => Clear(rows, column, obj'[live], live, op', torn', folded')
      BY <1>1, <2>1, <2>2
    <2> QED
      BY <1>1, <1>15, <1>16, <1>17, <2>3, RecalledKept DEF Sound
  <1> QED
    BY <1>18, <1>19, <1>20 DEF Sound

-----------------------------------------------------------------------------
(* Mutations.                                                              *)

\* The steps of the resident object in which a goroutine has no call.
LEMMA EditedLive ==
    ASSUME TypeInv, Sound, live # 0, NEW p, Flags(obj[live]) => Edited(obj[live], p)
    PROVE  Live(rows, p, live, Moved(op)) /\ Clear(rows, column, p, live, Moved(op), torn, folded)
  <1> DEFINE o == obj[live]
  <1>1. o \in Object
    BY Numbers DEF Inside
  <1>2. Live(rows, o, live, op)
    BY DEF Sound
  <1>3. Edited(o, p) /\ (Low(o) \/ Compacts(op, live))
    BY <1>2 DEF Live
  <1>4. /\ Mutated(o, p) \/ Compacts(op, live)
        /\ Flags(p) /\ (Low(p) \/ Compacts(op, live)) /\ p.first = o.first
    BY <1>3 DEF Edited
  <1>5. Clear(rows, column, o, live, op, torn, folded) /\ Mild(o, p)
    BY <1>3 DEF Sound, Recalled, Edited
  <1> HIDE DEF o
  <1>6. Live(rows, p, live, Moved(op))
    BY <1>1, <1>2, <1>4, MutatedLive
  <1>7. Clear(rows, column, p, live, Moved(op), torn, folded)
    BY <1>4, <1>5, EditedClear
  <1> QED
    BY <1>6, <1>7

LEMMA EditSound ==
    ASSUME TypeInv, Sound, NEW p, live # 0 /\ Flags(obj[live]) => Edited(obj[live], p), NEW calls,
           Mutate(p, calls), calls = Moved(op) \/ calls = Touched(Moved(op))
    PROVE  Sound'
  <1>1. /\ live # 0 /\ obj' = [obj EXCEPT ![live] = p] /\ op' = calls
        /\ UNCHANGED <<rows, column, live, faults, boots, torn, folded>>
    BY DEF Mutate
  <1>2. \A x \in Saver : Kept(op[x], Moved(op)[x]) /\ Moved(op)[x] \in Call(edits, Len(obj))
    BY CallsAre, MovedKept
  <1>3. \A x \in Saver : Kept(Moved(op)[x], op'[x]) /\ Alike(Moved(op)[x], op'[x])
    <2>1. \A x \in Saver : Kept(Moved(op)[x], Moved(op)[x]) /\ Alike(Moved(op)[x], Moved(op)[x])
      BY DEF Kept, Alike
    <2> QED
      BY <1>1, <1>2, <2>1, TouchedKept, TouchedAlike
  <1>4. \A x \in Saver : Kept(op[x], op'[x])
    BY <1>2, <1>3 DEF Kept
  <1>5. Live(rows, p, live, op') /\ Clear(rows, column, p, live, op', torn, folded)
    BY <1>1, <1>3, EditedLive, AlikeLive, AlikeClear
  <1>6. obj'[live] = p /\ \A x \in Saver : op[x].pc = "loading" => obj'[op[x].target] = obj[op[x].target]
    <2>1. obj'[live] = p
      BY <1>1, Numbers
    <2>2. ASSUME NEW x \in Saver, op[x].pc = "loading" PROVE obj'[op[x].target] = obj[op[x].target]
      <3>1. op[x].target # live
        BY <2>2 DEF Sound, Loading
      <3>2. op[x].target \in 1 .. Len(obj)
        BY <2>2, CallsAre, Numbers DEF Call
      <3> QED
        BY <1>1, <3>1, <3>2, Numbers
    <2> QED
      BY <2>1, <2>2
  <1>7. Disk' /\ Shapes' /\ Loading'
    BY <1>1, <1>4, <1>6, RestKept DEF Sound
  <1>8. Recalled'
    BY <1>1, <1>4, <1>5, <1>6, RecalledKept DEF Sound
  <1> QED
    BY <1>1, <1>5, <1>6, <1>7, <1>8 DEF Sound

\* A call that begins on an object as it is now.
LEMMA BeginSound ==
    ASSUME TypeInv, NEW p, NEW n \in Nat, n <= MaxEvents, Inside(p, n), live \in 1 .. Len(obj),
           NEW calls, calls = [x \in Saver |-> calls[x]],
           NEW r, Live(r, p, live, calls), NEW b, NEW t, NEW f, Clear(r, b, p, live, calls, t, f),
           NEW s \in Saver, calls[s].pc = "idle",
           NEW k \in Kind \ {"boundary"}, k = "delete" => p.cut # -1, NEW why,
           NEW more, more = Begin(calls, s, why, p, k)
    PROVE  /\ Live(r, p, live, more) /\ Clear(r, b, p, live, more, t, f)
           /\ Fresher(op[s], more[s]) /\ \A x \in Saver \ {s} : more[x] = calls[x]
  <1>1. Snapped(more[s], live, p, k) /\ \A x \in Saver \ {s} : more[x] = calls[x]
    BY BeginSnapped, Numbers
  <1>2. p \in Object /\ p.msgs \in Seq(Message)
    BY InsideIs DEF Inside
  <1>3. End(p) <= MaxEvents
    <2>1. End(p) = p.first + Len(p.msgs) /\ p.first + Len(p.msgs) <= n /\ End(p) \in Nat /\ MaxEvents \in Nat
      BY <1>2, ObjectIs, Numbers DEF Inside
    <2> QED
      BY <2>1
  <1>4. ~On(calls[s], live)
    BY DEF On, InFlight
  <1>5. Live(r, p, live, more)
    BY <1>1, <1>2, <1>3, <1>4, NewLive
  <1>6. Fresher(op[s], more[s])
    BY <1>1, <1>2, SnappedShaped DEF Fresher, Snapped
  <1>7. Clear(r, b, p, live, more, t, f)
    BY <1>1, <1>2, NewClear
  <1> QED
    BY <1>1, <1>5, <1>6, <1>7

\* A mutation that saves at once.
LEMMA SavedEditSound ==
    ASSUME TypeInv, Sound, NEW p, live # 0 /\ Flags(obj[live]) => Edited(obj[live], p),
           live # 0 /\ Events < MaxEvents => Inside(p, edits + 1),
           NEW s \in Saver, op[s].pc = "idle", NEW k \in Kind \ {"boundary"}, k = "delete" => p.cut # -1,
           Mutate(p, Begin(Touched(Moved(op)), s, "save", p, k))
    PROVE  Sound'
  <1> DEFINE calls == Touched(Moved(op))
  <1>1. /\ live # 0 /\ obj' = [obj EXCEPT ![live] = p] /\ op' = Begin(calls, s, "save", p, k) /\ Events < MaxEvents
        /\ UNCHANGED <<rows, column, live, faults, boots, torn, folded>>
    BY DEF Mutate
  <1>2. \A x \in Saver : Kept(op[x], Moved(op)[x]) /\ Moved(op)[x] \in Call(edits, Len(obj))
    BY CallsAre, MovedKept
  <1>3. \A x \in Saver : Kept(Moved(op)[x], calls[x]) /\ Alike(Moved(op)[x], calls[x])
    BY <1>2, TouchedKept, TouchedAlike
  <1>4. Live(rows, p, live, calls) /\ Clear(rows, column, p, live, calls, torn, folded)
    BY <1>1, <1>3, EditedLive, AlikeLive, AlikeClear
  <1>5. calls[s].pc = "idle" /\ calls = [x \in Saver |-> calls[x]]
    <2>1. calls[s].pc = "idle"
      BY <1>2, <1>3 DEF Kept
    <2> QED
      BY <2>1 DEF Touched
  <1>6. live \in 1 .. Len(obj) /\ edits + 1 \in Nat /\ edits + 1 <= MaxEvents /\ Inside(p, edits + 1)
    BY <1>1, Numbers DEF Stamp
  <1> HIDE DEF calls
  <1>7. /\ Live(rows, p, live, op') /\ Clear(rows, column, p, live, op', torn, folded)
        /\ Fresher(op[s], op'[s]) /\ \A x \in Saver \ {s} : op'[x] = calls[x]
    BY <1>1, <1>4, <1>5, <1>6, BeginSound
  <1>8. \A x \in Saver : Kept(op[x], op'[x]) \/ Fresher(op[x], op'[x])
    BY <1>2, <1>3, <1>7 DEF Kept
  <1>9. obj'[live] = p /\ \A x \in Saver : op[x].pc = "loading" => obj'[op[x].target] = obj[op[x].target]
    <2>1. obj'[live] = p
      BY <1>1, Numbers
    <2>2. ASSUME NEW x \in Saver, op[x].pc = "loading" PROVE obj'[op[x].target] = obj[op[x].target]
      <3>1. op[x].target # live
        BY <2>2 DEF Sound, Loading
      <3>2. op[x].target \in 1 .. Len(obj)
        BY <2>2, CallsAre, Numbers DEF Call
      <3> QED
        BY <1>1, <3>1, <3>2, Numbers
    <2> QED
      BY <2>1, <2>2
  <1>10. Disk' /\ Shapes' /\ Loading'
    BY <1>1, <1>8, <1>9, RestKept DEF Sound
  <1>11. Recalled'
    BY <1>1, <1>7, <1>8, <1>9, RecalledKept DEF Sound
  <1> QED
    BY <1>1, <1>7, <1>9, <1>10, <1>11 DEF Sound

LEMMA AddSound ==
    ASSUME TypeInv, Sound, NEW assistant \in BOOLEAN, AddFullMessage(assistant)
    PROVE  Sound'
  <1> DEFINE o    == obj[live]
             n    == Count(o)
             last == [Last(o.msgs) EXCEPT !.draft = FALSE]
             new  == IF ~HasDraft(o) THEN Appended(o, Final)
                     ELSE IF assistant THEN Changed(o, n, Rewritten(Last(o.msgs), FALSE))
                     ELSE Appended(Changed(o, n, last), Final)
  <1>1. live # 0 /\ Events < MaxEvents /\ Mutate(new, Touched(Moved(op)))
    BY DEF AddFullMessage, Mutate
  <1>2. /\ edits \in Nat /\ edits <= MaxEvents
        /\ Inside(o, edits) /\ Final \in Message
    BY <1>1, Numbers, Fresh
  <1>3. o.msgs \in Seq(Message) /\ Len(o.msgs) \in Nat /\ o \in Object
    BY <1>2, InsideIs DEF Inside
  <1>4. ASSUME Flags(o) PROVE Edited(o, new)
    <2>1. CASE ~HasDraft(o)
      <3>1. Appended(o, Final) \in Object
        BY <1>2, AppendedInside DEF Inside
      <3>2. Edited(o, Appended(o, Final))
        BY <1>3, <1>4, <3>1, AppendedMutated
      <3> QED
        BY <2>1, <3>2
    <2>2. CASE HasDraft(o)
      <3>1. n \in 1 .. Len(o.msgs) /\ Last(o.msgs) \in Message
        BY <1>3, <2>2 DEF HasDraft, Count, Last
      <3>2. Rewritten(Last(o.msgs), FALSE) \in Message /\ last \in Message
        BY <1>1, <3>1, Fresh
      <3> DEFINE one == Changed(o, n, Rewritten(Last(o.msgs), FALSE))
                 two == Changed(o, n, last)
      <3> HIDE DEF last
      <3>3. Inside(one, edits) /\ Inside(two, edits)
        BY <1>2, <3>1, <3>2, ChangedInside
      <3>4. one \in Object /\ two \in Object /\ Appended(two, Final) \in Object
        BY <1>2, <3>3, AppendedInside DEF Inside
      <3>5. Edited(o, one) /\ Edited(o, two)
        BY <1>3, <1>4, <3>1, <3>4, ChangedMutated
      <3>6. Flags(two)
        BY <3>5 DEF Edited
      <3> HIDE DEF two
      <3>7. Edited(two, Appended(two, Final))
        BY <3>4, <3>6, AppendedMutated
      <3>8. Edited(o, Appended(two, Final))
        BY <3>5, <3>7, EditedTwice
      <3> QED
        BY <2>2, <3>5, <3>8 DEF two
    <2> QED
      BY <2>1, <2>2
  <1> HIDE DEF new
  <1> QED
    BY <1>1, <1>4, EditSound

LEMMA ChunkEdited ==
    ASSUME TypeInv, live # 0, Events < MaxEvents, Flags(obj[live])
    PROVE  Edited(obj[live], WithChunk(obj[live]))
  <1> DEFINE o == obj[live]
  <1>2. /\ edits \in Nat /\ edits + 1 \in Nat /\ edits + 1 <= MaxEvents
        /\ edits <= MaxEvents /\ Inside(o, edits) /\ Draft \in Message
    BY Numbers, Fresh DEF Stamp
  <1>3. o.msgs \in Seq(Message) /\ Len(o.msgs) \in Nat /\ o \in Object
    BY <1>2, InsideIs DEF Inside
  <1>4. CASE HasDraft(o)
    <2>1. Count(o) \in 1 .. Len(o.msgs) /\ Last(o.msgs) \in Message
      BY <1>3, <1>4 DEF HasDraft, Count, Last
    <2>2. Rewritten(Last(o.msgs), TRUE) \in Message
      BY <2>1, Fresh
    <2>3. Changed(o, Count(o), Rewritten(Last(o.msgs), TRUE)) \in Object
      BY <1>2, <2>1, <2>2, ChangedInside DEF Inside
    <2>4. Edited(o, Changed(o, Count(o), Rewritten(Last(o.msgs), TRUE)))
      BY <1>3, <2>1, <2>3, ChangedMutated
    <2> QED
      BY <1>4, <2>4 DEF WithChunk
  <1>5. CASE ~HasDraft(o)
    <2> DEFINE one == Appended(o, Draft)
    <2>1. /\ Inside(one, edits + 1)
          /\ Count(o) + 1 \in 1 .. Len(one.msgs)
      BY <1>2, <1>3, AppendedInside DEF Count
    <2>2. one \in Object /\ Changed(one, Count(o) + 1, Draft) \in Object
      BY <1>2, <2>1, ChangedInside DEF Inside
    <2>3. Edited(o, one)
      BY <1>3, <2>2, AppendedMutated
    <2>4. Flags(one)
      BY <2>3 DEF Edited
    <2> HIDE DEF one
    <2>5. Edited(one, Changed(one, Count(o) + 1, Draft))
      BY <2>1, <2>2, <2>4, ChangedMutated
    <2>6. Edited(o, Changed(one, Count(o) + 1, Draft))
      BY <2>3, <2>5, EditedTwice
    <2> QED
      BY <1>5, <2>6 DEF WithChunk, one
  <1> QED
    BY <1>4, <1>5

LEMMA ChunkSound ==
    ASSUME TypeInv, Sound, AppendChunk \/ \E s \in Saver : AppendFlush(s)
    PROVE  Sound'
  <1>1. CASE AppendChunk
    <2>1. Mutate(WithChunk(obj[live]), Touched(Moved(op))) /\ live # 0 /\ Events < MaxEvents
      BY <1>1 DEF AppendChunk, Mutate
    <2> QED
      BY <2>1, ChunkEdited, EditSound
  <1>2. ASSUME NEW s \in Saver, AppendFlush(s) PROVE Sound'
    <2> DEFINE p == WithChunk(obj[live])
    <2>1. /\ Mutate(p, Begin(Touched(Moved(op)), s, "save", p, "incremental"))
          /\ live # 0 /\ Events < MaxEvents /\ op[s].pc = "idle"
      BY <1>2 DEF AppendFlush, Mutate
    <2>2. Inside(p, edits + 1) /\ (Flags(obj[live]) => Edited(obj[live], p))
      BY <2>1, ChunkInside, ChunkEdited
    <2>3. "incremental" \in Kind \ {"boundary"} /\ "incremental" # "delete"
      BY DEF Kind
    <2> HIDE DEF p
    <2> QED
      BY <2>1, <2>2, <2>3, SavedEditSound
  <1> QED
    BY <1>1, <1>2

LEMMA AttachSound ==
    ASSUME TypeInv, Sound, NEW s \in Saver, NEW i, AttachFiles(s, i)
    PROVE  Sound'
  <1> DEFINE m == obj[live].msgs[i]
             o == Changed(obj[live], i, Rewritten(m, m.draft))
  <1>1. /\ live # 0 /\ i \in 1 .. Len(obj[live].msgs) /\ Events < MaxEvents /\ op[s].pc = "idle"
        /\ Mutate(o, Begin(Touched(Moved(op)), s, "save", o, Due(o)))
    BY DEF AttachFiles, Mutate, Count
  <1>2. /\ edits \in Nat /\ edits + 1 \in Nat /\ edits <= edits + 1 /\ edits <= MaxEvents
        /\ Inside(obj[live], edits) /\ obj[live] \in Object
    BY <1>1, Numbers DEF Inside
  <1>3. m \in Message /\ m.draft \in BOOLEAN
    <2>1. obj[live].msgs \in Seq(Message)
      BY <1>2, InsideIs
    <2>2. m \in Message
      BY <1>1, <2>1
    <2> QED
      BY <2>2 DEF Message
  <1>4. Rewritten(m, m.draft) \in Message
    BY <1>1, <1>3, Fresh
  <1> HIDE DEF m
  <1>5. Inside(o, edits) /\ Inside(o, edits + 1) /\ HasNew(o)
    BY <1>1, <1>2, <1>4, ChangedInside, InsideGrows DEF HasNew
  <1>6. Due(o) \in Kind \ {"boundary"} /\ (Due(o) = "delete" => o.cut # -1)
    BY <1>5 DEF Due, Pending, Kind
  <1>7. Flags(obj[live]) => Edited(obj[live], o)
    <2>1. o \in Object
      BY <1>5 DEF Inside
    <2> QED
      BY <1>1, <1>2, <2>1, ChangedMutated
  <1> HIDE DEF o
  <1> QED
    BY <1>1, <1>5, <1>6, <1>7, SavedEditSound

LEMMA RemoveSound ==
    ASSUME TypeInv, Sound, RemoveLast, hurt' = {}
    PROVE  Sound'
  <1> DEFINE o == obj[live]
             n == Count(o) - 1
             b == IF o.boundary > n THEN 0 ELSE o.boundary
             new == [o EXCEPT !.msgs = Front(o.msgs), !.cut = o.first + n, !.boundary = b]
  <1>1. /\ live # 0 /\ Events < MaxEvents /\ o.msgs # <<>>
        /\ o.saved = -1 \/ o.cut = -1 \/ ~(o.cut < o.first + n)
        /\ Mutate(new, Touched(Moved(op)))
    BY DEF RemoveLast, Mutate
  <1>2. /\ edits \in Nat /\ edits + 1 \in Nat /\ edits <= MaxEvents /\ MaxEvents \in Nat
        /\ Inside(o, edits)
    BY <1>1, Numbers
  <1>3. /\ o.msgs \in Seq(Message) /\ Len(o.msgs) \in 0 .. edits /\ o.first \in 0 .. edits
        /\ o.first + Len(o.msgs) <= edits /\ o \in Object
    BY <1>2, InsideIs DEF Inside
  <1>4. Front(o.msgs) \in Seq(Message) /\ Len(Front(o.msgs)) = n /\ n \in Nat /\ Len(o.msgs) > 0
        /\ n = Len(o.msgs) - 1
    BY <1>1, <1>3 DEF Front, Count
  <1>5. o.first + n \in Index /\ b \in Index
    <2>1. o.boundary \in Index
      BY <1>3 DEF Object
    <2> HIDE DEF n
    <2>3. o.first + n \in Index
      <3>1. \A l \in 0 .. edits, f \in 0 .. edits :
                f + l <= edits /\ l - 1 \in Nat => f + (l - 1) \in 0 .. MaxEvents
        BY <1>2
      <3> QED
        BY <1>3, <1>4, <3>1, Zenon DEF Index
    <2> QED
      BY <1>2, <2>1, <2>3 DEF Index
  <1>6. new \in Object
    <2> HIDE DEF b
    <2> QED
      BY <1>3, <1>4, <1>5 DEF Object
  <1>7. o.saved = -1 \/ o.cut = -1 \/ o.cut >= o.first + Len(o.msgs) - 1
    <2>1. o.cut \in Int /\ o.first \in Nat /\ Len(o.msgs) \in Nat
      BY <1>3, ObjectIs
    <2> QED
      BY <1>1, <1>4, <2>1
  <1>8. new = [o EXCEPT !.msgs = Front(@), !.cut = o.first + Len(o.msgs) - 1,
                        !.boundary = IF @ > Len(o.msgs) - 1 THEN 0 ELSE @]
    <2>1. o.first + n = o.first + Len(o.msgs) - 1 /\ n = Len(o.msgs) - 1
      BY <1>3, <1>4
    <2> QED
      BY <2>1
  <1> HIDE DEF new
  <1>9. Flags(o) => Edited(o, new)
    BY <1>3, <1>4, <1>6, <1>7, <1>8, RemovedMutated
  <1> QED
    BY <1>1, <1>9, EditSound

LEMMA RewrittenSound ==
    ASSUME TypeInv, Sound, (\E keep \in {0, 1} : TruncateHistory(keep)) \/ SetHistoryCalls
    PROVE  Sound'
  <1>1. ASSUME NEW l, NEW b, live # 0,
               Mutate(Owed([obj[live] EXCEPT !.msgs = l, !.from = 0, !.to = 0, !.boundary = b]), Touched(Moved(op)))
        PROVE  Sound'
    <2> DEFINE p == Owed([obj[live] EXCEPT !.msgs = l, !.from = 0, !.to = 0, !.boundary = b])
    <2>1. obj[live] \in Object
      BY <1>1, Numbers DEF Inside
    <2>2. p.owed /\ p.saved = -1 /\ p.first = obj[live].first
      BY <2>1 DEF Owed, Object
    <2> HIDE DEF p
    <2>3. Edited(obj[live], p)
      BY <2>2, OwedMutated
    <2> QED
      BY <1>1, <2>3, EditSound DEF p
  <1>2. ASSUME NEW keep \in {0, 1}, TruncateHistory(keep) PROVE Sound'
    <2> DEFINE l == IF keep = 0 THEN <<>> ELSE SubSeq(obj[live].msgs, Count(obj[live]) - keep + 1, Count(obj[live]))
    <2>1. live # 0 /\ Mutate(Owed([obj[live] EXCEPT !.msgs = l, !.from = 0, !.to = 0, !.boundary = 0]), Touched(Moved(op)))
      BY <1>2 DEF TruncateHistory
    <2> HIDE DEF l
    <2> QED
      BY <1>1, <2>1
  <1>3. ASSUME NEW l, SetHistory(l) PROVE Sound'
    <2> DEFINE b == IF obj[live].boundary > Len(l) THEN 0 ELSE obj[live].boundary
    <2>1. live # 0 /\ Mutate(Owed([obj[live] EXCEPT !.msgs = l, !.from = 0, !.to = 0, !.boundary = b]), Touched(Moved(op)))
      BY <1>3 DEF SetHistory
    <2> HIDE DEF b
    <2> QED
      BY <1>1, <2>1
  <1> QED
    BY <1>2, <1>3 DEF SetHistoryCalls

LEMMA ExcludeSound ==
    ASSUME TypeInv, Sound, NEW up \in 0 .. MaxEvents, NEW pins, Exclude(up, pins), hurt' = {}
    PROVE  Sound'
  <1> DEFINE o     == obj[live]
             first == IF o.msgs[1].out THEN 0 ELSE 1
             heads == {up, first + 1} \cup {i \in pins : o.msgs[i].out}
             top   == Max(heads)
             l     == Marked(o, up, pins)
             new   == [o EXCEPT !.msgs = l, !.from = first, !.to = top, !.boundary = top]
  <1>1. /\ live # 0 /\ Events < MaxEvents /\ up < Count(o) + 1 /\ pins \subseteq 2 .. Count(o)
        /\ Count(o) > 0 /\ ~(HasRange(o) /\ (o.from < first \/ o.to > top))
        /\ Mutate(new, Moved(op))
    BY DEF Exclude, Mutate
  <1>2. /\ edits \in Nat /\ edits + 1 \in Nat /\ edits <= edits + 1 /\ edits + 1 <= MaxEvents
        /\ MaxEvents \in Nat /\ Inside(o, edits)
    BY <1>1, Numbers DEF Stamp
  <1>3. /\ o.msgs \in Seq(Message) /\ Len(o.msgs) \in 0 .. edits /\ o.first \in 0 .. edits
        /\ o.first + Len(o.msgs) <= edits /\ o \in Object
    BY <1>2, InsideIs DEF Inside
  <1>4. Len(o.msgs) \in 1 .. edits /\ Count(o) = Len(o.msgs) /\ up \in Nat
    BY <1>1, <1>3 DEF Count
  <1>5. first \in {0, 1} /\ first = IF o.msgs[1].out THEN 0 ELSE 1
    OBVIOUS
  <1> HIDE DEF first
  <1>6. heads \subseteq 0 .. Len(o.msgs) + 1 /\ heads # {}
    BY <1>1, <1>4, <1>5
  <1>7. top \in heads /\ \A y \in heads : y <= top
    <2>1. heads \subseteq -1 .. Len(o.msgs) + 1 /\ Len(o.msgs) + 1 \in Nat
      BY <1>4, <1>6
    <2> QED
      BY <1>6, <2>1, MaxIs
  <1>8. top \in Index /\ first \in Index /\ top \in Nat
    <2>1. top \in 0 .. Len(o.msgs) + 1
      BY <1>6, <1>7
    <2> HIDE DEF top
    <2>2. first = 0 \/ first = 1
      BY <1>5
    <2> QED
      BY <1>2, <1>4, <2>1, <2>2 DEF Index
  <1>8a. /\ top >= up /\ top >= first + 1 /\ \A i \in pins : o.msgs[i].out => top >= i
    <2>1. up <= top /\ first + 1 <= top
      BY <1>7
    <2>2. \A i \in pins : o.msgs[i].out => i <= top /\ i \in Nat
      BY <1>1, <1>4, <1>7
    <2> HIDE DEF top, heads
    <2> QED
      BY <1>4, <1>5, <1>8, <2>1, <2>2
  <1>9. l \in Seq(Message)
    <2>1. \A i \in 1 .. Count(o) : o.msgs[i] \in Message
      BY <1>3, <1>4
    <2>2. \A m \in Message : \A b : [m EXCEPT !.out = FALSE] \in Message /\ [m EXCEPT !.out = b \/ m.out] \in Message
      BY DEF Message
    <2>3. ASSUME NEW i \in 1 .. Count(o)
          PROVE  [o.msgs[i] EXCEPT !.out = IF i = 1 \/ i \in pins THEN FALSE ELSE (i <= up /\ up > 1) \/ @]
                    \in Message
      <3>1. CASE i = 1 \/ i \in pins
        BY <2>1, <2>2, <3>1
      <3>2. CASE ~(i = 1 \/ i \in pins)
        <4>1. [o.msgs[i] EXCEPT !.out = (i <= up /\ up > 1) \/ o.msgs[i].out] \in Message
          BY <2>1, <2>2
        <4> QED
          BY <3>2, <4>1
      <3> QED
        BY <3>1, <3>2
    <2>4. l \in [1 .. Count(o) -> Message]
      BY <2>3 DEF Marked
    <2> QED
      BY <1>4, <2>4
  <1> HIDE DEF top, heads
  <1>10. new \in Object
    <2> HIDE DEF l
    <2> QED
      BY <1>3, <1>8, <1>9 DEF Object
  <1>11. ~HasRange(o) \/ (o.from >= first /\ o.to <= top)
    <2>1. o.from \in Nat /\ o.to \in Nat
      BY <1>3, ObjectIs
    <2>2. first \in Nat
      BY <1>5
    <2> QED
      BY <1>1, <1>8, <2>1, <2>2
  <1>12. Flags(o) => Edited(o, new)
    <2>1. Len(o.msgs) > 0 /\ pins \subseteq 2 .. Len(o.msgs)
      BY <1>1, <1>4
    <2>2. new = [o EXCEPT !.msgs = Marked(o, up, pins), !.from = first, !.to = top, !.boundary = top]
      OBVIOUS
    <2> HIDE DEF new, l
    <2> QED
      BY <1>3, <1>4, <1>5, <1>8, <1>8a, <1>10, <1>11, <2>1, <2>2, ExcludedMutated
  <1> HIDE DEF new
  <1> QED
    BY <1>1, <1>12, EditSound

-----------------------------------------------------------------------------
(* Saves begin; sessions leave memory and are compacted.                   *)

LEMMA SaveBegun ==
    ASSUME TypeInv, Sound, live # 0, NEW s \in Saver, op[s].pc = "idle", NEW k \in Kind \ {"boundary"},
           k = "delete" => obj[live].cut # -1, NEW why, NEW calls, calls = op \/ calls = Touched(op),
           op' = Begin(calls, s, why, obj[live], k), UNCHANGED <<rows, column, obj, live, torn, folded>>
    PROVE  Sound'
  <1>1. /\ edits \in Nat /\ edits <= MaxEvents /\ live \in 1 .. Len(obj) /\ Inside(obj[live], edits)
    BY Numbers
  <1>2. /\ op = [x \in Saver |-> op[x]] /\ Touched(op) = [x \in Saver |-> Touched(op)[x]]
        /\ \A x \in Saver : op[x] \in Call(edits, Len(obj))
    BY CallsAre DEF TypeInv, CallsInv, Touched
  <1>3. \A x \in Saver : Alike(op[x], op[x]) /\ Kept(op[x], op[x])
    BY DEF Alike, Kept
  <1>4. \A x \in Saver : Alike(op[x], calls[x]) /\ Kept(op[x], calls[x])
    BY <1>2, <1>3, TouchedAlike, TouchedKept
  <1>5. Live(rows, obj[live], live, calls) /\ Clear(rows, column, obj[live], live, calls, torn, folded)
    BY <1>4, AlikeLive, AlikeClear DEF Sound, Recalled
  <1>6. calls = [x \in Saver |-> calls[x]] /\ calls[s].pc = "idle"
    BY <1>2, <1>4 DEF Kept
  <1>7. /\ Live(rows, obj[live], live, op') /\ Clear(rows, column, obj[live], live, op', torn, folded)
        /\ Fresher(op[s], op'[s]) /\ \A x \in Saver \ {s} : op'[x] = calls[x]
    BY <1>1, <1>5, <1>6, BeginSound
  <1>8. \A x \in Saver : Kept(op[x], op'[x]) \/ Fresher(op[x], op'[x])
    BY <1>4, <1>7
  <1>9. Disk' /\ Shapes' /\ Loading'
    BY <1>8, RestKept DEF Sound
  <1>10. Recalled'
    BY <1>7, <1>8, RecalledKept DEF Sound
  <1> QED
    BY <1>7, <1>9, <1>10 DEF Sound

LEMMA DueKinds ==
    ASSUME NEW o, Due(o) # "none"
    PROVE  Due(o) \in Kind \ {"boundary"} /\ (Due(o) = "delete" => o.cut # -1)
  BY DEF Due, Pending, Kind

LEMMA SaveSound ==
    ASSUME TypeInv, Sound, NEW s \in Saver, Save(s) \/ FlushDraft(s)
    PROVE  Sound'
  <1>1. CASE Save(s)
    <2>1. Due(obj[live]) \in Kind \ {"boundary"} /\ (Due(obj[live]) = "delete" => obj[live].cut # -1)
      BY <1>1, DueKinds DEF Save
    <2> QED
      BY <1>1, <2>1, SaveBegun DEF Save
  <1>2. CASE FlushDraft(s)
    <2>1. "incremental" \in Kind \ {"boundary"} /\ "incremental" # "delete"
      BY DEF Kind
    <2> QED
      BY <1>2, <2>1, SaveBegun DEF FlushDraft
  <1> QED
    BY <1>1, <1>2

LEMMA EvictSound ==
    ASSUME TypeInv, Sound, NEW s \in Saver, Evict(s), hurt' = {}
    PROVE  Sound'
  <1>1. CASE Due(obj[live]) # "none"
    <2>1. Due(obj[live]) \in Kind \ {"boundary"} /\ (Due(obj[live]) = "delete" => obj[live].cut # -1)
      BY <1>1, DueKinds
    <2> QED
      BY <1>1, <2>1, SaveBegun DEF Evict
  <1>2. CASE Due(obj[live]) = "none"
    <2>1. /\ live' = 0 /\ op' = Touched(op) /\ ~torn
          /\ UNCHANGED <<rows, column, obj, edits, faults, boots, torn, folded>>
      BY <1>2 DEF Evict, Torn
    <2>2. \A x \in Saver : Kept(op[x], op'[x])
      BY <2>1, CallsAre, TouchedKept
    <2>3. Disk' /\ Shapes' /\ Loading'
      BY <2>1, <2>2, RestKept DEF Sound
    <2>4. Recalled'
      BY <2>1, <2>2, RecalledKept DEF Sound
    <2> QED
      BY <2>1, <2>3, <2>4 DEF Sound
  <1> QED
    BY <1>1, <1>2

\* Of an object of which nothing is due, nothing is missing or stale.
LEMMA NothingStale ==
    ASSUME NEW o \in Object, Flags(o), Due(o) = "none"
    PROVE  /\ ~o.owed /\ o.cut = -1 /\ o.saved # -1 /\ ~HasNew(o) /\ ~HasRange(o)
           /\ \A q \in Nat : ~Missing(o, q) /\ ~Stale(o, q) /\ ~NewAt(o, q) /\ ~ChangedAt(o, q) /\ ~RangeAt(o, q)
  <1>0. /\ o.first \in Nat /\ o.from \in Nat /\ o.to \in Nat /\ End(o) \in Nat /\ o.changed \in Nat
        /\ o.owed \in BOOLEAN
    BY ObjectIs
  <1>1. o.saved # -1 /\ o.cut = -1 /\ ~HasNew(o) /\ ~HasRange(o)
    BY DEF Due, Pending
  <1>2. ~o.owed
    BY <1>1 DEF Flags
  <1>3. ASSUME NEW q \in Nat PROVE ~CutAt(o, q) /\ ~NewAt(o, q) /\ ~ChangedAt(o, q) /\ ~RangeAt(o, q)
    BY <1>0, <1>1, <1>2 DEF CutAt, NewAt, ChangedAt, RangeAt, HasNew, HasRange
  <1> QED
    BY <1>1, <1>2, <1>3 DEF Missing, Stale

LEMMA CleanedLive ==
    ASSUME NEW r, NEW o \in Object, NEW i, NEW calls, Live(r, o, i, calls), Due(o) = "none",
           NEW p \in Object, p = Cleaned(o), NEW n \in Nat, NEW k, \A x \in Saver : calls[x] \in Call(n, k)
    PROVE  Live(r, p, i, calls)
  <1>0. /\ o.msgs \in Seq(Message) /\ Len(o.msgs) \in Nat /\ o.first \in Nat /\ End(o) \in Nat
    BY ObjectIs
  <1>1. /\ p.first = o.first /\ p.msgs = o.msgs /\ p.cut = -1 /\ ~p.owed /\ ~p.appended /\ p.changed = 0
        /\ p.from = 0 /\ p.to = 0 /\ p.saved = Len(o.msgs) - 1
    BY DEF Cleaned, Object, Count
  <1>2. /\ ~o.owed /\ o.cut = -1 /\ o.saved # -1 /\ ~HasNew(o) /\ ~HasRange(o)
        /\ \A q \in Nat : ~Missing(o, q) /\ ~Stale(o, q) /\ ~NewAt(o, q) /\ ~ChangedAt(o, q) /\ ~RangeAt(o, q)
    BY NothingStale DEF Live
  <1>3. Flags(p) /\ Low(p)
    BY <1>0, <1>1 DEF Flags, Low
  <1>4. End(p) = End(o) /\ Upward(p) = Upward(o) /\ \A q : At(p, q) = At(o, q)
    BY <1>1 DEF End, Upward, At
  <1>5. ASSUME NEW q \in Upward(o) PROVE ~Missing(p, q) /\ ~Stale(p, q) /\ ~NewAt(p, q) /\ ~ChangedAt(p, q) /\ ~RangeAt(p, q)
    <2>1. q \in Nat /\ q >= o.first
      BY DEF Upward
    <2>2. ~NewAt(p, q)
      <3>1. q < o.first + Len(o.msgs) => ~(q > o.first + (Len(o.msgs) - 1)) 
        BY <1>0, <2>1
      <3>2. Len(o.msgs) = 0 => ~(q < o.first + Len(o.msgs))
        BY <1>0, <2>1
      <3>3. p.saved = -1 => Len(o.msgs) = 0
        BY <1>0, <1>1
      <3> QED
        BY <1>1, <1>4, <3>1, <3>2, <3>3 DEF NewAt, End
    <2>3. ~CutAt(p, q) /\ ~ChangedAt(p, q)
      BY <1>1 DEF CutAt, ChangedAt
    <2>4. ~RangeAt(p, q)
      BY <1>0, <1>1, <2>1 DEF RangeAt
    <2> QED
      BY <1>1, <2>2, <2>3, <2>4 DEF Missing, Stale
  <1>6. \A r2, q : Same(r2, p, q) <=> Same(r2, o, q)
    BY <1>4 DEF Same
  <1>7. \A m : Carried(o, m) <=> Carried(p, m)
    BY <1>1, <1>4 DEF Carried, Holds
  <1>8. ASSUME NEW c, Exact(c, o) PROVE Exact(c, p)
    <2>1. ~HasNew(p) /\ ~HasRange(p) /\ (p.saved = -1 => Len(p.msgs) = 0)
      BY <1>0, <1>1 DEF HasNew, HasRange
    <2> QED
      BY <1>1, <1>2, <1>4, <1>5, <1>6, <1>7, <1>8, <2>1 DEF Exact
  <1>9. ASSUME NEW c, Done(r, c, o) PROVE Done(r, c, p)
    BY <1>1, <1>2, <1>4, <1>5, <1>6, <1>9 DEF Done
  <1>10. ASSUME NEW x \in Saver, Covered(calls[x], o) PROVE Covered(calls[x], p)
    <2>1. \A q \in DOMAIN calls[x].put \cup DOMAIN calls[x].update : q \in Nat
      <3>1. calls[x].put \in Rows(n) /\ calls[x].update \in Rows(n)
        BY DEF Call
      <3> QED
        BY <3>1, RowsCounted
    <2>2. \A q \in Nat : Missing(o, q) <=> FALSE
      BY <1>2
    <2>3. \A q \in Nat : Stale(o, q) <=> FALSE
      BY <1>2
    <2>4. \A m, q : Holds(p, m, q) <=> Holds(o, m, q)
      BY <1>4 DEF Holds
    <2> QED
      BY <1>1, <1>4, <1>10, <2>1, <2>2, <2>3, <2>4 DEF Covered
  <1>11. \A c : Doomed(c, o) <=> Doomed(c, p)
    BY <1>1, <1>2 DEF Doomed
  <1>12. Main(r, o) => Main(r, p)
    <2>1. Main(r, o) => \A q \in Upward(o) : Present(r, o, q) /\ Same(r, o, q)
      BY <1>2 DEF Main, Tells, Upward
    <2> QED
      BY <1>4, <1>6, <2>1 DEF Main, Tells, Present
  <1> QED
    BY <1>3, <1>8, <1>9, <1>10, <1>11, <1>12 DEF Live, Loose, Truth

LEMMA SubSeqAt ==
    ASSUME NEW l \in Seq(Message), NEW n \in 0 .. Len(l), NEW j \in 1 .. (Len(l) - n)
    PROVE  SubSeq(l, n + 1, Len(l))[j] = l[n + j]
  <1>1. PICK m \in Nat : m = n + 1
    OBVIOUS
  <1>2. PICK k \in Nat : k = Len(l)
    OBVIOUS
  <1>3. \A i \in m .. k : l[i] \in Message
    BY <1>1, <1>2
  <1>4. \A i \in 1 .. k - m + 1 : SubSeq(l, m, k)[i] = l[m + i - 1]
    <2>1. m \in Int /\ k \in Int
      OBVIOUS
    <2> QED
      BY <1>3, <2>1, SubSeqProperties
  <1>5. j \in 1 .. k - m + 1 /\ m + j - 1 = n + j
    BY <1>1, <1>2
  <1>6. SubSeq(l, m, k)[j] = l[n + j]
    BY <1>4, <1>5
  <1> QED
    BY <1>1, <1>2, <1>6

\* The tail that a compaction leaves.
Dropped(o, n) == SubSeq(o.msgs, n + 1, Len(o.msgs))

LEMMA TailAt ==
    ASSUME NEW o \in Object, NEW n \in 0 .. Len(o.msgs), NEW p,
           p.msgs = Dropped(o, n), p.first = o.first + n
    PROVE  /\ Len(p.msgs) = Len(o.msgs) - n /\ End(p) = End(o)
           /\ \A q \in Nat : q >= p.first => q >= o.first /\ q \in Upward(o) /\ (q < End(o) => At(p, q) = At(o, q))
  <1>0. /\ o.msgs \in Seq(Message) /\ Len(o.msgs) \in Nat /\ o.first \in Nat /\ End(o) \in Nat
        /\ End(o) = o.first + Len(o.msgs)
    BY ObjectIs
  <1>1. p.msgs = Dropped(o, n) /\ p.first = o.first + n
    OBVIOUS
  <1>3. Len(p.msgs) = Len(o.msgs) - n /\ End(p) = End(o)
    <2>1. Len(p.msgs) = Len(o.msgs) - n
      BY <1>0, <1>1 DEF Dropped
    <2>2. o.first + n + (Len(o.msgs) - n) = o.first + Len(o.msgs)
      BY <1>0
    <2> QED
      BY <1>0, <1>1, <2>1, <2>2 DEF End
  <1>4. ASSUME NEW q \in Nat, q >= p.first PROVE q >= o.first /\ q \in Upward(o) /\ (q < End(o) => At(p, q) = At(o, q))
    <2>1. q >= o.first
      BY <1>0, <1>1, <1>4
    <2>2. ASSUME q < End(o) PROVE At(p, q) = At(o, q)
      <3>1. q - p.first + 1 \in 1 .. (Len(o.msgs) - n) /\ n + (q - p.first + 1) = q - o.first + 1
        <4>1. \A f \in Nat, l \in Nat : q >= f + n /\ q < f + l /\ n <= l
                 => q - (f + n) + 1 \in 1 .. (l - n) /\ n + (q - (f + n) + 1) = q - f + 1
          OBVIOUS
        <4>2. q >= o.first + n /\ q < o.first + Len(o.msgs) /\ n <= Len(o.msgs)
          BY <1>0, <1>1, <1>4, <2>2
        <4>3. q - (o.first + n) + 1 \in 1 .. (Len(o.msgs) - n) /\ n + (q - (o.first + n) + 1) = q - o.first + 1
          BY <1>0, <4>1, <4>2
        <4> QED
          BY <1>1, <4>3
      <3>2. ASSUME NEW j \in 1 .. (Len(o.msgs) - n) PROVE Dropped(o, n)[j] = o.msgs[n + j]
        BY <1>0, SubSeqAt DEF Dropped
      <3> QED
        BY <1>1, <3>1, <3>2 DEF At
    <2> QED
      BY <2>1, <2>2 DEF Upward
  <1> QED
    BY <1>3, <1>4

\* A compaction drops messages whose rows are as they were.
LEMMA TailLive ==
    ASSUME TypeInv, live # 0, NEW r, NEW o \in Object, o = obj[live], Live(r, o, live, op), Due(o) = "none",
           NEW p \in Object, NEW n \in 0 .. Len(o.msgs),
           p.msgs = Dropped(o, n), p.first = o.first + n, p.saved = o.saved, p.appended = o.appended,
           p.changed = o.changed, p.from = o.from, p.to = o.to, p.cut = o.cut, p.owed = o.owed,
           NEW s \in Saver, op[s].pc = "idle",
           NEW more, Snapped(more[s], live, p, "boundary"), \A x \in Saver \ {s} : more[x] = Moved(op)[x]
    PROVE  Live(r, p, live, more)
  <1>0. /\ o.msgs \in Seq(Message) /\ Len(o.msgs) \in Nat /\ o.first \in Nat /\ End(o) \in Nat
        /\ End(o) = o.first + Len(o.msgs)
    BY ObjectIs
  <1>1. /\ p.msgs = Dropped(o, n) /\ p.first = o.first + n /\ p.saved = o.saved
        /\ p.appended = o.appended /\ p.changed = o.changed /\ p.from = o.from /\ p.to = o.to
        /\ p.cut = o.cut /\ p.owed = o.owed
    OBVIOUS
  <1>2. /\ ~o.owed /\ o.cut = -1 /\ o.saved # -1 /\ ~HasNew(o) /\ ~HasRange(o)
        /\ \A q \in Nat : ~Missing(o, q) /\ ~Stale(o, q)
    BY NothingStale DEF Live
  <1>3. Len(p.msgs) = Len(o.msgs) - n /\ End(p) = End(o)
    BY <1>1, TailAt
  <1>4. ASSUME NEW q \in Nat, q >= p.first PROVE q >= o.first /\ q \in Upward(o) /\ (q < End(o) => At(p, q) = At(o, q))
    BY <1>1, <1>4, TailAt
  <1>5. Flags(p)
    BY <1>1, <1>2 DEF Flags
  <1>6. /\ On(more[s], live) /\ more[s].kind = "boundary" /\ ~more[s].moved /\ more[s].pc = "meta"
    BY DEF Snapped, On, InFlight
  <1>7. Compacts(more, live)
    BY <1>6 DEF Compacts
  <1>8. ASSUME NEW x \in Saver, x # s
        PROVE  /\ On(more[x], live) <=> On(op[x], live)
               /\ On(op[x], live) => more[x].moved
               /\ more[x].kind = op[x].kind /\ more[x].pc = op[x].pc /\ more[x].put = op[x].put
               /\ more[x].update = op[x].update /\ more[x].behind = op[x].behind /\ more[x].failed = op[x].failed
    <2>1. op[x] \in Call(edits, Len(obj))
      BY CallsAre
    <2>2. op[x].target = live => more[x] = [op[x] EXCEPT !.moved = TRUE]
      BY <1>8 DEF Moved
    <2>3. op[x].target # live => more[x] = op[x]
      BY <1>8 DEF Moved
    <2> QED
      BY <2>1, <2>2, <2>3 DEF Call, On, InFlight
  <1>9. ~On(op[s], live)
    BY DEF On, InFlight
  <1>10. Exact(more[s], p)
    BY <1>1, <1>2, <1>6 DEF Exact, HasNew, HasRange
  <1>11. \A x \in Saver : On(more[x], live) => more[x].moved \/ Exact(more[x], p)
    BY <1>8, <1>10
  <1>12. Overtook(more, live)
    <2>1. \A x \in Saver : On(more[x], live) => ~Newer(more[x])
      BY <1>6, <1>8 DEF Newer
    <2> QED
      BY <2>1 DEF Overtook
  <1>13. Loose(op, o, live) => Loose(more, p, live)
    <2>1. ASSUME NEW x \in Saver, On(op[x], live), Pledge(op[x]) \/ Doomed(op[x], o)
          PROVE  On(more[x], live) /\ Pledge(more[x])
      BY <1>8, <1>9, <2>1 DEF Pledge, Doomed
    <2> QED
      BY <2>1 DEF Loose
  <1>14. ASSUME Truth(r, o, live, op) PROVE Truth(r, p, live, more)
    <2>1. ASSUME NEW q \in Upward(p) PROVE Same(r, p, q) /\ Present(r, p, q)
      <3>1. q \in Nat /\ q >= p.first
        BY DEF Upward
      <3>2. Same(r, o, q) /\ Present(r, o, q)
        BY <1>2, <1>4, <1>14, <3>1 DEF Truth, Main, Tells
      <3> QED
        BY <1>3, <1>4, <3>1, <3>2 DEF Same, Present
    <2>2. Main(r, p)
      BY <2>1 DEF Main, Tells
    <2>3. Covered(more[s], p) /\ Done(r, more[s], p)
      BY <1>6, <2>1 DEF Covered, Done
    <2>4. ASSUME NEW x \in Saver, x # s, On(op[x], live) PROVE Covered(more[x], p)
      <3>1. Covered(op[x], o)
        BY <1>14, <2>4 DEF Truth
      <3>2. \A q \in DOMAIN op[x].put \cup DOMAIN op[x].update : q \in Nat
        <4>1. op[x].put \in Rows(edits) /\ op[x].update \in Rows(edits) /\ edits \in Nat
          BY CallsAre, Numbers DEF Call
        <4> QED
          BY <4>1, RowsCounted
      <3>3. \A q \in Nat : (Missing(o, q) <=> FALSE) /\ (Stale(o, q) <=> FALSE)
        BY <1>2
      <3>4. \A m : \A q \in Nat : q >= p.first /\ Holds(o, m, q) => Holds(p, m, q)
        BY <1>3, <1>4 DEF Holds
      <3> QED
        BY <1>3, <1>4, <1>8, <2>4, <3>1, <3>2, <3>3, <3>4 DEF Covered
    <2> QED
      BY <1>8, <2>2, <2>3, <2>4 DEF Truth
  <1> QED
    BY <1>5, <1>7, <1>11, <1>12, <1>13, <1>14 DEF Live

\* The summary takes over the messages in context that a compaction drops.
LEMMA TailClear ==
    ASSUME TypeInv, live # 0, NEW o \in Object, o = obj[live], Flags(o), Quiet(o),
           Clear(rows, column, o, live, op, torn, folded), NEW n \in 0 .. Len(o.msgs), NEW p,
           p.msgs = Dropped(o, n), p.first = o.first + n
    PROVE  Clear(rows, column, p, live, Moved(op), torn, folded \cup Folded(o, n))
  <1> DEFINE new == Moved(op)
             f   == folded \cup Folded(o, n)
  <1>0. /\ o.msgs \in Seq(Message) /\ Len(o.msgs) \in Nat /\ o.first \in Nat /\ End(o) \in Nat
        /\ DOMAIN rows \subseteq Nat /\ column \in Int
    BY RowsCounted, Numbers, ObjectIs DEF TypeInv, RowsInv
  <1>1. ASSUME NEW q \in Nat, q >= p.first
        PROVE  q \in Upward(o) /\ End(p) = End(o) /\ (q < End(o) => At(p, q) = At(o, q))
    BY <1>1, TailAt
  <1>2. \A q \in Upward(o) : \A m : Fits(o, q, m) => q < End(o) /\ m = At(o, q)
    <2>1. \A q \in Nat : ~Stale(o, q)
      BY NothingStale DEF Quiet
    <2> QED
      BY <2>1 DEF Fits, Upward
  <1>3. ASSUME NEW q \in Nat, q < p.first, q >= o.first PROVE Known(At(o, q), f)
    <2>1. PICK i \in 1 .. n : i = q - o.first + 1
      <3>1. \A a, b \in Nat : q < a + b /\ q >= a => q - a + 1 \in 1 .. b
        OBVIOUS
      <3>2. q < o.first + n
        BY <1>3
      <3> QED
        BY <1>0, <1>3, <3>1, <3>2
    <2>2. At(o, q) = o.msgs[i] /\ i \in 1 .. Len(o.msgs)
      <3>1. i \in 1 .. Len(o.msgs)
        BY <1>0
      <3> QED
        BY <2>1, <3>1 DEF At
    <2>3. o.msgs[i].out \/ i \in InAt(o) \cap 1 .. n
      BY <2>1, <2>2 DEF InAt, OutAt, Count
    <2> QED
      BY <2>2, <2>3 DEF Known, Folded
  <1>4. \A m : Known(m, folded) => Known(m, f)
    BY DEF Known
  <1>5. ~torn /\ \A x \in Saver : On(op[x], live) => ~op[x].behind
    BY DEF Quiet, On
  <1>6. ASSUME NEW x \in Saver
        PROVE  /\ On(new[x], live) => On(op[x], live) /\ new[x].moved
               /\ Likes(op[x], new[x]) /\ new[x].behind = op[x].behind
    <2>1. op[x] \in Call(edits, Len(obj))
      BY CallsAre
    <2>2. new[x] = IF op[x].target = live /\ live # 0 THEN [op[x] EXCEPT !.moved = TRUE] ELSE op[x]
      BY DEF Moved
    <2> HIDE DEF new
    <2>3. new[x].pc = op[x].pc /\ new[x].target = op[x].target /\ Likes(op[x], new[x]) /\ new[x].behind = op[x].behind
      BY <2>1, <2>2 DEF Call, Likes
    <2>4. op[x].target = live /\ live # 0 => new[x].moved
      BY <2>1, <2>2 DEF Call
    <2> QED
      BY <2>3, <2>4 DEF On, InFlight
  <1> HIDE DEF new, f
  <1>7. Passed(rows, p.first, f)
    <2>1. ASSUME NEW q \in DOMAIN rows, q < p.first PROVE Known(rows[q], f)
      <3>1. q \in Nat
        BY <1>0
      <3>2. CASE q < o.first
        BY <1>4, <3>2 DEF Clear, Passed
      <3>3. CASE q >= o.first
        <4>1. Fits(o, q, rows[q]) /\ q \in Upward(o)
          BY <1>5, <3>1, <3>3 DEF Clear, RowsFit, Upward
        <4> QED
          BY <1>2, <1>3, <2>1, <3>1, <3>3, <4>1
      <3> QED
        BY <1>0, <3>1, <3>2, <3>3
    <2> QED
      BY <2>1 DEF Passed
  <1>8. Bounded(rows, column, p.first, live, new, f)
    <2>1. column <= o.first => column <= p.first
      BY <1>0
    <2>2. Passed(rows, column, folded) => Passed(rows, column, f)
      BY <1>4 DEF Passed
    <2>3. \A x \in Saver : On(new[x], live) => On(op[x], live) /\ new[x].pc = op[x].pc
      BY <1>6 DEF Likes
    <2> QED
      BY <2>1, <2>2, <2>3 DEF Clear, Bounded
  <1>9. RowsFit(rows, p)
    <2>1. ASSUME NEW q \in Upward(p), q \in DOMAIN rows PROVE Fits(p, q, rows[q])
      <3>1. q \in Upward(o) /\ End(p) = End(o) /\ (q < End(o) => At(p, q) = At(o, q))
        BY <1>1 DEF Upward
      <3>2. Fits(o, q, rows[q])
        BY <1>5, <2>1, <3>1 DEF Clear, RowsFit
      <3> QED
        BY <1>2, <3>1, <3>2 DEF Fits
    <2> QED
      BY <2>1 DEF RowsFit
  <1>10. ASSUME NEW x \in Saver, On(new[x], live) PROVE Fair(new[x], p, f) /\ new[x].moved
    <2>1. Fair(op[x], o, folded) /\ ~op[x].behind /\ Likes(op[x], new[x])
      BY <1>5, <1>6, <1>10 DEF Clear
    <2>2. \A q \in Upward(o) : \A m : Puts(op[x], q, m) => q < End(o) /\ m = At(o, q)
      BY <1>2, <2>1 DEF Fair, Agrees
    <2>3. \A q, m : Puts(new[x], q, m) <=> Puts(op[x], q, m)
      BY <2>1, LikesFair
    <2>4. Agrees(new[x], p)
      <3>1. ASSUME NEW q \in Upward(p), NEW m, Puts(op[x], q, m) PROVE Fits(p, q, m)
        <4>1. q \in Upward(o) /\ End(p) = End(o) /\ (q < End(o) => At(p, q) = At(o, q))
          BY <1>1 DEF Upward
        <4> QED
          BY <2>2, <3>1, <4>1 DEF Fits
      <3> QED
        BY <2>3, <3>1 DEF Agrees
    <2>5. Under(new[x], p.first, f)
      <3>1. ASSUME NEW q \in Nat, NEW m, q < p.first, Puts(op[x], q, m) PROVE Known(m, f)
        <4>1. CASE q < o.first
          BY <1>4, <2>1, <3>1, <4>1 DEF Fair, Under
        <4>2. CASE q >= o.first
          <5>1. q \in Upward(o)
            BY <4>2 DEF Upward
          <5> QED
            BY <1>3, <2>2, <3>1, <4>2, <5>1
        <4> QED
          BY <1>0, <4>1, <4>2
      <3> QED
        BY <2>3, <3>1 DEF Under
    <2>6. new[x].pc = "meta" => new[x].col <= p.first
      <3>1. op[x].col \in Nat /\ new[x].pc = op[x].pc /\ new[x].col = op[x].col
        <4>1. \A y \in 0 .. edits : y \in Nat
          BY Numbers
        <4> QED
          BY <2>1, <4>1, CallsAre DEF Call, Likes
      <3>2. op[x].pc = "meta" => op[x].col <= o.first
        BY <2>1 DEF Fair
      <3> QED
        BY <1>0, <3>1, <3>2
    <2> QED
      BY <1>6, <1>10, <2>4, <2>5, <2>6 DEF Fair
  <1>11. Clear(rows, column, p, live, new, torn, f)
    BY <1>7, <1>8, <1>9, <1>10 DEF Clear, Finished
  <1> QED
    BY <1>11 DEF new, f

\* The messages left once the first n are dropped.
LEMMA TailIs ==
    ASSUME NEW msgs \in Seq(Message), NEW n \in 0 .. Len(msgs)
    PROVE  /\ SubSeq(msgs, n + 1, Len(msgs)) \in Seq(Message)
           /\ Len(SubSeq(msgs, n + 1, Len(msgs))) = Len(msgs) - n
  OBVIOUS

LEMMA EvictExcludedSound ==
    ASSUME TypeInv, Sound, NEW s \in Saver, EvictExcluded(s), hurt' = {}
    PROVE  Sound'
  <1> DEFINE o == obj[live]
             n == EvictUpTo(o)
             tail == [o EXCEPT !.msgs = Dropped(o, n), !.first = o.first + n]
  <1>1. /\ edits \in Nat /\ edits <= MaxEvents /\ obj \in Seq(Object) /\ Len(obj) \in Nat
        /\ live \in 1 .. Len(obj) /\ live # 0 /\ Inside(o, edits) /\ OutAt(o) # {} /\ op[s].pc = "idle"
    BY Numbers DEF EvictExcluded
  <1>2. /\ UNCHANGED <<rows, column, live, torn>> /\ Due(o) = "none" /\ Live(rows, o, live, op)
        /\ Quiet(o) /\ Clear(rows, column, o, live, op, torn, folded)
    BY <1>1 DEF EvictExcluded, Quiet, Sound, Recalled
  <1>3. /\ o.msgs \in Seq(Message) /\ Len(o.msgs) \in 0 .. edits /\ o.first \in 0 .. edits
        /\ o.first + Len(o.msgs) <= edits /\ o \in Object
    BY <1>1, InsideIs DEF Inside
  <1>4. n \in 0 .. Len(o.msgs) /\ Count(o) = Len(o.msgs)
    BY <1>1, EvictUpToType DEF Count
  <1>5. \A x \in Saver : op[x] \in Call(edits, Len(obj))
    BY CallsAre
  <1>6. ASSUME NEW p, obj' = [obj EXCEPT ![live] = p]
        PROVE  obj'[live] = p /\ \A x \in Saver : op[x].pc = "loading" => obj'[op[x].target] = obj[op[x].target]
    <2>1. ASSUME NEW x \in Saver, op[x].pc = "loading" PROVE op[x].target # live /\ op[x].target \in 1 .. Len(obj)
      <3>1. op[x].target # live
        BY <2>1 DEF Sound, Loading
      <3>2. op[x].target # 0 /\ op[x].target \in 0 .. Len(obj)
        BY <2>1, CallsAre DEF Call
      <3> QED
        BY <1>1, <3>1, <3>2
    <2> QED
      BY <1>1, <1>6, <2>1
  <1>7. CASE n = 0
    <2>1. obj' = [obj EXCEPT ![live] = Cleaned(o)] /\ op' = Touched(op)
      BY <1>7 DEF EvictExcluded
    <2>2. Cleaned(o) \in Object
      BY <1>1, CleanedInside DEF Inside
    <2>3. Live(rows, Cleaned(o), live, op)
      BY <1>1, <1>2, <1>3, <1>5, <2>2, CleanedLive
    <2>4. Live(rows, Cleaned(o), live, op')
      BY <1>5, <2>1, <2>3, TouchedAlike, AlikeLive
    <2>5. \A x \in Saver : Kept(op[x], op'[x])
      BY <1>5, <2>1, TouchedKept
    <2>6. obj'[live] = Cleaned(o) /\ \A x \in Saver : op[x].pc = "loading" => obj'[op[x].target] = obj[op[x].target]
      BY <1>6, <2>1
    <2>7. Disk' /\ Shapes' /\ Loading'
      BY <1>1, <1>2, <2>5, <2>6, RestKept DEF Sound
    <2>8. Clear(rows, column, Cleaned(o), live, op', torn, folded')
      <3>1. \A q \in Upward(o) : ~Stale(o, q)
        BY <1>2, <1>3, NothingStale DEF Live, Upward
      <3>2. Cleaned(o).first = o.first /\ Cleaned(o).msgs = o.msgs
        BY <1>3 DEF Object, Cleaned
      <3>3. \A x \in Saver : Alike(op[x], op'[x])
        BY <1>5, <2>1, TouchedAlike
      <3>4. folded' = folded
        BY <1>7 DEF EvictExcluded
      <3> DEFINE p == Cleaned(o)
      <3> HIDE DEF o, p
      <3>5. Clear(rows, column, p, live, op, torn, folded)
        BY <1>2, <3>1, <3>2, UnstaleClear DEF p
      <3> QED
        BY <3>3, <3>4, <3>5, AlikeClear DEF p
    <2>9. Recalled'
      BY <1>1, <1>2, <2>5, <2>6, <2>8, RecalledKept DEF Sound, EvictExcluded
    <2> QED
      BY <1>2, <2>4, <2>6, <2>7, <2>9 DEF Sound
  <1>8. CASE n # 0
    <2>1. obj' = [obj EXCEPT ![live] = tail] /\ op' = Begin(Moved(op), s, "compact", tail, "boundary")
      BY <1>4, <1>8 DEF EvictExcluded, Dropped
    <2>2. Inside(tail, edits)
      <3>1. /\ Dropped(o, n) \in Seq(Message)
            /\ Len(Dropped(o, n)) = Len(o.msgs) - n
        BY TailIs, <1>3, <1>4, Zenon DEF Dropped
      <3>2. o.first + n \in Index /\ o.first + n + (Len(o.msgs) - n) <= edits
        BY <1>1, <1>3, <1>4, SessionAssumption DEF Index
      <3>3. /\ tail \in Object /\ tail.msgs = Dropped(o, n)
            /\ tail.first = o.first + n
        BY <1>3, <3>1, <3>2 DEF Object
      <3> QED
        BY <3>1, <3>2, <3>3 DEF Inside
    <2>3. \A x \in Saver : Kept(op[x], Moved(op)[x]) /\ Moved(op)[x] \in Call(edits, Len(obj))
      BY <1>5, MovedKept
    <2>4. "boundary" \in Kind /\ Moved(op) = [x \in Saver |-> Moved(op)[x]]
      BY DEF Kind, Moved
    <2>5. folded' = folded \cup Folded(o, n)
      BY <1>4, <1>8 DEF EvictExcluded
    <2>6. tail = [o EXCEPT !.msgs = Dropped(o, n), !.first = o.first + n]
      OBVIOUS
    <2> HIDE DEF tail, n
    <2>7. Snapped(op'[s], live, tail, "boundary") /\ \A x \in Saver \ {s} : op'[x] = Moved(op)[x]
      BY <1>1, <2>1, <2>2, <2>4, BeginSnapped
    <2>8. tail \in Object /\ tail.msgs \in Seq(Message)
      BY <1>1, <2>2, InsideIs DEF Inside
    <2>9. /\ tail.msgs = Dropped(o, n) /\ tail.first = o.first + n /\ tail.saved = o.saved
           /\ tail.appended = o.appended /\ tail.changed = o.changed /\ tail.from = o.from /\ tail.to = o.to
           /\ tail.cut = o.cut /\ tail.owed = o.owed
      BY <1>3, <2>6 DEF Object
    <2>10. Live(rows, tail, live, op')
      BY <1>1, <1>2, <1>3, <1>4, <2>7, <2>8, <2>9, TailLive
    <2>11. Fresher(op[s], op'[s])
      BY <2>7, <2>8, SnappedShaped DEF Fresher, Snapped
    <2>12. \A x \in Saver : Kept(op[x], op'[x]) \/ Fresher(op[x], op'[x])
      BY <2>3, <2>7, <2>11
    <2>13. obj'[live] = tail /\ \A x \in Saver : op[x].pc = "loading" => obj'[op[x].target] = obj[op[x].target]
      BY <1>6, <2>1
    <2>14. Disk' /\ Shapes' /\ Loading'
      BY <1>1, <1>2, <2>12, <2>13, RestKept DEF Sound
    <2>15. Clear(rows, column, tail, live, op', torn, folded')
      <3>2. Clear(rows, column, tail, live, Moved(op), torn, folded')
        BY <1>1, <1>2, <1>3, <1>4, <2>5, <2>9, TailClear DEF Live
      <3> QED
        BY <2>7, <2>8, <3>2, NewClear
    <2>16. Recalled'
      BY <1>1, <1>2, <2>12, <2>13, <2>5, <2>15, RecalledKept DEF Sound
    <2> QED
      BY <1>2, <2>10, <2>13, <2>14, <2>16 DEF Sound
  <1> QED
    BY <1>7, <1>8

-----------------------------------------------------------------------------
(* Sessions become resident.                                               *)

LEMMA DenseDomain ==
    ASSUME NEW n \in Nat, NEW r \in Rows(n), Dense(r)
    PROVE  \E m \in 0 .. n : DOMAIN r = 0 .. m - 1
  <1> DEFINE D == DOMAIN r
  <1>1. D \subseteq 0 .. n - 1
    BY RowsCounted
  <1>2. CASE D = {}
    <2>1. 0 \in 0 .. n /\ D = 0 .. 0 - 1
      BY <1>2
    <2> QED
      BY <2>1
  <1>3. CASE D # {}
    <2>1. PICK t \in D : \A y \in D : y <= t
      <3>1. D \subseteq -1 .. n
        BY <1>1
      <3> QED
        BY <1>3, <3>1, MaxIs
    <2>2. t \in Nat /\ t <= n - 1 /\ t + 1 \in 0 .. n
      BY <1>1
    <2> DEFINE Holes == (0 .. t) \ D
    <2>3. Holes = {}
      <3>1. SUFFICES ASSUME Holes # {} PROVE FALSE
        OBVIOUS
      <3>2. PICK x \in Holes : \A y \in Holes : y <= x
        <4>1. Holes \subseteq -1 .. t
          BY <2>2
        <4> QED
          BY <2>2, <3>1, <4>1, MaxIs
      <3>3. x \in Nat /\ x < t /\ x + 1 \in 0 .. t
        BY <2>1, <2>2, <3>2
      <3>4. x + 1 \in D
        BY <3>2, <3>3
      <3> QED
        BY <3>2, <3>3, <3>4 DEF Dense
    <2>4. D = 0 .. (t + 1) - 1
      <3>1. \A y \in 0 .. t : y \in D
        BY <2>3
      <3>2. \A y \in D : y \in 0 .. t
        BY <1>1, <2>1, <2>2
      <3> HIDE DEF D, Holes
      <3>3. (t + 1) - 1 = t
        BY <2>2
      <3> QED
        BY <3>1, <3>2, <3>3
    <2> QED
      BY <2>2, <2>4
  <1> QED
    BY <1>2, <1>3

\* A list of rows without a hole.
LEMMA ListedOf ==
    ASSUME NEW n \in Nat, NEW r \in Rows(n), NEW a \in Nat, NEW b \in Nat, a <= b, DOMAIN r = a .. b - 1
    PROVE  /\ Listed(r) \in Seq(Message) /\ Len(Listed(r)) = b - a
           /\ \A q \in a .. b - 1 : Listed(r)[q - a + 1] = r[q]
  <1>1. ASSUME NEW c \in Nat, a <= c
        PROVE  Cardinality(a .. c - 1) = c - a
    <2>1. c - 1 \in Int /\ (a > c - 1 => c - a = 0) /\ c - 1 - a + 1 = c - a
      BY <1>1
    <2> QED
      BY <2>1, FS_Interval
  <1>2. Cardinality(DOMAIN r) = b - a
    BY <1>1
  <1>3. ASSUME NEW q \in a .. b - 1 PROVE Before(r, q) = a .. q - 1 /\ Cardinality(Before(r, q)) = q - a
    <2>1. Before(r, q) = a .. q - 1
      BY DEF Before
    <2>2. q \in Nat /\ a <= q
      OBVIOUS
    <2> QED
      BY <1>1, <2>1, <2>2
  <1>4. ASSUME NEW q \in a .. b - 1 PROVE Listed(r)[q - a + 1] = r[q]
    <2> DEFINE P(p) == p \in DOMAIN r /\ Cardinality(Before(r, p)) = q - a + 1 - 1
    <2>1. q - a + 1 \in 1 .. Cardinality(DOMAIN r)
      BY <1>2
    <2>2. P(q)
      BY <1>3
    <2>3. \A p : P(p) => p = q
      <3>1. ASSUME NEW p \in a .. b - 1, Cardinality(Before(r, p)) = q - a + 1 - 1 PROVE p = q
        <4>1. Cardinality(Before(r, p)) = p - a
          BY <1>3
        <4> QED
          BY <3>1, <4>1
      <3> QED
        BY <3>1
    <2> DEFINE g(i) == CHOOSE p \in DOMAIN r : Cardinality(Before(r, p)) = i - 1
               c    == Cardinality(DOMAIN r)
    <2>4. g(q - a + 1) = q
      BY <2>2, <2>3
    <2>5. Listed(r) = [i \in 1 .. c |-> r[g(i)]]
      BY DEF Listed
    <2>6. q - a + 1 \in 1 .. c
      BY <2>1
    <2> HIDE DEF g, c
    <2> QED
      BY <2>4, <2>5, <2>6
  <1>5. Listed(r) \in Seq(Message) /\ Len(Listed(r)) = b - a
    BY <1>2, ListedType
  <1> QED
    BY <1>4, <1>5

\* Rows without a hole are reloaded as they are, from wherever.
LEMMA LoadedReloaded ==
    ASSUME TypeInv, Dense(rows), NEW k \in 0 .. edits
    PROVE  Reloaded(rows, LoadedFrom(k))
  <1> DEFINE o    == LoadedFrom(k)
             part == Only(rows, From(k))
  <1>1. /\ edits \in Nat /\ MaxEvents \in Nat /\ edits <= MaxEvents /\ rows \in Rows(edits)
    BY Numbers DEF TypeInv, RowsInv
  <1>2. PICK m \in 0 .. edits : DOMAIN rows = 0 .. m - 1
    BY <1>1, DenseDomain
  <1>3. /\ o.msgs = Listed(part) /\ o.first = k /\ o.saved = Len(Listed(part)) - 1
        /\ o.cut = -1 /\ ~o.owed
    BY DEF LoadedFrom, Blank
  <1> HIDE DEF o
  <1>4. part \in Rows(edits) /\ DOMAIN part = DOMAIN rows \cap From(k) /\ \A q \in DOMAIN part : part[q] = rows[q]
    BY <1>1, OnlyType DEF Only
  <1> HIDE DEF part
  <1>5. PICK b \in Nat : /\ k <= b /\ m <= b /\ (b = m \/ b = k) /\ DOMAIN part = k .. b - 1
                         /\ \A q \in Nat : q >= k => (q < b <=> q \in DOMAIN rows)
    <2>1. \A q \in Int : q \in From(k) <=> k <= q /\ q <= 2 * MaxEvents
      BY <1>1 DEF From
    <2>2. CASE k <= m
      <3>1. DOMAIN part = k .. m - 1
        BY <1>1, <1>2, <1>4, <2>1, <2>2
      <3>2. \A q \in Nat : q >= k => (q < m <=> q \in DOMAIN rows)
        BY <1>1, <1>2
      <3> QED
        BY <2>2, <3>1, <3>2
    <2>3. CASE ~(k <= m)
      <3>1. DOMAIN part = k .. k - 1
        BY <1>1, <1>2, <1>4, <2>1, <2>3
      <3>2. \A q \in Nat : q >= k => (q < k <=> q \in DOMAIN rows)
        BY <1>1, <1>2, <2>3
      <3>3. k <= k /\ m <= k /\ k \in Nat
        BY <1>1, <2>3
      <3> QED
        BY <3>1, <3>2, <3>3
    <2> QED
      BY <2>2, <2>3
  <1>6. /\ Listed(part) \in Seq(Message) /\ Len(Listed(part)) = b - k
        /\ \A q \in k .. b - 1 : Listed(part)[q - k + 1] = part[q]
    <2>1. edits \in Nat /\ part \in Rows(edits) /\ k \in Nat /\ b \in Nat /\ k <= b /\ DOMAIN part = k .. b - 1
      BY <1>1, <1>4, <1>5
    <2> QED
      BY <2>1, ListedOf
  <1>7. End(o) = b
    BY <1>1, <1>3, <1>5, <1>6 DEF End
  <1>8. ASSUME NEW q \in Upward(o) PROVE Same(rows, o, q)
    <2>1. q \in Nat /\ q >= k
      BY <1>3 DEF Upward
    <2>2. q < b => q \in k .. b - 1 /\ q \in DOMAIN rows /\ q \in DOMAIN part
      BY <1>1, <1>5, <2>1
    <2> QED
      BY <1>3, <1>4, <1>5, <1>6, <1>7, <2>1, <2>2 DEF Same, At
  <1> QED
    BY <1>3, <1>8 DEF Reloaded, o

LEMMA BlankReloaded ==
    ASSUME NEW r, r = <<>>
    PROVE  Reloaded(r, Blank)
  <1>1. /\ Blank.msgs = <<>> /\ Blank.first = 0 /\ Blank.saved = -1 /\ Blank.cut = -1 /\ ~Blank.owed
    BY DEF Blank
  <1>2. Len(Blank.msgs) = 0 /\ End(Blank) = 0
    BY <1>1 DEF End
  <1>3. \A q \in Upward(Blank) : Same(r, Blank, q)
    BY <1>2 DEF Upward, Same
  <1> QED
    BY <1>1, <1>2, <1>3 DEF Reloaded

LEMMA ReloadedLive ==
    ASSUME NEW r, NEW o \in Object, Reloaded(r, o), NEW i, NEW calls, \A s \in Saver : ~On(calls[s], i)
    PROVE  Live(r, o, i, calls)
  <1>1. Len(o.msgs) \in Nat /\ ~o.owed /\ o.cut = -1 /\ o.saved = Len(o.msgs) - 1
    BY ObjectIs DEF Reloaded
  <1>2. Flags(o) /\ Low(o)
    BY <1>1 DEF Flags, Low
  <1>3. Main(r, o)
    BY DEF Main, Reloaded, Tells, Present, Same
  <1> QED
    BY <1>2, <1>3 DEF Live, Truth, Overtook

\* A load starts behind nothing to go on with.
LEMMA LoadPassed ==
    ASSUME TypeInv, Passed(rows, column, folded)
    PROVE  Passed(rows, LoadFrom, folded)
  <1>1. DOMAIN rows \subseteq Nat /\ InContext \subseteq DOMAIN rows
    BY RowsCounted, Numbers DEF TypeInv, RowsInv, InContext
  <1>2. \A q \in DOMAIN rows : q \notin InContext => Known(rows[q], folded)
    BY DEF InContext, Known
  <1>3. CASE ~StaleColumn /\ column > 0
    BY <1>3 DEF LoadFrom
  <1>4. CASE ~(~StaleColumn /\ column > 0) /\ InContext # {}
    <2>1. LoadFrom = Min(InContext)
      BY <1>4 DEF LoadFrom
    <2>2. \A q \in InContext : LoadFrom <= q
      BY <1>1, <1>4, <2>1, MinIs
    <2>3. LoadFrom \in Nat
      BY <1>1, <1>4, <2>1, MinIs
    <2>4. \A q \in DOMAIN rows : q < LoadFrom => q \notin InContext
      BY <1>1, <2>2, <2>3
    <2> QED
      BY <1>2, <2>4 DEF Passed
  <1>5. CASE InContext = {}
    BY <1>2, <1>5 DEF Passed
  <1> QED
    BY <1>3, <1>4, <1>5

LEMMA ReloadedClear ==
    ASSUME NEW r, NEW k, NEW o, Reloaded(r, o), NEW i, NEW calls, \A s \in Saver : ~On(calls[s], i),
           NEW t, NEW f, Passed(r, o.first, f), k <= o.first \/ Passed(r, k, f)
    PROVE  Clear(r, k, o, i, calls, t, f)
  <1>1. RowsFit(r, o)
    BY DEF Reloaded, Same, RowsFit, Fits
  <1> QED
    BY <1>1 DEF Clear, Bounded

\* Unless a failing read passed for no session, what becomes resident is what the
\* rows hold, with nothing to go on with in front of it.
LEMMA OpenedSound ==
    ASSUME TypeInv, Sound, live = 0, NEW o, Opened(o), hurt' = {}
    PROVE  /\ o \in Object /\ Reloaded(rows, o) /\ Passed(rows, o.first, folded)
           /\ Passed(rows, column', folded) /\ column' \in Int /\ (column' = -1 => column = -1)
  <1>1. Dense(rows) /\ (column = -1 => rows = <<>>) /\ Passed(rows, column, folded)
    BY DEF Sound, Disk, Recalled
  <1>2. edits \in Nat /\ column \in -1 .. edits /\ LoadFrom \in 0 .. edits
    BY Numbers, LoadFromType DEF TypeInv, RowsInv
  <1>3. Passed(rows, LoadFrom, folded)
    BY <1>1, LoadPassed
  <1>4. CASE column # -1 /\ \E n \in 0 .. 2 * MaxEvents : Read(n) /\ o = LoadedFrom(n)
    <2>1. PICK n \in 0 .. 2 * MaxEvents : Read(n) /\ o = LoadedFrom(n)
      BY <1>4
    <2>2. n \in 0 .. edits /\ n \in {column, LoadFrom} /\ column' \in {column, LoadFrom}
      BY <2>1, ReadIs
    <2>3. Inside(o, edits) /\ o.first = n /\ Reloaded(rows, o)
      BY <1>1, <2>1, <2>2, LoadedInside, LoadedReloaded
    <2> QED
      BY <1>1, <1>2, <1>3, <1>4, <2>2, <2>3 DEF Inside
  <1>5. CASE NotFound /\ o = Blank /\ UNCHANGED column
    <2>1. column = -1 /\ rows = <<>>
      BY <1>1, <1>5 DEF NotFound
    <2>2. Blank \in Object /\ Reloaded(rows, Blank)
      BY <2>1, BlankInside, BlankReloaded DEF Inside
    <2> QED
      BY <1>1, <1>2, <1>5, <2>1, <2>2 DEF Passed
  <1> QED
    BY <1>4, <1>5 DEF Opened

LEMMA LoadSound ==
    ASSUME TypeInv, Sound, Load \/ Create, hurt' = {}
    PROVE  Sound'
  <1>0. PICK o : /\ Opened(o) /\ live = 0 /\ obj' = Append(obj, o) /\ live' = Len(obj) + 1
                 /\ op' = Touched(op) /\ UNCHANGED <<rows, torn, folded>>
    BY DEF Load, Create, Opened
  <1>1. /\ live = 0 /\ obj' = Append(obj, o) /\ live' = Len(obj) + 1 /\ op' = Touched(op)
        /\ column' \in Int /\ (column' = -1 => column = -1) /\ UNCHANGED <<rows, torn>>
    BY <1>0, OpenedSound
  <1>2. Len(obj) \in Nat /\ obj \in Seq(Object) /\ \A x \in Saver : op[x] \in Call(edits, Len(obj))
    BY Numbers, CallsAre
  <1>3. ~torn /\ Dense(rows)
    BY <1>1 DEF Sound, Disk
  <1>4. Reloaded(rows, o) /\ o \in Object
    BY <1>0, OpenedSound
  <1>12. Passed(rows, o.first, folded) /\ Passed(rows, column', folded) /\ folded' = folded
    BY <1>0, OpenedSound
  <1>6. \A x \in Saver : /\ op'[x].pc = op[x].pc /\ op'[x].target = op[x].target
                         /\ op[x].target \in 0 .. Len(obj) /\ (op[x].pc = "loading" => op'[x].touched)
                         /\ Kept(op[x], op'[x])
    <2>1. \A x \in Saver : Kept(op[x], op'[x])
      BY <1>1, <1>2, TouchedKept
    <2>2. ASSUME NEW x \in Saver, op[x].pc = "loading" PROVE op'[x].touched
      BY <1>1, <1>2, <2>2 DEF Touched, Call
    <2> QED
      BY <1>2, <2>1, <2>2 DEF Kept, Call
  <1>7. live' # 0 /\ obj'[live'] = o /\ \A x \in Saver : op'[x].target # live'
    BY <1>1, <1>2, <1>4, <1>6
  <1>8. Live(rows', obj'[live'], live', op') /\ Clear(rows', column', obj'[live'], live', op', torn', folded')
    <2>1. \A x \in Saver : ~On(op'[x], live')
      BY <1>7 DEF On
    <2>2. Live(rows', obj'[live'], live', op')
      BY <1>1, <1>4, <1>7, <2>1, ReloadedLive
    <2>3. Clear(rows', column', obj'[live'], live', op', torn', folded')
      BY <1>1, <1>4, <1>7, <1>12, <2>1, ReloadedClear
    <2> QED
      BY <2>2, <2>3
  <1>9. Disk'
    BY <1>1, <1>3, <1>6, <1>7 DEF Sound, Disk
  <1>10. Shapes'
    BY <1>6, ShapesKept DEF Sound
  <1>11. Loading'
    BY <1>6, <1>7 DEF Sound, Loading
  <1>13. Recalled'
    BY <1>6, <1>7, <1>8 DEF Recalled
  <1> QED
    BY <1>8, <1>9, <1>10, <1>11, <1>13 DEF Sound

LEMMA LoadReadSound ==
    ASSUME TypeInv, Sound, NEW s \in Saver, LoadRead(s) \/ CreateBlank(s), hurt' = {}
    PROVE  Sound'
  <1> DEFINE c == [Idle EXCEPT !.pc = "loading", !.target = Len(obj) + 1]
  <1>0. PICK o : /\ Opened(o) /\ live = 0 /\ obj' = Append(obj, o) /\ live' = 0
                 /\ op' = [op EXCEPT ![s] = c] /\ op[s].pc = "idle" /\ UNCHANGED <<rows, torn, folded>>
    BY DEF LoadRead, CreateBlank, Opened, Inserting
  <1>1. /\ live = 0 /\ obj' = Append(obj, o) /\ op' = [op EXCEPT ![s] = c] /\ live' = 0
        /\ (column' = -1 => column = -1) /\ op[s].pc = "idle" /\ UNCHANGED <<rows, torn>>
    BY <1>0, OpenedSound
  <1>2. /\ Len(obj) \in Nat /\ obj \in Seq(Object)
        /\ \A x \in Saver : op[x].target \in 0 .. Len(obj) /\ (op[x].pc # "idle" => op[x].target # 0)
    BY Numbers, CallsAre DEF Call
  <1>3. ~torn /\ Dense(rows)
    BY <1>1 DEF Sound, Disk
  <1>4. Reloaded(rows, o) /\ o \in Object
    BY <1>0, OpenedSound
  <1>5. c.pc = "loading" /\ c.target = Len(obj) + 1
    BY DEF Idle
  <1> HIDE DEF c
  <1>6. op'[s] = c /\ \A x \in Saver \ {s} : op'[x] = op[x]
    BY <1>1 DEF TypeInv, CallsInv
  <1>8. obj'[Len(obj) + 1] = o /\ \A i \in 1 .. Len(obj) : obj'[i] = obj[i]
    BY <1>1, <1>2, <1>4
  <1>9. Disk'
    BY <1>1, <1>3, <1>5, <1>6 DEF Sound, Disk
  <1>10. Shapes'
    <2>1. Shaped(c)
      BY <1>5 DEF Shaped
    <2> QED
      BY <1>6, <2>1 DEF Sound, Shapes
  <1>11. Loading'
    <2>1. \A x \in Saver : x # s => op'[x].target # Len(obj) + 1
      BY <1>2, <1>6
    <2>2. ASSUME NEW x \in Saver, op'[x].pc = "loading"
          PROVE  /\ op'[x].target # live'
                 /\ \A y \in Saver : y # x => op'[y].target # op'[x].target
                 /\ ~op'[x].touched => live' = 0 /\ Reloaded(rows', obj'[op'[x].target])
      <3>1. CASE x = s
        BY <1>1, <1>2, <1>4, <1>5, <1>6, <1>8, <2>1, <3>1
      <3>2. CASE x # s
        <4>1. op'[x] = op[x] /\ op[x].pc = "loading" /\ op[x].target \in 1 .. Len(obj)
          BY <1>2, <1>6, <2>2, <3>2
        <4>2. /\ op[x].target # live
              /\ \A y \in Saver : y # x => op[y].target # op[x].target
              /\ ~op[x].touched => live = 0 /\ Reloaded(rows, obj[op[x].target])
          BY <4>1 DEF Sound, Loading
        <4>3. op'[s].target # op'[x].target
          BY <1>2, <1>5, <1>6, <4>1
        <4> QED
          BY <1>1, <1>6, <1>8, <4>1, <4>2, <4>3
      <3> QED
        BY <3>1, <3>2
    <2> QED
      BY <2>2 DEF Loading
  <1>12. Recalled'
    <2>1. Passed(rows, o.first, folded) /\ Passed(rows, column', folded) /\ folded' = folded
      BY <1>0, OpenedSound
    <2>2. ASSUME NEW x \in Saver, op'[x].pc = "loading", ~op'[x].touched
          PROVE  Passed(rows', obj'[op'[x].target].first, folded')
      <3>1. CASE x = s
        BY <1>1, <1>5, <1>6, <1>8, <2>1, <3>1
      <3>2. CASE x # s
        <4>1. op'[x] = op[x] /\ op[x].target \in 1 .. Len(obj)
          BY <1>2, <1>6, <2>2, <3>2
        <4>2. Passed(rows, obj[op[x].target].first, folded)
          BY <2>2, <4>1 DEF Sound, Recalled
        <4> QED
          BY <1>1, <1>8, <2>1, <4>1, <4>2
      <3> QED
        BY <3>1, <3>2
    <2> QED
      BY <1>1, <2>1, <2>2 DEF Recalled
  <1> QED
    BY <1>1, <1>9, <1>10, <1>11, <1>12 DEF Sound

LEMMA InstallSound ==
    ASSUME TypeInv, Sound, NEW s \in Saver, LoadInstall(s), hurt' = {}
    PROVE  Sound'
  <1> DEFINE calls == [op EXCEPT ![s] = Idle]
  <1>1. /\ op[s].pc = "loading" /\ ~op[s].touched /\ live' = op[s].target /\ op' = Touched(calls)
        /\ UNCHANGED <<rows, column, obj, torn, folded>>
    BY DEF LoadInstall
  <1>2. /\ op[s].target # 0 /\ op[s].target \in 1 .. Len(obj) /\ Len(obj) \in Nat /\ edits \in Nat
        /\ \A i \in 1 .. Len(obj) : obj[i] \in Object
    BY <1>1, CallsAre, Numbers DEF Call, Inside
  <1>3. live = 0 /\ Reloaded(rows, obj[op[s].target]) /\ \A x \in Saver : x # s => op[x].target # op[s].target
    BY <1>1 DEF Sound, Loading
  <1>4. /\ calls[s] = Idle /\ \A x \in Saver \ {s} : calls[x] = op[x]
        /\ \A x \in Saver : calls[x] \in Call(edits, Len(obj))
    <2>1. Idle \in Call(edits, Len(obj))
      BY <1>2, IdleSane DEF Sane
    <2>2. calls[s] = Idle /\ \A x \in Saver \ {s} : calls[x] = op[x]
      BY DEF TypeInv, CallsInv
    <2> QED
      BY <2>1, <2>2, CallsAre
  <1> HIDE DEF calls
  <1>5. \A x \in Saver : Kept(calls[x], op'[x])
    BY <1>1, <1>4, TouchedKept
  <1>6. op'[s].pc = "idle" /\ Idle.pc = "idle"
    BY <1>4, <1>5 DEF Kept, Idle
  <1>7. \A x \in Saver \ {s} : Kept(op[x], op'[x]) /\ op'[x].pc = op[x].pc /\ op'[x].target = op[x].target
    BY <1>4, <1>5 DEF Kept
  <1>8. ASSUME NEW x \in Saver, op'[x].pc = "loading" PROVE x # s /\ op'[x].touched
    <2>1. x # s /\ calls[x] = op[x] /\ op[x].pc = "loading" /\ op[x] \in Call(edits, Len(obj))
      BY <1>4, <1>6, <1>7, <1>8
    <2>2. op'[x] = [op[x] EXCEPT !.touched = op[x].pc = "loading" \/ op[x].why = "evict"]
      BY <1>1, <2>1 DEF Touched
    <2> QED
      BY <2>1, <2>2 DEF Call
  <1>9. Live(rows', obj'[live'], live', op') /\ Clear(rows', column', obj'[live'], live', op', torn', folded')
    <2>1. \A x \in Saver : ~On(op'[x], live')
      BY <1>1, <1>3, <1>6, <1>7 DEF On, InFlight
    <2>2. Live(rows', obj'[live'], live', op')
      BY <1>1, <1>2, <1>3, <2>1, ReloadedLive
    <2>3. Passed(rows, obj[op[s].target].first, folded) /\ Passed(rows, column, folded)
      BY <1>1, <1>3 DEF Sound, Recalled
    <2>4. Clear(rows', column', obj'[live'], live', op', torn', folded')
      BY <1>1, <1>3, <2>1, <2>3, ReloadedClear
    <2> QED
      BY <2>2, <2>4
  <1>10. Disk'
    BY <1>1, <1>2, <1>3, <1>6, <1>7 DEF Sound, Disk
  <1>11. Shapes'
    BY <1>6, <1>7 DEF Sound, Shapes, Shaped, Kept
  <1>12. Loading'
    <2>1. ASSUME NEW x \in Saver, op'[x].pc = "loading"
          PROVE  op'[x].target # live' /\ \A y \in Saver : y # x => op'[y].target # op'[x].target
      <3>1. x # s /\ op[x].pc = "loading" /\ op'[x].target = op[x].target
        BY <1>7, <1>8, <2>1
      <3>2. \A y \in Saver : y # x => op[y].target # op[x].target
        BY <3>1 DEF Sound, Loading
      <3>3. op'[s].target = 0 /\ op[x].target # 0
        <4>1. Idle.target = 0
          BY DEF Idle
        <4> QED
          BY <1>4, <1>5, <3>1, <4>1, CallsAre DEF Kept
      <3> QED
        BY <1>1, <1>3, <1>7, <3>1, <3>2, <3>3
    <2> QED
      BY <1>8, <2>1 DEF Loading
  <1>13. Recalled'
    BY <1>1, <1>2, <1>8, <1>9 DEF Recalled
  <1> QED
    BY <1>9, <1>10, <1>11, <1>12, <1>13 DEF Sound

LEMMA RestartSound ==
    ASSUME TypeInv, Sound, Restart, hurt' = {}
    PROVE  Sound'
  <1>1. /\ live' = 0 /\ op' = [s \in Saver |-> Idle] /\ ~torn /\ UNCHANGED <<rows, column, torn, folded>>
    BY DEF Restart, Torn
  <1>2. \A s \in Saver : op'[s] = Idle /\ Idle.pc = "idle"
    BY <1>1 DEF Idle
  <1>3. Passed(rows, column, folded)
    <2>1. CASE live = 0
      BY <2>1 DEF Sound, Recalled
    <2>2. CASE live # 0
      <3>1. obj[live] \in Object
        BY <2>2, Numbers DEF Inside
      <3>2. Clear(rows, column, obj[live], live, op, torn, folded)
        BY <2>2 DEF Sound, Recalled
      <3> QED
        BY <3>1, <3>2, ClearPassed
    <2> QED
      BY <2>1, <2>2
  <1>4. Recalled'
    BY <1>1, <1>2, <1>3 DEF Recalled
  <1> QED
    BY <1>1, <1>2, <1>4 DEF Sound, Disk, Shapes, Shaped, Loading

LEMMA SoundInit ==
    ASSUME Init
    PROVE  Sound
  <1>1. \A s \in Saver : op[s] = Idle /\ Idle.pc = "idle"
    BY DEF Init, Idle
  <1>2. Recalled
    BY <1>1 DEF Init, Recalled, Passed
  <1> QED
    BY <1>1, <1>2 DEF Init, Sound, Disk, Shapes, Shaped, Loading, Dense

-----------------------------------------------------------------------------
(* Saves execute their statements.                                         *)

\* d is c, which may have learned that a newer save has written.
Sided(c, d) == /\ d.pc = c.pc /\ d.kind = c.kind /\ d.target = c.target /\ d.col = c.col
               /\ d.put = c.put /\ d.update = c.update /\ d.cut = c.cut /\ d.moved = c.moved
               /\ d.owed = c.owed /\ d.failed = c.failed /\ (c.behind => d.behind)

LEMMA SidedSame ==
    ASSUME NEW c, NEW d, Sided(c, d), NEW o, NEW r, NEW i
    PROVE  /\ On(c, i) <=> On(d, i)
           /\ Exact(c, o) <=> Exact(d, o)
           /\ Done(r, c, o) <=> Done(r, d, o)
           /\ Covered(c, o) => Covered(d, o)
           /\ Pledge(c) <=> Pledge(d)
           /\ Doomed(c, o) <=> Doomed(d, o)
           /\ Outrun(c) <=> Outrun(d)
           /\ Newer(c) <=> Newer(d)
           /\ c.moved = d.moved /\ c.kind = d.kind /\ (c.behind => d.behind)
  <1>1. (On(c, i) <=> On(d, i)) /\ c.moved = d.moved /\ c.kind = d.kind /\ (c.behind => d.behind)
    BY DEF Sided, On, InFlight
  <1>2. Exact(c, o) <=> Exact(d, o)
    BY DEF Sided, Exact
  <1>3. Done(r, c, o) <=> Done(r, d, o)
    BY DEF Sided, Done
  <1>4. Covered(c, o) => Covered(d, o)
    BY DEF Sided, Covered
  <1>5. (Pledge(c) <=> Pledge(d)) /\ (Doomed(c, o) <=> Doomed(d, o))
    BY DEF Sided, Pledge, Doomed
  <1>6. (Outrun(c) <=> Outrun(d)) /\ (Newer(c) <=> Newer(d))
    BY DEF Sided, Outrun, Newer
  <1> QED
    BY <1>1, <1>2, <1>3, <1>4, <1>5, <1>6

\* A save of the object gets on, the others at most learn of it.
Onward(calls, more, s, i) ==
    /\ On(calls[s], i) /\ On(more[s], i)
    /\ more[s].kind = calls[s].kind /\ more[s].moved = calls[s].moved
    /\ \A x \in Saver \ {s} : Sided(calls[x], more[x])
    /\ Outrun(more[s]) => Outrun(calls[s]) /\ (calls[s].behind => more[s].behind)
    /\ Newer(more[s]) => \A x \in Saver \ {s} : On(calls[x], i) /\ Outrun(calls[x]) => more[x].behind

LEMMA WroteLive ==
    ASSUME NEW r, NEW t, NEW o, NEW i, NEW calls, NEW more, NEW s \in Saver, Live(r, o, i, calls),
           Onward(calls, more, s, i), calls[s].moved \/ Exact(more[s], o),
           Pledge(calls[s]) => Pledge(more[s]), ~Doomed(calls[s], o),
           Truth(r, o, i, calls) =>
              \/ Loose(more, o, i)
              \/ /\ Main(t, o) /\ Covered(more[s], o) /\ (calls[s].moved \/ Done(t, more[s], o))
                 /\ \A x \in Saver \ {s} : On(calls[x], i) /\ ~calls[x].moved => Done(t, calls[x], o)
    PROVE  Live(t, o, i, more)
  <1>1. \A x \in Saver \ {s} :
           /\ On(calls[x], i) <=> On(more[x], i)
           /\ Exact(calls[x], o) <=> Exact(more[x], o)
           /\ Done(t, calls[x], o) <=> Done(t, more[x], o)
           /\ Covered(calls[x], o) => Covered(more[x], o)
           /\ Pledge(calls[x]) <=> Pledge(more[x])
           /\ Doomed(calls[x], o) <=> Doomed(more[x], o)
           /\ Outrun(calls[x]) <=> Outrun(more[x])
           /\ Newer(calls[x]) <=> Newer(more[x])
           /\ calls[x].moved = more[x].moved /\ calls[x].kind = more[x].kind /\ (calls[x].behind => more[x].behind)
    BY SidedSame DEF Onward
  <1>2. Flags(o) /\ (Low(o) \/ Compacts(more, i))
    <2>1. Compacts(calls, i) => Compacts(more, i)
      BY <1>1 DEF Compacts, Onward
    <2> QED
      BY <2>1 DEF Live
  <1>3. \A x \in Saver : On(more[x], i) => more[x].moved \/ Exact(more[x], o)
    BY <1>1 DEF Live, Onward
  <1>4. ASSUME NEW c \in Saver, NEW d \in Saver, On(more[c], i), On(more[d], i), Outrun(more[c]), Newer(more[d])
        PROVE  more[c].behind
    <2>1. CASE c = s
      <3>1. d # s
        BY <1>4, <2>1 DEF Outrun, Newer
      <3>2. Outrun(calls[s]) /\ (calls[s].behind => more[s].behind) /\ On(calls[s], i)
        BY <1>4, <2>1 DEF Onward
      <3>3. calls[s].behind
        BY <1>1, <1>4, <3>1, <3>2 DEF Live, Overtook
      <3> QED
        BY <2>1, <3>2, <3>3
    <2>2. CASE c # s /\ d = s
      BY <1>1, <1>4, <2>2 DEF Onward
    <2>3. CASE c # s /\ d # s
      BY <1>1, <1>4, <2>3 DEF Live, Overtook
    <2> QED
      BY <2>1, <2>2, <2>3
  <1>5. Overtook(more, i)
    BY <1>4 DEF Overtook
  <1>6. Loose(calls, o, i) => Loose(more, o, i)
    <2>1. ASSUME NEW x \in Saver, On(calls[x], i), Pledge(calls[x]) \/ Doomed(calls[x], o)
          PROVE  On(more[x], i) /\ (Pledge(more[x]) \/ Doomed(more[x], o))
      BY <1>1, <2>1 DEF Onward
    <2> QED
      BY <2>1 DEF Loose
  <1>7. Truth(r, o, i, calls) /\ ~Loose(more, o, i) => Truth(t, o, i, more)
    BY <1>1 DEF Truth, Onward
  <1> QED
    BY <1>2, <1>3, <1>5, <1>6, <1>7 DEF Live

\* Of an object being compacted nothing is stale.
LEMMA BoundaryDone ==
    ASSUME NEW r, NEW c, NEW o \in Object, c.kind = "boundary", Exact(c, o), Main(r, o)
    PROVE  Done(r, c, o)
  <1>1. ~o.owed => \A q \in Upward(o) : Same(r, o, q)
    BY BoundaryUnstale DEF Main, Tells
  <1> QED
    BY <1>1 DEF Done

\* What a save that does not write rows does to them: nothing.
LEMMA OnwardLive ==
    ASSUME NEW r, NEW o \in Object, NEW i, NEW calls, NEW more, NEW s \in Saver, Live(r, o, i, calls),
           Onward(calls, more, s, i), calls[s].moved \/ Exact(more[s], o),
           calls[s].pc # "back", ~Newer(more[s]), more[s].failed \/ more[s].pc # "back" \/ more[s].kind = "boundary",
           Covered(calls[s], o) => Covered(more[s], o)
    PROVE  Live(r, o, i, more)
  <1>1. (Pledge(calls[s]) => Pledge(more[s])) /\ ~Doomed(calls[s], o)
    BY DEF Pledge, Doomed, Onward
  <1>2. ASSUME Truth(r, o, i, calls), ~calls[s].moved PROVE Done(r, more[s], o)
    <2>1. CASE more[s].kind = "boundary"
      BY <1>2, <2>1, BoundaryDone DEF Truth
    <2>2. CASE more[s].kind # "boundary"
      BY <1>2, <2>2 DEF Done, Newer, Onward
    <2> QED
      BY <2>1, <2>2
  <1>3. Truth(r, o, i, calls) => /\ Main(r, o) /\ Covered(more[s], o)
                                 /\ \A x \in Saver \ {s} : On(calls[x], i) /\ ~calls[x].moved => Done(r, calls[x], o)
    BY DEF Truth, Onward
  <1> QED
    BY <1>1, <1>2, <1>3, WroteLive

-----------------------------------------------------------------------------
(* Rows are written.                                                       *)

Agree(r, t, q) == (q \in DOMAIN r <=> q \in DOMAIN t) /\ (q \in DOMAIN r => r[q] = t[q])

\* Where the rows were what the object holds, they still are.
LEMMA StillDone ==
    ASSUME NEW r, NEW t, NEW o \in Object, NEW c, Done(r, c, o),
           \A q \in Upward(o) : Same(r, o, q) => Same(t, o, q),
           ~c.moved, ~Doomed(c, o)
    PROVE  Done(t, c, o)
  <1>1. o.cut \in Int /\ o.first \in Nat /\ End(o) \in Nat /\ End(o) = o.first + Len(o.msgs) /\ Len(o.msgs) \in Nat
    BY ObjectIs
  <1>2. ASSUME c.kind = "delete", ~c.failed, c.pc = "back", ~o.owed, NEW q \in Nat, q >= o.cut
        PROVE  q \notin DOMAIN t
    <2>1. o.cut # -1 /\ End(o) <= o.cut
      BY <1>1, <1>2 DEF Doomed
    <2>2. q >= End(o) /\ q >= o.first /\ q \in Upward(o)
      BY <1>1, <1>2, <2>1 DEF Upward
    <2>3. q \notin DOMAIN r
      BY <1>2 DEF Done
    <2>4. ~(q < End(o))
      BY <1>1, <2>2
    <2> QED
      BY <2>2, <2>3, <2>4 DEF Same
  <1> QED
    BY <1>2 DEF Done

\* A save of an object not mutated meanwhile has written.
LEMMA UnmovedWrote ==
    ASSUME NEW r, NEW t, NEW o \in Object, NEW i, NEW calls, NEW more, NEW s \in Saver, Live(r, o, i, calls),
           Onward(calls, more, s, i), ~calls[s].moved, Exact(more[s], o),
           calls[s].kind # "boundary", calls[s].pc # "back",
           ~Doomed(more[s], o) /\ Main(r, o) => \A q \in Upward(o) : Agree(r, t, q) \/ Same(t, o, q),
           ~Doomed(more[s], o) /\ Main(r, o) /\ Done(r, calls[s], o) => Done(t, more[s], o)
    PROVE  Live(t, o, i, more)
  <1>1. (Pledge(calls[s]) => Pledge(more[s])) /\ ~Doomed(calls[s], o)
    BY DEF Pledge, Doomed
  <1>2. Covered(more[s], o)
    BY ExactCovered
  <1>3. ASSUME Truth(r, o, i, calls), ~Loose(more, o, i)
        PROVE  /\ Main(t, o) /\ Done(t, more[s], o)
               /\ \A x \in Saver \ {s} : On(calls[x], i) /\ ~calls[x].moved => Done(t, calls[x], o)
    <2>1. Main(r, o) /\ Done(r, calls[s], o)
      BY <1>3 DEF Truth, Onward
    <2>2. \A x \in Saver : On(more[x], i) => ~Doomed(more[x], o)
      BY <1>3 DEF Loose
    <2>3. Done(t, more[s], o) /\ \A q \in Upward(o) : Agree(r, t, q) \/ Same(t, o, q)
      BY <2>1, <2>2 DEF Onward
    <2>4. \A q \in Upward(o) : (Same(r, o, q) => Same(t, o, q)) /\ (Present(r, o, q) => Present(t, o, q))
      BY <2>3 DEF Agree, Same, Present
    <2>5. Main(t, o)
      BY <2>1, <2>3, <2>4 DEF Main, Tells
    <2>6. ASSUME NEW x \in Saver \ {s}, On(calls[x], i), ~calls[x].moved PROVE Done(t, calls[x], o)
      <3>1. Sided(calls[x], more[x])
        BY DEF Onward
      <3>2. ~Doomed(calls[x], o)
        BY <2>2, <2>6, <3>1, SidedSame
      <3>3. Done(r, calls[x], o)
        BY <1>3, <2>6 DEF Truth
      <3> QED
        BY <2>4, <2>6, <3>2, <3>3, StillDone
    <2> QED
      BY <2>3, <2>5, <2>6
  <1> QED
    BY <1>1, <1>2, <1>3, WroteLive

\* An incremental save of an object mutated meanwhile, that no newer save has
\* overtaken.
LEMMA MovedWrote ==
    ASSUME NEW r, NEW t, NEW o \in Object, NEW i, NEW calls, NEW more, NEW s \in Saver, Live(r, o, i, calls),
           Onward(calls, more, s, i), calls[s].moved, calls[s].kind = "incremental", calls[s].pc # "back",
           ~calls[s].behind, Covered(calls[s], o) => Covered(more[s], o),
           Covered(calls[s], o) /\ Main(r, o) => Main(t, o)
    PROVE  Live(t, o, i, more)
  <1>1. (Pledge(calls[s]) => Pledge(more[s])) /\ ~Doomed(calls[s], o)
    BY DEF Pledge, Doomed
  <1>2. ASSUME Truth(r, o, i, calls)
        PROVE  /\ Main(t, o) /\ Covered(more[s], o)
               /\ \A x \in Saver \ {s} : On(calls[x], i) /\ ~calls[x].moved => Done(t, calls[x], o)
    <2>1. Main(r, o) /\ Covered(calls[s], o)
      BY <1>2 DEF Truth, Onward
    <2>2. ASSUME NEW x \in Saver \ {s}, On(calls[x], i), ~calls[x].moved PROVE Done(t, calls[x], o)
      <3>1. ~Newer(calls[x])
        BY <2>2 DEF Live, Overtook, Outrun, Onward
      <3>2. CASE calls[x].kind = "boundary"
        <4>1. Exact(calls[x], o)
          BY <2>2 DEF Live
        <4> QED
          BY <2>1, <3>2, <4>1, BoundaryDone
      <3>3. CASE calls[x].kind # "boundary"
        BY <2>2, <3>1, <3>3 DEF Done, Newer
      <3> QED
        BY <3>2, <3>3
    <2> QED
      BY <2>1, <2>2
  <1> QED
    BY <1>1, <1>2, WroteLive

\* Any other save then orders a full rewrite.
LEMMA PledgedWrote ==
    ASSUME NEW r, NEW t, NEW o, NEW i, NEW calls, NEW more, NEW s \in Saver, Live(r, o, i, calls),
           Onward(calls, more, s, i), calls[s].moved, calls[s].kind # "incremental", calls[s].pc # "back",
           more[s].pc = "back", ~more[s].failed
    PROVE  Live(t, o, i, more)
  <1>1. (Pledge(calls[s]) => Pledge(more[s])) /\ ~Doomed(calls[s], o) /\ Pledge(more[s])
    BY DEF Pledge, Doomed, Onward
  <1>2. Loose(more, o, i)
    BY <1>1 DEF Loose, Onward
  <1> QED
    BY <1>1, <1>2, WroteLive

-----------------------------------------------------------------------------
(* The steps of a save without the lock.                                   *)

\* A step of a save changes neither the loads nor the other calls.
LEMMA OthersKept ==
    ASSUME TypeInv, Loading, Shapes, live' = live, obj' = obj, rows' = rows \/ live # 0,
           NEW s \in Saver, InFlight(op[s]), Shaped(op'[s]), InFlight(op'[s]), op'[s].target = op[s].target,
           \A x \in Saver \ {s} : Sided(op[x], op'[x]) /\ op'[x].touched = op[x].touched
    PROVE  Loading' /\ Shapes'
  <1>1. Shapes'
    <2>1. ASSUME NEW x \in Saver PROVE Shaped(op'[x])
      BY DEF Shapes, Shaped, Sided
    <2> QED
      BY <2>1 DEF Shapes
  <1>2. \A x \in Saver : op'[x].target = op[x].target
    BY DEF Sided
  <1>3. ASSUME NEW x \in Saver, op'[x].pc = "loading"
        PROVE  /\ op'[x].target # live'
               /\ \A y \in Saver : y # x => op'[y].target # op'[x].target
               /\ ~op'[x].touched => live' = 0 /\ Reloaded(rows', obj'[op'[x].target])
    <2>1. x # s
      BY <1>3 DEF InFlight
    <2>2. op[x].pc = "loading" /\ op'[x].touched = op[x].touched
      BY <1>3, <2>1 DEF Sided
    <2> QED
      BY <1>2, <2>2 DEF Loading
  <1> QED
    BY <1>1, <1>3 DEF Loading

LEMMA OffLive ==
    ASSUME NEW r, NEW o, NEW i, NEW calls, NEW more, NEW s \in Saver, Live(r, o, i, calls),
           ~On(calls[s], i), ~On(more[s], i), \A x \in Saver \ {s} : more[x] = calls[x]
    PROVE  Live(r, o, i, more)
  <1>1. \A x \in Saver : On(more[x], i) => On(calls[x], i) /\ more[x] = calls[x]
    OBVIOUS
  <1>2. \A x \in Saver : On(calls[x], i) => On(more[x], i) /\ more[x] = calls[x]
    OBVIOUS
  <1>3. Loose(calls, o, i) => Loose(more, o, i)
    BY <1>2 DEF Loose
  <1>4. Compacts(calls, i) => Compacts(more, i)
    BY <1>2 DEF Compacts
  <1>5. Overtook(calls, i) => Overtook(more, i)
    BY <1>1 DEF Overtook
  <1>6. Truth(r, o, i, calls) => Truth(r, o, i, more)
    BY <1>1 DEF Truth
  <1> QED
    BY <1>1, <1>3, <1>4, <1>5, <1>6 DEF Live

\* c takes a step to d that writes no rows.
Steps(c, d) ==
    /\ InFlight(d) /\ d.target = c.target /\ d.kind = c.kind /\ d.moved = c.moved /\ Shaped(d)
    /\ Outrun(d) => Outrun(c) /\ d.behind = c.behind
    /\ ~Newer(d) /\ d.pc # "update"
    /\ d.failed \/ d.pc # "back" \/ d.kind = "boundary"
    /\ \A o : Covered(c, o) => Covered(d, o)

\* What a step of a save without the lock has to leave for a load.
LEMMA StepRecalled ==
    ASSUME TypeInv, Sound, NEW s \in Saver, InFlight(op[s]), NEW d, InFlight(d), d.target = op[s].target,
           op' = [op EXCEPT ![s] = d], UNCHANGED <<rows, obj, live, torn, folded>>,
           column' = column \/ (column' \in {0, -1} /\ live = 0) \/ (live # 0 /\ column' <= obj[live].first),
           On(op[s], live) => /\ d.pc \in {"rows", "update"} => column' <= obj[live].first
                              /\ Fair(d, obj[live], folded)
                              /\ torn \/ Finished(rows, d, obj[live])
    PROVE  Recalled'
  <1>1. op'[s] = d /\ \A x \in Saver \ {s} : op'[x] = op[x]
    BY DEF TypeInv, CallsInv
  <1>2. \A x \in Saver : On(op'[x], live) <=> On(op[x], live)
    BY <1>1 DEF On
  <1>3. ASSUME live = 0 PROVE Passed(rows, column', folded)
    <2>1. CASE column' = column
      BY <1>3, <2>1 DEF Sound, Recalled
    <2>2. CASE column' \in {0, -1}
      <3>1. edits \in Nat /\ rows \in Rows(edits)
        BY Numbers DEF TypeInv, RowsInv
      <3>2. DOMAIN rows \subseteq 0 .. edits - 1
        BY <3>1, RowsCounted
      <3>3. \A q \in DOMAIN rows : ~(q < column')
        BY <2>2, <3>1, <3>2
      <3> QED
        BY <3>3 DEF Passed
    <2> QED
      BY <1>3, <2>1, <2>2
  <1>4. ASSUME live # 0 PROVE Clear(rows, column', obj[live], live, op', torn, folded)
    <2>1. Clear(rows, column, obj[live], live, op, torn, folded)
      BY <1>4 DEF Sound, Recalled
    <2>2. \A x \in Saver : On(op'[x], live) => Fair(op'[x], obj[live], folded) /\ (torn \/ Finished(rows, op'[x], obj[live]))
      BY <1>1, <1>2, <2>1 DEF Clear
    <2>3. Bounded(rows, column', obj[live].first, live, op', folded)
      <3>1. CASE column' <= obj[live].first
        BY <3>1 DEF Bounded
      <3>2. CASE ~(column' <= obj[live].first)
        <4>1. column' = column
          BY <1>4, <3>2
        <4>2. /\ Passed(rows, column, folded)
              /\ \A x \in Saver : On(op[x], live) => op[x].pc \notin {"rows", "update"}
          BY <2>1, <3>2, <4>1 DEF Clear, Bounded
        <4>3. \A x \in Saver : On(op'[x], live) => op'[x].pc \notin {"rows", "update"}
          BY <1>1, <1>2, <3>2, <4>2
        <4> QED
          BY <4>1, <4>2, <4>3 DEF Bounded
      <3> QED
        BY <3>1, <3>2
    <2> QED
      BY <2>1, <2>2, <2>3 DEF Clear
  <1>5. ASSUME NEW x \in Saver, op'[x].pc = "loading", ~op'[x].touched
        PROVE  Passed(rows, obj[op'[x].target].first, folded)
    <2>1. op'[x] = op[x]
      BY <1>1, <1>5 DEF InFlight
    <2> QED
      BY <1>5, <2>1 DEF Sound, Recalled
  <1> QED
    BY <1>3, <1>4, <1>5 DEF Recalled

LEMMA StepSound ==
    ASSUME TypeInv, Sound, NEW s \in Saver, InFlight(op[s]), op[s].pc # "back",
           NEW d, Steps(op[s], d), op' = [op EXCEPT ![s] = d], UNCHANGED <<rows, obj, live, torn, folded>>,
           column' = -1 => column = -1 /\ d.pc # "rows",
           On(op[s], live) /\ ~op[s].moved /\ Exact(op[s], obj[live]) => Exact(d, obj[live]),
           column' = column \/ (column' \in {0, -1} /\ live = 0) \/ (live # 0 /\ column' <= obj[live].first),
           On(op[s], live) => /\ d.pc \in {"rows", "update"} => column' <= obj[live].first
                              /\ Fair(d, obj[live], folded)
                              /\ torn \/ Finished(rows, d, obj[live])
    PROVE  Sound'
  <1>1. op'[s] = d /\ \A x \in Saver \ {s} : op'[x] = op[x]
    BY DEF TypeInv, CallsInv
  <1>2. \A x \in Saver \ {s} : Sided(op[x], op'[x]) /\ op'[x].touched = op[x].touched
    BY <1>1 DEF Sided
  <1>3. Disk'
    <2>1. column' = -1 => \A x \in Saver : op'[x].pc \notin {"rows", "update"}
      BY <1>1 DEF Sound, Disk, Steps
    <2>2. column' = -1 => rows' = <<>>
      BY DEF Sound, Disk
    <2>3. (live' = 0 => ~torn') /\ (torn' \/ Dense(rows'))
      BY DEF Sound, Disk
    <2> QED
      BY <2>1, <2>2, <2>3 DEF Disk
  <1>4. Loading' /\ Shapes'
    BY <1>1, <1>2, OthersKept DEF Sound, Steps
  <1>5. ASSUME live # 0 PROVE Live(rows, obj[live], live, op')
    <2>1. Live(rows, obj[live], live, op) /\ obj[live] \in Object
      <3>1. live \in 1 .. Len(obj)
        BY <1>5, Numbers
      <3> QED
        BY <1>5, <3>1, Numbers DEF Sound
    <2>2. CASE On(op[s], live)
      <3>1. On(op'[s], live)
        BY <1>1, <2>2 DEF On, Steps
      <3>2. Onward(op, op', s, live)
        BY <1>1, <1>2, <2>2, <3>1 DEF Onward, Steps
      <3>3. op[s].moved \/ Exact(op'[s], obj[live])
        BY <1>1, <2>1, <2>2 DEF Live
      <3>4. /\ ~Newer(op'[s]) /\ (op'[s].failed \/ op'[s].pc # "back" \/ op'[s].kind = "boundary")
            /\ (Covered(op[s], obj[live]) => Covered(op'[s], obj[live]))
        BY <1>1 DEF Steps
      <3> QED
        BY <2>1, <3>2, <3>3, <3>4, OnwardLive
    <2>3. CASE ~On(op[s], live)
      <3>1. ~On(op'[s], live)
        BY <1>1, <2>3 DEF On, Steps
      <3> QED
        BY <1>1, <2>1, <2>3, <3>1, OffLive
    <2> QED
      BY <2>2, <2>3
  <1>6. Recalled'
    BY StepRecalled DEF Steps
  <1> QED
    BY <1>3, <1>4, <1>5, <1>6 DEF Sound

LEMMA FailSound ==
    ASSUME TypeInv, Sound, NEW s \in Saver, InFlight(op[s]), op[s].pc # "back", Fail(s),
           UNCHANGED <<rows, column, obj, live, torn, folded>>
    PROVE  Sound'
  <1> DEFINE c == op[s]
             d == [Landed(c) EXCEPT !.failed = TRUE]
  <1>1. c \in Call(edits, Len(obj)) /\ op' = [op EXCEPT ![s] = d]
    BY CallsAre DEF Fail
  <1>2. /\ d.pc = "back" /\ d.kind = c.kind /\ d.target = c.target /\ d.col = c.col /\ d.moved = c.moved
        /\ d.failed
    BY <1>1 DEF Landed, Call
  <1> HIDE DEF d
  <1>3. Steps(c, d)
    BY <1>2 DEF Steps, InFlight, Shaped, Outrun, Newer, Covered
  <1>4. Exact(c, obj[live]) => Exact(d, obj[live])
    BY <1>2 DEF Exact
  <1>5. column' = -1 => column = -1 /\ d.pc # "rows"
    BY <1>2
  <1>6. Fair(d, obj[live], folded) /\ Finished(rows, d, obj[live])
    <2>1. \A q, m : ~Puts(d, q, m)
      BY <1>2 DEF Puts
    <2> QED
      BY <1>2, <2>1 DEF Fair, Agrees, Under, Finished
  <1> QED
    BY <1>1, <1>2, <1>3, <1>4, <1>5, <1>6, StepSound

\* Rows from the first seq on, without a hole.
LEMMA ListedWhole ==
    ASSUME NEW n \in Nat, NEW r \in Rows(n), NEW l \in Nat, DOMAIN r = 0 .. l - 1
    PROVE  Len(Listed(r)) = l /\ \A q \in 0 .. l - 1 : Listed(r)[q + 1] = r[q]
  <1>1. 0 \in Nat /\ 0 <= l /\ l - 0 = l
    OBVIOUS
  <1>2. Len(Listed(r)) = l - 0 /\ \A q \in 0 .. l - 1 : Listed(r)[q - 0 + 1] = r[q]
    BY <1>1, ListedOf
  <1>3. \A q \in 0 .. l - 1 : q - 0 + 1 = q + 1
    OBVIOUS
  <1>4. ASSUME NEW q \in 0 .. l - 1 PROVE Listed(r)[q + 1] = r[q]
    BY <1>2, <1>3
  <1> QED
    BY <1>1, <1>2, <1>4

\* A full rewrite with the evicted rows in front of it.
LEMMA RewriteIs ==
    ASSUME TypeInv, NEW s \in Saver, op[s].pc = "meta", op[s].kind = "full"
    PROVE  LET d == WithEvicted(op[s])
           IN /\ d.pc = "rows" /\ d.kind = "full" /\ d.target = op[s].target /\ d.moved = op[s].moved
              /\ d.failed = op[s].failed /\ d.behind = op[s].behind /\ Dense(d.put)
              /\ \A o \in Object : /\ Below(op[s].col) \subseteq DOMAIN rows
                                   /\ op[s].col = o.first /\ op[s].put = RowsFrom(0, o.msgs)
                    => d.col = o.first /\ \A q \in Upward(o) : Same(d.put, o, q)
  <1> DEFINE c       == op[s]
             part    == Only(rows, Below(c.col))
             evicted == Listed(part)
             own     == Listed(c.put)
             all     == evicted \o own
             put     == RowsFrom(0, all)
             d == [c EXCEPT !.pc = "rows", !.col = Len(evicted), !.put = put]
  <1>1. /\ edits \in Nat /\ rows \in Rows(edits) /\ c \in Call(edits, Len(obj)) /\ c.put \in Rows(edits)
        /\ c.col \in Nat
    BY Numbers, CallsAre DEF TypeInv, RowsInv, Call
  <1>2. part \in Rows(edits) /\ DOMAIN part = DOMAIN rows \cap Below(c.col)
    BY <1>1, OnlyType
  <1>3. evicted \in Seq(Message) /\ own \in Seq(Message)
    BY <1>1, <1>2, ListedType
  <1>p. \A q \in DOMAIN part : part[q] = rows[q]
    BY DEF Only
  <1> HIDE DEF evicted, own, part
  <1>4. all \in Seq(Message)
    <2>1. \A x, y \in Seq(Message) : x \o y \in Seq(Message)
      OBVIOUS
    <2> QED
      BY <1>3, <2>1, Zenon
  <1>5. Len(evicted) \in Nat /\ Len(own) \in Nat /\ Len(all) = Len(evicted) + Len(own)
    BY <1>3
  <1>a. \A j \in 1 .. Len(own) : all[Len(evicted) + j] = own[j]
    BY <1>3
  <1> HIDE DEF all
  <1>6. Dense(put) /\ DOMAIN put = 0 .. Len(all) - 1
    BY <1>4, DenseRows
  <1>7. \A q \in 0 .. Len(all) - 1 : put[q] = all[q + 1]
    BY <1>4 DEF RowsFrom
  <1> HIDE DEF put
  <1>8. /\ d.pc = "rows" /\ d.kind = "full" /\ d.target = c.target /\ d.moved = c.moved
        /\ d.failed = c.failed /\ d.behind = c.behind /\ d.put = put /\ d.col = Len(evicted)
    BY <1>1 DEF Call
  <1>9. ASSUME NEW o \in Object, Below(c.col) \subseteq DOMAIN rows, c.col = o.first, c.put = RowsFrom(0, o.msgs)
        PROVE  Len(evicted) = o.first /\ \A q \in Upward(o) : Same(put, o, q)
    <2>0. /\ o.msgs \in Seq(Message) /\ Len(o.msgs) \in Nat /\ o.first \in Nat
          /\ End(o) = o.first + Len(o.msgs)
      BY ObjectIs
    <2>1. DOMAIN part = 0 .. o.first - 1
      BY <1>2, <1>9 DEF Below
    <2>2. Len(evicted) = o.first
      BY <1>1, <1>2, <2>0, <2>1, ListedWhole DEF evicted
    <2>3. DOMAIN c.put = 0 .. Len(o.msgs) - 1 /\ \A q \in 0 .. Len(o.msgs) - 1 : c.put[q] = o.msgs[q + 1]
      BY <1>9, <2>0, DenseRows DEF RowsFrom
    <2>4. Len(own) = Len(o.msgs) /\ \A q \in 0 .. Len(o.msgs) - 1 : own[q + 1] = o.msgs[q + 1]
      <3> HIDE DEF c
      <3>1. Len(Listed(c.put)) = Len(o.msgs) /\ \A q \in 0 .. Len(o.msgs) - 1 : Listed(c.put)[q + 1] = c.put[q]
        BY <1>1, <2>0, <2>3, ListedWhole
      <3> QED
        BY <2>3, <3>1 DEF own
    <2>5. Len(all) = End(o)
      BY <1>5, <2>0, <2>2, <2>4
    <2>6. ASSUME NEW q \in Upward(o) PROVE Same(put, o, q)
      <3>1. q \in Nat /\ q >= o.first
        BY DEF Upward
      <3>2. q < End(o) <=> q \in DOMAIN put
        BY <1>6, <2>0, <2>5, <3>1
      <3>3. ASSUME q < End(o) PROVE put[q] = At(o, q)
        <4>1. /\ q - o.first \in 0 .. Len(o.msgs) - 1 /\ q \in 0 .. Len(all) - 1
              /\ q - o.first + 1 \in 1 .. Len(o.msgs) /\ q + 1 = o.first + (q - o.first + 1)
          BY SMTT(30), <2>0, <2>5, <3>1, <3>3
        <4>2. put[q] = all[q + 1]
          BY <1>7, <4>1
        <4>3. all[q + 1] = own[q - o.first + 1]
          BY <1>a, <2>2, <2>4, <4>1
        <4>4. own[q - o.first + 1] = o.msgs[q - o.first + 1]
          BY <2>4, <4>1
        <4> QED
          BY <4>2, <4>3, <4>4 DEF At
      <3> QED
        BY <3>2, <3>3 DEF Same
    <2> QED
      BY <2>2, <2>6
  <1> HIDE DEF d
  <1>10. WithEvicted(op[s]) = d
    BY DEF WithEvicted, d, put, all, evicted, own, part, c
  <1> HIDE DEF c
  <1>11. /\ d.pc = "rows" /\ d.kind = "full" /\ d.target = c.target /\ d.moved = c.moved
         /\ d.failed = c.failed /\ d.behind = c.behind /\ Dense(d.put)
         /\ \A o \in Object : /\ Below(c.col) \subseteq DOMAIN rows
                              /\ c.col = o.first /\ c.put = RowsFrom(0, o.msgs)
               => d.col = o.first /\ \A q \in Upward(o) : Same(d.put, o, q)
    BY <1>6, <1>8, <1>9
  <1> QED
    BY <1>10, <1>11 DEF c

\* It writes again the rows in front of it, and its own after them.
LEMMA RewritePuts ==
    ASSUME TypeInv, NEW s \in Saver, op[s].pc = "meta", op[s].kind = "full", Dense(op[s].put),
           Below(op[s].col) \subseteq DOMAIN rows,
           NEW q, NEW m, Puts(WithEvicted(op[s]), q, m)
    PROVE  /\ q \in Nat
           /\ \/ q < op[s].col /\ q \in DOMAIN rows /\ m = rows[q]
              \/ q >= op[s].col /\ Puts(op[s], q, m)
  <1> DEFINE c == op[s]
             part    == Only(rows, Below(c.col))
             evicted == Listed(part)
             own     == Listed(c.put)
             all     == evicted \o own
             put     == RowsFrom(0, all)
             d == [c EXCEPT !.pc = "rows", !.col = Len(evicted), !.put = put]
  <1>1. /\ edits \in Nat /\ rows \in Rows(edits) /\ c \in Call(edits, Len(obj)) /\ c.put \in Rows(edits)
        /\ c.col \in Nat
    BY Numbers, CallsAre DEF TypeInv, RowsInv, Call
  <1>2. part \in Rows(edits) /\ DOMAIN part = 0 .. c.col - 1 /\ \A x \in DOMAIN part : part[x] = rows[x]
    <2>1. part \in Rows(edits) /\ DOMAIN part = DOMAIN rows \cap Below(c.col)
      BY <1>1, OnlyType
    <2>2. DOMAIN part = 0 .. c.col - 1
      BY <2>1 DEF Below
    <2> QED
      BY <2>1, <2>2 DEF Only
  <1>3. PICK l \in Nat : DOMAIN c.put = 0 .. l - 1
    <2> HIDE DEF c
    <2> QED
      BY <1>1, DenseDomain DEF c
  <1>4. evicted \in Seq(Message) /\ own \in Seq(Message)
    BY <1>1, <1>2, ListedType
  <1>5. Len(evicted) = c.col /\ \A x \in 0 .. c.col - 1 : evicted[x + 1] = part[x]
    <2> HIDE DEF c, part
    <2> QED
      BY <1>1, <1>2, ListedWhole
  <1>6. Len(own) = l /\ \A x \in 0 .. l - 1 : own[x + 1] = c.put[x]
    <2> HIDE DEF c
    <2> QED
      BY <1>1, <1>3, ListedWhole
  <1> HIDE DEF evicted, own, part
  <1>7. all \in Seq(Message)
    <2>1. \A x, y \in Seq(Message) : x \o y \in Seq(Message)
      OBVIOUS
    <2> QED
      BY <1>4, <2>1, Zenon
  <1>8. Len(all) = c.col + l /\ (\A j \in 1 .. c.col : all[j] = evicted[j]) /\ \A j \in 1 .. l : all[c.col + j] = own[j]
    <2>1. \A x, y \in Seq(Message) : /\ Len(x \o y) = Len(x) + Len(y)
                                     /\ \A j \in 1 .. Len(x) : (x \o y)[j] = x[j]
                                     /\ \A j \in 1 .. Len(y) : (x \o y)[Len(x) + j] = y[j]
      OBVIOUS
    <2>2. /\ Len(all) = Len(evicted) + Len(own)
          /\ \A j \in 1 .. Len(evicted) : all[j] = evicted[j]
          /\ \A j \in 1 .. Len(own) : all[Len(evicted) + j] = own[j]
      BY <1>4, <2>1, Zenon
    <2> HIDE DEF all
    <2> QED
      BY <1>5, <1>6, <2>2
  <1> HIDE DEF all
  <1>9. DOMAIN put = 0 .. Len(all) - 1 /\ \A x \in 0 .. Len(all) - 1 : put[x] = all[x + 1]
    <2>1. DOMAIN put = 0 .. Len(all) - 1
      BY <1>7, DenseRows
    <2> QED
      BY <1>7, <2>1 DEF RowsFrom
  <1> HIDE DEF put
  <1>10. d.kind = "full" /\ d.pc = "rows" /\ d.put = put
    BY <1>1 DEF Call
  <1> HIDE DEF d
  <1>11. WithEvicted(op[s]) = d
    BY DEF WithEvicted, d, put, all, evicted, own, part, c
  <1> HIDE DEF c
  <1>12. q \in 0 .. c.col + l - 1 /\ m = all[q + 1]
    <2>1. q \in DOMAIN put /\ m = put[q]
      BY <1>10, <1>11 DEF Puts
    <2>2. q \in 0 .. Len(all) - 1 /\ put[q] = all[q + 1]
      BY <1>9, <2>1
    <2>3. Len(all) = c.col + l
      BY <1>8
    <2>4. q \in 0 .. c.col + l - 1
      <3> DEFINE k == c.col
      <3>1. Len(all) = k + l /\ k \in Nat /\ l \in Nat
        BY <1>1, <1>3, <2>3
      <3> HIDE DEF k
      <3>2. q \in 0 .. k + l - 1
        BY <2>2, <3>1
      <3> QED
        BY <3>2 DEF k
    <2> QED
      BY <2>1, <2>2, <2>4
  <1>13. CASE q < c.col
    <2>1. q + 1 \in 1 .. c.col /\ q \in 0 .. c.col - 1
      BY <1>1, <1>12, <1>13
    <2>2. m = rows[q] /\ q \in DOMAIN rows
      BY <1>2, <1>5, <1>8, <1>12, <2>1 DEF Below, c
    <2> QED
      BY <1>12, <1>13, <2>2 DEF c
  <1>14. CASE ~(q < c.col)
    <2> DEFINE k == c.col
    <2>0. k \in Nat /\ l \in Nat /\ q \in 0 .. k + l - 1 /\ ~(q < k)
      BY <1>1, <1>3, <1>12, <1>14
    <2> HIDE DEF k
    <2>1. q - k + 1 \in 1 .. l /\ q - k \in 0 .. l - 1 /\ k + (q - k + 1) = q + 1 /\ q >= k /\ (q - k) + 1 = q - k + 1
      BY <2>0
    <2>2. m = own[q - k + 1] /\ own[q - k + 1] = c.put[q - k] /\ q - k \in DOMAIN c.put
      BY <1>3, <1>6, <1>8, <1>12, <2>1 DEF k
    <2> QED
      BY <1>12, <2>1, <2>2 DEF c, k, Puts
  <1> QED
    BY <1>13, <1>14

\* A call whose boundary is written has no messages of its own to put in front.
LEMMA MetaFair ==
    ASSUME NEW c, NEW d, NEW r, NEW o, NEW f, Fair(c, o, f), d.behind = c.behind, d.pc # "meta",
           Passed(r, o.first, f), o.first \in Nat,
           \A q : \A m : Puts(d, q, m) =>
              q \in Nat /\ ((q < o.first /\ q \in DOMAIN r /\ m = r[q]) \/ Puts(c, q, m))
    PROVE  Fair(d, o, f)
  <1>1. ASSUME ~d.behind, NEW q \in Upward(o), NEW m, Puts(d, q, m) PROVE Fits(o, q, m)
    <2>1. ~(q < o.first)
      BY DEF Upward
    <2>2. Puts(c, q, m)
      BY <1>1, <2>1
    <2> QED
      BY <1>1, <2>2 DEF Fair, Agrees
  <1>2. ASSUME NEW q \in Nat, NEW m, q < o.first, Puts(d, q, m) PROVE Known(m, f)
    <2>1. CASE q \in DOMAIN r /\ m = r[q]
      BY <1>2, <2>1 DEF Passed
    <2>2. CASE Puts(c, q, m)
      BY <1>2, <2>2 DEF Fair, Under
    <2> QED
      BY <1>2, <2>1, <2>2
  <1> QED
    BY <1>1, <1>2 DEF Fair, Agrees, Under

LEMMA MetaSound ==
    ASSUME TypeInv, Sound, NEW s \in Saver, WriteMeta(s), hurt' = {}
    PROVE  Sound'
  <1> DEFINE c == op[s]
             full == WithEvicted(c)
             back == Landed(c)
             meta == [op[s] EXCEPT !.pc = "rows", !.col = 0]
  <1>1. /\ c \in Call(edits, Len(obj)) /\ c.pc = "meta" /\ InFlight(c) /\ c.kind \in Kind /\ ~c.failed
        /\ UNCHANGED <<rows, obj, live, torn, folded>> /\ c.col \in Nat
    <2>1. c \in Call(edits, Len(obj)) /\ c.pc = "meta" /\ InFlight(c) /\ c.kind \in Kind /\ edits \in Nat
      BY CallsAre, Numbers DEF WriteMeta, InFlight
    <2>2. ~c.failed
      BY <2>1 DEF Sound, Shapes, Shaped
    <2> QED
      BY <2>1, <2>2 DEF WriteMeta, Call
  <1>2. CASE Fail(s) /\ UNCHANGED <<column, hurt>>
    BY <1>1, <1>2, FailSound
  <1>3. CASE /\ column' = IF c.kind = "boundary" /\ column = -1 THEN -1 ELSE c.col
             /\ op' = [op EXCEPT ![s] = CASE c.kind = "boundary" -> back
                                          [] c.kind = "full" -> full
                                          [] OTHER -> meta]
             /\ hurt' = hurt \cup Renumbered(s) \cup Outdated(s)
    <2>a. ASSUME On(c, live)
          PROVE  /\ Fair(c, obj[live], folded) /\ c.col <= obj[live].first /\ obj[live].first \in Nat
                 /\ Passed(rows, obj[live].first, folded)
      <3>1. live \in 1 .. Len(obj)
        BY <2>a, Numbers DEF On
      <3>2. obj[live] \in Object
        BY <3>1, Numbers
      <3>3. Clear(rows, column, obj[live], live, op, torn, folded)
        BY <3>1 DEF Sound, Recalled
      <3>4. Fair(c, obj[live], folded) /\ Passed(rows, obj[live].first, folded)
        BY <2>a, <3>3 DEF Clear
      <3> QED
        BY <1>1, <3>2, <3>4, ObjectIs DEF Fair
    <2>b. column' = column \/ (column' \in {0, -1} /\ live = 0) \/ (live # 0 /\ column' <= obj[live].first)
      <3>1. CASE live = c.target
        <4>1. live # 0
          BY <1>1, <3>1, CallsAre
        <4>2. On(c, live)
          BY <1>1, <3>1, <4>1 DEF On
        <4> QED
          BY <1>3, <2>a, <4>1, <4>2
      <3>2. CASE live # c.target
        <4>1. c.col \in {0, column}
          BY <1>3, <3>2 DEF Outdated
        <4>2. column' \in {0, column}
          BY <1>3, <4>1
        <4>3. ASSUME live # 0 PROVE 0 <= obj[live].first
          <5>1. live \in 1 .. Len(obj)
            BY <4>3, Numbers
          <5>2. obj[live] \in Object
            BY <5>1, Numbers
          <5> QED
            BY <5>2, ObjectIs
        <4> QED
          BY <4>2, <4>3
      <3> QED
        BY <3>1, <3>2
    <2>1. CASE c.kind = "boundary"
      <3>1. op' = [op EXCEPT ![s] = back]
        BY <1>3, <2>1
      <3>2. /\ back.pc = "back" /\ back.kind = c.kind /\ back.target = c.target /\ back.moved = c.moved
        BY <1>1 DEF Landed, Call
      <3> HIDE DEF back
      <3>3. Steps(c, back)
        BY <2>1, <3>2 DEF Steps, InFlight, Shaped, Outrun, Newer, Covered
      <3>4. Exact(c, obj[live]) => Exact(back, obj[live])
        BY <2>1, <3>2 DEF Exact
      <3>5. column' = -1 => column = -1 /\ back.pc # "rows"
        BY <1>1, <1>3, <3>2
      <3>6. Fair(back, obj[live], folded) /\ Finished(rows, back, obj[live])
        <4>1. \A q, m : ~Puts(back, q, m)
          BY <3>2 DEF Puts
        <4>2. \A q : Leaves(back, obj[live], q)
          BY <2>1, <3>2 DEF Leaves
        <4> QED
          BY <3>2, <4>1, <4>2 DEF Fair, Agrees, Under, Finished
      <3> QED
        BY <1>1, <2>b, <3>1, <3>2, <3>3, <3>4, <3>5, <3>6, StepSound
    <2>2. CASE c.kind = "full"
      <3>1. op' = [op EXCEPT ![s] = full] /\ column' # -1 /\ Below(c.col) \subseteq DOMAIN rows
        <4>1. column' = c.col /\ Below(c.col) \subseteq DOMAIN rows
          BY <1>3, <2>2 DEF Renumbered
        <4> HIDE DEF back, full, meta
        <4>2. op' = [op EXCEPT ![s] = full]
          BY <1>3, <2>2
        <4> QED
          BY <1>1, <4>1, <4>2
      <3>2. /\ full.pc = "rows" /\ full.kind = "full" /\ full.target = c.target /\ full.moved = c.moved
            /\ full.failed = c.failed /\ full.behind = c.behind /\ Dense(full.put)
            /\ \A o \in Object : c.col = o.first /\ c.put = RowsFrom(0, o.msgs)
                  => full.col = o.first /\ \A q \in Upward(o) : Same(full.put, o, q)
        BY <1>1, <2>2, <3>1, RewriteIs
      <3> HIDE DEF full
      <3>3. Steps(c, full)
        BY <1>1, <2>2, <3>2 DEF Steps, InFlight, Shaped, Outrun, Newer, Covered
      <3>4. ASSUME On(c, live), Exact(c, obj[live]) PROVE Exact(full, obj[live])
        <4>1. obj[live] \in Object
          <5>1. live \in 1 .. Len(obj)
            BY <3>4, Numbers DEF On
          <5> QED
            BY <5>1, Numbers
        <4>2. c.col = obj[live].first /\ c.put = RowsFrom(0, obj[live].msgs)
          BY <1>1, <2>2, <3>4 DEF Exact
        <4>3. full.col = obj[live].first /\ \A q \in Upward(obj[live]) : Same(full.put, obj[live], q)
          BY <3>2, <4>1, <4>2
        <4> QED
          BY <3>2, <4>3 DEF Exact
      <3>5. ASSUME On(c, live)
            PROVE  column' <= obj[live].first /\ Fair(full, obj[live], folded) /\ Finished(rows, full, obj[live])
        <4>1. column' = c.col
          BY <1>3, <2>2
        <4>2. \A q : Leaves(full, obj[live], q)
          BY <3>2 DEF Leaves
        <4>3. Dense(c.put)
          BY <1>1, <2>2 DEF Sound, Shapes, Shaped
        <4>4. ASSUME NEW q, NEW m, Puts(full, q, m)
              PROVE  q \in Nat /\ ((q < obj[live].first /\ q \in DOMAIN rows /\ m = rows[q]) \/ Puts(c, q, m))
          <5>1. /\ q \in Nat
                /\ (q < c.col /\ q \in DOMAIN rows /\ m = rows[q]) \/ Puts(c, q, m)
            BY <1>1, <2>2, <3>1, <4>3, <4>4, RewritePuts DEF full
          <5>2. \A x, y, z \in Nat : x < y /\ y <= z => x < z
            OBVIOUS
          <5> QED
            BY <1>1, <2>a, <3>5, <5>1, <5>2
        <4>5. Fair(full, obj[live], folded)
          BY <2>a, <3>2, <3>5, <4>4, MetaFair
        <4> QED
          BY <2>a, <3>5, <4>1, <4>2, <4>5 DEF Finished
      <3> QED
        BY <1>1, <2>b, <3>1, <3>3, <3>4, <3>5, StepSound
    <2>3. CASE c.kind \notin {"boundary", "full"}
      <3>1. op' = [op EXCEPT ![s] = meta] /\ column' # -1 /\ column' = c.col
        <4>1. c.kind # "boundary" /\ c.kind # "full"
          BY <2>3
        <4>2. column' = c.col
          BY <1>3, <4>1
        <4> HIDE DEF back, full, meta
        <4>3. op' = [op EXCEPT ![s] = meta]
          BY <1>3, <4>1
        <4> QED
          BY <1>1, <4>2, <4>3
      <3>2. /\ meta.pc = "rows" /\ meta.kind = c.kind /\ meta.target = c.target /\ meta.moved = c.moved
            /\ meta.failed = c.failed /\ meta.put = c.put /\ meta.update = c.update /\ meta.cut = c.cut
            /\ meta.behind = c.behind
        BY <1>1 DEF Call
      <3> HIDE DEF meta
      <3>3. Steps(c, meta)
        BY <1>1, <2>3, <3>2 DEF Steps, InFlight, Shaped, Outrun, Newer, Covered
      <3>4. Exact(c, obj[live]) => Exact(meta, obj[live])
        BY <1>1, <2>3, <3>2 DEF Exact
      <3>5. ASSUME On(c, live)
            PROVE  column' <= obj[live].first /\ Fair(meta, obj[live], folded) /\ Finished(rows, meta, obj[live])
        <4>1. \A q : Leaves(meta, obj[live], q)
          BY <3>2 DEF Leaves
        <4>2. ~meta.behind => \A q \in Upward(obj[live]) : \A m : Puts(meta, q, m) => Puts(c, q, m)
          BY <1>1, <2>3, <3>2 DEF Puts
        <4>3. \A q \in Nat : \A m : Puts(meta, q, m) => Puts(c, q, m)
          BY <1>1, <2>3, <3>2 DEF Puts
        <4>4. Fair(meta, obj[live], folded)
          BY <2>a, <3>2, <3>5, <4>2, <4>3 DEF Fair, Agrees, Under
        <4> QED
          BY <2>a, <3>1, <3>5, <4>1, <4>4 DEF Finished
      <3> QED
        BY <1>1, <2>b, <3>1, <3>3, <3>4, <3>5, StepSound
    <2> QED
      BY <2>1, <2>2, <2>3
  <1> QED
    BY <1>2, <1>3 DEF WriteMeta

-----------------------------------------------------------------------------
(* What each kind of statement does to the rows.                           *)

LEMMA UpdatedAt ==
    ASSUME NEW n \in Nat, NEW r \in Rows(n), NEW u \in Rows(n)
    PROVE  /\ DOMAIN Updated(r, u) = DOMAIN r
           /\ \A q \in DOMAIN r : Updated(r, u)[q] = IF q \in DOMAIN u THEN u[q] ELSE r[q]
  BY DEF Updated

LEMMA ReplacedAt ==
    ASSUME NEW n \in Nat, NEW r \in Rows(n), NEW u \in Rows(n)
    PROVE  /\ DOMAIN Replaced(r, u) = DOMAIN r \cup DOMAIN u
           /\ \A q \in DOMAIN r \cup DOMAIN u : Replaced(r, u)[q] = IF q \in DOMAIN u THEN u[q] ELSE r[q]
  BY DEF Replaced

LEMMA OnlyAt ==
    ASSUME NEW n \in Nat, NEW r \in Rows(n), NEW S
    PROVE  DOMAIN Only(r, S) = DOMAIN r \cap S /\ \A q \in DOMAIN r \cap S : Only(r, S)[q] = r[q]
  BY DEF Only

\* Rows changed in place, by a save not mutated since its snapshot.
LEMMA UpdatedSame ==
    ASSUME NEW n \in Nat, NEW r \in Rows(n), NEW u \in Rows(n), NEW o \in Object, Carried(o, u),
           NEW q \in Upward(o)
    PROVE  /\ Agree(r, Updated(r, u), q) \/ Same(Updated(r, u), o, q)
           /\ q \in DOMAIN r /\ q \in DOMAIN u => Same(Updated(r, u), o, q)
  <1> DEFINE t == Updated(r, u)
  <1>1. DOMAIN t = DOMAIN r /\ \A x \in DOMAIN r : t[x] = IF x \in DOMAIN u THEN u[x] ELSE r[x]
    BY UpdatedAt
  <1> HIDE DEF t
  <1>2. CASE q \in DOMAIN r /\ q \in DOMAIN u
    <2>1. q < End(o) /\ t[q] = At(o, q) /\ q \in DOMAIN t
      BY <1>1, <1>2 DEF Carried, Holds
    <2> QED
      BY <2>1 DEF Same, t
  <1>3. CASE ~(q \in DOMAIN r /\ q \in DOMAIN u)
    <2>1. Agree(r, t, q)
      BY <1>1, <1>3 DEF Agree
    <2> QED
      BY <1>3, <2>1 DEF t
  <1> QED
    BY <1>2, <1>3

LEMMA ReplacedSame ==
    ASSUME NEW n \in Nat, NEW r \in Rows(n), NEW u \in Rows(n), NEW o \in Object, Carried(o, u),
           NEW q \in Upward(o)
    PROVE  /\ Agree(r, Replaced(r, u), q) \/ Same(Replaced(r, u), o, q)
           /\ q \in DOMAIN u => Same(Replaced(r, u), o, q)
  <1> DEFINE t == Replaced(r, u)
  <1>1. DOMAIN t = DOMAIN r \cup DOMAIN u /\ \A x \in DOMAIN r \cup DOMAIN u : t[x] = IF x \in DOMAIN u THEN u[x] ELSE r[x]
    BY ReplacedAt
  <1> HIDE DEF t
  <1>2. CASE q \in DOMAIN u
    <2>1. q < End(o) /\ t[q] = At(o, q) /\ q \in DOMAIN t
      BY <1>1, <1>2 DEF Carried, Holds
    <2> QED
      BY <2>1 DEF Same, t
  <1>3. CASE q \notin DOMAIN u
    <2>1. Agree(r, t, q)
      BY <1>1, <1>3 DEF Agree
    <2> QED
      BY <1>3, <2>1 DEF t
  <1> QED
    BY <1>2, <1>3

\* Rows without a hole stay so.
LEMMA DenseUpdated ==
    ASSUME NEW n \in Nat, NEW r \in Rows(n), NEW u \in Rows(n), Dense(r)
    PROVE  Dense(Updated(r, u))
  BY UpdatedAt DEF Dense

LEMMA DenseOnly ==
    ASSUME NEW n \in Nat, NEW r \in Rows(n), NEW cut \in Int, Dense(r)
    PROVE  Dense(Only(r, Below(cut)))
  <1>1. DOMAIN Only(r, Below(cut)) = DOMAIN r \cap Below(cut)
    BY OnlyAt
  <1>2. \A q \in Below(cut) : q \in Int /\ (q > 0 => q - 1 \in Below(cut))
    BY DEF Below
  <1> QED
    BY <1>1, <1>2 DEF Dense

LEMMA DenseReplaced ==
    ASSUME TypeInv, NEW p \in Rows(edits), Dense(rows), ~Holed(p)
    PROVE  Dense(Replaced(rows, p))
  <1>1. edits \in Nat /\ rows \in Rows(edits)
    BY Numbers DEF TypeInv, RowsInv
  <1>2. DOMAIN Replaced(rows, p) = DOMAIN rows \cup DOMAIN p
    BY <1>1, ReplacedAt
  <1>3. \A q \in DOMAIN p : q > 0 => q - 1 \in DOMAIN rows \cup DOMAIN p
    <2>1. DOMAIN p \subseteq 0 .. edits - 1
      BY <1>1, RowsCounted
    <2>2. \A q \in DOMAIN p : q > 0 => q # 0
      BY <2>1
    <2> QED
      BY <2>2 DEF Holed
  <1> QED
    BY <1>2, <1>3 DEF Dense

-----------------------------------------------------------------------------
(* A statement that changes rows, of a save of the live object.            *)

\* After it the call is back, or has its second statement to go.
LEMMA ExecutedIs ==
    ASSUME TypeInv, NEW s \in Saver, op[s].pc \in {"rows", "update"}, ~op[s].failed
    PROVE  LET c == op[s]
               d == Executed(c)
           IN /\ d.kind = c.kind /\ d.target = c.target /\ d.moved = c.moved /\ ~d.failed /\ d.col = c.col
              /\ d.owed = c.owed
              /\ \/ /\ d.pc = "update" /\ c.pc = "rows" /\ c.kind = "incremental"
                    /\ d.put = c.put /\ d.update = c.update /\ d.cut = c.cut /\ d.behind = c.behind
                 \/ d.pc = "back" /\ (c.pc = "rows" /\ c.kind = "incremental" => c.update = <<>>)
  <1>1. op[s] \in Call(edits, Len(obj))
    BY CallsAre
  <1> QED
    BY <1>1 DEF Executed, Landed, Call

LEMMA BehindIs ==
    ASSUME TypeInv, NEW s \in Saver, NEW d, op' = Behind([op EXCEPT ![s] = d], s)
    PROVE  /\ op'[s] = d
           /\ \A x \in Saver \ {s} :
                 /\ Sided(op[x], op'[x]) /\ op'[x].touched = op[x].touched
                 /\ op[x].target = op[s].target /\ op[x].moved /\ op[x].pc # "back" => op'[x].behind
  <1>1. op'[s] = d
    BY DEF Behind, TypeInv, CallsInv
  <1>2. ASSUME NEW x \in Saver \ {s}
        PROVE  op'[x] = IF op[x].target = op[s].target /\ op[x].moved /\ op[x].pc # "back"
                         THEN [op[x] EXCEPT !.behind = TRUE] ELSE op[x]
    BY DEF Behind, TypeInv, CallsInv
  <1>3. ASSUME NEW x \in Saver \ {s}
        PROVE  Sided(op[x], [op[x] EXCEPT !.behind = TRUE]) /\ [op[x] EXCEPT !.behind = TRUE].behind
               /\ [op[x] EXCEPT !.behind = TRUE].touched = op[x].touched
    <2>1. op[x] \in Call(edits, Len(obj))
      BY CallsAre
    <2> QED
      BY <2>1 DEF Call, Sided
  <1>4. \A x \in Saver \ {s} : Sided(op[x], op[x])
    BY DEF Sided
  <1> QED
    BY <1>1, <1>2, <1>3, <1>4

\* The rows, after the statement that c is at.
Wrote(c, t) == \/ c.pc = "rows" /\ t = RowsAfter(c)
               \/ c.pc = "update" /\ t = Updated(rows, c.update)

\* Nobody mutated the object meanwhile.
LEMMA UnmovedSame ==
    ASSUME TypeInv, NEW o \in Object, NEW s \in Saver, InFlight(op[s]), NEW t, Wrote(op[s], t), ~op[s].moved,
           Exact(op[s], o), Shaped(op[s]), op[s].kind # "boundary",
           NEW d, d = Executed(op[s]), ~Doomed(d, o), Main(rows, o)
    PROVE  /\ \A q \in Upward(o) : Agree(rows, t, q) \/ Same(t, o, q)
           /\ Done(rows, op[s], o) => Done(t, d, o)
  <1> DEFINE c == op[s]
  <1>1. /\ edits \in Nat /\ rows \in Rows(edits) /\ c.put \in Rows(edits) /\ c.update \in Rows(edits)
        /\ c.kind \in Kind /\ c.cut \in Int
    <2>1. edits \in Nat /\ rows \in Rows(edits) /\ c \in Call(edits, Len(obj)) /\ c.kind \in Kind
      BY Numbers, CallsAre DEF TypeInv, RowsInv
    <2>2. c.cut \in Index \cup {-1}
      BY <2>1 DEF Call
    <2> QED
      BY <2>1, <2>2, SessionAssumption DEF Call, Index
  <1>2. /\ c.pc \in {"rows", "update"} /\ ~c.failed /\ (c.pc = "update" => c.kind = "incremental")
    BY DEF Wrote, Shaped
  <1>3. /\ d.kind = c.kind /\ d.target = c.target /\ d.moved = c.moved /\ ~d.failed /\ d.owed = c.owed
        /\ \/ /\ d.pc = "update" /\ c.pc = "rows" /\ c.kind = "incremental"
              /\ d.put = c.put /\ d.update = c.update
           \/ d.pc = "back" /\ (c.pc = "rows" /\ c.kind = "incremental" => c.update = <<>>)
    BY <1>2, ExecutedIs
  <1>o. /\ o.first \in Nat /\ End(o) \in Nat /\ o.cut \in Int
    BY ObjectIs
  <1> HIDE DEF c
  <1>4. ASSUME NEW q \in Upward(o) PROVE Missing(o, q) \/ Present(rows, o, q)
    BY DEF Main, Tells
  <1>5. CASE c.kind = "incremental" /\ c.pc = "rows"
    <2>1. t = Replaced(rows, c.put) /\ Carried(o, c.put)
      BY <1>5 DEF Wrote, RowsAfter, Exact, c
    <2>2. ASSUME NEW q \in Upward(o) PROVE Agree(rows, t, q) \/ Same(t, o, q)
      BY <1>1, <2>1, ReplacedSame
    <2>3. ASSUME ~o.owed, NEW q \in Upward(o)
          PROVE  /\ NewAt(o, q) => Same(t, o, q)
                 /\ ChangedAt(o, q) => Same(t, o, q) \/ (d.pc = "update" /\ q \in DOMAIN d.update)
      <3>1. /\ NewAt(o, q) => q \in DOMAIN c.put
            /\ ChangedAt(o, q) => q \in DOMAIN c.put \cup DOMAIN c.update
        BY <1>5, <2>3 DEF Exact, c
      <3>2. q \in DOMAIN c.put => Same(t, o, q)
        BY <1>1, <2>1, ReplacedSame
      <3>3. q \in DOMAIN c.update => d.pc = "update" /\ d.update = c.update
        <4>1. c.update = <<>> => q \notin DOMAIN c.update
          OBVIOUS
        <4> QED
          BY <1>3, <1>5, <4>1
      <3> QED
        BY <3>1, <3>2, <3>3
    <2>4. Done(t, d, o)
      BY <1>3, <1>5, <2>3 DEF Done
    <2> QED
      BY <2>2, <2>4
  <1>6. CASE c.kind = "incremental" /\ c.pc = "update"
    <2>1. t = Updated(rows, c.update) /\ Carried(o, c.update)
      BY <1>6 DEF Wrote, Exact, c
    <2>2. ASSUME NEW q \in Upward(o)
          PROVE  /\ Agree(rows, t, q) \/ Same(t, o, q)
                 /\ q \in DOMAIN rows /\ q \in DOMAIN c.update => Same(t, o, q)
      BY <1>1, <2>1, UpdatedSame
    <2>3. ASSUME Done(rows, c, o), ~o.owed, NEW q \in Upward(o)
          PROVE  /\ NewAt(o, q) => Same(t, o, q) \/ CutAt(o, q)
                 /\ ChangedAt(o, q) => Same(t, o, q) \/ CutAt(o, q)
      <3>1. /\ NewAt(o, q) => Same(rows, o, q) \/ CutAt(o, q)
            /\ ChangedAt(o, q) => Same(rows, o, q) \/ CutAt(o, q) \/ q \in DOMAIN c.update
        BY <1>2, <1>6, <2>3 DEF Done
      <3>2. Same(rows, o, q) => Same(t, o, q)
        BY <2>2 DEF Agree, Same
      <3>3. ASSUME ChangedAt(o, q), q \in DOMAIN c.update, ~NewAt(o, q), ~CutAt(o, q)
            PROVE  Same(t, o, q)
        <4>1. q < End(o) /\ Present(rows, o, q)
          BY <1>4, <2>3, <3>3 DEF ChangedAt, Missing
        <4>2. q \in DOMAIN rows
          BY <4>1 DEF Present
        <4> QED
          BY <2>2, <3>3, <4>2
      <3> QED
        BY <3>1, <3>2, <3>3
    <2>4. Done(rows, c, o) => Done(t, d, o)
      BY <1>3, <1>6, <2>3 DEF Done
    <2> QED
      BY <2>2, <2>4 DEF c
  <1>7. CASE c.kind = "range"
    <2>1. t = Updated(rows, c.update) /\ Carried(o, c.update) /\ d.pc = "back"
          /\ \A q \in Upward(o) : RangeAt(o, q) => q \in DOMAIN c.update
      BY <1>2, <1>3, <1>7 DEF Wrote, RowsAfter, Exact, c
    <2>2. ASSUME NEW q \in Upward(o)
          PROVE  /\ Agree(rows, t, q) \/ Same(t, o, q)
                 /\ q \in DOMAIN rows /\ q \in DOMAIN c.update => Same(t, o, q)
      BY <1>1, <2>1, UpdatedSame
    <2>3. ASSUME NEW q \in Upward(o), RangeAt(o, q) PROVE Same(t, o, q) \/ Missing(o, q)
      <3>1. q < End(o)
        BY <2>3 DEF RangeAt
      <3> QED
        BY <1>4, <2>1, <2>2, <2>3, <3>1 DEF Present
    <2>4. Done(t, d, o)
      BY <1>3, <1>7, <2>3 DEF Done
    <2> QED
      BY <2>2, <2>4
  <1>8. CASE c.kind = "delete"
    <2>1. t = Only(rows, Below(c.cut)) /\ d.pc = "back" /\ c.cut # -1 /\ o.cut \in {-1, c.cut}
      BY <1>2, <1>3, <1>8 DEF Wrote, RowsAfter, Exact, c
    <2>2. o.cut = c.cut /\ ~(End(o) > o.cut)
      <3>1. d.kind = "delete" /\ d.pc = "back" /\ ~d.moved /\ ~d.failed
        BY <1>3, <1>8, <2>1 DEF c
      <3> QED
        BY <2>1, <3>1 DEF Doomed
    <2>3. DOMAIN t = DOMAIN rows \cap Below(c.cut) /\ \A q \in DOMAIN rows \cap Below(c.cut) : t[q] = rows[q]
      BY <1>1, <2>1, OnlyAt
    <2>4. ASSUME NEW q \in Nat, q >= o.cut PROVE q \notin DOMAIN t
      BY <1>o, <1>1, <2>2, <2>3, <2>4 DEF Below
    <2>5. ASSUME NEW q \in Upward(o) PROVE Agree(rows, t, q) \/ Same(t, o, q)
      <3>1. q \in Nat
        BY DEF Upward
      <3>2. CASE q >= o.cut
        <4>1. ~(q < End(o))
          BY <1>o, <2>2, <3>1, <3>2
        <4> QED
          BY <2>4, <3>1, <3>2, <4>1 DEF Same
      <3>3. CASE ~(q >= o.cut)
        <4>1. q \in Below(c.cut)
          BY <1>o, <2>2, <3>1, <3>3 DEF Below
        <4> QED
          BY <2>3, <4>1 DEF Agree
      <3> QED
        BY <3>2, <3>3
    <2>6. Done(t, d, o)
      BY <1>3, <1>8, <2>4 DEF Done
    <2> QED
      BY <2>5, <2>6
  <1>9. CASE c.kind = "full"
    <2>1. t = c.put /\ d.pc = "back" /\ \A q \in Upward(o) : Same(c.put, o, q)
      BY <1>2, <1>3, <1>9 DEF Wrote, RowsAfter, Exact, c
    <2>2. Done(t, d, o)
      BY <1>3, <1>9, <2>1 DEF Done
    <2> QED
      BY <2>1, <2>2
  <1> QED
    BY <1>1, <1>2, <1>5, <1>6, <1>7, <1>8, <1>9 DEF Kind, c

\* An incremental save that no newer one has overtaken.
LEMMA MovedMain ==
    ASSUME TypeInv, NEW o \in Object, NEW s \in Saver, NEW t, Wrote(op[s], t),
           op[s].kind = "incremental", ~op[s].behind, Covered(op[s], o), Main(rows, o)
    PROVE  Main(t, o)
  <1> DEFINE c == op[s]
  <1>1. /\ edits \in Nat /\ rows \in Rows(edits) /\ c.put \in Rows(edits) /\ c.update \in Rows(edits)
    BY Numbers, CallsAre DEF TypeInv, RowsInv, Call
  <1> SUFFICES ASSUME NEW q \in Upward(o) PROVE Tells(t, o, q)
    BY DEF Main
  <1>2. q >= o.first
    BY DEF Upward
  <1>3. Tells(rows, o, q)
    BY DEF Main
  <1>4. Missing(o, q) => Stale(o, q)
    BY DEF Stale
  <1>5. CASE c.pc = "rows"
    <2>1. t = Replaced(rows, c.put)
      BY <1>5 DEF Wrote, RowsAfter
    <2>2. q \in DOMAIN c.put => (q < End(o) \/ Missing(o, q)) /\ (Holds(o, c.put, q) \/ Stale(o, q))
      BY <1>2, <1>5 DEF Covered
    <2> HIDE DEF c
    <2>3. /\ DOMAIN t = DOMAIN rows \cup DOMAIN c.put
          /\ \A x \in DOMAIN rows \cup DOMAIN c.put : t[x] = IF x \in DOMAIN c.put THEN c.put[x] ELSE rows[x]
      BY <2>1 DEF Replaced
    <2> QED
      BY <1>3, <1>4, <2>2, <2>3 DEF Tells, Present, Same, Holds
  <1>6. CASE c.pc = "update"
    <2>1. t = Updated(rows, c.update)
      BY <1>6 DEF Wrote
    <2>2. DOMAIN t = DOMAIN rows /\ \A x \in DOMAIN rows : t[x] = IF x \in DOMAIN c.update THEN c.update[x] ELSE rows[x]
      BY <1>1, <2>1, UpdatedAt
    <2>3. q \in DOMAIN c.update /\ q < End(o) => Holds(o, c.update, q) \/ Stale(o, q)
      BY <1>2, <1>6 DEF Covered
    <2> HIDE DEF c
    <2> QED
      BY <1>3, <1>4, <2>2, <2>3 DEF Tells, Present, Same, Holds
  <1> QED
    BY <1>5, <1>6 DEF Wrote

\* A row that is there after the statement was so before or is of the call, and
\* the call has by then at most its second statement to go.
LEMMA WroteFrom ==
    ASSUME TypeInv, NEW s \in Saver, InFlight(op[s]), Shaped(op[s]), op[s].kind # "boundary",
           NEW t, Wrote(op[s], t), NEW q \in DOMAIN t
    PROVE  LET c == op[s]
           IN /\ q \in Nat
              /\ Puts(c, q, t[q]) \/ (c.kind # "full" /\ q \in DOMAIN rows /\ t[q] = rows[q])
              /\ c.kind = "incremental" /\ c.pc = "rows" /\ q \in DOMAIN c.put => Puts(c, q, t[q])
              /\ c.kind = "incremental" /\ c.pc = "update" /\ q \in DOMAIN c.update => Puts(c, q, t[q])
              /\ c.kind = "range" /\ q \in DOMAIN c.update => Puts(c, q, t[q])
              /\ c.kind = "delete" => q < c.cut
  <1> DEFINE c == op[s]
  <1>1. /\ edits \in Nat /\ rows \in Rows(edits) /\ c.put \in Rows(edits) /\ c.update \in Rows(edits)
        /\ c.kind \in Kind
    <2>1. edits \in Nat /\ rows \in Rows(edits) /\ c \in Call(edits, Len(obj)) /\ c.kind \in Kind
      BY Numbers, CallsAre DEF TypeInv, RowsInv
    <2> QED
      BY <2>1 DEF Call
  <1>2. c.pc \in {"rows", "update"} /\ (c.pc = "update" => c.kind = "incremental")
    BY DEF Wrote, Shaped
  <1>3. /\ DOMAIN rows \subseteq 0 .. edits - 1 /\ DOMAIN c.put \subseteq 0 .. edits - 1
        /\ \A x \in 0 .. edits - 1 : x \in Nat
    BY <1>1, RowsCounted
  <1> HIDE DEF c
  <1>4. CASE c.kind = "incremental" /\ c.pc = "rows"
    <2>1. t = Replaced(rows, c.put)
      BY <1>4 DEF Wrote, RowsAfter, c
    <2>2. /\ q \in DOMAIN rows \cup DOMAIN c.put
          /\ t[q] = IF q \in DOMAIN c.put THEN c.put[q] ELSE rows[q]
      BY <2>1 DEF Replaced
    <2>3. q \in Nat
      BY <1>3, <2>2
    <2>4. q \in DOMAIN c.put => Puts(c, q, t[q])
      BY <1>4, <2>2 DEF Puts
    <2>5. q \notin DOMAIN c.put => q \in DOMAIN rows /\ t[q] = rows[q]
      BY <2>2
    <2> QED
      BY <1>4, <2>3, <2>4, <2>5 DEF c
  <1>5. CASE c.pc = "update"
    <2>1. t = Updated(rows, c.update) /\ c.kind = "incremental"
      BY <1>2, <1>5 DEF Wrote, c
    <2>2. /\ q \in DOMAIN rows
          /\ t[q] = IF q \in DOMAIN c.update THEN c.update[q] ELSE rows[q]
      BY <1>1, <2>1, UpdatedAt
    <2> QED
      BY <1>3, <1>5, <2>1, <2>2 DEF Puts, c
  <1>6. CASE c.kind = "range"
    <2>1. t = Updated(rows, c.update) /\ c.pc = "rows"
      BY <1>2, <1>6 DEF Wrote, RowsAfter, c
    <2>2. /\ q \in DOMAIN rows
          /\ t[q] = IF q \in DOMAIN c.update THEN c.update[q] ELSE rows[q]
      BY <1>1, <2>1, UpdatedAt
    <2> QED
      BY <1>3, <1>6, <2>1, <2>2 DEF Puts, c
  <1>7. CASE c.kind = "delete"
    <2>1. t = Only(rows, Below(c.cut)) /\ c.pc = "rows"
      BY <1>2, <1>7 DEF Wrote, RowsAfter, c
    <2>2. q \in DOMAIN rows \cap Below(c.cut) /\ t[q] = rows[q]
      <3> DEFINE S == Below(c.cut)
      <3>1. t = Only(rows, S)
        BY <2>1
      <3> HIDE DEF S
      <3>2. q \in DOMAIN rows \cap S /\ t[q] = rows[q]
        BY <3>1 DEF Only
      <3> QED
        BY <3>2 DEF S
    <2>3. q < c.cut
      <3>1. c.cut \in Int
        <4>1. c.cut \in Index \cup {-1}
          BY CallsAre DEF Call, c
        <4> QED
          BY <4>1, SessionAssumption DEF Index
      <3> QED
        BY <2>2, <3>1 DEF Below
    <2> QED
      BY <1>3, <1>7, <2>2, <2>3 DEF c
  <1>8. CASE c.kind = "full"
    <2>1. t = c.put /\ c.pc = "rows"
      BY <1>2, <1>8 DEF Wrote, RowsAfter, c
    <2> QED
      BY <1>3, <1>8, <2>1 DEF Puts, c
  <1> QED
    BY <1>1, <1>2, <1>4, <1>5, <1>6, <1>7, <1>8 DEF Kind, c

\* What it writes may be what the object holds, what its flags own up to, or
\* what a load need not read.
LEMMA WroteFits ==
    ASSUME TypeInv, NEW s \in Saver, InFlight(op[s]), Shaped(op[s]), op[s].kind # "boundary",
           NEW t, Wrote(op[s], t), NEW o \in Object, Passed(rows, o.first, folded), Fair(op[s], o, folded)
    PROVE  /\ Passed(t, o.first, folded)
           /\ ~op[s].behind /\ (op[s].kind = "full" \/ RowsFit(rows, o)) => RowsFit(t, o)
  <1>1. \A q \in DOMAIN t : /\ q \in Nat
                            /\ \/ Puts(op[s], q, t[q])
                               \/ op[s].kind # "full" /\ q \in DOMAIN rows /\ t[q] = rows[q]
    BY WroteFrom
  <1>2. Passed(t, o.first, folded)
    <2> SUFFICES ASSUME NEW q \in DOMAIN t, q < o.first PROVE Known(t[q], folded)
      BY DEF Passed
    <2>1. CASE Puts(op[s], q, t[q])
      BY <1>1, <2>1 DEF Fair, Under
    <2>2. CASE q \in DOMAIN rows /\ t[q] = rows[q]
      BY <2>2 DEF Passed
    <2> QED
      BY <1>1, <2>1, <2>2
  <1>3. ASSUME ~op[s].behind, op[s].kind = "full" \/ RowsFit(rows, o) PROVE RowsFit(t, o)
    <2> SUFFICES ASSUME NEW q \in Upward(o), q \in DOMAIN t PROVE Fits(o, q, t[q])
      BY DEF RowsFit
    <2>1. CASE Puts(op[s], q, t[q])
      BY <1>3, <2>1 DEF Fair, Agrees
    <2>2. CASE op[s].kind # "full" /\ q \in DOMAIN rows /\ t[q] = rows[q]
      BY <1>3, <2>2 DEF RowsFit
    <2> QED
      BY <1>1, <2>1, <2>2
  <1> QED
    BY <1>2, <1>3

\* A save of what the object still holds leaves no row wrong that was not.
LEMMA WroteWrong ==
    ASSUME TypeInv, NEW s \in Saver, InFlight(op[s]), Shaped(op[s]), op[s].kind # "boundary",
           NEW t, Wrote(op[s], t), NEW o \in Object, Exact(op[s], o), NEW q \in Upward(o), Wrong(t, o, q)
    PROVE  q \in DOMAIN t /\ ~Puts(op[s], q, t[q]) /\ op[s].kind # "full" /\ Wrong(rows, o, q)
  <1>1. q \in DOMAIN t /\ ~(q < End(o) /\ t[q] = At(o, q))
    BY DEF Wrong
  <1>2. o.msgs \in Seq(Message) /\ o.first \in Nat
    BY ObjectIs
  <1>3. ~Puts(op[s], q, t[q])
    BY <1>1, <1>2, ExactPuts
  <1>4. op[s].kind # "full" /\ q \in DOMAIN rows /\ t[q] = rows[q]
    BY <1>1, <1>3, WroteFrom
  <1> QED
    BY <1>1, <1>3, <1>4 DEF Wrong

\* So its flags still own up to those that are, when it settles.
LEMMA WroteLeaves ==
    ASSUME TypeInv, NEW s \in Saver, InFlight(op[s]), Shaped(op[s]), op[s].kind # "boundary",
           NEW t, Wrote(op[s], t), NEW o \in Object, Exact(op[s], o), NEW q \in Upward(o), Wrong(t, o, q),
           op[s].pc = "update" /\ Wrong(rows, o, q) => Leaves(op[s], o, q),
           NEW d, d = Executed(op[s])
    PROVE  Leaves(d, o, q)
  <1> DEFINE c == op[s]
  <1>1. /\ c.pc \in {"rows", "update"} /\ ~c.failed /\ (c.pc = "update" => c.kind = "incremental")
    BY DEF Wrote, Shaped
  <1>2. /\ d.kind = c.kind /\ d.owed = c.owed
        /\ \/ /\ d.pc = "update" /\ c.pc = "rows" /\ c.kind = "incremental"
              /\ d.put = c.put /\ d.update = c.update
           \/ d.pc = "back" /\ (c.pc = "rows" /\ c.kind = "incremental" => c.update = <<>>)
    BY <1>1, ExecutedIs
  <1>3. q \in DOMAIN t /\ ~Puts(c, q, t[q]) /\ c.kind # "full" /\ Wrong(rows, o, q)
    BY WroteWrong
  <1>4. /\ c.kind = "incremental" /\ c.pc = "rows" => q \notin DOMAIN c.put
        /\ c.kind = "incremental" /\ c.pc = "update" => q \notin DOMAIN c.update
        /\ c.kind = "range" => q \notin DOMAIN c.update
        /\ c.kind = "delete" => q < c.cut
    BY <1>3, WroteFrom
  <1>5. c.kind \in {"incremental", "range", "delete"}
    BY <1>3, CallsAre DEF Kind
  <1> HIDE DEF c
  <1>6. CASE c.kind = "incremental" /\ c.pc = "rows"
    <2>1. ~o.owed => /\ NewAt(o, q) => q \in DOMAIN c.put
                     /\ ChangedAt(o, q) => q \in DOMAIN c.put \cup DOMAIN c.update
      BY <1>6 DEF Exact, c
    <2>2. c.update = <<>> => q \notin DOMAIN c.update
      OBVIOUS
    <2> QED
      BY <1>2, <1>4, <1>6, <2>1, <2>2 DEF Leaves
  <1>7. CASE c.pc = "update"
    <2>1. Leaves(c, o, q) /\ c.kind = "incremental" /\ d.pc = "back"
      BY <1>1, <1>2, <1>3, <1>7 DEF c
    <2>2. ~o.owed => (NewAt(o, q) => CutAt(o, q)) /\ (ChangedAt(o, q) => CutAt(o, q))
      BY <1>4, <1>7, <2>1 DEF Leaves
    <2> QED
      BY <1>2, <2>1, <2>2 DEF Leaves
  <1>8. CASE c.kind = "range"
    <2>1. ~RangeAt(o, q)
      BY <1>1, <1>4, <1>8 DEF Exact, c
    <2> QED
      BY <1>2, <1>8, <2>1 DEF Leaves
  <1>9. CASE c.kind = "delete"
    <2>1. o.cut \in {-1, c.cut} /\ q < c.cut
      BY <1>1, <1>4, <1>9 DEF Exact, c
    <2>2. o.cut \in Int /\ q \in Nat
      BY ObjectIs DEF Upward
    <2>3. ~CutAt(o, q)
      BY <2>1, <2>2 DEF CutAt
    <2> QED
      BY <1>2, <1>9, <2>3 DEF Leaves
  <1> QED
    BY <1>1, <1>5, <1>6, <1>7, <1>8, <1>9

\* A load finds the rows as a save leaves them.
LEMMA WroteRecalled ==
    ASSUME TypeInv, Sound, NEW s \in Saver, Shaped(op[s]), op[s].kind # "boundary", On(op[s], live),
           Wrote(op[s], rows'), op[s].kind = "incremental" => ~op[s].behind, torn' = TornBy(s),
           NEW d, d = Executed(op[s]), op'[s] = d,
           \A x \in Saver \ {s} : Sided(op[x], op'[x]) /\ op'[x].touched = op[x].touched,
           UNCHANGED <<column, obj, live, folded>>
    PROVE  Recalled'
  <1> DEFINE o == obj[live]
             c == op[s]
  <1>1. live # 0 /\ InFlight(c) /\ o \in Object
    <2>1. live \in 1 .. Len(obj)
      BY Numbers DEF On
    <2> QED
      BY <2>1, Numbers DEF On
  <1>2. Clear(rows, column, o, live, op, torn, folded) /\ Live(rows, o, live, op)
    BY <1>1 DEF Sound, Recalled
  <1>3. /\ c.pc \in {"rows", "update"} /\ ~c.failed /\ (c.pc = "update" => c.kind = "incremental")
        /\ c.kind \in {"full", "incremental", "delete", "range"}
    BY <1>1, CallsAre DEF Wrote, Shaped, Kind
  <1>4. /\ d.kind = c.kind /\ d.target = c.target /\ d.moved = c.moved /\ ~d.failed
        /\ \/ /\ d.pc = "update" /\ c.pc = "rows" /\ c.kind = "incremental"
              /\ d.put = c.put /\ d.update = c.update /\ d.behind = c.behind
           \/ d.pc = "back"
    BY <1>3, ExecutedIs
  <1>5. ~torn' => ~c.behind /\ (c.kind = "full" \/ ~torn)
    BY <1>3 DEF TornBy
  <1> HIDE DEF o, c
  <1>6. Fair(c, o, folded) /\ Passed(rows, o.first, folded)
    BY <1>2 DEF Clear, c
  <1>7. Passed(rows', o.first, folded) /\ (~torn' => RowsFit(rows', o))
    <2>1. /\ Passed(rows', o.first, folded)
          /\ ~c.behind /\ (c.kind = "full" \/ RowsFit(rows, o)) => RowsFit(rows', o)
      BY <1>1, <1>6, WroteFits DEF c
    <2> QED
      BY <1>2, <1>5, <2>1 DEF Clear
  <1>8. Bounded(rows', column, o.first, live, op', folded)
    <2>1. column <= o.first
      BY <1>2, <1>3 DEF Clear, Bounded, c
    <2> QED
      BY <2>1 DEF Bounded
  <1>9. Fair(d, o, folded) /\ (torn' \/ Finished(rows', d, o))
    <2>1. \A q, m : Puts(d, q, m) => Puts(c, q, m) /\ d.behind = c.behind
      BY <1>3, <1>4 DEF Puts
    <2>2. Fair(d, o, folded)
      BY <1>4, <1>6, <2>1 DEF Fair, Agrees, Under
    <2>3. ASSUME ~torn', ~d.moved, NEW q \in Upward(o), Wrong(rows', o, q) PROVE Leaves(d, o, q)
      <3>1. Exact(c, o)
        BY <1>2, <1>4, <2>3 DEF Live, c
      <3>2. ASSUME c.pc = "update", Wrong(rows, o, q) PROVE Leaves(c, o, q)
        <4>1. ~torn
          BY <1>3, <1>5, <2>3, <3>2
        <4>2. Finished(rows, c, o)
          BY <1>2, <4>1 DEF Clear, c
        <4> QED
          BY <1>3, <1>4, <2>3, <3>2, <4>2 DEF Finished
      <3> QED
        BY <1>1, <2>3, <3>1, <3>2, WroteLeaves DEF c
    <2> QED
      BY <2>2, <2>3 DEF Finished
  <1>10. ASSUME NEW x \in Saver \ {s}, On(op'[x], live)
         PROVE  Fair(op'[x], o, folded) /\ (torn' \/ Finished(rows', op'[x], o))
    <2>1. Sided(op[x], op'[x]) /\ On(op[x], live)
      BY <1>10 DEF Sided, On, InFlight
    <2>2. Likes(op[x], op'[x])
      BY <2>1 DEF Sided, Likes
    <2>3. Fair(op'[x], o, folded)
      BY <1>2, <2>1, <2>2, LikesFair DEF Clear
    <2>4. ASSUME ~torn', ~op'[x].moved, ~op'[x].failed, NEW q \in Upward(o), Wrong(rows', o, q)
          PROVE  Leaves(op'[x], o, q)
      <3>0. ~op[x].moved /\ ~op[x].failed /\ (Leaves(op[x], o, q) <=> Leaves(op'[x], o, q))
        BY <2>1, <2>4 DEF Sided, Leaves
      <3>1. CASE c.moved
        <4>1. Outrun(c) /\ ~c.behind
          BY <1>3, <1>5, <2>4, <3>1 DEF Outrun
        <4>2. ~Newer(op[x])
          BY <1>2, <2>1, <4>1 DEF Live, Overtook, c
        <4>3. Leaves(op[x], o, q)
          BY <3>0, <4>2 DEF Leaves, Newer
        <4> QED
          BY <3>0, <4>3
      <3>2. CASE ~c.moved
        <4>1. Exact(c, o)
          BY <1>2, <3>2 DEF Live, c
        <4>2. c.kind # "full" /\ Wrong(rows, o, q)
          BY <1>1, <2>4, <4>1, WroteWrong DEF c
        <4>3. Finished(rows, op[x], o)
          BY <1>2, <1>5, <2>1, <2>4, <4>2 DEF Clear
        <4> QED
          BY <2>4, <3>0, <4>2, <4>3 DEF Finished
      <3> QED
        BY <3>1, <3>2
    <2> QED
      BY <2>3, <2>4 DEF Finished
  <1>11. Clear(rows', column, o, live, op', torn', folded)
    BY <1>7, <1>8, <1>9, <1>10 DEF Clear
  <1>12. ASSUME NEW x \in Saver, op'[x].pc = "loading" PROVE op'[x].touched
    <2>1. x # s
      BY <1>4, <1>12
    <2>2. op[x].pc = "loading" /\ op'[x].touched = op[x].touched
      BY <1>12, <2>1 DEF Sided
    <2> QED
      BY <1>1, <2>2 DEF Sound, Loading
  <1> QED
    BY <1>1, <1>11, <1>12 DEF Recalled, o

LEMMA WriteSound ==
    ASSUME TypeInv, Sound, NEW s \in Saver, WriteRows(s) \/ WriteUpdate(s), hurt' = {}
    PROVE  Sound'
  <1> DEFINE c == op[s]
             d == Executed(c)
             o == obj[live]
  <1>1. /\ c \in Call(edits, Len(obj)) /\ c.pc \in {"rows", "update"} /\ InFlight(c) /\ c.kind \in Kind
        /\ c.kind # "boundary" /\ Shaped(c) /\ c.target # 0 /\ UNCHANGED <<column, obj, live, folded>>
    <2>1. c.pc \in {"rows", "update"} /\ UNCHANGED <<column, obj, live, folded>>
      BY DEF WriteRows, WriteUpdate
    <2>2. InFlight(c) /\ Shaped(c)
      BY <2>1 DEF InFlight, Sound, Shapes
    <2>3. c \in Call(edits, Len(obj)) /\ c.kind \in Kind /\ c.target # 0
      BY <2>1, <2>2, CallsAre
    <2>4. c.kind # "boundary"
      BY <2>1, <2>2 DEF TypeInv, CallsInv, Sane, Shaped
    <2> QED
      BY <2>1, <2>2, <2>3, <2>4
  <1>2. ASSUME Fail(s), UNCHANGED <<rows, hurt, torn>> PROVE Sound'
    BY <1>1, <1>2, FailSound
  <1>3. ASSUME Wrote(c, rows'), op' = Behind([op EXCEPT ![s] = d], s), hurt' = hurt \cup Late(s), torn' = TornBy(s)
        PROVE  Sound'
    <2>1. live = c.target /\ live # 0 /\ (c.kind = "incremental" => ~c.behind) /\ o \in Object
          /\ Live(rows, o, live, op) /\ On(c, live)
      <3>1. Late(s) = {}
        BY <1>3
      <3>2. live = c.target /\ (c.kind = "incremental" => ~c.behind)
        BY <3>1 DEF Late, Overtaken
      <3>3. live \in 1 .. Len(obj)
        BY <1>1, <3>2, Numbers
      <3> QED
        BY <1>1, <3>2, <3>3, Numbers DEF Sound, On
    <2>2. /\ d.kind = c.kind /\ d.target = c.target /\ d.moved = c.moved /\ ~d.failed /\ d.col = c.col
          /\ d.owed = c.owed
          /\ \/ /\ d.pc = "update" /\ c.pc = "rows" /\ c.kind = "incremental"
                /\ d.put = c.put /\ d.update = c.update /\ d.cut = c.cut /\ d.behind = c.behind
             \/ d.pc = "back" /\ (c.pc = "rows" /\ c.kind = "incremental" => c.update = <<>>)
      BY <1>1, ExecutedIs DEF Shaped
    <2>3. /\ op'[s] = d
          /\ \A x \in Saver \ {s} :
                /\ Sided(op[x], op'[x]) /\ op'[x].touched = op[x].touched
                /\ op[x].target = c.target /\ op[x].moved /\ op[x].pc # "back" => op'[x].behind
      BY <1>3, BehindIs
    <2>4. Shaped(d) /\ InFlight(d)
      BY <2>2 DEF Shaped, InFlight
    <2>5. Loading' /\ Shapes'
      BY <1>1, <2>1, <2>2, <2>3, <2>4, OthersKept DEF Sound
    <2>6. Onward(op, op', s, live)
      <3>1. On(d, live)
        BY <2>1, <2>2, <2>4 DEF On
      <3>2. Outrun(d) => Outrun(c) /\ (c.behind => d.behind)
        BY <2>2 DEF Outrun
      <3>3. \A x \in Saver \ {s} : On(op[x], live) /\ Outrun(op[x]) => op'[x].behind
        BY <2>1, <2>3 DEF On, Outrun
      <3> HIDE DEF d, c
      <3> QED
        BY <2>1, <2>2, <2>3, <3>1, <3>2, <3>3 DEF Onward, c
    <2>7. Live(rows', o, live, op')
      <3>1. CASE c.moved /\ c.kind # "incremental"
        <4>1. op'[s].pc = "back" /\ ~op'[s].failed
          BY <2>2, <2>3, <3>1
        <4> HIDE DEF d, o
        <4> QED
          BY <1>1, <2>1, <2>6, <3>1, <4>1, PledgedWrote DEF Wrote
      <3>2. CASE c.moved /\ c.kind = "incremental"
        <4>1. Covered(c, o) /\ Main(rows, o) => Main(rows', o)
          BY <1>3, <2>1, <3>2, MovedMain
        <4>2. Covered(c, o) => Covered(op'[s], o)
          BY <1>1, <2>2, <2>3 DEF Covered
        <4> HIDE DEF d, o
        <4> QED
          BY <1>1, <2>1, <2>6, <3>2, <4>1, <4>2, MovedWrote
      <3>3. CASE ~c.moved
        <4>1. Exact(c, o)
          BY <2>1, <3>3 DEF Live
        <4>2. Exact(d, o)
          BY <1>1, <2>2, <4>1 DEF Exact
        <4>3. ~Doomed(d, o) /\ Main(rows, o) =>
                 /\ \A q \in Upward(o) : Agree(rows, rows', q) \/ Same(rows', o, q)
                 /\ Done(rows, c, o) => Done(rows', d, o)
          BY <1>1, <1>3, <2>1, <3>3, <4>1, UnmovedSame
        <4> HIDE DEF d, o
        <4> QED
          BY <1>1, <2>1, <2>3, <2>6, <3>3, <4>2, <4>3, UnmovedWrote
      <3> QED
        BY <3>1, <3>2, <3>3
    <2>8. torn' \/ Dense(rows')
      <3>0. SUFFICES ASSUME ~torn' PROVE Dense(rows')
        OBVIOUS
      <3>1. /\ edits \in Nat /\ rows \in Rows(edits) /\ c.put \in Rows(edits) /\ c.update \in Rows(edits)
            /\ c.cut \in Int /\ (torn \/ Dense(rows))
        <4>1. edits \in Nat /\ rows \in Rows(edits)
          BY Numbers DEF TypeInv, RowsInv
        <4>2. c.cut \in Index \cup {-1}
          BY <1>1 DEF Call
        <4> QED
          BY <1>1, <4>1, <4>2, SessionAssumption DEF Call, Index, Sound, Disk
      <3>2. CASE c.kind = "incremental"
        <4>1. ~torn /\ (c.pc = "rows" => ~Holed(c.put))
          BY <1>3, <3>0, <3>2 DEF TornBy
        <4>2. rows' = Replaced(rows, c.put) \/ rows' = Updated(rows, c.update)
          BY <1>3, <3>2 DEF Wrote, RowsAfter
        <4>3. c.pc = "rows" => rows' = Replaced(rows, c.put)
          BY <1>3, <3>2 DEF Wrote, RowsAfter
        <4>4. c.pc = "update" => rows' = Updated(rows, c.update)
          BY <1>3 DEF Wrote
        <4> QED
          BY <1>1, <3>1, <4>1, <4>3, <4>4, DenseReplaced, DenseUpdated
      <3>3. CASE c.kind = "full"
        <4>1. c.pc = "rows" /\ rows' = c.put
          BY <1>1, <1>3, <3>3 DEF Wrote, RowsAfter, Shaped
        <4> QED
          BY <1>1, <3>3, <4>1 DEF Shaped
      <3>4. CASE c.kind = "delete"
        <4>1. ~torn /\ rows' = Only(rows, Below(c.cut))
          BY <1>1, <1>3, <3>0, <3>4 DEF Wrote, RowsAfter, Shaped, TornBy
        <4> QED
          BY <3>1, <4>1, DenseOnly
      <3>5. CASE c.kind = "range"
        <4>1. ~torn /\ rows' = Updated(rows, c.update)
          BY <1>1, <1>3, <3>0, <3>5 DEF Wrote, RowsAfter, Shaped, TornBy
        <4> QED
          BY <3>1, <4>1, DenseUpdated
      <3> QED
        BY <1>1, <3>2, <3>3, <3>4, <3>5 DEF Kind
    <2>9. column # -1
      BY <1>1 DEF Sound, Disk
    <2>11. Recalled'
      BY <1>1, <1>3, <2>1, <2>3, WroteRecalled
    <2> HIDE DEF o, d, c
    <2>10. Disk'
      BY <1>1, <2>1, <2>8, <2>9 DEF Disk
    <2> QED
      BY <1>1, <2>5, <2>7, <2>10, <2>11 DEF Sound, o
  <1> QED
    BY <1>2, <1>3 DEF WriteRows, WriteUpdate, Wrote

-----------------------------------------------------------------------------
(* Every step, and what the invariant means.                               *)

LEMMA HurtGrows ==
    ASSUME [Next]_vars, hurt' = {}
    PROVE  hurt = {}
  <1>1. ASSUME NEW s \in Saver, WriteMeta(s) \/ WriteRows(s) \/ WriteUpdate(s) \/ Settle(s) PROVE hurt = {}
    BY <1>1 DEF WriteMeta, WriteRows, WriteUpdate, Settle
  <1>2. ASSUME NEW s \in Saver, Save(s) \/ FlushDraft(s) \/ Evict(s) \/ EvictExcluded(s) PROVE hurt = {}
    BY <1>2 DEF Save, FlushDraft, Evict, EvictExcluded
  <1>3. ASSUME NEW s \in Saver, LoadRead(s) \/ CreateBlank(s) \/ LoadInstall(s) \/ AppendFlush(s) PROVE hurt = {}
    BY <1>3 DEF LoadRead, CreateBlank, NotFound, LoadInstall, AppendFlush
  <1>4. ASSUME NEW s \in Saver, NEW i, AttachFiles(s, i) PROVE hurt = {}
    BY <1>4 DEF AttachFiles
  <1>5. ASSUME NEW up, NEW pins, Exclude(up, pins) PROVE hurt = {}
    BY <1>5 DEF Exclude
  <1>6. ASSUME NEW keep, TruncateHistory(keep) PROVE hurt = {}
    BY <1>6 DEF TruncateHistory
  <1>7. CASE SetHistoryCalls
    <2>1. ASSUME NEW msgs, SetHistory(msgs) PROVE hurt = {}
      BY <2>1 DEF SetHistory
    <2> QED
      BY <1>7, <2>1 DEF SetHistoryCalls
  <1>8. CASE RemoveLast
    BY <1>8 DEF RemoveLast
  <1>9. ASSUME NEW assistant, AddFullMessage(assistant) PROVE hurt = {}
    BY <1>9 DEF AddFullMessage
  <1>10. CASE Load \/ Create \/ Restart \/ AppendChunk
    BY <1>10 DEF Load, Create, NotFound, Restart, AppendChunk
  <1>11. CASE UNCHANGED vars
    BY <1>11 DEF vars
  <1> QED
    BY <1>1, <1>2, <1>3, <1>4, <1>5, <1>6, <1>7, <1>8, <1>9, <1>10, <1>11 DEF Next

LEMMA SoundStep ==
    ASSUME TypeInv, Sound, [Next]_vars, hurt' = {}
    PROVE  Sound'
  <1>1. CASE Load \/ Create
    BY <1>1, LoadSound
  <1>2. CASE Restart
    BY <1>2, RestartSound
  <1>3. ASSUME NEW assistant \in BOOLEAN, AddFullMessage(assistant) PROVE Sound'
    BY <1>3, AddSound
  <1>4. CASE AppendChunk \/ \E s \in Saver : AppendFlush(s)
    BY <1>4, ChunkSound
  <1>5. CASE RemoveLast
    BY <1>5, RemoveSound
  <1>6. CASE (\E keep \in {0, 1} : TruncateHistory(keep)) \/ SetHistoryCalls
    BY <1>6, RewrittenSound
  <1>7. ASSUME NEW up \in 0 .. MaxEvents, NEW pins, Exclude(up, pins) PROVE Sound'
    BY <1>7, ExcludeSound
  <1>8. ASSUME NEW s \in Saver, LoadRead(s) \/ CreateBlank(s) \/ LoadInstall(s) PROVE Sound'
    BY <1>8, LoadReadSound, InstallSound
  <1>9. ASSUME NEW s \in Saver, NEW i, AttachFiles(s, i) PROVE Sound'
    BY <1>9, AttachSound
  <1>10. ASSUME NEW s \in Saver, Save(s) \/ FlushDraft(s) \/ Evict(s) \/ EvictExcluded(s) PROVE Sound'
    BY <1>10, SaveSound, EvictSound, EvictExcludedSound
  <1>11. ASSUME NEW s \in Saver, WriteMeta(s) \/ WriteRows(s) \/ WriteUpdate(s) \/ Settle(s) PROVE Sound'
    BY <1>11, MetaSound, WriteSound, SettleSound
  <1>12. CASE UNCHANGED vars
    BY <1>12 DEF vars, Sound, Disk, Shapes, Loading, Recalled
  <1> QED
    BY <1>1, <1>2, <1>3, <1>4, <1>5, <1>6, <1>7, <1>8, <1>9, <1>10, <1>11, <1>12 DEF Next

LEMMA SoundMeans ==
    ASSUME TypeInv, Sound, live # 0, \A s \in Saver : ~Flying(s), Due(Resident) = "none"
    PROVE  Matches(Resident)
  <1> DEFINE o == Resident
  <1>1. o = obj[live] /\ o \in Object /\ o.first + Len(o.msgs) <= edits
    <2>1. live \in 1 .. Len(obj)
      BY Numbers
    <2> QED
      BY <2>1, Numbers DEF Resident, Inside
  <1>2. /\ o.msgs \in Seq(Message) /\ Len(o.msgs) \in Nat /\ o.first \in Nat
        /\ End(o) \in Nat /\ End(o) = o.first + Len(o.msgs)
    BY <1>1, ObjectIs
  <1>3. /\ edits \in Nat /\ edits <= MaxEvents /\ MaxEvents \in Nat
        /\ rows \in Rows(edits) /\ DOMAIN rows \subseteq 0 .. edits - 1
    BY Numbers, RowsCounted DEF TypeInv, RowsInv
  <1> HIDE DEF o
  <1>4. Live(rows, o, live, op)
    BY <1>1 DEF Sound
  <1>5. Main(rows, o)
    <2>1. \A s \in Saver : ~On(op[s], live)
      BY DEF On, InFlight, Flying
    <2> QED
      BY <1>4, <2>1 DEF Live, Loose, Truth
  <1>6. \A q \in Upward(o) : Same(rows, o, q)
    <2>1. Flags(o) /\ Due(o) = "none"
      BY <1>4 DEF Live, o
    <2>2. \A q \in Nat : ~Stale(o, q)
      BY <1>1, <2>1, NothingStale
    <2> QED
      BY <1>5, <2>2 DEF Main, Tells, Upward
  <1> DEFINE mine == Only(rows, From(o.first))
             kept == RowsFrom(o.first, o.msgs)
  <1>7. /\ mine = [q \in DOMAIN rows \cap From(o.first) |-> rows[q]]
        /\ kept = [q \in o.first .. o.first + Len(o.msgs) - 1 |-> At(o, q)]
    BY DEF Only, RowsFrom, At
  <1>8. ASSUME NEW q \in DOMAIN rows \cap From(o.first)
        PROVE  q \in o.first .. o.first + Len(o.msgs) - 1 /\ rows[q] = At(o, q)
    <2>1. q \in Nat /\ q >= o.first
      BY <1>2, <1>3 DEF From
    <2>2. q < End(o) /\ rows[q] = At(o, q)
      BY <1>6, <2>1 DEF Same, Upward
    <2> QED
      BY <1>2, <2>1, <2>2
  <1>9. ASSUME NEW q \in o.first .. o.first + Len(o.msgs) - 1
        PROVE  q \in DOMAIN rows \cap From(o.first)
    <2>1. q \in Nat /\ q >= o.first /\ q < End(o)
      BY <1>2
    <2>2. q \in DOMAIN rows
      BY <1>6, <2>1 DEF Same, Upward
    <2>3. q \in From(o.first)
      BY <1>2, <1>3, <2>1, <2>2 DEF From
    <2> QED
      BY <2>2, <2>3
  <1>10. DOMAIN rows \cap From(o.first) = o.first .. o.first + Len(o.msgs) - 1
    BY <1>8, <1>9
  <1>11. mine = kept
    BY <1>7, <1>8, <1>10
  <1> QED
    BY <1>11 DEF Matches, o

(* What memory holds is on disk when no save is due and none is in flight,     *)
(* unless one of the hazards struck: whatever interleaving of mutations,       *)
(* saves, evictions, compactions, loads, failing statements and restarts.      *)
THEOREM SessionCleanIsSaved ==
    ASSUME Excused = Hazard
    PROVE  Spec => []CleanIsSaved
  <1>1. Init => TypeInv /\ (hurt = {} => Sound)
    BY TypeInit, SoundInit
  <1>2. TypeInv /\ (hurt = {} => Sound) /\ [Next]_vars => TypeInv' /\ (hurt = {} => Sound)'
    BY TypeStep, HurtGrows, SoundStep
  <1>3. TypeInv /\ (hurt = {} => Sound) => CleanIsSaved
    <2> SUFFICES ASSUME TypeInv, hurt = {} => Sound, live # 0, \A s \in Saver : ~Flying(s),
                        Due(Resident) = "none", hurt \cap Excused = {}
                 PROVE  Matches(Resident)
      BY DEF CleanIsSaved
    <2>1. hurt = {}
      BY DEF TypeInv, Ghosts
    <2> QED
      BY <2>1, SoundMeans
  <1> QED
    BY <1>1, <1>2, <1>3, PTL DEF Spec
-----------------------------------------------------------------------------
(* What a load brings back.                                                *)

LEMMA ObjGrows ==
    ASSUME TypeInv, [Next]_vars, Len(obj') > Len(obj)
    PROVE  live = 0 /\ \E o : Opened(o) /\ obj' = Append(obj, o)
  <1>1. obj \in Seq(Object) /\ Len(obj) \in Nat
    BY Numbers
  <1>2. ASSUME NEW i, NEW o, obj' = [obj EXCEPT ![i] = o] PROVE FALSE
    <2>1. Len(obj') = Len(obj)
      BY <1>1, <1>2
    <2> QED
      BY <1>1, <2>1
  <1>3. ASSUME obj' = obj \/ obj' = <<>> PROVE FALSE
    BY <1>1, <1>3
  <1>4. \A o, calls : ~Mutate(o, calls)
    BY <1>2 DEF Mutate
  <1>5. CASE Load \/ Create
    BY <1>5 DEF Load, Create, Opened
  <1>6. ASSUME NEW s \in Saver, LoadRead(s) \/ CreateBlank(s) PROVE live = 0 /\ \E o : Opened(o) /\ obj' = Append(obj, o)
    BY <1>6 DEF LoadRead, CreateBlank, Opened
  <1>7. CASE Restart \/ UNCHANGED vars
    BY <1>3, <1>7 DEF Restart, vars
  <1>8. ASSUME NEW s \in Saver, LoadInstall(s) \/ Save(s) \/ FlushDraft(s) \/ Evict(s) PROVE FALSE
    BY <1>3, <1>8 DEF LoadInstall, Save, FlushDraft, Evict
  <1>9. ASSUME NEW s \in Saver, WriteMeta(s) \/ WriteRows(s) \/ WriteUpdate(s) PROVE FALSE
    BY <1>3, <1>9 DEF WriteMeta, WriteRows, WriteUpdate
  <1>10. ASSUME NEW s \in Saver, Settle(s) \/ EvictExcluded(s) PROVE FALSE
    <2>1. CASE Settle(s)
      BY <1>2, <2>1 DEF Settle
    <2>2. CASE EvictExcluded(s)
      BY <1>2, <2>2 DEF EvictExcluded
    <2> QED
      BY <1>10, <2>1, <2>2
  <1>11. ASSUME NEW s \in Saver, AppendFlush(s) PROVE FALSE
    BY <1>4, <1>11 DEF AppendFlush
  <1>12. ASSUME NEW s \in Saver, NEW i, AttachFiles(s, i) PROVE FALSE
    BY <1>4, <1>12 DEF AttachFiles
  <1>13. ASSUME NEW assistant, AddFullMessage(assistant) PROVE FALSE
    BY <1>4, <1>13 DEF AddFullMessage
  <1>14. CASE AppendChunk
    BY <1>4, <1>14 DEF AppendChunk
  <1>15. CASE RemoveLast
    BY <1>4, <1>15 DEF RemoveLast
  <1>16. ASSUME NEW msgs, SetHistory(msgs) PROVE FALSE
    BY <1>4, <1>16 DEF SetHistory
  <1>17. CASE SetHistoryCalls
    BY <1>16, <1>17 DEF SetHistoryCalls
  <1>18. ASSUME NEW keep, TruncateHistory(keep) PROVE FALSE
    BY <1>4, <1>18 DEF TruncateHistory
  <1>19. ASSUME NEW up, NEW pins, Exclude(up, pins) PROVE FALSE
    BY <1>4, <1>19 DEF Exclude
  <1> QED
    BY <1>5, <1>6, <1>7, <1>8, <1>9, <1>10, <1>11, <1>12, <1>13, <1>14, <1>15, <1>17, <1>18, <1>19 DEF Next

LEMMA OpenedHolds ==
    ASSUME TypeInv, Sound, live = 0, NEW o, Opened(o), hurt' = {}, NEW q \in InContext, rows[q].id \notin folded
    PROVE  \E m \in ToSet(o.msgs) : m.id = rows[q].id
  <1>1. o \in Object /\ Reloaded(rows, o) /\ Passed(rows, o.first, folded)
    BY OpenedSound
  <1>3. q \in DOMAIN rows /\ q \in Nat /\ ~Known(rows[q], folded)
    BY RowsCounted, Numbers DEF TypeInv, RowsInv, InContext, Known
  <1>4. /\ o.msgs \in Seq(Message) /\ Len(o.msgs) \in Nat /\ o.first \in Nat
        /\ End(o) = o.first + Len(o.msgs) /\ End(o) \in Nat
    BY <1>1, ObjectIs
  <1>6. q >= o.first
    BY <1>1, <1>3, <1>4 DEF Passed
  <1>7. q < End(o) /\ rows[q] = At(o, q)
    BY <1>1, <1>3, <1>6 DEF Reloaded, Upward, Same
  <1>8. q - o.first + 1 \in 1 .. Len(o.msgs)
    <2> DEFINE a == o.first
               n == Len(o.msgs)
    <2>1. a \in Nat /\ n \in Nat /\ q \in Nat /\ q >= a /\ q < a + n
      BY <1>3, <1>4, <1>6, <1>7
    <2> HIDE DEF a, n
    <2>2. q - a + 1 \in 1 .. n
      BY <2>1
    <2> QED
      BY <2>2 DEF a, n
  <1>9. DOMAIN o.msgs = 1 .. Len(o.msgs)
    BY <1>4
  <1>10. rows[q] \in ToSet(o.msgs)
    BY <1>7, <1>8, <1>9 DEF ToSet, At
  <1> QED
    BY <1>10

(* A session that becomes resident has every message in context that its rows  *)
(* have, except those an eviction folded into the summary, unless one of the   *)
(* hazards struck, a failing read that passes for no session among them: none  *)
(* of them is in front of the boundary on disk, not even one taken on trust.   *)
THEOREM SessionContextReloads ==
    ASSUME Excused = Hazard
    PROVE  Spec => ContextReloads
  <1> DEFINE Reloads == Len(obj') > Len(obj) /\ hurt' \cap Excused = {} =>
                           \A q \in InContext : rows[q].id \notin folded
                              => \E m \in ToSet(obj'[Len(obj')].msgs) : m.id = rows[q].id
  <1>1. Init => TypeInv /\ (hurt = {} => Sound)
    BY TypeInit, SoundInit
  <1>2. TypeInv /\ (hurt = {} => Sound) /\ [Next]_vars => TypeInv' /\ (hurt = {} => Sound)'
    BY TypeStep, HurtGrows, SoundStep
  <1>3. TypeInv /\ (hurt = {} => Sound) /\ [Next]_vars => Reloads
    <2> SUFFICES ASSUME TypeInv, hurt = {} => Sound, [Next]_vars, Len(obj') > Len(obj), hurt' \cap Excused = {},
                        NEW q \in InContext, rows[q].id \notin folded
                 PROVE  \E m \in ToSet(obj'[Len(obj')].msgs) : m.id = rows[q].id
      OBVIOUS
    <2>1. hurt' = {} /\ Sound
      <3>1. hurt' \subseteq Hazard
        BY TypeStep DEF TypeInv, Ghosts
      <3>2. hurt' = {}
        BY <3>1
      <3> QED
        BY <3>2, HurtGrows
    <2>2. live = 0 /\ \E o : Opened(o) /\ obj' = Append(obj, o)
      BY ObjGrows
    <2>3. PICK o : Opened(o) /\ obj' = Append(obj, o)
      BY <2>2
    <2>4. obj'[Len(obj')] = o
      <3>1. obj \in Seq(Object) /\ o \in Object
        BY <2>1, <2>2, <2>3, OpenedSound, Numbers
      <3> QED
        BY <2>3, <3>1
    <2> QED
      BY <2>1, <2>2, <2>3, <2>4, OpenedHolds
  <1> QED
    BY <1>1, <1>2, <1>3, PTL DEF Spec, ContextReloads
=============================================================================
