--------------------------- MODULE SessionPersist ---------------------------
(***************************************************************************)
(* One chat session of SessionManager: the Session object in memory, its   *)
(* rows in SQLite, and the saves, evictions, compactions and loads that    *)
(* keep the two together.  Every mutator runs under sm.mu; a save decides  *)
(* under sm.mu what to write, lets the lock go for its statements, and     *)
(* settles the dirty flags when it has the lock again.  Other goroutines   *)
(* mutate, save, evict or load the session in between.                     *)
(*                                                                         *)
(* saveEpoch only serves to tell whether the session was mutated since a   *)
(* save took its snapshot, so it is kept as a mark (moved) on that save;   *)
(* accessTimes likewise (touched).  Indices and seqs count from 0 as in    *)
(* the code: the message of index i is msgs[i + 1].                        *)
(***************************************************************************)
EXTENDS Integers, Sequences, SequencesExt

CONSTANTS
    Saver,      \* goroutines that save, flush, evict, compact or load
    MaxObjs,    \* bound: Session objects built
    MaxEvents,  \* bound: mutations, failing statements and ends of the process
    Excused     \* hazards under which the properties claim nothing

\* How a clean session may come to differ from its rows: at a mutation (raised,
\* overlapped), a compaction (wiped), a load (installed) or a failing read that
\* passes for no session (unread), a write that is late (reordered) or counts
\* rows that are gone (renumbered), or when a save settles (skipped, swallowed).
Hazard == {"skipped", "raised", "swallowed", "wiped", "reordered", "overlapped", "renumbered", "installed",
           "unread"}

ASSUME SessionAssumption ==
    /\ MaxObjs \in Nat \ {0} /\ MaxEvents \in Nat
    /\ Excused \subseteq Hazard

VARIABLES
    rows,    \* session_messages: the rows of the key, by seq
    column,  \* sessions.first_in_memory_seq; -1 without a sessions row
    obj,     \* the Session objects, the current one at live
    live,    \* sm.sessions[key]; 0 when not resident
    op,      \* by goroutine: the call it is in
    edits,   \* mutations so far
    faults, boots,  \* failing statements so far, processes
    torn,    \* ghost: a late write undid a newer save (see TornBy)
    hurt,    \* ghost: the hazards that struck
    folded   \* ghost: ids of in-context messages folded into the summary

vars == <<rows, column, obj, live, op, edits, faults, boots, torn, hurt, folded>>

Stamp   == 1 .. MaxEvents
Message == [id : Stamp, text : Stamp, out : BOOLEAN, draft : BOOLEAN]
Index   == 0 .. MaxEvents
Object  == [msgs : Seq(Message), first : Index, saved : -1 .. MaxEvents - 1, appended : BOOLEAN,
            changed : Index, from : Index, to : Index, cut : Index \cup {-1}, boundary : Index,
            owed : BOOLEAN]
Blank   == [msgs |-> <<>>, first |-> 0, saved |-> -1, appended |-> FALSE, changed |-> 0,
            from |-> 0, to |-> 0, cut |-> -1, boundary |-> 0, owed |-> FALSE]
Idle    == [pc |-> "idle", why |-> "none", kind |-> "none", outer |-> 0, target |-> 0,
            col |-> 0, put |-> <<>>, update |-> <<>>, cut |-> -1,
            moved |-> FALSE, touched |-> FALSE, behind |-> FALSE, owed |-> FALSE, failed |-> FALSE]

Events      == edits + faults + boots - 1
Fault       == Events < MaxEvents /\ faults' = faults + 1
Count(o)    == Len(o.msgs)
Torn        == IF torn THEN {"reordered"} ELSE {}
Resident    == IF live = 0 THEN Blank ELSE obj[live]
Flying(s)   == op[s].pc \in {"meta", "rows", "update", "back"}
HasDraft(o) == o.msgs # <<>> /\ Last(o.msgs).draft
Draft       == [id |-> edits + 1, text |-> edits + 1, out |-> FALSE, draft |-> TRUE]
Final       == [Draft EXCEPT !.draft = FALSE]
Rewritten(m, draft) == [m EXCEPT !.text = edits + 1, !.draft = draft]

\* Rows as a list (ORDER BY seq), a list as rows from a seq on, rows of a range.
Before(r, q) == {p \in DOMAIN r : p < q}
Listed(r)    == [i \in 1 .. Cardinality(DOMAIN r) |-> r[CHOOSE q \in DOMAIN r : Cardinality(Before(r, q)) = i - 1]]
RowsFrom(first, msgs) == [q \in first .. first + Len(msgs) - 1 |-> msgs[q - first + 1]]
Only(r, S)     == [q \in DOMAIN r \cap S |-> r[q]]
Updated(r, u)  == [q \in DOMAIN r |-> IF q \in DOMAIN u THEN u[q] ELSE r[q]]
Replaced(r, p) == [q \in DOMAIN r \cup DOMAIN p |-> IF q \in DOMAIN p THEN p[q] ELSE r[q]]
Below(q) == 0 .. q - 1
From(q)  == q .. 2 * MaxEvents

-----------------------------------------------------------------------------
(* Which save is due, and what it writes.                                  *)

HasRange(o) == o.to > o.from
HasNew(o)   == o.appended \/ o.changed > 0

\* saveUnlocked, in the order of its tests; the delete and the range save fall
\* through to what comes after them.
Pending(o, left) ==
    IF o.saved = -1 THEN "full"
    ELSE IF "delete" \in left /\ o.cut # -1 THEN "delete"
    ELSE IF "range" \in left /\ HasRange(o) THEN "range"
    ELSE IF HasNew(o) THEN "incremental"
    ELSE "none"
Due(o) == Pending(o, {"delete", "range"})

\* saveIncrementalUnlocked writes the rows after the last one saved, and again
\* those changed in place; saveExcludedRangeUnlocked those of the range.
NewRows(o)     == Only(RowsFrom(o.first, o.msgs), From(o.first + o.saved + 1))
ChangedRows(o) == IF o.changed = 0 THEN <<>>
                  ELSE Only(RowsFrom(o.first, o.msgs), o.first + o.changed - 1 .. o.first + o.saved)
RangeRows(o)   == Only(RowsFrom(o.first, o.msgs), o.first + o.from .. o.first + o.to - 1)

\* What a save of kind of the object o, resident as i, takes along.
Snapshot(call, i, o, kind) ==
    [call EXCEPT !.pc = "meta", !.kind = kind, !.target = i, !.col = o.first,
        !.put = CASE kind = "full" -> RowsFrom(0, o.msgs)
                  [] kind = "incremental" -> NewRows(o)
                  [] OTHER -> <<>>,
        !.update = CASE kind = "range" -> RangeRows(o)
                     [] kind = "incremental" -> ChangedRows(o)
                     [] OTHER -> <<>>,
        !.cut = o.cut,
        !.moved = FALSE, !.behind = FALSE, !.owed = FALSE, !.failed = FALSE]
Begin(calls, s, why, o, kind) ==
    [calls EXCEPT ![s] = [Snapshot(Idle, live, o, kind) EXCEPT !.why = why, !.outer = live]]

\* The saves in flight learn that the session was mutated or used.
Moved(calls)   == [s \in Saver |-> IF calls[s].target = live /\ live # 0
                                   THEN [calls[s] EXCEPT !.moved = TRUE] ELSE calls[s]]
\* A likely bug: a use of the session is not recorded.
TouchedNever(calls) == calls

Touched(calls) == [s \in Saver |-> [calls[s] EXCEPT !.touched = calls[s].pc = "loading" \/ calls[s].why = "evict"]]

-----------------------------------------------------------------------------

Init ==
    /\ rows = <<>> /\ column = -1
    /\ obj = <<>> /\ live = 0
    /\ op = [s \in Saver |-> Idle]
    /\ edits = 0 /\ faults = 0 /\ boots = 1
    /\ torn = FALSE /\ hurt = {} /\ folded = {}

-----------------------------------------------------------------------------
(* Sessions become resident.                                               *)

\* loadFromSQLite: the rows from the boundary on; when the boundary does not
\* fit the rows, those from the first in-context one on; without a boundary,
\* the rows after the excluded prefix.
InContext   == {q \in DOMAIN rows : ~rows[q].out}
StaleColumn == column > 0 /\ Cardinality(DOMAIN Only(rows, From(column)))
                             # Max({-1} \cup DOMAIN rows) - column + 1
\* A likely bug: the first row in context is left out.
LoadAfter == IF column > 0 THEN column + 1 ELSE IF InContext # {} THEN Min(InContext) + 1 ELSE 0

LoadFrom ==
    IF ~StaleColumn /\ column > 0 THEN column
    ELSE IF InContext # {} THEN Min(InContext)
    ELSE IF StaleColumn THEN Max({0} \cup DOMAIN rows)
    ELSE 0
LoadedFrom(n) == LET msgs == Listed(Only(rows, From(n)))
                 IN [Blank EXCEPT !.msgs = msgs, !.first = n, !.saved = Len(msgs) - 1]

\* The rows are read from n on and the column is written.  A failing MaxSeq takes
\* the boundary on trust; a failing UpdateFirstInMemorySeq is ignored.
Read(n) ==
    \/ n = LoadFrom /\ column' = LoadFrom /\ UNCHANGED faults
    \/ Fault /\ UNCHANGED column /\ ((n = LoadFrom /\ n # column) \/ (n = column /\ StaleColumn))

\* loadSessionFromDisk, without another session to evict.
Load ==
    /\ live = 0 /\ column # -1 /\ Len(obj) < MaxObjs
    /\ \E n \in 0 .. 2 * MaxEvents : Read(n) /\ obj' = Append(obj, LoadedFrom(n))
    /\ live' = Len(obj) + 1
    /\ op' = Touched(op)
    /\ UNCHANGED <<rows, edits, boots, hurt, torn, folded>>

\* evictIfNeeded saves another session between the read and the insertion, and
\* lets the lock go for it.
Inserting(s) == [op EXCEPT ![s] = [Idle EXCEPT !.pc = "loading", !.target = Len(obj) + 1]]

LoadRead(s) ==
    /\ live = 0 /\ column # -1 /\ Len(obj) < MaxObjs /\ op[s].pc = "idle"
    /\ \E n \in 0 .. 2 * MaxEvents : Read(n) /\ obj' = Append(obj, LoadedFrom(n))
    /\ op' = Inserting(s)
    /\ UNCHANGED <<rows, live, edits, boots, hurt, torn, folded>>

LoadInstall(s) ==
    /\ op[s].pc = "loading"
    /\ live' = op[s].target
    /\ op' = Touched([op EXCEPT ![s] = Idle])
    /\ hurt' = IF op[s].touched THEN hurt \cup {"installed"} ELSE hurt
    /\ UNCHANGED <<rows, column, obj, edits, faults, boots, torn, folded>>

\* The load found no session: there is no sessions row, or a read of what is
\* there failed (GetSessionMeta, LoadMessagesFromSeq, LoadMessagesWithSeq).
NotFound ==
    \/ column = -1 /\ UNCHANGED <<faults, hurt>>
    \/ column # -1 /\ Fault /\ hurt' = hurt \cup {"unread"}

\* getOrCreateUnlocked then makes a session, with or without one to evict.
Create ==
    /\ live = 0 /\ Len(obj) < MaxObjs /\ NotFound
    /\ obj' = Append(obj, Blank) /\ live' = Len(obj) + 1
    /\ op' = Touched(op)
    /\ UNCHANGED <<rows, column, edits, boots, torn, folded>>

CreateBlank(s) ==
    /\ live = 0 /\ Len(obj) < MaxObjs /\ op[s].pc = "idle" /\ NotFound
    /\ obj' = Append(obj, Blank)
    /\ op' = Inserting(s)
    /\ UNCHANGED <<rows, column, live, edits, boots, torn, folded>>

-----------------------------------------------------------------------------
(* Mutations, each under sm.mu, and calls that mutate and save at once.    *)

Mutate(o, calls) ==
    /\ live # 0 /\ Events < MaxEvents
    /\ obj' = [obj EXCEPT ![live] = o]
    /\ edits' = edits + 1
    /\ op' = calls
    /\ UNCHANGED <<rows, column, live, faults, boots, torn, folded>>

Appended(o, m) == [o EXCEPT !.msgs = Append(@, m), !.appended = TRUE]
\* markModified: the lowest index changed, plus one.
Changed(o, i, m) == [o EXCEPT !.msgs[i] = m, !.changed = IF @ = 0 \/ i < @ THEN i ELSE @]

\* AddFullMessage, of an assistant: it takes the place of the streaming draft.
\* Of anyone else: the draft is finalized in place first.
AddFullMessage(assistant) ==
    /\ live # 0
    /\ LET o == obj[live]
           n == Count(o)
       IN Mutate(IF ~HasDraft(o) THEN Appended(o, Final)
                 ELSE IF assistant THEN Changed(o, n, Rewritten(Last(o.msgs), FALSE))
                 ELSE Appended(Changed(o, n, [Last(o.msgs) EXCEPT !.draft = FALSE]), Final),
                 Touched(Moved(op)))
    /\ UNCHANGED hurt

WithChunk(o) == IF HasDraft(o) THEN Changed(o, Count(o), Rewritten(Last(o.msgs), TRUE))
                ELSE Changed(Appended(o, Draft), Count(o) + 1, Draft)

\* AppendAssistantChunk, between two flushes of the stream and on a flush.
AppendChunk ==
    /\ live # 0
    /\ Mutate(WithChunk(obj[live]), Touched(Moved(op)))
    /\ UNCHANGED hurt

AppendFlush(s) ==
    /\ live # 0 /\ op[s].pc = "idle"
    /\ LET o == WithChunk(obj[live])
       IN Mutate(o, Begin(Touched(Moved(op)), s, "save", o, "incremental"))
    /\ UNCHANGED hurt

\* AttachFilesToLastAssistant, whichever message that is.
AttachFiles(s, i) ==
    /\ live # 0 /\ op[s].pc = "idle" /\ i \in 1 .. Count(obj[live])
    /\ LET m == obj[live].msgs[i]
           o == Changed(obj[live], i, Rewritten(m, m.draft))
       IN Mutate(o, Begin(Touched(Moved(op)), s, "save", o, Due(o)))
    /\ UNCHANGED hurt

\* RemoveLastMessage.
RemoveLast ==
    /\ live # 0 /\ obj[live].msgs # <<>>
    /\ LET o == obj[live]
           n == Count(o) - 1
       IN /\ Mutate([o EXCEPT !.msgs = Front(@), !.cut = o.first + n,
                           !.boundary = IF @ > n THEN 0 ELSE @],
                 Touched(Moved(op)))
          /\ hurt' = IF o.saved # -1 /\ o.cut # -1 /\ o.cut < o.first + n THEN hurt \cup {"raised"} ELSE hurt

\* A full rewrite is owed from here on.
Owed(o) == [o EXCEPT !.saved = -1, !.owed = TRUE]

TruncateHistory(keep) ==
    /\ live # 0 /\ (keep > 0 => Count(obj[live]) > keep)
    /\ LET o == obj[live]
       IN Mutate(Owed([o EXCEPT !.msgs = IF keep = 0 THEN <<>> ELSE SubSeq(@, Count(o) - keep + 1, Count(o)),
                                !.from = 0, !.to = 0, !.boundary = 0]),
                 Touched(Moved(op)))
    /\ UNCHANGED hurt

\* SetHistory, as its callers use it: with one message more, or one less.
SetHistory(msgs) ==
    /\ live # 0
    /\ LET o == obj[live]
       IN Mutate(Owed([o EXCEPT !.msgs = msgs, !.from = 0, !.to = 0,
                                !.boundary = IF @ > Len(msgs) THEN 0 ELSE @]),
                 Touched(Moved(op)))
    /\ UNCHANGED hurt

\* ExcludeOldMessagesFromContext: up to index up, the first message and the
\* pinned ones (the last user messages) stay in context.  Which boundary a
\* tool group moves it to, and who wrote what, is left open.
Marked(o, up, pins) ==
    [i \in 1 .. Count(o) |->
        [o.msgs[i] EXCEPT !.out = IF i = 1 \/ i \in pins THEN FALSE ELSE (i <= up /\ up > 1) \/ @]]

Exclude(up, pins) ==
    /\ live # 0 /\ up < Count(obj[live]) + 1
    /\ pins \subseteq 2 .. Count(obj[live])
    /\ LET o     == obj[live]
           first == IF o.msgs[1].out THEN 0 ELSE 1
           top   == Max({up, first + 1} \cup {i \in pins : o.msgs[i].out})
       IN /\ Count(o) > 0 /\ (up > 1 \/ Marked(o, up, pins) # o.msgs)
          /\ Mutate([o EXCEPT !.msgs = Marked(o, up, pins), !.from = first, !.to = top, !.boundary = top],
                    Moved(op))
          /\ hurt' = IF HasRange(o) /\ (o.from < first \/ o.to > top) THEN hurt \cup {"overlapped"} ELSE hurt

-----------------------------------------------------------------------------
(* Saves: under the lock, then their statements without it.                *)

\* Save, of a session with something to save.
Save(s) ==
    /\ op[s].pc = "idle" /\ live # 0 /\ Due(obj[live]) # "none"
    /\ op' = Begin(op, s, "save", obj[live], Due(obj[live]))
    /\ UNCHANGED <<rows, column, obj, live, edits, faults, boots, hurt, torn, folded>>

\* FinalizeAssistantMessage flushes a streaming draft, dirty or not.
FlushDraft(s) ==
    /\ op[s].pc = "idle" /\ live # 0 /\ HasDraft(obj[live])
    /\ op' = Begin(Touched(op), s, "save", obj[live], "incremental")
    /\ UNCHANGED <<rows, column, obj, live, edits, faults, boots, hurt, torn, folded>>

\* EvictSession, CleanupIdleSessions and evictIfNeeded: saveForEviction.
Evict(s) ==
    /\ op[s].pc = "idle" /\ live # 0
    /\ IF Due(obj[live]) = "none"
       THEN /\ live' = 0
            /\ op' = Touched(op)
       ELSE /\ op' = Begin(op, s, "evict", obj[live], Due(obj[live]))
            /\ UNCHANGED live
    /\ hurt' = IF live' = 0 THEN hurt \cup Torn ELSE hurt
    /\ UNCHANGED <<rows, column, obj, edits, faults, boots, torn, folded>>

\* The indices EvictExcludedMessages takes out of memory: those up to the last
\* excluded message within the boundary of the last compaction, else the first
\* run of excluded ones; the last message in context stays.
OutAt(o)  == {i \in 1 .. Count(o) : o.msgs[i].out}
InAt(o)   == (1 .. Count(o)) \ OutAt(o)
FirstRun(o) == Min({i \in InAt(o) : i > Min(OutAt(o))} \cup {Count(o) + 1}) - 1
Reach(o)  == IF o.boundary > 0 THEN Min({Max(OutAt(o)), o.boundary}) ELSE FirstRun(o)
EvictUpTo(o) == IF Reach(o) < Count(o) \/ InAt(o) = {} THEN Reach(o)
                ELSE Min({Reach(o), Max(InAt(o)) - 1})
Folded(o, n) == {o.msgs[i].id : i \in InAt(o) \cap 1 .. n}
Cleaned(o)   == [o EXCEPT !.saved = Count(o) - 1, !.appended = FALSE, !.changed = 0,
                          !.from = 0, !.to = 0, !.cut = -1, !.owed = FALSE]

\* Nothing is due, and no save in flight is to undo what the rows hold.
Quiet(o) == Due(o) = "none" /\ ~torn /\ \A x \in Saver : ~(op[x].target = live /\ op[x].behind)

\* EvictExcludedMessages, up to its write.
EvictExcluded(s) ==
    /\ op[s].pc = "idle" /\ live # 0 /\ OutAt(obj[live]) # {}
    /\ LET o == obj[live]
           n == EvictUpTo(o)
           tail == [o EXCEPT !.msgs = SubSeq(@, n + 1, Count(o)), !.first = @ + n]
       IN IF n = 0
          THEN /\ obj' = [obj EXCEPT ![live] = Cleaned(o)]
               /\ op' = Touched(op)
               /\ UNCHANGED folded
          ELSE /\ obj' = [obj EXCEPT ![live] = tail]
               /\ op' = Begin(Moved(op), s, "compact", tail, "boundary")
               /\ folded' = folded \cup Folded(o, n)
    /\ hurt' = IF Quiet(obj[live]) THEN hurt ELSE hurt \cup {"wiped"}
    /\ UNCHANGED <<rows, column, live, edits, faults, boots, torn>>

\* Back from its statements, a save needs only its marks, and col if it was full.
Landed(call)   == [call EXCEPT !.pc = "back", !.put = <<>>, !.update = <<>>, !.cut = -1, !.behind = FALSE]
Executed(call) == IF call.update # <<>> /\ call.kind = "incremental" /\ call.pc = "rows"
                  THEN [call EXCEPT !.pc = "update"] ELSE Landed(call)

Fail(s) ==
    /\ Fault
    /\ op' = [op EXCEPT ![s] = [Landed(@) EXCEPT !.failed = TRUE]]

\* A full rewrite has read the evicted rows, which it puts in front.
WithEvicted(call) ==
    LET evicted == Listed(Only(rows, Below(call.col)))
    IN [call EXCEPT !.pc = "rows", !.col = Len(evicted), !.put = RowsFrom(0, evicted \o Listed(@))]

\* Rows in front of its own are gone; or its object is no longer the resident
\* one, and the boundary it writes an old one.
Renumbered(s) == IF op[s].kind = "full" /\ ~(Below(op[s].col) \subseteq DOMAIN rows) THEN {"renumbered"} ELSE {}
Outdated(s)   == IF live # op[s].target /\ op[s].col \notin {0, column} THEN {"reordered"} ELSE {}

\* UpsertSession.  The boundary of an eviction (UpdateFirstInMemorySeq) needs a row.
WriteMeta(s) ==
    /\ op[s].pc = "meta"
    /\ \/ /\ column' = IF op[s].kind = "boundary" /\ column = -1 THEN -1 ELSE op[s].col
          /\ op' = [op EXCEPT ![s] = CASE @.kind = "boundary" -> Landed(@)
                                       [] @.kind = "full" -> WithEvicted(@)
                                       [] OTHER -> [@ EXCEPT !.pc = "rows", !.col = 0]]
          /\ hurt' = hurt \cup Renumbered(s) \cup Outdated(s)
          /\ UNCHANGED faults
       \/ /\ Fail(s)
          /\ UNCHANGED <<column, hurt>>
    /\ UNCHANGED <<rows, obj, live, edits, boots, torn, folded>>

\* A save that was overtaken learns that another one has written by now.
Behind(calls, s) ==
    [x \in Saver |-> IF /\ x # s /\ calls[x].target = op[s].target /\ calls[x].moved
                        /\ calls[x].pc # "back"
                     THEN [calls[x] EXCEPT !.behind = TRUE] ELSE calls[x]]

\* A write that lands after a newer save's, or one of an object no longer
\* resident.  An incremental one leaves the newer flags clean; any other orders a
\* full rewrite when it settles, and the rows are torn until then; so they are
\* when an incremental one comes after a deletion it knows nothing of.
Overtaken(s) == (op[s].kind = "incremental" /\ op[s].behind) \/ live # op[s].target
Late(s)      == IF Overtaken(s) THEN {"reordered"} ELSE {}
Holed(p)     == \E q \in DOMAIN p \ {0} : q - 1 \notin DOMAIN rows \cup DOMAIN p
TornBy(s)    == CASE op[s].kind = "incremental" -> torn \/ (op[s].pc = "rows" /\ Holed(op[s].put))
                  [] op[s].kind = "full"        -> op[s].behind
                  [] OTHER                      -> torn \/ op[s].behind

\* ReplaceMessages, InsertMessages, DeleteMessagesFrom or
\* UpdateMessagesExcludedWithJSON; UpdateMessages follows InsertMessages.
RowsAfter(call) ==
    CASE call.kind = "full"        -> call.put
      [] call.kind = "incremental" -> Replaced(rows, call.put)
      [] call.kind = "delete"      -> Only(rows, Below(call.cut))
      [] call.kind = "range"       -> Updated(rows, call.update)

WriteRows(s) ==
    /\ op[s].pc = "rows"
    /\ \/ /\ rows' = RowsAfter(op[s])
          /\ op' = Behind([op EXCEPT ![s] = Executed(@)], s)
          /\ hurt' = hurt \cup Late(s) /\ torn' = TornBy(s)
          /\ UNCHANGED faults
       \/ /\ Fail(s)
          /\ UNCHANGED <<rows, hurt, torn>>
    /\ UNCHANGED <<column, obj, live, edits, boots, folded>>

WriteUpdate(s) ==
    /\ op[s].pc = "update"
    /\ \/ /\ rows' = Updated(rows, op[s].update)
          /\ op' = Behind([op EXCEPT ![s] = Executed(@)], s)
          /\ hurt' = hurt \cup Late(s) /\ torn' = TornBy(s)
          /\ UNCHANGED faults
       \/ /\ Fail(s)
          /\ UNCHANGED <<rows, hurt, torn>>
    /\ UNCHANGED <<column, obj, live, edits, boots, folded>>

-----------------------------------------------------------------------------
(* The lock is back: settle the flags, and go on.                          *)

\* Nothing changed the session since the snapshot: what the save settles, the
\* full, range and boundary saves only when the object is still the resident one.
\* A likely bug: the watermark is a count.
SettledCount(s, o) ==
    IF op[s].kind = "incremental" THEN [o EXCEPT !.saved = Count(o), !.appended = FALSE, !.changed = 0] ELSE o

SettledClean(s, o) ==
    CASE op[s].kind = "incremental" -> [o EXCEPT !.saved = Count(o) - 1, !.appended = FALSE, !.changed = 0]
      [] op[s].kind = "delete"      -> [o EXCEPT !.saved = Count(o) - 1, !.cut = -1]
      [] op[s].kind \in {"full", "range", "boundary"} /\ live # op[s].target -> o
      [] op[s].kind = "full" /\ live = op[s].target     -> [Cleaned(o) EXCEPT !.first = op[s].col]
      [] op[s].kind = "range" /\ live = op[s].target    -> [o EXCEPT !.from = 0, !.to = 0]
      [] op[s].kind = "boundary" /\ live = op[s].target -> Cleaned(o)

\* A failed save leaves the flags; one that was overtaken does too when it was
\* incremental, and orders a full rewrite otherwise.
Failed(s)  == op[s].failed /\ op[s].kind # "boundary"
\* A likely bug: the epoch is not compared.
SettledAnyway(s) == IF Failed(s) THEN obj[op[s].target] ELSE SettledClean(s, obj[op[s].target])

Settled(s) ==
    LET o == obj[op[s].target] IN
    IF Failed(s) \/ (op[s].moved /\ op[s].kind = "incremental") THEN o
    ELSE IF op[s].moved THEN Owed(o)
    ELSE SettledClean(s, o)

\* The hazards, at the step where the flags stop telling the truth.
Skipped(s, o)   == op[s].kind = "delete" /\ (o.saved < Count(o) - 1 \/ Count(o) > o.cut - o.first)
Swallowed(s, o) == IF op[s].kind = "full" THEN op[s].owed ELSE op[s].kind # "range" /\ o.owed
Struck(s) ==
    LET o == obj[op[s].target] IN
    {h \in Hazard : \/ h = "skipped" /\ ~Failed(s) /\ ~op[s].moved /\ Skipped(s, o)
                    \/ h = "swallowed" /\ ~Failed(s) /\ ~op[s].moved /\ Swallowed(s, o)}

\* A full rewrite ordered meanwhile is lost on the saves in flight.
Told(calls, s) ==
    [x \in Saver |-> IF x # s /\ calls[x].target = op[s].target /\ op[s].moved /\ ~Failed(s)
                        /\ op[s].kind # "incremental"
                     THEN [calls[x] EXCEPT !.owed = TRUE] ELSE calls[x]]

\* The branches after the delete and the range save (saveUnlocked).
Following(s, o) == IF Failed(s) THEN "none"
                   ELSE CASE op[s].kind = "delete" -> Pending(o, {"range"})
                          [] op[s].kind = "range"  -> Pending(o, {})
                          [] OTHER                 -> "none"

Settle(s) ==
    /\ op[s].pc = "back"
    /\ LET after == [obj EXCEPT ![op[s].target] = Settled(s)]
           next  == Following(s, after[op[s].outer])
           more  == next # "none" /\ live # 0
           gone  == ~more /\ op[s].why = "evict" /\ ~op[s].touched
           used  == gone \/ (op[s].kind = "boundary" /\ ~op[s].moved /\ live = op[s].target)
           rest  == Told(op, s)
           calls == IF more THEN [rest EXCEPT ![s] = Snapshot(rest[s], live, after[live], next)]
                    ELSE [rest EXCEPT ![s] = Idle]
       IN /\ obj' = after
          /\ live' = IF gone THEN 0 ELSE live
          /\ op' = IF used THEN Touched(calls) ELSE calls
          /\ hurt' = hurt \cup Struck(s) \cup (IF gone THEN Torn ELSE {})
    /\ UNCHANGED <<rows, column, edits, faults, boots, torn, folded>>

-----------------------------------------------------------------------------

\* The process ends at any point and another one starts.
Restart ==
    /\ Events < MaxEvents /\ boots' = boots + 1
    /\ live' = 0 /\ op' = [s \in Saver |-> Idle] /\ obj' = <<>>
    /\ hurt' = hurt \cup Torn
    /\ UNCHANGED <<rows, column, edits, faults, torn, folded>>

SetHistoryCalls ==
    /\ live # 0
    /\ \/ SetHistory(Append(Resident.msgs, Final))
       \/ \E i \in 1 .. Count(Resident) : SetHistory(RemoveAt(Resident.msgs, i))

Next ==
    \/ Load \/ Create \/ Restart
    \/ \E assistant \in BOOLEAN : AddFullMessage(assistant)
    \/ AppendChunk \/ RemoveLast \/ SetHistoryCalls
    \/ \E keep \in {0, 1} : TruncateHistory(keep)
    \/ \E up \in 0 .. MaxEvents, pins \in SUBSET (2 .. MaxEvents) : Exclude(up, pins)
    \/ \E s \in Saver :
          \/ LoadRead(s) \/ CreateBlank(s) \/ LoadInstall(s)
          \/ AppendFlush(s) \/ (\E i \in 1 .. MaxEvents : AttachFiles(s, i))
          \/ Save(s) \/ FlushDraft(s) \/ Evict(s) \/ EvictExcluded(s)
          \/ WriteMeta(s) \/ WriteRows(s) \/ WriteUpdate(s) \/ Settle(s)

Spec == Init /\ [][Next]_vars

-----------------------------------------------------------------------------
(* Properties.                                                             *)

\* Every variable has its type.
TypeOK ==
    /\ DOMAIN rows \subseteq 0 .. 2 * MaxEvents /\ \A q \in DOMAIN rows : rows[q] \in Message
    /\ column \in -1 .. 2 * MaxEvents
    /\ obj \in Seq(Object) /\ Len(obj) <= MaxObjs /\ live \in 0 .. Len(obj)
    /\ \A s \in Saver : /\ op[s].pc \in {"idle", "loading", "meta", "rows", "update", "back"}
                        /\ op[s].target \in 0 .. Len(obj)
    /\ edits \in 0 .. MaxEvents /\ faults \in 0 .. MaxEvents /\ boots \in 1 .. MaxEvents + 1
    /\ torn \in BOOLEAN /\ hurt \subseteq Hazard /\ folded \subseteq Stamp

\* The rows from the boundary on are the messages in memory.
Matches(o) == Only(rows, From(o.first)) = RowsFrom(o.first, o.msgs)

\* When no save is due and none is in flight, the rows hold what memory holds:
\* clean flags tell the truth, unless one of the excused hazards struck.
CleanIsSaved ==
    live # 0 /\ (\A s \in Saver : ~Flying(s)) /\ Due(Resident) = "none" /\ hurt \cap Excused = {}
       => Matches(Resident)

Texts(r) == [q \in DOMAIN r |-> r[q].text]

\* A session leaves memory only with every message and every edit of it on
\* disk, whoever used it during the eviction's save; not so its exclusion
\* flags, which do not count as use, nor when a statement failed.
EvictKeeps ==
    [][live # 0 /\ live' = 0 /\ boots' = boots /\ faults = 0 /\ hurt' \cap Excused = {}
          /\ (\A s \in Saver : op'[s].pc = "idle")
          => Texts(Only(rows, From(Resident.first))) = Texts(RowsFrom(Resident.first, Resident.msgs))]_vars

\* A session that becomes resident has every message in context that its rows
\* have, except those an eviction folded into the summary, unless one of the
\* excused hazards struck (a read that fails may be one: unread).
ContextReloads ==
    [][Len(obj') > Len(obj) /\ hurt' \cap Excused = {} =>
          \A q \in InContext : rows[q].id \notin folded
             => \E m \in ToSet(obj'[Len(obj')].msgs) : m.id = rows[q].id]_vars

=============================================================================
