------------------------------ MODULE GroupRun ------------------------------
(***************************************************************************)
(* Group chats: GroupManager.Start registers a group and launches its run  *)
(* loop, which asks the strategy who speaks next, runs the turns of that   *)
(* batch, one by one or in parallel, and ends the group through finalize.  *)
(* Stop, a failing or panicking turn, a convergence rule and the end of    *)
(* the strategy race to be the reason.  Shutdown cancels the root context, *)
(* drains the run goroutines and closes the store; a restart rehydrates    *)
(* what the store holds; a client reads memory and store one after the     *)
(* other.                                                                  *)
(***************************************************************************)
EXTENDS Naturals, Sequences, FiniteSets

CONSTANTS
    Group,      \* group ids, each used once (NewGroupID)
    Agent,      \* the agents that resolve
    NoAgent,    \* an empty Moderator; any other is a participant
    Profile,    \* what a group may be started with
    MaxBoots    \* bound: processes

\* team is the sequence of participants, proposers those with RoleProposer,
\* aggregators those with RoleAggregator; stops tells whether stop keywords, a
\* token budget or repetition may end the group early.
ASSUME GroupAssumption ==
    /\ MaxBoots \in Nat
    /\ NoAgent \notin Agent
    /\ Profile # {}
    /\ \A p \in Profile :
          /\ p.strategy \in {"moa", "round_robin", "pipeline", "moderator"}
          /\ p.team \in Seq(Agent) /\ p.team # <<>>
          /\ p.proposers \subseteq Agent /\ p.aggregators \subseteq Agent
          /\ p.moderator \in {p.team[i] : i \in DOMAIN p.team} \cup {NoAgent}
          /\ p.rounds \in Nat /\ p.maxTurns \in Nat \ {0}
          /\ p.parallel \in BOOLEAN /\ p.stops \in BOOLEAN

VARIABLES
    stage,    \* where the process is in its life
    boots,    \* processes started
    mem,      \* GroupManager.groups
    run,      \* by group: Start's caller, then the runGroup goroutine
    store,    \* groups_state
    expired,  \* groups past their retention window
    drain,    \* DrainAllRunGoroutines: the groups it still waits for
    reader,   \* SnapshotsForSession
    told,     \* ghost: the group.status and group.complete events published
    missed    \* ghost: groups not yet launched when the drain took its copy

vars == <<stage, boots, mem, run, store, expired, drain, reader, told, missed>>

Terminal == {"done", "stopped", "error"}
Turn     == [speaker : Agent, layer : Nat, index : Nat, stop : BOOLEAN]
NoState  == [status |-> "none", turns |-> <<>>]
State    == [status : {"none", "running"} \cup Terminal, turns : Seq(Turn)]
Untracked == [tracked |-> FALSE, prof |-> CHOOSE p \in Profile : TRUE, state |-> NoState,
              next |-> 0, cancelled |-> FALSE, done |-> FALSE]
NoRun    == [pc |-> "unused", batch |-> {}, parallel |-> FALSE, layer |-> 0, active |-> {},
             failed |-> FALSE, out |-> "none"]

\* Start's caller, and the loop.
Starting == {"registered", "announced", "saved"}
Working  == {"top", "batch", "finish", "marked", "kept", "told", "closed"}

MemType ==
    mem \in [Group -> [tracked : BOOLEAN, prof : Profile, state : State, next : Nat,
                       cancelled : BOOLEAN, done : BOOLEAN]]

RunType ==
    run \in [Group -> [pc : {"unused", "gone"} \cup Starting \cup Working, batch : SUBSET Nat,
                       parallel : BOOLEAN, layer : Nat, active : SUBSET [speaker : Agent, layer : Nat, index : Nat],
                       failed : BOOLEAN, out : {"none"} \cup Terminal]]

TypeOK ==
    /\ stage \in {"down", "up", "stopping", "draining", "closed", "abandoned"}
    /\ boots \in 0..MaxBoots
    /\ MemType
    /\ RunType
    /\ store \in [Group -> State]
    /\ expired \subseteq Group /\ drain \subseteq Group /\ missed \subseteq Group
    /\ reader \in [busy : BOOLEAN, seen : [Group -> {"none", "running"} \cup Terminal],
                   ended : SUBSET Group, shown : [Group -> {"none", "running"} \cup Terminal]]
    /\ told \in [Group -> Seq({"started", "complete"} \cup Terminal)]

NoReader == [busy |-> FALSE, seen |-> [g \in Group |-> "none"], ended |-> {},
             shown |-> [g \in Group |-> "none"]]

Init ==
    /\ stage = "down"
    /\ boots = 0
    /\ mem = [g \in Group |-> Untracked]
    /\ run = [g \in Group |-> NoRun]
    /\ store = [g \in Group |-> NoState]
    /\ expired = {} /\ drain = {} /\ missed = {}
    /\ reader = NoReader
    /\ told = [g \in Group |-> <<>>]

Alive == stage # "down"
Ended(g) == \E i \in DOMAIN told[g] : told[g][i] \in Terminal

-----------------------------------------------------------------------------
(* Convergence and strategies *)

First(places) == CHOOSE i \in places : \A j \in places : i <= j

\* A likely bug: the cap lets one turn more through.
StopReasonLate(p, turns) ==
    \/ Len(turns) > p.maxTurns
    \/ turns # <<>> /\ turns[Len(turns)].stop

StopReason(p, turns) ==
    \/ Len(turns) >= p.maxTurns
    \/ turns # <<>> /\ turns[Len(turns)].stop

MoAAggregator(p) ==
    IF p.moderator # NoAgent THEN p.moderator
    ELSE LET agg == {i \in DOMAIN p.team : p.team[i] \in p.aggregators}
         IN  IF agg = {} THEN p.team[1] ELSE p.team[First(agg)]

\* By their places in the team.
MoAProposers(p) ==
    LET named == {i \in DOMAIN p.team : p.team[i] \in p.proposers}
    IN  IF named # {} THEN named ELSE {i \in DOMAIN p.team : p.team[i] # MoAAggregator(p)}

SpokeIn(turns, a, layer) == \E i \in DOMAIN turns : turns[i].speaker = a /\ turns[i].layer = layer

\* The number of layers the aggregator has closed.
MoACurrentLayer(p, turns) ==
    LET open == {l \in 0..Len(turns) : ~SpokeIn(turns, MoAAggregator(p), l)}
    IN  CHOOSE l \in open : \A k \in open : l <= k

\* The speakers of the next batch, by their places; none when the strategy is
\* done.  The moderator strategy runs with its default decider.
MoANext(p, turns) ==
    LET layer == MoACurrentLayer(p, turns)
        left == {i \in MoAProposers(p) : ~SpokeIn(turns, p.team[i], layer)}
    IN  IF p.rounds > 0 /\ layer >= p.rounds THEN {}
        ELSE IF left # {} THEN left
        ELSE {First({i \in DOMAIN p.team : p.team[i] = MoAAggregator(p)})}

TurnLimit(p) ==
    CASE p.strategy = "pipeline" -> Len(p.team)
      [] p.strategy = "round_robin" /\ p.rounds > 0 -> p.rounds * Len(p.team)
      [] OTHER -> p.maxTurns

NextSpeakers(p, turns) ==
    IF StopReason(p, turns) THEN {}
    ELSE IF p.strategy = "moa" THEN MoANext(p, turns)
    ELSE IF Len(turns) >= TurnLimit(p) THEN {}
    ELSE {(Len(turns) % Len(p.team)) + 1}

Layer(p, turns) == IF p.strategy = "moa" THEN MoACurrentLayer(p, turns) ELSE 0

-----------------------------------------------------------------------------
(* Process life *)

\* LoadHistorical: a row whose run did not end is tracked as an error; nothing
\* is written back.
Boot ==
    /\ stage = "down"
    /\ boots < MaxBoots
    /\ stage' = "up"
    /\ boots' = boots + 1
    /\ mem' = [g \in Group |->
                 IF store[g].status = "none" THEN mem[g]
                 ELSE [mem[g] EXCEPT !.tracked = TRUE, !.done = TRUE, !.state.turns = store[g].turns,
                          !.state.status = IF store[g].status \in Terminal THEN store[g].status
                                           ELSE "error"]]
    /\ UNCHANGED <<run, store, expired, drain, reader, told, missed>>

\* The process exits or dies: its memory is gone.
ProcessEnd ==
    /\ Alive
    /\ stage' = "down"
    /\ mem' = [g \in Group |-> [Untracked EXCEPT !.prof = mem[g].prof]]
    /\ run' = [g \in Group |-> IF run[g].pc = "unused" THEN NoRun ELSE [NoRun EXCEPT !.pc = "gone"]]
    /\ expired' = {} /\ drain' = {}
    /\ reader' = NoReader
    /\ UNCHANGED <<boots, store, told, missed>>

\* The root context every group's context descends from.
CancelRoot ==
    /\ stage = "up"
    /\ stage' = "stopping"
    /\ mem' = [g \in Group |-> [mem[g] EXCEPT !.cancelled = TRUE]]
    /\ UNCHANGED <<boots, run, store, expired, drain, reader, told, missed>>

\* DrainAllRunGoroutines copies the tracked groups, then waits for one after
\* the other; a group whose Start has not reached runWg.Add is no wait at all,
\* and one that was swept before its deferred save is not in the copy.
DrainCopy ==
    /\ stage = "stopping"
    /\ stage' = "draining"
    /\ drain' = {g \in Group : mem[g].tracked}
    /\ missed' = missed \cup {g \in Group : run[g].pc \in Starting}
    /\ UNCHANGED <<boots, mem, run, store, expired, reader, told>>

DrainWait(g) ==
    /\ stage = "draining"
    /\ g \in drain
    /\ run[g].pc \notin Working
    /\ drain' = drain \ {g}
    /\ UNCHANGED <<stage, boots, mem, run, store, expired, reader, told, missed>>

CloseStore ==
    /\ stage = "draining"
    /\ drain = {}
    /\ stage' = "closed"
    /\ UNCHANGED <<boots, mem, run, store, expired, drain, reader, told, missed>>

DrainTimeout ==
    /\ stage = "draining"
    /\ drain # {}
    /\ stage' = "abandoned"
    /\ UNCHANGED <<boots, mem, run, store, expired, drain, reader, told, missed>>

-----------------------------------------------------------------------------
(* Start *)

\* saveStateBestEffort: nothing is written once the store is closed.
Save(g) == store' = IF stage = "closed" THEN store ELSE [store EXCEPT ![g] = mem[g].state]

\* evictExpiredLocked, the sweep every locked entry point begins with.
Swept(m) ==
    [g \in Group |-> IF g \in expired /\ m[g].state.status \in Terminal /\ m[g].done
                     THEN [m[g] EXCEPT !.tracked = FALSE] ELSE m[g]]

Register(g, p) ==
    /\ Alive
    /\ run[g].pc = "unused"
    /\ run' = [run EXCEPT ![g].pc = "registered"]
    /\ mem' = [Swept(mem) EXCEPT ![g] =
                 [Untracked EXCEPT !.tracked = TRUE, !.prof = p, !.state.status = "running",
                                   !.cancelled = stage # "up"]]
    /\ missed' = IF stage \in {"draining", "closed"} THEN missed \cup {g} ELSE missed
    /\ UNCHANGED <<stage, boots, store, expired, drain, reader, told>>

Announce(g) ==
    /\ run[g].pc = "registered"
    /\ run' = [run EXCEPT ![g].pc = "announced"]
    /\ told' = [told EXCEPT ![g] = Append(@, "started")]
    /\ UNCHANGED <<stage, boots, mem, store, expired, drain, reader, missed>>

SaveStarted(g) ==
    /\ run[g].pc = "announced"
    /\ run' = [run EXCEPT ![g].pc = "saved"]
    /\ Save(g)
    /\ UNCHANGED <<stage, boots, mem, expired, drain, reader, told, missed>>

\* runWg.Add and the goroutine.
Launch(g) ==
    /\ run[g].pc = "saved"
    /\ run' = [run EXCEPT ![g].pc = "top"]
    /\ UNCHANGED <<stage, boots, mem, store, expired, drain, reader, told, missed>>

-----------------------------------------------------------------------------
(* runGroup *)

Finish(g, status) == run' = [run EXCEPT ![g] = [NoRun EXCEPT !.pc = "finish", !.out = status]]

\* One iteration: the context, the hard stops, the strategy.
LoopTop(g) ==
    LET p == mem[g].prof
        speakers == NextSpeakers(p, mem[g].state.turns)
    IN  /\ run[g].pc = "top"
        /\ IF mem[g].cancelled THEN Finish(g, "stopped")
           ELSE IF speakers = {} THEN Finish(g, "done")
           ELSE run' = [run EXCEPT ![g] =
                  [@ EXCEPT !.pc = "batch", !.batch = speakers, !.layer = Layer(p, mem[g].state.turns),
                            !.parallel = p.parallel /\ Cardinality(speakers) > 1]]
        /\ UNCHANGED <<stage, boots, mem, store, expired, drain, reader, told, missed>>

\* A parallel worker starts whatever the others do, in any order; a sequential
\* turn after the previous one, and not under a cancelled context.
MayBegin(g, i) ==
    /\ run[g].pc = "batch" /\ i \in run[g].batch
    /\ \/ run[g].parallel
       \/ i = First(run[g].batch) /\ run[g].active = {} /\ ~run[g].failed /\ ~mem[g].cancelled

Begun(g, i, index) ==
    run' = [run EXCEPT ![g].batch = @ \ {i},
               ![g].active = @ \cup {[speaker |-> mem[g].prof.team[i], layer |-> run[g].layer,
                                     index |-> index]}]

\* A likely bug: the index is taken from the transcript's length.
TurnBeginByLength(g, i) ==
    /\ MayBegin(g, i)
    /\ Begun(g, i, Len(mem[g].state.turns))
    /\ UNCHANGED <<stage, boots, mem, store, expired, drain, reader, told, missed>>

\* prepareTurn reserves the index.
TurnBegin(g, i) ==
    LET turns == mem[g].state.turns
        base  == IF mem[g].next < Len(turns) THEN Len(turns) ELSE mem[g].next
    IN  /\ MayBegin(g, i)
        /\ mem' = [mem EXCEPT ![g].next = base + 1]
        /\ Begun(g, i, base)
        /\ UNCHANGED <<stage, boots, store, expired, drain, reader, told, missed>>

\* The executor answers, cancelled or not, and recordTurn appends in the order
\* of completion; stop: the turn carries a stop keyword, spends the budget or
\* repeats the ones before.
TurnEnd(g, t, stop) ==
    /\ t \in run[g].active
    /\ stop => mem[g].prof.stops
    /\ mem' = [mem EXCEPT ![g].state.turns =
                 Append(@, [speaker |-> t.speaker, layer |-> t.layer, index |-> t.index,
                            stop |-> stop])]
    /\ run' = [run EXCEPT ![g].active = @ \ {t}]
    /\ UNCHANGED <<stage, boots, store, expired, drain, reader, told, missed>>

\* A turn fails: the participant does not resolve, the executor errs, or it
\* panics in a parallel worker.
TurnFail(g, t) ==
    /\ t \in run[g].active
    /\ run' = [run EXCEPT ![g].active = @ \ {t}, ![g].failed = TRUE]
    /\ UNCHANGED <<stage, boots, mem, store, expired, drain, reader, told, missed>>

\* A likely bug: the recovery lets the goroutine return and ends nothing.
TurnPanicLost(g, t) ==
    /\ t \in run[g].active
    /\ ~run[g].parallel
    /\ run' = [run EXCEPT ![g] = [NoRun EXCEPT !.pc = "gone"]]
    /\ UNCHANGED <<stage, boots, mem, store, expired, drain, reader, told, missed>>

\* A sequential turn panics on the loop's own goroutine: recovered there.
TurnPanic(g, t) ==
    /\ t \in run[g].active
    /\ ~run[g].parallel
    /\ Finish(g, "error")
    /\ UNCHANGED <<stage, boots, mem, store, expired, drain, reader, told, missed>>

\* Every worker has returned, or the sequence stopped early.
BatchOver(g) ==
    /\ run[g].active = {}
    /\ run[g].batch = {} \/ (~run[g].parallel /\ (run[g].failed \/ mem[g].cancelled))

\* A likely bug: the context's own word is taken for the status.
BatchEndCancelled(g) ==
    /\ run[g].pc = "batch"
    /\ BatchOver(g)
    /\ IF mem[g].cancelled THEN Finish(g, "cancelled")
       ELSE IF run[g].failed THEN Finish(g, "error")
       ELSE run' = [run EXCEPT ![g] = [NoRun EXCEPT !.pc = "top"]]
    /\ UNCHANGED <<stage, boots, mem, store, expired, drain, reader, told, missed>>

\* A likely bug: the first error of a parallel batch ends the group at once.
BatchEndEarly(g) ==
    /\ run[g].pc = "batch"
    /\ BatchOver(g) \/ run[g].failed
    /\ IF mem[g].cancelled THEN run' = [run EXCEPT ![g].pc = "finish", ![g].out = "stopped"]
       ELSE IF run[g].failed THEN run' = [run EXCEPT ![g].pc = "finish", ![g].out = "error"]
       ELSE run' = [run EXCEPT ![g] = [NoRun EXCEPT !.pc = "top"]]
    /\ UNCHANGED <<stage, boots, mem, store, expired, drain, reader, told, missed>>

BatchEnd(g) ==
    /\ run[g].pc = "batch"
    /\ BatchOver(g)
    /\ IF mem[g].cancelled THEN Finish(g, "stopped")
       ELSE IF run[g].failed THEN Finish(g, "error")
       ELSE run' = [run EXCEPT ![g] = [NoRun EXCEPT !.pc = "top"]]
    /\ UNCHANGED <<stage, boots, mem, store, expired, drain, reader, told, missed>>

-----------------------------------------------------------------------------
(* finalize, and runGroup's deferred save *)

FinalMark(g) ==
    /\ run[g].pc = "finish"
    /\ run' = [run EXCEPT ![g].pc = "marked"]
    /\ mem' = [mem EXCEPT ![g].state.status = run[g].out]
    /\ UNCHANGED <<stage, boots, store, expired, drain, reader, told, missed>>

\* A likely bug: only the deferred save writes the terminal state.
FinalSaveLater(g) ==
    /\ run[g].pc = "marked"
    /\ run' = [run EXCEPT ![g].pc = "kept"]
    /\ UNCHANGED <<stage, boots, mem, store, expired, drain, reader, told, missed>>

FinalSave(g) ==
    /\ run[g].pc = "marked"
    /\ run' = [run EXCEPT ![g].pc = "kept"]
    /\ Save(g)
    /\ UNCHANGED <<stage, boots, mem, expired, drain, reader, told, missed>>

FinalStatus(g) ==
    /\ run[g].pc = "kept"
    /\ run' = [run EXCEPT ![g].pc = "told"]
    /\ told' = [told EXCEPT ![g] = Append(@, run[g].out)]
    /\ UNCHANGED <<stage, boots, mem, store, expired, drain, reader, missed>>

FinalComplete(g) ==
    /\ run[g].pc = "told"
    /\ run' = [run EXCEPT ![g].pc = "closed"]
    /\ told' = [told EXCEPT ![g] = Append(@, "complete")]
    /\ mem' = [mem EXCEPT ![g].done = TRUE]
    /\ UNCHANGED <<stage, boots, store, expired, drain, reader, missed>>

LastSave(g) ==
    /\ run[g].pc = "closed"
    /\ run' = [run EXCEPT ![g] = [NoRun EXCEPT !.pc = "gone"]]
    /\ Save(g)
    /\ UNCHANGED <<stage, boots, mem, expired, drain, reader, told, missed>>

RunStep(g) ==
    \/ Announce(g) \/ SaveStarted(g) \/ Launch(g)
    \/ LoopTop(g) \/ BatchEnd(g) \/ \E i \in run[g].batch : TurnBegin(g, i)
    \/ \E t \in run[g].active : (\E stop \in BOOLEAN : TurnEnd(g, t, stop)) \/ TurnFail(g, t)
                                  \/ TurnPanic(g, t)
    \/ FinalMark(g) \/ FinalSave(g) \/ FinalStatus(g) \/ FinalComplete(g) \/ LastSave(g)

-----------------------------------------------------------------------------
(* Stop, retention and the session's history *)

\* Stop, StopByOrigin and StopByAgent only cancel the context; a rehydrated
\* group has none.
Stop(g) ==
    /\ Alive
    /\ mem[g].tracked /\ ~mem[g].cancelled
    /\ run[g].pc \in Starting \cup Working
    /\ mem' = [mem EXCEPT ![g].cancelled = TRUE]
    /\ UNCHANGED <<stage, boots, run, store, expired, drain, reader, told, missed>>

\* The retention window of an ended group elapses; its deferred save may be left.
Expire(g) ==
    /\ mem[g].tracked /\ mem[g].done
    /\ g \notin expired
    /\ expired' = expired \cup {g}
    /\ UNCHANGED <<stage, boots, mem, run, store, drain, reader, told, missed>>

\* SnapshotsForSession reads memory under the lock ...
ReadMemory ==
    /\ Alive
    /\ ~reader.busy
    /\ mem' = Swept(mem)
    /\ reader' = [NoReader EXCEPT
          !.busy = TRUE,
          !.seen = [g \in Group |-> IF mem'[g].tracked THEN mem[g].state.status ELSE "none"],
          !.ended = {g \in Group : Ended(g)}]
    /\ UNCHANGED <<stage, boots, run, store, expired, drain, told, missed>>

Shown(seen, row) ==
    IF seen # "none" THEN seen
    ELSE IF row.status \in Terminal \cup {"none"} THEN row.status
    ELSE "error"

\* ... and the store outside it; a closed store serves memory only.
ReadStore ==
    /\ reader.busy
    /\ reader' = [NoReader EXCEPT
          !.shown = [g \in Group |-> IF stage = "closed" THEN reader.seen[g]
                                     ELSE Shown(reader.seen[g], store[g])],
          !.ended = IF stage = "closed" THEN {} ELSE reader.ended]
    /\ UNCHANGED <<stage, boots, mem, run, store, expired, drain, told, missed>>

-----------------------------------------------------------------------------
Next ==
    \/ Boot \/ ProcessEnd \/ CancelRoot
    \/ DrainCopy \/ CloseStore \/ DrainTimeout \/ \E g \in Group : DrainWait(g)
    \/ \E g \in Group, p \in Profile : Register(g, p)
    \/ \E g \in Group : RunStep(g) \/ Stop(g) \/ Expire(g)
    \/ ReadMemory \/ ReadStore

Spec == Init /\ [][Next]_vars

\* Start's caller and the run goroutine keep running, and the executor of a
\* turn returns.
FairSpec == Spec /\ \A g \in Group : WF_vars(RunStep(g))

-----------------------------------------------------------------------------
(* Properties *)

TurnsOf(g) == mem[g].state.turns

\* No two turns of a group carry the same index, however the turns of a
\* parallel batch overlap (Turn.Index).
IndexUnique ==
    \A g \in Group : \A i, j \in DOMAIN TurnsOf(g) :
        TurnsOf(g)[i].index = TurnsOf(g)[j].index => i = j

\* The largest batch.
Width(p) == IF p.strategy = "moa" /\ MoAProposers(p) # {} THEN Cardinality(MoAProposers(p)) ELSE 1

\* MaxTurns bounds the transcript; a MoA layer is one batch, so its proposers
\* may pass it together.
TurnsBounded ==
    \A g \in Group : Len(TurnsOf(g)) < mem[g].prof.maxTurns + Width(mem[g].prof)

\* In a panel with an aggregator of its own, a layer is opened only after the
\* aggregator has spoken in the one before, and it speaks only after all the
\* proposers of its layer.
LayersClose ==
    \A g \in Group :
        LET p == mem[g].prof
            s == TurnsOf(g)
            Before(i, a, l) == \E j \in 1..(i - 1) : s[j].speaker = a /\ s[j].layer = l
        IN  (p.strategy = "moa" /\ MoAAggregator(p) \notin p.proposers) =>
                \A i \in DOMAIN s :
                    /\ s[i].layer > 0 => Before(i, MoAAggregator(p), s[i].layer - 1)
                    /\ s[i].speaker = MoAAggregator(p) =>
                          \A k \in MoAProposers(p) : Before(i, p.team[k], s[i].layer)

\* After the terminal signal a group is silent: no turn is recorded any more,
\* its status stays what was told, and it is never told again, restarts
\* included.
SilentAfterEnd ==
    [][\A g \in Group : Ended(g) =>
          /\ mem'[g].tracked /\ mem[g].tracked => mem'[g].state = mem[g].state
          /\ \E n \in 0..1 : Len(told'[g]) = Len(told[g]) + n /\ (n = 1 => told'[g][Len(told[g]) + 1] = "complete")]_vars

\* A group ends as stopped only if somebody cancelled it: a failing parallel
\* batch cancels its own context only (runGroup tests ctx, not gctx).
StoppedMeansCancelled ==
    \A g \in Group : run[g].out = "stopped" => mem[g].cancelled

\* Its result is out and the sweep has dropped it; only the deferred save is left.
Leaving(g) == run[g].pc = "closed" /\ ~mem[g].tracked

\* Once the drain has closed the store no run goroutine it had to know of is
\* left, but one whose group was swept before its deferred save
\* (DrainAllRunGoroutines; StopWithin).
DrainedIsQuiet ==
    stage = "closed" => \A g \in Group \ missed : run[g].pc \in Working => Leaving(g)

\* Whoever reads the history after a group's terminal signal sees the group,
\* with the status that was told, across retention and restarts (finalize,
\* SnapshotsForSession).
CardKept ==
    ~reader.busy => \A g \in reader.ended \ missed : \E i \in DOMAIN told[g] : told[g][i] = reader.shown[g]

\* A registered group comes to its end while the process lives: the loop is
\* bounded and every exit closes done (finalize).
EveryGroupEnds ==
    \A g \in Group : (run[g].pc \in Starting \cup Working) ~> (mem[g].done \/ ~Alive)

-----------------------------------------------------------------------------
(* What the comments say and the code does not do *)

\* MoAStrategy: "N proposers speak per layer, then the aggregator/moderator
\* synthesizes", also when the aggregator is the first participant by default.
MoASynthesizes ==
    \A g \in Group :
        LET p == mem[g].prof
            s == TurnsOf(g)
        IN  p.strategy = "moa" =>
                \A i \in DOMAIN s : s[i].layer > 0 =>
                    \E j \in 1..(i - 1) :
                        /\ s[j].speaker = MoAAggregator(p) /\ s[j].layer = s[i].layer - 1
                        /\ \A k \in MoAProposers(p) :
                              p.team[k] # MoAAggregator(p) =>
                                  \E n \in 1..(j - 1) : s[n].speaker = p.team[k]

\* "Such a row means the writer died mid-run": a group that runs is never
\* shown as an error.
NotBuried ==
    [][\A g \in Group : (reader.busy /\ ~reader'.busy /\ reader'.shown[g] = "error")
                           => run[g].pc \notin Starting \cup {"top", "batch"}]_vars

\* "hard cap on total turns" (GroupState.MaxTurns).
HardCap == \A g \in Group : Len(TurnsOf(g)) <= mem[g].prof.maxTurns

\* "No run goroutine writes to a closed store", of every group.
DrainCoversAll == stage = "closed" => \A g \in Group : run[g].pc \notin Starting \cup Working
=============================================================================
