--------------------------- MODULE DurableInbound ---------------------------
(***************************************************************************)
(* The life of an inbound message in the gateway: the channel spools it    *)
(* and publishes it on the bus, the agent loop takes it off the bus and    *)
(* runs a turn, the turn marks the dedupe ledger and deletes the row; the  *)
(* boot drain and the pump replay what a dead process or a full bus left   *)
(* in the spool; the shutdown hooks hand the claims back.                  *)
(*                                                                         *)
(* One gateway process at a time (the instance lock), restarted after a    *)
(* crash or a graceful exit.  The spool and the ledger (SQLite) survive,   *)
(* everything else is memory.                                              *)
(***************************************************************************)
EXTENDS Spool, Sequences

CONSTANTS
    Slot,         \* the turn goroutines that run at once
    NoMsg,        \* a slot's message when it is idle
    Corrupt,      \* the messages whose stored payload does not decode
    BusCap,       \* capacity of MessageBus.inbound
    PoisonLimit,  \* poisonLimit
    OutboundOn,   \* durable outbound enabled: its Drain reclaims stale claims too
    SlowPhases,   \* phases that may outlast StaleClaimTimeout
    MaxBoots,     \* bound: gateway processes started
    MaxFaults,    \* bound: failing database calls
    MaxPrunes     \* bound: ledger entries pruned

ASSUME InboundAssumption ==
    /\ NoMsg \notin Msg
    /\ Corrupt \subseteq Msg
    /\ IsFiniteSet(Slot)
    /\ BusCap \in Nat \ {0}
    /\ PoisonLimit \in 1..AttemptCap
    /\ OutboundOn \in BOOLEAN
    /\ MaxBoots \in Nat /\ MaxFaults \in Nat /\ MaxPrunes \in Nat

VARIABLES
    row,     \* spool_queue, by message
    nextId,  \* the next AUTOINCREMENT id
    ledger,  \* processed_messages: the dedupe keys recorded
    phase,   \* where the gateway process is in its life
    inst,    \* the number of the process, its instanceID
    loop,    \* AgentLoop.Run is consuming
    bus,     \* MessageBus.inbound
    ch,      \* the channel's publishInbound of each message
    turn,    \* the turn goroutines
    pass,    \* the claimPass under way: Drain's, then the pump's
    answers, \* ghost: how many turns answered each message
    fate,    \* ghost: what has become of each message
    faults,  \* database calls that failed
    prunes   \* ledger entries pruned

disk  == <<row, nextId, ledger>>
proc  == <<phase, inst, loop>>
ghost == <<answers, fate>>
vars  == <<disk, proc, bus, ch, turn, pass, ghost, faults, prunes>>

\* down; boot: before Drain; drain: Drain's pass; channels: StartAll and the
\* outbound Drain; live: AgentLoop.Run and the pump; draining: the agent-drain
\* hook; quiet: the pump's context is cancelled; released: ReleaseClaims done;
\* closing: channels stopped, root context cancelled.
Phase == {"down", "boot", "drain", "channels", "live",
          "draining", "quiet", "released", "closing"}

Idle == [pc |-> "idle", msg |-> NoMsg]
NoPass == [pc |-> "off", batch |-> {}, mine |-> {}, deferred |-> FALSE]

TypeOK ==
    /\ row \in [Msg -> Row]
    /\ nextId \in Nat \ {0}
    /\ ledger \subseteq {Key[m] : m \in Msg}
    /\ phase \in Phase
    /\ inst \in Nat
    /\ loop \in BOOLEAN
    /\ bus \in Seq(Msg)
    /\ ch \in [Msg -> {"new", "enqueued", "refused", "done"}]
    /\ turn \in [Slot -> {Idle} \cup
                  [pc : {"check", "work", "mark", "complete"}, msg : Msg]]
    /\ pass \in [pc : {"off", "claim", "item", "publish", "delete", "release"},
                 batch : SUBSET Msg, mine : SUBSET Msg, deferred : BOOLEAN]
    /\ answers \in [Msg -> Nat]
    /\ fate \in [Msg -> SUBSET {"ended", "replayed", "skipped", "dead"}]
    /\ faults \in Nat
    /\ prunes \in Nat

Init ==
    /\ row = [m \in Msg |-> NoRow]
    /\ nextId = 1
    /\ ledger = {}
    /\ phase = "down"
    /\ inst = 0
    /\ loop = FALSE
    /\ bus = <<>>
    /\ ch = [m \in Msg |-> "new"]
    /\ turn = [s \in Slot |-> Idle]
    /\ pass = NoPass
    /\ answers = [m \in Msg |-> 0]
    /\ fate = [m \in Msg |-> {}]
    /\ faults = 0
    /\ prunes = 0

-----------------------------------------------------------------------------
\* al.running: Run stores true, the agent-drain hook stores false.
Running == phase = "live"
\* The HTTP server serves REST, the web socket and the webhooks before Drain and
\* until after the channels are stopped: a message may arrive at any time.
Accepting == phase # "down"
PumpUp == phase \in {"live", "draining"}
BusFull == Len(bus) >= BusCap

Spooled(m) == row[m].id # 0
Happens(m, f) == fate' = [fate EXCEPT ![m] = @ \cup {f}]

\* A database call either succeeds or spends one fault of the budget.
Succeeds == UNCHANGED faults
Fails == faults < MaxFaults /\ faults' = faults + 1

-----------------------------------------------------------------------------
(* BaseChannel.publishInbound *)

ChannelEnqueue(m) ==
    /\ Accepting
    /\ ch[m] = "new"
    /\ ch' = [ch EXCEPT ![m] = "enqueued"]
    /\ \/ /\ Succeeds
          /\ row' = EnqueueClaimed(row, m, nextId, inst)
          /\ nextId' = nextId + 1
       \/ Fails /\ UNCHANGED <<row, nextId>>
    /\ UNCHANGED <<ledger, proc, bus, turn, pass, ghost, prunes>>

ChannelPublish(m) ==
    /\ ch[m] = "enqueued"
    /\ \/ ~BusFull /\ bus' = Append(bus, m) /\ ch' = [ch EXCEPT ![m] = "done"]
       \/ BusFull /\ UNCHANGED bus /\ ch' = [ch EXCEPT ![m] = "refused"]
    /\ UNCHANGED <<disk, proc, turn, pass, ghost, faults, prunes>>

\* A likely bug: the rollback deletes the row.
ChannelRollback(m) ==
    /\ ch[m] = "refused"
    /\ ch' = [ch EXCEPT ![m] = "done"]
    /\ Succeeds
    /\ row' = Complete(row, m)
    /\ UNCHANGED <<nextId, ledger, proc, bus, turn, pass, ghost, prunes>>

\* The bus refused: the row, if there is one, goes back to the pending set.
ChannelRelease(m) ==
    /\ ch[m] = "refused"
    /\ ch' = [ch EXCEPT ![m] = "done"]
    /\ \/ Succeeds /\ row' = ReleaseIDs(row, {m}, inst)
       \/ Fails /\ Spooled(m) /\ UNCHANGED row
    /\ UNCHANGED <<nextId, ledger, proc, bus, turn, pass, ghost, prunes>>

ChannelStep(m) == ChannelEnqueue(m) \/ ChannelPublish(m) \/ ChannelRelease(m)

-----------------------------------------------------------------------------
(* Boot: Drain, StartAll, the outbound Drain, Run and StartPump *)

Boot ==
    /\ phase = "down"
    /\ inst < MaxBoots
    /\ inst' = inst + 1
    /\ phase' = "boot"
    /\ UNCHANGED <<disk, loop, bus, ch, turn, pass, ghost, faults, prunes>>

\* A failed reclaim is logged; the pass runs all the same.
DrainReclaim ==
    /\ phase = "boot"
    /\ phase' = "drain"
    /\ pass' = [NoPass EXCEPT !.pc = "claim"]
    /\ \/ Succeeds /\ row' = ReclaimStale(row)
       \/ Fails /\ UNCHANGED row
    /\ UNCHANGED <<nextId, ledger, inst, loop, bus, ch, turn, ghost, prunes>>

StartChannels ==
    /\ phase = "drain"
    /\ pass.pc = "off"
    /\ phase' = "channels"
    /\ UNCHANGED <<disk, inst, loop, bus, ch, turn, pass, ghost, faults, prunes>>

\* Outbound.Drain begins with the same ReclaimStale, whatever the direction.
GoLive ==
    /\ phase = "channels"
    /\ phase' = "live"
    /\ loop' = TRUE
    /\ \/ Succeeds /\ row' = IF OutboundOn THEN ReclaimStale(row) ELSE row
       \/ Fails /\ OutboundOn /\ UNCHANGED row
    /\ UNCHANGED <<nextId, ledger, inst, bus, ch, turn, pass, ghost, prunes>>

-----------------------------------------------------------------------------
(* claimPass and republish *)

\* The row claimPass works on: the first of its batch.
Oldest(m) == \A k \in pass.batch : row[m].id <= row[k].id

\* Row m leaves the batch; after the last one the pass claims again, unless a
\* row was deferred.
Advance(m, deferred) ==
    LET rest == pass.batch \ {m}
    IN  pass' = [pass EXCEPT
            !.batch = rest,
            !.deferred = deferred,
            !.pc = IF rest # {} THEN "item"
                   ELSE IF deferred THEN "release" ELSE "claim"]

\* An unexpected database error ends the pass.
Abort == pass' = [pass EXCEPT !.pc = "release", !.batch = {}]

\* Drain runs under the root context, the pump under one that is cancelled
\* first thing by durableInbound.Shutdown.
PassCancelled == phase \notin {"drain", "live", "draining"}

\* pumpOnce: nothing pending, nothing to do.
PumpTick ==
    /\ PumpUp
    /\ pass.pc = "off"
    /\ Pending(row) # {}
    /\ pass' = [NoPass EXCEPT !.pc = "claim"]
    /\ UNCHANGED <<disk, proc, bus, ch, turn, ghost, faults, prunes>>

PassClaim ==
    /\ pass.pc = "claim"
    /\ \/ /\ ~PassCancelled /\ Pending(row) # {}
          /\ Succeeds
          /\ row' = ClaimBatch(row, inst)
          /\ pass' = [pass EXCEPT !.pc = "item",
                                  !.batch = NextBatch(row),
                                  !.mine = @ \cup NextBatch(row)]
       \/ /\ PassCancelled \/ Pending(row) = {}
          /\ Succeeds
          /\ Abort /\ UNCHANGED row
       \/ /\ ~PassCancelled
          /\ Fails
          /\ Abort /\ UNCHANGED row
    /\ UNCHANGED <<nextId, ledger, proc, bus, ch, turn, ghost, prunes>>

\* handlePoison: the attempt is counted, and the last one deletes the row.
PassPoison(m) ==
    /\ m \in Corrupt
    /\ \/ /\ Succeeds
          /\ row' = IncAttempt(row, m)
          /\ IF row[m].attempts + 1 < PoisonLimit
             THEN Advance(m, pass.deferred) /\ UNCHANGED fate
             ELSE pass' = [pass EXCEPT !.pc = "delete"] /\ Happens(m, "dead")
       \/ Fails /\ Abort /\ UNCHANGED <<row, fate>>

\* ShouldSkip: a ledger that cannot be read answers "process it".
PassDecide(m) ==
    /\ m \notin Corrupt
    /\ \/ /\ WasProcessed(ledger, m)
          /\ Succeeds
          /\ pass' = [pass EXCEPT !.pc = "delete"]
          /\ Happens(m, "skipped")
       \/ /\ \/ ~WasProcessed(ledger, m) /\ Succeeds
             \/ WasProcessed(ledger, m) /\ Fails
          /\ pass' = [pass EXCEPT !.pc = "publish"]
          /\ UNCHANGED fate
    /\ UNCHANGED row

PassItem(m) ==
    /\ pass.pc = "item"
    /\ PassPoison(m) \/ PassDecide(m)
    /\ UNCHANGED <<nextId, ledger, proc, bus, ch, turn, answers, prunes>>

PassPublish(m) ==
    /\ pass.pc = "publish"
    /\ ~BusFull
    /\ bus' = Append(bus, m)
    /\ Happens(m, "replayed")
    /\ pass' = [pass EXCEPT !.pc = "delete"]
    /\ UNCHANGED <<disk, proc, ch, turn, answers, faults, prunes>>

\* A likely bug: a row that does not fit is dropped.
PassDrop(m) ==
    /\ pass.pc = "publish"
    /\ BusFull
    /\ Succeeds
    /\ row' = Complete(row, m)
    /\ Advance(m, TRUE)
    /\ UNCHANGED <<nextId, ledger, proc, bus, ch, turn, ghost, prunes>>

\* The bus stayed full for publishRetryBudget, or the context ended.
PassDefer(m) ==
    /\ pass.pc = "publish"
    /\ BusFull
    /\ \/ Succeeds /\ row' = IncAttempt(row, m) /\ Advance(m, TRUE)
       \/ Fails /\ Abort /\ UNCHANGED row
    /\ UNCHANGED <<nextId, ledger, proc, bus, ch, turn, ghost, prunes>>

\* A likely bug: the replay also records the message as processed.
PassDeleteRecorded(m) ==
    /\ pass.pc = "delete"
    /\ Succeeds
    /\ row' = Complete(row, m)
    /\ ledger' = MarkProcessed(ledger, m)
    /\ Advance(m, pass.deferred)
    /\ UNCHANGED <<nextId, proc, bus, ch, turn, ghost, prunes>>

PassDelete(m) ==
    /\ pass.pc = "delete"
    /\ \/ Succeeds /\ row' = Complete(row, m) /\ Advance(m, pass.deferred)
       \/ Fails /\ Abort /\ UNCHANGED row
    /\ UNCHANGED <<nextId, ledger, proc, bus, ch, turn, ghost, prunes>>

\* The deferred, scoped release of the ids this pass claimed.
PassRelease ==
    /\ pass.pc = "release"
    /\ pass' = NoPass
    /\ \/ Succeeds /\ row' = ReleaseIDs(row, pass.mine, inst)
       \/ Fails /\ pass.mine # {} /\ UNCHANGED row
    /\ UNCHANGED <<nextId, ledger, proc, bus, ch, turn, ghost, prunes>>

PassRow(m) ==
    Oldest(m) /\ (PassItem(m) \/ PassPublish(m) \/ PassDefer(m) \/ PassDelete(m))

PassStep == PassClaim \/ PassRelease \/ \E m \in pass.batch : PassRow(m)

\* StartPump trims the ledger of the keys older than ProcessedRetention.
Prune(k) ==
    /\ PumpUp
    /\ pass.pc = "off"
    /\ prunes < MaxPrunes
    /\ k \in ledger
    /\ ledger' = ledger \ {k}
    /\ prunes' = prunes + 1
    /\ UNCHANGED <<row, nextId, proc, bus, ch, turn, pass, ghost, faults>>

-----------------------------------------------------------------------------
(* AgentLoop.Run and the turn goroutine *)

Go(s, pc) == turn' = [turn EXCEPT ![s].pc = pc]

\* Run may be blocked in ConsumeInbound when the drain stores running = false:
\* it takes one more message and then leaves its loop.
TurnStart(s) ==
    /\ loop
    /\ turn[s] = Idle
    /\ bus # <<>>
    /\ bus' = Tail(bus)
    /\ turn' = [turn EXCEPT ![s] = [pc |-> "check", msg |-> Head(bus)]]
    /\ loop' = Running
    /\ UNCHANGED <<disk, phase, inst, ch, pass, ghost, faults, prunes>>

\* ShouldSkip again; a skipped turn returns before Finish is deferred.
TurnCheck(s) ==
    LET m == turn[s].msg
    IN  /\ turn[s].pc = "check"
        /\ \/ /\ WasProcessed(ledger, m)
              /\ Succeeds
              /\ turn' = [turn EXCEPT ![s] = Idle]
              /\ Happens(m, "skipped")
           \/ /\ \/ ~WasProcessed(ledger, m) /\ Succeeds
                 \/ WasProcessed(ledger, m) /\ Fails
              /\ Go(s, "work")
              /\ UNCHANGED fate
        /\ UNCHANGED <<disk, proc, bus, ch, pass, answers, prunes>>

\* processMessage returned an answer, or an error the user is told about.
TurnAnswer(s) ==
    /\ turn[s].pc = "work"
    /\ answers' = [answers EXCEPT ![turn[s].msg] = @ + 1]
    /\ Happens(turn[s].msg, "ended")
    /\ Go(s, "mark")
    /\ UNCHANGED <<disk, proc, bus, ch, pass, faults, prunes>>

\* context.Canceled: a user's /cancel while the loop runs ends the message;
\* during teardown Finish is withheld and the row stays for the successor.
TurnCancel(s) ==
    /\ turn[s].pc = "work"
    /\ \/ Running /\ Happens(turn[s].msg, "ended") /\ Go(s, "mark")
       \/ ~Running /\ turn' = [turn EXCEPT ![s] = Idle] /\ UNCHANGED fate
    /\ UNCHANGED <<disk, proc, bus, ch, pass, answers, faults, prunes>>

\* Finish: the ledger first; if that write fails the row is left alone.
TurnMark(s) ==
    /\ turn[s].pc = "mark"
    /\ \/ /\ Succeeds
          /\ ledger' = MarkProcessed(ledger, turn[s].msg)
          /\ Go(s, "complete")
       \/ /\ Fails
          /\ turn' = [turn EXCEPT ![s] = Idle]
          /\ UNCHANGED ledger
    /\ UNCHANGED <<row, nextId, proc, bus, ch, pass, ghost, prunes>>

\* A likely bug: the slot keeps its message.
TurnCompleteKept(s) ==
    /\ turn[s].pc = "complete"
    /\ Go(s, "idle")
    /\ Succeeds
    /\ row' = Complete(row, turn[s].msg)
    /\ UNCHANGED <<nextId, ledger, proc, bus, ch, pass, ghost, prunes>>

TurnComplete(s) ==
    /\ turn[s].pc = "complete"
    /\ turn' = [turn EXCEPT ![s] = Idle]
    /\ \/ Succeeds /\ row' = Complete(row, turn[s].msg)
       \/ Fails /\ Spooled(turn[s].msg) /\ UNCHANGED row
    /\ UNCHANGED <<nextId, ledger, proc, bus, ch, pass, ghost, prunes>>

TurnStep(s) ==
    TurnCheck(s) \/ TurnAnswer(s) \/ TurnCancel(s) \/ TurnMark(s) \/ TurnComplete(s)

-----------------------------------------------------------------------------
(* The shutdown hooks, and a crash *)

\* agent-drain: no new turns; it waits a bounded time for those in flight.
ShutdownBegin ==
    /\ phase = "live"
    /\ phase' = "draining"
    /\ UNCHANGED <<disk, inst, loop, bus, ch, turn, pass, ghost, faults, prunes>>

\* durable-inbound-shutdown cancels the pump's context ...
PumpStop ==
    /\ phase = "draining"
    /\ phase' = "quiet"
    /\ UNCHANGED <<disk, inst, loop, bus, ch, turn, pass, ghost, faults, prunes>>

\* ... waits for its goroutine, and hands back every claim of the instance.
ShutdownRelease ==
    /\ phase = "quiet"
    /\ pass.pc = "off"
    /\ phase' = "released"
    /\ \/ Succeeds /\ row' = ReleaseClaims(row, inst)
       \/ Fails /\ UNCHANGED row
    /\ UNCHANGED <<nextId, ledger, inst, loop, bus, ch, turn, pass, ghost, prunes>>

\* channels-stop; then the root context is cancelled.
ChannelsStop ==
    /\ phase = "released"
    /\ phase' = "closing"
    /\ UNCHANGED <<disk, inst, loop, bus, ch, turn, pass, ghost, faults, prunes>>

\* The process ends: by the end of its teardown, or killed at any point.
ProcessEnd ==
    /\ phase # "down"
    /\ phase' = "down"
    /\ loop' = FALSE
    /\ bus' = <<>>
    /\ turn' = [s \in Slot |-> Idle]
    /\ pass' = NoPass
    /\ ch' = [m \in Msg |-> IF ch[m] = "new" THEN "new" ELSE "done"]
    /\ UNCHANGED <<disk, inst, ghost, faults, prunes>>

\* Thirty seconds pass.
Age ==
    /\ phase \in SlowPhases
    /\ row' = AgeClaims(row)
    /\ row' # row
    /\ UNCHANGED <<nextId, ledger, proc, bus, ch, turn, pass, ghost, faults, prunes>>

Lifecycle ==
    \/ Boot \/ DrainReclaim \/ StartChannels \/ GoLive
    \/ ShutdownBegin \/ PumpStop \/ ShutdownRelease \/ ChannelsStop
    \/ ProcessEnd

Next ==
    \/ \E m \in Msg : ChannelStep(m)
    \/ Lifecycle
    \/ PumpTick \/ PassStep
    \/ \E k \in {Key[m] : m \in Msg} : Prune(k)
    \/ \E s \in Slot : TurnStart(s) \/ TurnStep(s)
    \/ Age

Spec == Init /\ [][Next]_vars

\* Every goroutine that can go on does: the scheduler never abandons one, the
\* pump's ticker keeps firing, and processMessage returns (every provider call
\* and every tool has a timeout).  Nothing makes a message arrive, a crash or a
\* shutdown happen.
Fairness ==
    /\ \A m \in Msg : WF_vars(ChannelPublish(m)) /\ WF_vars(ChannelRelease(m))
    /\ WF_vars(PumpTick)
    /\ WF_vars(PassStep)
    /\ \A s \in Slot : WF_vars(TurnStart(s)) /\ WF_vars(TurnStep(s))
    /\ WF_vars(Boot) /\ WF_vars(DrainReclaim) /\ WF_vars(StartChannels) /\ WF_vars(GoLive)

FairSpec == Spec /\ Fairness

-----------------------------------------------------------------------------
(* What must hold *)

OnBus(m) == \E i \in DOMAIN bus : bus[i] = m
InTurn(m) == \E s \in Slot : turn[s].msg = m

\* The copies of m that are, or are about to be put, on their way to an answer.
ToPublish ==
    IF pass.pc \in {"item", "publish"} THEN pass.batch
    ELSE IF pass.pc = "delete" THEN {m \in pass.batch : ~Oldest(m)}
    ELSE {}

Copies(m) ==
    Cardinality({s \in Slot : turn[s].msg = m})
    + Cardinality({i \in DOMAIN bus : bus[i] = m})
    + (IF ch[m] = "enqueued" THEN 1 ELSE 0)
    + (IF m \in ToPublish THEN 1 ELSE 0)

Settled(m) == fate[m] \cap {"ended", "skipped", "dead"} # {}

\* A row disappears only for a reason: the turn ended, the ledger knew the
\* message, it was dead-lettered, or it was replayed on the bus.  In
\* particular no failing database call loses a message (Finish, republish,
\* handlePoison, claimPass).
AcceptedKept == \A m \in Msg : Spooled(m) /\ ~row[m].here => fate[m] # {}

\* Why it holds, as an inductive invariant: ids name one message each, ...
IdsUnique ==
    /\ \A m \in Msg :
          /\ row[m].id < nextId
          /\ row[m].here => Spooled(m)
          /\ ch[m] = "new" => ~Spooled(m)
    /\ \A m, k \in Msg : Spooled(m) /\ row[m].id = row[k].id => m = k

\* ... a pass works on spooled rows, ...
BatchSpooled == \A m \in pass.batch : Spooled(m)

\* ... and whoever is about to delete a row has its reason.
DeleteDecided ==
    pass.pc = "delete" => \A m \in pass.batch : Oldest(m) => fate[m] # {}

FinishDecided ==
    \A s \in Slot : turn[s].pc \in {"mark", "complete"} => "ended" \in fate[turn[s].msg]

KeptInv ==
    TypeOK /\ IdsUnique /\ BatchSpooled /\ DeleteDecided /\ FinishDecided /\ AcceptedKept

\* A message spooled by this process is never on its way to two answers: live
\* traffic is born claimed, and a pass hands back only its own claims
\* (Inbound.Enqueue, claimPass).  A pass that fails to delete the row it has
\* just published is excepted.
SingleCopy == faults = 0 => \A m \in Msg : Copies(m) <= 1

\* While the gateway is up, a row claimed by this process has somebody who
\* will finish or release it; a claim without one would be invisible to the
\* pump for the life of the process (claimPass's invariant, for every claim).
\* A failing call is excepted, and so is a duplicate, see SkippedIsReleased.
ClaimHasWorker ==
    (phase \in {"boot", "drain", "channels", "live"} /\ faults = 0) =>
        \A m \in HeldBy(row, inst) :
            \/ ch[m] \in {"enqueued", "refused"}
            \/ OnBus(m)
            \/ InTurn(m)
            \/ pass.pc # "off" /\ m \in pass.mine
            \/ "skipped" \in fate[m]

\* Once the ledger holds a message's key, no turn answers that message: not
\* after a crash between the two writes of Finish, not by a second copy.
RecordedNotAnswered ==
    [][\A m \in Msg : Key[m] \in ledger => answers'[m] = answers[m]]_vars

\* A message skipped as a duplicate has a message with the same dedupe key
\* whose turn ended: what is only queued or replayed is not yet a duplicate.
SkipAnswered ==
    \A m \in Msg : "skipped" \in fate[m] =>
        \E k \in Msg : Key[k] = Key[m] /\ "ended" \in fate[k]

\* The promise of the spool as an abstract state machine (InboundPromise).
Abstract(m) ==
    IF Settled(m) /\ Spooled(m) THEN "settled"
    ELSE IF ~Spooled(m) THEN "new"
    ELSE IF row[m].here THEN "kept"
    ELSE IF Copies(m) > 0 THEN "carried"
    ELSE "lost"

P == INSTANCE InboundPromise WITH
        state <- [m \in Msg |-> Abstract(m)],
        serving <- phase \in {"boot", "drain", "channels", "live"}

Promise == P!Spec

\* While the gateway stays live, a spooled message that no dead process still
\* claims is settled: answered, recognised as a duplicate, or dead-lettered.
PendingSettled ==
    \A m \in Msg :
        (Running /\ row[m].here /\ row[m].owner \in {Nobody, inst})
            ~> (Settled(m) \/ ~Running)

-----------------------------------------------------------------------------
(* What the documentation says and the code does not do *)

\* inbound.go: a crash or a self-restart loses nothing that was accepted.
NothingLost ==
    \A m \in Msg : Spooled(m) => row[m].here \/ Settled(m) \/ Copies(m) > 0

\* gateway.go: what the previous run left is replayed before the channels
\* accept any traffic.
ReplayFirst ==
    phase \in {"boot", "drain"} => \A m \in Msg : ch[m] \notin {"enqueued", "refused"}

\* gateway.go: "Double delivery is still impossible": nobody answers a message twice.
AnsweredOnce == \A m \in Msg : answers[m] <= 1

\* ShouldSkip: a skipped message was itself fully processed.
SkippedWasProcessed ==
    \A m \in Msg : "skipped" \in fate[m] => "ended" \in fate[m]

\* claimPass: no row is left claimed, where no later pass would see it.  The
\* turn that skips a duplicate returns before Finish is deferred.
SkippedIsReleased ==
    \A m \in HeldBy(row, inst) :
        Running /\ faults = 0 /\ "skipped" \in fate[m] =>
            OnBus(m) \/ InTurn(m) \/ (pass.pc # "off" /\ m \in pass.mine)

\* Finish: if the ledger write fails, the row is kept and the pump retries.
UnmarkedIsPending ==
    \A m \in HeldBy(row, inst) :
        Running /\ "ended" \in fate[m] /\ Key[m] \notin ledger =>
            OnBus(m) \/ InTurn(m) \/ pass.pc # "off"

\* A restarted gateway replays what the crashed one had accepted.
RestartReplays ==
    \A m \in Msg : (Running /\ row[m].here) ~> (~row[m].here \/ ~Running)
=============================================================================
