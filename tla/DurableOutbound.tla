-------------------------- MODULE DurableOutbound --------------------------
(***************************************************************************)
(* The life of a reply: PublishOutbound spools it and puts it on the bus,  *)
(* dispatchOutbound moves it to its channel's queue, the channel's         *)
(* dispatcher sends it and settles the row.  What a dead process, a full   *)
(* queue or a failed send left pending is replayed by the boot drain and   *)
(* by the pump, which send through the same channels.  A config reload     *)
(* replaces channels, queues and dispatchers while all this goes on.       *)
(*                                                                         *)
(* One gateway process at a time; the spool survives it, the rest does     *)
(* not.  The messages of Spool are the replies; the outbound side keeps no *)
(* ledger, so Key plays no part.                                           *)
(***************************************************************************)
EXTENDS Spool, Sequences

CONSTANTS
    Channel,      \* the channels a reply may be addressed to
    StartSet,     \* the channels enabled when a gateway starts
    NoMsg,        \* what an idle dispatcher holds
    Corrupt,      \* the replies whose stored payload does not decode
    Aging,        \* the replies that may pass MaxOutboundAge
    BusCap,       \* capacity of MessageBus.outbound
    QueueCap,     \* capacity of a channel's dispatch queue
    PoisonLimit,  \* poisonLimit
    MaxAttempts,  \* MaxOutboundAttempts
    SlowPhases,   \* phases that may outlast StaleClaimTimeout
    MaxBoots,     \* bound: gateway processes started
    MaxMishaps,   \* bound: config reloads and failing database calls together
    Address       \* the ways replies may be addressed to channels

ASSUME OutboundAssumption ==
    /\ NoMsg \notin Msg
    /\ StartSet \subseteq Channel
    /\ Corrupt \subseteq Msg /\ Aging \subseteq Msg
    /\ BusCap \in Nat \ {0} /\ QueueCap \in Nat \ {0}
    /\ PoisonLimit \in 1..AttemptCap /\ MaxAttempts \in 1..AttemptCap
    /\ MaxBoots \in Nat /\ MaxMishaps \in Nat
    /\ Address \subseteq [Msg -> Channel]

VARIABLES
    row,      \* spool_queue, by reply
    nextId,   \* the next AUTOINCREMENT id
    phase,    \* where the gateway process is in its life
    inst,     \* the number of the process, its instanceID
    pub,      \* PublishOutbound of each reply
    to,       \* the channel a reply is addressed to
    bus,      \* MessageBus.outbound
    gen,      \* how often this process has started dispatchers
    cur,      \* the generation whose context is live, 0: none
    present,  \* m.channels
    mapped,   \* m.dispatchQueues: by channel the generation of its queue, 0: none
    reload,   \* a ReloadConfig is between its two critical sections
    queue,    \* the dispatch queues, by channel and generation
    disp,     \* dispatchOutbound, by generation
    sender,   \* startChannelDispatcher, by channel and generation
    pass,     \* the claimPass under way: Drain's, then the pump's
    wire,     \* ghost: how often each process put the reply on the wire
    fate,     \* ghost: what has become of each reply
    faults    \* database calls that failed

Gen  == 1 .. (MaxMishaps + 1)
Inst == 1 .. MaxBoots

disk  == <<row, nextId>>
proc  == <<phase, inst>>
src   == <<pub, to, bus>>
wired == <<gen, cur, present, mapped, reload>>
ghost == <<wire, fate>>
vars  == <<disk, proc, src, wired, queue, disp, sender, pass, ghost, faults>>

\* down; boot: the bus is wired; drain: channels started, Drain's pass; live:
\* the pump runs; quiet: the pump's context is cancelled; released: claims
\* handed back.
Phase == {"down", "boot", "drain", "live", "quiet", "released"}

Result == {"delivered", "partial", "none", "dead"}

Off    == [pc |-> "off", msg |-> NoMsg, res |-> "none"]
Idle   == [Off EXCEPT !.pc = "idle"]
NoPass == [pc |-> "off", batch |-> {}, mine |-> {}, res |-> "none", deferred |-> FALSE]
Worker == {Off, Idle} \cup [pc : {"got", "sent"}, msg : Msg, res : Result]

DiskType ==
    /\ row \in [Msg -> Row]
    /\ nextId \in Nat \ {0}

ProcType ==
    /\ phase \in Phase
    /\ inst \in 0..MaxBoots
    /\ pub \in [Msg -> {"new", "enqueued", "refused", "done"}]
    /\ to \in [Msg -> Channel]
    /\ bus \in Seq(Msg)

WiredType ==
    /\ gen \in 0..(MaxMishaps + 1)
    /\ cur \in 0..(MaxMishaps + 1)
    /\ present \subseteq Channel
    /\ mapped \in [Channel -> 0..(MaxMishaps + 1)]
    /\ reload \in [busy : BOOLEAN, n : 0..MaxMishaps]

WorkType ==
    /\ queue \in [Channel -> [Gen -> Seq(Msg)]]
    /\ disp \in [Gen -> Worker]
    /\ sender \in [Channel -> [Gen -> Worker]]
    /\ pass \in [pc : {"off", "claim", "item", "count", "settle", "release"},
                 batch : SUBSET Msg, mine : SUBSET Msg, res : Result, deferred : BOOLEAN]

GhostType ==
    /\ wire \in [Msg -> [Inst -> 0..2]]
    /\ fate \in [Msg -> SUBSET {"sent", "part", "expired", "dead", "poison"}]
    /\ faults \in 0..MaxMishaps

TypeOK == DiskType /\ ProcType /\ WiredType /\ WorkType /\ GhostType

Init ==
    /\ row = [r \in Msg |-> NoRow]
    /\ nextId = 1
    /\ phase = "down"
    /\ inst = 0
    /\ pub = [r \in Msg |-> "new"]
    /\ to \in Address
    /\ bus = <<>>
    /\ gen = 0 /\ cur = 0
    /\ present = {}
    /\ mapped = [c \in Channel |-> 0]
    /\ reload = [busy |-> FALSE, n |-> 0]
    /\ queue = [c \in Channel |-> [g \in Gen |-> <<>>]]
    /\ disp = [g \in Gen |-> Off]
    /\ sender = [c \in Channel |-> [g \in Gen |-> Off]]
    /\ pass = NoPass
    /\ wire = [r \in Msg |-> [i \in Inst |-> 0]]
    /\ fate = [r \in Msg |-> {}]
    /\ faults = 0

-----------------------------------------------------------------------------
Spooled(r) == row[r].id # 0
Happens(r, f) == fate' = [fate EXCEPT ![r] = @ \cup {f}]

\* A database call either succeeds or spends one fault of the budget.
Succeeds == UNCHANGED faults
Fails == faults + reload.n < MaxMishaps /\ faults' = faults + 1

\* The best-effort Release, Complete and Forget of the publisher and the
\* dispatchers; a reply without a row has nothing to settle.
Settle(r, newRow) ==
    \/ Succeeds /\ row' = newRow
    \/ Fails /\ Spooled(r) /\ UNCHANGED row

ReleaseRow(r) == Settle(r, ReleaseIDs(row, {r}, inst))

\* sendOutboundMessage: every chunk went out, some did, or none did.
Transmit(r, res) ==
    /\ res \in {"delivered", "partial", "none"}
    /\ IF res = "none" THEN UNCHANGED ghost
       ELSE /\ wire' = [wire EXCEPT ![r][inst] = IF @ < 2 THEN @ + 1 ELSE 2]
            /\ Happens(r, IF res = "delivered" THEN "sent" ELSE "part")

-----------------------------------------------------------------------------
(* PublishOutbound *)

PublishSpool(r) ==
    /\ phase # "down"
    /\ pub[r] = "new"
    /\ pub' = [pub EXCEPT ![r] = "enqueued"]
    /\ \/ /\ Succeeds
          /\ row' = EnqueueClaimed(row, r, nextId, inst)
          /\ nextId' = nextId + 1
       \/ Fails /\ UNCHANGED disk
    /\ UNCHANGED <<proc, to, bus, wired, queue, disp, sender, pass, ghost>>

PublishBus(r) ==
    /\ pub[r] = "enqueued"
    /\ IF Len(bus) < BusCap
       THEN bus' = Append(bus, r) /\ pub' = [pub EXCEPT ![r] = "done"]
       ELSE UNCHANGED bus /\ pub' = [pub EXCEPT ![r] = "refused"]
    /\ UNCHANGED <<disk, proc, to, wired, queue, disp, sender, pass, ghost, faults>>

PublishRelease(r) ==
    /\ pub[r] = "refused"
    /\ pub' = [pub EXCEPT ![r] = "done"]
    /\ ReleaseRow(r)
    /\ UNCHANGED <<nextId, proc, to, bus, wired, queue, disp, sender, pass, ghost>>

Publish(r) == PublishSpool(r) \/ PublishBus(r) \/ PublishRelease(r)

-----------------------------------------------------------------------------
(* Boot, StartAll, Drain, StartPump *)

Boot ==
    /\ phase = "down"
    /\ inst < MaxBoots
    /\ inst' = inst + 1
    /\ phase' = "boot"
    /\ UNCHANGED <<disk, src, wired, queue, disp, sender, pass, ghost, faults>>

\* The dispatchers of generation g, one for the bus and one per channel of S.
Start(g, S) ==
    /\ gen' = g
    /\ cur' = g
    /\ disp' = [disp EXCEPT ![g] = Idle]
    /\ sender' = [c \in Channel |-> IF c \in S THEN [sender[c] EXCEPT ![g] = Idle] ELSE sender[c]]

\* initChannels has built channels and queues; with none enabled StartAll
\* returns before it starts a dispatcher.  Drain then reclaims, and its pass runs.
StartAll ==
    /\ phase = "boot"
    /\ phase' = "drain"
    /\ present' = StartSet
    /\ mapped' = [c \in Channel |-> IF c \in StartSet THEN 1 ELSE 0]
    /\ IF StartSet # {} THEN Start(1, StartSet) ELSE UNCHANGED <<gen, cur, disp, sender>>
    /\ pass' = [NoPass EXCEPT !.pc = "claim"]
    /\ \/ Succeeds /\ row' = ReclaimStale(row)
       \/ Fails /\ UNCHANGED row
    /\ UNCHANGED <<nextId, inst, src, reload, queue, ghost>>

GoLive ==
    /\ phase = "drain"
    /\ pass.pc = "off"
    /\ phase' = "live"
    /\ UNCHANGED <<disk, inst, src, wired, queue, disp, sender, pass, ghost, faults>>

-----------------------------------------------------------------------------
(* ReloadConfig *)

\* The old dispatchers are cancelled and the old channels stopped; until the
\* second critical section the manager has no channels.
ReloadStop ==
    /\ phase \in {"live", "quiet", "released"}
    /\ ~reload.busy
    /\ faults + reload.n < MaxMishaps
    /\ reload' = [busy |-> TRUE, n |-> reload.n + 1]
    /\ cur' = 0
    /\ present' = {}
    /\ UNCHANGED <<disk, proc, src, gen, mapped, queue, disp, sender, pass, ghost, faults>>

\* A likely bug: the new dispatchers read new queues, the map keeps the old ones.
ReloadStartUnmapped(S) ==
    /\ reload.busy
    /\ reload' = [reload EXCEPT !.busy = FALSE]
    /\ present' = S
    /\ mapped' = [c \in Channel |-> IF c \in S /\ mapped[c] = 0 THEN gen + 1 ELSE mapped[c]]
    /\ IF S # {} THEN Start(gen + 1, S) ELSE UNCHANGED <<gen, cur, disp, sender>>
    /\ UNCHANGED <<disk, proc, src, queue, pass, ghost, faults>>

\* initChannels gives the enabled channels S new queues; a channel that is no
\* longer enabled keeps its old one in the map.
ReloadStart(S) ==
    /\ reload.busy
    /\ reload' = [reload EXCEPT !.busy = FALSE]
    /\ present' = S
    /\ mapped' = [c \in Channel |-> IF c \in S THEN gen + 1 ELSE mapped[c]]
    /\ IF S # {} THEN Start(gen + 1, S) ELSE UNCHANGED <<gen, cur, disp, sender>>
    /\ UNCHANGED <<disk, proc, src, queue, pass, ghost, faults>>

-----------------------------------------------------------------------------
(* dispatchOutbound *)

\* A likely bug: the zero message of a cancelled SubscribeOutbound is routed.
DispatchTakeUnchecked(g) ==
    /\ disp[g].pc = "idle"
    /\ g # cur
    /\ disp' = [disp EXCEPT ![g] = [@ EXCEPT !.pc = "got"]]
    /\ UNCHANGED <<disk, proc, src, wired, queue, sender, pass, ghost, faults>>

\* Blocked in SubscribeOutbound's select: a dispatcher that is cancelled there
\* may still win a message, once, or has returned; an idle one that never moves
\* again stands for the latter.
DispatchTake(g) ==
    /\ disp[g].pc = "idle"
    /\ bus # <<>>
    /\ disp' = [disp EXCEPT ![g] = [@ EXCEPT !.pc = "got", !.msg = Head(bus)]]
    /\ bus' = Tail(bus)
    /\ UNCHANGED <<disk, proc, pub, to, wired, queue, sender, pass, ghost, faults>>

\* The queue of the reply's channel takes it, or, unknown or full, the row is
\* handed back to the pump.
DispatchRoute(g) ==
    LET r == disp[g].msg
        c == to[r]
        q == mapped[c]
    IN  /\ disp[g].pc = "got"
        /\ disp' = [disp EXCEPT ![g] = IF g = cur THEN Idle ELSE Off]
        /\ \/ /\ q # 0 /\ Len(queue[c][q]) < QueueCap
              /\ queue' = [queue EXCEPT ![c][q] = Append(@, r)]
              /\ UNCHANGED <<row, faults>>
           \/ /\ q = 0 \/ (q # 0 /\ Len(queue[c][q]) >= QueueCap)
              /\ ReleaseRow(r)
              /\ UNCHANGED queue
        /\ UNCHANGED <<nextId, proc, src, wired, sender, pass, ghost>>

Dispatch(g) == DispatchTake(g) \/ DispatchRoute(g)

-----------------------------------------------------------------------------
(* startChannelDispatcher *)

\* A cancelled dispatcher's select may still prefer its queue, or it has returned.
SenderTake(c, g) ==
    /\ sender[c][g].pc = "idle"
    /\ queue[c][g] # <<>>
    /\ sender' = [sender EXCEPT ![c][g] = [@ EXCEPT !.pc = "got", !.msg = Head(queue[c][g])]]
    /\ queue' = [queue EXCEPT ![c][g] = Tail(@)]
    /\ UNCHANGED <<disk, proc, src, wired, disp, pass, ghost, faults>>

SenderSend(c, g) ==
    /\ sender[c][g].pc = "got"
    /\ \E res \in {"delivered", "partial", "none"} :
          /\ Transmit(sender[c][g].msg, res)
          /\ sender' = [sender EXCEPT ![c][g] = [@ EXCEPT !.pc = "sent", !.res = res]]
    /\ UNCHANGED <<disk, proc, src, wired, queue, disp, pass, faults>>

\* A likely bug: what is partly out is handed back like what never started.
SenderRetryPartial(c, g) ==
    LET r == sender[c][g].msg
    IN  /\ sender[c][g].pc = "sent"
        /\ IF sender[c][g].res = "delivered"
           THEN Settle(r, Complete(row, r))
           ELSE ReleaseRow(r)
        /\ sender' = [sender EXCEPT ![c][g] = Idle]
        /\ UNCHANGED <<nextId, proc, src, wired, queue, disp, pass, ghost>>

\* A likely bug: a failed send is forgotten like a partial one.
SenderForget(c, g) ==
    LET r == sender[c][g].msg
    IN  /\ sender[c][g].pc = "sent"
        /\ Settle(r, Complete(row, r))
        /\ sender' = [sender EXCEPT ![c][g] = Idle]
        /\ UNCHANGED <<nextId, proc, src, wired, queue, disp, pass, ghost>>

\* completeOutbound, forgetOutbound or releaseOutbound.
SenderSettle(c, g) ==
    LET r == sender[c][g].msg
    IN  /\ sender[c][g].pc = "sent"
        /\ IF sender[c][g].res \in {"delivered", "partial"}
           THEN Settle(r, Complete(row, r))
           ELSE ReleaseRow(r)
        /\ sender' = [sender EXCEPT ![c][g] = Idle]
        /\ UNCHANGED <<nextId, proc, src, wired, queue, disp, pass, ghost>>

Sender(c, g) == SenderTake(c, g) \/ SenderSend(c, g) \/ SenderSettle(c, g)

-----------------------------------------------------------------------------
(* claimPass and deliverOne *)

PumpTick ==
    /\ phase = "live"
    /\ pass.pc = "off"
    /\ Pending(row) # {}
    /\ pass' = [NoPass EXCEPT !.pc = "claim"]
    /\ UNCHANGED <<disk, proc, src, wired, queue, disp, sender, ghost, faults>>

Abort == pass' = [pass EXCEPT !.pc = "release", !.batch = {}]

PassClaim ==
    /\ pass.pc = "claim"
    /\ \/ /\ phase \in {"drain", "live"}
          /\ Succeeds
          /\ IF NextBatch(row) = {}
             THEN Abort /\ UNCHANGED row
             ELSE /\ pass' = [pass EXCEPT !.pc = "item", !.batch = NextBatch(row),
                                          !.mine = @ \cup NextBatch(row)]
                  /\ row' = ClaimBatch(row, inst)
       \/ phase \in {"drain", "live"} /\ Fails /\ Abort /\ UNCHANGED row
       \/ phase \notin {"drain", "live"} /\ Succeeds /\ Abort /\ UNCHANGED row
    /\ UNCHANGED <<nextId, proc, src, wired, queue, disp, sender, ghost>>

\* The row deliverOne works on.
Oldest(r) == r \in pass.batch /\ \A k \in pass.batch : row[r].id <= row[k].id

\* Row r leaves the batch; the pass claims again unless a row was deferred.
Advance(r, deferred) ==
    LET rest == pass.batch \ {r}
    IN  pass' = [pass EXCEPT
            !.batch = rest,
            !.res = "none",
            !.deferred = @ \/ deferred,
            !.pc = IF rest # {} THEN "item"
                   ELSE IF deferred \/ pass.deferred THEN "release" ELSE "claim"]

\* Delete the row behind r for good and go on, or stop the pass on an error.
Drop(r) ==
    \/ Succeeds /\ row' = Complete(row, r) /\ Advance(r, FALSE)
    \/ Fails /\ UNCHANGED row /\ Abort

\* handlePoisonOutbound: counted, and dead-lettered at the limit.  The count
\* and the delete are one step.
PassPoison(r) ==
    /\ pass.pc = "item" /\ Oldest(r)
    /\ r \in Corrupt
    /\ \/ /\ row[r].attempts + 1 < PoisonLimit
          /\ Succeeds
          /\ row' = IncAttempt(row, r)
          /\ Advance(r, FALSE)
          /\ UNCHANGED fate
       \/ /\ row[r].attempts + 1 >= PoisonLimit
          /\ Succeeds
          /\ row' = Complete(IncAttempt(row, r), r)
          /\ Advance(r, FALSE)
          /\ Happens(r, "poison")
       \/ Fails /\ UNCHANGED <<row, fate>> /\ Abort
    /\ UNCHANGED <<nextId, proc, src, wired, queue, disp, sender, wire>>

PassExpired(r) ==
    /\ pass.pc = "item" /\ Oldest(r)
    /\ r \in Aging \ Corrupt
    /\ Happens(r, "expired")
    /\ Drop(r)
    /\ UNCHANGED <<nextId, proc, src, wired, queue, disp, sender, wire>>

\* SendToPeer: a channel the manager does not have is an ordinary failure.
PassSend(r) ==
    /\ pass.pc = "item" /\ Oldest(r)
    /\ r \notin Corrupt
    /\ \E res \in IF to[r] \in present THEN {"delivered", "partial", "none"} ELSE {"none"} :
          /\ Transmit(r, res)
          /\ pass' = [pass EXCEPT !.res = res, !.pc = IF res = "none" THEN "count" ELSE "settle"]
    /\ UNCHANGED <<disk, proc, src, wired, queue, disp, sender, faults>>

\* IncAttempt after a failed send; at the ceiling the reply is given up.
PassCount(r) ==
    LET spent == row[r].attempts + 1 >= MaxAttempts
    IN  /\ pass.pc = "count" /\ Oldest(r)
        /\ \/ /\ Succeeds
              /\ row' = IncAttempt(row, r)
              /\ pass' = [pass EXCEPT !.pc = "settle", !.res = IF spent THEN "dead" ELSE "none"]
              /\ IF spent THEN Happens(r, "dead") ELSE UNCHANGED fate
           \/ Fails /\ UNCHANGED <<row, fate>> /\ Abort
        /\ UNCHANGED <<nextId, proc, src, wired, queue, disp, sender, wire>>

\* A likely bug: a deferred row keeps its claim and the pass forgets it.
PassKeepClaim(r) ==
    /\ pass.pc = "settle" /\ Oldest(r)
    /\ IF pass.res = "none"
       THEN /\ Succeeds /\ UNCHANGED row
            /\ pass' = [pass EXCEPT !.batch = @ \ {r}, !.mine = @ \ {r}, !.pc = "release"]
       ELSE Drop(r)
    /\ UNCHANGED <<nextId, proc, src, wired, queue, disp, sender, ghost>>

PassSettle(r) ==
    /\ pass.pc = "settle" /\ Oldest(r)
    /\ IF pass.res = "none"
       THEN \/ Succeeds /\ row' = ReleaseIDs(row, {r}, inst) /\ Advance(r, TRUE)
            \/ Fails /\ UNCHANGED row /\ Abort
       ELSE Drop(r)
    /\ UNCHANGED <<nextId, proc, src, wired, queue, disp, sender, ghost>>

\* The deferred release: only the ids this pass has claimed.
PassRelease ==
    /\ pass.pc = "release"
    /\ pass' = NoPass
    /\ \/ Succeeds /\ row' = ReleaseIDs(row, pass.mine, inst)
       \/ Fails /\ UNCHANGED row
    /\ UNCHANGED <<nextId, proc, src, wired, queue, disp, sender, ghost>>

PassStep ==
    \/ PassClaim \/ PassRelease
    \/ \E r \in Msg : PassPoison(r) \/ PassExpired(r) \/ PassSend(r) \/ PassCount(r) \/ PassSettle(r)

-----------------------------------------------------------------------------
(* Shutdown and crash *)

PumpStop ==
    /\ phase = "live"
    /\ phase' = "quiet"
    /\ UNCHANGED <<disk, inst, src, wired, queue, disp, sender, pass, ghost, faults>>

\* Every claim of this process, the ones the dispatchers still hold included.
ShutdownRelease ==
    /\ phase = "quiet"
    /\ pass.pc = "off"
    /\ phase' = "released"
    /\ \/ Succeeds /\ row' = ReleaseClaims(row, inst)
       \/ Fails /\ UNCHANGED row
    /\ UNCHANGED <<nextId, inst, src, wired, queue, disp, sender, pass, ghost>>

\* The channels-stop hook; a pump that outlasts its own hook's budget does not
\* hold it up.
ChannelsStop ==
    /\ phase \in {"quiet", "released"}
    /\ cur # 0
    /\ cur' = 0
    /\ UNCHANGED <<disk, proc, src, gen, present, mapped, reload, queue, disp, sender, pass, ghost, faults>>

\* The process exits or is killed, at any point: its memory is gone.
ProcessEnd ==
    /\ phase # "down"
    /\ phase' = "down"
    /\ bus' = <<>>
    /\ gen' = 0 /\ cur' = 0
    /\ present' = {}
    /\ mapped' = [c \in Channel |-> 0]
    /\ reload' = [reload EXCEPT !.busy = FALSE]
    /\ queue' = [c \in Channel |-> [g \in Gen |-> <<>>]]
    /\ disp' = [g \in Gen |-> Off]
    /\ sender' = [c \in Channel |-> [g \in Gen |-> Off]]
    /\ pass' = NoPass
    /\ pub' = [r \in Msg |-> IF pub[r] = "new" THEN "new" ELSE "done"]
    /\ UNCHANGED <<disk, inst, to, ghost, faults>>

\* StaleClaimTimeout passes over every claim.
Age ==
    /\ phase \in SlowPhases
    /\ row' = AgeClaims(row)
    /\ row' # row
    /\ UNCHANGED <<nextId, proc, src, wired, queue, disp, sender, pass, ghost, faults>>

-----------------------------------------------------------------------------
Next ==
    \/ \E r \in Msg : Publish(r)
    \/ Boot \/ StartAll \/ GoLive
    \/ ReloadStop \/ \E S \in SUBSET Channel : ReloadStart(S)
    \/ \E g \in Gen : Dispatch(g)
    \/ \E c \in Channel, g \in Gen : Sender(c, g)
    \/ PumpTick \/ PassStep
    \/ PumpStop \/ ShutdownRelease \/ ChannelsStop \/ ProcessEnd \/ Age

Spec == Init /\ [][Next]_vars

\* Goroutines run, the ticker fires, every Send has a timeout, and a reload
\* finishes.  Nobody is obliged to publish, to reload or to stop.
Fairness ==
    /\ \A r \in Msg : WF_vars(PublishBus(r) \/ PublishRelease(r))
    /\ WF_vars(StartAll) /\ WF_vars(GoLive)
    /\ WF_vars(\E S \in SUBSET Channel : ReloadStart(S))
    /\ \A g \in Gen : WF_vars(g = cur /\ DispatchTake(g)) /\ WF_vars(DispatchRoute(g))
    /\ \A c \in Channel, g \in Gen :
          /\ WF_vars(g = cur /\ SenderTake(c, g))
          /\ WF_vars(SenderSend(c, g) \/ SenderSettle(c, g))
    /\ WF_vars(PumpTick) /\ WF_vars(PassStep)

FairSpec == Spec /\ Fairness

-----------------------------------------------------------------------------
(* Properties *)

\* r waits in a queue whose dispatcher has gone or is cancelled, or on the bus
\* while there is no dispatcher.
Abandoned(r) ==
    \/ \E c \in Channel, g \in Gen :
          /\ \E i \in DOMAIN queue[c][g] : queue[c][g][i] = r
          /\ g # cur \/ sender[c][g].pc = "off"
    \/ cur = 0 /\ \E i \in DOMAIN bus : bus[i] = r

\* The row of a reply disappears only after the reply, or a part of it, went
\* out, or it was expired, poisoned or given up after MaxAttempts replays:
\* not in a reload, a crash, a full queue or a failing database call
\* (package doc of outbound.go).
ReplyKept == \A r \in Msg : Spooled(r) /\ ~row[r].here => fate[r] # {}

\* One process puts a reply on the wire at most once: a live row is born
\* claimed, a pass hands back its own claims only, and what is partly out is
\* never released (Enqueue, claimPass, sendResult).  A failing delete is
\* excepted, see SentOnceAnyway.
SentOnce == faults = 0 => \A r \in Msg : \A i \in Inst : wire[r][i] <= 1

\* Once a reply's row is gone nobody sends it any more: no copy of it is left
\* in a queue, a dispatcher or a batch, however reloads and restarts fell.
GoneIsSilent ==
    [][\A r \in Msg : (Spooled(r) /\ ~row[r].here) => wire'[r] = wire[r]]_vars

\* Somebody runs who will settle the row of r: its publisher, the dispatchers
\* that read the bus, one with r in hand, the one that reads r's queue, the pass.
Tended(r) ==
    \/ pub[r] \in {"enqueued", "refused"}
    \/ \E g \in Gen :
          \/ disp[g].msg = r
          \/ g = cur /\ disp[g].pc # "off" /\ \E i \in DOMAIN bus : bus[i] = r
    \/ \E c \in Channel, g \in Gen :
          \/ sender[c][g].msg = r
          \/ /\ g = cur /\ sender[c][g].pc # "off"
             /\ \E i \in DOMAIN queue[c][g] : queue[c][g][i] = r
    \/ pass.pc # "off" /\ r \in pass.mine

\* What nobody reads, and may wait for the next process: a queue that a reload
\* replaced, or one of a channel it took away (NothingAbandoned), and the bus
\* while the manager has no channel.
LeftBehind(r) ==
    \/ /\ reload.n > 0
       /\ \E c \in Channel, g \in Gen :
             /\ \E i \in DOMAIN queue[c][g] : queue[c][g][i] = r
             /\ c \notin present \/ g # mapped[c]
    \/ present = {} /\ \E i \in DOMAIN bus : bus[i] = r

\* A row claimed by the live process has somebody running who will settle it,
\* unless a reload has left its copy behind: without a reload no queue is ever
\* without a reader, and after one the queue the manager has for a channel is
\* the one its new dispatcher reads.  A claimed row with neither is invisible
\* to the pump for the life of the process.  A failing call is excepted.
ClaimHasWorker ==
    (phase \in {"boot", "drain", "live"} /\ faults = 0) =>
        \A r \in HeldBy(row, inst) : Tended(r) \/ LeftBehind(r)

\* While the gateway is live, a spooled reply leaves the spool, unless a
\* reload has left it in a queue that nobody serves (see NothingAbandoned) or
\* a database call failed.
ReplySettles ==
    \A r \in Msg :
        (phase = "live" /\ row[r].here /\ row[r].owner \in {Nobody, inst})
            ~> (~row[r].here \/ phase # "live" \/ Abandoned(r) \/ faults > 0)

-----------------------------------------------------------------------------
(* What the comments say and the code does not do *)

\* Enqueue: "The row leaves the claimed state in exactly three ways", all of
\* them steps of a dispatcher that a reload may have left without work.
NothingAbandoned ==
    (phase = "live" /\ ~reload.busy /\ cur # 0) => \A r \in HeldBy(row, inst) : ~Abandoned(r)

\* "The only duplicate window is a crash between the last send and the delete".
SentOnceAnyway == \A r \in Msg : \A i \in Inst : wire[r][i] <= 1

\* FlushPeer: a pass goes "in id order, which is already the exact order for
\* that peer".
PeerOrder ==
    [][\A r, k \in Msg :
         (pass.pc = "item" /\ r \in pass.batch /\ wire'[r] # wire[r]
            /\ to[r] = to[k] /\ row[k].here /\ row[k].id < row[r].id)
            => wire[k][inst] > 0]_vars
=============================================================================
