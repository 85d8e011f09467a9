------------------------ MODULE DurableOutboundProofs -----------------------
(***************************************************************************)
(* Proofs about DurableOutbound, for any set of replies and of channels,   *)
(* any capacities and any number of restarts, reloads and failures.        *)
(***************************************************************************)
EXTENDS DurableOutbound, SpoolProofs, TLAPS

-----------------------------------------------------------------------------
(* Type correctness *)

\* A generation of dispatchers for each reload, and one for the start.
Wiring ==
    /\ gen <= reload.n + 1
    /\ reload.busy => gen <= reload.n
    /\ phase \in {"down", "boot", "drain"} => ~reload.busy

TypeInv == TypeOK /\ Wiring

PassType == [pc : {"off", "claim", "item", "count", "settle", "release"},
             batch : SUBSET Msg, mine : SUBSET Msg, res : Result, deferred : BOOLEAN]

SenderType == [Channel -> [Gen -> Worker]]

LEMMA WorkerTypes ==
    /\ Off \in Worker /\ Idle \in Worker
    /\ Off = [pc |-> "off", msg |-> NoMsg, res |-> "none"]
    /\ Idle = [pc |-> "idle", msg |-> NoMsg, res |-> "none"]
    /\ NoMsg \notin Msg
BY OutboundAssumption DEF Worker, Off, Idle

LEMMA WorkerCases ==
    ASSUME NEW w \in Worker
    PROVE  /\ w.pc = "idle" => w = Idle
           /\ w.pc = "off" => w = Off
           /\ w.pc \in {"got", "sent"} => /\ w.msg \in Msg /\ w.res \in Result
                                        /\ w = [pc |-> w.pc, msg |-> w.msg, res |-> w.res]
           /\ w.msg \in Msg => w.pc \in {"got", "sent"}
           /\ w.pc \in {"off", "idle", "got", "sent"}
<1>1. CASE w = Off \/ w = Idle
  BY <1>1, WorkerTypes
<1>2. CASE w \in [pc : {"got", "sent"}, msg : Msg, res : Result]
  BY <1>2
<1> QED BY <1>1, <1>2 DEF Worker

\* A dispatcher takes a reply.
LEMMA Taken ==
    ASSUME NEW r \in Msg
    PROVE  /\ [Idle EXCEPT !.pc = "got", !.msg = r] = [pc |-> "got", msg |-> r, res |-> "none"]
           /\ [pc |-> "got", msg |-> r, res |-> "none"] \in Worker
<1>1. [pc |-> "got", msg |-> r, res |-> "none"] \in Worker
  BY DEF Worker, Result
<1>2. Idle \in [pc : {"idle"}, msg : {NoMsg}, res : {"none"}]
  BY WorkerTypes
<1>3. [Idle EXCEPT !.pc = "got", !.msg = r] \in [pc : {"got"}, msg : {r}, res : {"none"}]
  BY <1>2
<1>4. \A w \in [pc : {"got"}, msg : {r}, res : {"none"}] :
         w = [pc |-> "got", msg |-> r, res |-> "none"]
  OBVIOUS
<1> QED BY <1>1, <1>3, <1>4

LEMMA GenBounds ==
    ASSUME TypeInv
    PROVE  /\ MaxMishaps \in Nat
           /\ gen \in Nat /\ gen <= MaxMishaps + 1
           /\ reload.n \in Nat /\ reload.n <= MaxMishaps /\ reload.busy \in BOOLEAN
           /\ reload = [busy |-> reload.busy, n |-> reload.n]
           /\ 1 \in Gen
           /\ reload.busy => gen + 1 \in Gen
BY OutboundAssumption DEF TypeInv, Wiring, TypeOK, WiredType, Gen

LEMMA FaultTypes ==
    ASSUME TypeInv, Succeeds \/ Fails
    PROVE  faults' \in 0..MaxMishaps
BY GenBounds DEF Succeeds, Fails, TypeInv, TypeOK, GhostType

LEMMA AdvanceType ==
    ASSUME TypeOK, NEW r \in Msg, NEW d \in BOOLEAN, Advance(r, d)
    PROVE  pass' \in PassType
BY DEF TypeOK, WorkType, Advance, PassType, Result

LEMMA AbortType ==
    ASSUME TypeOK, Abort
    PROVE  pass' \in PassType
BY DEF TypeOK, WorkType, Abort, PassType

LEMMA FateType ==
    ASSUME TypeOK, NEW r \in Msg,
           NEW f \in {"sent", "part", "expired", "dead", "poison"}, Happens(r, f)
    PROVE  fate' \in [Msg -> SUBSET {"sent", "part", "expired", "dead", "poison"}]
BY DEF TypeOK, GhostType, Happens

LEMMA CountedUp ==
    ASSUME NEW S, NEW f \in [S -> 0..2], NEW i
    PROVE  [f EXCEPT ![i] = IF @ < 2 THEN @ + 1 ELSE 2] \in [S -> 0..2]
<1>1. CASE i \in S
  <2>1. f[i] \in 0..2
    BY <1>1
  <2> DEFINE v == IF f[i] < 2 THEN f[i] + 1 ELSE 2
  <2>2. v \in 0..2
    BY <2>1
  <2> HIDE DEF v
  <2>3. [f EXCEPT ![i] = v] \in [S -> 0..2]
    BY <2>2
  <2> QED BY <2>3 DEF v
<1>2. CASE i \notin S
  <2>1. [f EXCEPT ![i] = IF @ < 2 THEN @ + 1 ELSE 2] = f
    BY <1>2
  <2> QED BY <2>1
<1> QED BY <1>1, <1>2

LEMMA TransmitType ==
    ASSUME TypeOK, NEW r \in Msg, NEW res, Transmit(r, res)
    PROVE  /\ wire' \in [Msg -> [Inst -> 0..2]]
           /\ fate' \in [Msg -> SUBSET {"sent", "part", "expired", "dead", "poison"}]
<1>1. CASE res = "none"
  BY <1>1 DEF Transmit, ghost, TypeOK, GhostType
<1>2. CASE res # "none"
  <2>1. fate' \in [Msg -> SUBSET {"sent", "part", "expired", "dead", "poison"}]
    BY <1>2, FateType DEF Transmit
  <2>2. wire' = [wire EXCEPT ![r][inst] = IF @ < 2 THEN @ + 1 ELSE 2]
    BY <1>2 DEF Transmit
  <2>3. wire \in [Msg -> [Inst -> 0..2]]
    BY DEF TypeOK, GhostType
  <2>4. [wire[r] EXCEPT ![inst] = IF @ < 2 THEN @ + 1 ELSE 2] \in [Inst -> 0..2]
    BY <2>3, CountedUp
  <2> QED BY <2>1, <2>2, <2>3, <2>4
<1> QED BY <1>1, <1>2

LEMMA SettleType ==
    ASSUME TypeInv, NEW r \in Msg, NEW t \in Table, Settle(r, t)
    PROVE  row' \in Table /\ faults' \in 0..MaxMishaps
BY FaultTypes DEF Settle, TypeInv, TypeOK, DiskType, Table

LEMMA ReleaseRowType ==
    ASSUME TypeInv, NEW r \in Msg, ReleaseRow(r)
    PROVE  row' \in Table /\ faults' \in 0..MaxMishaps
<1>1. row \in Table /\ inst \in Nat
  BY OutboundAssumption DEF TypeInv, TypeOK, DiskType, ProcType, Table
<1> QED BY <1>1, SettleType, ReleaseIDsKeepsRows DEF ReleaseRow, SameRows

LEMMA SetWorkerType ==
    ASSUME TypeOK, NEW c \in Channel, NEW g \in Gen, NEW w \in Worker,
           sender' = [sender EXCEPT ![c][g] = w]
    PROVE  sender' \in SenderType
<1>1. sender \in SenderType /\ sender[c] \in [Gen -> Worker]
  BY DEF TypeOK, WorkType, SenderType
<1>2. [sender[c] EXCEPT ![g] = w] \in [Gen -> Worker]
  BY <1>1
<1> QED BY <1>1, <1>2 DEF SenderType

LEMMA TypeStep ==
    ASSUME TypeInv, [Next]_vars
    PROVE  TypeInv'
<1> USE DEF disk, proc, src, wired, ghost
<1>a. /\ TypeOK /\ row \in Table /\ inst \in Nat /\ inst \in 0..MaxBoots /\ MaxBoots \in Nat
      /\ nextId \in Nat \ {0} /\ pass \in PassType /\ sender \in SenderType
      /\ disp \in [Gen -> Worker] /\ queue \in [Channel -> [Gen -> Seq(Msg)]]
      /\ bus \in Seq(Msg) /\ pub \in [Msg -> {"new", "enqueued", "refused", "done"}]
      /\ to \in [Msg -> Channel] /\ mapped \in [Channel -> 0..(MaxMishaps + 1)]
      /\ present \subseteq Channel
  BY OutboundAssumption
     DEF TypeInv, TypeOK, DiskType, ProcType, WiredType, WorkType, Table, PassType, SenderType
<1>b. /\ gen \in Nat /\ gen <= MaxMishaps + 1 /\ MaxMishaps \in Nat
      /\ reload.n \in Nat /\ reload.n <= MaxMishaps /\ reload.busy \in BOOLEAN
      /\ reload = [busy |-> reload.busy, n |-> reload.n]
      /\ 1 \in Gen
  BY GenBounds
<1>c. /\ UNCHANGED disk => DiskType'
      /\ UNCHANGED <<proc, src>> => ProcType'
      /\ UNCHANGED wired => WiredType'
      /\ UNCHANGED <<queue, disp, sender, pass>> => WorkType'
      /\ UNCHANGED <<ghost, faults>> => GhostType'
      /\ UNCHANGED <<gen, reload, phase>> => Wiring'
  BY DEF TypeInv, TypeOK, DiskType, ProcType, WiredType, WorkType, GhostType, Wiring
<1>d. Idle \in Worker /\ Off \in Worker
  BY WorkerTypes
<1>e. NoPass \in PassType /\ [NoPass EXCEPT !.pc = "claim"] \in PassType
  BY DEF NoPass, PassType, Result
<1>f. \A r \in Msg, S \in SUBSET Msg :
         /\ ReleaseIDs(row, S, inst) \in Table
         /\ IncAttempt(row, r) \in Table
         /\ Complete(row, r) \in Table
         /\ Complete(IncAttempt(row, r), r) \in Table
  BY <1>a, ReleaseIDsKeepsRows, IncAttemptKeepsRows, CompleteRemovesOne DEF SameRows
<1>g. ReclaimStale(row) \in Table /\ ReleaseClaims(row, inst) \in Table
      /\ AgeClaims(row) \in Table /\ ClaimBatch(row, inst) \in Table
  BY <1>a, ReclaimStaleKeepsRows, ReleaseClaimsKeepsRows, AgeClaimsKeepsRows, ClaimBatchKeepsRows
     DEF SameRows
<1>h. /\ wire \in [Msg -> [Inst -> 0..2]]
      /\ fate \in [Msg -> SUBSET {"sent", "part", "expired", "dead", "poison"}]
  BY DEF TypeInv, TypeOK, GhostType
\* What is left to show of an action is the parts it changes.
<1>i. ASSUME row' \in Table, nextId' \in Nat \ {0} PROVE DiskType'
  BY <1>i DEF DiskType, Table
<1>j. ASSUME queue' \in [Channel -> [Gen -> Seq(Msg)]], disp' \in [Gen -> Worker],
             sender' \in SenderType, pass' \in PassType
      PROVE  WorkType'
  BY <1>j DEF WorkType, SenderType, PassType
<1>k. ASSUME wire' \in [Msg -> [Inst -> 0..2]],
             fate' \in [Msg -> SUBSET {"sent", "part", "expired", "dead", "poison"}],
             faults' \in 0..MaxMishaps
      PROVE  GhostType'
  BY <1>k DEF GhostType
<1>l. ASSUME phase' \in Phase, inst' \in 0..MaxBoots, to' = to, bus' \in Seq(Msg),
             pub' \in [Msg -> {"new", "enqueued", "refused", "done"}]
      PROVE  ProcType'
  BY <1>l, <1>a DEF ProcType
<1>m. phase \in Phase
  BY DEF TypeInv, TypeOK, ProcType
<1>1. ASSUME NEW r \in Msg, PublishSpool(r) PROVE TypeInv'
  <2>1. pub' \in [Msg -> {"new", "enqueued", "refused", "done"}]
    BY <1>1, <1>a DEF PublishSpool
  <2>2. row' \in Table /\ nextId' \in Nat \ {0}
    <3>1. CASE row' = EnqueueClaimed(row, r, nextId, inst) /\ nextId' = nextId + 1
      <4>1. row \in Table /\ nextId \in Nat /\ inst \in Nat
        BY <1>a
      <4>2. EnqueueClaimed(row, r, nextId, inst) \in Table
        BY <4>1, EnqueueAddsOne
      <4> QED BY <3>1, <4>2, <1>a
    <3> QED BY <1>1, <1>a, <3>1 DEF PublishSpool
  <2>3. faults' \in 0..MaxMishaps
    BY <1>1, FaultTypes DEF PublishSpool
  <2> QED
    BY <1>1, <2>1, <2>2, <2>3, <1>a, <1>c, <1>h, <1>i, <1>k, <1>l, <1>m
       DEF PublishSpool, TypeInv, TypeOK
<1>2. ASSUME NEW r \in Msg, PublishBus(r) PROVE TypeInv'
  <2>1. pub' \in [Msg -> {"new", "enqueued", "refused", "done"}]
    BY <1>2, <1>a DEF PublishBus
  <2>2. bus' \in Seq(Msg)
    <3>1. bus' \in {bus, Append(bus, r)}
      BY <1>2 DEF PublishBus
    <3>2. Append(bus, r) \in Seq(Msg)
      BY <1>a
    <3> QED BY <3>1, <3>2, <1>a
  <2> QED
    BY <1>2, <2>1, <2>2, <1>a, <1>c, <1>l, <1>m DEF PublishBus, TypeInv, TypeOK
<1>3. ASSUME NEW r \in Msg, PublishRelease(r) PROVE TypeInv'
  <2>1. pub' \in [Msg -> {"new", "enqueued", "refused", "done"}]
    BY <1>3, <1>a DEF PublishRelease
  <2>2. row' \in Table /\ faults' \in 0..MaxMishaps
    BY <1>3, ReleaseRowType DEF PublishRelease
  <2> QED
    BY <1>3, <2>1, <2>2, <1>a, <1>c, <1>h, <1>i, <1>k, <1>l, <1>m
       DEF PublishRelease, TypeInv, TypeOK
<1>4. CASE Boot
  <2>1. inst' \in 0..MaxBoots /\ phase' \in Phase
    BY <1>4, <1>a DEF Boot, Phase
  <2>2. Wiring'
    BY <1>4 DEF Boot, TypeInv, Wiring
  <2> QED
    BY <1>4, <2>1, <2>2, <1>a, <1>c, <1>l DEF Boot, TypeInv, TypeOK
<1>5. CASE StartAll
  <2>1. phase' \in Phase /\ row' \in Table /\ faults' \in 0..MaxMishaps /\ pass' \in PassType
    BY <1>5, <1>a, <1>e, <1>g, FaultTypes DEF StartAll, Phase
  <2>2. mapped' \in [Channel -> 0..(MaxMishaps + 1)] /\ present' \subseteq Channel
    BY <1>5, <1>b, OutboundAssumption DEF StartAll
  <2>3. /\ gen' \in 0..(MaxMishaps + 1) /\ cur' \in 0..(MaxMishaps + 1)
        /\ disp' \in [Gen -> Worker] /\ sender' \in SenderType
    <3>1. CASE Start(1, StartSet)
      BY <3>1, <1>a, <1>b, <1>d DEF Start, SenderType
    <3>2. CASE UNCHANGED <<gen, cur, disp, sender>>
      BY <3>2, <1>a DEF TypeOK, WiredType
    <3> QED BY <1>5, <3>1, <3>2 DEF StartAll
  <2>4. WiredType'
    BY <1>5, <2>2, <2>3, <1>a DEF StartAll, WiredType, TypeOK
  <2>5. Wiring'
    <3>1. gen' = 1 \/ gen' = gen
      BY <1>5 DEF StartAll, Start
    <3> QED BY <1>5, <3>1, <1>b DEF StartAll, TypeInv, Wiring
  <2> QED
    BY <1>5, <2>1, <2>3, <2>4, <2>5, <1>a, <1>h, <1>i, <1>j, <1>k, <1>l
       DEF StartAll, TypeInv, TypeOK
<1>6. CASE GoLive
  BY <1>6, <1>a, <1>c, <1>l DEF GoLive, Phase, TypeInv, TypeOK, Wiring
<1>7. CASE ReloadStop
  <2>1. WiredType' /\ Wiring'
    <3>1. reload' = [busy |-> TRUE, n |-> reload.n + 1]
      BY <1>7 DEF ReloadStop
    <3>2. reload.n + 1 <= MaxMishaps
      BY <1>7, <1>b DEF ReloadStop, TypeOK, GhostType, TypeInv
    <3> QED BY <1>7, <3>1, <3>2, <1>b DEF ReloadStop, TypeInv, TypeOK, WiredType, Wiring
  <2> QED
    BY <1>7, <2>1, <1>c DEF ReloadStop, TypeInv, TypeOK
<1>8. ASSUME NEW S \in SUBSET Channel, ReloadStart(S) PROVE TypeInv'
  <2>1. gen + 1 \in Gen /\ gen + 1 \in 0..(MaxMishaps + 1) /\ gen <= reload.n
    BY <1>8, <1>b, GenBounds DEF ReloadStart, Gen, TypeInv, Wiring
  <2>2. mapped' \in [Channel -> 0..(MaxMishaps + 1)] /\ present' \subseteq Channel
    BY <1>8, <1>a, <2>1 DEF ReloadStart
  <2>3. /\ gen' \in 0..(MaxMishaps + 1) /\ cur' \in 0..(MaxMishaps + 1)
        /\ disp' \in [Gen -> Worker] /\ sender' \in SenderType
        /\ gen' \in {gen, gen + 1}
    <3>1. CASE Start(gen + 1, S)
      BY <3>1, <1>a, <1>b, <1>d, <2>1 DEF Start, SenderType
    <3>2. CASE UNCHANGED <<gen, cur, disp, sender>>
      BY <3>2, <1>a DEF TypeOK, WiredType
    <3> QED BY <1>8, <3>1, <3>2 DEF ReloadStart
  <2>4. reload' = [busy |-> FALSE, n |-> reload.n]
    BY <1>8, <1>b DEF ReloadStart
  <2>5. WiredType' /\ Wiring'
    BY <1>8, <2>1, <2>2, <2>3, <2>4, <1>b DEF WiredType, Wiring
  <2> QED
    BY <1>8, <2>3, <2>5, <1>a, <1>c, <1>j DEF ReloadStart, TypeInv, TypeOK
<1>9. ASSUME NEW g \in Gen, DispatchTake(g) PROVE TypeInv'
  <2>1. disp[g] = Idle
    BY <1>9, <1>a, WorkerCases DEF DispatchTake
  <2>2. disp' \in [Gen -> Worker] /\ bus' \in Seq(Msg)
    <3>1. Head(bus) \in Msg /\ Tail(bus) \in Seq(Msg)
      BY <1>9, <1>a DEF DispatchTake
    <3>2. [disp[g] EXCEPT !.pc = "got", !.msg = Head(bus)] \in Worker
      BY <2>1, <3>1, Taken
    <3> QED BY <1>9, <1>a, <3>1, <3>2 DEF DispatchTake
  <2> QED
    BY <1>9, <2>2, <1>a, <1>c, <1>j, <1>l, <1>m DEF DispatchTake, TypeInv, TypeOK
<1>10. ASSUME NEW g \in Gen, DispatchRoute(g) PROVE TypeInv'
  <2> DEFINE r == disp[g].msg
  <2>1. r \in Msg /\ to[r] \in Channel
    BY <1>10, <1>a, WorkerCases DEF DispatchRoute
  <2>2. disp' \in [Gen -> Worker]
    BY <1>10, <1>a, <1>d DEF DispatchRoute
  <2>3. CASE ReleaseRow(r) /\ UNCHANGED queue
    BY <1>10, <2>1, <2>2, <2>3, ReleaseRowType, <1>a, <1>c, <1>h, <1>i, <1>j, <1>k
       DEF DispatchRoute, TypeInv, TypeOK
  <2>4. CASE /\ mapped[to[r]] # 0
             /\ queue' = [queue EXCEPT ![to[r]][mapped[to[r]]] = Append(@, r)]
             /\ UNCHANGED <<row, faults>>
    <3>1. mapped[to[r]] \in Gen
      BY <2>1, <2>4, <1>a, <1>b DEF Gen
    <3>2. queue' \in [Channel -> [Gen -> Seq(Msg)]]
      BY <2>1, <2>4, <3>1, <1>a
    <3> QED
      BY <1>10, <2>2, <2>4, <3>2, <1>a, <1>c, <1>j DEF DispatchRoute, TypeInv, TypeOK
  <2> QED BY <1>10, <2>3, <2>4 DEF DispatchRoute
<1>11. ASSUME NEW c \in Channel, NEW g \in Gen, SenderTake(c, g) PROVE TypeInv'
  <2> DEFINE q == queue[c][g]
  <2>1. sender[c][g] = Idle
    BY <1>11, <1>a, WorkerCases DEF SenderTake, SenderType
  <2>2. q \in Seq(Msg) /\ q # <<>> /\ Head(q) \in Msg /\ Tail(q) \in Seq(Msg)
    BY <1>11, <1>a DEF SenderTake
  <2>3. sender' \in SenderType
    <3> DEFINE w == [pc |-> "got", msg |-> Head(q), res |-> "none"]
    <3>1. [Idle EXCEPT !.pc = "got", !.msg = Head(q)] = w /\ w \in Worker
      BY <2>2, Taken
    <3>2. sender' = [sender EXCEPT ![c][g] = w]
      BY <1>11, <2>1, <3>1 DEF SenderTake
    <3> HIDE DEF w
    <3> QED BY <3>1, <3>2, <1>a, SetWorkerType
  <2>4. queue' \in [Channel -> [Gen -> Seq(Msg)]]
    <3>1. queue' = [queue EXCEPT ![c][g] = Tail(q)]
      BY <1>11 DEF SenderTake
    <3> HIDE DEF q
    <3> QED BY <1>a, <2>2, <3>1
  <2> QED
    BY <1>11, <2>3, <2>4, <1>a, <1>c, <1>j DEF SenderTake, TypeInv, TypeOK
<1>12. ASSUME NEW c \in Channel, NEW g \in Gen, SenderSend(c, g) PROVE TypeInv'
  <2> DEFINE r == sender[c][g].msg
  <2>1. sender[c][g] \in Worker /\ r \in Msg
    BY <1>12, <1>a, WorkerTypes DEF SenderSend, Worker, SenderType
  <2>2. PICK res \in {"delivered", "partial", "none"} :
           /\ Transmit(r, res)
           /\ sender' = [sender EXCEPT ![c][g] = [@ EXCEPT !.pc = "sent", !.res = res]]
    BY <1>12 DEF SenderSend
  <2>3. sender' \in SenderType
    <3>1. [sender[c][g] EXCEPT !.pc = "sent", !.res = res] \in Worker
      BY <1>12, <2>1, WorkerTypes DEF SenderSend, Worker, Result
    <3> QED BY <2>2, <3>1, <1>a, SetWorkerType
  <2>4. /\ wire' \in [Msg -> [Inst -> 0..2]]
        /\ fate' \in [Msg -> SUBSET {"sent", "part", "expired", "dead", "poison"}]
    BY <2>1, <2>2, <1>a, TransmitType
  <2>5. faults' \in 0..MaxMishaps
    BY <1>12, FaultTypes DEF SenderSend, Succeeds
  <2> QED
    BY <1>12, <2>3, <2>4, <2>5, <1>a, <1>c, <1>j, <1>k DEF SenderSend, TypeInv, TypeOK
<1>13. ASSUME NEW c \in Channel, NEW g \in Gen, SenderSettle(c, g) PROVE TypeInv'
  <2>1. sender[c][g].msg \in Msg
    <3>1. sender[c][g] \in Worker /\ sender[c][g].pc = "sent"
      BY <1>13, <1>a DEF SenderSettle, SenderType
    <3> QED BY <3>1, WorkerCases
  <2>2. row' \in Table /\ faults' \in 0..MaxMishaps
    BY <1>13, <2>1, <1>f, SettleType, ReleaseRowType DEF SenderSettle
  <2>3. sender' \in SenderType
    BY <1>13, <1>a, <1>d, SetWorkerType DEF SenderSettle
  <2> QED
    BY <1>13, <2>2, <2>3, <1>a, <1>c, <1>h, <1>i, <1>j, <1>k DEF SenderSettle, TypeInv, TypeOK
<1>14. CASE PumpTick
  BY <1>14, <1>a, <1>c, <1>e, <1>j DEF PumpTick, TypeInv, TypeOK
<1>15. CASE PassClaim
  <2>1. row' \in Table /\ faults' \in 0..MaxMishaps
    BY <1>15, <1>a, <1>g, FaultTypes DEF PassClaim
  <2>2. pass' \in PassType
    <3>1. NextBatch(row) \subseteq Msg
      BY DEF NextBatch, Pending
    <3>2. CASE pass' = [pass EXCEPT !.pc = "item", !.batch = NextBatch(row),
                                    !.mine = @ \cup NextBatch(row)]
      BY <3>1, <3>2, <1>a DEF PassType
    <3> QED BY <1>15, <1>a, <3>2, AbortType DEF PassClaim
  <2> QED
    BY <1>15, <2>1, <2>2, <1>a, <1>c, <1>h, <1>i, <1>j, <1>k DEF PassClaim, TypeInv, TypeOK
<1>16. CASE PassRelease
  <2>1. row' \in Table /\ faults' \in 0..MaxMishaps
    <3>1. pass.mine \in SUBSET Msg
      BY <1>a DEF PassType
    <3> QED BY <1>16, <1>a, <1>f, <3>1, ReleaseIDsKeepsRows, FaultTypes DEF PassRelease, SameRows
  <2> QED
    BY <1>16, <2>1, <1>a, <1>c, <1>e, <1>h, <1>i, <1>j, <1>k DEF PassRelease, TypeInv, TypeOK
<1>17. ASSUME NEW r \in Msg,
              PassPoison(r) \/ PassExpired(r) \/ PassSend(r) \/ PassCount(r) \/ PassSettle(r)
       PROVE  TypeInv'
  <2>1. row' \in Table
    BY <1>17, <1>a, <1>f
       DEF PassPoison, PassExpired, Drop, PassSend, PassCount, PassSettle
  <2>2. faults' \in 0..MaxMishaps
    <3>1. Succeeds \/ Fails
      BY <1>17 DEF PassPoison, PassExpired, Drop, PassSend, PassCount, PassSettle, Succeeds
    <3> QED BY <3>1, FaultTypes
  <2>3. pass' \in PassType
    <3>1. CASE Abort \/ Advance(r, TRUE) \/ Advance(r, FALSE)
      BY <3>1, <1>a, AbortType, AdvanceType
    <3>2. ASSUME NEW res \in {"delivered", "partial", "none"},
                 pass' = [pass EXCEPT !.res = res,
                                      !.pc = IF res = "none" THEN "count" ELSE "settle"]
          PROVE  pass' \in PassType
      BY <3>2, <1>a DEF PassType, Result
    <3>3. ASSUME NEW res \in {"dead", "none"},
                 pass' = [pass EXCEPT !.pc = "settle", !.res = res]
          PROVE  pass' \in PassType
      BY <3>3, <1>a DEF PassType, Result
    <3>4. CASE PassSend(r)
      BY <3>2, <3>4 DEF PassSend
    <3>5. CASE PassCount(r)
      BY <3>1, <3>3, <3>5 DEF PassCount
    <3> QED
      BY <1>17, <3>1, <3>4, <3>5 DEF PassPoison, PassExpired, Drop, PassSettle
  <2>4. /\ wire' \in [Msg -> [Inst -> 0..2]]
        /\ fate' \in [Msg -> SUBSET {"sent", "part", "expired", "dead", "poison"}]
    <3>1. CASE PassSend(r)
      BY <3>1, <1>a, TransmitType DEF PassSend
    <3>2. CASE PassPoison(r) \/ PassExpired(r) \/ PassCount(r) \/ PassSettle(r)
      BY <3>2, <1>a, <1>h, FateType DEF PassPoison, PassExpired, PassCount, PassSettle
    <3> QED BY <1>17, <3>1, <3>2
  <2>5. UNCHANGED <<nextId, proc, src, wired, queue, disp, sender>>
    BY <1>17 DEF PassPoison, PassExpired, PassSend, PassCount, PassSettle
  <2> QED
    BY <2>1, <2>2, <2>3, <2>4, <2>5, <1>a, <1>c, <1>i, <1>j, <1>k DEF TypeInv, TypeOK
<1>18. CASE PumpStop
  BY <1>18, <1>a, <1>c, <1>l DEF PumpStop, Phase, TypeInv, TypeOK, Wiring
<1>19. CASE ShutdownRelease
  <2>1. row' \in Table /\ faults' \in 0..MaxMishaps /\ phase' \in Phase
    BY <1>19, <1>a, <1>g, FaultTypes DEF ShutdownRelease, Phase
  <2>2. Wiring'
    BY <1>19 DEF ShutdownRelease, TypeInv, Wiring
  <2> QED
    BY <1>19, <2>1, <2>2, <1>a, <1>c, <1>h, <1>i, <1>k, <1>l DEF ShutdownRelease, TypeInv, TypeOK
<1>20. CASE ChannelsStop
  <2>1. WiredType'
    BY <1>20, <1>b DEF ChannelsStop, TypeInv, TypeOK, WiredType
  <2> QED
    BY <1>20, <2>1, <1>c DEF ChannelsStop, TypeInv, TypeOK
<1>21. CASE ProcessEnd
  <2>1. pub' \in [Msg -> {"new", "enqueued", "refused", "done"}]
        /\ phase' \in Phase /\ bus' \in Seq(Msg)
    BY <1>21, <1>a DEF ProcessEnd, Phase
  <2>2. /\ queue' \in [Channel -> [Gen -> Seq(Msg)]] /\ disp' \in [Gen -> Worker]
        /\ sender' \in SenderType /\ pass' \in PassType
    BY <1>21, <1>d, <1>e DEF ProcessEnd, SenderType
  <2>3. WiredType' /\ Wiring'
    <3>1. reload' = [busy |-> FALSE, n |-> reload.n]
      BY <1>21, <1>b DEF ProcessEnd
    <3>2. gen' = 0 /\ cur' = 0 /\ present' = {} /\ mapped' = [c \in Channel |-> 0]
      BY <1>21 DEF ProcessEnd
    <3>3. WiredType'
      BY <3>1, <3>2, <1>b DEF WiredType
    <3>4. Wiring'
      BY <3>1, <3>2, <1>b DEF Wiring
    <3> QED BY <3>3, <3>4
  <2> QED
    BY <1>21, <2>1, <2>2, <2>3, <1>a, <1>c, <1>j, <1>l DEF ProcessEnd, TypeInv, TypeOK
<1>22. CASE Age
  BY <1>22, <1>a, <1>c, <1>g, <1>i DEF Age, TypeInv, TypeOK
<1>23. CASE UNCHANGED vars
  BY <1>23, <1>c DEF vars, TypeInv, TypeOK
<1> QED
  BY <1>1, <1>2, <1>3, <1>4, <1>5, <1>6, <1>7, <1>8, <1>9, <1>10, <1>11, <1>12, <1>13, <1>14, <1>15, <1>16, <1>17, <1>18, <1>19, <1>20, <1>21, <1>22, <1>23
     DEF Next, Publish, Dispatch, Sender, PassStep

LEMMA TypeInit == Init => TypeInv
<1> SUFFICES ASSUME Init PROVE TypeInv
  OBVIOUS
<1>a. MaxMishaps \in Nat /\ MaxBoots \in Nat
  BY OutboundAssumption
<1>1. DiskType
  BY DEF Init, DiskType, Row, NoRow, Nobody
<1>2. ProcType
  BY <1>a, OutboundAssumption DEF Init, ProcType, Phase
<1>3. WiredType /\ Wiring
  BY <1>a DEF Init, WiredType, Wiring
<1>4. WorkType
  BY WorkerTypes DEF Init, WorkType, NoPass, Result
<1>5. GhostType
  BY <1>a DEF Init, GhostType
<1> QED BY <1>1, <1>2, <1>3, <1>4, <1>5 DEF TypeInv, TypeOK

\* The spool, the bus, the queues, the dispatchers of every generation and the
\* pass keep their types, whatever the capacities, the reloads and the
\* failures: a reload never starts more generations than there were reloads.
THEOREM TypeCorrect == Spec => []TypeOK
<1>1. TypeInv => TypeOK
  BY DEF TypeInv
<1> QED BY <1>1, TypeInit, TypeStep, PTL DEF Spec

-----------------------------------------------------------------------------
(* Where the copies of a reply are *)

AtNew(r) == pub[r] = "new"
AtPublisher(r) == pub[r] \in {"enqueued", "refused"}
OnBus(r) == In(bus, r)
Routed(r) == \E g \in Gen : disp[g].msg = r
InQueue(r) == \E c \in Channel, g \in Gen : In(queue[c][g], r)
AtSender(r) == \E c \in Channel, g \in Gen : sender[c][g].msg = r
InPass(r) == r \in pass.mine

Stage == {"new", "publisher", "bus", "routed", "queue", "sender", "pass"}

\* The stages of its life in this process at which a reply has a copy; a pass
\* has what it has claimed, the rows it is done with included.
Stages(r) == {s \in Stage : \/ s = "new" /\ AtNew(r)
                            \/ s = "publisher" /\ AtPublisher(r)
                            \/ s = "bus" /\ OnBus(r)
                            \/ s = "routed" /\ Routed(r)
                            \/ s = "queue" /\ InQueue(r)
                            \/ s = "sender" /\ AtSender(r)
                            \/ s = "pass" /\ InPass(r)}

Outside == {"publisher", "bus", "routed", "queue", "sender"}

OneStage == \A r \in Msg : \A s, t \in Stages(r) : s = t

\* No stage has a reply twice.
NoTwins ==
    /\ Distinct(bus)
    /\ \A g, h \in Gen : disp[g].msg \in Msg /\ disp[g].msg = disp[h].msg => g = h
    /\ \A c \in Channel, g \in Gen : Distinct(queue[c][g])
    /\ \A r \in Msg : \A c, d \in Channel, g, h \in Gen :
          In(queue[c][g], r) /\ In(queue[d][h], r) => c = d /\ g = h
    /\ \A c, d \in Channel, g, h \in Gen :
          sender[c][g].msg \in Msg /\ sender[c][g].msg = sender[d][h].msg => c = d /\ g = h

\* A generation that has not been started holds nothing, nor does a pass that
\* is off.
Unstarted ==
    /\ \A g \in Gen : g > gen => /\ disp[g] = Off
                                 /\ \A c \in Channel : sender[c][g] = Off
    /\ phase \in {"down", "boot"} => gen = 0
    /\ pass.pc = "off" => pass = NoPass
    /\ phase \in {"down", "boot", "released"} => pass.pc = "off"
    /\ pass.batch \subseteq pass.mine

\* Reply r goes from stage s to those of T, one or none, and no other moves.
Moves(r, s, T) ==
    /\ Stages(r) = {s}
    /\ Stages(r)' = T
    /\ \A k \in Msg \ {r} : Stages(k)' = Stages(k)

Stays == \A k \in Msg : Stages(k)' = Stages(k)

\* A stage nothing is done to keeps what it has.
LEMMA StagesAre ==
    ASSUME NEW k \in Msg
    PROVE  /\ UNCHANGED pub => (AtNew(k)' <=> AtNew(k)) /\ (AtPublisher(k)' <=> AtPublisher(k))
           /\ UNCHANGED bus => (OnBus(k)' <=> OnBus(k))
           /\ UNCHANGED disp => (Routed(k)' <=> Routed(k))
           /\ UNCHANGED queue => (InQueue(k)' <=> InQueue(k))
           /\ UNCHANGED sender => (AtSender(k)' <=> AtSender(k))
           /\ pass'.mine = pass.mine => (InPass(k)' <=> InPass(k))
BY DEF AtNew, AtPublisher, OnBus, Routed, InQueue, AtSender, InPass

LEMMA AllStay ==
    ASSUME UNCHANGED <<pub, bus, disp, queue, sender>>, pass'.mine = pass.mine
    PROVE  Stays
BY StagesAre DEF Stays, Stages

LEMMA OnlyStage ==
    ASSUME OneStage, NEW r \in Msg, NEW s \in Stages(r)
    PROVE  Stages(r) = {s}
BY DEF OneStage

LEMMA PublishSpoolMoves ==
    ASSUME TypeInv, OneStage, NEW r \in Msg, PublishSpool(r)
    PROVE  Moves(r, "new", {"publisher"})
<1> USE DEF disk, proc, src, wired, ghost
<1>1. pub' = [pub EXCEPT ![r] = "enqueued"] /\ pub[r] = "new"
  BY DEF PublishSpool
<1>2. \A k \in Msg : /\ AtNew(k)' <=> AtNew(k) /\ k # r
                     /\ AtPublisher(k)' <=> AtPublisher(k) \/ k = r
  BY <1>1 DEF AtNew, AtPublisher, TypeInv, TypeOK, ProcType
<1>3. UNCHANGED <<bus, disp, queue, sender, pass>>
  BY DEF PublishSpool
<1>4. "new" \in Stages(r)
  BY <1>1 DEF Stages, Stage, AtNew
<1>5. Stages(r) = {"new"}
  BY <1>4, OnlyStage
<1> QED BY <1>2, <1>3, <1>5, StagesAre DEF Moves, Stages, Stage

LEMMA PublishBusMoves ==
    ASSUME TypeInv, OneStage, NoTwins, NEW r \in Msg, PublishBus(r)
    PROVE  (Moves(r, "publisher", {"bus"}) \/ Stays) /\ Distinct(bus)'
<1> USE DEF disk, proc, src, wired, ghost
<1>1. bus \in Seq(Msg) /\ pub \in [Msg -> {"new", "enqueued", "refused", "done"}]
  BY DEF TypeInv, TypeOK, ProcType
<1>2. pub[r] = "enqueued" /\ UNCHANGED <<disp, queue, sender, pass>>
  BY DEF PublishBus
<1>3. "publisher" \in Stages(r)
  BY <1>2 DEF Stages, Stage, AtPublisher
<1>4. Stages(r) = {"publisher"}
  BY <1>3, OnlyStage
<1>5. ~OnBus(r)
  BY <1>4 DEF Stages, Stage
<1>6. CASE bus' = Append(bus, r) /\ pub' = [pub EXCEPT ![r] = "done"]
  <2>1. \A k \in Msg : /\ AtNew(k)' <=> AtNew(k)
                       /\ AtPublisher(k)' <=> AtPublisher(k) /\ k # r
    BY <1>1, <1>2, <1>6 DEF AtNew, AtPublisher
  <2>2. \A k \in Msg : OnBus(k)' <=> OnBus(k) \/ k = r
    BY <1>1, <1>6, AppendIn DEF OnBus
  <2>3. Distinct(bus)'
    BY <1>1, <1>5, <1>6, AppendIn DEF OnBus, NoTwins
  <2> QED BY <2>1, <2>2, <2>3, <1>2, <1>4, StagesAre DEF Moves, Stages, Stage
<1>7. CASE UNCHANGED bus /\ pub' = [pub EXCEPT ![r] = "refused"]
  <2>1. \A k \in Msg : /\ AtNew(k)' <=> AtNew(k)
                       /\ AtPublisher(k)' <=> AtPublisher(k)
    BY <1>1, <1>2, <1>7 DEF AtNew, AtPublisher
  <2> QED BY <2>1, <1>2, <1>7, StagesAre DEF Stays, Stages, Stage, NoTwins
<1> QED BY <1>6, <1>7 DEF PublishBus

LEMMA PublishReleaseMoves ==
    ASSUME TypeInv, OneStage, NEW r \in Msg, PublishRelease(r)
    PROVE  Moves(r, "publisher", {})
<1> USE DEF disk, proc, src, wired, ghost
<1>1. pub \in [Msg -> {"new", "enqueued", "refused", "done"}]
  BY DEF TypeInv, TypeOK, ProcType
<1>2. /\ pub' = [pub EXCEPT ![r] = "done"] /\ pub[r] = "refused"
      /\ UNCHANGED <<bus, disp, queue, sender, pass>>
  BY DEF PublishRelease
<1>3. "publisher" \in Stages(r)
  BY <1>2 DEF Stages, Stage, AtPublisher
<1>4. Stages(r) = {"publisher"}
  BY <1>3, OnlyStage
<1>5. \A k \in Msg : /\ AtNew(k)' <=> AtNew(k)
                     /\ AtPublisher(k)' <=> AtPublisher(k) /\ k # r
  BY <1>1, <1>2 DEF AtNew, AtPublisher
<1> QED BY <1>2, <1>4, <1>5, StagesAre DEF Moves, Stages, Stage

LEMMA DispatchTakeMoves ==
    ASSUME TypeInv, OneStage, NoTwins, NEW g \in Gen, DispatchTake(g), NEW r, r = Head(bus)
    PROVE  /\ r \in Msg
           /\ Moves(r, "bus", {"routed"})
           /\ NoTwins'
           /\ disp'[g].pc = "got" /\ \A h \in Gen \ {g} : disp'[h] = disp[h]
<1> USE DEF disk, proc, src, wired, ghost
<1>1. bus \in Seq(Msg) /\ bus # <<>> /\ Distinct(bus) /\ disp \in [Gen -> Worker]
  BY DEF TypeInv, TypeOK, ProcType, WorkType, DispatchTake, NoTwins
<1>2. /\ r \in Msg /\ In(bus, r) /\ Distinct(Tail(bus))
      /\ \A k : In(Tail(bus), k) <=> In(bus, k) /\ k # r
  BY <1>1, TailIn
<1>3. disp[g] = Idle /\ disp[g].msg = NoMsg
  <2>1. disp[g] \in Worker /\ disp[g].pc = "idle"
    BY <1>1 DEF DispatchTake
  <2> QED BY <2>1, WorkerCases, WorkerTypes
<1>4. /\ disp'[g] = [pc |-> "got", msg |-> r, res |-> "none"]
      /\ \A h \in Gen \ {g} : disp'[h] = disp[h]
  <2>1. [disp[g] EXCEPT !.pc = "got", !.msg = r] = [pc |-> "got", msg |-> r, res |-> "none"]
    BY <1>2, <1>3, Taken
  <2>2. disp' = [disp EXCEPT ![g] = [pc |-> "got", msg |-> r, res |-> "none"]]
    BY <2>1 DEF DispatchTake
  <2> QED BY <1>1, <2>2
<1>5. bus' = Tail(bus) /\ UNCHANGED <<pub, queue, sender, pass>>
  BY DEF DispatchTake
<1>6. disp'[g].msg = r
  BY <1>4
<1>7. "bus" \in Stages(r)
  BY <1>2 DEF Stages, Stage, OnBus
<1>8. Stages(r) = {"bus"}
  BY <1>2, <1>7, OnlyStage
<1>9. ~Routed(r)
  BY <1>8 DEF Stages, Stage
<1>10. \A k \in Msg : /\ OnBus(k)' <=> OnBus(k) /\ k # r
                      /\ Routed(k)' <=> Routed(k) \/ k = r
  <2>1. \A k \in Msg : OnBus(k)' <=> OnBus(k) /\ k # r
    BY <1>2, <1>5 DEF OnBus
  <2>2. ASSUME NEW k \in Msg PROVE Routed(k)' <=> Routed(k) \/ k = r
    <3>1. k # NoMsg
      BY WorkerTypes
    <3> QED BY <3>1, <1>3, <1>4, <1>6 DEF Routed
  <2> QED BY <2>1, <2>2
<1>11. Moves(r, "bus", {"routed"})
  <2>1. r \in Msg /\ UNCHANGED <<pub, queue, sender, pass>>
    BY <1>2, <1>5
  <2> QED BY <2>1, <1>8, <1>10, StagesAre DEF Moves, Stages, Stage
<1>12. NoTwins'
  <2>1. \A h, i \in Gen : disp'[h].msg \in Msg /\ disp'[h].msg = disp'[i].msg => h = i
    BY <1>4, <1>6, <1>9 DEF NoTwins, Routed
  <2> QED BY <2>1, <1>2, <1>5 DEF NoTwins
<1> QED BY <1>2, <1>4, <1>11, <1>12

LEMMA DispatchRouteMoves ==
    ASSUME TypeInv, OneStage, NoTwins, NEW g \in Gen, DispatchRoute(g),
           NEW r, r = disp[g].msg
    PROVE  /\ r \in Msg
           /\ \/ Moves(r, "routed", {"queue"}) /\ UNCHANGED <<row, faults>>
              \/ Moves(r, "routed", {}) /\ ReleaseRow(r)
           /\ NoTwins'
<1> USE DEF disk, proc, src, wired, ghost
<1>1. /\ disp \in [Gen -> Worker] /\ queue \in [Channel -> [Gen -> Seq(Msg)]]
      /\ to \in [Msg -> Channel] /\ mapped \in [Channel -> 0..(MaxMishaps + 1)]
      /\ MaxMishaps \in Nat
  BY GenBounds DEF TypeInv, TypeOK, ProcType, WiredType, WorkType
<1>2. r \in Msg
  BY <1>1, WorkerCases DEF DispatchRoute
<1>3. UNCHANGED <<pub, bus, sender, pass>>
  BY DEF DispatchRoute
<1>4. disp'[g].msg = NoMsg /\ \A h \in Gen \ {g} : disp'[h] = disp[h]
  <2>1. disp' = [disp EXCEPT ![g] = IF g = cur THEN Idle ELSE Off]
    BY DEF DispatchRoute
  <2>2. disp'[g] \in {Idle, Off} /\ \A h \in Gen \ {g} : disp'[h] = disp[h]
    BY <1>1, <2>1
  <2> QED BY <2>2, WorkerTypes
<1>5. "routed" \in Stages(r)
  BY DEF Stages, Stage, Routed
<1>6. Stages(r) = {"routed"}
  BY <1>2, <1>5, OnlyStage
<1>7. \A k \in Msg : Routed(k)' <=> Routed(k) /\ k # r
  BY <1>1, <1>2, <1>4, WorkerTypes DEF Routed, NoTwins
<1>8. \A h, i \in Gen : disp'[h].msg \in Msg /\ disp'[h].msg = disp'[i].msg => h = i
  BY <1>4, WorkerTypes DEF NoTwins
<1>9. CASE ReleaseRow(r) /\ UNCHANGED queue
  <2>1. Moves(r, "routed", {})
    BY <1>2, <1>3, <1>6, <1>7, <1>9, StagesAre DEF Moves, Stages, Stage
  <2>2. NoTwins'
    BY <1>3, <1>8, <1>9 DEF NoTwins
  <2> QED BY <2>1, <2>2, <1>2, <1>9
<1>10. CASE /\ mapped[to[r]] # 0
            /\ queue' = [queue EXCEPT ![to[r]][mapped[to[r]]] = Append(@, r)]
            /\ UNCHANGED <<row, faults>>
  <2> DEFINE c == to[r]
             q == mapped[c]
  <2>1. c \in Channel /\ q \in Gen
    BY <1>1, <1>2, <1>10 DEF Gen
  <2> HIDE DEF c, q
  <2>2. queue' = [queue EXCEPT ![c][q] = Append(queue[c][q], r)]
    BY <1>10 DEF c, q
  <2>3. queue[c][q] \in Seq(Msg)
    BY <1>1, <2>1
  <2>4. queue'[c][q] = Append(queue[c][q], r)
    BY <1>1, <2>1, <2>2
  <2>5. \A d \in Channel, h \in Gen : d # c \/ h # q => queue'[d][h] = queue[d][h]
    BY <1>1, <2>1, <2>2
  <2>6. \A k : In(queue'[c][q], k) <=> In(queue[c][q], k) \/ k = r
    BY <2>3, <2>4, <1>2, AppendIn
  <2>7. ~InQueue(r)
    BY <1>6 DEF Stages, Stage
  <2>8. Distinct(queue'[c][q])
    BY <2>1, <2>3, <2>4, <2>7, <1>2, AppendIn DEF InQueue, NoTwins
  <2>9. \A k \in Msg : InQueue(k)' <=> InQueue(k) \/ k = r
    BY <2>1, <2>5, <2>6 DEF InQueue
  <2>10. Moves(r, "routed", {"queue"})
    BY <1>2, <1>3, <1>6, <1>7, <2>9, StagesAre DEF Moves, Stages, Stage
  <2>11. NoTwins'
    <3>1. \A d \in Channel, h \in Gen : Distinct(queue'[d][h])
      BY <2>5, <2>8 DEF NoTwins
    <3>2. ASSUME NEW k \in Msg, NEW d \in Channel, NEW e \in Channel, NEW h \in Gen, NEW i \in Gen,
                 In(queue'[d][h], k), In(queue'[e][i], k)
          PROVE  d = e /\ h = i
      <4>1. ASSUME NEW x \in Channel, NEW y \in Gen, In(queue'[x][y], k)
            PROVE  In(queue[x][y], k) \/ (k = r /\ x = c /\ y = q)
        BY <4>1, <2>5, <2>6
      <4>2. k = r => ~In(queue[d][h], k) /\ ~In(queue[e][i], k)
        BY <2>7 DEF InQueue
      <4> QED BY <3>2, <4>1, <4>2 DEF NoTwins
    <3> QED BY <3>1, <3>2, <1>3, <1>8 DEF NoTwins
  <2> QED BY <2>10, <2>11, <1>2, <1>10
<1> QED BY <1>9, <1>10 DEF DispatchRoute

LEMMA SenderTakeMoves ==
    ASSUME TypeInv, OneStage, NoTwins, NEW c \in Channel, NEW g \in Gen, SenderTake(c, g),
           NEW r, r = Head(queue[c][g])
    PROVE  /\ r \in Msg
           /\ Moves(r, "queue", {"sender"})
           /\ NoTwins'
           /\ sender'[c][g] = [pc |-> "got", msg |-> r, res |-> "none"]
           /\ \A d \in Channel, h \in Gen : d # c \/ h # g => sender'[d][h] = sender[d][h]
<1> USE DEF disk, proc, src, wired, ghost
<1> DEFINE q == queue[c][g]
<1>1. /\ queue \in [Channel -> [Gen -> Seq(Msg)]] /\ sender \in SenderType
      /\ q \in Seq(Msg) /\ q # <<>> /\ Distinct(q)
  BY DEF TypeInv, TypeOK, WorkType, SenderType, SenderTake, NoTwins
<1>2. /\ r \in Msg /\ In(q, r) /\ Distinct(Tail(q))
      /\ \A k : In(Tail(q), k) <=> In(q, k) /\ k # r
  BY <1>1, TailIn
<1>3. sender[c][g] = Idle /\ sender[c][g].msg = NoMsg
  <2>1. sender[c][g] \in Worker /\ sender[c][g].pc = "idle"
    BY <1>1 DEF SenderTake, SenderType
  <2> QED BY <2>1, WorkerCases, WorkerTypes
<1>4. /\ sender'[c][g] = [pc |-> "got", msg |-> r, res |-> "none"]
      /\ \A d \in Channel, h \in Gen : d # c \/ h # g => sender'[d][h] = sender[d][h]
  <2>1. [sender[c][g] EXCEPT !.pc = "got", !.msg = r] = [pc |-> "got", msg |-> r, res |-> "none"]
    BY <1>2, <1>3, Taken
  <2> DEFINE w == [pc |-> "got", msg |-> r, res |-> "none"]
  <2>2. sender' = [sender EXCEPT ![c][g] = w]
    BY <2>1 DEF SenderTake
  <2> HIDE DEF w
  <2>4. /\ sender'[c][g] = w
        /\ \A d \in Channel, h \in Gen : d # c \/ h # g => sender'[d][h] = sender[d][h]
    BY <2>2, <1>1 DEF SenderType
  <2> QED BY <2>4 DEF w
<1>5. UNCHANGED <<pub, bus, disp, pass>>
  BY DEF SenderTake
<1>6. /\ queue'[c][g] = Tail(q)
      /\ \A d \in Channel, h \in Gen : d # c \/ h # g => queue'[d][h] = queue[d][h]
  <2>1. queue' = [queue EXCEPT ![c][g] = Tail(q)]
    BY DEF SenderTake
  <2> HIDE DEF q
  <2> QED BY <1>1, <2>1
<1> HIDE DEF q
<1>7. In(queue[c][g], r)
  BY <1>2 DEF q
<1>8. "queue" \in Stages(r)
  BY <1>7 DEF Stages, Stage, InQueue
<1>9. Stages(r) = {"queue"}
  BY <1>2, <1>8, OnlyStage
<1>10. ~AtSender(r)
  BY <1>9 DEF Stages, Stage
<1>11. \A k : In(queue'[c][g], k) <=> In(queue[c][g], k) /\ k # r
  BY <1>2, <1>6 DEF q
<1>12. ASSUME NEW k \in Msg PROVE InQueue(k)' <=> InQueue(k) /\ k # r
  <2>1. \A d \in Channel, h \in Gen : d # c \/ h # g => ~In(queue[d][h], r)
    BY <1>2, <1>7 DEF NoTwins
  <2> QED BY <2>1, <1>6, <1>11 DEF InQueue
<1>13. ASSUME NEW k \in Msg PROVE AtSender(k)' <=> AtSender(k) \/ k = r
  <2>1. k # NoMsg
    BY WorkerTypes
  <2> QED BY <2>1, <1>3, <1>4 DEF AtSender
<1>14. Moves(r, "queue", {"sender"})
  <2>1. r \in Msg
    BY <1>2
  <2> QED BY <2>1, <1>5, <1>9, <1>12, <1>13, StagesAre DEF Moves, Stages, Stage
<1>15. NoTwins'
  <2>1. \A d \in Channel, h \in Gen : Distinct(queue'[d][h])
    BY <1>2, <1>6 DEF NoTwins
  <2>2. ASSUME NEW k \in Msg, NEW d \in Channel, NEW e \in Channel, NEW h \in Gen, NEW i \in Gen,
               In(queue'[d][h], k), In(queue'[e][i], k)
        PROVE  d = e /\ h = i
    <3>1. ASSUME NEW x \in Channel, NEW y \in Gen, In(queue'[x][y], k) PROVE In(queue[x][y], k)
      BY <3>1, <1>6, <1>11
    <3> QED BY <2>2, <3>1 DEF NoTwins
  <2>3. ASSUME NEW d \in Channel, NEW e \in Channel, NEW h \in Gen, NEW i \in Gen,
               sender'[d][h].msg \in Msg, sender'[d][h].msg = sender'[e][i].msg
        PROVE  d = e /\ h = i
    <3>1. sender'[c][g].msg = r
      BY <1>4
    <3>2. CASE sender'[d][h].msg = r
      <4>1. \A x \in Channel, y \in Gen : x # c \/ y # g => sender'[x][y].msg # r
        BY <1>4, <1>10 DEF AtSender
      <4> QED BY <2>3, <3>2, <4>1
    <3>3. CASE sender'[d][h].msg # r
      BY <2>3, <3>1, <3>3, <1>4 DEF NoTwins
    <3> QED BY <3>2, <3>3
  <2> QED BY <2>1, <2>2, <2>3, <1>5 DEF NoTwins
<1> QED BY <1>2, <1>4, <1>14, <1>15

LEMMA SenderSendMoves ==
    ASSUME TypeInv, OneStage, NoTwins, NEW c \in Channel, NEW g \in Gen, SenderSend(c, g),
           NEW r, r = sender[c][g].msg
    PROVE  /\ r \in Msg
           /\ Stages(r) = {"sender"} /\ Stays /\ NoTwins'
           /\ \E res \in {"delivered", "partial", "none"} :
                 /\ Transmit(r, res)
                 /\ sender'[c][g] = [pc |-> "sent", msg |-> r, res |-> res]
           /\ \A d \in Channel, h \in Gen : d # c \/ h # g => sender'[d][h] = sender[d][h]
<1> USE DEF disk, proc, src, wired, ghost
<1>1. sender[c][g] \in Worker /\ sender[c][g].pc = "got"
  BY DEF TypeInv, TypeOK, WorkType, SenderSend
<1>2. r \in Msg /\ sender[c][g] = [pc |-> "got", msg |-> r, res |-> sender[c][g].res]
  BY <1>1, WorkerCases
<1>3. PICK res \in {"delivered", "partial", "none"} :
         /\ Transmit(r, res)
         /\ sender' = [sender EXCEPT ![c][g] = [@ EXCEPT !.pc = "sent", !.res = res]]
  BY DEF SenderSend
<1>4. [sender[c][g] EXCEPT !.pc = "sent", !.res = res] = [pc |-> "sent", msg |-> r, res |-> res]
  <2> DEFINE v == sender[c][g].res
  <2>1. sender[c][g] \in [pc : {"got"}, msg : {r}, res : {v}]
    BY <1>2
  <2>2. [sender[c][g] EXCEPT !.pc = "sent", !.res = res]
          \in [pc : {"sent"}, msg : {r}, res : {res}]
    BY <2>1
  <2>3. \A w \in [pc : {"sent"}, msg : {r}, res : {res}] :
           w = [pc |-> "sent", msg |-> r, res |-> res]
    OBVIOUS
  <2> QED BY <2>2, <2>3
<1>5. /\ sender'[c][g] = [pc |-> "sent", msg |-> r, res |-> res]
      /\ \A d \in Channel, h \in Gen : d # c \/ h # g => sender'[d][h] = sender[d][h]
  <2>0. sender \in [Channel -> [Gen -> Worker]]
    BY DEF TypeInv, TypeOK, WorkType
  <2> DEFINE w == [pc |-> "sent", msg |-> r, res |-> res]
  <2>1. sender' = [sender EXCEPT ![c][g] = w]
    BY <1>3, <1>4
  <2> HIDE DEF w
  <2>3. /\ sender'[c][g] = w
        /\ \A d \in Channel, h \in Gen : d # c \/ h # g => sender'[d][h] = sender[d][h]
    BY <2>1, <2>0
  <2> QED BY <2>3 DEF w
<1>6. UNCHANGED <<pub, bus, queue, disp, pass>>
  BY DEF SenderSend
<1>7. \A d \in Channel, h \in Gen : sender'[d][h].msg = sender[d][h].msg
  <2>1. sender'[c][g].msg = r
    BY <1>5
  <2> QED BY <2>1, <1>5
<1>8. Stays
  <2>1. \A k \in Msg : AtSender(k)' <=> AtSender(k)
    BY <1>7 DEF AtSender
  <2> QED BY <2>1, <1>6, StagesAre DEF Stays, Stages, Stage
<1>9. NoTwins'
  BY <1>6, <1>7 DEF NoTwins
<1>10. "sender" \in Stages(r)
  BY DEF Stages, Stage, AtSender
<1> QED BY <1>2, <1>3, <1>5, <1>8, <1>9, <1>10, OnlyStage

LEMMA SenderSettleMoves ==
    ASSUME TypeInv, OneStage, NoTwins, NEW c \in Channel, NEW g \in Gen, SenderSettle(c, g),
           NEW r, r = sender[c][g].msg
    PROVE  /\ r \in Msg
           /\ Moves(r, "sender", {})
           /\ NoTwins'
           /\ sender'[c][g] = Idle
           /\ \A d \in Channel, h \in Gen : d # c \/ h # g => sender'[d][h] = sender[d][h]
<1> USE DEF disk, proc, src, wired, ghost
<1>1. sender[c][g] \in Worker /\ sender[c][g].pc = "sent"
  BY DEF TypeInv, TypeOK, WorkType, SenderSettle
<1>2. r \in Msg
  BY <1>1, WorkerCases
<1>3. /\ sender'[c][g] = Idle
      /\ \A d \in Channel, h \in Gen : d # c \/ h # g => sender'[d][h] = sender[d][h]
  <2>1. sender' = [sender EXCEPT ![c][g] = Idle]
    BY DEF SenderSettle
  <2>2. sender \in [Channel -> [Gen -> Worker]]
    BY DEF TypeInv, TypeOK, WorkType
  <2> QED BY <2>1, <2>2
<1>4. UNCHANGED <<pub, bus, queue, disp, pass>>
  BY DEF SenderSettle
<1>5. sender'[c][g].msg = NoMsg
  BY <1>3, WorkerTypes
<1>6. "sender" \in Stages(r)
  BY DEF Stages, Stage, AtSender
<1>7. Stages(r) = {"sender"}
  BY <1>2, <1>6, OnlyStage
<1>8. ASSUME NEW k \in Msg PROVE AtSender(k)' <=> AtSender(k) /\ k # r
  <2>1. \A d \in Channel, h \in Gen : d # c \/ h # g => sender[d][h].msg # r
    BY <1>2 DEF NoTwins
  <2> QED BY <2>1, <1>3, <1>5, WorkerTypes DEF AtSender
<1>9. Moves(r, "sender", {})
  BY <1>2, <1>4, <1>7, <1>8, StagesAre DEF Moves, Stages, Stage
<1>10. NoTwins'
  <2>1. ASSUME NEW d \in Channel, NEW e \in Channel, NEW h \in Gen, NEW i \in Gen,
               sender'[d][h].msg \in Msg, sender'[d][h].msg = sender'[e][i].msg
        PROVE  d = e /\ h = i
    BY <2>1, <1>3, <1>5, WorkerTypes DEF NoTwins
  <2> QED BY <2>1, <1>4 DEF NoTwins
<1> QED BY <1>2, <1>3, <1>9, <1>10

PassRow(r) == PassPoison(r) \/ PassExpired(r) \/ PassSend(r) \/ PassCount(r) \/ PassSettle(r)

LEMMA AdvanceDoes ==
    ASSUME TypeInv, NEW r \in Msg, NEW d \in BOOLEAN, Advance(r, d)
    PROVE  /\ pass'.mine = pass.mine /\ pass'.batch = pass.batch \ {r}
           /\ pass'.res = "none" /\ pass'.pc \in {"item", "release", "claim"}
BY DEF TypeInv, TypeOK, WorkType, Advance

LEMMA AbortDoes ==
    ASSUME TypeInv, Abort
    PROVE  pass'.mine = pass.mine /\ pass'.batch = {} /\ pass'.pc = "release"
BY DEF TypeInv, TypeOK, WorkType, Abort

\* A step of the pass on a row claims nothing, and keeps the claims in mind.
LEMMA PassRowDoes ==
    ASSUME TypeInv, NEW r \in Msg, PassRow(r)
    PROVE  /\ pass'.mine = pass.mine /\ pass'.batch \subseteq pass.batch
           /\ pass'.pc # "off" /\ pass.pc \notin {"off", "claim"} /\ Oldest(r)
           /\ UNCHANGED <<nextId, phase, inst, pub, to, bus, wired, queue, disp, sender>>
<1> USE DEF disk, proc, src
<1>1. Oldest(r) /\ pass.pc \notin {"off", "claim"}
      /\ UNCHANGED <<nextId, phase, inst, pub, to, bus, wired, queue, disp, sender>>
  BY DEF PassRow, PassPoison, PassExpired, PassSend, PassCount, PassSettle
<1>2. CASE Abort \/ Advance(r, TRUE) \/ Advance(r, FALSE)
  BY <1>1, <1>2, AbortDoes, AdvanceDoes
<1>3. CASE PassSend(r)
  BY <1>1, <1>3 DEF PassSend, TypeInv, TypeOK, WorkType
<1>4. CASE PassCount(r)
  <2>1. CASE pass' = [pass EXCEPT !.pc = "settle",
                                  !.res = IF row[r].attempts + 1 >= MaxAttempts
                                          THEN "dead" ELSE "none"]
    BY <1>1, <2>1 DEF TypeInv, TypeOK, WorkType
  <2> QED BY <1>2, <1>4, <2>1 DEF PassCount
<1> QED
  BY <1>2, <1>3, <1>4 DEF PassRow, PassPoison, PassExpired, Drop, PassSettle

LEMMA PassClaimDoes ==
    ASSUME TypeInv, PassClaim
    PROVE  /\ \/ /\ pass'.mine = pass.mine /\ pass'.batch = {} /\ pass'.pc = "release"
                 /\ UNCHANGED row
              \/ /\ pass'.mine = pass.mine \cup NextBatch(row) /\ pass'.batch = NextBatch(row)
                 /\ pass'.pc = "item" /\ row' = ClaimBatch(row, inst)
                 /\ phase \in {"drain", "live"}
           /\ UNCHANGED <<nextId, phase, inst, pub, to, bus, wired, queue, disp, sender>>
<1> USE DEF disk, proc, src
<1>1. UNCHANGED <<nextId, phase, inst, pub, to, bus, wired, queue, disp, sender>>
  BY DEF PassClaim
<1>2. CASE Abort /\ UNCHANGED row
  BY <1>1, <1>2, AbortDoes
<1>3. CASE /\ pass' = [pass EXCEPT !.pc = "item", !.batch = NextBatch(row),
                                   !.mine = @ \cup NextBatch(row)]
           /\ row' = ClaimBatch(row, inst) /\ phase \in {"drain", "live"}
  BY <1>1, <1>3 DEF TypeInv, TypeOK, WorkType
<1> QED BY <1>2, <1>3 DEF PassClaim

\* Every generation started takes the place of one that holds nothing.
LEMMA StartKeepsWork ==
    ASSUME TypeInv, Unstarted, NEW n \in Gen, n > gen, NEW S \in SUBSET Channel,
           Start(n, S) \/ UNCHANGED <<gen, cur, disp, sender>>
    PROVE  /\ \A g \in Gen : disp'[g].msg = disp[g].msg
           /\ \A c \in Channel, g \in Gen : /\ sender'[c][g].msg = sender[c][g].msg
                                            /\ \/ sender'[c][g] = sender[c][g]
                                               \/ sender'[c][g] = Idle /\ sender[c][g] = Off
           /\ \A g \in Gen : g > gen' => /\ disp'[g] = Off
                                         /\ \A c \in Channel : sender'[c][g] = Off
           /\ gen' \in {gen, n}
<1>a. gen \in Nat /\ Gen \subseteq Nat
  BY GenBounds DEF Gen
<1>1. CASE UNCHANGED <<gen, cur, disp, sender>>
  BY <1>1 DEF Unstarted
<1>2. CASE Start(n, S)
  <2>1. /\ gen' = n /\ disp' = [disp EXCEPT ![n] = Idle]
        /\ sender' = [c \in Channel |-> IF c \in S THEN [sender[c] EXCEPT ![n] = Idle] ELSE sender[c]]
    BY <1>2 DEF Start
  <2>2. disp \in [Gen -> Worker] /\ sender \in [Channel -> [Gen -> Worker]]
    BY DEF TypeInv, TypeOK, WorkType
  <2>3. disp'[n] = Idle /\ \A g \in Gen \ {n} : disp'[g] = disp[g]
    BY <2>1, <2>2
  <2>4. ASSUME NEW c \in Channel
        PROVE  /\ \A g \in Gen \ {n} : sender'[c][g] = sender[c][g]
               /\ sender'[c][n] \in {Idle, sender[c][n]}
    <3>1. sender[c] \in [Gen -> Worker]
      BY <2>2
    <3>2. sender'[c] = [sender[c] EXCEPT ![n] = Idle] \/ sender'[c] = sender[c]
      BY <2>1
    <3> QED BY <3>1, <3>2
  <2>5. disp[n] = Off /\ \A c \in Channel : sender[c][n] = Off
    BY DEF Unstarted
  <2>6. Off.msg = Idle.msg
    BY WorkerTypes
  <2>7. \A g \in Gen : disp'[g].msg = disp[g].msg
    BY <2>3, <2>5, <2>6
  <2>8. \A c \in Channel, g \in Gen : \/ sender'[c][g] = sender[c][g]
                                      \/ sender'[c][g] = Idle /\ sender[c][g] = Off
    BY <2>4, <2>5
  <2>9. \A g \in Gen : g > n => g # n /\ g > gen
    BY <1>a
  <2>10. \A g \in Gen : g > n => disp'[g] = Off /\ \A c \in Channel : sender'[c][g] = Off
    BY <2>3, <2>4, <2>9 DEF Unstarted
  <2> QED BY <2>1, <2>6, <2>7, <2>8, <2>10
<1> QED BY <1>1, <1>2

\* A process that starts dispatchers, and a reload that replaces them, move no
\* reply.
LEMMA StartStays ==
    ASSUME TypeInv, NoTwins, UNCHANGED <<pub, bus, queue>>, pass'.mine = pass.mine,
           \A g \in Gen : disp'[g].msg = disp[g].msg,
           \A c \in Channel, g \in Gen : sender'[c][g].msg = sender[c][g].msg
    PROVE  Stays /\ NoTwins'
<1>1. \A k \in Msg : (Routed(k)' <=> Routed(k)) /\ (AtSender(k)' <=> AtSender(k))
  BY DEF Routed, AtSender
<1>2. Stays
  BY <1>1, StagesAre DEF Stays, Stages, Stage
<1>3. NoTwins'
  BY DEF NoTwins
<1> QED BY <1>2, <1>3

\* What any step does to the stages of the replies.
LEMMA StageStep ==
    ASSUME TypeInv, OneStage, NoTwins, Unstarted, [Next]_vars
    PROVE  /\ NoTwins'
           /\ \/ Stays
              \/ \E r \in Msg : PublishSpool(r) /\ Moves(r, "new", {"publisher"})
              \/ \E r \in Msg : PublishBus(r) /\ Moves(r, "publisher", {"bus"})
              \/ \E r \in Msg : PublishRelease(r) /\ Moves(r, "publisher", {})
              \/ \E g \in Gen, r \in Msg : DispatchTake(g) /\ Moves(r, "bus", {"routed"})
              \/ \E g \in Gen, r \in Msg :
                    DispatchRoute(g) /\ Moves(r, "routed", {"queue"}) /\ UNCHANGED <<row, faults>>
              \/ \E g \in Gen, r \in Msg :
                    DispatchRoute(g) /\ Moves(r, "routed", {}) /\ ReleaseRow(r)
              \/ \E c \in Channel, g \in Gen, r \in Msg :
                    SenderTake(c, g) /\ Moves(r, "queue", {"sender"})
              \/ \E c \in Channel, g \in Gen, r \in Msg :
                    SenderSettle(c, g) /\ r = sender[c][g].msg /\ Moves(r, "sender", {})
              \/ /\ PassClaim
                 /\ \A k \in Msg : Stages(k)' = IF k \in NextBatch(row) /\ pass'.batch # {}
                                                THEN Stages(k) \cup {"pass"} ELSE Stages(k)
              \/ PassRelease /\ \A k \in Msg : Stages(k)' = Stages(k) \ {"pass"}
              \/ ProcessEnd /\ \A k \in Msg : Stages(k)' = Stages(k) \cap {"new"}
<1> USE DEF disk, proc, src, wired, ghost
<1>a. ASSUME UNCHANGED <<bus, disp, queue, sender>> PROVE NoTwins'
  BY <1>a DEF NoTwins
<1>1. ASSUME NEW r \in Msg, PublishSpool(r)
      PROVE  NoTwins' /\ Moves(r, "new", {"publisher"})
  BY <1>1, <1>a, PublishSpoolMoves DEF PublishSpool
<1>2. ASSUME NEW r \in Msg, PublishBus(r)
      PROVE  NoTwins' /\ (Moves(r, "publisher", {"bus"}) \/ Stays)
  BY <1>2, PublishBusMoves DEF PublishBus, NoTwins
<1>3. ASSUME NEW r \in Msg, PublishRelease(r)
      PROVE  NoTwins' /\ Moves(r, "publisher", {})
  BY <1>3, <1>a, PublishReleaseMoves DEF PublishRelease
<1>4. CASE Boot \/ GoLive \/ ReloadStop \/ PumpStop \/ ShutdownRelease \/ ChannelsStop \/ Age
  <2>1. UNCHANGED <<pub, bus, disp, queue, sender, pass>>
    BY <1>4 DEF Boot, GoLive, ReloadStop, PumpStop, ShutdownRelease, ChannelsStop, Age
  <2> QED BY <2>1, <1>a, AllStay
<1>5. CASE StartAll
  <2>1. gen = 0 /\ 1 \in Gen /\ pass = NoPass /\ StartSet \in SUBSET Channel
    BY <1>5, GenBounds, OutboundAssumption DEF StartAll, Unstarted
  <2>2. Start(1, StartSet) \/ UNCHANGED <<gen, cur, disp, sender>>
    BY <1>5 DEF StartAll
  <2>3. pass'.mine = pass.mine
    BY <1>5, <2>1 DEF StartAll, NoPass
  <2>4. UNCHANGED <<pub, bus, queue>>
    BY <1>5 DEF StartAll
  <2> QED BY <2>1, <2>2, <2>3, <2>4, StartKeepsWork, StartStays
<1>6. ASSUME NEW S \in SUBSET Channel, ReloadStart(S) PROVE Stays /\ NoTwins'
  <2>1. gen + 1 \in Gen /\ gen + 1 > gen
    BY <1>6, GenBounds DEF ReloadStart
  <2>2. Start(gen + 1, S) \/ UNCHANGED <<gen, cur, disp, sender>>
    BY <1>6 DEF ReloadStart
  <2>3. UNCHANGED <<pub, bus, queue, pass>>
    BY <1>6 DEF ReloadStart
  <2> QED BY <2>1, <2>2, <2>3, StartKeepsWork, StartStays
<1>7. ASSUME NEW g \in Gen, DispatchTake(g)
      PROVE  NoTwins' /\ \E r \in Msg : Moves(r, "bus", {"routed"})
  BY <1>7, DispatchTakeMoves
<1>8. ASSUME NEW g \in Gen, DispatchRoute(g)
      PROVE  /\ NoTwins'
             /\ \E r \in Msg : \/ Moves(r, "routed", {"queue"}) /\ UNCHANGED <<row, faults>>
                               \/ Moves(r, "routed", {}) /\ ReleaseRow(r)
  BY <1>8, DispatchRouteMoves
<1>9. ASSUME NEW c \in Channel, NEW g \in Gen, SenderTake(c, g)
      PROVE  NoTwins' /\ \E r \in Msg : Moves(r, "queue", {"sender"})
  BY <1>9, SenderTakeMoves
<1>10. ASSUME NEW c \in Channel, NEW g \in Gen, SenderSend(c, g)
       PROVE  Stays /\ NoTwins'
  BY <1>10, SenderSendMoves
<1>11. ASSUME NEW c \in Channel, NEW g \in Gen, SenderSettle(c, g)
       PROVE  /\ NoTwins'
              /\ \E r \in Msg : r = sender[c][g].msg /\ Moves(r, "sender", {})
  BY <1>11, SenderSettleMoves
<1>12. CASE PumpTick
  <2>1. pass'.mine = pass.mine
    BY <1>12 DEF PumpTick, Unstarted, NoPass
  <2>2. UNCHANGED <<pub, bus, disp, queue, sender>>
    BY <1>12 DEF PumpTick
  <2> QED BY <2>1, <2>2, <1>a, AllStay
<1>13. CASE PassClaim
  <2>1. NoTwins'
    BY <1>13, <1>a, PassClaimDoes
  <2>2. CASE pass'.mine = pass.mine
    BY <2>1, <2>2, <1>13, AllStay, PassClaimDoes
  <2>3. CASE pass'.mine = pass.mine \cup NextBatch(row) /\ pass'.batch = NextBatch(row)
    <3>1. \A k \in Msg : InPass(k)' <=> InPass(k) \/ k \in NextBatch(row)
      BY <2>3 DEF InPass
    <3>2. \A k \in Msg : k \in NextBatch(row) => pass'.batch # {}
      BY <2>3
    <3> QED BY <2>1, <3>1, <3>2, <1>13, PassClaimDoes, StagesAre DEF Stages, Stage
  <2> QED BY <2>2, <2>3, <1>13, PassClaimDoes
<1>14. CASE PassRelease
  <2>1. UNCHANGED <<pub, bus, disp, queue, sender>>
    BY <1>14 DEF PassRelease
  <2>2. \A k \in Msg : ~InPass(k)'
    BY <1>14 DEF PassRelease, NoPass, InPass
  <2> QED BY <2>1, <2>2, <1>a, <1>14, StagesAre DEF Stages, Stage
<1>15. ASSUME NEW r \in Msg, PassRow(r) PROVE Stays /\ NoTwins'
  BY <1>15, <1>a, AllStay, PassRowDoes
<1>16. CASE ProcessEnd
  <2>1. /\ bus' = <<>> /\ queue' = [c \in Channel |-> [g \in Gen |-> <<>>]]
        /\ disp' = [g \in Gen |-> Off] /\ sender' = [c \in Channel |-> [g \in Gen |-> Off]]
        /\ pass' = NoPass
        /\ pub' = [r \in Msg |-> IF pub[r] = "new" THEN "new" ELSE "done"]
    BY <1>16 DEF ProcessEnd
  <2>2. \A k \in Msg : k # Off.msg
    BY WorkerTypes
  <2>3. \A k : ~In(<<>>, k)
    BY DEF In
  <2>4. \A k \in Msg : /\ AtNew(k)' <=> AtNew(k)
                       /\ ~AtPublisher(k)' /\ ~OnBus(k)' /\ ~Routed(k)' /\ ~InQueue(k)'
                       /\ ~AtSender(k)' /\ ~InPass(k)'
    BY <2>1, <2>2, <2>3
       DEF AtNew, AtPublisher, OnBus, Routed, InQueue, AtSender, InPass, NoPass
  <2>5. NoTwins'
    <3>1. Distinct(<<>>)
      BY DEF Distinct
    <3>2. Off.msg \notin Msg
      BY WorkerTypes
    <3> QED BY <2>1, <2>3, <3>1, <3>2 DEF NoTwins
  <2> QED BY <2>4, <2>5, <1>16 DEF Stages, Stage
<1>17. CASE UNCHANGED vars
  BY <1>17, <1>a, AllStay DEF vars
<1> QED
  BY <1>1, <1>2, <1>3, <1>4, <1>5, <1>6, <1>7, <1>8, <1>9, <1>10, <1>11, <1>12, <1>13, <1>14, <1>15, <1>16, <1>17
     DEF Next, Publish, Dispatch, Sender, PassStep, PassRow

-----------------------------------------------------------------------------
(* No row disappears without a reason *)

\* The ids tell the rows apart, a reply not yet published has none, and what
\* the pass has claimed was spooled.
Numbered ==
    /\ \A r \in Msg : /\ row[r].here => Spooled(r)
                      /\ AtNew(r) => ~Spooled(r)
                      /\ row[r].id < nextId
    /\ \A r, k \in Msg : Spooled(r) /\ row[r].id = row[k].id => r = k
    /\ \A r \in pass.mine \cup pass.batch : Spooled(r)

\* Whoever is about to delete a row has decided on its reply.
Decided ==
    /\ \A c \in Channel, g \in Gen :
          sender[c][g].pc = "sent" /\ sender[c][g].res # "none" => fate[sender[c][g].msg] # {}
    /\ pass.pc = "settle" /\ pass.res # "none" => \A r \in Msg : Oldest(r) => fate[r] # {}

KeptInv == TypeInv /\ Numbered /\ Decided /\ ReplyKept

LEMMA RowTypes ==
    ASSUME TypeInv
    PROVE  /\ row \in Table /\ inst \in Nat /\ nextId \in Nat \ {0}
           /\ \A r \in Msg : row[r].id \in Nat /\ row[r].owner \in Nat
           /\ pass.batch \subseteq Msg /\ pass.mine \subseteq Msg
           /\ fate \in [Msg -> SUBSET {"sent", "part", "expired", "dead", "poison"}]
           /\ pass \in PassType
BY OutboundAssumption
   DEF TypeInv, TypeOK, DiskType, ProcType, WorkType, GhostType, Table, Row, PassType

\* The statement that deletes the row of k.
Deletes(k) ==
    \/ \E c \in Channel, g \in Gen :
          /\ SenderSettle(c, g) /\ k = sender[c][g].msg
          /\ sender[c][g].pc = "sent" /\ sender[c][g].res # "none"
    \/ PassRow(k) /\ k \notin pass'.batch /\ pass.pc = "settle" /\ pass.res # "none"
    \/ PassRow(k) /\ k \notin pass'.batch /\ fate'[k] # {}

\* The row of k stays or stays away, with another claim or count perhaps.
RowStays(k) == row'[k].id = row[k].id /\ row'[k].here = row[k].here /\ nextId' = nextId

RowGoes(k) == row'[k].id = row[k].id /\ ~row'[k].here /\ nextId' = nextId /\ Deletes(k)

\* What a step may do to the row of k: leave it, number it, or delete it.
LEMMA RowStep ==
    ASSUME TypeInv, [Next]_vars, NEW k \in Msg
    PROVE  \/ RowStays(k)
           \/ \E r \in Msg \ {k} : PublishSpool(r) /\ row'[k] = row[k] /\ nextId' = nextId + 1
           \/ /\ PublishSpool(k) /\ nextId' = nextId + 1
              /\ row'[k].id = nextId /\ row'[k].here /\ row'[k].owner = inst /\ ~row'[k].stale
           \/ RowGoes(k)
<1> USE DEF disk, proc, src, wired, ghost
<1>a. row \in Table /\ inst \in Nat /\ nextId \in Nat \ {0} /\ pass.mine \subseteq Msg
  BY RowTypes
<1>b. ASSUME NEW t \in Table, SameRows(row, t), row' \in {row, t}, nextId' = nextId PROVE RowStays(k)
  BY <1>b DEF SameRows, RowStays
<1>c. ASSUME NEW r \in Msg, ReleaseRow(r), nextId' = nextId PROVE RowStays(k)
  <2>1. row' \in {row, ReleaseIDs(row, {r}, inst)}
    BY <1>c DEF ReleaseRow, Settle
  <2> QED BY <2>1, <1>a, <1>b, <1>c, ReleaseIDsKeepsRows DEF SameRows
<1>d. ASSUME NEW r \in Msg, NEW t \in Table, SameRows(row, t),
             row' \in {row, Complete(t, r)}, nextId' = nextId, row'[k].here # row[k].here
      PROVE  r = k /\ row'[k].id = row[k].id /\ ~row'[k].here
  <2>1. row' = Complete(t, r)
    BY <1>d
  <2>2. ~Complete(t, r)[r].here
    BY <1>d DEF Complete, Table
  <2> QED BY <1>d, <2>1, <2>2, CompleteRemovesOne DEF SameRows
<1>e. ASSUME NEW r \in Msg, NEW t \in Table, SameRows(row, t),
             row' \in {row, Complete(t, r)}, nextId' = nextId
      PROVE  row'[k].id = row[k].id /\ row[k].here \in BOOLEAN /\ row'[k].here \in BOOLEAN
  BY <1>a, <1>e, CompleteRemovesOne DEF SameRows, Table, Row
<1>f. SameRows(row, row)
  BY <1>a DEF SameRows
<1>1. ASSUME NEW r \in Msg, PublishSpool(r)
      PROVE  \/ RowStays(k)
             \/ r # k /\ row'[k] = row[k] /\ nextId' = nextId + 1
             \/ /\ r = k /\ nextId' = nextId + 1
                /\ row'[k].id = nextId /\ row'[k].here /\ row'[k].owner = inst /\ ~row'[k].stale
  <2>1. CASE row' = EnqueueClaimed(row, r, nextId, inst) /\ nextId' = nextId + 1
    <3>1. CASE r # k
      BY <2>1, <3>1, <1>a DEF EnqueueClaimed, Table
    <3>2. CASE r = k
      BY <2>1, <3>2, <1>a DEF EnqueueClaimed, Table
    <3> QED BY <3>1, <3>2
  <2>2. CASE UNCHANGED disk
    BY <2>2 DEF RowStays
  <2> QED BY <1>1, <2>1, <2>2 DEF PublishSpool
<1>2. ASSUME UNCHANGED disk PROVE RowStays(k)
  BY <1>2 DEF RowStays
<1>3. ASSUME NEW r \in Msg, PublishBus(r) \/ PublishRelease(r) PROVE RowStays(k)
  BY <1>2, <1>3, <1>c DEF PublishBus, PublishRelease
<1>4. CASE StartAll
  <2>1. row' \in {row, ReclaimStale(row)} /\ nextId' = nextId
    BY <1>4 DEF StartAll
  <2> QED BY <2>1, <1>a, <1>b, ReclaimStaleKeepsRows DEF SameRows, RowStays
<1>5. CASE ShutdownRelease
  <2>1. row' \in {row, ReleaseClaims(row, inst)} /\ nextId' = nextId
    BY <1>5 DEF ShutdownRelease
  <2> QED BY <2>1, <1>a, <1>b, ReleaseClaimsKeepsRows DEF SameRows, RowStays
<1>6. CASE Age
  <2>1. row' = AgeClaims(row) /\ nextId' = nextId
    BY <1>6 DEF Age
  <2> QED BY <2>1, <1>a, <1>b, AgeClaimsKeepsRows DEF SameRows, RowStays
<1>7. CASE PassClaim
  <2>1. row' \in {row, ClaimBatch(row, inst)} /\ nextId' = nextId
    BY <1>7, PassClaimDoes
  <2> QED BY <2>1, <1>a, <1>b, ClaimBatchKeepsRows DEF SameRows, RowStays
<1>8. CASE PassRelease
  <2>1. row' \in {row, ReleaseIDs(row, pass.mine, inst)} /\ nextId' = nextId
    BY <1>8 DEF PassRelease
  <2> QED BY <2>1, <1>a, <1>b, ReleaseIDsKeepsRows DEF SameRows, RowStays
<1>9. ASSUME NEW g \in Gen, Dispatch(g) PROVE RowStays(k)
  <2>1. CASE DispatchTake(g)
    BY <2>1, <1>2 DEF DispatchTake
  <2>2. CASE DispatchRoute(g)
    <3>1. nextId' = nextId /\ (row' = row \/ ReleaseRow(disp[g].msg))
      BY <2>2 DEF DispatchRoute
    <3>2. disp[g] \in Worker /\ disp[g].pc = "got"
      BY <2>2 DEF DispatchRoute, TypeInv, TypeOK, WorkType
    <3> QED BY <3>1, <3>2, <1>2, <1>c, WorkerCases
  <2> QED BY <1>9, <2>1, <2>2 DEF Dispatch
<1>10. ASSUME NEW c \in Channel, NEW g \in Gen, Sender(c, g)
       PROVE  RowStays(k) \/ RowGoes(k)
  <2>1. CASE SenderTake(c, g) \/ SenderSend(c, g)
    <3>1. UNCHANGED disk
      BY <2>1 DEF SenderTake, SenderSend
    <3> QED BY <3>1, <1>2
  <2>2. CASE SenderSettle(c, g)
    <3>1. sender[c][g] \in Worker /\ sender[c][g].pc = "sent" /\ nextId' = nextId
      BY <2>2 DEF SenderSettle, TypeInv, TypeOK, WorkType
    <3>2. PICK r \in Msg : r = sender[c][g].msg
      BY <3>1, WorkerCases
    <3>3. CASE ReleaseRow(r)
      BY <3>1, <3>3, <1>c
    <3>4. CASE sender[c][g].res \in {"delivered", "partial"} /\ Settle(r, Complete(row, r))
      <4>1. row' \in {row, Complete(row, r)}
        BY <3>4 DEF Settle
      <4>2. CASE row'[k].here = row[k].here
        <5>1. row'[k].id = row[k].id
          BY <4>1, <3>1, <1>a, <1>e, <1>f
        <5> QED BY <5>1, <4>2, <3>1 DEF RowStays
      <4>3. CASE row'[k].here # row[k].here
        <5>1. r = k /\ row'[k].id = row[k].id /\ ~row'[k].here
          BY <4>1, <4>3, <3>1, <1>a, <1>d, <1>f
        <5> QED BY <5>1, <3>1, <3>2, <3>4, <2>2 DEF Deletes, RowGoes
      <4> QED BY <4>2, <4>3
    <3> QED BY <2>2, <3>2, <3>3, <3>4 DEF SenderSettle
  <2> QED BY <1>10, <2>1, <2>2 DEF Sender
<1>11. ASSUME NEW r \in Msg, PassRow(r)
       PROVE  RowStays(k) \/ RowGoes(k)
  <2>1. nextId' = nextId
    BY <1>11, PassRowDoes
  <2>2. SameRows(row, IncAttempt(row, r)) /\ IncAttempt(row, r) \in Table
    BY <1>a, IncAttemptKeepsRows DEF SameRows
  <2>3. SameRows(row, ReleaseIDs(row, {r}, inst)) /\ ReleaseIDs(row, {r}, inst) \in Table
    BY <1>a, ReleaseIDsKeepsRows DEF SameRows
  <2>4. CASE row' \in {row, IncAttempt(row, r)} \/ row' = ReleaseIDs(row, {r}, inst)
    <3>1. CASE row' \in {row, IncAttempt(row, r)}
      BY <3>1, <2>1, <2>2, <1>b
    <3>2. CASE row' = ReleaseIDs(row, {r}, inst)
      BY <3>2, <2>1, <2>3, <1>b
    <3> QED BY <2>4, <3>1, <3>2
  <2>a. Advance(r, FALSE) => r \notin pass'.batch
    BY AdvanceDoes
  <2>5. ASSUME NEW t \in {row, IncAttempt(row, r)}, row' = Complete(t, r),
               r = k => Deletes(k)
        PROVE  RowStays(k) \/ RowGoes(k)
    <3>1. t \in Table /\ SameRows(row, t)
      BY <1>a, <1>f, <2>2
    <3>2. CASE row'[k].here = row[k].here
      <4>1. row'[k].id = row[k].id
        BY <2>1, <2>5, <3>1, <1>e
      <4> QED BY <4>1, <2>1, <3>2 DEF RowStays
    <3>3. CASE row'[k].here # row[k].here
      BY <2>1, <2>5, <3>1, <3>3, <1>d DEF RowGoes
    <3> QED BY <3>2, <3>3
  <2>6. ASSUME NEW f, Happens(r, f) PROVE fate'[r] # {}
    BY <2>6, RowTypes DEF Happens
  <2>7. CASE PassPoison(r)
    <3>1. CASE row' = Complete(IncAttempt(row, r), r) /\ Happens(r, "poison") /\ Advance(r, FALSE)
      BY <3>1, <2>a, <2>5, <2>6, <2>7, <1>11 DEF Deletes
    <3> QED BY <2>4, <2>7, <3>1 DEF PassPoison
  <2>8. CASE PassExpired(r)
    <3>1. CASE row' = Complete(row, r) /\ Advance(r, FALSE)
      <4>1. Happens(r, "expired")
        BY <2>8 DEF PassExpired
      <4> QED BY <3>1, <4>1, <2>a, <2>5, <2>6, <2>8, <1>11 DEF Deletes
    <3> QED BY <2>4, <2>8, <3>1 DEF PassExpired, Drop
  <2>9. CASE PassSend(r) \/ PassCount(r)
    BY <2>4, <2>9 DEF PassSend, PassCount
  <2>10. CASE PassSettle(r)
    <3>1. CASE pass.res # "none" /\ row' = Complete(row, r) /\ Advance(r, FALSE)
      <4>1. pass.pc = "settle"
        BY <2>10 DEF PassSettle
      <4> QED BY <3>1, <4>1, <2>a, <2>5, <1>11 DEF Deletes
    <3> QED BY <2>4, <2>10, <3>1 DEF PassSettle, Drop
  <2> QED BY <1>11, <2>7, <2>8, <2>9, <2>10 DEF PassRow
<1>12. CASE Boot \/ GoLive \/ ReloadStop \/ PumpTick \/ PumpStop \/ ChannelsStop \/ ProcessEnd
            \/ \E S \in SUBSET Channel : ReloadStart(S)
  BY <1>2, <1>12 DEF Boot, GoLive, ReloadStop, PumpTick, PumpStop, ChannelsStop, ProcessEnd, ReloadStart
<1>13. CASE UNCHANGED vars
  BY <1>2, <1>13 DEF vars
<1> QED
  BY <1>1, <1>3, <1>4, <1>5, <1>6, <1>7, <1>8, <1>9, <1>10, <1>11, <1>12, <1>13
     DEF Next, Publish, PassStep, PassRow, RowStays

LEMMA NewStays ==
    ASSUME TypeInv, [Next]_vars, NEW k \in Msg, AtNew(k)'
    PROVE  AtNew(k) /\ ~PublishSpool(k)
<1> USE DEF disk, proc, src, wired, ghost
<1>a. pub \in [Msg -> {"new", "enqueued", "refused", "done"}]
  BY DEF TypeInv, TypeOK, ProcType
<1>1. ASSUME NEW r \in Msg, Publish(r) PROVE AtNew(k) /\ ~PublishSpool(k)
  BY <1>1, <1>a DEF Publish, PublishSpool, PublishBus, PublishRelease, AtNew
<1>2. CASE ProcessEnd
  BY <1>2, <1>a DEF ProcessEnd, AtNew, PublishSpool
<1>3. CASE UNCHANGED pub
  BY <1>3, <1>a DEF AtNew, PublishSpool
<1>4. CASE Boot \/ StartAll \/ GoLive \/ ReloadStop \/ \E S \in SUBSET Channel : ReloadStart(S)
  BY <1>3, <1>4 DEF Boot, StartAll, GoLive, ReloadStop, ReloadStart
<1>5. CASE \E g \in Gen : Dispatch(g)
  BY <1>3, <1>5 DEF Dispatch, DispatchTake, DispatchRoute
<1>6. CASE \E c \in Channel, g \in Gen : Sender(c, g)
  <2>1. UNCHANGED pub
    BY <1>6 DEF Sender, SenderTake, SenderSend, SenderSettle
  <2> QED BY <2>1, <1>3
<1>7. CASE PumpTick \/ PassClaim \/ PassRelease \/ \E r \in Msg : PassRow(r)
  BY <1>3, <1>7, PassRowDoes DEF PumpTick, PassClaim, PassRelease
<1>8. CASE PumpStop \/ ShutdownRelease \/ ChannelsStop \/ Age
  BY <1>3, <1>8 DEF PumpStop, ShutdownRelease, ChannelsStop, Age
<1>9. CASE UNCHANGED vars
  BY <1>3, <1>9 DEF vars
<1> QED
  BY <1>1, <1>2, <1>4, <1>5, <1>6, <1>7, <1>8, <1>9 DEF Next, PassStep, PassRow

\* Nothing but the pass itself works on its batch.
LEMMA PassChange ==
    ASSUME TypeInv, [Next]_vars
    PROVE  \/ UNCHANGED pass
           \/ StartAll /\ pass' = [NoPass EXCEPT !.pc = "claim"]
           \/ PumpTick /\ pass' = [NoPass EXCEPT !.pc = "claim"]
           \/ PassClaim
           \/ (PassRelease \/ ProcessEnd) /\ pass' = NoPass
           \/ \E r \in Msg : PassRow(r)
<1> USE DEF disk, proc, src, wired, ghost
<1>1. ASSUME NEW r \in Msg, Publish(r) PROVE UNCHANGED pass
  BY <1>1 DEF Publish, PublishSpool, PublishBus, PublishRelease
<1>2. CASE Boot \/ GoLive \/ ReloadStop \/ \E S \in SUBSET Channel : ReloadStart(S)
  BY <1>2 DEF Boot, GoLive, ReloadStop, ReloadStart
<1>3. CASE \E g \in Gen : Dispatch(g)
  BY <1>3 DEF Dispatch, DispatchTake, DispatchRoute
<1>4. CASE \E c \in Channel, g \in Gen : Sender(c, g)
  BY <1>4 DEF Sender, SenderTake, SenderSend, SenderSettle
<1>5. CASE StartAll \/ PumpTick \/ PassRelease \/ ProcessEnd
  BY <1>5 DEF StartAll, PumpTick, PassRelease, ProcessEnd
<1>6. CASE PumpStop \/ ShutdownRelease \/ ChannelsStop \/ Age
  BY <1>6 DEF PumpStop, ShutdownRelease, ChannelsStop, Age
<1>7. CASE UNCHANGED vars
  BY <1>7 DEF vars
<1> QED BY <1>1, <1>2, <1>3, <1>4, <1>5, <1>6, <1>7 DEF Next, PassStep, PassRow

LEMMA NumberedStep ==
    ASSUME TypeInv, Numbered, [Next]_vars
    PROVE  Numbered'
<1>a. /\ nextId \in Nat /\ nextId # 0 /\ \A r \in Msg : row[r].id \in Nat
      /\ pass.batch \subseteq Msg /\ pass.mine \subseteq Msg
  BY RowTypes
<1>1. \A r \in Msg : ~Spooled(r) /\ Spooled(r)' => PublishSpool(r)
  BY RowStep DEF Spooled, RowStays, RowGoes
<1>2. \A r \in Msg : row'[r].here => Spooled(r)'
  BY RowStep, <1>a DEF Numbered, Spooled, RowStays, RowGoes
<1>3. \A r \in Msg : AtNew(r)' => ~Spooled(r)'
  BY <1>1, NewStays DEF Numbered
<1>4. \A r \in Msg : row'[r].id < nextId'
  <2> SUFFICES ASSUME NEW r \in Msg PROVE row'[r].id < nextId'
    OBVIOUS
  <2>1. row[r].id < nextId
    BY DEF Numbered
  <2> QED BY <2>1, RowStep, <1>a DEF RowStays, RowGoes
<1>5. ASSUME NEW r \in Msg, PublishSpool(r) PROVE ~Spooled(r)
  BY <1>5 DEF PublishSpool, Numbered, AtNew
<1>6. ASSUME NEW r \in Msg, Spooled(r) PROVE row'[r].id = row[r].id
  BY <1>5, <1>6, RowStep DEF RowStays, RowGoes
<1>7. ASSUME NEW r \in Msg, ~Spooled(r), Spooled(r)' PROVE row'[r].id = nextId
  BY <1>7, RowStep DEF RowStays, RowGoes, Spooled
<1>8. ASSUME NEW r \in Msg, NEW k \in Msg, Spooled(r)', row'[r].id = row'[k].id PROVE r = k
  <2>1. Spooled(k)'
    BY <1>8 DEF Spooled
  <2>2. CASE Spooled(r) /\ Spooled(k)
    BY <2>2, <1>6, <1>8 DEF Numbered
  <2>3. CASE ~Spooled(r) /\ Spooled(k)
    BY <2>3, <1>6, <1>7, <1>8, <1>a DEF Numbered
  <2>4. CASE Spooled(r) /\ ~Spooled(k)
    BY <2>1, <2>4, <1>6, <1>7, <1>8, <1>a DEF Numbered
  <2>5. CASE ~Spooled(r) /\ ~Spooled(k)
    <3>1. PublishSpool(r) /\ PublishSpool(k)
      BY <2>1, <2>5, <1>1, <1>8
    <3>2. pub[r] = "new" /\ pub' = [pub EXCEPT ![r] = "enqueued"]
          /\ pub[k] = "new" /\ pub' = [pub EXCEPT ![k] = "enqueued"]
      BY <3>1 DEF PublishSpool
    <3> QED BY <3>2 DEF TypeInv, TypeOK, ProcType
  <2> QED BY <2>2, <2>3, <2>4, <2>5
<1>9. ASSUME NEW r \in Msg, Spooled(r) PROVE Spooled(r)'
  BY <1>6, <1>9 DEF Spooled
<1>10. \A r \in pass'.mine \cup pass'.batch : Spooled(r)'
  <2>1. ASSUME pass'.mine \cup pass'.batch \subseteq pass.mine \cup pass.batch
        PROVE  \A r \in pass'.mine \cup pass'.batch : Spooled(r)'
    BY <2>1, <1>9, <1>a DEF Numbered
  <2>2. CASE pass' = NoPass \/ pass' = [NoPass EXCEPT !.pc = "claim"]
    BY <2>1, <2>2 DEF NoPass
  <2>3. CASE PassClaim
    <3>1. \A r \in NextBatch(row) : r \in Msg /\ row[r].here
      BY BatchIsPending
    <3> QED BY <2>1, <2>3, <3>1, <1>9, <1>a, PassClaimDoes DEF Numbered
  <2>4. ASSUME NEW r \in Msg, PassRow(r) PROVE \A k \in pass'.mine \cup pass'.batch : Spooled(k)'
    BY <2>1, <2>4, PassRowDoes
  <2>5. CASE UNCHANGED pass
    BY <2>1, <2>5
  <2> QED BY <2>2, <2>3, <2>4, <2>5, PassChange
<1> QED BY <1>2, <1>3, <1>4, <1>8, <1>10 DEF Numbered

\* What has become of a reply is never forgotten.
LEMMA FateGrows ==
    ASSUME TypeInv, [Next]_vars, NEW k \in Msg, fate[k] # {}
    PROVE  fate'[k] # {}
<1> USE DEF disk, proc, src, wired, ghost
<1>a. fate \in [Msg -> SUBSET {"sent", "part", "expired", "dead", "poison"}]
  BY RowTypes
<1>b. ASSUME NEW r \in Msg, NEW f, Happens(r, f) PROVE fate'[k] # {}
  BY <1>b, <1>a DEF Happens
<1>c. ASSUME NEW r \in Msg, NEW res, Transmit(r, res) PROVE fate'[k] # {}
  BY <1>b, <1>c DEF Transmit
<1>1. CASE UNCHANGED fate
  BY <1>1
<1>2. ASSUME NEW r \in Msg, PassRow(r) PROVE fate'[k] # {}
  BY <1>b, <1>c, <1>1, <1>2
     DEF PassRow, PassPoison, PassExpired, PassSend, PassCount, PassSettle
<1>3. ASSUME NEW c \in Channel, NEW g \in Gen, Sender(c, g) PROVE fate'[k] # {}
  <2>1. CASE SenderSend(c, g)
    <3>1. sender[c][g] \in Worker /\ sender[c][g].pc = "got"
      BY <2>1 DEF SenderSend, TypeInv, TypeOK, WorkType
    <3>2. PICK r \in Msg : r = sender[c][g].msg
      BY <3>1, WorkerCases
    <3> QED BY <2>1, <3>2, <1>c DEF SenderSend
  <2>2. CASE SenderTake(c, g) \/ SenderSettle(c, g)
    <3>1. UNCHANGED fate
      BY <2>2 DEF SenderTake, SenderSettle
    <3> QED BY <3>1
  <2> QED BY <1>3, <2>1, <2>2 DEF Sender
<1>4. CASE (\E r \in Msg : Publish(r)) \/ \E g \in Gen : Dispatch(g)
  BY <1>1, <1>4 DEF Publish, PublishSpool, PublishBus, PublishRelease,
                    Dispatch, DispatchTake, DispatchRoute
<1>5. CASE Boot \/ StartAll \/ GoLive \/ ReloadStop \/ \E S \in SUBSET Channel : ReloadStart(S)
  BY <1>1, <1>5 DEF Boot, StartAll, GoLive, ReloadStop, ReloadStart
<1>6. CASE \/ PumpTick \/ PassClaim \/ PassRelease
           \/ PumpStop \/ ShutdownRelease \/ ChannelsStop \/ ProcessEnd \/ Age
  BY <1>1, <1>6 DEF PumpTick, PassClaim, PassRelease, PumpStop, ShutdownRelease,
                    ChannelsStop, ProcessEnd, Age
<1>7. CASE UNCHANGED vars
  BY <1>1, <1>7 DEF vars
<1> QED BY <1>2, <1>3, <1>4, <1>5, <1>6, <1>7 DEF Next, PassStep, PassRow

\* An id, once given, stays, so the oldest row of a batch does.
LEMMA OldestStays ==
    ASSUME TypeInv, Numbered, [Next]_vars, pass'.batch = pass.batch, NEW r \in Msg
    PROVE  Oldest(r)' <=> Oldest(r)
<1>1. ASSUME NEW k \in pass.batch PROVE row'[k].id = row[k].id
  <2>1. Spooled(k) /\ k \in Msg
    BY RowTypes DEF Numbered
  <2>2. ~PublishSpool(k)
    BY <2>1 DEF PublishSpool, Numbered, AtNew
  <2> QED BY <2>1, <2>2, RowStep DEF RowStays, RowGoes
<1> QED BY <1>1 DEF Oldest

LEMMA OneOldest ==
    ASSUME TypeInv, Numbered, NEW r \in Msg, NEW k \in Msg, Oldest(r), Oldest(k)
    PROVE  r = k
<1>1. row[r].id \in Nat /\ row[k].id \in Nat
  BY RowTypes
<1>2. row[r].id = row[k].id
  BY <1>1 DEF Oldest
<1> QED BY <1>2 DEF Oldest, Numbered

LEMMA DecidedStep ==
    ASSUME TypeInv, Numbered, Decided, [Next]_vars
    PROVE  Decided'
<1> USE DEF disk, proc, src, wired, ghost
<1>a. fate \in [Msg -> SUBSET {"sent", "part", "expired", "dead", "poison"}]
  BY RowTypes
<1>b. ASSUME NEW r \in Msg, NEW f, Happens(r, f) PROVE fate'[r] # {}
  BY <1>b, <1>a DEF Happens
<1>1. ASSUME NEW c \in Channel, NEW g \in Gen,
             sender'[c][g].pc = "sent", sender'[c][g].res # "none"
      PROVE  fate'[sender'[c][g].msg] # {}
  <2>1. ASSUME sender'[c][g] = sender[c][g] PROVE fate'[sender'[c][g].msg] # {}
    <3>1. sender[c][g] \in Worker
      BY DEF TypeInv, TypeOK, WorkType
    <3>2. PICK r \in Msg : r = sender[c][g].msg
      BY <3>1, <2>1, <1>1, WorkerCases
    <3> QED BY <2>1, <1>1, <3>2, FateGrows DEF Decided
  <2>2. sender \in [Channel -> [Gen -> Worker]]
    BY DEF TypeInv, TypeOK, WorkType
  <2>3. CASE \E d \in Channel, h \in Gen : Sender(d, h)
    <3>1. PICK d \in Channel, h \in Gen : Sender(d, h)
      BY <2>3
    <3>2. CASE SenderSend(d, h)
      <4>1. PICK r \in Msg : r = sender[d][h].msg
        <5>1. sender[d][h] \in Worker /\ sender[d][h].pc = "got"
          BY <3>2, <2>2 DEF SenderSend
        <5> QED BY <5>1, WorkerCases
      <4>2. PICK res \in {"delivered", "partial", "none"} :
               /\ Transmit(r, res)
               /\ sender' = [sender EXCEPT ![d][h] = [@ EXCEPT !.pc = "sent", !.res = res]]
        BY <3>2, <4>1 DEF SenderSend
      <4> DEFINE w == [sender[d][h] EXCEPT !.pc = "sent", !.res = res]
      <4>3. w.res = res /\ w.msg = r
        <5>1. sender[d][h] \in Worker /\ sender[d][h].pc = "got"
          BY <3>2, <2>2 DEF SenderSend
        <5>2. sender[d][h] \in [pc : {"got", "sent"}, msg : Msg, res : Result]
          BY <5>1, WorkerTypes DEF Worker
        <5> QED BY <5>2, <4>1
      <4>4. sender' = [sender EXCEPT ![d][h] = w]
        BY <4>2
      <4> HIDE DEF w
      <4>5. /\ sender'[d][h] = w
            /\ \A x \in Channel, y \in Gen : x # d \/ y # h => sender'[x][y] = sender[x][y]
        BY <4>4, <2>2
      <4>6. CASE c = d /\ g = h
        <5>1. sender'[c][g].res = res /\ sender'[c][g].msg = r
          BY <4>3, <4>5, <4>6
        <5>2. res # "none"
          BY <5>1, <1>1
        <5> QED BY <5>1, <5>2, <4>2, <1>b DEF Transmit
      <4> QED BY <4>5, <4>6, <2>1
    <3>3. CASE SenderTake(d, h)
      <4> DEFINE w == [sender[d][h] EXCEPT !.pc = "got", !.msg = Head(queue[d][h])]
      <4>1. sender' = [sender EXCEPT ![d][h] = w]
        BY <3>3 DEF SenderTake
      <4>2. w.pc = "got"
        <5>1. sender[d][h] \in Worker /\ sender[d][h].pc = "idle"
          BY <3>3, <2>2 DEF SenderTake
        <5>2. sender[d][h] = [pc |-> "idle", msg |-> NoMsg, res |-> "none"]
          BY <5>1, WorkerCases, WorkerTypes
        <5> QED BY <5>2
      <4> HIDE DEF w
      <4>3. /\ sender'[d][h] = w
            /\ \A x \in Channel, y \in Gen : x # d \/ y # h => sender'[x][y] = sender[x][y]
        BY <4>1, <2>2
      <4> QED BY <4>2, <4>3, <2>1, <1>1
    <3>4. CASE SenderSettle(d, h)
      <4>1. sender' = [sender EXCEPT ![d][h] = Idle]
        BY <3>4 DEF SenderSettle
      <4>2. /\ sender'[d][h] = Idle
            /\ \A x \in Channel, y \in Gen : x # d \/ y # h => sender'[x][y] = sender[x][y]
        BY <4>1, <2>2
      <4>3. Idle.pc # "sent"
        BY WorkerTypes
      <4> QED BY <4>2, <4>3, <2>1, <1>1
    <3> QED BY <3>1, <3>2, <3>3, <3>4 DEF Sender
  <2>4. CASE StartAll \/ \E S \in SUBSET Channel : ReloadStart(S)
    <3>1. ASSUME NEW n, NEW S, Start(n, S) PROVE fate'[sender'[c][g].msg] # {}
      <4>1. sender' = [d \in Channel |-> IF d \in S THEN [sender[d] EXCEPT ![n] = Idle] ELSE sender[d]]
        BY <3>1 DEF Start
      <4>2. sender[c] \in [Gen -> Worker]
        BY <2>2
      <4>3. sender'[c] = sender[c] \/ sender'[c] = [sender[c] EXCEPT ![n] = Idle]
        BY <4>1
      <4>4. sender'[c][g] = sender[c][g] \/ sender'[c][g] = Idle
        BY <4>2, <4>3
      <4>5. Idle.pc # "sent"
        BY WorkerTypes
      <4> QED BY <4>4, <4>5, <2>1, <1>1
    <3>2. CASE StartAll
      <4>1. Start(1, StartSet) \/ UNCHANGED sender
        BY <3>2 DEF StartAll
      <4> QED BY <4>1, <3>1, <2>1
    <3>3. ASSUME NEW S \in SUBSET Channel, ReloadStart(S) PROVE fate'[sender'[c][g].msg] # {}
      <4>1. PICK n : Start(n, S) \/ UNCHANGED sender
        BY <3>3 DEF ReloadStart
      <4> QED BY <4>1, <3>1, <2>1
    <3> QED BY <2>4, <3>2, <3>3
  <2>5. CASE ProcessEnd
    <3>1. sender'[c][g] = Off
      BY <2>5 DEF ProcessEnd
    <3> QED BY <3>1, <1>1, WorkerTypes
  <2>6. CASE (\E r \in Msg : Publish(r)) \/ \E h \in Gen : Dispatch(h)
    BY <2>1, <2>6 DEF Publish, PublishSpool, PublishBus, PublishRelease,
                      Dispatch, DispatchTake, DispatchRoute
  <2>7. CASE \/ Boot \/ GoLive \/ ReloadStop \/ PumpTick \/ PassClaim \/ PassRelease
             \/ PumpStop \/ ShutdownRelease \/ ChannelsStop \/ Age
    BY <2>1, <2>7 DEF Boot, GoLive, ReloadStop, PumpTick, PassClaim, PassRelease,
                      PumpStop, ShutdownRelease, ChannelsStop, Age
  <2>8. ASSUME NEW r \in Msg, PassRow(r) PROVE fate'[sender'[c][g].msg] # {}
    BY <2>1, <2>8, PassRowDoes
  <2>9. CASE UNCHANGED vars
    BY <2>1, <2>9 DEF vars
  <2> QED
    BY <2>3, <2>4, <2>5, <2>6, <2>7, <2>8, <2>9 DEF Next, PassStep, PassRow
<1>2. ASSUME pass'.pc = "settle", pass'.res # "none", NEW k \in Msg, Oldest(k)'
      PROVE  fate'[k] # {}
  <2>1. CASE UNCHANGED pass
    <3>1. Oldest(k)
      BY <1>2, <2>1, OldestStays
    <3> QED BY <3>1, <2>1, <1>2, FateGrows DEF Decided
  <2>2. CASE pass' = NoPass \/ pass' = [NoPass EXCEPT !.pc = "claim"]
    BY <2>2, <1>2 DEF NoPass
  <2>3. CASE PassClaim
    BY <2>3, <1>2, PassClaimDoes
  <2>4. ASSUME NEW r \in Msg, PassRow(r) PROVE fate'[k] # {}
    <3>1. Oldest(r)
      BY <2>4, PassRowDoes
    <3>2. ~(Abort \/ Advance(r, TRUE) \/ Advance(r, FALSE))
      BY <1>2, AbortDoes, AdvanceDoes
    <3>3. ASSUME pass'.batch = pass.batch, NEW f, Happens(r, f) PROVE fate'[k] # {}
      BY <3>1, <3>3, <1>2, <1>b, OldestStays, OneOldest
    <3>4. CASE PassSend(r)
      <4>1. PICK res \in {"delivered", "partial", "none"} :
               /\ Transmit(r, res)
               /\ pass' = [pass EXCEPT !.res = res, !.pc = IF res = "none" THEN "count" ELSE "settle"]
        BY <3>4 DEF PassSend
      <4>2. pass'.batch = pass.batch /\ pass'.res = res
        BY <4>1 DEF TypeInv, TypeOK, WorkType
      <4> QED BY <4>1, <4>2, <1>2, <3>3 DEF Transmit
    <3>5. CASE PassCount(r)
      <4> DEFINE spent == row[r].attempts + 1 >= MaxAttempts
      <4>1. /\ pass' = [pass EXCEPT !.pc = "settle", !.res = IF spent THEN "dead" ELSE "none"]
            /\ IF spent THEN Happens(r, "dead") ELSE UNCHANGED fate
        BY <3>2, <3>5 DEF PassCount
      <4>2. pass'.batch = pass.batch /\ pass'.res = IF spent THEN "dead" ELSE "none"
        BY <4>1 DEF TypeInv, TypeOK, WorkType
      <4>3. spent
        BY <4>2, <1>2
      <4> QED BY <4>1, <4>2, <4>3, <3>3
    <3> QED
      BY <2>4, <3>2, <3>4, <3>5 DEF PassRow, PassPoison, PassExpired, Drop, PassSettle
  <2> QED BY <2>1, <2>2, <2>3, <2>4, PassChange
<1> QED BY <1>1, <1>2 DEF Decided

LEMMA KeptStep ==
    ASSUME KeptInv, [Next]_vars
    PROVE  ReplyKept'
<1> USE DEF KeptInv
<1> SUFFICES ASSUME NEW k \in Msg, Spooled(k)', ~row'[k].here
             PROVE  fate'[k] # {}
  BY DEF ReplyKept
<1>1. ASSUME row'[k].id = row[k].id, row'[k].here = row[k].here PROVE fate'[k] # {}
  BY <1>1, FateGrows DEF ReplyKept, Spooled
<1>2. CASE Deletes(k)
  <2>1. ASSUME NEW c \in Channel, NEW g \in Gen, k = sender[c][g].msg,
               sender[c][g].pc = "sent", sender[c][g].res # "none"
        PROVE  fate'[k] # {}
    BY <2>1, FateGrows DEF Decided
  <2>2. ASSUME PassRow(k), pass.pc = "settle", pass.res # "none" PROVE fate'[k] # {}
    BY <2>2, FateGrows, PassRowDoes DEF Decided
  <2> QED BY <1>2, <2>1, <2>2 DEF Deletes
<1> QED BY <1>1, <1>2, RowStep DEF RowStays, RowGoes

\* The row of a reply disappears only after the reply, or a part of it, went
\* out, or after it was expired, poisoned or given up: no reload, crash, full
\* queue or failing database call makes it disappear, however many there are.
THEOREM RepliesAreKept == Spec => []ReplyKept
<1>1. Init => KeptInv
  <2> SUFFICES ASSUME Init PROVE KeptInv
    OBVIOUS
  <2>1. \A r \in Msg : row[r] = NoRow /\ nextId = 1 /\ pass = NoPass
    BY DEF Init
  <2>2. Numbered /\ ReplyKept
    BY <2>1 DEF Init, Numbered, ReplyKept, Spooled, NoRow, NoPass
  <2>3. Decided
    BY WorkerTypes DEF Init, Decided, NoPass
  <2> QED BY <2>2, <2>3, TypeInit DEF KeptInv
<1>2. KeptInv /\ [Next]_vars => KeptInv'
  BY TypeStep, NumberedStep, DecidedStep, KeptStep DEF KeptInv
<1>3. KeptInv => ReplyKept
  BY DEF KeptInv
<1> QED BY <1>1, <1>2, <1>3, PTL DEF Spec

-----------------------------------------------------------------------------
(* One copy of every reply *)

\* What a claim says about the copies of its row.
Owned ==
    /\ phase # "down" => inst # Nobody
    /\ \A r \in Msg : row[r].owner <= inst
    /\ \A r \in pass.batch : row[r].here /\ row[r].owner = inst
    /\ \A r \in Msg : Stages(r) \cap Outside # {} /\ Spooled(r) =>
          row[r].here /\ (phase # "released" => row[r].owner = inst)
    /\ phase = "boot" => \A r \in HeldBy(row, inst) : ~row[r].stale
    /\ phase = "down" => \A r \in Msg : Stages(r) \subseteq {"new"}

CopyInv == TypeInv /\ Numbered /\ OneStage /\ NoTwins /\ Unstarted /\ Owned

\* Nothing that takes longer than StaleClaimTimeout happens between the wiring
\* of the bus and Drain.
PromptBoot == "boot" \notin SlowPhases

\* The statement that hands the row of k back.
HandsBack(k) ==
    \/ PublishRelease(k)
    \/ \E g \in Gen : DispatchRoute(g) /\ k = disp[g].msg /\ ReleaseRow(k)
    \/ \E c \in Channel, g \in Gen : SenderSettle(c, g) /\ k = sender[c][g].msg
    \/ PassRow(k) /\ k \notin pass'.batch
    \/ PassRelease /\ k \in pass.mine
    \/ ShutdownRelease

\* What a step may do to the claim of k's row.
LEMMA OwnerStep ==
    ASSUME TypeInv, [Next]_vars, NEW k \in Msg
    PROVE  \/ row'[k].owner = row[k].owner
           \/ PublishSpool(k) /\ row'[k].owner = inst
           \/ ~row'[k].here /\ row'[k].owner = Nobody
           \/ row'[k].owner = Nobody /\ row[k].owner = inst /\ HandsBack(k)
           \/ StartAll /\ row'[k].owner = Nobody /\ row[k].here /\ row[k].stale
           \/ /\ PassClaim /\ k \in NextBatch(row) /\ row'[k].owner = inst
              /\ pass'.batch = NextBatch(row)
<1> USE DEF disk, proc, src, wired, ghost
<1>a. row \in Table /\ inst \in Nat /\ nextId \in Nat \ {0} /\ pass.mine \subseteq Msg
  BY RowTypes
<1>b. ASSUME NEW S, row' = ReleaseIDs(row, S, inst)
      PROVE  \/ row'[k].owner = row[k].owner
             \/ row'[k].owner = Nobody /\ row[k].owner = inst /\ k \in S
  BY <1>a, <1>b, ReleaseIDsClaims
<1>c. ASSUME NEW r \in Msg, ReleaseRow(r)
      PROVE  \/ row'[k].owner = row[k].owner
             \/ row'[k].owner = Nobody /\ row[k].owner = inst /\ k = r
  <2>1. row' \in {row, ReleaseIDs(row, {r}, inst)}
    BY <1>c DEF ReleaseRow, Settle
  <2> QED BY <2>1, <1>b
<1>d. ASSUME NEW r \in Msg, NEW t \in Table, \A m \in Msg : t[m].owner = row[m].owner,
             row' = Complete(t, r)
      PROVE  \/ row'[k].owner = row[k].owner
             \/ r = k /\ row'[k].owner = Nobody /\ ~row'[k].here /\ row'[k].id = t[k].id
  <2>1. CASE r = k
    BY <2>1, <1>d, CompleteClaims DEF Complete, Table
  <2>2. CASE r # k
    BY <2>2, <1>d, CompleteClaims
  <2> QED BY <2>1, <2>2
<1>1. ASSUME UNCHANGED row PROVE row'[k].owner = row[k].owner
  BY <1>1
<1>2. ASSUME NEW r \in Msg, PublishSpool(r)
      PROVE  row'[k].owner = row[k].owner \/ (PublishSpool(k) /\ row'[k].owner = inst)
  <2>1. CASE row' = EnqueueClaimed(row, r, nextId, inst)
    BY <2>1, <1>2, <1>a DEF EnqueueClaimed, Table
  <2> QED BY <2>1, <1>1, <1>2 DEF PublishSpool
<1>3. ASSUME NEW r \in Msg, PublishRelease(r)
      PROVE  \/ row'[k].owner = row[k].owner
             \/ row'[k].owner = Nobody /\ row[k].owner = inst /\ HandsBack(k)
  <2>1. ReleaseRow(r)
    BY <1>3 DEF PublishRelease
  <2> QED BY <2>1, <1>3, <1>c DEF HandsBack
<1>4. CASE StartAll
  <2>1. row' \in {row, ReclaimStale(row)}
    BY <1>4 DEF StartAll
  <2> QED BY <2>1, <1>4, <1>a, <1>1, ReclaimStaleClaims
<1>5. CASE ShutdownRelease
  <2>1. row' \in {row, ReleaseClaims(row, inst)}
    BY <1>5 DEF ShutdownRelease
  <2> QED BY <2>1, <1>5, <1>a, <1>1, ReleaseClaimsClaims DEF HandsBack
<1>6. CASE Age
  <2>1. row' = AgeClaims(row)
    BY <1>6 DEF Age
  <2> QED BY <2>1, <1>a, AgeClaimsClaims
<1>7. CASE PassClaim
  <2>1. CASE row' = ClaimBatch(row, inst) /\ pass'.batch = NextBatch(row)
    BY <2>1, <1>7, <1>a, ClaimBatchClaims
  <2> QED BY <2>1, <1>7, <1>1, PassClaimDoes
<1>8. CASE PassRelease
  <2>1. row' \in {row, ReleaseIDs(row, pass.mine, inst)}
    BY <1>8 DEF PassRelease
  <2> QED BY <2>1, <1>8, <1>b DEF HandsBack
<1>9. ASSUME NEW g \in Gen, DispatchRoute(g)
      PROVE  \/ row'[k].owner = row[k].owner
             \/ row'[k].owner = Nobody /\ row[k].owner = inst /\ HandsBack(k)
  <2>1. disp[g] \in Worker /\ disp[g].pc = "got"
    BY <1>9 DEF DispatchRoute, TypeInv, TypeOK, WorkType
  <2>2. PICK r \in Msg : r = disp[g].msg
    BY <2>1, WorkerCases
  <2>3. UNCHANGED row \/ ReleaseRow(r)
    BY <1>9, <2>2 DEF DispatchRoute
  <2> QED BY <2>2, <2>3, <1>9, <1>1, <1>c DEF HandsBack
<1>10. ASSUME NEW c \in Channel, NEW g \in Gen, SenderSettle(c, g)
       PROVE  \/ row'[k].owner = row[k].owner
              \/ row'[k].owner = Nobody /\ row[k].owner = inst /\ HandsBack(k)
              \/ ~row'[k].here /\ row'[k].owner = Nobody
  <2>1. sender[c][g] \in Worker /\ sender[c][g].pc = "sent"
    BY <1>10 DEF SenderSettle, TypeInv, TypeOK, WorkType
  <2>2. PICK r \in Msg : r = sender[c][g].msg
    BY <2>1, WorkerCases
  <2>3. CASE ReleaseRow(r)
    BY <2>2, <2>3, <1>10, <1>c DEF HandsBack
  <2>4. CASE row' = Complete(row, r)
    BY <2>4, <1>a, <1>d
  <2>5. ReleaseRow(r) \/ row' = Complete(row, r) \/ UNCHANGED row
    BY <1>10, <2>2 DEF SenderSettle, Settle
  <2> QED BY <2>3, <2>4, <2>5, <1>1
<1>11. ASSUME NEW r \in Msg, PassRow(r)
       PROVE  \/ row'[k].owner = row[k].owner
              \/ row'[k].owner = Nobody /\ row[k].owner = inst /\ HandsBack(k)
              \/ ~row'[k].here /\ row'[k].owner = Nobody
  <2>1. IncAttempt(row, r) \in Table /\ \A m \in Msg : IncAttempt(row, r)[m].owner = row[m].owner
    BY <1>a, IncAttemptClaims, IncAttemptKeepsRows DEF SameRows
  <2>2. CASE row' = IncAttempt(row, r) \/ UNCHANGED row
    BY <2>1, <2>2
  <2>3. CASE row' = Complete(row, r) \/ row' = Complete(IncAttempt(row, r), r)
    BY <2>1, <2>3, <1>a, <1>d
  <2>4. CASE row' = ReleaseIDs(row, {r}, inst) /\ Advance(r, TRUE)
    <3>1. r \notin pass'.batch
      BY <2>4, AdvanceDoes
    <3> QED BY <3>1, <2>4, <1>11, <1>b DEF HandsBack
  <2> QED
    BY <1>11, <2>2, <2>3, <2>4
       DEF PassRow, PassPoison, PassExpired, Drop, PassSend, PassCount, PassSettle
<1>12. CASE \/ Boot \/ GoLive \/ ReloadStop \/ PumpTick \/ PumpStop \/ ChannelsStop \/ ProcessEnd
            \/ (\E S \in SUBSET Channel : ReloadStart(S)) \/ (\E r \in Msg : PublishBus(r))
            \/ (\E g \in Gen : DispatchTake(g))
  BY <1>1, <1>12 DEF Boot, GoLive, ReloadStop, PumpTick, PumpStop, ChannelsStop, ProcessEnd,
                     ReloadStart, PublishBus, DispatchTake
<1>13. ASSUME NEW c \in Channel, NEW g \in Gen, SenderTake(c, g) \/ SenderSend(c, g)
       PROVE  row'[k].owner = row[k].owner
  <2>1. UNCHANGED row
    BY <1>13 DEF SenderTake, SenderSend
  <2> QED BY <2>1
<1>14. CASE UNCHANGED vars
  BY <1>1, <1>14 DEF vars
<1> QED
  BY <1>2, <1>3, <1>4, <1>5, <1>6, <1>7, <1>8, <1>9, <1>10, <1>11, <1>12, <1>13, <1>14
     DEF Next, Publish, Dispatch, Sender, PassStep, PassRow

\* How the process's life goes on.
LEMMA PhaseStep ==
    ASSUME TypeInv, [Next]_vars
    PROVE  \/ UNCHANGED <<phase, inst>>
           \/ Boot /\ phase = "down" /\ phase' = "boot" /\ inst' = inst + 1
           \/ StartAll /\ phase = "boot" /\ phase' = "drain" /\ inst' = inst
           \/ phase = "drain" /\ phase' = "live" /\ inst' = inst
           \/ phase = "live" /\ phase' = "quiet" /\ inst' = inst
           \/ ShutdownRelease /\ pass.pc = "off" /\ phase' = "released" /\ inst' = inst
           \/ ProcessEnd /\ phase' = "down" /\ inst' = inst
<1> USE DEF disk, proc, src, wired, ghost
<1>1. CASE (\E r \in Msg : Publish(r)) \/ \E g \in Gen : Dispatch(g)
  BY <1>1 DEF Publish, PublishSpool, PublishBus, PublishRelease, Dispatch, DispatchTake, DispatchRoute
<1>2. ASSUME NEW c \in Channel, NEW g \in Gen, Sender(c, g) PROVE UNCHANGED <<phase, inst>>
  BY <1>2 DEF Sender, SenderTake, SenderSend, SenderSettle
<1>3. CASE Boot \/ StartAll \/ GoLive \/ PumpStop \/ ShutdownRelease \/ ProcessEnd
  BY <1>3 DEF Boot, StartAll, GoLive, PumpStop, ShutdownRelease, ProcessEnd
<1>4. CASE \/ ReloadStop \/ PumpTick \/ PassClaim \/ PassRelease \/ ChannelsStop \/ Age
           \/ \E S \in SUBSET Channel : ReloadStart(S)
  BY <1>4 DEF ReloadStop, PumpTick, PassClaim, PassRelease, ChannelsStop, Age, ReloadStart
<1>5. ASSUME NEW r \in Msg, PassRow(r) PROVE UNCHANGED <<phase, inst>>
  BY <1>5, PassRowDoes
<1>6. CASE UNCHANGED vars
  BY <1>6 DEF vars
<1> QED BY <1>1, <1>2, <1>3, <1>4, <1>5, <1>6 DEF Next, PassStep, PassRow

LEMMA UnstartedStep ==
    ASSUME TypeInv, Unstarted, [Next]_vars
    PROVE  Unstarted'
<1> USE DEF disk, proc, src, wired, ghost
<1>a. /\ disp \in [Gen -> Worker] /\ sender \in [Channel -> [Gen -> Worker]]
      /\ gen \in Nat /\ Gen \subseteq Nat
  BY GenBounds DEF TypeInv, TypeOK, WorkType, Gen
<1>b. Off.pc = "off"
  BY WorkerTypes
<1> DEFINE Rest == \A g \in Gen : g > gen => disp[g] = Off /\ \A c \in Channel : sender[c][g] = Off
<1>c. Rest
  BY DEF Unstarted
<1>d. ASSUME UNCHANGED <<gen, disp, sender>> PROVE Rest'
  BY <1>c, <1>d
<1>1. Rest'
  <2>1. CASE (\E r \in Msg : Publish(r)) \/ (\E r \in Msg : PassRow(r))
    BY <2>1, <1>d, PassRowDoes DEF Publish, PublishSpool, PublishBus, PublishRelease
  <2>2. CASE \/ Boot \/ GoLive \/ ReloadStop \/ PumpTick \/ PassClaim \/ PassRelease
             \/ PumpStop \/ ShutdownRelease \/ ChannelsStop \/ Age
    BY <2>2, <1>d DEF Boot, GoLive, ReloadStop, PumpTick, PassClaim, PassRelease,
                      PumpStop, ShutdownRelease, ChannelsStop, Age
  <2>3. CASE StartAll
    <3>1. gen = 0 /\ 1 > gen /\ 1 \in Gen /\ StartSet \in SUBSET Channel
      BY <2>3, GenBounds, OutboundAssumption DEF StartAll, Unstarted
    <3>2. Start(1, StartSet) \/ UNCHANGED <<gen, cur, disp, sender>>
      BY <2>3 DEF StartAll
    <3> QED BY <3>1, <3>2, StartKeepsWork
  <2>4. ASSUME NEW S \in SUBSET Channel, ReloadStart(S) PROVE Rest'
    <3>1. gen + 1 \in Gen /\ gen + 1 > gen
      BY <2>4, GenBounds DEF ReloadStart
    <3>2. Start(gen + 1, S) \/ UNCHANGED <<gen, cur, disp, sender>>
      BY <2>4 DEF ReloadStart
    <3> QED BY <3>1, <3>2, StartKeepsWork
  <2>5. ASSUME NEW g \in Gen, Dispatch(g) PROVE Rest'
    <3>1. disp[g].pc \in {"idle", "got"} /\ UNCHANGED <<gen, sender>>
      BY <2>5 DEF Dispatch, DispatchTake, DispatchRoute
    <3>2. ~(g > gen)
      BY <3>1, <1>b, <1>c
    <3>3. \A h \in Gen \ {g} : disp'[h] = disp[h]
      BY <2>5, <1>a DEF Dispatch, DispatchTake, DispatchRoute
    <3> QED BY <3>1, <3>2, <3>3, <1>c
  <2>6. ASSUME NEW d \in Channel, NEW g \in Gen, Sender(d, g) PROVE Rest'
    <3>1. sender[d][g].pc \in {"idle", "got", "sent"} /\ UNCHANGED <<gen, disp>>
      BY <2>6 DEF Sender, SenderTake, SenderSend, SenderSettle
    <3>2. ~(g > gen)
      BY <3>1, <1>b, <1>c
    <3>3. PICK w : sender' = [sender EXCEPT ![d][g] = w]
      BY <2>6 DEF Sender, SenderTake, SenderSend, SenderSettle
    <3>4. \A c \in Channel, h \in Gen : c # d \/ h # g => sender'[c][h] = sender[c][h]
      BY <3>3, <1>a
    <3>5. \A h \in Gen : h > gen' => h # g
      BY <3>1, <3>2
    <3> QED BY <3>1, <3>4, <3>5, <1>c
  <2>7. CASE ProcessEnd
    BY <2>7 DEF ProcessEnd
  <2>8. CASE UNCHANGED vars
    BY <2>8, <1>d DEF vars
  <2> QED
    BY <2>1, <2>2, <2>3, <2>4, <2>5, <2>6, <2>7, <2>8 DEF Next, PassStep, PassRow
<1>2. phase' \in {"down", "boot"} => gen' = 0
  <2>1. CASE ProcessEnd
    BY <2>1 DEF ProcessEnd
  <2>2. CASE phase \in {"down", "boot"} /\ ~ProcessEnd /\ ~StartAll
    <3>1. gen' = gen
      <4>1. ASSUME NEW c \in Channel, NEW g \in Gen, Sender(c, g) PROVE gen' = gen
        BY <4>1 DEF Sender, SenderTake, SenderSend, SenderSettle
      <4>2. ASSUME NEW r \in Msg, PassRow(r) PROVE gen' = gen
        BY <4>2, PassRowDoes
      <4>3. ASSUME NEW S \in SUBSET Channel, ReloadStart(S) PROVE FALSE
        BY <4>3, <2>2 DEF ReloadStart, TypeInv, Wiring
      <4> QED
        BY <2>2, <4>1, <4>2, <4>3
           DEF Next, Publish, PublishSpool, PublishBus, PublishRelease, Boot, GoLive, ReloadStop,
               Dispatch, DispatchTake, DispatchRoute, PumpTick, PassStep, PassRow, PassClaim,
               PassRelease, PumpStop, ShutdownRelease, ChannelsStop, Age, vars
    <3> QED BY <2>2, <3>1 DEF Unstarted
  <2>3. CASE StartAll
    BY <2>3 DEF StartAll
  <2> QED BY <2>1, <2>2, <2>3, PhaseStep
<1>3. /\ pass'.pc = "off" => pass' = NoPass
      /\ phase' \in {"down", "boot", "released"} => pass'.pc = "off"
      /\ pass'.batch \subseteq pass'.mine
  <2>a. NoPass.pc = "off" /\ NoPass.batch = {}
    BY DEF NoPass
  <2>1. CASE UNCHANGED pass
    <3>1. phase' \in {"down", "boot", "released"} =>
             \/ phase \in {"down", "boot", "released"} \/ pass.pc = "off" \/ pass' = NoPass
      BY PhaseStep DEF ProcessEnd
    <3> QED BY <2>1, <2>a, <3>1 DEF Unstarted
  <2>2. CASE StartAll /\ pass' = [NoPass EXCEPT !.pc = "claim"]
    <3>1. phase' = "drain"
      BY <2>2 DEF StartAll
    <3> QED BY <2>2, <3>1 DEF NoPass
  <2>3. CASE PumpTick /\ pass' = [NoPass EXCEPT !.pc = "claim"]
    <3>1. phase' = "live"
      BY <2>3 DEF PumpTick
    <3> QED BY <2>3, <3>1 DEF NoPass
  <2>4. CASE PassClaim
    <3>1. phase' = phase /\ pass.pc = "claim"
      BY <2>4 DEF PassClaim
    <3> QED BY <2>4, <3>1, PassClaimDoes DEF Unstarted
  <2>5. CASE pass' = NoPass
    BY <2>5, <2>a DEF NoPass
  <2>6. ASSUME NEW r \in Msg, PassRow(r)
        PROVE  /\ pass'.pc # "off" /\ phase' = phase /\ pass.pc # "off"
               /\ pass'.batch \subseteq pass'.mine
    BY <2>6, PassRowDoes DEF Unstarted
  <2> QED BY <2>1, <2>2, <2>3, <2>4, <2>5, <2>6, PassChange DEF Unstarted
<1> QED BY <1>1, <1>2, <1>3 DEF Unstarted

\* What nobody holds has no copy outside the pass.
LEMMA PendingIsFree ==
    ASSUME CopyInv, phase \in {"drain", "live"}, NEW k \in NextBatch(row)
    PROVE  k \in Msg /\ Stages(k) \subseteq {"pass"}
<1>1. k \in Msg /\ row[k].here /\ row[k].owner = Nobody
  BY BatchIsPending
<1>2. Spooled(k) /\ ~AtNew(k)
  BY <1>1 DEF CopyInv, Numbered
<1>3. Stages(k) \cap Outside = {}
  BY <1>1, <1>2 DEF CopyInv, Owned
<1>4. "new" \notin Stages(k)
  BY <1>2 DEF Stages
<1> QED BY <1>1, <1>3, <1>4 DEF Stages, Stage, Outside

LEMMA OneStageStep ==
    ASSUME CopyInv, [Next]_vars
    PROVE  OneStage'
<1> USE DEF CopyInv
<1> SUFFICES ASSUME NEW k \in Msg PROVE \A s, t \in Stages(k)' : s = t
  BY DEF OneStage
<1>1. ASSUME Stages(k)' = Stages(k) PROVE \A s, t \in Stages(k)' : s = t
  BY <1>1 DEF OneStage
<1>2. ASSUME NEW r \in Msg, NEW s, NEW T, Moves(r, s, T), \A x, y \in T : x = y
      PROVE  \A x, y \in Stages(k)' : x = y
  BY <1>1, <1>2 DEF Moves
<1>3. ASSUME PassClaim, \A m \in Msg : Stages(m)' = IF m \in NextBatch(row) /\ pass'.batch # {}
                                                    THEN Stages(m) \cup {"pass"} ELSE Stages(m)
      PROVE  \A s, t \in Stages(k)' : s = t
  <2>1. CASE k \in NextBatch(row) /\ pass'.batch # {}
    <3>1. phase \in {"drain", "live"}
      BY <1>3, <2>1, PassClaimDoes
    <3> QED BY <1>3, <2>1, <3>1, PendingIsFree
  <2>2. CASE ~(k \in NextBatch(row) /\ pass'.batch # {})
    BY <1>1, <1>3, <2>2
  <2> QED BY <2>1, <2>2
<1>4. ASSUME Stages(k)' \subseteq Stages(k) PROVE \A s, t \in Stages(k)' : s = t
  BY <1>4 DEF OneStage
<1> QED BY StageStep, <1>1, <1>2, <1>3, <1>4 DEF Stays

LEMMA OutsideStays ==
    ASSUME UNCHANGED <<pub, bus, disp, queue, sender>>, NEW k \in Msg
    PROVE  Stages(k)' \cap Outside = Stages(k) \cap Outside
BY StagesAre DEF Stages, Stage, Outside

LEMMA EndLeavesNew ==
    ASSUME ProcessEnd, NEW k \in Msg
    PROVE  Stages(k)' \subseteq {"new"}
<1>1. /\ bus' = <<>> /\ queue' = [c \in Channel |-> [g \in Gen |-> <<>>]]
      /\ disp' = [g \in Gen |-> Off] /\ sender' = [c \in Channel |-> [g \in Gen |-> Off]]
      /\ pass' = NoPass
      /\ pub' = [r \in Msg |-> IF pub[r] = "new" THEN "new" ELSE "done"]
  BY DEF ProcessEnd
<1>2. k # Off.msg
  BY WorkerTypes
<1>3. ~In(<<>>, k)
  BY DEF In
<1>4. ~AtPublisher(k)' /\ ~OnBus(k)' /\ ~Routed(k)' /\ ~InQueue(k)' /\ ~AtSender(k)' /\ ~InPass(k)'
  BY <1>1, <1>2, <1>3 DEF AtPublisher, OnBus, Routed, InQueue, AtSender, InPass, NoPass
<1> QED BY <1>4 DEF Stages, Stage

LEMMA InBatchIsPass ==
    ASSUME CopyInv, NEW k \in pass.batch
    PROVE  k \in Msg /\ Stages(k) = {"pass"}
<1>1. k \in Msg
  BY RowTypes DEF CopyInv
<1>2. "pass" \in Stages(k)
  BY DEF CopyInv, Unstarted, Stages, Stage, InPass
<1> QED BY <1>1, <1>2, OnlyStage DEF CopyInv

LEMMA OutsideFrom ==
    ASSUME CopyInv, [Next]_vars, NEW k \in Msg, Stages(k)' \cap Outside # {}
    PROVE  ~ProcessEnd /\ (PublishSpool(k) \/ Stages(k) \cap Outside # {})
<1> USE DEF CopyInv
<1>1. ~ProcessEnd
  BY EndLeavesNew DEF Outside
<1>2. ASSUME NEW r \in Msg, NEW s \in Outside, NEW T, Moves(r, s, T)
      PROVE  Stages(k) \cap Outside # {}
  BY <1>2 DEF Moves
<1>3. ASSUME NEW r \in Msg, PublishSpool(r), NEW s, NEW T, Moves(r, s, T)
      PROVE  PublishSpool(k) \/ Stages(k) \cap Outside # {}
  BY <1>3 DEF Moves
<1>4. ASSUME Stages(k)' \subseteq Stages(k) \cup {"pass"} PROVE Stages(k) \cap Outside # {}
  BY <1>4 DEF Outside
<1>5. {"publisher", "bus", "routed", "queue", "sender"} = Outside
  BY DEF Outside
<1> QED BY StageStep, <1>1, <1>2, <1>3, <1>4, <1>5 DEF Stays

\* Whoever deletes a row or hands it back has the only copy, and drops it: but
\* for the shutdown, which takes the claims of all.
LEMMA LastCopy ==
    ASSUME CopyInv, [Next]_vars, NEW k \in Msg, Stages(k)' \cap Outside # {}
    PROVE  /\ ~Deletes(k)
           /\ HandsBack(k) /\ row'[k] # row[k] => ShutdownRelease
<1> USE DEF CopyInv
<1>1. ASSUME NEW s, Moves(k, s, {}) PROVE FALSE
  BY <1>1 DEF Moves
<1>2. ASSUME NEW c \in Channel, NEW g \in Gen, SenderSettle(c, g), k = sender[c][g].msg PROVE FALSE
  BY <1>1, <1>2, SenderSettleMoves
<1>3. ASSUME PassRow(k) PROVE FALSE
  <2>1. k \in pass.batch
    BY <1>3, PassRowDoes DEF Oldest
  <2>2. Stages(k) \cap Outside = {}
    BY <2>1, InBatchIsPass DEF Outside
  <2> QED BY <2>2, <1>3, PassRowDoes, OutsideStays
<1>4. ASSUME PassRelease, k \in pass.mine PROVE FALSE
  <2>1. "pass" \in Stages(k)
    BY <1>4 DEF Stages, Stage, InPass
  <2>2. Stages(k) \cap Outside = {}
    BY <2>1, OnlyStage DEF Outside
  <2>3. UNCHANGED <<pub, bus, disp, queue, sender>>
    BY <1>4 DEF PassRelease, src
  <2> QED BY <2>2, <2>3, OutsideStays
<1>5. ASSUME PublishRelease(k) PROVE FALSE
  BY <1>1, <1>5, PublishReleaseMoves
<1>6. ASSUME NEW g \in Gen, DispatchRoute(g), k = disp[g].msg, row' # row PROVE FALSE
  BY <1>1, <1>6, DispatchRouteMoves
<1> QED BY <1>2, <1>3, <1>4, <1>5, <1>6 DEF Deletes, HandsBack

LEMMA CopiesOwned ==
    ASSUME CopyInv, PromptBoot, [Next]_vars,
           NEW k \in Msg, Stages(k)' \cap Outside # {}, Spooled(k)'
    PROVE  row'[k].here /\ (phase' # "released" => row'[k].owner = inst')
<1> USE DEF CopyInv
<1>1. CASE PublishSpool(k)
  <2>1. ~Spooled(k) /\ UNCHANGED <<phase, inst>>
    BY <1>1 DEF PublishSpool, Numbered, AtNew, proc
  <2>2. row'[k].id # row[k].id /\ row'[k] # row[k]
    BY <2>1 DEF Spooled
  <2> QED BY <2>1, <2>2, RowStep DEF RowStays, RowGoes
<1>2. CASE ~PublishSpool(k)
  <2>1. Spooled(k)
    BY <1>2, RowStep DEF RowStays, RowGoes, Spooled
  <2>2. Stages(k) \cap Outside # {} /\ ~ProcessEnd
    BY <1>2, OutsideFrom
  <2>3. row[k].here /\ (phase # "released" => row[k].owner = inst)
    BY <2>1, <2>2 DEF Owned
  <2>4. row'[k].here
    BY <1>2, <2>3, RowStep, LastCopy DEF RowStays, RowGoes
  <2>5. ASSUME phase' # "released" PROVE row'[k].owner = inst'
    <3>1. phase # "down"
      BY <2>2 DEF Owned, Outside
    <3>2. phase # "released" /\ inst' = inst
      BY <2>2, <2>5, <3>1, PhaseStep
    <3>3. row[k].owner = inst /\ inst # Nobody
      BY <2>3, <3>1, <3>2 DEF Owned
    <3>4. CASE row'[k].owner = row[k].owner
      BY <3>2, <3>3, <3>4
    <3>5. CASE row'[k].owner = Nobody /\ HandsBack(k)
      <4>1. ShutdownRelease
        BY <3>3, <3>5, LastCopy
      <4> QED BY <4>1, <2>5 DEF ShutdownRelease
    <3>6. CASE StartAll /\ row[k].here /\ row[k].stale
      <4>1. phase = "boot" /\ k \in HeldBy(row, inst)
        BY <3>3, <3>6 DEF StartAll, HeldBy
      <4> QED BY <4>1, <3>6 DEF Owned
    <3> QED BY <1>2, <2>4, <3>2, <3>4, <3>5, <3>6, OwnerStep
  <2> QED BY <2>4, <2>5
<1> QED BY <1>1, <1>2

\* The batch of a pass is claimed until the pass is done with it.
LEMMA BatchOwned ==
    ASSUME CopyInv, [Next]_vars, NEW k \in pass'.batch
    PROVE  row'[k].here /\ row'[k].owner = inst'
<1> USE DEF CopyInv
<1>a. row \in Table /\ inst \in Nat
  BY RowTypes
<1>b. NoPass.batch = {} /\ NoPass.pc = "off" /\ [NoPass EXCEPT !.pc = "claim"].batch = {}
  BY DEF NoPass
<1>1. CASE k \notin pass.batch
  <2>1. PassClaim /\ pass'.batch = NextBatch(row) /\ row' = ClaimBatch(row, inst) /\ inst' = inst
    BY <1>1, <1>b, PassChange, PassRowDoes, PassClaimDoes
  <2>2. k \in Msg /\ row[k].here
    BY <2>1, BatchIsPending
  <2> QED BY <1>a, <2>1, <2>2, ClaimBatchClaims, ClaimBatchKeepsRows DEF SameRows
<1>2. CASE k \in pass.batch
  <2>1. k \in Msg /\ Stages(k) = {"pass"}
    BY <1>2, InBatchIsPass
  <2>2. row[k].here /\ row[k].owner = inst
    BY <1>2 DEF Owned
  <2>3. pass.pc # "off" /\ pass' # NoPass
    BY <1>2, <1>b DEF Unstarted
  <2>4. phase \notin {"down", "boot", "released"} /\ ~ProcessEnd /\ ~ShutdownRelease
    BY <2>3 DEF Unstarted, ProcessEnd, ShutdownRelease
  <2>5. inst' = inst /\ ~StartAll
    BY <2>4, PhaseStep DEF StartAll
  <2>6. \A s, T : Moves(k, s, T) => s = "pass"
    BY <2>1 DEF Moves
  <2>7. ~PublishSpool(k) /\ ~PublishRelease(k)
    BY <2>1, <2>6, PublishSpoolMoves, PublishReleaseMoves
  <2>8. \A c \in Channel, g \in Gen : SenderSettle(c, g) => k # sender[c][g].msg
    BY <2>6, SenderSettleMoves
  <2>9. \A g \in Gen : DispatchRoute(g) => k # disp[g].msg
    BY <2>6, DispatchRouteMoves
  <2>10. ~Deletes(k) /\ ~HandsBack(k)
    <3>1. ~PassRelease
      BY <2>3 DEF PassRelease
    <3> QED BY <2>4, <2>7, <2>8, <2>9, <3>1 DEF Deletes, HandsBack
  <2>11. row'[k].here
    BY <2>1, <2>2, <2>7, <2>10, RowStep DEF RowStays, RowGoes
  <2> QED BY <2>1, <2>2, <2>5, <2>7, <2>10, <2>11, OwnerStep
<1> QED BY <1>1, <1>2

\* Only time makes a claim stale.
LEMMA StaleStep ==
    ASSUME TypeInv, [Next]_vars, NEW k \in Msg, row'[k].stale, ~Age
    PROVE  row[k].stale /\ row'[k].owner = row[k].owner /\ row'[k].here = row[k].here
<1> USE DEF disk, proc, src, wired, ghost
<1> DEFINE Same == row[k].stale /\ row'[k].owner = row[k].owner /\ row'[k].here = row[k].here
<1>a. row \in Table /\ inst \in Nat /\ nextId \in Nat \ {0}
  BY RowTypes
<1>1. CASE UNCHANGED row
  BY <1>1
<1>2. ASSUME NEW S, row' = ReleaseIDs(row, S, inst) PROVE Same
  BY <1>a, <1>2 DEF Table, Row, ReleaseIDs
<1>3. ASSUME NEW r \in Msg, NEW t \in Table, row' = Complete(t, r), t[k].stale = row[k].stale,
             t[k].owner = row[k].owner, t[k].here = row[k].here
      PROVE  Same
  BY <1>a, <1>3 DEF Table, Row, Complete
<1>4. ASSUME NEW r \in Msg
      PROVE  /\ IncAttempt(row, r) \in Table
             /\ IncAttempt(row, r)[k].stale = row[k].stale
             /\ IncAttempt(row, r)[k].owner = row[k].owner
             /\ IncAttempt(row, r)[k].here = row[k].here
  BY <1>a, SpoolAssumption DEF Table, Row, IncAttempt
<1>5. ASSUME NEW r \in Msg, PublishSpool(r) PROVE Same
  <2>1. CASE row' = EnqueueClaimed(row, r, nextId, inst)
    BY <2>1, <1>a DEF EnqueueClaimed, Table, Row
  <2> QED BY <2>1, <1>1, <1>5 DEF PublishSpool
<1>6. ASSUME NEW r \in Msg, PublishRelease(r) PROVE Same
  BY <1>6, <1>1, <1>2 DEF PublishRelease, ReleaseRow, Settle
<1>7. ASSUME NEW g \in Gen, DispatchRoute(g) PROVE Same
  BY <1>7, <1>1, <1>2 DEF DispatchRoute, ReleaseRow, Settle
<1>8. ASSUME NEW c \in Channel, NEW g \in Gen, SenderSettle(c, g) PROVE Same
  <2>1. sender[c][g] \in Worker /\ sender[c][g].pc = "sent"
    BY <1>8 DEF SenderSettle, TypeInv, TypeOK, WorkType
  <2>2. PICK r \in Msg : r = sender[c][g].msg
    BY <2>1, WorkerCases
  <2>3. row' = row \/ row' = Complete(row, r) \/ row' = ReleaseIDs(row, {r}, inst)
    BY <1>8, <2>2 DEF SenderSettle, Settle, ReleaseRow
  <2> QED BY <2>3, <1>a, <1>1, <1>2, <1>3
<1>9. CASE StartAll
  <2>1. CASE row' = ReclaimStale(row)
    BY <2>1, <1>a DEF ReclaimStale, Table, Row
  <2> QED BY <2>1, <1>1, <1>9 DEF StartAll
<1>10. CASE ShutdownRelease
  <2>1. CASE row' = ReleaseClaims(row, inst)
    BY <2>1, <1>a DEF ReleaseClaims, Table, Row
  <2> QED BY <2>1, <1>1, <1>10 DEF ShutdownRelease
<1>11. CASE PassClaim
  <2>1. CASE row' = ClaimBatch(row, inst)
    BY <2>1, <1>a DEF ClaimBatch, Table, Row
  <2> QED BY <2>1, <1>1, <1>11, PassClaimDoes
<1>12. CASE PassRelease
  BY <1>12, <1>1, <1>2 DEF PassRelease
<1>13. ASSUME NEW r \in Msg, PassRow(r) PROVE Same
  <2>1. \/ row' = row \/ row' = IncAttempt(row, r) \/ row' = Complete(row, r)
        \/ row' = Complete(IncAttempt(row, r), r) \/ row' = ReleaseIDs(row, {r}, inst)
    BY <1>13 DEF PassRow, PassPoison, PassExpired, Drop, PassSend, PassCount, PassSettle
  <2> QED BY <2>1, <1>a, <1>1, <1>2, <1>3, <1>4
<1>14. CASE \/ Boot \/ GoLive \/ ReloadStop \/ PumpTick \/ PumpStop \/ ChannelsStop \/ ProcessEnd
            \/ (\E S \in SUBSET Channel : ReloadStart(S)) \/ (\E r \in Msg : PublishBus(r))
            \/ (\E g \in Gen : DispatchTake(g))
  BY <1>1, <1>14 DEF Boot, GoLive, ReloadStop, PumpTick, PumpStop, ChannelsStop, ProcessEnd,
                     ReloadStart, PublishBus, DispatchTake
<1>15. ASSUME NEW c \in Channel, NEW g \in Gen, SenderTake(c, g) \/ SenderSend(c, g) PROVE Same
  BY <1>15, <1>1 DEF SenderTake, SenderSend
<1>16. CASE UNCHANGED vars
  BY <1>1, <1>16 DEF vars
<1> QED
  BY <1>5, <1>6, <1>7, <1>8, <1>9, <1>10, <1>11, <1>12, <1>13, <1>14, <1>15, <1>16
     DEF Next, Publish, Dispatch, Sender, PassStep, PassRow

LEMMA OwnedStep ==
    ASSUME CopyInv, PromptBoot, [Next]_vars
    PROVE  Owned'
<1> USE DEF CopyInv
<1>a. inst \in Nat /\ \A r \in Msg : row[r].owner \in Nat
  BY RowTypes
<1>1. phase' # "down" => inst' # Nobody
  BY <1>a, PhaseStep DEF Owned, Nobody, Boot, StartAll, ShutdownRelease
<1>2. ASSUME NEW k \in Msg PROVE row'[k].owner <= inst'
  <2>1. inst <= inst' /\ inst' \in Nat
    BY <1>a, PhaseStep
  <2>2. row'[k].owner \in {row[k].owner, inst, Nobody}
    BY OwnerStep
  <2> QED BY <1>a, <2>1, <2>2 DEF Owned, Nobody
<1>3. \A k \in pass'.batch : row'[k].here /\ row'[k].owner = inst'
  BY BatchOwned
<1>4. \A k \in Msg : Stages(k)' \cap Outside # {} /\ Spooled(k)' =>
         row'[k].here /\ (phase' # "released" => row'[k].owner = inst')
  BY CopiesOwned
<1>5. ASSUME phase' = "boot", NEW k \in Msg, row'[k].here, row'[k].owner = inst'
      PROVE  ~row'[k].stale
  <2>1. ~Age
    BY <1>5 DEF Age, proc, PromptBoot
  <2>2. CASE Boot /\ inst' = inst + 1
    <3>1. UNCHANGED row
      BY <2>2 DEF Boot, disk
    <3> QED BY <3>1, <2>2, <1>5, <1>a DEF Owned
  <2>3. CASE phase = "boot" /\ inst' = inst
    BY <2>1, <2>3, <1>5, StaleStep DEF Owned, HeldBy
  <2>4. (Boot /\ inst' = inst + 1) \/ (phase = "boot" /\ inst' = inst)
    BY <1>5, PhaseStep
  <2> QED BY <2>2, <2>3, <2>4
<1>6. ASSUME phase' = "down", NEW k \in Msg PROVE Stages(k)' \subseteq {"new"}
  <2>1. CASE ProcessEnd
    BY <2>1, EndLeavesNew
  <2>2. CASE phase = "down"
    <3>1. Stages(k) \subseteq {"new"} /\ \A m \in Msg : Stages(m) \subseteq {"new"}
      BY <2>2 DEF Owned
    <3>2. \A m \in Msg : \A s, T : Moves(m, s, T) => s = "new"
      BY <3>1 DEF Moves
    <3>3. ~PassClaim /\ \A m \in Msg : ~PublishSpool(m)
      BY <2>2 DEF Unstarted, PassClaim, PublishSpool
    <3> QED BY <3>1, <3>2, <3>3, StageStep DEF Stays
  <2> QED BY <2>1, <2>2, <1>6, PhaseStep
<1> QED BY <1>1, <1>2, <1>3, <1>4, <1>5, <1>6 DEF Owned, HeldBy

LEMMA CopyInit == Init => CopyInv
<1> SUFFICES ASSUME Init PROVE CopyInv
  OBVIOUS
<1>1. \A k \in Msg : /\ ~AtPublisher(k) /\ ~OnBus(k) /\ ~Routed(k) /\ ~InQueue(k)
                     /\ ~AtSender(k) /\ ~InPass(k)
  BY WorkerTypes
     DEF Init, AtPublisher, OnBus, In, Routed, InQueue, AtSender, InPass, NoPass
<1>2. \A k \in Msg : Stages(k) \subseteq {"new"}
  BY <1>1 DEF Stages, Stage
<1>3. Numbered
  BY DEF Init, Numbered, Spooled, NoRow, NoPass
<1>4. OneStage
  BY <1>2 DEF OneStage
<1>5. NoTwins
  <2>1. Distinct(<<>>) /\ \A k : ~In(<<>>, k)
    BY DEF Distinct, In
  <2> QED BY <2>1, WorkerTypes DEF Init, NoTwins
<1>6. Unstarted
  BY DEF Init, Unstarted, NoPass
<1>7. Owned
  BY <1>2 DEF Init, Owned, NoPass, NoRow, Nobody, Outside
<1> QED BY <1>3, <1>4, <1>5, <1>6, <1>7, TypeInit DEF CopyInv

LEMMA CopyStep == CopyInv /\ PromptBoot /\ [Next]_vars => CopyInv'
BY TypeStep, NumberedStep, OneStageStep, StageStep, UnstartedStep, OwnedStep DEF CopyInv

-----------------------------------------------------------------------------
(* Who sends *)

\* Only a dispatcher and the pass put a reply on the wire, and what was on it
\* before is put there by no other step.
Sends(r) ==
    \/ \E c \in Channel, g \in Gen :
          /\ SenderSend(c, g) /\ r = sender[c][g].msg /\ sender[c][g].pc = "got"
          /\ sender'[c][g].msg = r /\ sender'[c][g].pc = "sent"
          /\ sender'[c][g].res \in {"delivered", "partial"}
    \/ /\ PassSend(r) /\ pass'.batch = pass.batch
       /\ pass'.pc = "settle" /\ pass'.res \in {"delivered", "partial"}

LEMMA WireStep ==
    ASSUME TypeInv, OneStage, NoTwins, [Next]_vars, NEW r \in Msg
    PROVE  \/ wire'[r] = wire[r]
           \/ /\ Sends(r)
              /\ wire'[r] = [wire[r] EXCEPT ![inst] = IF @ < 2 THEN @ + 1 ELSE 2]
<1> USE DEF disk, proc, src, wired, ghost
<1>a. wire \in [Msg -> [Inst -> 0..2]]
  BY DEF TypeInv, TypeOK, GhostType
<1> DEFINE Counted(q) == wire'[q] = [wire[q] EXCEPT ![inst] = IF @ < 2 THEN @ + 1 ELSE 2]
<1>b. ASSUME NEW q \in Msg, NEW res, Transmit(q, res)
      PROVE  \/ wire'[r] = wire[r]
             \/ q = r /\ res \in {"delivered", "partial"} /\ Counted(r)
  <2>1. CASE res = "none"
    BY <2>1, <1>b DEF Transmit
  <2>2. CASE res # "none"
    <3> DEFINE w == [wire[q] EXCEPT ![inst] = IF @ < 2 THEN @ + 1 ELSE 2]
    <3>1. wire' = [wire EXCEPT ![q] = w]
      BY <2>2, <1>b DEF Transmit
    <3> HIDE DEF w
    <3>2. wire'[q] = w /\ \A k \in Msg \ {q} : wire'[k] = wire[k]
      BY <3>1, <1>a
    <3>3. res \in {"delivered", "partial"}
      BY <2>2, <1>b DEF Transmit
    <3> QED BY <3>2, <3>3 DEF w
  <2> QED BY <2>1, <2>2
<1>1. CASE UNCHANGED wire
  BY <1>1
<1>2. ASSUME NEW c \in Channel, NEW g \in Gen, SenderSend(c, g)
      PROVE  wire'[r] = wire[r] \/ (Sends(r) /\ Counted(r))
  <2>1. sender[c][g] \in Worker /\ sender[c][g].pc = "got"
    BY <1>2 DEF SenderSend, TypeInv, TypeOK, WorkType
  <2>2. PICK q \in Msg : q = sender[c][g].msg
    BY <2>1, WorkerCases
  <2>3. PICK res \in {"delivered", "partial", "none"} :
           /\ Transmit(q, res)
           /\ sender'[c][g] = [pc |-> "sent", msg |-> q, res |-> res]
    BY <1>2, <2>2, SenderSendMoves
  <2>4. sender'[c][g].msg = q /\ sender'[c][g].pc = "sent" /\ sender'[c][g].res = res
    BY <2>3
  <2> HIDE DEF Counted
  <2>5. wire'[r] = wire[r] \/ (q = r /\ res \in {"delivered", "partial"} /\ Counted(r))
    BY <2>3, <1>b
  <2> QED BY <1>2, <2>1, <2>2, <2>4, <2>5 DEF Sends
<1>3. ASSUME NEW q \in Msg, PassSend(q)
      PROVE  wire'[r] = wire[r] \/ (Sends(r) /\ Counted(r))
  <2>1. PICK res \in {"delivered", "partial", "none"} :
           /\ Transmit(q, res)
           /\ pass' = [pass EXCEPT !.res = res, !.pc = IF res = "none" THEN "count" ELSE "settle"]
    BY <1>3 DEF PassSend
  <2>2. pass'.batch = pass.batch /\ pass'.res = res /\ (res # "none" => pass'.pc = "settle")
    BY <2>1 DEF TypeInv, TypeOK, WorkType
  <2> HIDE DEF Counted
  <2>3. wire'[r] = wire[r] \/ (q = r /\ res \in {"delivered", "partial"} /\ Counted(r))
    BY <2>1, <1>b
  <2> QED BY <1>3, <2>2, <2>3 DEF Sends
<1>4. CASE (\E q \in Msg : Publish(q)) \/ \E g \in Gen : Dispatch(g)
  BY <1>1, <1>4 DEF Publish, PublishSpool, PublishBus, PublishRelease,
                    Dispatch, DispatchTake, DispatchRoute
<1>5. ASSUME NEW c \in Channel, NEW g \in Gen, SenderTake(c, g) \/ SenderSettle(c, g)
      PROVE  wire'[r] = wire[r]
  <2>1. UNCHANGED wire
    BY <1>5 DEF SenderTake, SenderSettle
  <2> QED BY <2>1
<1>6. CASE \/ Boot \/ StartAll \/ GoLive \/ ReloadStop \/ PumpTick \/ PassClaim \/ PassRelease
           \/ PumpStop \/ ShutdownRelease \/ ChannelsStop \/ ProcessEnd \/ Age
           \/ \E S \in SUBSET Channel : ReloadStart(S)
  BY <1>1, <1>6 DEF Boot, StartAll, GoLive, ReloadStop, PumpTick, PassClaim, PassRelease,
                    PumpStop, ShutdownRelease, ChannelsStop, ProcessEnd, Age, ReloadStart
<1>7. ASSUME NEW q \in Msg, PassPoison(q) \/ PassExpired(q) \/ PassCount(q) \/ PassSettle(q)
      PROVE  wire'[r] = wire[r]
  BY <1>7 DEF PassPoison, PassExpired, PassCount, PassSettle
<1>8. CASE UNCHANGED vars
  BY <1>1, <1>8 DEF vars
<1> QED
  BY <1>2, <1>3, <1>4, <1>5, <1>6, <1>7, <1>8 DEF Next, Sender, PassStep, PassRow

\* Whoever sends a reply has its only copy, and its row is there.
LEMMA SenderOwns ==
    ASSUME CopyInv, NEW r \in Msg, Sends(r)
    PROVE  /\ Spooled(r) => row[r].here
           /\ phase # "down" /\ inst \in Inst
           /\ ~\E c \in Channel, g \in Gen : sender[c][g].msg = r /\ sender[c][g].pc = "sent"
           /\ ~(pass.pc = "settle" /\ Oldest(r))
<1> USE DEF CopyInv
<1>a. inst \in 0..MaxBoots /\ MaxBoots \in Nat
  BY OutboundAssumption DEF TypeInv, TypeOK, ProcType
<1>1. ASSUME NEW c \in Channel, NEW g \in Gen, sender[c][g].msg = r PROVE Stages(r) = {"sender"}
  <2>1. "sender" \in Stages(r)
    BY <1>1 DEF Stages, Stage, AtSender
  <2> QED BY <2>1, OnlyStage
<1>2. CASE \E c \in Channel, g \in Gen : sender[c][g].msg = r /\ sender[c][g].pc = "got"
  <2>1. PICK c \in Channel, g \in Gen : sender[c][g].msg = r /\ sender[c][g].pc = "got"
    BY <1>2
  <2>2. Stages(r) = {"sender"}
    BY <1>1, <2>1
  <2>3. phase # "down" /\ (Spooled(r) => row[r].here)
    BY <2>2 DEF Owned, Outside
  <2>4. \A d \in Channel, h \in Gen : sender[d][h].msg = r => sender[d][h].pc = "got"
    BY <2>1 DEF NoTwins
  <2>5. r \notin pass.batch
    BY <2>2, InBatchIsPass
  <2> QED BY <1>a, <2>3, <2>4, <2>5 DEF Oldest, Inst, Owned, Nobody
<1>3. CASE PassSend(r)
  <2>1. pass.pc = "item" /\ r \in pass.batch
    BY <1>3 DEF PassSend, Oldest
  <2>2. Stages(r) = {"pass"} /\ row[r].here
    BY <2>1, InBatchIsPass DEF Owned
  <2>3. phase # "down"
    BY <2>1 DEF Unstarted
  <2> QED BY <1>a, <1>1, <2>1, <2>2, <2>3 DEF Inst, Owned, Nobody
<1> QED BY <1>2, <1>3 DEF Sends

\* Once the row of a reply is gone, its copies are too: nobody puts it on the
\* wire again, in the queue of a channel that a reload replaced, in a batch
\* claimed before the row went, or in a later process.
THEOREM GoneStaysSilent == ASSUME PromptBoot PROVE Spec => GoneIsSilent
<1>1. CopyInv /\ [Next]_vars => CopyInv'
  BY CopyStep
<1>2. CopyInv /\ [Next]_vars =>
         [\A r \in Msg : (Spooled(r) /\ ~row[r].here) => wire'[r] = wire[r]]_vars
  <2> SUFFICES ASSUME CopyInv, [Next]_vars, NEW r \in Msg, Spooled(r), ~row[r].here
               PROVE  wire'[r] = wire[r]
    OBVIOUS
  <2> QED BY WireStep, SenderOwns DEF CopyInv
<1> QED BY <1>1, <1>2, CopyInit, PTL DEF Spec, GoneIsSilent

-----------------------------------------------------------------------------
(* Every claim has somebody to settle it *)

\* A database call that fails is counted, and no other step counts.
LEMMA FaultStep ==
    ASSUME TypeInv, [Next]_vars
    PROVE  UNCHANGED faults \/ faults' = faults + 1
<1> USE DEF disk, proc, src, wired, ghost, Succeeds, Fails
<1>1. CASE (\E r \in Msg : Publish(r)) \/ \E g \in Gen : Dispatch(g)
  BY <1>1 DEF Publish, PublishSpool, PublishBus, PublishRelease, ReleaseRow, Settle,
              Dispatch, DispatchTake, DispatchRoute
<1>2. ASSUME NEW c \in Channel, NEW g \in Gen, Sender(c, g)
      PROVE  UNCHANGED faults \/ faults' = faults + 1
  BY <1>2 DEF Sender, SenderTake, SenderSend, SenderSettle, ReleaseRow, Settle
<1>3. CASE \/ Boot \/ StartAll \/ GoLive \/ ReloadStop \/ PumpTick \/ PassClaim \/ PassRelease
           \/ PumpStop \/ ShutdownRelease \/ ChannelsStop \/ ProcessEnd \/ Age
           \/ \E S \in SUBSET Channel : ReloadStart(S)
  BY <1>3 DEF Boot, StartAll, GoLive, ReloadStop, PumpTick, PassClaim, PassRelease,
              PumpStop, ShutdownRelease, ChannelsStop, ProcessEnd, Age, ReloadStart
<1>4. ASSUME NEW r \in Msg, PassRow(r) PROVE UNCHANGED faults \/ faults' = faults + 1
  BY <1>4 DEF PassRow, PassPoison, PassExpired, PassSend, PassCount, PassSettle, Drop
<1>5. CASE UNCHANGED vars
  BY <1>5 DEF vars
<1> QED BY <1>1, <1>2, <1>3, <1>4, <1>5 DEF Next, PassStep, PassRow

\* Without a failing call every row the process has claimed has a copy in it.
Served ==
    faults = 0 /\ phase \in {"boot", "drain", "live"} =>
        \A r \in HeldBy(row, inst) : Stages(r) # {}

\* Without a failing call a copy is dropped with the claim.
LEMMA DroppedWithClaim ==
    ASSUME CopyInv, [Next]_vars, NEW k \in Msg, phase' # "down", inst # Nobody,
           ~Fails, Stages(k) # {}, Stages(k)' = {}
    PROVE  ~row'[k].here \/ row'[k].owner # inst
<1> USE DEF CopyInv
<1>a. row \in Table /\ inst \in Nat
  BY RowTypes
<1>b. ASSUME NEW S, k \in S, row' = ReleaseIDs(row, S, inst)
      PROVE  ~row'[k].here \/ row'[k].owner # inst
  BY <1>a, <1>b, ReleaseIDsClaims, ReleaseIDsKeepsRows DEF SameRows
<1>c. CASE ReleaseRow(k)
  BY <1>c, <1>b DEF ReleaseRow, Settle
<1>1. ASSUME NEW r \in Msg, NEW s, NEW T, Moves(r, s, T) PROVE r = k /\ T = {}
  BY <1>1 DEF Moves
<1>2. ASSUME NEW r \in Msg, PublishRelease(r), Moves(r, "publisher", {})
      PROVE  ~row'[k].here \/ row'[k].owner # inst
  BY <1>1, <1>2, <1>c DEF PublishRelease
<1>3. ASSUME NEW g \in Gen, NEW r \in Msg, DispatchRoute(g), Moves(r, "routed", {}), ReleaseRow(r)
      PROVE  ~row'[k].here \/ row'[k].owner # inst
  BY <1>1, <1>3, <1>c
<1>4. ASSUME NEW c \in Channel, NEW g \in Gen, NEW r \in Msg,
             SenderSettle(c, g), r = sender[c][g].msg, Moves(r, "sender", {})
      PROVE  ~row'[k].here \/ row'[k].owner # inst
  <2>1. r = k
    BY <1>1, <1>4
  <2>2. CASE row' = Complete(row, k)
    BY <2>2, <1>a, CompleteClaims
  <2>3. ReleaseRow(k) \/ row' = Complete(row, k)
    BY <2>1, <1>4 DEF SenderSettle, Settle
  <2> QED BY <2>2, <2>3, <1>c
<1>5. ASSUME PassClaim, Stages(k) \subseteq Stages(k)' PROVE FALSE
  BY <1>5
<1>6. ASSUME PassRelease, Stages(k)' = Stages(k) \ {"pass"}
      PROVE  ~row'[k].here \/ row'[k].owner # inst
  <2>1. "pass" \in Stages(k)
    BY <1>6
  <2>2. k \in pass.mine
    BY <2>1 DEF Stages, InPass
  <2>3. row' = ReleaseIDs(row, pass.mine, inst)
    BY <1>6 DEF PassRelease
  <2> QED BY <2>2, <2>3, <1>b
<1>7. ~ProcessEnd
  BY DEF ProcessEnd
<1> QED BY StageStep, <1>1, <1>2, <1>3, <1>4, <1>5, <1>6, <1>7 DEF Stays

LEMMA ServedStep ==
    ASSUME CopyInv, Served, [Next]_vars
    PROVE  Served'
<1> USE DEF CopyInv
<1> SUFFICES ASSUME faults' = 0, phase' \in {"boot", "drain", "live"},
                    NEW k \in Msg, row'[k].here, row'[k].owner = inst'
             PROVE  Stages(k)' # {}
  BY DEF Served, HeldBy
<1>a. inst \in Nat /\ row[k].owner \in Nat /\ faults \in Nat
  BY RowTypes, GenBounds DEF TypeInv, TypeOK, GhostType
<1>1. faults = 0 /\ ~Fails
  BY <1>a, FaultStep DEF Fails
<1>2. ~Boot
  <2>1. ASSUME Boot PROVE FALSE
    <3>1. inst' = inst + 1 /\ UNCHANGED row
      BY <2>1 DEF Boot, disk
    <3> QED BY <3>1, <1>a DEF Owned
  <2> QED BY <2>1
<1>3. phase \in {"boot", "drain", "live"} /\ inst' = inst /\ inst # Nobody
  BY <1>2, PhaseStep DEF Owned
<1>4. CASE PublishSpool(k)
  <2>1. pub' = [pub EXCEPT ![k] = "enqueued"] /\ pub \in [Msg -> {"new", "enqueued", "refused", "done"}]
    BY <1>4 DEF PublishSpool, TypeInv, TypeOK, ProcType
  <2>2. AtPublisher(k)'
    BY <2>1 DEF AtPublisher
  <2> QED BY <2>2 DEF Stages, Stage
<1>5. CASE PassClaim /\ k \in NextBatch(row) /\ pass'.batch = NextBatch(row)
  <2>1. k \in pass'.mine
    BY <1>5, PassClaimDoes DEF Unstarted
  <2>2. "pass" \in Stages(k)'
    BY <2>1 DEF Stages, Stage, InPass
  <2> QED BY <2>2
<1>6. CASE row'[k].owner = row[k].owner /\ ~PublishSpool(k)
  <2>1. row[k].here
    BY <1>6, RowStep DEF RowStays, RowGoes
  <2>2. Stages(k) # {}
    BY <2>1, <1>1, <1>3, <1>6 DEF Served, HeldBy
  <2> QED BY <2>2, <1>1, <1>3, DroppedWithClaim
<1> QED BY <1>3, <1>4, <1>5, <1>6, OwnerStep

\* Who reads what: the live generation has a dispatcher on the bus and one on
\* the queue the manager has for each of its channels, and without a reload
\* nothing is in any other queue.
Readers ==
    /\ phase \in {"down", "boot"} => present = {} /\ \A c \in Channel : mapped[c] = 0
    /\ phase \in {"drain", "live"} /\ present # {} => cur # 0
    /\ cur # 0 => /\ disp[cur].pc # "off"
                  /\ \A c \in present : mapped[c] = cur /\ sender[c][cur].pc # "off"
    /\ reload.busy => reload.n # 0
    /\ reload.n = 0 => /\ \A c \in Channel : mapped[c] # 0 => c \in present
                       /\ \A c \in Channel, g \in Gen : queue[c][g] # <<>> => mapped[c] = g

\* A step that starts and stops no dispatcher and fills no empty queue.
LEMMA ReadersKept ==
    ASSUME TypeInv, Readers, UNCHANGED <<cur, present, mapped, reload>>,
           phase' \in {"drain", "live"} => phase \in {"drain", "live"},
           phase' \in {"down", "boot"} => phase \in {"down", "boot"},
           cur # 0 /\ disp[cur].pc # "off" => disp'[cur].pc # "off",
           \A c \in Channel, g \in Gen : sender[c][g].pc # "off" => sender'[c][g].pc # "off",
           reload.n = 0 => \A c \in Channel, g \in Gen :
               queue'[c][g] # <<>> => queue[c][g] # <<>> \/ mapped[c] = g
    PROVE  Readers'
<1>1. cur # 0 => cur \in Gen
  BY GenBounds DEF TypeInv, TypeOK, WiredType, Gen
<1>2. present \subseteq Channel
  BY DEF TypeInv, TypeOK, WiredType
<1>3. ASSUME cur # 0
      PROVE  /\ disp'[cur].pc # "off"
             /\ \A c \in present : mapped[c] = cur /\ sender'[c][cur].pc # "off"
  BY <1>1, <1>2, <1>3 DEF Readers
<1>4. ASSUME reload.n = 0
      PROVE  /\ \A c \in Channel : mapped[c] # 0 => c \in present
             /\ \A c \in Channel, g \in Gen : queue'[c][g] # <<>> => mapped[c] = g
  BY <1>4 DEF Readers
<1> QED BY <1>3, <1>4 DEF Readers

LEMMA RouteKeeps ==
    ASSUME NEW g \in Gen, DispatchRoute(g), NEW r, r = disp[g].msg
    PROVE  /\ UNCHANGED <<phase, cur, present, mapped, reload, sender>>
           /\ disp' = [disp EXCEPT ![g] = IF g = cur THEN Idle ELSE Off]
           /\ \/ UNCHANGED queue
              \/ \E c : queue' = [queue EXCEPT ![c][mapped[c]] = Append(@, r)]
<1>1. UNCHANGED <<proc, wired, sender>>
  BY Zenon DEF DispatchRoute
<1>2. disp' = [disp EXCEPT ![g] = IF g = cur THEN Idle ELSE Off]
  BY Zenon DEF DispatchRoute
<1>3. UNCHANGED <<phase, cur, present, mapped, reload, sender>>
  BY <1>1 DEF proc, wired
<1>4. \/ ReleaseRow(r) /\ UNCHANGED queue
      \/ queue' = [queue EXCEPT ![to[r]][mapped[to[r]]] = Append(@, r)]
  BY Zenon DEF DispatchRoute
<1>5. \/ UNCHANGED queue
      \/ \E c : queue' = [queue EXCEPT ![c][mapped[c]] = Append(@, r)]
  BY <1>4, Zenon
<1> QED BY <1>2, <1>3, <1>5, Zenon

LEMMA ReadersStep ==
    ASSUME TypeInv, OneStage, NoTwins, Readers, [Next]_vars
    PROVE  Readers'
<1> USE DEF disk, proc, src, wired, ghost
<1>a. /\ disp \in [Gen -> Worker] /\ sender \in [Channel -> [Gen -> Worker]]
      /\ mapped \in [Channel -> 0..(MaxMishaps + 1)] /\ present \subseteq Channel
      /\ queue \in [Channel -> [Gen -> Seq(Msg)]]
      /\ gen \in Nat /\ reload.n \in Nat /\ 0 \notin Gen /\ MaxMishaps \in Nat
  BY GenBounds DEF TypeInv, TypeOK, WiredType, WorkType, Gen
<1>b. Idle.pc # "off"
  BY WorkerTypes
<1>1. CASE \/ \E r \in Msg : Publish(r) \/ PassRow(r)
           \/ Boot \/ GoLive \/ PumpTick \/ PassClaim \/ PassRelease
           \/ PumpStop \/ ShutdownRelease \/ Age \/ UNCHANGED vars
  <2>1. /\ UNCHANGED <<cur, present, mapped, reload, disp, sender, queue>>
        /\ phase' \in {"drain", "live"} => phase \in {"drain", "live"}
        /\ phase' \in {"down", "boot"} => phase \in {"down", "boot"}
    BY <1>1, PassRowDoes
       DEF Publish, PublishSpool, PublishBus, PublishRelease, Boot, GoLive, PumpTick, PassClaim,
           PassRelease, PumpStop, ShutdownRelease, Age, vars
  <2> QED BY <2>1, ReadersKept
<1>2. ASSUME NEW g \in Gen, Dispatch(g) PROVE Readers'
  <2>1. UNCHANGED <<cur, present, mapped, reload, sender, phase>>
    <3>1. CASE DispatchTake(g)
      BY <3>1 DEF DispatchTake
    <3>2. CASE DispatchRoute(g)
      BY <3>2, RouteKeeps
    <3> QED BY <3>1, <3>2, <1>2 DEF Dispatch
  <2>2. \A h \in Gen \ {g} : disp'[h] = disp[h]
    <3>1. CASE DispatchTake(g)
      BY <3>1, DispatchTakeMoves
    <3>2. CASE DispatchRoute(g)
      BY <3>2, <1>a, RouteKeeps
    <3> QED BY <3>1, <3>2, <1>2 DEF Dispatch
  <2>3. g = cur => disp'[g].pc # "off"
    <3>1. CASE DispatchTake(g)
      BY <3>1, DispatchTakeMoves
    <3>2. CASE DispatchRoute(g) /\ g = cur
      <4>1. disp' = [disp EXCEPT ![g] = Idle]
        BY <3>2 DEF DispatchRoute
      <4> QED BY <4>1, <1>a, <1>b
    <3> QED BY <3>1, <3>2, <1>2 DEF Dispatch
  <2>4. cur # 0 /\ disp[cur].pc # "off" => disp'[cur].pc # "off"
    <3>1. cur # 0 => cur \in Gen
      BY GenBounds DEF TypeInv, TypeOK, WiredType, Gen
    <3> QED BY <3>1, <2>2, <2>3
  <2>5. \A c \in Channel, h \in Gen : queue'[c][h] # <<>> => queue[c][h] # <<>> \/ mapped[c] = h
    <3>1. CASE UNCHANGED queue
      BY <3>1
    <3>2. ASSUME NEW d, NEW r, queue' = [queue EXCEPT ![d][mapped[d]] = Append(@, r)]
          PROVE  \A c \in Channel, h \in Gen : c # d \/ h # mapped[d] => queue'[c][h] = queue[c][h]
      BY <3>2, <1>a
    <3>3. CASE DispatchRoute(g)
      <4>1. CASE UNCHANGED queue
        BY <4>1, <3>1
      <4>2. ASSUME NEW c, queue' = [queue EXCEPT ![c][mapped[c]] = Append(@, disp[g].msg)]
            PROVE  \A e \in Channel, h \in Gen :
                      queue'[e][h] # <<>> => queue[e][h] # <<>> \/ mapped[e] = h
        BY <4>2, <3>2
      <4> QED BY <4>1, <4>2, <3>3, RouteKeeps, Zenon
    <3> QED BY <3>1, <3>3, <1>2 DEF Dispatch, DispatchTake
  <2> QED BY <2>1, <2>4, <2>5, ReadersKept
<1>3. ASSUME NEW d \in Channel, NEW g \in Gen, Sender(d, g) PROVE Readers'
  <2>1. UNCHANGED <<cur, present, mapped, reload, disp, phase>>
    BY <1>3 DEF Sender, SenderTake, SenderSend, SenderSettle
  <2>2. \A c \in Channel, h \in Gen : c # d \/ h # g => sender'[c][h] = sender[c][h]
    BY <1>3, <1>a DEF Sender, SenderTake, SenderSend, SenderSettle
  <2>3. sender'[d][g].pc # "off"
    <3>1. CASE SenderTake(d, g)
      <4>1. PICK m : m = Head(queue[d][g])
        OBVIOUS
      <4>2. sender'[d][g] = [pc |-> "got", msg |-> m, res |-> "none"]
        BY <3>1, <4>1, SenderTakeMoves
      <4> QED BY <4>2
    <3>2. CASE SenderSend(d, g)
      <4>1. sender[d][g] \in Worker /\ sender[d][g].pc = "got"
        BY <3>2, <1>a DEF SenderSend
      <4>2. PICK m \in Msg : m = sender[d][g].msg
        BY <4>1, WorkerCases
      <4>3. PICK res \in {"delivered", "partial", "none"} :
               /\ Transmit(m, res)
               /\ sender'[d][g] = [pc |-> "sent", msg |-> m, res |-> res]
        BY <3>2, <4>2, SenderSendMoves
      <4> QED BY <4>3
    <3>3. CASE SenderSettle(d, g)
      BY <3>3, <1>a, <1>b DEF SenderSettle
    <3> QED BY <3>1, <3>2, <3>3, <1>3 DEF Sender
  <2>4. \A c \in Channel, h \in Gen : sender[c][h].pc # "off" => sender'[c][h].pc # "off"
    BY <2>2, <2>3
  <2>5. \A c \in Channel, h \in Gen : queue'[c][h] # <<>> => queue[c][h] # <<>>
    <3>1. CASE SenderTake(d, g)
      <4>1. queue[d][g] # <<>> /\ queue' = [queue EXCEPT ![d][g] = Tail(@)]
        BY <3>1 DEF SenderTake
      <4>2. \A c \in Channel, h \in Gen : c # d \/ h # g => queue'[c][h] = queue[c][h]
        BY <4>1, <1>a
      <4> QED BY <4>1, <4>2
    <3>2. CASE SenderSend(d, g) \/ SenderSettle(d, g)
      BY <3>2 DEF SenderSend, SenderSettle
    <3> QED BY <3>1, <3>2, <1>3 DEF Sender
  <2> QED BY <2>1, <2>4, <2>5, ReadersKept
<1>c. ASSUME NEW n \in Gen, NEW S \in SUBSET Channel, Start(n, S)
      PROVE  /\ cur' = n /\ disp'[n].pc # "off"
             /\ \A c \in S : sender'[c][n].pc # "off"
  <2>1. /\ disp' = [disp EXCEPT ![n] = Idle] /\ cur' = n
        /\ sender' = [c \in Channel |-> IF c \in S THEN [sender[c] EXCEPT ![n] = Idle] ELSE sender[c]]
    BY <1>c DEF Start
  <2>2. ASSUME NEW c \in S PROVE sender'[c][n].pc # "off"
    <3>1. sender[c] \in [Gen -> Worker] /\ sender'[c] = [sender[c] EXCEPT ![n] = Idle]
      BY <2>1, <2>2, <1>a
    <3> QED BY <3>1, <1>b
  <2> QED BY <2>1, <2>2, <1>a, <1>b
<1>4. CASE StartAll
  <2>1. /\ present' = StartSet /\ phase' = "drain" /\ phase = "boot" /\ UNCHANGED <<queue, reload>>
        /\ mapped' = [c \in Channel |-> IF c \in StartSet THEN 1 ELSE 0]
        /\ StartSet # {} => Start(1, StartSet)
        /\ StartSet = {} => UNCHANGED <<cur, disp, sender>>
    BY <1>4 DEF StartAll
  <2>2. 1 \in Gen /\ StartSet \in SUBSET Channel
    BY GenBounds, OutboundAssumption
  <2>3. reload.n = 0 => \A c \in Channel, g \in Gen : queue[c][g] = <<>>
    BY <2>1, <1>a DEF Readers
  <2>4. CASE StartSet # {}
    <3>1. cur' = 1 /\ disp'[1].pc # "off" /\ \A c \in StartSet : sender'[c][1].pc # "off"
      BY <2>1, <2>2, <2>4, <1>c
    <3> QED BY <3>1, <2>1, <2>2, <2>3 DEF Readers
  <2>5. CASE StartSet = {}
    BY <2>1, <2>3, <2>5 DEF Readers
  <2> QED BY <2>4, <2>5
<1>5. CASE ReloadStop
  <2>1. /\ cur' = 0 /\ present' = {} /\ phase \notin {"down", "boot"} /\ UNCHANGED phase
        /\ reload' = [busy |-> TRUE, n |-> reload.n + 1]
    BY <1>5 DEF ReloadStop
  <2>2. reload'.n # 0
    BY <2>1, <1>a
  <2> QED BY <2>1, <2>2 DEF Readers
<1>6. ASSUME NEW S \in SUBSET Channel, ReloadStart(S) PROVE Readers'
  <2>1. /\ present' = S /\ UNCHANGED <<phase, queue>> /\ reload.busy
        /\ reload' = [reload EXCEPT !.busy = FALSE]
        /\ mapped' = [c \in Channel |-> IF c \in S THEN gen + 1 ELSE mapped[c]]
        /\ S # {} => Start(gen + 1, S)
        /\ S = {} => UNCHANGED <<cur, disp, sender>>
    BY <1>6 DEF ReloadStart
  <2>2. gen + 1 \in Gen /\ phase \notin {"down", "boot"}
    BY <2>1, GenBounds DEF TypeInv, Wiring
  <2>3. reload'.n = reload.n /\ reload.n # 0
    <3>1. reload'.n = reload.n
      BY <2>1, GenBounds
    <3> QED BY <3>1, <2>1 DEF Readers
  <2>4. CASE S # {}
    <3>1. cur' = gen + 1 /\ disp'[gen + 1].pc # "off" /\ \A c \in S : sender'[c][gen + 1].pc # "off"
      BY <2>1, <2>2, <2>4, <1>c
    <3>2. gen + 1 # 0 /\ \A c \in S : mapped'[c] = cur'
      BY <3>1, <2>1, <2>2, <1>a
    <3> QED BY <3>1, <3>2, <2>1, <2>2, <2>3 DEF Readers
  <2>5. CASE S = {}
    BY <2>1, <2>2, <2>3, <2>5 DEF Readers
  <2> QED BY <2>4, <2>5
<1>7. CASE ChannelsStop
  BY <1>7 DEF ChannelsStop, Readers
<1>8. CASE ProcessEnd
  <2>1. /\ phase' = "down" /\ cur' = 0 /\ present' = {} /\ mapped' = [c \in Channel |-> 0]
        /\ queue' = [c \in Channel |-> [g \in Gen |-> <<>>]]
        /\ reload' = [reload EXCEPT !.busy = FALSE]
    BY <1>8 DEF ProcessEnd
  <2>2. ~reload'.busy
    BY <2>1, GenBounds
  <2> QED BY <2>1, <2>2 DEF Readers
<1> QED
  BY <1>1, <1>2, <1>3, <1>4, <1>5, <1>6, <1>7, <1>8 DEF Next, PassStep, PassRow

\* While no database call has failed, a row claimed by a process that is not
\* shutting down is with a publisher, on the bus or in a queue that a running
\* dispatcher reads, with a dispatcher or in the pass, or a reload has left its
\* copy behind where nobody reads it: no other way makes a row invisible to the
\* pump with nobody to see to it.  Assumes that the process is wired within
\* StaleClaimTimeout (PromptBoot).
THEOREM ClaimsHaveWorkers == ASSUME PromptBoot PROVE Spec => []ClaimHasWorker
<1>1. Init => CopyInv /\ Served /\ Readers
  BY CopyInit DEF Init, Served, Readers
<1>2. CopyInv /\ Served /\ Readers /\ [Next]_vars => (CopyInv /\ Served /\ Readers)'
  BY CopyStep, ServedStep, ReadersStep DEF CopyInv
<1>3. CopyInv /\ Served /\ Readers => ClaimHasWorker
  <2> SUFFICES ASSUME CopyInv, Served, Readers, phase \in {"boot", "drain", "live"}, faults = 0,
                      NEW r \in HeldBy(row, inst)
               PROVE  Tended(r) \/ LeftBehind(r)
    BY DEF ClaimHasWorker
  <2>1. r \in Msg /\ ~AtNew(r)
    BY DEF HeldBy, CopyInv, Numbered
  <2>2. PICK s \in Stages(r) : s # "new"
    BY <2>1 DEF Served, Stages
  <2>3. AtPublisher(r) \/ OnBus(r) \/ Routed(r) \/ InQueue(r) \/ AtSender(r) \/ InPass(r)
    BY <2>2 DEF Stages
  <2>4. InPass(r) => pass.pc # "off" /\ r \in pass.mine
    BY DEF InPass, CopyInv, Unstarted, NoPass
  <2>5. cur # 0 => cur \in Gen
    BY GenBounds DEF CopyInv, TypeInv, TypeOK, WiredType, Gen
  <2>6. ASSUME OnBus(r) PROVE Tended(r) \/ LeftBehind(r)
    <3>1. present = {} \/ cur # 0
      BY DEF Readers
    <3>2. cur # 0 => disp[cur].pc # "off"
      BY DEF Readers
    <3>3. CASE present = {}
      BY <3>3, <2>6 DEF OnBus, In, LeftBehind
    <3> QED BY <3>1, <3>2, <3>3, <2>5, <2>6 DEF OnBus, In, Tended
  <2>7. ASSUME NEW c \in Channel, NEW g \in Gen, In(queue[c][g], r)
        PROVE  Tended(r) \/ LeftBehind(r)
    <3>1. queue[c][g] # <<>> /\ g # 0
      BY <2>7 DEF In, Gen
    <3>2. CASE c \in present /\ mapped[c] = g
      <4>1. cur # 0
        BY <3>2 DEF Readers
      <4>2. g = cur /\ sender[c][g].pc # "off"
        BY <3>2, <4>1 DEF Readers
      <4> QED BY <4>2, <2>7 DEF Tended, In
    <3>3. CASE ~(c \in present /\ mapped[c] = g)
      <4>1. reload.n # 0
        BY <3>1, <3>3 DEF Readers
      <4>2. reload.n > 0
        BY <4>1, GenBounds DEF CopyInv
      <4> QED BY <4>2, <3>3, <2>7 DEF LeftBehind, In
    <3> QED BY <3>2, <3>3
  <2> QED
    BY <2>3, <2>4, <2>6, <2>7 DEF AtPublisher, Routed, InQueue, AtSender, Tended
<1> QED BY <1>1, <1>2, <1>3, PTL DEF Spec

-----------------------------------------------------------------------------
(* One process, one send *)

\* r has been sent and its row is about to be deleted.
Unsettled(r) ==
    \/ \E c \in Channel, g \in Gen :
          /\ sender[c][g].msg = r /\ sender[c][g].pc = "sent"
          /\ sender[c][g].res \in {"delivered", "partial"}
    \/ pass.pc = "settle" /\ Oldest(r) /\ pass.res # "none"

\* The process has sent r.
OnWire(r) == phase # "down" /\ inst \in Inst /\ wire[r][inst] # 0

SentInv ==
    /\ \A r \in Msg : \A i \in Inst : i > inst => wire[r][i] = 0
    /\ faults = 0 => \A r \in Msg :
          /\ AtNew(r) \/ Spooled(r)
          /\ OnWire(r) => (Spooled(r) /\ ~row[r].here) \/ Unsettled(r)
          /\ \A i \in Inst : wire[r][i] <= 1

\* A dispatcher that has sent keeps the reply until it settles.
LEMMA SentKeeps ==
    ASSUME CopyInv, [Next]_vars, NEW c \in Channel, NEW g \in Gen, sender[c][g].pc = "sent"
    PROVE  sender'[c][g] = sender[c][g] \/ SenderSettle(c, g) \/ ProcessEnd
<1> USE DEF CopyInv, disk, proc, src, wired, ghost
<1>a. sender \in [Channel -> [Gen -> Worker]] /\ sender[c][g].pc \notin {"off", "idle", "got"}
  BY DEF TypeInv, TypeOK, WorkType
<1>1. CASE UNCHANGED sender
  BY <1>1
<1>2. ASSUME NEW d \in Channel, NEW h \in Gen, Sender(d, h)
      PROVE  sender'[c][g] = sender[c][g] \/ SenderSettle(c, g)
  <2>1. CASE d = c /\ h = g
    BY <2>1, <1>2, <1>a DEF Sender, SenderTake, SenderSend
  <2>2. CASE d # c \/ h # g
    <3>1. PICK w : sender' = [sender EXCEPT ![d][h] = w]
      BY <1>2 DEF Sender, SenderTake, SenderSend, SenderSettle
    <3> QED BY <3>1, <2>2, <1>a
  <2> QED BY <2>1, <2>2
<1>3. ASSUME NEW n \in Gen, n > gen, NEW S \in SUBSET Channel,
             Start(n, S) \/ UNCHANGED <<gen, cur, disp, sender>>
      PROVE  sender'[c][g] = sender[c][g]
  <2>1. sender[c][g] # Off
    BY <1>a, WorkerTypes
  <2> QED BY <2>1, <1>3, StartKeepsWork
<1>4. CASE StartAll
  <2>1. gen = 0 /\ 1 > gen /\ 1 \in Gen /\ StartSet \in SUBSET Channel
    BY <1>4, GenBounds, OutboundAssumption DEF StartAll, Unstarted
  <2> QED BY <2>1, <1>3, <1>4 DEF StartAll
<1>5. ASSUME NEW S \in SUBSET Channel, ReloadStart(S) PROVE sender'[c][g] = sender[c][g]
  <2>1. gen + 1 \in Gen /\ gen + 1 > gen
    BY <1>5, GenBounds DEF ReloadStart
  <2> QED BY <2>1, <1>3, <1>5 DEF ReloadStart
<1>6. CASE (\E r \in Msg : Publish(r)) \/ \E h \in Gen : Dispatch(h)
  BY <1>1, <1>6 DEF Publish, PublishSpool, PublishBus, PublishRelease,
                    Dispatch, DispatchTake, DispatchRoute
<1>7. CASE \/ Boot \/ GoLive \/ ReloadStop \/ PumpTick \/ PassClaim \/ PassRelease
           \/ PumpStop \/ ShutdownRelease \/ ChannelsStop \/ Age
  BY <1>1, <1>7 DEF Boot, GoLive, ReloadStop, PumpTick, PassClaim, PassRelease,
                    PumpStop, ShutdownRelease, ChannelsStop, Age
<1>8. ASSUME NEW r \in Msg, PassRow(r) PROVE UNCHANGED sender
  BY <1>8, PassRowDoes
<1>9. CASE UNCHANGED vars
  BY <1>1, <1>9 DEF vars
<1> QED
  BY <1>1, <1>2, <1>4, <1>5, <1>6, <1>7, <1>8, <1>9 DEF Next, PassStep, PassRow

\* Without a failing call, what has been sent is deleted next.
LEMMA SettledNext ==
    ASSUME CopyInv, [Next]_vars, ~Fails, phase' # "down", NEW r \in Msg, Spooled(r), Unsettled(r)
    PROVE  (Spooled(r)' /\ ~row'[r].here) \/ Unsettled(r)'
<1> USE DEF CopyInv
<1>a. row \in Table
  BY RowTypes
<1>b. ASSUME row' = Complete(row, r) PROVE Spooled(r)' /\ ~row'[r].here
  <2>1. ~Complete(row, r)[r].here
    BY <1>a DEF Complete, Table
  <2> QED BY <2>1, <1>a, <1>b, CompleteRemovesOne DEF Spooled
<1>c. ~ProcessEnd
  BY DEF ProcessEnd
<1>1. ASSUME NEW c \in Channel, NEW g \in Gen, sender[c][g].msg = r, sender[c][g].pc = "sent",
             sender[c][g].res \in {"delivered", "partial"}
      PROVE  (Spooled(r)' /\ ~row'[r].here) \/ Unsettled(r)'
  <2>1. CASE SenderSettle(c, g)
    <3>1. Settle(r, Complete(row, r))
      BY <1>1, <2>1 DEF SenderSettle
    <3> QED BY <3>1, <1>b DEF Settle
  <2>2. CASE sender'[c][g] = sender[c][g]
    BY <1>1, <2>2 DEF Unsettled
  <2> QED BY <1>1, <1>c, <2>1, <2>2, SentKeeps
<1>2. CASE pass.pc = "settle" /\ Oldest(r) /\ pass.res # "none"
  <2>1. CASE UNCHANGED pass
    BY <1>2, <2>1, OldestStays DEF Unsettled
  <2>2. CASE StartAll \/ PumpTick \/ PassClaim \/ PassRelease
    BY <1>2, <2>2 DEF StartAll, PumpTick, PassClaim, PassRelease, Unstarted
  <2>3. ASSUME NEW q \in Msg, PassRow(q) PROVE Spooled(r)' /\ ~row'[r].here
    <3>1. q = r
      BY <1>2, <2>3, PassRowDoes, OneOldest
    <3>2. Drop(r)
      BY <1>2, <2>3, <3>1 DEF PassRow, PassPoison, PassExpired, PassSend, PassCount, PassSettle
    <3> QED BY <3>2, <1>b DEF Drop
  <2> QED BY <1>c, <2>1, <2>2, <2>3, PassChange
<1> QED BY <1>1, <1>2 DEF Unsettled

\* A reply that is being published without a failing call has a row.
LEMMA SpooledStep ==
    ASSUME CopyInv, [Next]_vars, ~Fails, NEW r \in Msg, AtNew(r) \/ Spooled(r)
    PROVE  AtNew(r)' \/ Spooled(r)'
<1> USE DEF CopyInv
<1>1. CASE Spooled(r)
  <2>1. ~PublishSpool(r)
    BY <1>1 DEF PublishSpool, Numbered, AtNew
  <2> QED BY <1>1, <2>1, RowStep DEF RowStays, RowGoes, Spooled
<1>2. CASE AtNew(r)
  <2>1. "new" \in Stages(r)
    BY <1>2 DEF Stages, Stage
  <2>2. Stages(r) = {"new"}
    BY <2>1, OnlyStage
  <2>3. CASE PublishSpool(r)
    <3>1. row' = EnqueueClaimed(row, r, nextId, inst)
      BY <2>3 DEF PublishSpool
    <3>2. row'[r].id = nextId /\ nextId # 0
      BY <3>1, RowTypes, EnqueueAddsOne
    <3> QED BY <3>2 DEF Spooled
  <2>4. CASE "new" \in Stages(r)'
    BY <2>4 DEF Stages
  <2>5. ASSUME NEW q \in Msg, NEW s, NEW T, Moves(q, s, T), q # r \/ s # "new"
        PROVE  "new" \in Stages(r)'
    BY <2>5, <2>1, <2>2 DEF Moves
  <2>6. ASSUME NEW q \in Msg, PublishSpool(q), Moves(q, "new", {"publisher"})
        PROVE  "new" \in Stages(r)' \/ PublishSpool(r)
    BY <2>5, <2>6
  <2> QED BY <2>1, <2>3, <2>4, <2>5, <2>6, StageStep DEF Stays
<1> QED BY <1>1, <1>2

LEMMA SentStep ==
    ASSUME CopyInv, SentInv, [Next]_vars
    PROVE  SentInv'
<1> USE DEF CopyInv
<1>a. /\ inst \in Nat /\ inst' \in Nat /\ inst <= inst' /\ faults \in Nat
      /\ wire \in [Msg -> [Inst -> 0..2]] /\ Inst \subseteq Nat
  BY RowTypes, PhaseStep DEF TypeInv, TypeOK, GhostType, Inst
<1>b. ASSUME NEW r \in Msg, NEW i \in Inst, i # inst PROVE wire'[r][i] = wire[r][i]
  <2> DEFINE v == IF wire[r][inst] < 2 THEN wire[r][inst] + 1 ELSE 2
  <2>1. wire'[r] = wire[r] \/ wire'[r] = [wire[r] EXCEPT ![inst] = v]
    BY WireStep
  <2>2. wire[r] \in [Inst -> 0..2]
    BY <1>a
  <2> HIDE DEF v
  <2> QED BY <1>b, <2>1, <2>2
<1>1. \A r \in Msg : \A i \in Inst : i > inst' => wire'[r][i] = 0
  <2> SUFFICES ASSUME NEW r \in Msg, NEW i \in Inst, i > inst' PROVE wire'[r][i] = 0
    OBVIOUS
  <2>1. i # inst /\ i > inst
    BY <1>a
  <2> QED BY <2>1, <1>b DEF SentInv
<1> SUFFICES ASSUME faults' = 0, NEW r \in Msg
             PROVE  /\ AtNew(r)' \/ Spooled(r)'
                    /\ OnWire(r)' => (Spooled(r)' /\ ~row'[r].here) \/ Unsettled(r)'
                    /\ \A i \in Inst : wire'[r][i] <= 1
  BY <1>1 DEF SentInv
<1>2. faults = 0 /\ ~Fails
  BY <1>a, FaultStep DEF Fails
<1>3. /\ AtNew(r) \/ Spooled(r)
      /\ OnWire(r) => (Spooled(r) /\ ~row[r].here) \/ Unsettled(r)
      /\ \A i \in Inst : wire[r][i] <= 1
  BY <1>2 DEF SentInv
<1>4. AtNew(r)' \/ Spooled(r)'
  BY <1>2, <1>3, SpooledStep
<1>5. CASE Sends(r) /\ wire'[r] = [wire[r] EXCEPT ![inst] = IF @ < 2 THEN @ + 1 ELSE 2]
  <2>1. ~OnWire(r)
    BY <1>3, <1>5, SenderOwns DEF Unsettled
  <2>2. inst \in Inst /\ wire[r][inst] = 0
    BY <2>1, <1>5, SenderOwns DEF OnWire
  <2>3. \A i \in Inst : wire'[r][i] <= 1
    BY <1>a, <1>3, <1>5, <2>2
  <2>4. Unsettled(r)'
    <3>1. CASE PassSend(r) /\ pass'.batch = pass.batch /\ pass'.pc = "settle"
               /\ pass'.res \in {"delivered", "partial"}
      BY <3>1, OldestStays DEF Unsettled, PassSend
    <3> QED BY <1>5, <3>1 DEF Sends, Unsettled
  <2> QED BY <1>4, <2>3, <2>4
<1>6. CASE wire'[r] = wire[r]
  <2>1. ASSUME OnWire(r)' PROVE (Spooled(r)' /\ ~row'[r].here) \/ Unsettled(r)'
    <3>1. phase' # "down" /\ inst' \in Inst /\ wire[r][inst'] # 0
      BY <2>1, <1>6 DEF OnWire
    <3>2. ~(inst' > inst)
      BY <3>1 DEF SentInv
    <3>3. inst' = inst /\ phase # "down"
      BY <3>1, <3>2, <1>a, PhaseStep DEF ShutdownRelease
    <3>4. (Spooled(r) /\ ~row[r].here) \/ Unsettled(r)
      BY <3>1, <3>3, <1>3 DEF OnWire
    <3>5. CASE Spooled(r) /\ ~row[r].here
      <4>1. ~PublishSpool(r)
        BY <3>5 DEF PublishSpool, Numbered, AtNew
      <4> QED BY <3>5, <4>1, RowStep DEF RowStays, RowGoes, Spooled
    <3>6. CASE Unsettled(r)
      <4>1. ~AtNew(r)
        <5>1. CASE AtSender(r)
          <6>1. "sender" \in Stages(r)
            BY <5>1 DEF Stages, Stage
          <6>2. "new" \notin Stages(r)
            BY <6>1 DEF OneStage
          <6> QED BY <6>2 DEF Stages, Stage
        <5>2. CASE r \in pass.batch
          <6>1. Stages(r) = {"pass"}
            BY <5>2, InBatchIsPass
          <6> QED BY <6>1 DEF Stages, Stage
        <5> QED BY <3>6, <5>1, <5>2 DEF Unsettled, AtSender, Oldest
      <4> QED BY <3>1, <3>6, <4>1, <1>2, <1>3, SettledNext
    <3> QED BY <3>4, <3>5, <3>6
  <2> QED BY <1>3, <1>4, <1>6, <2>1
<1> QED BY <1>5, <1>6, WireStep

\* While no database call has failed, one process puts a reply on the wire at
\* most once, however publishing, reloads, full queues, the boot drain, the
\* pump and the shutdown interleave.
THEOREM SentOncePerProcess == ASSUME PromptBoot PROVE Spec => []SentOnce
<1>1. Init => CopyInv /\ SentInv
  <2> SUFFICES ASSUME Init PROVE SentInv
    BY CopyInit
  <2>1. \A r \in Msg : AtNew(r) /\ \A i \in Inst : wire[r][i] = 0
    BY DEF Init, AtNew
  <2> QED BY <2>1 DEF SentInv, OnWire, Init
<1>2. CopyInv /\ SentInv /\ [Next]_vars => (CopyInv /\ SentInv)'
  BY CopyStep, SentStep
<1>3. CopyInv /\ SentInv => SentOnce
  BY DEF SentInv, SentOnce
<1> QED BY <1>1, <1>2, <1>3, PTL DEF Spec
=============================================================================
