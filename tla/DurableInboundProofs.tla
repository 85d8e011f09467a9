------------------------ MODULE DurableInboundProofs ------------------------
(***************************************************************************)
(* Proofs about DurableInbound, for any set of messages, of dedupe keys    *)
(* and of turn goroutines, any capacity and any number of failures.        *)
(***************************************************************************)
EXTENDS DurableInbound, SpoolProofs, FiniteSetTheorems, TLAPS

-----------------------------------------------------------------------------
(* Type correctness *)

PassType == [pc : {"off", "claim", "item", "publish", "delete", "release"},
             batch : SUBSET Msg, mine : SUBSET Msg, deferred : BOOLEAN]

LEMMA AdvanceType ==
    ASSUME TypeOK, NEW m \in Msg, NEW d \in BOOLEAN, Advance(m, d)
    PROVE  pass' \in PassType
BY DEF TypeOK, Advance, PassType

LEMMA AbortType ==
    ASSUME TypeOK, Abort
    PROVE  pass' \in PassType
BY DEF TypeOK, Abort, PassType

LEMMA GoType ==
    ASSUME TypeOK, NEW s \in Slot, turn[s] # Idle,
           NEW pc \in {"work", "mark", "complete"}, Go(s, pc)
    PROVE  turn' \in [Slot -> {Idle} \cup
                        [pc : {"check", "work", "mark", "complete"}, msg : Msg]]
BY DEF TypeOK, Go

LEMMA TypeStep ==
    ASSUME TypeOK, [Next]_vars
    PROVE  TypeOK'
<1> USE DEF disk, proc, ghost
<1>a. row \in Table /\ inst \in Nat /\ nextId \in Nat \ {0} /\ faults \in Nat /\ bus \in Seq(Msg)
  BY DEF TypeOK, Table
<1>b. fate \in [Msg -> SUBSET {"ended", "replayed", "skipped", "dead"}]
  BY DEF TypeOK
<1>c. pass \in PassType
  BY DEF TypeOK, PassType
<1>d. pass.deferred \in BOOLEAN
  BY <1>c DEF PassType
<1>1. ASSUME NEW m \in Msg, ChannelEnqueue(m) PROVE TypeOK'
  <2>1. row' \in [Msg -> Row]
    BY <1>1, <1>a, EnqueueAddsOne DEF ChannelEnqueue, Table
  <2>2. nextId' \in Nat \ {0}
    BY <1>1 DEF TypeOK, ChannelEnqueue
  <2>3. ch' \in [Msg -> {"new", "enqueued", "refused", "done"}]
    BY <1>1 DEF TypeOK, ChannelEnqueue
  <2>4. faults' \in Nat
    BY <1>1, <1>a DEF ChannelEnqueue, Succeeds, Fails
  <2> QED
    BY <1>1, <2>1, <2>2, <2>3, <2>4 DEF TypeOK, ChannelEnqueue, PassType, Phase
<1>2. ASSUME NEW m \in Msg, ChannelPublish(m) PROVE TypeOK'
  <2>1. ch' \in [Msg -> {"new", "enqueued", "refused", "done"}]
    BY <1>2 DEF TypeOK, ChannelPublish
  <2>2. bus' \in Seq(Msg)
    BY <1>2, <1>a DEF ChannelPublish
  <2> QED
    BY <1>2, <2>1, <2>2 DEF TypeOK, ChannelPublish, PassType, Phase
<1>3. ASSUME NEW m \in Msg, ChannelRelease(m) PROVE TypeOK'
  <2>1. row' \in [Msg -> Row]
    <3>1. SameRows(row, ReleaseIDs(row, {m}, inst))
      BY <1>a, ReleaseIDsKeepsRows
    <3> QED BY <1>3, <1>a, <3>1 DEF ChannelRelease, SameRows, Table
  <2>2. ch' \in [Msg -> {"new", "enqueued", "refused", "done"}]
    BY <1>3 DEF TypeOK, ChannelRelease
  <2>3. faults' \in Nat
    BY <1>3, <1>a DEF ChannelRelease, Succeeds, Fails
  <2> QED
    BY <1>3, <2>1, <2>2, <2>3 DEF TypeOK, ChannelRelease, PassType, Phase
<1>4. CASE Boot
  BY <1>4 DEF TypeOK, Boot, Phase
<1>5. CASE DrainReclaim
  <2>1. row' \in [Msg -> Row]
    BY <1>5, <1>a, ReclaimStaleKeepsRows DEF DrainReclaim, SameRows, Table
  <2>2. pass' \in PassType
    BY <1>5, <1>c DEF DrainReclaim, PassType, NoPass
  <2>3. faults' \in Nat
    BY <1>5, <1>a DEF DrainReclaim, Succeeds, Fails
  <2> QED
    BY <1>5, <2>1, <2>2, <2>3 DEF TypeOK, DrainReclaim, PassType, Phase
<1>6. CASE StartChannels
  BY <1>6 DEF TypeOK, StartChannels, Phase
<1>7. CASE GoLive
  <2>1. row' \in [Msg -> Row]
    BY <1>7, <1>a, ReclaimStaleKeepsRows DEF GoLive, SameRows, Table
  <2>2. faults' \in Nat
    BY <1>7, <1>a DEF GoLive, Succeeds, Fails
  <2> QED
    BY <1>7, <2>1, <2>2 DEF TypeOK, GoLive, PassType, Phase
<1>8. CASE ShutdownBegin
  BY <1>8 DEF TypeOK, ShutdownBegin, Phase
<1>9. CASE PumpStop
  BY <1>9 DEF TypeOK, PumpStop, Phase
<1>10. CASE ShutdownRelease
  <2>1. row' \in [Msg -> Row]
    BY <1>10, <1>a, ReleaseClaimsKeepsRows DEF ShutdownRelease, SameRows, Table
  <2>2. faults' \in Nat
    BY <1>10, <1>a DEF ShutdownRelease, Succeeds, Fails
  <2> QED
    BY <1>10, <2>1, <2>2 DEF TypeOK, ShutdownRelease, PassType, Phase
<1>11. CASE ChannelsStop
  BY <1>11 DEF TypeOK, ChannelsStop, Phase
<1>12. CASE ProcessEnd
  <2>1. ch' \in [Msg -> {"new", "enqueued", "refused", "done"}]
    BY <1>12 DEF TypeOK, ProcessEnd
  <2>2. turn' \in [Slot -> {Idle} \cup
                      [pc : {"check", "work", "mark", "complete"}, msg : Msg]]
    BY <1>12 DEF TypeOK, ProcessEnd
  <2>3. pass' \in PassType
    BY <1>12, <1>c DEF ProcessEnd, PassType, NoPass
  <2>4. bus' \in Seq(Msg)
    BY <1>12, <1>a DEF ProcessEnd
  <2> QED
    BY <1>12, <2>1, <2>2, <2>3, <2>4 DEF TypeOK, ProcessEnd, PassType, Phase
<1>13. CASE PumpTick
  <2>1. pass' \in PassType
    BY <1>13, <1>c DEF PumpTick, PassType, NoPass
  <2> QED
    BY <1>13, <2>1 DEF TypeOK, PumpTick, PassType, Phase
<1>14. CASE PassClaim
  <2>1. row' \in [Msg -> Row]
    BY <1>14, <1>a, ClaimBatchKeepsRows DEF PassClaim, SameRows, Table
  <2>2. pass' \in PassType
    <3>1. NextBatch(row) \subseteq Msg
      BY DEF NextBatch, Pending
    <3> QED BY <1>14, <1>c, <3>1, AbortType DEF PassClaim, PassType
  <2>3. faults' \in Nat
    BY <1>14, <1>a DEF PassClaim, Succeeds, Fails
  <2> QED
    BY <1>14, <2>1, <2>2, <2>3 DEF TypeOK, PassClaim, PassType, Phase
<1>15. CASE PassRelease
  <2>1. row' \in [Msg -> Row]
    BY <1>15, <1>a, ReleaseIDsKeepsRows DEF PassRelease, SameRows, Table
  <2>2. pass' \in PassType
    BY <1>15, <1>c DEF PassRelease, PassType, NoPass
  <2>3. faults' \in Nat
    BY <1>15, <1>a DEF PassRelease, Succeeds, Fails
  <2> QED
    BY <1>15, <2>1, <2>2, <2>3 DEF TypeOK, PassRelease, PassType, Phase
<1>16. ASSUME NEW m \in pass.batch, PassItem(m) PROVE TypeOK'
  <2>1. m \in Msg
    BY DEF TypeOK
  <2>2. row' \in [Msg -> Row]
    BY <1>16, <2>1, <1>a, IncAttemptKeepsRows DEF PassItem, SameRows, Table, PassPoison, PassDecide
  <2>3. pass' \in PassType
    BY <1>16, <1>c, <1>d, <2>1, AbortType, AdvanceType
       DEF PassItem, PassType, PassPoison, PassDecide
  <2>4. fate' \in [Msg -> SUBSET {"ended", "replayed", "skipped", "dead"}]
    BY <1>16, <2>1, <1>b DEF PassItem, PassPoison, PassDecide, Happens
  <2>5. faults' \in Nat
    BY <1>16, <2>1, <1>a DEF PassItem, PassPoison, PassDecide, Succeeds, Fails
  <2> QED
    BY <1>16, <2>1, <2>2, <2>3, <2>4, <2>5 DEF TypeOK, PassItem, PassType, Phase
<1>17. ASSUME NEW m \in pass.batch, PassPublish(m) PROVE TypeOK'
  <2>1. m \in Msg
    BY DEF TypeOK
  <2>2. bus' \in Seq(Msg)
    BY <1>17, <2>1, <1>a DEF PassPublish
  <2>3. fate' \in [Msg -> SUBSET {"ended", "replayed", "skipped", "dead"}]
    BY <1>17, <2>1, <1>b DEF PassPublish, Happens
  <2>4. pass' \in PassType
    BY <1>17, <2>1, <1>c DEF PassPublish, PassType
  <2> QED
    BY <1>17, <2>1, <2>2, <2>3, <2>4 DEF TypeOK, PassPublish, PassType, Phase
<1>18. ASSUME NEW m \in pass.batch, PassDefer(m) PROVE TypeOK'
  <2>1. m \in Msg
    BY DEF TypeOK
  <2>2. row' \in [Msg -> Row]
    BY <1>18, <2>1, <1>a, IncAttemptKeepsRows DEF PassDefer, SameRows, Table
  <2>3. pass' \in PassType
    BY <1>18, <2>1, AbortType, AdvanceType DEF PassDefer
  <2>4. faults' \in Nat
    <3>1. Succeeds \/ Fails
      BY <1>18 DEF PassDefer
    <3> QED BY <1>a, <3>1 DEF Succeeds, Fails
  <2> QED
    BY <1>18, <2>1, <2>2, <2>3, <2>4 DEF TypeOK, PassDefer, PassType, Phase
<1>19. ASSUME NEW m \in pass.batch, PassDelete(m) PROVE TypeOK'
  <2>1. m \in Msg
    BY DEF TypeOK
  <2>2. row' \in [Msg -> Row]
    BY <1>19, <2>1, <1>a, CompleteRemovesOne DEF PassDelete, SameRows, Table
  <2>3. pass' \in PassType
    BY <1>19, <1>d, <2>1, AbortType, AdvanceType DEF PassDelete
  <2>4. faults' \in Nat
    BY <1>19, <2>1, <1>a DEF PassDelete, Succeeds, Fails
  <2> QED
    BY <1>19, <2>1, <2>2, <2>3, <2>4 DEF TypeOK, PassDelete, PassType, Phase
<1>20. ASSUME NEW k \in {Key[m] : m \in Msg}, Prune(k) PROVE TypeOK'
  <2>1. ledger' \subseteq {Key[m] : m \in Msg}
    BY <1>20 DEF TypeOK, Prune
  <2>2. prunes' \in Nat
    BY <1>20 DEF TypeOK, Prune
  <2> QED
    BY <1>20, <2>1, <2>2 DEF TypeOK, Prune, PassType, Phase
<1>21. ASSUME NEW s \in Slot, TurnStart(s) PROVE TypeOK'
  <2>1. bus' \in Seq(Msg)
    BY <1>21, <1>a DEF TurnStart
  <2>2. turn' \in [Slot -> {Idle} \cup
                      [pc : {"check", "work", "mark", "complete"}, msg : Msg]]
    BY <1>21 DEF TypeOK, TurnStart
  <2>3. loop' \in BOOLEAN
    BY <1>21 DEF TypeOK, TurnStart, Running
  <2> QED
    BY <1>21, <2>1, <2>2, <2>3 DEF TypeOK, TurnStart, PassType, Phase
<1>22. ASSUME NEW s \in Slot, TurnCheck(s) PROVE TypeOK'
  <2>1. turn[s].msg \in Msg /\ turn[s] # Idle
    BY <1>22 DEF TypeOK, TurnCheck, Idle
  <2>2. turn' \in [Slot -> {Idle} \cup
                      [pc : {"check", "work", "mark", "complete"}, msg : Msg]]
    BY <1>22, <2>1, GoType DEF TypeOK, TurnCheck, Idle
  <2>3. fate' \in [Msg -> SUBSET {"ended", "replayed", "skipped", "dead"}]
    BY <1>22, <2>1, <1>b DEF TurnCheck, Happens
  <2>4. faults' \in Nat
    BY <1>22, <2>1, <1>a DEF TurnCheck, Succeeds, Fails
  <2> QED
    BY <1>22, <2>1, <2>2, <2>3, <2>4 DEF TypeOK, TurnCheck, PassType, Phase
<1>23. ASSUME NEW s \in Slot, TurnAnswer(s) PROVE TypeOK'
  <2>1. turn[s].msg \in Msg /\ turn[s] # Idle
    BY <1>23 DEF TypeOK, TurnAnswer, Idle
  <2>2. turn' \in [Slot -> {Idle} \cup
                      [pc : {"check", "work", "mark", "complete"}, msg : Msg]]
    BY <1>23, <2>1, GoType DEF TypeOK, TurnAnswer, Idle
  <2>3. fate' \in [Msg -> SUBSET {"ended", "replayed", "skipped", "dead"}]
    BY <1>23, <2>1, <1>b DEF TurnAnswer, Happens
  <2>4. answers' \in [Msg -> Nat]
    BY <1>23, <2>1 DEF TypeOK, TurnAnswer
  <2> QED
    BY <1>23, <2>1, <2>2, <2>3, <2>4 DEF TypeOK, TurnAnswer, PassType, Phase
<1>24. ASSUME NEW s \in Slot, TurnCancel(s) PROVE TypeOK'
  <2>1. turn[s].msg \in Msg /\ turn[s] # Idle
    BY <1>24 DEF TypeOK, TurnCancel, Idle
  <2>2. turn' \in [Slot -> {Idle} \cup
                      [pc : {"check", "work", "mark", "complete"}, msg : Msg]]
    BY <1>24, <2>1, GoType DEF TypeOK, TurnCancel, Idle
  <2>3. fate' \in [Msg -> SUBSET {"ended", "replayed", "skipped", "dead"}]
    BY <1>24, <2>1, <1>b DEF TurnCancel, Happens
  <2> QED
    BY <1>24, <2>1, <2>2, <2>3 DEF TypeOK, TurnCancel, PassType, Phase
<1>25. ASSUME NEW s \in Slot, TurnMark(s) PROVE TypeOK'
  <2>1. turn[s].msg \in Msg /\ turn[s] # Idle
    BY <1>25 DEF TypeOK, TurnMark, Idle
  <2>2. turn' \in [Slot -> {Idle} \cup
                      [pc : {"check", "work", "mark", "complete"}, msg : Msg]]
    BY <1>25, <2>1, GoType DEF TypeOK, TurnMark, Idle
  <2>3. ledger' \subseteq {Key[m] : m \in Msg}
    <3>1. ledger \subseteq {Key[m] : m \in Msg}
      BY DEF TypeOK
    <3>2. MarkProcessed(ledger, turn[s].msg) \subseteq {Key[m] : m \in Msg}
      BY <2>1, <3>1 DEF MarkProcessed
    <3> QED BY <1>25, <3>1, <3>2 DEF TurnMark
  <2>4. faults' \in Nat
    BY <1>25, <2>1, <1>a DEF TurnMark, Succeeds, Fails
  <2> QED
    BY <1>25, <2>1, <2>2, <2>3, <2>4 DEF TypeOK, TurnMark, PassType, Phase
<1>26. ASSUME NEW s \in Slot, TurnComplete(s) PROVE TypeOK'
  <2>1. turn[s].msg \in Msg /\ turn[s] # Idle
    BY <1>26 DEF TypeOK, TurnComplete, Idle
  <2>2. turn' \in [Slot -> {Idle} \cup
                      [pc : {"check", "work", "mark", "complete"}, msg : Msg]]
    BY <1>26, <2>1 DEF TypeOK, TurnComplete
  <2>3. row' \in [Msg -> Row]
    BY <1>26, <2>1, <1>a, CompleteRemovesOne DEF TurnComplete, Table, Idle
  <2>4. faults' \in Nat
    BY <1>26, <2>1, <1>a DEF TurnComplete, Succeeds, Fails
  <2> QED
    BY <1>26, <2>1, <2>2, <2>3, <2>4 DEF TypeOK, TurnComplete, PassType, Phase
<1>27. CASE Age
  <2>1. row' \in [Msg -> Row]
    BY <1>27, <1>a, AgeClaimsKeepsRows DEF Age, SameRows, Table
  <2> QED
    BY <1>27, <2>1 DEF TypeOK, Age, PassType, Phase
<1>28. CASE UNCHANGED vars
  BY <1>28 DEF TypeOK, vars
<1> QED
  BY <1>1, <1>2, <1>3, <1>4, <1>5, <1>6, <1>7, <1>8, <1>9, <1>10, <1>11, <1>12, <1>13, <1>14, <1>15, <1>16, <1>17, <1>18, <1>19, <1>20, <1>21, <1>22, <1>23, <1>24, <1>25, <1>26, <1>27, <1>28
     DEF Next, ChannelStep, Lifecycle, PassStep, PassRow, TurnStep

LEMMA TypeInit == Init => TypeOK
<1> SUFFICES ASSUME Init PROVE TypeOK
  OBVIOUS
<1>1. row \in [Msg -> Row]
  BY DEF Init, Row, NoRow, Nobody
<1>2. turn \in [Slot -> {Idle} \cup
                  [pc : {"check", "work", "mark", "complete"}, msg : Msg]]
  BY DEF Init
<1>3. pass \in PassType
  BY DEF Init, NoPass, PassType
<1>4. ch \in [Msg -> {"new", "enqueued", "refused", "done"}] /\ answers \in [Msg -> Nat]
  BY DEF Init
<1>5. fate \in [Msg -> SUBSET {"ended", "replayed", "skipped", "dead"}]
  BY DEF Init
<1>6. bus \in Seq(Msg) /\ phase \in Phase
  BY DEF Init, Phase
<1>7. nextId \in Nat \ {0} /\ inst \in Nat /\ faults \in Nat /\ prunes \in Nat
  BY DEF Init
<1>8. ledger \subseteq {Key[m] : m \in Msg} /\ loop \in BOOLEAN
  BY Zenon DEF Init
<1> QED BY <1>1, <1>2, <1>3, <1>4, <1>5, <1>6, <1>7, <1>8 DEF TypeOK, PassType

\* The gateway's spool, bus, turns and replay pass keep their types, whatever
\* the messages, the capacities and the failures.
THEOREM TypeCorrect == Spec => []TypeOK
BY TypeInit, TypeStep, PTL DEF Spec

-----------------------------------------------------------------------------
(* No row disappears without a reason *)

\* Only a new message adds a row, only the pass and a turn remove one.
LEMMA RowChange ==
    ASSUME TypeOK, Next
    PROVE  \/ \E m \in Msg : ChannelEnqueue(m)
           \/ \E m \in pass.batch : Oldest(m) /\ PassDelete(m)
           \/ \E s \in Slot : TurnComplete(s)
           \/ SameRows(row, row') /\ nextId' = nextId
<1> USE DEF disk, proc, ghost
<1>a. row \in Table /\ inst \in Nat
  BY DEF TypeOK, Table
<1>b. pass.batch \subseteq Msg
  BY DEF TypeOK
<1>c. ASSUME UNCHANGED <<row, nextId>> PROVE SameRows(row, row') /\ nextId' = nextId
  BY <1>a, <1>c DEF SameRows
<1>1. ASSUME NEW m \in Msg, ChannelPublish(m) \/ ChannelRelease(m)
      PROVE  SameRows(row, row') /\ nextId' = nextId
  <2>1. SameRows(row, ReleaseIDs(row, {m}, inst))
    BY <1>a, ReleaseIDsKeepsRows
  <2> QED BY <1>1, <1>c, <2>1 DEF ChannelPublish, ChannelRelease
<1>2. ASSUME Lifecycle PROVE SameRows(row, row') /\ nextId' = nextId
  <2>1. SameRows(row, ReclaimStale(row))
    BY <1>a, ReclaimStaleKeepsRows
  <2>2. SameRows(row, ReleaseClaims(row, inst))
    BY <1>a, ReleaseClaimsKeepsRows
  <2>3. CASE Boot \/ StartChannels \/ ShutdownBegin \/ PumpStop \/ ChannelsStop \/ ProcessEnd
    BY <2>3, <1>c DEF Boot, StartChannels, ShutdownBegin, PumpStop, ChannelsStop, ProcessEnd
  <2>4. CASE DrainReclaim \/ GoLive \/ ShutdownRelease
    BY <2>1, <2>2, <2>4, <1>c DEF DrainReclaim, GoLive, ShutdownRelease
  <2> QED BY <1>2, <2>3, <2>4 DEF Lifecycle
<1>3. ASSUME PassClaim \/ PassRelease \/ PumpTick
      PROVE  SameRows(row, row') /\ nextId' = nextId
  <2>1. SameRows(row, ClaimBatch(row, inst))
    BY <1>a, ClaimBatchKeepsRows
  <2>2. SameRows(row, ReleaseIDs(row, pass.mine, inst))
    BY <1>a, ReleaseIDsKeepsRows
  <2> QED BY <1>3, <1>c, <2>1, <2>2 DEF PassClaim, PassRelease, PumpTick
<1>4. ASSUME NEW m \in pass.batch, PassItem(m) \/ PassPublish(m) \/ PassDefer(m)
      PROVE  SameRows(row, row') /\ nextId' = nextId
  <2>1. SameRows(row, IncAttempt(row, m))
    BY <1>a, <1>b, IncAttemptKeepsRows
  <2> QED BY <1>4, <1>c, <2>1 DEF PassItem, PassPoison, PassDecide, PassPublish, PassDefer
<1>5. ASSUME NEW s \in Slot,
             TurnStart(s) \/ TurnCheck(s) \/ TurnAnswer(s) \/ TurnCancel(s) \/ TurnMark(s)
      PROVE  SameRows(row, row') /\ nextId' = nextId
  BY <1>5, <1>c DEF TurnStart, TurnCheck, TurnAnswer, TurnCancel, TurnMark
<1>6. ASSUME NEW k, Prune(k) PROVE SameRows(row, row') /\ nextId' = nextId
  BY <1>6, <1>c DEF Prune
<1>7. ASSUME Age PROVE SameRows(row, row') /\ nextId' = nextId
  BY <1>7, <1>a, AgeClaimsKeepsRows DEF Age
<1> QED
  BY <1>1, <1>2, <1>3, <1>4, <1>5, <1>6, <1>7
     DEF Next, ChannelStep, PassStep, PassRow, TurnStep

\* What has become of a message is never forgotten.
LEMMA FateGrows ==
    ASSUME TypeOK, [Next]_vars, NEW k \in Msg
    PROVE  fate[k] \subseteq fate'[k]
<1> USE DEF disk, proc, ghost
<1>a. fate \in [Msg -> SUBSET {"ended", "replayed", "skipped", "dead"}]
  BY DEF TypeOK
<1>b. ASSUME NEW m, NEW f, Happens(m, f) PROVE fate[k] \subseteq fate'[k]
  BY <1>a, <1>b DEF Happens
<1>1. ASSUME NEW m \in Msg, ChannelStep(m) PROVE fate' = fate
  BY <1>1 DEF ChannelStep, ChannelEnqueue, ChannelPublish, ChannelRelease
<1>2. ASSUME Lifecycle PROVE fate' = fate
  BY <1>2 DEF Lifecycle, Boot, DrainReclaim, StartChannels, GoLive,
              ShutdownBegin, PumpStop, ShutdownRelease, ChannelsStop, ProcessEnd
<1>3. ASSUME PumpTick \/ PassClaim \/ PassRelease \/ Age PROVE fate' = fate
  BY <1>3 DEF PumpTick, PassClaim, PassRelease, Age
<1>4. ASSUME NEW m \in pass.batch, PassRow(m) PROVE fate[k] \subseteq fate'[k]
  <2>1. CASE PassItem(m)
    BY <2>1, <1>b DEF PassItem, PassPoison, PassDecide
  <2>2. CASE PassPublish(m) \/ PassDefer(m) \/ PassDelete(m)
    BY <2>2, <1>b DEF PassPublish, PassDefer, PassDelete
  <2> QED BY <1>4, <2>1, <2>2 DEF PassRow
<1>5. ASSUME NEW s \in Slot, TurnStart(s) \/ TurnStep(s) PROVE fate[k] \subseteq fate'[k]
  BY <1>5, <1>b DEF TurnStart, TurnStep, TurnCheck, TurnAnswer, TurnCancel, TurnMark, TurnComplete
<1>6. ASSUME NEW q, Prune(q) PROVE fate' = fate
  BY <1>6 DEF Prune
<1>7. CASE UNCHANGED vars
  BY <1>7 DEF vars
<1> QED BY <1>1, <1>2, <1>3, <1>4, <1>5, <1>6, <1>7 DEF Next, PassStep

\* A message's publishInbound runs once.
LEMMA ChannelStarts ==
    ASSUME TypeOK, [Next]_vars, NEW k \in Msg, ch'[k] = "new"
    PROVE  ch[k] = "new"
<1> USE DEF disk, proc, ghost
<1>a. ch \in [Msg -> {"new", "enqueued", "refused", "done"}]
  BY DEF TypeOK
<1>1. ASSUME NEW m \in Msg, ChannelStep(m) PROVE ch[k] = "new"
  BY <1>1, <1>a DEF ChannelStep, ChannelEnqueue, ChannelPublish, ChannelRelease
<1>2. CASE ProcessEnd
  BY <1>2, <1>a DEF ProcessEnd
<1>3. ASSUME Lifecycle, ~ProcessEnd PROVE ch' = ch
  BY <1>3 DEF Lifecycle, Boot, DrainReclaim, StartChannels, GoLive,
              ShutdownBegin, PumpStop, ShutdownRelease, ChannelsStop
<1>4. ASSUME PumpTick \/ PassClaim \/ PassRelease \/ Age PROVE ch' = ch
  BY <1>4 DEF PumpTick, PassClaim, PassRelease, Age
<1>5. ASSUME NEW m \in pass.batch, PassRow(m) PROVE ch' = ch
  BY <1>5 DEF PassRow, PassItem, PassPublish, PassDefer, PassDelete
<1>6. ASSUME NEW s \in Slot, TurnStart(s) \/ TurnStep(s) PROVE ch' = ch
  BY <1>6 DEF TurnStart, TurnStep, TurnCheck, TurnAnswer, TurnCancel, TurnMark, TurnComplete
<1>7. ASSUME NEW q, Prune(q) PROVE ch' = ch
  BY <1>7 DEF Prune
<1>8. CASE UNCHANGED vars
  BY <1>8 DEF vars
<1> QED BY <1>1, <1>2, <1>3, <1>4, <1>5, <1>6, <1>7, <1>8 DEF Next, PassStep

\* A step other than a new message numbers no row, and brings none back.
LEMMA RowsOnlyGo ==
    ASSUME TypeOK, [Next]_vars, ~(\E m \in Msg : ChannelEnqueue(m)), NEW k \in Msg
    PROVE  /\ row'[k].id = row[k].id
           /\ row'[k].here => row[k].here
           /\ nextId' = nextId
<1>a. row \in Table /\ pass.batch \subseteq Msg
  BY DEF TypeOK, Table
<1>1. ASSUME NEW m \in pass.batch, PassDelete(m)
      PROVE  row' \in {row, Complete(row, m)} /\ nextId' = nextId
  BY <1>1 DEF PassDelete
<1>2. ASSUME NEW s \in Slot, TurnComplete(s)
      PROVE  /\ row' \in {row, Complete(row, turn[s].msg)}
             /\ nextId' = nextId /\ turn[s].msg \in Msg
  BY <1>2 DEF TurnComplete, TypeOK, Idle
<1>3. ASSUME NEW m \in Msg
      PROVE  /\ Complete(row, m)[k].id = row[k].id
             /\ Complete(row, m)[k].here => row[k].here
  BY <1>a DEF Table, Row, Complete
<1>4. CASE SameRows(row, row') /\ nextId' = nextId
  BY <1>4 DEF SameRows
<1>5. CASE UNCHANGED vars
  BY <1>5 DEF vars, disk
<1> QED BY RowChange, <1>a, <1>1, <1>2, <1>3, <1>4, <1>5

LEMMA IdsStep ==
    ASSUME TypeOK, IdsUnique, [Next]_vars
    PROVE  IdsUnique'
<1>a. row \in Table /\ nextId \in Nat \ {0} /\ inst \in Nat
  BY DEF TypeOK, Table
<1>b. \A m \in Msg : row[m].id \in Nat
  BY <1>a DEF Table, Row
<1>1. ASSUME NEW m \in Msg, ChannelEnqueue(m) PROVE IdsUnique'
  <2>1. ~Spooled(m)
    BY <1>1 DEF ChannelEnqueue, IdsUnique
  <2>2. ch'[m] # "new" /\ \A k \in Msg \ {m} : ch'[k] = ch[k]
    BY <1>1 DEF ChannelEnqueue, TypeOK
  <2>3. CASE row' = EnqueueClaimed(row, m, nextId, inst) /\ nextId' = nextId + 1
    <3>1. row'[m].id = nextId /\ \A k \in Msg \ {m} : row'[k] = row[k]
      BY <2>3, <1>a, EnqueueAddsOne
    <3>2. \A k \in Msg : row'[k].id < nextId'
      BY <3>1, <2>3, <1>a, <1>b DEF IdsUnique
    <3>3. \A k \in Msg : /\ row'[k].here => row'[k].id # 0
                         /\ ch'[k] = "new" => row'[k].id = 0
      BY <3>1, <2>2, <1>a DEF IdsUnique, Spooled
    <3>4. \A k, l \in Msg : row'[k].id # 0 /\ row'[k].id = row'[l].id => k = l
      BY <3>1, <1>a, <1>b DEF IdsUnique, Spooled
    <3> QED BY <3>2, <3>3, <3>4 DEF IdsUnique, Spooled
  <2>4. CASE UNCHANGED <<row, nextId>>
    BY <2>4, <2>2 DEF IdsUnique, Spooled
  <2> QED BY <1>1, <2>3, <2>4 DEF ChannelEnqueue
<1>2. CASE ~(\E m \in Msg : ChannelEnqueue(m))
  BY <1>2, RowsOnlyGo, ChannelStarts DEF IdsUnique, Spooled
<1> QED BY <1>1, <1>2

\* Nothing but the pass itself works on its batch.
LEMMA PassChange ==
    ASSUME TypeOK, [Next]_vars
    PROVE  \/ pass' = pass
           \/ pass'.pc \in {"off", "claim"} /\ pass'.batch = {}
           \/ PassClaim
           \/ \E m \in pass.batch : PassRow(m)
<1> USE DEF disk, proc, ghost
<1>1. ASSUME NEW m \in Msg, ChannelStep(m) PROVE pass' = pass
  BY <1>1 DEF ChannelStep, ChannelEnqueue, ChannelPublish, ChannelRelease
<1>2. ASSUME DrainReclaim \/ ProcessEnd \/ PumpTick \/ PassRelease
      PROVE  pass'.pc \in {"off", "claim"} /\ pass'.batch = {}
  BY <1>2 DEF DrainReclaim, ProcessEnd, PumpTick, PassRelease, NoPass
<1>3. ASSUME Boot \/ StartChannels \/ GoLive \/ ShutdownBegin \/ PumpStop
             \/ ShutdownRelease \/ ChannelsStop \/ Age
      PROVE  pass' = pass
  BY <1>3 DEF Boot, StartChannels, GoLive, ShutdownBegin, PumpStop,
              ShutdownRelease, ChannelsStop, Age
<1>4. ASSUME NEW s \in Slot, TurnStart(s) \/ TurnStep(s) PROVE pass' = pass
  BY <1>4 DEF TurnStart, TurnStep, TurnCheck, TurnAnswer, TurnCancel, TurnMark, TurnComplete
<1>5. ASSUME NEW q, Prune(q) PROVE pass' = pass
  BY <1>5 DEF Prune
<1>6. CASE UNCHANGED vars
  BY <1>6 DEF vars
<1> QED BY <1>1, <1>2, <1>3, <1>4, <1>5, <1>6 DEF Next, Lifecycle, PassStep

LEMMA BatchStep ==
    ASSUME TypeOK, IdsUnique, BatchSpooled, [Next]_vars
    PROVE  BatchSpooled'
<1>a. /\ pass \in PassType /\ pass.batch \subseteq Msg
      /\ row \in Table /\ inst \in Nat /\ nextId \in Nat
  BY DEF TypeOK, PassType, Table
<1>1. ASSUME NEW m \in Msg, Spooled(m) PROVE Spooled(m)'
  <2>1. CASE \E k \in Msg : ChannelEnqueue(k)
    <3>1. PICK k \in Msg : ChannelEnqueue(k)
      BY <2>1
    <3>2. k # m
      BY <3>1, <1>1 DEF ChannelEnqueue, IdsUnique
    <3>3. CASE row' = EnqueueClaimed(row, k, nextId, inst)
      <4>1. row'[m] = row[m]
        BY <3>2, <3>3, <1>a DEF EnqueueClaimed, Table
      <4> QED BY <4>1, <1>1 DEF Spooled
    <3> QED BY <3>1, <3>3, <1>1 DEF ChannelEnqueue, Spooled
  <2>2. CASE ~(\E k \in Msg : ChannelEnqueue(k))
    BY <2>2, <1>1, RowsOnlyGo DEF Spooled
  <2> QED BY <2>1, <2>2
<1>2. CASE PassClaim
  <2>1. \A m \in NextBatch(row) : m \in Msg /\ Spooled(m)
    BY DEF NextBatch, Pending, IdsUnique
  <2>2. pass'.batch \subseteq NextBatch(row)
    BY <1>2, <1>a DEF PassClaim, Abort, PassType
  <2> QED BY <2>1, <2>2, <1>1 DEF BatchSpooled
<1>3. ASSUME NEW m \in pass.batch, PassRow(m) PROVE BatchSpooled'
  <2>1. ASSUME NEW d, Advance(m, d) PROVE pass'.batch \subseteq pass.batch
    BY <2>1, <1>a DEF Advance, PassType
  <2>2. ASSUME Abort PROVE pass'.batch \subseteq pass.batch
    BY <2>2, <1>a DEF Abort, PassType
  <2>3. ASSUME pass' = [pass EXCEPT !.pc = "delete"] \/ pass' = [pass EXCEPT !.pc = "publish"]
        PROVE  pass'.batch \subseteq pass.batch
    BY <2>3, <1>a DEF PassType
  <2>4. pass'.batch \subseteq pass.batch
    BY <1>3, <2>1, <2>2, <2>3
       DEF PassRow, PassItem, PassPoison, PassDecide, PassPublish, PassDefer, PassDelete
  <2> QED BY <2>4, <1>1, <1>a DEF BatchSpooled
<1> QED BY PassChange, <1>1, <1>2, <1>3, <1>a DEF BatchSpooled

LEMMA FinishStep ==
    ASSUME TypeOK, FinishDecided, [Next]_vars
    PROVE  FinishDecided'
<1> USE DEF disk, proc, ghost
<1>a. /\ turn \in [Slot -> {Idle} \cup
                     [pc : {"check", "work", "mark", "complete"}, msg : Msg]]
      /\ fate \in [Msg -> SUBSET {"ended", "replayed", "skipped", "dead"}]
  BY DEF TypeOK
<1> SUFFICES ASSUME NEW s \in Slot, turn'[s].pc \in {"mark", "complete"}
             PROVE  "ended" \in fate'[turn'[s].msg]
  BY DEF FinishDecided
<1>1. ASSUME turn'[s] = turn[s] PROVE "ended" \in fate'[turn'[s].msg]
  <2>1. turn[s].msg \in Msg /\ "ended" \in fate[turn[s].msg]
    BY <1>1, <1>a DEF FinishDecided, Idle
  <2> QED BY <2>1, <1>1, FateGrows
<1>2. ASSUME NEW m \in Msg, ChannelStep(m) PROVE turn' = turn
  BY <1>2 DEF ChannelStep, ChannelEnqueue, ChannelPublish, ChannelRelease
<1>3. ASSUME Lifecycle, ~ProcessEnd PROVE turn' = turn
  BY <1>3 DEF Lifecycle, Boot, DrainReclaim, StartChannels, GoLive,
              ShutdownBegin, PumpStop, ShutdownRelease, ChannelsStop
<1>4. ASSUME PumpTick \/ PassClaim \/ PassRelease \/ Age PROVE turn' = turn
  BY <1>4 DEF PumpTick, PassClaim, PassRelease, Age
<1>5. ASSUME NEW m \in pass.batch, PassRow(m) PROVE turn' = turn
  BY <1>5 DEF PassRow, PassItem, PassPublish, PassDefer, PassDelete
<1>6. ASSUME NEW q, Prune(q) PROVE turn' = turn
  BY <1>6 DEF Prune
<1>7. ASSUME ProcessEnd PROVE FALSE
  BY <1>7 DEF ProcessEnd, Idle
<1>8. ASSUME NEW r \in Slot, TurnStart(r) \/ TurnStep(r), turn'[s] # turn[s]
      PROVE  "ended" \in fate'[turn'[s].msg]
  <2>1. CASE TurnStart(r) \/ TurnCheck(r) \/ TurnComplete(r)
    BY <2>1, <1>a, <1>8 DEF TurnStart, TurnCheck, TurnComplete, Go, Idle
  <2>2. CASE TurnAnswer(r) \/ TurnCancel(r)
    <3>1. turn[r].msg \in Msg
      BY <2>2, <1>a DEF TurnAnswer, TurnCancel, Idle
    <3>2. ASSUME Happens(turn[r].msg, "ended"), Go(r, "mark")
          PROVE  "ended" \in fate'[turn'[s].msg]
      BY <3>1, <3>2, <1>a, <1>8 DEF Happens, Go
    <3>3. CASE turn' = [turn EXCEPT ![r] = Idle]
      BY <3>3, <1>a, <1>8 DEF Idle
    <3> QED BY <2>2, <3>2, <3>3 DEF TurnAnswer, TurnCancel
  <2>3. CASE TurnMark(r)
    <3>1. turn[r].msg \in Msg /\ "ended" \in fate[turn[r].msg]
      BY <2>3, <1>a DEF TurnMark, FinishDecided, Idle
    <3>2. fate' = fate
      BY <2>3 DEF TurnMark
    <3>3. CASE Go(r, "complete")
      BY <3>1, <3>2, <3>3, <1>a, <1>8 DEF Go
    <3>4. CASE turn' = [turn EXCEPT ![r] = Idle]
      BY <3>4, <1>a, <1>8 DEF Idle
    <3> QED BY <2>3, <3>3, <3>4 DEF TurnMark
  <2> QED BY <1>8, <2>1, <2>2, <2>3 DEF TurnStep
<1>9. CASE UNCHANGED vars
  BY <1>9, <1>1 DEF vars
<1> QED
  BY <1>1, <1>2, <1>3, <1>4, <1>5, <1>6, <1>7, <1>8, <1>9 DEF Next, PassStep

LEMMA DeleteStep ==
    ASSUME TypeOK, IdsUnique, BatchSpooled, DeleteDecided, [Next]_vars
    PROVE  DeleteDecided'
<1> USE DEF disk, proc, ghost
<1>a. /\ pass \in PassType /\ pass.batch \subseteq Msg /\ row \in Table
      /\ fate \in [Msg -> SUBSET {"ended", "replayed", "skipped", "dead"}]
      /\ \A m \in Msg : row[m].id \in Nat
  BY DEF TypeOK, PassType, Table, Row
<1>b. \A m \in pass.batch : row'[m].id = row[m].id
  <2>1. ASSUME NEW k \in Msg, ChannelEnqueue(k) PROVE \A m \in Msg \ {k} : row'[m] = row[m]
    <3>1. row \in Table /\ inst \in Nat /\ nextId \in Nat
      BY DEF TypeOK, Table
    <3>2. CASE row' = EnqueueClaimed(row, k, nextId, inst)
      BY <3>1, <3>2, EnqueueAddsOne
    <3> QED BY <2>1, <3>2 DEF ChannelEnqueue
  <2>2. ASSUME NEW k \in Msg, ChannelEnqueue(k) PROVE k \notin pass.batch
    BY <2>2 DEF ChannelEnqueue, IdsUnique, BatchSpooled
  <2> QED BY <2>1, <2>2, <1>a, RowsOnlyGo
<1>c. ASSUME pass'.batch = pass.batch, NEW m \in pass.batch, Oldest(m)' PROVE Oldest(m)
  BY <1>b, <1>c DEF Oldest
<1>1. CASE pass' = pass
  BY <1>1, <1>a, <1>c, FateGrows DEF DeleteDecided
<1>2. CASE PassClaim
  BY <1>2, <1>a DEF PassClaim, Abort, PassType, DeleteDecided
<1>3. ASSUME NEW m \in pass.batch, PassRow(m) PROVE DeleteDecided'
  <2>1. ASSUME NEW d, Advance(m, d) PROVE pass'.pc # "delete"
    BY <2>1, <1>a DEF Advance, PassType
  <2>2. ASSUME Abort \/ pass' = [pass EXCEPT !.pc = "publish"] PROVE pass'.pc # "delete"
    BY <2>2, <1>a DEF Abort, PassType
  <2>3. ASSUME pass' = [pass EXCEPT !.pc = "delete"], NEW f, Happens(m, f)
        PROVE  DeleteDecided'
    <3>1. pass'.batch = pass.batch
      BY <2>3, <1>a DEF PassType
    <3>2. Oldest(m)
      BY <1>3 DEF PassRow
    <3>3. ASSUME NEW k \in pass.batch, Oldest(k)' PROVE k = m
      BY <3>1, <3>2, <3>3, <1>a, <1>c DEF Oldest, IdsUnique, BatchSpooled
    <3>4. f \in fate'[m]
      BY <2>3, <1>a DEF Happens
    <3> QED BY <3>1, <3>3, <3>4 DEF DeleteDecided
  <2> QED
    BY <1>3, <2>1, <2>2, <2>3
       DEF PassRow, PassItem, PassPoison, PassDecide, PassPublish, PassDefer, PassDelete,
           DeleteDecided
<1> QED BY PassChange, <1>1, <1>2, <1>3 DEF DeleteDecided

LEMMA KeptStep ==
    ASSUME KeptInv, [Next]_vars
    PROVE  AcceptedKept'
<1> USE DEF KeptInv
<1>a. row \in Table /\ inst \in Nat /\ nextId \in Nat /\ pass.batch \subseteq Msg
  BY DEF TypeOK, Table
<1> SUFFICES ASSUME NEW k \in Msg, row'[k].id # 0, ~row'[k].here
             PROVE  fate'[k] # {}
  BY DEF AcceptedKept, Spooled
<1>1. ASSUME row'[k].id = row[k].id, row'[k].here = row[k].here PROVE fate'[k] # {}
  BY <1>1, FateGrows DEF AcceptedKept, Spooled
<1>2. ASSUME NEW m \in Msg, ChannelEnqueue(m) PROVE fate'[k] # {}
  <2>1. CASE row' = EnqueueClaimed(row, m, nextId, inst)
    <3>1. row'[m].here /\ \A q \in Msg \ {m} : row'[q] = row[q]
      <4>1. m \in Msg /\ row \in Table /\ inst \in Nat /\ nextId \in Nat
        BY <1>2, <1>a
      <4>2. EnqueueClaimed(row, m, nextId, inst)[m].here
        BY <4>1, EnqueueAddsOne
      <4>3. \A q \in Msg \ {m} : EnqueueClaimed(row, m, nextId, inst)[q] = row[q]
        BY <4>1, EnqueueAddsOne
      <4> QED BY <2>1, <4>2, <4>3, Zenon
    <3> QED BY <3>1, <1>1
  <2> QED BY <1>2, <2>1, <1>1 DEF ChannelEnqueue
<1>3. ASSUME NEW m \in pass.batch, Oldest(m), PassDelete(m) PROVE fate'[k] # {}
  <2>1. CASE k = m
    BY <2>1, <1>3, FateGrows DEF PassDelete, DeleteDecided
  <2>2. CASE k # m
    BY <2>2, <1>3, <1>1, <1>a, CompleteRemovesOne DEF PassDelete
  <2> QED BY <2>1, <2>2
<1>4. ASSUME NEW s \in Slot, TurnComplete(s) PROVE fate'[k] # {}
  <2>1. turn[s].msg \in Msg /\ fate[turn[s].msg] # {}
    BY <1>4 DEF TurnComplete, TypeOK, Idle, FinishDecided
  <2>2. CASE k = turn[s].msg
    BY <2>1, <2>2, FateGrows
  <2>3. CASE k # turn[s].msg
    BY <2>1, <2>3, <1>4, <1>1, <1>a, CompleteRemovesOne DEF TurnComplete
  <2> QED BY <2>2, <2>3
<1>5. CASE SameRows(row, row')
  BY <1>5, <1>1 DEF SameRows
<1>6. CASE UNCHANGED vars
  BY <1>6, <1>1 DEF vars, disk
<1> QED BY RowChange, <1>2, <1>3, <1>4, <1>5, <1>6

\* No failing database call, crash, refused publish or shutdown ever makes the
\* row of an accepted message disappear without a reason.
THEOREM AcceptedAreKept == Spec => []AcceptedKept
<1>1. Init => KeptInv
  <2> SUFFICES ASSUME Init PROVE KeptInv
    OBVIOUS
  <2>1. \A m \in Msg : row[m] = NoRow
    BY DEF Init
  <2>2. IdsUnique /\ AcceptedKept
    BY <2>1 DEF Init, IdsUnique, AcceptedKept, Spooled, NoRow
  <2>3. BatchSpooled /\ DeleteDecided
    BY DEF Init, NoPass, BatchSpooled, DeleteDecided
  <2>4. FinishDecided
    BY DEF Init, Idle, FinishDecided
  <2> QED BY <2>2, <2>3, <2>4, TypeInit DEF KeptInv
<1>2. KeptInv /\ [Next]_vars => KeptInv'
  BY TypeStep, IdsStep, BatchStep, DeleteStep, FinishStep, KeptStep DEF KeptInv
<1>3. KeptInv => AcceptedKept
  BY DEF KeptInv
<1> QED BY <1>1, <1>2, <1>3, PTL DEF Spec

-----------------------------------------------------------------------------
(* What is skipped has been answered *)

\* Every key the ledger knows is that of a message whose turn ended.
LedgerEnded == \A q \in ledger : \E k \in Msg : Key[k] = q /\ "ended" \in fate[k]

SkipInv == TypeOK /\ FinishDecided /\ LedgerEnded /\ SkipAnswered

\* Only a turn that ended records a key.
LEMMA LedgerChange ==
    ASSUME TypeOK, [Next]_vars
    PROVE  \/ ledger' \subseteq ledger
           \/ \E s \in Slot : TurnMark(s) /\ ledger' = MarkProcessed(ledger, turn[s].msg)
<1> USE DEF disk, proc, ghost
<1>1. ASSUME NEW m \in Msg, ChannelStep(m) PROVE ledger' = ledger
  BY <1>1 DEF ChannelStep, ChannelEnqueue, ChannelPublish, ChannelRelease
<1>2. ASSUME Lifecycle PROVE ledger' = ledger
  BY <1>2 DEF Lifecycle, Boot, DrainReclaim, StartChannels, GoLive,
              ShutdownBegin, PumpStop, ShutdownRelease, ChannelsStop, ProcessEnd
<1>3. ASSUME PumpTick \/ PassClaim \/ PassRelease \/ Age PROVE ledger' = ledger
  BY <1>3 DEF PumpTick, PassClaim, PassRelease, Age
<1>4. ASSUME NEW m \in pass.batch, PassRow(m) PROVE ledger' = ledger
  BY <1>4 DEF PassRow, PassItem, PassPublish, PassDefer, PassDelete
<1>5. ASSUME NEW s \in Slot, TurnStart(s) \/ TurnCheck(s) \/ TurnAnswer(s) \/ TurnCancel(s) \/ TurnComplete(s)
      PROVE  ledger' = ledger
  BY <1>5 DEF TurnStart, TurnCheck, TurnAnswer, TurnCancel, TurnComplete
<1>6. ASSUME NEW s \in Slot, TurnMark(s)
      PROVE  ledger' = ledger \/ ledger' = MarkProcessed(ledger, turn[s].msg)
  BY <1>6 DEF TurnMark
<1>7. ASSUME NEW q, Prune(q) PROVE ledger' \subseteq ledger
  BY <1>7 DEF Prune
<1>8. CASE UNCHANGED vars
  BY <1>8 DEF vars
<1> QED BY <1>1, <1>2, <1>3, <1>4, <1>5, <1>6, <1>7, <1>8 DEF Next, PassStep, TurnStep

LEMMA LedgerStep ==
    ASSUME TypeOK, FinishDecided, LedgerEnded, [Next]_vars
    PROVE  LedgerEnded'
<1> SUFFICES ASSUME NEW q \in ledger'
             PROVE  \E k \in Msg : Key[k] = q /\ "ended" \in fate'[k]
  BY DEF LedgerEnded
<1>1. CASE q \in ledger
  BY <1>1, FateGrows DEF LedgerEnded
<1>2. ASSUME NEW s \in Slot, TurnMark(s), q = Key[turn[s].msg]
      PROVE  \E k \in Msg : Key[k] = q /\ "ended" \in fate'[k]
  <2>1. turn[s].msg \in Msg /\ "ended" \in fate[turn[s].msg]
    BY <1>2 DEF TurnMark, TypeOK, Idle, FinishDecided
  <2> QED BY <2>1, <1>2, FateGrows
<1> QED BY <1>1, <1>2, LedgerChange DEF MarkProcessed

\* Who may say that m was skipped, or that its turn ended: the ledger knows it,
\* or a turn had it.
LEMMA FateChange ==
    ASSUME TypeOK, [Next]_vars, NEW m \in Msg
    PROVE  \/ fate'[m] = fate[m]
           \/ /\ m \in pass.batch /\ PassRow(m) /\ PassItem(m)
              /\ fate'[m] = fate[m] \cup {"dead"}
           \/ /\ m \in pass.batch /\ PassRow(m) /\ PassItem(m) /\ WasProcessed(ledger, m)
              /\ fate'[m] = fate[m] \cup {"skipped"}
           \/ m \in pass.batch /\ PassPublish(m) /\ fate'[m] = fate[m] \cup {"replayed"}
           \/ \E s \in Slot : /\ TurnCheck(s) /\ turn[s].msg = m /\ WasProcessed(ledger, m)
                              /\ fate'[m] = fate[m] \cup {"skipped"}
           \/ \E s \in Slot : /\ TurnAnswer(s) \/ TurnCancel(s)
                              /\ turn[s].msg = m
                              /\ fate'[m] = fate[m] \cup {"ended"}
<1> USE DEF disk, proc, ghost
<1>a. fate \in [Msg -> SUBSET {"ended", "replayed", "skipped", "dead"}]
  BY DEF TypeOK
<1>b. ASSUME NEW k, NEW f, Happens(k, f)
      PROVE  fate'[m] = fate[m] \/ (k = m /\ fate'[m] = fate[m] \cup {f})
  BY <1>a, <1>b DEF Happens
<1>1. ASSUME NEW k \in Msg, ChannelStep(k) PROVE fate' = fate
  BY <1>1 DEF ChannelStep, ChannelEnqueue, ChannelPublish, ChannelRelease
<1>2. ASSUME Lifecycle PROVE fate' = fate
  BY <1>2 DEF Lifecycle, Boot, DrainReclaim, StartChannels, GoLive,
              ShutdownBegin, PumpStop, ShutdownRelease, ChannelsStop, ProcessEnd
<1>3. ASSUME PumpTick \/ PassClaim \/ PassRelease \/ Age PROVE fate' = fate
  BY <1>3 DEF PumpTick, PassClaim, PassRelease, Age
<1>4. ASSUME NEW k \in pass.batch, PassItem(k)
      PROVE  \/ fate' = fate
             \/ Happens(k, "dead")
             \/ WasProcessed(ledger, k) /\ Happens(k, "skipped")
  BY <1>4 DEF PassItem, PassPoison, PassDecide
<1>5. ASSUME NEW k \in pass.batch, PassPublish(k) \/ PassDefer(k) \/ PassDelete(k)
      PROVE  fate' = fate \/ (PassPublish(k) /\ Happens(k, "replayed"))
  BY <1>5 DEF PassPublish, PassDefer, PassDelete
<1>6. ASSUME NEW s \in Slot, TurnStart(s) \/ TurnMark(s) \/ TurnComplete(s) PROVE fate' = fate
  BY <1>6 DEF TurnStart, TurnMark, TurnComplete
<1>7. ASSUME NEW s \in Slot, TurnCheck(s)
      PROVE  fate' = fate \/ (WasProcessed(ledger, turn[s].msg) /\ Happens(turn[s].msg, "skipped"))
  BY <1>7 DEF TurnCheck
<1>8. ASSUME NEW s \in Slot, TurnAnswer(s) \/ TurnCancel(s)
      PROVE  fate' = fate \/ Happens(turn[s].msg, "ended")
  BY <1>8 DEF TurnAnswer, TurnCancel
<1>9. ASSUME NEW q, Prune(q) PROVE fate' = fate
  BY <1>9 DEF Prune
<1>10. CASE UNCHANGED vars
  BY <1>10 DEF vars
<1> QED
  <2>1. CASE \E k \in pass.batch : PassRow(k)
    BY <2>1, <1>b, <1>4, <1>5 DEF PassRow
  <2>2. CASE \E s \in Slot : TurnStart(s) \/ TurnStep(s)
    BY <2>2, <1>b, <1>6, <1>7, <1>8 DEF TurnStep
  <2> QED BY <2>1, <2>2, <1>1, <1>2, <1>3, <1>9, <1>10 DEF Next, PassStep

LEMMA SkipStep ==
    ASSUME SkipInv, [Next]_vars
    PROVE  SkipAnswered'
<1> USE DEF SkipInv
<1> SUFFICES ASSUME NEW m \in Msg, "skipped" \in fate'[m]
             PROVE  \E k \in Msg : Key[k] = Key[m] /\ "ended" \in fate'[k]
  BY DEF SkipAnswered
<1>1. CASE "skipped" \in fate[m]
  BY <1>1, FateGrows DEF SkipAnswered
<1>2. CASE WasProcessed(ledger, m)
  BY <1>2, FateGrows DEF WasProcessed, LedgerEnded
<1> QED BY <1>1, <1>2, FateChange

\* A message is skipped as a duplicate only if the turn of a message with its
\* key ended: whatever crashes, fails or is pruned, what is only queued,
\* claimed or replayed never counts as processed.
THEOREM SkippedAreAnswered == Spec => []SkipAnswered
<1>1. Init => SkipInv
  <2> SUFFICES ASSUME Init PROVE SkipInv
    OBVIOUS
  <2>1. FinishDecided
    BY DEF Init, Idle, FinishDecided
  <2>2. LedgerEnded /\ SkipAnswered
    BY DEF Init, LedgerEnded, SkipAnswered
  <2> QED BY <2>1, <2>2, TypeInit DEF SkipInv
<1>2. SkipInv /\ [Next]_vars => SkipInv'
  BY TypeStep, FinishStep, LedgerStep, SkipStep DEF SkipInv
<1>3. SkipInv => SkipAnswered
  BY DEF SkipInv
<1> QED BY <1>1, <1>2, <1>3, PTL DEF Spec

-----------------------------------------------------------------------------
(* Where a message is in memory *)

AtNew(m) == ch[m] = "new"
AtChannel(m) == ch[m] \in {"enqueued", "refused"}

LEMMA BusChange ==
    ASSUME TypeOK, [Next]_vars
    PROVE  \/ UNCHANGED bus
           \/ \E m \in Msg : ChannelPublish(m) /\ bus' = Append(bus, m) /\ ch[m] = "enqueued"
           \/ \E m \in pass.batch : PassRow(m) /\ PassPublish(m) /\ bus' = Append(bus, m)
           \/ \E s \in Slot : TurnStart(s)
           \/ ProcessEnd
<1> USE DEF disk, proc, ghost
<1>1. ASSUME NEW m \in Msg, ChannelStep(m)
      PROVE  UNCHANGED bus \/ (ChannelPublish(m) /\ bus' = Append(bus, m) /\ ch[m] = "enqueued")
  BY <1>1 DEF ChannelStep, ChannelEnqueue, ChannelPublish, ChannelRelease
<1>2. ASSUME Lifecycle PROVE ProcessEnd \/ UNCHANGED bus
  BY <1>2 DEF Lifecycle, Boot, DrainReclaim, StartChannels, GoLive,
              ShutdownBegin, PumpStop, ShutdownRelease, ChannelsStop
<1>3. ASSUME PumpTick \/ PassClaim \/ PassRelease \/ Age PROVE UNCHANGED bus
  BY <1>3 DEF PumpTick, PassClaim, PassRelease, Age
<1>4. ASSUME NEW m \in pass.batch, PassRow(m)
      PROVE  UNCHANGED bus \/ (PassPublish(m) /\ bus' = Append(bus, m))
  BY <1>4 DEF PassRow, PassItem, PassPublish, PassDefer, PassDelete
<1>5. ASSUME NEW s \in Slot, TurnStart(s) \/ TurnStep(s) PROVE UNCHANGED bus \/ TurnStart(s)
  BY <1>5 DEF TurnStep, TurnCheck, TurnAnswer, TurnCancel, TurnMark, TurnComplete
<1>6. ASSUME NEW q, Prune(q) PROVE UNCHANGED bus
  BY <1>6 DEF Prune
<1>7. CASE UNCHANGED vars
  BY <1>7 DEF vars
<1> QED
  <2>1. CASE PassStep
    BY <2>1, <1>3, <1>4 DEF PassStep
  <2> QED BY <2>1, <1>1, <1>2, <1>3, <1>5, <1>6, <1>7 DEF Next

LEMMA ChChange ==
    ASSUME TypeOK, [Next]_vars, NEW k \in Msg
    PROVE  \/ ch'[k] = ch[k]
           \/ ChannelEnqueue(k) /\ ch[k] = "new" /\ ch'[k] = "enqueued"
           \/ ChannelPublish(k) /\ bus' = Append(bus, k) /\ ch[k] = "enqueued" /\ ch'[k] = "done"
           \/ ChannelPublish(k) /\ UNCHANGED bus /\ ch[k] = "enqueued" /\ ch'[k] = "refused"
           \/ ChannelRelease(k) /\ ch[k] = "refused" /\ ch'[k] = "done"
           \/ ProcessEnd /\ ch'[k] = IF ch[k] = "new" THEN "new" ELSE "done"
<1> USE DEF disk, proc, ghost
<1>a. ch \in [Msg -> {"new", "enqueued", "refused", "done"}]
  BY DEF TypeOK
<1>1. ASSUME NEW m \in Msg, ChannelEnqueue(m) PROVE ch[m] = "new" /\ ch' = [ch EXCEPT ![m] = "enqueued"]
  BY <1>1 DEF ChannelEnqueue
<1>2. ASSUME NEW m \in Msg, ChannelPublish(m)
      PROVE  \/ bus' = Append(bus, m) /\ ch[m] = "enqueued" /\ ch' = [ch EXCEPT ![m] = "done"]
             \/ UNCHANGED bus /\ ch[m] = "enqueued" /\ ch' = [ch EXCEPT ![m] = "refused"]
  BY <1>2 DEF ChannelPublish
<1>3. ASSUME NEW m \in Msg, ChannelRelease(m)
      PROVE  ch[m] = "refused" /\ ch' = [ch EXCEPT ![m] = "done"]
  BY <1>3 DEF ChannelRelease
<1>4. ASSUME Lifecycle PROVE ProcessEnd \/ ch' = ch
  BY <1>4 DEF Lifecycle, Boot, DrainReclaim, StartChannels, GoLive,
              ShutdownBegin, PumpStop, ShutdownRelease, ChannelsStop
<1>5. ASSUME PumpTick \/ PassClaim \/ PassRelease \/ Age PROVE ch' = ch
  BY <1>5 DEF PumpTick, PassClaim, PassRelease, Age
<1>6. ASSUME NEW m \in pass.batch, PassRow(m) PROVE ch' = ch
  BY <1>6 DEF PassRow, PassItem, PassPublish, PassDefer, PassDelete
<1>7. ASSUME NEW s \in Slot, TurnStart(s) \/ TurnStep(s) PROVE ch' = ch
  BY <1>7 DEF TurnStart, TurnStep, TurnCheck, TurnAnswer, TurnCancel, TurnMark, TurnComplete
<1>8. ASSUME NEW q, Prune(q) PROVE ch' = ch
  BY <1>8 DEF Prune
<1>9. CASE UNCHANGED vars
  BY <1>9 DEF vars
<1>10. CASE \E m \in Msg : ChannelStep(m)
  BY <1>10, <1>a, <1>1, <1>2, <1>3 DEF ChannelStep
<1>11. CASE ProcessEnd
  BY <1>11 DEF ProcessEnd
<1> QED
  <2>1. CASE PassStep
    BY <2>1, <1>5, <1>6 DEF PassStep
  <2> QED BY <2>1, <1>4, <1>5, <1>7, <1>8, <1>9, <1>10, <1>11 DEF Next

\* How a turn ends.
Ends(s) ==
    \/ TurnCheck(s) /\ WasProcessed(ledger, turn[s].msg) /\ Happens(turn[s].msg, "skipped")
    \/ TurnCancel(s) /\ ~Running /\ turn[s].pc = "work"
    \/ TurnMark(s) /\ Fails
    \/ TurnComplete(s)

LEMMA TurnStepDoes ==
    ASSUME TypeOK, NEW s \in Slot, TurnStep(s)
    PROVE  /\ turn[s].msg \in Msg
           /\ turn'[s].msg = turn[s].msg \/ (turn'[s] = Idle /\ Ends(s))
           /\ \A t \in Slot \ {s} : turn'[t] = turn[t]
<1>a. turn \in [Slot -> {Idle} \cup
                  [pc : {"check", "work", "mark", "complete"}, msg : Msg]]
  BY DEF TypeOK
<1>1. turn[s].pc # "idle"
  BY DEF TurnStep, TurnCheck, TurnAnswer, TurnCancel, TurnMark, TurnComplete
<1>2. turn[s].msg \in Msg
  BY <1>1, <1>a DEF Idle
<1>3. \/ \E pc : Go(s, pc)
      \/ turn' = [turn EXCEPT ![s] = Idle] /\ Ends(s)
  BY DEF TurnStep, TurnCheck, TurnAnswer, TurnCancel, TurnMark, TurnComplete, Ends
<1>4. ASSUME NEW pc, Go(s, pc)
      PROVE  turn'[s].msg = turn[s].msg /\ \A t \in Slot \ {s} : turn'[t] = turn[t]
  <2>1. turn'[s] = [turn[s] EXCEPT !.pc = pc] /\ \A t \in Slot \ {s} : turn'[t] = turn[t]
    BY <1>4, <1>a DEF Go
  <2>2. turn[s] \in [pc : {"check", "work", "mark", "complete"}, msg : Msg]
    BY <1>1, <1>a DEF Idle
  <2> QED BY <2>1, <2>2
<1> QED BY <1>a, <1>2, <1>3, <1>4

LEMMA TurnChange ==
    ASSUME TypeOK, [Next]_vars
    PROVE  \/ UNCHANGED turn
           \/ \E s \in Slot : /\ TurnStart(s) /\ turn[s] = Idle /\ bus # <<>> /\ bus' = Tail(bus)
                              /\ turn'[s].msg = Head(bus)
                              /\ \A t \in Slot \ {s} : turn'[t] = turn[t]
           \/ \E s \in Slot : /\ TurnStep(s) /\ turn[s].msg \in Msg
                              /\ turn'[s].msg = turn[s].msg \/ (turn'[s] = Idle /\ Ends(s))
                              /\ \A t \in Slot \ {s} : turn'[t] = turn[t]
           \/ ProcessEnd /\ turn' = [s \in Slot |-> Idle]
<1> USE DEF disk, proc, ghost
<1>a. turn \in [Slot -> {Idle} \cup
                  [pc : {"check", "work", "mark", "complete"}, msg : Msg]]
  BY DEF TypeOK
<1>1. ASSUME NEW m \in Msg, ChannelStep(m) PROVE UNCHANGED turn
  BY <1>1 DEF ChannelStep, ChannelEnqueue, ChannelPublish, ChannelRelease
<1>2. ASSUME Lifecycle PROVE (ProcessEnd /\ turn' = [s \in Slot |-> Idle]) \/ UNCHANGED turn
  BY <1>2 DEF Lifecycle, Boot, DrainReclaim, StartChannels, GoLive,
              ShutdownBegin, PumpStop, ShutdownRelease, ChannelsStop, ProcessEnd
<1>3. ASSUME PumpTick \/ PassClaim \/ PassRelease \/ Age PROVE UNCHANGED turn
  BY <1>3 DEF PumpTick, PassClaim, PassRelease, Age
<1>4. ASSUME NEW m \in pass.batch, PassRow(m) PROVE UNCHANGED turn
  BY <1>4 DEF PassRow, PassItem, PassPublish, PassDefer, PassDelete
<1>5. ASSUME NEW s \in Slot, TurnStart(s)
      PROVE  /\ turn[s] = Idle /\ bus # <<>> /\ bus' = Tail(bus)
             /\ turn'[s].msg = Head(bus)
             /\ \A t \in Slot \ {s} : turn'[t] = turn[t]
  BY <1>5, <1>a DEF TurnStart
<1>6. ASSUME NEW s \in Slot, TurnStep(s)
      PROVE  /\ turn[s].msg \in Msg
             /\ turn'[s].msg = turn[s].msg \/ (turn'[s] = Idle /\ Ends(s))
             /\ \A t \in Slot \ {s} : turn'[t] = turn[t]
  BY <1>6, TurnStepDoes
<1>7. ASSUME NEW q, Prune(q) PROVE UNCHANGED turn
  BY <1>7 DEF Prune
<1>8. CASE UNCHANGED vars
  BY <1>8 DEF vars
<1> QED
  <2>1. CASE PassStep
    BY <2>1, <1>3, <1>4 DEF PassStep
  <2>2. CASE \E s \in Slot : TurnStart(s) \/ TurnStep(s)
    BY <2>2, <1>5, <1>6
  <2> QED BY <2>1, <2>2, <1>1, <1>2, <1>3, <1>7, <1>8 DEF Next

LEMMA RowTypes ==
    ASSUME TypeOK
    PROVE  /\ row \in Table /\ inst \in Nat /\ nextId \in Nat \ {0} /\ faults \in Nat
           /\ pass.batch \subseteq Msg /\ pass.mine \subseteq Msg /\ pass \in PassType
           /\ \A m \in Msg : /\ row[m].id \in Nat /\ row[m].owner \in Nat
                             /\ row[m].here \in BOOLEAN /\ row[m].stale \in BOOLEAN
BY DEF TypeOK, Table, Row, PassType

\* The batch has one oldest row, and its ids stay what they are.
LEMMA OneOldest ==
    ASSUME TypeOK, IdsUnique, BatchSpooled,
           NEW m \in pass.batch, NEW k \in pass.batch, Oldest(m), Oldest(k)
    PROVE  k = m
BY RowTypes DEF Oldest, IdsUnique, BatchSpooled

LEMMA IdsStay ==
    ASSUME TypeOK, IdsUnique, [Next]_vars, NEW k \in Msg
    PROVE  /\ Spooled(k) => row'[k].id = row[k].id /\ (row'[k].here => row[k].here)
           /\ ~ChannelEnqueue(k) => row'[k].id = row[k].id /\ (row'[k].here => row[k].here)
<1>1. CASE ~(\E m \in Msg : ChannelEnqueue(m))
  BY <1>1, RowsOnlyGo
<1>2. ASSUME NEW m \in Msg, ChannelEnqueue(m), k # m PROVE row'[k] = row[k]
  <2>1. CASE row' = EnqueueClaimed(row, m, nextId, inst)
    BY <2>1, <1>2, RowTypes DEF EnqueueClaimed, Table
  <2> QED BY <2>1, <1>2 DEF ChannelEnqueue
<1>3. ASSUME ChannelEnqueue(k) PROVE ~Spooled(k)
  BY <1>3 DEF ChannelEnqueue, IdsUnique
<1> QED BY <1>1, <1>2, <1>3

LEMMA OldestStays ==
    ASSUME TypeOK, IdsUnique, BatchSpooled, [Next]_vars,
           NEW k \in pass.batch, pass'.batch = pass.batch
    PROVE  Oldest(k)' <=> Oldest(k)
<1>1. \A m \in pass.batch : row'[m].id = row[m].id
  BY RowTypes, IdsStay DEF BatchSpooled
<1> QED BY <1>1 DEF Oldest

\* What the pass does with the row it works on.
LEMMA PassRowDoes ==
    ASSUME TypeOK, IdsUnique, BatchSpooled, [Next]_vars, NEW m \in pass.batch, PassRow(m)
    PROVE  /\ m \in Msg /\ Oldest(m) /\ pass'.mine = pass.mine
           /\ ToPublish = IF pass.pc = "delete" THEN pass.batch \ {m} ELSE pass.batch
           /\ \/ /\ PassItem(m) /\ pass.pc = "item" /\ pass'.pc = "delete"
                 /\ pass'.batch = pass.batch /\ ToPublish' = ToPublish \ {m}
                 /\ fate'[m] \cap {"skipped", "dead"} # {} /\ Succeeds
              \/ /\ PassItem(m) /\ pass.pc = "item" /\ pass'.pc = "publish"
                 /\ pass'.batch = pass.batch /\ ToPublish' = ToPublish /\ UNCHANGED <<row, fate>>
              \/ /\ PassPublish(m) /\ pass.pc = "publish" /\ pass'.pc = "delete"
                 /\ pass'.batch = pass.batch /\ ToPublish' = ToPublish \ {m} /\ UNCHANGED row
              \/ /\ pass'.pc \in {"item", "claim", "release"} /\ pass'.batch = pass.batch \ {m}
                 /\ ToPublish' = ToPublish \ {m} /\ UNCHANGED fate
                 /\ PassDelete(m) => pass.pc = "delete" /\ row' = Complete(row, m)
              \/ /\ pass'.pc = "release" /\ pass'.batch = {}
                 /\ ToPublish' = {} /\ UNCHANGED <<row, fate>> /\ Fails
<1> USE DEF disk, proc, ghost
<1>a. m \in Msg /\ Oldest(m) /\ pass \in PassType /\ pass.pc \in {"item", "publish", "delete"}
  BY RowTypes DEF PassRow, PassItem, PassPublish, PassDefer, PassDelete
<1>b. \A k \in pass.batch : Oldest(k) <=> k = m
  BY <1>a, OneOldest
<1>c. ToPublish = IF pass.pc = "delete" THEN pass.batch \ {m} ELSE pass.batch
  <2>1. {k \in pass.batch : ~Oldest(k)} = pass.batch \ {m}
    BY <1>b
  <2> QED BY <2>1, <1>a DEF ToPublish
<1>1. ASSUME pass' = [pass EXCEPT !.pc = "delete"]
      PROVE  /\ pass'.mine = pass.mine /\ pass'.batch = pass.batch /\ pass'.pc = "delete"
             /\ ToPublish' = pass.batch \ {m}
  <2>1. pass'.mine = pass.mine /\ pass'.batch = pass.batch /\ pass'.pc = "delete"
    BY <1>1, <1>a DEF PassType
  <2>2. \A k \in pass.batch : Oldest(k)' <=> k = m
    BY <2>1, <1>b, OldestStays
  <2>3. ToPublish' = {k \in pass.batch : ~Oldest(k)'}
    BY <2>1 DEF ToPublish
  <2> QED BY <2>1, <2>2, <2>3
<1>2. ASSUME pass' = [pass EXCEPT !.pc = "publish"]
      PROVE  /\ pass'.mine = pass.mine /\ pass'.batch = pass.batch /\ pass'.pc = "publish"
             /\ ToPublish' = pass.batch
  BY <1>2, <1>a DEF PassType, ToPublish
<1>3. ASSUME NEW d, Advance(m, d)
      PROVE  /\ pass'.mine = pass.mine /\ pass'.batch = pass.batch \ {m}
             /\ pass'.pc \in {"item", "claim", "release"}
             /\ ToPublish' = ToPublish \ {m}
  <2>1. /\ pass'.mine = pass.mine /\ pass'.batch = pass.batch \ {m}
        /\ pass'.pc \in {"item", "claim", "release"}
        /\ pass'.pc # "item" => pass'.batch = {}
    BY <1>3, <1>a DEF Advance, PassType
  <2>2. ToPublish' = pass.batch \ {m}
    BY <2>1 DEF ToPublish
  <2> QED BY <2>1, <2>2, <1>c
<1>4. ASSUME Abort
      PROVE  /\ pass'.mine = pass.mine /\ pass'.batch = {} /\ pass'.pc = "release"
             /\ ToPublish' = {}
  BY <1>4, <1>a DEF Abort, PassType, ToPublish
<1>5. ASSUME NEW f, Happens(m, f) PROVE f \in fate'[m]
  BY <1>5, <1>a DEF Happens, TypeOK
<1>6. CASE PassItem(m)
  <2>1. pass.pc = "item" /\ ~PassDelete(m)
    BY <1>6 DEF PassItem, PassDelete
  <2>2. \/ pass' = [pass EXCEPT !.pc = "delete"] /\ (Happens(m, "dead") \/ Happens(m, "skipped"))
           /\ Succeeds
        \/ pass' = [pass EXCEPT !.pc = "publish"] /\ UNCHANGED <<row, fate>>
        \/ Advance(m, pass.deferred) /\ UNCHANGED fate
        \/ Abort /\ UNCHANGED <<row, fate>> /\ Fails
    BY <1>6 DEF PassItem, PassPoison, PassDecide
  <2> QED BY <1>6, <2>1, <2>2, <1>a, <1>c, <1>1, <1>2, <1>3, <1>4, <1>5
<1>7. CASE PassPublish(m)
  BY <1>7, <1>a, <1>c, <1>1 DEF PassPublish
<1>8. CASE PassDefer(m)
  <2>1. pass.pc = "publish" /\ UNCHANGED fate /\ ~PassDelete(m)
    BY <1>8 DEF PassDefer, PassDelete
  <2>2. Advance(m, TRUE) \/ (Abort /\ UNCHANGED row /\ Fails)
    BY <1>8 DEF PassDefer
  <2> QED BY <2>1, <2>2, <1>a, <1>c, <1>3, <1>4
<1>9. CASE PassDelete(m)
  <2>1. pass.pc = "delete" /\ UNCHANGED fate
    BY <1>9 DEF PassDelete
  <2>2. (Advance(m, pass.deferred) /\ row' = Complete(row, m)) \/ (Abort /\ UNCHANGED row /\ Fails)
    BY <1>9 DEF PassDelete
  <2> QED BY <2>1, <2>2, <1>a, <1>c, <1>3, <1>4
<1> QED BY <1>6, <1>7, <1>8, <1>9 DEF PassRow

LEMMA PassClaimDoes ==
    ASSUME TypeOK, PassClaim
    PROVE  /\ pass.pc = "claim" /\ ToPublish = {}
           /\ \/ /\ pass'.pc = "item" /\ pass'.batch = NextBatch(row) /\ ToPublish' = NextBatch(row)
                 /\ pass'.mine = pass.mine \cup NextBatch(row) /\ row' = ClaimBatch(row, inst)
                 /\ ~PassCancelled /\ Succeeds
              \/ /\ pass'.pc = "release" /\ pass'.batch = {} /\ ToPublish' = {}
                 /\ pass'.mine = pass.mine /\ UNCHANGED row
                 /\ Succeeds \/ Fails
BY RowTypes DEF PassClaim, Abort, ToPublish, PassType

LEMMA ToPublishStays ==
    ASSUME TypeOK, IdsUnique, BatchSpooled, [Next]_vars, UNCHANGED pass
    PROVE  ToPublish' = ToPublish
<1>1. {m \in pass'.batch : ~Oldest(m)'} = {m \in pass.batch : ~Oldest(m)}
  BY OldestStays
<1> QED BY <1>1 DEF ToPublish

\* A step of anybody else leaves the pass alone, or starts or ends it.
LEMMA PassSteps ==
    ASSUME TypeOK, IdsUnique, BatchSpooled, [Next]_vars
    PROVE  \/ UNCHANGED pass /\ ToPublish' = ToPublish
           \/ /\ DrainReclaim \/ PumpTick
              /\ pass' = [NoPass EXCEPT !.pc = "claim"] /\ ToPublish' = {}
           \/ PassRelease /\ pass.pc = "release" /\ pass' = NoPass /\ ToPublish = {} /\ ToPublish' = {}
           \/ ProcessEnd /\ pass' = NoPass /\ ToPublish' = {}
           \/ PassClaim
           \/ \E m \in pass.batch : PassRow(m)
<1> USE DEF disk, proc, ghost
<1>a. UNCHANGED pass => ToPublish' = ToPublish
  BY ToPublishStays
<1>1. ASSUME NEW m \in Msg, ChannelStep(m) PROVE pass' = pass
  BY <1>1 DEF ChannelStep, ChannelEnqueue, ChannelPublish, ChannelRelease
<1>2. ASSUME DrainReclaim \/ PumpTick
      PROVE  pass' = [NoPass EXCEPT !.pc = "claim"] /\ ToPublish' = {}
  BY <1>2 DEF DrainReclaim, PumpTick, NoPass, ToPublish
<1>3. ASSUME ProcessEnd PROVE pass' = NoPass /\ ToPublish' = {}
  BY <1>3 DEF ProcessEnd, NoPass, ToPublish
<1>4. ASSUME PassRelease
      PROVE  pass.pc = "release" /\ pass' = NoPass /\ ToPublish = {} /\ ToPublish' = {}
  BY <1>4 DEF PassRelease, NoPass, ToPublish
<1>5. ASSUME Boot \/ StartChannels \/ GoLive \/ ShutdownBegin \/ PumpStop
             \/ ShutdownRelease \/ ChannelsStop \/ Age
      PROVE  pass' = pass
  BY <1>5 DEF Boot, StartChannels, GoLive, ShutdownBegin, PumpStop,
              ShutdownRelease, ChannelsStop, Age
<1>6. ASSUME NEW s \in Slot, TurnStart(s) \/ TurnStep(s) PROVE pass' = pass
  BY <1>6 DEF TurnStart, TurnStep, TurnCheck, TurnAnswer, TurnCancel, TurnMark, TurnComplete
<1>7. ASSUME NEW q, Prune(q) PROVE pass' = pass
  BY <1>7 DEF Prune
<1>8. ASSUME UNCHANGED vars PROVE pass' = pass
  BY <1>8 DEF vars
<1> QED BY <1>a, <1>1, <1>2, <1>3, <1>4, <1>5, <1>6, <1>7, <1>8 DEF Next, Lifecycle, PassStep

\* How the process's life goes on.
LEMMA PhaseStep ==
    ASSUME TypeOK, [Next]_vars
    PROVE  \/ UNCHANGED <<phase, inst>>
           \/ Boot /\ phase = "down" /\ phase' = "boot" /\ inst' = inst + 1
           \/ DrainReclaim /\ phase = "boot" /\ phase' = "drain" /\ inst' = inst
           \/ StartChannels /\ phase = "drain" /\ phase' = "channels" /\ inst' = inst
           \/ GoLive /\ phase = "channels" /\ phase' = "live" /\ inst' = inst
           \/ ShutdownBegin /\ phase = "live" /\ phase' = "draining" /\ inst' = inst
           \/ PumpStop /\ phase = "draining" /\ phase' = "quiet" /\ inst' = inst
           \/ ShutdownRelease /\ phase = "quiet" /\ phase' = "released" /\ inst' = inst
           \/ ChannelsStop /\ phase = "released" /\ phase' = "closing" /\ inst' = inst
           \/ ProcessEnd /\ phase # "down" /\ phase' = "down" /\ inst' = inst
<1> USE DEF disk, proc, ghost
<1>1. ASSUME NEW m \in Msg, ChannelStep(m) PROVE UNCHANGED <<phase, inst>>
  BY <1>1 DEF ChannelStep, ChannelEnqueue, ChannelPublish, ChannelRelease
<1>2. CASE Lifecycle
  BY <1>2 DEF Lifecycle, Boot, DrainReclaim, StartChannels, GoLive,
              ShutdownBegin, PumpStop, ShutdownRelease, ChannelsStop, ProcessEnd
<1>3. ASSUME PumpTick \/ PassClaim \/ PassRelease \/ Age PROVE UNCHANGED <<phase, inst>>
  BY <1>3 DEF PumpTick, PassClaim, PassRelease, Age
<1>4. ASSUME NEW m \in pass.batch, PassRow(m) PROVE UNCHANGED <<phase, inst>>
  BY <1>4 DEF PassRow, PassItem, PassPublish, PassDefer, PassDelete
<1>5. ASSUME NEW s \in Slot, TurnStart(s) \/ TurnStep(s) PROVE UNCHANGED <<phase, inst>>
  BY <1>5 DEF TurnStart, TurnStep, TurnCheck, TurnAnswer, TurnCancel, TurnMark, TurnComplete
<1>6. ASSUME NEW q, Prune(q) PROVE UNCHANGED <<phase, inst>>
  BY <1>6 DEF Prune
<1>7. ASSUME UNCHANGED vars PROVE UNCHANGED <<phase, inst>>
  BY <1>7 DEF vars
<1> QED
  <2>1. ASSUME PassStep PROVE UNCHANGED <<phase, inst>>
    BY <2>1, <1>3, <1>4 DEF PassStep
  <2> QED BY <2>1, <1>1, <1>2, <1>3, <1>5, <1>6, <1>7 DEF Next

\* A process that has not come so far, or is past it, has no pass, no turn and
\* nothing in memory.
Resting ==
    /\ phase \in {"down", "boot", "channels", "released", "closing"} => pass.pc = "off"
    /\ pass.pc = "off" => pass = NoPass
    /\ phase \in {"down", "boot", "drain", "channels"} => ~loop /\ \A s \in Slot : turn[s] = Idle
    /\ phase = "down" => bus = <<>> /\ \A m \in Msg : ch[m] \in {"new", "done"}

LEMMA RestingStep ==
    ASSUME TypeOK, IdsUnique, BatchSpooled, Resting, [Next]_vars
    PROVE  Resting'
<1> USE DEF disk, proc, ghost
<1>a. NoPass.pc = "off" /\ NoPass.batch = {} /\ [NoPass EXCEPT !.pc = "claim"].pc = "claim"
  BY DEF NoPass
<1>1. pass'.pc = "off" => pass' = NoPass
  BY <1>a, PassSteps, PassClaimDoes, PassRowDoes DEF Resting
<1>2. ASSUME phase' \in {"down", "boot", "channels", "released", "closing"}
      PROVE  pass'.pc = "off"
  <2>1. CASE UNCHANGED phase /\ UNCHANGED pass
    BY <2>1, <1>2 DEF Resting
  <2>2. CASE UNCHANGED phase /\ pass.pc = "off" /\ ~UNCHANGED pass
    <3>1. pass.batch = {} /\ pass.pc \notin {"claim", "release"}
      BY <2>2, <1>a DEF Resting
    <3>2. ~DrainReclaim /\ ~PumpTick
      BY <2>2, <1>2 DEF DrainReclaim, PumpTick, PumpUp
    <3> QED BY <3>1, <3>2, <2>2, <1>a, PassSteps, PassClaimDoes
  <2>3. CASE ProcessEnd
    BY <2>3, <1>a DEF ProcessEnd
  <2>4. CASE Boot \/ ChannelsStop
    BY <2>4 DEF Boot, ChannelsStop, Resting
  <2>5. CASE StartChannels \/ ShutdownRelease
    BY <2>5 DEF StartChannels, ShutdownRelease
  <2>6. \/ UNCHANGED phase
        \/ ProcessEnd \/ Boot \/ ChannelsStop \/ StartChannels \/ ShutdownRelease
    BY <1>2, PhaseStep
  <2>7. UNCHANGED phase => pass.pc = "off"
    BY <1>2 DEF Resting
  <2> QED BY <2>1, <2>2, <2>3, <2>4, <2>5, <2>6, <2>7
<1>3. ASSUME phase' \in {"down", "boot", "drain", "channels"}
      PROVE  ~loop' /\ \A s \in Slot : turn'[s] = Idle
  <2>1. CASE ProcessEnd
    BY <2>1 DEF ProcessEnd
  <2>2. CASE ~ProcessEnd
    <3>1. phase \in {"down", "boot", "drain", "channels"} /\ ~GoLive
      BY <2>2, <1>3, PhaseStep DEF GoLive
    <3>2. ~loop /\ \A s \in Slot : turn[s] = Idle
      BY <3>1 DEF Resting
    <3>3. ASSUME NEW s \in Slot PROVE ~TurnStart(s) /\ ~TurnStep(s)
      <4>1. turn[s].pc = "idle" /\ ~loop
        BY <3>2 DEF Idle
      <4> QED BY <4>1 DEF TurnStart, TurnStep, TurnCheck, TurnAnswer, TurnCancel, TurnMark, TurnComplete
    <3>4. UNCHANGED turn
      BY <2>2, <3>3, TurnChange
    <3>5. UNCHANGED loop
      <4>1. ASSUME NEW m \in Msg, ChannelStep(m) PROVE UNCHANGED loop
        BY <4>1 DEF ChannelStep, ChannelEnqueue, ChannelPublish, ChannelRelease
      <4>2. ASSUME Lifecycle PROVE UNCHANGED loop
        BY <4>2, <3>1, <2>2 DEF Lifecycle, Boot, DrainReclaim, StartChannels,
                ShutdownBegin, PumpStop, ShutdownRelease, ChannelsStop
      <4>3. ASSUME PumpTick \/ PassClaim \/ PassRelease \/ Age PROVE UNCHANGED loop
        BY <4>3 DEF PumpTick, PassClaim, PassRelease, Age
      <4>4. ASSUME NEW m \in pass.batch, PassRow(m) PROVE UNCHANGED loop
        BY <4>4 DEF PassRow, PassItem, PassPublish, PassDefer, PassDelete
      <4>5. ASSUME NEW q, Prune(q) PROVE UNCHANGED loop
        BY <4>5 DEF Prune
      <4>6. ASSUME UNCHANGED vars PROVE UNCHANGED loop
        BY <4>6 DEF vars
      <4> QED BY <3>3, <4>1, <4>2, <4>3, <4>4, <4>5, <4>6 DEF Next, PassStep
    <3> QED BY <3>2, <3>4, <3>5
  <2> QED BY <2>1, <2>2
<1>4. ASSUME phase' = "down"
      PROVE  bus' = <<>> /\ \A m \in Msg : ch'[m] \in {"new", "done"}
  <2>1. CASE ProcessEnd
    BY <2>1 DEF ProcessEnd, TypeOK
  <2>2. CASE ~ProcessEnd
    <3>1. phase = "down"
      BY <2>2, <1>4, PhaseStep
    <3>2. bus = <<>> /\ pass.batch = {} /\ \A m \in Msg : ch[m] \in {"new", "done"}
      BY <3>1, <1>a DEF Resting
    <3>3. \A m \in Msg : ~ChannelEnqueue(m)
      BY <3>1 DEF ChannelEnqueue, Accepting
    <3>4. bus' = <<>>
      BY <2>2, <3>2, BusChange DEF TurnStart
    <3>5. ASSUME NEW m \in Msg PROVE ch'[m] \in {"new", "done"}
      BY <2>2, <3>2, <3>3, ChChange
    <3> QED BY <3>4, <3>5
  <2> QED BY <2>1, <2>2
<1> QED BY <1>1, <1>2, <1>3, <1>4 DEF Resting

-----------------------------------------------------------------------------
(* The promise: a message has its row, or a copy, until it is settled *)

\* A copy the agent loop has or will get; and any copy at all.
Alive(m) == OnBus(m) \/ InTurn(m)
Copied(m) == Alive(m) \/ ch[m] = "enqueued" \/ m \in ToPublish

Unborn == \A m \in Msg : AtNew(m) => fate[m] = {} /\ ~Alive(m)

\* A gateway that has not begun its teardown has, of every accepted message
\* without a row, a copy that will be answered, unless it is settled; and so
\* it has of the message whose row the pass is about to delete.
ServingPhases == {"boot", "drain", "channels", "live"}
Carrying ==
    phase \in ServingPhases =>
        \A m \in Msg :
            /\ Spooled(m) /\ ~Settled(m)
            /\ \/ ~row[m].here /\ Copied(m)
               \/ pass.pc = "delete" /\ m \in pass.batch /\ Oldest(m)
            => Alive(m)

PromiseInv == KeptInv /\ Resting /\ Unborn /\ Carrying

LEMMA AliveGains ==
    ASSUME TypeOK, IdsUnique, BatchSpooled, [Next]_vars, NEW k \in Msg, Alive(k)'
    PROVE  /\ \/ Alive(k) \/ ch[k] = "enqueued"
              \/ k \in ToPublish /\ k \in pass.batch /\ PassRow(k)
           /\ ~ProcessEnd
<1>a. bus \in Seq(Msg) /\ NoMsg \notin Msg
  BY InboundAssumption DEF TypeOK
<1>b. \A m : OnBus(m) <=> In(bus, m)
  BY DEF OnBus, In
<1>c. OnBus(k)' <=> In(bus', k)
  BY DEF OnBus, In
<1>1. ~ProcessEnd
  <2>1. ~In(<<>>, k)
    BY DEF In
  <2> QED BY <2>1, <1>a, <1>c DEF ProcessEnd, Alive, InTurn, Idle
<1>2. CASE OnBus(k)' /\ ~OnBus(k)
  <2>1. ASSUME NEW m \in Msg, bus' = Append(bus, m) PROVE m = k
    BY <2>1, <1>2, <1>a, <1>b, <1>c, AppendIn
  <2>2. ASSUME NEW s \in Slot, TurnStart(s) PROVE FALSE
    <3>1. bus # <<>> /\ bus' = Tail(bus)
      BY <2>2 DEF TurnStart
    <3>2. PICK i \in DOMAIN Tail(bus) : Tail(bus)[i] = k
      BY <3>1, <1>2, <1>c DEF In
    <3>3. i + 1 \in DOMAIN bus /\ bus[i + 1] = k
      BY <3>1, <3>2, <1>a
    <3> QED BY <3>3, <1>2 DEF OnBus
  <2>3. ASSUME PassRow(k), k \in pass.batch, PassPublish(k) PROVE k \in ToPublish
    BY <2>3 DEF PassPublish, ToPublish
  <2>4. UNCHANGED bus => FALSE
    BY <1>2 DEF OnBus
  <2> QED BY <2>1, <2>2, <2>3, <2>4, <1>1, <1>a, RowTypes, BusChange
<1>3. CASE InTurn(k)' /\ ~InTurn(k)
  <2>1. PICK s \in Slot : turn'[s].msg = k
    BY <1>3 DEF InTurn
  <2>2. turn[s].msg # k
    BY <1>3 DEF InTurn
  <2>3. bus # <<>> /\ Head(bus) = k
    BY <2>1, <2>2, <1>1, <1>a, TurnChange DEF Idle
  <2>4. 1 \in DOMAIN bus /\ bus[1] = k
    BY <2>3, <1>a
  <2> QED BY <2>4, <1>1 DEF Alive, OnBus
<1>4. CASE OnBus(k) \/ InTurn(k)
  BY <1>1, <1>4 DEF Alive
<1> QED BY <1>1, <1>2, <1>3, <1>4 DEF Alive

LEMMA AliveLost ==
    ASSUME TypeOK, [Next]_vars, NEW k \in Msg, Alive(k), ~Alive(k)'
    PROVE  ProcessEnd \/ \E s \in Slot : turn[s].msg = k /\ TurnStep(s) /\ Ends(s)
<1>a. bus \in Seq(Msg) /\ NoMsg \notin Msg
  BY InboundAssumption DEF TypeOK
<1>b. (OnBus(k) <=> In(bus, k)) /\ (OnBus(k)' <=> In(bus', k))
  BY DEF OnBus, In
<1> SUFFICES ASSUME ~ProcessEnd
             PROVE  \E s \in Slot : turn[s].msg = k /\ TurnStep(s) /\ Ends(s)
  OBVIOUS
<1>1. CASE OnBus(k)
  <2>1. ASSUME NEW m \in Msg, bus' = Append(bus, m) PROVE FALSE
    BY <2>1, <1>1, <1>a, <1>b, AppendIn DEF Alive
  <2>2. ASSUME NEW s \in Slot, TurnStart(s) PROVE FALSE
    <3>1. bus # <<>> /\ bus' = Tail(bus) /\ turn'[s].msg = Head(bus)
      BY <2>2 DEF TurnStart, TypeOK
    <3>2. PICK i \in DOMAIN bus : bus[i] = k
      BY <1>1 DEF OnBus
    <3>3. CASE i = 1
      BY <3>1, <3>2, <3>3, <1>a DEF Alive, InTurn
    <3>4. CASE i # 1
      <4>1. i - 1 \in DOMAIN Tail(bus) /\ Tail(bus)[i - 1] = k
        BY <3>1, <3>2, <3>4, <1>a
      <4> QED BY <4>1, <3>1 DEF Alive, OnBus
    <3> QED BY <3>3, <3>4
  <2>3. UNCHANGED bus => FALSE
    BY <1>1, <1>b DEF Alive
  <2> QED BY <2>1, <2>2, <2>3, <1>a, RowTypes, BusChange
<1>2. CASE InTurn(k)
  <2>1. PICK s \in Slot : turn[s].msg = k
    BY <1>2 DEF InTurn
  <2>2. turn'[s].msg # k
    BY DEF Alive, InTurn
  <2>3. turn[s] # Idle
    BY <2>1, <1>a DEF Idle
  <2> QED BY <2>1, <2>2, <2>3, TurnChange
<1> QED BY <1>1, <1>2 DEF Alive

LEMMA CopiedGains ==
    ASSUME TypeOK, IdsUnique, BatchSpooled, [Next]_vars, NEW k \in Msg, Copied(k)'
    PROVE  \/ Copied(k)
           \/ ChannelEnqueue(k)
           \/ PassClaim /\ row[k].here /\ row'[k].here
<1>1. CASE Alive(k)'
  BY <1>1, AliveGains DEF Copied
<1>2. CASE ch'[k] = "enqueued"
  BY <1>2, ChChange DEF Copied
<1>3. CASE k \in ToPublish' /\ k \notin ToPublish
  <2>1. PassClaim
    BY <1>3, PassSteps, PassRowDoes
  <2>2. k \in NextBatch(row) /\ row' = ClaimBatch(row, inst)
    BY <1>3, <2>1, PassClaimDoes
  <2>3. row[k].here
    BY <2>2, BatchIsPending
  <2> QED BY <2>1, <2>2, <2>3, RowTypes, ClaimBatchKeepsRows DEF SameRows
<1> QED BY <1>1, <1>2, <1>3 DEF Copied

LEMMA UnbornStep ==
    ASSUME TypeOK, IdsUnique, BatchSpooled, Unborn, [Next]_vars
    PROVE  Unborn'
<1> SUFFICES ASSUME NEW m \in Msg, AtNew(m)' PROVE fate'[m] = {} /\ ~Alive(m)'
  BY DEF Unborn
<1>1. AtNew(m)
  BY ChannelStarts DEF AtNew
<1>2. fate[m] = {} /\ ~Alive(m) /\ ~Spooled(m)
  BY <1>1 DEF Unborn, IdsUnique, AtNew
<1>3. m \notin pass.batch /\ \A s \in Slot : turn[s].msg # m
  BY <1>2 DEF BatchSpooled, Alive, InTurn
<1>4. fate'[m] = {}
  BY <1>2, <1>3, FateChange
<1>5. ~Alive(m)'
  BY <1>1, <1>2, <1>3, AliveGains DEF AtNew
<1> QED BY <1>4, <1>5

\* A turn that ends while the gateway serves has settled its message.
LEMMA EndsSettled ==
    ASSUME TypeOK, FinishDecided, Resting, [Next]_vars, NEW k \in Msg,
           NEW s \in Slot, turn[s].msg = k, TurnStep(s), Ends(s), phase' \in ServingPhases
    PROVE  Settled(k)'
<1> USE DEF disk, proc, ghost
<1>1. turn[s].pc # "idle"
  BY DEF TurnStep, TurnCheck, TurnAnswer, TurnCancel, TurnMark, TurnComplete
<1>2. phase = "live"
  <2>1. phase' = phase
    BY DEF TurnStep, TurnCheck, TurnAnswer, TurnCancel, TurnMark, TurnComplete
  <2> QED BY <2>1, <1>1 DEF Resting, ServingPhases, Idle
<1>3. CASE Happens(turn[s].msg, "skipped")
  BY <1>3 DEF Happens, Settled, TypeOK
<1>4. CASE TurnMark(s) \/ TurnComplete(s)
  <2>1. "ended" \in fate[k]
    BY <1>4 DEF FinishDecided, TurnMark, TurnComplete
  <2>2. "ended" \in fate'[k]
    BY <2>1, FateGrows
  <2> QED BY <2>2 DEF Settled
<1>5. ~(TurnCancel(s) /\ ~Running)
  BY <1>2 DEF Running
<1> QED BY <1>3, <1>4, <1>5 DEF Ends

\* A row goes when the pass deletes it, or when its message's turn completes.
LEMMA RowGoes ==
    ASSUME TypeOK, IdsUnique, BatchSpooled, FinishDecided, [Next]_vars, NEW k \in Msg,
           row[k].here, ~row'[k].here
    PROVE  \/ k \in pass.batch /\ Oldest(k) /\ PassDelete(k) /\ row' = Complete(row, k)
           \/ (\E s \in Slot : TurnComplete(s) /\ turn[s].msg = k) /\ "ended" \in fate[k]
<1>a. row \in Table /\ inst \in Nat /\ pass.batch \subseteq Msg
  BY RowTypes
<1>1. ASSUME NEW m \in Msg, ChannelEnqueue(m) PROVE FALSE
  <2>1. row[m].id = 0
    BY <1>1 DEF ChannelEnqueue, IdsUnique, Spooled
  <2>2. row[k].id # 0
    BY DEF IdsUnique, Spooled
  <2>3. CASE row' = EnqueueClaimed(row, m, nextId, inst)
    BY <2>1, <2>2, <2>3, <1>a DEF EnqueueClaimed, Table
  <2> QED BY <1>1, <2>3 DEF ChannelEnqueue
<1>2. ASSUME NEW m \in pass.batch, Oldest(m), PassDelete(m) PROVE m = k /\ row' = Complete(row, k)
  <2>1. row' = Complete(row, m) \/ row' = row
    BY <1>2 DEF PassDelete
  <2> QED BY <2>1, <1>a, CompleteRemovesOne
<1>3. ASSUME NEW s \in Slot, TurnComplete(s) PROVE turn[s].msg = k /\ "ended" \in fate[k]
  <2>1. turn[s].msg \in Msg /\ "ended" \in fate[turn[s].msg]
    BY <1>3 DEF TurnComplete, TypeOK, Idle, FinishDecided
  <2>2. row' = Complete(row, turn[s].msg) \/ row' = row
    BY <1>3 DEF TurnComplete
  <2> QED BY <2>1, <2>2, <1>a, CompleteRemovesOne
<1>4. CASE SameRows(row, row')
  BY <1>4 DEF SameRows
<1>5. UNCHANGED vars => FALSE
  BY DEF vars, disk
<1> QED BY RowChange, <1>1, <1>2, <1>3, <1>4, <1>5

LEMMA CarryingStep ==
    ASSUME PromiseInv, [Next]_vars
    PROVE  Carrying'
<1> USE DEF PromiseInv, KeptInv
<1> DEFINE Deleting(k) == pass.pc = "delete" /\ k \in pass.batch /\ Oldest(k)
<1> SUFFICES ASSUME phase' \in ServingPhases, NEW k \in Msg, Spooled(k)', ~Settled(k)',
                    (~row'[k].here /\ Copied(k)') \/ Deleting(k)'
             PROVE  Alive(k)'
  BY DEF Carrying
<1>a. pass.batch \subseteq Msg
  BY RowTypes
<1>1. ~Settled(k)
  BY FateGrows DEF Settled
<1>2. CASE phase \notin ServingPhases
  <2>1. Boot /\ phase = "down"
    BY <1>2, PhaseStep DEF ServingPhases
  <2>2. UNCHANGED <<bus, turn, ch, pass>> /\ pass = NoPass
    BY <2>1 DEF Boot, Resting
  <2>3. bus = <<>> /\ ch[k] # "enqueued" /\ \A s \in Slot : turn[s] = Idle
    BY <2>1 DEF Resting
  <2>4. ~OnBus(k)' /\ ~InTurn(k)'
    BY <2>2, <2>3, InboundAssumption DEF OnBus, InTurn, Idle
  <2>5. k \notin ToPublish' /\ ~Deleting(k)'
    BY <2>2 DEF ToPublish, NoPass
  <2> QED BY <2>2, <2>3, <2>4, <2>5 DEF Copied, Alive
<1>3. CASE ChannelEnqueue(k)
  <2>1. ~Spooled(k) /\ UNCHANGED pass
    BY <1>3 DEF ChannelEnqueue, IdsUnique
  <2>2. k \notin pass.batch
    BY <2>1 DEF BatchSpooled
  <2>3. row'[k].here
    <3>1. CASE row' = EnqueueClaimed(row, k, nextId, inst)
      BY <3>1, RowTypes DEF EnqueueClaimed, Table
    <3>2. CASE UNCHANGED row
      BY <3>2, <2>1 DEF Spooled
    <3> QED BY <1>3, <3>1, <3>2 DEF ChannelEnqueue
  <2> QED BY <2>1, <2>2, <2>3
<1>4. CASE phase \in ServingPhases /\ ~ChannelEnqueue(k)
  <2>1. Spooled(k)
    BY <1>4, IdsStay DEF Spooled
  <2>2. ASSUME Alive(k) PROVE Alive(k)'
    <3>1. ~ProcessEnd
      BY DEF ProcessEnd, ServingPhases
    <3> QED BY <2>2, <3>1, AliveLost, EndsSettled
  <2>3. CASE Deleting(k)
    BY <2>1, <2>2, <2>3, <1>1, <1>4 DEF Carrying
  <2>4. CASE ~row'[k].here /\ Copied(k)'
    <3>1. CASE row[k].here
      <4>1. ASSUME "ended" \in fate[k] PROVE FALSE
        BY <4>1, <1>1 DEF Settled
      <4>2. PassDelete(k) => pass.pc = "delete"
        BY DEF PassDelete
      <4> QED BY <2>3, <2>4, <3>1, <4>1, <4>2, RowGoes
    <3>2. CASE ~row[k].here
      <4>1. Copied(k)
        BY <2>4, <3>2, <1>4, CopiedGains
      <4> QED BY <2>1, <2>2, <3>2, <4>1, <1>1, <1>4 DEF Carrying
    <3> QED BY <3>1, <3>2
  <2>5. CASE Deleting(k)' /\ ~Deleting(k)
    <3>1. pass' # NoPass /\ pass'.pc = "delete" /\ pass' # [NoPass EXCEPT !.pc = "claim"]
      BY <2>5 DEF NoPass
    <3>2. ASSUME UNCHANGED pass PROVE FALSE
      BY <3>2, <2>5, OldestStays
    <3>3. PICK m \in pass.batch : PassRow(m)
      BY <3>1, <3>2, PassSteps, PassClaimDoes
    <3>4. pass'.batch = pass.batch /\ Oldest(m) /\ m \in Msg
          /\ (fate'[m] \cap {"skipped", "dead"} # {} \/ PassPublish(m))
      BY <3>1, <3>3, PassRowDoes
    <3>5. k = m
      BY <3>4, <2>5, OldestStays, OneOldest
    <3>6. PassPublish(k)
      BY <3>4, <3>5 DEF Settled
    <3>7. In(bus', k)
      BY <3>6, AppendIn DEF PassPublish, TypeOK
    <3> QED BY <3>7 DEF Alive, OnBus, In
  <2> QED BY <2>3, <2>4, <2>5
<1> QED BY <1>2, <1>3, <1>4

LEMMA PromiseStep == PromiseInv /\ [Next]_vars => PromiseInv'
BY TypeStep, IdsStep, BatchStep, DeleteStep, FinishStep, KeptStep,
   RestingStep, UnbornStep, CarryingStep DEF PromiseInv, KeptInv

LEMMA PromiseInit == Init => PromiseInv
<1> SUFFICES ASSUME Init PROVE PromiseInv
  OBVIOUS
<1>1. \A m \in Msg : row[m] = NoRow /\ ~Alive(m)
  BY InboundAssumption DEF Init, Alive, OnBus, InTurn, Idle
<1>2. IdsUnique /\ AcceptedKept
  BY <1>1 DEF Init, IdsUnique, AcceptedKept, Spooled, NoRow
<1>3. BatchSpooled /\ DeleteDecided
  BY DEF Init, NoPass, BatchSpooled, DeleteDecided
<1>4. FinishDecided
  BY DEF Init, Idle, FinishDecided
<1>5. Resting
  BY DEF Init, Resting, NoPass
<1>6. Unborn
  BY <1>1 DEF Init, Unborn
<1>7. Carrying
  BY DEF Init, Carrying, ServingPhases
<1> QED BY <1>2, <1>3, <1>4, <1>5, <1>6, <1>7, TypeInit DEF PromiseInv, KeptInv

\* The abstract state of a message, without counting its copies.
Kind(m) ==
    IF ~Spooled(m) THEN "new"
    ELSE IF Settled(m) THEN "settled"
    ELSE IF row[m].here THEN "kept"
    ELSE IF Copied(m) THEN "carried"
    ELSE "lost"

LEMMA CopiesCounted ==
    ASSUME TypeOK, NEW m \in Msg
    PROVE  Copies(m) > 0 <=> Copied(m)
<1> DEFINE A == {s \in Slot : turn[s].msg = m}
           B == {i \in DOMAIN bus : bus[i] = m}
           c == IF ch[m] = "enqueued" THEN 1 ELSE 0
           d == IF m \in ToPublish THEN 1 ELSE 0
<1>1. IsFiniteSet(A) /\ Cardinality(A) \in Nat /\ (Cardinality(A) = 0 <=> A = {})
  <2>1. A \subseteq Slot /\ IsFiniteSet(Slot)
    BY InboundAssumption
  <2>2. IsFiniteSet(A)
    BY <2>1, FS_Subset
  <2> QED BY <2>2, FS_CardinalityType, FS_EmptySet
<1>2. IsFiniteSet(B) /\ Cardinality(B) \in Nat /\ (Cardinality(B) = 0 <=> B = {})
  <2>1. DOMAIN bus = 1 .. Len(bus) /\ Len(bus) \in Nat
    BY DEF TypeOK
  <2>2. IsFiniteSet(1 .. Len(bus))
    BY <2>1, FS_Interval
  <2>3. IsFiniteSet(B)
    BY <2>1, <2>2, FS_Subset
  <2> QED BY <2>3, FS_CardinalityType, FS_EmptySet
<1>3. c \in {0, 1} /\ d \in {0, 1}
  OBVIOUS
<1>4. Copies(m) = Cardinality(A) + Cardinality(B) + c + d
  BY DEF Copies
<1>5. (InTurn(m) <=> A # {}) /\ (OnBus(m) <=> B # {})
  BY DEF InTurn, OnBus
<1>6. (ch[m] = "enqueued" <=> c = 1) /\ (m \in ToPublish <=> d = 1)
  OBVIOUS
<1> HIDE DEF A, B, c, d
<1>7. Copies(m) > 0 <=> Cardinality(A) # 0 \/ Cardinality(B) # 0 \/ c = 1 \/ d = 1
  BY <1>1, <1>2, <1>3, <1>4
<1> QED BY <1>1, <1>2, <1>5, <1>6, <1>7 DEF Copied, Alive

LEMMA AbstractKind == TypeOK => \A m \in Msg : Abstract(m) = Kind(m)
<1> SUFFICES ASSUME TypeOK, NEW m \in Msg PROVE Abstract(m) = Kind(m)
  OBVIOUS
<1>1. Copies(m) > 0 <=> Copied(m)
  BY CopiesCounted
<1> QED BY <1>1 DEF Abstract, Kind

\* The step that moves a message on, but for losing a copy.
Moved(k) ==
    \/ ChannelEnqueue(k) /\ Kind(k) = "new" /\ Kind(k)' = "kept"
    \/ /\ k \in pass.batch /\ PassRow(k) /\ PassItem(k)
       /\ Kind(k) \in {"kept", "carried"} /\ Kind(k)' = "settled"
    \/ /\ k \in pass.batch /\ PassRow(k) /\ PassDelete(k)
       /\ Kind(k) = "kept"
       /\ Kind(k)' = "carried" \/ (Kind(k)' = "lost" /\ phase \notin ServingPhases)
    \/ /\ \E s \in Slot : /\ TurnCheck(s) \/ TurnAnswer(s) \/ TurnCancel(s)
                          /\ turn[s].msg = k /\ TurnStep(s)
       /\ Kind(k) \in {"kept", "carried"} /\ Kind(k)' = "settled"

LEMMA AliveStays ==
    ASSUME PromiseInv, [Next]_vars, NEW k \in Msg, Alive(k), ~Settled(k)', phase' \in ServingPhases
    PROVE  Alive(k)'
<1>1. ~ProcessEnd
  BY DEF ProcessEnd, ServingPhases
<1> QED BY <1>1, AliveLost, EndsSettled DEF PromiseInv, KeptInv

LEMMA NothingWhenDown ==
    ASSUME PromiseInv, phase = "down", NEW k \in Msg
    PROVE  ~Copied(k)
<1>1. bus = <<>> /\ ch[k] # "enqueued" /\ pass = NoPass /\ \A s \in Slot : turn[s] = Idle
  BY DEF PromiseInv, Resting
<1> QED BY <1>1, InboundAssumption DEF Copied, Alive, OnBus, InTurn, Idle, ToPublish, NoPass

LEMMA KindStep ==
    ASSUME PromiseInv, [Next]_vars, NEW k \in Msg
    PROVE  \/ Kind(k)' = Kind(k)
           \/ Kind(k) = "carried" /\ Kind(k)' = "lost" /\ phase' \notin ServingPhases
           \/ Moved(k)
<1> USE DEF PromiseInv, KeptInv
<1>a. pass.batch \subseteq Msg /\ row[k].here \in BOOLEAN
  BY RowTypes
<1>1. CASE ChannelEnqueue(k)
  <2>1. ~Spooled(k) /\ fate'[k] = {} /\ Kind(k) = "new"
    BY <1>1 DEF ChannelEnqueue, IdsUnique, Unborn, AtNew, ghost, Kind
  <2>2. CASE row' = EnqueueClaimed(row, k, nextId, inst)
    <3>1. row'[k].here
      BY <2>2, RowTypes DEF EnqueueClaimed, Table
    <3>2. Spooled(k)' /\ ~Settled(k)'
      <4>1. row'[k].id = nextId /\ nextId # 0
        BY <2>2, RowTypes DEF EnqueueClaimed, Table
      <4> QED BY <4>1, <2>1 DEF Spooled, Settled
    <3>3. Kind(k)' = "kept"
      BY <3>1, <3>2 DEF Kind
    <3> QED BY <1>1, <2>1, <3>3 DEF Moved
  <2>3. CASE UNCHANGED row
    <3>1. ~Spooled(k)'
      BY <2>1, <2>3 DEF Spooled
    <3> QED BY <2>1, <3>1 DEF Kind
  <2> QED BY <1>1, <2>2, <2>3 DEF ChannelEnqueue
<1>2. CASE ~ChannelEnqueue(k)
  <2>1. Spooled(k)' <=> Spooled(k)
    BY <1>2, IdsStay DEF Spooled
  <2>2. CASE ~Spooled(k)
    BY <2>1, <2>2 DEF Kind
  <2>3. CASE Spooled(k) /\ Settled(k)
    <3>1. Settled(k)'
      BY <2>3, FateGrows DEF Settled
    <3> QED BY <2>1, <2>3, <3>1 DEF Kind
  <2>4. CASE Spooled(k) /\ ~Settled(k) /\ Settled(k)'
    <3>1. Kind(k)' = "settled"
      BY <2>1, <2>4 DEF Kind
    <3>2. Copied(k) => Kind(k) \in {"kept", "carried"}
      BY <2>4 DEF Kind
    <3>3. ASSUME fate'[k] = fate[k] \/ fate'[k] = fate[k] \cup {"replayed"} PROVE FALSE
      BY <3>3, <2>4 DEF Settled
    <3>4. CASE k \in pass.batch /\ PassRow(k) /\ PassItem(k)
      <4>1. Copied(k)
        BY <3>4 DEF PassItem, Copied, ToPublish
      <4> QED BY <3>1, <3>2, <3>4, <4>1 DEF Moved
    <3>5. ASSUME NEW s \in Slot, TurnCheck(s) \/ TurnAnswer(s) \/ TurnCancel(s), turn[s].msg = k
          PROVE  Moved(k)
      <4>1. Copied(k)
        BY <3>5 DEF Copied, Alive, InTurn
      <4> QED BY <3>1, <3>2, <3>5, <4>1 DEF Moved, TurnStep
    <3> QED BY <3>3, <3>4, <3>5, FateChange
  <2>5. CASE Spooled(k) /\ ~Settled(k) /\ ~Settled(k)'
    <3>1. row'[k].here => row[k].here
      BY <1>2, IdsStay
    <3>2. CASE row'[k].here
      BY <2>1, <2>5, <3>1, <3>2 DEF Kind
    <3>3. CASE ~row'[k].here /\ row[k].here
      <4>1. Kind(k) = "kept" /\ Kind(k)' = IF Copied(k)' THEN "carried" ELSE "lost"
        BY <2>1, <2>5, <3>3 DEF Kind
      <4>2. k \in pass.batch /\ Oldest(k) /\ PassDelete(k)
        BY <2>5, <3>3, RowGoes DEF Settled
      <4>3. pass.pc = "delete" /\ phase' = phase
        BY <4>2 DEF PassDelete, proc
      <4>4. phase \in ServingPhases => Copied(k)'
        <5>1. phase \in ServingPhases => Alive(k)
          BY <2>5, <4>2, <4>3 DEF Carrying
        <5> QED BY <2>5, <4>3, <5>1, AliveStays DEF Copied
      <4> QED BY <4>1, <4>2, <4>4 DEF Moved, PassRow
    <3>4. CASE ~row'[k].here /\ ~row[k].here
      <4>1. /\ Kind(k) = IF Copied(k) THEN "carried" ELSE "lost"
            /\ Kind(k)' = IF Copied(k)' THEN "carried" ELSE "lost"
        BY <2>1, <2>5, <3>4 DEF Kind
      <4>2. Copied(k)' => Copied(k)
        BY <1>2, <3>4, CopiedGains
      <4>3. ASSUME Copied(k), phase' \in ServingPhases PROVE Copied(k)'
        <5>1. phase \in ServingPhases
          BY <4>3, PhaseStep, NothingWhenDown DEF ServingPhases
        <5>2. Alive(k)
          BY <2>5, <3>4, <4>3, <5>1 DEF Carrying
        <5> QED BY <2>5, <4>3, <5>2, AliveStays DEF Copied
      <4> QED BY <4>1, <4>2, <4>3
    <3> QED BY <3>2, <3>3, <3>4
  <2> QED BY <2>2, <2>3, <2>4, <2>5
<1> QED BY <1>1, <1>2

\* Whoever moves a message on leaves the others where they are.
LEMMA OthersStay ==
    ASSUME PromiseInv, [Next]_vars, NEW m \in Msg, Moved(m), NEW k \in Msg \ {m}
    PROVE  Kind(k)' = Kind(k)
<1> USE DEF disk, proc, ghost
<1>a. IdsUnique /\ BatchSpooled /\ TypeOK
  BY DEF PromiseInv, KeptInv
<1>b. ASSUME row'[k].id = row[k].id, row'[k].here = row[k].here, fate'[k] = fate[k],
             ch'[k] = ch[k], UNCHANGED bus, InTurn(k)' <=> InTurn(k),
             k \in ToPublish' <=> k \in ToPublish
      PROVE  Kind(k)' = Kind(k)
  BY <1>b DEF Kind, Spooled, Settled, Copied, Alive, OnBus
<1>c. UNCHANGED turn => (InTurn(k)' <=> InTurn(k))
  BY DEF InTurn
<1>d. row \in Table /\ inst \in Nat
  BY <1>a, RowTypes
<1>1. CASE ChannelEnqueue(m)
  <2>1. UNCHANGED <<bus, turn, pass, fate>> /\ ch'[k] = ch[k]
    BY <1>1, <1>a DEF ChannelEnqueue, TypeOK
  <2>2. row'[k] = row[k]
    <3>1. CASE row' = EnqueueClaimed(row, m, nextId, inst)
      BY <3>1, <1>d DEF EnqueueClaimed, Table
    <3> QED BY <1>1, <3>1 DEF ChannelEnqueue
  <2> QED BY <2>1, <2>2, <1>a, <1>b, <1>c, ToPublishStays
<1>2. CASE m \in pass.batch /\ PassRow(m) /\ PassItem(m) /\ Kind(m) # "settled" /\ Kind(m)' = "settled"
  <2>1. UNCHANGED <<bus, turn, ch>>
    BY <1>2 DEF PassItem
  <2>2. SameRows(row, row')
    <3>1. row' \in {row, IncAttempt(row, m)}
      BY <1>2 DEF PassItem, PassPoison, PassDecide
    <3>2. SameRows(row, row)
      BY <1>d DEF SameRows
    <3> QED BY <3>1, <3>2, <1>d, IncAttemptKeepsRows
  <2>3. fate' # fate
    BY <1>2, <2>2 DEF Kind, Settled, SameRows, Spooled
  <2>4. ToPublish' = ToPublish \ {m}
    BY <1>2, <1>a, <2>3, PassRowDoes DEF PassItem, PassPublish
  <2>5. fate'[k] = fate[k]
    BY <1>2, <1>a DEF PassItem, PassPoison, PassDecide, Happens, TypeOK
  <2> QED BY <2>1, <2>2, <2>4, <2>5, <1>b, <1>c DEF SameRows
<1>3. CASE /\ m \in pass.batch /\ PassRow(m) /\ PassDelete(m)
           /\ Kind(m) = "kept" /\ Kind(m)' \in {"carried", "lost"}
  <2>1. UNCHANGED <<bus, turn, ch, fate>> /\ pass.pc = "delete"
    BY <1>3 DEF PassDelete
  <2>2. row' # row
    BY <1>3 DEF Kind
  <2>3. row' = Complete(row, m) /\ ToPublish' = ToPublish \ {m}
    BY <1>3, <2>1, <2>2, <1>a, PassRowDoes
  <2> QED BY <2>1, <2>3, <1>b, <1>c, <1>d, CompleteRemovesOne
<1>4. ASSUME NEW s \in Slot, TurnCheck(s) \/ TurnAnswer(s) \/ TurnCancel(s),
             turn[s].msg = m, TurnStep(s)
      PROVE  Kind(k)' = Kind(k)
  <2>1. UNCHANGED <<bus, row, ch, pass>>
    BY <1>4 DEF TurnCheck, TurnAnswer, TurnCancel
  <2>2. InTurn(k)' <=> InTurn(k)
    <3>1. NoMsg # k /\ Idle.msg = NoMsg
      BY InboundAssumption DEF Idle
    <3> QED BY <1>4, <1>a, <3>1, TurnStepDoes DEF InTurn
  <2>3. fate'[k] = fate[k]
    BY <1>4, <1>a DEF TurnCheck, TurnAnswer, TurnCancel, Happens, TypeOK
  <2> QED BY <2>1, <2>2, <2>3, <1>a, <1>b, ToPublishStays
<1> QED BY <1>1, <1>2, <1>3, <1>4 DEF Moved

LEMMA MovedInPhase ==
    ASSUME NEW m \in Msg, Moved(m)
    PROVE  UNCHANGED phase
BY DEF Moved, ChannelEnqueue, PassItem, PassDelete, TurnCheck, TurnAnswer, TurnCancel, proc

\* A step of the gateway is a step of the promise, or none.
LEMMA PromiseNext ==
    ASSUME PromiseInv, PromiseInv', [Next]_vars
    PROVE  [P!Next]_<<[m \in Msg |-> Abstract(m)],
                      phase \in {"boot", "drain", "channels", "live"}>>
<1> DEFINE state == [m \in Msg |-> Kind(m)]
           serving == phase \in {"boot", "drain", "channels", "live"}
<1>a. [m \in Msg |-> Abstract(m)] = state
  BY AbstractKind DEF PromiseInv, KeptInv
<1>b. [m \in Msg |-> Abstract(m)]' = state'
  <2>1. TypeOK' => (\A m \in Msg : Abstract(m) = Kind(m))'
    BY AbstractKind, PTL
  <2> QED BY <2>1 DEF PromiseInv, KeptInv
<1>c. ServingPhases = {"boot", "drain", "channels", "live"}
  BY DEF ServingPhases
<1>1. ASSUME NEW m \in Msg, Moved(m)
      PROVE  P!Accept(m) \/ P!Replay(m) \/ P!ReplayLost(m) \/ P!Settle(m)
  <2>1. state' = [state EXCEPT ![m] = Kind(m)'] /\ UNCHANGED serving
    <3>1. \A k \in Msg \ {m} : Kind(k)' = Kind(k)
      BY <1>1, OthersStay
    <3> QED BY <1>1, <3>1, MovedInPhase
  <2>2. \/ Kind(m) = "new" /\ Kind(m)' = "kept"
        \/ Kind(m) = "kept" /\ Kind(m)' = "carried"
        \/ Kind(m) = "kept" /\ Kind(m)' = "lost" /\ ~serving
        \/ Kind(m) \in {"kept", "carried"} /\ Kind(m)' = "settled"
    BY <1>1, <1>c DEF Moved
  <2>3. state[m] = Kind(m)
    OBVIOUS
  <2> HIDE DEF state, serving
  <2> QED
    BY <2>1, <2>2, <2>3, <1>a, <1>b DEF P!Accept, P!Replay, P!ReplayLost, P!Settle, P!Move, serving
<1>2. ASSUME \A m \in Msg : ~Moved(m), serving'
      PROVE  UNCHANGED <<state, serving>> \/ P!Serve
  <2>1. state' = state
    BY <1>2, <1>c, KindStep
  <2> HIDE DEF state
  <2> QED BY <1>2, <2>1, <1>a, <1>b DEF P!Serve
<1>3. ASSUME \A m \in Msg : ~Moved(m), ~serving'
      PROVE  P!Teardown
  <2> DEFINE L == {m \in Msg : Kind(m) = "carried" /\ Kind(m)' = "lost"}
  <2>1. \A m \in Msg : Kind(m)' = IF m \in L THEN "lost" ELSE Kind(m)
    BY <1>3, KindStep
  <2>2. L \in SUBSET {m \in Msg : state[m] = "carried"}
    OBVIOUS
  <2>3. state' = [m \in Msg |-> IF m \in L THEN "lost" ELSE state[m]]
    BY <2>1
  <2> HIDE DEF state, L
  <2> QED BY <1>3, <2>2, <2>3, <1>a, <1>b DEF P!Teardown
<1> QED BY <1>1, <1>2, <1>3, <1>a, <1>b DEF P!Next

LEMMA PromiseStarts == Init => P!Init
<1> SUFFICES ASSUME Init PROVE P!Init
  OBVIOUS
<1>1. \A m \in Msg : Abstract(m) = "new"
  BY DEF Init, Abstract, Spooled, NoRow
<1>2. phase \notin {"boot", "drain", "channels", "live"}
  BY DEF Init
<1> QED BY <1>1, <1>2 DEF P!Init

\* The durable inbound path implements the promise of its spool: an accepted
\* message is on disk, or carried by a copy in memory, until it is settled,
\* and only a teardown or the end of the process loses one that is carried.
\* No full bus, failing call, duplicate, poisoned row or late reclaim does.
THEOREM KeepsItsPromise == Spec => Promise
<1>1. Init => P!Init /\ PromiseInv
  BY PromiseStarts, PromiseInit
<1>2. PromiseInv /\ PromiseInv' /\ [Next]_vars
        => [P!Next]_<<[m \in Msg |-> Abstract(m)],
                      phase \in {"boot", "drain", "channels", "live"}>>
  BY PromiseNext
<1> QED BY <1>1, <1>2, PromiseStep, PTL DEF Spec, Promise, P!Spec

-----------------------------------------------------------------------------
(* One copy of every message, as long as no database call fails *)

Stage == {"new", "channel", "bus", "turn", "pass"}

\* The stages of its life in this process at which a message has a copy; a pass
\* has what it has claimed and not yet published.
Stages(m) == {s \in Stage : \/ s = "new" /\ AtNew(m)
                            \/ s = "channel" /\ AtChannel(m)
                            \/ s = "bus" /\ OnBus(m)
                            \/ s = "turn" /\ InTurn(m)
                            \/ s = "pass" /\ m \in ToPublish}

Outside(m) == AtChannel(m) \/ OnBus(m) \/ InTurn(m)

OneStage == \A m \in Msg : \A s, t \in Stages(m) : s = t

\* No stage has a message twice.
NoTwins ==
    /\ Distinct(bus)
    /\ \A s, t \in Slot : turn[s].msg \in Msg /\ turn[s].msg = turn[t].msg => s = t

\* No claim is of a process yet to come.
OwnersPast ==
    /\ phase # "down" => inst # Nobody
    /\ \A m \in Msg : row[m].owner <= inst

\* A process that starts up has no claim a reclaim would take from it.
Starting == {"boot", "drain", "channels"}
Fresh == phase \in Starting => \A m \in Msg : row[m].owner = inst => ~row[m].stale

\* What a claim says about the copies of its row.
Owned ==
    /\ pass.batch \subseteq pass.mine
    /\ \A m \in pass.mine : Spooled(m)
    /\ \A m \in pass.batch : row[m].here => row[m].owner = inst
    /\ \A m \in Msg : Outside(m) /\ row[m].here =>
          /\ row[m].owner = inst \/ phase \in {"released", "closing"}
          /\ m \in pass.mine => /\ pass.pc = "delete" /\ m \in pass.batch /\ Oldest(m)
                                /\ ~AtChannel(m)

CopyInv ==
    /\ TypeOK /\ IdsUnique /\ BatchSpooled /\ Resting /\ OwnersPast /\ Fresh
    /\ faults = 0 => OneStage /\ NoTwins /\ Owned

\* From its first message to the outbound Drain a gateway takes no longer than
\* StaleClaimTimeout, which is 30 seconds.
PromptStart == SlowPhases \cap Starting = {}

LEMMA FaultStep ==
    ASSUME TypeOK, [Next]_vars, faults' = 0
    PROVE  faults = 0 /\ ~Fails
<1> USE DEF disk, proc, ghost
<1>1. Fails => faults' # 0
  BY RowTypes DEF Fails
<1>2. UNCHANGED faults \/ Fails
  <2>1. ASSUME NEW m \in Msg, ChannelStep(m) PROVE UNCHANGED faults \/ Fails
    BY <2>1 DEF ChannelStep, ChannelEnqueue, ChannelPublish, ChannelRelease, Succeeds
  <2>2. ASSUME Lifecycle PROVE UNCHANGED faults \/ Fails
    BY <2>2 DEF Lifecycle, Boot, DrainReclaim, StartChannels, GoLive, Succeeds,
                ShutdownBegin, PumpStop, ShutdownRelease, ChannelsStop, ProcessEnd
  <2>3. ASSUME PumpTick \/ PassClaim \/ PassRelease \/ Age PROVE UNCHANGED faults \/ Fails
    BY <2>3 DEF PumpTick, PassClaim, PassRelease, Age, Succeeds
  <2>4. ASSUME NEW m \in pass.batch, PassRow(m) PROVE UNCHANGED faults \/ Fails
    BY <2>4 DEF PassRow, PassItem, PassPoison, PassDecide, PassPublish, PassDefer, PassDelete, Succeeds
  <2>5. ASSUME NEW s \in Slot, TurnStart(s) \/ TurnStep(s) PROVE UNCHANGED faults \/ Fails
    BY <2>5 DEF TurnStart, TurnStep, TurnCheck, TurnAnswer, TurnCancel, TurnMark, TurnComplete, Succeeds
  <2>6. ASSUME NEW q, Prune(q) PROVE UNCHANGED faults \/ Fails
    BY <2>6 DEF Prune
  <2>7. ASSUME UNCHANGED vars PROVE UNCHANGED faults \/ Fails
    BY <2>7 DEF vars
  <2> QED BY <2>1, <2>2, <2>3, <2>4, <2>5, <2>6, <2>7 DEF Next, PassStep
<1> QED BY <1>1, <1>2

\* What a step may do to the claim of k's row.
LEMMA OwnerStep ==
    ASSUME TypeOK, [Next]_vars, NEW k \in Msg
    PROVE  \/ row'[k].owner = row[k].owner
           \/ ChannelEnqueue(k) /\ row'[k].owner = inst
           \/ ~row'[k].here /\ row'[k].owner = Nobody
           \/ /\ row'[k].owner = Nobody /\ row[k].owner = inst
              /\ ChannelRelease(k) \/ (PassRelease /\ k \in pass.mine) \/ ShutdownRelease
           \/ /\ DrainReclaim \/ GoLive
              /\ row'[k].owner = Nobody /\ row[k].here /\ row[k].stale
           \/ /\ PassClaim /\ k \in NextBatch(row) /\ row'[k].owner = inst
              /\ pass'.batch = NextBatch(row)
<1> USE DEF disk, proc, ghost
<1>a. row \in Table /\ inst \in Nat /\ nextId \in Nat \ {0} /\ pass.batch \subseteq Msg
  BY RowTypes
<1>b. ASSUME NEW S, row' = ReleaseIDs(row, S, inst)
      PROVE  \/ row'[k].owner = row[k].owner
             \/ row'[k].owner = Nobody /\ row[k].owner = inst /\ k \in S
  BY <1>a, <1>b, ReleaseIDsClaims
<1>c. ASSUME NEW r \in Msg, row' = Complete(row, r)
      PROVE  row'[k].owner = row[k].owner \/ (~row'[k].here /\ row'[k].owner = Nobody)
  <2>1. CASE r = k
    BY <2>1, <1>a, <1>c, CompleteClaims DEF Complete, Table
  <2>2. CASE r # k
    BY <2>2, <1>a, <1>c, CompleteClaims
  <2> QED BY <2>1, <2>2
<1>1. UNCHANGED row => row'[k].owner = row[k].owner
  OBVIOUS
<1>2. ASSUME NEW r \in Msg, ChannelEnqueue(r)
      PROVE  row'[k].owner = row[k].owner \/ (ChannelEnqueue(k) /\ row'[k].owner = inst)
  <2>1. CASE row' = EnqueueClaimed(row, r, nextId, inst)
    BY <2>1, <1>2, <1>a DEF EnqueueClaimed, Table
  <2> QED BY <2>1, <1>1, <1>2 DEF ChannelEnqueue
<1>3. ASSUME NEW r \in Msg, ChannelRelease(r)
      PROVE  \/ row'[k].owner = row[k].owner
             \/ row'[k].owner = Nobody /\ row[k].owner = inst /\ ChannelRelease(k)
  <2>1. UNCHANGED row \/ row' = ReleaseIDs(row, {r}, inst)
    BY <1>3 DEF ChannelRelease
  <2> QED BY <2>1, <1>3, <1>1, <1>b
<1>4. CASE DrainReclaim \/ GoLive
  <2>1. row' \in {row, ReclaimStale(row)}
    BY <1>4 DEF DrainReclaim, GoLive
  <2> QED BY <2>1, <1>4, <1>a, <1>1, ReclaimStaleClaims
<1>5. CASE ShutdownRelease
  <2>1. row' \in {row, ReleaseClaims(row, inst)}
    BY <1>5 DEF ShutdownRelease
  <2> QED BY <2>1, <1>5, <1>a, <1>1, ReleaseClaimsClaims
<1>6. CASE Age
  BY <1>6, <1>a, AgeClaimsClaims DEF Age
<1>7. CASE PassClaim
  <2>1. CASE row' = ClaimBatch(row, inst) /\ pass'.batch = NextBatch(row)
    BY <2>1, <1>7, <1>a, ClaimBatchClaims
  <2> QED BY <2>1, <1>7, <1>1, PassClaimDoes
<1>8. CASE PassRelease
  BY <1>8, <1>1, <1>b DEF PassRelease
<1>9. ASSUME NEW r \in pass.batch, PassRow(r)
      PROVE  row'[k].owner = row[k].owner \/ (~row'[k].here /\ row'[k].owner = Nobody)
  <2>1. row' \in {row, IncAttempt(row, r), Complete(row, r)}
    BY <1>9 DEF PassRow, PassItem, PassPoison, PassDecide, PassPublish, PassDefer, PassDelete
  <2>2. IncAttempt(row, r)[k].owner = row[k].owner
    BY <1>a, IncAttemptClaims
  <2> QED BY <2>1, <2>2, <1>a, <1>1, <1>c
<1>10. ASSUME NEW s \in Slot, TurnStart(s) \/ TurnStep(s)
       PROVE  row'[k].owner = row[k].owner \/ (~row'[k].here /\ row'[k].owner = Nobody)
  <2>1. CASE TurnComplete(s)
    <3>1. PICK r \in Msg : r = turn[s].msg
      BY <2>1, TurnStepDoes DEF TurnStep
    <3> QED BY <2>1, <3>1, <1>1, <1>c DEF TurnComplete
  <2>2. CASE TurnStart(s) \/ TurnCheck(s) \/ TurnAnswer(s) \/ TurnCancel(s) \/ TurnMark(s)
    BY <2>2, <1>1 DEF TurnStart, TurnCheck, TurnAnswer, TurnCancel, TurnMark
  <2> QED BY <1>10, <2>1, <2>2 DEF TurnStep
<1>11. CASE (\E r \in Msg : ChannelPublish(r)) \/ PumpTick \/ \E q : Prune(q)
  BY <1>1, <1>11 DEF ChannelPublish, PumpTick, Prune
<1>12. CASE Boot \/ StartChannels \/ ShutdownBegin \/ PumpStop \/ ChannelsStop \/ ProcessEnd
  BY <1>1, <1>12 DEF Boot, StartChannels, ShutdownBegin, PumpStop, ChannelsStop, ProcessEnd
<1>13. CASE UNCHANGED vars
  BY <1>1, <1>13 DEF vars
<1> QED
  BY <1>2, <1>3, <1>4, <1>5, <1>6, <1>7, <1>8, <1>9, <1>10, <1>11, <1>12, <1>13
     DEF Next, ChannelStep, Lifecycle, PassStep

\* Only time makes a claim stale.
LEMMA StaleStep ==
    ASSUME TypeOK, [Next]_vars, NEW k \in Msg, row'[k].stale, ~Age
    PROVE  row[k].stale
<1> USE DEF disk, proc, ghost
<1>a. row \in Table /\ inst \in Nat /\ nextId \in Nat \ {0} /\ pass.batch \subseteq Msg
  BY RowTypes
<1>1. UNCHANGED row => row[k].stale
  OBVIOUS
<1>2. ASSUME NEW S, row' = ReleaseIDs(row, S, inst) PROVE row[k].stale
  BY <1>a, <1>2 DEF Table, Row, ReleaseIDs
<1>3. ASSUME NEW r \in Msg, row' = Complete(row, r) \/ row' = IncAttempt(row, r) PROVE row[k].stale
  BY <1>a, <1>3, SpoolAssumption DEF Table, Row, Complete, IncAttempt
<1>4. ASSUME NEW r \in Msg, ChannelStep(r) PROVE row[k].stale
  <2>1. CASE row' = EnqueueClaimed(row, r, nextId, inst)
    BY <2>1, <1>a DEF EnqueueClaimed, Table, Row
  <2> QED BY <2>1, <1>1, <1>2, <1>4 DEF ChannelStep, ChannelEnqueue, ChannelPublish, ChannelRelease
<1>5. ASSUME row' \in {ReclaimStale(row), ReleaseClaims(row, inst), ClaimBatch(row, inst)}
      PROVE  row[k].stale
  BY <1>5, <1>a DEF ReclaimStale, ReleaseClaims, ClaimBatch, Table, Row
<1>6. CASE Lifecycle
  BY <1>6, <1>1, <1>5 DEF Lifecycle, Boot, DrainReclaim, StartChannels, GoLive,
              ShutdownBegin, PumpStop, ShutdownRelease, ChannelsStop, ProcessEnd
<1>7. CASE PumpTick \/ PassClaim \/ PassRelease
  BY <1>7, <1>1, <1>2, <1>5 DEF PumpTick, PassClaim, PassRelease
<1>8. ASSUME NEW r \in pass.batch, PassRow(r) PROVE row[k].stale
  <2>1. row' \in {row, IncAttempt(row, r), Complete(row, r)}
    BY <1>8 DEF PassRow, PassItem, PassPoison, PassDecide, PassPublish, PassDefer, PassDelete
  <2> QED BY <2>1, <1>a, <1>1, <1>3
<1>9. ASSUME NEW s \in Slot, TurnStart(s) \/ TurnStep(s) PROVE row[k].stale
  <2>1. CASE TurnComplete(s)
    <3>1. PICK r \in Msg : r = turn[s].msg
      BY <2>1, TurnStepDoes DEF TurnStep
    <3> QED BY <2>1, <3>1, <1>1, <1>3 DEF TurnComplete
  <2>2. CASE TurnStart(s) \/ TurnCheck(s) \/ TurnAnswer(s) \/ TurnCancel(s) \/ TurnMark(s)
    BY <2>2, <1>1 DEF TurnStart, TurnCheck, TurnAnswer, TurnCancel, TurnMark
  <2> QED BY <1>9, <2>1, <2>2 DEF TurnStep
<1>10. ASSUME NEW q, Prune(q) PROVE row[k].stale
  BY <1>1, <1>10 DEF Prune
<1>11. CASE UNCHANGED vars
  BY <1>1, <1>11 DEF vars
<1> QED BY <1>4, <1>6, <1>7, <1>8, <1>9, <1>10, <1>11 DEF Next, PassStep

\* Message m goes from stage s to those of T, one or none, and no other moves.
Goes(m, s, T) ==
    /\ Stages(m) = {s}
    /\ Stages(m)' = T
    /\ \A k \in Msg \ {m} : Stages(k)' = Stages(k)

Stays == \A k \in Msg : Stages(k)' = Stages(k)

\* A stage nothing is done to keeps what it has.
LEMMA StagesAre ==
    ASSUME NEW k \in Msg
    PROVE  /\ ch'[k] = ch[k] => (AtNew(k)' <=> AtNew(k)) /\ (AtChannel(k)' <=> AtChannel(k))
           /\ UNCHANGED bus => (OnBus(k)' <=> OnBus(k))
           /\ UNCHANGED turn => (InTurn(k)' <=> InTurn(k))
BY DEF AtNew, AtChannel, OnBus, InTurn

LEMMA OnlyStage ==
    ASSUME OneStage, NEW m \in Msg, NEW s \in Stages(m)
    PROVE  Stages(m) = {s}
BY DEF OneStage

LEMMA ChannelMoves ==
    ASSUME TypeOK, IdsUnique, BatchSpooled, OneStage, NoTwins, [Next]_vars,
           NEW m \in Msg, ChannelStep(m)
    PROVE  /\ \/ ChannelEnqueue(m) /\ Goes(m, "new", {"channel"})
              \/ ChannelPublish(m) /\ (Goes(m, "channel", {"bus"}) \/ Stays)
              \/ ChannelRelease(m) /\ Goes(m, "channel", {})
           /\ NoTwins'
<1> USE DEF disk, proc, ghost
<1>a. bus \in Seq(Msg) /\ ch \in [Msg -> {"new", "enqueued", "refused", "done"}]
  BY DEF TypeOK
<1>b. UNCHANGED <<pass, turn>>
  BY DEF ChannelStep, ChannelEnqueue, ChannelPublish, ChannelRelease
<1>c. ToPublish' = ToPublish
  BY <1>b, ToPublishStays
<1>d. \A k \in Msg : (InTurn(k)' <=> InTurn(k)) /\ (OnBus(k) <=> In(bus, k)) /\ (OnBus(k)' <=> In(bus', k))
  BY <1>b DEF InTurn, OnBus, In
<1>1. ASSUME ch[m] = "new", ch' = [ch EXCEPT ![m] = "enqueued"], UNCHANGED bus
      PROVE  Goes(m, "new", {"channel"}) /\ NoTwins'
  <2>1. "new" \in Stages(m) /\ Stages(m) = {"new"}
    BY <1>1, OnlyStage DEF Stages, Stage, AtNew
  <2>2. ~OnBus(m) /\ ~InTurn(m) /\ m \notin ToPublish
    BY <2>1 DEF Stages, Stage
  <2>3. Stages(m)' = {"channel"}
    BY <2>2, <1>1, <1>a, <1>c, <1>d DEF Stages, Stage, AtNew, AtChannel
  <2>4. \A k \in Msg \ {m} : Stages(k)' = Stages(k)
    BY <1>1, <1>a, <1>c, <1>d DEF Stages, Stage, AtNew, AtChannel
  <2> QED BY <2>1, <2>3, <2>4, <1>1, <1>b DEF Goes, NoTwins
<1>2. ASSUME ch[m] = "enqueued", ch' = [ch EXCEPT ![m] = "done"], bus' = Append(bus, m)
      PROVE  Goes(m, "channel", {"bus"}) /\ NoTwins'
  <2>1. "channel" \in Stages(m) /\ Stages(m) = {"channel"}
    BY <1>2, OnlyStage DEF Stages, Stage, AtChannel
  <2>2. ~OnBus(m) /\ ~InTurn(m) /\ m \notin ToPublish
    BY <2>1 DEF Stages, Stage
  <2>3. \A k \in Msg : OnBus(k)' <=> OnBus(k) \/ k = m
    BY <1>2, <1>a, <1>d, AppendIn
  <2>4. Stages(m)' = {"bus"}
    BY <2>2, <2>3, <1>2, <1>a, <1>c, <1>d DEF Stages, Stage, AtNew, AtChannel
  <2>5. \A k \in Msg \ {m} : Stages(k)' = Stages(k)
    BY <2>3, <1>2, <1>a, <1>c, <1>d DEF Stages, Stage, AtNew, AtChannel
  <2>6. NoTwins'
    BY <2>2, <1>2, <1>a, <1>b, <1>d, AppendIn DEF NoTwins
  <2> QED BY <2>1, <2>4, <2>5, <2>6 DEF Goes
<1>3. ASSUME ch[m] = "enqueued", ch' = [ch EXCEPT ![m] = "refused"], UNCHANGED bus
      PROVE  Stays /\ NoTwins'
  BY <1>3, <1>a, <1>b, <1>c, <1>d DEF Stays, Stages, Stage, AtNew, AtChannel, NoTwins
<1>4. ASSUME ch[m] = "refused", ch' = [ch EXCEPT ![m] = "done"], UNCHANGED bus
      PROVE  Goes(m, "channel", {}) /\ NoTwins'
  <2>1. "channel" \in Stages(m) /\ Stages(m) = {"channel"}
    BY <1>4, OnlyStage DEF Stages, Stage, AtChannel
  <2>2. ~OnBus(m) /\ ~InTurn(m) /\ m \notin ToPublish
    BY <2>1 DEF Stages, Stage
  <2>3. Stages(m)' = {}
    BY <2>2, <1>4, <1>a, <1>c, <1>d DEF Stages, Stage, AtNew, AtChannel
  <2>4. \A k \in Msg \ {m} : Stages(k)' = Stages(k)
    BY <1>4, <1>a, <1>c, <1>d DEF Stages, Stage, AtNew, AtChannel
  <2> QED BY <2>1, <2>3, <2>4, <1>4, <1>b DEF Goes, NoTwins
<1>5. CASE ChannelEnqueue(m)
  <2>1. ch[m] = "new" /\ ch' = [ch EXCEPT ![m] = "enqueued"] /\ UNCHANGED bus
    BY <1>5 DEF ChannelEnqueue
  <2> QED BY <2>1, <1>5, <1>1
<1>6. CASE ChannelPublish(m)
  <2>1. \/ ch[m] = "enqueued" /\ ch' = [ch EXCEPT ![m] = "done"] /\ bus' = Append(bus, m)
        \/ ch[m] = "enqueued" /\ ch' = [ch EXCEPT ![m] = "refused"] /\ UNCHANGED bus
    BY <1>6 DEF ChannelPublish
  <2> QED BY <2>1, <1>6, <1>2, <1>3
<1>7. CASE ChannelRelease(m)
  <2>1. ch[m] = "refused" /\ ch' = [ch EXCEPT ![m] = "done"] /\ UNCHANGED bus
    BY <1>7 DEF ChannelRelease
  <2> QED BY <2>1, <1>7, <1>4
<1> QED BY <1>5, <1>6, <1>7 DEF ChannelStep

LEMMA TurnMoves ==
    ASSUME TypeOK, IdsUnique, BatchSpooled, OneStage, NoTwins, [Next]_vars,
           NEW s \in Slot, TurnStart(s) \/ TurnStep(s)
    PROVE  /\ \/ Stays
              \/ \E m \in Msg : TurnStart(s) /\ m = Head(bus) /\ Goes(m, "bus", {"turn"})
              \/ \E m \in Msg : /\ TurnStep(s) /\ Ends(s) /\ m = turn[s].msg
                                /\ Goes(m, "turn", {})
           /\ NoTwins'
<1> USE DEF disk, proc, ghost
<1>a. bus \in Seq(Msg) /\ NoMsg \notin Msg /\ Idle.msg = NoMsg
  BY InboundAssumption DEF TypeOK, Idle
<1>b. UNCHANGED <<pass, ch>>
  BY DEF TurnStart, TurnStep, TurnCheck, TurnAnswer, TurnCancel, TurnMark, TurnComplete
<1>c. ToPublish' = ToPublish
  BY <1>b, ToPublishStays
<1>d. \A k \in Msg : /\ (OnBus(k) <=> In(bus, k)) /\ (OnBus(k)' <=> In(bus', k))
                     /\ (AtNew(k)' <=> AtNew(k)) /\ (AtChannel(k)' <=> AtChannel(k))
  BY <1>b DEF OnBus, In, AtNew, AtChannel
<1>1. CASE TurnStart(s)
  <2>1. /\ turn[s] = Idle /\ bus # <<>> /\ bus' = Tail(bus) /\ turn'[s].msg = Head(bus)
        /\ \A t \in Slot \ {s} : turn'[t] = turn[t]
    BY <1>1 DEF TurnStart, TypeOK
  <2>2. PICK m \in Msg : m = Head(bus)
    BY <2>1, <1>a
  <2>3. /\ OnBus(m) /\ \A k \in Msg : OnBus(k)' <=> OnBus(k) /\ k # m
        /\ Distinct(bus')
    BY <2>1, <2>2, <1>a, <1>d, TailIn DEF NoTwins
  <2>4. Stages(m) = {"bus"}
    BY <2>3, OnlyStage DEF Stages, Stage
  <2>5. ~AtNew(m) /\ ~AtChannel(m) /\ ~InTurn(m) /\ m \notin ToPublish
    BY <2>4 DEF Stages, Stage
  <2>6. \A k \in Msg : InTurn(k)' <=> InTurn(k) \/ k = m
    BY <2>1, <2>2, <1>a DEF InTurn
  <2>7. Stages(m)' = {"turn"}
    BY <2>3, <2>5, <2>6, <1>c, <1>d DEF Stages, Stage
  <2>8. \A k \in Msg \ {m} : Stages(k)' = Stages(k)
    BY <2>3, <2>6, <1>c, <1>d DEF Stages, Stage
  <2>9. ASSUME NEW t \in Slot, NEW u \in Slot, turn'[t].msg \in Msg, turn'[t].msg = turn'[u].msg
        PROVE  t = u
    <3>1. turn'[s].msg = m /\ \A v \in Slot : turn[v].msg # m
      BY <2>1, <2>2, <2>5 DEF InTurn
    <3>2. CASE t = s \/ u = s
      BY <3>1, <3>2, <2>1, <2>9
    <3>3. CASE t # s /\ u # s
      BY <3>3, <2>1, <2>9 DEF NoTwins
    <3> QED BY <3>2, <3>3
  <2>10. NoTwins'
    BY <2>3, <2>9 DEF NoTwins
  <2>11. Goes(m, "bus", {"turn"})
    BY <2>4, <2>7, <2>8 DEF Goes
  <2> QED BY <2>2, <2>10, <2>11, <1>1
<1>2. CASE TurnStep(s)
  <2>1. /\ turn[s].msg \in Msg /\ UNCHANGED bus
        /\ turn'[s].msg = turn[s].msg \/ (turn'[s] = Idle /\ Ends(s))
        /\ \A t \in Slot \ {s} : turn'[t] = turn[t]
    BY <1>2, TurnStepDoes DEF TurnStep, TurnCheck, TurnAnswer, TurnCancel, TurnMark, TurnComplete
  <2>2. NoTwins'
    BY <2>1, <1>a DEF NoTwins
  <2>3. CASE turn'[s].msg = turn[s].msg
    <3>1. \A k \in Msg : InTurn(k)' <=> InTurn(k)
      BY <2>1, <2>3 DEF InTurn
    <3> QED BY <2>1, <2>2, <3>1, <1>c, <1>d DEF Stays, Stages, Stage
  <2>4. CASE turn'[s] = Idle /\ Ends(s)
    <3>1. PICK m \in Msg : m = turn[s].msg
      BY <2>1
    <3>2. \A k \in Msg : InTurn(k)' <=> InTurn(k) /\ k # m
      BY <2>1, <2>4, <3>1, <1>a DEF InTurn, NoTwins
    <3>3. "turn" \in Stages(m) /\ Stages(m) = {"turn"}
      BY <3>1, OnlyStage DEF Stages, Stage, InTurn
    <3>4. ~AtNew(m) /\ ~AtChannel(m) /\ ~OnBus(m) /\ m \notin ToPublish
      BY <3>3 DEF Stages, Stage
    <3>5. Stages(m)' = {}
      BY <2>1, <3>2, <3>4, <1>c, <1>d DEF Stages, Stage
    <3>6. \A k \in Msg \ {m} : Stages(k)' = Stages(k)
      <4>1. \A k \in Msg : OnBus(k)' <=> OnBus(k)
        BY <2>1, <1>d
      <4> QED BY <4>1, <3>2, <1>c, <1>d DEF Stages, Stage
    <3>7. Goes(m, "turn", {})
      BY <3>3, <3>5, <3>6 DEF Goes
    <3> QED BY <2>2, <2>4, <3>1, <3>7, <1>2
  <2> QED BY <2>1, <2>3, <2>4
<1> QED BY <1>1, <1>2

LEMMA PassMoves ==
    ASSUME TypeOK, IdsUnique, BatchSpooled, OneStage, NoTwins, [Next]_vars, faults' = 0,
           NEW m \in pass.batch, PassRow(m)
    PROVE  /\ m \in Msg
           /\ \/ Stays
              \/ PassPublish(m) /\ Goes(m, "pass", {"bus"})
              \/ Goes(m, "pass", {})
           /\ NoTwins'
<1> USE DEF disk, proc, ghost
<1>a. bus \in Seq(Msg) /\ m \in Msg /\ pass.pc \in {"item", "publish", "delete"}
  BY RowTypes DEF TypeOK, PassRow, PassItem, PassPublish, PassDefer, PassDelete
<1>b. UNCHANGED <<turn, ch>>
  BY DEF PassRow, PassItem, PassPublish, PassDefer, PassDelete
<1>c. ToPublish' \in {ToPublish, ToPublish \ {m}}
  BY PassRowDoes, FaultStep
<1>d. \A k \in Msg : /\ (OnBus(k) <=> In(bus, k)) /\ (OnBus(k)' <=> In(bus', k))
                     /\ (AtNew(k)' <=> AtNew(k)) /\ (AtChannel(k)' <=> AtChannel(k))
                     /\ (InTurn(k)' <=> InTurn(k))
  BY <1>b DEF OnBus, In, AtNew, AtChannel, InTurn
<1>e. m \in ToPublish => /\ Stages(m) = {"pass"}
                         /\ ~AtNew(m) /\ ~AtChannel(m) /\ ~OnBus(m) /\ ~InTurn(m)
  <2>1. m \in ToPublish => Stages(m) = {"pass"}
    BY <1>a, OnlyStage DEF Stages, Stage
  <2> QED BY <2>1 DEF Stages, Stage
<1>1. CASE UNCHANGED bus
  <2>1. NoTwins'
    BY <1>1, <1>b DEF NoTwins
  <2>2. CASE m \in ToPublish /\ ToPublish' = ToPublish \ {m}
    <3>a. \A k \in Msg : OnBus(k)' <=> OnBus(k)
      BY <1>1, <1>d
    <3>b. m \notin ToPublish' /\ m \in ToPublish
      BY <2>2
    <3>1. Stages(m)' = {}
      BY <3>a, <3>b, <1>a, <1>d, <1>e DEF Stages, Stage
    <3>2. \A k \in Msg \ {m} : Stages(k)' = Stages(k)
      BY <1>1, <1>d, <2>2 DEF Stages, Stage
    <3> QED BY <1>a, <1>e, <2>1, <2>2, <3>1, <3>2 DEF Goes
  <2>3. CASE ToPublish' = ToPublish
    BY <1>1, <1>a, <1>d, <2>1, <2>3 DEF Stages, Stage, Stays
  <2> QED BY <1>c, <2>2, <2>3
<1>2. CASE PassPublish(m)
  <2>1. pass.pc = "publish" /\ bus' = Append(bus, m)
    BY <1>2 DEF PassPublish
  <2>2. m \in ToPublish /\ ToPublish' = ToPublish \ {m}
    BY <2>1, <1>2, PassRowDoes DEF PassItem, PassDelete, PassPublish, ToPublish
  <2>3. \A k \in Msg : OnBus(k)' <=> OnBus(k) \/ k = m
    BY <2>1, <1>a, <1>d, AppendIn
  <2>4. Stages(m)' = {"bus"}
    BY <2>2, <2>3, <1>a, <1>d, <1>e DEF Stages, Stage
  <2>5. \A k \in Msg \ {m} : Stages(k)' = Stages(k)
    BY <2>2, <2>3, <1>d DEF Stages, Stage
  <2>6. NoTwins'
    BY <2>1, <2>2, <1>a, <1>b, <1>d, <1>e, AppendIn DEF NoTwins
  <2> QED BY <2>2, <2>4, <2>5, <2>6, <1>2, <1>a, <1>e DEF Goes
<1>3. UNCHANGED bus \/ PassPublish(m)
  BY DEF PassRow, PassItem, PassDefer, PassDelete
<1> QED BY <1>1, <1>2, <1>3

\* Where a step takes message k.
StageMoves(k) ==
    \/ Stages(k)' = Stages(k)
    \/ PassClaim /\ k \in NextBatch(row) /\ Stages(k)' = Stages(k) \cup {"pass"}
    \/ ProcessEnd /\ Stages(k)' \subseteq {"new"}
    \/ ChannelEnqueue(k) /\ Stages(k)' = {"channel"}
    \/ k \in pass.batch /\ PassRow(k) /\ PassPublish(k) /\ Stages(k)' = {"bus"}
    \/ Outside(k) /\ (Stages(k)' = {"bus"} \/ Stages(k)' = {"turn"})
    \/ Stages(k)' = {}

\* The steps of the life cycle, and those that only look at the disk.
LEMMA RestStay ==
    ASSUME TypeOK, IdsUnique, BatchSpooled, NoTwins, [Next]_vars,
           UNCHANGED <<bus, ch, turn>>, ToPublish' = ToPublish
    PROVE  NoTwins' /\ Stays
<1>1. \A k \in Msg : /\ (AtNew(k)' <=> AtNew(k)) /\ (AtChannel(k)' <=> AtChannel(k))
                     /\ (OnBus(k)' <=> OnBus(k)) /\ (InTurn(k)' <=> InTurn(k))
  BY DEF AtNew, AtChannel, OnBus, InTurn
<1> QED BY <1>1 DEF NoTwins, Stays, Stages, Stage

LEMMA EndMoves ==
    ASSUME ProcessEnd
    PROVE  NoTwins' /\ \A k \in Msg : Stages(k)' \subseteq {"new"}
<1>1. bus' = <<>> /\ turn' = [s \in Slot |-> Idle] /\ pass' = NoPass /\ NoMsg \notin Msg
  BY InboundAssumption DEF ProcessEnd
<1>2. \A s \in Slot : turn'[s].msg = NoMsg
  BY <1>1 DEF Idle
<1>3. \A k \in Msg : ~OnBus(k)' /\ ~InTurn(k)' /\ ~AtChannel(k)'
  <2> TAKE k \in Msg
  <2>1. ch'[k] \in {"new", "done"}
    BY DEF ProcessEnd
  <2> QED BY <1>1, <1>2, <2>1 DEF OnBus, InTurn, AtChannel
<1>4. ToPublish' = {}
  BY <1>1 DEF ToPublish, NoPass
<1>5. NoTwins'
  BY <1>1, <1>2 DEF NoTwins, Distinct
<1> QED BY <1>3, <1>4, <1>5 DEF Stages, Stage

LEMMA StageStep ==
    ASSUME TypeOK, IdsUnique, BatchSpooled, Resting, OneStage, NoTwins, [Next]_vars, faults' = 0
    PROVE  NoTwins' /\ \A k \in Msg : StageMoves(k)
<1> USE DEF disk, proc, ghost
<1>a. Stays => \A k \in Msg : StageMoves(k)
  BY DEF Stays, StageMoves
<1>b. ASSUME NEW m \in Msg, NEW s, NEW T, Goes(m, s, T)
      PROVE  /\ Stages(m) = {s} /\ Stages(m)' = T
             /\ StageMoves(m) => \A k \in Msg : StageMoves(k)
  BY <1>b DEF Goes, StageMoves
<1>c. ASSUME NEW m \in Msg, Stages(m) = {"channel"} \/ Stages(m) = {"bus"} PROVE Outside(m)
  <2>1. "channel" \in Stages(m) \/ "bus" \in Stages(m)
    BY <1>c
  <2> QED BY <2>1 DEF Stages, Outside
<1>1. ASSUME NEW m \in Msg, ChannelStep(m) PROVE NoTwins' /\ \A k \in Msg : StageMoves(k)
  <2>1. NoTwins'
    BY <1>1, ChannelMoves
  <2>2. CASE ChannelEnqueue(m) /\ Goes(m, "new", {"channel"})
    BY <2>1, <2>2, <1>b DEF StageMoves
  <2>3. CASE Goes(m, "channel", {"bus"})
    BY <2>1, <2>3, <1>b, <1>c DEF StageMoves
  <2>4. CASE Goes(m, "channel", {})
    BY <2>1, <2>4, <1>b DEF StageMoves
  <2> QED BY <2>1, <2>2, <2>3, <2>4, <1>1, <1>a, ChannelMoves
<1>2. ASSUME NEW s \in Slot, TurnStart(s) \/ TurnStep(s)
      PROVE  NoTwins' /\ \A k \in Msg : StageMoves(k)
  <2>1. NoTwins'
    BY <1>2, TurnMoves
  <2>2. ASSUME NEW m \in Msg, Goes(m, "bus", {"turn"}) PROVE \A k \in Msg : StageMoves(k)
    BY <2>2, <1>b, <1>c DEF StageMoves
  <2>3. ASSUME NEW m \in Msg, Goes(m, "turn", {}) PROVE \A k \in Msg : StageMoves(k)
    BY <2>3, <1>b DEF StageMoves
  <2> QED BY <2>1, <2>2, <2>3, <1>2, <1>a, TurnMoves
<1>3. ASSUME NEW m \in pass.batch, PassRow(m) PROVE NoTwins' /\ \A k \in Msg : StageMoves(k)
  <2>1. NoTwins' /\ m \in Msg
    BY <1>3, PassMoves
  <2>2. CASE PassPublish(m) /\ Goes(m, "pass", {"bus"})
    BY <2>1, <2>2, <1>3, <1>b DEF StageMoves
  <2>3. CASE Goes(m, "pass", {})
    BY <2>1, <2>3, <1>b DEF StageMoves
  <2> QED BY <2>1, <2>2, <2>3, <1>3, <1>a, PassMoves
<1>4. CASE ProcessEnd
  BY <1>4, EndMoves DEF StageMoves
<1>5. CASE PassClaim
  <2>1. UNCHANGED <<bus, ch, turn>>
    BY <1>5 DEF PassClaim
  <2>2. \A k \in Msg : /\ (AtNew(k)' <=> AtNew(k)) /\ (AtChannel(k)' <=> AtChannel(k))
                       /\ (OnBus(k)' <=> OnBus(k)) /\ (InTurn(k)' <=> InTurn(k))
    BY <2>1 DEF AtNew, AtChannel, OnBus, InTurn
  <2>3. NoTwins'
    BY <2>1 DEF NoTwins
  <2>4. ToPublish = {} /\ ToPublish' \in {{}, NextBatch(row)}
    BY <1>5, PassClaimDoes
  <2>5. ASSUME NEW k \in Msg PROVE StageMoves(k)
    <3>1. CASE k \in ToPublish'
      <4>1. k \in NextBatch(row) /\ k \notin ToPublish
        BY <3>1, <2>4
      <4>2. Stages(k)' = Stages(k) \cup {"pass"}
        BY <3>1, <2>2 DEF Stages, Stage
      <4> QED BY <4>1, <4>2, <1>5 DEF StageMoves
    <3>2. CASE k \notin ToPublish'
      <4>1. k \notin ToPublish
        BY <2>4
      <4>2. Stages(k)' = Stages(k)
        BY <3>2, <4>1, <2>2 DEF Stages, Stage
      <4> QED BY <4>2 DEF StageMoves
    <3> QED BY <3>1, <3>2
  <2> QED BY <2>3, <2>5
<1>6. CASE UNCHANGED <<bus, ch, turn>> /\ ~ProcessEnd /\ ~PassClaim /\ ~(\E m \in pass.batch : PassRow(m))
  <2>1. pass.pc = "off" => ToPublish = {}
    BY DEF ToPublish
  <2>2. DrainReclaim \/ PumpTick => pass.pc = "off"
    BY DEF DrainReclaim, PumpTick, Resting
  <2>3. ToPublish' = ToPublish
    <3>1. \/ ToPublish' = ToPublish
          \/ (DrainReclaim \/ PumpTick) /\ ToPublish' = {}
          \/ ToPublish = {} /\ ToPublish' = {}
      BY <1>6, PassSteps
    <3> QED BY <3>1, <2>1, <2>2
  <2> QED BY <1>6, <1>a, <2>3, RestStay
<1>7. CASE Lifecycle
  <2>1. ProcessEnd \/ UNCHANGED <<bus, ch, turn>>
    BY <1>7 DEF Lifecycle, Boot, DrainReclaim, StartChannels, GoLive,
                ShutdownBegin, PumpStop, ShutdownRelease, ChannelsStop
  <2> QED BY <2>1, <1>3, <1>4, <1>5, <1>6
<1>8. CASE PumpTick \/ PassRelease \/ Age \/ (\E q : Prune(q)) \/ UNCHANGED vars
  <2>1. UNCHANGED <<bus, ch, turn>>
    BY <1>8 DEF PumpTick, PassRelease, Age, Prune, vars
  <2> QED BY <2>1, <1>3, <1>4, <1>5, <1>6
<1> QED BY <1>1, <1>2, <1>3, <1>5, <1>7, <1>8 DEF Next, PassStep

\* A row that waits for a claim has no copy.
LEMMA PendingIsFree ==
    ASSUME TypeOK, IdsUnique, Resting, OwnersPast, Owned, PassClaim, NEW k \in NextBatch(row)
    PROVE  Stages(k) = {} /\ k \in Msg /\ row[k].here /\ row[k].owner = Nobody
<1>1. k \in Msg /\ row[k].here /\ row[k].owner = Nobody
  BY BatchIsPending
<1>2. pass.pc = "claim" /\ ToPublish = {}
  BY PassClaimDoes
<1>3. phase \notin {"down", "boot", "channels", "released", "closing"}
  BY <1>2 DEF Resting
<1>4. inst # Nobody
  BY <1>3 DEF OwnersPast
<1>5. ~Outside(k)
  BY <1>1, <1>3, <1>4 DEF Owned
<1>6. ~AtNew(k)
  BY <1>1 DEF IdsUnique, AtNew
<1> QED BY <1>1, <1>2, <1>5, <1>6 DEF Stages, Stage, Outside

LEMMA OneStageStep ==
    ASSUME TypeOK, IdsUnique, BatchSpooled, Resting, OwnersPast, OneStage, NoTwins, Owned,
           [Next]_vars, faults' = 0
    PROVE  OneStage' /\ NoTwins'
<1>1. NoTwins' /\ \A k \in Msg : StageMoves(k)
  BY StageStep
<1>2. ASSUME NEW k \in Msg PROVE \A s, t \in Stages(k)' : s = t
  <2>1. \A s, t \in Stages(k) : s = t
    BY DEF OneStage
  <2>2. PassClaim /\ k \in NextBatch(row) => Stages(k) = {}
    BY PendingIsFree
  <2> QED BY <2>1, <2>2, <1>1 DEF StageMoves
<1> QED BY <1>1, <1>2 DEF OneStage

\* Where the message of a copy outside the pass comes from.
LEMMA OutsideFrom ==
    ASSUME TypeOK, IdsUnique, BatchSpooled, Resting, OneStage, NoTwins, [Next]_vars,
           faults' = 0, NEW k \in Msg, Outside(k)'
    PROVE  /\ ~ProcessEnd
           /\ \/ Outside(k)
              \/ ChannelEnqueue(k)
              \/ k \in pass.batch /\ PassRow(k) /\ PassPublish(k) /\ Stages(k)' = {"bus"}
<1>1. StageMoves(k)
  BY StageStep
<1>2. Outside(k) <=> Stages(k) \cap {"channel", "bus", "turn"} # {}
  BY DEF Outside, Stages, Stage
<1>3. Outside(k)' <=> Stages(k)' \cap {"channel", "bus", "turn"} # {}
  BY DEF Outside, Stages, Stage
<1>4. ~ProcessEnd
  BY <1>3, EndMoves
<1> QED BY <1>1, <1>2, <1>3, <1>4 DEF StageMoves

\* The batch of a pass comes from the batch it had, or from the pending rows;
\* what it has claimed so far it keeps until the end.
LEMMA BatchFrom ==
    ASSUME TypeOK, IdsUnique, BatchSpooled, [Next]_vars
    PROVE  \/ pass' = pass
           \/ pass'.batch = {} /\ pass'.mine = {} /\ (pass.pc \in {"off", "release"} \/ ProcessEnd \/ DrainReclaim)
           \/ PassClaim /\ pass'.batch = {} /\ pass'.mine = pass.mine
           \/ PassClaim /\ pass'.batch = NextBatch(row) /\ pass'.mine = pass.mine \cup NextBatch(row)
           \/ \E m \in pass.batch : PassRow(m) /\ pass'.mine = pass.mine /\ pass'.batch \subseteq pass.batch
<1>1. NoPass.batch = {} /\ NoPass.mine = {}
      /\ [NoPass EXCEPT !.pc = "claim"].batch = {} /\ [NoPass EXCEPT !.pc = "claim"].mine = {}
  BY DEF NoPass
<1>2. PumpTick => pass.pc = "off"
  BY DEF PumpTick
<1>3. ASSUME NEW m \in pass.batch, PassRow(m)
      PROVE  pass'.mine = pass.mine /\ pass'.batch \subseteq pass.batch
  BY <1>3, PassRowDoes
<1> QED BY <1>1, <1>2, <1>3, PassSteps, PassClaimDoes

LEMMA OwnersPastStep ==
    ASSUME TypeOK, Resting, OwnersPast, [Next]_vars
    PROVE  OwnersPast'
<1>a. inst \in Nat /\ \A k \in Msg : row[k].owner \in Nat
  BY RowTypes
<1>b. /\ inst' \in {inst, inst + 1}
      /\ phase' # "down" => phase # "down" \/ inst' = inst + 1
  BY PhaseStep, <1>a
<1>1. phase' # "down" => inst' # Nobody
  BY <1>a, <1>b DEF OwnersPast, Nobody
<1>2. ASSUME NEW k \in Msg PROVE row'[k].owner <= inst'
  <2>1. row'[k].owner \in {row[k].owner, Nobody, inst}
    BY OwnerStep
  <2>2. row[k].owner <= inst /\ Nobody <= inst /\ inst <= inst'
    BY <1>a, <1>b DEF OwnersPast, Nobody
  <2> QED BY <2>1, <2>2, <1>a, <1>b DEF Nobody
<1> QED BY <1>1, <1>2 DEF OwnersPast

\* What a claim of this process is from the start, it stays while it starts up.
LEMMA FreshStep ==
    ASSUME PromptStart, TypeOK, Resting, OwnersPast, Fresh, [Next]_vars
    PROVE  Fresh'
<1> USE DEF disk, proc, ghost
<1> SUFFICES ASSUME phase' \in Starting, NEW k \in Msg, row'[k].owner = inst', row'[k].stale
             PROVE  FALSE
  BY DEF Fresh
<1>a. row \in Table /\ inst \in Nat /\ nextId \in Nat \ {0}
  BY RowTypes
<1>1. ~Age
  BY DEF Age, PromptStart
<1>2. row[k].stale
  BY <1>1, StaleStep
<1>3. inst' # Nobody /\ row[k].owner \in Nat /\ row[k].owner <= inst
  <2>1. OwnersPast' /\ phase' # "down"
    BY OwnersPastStep DEF Starting
  <2> QED BY <2>1, RowTypes DEF OwnersPast
<1>4. row[k].owner # inst'
  <2>1. CASE phase \in Starting /\ inst' = inst
    BY <2>1, <1>2 DEF Fresh
  <2>2. CASE inst' = inst + 1
    BY <2>2, <1>a, <1>3
  <2> QED BY <2>1, <2>2, PhaseStep DEF Starting
<1>5. ~(ChannelEnqueue(k) \/ PassClaim)
  <2>1. CASE row' = EnqueueClaimed(row, k, nextId, inst)
    BY <2>1, <1>a DEF EnqueueClaimed, Table
  <2>2. CASE row' = ClaimBatch(row, inst)
    <3>1. row'[k] = row[k] \/ row'[k].stale = FALSE
      BY <2>2, <1>a DEF ClaimBatch, Table, Row
    <3> QED BY <3>1, <1>4
  <2>3. CASE UNCHANGED row
    BY <2>3, <1>4
  <2> QED BY <2>1, <2>2, <2>3 DEF ChannelEnqueue, PassClaim
<1> QED BY <1>3, <1>4, <1>5, OwnerStep

LEMMA MineStep ==
    ASSUME TypeOK, IdsUnique, BatchSpooled, Owned, [Next]_vars
    PROVE  /\ pass'.batch \subseteq pass'.mine
           /\ \A m \in pass'.mine : Spooled(m)'
<1>1. pass'.batch \subseteq pass'.mine
  BY BatchFrom DEF Owned
<1>2. ASSUME NEW k \in pass'.mine PROVE Spooled(k)'
  <2>1. k \in pass.mine \/ k \in NextBatch(row)
    BY <1>2, BatchFrom
  <2>2. k \in Msg /\ Spooled(k)
    BY <2>1, BatchIsPending, RowTypes DEF Owned, IdsUnique
  <2> QED BY <2>2, IdsStay DEF Spooled
<1> QED BY <1>1, <1>2

LEMMA BatchOwned ==
    ASSUME TypeOK, IdsUnique, BatchSpooled, Resting, OwnersPast, OneStage, NoTwins, Owned,
           [Next]_vars, faults' = 0, NEW k \in pass'.batch, row'[k].here
    PROVE  row'[k].owner = inst'
<1>1. CASE k \in pass.batch /\ ~PassClaim
  <2>1. k \in Msg /\ Spooled(k) /\ k \in pass.mine
    BY <1>1, RowTypes DEF Owned
  <2>2. row[k].here /\ row[k].owner = inst
    BY <1>1, <2>1, IdsStay DEF Owned
  <2>3. pass.pc # "off"
    BY <1>1 DEF Resting, NoPass
  <2>4. phase \notin {"down", "boot", "channels", "released", "closing"}
    BY <2>3 DEF Resting
  <2>5. inst' = inst
    BY <2>4, PhaseStep
  <2>6. ~ChannelEnqueue(k) /\ ~DrainReclaim /\ ~GoLive /\ ~ShutdownRelease
    BY <2>1, <2>3, <2>4 DEF ChannelEnqueue, DrainReclaim, GoLive, ShutdownRelease, IdsUnique
  <2>7. ~PassRelease
    BY DEF PassRelease, NoPass
  <2>8. ~ChannelRelease(k)
    BY <2>1, <2>2 DEF ChannelRelease, Owned, Outside, AtChannel
  <2> QED BY <1>1, <2>1, <2>2, <2>5, <2>6, <2>7, <2>8, OwnerStep
<1>2. CASE PassClaim
  <2>1. k \in NextBatch(row) /\ row' = ClaimBatch(row, inst) /\ inst' = inst
    BY <1>2, PassClaimDoes DEF PassClaim, proc
  <2>2. row \in Table /\ inst \in Nat /\ k \in Msg
    BY <2>1, RowTypes, BatchIsPending
  <2> QED BY <2>1, <2>2, ClaimBatchClaims
<1> QED BY <1>1, <1>2, BatchFrom

\* A row with a copy outside the pass was such a row, or was just spooled, or
\* has just been published by the pass.
LEMMA CarriedFrom ==
    ASSUME TypeOK, IdsUnique, BatchSpooled, Resting, OneStage, NoTwins, Owned, [Next]_vars,
           faults' = 0, NEW k \in Msg, Outside(k)', row'[k].here
    PROVE  \/ ChannelEnqueue(k) /\ row' = EnqueueClaimed(row, k, nextId, inst)
           \/ /\ k \in pass.batch /\ PassRow(k) /\ PassPublish(k) /\ Stages(k)' = {"bus"}
              /\ pass.pc = "publish" /\ row[k].here /\ row[k].owner = inst /\ UNCHANGED row
           \/ Outside(k) /\ row[k].here /\ ~ChannelEnqueue(k)
<1>1. CASE ChannelEnqueue(k)
  BY <1>1, FaultStep DEF ChannelEnqueue
<1>2. CASE ~ChannelEnqueue(k)
  <2>1. row[k].here
    BY <1>2, IdsStay
  <2>2. ASSUME k \in pass.batch, PassRow(k), PassPublish(k), Stages(k)' = {"bus"}
        PROVE  pass.pc = "publish" /\ row[k].owner = inst /\ UNCHANGED row
    BY <2>1, <2>2 DEF PassPublish, disk, Owned
  <2> QED BY <1>2, <2>1, <2>2, OutsideFrom
<1> QED BY <1>1, <1>2

\* A process without anything in memory carries nothing.
LEMMA EmptyCarries ==
    ASSUME Resting, phase = "down", NEW k \in Msg
    PROVE  ~Outside(k)
<1>1. bus = <<>> /\ ch[k] \in {"new", "done"} /\ \A s \in Slot : turn[s] = Idle
  BY DEF Resting
<1> QED BY <1>1, InboundAssumption DEF Outside, OnBus, InTurn, AtChannel, Idle

LEMMA CarriedOwned ==
    ASSUME TypeOK, IdsUnique, BatchSpooled, Resting, OwnersPast, Fresh, OneStage, NoTwins, Owned,
           [Next]_vars, faults' = 0, NEW k \in Msg, Outside(k)', row'[k].here
    PROVE  row'[k].owner = inst' \/ phase' \in {"released", "closing"}
<1>a. inst \in Nat /\ nextId \in Nat \ {0} /\ row \in Table
  BY RowTypes
<1>1. CASE ChannelEnqueue(k) /\ row' = EnqueueClaimed(row, k, nextId, inst)
  BY <1>1, <1>a DEF ChannelEnqueue, EnqueueClaimed, Table, proc
<1>2. CASE PassPublish(k) /\ row[k].owner = inst /\ UNCHANGED row
  BY <1>2 DEF PassPublish, proc
<1>3. CASE Outside(k) /\ row[k].here /\ ~ChannelEnqueue(k)
  <2>1. ~ProcessEnd /\ phase # "down"
    BY <1>3, OutsideFrom, EmptyCarries
  <2>2. CASE phase \in {"released", "closing"}
    BY <2>1, <2>2, PhaseStep
  <2>3. CASE phase \notin {"released", "closing"}
    <3>1. row[k].owner = inst /\ inst # Nobody /\ inst' = inst
      BY <1>3, <2>1, <2>3, PhaseStep DEF Owned, OwnersPast
    <3>2. ~ChannelRelease(k)
      <4>1. ASSUME ChannelRelease(k) PROVE Stages(k)' = {}
        BY <4>1, ChannelMoves DEF Goes, ChannelRelease, ChannelEnqueue, ChannelPublish, ChannelStep
      <4>2. Stages(k)' # {}
        BY DEF Outside, Stages, Stage
      <4> QED BY <4>1, <4>2
    <3>3. ~(PassRelease /\ k \in pass.mine)
      BY <1>3 DEF Owned, PassRelease
    <3>4. ShutdownRelease => phase' = "released"
      BY DEF ShutdownRelease
    <3>5. DrainReclaim \/ GoLive => ~row[k].stale
      BY <3>1 DEF DrainReclaim, GoLive, Fresh, Starting
    <3>6. PassClaim => k \notin NextBatch(row)
      BY <3>1, BatchIsPending
    <3> QED BY <1>3, <3>1, <3>2, <3>3, <3>4, <3>5, <3>6, OwnerStep
  <2> QED BY <2>2, <2>3
<1> QED BY <1>1, <1>2, <1>3, CarriedFrom

LEMMA CarriedMine ==
    ASSUME TypeOK, IdsUnique, BatchSpooled, Resting, OwnersPast, OneStage, NoTwins, Owned,
           [Next]_vars, faults' = 0, NEW k \in Msg, Outside(k)', row'[k].here,
           k \in pass'.mine
    PROVE  pass'.pc = "delete" /\ k \in pass'.batch /\ Oldest(k)' /\ ~AtChannel(k)'
<1>1. CASE ChannelEnqueue(k)
  <2>1. ~Spooled(k) /\ UNCHANGED pass
    BY <1>1 DEF ChannelEnqueue, IdsUnique
  <2> QED BY <2>1 DEF Owned
<1>2. CASE k \in pass.batch /\ PassRow(k) /\ PassPublish(k) /\ Stages(k)' = {"bus"}
  <2>1. pass'.pc = "delete" /\ pass'.batch = pass.batch /\ Oldest(k)
    BY <1>2 DEF PassPublish, PassRow, TypeOK
  <2>2. Oldest(k)'
    BY <1>2, <2>1, OldestStays
  <2>3. ~AtChannel(k)'
    BY <1>2 DEF Stages, Stage
  <2> QED BY <1>2, <2>1, <2>2, <2>3
<1>3. CASE Outside(k) /\ row[k].here /\ ~ChannelEnqueue(k)
  <2>1. k \in pass.mine
    <3>1. ASSUME PassClaim, k \in NextBatch(row) PROVE FALSE
      BY <1>3, <3>1, PendingIsFree DEF Outside, Stages, Stage
    <3> QED BY <3>1, BatchFrom
  <2>2. pass.pc = "delete" /\ k \in pass.batch /\ Oldest(k) /\ ~AtChannel(k)
    BY <1>3, <2>1 DEF Owned
  <2>3. ~AtChannel(k)'
    BY <1>3, <2>2, ChChange DEF AtChannel
  <2>4. ~PassClaim /\ ~PassRelease /\ ~PumpTick /\ ~ProcessEnd /\ ~DrainReclaim
    <3>1. ~ProcessEnd
      BY <1>3, OutsideFrom
    <3> QED BY <2>2, <3>1 DEF PassClaim, PassRelease, PumpTick, DrainReclaim, Resting
  <2>5. ~(\E r \in pass.batch : PassRow(r))
    <3> SUFFICES ASSUME NEW r \in pass.batch, PassRow(r) PROVE FALSE
      OBVIOUS
    <3>1. r = k
      BY <2>2, OneOldest DEF PassRow
    <3>2. PassDelete(k)
      BY <2>2, <3>1 DEF PassRow, PassItem, PassPublish, PassDefer
    <3>3. row' = Complete(row, k)
      BY <3>2, FaultStep DEF PassDelete
    <3> QED BY <3>3, RowTypes DEF Complete, Table
  <2>6. UNCHANGED pass
    BY <2>4, <2>5, PassSteps
  <2> QED BY <2>2, <2>3, <2>6, OldestStays
<1> QED BY <1>1, <1>2, <1>3, CarriedFrom

LEMMA OwnedStep ==
    ASSUME TypeOK, IdsUnique, BatchSpooled, Resting, OwnersPast, Fresh, OneStage,
           NoTwins, Owned, [Next]_vars, faults' = 0
    PROVE  Owned'
<1>1. \A m \in pass'.batch : row'[m].here => row'[m].owner = inst'
  BY BatchOwned
<1>2. ASSUME NEW m \in Msg, Outside(m)', row'[m].here
      PROVE  /\ row'[m].owner = inst' \/ phase' \in {"released", "closing"}
             /\ m \in pass'.mine => /\ pass'.pc = "delete" /\ m \in pass'.batch /\ Oldest(m)'
                                    /\ ~AtChannel(m)'
  BY <1>2, CarriedOwned, CarriedMine
<1> QED BY <1>1, <1>2, MineStep DEF Owned

LEMMA CopyInit == Init => CopyInv
<1> SUFFICES ASSUME Init PROVE CopyInv
  OBVIOUS
<1>1. TypeOK /\ IdsUnique /\ BatchSpooled /\ Resting
  BY PromiseInit DEF PromiseInv, KeptInv
<1>2. OwnersPast /\ Fresh
  BY DEF Init, OwnersPast, Fresh, Starting, NoRow, Nobody
<1>3. \A m \in Msg : AtNew(m) /\ ~AtChannel(m) /\ ~OnBus(m) /\ ~InTurn(m) /\ m \notin ToPublish
  <2>1. \A s \in Slot : turn[s].msg \notin Msg
    BY InboundAssumption DEF Init, Idle
  <2> QED BY <2>1 DEF Init, AtNew, AtChannel, OnBus, InTurn, ToPublish, NoPass
<1>4. OneStage
  BY <1>3 DEF OneStage, Stages, Stage
<1>5. NoTwins
  BY InboundAssumption DEF Init, NoTwins, Distinct, Idle
<1>6. Owned
  BY <1>3 DEF Owned, Outside, Init, NoPass
<1> QED BY <1>1, <1>2, <1>4, <1>5, <1>6 DEF CopyInv

LEMMA CopyStep == PromptStart /\ CopyInv /\ [Next]_vars => CopyInv'
<1> SUFFICES ASSUME PromptStart, CopyInv, [Next]_vars PROVE CopyInv'
  OBVIOUS
<1>1. TypeOK' /\ IdsUnique' /\ BatchSpooled' /\ Resting' /\ OwnersPast' /\ Fresh'
  BY TypeStep, IdsStep, BatchStep, RestingStep, OwnersPastStep, FreshStep DEF CopyInv
<1>2. ASSUME faults' = 0 PROVE OneStage' /\ NoTwins' /\ Owned'
  <2>1. faults = 0
    BY <1>2, FaultStep DEF CopyInv
  <2> QED BY <1>2, <2>1, OneStageStep, OwnedStep DEF CopyInv
<1> QED BY <1>1, <1>2 DEF CopyInv

LEMMA CopiesAre ==
    ASSUME TypeOK, NoTwins, NEW m \in Msg
    PROVE  Copies(m) = (IF InTurn(m) THEN 1 ELSE 0) + (IF OnBus(m) THEN 1 ELSE 0)
                       + (IF ch[m] = "enqueued" THEN 1 ELSE 0)
                       + (IF m \in ToPublish THEN 1 ELSE 0)
<1>1. Cardinality({s \in Slot : turn[s].msg = m}) = IF InTurn(m) THEN 1 ELSE 0
  <2>1. CASE InTurn(m)
    <3>1. PICK s \in Slot : turn[s].msg = m
      BY <2>1 DEF InTurn
    <3>2. {t \in Slot : turn[t].msg = m} = {s}
      BY <3>1 DEF NoTwins
    <3> QED BY <2>1, <3>2, FS_Singleton
  <2>2. CASE ~InTurn(m)
    <3>1. {s \in Slot : turn[s].msg = m} = {}
      BY <2>2 DEF InTurn
    <3> QED BY <2>2, <3>1, FS_EmptySet
  <2> QED BY <2>1, <2>2
<1>2. Cardinality({i \in DOMAIN bus : bus[i] = m}) = IF OnBus(m) THEN 1 ELSE 0
  <2>1. CASE OnBus(m)
    <3>1. PICK i \in DOMAIN bus : bus[i] = m
      BY <2>1 DEF OnBus
    <3>2. {j \in DOMAIN bus : bus[j] = m} = {i}
      BY <3>1 DEF NoTwins, Distinct
    <3> QED BY <2>1, <3>2, FS_Singleton
  <2>2. CASE ~OnBus(m)
    <3>1. {i \in DOMAIN bus : bus[i] = m} = {}
      BY <2>2 DEF OnBus
    <3> QED BY <2>2, <3>1, FS_EmptySet
  <2> QED BY <2>1, <2>2
<1> QED BY <1>1, <1>2 DEF Copies

\* A message is never on its way to two answers, as long as no database call
\* fails: whatever the crashes, restarts, duplicates, poisoned rows, a full
\* bus and the reclaims of the two drains.  If the start may outlast the 30
\* seconds of StaleClaimTimeout this is false, see AnsweredOnce.
THEOREM OneCopyEach == ASSUME PromptStart PROVE Spec => []SingleCopy
<1>1. CopyInv => SingleCopy
  <2> SUFFICES ASSUME CopyInv, faults = 0, NEW m \in Msg PROVE Copies(m) <= 1
    BY DEF SingleCopy
  <2>1. TypeOK /\ OneStage /\ NoTwins
    BY DEF CopyInv
  <2>2. /\ ~(InTurn(m) /\ OnBus(m)) /\ ~(InTurn(m) /\ ch[m] = "enqueued")
        /\ ~(InTurn(m) /\ m \in ToPublish) /\ ~(OnBus(m) /\ ch[m] = "enqueued")
        /\ ~(OnBus(m) /\ m \in ToPublish) /\ ~(ch[m] = "enqueued" /\ m \in ToPublish)
    <3>1. /\ InTurn(m) => "turn" \in Stages(m)
          /\ OnBus(m) => "bus" \in Stages(m)
          /\ ch[m] = "enqueued" => "channel" \in Stages(m)
          /\ m \in ToPublish => "pass" \in Stages(m)
      BY DEF Stages, Stage, AtChannel
    <3>2. \A s, t \in Stages(m) : s = t
      BY <2>1 DEF OneStage
    <3> QED BY <3>1, <3>2
  <2> QED BY <2>1, <2>2, CopiesAre
<1> QED BY <1>1, CopyInit, CopyStep, PTL DEF Spec

-----------------------------------------------------------------------------
(* No claim without somebody who will finish or release it *)

Served ==
    phase \in ServingPhases /\ faults = 0 =>
        \A m \in HeldBy(row, inst) :
            \/ AtChannel(m) \/ Alive(m)
            \/ pass.pc # "off" /\ m \in pass.mine
            \/ "skipped" \in fate[m]

ServedInv == TypeOK /\ IdsUnique /\ BatchSpooled /\ Resting /\ OwnersPast /\ Served

\* A turn of a gateway that serves ends with the row gone, or skips its message.
LEMMA EndsClean ==
    ASSUME TypeOK, Resting, [Next]_vars, faults' = 0, phase \in ServingPhases,
           NEW k \in Msg, NEW s \in Slot, turn[s].msg = k, Ends(s)
    PROVE  ~row'[k].here \/ "skipped" \in fate'[k]
<1>1. CASE TurnCheck(s) /\ Happens(turn[s].msg, "skipped")
  BY <1>1 DEF Happens, TypeOK
<1>2. CASE TurnCancel(s) /\ ~Running
  <2>1. turn[s] = Idle
    BY <1>2 DEF Running, Resting, ServingPhases
  <2> QED BY <2>1, InboundAssumption DEF Idle
<1>3. CASE TurnMark(s) /\ Fails
  BY <1>3, FaultStep
<1>4. CASE TurnComplete(s)
  <2>1. row' = Complete(row, k)
    BY <1>4, FaultStep DEF TurnComplete
  <2> QED BY <2>1, RowTypes DEF Complete, Table
<1> QED BY <1>1, <1>2, <1>3, <1>4 DEF Ends

LEMMA ServedStep ==
    ASSUME ServedInv, [Next]_vars
    PROVE  Served'
<1> SUFFICES ASSUME phase' \in ServingPhases, faults' = 0, NEW k \in HeldBy(row', inst')
             PROVE  \/ AtChannel(k)' \/ Alive(k)'
                    \/ pass'.pc # "off" /\ k \in pass'.mine
                    \/ "skipped" \in fate'[k]
  BY DEF Served
<1> USE DEF ServedInv
<1>a. row \in Table /\ inst \in Nat /\ nextId \in Nat \ {0} /\ faults = 0 /\ ~Fails
  BY RowTypes, FaultStep
<1>b. k \in Msg /\ row'[k].here /\ row'[k].owner = inst'
  BY DEF HeldBy
<1>c. phase \in ServingPhases /\ inst' = inst /\ inst # Nobody /\ ~ProcessEnd
  <2>1. ASSUME Boot, inst' = inst + 1 PROVE FALSE
    <3>1. row'[k].owner = row[k].owner /\ row[k].owner <= inst /\ row[k].owner \in Nat
      BY <2>1, <1>b, RowTypes DEF Boot, disk, OwnersPast
    <3> QED BY <2>1, <3>1, <1>a, <1>b
  <2>2. phase \in ServingPhases /\ inst' = inst /\ ~ProcessEnd
    BY <2>1, PhaseStep DEF ServingPhases, ProcessEnd
  <2> QED BY <2>2 DEF OwnersPast, ServingPhases
<1>1. CASE ChannelEnqueue(k)
  BY <1>1, <1>b DEF ChannelEnqueue, AtChannel, TypeOK
<1>2. CASE PassClaim /\ k \in NextBatch(row) /\ pass'.batch = NextBatch(row)
  BY <1>2, PassClaimDoes
<1>3. CASE row'[k].owner = row[k].owner /\ ~ChannelEnqueue(k)
  <2>1. k \in HeldBy(row, inst)
    BY <1>3, <1>b, <1>c, IdsStay DEF HeldBy
  <2>2. CASE AtChannel(k)
    <3>1. ASSUME ChannelRelease(k) PROVE FALSE
      <4>1. row' = ReleaseIDs(row, {k}, inst)
        BY <3>1, <1>a DEF ChannelRelease
      <4> QED BY <4>1, <1>a, <1>b, <1>c, <2>1, ReleaseIDsClaims DEF HeldBy
    <3>2. bus' = Append(bus, k) => Alive(k)'
      <4>1. bus \in Seq(Msg) => In(Append(bus, k), k)
        BY <1>b, AppendIn
      <4>2. In(bus', k) => OnBus(k)'
        BY DEF In, OnBus
      <4> QED BY <4>1, <4>2 DEF Alive, TypeOK
    <3> QED BY <2>2, <3>1, <3>2, <1>b, <1>c, ChChange DEF AtChannel
  <2>3. CASE Alive(k)
    <3>1. ASSUME NEW s \in Slot, turn[s].msg = k, Ends(s) PROVE "skipped" \in fate'[k]
      BY <3>1, <1>b, <1>c, EndsClean
    <3> QED BY <2>3, <3>1, <1>b, <1>c, AliveLost
  <2>4. CASE pass.pc # "off" /\ k \in pass.mine
    <3>1. ~PassRelease
      <4> SUFFICES ASSUME PassRelease PROVE FALSE
        OBVIOUS
      <4>1. row' = ReleaseIDs(row, pass.mine, inst)
        BY <1>a DEF PassRelease
      <4> QED BY <4>1, <1>a, <1>b, <1>c, <2>1, <2>4, ReleaseIDsClaims DEF HeldBy
    <3>2. ~DrainReclaim /\ ~PumpTick
      BY <2>4 DEF DrainReclaim, PumpTick, Resting
    <3>3. ASSUME PassClaim PROVE pass'.pc # "off" /\ pass.mine \subseteq pass'.mine
      BY <3>3, PassClaimDoes
    <3>4. ASSUME NEW m \in pass.batch, PassRow(m) PROVE pass'.pc # "off" /\ pass'.mine = pass.mine
      BY <3>4, PassRowDoes
    <3> QED BY <2>4, <3>1, <3>2, <3>3, <3>4, <1>c, PassSteps
  <2>5. CASE "skipped" \in fate[k]
    BY <2>5, <1>b, FateGrows
  <2> QED BY <2>1, <2>2, <2>3, <2>4, <2>5, <1>a, <1>c DEF Served
<1> QED BY <1>b, <1>c, <1>1, <1>2, <1>3, OwnerStep

\* While the gateway is up and no database call has failed, every row claimed
\* by its process has a channel, a bus entry, a turn or a pass that will finish
\* or release it, or was skipped as a duplicate: the claim is not one that
\* the pump would never see again.
THEOREM ClaimsHaveWorkers == Spec => []ClaimHasWorker
<1>1. Init => ServedInv
  <2> SUFFICES ASSUME Init PROVE ServedInv
    OBVIOUS
  <2>1. Served
    BY DEF Served, Init, HeldBy, NoRow
  <2> QED BY <2>1, CopyInit DEF CopyInv, ServedInv
<1>2. ServedInv /\ [Next]_vars => ServedInv'
  BY TypeStep, IdsStep, BatchStep, RestingStep, OwnersPastStep, ServedStep DEF ServedInv
<1>3. ServedInv => ClaimHasWorker
  BY DEF ServedInv, Served, ClaimHasWorker, ServingPhases, AtChannel, Alive
<1> QED BY <1>1, <1>2, <1>3, PTL DEF Spec
=============================================================================
