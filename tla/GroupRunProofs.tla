--------------------------- MODULE GroupRunProofs ---------------------------
(***************************************************************************)
(* Proofs about GroupRun, for any groups, any teams and any number of      *)
(* restarts.                                                               *)
(***************************************************************************)
EXTENDS GroupRun, FiniteSetTheorems, WellFoundedInduction, TLAPS

GroupState == [status : {"none", "running"} \cup Terminal, turns : Seq(Turn)]
Entry == [tracked : BOOLEAN, prof : Profile, state : GroupState, next : Nat,
          cancelled : BOOLEAN, done : BOOLEAN]
Started == [speaker : Agent, layer : Nat, index : Nat]
Loop == [pc : {"unused", "gone"} \cup Starting \cup Working, batch : SUBSET Nat,
         parallel : BOOLEAN, layer : Nat, active : SUBSET Started,
         failed : BOOLEAN, out : {"none"} \cup Terminal]

-----------------------------------------------------------------------------
(* Who speaks next *)

LEMMA FirstPlace ==
    ASSUME NEW S \in SUBSET Nat, S # {}
    PROVE  First(S) \in S
  <1>1. PICK i \in S : \A j \in S : ~(<<j, i>> \in OpToRel(<, Nat))
    BY NatLessThanWellFounded, WFMin
  <1>2. \A j \in S : i <= j
    <2> SUFFICES ASSUME NEW j \in S PROVE i <= j
      OBVIOUS
    <2>1. ~(j < i)
      BY <1>1 DEF OpToRel
    <2> QED
      BY <2>1
  <1> QED
    BY <1>2 DEF First

LEMMA ProfileFields ==
    ASSUME NEW p \in Profile
    PROVE  /\ p.team \in Seq(Agent) /\ p.team # <<>>
           /\ DOMAIN p.team = 1 .. Len(p.team) /\ Len(p.team) \in Nat \ {0}
           /\ \A i \in DOMAIN p.team : p.team[i] \in Agent
           /\ p.maxTurns \in Nat \ {0} /\ p.rounds \in Nat
           /\ p.parallel \in BOOLEAN /\ p.stops \in BOOLEAN
  <1>1. /\ p.team \in Seq(Agent) /\ p.team # <<>>
        /\ p.maxTurns \in Nat \ {0} /\ p.rounds \in Nat
        /\ p.parallel \in BOOLEAN /\ p.stops \in BOOLEAN
    BY GroupAssumption
  <1> QED
    BY <1>1

\* The aggregator is of the team.
LEMMA AggregatorPlaced ==
    ASSUME NEW p \in Profile
    PROVE  \E i \in DOMAIN p.team : p.team[i] = MoAAggregator(p)
  <1> DEFINE agg == {i \in DOMAIN p.team : p.team[i] \in p.aggregators}
  <1>1. CASE p.moderator # NoAgent
    <2>1. p.moderator \in {p.team[i] : i \in DOMAIN p.team} \cup {NoAgent}
      BY GroupAssumption
    <2>2. MoAAggregator(p) = p.moderator
      BY <1>1 DEF MoAAggregator
    <2> QED
      BY <1>1, <2>1, <2>2
  <1>2. CASE p.moderator = NoAgent /\ agg = {}
    <2>1. MoAAggregator(p) = p.team[1]
      BY <1>2 DEF MoAAggregator
    <2> QED
      BY <2>1, ProfileFields
  <1>3. CASE p.moderator = NoAgent /\ agg # {}
    <2>1. MoAAggregator(p) = p.team[First(agg)]
      BY <1>3 DEF MoAAggregator
    <2>2. agg \subseteq DOMAIN p.team /\ agg \in SUBSET Nat
      BY ProfileFields
    <2>3. First(agg) \in agg
      BY <1>3, <2>2, FirstPlace
    <2> QED
      BY <2>1, <2>2, <2>3
  <1> QED
    BY <1>1, <1>2, <1>3

\* Among Len(turns) + 1 layers there is one without a word of a given speaker.
LEMMA OpenLayer ==
    ASSUME NEW turns \in Seq(Turn), NEW a
    PROVE  \E l \in 0 .. Len(turns) : ~SpokeIn(turns, a, l)
  <1> SUFFICES ASSUME \A l \in 0 .. Len(turns) : SpokeIn(turns, a, l) PROVE FALSE
    OBVIOUS
  <1> DEFINE n == Len(turns)
             at == [l \in 0 .. n |-> CHOOSE i \in 1 .. n : turns[i].layer = l]
  <1>1. n \in Nat /\ DOMAIN turns = 1 .. n
    OBVIOUS
  <1>2. \A l \in 0 .. n : at[l] \in 1 .. n /\ turns[at[l]].layer = l
    BY <1>1 DEF SpokeIn
  <1>3. at \in [0 .. n -> 1 .. n]
    BY <1>2
  <1> HIDE DEF at, n
  <1>4. /\ IsFiniteSet(0 .. n) /\ Cardinality(0 .. n) = n + 1
        /\ IsFiniteSet(1 .. n) /\ Cardinality(1 .. n) = n
    <2>1. Cardinality(0 .. n) = IF 0 > n THEN 0 ELSE n - 0 + 1
      BY <1>1, FS_Interval
    <2>2. Cardinality(1 .. n) = IF 1 > n THEN 0 ELSE n - 1 + 1
      BY <1>1, FS_Interval
    <2> QED
      BY <1>1, <2>1, <2>2, FS_Interval
  <1>5. \E x, y \in 0 .. n : x # y /\ at[x] = at[y]
    <2>1. Cardinality(1 .. n) < Cardinality(0 .. n)
      BY <1>1, <1>4
    <2> QED
      BY <1>3, <1>4, <2>1, FS_PigeonHole
  <1> QED
    BY <1>2, <1>5

LEMMA LayerIsNat ==
    ASSUME NEW p, NEW turns \in Seq(Turn)
    PROVE  MoACurrentLayer(p, turns) \in Nat /\ Layer(p, turns) \in Nat
  <1> DEFINE open == {l \in 0 .. Len(turns) : ~SpokeIn(turns, MoAAggregator(p), l)}
  <1>1. open \in SUBSET Nat /\ open # {}
    BY OpenLayer
  <1>2. First(open) \in open
    BY <1>1, FirstPlace
  <1>3. MoACurrentLayer(p, turns) = First(open)
    BY DEF MoACurrentLayer, First
  <1> QED
    BY <1>1, <1>2, <1>3 DEF Layer

LEMMA ProposersPlaced ==
    ASSUME NEW p \in Profile
    PROVE  MoAProposers(p) \subseteq DOMAIN p.team
  BY DEF MoAProposers

LEMMA Remainder == \A m \in Nat : \A n \in Nat \ {0} : m % n \in 0 .. (n - 1)
  OBVIOUS

\* The next batch is of the team, and within the width of the profile.
LEMMA SpeakersPlaced ==
    ASSUME NEW p \in Profile, NEW turns \in Seq(Turn)
    PROVE  /\ NextSpeakers(p, turns) \subseteq DOMAIN p.team
           /\ IsFiniteSet(NextSpeakers(p, turns))
           /\ Cardinality(NextSpeakers(p, turns)) <= Width(p)
           /\ Width(p) \in Nat \ {0}
  <1> DEFINE speakers == NextSpeakers(p, turns)
             proposers == MoAProposers(p)
             left == {i \in proposers : ~SpokeIn(turns, p.team[i], MoACurrentLayer(p, turns))}
             own == {i \in DOMAIN p.team : p.team[i] = MoAAggregator(p)}
  <1>1. IsFiniteSet(proposers) /\ Cardinality(proposers) \in Nat
    <2>1. IsFiniteSet(1 .. Len(p.team))
      BY ProfileFields, FS_Interval
    <2> QED
      BY <2>1, ProfileFields, ProposersPlaced, FS_Subset, FS_CardinalityType
  <1>2. Width(p) \in Nat \ {0}
    BY <1>1, FS_EmptySet DEF Width
  <1>3. own \in SUBSET Nat /\ own # {} /\ First(own) \in own
    <2>1. own \in SUBSET Nat /\ own # {}
      BY ProfileFields, AggregatorPlaced
    <2> QED
      BY <2>1, FirstPlace
  <1>4. CASE speakers = {}
    BY <1>2, <1>4, FS_EmptySet
  <1>5. CASE p.strategy = "moa" /\ speakers = left /\ left # {}
    <2>1. IsFiniteSet(left) /\ Cardinality(left) <= Cardinality(proposers)
      BY <1>1, FS_Subset
    <2>2. Width(p) = Cardinality(proposers)
      BY <1>5 DEF Width
    <2> QED
      BY <1>2, <1>5, <2>1, <2>2, ProposersPlaced
  <1>6. CASE speakers = {First(own)}
    <2>1. IsFiniteSet({First(own)}) /\ Cardinality({First(own)}) = 1
      BY FS_Singleton
    <2> HIDE DEF own
    <2>2. First(own) \in DOMAIN p.team
      BY <1>3 DEF own
    <2> QED
      BY <1>2, <1>6, <2>1, <2>2
  <1>7. CASE speakers = {(Len(turns) % Len(p.team)) + 1}
    <2> DEFINE next == (Len(turns) % Len(p.team)) + 1
    <2>1. next \in 1 .. Len(p.team)
      <3> DEFINE m == Len(turns)
                 n == Len(p.team)
      <3>1. m \in Nat /\ n \in Nat \ {0}
        BY ProfileFields
      <3> HIDE DEF m, n
      <3>2. m % n \in 0 .. (n - 1)
        BY <3>1, Remainder
      <3>3. (m % n) + 1 \in 1 .. n
        BY <3>1, <3>2
      <3> QED
        BY <3>3 DEF m, n
    <2>2. IsFiniteSet({next}) /\ Cardinality({next}) = 1
      BY FS_Singleton
    <2>3. speakers = {next}
      BY <1>7
    <2> HIDE DEF next
    <2> QED
      BY <1>2, <2>1, <2>2, <2>3, ProfileFields
  <1>8. \/ speakers = {}
        \/ p.strategy = "moa" /\ speakers = left /\ left # {}
        \/ speakers = {First(own)}
        \/ speakers = {(Len(turns) % Len(p.team)) + 1}
    BY DEF NextSpeakers, MoANext
  <1> QED
    BY <1>4, <1>5, <1>6, <1>7, <1>8

-----------------------------------------------------------------------------
(* Types *)

\* Where a group stands: it has a batch and turns in flight only between
\* LoopTop and BatchEnd, its transcript and its row are empty until its loop
\* runs, and it runs only while the process lives and tracks it.
Placed(g) ==
    /\ run[g].pc \in {"finish", "marked", "kept", "told", "closed"} => run[g].out \in Terminal
    /\ run[g].batch \subseteq DOMAIN mem[g].prof.team
    /\ run[g].pc # "batch" => run[g].batch = {} /\ run[g].active = {}
    /\ run[g].pc \in Starting \cup {"unused"} => TurnsOf(g) = <<>>
    /\ run[g].pc = "unused" => store[g] = NoState /\ told[g] = <<>>
    /\ run[g].pc \in Starting \cup Working => Alive
    /\ run[g].pc \in (Starting \cup Working) \ {"closed"} => mem[g].tracked
    /\ ~Alive => ~mem[g].tracked
    /\ g \in expired => run[g].pc \in {"closed", "gone"}
    /\ mem[g].done => run[g].pc \in {"closed", "gone"}

PlaceInv == TypeOK /\ \A g \in Group : Placed(g)

LEMMA NoStateType == NoState \in State /\ NoState.turns = <<>> /\ NoState.status = "none"
  BY DEF NoState, State

LEMMA UntrackedType ==
    /\ Untracked \in [tracked : BOOLEAN, prof : Profile, state : State, next : Nat,
                      cancelled : BOOLEAN, done : BOOLEAN]
    /\ Untracked.tracked = FALSE /\ Untracked.state = NoState /\ Untracked.next = 0
    /\ Untracked.cancelled = FALSE /\ Untracked.done = FALSE
  BY GroupAssumption, NoStateType DEF Untracked

LEMMA NoRunType ==
    /\ NoRun \in Loop /\ NoRun.pc = "unused" /\ NoRun.batch = {} /\ NoRun.active = {}
    /\ NoRun.failed = FALSE /\ NoRun.out = "none"
  BY DEF NoRun, Loop

LEMMA NoReaderType ==
    NoReader \in [busy : BOOLEAN, seen : [Group -> {"none", "running"} \cup Terminal],
                  ended : SUBSET Group, shown : [Group -> {"none", "running"} \cup Terminal]]
  BY DEF NoReader

LEMMA PlaceInit == Init => PlaceInv
  <1> SUFFICES ASSUME Init PROVE PlaceInv
    OBVIOUS
  <1>1. MemType /\ RunType
    BY UntrackedType, NoRunType DEF Init, MemType, RunType, Loop, Started
  <1>2. TypeOK
    BY <1>1, GroupAssumption, NoStateType, NoReaderType DEF Init, TypeOK
  <1> QED
    BY <1>2, UntrackedType, NoStateType, NoRunType DEF Init, PlaceInv, Placed, TurnsOf, Starting, Working, Alive

\* What a step of group g leaves alone.
Others(g) ==
    /\ \A h \in Group \ {g} : /\ mem'[h] = mem[h] /\ run'[h] = run[h]
                             /\ store'[h] = store[h] /\ told'[h] = told[h]
    /\ UNCHANGED <<stage, boots, expired, drain, reader, missed>>

LEMMA RunStepLocal ==
    ASSUME TypeOK, NEW g \in Group, RunStep(g)
    PROVE  Others(g)
  <1> USE DEF TypeOK, MemType, RunType, Others
  <1>1. CASE Announce(g)
    BY <1>1 DEF Announce
  <1>2. CASE SaveStarted(g)
    BY <1>2 DEF SaveStarted, Save
  <1>3. CASE Launch(g)
    BY <1>3 DEF Launch
  <1>4. CASE LoopTop(g)
    BY <1>4 DEF LoopTop, Finish
  <1>5. CASE BatchEnd(g)
    BY <1>5 DEF BatchEnd, Finish
  <1>6. CASE \E i \in run[g].batch : TurnBegin(g, i)
    BY <1>6 DEF TurnBegin, Begun
  <1>7. CASE \E t \in run[g].active : (\E stop \in BOOLEAN : TurnEnd(g, t, stop)) \/ TurnFail(g, t) \/ TurnPanic(g, t)
    BY <1>7 DEF TurnEnd, TurnFail, TurnPanic, Finish
  <1>8. CASE FinalMark(g) \/ FinalSave(g) \/ FinalStatus(g) \/ FinalComplete(g) \/ LastSave(g)
    BY <1>8 DEF FinalMark, FinalSave, FinalStatus, FinalComplete, LastSave, Save
  <1> QED
    BY <1>1, <1>2, <1>3, <1>4, <1>5, <1>6, <1>7, <1>8 DEF RunStep

Words == {"started", "complete"} \cup Terminal

\* Steps of one group, in terms of the four variables they change.
LEMMA LocalType ==
    ASSUME TypeOK, NEW g \in Group, Others(g),
           mem' \in [Group -> Entry], run' \in [Group -> Loop],
           store' \in [Group -> State], told' \in [Group -> Seq(Words)]
    PROVE  TypeOK'
  BY DEF TypeOK, MemType, RunType, Others, Entry, Loop, Started, GroupState, Words, State

LEMMA TypesBefore ==
    ASSUME TypeOK
    PROVE  /\ mem \in [Group -> Entry] /\ run \in [Group -> Loop]
           /\ store \in [Group -> State] /\ told \in [Group -> Seq(Words)]
  BY DEF TypeOK, MemType, RunType, Entry, Loop, Started, GroupState, Words, State

LEMMA SaveType ==
    ASSUME TypeOK, NEW g \in Group, Save(g)
    PROVE  /\ store' \in [Group -> State]
           /\ store'[g] \in {store[g], mem[g].state}
           /\ stage # "closed" => store'[g] = mem[g].state
  BY DEF TypeOK, MemType, Save

LEMMA FinishType ==
    ASSUME TypeOK, NEW g \in Group, NEW out \in Terminal, Finish(g, out)
    PROVE  /\ run' \in [Group -> Loop]
           /\ run'[g].pc = "finish" /\ run'[g].out = out
           /\ run'[g].batch = {} /\ run'[g].active = {}
  BY NoRunType, TypesBefore DEF Finish, Loop, Working

\* A group's place in its run is the only thing that moves.
LEMMA GotoType ==
    ASSUME TypeOK, NEW g \in Group, NEW pc \in {"unused", "gone"} \cup Starting \cup Working,
           run' = [run EXCEPT ![g].pc = pc]
    PROVE  /\ run' \in [Group -> Loop]
           /\ run'[g].pc = pc /\ run'[g].out = run[g].out
           /\ run'[g].batch = run[g].batch /\ run'[g].active = run[g].active
  BY TypesBefore DEF Loop

LEMMA LoopTopType ==
    ASSUME PlaceInv, NEW g \in Group, LoopTop(g)
    PROVE  /\ run' \in [Group -> Loop]
           /\ \/ /\ run'[g].pc = "finish" /\ run'[g].batch = {} /\ run'[g].active = {}
                 /\ run'[g].out \in Terminal
              \/ /\ run'[g].pc = "batch" /\ run'[g].active = {} /\ run'[g].batch # {}
                 /\ run'[g].batch = NextSpeakers(mem[g].prof, TurnsOf(g))
  <1> DEFINE p == mem[g].prof
             speakers == NextSpeakers(p, mem[g].state.turns)
  <1>1. p \in Profile /\ mem[g].state.turns \in Seq(Turn)
    BY TypesBefore DEF PlaceInv, Entry, GroupState
  <1>2. speakers \in SUBSET Nat /\ Layer(p, mem[g].state.turns) \in Nat /\ p.parallel \in BOOLEAN
    BY <1>1, SpeakersPlaced, LayerIsNat, ProfileFields
  <1>3. run[g].active = {}
    BY DEF PlaceInv, Placed, LoopTop
  <1>4. ASSUME NEW out \in {"stopped", "done"}, Finish(g, out)
        PROVE  /\ run' \in [Group -> Loop] /\ run'[g].pc = "finish" /\ run'[g].batch = {}
               /\ run'[g].active = {} /\ run'[g].out \in Terminal
    BY <1>4, FinishType DEF PlaceInv, Terminal
  <1> DEFINE lay == Layer(p, mem[g].state.turns)
             par == p.parallel /\ Cardinality(speakers) > 1
             new == [run[g] EXCEPT !.pc = "batch", !.batch = speakers,
                                   !.layer = lay, !.parallel = par]
  <1>5. CASE speakers # {} /\ run' = [run EXCEPT ![g] = new]
    <2>1. run \in [Group -> Loop] /\ par \in BOOLEAN
      BY <1>2, TypesBefore DEF PlaceInv
    <2>2. new \in Loop /\ new.pc = "batch" /\ new.batch = speakers /\ new.active = run[g].active
      <3>1. run[g] \in Loop
        BY <2>1
      <3>2. par \in BOOLEAN /\ speakers \in SUBSET Nat /\ lay \in Nat
        BY <1>2, <2>1
      <3> HIDE DEF speakers, par, lay
      <3> QED
        BY <3>1, <3>2 DEF Loop, Working
    <2> HIDE DEF new
    <2>3. run' \in [Group -> Loop] /\ run'[g] = new
      BY <1>5, <2>1, <2>2
    <2> QED
      BY <1>3, <1>5, <2>2, <2>3 DEF TurnsOf
  <1> QED
    BY <1>4, <1>5 DEF LoopTop

LEMMA TurnBeginType ==
    ASSUME PlaceInv, NEW g \in Group, NEW i \in run[g].batch, TurnBegin(g, i)
    PROVE  /\ mem' \in [Group -> Entry] /\ run' \in [Group -> Loop]
           /\ mem'[g] = [mem[g] EXCEPT !.next = mem'[g].next]
           /\ run'[g].pc = "batch" /\ run[g].pc = "batch"
           /\ run'[g].batch = run[g].batch \ {i}
           /\ \E t \in Started :
                 /\ run'[g].active = run[g].active \cup {t}
                 /\ t.index >= mem[g].next /\ t.index >= Len(TurnsOf(g))
                 /\ mem'[g].next = t.index + 1
  <1> DEFINE turns == mem[g].state.turns
             base  == IF mem[g].next < Len(turns) THEN Len(turns) ELSE mem[g].next
             t == [speaker |-> mem[g].prof.team[i], layer |-> run[g].layer, index |-> base]
  <1>1. mem[g] \in Entry /\ run[g] \in Loop /\ mem \in [Group -> Entry] /\ run \in [Group -> Loop]
    BY TypesBefore DEF PlaceInv
  <1>2. Len(turns) \in Nat /\ mem[g].next \in Nat
    BY <1>1 DEF Entry, GroupState
  <1>3. base \in Nat /\ base >= mem[g].next /\ base >= Len(turns)
    BY <1>2
  <1>4. mem' = [mem EXCEPT ![g].next = base + 1] /\ run[g].pc = "batch"
    BY DEF TurnBegin, MayBegin
  <1>5. run' = [run EXCEPT ![g].batch = @ \ {i}, ![g].active = @ \cup {t}]
    BY DEF TurnBegin, Begun
  <1>6. t \in Started /\ t.index = base
    <2>1. i \in DOMAIN mem[g].prof.team /\ mem[g].prof \in Profile
      BY <1>1 DEF PlaceInv, Placed, Entry
    <2>2. mem[g].prof.team[i] \in Agent
      BY <2>1, ProfileFields
    <2>3. run[g].layer \in Nat
      BY <1>1 DEF Loop
    <2>4. \A a \in Agent, l \in Nat, b \in Nat : [speaker |-> a, layer |-> l, index |-> b] \in Started
      BY DEF Started
    <2> HIDE DEF base
    <2> QED
      BY <1>3, <2>2, <2>3, <2>4
  <1> HIDE DEF t, base
  <1>7. mem' \in [Group -> Entry] /\ mem'[g] = [mem[g] EXCEPT !.next = base + 1] /\ mem'[g].next = base + 1
    BY <1>1, <1>3, <1>4 DEF Entry
  <1>8. run' \in [Group -> Loop]
    BY <1>1, <1>5, <1>6 DEF Loop
  <1>9. run'[g].pc = "batch" /\ run'[g].batch = run[g].batch \ {i} /\ run'[g].active = run[g].active \cup {t}
    BY <1>1, <1>4, <1>5 DEF Loop
  <1> QED
    BY <1>3, <1>4, <1>6, <1>7, <1>8, <1>9 DEF TurnsOf

LEMMA TurnEndType ==
    ASSUME TypeOK, NEW g \in Group, NEW t \in run[g].active, NEW stop \in BOOLEAN, TurnEnd(g, t, stop)
    PROVE  /\ mem' \in [Group -> Entry] /\ run' \in [Group -> Loop]
           /\ mem'[g].prof = mem[g].prof /\ mem'[g].tracked = mem[g].tracked /\ mem'[g].next = mem[g].next
           /\ mem'[g].cancelled = mem[g].cancelled
           /\ \E turn \in Turn : TurnsOf(g)' = Append(TurnsOf(g), turn) /\ turn.index = t.index
           /\ run'[g].active = run[g].active \ {t} /\ run'[g].batch = run[g].batch /\ run'[g].pc = run[g].pc
  <1> DEFINE turn == [speaker |-> t.speaker, layer |-> t.layer, index |-> t.index, stop |-> stop]
  <1>1. mem[g] \in Entry /\ run[g] \in Loop /\ mem \in [Group -> Entry] /\ run \in [Group -> Loop]
    BY TypesBefore
  <1>2. turn \in Turn /\ turn.index = t.index
    BY <1>1 DEF Loop, Started, Turn
  <1>3. mem' = [mem EXCEPT ![g].state.turns = Append(@, turn)] /\ run' = [run EXCEPT ![g].active = @ \ {t}]
    BY DEF TurnEnd
  <1> HIDE DEF turn
  <1>4. Append(mem[g].state.turns, turn) \in Seq(Turn)
    BY <1>1, <1>2 DEF Entry, GroupState
  <1>5. mem' \in [Group -> Entry]
    BY <1>1, <1>3, <1>4 DEF Entry, GroupState
  <1>6. run' \in [Group -> Loop]
    BY <1>1, <1>3 DEF Loop
  <1>7. /\ mem'[g].prof = mem[g].prof /\ mem'[g].tracked = mem[g].tracked /\ mem'[g].next = mem[g].next
        /\ mem'[g].cancelled = mem[g].cancelled
        /\ TurnsOf(g)' = Append(TurnsOf(g), turn)
    BY <1>1, <1>3 DEF Entry, GroupState, TurnsOf
  <1>8. /\ run'[g].active = run[g].active \ {t} /\ run'[g].batch = run[g].batch /\ run'[g].pc = run[g].pc
    BY <1>1, <1>3 DEF Loop
  <1> QED
    BY <1>2, <1>5, <1>6, <1>7, <1>8

LEMMA BatchEndType ==
    ASSUME TypeOK, NEW g \in Group, BatchEnd(g)
    PROVE  /\ run' \in [Group -> Loop]
           /\ run'[g].batch = {} /\ run'[g].active = {} /\ run[g].active = {} /\ run[g].pc = "batch"
           /\ \/ run'[g].pc = "top"
              \/ run'[g].pc = "finish" /\ run'[g].out \in Terminal
  <1>1. run[g].active = {} /\ run[g].pc = "batch"
    BY DEF BatchEnd, BatchOver
  <1>2. ASSUME NEW out \in {"stopped", "error"}, Finish(g, out)
        PROVE  /\ run' \in [Group -> Loop] /\ run'[g].batch = {} /\ run'[g].active = {}
               /\ run'[g].pc = "finish" /\ run'[g].out \in Terminal
    BY <1>2, FinishType DEF Terminal
  <1>3. CASE run' = [run EXCEPT ![g] = [NoRun EXCEPT !.pc = "top"]]
    <2> DEFINE r == [NoRun EXCEPT !.pc = "top"]
    <2>1. r \in Loop /\ r.pc = "top" /\ r.batch = {} /\ r.active = {}
      BY NoRunType DEF Loop, Working
    <2> HIDE DEF r
    <2>2. run \in [Group -> Loop] /\ run' = [run EXCEPT ![g] = r]
      BY <1>3, TypesBefore DEF r
    <2> QED
      BY <1>1, <2>1, <2>2
  <1> QED
    BY <1>1, <1>2, <1>3 DEF BatchEnd

LEMMA TurnLostType ==
    ASSUME TypeOK, NEW g \in Group, NEW t \in run[g].active, TurnFail(g, t) \/ TurnPanic(g, t)
    PROVE  /\ run' \in [Group -> Loop]
           /\ run'[g].active \subseteq run[g].active \ {t} /\ run'[g].batch \subseteq run[g].batch
           /\ \/ run'[g].pc = run[g].pc
              \/ /\ run'[g].pc = "finish" /\ run'[g].out \in Terminal
                 /\ run'[g].active = {} /\ run'[g].batch = {}
  <1>1. CASE TurnFail(g, t)
    <2>1. run[g] \in Loop /\ run \in [Group -> Loop]
      BY TypesBefore
    <2> DEFINE r == [run[g] EXCEPT !.active = run[g].active \ {t}, !.failed = TRUE]
    <2>2. run' = [run EXCEPT ![g] = r]
      BY <1>1, <2>1 DEF TurnFail
    <2>3. r \in Loop /\ r.active = run[g].active \ {t} /\ r.batch = run[g].batch /\ r.pc = run[g].pc
      BY <2>1 DEF Loop
    <2> HIDE DEF r
    <2> QED
      BY <2>1, <2>2, <2>3
  <1>2. CASE TurnPanic(g, t)
    BY <1>2, FinishType DEF TurnPanic, Terminal
  <1> QED
    BY <1>1, <1>2

\* The transcript and what Swept keeps of an entry.
LEMMA SweptType ==
    ASSUME TypeOK
    PROVE  /\ Swept(mem) \in [Group -> Entry]
           /\ \A g \in Group : \/ Swept(mem)[g] = mem[g]
                               \/ g \in expired /\ Swept(mem)[g] = [mem[g] EXCEPT !.tracked = FALSE]
  <1>1. \A h \in Group : mem[h] \in Entry /\ [mem[h] EXCEPT !.tracked = FALSE] \in Entry
    BY TypesBefore DEF Entry
  <1> QED
    BY <1>1 DEF Swept

LEMMA RunStepType == ASSUME PlaceInv, NEW g \in Group, RunStep(g) PROVE TypeOK'
  <1>1. Others(g)
    BY RunStepLocal DEF PlaceInv
  <1>2. TypeOK
    BY DEF PlaceInv
  <1>3. /\ mem \in [Group -> Entry] /\ run \in [Group -> Loop]
        /\ store \in [Group -> State] /\ told \in [Group -> Seq(Words)]
    BY <1>2, TypesBefore
  <1> SUFFICES /\ mem' \in [Group -> Entry] /\ run' \in [Group -> Loop]
               /\ store' \in [Group -> State] /\ told' \in [Group -> Seq(Words)]
    BY <1>1, <1>2, LocalType
  <1>4. CASE Announce(g)
    <2>1. Append(told[g], "started") \in Seq(Words)
      BY <1>3 DEF Words
    <2> QED
      BY <1>2, <1>3, <1>4, <2>1, GotoType DEF Announce, Starting
  <1>5. CASE SaveStarted(g)
    BY <1>2, <1>3, <1>5, GotoType, SaveType DEF SaveStarted, Starting
  <1>6. CASE Launch(g)
    BY <1>2, <1>3, <1>6, GotoType DEF Launch, Working
  <1>7. CASE LoopTop(g)
    <2>1. run' \in [Group -> Loop]
      BY <1>7, LoopTopType
    <2> QED
      BY <1>3, <1>7, <2>1 DEF LoopTop
  <1>8. CASE BatchEnd(g)
    <2>1. run' \in [Group -> Loop]
      BY <1>2, <1>3, <1>8, BatchEndType
    <2> QED
      BY <1>3, <1>8, <2>1 DEF BatchEnd
  <1>9. ASSUME NEW i \in run[g].batch, TurnBegin(g, i)
        PROVE  mem' \in [Group -> Entry] /\ run' \in [Group -> Loop] /\ store' = store /\ told' = told
    <2>1. mem' \in [Group -> Entry] /\ run' \in [Group -> Loop]
      BY <1>9, TurnBeginType
    <2> QED
      BY <1>9, <2>1 DEF TurnBegin
  <1>10. ASSUME NEW t \in run[g].active, NEW stop \in BOOLEAN, TurnEnd(g, t, stop)
         PROVE  mem' \in [Group -> Entry] /\ run' \in [Group -> Loop] /\ store' = store /\ told' = told
    <2>1. mem' \in [Group -> Entry] /\ run' \in [Group -> Loop]
      BY <1>2, <1>10, TurnEndType
    <2> QED
      BY <1>10, <2>1 DEF TurnEnd
  <1>11. ASSUME NEW t \in run[g].active, TurnFail(g, t) \/ TurnPanic(g, t)
         PROVE  mem' \in [Group -> Entry] /\ run' \in [Group -> Loop] /\ store' = store /\ told' = told
    <2>1. run' \in [Group -> Loop]
      BY <1>2, <1>11, TurnLostType
    <2> QED
      BY <1>3, <1>11, <2>1 DEF TurnFail, TurnPanic
  <1>12. CASE FinalMark(g)
    <2>1. run[g].out \in {"none", "running"} \cup Terminal
      BY <1>3 DEF Loop
    <2>2. mem' \in [Group -> Entry]
      <3>1. mem[g] \in Entry /\ mem[g].state \in GroupState /\ mem \in [Group -> Entry]
        BY <1>3 DEF Entry
      <3>2. [mem[g].state EXCEPT !.status = run[g].out] \in GroupState
        BY <2>1, <3>1 DEF GroupState
      <3>3. [mem[g] EXCEPT !.state.status = run[g].out] \in Entry
        BY <3>1, <3>2 DEF Entry
      <3> QED
        BY <1>12, <3>1, <3>3 DEF FinalMark
    <2>3. /\ run' \in [Group -> Loop]
          /\ run'[g].out = run[g].out /\ run'[g].batch = run[g].batch /\ run'[g].active = run[g].active
      BY <1>2, <1>12, GotoType DEF FinalMark, Working
    <2>4. store' = store /\ told' = told
      BY <1>12 DEF FinalMark
    <2> QED
      BY <1>3, <2>2, <2>3, <2>4
  <1>13. CASE FinalSave(g)
    BY <1>2, <1>3, <1>13, GotoType, SaveType DEF FinalSave, Working
  <1>14. CASE FinalStatus(g)
    <2>1. run[g].out \in Terminal
      BY <1>14 DEF FinalStatus, PlaceInv, Placed
    <2>2. Append(told[g], run[g].out) \in Seq(Words)
      BY <1>3, <2>1 DEF Words
    <2> QED
      BY <1>2, <1>3, <1>14, <2>2, GotoType DEF FinalStatus, Working
  <1>15. CASE FinalComplete(g)
    <2>1. Append(told[g], "complete") \in Seq(Words)
      BY <1>3 DEF Words
    <2>2. mem' \in [Group -> Entry]
      BY <1>3, <1>15 DEF FinalComplete, Entry
    <2> QED
      BY <1>2, <1>3, <1>15, <2>1, <2>2, GotoType DEF FinalComplete, Working
  <1>16. CASE LastSave(g)
    BY <1>2, <1>3, <1>16, NoRunType, SaveType DEF LastSave, Loop
  <1> QED
    BY <1>3, <1>4, <1>5, <1>6, <1>7, <1>8, <1>9, <1>10, <1>11, <1>12, <1>13, <1>14, <1>15, <1>16
    DEF RunStep

LEMMA PlacedFrame ==
    ASSUME NEW h \in Group, Placed(h), mem'[h] = mem[h], run'[h] = run[h],
           store'[h] = store[h], told'[h] = told[h], stage' = stage, expired' = expired
    PROVE  Placed(h)'
  BY DEF Placed, TurnsOf, Alive

\* A group at work is placed if it is tracked and its batch is of its team.
LEMMA PlacedAtWork ==
    ASSUME NEW g \in Group, Placed(g), TypeOK, Others(g),
           run[g].pc \in Starting \cup Working, run'[g].pc \in Working \cup {"gone"},
           mem'[g].tracked = mem[g].tracked, mem'[g].prof = mem[g].prof,
           run'[g].batch \subseteq DOMAIN mem[g].prof.team,
           run'[g].pc # "batch" => run'[g].batch = {} /\ run'[g].active = {},
           run'[g].pc \in {"finish", "marked", "kept", "told", "closed"} => run'[g].out \in Terminal,
           mem'[g].done \/ run[g].pc = "closed" => run'[g].pc \in {"closed", "gone"}
    PROVE  Placed(g)'
  BY DEF Placed, Others, Starting, Working, Alive

\* No step of its goroutine but the last of finalize closes a group's done.
LEMMA RunStepDone ==
    ASSUME PlaceInv, NEW g \in Group, RunStep(g)
    PROVE  mem'[g].done \/ run[g].pc = "closed" => run'[g].pc \in {"closed", "gone"}
  <1>1. /\ TypeOK /\ Placed(g) /\ mem \in [Group -> Entry] /\ run \in [Group -> Loop]
    BY TypesBefore DEF PlaceInv
  <1>2. CASE LastSave(g)
    BY <1>1, <1>2, NoRunType DEF LastSave, Loop
  <1>3. CASE FinalComplete(g)
    BY <1>1, <1>3, GotoType DEF FinalComplete, Working
  <1>4. ASSUME run[g].pc # "closed", run[g].pc # "gone", mem'[g].done = mem[g].done
        PROVE  mem'[g].done \/ run[g].pc = "closed" => run'[g].pc \in {"closed", "gone"}
    BY <1>1, <1>4 DEF Placed
  <1>5. CASE Announce(g) \/ SaveStarted(g) \/ Launch(g) \/ LoopTop(g) \/ BatchEnd(g)
             \/ FinalSave(g) \/ FinalStatus(g)
    BY <1>4, <1>5 DEF Announce, SaveStarted, Launch, LoopTop, BatchEnd, FinalSave, FinalStatus
  <1>6. CASE FinalMark(g)
    BY <1>1, <1>4, <1>6 DEF FinalMark, Entry
  <1>7. ASSUME NEW i \in run[g].batch, TurnBegin(g, i)
        PROVE  mem'[g].done \/ run[g].pc = "closed" => run'[g].pc \in {"closed", "gone"}
    <2>1. mem'[g] = [mem[g] EXCEPT !.next = mem'[g].next] /\ run[g].pc = "batch"
      BY <1>7, TurnBeginType
    <2>2. mem'[g].done = mem[g].done
      BY <1>1, <2>1 DEF Entry
    <2> QED
      BY <1>4, <2>1, <2>2
  <1>8. ASSUME NEW t \in run[g].active
        PROVE  /\ (\E stop \in BOOLEAN : TurnEnd(g, t, stop)) => mem'[g].done = mem[g].done
               /\ TurnFail(g, t) \/ TurnPanic(g, t) => mem'[g].done = mem[g].done
               /\ run[g].pc = "batch"
    BY <1>1 DEF TurnEnd, TurnFail, TurnPanic, Placed, Entry
  <1> QED
    BY <1>2, <1>3, <1>4, <1>5, <1>6, <1>7, <1>8 DEF RunStep

LEMMA RunStepPlaced == ASSUME PlaceInv, NEW g \in Group, RunStep(g) PROVE Placed(g)'
  <1>1. Others(g) /\ Placed(g) /\ TypeOK
    BY RunStepLocal DEF PlaceInv
  <1>2. /\ mem \in [Group -> Entry] /\ run \in [Group -> Loop] /\ told \in [Group -> Seq(Words)]
        /\ mem[g].prof \in Profile /\ TurnsOf(g) \in Seq(Turn)
    BY <1>1, TypesBefore DEF Entry, GroupState, TurnsOf
  <1>d. mem'[g].done \/ run[g].pc = "closed" => run'[g].pc \in {"closed", "gone"}
    BY RunStepDone
  <1>3. CASE Announce(g)
    <2>1. run'[g].pc = "announced" /\ run'[g].batch = run[g].batch /\ run'[g].active = run[g].active
      BY <1>1, <1>3, GotoType DEF Announce, Starting
    <2> QED
      BY <1>1, <1>3, <2>1, <1>d DEF Announce, Placed, Starting, Working, Others, TurnsOf, Alive
  <1>4. CASE SaveStarted(g)
    <2>1. run'[g].pc = "saved" /\ run'[g].batch = run[g].batch /\ run'[g].active = run[g].active
      BY <1>1, <1>4, GotoType DEF SaveStarted, Starting
    <2> QED
      BY <1>1, <1>4, <2>1, <1>d DEF SaveStarted, Placed, Starting, Working, Others, TurnsOf, Alive
  <1>5. CASE Launch(g)
    <2>1. run'[g].pc = "top" /\ run'[g].batch = run[g].batch /\ run'[g].active = run[g].active
      BY <1>1, <1>5, GotoType DEF Launch, Working
    <2> QED
      BY <1>1, <1>5, <2>1, <1>d DEF Launch, Placed, Starting, Working, Others, TurnsOf, Alive
  <1>6. CASE LoopTop(g)
    <2>1. \/ run'[g].pc = "finish" /\ run'[g].batch = {} /\ run'[g].active = {} /\ run'[g].out \in Terminal
          \/ run'[g].pc = "batch" /\ run'[g].batch \subseteq DOMAIN mem[g].prof.team
      BY <1>2, <1>6, LoopTopType, SpeakersPlaced
    <2> QED
      BY <1>1, <1>6, <2>1, <1>d, PlacedAtWork DEF LoopTop, Starting, Working
  <1>7. CASE BatchEnd(g)
    BY <1>1, <1>7, BatchEndType, <1>d, PlacedAtWork DEF BatchEnd, Working
  <1>8. ASSUME NEW i \in run[g].batch, TurnBegin(g, i) PROVE Placed(g)'
    <2>1. /\ mem'[g] = [mem[g] EXCEPT !.next = mem'[g].next] /\ run'[g].pc = "batch"
          /\ run[g].pc = "batch" /\ run'[g].batch = run[g].batch \ {i}
      BY <1>8, TurnBeginType
    <2>2. mem'[g].tracked = mem[g].tracked /\ mem'[g].prof = mem[g].prof
      BY <1>2, <2>1 DEF Entry
    <2> QED
      BY <1>1, <2>1, <2>2, <1>d, PlacedAtWork DEF Working, Placed
  <1>9. ASSUME NEW t \in run[g].active, NEW stop \in BOOLEAN, TurnEnd(g, t, stop) PROVE Placed(g)'
    <2>1. run[g].pc = "batch"
      BY <1>1 DEF Placed
    <2>2. /\ mem'[g].prof = mem[g].prof /\ mem'[g].tracked = mem[g].tracked
          /\ run'[g].batch = run[g].batch /\ run'[g].pc = run[g].pc
      BY <1>1, <1>9, TurnEndType
    <2> QED
      BY <1>1, <2>1, <2>2, <1>d, PlacedAtWork DEF Working, Placed
  <1>10. ASSUME NEW t \in run[g].active, TurnFail(g, t) \/ TurnPanic(g, t) PROVE Placed(g)'
    <2>1. run[g].pc = "batch" /\ mem' = mem
      BY <1>1, <1>10 DEF Placed, TurnFail, TurnPanic
    <2> QED
      BY <1>1, <1>10, <2>1, TurnLostType, <1>d, PlacedAtWork DEF Working, Placed
  <1>11. CASE FinalMark(g)
    <2>1. /\ run'[g].pc = "marked" /\ run'[g].batch = run[g].batch /\ run'[g].active = run[g].active
          /\ run'[g].out = run[g].out
      BY <1>1, <1>11, GotoType DEF FinalMark, Working
    <2>2. mem'[g].tracked = mem[g].tracked /\ mem'[g].prof = mem[g].prof
      BY <1>2, <1>11 DEF FinalMark, Entry
    <2> QED
      BY <1>1, <1>11, <2>1, <2>2, <1>d, PlacedAtWork DEF FinalMark, Working, Placed
  <1>12. CASE FinalSave(g)
    <2>1. /\ run'[g].pc = "kept" /\ run'[g].batch = run[g].batch /\ run'[g].active = run[g].active
          /\ run'[g].out = run[g].out
      BY <1>1, <1>12, GotoType DEF FinalSave, Working
    <2> QED
      BY <1>1, <1>12, <2>1, <1>d, PlacedAtWork DEF FinalSave, Working, Placed
  <1>13. CASE FinalStatus(g)
    <2>1. /\ run'[g].pc = "told" /\ run'[g].batch = run[g].batch /\ run'[g].active = run[g].active
          /\ run'[g].out = run[g].out
      BY <1>1, <1>13, GotoType DEF FinalStatus, Working
    <2> QED
      BY <1>1, <1>13, <2>1, <1>d, PlacedAtWork DEF FinalStatus, Working, Placed
  <1>14. CASE FinalComplete(g)
    <2>1. /\ run'[g].pc = "closed" /\ run'[g].batch = run[g].batch /\ run'[g].active = run[g].active
          /\ run'[g].out = run[g].out
      BY <1>1, <1>14, GotoType DEF FinalComplete, Working
    <2>2. mem'[g].tracked = mem[g].tracked /\ mem'[g].prof = mem[g].prof
      BY <1>2, <1>14 DEF FinalComplete, Entry
    <2> QED
      BY <1>1, <1>14, <2>1, <2>2, <1>d, PlacedAtWork DEF FinalComplete, Working, Placed
  <1>15. CASE LastSave(g)
    <2>1. run'[g].pc = "gone" /\ run'[g].batch = {} /\ run'[g].active = {}
      BY <1>2, <1>15, NoRunType DEF LastSave, Loop
    <2> QED
      BY <1>1, <1>15, <2>1, <1>d, PlacedAtWork DEF LastSave, Working
  <1> QED
    BY <1>3, <1>4, <1>5, <1>6, <1>7, <1>8, <1>9, <1>10, <1>11, <1>12, <1>13, <1>14, <1>15 DEF RunStep

LEMMA BootPlace == ASSUME PlaceInv, Boot PROVE PlaceInv'
  <1> DEFINE Back(g) == [mem[g] EXCEPT !.tracked = TRUE, !.done = TRUE, !.state.turns = store[g].turns,
                            !.state.status = IF store[g].status \in Terminal THEN store[g].status
                                             ELSE "error"]
  <1>1. TypeOK /\ mem \in [Group -> Entry] /\ run \in [Group -> Loop] /\ store \in [Group -> State]
    BY TypesBefore DEF PlaceInv
  <1>2. \A g \in Group : Back(g) \in Entry /\ Back(g).prof = mem[g].prof
    <2> SUFFICES ASSUME NEW g \in Group PROVE Back(g) \in Entry /\ Back(g).prof = mem[g].prof
      OBVIOUS
    <2> DEFINE status == IF store[g].status \in Terminal THEN store[g].status ELSE "error"
    <2>1. mem[g] \in Entry /\ store[g].turns \in Seq(Turn) /\ status \in Terminal
      BY <1>1 DEF State, Terminal
    <2> DEFINE turns == store[g].turns
               state == [mem[g].state EXCEPT !.turns = turns, !.status = status]
    <2>2. Back(g) = [mem[g] EXCEPT !.tracked = TRUE, !.done = TRUE, !.state = state]
      BY <2>1 DEF Entry, GroupState
    <2>3. turns \in Seq(Turn) /\ status \in Terminal
      BY <2>1
    <2>4. state \in GroupState
      <3> HIDE DEF turns, status
      <3> QED
        BY <2>1, <2>3 DEF Entry, GroupState
    <2> HIDE DEF state, Back
    <2> QED
      BY <2>1, <2>2, <2>4 DEF Entry
  <1>3. \A g \in Group : mem'[g] = IF store[g].status = "none" THEN mem[g] ELSE Back(g)
    BY DEF Boot
  <1>4. mem' \in [Group -> Entry] /\ \A g \in Group : mem'[g].prof = mem[g].prof
    <2>1. mem' = [g \in Group |-> IF store[g].status = "none" THEN mem[g] ELSE Back(g)]
      BY DEF Boot
    <2> HIDE DEF Back
    <2> QED
      BY <1>1, <1>2, <2>1
  <1>5. TypeOK'
    <2>1. stage' = "up" /\ boots' \in 0 .. MaxBoots
      <3>1. boots \in 0 .. MaxBoots
        BY <1>1 DEF TypeOK
      <3>2. boots < MaxBoots /\ boots' = boots + 1 /\ stage' = "up"
        BY DEF Boot
      <3>3. MaxBoots \in Nat
        BY GroupAssumption
      <3> QED
        BY <3>1, <3>2, <3>3
    <2> QED
      BY <1>1, <1>4, <2>1 DEF Boot, TypeOK, MemType, RunType, Entry, GroupState, State
  <1>6. ASSUME NEW g \in Group PROVE Placed(g)'
    <2>1. Placed(g) /\ stage = "down" /\ stage' = "up" /\ run' = run /\ store' = store /\ told' = told
          /\ expired' = expired
      BY DEF PlaceInv, Boot
    <2>2. run[g].pc \in {"unused", "gone"}
      BY <1>1, <2>1 DEF Placed, Alive, Loop
    <2>3. run[g].pc = "unused" => mem'[g] = mem[g]
      BY <1>3, <2>1, NoStateType DEF Placed
    <2> HIDE DEF Back
    <2> QED
      BY <1>4, <2>1, <2>2, <2>3 DEF Placed, TurnsOf, Alive, Starting, Working
  <1> QED
    BY <1>5, <1>6 DEF PlaceInv

LEMMA ProcessEndPlace == ASSUME PlaceInv, ProcessEnd PROVE PlaceInv'
  <1>1. TypeOK /\ mem \in [Group -> Entry] /\ run \in [Group -> Loop] /\ store \in [Group -> State]
    BY TypesBefore DEF PlaceInv
  <1> DEFINE Blank(g) == [Untracked EXCEPT !.prof = mem[g].prof]
             Over(g) == IF run[g].pc = "unused" THEN NoRun ELSE [NoRun EXCEPT !.pc = "gone"]
  <1>2. \A g \in Group : /\ Blank(g) \in Entry /\ Blank(g).prof = mem[g].prof /\ ~Blank(g).tracked
                         /\ Blank(g).state = NoState /\ ~Blank(g).done
    BY <1>1, UntrackedType DEF Entry, GroupState, State
  <1>3. \A g \in Group : /\ Over(g) \in Loop /\ Over(g).batch = {} /\ Over(g).active = {}
                         /\ Over(g).pc = IF run[g].pc = "unused" THEN "unused" ELSE "gone"
    BY NoRunType DEF Loop
  <1>4. mem' = [g \in Group |-> Blank(g)] /\ run' = [g \in Group |-> Over(g)]
    BY DEF ProcessEnd
  <1> HIDE DEF Blank, Over
  <1>5. /\ mem' \in [Group -> Entry] /\ run' \in [Group -> Loop]
        /\ \A g \in Group : mem'[g] = Blank(g) /\ run'[g] = Over(g)
    BY <1>2, <1>3, <1>4
  <1>6. TypeOK'
    <2>1. stage' = "down"
      BY DEF ProcessEnd
    <2> QED
      BY <1>1, <1>5, <2>1, NoReaderType
      DEF ProcessEnd, TypeOK, MemType, RunType, Entry, GroupState, State, Loop, Started
  <1>7. ASSUME NEW g \in Group PROVE Placed(g)'
    <2>1. Placed(g) /\ stage' = "down" /\ expired' = {} /\ store' = store /\ told' = told
      BY DEF PlaceInv, ProcessEnd
    <2> QED
      BY <1>2, <1>3, <1>5, <2>1, NoStateType DEF Placed, TurnsOf, Alive, Starting, Working
  <1> QED
    BY <1>6, <1>7 DEF PlaceInv

LEMMA CancelRootPlace == ASSUME PlaceInv, CancelRoot PROVE PlaceInv'
  <1>1. TypeOK /\ mem \in [Group -> Entry]
    BY TypesBefore DEF PlaceInv
  <1> DEFINE Cut(g) == [mem[g] EXCEPT !.cancelled = TRUE]
  <1>2. \A g \in Group : /\ Cut(g) \in Entry /\ Cut(g).prof = mem[g].prof /\ Cut(g).tracked = mem[g].tracked
                         /\ Cut(g).state = mem[g].state /\ Cut(g).done = mem[g].done
    BY <1>1 DEF Entry
  <1>3. mem' = [g \in Group |-> Cut(g)]
    BY DEF CancelRoot
  <1> HIDE DEF Cut
  <1>4. mem' \in [Group -> Entry] /\ \A g \in Group : mem'[g] = Cut(g)
    BY <1>2, <1>3
  <1>5. TypeOK'
    BY <1>1, <1>4 DEF CancelRoot, TypeOK, MemType, RunType, Entry, GroupState, State
  <1>6. ASSUME NEW g \in Group PROVE Placed(g)'
    <2>1. Placed(g)
      BY DEF PlaceInv
    <2> QED
      BY <1>2, <1>4, <2>1 DEF CancelRoot, Placed, TurnsOf, Alive
  <1> QED
    BY <1>5, <1>6 DEF PlaceInv

LEMMA DrainPlace ==
    ASSUME PlaceInv, DrainCopy \/ CloseStore \/ DrainTimeout \/ \E g \in Group : DrainWait(g)
    PROVE  PlaceInv'
  <1>1. TypeOK'
    BY DEF PlaceInv, DrainCopy, CloseStore, DrainTimeout, DrainWait, TypeOK, MemType, RunType
  <1>2. ASSUME NEW g \in Group PROVE Placed(g)'
    BY DEF PlaceInv, DrainCopy, CloseStore, DrainTimeout, DrainWait, Placed, TurnsOf, Alive
  <1> QED
    BY <1>1, <1>2 DEF PlaceInv

\* A new entry: an empty transcript under the profile it was started with.
LEMMA RegisterEntry ==
    ASSUME TypeOK, NEW g \in Group, NEW p \in Profile, Register(g, p)
    PROVE  /\ mem' \in [Group -> Entry] /\ run' \in [Group -> Loop]
           /\ mem'[g].tracked /\ mem'[g].prof = p /\ TurnsOf(g)' = <<>> /\ mem'[g].next = 0
           /\ ~mem'[g].done
           /\ mem'[g].state.status = "running"
           /\ run'[g].pc = "registered" /\ run[g].pc = "unused" /\ run'[g].out = run[g].out
           /\ run'[g].batch = run[g].batch /\ run'[g].active = run[g].active
           /\ \A h \in Group \ {g} : /\ run'[h] = run[h]
                                     /\ \/ mem'[h] = mem[h]
                                        \/ h \in expired /\ mem'[h] = [mem[h] EXCEPT !.tracked = FALSE]
  <1> DEFINE new == [Untracked EXCEPT !.tracked = TRUE, !.prof = p, !.state.status = "running",
                                      !.cancelled = stage # "up"]
  <1>1. /\ new \in Entry /\ new.tracked /\ new.prof = p /\ new.state.turns = <<>> /\ new.next = 0
        /\ new.state.status = "running" /\ ~new.done
    BY UntrackedType, NoStateType DEF Entry, GroupState, State
  <1>2. mem' = [Swept(mem) EXCEPT ![g] = new] /\ run' = [run EXCEPT ![g].pc = "registered"]
    BY DEF Register
  <1> HIDE DEF new
  <1>3. mem' \in [Group -> Entry] /\ mem'[g] = new /\ \A h \in Group \ {g} : mem'[h] = Swept(mem)[h]
    BY <1>1, <1>2, SweptType
  <1>4. /\ run' \in [Group -> Loop] /\ run'[g].pc = "registered" /\ run'[g].out = run[g].out
        /\ run'[g].batch = run[g].batch /\ run'[g].active = run[g].active
        /\ \A h \in Group \ {g} : run'[h] = run[h]
    BY <1>2, GotoType, TypesBefore DEF Starting
  <1> QED
    BY <1>1, <1>3, <1>4, SweptType DEF Register, TurnsOf

LEMMA RegisterPlace == ASSUME PlaceInv, NEW g \in Group, NEW p \in Profile, Register(g, p) PROVE PlaceInv'
  <1>1. TypeOK
    BY DEF PlaceInv
  <1>2. TypeOK'
    <2>1. mem' \in [Group -> Entry] /\ run' \in [Group -> Loop]
      BY <1>1, RegisterEntry
    <2> QED
      BY <1>1, <2>1 DEF Register, TypeOK, MemType, RunType, Entry, GroupState, State, Loop, Started
  <1>3. Placed(g)'
    <2>1. /\ mem'[g].tracked /\ mem'[g].prof = p /\ TurnsOf(g)' = <<>> /\ ~mem'[g].done
          /\ run'[g].pc = "registered" /\ run[g].pc = "unused"
          /\ run'[g].batch = run[g].batch /\ run'[g].active = run[g].active
      BY <1>1, RegisterEntry
    <2>2. Placed(g) /\ Alive /\ stage' = stage /\ expired' = expired
      BY DEF PlaceInv, Register
    <2> QED
      BY <2>1, <2>2 DEF Placed, Starting, Working, Alive
  <1>4. ASSUME NEW h \in Group \ {g} PROVE Placed(h)'
    <2>1. Placed(h) /\ Alive /\ stage' = stage /\ expired' = expired /\ store' = store /\ told' = told
      BY DEF PlaceInv, Register
    <2>2. run'[h] = run[h] /\ (mem'[h] = mem[h] \/ (h \in expired /\ mem'[h] = [mem[h] EXCEPT !.tracked = FALSE]))
      BY <1>1, RegisterEntry
    <2>3. mem[h] \in Entry
      BY <1>1, TypesBefore
    <2>4. /\ mem'[h].prof = mem[h].prof /\ mem'[h].state = mem[h].state
          /\ mem'[h].done = mem[h].done
          /\ mem'[h].tracked = mem[h].tracked \/ h \in expired
      BY <2>2, <2>3 DEF Entry
    <2> QED
      BY <2>1, <2>2, <2>4 DEF Placed, TurnsOf, Alive, Starting, Working
  <1> QED
    BY <1>2, <1>3, <1>4 DEF PlaceInv

LEMMA StopPlace == ASSUME PlaceInv, NEW g \in Group, Stop(g) PROVE PlaceInv'
  <1>1. TypeOK /\ mem \in [Group -> Entry]
    BY TypesBefore DEF PlaceInv
  <1>2. mem' \in [Group -> Entry]
    BY <1>1 DEF Stop, Entry
  <1>3. \A h \in Group : /\ mem'[h].prof = mem[h].prof /\ mem'[h].tracked = mem[h].tracked
                         /\ mem'[h].state = mem[h].state /\ mem'[h].done = mem[h].done
    BY <1>1 DEF Stop, Entry
  <1>4. TypeOK'
    BY <1>1, <1>2 DEF Stop, TypeOK, MemType, RunType, Entry, GroupState, State
  <1>5. ASSUME NEW h \in Group PROVE Placed(h)'
    <2>1. Placed(h)
      BY DEF PlaceInv
    <2> QED
      BY <1>3, <2>1 DEF Stop, Placed, TurnsOf, Alive
  <1> QED
    BY <1>4, <1>5 DEF PlaceInv

LEMMA ExpirePlace == ASSUME PlaceInv, NEW g \in Group, Expire(g) PROVE PlaceInv'
  <1>1. TypeOK'
    BY DEF PlaceInv, Expire, TypeOK, MemType, RunType
  <1>2. ASSUME NEW h \in Group PROVE Placed(h)'
    BY DEF PlaceInv, Expire, Placed, TurnsOf, Alive
  <1> QED
    BY <1>1, <1>2 DEF PlaceInv

LEMMA ReadPlace == ASSUME PlaceInv, ReadMemory \/ ReadStore PROVE PlaceInv'
  <1>1. TypeOK /\ mem \in [Group -> Entry]
    BY TypesBefore DEF PlaceInv
  <1>2. CASE ReadMemory
    <2>1. mem' \in [Group -> Entry] /\ mem' = Swept(mem)
      BY <1>1, <1>2, SweptType DEF ReadMemory
    <2>2. \A h \in Group : mem'[h].state.status \in {"none", "running"} \cup Terminal
                           /\ mem[h].state.status \in {"none", "running"} \cup Terminal
      BY <1>1, <2>1 DEF Entry, GroupState
    <2> DEFINE seen == [h \in Group |-> IF mem'[h].tracked THEN mem[h].state.status ELSE "none"]
               over == {h \in Group : Ended(h)}
    <2>3. seen \in [Group -> {"none", "running"} \cup Terminal]
      BY <2>2
    <2>4. reader' = [NoReader EXCEPT !.busy = TRUE, !.seen = seen, !.ended = over]
      BY <1>2 DEF ReadMemory
    <2> HIDE DEF seen
    <2>5. reader' \in [busy : BOOLEAN, seen : [Group -> {"none", "running"} \cup Terminal],
                       ended : SUBSET Group, shown : [Group -> {"none", "running"} \cup Terminal]]
      BY <2>3, <2>4, NoReaderType
    <2>6. TypeOK'
      BY <1>1, <1>2, <2>1, <2>5 DEF ReadMemory, TypeOK, MemType, RunType, Entry, GroupState, State
    <2>7. ASSUME NEW h \in Group PROVE Placed(h)'
      <3>1. Placed(h) /\ Alive /\ stage' = stage /\ expired' = expired /\ store' = store /\ told' = told
            /\ run' = run
        BY <1>2 DEF PlaceInv, ReadMemory
      <3>2. mem'[h] = mem[h] \/ (h \in expired /\ mem'[h] = [mem[h] EXCEPT !.tracked = FALSE])
        BY <1>1, <2>1, SweptType
      <3>3. /\ mem'[h].prof = mem[h].prof /\ mem'[h].state = mem[h].state
            /\ mem'[h].done = mem[h].done
            /\ mem'[h].tracked = mem[h].tracked \/ h \in expired
        BY <1>1, <3>2 DEF Entry
      <3> QED
        BY <3>1, <3>3 DEF Placed, TurnsOf, Alive, Starting, Working
    <2> QED
      BY <2>6, <2>7 DEF PlaceInv
  <1>3. CASE ReadStore
    <2> DEFINE shown == [g \in Group |-> IF stage = "closed" THEN reader.seen[g]
                                         ELSE Shown(reader.seen[g], store[g])]
               over == IF stage = "closed" THEN {} ELSE reader.ended
    <2>1. shown \in [Group -> {"none", "running"} \cup Terminal] /\ over \in SUBSET Group
      BY <1>1 DEF TypeOK, State, Shown, Terminal
    <2>2. reader' = [NoReader EXCEPT !.shown = shown, !.ended = over]
      BY <1>3 DEF ReadStore
    <2> HIDE DEF shown, over
    <2>3. reader' \in [busy : BOOLEAN, seen : [Group -> {"none", "running"} \cup Terminal],
                       ended : SUBSET Group, shown : [Group -> {"none", "running"} \cup Terminal]]
      BY <2>1, <2>2, NoReaderType
    <2>4. TypeOK'
      BY <1>1, <1>3, <2>3 DEF ReadStore, TypeOK, MemType, RunType
    <2> QED
      BY <1>3, <2>4 DEF ReadStore, PlaceInv, Placed, TurnsOf, Alive
  <1> QED
    BY <1>2, <1>3

LEMMA PlaceNext == ASSUME PlaceInv, Next PROVE PlaceInv'
  <1>1. ASSUME NEW g \in Group, RunStep(g) PROVE PlaceInv'
    <2>1. TypeOK' /\ Placed(g)' /\ Others(g)
      BY <1>1, RunStepType, RunStepPlaced, RunStepLocal DEF PlaceInv
    <2>2. ASSUME NEW h \in Group \ {g} PROVE Placed(h)'
      BY <2>1, PlacedFrame DEF PlaceInv, Others
    <2> QED
      BY <2>1, <2>2 DEF PlaceInv
  <1> QED
    BY <1>1, BootPlace, ProcessEndPlace, CancelRootPlace, DrainPlace, RegisterPlace, StopPlace,
       ExpirePlace, ReadPlace
    DEF Next

LEMMA PlaceStep == PlaceInv /\ [Next]_vars => PlaceInv'
  <1>1. PlaceInv /\ UNCHANGED vars => PlaceInv'
    BY DEF vars, PlaceInv, Placed, TypeOK, MemType, RunType, TurnsOf, Alive
  <1> QED
    BY <1>1, PlaceNext

LEMMA PlacesHold == Spec => []PlaceInv
  BY PlaceInit, PlaceStep, PTL DEF Spec

\* Every variable keeps its type: the batch a strategy names is of the team,
\* and the layer a MoA panel is in exists.
THEOREM TypeCorrect == Spec => []TypeOK
  BY PlacesHold, PTL DEF PlaceInv

-----------------------------------------------------------------------------
(* Turn indexes, and the length of a transcript *)

Distinct(s) == \A i, j \in DOMAIN s : s[i].index = s[j].index => i = j

\* A reserved index is behind the counter, and no turn carries it yet.
Numbered(g) ==
    /\ Distinct(TurnsOf(g)) /\ Distinct(store[g].turns)
    /\ run[g].pc \in Starting \cup Working =>
          \A i \in DOMAIN TurnsOf(g) : TurnsOf(g)[i].index < mem[g].next
    /\ \A t \in run[g].active :
          /\ t.index < mem[g].next
          /\ \A i \in DOMAIN TurnsOf(g) : TurnsOf(g)[i].index # t.index
          /\ \A u \in run[g].active : u.index = t.index => u = t

\* The turns in flight and the ones that have yet to begin are counted too.
Bounded(g) ==
    LET cap == mem[g].prof.maxTurns + Width(mem[g].prof)
    IN  /\ Len(TurnsOf(g)) < cap /\ Len(store[g].turns) < cap
        /\ IsFiniteSet(run[g].active) /\ IsFiniteSet(run[g].batch)
        /\ run[g].pc = "batch" =>
              Len(TurnsOf(g)) + Cardinality(run[g].active) + Cardinality(run[g].batch) < cap

CountInv == PlaceInv /\ \A g \in Group : Numbered(g) /\ Bounded(g)

LEMMA CountInit == Init => CountInv
  <1> SUFFICES ASSUME Init PROVE CountInv
    OBVIOUS
  <1>1. PlaceInv
    BY PlaceInit
  <1>2. ASSUME NEW g \in Group PROVE Numbered(g) /\ Bounded(g)
    <2>1. /\ TurnsOf(g) = <<>> /\ store[g].turns = <<>> /\ run[g].active = {} /\ run[g].batch = {}
          /\ run[g].pc = "unused" /\ mem[g].prof \in Profile
      BY UntrackedType, NoStateType, NoRunType DEF Init, TurnsOf
    <2>2. mem[g].prof.maxTurns \in Nat \ {0} /\ Width(mem[g].prof) \in Nat \ {0}
      <3>1. <<>> \in Seq(Turn)
        OBVIOUS
      <3> QED
        BY <2>1, <3>1, ProfileFields, SpeakersPlaced
    <2> QED
      BY <2>1, <2>2, FS_EmptySet DEF Numbered, Bounded, Distinct, Starting, Working
  <1> QED
    BY <1>1, <1>2 DEF CountInv

\* No turn of g begins or ends.
Calm(g) ==
    /\ TurnsOf(g)' = TurnsOf(g) /\ mem'[g].prof = mem[g].prof /\ mem'[g].next = mem[g].next
    /\ run'[g].active \subseteq run[g].active /\ run'[g].batch \subseteq run[g].batch
    /\ run'[g].pc = "batch" => run[g].pc = "batch"
    /\ run'[g].pc \in Starting \cup Working => run[g].pc \in Starting \cup Working
    /\ store'[g].turns \in {store[g].turns, TurnsOf(g)}

LEMMA CapType ==
    ASSUME TypeOK, NEW g \in Group
    PROVE  /\ mem[g].prof.maxTurns + Width(mem[g].prof) \in Nat
           /\ mem[g].prof.maxTurns \in Nat \ {0} /\ Width(mem[g].prof) \in Nat \ {0}
           /\ TurnsOf(g) \in Seq(Turn) /\ Len(TurnsOf(g)) \in Nat /\ Len(store[g].turns) \in Nat
  <1>1. mem[g] \in Entry /\ store[g] \in State
    BY TypesBefore
  <1>2. mem[g].prof \in Profile /\ TurnsOf(g) \in Seq(Turn) /\ store[g].turns \in Seq(Turn)
    BY <1>1 DEF Entry, GroupState, State, TurnsOf
  <1>3. mem[g].prof.maxTurns \in Nat \ {0} /\ Width(mem[g].prof) \in Nat \ {0}
    BY <1>2, ProfileFields, SpeakersPlaced
  <1> QED
    BY <1>2, <1>3

LEMMA CalmCounts ==
    ASSUME CountInv, NEW g \in Group, Calm(g)
    PROVE  Numbered(g)' /\ Bounded(g)'
  <1>1. Numbered(g) /\ Bounded(g) /\ TypeOK
    BY DEF CountInv, PlaceInv
  <1>2. Numbered(g)'
    BY <1>1 DEF Numbered, Distinct, Calm
  <1>3. /\ IsFiniteSet(run'[g].active) /\ Cardinality(run'[g].active) <= Cardinality(run[g].active)
        /\ IsFiniteSet(run'[g].batch) /\ Cardinality(run'[g].batch) <= Cardinality(run[g].batch)
    BY <1>1, FS_Subset DEF Bounded, Calm
  <1>4. /\ Cardinality(run'[g].active) \in Nat /\ Cardinality(run[g].active) \in Nat
        /\ Cardinality(run'[g].batch) \in Nat /\ Cardinality(run[g].batch) \in Nat
    BY <1>1, <1>3, FS_CardinalityType DEF Bounded
  <1>5. Bounded(g)'
    <2> DEFINE cap == mem[g].prof.maxTurns + Width(mem[g].prof)
    <2>1. mem'[g].prof.maxTurns + Width(mem'[g].prof) = cap /\ cap \in Nat
      BY <1>1, CapType DEF Calm
    <2>2. Len(TurnsOf(g)') = Len(TurnsOf(g)) /\ Len(TurnsOf(g)) \in Nat
      BY <1>1, CapType DEF Calm
    <2>3. Len(TurnsOf(g)) < cap /\ Len(store'[g].turns) < cap
      BY <1>1 DEF Bounded, Calm
    <2>4. run'[g].pc = "batch" => Len(TurnsOf(g)) + Cardinality(run[g].active) + Cardinality(run[g].batch) < cap
      BY <1>1 DEF Bounded, Calm
    <2> HIDE DEF cap
    <2>5. run'[g].pc = "batch" => Len(TurnsOf(g)) + Cardinality(run'[g].active) + Cardinality(run'[g].batch) < cap
      BY <1>3, <1>4, <2>1, <2>2, <2>4
    <2> QED
      BY <1>3, <2>1, <2>2, <2>3, <2>5 DEF Bounded
  <1> QED
    BY <1>2, <1>5

LEMMA UnderTheCap ==
    ASSUME NEW p, NEW turns, NextSpeakers(p, turns) # {}
    PROVE  ~(Len(turns) >= p.maxTurns)
  BY DEF NextSpeakers, StopReason

LEMMA LoopTopCounts == ASSUME CountInv, NEW g \in Group, LoopTop(g) PROVE Numbered(g)' /\ Bounded(g)'
  <1>1. PlaceInv /\ TypeOK /\ Numbered(g) /\ Bounded(g) /\ mem' = mem /\ store' = store /\ run[g].pc = "top"
    BY DEF CountInv, PlaceInv, LoopTop
  <1>2. CASE run'[g].pc = "finish" /\ run'[g].batch = {} /\ run'[g].active = {}
    <2>1. Calm(g)
      BY <1>1, <1>2 DEF Calm, TurnsOf, Working
    <2> QED
      BY <2>1, CalmCounts
  <1>3. CASE /\ run'[g].pc = "batch" /\ run'[g].active = {} /\ run'[g].batch # {}
             /\ run'[g].batch = NextSpeakers(mem[g].prof, TurnsOf(g))
    <2> DEFINE p == mem[g].prof
    <2>1. p \in Profile /\ TurnsOf(g) \in Seq(Turn)
      BY <1>1, TypesBefore, CapType DEF Entry
    <2>2. Numbered(g)'
      BY <1>1, <1>3 DEF Numbered, TurnsOf, Working
    <2>3. Len(TurnsOf(g)) < p.maxTurns
      BY <1>1, <1>3, UnderTheCap, CapType
    <2>4. IsFiniteSet(run'[g].batch) /\ Cardinality(run'[g].batch) <= Width(p) /\ Cardinality(run'[g].batch) \in Nat
      BY <1>3, <2>1, SpeakersPlaced, FS_CardinalityType
    <2>5. IsFiniteSet(run'[g].active) /\ Cardinality(run'[g].active) = 0
      BY <1>3, FS_EmptySet
    <2>6. Len(TurnsOf(g)) + Cardinality(run'[g].active) + Cardinality(run'[g].batch) < p.maxTurns + Width(p)
      BY <1>1, <2>3, <2>4, <2>5, CapType
    <2>7. Bounded(g)'
      BY <1>1, <2>4, <2>5, <2>6 DEF Bounded, TurnsOf
    <2> QED
      BY <2>2, <2>7
  <1> QED
    BY <1>1, <1>2, <1>3, LoopTopType

LEMMA TurnBeginCounts ==
    ASSUME CountInv, NEW g \in Group, NEW i \in run[g].batch, TurnBegin(g, i)
    PROVE  Numbered(g)' /\ Bounded(g)'
  <1>1. PlaceInv /\ TypeOK /\ Numbered(g) /\ Bounded(g) /\ store' = store
    BY DEF CountInv, PlaceInv, TurnBegin
  <1>2. /\ mem'[g] = [mem[g] EXCEPT !.next = mem'[g].next]
        /\ run'[g].pc = "batch" /\ run[g].pc = "batch" /\ run'[g].batch = run[g].batch \ {i}
    BY <1>1, TurnBeginType
  <1>3. PICK t \in Started : /\ run'[g].active = run[g].active \cup {t}
                             /\ t.index >= mem[g].next /\ t.index >= Len(TurnsOf(g))
                             /\ mem'[g].next = t.index + 1
    BY <1>1, TurnBeginType
  <1>4. mem[g] \in Entry /\ run[g] \in Loop
    BY <1>1, TypesBefore
  <1>5. TurnsOf(g)' = TurnsOf(g) /\ mem'[g].prof = mem[g].prof /\ mem[g].next \in Nat /\ t.index \in Nat
    BY <1>2, <1>4 DEF Entry, TurnsOf, Started
  <1>6. \A k \in DOMAIN TurnsOf(g) : TurnsOf(g)[k].index \in Nat /\ TurnsOf(g)[k].index < mem[g].next
    <2>1. \A k \in DOMAIN TurnsOf(g) : TurnsOf(g)[k] \in Turn
      BY <1>1, CapType
    <2>2. \A k \in DOMAIN TurnsOf(g) : TurnsOf(g)[k].index < mem[g].next
      BY <1>1, <1>2 DEF Numbered, Working
    <2> QED
      BY <2>1, <2>2 DEF Turn
  <1>7. \A u \in run[g].active : u.index \in Nat /\ u.index < mem[g].next
    BY <1>1, <1>4 DEF Numbered, Loop, Started
  <1>8. Numbered(g)'
    BY <1>1, <1>3, <1>5, <1>6, <1>7 DEF Numbered, Distinct
  <1>9. /\ IsFiniteSet(run'[g].active) /\ Cardinality(run'[g].active) <= Cardinality(run[g].active) + 1
        /\ IsFiniteSet(run'[g].batch) /\ Cardinality(run'[g].batch) = Cardinality(run[g].batch) - 1
    <2>1. IsFiniteSet(run[g].active) /\ IsFiniteSet(run[g].batch)
      BY <1>1 DEF Bounded
    <2>2. Cardinality(run[g].active) \in Nat /\ Cardinality(run[g].batch) \in Nat
      BY <2>1, FS_CardinalityType
    <2>3. IsFiniteSet(run'[g].active) /\ Cardinality(run'[g].active) <= Cardinality(run[g].active) + 1
      <3>1. /\ IsFiniteSet(run[g].active \cup {t})
            /\ Cardinality(run[g].active \cup {t}) =
                  IF t \in run[g].active THEN Cardinality(run[g].active) ELSE Cardinality(run[g].active) + 1
        BY <2>1, FS_AddElement
      <3> QED
        BY <1>3, <2>2, <3>1
    <2>4. IsFiniteSet(run'[g].batch) /\ Cardinality(run'[g].batch) = Cardinality(run[g].batch) - 1
      <3>1. /\ IsFiniteSet(run[g].batch \ {i})
            /\ Cardinality(run[g].batch \ {i}) =
                  IF i \in run[g].batch THEN Cardinality(run[g].batch) - 1 ELSE Cardinality(run[g].batch)
        BY <2>1, FS_RemoveElement
      <3> QED
        BY <1>2, <3>1
    <2> QED
      BY <2>3, <2>4
  <1>10. /\ Cardinality(run[g].active) \in Nat /\ Cardinality(run[g].batch) \in Nat
         /\ Cardinality(run'[g].active) \in Nat /\ Cardinality(run'[g].batch) \in Nat
    BY <1>1, <1>9, FS_CardinalityType DEF Bounded
  <1>11. Bounded(g)'
    <2> DEFINE cap == mem[g].prof.maxTurns + Width(mem[g].prof)
    <2>1. cap \in Nat /\ Len(TurnsOf(g)) \in Nat
      BY <1>1, CapType
    <2>2. Len(TurnsOf(g)) + Cardinality(run[g].active) + Cardinality(run[g].batch) < cap
      BY <1>1, <1>2 DEF Bounded
    <2> HIDE DEF cap
    <2>3. Len(TurnsOf(g)) + Cardinality(run'[g].active) + Cardinality(run'[g].batch) < cap
      BY <1>9, <1>10, <2>1, <2>2
    <2> QED
      BY <1>1, <1>5, <1>9, <2>3 DEF Bounded, cap
  <1> QED
    BY <1>8, <1>11

LEMMA TurnEndCounts ==
    ASSUME CountInv, NEW g \in Group, NEW t \in run[g].active, NEW stop \in BOOLEAN, TurnEnd(g, t, stop)
    PROVE  Numbered(g)' /\ Bounded(g)'
  <1>1. PlaceInv /\ TypeOK /\ Numbered(g) /\ Bounded(g) /\ Placed(g) /\ store' = store
    BY DEF CountInv, PlaceInv, TurnEnd
  <1>2. /\ mem'[g].prof = mem[g].prof /\ mem'[g].next = mem[g].next
        /\ run'[g].active = run[g].active \ {t} /\ run'[g].batch = run[g].batch /\ run'[g].pc = run[g].pc
    BY <1>1, TurnEndType
  <1>3. PICK turn \in Turn : TurnsOf(g)' = Append(TurnsOf(g), turn) /\ turn.index = t.index
    BY <1>1, TurnEndType
  <1>4. run[g].pc = "batch" /\ TurnsOf(g) \in Seq(Turn) /\ Len(TurnsOf(g)) \in Nat
    BY <1>1, CapType DEF Placed
  <1>5. /\ Len(TurnsOf(g)') = Len(TurnsOf(g)) + 1 /\ DOMAIN TurnsOf(g) = 1 .. Len(TurnsOf(g))
        /\ DOMAIN TurnsOf(g)' = 1 .. (Len(TurnsOf(g)) + 1)
        /\ TurnsOf(g)'[Len(TurnsOf(g)) + 1] = turn
        /\ \A k \in 1 .. Len(TurnsOf(g)) : TurnsOf(g)'[k] = TurnsOf(g)[k]
    BY <1>3, <1>4
  <1>6. Distinct(TurnsOf(g)')
    <2>1. Distinct(TurnsOf(g)) /\ \A k \in DOMAIN TurnsOf(g) : TurnsOf(g)[k].index # t.index
      BY <1>1 DEF Numbered
    <2> QED
      BY <1>3, <1>4, <1>5, <2>1 DEF Distinct
  <1>7. \A k \in DOMAIN TurnsOf(g)' : TurnsOf(g)'[k].index < mem[g].next
    BY <1>1, <1>3, <1>4, <1>5 DEF Numbered, Working
  <1>8. \A u \in run[g].active \ {t} : \A k \in DOMAIN TurnsOf(g)' : TurnsOf(g)'[k].index # u.index
    BY <1>1, <1>3, <1>4, <1>5 DEF Numbered
  <1>9. Numbered(g)'
    BY <1>1, <1>2, <1>6, <1>7, <1>8 DEF Numbered
  <1>10. /\ IsFiniteSet(run'[g].active) /\ Cardinality(run'[g].active) = Cardinality(run[g].active) - 1
         /\ Cardinality(run[g].active) \in Nat /\ Cardinality(run[g].batch) \in Nat
    <2>1. IsFiniteSet(run[g].active) /\ IsFiniteSet(run[g].batch)
      BY <1>1 DEF Bounded
    <2>2. Cardinality(run[g].active) \in Nat /\ Cardinality(run[g].batch) \in Nat
      BY <2>1, FS_CardinalityType
    <2>3. /\ IsFiniteSet(run[g].active \ {t})
          /\ Cardinality(run[g].active \ {t}) =
                IF t \in run[g].active THEN Cardinality(run[g].active) - 1 ELSE Cardinality(run[g].active)
      BY <2>1, FS_RemoveElement
    <2> QED
      BY <1>2, <2>2, <2>3
  <1>11. Bounded(g)'
    <2> DEFINE cap == mem[g].prof.maxTurns + Width(mem[g].prof)
    <2>1. cap \in Nat
      BY <1>1, CapType
    <2>2. Len(TurnsOf(g)) + Cardinality(run[g].active) + Cardinality(run[g].batch) < cap
      BY <1>1, <1>4 DEF Bounded
    <2>3. Cardinality(run'[g].active) \in Nat
      BY <1>10, FS_CardinalityType
    <2> HIDE DEF cap
    <2>4. /\ Len(TurnsOf(g)') + Cardinality(run'[g].active) + Cardinality(run'[g].batch) < cap
          /\ Len(TurnsOf(g)') < cap
      BY <1>2, <1>4, <1>5, <1>10, <2>1, <2>2, <2>3
    <2> QED
      BY <1>1, <1>2, <1>10, <2>4 DEF Bounded, cap
  <1> QED
    BY <1>9, <1>11

\* The other steps of a group neither begin nor end a turn.
LEMMA OtherStepsCalm ==
    ASSUME PlaceInv, NEW g \in Group,
           \/ Announce(g) \/ SaveStarted(g) \/ Launch(g) \/ BatchEnd(g)
           \/ \E t \in run[g].active : TurnFail(g, t) \/ TurnPanic(g, t)
           \/ FinalMark(g) \/ FinalSave(g) \/ FinalStatus(g) \/ FinalComplete(g) \/ LastSave(g)
    PROVE  Calm(g)
  <1>1. TypeOK /\ Placed(g)
    BY DEF PlaceInv
  <1>2. mem \in [Group -> Entry] /\ run \in [Group -> Loop]
    BY <1>1, TypesBefore
  <1>3. ASSUME Save(g) PROVE store'[g].turns \in {store[g].turns, TurnsOf(g)}
    BY <1>1, <1>3, SaveType DEF TurnsOf
  <1>4. CASE Announce(g)
    <2>1. run'[g].pc = "announced" /\ run'[g].batch = run[g].batch /\ run'[g].active = run[g].active
      BY <1>1, <1>4, GotoType DEF Announce, Starting
    <2> QED
      BY <1>4, <2>1 DEF Announce, Calm, TurnsOf, Starting
  <1>5. CASE SaveStarted(g)
    <2>1. run'[g].pc = "saved" /\ run'[g].batch = run[g].batch /\ run'[g].active = run[g].active
      BY <1>1, <1>5, GotoType DEF SaveStarted, Starting
    <2> QED
      BY <1>3, <1>5, <2>1 DEF SaveStarted, Calm, TurnsOf, Starting
  <1>6. CASE Launch(g)
    <2>1. run'[g].pc = "top" /\ run'[g].batch = run[g].batch /\ run'[g].active = run[g].active
      BY <1>1, <1>6, GotoType DEF Launch, Working
    <2> QED
      BY <1>6, <2>1 DEF Launch, Calm, TurnsOf, Starting, Working
  <1>7. CASE BatchEnd(g)
    BY <1>1, <1>7, BatchEndType DEF BatchEnd, Calm, TurnsOf, Working
  <1>8. ASSUME NEW t \in run[g].active, TurnFail(g, t) \/ TurnPanic(g, t) PROVE Calm(g)
    <2>1. run[g].pc = "batch" /\ mem' = mem /\ store' = store
      BY <1>1, <1>8 DEF Placed, TurnFail, TurnPanic
    <2> QED
      BY <1>1, <1>8, <2>1, TurnLostType DEF Calm, TurnsOf, Working
  <1>9. CASE FinalMark(g)
    <2>1. run'[g].pc = "marked" /\ run'[g].batch = run[g].batch /\ run'[g].active = run[g].active
      BY <1>1, <1>9, GotoType DEF FinalMark, Working
    <2>2. TurnsOf(g)' = TurnsOf(g) /\ mem'[g].prof = mem[g].prof /\ mem'[g].next = mem[g].next
      BY <1>2, <1>9 DEF FinalMark, TurnsOf, Entry, GroupState
    <2> QED
      BY <1>9, <2>1, <2>2 DEF FinalMark, Calm, Working
  <1>10. CASE FinalSave(g)
    <2>1. run'[g].pc = "kept" /\ run'[g].batch = run[g].batch /\ run'[g].active = run[g].active
      BY <1>1, <1>10, GotoType DEF FinalSave, Working
    <2> QED
      BY <1>3, <1>10, <2>1 DEF FinalSave, Calm, TurnsOf, Working
  <1>11. CASE FinalStatus(g)
    <2>1. run'[g].pc = "told" /\ run'[g].batch = run[g].batch /\ run'[g].active = run[g].active
      BY <1>1, <1>11, GotoType DEF FinalStatus, Working
    <2> QED
      BY <1>11, <2>1 DEF FinalStatus, Calm, TurnsOf, Working
  <1>12. CASE FinalComplete(g)
    <2>1. run'[g].pc = "closed" /\ run'[g].batch = run[g].batch /\ run'[g].active = run[g].active
      BY <1>1, <1>12, GotoType DEF FinalComplete, Working
    <2>2. TurnsOf(g)' = TurnsOf(g) /\ mem'[g].prof = mem[g].prof /\ mem'[g].next = mem[g].next
      BY <1>2, <1>12 DEF FinalComplete, TurnsOf, Entry
    <2> QED
      BY <1>12, <2>1, <2>2 DEF FinalComplete, Calm, Working
  <1>13. CASE LastSave(g)
    <2>1. run'[g].pc = "gone" /\ run'[g].batch = {} /\ run'[g].active = {}
      BY <1>2, <1>13, NoRunType DEF LastSave, Loop
    <2> QED
      BY <1>3, <1>13, <2>1 DEF LastSave, Calm, TurnsOf, Starting, Working
  <1> QED
    BY <1>4, <1>5, <1>6, <1>7, <1>8, <1>9, <1>10, <1>11, <1>12, <1>13

LEMMA RunStepCounts == ASSUME CountInv, NEW g \in Group, RunStep(g) PROVE Numbered(g)' /\ Bounded(g)'
  <1>1. PlaceInv
    BY DEF CountInv
  <1>2. CASE LoopTop(g)
    BY <1>2, LoopTopCounts
  <1>3. ASSUME NEW i \in run[g].batch, TurnBegin(g, i) PROVE Numbered(g)' /\ Bounded(g)'
    BY <1>3, TurnBeginCounts
  <1>4. ASSUME NEW t \in run[g].active, NEW stop \in BOOLEAN, TurnEnd(g, t, stop)
        PROVE  Numbered(g)' /\ Bounded(g)'
    BY <1>4, TurnEndCounts
  <1>5. CASE \/ Announce(g) \/ SaveStarted(g) \/ Launch(g) \/ BatchEnd(g)
             \/ \E t \in run[g].active : TurnFail(g, t) \/ TurnPanic(g, t)
             \/ FinalMark(g) \/ FinalSave(g) \/ FinalStatus(g) \/ FinalComplete(g) \/ LastSave(g)
    BY <1>1, <1>5, OtherStepsCalm, CalmCounts
  <1> QED
    BY <1>2, <1>3, <1>4, <1>5 DEF RunStep

LEMMA OthersCalm == ASSUME NEW g \in Group, Others(g), NEW h \in Group \ {g} PROVE Calm(h)
  BY DEF Others, Calm, TurnsOf

\* A fresh or rehydrated transcript is numbered and bounded while no loop runs.
LEMMA RestingCounts ==
    ASSUME TypeOK', NEW g \in Group, run'[g].pc \notin Working, run'[g].active = {}, run'[g].batch = {},
           mem'[g].prof \in Profile,
           Distinct(TurnsOf(g)') /\ Distinct(store'[g].turns),
           run'[g].pc \in Starting => TurnsOf(g)' = <<>>,
           LET cap == mem'[g].prof.maxTurns + Width(mem'[g].prof)
           IN  Len(TurnsOf(g)') < cap /\ Len(store'[g].turns) < cap
    PROVE  Numbered(g)' /\ Bounded(g)'
  BY FS_EmptySet DEF Numbered, Bounded, Working

LEMMA BootCounts == ASSUME CountInv, Boot, NEW g \in Group PROVE Numbered(g)' /\ Bounded(g)'
  <1>1. PlaceInv /\ TypeOK /\ Placed(g) /\ Numbered(g) /\ Bounded(g) /\ run' = run /\ store' = store
        /\ stage = "down"
    BY DEF CountInv, PlaceInv, Boot
  <1>2. mem[g] \in Entry
    BY <1>1, TypesBefore
  <1>3. mem'[g].prof = mem[g].prof /\ TurnsOf(g)' \in {TurnsOf(g), store[g].turns}
    BY <1>2 DEF Boot, Entry, GroupState, TurnsOf
  <1>4. run[g].pc \notin Starting \cup Working /\ run[g].active = {} /\ run[g].batch = {}
    BY <1>1 DEF Placed, Alive, Working
  <1>5. TypeOK'
    BY <1>1, BootPlace DEF PlaceInv
  <1>6. Distinct(TurnsOf(g)') /\ Distinct(store'[g].turns)
    BY <1>1, <1>3 DEF Numbered
  <1>7. LET cap == mem'[g].prof.maxTurns + Width(mem'[g].prof)
        IN  Len(TurnsOf(g)') < cap /\ Len(store'[g].turns) < cap
    BY <1>1, <1>3 DEF Bounded
  <1>8. mem'[g].prof \in Profile
    BY <1>2, <1>3 DEF Entry
  <1> QED
    BY <1>1, <1>4, <1>5, <1>6, <1>7, <1>8, RestingCounts

LEMMA EmptyTranscript ==
    /\ Distinct(<<>>) /\ Len(<<>>) = 0
    /\ \A p \in Profile : 0 < p.maxTurns + Width(p)
  <1>1. \A p \in Profile : p.maxTurns \in Nat \ {0} /\ Width(p) \in Nat \ {0}
    <2>1. <<>> \in Seq(Turn)
      OBVIOUS
    <2> QED
      BY <2>1, ProfileFields, SpeakersPlaced
  <1> QED
    BY <1>1 DEF Distinct

LEMMA ProcessEndCounts == ASSUME CountInv, ProcessEnd, NEW g \in Group PROVE Numbered(g)' /\ Bounded(g)'
  <1>1. PlaceInv /\ TypeOK /\ Numbered(g) /\ Bounded(g) /\ store' = store
    BY DEF CountInv, PlaceInv, ProcessEnd
  <1>2. mem[g] \in Entry
    BY <1>1, TypesBefore
  <1>3. mem'[g].prof = mem[g].prof /\ TurnsOf(g)' = <<>> /\ mem[g].prof \in Profile
    BY <1>2, UntrackedType, NoStateType DEF ProcessEnd, Entry, TurnsOf
  <1>4. run'[g].pc \notin Starting \cup Working /\ run'[g].active = {} /\ run'[g].batch = {}
    BY NoRunType DEF ProcessEnd, Loop, Starting, Working
  <1>5. TypeOK'
    BY <1>1, ProcessEndPlace DEF PlaceInv
  <1>6. LET cap == mem'[g].prof.maxTurns + Width(mem'[g].prof)
        IN  Len(TurnsOf(g)') < cap /\ Len(store'[g].turns) < cap
    BY <1>1, <1>3, EmptyTranscript DEF Bounded
  <1>7. Distinct(TurnsOf(g)') /\ Distinct(store'[g].turns)
    BY <1>1, <1>3, EmptyTranscript DEF Numbered
  <1> QED
    BY <1>3, <1>4, <1>5, <1>6, <1>7, RestingCounts

LEMMA RegisterCounts ==
    ASSUME CountInv, NEW g \in Group, NEW p \in Profile, Register(g, p), NEW h \in Group
    PROVE  Numbered(h)' /\ Bounded(h)'
  <1>1. PlaceInv /\ TypeOK /\ Placed(g) /\ store' = store
    BY DEF CountInv, PlaceInv, Register
  <1>2. CASE h = g
    <2>1. /\ mem'[g].prof = p /\ TurnsOf(g)' = <<>>
          /\ run'[g].pc = "registered" /\ run[g].pc = "unused"
          /\ run'[g].batch = run[g].batch /\ run'[g].active = run[g].active
      BY <1>1, RegisterEntry
    <2>2. run[g].batch = {} /\ run[g].active = {} /\ store[g].turns = <<>>
      BY <1>1, <2>1, NoStateType DEF Placed
    <2>3. TypeOK'
      BY <1>1, RegisterPlace DEF PlaceInv
    <2> QED
      BY <1>1, <1>2, <2>1, <2>2, <2>3, EmptyTranscript, RestingCounts DEF Working
  <1>3. CASE h # g
    <2>1. run'[h] = run[h] /\ (mem'[h] = mem[h] \/ (h \in expired /\ mem'[h] = [mem[h] EXCEPT !.tracked = FALSE]))
      BY <1>1, <1>3, RegisterEntry
    <2>2. mem[h] \in Entry
      BY <1>1, TypesBefore
    <2>3. Calm(h)
      BY <1>1, <2>1, <2>2 DEF Calm, TurnsOf, Entry
    <2> QED
      BY <2>3, CalmCounts
  <1> QED
    BY <1>2, <1>3

LEMMA RestCounts ==
    ASSUME CountInv, NEW h \in Group,
           \/ CancelRoot \/ DrainCopy \/ CloseStore \/ DrainTimeout \/ \E g \in Group : DrainWait(g)
           \/ (\E g \in Group : Stop(g) \/ Expire(g)) \/ ReadMemory \/ ReadStore \/ UNCHANGED vars
    PROVE  Numbered(h)' /\ Bounded(h)'
  <1>1. TypeOK /\ mem \in [Group -> Entry]
    BY TypesBefore DEF CountInv, PlaceInv
  <1>2. run' = run /\ store' = store
    BY DEF CancelRoot, DrainCopy, CloseStore, DrainTimeout, DrainWait, Stop, Expire, ReadMemory, ReadStore, vars
  <1>3. /\ TurnsOf(h)' = TurnsOf(h) /\ mem'[h].prof = mem[h].prof /\ mem'[h].next = mem[h].next
    <2>1. CASE CancelRoot
      BY <1>1, <2>1 DEF CancelRoot, Entry, TurnsOf
    <2>2. ASSUME NEW g \in Group, Stop(g)
          PROVE  TurnsOf(h)' = TurnsOf(h) /\ mem'[h].prof = mem[h].prof /\ mem'[h].next = mem[h].next
      BY <1>1, <2>2 DEF Stop, Entry, TurnsOf
    <2>3. CASE ReadMemory
      <3>1. mem'[h] = mem[h] \/ mem'[h] = [mem[h] EXCEPT !.tracked = FALSE]
        BY <1>1, <2>3, SweptType DEF ReadMemory
      <3> QED
        BY <1>1, <3>1 DEF Entry, TurnsOf
    <2>4. CASE mem' = mem
      BY <2>4 DEF TurnsOf
    <2> QED
      BY <2>1, <2>2, <2>3, <2>4 DEF DrainCopy, CloseStore, DrainTimeout, DrainWait, Expire, ReadStore, vars
  <1>4. Calm(h)
    BY <1>2, <1>3 DEF Calm
  <1> QED
    BY <1>4, CalmCounts

LEMMA CountStep == CountInv /\ [Next]_vars => CountInv'
  <1> SUFFICES ASSUME CountInv, [Next]_vars PROVE CountInv'
    OBVIOUS
  <1>1. PlaceInv'
    BY PlaceStep DEF CountInv
  <1> SUFFICES ASSUME NEW h \in Group PROVE Numbered(h)' /\ Bounded(h)'
    BY <1>1 DEF CountInv
  <1>2. ASSUME NEW g \in Group, RunStep(g) PROVE Numbered(h)' /\ Bounded(h)'
    <2>1. CASE h = g
      BY <1>2, <2>1, RunStepCounts
    <2>2. CASE h # g
      <3>1. Others(g)
        BY <1>2, RunStepLocal DEF CountInv, PlaceInv
      <3> QED
        BY <2>2, <3>1, OthersCalm, CalmCounts
    <2> QED
      BY <2>1, <2>2
  <1> QED
    BY <1>2, BootCounts, ProcessEndCounts, RegisterCounts, RestCounts DEF Next

LEMMA CountsHold == Spec => []CountInv
  BY CountInit, CountStep, PTL DEF Spec

\* No two turns of a group carry the same index, however the turns of a
\* parallel batch overlap (prepareTurn reserves it under the lock).
THEOREM IndexesUnique == Spec => []IndexUnique
  <1>1. CountInv => IndexUnique
    BY DEF CountInv, Numbered, Distinct, IndexUnique
  <1> QED
    BY <1>1, CountsHold, PTL

\* A transcript stops short of its cap plus the width of one batch.
THEOREM TranscriptsBounded == Spec => []TurnsBounded
  <1>1. CountInv => TurnsBounded
    BY DEF CountInv, Bounded, TurnsBounded
  <1> QED
    BY <1>1, CountsHold, PTL

-----------------------------------------------------------------------------
(* The end of a group, the drain and the readers *)

Told(g, s) == \E i \in DOMAIN told[g] : told[g][i] = s

\* Once the drain has taken its copy, it waits for every run it has to know of.
Awaited(g) ==
    stage \in {"draining", "closed"} /\ g \notin missed =>
        /\ run[g].pc \notin Starting
        /\ run[g].pc \in Working => Leaving(g) \/ (stage = "draining" /\ g \in drain)

\* From FinalMark on the status in memory is the one the run ends with, from
\* FinalSave on the store has it, from FinalStatus on it has been told.
Closing(g) ==
    /\ run[g].pc = "unused" => run[g].out = "none"
    /\ run[g].out = "stopped" => mem[g].cancelled
    /\ Ended(g) => run[g].pc \in {"told", "closed", "gone"}
    /\ run[g].pc \in {"marked", "kept", "told", "closed"} => mem[g].state.status = run[g].out
    /\ run[g].pc \in {"kept", "told", "closed"} /\ g \notin missed => store[g].status = run[g].out
    /\ run[g].pc \in {"told", "closed"} => Told(g, run[g].out)
    /\ Ended(g) /\ g \notin missed =>
          /\ store[g].status \in Terminal /\ Told(g, store[g].status)
          /\ mem[g].tracked => Told(g, mem[g].state.status)

Reading(g) ==
    g \in reader.ended \ missed =>
        IF reader.busy THEN Ended(g) /\ (reader.seen[g] = "none" \/ Told(g, reader.seen[g]))
        ELSE Told(g, reader.shown[g])

EndInv ==
    /\ PlaceInv
    /\ stage = "closed" => drain = {}
    /\ \A g \in Group : Awaited(g) /\ Closing(g) /\ Reading(g)

EndKept(g) == Awaited(g) /\ Closing(g) /\ Reading(g)

LEMMA EndInit == Init => EndInv
  <1> SUFFICES ASSUME Init PROVE EndInv
    OBVIOUS
  <1>1. PlaceInv /\ stage = "down"
    BY PlaceInit DEF Init
  <1>2. ASSUME NEW g \in Group PROVE Awaited(g) /\ Closing(g) /\ Reading(g)
    <2>1. run[g].pc = "unused" /\ run[g].out = "none" /\ told[g] = <<>> /\ reader.ended = {} /\ stage = "down"
      BY NoRunType DEF Init, NoReader
    <2>2. ~Ended(g)
      BY <2>1 DEF Ended
    <2> QED
      BY <2>1, <2>2 DEF Awaited, Closing, Reading
  <1> QED
    BY <1>1, <1>2 DEF EndInv

\* What is said is not taken back.
LEMMA Telling ==
    ASSUME NEW g \in Group, told[g] \in Seq(Words),
           \/ told'[g] = told[g]
           \/ \E w \in Words : told'[g] = Append(told[g], w)
    PROVE  /\ \A s : Told(g, s) => Told(g, s)'
           /\ Ended(g) => Ended(g)'
  <1>1. CASE told'[g] = told[g]
    BY <1>1 DEF Told, Ended
  <1>2. ASSUME NEW w \in Words, told'[g] = Append(told[g], w)
        PROVE  \A i \in DOMAIN told[g] : i \in DOMAIN told'[g] /\ told'[g][i] = told[g][i]
    BY <1>2
  <1> QED
    BY <1>1, <1>2 DEF Told, Ended

LEMMA NotYetEnded ==
    ASSUME NEW g \in Group, told[g] \in Seq(Words), ~Ended(g),
           \/ told'[g] = told[g]
           \/ \E w \in Words \ Terminal : told'[g] = Append(told[g], w)
    PROVE  ~Ended(g)'
  <1>1. CASE told'[g] = told[g]
    BY <1>1 DEF Ended
  <1>2. ASSUME NEW w \in Words \ Terminal, told'[g] = Append(told[g], w) PROVE ~Ended(g)'
    <2>1. /\ DOMAIN told'[g] = 1 .. (Len(told[g]) + 1) /\ DOMAIN told[g] = 1 .. Len(told[g])
          /\ told'[g][Len(told[g]) + 1] = w /\ Len(told[g]) \in Nat
          /\ \A i \in 1 .. Len(told[g]) : told'[g][i] = told[g][i]
      BY <1>2
    <2>2. \A i \in 1 .. Len(told[g]) : told[g][i] \notin Terminal
      BY <2>1 DEF Ended
    <2> QED
      BY <2>1, <2>2 DEF Ended
  <1> QED
    BY <1>1, <1>2

\* A run in flight goes on, ends or is gone; it never begins anew.
LEMMA AwaitedStep ==
    ASSUME NEW g \in Group, Awaited(g), stage' = stage, drain' = drain, missed' = missed,
           run[g].pc \in Starting \cup Working, run'[g].pc \in Starting => run[g].pc \in Starting,
           run[g].pc = "closed" => run'[g].pc \notin Working
    PROVE  Awaited(g)'
  BY DEF Awaited, Leaving

LEMMA ReadingFrame ==
    ASSUME NEW g \in Group, Reading(g), told[g] \in Seq(Words), reader' = reader, missed \subseteq missed',
           \/ told'[g] = told[g]
           \/ \E w \in Words : told'[g] = Append(told[g], w)
    PROVE  Reading(g)'
  <1>1. /\ \A s : Told(g, s) => Told(g, s)'
        /\ Ended(g) => Ended(g)'
    BY Telling
  <1>2. \A s : Told(g, s)' <=> \E i \in DOMAIN told'[g] : told'[g][i] = s
    BY DEF Told
  <1>3. CASE g \in reader'.ended \ missed'
    <2>1. IF reader.busy THEN Ended(g) /\ (reader.seen[g] = "none" \/ Told(g, reader.seen[g]))
          ELSE Told(g, reader.shown[g])
      BY <1>3 DEF Reading
    <2>2. IF reader.busy THEN Ended(g)' /\ (reader.seen[g] = "none" \/ \E i \in DOMAIN told'[g] : told'[g][i] = reader.seen[g])
          ELSE \E i \in DOMAIN told'[g] : told'[g][i] = reader.shown[g]
      BY <1>1, <1>2, <2>1
    <2> QED
      BY <2>2 DEF Reading, Told
  <1> QED
    BY <1>3 DEF Reading

\* Before finalize has marked it a group has not ended.
LEMMA ClosingEarly ==
    ASSUME NEW g \in Group, Closing(g), told[g] \in Seq(Words),
           run[g].pc \in Starting \cup {"top", "batch"}, run'[g].pc \in Starting \cup {"top", "batch", "finish"},
           run'[g].out = "stopped" => mem'[g].cancelled,
           \/ told'[g] = told[g]
           \/ \E w \in Words \ Terminal : told'[g] = Append(told[g], w)
    PROVE  Closing(g)'
  <1>1. ~Ended(g)
    BY DEF Closing, Starting
  <1>2. ~Ended(g)'
    BY <1>1, NotYetEnded
  <1> QED
    BY <1>2 DEF Closing, Starting

LEMMA StoppedOut ==
    ASSUME TypeOK, NEW g \in Group, run[g].out = "stopped" => mem[g].cancelled,
           \/ LoopTop(g) \/ BatchEnd(g) \/ \E t \in run[g].active : TurnFail(g, t) \/ TurnPanic(g, t)
    PROVE  run'[g].out = "stopped" => mem[g].cancelled
  <1>1. run \in [Group -> Loop]
    BY TypesBefore
  <1>2. ASSUME NEW out \in Terminal, Finish(g, out) PROVE run'[g].out = out
    BY <1>2, FinishType
  <1>3. CASE LoopTop(g)
    <2>1. CASE mem[g].cancelled
      BY <2>1
    <2>2. CASE ~mem[g].cancelled /\ Finish(g, "done")
      BY <1>2, <2>2 DEF Terminal
    <2>3. CASE ~mem[g].cancelled /\ ~Finish(g, "done")
      <3>1. run[g] \in Loop
        BY <1>1
      <3>2. run'[g].out = run[g].out
        BY <1>1, <1>3, <2>3, <3>1 DEF LoopTop, Loop
      <3> QED
        BY <3>2
    <2> QED
      BY <2>1, <2>2, <2>3
  <1>4. CASE BatchEnd(g)
    <2>1. CASE mem[g].cancelled
      BY <2>1
    <2>2. CASE ~mem[g].cancelled /\ Finish(g, "error")
      BY <1>2, <2>2 DEF Terminal
    <2>3. CASE ~mem[g].cancelled /\ run' = [run EXCEPT ![g] = [NoRun EXCEPT !.pc = "top"]]
      BY <1>1, <2>3, NoRunType DEF Loop
    <2> QED
      BY <1>4, <2>1, <2>2, <2>3 DEF BatchEnd
  <1>5. ASSUME NEW t \in run[g].active, TurnFail(g, t) PROVE run'[g].out = run[g].out
    BY <1>1, <1>5 DEF TurnFail, Loop
  <1>6. ASSUME NEW t \in run[g].active, TurnPanic(g, t) PROVE run'[g].out = "error"
    BY <1>2, <1>6 DEF TurnPanic, Terminal
  <1> QED
    BY <1>3, <1>4, <1>5, <1>6

\* Start's steps, the loop's and its turns'.
LEMMA EarlySteps ==
    ASSUME EndInv, NEW g \in Group,
           \/ Announce(g) \/ SaveStarted(g) \/ Launch(g) \/ LoopTop(g) \/ BatchEnd(g)
           \/ \E i \in run[g].batch : TurnBegin(g, i)
           \/ \E t \in run[g].active : (\E stop \in BOOLEAN : TurnEnd(g, t, stop)) \/ TurnFail(g, t)
                                         \/ TurnPanic(g, t)
    PROVE  /\ run[g].pc \in Starting \cup {"top", "batch"}
           /\ run'[g].pc \in Starting \cup {"top", "batch", "finish"}
           /\ run'[g].pc \in Starting => run[g].pc \in Starting
           /\ told'[g] = told[g] \/ told'[g] = Append(told[g], "started")
           /\ run'[g].out = "stopped" => mem'[g].cancelled
  <1>1. mem \in [Group -> Entry] /\ run \in [Group -> Loop] /\ told \in [Group -> Seq(Words)]
    BY TypesBefore DEF EndInv, PlaceInv
  <1>2. PlaceInv /\ TypeOK /\ Placed(g)
    BY DEF EndInv, PlaceInv
  <1>3. run[g].out = "stopped" => mem[g].cancelled
    BY DEF EndInv, Closing
  <1>4. CASE Announce(g)
    BY <1>1, <1>2, <1>3, <1>4, GotoType DEF Announce, Starting
  <1>5. CASE SaveStarted(g)
    BY <1>2, <1>3, <1>5, GotoType DEF SaveStarted, Starting
  <1>6. CASE Launch(g)
    BY <1>2, <1>3, <1>6, GotoType DEF Launch, Starting, Working
  <1>7. CASE LoopTop(g)
    <2>1. run'[g].pc \in {"finish", "batch"}
      BY <1>2, <1>7, LoopTopType
    <2>2. run'[g].out = "stopped" => mem[g].cancelled
      BY <1>2, <1>3, <1>7, StoppedOut
    <2> QED
      BY <1>7, <2>1, <2>2 DEF LoopTop, Starting
  <1>8. CASE BatchEnd(g)
    <2>1. run'[g].pc \in {"finish", "top"}
      BY <1>2, <1>8, BatchEndType
    <2>2. run'[g].out = "stopped" => mem[g].cancelled
      BY <1>2, <1>3, <1>8, StoppedOut
    <2> QED
      BY <1>8, <2>1, <2>2 DEF BatchEnd, Starting
  <1>9. ASSUME NEW i \in run[g].batch, TurnBegin(g, i)
         PROVE  /\ run[g].pc = "batch" /\ run'[g].pc = "batch" /\ told' = told
                /\ run'[g].out = "stopped" => mem'[g].cancelled
    <2>1. run[g].pc = "batch" /\ run'[g].pc = "batch" /\ told' = told
      BY <1>2, <1>9, TurnBeginType DEF TurnBegin
    <2>2. mem'[g].cancelled = mem[g].cancelled
      BY <1>1, <1>9 DEF TurnBegin, Entry
    <2>3. run'[g].out = run[g].out
      BY <1>1, <1>9 DEF TurnBegin, Begun, Loop
    <2> QED
      BY <1>3, <2>1, <2>2, <2>3
  <1>10. ASSUME NEW t \in run[g].active, NEW stop \in BOOLEAN, TurnEnd(g, t, stop)
         PROVE  /\ run[g].pc = "batch" /\ run'[g].pc = "batch" /\ told' = told
                /\ run'[g].out = "stopped" => mem'[g].cancelled
    <2>1. run[g].pc = "batch" /\ told' = told
      BY <1>2, <1>10 DEF Placed, TurnEnd
    <2>2. mem'[g].cancelled = mem[g].cancelled /\ run'[g].pc = run[g].pc
      BY <1>2, <1>10, TurnEndType
    <2>3. run'[g].out = run[g].out
      BY <1>1, <1>10 DEF TurnEnd, Loop
    <2> QED
      BY <1>3, <2>1, <2>2, <2>3
  <1>11. ASSUME NEW t \in run[g].active, TurnFail(g, t) \/ TurnPanic(g, t)
         PROVE  /\ run[g].pc = "batch" /\ run'[g].pc \in {"batch", "finish"} /\ told' = told
                /\ run'[g].out = "stopped" => mem'[g].cancelled
    <2>1. run[g].pc = "batch" /\ told' = told /\ mem' = mem
      BY <1>2, <1>11 DEF Placed, TurnFail, TurnPanic
    <2>2. run'[g].pc \in {"batch", "finish"}
      BY <1>2, <1>11, <2>1, TurnLostType
    <2>3. run'[g].out = "stopped" => mem[g].cancelled
      BY <1>2, <1>3, <1>11, StoppedOut
    <2> QED
      BY <2>1, <2>2, <2>3
  <1> QED
    BY <1>4, <1>5, <1>6, <1>7, <1>8, <1>9, <1>10, <1>11 DEF Starting

\* finalize's steps: where they go, what they say and what they leave.
LEMMA LateSteps ==
    ASSUME EndInv, NEW g \in Group,
           FinalMark(g) \/ FinalSave(g) \/ FinalStatus(g) \/ FinalComplete(g) \/ LastSave(g)
    PROVE  /\ run[g].pc \in Working /\ run'[g].pc \in Working \cup {"gone"}
           /\ told'[g] = told[g] \/ \E w \in Words : told'[g] = Append(told[g], w)
           /\ Closing(g)'
  <1>1. PlaceInv /\ TypeOK /\ Placed(g) /\ Awaited(g) /\ Closing(g) /\ (stage = "closed" => drain = {})
    BY DEF EndInv, PlaceInv
  <1>2. /\ mem \in [Group -> Entry] /\ run \in [Group -> Loop] /\ told \in [Group -> Seq(Words)]
        /\ store \in [Group -> State]
    BY <1>1, TypesBefore
  <1>3. missed' = missed
    BY DEF FinalMark, FinalSave, FinalStatus, FinalComplete, LastSave
  <1>4. CASE FinalMark(g)
    <2>1. run'[g].pc = "marked" /\ run'[g].out = run[g].out /\ run[g].pc = "finish"
      BY <1>1, <1>4, GotoType DEF FinalMark, Working
    <2>2. mem'[g].state.status = run[g].out /\ mem'[g].cancelled = mem[g].cancelled /\ told' = told
      BY <1>2, <1>4 DEF FinalMark, Entry, GroupState
    <2>3. ~Ended(g) /\ ~Ended(g)'
      BY <1>1, <2>1, <2>2 DEF Closing, Ended
    <2>4. Closing(g)'
      BY <1>1, <2>1, <2>2, <2>3 DEF Closing
    <2> QED
      BY <2>1, <2>2, <2>4 DEF Working
  <1>5. CASE FinalSave(g)
    <2>1. run'[g].pc = "kept" /\ run'[g].out = run[g].out /\ run[g].pc = "marked"
      BY <1>1, <1>5, GotoType DEF FinalSave, Working
    <2>2. mem' = mem /\ told' = told
      BY <1>5 DEF FinalSave
    <2>3. ~Ended(g) /\ ~Ended(g)'
      BY <1>1, <2>1, <2>2 DEF Closing, Ended
    <2>4. g \notin missed => store'[g] = mem[g].state
      BY <1>1, <1>5, <2>1, SaveType DEF FinalSave, Awaited, Leaving, Working
    <2>5. Closing(g)'
      BY <1>1, <1>3, <2>1, <2>2, <2>3, <2>4 DEF Closing
    <2> QED
      BY <2>1, <2>2, <2>5 DEF Working
  <1>6. CASE FinalStatus(g)
    <2>1. run'[g].pc = "told" /\ run'[g].out = run[g].out /\ run[g].pc = "kept"
      BY <1>1, <1>6, GotoType DEF FinalStatus, Working
    <2>2. mem' = mem /\ store' = store /\ told'[g] = Append(told[g], run[g].out)
      BY <1>2, <1>6 DEF FinalStatus
    <2>3. run[g].out \in Terminal /\ run[g].out \in Words
      BY <1>1, <2>1 DEF Placed, Words
    <2>4. Told(g, run[g].out)'
      <3>1. Len(told[g]) + 1 \in DOMAIN told'[g] /\ told'[g][Len(told[g]) + 1] = run[g].out
        BY <1>2, <2>2, <2>3
      <3> QED
        BY <2>1, <3>1 DEF Told
    <2>5. mem[g].state.status = run[g].out /\ (g \notin missed => store[g].status = run[g].out)
      BY <1>1, <2>1 DEF Closing
    <2>6. Closing(g)'
      <3>1. run'[g].out = "stopped" => mem'[g].cancelled
        BY <1>1, <2>1, <2>2 DEF Closing
      <3>2. \E i \in DOMAIN told'[g] : told'[g][i] = run[g].out
        BY <2>1, <2>4 DEF Told
      <3> QED
        BY <1>3, <2>1, <2>2, <2>3, <2>5, <3>1, <3>2 DEF Closing, Told
    <2> QED
      BY <2>1, <2>2, <2>3, <2>6 DEF Working
  <1>7. CASE FinalComplete(g)
    <2>1. run'[g].pc = "closed" /\ run'[g].out = run[g].out /\ run[g].pc = "told"
      BY <1>1, <1>7, GotoType DEF FinalComplete, Working
    <2>2. /\ mem'[g].state = mem[g].state /\ mem'[g].cancelled = mem[g].cancelled
          /\ mem'[g].tracked = mem[g].tracked /\ store' = store
          /\ told'[g] = Append(told[g], "complete") /\ "complete" \in Words
      BY <1>2, <1>7 DEF FinalComplete, Entry, Words
    <2>3. \A s : Told(g, s) => Told(g, s)'
      BY <1>2, <2>2, Telling
    <2>4. Told(g, run[g].out) /\ run[g].out \in Terminal
      BY <1>1, <2>1 DEF Closing, Placed
    <2>5. Ended(g)
      BY <2>4 DEF Told, Ended
    <2>6. Closing(g)'
      <3>1. \A s : Told(g, s) => \E i \in DOMAIN told'[g] : told'[g][i] = s
        BY <2>3 DEF Told
      <3>2. /\ mem[g].state.status = run[g].out /\ (g \notin missed => store[g].status = run[g].out)
            /\ run[g].out = "stopped" => mem[g].cancelled
        BY <1>1, <2>1 DEF Closing
      <3>3. \E i \in DOMAIN told'[g] : told'[g][i] = run[g].out
        BY <2>4, <3>1
      <3> QED
        BY <1>3, <2>1, <2>2, <2>4, <3>2, <3>3 DEF Closing, Told
    <2> QED
      BY <2>1, <2>2, <2>6 DEF Working
  <1>8. CASE LastSave(g)
    <2>1. run'[g].pc = "gone" /\ run[g].pc = "closed" /\ run'[g].out = "none"
      BY <1>2, <1>8, NoRunType DEF LastSave, Loop
    <2>2. mem' = mem /\ told' = told
      BY <1>8 DEF LastSave
    <2>3. store'[g] \in {store[g], mem[g].state}
      BY <1>1, <1>8, SaveType DEF LastSave
    <2>4. Told(g, run[g].out) /\ run[g].out \in Terminal
      BY <1>1, <2>1 DEF Closing, Placed
    <2>5. Ended(g)
      BY <2>4 DEF Told, Ended
    <2>6. Closing(g)'
      BY <1>1, <1>3, <2>1, <2>2, <2>3, <2>4, <2>5 DEF Closing, Told
    <2> QED
      BY <2>1, <2>2, <2>6 DEF Working
  <1> QED
    BY <1>4, <1>5, <1>6, <1>7, <1>8

LEMMA RunStepEnds == ASSUME EndInv, NEW g \in Group, RunStep(g) PROVE EndInv'
  <1>1. PlaceInv' /\ Others(g) /\ TypeOK /\ (stage = "closed" => drain = {})
    <2>1. PlaceInv
      BY DEF EndInv
    <2>2. Next
      BY DEF Next
    <2> QED
      BY <2>1, <2>2, PlaceNext, RunStepLocal DEF EndInv, PlaceInv
  <1>2. told \in [Group -> Seq(Words)]
    BY <1>1, TypesBefore
  <1>3. EndKept(g)
    BY DEF EndInv, EndKept
  <1>4. /\ stage' = stage /\ drain' = drain /\ missed' = missed /\ reader' = reader
    BY <1>1 DEF Others
  <1>5. EndKept(g)'
    <2>1. CASE \/ Announce(g) \/ SaveStarted(g) \/ Launch(g) \/ LoopTop(g) \/ BatchEnd(g)
               \/ \E i \in run[g].batch : TurnBegin(g, i)
               \/ \E t \in run[g].active : (\E stop \in BOOLEAN : TurnEnd(g, t, stop)) \/ TurnFail(g, t)
                                             \/ TurnPanic(g, t)
      <3>1. /\ run[g].pc \in Starting \cup {"top", "batch"}
            /\ run'[g].pc \in Starting \cup {"top", "batch", "finish"}
            /\ run'[g].pc \in Starting => run[g].pc \in Starting
            /\ told'[g] = told[g] \/ told'[g] = Append(told[g], "started")
            /\ run'[g].out = "stopped" => mem'[g].cancelled
        BY <2>1, EarlySteps
      <3>2. "started" \in Words \ Terminal
        BY DEF Words, Terminal
      <3>3. Awaited(g)'
        BY <1>3, <1>4, <3>1, AwaitedStep DEF EndKept, Starting, Working
      <3>4. Closing(g)'
        BY <1>2, <1>3, <3>1, <3>2, ClosingEarly DEF EndKept
      <3>5. Reading(g)'
        BY <1>2, <1>3, <1>4, <3>1, <3>2, ReadingFrame DEF EndKept
      <3> QED
        BY <3>3, <3>4, <3>5 DEF EndKept
    <2>2. CASE FinalMark(g) \/ FinalSave(g) \/ FinalStatus(g) \/ FinalComplete(g) \/ LastSave(g)
      <3>1. /\ run[g].pc \in Working /\ run'[g].pc \in Working \cup {"gone"}
            /\ told'[g] = told[g] \/ \E w \in Words : told'[g] = Append(told[g], w)
            /\ Closing(g)'
        BY <2>2, LateSteps
      <3>2. Awaited(g)'
        <4>1. run[g].pc = "closed" => run'[g].pc \in {"closed", "gone"}
          BY <1>1, RunStepDone DEF EndInv
        <4>2. run[g].pc = "closed" => run'[g].pc # "closed"
          BY <1>1, <2>2, NoRunType, TypesBefore DEF FinalMark, FinalSave, FinalStatus, FinalComplete, LastSave, Loop
        <4> QED
          BY <1>3, <1>4, <3>1, <4>1, <4>2, AwaitedStep DEF EndKept, Starting, Working
      <3>3. Reading(g)'
        BY <1>2, <1>3, <1>4, <3>1, ReadingFrame DEF EndKept
      <3> QED
        BY <3>1, <3>2, <3>3 DEF EndKept
    <2> QED
      BY <2>1, <2>2 DEF RunStep
  <1>6. ASSUME NEW h \in Group \ {g} PROVE EndKept(h)'
    <2>1. /\ mem'[h] = mem[h] /\ run'[h] = run[h] /\ store'[h] = store[h] /\ told'[h] = told[h]
      BY <1>1 DEF Others
    <2>2. EndKept(h)
      BY DEF EndInv, EndKept
    <2> QED
      BY <1>4, <2>1, <2>2 DEF EndKept, Awaited, Leaving, Closing, Reading, Told, Ended
  <1> QED
    BY <1>1, <1>4, <1>5, <1>6 DEF EndInv, EndKept

\* Steps of the process and of others leave a group's words and row alone.
LEMMA ClosingFrame ==
    ASSUME NEW g \in Group, Closing(g), run'[g] = run[g], store'[g] = store[g], told'[g] = told[g],
           mem'[g].state = mem[g].state, mem[g].cancelled => mem'[g].cancelled,
           mem'[g].tracked => mem[g].tracked, missed \subseteq missed'
    PROVE  Closing(g)'
  BY DEF Closing, Told, Ended

LEMMA BootEnds == ASSUME EndInv, Boot, NEW g \in Group PROVE EndKept(g)'
  <1>1. PlaceInv /\ TypeOK /\ Placed(g) /\ EndKept(g) /\ stage = "down" /\ stage' = "up"
    BY DEF EndInv, EndKept, PlaceInv, Boot
  <1>2. run' = run /\ store' = store /\ told' = told /\ missed' = missed /\ reader' = reader
    BY DEF Boot
  <1>3. mem[g] \in Entry
    BY <1>1, TypesBefore
  <1>4. Awaited(g)' /\ Reading(g)'
    BY <1>1, <1>2 DEF EndKept, Awaited, Leaving, Reading, Told, Ended
  <1>5. run[g].pc \notin Starting \cup Working
    BY <1>1 DEF Placed, Alive
  <1>6. /\ mem'[g].cancelled = mem[g].cancelled
        /\ \/ mem'[g] = mem[g]
           \/ store[g].status \in Terminal => mem'[g].state.status = store[g].status
    BY <1>3 DEF Boot, Entry, GroupState
  <1>7. Closing(g)
    BY <1>1 DEF EndKept
  <1>8. ASSUME Ended(g)', g \notin missed'
        PROVE  /\ store'[g].status \in Terminal /\ \E i \in DOMAIN told'[g] : told'[g][i] = store'[g].status
               /\ mem'[g].tracked => \E i \in DOMAIN told'[g] : told'[g][i] = mem'[g].state.status
    <2>1. Ended(g) /\ g \notin missed
      BY <1>2, <1>8 DEF Ended
    <2>2. store[g].status \in Terminal /\ \E i \in DOMAIN told[g] : told[g][i] = store[g].status
      BY <1>7, <2>1 DEF Closing, Told
    <2>3. mem[g].tracked => \E i \in DOMAIN told[g] : told[g][i] = mem[g].state.status
      BY <1>7, <2>1 DEF Closing, Told
    <2> QED
      BY <1>2, <1>6, <2>2, <2>3
  <1>9. Closing(g)'
    BY <1>2, <1>5, <1>6, <1>7, <1>8 DEF Closing, Told, Ended, Working
  <1> QED
    BY <1>4, <1>9 DEF EndKept

LEMMA ProcessEndEnds == ASSUME EndInv, ProcessEnd, NEW g \in Group PROVE EndKept(g)'
  <1>1. TypeOK /\ Placed(g) /\ EndKept(g)
    BY DEF EndInv, EndKept, PlaceInv
  <1>2. /\ stage' = "down" /\ store' = store /\ told' = told /\ missed' = missed /\ reader' = NoReader
    BY DEF ProcessEnd
  <1>3. ~mem'[g].tracked
    BY TypesBefore, <1>1, UntrackedType DEF ProcessEnd, Entry
  <1>4. run'[g].out = "none" /\ run'[g].pc = IF run[g].pc = "unused" THEN "unused" ELSE "gone"
    BY NoRunType DEF ProcessEnd, Loop
  <1>5. Awaited(g)' /\ Reading(g)'
    BY <1>2 DEF Awaited, Reading, NoReader
  <1>6. Closing(g)'
    BY <1>1, <1>2, <1>3, <1>4 DEF EndKept, Closing, Told, Ended
  <1> QED
    BY <1>5, <1>6 DEF EndKept

LEMMA CancelRootEnds == ASSUME EndInv, CancelRoot, NEW g \in Group PROVE EndKept(g)'
  <1>1. TypeOK /\ EndKept(g) /\ mem[g] \in Entry
    BY TypesBefore DEF EndInv, EndKept, PlaceInv
  <1>2. /\ stage' = "stopping" /\ store' = store /\ told' = told /\ missed' = missed /\ reader' = reader
        /\ run' = run
    BY DEF CancelRoot
  <1>3. mem'[g].cancelled /\ mem'[g].state = mem[g].state /\ mem'[g].tracked = mem[g].tracked
    BY <1>1 DEF CancelRoot, Entry
  <1>4. Awaited(g)' /\ Reading(g)'
    BY <1>1, <1>2 DEF EndKept, Awaited, Leaving, Reading, Told, Ended
  <1> QED
    BY <1>1, <1>2, <1>3, <1>4, ClosingFrame DEF EndKept

LEMMA DrainEnds ==
    ASSUME EndInv, NEW g \in Group,
           DrainCopy \/ CloseStore \/ DrainTimeout \/ \E h \in Group : DrainWait(h)
    PROVE  EndKept(g)'
  <1>1. TypeOK /\ Placed(g) /\ EndKept(g)
    BY DEF EndInv, EndKept, PlaceInv
  <1>2. /\ store' = store /\ told' = told /\ missed \subseteq missed' /\ reader' = reader
        /\ run' = run /\ mem' = mem
    BY DEF DrainCopy, CloseStore, DrainTimeout, DrainWait
  <1>3. Awaited(g)'
    <2>1. CASE DrainCopy
      BY <1>1, <2>1 DEF DrainCopy, Awaited, Leaving, Placed
    <2>2. CASE CloseStore
      BY <1>1, <2>2 DEF CloseStore, Awaited, Leaving, EndKept
    <2>3. CASE DrainTimeout
      BY <2>3 DEF DrainTimeout, Awaited, Leaving
    <2>4. ASSUME NEW h \in Group, DrainWait(h) PROVE Awaited(g)'
      BY <1>1, <2>4 DEF DrainWait, Awaited, Leaving, EndKept
    <2> QED
      BY <2>1, <2>2, <2>3, <2>4
  <1>4. Closing(g)'
    BY <1>1, <1>2, ClosingFrame DEF EndKept
  <1>5. Reading(g)'
    BY <1>1, <1>2 DEF EndKept, Reading, Told, Ended
  <1> QED
    BY <1>3, <1>4, <1>5 DEF EndKept

LEMMA RegisterEnds ==
    ASSUME EndInv, NEW g \in Group, NEW p \in Profile, Register(g, p), NEW h \in Group
    PROVE  EndKept(h)'
  <1>1. PlaceInv /\ TypeOK /\ Placed(h) /\ EndKept(h) /\ mem[h] \in Entry
    BY TypesBefore DEF EndInv, EndKept, PlaceInv
  <1>2. /\ stage' = stage /\ drain' = drain /\ store' = store /\ told' = told /\ reader' = reader
        /\ missed \subseteq missed'
    BY DEF Register
  <1>3. Reading(h)'
    BY <1>1, <1>2 DEF EndKept, Reading, Told, Ended
  <1>4. CASE h = g
    <2>1. run'[g].pc = "registered" /\ run[g].pc = "unused" /\ run'[g].out = run[g].out
      BY <1>1, RegisterEntry
    <2>2. ~Ended(g) /\ ~Ended(g)' /\ run[g].out = "none"
      BY <1>1, <1>2, <1>4, <2>1 DEF EndKept, Closing, Ended
    <2>3. Awaited(g)'
      BY <2>1 DEF Register, Awaited, Leaving, Working
    <2>4. Closing(g)'
      BY <2>1, <2>2 DEF Closing
    <2> QED
      BY <1>3, <1>4, <2>3, <2>4 DEF EndKept
  <1>5. CASE h # g
    <2>1. run'[h] = run[h] /\ (mem'[h] = mem[h] \/ mem'[h] = [mem[h] EXCEPT !.tracked = FALSE])
      BY <1>1, <1>5, RegisterEntry
    <2>2. /\ mem'[h].state = mem[h].state /\ mem'[h].cancelled = mem[h].cancelled
          /\ mem'[h].tracked => mem[h].tracked
      BY <1>1, <2>1 DEF Entry
    <2>3. Closing(h)'
      BY <1>1, <1>2, <2>1, <2>2, ClosingFrame DEF EndKept
    <2>4. Awaited(h)'
      BY <1>1, <1>2, <2>1, <2>2 DEF EndKept, Awaited, Leaving
    <2> QED
      BY <1>3, <2>3, <2>4 DEF EndKept
  <1> QED
    BY <1>4, <1>5

LEMMA StopExpireEnds ==
    ASSUME EndInv, NEW g \in Group, Stop(g) \/ Expire(g), NEW h \in Group
    PROVE  EndKept(h)'
  <1>1. EndKept(h) /\ mem \in [Group -> Entry]
    BY TypesBefore DEF EndInv, EndKept, PlaceInv
  <1>2. /\ stage' = stage /\ drain' = drain /\ store' = store /\ told' = told /\ reader' = reader
        /\ missed' = missed /\ run' = run
    BY DEF Stop, Expire
  <1>3. /\ mem'[h].state = mem[h].state /\ mem'[h].tracked = mem[h].tracked
        /\ mem[h].cancelled => mem'[h].cancelled
    BY <1>1 DEF Stop, Expire, Entry
  <1> QED
    BY <1>1, <1>2, <1>3, ClosingFrame DEF EndKept, Awaited, Leaving, Reading, Told, Ended

LEMMA ReadMemoryEnds == ASSUME EndInv, ReadMemory, NEW g \in Group PROVE EndKept(g)'
  <1>1. TypeOK /\ EndKept(g) /\ mem[g] \in Entry
    BY TypesBefore DEF EndInv, EndKept, PlaceInv
  <1>2. /\ stage' = stage /\ drain' = drain /\ store' = store /\ told' = told
        /\ missed' = missed /\ run' = run
    BY DEF ReadMemory
  <1>3. mem'[g] = mem[g] \/ mem'[g] = [mem[g] EXCEPT !.tracked = FALSE]
    BY <1>1, SweptType DEF ReadMemory
  <1>4. /\ mem'[g].state = mem[g].state /\ mem'[g].cancelled = mem[g].cancelled
        /\ mem'[g].tracked => mem[g].tracked
    BY <1>1, <1>3 DEF Entry
  <1>5. Closing(g)'
    BY <1>1, <1>2, <1>3, <1>4, ClosingFrame DEF EndKept
  <1>6. Awaited(g)'
    BY <1>1, <1>2, <1>4 DEF EndKept, Awaited, Leaving
  <1>7. Reading(g)'
    <2> DEFINE seen == [h \in Group |-> IF mem'[h].tracked THEN mem[h].state.status ELSE "none"]
               over == {h \in Group : Ended(h)}
    <2>1. reader' = [NoReader EXCEPT !.busy = TRUE, !.seen = seen, !.ended = over]
      BY DEF ReadMemory
    <2>2. seen[g] = "none" \/ (mem[g].tracked /\ seen[g] = mem[g].state.status)
      BY <1>4
    <2> HIDE DEF seen
    <2>3. reader'.busy /\ reader'.seen = seen /\ reader'.ended = over
      BY <2>1 DEF NoReader
    <2>4. ASSUME g \in over \ missed PROVE Ended(g) /\ (seen[g] = "none" \/ Told(g, seen[g]))
      BY <1>1, <2>2, <2>4 DEF EndKept, Closing
    <2> QED
      BY <1>2, <2>3, <2>4 DEF Reading, Told, Ended
  <1> QED
    BY <1>5, <1>6, <1>7 DEF EndKept

LEMMA ReadStoreEnds == ASSUME EndInv, ReadStore, NEW g \in Group PROVE EndKept(g)'
  <1>1. TypeOK /\ EndKept(g)
    BY DEF EndInv, EndKept, PlaceInv
  <1>2. /\ stage' = stage /\ drain' = drain /\ store' = store /\ told' = told
        /\ missed' = missed /\ run' = run /\ mem' = mem
    BY DEF ReadStore
  <1>3. Closing(g)' /\ Awaited(g)'
    BY <1>1, <1>2 DEF EndKept, Closing, Awaited, Leaving, Told, Ended
  <1>4. Reading(g)'
    <2> DEFINE shown == [h \in Group |-> IF stage = "closed" THEN reader.seen[h]
                                         ELSE Shown(reader.seen[h], store[h])]
               over == IF stage = "closed" THEN {} ELSE reader.ended
    <2>1. reader' = [NoReader EXCEPT !.shown = shown, !.ended = over]
      BY DEF ReadStore
    <2>2. shown[g] = IF stage = "closed" THEN reader.seen[g] ELSE Shown(reader.seen[g], store[g])
      OBVIOUS
    <2>3. ASSUME g \in over \ missed PROVE Told(g, shown[g])
      <3>1. stage # "closed" /\ g \in reader.ended \ missed /\ reader.busy
        BY <2>3 DEF ReadStore
      <3>2. Ended(g) /\ (reader.seen[g] = "none" \/ Told(g, reader.seen[g]))
        BY <1>1, <3>1 DEF EndKept, Reading
      <3>3. store[g].status \in Terminal /\ Told(g, store[g].status)
        BY <1>1, <3>1, <3>2 DEF EndKept, Closing
      <3> HIDE DEF shown
      <3> QED
        BY <2>2, <3>1, <3>2, <3>3 DEF Shown
    <2> HIDE DEF shown, over
    <2>4. ~reader'.busy /\ reader'.shown = shown /\ reader'.ended = over
      BY <2>1 DEF NoReader
    <2> QED
      BY <1>2, <2>3, <2>4 DEF Reading, Told
  <1> QED
    BY <1>3, <1>4 DEF EndKept

LEMMA EndStep == EndInv /\ [Next]_vars => EndInv'
  <1> SUFFICES ASSUME EndInv, [Next]_vars PROVE EndInv'
    OBVIOUS
  <1>1. PlaceInv'
    BY PlaceStep DEF EndInv
  <1>2. CASE \E g \in Group : RunStep(g)
    BY <1>2, RunStepEnds
  <1>3. CASE ~\E g \in Group : RunStep(g)
    <2>1. stage' = "closed" => drain' = {}
      BY <1>3 DEF EndInv, Next, Boot, ProcessEnd, CancelRoot, DrainCopy, DrainWait, CloseStore, DrainTimeout,
                  Register, Stop, Expire, ReadMemory, ReadStore, vars
    <2>2. ASSUME NEW g \in Group PROVE EndKept(g)'
      <3>1. CASE UNCHANGED vars
        BY <3>1 DEF vars, EndInv, EndKept, Awaited, Leaving, Closing, Reading, Told, Ended
      <3> QED
        BY <1>3, <3>1, BootEnds, ProcessEndEnds, CancelRootEnds, DrainEnds, RegisterEnds, StopExpireEnds,
           ReadMemoryEnds, ReadStoreEnds DEF Next
    <2> QED
      BY <1>1, <2>1, <2>2 DEF EndInv, EndKept
  <1> QED
    BY <1>2, <1>3

LEMMA EndsHold == Spec => []EndInv
  BY EndInit, EndStep, PTL DEF Spec

\* Whoever reads the history after a group's terminal signal sees the group,
\* with the status that was told, across retention and restarts (finalize,
\* SnapshotsForSession).
THEOREM CardsKept == Spec => []CardKept
  <1>1. EndInv => CardKept
    BY DEF EndInv, Reading, Told, CardKept, PlaceInv, TypeOK
  <1> QED
    BY <1>1, EndsHold, PTL

\* Once the drain has closed the store, no run goroutine it had to know of is
\* left to write to it (DrainAllRunGoroutines).
THEOREM DrainsAreQuiet == Spec => []DrainedIsQuiet
  <1>1. EndInv => DrainedIsQuiet
    BY DEF EndInv, Awaited, Leaving, DrainedIsQuiet
  <1> QED
    BY <1>1, EndsHold, PTL

\* A group ends as stopped only if somebody cancelled it (runGroup tests ctx,
\* not the batch's gctx).
THEOREM StopsAreCancels == Spec => []StoppedMeansCancelled
  <1>1. EndInv => StoppedMeansCancelled
    BY DEF EndInv, Closing, StoppedMeansCancelled
  <1> QED
    BY <1>1, EndsHold, PTL

SilentStep ==
    \A g \in Group : Ended(g) =>
        /\ mem'[g].tracked /\ mem[g].tracked => mem'[g].state = mem[g].state
        /\ \E n \in 0..1 : Len(told'[g]) = Len(told[g]) + n /\ (n = 1 => told'[g][Len(told[g]) + 1] = "complete")

LEMMA EndedIsSilent == EndInv /\ [Next]_vars => SilentStep
  <1> SUFFICES ASSUME EndInv, [Next]_vars PROVE SilentStep
    OBVIOUS
  <1> SUFFICES ASSUME NEW g \in Group, Ended(g)
               PROVE  /\ mem'[g].tracked /\ mem[g].tracked => mem'[g].state = mem[g].state
                      /\ told'[g] = told[g] \/ told'[g] = Append(told[g], "complete")
    <2>1. told \in [Group -> Seq(Words)]
      BY TypesBefore DEF EndInv, PlaceInv
    <2> SUFFICES ASSUME NEW g \in Group,
                        told'[g] = told[g] \/ told'[g] = Append(told[g], "complete")
                 PROVE  \E n \in 0..1 : Len(told'[g]) = Len(told[g]) + n
                                         /\ (n = 1 => told'[g][Len(told[g]) + 1] = "complete")
      BY DEF SilentStep
    <2>2. told[g] \in Seq(Words) /\ Len(told[g]) \in Nat
      BY <2>1
    <2>3. CASE told'[g] = told[g]
      <3>1. Len(told'[g]) = Len(told[g]) + 0
        BY <2>2, <2>3
      <3> QED
        BY <3>1
    <2>4. CASE told'[g] = Append(told[g], "complete")
      <3>1. Len(told'[g]) = Len(told[g]) + 1 /\ told'[g][Len(told[g]) + 1] = "complete"
        BY <2>2, <2>4
      <3> QED
        BY <3>1
    <2> QED
      BY <2>3, <2>4
  <1>1. TypeOK /\ Placed(g) /\ run[g].pc \in {"told", "closed", "gone"} /\ mem \in [Group -> Entry]
    BY TypesBefore DEF EndInv, PlaceInv, Closing
  <1>2. CASE RunStep(g)
    <2>1. FinalComplete(g) \/ LastSave(g)
      <3>1. run[g].pc \notin Starting \cup {"top", "batch", "finish", "marked", "kept"}
        BY <1>1 DEF Starting
      <3> QED
        BY <1>2, <3>1, EarlySteps DEF RunStep, FinalMark, FinalSave, FinalStatus
    <2>2. CASE FinalComplete(g)
      <3>1. told \in [Group -> Seq(Words)]
        BY <1>1, TypesBefore
      <3> QED
        BY <1>1, <2>2, <3>1 DEF FinalComplete, Entry
    <2>3. CASE LastSave(g)
      BY <2>3 DEF LastSave
    <2> QED
      BY <2>1, <2>2, <2>3
  <1>3. ASSUME NEW h \in Group \ {g}, RunStep(h) PROVE mem'[g] = mem[g] /\ told'[g] = told[g]
    BY <1>1, <1>3, RunStepLocal DEF Others
  <1>4. CASE Boot
    BY <1>1, <1>4 DEF Boot, Placed, Alive
  <1>5. CASE ProcessEnd
    BY <1>1, <1>5, UntrackedType DEF ProcessEnd, Entry
  <1>6. CASE CancelRoot
    BY <1>1, <1>6 DEF CancelRoot, Entry
  <1>7. CASE DrainCopy \/ CloseStore \/ DrainTimeout \/ (\E h \in Group : DrainWait(h) \/ Expire(h)) \/ ReadStore
             \/ UNCHANGED vars
    BY <1>7 DEF DrainCopy, CloseStore, DrainTimeout, DrainWait, Expire, ReadStore, vars
  <1>8. ASSUME NEW h \in Group, NEW p \in Profile, Register(h, p)
        PROVE  mem'[g].state = mem[g].state /\ told' = told
    <2>1. g # h
      BY <1>1, <1>8 DEF Register
    <2>2. mem'[g] = mem[g] \/ mem'[g] = [mem[g] EXCEPT !.tracked = FALSE]
      BY <1>1, <1>8, <2>1, RegisterEntry
    <2> QED
      BY <1>1, <1>8, <2>2 DEF Register, Entry
  <1>9. ASSUME NEW h \in Group, Stop(h) PROVE mem'[g].state = mem[g].state /\ told' = told
    BY <1>1, <1>9 DEF Stop, Entry
  <1>10. CASE ReadMemory
    <2>1. mem'[g] = mem[g] \/ mem'[g] = [mem[g] EXCEPT !.tracked = FALSE]
      BY <1>1, <1>10, SweptType DEF ReadMemory
    <2> QED
      BY <1>1, <1>10, <2>1 DEF ReadMemory, Entry
  <1> QED
    BY <1>2, <1>3, <1>4, <1>5, <1>6, <1>7, <1>8, <1>9, <1>10 DEF Next

\* After the terminal signal a group is silent: no turn is recorded any more,
\* its status stays what was told, and only the completion is still announced,
\* restarts included.
THEOREM EndIsSilent == Spec => SilentAfterEnd
  <1>1. EndInv /\ [Next]_vars => [SilentStep]_vars
    BY EndedIsSilent
  <1>2. [][SilentStep]_vars => SilentAfterEnd
    BY PTL DEF SilentStep, SilentAfterEnd
  <1> QED
    BY <1>1, <1>2, EndsHold, PTL DEF Spec
=============================================================================
