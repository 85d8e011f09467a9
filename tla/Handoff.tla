------------------------------- MODULE Handoff -------------------------------
(***************************************************************************)
(* The life of desktop gateways: a process takes the instance lock, serves *)
(* and, on a signal or a restart asked for through the API, tears down     *)
(* once: the hooks of its ShutdownCoordinator under a budget, the critical *)
(* ones whatever it was, the last of them the release of the lock; then    *)
(* the root context is cancelled, turns still in flight are joined for a   *)
(* grace, and the process exits.  A restart spawns a child first, which    *)
(* polls for the lock until its own deadline.                              *)
(*                                                                         *)
(* Time is counted in units; an action takes none, so that what happens    *)
(* within a unit happens in any order.  The lock is a file: the path names *)
(* an inode or none, and flock is on inodes.                               *)
(***************************************************************************)
EXTENDS Integers, Sequences

CONSTANTS
    MaxProcs,         \* bound: processes, numbered as they start
    Hooks,            \* what the gateway registers, in order
    Budget,           \* DefaultShutdownBudget
    HandoffTimeout,   \* instanceLockHandoffTimeout
    JoinGrace,        \* finalTurnJoinGrace
    MaxFiles,         \* bound: lock files created
    Excused           \* hazards under which OneServing claims nothing

\* unlinked: Release removed the lock file while another process had it open.
Hazard == {"unlinked"}

ASSUME HandoffAssumption ==
    /\ Hooks \in Seq([does : {"release", "drain", "other"}, critical : BOOLEAN, timeout : Nat \ {0}])
    /\ Hooks # <<>> /\ Hooks[1] = [does |-> "release", critical |-> TRUE, timeout |-> Hooks[1].timeout]
    /\ MaxProcs \in Nat /\ Budget \in Nat /\ HandoffTimeout \in Nat /\ JoinGrace \in Nat /\ MaxFiles \in Nat
    /\ Excused \subseteq Hazard

VARIABLES
    pc,      \* by process: where it is in its life
    child,   \* by process: LELE_RESTART_CHILD
    waited,  \* by process: since its first attempt at the lock
    hook,    \* by process: the index of the hook RunAll is at
    spent,   \* by process: of the hook, or of the join, under way
    age,     \* by process: since its teardown began
    busy,    \* by process: turns in flight
    calls,   \* by process: who called runGracefulShutdown
    fd,      \* by process: the inode of its open lock file
    path,    \* the inode the lock file's path names, 0 when there is none
    holder,  \* by inode: the process that holds its flock
    files,   \* lock files created so far
    hurt     \* ghost: the hazards that struck

vars == <<pc, child, waited, hook, spent, age, busy, calls, fd, path, holder, files, hurt>>

Proc    == 1 .. MaxProcs
Nobody  == 0
Tearing == {"hooks", "unlink", "join"}

TypeOK ==
    /\ pc \in [Proc -> {"unborn", "try", "open", "sleep", "serving", "done", "gone", "gaveup"} \cup Tearing]
    /\ child \in [Proc -> BOOLEAN] /\ busy \in [Proc -> BOOLEAN]
    /\ waited \in [Proc -> 0 .. HandoffTimeout]
    /\ hook \in [Proc -> DOMAIN Hooks]
    /\ spent \in [Proc -> Nat] /\ age \in [Proc -> Nat]
    /\ calls \in [Proc -> SUBSET {"signal", "restart"}]
    /\ fd \in [Proc -> 0 .. MaxFiles] /\ path \in 0 .. MaxFiles /\ files \in 0 .. MaxFiles
    /\ holder \in [1 .. MaxFiles -> Proc \cup {Nobody}]
    /\ hurt \subseteq Hazard

\* RunAll's two loops: the budgeted hooks, then the critical ones, each from the
\* last registered down.
Earlier(i, j) == IF Hooks[i].critical = Hooks[j].critical THEN i > j ELSE Hooks[j].critical
Foremost(I)   == CHOOSE i \in I : \A j \in I \ {i} : Earlier(i, j)
FirstHook     == Foremost(DOMAIN Hooks)
HookAfter(i)  == Foremost({j \in DOMAIN Hooks : Earlier(i, j)})

Init ==
    /\ pc = [p \in Proc |-> "unborn"]
    /\ child = [p \in Proc |-> FALSE] /\ busy = [p \in Proc |-> FALSE]
    /\ waited = [p \in Proc |-> 0]
    /\ hook = [p \in Proc |-> FirstHook]
    /\ spent = [p \in Proc |-> 0] /\ age = [p \in Proc |-> 0]
    /\ calls = [p \in Proc |-> {}]
    /\ fd = [p \in Proc |-> 0] /\ path = 0 /\ files = 0
    /\ holder = [i \in 1 .. MaxFiles |-> Nobody]
    /\ hurt = {}

Alive(p) == pc[p] \notin {"unborn", "gone", "gaveup"}
NextUp(p) == pc[p] = "unborn" /\ \A q \in Proc : pc[q] = "unborn" => p <= q
Freed(p) == [i \in DOMAIN holder |-> IF holder[i] = p THEN Nobody ELSE holder[i]]

\* The end of the teardown, or of a process that is killed: the kernel takes
\* its flock back, the file stays.
Leave(p) ==
    /\ pc' = [pc EXCEPT ![p] = "gone"]
    /\ holder' = Freed(p)
    /\ fd' = [fd EXCEPT ![p] = 0]
    /\ child' = [child EXCEPT ![p] = FALSE]
    /\ busy' = [busy EXCEPT ![p] = FALSE]
    /\ waited' = [waited EXCEPT ![p] = 0]
    /\ hook' = [hook EXCEPT ![p] = FirstHook]
    /\ spent' = [spent EXCEPT ![p] = 0]
    /\ age' = [age EXCEPT ![p] = 0]
    /\ UNCHANGED <<calls, path, files, hurt>>

-----------------------------------------------------------------------------
(* The lock *)

\* A desktop shell launches a gateway.
Launch(p) ==
    /\ NextUp(p)
    /\ pc' = [pc EXCEPT ![p] = "try"]
    /\ UNCHANGED <<child, waited, hook, spent, age, busy, calls, fd, path, holder, files, hurt>>

\* os.OpenFile with O_CREATE.
OpenFile(p) ==
    /\ pc[p] = "try"
    /\ pc' = [pc EXCEPT ![p] = "open"]
    /\ IF path # 0
       THEN fd' = [fd EXCEPT ![p] = path] /\ UNCHANGED <<path, files>>
       ELSE /\ files < MaxFiles
            /\ files' = files + 1
            /\ path' = files' /\ fd' = [fd EXCEPT ![p] = files']
    /\ UNCHANGED <<child, waited, hook, spent, age, busy, calls, holder, hurt>>

\* A likely bug: the file is taken over because it was just released, created or
\* stale, whoever locked it since.
FreeAnyway(p) == TRUE

Free(p) == holder[fd[p]] = Nobody

\* The deadline of a child leaves no time for another poll.
\* A likely bug: a child tries once more after its deadline.
LastTryLate(p) == waited[p] > HandoffTimeout

LastTry(p) == waited[p] = HandoffTimeout

\* Acquire: flock, then take over the file, which may fail; and
\* acquireInstanceLock: a child polls.
LockExclusive(p) ==
    /\ pc[p] = "open"
    /\ \/ /\ Free(p)
          /\ holder' = [holder EXCEPT ![fd[p]] = p]
          /\ pc' = [pc EXCEPT ![p] = "serving"]
          /\ busy' = [busy EXCEPT ![p] = TRUE]
          /\ child' = [child EXCEPT ![p] = FALSE]
          /\ waited' = [waited EXCEPT ![p] = 0]
          /\ UNCHANGED <<hook, spent, age, calls, fd, path, files, hurt>>
       \/ /\ Free(p) \/ ~child[p]
          /\ Leave(p)
       \/ /\ ~Free(p) /\ child[p]
          /\ pc' = [pc EXCEPT ![p] = IF LastTry(p) THEN "gaveup" ELSE "sleep"]
          /\ fd' = [fd EXCEPT ![p] = 0]
          /\ UNCHANGED <<child, waited, hook, spent, age, busy, calls, path, holder, files, hurt>>

-----------------------------------------------------------------------------
(* The teardown *)

At(p)      == Hooks[hook[p]]
Between(p) == pc[p] = "hooks"

\* Turns come and go until the loop stops; one in flight then may go on for
\* ever, the cancel of the root context included.
TurnEnds(p) ==
    /\ Alive(p) /\ busy[p]
    /\ busy' = [busy EXCEPT ![p] = FALSE]
    /\ UNCHANGED <<pc, child, waited, hook, spent, age, calls, fd, path, holder, files, hurt>>

\* The first call of runGracefulShutdown runs the teardown, the others wait.
Begin(p, who) ==
    /\ calls' = [calls EXCEPT ![p] = @ \cup {who}]
    /\ IF pc[p] = "serving"
       THEN pc' = [pc EXCEPT ![p] = "hooks"]
       ELSE UNCHANGED pc

\* SIGTERM or SIGINT, once.
Signal(p) ==
    /\ pc[p] \in {"serving"} \cup Tearing /\ "signal" \notin calls[p]
    /\ Begin(p, "signal")
    /\ UNCHANGED <<child, waited, hook, spent, age, busy, fd, path, holder, files, hurt>>

\* Restart on the self-exec path: the child is spawned before the teardown
\* begins, or even when it has.  Nothing happens when the spawn fails.
Restart(p, q) ==
    /\ pc[p] \in {"serving"} \cup Tearing
    /\ NextUp(q)
    /\ calls' = [calls EXCEPT ![p] = @ \cup {"restart"}]
    /\ pc' = [pc EXCEPT ![p] = IF @ = "serving" THEN "hooks" ELSE @, ![q] = "try"]
    /\ child' = [child EXCEPT ![q] = TRUE]
    /\ UNCHANGED <<waited, hook, spent, age, busy, fd, path, holder, files, hurt>>

\* A likely bug: a hook has its own timeout, however little of the budget is left.
LimitAlone(p) == IF pc[p] = "join" THEN JoinGrace ELSE At(p).timeout

\* What a hook, or the join, may take.
Limit(p) ==
    IF pc[p] = "join" THEN JoinGrace
    ELSE IF At(p).critical \/ At(p).timeout <= Budget - (age[p] - spent[p]) THEN At(p).timeout
    ELSE Budget - (age[p] - spent[p])

NextHook(p) ==
    /\ hook' = [hook EXCEPT ![p] = HookAfter(@)]
    /\ spent' = [spent EXCEPT ![p] = 0]
    /\ UNCHANGED <<child, waited, age, busy, calls, fd, path, holder, files, hurt>>

\* The budget is spent: a hook that is not critical is skipped.
SkipHook(p) ==
    /\ Between(p)
    /\ ~At(p).critical /\ spent[p] = 0 /\ age[p] >= Budget
    /\ UNCHANGED pc
    /\ NextHook(p)

\* It returns, fails or panics, or it times out and is left behind; the drain
\* returns when no turn is in flight.
RunHook(p) ==
    /\ Between(p) /\ At(p).does # "release"
    /\ At(p).critical \/ age[p] - spent[p] < Budget
    /\ spent[p] = Limit(p) \/ At(p).does # "drain" \/ ~busy[p]
    /\ UNCHANGED pc
    /\ NextHook(p)

\* Release: truncate, unlock, close.
Unlock(p) ==
    /\ Between(p) /\ At(p).does = "release"
    /\ holder' = Freed(p)
    /\ pc' = [pc EXCEPT ![p] = "unlink"]
    /\ UNCHANGED <<child, waited, hook, spent, age, busy, calls, fd, path, files, hurt>>

\* Release: os.Remove of the path, whatever file it names by now.
Unlink(p) ==
    /\ pc[p] = "unlink"
    /\ path' = 0
    /\ fd' = [fd EXCEPT ![p] = 0]
    /\ hurt' = IF \E q \in Proc \ {p} : path # 0 /\ fd[q] = path THEN hurt \cup {"unlinked"} ELSE hurt
    /\ pc' = [pc EXCEPT ![p] = "join"]
    /\ spent' = [spent EXCEPT ![p] = 0]
    /\ UNCHANGED <<child, waited, hook, age, busy, calls, holder, files>>

\* A likely bug: the join waits for the turns however long they take.
JoinOverNever(p) == ~busy[p]

JoinOver(p) == ~busy[p] \/ spent[p] = JoinGrace

\* StopWithin, after the cancel of the root context.
StopWithin(p) ==
    /\ pc[p] = "join"
    /\ JoinOver(p)
    /\ pc' = [pc EXCEPT ![p] = "done"]
    /\ UNCHANGED <<child, waited, hook, spent, age, busy, calls, fd, path, holder, files, hurt>>

Exit(p) == pc[p] = "done" /\ Leave(p)
Kill(p) == Alive(p) /\ Leave(p)

-----------------------------------------------------------------------------
\* Time passes for all, unless something is due by now.  A child polls once in a
\* unit, at any point of it.
Urgent(p) ==
    \/ pc[p] \in {"try", "open", "unlink", "done"}
    \/ pc[p] = "join" /\ spent[p] = JoinGrace
    \/ Between(p) /\ (At(p).does = "release" \/ spent[p] >= Limit(p))

Tick ==
    /\ \A p \in Proc : ~Urgent(p)
    /\ \E p \in Proc : pc[p] \in Tearing \cup {"sleep"}
    /\ pc' = [p \in Proc |-> IF pc[p] = "sleep" THEN "try" ELSE pc[p]]
    /\ waited' = [p \in Proc |-> waited[p] + IF pc[p] = "sleep" THEN 1 ELSE 0]
    /\ age' = [p \in Proc |-> age[p] + IF pc[p] \in Tearing THEN 1 ELSE 0]
    /\ spent' = [p \in Proc |-> spent[p] + IF pc[p] \in Tearing THEN 1 ELSE 0]
    /\ UNCHANGED <<child, hook, busy, calls, fd, path, holder, files, hurt>>

Step(p) ==
    \/ OpenFile(p) \/ LockExclusive(p)
    \/ SkipHook(p) \/ RunHook(p) \/ Unlock(p) \/ Unlink(p) \/ StopWithin(p) \/ Exit(p)

Next ==
    \/ \E p \in Proc : Step(p) \/ Launch(p) \/ Signal(p) \/ TurnEnds(p) \/ Kill(p)
    \/ \E p, q \in Proc : Restart(p, q)
    \/ Tick

Spec == Init /\ [][Next]_vars

\* The processes run, and time passes.
FairSpec == Spec /\ WF_vars(Tick) /\ \A p \in Proc : WF_vars(Step(p))

-----------------------------------------------------------------------------
(* Properties *)

Excusing == hurt \cap Excused # {}

\* Two gateways never work at a time: a process serves or runs its hooks only
\* while no other does, however launches, restarts, releases and deaths fall.
OneServing ==
    \/ Excusing
    \/ \A p, q \in Proc : pc[p] \in {"serving", "hooks"} /\ pc[q] \in {"serving", "hooks"} => p = q

\* The timeouts of the critical hooks, but for the release, among the first n.
CriticalTime[n \in 0 .. Len(Hooks)] ==
    IF n = 0 THEN 0
    ELSE CriticalTime[n - 1] + IF Hooks[n].critical /\ Hooks[n].does # "release" THEN Hooks[n].timeout ELSE 0

Allowance == Budget + CriticalTime[Len(Hooks)]

\* The lock is let go within the budget and the timeouts of the critical hooks
\* before its own (letting it go takes no time here), and the process is ready to
\* exit a grace later, whatever hangs: a drain, a hook, a turn that ignores its
\* context.
TeardownBounded ==
    \A p \in Proc : /\ pc[p] \in {"hooks", "unlink"} => age[p] <= Allowance
                    /\ pc[p] \in {"join", "done"} => age[p] <= Allowance + JoinGrace

\* A teardown that a signal or a restart began comes to its end, and the poll of
\* a child to a decision.
TeardownEnds ==
    \A p \in Proc : pc[p] \in Tearing \cup {"try"} ~> pc[p] \notin Tearing \cup {"try", "open", "sleep"}

\* What the code does not keep.  A restart leaves a gateway: no child gives up on
\* a predecessor that is about to let the lock go (gateway.go on
\* instanceLockHandoffTimeout: "It must comfortably exceed the shutdown budget").
HandsOver ==
    \A p \in Proc : pc[p] = "gaveup" =>
        \E q \in Proc : pc[q] = "serving" \/ "signal" \in calls[q]

\* The turns of one gateway are over when the next one serves.
TurnsHandedOver ==
    \A p, q \in Proc : pc[p] = "serving" /\ pc[q] = "join" => ~busy[q]

\* A gateway that was told to stop does not start another.
SignalStops ==
    [][\A p, q \in Proc : "signal" \in calls[p] /\ pc[q] = "unborn" => ~Restart(p, q)]_vars
=============================================================================
