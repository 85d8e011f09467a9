---------------------------- MODULE HandoffProofs ----------------------------
(***************************************************************************)
(* Proofs about Handoff, for any number of processes and files and any     *)
(* hooks and timeouts.                                                     *)
(***************************************************************************)
EXTENDS Handoff, WellFoundedInduction, TLAPS

\* A child that sleeps has time for another poll.
SleepsInTime == \A p \in Proc : pc[p] = "sleep" => waited[p] < HandoffTimeout

\* Unless a lock file was removed under a process that had it open, every open
\* lock file is the one the path names.
OpenIsNamed == hurt = {} => \A p \in Proc : fd[p] # 0 => fd[p] = path

\* A process that works holds the lock of the file it has open.
WorksUnderLock ==
    \A p \in Proc : pc[p] \in {"serving", "hooks"} => fd[p] # 0 /\ holder[fd[p]] = p

\* A process is at its first poll, or further, only with its file open.
OpenHasFile == \A p \in Proc : pc[p] = "open" => fd[p] # 0

TypeInv == TypeOK /\ SleepsInTime
LockInv == OpenIsNamed /\ WorksUnderLock /\ OpenHasFile

-----------------------------------------------------------------------------
\* Killing or ending a process takes its locks and nobody else's.
LEMMA FreedOnly ==
    ASSUME NEW p \in Proc, holder \in [1 .. MaxFiles -> Proc \cup {Nobody}]
    PROVE  /\ Freed(p) \in [1 .. MaxFiles -> Proc \cup {Nobody}]
           /\ \A i \in 1 .. MaxFiles : holder[i] # p => Freed(p)[i] = holder[i]
  BY DEF Freed, Nobody

\* A set of numbers has a smallest one: induction without an operator to
\* instantiate.
LEMMA SmallestExists ==
    ASSUME NEW T, T \subseteq Nat, T # {}
    PROVE  \E x \in T : \A y \in T : x <= y
  <1>1. PICK x \in T : \A y \in T : ~(<<y, x>> \in OpToRel(<, Nat))
    BY NatLessThanWellFounded, WFMin
  <1>2. \A y \in T : ~(y < x)
    BY <1>1 DEF OpToRel
  <1> QED
    BY <1>2

LEMMA HookType ==
    /\ Len(Hooks) \in Nat \ {0} /\ DOMAIN Hooks = 1 .. Len(Hooks)
    /\ \A i \in DOMAIN Hooks : Hooks[i].critical \in BOOLEAN /\ Hooks[i].timeout \in Nat
    /\ Hooks[1].critical /\ Hooks[1].does = "release" /\ 1 \in DOMAIN Hooks
  <1>1. /\ Hooks \in Seq([does : {"release", "drain", "other"}, critical : BOOLEAN, timeout : Nat \ {0}])
        /\ Hooks # <<>>
    BY HandoffAssumption
  <1>2. Len(Hooks) \in Nat \ {0} /\ DOMAIN Hooks = 1 .. Len(Hooks)
    BY <1>1
  <1>3. ASSUME NEW i \in DOMAIN Hooks PROVE Hooks[i].critical \in BOOLEAN /\ Hooks[i].timeout \in Nat
    <2>1. Hooks[i] \in [does : {"release", "drain", "other"}, critical : BOOLEAN, timeout : Nat \ {0}]
      <3>1. \A S : \A h \in Seq(S) : \A k \in 1 .. Len(h) : h[k] \in S
        OBVIOUS
      <3> QED
        BY <1>1, <1>2, <1>3, <3>1, Zenon
    <2> QED
      BY <2>1
  <1>4. Hooks[1].critical /\ Hooks[1].does = "release"
    BY HandoffAssumption
  <1> QED
    BY <1>2, <1>3, <1>4

\* Of any hooks one is RunAll's first: the last registered of the budgeted ones,
\* or of all when none is budgeted.
LEMMA ForemostIs ==
    ASSUME NEW I, I \subseteq DOMAIN Hooks, I # {}
    PROVE  Foremost(I) \in I /\ \A j \in I \ {Foremost(I)} : Earlier(Foremost(I), j)
  <1>1. \E J : /\ J # {} /\ J \subseteq I
               /\ \A j \in J, k \in I : ~Hooks[k].critical => ~Hooks[j].critical
               /\ \A k \in I \ J : Hooks[k].critical /\ \A j \in J : ~Hooks[j].critical
    <2>1. CASE \E i \in I : ~Hooks[i].critical
      <3> WITNESS {i \in I : ~Hooks[i].critical}
      <3> QED
        BY <2>1
    <2>2. CASE \A i \in I : Hooks[i].critical
      <3> WITNESS I
      <3> QED
        BY <2>2
    <2> QED
      BY <2>1, <2>2
  <1>2. PICK J : /\ J # {} /\ J \subseteq I
                 /\ \A j \in J, k \in I : ~Hooks[k].critical => ~Hooks[j].critical
                 /\ \A k \in I \ J : Hooks[k].critical /\ \A j \in J : ~Hooks[j].critical
    BY <1>1
  <1> DEFINE D == {Len(Hooks) - j : j \in J}
  <1>3. \A j \in J : j \in 1 .. Len(Hooks)
    BY <1>2, HookType
  <1>4. D \subseteq Nat /\ D # {}
    BY <1>2, <1>3, HookType
  <1>5. PICK n \in D : \A m \in D : n <= m
    BY <1>4, SmallestExists
  <1>6. PICK i \in J : n = Len(Hooks) - i
    BY <1>5
  <1>7. ASSUME NEW j \in J PROVE j <= i
    <2>1. Len(Hooks) - i <= Len(Hooks) - j
      BY <1>5, <1>6
    <2> QED
      BY <1>3, <2>1, HookType
  <1>8. ASSUME NEW j \in I \ {i} PROVE Earlier(i, j)
    <2>1. i \in 1 .. Len(Hooks) /\ j \in 1 .. Len(Hooks)
      BY <1>2, <1>3, HookType
    <2>2. CASE j \in J
      <3>1. i > j
        BY <1>7, <1>8, <2>1, <2>2
      <3>2. Hooks[i].critical = Hooks[j].critical
        BY <1>2, <1>6, <2>1, <2>2, HookType
      <3> QED
        BY <3>1, <3>2 DEF Earlier
    <2>3. CASE j \notin J
      <3>1. Hooks[j].critical /\ ~Hooks[i].critical
        BY <1>2, <1>6, <1>8, <2>3
      <3> QED
        BY <3>1 DEF Earlier
    <2> QED
      BY <2>2, <2>3
  <1>9. \E k \in I : \A j \in I \ {k} : Earlier(k, j)
    BY <1>2, <1>6, <1>8
  <1> QED
    BY <1>9 DEF Foremost

LEMMA FirstIsHook == FirstHook \in DOMAIN Hooks
  BY HandoffAssumption, ForemostIs DEF FirstHook

\* After a hook that is not the last, the release, comes one that is later.
LEMMA AfterIsLater ==
    ASSUME NEW i \in DOMAIN Hooks, i # 1
    PROVE  HookAfter(i) \in DOMAIN Hooks /\ Earlier(i, HookAfter(i))
  <1> DEFINE I == {j \in DOMAIN Hooks : Earlier(i, j)}
  <1>1. 1 \in I
    BY HandoffAssumption DEF Earlier
  <1>2. Foremost(I) \in I
    BY <1>1, ForemostIs
  <1> QED
    BY <1>2 DEF HookAfter

LEMMA TypeInit == Init => TypeInv
  BY HandoffAssumption, FirstIsHook DEF Init, TypeInv, TypeOK, SleepsInTime, Proc, Nobody, Tearing, Hazard

LEMMA LeaveType ==
    ASSUME TypeInv, NEW p \in Proc, Leave(p)
    PROVE  TypeInv'
  <1>1. holder' \in [1 .. MaxFiles -> Proc \cup {Nobody}]
    BY FreedOnly DEF TypeInv, TypeOK, Leave
  <1>2. SleepsInTime'
    BY HandoffAssumption DEF TypeInv, TypeOK, SleepsInTime, Leave
  <1>3. /\ pc' \in [Proc -> {"unborn", "try", "open", "sleep", "serving", "done", "gone", "gaveup"} \cup Tearing]
        /\ child' \in [Proc -> BOOLEAN] /\ busy' \in [Proc -> BOOLEAN]
    BY DEF TypeInv, TypeOK, Leave
  <1>4. waited' \in [Proc -> 0 .. HandoffTimeout] /\ fd' \in [Proc -> 0 .. MaxFiles]
    BY HandoffAssumption DEF TypeInv, TypeOK, Leave
  <1>5. /\ hook' \in [Proc -> DOMAIN Hooks]
        /\ spent' \in [Proc -> Nat] /\ age' \in [Proc -> Nat]
    BY FirstIsHook DEF TypeInv, TypeOK, Leave
  <1>6. TypeOK'
    BY <1>1, <1>3, <1>4, <1>5 DEF TypeInv, TypeOK, Leave
  <1> QED
    BY <1>2, <1>6 DEF TypeInv

LEMMA NextHookType ==
    ASSUME TypeInv, NEW p \in Proc, hook[p] # 1, NextHook(p), UNCHANGED pc
    PROVE  TypeInv'
  <1>1. HookAfter(hook[p]) \in DOMAIN Hooks
    BY AfterIsLater DEF TypeInv, TypeOK
  <1>2. hook' \in [Proc -> DOMAIN Hooks]
    BY <1>1 DEF TypeInv, TypeOK, NextHook
  <1>3. spent' \in [Proc -> Nat]
    BY DEF TypeInv, TypeOK, NextHook
  <1> QED
    BY <1>2, <1>3 DEF TypeInv, TypeOK, SleepsInTime, NextHook

LEMMA StepType ==
    ASSUME TypeInv, [Next]_vars
    PROVE  TypeInv'
  <1> USE HandoffAssumption DEF TypeInv
  <1>1. CASE UNCHANGED vars
    BY <1>1 DEF TypeOK, SleepsInTime, vars
  <1>2. ASSUME NEW p \in Proc, Launch(p) PROVE TypeInv'
    BY <1>2 DEF TypeOK, SleepsInTime, Launch
  <1>3. ASSUME NEW p \in Proc, OpenFile(p) PROVE TypeInv'
    <2>1. CASE path # 0
      BY <1>3, <2>1 DEF TypeOK, SleepsInTime, OpenFile
    <2>2. CASE path = 0
      <3>1. files' \in 0 .. MaxFiles /\ path' \in 0 .. MaxFiles
        BY <1>3, <2>2 DEF TypeOK, OpenFile
      <3>2. fd' \in [Proc -> 0 .. MaxFiles]
        BY <1>3, <2>2, <3>1 DEF TypeOK, OpenFile
      <3> QED
        BY <1>3, <3>1, <3>2 DEF TypeOK, SleepsInTime, OpenFile
    <2> QED
      BY <2>1, <2>2
  <1>4. ASSUME NEW p \in Proc, LockExclusive(p) PROVE TypeInv'
    <2>1. CASE Leave(p)
      BY <2>1, LeaveType
    <2>2. CASE Free(p) /\ ~Leave(p)
      <3>1. pc' = [pc EXCEPT ![p] = "serving"] /\ holder' = [holder EXCEPT ![fd[p]] = p]
        BY <1>4, <2>2 DEF LockExclusive
      <3>2. busy' = [busy EXCEPT ![p] = TRUE] /\ child' = [child EXCEPT ![p] = FALSE]
        BY <1>4, <2>2 DEF LockExclusive
      <3>3. waited' = [waited EXCEPT ![p] = 0]
            /\ UNCHANGED <<hook, spent, age, calls, fd, path, files, hurt>>
        BY <1>4, <2>2 DEF LockExclusive
      <3>4. busy' \in [Proc -> BOOLEAN] /\ child' \in [Proc -> BOOLEAN]
        BY <3>2 DEF TypeOK
      <3>5. waited' \in [Proc -> 0 .. HandoffTimeout] /\ SleepsInTime'
        BY <3>1, <3>3 DEF TypeOK, SleepsInTime
      <3>6. pc' \in [Proc -> {"unborn", "try", "open", "sleep", "serving", "done", "gone", "gaveup"} \cup Tearing]
        BY <3>1 DEF TypeOK
      <3>7. holder' \in [1 .. MaxFiles -> Proc \cup {Nobody}]
        BY <3>1 DEF TypeOK
      <3> QED
        BY <3>3, <3>4, <3>5, <3>6, <3>7 DEF TypeOK
    <2>3. CASE ~Free(p) /\ ~Leave(p)
      <3>1. /\ pc' = [pc EXCEPT ![p] = IF LastTry(p) THEN "gaveup" ELSE "sleep"]
            /\ fd' = [fd EXCEPT ![p] = 0]
            /\ UNCHANGED <<child, waited, hook, spent, age, busy, calls, path, holder, files, hurt>>
        BY <1>4, <2>3 DEF LockExclusive
      <3>2. pc' \in [Proc -> {"unborn", "try", "open", "sleep", "serving", "done", "gone", "gaveup"} \cup Tearing]
        BY <3>1 DEF TypeOK
      <3>3. SleepsInTime'
        BY <3>1 DEF TypeOK, SleepsInTime, LastTry
      <3>4. fd' \in [Proc -> 0 .. MaxFiles]
        BY <3>1 DEF TypeOK
      <3> QED
        BY <3>1, <3>2, <3>3, <3>4 DEF TypeOK
    <2> QED
      BY <1>4, <2>1, <2>2, <2>3 DEF LockExclusive
  <1>5. ASSUME NEW p \in Proc, SkipHook(p) PROVE TypeInv'
    BY <1>5, NextHookType DEF SkipHook, At
  <1>6. ASSUME NEW p \in Proc, RunHook(p) PROVE TypeInv'
    BY <1>6, NextHookType DEF RunHook, At
  <1>7. ASSUME NEW p \in Proc, Unlock(p) PROVE TypeInv'
    BY <1>7, FreedOnly DEF TypeOK, SleepsInTime, Unlock, Tearing
  <1>8. ASSUME NEW p \in Proc, Unlink(p) PROVE TypeInv'
    <2>1. hurt' \subseteq Hazard
      BY <1>8 DEF TypeOK, Unlink, Hazard
    <2>2. path' \in 0 .. MaxFiles /\ fd' \in [Proc -> 0 .. MaxFiles] /\ spent' \in [Proc -> Nat]
      BY <1>8 DEF TypeOK, Unlink
    <2> QED
      BY <1>8, <2>1, <2>2 DEF TypeOK, SleepsInTime, Unlink, Tearing
  <1>9. ASSUME NEW p \in Proc, StopWithin(p) PROVE TypeInv'
    BY <1>9 DEF TypeOK, SleepsInTime, StopWithin
  <1>10. ASSUME NEW p \in Proc, Exit(p) \/ Kill(p) PROVE TypeInv'
    BY <1>10, LeaveType DEF Exit, Kill
  <1>11. ASSUME NEW p \in Proc, TurnEnds(p) PROVE TypeInv'
    BY <1>11 DEF TypeOK, SleepsInTime, TurnEnds
  <1>12. ASSUME NEW p \in Proc, Signal(p) PROVE TypeInv'
    BY <1>12 DEF TypeOK, SleepsInTime, Signal, Begin, Tearing
  <1>13. ASSUME NEW p \in Proc, NEW q \in Proc, Restart(p, q) PROVE TypeInv'
    BY <1>13 DEF TypeOK, SleepsInTime, Restart, Tearing
  <1>14. ASSUME Tick PROVE TypeInv'
    <2>1. pc' \in [Proc -> {"unborn", "try", "open", "sleep", "serving", "done", "gone", "gaveup"} \cup Tearing]
      BY <1>14 DEF TypeOK, Tick
    <2>2. waited' \in [Proc -> 0 .. HandoffTimeout]
      <3>1. \A p \in Proc : waited[p] + (IF pc[p] = "sleep" THEN 1 ELSE 0) \in 0 .. HandoffTimeout
        BY DEF TypeOK, SleepsInTime
      <3> QED
        BY <1>14, <3>1 DEF Tick
    <2>3. age' \in [Proc -> Nat] /\ spent' \in [Proc -> Nat]
      <3>1. \A p \in Proc : /\ age[p] + (IF pc[p] \in Tearing THEN 1 ELSE 0) \in Nat
                            /\ spent[p] + (IF pc[p] \in Tearing THEN 1 ELSE 0) \in Nat
        BY DEF TypeOK
      <3> QED
        BY <1>14, <3>1 DEF Tick
    <2>4. \A p \in Proc : pc'[p] # "sleep"
      BY <1>14 DEF TypeOK, Tick, Tearing
    <2> QED
      BY <1>14, <2>1, <2>2, <2>3, <2>4 DEF TypeOK, SleepsInTime, Tick
  <1> QED
    BY <1>1, <1>2, <1>3, <1>4, <1>5, <1>6, <1>7, <1>8, <1>9, <1>10, <1>11, <1>12, <1>13, <1>14
       DEF Next, Step

\* Every variable of the handoff has its type, whatever the hooks, their
\* timeouts and the number of gateways: a child in particular never polls past
\* its deadline (acquireInstanceLock).
THEOREM TypeCorrect == Spec => []TypeOK
  <1>1. TypeInv /\ [Next]_vars => TypeInv'
    BY StepType
  <1>2. TypeInv => TypeOK
    BY DEF TypeInv
  <1> QED
    BY <1>1, <1>2, TypeInit, PTL DEF Spec

-----------------------------------------------------------------------------
LEMMA LockInit == Init => LockInv
  BY DEF Init, LockInv, OpenIsNamed, WorksUnderLock, OpenHasFile

LEMMA LeaveLock ==
    ASSUME TypeInv, LockInv, NEW p \in Proc, Leave(p)
    PROVE  LockInv'
  <1> USE DEF TypeInv, TypeOK, LockInv
  <1>1. fd' = [fd EXCEPT ![p] = 0] /\ pc' = [pc EXCEPT ![p] = "gone"] /\ path' = path /\ hurt' = hurt
    BY DEF Leave
  <1>2. OpenIsNamed'
    BY <1>1 DEF OpenIsNamed
  <1>3. OpenHasFile'
    BY <1>1 DEF OpenHasFile
  <1>4. ASSUME NEW q \in Proc, pc'[q] \in {"serving", "hooks"} PROVE fd'[q] # 0 /\ holder'[fd'[q]] = q
    <2>1. q # p /\ pc[q] = pc'[q] /\ fd'[q] = fd[q]
      BY <1>1, <1>4
    <2>2. fd[q] # 0 /\ holder[fd[q]] = q /\ fd[q] \in 1 .. MaxFiles
      <3>1. fd[q] # 0 /\ holder[fd[q]] = q
        BY <1>4, <2>1 DEF WorksUnderLock
      <3>2. fd[q] \in 0 .. MaxFiles
        BY DEF TypeOK
      <3> QED
        BY <3>1, <3>2, HandoffAssumption
    <2>3. holder' = Freed(p)
      BY DEF Leave
    <2>4. Freed(p)[fd[q]] = q
      BY <2>1, <2>2, FreedOnly
    <2> QED
      BY <2>1, <2>2, <2>3, <2>4, Zenon
  <1> QED
    BY <1>2, <1>3, <1>4 DEF WorksUnderLock

LEMMA OpenFileLock ==
    ASSUME TypeInv, LockInv, NEW p \in Proc, OpenFile(p)
    PROVE  LockInv'
  <1> USE DEF TypeInv, TypeOK, LockInv
  <1>1. /\ pc[p] = "try" /\ pc' = [pc EXCEPT ![p] = "open"]
        /\ holder' = holder /\ hurt' = hurt
    BY DEF OpenFile
  <1>2. path' # 0 /\ fd' = [fd EXCEPT ![p] = path']
    BY HandoffAssumption DEF OpenFile
  <1>3. path # 0 => path' = path
    BY DEF OpenFile
  <1>4. OpenIsNamed'
    BY <1>1, <1>2, <1>3 DEF OpenIsNamed
  <1>5. OpenHasFile'
    BY <1>1, <1>2 DEF OpenHasFile
  <1>6. WorksUnderLock'
    BY <1>1, <1>2 DEF WorksUnderLock
  <1> QED
    BY <1>4, <1>5, <1>6

LEMMA LockExclusiveLock ==
    ASSUME TypeInv, LockInv, NEW p \in Proc, LockExclusive(p)
    PROVE  LockInv'
  <1> USE DEF TypeInv, TypeOK, LockInv
  <1>1. CASE Leave(p)
    BY <1>1, LeaveLock
  <1>2. CASE Free(p) /\ ~Leave(p)
    <2>1. /\ pc[p] = "open" /\ pc' = [pc EXCEPT ![p] = "serving"]
          /\ holder' = [holder EXCEPT ![fd[p]] = p] /\ UNCHANGED <<fd, path, hurt>>
      BY <1>2 DEF LockExclusive
    <2>2. holder[fd[p]] = Nobody /\ fd[p] \in 1 .. MaxFiles
      BY <1>2, <2>1, HandoffAssumption DEF Free, OpenHasFile
    <2>3. ASSUME NEW q \in Proc, pc'[q] \in {"serving", "hooks"} PROVE fd'[q] # 0 /\ holder'[fd'[q]] = q
      <3>1. CASE q = p
        BY <2>1, <2>2, <3>1
      <3>2. CASE q # p
        <4>1. fd[q] # 0 /\ holder[fd[q]] = q /\ q # Nobody
          BY <2>1, <2>3, <3>2 DEF WorksUnderLock, Proc, Nobody
        <4> QED
          BY <2>1, <2>2, <4>1
      <3> QED
        BY <3>1, <3>2
    <2> QED
      BY <2>1, <2>3 DEF OpenIsNamed, OpenHasFile, WorksUnderLock
  <1>3. CASE ~Free(p) /\ ~Leave(p)
    <2>1. /\ pc[p] = "open" /\ pc' = [pc EXCEPT ![p] = IF LastTry(p) THEN "gaveup" ELSE "sleep"]
          /\ fd' = [fd EXCEPT ![p] = 0] /\ UNCHANGED <<holder, path, hurt>>
      BY <1>3 DEF LockExclusive
    <2> QED
      BY <2>1 DEF OpenIsNamed, OpenHasFile, WorksUnderLock
  <1> QED
    BY <1>1, <1>2, <1>3

LEMMA UnlockLock ==
    ASSUME TypeInv, LockInv, NEW p \in Proc, Unlock(p)
    PROVE  LockInv'
  <1> USE DEF TypeInv, TypeOK, LockInv
  <1>1. pc' = [pc EXCEPT ![p] = "unlink"] /\ holder' = Freed(p) /\ UNCHANGED <<fd, path, hurt>>
    BY DEF Unlock
  <1>2. ASSUME NEW q \in Proc, pc'[q] \in {"serving", "hooks"} PROVE fd'[q] # 0 /\ holder'[fd'[q]] = q
    <2>1. q # p /\ fd[q] # 0 /\ holder[fd[q]] = q /\ fd[q] \in 1 .. MaxFiles
      <3>1. q # p /\ fd[q] # 0 /\ holder[fd[q]] = q
        BY <1>1, <1>2 DEF WorksUnderLock
      <3>2. fd[q] \in 0 .. MaxFiles
        BY DEF TypeOK
      <3> QED
        BY <3>1, <3>2, HandoffAssumption
    <2>2. Freed(p)[fd[q]] = q
      BY <2>1, FreedOnly
    <2> QED
      BY <1>1, <2>1, <2>2, Zenon
  <1> QED
    BY <1>1, <1>2 DEF OpenIsNamed, OpenHasFile, WorksUnderLock

LEMMA UnlinkLock ==
    ASSUME TypeInv, LockInv, NEW p \in Proc, Unlink(p)
    PROVE  LockInv'
  <1> USE DEF TypeInv, TypeOK, LockInv
  <1>1. /\ pc' = [pc EXCEPT ![p] = "join"] /\ fd' = [fd EXCEPT ![p] = 0]
        /\ path' = 0 /\ holder' = holder
    BY DEF Unlink
  <1>2. ASSUME hurt' = {}, NEW q \in Proc PROVE fd'[q] = 0
    <2>1. hurt = {} /\ ~\E r \in Proc \ {p} : path # 0 /\ fd[r] = path
      BY <1>2 DEF Unlink
    <2> QED
      BY <1>1, <2>1 DEF OpenIsNamed
  <1> QED
    BY <1>1, <1>2 DEF OpenIsNamed, OpenHasFile, WorksUnderLock

\* What the other actions do to the lock: nothing; and no process begins to work
\* or to poll by them.
LEMMA LockFrame ==
    ASSUME TypeInv, LockInv, UNCHANGED <<fd, path, holder, hurt>>,
           \A p \in Proc : /\ pc'[p] \in {"serving", "hooks"} => pc[p] \in {"serving", "hooks"}
                           /\ pc'[p] = "open" => pc[p] = "open"
    PROVE  LockInv'
  <1>1. OpenIsNamed'
    BY DEF LockInv, OpenIsNamed
  <1>2. OpenHasFile'
    BY DEF LockInv, OpenHasFile
  <1>3. ASSUME NEW p \in Proc, pc'[p] \in {"serving", "hooks"} PROVE fd'[p] # 0 /\ holder'[fd'[p]] = p
    <2>1. pc[p] \in {"serving", "hooks"}
      BY <1>3
    <2>2. fd' = fd /\ holder' = holder
      OBVIOUS
    <2> QED
      BY <2>1, <2>2 DEF LockInv, WorksUnderLock
  <1> QED
    BY <1>1, <1>2, <1>3 DEF LockInv, WorksUnderLock

LEMMA StepLock ==
    ASSUME TypeInv, LockInv, [Next]_vars
    PROVE  LockInv'
  <1> USE DEF TypeInv, TypeOK
  <1>1. CASE UNCHANGED vars
    BY <1>1, LockFrame DEF vars
  <1>2. ASSUME NEW p \in Proc, Launch(p) PROVE LockInv'
    BY <1>2, LockFrame DEF Launch
  <1>3. ASSUME NEW p \in Proc, OpenFile(p) PROVE LockInv'
    BY <1>3, OpenFileLock
  <1>4. ASSUME NEW p \in Proc, LockExclusive(p) PROVE LockInv'
    BY <1>4, LockExclusiveLock
  <1>5. ASSUME NEW p \in Proc, SkipHook(p) \/ RunHook(p) PROVE LockInv'
    BY <1>5, LockFrame DEF SkipHook, RunHook, NextHook
  <1>6. ASSUME NEW p \in Proc, Unlock(p) PROVE LockInv'
    BY <1>6, UnlockLock
  <1>7. ASSUME NEW p \in Proc, Unlink(p) PROVE LockInv'
    BY <1>7, UnlinkLock
  <1>8. ASSUME NEW p \in Proc, StopWithin(p) PROVE LockInv'
    BY <1>8, LockFrame DEF StopWithin
  <1>9. ASSUME NEW p \in Proc, Exit(p) \/ Kill(p) PROVE LockInv'
    BY <1>9, LeaveLock DEF Exit, Kill
  <1>10. ASSUME NEW p \in Proc, TurnEnds(p) PROVE LockInv'
    BY <1>10, LockFrame DEF TurnEnds
  <1>11. ASSUME NEW p \in Proc, Signal(p) PROVE LockInv'
    BY <1>11, LockFrame DEF Signal, Begin
  <1>12. ASSUME NEW p \in Proc, NEW q \in Proc, Restart(p, q) PROVE LockInv'
    BY <1>12, LockFrame DEF Restart, NextUp
  <1>13. ASSUME Tick PROVE LockInv'
    BY <1>13, LockFrame DEF Tick
  <1> QED
    BY <1>1, <1>2, <1>3, <1>4, <1>5, <1>6, <1>7, <1>8, <1>9, <1>10, <1>11, <1>12, <1>13
       DEF Next, Step

\* No two gateways work at a time, for any number of processes, files and hooks
\* and any timeouts, as long as no lock file was removed under a process that had
\* it open (lockfile.go, Acquire and Release).
THEOREM OneGateway ==
    ASSUME Hazard \subseteq Excused
    PROVE  Spec => []OneServing
  <1>1. Init => TypeInv /\ LockInv
    BY TypeInit, LockInit
  <1>2. TypeInv /\ LockInv /\ [Next]_vars => (TypeInv /\ LockInv)'
    BY StepType, StepLock
  <1>3. TypeInv /\ LockInv => OneServing
    <2> SUFFICES ASSUME TypeInv, LockInv, hurt = {},
                        NEW p \in Proc, NEW q \in Proc,
                        pc[p] \in {"serving", "hooks"}, pc[q] \in {"serving", "hooks"}
                 PROVE  p = q
      BY DEF OneServing, Excusing, TypeInv, TypeOK
    <2>1. fd[p] = path /\ fd[q] = path
      BY DEF LockInv, OpenIsNamed, WorksUnderLock
    <2> QED
      BY <2>1 DEF LockInv, WorksUnderLock
  <1> QED
    BY <1>1, <1>2, <1>3, PTL DEF Spec
-----------------------------------------------------------------------------
(* The bound on a teardown *)

\* A hook of the second loop takes time only when it is not the release.
Takes(n) == IF Hooks[n].critical /\ Hooks[n].does # "release" THEN Hooks[n].timeout ELSE 0

\* The budgeted hooks end within the budget; each critical hook begins within it
\* and the time of the critical hooks registered later, and takes no more than
\* its own; the turns are joined for the grace.  Elsewhere no time is counted.
HooksInTime(p) ==
    IF At(p).critical
    THEN /\ age[p] - spent[p] <= Budget + CriticalTime[Len(Hooks)] - CriticalTime[hook[p]]
         /\ spent[p] <= Takes(hook[p])
    ELSE age[p] <= Budget

InTime(p) ==
    /\ pc[p] = "hooks" => HooksInTime(p)
    /\ pc[p] = "unlink" => age[p] <= Allowance
    /\ pc[p] = "join" => age[p] - spent[p] <= Allowance /\ spent[p] <= JoinGrace
    /\ pc[p] = "done" => age[p] <= Allowance + JoinGrace
    /\ pc[p] \notin Tearing \cup {"done"} => age[p] = 0 /\ spent[p] = 0 /\ hook[p] = FirstHook

TimeInv == \A p \in Proc : InTime(p)

\* CriticalTime is what its equation says: the function it describes exists.
LEMMA CriticalTimeIs ==
    /\ CriticalTime \in [0 .. Len(Hooks) -> Nat]
    /\ CriticalTime[0] = 0
    /\ \A n \in 1 .. Len(Hooks) : CriticalTime[n] = CriticalTime[n - 1] + Takes(n)
  <1> DEFINE L == Len(Hooks)
             Sums(f, n) == /\ f \in [0 .. L -> Nat]
                           /\ f[0] = 0
                           /\ \A m \in 1 .. n : f[m] = f[m - 1] + Takes(m)
             Bad == {n \in 0 .. L : ~\E f : Sums(f, n)}
  <1>1. L \in Nat /\ \A m \in 1 .. L : Takes(m) \in Nat
    BY HookType DEF Takes
  <1>2. Bad = {}
    <2>1. SUFFICES ASSUME Bad # {} PROVE FALSE
      OBVIOUS
    <2>2. Bad \subseteq Nat
      BY <1>1
    <2>3. PICK n \in Bad : \A m \in Bad : n <= m
      BY <2>1, <2>2, SmallestExists
    <2>4. n # 0
      <3>1. Sums([m \in 0 .. L |-> 0], 0)
        BY <1>1
      <3> QED
        BY <2>3, <3>1
    <2>5. n - 1 \in 0 .. L /\ n \in 1 .. L /\ n - 1 \notin Bad
      <3>1. n \in 0 .. L /\ n \in Nat
        BY <2>2
      <3>2. n - 1 \in 0 .. L /\ n \in 1 .. L
        BY <1>1, <2>4, <3>1
      <3>3. n - 1 \notin Bad
        <4>1. ASSUME n - 1 \in Bad PROVE FALSE
          <5>1. n <= n - 1
            BY <2>3, <4>1
          <5> QED
            BY <3>1, <5>1
        <4> QED
          BY <4>1
      <3> QED
        BY <3>2, <3>3
    <2>6. PICK f : Sums(f, n - 1)
      BY <2>5
    <2>7. Sums([f EXCEPT ![n] = f[n - 1] + Takes(n)], n)
      <3> DEFINE g == [f EXCEPT ![n] = f[n - 1] + Takes(n)]
      <3>1. f[n - 1] + Takes(n) \in Nat
        <4>1. f[n - 1] \in Nat /\ Takes(n) \in Nat
          BY <1>1, <2>5, <2>6
        <4> QED
          BY <4>1
      <3>2. g \in [0 .. L -> Nat] /\ g[n] = f[n - 1] + Takes(n) /\ \A m \in 0 .. L : m # n => g[m] = f[m]
        BY <1>1, <2>5, <2>6, <3>1
      <3>3. g[0] = 0
        BY <1>1, <2>4, <2>6, <3>2
      <3>4. ASSUME NEW m \in 1 .. n PROVE g[m] = g[m - 1] + Takes(m)
        <4>1. m \in 0 .. L /\ m - 1 \in 0 .. L /\ m - 1 # n /\ (m # n => m \in 1 .. n - 1)
          BY <1>1, <2>5
        <4> QED
          BY <2>6, <3>2, <4>1
      <3> QED
        BY <3>2, <3>3, <3>4
    <2> QED
      BY <2>3, <2>7
  <1>3. PICK f : Sums(f, L)
    BY <1>1, <1>2
  <1>4. f = [n \in 0 .. L |-> IF n = 0 THEN 0 ELSE f[n - 1] + Takes(n)]
    <2>1. ASSUME NEW n \in 0 .. L PROVE f[n] = IF n = 0 THEN 0 ELSE f[n - 1] + Takes(n)
      BY <1>1, <1>3
    <2> QED
      BY <1>3, <2>1
  <1>5. \E g : g = [n \in 0 .. L |-> IF n = 0 THEN 0 ELSE g[n - 1] + Takes(n)]
    BY <1>4
  <1>6. CriticalTime = CHOOSE g : g = [n \in 0 .. L |-> IF n = 0 THEN 0 ELSE g[n - 1] + Takes(n)]
    BY DEF CriticalTime, Takes
  <1>7. CriticalTime = [n \in 0 .. L |-> IF n = 0 THEN 0 ELSE CriticalTime[n - 1] + Takes(n)]
    BY <1>5, <1>6
  <1>8. CriticalTime[0] = 0 /\ \A n \in 1 .. L : CriticalTime[n] = CriticalTime[n - 1] + Takes(n)
    BY <1>1, <1>7
  <1>9. \A n \in 0 .. L : CriticalTime[n] \in Nat
    <2> DEFINE Odd == {n \in 0 .. L : CriticalTime[n] \notin Nat}
    <2>1. SUFFICES ASSUME Odd # {} PROVE FALSE
      OBVIOUS
    <2>2. Odd \subseteq Nat
      BY <1>1
    <2>3. PICK n \in Odd : \A m \in Odd : n <= m
      BY <2>1, <2>2, SmallestExists
    <2>4. n # 0
      BY <1>8, <2>3
    <2>5. n \in 1 .. L /\ n - 1 \in 0 .. L /\ n - 1 \notin Odd
      BY <1>1, <2>3, <2>4
    <2> QED
      BY <1>1, <1>8, <2>3, <2>5
  <1> QED
    BY <1>7, <1>8, <1>9

\* More hooks take no less time.
LEMMA CriticalTimeGrows ==
    ASSUME NEW m \in 0 .. Len(Hooks), NEW n \in 0 .. Len(Hooks), m <= n
    PROVE  CriticalTime[m] <= CriticalTime[n]
  <1> DEFINE Bad == {k \in 0 .. Len(Hooks) : m <= k /\ ~(CriticalTime[m] <= CriticalTime[k])}
  <1>1. SUFFICES ASSUME Bad # {} PROVE FALSE
    OBVIOUS
  <1>2. Bad \subseteq Nat
    BY HookType
  <1>3. PICK k \in Bad : \A j \in Bad : k <= j
    BY <1>1, <1>2, SmallestExists
  <1>4. k # m
    BY <1>3, CriticalTimeIs
  <1>5. k \in 1 .. Len(Hooks) /\ k - 1 \in 0 .. Len(Hooks) /\ m <= k - 1 /\ k - 1 \notin Bad
    BY <1>3, <1>4, HookType
  <1>6. Takes(k) \in Nat
    BY <1>5, HookType DEF Takes
  <1>7. /\ CriticalTime[m] <= CriticalTime[k - 1]
        /\ CriticalTime[k] = CriticalTime[k - 1] + Takes(k)
    BY <1>5, CriticalTimeIs
  <1>8. CriticalTime[m] \in Nat /\ CriticalTime[k - 1] \in Nat
    BY <1>5, CriticalTimeIs
  <1>9. CriticalTime[m] <= CriticalTime[k]
    BY <1>6, <1>7, <1>8
  <1> QED
    BY <1>3, <1>9

-----------------------------------------------------------------------------
LEMMA TimeInit == Init => TimeInv
  BY DEF Init, TimeInv, InTime, Tearing

\* A process that begins its teardown has taken no time: RunAll's first hook
\* begins within its bound.
LEMMA BeginInTime ==
    ASSUME NEW p \in Proc, TypeInv, age[p] = 0, spent[p] = 0, hook[p] = FirstHook
    PROVE  HooksInTime(p)
  <1>1. hook[p] \in 1 .. Len(Hooks) /\ Len(Hooks) \in 0 .. Len(Hooks) /\ hook[p] \in 0 .. Len(Hooks)
    BY HookType DEF TypeInv, TypeOK
  <1>2. /\ CriticalTime[hook[p]] \in Nat /\ CriticalTime[Len(Hooks)] \in Nat
        /\ CriticalTime[hook[p]] <= CriticalTime[Len(Hooks)]
    BY <1>1, CriticalTimeGrows, CriticalTimeIs
  <1>3. Takes(hook[p]) \in Nat
    BY <1>1, HookType DEF Takes
  <1> QED
    BY <1>2, <1>3, HandoffAssumption DEF HooksInTime

\* The next hook begins within its bound when the last one, or its being
\* skipped, ended within its own.
LEMMA NextHookTime ==
    ASSUME TypeInv, TimeInv, NEW p \in Proc, Between(p), hook[p] # 1, NextHook(p), UNCHANGED pc
    PROVE  TimeInv'
  <1> DEFINE i == hook[p]
             j == HookAfter(hook[p])
             L == Len(Hooks)
  <1>1. /\ i \in 1 .. L /\ j \in 1 .. L /\ L \in Nat
        /\ Hooks[i].critical \in BOOLEAN /\ Hooks[j].critical \in BOOLEAN /\ Earlier(i, j)
    BY HookType, AfterIsLater DEF TypeInv, TypeOK
  <1>2. hook'[p] = j /\ spent'[p] = 0 /\ age'[p] = age[p] /\ pc'[p] = "hooks"
    BY DEF TypeInv, TypeOK, NextHook, Between
  <1>3. age[p] \in Nat /\ spent[p] \in Nat /\ Budget \in Nat
    BY HandoffAssumption DEF TypeInv, TypeOK
  <1>4. /\ CriticalTime[j] \in Nat /\ CriticalTime[L] \in Nat /\ CriticalTime[j] <= CriticalTime[L]
        /\ CriticalTime[i] \in Nat /\ CriticalTime[i - 1] \in Nat
        /\ CriticalTime[i] = CriticalTime[i - 1] + Takes(i)
    <2>1. {i, j, L, i - 1} \subseteq 0 .. L
      BY <1>1
    <2> QED
      BY <1>1, <2>1, CriticalTimeIs, CriticalTimeGrows
  <1>5. Takes(i) \in Nat /\ Takes(j) \in Nat
    BY <1>1, HookType DEF Takes
  <1>6. HooksInTime(p)
    BY DEF TimeInv, InTime, Between
  <1>7. HooksInTime(p)'
    <2>1. CASE ~Hooks[j].critical
      <3>1. ~Hooks[i].critical
        BY <1>1, <2>1 DEF Earlier
      <3>2. age[p] <= Budget
        BY <1>6, <3>1 DEF HooksInTime, At
      <3> QED
        BY <1>2, <2>1, <3>2 DEF HooksInTime, At
    <2>2. CASE Hooks[j].critical
      <3>1. age[p] <= Budget + CriticalTime[L] - CriticalTime[j]
        <4>1. CASE ~Hooks[i].critical
          <5>1. age[p] <= Budget
            BY <1>6, <4>1 DEF HooksInTime, At
          <5> QED
            BY <1>3, <1>4, <5>1
        <4>2. CASE Hooks[i].critical
          <5>1. i > j
            BY <1>1, <2>2, <4>2 DEF Earlier
          <5>2. age[p] - spent[p] <= Budget + CriticalTime[L] - CriticalTime[i] /\ spent[p] <= Takes(i)
            BY <1>6, <4>2 DEF HooksInTime, At
          <5>3. CriticalTime[j] <= CriticalTime[i - 1]
            <6>1. j \in 0 .. L /\ i - 1 \in 0 .. L /\ j <= i - 1
              BY <1>1, <5>1
            <6> QED
              BY <6>1, CriticalTimeGrows
          <5>4. age[p] <= Budget + CriticalTime[L] - CriticalTime[i - 1]
            <6> HIDE DEF i, L
            <6> QED
              BY <1>3, <1>4, <1>5, <5>2
          <5> HIDE DEF i, j, L
          <5> QED
            BY <1>3, <1>4, <5>3, <5>4
        <4> QED
          BY <1>1, <4>1, <4>2
      <3> QED
        BY <1>2, <1>3, <1>5, <2>2, <3>1 DEF HooksInTime, At
    <2> QED
      BY <1>1, <2>1, <2>2
  <1>8. ASSUME NEW q \in Proc, q # p
        PROVE  hook'[q] = hook[q] /\ spent'[q] = spent[q] /\ age'[q] = age[q] /\ pc'[q] = pc[q]
    BY <1>8 DEF TypeInv, TypeOK, NextHook
  <1> QED
    BY <1>2, <1>7, <1>8 DEF TimeInv, InTime, HooksInTime, At, Tearing

\* A process that has left counts from the beginning again.
LEMMA LeaveTime ==
    ASSUME TypeInv, TimeInv, NEW p \in Proc, Leave(p)
    PROVE  TimeInv'
  <1>1. /\ pc'[p] = "gone" /\ age'[p] = 0 /\ spent'[p] = 0 /\ hook'[p] = FirstHook
        /\ \A q \in Proc \ {p} : /\ pc'[q] = pc[q] /\ age'[q] = age[q]
                                 /\ spent'[q] = spent[q] /\ hook'[q] = hook[q]
    BY DEF TypeInv, TypeOK, Leave
  <1> QED
    BY <1>1 DEF TimeInv, InTime, HooksInTime, At, Tearing

LEMMA AllowanceType == Allowance \in Nat
  <1>1. Len(Hooks) \in 0 .. Len(Hooks) /\ Budget \in Nat
    BY HookType, HandoffAssumption
  <1>2. CriticalTime[Len(Hooks)] \in Nat
    BY <1>1, CriticalTimeIs
  <1> QED
    BY <1>1, <1>2 DEF Allowance

\* The bound of a hook, of the release and of the budget is within Allowance.
LEMMA HooksAllowed ==
    ASSUME TypeInv, NEW p \in Proc, HooksInTime(p)
    PROVE  age[p] <= Allowance
  <1>1. hook[p] \in 1 .. Len(Hooks) /\ Len(Hooks) \in Nat
    BY HookType DEF TypeInv, TypeOK
  <1>2. {hook[p], hook[p] - 1, Len(Hooks)} \subseteq 0 .. Len(Hooks)
    BY <1>1
  <1>3. /\ CriticalTime[Len(Hooks)] \in Nat /\ CriticalTime[hook[p] - 1] \in Nat
        /\ CriticalTime[hook[p]] \in Nat /\ Takes(hook[p]) \in Nat
        /\ CriticalTime[hook[p]] = CriticalTime[hook[p] - 1] + Takes(hook[p])
    BY <1>1, <1>2, CriticalTimeIs, HookType DEF Takes
  <1>4. age[p] \in Nat /\ spent[p] \in Nat /\ Budget \in Nat
    BY HandoffAssumption DEF TypeInv, TypeOK
  <1>5. CASE At(p).critical
    <2>1. age[p] - spent[p] <= Budget + CriticalTime[Len(Hooks)] - CriticalTime[hook[p]]
      BY <1>5 DEF HooksInTime
    <2>2. spent[p] <= Takes(hook[p])
      BY <1>5 DEF HooksInTime
    <2>3. \A a, s, b, l, c, d, t \in Nat :
              a - s <= b + l - c /\ s <= t /\ c = d + t => a <= b + l
      OBVIOUS
    <2>4. age[p] <= Budget + CriticalTime[Len(Hooks)]
      BY <1>3, <1>4, <2>1, <2>2, <2>3, Zenon
    <2> QED
      BY <2>4 DEF Allowance
  <1>6. CASE ~At(p).critical
    <2>1. age[p] <= Budget
      BY <1>6 DEF HooksInTime
    <2> QED
      BY <1>3, <1>4, <2>1 DEF Allowance
  <1> QED
    BY <1>5, <1>6

\* Time passes only while no hook, and no join, has reached its limit.
LEMMA TickTime ==
    ASSUME TypeInv, TimeInv, Tick
    PROVE  TimeInv'
  <1> SUFFICES ASSUME NEW p \in Proc PROVE InTime(p)'
    BY DEF TimeInv
  <1>1. ~Urgent(p)
    BY DEF Tick
  <1>2. /\ pc'[p] = (IF pc[p] = "sleep" THEN "try" ELSE pc[p])
        /\ age'[p] = age[p] + (IF pc[p] \in Tearing THEN 1 ELSE 0)
        /\ spent'[p] = spent[p] + (IF pc[p] \in Tearing THEN 1 ELSE 0)
        /\ hook' = hook
    BY DEF Tick
  <1>3. age[p] \in Nat /\ spent[p] \in Nat /\ hook[p] \in 1 .. Len(Hooks) /\ Budget \in Nat /\ JoinGrace \in Nat
    BY HookType, HandoffAssumption DEF TypeInv, TypeOK
  <1>4. CASE pc[p] = "hooks"
    <2>1. /\ pc'[p] = "hooks" /\ age'[p] = age[p] + 1 /\ spent'[p] = spent[p] + 1
          /\ At(p).does # "release" /\ ~(spent[p] >= Limit(p))
      BY <1>1, <1>2, <1>4 DEF Urgent, Between, Tearing
    <2>2. At(p).timeout \in Nat /\ At(p).critical \in BOOLEAN
      BY <1>3, HookType DEF At
    <2>3. CASE At(p).critical
      <3>1. spent[p] < At(p).timeout /\ Takes(hook[p]) = At(p).timeout
        BY <1>3, <1>4, <2>1, <2>2, <2>3 DEF Limit, Takes, At
      <3>2. age'[p] - spent'[p] = age[p] - spent[p]
        BY <1>3, <2>1
      <3>3. spent'[p] <= Takes(hook[p])
        BY <1>3, <2>1, <2>2, <3>1
      <3> QED
        BY <1>2, <1>4, <2>1, <2>3, <3>2, <3>3 DEF HooksInTime, At, TimeInv, InTime, Tearing
    <2>4. CASE ~At(p).critical
      <3>1. spent[p] < Budget - (age[p] - spent[p])
        BY <1>3, <1>4, <2>1, <2>2, <2>4 DEF Limit
      <3>2. age'[p] <= Budget
        BY <1>3, <2>1, <3>1
      <3> QED
        BY <1>2, <2>1, <2>4, <3>2 DEF InTime, HooksInTime, At, Tearing
    <2> QED
      BY <2>2, <2>3, <2>4
  <1>5. CASE pc[p] = "join"
    <2>1. spent[p] # JoinGrace /\ spent[p] <= JoinGrace /\ age[p] - spent[p] <= Allowance
      BY <1>1, <1>5 DEF Urgent, TimeInv, InTime
    <2>2. pc'[p] = "join" /\ age'[p] - spent'[p] = age[p] - spent[p] /\ spent'[p] <= JoinGrace
      BY <1>2, <1>3, <1>5, <2>1 DEF Tearing
    <2> QED
      BY <2>1, <2>2 DEF InTime, Tearing
  <1>6. CASE pc[p] \notin {"hooks", "join"}
    <2>1. pc[p] \notin Tearing \cup {"done"} /\ pc'[p] \notin Tearing \cup {"done"}
      BY <1>1, <1>2, <1>6 DEF Urgent, Tearing
    <2>2. age[p] = 0 /\ spent[p] = 0 /\ hook[p] = FirstHook
      BY <2>1 DEF TimeInv, InTime
    <2> QED
      BY <1>2, <2>1, <2>2 DEF InTime, Tearing
  <1> QED
    BY <1>4, <1>5, <1>6

\* A step that moves p alone, and takes no time, leaves the others in time.
LEMMA OthersInTime ==
    ASSUME TimeInv, NEW p \in Proc, InTime(p)',
           \A q \in Proc \ {p} : /\ pc'[q] = pc[q] /\ age'[q] = age[q]
                                 /\ spent'[q] = spent[q] /\ hook'[q] = hook[q]
    PROVE  TimeInv'
  BY DEF TimeInv, InTime, HooksInTime, At

\* Signal and Restart begin the teardown of a process that serves, and only that.
LEMMA BeginTime ==
    ASSUME TypeInv, TimeInv, NEW p \in Proc,
           pc[p] \in {"serving"} \cup Tearing,
           pc'[p] = IF pc[p] = "serving" THEN "hooks" ELSE pc[p],
           UNCHANGED <<hook, spent, age>>
    PROVE  InTime(p)'
  <1>1. CASE pc[p] = "serving"
    <2>1. HooksInTime(p)
      BY <1>1, BeginInTime DEF TimeInv, InTime, Tearing
    <2> QED
      BY <1>1, <2>1 DEF InTime, HooksInTime, At, Tearing
  <1>2. CASE pc[p] # "serving"
    BY <1>2 DEF TimeInv, InTime, HooksInTime, At
  <1> QED
    BY <1>1, <1>2

LEMMA UnlockTime ==
    ASSUME TypeInv, TimeInv, NEW p \in Proc, Unlock(p)
    PROVE  TimeInv'
  <1>1. age[p] <= Allowance
    BY HooksAllowed DEF Unlock, Between, TimeInv, InTime
  <1>2. InTime(p)'
    BY <1>1 DEF Unlock, InTime, TypeInv, TypeOK, Tearing
  <1> QED
    BY <1>2, OthersInTime DEF Unlock, TypeInv, TypeOK

LEMMA UnlinkTime ==
    ASSUME TypeInv, TimeInv, NEW p \in Proc, Unlink(p)
    PROVE  TimeInv'
  <1>1. age[p] <= Allowance /\ age[p] \in Nat /\ JoinGrace \in Nat
    BY HandoffAssumption DEF Unlink, TimeInv, InTime, TypeInv, TypeOK
  <1>2. /\ pc'[p] = "join" /\ spent'[p] = 0 /\ age'[p] = age[p]
        /\ \A q \in Proc \ {p} : /\ pc'[q] = pc[q] /\ age'[q] = age[q]
                                 /\ spent'[q] = spent[q] /\ hook'[q] = hook[q]
    BY DEF Unlink, TypeInv, TypeOK
  <1>3. InTime(p)'
    BY <1>1, <1>2 DEF InTime, Tearing
  <1> QED
    BY <1>2, <1>3, OthersInTime

LEMMA StopWithinTime ==
    ASSUME TypeInv, TimeInv, NEW p \in Proc, StopWithin(p)
    PROVE  TimeInv'
  <1>1. age[p] - spent[p] <= Allowance /\ spent[p] <= JoinGrace
    BY DEF StopWithin, TimeInv, InTime
  <1>2. age[p] \in Nat /\ spent[p] \in Nat /\ JoinGrace \in Nat /\ Allowance \in Nat
    BY HandoffAssumption, AllowanceType DEF TypeInv, TypeOK
  <1>3. age[p] <= Allowance + JoinGrace
    BY <1>1, <1>2
  <1>4. InTime(p)'
    BY <1>3 DEF StopWithin, InTime, TypeInv, TypeOK, Tearing
  <1> QED
    BY <1>4, OthersInTime DEF StopWithin, TypeInv, TypeOK

LEMMA LockExclusiveTime ==
    ASSUME TypeInv, TimeInv, NEW p \in Proc, LockExclusive(p)
    PROVE  TimeInv'
  <1>1. CASE Leave(p)
    BY <1>1, LeaveTime
  <1>2. CASE ~Leave(p)
    <2>1. /\ pc[p] = "open" /\ pc'[p] \in {"serving", "gaveup", "sleep"}
          /\ UNCHANGED <<hook, spent, age>> /\ \A q \in Proc \ {p} : pc'[q] = pc[q]
      BY <1>2 DEF LockExclusive, TypeInv, TypeOK
    <2>2. InTime(p)'
      BY <2>1 DEF TimeInv, InTime, Tearing
    <2> QED
      BY <2>1, <2>2, OthersInTime
  <1> QED
    BY <1>1, <1>2

LEMMA StepTime ==
    ASSUME TypeInv, TimeInv, [Next]_vars
    PROVE  TimeInv'
  <1>1. CASE UNCHANGED vars
    BY <1>1 DEF vars, TimeInv, InTime, HooksInTime, At
  <1>2. ASSUME NEW p \in Proc, Launch(p) \/ OpenFile(p) PROVE TimeInv'
    <2>1. /\ pc[p] \in {"unborn", "try"} /\ pc'[p] \in {"try", "open"}
          /\ UNCHANGED <<hook, spent, age>> /\ \A q \in Proc \ {p} : pc'[q] = pc[q]
      BY <1>2 DEF Launch, OpenFile, NextUp, TypeInv, TypeOK
    <2>2. InTime(p)'
      BY <2>1 DEF TimeInv, InTime, Tearing
    <2> QED
      BY <2>1, <2>2, OthersInTime
  <1>3. ASSUME NEW p \in Proc, LockExclusive(p) PROVE TimeInv'
    BY <1>3, LockExclusiveTime
  <1>4. ASSUME NEW p \in Proc, SkipHook(p) PROVE TimeInv'
    <2>1. Between(p) /\ NextHook(p) /\ UNCHANGED pc /\ hook[p] # 1
      BY <1>4, HookType DEF SkipHook, At
    <2> QED
      BY <2>1, NextHookTime
  <1>5. ASSUME NEW p \in Proc, RunHook(p) PROVE TimeInv'
    <2>1. Between(p) /\ NextHook(p) /\ UNCHANGED pc /\ hook[p] # 1
      BY <1>5, HookType DEF RunHook, At
    <2> QED
      BY <2>1, NextHookTime
  <1>6. ASSUME NEW p \in Proc, Unlock(p) PROVE TimeInv'
    BY <1>6, UnlockTime
  <1>7. ASSUME NEW p \in Proc, Unlink(p) PROVE TimeInv'
    BY <1>7, UnlinkTime
  <1>8. ASSUME NEW p \in Proc, StopWithin(p) PROVE TimeInv'
    BY <1>8, StopWithinTime
  <1>9. ASSUME NEW p \in Proc, Exit(p) \/ Kill(p) PROVE TimeInv'
    BY <1>9, LeaveTime DEF Exit, Kill
  <1>10. ASSUME NEW p \in Proc, TurnEnds(p) PROVE TimeInv'
    BY <1>10 DEF TurnEnds, TimeInv, InTime, HooksInTime, At
  <1>11. ASSUME NEW p \in Proc, Signal(p) PROVE TimeInv'
    <2>1. /\ pc[p] \in {"serving"} \cup Tearing
          /\ pc'[p] = IF pc[p] = "serving" THEN "hooks" ELSE pc[p]
          /\ UNCHANGED <<hook, spent, age>> /\ \A q \in Proc \ {p} : pc'[q] = pc[q]
      BY <1>11 DEF Signal, Begin, TypeInv, TypeOK
    <2> QED
      BY <2>1, BeginTime, OthersInTime
  <1>12. ASSUME NEW p \in Proc, NEW q \in Proc, Restart(p, q) PROVE TimeInv'
    <2>1. /\ pc[p] \in {"serving"} \cup Tearing /\ pc[q] = "unborn" /\ p # q
          /\ pc'[p] = IF pc[p] = "serving" THEN "hooks" ELSE pc[p]
          /\ pc'[q] = "try" /\ UNCHANGED <<hook, spent, age>>
          /\ \A r \in Proc \ {p, q} : pc'[r] = pc[r]
      BY <1>12 DEF Restart, NextUp, TypeInv, TypeOK, Tearing
    <2>2. InTime(p)'
      BY <2>1, BeginTime
    <2>3. InTime(q)'
      BY <2>1 DEF TimeInv, InTime, Tearing
    <2> QED
      BY <2>1, <2>2, <2>3 DEF TimeInv, InTime, HooksInTime, At
  <1>13. ASSUME Tick PROVE TimeInv'
    BY <1>13, TickTime
  <1> QED
    BY <1>1, <1>2, <1>3, <1>4, <1>5, <1>6, <1>7, <1>8, <1>9, <1>10, <1>11, <1>12, <1>13
       DEF Next, Step

\* A gateway that is told to stop lets its lock go within the budget and the
\* timeouts of its critical hooks, and is ready to exit a grace later, for any
\* hooks, budget and grace and whatever hangs (shutdown.go, RunAll).
THEOREM TeardownsAreBounded == Spec => []TeardownBounded
  <1>1. Init => TypeInv /\ TimeInv
    BY TypeInit, TimeInit
  <1>2. TypeInv /\ TimeInv /\ [Next]_vars => (TypeInv /\ TimeInv)'
    BY StepType, StepTime
  <1>3. TypeInv /\ TimeInv => TeardownBounded
    <2> SUFFICES ASSUME TypeInv, TimeInv, NEW p \in Proc
                 PROVE  /\ pc[p] \in {"hooks", "unlink"} => age[p] <= Allowance
                        /\ pc[p] \in {"join", "done"} => age[p] <= Allowance + JoinGrace
      BY DEF TeardownBounded
    <2>1. age[p] \in Nat /\ spent[p] \in Nat /\ JoinGrace \in Nat /\ Allowance \in Nat
      BY HandoffAssumption, AllowanceType DEF TypeInv, TypeOK
    <2>2. CASE pc[p] = "hooks"
      BY <2>2, HooksAllowed DEF TimeInv, InTime
    <2>3. CASE pc[p] = "join"
      BY <2>1, <2>3 DEF TimeInv, InTime
    <2> QED
      BY <2>2, <2>3 DEF TimeInv, InTime
  <1> QED
    BY <1>1, <1>2, <1>3, PTL DEF Spec
=============================================================================
