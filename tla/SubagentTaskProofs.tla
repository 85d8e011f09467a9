------------------------ MODULE SubagentTaskProofs ------------------------
(***************************************************************************)
(* Proofs about SubagentTask, for any tasks, waits, dependencies and       *)
(* bounds.                                                                 *)
(***************************************************************************)
EXTENDS SubagentTask, FiniteSetTheorems, TLAPS

-----------------------------------------------------------------------------
(* The operators the actions are built from *)

LEMMA GotoKeepsType ==
    ASSUME pc \in [Task -> [Run -> Place]],
           NEW t \in Task, NEW r \in Run, NEW place \in Place, Goto(t, r, place)
    PROVE  pc' \in [Task -> [Run -> Place]]
BY DEF Goto

LEMMA CancelHandleKeepsType ==
    ASSUME handle \in [Task -> 0 .. MaxRuns], ctx \in [Task -> SUBSET Run],
           NEW t \in Task, CancelHandle(t)
    PROVE  /\ handle' \in [Task -> 0 .. MaxRuns]
           /\ ctx' \in [Task -> SUBSET Run]
BY SubagentAssumption DEF CancelHandle, Run

LEMMA SignalDoneKeepsType ==
    ASSUME done \in [Task -> SUBSET (0 .. MaxRuns)], run \in [Task -> 0 .. MaxRuns],
           NEW t \in Task, SignalDone(t)
    PROVE  done' \in [Task -> SUBSET (0 .. MaxRuns)]
BY DEF SignalDone

-----------------------------------------------------------------------------
(* Types *)

LEMMA TypeInit == ASSUME Init PROVE TypeOK
BY SubagentAssumption
DEF Init, TypeOK, TaskType, RunType, WaitType, StopType, GhostType, Status, Result,
    NoResult, Kind, Snapshot, NoSnapshot, Run, Place, Stage, StopRequest

LEMMA SpawnType ==
    ASSUME TypeOK, NEW t \in Task, Spawn(t)
    PROVE  TypeOK'
<1>0. UNCHANGED <<halted, injected, read, told, refused, crossed>>
  BY DEF Spawn
<1>1. /\ WaitType'
      /\ StopType'
  BY DEF Spawn, deliv, waits, TypeOK, WaitType, StopType
<1>8. (missed \subseteq (Task \X Task))'
  BY SubagentAssumption DEF Spawn, TypeOK, GhostType
<1>2. UNCHANGED <<result, retries, transient>>
  BY DEF Spawn, core, deliv, waits, ghost
<1>3. UNCHANGED <<ctx, done>>
  BY DEF Spawn, core, deliv, waits, ghost
<1>4. (status \in [Task -> Status])'
  BY DEF Spawn, TypeOK, TaskType, Status
<1>5. (run \in [Task -> 0 .. MaxRuns])'
  BY SubagentAssumption DEF Spawn, TypeOK, TaskType
<1>6. (handle \in [Task -> 0 .. MaxRuns])'
  BY SubagentAssumption DEF Spawn, TypeOK, RunType, TaskType
<1>7. (pc \in [Task -> [Run -> Place]])'
  BY GotoKeepsType, SubagentAssumption DEF Spawn, TypeOK, RunType, Place, Run, TaskType
<1>q. QED
  BY <1>0, <1>1, <1>2, <1>3, <1>4, <1>5, <1>6, <1>7, <1>8 DEF TypeOK, TaskType, RunType, GhostType

LEMMA ContinueType ==
    ASSUME TypeOK, NEW t \in Task, Continue(t)
    PROVE  TypeOK'
<1>0. UNCHANGED <<halted, injected, read, told, refused, missed>>
  BY DEF Continue, NextRun
<1>1. StopType'
  BY DEF Continue, NextRun, TypeOK, StopType
<1>12. (crossed \subseteq Task)'
  BY DEF Continue, NextRun, TypeOK, GhostType
<1>2. UNCHANGED <<result, retries>>
  BY DEF Continue, NextRun, ResetDelivery, core, deliv, waits, ghost
<1>3. UNCHANGED <<ctx, done>>
  BY DEF Continue, NextRun, ResetDelivery, core, deliv, waits, ghost
<1>4. UNCHANGED <<call, target, seen>>
  BY DEF Continue, NextRun, ResetDelivery, core, deliv, waits, ghost
<1>5. (status \in [Task -> Status])'
  BY DEF Continue, NextRun, ResetDelivery, TypeOK, TaskType, Status
<1>6. (run \in [Task -> 0 .. MaxRuns])'
  BY SubagentAssumption DEF Continue, NextRun, ResetDelivery, TypeOK, TaskType
<1>7. (transient \in [Task -> BOOLEAN])'
  BY DEF Continue, NextRun, ResetDelivery, TypeOK, TaskType
<1>8. (handle \in [Task -> 0 .. MaxRuns])'
  BY SubagentAssumption DEF Continue, NextRun, ResetDelivery, TypeOK, RunType, TaskType
<1>9. (pc \in [Task -> [Run -> Place]])'
  BY GotoKeepsType, SubagentAssumption DEF Continue, NextRun, ResetDelivery, TypeOK, RunType, Place, Run, TaskType
<1>10. (claimed \in [Task -> BOOLEAN])'
  BY DEF Continue, NextRun, ResetDelivery, TypeOK, WaitType
<1>11. (waiters \in [Task -> Nat])'
  BY DEF Continue, NextRun, ResetDelivery, TypeOK, WaitType, Less1
<1>q. QED
  BY <1>0, <1>1, <1>2, <1>3, <1>4, <1>5, <1>6, <1>7, <1>8, <1>9, <1>10, <1>11, <1>12
  DEF TypeOK, TaskType, RunType, WaitType, GhostType

LEMMA StopUnderLockType ==
    ASSUME TypeOK, NEW S \in SUBSET Task, NEW canStop \in SUBSET Task, NEW seal \in BOOLEAN,
           StopUnderLock(S, canStop, seal)
    PROVE  TypeOK'
<1>1. WaitType'
  BY DEF StopUnderLock, core, deliv, waits, ghost, TypeOK, WaitType
<1>2. UNCHANGED <<run, retries, transient>>
  BY DEF StopUnderLock, core, deliv, waits, ghost
<1>3. UNCHANGED <<ctx, pc>>
  BY DEF StopUnderLock, core, deliv, waits, ghost
<1>4. UNCHANGED <<injected, read, told, refused, crossed, missed>>
  BY DEF StopUnderLock, core, deliv, waits, ghost
<1>5. (status \in [Task -> Status])'
  BY DEF StopUnderLock, TypeOK, TaskType, Status
<1>6. (result \in [Task -> Result])'
  BY DEF StopUnderLock, TypeOK, TaskType, Result, Kind, Run
<1>7. (handle \in [Task -> 0 .. MaxRuns])'
  <2>1. handle \in [Task -> 0 .. MaxRuns]
    BY DEF TypeOK, RunType
  <2>2. 0 \in 0 .. MaxRuns
    BY SubagentAssumption
  <2>q. QED
    BY <2>1, <2>2 DEF StopUnderLock
<1>8. (done \in [Task -> SUBSET (0 .. MaxRuns)])'
  <2>1. run \in [Task -> 0 .. MaxRuns] /\ done \in [Task -> SUBSET (0 .. MaxRuns)]
    BY DEF TypeOK, TaskType, RunType
  <2>2. ASSUME NEW u \in Task
        PROVE  done[u] \cup {run[u]} \in SUBSET (0 .. MaxRuns)
    BY <2>1
  <2>q. QED
    BY <2>1, <2>2 DEF StopUnderLock
<1>9. (halted \subseteq (Task \X (0 .. MaxRuns)))'
  BY DEF StopUnderLock, TypeOK, GhostType, TaskType, RunType, Run
<1>10. (stopper \in [Task -> StopRequest])'
  BY DEF StopUnderLock, TypeOK, StopType, StopRequest, RunType
<1>q. QED
  BY <1>1, <1>2, <1>3, <1>4, <1>5, <1>6, <1>7, <1>8, <1>9, <1>10 DEF TypeOK, TaskType, RunType, StopType, GhostType

LEMMA StopTaskType ==
    ASSUME TypeOK, NEW t \in Task, NEW seal \in BOOLEAN, StopTask(t, seal)
    PROVE  TypeOK'
BY StopUnderLockType DEF StopTask

LEMMA StopCancelType ==
    ASSUME TypeOK, NEW t \in Task, StopCancel(t)
    PROVE  TypeOK'
<1>1. /\ TaskType'
      /\ WaitType'
      /\ GhostType'
  BY DEF StopCancel, core, deliv, waits, ghost, TypeOK, TaskType, WaitType, GhostType
<1>2. UNCHANGED <<handle, done, pc>>
  BY DEF StopCancel, core, deliv, waits, ghost
<1>3. (ctx \in [Task -> SUBSET Run])'
  BY DEF StopCancel, TypeOK, RunType, Run, StopType, StopRequest
<1>4. (stopper \in [Task -> StopRequest])'
  BY DEF StopCancel, TypeOK, StopType, StopRequest, RunType
<1>q. QED
  BY <1>1, <1>2, <1>3, <1>4 DEF TypeOK, RunType, StopType

LEMMA StopSealType ==
    ASSUME TypeOK, NEW t \in Task, StopSeal(t)
    PROVE  TypeOK'
<1>1. /\ TaskType'
      /\ RunType'
      /\ GhostType'
  BY DEF StopSeal, core, deliv, waits, ghost, TypeOK, TaskType, RunType, GhostType
<1>2. UNCHANGED <<waiters, call, target, seen>>
  BY DEF StopSeal, core, deliv, waits, ghost
<1>3. (claimed \in [Task -> BOOLEAN])'
  BY DEF StopSeal, TypeOK, WaitType
<1>4. (stopper \in [Task -> StopRequest])'
  BY DEF StopSeal, TypeOK, StopType, StopRequest, RunType
<1>q. QED
  BY <1>1, <1>2, <1>3, <1>4 DEF TypeOK, WaitType, StopType

LEMMA CancelSessionType ==
    ASSUME TypeOK, NEW t \in Task, CancelSession(t)
    PROVE  TypeOK'
<1>1. /\ TaskType'
      /\ WaitType'
      /\ StopType'
  BY DEF CancelSession, core, deliv, waits, ghost, TypeOK, TaskType, WaitType, StopType
<1>2. UNCHANGED <<handle, done, pc>>
  BY DEF CancelSession, core, deliv, waits, ghost
<1>3. UNCHANGED <<injected, read, told, refused, crossed, missed>>
  BY DEF CancelSession, core, deliv, waits, ghost
<1>4. (ctx \in [Task -> SUBSET Run])'
  BY DEF CancelSession, TypeOK, RunType, Run, StopType, StopRequest
<1>5. (halted \subseteq (Task \X (0 .. MaxRuns)))'
  BY DEF CancelSession, TypeOK, GhostType, TaskType, RunType, Run
<1>q. QED
  BY <1>1, <1>2, <1>3, <1>4, <1>5 DEF TypeOK, RunType, GhostType

LEMMA DepsCancelledType ==
    ASSUME TypeOK, NEW t \in Task, NEW r \in Run, DepsCancelled(t, r)
    PROVE  TypeOK'
<1>1. /\ WaitType'
      /\ StopType'
      /\ GhostType'
  BY DEF DepsCancelled, core, deliv, waits, ghost, TypeOK, WaitType, StopType, GhostType
<1>2. UNCHANGED <<run, retries, transient>>
  BY DEF DepsCancelled, core, deliv, waits, ghost
<1>3. UNCHANGED <<handle, ctx, done>>
  BY DEF DepsCancelled, core, deliv, waits, ghost
<1>4. (status \in [Task -> Status])'
  BY DEF DepsCancelled, TypeOK, TaskType, Status
<1>5. (result \in [Task -> Result])'
  BY DEF DepsCancelled, TypeOK, TaskType, Result, Kind, Run
<1>6. (pc \in [Task -> [Run -> Place]])'
  BY GotoKeepsType DEF DepsCancelled, TypeOK, RunType, Place
<1>q. QED
  BY <1>1, <1>2, <1>3, <1>4, <1>5, <1>6 DEF TypeOK, TaskType, RunType

LEMMA DepsMetType ==
    ASSUME TypeOK, NEW t \in Task, NEW r \in Run, DepsMet(t, r)
    PROVE  TypeOK'
<1>1. /\ TaskType'
      /\ WaitType'
      /\ StopType'
      /\ GhostType'
  BY DEF DepsMet, core, deliv, waits, ghost, TypeOK, TaskType, WaitType, StopType, GhostType
<1>2. UNCHANGED <<handle, ctx, done>>
  BY DEF DepsMet, core, deliv, waits, ghost
<1>3. (pc \in [Task -> [Run -> Place]])'
  BY GotoKeepsType DEF DepsMet, TypeOK, RunType, Place
<1>q. QED
  BY <1>1, <1>2, <1>3 DEF TypeOK, RunType

LEMMA BeginType ==
    ASSUME TypeOK, NEW t \in Task, NEW r \in Run, Begin(t, r)
    PROVE  TypeOK'
<1>1. /\ WaitType'
      /\ StopType'
      /\ GhostType'
  BY DEF Begin, core, deliv, waits, ghost, TypeOK, WaitType, StopType, GhostType
<1>2. UNCHANGED <<run, result, retries>>
  BY DEF Begin, core, deliv, waits, ghost
<1>3. UNCHANGED <<handle, ctx, done>>
  BY DEF Begin, core, deliv, waits, ghost
<1>4. (status \in [Task -> Status])'
  BY DEF Begin, TypeOK, TaskType, Status
<1>5. (transient \in [Task -> BOOLEAN])'
  BY DEF Begin, TypeOK, TaskType
<1>6. (pc \in [Task -> [Run -> Place]])'
  BY GotoKeepsType DEF Begin, TypeOK, RunType, Place
<1>q. QED
  BY <1>1, <1>2, <1>3, <1>4, <1>5, <1>6 DEF TypeOK, TaskType, RunType

LEMMA CheckType ==
    ASSUME TypeOK, NEW t \in Task, NEW r \in Run, Check(t, r)
    PROVE  TypeOK'
<1>1. /\ WaitType'
      /\ StopType'
      /\ GhostType'
  BY DEF Check, core, deliv, waits, ghost, TypeOK, WaitType, StopType, GhostType
<1>2. UNCHANGED <<run, retries, transient>>
  BY DEF Check, core, deliv, waits, ghost
<1>3. UNCHANGED <<handle, ctx, done>>
  BY DEF Check, core, deliv, waits, ghost
<1>4. (status \in [Task -> Status])'
  BY DEF Check, TypeOK, TaskType, Status
<1>5. (result \in [Task -> Result])'
  BY DEF Check, TypeOK, TaskType, Result, Kind, Run
<1>6. (pc \in [Task -> [Run -> Place]])'
  BY GotoKeepsType DEF Check, TypeOK, RunType, Place
<1>q. QED
  BY <1>1, <1>2, <1>3, <1>4, <1>5, <1>6 DEF TypeOK, TaskType, RunType

LEMMA FinishType ==
    ASSUME TypeOK, NEW t \in Task, NEW r \in Run, NEW s \in Status, NEW tr \in BOOLEAN,
           Finish(t, r, s, tr)
    PROVE  TypeOK'
<1>1. /\ WaitType'
      /\ StopType'
      /\ GhostType'
  BY DEF Finish, core, deliv, waits, ghost, TypeOK, WaitType, StopType, GhostType
<1>2. UNCHANGED <<run, retries>>
  BY DEF Finish, core, deliv, waits, ghost
<1>3. UNCHANGED <<done>>
  BY DEF Finish, core, deliv, waits, ghost
<1>4. (status \in [Task -> Status])'
  BY DEF Finish, TypeOK, TaskType
<1>5. (result \in [Task -> Result])'
  <2>1. result \in [Task -> Result]
    BY DEF TypeOK, TaskType
  <2>2. [run |-> r, kind |-> "interim"] \in Result /\ [run |-> r, kind |-> "final"] \in Result
    BY SubagentAssumption DEF Result, Kind, Run
  <2>q. QED
    BY <2>1, <2>2 DEF Finish
<1>6. (transient \in [Task -> BOOLEAN])'
  BY DEF Finish, TypeOK, TaskType
<1>7. (handle \in [Task -> 0 .. MaxRuns] /\ ctx \in [Task -> SUBSET Run])'
  <2>1. handle \in [Task -> 0 .. MaxRuns] /\ ctx \in [Task -> SUBSET Run]
    BY DEF TypeOK, RunType
  <2>2. CASE RetryPending(t, s, tr)
    BY <2>1, <2>2 DEF Finish
  <2>3. CASE ~RetryPending(t, s, tr)
    <3>1. CancelHandle(t)
      BY <2>3 DEF Finish
    <3>q. QED
      BY <2>1, <3>1, CancelHandleKeepsType
  <2>q. QED
    BY <2>2, <2>3
<1>8. (pc \in [Task -> [Run -> Place]])'
  BY GotoKeepsType DEF Finish, TypeOK, RunType, Place
<1>q. QED
  BY <1>1, <1>2, <1>3, <1>4, <1>5, <1>6, <1>7, <1>8 DEF TypeOK, TaskType, RunType

LEMMA CallbackType ==
    ASSUME TypeOK, NEW t \in Task, NEW r \in Run, Callback(t, r)
    PROVE  TypeOK'
<1>1. /\ TaskType'
      /\ StopType'
  BY DEF Callback, core, deliv, waits, ghost, TypeOK, TaskType, StopType
<1>2. UNCHANGED <<handle, ctx, done>>
  BY DEF Callback, core, deliv, waits, ghost
<1>3. UNCHANGED <<waiters, call, target, seen>>
  BY DEF Callback, core, deliv, waits, ghost
<1>4. UNCHANGED <<halted, read, crossed, missed>>
  BY DEF Callback, core, deliv, waits, ghost
<1>5. (pc \in [Task -> [Run -> Place]])'
  BY GotoKeepsType DEF Callback, TypeOK, RunType, Place
<1>6. (claimed \in [Task -> BOOLEAN])'
  BY DEF Callback, TypeOK, WaitType
<1>7. (injected \subseteq (Task \X Run) /\ refused \subseteq (Task \X Run))'
  BY DEF Callback, PublishInbound, TypeOK, GhostType
<1>8. (told \subseteq (Task \X Run))'
  BY DEF Callback, TypeOK, GhostType
<1>q. QED
  BY <1>1, <1>2, <1>3, <1>4, <1>5, <1>6, <1>7, <1>8 DEF TypeOK, RunType, WaitType, GhostType

LEMMA DecideType ==
    ASSUME TypeOK, NEW t \in Task, NEW r \in Run, Decide(t, r)
    PROVE  TypeOK'
<1>1. /\ WaitType'
      /\ StopType'
      /\ GhostType'
  BY DEF Decide, core, deliv, waits, ghost, TypeOK, WaitType, StopType, GhostType
<1>2. UNCHANGED <<run, result>>
  BY DEF Decide, core, deliv, waits, ghost
<1>3. UNCHANGED <<handle, ctx, done>>
  BY DEF Decide, core, deliv, waits, ghost
<1>4. (status \in [Task -> Status])'
  BY DEF Decide, TypeOK, TaskType, Status
<1>5. (retries \in [Task -> Nat])'
  BY DEF Decide, TypeOK, TaskType
<1>6. (transient \in [Task -> BOOLEAN])'
  BY DEF Decide, TypeOK, TaskType
<1>7. (pc \in [Task -> [Run -> Place]])'
  BY GotoKeepsType DEF Decide, TypeOK, RunType, Place
<1>q. QED
  BY <1>1, <1>2, <1>3, <1>4, <1>5, <1>6, <1>7 DEF TypeOK, TaskType, RunType

LEMMA BackoffOverType ==
    ASSUME TypeOK, NEW t \in Task, NEW r \in Run, BackoffOver(t, r)
    PROVE  TypeOK'
<1>1. /\ TaskType'
      /\ WaitType'
      /\ StopType'
      /\ GhostType'
  BY DEF BackoffOver, core, deliv, waits, ghost, TypeOK, TaskType, WaitType, StopType, GhostType
<1>2. UNCHANGED <<handle, ctx, done>>
  BY DEF BackoffOver, core, deliv, waits, ghost
<1>3. (pc \in [Task -> [Run -> Place]])'
  BY GotoKeepsType DEF BackoffOver, TypeOK, RunType, Place
<1>q. QED
  BY <1>1, <1>2, <1>3 DEF TypeOK, RunType

LEMMA BackoffCancelledType ==
    ASSUME TypeOK, NEW t \in Task, NEW r \in Run, BackoffCancelled(t, r)
    PROVE  TypeOK'
<1>1. /\ WaitType'
      /\ StopType'
      /\ GhostType'
  BY DEF BackoffCancelled, core, deliv, waits, ghost, TypeOK, WaitType, StopType, GhostType
<1>2. UNCHANGED <<run, retries, transient>>
  BY DEF BackoffCancelled, core, deliv, waits, ghost
<1>3. UNCHANGED <<handle, ctx>>
  BY DEF BackoffCancelled, core, deliv, waits, ghost
<1>4. (status \in [Task -> Status])'
  BY DEF BackoffCancelled, TypeOK, TaskType, Status
<1>5. (result \in [Task -> Result])'
  BY DEF BackoffCancelled, TypeOK, TaskType, Result, Kind, Run
<1>6. (done \in [Task -> SUBSET (0 .. MaxRuns)])'
  BY SignalDoneKeepsType DEF BackoffCancelled, TypeOK, RunType, TaskType
<1>7. (pc \in [Task -> [Run -> Place]])'
  BY GotoKeepsType DEF BackoffCancelled, TypeOK, RunType, Place
<1>q. QED
  BY <1>1, <1>2, <1>3, <1>4, <1>5, <1>6, <1>7 DEF TypeOK, TaskType, RunType

LEMMA PanicType ==
    ASSUME TypeOK, NEW t \in Task, NEW r \in Run, Panic(t, r)
    PROVE  TypeOK'
<1>1. /\ TaskType'
      /\ WaitType'
      /\ StopType'
      /\ GhostType'
  BY DEF Panic, core, deliv, waits, ghost, TypeOK, TaskType, WaitType, StopType, GhostType
<1>2. UNCHANGED <<handle, ctx, done>>
  BY DEF Panic, core, deliv, waits, ghost
<1>3. (pc \in [Task -> [Run -> Place]])'
  BY GotoKeepsType DEF Panic, TypeOK, RunType, Place
<1>q. QED
  BY <1>1, <1>2, <1>3 DEF TypeOK, RunType

LEMMA CleanupType ==
    ASSUME TypeOK, NEW t \in Task, NEW r \in Run, Cleanup(t, r)
    PROVE  TypeOK'
<1>1. /\ TaskType'
      /\ WaitType'
      /\ StopType'
      /\ GhostType'
  BY DEF Cleanup, core, deliv, waits, ghost, TypeOK, TaskType, WaitType, StopType, GhostType
<1>2. UNCHANGED <<done>>
  BY DEF Cleanup, core, deliv, waits, ghost
<1>3. (handle \in [Task -> 0 .. MaxRuns])'
  BY CancelHandleKeepsType DEF Cleanup, TypeOK, RunType
<1>4. (ctx \in [Task -> SUBSET Run])'
  BY CancelHandleKeepsType DEF Cleanup, TypeOK, RunType
<1>5. (pc \in [Task -> [Run -> Place]])'
  BY GotoKeepsType DEF Cleanup, TypeOK, RunType, Place
<1>q. QED
  BY <1>1, <1>2, <1>3, <1>4, <1>5 DEF TypeOK, RunType

LEMMA RecoverType ==
    ASSUME TypeOK, NEW t \in Task, NEW r \in Run, Recover(t, r)
    PROVE  TypeOK'
<1>1. /\ WaitType'
      /\ StopType'
      /\ GhostType'
  BY DEF Recover, core, deliv, waits, ghost, TypeOK, WaitType, StopType, GhostType
<1>2. UNCHANGED <<run, retries, transient>>
  BY DEF Recover, core, deliv, waits, ghost
<1>3. UNCHANGED <<handle, ctx, done>>
  BY DEF Recover, core, deliv, waits, ghost
<1>4. (status \in [Task -> Status])'
  BY DEF Recover, TypeOK, TaskType, Status
<1>5. (result \in [Task -> Result])'
  BY DEF Recover, TypeOK, TaskType, Result, Kind, Run
<1>6. (pc \in [Task -> [Run -> Place]])'
  BY GotoKeepsType DEF Recover, TypeOK, RunType, Place
<1>q. QED
  BY <1>1, <1>2, <1>3, <1>4, <1>5, <1>6 DEF TypeOK, TaskType, RunType

LEMMA SignalType ==
    ASSUME TypeOK, NEW t \in Task, NEW r \in Run, Signal(t, r)
    PROVE  TypeOK'
<1>1. /\ TaskType'
      /\ WaitType'
      /\ StopType'
      /\ GhostType'
  BY DEF Signal, core, deliv, waits, ghost, TypeOK, TaskType, WaitType, StopType, GhostType
<1>2. UNCHANGED <<handle, ctx>>
  BY DEF Signal, core, deliv, waits, ghost
<1>3. (done \in [Task -> SUBSET (0 .. MaxRuns)])'
  BY SignalDoneKeepsType DEF Signal, TypeOK, RunType, TaskType
<1>4. (pc \in [Task -> [Run -> Place]])'
  BY GotoKeepsType DEF Signal, TypeOK, RunType, Place
<1>q. QED
  BY <1>1, <1>2, <1>3, <1>4 DEF TypeOK, RunType

LEMMA StopAllType ==
    ASSUME TypeOK, StopAll
    PROVE  TypeOK'
<1> DEFINE S == {t \in Task : handle[t] # 0 \/ status[t] \in {"needs_context", "pending"}}
<1>1. StopUnderLock(S, S, FALSE)
  BY DEF StopAll
<1>2. S \in SUBSET Task
  OBVIOUS
<1>q. QED
  BY <1>1, <1>2, StopUnderLockType

LEMMA WaitLookType ==
    ASSUME TypeOK, NEW w \in Wait, WaitLook(w)
    PROVE  TypeOK'
<1>1. /\ TaskType'
      /\ RunType'
      /\ StopType'
      /\ GhostType'
  BY DEF WaitLook, core, deliv, waits, ghost, TypeOK, TaskType, RunType, StopType, GhostType
<1>2. UNCHANGED <<claimed, waiters, target>>
  BY DEF WaitLook, core, deliv, waits, ghost
<1>3. (call \in [Wait -> Stage])'
  BY DEF WaitLook, TypeOK, WaitType, Stage, Enter
<1>4. (seen \in [Wait -> Snapshot])'
  BY DEF WaitLook, TypeOK, WaitType, Snapshot, Look, Enter, TaskType
<1>q. QED
  BY <1>1, <1>2, <1>3, <1>4 DEF TypeOK, WaitType

LEMMA WaitTimeoutType ==
    ASSUME TypeOK, NEW w \in Wait, WaitTimeout(w)
    PROVE  TypeOK'
<1>1. /\ TaskType'
      /\ RunType'
      /\ StopType'
      /\ GhostType'
  BY DEF WaitTimeout, core, deliv, waits, ghost, TypeOK, TaskType, RunType, StopType, GhostType
<1>2. UNCHANGED <<claimed, waiters, target, seen>>
  BY DEF WaitTimeout, core, deliv, waits, ghost
<1>3. (call \in [Wait -> Stage])'
  BY DEF WaitTimeout, TypeOK, WaitType, Stage, Enter
<1>q. QED
  BY <1>1, <1>2, <1>3 DEF TypeOK, WaitType

LEMMA WaitRegisterType ==
    ASSUME TypeOK, NEW w \in Wait, WaitRegister(w)
    PROVE  TypeOK'
<1>1. /\ TaskType'
      /\ RunType'
      /\ StopType'
      /\ GhostType'
  BY DEF WaitRegister, core, deliv, waits, ghost, TypeOK, TaskType, RunType, StopType, GhostType
<1>2. UNCHANGED <<claimed, target, seen>>
  BY DEF WaitRegister, core, deliv, waits, ghost
<1>3. (waiters \in [Task -> Nat])'
  BY DEF WaitRegister, TypeOK, WaitType, Less1
<1>4. (call \in [Wait -> Stage])'
  BY DEF WaitRegister, TypeOK, WaitType, Stage, Enter
<1>q. QED
  BY <1>1, <1>2, <1>3, <1>4 DEF TypeOK, WaitType

LEMMA WaitWakeType ==
    ASSUME TypeOK, NEW w \in Wait, WaitWake(w)
    PROVE  TypeOK'
<1>1. /\ TaskType'
      /\ RunType'
      /\ StopType'
      /\ GhostType'
  BY DEF WaitWake, core, deliv, waits, ghost, TypeOK, TaskType, RunType, StopType, GhostType
<1>2. UNCHANGED <<claimed, waiters, target, seen>>
  BY DEF WaitWake, core, deliv, waits, ghost
<1>3. (call \in [Wait -> Stage])'
  BY DEF WaitWake, TypeOK, WaitType, Stage, Enter
<1>q. QED
  BY <1>1, <1>2, <1>3 DEF TypeOK, WaitType

LEMMA WaitFetchType ==
    ASSUME TypeOK, NEW w \in Wait, WaitFetch(w)
    PROVE  TypeOK'
<1>1. /\ TaskType'
      /\ RunType'
      /\ StopType'
      /\ GhostType'
  BY DEF WaitFetch, core, deliv, waits, ghost, TypeOK, TaskType, RunType, StopType, GhostType
<1>2. UNCHANGED <<claimed, waiters, target>>
  BY DEF WaitFetch, core, deliv, waits, ghost
<1>3. (call \in [Wait -> Stage])'
  BY DEF WaitFetch, TypeOK, WaitType, Stage, Enter
<1>4. (seen \in [Wait -> Snapshot])'
  BY DEF WaitFetch, TypeOK, WaitType, Snapshot, Look, Enter, TaskType
<1>q. QED
  BY <1>1, <1>2, <1>3, <1>4 DEF TypeOK, WaitType

LEMMA WaitClaimType ==
    ASSUME TypeOK, NEW w \in Wait, WaitClaim(w)
    PROVE  TypeOK'
<1>1. /\ TaskType'
      /\ RunType'
      /\ StopType'
      /\ GhostType'
  BY DEF WaitClaim, core, deliv, waits, ghost, TypeOK, TaskType, RunType, StopType, GhostType
<1>2. UNCHANGED <<waiters, target, seen>>
  BY DEF WaitClaim, core, deliv, waits, ghost
<1>3. (claimed \in [Task -> BOOLEAN])'
  BY DEF WaitClaim, TypeOK, WaitType
<1>4. (call \in [Wait -> Stage])'
  BY DEF WaitClaim, TypeOK, WaitType, Stage, Enter
<1>q. QED
  BY <1>1, <1>2, <1>3, <1>4 DEF TypeOK, WaitType

LEMMA WaitReleaseType ==
    ASSUME TypeOK, NEW w \in Wait, WaitRelease(w)
    PROVE  TypeOK'
<1>1. /\ TaskType'
      /\ RunType'
      /\ StopType'
  BY DEF WaitRelease, core, deliv, waits, ghost, TypeOK, TaskType, RunType, StopType
<1>2. UNCHANGED <<target, seen>>
  BY DEF WaitRelease, core, deliv, waits, ghost
<1>3. UNCHANGED <<halted, injected, told, refused, crossed, missed>>
  BY DEF WaitRelease, core, deliv, waits, ghost
<1>4. (claimed \in [Task -> BOOLEAN])'
  BY DEF WaitRelease, TypeOK, WaitType
<1>5. (waiters \in [Task -> Nat])'
  BY DEF WaitRelease, TypeOK, WaitType, Less1
<1>6. (call \in [Wait -> Stage])'
  BY DEF WaitRelease, TypeOK, WaitType, Stage, Enter
<1>7. (read \subseteq (Task \X Result))'
  BY DEF WaitRelease, TypeOK, GhostType, TaskType, WaitType, Snapshot
<1>q. QED
  BY <1>1, <1>2, <1>3, <1>4, <1>5, <1>6, <1>7 DEF TypeOK, WaitType, GhostType

(* Every variable keeps its type, whatever the tasks, the waits and the bounds. *)
THEOREM TypeCorrect == Spec => []TypeOK
<1>1. Init => TypeOK
  BY TypeInit
<1>2. TypeOK /\ [Next]_vars => TypeOK'
  <2> SUFFICES ASSUME TypeOK, [Next]_vars PROVE TypeOK'
    OBVIOUS
  <2>1. ASSUME NEW t \in Task, Spawn(t) PROVE TypeOK'
    BY <2>1, SpawnType
  <2>2. ASSUME NEW t \in Task, Continue(t) PROVE TypeOK'
    BY <2>2, ContinueType
  <2>3. ASSUME NEW t \in Task, NEW seal \in BOOLEAN, StopTask(t, seal) PROVE TypeOK'
    BY <2>3, StopTaskType
  <2>4. ASSUME NEW t \in Task, StopCancel(t) \/ StopSeal(t) \/ CancelSession(t) PROVE TypeOK'
    BY <2>4, StopCancelType, StopSealType, CancelSessionType
  <2>5. ASSUME NEW t \in Task, NEW r \in Run, RunStep(t, r) PROVE TypeOK'
    <3>1. ASSUME NEW s \in Outcome, NEW tr \in BOOLEAN, Finish(t, r, s, tr) PROVE TypeOK'
      <4>1. s \in Status
        BY DEF Outcome, Status
      <4>q. QED
        BY <3>1, <4>1, FinishType
    <3>q. QED
      BY <2>5, <3>1, DepsCancelledType, DepsMetType, BeginType, CheckType, CallbackType,
         DecideType, BackoffOverType, BackoffCancelledType, PanicType, CleanupType,
         RecoverType, SignalType DEF RunStep
  <2>6. CASE StopAll
    BY <2>6, StopAllType
  <2>7. ASSUME NEW w \in Wait, WaitLook(w) \/ WaitTimeout(w) \/ WaitStep(w) PROVE TypeOK'
    BY <2>7, WaitLookType, WaitTimeoutType, WaitRegisterType, WaitWakeType, WaitFetchType,
       WaitClaimType, WaitReleaseType DEF WaitStep
  <2>8. CASE UNCHANGED vars
    BY <2>8 DEF vars, core, deliv, waits, ghost, TypeOK, TaskType, RunType, WaitType,
                StopType, GhostType
  <2>q. QED
    BY <2>1, <2>2, <2>3, <2>4, <2>5, <2>6, <2>7, <2>8 DEF Next
<1>q. QED
  BY <1>1, <1>2, PTL DEF Spec

-----------------------------------------------------------------------------
(* What the parent already has is never injected *)

LEMMA FreshInvInit == ASSUME Init PROVE FreshInv
BY DEF Init, FreshInv, NoResult, NoSnapshot, FinalOf

\* The goroutines and the tasks that are there were there before.
NothingBegins ==
  /\ \A u \in Task : \A q \in Run : pc'[u][q] # "none" => pc[u][q] # "none"
  /\ \A u \in Task : status'[u] = "absent" => status[u] = "absent"

LEMMA GotoBeginsNothing ==
    ASSUME TypeOK, NEW t \in Task, NEW r \in Run, NEW place, pc[t][r] # "none",
           Goto(t, r, place),
           \/ UNCHANGED status
           \/ \E s \in Status \ {"absent"} : status' = [status EXCEPT ![t] = s]
    PROVE  NothingBegins
<1>1. \A u \in Task : \A q \in Run : pc'[u][q] # "none" => pc[u][q] # "none"
  BY DEF TypeOK, RunType, Goto
<1>2. \A u \in Task : status'[u] = "absent" => status[u] = "absent"
  BY DEF TypeOK, TaskType
<1>q. QED
  BY <1>1, <1>2 DEF NothingBegins

\* A step that moves no result and takes no claim back.
LEMMA FreshInvFrame ==
    ASSUME FreshInv, NothingBegins,
           UNCHANGED <<run, result, target, seen, read>>,
           \A t \in Task : claimed[t] => claimed'[t],
           \A w \in Wait : call'[w] = "answer" => call[w] = "answer",
           target \in [Wait -> Task]
    PROVE  FreshInv'
BY DEF FreshInv, FinalOf, NothingBegins

\* A step that leaves a result of a run that has begun.
LEMMA FreshInvResult ==
    ASSUME FreshInv, NothingBegins,
           UNCHANGED <<run, claimed, call, target, seen, read>>,
           \A t \in Task : result'[t] = result[t] \/ result'[t].run <= run[t]
    PROVE  FreshInv'
BY DEF FreshInv, FinalOf, NothingBegins

LEMMA GoroutineFresh ==
    ASSUME TypeOK, FreshInv, NEW t \in Task, NEW r \in Run, RunStep(t, r)
    PROVE  FreshInv'
<1>1. /\ target \in [Wait -> Task]
      /\ result \in [Task -> Result]
      /\ claimed \in [Task -> BOOLEAN]
  BY DEF TypeOK, TaskType, WaitType
<1>2. pc[t][r] # "none"
  BY DEF RunStep, DepsCancelled, DepsMet, Begin, Check, Finish, Callback, Decide, BackoffOver,
         BackoffCancelled, Panic, Cleanup, Recover, Signal
<1>3. r <= run[t]
  BY <1>2 DEF FreshInv
<1>4. NothingBegins
  <2>1. \E place : Goto(t, r, place)
    BY DEF RunStep, DepsCancelled, DepsMet, Begin, Check, Finish, Callback, Decide, BackoffOver,
           BackoffCancelled, Panic, Cleanup, Recover, Signal
  <2>2. \/ UNCHANGED status
        \/ \E s \in Status \ {"absent"} : status' = [status EXCEPT ![t] = s]
    BY DEF RunStep, DepsCancelled, DepsMet, Begin, Check, Finish, Callback, Decide, BackoffOver,
           BackoffCancelled, Panic, Cleanup, Recover, Signal, Status, Outcome
  <2>q. QED
    BY <1>2, <2>1, <2>2, GotoBeginsNothing
<1>5. UNCHANGED <<run, call, target, seen, read>>
  BY DEF RunStep, DepsCancelled, DepsMet, Begin, Check, Finish, Callback, Decide, BackoffOver,
         BackoffCancelled, Panic, Cleanup, Recover, Signal, deliv, waits, ghost
<1>6. CASE Callback(t, r)
  <2>1. UNCHANGED result
    BY <1>6 DEF Callback
  <2>2. \A u \in Task : claimed[u] => claimed'[u]
    BY <1>1, <1>6 DEF Callback
  <2>q. QED
    BY <1>1, <1>4, <1>5, <2>1, <2>2, FreshInvFrame
<1>7. CASE ~Callback(t, r)
  <2>1. UNCHANGED claimed
    BY <1>7 DEF RunStep, DepsCancelled, DepsMet, Begin, Check, Finish, Decide, BackoffOver,
                BackoffCancelled, Panic, Cleanup, Recover, Signal, deliv
  <2>2. UNCHANGED result \/ \E k \in Kind : result' = [result EXCEPT ![t] = [run |-> r, kind |-> k]]
    BY <1>7 DEF RunStep, DepsCancelled, DepsMet, Begin, Check, Finish, Decide, BackoffOver,
                BackoffCancelled, Panic, Cleanup, Recover, Signal, Kind
  <2>3. \A u \in Task : result'[u] = result[u] \/ result'[u].run <= run[u]
    BY <1>1, <1>3, <2>2
  <2>q. QED
    BY <1>4, <1>5, <2>1, <2>3, FreshInvResult
<1>q. QED
  BY <1>6, <1>7

\* A new run: no result bears its number yet.
LEMMA NewRunFresh ==
    ASSUME TypeOK, FreshInv, NEW t \in Task, NEW place, run[t] + 1 \in Run,
           run' = [run EXCEPT ![t] = @ + 1], Goto(t, run[t] + 1, place),
           \A u \in Task : status'[u] = "absent" => status[u] = "absent" /\ u # t,
           \A u \in Task : u # t => claimed'[u] = claimed[u],
           UNCHANGED <<result, call, target, seen, read>>
    PROVE  FreshInv'
<1>1. /\ \A u \in Task : run[u] \in Nat
      /\ run \in [Task -> 0 .. MaxRuns]
      /\ target \in [Wait -> Task]
      /\ result \in [Task -> Result]
      /\ seen \in [Wait -> Snapshot]
      /\ pc \in [Task -> [Run -> Place]]
  BY DEF TypeOK, TaskType, RunType, WaitType
<1>2. \A x \in Result : x.run \in Nat
  BY DEF Result
<1>3. \A w \in Wait : seen[w].result \in Result
  BY <1>1 DEF Snapshot
<1>4. \A u \in Task : run'[u] = IF u = t THEN run[t] + 1 ELSE run[u]
  BY <1>1
<1>5. \A u \in Task : status'[u] = "absent" => run'[u] = 0
  BY <1>4 DEF FreshInv
<1>6. \A u \in Task : result'[u].run <= run'[u]
  BY <1>1, <1>2, <1>4 DEF FreshInv
<1>7. ASSUME NEW u \in Task, NEW q \in Run, pc'[u][q] # "none"
      PROVE  q <= run'[u]
  <2>1. q \in Nat
    BY SubagentAssumption DEF Run
  <2>2. CASE u = t /\ q = run[t] + 1
    BY <1>4, <2>1, <2>2
  <2>3. CASE ~(u = t /\ q = run[t] + 1)
    <3>1. pc'[u][q] = pc[u][q]
      BY <1>1, <2>3 DEF Goto
    <3>2. q <= run[u]
      BY <1>7, <3>1 DEF FreshInv
    <3>q. QED
      BY <1>1, <1>4, <2>1, <3>2
  <2>q. QED
    BY <2>2, <2>3
<1>8. \A w \in Wait : seen'[w].result.run <= run'[target'[w]]
  BY <1>1, <1>2, <1>3, <1>4 DEF FreshInv
<1>9. \A u \in Task : \A x \in Result : <<u, x>> \in read' => x.run <= run'[u]
  BY <1>1, <1>2, <1>4 DEF FreshInv
<1>10. ASSUME NEW u \in Task, <<u, FinalOf(u, run'[u])>> \in read'
       PROVE  claimed'[u]
  <2>1. FinalOf(u, run'[u]) \in Result /\ FinalOf(u, run'[u]).run = run'[u]
    BY <1>1, <1>4, SubagentAssumption DEF FinalOf, Result, Kind, Run
  <2>2. u # t
    <3>1. run'[u] <= run[u]
      BY <1>10, <2>1 DEF FreshInv
    <3>q. QED
      BY <1>1, <1>4, <3>1
  <2>q. QED
    BY <1>4, <1>10, <2>2 DEF FreshInv
<1>11. ASSUME NEW w \in Wait, call'[w] = "answer",
              seen'[w].result = FinalOf(target'[w], run'[target'[w]])
       PROVE  claimed'[target'[w]]
  <2>1. target[w] \in Task /\ seen[w].result.run = run'[target[w]]
    BY <1>1, <1>11 DEF FinalOf
  <2>2. target[w] # t
    <3>1. run'[target[w]] <= run[target[w]]
      BY <2>1 DEF FreshInv
    <3>q. QED
      BY <1>1, <1>4, <2>1, <3>1
  <2>q. QED
    BY <1>4, <1>11, <2>1, <2>2 DEF FreshInv
<1>q. QED
  BY <1>5, <1>6, <1>7, <1>8, <1>9, <1>10, <1>11 DEF FreshInv

LEMMA SpawnFresh ==
    ASSUME TypeOK, FreshInv, NEW t \in Task, Spawn(t)
    PROVE  FreshInv'
<1>1. run[t] = 0
  BY DEF Spawn, FreshInv
<1>2. run[t] + 1 \in Run /\ run' = [run EXCEPT ![t] = @ + 1]
  BY <1>1, SubagentAssumption DEF Spawn, Run
<1>3. \E place : Goto(t, run[t] + 1, place)
  BY <1>1 DEF Spawn
<1>4. \A u \in Task : status'[u] = "absent" => status[u] = "absent" /\ u # t
  BY DEF Spawn, TypeOK, TaskType
<1>5. UNCHANGED <<result, claimed, call, target, seen, read>>
  BY DEF Spawn, deliv, waits, ghost
<1>q. QED
  BY <1>2, <1>3, <1>4, <1>5, NewRunFresh

LEMMA ContinueFresh ==
    ASSUME TypeOK, FreshInv, NEW t \in Task, Continue(t)
    PROVE  FreshInv'
<1>1. run[t] \in 0 .. MaxRuns /\ claimed \in [Task -> BOOLEAN]
  BY DEF TypeOK, TaskType, WaitType
<1>2. run[t] + 1 \in Run /\ run' = [run EXCEPT ![t] = @ + 1]
  BY <1>1, SubagentAssumption DEF Continue, NextRun, ResetDelivery, Run
<1>3. \A u \in Task : status'[u] = "absent" => status[u] = "absent" /\ u # t
  BY DEF Continue, NextRun, ResetDelivery, TypeOK, TaskType
<1>4. \A u \in Task : u # t => claimed'[u] = claimed[u]
  BY <1>1 DEF Continue, NextRun, ResetDelivery
<1>5. UNCHANGED <<result, call, target, seen, read>> /\ Goto(t, run[t] + 1, "impl")
  BY DEF Continue, NextRun, ResetDelivery, waits, ghost
<1>q. QED
  BY <1>2, <1>3, <1>4, <1>5, NewRunFresh

LEMMA StopFresh ==
    ASSUME TypeOK, FreshInv, NEW S \in SUBSET Task, NEW canStop \in SUBSET Task,
           NEW seal \in BOOLEAN, StopUnderLock(S, canStop, seal)
    PROVE  FreshInv'
<1>1. run \in [Task -> 0 .. MaxRuns]
  BY DEF TypeOK, TaskType
<1>2. NothingBegins
  BY DEF StopUnderLock, NothingBegins
<1>3. \A t \in Task : result'[t] = result[t] \/ result'[t].run <= run[t]
  BY <1>1 DEF StopUnderLock
<1>q. QED
  BY <1>2, <1>3, FreshInvResult DEF StopUnderLock, deliv, waits, ghost

LEMMA StopsFresh ==
    ASSUME TypeOK, FreshInv,
           NEW t \in Task, StopCancel(t) \/ StopSeal(t) \/ CancelSession(t)
    PROVE  FreshInv'
<1>1. NothingBegins
  BY DEF StopCancel, StopSeal, CancelSession, core, NothingBegins
<1>2. UNCHANGED <<run, result, call, target, seen, read>>
  BY DEF StopCancel, StopSeal, CancelSession, core, waits, ghost
<1>3. claimed \in [Task -> BOOLEAN] /\ target \in [Wait -> Task]
  BY DEF TypeOK, WaitType
<1>4. \A u \in Task : claimed[u] => claimed'[u]
  BY <1>3 DEF StopCancel, StopSeal, CancelSession, deliv
<1>q. QED
  BY <1>1, <1>2, <1>3, <1>4, FreshInvFrame

\* A wait that registers, wakes or gives up.
LEMMA WaitMovesFresh ==
    ASSUME TypeOK, FreshInv, NEW w \in Wait,
           WaitRegister(w) \/ WaitWake(w) \/ WaitTimeout(w)
    PROVE  FreshInv'
<1>1. NothingBegins
  BY DEF WaitRegister, WaitWake, WaitTimeout, core, NothingBegins
<1>2. UNCHANGED <<run, result, claimed, target, seen, read>>
  BY DEF WaitRegister, WaitWake, WaitTimeout, core, deliv, ghost
<1>3. target \in [Wait -> Task] /\ call \in [Wait -> Stage]
  BY DEF TypeOK, WaitType
<1>4. \A v \in Wait : call'[v] = "answer" => call[v] = "answer"
  BY <1>3 DEF WaitRegister, WaitWake, WaitTimeout, Enter
<1>q. QED
  BY <1>1, <1>2, <1>3, <1>4, FreshInvFrame

LEMMA WaitReadsFresh ==
    ASSUME TypeOK, FreshInv, NEW w \in Wait, WaitLook(w) \/ WaitFetch(w)
    PROVE  FreshInv'
<1>1. /\ target \in [Wait -> Task]
      /\ call \in [Wait -> Stage]
      /\ seen \in [Wait -> Snapshot]
  BY DEF TypeOK, WaitType
<1>2. UNCHANGED <<status, run, result, pc, claimed, target, read>>
  BY DEF WaitLook, WaitFetch, core, deliv, ghost
<1>3. \A v \in Wait : call'[v] = "answer" => v # w /\ call[v] = "answer"
  BY <1>1 DEF WaitLook, WaitFetch, Enter
<1>4. /\ seen'[w].result = result[target[w]]
      /\ \A v \in Wait : v # w => seen'[v] = seen[v]
  BY <1>1 DEF WaitLook, WaitFetch, Look
<1>5. \A v \in Wait : seen'[v].result.run <= run[target[v]]
  BY <1>1, <1>4 DEF FreshInv
<1>q. QED
  BY <1>1, <1>2, <1>3, <1>4, <1>5 DEF FreshInv, FinalOf

LEMMA WaitClaimFresh ==
    ASSUME TypeOK, FreshInv, NEW w \in Wait, WaitClaim(w)
    PROVE  FreshInv'
<1>1. /\ target \in [Wait -> Task]
      /\ call \in [Wait -> Stage]
      /\ claimed \in [Task -> BOOLEAN]
  BY DEF TypeOK, WaitType
<1>2. UNCHANGED <<status, run, result, pc, target, seen, read>>
  BY DEF WaitClaim, core, ghost
<1>3. /\ claimed'[target[w]]
      /\ \A u \in Task : claimed[u] => claimed'[u]
  BY <1>1 DEF WaitClaim
<1>4. \A v \in Wait : call'[v] = "answer" => v = w \/ call[v] = "answer"
  BY <1>1 DEF WaitClaim, Enter
<1>q. QED
  BY <1>1, <1>2, <1>3, <1>4 DEF FreshInv, FinalOf

LEMMA WaitReleaseFresh ==
    ASSUME TypeOK, FreshInv, NEW w \in Wait, WaitRelease(w)
    PROVE  FreshInv'
<1> DEFINE t == target[w]
           raced == Less1(waiters[t]) = 0 /\ ~claimed[t] /\ Settled(status[t])
<1>1. /\ target \in [Wait -> Task]
      /\ call \in [Wait -> Stage]
      /\ claimed \in [Task -> BOOLEAN]
      /\ t \in Task
  BY DEF TypeOK, WaitType
<1>2. UNCHANGED <<status, run, result, pc, target, seen>>
  BY DEF WaitRelease, core
<1>3. /\ raced => claimed'[t]
      /\ \A u \in Task : claimed[u] => claimed'[u]
  BY <1>1 DEF WaitRelease
<1>4. \A v \in Wait : call'[v] = "answer" => call[v] = "answer"
  BY <1>1 DEF WaitRelease, Enter
<1>5. \A u \in Task : \A x :
        <<u, x>> \in read' =>
          \/ <<u, x>> \in read
          \/ u = t /\ x = seen[w].result /\ call[w] = "answer"
          \/ u = t /\ x = result[t] /\ raced
  BY DEF WaitRelease
<1>6. \A u \in Task : \A x \in Result : <<u, x>> \in read' => x.run <= run[u]
  BY <1>1, <1>5 DEF FreshInv
<1>7. \A u \in Task : <<u, FinalOf(u, run[u])>> \in read' => claimed'[u]
  BY <1>1, <1>3, <1>5 DEF FreshInv
<1>q. QED
  BY <1>1, <1>2, <1>3, <1>4, <1>6, <1>7 DEF FreshInv, FinalOf

LEMMA FreshInvStep ==
    ASSUME TypeOK, FreshInv, [Next]_vars
    PROVE  FreshInv'
<1>1. ASSUME NEW t \in Task, NEW seal \in BOOLEAN, StopTask(t, seal) PROVE FreshInv'
  BY <1>1, StopFresh DEF StopTask
<1>2. CASE StopAll
  <2> DEFINE S == {t \in Task : handle[t] # 0 \/ status[t] \in {"needs_context", "pending"}}
  <2>1. StopUnderLock(S, S, FALSE) /\ S \in SUBSET Task
    BY <1>2 DEF StopAll
  <2>q. QED
    BY <2>1, StopFresh
<1>3. ASSUME NEW w \in Wait, WaitLook(w) \/ WaitTimeout(w) \/ WaitStep(w) PROVE FreshInv'
  BY <1>3, WaitMovesFresh, WaitReadsFresh, WaitClaimFresh, WaitReleaseFresh DEF WaitStep
<1>4. CASE UNCHANGED vars
  BY <1>4 DEF vars, core, deliv, waits, ghost, FreshInv, FinalOf
<1>q. QED
  BY <1>1, <1>2, <1>3, <1>4, SpawnFresh, ContinueFresh, StopsFresh, GoroutineFresh DEF Next

\* Only the callback of a run injects, and only unclaimed results.
LEMMA InjectionIsFresh ==
    ASSUME TypeOK, FreshInv, [Next]_vars, NEW t \in Task,
           <<t, run[t]>> \in injected', <<t, run[t]>> \notin injected
    PROVE  <<t, FinalOf(t, run[t])>> \notin read
<1>1. ASSUME NEW u \in Task, NEW r \in Run, Callback(u, r)
      PROVE  <<t, FinalOf(t, run[t])>> \notin read
  <2>1. u = t /\ ~claimed[t]
    BY <1>1 DEF Callback, PublishInbound
  <2>q. QED
    BY <2>1 DEF FreshInv
<1>2. CASE \A u \in Task : \A r \in Run : ~Callback(u, r)
  <2>1. UNCHANGED injected
    <3>1. ASSUME NEW u \in Task, NEW r \in Run, RunStep(u, r) PROVE UNCHANGED injected
      BY <1>2, <3>1 DEF RunStep, DepsCancelled, DepsMet, Begin, Check, Finish, Decide,
         BackoffOver, BackoffCancelled, Panic, Cleanup, Recover, Signal, ghost
    <3>2. ASSUME NEW w \in Wait, WaitLook(w) \/ WaitTimeout(w) \/ WaitStep(w)
          PROVE  UNCHANGED injected
      BY <3>2 DEF WaitLook, WaitTimeout, WaitStep, WaitRegister, WaitWake, WaitFetch,
         WaitClaim, WaitRelease, ghost
    <3>3. ASSUME NEW u \in Task, NEW seal \in BOOLEAN,
                 Spawn(u) \/ Continue(u) \/ StopTask(u, seal) \/ StopCancel(u) \/ StopSeal(u)
                    \/ CancelSession(u)
          PROVE  UNCHANGED injected
      BY <3>3 DEF Spawn, Continue, NextRun, ResetDelivery, StopTask, StopUnderLock, StopCancel, StopSeal, CancelSession, ghost
    <3>4. StopAll \/ UNCHANGED vars => UNCHANGED injected
      BY DEF StopAll, StopUnderLock, vars, ghost
    <3>q. QED
      BY <3>1, <3>2, <3>3, <3>4 DEF Next
  <2>q. QED
    BY <2>1
<1>q. QED
  BY <1>1, <1>2

(* The final result of a task's current run is in the parent's hands, or about *)
(* to be, only under a claim, for any tasks, waits and bounds.                 *)
THEOREM ReadIsClaimed == Spec => []FreshInv
<1>1. Init => FreshInv
  BY FreshInvInit
<1>2. TypeOK /\ FreshInv /\ [Next]_vars => FreshInv'
  BY FreshInvStep
<1>q. QED
  BY <1>1, <1>2, TypeCorrect, PTL DEF Spec

(* A result that a wait has returned to the parent is never claimed for an     *)
(* injection, whatever the interleaving of goroutines, waits, continuations    *)
(* and stops.                                                                  *)
THEOREM NeverReadThenInjected == Spec => InjectFresh
<1>1. TypeOK /\ FreshInv /\ [Next]_vars
        => [\A t \in Task :
              (<<t, run[t]>> \in injected' /\ <<t, run[t]>> \notin injected)
                => <<t, FinalOf(t, run[t])>> \notin read]_vars
  BY InjectionIsFresh
<1>q. QED
  BY <1>1, TypeCorrect, ReadIsClaimed, PTL DEF Spec, InjectFresh

-----------------------------------------------------------------------------
(* The token that lets one goroutine drive a task *)

\* Where a goroutine has the task for itself: it may reach the tool loop
\* without another look at the status.
Active == {"deps", "met", "impl", "check", "loop", "backoff", "unwind", "recover"}

\* The states in which a goroutine may take the task up: ContinueTask starts
\* one, or the one that decides after a transient failure tries again.
Open(t) == status[t] = "needs_context" \/ RetryPending(t, status[t], transient[t])

Idle(t) == \A r \in Run : pc[t][r] \notin Active

\* At most one goroutine has the task, and none while it may be taken up.
TokenInv ==
  /\ \A t \in Task : \A r, q \in Run : (pc[t][r] \in Active /\ pc[t][q] \in Active) => r = q
  /\ \A t \in Task : Open(t) => Idle(t)

LEMMA TokenInit == ASSUME Init PROVE TokenInv
BY DEF Init, TokenInv, Active, Open, Idle, RetryPending

\* A step that moves no goroutine and opens no task.
LEMMA TokenFrame ==
    ASSUME TokenInv, UNCHANGED pc, \A t \in Task : Open(t)' => Open(t)
    PROVE  TokenInv'
BY DEF TokenInv, Idle

\* A goroutine that has the task goes on with it, or leaves it; one that has
\* left does not come back.
LEMMA TokenMoves ==
    ASSUME TypeOK, TokenInv, NEW t \in Task, NEW r \in Run, NEW place, Goto(t, r, place),
           pc[t][r] \in Active \/ place \notin Active,
           \A u \in Task \ {t} : Open(u)' => Open(u),
           Open(t)' => Open(t) \/ (pc[t][r] \in Active /\ place \notin Active)
    PROVE  TokenInv'
<1>1. pc \in [Task -> [Run -> Place]]
  BY DEF TypeOK, RunType
<1>2. \A u \in Task : \A q \in Run : pc'[u][q] \in Active => pc[u][q] \in Active
  BY <1>1 DEF Goto
<1>3. ASSUME NEW u \in Task, Open(u)'
      PROVE  Idle(u)'
  <2>1. CASE Open(u)
    BY <1>2, <2>1 DEF TokenInv, Idle
  <2>2. CASE ~Open(u)
    <3>1. u = t /\ pc[t][r] \in Active /\ place \notin Active
      BY <1>3, <2>2
    <3>2. \A q \in Run \ {r} : pc[t][q] \notin Active
      BY <3>1 DEF TokenInv
    <3>3. pc'[t][r] \notin Active
      BY <1>1, <3>1 DEF Goto
    <3>q. QED
      BY <1>2, <3>1, <3>2, <3>3 DEF Idle
  <2>q. QED
    BY <2>1, <2>2
<1>q. QED
  BY <1>2, <1>3 DEF TokenInv

\* A goroutine takes up a task that no other has.
LEMMA TokenTaken ==
    ASSUME TypeOK, TokenInv, NEW t \in Task, NEW r \in Run, NEW place, Goto(t, r, place),
           Idle(t), ~Open(t)',
           \A u \in Task \ {t} : Open(u)' => Open(u)
    PROVE  TokenInv'
<1>1. pc \in [Task -> [Run -> Place]]
  BY DEF TypeOK, RunType
<1>2. \A u \in Task \ {t} : \A q \in Run : pc'[u][q] = pc[u][q]
  BY <1>1 DEF Goto
<1>3. \A q \in Run \ {r} : pc'[t][q] \notin Active
  BY <1>1 DEF Goto, Idle
<1>4. \A u \in Task \ {t} : Open(u)' => Idle(u)'
  BY <1>2 DEF TokenInv, Idle
<1>5. \A u \in Task : \A p, q \in Run : (pc'[u][p] \in Active /\ pc'[u][q] \in Active) => p = q
  BY <1>2, <1>3 DEF TokenInv
<1>q. QED
  BY <1>4, <1>5 DEF TokenInv

LEMMA SpawnToken ==
    ASSUME TypeOK, FreshInv, TokenInv, NEW t \in Task, Spawn(t)
    PROVE  TokenInv'
<1>1. status \in [Task -> Status] /\ retries' = retries /\ transient' = transient
  BY DEF TypeOK, TaskType, Spawn
<1>2. 1 \in Run /\ \A r \in Run : ~(r <= 0)
  BY SubagentAssumption DEF Run
<1>3. Idle(t)
  BY <1>2 DEF Spawn, FreshInv, Idle, Active
<1>4. ~Open(t)'
  BY <1>1 DEF Spawn, Open, RetryPending
<1>5. \A u \in Task \ {t} : Open(u)' => Open(u)
  BY <1>1 DEF Spawn, Open, RetryPending
<1>6. \E place : Goto(t, 1, place)
  BY DEF Spawn
<1>q. QED
  BY <1>2, <1>3, <1>4, <1>5, <1>6, TokenTaken

LEMMA ContinueToken ==
    ASSUME TypeOK, TokenInv, NEW t \in Task, Continue(t)
    PROVE  TokenInv'
<1>1. /\ status \in [Task -> Status]
      /\ transient \in [Task -> BOOLEAN]
      /\ run[t] \in 0 .. MaxRuns
      /\ retries' = retries
  BY DEF TypeOK, TaskType, Continue, NextRun, ResetDelivery
<1>2. run[t] + 1 \in Run
  BY <1>1, SubagentAssumption DEF Continue, NextRun, ResetDelivery, Run
<1>3. Idle(t)
  BY DEF Continue, NextRun, ResetDelivery, TokenInv, Open
<1>4. ~Open(t)'
  BY <1>1 DEF Continue, NextRun, ResetDelivery, Open, RetryPending
<1>5. \A u \in Task \ {t} : Open(u)' => Open(u)
  BY <1>1 DEF Continue, NextRun, ResetDelivery, Open, RetryPending
<1>6. Goto(t, run[t] + 1, "impl")
  BY DEF Continue, NextRun, ResetDelivery
<1>q. QED
  BY <1>2, <1>3, <1>4, <1>5, <1>6, TokenTaken

LEMMA StopToken ==
    ASSUME TypeOK, TokenInv, NEW S \in SUBSET Task, NEW canStop \in SUBSET Task,
           NEW seal \in BOOLEAN, StopUnderLock(S, canStop, seal)
    PROVE  TokenInv'
BY TokenFrame DEF StopUnderLock, Open, RetryPending

\* Steps of a goroutine that leave the status, the retries and the cause alone.
LEMMA PassToken ==
    ASSUME TypeOK, TokenInv, NEW t \in Task, NEW r \in Run,
           \/ DepsMet(t, r)
           \/ Callback(t, r)
           \/ BackoffOver(t, r)
           \/ Panic(t, r)
           \/ Cleanup(t, r)
           \/ Signal(t, r)
    PROVE  TokenInv'
<1>1. \E place : Goto(t, r, place) /\ (pc[t][r] \in Active \/ place \notin Active)
  BY DEF DepsMet, Callback, BackoffOver, Panic, Cleanup, Signal, Active
<1>2. \A u \in Task : Open(u)' => Open(u)
  BY DEF DepsMet, Callback, BackoffOver, Panic, Cleanup, Signal, Open, RetryPending
<1>q. QED
  BY <1>1, <1>2, TokenMoves

\* The others write the status.
LEMMA WriteToken ==
    ASSUME TypeOK, TokenInv, NEW t \in Task, NEW r \in Run,
           \/ DepsCancelled(t, r)
           \/ Begin(t, r)
           \/ Check(t, r)
           \/ BackoffCancelled(t, r)
           \/ Recover(t, r)
    PROVE  TokenInv'
<1>1. status \in [Task -> Status] /\ transient \in [Task -> BOOLEAN]
  BY DEF TypeOK, TaskType
<1>2. \A u \in Task \ {t} : Open(u)' => Open(u)
  BY <1>1 DEF DepsCancelled, Begin, Check, BackoffCancelled, Recover, Open, RetryPending
<1>3. CASE DepsCancelled(t, r)
  BY <1>1, <1>2, <1>3, TokenMoves DEF DepsCancelled, Active, Open, RetryPending
<1>4. CASE Begin(t, r)
  <2>1. \E place : Goto(t, r, place)
    BY <1>4 DEF Begin
  <2>2. pc[t][r] \in Active /\ ~Open(t)'
    BY <1>1, <1>4 DEF Begin, Active, Open, RetryPending
  <2>q. QED
    BY <1>2, <2>1, <2>2, TokenMoves
<1>5. CASE Check(t, r)
  <2>1. \E place : Goto(t, r, place)
    BY <1>5 DEF Check
  <2>2. pc[t][r] \in Active /\ (Open(t)' => Open(t))
    BY <1>1, <1>5 DEF Check, Active, Open, RetryPending
  <2>q. QED
    BY <1>2, <2>1, <2>2, TokenMoves
<1>6. CASE BackoffCancelled(t, r)
  BY <1>1, <1>2, <1>6, TokenMoves DEF BackoffCancelled, Active
<1>7. CASE Recover(t, r)
  BY <1>1, <1>2, <1>7, TokenMoves DEF Recover, Active
<1>q. QED
  BY <1>3, <1>4, <1>5, <1>6, <1>7

LEMMA FinishToken ==
    ASSUME TypeOK, TokenInv, NEW t \in Task, NEW r \in Run, NEW s, NEW tr, Finish(t, r, s, tr)
    PROVE  TokenInv'
<1>1. status \in [Task -> Status] /\ transient \in [Task -> BOOLEAN]
  BY DEF TypeOK, TaskType
<1>2. \E place \in {"decide", "callback"} : Goto(t, r, place)
  BY DEF Finish
<1>3. \A u \in Task \ {t} : Open(u)' => Open(u)
  BY <1>1 DEF Finish, Open, RetryPending
<1>4. pc[t][r] \in Active
  BY DEF Finish, Active
<1>q. QED
  BY <1>2, <1>3, <1>4, TokenMoves DEF Active

LEMMA DecideToken ==
    ASSUME TypeOK, TokenInv, NEW t \in Task, NEW r \in Run, Decide(t, r)
    PROVE  TokenInv'
<1>1. /\ status \in [Task -> Status]
      /\ transient \in [Task -> BOOLEAN]
      /\ retries \in [Task -> Nat]
  BY DEF TypeOK, TaskType
<1>2. \A u \in Task \ {t} : Open(u)' => Open(u)
  BY <1>1 DEF Decide, Open, RetryPending
<1>3. CASE RetryPending(t, status[t], transient[t])
  <2>1. Idle(t)
    BY <1>3 DEF TokenInv, Open
  <2>2. ~Open(t)'
    BY <1>1, <1>3 DEF Decide, Open, RetryPending
  <2>3. Goto(t, r, "backoff")
    BY <1>3 DEF Decide
  <2>q. QED
    BY <1>2, <2>1, <2>2, <2>3, TokenTaken
<1>4. CASE ~RetryPending(t, status[t], transient[t])
  <2>1. Goto(t, r, "cleanup") /\ (Open(t)' => Open(t))
    BY <1>4 DEF Decide, Open, RetryPending
  <2>q. QED
    BY <1>2, <2>1, TokenMoves DEF Active
<1>q. QED
  BY <1>3, <1>4

\* Waits and the rest of a stop write none of it.
LEMMA OthersToken ==
    ASSUME TokenInv, UNCHANGED core \/ UNCHANGED <<status, retries, transient, pc>>
    PROVE  TokenInv'
BY TokenFrame DEF core, Open, RetryPending

LEMMA TokenStep ==
    ASSUME TypeOK, FreshInv, TokenInv, [Next]_vars
    PROVE  TokenInv'
<1>1. ASSUME NEW t \in Task, NEW seal \in BOOLEAN, StopTask(t, seal) PROVE TokenInv'
  BY <1>1, StopToken DEF StopTask
<1>2. CASE StopAll
  <2> DEFINE S == {t \in Task : handle[t] # 0 \/ status[t] \in {"needs_context", "pending"}}
  <2>1. StopUnderLock(S, S, FALSE) /\ S \in SUBSET Task
    BY <1>2 DEF StopAll
  <2>q. QED
    BY <2>1, StopToken
<1>3. ASSUME NEW t \in Task, StopCancel(t) \/ StopSeal(t) \/ CancelSession(t) PROVE TokenInv'
  BY <1>3, OthersToken DEF StopCancel, StopSeal, CancelSession
<1>4. ASSUME NEW t \in Task, NEW r \in Run, RunStep(t, r) PROVE TokenInv'
  BY <1>4, PassToken, WriteToken, FinishToken, DecideToken DEF RunStep
<1>5. ASSUME NEW w \in Wait, WaitLook(w) \/ WaitTimeout(w) \/ WaitStep(w) PROVE TokenInv'
  BY <1>5, OthersToken
  DEF WaitLook, WaitTimeout, WaitStep, WaitRegister, WaitWake, WaitFetch, WaitClaim, WaitRelease
<1>6. CASE UNCHANGED vars
  BY <1>6, OthersToken DEF vars
<1>q. QED
  BY <1>1, <1>2, <1>3, <1>4, <1>5, <1>6, SpawnToken, ContinueToken DEF Next

(* Two goroutines of one task are never in the tool loop at the same time,     *)
(* whatever runs are continued, retried or stopped, for any number of runs:    *)
(* the status passes the task from one to the next.                            *)
THEOREM OneAtATime == Spec => []OneLoop
<1>1. Init => TokenInv
  BY TokenInit
<1>2. TypeOK /\ FreshInv /\ TokenInv /\ [Next]_vars => TokenInv'
  BY TokenStep
<1>3. TokenInv => OneLoop
  BY DEF TokenInv, OneLoop, Active
<1>q. QED
  BY <1>1, <1>2, <1>3, TypeCorrect, ReadIsClaimed, PTL DEF Spec
-----------------------------------------------------------------------------
(* The context and the done channel of a run *)

\* What a task has of its own before it is there.
Unspawned(t) ==
  /\ status[t] = "absent"
  /\ result[t] = NoResult
  /\ handle[t] = 0
  /\ ctx[t] = {}
  /\ done[t] = {}
  /\ stopper[t].at = "idle"
  /\ stopper[t].run = 0

\* Another attempt is to follow.
Again(t) == RetryPending(t, status[t], transient[t])

\* Where the goroutine of the current run stands.
Here(t) == IF run[t] = 0 THEN "none" ELSE pc[t][run[t]]

\* The goroutine of the current run has not ended, and will look at its context.
Looking(t) ==
  \/ Here(t) \in {"none", "deps", "met", "impl", "check", "loop", "backoff"}
  \/ Here(t) = "decide" /\ Again(t)

\* Of a task that was continued only while it was still, every entry, context
\* and channel is that of its current run or of one that is over, and only a
\* stop or a cancel ends the context of the current one early.
OwnRun(t) ==
  /\ Here(t) # "none"
  /\ \A r \in Run : r < run[t] => pc[t][r] = "exited"
  /\ handle[t] \in {0, run[t]}
  /\ \A r \in ctx[t] \cup done[t] : r <= run[t]
  /\ 0 \notin done[t]
  /\ stopper[t].run <= run[t]
  /\ stopper[t].run # 0 => <<t, stopper[t].run>> \in halted
  /\ Here(t) = "callback" => ~Again(t)
  /\ (run[t] \in ctx[t] /\ Looking(t)) => <<t, run[t]>> \in halted
  /\ run[t] \in done[t] => Here(t) = "exited" \/ <<t, run[t]>> \in halted

Signals(t) == /\ run[t] = 0 => Unspawned(t)
              /\ (run[t] # 0 /\ t \notin crossed) => OwnRun(t)

SignalInv == \A t \in Task : Signals(t)

LEMMA SignalInit == ASSUME Init PROVE SignalInv
BY DEF Init, SignalInv, Signals, Unspawned

\* What a step leaves of a task that it does not touch.
Untouched(t) ==
  /\ status'[t] = status[t]
  /\ result'[t] = result[t]
  /\ run'[t] = run[t]
  /\ retries'[t] = retries[t]
  /\ transient'[t] = transient[t]
  /\ handle'[t] = handle[t]
  /\ ctx'[t] = ctx[t]
  /\ done'[t] = done[t]
  /\ pc'[t] = pc[t]
  /\ stopper'[t] = stopper[t]

LEMMA SignalFrame ==
    ASSUME NEW t \in Task, Signals(t), Untouched(t), halted \subseteq halted',
           crossed \subseteq crossed'
    PROVE  Signals(t)'
<1>1. Here(t)' = Here(t) /\ Again(t)' = Again(t)
  BY DEF Untouched, Here, Again, RetryPending
<1>2. Looking(t)' = Looking(t)
  BY <1>1 DEF Looking
<1>q. QED
  BY <1>1, <1>2 DEF Signals, Untouched, Unspawned, OwnRun

\* A step of one task leaves the others alone.
LEMMA OthersUntouched ==
    ASSUME TypeOK, NEW t \in Task, NEW u \in Task, u # t,
           \/ Spawn(u)
           \/ Continue(u)
           \/ StopCancel(u)
           \/ StopSeal(u)
           \/ CancelSession(u)
           \/ \E r \in Run : RunStep(u, r)
    PROVE  Untouched(t) /\ halted \subseteq halted' /\ crossed \subseteq crossed'
<1>1. /\ status \in [Task -> Status]
      /\ result \in [Task -> Result]
      /\ run \in [Task -> 0 .. MaxRuns]
      /\ retries \in [Task -> Nat]
      /\ transient \in [Task -> BOOLEAN]
      /\ handle \in [Task -> 0 .. MaxRuns]
      /\ ctx \in [Task -> SUBSET Run]
      /\ done \in [Task -> SUBSET (0 .. MaxRuns)]
      /\ pc \in [Task -> [Run -> Place]]
      /\ stopper \in [Task -> StopRequest]
  BY DEF TypeOK, TaskType, RunType, StopType
<1>2. CASE Spawn(u) \/ Continue(u)
  BY <1>1, <1>2 DEF Spawn, Continue, NextRun, ResetDelivery, Goto, Untouched, ghost
<1>3. CASE StopCancel(u) \/ StopSeal(u) \/ CancelSession(u)
  BY <1>1, <1>3 DEF StopCancel, StopSeal, CancelSession, core, Untouched, ghost
<1>4. ASSUME NEW r \in Run, RunStep(u, r)
      PROVE  Untouched(t) /\ halted \subseteq halted' /\ crossed \subseteq crossed'
  <2>1. CASE DepsCancelled(u, r) \/ DepsMet(u, r) \/ Begin(u, r) \/ Check(u, r)
    BY <1>1, <2>1 DEF DepsCancelled, DepsMet, Begin, Check, Goto, Untouched, ghost
  <2>2. CASE \E s \in Outcome, tr \in BOOLEAN : Finish(u, r, s, tr)
    BY <1>1, <2>2 DEF Finish, CancelHandle, Goto, Untouched, ghost
  <2>3. CASE Callback(u, r) \/ Decide(u, r) \/ BackoffOver(u, r)
    BY <1>1, <2>3 DEF Callback, Decide, BackoffOver, Goto, Untouched, ghost
  <2>4. CASE BackoffCancelled(u, r) \/ Panic(u, r) \/ Cleanup(u, r)
    BY <1>1, <2>4 DEF BackoffCancelled, SignalDone, Panic, Cleanup, CancelHandle, Goto, Untouched, ghost
  <2>5. CASE Recover(u, r) \/ Signal(u, r)
    BY <1>1, <2>5 DEF Recover, Signal, SignalDone, Goto, Untouched, ghost
  <2>q. QED
    BY <1>4, <2>1, <2>2, <2>3, <2>4, <2>5 DEF RunStep
<1>q. QED
  BY <1>2, <1>3, <1>4

LEMMA SpawnSignals ==
    ASSUME TypeOK, FreshInv, SignalInv, NEW t \in Task, Spawn(t)
    PROVE  Signals(t)'
<1>1. /\ status \in [Task -> Status]
      /\ run \in [Task -> 0 .. MaxRuns]
      /\ handle \in [Task -> 0 .. MaxRuns]
      /\ pc \in [Task -> [Run -> Place]]
      /\ 1 \in Run
      /\ \A r \in Run : ~(r < 1)
  BY SubagentAssumption DEF TypeOK, TaskType, RunType, Run
<1>2. run[t] = 0 /\ Unspawned(t)
  BY DEF Spawn, FreshInv, SignalInv, Signals
<1>3. /\ run'[t] = 1
      /\ handle'[t] = 1
      /\ pc'[t][1] \in {"impl", "deps"}
      /\ UNCHANGED <<ctx, done, stopper, halted>>
  BY <1>1 DEF Spawn, Goto
<1>4. Here(t)' \in {"impl", "deps"}
  BY <1>3 DEF Here
<1>q. QED
  BY <1>1, <1>2, <1>3, <1>4 DEF Signals, Unspawned, OwnRun

\* A task continued while it is still leaves nothing of its last run behind.
LEMMA ContinueSignals ==
    ASSUME TypeOK, SignalInv, NEW t \in Task, Continue(t)
    PROVE  Signals(t)'
<1> DEFINE n == run[t]
<1>1. /\ run \in [Task -> 0 .. MaxRuns]
      /\ handle \in [Task -> 0 .. MaxRuns]
      /\ pc \in [Task -> [Run -> Place]]
      /\ n \in Nat
      /\ Run \subseteq Nat
  BY SubagentAssumption DEF TypeOK, TaskType, RunType, Run
<1>2. n # 0
  BY DEF Continue, SignalInv, Signals, Unspawned
<1>3. n \in Run /\ n + 1 \in Run
  BY <1>1, <1>2, SubagentAssumption DEF Continue, NextRun, Run
<1>4. /\ run'[t] = n + 1
      /\ handle'[t] = n + 1
      /\ pc'[t][n + 1] = "impl"
      /\ \A r \in Run : r # n + 1 => pc'[t][r] = pc[t][r]
      /\ UNCHANGED <<ctx, done, stopper, halted>>
  BY <1>1, <1>3 DEF Continue, NextRun, Goto
<1>5. SUFFICES ASSUME t \notin crossed'
               PROVE  OwnRun(t)'
  BY <1>1, <1>4 DEF Signals
<1>6. Still(t) /\ OwnRun(t)
  BY <1>2, <1>5 DEF Continue, NextRun, SignalInv, Signals
<1>7. Here(t) = pc[t][n]
  BY <1>2 DEF Here
<1>8. \A r \in Run : r < n => pc[t][r] = "exited"
  BY <1>6 DEF OwnRun
<1>9. pc[t][n] = "exited"
  BY <1>3, <1>6, <1>7 DEF Still, OwnRun
<1>10. \A r \in ctx[t] \cup done[t] : r <= n /\ r \in Nat
  BY <1>6, SubagentAssumption DEF OwnRun, TypeOK, RunType, Run
<1>11. stopper[t].run <= n /\ stopper[t].run \in Nat
  BY <1>6, SubagentAssumption DEF OwnRun, TypeOK, StopType, StopRequest
<1>12. Here(t)' = "impl"
  BY <1>1, <1>4 DEF Here
<1> HIDE DEF n
<1>13. \A r \in Run : r < run'[t] => pc'[t][r] = "exited"
  BY <1>1, <1>4, <1>8, <1>9
<1>14. /\ \A r \in ctx'[t] \cup done'[t] : r <= run'[t] /\ r # run'[t]
       /\ stopper'[t].run <= run'[t]
  BY <1>1, <1>4, <1>10, <1>11
<1>15. 0 \notin done[t] /\ (stopper[t].run # 0 => <<t, stopper[t].run>> \in halted)
  BY <1>6 DEF OwnRun
<1>q. QED
  BY <1>4, <1>12, <1>13, <1>14, <1>15 DEF OwnRun

\* A stop request notes the tasks it acts on before their contexts end.
LEMMA StopSignals ==
    ASSUME TypeOK, SignalInv, NEW S \in SUBSET Task, NEW canStop \in SUBSET Task,
           NEW seal \in BOOLEAN, StopUnderLock(S, canStop, seal), canStop \subseteq S,
           NEW t \in Task, t \in S => ~Unspawned(t)
    PROVE  Signals(t)'
<1>1. /\ run[t] \in Nat
      /\ UNCHANGED <<run, retries, transient, ctx, pc, crossed>>
      /\ halted \subseteq halted'
  BY SubagentAssumption DEF TypeOK, TaskType, StopUnderLock, ghost
<1>2. CASE t \notin S
  <2>1. Untouched(t)
    BY <1>1, <1>2 DEF StopUnderLock, Untouched
  <2>q. QED
    BY <1>1, <2>1, SignalFrame DEF SignalInv
<1>3. CASE t \in S
  <2>1. run[t] # 0
    BY <1>3 DEF SignalInv, Signals
  <2>2. SUFFICES ASSUME t \notin crossed
                 PROVE  OwnRun(t)'
    BY <1>1, <2>1 DEF Signals
  <2>3. OwnRun(t)
    BY <2>1, <2>2 DEF SignalInv, Signals
  <2>4. /\ handle'[t] = 0
        /\ stopper'[t].run = handle[t]
        /\ handle[t] \in {0, run[t]}
        /\ handle[t] # 0 => <<t, run[t]>> \in halted'
    BY <1>3, <2>3 DEF StopUnderLock, OwnRun
  <2>5. \/ status'[t] = status[t] /\ done'[t] = done[t]
        \/ status'[t] = "cancelled" /\ done'[t] = done[t] \cup {run[t]} /\ <<t, run[t]>> \in halted'
    BY DEF StopUnderLock
  <2>6. Again(t)' => Again(t)
    BY <1>1, <2>5 DEF Again, RetryPending
  <2>7. Here(t)' = Here(t)
    BY <1>1 DEF Here
  <2>8. Looking(t)' => Looking(t)
    BY <2>6, <2>7 DEF Looking
  <2>9. \A r \in ctx'[t] \cup done'[t] : r <= run[t]
    BY <1>1, <2>3, <2>5 DEF OwnRun
  <2>q. QED
    BY <1>1, <2>1, <2>3, <2>4, <2>5, <2>6, <2>7, <2>8, <2>9 DEF OwnRun
<1>q. QED
  BY <1>2, <1>3

LEMMA StopTaskSignals ==
    ASSUME TypeOK, SignalInv, NEW u \in Task, NEW seal \in BOOLEAN, StopTask(u, seal),
           NEW t \in Task
    PROVE  Signals(t)'
<1> DEFINE stoppable == {u} \cap {v \in Task : status[v] \in {"running", "needs_context", "pending"}}
<1>1. StopUnderLock({u}, stoppable, seal) /\ stoppable \subseteq {u}
  BY DEF StopTask
<1>2. t \in {u} => ~Unspawned(t)
  BY DEF StopTask, Unspawned
<1>q. QED
  BY <1>1, <1>2, StopSignals

LEMMA StopAllSignals ==
    ASSUME TypeOK, SignalInv, StopAll, NEW t \in Task
    PROVE  Signals(t)'
<1> DEFINE S == {u \in Task : handle[u] # 0 \/ status[u] \in {"needs_context", "pending"}}
<1>1. StopUnderLock(S, S, FALSE) /\ S \in SUBSET Task
  BY DEF StopAll
<1>2. t \in S => ~Unspawned(t)
  BY DEF Unspawned
<1> HIDE DEF S
<1>q. QED
  BY <1>1, <1>2, StopSignals

\* The rest of a stop, and the cancel of a session.
LEMMA CancelSignals ==
    ASSUME TypeOK, SignalInv, NEW t \in Task, StopCancel(t) \/ StopSeal(t) \/ CancelSession(t)
    PROVE  Signals(t)'
<1>1. /\ ctx \in [Task -> SUBSET Run]
      /\ handle \in [Task -> 0 .. MaxRuns]
      /\ stopper \in [Task -> StopRequest]
      /\ run[t] \in Nat
  BY SubagentAssumption DEF TypeOK, TaskType, RunType, StopType
<1>2. /\ UNCHANGED <<status, result, run, retries, transient, handle, done, pc, crossed>>
      /\ halted \subseteq halted'
  BY DEF StopCancel, StopSeal, CancelSession, core, ghost
<1>3. /\ stopper'[t].run = stopper[t].run
      /\ stopper[t].at = "idle" => stopper'[t].at = "idle"
      /\ stopper[t].at = "idle" \/ stopper'[t].at # "idle"
  BY <1>1 DEF StopCancel, StopSeal, CancelSession, StopRequest
<1>4. \/ ctx'[t] = ctx[t]
      \/ /\ ctx'[t] = ctx[t] \cup ({stopper[t].run} \ {0})
         /\ stopper[t].at = "cancel"
      \/ /\ ctx'[t] = ctx[t] \cup {handle[t]}
         /\ handle[t] # 0
         /\ <<t, handle[t]>> \in halted'
  BY <1>1 DEF StopCancel, StopSeal, CancelSession, core
<1>5. CASE run[t] = 0
  BY <1>2, <1>3, <1>4, <1>5 DEF SignalInv, Signals, Unspawned
<1>6. CASE run[t] # 0 /\ t \notin crossed
  <2>1. OwnRun(t)
    BY <1>6 DEF SignalInv, Signals
  <2>2. Here(t)' = Here(t) /\ Again(t)' = Again(t)
    BY <1>2 DEF Here, Again, RetryPending
  <2>3. Looking(t)' = Looking(t)
    BY <2>2 DEF Looking
  <2>4. OwnRun(t)'
    BY <1>1, <1>2, <1>3, <1>4, <1>6, <2>1, <2>2, <2>3 DEF OwnRun
  <2>q. QED
    BY <1>2, <1>6, <2>4 DEF Signals
<1>7. CASE run[t] # 0 /\ t \in crossed
  BY <1>1, <1>2, <1>7 DEF Signals
<1>q. QED
  BY <1>5, <1>6, <1>7

\* The goroutine of the current run goes from one place to another.
LEMMA GotoHere ==
    ASSUME TypeOK, NEW t \in Task, run[t] # 0, run[t] \in Run, run' = run,
           NEW place, Goto(t, run[t], place)
    PROVE  /\ Here(t) = pc[t][run[t]]
           /\ Here(t)' = place
           /\ \A q \in Run : q # run[t] => pc'[t][q] = pc[t][q]
BY DEF TypeOK, RunType, Goto, Here

\* The goroutines of the other runs of a task are over.
LEMMA OthersOver ==
    ASSUME NEW t \in Task, OwnRun(t), run' = run, Run \subseteq Nat, run[t] \in Nat,
           \A q \in Run : q # run[t] => pc'[t][q] = pc[t][q]
    PROVE  \A q \in Run : q < run'[t] => pc'[t][q] = "exited"
BY DEF OwnRun

\* The steps of the current run, one place at a time.
LEMMA EarlySignals ==
    ASSUME TypeOK, NEW t \in Task, NEW r \in Run, run[t] = r, OwnRun(t),
           DepsCancelled(t, r) \/ DepsMet(t, r) \/ Begin(t, r) \/ Check(t, r)
    PROVE  OwnRun(t)'
<1>0. r \in Nat \ {0} /\ Run \subseteq Nat
  BY SubagentAssumption DEF Run
<1>1. status \in [Task -> Status]
  BY DEF TypeOK, TaskType
<1>2. UNCHANGED <<run, handle, ctx, done, stopper, halted>>
  BY DEF DepsCancelled, DepsMet, Begin, Check
<1>3. pc[t][r] \in {"deps", "met", "impl", "check"}
  BY DEF DepsCancelled, DepsMet, Begin, Check
<1>4. \E place : /\ Goto(t, r, place)
                 /\ \/ place \in {"signal", "met", "impl", "check", "loop"}
                    \/ place = "decide" /\ status'[t] = "cancelled"
  BY <1>1 DEF DepsCancelled, DepsMet, Begin, Check
<1>5. /\ Here(t) = pc[t][r]
      /\ \/ Here(t)' \in {"signal", "met", "impl", "check", "loop"}
         \/ Here(t)' = "decide" /\ status'[t] = "cancelled"
      /\ \A q \in Run : q < run'[t] => pc'[t][q] = "exited"
  BY <1>0, <1>2, <1>4, GotoHere, OthersOver
<1>6. /\ Here(t)' \notin {"none", "callback"}
      /\ Looking(t)
      /\ Here(t) # "exited"
      /\ Here(t)' = "decide" => ~Again(t)'
  BY <1>3, <1>5 DEF Looking, Again, RetryPending
<1>q. QED
  BY <1>2, <1>5, <1>6 DEF OwnRun

LEMMA FinishSignalsOwn ==
    ASSUME TypeOK, NEW t \in Task, NEW r \in Run, run[t] = r, OwnRun(t),
           NEW s \in Outcome, NEW tr \in BOOLEAN, Finish(t, r, s, tr)
    PROVE  OwnRun(t)'
<1>0. r \in Nat \ {0} /\ Run \subseteq Nat
  BY SubagentAssumption DEF Run
<1>1. /\ status \in [Task -> Status]
      /\ transient \in [Task -> BOOLEAN]
      /\ handle \in [Task -> 0 .. MaxRuns]
      /\ ctx \in [Task -> SUBSET Run]
  BY DEF TypeOK, TaskType, RunType
<1>2. UNCHANGED <<run, done, stopper, halted, retries>> /\ status'[t] = s /\ transient'[t] = tr
  BY <1>1 DEF Finish
<1>3. pc[t][r] = "loop" /\ (tr => r \notin ctx[t])
  BY DEF Finish
<1>4. CASE RetryPending(t, s, tr)
  <2>1. Goto(t, r, "decide") /\ UNCHANGED <<handle, ctx>>
    BY <1>4 DEF Finish
  <2>2. r \notin ctx[t]
    BY <1>3, <1>4 DEF RetryPending
  <2>3. /\ Here(t) = "loop"
        /\ Here(t)' = "decide"
        /\ \A q \in Run : q < run'[t] => pc'[t][q] = "exited"
    BY <1>0, <1>2, <1>3, <2>1, GotoHere, OthersOver
  <2>q. QED
    BY <1>2, <2>1, <2>2, <2>3 DEF OwnRun
<1>5. CASE ~RetryPending(t, s, tr)
  <2>1. /\ Goto(t, r, "callback")
        /\ handle'[t] = 0
        /\ ctx'[t] = ctx[t] \cup ({handle[t]} \ {0})
    BY <1>1, <1>5 DEF Finish, CancelHandle
  <2>2. /\ Here(t) = "loop"
        /\ Here(t)' = "callback"
        /\ \A q \in Run : q < run'[t] => pc'[t][q] = "exited"
    BY <1>0, <1>2, <1>3, <2>1, GotoHere, OthersOver
  <2>3. ~Again(t)' /\ ~Looking(t)'
    BY <1>2, <1>5, <2>2 DEF Again, Looking, RetryPending
  <2>4. \A q \in ctx'[t] \cup done'[t] : q <= r
    BY <1>0, <1>2, <2>1 DEF OwnRun
  <2>q. QED
    BY <1>2, <2>1, <2>2, <2>3, <2>4 DEF OwnRun
<1>q. QED
  BY <1>4, <1>5

LEMMA LateSignals ==
    ASSUME TypeOK, NEW t \in Task, NEW r \in Run, run[t] = r, OwnRun(t),
           Callback(t, r) \/ Decide(t, r) \/ BackoffOver(t, r) \/ Panic(t, r) \/ Recover(t, r)
    PROVE  OwnRun(t)'
<1>0. r \in Nat \ {0} /\ Run \subseteq Nat
  BY SubagentAssumption DEF Run
<1>1. UNCHANGED <<run, handle, ctx, done, stopper, halted>>
  BY DEF Callback, Decide, BackoffOver, Panic, Recover
<1>2. pc[t][r] \in {"callback", "decide", "backoff", "loop", "recover"}
  BY DEF Callback, Decide, BackoffOver, Panic, Recover
<1>3. \E place : /\ Goto(t, r, place)
                 /\ Callback(t, r) => place = "decide"
                 /\ Decide(t, r) => place \in {"cleanup", "backoff"} /\ (place = "backoff" => Again(t))
                 /\ BackoffOver(t, r) => place = "impl"
                 /\ Panic(t, r) => place = "unwind"
                 /\ Recover(t, r) => place = "signal"
  BY DEF Callback, Decide, BackoffOver, Panic, Recover, Again
<1>4. /\ Here(t) = pc[t][r]
      /\ Callback(t, r) => Here(t)' = "decide"
      /\ Decide(t, r) => Here(t)' \in {"cleanup", "backoff"} /\ (Here(t)' = "backoff" => Again(t))
      /\ BackoffOver(t, r) => Here(t)' = "impl"
      /\ Panic(t, r) => Here(t)' = "unwind"
      /\ Recover(t, r) => Here(t)' = "signal"
      /\ \A q \in Run : q < run'[t] => pc'[t][q] = "exited"
  BY <1>0, <1>1, <1>3, GotoHere, OthersOver
<1>5. Here(t)' \notin {"none", "callback"} /\ Here(t) # "exited"
  BY <1>2, <1>4
<1>6. Looking(t)' => Looking(t)
  <2>1. CASE Callback(t, r)
    <3>1. ~Again(t)
      BY <1>4, <2>1 DEF Callback, OwnRun
    <3>2. Here(t)' = "decide" /\ (Again(t)' => Again(t))
      BY <1>4, <2>1 DEF Callback, Again, RetryPending
    <3>q. QED
      BY <3>1, <3>2 DEF Looking
  <2>2. CASE Decide(t, r)
    BY <1>4, <2>2 DEF Decide, Looking
  <2>3. CASE BackoffOver(t, r)
    BY <1>4, <2>3 DEF BackoffOver, Looking
  <2>4. CASE Panic(t, r) \/ Recover(t, r)
    BY <1>4, <2>4 DEF Looking
  <2>q. QED
    BY <2>1, <2>2, <2>3, <2>4
<1>q. QED
  BY <1>1, <1>4, <1>5, <1>6 DEF OwnRun

LEMMA EndSignals ==
    ASSUME TypeOK, NEW t \in Task, NEW r \in Run, run[t] = r, OwnRun(t),
           BackoffCancelled(t, r) \/ Cleanup(t, r) \/ Signal(t, r)
    PROVE  OwnRun(t)'
<1>0. r \in Nat \ {0} /\ Run \subseteq Nat
  BY SubagentAssumption DEF Run
<1>1. /\ handle \in [Task -> 0 .. MaxRuns]
      /\ ctx \in [Task -> SUBSET Run]
      /\ done \in [Task -> SUBSET (0 .. MaxRuns)]
  BY DEF TypeOK, RunType
<1>2. UNCHANGED <<run, stopper, halted>>
  BY DEF BackoffCancelled, Cleanup, Signal
<1>3. \E place \in {"cleanup", "recover", "signal", "exited"} :
        Goto(t, r, place) /\ (Signal(t, r) => place = "exited")
  BY DEF BackoffCancelled, Cleanup, Signal
<1>4. /\ Here(t) = pc[t][r]
      /\ Here(t)' \in {"cleanup", "recover", "signal", "exited"}
      /\ Signal(t, r) => Here(t)' = "exited"
      /\ \A q \in Run : q < run'[t] => pc'[t][q] = "exited"
  BY <1>0, <1>2, <1>3, GotoHere, OthersOver
<1>5. Here(t) # "exited"
  BY <1>4 DEF BackoffCancelled, Cleanup, Signal
<1>6. /\ handle'[t] \in {0, handle[t]}
      /\ ctx'[t] \subseteq ctx[t] \cup ({handle[t]} \ {0})
  BY <1>1 DEF BackoffCancelled, Cleanup, Signal, CancelHandle
<1>7. done'[t] \subseteq done[t] \cup {r}
  BY <1>1 DEF BackoffCancelled, Cleanup, Signal, SignalDone
<1>8. r \in done'[t] => Here(t)' = "exited" \/ <<t, r>> \in halted
  <2>1. CASE BackoffCancelled(t, r)
    BY <1>4, <2>1 DEF BackoffCancelled, OwnRun, Looking
  <2>2. CASE Cleanup(t, r)
    BY <1>5, <2>2 DEF Cleanup, OwnRun
  <2>3. CASE Signal(t, r)
    BY <1>4, <2>3
  <2>q. QED
    BY <2>1, <2>2, <2>3
<1>9. ~Looking(t)' /\ Here(t)' \notin {"none", "callback"}
  BY <1>4 DEF Looking
<1>10. handle[t] \in {0, r} /\ \A q \in ctx[t] \cup done[t] : q <= r
  BY DEF OwnRun
<1>11. (\A q \in ctx'[t] \cup done'[t] : q <= r) /\ 0 \notin done'[t]
  BY <1>0, <1>6, <1>7, <1>10 DEF OwnRun
<1>q. QED
  BY <1>2, <1>4, <1>6, <1>8, <1>9, <1>10, <1>11 DEF OwnRun

\* Only the goroutine of the current run moves.
LEMMA OnlyCurrentMoves ==
    ASSUME TypeOK, FreshInv, NEW t \in Task, NEW r \in Run, RunStep(t, r)
    PROVE  /\ UNCHANGED <<run, crossed>>
           /\ run[t] # 0
           /\ OwnRun(t) => r = run[t]
<1>1. run[t] \in Nat /\ r \in Nat \ {0}
  BY SubagentAssumption DEF TypeOK, TaskType, Run
<1>2. UNCHANGED <<run, crossed>>
  BY DEF RunStep, DepsCancelled, DepsMet, Begin, Check, Finish, Callback, Decide, BackoffOver,
         BackoffCancelled, Panic, Cleanup, Recover, Signal, ghost
<1>3. pc[t][r] \notin {"none", "exited"}
  BY DEF RunStep, DepsCancelled, DepsMet, Begin, Check, Finish, Callback, Decide, BackoffOver,
         BackoffCancelled, Panic, Cleanup, Recover, Signal
<1>4. r <= run[t]
  BY <1>3 DEF FreshInv
<1>5. OwnRun(t) => ~(r < run[t])
  BY <1>3 DEF OwnRun
<1>q. QED
  BY <1>1, <1>2, <1>4, <1>5

LEMMA GoroutineSignals ==
    ASSUME TypeOK, FreshInv, SignalInv, NEW t \in Task, NEW r \in Run, RunStep(t, r)
    PROVE  Signals(t)'
<1>1. UNCHANGED <<run, crossed>> /\ run[t] # 0
  BY OnlyCurrentMoves
<1>2. SUFFICES ASSUME t \notin crossed PROVE OwnRun(t)'
  BY <1>1 DEF Signals
<1>3. OwnRun(t)
  BY <1>1, <1>2 DEF SignalInv, Signals
<1>4. run[t] = r
  BY <1>3, OnlyCurrentMoves
<1>5. CASE \E s \in Outcome, tr \in BOOLEAN : Finish(t, r, s, tr)
  BY <1>3, <1>4, <1>5, FinishSignalsOwn
<1>q. QED
  BY <1>3, <1>4, <1>5, EarlySignals, LateSignals, EndSignals DEF RunStep

LEMMA SignalStep ==
    ASSUME TypeOK, FreshInv, SignalInv, [Next]_vars
    PROVE  SignalInv'
<1> SUFFICES ASSUME NEW t \in Task
             PROVE  Signals(t)'
  BY DEF SignalInv
<1>0. Signals(t)
  BY DEF SignalInv
<1>1. ASSUME NEW u \in Task,
             \/ Spawn(u)
             \/ Continue(u)
             \/ StopCancel(u)
             \/ StopSeal(u)
             \/ CancelSession(u)
             \/ \E r \in Run : RunStep(u, r)
      PROVE  Signals(t)'
  <2>1. CASE u = t
    BY <1>1, <2>1, SpawnSignals, ContinueSignals, CancelSignals, GoroutineSignals
  <2>2. CASE u # t
    BY <1>0, <1>1, <2>2, OthersUntouched, SignalFrame
  <2>q. QED
    BY <2>1, <2>2
<1>2. ASSUME NEW w \in Wait, WaitLook(w) \/ WaitTimeout(w) \/ WaitStep(w)
      PROVE  Signals(t)'
  <2>1. UNCHANGED <<core, stopper, halted, crossed>>
    BY <1>2 DEF WaitLook, WaitTimeout, WaitStep, WaitRegister, WaitWake, WaitFetch, WaitClaim,
                WaitRelease, ghost
  <2>2. Untouched(t)
    BY <2>1 DEF core, Untouched
  <2>q. QED
    BY <1>0, <2>1, <2>2, SignalFrame
<1>3. CASE UNCHANGED vars
  <2>1. Untouched(t) /\ halted \subseteq halted' /\ crossed \subseteq crossed'
    BY <1>3 DEF vars, core, ghost, Untouched
  <2>q. QED
    BY <1>0, <2>1, SignalFrame
<1>q. QED
  BY <1>1, <1>2, <1>3, StopTaskSignals, StopAllSignals DEF Next

LEMMA SignalsHold == Spec => []SignalInv
<1>1. Init => SignalInv
  BY SignalInit
<1>2. TypeOK /\ FreshInv /\ SignalInv /\ [Next]_vars => SignalInv'
  BY SignalStep
<1>q. QED
  BY <1>1, <1>2, TypeCorrect, ReadIsClaimed, PTL DEF Spec

LEMMA OwnSignals ==
    ASSUME TypeOK, SignalInv, NEW t \in Task, t \notin crossed, NEW r
    PROVE  /\ r \in done[t] => pc[t][r] = "exited" \/ <<t, r>> \in halted
           /\ r \in ctx[t] =>
                (pc[t][r] \in {"deps", "met", "impl", "check", "loop", "backoff"}
                   => <<t, r>> \in halted)
<1>1. /\ run[t] \in Nat
      /\ r \in ctx[t] => r \in Run
      /\ r \in done[t] => r \in 0 .. MaxRuns
  BY SubagentAssumption DEF TypeOK, TaskType, RunType
<1>2. CASE run[t] = 0
  BY <1>2 DEF SignalInv, Signals, Unspawned
<1>3. CASE run[t] # 0
  <2>1. OwnRun(t) /\ Here(t) = pc[t][run[t]]
    BY <1>3 DEF SignalInv, Signals, Here
  <2>2. r \in ctx[t] \cup done[t] => r \in Run /\ (r < run[t] \/ r = run[t])
    BY <1>1, <2>1, SubagentAssumption DEF OwnRun, Run
  <2>3. (r \in ctx[t] \cup done[t] /\ r < run[t]) => pc[t][r] = "exited"
    BY <2>1, <2>2 DEF OwnRun
  <2>4. r = run[t] => /\ r \in done[t] => pc[t][r] = "exited" \/ <<t, r>> \in halted
                      /\ (r \in ctx[t] /\ Looking(t)) => <<t, r>> \in halted
                      /\ pc[t][r] \in {"deps", "met", "impl", "check", "loop", "backoff"} => Looking(t)
    BY <2>1 DEF OwnRun, Looking
  <2>q. QED
    BY <2>2, <2>3, <2>4
<1>q. QED
  BY <1>2, <1>3

LEMMA SignalsFresh == ASSUME TypeOK, SignalInv PROVE FreshSignal
<1>1. ASSUME NEW t \in Task, t \notin crossed, NEW r, r \in done[t]
      PROVE  pc[t][r] = "exited" \/ <<t, r>> \in halted
  BY <1>1, OwnSignals
<1>q. QED
  BY <1>1, Zenon DEF FreshSignal

(* A done channel is closed by the end of the run it belongs to, or by a stop, *)
(* for any tasks, waits and number of runs. The tasks left out are the ones    *)
(* that were continued while a goroutine or a wait of an earlier run was still *)
(* moving, for which the promise of ContinueTask does not hold.                *)
THEOREM SignalsAreFresh == Spec => []FreshSignal
<1>1. TypeOK /\ SignalInv => FreshSignal
  BY SignalsFresh
<1>q. QED
  BY <1>1, SignalsHold, TypeCorrect, PTL

(* The context of a run ends before the run does only by a stop or by a cancel *)
(* of its session, for the same tasks: the shared entry of sm.cancels is the   *)
(* current run's whenever it is called.                                        *)
THEOREM ContextsAreOwn == Spec => []OnlyStopCancels
<1>1. TypeOK /\ SignalInv => OnlyStopCancels
  BY OwnSignals DEF OnlyStopCancels
<1>q. QED
  BY <1>1, SignalsHold, TypeCorrect, PTL
-----------------------------------------------------------------------------
(* The outcome of a run *)

\* The waits that count in task.resultWaiters, and those that hold an answer.
Registered(t) ==
  {w \in Wait : target[w] = t /\ call[w] \in {"blocked", "fetch", "claim", "answer", "timeout"}}

Answering(t) == {w \in Wait : target[w] = t /\ call[w] = "answer"}

\* Where the current run is not past the end of its tool loop, and where it is.
Early == {"none", "deps", "met", "impl", "check", "loop"}
Late  == {"callback", "decide", "cleanup", "signal", "exited"}

\* Neither retried nor continued while something of an earlier run moved, and no
\* stop or cancel has acted on the current run.
Undisturbed(t) ==
  /\ t \notin crossed
  /\ retries[t] = 0
  /\ <<t, run[t]>> \notin halted
  /\ ~stopper[t].seal

\* Nothing to claim yet, and nobody who would claim it.
Before(t) ==
  /\ status[t] \in {"absent", "pending", "running"}
  /\ ~claimed[t]
  /\ \A w \in Wait : target[w] = t =>
       /\ call[w] \notin {"fetch", "claim", "answer"}
       /\ call[w] = "looked" => ~Settled(seen[w].status)

\* No wait looks at a task that is not there.
Untold(t) ==
  /\ ~claimed[t]
  /\ waiters[t] = 0
  /\ \A w \in Wait : target[w] = t => call[w] = "idle"

\* The outcome is with the parent, or with who will give it: the wait that has
\* claimed it, the callback, or a wait that will find it unclaimed; or the bus
\* did not take it.
Owed(t) ==
  \/ Given(t, run[t])
  \/ <<t, run[t]>> \in refused
  \/ claimed[t] /\ Answering(t) # {}
  \/ ~claimed[t] /\ (Here(t) = "callback" \/ Registered(t) # {})

\* What a wait will answer with is the outcome.
Truthful(t) ==
  \A w \in Wait : target[w] = t =>
    /\ call[w] \in {"claim", "answer"} => seen[w].result = FinalOf(t, run[t])
    /\ (call[w] = "looked" /\ Settled(seen[w].status)) => seen[w].result = FinalOf(t, run[t])

After(t) ==
  /\ Settled(status[t])
  /\ result[t] = FinalOf(t, run[t])
  /\ Truthful(t)
  /\ Owed(t)

\* The way of an undisturbed task, from its spawn to its end.
Course(t) ==
  /\ waiters[t] = Cardinality(Registered(t))
  /\ \A w \in Wait :
       (target[w] = t /\ call[w] \in {"looked", "blocked"}) => seen[w].run = run[t]
  /\ Here(t) # "backoff"
  /\ Here(t) \in Early => Before(t)
  /\ (Here(t) \in Late /\ result[t].kind = "final") => After(t)

SealInv ==
  \A t \in Task : /\ stopper[t].at = "idle" => ~stopper[t].seal
                  /\ stopper[t].at = "seal" => stopper[t].seal

LossInv ==
  \A t \in Task : /\ run[t] = 0 => Untold(t)
                  /\ (run[t] # 0 /\ Undisturbed(t)) => Course(t)

LEMMA RegisteredIsFinite ==
    ASSUME NEW t \in Task
    PROVE  /\ IsFiniteSet(Registered(t))
           /\ Cardinality(Registered(t)) \in Nat
           /\ Cardinality(Registered(t)) = 0 <=> Registered(t) = {}
<1>1. Registered(t) \subseteq Wait /\ IsFiniteSet(Wait)
  BY SubagentAssumption DEF Registered
<1>2. IsFiniteSet(Registered(t))
  BY <1>1, FS_Subset
<1>q. QED
  BY <1>2, FS_CardinalityType, FS_EmptySet

LEMMA LossInit == ASSUME Init PROVE SealInv /\ LossInv
BY DEF Init, SealInv, LossInv, Untold

LEMMA SealStep ==
    ASSUME TypeOK, SealInv, [Next]_vars
    PROVE  SealInv'
<1>1. stopper \in [Task -> StopRequest]
  BY DEF TypeOK, StopType
<1>2. ASSUME NEW S \in SUBSET Task, NEW canStop, NEW seal, StopUnderLock(S, canStop, seal)
      PROVE  SealInv'
  BY <1>1, <1>2 DEF StopUnderLock, SealInv
<1>3. ASSUME NEW t \in Task, NEW seal \in BOOLEAN, StopTask(t, seal)
      PROVE  SealInv'
  BY <1>2, <1>3 DEF StopTask
<1>4. CASE StopAll
  <2> DEFINE S == {t \in Task : handle[t] # 0 \/ status[t] \in {"needs_context", "pending"}}
  <2>1. StopUnderLock(S, S, FALSE) /\ S \in SUBSET Task
    BY <1>4 DEF StopAll
  <2>q. QED
    BY <1>2, <2>1
<1>5. ASSUME NEW t \in Task, StopCancel(t)
      PROVE  SealInv'
  BY <1>1, <1>5 DEF StopCancel, SealInv, StopRequest
<1>6. ASSUME NEW t \in Task, StopSeal(t)
      PROVE  SealInv'
  BY <1>1, <1>6 DEF StopSeal, SealInv, StopRequest
<1>7. CASE UNCHANGED stopper
  BY <1>7 DEF SealInv
<1>q. QED
  BY <1>3, <1>4, <1>5, <1>6, <1>7
  DEF Next, Spawn, Continue, NextRun, ResetDelivery, CancelSession, RunStep, DepsCancelled, DepsMet, Begin, Check, Finish,
      Callback, Decide, BackoffOver, BackoffCancelled, Panic, Cleanup, Recover, Signal, WaitLook,
      WaitTimeout, WaitStep, WaitRegister, WaitWake, WaitFetch, WaitClaim, WaitRelease, vars

\* What the course of a task is made of, the waits for it included.
Alike(t) ==
  /\ status'[t] = status[t]
  /\ run'[t] = run[t]
  /\ result'[t] = result[t]
  /\ pc'[t] = pc[t]
  /\ claimed'[t] = claimed[t]
  /\ waiters'[t] = waiters[t]

WaitsAlike(t) ==
  /\ target' = target
  /\ \A w \in Wait : target[w] = t => call'[w] = call[w] /\ seen'[w] = seen[w]

Grows ==
  /\ injected \subseteq injected'
  /\ read \subseteq read'
  /\ refused \subseteq refused'

LEMMA WaitsAlikeSets ==
    ASSUME NEW t \in Task, WaitsAlike(t), run'[t] = run[t]
    PROVE  /\ Registered(t)' = Registered(t)
           /\ Answering(t)' = Answering(t)
           /\ Truthful(t) => Truthful(t)'
BY DEF WaitsAlike, Registered, Answering, Truthful, FinalOf

LEMMA CourseFrame ==
    ASSUME NEW t \in Task, Course(t), Alike(t), WaitsAlike(t), Grows
    PROVE  Course(t)'
<1>1. /\ Registered(t)' = Registered(t)
      /\ Answering(t)' = Answering(t)
      /\ Truthful(t) => Truthful(t)'
      /\ Here(t)' = Here(t)
  BY WaitsAlikeSets DEF Alike, Here
<1>2. Before(t) => Before(t)'
  BY DEF Before, Alike, WaitsAlike
<1>3. After(t) => After(t)'
  BY <1>1 DEF After, Owed, Given, Alike, Grows, FinalOf
<1>q. QED
  BY <1>1, <1>2, <1>3 DEF Course, Alike, WaitsAlike

\* The task goes on towards the end of its tool loop.
LEMMA CourseEarly ==
    ASSUME NEW t \in Task, Course(t), WaitsAlike(t),
           Here(t) \in Early, Here(t)' \in Early,
           status'[t] \in {"absent", "pending", "running"},
           run'[t] = run[t], claimed'[t] = claimed[t], waiters'[t] = waiters[t]
    PROVE  Course(t)'
<1>1. Registered(t)' = Registered(t)
  BY WaitsAlikeSets
<1>2. Before(t)'
  BY DEF Course, Before, WaitsAlike
<1>q. QED
  BY <1>1, <1>2 DEF Course, Early, Late, WaitsAlike

\* The outcome stays where it is while the goroutine leaves.
LEMMA CourseLate ==
    ASSUME NEW t \in Task, Course(t), WaitsAlike(t), Grows,
           Here(t) \in Late \ {"callback"}, Here(t)' \in Late \ {"callback"},
           status'[t] = status[t], run'[t] = run[t], result'[t] = result[t],
           claimed'[t] = claimed[t], waiters'[t] = waiters[t]
    PROVE  Course(t)'
<1>1. /\ Registered(t)' = Registered(t)
      /\ Answering(t)' = Answering(t)
      /\ Truthful(t) => Truthful(t)'
  BY WaitsAlikeSets
<1>2. After(t) => After(t)'
  BY <1>1 DEF After, Owed, Given, Grows, FinalOf
<1>q. QED
  BY <1>1, <1>2 DEF Course, Early, Late, WaitsAlike

\* No outcome: the task fell out of its tool loop, or is to be retried.
LEMMA CourseNone ==
    ASSUME NEW t \in Task, Course(t), WaitsAlike(t),
           \/ Here(t)' \in {"unwind", "recover"}
           \/ Here(t)' \in Late /\ result'[t].kind # "final",
           run'[t] = run[t], waiters'[t] = waiters[t]
    PROVE  Course(t)'
BY WaitsAlikeSets DEF Course, Early, Late, WaitsAlike

LEMMA CourseFinish ==
    ASSUME TypeOK, NEW t \in Task, NEW r \in Run, run[t] = r, Here(t) = pc[t][r], Course(t),
           NEW place, Here(t)' = place, Goto(t, r, place),
           NEW s \in Outcome, NEW tr \in BOOLEAN, Finish(t, r, s, tr)
    PROVE  Course(t)'
<1>1. /\ status \in [Task -> Status]
      /\ result \in [Task -> Result]
      /\ pc \in [Task -> [Run -> Place]]
  BY DEF TypeOK, TaskType, RunType
<1>2. /\ Here(t) = "loop"
      /\ status'[t] = s
      /\ UNCHANGED <<run, deliv, waits, ghost>>
  BY <1>1 DEF Finish
<1>3. /\ WaitsAlike(t)
      /\ waiters'[t] = waiters[t]
      /\ claimed'[t] = claimed[t]
      /\ run'[t] = run[t]
  BY <1>2 DEF WaitsAlike, deliv, waits
<1>4. Before(t)
  BY <1>2 DEF Course, Early
<1>5. CASE RetryPending(t, s, tr)
  <2>1. Here(t)' = "decide" /\ result'[t].kind = "interim"
    BY <1>1, <1>5 DEF Finish, Goto
  <2>q. QED
    BY <1>3, <2>1, CourseNone DEF Late
<1>6. CASE ~RetryPending(t, s, tr)
  <2>1. Here(t)' = "callback" /\ result'[t] = FinalOf(t, run[t])
    BY <1>1, <1>6 DEF Finish, Goto, FinalOf
  <2>2. Settled(status'[t])
    BY <1>2 DEF Settled, IsTerminal, Outcome
  <2>3. Truthful(t)'
    BY <1>3, <1>4 DEF Before, Truthful, WaitsAlike
  <2>4. After(t)'
    BY <1>3, <1>4, <2>1, <2>2, <2>3 DEF Before, After, Owed, FinalOf
  <2>5. waiters'[t] = Cardinality(Registered(t)')
    BY <1>3, WaitsAlikeSets DEF Course
  <2>q. QED
    BY <1>3, <2>1, <2>4, <2>5 DEF Course, Early, Late, WaitsAlike
<1>q. QED
  BY <1>5, <1>6

LEMMA CourseCallback ==
    ASSUME TypeOK, NEW t \in Task, NEW r \in Run, run[t] = r, Here(t) = pc[t][r], Course(t),
           Here(t)' = "decide", Callback(t, r)
    PROVE  Course(t)'
<1>1. /\ claimed \in [Task -> BOOLEAN]
      /\ waiters \in [Task -> Nat]
  BY DEF TypeOK, WaitType
<1>2. /\ Here(t) = "callback"
      /\ UNCHANGED <<status, run, result, waiters, waits>>
      /\ Grows
  BY <1>1 DEF Callback, PublishInbound, Grows
<1>3. WaitsAlike(t)
  BY <1>2 DEF WaitsAlike, waits
<1>4. /\ Registered(t)' = Registered(t)
      /\ Answering(t)' = Answering(t)
      /\ Truthful(t) => Truthful(t)'
  BY <1>2, <1>3, WaitsAlikeSets
<1>5. ASSUME After(t)
      PROVE  Owed(t)'
  <2>1. CASE claimed[t]
    <3>1. claimed'[t] = claimed[t]
      BY <2>1 DEF Callback
    <3>q. QED
      BY <1>1, <1>2, <1>4, <1>5, <2>1, <3>1 DEF After, Owed, Given, Grows, FinalOf
  <2>2. CASE ~claimed[t] /\ waiters[t] > 0
    <3>1. Registered(t) # {}
      BY <1>1, <2>2, RegisteredIsFinite DEF Course
    <3>2. ~claimed'[t]
      BY <2>2 DEF Callback
    <3>q. QED
      BY <1>4, <3>1, <3>2 DEF Owed
  <2>3. CASE ~claimed[t] /\ ~(waiters[t] > 0)
    <3>1. <<t, r>> \in injected' \/ <<t, r>> \in refused'
      BY <2>3 DEF Callback, PublishInbound
    <3>q. QED
      BY <1>2, <3>1 DEF Owed, Given
  <2>q. QED
    BY <2>1, <2>2, <2>3
<1>6. After(t) => After(t)'
  BY <1>2, <1>4, <1>5 DEF After, FinalOf
<1>q. QED
  BY <1>2, <1>3, <1>4, <1>6 DEF Course, Early, Late, WaitsAlike

LEMMA GoroutineCourse ==
    ASSUME TypeOK, FreshInv, SignalInv, NEW t \in Task, NEW r \in Run, RunStep(t, r),
           Undisturbed(t), Undisturbed(t)', Course(t)
    PROVE  Course(t)'
<1>1. /\ status \in [Task -> Status]
      /\ result \in [Task -> Result]
  BY DEF TypeOK, TaskType
<1>2. UNCHANGED <<run, crossed>> /\ run[t] # 0
  BY OnlyCurrentMoves
<1>3. OwnRun(t) /\ ~(run[t] \in ctx[t] /\ Looking(t))
  BY <1>2 DEF SignalInv, Signals, OwnRun, Undisturbed
<1>4. run[t] = r
  BY <1>3, OnlyCurrentMoves
<1>5. ASSUME NEW place, Goto(t, r, place)
      PROVE  Here(t) = pc[t][r] /\ Here(t)' = place
  BY <1>2, <1>4, <1>5, GotoHere
<1>6. ASSUME UNCHANGED <<deliv, waits, ghost>>
      PROVE  /\ WaitsAlike(t)
             /\ Grows
             /\ waiters'[t] = waiters[t]
             /\ claimed'[t] = claimed[t]
             /\ run'[t] = run[t]
  BY <1>2, <1>6 DEF WaitsAlike, Grows, deliv, waits, ghost
<1>7. CASE DepsCancelled(t, r) \/ BackoffCancelled(t, r)
  <2>1. Here(t) \in {"deps", "backoff"} /\ r \in ctx[t]
    BY <1>5, <1>7 DEF DepsCancelled, BackoffCancelled
  <2>q. QED
    BY <1>3, <1>4, <2>1 DEF Looking
<1>8. CASE DepsMet(t, r)
  <2>1. /\ Here(t) = "deps"
        /\ Here(t)' = "met"
        /\ UNCHANGED <<status, result, deliv, waits, ghost>>
    BY <1>5, <1>8 DEF DepsMet
  <2>2. status[t] \in {"absent", "pending", "running"}
    BY <2>1 DEF Course, Early, Before
  <2>q. QED
    BY <1>6, <2>1, <2>2, CourseEarly DEF Early
<1>9. CASE Begin(t, r)
  <2>1. /\ Here(t) \in {"met", "impl"}
        /\ Here(t)' \in {"impl", "check"}
    BY <1>5, <1>9 DEF Begin
  <2>2. /\ status'[t] = "running"
        /\ UNCHANGED <<result, deliv, waits, ghost>>
    BY <1>1, <1>9 DEF Begin
  <2>q. QED
    BY <1>6, <2>1, <2>2, CourseEarly DEF Early
<1>10. CASE Check(t, r)
  <2>1. Here(t) = "check"
    BY <1>5, <1>10 DEF Check
  <2>2. r \notin ctx[t]
    BY <1>3, <1>4, <2>1 DEF Looking
  <2>3. /\ Here(t)' = "loop"
        /\ UNCHANGED <<status, result, deliv, waits, ghost>>
    BY <1>5, <1>10, <2>2 DEF Check
  <2>4. status[t] \in {"absent", "pending", "running"}
    BY <2>1 DEF Course, Early, Before
  <2>q. QED
    BY <1>6, <2>1, <2>3, <2>4, CourseEarly DEF Early
<1>11. ASSUME NEW s \in Outcome, NEW tr \in BOOLEAN, Finish(t, r, s, tr)
       PROVE  Course(t)'
  <2>1. \E place : Goto(t, r, place)
    BY <1>11 DEF Finish
  <2>q. QED
    BY <1>4, <1>5, <1>11, <2>1, CourseFinish
<1>12. CASE Callback(t, r)
  <2>1. Here(t) = pc[t][r] /\ Here(t)' = "decide"
    BY <1>5, <1>12 DEF Callback
  <2>q. QED
    BY <1>4, <1>12, <2>1, CourseCallback
<1>13. CASE Decide(t, r)
  <2>1. retries[t] = 0 /\ retries'[t] = 0 /\ retries \in [Task -> Nat]
    BY DEF Undisturbed, TypeOK, TaskType
  <2>2. ~RetryPending(t, status[t], transient[t])
    BY <1>13, <2>1 DEF Decide
  <2>3. /\ Here(t) = "decide"
        /\ Here(t)' = "cleanup"
        /\ UNCHANGED <<status, result, deliv, waits, ghost>>
    BY <1>5, <1>13, <2>2 DEF Decide
  <2>q. QED
    BY <1>6, <2>3, CourseLate DEF Late
<1>14. CASE BackoffOver(t, r)
  BY <1>5, <1>14 DEF BackoffOver, Course
<1>15. CASE Panic(t, r)
  <2>1. Here(t)' = "unwind" /\ UNCHANGED <<deliv, waits, ghost>>
    BY <1>5, <1>15 DEF Panic
  <2>q. QED
    BY <1>6, <2>1, CourseNone
<1>16. CASE Cleanup(t, r)
  <2>1. UNCHANGED <<status, result, deliv, waits, ghost>>
    BY <1>16 DEF Cleanup
  <2>2. CASE pc[t][r] = "unwind"
    <3>1. Here(t)' = "recover"
      BY <1>5, <1>16, <2>2 DEF Cleanup
    <3>q. QED
      BY <1>6, <2>1, <3>1, CourseNone
  <2>3. CASE pc[t][r] = "cleanup"
    <3>1. Here(t) = "cleanup" /\ Here(t)' = "signal"
      BY <1>5, <1>16, <2>3 DEF Cleanup
    <3>q. QED
      BY <1>6, <2>1, <3>1, CourseLate DEF Late
  <2>q. QED
    BY <1>16, <2>2, <2>3 DEF Cleanup
<1>17. CASE Recover(t, r)
  <2>1. /\ Here(t)' = "signal"
        /\ result'[t].kind = "panic"
        /\ UNCHANGED <<deliv, waits, ghost>>
    BY <1>1, <1>5, <1>17 DEF Recover
  <2>q. QED
    BY <1>6, <2>1, CourseNone DEF Late
<1>18. CASE Signal(t, r)
  <2>1. /\ Here(t) = "signal"
        /\ Here(t)' = "exited"
        /\ UNCHANGED <<status, result, deliv, waits, ghost>>
    BY <1>5, <1>18 DEF Signal
  <2>q. QED
    BY <1>6, <2>1, CourseLate DEF Late
<1>q. QED
  BY <1>7, <1>8, <1>9, <1>10, <1>11, <1>12, <1>13, <1>14, <1>15, <1>16, <1>17, <1>18 DEF RunStep

\* A wait that waits for another task.
LEMMA WaitElsewhere ==
    ASSUME TypeOK, NEW t \in Task, NEW w \in Wait, target[w] # t, Course(t),
           WaitLook(w) \/ WaitTimeout(w) \/ WaitStep(w)
    PROVE  Course(t)'
<1>1. /\ claimed \in [Task -> BOOLEAN]
      /\ waiters \in [Task -> Nat]
      /\ call \in [Wait -> Stage]
      /\ seen \in [Wait -> Snapshot]
  BY DEF TypeOK, WaitType
<1>2. UNCHANGED <<core, target>> /\ Grows
  BY DEF WaitLook, WaitTimeout, WaitStep, WaitRegister, WaitWake, WaitFetch, WaitClaim,
         WaitRelease, Grows, ghost
<1>3. claimed'[t] = claimed[t] /\ waiters'[t] = waiters[t]
  BY <1>1 DEF WaitLook, WaitTimeout, WaitStep, WaitRegister, WaitWake, WaitFetch, WaitClaim,
              WaitRelease, deliv
<1>4. \A v \in Wait : v # w => call'[v] = call[v] /\ seen'[v] = seen[v]
  BY <1>1 DEF WaitLook, WaitTimeout, WaitStep, WaitRegister, WaitWake, WaitFetch, WaitClaim,
              WaitRelease, Enter
<1>5. Alike(t) /\ WaitsAlike(t)
  BY <1>2, <1>3, <1>4 DEF Alike, WaitsAlike, core
<1>q. QED
  BY <1>2, <1>5, CourseFrame

\* A step of one wait that keeps its registration, takes no claim and reads
\* no more than the outcome.
LEMMA WaitKeeps ==
    ASSUME NEW t \in Task, NEW w \in Wait, target[w] = t, Course(t), Grows,
           target' = target, status'[t] = status[t], result'[t] = result[t],
           pc'[t] = pc[t], run'[t] = run[t], claimed'[t] = claimed[t],
           call'[w] \in {"looked", "blocked"} => seen'[w].run = run[t],
           \A v \in Wait : v # w => call'[v] = call[v] /\ seen'[v] = seen[v],
           w \in Registered(t) => w \in Registered(t)',
           waiters'[t] = Cardinality(Registered(t)'),
           call[w] # "answer",
           Here(t) \in Early =>
             /\ call'[w] \notin {"fetch", "claim", "answer"}
             /\ call'[w] = "looked" => ~Settled(seen'[w].status),
           After(t) =>
             /\ call'[w] \in {"claim", "answer"} => seen'[w].result = FinalOf(t, run[t])
             /\ (call'[w] = "looked" /\ Settled(seen'[w].status)) => seen'[w].result = FinalOf(t, run[t])
    PROVE  Course(t)'
<1>1. /\ Registered(t) \subseteq Registered(t)'
      /\ Answering(t) \subseteq Answering(t)'
      /\ Here(t)' = Here(t)
  BY DEF Registered, Answering, Here
<1>2. Here(t) \in Early => Before(t)'
  BY DEF Course, Before
<1>3. After(t) => Truthful(t)'
  BY DEF After, Truthful, FinalOf
<1>4. After(t) => Owed(t)'
  BY <1>1 DEF After, Owed, Given, Grows, FinalOf
<1>5. After(t) => After(t)'
  BY <1>3, <1>4 DEF After, FinalOf
<1>q. QED
  BY <1>1, <1>2, <1>5 DEF Course

LEMMA WaitLookCourse ==
    ASSUME TypeOK, NEW t \in Task, NEW w \in Wait, target[w] = t, Course(t),
           WaitLook(w)
    PROVE  Course(t)'
<1>1. call \in [Wait -> Stage] /\ seen \in [Wait -> Snapshot]
  BY DEF TypeOK, WaitType
<1>2. /\ UNCHANGED <<core, deliv, target, ghost>>
      /\ call[w] = "idle"
      /\ call'[w] = "looked"
      /\ seen'[w] = Look(t)
      /\ \A v \in Wait : v # w => call'[v] = call[v] /\ seen'[v] = seen[v]
  BY <1>1 DEF WaitLook, Enter
<1>3. Registered(t)' = Registered(t)
  BY <1>2 DEF Registered
<1>4. Here(t) \in Early => ~Settled(seen'[w].status)
  BY <1>2 DEF Course, Before, Look, Settled, IsTerminal
<1>5. seen'[w].run = run[t] /\ (After(t) => seen'[w].result = FinalOf(t, run[t]))
  BY <1>2 DEF After, Look
<1>6. waiters'[t] = Cardinality(Registered(t)')
  BY <1>2, <1>3 DEF Course, deliv
<1>7. /\ Grows
      /\ target' = target
      /\ status'[t] = status[t]
      /\ result'[t] = result[t]
      /\ pc'[t] = pc[t]
      /\ run'[t] = run[t]
      /\ claimed'[t] = claimed[t]
  BY <1>2 DEF Grows, core, deliv, ghost
<1>q. QED
  BY <1>2, <1>3, <1>4, <1>5, <1>6, <1>7, WaitKeeps

LEMMA WaitRegisterCourse ==
    ASSUME TypeOK, NEW t \in Task, NEW w \in Wait, target[w] = t, Course(t),
           WaitRegister(w)
    PROVE  Course(t)'
<1>1. /\ call \in [Wait -> Stage]
      /\ waiters \in [Task -> Nat]
  BY DEF TypeOK, WaitType
<1>2. /\ UNCHANGED <<core, claimed, target, seen, ghost>>
      /\ call[w] = "looked"
      /\ call'[w] = IF Settled(seen[w].status) THEN "claim" ELSE "blocked"
      /\ \A v \in Wait : v # w => call'[v] = call[v]
      /\ waiters'[t] = waiters[t] + 1
  BY <1>1 DEF WaitRegister, Enter
<1>3. Registered(t)' = Registered(t) \cup {w} /\ w \notin Registered(t)
  BY <1>2 DEF Registered
<1>4. Cardinality(Registered(t)') = Cardinality(Registered(t)) + 1
  BY <1>3, RegisteredIsFinite, FS_AddElement
<1>5. waiters'[t] = Cardinality(Registered(t)')
  BY <1>2, <1>4 DEF Course
<1>6. seen'[w].run = run[t] /\ (Here(t) \in Early => call'[w] = "blocked")
  BY <1>2 DEF Course, Before
<1>7. (After(t) /\ call'[w] \in {"claim", "answer"}) => seen'[w].result = FinalOf(t, run[t])
  BY <1>2 DEF After, Truthful
<1>8. /\ Grows
      /\ target' = target
      /\ status'[t] = status[t]
      /\ result'[t] = result[t]
      /\ pc'[t] = pc[t]
      /\ run'[t] = run[t]
      /\ claimed'[t] = claimed[t]
      /\ call'[w] # "looked"
      /\ \A v \in Wait : v # w => call'[v] = call[v] /\ seen'[v] = seen[v]
  BY <1>2 DEF Grows, core, ghost
<1>q. QED
  BY <1>2, <1>3, <1>5, <1>6, <1>7, <1>8, WaitKeeps

LEMMA WaitMoveCourse ==
    ASSUME TypeOK, SignalInv, NEW t \in Task, NEW w \in Wait, target[w] = t, Course(t),
           Undisturbed(t), WaitWake(w) \/ WaitFetch(w) \/ WaitTimeout(w)
    PROVE  Course(t)'
<1>1. /\ call \in [Wait -> Stage]
      /\ seen \in [Wait -> Snapshot]
      /\ run[t] \in 0 .. MaxRuns
  BY DEF TypeOK, WaitType, TaskType
<1>2. /\ UNCHANGED <<core, deliv, target, ghost>>
      /\ call[w] \in {"blocked", "fetch"}
      /\ call'[w] \in {"fetch", "claim", "timeout"}
      /\ \A v \in Wait : v # w => call'[v] = call[v] /\ seen'[v] = seen[v]
  BY <1>1 DEF WaitWake, WaitFetch, WaitTimeout, Enter
<1>3. Registered(t)' = Registered(t)
  BY <1>2 DEF Registered
<1>4. Here(t) \in Early => call'[w] = "timeout"
  <2>1. CASE WaitWake(w)
    <3>1. run[t] \in done[t]
      BY <2>1 DEF WaitWake, Course
    <3>2. OwnRun(t)
      BY <3>1 DEF Undisturbed, SignalInv, Signals, Unspawned
    <3>q. QED
      BY <3>1, <3>2 DEF OwnRun, Undisturbed, Early
  <2>2. CASE WaitFetch(w)
    BY <2>2 DEF WaitFetch, Course, Before
  <2>3. CASE WaitTimeout(w)
    BY <1>1, <2>3 DEF WaitTimeout, Enter
  <2>q. QED
    BY <2>1, <2>2, <2>3
<1>5. call'[w] = "claim" => seen'[w] = Look(t)
  BY <1>1 DEF WaitWake, WaitFetch, WaitTimeout, Enter
<1>6. (After(t) /\ call'[w] \in {"claim", "answer"}) => seen'[w].result = FinalOf(t, run[t])
  BY <1>2, <1>5 DEF After, Look
<1>7. /\ Grows
      /\ target' = target
      /\ status'[t] = status[t]
      /\ result'[t] = result[t]
      /\ pc'[t] = pc[t]
      /\ run'[t] = run[t]
      /\ claimed'[t] = claimed[t]
      /\ waiters'[t] = Cardinality(Registered(t)')
  BY <1>2, <1>3 DEF Grows, core, deliv, ghost, Course
<1>q. QED
  BY <1>2, <1>3, <1>4, <1>6, <1>7, WaitKeeps

LEMMA WaitClaimCourse ==
    ASSUME TypeOK, NEW t \in Task, NEW w \in Wait, target[w] = t, Course(t),
           WaitClaim(w)
    PROVE  Course(t)'
<1>1. /\ call \in [Wait -> Stage]
      /\ claimed \in [Task -> BOOLEAN]
  BY DEF TypeOK, WaitType
<1>2. /\ UNCHANGED <<core, waiters, target, seen, ghost>>
      /\ call[w] = "claim"
      /\ call'[w] = "answer"
      /\ \A v \in Wait : v # w => call'[v] = call[v]
      /\ claimed'[t]
  BY <1>1 DEF WaitClaim, Enter
<1>3. Registered(t)' = Registered(t) /\ Answering(t)' # {} /\ Here(t)' = Here(t)
  BY <1>2 DEF Registered, Answering, Here, core
<1>4. Here(t) \notin Early
  BY <1>2 DEF Course, Before
<1>5. After(t) => Truthful(t)'
  BY <1>2 DEF After, Truthful, FinalOf, core
<1>6. After(t) => After(t)'
  BY <1>2, <1>3, <1>5 DEF After, Owed, FinalOf, core
<1>q. QED
  BY <1>2, <1>3, <1>4, <1>6 DEF Course, core

LEMMA WaitReleaseCourse ==
    ASSUME TypeOK, NEW t \in Task, NEW w \in Wait, target[w] = t, Course(t),
           WaitRelease(w)
    PROVE  Course(t)'
<1>1. /\ call \in [Wait -> Stage]
      /\ claimed \in [Task -> BOOLEAN]
      /\ waiters \in [Task -> Nat]
  BY DEF TypeOK, WaitType
<1> DEFINE raced == Less1(waiters[t]) = 0 /\ ~claimed[t] /\ Settled(status[t])
<1>2. /\ UNCHANGED <<core, target, seen, injected, refused>>
      /\ call[w] \in {"answer", "timeout"}
      /\ call'[w] = "over"
      /\ \A v \in Wait : v # w => call'[v] = call[v]
      /\ waiters'[t] = Less1(waiters[t])
      /\ claimed'[t] = (claimed[t] \/ raced)
      /\ read \subseteq read'
  BY <1>1 DEF WaitRelease, Enter
<1>3. /\ call[w] = "answer" => <<t, seen[w].result>> \in read'
      /\ (call[w] = "timeout" /\ raced) => <<t, result[t]>> \in read'
  BY DEF WaitRelease
<1> HIDE DEF raced
<1>4. Registered(t)' = Registered(t) \ {w} /\ w \in Registered(t) /\ Here(t)' = Here(t)
  BY <1>2 DEF Registered, Here, core
<1>5. Cardinality(Registered(t)') = Cardinality(Registered(t)) - 1
  BY <1>4, RegisteredIsFinite, FS_RemoveElement
<1>6. Cardinality(Registered(t)) \in Nat \ {0}
  BY <1>4, RegisteredIsFinite
<1>7. waiters'[t] = Cardinality(Registered(t)')
  BY <1>2, <1>5, <1>6 DEF Course, Less1
<1>8. Less1(waiters[t]) = 0 <=> Registered(t)' = {}
  <2>1. Cardinality(Registered(t)') = 0 <=> Registered(t)' = {}
    BY <1>4, RegisteredIsFinite, FS_Subset, FS_EmptySet
  <2>q. QED
    BY <1>2, <1>7, <2>1
<1>9. Here(t) \in Early => Before(t)'
  <2>1. Here(t) \in Early => ~raced
    BY DEF Course, Before, Settled, IsTerminal, raced
  <2>q. QED
    BY <1>1, <1>2, <2>1 DEF Course, Before, core
<1>10. ASSUME After(t)
       PROVE  Owed(t)'
  <2>1. CASE call[w] = "answer"
    <3>1. seen[w].result = FinalOf(t, run[t])
      BY <1>10, <2>1 DEF After, Truthful
    <3>q. QED
      BY <1>2, <1>3, <2>1, <3>1 DEF Owed, Given, FinalOf, core
  <2>2. CASE call[w] = "timeout" /\ Given(t, run[t])
    BY <1>2, <2>2 DEF Owed, Given, FinalOf, core
  <2>6. CASE <<t, run[t]>> \in refused
    BY <1>2, <2>6 DEF Owed, core
  <2>3. CASE call[w] = "timeout" /\ claimed[t] /\ ~Given(t, run[t]) /\ <<t, run[t]>> \notin refused
    <3>1. PICK v \in Answering(t) : TRUE
      BY <1>10, <2>3 DEF After, Owed
    <3>2. v \in Answering(t)'
      BY <1>2, <2>3, <3>1 DEF Answering
    <3>q. QED
      BY <1>2, <2>3, <3>2 DEF Owed
  <2>4. CASE call[w] = "timeout" /\ ~claimed[t] /\ raced
    <3>1. result[t] = FinalOf(t, run[t])
      BY <1>10 DEF After
    <3>q. QED
      BY <1>2, <1>3, <2>4, <3>1 DEF Owed, Given, FinalOf, core
  <2>5. CASE call[w] = "timeout" /\ ~claimed[t] /\ ~raced
    <3>1. Registered(t)' # {}
      BY <1>8, <1>10, <2>5 DEF After, raced
    <3>2. ~claimed'[t]
      BY <1>2, <2>5
    <3>q. QED
      BY <3>1, <3>2 DEF Owed
  <2>q. QED
    BY <1>2, <2>1, <2>2, <2>3, <2>4, <2>5, <2>6
<1>11. After(t) => Truthful(t)'
  BY <1>2 DEF After, Truthful, FinalOf, core
<1>12. After(t) => After(t)'
  BY <1>2, <1>10, <1>11 DEF After, FinalOf, core
<1>q. QED
  BY <1>2, <1>4, <1>7, <1>9, <1>12 DEF Course, core

LEMMA WaitCourse ==
    ASSUME TypeOK, SignalInv, NEW t \in Task, NEW w \in Wait, Undisturbed(t), Course(t),
           WaitLook(w) \/ WaitTimeout(w) \/ WaitStep(w)
    PROVE  Course(t)'
<1>1. CASE target[w] # t
  BY <1>1, WaitElsewhere
<1>2. CASE target[w] = t
  BY <1>2, WaitLookCourse, WaitRegisterCourse, WaitMoveCourse, WaitClaimCourse, WaitReleaseCourse
  DEF WaitStep
<1>q. QED
  BY <1>1, <1>2

\* A stop request that does not disturb a task has left it alone.
LEMMA StopCourse ==
    ASSUME TypeOK, NEW S \in SUBSET Task, NEW canStop \in SUBSET Task,
           NEW seal \in BOOLEAN, StopUnderLock(S, canStop, seal),
           NEW t \in Task, Undisturbed(t), Undisturbed(t)', Course(t)
    PROVE  Course(t)'
<1>1. t \notin canStop
  BY DEF StopUnderLock, Undisturbed
<1>2. Alike(t) /\ WaitsAlike(t) /\ Grows
  BY <1>1 DEF StopUnderLock, Alike, WaitsAlike, Grows, deliv, waits, ghost
<1>q. QED
  BY <1>2, CourseFrame

LEMMA StopsCourse ==
    ASSUME TypeOK, NEW t \in Task, Undisturbed(t), Undisturbed(t)', Course(t),
           StopAll \/ \E u \in Task, seal \in BOOLEAN : StopTask(u, seal)
    PROVE  Course(t)'
<1>1. CASE StopAll
  <2> DEFINE S == {u \in Task : handle[u] # 0 \/ status[u] \in {"needs_context", "pending"}}
  <2>1. StopUnderLock(S, S, FALSE) /\ S \in SUBSET Task
    BY <1>1 DEF StopAll
  <2> HIDE DEF S
  <2>q. QED
    BY <2>1, StopCourse
<1>2. ASSUME NEW u \in Task, NEW seal \in BOOLEAN, StopTask(u, seal)
      PROVE  Course(t)'
  <2> DEFINE stoppable ==
        {u} \cap {v \in Task : status[v] \in {"running", "needs_context", "pending"}}
  <2>1. StopUnderLock({u}, stoppable, seal) /\ stoppable \in SUBSET Task
    BY <1>2 DEF StopTask
  <2> HIDE DEF stoppable
  <2>q. QED
    BY <2>1, StopCourse
<1>q. QED
  BY <1>1, <1>2

\* The spawn of a task: nobody has looked at it yet.
LEMMA SpawnCourse ==
    ASSUME TypeOK, FreshInv, LossInv, NEW t \in Task, Spawn(t)
    PROVE  Course(t)'
<1>1. /\ status \in [Task -> Status]
      /\ pc \in [Task -> [Run -> Place]]
      /\ run \in [Task -> 0 .. MaxRuns]
      /\ 1 \in Run
  BY SubagentAssumption DEF TypeOK, TaskType, RunType, Run
<1>2. Untold(t)
  BY DEF Spawn, FreshInv, LossInv
<1>3. /\ run'[t] = 1
      /\ pc'[t][1] \in {"impl", "deps"}
      /\ status'[t] \in {"running", "pending"}
      /\ UNCHANGED <<deliv, waits>>
  BY <1>1 DEF Spawn, Goto
<1>4. Here(t)' \in {"impl", "deps"}
  BY <1>3 DEF Here
<1>5. Registered(t)' = {} /\ Cardinality({}) = 0
  BY <1>2, <1>3, FS_EmptySet DEF Registered, Untold, waits
<1>6. Before(t)'
  BY <1>2, <1>3 DEF Before, Untold, deliv, waits
<1>q. QED
  BY <1>2, <1>3, <1>4, <1>5, <1>6 DEF Course, Untold, Early, Late, deliv, waits

\* A task continued while it is still: every wait for it is over.
LEMMA ContinueCourse ==
    ASSUME TypeOK, NEW t \in Task, Continue(t), t \notin crossed'
    PROVE  Course(t)'
<1>1. /\ status \in [Task -> Status]
      /\ pc \in [Task -> [Run -> Place]]
      /\ run \in [Task -> 0 .. MaxRuns]
      /\ claimed \in [Task -> BOOLEAN]
      /\ waiters \in [Task -> Nat]
      /\ run[t] \in Nat
  BY SubagentAssumption DEF TypeOK, TaskType, RunType, WaitType
<1>2. Still(t)
  BY DEF Continue, NextRun
<1>3. run[t] + 1 \in Run /\ run[t] + 1 # 0
  BY <1>1, SubagentAssumption DEF Continue, NextRun, Run
<1>4. /\ run'[t] = run[t] + 1
      /\ pc'[t][run[t] + 1] = "impl"
      /\ status'[t] = "running"
      /\ ~claimed'[t]
      /\ waiters'[t] = 0
      /\ UNCHANGED waits
  BY <1>1, <1>3 DEF Continue, NextRun, ResetDelivery, Goto
<1>5. Here(t)' = "impl"
  BY <1>3, <1>4 DEF Here
<1>6. Registered(t)' = {} /\ Cardinality({}) = 0
  BY <1>2, <1>4, FS_EmptySet DEF Registered, Still, waits
<1>7. Before(t)'
  BY <1>2, <1>4 DEF Before, Still, waits
<1>q. QED
  BY <1>2, <1>4, <1>5, <1>6, <1>7 DEF Course, Still, Early, Late, waits

\* No step of a run, a stop or a wait makes a disturbed task undisturbed.
LEMMA UndisturbedBefore ==
    ASSUME TypeOK, FreshInv, SealInv, [Next]_vars, NEW t \in Task, Undisturbed(t)',
           ~Spawn(t), ~Continue(t)
    PROVE  Undisturbed(t) /\ run'[t] = run[t]
<1>1. /\ run \in [Task -> 0 .. MaxRuns]
      /\ retries \in [Task -> Nat]
      /\ stopper \in [Task -> StopRequest]
      /\ 0 .. MaxRuns \subseteq Nat
  BY SubagentAssumption DEF TypeOK, TaskType, StopType
<1>2. ASSUME NEW u \in Task, Spawn(u) \/ Continue(u)
      PROVE  Undisturbed(t) /\ run'[t] = run[t]
  <2>1. run'[t] = run[t]
    BY <1>1, <1>2 DEF Spawn, Continue, NextRun
  <2>2. UNCHANGED <<retries, halted, stopper>> /\ crossed \subseteq crossed'
    BY <1>2 DEF Spawn, Continue, NextRun
  <2>q. QED
    BY <2>1, <2>2 DEF Undisturbed
<1>3. ASSUME NEW u \in Task, NEW r \in Run, RunStep(u, r)
      PROVE  Undisturbed(t) /\ run'[t] = run[t]
  <2>1. UNCHANGED <<run, halted, stopper, crossed>>
    BY <1>3 DEF RunStep, DepsCancelled, DepsMet, Begin, Check, Finish, Callback, Decide,
                BackoffOver, BackoffCancelled, Panic, Cleanup, Recover, Signal, ghost
  <2>2. retries'[t] \in {retries[t], retries[t] + 1}
    BY <1>1, <1>3 DEF RunStep, DepsCancelled, DepsMet, Begin, Check, Finish, Callback, Decide,
                BackoffOver, BackoffCancelled, Panic, Cleanup, Recover, Signal
  <2>3. retries[t] = 0
    BY <1>1, <2>2 DEF Undisturbed
  <2>q. QED
    BY <2>1, <2>3 DEF Undisturbed
<1>4. ASSUME NEW S \in SUBSET Task, NEW canStop, NEW seal,
             t \in S => stopper[t].at = "idle", StopUnderLock(S, canStop, seal)
      PROVE  Undisturbed(t) /\ run'[t] = run[t]
  <2>1. UNCHANGED <<run, retries, crossed>> /\ halted \subseteq halted'
    BY <1>4 DEF StopUnderLock, ghost
  <2>2. ~stopper[t].seal
    BY <1>1, <1>4 DEF StopUnderLock, SealInv, Undisturbed
  <2>q. QED
    BY <2>1, <2>2 DEF Undisturbed
<1>5. ASSUME NEW u \in Task, NEW seal \in BOOLEAN, StopTask(u, seal)
      PROVE  Undisturbed(t) /\ run'[t] = run[t]
  BY <1>4, <1>5 DEF StopTask
<1>6. CASE StopAll
  <2> DEFINE S == {u \in Task : handle[u] # 0 \/ status[u] \in {"needs_context", "pending"}}
  <2>1. StopUnderLock(S, S, FALSE) /\ S \in SUBSET Task /\ stopper[t].at = "idle"
    BY <1>6 DEF StopAll
  <2> HIDE DEF S
  <2>q. QED
    BY <1>4, <2>1
<1>7. ASSUME NEW u \in Task, StopCancel(u) \/ StopSeal(u) \/ CancelSession(u)
      PROVE  Undisturbed(t) /\ run'[t] = run[t]
  <2>1. UNCHANGED <<run, retries, crossed>> /\ halted \subseteq halted'
    BY <1>7 DEF StopCancel, StopSeal, CancelSession, core, ghost
  <2>2. stopper'[t].seal = stopper[t].seal
    BY <1>1, <1>7 DEF StopCancel, StopSeal, CancelSession, StopRequest
  <2>q. QED
    BY <2>1, <2>2 DEF Undisturbed
<1>8. CASE UNCHANGED <<core, halted, stopper, crossed>>
  BY <1>8 DEF Undisturbed, core
<1>9. ASSUME NEW w \in Wait, WaitLook(w) \/ WaitTimeout(w) \/ WaitStep(w)
      PROVE  Undisturbed(t) /\ run'[t] = run[t]
  BY <1>8, <1>9
  DEF WaitLook, WaitTimeout, WaitStep, WaitRegister, WaitWake, WaitFetch, WaitClaim, WaitRelease,
      ghost
<1>q. QED
  BY <1>2, <1>3, <1>5, <1>6, <1>7, <1>8, <1>9 DEF Next, vars, ghost

\* A task that is not there stays as nobody has looked at it.
LEMMA UntoldStays ==
    ASSUME TypeOK, FreshInv, SignalInv, LossInv, [Next]_vars, NEW t \in Task, run[t] = 0, run'[t] = 0
    PROVE  Untold(t)'
<1>1. /\ Untold(t)
      /\ status[t] = "absent"
      /\ stopper[t].at = "idle"
  BY DEF LossInv, SignalInv, Signals, Unspawned
<1>2. /\ claimed \in [Task -> BOOLEAN]
      /\ waiters \in [Task -> Nat]
      /\ call \in [Wait -> Stage]
      /\ run \in [Task -> 0 .. MaxRuns]
  BY DEF TypeOK, WaitType, TaskType
<1>3. CASE UNCHANGED <<deliv, waits>>
  BY <1>1, <1>3 DEF Untold, deliv, waits
<1>4. ASSUME NEW u \in Task, Continue(u) \/ StopSeal(u)
      PROVE  Untold(t)'
  <2>1. u # t /\ UNCHANGED waits
    BY <1>1, <1>4 DEF Continue, NextRun, StopSeal
  <2>2. claimed'[t] = claimed[t] /\ waiters'[t] = waiters[t]
    BY <1>2, <1>4, <2>1 DEF Continue, ResetDelivery, StopSeal
  <2>q. QED
    BY <1>1, <2>1, <2>2 DEF Untold, waits
<1>5. ASSUME NEW u \in Task, NEW r \in Run, Callback(u, r), u # t
      PROVE  Untold(t)'
  <2>1. UNCHANGED <<waiters, waits>> /\ claimed'[t] = claimed[t]
    BY <1>2, <1>5 DEF Callback
  <2>q. QED
    BY <1>1, <2>1 DEF Untold, waits
<1>6. ASSUME NEW w \in Wait, WaitLook(w) \/ WaitTimeout(w) \/ WaitStep(w)
      PROVE  Untold(t)'
  <2>1. target[w] # t
    BY <1>1, <1>6
    DEF Untold, WaitLook, WaitTimeout, WaitStep, WaitRegister, WaitWake, WaitFetch, WaitClaim,
        WaitRelease
  <2>2. /\ target' = target
        /\ claimed'[t] = claimed[t]
        /\ waiters'[t] = waiters[t]
        /\ \A v \in Wait : v # w => call'[v] = call[v]
    BY <1>2, <1>6, <2>1
    DEF WaitLook, WaitTimeout, WaitStep, WaitRegister, WaitWake, WaitFetch, WaitClaim,
        WaitRelease, deliv, Enter
  <2>q. QED
    BY <1>1, <2>1, <2>2 DEF Untold
<1>7. ASSUME NEW u \in Task, NEW r \in Run, RunStep(u, r)
      PROVE  Untold(t)'
  <2>1. CASE Callback(u, r)
    <3>1. u # t
      <4>1. run[u] # 0
        BY <1>7, OnlyCurrentMoves DEF FreshInv
      <4>q. QED
        BY <4>1
    <3>q. QED
      BY <1>5, <2>1, <3>1
  <2>2. CASE ~Callback(u, r)
    <3>1. UNCHANGED <<deliv, waits>>
      BY <1>7, <2>2 DEF RunStep, DepsCancelled, DepsMet, Begin, Check, Finish, Decide,
                BackoffOver, BackoffCancelled, Panic, Cleanup, Recover, Signal
    <3>q. QED
      BY <1>3, <3>1
  <2>q. QED
    BY <2>1, <2>2
<1>8. CASE \/ StopAll
           \/ \E u \in Task : \/ Spawn(u)
                              \/ StopCancel(u)
                              \/ CancelSession(u)
                              \/ \E seal \in BOOLEAN : StopTask(u, seal)
  BY <1>3, <1>8 DEF StopAll, StopTask, StopUnderLock, Spawn, StopCancel, CancelSession
<1>9. CASE UNCHANGED vars
  BY <1>3, <1>9 DEF vars
<1>q. QED
  BY <1>4, <1>6, <1>7, <1>8, <1>9 DEF Next

LEMMA RunStays ==
    ASSUME TypeOK, [Next]_vars, NEW t \in Task, run'[t] = 0
    PROVE  run[t] = 0
<1>1. run[t] \in Nat /\ run \in [Task -> 0 .. MaxRuns]
  BY SubagentAssumption DEF TypeOK, TaskType
<1>q. QED
  BY <1>1
  DEF Next, vars, core, Spawn, Continue, NextRun, StopTask, StopAll, StopUnderLock, StopCancel, StopSeal,
      CancelSession, RunStep, DepsCancelled, DepsMet, Begin, Check, Finish, Callback, Decide,
      BackoffOver, BackoffCancelled, Panic, Cleanup, Recover, Signal, WaitLook, WaitTimeout,
      WaitStep, WaitRegister, WaitWake, WaitFetch, WaitClaim, WaitRelease

LEMMA LossStep ==
    ASSUME TypeOK, FreshInv, SignalInv, SealInv, LossInv, [Next]_vars
    PROVE  LossInv'
<1> SUFFICES ASSUME NEW t \in Task
             PROVE  /\ run'[t] = 0 => Untold(t)'
                    /\ (run'[t] # 0 /\ Undisturbed(t)') => Course(t)'
  BY DEF LossInv
<1>a. run'[t] = 0 => run[t] = 0
  BY RunStays
<1>b. run'[t] = 0 => Untold(t)'
  BY <1>a, UntoldStays
<1>c. CASE Spawn(t)
  BY <1>b, <1>c, SpawnCourse
<1>d. CASE Continue(t)
  BY <1>b, <1>d, ContinueCourse DEF Undisturbed
<1>e. SUFFICES ASSUME ~Spawn(t), ~Continue(t), run'[t] # 0, Undisturbed(t)'
               PROVE  Course(t)'
  BY <1>b, <1>c, <1>d
<1>1. Undisturbed(t) /\ Course(t) /\ run'[t] = run[t]
  BY <1>e, UndisturbedBefore DEF LossInv
<1>2. ASSUME NEW u \in Task, u # t,
             \/ Spawn(u)
             \/ Continue(u)
             \/ StopCancel(u)
             \/ StopSeal(u)
             \/ CancelSession(u)
             \/ \E r \in Run : RunStep(u, r)
      PROVE  Course(t)'
  <2>1. /\ status \in [Task -> Status]
        /\ result \in [Task -> Result]
        /\ claimed \in [Task -> BOOLEAN]
        /\ waiters \in [Task -> Nat]
    BY DEF TypeOK, TaskType, WaitType
  <2>2. Untouched(t)
    BY <1>2, OthersUntouched
  <2>3. UNCHANGED waits /\ Grows /\ waiters'[t] = waiters[t]
    BY <1>2, <2>1
    DEF Spawn, Continue, NextRun, ResetDelivery, StopCancel, StopSeal, CancelSession, RunStep,
        DepsCancelled, DepsMet, Begin, Check, Finish, Callback, PublishInbound, Decide,
        BackoffOver, BackoffCancelled, Panic, Cleanup, Recover, Signal, Grows, core, deliv, ghost
  <2>4. claimed'[t] = claimed[t]
    BY <1>2, <2>1
    DEF Spawn, Continue, NextRun, ResetDelivery, StopCancel, StopSeal, CancelSession, RunStep,
        DepsCancelled, DepsMet, Begin, Check, Finish, Callback, Decide, BackoffOver,
        BackoffCancelled, Panic, Cleanup, Recover, Signal, deliv
  <2>q. QED
    BY <1>1, <2>2, <2>3, <2>4, CourseFrame DEF Untouched, Alike, WaitsAlike, waits
<1>4. CASE StopSeal(t)
  BY <1>1, <1>4 DEF StopSeal, SealInv, Undisturbed
<1>5. CASE StopCancel(t) \/ CancelSession(t)
  <2>1. Alike(t) /\ WaitsAlike(t) /\ Grows
    BY <1>5 DEF StopCancel, CancelSession, Alike, WaitsAlike, Grows, deliv, waits, ghost
  <2>q. QED
    BY <1>1, <2>1, CourseFrame
<1>6. CASE UNCHANGED vars
  <2>1. Alike(t) /\ WaitsAlike(t) /\ Grows
    BY <1>6 DEF vars, core, Alike, WaitsAlike, Grows, deliv, waits, ghost
  <2>q. QED
    BY <1>1, <2>1, CourseFrame
<1>7. ASSUME NEW r \in Run, RunStep(t, r)
      PROVE  Course(t)'
  BY <1>1, <1>e, <1>7, GoroutineCourse
<1>8. ASSUME NEW w \in Wait, WaitLook(w) \/ WaitTimeout(w) \/ WaitStep(w)
      PROVE  Course(t)'
  BY <1>1, <1>8, WaitCourse
<1>q. QED
  BY <1>1, <1>e, <1>2, <1>4, <1>5, <1>6, <1>7, <1>8, StopsCourse DEF Next

\* Once nothing moves, what is owed has been given.
LEMMA StillIsGiven ==
    ASSUME TypeOK, SignalInv, LossInv, NEW t \in Task, t \notin crossed, retries[t] = 0,
           <<t, run[t]>> \notin refused
    PROVE  Delivered(t)
<1>1. SUFFICES ASSUME Still(t), result[t].kind = "final", <<t, run[t]>> \notin halted,
                      ~stopper[t].seal
               PROVE  Given(t, run[t])
  BY DEF Delivered
<1>2. run[t] # 0
  BY <1>1 DEF SignalInv, Signals, Unspawned, NoResult
<1>3. run[t] \in Run
  BY <1>2, SubagentAssumption DEF TypeOK, TaskType, Run
<1>4. Registered(t) = {} /\ Answering(t) = {} /\ Here(t) \in {"none", "exited"}
  BY <1>1, <1>2, <1>3 DEF Still, Registered, Answering, Here
<1>5. OwnRun(t) /\ Course(t)
  BY <1>1, <1>2 DEF LossInv, Undisturbed, SignalInv, Signals
<1>6. Here(t) = "exited"
  BY <1>4, <1>5 DEF OwnRun
<1>7. Owed(t)
  BY <1>1, <1>5, <1>6 DEF Course, Late, After
<1>q. QED
  BY <1>4, <1>6, <1>7 DEF Owed

LEMMA NoneIsLost == ASSUME TypeOK, SignalInv, LossInv PROVE NothingLost
<1>1. ASSUME NEW t \in Task, retries[t] = 0, t \notin crossed, <<t, run[t]>> \notin refused
      PROVE  Delivered(t)
  BY <1>1, StillIsGiven
<1>q. QED
  BY <1>1, Zenon DEF NothingLost

LEMMA LossHolds == Spec => []LossInv
<1>1. Init => SealInv /\ LossInv
  BY LossInit
<1>2. TypeOK /\ SealInv /\ [Next]_vars => SealInv'
  BY SealStep
<1>3. TypeOK /\ FreshInv /\ SignalInv /\ SealInv /\ LossInv /\ [Next]_vars => LossInv'
  BY LossStep
<1>q. QED
  BY <1>1, <1>2, <1>3, TypeCorrect, ReadIsClaimed, SignalsHold, PTL DEF Spec

(* The outcome of a run reaches the parent, by a wait or by an injected        *)
(* message, unless a stop took it or the bus did not, for any tasks, any       *)
(* finite number of waits, any dependencies and any number of runs: the claim  *)
(* between the callback and ReleaseResultWaiterAndClaim loses none. The tasks  *)
(* left out are those NothingLost names: retried, or continued while something *)
(* of an earlier run was still moving.                                         *)
THEOREM OutcomesArrive == Spec => []NothingLost
<1>1. TypeOK /\ SignalInv /\ LossInv => NothingLost
  BY NoneIsLost
<1>q. QED
  BY <1>1, TypeCorrect, SignalsHold, LossHolds, PTL
-----------------------------------------------------------------------------
(* Dependencies *)

\* What checkDependencies takes for an end, and what a task that has been seen
\* to end is ever after: terminal, stopped, or tried again.
Ended(d) == IsTerminal(status[d]) \/ Stopped(d) \/ retries[d] > 0

\* A task that is terminal while a goroutine still has it was stopped, or is
\* tried again; a task polls for dependencies that are there, but for those it
\* missed at its spawn, and has seen each of them end before it starts.
DependencyInv ==
  /\ \A d \in Task : (IsTerminal(status[d]) /\ ~Idle(d)) => Stopped(d) \/ retries[d] > 0
  /\ \A t \in Task : pc[t][1] \in {"deps", "met"} =>
       \A d \in DependsOn[t] : status[d] # "absent" \/ <<t, d>> \in missed
  /\ \A t \in Task : pc[t][1] = "met" =>
       \A d \in DependsOn[t] : Ended(d) \/ <<t, d>> \in missed

LEMMA DependencyInit == ASSUME Init PROVE DependencyInv
<1>1. 1 \in Run
  BY SubagentAssumption DEF Run
<1>q. QED
  BY <1>1 DEF Init, DependencyInv, IsTerminal

\* A step that begins no poll keeps the invariant if no task leaves its end,
\* or comes to one, but as it may.
LEMMA DependencyFrame ==
    ASSUME DependencyInv, missed \subseteq missed',
           \A d \in Task : status[d] # "absent" => status'[d] # "absent",
           \A d \in Task : Ended(d) => Ended(d)',
           \A d \in Task : (IsTerminal(status'[d]) /\ ~Idle(d)') =>
             Stopped(d)' \/ retries'[d] > 0,
           \A t \in Task : pc'[t][1] = "deps" => pc[t][1] = "deps",
           \A t \in Task : pc'[t][1] = "met" =>
             \/ pc[t][1] = "met"
             \/ pc[t][1] = "deps" /\ checkDependencies(t)
    PROVE  DependencyInv'
<1>0. \A t \in Task : DependsOn[t] \subseteq Task
  BY SubagentAssumption
<1>1. ASSUME NEW t \in Task, pc'[t][1] = "met", NEW d \in DependsOn[t]
      PROVE  Ended(d)' \/ <<t, d>> \in missed'
  <2>1. Ended(d) \/ <<t, d>> \in missed
    BY <1>1 DEF DependencyInv, checkDependencies, Ended
  <2>q. QED
    BY <1>0, <1>1, <2>1
<1>2. ASSUME NEW t \in Task, pc'[t][1] \in {"deps", "met"}, NEW d \in DependsOn[t]
      PROVE  status'[d] # "absent" \/ <<t, d>> \in missed'
  <2>1. pc[t][1] \in {"deps", "met"} /\ d \in Task
    BY <1>0, <1>2
  <2>q. QED
    BY <1>2, <2>1 DEF DependencyInv
<1>q. QED
  BY <1>1, <1>2 DEF DependencyInv

\* What has ended stays so in a step that opens it only for another attempt.
LEMMA EndedStays ==
    ASSUME NEW d \in Task, halted \subseteq halted', retries'[d] >= retries[d],
           retries[d] \in Nat, retries'[d] \in Nat,
           IsTerminal(status[d]) => IsTerminal(status'[d]) \/ Stopped(d)' \/ retries'[d] > 0
    PROVE  /\ Ended(d) => Ended(d)'
           /\ Stopped(d) \/ retries[d] > 0 => Stopped(d)' \/ retries'[d] > 0
<1>1. Stopped(d) => Stopped(d)'
  BY DEF Stopped
<1>2. retries[d] > 0 => retries'[d] > 0
  OBVIOUS
<1>q. QED
  BY <1>1, <1>2 DEF Ended

LEMMA SpawnDependency ==
    ASSUME TypeOK, DependencyInv, NEW t \in Task, Spawn(t)
    PROVE  DependencyInv'
<1>1. /\ status \in [Task -> Status]
      /\ pc \in [Task -> [Run -> Place]]
      /\ 1 \in Run
      /\ \A u \in Task : DependsOn[u] \subseteq Task
  BY SubagentAssumption DEF TypeOK, TaskType, RunType, Run
<1>2. /\ status[t] = "absent"
      /\ status'[t] \in {"running", "pending"}
      /\ pc'[t][1] \in {"impl", "deps"}
      /\ \A u \in Task \ {t} : status'[u] = status[u] /\ pc'[u] = pc[u]
      /\ UNCHANGED <<halted, retries>>
      /\ missed' = missed \cup ({t} \X {d \in DependsOn[t] : status[d] = "absent"})
  BY <1>1 DEF Spawn, Goto
<1>3. ASSUME NEW d \in DependsOn[t]
      PROVE  status'[d] # "absent" \/ <<t, d>> \in missed'
  BY <1>1, <1>2
<1>4. \A d \in Task : (Ended(d) => Ended(d)') /\ (Stopped(d)' = Stopped(d))
  BY <1>2 DEF Ended, IsTerminal, Stopped
<1>5. \A d \in Task : (IsTerminal(status'[d]) /\ ~Idle(d)') => Stopped(d)' \/ retries'[d] > 0
  BY <1>2, <1>4 DEF IsTerminal, Idle, DependencyInv
<1>6. ASSUME NEW u \in Task, u # t, pc'[u][1] \in {"deps", "met"}, NEW d \in DependsOn[u]
      PROVE  status'[d] # "absent" \/ <<u, d>> \in missed'
  BY <1>1, <1>2, <1>6 DEF DependencyInv
<1>7. ASSUME NEW u \in Task, pc'[u][1] = "met", NEW d \in DependsOn[u]
      PROVE  Ended(d)' \/ <<u, d>> \in missed'
  BY <1>1, <1>2, <1>4, <1>7 DEF DependencyInv
<1>q. QED
  BY <1>3, <1>5, <1>6, <1>7 DEF DependencyInv

\* ContinueTask opens a paused task; the run it starts is not the first.
LEMMA ContinueDependency ==
    ASSUME TypeOK, SignalInv, DependencyInv, NEW t \in Task, Continue(t)
    PROVE  DependencyInv' /\ \A u \in Task : pc'[u][1] = pc[u][1]
<1>1. /\ status \in [Task -> Status]
      /\ retries \in [Task -> Nat]
      /\ pc \in [Task -> [Run -> Place]]
  BY DEF TypeOK, TaskType, RunType
<1>2. run[t] + 1 # 1
  <2>1. run[t] # 0
    BY DEF Continue, SignalInv, Signals, Unspawned
  <2>2. run[t] \in Nat
    BY SubagentAssumption DEF TypeOK, TaskType
  <2>q. QED
    BY <2>1, <2>2
<1>3. /\ status[t] = "needs_context"
      /\ status'[t] = "running"
      /\ \A u \in Task \ {t} : status'[u] = status[u] /\ pc'[u] = pc[u]
      /\ \A u \in Task : pc'[u][1] = pc[u][1]
      /\ UNCHANGED <<halted, retries, missed>>
  BY <1>1, <1>2 DEF Continue, NextRun, Goto
<1>4. \A d \in Task : (Ended(d) => Ended(d)') /\ (Stopped(d)' = Stopped(d))
  BY <1>3 DEF Ended, IsTerminal, Stopped
<1>5. \A d \in Task : (IsTerminal(status'[d]) /\ ~Idle(d)') => Stopped(d)' \/ retries'[d] > 0
  BY <1>3, <1>4 DEF IsTerminal, Idle, DependencyInv
<1>6. \A d \in Task : status[d] # "absent" => status'[d] # "absent"
  BY <1>3
<1>q. QED
  BY <1>3, <1>4, <1>5, <1>6, DependencyFrame

LEMMA StopDependency ==
    ASSUME TypeOK, SignalInv, DependencyInv,
           NEW S \in SUBSET Task, NEW canStop \in SUBSET Task,
           NEW seal \in BOOLEAN, StopUnderLock(S, canStop, seal),
           \A t \in canStop : ~Unspawned(t)
    PROVE  DependencyInv'
<1>1. /\ run \in [Task -> 0 .. MaxRuns]
      /\ retries \in [Task -> Nat]
      /\ UNCHANGED <<pc, retries, missed>>
      /\ halted \subseteq halted'
  BY DEF TypeOK, TaskType, StopUnderLock, ghost
<1>2. ASSUME NEW t \in canStop
      PROVE  Stopped(t)'
  <2>1. run[t] # 0
    BY <1>2 DEF SignalInv, Signals
  <2>2. run[t] \in Run
    BY <1>1, <2>1, SubagentAssumption DEF Run
  <2>3. <<t, run[t]>> \in halted'
    BY DEF StopUnderLock
  <2>4. Run' = Run
    BY DEF Run
  <2>q. QED
    BY <2>2, <2>3, <2>4 DEF Stopped
<1>3. \A t \in Task : status'[t] = IF t \in canStop THEN "cancelled" ELSE status[t]
  BY DEF StopUnderLock
<1>4. ASSUME NEW d \in Task
      PROVE  /\ Ended(d) => Ended(d)'
             /\ Stopped(d) \/ retries[d] > 0 => Stopped(d)' \/ retries'[d] > 0
  BY <1>1, <1>2, <1>3, EndedStays
<1>5. \A d \in Task : Idle(d)' = Idle(d)
  BY <1>1 DEF Idle
<1>6. \A d \in Task : (IsTerminal(status'[d]) /\ ~Idle(d)') => Stopped(d)' \/ retries'[d] > 0
  BY <1>2, <1>3, <1>4, <1>5 DEF DependencyInv
<1>7. \A d \in Task : status[d] # "absent" => status'[d] # "absent"
  BY <1>3
<1>q. QED
  BY <1>1, <1>4, <1>6, <1>7, DependencyFrame

\* A goroutine that has its task for itself leaves no other with it.
LEMMA LeavesIdle ==
    ASSUME TypeOK, TokenInv, NEW t \in Task, NEW r \in Run, pc[t][r] \in Active,
           NEW place, place \notin Active, Goto(t, r, place)
    PROVE  Idle(t)'
<1>1. pc \in [Task -> [Run -> Place]]
  BY DEF TypeOK, RunType
<1>2. \A q \in Run \ {r} : pc[t][q] \notin Active
  BY DEF TokenInv
<1>3. \A q \in Run : pc'[t][q] = IF q = r THEN place ELSE pc[t][q]
  BY <1>1 DEF Goto
<1>q. QED
  BY <1>2, <1>3 DEF Idle

\* A goroutine ends its task, opens it again, or leaves it as it is.
LEMMA GoroutineEnds ==
    ASSUME TypeOK, TokenInv, DependencyInv, NEW t \in Task, NEW r \in Run, RunStep(t, r)
    PROVE  /\ IsTerminal(status[t]) => IsTerminal(status'[t]) \/ Stopped(t) \/ retries'[t] > 0
           /\ (IsTerminal(status'[t]) /\ ~Idle(t)') => IsTerminal(status[t]) /\ ~Idle(t)
           /\ retries'[t] >= retries[t] /\ retries'[t] \in Nat
<1>1. /\ status \in [Task -> Status]
      /\ retries \in [Task -> Nat]
      /\ pc \in [Task -> [Run -> Place]]
  BY DEF TypeOK, TaskType, RunType
<1>2. pc[t][r] \in Active => ~Idle(t)
  BY DEF Idle
<1>3. \A place : Goto(t, r, place) /\ place \notin Active /\ Idle(t) => Idle(t)'
  BY <1>1 DEF Goto, Idle
<1>4. CASE DepsCancelled(t, r) \/ Check(t, r) \/ BackoffCancelled(t, r) \/ Recover(t, r)
  <2>1. UNCHANGED retries /\ pc[t][r] \in Active
    BY <1>4 DEF DepsCancelled, Check, BackoffCancelled, Recover, Active
  <2>2. \/ Idle(t)'
        \/ status' = status
    <3>1. CASE DepsCancelled(t, r) \/ BackoffCancelled(t, r) \/ Recover(t, r)
      BY <2>1, <3>1, LeavesIdle DEF DepsCancelled, BackoffCancelled, Recover, Active
    <3>2. CASE Check(t, r)
      <4>1. Goto(t, r, "decide") \/ status' = status
        BY <3>2 DEF Check
      <4>q. QED
        BY <2>1, <4>1, LeavesIdle DEF Active
    <3>q. QED
      BY <1>4, <3>1, <3>2
  <2>3. status'[t] = status[t] \/ IsTerminal(status'[t])
    BY <1>1, <1>4 DEF DepsCancelled, Check, BackoffCancelled, Recover, IsTerminal
  <2>q. QED
    BY <1>1, <1>2, <2>1, <2>2, <2>3
<1>5. CASE Begin(t, r)
  <2>1. /\ UNCHANGED retries
        /\ pc[t][r] \in Active
        /\ ~IsTerminal(status'[t])
    BY <1>1, <1>5 DEF Begin, Active, IsTerminal
  <2>q. QED
    BY <1>1, <1>2, <2>1 DEF DependencyInv
<1>6. ASSUME NEW s \in Outcome, NEW tr \in BOOLEAN, Finish(t, r, s, tr)
      PROVE  /\ IsTerminal(status[t]) => Stopped(t) \/ retries'[t] > 0
             /\ Idle(t)'
             /\ UNCHANGED retries
  <2>1. UNCHANGED retries /\ pc[t][r] \in Active
    BY <1>6 DEF Finish, Active
  <2>2. Goto(t, r, "decide") \/ Goto(t, r, "callback")
    BY <1>6 DEF Finish
  <2>3. Idle(t)'
    BY <2>1, <2>2, LeavesIdle DEF Active
  <2>q. QED
    BY <1>2, <2>1, <2>3 DEF DependencyInv
<1>7. CASE DepsMet(t, r) \/ BackoffOver(t, r) \/ Panic(t, r)
  <2>1. UNCHANGED <<status, retries>> /\ pc[t][r] \in Active
    BY <1>7 DEF DepsMet, BackoffOver, Panic, Active
  <2>q. QED
    BY <1>1, <1>2, <2>1
<1>8. CASE Callback(t, r) \/ Signal(t, r)
  <2>1. UNCHANGED <<status, retries>> /\ (Goto(t, r, "decide") \/ Goto(t, r, "exited"))
    BY <1>8 DEF Callback, Signal
  <2>2. Idle(t) => Idle(t)'
    BY <1>3, <2>1 DEF Active
  <2>q. QED
    BY <1>1, <2>1, <2>2
<1>9. CASE Cleanup(t, r)
  <2>1. UNCHANGED <<status, retries>>
    BY <1>9 DEF Cleanup
  <2>2. Idle(t) => Goto(t, r, "signal")
    BY <1>2, <1>9 DEF Cleanup, Active
  <2>3. Idle(t) => Idle(t)'
    BY <1>3, <2>2 DEF Active
  <2>q. QED
    BY <1>1, <2>1, <2>3
<1>10. CASE Decide(t, r)
  <2>1. CASE RetryPending(t, status[t], transient[t])
    <3>1. retries'[t] = retries[t] + 1 /\ status'[t] = "running"
      BY <1>1, <1>10, <2>1 DEF Decide
    <3>q. QED
      BY <1>1, <3>1 DEF IsTerminal
  <2>2. CASE ~RetryPending(t, status[t], transient[t])
    <3>1. UNCHANGED <<status, retries>> /\ Goto(t, r, "cleanup")
      BY <1>10, <2>2 DEF Decide
    <3>2. Idle(t) => Idle(t)'
      BY <1>3, <3>1 DEF Active
    <3>q. QED
      BY <1>1, <3>1, <3>2
  <2>q. QED
    BY <2>1, <2>2
<1>q. QED
  BY <1>1, <1>4, <1>5, <1>6, <1>7, <1>8, <1>9, <1>10 DEF RunStep

LEMMA GoroutineDependency ==
    ASSUME TypeOK, TokenInv, DependencyInv, NEW t \in Task, NEW r \in Run, RunStep(t, r)
    PROVE  DependencyInv'
<1>1. /\ status \in [Task -> Status]
      /\ retries \in [Task -> Nat]
      /\ pc \in [Task -> [Run -> Place]]
  BY DEF TypeOK, TaskType, RunType
<1>2. UNCHANGED <<halted, missed>>
  BY DEF RunStep, DepsCancelled, DepsMet, Begin, Check, Finish, Callback, Decide, BackoffOver,
         BackoffCancelled, Panic, Cleanup, Recover, Signal, ghost
<1>3. \A u \in Task \ {t} : status'[u] = status[u] /\ retries'[u] = retries[u] /\ pc'[u] = pc[u]
  BY <1>1 DEF RunStep, DepsCancelled, DepsMet, Begin, Check, Finish, Callback, Decide,
              BackoffOver, BackoffCancelled, Panic, Cleanup, Recover, Signal, Goto
<1>4. status[t] # "absent" => status'[t] # "absent"
  BY <1>1 DEF RunStep, DepsCancelled, DepsMet, Begin, Check, Finish, Callback, Decide,
              BackoffOver, BackoffCancelled, Panic, Cleanup, Recover, Signal, Outcome
<1>5. \A d \in Task : Stopped(d)' = Stopped(d)
  BY <1>2 DEF Stopped
<1>6. ASSUME NEW d \in Task
      PROVE  /\ Ended(d) => Ended(d)'
             /\ Stopped(d) \/ retries[d] > 0 => Stopped(d)' \/ retries'[d] > 0
  BY <1>1, <1>2, <1>3, <1>5, GoroutineEnds, EndedStays
<1>7. \A d \in Task : (IsTerminal(status'[d]) /\ ~Idle(d)') => IsTerminal(status[d]) /\ ~Idle(d)
  BY <1>3, GoroutineEnds DEF Idle
<1>8. \A d \in Task : (IsTerminal(status'[d]) /\ ~Idle(d)') => Stopped(d)' \/ retries'[d] > 0
  BY <1>6, <1>7 DEF DependencyInv
<1>9. \A d \in Task : status[d] # "absent" => status'[d] # "absent"
  BY <1>3, <1>4
<1>10. /\ pc'[t][r] # "deps"
       /\ pc'[t][r] = "met" => pc[t][r] = "deps" /\ checkDependencies(t)
       /\ \A q \in Run \ {r} : pc'[t][q] = pc[t][q]
  BY <1>1 DEF RunStep, DepsCancelled, DepsMet, Begin, Check, Finish, Callback, Decide,
              BackoffOver, BackoffCancelled, Panic, Cleanup, Recover, Signal, Goto
<1>11. 1 \in Run
  BY SubagentAssumption DEF Run
<1>12. \A u \in Task : /\ pc'[u][1] = "deps" => pc[u][1] = "deps"
                       /\ pc'[u][1] = "met" =>
                            \/ pc[u][1] = "met"
                            \/ pc[u][1] = "deps" /\ checkDependencies(u)
  BY <1>3, <1>10, <1>11
<1>q. QED
  BY <1>2, <1>6, <1>8, <1>9, <1>12, DependencyFrame

LEMMA DependencyStep ==
    ASSUME TypeOK, SignalInv, TokenInv, DependencyInv, [Next]_vars
    PROVE  DependencyInv'
<1>1. ASSUME NEW t \in Task, NEW seal \in BOOLEAN, StopTask(t, seal)
      PROVE  DependencyInv'
  <2> DEFINE stoppable ==
        {t} \cap {u \in Task : status[u] \in {"running", "needs_context", "pending"}}
  <2>1. StopUnderLock({t}, stoppable, seal) /\ stoppable \in SUBSET Task
    BY <1>1 DEF StopTask
  <2>2. \A u \in stoppable : ~Unspawned(u)
    BY DEF Unspawned
  <2> HIDE DEF stoppable
  <2>q. QED
    BY <2>1, <2>2, StopDependency
<1>2. CASE StopAll
  <2> DEFINE S == {u \in Task : handle[u] # 0 \/ status[u] \in {"needs_context", "pending"}}
  <2>1. StopUnderLock(S, S, FALSE) /\ S \in SUBSET Task
    BY <1>2 DEF StopAll
  <2>2. \A u \in S : ~Unspawned(u)
    BY DEF Unspawned
  <2> HIDE DEF S
  <2>q. QED
    BY <2>1, <2>2, StopDependency
<1>3. CASE UNCHANGED <<status, retries, pc, missed>> /\ halted \subseteq halted'
  <2>1. retries \in [Task -> Nat]
    BY DEF TypeOK, TaskType
  <2>2. \A d \in Task : Stopped(d) => Stopped(d)'
    BY <1>3 DEF Stopped
  <2>3. \A d \in Task : (Ended(d) => Ended(d)') /\ Idle(d)' = Idle(d)
    BY <1>3, <2>2 DEF Ended, Idle
  <2>4. \A d \in Task : (IsTerminal(status'[d]) /\ ~Idle(d)') => Stopped(d)' \/ retries'[d] > 0
    BY <1>3, <2>2, <2>3 DEF DependencyInv
  <2>q. QED
    BY <1>3, <2>3, <2>4, DependencyFrame
<1>4. ASSUME NEW t \in Task, StopCancel(t) \/ StopSeal(t) \/ CancelSession(t)
      PROVE  DependencyInv'
  BY <1>3, <1>4 DEF StopCancel, StopSeal, CancelSession, core, ghost
<1>5. ASSUME NEW w \in Wait, WaitLook(w) \/ WaitTimeout(w) \/ WaitStep(w)
      PROVE  DependencyInv'
  BY <1>3, <1>5 DEF WaitLook, WaitTimeout, WaitStep, WaitRegister, WaitWake, WaitFetch, WaitClaim,
                    WaitRelease, core, ghost
<1>6. CASE UNCHANGED vars
  BY <1>3, <1>6 DEF vars, core, ghost
<1>q. QED
  BY <1>1, <1>2, <1>4, <1>5, <1>6, SpawnDependency, ContinueDependency, GoroutineDependency DEF Next

\* A task leaves its dependencies behind in two ways.
LEMMA LeavesBehind ==
    ASSUME TypeOK, SignalInv, DependencyInv, [Next]_vars,
           NEW t \in Task, pc[t][1] \in {"none", "met"}, pc'[t][1] = "impl",
           NEW d \in DependsOn[t]
    PROVE  Ended(d) \/ <<t, d>> \in missed'
<1>1. pc \in [Task -> [Run -> Place]] /\ 1 \in Run
  BY SubagentAssumption DEF TypeOK, RunType, Run
<1>2. CASE pc[t][1] = "met"
  <2>1. Ended(d) \/ <<t, d>> \in missed
    BY <1>2 DEF DependencyInv
  <2>2. missed \subseteq missed'
    BY DEF Next, Spawn, Continue, NextRun, StopTask, StopAll, StopUnderLock, StopCancel, StopSeal,
           CancelSession, RunStep, DepsCancelled, DepsMet, Begin, Check, Finish, Callback, Decide,
           BackoffOver, BackoffCancelled, Panic, Cleanup, Recover, Signal, WaitLook, WaitTimeout,
           WaitStep, WaitRegister, WaitWake, WaitFetch, WaitClaim, WaitRelease, vars, ghost
  <2>q. QED
    BY <2>1, <2>2
<1>3. CASE pc[t][1] = "none"
  <2>1. ASSUME NEW u \in Task, Spawn(u)
        PROVE  Ended(d) \/ <<t, d>> \in missed'
    <3>1. u = t /\ checkDependencies(t)
      BY <1>1, <1>3, <2>1 DEF Spawn, Goto
    <3>2. status[d] = "absent" => <<t, d>> \in missed'
      BY <2>1, <3>1 DEF Spawn
    <3>q. QED
      BY <3>1, <3>2 DEF checkDependencies, Ended
  <2>2. ASSUME NEW u \in Task, Continue(u)
        PROVE  FALSE
    BY <1>3, <2>2, ContinueDependency
  <2>3. ASSUME NEW u \in Task, NEW r \in Run, RunStep(u, r)
        PROVE  FALSE
    BY <1>1, <1>3, <2>3
    DEF RunStep, DepsCancelled, DepsMet, Begin, Check, Finish, Callback, Decide,
        BackoffOver, BackoffCancelled, Panic, Cleanup, Recover, Signal, Goto
  <2>4. CASE UNCHANGED pc
    BY <1>3, <2>4
  <2>q. QED
    BY <2>1, <2>2, <2>3, <2>4
    DEF Next, StopTask, StopAll, StopUnderLock, StopCancel, StopSeal, CancelSession, WaitLook,
        WaitTimeout, WaitStep, WaitRegister, WaitWake, WaitFetch, WaitClaim, WaitRelease, vars, core
<1>q. QED
  BY <1>2, <1>3

LEMMA TokenHolds == Spec => []TokenInv
<1>1. Init => TokenInv
  BY TokenInit
<1>2. TypeOK /\ FreshInv /\ TokenInv /\ [Next]_vars => TokenInv'
  BY TokenStep
<1>q. QED
  BY <1>1, <1>2, TypeCorrect, ReadIsClaimed, PTL DEF Spec

(* A task leaves its dependencies behind only when each has ended, was stopped *)
(* or is being tried again, or was not there at the spawn: for any number of   *)
(* dependencies, any runs, retries and stops. The poll reads the dependencies  *)
(* under one lock and acts on what it read under the next.                     *)
THEOREM DependenciesFirst == Spec => StartsAfterDeps
<1>1. Init => DependencyInv
  BY DependencyInit
<1>2. TypeOK /\ SignalInv /\ TokenInv /\ DependencyInv /\ [Next]_vars => DependencyInv'
  BY DependencyStep
<1>3. TypeOK /\ SignalInv /\ DependencyInv /\ [Next]_vars
        => [\A t \in Task :
              (pc[t][1] \in {"none", "met"} /\ pc'[t][1] = "impl") =>
                \A d \in DependsOn[t] :
                  \/ IsTerminal(status[d]) \/ Stopped(d)
                  \/ <<t, d>> \in missed' \/ retries[d] > 0]_vars
  BY LeavesBehind DEF Ended
<1>q. QED
  BY <1>1, <1>2, <1>3, TypeCorrect, TokenHolds, SignalsHold, PTL DEF Spec, StartsAfterDeps
=============================================================================
