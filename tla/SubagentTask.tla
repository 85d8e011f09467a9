------------------------------ MODULE SubagentTask ------------------------------
(***************************************************************************)
(* Background subagent tasks (pkg/tools/subagent_manager.go,               *)
(* subagent_runner.go, wait_for_subagent.go and the injector in            *)
(* pkg/agent/subagent_helpers.go).                                         *)
(*                                                                         *)
(* A task is executed by a goroutine per run: the spawn starts run 1, and  *)
(* every ContinueTask of a task that asked for context starts another.     *)
(* The outcome of a run must reach the parent agent, either because a      *)
(* wait_for_subagent call returns it inside the parent's turn or because   *)
(* the completion callback injects it as a message that starts a new turn. *)
(*                                                                         *)
(* The status is guarded by sm.mu and the delivery bookkeeping by task.mu, *)
(* so every critical section below is a step of its own and anything may   *)
(* happen between two of them.                                             *)
(***************************************************************************)
EXTENDS Naturals, FiniteSets

CONSTANTS
  Task,           \* task identifiers handed out by claimTaskID
  Wait,           \* wait_for_subagent calls
  DependsOn,      \* SpawnOptions.Dependencies of each task
  MaxRuns,        \* bound: runs of one task, the first and its continuations
  MaxRetries,     \* SpawnOptions.MaxRetries
  MaxConcurrent   \* sm.maxConcurrent, 0 for no limit

ASSUME SubagentAssumption ==
  /\ IsFiniteSet(Wait)
  /\ DependsOn \in [Task -> SUBSET Task]
  /\ MaxRuns \in Nat \ {0}
  /\ MaxRetries \in Nat
  /\ MaxConcurrent \in Nat

VARIABLES
  status,     \* task.Status; "absent" before the task is in sm.tasks
  run,        \* the current run; it names the current doneCh as well
  result,     \* what task.Result holds
  retries,    \* task.RetryCount
  transient,  \* isTransientFailure(task.lastErr)
  handle,     \* the run whose cancel func is sm.cancels[task.ID], 0 for none
  ctx,        \* the runs whose context is cancelled
  done,       \* the runs whose doneCh is closed
  claimed,    \* task.resultClaimed
  waiters,    \* task.resultWaiters
  pc,         \* where the goroutine of each run stands
  call,       \* where each wait_for_subagent call stands
  target,     \* the task it waits for
  seen,       \* the snapshot it holds
  stopper,    \* a stop request in progress on each task
  halted,     \* ghost: the runs a stop request or a cancel acted on
  injected,   \* ghost: the results injected into the parent as messages
  read,       \* ghost: the results a wait returned to the parent
  told,       \* ghost: the runs whose subagent.result event was published
  refused,    \* ghost: the results the bus did not take from the injector
  crossed,    \* ghost: the tasks continued while something of an earlier run moved
  missed      \* ghost: the dependencies that were not there at a task's spawn

core  == <<status, run, result, retries, transient, handle, ctx, done, pc>>
deliv == <<claimed, waiters>>
waits == <<call, target, seen>>
ghost == <<injected, read, told, refused, crossed, missed>>
vars  == <<core, deliv, waits, stopper, halted, ghost>>
-----------------------------------------------------------------------------
Run == 1 .. MaxRuns

\* "completed" stands for completed and not_done, which the code treats alike.
Status == {"absent", "pending", "running", "completed", "needs_context", "failed", "cancelled"}

\* A final result is the outcome of a run that will not be retried; an interim
\* one is the failure of an attempt that will; the other two are placeholders.
Kind == {"none", "interim", "stopped", "panic", "final"}

Result   == [run : 0 .. MaxRuns, kind : Kind]
NoResult == [run |-> 0, kind |-> "none"]
Snapshot == [status : Status, run : 0 .. MaxRuns, result : Result]
NoSnapshot == [status |-> "absent", run |-> 0, result |-> NoResult]

Place == {"none", "deps", "met", "impl", "check", "loop", "callback", "decide",
          "backoff", "cleanup", "unwind", "recover", "signal", "exited"}

Stage == {"idle", "looked", "blocked", "fetch", "claim", "answer", "timeout", "over"}

StopRequest == [at : {"idle", "cancel", "seal", "over"}, run : 0 .. MaxRuns, seal : BOOLEAN]

\* SubagentTask.IsTerminal: the states a task does not leave.
IsTerminal(s) == s \in {"completed", "failed", "cancelled"}

\* isSubagentTerminal of the wait tool: paused counts as finished.
Settled(s) == IsTerminal(s) \/ s = "needs_context"

countRunning == Cardinality({t \in Task : status[t] = "running"})

\* Mutants of checkDependencies: a paused dependency counts, a failed one does not.
PausedCounts(t) == \A d \in DependsOn[t] : status[d] = "absent" \/ Settled(status[d])
OnlyCompleted(t) == \A d \in DependsOn[t] : status[d] \in {"absent", "completed"}

checkDependencies(t) == \A d \in DependsOn[t] : status[d] = "absent" \/ IsTerminal(status[d])

\* Another attempt follows a transient failure while the budget lasts.
RetryPending(t, s, tr) == s = "failed" /\ tr /\ retries[t] < MaxRetries

\* Delete the entry of sm.cancels and call it, whichever run put it there.
CancelHandle(t) ==
  /\ handle' = [handle EXCEPT ![t] = 0]
  /\ ctx' = [ctx EXCEPT ![t] = @ \cup ({handle[t]} \ {0})]

\* SignalDone closes the channel the task holds now.
SignalDone(t) == done' = [done EXCEPT ![t] = @ \cup {run[t]}]

Goto(t, r, place) == pc' = [pc EXCEPT ![t][r] = place]

Init ==
  /\ status = [t \in Task |-> "absent"]
  /\ run = [t \in Task |-> 0]
  /\ result = [t \in Task |-> NoResult]
  /\ retries = [t \in Task |-> 0]
  /\ transient = [t \in Task |-> FALSE]
  /\ handle = [t \in Task |-> 0]
  /\ ctx = [t \in Task |-> {}]
  /\ done = [t \in Task |-> {}]
  /\ claimed = [t \in Task |-> FALSE]
  /\ waiters = [t \in Task |-> 0]
  /\ pc = [t \in Task |-> [r \in Run |-> "none"]]
  /\ call = [w \in Wait |-> "idle"]
  /\ target \in [Wait -> Task]
  /\ seen = [w \in Wait |-> NoSnapshot]
  /\ stopper = [t \in Task |-> [at |-> "idle", run |-> 0, seal |-> FALSE]]
  /\ halted = {}
  /\ injected = {}
  /\ read = {}
  /\ told = {}
  /\ refused = {}
  /\ crossed = {}
  /\ missed = {}
-----------------------------------------------------------------------------
(* Spawning and continuing a task *)

\* SpawnWithOptions: over the limit it is refused and nothing changes; a
\* dependency that is not in sm.tasks counts as satisfied.
Spawn(t) ==
  /\ status[t] = "absent"
  /\ MaxConcurrent = 0 \/ countRunning < MaxConcurrent
  /\ status' = [status EXCEPT ![t] = IF checkDependencies(t) THEN "running" ELSE "pending"]
  /\ run' = [run EXCEPT ![t] = 1]
  /\ handle' = [handle EXCEPT ![t] = 1]
  /\ Goto(t, 1, IF checkDependencies(t) THEN "impl" ELSE "deps")
  /\ missed' = missed \cup ({t} \X {d \in DependsOn[t] : status[d] = "absent"})
  /\ UNCHANGED <<result, retries, transient, ctx, done, deliv, waits, stopper, halted,
                 injected, read, told, refused, crossed>>

\* Nothing of the task is in motion: no goroutine, no wait, no stop request.
Still(t) ==
  /\ \A r \in Run : pc[t][r] \in {"none", "exited"}
  /\ \A w \in Wait : target[w] = t => call[w] \in {"idle", "over"}
  /\ stopper[t].at \in {"idle", "over"}

\* What ContinueTask gives the next run: a context, a done channel and a
\* goroutine of its own; the limit is not consulted.
NextRun(t) ==
  /\ run[t] < MaxRuns
  /\ status' = [status EXCEPT ![t] = "running"]
  /\ transient' = [transient EXCEPT ![t] = FALSE]
  /\ run' = [run EXCEPT ![t] = @ + 1]
  /\ handle' = [handle EXCEPT ![t] = run[t] + 1]
  /\ Goto(t, run[t] + 1, "impl")
  /\ crossed' = IF Still(t) THEN crossed ELSE crossed \cup {t}
  /\ UNCHANGED <<result, retries, ctx, waits, stopper, halted, injected, read, told, refused, missed>>

\* The delivery bookkeeping is reset: the next result is injectable again.
ResetDelivery(t) ==
  /\ claimed' = [claimed EXCEPT ![t] = FALSE]
  /\ waiters' = [waiters EXCEPT ![t] = 0]

\* Mutants of Continue: any settled task may be continued; the claim of the
\* last run stays; the last run's closed channel does.
ContinueSettled(t) == Settled(status[t]) /\ NextRun(t) /\ ResetDelivery(t) /\ UNCHANGED done

ContinueClaimed(t) == status[t] = "needs_context" /\ NextRun(t) /\ UNCHANGED <<deliv, done>>

ContinueSignalled(t) ==
  /\ status[t] = "needs_context"
  /\ NextRun(t)
  /\ ResetDelivery(t)
  /\ done' = [done EXCEPT ![t] = IF run[t] \in @ THEN @ \cup {run[t] + 1} ELSE @]

\* ContinueTask
Continue(t) ==
  /\ status[t] = "needs_context"
  /\ NextRun(t)
  /\ ResetDelivery(t)
  /\ UNCHANGED done
-----------------------------------------------------------------------------
(* The goroutine of a run *)

\* The poll of a pending task finds its context cancelled.
DepsCancelled(t, r) ==
  /\ pc[t][r] = "deps"
  /\ r \in ctx[t]
  /\ IF status[t] = "pending"
       THEN /\ status' = [status EXCEPT ![t] = "cancelled"]
            /\ result' = [result EXCEPT ![t] = [run |-> r, kind |-> "stopped"]]
       ELSE UNCHANGED <<status, result>>
  /\ Goto(t, r, "signal")
  /\ UNCHANGED <<run, retries, transient, handle, ctx, done, deliv, waits, stopper, halted, ghost>>

\* The poll finds the dependencies met, and lets go of the lock. A select with
\* both the ticker and the cancellation ready may take either.
DepsMet(t, r) ==
  /\ pc[t][r] = "deps"
  /\ checkDependencies(t)
  /\ Goto(t, r, "met")
  /\ UNCHANGED <<status, run, result, retries, transient, handle, ctx, done,
                 deliv, waits, stopper, halted, ghost>>

\* It takes the lock again and marks the task running, whatever it is by now;
\* runTaskImpl begins by marking it running too.
Begin(t, r) ==
  /\ pc[t][r] \in {"met", "impl"}
  /\ status' = [status EXCEPT ![t] = "running"]
  /\ IF pc[t][r] = "met"
       THEN Goto(t, r, "impl") /\ UNCHANGED transient
       ELSE Goto(t, r, "check") /\ transient' = [transient EXCEPT ![t] = FALSE]
  /\ UNCHANGED <<run, result, retries, handle, ctx, done, deliv, waits, stopper, halted, ghost>>

\* runTaskImpl looks at its context before it starts the tool loop.
Check(t, r) ==
  /\ pc[t][r] = "check"
  /\ IF r \in ctx[t]
       THEN /\ status' = [status EXCEPT ![t] = "cancelled"]
            /\ result' = [result EXCEPT ![t] = [run |-> r, kind |-> "stopped"]]
            /\ Goto(t, r, "decide")
       ELSE Goto(t, r, "loop") /\ UNCHANGED <<status, result>>
  /\ UNCHANGED <<run, retries, transient, handle, ctx, done, deliv, waits, stopper, halted, ghost>>

\* Mutant of Finish: the end is signalled before the callback has run.
FinishSignals(t, r, s, tr) ==
  /\ pc[t][r] = "loop"
  /\ tr => s = "failed" /\ r \notin ctx[t]
  /\ status' = [status EXCEPT ![t] = s]
  /\ transient' = [transient EXCEPT ![t] = tr]
  /\ result' = [result EXCEPT ![t] =
                   [run |-> r, kind |-> IF RetryPending(t, s, tr) THEN "interim" ELSE "final"]]
  /\ Goto(t, r, IF RetryPending(t, s, tr) THEN "decide" ELSE "callback")
  /\ SignalDone(t)
  /\ UNCHANGED <<run, retries, handle, ctx, deliv, waits, stopper, halted, ghost>>

\* The end of the tool loop. Every error, a timeout and a cancellation
\* included, leaves the task failed; only an error of neither kind can be
\* transient. The cancel entry goes and the callback runs unless a retry will.
Finish(t, r, s, tr) ==
  /\ pc[t][r] = "loop"
  /\ tr => s = "failed" /\ r \notin ctx[t]
  /\ status' = [status EXCEPT ![t] = s]
  /\ transient' = [transient EXCEPT ![t] = tr]
  /\ IF RetryPending(t, s, tr)
       THEN /\ result' = [result EXCEPT ![t] = [run |-> r, kind |-> "interim"]]
            /\ Goto(t, r, "decide")
            /\ UNCHANGED <<handle, ctx>>
       ELSE /\ result' = [result EXCEPT ![t] = [run |-> r, kind |-> "final"]]
            /\ Goto(t, r, "callback")
            /\ CancelHandle(t)
  /\ UNCHANGED <<run, retries, done, deliv, waits, stopper, halted, ghost>>

\* PublishInbound: a bus that is closed, or whose buffer is full, does not take
\* the message, and the injector does not look at the answer.
PublishInbound(t, r) ==
  \/ injected' = injected \cup {<<t, r>>} /\ UNCHANGED refused
  \/ refused' = refused \cup {<<t, r>>} /\ UNCHANGED injected

\* Mutant of Callback: only a registered waiter holds the injection back.
CallbackUnlessWaited(t, r) ==
  /\ pc[t][r] = "callback"
  /\ told' = told \cup {<<t, r>>}
  /\ IF waiters[t] > 0
       THEN UNCHANGED <<claimed, injected, refused>>
       ELSE claimed' = [claimed EXCEPT ![t] = TRUE] /\ PublishInbound(t, r)
  /\ Goto(t, r, "decide")
  /\ UNCHANGED <<status, run, result, retries, transient, handle, ctx, done,
                 waiters, waits, stopper, halted, read, crossed, missed>>

\* publishSubagentAsyncResult: ClaimResultForInjection decides between the
\* message that resumes the parent and the event alone.
Callback(t, r) ==
  /\ pc[t][r] = "callback"
  /\ told' = told \cup {<<t, r>>}
  /\ IF claimed[t] \/ waiters[t] > 0
       THEN UNCHANGED <<claimed, injected, refused>>
       ELSE claimed' = [claimed EXCEPT ![t] = TRUE] /\ PublishInbound(t, r)
  /\ Goto(t, r, "decide")
  /\ UNCHANGED <<status, run, result, retries, transient, handle, ctx, done,
                 waiters, waits, stopper, halted, read, crossed, missed>>

\* runTask after an attempt: try again, or leave.
Decide(t, r) ==
  /\ pc[t][r] = "decide"
  /\ IF RetryPending(t, status[t], transient[t])
       THEN /\ retries' = [retries EXCEPT ![t] = @ + 1]
            /\ status' = [status EXCEPT ![t] = "running"]
            /\ transient' = [transient EXCEPT ![t] = FALSE]
            /\ Goto(t, r, "backoff")
       ELSE Goto(t, r, "cleanup") /\ UNCHANGED <<retries, status, transient>>
  /\ UNCHANGED <<run, result, handle, ctx, done, deliv, waits, stopper, halted, ghost>>

BackoffOver(t, r) ==
  /\ pc[t][r] = "backoff"
  /\ Goto(t, r, "impl")
  /\ UNCHANGED <<status, run, result, retries, transient, handle, ctx, done,
                 deliv, waits, stopper, halted, ghost>>

\* The context ends during the backoff: no callback runs.
BackoffCancelled(t, r) ==
  /\ pc[t][r] = "backoff"
  /\ r \in ctx[t]
  /\ status' = [status EXCEPT ![t] = "cancelled"]
  /\ result' = [result EXCEPT ![t] = [run |-> r, kind |-> "stopped"]]
  /\ SignalDone(t)
  /\ Goto(t, r, "cleanup")
  /\ UNCHANGED <<run, retries, transient, handle, ctx, deliv, waits, stopper, halted, ghost>>

\* A panic of the tool loop unwinds runTask and is recovered by safeGoroutine.
Panic(t, r) ==
  /\ pc[t][r] = "loop"
  /\ Goto(t, r, "unwind")
  /\ UNCHANGED <<status, run, result, retries, transient, handle, ctx, done,
                 deliv, waits, stopper, halted, ghost>>

\* The deferred cleanup of runTask removes whatever entry the task has.
Cleanup(t, r) ==
  /\ pc[t][r] \in {"cleanup", "unwind"}
  /\ CancelHandle(t)
  /\ Goto(t, r, IF pc[t][r] = "unwind" THEN "recover" ELSE "signal")
  /\ UNCHANGED <<status, run, result, retries, transient, done, deliv, waits, stopper, halted, ghost>>

\* Mutant of Recover: the panic is recorded and the goroutine is gone.
RecoverSilent(t, r) ==
  /\ pc[t][r] = "recover"
  /\ status' = [status EXCEPT ![t] = "failed"]
  /\ result' = [result EXCEPT ![t] = [run |-> r, kind |-> "panic"]]
  /\ Goto(t, r, "exited")
  /\ UNCHANGED <<run, retries, transient, handle, ctx, done, deliv, waits, stopper, halted, ghost>>

\* The recover of safeGoroutine, whatever a stop request wrote meanwhile.
Recover(t, r) ==
  /\ pc[t][r] = "recover"
  /\ status' = [status EXCEPT ![t] = "failed"]
  /\ result' = [result EXCEPT ![t] = [run |-> r, kind |-> "panic"]]
  /\ Goto(t, r, "signal")
  /\ UNCHANGED <<run, retries, transient, handle, ctx, done, deliv, waits, stopper, halted, ghost>>

Signal(t, r) ==
  /\ pc[t][r] = "signal"
  /\ SignalDone(t)
  /\ Goto(t, r, "exited")
  /\ UNCHANGED <<status, run, result, retries, transient, handle, ctx,
                 deliv, waits, stopper, halted, ghost>>

Outcome == {"completed", "needs_context", "failed"}

RunStep(t, r) ==
  \/ DepsCancelled(t, r)
  \/ DepsMet(t, r)
  \/ Begin(t, r)
  \/ Check(t, r)
  \/ \E s \in Outcome, tr \in BOOLEAN : Finish(t, r, s, tr)
  \/ Callback(t, r)
  \/ Decide(t, r)
  \/ BackoffOver(t, r)
  \/ BackoffCancelled(t, r)
  \/ Panic(t, r)
  \/ Cleanup(t, r)
  \/ Recover(t, r)
  \/ Signal(t, r)
-----------------------------------------------------------------------------
(* A wait_for_subagent call *)

Look(t) == [status |-> status[t], run |-> run[t], result |-> result[t]]

Enter(w, place) == call' = [call EXCEPT ![w] = place]

\* GetTask, before anything is registered.
WaitLook(w) ==
  /\ call[w] = "idle"
  /\ status[target[w]] # "absent"
  /\ seen' = [seen EXCEPT ![w] = Look(target[w])]
  /\ Enter(w, "looked")
  /\ UNCHANGED <<core, deliv, target, stopper, halted, ghost>>

\* AddResultWaiter; a snapshot that is already settled is the answer.
WaitRegister(w) ==
  /\ call[w] = "looked"
  /\ waiters' = [waiters EXCEPT ![target[w]] = @ + 1]
  /\ Enter(w, IF Settled(seen[w].status) THEN "claim" ELSE "blocked")
  /\ UNCHANGED <<core, claimed, target, seen, stopper, halted, ghost>>

\* The done channel of the snapshot is closed.
WaitWake(w) ==
  /\ call[w] = "blocked"
  /\ seen[w].run \in done[target[w]]
  /\ Enter(w, "fetch")
  /\ UNCHANGED <<core, deliv, target, seen, stopper, halted, ghost>>

WaitFetch(w) ==
  /\ call[w] = "fetch"
  /\ seen' = [seen EXCEPT ![w] = Look(target[w])]
  /\ Enter(w, "claim")
  /\ UNCHANGED <<core, deliv, target, stopper, halted, ghost>>

\* Mutant of WaitClaim: the answer is returned without a claim.
WaitNoClaim(w) ==
  /\ call[w] = "claim"
  /\ Enter(w, "answer")
  /\ UNCHANGED <<core, deliv, target, seen, stopper, halted, ghost>>

\* ClaimResult: unconditional, its return value is ignored.
WaitClaim(w) ==
  /\ call[w] = "claim"
  /\ claimed' = [claimed EXCEPT ![target[w]] = TRUE]
  /\ Enter(w, "answer")
  /\ UNCHANGED <<core, waiters, target, seen, stopper, halted, ghost>>

\* The timer fires or the calling turn is interrupted.
WaitTimeout(w) ==
  /\ call[w] = "blocked"
  /\ Enter(w, "timeout")
  /\ UNCHANGED <<core, deliv, target, seen, stopper, halted, ghost>>

\* Mutant of Less1: the count is not clamped at zero.
Less1Unclamped(n) == n - 1

Less1(n) == IF n > 0 THEN n - 1 ELSE 0

\* Mutant of WaitRelease: the registration is dropped without a last look.
WaitUnregister(w) ==
  LET t == target[w]
      answers == IF call[w] = "answer" THEN {<<t, seen[w].result>>} ELSE {}
  IN  /\ call[w] \in {"answer", "timeout"}
      /\ waiters' = [waiters EXCEPT ![t] = Less1(@)]
      /\ read' = read \cup answers
      /\ Enter(w, "over")
      /\ UNCHANGED <<core, claimed, target, seen, stopper, halted,
                     injected, told, refused, crossed, missed>>

\* ReleaseResultWaiterAndClaim: the last waiter of a settled and unclaimed task
\* claims it; the answer replaces an error, never another answer.
WaitRelease(w) ==
  LET t == target[w]
      raced == Less1(waiters[t]) = 0 /\ ~claimed[t] /\ Settled(status[t])
      answers == IF call[w] = "answer" THEN {<<t, seen[w].result>>}
                 ELSE IF raced THEN {<<t, result[t]>>} ELSE {}
  IN  /\ call[w] \in {"answer", "timeout"}
      /\ waiters' = [waiters EXCEPT ![t] = Less1(@)]
      /\ claimed' = [claimed EXCEPT ![t] = @ \/ raced]
      /\ read' = read \cup answers
      /\ Enter(w, "over")
      /\ UNCHANGED <<core, target, seen, stopper, halted,
                     injected, told, refused, crossed, missed>>

WaitStep(w) ==
  WaitRegister(w) \/ WaitWake(w) \/ WaitFetch(w) \/ WaitClaim(w) \/ WaitRelease(w)
-----------------------------------------------------------------------------
(* Stopping *)

\* What StopTask and StopAll do to a task under sm.mu: the entry leaves
\* sm.cancels, and a task they may stop is cancelled and signalled.
StopUnderLock(S, canStop, seal) ==
  /\ status' = [t \in Task |-> IF t \in canStop THEN "cancelled" ELSE status[t]]
  /\ result' = [t \in Task |-> IF t \in canStop THEN [run |-> run[t], kind |-> "stopped"]
                               ELSE result[t]]
  /\ done' = [t \in Task |-> IF t \in canStop THEN done[t] \cup {run[t]} ELSE done[t]]
  /\ handle' = [t \in Task |-> IF t \in S THEN 0 ELSE handle[t]]
  /\ halted' = halted \cup {<<t, run[t]>> : t \in canStop \cup {u \in S : handle[u] # 0}}
  /\ stopper' = [t \in Task |-> IF t \in S THEN [at |-> "cancel", run |-> handle[t], seal |-> seal]
                                ELSE stopper[t]]
  /\ UNCHANGED <<run, retries, transient, ctx, pc, deliv, waits, ghost>>

\* StopTask, alone or from stopSessionSubagents, which seals the result after.
StopTask(t, seal) ==
  /\ stopper[t].at = "idle"
  /\ status[t] # "absent"
  /\ StopUnderLock({t}, {t} \cap {u \in Task : status[u] \in {"running", "needs_context", "pending"}}, seal)

\* StopAll: every task with a cancel entry, and the ones paused or pending.
StopAll ==
  LET S == {t \in Task : handle[t] # 0 \/ status[t] \in {"needs_context", "pending"}}
  IN  /\ \A t \in Task : stopper[t].at = "idle"
      /\ S # {}
      /\ StopUnderLock(S, S, FALSE)

\* cancel() runs after the lock is released.
StopCancel(t) ==
  /\ stopper[t].at = "cancel"
  /\ ctx' = [ctx EXCEPT ![t] = @ \cup ({stopper[t].run} \ {0})]
  /\ stopper' = [stopper EXCEPT ![t].at = IF stopper[t].seal THEN "seal" ELSE "over"]
  /\ UNCHANGED <<status, run, result, retries, transient, handle, done, pc,
                 deliv, waits, halted, ghost>>

\* SealResult, whoever waits.
StopSeal(t) ==
  /\ stopper[t].at = "seal"
  /\ claimed' = [claimed EXCEPT ![t] = TRUE]
  /\ stopper' = [stopper EXCEPT ![t].at = "over"]
  /\ UNCHANGED <<core, waiters, waits, halted, ghost>>

\* The cancel function that runTaskImpl registers for the task's own session,
\* while it runs: it calls the entry of sm.cancels and leaves it there.
CancelSession(t) ==
  /\ \E r \in Run : pc[t][r] \in {"loop", "callback"}
  /\ handle[t] # 0
  /\ ctx' = [ctx EXCEPT ![t] = @ \cup {handle[t]}]
  /\ halted' = halted \cup {<<t, handle[t]>>}
  /\ UNCHANGED <<status, run, result, retries, transient, handle, done, pc,
                 deliv, waits, stopper, ghost>>
-----------------------------------------------------------------------------
\* Every run has ended, every call has answered or was never made, and no stop
\* request is under way: nothing is left to do.
Quiet ==
  /\ \A t \in Task : /\ \A r \in Run : pc[t][r] \in {"none", "exited"}
                     /\ stopper[t].at \in {"idle", "over"}
  /\ \A w \in Wait : call[w] \in {"idle", "over"}

Next ==
  \/ \E t \in Task : \/ Spawn(t)
                     \/ Continue(t)
                     \/ \E seal \in BOOLEAN : StopTask(t, seal)
                     \/ StopCancel(t)
                     \/ StopSeal(t)
                     \/ CancelSession(t)
                     \/ \E r \in Run : RunStep(t, r)
  \/ StopAll
  \/ \E w \in Wait : WaitLook(w) \/ WaitTimeout(w) \/ WaitStep(w)
  \/ Quiet /\ UNCHANGED vars

Spec == Init /\ [][Next]_vars

\* Goroutines run; the tool loop ends because its iterations and its context
\* are bounded. No one is obliged to spawn, continue, wait or stop, and no
\* waiter relies on its own timer.
Fairness ==
  /\ \A t \in Task : \A r \in Run : WF_vars(RunStep(t, r))
  /\ \A t \in Task : WF_vars(StopCancel(t)) /\ WF_vars(StopSeal(t))
  /\ \A w \in Wait : WF_vars(WaitStep(w))

FairSpec == Spec /\ Fairness
-----------------------------------------------------------------------------
TaskType ==
  /\ status \in [Task -> Status]
  /\ run \in [Task -> 0 .. MaxRuns]
  /\ result \in [Task -> Result]
  /\ retries \in [Task -> Nat]
  /\ transient \in [Task -> BOOLEAN]

RunType ==
  /\ handle \in [Task -> 0 .. MaxRuns]
  /\ ctx \in [Task -> SUBSET Run]
  /\ done \in [Task -> SUBSET (0 .. MaxRuns)]
  /\ pc \in [Task -> [Run -> Place]]

WaitType ==
  /\ claimed \in [Task -> BOOLEAN]
  /\ waiters \in [Task -> Nat]
  /\ call \in [Wait -> Stage]
  /\ target \in [Wait -> Task]
  /\ seen \in [Wait -> Snapshot]

StopType == stopper \in [Task -> StopRequest]

GhostType ==
  /\ halted \subseteq (Task \X (0 .. MaxRuns))
  /\ injected \subseteq (Task \X Run)
  /\ read \subseteq (Task \X Result)
  /\ told \subseteq (Task \X Run)
  /\ refused \subseteq (Task \X Run)
  /\ crossed \subseteq Task
  /\ missed \subseteq (Task \X Task)

TypeOK == TaskType /\ RunType /\ WaitType /\ StopType /\ GhostType

\* What a parent gets of a run that ended by itself.
FinalOf(t, r) == [run |-> r, kind |-> "final"]

Given(t, r) == <<t, r>> \in injected \/ <<t, FinalOf(t, r)>> \in read

Delivered(t) ==
  (Still(t) /\ result[t].kind = "final" /\ <<t, run[t]>> \notin halted /\ ~stopper[t].seal)
    => Given(t, run[t])

(* Once a task is still, the outcome of its last run has reached the parent,   *)
(* by a wait or by an injected message, unless a stop request took it: the     *)
(* promise of the claim between the injector and ReleaseResultWaiterAndClaim.  *)
(* Three ways in which the code does lose one are excepted by name: the bus    *)
(* did not take the message of the injector, which does not look; the task was *)
(* continued while a goroutine or a wait of an earlier run was still moving;   *)
(* it was retried (NothingLostAnyway).                                         *)
NothingLost ==
  \A t \in Task :
    (retries[t] = 0 /\ t \notin crossed /\ <<t, run[t]>> \notin refused) => Delivered(t)

(* The injector never claims, to start a turn with it, a result that a wait    *)
(* has already returned to the parent, for the current run of the task         *)
(* (ClaimResult and ClaimResultForInjection).                                  *)
InjectFresh ==
  [][\A t \in Task :
       (<<t, run[t]>> \in injected' /\ <<t, run[t]>> \notin injected)
         => <<t, FinalOf(t, run[t])>> \notin read]_vars

(* Why it holds: the final result of the current run is in a parent's hands,   *)
(* or in those of a wait about to answer, only under a claim, and no result    *)
(* bears the number of a run that has not begun, for which ContinueTask resets *)
(* the claim.                                                                  *)
FreshInv ==
  /\ \A t \in Task : status[t] = "absent" => run[t] = 0
  /\ \A t \in Task : result[t].run <= run[t]
  /\ \A t \in Task : \A r \in Run : pc[t][r] # "none" => r <= run[t]
  /\ \A w \in Wait : seen[w].result.run <= run[target[w]]
  /\ \A t \in Task : \A x \in Result : <<t, x>> \in read => x.run <= run[t]
  /\ \A t \in Task : <<t, FinalOf(t, run[t])>> \in read => claimed[t]
  /\ \A w \in Wait :
       (call[w] = "answer" /\ seen[w].result = FinalOf(target[w], run[target[w]]))
         => claimed[target[w]]

(* After /stop has sealed a task, its completion callback injects nothing.     *)
SealedSilent ==
  [][\A t \in Task : (stopper[t].at = "over" /\ stopper[t].seal)
       => \A r \in Run : <<t, r>> \in injected' => <<t, r>> \in injected]_vars

(* A run that has not ended loses its context only to a stop request or to a   *)
(* cancel of its session: the entry of sm.cancels belongs to the current run.  *)
(* Not so for a task continued while an earlier run was still moving.          *)
OnlyStopCancels ==
  \A t \in Task \ crossed : \A r \in ctx[t] :
    pc[t][r] \in {"deps", "met", "impl", "check", "loop", "backoff"} => <<t, r>> \in halted

(* A done channel is closed by the end of the run it belongs to, or by a stop: *)
(* a continued run has a completion signal of its own. The exception is a task *)
(* continued while the goroutine of an earlier run, or a wait for it, was      *)
(* still moving: its SignalDone closes whatever channel the task holds then    *)
(* (see EveryRunItsSignal).                                                    *)
FreshSignal ==
  \A t \in Task \ crossed : \A r \in done[t] : pc[t][r] = "exited" \/ <<t, r>> \in halted

(* Two goroutines never drive the tool loop, and so the session, of one task   *)
(* at the same time: task.Status is the only token between them.               *)
OneLoop ==
  \A t \in Task : \A r, q \in Run : (pc[t][r] = "loop" /\ pc[t][q] = "loop") => r = q

(* A task that has ended by itself stays ended, across the goroutines of all   *)
(* its runs: only a retry of a transient failure reopens it, or the goroutine  *)
(* of a run that was stopped (see TerminalIsFinal).                            *)
EndStays ==
  [][\A t \in Task : (IsTerminal(status[t]) /\ status'[t] # status[t]) =>
       (status[t] = "failed" /\ transient[t]) \/ <<t, run[t]>> \in halted]_vars

(* A call that waits for a run that has started is answered by the run's end,  *)
(* without its own timer: safeGoroutine "preventing hung waiters". The call is *)
(* left to its timer if the task is continued across it, which replaces the    *)
(* channel the call is blocked on.                                             *)
NoHungWaiter ==
  \A w \in Wait :
    (call[w] = "blocked" /\ pc[target[w]][1] \notin {"none", "deps"})
      ~> (call[w] = "over" \/ target[w] \in crossed)

(* A stop request or a cancel acted on one of its runs.                        *)
Stopped(d) == \E r \in Run : <<d, r>> \in halted

(* A task leaves its dependencies behind only when each of them has ended, or  *)
(* was stopped: nothing it was to build on is still to come (checkDependencies *)
(* and the two critical sections of the poll). Two exceptions are the code's:  *)
(* a dependency that is not there counts as satisfied, and a failed attempt    *)
(* that is about to be retried counts as an end.                               *)
StartsAfterDeps ==
  [][\A t \in Task :
       (pc[t][1] \in {"none", "met"} /\ pc'[t][1] = "impl") =>
         \A d \in DependsOn[t] :
           \/ IsTerminal(status[d]) \/ Stopped(d)
           \/ <<t, d>> \in missed' \/ retries[d] > 0]_vars

(* A task whose dependencies have all ended does not stay pending, whichever   *)
(* way they ended.                                                             *)
PendingLeaves ==
  \A t \in Task :
    (status[t] = "pending" /\ \A d \in DependsOn[t] : pc[d][1] = "exited" /\ IsTerminal(status[d]))
      ~> status[t] # "pending"

(* What the comments say and the code does not do *)

(* ContinueTask: "Each (re)execution gets a fresh completion signal".          *)
EveryRunItsSignal ==
  \A t \in Task : \A r \in done[t] : pc[t][r] = "exited" \/ <<t, r>> \in halted

(* The subagent.result event: "resumed" tells the client that a turn is owed.  *)
ResumedIsOwed == refused = {}

(* IsTerminal: "a state where it will not transition again".                   *)
TerminalIsFinal ==
  [][\A t \in Task : IsTerminal(status[t]) => status'[t] = status[t]]_vars

(* runSubagentTask: "only the final attempt may deliver", so a claim never     *)
(* suppresses a successful retry.                                              *)
NothingLostAnyway == \A t \in Task : Delivered(t)

(* stopSessionSubagents: a task that /stop cancelled never resumes the parent. *)
StoppedNeverResumes ==
  [][\A t \in Task : \A r \in Run :
       (<<t, r>> \in halted /\ stopper[t].seal /\ <<t, r>> \in injected') => <<t, r>> \in injected]_vars

(* The subagent.result event reaches the clients for every run that ended.     *)
EveryRunTold ==
  \A t \in Task : \A r \in Run : pc[t][r] = "exited" => <<t, r>> \in told

(* SetMaxConcurrent: never more running tasks than the limit.                  *)
ConcurrencyLimit == MaxConcurrent = 0 \/ countRunning <= MaxConcurrent
=============================================================================
