-------------------------------- MODULE Cron --------------------------------
(***************************************************************************)
(* The cron service: jobs in memory (cs.store) over their rows in SQLite.  *)
(* A tick each second collects the due jobs, takes their next run away,    *)
(* saves, and launches a goroutine per job, which marks itself executing,  *)
(* copies the job, calls the handler and settles.  Meanwhile tools and the *)
(* web API add, remove, enable, run and edit jobs, `lele cron` does so     *)
(* from another process, saves fail part way, and the process ends.        *)
(*                                                                         *)
(* A job is recurring (every, cron) or one-shot (at, deleted after its     *)
(* run); its schedule is valid and does not change.  Of the clock it only  *)
(* matters which next runs are due and which one-shots lie ahead.          *)
(***************************************************************************)
EXTENDS Naturals, FiniteSets

CONSTANTS
    Job,         \* job ids, each generated once
    OneShot,     \* those with an "at" schedule
    MaxSpawned,  \* bound: goroutines of one job at a time
    MaxOps,      \* bound: calls of the API and of the command line
    MaxFaults,   \* bound: failing loads and saves
    MaxBoots,    \* bound: processes
    Excused      \* hazards under which the properties claim nothing

\* staleEdit: UpdateJob undid what had happened to the job since its copy was
\* taken; unscheduled: a job was enabled without a next run, by UpdateJob, which
\* computes none, or by EnableJob, a one-shot it was late for; foreign: `lele cron`
\* saved what it had read before, or beside a running service; emptied: the
\* service goes on without the jobs it could not load; overdue: UpdateJob enabled
\* a one-shot whose time had come while it was off, maybe given before that.
Hazard == {"staleEdit", "unscheduled", "foreign", "emptied", "overdue"}

ASSUME CronAssumption ==
    /\ Job # {} /\ OneShot \subseteq Job
    /\ MaxSpawned \in Nat \ {0}
    /\ MaxOps \in Nat /\ MaxFaults \in Nat /\ MaxBoots \in Nat
    /\ Excused \subseteq Hazard

VARIABLES
    stage,      \* the service: running is TRUE in "up" only
    mem,        \* cs.store
    disk,       \* cron_jobs
    ahead,      \* one-shots whose AtMS is yet to come
    executing,  \* cs.executing
    run,        \* by job: RunJobNow (0) and the goroutines of the ticks
    edit,       \* an UpdateJob under way, with its copy of the job
    cli,        \* a `lele cron` process, with the jobs it loaded
    ops, faults, boots,
    fate,       \* ghost: what the clients of a job were told of it
    fired,      \* ghost: one-shots whose handler a goroutine of a tick called
    hurt        \* ghost: the hazards that struck

vars == <<stage, mem, disk, ahead, executing, run, edit, cli, ops, faults, boots, fate, fired,
          hurt>>

Timer  == 1 .. MaxSpawned
Gone   == [there |-> FALSE, on |-> FALSE, next |-> "none"]
Record == [there : {TRUE}, on : BOOLEAN, next : {"none", "later", "due"}] \cup {Gone}
NoEdit == [busy |-> FALSE, job |-> CHOOSE j \in Job : TRUE, read |-> Gone]
NoCli  == [busy |-> FALSE, jobs |-> [j \in Job |-> Gone], rows |-> [j \in Job |-> Gone]]

TypeOK ==
    /\ stage \in {"down", "idle", "up", "draining", "drained", "expired"}
    /\ mem \in [Job -> Record] /\ disk \in [Job -> Record]
    /\ ahead \subseteq OneShot
    /\ executing \subseteq Job
    /\ run \in [Job -> [0 .. MaxSpawned -> {"none", "spawned", "marked", "found", "called", "settled"}]]
    /\ \A j \in Job : run[j][0] # "spawned"
    /\ edit \in [busy : BOOLEAN, job : Job, read : Record] /\ (edit.busy => edit.read.there)
    /\ cli \in [busy : BOOLEAN, jobs : [Job -> Record], rows : [Job -> Record]]
    /\ ops \in 0 .. MaxOps /\ faults \in 0 .. MaxFaults /\ boots \in 0 .. MaxBoots
    /\ fate \in [Job -> {"unused", "failed", "kept", "done", "removed"}]
    /\ \A j \in Job : fate[j] = "done" => j \in OneShot
    /\ fired \subseteq OneShot /\ hurt \subseteq Hazard

Init ==
    /\ stage = "down"
    /\ mem = [j \in Job |-> Gone] /\ disk = [j \in Job |-> Gone]
    /\ ahead = OneShot
    /\ executing = {}
    /\ run = [j \in Job |-> [k \in 0 .. MaxSpawned |-> "none"]]
    /\ edit = NoEdit /\ cli = NoCli
    /\ ops = 0 /\ faults = 0 /\ boots = 0
    /\ fate = [j \in Job |-> "unused"]
    /\ fired = {} /\ hurt = {}

Serving    == stage # "down"
There(m)   == {j \in Job : m[j].there}
InFlight(j) == \E k \in Timer : run[j][k] \in {"spawned", "marked", "found", "called"}
Idle(j)    == {k \in Timer : run[j][k] = "none"}
Busy       == {"marked", "found", "called", "settled"}

-----------------------------------------------------------------------------
(* Schedules and the store *)

ComputeNextRun(j) == IF j \in OneShot /\ j \notin ahead THEN "none" ELSE "later"

\* A likely bug: a one-shot the process was late for is due at once.
RecomputeLate(m) ==
    [j \in Job |-> IF m[j].on THEN [m[j] EXCEPT !.next = IF ComputeNextRun(j) = "none"
                                                          THEN "due" ELSE "later"]
                   ELSE m[j]]

RecomputeNextRuns(m) ==
    [j \in Job |-> IF m[j].on THEN [m[j] EXCEPT !.next = ComputeNextRun(j)] ELSE m[j]]

\* A likely bug: the stale rows are swept before the upserts, all of them.
SweepFirst(m) ==
    {[j \in Job |-> IF j \in ups THEN m[j] ELSE Gone] : ups \in SUBSET There(m)}

\* What a save that fails part way, or dies with the process, leaves: some of
\* the upserts, or all of them and some of the stale rows.
Torn(m) ==
    {[j \in Job |-> IF j \in ups THEN m[j] ELSE disk[j]] : ups \in SUBSET There(m)}
        \cup {[j \in Job |-> IF j \in There(m) THEN m[j] ELSE IF j \in swept THEN Gone ELSE disk[j]] :
                swept \in SUBSET (There(disk) \ There(m))}

\* saveStoreUnsafe of the jobs m.
SaveOK(m)   == disk' = m /\ UNCHANGED faults
SaveFails(m) ==
    /\ faults < MaxFaults
    /\ faults' = faults + 1
    /\ disk' \in Torn(m)
Save(m) == SaveOK(m) \/ SaveFails(m)

\* Whatever was to come is due; time passes for every copy.
Aged(rec)  == IF rec.next = "later" THEN [rec EXCEPT !.next = "due"] ELSE rec
Elapse(j) ==
    /\ \/ j \in ahead /\ fate[j] # "unused"
       \/ mem[j].next = "later"
    /\ ahead' = ahead \ {j}
    /\ mem' = [mem EXCEPT ![j] = Aged(@)]
    /\ disk' = [disk EXCEPT ![j] = Aged(@)]
    /\ edit' = IF edit.job = j THEN [edit EXCEPT !.read = Aged(@)] ELSE edit
    /\ cli' = [cli EXCEPT !.jobs[j] = Aged(@), !.rows[j] = Aged(@)]
    /\ UNCHANGED <<stage, executing, run, ops, faults, boots, fate, fired, hurt>>

-----------------------------------------------------------------------------
(* Start, Stop, and the end of the process *)

\* Start fails when the load or the save does; the gateway goes on without it.
Start ==
    /\ stage = "down" /\ boots < MaxBoots
    /\ boots' = boots + 1
    /\ \/ /\ mem' = RecomputeNextRuns(disk)
          /\ \/ SaveOK(mem') /\ stage' = "up"
             \/ SaveFails(mem') /\ stage' = "idle"
          /\ UNCHANGED hurt
       \/ /\ faults < MaxFaults /\ faults' = faults + 1
          /\ stage' = "idle"
          /\ hurt' = IF There(disk) # {} THEN hurt \cup {"emptied"} ELSE hurt
          /\ UNCHANGED <<mem, disk>>
    /\ UNCHANGED <<ahead, executing, run, edit, cli, ops, fate, fired>>

StopBegin ==
    /\ stage = "up"
    /\ stage' = "draining"
    /\ UNCHANGED <<mem, disk, ahead, executing, run, edit, cli, ops, faults, boots, fate, fired,
                   hurt>>

StopDrained ==
    /\ stage = "draining"
    /\ \A j \in Job : \A k \in Timer : run[j][k] \notin Busy
    /\ stage' = "drained"
    /\ UNCHANGED <<mem, disk, ahead, executing, run, edit, cli, ops, faults, boots, fate, fired,
                   hurt>>

\* The grace period of ten seconds.
StopExpired ==
    /\ stage = "draining"
    /\ stage' = "expired"
    /\ UNCHANGED <<mem, disk, ahead, executing, run, edit, cli, ops, faults, boots, fate, fired,
                   hurt>>

\* An exit, whatever the stage, or a crash.  Removed jobs whose row outlived a
\* failed save are back.
Exit ==
    /\ Serving
    /\ stage' = "down"
    /\ mem' = [j \in Job |-> Gone]
    /\ executing' = {}
    /\ run' = [j \in Job |-> [k \in 0 .. MaxSpawned |-> "none"]]
    /\ edit' = NoEdit
    /\ fate' = [j \in Job |-> IF fate[j] = "removed" /\ disk[j].there THEN "kept"
                              ELSE fate[j]]
    /\ UNCHANGED <<disk, ahead, cli, ops, faults, boots, fired, hurt>>

-----------------------------------------------------------------------------
(* Ticks and the goroutines they launch *)

Due == {j \in Job : mem[j].on /\ mem[j].next = "due" /\ j \notin executing}

Collected(m, due) ==
    [j \in Job |-> IF j \in due THEN [m[j] EXCEPT !.next = "none"] ELSE m[j]]

Tick ==
    /\ stage = "up"
    /\ \A j \in Due : Idle(j) # {}
    /\ mem' = Collected(mem, Due)
    /\ Save(mem')
    /\ run' = [j \in Job |->
                 IF j \in Due
                 THEN [run[j] EXCEPT ![CHOOSE k \in Idle(j) : \A l \in Idle(j) : k <= l] = "spawned"]
                 ELSE run[j]]
    /\ UNCHANGED <<stage, ahead, executing, edit, cli, ops, boots, fate, fired, hurt>>

\* executeJobByID: jobWg.Add(1), executing.Store.
Enter(j, k) ==
    /\ run[j][k] = "spawned"
    /\ run' = [run EXCEPT ![j][k] = "marked"]
    /\ executing' = executing \cup {j}
    /\ UNCHANGED <<stage, mem, disk, ahead, edit, cli, ops, faults, boots, fate, fired, hurt>>

\* A likely bug: the job is taken to be there since the tick collected it.
FoundAnyway(j) == TRUE

\* The job is looked up, again after each stretch without the lock.
Found(j) == mem[j].there

\* Either kind of run takes a copy of the job, if there is one, and lets the
\* lock go.
Lookup(j, k) ==
    /\ run[j][k] = "marked"
    /\ run' = [run EXCEPT ![j][k] = IF Found(j) THEN "found" ELSE "settled"]
    /\ UNCHANGED <<stage, mem, disk, ahead, executing, edit, cli, ops, faults, boots, fate, fired,
                   hurt>>

\* The handler is called with the copy, whatever has become of the job.
Call(j, k) ==
    /\ run[j][k] = "found"
    /\ run' = [run EXCEPT ![j][k] = "called"]
    /\ fired' = IF k \in Timer /\ j \in OneShot THEN fired \cup {j} ELSE fired
    /\ UNCHANGED <<stage, mem, disk, ahead, executing, edit, cli, ops, faults, boots, fate, hurt>>

Settled(j) ==
    IF j \in OneShot THEN [mem EXCEPT ![j] = Gone]
    ELSE [mem EXCEPT ![j].next = ComputeNextRun(j)]

\* The handler has returned, failed or panicked: the job moves on alike.
Settle(j, k) ==
    /\ k \in Timer /\ run[j][k] = "called"
    /\ run' = [run EXCEPT ![j][k] = "settled"]
    /\ IF Found(j)
       THEN /\ mem' = Settled(j)
            /\ Save(mem')
            /\ fate' = IF j \in OneShot /\ fate[j] # "removed" THEN [fate EXCEPT ![j] = "done"] ELSE fate
       ELSE UNCHANGED <<mem, disk, faults, fate>>
    /\ UNCHANGED <<stage, ahead, executing, edit, cli, ops, boots, fired, hurt>>

\* A likely bug: the mark of a finished run stays.
ReleasedNot(j) == executing

Released(j) == executing \ {j}

\* The deferred executing.Delete and, of a tick's goroutine, jobWg.Done.
Leave(j, k) ==
    /\ run[j][k] = "settled"
    /\ run' = [run EXCEPT ![j][k] = "none"]
    /\ executing' = Released(j)
    /\ UNCHANGED <<stage, mem, disk, ahead, edit, cli, ops, faults, boots, fate, fired, hurt>>

-----------------------------------------------------------------------------
(* The tools and the web API *)

Calling == Serving /\ ops < MaxOps /\ ops' = ops + 1

\* A job whose save failed is in memory all the same.
AddJob(j) ==
    /\ Calling
    /\ fate[j] = "unused"
    /\ mem' = [mem EXCEPT ![j] = [there |-> TRUE, on |-> TRUE, next |-> ComputeNextRun(j)]]
    /\ \/ SaveOK(mem') /\ fate' = [fate EXCEPT ![j] = "kept"]
       \/ SaveFails(mem') /\ fate' = [fate EXCEPT ![j] = "failed"]
    /\ UNCHANGED <<stage, ahead, executing, run, edit, cli, boots, fired, hurt>>

\* RemoveJob says that it removed the job whether or not the save failed.
RemoveJob(j) ==
    /\ Calling
    /\ mem[j].there
    /\ mem' = [mem EXCEPT ![j] = Gone]
    /\ Save(mem')
    /\ fate' = [fate EXCEPT ![j] = "removed"]
    /\ UNCHANGED <<stage, ahead, executing, run, edit, cli, boots, fired, hurt>>

\* A likely bug: enabling leaves the next run to the scheduler.
EnabledBare(rec, j, on) == [rec EXCEPT !.on = on, !.next = "none"]

Enabled(rec, j, on) ==
    [rec EXCEPT !.on = on, !.next = IF on THEN ComputeNextRun(j) ELSE "none"]

EnableJob(j, on) ==
    /\ Calling
    /\ mem[j].there
    /\ mem' = [mem EXCEPT ![j] = Enabled(@, j, on)]
    /\ Save(mem')
    /\ hurt' = IF on /\ j \in OneShot \ ahead /\ ~InFlight(j) THEN hurt \cup {"unscheduled"} ELSE hurt
    /\ UNCHANGED <<stage, ahead, executing, run, edit, cli, boots, fate, fired>>

\* GetJob, or the job AddJob returned.
EditRead(j) ==
    /\ Serving
    /\ ~edit.busy /\ mem[j].there
    /\ edit' = [busy |-> TRUE, job |-> j, read |-> mem[j]]
    /\ UNCHANGED <<stage, mem, disk, ahead, executing, run, cli, ops, faults, boots, fate, fired,
                   hurt>>

\* UpdateJob puts the copy in the place of the job.
EditWrite(on) ==
    LET j == edit.job IN
    /\ Calling
    /\ edit.busy /\ edit' = NoEdit
    /\ IF mem[j].there
       THEN /\ mem' = [mem EXCEPT ![j] = [edit.read EXCEPT !.on = on]]
            /\ Save(mem')
            /\ hurt' = hurt \cup (IF mem[j] # edit.read THEN {"staleEdit"} ELSE {})
                            \cup (IF on /\ ~edit.read.on /\ edit.read.next = "none"
                                  THEN {"unscheduled"} ELSE {})
                            \cup (IF on /\ ~edit.read.on /\ edit.read.next = "due" /\ j \in OneShot
                                  THEN {"overdue"} ELSE {})
       ELSE UNCHANGED <<mem, disk, faults, hurt>>
    /\ UNCHANGED <<stage, ahead, executing, run, cli, boots, fate, fired>>

\* RunJobNow: executing.LoadOrStore; it is not counted in jobWg.
RunJobNow(j) ==
    /\ Calling
    /\ j \notin executing
    /\ run[j][0] = "none"
    /\ executing' = executing \cup {j}
    /\ run' = [run EXCEPT ![j][0] = "marked"]
    /\ UNCHANGED <<stage, mem, disk, ahead, edit, cli, faults, boots, fate, fired, hurt>>

\* It leaves the schedule alone; nothing is saved when the handler panics.
RanNow(j) ==
    /\ run[j][0] = "called"
    /\ run' = [run EXCEPT ![j][0] = "settled"]
    /\ Save(mem) \/ UNCHANGED <<disk, faults>>
    /\ UNCHANGED <<stage, mem, ahead, executing, edit, cli, ops, boots, fate, fired, hurt>>

-----------------------------------------------------------------------------
(* `lele cron add | remove | enable | disable`, a process of its own *)

CliLoad ==
    /\ ~cli.busy /\ ops < MaxOps
    /\ ops' = ops + 1
    /\ cli' = [busy |-> TRUE, jobs |-> disk, rows |-> disk]
    /\ UNCHANGED <<stage, mem, disk, ahead, executing, run, edit, faults, boots, fate, fired,
                   hurt>>

\* The jobs it saves after its change, and what it tells of job j.
CliSaves(jobs, j, told) ==
    /\ cli.busy /\ cli' = NoCli
    /\ \/ SaveOK(jobs) /\ fate' = [fate EXCEPT ![j] = told]
       \/ SaveFails(jobs) /\ fate' = [fate EXCEPT ![j] = IF @ = "unused" THEN "failed"
                                                      ELSE IF disk'[j].there THEN @ ELSE told]
    /\ hurt' = IF Serving \/ disk # cli.rows THEN hurt \cup {"foreign"} ELSE hurt
    /\ UNCHANGED <<stage, mem, ahead, executing, run, edit, ops, boots, fired>>

CliAdd(j) ==
    /\ fate[j] = "unused" /\ j \notin OneShot
    /\ CliSaves([cli.jobs EXCEPT ![j] = [there |-> TRUE, on |-> TRUE, next |-> "later"]], j, "kept")

CliRemove(j) ==
    /\ cli.jobs[j].there
    /\ CliSaves([cli.jobs EXCEPT ![j] = Gone], j, "removed")

CliEnable(j, on) ==
    /\ cli.jobs[j].there
    /\ CliSaves([cli.jobs EXCEPT ![j] = Enabled(@, j, on)], j, fate[j])

-----------------------------------------------------------------------------
Runs ==
    \E j \in Job : \/ \E k \in 0 .. MaxSpawned : \/ Enter(j, k) \/ Lookup(j, k) \/ Call(j, k)
                                                  \/ Settle(j, k) \/ Leave(j, k)
                   \/ RanNow(j)

API ==
    \/ \E j \in Job : AddJob(j) \/ RemoveJob(j) \/ EditRead(j) \/ RunJobNow(j)
    \/ \E j \in Job, on \in BOOLEAN : EnableJob(j, on)
    \/ \E on \in BOOLEAN : EditWrite(on)

CommandLine ==
    \/ CliLoad
    \/ \E j \in Job : CliAdd(j) \/ CliRemove(j)
    \/ \E j \in Job, on \in BOOLEAN : CliEnable(j, on)

Life == Start \/ StopBegin \/ StopDrained \/ StopExpired \/ Exit \/ \E j \in Job : Elapse(j)

Next == Tick \/ Runs \/ API \/ CommandLine \/ Life

Spec == Init /\ [][Next]_vars

\* The ticker fires each second, goroutines are scheduled, handlers return.
Fairness ==
    /\ WF_vars(Tick)
    /\ \A j \in Job : \A k \in 0 .. MaxSpawned :
          /\ WF_vars(Enter(j, k)) /\ WF_vars(Lookup(j, k)) /\ WF_vars(Call(j, k))
          /\ WF_vars(Settle(j, k)) /\ WF_vars(Leave(j, k))
    /\ \A j \in Job : WF_vars(RanNow(j))
FairSpec == Spec /\ Fairness

-----------------------------------------------------------------------------
(* Properties *)

Excusing == hurt \cap Excused # {}

\* A reminder is not given twice: the scheduler calls the handler of a one-shot
\* once at most, whatever saves fail and whenever the process dies between the
\* tick, the handler and the save of the removal.
OneShotOnce ==
    [][\A j \in fired, k \in Timer :
          run[j][k] = "found" /\ run'[j][k] = "called" => Excusing]_vars

\* A job that AddJob or `lele cron add` accepted has its row until it is removed
\* or, a one-shot, has run: no load, sweep or partial save loses it.
JobsKept ==
    Excusing \/ \A j \in Job : fate[j] = "kept" => disk[j].there

\* Once the removal of a job was reported no run finds it, nor calls its
\* handler, that had not found it before: no goroutine of an earlier tick, and
\* none launched because a stale edit, a failed save or a run brought it back.
RemovedNeverRuns ==
    [][\A j \in Job, k \in 0 .. MaxSpawned :
          fate[j] = "removed" /\ run[j][k] \notin {"found", "called"}
            => run'[j][k] \notin {"found", "called"} \/ Excusing]_vars

\* The scheduler forgets no job: an enabled one with a run to come has a next
\* run, or a goroutine that will give it one.
EnabledIsScheduled ==
    \/ Excusing \/ stage # "up"
    \/ \A j \in Job : mem[j].on /\ (j \in OneShot => j \in ahead)
                        => mem[j].next # "none" \/ InFlight(j)

\* A due job is run, unless it is disabled, enabled anew or removed, or the service stops:
\* runs under way, by hand too, and failing saves only delay it.
DueRuns ==
    \A j \in Job :
        (stage = "up" /\ mem[j].on /\ mem[j].next = "due")
            ~> (Excusing \/ stage # "up" \/ ~mem[j].on \/ mem[j].next = "later"
                \/ \E k \in Timer : run[j][k] = "called")

\* What the code does not keep.  A job does not run twice at a time
\* ("Prevent concurrent execution of the same job", service.go).
NoOverlap ==
    \A j \in Job : \A k, l \in 0 .. MaxSpawned :
        run[j][k] = "called" /\ run[j][l] = "called" => k = l

\* "removed" of the tool and of the API comes after the job's last handler call;
\* a run that has found the job still calls it.
RemovedNeverCalled ==
    [][\A j \in Job, k \in 0 .. MaxSpawned :
          fate[j] = "removed" => run[j][k] = "called" \/ run'[j][k] # "called"]_vars

\* Stop, when it has drained, leaves no goroutine that may yet use the store.
DrainCoversAll ==
    stage = "drained" => \A j \in Job : \A k \in 0 .. MaxSpawned : run[j][k] = "none"

\* A one-shot that is enabled will be run or is being run.
OneShotNotLost ==
    stage = "up" => \A j \in OneShot : mem[j].on => mem[j].next # "none" \/ InFlight(j)

\* A job that could not be added is not run.
FailedNeverRuns ==
    \A j \in Job : fate[j] = "failed" => \A k \in 0 .. MaxSpawned : run[j][k] # "called"
=============================================================================
