------------------------------ MODULE CronProofs ------------------------------
(***************************************************************************)
(* Proofs about Cron, for any jobs and any number of goroutines, calls,    *)
(* failing saves and processes.                                            *)
(***************************************************************************)
EXTENDS Cron, WellFoundedInduction, TLAPS

Jobs == [Job -> Record]
RunType == [Job -> [0 .. MaxSpawned -> {"none", "spawned", "marked", "found", "called", "settled"}]]
FateType == [Job -> {"unused", "failed", "kept", "done", "removed"}]

-----------------------------------------------------------------------------
(* Schedules, saves and the passage of time                                *)

LEMMA GoneIsRecord == Gone \in Record
  BY DEF Record

\* What a save leaves, complete or torn: every row is the saved one, the one
\* that was there, or none; and none disappears that is in both.
LEMMA SaveLeaves ==
    ASSUME NEW m \in Jobs, disk \in Jobs, Save(m), NEW j \in Job
    PROVE  /\ disk' \in Jobs
           /\ disk'[j] \in {m[j], disk[j], Gone}
           /\ m[j].there /\ disk[j].there => disk'[j].there
  <1>1. CASE SaveOK(m)
    BY <1>1 DEF SaveOK
  <1>2. ASSUME NEW ups \in SUBSET There(m), disk' = [i \in Job |-> IF i \in ups THEN m[i] ELSE disk[i]]
        PROVE  /\ disk' \in Jobs
               /\ disk'[j] \in {m[j], disk[j], Gone}
               /\ m[j].there /\ disk[j].there => disk'[j].there
    BY <1>2 DEF Jobs
  <1>3. ASSUME NEW swept \in SUBSET (There(disk) \ There(m)),
               disk' = [i \in Job |-> IF i \in There(m) THEN m[i] ELSE IF i \in swept THEN Gone ELSE disk[i]]
        PROVE  /\ disk' \in Jobs
               /\ disk'[j] \in {m[j], disk[j], Gone}
               /\ m[j].there /\ disk[j].there => disk'[j].there
    <2>1. disk' \in Jobs
      BY <1>3, GoneIsRecord DEF Jobs
    <2> QED
      BY <1>3, <2>1 DEF Jobs, There
  <1> QED
    BY <1>1, <1>2, <1>3 DEF Save, SaveFails, Torn

LEMMA SaveFaults ==
    ASSUME NEW m, faults \in 0 .. MaxFaults, Save(m)
    PROVE  faults' \in 0 .. MaxFaults
  BY CronAssumption DEF Save, SaveOK, SaveFails

\* A job that is on or has a next run has not been removed.
LEMMA RecordThere ==
    ASSUME NEW r \in Record
    PROVE  /\ r.there => r \in [there : {TRUE}, on : BOOLEAN, next : {"none", "later", "due"}]
           /\ r.there \in BOOLEAN /\ r.on \in BOOLEAN /\ r.next \in {"none", "later", "due"}
           /\ r.on \/ r.next # "none" => r.there
  <1>1. CASE r \in [there : {TRUE}, on : BOOLEAN, next : {"none", "later", "due"}]
    BY <1>1
  <1>2. CASE r = Gone
    BY <1>2 DEF Gone
  <1> QED
    BY <1>1, <1>2 DEF Record

\* Rescheduling a job that is there changes nothing else of it.
LEMMA WithNext ==
    ASSUME NEW r \in Record, r.there, NEW n \in {"none", "later", "due"}
    PROVE  LET u == [r EXCEPT !.next = n]
           IN  u \in Record /\ u.there /\ u.on = r.on /\ u.next = n
  <1>1. r \in [there : {TRUE}, on : BOOLEAN, next : {"none", "later", "due"}]
    BY RecordThere
  <1> QED
    BY <1>1 DEF Record

LEMMA WithOn ==
    ASSUME NEW r \in Record, r.there, NEW on \in BOOLEAN
    PROVE  LET u == [r EXCEPT !.on = on]
           IN  u \in Record /\ u.there /\ u.on = on /\ u.next = r.next
  <1>1. r \in [there : {TRUE}, on : BOOLEAN, next : {"none", "later", "due"}]
    BY RecordThere
  <1> QED
    BY <1>1 DEF Record

LEMMA AgedRecord ==
    ASSUME NEW r \in Record
    PROVE  /\ Aged(r) \in Record /\ Aged(r).there = r.there /\ Aged(r).on = r.on
           /\ Aged(r).next = IF r.next = "later" THEN "due" ELSE r.next
  <1>1. CASE r.next = "later"
    <2>1. r.there /\ r.there \in BOOLEAN
      BY <1>1, RecordThere
    <2>2. LET u == [r EXCEPT !.next = "due"]
          IN  u \in Record /\ u.there /\ u.on = r.on /\ u.next = "due"
      BY <2>1, WithNext
    <2>3. r \in [there : {TRUE}, on : BOOLEAN, next : {"none", "later", "due"}]
      BY <2>1, RecordThere
    <2> QED
      BY <1>1, <2>2, <2>3 DEF Aged
  <1>2. CASE r.next # "later"
    BY <1>2 DEF Aged
  <1> QED
    BY <1>1, <1>2

LEMMA NextRunType == \A j \in Job : ComputeNextRun(j) \in {"none", "later"}
  BY DEF ComputeNextRun

LEMMA RecomputeJobs ==
    ASSUME NEW m \in Jobs
    PROVE  /\ RecomputeNextRuns(m) \in Jobs
           /\ \A j \in Job : /\ RecomputeNextRuns(m)[j].there = m[j].there
                            /\ RecomputeNextRuns(m)[j].on = m[j].on
                            /\ RecomputeNextRuns(m)[j].next =
                                  IF m[j].on THEN ComputeNextRun(j) ELSE m[j].next
  <1>1. \A j \in Job : m[j].on =>
           LET u == [m[j] EXCEPT !.next = ComputeNextRun(j)]
           IN  u \in Record /\ u.there = m[j].there /\ u.on = m[j].on /\ u.next = ComputeNextRun(j)
    <2> SUFFICES ASSUME NEW j \in Job, m[j].on
                 PROVE  LET u == [m[j] EXCEPT !.next = ComputeNextRun(j)]
                        IN  /\ u \in Record /\ u.there = m[j].there /\ u.on = m[j].on
                            /\ u.next = ComputeNextRun(j)
      OBVIOUS
    <2>1. m[j] \in Record /\ m[j].there
      BY RecordThere DEF Jobs
    <2>2. m[j] \in [there : {TRUE}, on : BOOLEAN, next : {"none", "later", "due"}]
      BY <2>1, RecordThere
    <2> QED
      BY <2>2, NextRunType DEF Record
  <1> QED
    BY <1>1 DEF Jobs, RecomputeNextRuns

LEMMA CollectedJobs ==
    ASSUME NEW m \in Jobs, NEW due, \A j \in due : m[j].on
    PROVE  /\ Collected(m, due) \in Jobs
           /\ \A j \in Job : /\ Collected(m, due)[j].there = m[j].there
                            /\ Collected(m, due)[j].on = m[j].on
                            /\ Collected(m, due)[j].next = IF j \in due THEN "none" ELSE m[j].next
  <1>1. \A j \in Job : j \in due =>
           LET u == [m[j] EXCEPT !.next = "none"]
           IN  u \in Record /\ u.there = m[j].there /\ u.on = m[j].on /\ u.next = "none"
    BY RecordThere, WithNext DEF Jobs
  <1> QED
    BY <1>1 DEF Jobs, Collected

LEMMA SettledJobs ==
    ASSUME mem \in Jobs, NEW j \in Job, mem[j].there
    PROVE  /\ Settled(j) \in Jobs
           /\ \A i \in Job \ {j} : Settled(j)[i] = mem[i]
           /\ j \in OneShot => Settled(j)[j] = Gone
           /\ j \notin OneShot => Settled(j)[j].there /\ Settled(j)[j].next = "later"
  <1>1. CASE j \in OneShot
    BY <1>1, GoneIsRecord DEF Jobs, Settled
  <1>2. CASE j \notin OneShot
    <2>1. LET u == [mem[j] EXCEPT !.next = "later"] IN u \in Record /\ u.there /\ u.next = "later"
      BY WithNext DEF Jobs
    <2>2. Settled(j) = [mem EXCEPT ![j] = [mem[j] EXCEPT !.next = "later"]]
      BY <1>2 DEF Settled, ComputeNextRun, Jobs
    <2> QED
      BY <1>2, <2>1, <2>2 DEF Jobs
  <1> QED
    BY <1>1, <1>2

LEMMA EnabledRecord ==
    ASSUME NEW r \in Record, r.there, NEW j \in Job, NEW on \in BOOLEAN
    PROVE  /\ Enabled(r, j, on) \in Record /\ Enabled(r, j, on).there
           /\ Enabled(r, j, on).on = on
           /\ Enabled(r, j, on).next = IF on THEN ComputeNextRun(j) ELSE "none"
  BY NextRunType DEF Record, Enabled, Gone

\* The goroutine a tick launches for a due job takes a place that was free.
LEMMA LaunchPlace ==
    ASSUME NEW j \in Job, Idle(j) # {}
    PROVE  LET k == CHOOSE k \in Idle(j) : \A l \in Idle(j) : k <= l
           IN  k \in Timer /\ run[j][k] = "none"
  <1>1. Idle(j) \subseteq Nat
    BY CronAssumption DEF Idle, Timer
  <1>2. PICK k \in Idle(j) : \A l \in Idle(j) : ~(<<l, k>> \in OpToRel(<, Nat))
    BY <1>1, NatLessThanWellFounded, WFMin
  <1>3. \A l \in Idle(j) : k <= l
    <2> SUFFICES ASSUME NEW l \in Idle(j) PROVE k <= l
      OBVIOUS
    <2>1. ~(l < k)
      BY <1>1, <1>2 DEF OpToRel
    <2> QED
      BY <2>1, <1>1
  <1> QED
    BY <1>3 DEF Idle

-----------------------------------------------------------------------------
(* Types *)

LEMMA TypeInit == Init => TypeOK
  BY CronAssumption, GoneIsRecord
  DEF Init, TypeOK, NoEdit, NoCli

LEMMA NoEditType == NoEdit \in [busy : BOOLEAN, job : Job, read : Record]
  BY CronAssumption, GoneIsRecord DEF NoEdit

LEMMA NoCliType == NoCli \in [busy : BOOLEAN, jobs : [Job -> Record], rows : [Job -> Record]]
  BY GoneIsRecord DEF NoCli

LEMMA SaveType ==
    ASSUME NEW m \in Jobs, disk \in Jobs, faults \in 0 .. MaxFaults, Save(m)
    PROVE  disk' \in Jobs /\ faults' \in 0 .. MaxFaults
  BY SaveLeaves, SaveFaults, CronAssumption

\* Moves of one goroutine, or of a run by hand, to its next place.
LEMMA MoveType ==
    ASSUME run \in RunType, \A i \in Job : run[i][0] # "spawned",
           NEW j \in Job, NEW k \in 0 .. MaxSpawned,
           NEW p \in {"none", "marked", "found", "called", "settled"}, run' = [run EXCEPT ![j][k] = p]
    PROVE  run' \in RunType /\ \A i \in Job : run'[i][0] # "spawned"
  BY CronAssumption DEF RunType

LEMMA TickType == ASSUME TypeOK, Tick PROVE TypeOK'
  <1>1. mem' \in Jobs
    BY CollectedJobs DEF Tick, TypeOK, Jobs, Due
  <1>2. disk' \in Jobs /\ faults' \in 0 .. MaxFaults
    BY <1>1, SaveType DEF Tick, TypeOK, Jobs
  <1>3. run' \in RunType
    BY DEF Tick, TypeOK, RunType
  <1>4. \A j \in Job : run'[j][0] # "spawned"
    <2> SUFFICES ASSUME NEW j \in Job PROVE run'[j][0] # "spawned"
      OBVIOUS
    <2>1. CASE j \in Due
      <3> DEFINE k == CHOOSE k \in Idle(j) : \A l \in Idle(j) : k <= l
      <3>1. k \in Timer
        BY <2>1, LaunchPlace DEF Tick
      <3>2. run'[j] = [run[j] EXCEPT ![k] = "spawned"]
        BY <2>1 DEF Tick
      <3> HIDE DEF k
      <3>3. k # 0
        BY <3>1, CronAssumption DEF Timer
      <3> QED
        BY <3>2, <3>3, CronAssumption DEF TypeOK
    <2>2. CASE j \notin Due
      BY <2>2 DEF Tick, TypeOK
    <2> QED
      BY <2>1, <2>2
  <1> QED
    BY <1>1, <1>2, <1>3, <1>4 DEF Tick, TypeOK, Jobs, RunType

LEMMA RunsType == ASSUME TypeOK, Runs PROVE TypeOK'
  <1>1. ASSUME NEW j \in Job, NEW k \in 0 .. MaxSpawned, Enter(j, k) PROVE TypeOK'
    <2>1. run' \in RunType /\ \A i \in Job : run'[i][0] # "spawned"
      BY <1>1, MoveType DEF Enter, TypeOK, RunType
    <2> QED
      BY <1>1, <2>1 DEF Enter, TypeOK, RunType
  <1>0. ASSUME NEW j \in Job, NEW k \in 0 .. MaxSpawned, Lookup(j, k) PROVE TypeOK'
    <2>1. run' \in RunType /\ \A i \in Job : run'[i][0] # "spawned"
      BY <1>0, MoveType DEF Lookup, TypeOK, RunType
    <2> QED
      BY <1>0, <2>1 DEF Lookup, TypeOK, RunType
  <1>2. ASSUME NEW j \in Job, NEW k \in 0 .. MaxSpawned, Call(j, k) PROVE TypeOK'
    <2>1. run' \in RunType /\ \A i \in Job : run'[i][0] # "spawned"
      BY <1>2, MoveType DEF Call, TypeOK, RunType
    <2>2. fired' \subseteq OneShot
      BY <1>2 DEF Call, TypeOK
    <2> QED
      BY <1>2, <2>1, <2>2 DEF Call, TypeOK, RunType
  <1>3. ASSUME NEW j \in Job, NEW k \in 0 .. MaxSpawned, Settle(j, k) PROVE TypeOK'
    <2>1. run' \in RunType /\ \A i \in Job : run'[i][0] # "spawned"
      BY <1>3, MoveType DEF Settle, TypeOK, RunType
    <2>2. mem' \in Jobs
      BY <1>3, SettledJobs DEF Settle, Found, TypeOK, Jobs
    <2>3. disk' \in Jobs /\ faults' \in 0 .. MaxFaults
      BY <1>3, <2>2, SaveType DEF Settle, TypeOK, Jobs
    <2>4. fate' \in FateType /\ \A i \in Job : fate'[i] = "done" => i \in OneShot
      BY <1>3 DEF Settle, TypeOK, FateType
    <2> QED
      BY <1>3, <2>1, <2>2, <2>3, <2>4 DEF Settle, TypeOK, RunType, Jobs, FateType
  <1>4. ASSUME NEW j \in Job, NEW k \in 0 .. MaxSpawned, Leave(j, k) PROVE TypeOK'
    <2>1. run' \in RunType /\ \A i \in Job : run'[i][0] # "spawned"
      BY <1>4, MoveType DEF Leave, TypeOK, RunType
    <2> QED
      BY <1>4, <2>1 DEF Leave, Released, TypeOK, RunType
  <1>5. ASSUME NEW j \in Job, RanNow(j) PROVE TypeOK'
    <2>1. run' \in RunType /\ \A i \in Job : run'[i][0] # "spawned"
      BY <1>5, MoveType, CronAssumption DEF RanNow, TypeOK, RunType
    <2>2. disk' \in Jobs /\ faults' \in 0 .. MaxFaults
      BY <1>5, SaveType DEF RanNow, TypeOK, Jobs
    <2> QED
      BY <1>5, <2>1, <2>2 DEF RanNow, TypeOK, RunType, Jobs
  <1> QED
    BY <1>0, <1>1, <1>2, <1>3, <1>4, <1>5 DEF Runs

LEMMA CallingType ==
    ASSUME TypeOK, ops < MaxOps, ops' = ops + 1
    PROVE  ops' \in 0 .. MaxOps
  BY CronAssumption DEF TypeOK

LEMMA APIType == ASSUME TypeOK, API PROVE TypeOK'
  <1>1. ASSUME NEW j \in Job, AddJob(j) PROVE TypeOK'
    <2>1. mem' \in Jobs
      BY <1>1, NextRunType DEF AddJob, TypeOK, Jobs, Record
    <2>2. Save(mem')
      BY <1>1 DEF AddJob, Save
    <2>3. disk' \in Jobs /\ faults' \in 0 .. MaxFaults
      BY <2>1, <2>2, SaveType DEF TypeOK, Jobs
    <2>4. fate' \in FateType /\ \A i \in Job : fate'[i] = "done" => i \in OneShot
      BY <1>1 DEF AddJob, TypeOK, FateType
    <2> QED
      BY <1>1, <2>1, <2>3, <2>4, CallingType DEF AddJob, Calling, TypeOK, Jobs, FateType
  <1>2. ASSUME NEW j \in Job, RemoveJob(j) PROVE TypeOK'
    <2>1. mem' \in Jobs
      BY <1>2, GoneIsRecord DEF RemoveJob, TypeOK, Jobs
    <2>2. disk' \in Jobs /\ faults' \in 0 .. MaxFaults
      BY <1>2, <2>1, SaveType DEF RemoveJob, TypeOK, Jobs
    <2>3. fate' \in FateType /\ \A i \in Job : fate'[i] = "done" => i \in OneShot
      BY <1>2 DEF RemoveJob, TypeOK, FateType
    <2> QED
      BY <1>2, <2>1, <2>2, <2>3, CallingType DEF RemoveJob, Calling, TypeOK, Jobs, FateType
  <1>3. ASSUME NEW j \in Job, EditRead(j) PROVE TypeOK'
    BY <1>3 DEF EditRead, TypeOK
  <1>4. ASSUME NEW j \in Job, RunJobNow(j) PROVE TypeOK'
    <2>1. run' \in RunType /\ \A i \in Job : run'[i][0] # "spawned"
      BY <1>4, MoveType, CronAssumption DEF RunJobNow, TypeOK, RunType
    <2> QED
      BY <1>4, <2>1, CallingType DEF RunJobNow, Calling, TypeOK, RunType
  <1>5. ASSUME NEW j \in Job, NEW on \in BOOLEAN, EnableJob(j, on) PROVE TypeOK'
    <2>1. mem' \in Jobs
      BY <1>5, EnabledRecord DEF EnableJob, TypeOK, Jobs
    <2>2. disk' \in Jobs /\ faults' \in 0 .. MaxFaults
      BY <1>5, <2>1, SaveType DEF EnableJob, TypeOK, Jobs
    <2>3. hurt' \subseteq Hazard
      BY <1>5 DEF EnableJob, TypeOK, Hazard
    <2> QED
      BY <1>5, <2>1, <2>2, <2>3, CallingType DEF EnableJob, Calling, TypeOK, Jobs
  <1>6. ASSUME NEW on \in BOOLEAN, EditWrite(on) PROVE TypeOK'
    <2> DEFINE j == edit.job
    <2>1. edit' \in [busy : BOOLEAN, job : Job, read : Record] /\ ~edit'.busy
      BY <1>6, NoEditType DEF EditWrite, NoEdit
    <2>2. CASE mem[j].there
      <3>1. hurt' \subseteq Hazard
        BY <1>6, <2>2 DEF EditWrite, TypeOK, Hazard
      <3>2. mem' \in Jobs
        <4>1. [edit.read EXCEPT !.on = on] \in Record
          BY <1>6, WithOn DEF EditWrite, TypeOK
        <4> QED
          BY <1>6, <2>2, <4>1 DEF EditWrite, TypeOK, Jobs
      <3>3. disk' \in Jobs /\ faults' \in 0 .. MaxFaults
        BY <1>6, <2>2, <3>2, SaveType DEF EditWrite, TypeOK, Jobs
      <3> QED
        BY <1>6, <2>1, <3>1, <3>2, <3>3, CallingType DEF EditWrite, Calling, TypeOK, Jobs
    <2>3. CASE ~mem[j].there
      BY <1>6, <2>1, <2>3, CallingType DEF EditWrite, Calling, TypeOK
    <2> QED
      BY <2>2, <2>3
  <1> QED
    BY <1>1, <1>2, <1>3, <1>4, <1>5, <1>6 DEF API

LEMMA CliType == ASSUME TypeOK, CommandLine PROVE TypeOK'
  <1>1. CASE CliLoad
    BY <1>1, CallingType DEF CliLoad, TypeOK
  <1>2. ASSUME NEW jobs \in Jobs, NEW j \in Job, NEW told \in {"kept", "removed", fate[j]},
               CliSaves(jobs, j, told)
        PROVE  TypeOK'
    <2>1. cli' \in [busy : BOOLEAN, jobs : [Job -> Record], rows : [Job -> Record]]
      BY <1>2, NoCliType DEF CliSaves
    <2>2. Save(jobs)
      BY <1>2 DEF CliSaves, Save
    <2>3. disk' \in Jobs /\ faults' \in 0 .. MaxFaults
      BY <2>2, SaveType DEF TypeOK, Jobs
    <2>4. fate' \in FateType /\ \A i \in Job : fate'[i] = "done" => i \in OneShot
      BY <1>2 DEF CliSaves, TypeOK, FateType
    <2>5. hurt' \subseteq Hazard
      BY <1>2 DEF CliSaves, TypeOK, Hazard
    <2> QED
      BY <1>2, <2>1, <2>3, <2>4, <2>5 DEF CliSaves, TypeOK, Jobs, FateType
  <1>3. ASSUME NEW j \in Job, CliAdd(j) PROVE TypeOK'
    <2>1. [cli.jobs EXCEPT ![j] = [there |-> TRUE, on |-> TRUE, next |-> "later"]] \in Jobs
      BY DEF TypeOK, Jobs, Record
    <2> QED
      BY <1>2, <1>3, <2>1 DEF CliAdd
  <1>4. ASSUME NEW j \in Job, CliRemove(j) PROVE TypeOK'
    <2>1. [cli.jobs EXCEPT ![j] = Gone] \in Jobs
      BY GoneIsRecord DEF TypeOK, Jobs
    <2> QED
      BY <1>2, <1>4, <2>1 DEF CliRemove
  <1>5. ASSUME NEW j \in Job, NEW on \in BOOLEAN, CliEnable(j, on) PROVE TypeOK'
    <2>1. [cli.jobs EXCEPT ![j] = Enabled(@, j, on)] \in Jobs
      BY <1>5, EnabledRecord DEF CliEnable, TypeOK, Jobs
    <2> QED
      BY <1>2, <1>5, <2>1 DEF CliEnable
  <1> QED
    BY <1>1, <1>3, <1>4, <1>5 DEF CommandLine

LEMMA LifeType == ASSUME TypeOK, Life PROVE TypeOK'
  <1>1. CASE Start
    <2>1. CASE mem' = RecomputeNextRuns(disk) /\ Save(mem') /\ UNCHANGED hurt
      <3>1. mem' \in Jobs
        BY <2>1, RecomputeJobs DEF TypeOK, Jobs
      <3>2. disk' \in Jobs /\ faults' \in 0 .. MaxFaults
        BY <2>1, <3>1, SaveType DEF TypeOK, Jobs
      <3> QED
        BY <1>1, <2>1, <3>1, <3>2, CronAssumption DEF Start, TypeOK, Jobs
    <2>2. CASE faults < MaxFaults /\ faults' = faults + 1 /\ UNCHANGED <<mem, disk>>
      <3>1. hurt' \subseteq Hazard
        BY <1>1 DEF Start, TypeOK, Hazard
      <3> QED
        BY <1>1, <2>2, <3>1, CronAssumption DEF Start, TypeOK
    <2> QED
      BY <1>1, <2>1, <2>2 DEF Start, Save
  <1>2. CASE StopBegin \/ StopDrained \/ StopExpired
    BY <1>2 DEF StopBegin, StopDrained, StopExpired, TypeOK
  <1>3. CASE Exit
    BY <1>3, GoneIsRecord, NoEditType, CronAssumption DEF Exit, TypeOK, NoEdit
  <1>4. ASSUME NEW j \in Job, Elapse(j) PROVE TypeOK'
    <2>1. mem' \in Jobs /\ disk' \in Jobs
      BY <1>4, AgedRecord DEF Elapse, TypeOK, Jobs
    <2>2. edit' \in [busy : BOOLEAN, job : Job, read : Record] /\ (edit'.busy => edit'.read.there)
      BY <1>4, AgedRecord DEF Elapse, TypeOK
    <2>3. cli' \in [busy : BOOLEAN, jobs : [Job -> Record], rows : [Job -> Record]]
      BY <1>4, AgedRecord DEF Elapse, TypeOK
    <2>4. ahead' \subseteq OneShot
      BY <1>4 DEF Elapse, TypeOK
    <2> QED
      BY <1>4, <2>1, <2>2, <2>3, <2>4 DEF Elapse, TypeOK, Jobs
  <1> QED
    BY <1>1, <1>2, <1>3, <1>4 DEF Life

LEMMA TypeStep == ASSUME TypeOK, [Next]_vars PROVE TypeOK'
  <1>1. CASE UNCHANGED vars
    BY <1>1 DEF vars, TypeOK
  <1> QED
    BY <1>1, TickType, RunsType, APIType, CliType, LifeType DEF Next

\* The jobs in memory, their rows, the copies an update and `lele cron` hold, the
\* goroutines of every tick and the marks of the executing set have their types in
\* every state, whatever saves fail and however often the service restarts.
THEOREM TypeCorrect == Spec => []TypeOK
  <1>1. Init => TypeOK
    BY TypeInit
  <1>2. TypeOK /\ [Next]_vars => TypeOK'
    BY TypeStep
  <1> QED
    BY <1>1, <1>2, PTL DEF Spec

-----------------------------------------------------------------------------
(* The jobs a client was told of are kept                                  *)

\* What a process that is down has in memory: nothing.
AtRest == \A j \in Job : ~mem[j].there /\ \A k \in 0 .. MaxSpawned : run[j][k] = "none"

\* The rows hold every job that was accepted, and so does the memory of a service
\* that runs: what either saves over the other loses none.  A `lele cron` that
\* has not saved yet holds the rows it read.
Keeping == \A j \in Job : fate[j] = "kept" => disk[j].there /\ (Serving => mem[j].there)

KeptInv ==
    /\ stage = "down" => AtRest
    /\ cli.busy => cli.jobs = cli.rows
    /\ hurt \cap {"foreign", "emptied"} # {} \/ Keeping

LEMMA KeptInit == Init => KeptInv
  BY DEF Init, KeptInv, Keeping, AtRest, NoCli, Gone

\* A process that is down has no goroutine.
LEMMA DownStep ==
    ASSUME TypeOK, stage = "down" => AtRest, [Next]_vars
    PROVE  stage' = "down" => AtRest'
  <1>1. CASE UNCHANGED vars \/ CommandLine \/ StopBegin \/ StopDrained \/ StopExpired
    BY <1>1 DEF vars, CommandLine, CliLoad, CliAdd, CliRemove, CliEnable, CliSaves, AtRest,
                StopBegin, StopDrained, StopExpired
  <1>2. CASE Tick
    BY <1>2 DEF Tick
  <1>3. CASE Runs
    BY <1>3, CronAssumption
    DEF Runs, Enter, Lookup, Call, Settle, Leave, RanNow, AtRest
  <1>4. CASE API
    BY <1>4 DEF API, AddJob, RemoveJob, EditRead, RunJobNow, EnableJob, EditWrite, Calling, Serving
  <1>5. CASE Start
    BY <1>5 DEF Start
  <1>6. CASE Exit
    BY <1>6 DEF Exit, AtRest, Gone
  <1>7. ASSUME NEW j \in Job, Elapse(j) PROVE stage' = "down" => AtRest'
    <2>1. \A i \in Job : mem'[i].there = mem[i].there
      BY <1>7, AgedRecord DEF Elapse, TypeOK
    <2> QED
      BY <1>7, <2>1 DEF Elapse, AtRest
  <1> QED
    BY <1>1, <1>2, <1>3, <1>4, <1>5, <1>6, <1>7 DEF Next, Life

LEMMA CliStep ==
    ASSUME TypeOK, cli.busy => cli.jobs = cli.rows, [Next]_vars
    PROVE  cli'.busy => cli'.jobs = cli'.rows
  <1>1. CASE UNCHANGED cli
    BY <1>1
  <1>2. CASE CommandLine
    <2>1. CASE CliLoad
      BY <2>1 DEF CliLoad
    <2>2. CASE cli' = NoCli
      BY <2>2 DEF NoCli
    <2> QED
      BY <1>2, <2>1, <2>2 DEF CommandLine, CliAdd, CliRemove, CliEnable, CliSaves
  <1>3. ASSUME NEW j \in Job, Elapse(j) PROVE cli'.busy => cli'.jobs = cli'.rows
    BY <1>3 DEF Elapse, TypeOK
  <1> QED
    BY <1>1, <1>2, <1>3
    DEF Next, vars, Life, Tick, Runs, Enter, Lookup, Call, Settle, Leave, RanNow, API, AddJob, RemoveJob,
        EditRead, RunJobNow, EnableJob, EditWrite, Start, StopBegin, StopDrained, StopExpired, Exit

LEMMA KeepingTick == ASSUME TypeOK, Keeping, Tick PROVE Keeping'
  <1>1. mem' \in Jobs /\ \A j \in Job : mem'[j].there = mem[j].there
    <2>1. mem \in Jobs /\ \A j \in Due : mem[j].on
      BY DEF TypeOK, Jobs, Due
    <2> QED
      BY <2>1, CollectedJobs DEF Tick
  <1> QED
    BY <1>1, SaveLeaves DEF Tick, TypeOK, Jobs, Keeping, Serving

LEMMA KeepingRuns ==
    ASSUME TypeOK, stage = "down" => AtRest, Keeping, Runs
    PROVE  Keeping'
  <1>1. ASSUME NEW j \in Job, NEW k \in 0 .. MaxSpawned, Settle(j, k) PROVE Keeping'
    <2>1. Serving
      BY <1>1 DEF Settle, AtRest, Serving
    <2>2. CASE Found(j)
      <3>1. mem' \in Jobs /\ Save(mem')
        BY <1>1, <2>2, SettledJobs DEF Settle, Found, TypeOK, Jobs
      <3> SUFFICES ASSUME NEW i \in Job, fate'[i] = "kept"
                   PROVE  disk'[i].there /\ mem'[i].there
        BY DEF Keeping
      <3>2. fate[i] = "kept"
        BY <1>1, <2>2 DEF Settle, TypeOK
      <3>3. disk[i].there /\ mem[i].there
        BY <2>1, <3>2 DEF Keeping
      <3>4. mem'[i].there
        <4>1. i = j => j \notin OneShot
          BY <1>1, <2>2, <3>2 DEF Settle, TypeOK
        <4> QED
          BY <1>1, <2>2, <3>3, <4>1, SettledJobs DEF Settle, Found, TypeOK, Jobs
      <3> QED
        BY <3>1, <3>3, <3>4, SaveLeaves DEF TypeOK, Jobs
    <2>3. CASE ~Found(j)
      BY <1>1, <2>3 DEF Settle, Keeping, Serving
    <2> QED
      BY <2>2, <2>3
  <1>2. ASSUME NEW j \in Job, RanNow(j) PROVE Keeping'
    <2>1. Serving
      BY <1>2, CronAssumption DEF RanNow, AtRest, Serving
    <2>2. CASE Save(mem)
      BY <1>2, <2>1, <2>2, SaveLeaves DEF RanNow, Keeping, Serving, TypeOK, Jobs
    <2>3. CASE UNCHANGED <<disk, faults>>
      BY <1>2, <2>3 DEF RanNow, Keeping, Serving
    <2> QED
      BY <1>2, <2>2, <2>3 DEF RanNow
  <1>3. CASE UNCHANGED <<stage, mem, disk, fate>>
    BY <1>3 DEF Keeping, Serving
  <1> QED
    BY <1>1, <1>2, <1>3 DEF Runs, Enter, Lookup, Call, Leave

LEMMA KeepingAPI == ASSUME TypeOK, Keeping, API PROVE Keeping'
  <1>1. ASSUME NEW j \in Job, AddJob(j) PROVE Keeping'
    <2>1. mem' \in Jobs /\ mem'[j].there /\ \A i \in Job \ {j} : mem'[i] = mem[i]
      BY <1>1, NextRunType DEF AddJob, TypeOK, Jobs, Record
    <2>2. Save(mem') /\ (fate'[j] = "kept" => disk' = mem')
      BY <1>1 DEF AddJob, Save, SaveOK, TypeOK
    <2>3. \A i \in Job \ {j} : fate'[i] = fate[i]
      BY <1>1 DEF AddJob, TypeOK
    <2>4. \A i \in Job \ {j} : fate'[i] = "kept" => disk'[i].there
      BY <1>1, <2>1, <2>2, <2>3, SaveLeaves DEF AddJob, Calling, Keeping, TypeOK, Jobs
    <2> QED
      BY <1>1, <2>1, <2>2, <2>3, <2>4 DEF AddJob, Calling, Keeping, Serving
  <1>2. ASSUME NEW j \in Job, RemoveJob(j) PROVE Keeping'
    <2>1. mem' \in Jobs /\ \A i \in Job \ {j} : mem'[i] = mem[i]
      BY <1>2, GoneIsRecord DEF RemoveJob, TypeOK, Jobs
    <2>2. \A i \in Job : fate'[i] = "kept" => i # j /\ fate[i] = "kept"
      BY <1>2 DEF RemoveJob, TypeOK
    <2> QED
      BY <1>2, <2>1, <2>2, SaveLeaves DEF RemoveJob, Calling, Keeping, Serving, TypeOK, Jobs
  <1>3. ASSUME NEW j \in Job, NEW on \in BOOLEAN, EnableJob(j, on) PROVE Keeping'
    <2>1. mem' \in Jobs /\ \A i \in Job : mem[i].there => mem'[i].there
      BY <1>3, EnabledRecord DEF EnableJob, TypeOK, Jobs
    <2> QED
      BY <1>3, <2>1, SaveLeaves DEF EnableJob, Calling, Keeping, Serving, TypeOK, Jobs
  <1>4. ASSUME NEW on \in BOOLEAN, EditWrite(on) PROVE Keeping'
    <2>1. CASE mem[edit.job].there
      <3>1. [edit.read EXCEPT !.on = on] \in Record /\ [edit.read EXCEPT !.on = on].there
        BY <1>4, WithOn DEF EditWrite, TypeOK
      <3>2. mem' = [mem EXCEPT ![edit.job] = [edit.read EXCEPT !.on = on]]
        BY <1>4, <2>1 DEF EditWrite
      <3>3. mem' \in Jobs /\ \A i \in Job : mem[i].there => mem'[i].there
        <4> DEFINE u == [edit.read EXCEPT !.on = on]
        <4>1. u \in Record /\ u.there /\ mem' = [mem EXCEPT ![edit.job] = u]
          BY <3>1, <3>2
        <4> HIDE DEF u
        <4> QED
          BY <4>1 DEF TypeOK, Jobs
      <3> QED
        BY <1>4, <2>1, <3>3, SaveLeaves DEF EditWrite, Calling, Keeping, Serving, TypeOK, Jobs
    <2>2. CASE ~mem[edit.job].there
      BY <1>4, <2>2 DEF EditWrite, Calling, Keeping, Serving
    <2> QED
      BY <2>1, <2>2
  <1>5. CASE UNCHANGED <<stage, mem, disk, fate>>
    BY <1>5 DEF Keeping, Serving
  <1> QED
    BY <1>1, <1>2, <1>3, <1>4, <1>5 DEF API, EditRead, RunJobNow

\* `lele cron` loses no job of rows that are still the ones it read, when no
\* service runs.
LEMMA KeepingCli ==
    ASSUME TypeOK, cli.busy => cli.jobs = cli.rows, Keeping, CommandLine, "foreign" \notin hurt'
    PROVE  Keeping'
  <1>1. CASE CliLoad
    BY <1>1 DEF CliLoad, Keeping, Serving
  <1>2. ASSUME NEW jobs, NEW j, NEW told, CliSaves(jobs, j, told)
        PROVE  ~Serving /\ ~Serving' /\ disk = cli.jobs
    BY <1>2 DEF CliSaves, Serving
  <1>3. ASSUME NEW j \in Job, CliAdd(j) PROVE Keeping'
    <2> DEFINE jobs == [cli.jobs EXCEPT ![j] = [there |-> TRUE, on |-> TRUE, next |-> "later"]]
    <2>1. CliSaves(jobs, j, "kept") /\ ~Serving' /\ disk = cli.jobs
      BY <1>2, <1>3 DEF CliAdd
    <2>2. jobs \in Jobs /\ jobs[j].there /\ \A i \in Job \ {j} : jobs[i] = disk[i]
      <3>1. cli.jobs \in [Job -> Record] /\ cli.jobs = disk
        BY <2>1 DEF TypeOK, Jobs
      <3>2. [there |-> TRUE, on |-> TRUE, next |-> "later"] \in Record
        BY DEF Record
      <3> QED
        BY <3>1, <3>2 DEF Jobs
    <2> HIDE DEF jobs
    <2>3. Save(jobs) /\ (fate'[j] = "kept" => disk' = jobs)
      <3>1. CASE SaveOK(jobs)
        BY <3>1 DEF Save, SaveOK
      <3>2. CASE SaveFails(jobs) /\ fate' = [fate EXCEPT ![j] = "failed"]
        BY <3>2 DEF Save, TypeOK
      <3>3. fate[j] = "unused"
        BY <1>3 DEF CliAdd
      <3> QED
        BY <2>1, <3>1, <3>2, <3>3 DEF CliSaves
    <2>4. \A i \in Job \ {j} : fate'[i] = fate[i]
      BY <2>1 DEF CliSaves, TypeOK
    <2> QED
      BY <2>1, <2>2, <2>3, <2>4, SaveLeaves DEF Keeping, TypeOK, Jobs
  <1>4. ASSUME NEW j \in Job, CliRemove(j) PROVE Keeping'
    <2> DEFINE jobs == [cli.jobs EXCEPT ![j] = Gone]
    <2>1. CliSaves(jobs, j, "removed") /\ ~Serving' /\ disk = cli.jobs
      BY <1>2, <1>4 DEF CliRemove
    <2>2. jobs \in Jobs /\ \A i \in Job \ {j} : jobs[i] = disk[i]
      BY <2>1, GoneIsRecord DEF TypeOK, Jobs
    <2> HIDE DEF jobs
    <2>3. Save(jobs) /\ (fate'[j] = "kept" => disk'[j].there)
      BY <2>1 DEF CliSaves, Save, SaveOK, TypeOK
    <2>4. \A i \in Job \ {j} : fate'[i] = fate[i]
      BY <2>1 DEF CliSaves, TypeOK
    <2> QED
      BY <2>1, <2>2, <2>3, <2>4, SaveLeaves DEF Keeping, TypeOK, Jobs
  <1>5. ASSUME NEW j \in Job, NEW on \in BOOLEAN, CliEnable(j, on) PROVE Keeping'
    <2> DEFINE jobs == [cli.jobs EXCEPT ![j] = Enabled(@, j, on)]
    <2>1. CliSaves(jobs, j, fate[j]) /\ ~Serving' /\ disk = cli.jobs
      BY <1>2, <1>5 DEF CliEnable
    <2>2. jobs \in Jobs /\ \A i \in Job : disk[i].there => jobs[i].there
      BY <1>5, <2>1, EnabledRecord DEF CliEnable, TypeOK, Jobs
    <2> HIDE DEF jobs
    <2>3. Save(jobs) /\ \A i \in Job : fate'[i] = "kept" => fate[i] = "kept"
      BY <2>1 DEF CliSaves, Save, SaveOK, TypeOK
    <2> QED
      BY <2>1, <2>2, <2>3, SaveLeaves DEF Keeping, TypeOK, Jobs
  <1> QED
    BY <1>1, <1>3, <1>4, <1>5 DEF CommandLine

LEMMA KeepingLife == ASSUME TypeOK, Keeping, Life, "emptied" \notin hurt' PROVE Keeping'
  <1>1. CASE Start
    <2>1. CASE mem' = RecomputeNextRuns(disk) /\ Save(mem')
      <3>1. mem' \in Jobs /\ \A j \in Job : mem'[j].there = disk[j].there
        BY <2>1, RecomputeJobs DEF TypeOK, Jobs
      <3> QED
        BY <1>1, <2>1, <3>1, SaveLeaves DEF Start, Keeping, TypeOK, Jobs
    <2>2. CASE There(disk) = {} /\ UNCHANGED <<mem, disk>>
      BY <1>1, <2>2 DEF Start, There, Keeping
    <2> QED
      BY <1>1, <2>1, <2>2 DEF Start, Save
  <1>2. CASE StopBegin \/ StopDrained \/ StopExpired
    BY <1>2 DEF StopBegin, StopDrained, StopExpired, Keeping, Serving
  <1>3. CASE Exit
    BY <1>3 DEF Exit, Keeping, Serving, TypeOK
  <1>4. ASSUME NEW j \in Job, Elapse(j) PROVE Keeping'
    <2>1. \A i \in Job : mem'[i].there = mem[i].there /\ disk'[i].there = disk[i].there
      BY <1>4, AgedRecord DEF Elapse, TypeOK
    <2> QED
      BY <1>4, <2>1 DEF Elapse, Keeping, Serving
  <1> QED
    BY <1>1, <1>2, <1>3, <1>4 DEF Life

LEMMA HurtGrows == ASSUME [Next]_vars PROVE hurt \subseteq hurt'
  BY DEF vars, Next, Tick, Runs, Enter, Lookup, Call, Settle, Leave, RanNow, API, AddJob, RemoveJob, EditRead,
         RunJobNow, EnableJob, EditWrite, CommandLine, CliLoad, CliAdd, CliRemove, CliEnable, CliSaves,
         Life, Start, StopBegin, StopDrained, StopExpired, Exit, Elapse

LEMMA KeptStep == ASSUME TypeOK, KeptInv, [Next]_vars PROVE KeptInv'
  <1>1. CASE hurt' \cap {"foreign", "emptied"} # {}
    BY <1>1, DownStep, CliStep DEF KeptInv
  <1>2. CASE hurt' \cap {"foreign", "emptied"} = {}
    <2>1. Keeping
      BY <1>2, HurtGrows DEF KeptInv
    <2>2. Keeping'
      <3>1. CASE UNCHANGED vars
        BY <2>1, <3>1 DEF vars, Keeping, Serving
      <3> QED
        BY <1>2, <2>1, <3>1, KeepingTick, KeepingRuns, KeepingAPI, KeepingCli, KeepingLife
        DEF Next, KeptInv
    <2> QED
      BY <2>2, DownStep, CliStep DEF KeptInv
  <1> QED
    BY <1>1, <1>2

\* A job that AddJob or `lele cron add` accepted keeps its row until it is removed
\* or has run: no tick, edit, enabling, run or failing save, and no restart, loses
\* it, if a `lele cron` beside the service and a start that could not load are
\* excused.
THEOREM AcceptedJobsKept ==
    ASSUME {"foreign", "emptied"} \subseteq Excused
    PROVE  Spec => []JobsKept
  <1>1. Init => TypeOK /\ KeptInv
    BY TypeInit, KeptInit
  <1>2. TypeOK /\ KeptInv /\ [Next]_vars => (TypeOK /\ KeptInv)'
    BY TypeStep, KeptStep
  <1>3. TypeOK /\ KeptInv => JobsKept
    BY DEF KeptInv, Keeping, JobsKept, Excusing
  <1> QED
    BY <1>1, <1>2, <1>3, PTL DEF Spec

-----------------------------------------------------------------------------
(* The scheduler forgets no job                                            *)

ToCome(j) == mem[j].on /\ (j \in OneShot => j \in ahead)

Scheduling == stage = "up" => \A j \in Job : ToCome(j) => mem[j].next # "none" \/ InFlight(j)

SchedInv == hurt \cap {"staleEdit", "unscheduled"} # {} \/ Scheduling

LEMMA ScheduledNext == \A j \in Job : (j \in OneShot => j \in ahead) => ComputeNextRun(j) = "later"
  BY DEF ComputeNextRun

\* A job the step leaves alone stays scheduled.
LEMMA SchedulingFrame ==
    ASSUME Scheduling, stage' = "up" => stage = "up", ahead' \subseteq ahead, NEW S \in SUBSET Job,
           \A j \in Job \ S : mem'[j] = mem[j] /\ run'[j] = run[j],
           \A j \in S : stage' = "up" /\ ToCome(j)' => mem'[j].next # "none" \/ InFlight(j)'
    PROVE  Scheduling'
  <1> SUFFICES ASSUME stage' = "up", NEW j \in Job, ToCome(j)'
               PROVE  mem'[j].next # "none" \/ InFlight(j)'
    BY DEF Scheduling
  <1>1. CASE j \in S
    BY <1>1
  <1>2. CASE j \notin S
    <2>1. mem'[j] = mem[j] /\ run'[j] = run[j] /\ ToCome(j)
      BY <1>2 DEF ToCome
    <2>2. InFlight(j)' <=> InFlight(j)
      BY <2>1 DEF InFlight
    <2> QED
      BY <2>1, <2>2 DEF Scheduling
  <1> QED
    BY <1>1, <1>2

LEMMA SchedulingOne ==
    ASSUME Scheduling, stage' = "up" => stage = "up", ahead' \subseteq ahead, NEW j \in Job,
           \A i \in Job \ {j} : mem'[i] = mem[i] /\ run'[i] = run[i],
           stage' = "up" /\ ToCome(j)' => mem'[j].next # "none" \/ InFlight(j)'
    PROVE  Scheduling'
  <1>1. {j} \in SUBSET Job
    OBVIOUS
  <1>2. \A i \in {j} : stage' = "up" /\ ToCome(i)' => mem'[i].next # "none" \/ InFlight(i)'
    OBVIOUS
  <1> QED
    BY <1>1, <1>2, SchedulingFrame

LEMMA SchedulingTick == ASSUME TypeOK, Scheduling, Tick PROVE Scheduling'
  <1>1. mem \in Jobs /\ \A j \in Due : mem[j].on
    BY DEF TypeOK, Jobs, Due
  <1>2. \A j \in Job \ Due : mem'[j] = mem[j] /\ run'[j] = run[j]
    BY <1>1 DEF Tick, Collected
  <1>3. ASSUME NEW j \in Due PROVE InFlight(j)'
    <2> DEFINE k == CHOOSE k \in Idle(j) : \A l \in Idle(j) : k <= l
    <2>1. k \in Timer
      BY <1>3, LaunchPlace DEF Tick, Due
    <2>2. run'[j] = [run[j] EXCEPT ![k] = "spawned"]
      BY <1>3 DEF Tick, Due
    <2> HIDE DEF k
    <2>3. run'[j][k] = "spawned"
      BY <1>3, <2>1, <2>2, CronAssumption DEF TypeOK, Timer, Due
    <2> QED
      BY <2>1, <2>3 DEF InFlight
  <1> QED
    BY <1>2, <1>3, SchedulingFrame DEF Tick, Due

LEMMA SchedulingRuns == ASSUME TypeOK, Scheduling, Runs PROVE Scheduling'
  <1> DEFINE Ok(j) == stage' = "up" /\ ToCome(j)' => mem'[j].next # "none" \/ InFlight(j)'
  <1>1. ASSUME NEW j \in Job, NEW k \in 0 .. MaxSpawned, UNCHANGED <<stage, mem, ahead>>,
               NEW p, run' = [run EXCEPT ![j][k] = p],
               k \in Timer /\ run[j][k] # "settled" => p \in {"marked", "found", "called"} \/ ~mem[j].on
        PROVE  Scheduling'
    <2>1. Ok(j)
      <3>1. \A l \in Timer : l # k => run'[j][l] = run[j][l]
        BY <1>1, CronAssumption DEF TypeOK, Timer
      <3>2. k \in Timer => run'[j][k] = p
        BY <1>1, CronAssumption DEF TypeOK, Timer
      <3>3. InFlight(j) /\ mem[j].on => InFlight(j)'
        BY <1>1, <3>1, <3>2 DEF InFlight
      <3> QED
        BY <1>1, <3>3 DEF Scheduling, ToCome
    <2>2. \A i \in Job \ {j} : mem'[i] = mem[i] /\ run'[i] = run[i]
      BY <1>1 DEF TypeOK
    <2> QED
      BY <1>1, <2>1, <2>2, SchedulingOne
  <1>2. ASSUME NEW j \in Job, NEW k \in 0 .. MaxSpawned, Enter(j, k) PROVE Scheduling'
    BY <1>1, <1>2 DEF Enter
  <1>0. ASSUME NEW j \in Job, NEW k \in 0 .. MaxSpawned, Lookup(j, k) PROVE Scheduling'
    <2>1. mem[j].on => mem[j].there
      BY RecordThere DEF TypeOK
    <2> DEFINE p == IF Found(j) THEN "found" ELSE "settled"
    <2>2. p = "found" \/ ~mem[j].on
      BY <2>1 DEF Found
    <2>3. run' = [run EXCEPT ![j][k] = p] /\ UNCHANGED <<stage, mem, ahead>>
      BY <1>0 DEF Lookup
    <2> HIDE DEF p
    <2> QED
      BY <1>1, <2>2, <2>3
  <1>3. ASSUME NEW j \in Job, NEW k \in 0 .. MaxSpawned, Call(j, k) PROVE Scheduling'
    BY <1>1, <1>3 DEF Call
  <1>4. ASSUME NEW j \in Job, NEW k \in 0 .. MaxSpawned, Settle(j, k) PROVE Scheduling'
    <2>1. CASE Found(j)
      <3>1. Ok(j)
        <4>1. mem \in Jobs /\ mem[j].there /\ mem' = Settled(j)
          BY <1>4, <2>1 DEF Settle, Found, TypeOK, Jobs
        <4> QED
          BY <4>1, SettledJobs DEF ToCome, Gone
      <3>2. \A i \in Job \ {j} : mem'[i] = mem[i] /\ run'[i] = run[i]
        BY <1>4, <2>1, SettledJobs DEF Settle, Found, TypeOK, Jobs
      <3> QED
        BY <1>4, <3>1, <3>2, SchedulingOne DEF Settle
    <2>2. CASE ~Found(j)
      <3>1. ~mem[j].on
        BY <2>2, RecordThere DEF Found, TypeOK
      <3> QED
        BY <1>1, <1>4, <2>2, <3>1 DEF Settle
    <2> QED
      BY <2>1, <2>2
  <1>5. ASSUME NEW j \in Job, NEW k \in 0 .. MaxSpawned, Leave(j, k) PROVE Scheduling'
    BY <1>1, <1>5 DEF Leave
  <1>6. ASSUME NEW j \in Job, RanNow(j) PROVE Scheduling'
    <2>1. 0 \in 0 .. MaxSpawned /\ 0 \notin Timer
      BY CronAssumption DEF Timer
    <2>2. run' = [run EXCEPT ![j][0] = "settled"] /\ UNCHANGED <<stage, mem, ahead>>
      BY <1>6 DEF RanNow
    <2> QED
      BY <1>1, <2>1, <2>2
  <1> QED
    BY <1>0, <1>2, <1>3, <1>4, <1>5, <1>6 DEF Runs

LEMMA SchedulingAPI ==
    ASSUME TypeOK, Scheduling, API, hurt' \cap {"staleEdit", "unscheduled"} = {}
    PROVE  Scheduling'
  <1>1. ASSUME NEW j \in Job, NEW u, mem' = [mem EXCEPT ![j] = u],
               UNCHANGED <<stage, ahead, run>>,
               stage = "up" /\ ToCome(j)' => u.next # "none" \/ InFlight(j)
        PROVE  Scheduling'
    <2>1. InFlight(j)' <=> InFlight(j)
      BY <1>1 DEF InFlight
    <2>2. mem'[j] = u /\ \A i \in Job \ {j} : mem'[i] = mem[i] /\ run'[i] = run[i]
      BY <1>1 DEF TypeOK
    <2>3. stage' = "up" /\ ToCome(j)' => mem'[j].next # "none" \/ InFlight(j)'
      BY <1>1, <2>1, <2>2
    <2> QED
      BY <1>1, <2>2, <2>3, SchedulingOne
  <1>2. ASSUME NEW j \in Job, AddJob(j) PROVE Scheduling'
    <2>1. ToCome(j)' => ComputeNextRun(j) = "later"
      BY <1>2, ScheduledNext DEF AddJob, ToCome
    <2> QED
      BY <1>1, <1>2, <2>1 DEF AddJob, Calling
  <1>3. ASSUME NEW j \in Job, RemoveJob(j) PROVE Scheduling'
    <2>1. ~ToCome(j)'
      BY <1>3 DEF RemoveJob, ToCome, TypeOK, Gone
    <2> QED
      BY <1>1, <1>3, <2>1 DEF RemoveJob, Calling
  <1>4. ASSUME NEW j \in Job, NEW on \in BOOLEAN, EnableJob(j, on) PROVE Scheduling'
    <2> DEFINE u == Enabled(mem[j], j, on)
    <2>1. u.on = on /\ u.next = IF on THEN ComputeNextRun(j) ELSE "none"
      BY <1>4, EnabledRecord DEF EnableJob, TypeOK
    <2>2. mem' = [mem EXCEPT ![j] = u] /\ UNCHANGED <<stage, ahead, run>>
      BY <1>4 DEF EnableJob, Calling
    <2> HIDE DEF u
    <2>3. ToCome(j)' => u.next # "none"
      BY <2>1, <2>2, ScheduledNext DEF ToCome, TypeOK
    <2> QED
      BY <1>1, <2>2, <2>3
  <1>5. ASSUME NEW on \in BOOLEAN, EditWrite(on) PROVE Scheduling'
    <2> PICK j \in Job : j = edit.job
      BY DEF TypeOK
    <2> DEFINE u == [edit.read EXCEPT !.on = on]
    <2>1. CASE mem[j].there
      <3>1. mem' = [mem EXCEPT ![j] = u] /\ UNCHANGED <<stage, ahead, run>>
        BY <1>5, <2>1 DEF EditWrite, Calling
      <3>2. mem[j] = edit.read /\ ~(on /\ ~edit.read.on /\ edit.read.next = "none")
        BY <1>5, <2>1 DEF EditWrite
      <3>3. u.on = on /\ u.next = edit.read.next /\ j \in Job
        BY <1>5, WithOn DEF EditWrite, TypeOK
      <3> HIDE DEF u
      <3>4. stage = "up" /\ ToCome(j)' => u.next # "none" \/ InFlight(j)
        <4> SUFFICES ASSUME stage = "up", ToCome(j)', u.next = "none" PROVE InFlight(j)
          OBVIOUS
        <4>1. mem'[j] = u
          BY <3>1, <3>3 DEF TypeOK
        <4>2. on /\ mem[j].on /\ mem[j].next = "none"
          <5>1. on
            BY <3>3, <4>1 DEF ToCome
          <5>2. edit.read.on
            BY <3>2, <3>3, <5>1 DEF TypeOK
          <5> QED
            BY <3>2, <3>3, <5>1, <5>2
        <4>3. ToCome(j)
          BY <3>1, <4>2 DEF ToCome
        <4> QED
          BY <3>3, <4>2, <4>3 DEF Scheduling
      <3> QED
        BY <1>1, <3>1, <3>3, <3>4
    <2>2. CASE ~mem[j].there
      BY <1>5, <2>2 DEF EditWrite, Calling, Scheduling, ToCome, InFlight
    <2> QED
      BY <2>1, <2>2
  <1>6. ASSUME NEW j \in Job, RunJobNow(j) PROVE Scheduling'
    <2>1. \A i \in Job : InFlight(i)' <=> InFlight(i)
      BY <1>6, CronAssumption DEF RunJobNow, InFlight, Timer, TypeOK
    <2> QED
      BY <1>6, <2>1 DEF RunJobNow, Calling, Scheduling, ToCome
  <1>7. ASSUME NEW j \in Job, EditRead(j) PROVE Scheduling'
    BY <1>7 DEF EditRead, Scheduling, ToCome, InFlight
  <1> QED
    BY <1>2, <1>3, <1>4, <1>5, <1>6, <1>7 DEF API

LEMMA SchedulingLife == ASSUME TypeOK, Scheduling, Life \/ CommandLine PROVE Scheduling'
  <1>1. CASE Start
    <2> SUFFICES ASSUME stage' = "up", NEW j \in Job, ToCome(j)' PROVE mem'[j].next # "none"
      BY DEF Scheduling
    <2>1. mem' = RecomputeNextRuns(disk) /\ UNCHANGED ahead
      BY <1>1 DEF Start
    <2>2. disk \in Jobs
      BY DEF TypeOK, Jobs
    <2>3. mem'[j].on = disk[j].on /\ mem'[j].next = IF disk[j].on THEN ComputeNextRun(j) ELSE disk[j].next
      BY <2>1, <2>2, RecomputeJobs
    <2> QED
      BY <2>1, <2>3, ScheduledNext DEF ToCome
  <1>2. CASE StopBegin \/ StopDrained \/ StopExpired \/ Exit
    BY <1>2 DEF StopBegin, StopDrained, StopExpired, Exit, Scheduling
  <1>3. ASSUME NEW j \in Job, Elapse(j) PROVE Scheduling'
    <2> SUFFICES ASSUME stage' = "up", NEW i \in Job, ToCome(i)'
                 PROVE  mem'[i].next # "none" \/ InFlight(i)'
      BY DEF Scheduling
    <2>1. /\ mem'[i].on = mem[i].on /\ (mem'[i].next = "none" => mem[i].next = "none")
          /\ ahead' \subseteq ahead
      BY <1>3, AgedRecord DEF Elapse, TypeOK
    <2>2. ToCome(i) /\ stage = "up"
      BY <1>3, <2>1 DEF ToCome, Elapse
    <2> QED
      BY <1>3, <2>1, <2>2 DEF Scheduling, Elapse, InFlight
  <1>4. CASE CommandLine
    BY <1>4 DEF CommandLine, CliLoad, CliAdd, CliRemove, CliEnable, CliSaves, Scheduling, ToCome, InFlight
  <1> QED
    BY <1>1, <1>2, <1>3, <1>4 DEF Life

LEMMA SchedStep == ASSUME TypeOK, SchedInv, [Next]_vars PROVE SchedInv'
  <1> SUFFICES ASSUME hurt' \cap {"staleEdit", "unscheduled"} = {} PROVE Scheduling'
    BY DEF SchedInv
  <1>1. Scheduling
    BY HurtGrows DEF SchedInv
  <1>2. CASE UNCHANGED vars
    BY <1>1, <1>2 DEF vars, Scheduling, ToCome, InFlight
  <1> QED
    BY <1>1, <1>2, SchedulingTick, SchedulingRuns, SchedulingAPI, SchedulingLife DEF Next

\* An enabled job with a run to come has a next run or a goroutine on its way: no
\* tick that finds it running, no failing save and no race of API calls leaves it
\* behind, edits from stale copies and enablings too late excused.
THEOREM EnabledAreScheduled ==
    ASSUME {"staleEdit", "unscheduled"} \subseteq Excused
    PROVE  Spec => []EnabledIsScheduled
  <1>1. Init => TypeOK /\ SchedInv
    BY TypeInit DEF Init, SchedInv, Scheduling
  <1>2. TypeOK /\ SchedInv /\ [Next]_vars => (TypeOK /\ SchedInv)'
    BY TypeStep, SchedStep
  <1>3. TypeOK /\ SchedInv => EnabledIsScheduled
    BY DEF SchedInv, Scheduling, ToCome, EnabledIsScheduled, Excusing
  <1> QED
    BY <1>1, <1>2, <1>3, PTL DEF Spec

-----------------------------------------------------------------------------
(* A reminder is given once                                                *)

\* A next run that lies ahead is that of a one-shot that does.
Timely(j, rec) == (rec.next = "later" => j \in ahead) /\ (rec.next = "due" => j \notin ahead)

\* Every copy of a one-shot agrees with the clock, also the ones that are stale.
TimelyInv ==
    \A j \in OneShot :
        /\ Timely(j, mem[j]) /\ Timely(j, disk[j])
        /\ Timely(j, cli.jobs[j]) /\ Timely(j, cli.rows[j])
        /\ edit.job = j => Timely(j, edit.read)

\* The goroutines of a tick that have yet to call the handler.
Launched(j) == {k \in Timer : run[j][k] \in {"spawned", "marked", "found"}}

\* Until its time comes, and as long as a tick may still collect it, a one-shot
\* has neither a goroutine nor been given; when it was given none is left to.
Once ==
    \A j \in OneShot :
        /\ j \in ahead \/ (mem[j].on /\ mem[j].next = "due") => j \notin fired /\ Launched(j) = {}
        /\ j \in fired => Launched(j) = {}
        /\ \A k, l \in Launched(j) : k = l

OnceInv == hurt \cap {"staleEdit", "overdue"} # {} \/ Once

LEMMA TimelyInit == Init => TimelyInv
  BY CronAssumption DEF Init, TimelyInv, Timely, NoCli, NoEdit, Gone

LEMMA TimelyGone == \A j : Timely(j, Gone)
  BY DEF Timely, Gone

\* Whatever a save leaves of timely jobs is timely.
LEMMA TimelySave ==
    ASSUME TypeOK, TimelyInv, NEW m \in Jobs, \A j \in OneShot : Timely(j, m[j]), Save(m),
           UNCHANGED ahead
    PROVE  \A j \in OneShot : Timely(j, disk[j])'
  <1> SUFFICES ASSUME NEW j \in OneShot PROVE Timely(j, disk'[j])
    BY DEF Timely
  <1>1. disk'[j] \in {m[j], disk[j], Gone}
    BY SaveLeaves, CronAssumption DEF TypeOK, Jobs
  <1> QED
    BY <1>1, TimelyGone DEF TimelyInv

LEMMA TimelyCompute == \A j \in OneShot : ComputeNextRun(j) = IF j \in ahead THEN "later" ELSE "none"
  BY CronAssumption DEF ComputeNextRun

\* What is left to show of a step that keeps the copies of updates and of `lele cron`.
LEMMA TimelyFrame ==
    ASSUME TimelyInv, UNCHANGED <<ahead, edit, cli>>, \A j \in OneShot : Timely(j, mem'[j]) /\ Timely(j, disk'[j])
    PROVE  TimelyInv'
  BY DEF TimelyInv, Timely

LEMMA TimelyMem ==
    ASSUME TypeOK, TimelyInv, UNCHANGED <<ahead, edit, cli>>, mem' \in Jobs,
           \A j \in OneShot : Timely(j, mem'[j]), Save(mem') \/ UNCHANGED disk
    PROVE  TimelyInv'
  <1>1. \A j \in OneShot : Timely(j, disk'[j])
    BY TimelySave DEF Timely, TimelyInv
  <1> QED
    BY <1>1, TimelyFrame

LEMMA TimelyTick == ASSUME TypeOK, TimelyInv, Tick PROVE TimelyInv'
  <1>1. mem \in Jobs /\ \A j \in Due : mem[j].on
    BY DEF TypeOK, Jobs, Due
  <1>2. mem' \in Jobs /\ \A j \in Job : mem'[j].next \in {"none", mem[j].next}
    BY <1>1, CollectedJobs DEF Tick
  <1>3. \A j \in OneShot : Timely(j, mem'[j])
    BY <1>2, CronAssumption DEF TimelyInv, Timely
  <1> QED
    BY <1>2, <1>3, TimelyMem DEF Tick

LEMMA TimelyRuns == ASSUME TypeOK, TimelyInv, Runs PROVE TimelyInv'
  <1>1. ASSUME NEW j \in Job, NEW k \in 0 .. MaxSpawned, Settle(j, k) PROVE TimelyInv'
    <2>1. CASE Found(j)
      <3>1. /\ mem' \in Jobs /\ \A i \in Job \ {j} : mem'[i] = mem[i]
            /\ j \in OneShot => mem'[j] = Gone
        BY <1>1, <2>1, SettledJobs DEF Settle, Found, TypeOK, Jobs
      <3>2. \A i \in OneShot : Timely(i, mem'[i])
        BY <3>1, TimelyGone, CronAssumption DEF TimelyInv
      <3> QED
        BY <1>1, <2>1, <3>1, <3>2, TimelyMem DEF Settle
    <2>2. CASE ~Found(j)
      BY <1>1, <2>2 DEF Settle, TimelyInv, Timely
    <2> QED
      BY <2>1, <2>2
  <1>2. ASSUME NEW j \in Job, RanNow(j) PROVE TimelyInv'
    <2>1. mem' = mem /\ mem \in Jobs /\ (Save(mem') \/ UNCHANGED disk)
      BY <1>2 DEF RanNow, TypeOK, Jobs
    <2> QED
      BY <1>2, <2>1, TimelyMem DEF RanNow, TimelyInv
  <1>3. CASE UNCHANGED <<ahead, mem, disk, edit, cli>>
    BY <1>3 DEF TimelyInv, Timely
  <1> QED
    BY <1>1, <1>2, <1>3 DEF Runs, Enter, Lookup, Call, Leave

LEMMA TimelyAPI == ASSUME TypeOK, TimelyInv, API PROVE TimelyInv'
  <1>1. ASSUME NEW j \in Job, NEW u \in Record, j \in OneShot => Timely(j, u), mem' = [mem EXCEPT ![j] = u],
               Save(mem') \/ UNCHANGED disk, UNCHANGED <<ahead, cli>>,
               \A i \in OneShot : edit'.job = i => Timely(i, edit'.read)
        PROVE  TimelyInv'
    <2>1. mem' \in Jobs /\ \A i \in OneShot : Timely(i, mem'[i])
      BY <1>1, CronAssumption DEF TypeOK, Jobs, TimelyInv
    <2>2. \A i \in OneShot : Timely(i, disk'[i])
      BY <1>1, <2>1, TimelySave DEF Timely, TimelyInv
    <2> QED
      BY <1>1, <2>1, <2>2 DEF TimelyInv, Timely
  <1>2. \A i \in OneShot : edit.job = i => Timely(i, edit.read)
    BY DEF TimelyInv
  <1>3. ASSUME NEW j \in Job, AddJob(j) PROVE TimelyInv'
    <2> DEFINE u == [there |-> TRUE, on |-> TRUE, next |-> ComputeNextRun(j)]
    <2>1. u \in Record /\ Save(mem') /\ UNCHANGED <<ahead, edit, cli>>
      BY <1>3, NextRunType DEF AddJob, Calling, Save, Record
    <2>2. j \in OneShot => Timely(j, u)
      BY DEF Timely, ComputeNextRun
    <2>3. mem' = [mem EXCEPT ![j] = u]
      BY <1>3 DEF AddJob
    <2> HIDE DEF u
    <2> QED
      BY <1>1, <1>2, <2>1, <2>2, <2>3
  <1>4. ASSUME NEW j \in Job, RemoveJob(j) PROVE TimelyInv'
    BY <1>1, <1>2, <1>4, TimelyGone, GoneIsRecord DEF RemoveJob, Calling
  <1>5. ASSUME NEW j \in Job, NEW on \in BOOLEAN, EnableJob(j, on) PROVE TimelyInv'
    <2> DEFINE u == Enabled(mem[j], j, on)
    <2>1. u \in Record /\ u.next = IF on THEN ComputeNextRun(j) ELSE "none"
      <3>1. mem[j] \in Record /\ mem[j].there
        BY <1>5 DEF EnableJob, TypeOK, Jobs
      <3> QED
        BY <3>1, EnabledRecord
    <2>2. mem' = [mem EXCEPT ![j] = u] /\ Save(mem') /\ UNCHANGED <<ahead, edit, cli>>
      BY <1>5 DEF EnableJob, Calling
    <2> HIDE DEF u
    <2>3. j \in OneShot => Timely(j, u)
      BY <2>1 DEF Timely, ComputeNextRun
    <2> QED
      BY <1>1, <1>2, <2>1, <2>2, <2>3
  <1>6. ASSUME NEW on \in BOOLEAN, EditWrite(on) PROVE TimelyInv'
    <2>1. \A i \in OneShot : Timely(i, edit'.read)
      BY <1>6, TimelyGone DEF EditWrite, NoEdit
    <2>2. CASE mem[edit.job].there
      <3> DEFINE u == [edit.read EXCEPT !.on = on]
      <3>1. u \in Record /\ u.next = edit.read.next
        BY <1>6, WithOn DEF EditWrite, TypeOK
      <3>2. mem' = [mem EXCEPT ![edit.job] = u] /\ Save(mem') /\ UNCHANGED <<ahead, cli>>
        BY <1>6, <2>2 DEF EditWrite, Calling
      <3> HIDE DEF u
      <3> PICK j \in Job : j = edit.job
        BY DEF TypeOK
      <3>3. j \in OneShot => Timely(j, u)
        BY <3>1 DEF TimelyInv, Timely
      <3>4. mem' \in Jobs /\ \A i \in OneShot : Timely(i, mem'[i])
        BY <3>1, <3>2, <3>3, CronAssumption DEF TypeOK, Jobs, TimelyInv
      <3>5. \A i \in OneShot : Timely(i, disk'[i])
        BY <3>2, <3>4, TimelySave DEF Timely
      <3> QED
        BY <2>1, <3>2, <3>4, <3>5 DEF TimelyInv, Timely
    <2>3. CASE ~mem[edit.job].there
      BY <1>6, <2>1, <2>3 DEF EditWrite, Calling, TimelyInv, Timely
    <2> QED
      BY <2>2, <2>3
  <1>7. ASSUME NEW j \in Job, EditRead(j) PROVE TimelyInv'
    BY <1>7 DEF EditRead, TimelyInv, Timely
  <1>8. CASE UNCHANGED <<ahead, mem, disk, edit, cli>>
    BY <1>8 DEF TimelyInv, Timely
  <1> QED
    BY <1>3, <1>4, <1>5, <1>6, <1>7, <1>8 DEF API, RunJobNow, Calling

LEMMA TimelyCli == ASSUME TypeOK, TimelyInv, CommandLine PROVE TimelyInv'
  <1>1. CASE CliLoad
    BY <1>1 DEF CliLoad, TimelyInv, Timely
  <1>2. ASSUME NEW jobs \in Jobs, \A i \in OneShot : Timely(i, jobs[i]), NEW j, NEW told,
               CliSaves(jobs, j, told)
        PROVE  TimelyInv'
    <2>1. Save(jobs) /\ UNCHANGED <<mem, ahead, edit>> /\ cli' = NoCli
      BY <1>2 DEF CliSaves, Save
    <2>2. \A i \in OneShot : Timely(i, disk'[i])
      BY <1>2, <2>1, TimelySave DEF Timely
    <2>3. \A i \in OneShot : Timely(i, cli'.jobs[i]) /\ Timely(i, cli'.rows[i])
      BY <2>1, TimelyGone, CronAssumption DEF NoCli
    <2> QED
      BY <2>1, <2>2, <2>3 DEF TimelyInv, Timely
  <1>3. ASSUME NEW j \in Job, NEW u \in Record, NEW told, j \in OneShot => Timely(j, u),
               CliSaves([cli.jobs EXCEPT ![j] = u], j, told)
        PROVE  TimelyInv'
    <2>1. [cli.jobs EXCEPT ![j] = u] \in Jobs
      BY DEF TypeOK, Jobs
    <2>2. \A i \in OneShot : Timely(i, [cli.jobs EXCEPT ![j] = u][i])
      BY <1>3, CronAssumption DEF TypeOK, TimelyInv
    <2> QED
      BY <1>2, <1>3, <2>1, <2>2
  <1>4. ASSUME NEW j \in Job, CliAdd(j) PROVE TimelyInv'
    <2>1. [there |-> TRUE, on |-> TRUE, next |-> "later"] \in Record
      BY DEF Record
    <2> QED
      BY <1>3, <1>4, <2>1 DEF CliAdd
  <1>5. ASSUME NEW j \in Job, CliRemove(j) PROVE TimelyInv'
    BY <1>3, <1>5, TimelyGone, GoneIsRecord DEF CliRemove
  <1>6. ASSUME NEW j \in Job, NEW on \in BOOLEAN, CliEnable(j, on) PROVE TimelyInv'
    <2> DEFINE u == Enabled(cli.jobs[j], j, on)
    <2>1. u \in Record /\ u.next = IF on THEN ComputeNextRun(j) ELSE "none"
      BY <1>6, EnabledRecord DEF CliEnable, TypeOK
    <2>2. CliSaves([cli.jobs EXCEPT ![j] = u], j, fate[j])
      BY <1>6 DEF CliEnable
    <2> HIDE DEF u
    <2>3. j \in OneShot => Timely(j, u)
      BY <2>1 DEF Timely, ComputeNextRun
    <2> QED
      BY <1>3, <2>1, <2>2, <2>3
  <1> QED
    BY <1>1, <1>4, <1>5, <1>6 DEF CommandLine

LEMMA TimelyLife == ASSUME TypeOK, TimelyInv, Life PROVE TimelyInv'
  <1>1. CASE Start
    <2>1. CASE mem' = RecomputeNextRuns(disk) /\ Save(mem')
      <3>1. disk \in Jobs
        BY DEF TypeOK, Jobs
      <3>2. mem' \in Jobs /\ \A j \in Job : mem'[j].next = IF disk[j].on THEN ComputeNextRun(j) ELSE disk[j].next
        BY <2>1, <3>1, RecomputeJobs
      <3>3. \A j \in OneShot : Timely(j, mem'[j])
        BY <3>2, TimelyCompute, CronAssumption DEF TimelyInv, Timely
      <3> QED
        BY <1>1, <2>1, <3>2, <3>3, TimelyMem DEF Start
    <2>2. CASE UNCHANGED <<mem, disk>>
      BY <1>1, <2>2 DEF Start, TimelyInv, Timely
    <2> QED
      BY <1>1, <2>1, <2>2 DEF Start, Save
  <1>2. CASE StopBegin \/ StopDrained \/ StopExpired
    BY <1>2 DEF StopBegin, StopDrained, StopExpired, TimelyInv, Timely
  <1>3. CASE Exit
    BY <1>3, TimelyGone, CronAssumption DEF Exit, TimelyInv, Timely, NoEdit
  <1>4. ASSUME NEW j \in Job, Elapse(j) PROVE TimelyInv'
    <2> SUFFICES ASSUME NEW i \in OneShot
                 PROVE  /\ Timely(i, mem[i])' /\ Timely(i, disk[i])'
                        /\ Timely(i, cli.jobs[i])' /\ Timely(i, cli.rows[i])'
                        /\ edit'.job = i => Timely(i, edit.read)'
      BY DEF TimelyInv
    <2>1. i \in Job
      BY CronAssumption
    <2>2. CASE i = j
      <3>1. ASSUME NEW r \in Record, Timely(j, r) PROVE Aged(r).next # "later" /\ j \notin ahead'
        BY <1>4, <3>1, AgedRecord DEF Elapse
      <3>2. /\ mem'[j] = Aged(mem[j]) /\ disk'[j] = Aged(disk[j])
            /\ cli'.jobs[j] = Aged(cli.jobs[j]) /\ cli'.rows[j] = Aged(cli.rows[j])
            /\ edit'.job = edit.job /\ (edit.job = j => edit'.read = Aged(edit.read))
        BY <1>4 DEF Elapse, TypeOK
      <3>3. /\ mem[j] \in Record /\ disk[j] \in Record /\ cli.jobs[j] \in Record
            /\ cli.rows[j] \in Record /\ edit.read \in Record
        BY DEF TypeOK
      <3> QED
        BY <2>2, <3>1, <3>2, <3>3 DEF TimelyInv, Timely
    <2>3. CASE i # j
      <3>1. /\ mem'[i] = mem[i] /\ disk'[i] = disk[i] /\ cli'.jobs[i] = cli.jobs[i]
            /\ cli'.rows[i] = cli.rows[i] /\ (i \in ahead' <=> i \in ahead)
            /\ edit'.job = edit.job /\ (edit.job = i => edit' = edit)
        BY <1>4, <2>1, <2>3 DEF Elapse, TypeOK
      <3> QED
        BY <3>1 DEF TimelyInv, Timely
    <2> QED
      BY <2>2, <2>3
  <1> QED
    BY <1>1, <1>2, <1>3, <1>4 DEF Life

LEMMA TimelyStep == ASSUME TypeOK, TimelyInv, [Next]_vars PROVE TimelyInv'
  <1>1. CASE UNCHANGED vars
    BY <1>1 DEF vars, TimelyInv, Timely
  <1> QED
    BY <1>1, TimelyTick, TimelyRuns, TimelyAPI, TimelyCli, TimelyLife DEF Next

\* A one-shot the step leaves alone is still given once.
LEMMA OnceFrame ==
    ASSUME Once, ahead' \subseteq ahead, NEW S \in SUBSET Job,
           \A j \in OneShot \ S : /\ mem'[j].on /\ mem'[j].next = "due" => mem[j].on /\ mem[j].next = "due"
                                  /\ Launched(j)' \subseteq Launched(j)
                                  /\ j \in fired' => j \in fired,
           \A j \in OneShot \cap S :
              /\ j \in ahead' \/ (mem'[j].on /\ mem'[j].next = "due") => j \notin fired' /\ Launched(j)' = {}
              /\ j \in fired' => Launched(j)' = {}
              /\ \A k, l \in Launched(j)' : k = l
    PROVE  Once'
  <1> SUFFICES ASSUME NEW j \in OneShot
               PROVE  /\ j \in ahead' \/ (mem'[j].on /\ mem'[j].next = "due") => j \notin fired' /\ Launched(j)' = {}
                      /\ j \in fired' => Launched(j)' = {}
                      /\ \A k, l \in Launched(j)' : k = l
    BY DEF Once
  <1>1. CASE j \in S
    BY <1>1
  <1>2. CASE j \notin S
    BY <1>2 DEF Once
  <1> QED
    BY <1>1, <1>2

LEMMA OnceMem ==
    ASSUME Once, UNCHANGED <<run, fired>>, ahead' \subseteq ahead,
           \A j \in OneShot : mem'[j].on /\ mem'[j].next = "due" =>
                              (mem[j].on /\ mem[j].next = "due") \/ j \in ahead
    PROVE  Once'
  BY DEF Once, Launched

LEMMA OnceTick == ASSUME TypeOK, TimelyInv, Once, Tick PROVE Once'
  <1>1. mem \in Jobs /\ \A j \in Due : mem[j].on
    BY DEF TypeOK, Jobs, Due
  <1>2. \A j \in Job \ Due : mem'[j] = mem[j] /\ run'[j] = run[j]
    BY <1>1 DEF Tick, Collected
  <1>3. ASSUME NEW j \in OneShot \cap Due
        PROVE  /\ mem'[j].next # "due" /\ j \notin ahead' /\ j \notin fired'
               /\ \A k, l \in Launched(j)' : k = l
    <2> DEFINE n == CHOOSE k \in Idle(j) : \A l \in Idle(j) : k <= l
    <2>1. n \in Timer
      BY <1>3, LaunchPlace DEF Tick, Due
    <2>2. run'[j] = [run[j] EXCEPT ![n] = "spawned"]
      BY <1>3 DEF Tick, Due
    <2> HIDE DEF n
    <2>3. j \notin fired /\ Launched(j) = {} /\ j \notin ahead
      BY <1>3 DEF Once, Due, TimelyInv, Timely
    <2>4. Launched(j)' \subseteq {n}
      BY <1>3, <2>1, <2>2, <2>3, CronAssumption DEF Launched, TypeOK, Timer, Due
    <2>5. mem'[j].next = "none"
      <3>1. j \in Job /\ mem' = Collected(mem, Due)
        BY CronAssumption DEF Tick
      <3> QED
        BY <1>1, <1>3, <3>1, CollectedJobs
    <2> QED
      BY <2>3, <2>4, <2>5 DEF Tick
  <1>4. \A j \in OneShot \ Due : Launched(j)' \subseteq Launched(j)
    BY <1>2, CronAssumption DEF Launched
  <1>5. \A j \in OneShot \ Due : mem'[j] = mem[j]
    BY <1>2, CronAssumption
  <1>6. Due \subseteq Job /\ fired' = fired /\ ahead' \subseteq ahead
    BY DEF Tick, Due
  <1> HIDE DEF Due
  <1> QED
    BY <1>3, <1>4, <1>5, <1>6, OnceFrame

LEMMA OnceRuns == ASSUME TypeOK, Once, Runs PROVE Once'
  <1>1. ASSUME NEW j \in Job, NEW k \in 0 .. MaxSpawned, NEW p, run' = [run EXCEPT ![j][k] = p],
               k \in Timer /\ p \in {"spawned", "marked", "found"}
                   => run[j][k] \in {"spawned", "marked", "found"}
        PROVE  \A i \in OneShot : Launched(i)' \subseteq Launched(i)
    BY <1>1, CronAssumption DEF Launched, TypeOK, Timer
  <1>2. ASSUME NEW j \in Job, NEW k \in 0 .. MaxSpawned, Enter(j, k) PROVE Once'
    <2>1. \A i \in OneShot : Launched(i)' \subseteq Launched(i)
      BY <1>1, <1>2 DEF Enter
    <2> QED
      BY <1>2, <2>1 DEF Enter, Once
  <1>0. ASSUME NEW j \in Job, NEW k \in 0 .. MaxSpawned, Lookup(j, k) PROVE Once'
    <2>1. \A i \in OneShot : Launched(i)' \subseteq Launched(i)
      BY <1>0, <1>1 DEF Lookup
    <2> QED
      BY <1>0, <2>1 DEF Lookup, Once
  <1>3. ASSUME NEW j \in Job, NEW k \in 0 .. MaxSpawned, Call(j, k) PROVE Once'
    <2>1. \A i \in OneShot : Launched(i)' \subseteq Launched(i)
      BY <1>1, <1>3 DEF Call
    <2>2. CASE k \in Timer /\ j \in OneShot
      <3>1. k \in Launched(j) /\ k \notin Launched(j)'
        BY <1>3, <2>2, CronAssumption DEF Call, Launched, TypeOK, Timer
      <3>2. Launched(j)' = {} /\ j \notin ahead /\ ~(mem[j].on /\ mem[j].next = "due")
        BY <2>1, <2>2, <3>1 DEF Once
      <3>3. \A i \in OneShot : i \in fired' => i \in fired \/ i = j
        BY <1>3 DEF Call
      <3> QED
        BY <1>3, <2>1, <3>2, <3>3 DEF Call, Once
    <2>3. CASE ~(k \in Timer /\ j \in OneShot)
      BY <1>3, <2>1, <2>3 DEF Call, Once
    <2> QED
      BY <2>2, <2>3
  <1>4. ASSUME NEW j \in Job, NEW k \in 0 .. MaxSpawned, Settle(j, k) PROVE Once'
    <2>1. \A i \in OneShot : Launched(i)' \subseteq Launched(i)
      BY <1>1, <1>4 DEF Settle
    <2>2. \A i \in OneShot : mem'[i].on => mem'[i] = mem[i]
      <3>1. CASE Found(j)
        BY <1>4, <3>1, SettledJobs, CronAssumption DEF Settle, Found, TypeOK, Jobs, Gone
      <3>2. CASE ~Found(j)
        BY <1>4, <3>2 DEF Settle
      <3> QED
        BY <3>1, <3>2
    <2> QED
      BY <1>4, <2>1, <2>2 DEF Settle, Once
  <1>5. ASSUME NEW j \in Job, NEW k \in 0 .. MaxSpawned, Leave(j, k) PROVE Once'
    <2>1. \A i \in OneShot : Launched(i)' \subseteq Launched(i)
      BY <1>1, <1>5 DEF Leave
    <2> QED
      BY <1>5, <2>1 DEF Leave, Once
  <1>6. ASSUME NEW j \in Job, RanNow(j) PROVE Once'
    <2>1. \A i \in OneShot : Launched(i)' \subseteq Launched(i)
      <3>1. 0 \in 0 .. MaxSpawned /\ 0 \notin Timer /\ run' = [run EXCEPT ![j][0] = "settled"]
        BY <1>6, CronAssumption DEF RanNow, Timer
      <3> QED
        BY <1>1, <3>1
    <2> QED
      BY <1>6, <2>1 DEF RanNow, Once
  <1> QED
    BY <1>0, <1>2, <1>3, <1>4, <1>5, <1>6 DEF Runs

LEMMA OnceAPI ==
    ASSUME TypeOK, Once, API, hurt' \cap {"staleEdit", "overdue"} = {}
    PROVE  Once'
  <1>1. ASSUME NEW j \in Job, NEW u, mem' = [mem EXCEPT ![j] = u], UNCHANGED <<ahead, run, fired>>,
               j \in OneShot /\ u.on /\ u.next = "due" => mem[j].on /\ mem[j].next = "due"
        PROVE  Once'
    <2>1. \A i \in OneShot : mem'[i].on /\ mem'[i].next = "due" => mem[i].on /\ mem[i].next = "due"
      BY <1>1, CronAssumption DEF TypeOK
    <2> QED
      BY <1>1, <2>1, OnceMem
  <1>2. ASSUME NEW j \in Job, AddJob(j) PROVE Once'
    <2>1. ComputeNextRun(j) # "due"
      BY NextRunType
    <2> QED
      BY <1>1, <1>2, <2>1 DEF AddJob
  <1>3. ASSUME NEW j \in Job, RemoveJob(j) PROVE Once'
    BY <1>1, <1>3 DEF RemoveJob, Gone
  <1>4. ASSUME NEW j \in Job, NEW on \in BOOLEAN, EnableJob(j, on) PROVE Once'
    <2> DEFINE u == Enabled(mem[j], j, on)
    <2>1. u.next = IF on THEN ComputeNextRun(j) ELSE "none"
      BY <1>4, EnabledRecord DEF EnableJob, TypeOK
    <2>2. mem' = [mem EXCEPT ![j] = u] /\ UNCHANGED <<ahead, run, fired>>
      BY <1>4 DEF EnableJob
    <2> HIDE DEF u
    <2> QED
      BY <1>1, <2>1, <2>2, NextRunType
  <1>5. ASSUME NEW on \in BOOLEAN, EditWrite(on) PROVE Once'
    <2> PICK j \in Job : j = edit.job
      BY DEF TypeOK
    <2> DEFINE u == [edit.read EXCEPT !.on = on]
    <2>1. CASE mem[j].there
      <3>1. mem' = [mem EXCEPT ![j] = u] /\ UNCHANGED <<ahead, run, fired>>
        BY <1>5, <2>1 DEF EditWrite
      <3>2. mem[j] = edit.read /\ ~(on /\ ~edit.read.on /\ edit.read.next = "due" /\ j \in OneShot)
        BY <1>5, <2>1 DEF EditWrite
      <3>3. u.on = on /\ u.next = edit.read.next
        BY <1>5, WithOn DEF EditWrite, TypeOK
      <3> HIDE DEF u
      <3>4. j \in OneShot /\ u.on /\ u.next = "due" => mem[j].on /\ mem[j].next = "due"
        BY <3>2, <3>3
      <3> QED
        BY <1>1, <3>1, <3>4
    <2>2. CASE ~mem[j].there
      BY <1>5, <2>2 DEF EditWrite, Once, Launched
    <2> QED
      BY <2>1, <2>2
  <1>6. ASSUME NEW j \in Job, RunJobNow(j) PROVE Once'
    <2>1. \A i \in OneShot : Launched(i)' = Launched(i)
      BY <1>6, CronAssumption DEF RunJobNow, Launched, TypeOK, Timer
    <2> QED
      BY <1>6, <2>1 DEF RunJobNow, Once
  <1>7. ASSUME NEW j \in Job, EditRead(j) PROVE Once'
    BY <1>7 DEF EditRead, Once, Launched
  <1> QED
    BY <1>2, <1>3, <1>4, <1>5, <1>6, <1>7 DEF API

LEMMA OnceLife == ASSUME TypeOK, TimelyInv, Once, Life \/ CommandLine PROVE Once'
  <1>1. CASE Start
    <2>1. CASE mem' = RecomputeNextRuns(disk)
      <3>1. disk \in Jobs
        BY DEF TypeOK, Jobs
      <3>2. \A j \in Job : /\ mem'[j].on = disk[j].on
                           /\ mem'[j].next = IF disk[j].on THEN ComputeNextRun(j) ELSE disk[j].next
        BY <2>1, <3>1, RecomputeJobs
      <3>3. \A j \in OneShot : ~(mem'[j].on /\ mem'[j].next = "due")
        BY <3>2, NextRunType, CronAssumption
      <3> QED
        BY <1>1, <3>3, OnceMem DEF Start
    <2>2. CASE UNCHANGED mem
      BY <1>1, <2>2, OnceMem DEF Start
    <2> QED
      BY <1>1, <2>1, <2>2 DEF Start
  <1>2. CASE StopBegin \/ StopDrained \/ StopExpired \/ CommandLine
    BY <1>2, OnceMem
    DEF StopBegin, StopDrained, StopExpired, CommandLine, CliLoad, CliAdd, CliRemove, CliEnable, CliSaves
  <1>3. CASE Exit
    <2>1. \A j \in OneShot : Launched(j)' = {} /\ ~mem'[j].on
      BY <1>3, CronAssumption DEF Exit, Launched, Timer, Gone
    <2> QED
      BY <1>3, <2>1 DEF Exit, Once
  <1>4. ASSUME NEW j \in Job, Elapse(j) PROVE Once'
    <2>1. \A i \in OneShot : mem'[i].on /\ mem'[i].next = "due" =>
                              mem[i].on /\ mem[i].next \in {"due", "later"}
      BY <1>4, AgedRecord, CronAssumption DEF Elapse, TypeOK
    <2> QED
      BY <1>4, <2>1, OnceMem DEF Elapse, TimelyInv, Timely
  <1> QED
    BY <1>1, <1>2, <1>3, <1>4 DEF Life

LEMMA OnceInit == Init => OnceInv
  BY CronAssumption DEF Init, OnceInv, Once, Launched, Timer, Gone

LEMMA OnceStep == ASSUME TypeOK, TimelyInv, OnceInv, [Next]_vars PROVE OnceInv'
  <1> SUFFICES ASSUME hurt' \cap {"staleEdit", "overdue"} = {} PROVE Once'
    BY DEF OnceInv
  <1>1. Once
    BY HurtGrows DEF OnceInv
  <1>2. CASE UNCHANGED vars
    BY <1>1, <1>2 DEF vars, Once, Launched
  <1> QED
    BY <1>1, <1>2, OnceTick, OnceRuns, OnceAPI, OnceLife DEF Next

\* The scheduler calls the handler of a one-shot once at most, over any number of
\* ticks, failing saves, crashes and restarts, if no edit from a stale copy and
\* none that enables a job whose time has come is in play.
THEOREM RemindersOnce ==
    ASSUME {"staleEdit", "overdue"} \subseteq Excused
    PROVE  Spec => OneShotOnce
  <1> DEFINE Inv == TypeOK /\ TimelyInv /\ OnceInv
             Again == \A j \in fired, k \in Timer :
                          run[j][k] = "found" /\ run'[j][k] = "called" => Excusing
  <1>1. Init => Inv
    BY TypeInit, TimelyInit, OnceInit
  <1>2. Inv /\ [Next]_vars => Inv'
    BY TypeStep, TimelyStep, OnceStep
  <1>3. Inv /\ [Next]_vars => [Again]_vars
    <2> SUFFICES ASSUME Inv, NEW j \in fired, NEW k \in Timer, run[j][k] = "found" PROVE Excusing
      OBVIOUS
    <2>1. ~Once
      BY DEF TypeOK, Once, Launched
    <2> QED
      BY <2>1 DEF OnceInv, Excusing
  <1> QED
    BY <1>1, <1>2, <1>3, PTL DEF Spec, OneShotOnce

-----------------------------------------------------------------------------
(* A removed job is not run                                                *)

\* While the service runs a removed job is out of its memory, though perhaps not
\* out of the rows; when it does not run no row is left of it.
Removing ==
    \A j \in Job : fate[j] = "removed" => IF Serving THEN ~mem[j].there ELSE ~disk[j].there

RemovedInv ==
    /\ stage = "down" => AtRest
    /\ cli.busy => cli.jobs = cli.rows
    /\ "foreign" \in hurt \/ Removing

\* A step of a service that runs brings no removed job back into its memory.
LEMMA RemovingMem ==
    ASSUME Removing, Serving, Serving', NEW S \in SUBSET Job,
           \A j \in Job \ S : fate'[j] = fate[j] /\ (mem'[j].there => mem[j].there),
           \A j \in S : fate'[j] = "removed" => ~mem'[j].there
    PROVE  Removing'
  <1> SUFFICES ASSUME NEW j \in Job, fate'[j] = "removed" PROVE ~mem'[j].there
    BY DEF Removing
  <1> QED
    BY DEF Removing

LEMMA RemovingOne ==
    ASSUME Removing, Serving, Serving', NEW j \in Job,
           \A i \in Job \ {j} : fate'[i] = fate[i] /\ (mem'[i].there => mem[i].there),
           fate'[j] = "removed" => ~mem'[j].there
    PROVE  Removing'
  <1>1. {j} \in SUBSET Job /\ \A i \in {j} : fate'[i] = "removed" => ~mem'[i].there
    OBVIOUS
  <1> QED
    BY <1>1, RemovingMem

LEMMA RemovingTick == ASSUME TypeOK, Removing, Tick PROVE Removing'
  <1>1. mem \in Jobs /\ \A j \in Due : mem[j].on
    BY DEF TypeOK, Jobs, Due
  <1>2. \A j \in Job : mem'[j].there = mem[j].there
    BY <1>1, CollectedJobs DEF Tick
  <1>3. {} \in SUBSET Job /\ Serving /\ Serving' /\ fate' = fate
    BY DEF Tick, Serving
  <1> QED
    BY <1>2, <1>3, RemovingMem

LEMMA RemovingRuns == ASSUME TypeOK, stage = "down" => AtRest, Removing, Runs PROVE Removing'
  <1>1. ASSUME NEW j \in Job, NEW k \in 0 .. MaxSpawned, Settle(j, k) PROVE Removing'
    <2>1. Serving /\ Serving'
      BY <1>1 DEF Settle, AtRest, Serving
    <2>2. CASE Found(j)
      <3>1. /\ \A i \in Job \ {j} : mem'[i] = mem[i] /\ fate'[i] = fate[i]
            /\ fate[j] # "removed"
        BY <1>1, <2>1, <2>2, SettledJobs DEF Settle, Found, TypeOK, Jobs, Removing
      <3>2. fate'[j] # "removed"
        BY <1>1, <2>2, <3>1 DEF Settle, TypeOK
      <3> QED
        BY <2>1, <3>1, <3>2, RemovingOne
    <2>3. CASE ~Found(j)
      BY <1>1, <2>3 DEF Settle, Removing, Serving
    <2> QED
      BY <2>2, <2>3
  <1>2. ASSUME NEW j \in Job, RanNow(j) PROVE Removing'
    <2>1. Serving
      BY <1>2, CronAssumption DEF RanNow, AtRest, Serving
    <2> QED
      BY <1>2, <2>1 DEF RanNow, Removing, Serving
  <1>3. CASE UNCHANGED <<stage, mem, disk, fate>>
    BY <1>3 DEF Removing, Serving
  <1> QED
    BY <1>1, <1>2, <1>3 DEF Runs, Enter, Lookup, Call, Leave

LEMMA RemovingAPI == ASSUME TypeOK, Removing, API PROVE Removing'
  <1>1. ASSUME NEW j \in Job, AddJob(j) PROVE Removing'
    <2>1. fate'[j] # "removed" /\ \A i \in Job \ {j} : fate'[i] = fate[i] /\ mem'[i] = mem[i]
      BY <1>1 DEF AddJob, TypeOK
    <2> QED
      BY <1>1, <2>1, RemovingOne DEF AddJob, Calling, Serving
  <1>2. ASSUME NEW j \in Job, RemoveJob(j) PROVE Removing'
    <2>1. mem'[j] = Gone /\ \A i \in Job \ {j} : fate'[i] = fate[i] /\ mem'[i] = mem[i]
      BY <1>2 DEF RemoveJob, TypeOK
    <2>2. ~mem'[j].there
      BY <2>1 DEF Gone
    <2> QED
      BY <1>2, <2>1, <2>2, RemovingOne DEF RemoveJob, Calling, Serving
  <1>3. ASSUME NEW j \in Job, NEW on \in BOOLEAN, EnableJob(j, on) PROVE Removing'
    <2>1. fate'[j] # "removed" /\ \A i \in Job \ {j} : fate'[i] = fate[i] /\ mem'[i] = mem[i]
      BY <1>3 DEF EnableJob, Calling, TypeOK, Removing
    <2> QED
      BY <1>3, <2>1, RemovingOne DEF EnableJob, Calling, Serving
  <1>4. ASSUME NEW on \in BOOLEAN, EditWrite(on) PROVE Removing'
    <2> PICK j \in Job : j = edit.job
      BY DEF TypeOK
    <2>1. CASE mem[j].there
      <3>1. fate'[j] # "removed" /\ \A i \in Job \ {j} : fate'[i] = fate[i] /\ mem'[i] = mem[i]
        BY <1>4, <2>1 DEF EditWrite, Calling, TypeOK, Removing
      <3> QED
        BY <1>4, <3>1, RemovingOne DEF EditWrite, Calling, Serving
    <2>2. CASE ~mem[j].there
      BY <1>4, <2>2 DEF EditWrite, Calling, Removing, Serving
    <2> QED
      BY <2>1, <2>2
  <1>5. CASE UNCHANGED <<stage, mem, disk, fate>>
    BY <1>5 DEF Removing, Serving
  <1> QED
    BY <1>1, <1>2, <1>3, <1>4, <1>5 DEF API, EditRead, RunJobNow

LEMMA RemovingCli ==
    ASSUME TypeOK, cli.busy => cli.jobs = cli.rows, Removing, CommandLine, "foreign" \notin hurt'
    PROVE  Removing'
  <1>1. CASE CliLoad
    BY <1>1 DEF CliLoad, Removing, Serving
  <1>2. ASSUME NEW j \in Job, NEW u \in Record, NEW told,
               CliSaves([cli.jobs EXCEPT ![j] = u], j, told),
               fate[j] # "removed", fate'[j] = "removed" => ~disk'[j].there
        PROVE  Removing'
    <2> DEFINE jobs == [cli.jobs EXCEPT ![j] = u]
    <2>1. ~Serving /\ ~Serving' /\ disk = cli.jobs /\ Save(jobs)
      BY <1>2 DEF CliSaves, Serving, Save
    <2>2. jobs \in Jobs /\ \A i \in Job \ {j} : jobs[i] = disk[i]
      BY <2>1 DEF TypeOK, Jobs
    <2> HIDE DEF jobs
    <2>3. \A i \in Job \ {j} : disk'[i] \in {disk[i], Gone} /\ fate'[i] = fate[i]
      BY <1>2, <2>1, <2>2, SaveLeaves DEF CliSaves, TypeOK, Jobs
    <2>4. ~Gone.there
      BY DEF Gone
    <2> QED
      BY <1>2, <2>1, <2>3, <2>4 DEF Removing
  <1>3. cli.busy /\ ~Serving /\ disk = cli.rows => \A j \in Job : cli.jobs[j].there => fate[j] # "removed"
    BY DEF Removing
  <1>4. ASSUME NEW jobs, NEW j, NEW told, CliSaves(jobs, j, told)
        PROVE  cli.busy /\ ~Serving /\ disk = cli.rows
    BY <1>4 DEF CliSaves
  <1>5. ASSUME NEW j \in Job, CliAdd(j) PROVE Removing'
    <2>1. [there |-> TRUE, on |-> TRUE, next |-> "later"] \in Record
      BY DEF Record
    <2>2. fate'[j] # "removed"
      BY <1>5 DEF CliAdd, CliSaves, TypeOK
    <2> QED
      BY <1>2, <1>5, <2>1, <2>2 DEF CliAdd
  <1>6. ASSUME NEW j \in Job, CliRemove(j) PROVE Removing'
    <2>1. fate[j] # "removed"
      BY <1>3, <1>4, <1>6 DEF CliRemove
    <2> DEFINE jobs == [cli.jobs EXCEPT ![j] = Gone]
    <2>2. CliSaves(jobs, j, "removed") /\ ~jobs[j].there
      BY <1>6 DEF CliRemove, TypeOK, Gone
    <2> HIDE DEF jobs
    <2>3. fate'[j] = "removed" => ~disk'[j].there
      BY <2>1, <2>2 DEF CliSaves, SaveOK, TypeOK
    <2> QED
      BY <1>2, <2>1, <2>2, <2>3, GoneIsRecord DEF jobs
  <1>7. ASSUME NEW j \in Job, NEW on \in BOOLEAN, CliEnable(j, on) PROVE Removing'
    <2> DEFINE u == Enabled(cli.jobs[j], j, on)
    <2>1. u \in Record /\ CliSaves([cli.jobs EXCEPT ![j] = u], j, fate[j])
      BY <1>7, EnabledRecord DEF CliEnable, TypeOK
    <2> HIDE DEF u
    <2>2. fate[j] # "removed"
      BY <1>3, <1>4, <1>7, <2>1 DEF CliEnable
    <2>3. fate'[j] # "removed"
      BY <2>1, <2>2 DEF CliSaves, TypeOK
    <2> QED
      BY <1>2, <2>1, <2>2, <2>3
  <1> QED
    BY <1>1, <1>5, <1>6, <1>7 DEF CommandLine

LEMMA RemovingLife ==
    ASSUME TypeOK, stage = "down" => AtRest, Removing, Life
    PROVE  Removing'
  <1>1. CASE Start
    <2>1. CASE mem' = RecomputeNextRuns(disk)
      <3>1. disk \in Jobs
        BY DEF TypeOK, Jobs
      <3>2. \A j \in Job : mem'[j].there = disk[j].there
        BY <2>1, <3>1, RecomputeJobs
      <3> QED
        BY <1>1, <3>2 DEF Start, Removing, Serving
    <2>2. CASE UNCHANGED <<mem, disk>>
      BY <1>1, <2>2 DEF Start, Removing, Serving, AtRest
    <2> QED
      BY <1>1, <2>1, <2>2 DEF Start
  <1>2. CASE StopBegin \/ StopDrained \/ StopExpired
    BY <1>2 DEF StopBegin, StopDrained, StopExpired, Removing, Serving
  <1>3. CASE Exit
    BY <1>3 DEF Exit, Removing, Serving, TypeOK
  <1>4. ASSUME NEW j \in Job, Elapse(j) PROVE Removing'
    <2>1. \A i \in Job : mem'[i].there = mem[i].there /\ disk'[i].there = disk[i].there
      BY <1>4, AgedRecord DEF Elapse, TypeOK
    <2> QED
      BY <1>4, <2>1 DEF Elapse, Removing, Serving
  <1> QED
    BY <1>1, <1>2, <1>3, <1>4 DEF Life

LEMMA RemovedInit == Init => RemovedInv
  BY KeptInit DEF Init, KeptInv, RemovedInv, Removing

LEMMA RemovedStep == ASSUME TypeOK, RemovedInv, [Next]_vars PROVE RemovedInv'
  <1>1. CASE "foreign" \in hurt'
    BY <1>1, DownStep, CliStep DEF RemovedInv
  <1>2. CASE "foreign" \notin hurt'
    <2>1. Removing
      BY <1>2, HurtGrows DEF RemovedInv
    <2>2. Removing'
      <3>1. CASE UNCHANGED vars
        BY <2>1, <3>1 DEF vars, Removing, Serving
      <3> QED
        BY <1>2, <2>1, <3>1, RemovingTick, RemovingRuns, RemovingAPI, RemovingCli, RemovingLife
        DEF Next, RemovedInv
    <2> QED
      BY <2>2, DownStep, CliStep DEF RemovedInv
  <1> QED
    BY <1>1, <1>2

\* Once the removal of a job was reported no run finds it and calls its handler
\* that had not found it before: no goroutine launched earlier, no run by hand,
\* and none because an edit, a settled run or a torn save brought the job back,
\* `lele cron` beside the service excused.  The copy is taken under the lock and
\* the handler called after it: a run that had found the job is not held back.
THEOREM RemovedAreNotRun ==
    ASSUME "foreign" \in Excused
    PROVE  Spec => RemovedNeverRuns
  <1> DEFINE Inv == TypeOK /\ RemovedInv
             Late == \A j \in Job, k \in 0 .. MaxSpawned :
                        fate[j] = "removed" /\ run[j][k] \notin {"found", "called"}
                          => run'[j][k] \notin {"found", "called"} \/ Excusing
  <1>1. Init => Inv
    BY TypeInit, RemovedInit
  <1>2. Inv /\ [Next]_vars => Inv'
    BY TypeStep, RemovedStep
  <1>3. Inv /\ [Next]_vars => [Late]_vars
    <2> SUFFICES ASSUME Inv, [Next]_vars, NEW j \in Job, NEW k \in 0 .. MaxSpawned,
                        run[j][k] \notin {"found", "called"}, run'[j][k] \in {"found", "called"},
                        "foreign" \notin hurt
                 PROVE  fate[j] # "removed"
      BY DEF Excusing
    <2>0. ASSUME NEW i \in Job, NEW l \in 0 .. MaxSpawned, NEW p, run' = [run EXCEPT ![i][l] = p]
          PROVE  i = j /\ l = k /\ p \in {"found", "called"}
      BY <2>0 DEF TypeOK
    <2>1. run[j][k] = "marked" /\ mem[j].there
      <3>1. CASE Runs
        <4>0. 0 \in 0 .. MaxSpawned
          BY CronAssumption
        <4>1. PICK i \in Job, l \in 0 .. MaxSpawned :
                 Enter(i, l) \/ Lookup(i, l) \/ Call(i, l) \/ Settle(i, l) \/ Leave(i, l) \/ RanNow(i)
          BY <3>1, <4>0 DEF Runs
        <4>2. CASE Lookup(i, l)
          BY <2>0, <4>2 DEF Lookup, Found
        <4>3. CASE Call(i, l)
          BY <2>0, <4>3 DEF Call
        <4>4. CASE Enter(i, l) \/ Settle(i, l) \/ Leave(i, l) \/ RanNow(i)
          BY <2>0, <4>0, <4>4 DEF Enter, Settle, Leave, RanNow
        <4> QED
          BY <4>1, <4>2, <4>3, <4>4
      <3>2. CASE Tick
        BY <3>2 DEF Tick, TypeOK
      <3>3. CASE Exit
        BY <3>3 DEF Exit
      <3>4. ASSUME NEW i \in Job, RunJobNow(i) PROVE FALSE
        BY <2>0, <3>4, CronAssumption DEF RunJobNow
      <3>5. CASE UNCHANGED run
        BY <3>5
      <3> QED
        BY <3>1, <3>2, <3>3, <3>4, <3>5
        DEF Next, vars, API, AddJob, RemoveJob, EditRead, EnableJob, EditWrite, CommandLine, CliLoad,
            CliAdd, CliRemove, CliEnable, CliSaves, Life, Start, StopBegin, StopDrained, StopExpired, Elapse
    <2>2. Serving
      BY <2>1 DEF RemovedInv, AtRest, Serving
    <2> QED
      BY <2>1, <2>2 DEF RemovedInv, Removing
  <1> QED
    BY <1>1, <1>2, <1>3, PTL DEF Spec, RemovedNeverRuns
=============================================================================
