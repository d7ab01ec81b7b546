---------------------------- MODULE DeviceSchedule ----------------------------
(***************************************************************************)
(* Scheduled device jobs: the scheduler_logs table, the BullMQ queue in    *)
(* Redis, the calls that schedule a job, the boot-time recovery and the    *)
(* worker.                                                                 *)
(*                                                                         *)
(* Table and queue are written one after the other and neither knows of    *)
(* the other; the process may die between any two awaited calls, and the   *)
(* worker runs while recovery goes through the rows it read at start.      *)
(***************************************************************************)
EXTENDS Naturals

CONSTANTS
  Once,        \* ids of jobs of category once
  Repeat,      \* ids of jobs of category repeat
  Callers,     \* flows that schedule jobs
  Boot,        \* the flow of initializeDeviceSchedule
  NoJob,       \* no job
  MaxCrashes,  \* bound on process deaths
  MaxFaults    \* bound on failing database and Redis calls

Jobs == Once \cup Repeat

Flows == Callers \cup {Boot}

ASSUME DeviceScheduleAssumption ==
  /\ Once \cap Repeat = {}
  /\ Boot \notin Callers
  /\ NoJob \notin Jobs
  /\ MaxCrashes \in Nat
  /\ MaxFaults \in Nat

VARIABLES
  status,      \* status[j]: scheduler_logs.status, or "absent"
  removed,     \* jobs whose row is soft-deleted
  due,         \* jobs whose run_at has come
  bull,        \* bull[j]: BullMQ state of j's job (of a repeat: its occurrence)
  registered,  \* jobs in BullMQ's set of repeatable jobs
  stalls,      \* stalls[j]: BullMQ's stalled counter
  flow,        \* flow[f]: where flow f is
  worker,      \* the job processor, one job at a time
  runs,        \* history: runs[j]: how often once job j was carried out
  mishaps,     \* history: mishaps[j]: what went wrong around j
  crashes, faults

vars == <<status, removed, due, bull, registered, stalls, flow, worker, runs,
          mishaps, crashes, faults>>

Idle == [pc |-> "idle", job |-> NoJob, zero |-> FALSE, todo |-> {},
         loop |-> "once"]

Resting == [pc |-> "idle", job |-> NoJob, outcome |-> "completed"]

\* unqueued: its enqueue failed, or recovery gave up before it.  Of once jobs
\* only, unrecorded: its result could not be written; rerun: the process died
\* between acting and finishing; raced: it was carried out while a flow was
\* enqueueing it or had read its row as pending; stalledOut: BullMQ gave it up.
Mishap == {"unqueued", "unrecorded", "rerun", "raced", "stalledOut"}

TypeOK ==
  /\ status \in [Jobs -> {"absent", "pending", "active", "completed", "failed"}]
  /\ removed \subseteq Jobs
  /\ due \subseteq Jobs
  /\ bull \in [Jobs -> {"none", "delayed", "waiting", "active", "failed"}]
  /\ registered \subseteq Repeat
  /\ stalls \in [Jobs -> 0 .. 1]
  /\ flow \in [Flows ->
       [pc : {"idle", "delay", "getJob", "getState", "remove", "add", "check", "register",
              "readOnce", "readRepeat", "list", "next"},
        job : Jobs \cup {NoJob}, zero : BOOLEAN, todo : SUBSET Jobs,
        loop : {"once", "repeat"}]]
  /\ worker \in [pc : {"idle", "lookup", "act", "record", "finish"},
                 job : Jobs \cup {NoJob},
                 outcome : {"completed", "failed", "thrown"}]
  /\ runs \in [Once -> Nat]
  /\ mishaps \in [Jobs -> SUBSET Mishap]
  /\ \A j \in Repeat : mishaps[j] \subseteq {"unqueued"}
  /\ crashes \in 0 .. MaxCrashes
  /\ faults \in 0 .. MaxFaults

Init ==
  /\ status = [j \in Jobs |-> "absent"]
  /\ removed = {}
  /\ due = {}
  /\ bull = [j \in Jobs |-> "none"]
  /\ registered = {}
  /\ stalls = [j \in Jobs |-> 0]
  /\ flow = [f \in Flows |-> IF f = Boot THEN [Idle EXCEPT !.pc = "readOnce"]
                                         ELSE Idle]
  /\ worker = Resting
  /\ runs = [j \in Once |-> 0]
  /\ mishaps = [j \in Jobs |-> {}]
  /\ crashes = 0
  /\ faults = 0

dbVars == <<status, removed>>
redisVars == <<bull, registered, stalls>>
boundVars == <<crashes, faults>>

Marked(js, what) ==
  [j \in Jobs |-> IF j \in js THEN mishaps[j] \cup {what} ELSE mishaps[j]]

Holds(f, j) == flow[f].job = j \/ j \in flow[f].todo

\* Recovery has not read the rows of j's category yet.
ToBeRead(j) ==
  \/ flow[Boot].pc = "readOnce"
  \/ /\ j \in Repeat
     /\ \/ flow[Boot].pc = "readRepeat"
        \/ flow[Boot].pc # "idle" /\ flow[Boot].loop = "once"

Queued(j) == bull[j] \in {"delayed", "waiting", "active"} \/ j \in registered

-----------------------------------------------------------------------------
\* Recovery after one more row of the loop it is in.
AfterRow(todo, loop) ==
  IF todo # {} THEN [Idle EXCEPT !.pc = "next", !.todo = todo, !.loop = loop]
  ELSE IF loop = "once" THEN [Idle EXCEPT !.pc = "readRepeat"]
  ELSE Idle

\* A flow after its enqueue: a caller is done, recovery goes on.
Enqueued(f) ==
  flow' = [flow EXCEPT ![f] = IF f = Boot THEN AfterRow(@.todo, @.loop) ELSE Idle]

\* Mutant: the category is not looked at, every job is registered.
ScheduleRepeating(c, j) ==
  /\ flow[c].pc = "idle"
  /\ status[j] = "absent"
  /\ status' = [status EXCEPT ![j] = IF j \in Once THEN "pending" ELSE "active"]
  /\ flow' = [flow EXCEPT ![c] = [Idle EXCEPT !.pc = "check", !.job = j]]
  /\ UNCHANGED <<removed, due, redisVars, worker, runs, mishaps, boundVars>>

\* persistOnceJob, persistRepeatJob: the row comes first, then the queue.  A
\* time to come is required, so the job is not due yet.
Schedule(c, j) ==
  /\ flow[c].pc = "idle"
  /\ status[j] = "absent"
  /\ status' = [status EXCEPT ![j] = IF j \in Once THEN "pending" ELSE "active"]
  /\ flow' = [flow EXCEPT ![c] =
                [Idle EXCEPT !.pc = IF j \in Once THEN "delay" ELSE "check",
                             !.job = j]]
  /\ UNCHANGED <<removed, due, redisVars, worker, runs, mishaps, boundVars>>

\* enqueueDeviceScheduleJob is called when the row is there; zero: the delay is 0.
SetDelay(c) ==
  /\ flow[c].pc = "delay"
  /\ flow' = [flow EXCEPT ![c].pc = "getJob", ![c].zero = flow[c].job \in due]
  /\ UNCHANGED <<dbVars, due, redisVars, worker, runs, mishaps, boundVars>>

GetJob(f) ==
  /\ flow[f].pc = "getJob"
  /\ flow' = [flow EXCEPT ![f].pc =
                IF bull[flow[f].job] = "none" THEN "add" ELSE "getState"]
  /\ UNCHANGED <<dbVars, due, redisVars, worker, runs, mishaps, boundVars>>

GetState(f) ==
  /\ flow[f].pc = "getState"
  /\ IF flow[f].zero /\ bull[flow[f].job] \in {"delayed", "waiting"}
     THEN flow' = [flow EXCEPT ![f].pc = "remove"]
     ELSE Enqueued(f)
  /\ UNCHANGED <<dbVars, due, redisVars, worker, runs, mishaps, boundVars>>

\* existing.remove() of a job the worker does not hold.
RemoveOverdue(f) ==
  /\ flow[f].pc = "remove"
  /\ bull[flow[f].job] # "active"
  /\ bull' = [bull EXCEPT ![flow[f].job] = "none"]
  /\ flow' = [flow EXCEPT ![f].pc = "add"]
  /\ UNCHANGED <<dbVars, due, registered, stalls, worker, runs, mishaps,
                 boundVars>>

\* Queue.add ignores an id it knows.
Add(f) ==
  LET j == flow[f].job
  IN /\ flow[f].pc = "add"
     /\ bull' = IF bull[j] # "none" THEN bull
                ELSE [bull EXCEPT ![j] = IF flow[f].zero THEN "waiting"
                                                         ELSE "delayed"]
     /\ stalls' = IF bull[j] # "none" THEN stalls ELSE [stalls EXCEPT ![j] = 0]
     /\ Enqueued(f)
     /\ UNCHANGED <<dbVars, due, registered, worker, runs, mishaps, boundVars>>

\* enqueueRepeatDeviceScheduleJob.
CheckRepeat(f) ==
  /\ flow[f].pc = "check"
  /\ IF flow[f].job \in registered THEN Enqueued(f)
     ELSE flow' = [flow EXCEPT ![f].pc = "register"]
  /\ UNCHANGED <<dbVars, due, redisVars, worker, runs, mishaps, boundVars>>

Register(f) ==
  /\ flow[f].pc = "register"
  /\ registered' = registered \cup {flow[f].job}
  /\ Enqueued(f)
  /\ UNCHANGED <<dbVars, due, bull, stalls, worker, runs, mishaps, boundVars>>

\* A call of flow f throws: it fails (a fault), or a worker took the job that
\* is to be removed.  Nobody retries; of recovery, all that is left is skipped.
Throws(f) ==
  /\ flow' = [flow EXCEPT ![f] = Idle]
  /\ mishaps' =
       Marked({j \in Jobs :
                 /\ status[j] \in {"pending", "active"} /\ ~Queued(j)
                 /\ \A g \in Flows \ {f} : ~Holds(g, j)
                 /\ f = Boot \/ ~ToBeRead(j)},
              "unqueued")
  /\ UNCHANGED <<dbVars, due, redisVars, worker, runs>>

CallFails(f) ==
  /\ flow[f].pc \notin {"idle", "delay", "next"}
  /\ faults < MaxFaults
  /\ faults' = faults + 1
  /\ Throws(f)
  /\ UNCHANGED crashes

RemoveLocked(f) ==
  /\ flow[f].pc = "remove"
  /\ bull[flow[f].job] = "active"
  /\ Throws(f)
  /\ UNCHANGED boundVars

-----------------------------------------------------------------------------
\* Mutants: only overdue rows are recovered; completed rows are, too.
ReadOverdue ==
  /\ flow[Boot].pc = "readOnce"
  /\ flow' = [flow EXCEPT ![Boot] =
                AfterRow({j \in due \ removed : status[j] = "pending"}, "once")]
  /\ UNCHANGED <<dbVars, due, redisVars, worker, runs, mishaps, boundVars>>

ReadAllOnce ==
  /\ flow[Boot].pc = "readOnce"
  /\ flow' = [flow EXCEPT ![Boot] =
                AfterRow({j \in Once \ removed :
                            status[j] \in {"pending", "completed"}}, "once")]
  /\ UNCHANGED <<dbVars, due, redisVars, worker, runs, mishaps, boundVars>>

\* recoverPendingOnceJobs and recoverActiveRepeatJobs read their rows, then go
\* through them one at a time.
ReadOnce ==
  LET rows == {j \in Once : status[j] = "pending" /\ j \notin removed}
  IN /\ flow[Boot].pc = "readOnce"
     /\ flow' = [flow EXCEPT ![Boot] = AfterRow(rows, "once")]
     /\ mishaps' = Marked(IF worker.pc = "record" THEN rows \cap {worker.job}
                          ELSE {}, "raced")
     /\ UNCHANGED <<dbVars, due, redisVars, worker, runs, boundVars>>

ReadRepeat ==
  LET rows == {j \in Repeat : status[j] = "active" /\ j \notin removed}
  IN /\ flow[Boot].pc = "readRepeat"
     /\ flow' = [flow EXCEPT ![Boot] =
                   IF rows = {} THEN Idle
                   ELSE [Idle EXCEPT !.pc = "list", !.todo = rows,
                                     !.loop = "repeat"]]
     /\ UNCHANGED <<dbVars, due, redisVars, worker, runs, mishaps, boundVars>>

ListRepeatable ==
  /\ flow[Boot].pc = "list"
  /\ flow' = [flow EXCEPT ![Boot] = AfterRow(@.todo \ registered, "repeat")]
  /\ UNCHANGED <<dbVars, due, redisVars, worker, runs, mishaps, boundVars>>

\* Mutant: every recovered job is enqueued for now.
NextRowNow(j) ==
  /\ flow[Boot].pc = "next"
  /\ j \in flow[Boot].todo
  /\ flow' = [flow EXCEPT
       ![Boot].pc = IF j \in Once THEN "getJob" ELSE "check",
       ![Boot].job = j, ![Boot].todo = @ \ {j}, ![Boot].zero = TRUE]
  /\ UNCHANGED <<dbVars, due, redisVars, worker, runs, mishaps, boundVars>>

NextRow(j) ==
  /\ flow[Boot].pc = "next"
  /\ j \in flow[Boot].todo
  /\ flow' = [flow EXCEPT
       ![Boot].pc = IF j \in Once THEN "getJob" ELSE "check",
       ![Boot].job = j, ![Boot].todo = @ \ {j}, ![Boot].zero = j \in due]
  /\ UNCHANGED <<dbVars, due, redisVars, worker, runs, mishaps, boundVars>>

-----------------------------------------------------------------------------
\* The worker takes a waiting job and runs executeActuatorJob (or
\* executeSensorDataJob, which takes the same steps but reads the log).
Take(j) ==
  /\ worker.pc = "idle"
  /\ bull[j] = "waiting"
  /\ bull' = [bull EXCEPT ![j] = "active"]
  /\ worker' = [Resting EXCEPT !.pc = "lookup", !.job = j]
  /\ UNCHANGED <<dbVars, due, registered, stalls, flow, runs, mishaps, boundVars>>

\* The device is found ("act"), is no actuator ("failed"), or is not found.
Lookup(result) ==
  /\ worker.pc = "lookup"
  /\ worker' = IF result = "act" THEN [worker EXCEPT !.pc = "act"]
               ELSE [worker EXCEPT !.pc = "record", !.outcome = result]
  /\ UNCHANGED <<dbVars, due, redisVars, flow, runs, mishaps, boundVars>>

\* The device log row, then the MQTT command.
Act ==
  LET j == worker.job
  IN /\ worker.pc = "act"
     /\ worker' = [worker EXCEPT !.pc = "record"]
     /\ runs' = IF j \in Once THEN [runs EXCEPT ![j] = @ + 1] ELSE runs
     /\ mishaps' = IF \E f \in Flows : Holds(f, j) THEN Marked({j} \cap Once, "raced")
                   ELSE mishaps
     /\ UNCHANGED <<dbVars, due, redisVars, flow, boundVars>>

ActFails ==
  /\ worker.pc = "act"
  /\ worker' = [worker EXCEPT !.pc = "record", !.outcome = "thrown"]
  /\ UNCHANGED <<dbVars, due, redisVars, flow, runs, mishaps, boundVars>>

\* Mutant: the early returns record nothing.
RecordUnlessReturned ==
  LET j == worker.job
  IN /\ worker.pc = "record"
     /\ status' = IF j \in removed \/ worker.outcome = "failed" THEN status
                  ELSE [status EXCEPT ![j] =
                          IF worker.outcome = "thrown" THEN "failed"
                          ELSE IF j \in Repeat THEN "active" ELSE "completed"]
     /\ worker' = [worker EXCEPT !.pc = "finish"]
     /\ UNCHANGED <<removed, due, redisVars, flow, runs, mishaps, boundVars>>

\* Mutant: an early return counts as carried out.
RecordReturned ==
  LET j == worker.job
  IN /\ worker.pc = "record"
     /\ status' = IF j \in removed THEN status
                  ELSE [status EXCEPT ![j] =
                          CASE worker.outcome = "thrown" -> "failed"
                            [] j \in Repeat -> "active"
                            [] OTHER -> "completed"]
     /\ worker' = [worker EXCEPT !.pc = "finish"]
     /\ UNCHANGED <<removed, due, redisVars, flow, runs, mishaps, boundVars>>

\* recordSchedulerResult: a repeat job that completed stays active; a failed
\* update is logged and forgotten.
Record ==
  LET j == worker.job
      completed == worker.outcome = "completed"
  IN /\ worker.pc = "record"
     /\ status' = IF j \in removed THEN status
                  ELSE [status EXCEPT ![j] =
                          CASE completed /\ j \in Repeat -> "active"
                            [] completed -> "completed"
                            [] OTHER -> "failed"]
     /\ worker' = [worker EXCEPT !.pc = "finish"]
     /\ UNCHANGED <<removed, due, redisVars, flow, runs, mishaps, boundVars>>

RecordFails ==
  /\ worker.pc = "record"
  /\ faults < MaxFaults
  /\ faults' = faults + 1
  /\ worker' = [worker EXCEPT !.pc = "finish"]
  /\ mishaps' = Marked({worker.job} \cap Once, "unrecorded")
  /\ UNCHANGED <<dbVars, due, redisVars, flow, runs, crashes>>

\* removeOnComplete; a job that threw is kept for a week.
Finish ==
  LET j == worker.job
  IN /\ worker.pc = "finish"
     /\ bull' = [bull EXCEPT ![j] =
                   IF worker.outcome = "thrown" /\ j \in Once THEN "failed"
                   ELSE "none"]
     /\ worker' = Resting
     /\ UNCHANGED <<dbVars, due, registered, stalls, flow, runs, mishaps,
                    boundVars>>

-----------------------------------------------------------------------------
\* BullMQ: the scheduler promotes delayed jobs, makes the next occurrence of a
\* repeatable one, and hands a job whose worker died out again, once.
Promote(j) ==
  /\ bull[j] = "delayed"
  /\ j \in due
  /\ bull' = [bull EXCEPT ![j] = "waiting"]
  /\ UNCHANGED <<dbVars, due, registered, stalls, flow, worker, runs, mishaps,
                 boundVars>>

Occur(j) ==
  /\ j \in registered
  /\ bull[j] = "none"
  /\ bull' = [bull EXCEPT ![j] = "waiting"]
  /\ stalls' = [stalls EXCEPT ![j] = 0]
  /\ UNCHANGED <<dbVars, due, registered, flow, worker, runs, mishaps, boundVars>>

Stalled(j) ==
  /\ bull[j] = "active"
  /\ worker.job # j
  /\ IF stalls[j] = 0
     THEN /\ bull' = [bull EXCEPT ![j] = "waiting"]
          /\ stalls' = [stalls EXCEPT ![j] = 1]
          /\ UNCHANGED mishaps
     ELSE /\ bull' = [bull EXCEPT ![j] = IF j \in Once THEN "failed" ELSE "none"]
          /\ mishaps' = Marked({j} \cap Once, "stalledOut")
          /\ UNCHANGED stalls
  /\ UNCHANGED <<dbVars, due, registered, flow, worker, runs, boundVars>>

\* The run_at of a once job comes.
ComesDue(j) ==
  /\ status[j] # "absent"
  /\ j \notin due
  /\ due' = due \cup {j}
  /\ UNCHANGED <<dbVars, redisVars, flow, worker, runs, mishaps, boundVars>>

\* SchedulerLogService.remove deletes the row, and only the row.
RemoveLog(j) ==
  /\ status[j] # "absent"
  /\ j \notin removed
  /\ removed' = removed \cup {j}
  /\ UNCHANGED <<status, due, redisVars, flow, worker, runs, mishaps, boundVars>>

\* The process dies and starts again; table and queue stay.
Crash ==
  /\ crashes < MaxCrashes
  /\ crashes' = crashes + 1
  /\ flow' = [f \in Flows |-> IF f = Boot THEN [Idle EXCEPT !.pc = "readOnce"]
                                         ELSE Idle]
  /\ worker' = Resting
  /\ mishaps' = [j \in Jobs |->
       (mishaps[j] \ {"unqueued"})
         \cup (IF /\ worker.job = j /\ j \in Once /\ worker.pc \in {"record", "finish"}
                  /\ worker.outcome = "completed"
               THEN {"rerun"} ELSE {})]
  /\ UNCHANGED <<dbVars, due, redisVars, runs, faults>>

EnqueueStep(f) ==
  \/ SetDelay(f) \/ GetJob(f) \/ GetState(f) \/ RemoveOverdue(f) \/ RemoveLocked(f) \/ Add(f)
  \/ CheckRepeat(f) \/ Register(f)

RecoveryStep ==
  ReadOnce \/ ReadRepeat \/ ListRepeatable \/ \E j \in Jobs : NextRow(j)

WorkerStep ==
  \/ \E result \in {"act", "failed", "thrown"} : Lookup(result)
  \/ Act \/ ActFails \/ Record \/ RecordFails \/ Finish

Next ==
  \/ \E c \in Callers, j \in Jobs : Schedule(c, j)
  \/ \E f \in Flows : EnqueueStep(f) \/ CallFails(f)
  \/ RecoveryStep
  \/ \E j \in Jobs : Take(j)
  \/ WorkerStep
  \/ \E j \in Jobs : Promote(j) \/ Stalled(j) \/ RemoveLog(j)
  \/ \E j \in Repeat : Occur(j)
  \/ \E j \in Once : ComesDue(j)
  \/ Crash

\* Calls return, time passes and BullMQ does its part; it hands out waiting
\* jobs in order, so that none is passed over for ever.
Fairness ==
  /\ \A f \in Flows : WF_vars(EnqueueStep(f))
  /\ WF_vars(RecoveryStep)
  /\ WF_vars(WorkerStep)
  /\ \A j \in Jobs : SF_vars(Take(j)) /\ WF_vars(Promote(j)) /\ WF_vars(Stalled(j))
  /\ \A j \in Once : WF_vars(ComesDue(j))

Spec == Init /\ [][Next]_vars /\ Fairness

-----------------------------------------------------------------------------
(***************************************************************************)
(* No schedule is lost: an unsettled row has its job in the queue, in the  *)
(* hands of a caller or of recovery, or is still to be read by recovery,   *)
(* whatever died in between; unless an enqueue failed or recovery gave up, *)
(* BullMQ gave the job up, or its result was not recorded.                 *)
(***************************************************************************)
NoScheduleLost ==
  \A j \in Jobs \ removed :
    status[j] \in {"pending", "active"}
      => \/ Queued(j)
         \/ \E f \in Flows : Holds(f, j)
         \/ ToBeRead(j)
         \/ mishaps[j] \cap {"unqueued", "unrecorded", "stalledOut"} # {}

(***************************************************************************)
(* A job of category once is carried out at most once, unless the process  *)
(* died between acting and finishing, the result was not recorded, or the  *)
(* worker ran it while recovery went through its row.                      *)
(***************************************************************************)
RunsOnce ==
  \A j \in Once :
    runs[j] > 1 => mishaps[j] \cap {"rerun", "unrecorded", "raced"} # {}

(***************************************************************************)
(* No job of category once is carried out before its time, neither by the  *)
(* call that schedules it nor after a restart.                             *)
(***************************************************************************)
NeverEarly == \A j \in Once : runs[j] > 0 => j \in due

\* What the one who scheduled a once job sees of it.
Asked == {j \in Once : status[j] # "absent"}

Verdict ==
  [j \in Once |-> IF status[j] \in {"completed", "failed"} THEN status[j] ELSE "open"]

MayRunAgain == {j \in Once : mishaps[j] \cap {"rerun", "unrecorded", "raced"} # {}}

MayBeLost ==
  {j \in Once : mishaps[j] \cap {"unqueued", "unrecorded", "stalledOut"} # {}}

Promise ==
  INSTANCE SchedulePromise WITH
    asked <- Asked, withdrawn <- removed \cap Once, due <- due \cap Once,
    verdict <- Verdict, excused <- MayRunAgain, lost <- MayBeLost

(***************************************************************************)
(* The calls, the queue, recovery and the worker together keep the promise *)
(* of SchedulePromise: a once job runs when its time has come, one time,   *)
(* and does not stay pending for ever, across a crash at any point; its    *)
(* row says completed only if it ran, and then finally, and failed only if *)
(* it did not; the exceptions are those above.                             *)
(***************************************************************************)
KeepsPromise == Promise!Spec
=============================================================================
