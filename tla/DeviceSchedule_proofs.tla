------------------------ MODULE DeviceSchedule_proofs ------------------------
(***************************************************************************)
(* Proofs about DeviceSchedule: its types, that no once job runs before    *)
(* its time or twice unexcused, and that no schedule is lost.              *)
(***************************************************************************)
EXTENDS DeviceSchedule, TLAPS

Enqueuing == {"delay", "getJob", "getState", "remove", "add"}
Registering == {"check", "register"}

\* Who holds a job and where: only recovery has rows to go through, and a caller's
\* delay is set after its row is there.
FlowsInPlace ==
  \A f \in Flows :
    /\ flow[f].pc \in Enqueuing => flow[f].job \in Once
    /\ flow[f].pc \in Registering => flow[f].job \in Repeat
    /\ flow[f].pc \notin Enqueuing \cup Registering => flow[f].job = NoJob
    /\ flow[f].pc \in {"idle", "readOnce", "readRepeat"} => flow[f].todo = {}
    /\ flow[f].job \notin flow[f].todo
    /\ flow[f].pc = "list" => flow[f].loop = "repeat"
    /\ f = Boot => flow[f].pc # "delay"
    /\ f # Boot => /\ flow[f].pc \in {"idle"} \cup Enqueuing \cup Registering
                   /\ flow[f].pc = "delay" => ~flow[f].zero
                   /\ flow[f].todo = {}

CallersApart ==
  \A c, d \in Callers : flow[c].job = flow[d].job => c = d \/ flow[c].job = NoJob

WorkerHolds ==
  IF worker.pc = "idle" THEN worker.job = NoJob
  ELSE worker.job \in Jobs /\ bull[worker.job] = "active"

\* The row comes before everything else that is known of a job.
RowFirst ==
  \A j \in Jobs :
    /\ status[j] = "absent"
         => bull[j] = "none" /\ j \notin registered /\ \A f \in Flows : ~Holds(f, j)
    /\ j \in Once => status[j] # "active"
    /\ j \in Repeat => /\ status[j] # "pending"
                       /\ bull[j] # "none" => j \in registered

BaseInv == TypeOK /\ FlowsInPlace /\ CallersApart /\ WorkerHolds /\ RowFirst

FlowType ==
  [pc : {"idle", "delay", "getJob", "getState", "remove", "add", "check", "register",
         "readOnce", "readRepeat", "list", "next"},
   job : Jobs \cup {NoJob}, zero : BOOLEAN, todo : SUBSET Jobs,
   loop : {"once", "repeat"}]

-----------------------------------------------------------------------------
\* Where a flow is after its enqueue: it lets go of its job, and recovery
\* still has all the rows it had left.
Released(f, r) ==
  /\ r \in FlowType
  /\ r.pc \in {"idle", "readRepeat", "next"}
  /\ r.job = NoJob
  /\ ~r.zero
  /\ r.todo = flow[f].todo
  /\ r.pc # "next" => r.todo = {}
  /\ f # Boot => r.pc = "idle"
  /\ f = Boot /\ flow[f].loop = "once" => r.pc # "idle" /\ r.loop = "once"

LEMMA EnqueuedReleases ==
  ASSUME TypeOK, FlowsInPlace, NEW f \in Flows, Enqueued(f)
  PROVE  \E r : Released(f, r) /\ flow' = [flow EXCEPT ![f] = r]
<1> USE DEF TypeOK, FlowsInPlace, FlowType, Idle, Jobs, Flows
<1>1. CASE f # Boot
  <2>1. Released(f, Idle)
    BY <1>1 DEF Released
  <2>2. QED
    BY <1>1, <2>1 DEF Enqueued
<1>2. CASE f = Boot
  <2>1. Released(f, AfterRow(flow[f].todo, flow[f].loop))
    BY <1>2 DEF Released, AfterRow
  <2>2. QED
    BY <1>2, <2>1 DEF Enqueued
<1>3. QED
  BY <1>1, <1>2

\* Recovery when it has read its rows.
LEMMA AfterRowType ==
  ASSUME NEW rows \in SUBSET Jobs, NEW l \in {"once", "repeat"}
  PROVE  /\ AfterRow(rows, l) \in FlowType
         /\ AfterRow(rows, l).pc \in {"idle", "readRepeat", "next"}
         /\ AfterRow(rows, l).job = NoJob
         /\ ~AfterRow(rows, l).zero
         /\ AfterRow(rows, l).todo = rows
         /\ AfterRow(rows, l).pc # "next" => rows = {}
         /\ l = "once" => /\ AfterRow(rows, l).pc # "idle"
                          /\ AfterRow(rows, l).loop = "once"
  BY DEF AfterRow, FlowType, Idle, Jobs

\* Recovery at a row: the job leaves the list and is in its hands.
TakesUp(j, r) ==
  /\ r \in FlowType
  /\ r.pc = IF j \in Once THEN "getJob" ELSE "check"
  /\ r.job = j
  /\ r.todo = flow[Boot].todo \ {j}
  /\ r.zero <=> j \in due
  /\ r.loop = flow[Boot].loop

LEMMA NextRowTakesUp ==
  ASSUME TypeOK, NEW j \in Jobs, NextRow(j)
  PROVE  \E r : TakesUp(j, r) /\ flow' = [flow EXCEPT ![Boot] = r]
<1>1. flow[Boot] \in FlowType
  BY DEF TypeOK, FlowType, Flows
<1>2. PICK z : z \in BOOLEAN /\ z = (j \in due)
  <2>1. (j \in due) \in BOOLEAN
    OBVIOUS
  <2>2. QED
    BY <2>1, Zenon
<1> DEFINE r == [flow[Boot] EXCEPT !.pc = IF j \in Once THEN "getJob" ELSE "check",
                                   !.job = j, !.todo = @ \ {j}, !.zero = z]
<1>3. TakesUp(j, r)
  BY <1>1, <1>2 DEF TakesUp, FlowType
<1>4. flow' = [flow EXCEPT ![Boot].pc = IF j \in Once THEN "getJob" ELSE "check",
                           ![Boot].job = j, ![Boot].todo = @ \ {j},
                           ![Boot].zero = z]
  BY <1>2, Zenon DEF NextRow
<1>5. flow' = [flow EXCEPT ![Boot] = r]
  BY <1>1, <1>4 DEF TypeOK, FlowType
<1>6. QED
  BY <1>3, <1>5

-----------------------------------------------------------------------------
LEMMA InitBase == Init => BaseInv
<1> SUFFICES ASSUME Init PROVE BaseInv
  OBVIOUS
<1> USE DeviceScheduleAssumption DEF Init, Idle, Resting, Jobs, Flows
<1>1. flow \in [Flows -> FlowType] /\ worker = Resting
  BY DEF FlowType
<1>2. TypeOK
  <2>1. /\ status \in [Jobs -> {"absent"}] /\ bull \in [Jobs -> {"none"}]
        /\ mishaps \in [Jobs -> {{}}] /\ runs \in [Once -> {0}]
        /\ stalls \in [Jobs -> {0}]
    OBVIOUS
  <2>2. /\ removed = {} /\ due = {} /\ registered = {}
        /\ crashes = 0 /\ faults = 0
    OBVIOUS
  <2>3. /\ crashes \in 0 .. MaxCrashes /\ faults \in 0 .. MaxFaults
        /\ runs \in [Once -> Nat] /\ stalls \in [Jobs -> 0 .. 1]
    BY <2>1, <2>2
  <2>4. mishaps \in [Jobs -> SUBSET Mishap]
        /\ \A j \in Repeat : mishaps[j] \subseteq {"unqueued"}
    BY <2>1
  <2>5. worker \in [pc : {"idle"}, job : {NoJob}, outcome : {"completed"}]
    BY <1>1
  <2>6. status \in [Jobs -> {"absent"}] /\ bull \in [Jobs -> {"none"}]
    BY <2>1
  <2>7. QED
    BY <1>1, <2>2, <2>3, <2>4, <2>5, <2>6 DEF TypeOK, FlowType
<1>3. FlowsInPlace /\ CallersApart
  BY DEF FlowsInPlace, CallersApart, Enqueuing, Registering
<1>4. WorkerHolds /\ RowFirst
  BY DEF WorkerHolds, RowFirst, Holds
<1>5. QED
  BY <1>2, <1>3, <1>4 DEF BaseInv

LEMMA BaseSchedule ==
  ASSUME BaseInv, NEW c \in Callers, NEW j \in Jobs, Schedule(c, j)
  PROVE  BaseInv'
<1> USE DeviceScheduleAssumption
    DEF BaseInv, Schedule, Jobs, Flows, Idle, redisVars, boundVars
<1>1. TypeOK'
  BY DEF TypeOK
<1>2. FlowsInPlace'
  BY DEF TypeOK, FlowsInPlace, Enqueuing, Registering
<1>3. CallersApart'
  BY DEF TypeOK, CallersApart, RowFirst, Holds
<1>4. WorkerHolds'
  BY DEF TypeOK, WorkerHolds
<1>5. RowFirst'
  BY DEF TypeOK, FlowsInPlace, RowFirst, Holds
<1>6. QED
  BY <1>1, <1>2, <1>3, <1>4, <1>5

LEMMA BaseEnqueue ==
  ASSUME BaseInv, NEW f \in Flows, EnqueueStep(f) \/ CallFails(f)
  PROVE  BaseInv'
<1> USE DeviceScheduleAssumption
    DEF BaseInv, TypeOK, FlowsInPlace, CallersApart, WorkerHolds, RowFirst,
        Holds, Jobs, Flows, Enqueuing, Registering, dbVars, redisVars, boundVars
<1>0. Enqueued(f) => \E r : Released(f, r) /\ flow' = [flow EXCEPT ![f] = r]
  BY EnqueuedReleases
<1>1. CASE GetJob(f)
  BY <1>1 DEF GetJob
<1>2. CASE GetState(f)
  <2>1. CASE Enqueued(f) /\ UNCHANGED bull
    BY <1>0, <1>2, <2>1 DEF GetState, Released, FlowType
  <2>2. CASE flow' = [flow EXCEPT ![f].pc = "remove"] /\ flow[f].zero
    BY <1>2, <2>2 DEF GetState
  <2>3. QED
    BY <1>2, <2>1, <2>2 DEF GetState
<1>3. CASE RemoveOverdue(f)
  BY <1>3 DEF RemoveOverdue
<1>4. CASE RemoveLocked(f)
  BY <1>4 DEF RemoveLocked, Throws, Marked, Idle, Mishap
<1>5. CASE Add(f)
  BY <1>0, <1>5 DEF Add, Released, FlowType
<1>6. CASE CheckRepeat(f)
  <2>1. CASE Enqueued(f) /\ UNCHANGED bull
    BY <1>0, <1>6, <2>1 DEF CheckRepeat, Released, FlowType
  <2>2. CASE flow' = [flow EXCEPT ![f].pc = "register"]
    BY <1>6, <2>2 DEF CheckRepeat
  <2>3. QED
    BY <1>6, <2>1, <2>2 DEF CheckRepeat
<1>7. CASE Register(f)
  BY <1>0, <1>7 DEF Register, Released, FlowType
<1>8. CASE CallFails(f)
  BY <1>8 DEF CallFails, Throws, Marked, Idle, Mishap
<1>9. CASE SetDelay(f)
  BY <1>9 DEF SetDelay
<1>10. QED
  BY <1>1, <1>2, <1>3, <1>4, <1>5, <1>6, <1>7, <1>8, <1>9 DEF EnqueueStep

LEMMA BaseRecovery ==
  ASSUME BaseInv, RecoveryStep
  PROVE  BaseInv'
<1> USE DeviceScheduleAssumption
    DEF BaseInv, TypeOK, FlowsInPlace, CallersApart, WorkerHolds, RowFirst,
        Holds, Jobs, Flows, Enqueuing, Registering, dbVars, redisVars, boundVars
<1>1. CASE ReadOnce
  <2> DEFINE rows == {j \in Once : status[j] = "pending" /\ j \notin removed}
  <2>1. rows \in SUBSET Jobs /\ \A j \in rows : status[j] # "absent"
    OBVIOUS
  <2> HIDE DEF rows
  <2>2. /\ flow' = [flow EXCEPT ![Boot] = AfterRow(rows, "once")]
        /\ mishaps' \in [Jobs -> SUBSET Mishap]
        /\ \A j \in Repeat : mishaps'[j] \subseteq {"unqueued"}
        /\ UNCHANGED <<dbVars, due, redisVars, worker, runs, boundVars>>
    BY <1>1 DEF ReadOnce, rows, Marked, Mishap
  <2>3. QED
    BY <2>1, <2>2, AfterRowType DEF FlowType
<1>2. CASE ReadRepeat
  <2> DEFINE rows == {j \in Repeat : status[j] = "active" /\ j \notin removed}
  <2>1. rows \in SUBSET Jobs /\ \A j \in rows : status[j] # "absent"
    OBVIOUS
  <2> HIDE DEF rows
  <2> DEFINE r == IF rows = {} THEN Idle
                  ELSE [Idle EXCEPT !.pc = "list", !.todo = rows, !.loop = "repeat"]
  <2>2. /\ r \in FlowType
        /\ r.pc \in {"idle", "list"} /\ r.job = NoJob
        /\ r.todo = rows /\ (r.pc = "idle" => rows = {})
        /\ (r.pc = "list" => r.loop = "repeat")
    BY <2>1 DEF Idle, FlowType
  <2>3. flow' = [flow EXCEPT ![Boot] = r]
    BY <1>2 DEF ReadRepeat, rows
  <2> HIDE DEF r
  <2>4. UNCHANGED <<dbVars, due, redisVars, worker, runs, mishaps, boundVars>>
    BY <1>2 DEF ReadRepeat
  <2>5. QED
    BY <2>1, <2>2, <2>3, <2>4 DEF FlowType
<1>3. CASE ListRepeatable
  <2> DEFINE rows == flow[Boot].todo \ registered
  <2>1. rows \in SUBSET Jobs /\ rows \subseteq flow[Boot].todo
    OBVIOUS
  <2> HIDE DEF rows
  <2>2. /\ flow' = [flow EXCEPT ![Boot] = AfterRow(rows, "repeat")]
        /\ UNCHANGED <<dbVars, due, redisVars, worker, runs, mishaps, boundVars>>
    BY <1>3 DEF ListRepeatable, rows
  <2>3. QED
    BY <2>1, <2>2, AfterRowType DEF FlowType
<1>4. ASSUME NEW j \in Jobs, NextRow(j)
      PROVE  BaseInv'
  <2>1. PICK r : TakesUp(j, r) /\ flow' = [flow EXCEPT ![Boot] = r]
    BY <1>4, NextRowTakesUp
  <2>2. /\ j \in flow[Boot].todo
        /\ UNCHANGED <<dbVars, due, redisVars, worker, runs, mishaps, boundVars>>
    BY <1>4 DEF NextRow
  <2>3. QED
    BY <2>1, <2>2 DEF TakesUp, FlowType
<1>5. QED
  BY <1>1, <1>2, <1>3, <1>4 DEF RecoveryStep

LEMMA BaseWorker ==
  ASSUME BaseInv, WorkerStep
  PROVE  BaseInv'
<1> USE DeviceScheduleAssumption
    DEF BaseInv, TypeOK, FlowsInPlace, CallersApart, WorkerHolds, RowFirst,
        Holds, Jobs, Flows, Enqueuing, Registering, dbVars, redisVars, boundVars
<1>1. ASSUME NEW result \in {"act", "failed", "thrown"}, Lookup(result)
      PROVE  BaseInv'
  <2>1. worker' \in [pc : {"act", "record"}, job : {worker.job},
                     outcome : {"completed", "failed", "thrown"}]
    BY <1>1 DEF Lookup
  <2>2. worker.pc # "idle"
    BY <1>1 DEF Lookup
  <2>3. QED
    BY <1>1, <2>1, <2>2 DEF Lookup
<1>2. CASE Act
  BY <1>2 DEF Act, Marked, Mishap
<1>3. CASE ActFails
  <2>1. /\ worker' \in [pc : {"record"}, job : {worker.job}, outcome : {"thrown"}]
        /\ worker.pc # "idle"
        /\ UNCHANGED <<dbVars, due, redisVars, flow, runs, mishaps, boundVars>>
    BY <1>3 DEF ActFails
  <2>2. QED
    BY <2>1
<1>4. CASE Record
  BY <1>4 DEF Record
<1>5. CASE RecordFails
  BY <1>5 DEF RecordFails, Marked, Mishap
<1>6. CASE Finish
  BY <1>6 DEF Finish, Resting
<1>7. QED
  BY <1>1, <1>2, <1>3, <1>4, <1>5, <1>6 DEF WorkerStep

LEMMA BaseQueue ==
  ASSUME BaseInv, NEW j \in Jobs,
         \/ Take(j) \/ Promote(j) \/ Stalled(j) \/ RemoveLog(j)
         \/ j \in Repeat /\ Occur(j)
         \/ j \in Once /\ ComesDue(j)
  PROVE  BaseInv'
<1> USE DeviceScheduleAssumption
    DEF BaseInv, TypeOK, FlowsInPlace, CallersApart, WorkerHolds, RowFirst,
        Holds, Jobs, Flows, Enqueuing, Registering, dbVars, redisVars, boundVars
<1>1. CASE Take(j)
  <2>1. worker' = [pc |-> "lookup", job |-> j, outcome |-> "completed"]
    BY <1>1 DEF Take, Resting
  <2>2. /\ bull' = [bull EXCEPT ![j] = "active"] /\ bull[j] = "waiting"
        /\ UNCHANGED <<dbVars, due, registered, stalls, flow, runs, mishaps, boundVars>>
    BY <1>1 DEF Take
  <2>3. TypeOK' /\ FlowsInPlace' /\ CallersApart'
    BY <2>1, <2>2
  <2>4. WorkerHolds' /\ RowFirst'
    BY <2>1, <2>2
  <2>5. QED
    BY <2>3, <2>4
<1>2. CASE Promote(j)
  BY <1>2 DEF Promote
<1>3. CASE Stalled(j)
  BY <1>3 DEF Stalled, Marked, Mishap
<1>4. CASE RemoveLog(j)
  BY <1>4 DEF RemoveLog
<1>5. CASE j \in Repeat /\ Occur(j)
  BY <1>5 DEF Occur
<1>6. CASE j \in Once /\ ComesDue(j)
  BY <1>6 DEF ComesDue
<1>7. QED
  BY <1>1, <1>2, <1>3, <1>4, <1>5, <1>6

LEMMA BaseCrash ==
  ASSUME BaseInv, Crash
  PROVE  BaseInv'
<1> USE DeviceScheduleAssumption DEF BaseInv, Jobs, Flows
<1>1. /\ mishaps' \in [Jobs -> SUBSET Mishap]
      /\ \A j \in Repeat : mishaps'[j] \subseteq {"unqueued"}
  BY DEF Crash, TypeOK, Mishap
<1>2. /\ flow' \in [Flows -> FlowType]
      /\ \A f \in Flows : /\ flow'[f].job = NoJob
                           /\ flow'[f].todo = {} /\ ~flow'[f].zero
                           /\ flow'[f].pc = IF f = Boot THEN "readOnce" ELSE "idle"
  BY DEF Crash, FlowType, Idle
<1>3. /\ worker' = [pc |-> "idle", job |-> NoJob, outcome |-> "completed"]
      /\ crashes' \in 0 .. MaxCrashes
      /\ UNCHANGED <<status, removed, due, bull, registered, stalls, runs, faults>>
  BY DEF Crash, Resting, TypeOK, dbVars, redisVars
<1>4. TypeOK'
  BY <1>1, <1>2, <1>3 DEF TypeOK, FlowType
<1>5. FlowsInPlace' /\ CallersApart'
  BY <1>2 DEF FlowsInPlace, CallersApart, Enqueuing, Registering
<1>6. WorkerHolds' /\ RowFirst'
  BY <1>2, <1>3 DEF WorkerHolds, RowFirst, Holds
<1>7. QED
  BY <1>4, <1>5, <1>6

LEMMA NextBase ==
  ASSUME BaseInv, [Next]_vars
  PROVE  BaseInv'
<1>1. CASE UNCHANGED vars
  BY <1>1 DEF vars, BaseInv, TypeOK, FlowsInPlace, CallersApart, WorkerHolds,
              RowFirst, Holds
<1>2. CASE Next
  <2> Once \subseteq Jobs /\ Repeat \subseteq Jobs
    BY DEF Jobs
  <2> QED
    BY <1>2, BaseSchedule, BaseEnqueue, BaseRecovery, BaseWorker, BaseQueue,
       BaseCrash DEF Next
<1>3. QED
  BY <1>1, <1>2

THEOREM BaseCorrect == Spec => []BaseInv
<1>1. QED
  BY InitBase, NextBase, PTL DEF Spec

(***************************************************************************)
(* Every reachable state of table, queue, flows and worker is well typed,  *)
(* for any jobs and callers and any number of crashes and faults.          *)
(***************************************************************************)
THEOREM TypeCorrect == Spec => []TypeOK
<1>1. BaseInv => TypeOK
  BY DEF BaseInv
<1>2. QED
  BY <1>1, BaseCorrect, PTL
-----------------------------------------------------------------------------
\* A once job that is not due is neither waiting nor in hand, and no flow takes
\* it for overdue.
EarlyInv ==
  /\ NeverEarly
  /\ \A j \in Once \ due : bull[j] \notin {"waiting", "active"}
  /\ \A f \in Flows : flow[f].job \in Once /\ flow[f].zero => flow[f].job \in due

LEMMA InitEarly == Init => EarlyInv
  BY DeviceScheduleAssumption
     DEF Init, EarlyInv, NeverEarly, Idle, Jobs, Flows

LEMMA EarlyFlows ==
  ASSUME BaseInv, EarlyInv,
         \/ \E c \in Callers, j \in Jobs : Schedule(c, j)
         \/ \E f \in Flows : EnqueueStep(f) \/ CallFails(f)
  PROVE  EarlyInv'
<1> USE DeviceScheduleAssumption
    DEF BaseInv, TypeOK, EarlyInv, NeverEarly, Jobs, Flows, dbVars, redisVars,
        boundVars
<1>1. ASSUME NEW c \in Callers, NEW j \in Jobs, Schedule(c, j)
      PROVE  EarlyInv'
  BY <1>1 DEF Schedule, Idle
<1>2. ASSUME NEW f \in Flows, EnqueueStep(f) \/ CallFails(f)
      PROVE  EarlyInv'
  <2>0. Enqueued(f) => \E r : Released(f, r) /\ flow' = [flow EXCEPT ![f] = r]
    BY EnqueuedReleases
  <2>1. CASE GetJob(f)
    BY <2>1 DEF GetJob
  <2>2. CASE GetState(f)
    BY <2>0, <2>2 DEF GetState, Released
  <2>3. CASE RemoveOverdue(f)
    BY <2>3 DEF RemoveOverdue
  <2>4. CASE RemoveLocked(f) \/ CallFails(f)
    BY <2>4 DEF RemoveLocked, CallFails, Throws, Idle
  <2>5. CASE Add(f)
    BY <2>0, <2>5 DEF Add, Released, FlowsInPlace, Enqueuing
  <2>6. CASE CheckRepeat(f)
    BY <2>0, <2>6 DEF CheckRepeat, Released
  <2>7. CASE Register(f)
    BY <2>0, <2>7 DEF Register, Released
  <2>8. CASE SetDelay(f)
    BY <2>8 DEF SetDelay
  <2>9. QED
    BY <1>2, <2>1, <2>2, <2>3, <2>4, <2>5, <2>6, <2>7, <2>8 DEF EnqueueStep
<1>3. QED
  BY <1>1, <1>2

LEMMA EarlyRecovery ==
  ASSUME BaseInv, EarlyInv, RecoveryStep \/ Crash
  PROVE  EarlyInv'
<1> USE DeviceScheduleAssumption
    DEF BaseInv, TypeOK, EarlyInv, NeverEarly, Jobs, Flows, dbVars, redisVars,
        boundVars
<1>1. CASE ReadOnce
  BY <1>1 DEF ReadOnce, AfterRow, Idle
<1>2. CASE ReadRepeat
  BY <1>2 DEF ReadRepeat, Idle
<1>3. CASE ListRepeatable
  BY <1>3 DEF ListRepeatable, AfterRow, Idle
<1>4. ASSUME NEW j \in Jobs, NextRow(j)
      PROVE  EarlyInv'
  <2>1. PICK r : TakesUp(j, r) /\ flow' = [flow EXCEPT ![Boot] = r]
    BY <1>4, NextRowTakesUp
  <2>2. QED
    BY <1>4, <2>1 DEF NextRow, TakesUp
<1>5. CASE Crash
  BY <1>5 DEF Crash, Idle
<1>6. QED
  BY <1>1, <1>2, <1>3, <1>4, <1>5 DEF RecoveryStep

LEMMA EarlyWorker ==
  ASSUME BaseInv, EarlyInv, WorkerStep
  PROVE  EarlyInv'
<1> USE DeviceScheduleAssumption
    DEF BaseInv, TypeOK, EarlyInv, NeverEarly, WorkerHolds, Jobs, Flows, dbVars,
        redisVars, boundVars
<1>1. CASE Act
  BY <1>1 DEF Act
<1>2. CASE Finish
  BY <1>2 DEF Finish
<1>3. CASE \/ \E result \in {"act", "failed", "thrown"} : Lookup(result)
           \/ ActFails \/ Record \/ RecordFails
  BY <1>3 DEF Lookup, ActFails, Record, RecordFails
<1>4. QED
  BY <1>1, <1>2, <1>3 DEF WorkerStep

LEMMA EarlyQueue ==
  ASSUME BaseInv, EarlyInv, NEW j \in Jobs,
         \/ Take(j) \/ Promote(j) \/ Stalled(j) \/ RemoveLog(j)
         \/ j \in Repeat /\ Occur(j)
         \/ j \in Once /\ ComesDue(j)
  PROVE  EarlyInv'
  BY DeviceScheduleAssumption
     DEF BaseInv, TypeOK, EarlyInv, NeverEarly, Jobs, Flows, dbVars, redisVars,
         boundVars, Take, Promote, Stalled, RemoveLog, Occur, ComesDue

LEMMA NextEarly ==
  ASSUME BaseInv, EarlyInv, [Next]_vars
  PROVE  EarlyInv'
<1>1. CASE UNCHANGED vars
  BY <1>1 DEF vars, EarlyInv, NeverEarly
<1>2. CASE Next
  <2> Once \subseteq Jobs /\ Repeat \subseteq Jobs
    BY DEF Jobs
  <2> QED
    BY <1>2, EarlyFlows, EarlyRecovery, EarlyWorker, EarlyQueue DEF Next
<1>3. QED
  BY <1>1, <1>2

(***************************************************************************)
(* No once job is carried out before its time, not by the flow that        *)
(* schedules it, not by recovery, which enqueues overdue jobs at once, and *)
(* not by the worker after any number of crashes.                          *)
(***************************************************************************)
THEOREM NeverEarlyCorrect == Spec => []NeverEarly
<1>1. EarlyInv => NeverEarly
  BY DEF EarlyInv
<1>2. QED
  BY <1>1, InitEarly, NextEarly, BaseCorrect, PTL DEF Spec

-----------------------------------------------------------------------------
Pending(j) == j \in Once \ removed /\ status[j] = "pending"

Excused(j) == mishaps[j] \cap {"unrecorded", "stalledOut"} # {}

\* Recovery has the row before it, or in its hands.
Unread(j) == ToBeRead(j) \/ Holds(Boot, j)

\* While recovery may still enqueue a caller's job, the caller has not found it
\* in the queue: so nobody but recovery lets go of a job it then removes.
CallerFirst ==
  \A c \in Callers :
    /\ flow[c].pc \in {"delay", "getJob"}
         => ~Unread(flow[c].job) \/ bull[flow[c].job] = "none"
    /\ flow[c].pc \in {"getState", "remove"} => ~Unread(flow[c].job)

FailedExcused == \A j \in Jobs : bull[j] = "failed" /\ Pending(j) => Excused(j)

FinishExcused ==
  worker.pc = "finish" /\ Pending(worker.job) => Excused(worker.job)

\* A flow that found its job may leave it to the queue.
SeenIsQueued ==
  \A f \in Flows : flow[f].pc = "getState" /\ Pending(flow[f].job)
                     => Queued(flow[f].job) \/ Excused(flow[f].job)

KeptInv ==
  /\ BaseInv
  /\ NoScheduleLost
  /\ CallerFirst
  /\ FailedExcused
  /\ FinishExcused
  /\ SeenIsQueued

\* A job that is accounted for, and what a step must keep of it.
Kept(j) ==
  \/ Queued(j)
  \/ \E f \in Flows : Holds(f, j)
  \/ ToBeRead(j)
  \/ mishaps[j] \cap {"unqueued", "unrecorded", "stalledOut"} # {}

LEMMA KeptByEnqueue ==
  ASSUME KeptInv, NEW f \in Flows, Enqueued(f),
         flow[f].pc \in Enqueuing \cup Registering,
         NEW j \in Jobs \ removed, status[j] \in {"pending", "active"},
         Queued(j) => Queued(j)',
         flow[f].job = j => Queued(j)' \/ Excused(j)',
         UNCHANGED <<dbVars, worker, mishaps>>
  PROVE  Kept(j)'
<1>1. PICK r : Released(f, r) /\ flow' = [flow EXCEPT ![f] = r]
  BY EnqueuedReleases DEF KeptInv, BaseInv
<1>2. flow \in [Flows -> FlowType] /\ f \in Flows /\ Boot \in Flows
  BY DEF KeptInv, BaseInv, TypeOK, FlowType, Flows
<1>3. Kept(j)
  BY DEF KeptInv, NoScheduleLost, Kept
<1>4. CASE \E g \in Flows : Holds(g, j)
  <2>1. PICK g \in Flows : Holds(g, j)
    BY <1>4
  <2>2. CASE g # f
    BY <1>1, <1>2, <2>1, <2>2 DEF Holds, Kept
  <2>3. CASE g = f /\ j \in flow[f].todo
    BY <1>1, <1>2, <2>3 DEF Holds, Kept, Released
  <2>4. CASE g = f /\ flow[f].job = j
    BY <2>4 DEF Kept, Excused
  <2>5. QED
    BY <2>1, <2>2, <2>3, <2>4 DEF Holds
<1>5. CASE ToBeRead(j)
  <2>1. CASE f # Boot
    BY <1>1, <1>2, <1>5, <2>1 DEF ToBeRead, Kept
  <2>2. CASE f = Boot
    BY <1>1, <1>2, <1>5, <2>2 DEF ToBeRead, Kept, Released, Enqueuing, Registering
  <2>3. QED
    BY <2>1, <2>2
<1>6. QED
  BY <1>3, <1>4, <1>5 DEF Kept

LEMMA InitKept == Init => KeptInv
<1> SUFFICES ASSUME Init PROVE KeptInv
  OBVIOUS
<1>1. BaseInv
  BY InitBase
<1>2. NoScheduleLost /\ CallerFirst /\ FailedExcused /\ FinishExcused /\ SeenIsQueued
  BY DeviceScheduleAssumption
     DEF Init, NoScheduleLost, CallerFirst, FailedExcused, FinishExcused,
         SeenIsQueued, Pending, Idle, Resting, Jobs, Flows
<1>3. QED
  BY <1>1, <1>2 DEF KeptInv

LEMMA KeptSchedule ==
  ASSUME KeptInv, NEW c \in Callers, NEW j \in Jobs, Schedule(c, j)
  PROVE  KeptInv'
<1> USE DeviceScheduleAssumption
    DEF KeptInv, BaseInv, TypeOK, FlowsInPlace, RowFirst, Schedule, Jobs, Flows,
        Idle, Holds, Queued, ToBeRead, Pending, Excused, redisVars, boundVars,
        Enqueuing, Registering
<1>1. BaseInv'
  BY BaseSchedule
<1>2. NoScheduleLost'
  BY DEF NoScheduleLost
<1>3. CallerFirst'
  BY DEF CallerFirst, Unread
<1>4. FailedExcused' /\ FinishExcused'
  BY DEF FailedExcused, FinishExcused, WorkerHolds
<1>5. SeenIsQueued'
  BY DEF SeenIsQueued
<1>6. QED
  BY <1>1, <1>2, <1>3, <1>4, <1>5 DEF KeptInv

\* The steps of an enqueue: what is left behind is in the queue.
LEMMA KeptEnqueue ==
  ASSUME KeptInv, NEW f \in Flows, EnqueueStep(f) \/ CallFails(f)
  PROVE  KeptInv'
<1> USE DeviceScheduleAssumption
    DEF KeptInv, BaseInv, TypeOK, FlowsInPlace, WorkerHolds, RowFirst, Holds,
        Jobs, Flows, Enqueuing, Registering, Queued, ToBeRead, Pending, Excused,
        Unread, dbVars, redisVars, boundVars
<1>0. BaseInv'
  BY BaseEnqueue
<1>1. Enqueued(f) => \E r : Released(f, r) /\ flow' = [flow EXCEPT ![f] = r]
  BY EnqueuedReleases
<1>2. CASE GetJob(f)
  <2> USE <1>2 DEF GetJob
  <2>1. NoScheduleLost'
    BY DEF NoScheduleLost
  <2>2. CallerFirst'
    BY DEF CallerFirst
  <2>3. FailedExcused' /\ FinishExcused'
    BY DEF FailedExcused, FinishExcused
  <2>4. SeenIsQueued'
    BY DEF SeenIsQueued, FailedExcused
  <2>5. QED
    BY <1>0, <2>1, <2>2, <2>3, <2>4
<1>3. CASE GetState(f)
  <2>1. NoScheduleLost'
    <3>1. CASE Enqueued(f)
      <4>1. SUFFICES ASSUME NEW j \in Jobs \ removed,
                            status[j] \in {"pending", "active"}
                     PROVE  Kept(j)'
        BY <1>3 DEF GetState, NoScheduleLost, Kept
      <4>2. flow[f].job = j => Queued(j) \/ Excused(j)
        BY <1>3, <4>1 DEF GetState, SeenIsQueued
      <4>3. QED
        BY <1>3, <3>1, <4>1, <4>2, KeptByEnqueue DEF GetState
    <3>2. CASE flow' = [flow EXCEPT ![f].pc = "remove"]
      BY <1>3, <3>2 DEF GetState, NoScheduleLost
    <3>3. QED
      BY <1>3, <3>1, <3>2 DEF GetState
  <2> USE <1>1, <1>3 DEF GetState, Released, FlowType
  <2>2. CallerFirst'
    BY DEF CallerFirst
  <2>3. FailedExcused' /\ FinishExcused'
    BY DEF FailedExcused, FinishExcused
  <2>4. SeenIsQueued'
    BY DEF SeenIsQueued
  <2>5. QED
    BY <1>0, <2>1, <2>2, <2>3, <2>4
<1>4. CASE RemoveOverdue(f)
  <2> USE <1>4 DEF RemoveOverdue
  <2>1. NoScheduleLost'
    BY DEF NoScheduleLost
  <2>2. CallerFirst'
    BY DEF CallerFirst
  <2>3. FailedExcused' /\ FinishExcused'
    BY DEF FailedExcused, FinishExcused
  <2>4. SeenIsQueued'
    <3>1. SUFFICES ASSUME NEW g \in Flows, flow[g].pc = "getState", flow[g].job = flow[f].job
                   PROVE  FALSE
      BY DEF SeenIsQueued
    <3>2. g # f /\ flow[f].job \in Once
      BY <3>1
    <3>3. g = Boot \/ f = Boot
      BY <3>1, <3>2 DEF CallersApart
    <3>4. Unread(flow[f].job)
      BY <3>1, <3>3
    <3>5. CASE f = Boot
      BY <3>1, <3>2, <3>4, <3>5 DEF CallerFirst
    <3>6. CASE f # Boot
      BY <3>2, <3>4, <3>6 DEF CallerFirst
    <3>7. QED
      BY <3>5, <3>6
  <2>5. QED
    BY <1>0, <2>1, <2>2, <2>3, <2>4
<1>5. CASE RemoveLocked(f) \/ CallFails(f)
  <2>1. Throws(f) /\ UNCHANGED crashes
    BY <1>5 DEF RemoveLocked, CallFails
  <2>2. NoScheduleLost'
    <3>1. SUFFICES ASSUME NEW j \in Jobs \ removed,
                          status[j] \in {"pending", "active"}
                   PROVE  Kept(j)'
      BY <2>1 DEF Throws, NoScheduleLost, Kept
    <3>2. CASE /\ ~Queued(j) /\ \A g \in Flows \ {f} : ~Holds(g, j)
               /\ f = Boot \/ ~ToBeRead(j)
      BY <2>1, <3>1, <3>2 DEF Throws, Marked, Kept
    <3>3. CASE Queued(j) \/ \E g \in Flows \ {f} : Holds(g, j)
      BY <2>1, <3>1, <3>3 DEF Throws, Kept
    <3>4. CASE f # Boot /\ ToBeRead(j)
      BY <2>1, <3>1, <3>4 DEF Throws, Kept
    <3>5. QED
      BY <3>2, <3>3, <3>4
  <2> USE <2>1 DEF Throws, Marked, Idle
  <2>3. CallerFirst'
    BY DEF CallerFirst
  <2>4. FailedExcused' /\ FinishExcused'
    BY DEF FailedExcused, FinishExcused
  <2>5. SeenIsQueued'
    BY DEF SeenIsQueued
  <2>6. QED
    BY <1>0, <2>2, <2>3, <2>4, <2>5
<1>6. CASE Add(f)
  <2>1. NoScheduleLost'
    <3>1. SUFFICES ASSUME NEW j \in Jobs \ removed,
                          status[j] \in {"pending", "active"}
                   PROVE  Kept(j)'
      BY <1>6 DEF Add, NoScheduleLost, Kept
    <3>2. Queued(j) => Queued(j)'
      BY <1>6, <3>1 DEF Add
    <3>3. flow[f].job = j => Queued(j)' \/ Excused(j)'
      BY <1>6, <3>1 DEF Add, FailedExcused
    <3>4. QED
      BY <1>6, <3>1, <3>2, <3>3, KeptByEnqueue DEF Add
  <2> USE <1>1, <1>6 DEF Add, Released, FlowType
  <2>2. CallerFirst'
    BY DEF CallerFirst, CallersApart
  <2>3. FailedExcused' /\ FinishExcused'
    BY DEF FailedExcused, FinishExcused
  <2>4. SeenIsQueued'
    BY DEF SeenIsQueued
  <2>5. QED
    BY <1>0, <2>1, <2>2, <2>3, <2>4
<1>7. CASE CheckRepeat(f)
  <2>1. NoScheduleLost'
    <3>1. CASE flow[f].job \in registered
      <4>1. SUFFICES ASSUME NEW j \in Jobs \ removed,
                            status[j] \in {"pending", "active"}
                     PROVE  Kept(j)'
        BY <1>7 DEF CheckRepeat, NoScheduleLost, Kept
      <4>2. flow[f].job = j => Queued(j)
        BY <3>1
      <4>3. QED
        BY <1>7, <3>1, <4>1, <4>2, KeptByEnqueue DEF CheckRepeat
    <3>2. CASE flow[f].job \notin registered
      BY <1>7, <3>2 DEF CheckRepeat, NoScheduleLost
    <3>3. QED
      BY <1>7, <3>1, <3>2 DEF CheckRepeat
  <2> USE <1>1, <1>7 DEF CheckRepeat, Released, FlowType
  <2>2. CallerFirst'
    BY DEF CallerFirst
  <2>3. FailedExcused' /\ FinishExcused'
    BY DEF FailedExcused, FinishExcused
  <2>4. SeenIsQueued'
    BY DEF SeenIsQueued
  <2>5. QED
    BY <1>0, <2>1, <2>2, <2>3, <2>4
<1>8. CASE Register(f)
  <2>1. NoScheduleLost'
    <3>1. SUFFICES ASSUME NEW j \in Jobs \ removed,
                          status[j] \in {"pending", "active"}
                   PROVE  Kept(j)'
      BY <1>8 DEF Register, NoScheduleLost, Kept
    <3>2. Queued(j) => Queued(j)'
      BY <1>8, <3>1 DEF Register
    <3>3. flow[f].job = j => Queued(j)'
      BY <1>8, <3>1 DEF Register
    <3>4. QED
      BY <1>8, <3>1, <3>2, <3>3, KeptByEnqueue DEF Register
  <2> USE <1>1, <1>8 DEF Register, Released, FlowType
  <2>2. CallerFirst'
    BY DEF CallerFirst
  <2>3. FailedExcused' /\ FinishExcused'
    BY DEF FailedExcused, FinishExcused
  <2>4. SeenIsQueued'
    BY DEF SeenIsQueued
  <2>5. QED
    BY <1>0, <2>1, <2>2, <2>3, <2>4
<1>9. CASE SetDelay(f)
  <2> USE <1>9 DEF SetDelay
  <2>1. NoScheduleLost'
    BY DEF NoScheduleLost
  <2>2. CallerFirst'
    BY DEF CallerFirst
  <2>3. FailedExcused' /\ FinishExcused'
    BY DEF FailedExcused, FinishExcused
  <2>4. SeenIsQueued'
    BY DEF SeenIsQueued
  <2>5. QED
    BY <1>0, <2>1, <2>2, <2>3, <2>4
<1>10. QED
  BY <1>2, <1>3, <1>4, <1>5, <1>6, <1>7, <1>8, <1>9 DEF EnqueueStep

\* Recovery reads its rows and has them all in hand from then on.
LEMMA KeptRecovery ==
  ASSUME KeptInv, RecoveryStep
  PROVE  KeptInv'
<1> USE DeviceScheduleAssumption
    DEF KeptInv, BaseInv, TypeOK, FlowsInPlace, RowFirst, Holds,
        Jobs, Flows, Enqueuing, Registering, Queued, ToBeRead, Pending, Excused,
        Unread, dbVars, redisVars, boundVars
<1>0. BaseInv'
  BY BaseRecovery
<1>1. CASE ReadOnce
  <2> DEFINE rows == {j \in Once : status[j] = "pending" /\ j \notin removed}
  <2>1. rows \in SUBSET Jobs /\ \A j \in Once : Pending(j) <=> j \in rows
    OBVIOUS
  <2> HIDE DEF rows
  <2>2. /\ flow' = [flow EXCEPT ![Boot] = AfterRow(rows, "once")]
        /\ flow[Boot].pc = "readOnce"
        /\ mishaps' \in [Jobs -> SUBSET Mishap]
        /\ \A j \in Jobs : mishaps[j] \subseteq mishaps'[j]
        /\ UNCHANGED <<dbVars, due, redisVars, worker, runs, boundVars>>
    BY <1>1 DEF ReadOnce, rows, Marked, Mishap
  <2> DEFINE r == AfterRow(rows, "once")
  <2>3. /\ r \in FlowType /\ r.pc \in {"readRepeat", "next"} /\ r.job = NoJob
        /\ r.todo = rows /\ r.loop = "once"
    BY <2>1, AfterRowType
  <2> HIDE DEF r
  <2>4. flow' = [flow EXCEPT ![Boot] = r]
    BY <2>2 DEF r
  <2>5. NoScheduleLost'
    BY <2>1, <2>2, <2>3, <2>4 DEF NoScheduleLost, FlowType
  <2>6. CallerFirst'
    BY <2>1, <2>2, <2>3, <2>4 DEF CallerFirst, FlowType
  <2>7. FailedExcused' /\ FinishExcused'
    BY <2>2 DEF FailedExcused, FinishExcused, WorkerHolds
  <2>8. SeenIsQueued'
    BY <2>2, <2>3, <2>4 DEF SeenIsQueued, FlowType
  <2>9. QED
    BY <1>0, <2>5, <2>6, <2>7, <2>8
<1>2. CASE ReadRepeat
  <2> DEFINE rows == {j \in Repeat : status[j] = "active" /\ j \notin removed}
             r == IF rows = {} THEN Idle
                  ELSE [Idle EXCEPT !.pc = "list", !.todo = rows, !.loop = "repeat"]
  <2>1. /\ rows \in SUBSET Repeat
        /\ \A j \in Repeat \ removed : status[j] = "active" => j \in rows
    OBVIOUS
  <2> HIDE DEF rows
  <2>2. /\ r \in FlowType /\ r.pc \in {"idle", "list"} /\ r.job = NoJob
        /\ r.todo = rows
    BY <2>1 DEF Idle, FlowType
  <2>3. /\ flow' = [flow EXCEPT ![Boot] = r] /\ flow[Boot].pc = "readRepeat"
        /\ UNCHANGED <<dbVars, due, redisVars, worker, runs, mishaps, boundVars>>
    BY <1>2 DEF ReadRepeat, rows
  <2> HIDE DEF r
  <2>4. NoScheduleLost'
    BY <2>1, <2>2, <2>3 DEF NoScheduleLost, FlowType
  <2>5. CallerFirst'
    BY <2>1, <2>2, <2>3 DEF CallerFirst, FlowType
  <2>6. FailedExcused' /\ FinishExcused'
    BY <2>3 DEF FailedExcused, FinishExcused
  <2>7. SeenIsQueued'
    BY <2>2, <2>3 DEF SeenIsQueued, FlowType
  <2>8. QED
    BY <1>0, <2>4, <2>5, <2>6, <2>7
<1>3. CASE ListRepeatable
  <2> DEFINE rows == flow[Boot].todo \ registered
             r == AfterRow(rows, "repeat")
  <2>1. rows \in SUBSET Jobs
    OBVIOUS
  <2>2. /\ r \in FlowType /\ r.pc \in {"idle", "readRepeat", "next"}
        /\ r.job = NoJob /\ r.todo = flow[Boot].todo \ registered
    BY <2>1, AfterRowType
  <2>3. /\ flow' = [flow EXCEPT ![Boot] = r] /\ flow[Boot].pc = "list"
        /\ UNCHANGED <<dbVars, due, redisVars, worker, runs, mishaps, boundVars>>
    BY <1>3 DEF ListRepeatable
  <2>4. AfterRow(flow[Boot].todo \ registered, "repeat").pc # "readRepeat"
    BY DEF AfterRow, Idle
  <2> HIDE DEF r
  <2>5. NoScheduleLost'
    BY <2>2, <2>3 DEF NoScheduleLost, FlowType
  <2>6. CallerFirst'
    BY <2>2, <2>3 DEF CallerFirst, FlowType
  <2>7. FailedExcused' /\ FinishExcused'
    BY <2>3 DEF FailedExcused, FinishExcused
  <2>8. SeenIsQueued'
    BY <2>2, <2>3 DEF SeenIsQueued, FlowType
  <2>9. QED
    BY <1>0, <2>5, <2>6, <2>7, <2>8
<1>4. ASSUME NEW j \in Jobs, NextRow(j)
      PROVE  KeptInv'
  <2>1. PICK r : TakesUp(j, r) /\ flow' = [flow EXCEPT ![Boot] = r]
    BY <1>4, NextRowTakesUp
  <2>2. /\ flow[Boot].pc = "next" /\ j \in flow[Boot].todo
        /\ UNCHANGED <<dbVars, due, redisVars, worker, runs, mishaps, boundVars>>
    BY <1>4 DEF NextRow
  <2>3. NoScheduleLost'
    BY <2>1, <2>2 DEF NoScheduleLost, FlowType, TakesUp
  <2>4. CallerFirst'
    BY <2>1, <2>2 DEF CallerFirst, FlowType, TakesUp
  <2>5. FailedExcused' /\ FinishExcused'
    BY <2>2 DEF FailedExcused, FinishExcused
  <2>6. SeenIsQueued'
    BY <2>1, <2>2 DEF SeenIsQueued, FlowType, TakesUp
  <2>7. QED
    BY <1>0, <2>3, <2>4, <2>5, <2>6
<1>5. QED
  BY <1>1, <1>2, <1>3, <1>4 DEF RecoveryStep

\* The worker settles the row before it lets go of the job.
LEMMA KeptWorker ==
  ASSUME KeptInv, WorkerStep
  PROVE  KeptInv'
<1> USE DeviceScheduleAssumption
    DEF KeptInv, BaseInv, TypeOK, FlowsInPlace, WorkerHolds, RowFirst, Holds,
        Jobs, Flows, Queued, ToBeRead, Pending, Excused, Unread, dbVars,
        redisVars, boundVars
<1>0. BaseInv'
  BY BaseWorker
<1>1. CASE \/ \E result \in {"act", "failed", "thrown"} : Lookup(result)
           \/ ActFails
  <2>1. UNCHANGED <<dbVars, due, redisVars, flow, runs, mishaps, boundVars>>
    BY <1>1 DEF Lookup, ActFails
  <2>2. worker'.pc \in {"act", "record"}
    <3>1. ASSUME NEW result \in {"act", "failed", "thrown"}, Lookup(result)
          PROVE  worker'.pc \in {"act", "record"}
      BY <3>1 DEF Lookup
    <3>2. CASE ActFails
      BY <3>2 DEF ActFails
    <3>3. QED
      BY <1>1, <3>1, <3>2
  <2>3. QED
    BY <1>0, <2>1, <2>2 DEF NoScheduleLost, CallerFirst, FailedExcused,
                            FinishExcused, SeenIsQueued
<1>2. CASE Act
  <2>1. /\ UNCHANGED <<dbVars, due, redisVars, flow, boundVars>>
        /\ worker'.pc # "finish"
        /\ \A j \in Jobs : mishaps[j] \subseteq mishaps'[j]
    BY <1>2 DEF Act, Marked
  <2>2. QED
    BY <1>0, <2>1 DEF NoScheduleLost, CallerFirst, FailedExcused, FinishExcused,
                      SeenIsQueued
<1>3. CASE Record
  <2> USE <1>3 DEF Record
  <2>1. NoScheduleLost' /\ CallerFirst'
    BY DEF NoScheduleLost, CallerFirst
  <2>2. FailedExcused' /\ FinishExcused' /\ SeenIsQueued'
    BY DEF FailedExcused, FinishExcused, SeenIsQueued
  <2>3. QED
    BY <1>0, <2>1, <2>2
<1>4. CASE RecordFails
  <2>1. /\ UNCHANGED <<dbVars, due, redisVars, flow>>
        /\ worker' = [worker EXCEPT !.pc = "finish"]
        /\ \A j \in Jobs : mishaps[j] \subseteq mishaps'[j]
        /\ worker.job \in Once => "unrecorded" \in mishaps'[worker.job]
    BY <1>4 DEF RecordFails, Marked
  <2>2. NoScheduleLost' /\ CallerFirst'
    BY <2>1 DEF NoScheduleLost, CallerFirst
  <2>3. FinishExcused'
    BY <2>1 DEF FinishExcused
  <2>4. \A j \in Jobs : Excused(j) => Excused(j)'
    BY <2>1
  <2>5. FailedExcused'
    BY <2>1, <2>4 DEF FailedExcused
  <2>6. SeenIsQueued'
    BY <2>1, <2>4 DEF SeenIsQueued, Enqueuing
  <2>7. QED
    BY <1>0, <2>2, <2>3, <2>5, <2>6
<1>5. CASE Finish
  <2> USE <1>5 DEF Finish, Resting
  <2>1. NoScheduleLost'
    BY DEF NoScheduleLost, FinishExcused
  <2>2. CallerFirst'
    BY DEF CallerFirst
  <2>3. FailedExcused' /\ FinishExcused'
    BY DEF FailedExcused, FinishExcused
  <2>4. SeenIsQueued'
    BY DEF SeenIsQueued, FinishExcused
  <2>5. QED
    BY <1>0, <2>1, <2>2, <2>3, <2>4
<1>6. QED
  BY <1>1, <1>2, <1>3, <1>4, <1>5 DEF WorkerStep

LEMMA KeptQueue ==
  ASSUME KeptInv, NEW j \in Jobs,
         \/ Take(j) \/ Promote(j)
         \/ j \in Repeat /\ Occur(j)
  PROVE  KeptInv'
<1> USE DeviceScheduleAssumption
    DEF KeptInv, BaseInv, TypeOK, FlowsInPlace, WorkerHolds, RowFirst, Holds,
        Jobs, Flows, Queued, ToBeRead, Pending, Excused, Unread, dbVars,
        redisVars, boundVars
<1>0. BaseInv'
  BY BaseQueue
<1>1. UNCHANGED <<dbVars, worker, mishaps>> \/ worker'.pc = "lookup"
  <2>1. CASE Take(j)
    <3>1. worker' = [Resting EXCEPT !.pc = "lookup", !.job = j]
      BY <2>1 DEF Take
    <3>2. QED
      BY <3>1 DEF Resting
  <2>2. CASE Promote(j) \/ Occur(j)
    BY <2>2 DEF Promote, Occur
  <2>3. QED
    BY <2>1, <2>2
<1> USE DEF Take, Promote, Occur, Resting
<1>2. NoScheduleLost' /\ SeenIsQueued'
  BY DEF NoScheduleLost, SeenIsQueued
<1>3. /\ UNCHANGED <<dbVars, due, flow, mishaps>>
      /\ \A k \in Jobs : bull'[k] = bull[k] \/ (bull'[k] # "failed" /\ bull[k] # "none")
                       \/ (k \in Repeat /\ bull'[k] # "failed")
  OBVIOUS
<1>4. CallerFirst'
  BY <1>3 DEF CallerFirst, Enqueuing
<1>5. FailedExcused'
  BY <1>3 DEF FailedExcused
<1>6. FinishExcused'
  BY <1>1 DEF FinishExcused
<1>7. QED
  BY <1>0, <1>2, <1>4, <1>5, <1>6

LEMMA KeptStalled ==
  ASSUME KeptInv, NEW j \in Jobs, Stalled(j)
  PROVE  KeptInv'
<1> USE DeviceScheduleAssumption
    DEF KeptInv, BaseInv, TypeOK, FlowsInPlace, WorkerHolds, RowFirst, Holds,
        Jobs, Flows, Queued, ToBeRead, Pending, Excused, Unread, dbVars,
        redisVars, boundVars
<1>0. BaseInv'
  BY BaseQueue
<1>1. /\ bull[j] = "active"
      /\ bull'[j] \in {"none", "waiting", "failed"}
      /\ \A k \in Jobs \ {j} : bull'[k] = bull[k]
      /\ bull'[j] # "waiting" /\ j \in Once => "stalledOut" \in mishaps'[j]
      /\ \A k \in Jobs : mishaps[k] \subseteq mishaps'[k]
      /\ worker.job # j
      /\ UNCHANGED <<dbVars, due, registered, flow, worker, runs, boundVars>>
  BY DEF Stalled, Marked
<1>2. NoScheduleLost'
  BY <1>1 DEF NoScheduleLost
<1>3. CallerFirst'
  BY <1>1 DEF CallerFirst, Enqueuing
<1>4. FailedExcused' /\ FinishExcused'
  BY <1>1 DEF FailedExcused, FinishExcused
<1>5. SeenIsQueued'
  BY <1>1 DEF SeenIsQueued, Enqueuing
<1>6. QED
  BY <1>0, <1>2, <1>3, <1>4, <1>5

LEMMA KeptRow ==
  ASSUME KeptInv, NEW j \in Jobs,
         \/ RemoveLog(j)
         \/ j \in Once /\ ComesDue(j)
  PROVE  KeptInv'
<1> USE DeviceScheduleAssumption
    DEF KeptInv, BaseInv, TypeOK, FlowsInPlace, WorkerHolds, RowFirst, Holds,
        Jobs, Flows, Queued, ToBeRead, Pending, Excused, Unread, dbVars,
        redisVars, boundVars
<1>0. BaseInv'
  BY BaseQueue
<1>1. /\ UNCHANGED <<status, redisVars, flow, worker, mishaps>>
      /\ removed \subseteq removed'
  BY DEF RemoveLog, ComesDue
<1>2. NoScheduleLost' /\ SeenIsQueued'
  BY <1>1 DEF NoScheduleLost, SeenIsQueued
<1>3. CallerFirst' /\ FailedExcused' /\ FinishExcused'
  BY <1>1 DEF CallerFirst, FailedExcused, FinishExcused
<1>4. QED
  BY <1>0, <1>2, <1>3

\* After a crash every row is still to be read.
LEMMA KeptCrash ==
  ASSUME KeptInv, Crash
  PROVE  KeptInv'
<1>1. BaseInv'
  BY BaseCrash DEF KeptInv
<1>2. /\ \A f \in Flows : flow'[f] = IF f = Boot THEN [Idle EXCEPT !.pc = "readOnce"]
                                                 ELSE Idle
      /\ worker' = Resting
      /\ \A j \in Jobs : mishaps[j] \ {"unqueued"} \subseteq mishaps'[j]
      /\ UNCHANGED <<status, removed, bull, registered>>
  BY DEF Crash, dbVars, redisVars
<1>3. NoScheduleLost'
  BY <1>2 DEF NoScheduleLost, ToBeRead, Flows, Idle
<1>4. CallerFirst' /\ SeenIsQueued'
  BY <1>2, DeviceScheduleAssumption DEF CallerFirst, SeenIsQueued, Flows, Idle
<1>5. FailedExcused' /\ FinishExcused'
  BY <1>2 DEF KeptInv, FailedExcused, FinishExcused, Pending, Excused, Resting
<1>6. QED
  BY <1>1, <1>3, <1>4, <1>5 DEF KeptInv

(***************************************************************************)
(* No schedule is lost: whatever crashes, and wherever, an unsettled row   *)
(* has its job in the queue, in the hands of a flow or still to be read by *)
(* recovery, but for the failures NoScheduleLost names.                    *)
(***************************************************************************)
THEOREM ScheduleKept == Spec => []NoScheduleLost
<1>1. ASSUME KeptInv, [Next]_vars
      PROVE  KeptInv'
  <2>1. CASE UNCHANGED vars
    BY <1>1, <2>1, NextBase
       DEF vars, KeptInv, NoScheduleLost, CallerFirst, FailedExcused, FinishExcused,
           SeenIsQueued, Pending, Excused, Unread, Queued, Holds, ToBeRead
  <2>2. CASE Next
    <3> Once \subseteq Jobs /\ Repeat \subseteq Jobs
      BY DEF Jobs
    <3> QED
      BY <1>1, <2>2, KeptSchedule, KeptEnqueue, KeptRecovery, KeptWorker,
         KeptQueue, KeptStalled, KeptRow, KeptCrash DEF Next
  <2>3. QED
    BY <1>1, <2>1, <2>2
<1>2. KeptInv => NoScheduleLost
  BY DEF KeptInv
<1>3. QED
  BY <1>1, <1>2, InitKept, PTL DEF Spec

-----------------------------------------------------------------------------
\* Nothing that RunsOnce excepts happened to j.
Undisturbed(j) == mishaps[j] \cap {"rerun", "unrecorded", "raced"} = {}

\* A once job that was carried out has run once and nobody will enqueue it: the
\* worker is about to record it, or row and queue have settled it.
RanOnce(j) ==
  /\ runs[j] = 1
  /\ status[j] # "absent"
  /\ \A f \in Flows : ~Holds(f, j)
  /\ IF worker.job = j
     THEN worker.pc \in {"record", "finish"} /\ worker.outcome = "completed"
     ELSE bull[j] = "none"
  /\ \/ status[j] # "pending"
     \/ j \in removed
     \/ worker.job = j /\ worker.pc = "record"

OnceInv ==
  /\ worker.pc \in {"lookup", "act"} => worker.outcome = "completed"
  /\ \A j \in Once : Undisturbed(j) /\ runs[j] # 0 => RanOnce(j)

LEMMA InitOnce == Init => OnceInv
  BY DEF Init, OnceInv, Resting

\* What the worker, the rows and the queue do not take part in.
LEMMA OnceApart ==
  ASSUME BaseInv, OnceInv, UNCHANGED <<status, removed, worker, runs>>,
         \A j \in Once : mishaps[j] \subseteq mishaps'[j],
         \A j \in Once : Undisturbed(j) /\ RanOnce(j) =>
           /\ bull[j] = "none" => bull'[j] = "none"
           /\ \A f \in Flows : ~Holds(f, j)'
  PROVE  OnceInv'
<1> SUFFICES ASSUME NEW j \in Once, Undisturbed(j)', runs'[j] # 0
             PROVE  RanOnce(j)'
  BY DEF OnceInv
<1>1. Undisturbed(j) /\ RanOnce(j)
  BY DEF OnceInv, Undisturbed
<1>2. QED
  BY <1>1 DEF RanOnce

LEMMA OnceEnqueue ==
  ASSUME BaseInv, OnceInv, NEW f \in Flows, EnqueueStep(f) \/ CallFails(f)
  PROVE  OnceInv'
<1> USE DeviceScheduleAssumption DEF BaseInv, TypeOK, Jobs, Flows
<1>1. /\ UNCHANGED <<status, removed, worker, runs>>
      /\ \A j \in Jobs : mishaps[j] \subseteq mishaps'[j]
  BY DEF EnqueueStep, CallFails, SetDelay, GetJob, GetState, RemoveOverdue, RemoveLocked,
         Add, CheckRepeat, Register, Throws, Marked, dbVars
<1>2. \A j \in Jobs : flow[f].job # j => (bull[j] = "none" => bull'[j] = "none")
  BY DEF EnqueueStep, CallFails, SetDelay, GetJob, GetState, RemoveOverdue, RemoveLocked,
         Add, CheckRepeat, Register, Throws, redisVars
<1>3. \A g \in Flows, j \in Once : Holds(g, j)' => Holds(g, j)
  <2>0. Enqueued(f) => \E r : Released(f, r) /\ flow' = [flow EXCEPT ![f] = r]
    BY EnqueuedReleases
  <2>1. CASE Enqueued(f)
    BY <2>0, <2>1 DEF Released, Holds
  <2>2. CASE \E p \in {"add", "getState", "remove", "register"} :
               flow' = [flow EXCEPT ![f].pc = p]
    BY <2>2 DEF Holds
  <2>3. CASE flow' = [flow EXCEPT ![f] = Idle]
    BY <2>3 DEF Holds, Idle
  <2>4. CASE SetDelay(f)
    BY <2>4 DEF SetDelay, Holds
  <2>5. QED
    BY <2>1, <2>2, <2>3, <2>4
       DEF EnqueueStep, CallFails, GetJob, GetState, RemoveOverdue, RemoveLocked,
           Add, CheckRepeat, Register, Throws
<1>4. \A j \in Once : RanOnce(j) => flow[f].job # j
  BY DEF RanOnce, Holds
<1>5. QED
  BY <1>1, <1>2, <1>3, <1>4, OnceApart DEF RanOnce

\* Recovery reads pending rows: of a job carried out, that is to race the worker.
LEMMA OnceRecovery ==
  ASSUME BaseInv, OnceInv, RecoveryStep
  PROVE  OnceInv'
<1> USE DeviceScheduleAssumption DEF BaseInv, TypeOK, Jobs, Flows
<1>1. CASE ReadOnce
  <2> DEFINE rows == {j \in Once : status[j] = "pending" /\ j \notin removed}
  <2>1. /\ flow' = [flow EXCEPT ![Boot] = AfterRow(rows, "once")]
        /\ mishaps' = Marked(IF worker.pc = "record" THEN rows \cap {worker.job}
                             ELSE {}, "raced")
        /\ UNCHANGED <<status, removed, worker, runs, bull>>
    BY <1>1, Zenon DEF ReadOnce, dbVars, redisVars
  <2>2. rows \in SUBSET Jobs
    OBVIOUS
  <2> HIDE DEF rows
  <2>3. AfterRow(rows, "once").job = NoJob /\ AfterRow(rows, "once").todo = rows
    BY <2>2, AfterRowType
  <2>4. \A g \in Flows, j \in Once : Holds(g, j)' => Holds(g, j) \/ j \in rows
    BY <2>1, <2>3 DEF Holds
  <2> SUFFICES ASSUME NEW j \in Once, Undisturbed(j)', runs'[j] # 0
               PROVE  RanOnce(j)'
    BY <2>1 DEF OnceInv
  <2>5. Undisturbed(j) /\ "raced" \notin mishaps'[j]
    BY <2>1 DEF Undisturbed, Marked
  <2>6. RanOnce(j)
    BY <2>1, <2>5 DEF OnceInv
  <2>7. j \notin rows
    BY <2>1, <2>5, <2>6 DEF RanOnce, Marked, rows
  <2>8. QED
    BY <2>1, <2>4, <2>6, <2>7 DEF RanOnce
<1>2. CASE ReadRepeat \/ ListRepeatable
  <2>1. UNCHANGED <<status, removed, worker, runs, bull, mishaps>>
    BY <1>2 DEF ReadRepeat, ListRepeatable, dbVars, redisVars
  <2>2. \A g \in Flows, j \in Once : Holds(g, j)' => Holds(g, j)
    <3>1. CASE ReadRepeat
      BY <3>1 DEF ReadRepeat, Holds, Idle
    <3>2. CASE ListRepeatable
      BY <3>2 DEF ListRepeatable, AfterRow, Holds, Idle
    <3>3. QED
      BY <1>2, <3>1, <3>2
  <2>3. QED
    BY <2>1, <2>2, OnceApart DEF RanOnce
<1>3. ASSUME NEW j \in Jobs, NextRow(j)
      PROVE  OnceInv'
  <2>1. PICK r : TakesUp(j, r) /\ flow' = [flow EXCEPT ![Boot] = r]
    BY <1>3, NextRowTakesUp
  <2>2. /\ j \in flow[Boot].todo
        /\ UNCHANGED <<status, removed, worker, runs, bull, mishaps>>
    BY <1>3 DEF NextRow, dbVars, redisVars
  <2>3. \A g \in Flows, i \in Once : Holds(g, i)' => Holds(g, i)
    BY <2>1, <2>2 DEF TakesUp, Holds
  <2>4. QED
    BY <2>2, <2>3, OnceApart DEF RanOnce
<1>4. QED
  BY <1>1, <1>2, <1>3 DEF RecoveryStep

LEMMA LooksUp ==
  ASSUME TypeOK,
         (\E result \in {"act", "failed", "thrown"} : Lookup(result)) \/ ActFails
  PROVE  /\ worker.pc \in {"lookup", "act"} /\ worker'.job = worker.job
         /\ \/ worker'.pc = "record"
            \/ worker'.pc = "act" /\ worker'.outcome = worker.outcome
<1>1. worker \in [pc : {"idle", "lookup", "act", "record", "finish"},
                  job : Jobs \cup {NoJob},
                  outcome : {"completed", "failed", "thrown"}]
  BY DEF TypeOK
<1>2. QED
  BY <1>1 DEF Lookup, ActFails

\* The worker counts a run only of a job it looked up, which had not run; what
\* it then fails to record is excepted.
LEMMA OnceWorker ==
  ASSUME BaseInv, OnceInv, WorkerStep
  PROVE  OnceInv'
<1> USE DeviceScheduleAssumption DEF BaseInv, TypeOK, Jobs, Flows
<1> DEFINE w == worker.job
<1>0. w \in Jobs /\ bull[w] = "active" /\ status[w] # "absent" /\ w # NoJob
  <2>1. worker.pc # "idle"
    BY DEF WorkerStep, Lookup, Act, ActFails, Record, RecordFails, Finish
  <2>2. QED
    BY <2>1 DEF WorkerHolds, RowFirst
<1>1. CASE \/ \E result \in {"act", "failed", "thrown"} : Lookup(result)
           \/ ActFails
  <2>1. /\ worker.pc \in {"lookup", "act"} /\ worker'.job = w
        /\ \/ worker'.pc = "record"
           \/ worker'.pc = "act" /\ worker'.outcome = worker.outcome
    BY <1>1, LooksUp
  <2>2. UNCHANGED <<status, removed, runs, bull, mishaps, flow>>
    BY <1>1 DEF Lookup, ActFails, dbVars, redisVars
  <2>3. QED
    BY <2>1, <2>2 DEF OnceInv, Undisturbed, RanOnce, Holds
<1>2. CASE Act
  <2>1. /\ worker.pc = "act" /\ worker'.pc = "record" /\ worker'.job = w
        /\ worker'.outcome = worker.outcome
        /\ UNCHANGED <<status, removed, bull, flow>>
    BY <1>2 DEF Act, dbVars, redisVars
  <2>2. \A j \in Once : IF j = w THEN runs'[j] = runs[j] + 1 ELSE runs'[j] = runs[j]
    BY <1>2 DEF Act
  <2>3. \A j \in Jobs : mishaps[j] \subseteq mishaps'[j]
    BY <1>2 DEF Act, Marked
  <2>4. w \in Once /\ (\E f \in Flows : Holds(f, w)) => "raced" \in mishaps'[w]
    BY <1>0, <1>2 DEF Act, Marked
  <2> SUFFICES ASSUME NEW j \in Once, Undisturbed(j)', runs'[j] # 0
               PROVE  RanOnce(j)'
    BY <2>1 DEF OnceInv
  <2>5. Undisturbed(j)
    BY <2>3 DEF Undisturbed
  <2>6. CASE j = w
    <3>1. runs[j] = 0
      BY <2>1, <2>5, <2>6 DEF OnceInv, RanOnce
    <3>2. \A f \in Flows : ~Holds(f, j)'
      BY <2>1, <2>4, <2>6 DEF Undisturbed, Holds
    <3>3. worker.outcome = "completed"
      BY <2>1 DEF OnceInv
    <3>4. QED
      BY <1>0, <2>1, <2>2, <2>6, <3>1, <3>2, <3>3 DEF RanOnce
  <2>7. CASE j # w
    <3>1. RanOnce(j)
      BY <2>2, <2>5, <2>7 DEF OnceInv
    <3>2. QED
      BY <2>1, <2>2, <2>7, <3>1 DEF RanOnce, Holds
  <2>8. QED
    BY <2>6, <2>7
<1>3. CASE Record
  <2>1. /\ worker.pc = "record" /\ worker'.pc = "finish" /\ worker'.job = w
        /\ worker'.outcome = worker.outcome
        /\ UNCHANGED <<removed, runs, bull, mishaps, flow>>
    BY <1>3 DEF Record, redisVars
  <2>2. \A j \in Once : /\ j # w => status'[j] = status[j]
                        /\ j = w /\ j \notin removed
                             => status'[j] \in {"completed", "failed"}
                        /\ j = w /\ j \in removed => status'[j] = status[j]
    BY <1>0, <1>3 DEF Record
  <2>3. QED
    BY <2>1, <2>2 DEF OnceInv, Undisturbed, RanOnce, Holds
<1>4. CASE RecordFails
  <2>1. /\ worker.pc = "record" /\ worker'.pc = "finish" /\ worker'.job = w
        /\ UNCHANGED <<status, removed, runs, bull, flow>>
    BY <1>4 DEF RecordFails, dbVars, redisVars
  <2>2. \A j \in Once : /\ mishaps[j] \subseteq mishaps'[j]
                        /\ j = w => "unrecorded" \in mishaps'[j]
    BY <1>4 DEF RecordFails, Marked
  <2>3. QED
    BY <2>1, <2>2 DEF OnceInv, Undisturbed, RanOnce, Holds
<1>5. CASE Finish
  <2>1. /\ worker.pc = "finish" /\ worker'.job = NoJob
        /\ worker'.pc = "idle"
        /\ UNCHANGED <<status, removed, runs, mishaps, flow>>
    BY <1>5 DEF Finish, Resting, dbVars
  <2>2. \A j \in Jobs : /\ j # w => bull'[j] = bull[j]
                        /\ j = w /\ worker.outcome = "completed" => bull'[j] = "none"
    BY <1>5 DEF Finish
  <2>3. QED
    BY <1>0, <2>1, <2>2 DEF OnceInv, Undisturbed, RanOnce, Holds
<1>6. QED
  BY <1>1, <1>2, <1>3, <1>4, <1>5 DEF WorkerStep

\* A job that was carried out is not in the queue to be taken or promoted, and
\* its row exists, so no caller schedules it again.
LEMMA OnceQueue ==
  ASSUME BaseInv, OnceInv, NEW j \in Jobs,
         \/ Take(j) \/ Promote(j) \/ Stalled(j) \/ RemoveLog(j)
         \/ j \in Repeat /\ Occur(j)
         \/ j \in Once /\ ComesDue(j)
         \/ \E c \in Callers : Schedule(c, j)
  PROVE  OnceInv'
<1> USE DeviceScheduleAssumption
    DEF BaseInv, TypeOK, Jobs, Flows, dbVars, redisVars
<1>1. CASE Take(j)
  <2>1. /\ worker.pc = "idle" /\ bull[j] = "waiting" /\ worker'.job = j
        /\ worker'.outcome = "completed"
        /\ bull' = [bull EXCEPT ![j] = "active"]
        /\ UNCHANGED <<status, removed, runs, mishaps, flow>>
    BY <1>1 DEF Take, Resting
  <2>2. worker.job = NoJob
    BY <2>1 DEF WorkerHolds
  <2>3. QED
    BY <2>1, <2>2 DEF OnceInv, Undisturbed, RanOnce, Holds
<1>2. CASE Promote(j) \/ Stalled(j) \/ (j \in Repeat /\ Occur(j))
  <2>1. /\ UNCHANGED <<status, removed, worker, runs, flow>>
        /\ \A i \in Once : mishaps[i] \subseteq mishaps'[i]
        /\ \A i \in Once : bull[i] = "none" => bull'[i] = "none"
    BY <1>2 DEF Promote, Stalled, Occur, Marked
  <2>2. QED
    BY <2>1, OnceApart DEF RanOnce, Holds
<1>3. CASE RemoveLog(j) \/ (j \in Once /\ ComesDue(j))
  <2>1. /\ UNCHANGED <<status, worker, runs, flow, bull, mishaps>>
        /\ removed \subseteq removed'
    BY <1>3 DEF RemoveLog, ComesDue
  <2>2. QED
    BY <2>1 DEF OnceInv, Undisturbed, RanOnce, Holds
<1>4. ASSUME NEW c \in Callers, Schedule(c, j)
      PROVE  OnceInv'
  <2>1. /\ status[j] = "absent" /\ UNCHANGED <<removed, worker, runs, bull, mishaps>>
        /\ \A i \in Jobs : i # j => status'[i] = status[i]
    BY <1>4 DEF Schedule
  <2>2. \A g \in Flows, i \in Jobs : i # j /\ Holds(g, i)' => Holds(g, i)
    BY <1>4 DEF Schedule, Holds, Idle
  <2>3. QED
    BY <2>1, <2>2 DEF OnceInv, Undisturbed, RanOnce
<1>5. QED
  BY <1>1, <1>2, <1>3, <1>4

\* A crash before the run is settled is excepted; after it nothing is left.
LEMMA OnceCrash ==
  ASSUME BaseInv, OnceInv, Crash
  PROVE  OnceInv'
<1> USE DeviceScheduleAssumption DEF BaseInv, TypeOK, Jobs, Flows
<1>1. /\ worker'.job = NoJob /\ worker'.pc = "idle"
      /\ UNCHANGED <<status, removed, runs, bull>>
      /\ \A f \in Flows : flow'[f].job = NoJob /\ flow'[f].todo = {}
  BY DEF Crash, Resting, Idle, dbVars, redisVars
<1>2. \A j \in Once :
        /\ mishaps[j] \ {"unqueued"} \subseteq mishaps'[j]
        /\ worker.job = j /\ worker.pc \in {"record", "finish"}
             /\ worker.outcome = "completed" => "rerun" \in mishaps'[j]
  BY DEF Crash
<1>3. QED
  BY <1>1, <1>2 DEF OnceInv, Undisturbed, RanOnce, Holds

LEMMA NextOnce ==
  ASSUME BaseInv, OnceInv, [Next]_vars
  PROVE  OnceInv'
<1>1. CASE UNCHANGED vars
  BY <1>1 DEF vars, OnceInv, Undisturbed, RanOnce, Holds
<1>2. CASE Next
  <2> Once \subseteq Jobs /\ Repeat \subseteq Jobs
    BY DEF Jobs
  <2> QED
    BY <1>2, OnceEnqueue, OnceRecovery, OnceWorker, OnceQueue, OnceCrash DEF Next
<1>3. QED
  BY <1>1, <1>2

(***************************************************************************)
(* For any jobs, callers, crashes and faults: a once job is carried out a  *)
(* second time only if the process died between acting and finishing, its  *)
(* result was not recorded, or a flow was enqueueing it while it ran.      *)
(***************************************************************************)
THEOREM RunsOnceCorrect == Spec => []RunsOnce
<1>1. OnceInv => RunsOnce
  BY DEF OnceInv, RunsOnce, Undisturbed, RanOnce
<1>2. QED
  BY <1>1, InitOnce, NextOnce, BaseCorrect, PTL DEF Spec

-----------------------------------------------------------------------------
(* The promise: the scheduler implements SchedulePromise. *)

\* What the worker is about to record, or a row says, of a once job is so; and
\* a job whose row says completed is not run again, unless it was disturbed.
Reported ==
  /\ worker.pc \in {"record", "finish"} /\ worker.outcome = "completed"
       /\ worker.job \in Once => runs[worker.job] > 0
  /\ \A j \in Once : status[j] = "completed" =>
       /\ runs[j] > 0
       /\ Undisturbed(j) /\ worker.job = j => worker.pc = "finish"

PromiseInv == BaseInv /\ EarlyInv /\ OnceInv /\ Reported

\* Steps that are not the worker's: disturbances only grow.
LEMMA ReportedApart ==
  ASSUME Reported, UNCHANGED <<status, runs, worker>>,
         \A j \in Once : mishaps[j] \subseteq mishaps'[j]
  PROVE  Reported'
  BY DEF Reported, Undisturbed

LEMMA ReportedWorker ==
  ASSUME PromiseInv, WorkerStep
  PROVE  Reported'
<1> USE DeviceScheduleAssumption DEF PromiseInv, BaseInv, TypeOK, Jobs, Flows
<1> DEFINE w == worker.job
<1>0. worker \in [pc : {"idle", "lookup", "act", "record", "finish"},
                  job : Jobs \cup {NoJob},
                  outcome : {"completed", "failed", "thrown"}]
  OBVIOUS
<1>1. CASE \E result \in {"act", "failed", "thrown"} : Lookup(result)
  <2>1. PICK result \in {"act", "failed", "thrown"} : Lookup(result)
    BY <1>1
  <2>2. /\ worker.pc = "lookup" /\ worker'.job = w
        /\ worker'.pc \in {"act", "record"}
        /\ worker'.pc = "record" => worker'.outcome # "completed"
        /\ UNCHANGED <<status, runs, mishaps>>
    BY <1>0, <2>1 DEF Lookup, dbVars
  <2>3. QED
    BY <2>2 DEF Reported, Undisturbed
<1>2. CASE Act
  <2>1. /\ worker.pc = "act" /\ worker'.pc = "record" /\ worker'.job = w
        /\ UNCHANGED status
        /\ \A j \in Once : mishaps[j] \subseteq mishaps'[j]
    BY <1>0, <1>2 DEF Act, Marked, dbVars
  <2>2. \A j \in Once : IF j = w THEN runs'[j] = runs[j] + 1 ELSE runs'[j] = runs[j]
    BY <1>2 DEF Act
  <2>3. QED
    BY <2>1, <2>2 DEF Reported, Undisturbed
<1>3. CASE ActFails
  <2>1. /\ worker.pc = "act" /\ worker'.pc = "record" /\ worker'.job = w
        /\ worker'.outcome = "thrown"
        /\ UNCHANGED <<status, runs, mishaps>>
    BY <1>0, <1>3 DEF ActFails, dbVars
  <2>2. QED
    BY <2>1 DEF Reported, Undisturbed
<1>4. CASE Record
  <2>1. /\ worker.pc = "record" /\ worker'.pc = "finish" /\ worker'.job = w
        /\ worker'.outcome = worker.outcome
        /\ UNCHANGED <<runs, mishaps>>
    BY <1>0, <1>4 DEF Record
  <2>2. \A j \in Once : /\ j # w => status'[j] = status[j]
                        /\ status'[j] = "completed" =>
                             status[j] = "completed"
                               \/ (j = w /\ worker.outcome = "completed")
    BY <1>4 DEF Record
  <2>3. QED
    BY <2>1, <2>2 DEF Reported, Undisturbed
<1>5. CASE RecordFails
  <2>1. /\ worker.pc = "record" /\ worker'.pc = "finish" /\ worker'.job = w
        /\ worker'.outcome = worker.outcome
        /\ UNCHANGED <<status, runs>>
        /\ \A j \in Once : mishaps[j] \subseteq mishaps'[j]
    BY <1>0, <1>5 DEF RecordFails, Marked, dbVars
  <2>2. QED
    BY <2>1 DEF Reported, Undisturbed
<1>6. CASE Finish
  <2>1. /\ worker'.pc = "idle" /\ worker'.job = NoJob
        /\ UNCHANGED <<status, runs, mishaps>>
    BY <1>6 DEF Finish, Resting, dbVars
  <2>2. QED
    BY <2>1 DEF Reported
<1>7. QED
  BY <1>1, <1>2, <1>3, <1>4, <1>5, <1>6 DEF WorkerStep

LEMMA NextReported ==
  ASSUME PromiseInv, [Next]_vars
  PROVE  Reported'
<1> USE DeviceScheduleAssumption DEF PromiseInv, BaseInv, TypeOK, Jobs, Flows
<1>1. CASE UNCHANGED vars
  BY <1>1 DEF vars, Reported, Undisturbed
<1>2. ASSUME NEW c \in Callers, NEW j \in Jobs, Schedule(c, j)
      PROVE  Reported'
  <2>1. /\ \A i \in Jobs : i # j => status'[i] = status[i]
        /\ status'[j] # "completed"
        /\ UNCHANGED <<worker, runs, mishaps>>
    BY <1>2 DEF Schedule
  <2>2. QED
    BY <2>1 DEF Reported, Undisturbed
<1>3. ASSUME NEW f \in Flows, EnqueueStep(f) \/ CallFails(f)
      PROVE  Reported'
  <2>1. /\ UNCHANGED <<status, runs, worker>>
        /\ \A j \in Jobs : mishaps[j] \subseteq mishaps'[j]
    BY <1>3 DEF EnqueueStep, CallFails, SetDelay, GetJob, GetState, RemoveOverdue,
       RemoveLocked, Add, CheckRepeat, Register, Throws, Marked, dbVars
  <2>2. QED
    BY <2>1, ReportedApart
<1>4. CASE RecoveryStep
  <2>1. /\ UNCHANGED <<status, runs, worker>>
        /\ \A j \in Jobs : mishaps[j] \subseteq mishaps'[j]
    <3>1. CASE ReadOnce
      BY <3>1 DEF ReadOnce, Marked, dbVars
    <3>2. CASE ReadRepeat \/ ListRepeatable \/ \E j \in Jobs : NextRow(j)
      <4>1. UNCHANGED <<status, runs, worker, mishaps>>
        BY <3>2, Zenon DEF ReadRepeat, ListRepeatable, NextRow, dbVars
      <4>2. QED
        BY <4>1
    <3>3. QED
      BY <1>4, <3>1, <3>2 DEF RecoveryStep
  <2>2. QED
    BY <2>1, ReportedApart
<1>5. ASSUME NEW j \in Jobs, Take(j)
      PROVE  Reported'
  <2>1. /\ worker.pc = "idle" /\ bull[j] = "waiting"
        /\ worker'.job = j /\ worker'.pc = "lookup"
        /\ UNCHANGED <<status, runs, mishaps>>
    BY <1>5 DEF Take, Resting, dbVars
  <2>2. worker.job = NoJob
    BY <2>1 DEF WorkerHolds
  <2>3. j \in Once /\ status[j] = "completed" => ~Undisturbed(j)
    BY <2>1, <2>2 DEF Reported, OnceInv, RanOnce
  <2>4. QED
    BY <2>1, <2>3 DEF Reported, Undisturbed
<1>6. CASE WorkerStep
  BY <1>6, ReportedWorker
<1>7. ASSUME NEW j \in Jobs,
             \/ Promote(j) \/ Stalled(j) \/ RemoveLog(j) \/ Occur(j) \/ ComesDue(j)
      PROVE  Reported'
  <2>1. /\ UNCHANGED <<status, runs, worker>>
        /\ \A i \in Jobs : mishaps[i] \subseteq mishaps'[i]
    BY <1>7 DEF Promote, Stalled, RemoveLog, Occur, ComesDue, Marked, dbVars
  <2>2. QED
    BY <2>1, ReportedApart
<1>8. CASE Crash
  <2>1. /\ worker'.pc = "idle" /\ worker'.job = NoJob
        /\ UNCHANGED <<status, runs>>
    BY <1>8 DEF Crash, Resting, dbVars
  <2>2. QED
    BY <2>1 DEF Reported
<1>9. QED
  BY <1>1, <1>2, <1>3, <1>4, <1>5, <1>6, <1>7, <1>8 DEF Next

LEMMA PromiseInvHolds == Spec => []PromiseInv
<1>1. Init => PromiseInv
  BY InitBase, InitEarly, InitOnce DEF Init, PromiseInv, Reported, Resting, Jobs
<1>2. PromiseInv /\ [Next]_vars => PromiseInv'
  BY NextBase, NextEarly, NextOnce, NextReported DEF PromiseInv
<1>3. QED
  BY <1>1, <1>2, PTL DEF Spec

-----------------------------------------------------------------------------
(* What a step changes of what is promised, action by action. *)

\* A step that touches no row, run, time or disturbance of a once job.
LEMMA NothingPromised ==
  ASSUME UNCHANGED <<removed, due, runs>>,
         \A j \in Once : status'[j] = status[j] /\ mishaps'[j] = mishaps[j]
  PROVE  UNCHANGED Promise!vars
  BY DEF Promise!vars, Asked, Verdict, MayRunAgain, MayBeLost

LEMMA PromiseSchedule ==
  ASSUME BaseInv, NEW c \in Callers, NEW j \in Jobs, Schedule(c, j)
  PROVE  [Promise!Next]_(Promise!vars)
<1> USE DeviceScheduleAssumption DEF BaseInv, TypeOK, Jobs
<1>1. /\ status[j] = "absent" /\ status'[j] \in {"pending", "active"}
      /\ \A i \in Jobs : i # j => status'[i] = status[i]
      /\ UNCHANGED <<removed, due, runs, mishaps>>
  BY DEF Schedule
<1>2. CASE j \in Once
  <2>1. Asked' = Asked \cup {j} /\ j \notin Asked
    BY <1>1, <1>2 DEF Asked
  <2>2. UNCHANGED <<Verdict, MayRunAgain, MayBeLost>>
    BY <1>1 DEF Verdict, MayRunAgain, MayBeLost
  <2>3. Promise!Ask(j)
    BY <1>1, <2>1, <2>2 DEF Promise!Ask
  <2>4. QED
    BY <1>2, <2>3 DEF Promise!Next
<1>3. CASE j \notin Once
  BY <1>1, <1>3, NothingPromised
<1>4. QED
  BY <1>2, <1>3

\* Jobs that a step may have left lost, all of them scheduled.
LEMMA PromiseLost ==
  ASSUME NEW js \in SUBSET Jobs, UNCHANGED <<status, removed, due, runs>>,
         BaseInv, \A j \in js : status[j] # "absent",
         NEW what \in {"unqueued", "stalledOut"},
         \A j \in Once : mishaps'[j] = IF j \in js THEN mishaps[j] \cup {what}
                                                   ELSE mishaps[j]
  PROVE  Promise!Next
<1> DEFINE ls == js \cap Once
<1>1. ls \subseteq Asked /\ ls \in SUBSET Once
  BY DEF Asked
<1>2. MayBeLost' = MayBeLost \cup ls
  BY DEF MayBeLost
<1>3. UNCHANGED <<Asked, Verdict, MayRunAgain>>
  BY DEF Asked, Verdict, MayRunAgain
<1>4. Promise!Lose(ls)
  BY <1>1, <1>2, <1>3 DEF Promise!Lose
<1>5. QED
  BY <1>1, <1>4 DEF Promise!Next

LEMMA PromiseEnqueue ==
  ASSUME BaseInv, NEW f \in Flows, EnqueueStep(f) \/ CallFails(f)
  PROVE  [Promise!Next]_(Promise!vars)
<1>1. CASE RemoveLocked(f) \/ CallFails(f)
  <2> DEFINE js == {j \in Jobs : /\ status[j] \in {"pending", "active"} /\ ~Queued(j)
                                 /\ \A g \in Flows \ {f} : ~Holds(g, j)
                                 /\ f = Boot \/ ~ToBeRead(j)}
  <2>1. mishaps' = Marked(js, "unqueued") /\ UNCHANGED <<status, removed, due, runs>>
    BY <1>1, Zenon DEF RemoveLocked, CallFails, Throws, dbVars
  <2>2. js \in SUBSET Jobs /\ \A j \in js : status[j] # "absent"
    OBVIOUS
  <2> HIDE DEF js
  <2>3. \A j \in Once : mishaps'[j] = IF j \in js THEN mishaps[j] \cup {"unqueued"}
                                                  ELSE mishaps[j]
    BY <2>1 DEF Marked, Jobs
  <2>4. QED
    BY <2>1, <2>2, <2>3, PromiseLost
<1>2. CASE \/ SetDelay(f) \/ GetJob(f) \/ GetState(f) \/ RemoveOverdue(f) \/ Add(f)
           \/ CheckRepeat(f) \/ Register(f)
  <2>1. UNCHANGED <<status, removed, due, runs, mishaps>>
    BY <1>2 DEF SetDelay, GetJob, GetState, RemoveOverdue, Add, CheckRepeat, Register, dbVars
  <2>2. QED
    BY <2>1, NothingPromised
<1>3. QED
  BY <1>1, <1>2 DEF EnqueueStep

\* The job in the worker's hands was scheduled and is due.
LEMMA InHand ==
  ASSUME BaseInv, EarlyInv, worker.job \in Once, worker.pc # "idle"
  PROVE  worker.job \in Asked \cap (due \cap Once)
<1>1. bull[worker.job] = "active" /\ worker.job \in Jobs
  BY DEF BaseInv, WorkerHolds
<1>2. status[worker.job] # "absent"
  BY <1>1 DEF BaseInv, RowFirst
<1>3. worker.job \in due
  BY <1>1 DEF EarlyInv
<1>4. QED
  BY <1>2, <1>3 DEF Asked

\* The job in hand meets with a fault or another flow.
LEMMA PromiseDisturbed ==
  ASSUME BaseInv, EarlyInv, worker.job \in Once, worker.pc # "idle",
         UNCHANGED <<status, removed, due, runs>>,
         NEW what \in {"raced", "unrecorded"},
         \A j \in Once : mishaps'[j] = IF j = worker.job THEN mishaps[j] \cup {what}
                                                         ELSE mishaps[j]
  PROVE  Promise!Next
<1> DEFINE w == worker.job
           isLost == what = "unrecorded"
<1>1. w \in Asked \cap (due \cap Once)
  BY InHand
<1>2. MayRunAgain' = MayRunAgain \cup {w}
  BY DEF MayRunAgain
<1>3. MayBeLost' = IF isLost THEN MayBeLost \cup {w} ELSE MayBeLost
  BY DEF MayBeLost
<1>4. UNCHANGED <<Asked, Verdict>>
  BY DEF Asked, Verdict
<1>5. isLost \in BOOLEAN
  OBVIOUS
<1> HIDE DEF isLost
<1>6. Promise!Disturb(w, isLost)
  BY <1>1, <1>2, <1>3, <1>4 DEF Promise!Disturb
<1>7. QED
  BY <1>5, <1>6 DEF Promise!Next

LEMMA PromiseRecovery ==
  ASSUME BaseInv, EarlyInv, RecoveryStep
  PROVE  [Promise!Next]_(Promise!vars)
<1>1. CASE ReadOnce
  <2> DEFINE rows == {j \in Once : status[j] = "pending" /\ j \notin removed}
             js == IF worker.pc = "record" THEN rows \cap {worker.job} ELSE {}
  <2>1. mishaps' = Marked(js, "raced") /\ UNCHANGED <<status, removed, due, runs>>
    BY <1>1, Zenon DEF ReadOnce, dbVars
  <2>2. js = {} \/ (js = {worker.job} /\ worker.pc = "record" /\ worker.job \in Once)
    OBVIOUS
  <2> HIDE DEF js
  <2>3. \A j \in Once : mishaps'[j] = IF j \in js THEN mishaps[j] \cup {"raced"}
                                                  ELSE mishaps[j]
    BY <2>1 DEF Marked, Jobs
  <2>4. CASE js = {}
    BY <2>1, <2>3, <2>4, NothingPromised
  <2>5. CASE js = {worker.job} /\ worker.pc = "record" /\ worker.job \in Once
    BY <2>1, <2>3, <2>5, PromiseDisturbed
  <2>6. QED
    BY <2>2, <2>4, <2>5
<1>2. CASE ReadRepeat \/ ListRepeatable \/ \E j \in Jobs : NextRow(j)
  <2>1. UNCHANGED <<status, removed, due, runs, mishaps>>
    BY <1>2, Zenon DEF ReadRepeat, ListRepeatable, NextRow, dbVars
  <2>2. QED
    BY <2>1, NothingPromised
<1>3. QED
  BY <1>1, <1>2 DEF RecoveryStep

\* A run of a once job: its first, or one of a job that was disturbed before.
LEMMA PromiseAct ==
  ASSUME PromiseInv, Act
  PROVE  [Promise!Next]_(Promise!vars)
<1> USE DeviceScheduleAssumption DEF PromiseInv, BaseInv, TypeOK, Jobs
<1> DEFINE w == worker.job
           raced == \E f \in Flows : Holds(f, w)
<1>1. /\ worker.pc = "act"
      /\ UNCHANGED <<status, removed, due>>
  BY DEF Act, dbVars
<1>2. /\ runs' = IF w \in Once THEN [runs EXCEPT ![w] = @ + 1] ELSE runs
      /\ mishaps' = IF raced THEN Marked({w} \cap Once, "raced") ELSE mishaps
  BY Zenon DEF Act
<1>3. raced \in BOOLEAN
  OBVIOUS
<1> HIDE DEF raced
<1>4. CASE w \notin Once
  <2>1. runs' = runs /\ \A j \in Once : mishaps'[j] = mishaps[j]
    BY <1>2, <1>4 DEF Marked
  <2>2. QED
    BY <1>1, <2>1, NothingPromised
<1>5. CASE w \in Once
  <2>1. w \in Asked \cap (due \cap Once)
    BY <1>1, <1>5, InHand
  <2>2. runs[w] = 0 \/ w \in MayRunAgain
    BY <1>1, <1>5 DEF OnceInv, RanOnce, Undisturbed, MayRunAgain
  <2>3. \A j \in Once : mishaps'[j] = IF raced /\ j = w THEN mishaps[j] \cup {"raced"}
                                                        ELSE mishaps[j]
    BY <1>2, <1>5 DEF Marked
  <2>4. /\ MayRunAgain' = IF raced THEN MayRunAgain \cup {w} ELSE MayRunAgain
        /\ MayBeLost' = MayBeLost
    <3>1. CASE raced
      <4>1. \A j \in Once : mishaps'[j] = IF j = w THEN mishaps[j] \cup {"raced"}
                                                   ELSE mishaps[j]
        BY <2>3, <3>1
      <4> HIDE DEF w, PromiseInv, BaseInv, TypeOK
      <4>2. QED
        BY <1>5, <3>1, <4>1 DEF MayRunAgain, MayBeLost
    <3>2. CASE ~raced
      <4>1. \A j \in Once : mishaps'[j] = mishaps[j]
        BY <2>3, <3>2
      <4>2. QED
        BY <3>2, <4>1 DEF MayRunAgain, MayBeLost
    <3>3. QED
      BY <3>1, <3>2
  <2>5. UNCHANGED <<Asked, Verdict>>
    BY <1>1 DEF Asked, Verdict
  <2>6. Promise!Run(w, raced)
    BY <1>1, <1>2, <1>5, <2>1, <2>2, <2>4, <2>5 DEF Promise!Run
  <2>7. QED
    BY <1>3, <1>5, <2>6 DEF Promise!Next
<1>6. QED
  BY <1>4, <1>5

\* What is recorded of a once job that was not disturbed is so, and new.
LEMMA PromiseRecord ==
  ASSUME PromiseInv, Record
  PROVE  [Promise!Next]_(Promise!vars)
<1> USE DeviceScheduleAssumption DEF PromiseInv, BaseInv, TypeOK, Jobs
<1> DEFINE w == worker.job
           how == IF worker.outcome = "completed" THEN "completed" ELSE "failed"
<1>1. /\ worker.pc = "record"
      /\ UNCHANGED <<removed, due, runs, mishaps>>
  BY DEF Record
<1>2. \A j \in Once : status'[j] = IF j = w /\ j \notin removed THEN how ELSE status[j]
  BY DEF Record
<1>3. CASE w \notin Once \/ w \in removed
  BY <1>1, <1>2, <1>3, NothingPromised
<1>4. CASE w \in Once \ removed
  <2>1. w \in Asked \cap (due \cap Once)
    BY <1>1, <1>4, InHand
  <2>2. how = "completed" => runs[w] > 0
    BY <1>1, <1>4 DEF Reported
  <2>3. w \notin MayRunAgain => /\ how = "failed" => runs[w] = 0
                                /\ Verdict[w] # "completed"
    <3>1. w \notin MayRunAgain => Undisturbed(w)
      BY <1>4 DEF MayRunAgain, Undisturbed
    <3>2. Undisturbed(w) /\ how = "failed" => runs[w] = 0
      BY <1>4 DEF OnceInv, RanOnce
    <3>3. Undisturbed(w) => Verdict[w] # "completed"
      BY <1>1, <1>4 DEF Reported, Verdict
    <3>4. QED
      BY <3>1, <3>2, <3>3
  <2>4. how \in {"completed", "failed"}
    OBVIOUS
  <2> HIDE DEF how
  <2>5. Verdict' = [Verdict EXCEPT ![w] = how]
    BY <1>2, <1>4, <2>4 DEF Verdict
  <2>6. UNCHANGED <<Asked, MayRunAgain, MayBeLost>>
    <3>1. Asked' = Asked
      BY <1>2, <2>1, <2>4 DEF Asked
    <3>2. QED
      BY <1>1, <3>1 DEF MayRunAgain, MayBeLost
  <2>7. Promise!Settle(w, how)
    BY <1>1, <1>4, <2>1, <2>2, <2>3, <2>5, <2>6 DEF Promise!Settle
  <2>8. QED
    BY <1>4, <2>4, <2>7 DEF Promise!Next
<1>5. QED
  BY <1>3, <1>4

LEMMA PromiseWorker ==
  ASSUME PromiseInv, WorkerStep
  PROVE  [Promise!Next]_(Promise!vars)
<1>1. CASE \/ \E result \in {"act", "failed", "thrown"} : Lookup(result)
           \/ ActFails \/ Finish
  <2>1. UNCHANGED <<status, removed, due, runs, mishaps>>
    BY <1>1 DEF Lookup, ActFails, Finish, dbVars
  <2>2. QED
    BY <2>1, NothingPromised
<1>2. CASE Act
  BY <1>2, PromiseAct
<1>3. CASE Record
  BY <1>3, PromiseRecord
<1>4. CASE RecordFails
  <2>1. /\ worker.pc = "record"
        /\ mishaps' = Marked({worker.job} \cap Once, "unrecorded")
        /\ UNCHANGED <<status, removed, due, runs>>
    BY <1>4 DEF RecordFails, dbVars
  <2>2. \A j \in Once : mishaps'[j] = IF j = worker.job
                                      THEN mishaps[j] \cup {"unrecorded"}
                                      ELSE mishaps[j]
    BY <2>1 DEF Marked, Jobs
  <2>3. CASE worker.job \in Once
    BY <2>1, <2>2, <2>3, PromiseDisturbed DEF PromiseInv
  <2>4. CASE worker.job \notin Once
    BY <2>1, <2>2, <2>4, NothingPromised
  <2>5. QED
    BY <2>3, <2>4
<1>5. QED
  BY <1>1, <1>2, <1>3, <1>4 DEF WorkerStep

LEMMA PromiseQueue ==
  ASSUME BaseInv, NEW j \in Jobs,
         \/ Take(j) \/ Promote(j) \/ Stalled(j) \/ RemoveLog(j) \/ Occur(j)
         \/ j \in Once /\ ComesDue(j)
  PROVE  [Promise!Next]_(Promise!vars)
<1>1. CASE Take(j) \/ Promote(j) \/ Occur(j)
  <2>1. UNCHANGED <<status, removed, due, runs, mishaps>>
    BY <1>1 DEF Take, Promote, Occur, dbVars
  <2>2. QED
    BY <2>1, NothingPromised
<1>2. CASE Stalled(j)
  <2>1. bull[j] = "active" /\ UNCHANGED <<status, removed, due, runs>>
    BY <1>2 DEF Stalled, dbVars
  <2>2. status[j] # "absent"
    BY <2>1 DEF BaseInv, RowFirst
  <2>3. CASE stalls[j] = 0
    BY <1>2, <2>1, <2>3, NothingPromised DEF Stalled
  <2>4. CASE stalls[j] # 0
    <3>1. mishaps' = Marked({j} \cap Once, "stalledOut")
      BY <1>2, <2>4 DEF Stalled
    <3>2. \A i \in Once : mishaps'[i] = IF i \in {j} THEN mishaps[i] \cup {"stalledOut"}
                                                     ELSE mishaps[i]
      BY <3>1 DEF Marked, Jobs
    <3>3. QED
      BY <2>1, <2>2, <3>2, PromiseLost
  <2>5. QED
    BY <2>3, <2>4
<1>3. CASE RemoveLog(j)
  <2>1. /\ status[j] # "absent" /\ j \notin removed /\ removed' = removed \cup {j}
        /\ UNCHANGED <<status, due, runs, mishaps>>
    BY <1>3 DEF RemoveLog
  <2>2. UNCHANGED <<Asked, Verdict, MayRunAgain, MayBeLost>>
    BY <2>1 DEF Asked, Verdict, MayRunAgain, MayBeLost
  <2>3. CASE j \in Once
    <3>1. Promise!Withdraw(j)
      BY <2>1, <2>2, <2>3 DEF Promise!Withdraw, Asked
    <3>2. QED
      BY <2>3, <3>1 DEF Promise!Next
  <2>4. CASE j \notin Once
    BY <2>1, <2>2, <2>4 DEF Promise!vars
  <2>5. QED
    BY <2>3, <2>4
<1>4. CASE j \in Once /\ ComesDue(j)
  <2>1. /\ status[j] # "absent" /\ j \notin due /\ due' = due \cup {j}
        /\ UNCHANGED <<status, removed, runs, mishaps>>
    BY <1>4 DEF ComesDue, dbVars
  <2>2. UNCHANGED <<Asked, Verdict, MayRunAgain, MayBeLost>>
    BY <2>1 DEF Asked, Verdict, MayRunAgain, MayBeLost
  <2>3. Promise!ComesDue(j)
    BY <1>4, <2>1, <2>2 DEF Promise!ComesDue, Asked
  <2>4. QED
    BY <1>4, <2>3 DEF Promise!Next
<1>5. QED
  BY <1>1, <1>2, <1>3, <1>4

LEMMA PromiseCrash ==
  ASSUME BaseInv, EarlyInv, Crash
  PROVE  [Promise!Next]_(Promise!vars)
<1> DEFINE js == {j \in Once : /\ worker.job = j
                               /\ worker.pc \in {"record", "finish"}
                               /\ worker.outcome = "completed"}
           found == MayBeLost \ MayBeLost'
<1>1. \A j \in Once : mishaps'[j] = (mishaps[j] \ {"unqueued"})
                                      \cup (IF j \in js THEN {"rerun"} ELSE {})
  BY DEF Crash, Jobs
<1>2. UNCHANGED <<status, removed, due, runs>>
  BY DEF Crash, dbVars
<1>3. js \in SUBSET Once /\ \A i, j \in js : i = j
  OBVIOUS
<1>4. js \subseteq Asked \cap (due \cap Once)
  BY InHand
<1> HIDE DEF js
<1>5. MayRunAgain' = MayRunAgain \cup js
  BY <1>1, <1>3 DEF MayRunAgain
<1>6. MayBeLost' \subseteq MayBeLost /\ MayBeLost \subseteq Once
  BY <1>1 DEF MayBeLost
<1>7. found \in SUBSET Once /\ MayBeLost' = MayBeLost \ found
  BY <1>6
<1> HIDE DEF found
<1>8. UNCHANGED <<Asked, Verdict>>
  BY <1>2 DEF Asked, Verdict
<1>9. Promise!Restart(js, found)
  BY <1>2, <1>3, <1>4, <1>5, <1>7, <1>8 DEF Promise!Restart
<1>10. QED
  BY <1>3, <1>7, <1>9 DEF Promise!Next

LEMMA PromiseStep ==
  ASSUME PromiseInv, [Next]_vars
  PROVE  [Promise!Next]_(Promise!vars)
<1>1. CASE UNCHANGED vars
  BY <1>1, NothingPromised DEF vars
<1>2. CASE Next
  <2> Once \subseteq Jobs /\ Repeat \subseteq Jobs
    BY DEF Jobs
  <2> QED
    BY <1>2, PromiseSchedule, PromiseEnqueue, PromiseRecovery, PromiseWorker,
       PromiseQueue, PromiseCrash DEF Next, PromiseInv
<1>3. QED
  BY <1>1, <1>2

(***************************************************************************)
(* DeviceSchedule implements the safety part of SchedulePromise, for any   *)
(* jobs and callers and any number of crashes and faults: a once job runs  *)
(* only when due and, undisturbed, one time; its row says completed only   *)
(* if it ran and failed only if it did not, and a completed job stays so.  *)
(***************************************************************************)
THEOREM SchedulePromiseKept == Spec => Promise!Safety
<1>1. Init => Promise!Init
  BY DEF Init, Jobs, Promise!Init, Asked, Verdict, MayRunAgain, MayBeLost
<1>2. QED
  BY <1>1, PromiseStep, PromiseInvHolds, PTL DEF Spec, Promise!Safety

=============================================================================
