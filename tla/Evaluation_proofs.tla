--------------------------- MODULE Evaluation_proofs ---------------------------
(***************************************************************************)
(* Proofs about Evaluation: the semaphore's slots and the records of the   *)
(* tasks, for any number of tasks, slots, retries and runs.                *)
(***************************************************************************)
EXTENDS Evaluation, FiniteSetTheorems, TLAPS

\* The queue holds waiting tasks, each once.
QueueKnown ==
  /\ \A i \in DOMAIN queue : stage[queue[i]] = "waiting"
  /\ \A i, j \in DOMAIN queue : queue[i] = queue[j] => i = j

\* Tasks the loop has not come to have not asked.
CursorKnown == running => \A t \in Tasks : t \geq next => stage[t] = "out"

SlotInv == EvalTypeOK /\ QueueKnown /\ CursorKnown /\ SlotsConserved

Recorded(t) == ok[t] = 1 \/ (t \in fresh /\ bad[t] > 0)

\* A task that is under way has no success yet and calls no device; one that is done
\* is recorded, unless it was passed over by a stop.
TasksKnown ==
  \A t \in Tasks :
    /\ stage[t] \in {"waiting", "granted", "calling"} => ok[t] = 0 /\ dryRun
    /\ stage[t] = "done" /\ ~stopRequested => Recorded(t)

\* The tools' side effects are replaced for as long as the command runs.
RunIsDry == running => dryRun

RecordInv == SlotInv /\ RunIsDry /\ TasksKnown /\ EveryCaseRecorded

-----------------------------------------------------------------------------
LEMMA LimitType == Limit \in Nat \ {0}
  BY EvaluationAssumption DEF Limit

LEMMA HoldingFinite == IsFiniteSet(Holding) /\ Cardinality(Holding) \in Nat
<1>1. IsFiniteSet(Tasks)
  BY FS_Interval, EvaluationAssumption DEF Tasks
<1>2. QED
  BY <1>1, FS_Subset, FS_CardinalityType DEF Holding

LEMMA HeadTail ==
  ASSUME EvalTypeOK, QueueKnown, queue # <<>>
  PROVE  /\ Head(queue) \in Tasks /\ stage[Head(queue)] = "waiting"
         /\ Tail(queue) \in Seq(Tasks)
         /\ \A i \in DOMAIN Tail(queue) :
              stage[Tail(queue)[i]] = "waiting" /\ Tail(queue)[i] # Head(queue)
         /\ \A i, j \in DOMAIN Tail(queue) : Tail(queue)[i] = Tail(queue)[j] => i = j
<1>1. /\ queue \in Seq(Tasks) /\ Len(queue) \in Nat \ {0}
      /\ DOMAIN queue = 1 .. Len(queue)
  BY DEF EvalTypeOK
<1>2. /\ Head(queue) = queue[1] /\ 1 \in DOMAIN queue
      /\ Tail(queue) \in Seq(Tasks)
      /\ DOMAIN Tail(queue) = 1 .. Len(queue) - 1
      /\ \A i \in 1 .. Len(queue) - 1 : Tail(queue)[i] = queue[i + 1]
  BY <1>1
<1>3. \A i \in 1 .. Len(queue) - 1 : i + 1 \in DOMAIN queue /\ i + 1 # 1
  BY <1>1
<1>4. \A i, j \in 1 .. Len(queue) - 1 : i + 1 = j + 1 => i = j
  BY <1>1
<1>5. Head(queue) \in Tasks
  BY <1>1, <1>2
<1>6. QED
  BY <1>2, <1>3, <1>4, <1>5 DEF QueueKnown

\* What a released slot does to the stages and the queue.
LEMMA ReleaseQueue ==
  ASSUME EvalTypeOK, QueueKnown, NEW t \in Tasks, stage[t] \in {"granted", "calling"},
         Release(t)
  PROVE  /\ stage' \in [Tasks -> Stages] /\ queue' \in Seq(Tasks)
         /\ QueueKnown'
         /\ stage'[t] = "done"
         /\ \A u \in Tasks \ {t} :
              \/ stage'[u] = stage[u]
              \/ stage[u] = "waiting" /\ stage'[u] = "granted"
<1>1. CASE queue = <<>>
  <2>1. stage' = [stage EXCEPT ![t] = "done"] /\ queue' = queue
    BY <1>1 DEF Release
  <2>2. stage \in [Tasks -> Stages] /\ queue \in Seq(Tasks)
    BY DEF EvalTypeOK
  <2>3. /\ stage' \in [Tasks -> Stages]
        /\ stage'[t] = "done" /\ \A u \in Tasks \ {t} : stage'[u] = stage[u]
    BY <2>1, <2>2 DEF Stages
  <2>4. DOMAIN queue' = {}
    BY <1>1, <2>1
  <2>5. QueueKnown'
    BY <2>4 DEF QueueKnown
  <2>6. QED
    BY <2>1, <2>2, <2>3, <2>5
<1>2. CASE queue # <<>>
  <2>1. /\ stage' = [stage EXCEPT ![t] = "done", ![Head(queue)] = "granted"]
        /\ queue' = Tail(queue)
    BY <1>2 DEF Release
  <2>2. /\ Head(queue) \in Tasks /\ stage[Head(queue)] = "waiting"
        /\ Tail(queue) \in Seq(Tasks)
        /\ \A i \in DOMAIN Tail(queue) :
             stage[Tail(queue)[i]] = "waiting" /\ Tail(queue)[i] # Head(queue)
        /\ \A i, j \in DOMAIN Tail(queue) : Tail(queue)[i] = Tail(queue)[j] => i = j
    BY <1>2, HeadTail
  <2>3. Head(queue) # t
    BY <2>2
  <2>4. stage \in [Tasks -> Stages]
    BY DEF EvalTypeOK
  <2>5. /\ stage' \in [Tasks -> Stages]
        /\ stage'[t] = "done" /\ stage'[Head(queue)] = "granted"
        /\ \A u \in Tasks \ {t, Head(queue)} : stage'[u] = stage[u]
    BY <2>1, <2>2, <2>3, <2>4 DEF Stages
  <2>6. \A i \in DOMAIN Tail(queue) : Tail(queue)[i] \in Tasks \ {t, Head(queue)}
    <3>1. \A i \in DOMAIN Tail(queue) : Tail(queue)[i] \in Tasks
      BY <2>2
    <3>2. QED
      BY <2>2, <3>1
  <2>7. QueueKnown'
    BY <2>1, <2>2, <2>5, <2>6 DEF QueueKnown
  <2>8. QED
    BY <2>1, <2>2, <2>5, <2>7
<1>3. QED
  BY <1>1, <1>2

\* A slot that is released is free, or its next task's.
LEMMA ReleaseSlot ==
  ASSUME SlotInv, NEW t \in Tasks, stage[t] \in {"granted", "calling"}, Release(t)
  PROVE  active' \in Nat /\ SlotsConserved'
<1>. USE DEF SlotInv
<1>1. /\ t \in Holding /\ IsFiniteSet(Holding) /\ Cardinality(Holding) \in Nat
      /\ active = Cardinality(Holding) /\ active \leq Limit
  BY HoldingFinite DEF Holding, SlotsConserved
<1>2. /\ Cardinality(Holding \ {t}) = Cardinality(Holding) - 1
      /\ IsFiniteSet(Holding \ {t}) /\ Cardinality(Holding \ {t}) \in Nat
  BY <1>1, FS_RemoveElement, FS_CardinalityType
<1>3. CASE queue = <<>>
  <2>1. active' = active - 1 /\ queue' = queue /\ stage' = [stage EXCEPT ![t] = "done"]
    BY <1>3 DEF Release
  <2>2. Holding' = Holding \ {t}
    BY <2>1 DEF Holding, EvalTypeOK
  <2>3. active' = Cardinality(Holding') /\ active' \in Nat /\ active' \leq Limit
    BY <1>1, <1>2, <2>1, <2>2, LimitType
  <2>4. QED
    BY <1>3, <2>1, <2>3 DEF SlotsConserved, Limit
<1>4. CASE queue # <<>>
  <2>1. /\ active' = active
        /\ stage' = [stage EXCEPT ![t] = "done", ![Head(queue)] = "granted"]
    BY <1>4 DEF Release
  <2>2. Head(queue) \in Tasks /\ stage[Head(queue)] = "waiting" /\ active = Limit
    BY <1>4, HeadTail DEF SlotsConserved
  <2>3. Holding' = (Holding \ {t}) \cup {Head(queue)} /\ Head(queue) \notin Holding \ {t}
    BY <2>1, <2>2 DEF Holding, EvalTypeOK
  <2>4. Cardinality(Holding') = Cardinality(Holding \ {t}) + 1
    BY <1>2, <2>3, FS_AddElement
  <2>5. active' = Cardinality(Holding') /\ active' \in Nat
    BY <1>1, <1>2, <2>1, <2>4
  <2>6. QED
    BY <1>1, <2>1, <2>2, <2>5 DEF SlotsConserved, Limit
<1>5. QED
  BY <1>3, <1>4

\* The next task of the loop takes a free slot, or waits behind the others.
LEMMA AcquireSlot ==
  ASSUME SlotInv, Acquire
  PROVE  SlotInv'
<1>. USE DEF SlotInv
<1>1. /\ next \in Tasks /\ next' = next + 1 /\ next' \in 1 .. NumTasks + 1
      /\ stage[next] = "out"
      /\ running' = running
  BY EvaluationAssumption DEF Acquire, Listing, Tasks, CursorKnown, EvalTypeOK
<1>2. /\ IsFiniteSet(Holding) /\ Cardinality(Holding) \in Nat /\ Limit \in Nat
      /\ next \notin Holding
  BY <1>1, HoldingFinite, LimitType DEF Holding
<1>3. \A i \in DOMAIN queue : queue[i] \in Tasks /\ queue[i] # next
  BY <1>1 DEF QueueKnown, EvalTypeOK
<1>4. ASSUME NEW s \in {"done", "granted", "waiting"}, stage' = [stage EXCEPT ![next] = s]
      PROVE  /\ stage' \in [Tasks -> Stages]
             /\ CursorKnown'
             /\ Holding' = IF s = "granted" THEN Holding \cup {next} ELSE Holding
             /\ stage'[next] = s /\ \A u \in Tasks \ {next} : stage'[u] = stage[u]
  <2>1. stage \in [Tasks -> Stages]
    BY DEF EvalTypeOK
  <2>2. stage' \in [Tasks -> Stages]
    BY <1>4, <2>1 DEF Stages
  <2>3. stage'[next] = s /\ \A u \in Tasks \ {next} : stage'[u] = stage[u]
    BY <1>1, <1>4, <2>1
  <2>4. CursorKnown'
    <3>1. ASSUME running', NEW u \in Tasks, u \geq next'
          PROVE  stage'[u] = "out"
      <4>1. u \in Int /\ next \in Int
        BY <1>1 DEF Tasks
      <4>2. u \geq next /\ u # next
        BY <1>1, <3>1, <4>1
      <4>3. stage[u] = "out"
        BY <1>1, <3>1, <4>2 DEF CursorKnown
      <4>4. QED
        BY <2>3, <4>2, <4>3
    <3>2. QED
      BY <3>1 DEF CursorKnown
  <2>5. Holding' = IF s = "granted" THEN Holding \cup {next} ELSE Holding
    BY <1>1, <2>3 DEF Holding
  <2>6. QED
    BY <2>2, <2>3, <2>4, <2>5
<1>5. CASE next \in Completed
  <2>1. stage' = [stage EXCEPT ![next] = "done"] /\ UNCHANGED <<active, queue>>
    BY <1>5 DEF Acquire
  <2>2. /\ stage' \in [Tasks -> Stages] /\ CursorKnown' /\ Holding' = Holding
        /\ \A u \in Tasks \ {next} : stage'[u] = stage[u]
    BY <1>4, <2>1
  <2>3. QueueKnown' /\ SlotsConserved'
    BY <1>3, <2>1, <2>2 DEF QueueKnown, SlotsConserved, Limit
  <2>4. EvalTypeOK'
    BY <1>1, <2>1, <2>2 DEF Acquire, EvalTypeOK
  <2>5. QED
    BY <2>2, <2>3, <2>4
<1>6. CASE next \notin Completed /\ active < Limit
  <2>1. /\ stage' = [stage EXCEPT ![next] = "granted"]
        /\ active' = active + 1 /\ queue' = queue
    <3>1. active \in Nat
      BY DEF EvalTypeOK
    <3>2. ~(active \geq Limit)
      BY <1>2, <1>6, <3>1
    <3>3. QED
      BY <1>6, <3>2 DEF Acquire
  <2>2. /\ stage' \in [Tasks -> Stages] /\ CursorKnown' /\ Holding' = Holding \cup {next}
        /\ \A u \in Tasks \ {next} : stage'[u] = stage[u]
    BY <1>4, <2>1
  <2>3. Cardinality(Holding') = Cardinality(Holding) + 1
    BY <1>2, <2>2, FS_AddElement
  <2>4. queue = <<>> /\ active = Cardinality(Holding)
    <3>1. active \in Nat
      BY DEF EvalTypeOK
    <3>2. active # Limit
      BY <1>2, <1>6, <3>1
    <3>3. QED
      BY <3>2 DEF SlotsConserved
  <2>5. QueueKnown' /\ SlotsConserved'
    BY <1>2, <1>3, <1>6, <2>1, <2>2, <2>3, <2>4 DEF QueueKnown, SlotsConserved, Limit
  <2>6. EvalTypeOK'
    BY <1>1, <2>1, <2>2 DEF Acquire, EvalTypeOK
  <2>7. QED
    BY <2>2, <2>5, <2>6
<1>7. CASE next \notin Completed /\ active \geq Limit
  <2>1. /\ stage' = [stage EXCEPT ![next] = "waiting"]
        /\ active' = active /\ queue' = Append(queue, next)
    BY <1>2, <1>7 DEF Acquire, EvalTypeOK
  <2>2. /\ stage' \in [Tasks -> Stages] /\ CursorKnown' /\ Holding' = Holding
        /\ stage'[next] = "waiting" /\ \A u \in Tasks \ {next} : stage'[u] = stage[u]
    BY <1>4, <2>1
  <2>3. active = Cardinality(Holding) /\ active = Limit
    BY <1>2, <1>7 DEF SlotsConserved
  <2>4. SlotsConserved'
    BY <2>1, <2>2, <2>3 DEF SlotsConserved, Limit
  <2>5. /\ queue \in Seq(Tasks) /\ Len(queue) \in Nat
        /\ DOMAIN queue = 1 .. Len(queue)
        /\ queue' \in Seq(Tasks)
        /\ DOMAIN queue' = 1 .. Len(queue) + 1
        /\ queue'[Len(queue) + 1] = next
        /\ \A i \in 1 .. Len(queue) : queue'[i] = queue[i]
    BY <1>1, <2>1 DEF EvalTypeOK
  <2>6. QueueKnown'
    BY <1>3, <2>2, <2>5 DEF QueueKnown
  <2>7. EvalTypeOK'
    BY <1>1, <2>1, <2>2, <2>5 DEF Acquire, EvalTypeOK
  <2>8. QED
    BY <2>2, <2>4, <2>6, <2>7
<1>8. QED
  <2>1. active \in Nat
    BY DEF EvalTypeOK
  <2>2. QED
    BY <1>2, <1>5, <1>6, <1>7, <2>1
-----------------------------------------------------------------------------
\* A release leaves the loop's part of the invariant as it is.
LEMMA ReleaseKeeps ==
  ASSUME SlotInv, NEW t \in Tasks, stage[t] \in {"granted", "calling"}, Release(t),
         UNCHANGED <<running, next>>
  PROVE  /\ stage' \in [Tasks -> Stages] /\ queue' \in Seq(Tasks) /\ active' \in Nat
         /\ QueueKnown' /\ CursorKnown' /\ SlotsConserved'
<1>. USE DEF SlotInv
<1>1. /\ stage' \in [Tasks -> Stages] /\ queue' \in Seq(Tasks) /\ QueueKnown'
      /\ stage'[t] = "done"
      /\ \A u \in Tasks \ {t} : stage'[u] = stage[u] \/ stage[u] = "waiting"
  BY ReleaseQueue
<1>2. active' \in Nat /\ SlotsConserved'
  BY ReleaseSlot
<1>3. ASSUME running', NEW u \in Tasks, u \geq next'
      PROVE  stage'[u] = "out"
  BY <1>1, <1>3 DEF CursorKnown
<1>4. QED
  BY <1>1, <1>2, <1>3 DEF CursorKnown

LEMMA SlotInvInit == EvalInit => SlotInv
<1>. SUFFICES ASSUME EvalInit PROVE SlotInv
  OBVIOUS
<1>. USE DEF EvalInit
<1>1. EvalTypeOK
  <2>1. 1 \in 1 .. NumTasks + 1 /\ 0 \in 0 .. MaxRuns /\ 0 \in 0 .. MaxRetries
    BY EvaluationAssumption
  <2>2. /\ stage \in [Tasks -> Stages] /\ tries \in [Tasks -> 0 .. MaxRetries]
        /\ ok \in [Tasks -> Nat] /\ bad \in [Tasks -> Nat]
    BY <2>1 DEF AllOut, Zeros, Stages
  <2>3. queue \in Seq(Tasks) /\ active \in Nat
    OBVIOUS
  <2>4. QED
    BY <2>1, <2>2, <2>3 DEF EvalTypeOK
<1>2. Holding = {}
  BY DEF Holding, AllOut
<1>3. SlotsConserved
  BY <1>2, FS_EmptySet, LimitType DEF SlotsConserved
<1>4. QED
  BY <1>1, <1>3 DEF SlotInv, QueueKnown, CursorKnown

\* A run that begins or dies holds no slot.
LEMMA ClearedSlots ==
  ASSUME stage' = AllOut, active' = 0, queue' = <<>>
  PROVE  /\ stage' \in [Tasks -> Stages] /\ active' \in Nat /\ queue' \in Seq(Tasks)
         /\ QueueKnown' /\ CursorKnown' /\ SlotsConserved'
<1>1. Holding' = {}
  BY DEF Holding, AllOut
<1>2. SlotsConserved'
  BY <1>1, FS_EmptySet, LimitType DEF SlotsConserved, Limit
<1>3. CursorKnown'
  BY DEF CursorKnown, AllOut
<1>4. QED
  BY <1>2, <1>3 DEF QueueKnown, AllOut, Stages

LEMMA SlotInvStep ==
  ASSUME SlotInv, [EvalNext]_evalVars
  PROVE  SlotInv'
<1>. USE DEF SlotInv
<1>1. CASE StartRun
  <2>1. /\ stage' \in [Tasks -> Stages] /\ active' \in Nat /\ queue' \in Seq(Tasks)
        /\ QueueKnown' /\ CursorKnown' /\ SlotsConserved'
    BY <1>1, ClearedSlots DEF StartRun
  <2>2. /\ 1 \in 1 .. NumTasks + 1 /\ runs' \in 0 .. MaxRuns
        /\ tries' \in [Tasks -> 0 .. MaxRetries]
    BY <1>1, EvaluationAssumption DEF StartRun, EvalTypeOK, Zeros
  <2>3. UNCHANGED <<ok, bad, published>> /\ running' = TRUE /\ stopRequested' = FALSE
        /\ dryRun' = TRUE /\ next' = 1 /\ fresh' = {} /\ whole' = FALSE
    BY <1>1 DEF StartRun
  <2>4. EvalTypeOK'
    BY <2>1, <2>2, <2>3 DEF EvalTypeOK
  <2>5. QED
    BY <2>1, <2>4
<1>2. CASE Acquire
  BY <1>2, AcquireSlot
<1>3. CASE RequestStop
  BY <1>3 DEF RequestStop, EvalTypeOK, QueueKnown, CursorKnown, SlotsConserved, Holding, Limit
<1>4. CASE EndRun
  BY <1>4 DEF EndRun, EvalTypeOK, QueueKnown, CursorKnown, SlotsConserved, Holding, Limit
<1>5. CASE RunDies
  <2>1. /\ stage' \in [Tasks -> Stages] /\ active' \in Nat /\ queue' \in Seq(Tasks)
        /\ QueueKnown' /\ CursorKnown' /\ SlotsConserved'
    BY <1>5, ClearedSlots DEF RunDies
  <2>2. EvalTypeOK'
    BY <1>5, <2>1 DEF RunDies, EvalTypeOK
  <2>3. QED
    BY <2>1, <2>2
<1>6. ASSUME NEW t \in Tasks, BeginTask(t)
      PROVE  SlotInv'
  <2>1. CASE stopRequested
    <3>1. Release(t) /\ stage[t] = "granted" /\ UNCHANGED <<running, next>>
      BY <1>6, <2>1 DEF BeginTask
    <3>2. /\ stage' \in [Tasks -> Stages] /\ queue' \in Seq(Tasks) /\ active' \in Nat
          /\ QueueKnown' /\ CursorKnown' /\ SlotsConserved'
      BY <3>1, ReleaseKeeps
    <3>3. EvalTypeOK'
      BY <1>6, <3>2 DEF BeginTask, EvalTypeOK
    <3>4. QED
      BY <3>2, <3>3
  <2>2. CASE ~stopRequested
    <3>1. /\ stage' = [stage EXCEPT ![t] = "calling"] /\ UNCHANGED <<active, queue>>
          /\ stage[t] = "granted" /\ UNCHANGED <<running, next>>
      BY <1>6, <2>2 DEF BeginTask
    <3>2. /\ stage' \in [Tasks -> Stages] /\ stage'[t] = "calling"
          /\ \A u \in Tasks \ {t} : stage'[u] = stage[u]
      BY <3>1 DEF EvalTypeOK, Stages
    <3>3. Holding' = Holding
      BY <3>1, <3>2 DEF Holding
    <3>4. SlotsConserved'
      BY <3>1, <3>3 DEF SlotsConserved, Limit
    <3>5. \A i \in DOMAIN queue : queue[i] \in Tasks \ {t}
      BY <3>1 DEF QueueKnown, EvalTypeOK
    <3>6. QueueKnown'
      BY <3>1, <3>2, <3>5 DEF QueueKnown
    <3>7. CursorKnown'
      BY <3>1, <3>2 DEF CursorKnown
    <3>8. EvalTypeOK'
      BY <1>6, <3>1, <3>2 DEF BeginTask, EvalTypeOK
    <3>9. QED
      BY <3>4, <3>6, <3>7, <3>8
  <2>3. QED
    BY <2>1, <2>2
<1>7. ASSUME NEW t \in Tasks, stage[t] = "calling", CallTools,
             AppendResult(t, TRUE) \/ AppendResult(t, FALSE), Release(t),
             UNCHANGED <<running, stopRequested, dryRun, next, tries, runs, whole>>
      PROVE  SlotInv'
  <2>1. /\ stage' \in [Tasks -> Stages] /\ queue' \in Seq(Tasks) /\ active' \in Nat
        /\ QueueKnown' /\ CursorKnown' /\ SlotsConserved'
    BY <1>7, ReleaseKeeps
  <2>2. /\ ok' \in [Tasks -> Nat] /\ bad' \in [Tasks -> Nat]
        /\ fresh' \subseteq Tasks
    <3>1. /\ ok \in [Tasks -> Nat] /\ bad \in [Tasks -> Nat] /\ fresh \subseteq Tasks
      BY DEF EvalTypeOK
    <3>2. /\ ok' = ok \/ ok' = [ok EXCEPT ![t] = ok[t] + 1]
          /\ bad' = bad \/ bad' = [bad EXCEPT ![t] = bad[t] + 1]
          /\ fresh' = fresh \cup {t}
      BY <1>7 DEF AppendResult
    <3>3. QED
      BY <3>1, <3>2
  <2>3. published' \in BOOLEAN
    BY <1>7 DEF CallTools, EvalTypeOK
  <2>4. EvalTypeOK'
    BY <1>7, <2>1, <2>2, <2>3 DEF EvalTypeOK
  <2>5. QED
    BY <2>1, <2>4
<1>8. ASSUME NEW t \in Tasks, AttemptFailed(t), tries[t] < MaxRetries
      PROVE  SlotInv'
  <2>1. /\ tries' = [tries EXCEPT ![t] = tries[t] + 1]
        /\ published' = (published \/ ~dryRun)
        /\ UNCHANGED <<ok, bad, fresh, stage, active, queue, running, stopRequested, dryRun,
                       next, runs, whole>>
    BY <1>8 DEF AttemptFailed, CallTools
  <2>2. tries' \in [Tasks -> 0 .. MaxRetries]
    BY <1>8, <2>1, EvaluationAssumption DEF EvalTypeOK
  <2>3. published' \in BOOLEAN
    BY <2>1 DEF EvalTypeOK
  <2>4. EvalTypeOK'
    BY <2>1, <2>2, <2>3 DEF EvalTypeOK
  <2>5. QED
    BY <2>1, <2>4 DEF QueueKnown, CursorKnown, SlotsConserved, Holding, Limit
<1>9. CASE UNCHANGED evalVars
  BY <1>9 DEF evalVars, EvalTypeOK, QueueKnown, CursorKnown, SlotsConserved, Holding, Limit
<1>10. QED
  <2>1. ASSUME NEW t \in Tasks, CaseSucceeds(t)
        PROVE  SlotInv'
    BY <1>7, <2>1 DEF CaseSucceeds
  <2>2. ASSUME NEW t \in Tasks, ScoringFails(t)
        PROVE  SlotInv'
    BY <1>7, <2>2 DEF ScoringFails
  <2>3. ASSUME NEW t \in Tasks, AttemptFailed(t), ~(tries[t] < MaxRetries)
        PROVE  SlotInv'
    BY <1>7, <2>3 DEF AttemptFailed
  <2>4. QED
    BY <1>1, <1>2, <1>3, <1>4, <1>5, <1>6, <1>8, <1>9, <2>1, <2>2, <2>3 DEF EvalNext

(***************************************************************************)
(* The semaphore loses no slot and wakes whoever waits, for any number of  *)
(* tasks and slots and whatever stops, failures and deaths come.           *)
(***************************************************************************)
THEOREM SlotsAreConserved == EvalSpec => []SlotsConserved
<1>1. EvalInit => SlotInv
  BY SlotInvInit
<1>2. SlotInv /\ [EvalNext]_evalVars => SlotInv'
  BY SlotInvStep
<1>3. SlotInv => SlotsConserved
  BY DEF SlotInv
<1>4. QED
  BY <1>1, <1>2, <1>3, PTL DEF EvalSpec

-----------------------------------------------------------------------------
\* A task that ends with a record leaves the others as they were, or under way.
LEMMA RecordKeeps ==
  ASSUME RecordInv, NEW t \in Tasks, stage[t] = "calling", NEW success \in BOOLEAN,
         AppendResult(t, success), Release(t), CallTools,
         UNCHANGED <<stopRequested, dryRun, whole>>
  PROVE  TasksKnown' /\ EveryCaseRecorded'
<1>. USE DEF RecordInv, SlotInv
<1>1. /\ ok \in [Tasks -> Nat] /\ bad \in [Tasks -> Nat] /\ fresh \subseteq Tasks
      /\ dryRun /\ ok[t] = 0
  BY DEF EvalTypeOK, TasksKnown
<1>2. /\ stage'[t] = "done"
      /\ \A u \in Tasks \ {t} :
           \/ stage'[u] = stage[u]
           \/ stage[u] = "waiting" /\ stage'[u] = "granted"
  BY ReleaseQueue
<1>3. /\ fresh' = fresh \cup {t}
      /\ success => ok' = [ok EXCEPT ![t] = ok[t] + 1] /\ bad' = bad
      /\ ~success => ok' = ok /\ bad' = [bad EXCEPT ![t] = bad[t] + 1]
  BY DEF AppendResult
<1>4. \A u \in Tasks \ {t} : ok'[u] = ok[u] /\ bad'[u] = bad[u]
  BY <1>1, <1>3
<1>5. /\ success => ok'[t] = 1
      /\ ~success => ok'[t] = 0 /\ bad'[t] > 0
  BY <1>1, <1>3
<1>6. \A u \in Tasks : ok'[u] \leq 1
  BY <1>1, <1>4, <1>5 DEF EveryCaseRecorded
<1>7. Recorded(t)' /\ \A u \in Tasks \ {t} : Recorded(u) => Recorded(u)'
  BY <1>3, <1>4, <1>5 DEF Recorded
<1>8. ~published'
  BY <1>1 DEF CallTools, EveryCaseRecorded
<1>9. \A u \in Tasks \ {t} :
        /\ stage'[u] \in {"waiting", "granted", "calling"} => ok'[u] = 0 /\ dryRun'
        /\ stage'[u] = "done" /\ ~stopRequested' => Recorded(u)'
  BY <1>2, <1>4, <1>7 DEF TasksKnown
<1>10. TasksKnown'
  BY <1>2, <1>7, <1>9 DEF TasksKnown
<1>11. whole' => \A u \in Tasks : Recorded(u)'
  BY <1>7 DEF EveryCaseRecorded, Recorded
<1>12. EveryCaseRecorded'
  BY <1>6, <1>8, <1>11 DEF EveryCaseRecorded, Recorded
<1>13. QED
  BY <1>10, <1>12

LEMMA RunIsDryStep ==
  ASSUME RunIsDry, [EvalNext]_evalVars
  PROVE  RunIsDry'
BY DEF RunIsDry, EvalNext, evalVars, StartRun, Acquire, RequestStop, EndRun, RunDies, BeginTask,
       CaseSucceeds, AttemptFailed, ScoringFails

LEMMA RecordInvStep ==
  ASSUME RecordInv, [EvalNext]_evalVars
  PROVE  TasksKnown' /\ EveryCaseRecorded'
<1>. USE DEF RecordInv, SlotInv
<1>1. CASE StartRun
  BY <1>1 DEF StartRun, AllOut, TasksKnown, EveryCaseRecorded
<1>2. CASE Acquire
  <2>1. /\ next \in Tasks /\ stage \in [Tasks -> Stages] /\ ok \in [Tasks -> Nat]
        /\ next \notin Completed => ok[next] = 0
        /\ next \in Completed => ok[next] = 1
    BY <1>2, EvaluationAssumption
       DEF Acquire, Listing, Tasks, EvalTypeOK, Completed, EveryCaseRecorded
  <2>2. UNCHANGED <<running, stopRequested, dryRun, ok, bad, fresh, whole, published>>
    BY <1>2 DEF Acquire
  <2>3. EveryCaseRecorded'
    BY <2>2 DEF EveryCaseRecorded
  <2>4. \A u \in Tasks \ {next} : stage'[u] = stage[u]
    <3>1. \E s \in Stages : stage' = [stage EXCEPT ![next] = s]
      <4>1. active \in Nat /\ Limit \in Nat
        BY LimitType DEF EvalTypeOK
      <4>2. active < Limit \/ active \geq Limit
        BY <4>1
      <4>3. QED
        BY <1>2, <4>2 DEF Acquire, Stages
    <3>2. QED
      BY <2>1, <3>1
  <2>5. /\ stage'[next] \in {"waiting", "granted", "calling"} => ok[next] = 0
        /\ stage'[next] = "done" => ok[next] = 1
    <3>1. CASE next \in Completed
      BY <1>2, <2>1, <3>1 DEF Acquire
    <3>2. CASE next \notin Completed
      <4>1. ok[next] = 0
        BY <2>1, <3>2
      <4>2. active \in Nat /\ Limit \in Nat
        BY LimitType DEF EvalTypeOK
      <4>3. active < Limit \/ active \geq Limit
        BY <4>2
      <4>4. \E s \in {"granted", "waiting"} : stage' = [stage EXCEPT ![next] = s]
        BY <1>2, <3>2, <4>3 DEF Acquire
      <4>5. QED
        BY <2>1, <4>1, <4>4
    <3>3. QED
      BY <3>1, <3>2
  <2>6. dryRun
    BY <1>2 DEF Acquire, Listing, RunIsDry
  <2>7. QED
    BY <2>2, <2>3, <2>4, <2>5, <2>6 DEF TasksKnown, Recorded
<1>3. CASE RequestStop
  BY <1>3 DEF RequestStop, TasksKnown, EveryCaseRecorded, Recorded
<1>4. CASE EndRun
  BY <1>4 DEF EndRun, TasksKnown, EveryCaseRecorded, Recorded
<1>5. CASE RunDies
  BY <1>5 DEF RunDies, AllOut, TasksKnown, EveryCaseRecorded
<1>6. ASSUME NEW t \in Tasks, BeginTask(t)
      PROVE  TasksKnown' /\ EveryCaseRecorded'
  <2>1. /\ stage[t] = "granted"
        /\ UNCHANGED <<stopRequested, dryRun, ok, bad, fresh, whole, published>>
    BY <1>6 DEF BeginTask
  <2>2. EveryCaseRecorded'
    BY <2>1 DEF EveryCaseRecorded
  <2>3. CASE stopRequested
    <3>1. Release(t)
      BY <1>6, <2>3 DEF BeginTask
    <3>2. /\ stage'[t] = "done"
          /\ \A u \in Tasks \ {t} :
               \/ stage'[u] = stage[u]
               \/ stage[u] = "waiting" /\ stage'[u] = "granted"
      BY <2>1, <3>1, ReleaseQueue
    <3>3. QED
      BY <2>1, <2>2, <2>3, <3>2 DEF TasksKnown
  <2>4. CASE ~stopRequested
    <3>1. stage' = [stage EXCEPT ![t] = "calling"] /\ stage \in [Tasks -> Stages]
      BY <1>6, <2>4 DEF BeginTask, EvalTypeOK
    <3>2. stage'[t] = "calling" /\ \A u \in Tasks \ {t} : stage'[u] = stage[u]
      BY <3>1
    <3>3. QED
      BY <2>1, <2>2, <3>2 DEF TasksKnown, Recorded
  <2>5. QED
    BY <2>3, <2>4
<1>7. ASSUME NEW t \in Tasks, CaseSucceeds(t)
      PROVE  TasksKnown' /\ EveryCaseRecorded'
  BY <1>7, RecordKeeps DEF CaseSucceeds
<1>8. ASSUME NEW t \in Tasks, ScoringFails(t)
      PROVE  TasksKnown' /\ EveryCaseRecorded'
  BY <1>8, RecordKeeps DEF ScoringFails
<1>9. ASSUME NEW t \in Tasks, AttemptFailed(t), ~(tries[t] < MaxRetries)
      PROVE  TasksKnown' /\ EveryCaseRecorded'
  BY <1>9, RecordKeeps DEF AttemptFailed
<1>10. ASSUME NEW t \in Tasks, AttemptFailed(t), tries[t] < MaxRetries
       PROVE  TasksKnown' /\ EveryCaseRecorded'
  <2>1. /\ UNCHANGED <<ok, bad, fresh, stage, stopRequested, dryRun, whole>>
        /\ stage[t] = "calling" /\ published' = (published \/ ~dryRun)
    BY <1>10 DEF AttemptFailed, CallTools
  <2>2. dryRun
    BY <2>1 DEF TasksKnown
  <2>3. ~published'
    BY <2>1, <2>2 DEF EveryCaseRecorded
  <2>4. QED
    BY <2>1, <2>3 DEF TasksKnown, EveryCaseRecorded, Recorded
<1>11. CASE UNCHANGED evalVars
  BY <1>11 DEF evalVars, TasksKnown, EveryCaseRecorded, Recorded
<1>12. QED
  BY <1>1, <1>2, <1>3, <1>4, <1>5, <1>6, <1>7, <1>8, <1>9, <1>10, <1>11 DEF EvalNext

(***************************************************************************)
(* However often a run is stopped, dies or is resumed, a case has one      *)
(* successful record at most, a run that ends by itself leaves a record of *)
(* each, and no tool of an evaluated turn reached a device.                *)
(***************************************************************************)
THEOREM CasesAreRecorded == EvalSpec => []EveryCaseRecorded
<1>1. EvalInit => RecordInv
  BY SlotInvInit DEF RecordInv, EvalInit, RunIsDry, AllOut, Zeros, TasksKnown, EveryCaseRecorded
<1>2. RecordInv /\ [EvalNext]_evalVars => RecordInv'
  BY SlotInvStep, RunIsDryStep, RecordInvStep DEF RecordInv
<1>3. RecordInv => EveryCaseRecorded
  BY DEF RecordInv
<1>4. QED
  BY <1>1, <1>2, <1>3, PTL DEF EvalSpec

=============================================================================
