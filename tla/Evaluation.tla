------------------------------ MODULE Evaluation ------------------------------
(***************************************************************************)
(* The evaluation runner: runLlmEvaluation over its tasks (a model, a      *)
(* case, a repetition), the semaphore that bounds them, the retries, the   *)
(* results file, pauses by Ctrl+C, process deaths and --resume.            *)
(*                                                                         *)
(* Tasks are numbered in the order the runner lists them; the completed    *)
(* ones are passed over as they come.  Everything between two awaits of a  *)
(* task is one step.                                                       *)
(***************************************************************************)
EXTENDS Integers, Sequences, FiniteSets

CONSTANTS
  NumTasks,    \* tasks of the run
  Concurrency, \* --concurrency
  MaxRetries,  \* --max-retries
  MaxRuns      \* bound on runs of the command

ASSUME EvaluationAssumption ==
  /\ NumTasks \in Nat
  /\ Concurrency \in Nat
  /\ MaxRetries \in Nat
  /\ MaxRuns \in Nat

VARIABLES
  running,   \* the command runs
  stopRequested, \* Ctrl+C was pressed
  dryRun,    \* the side effects of the tools are replaced
  next,      \* the task whose slot is asked for next
  stage,     \* stage[t]: how far task t is in this run
  tries,     \* attempts task t has made
  active,    \* Semaphore.active
  queue,     \* Semaphore.queue: tasks that wait for a slot
  ok, bad,   \* the tasks' records in raw-results.jsonl: successes and errors, by number
  runs,      \* runs begun
  fresh,     \* history: tasks recorded in this run or the last
  whole,     \* history: the last run ended by itself
  published  \* history: a tool of an evaluated turn reached a device

evalVars == <<running, stopRequested, dryRun, next, stage, tries, active, queue, ok, bad, runs,
              fresh, whole, published>>

Tasks == 1 .. NumTasks
Limit == IF Concurrency < 1 THEN 1 ELSE Concurrency

Stages == {"out", "waiting", "granted", "calling", "done"}

EvalTypeOK ==
  /\ running \in BOOLEAN /\ stopRequested \in BOOLEAN /\ dryRun \in BOOLEAN
  /\ next \in 1 .. NumTasks + 1
  /\ stage \in [Tasks -> Stages]
  /\ tries \in [Tasks -> 0 .. MaxRetries]
  /\ active \in Nat
  /\ queue \in Seq(Tasks)
  /\ ok \in [Tasks -> Nat] /\ bad \in [Tasks -> Nat]
  /\ runs \in 0 .. MaxRuns
  /\ fresh \subseteq Tasks
  /\ whole \in BOOLEAN /\ published \in BOOLEAN

AllOut == [t \in Tasks |-> "out"]
Zeros == [t \in Tasks |-> 0]

EvalInit ==
  /\ running = FALSE /\ stopRequested = FALSE /\ dryRun = FALSE
  /\ next = 1 /\ stage = AllOut /\ tries = Zeros
  /\ active = 0 /\ queue = <<>>
  /\ ok = Zeros /\ bad = Zeros
  /\ runs = 0 /\ fresh = {}
  /\ whole = FALSE /\ published = FALSE

-----------------------------------------------------------------------------
\* Mutant: a record of an error counts as well.
CompletedOrFailed == {t \in Tasks : ok[t] + bad[t] > 0}

\* Tasks whose success is recorded are skipped.
Completed == {t \in Tasks : ok[t] > 0}

StartRun ==
  /\ ~running
  /\ runs < MaxRuns
  /\ runs' = runs + 1
  /\ running' = TRUE
  /\ stopRequested' = FALSE
  /\ dryRun' = TRUE
  /\ next' = 1 /\ stage' = AllOut /\ tries' = Zeros
  /\ active' = 0 /\ queue' = <<>>
  /\ fresh' = {}
  /\ whole' = FALSE
  /\ UNCHANGED <<ok, bad, published>>

\* items.map: every task asks for a slot before any other step of the process.
Listing == running /\ next \leq NumTasks

\* Semaphore.acquire, for the tasks in turn.
Acquire ==
  /\ Listing
  /\ next' = next + 1
  /\ CASE next \in Completed ->
            /\ stage' = [stage EXCEPT ![next] = "done"]
            /\ UNCHANGED <<active, queue>>
       [] next \notin Completed /\ active < Limit ->
            /\ stage' = [stage EXCEPT ![next] = "granted"]
            /\ active' = active + 1
            /\ UNCHANGED queue
       [] next \notin Completed /\ active \geq Limit ->
            /\ stage' = [stage EXCEPT ![next] = "waiting"]
            /\ queue' = Append(queue, next)
            /\ UNCHANGED active
  /\ UNCHANGED <<running, stopRequested, dryRun, tries, ok, bad, runs, fresh, whole, published>>

\* Ctrl+C: tasks that have not begun are not begun.
RequestStop ==
  /\ running /\ ~Listing /\ ~stopRequested
  /\ stopRequested' = TRUE
  /\ UNCHANGED <<running, dryRun, next, stage, tries, active, queue, ok, bad, runs, fresh, whole,
                 published>>

\* Mutant: the slot is kept when a task waits for it.
ReleaseAndForget(t) ==
  /\ active' = IF queue = <<>> THEN active - 1 ELSE active
  /\ queue' = IF queue = <<>> THEN queue ELSE Tail(queue)
  /\ stage' = [stage EXCEPT ![t] = "done"]

\* The slot goes to the task that waits longest, if any.
Release(t) ==
  IF queue = <<>>
  THEN /\ active' = active - 1
       /\ stage' = [stage EXCEPT ![t] = "done"]
       /\ UNCHANGED queue
  ELSE /\ active' = active
       /\ stage' = [stage EXCEPT ![t] = "done", ![Head(queue)] = "granted"]
       /\ queue' = Tail(queue)

\* A task with a slot is run, unless the run is stopping.
BeginTask(t) ==
  /\ stage[t] = "granted" /\ ~Listing
  /\ IF stopRequested
     THEN Release(t)
     ELSE /\ stage' = [stage EXCEPT ![t] = "calling"]
          /\ UNCHANGED <<active, queue>>
  /\ UNCHANGED <<running, stopRequested, dryRun, next, tries, ok, bad, runs, fresh, whole,
                 published>>

\* The agent may have called tools before it replies or fails.
CallTools == published' = (published \/ ~dryRun)

AppendResult(t, success) ==
  /\ ok' = IF success THEN [ok EXCEPT ![t] = @ + 1] ELSE ok
  /\ bad' = IF success THEN bad ELSE [bad EXCEPT ![t] = @ + 1]
  /\ fresh' = fresh \cup {t}

CaseSucceeds(t) ==
  /\ stage[t] = "calling"
  /\ CallTools
  /\ AppendResult(t, TRUE)
  /\ Release(t)
  /\ UNCHANGED <<running, stopRequested, dryRun, next, tries, runs, whole>>

\* The last attempt has failed: the record is one of an error.
AttemptFailed(t) ==
  /\ stage[t] = "calling"
  /\ CallTools
  /\ IF tries[t] < MaxRetries
     THEN /\ tries' = [tries EXCEPT ![t] = @ + 1]
          /\ UNCHANGED <<ok, bad, fresh, stage, active, queue>>
     ELSE /\ AppendResult(t, FALSE)
          /\ Release(t)
          /\ UNCHANGED tries
  /\ UNCHANGED <<running, stopRequested, dryRun, next, runs, whole>>

\* The reply is there, but no record can be built from it: an error, whatever the tries.
ScoringFails(t) ==
  /\ stage[t] = "calling"
  /\ CallTools
  /\ AppendResult(t, FALSE)
  /\ Release(t)
  /\ UNCHANGED <<running, stopRequested, dryRun, next, tries, runs, whole>>

\* Every task is over; the process ends.
EndRun ==
  /\ running
  /\ \A t \in Tasks : stage[t] = "done"
  /\ running' = FALSE
  /\ dryRun' = FALSE
  /\ whole' = ~stopRequested
  /\ UNCHANGED <<stopRequested, next, stage, tries, active, queue, ok, bad, runs, fresh, published>>

\* A second Ctrl+C, a failing write or a crash: what is in flight is lost.  A line
\* of the results file is in it whole or not at all (one appendFileSync).
RunDies ==
  /\ running
  /\ running' = FALSE /\ dryRun' = FALSE
  /\ stage' = AllOut /\ active' = 0 /\ queue' = <<>>
  /\ UNCHANGED <<stopRequested, next, tries, ok, bad, runs, fresh, whole, published>>

EvalNext ==
  \/ StartRun \/ Acquire \/ RequestStop \/ EndRun \/ RunDies
  \/ \E t \in Tasks :
       BeginTask(t) \/ CaseSucceeds(t) \/ AttemptFailed(t) \/ ScoringFails(t)

EvalSpec == EvalInit /\ [][EvalNext]_evalVars

-----------------------------------------------------------------------------
Holding == {t \in Tasks : stage[t] \in {"granted", "calling"}}

(***************************************************************************)
(* The semaphore counts the tasks that hold a slot, never lets more than   *)
(* the limit hold one, and keeps none waiting while a slot is free: no     *)
(* wake-up is lost whatever the order in which tasks end, fail or are      *)
(* skipped by a stop.                                                      *)
(***************************************************************************)
SlotsConserved ==
  /\ active = Cardinality(Holding)
  /\ active \leq Limit
  /\ queue # <<>> => active = Limit

(***************************************************************************)
(* Over any number of pauses, deaths and resumed runs a task has at most   *)
(* one successful record; a run that ends by itself has left a record of   *)
(* every task that had no success; and no tool of an evaluated turn        *)
(* reached a device.                                                       *)
(***************************************************************************)
EveryCaseRecorded ==
  /\ \A t \in Tasks : ok[t] \leq 1
  /\ whole => \A t \in Tasks : ok[t] = 1 \/ (t \in fresh /\ bad[t] > 0)
  /\ ~published
=============================================================================
