--------------------------- MODULE SchedulePromise ---------------------------
(***************************************************************************)
(* What scheduling a job of category once promises, whatever the process,  *)
(* the database and the queue do: the job runs when its time has come, one *)
(* time, and its row ends up saying so.  DeviceSchedule implements it.     *)
(***************************************************************************)
EXTENDS Naturals

CONSTANT Once  \* ids of jobs of category once

VARIABLES
  asked,      \* jobs that were scheduled
  withdrawn,  \* jobs whose row was removed
  due,        \* jobs whose time has come
  runs,       \* runs[j]: how often j was carried out
  verdict,    \* verdict[j]: what its row says of it, "open" before
  excused,    \* jobs something happened to that allows for a second run
  lost        \* jobs that may never be settled, for what went wrong

vars == <<asked, withdrawn, due, runs, verdict, excused, lost>>

Init ==
  /\ asked = {}
  /\ withdrawn = {}
  /\ due = {}
  /\ runs = [j \in Once |-> 0]
  /\ verdict = [j \in Once |-> "open"]
  /\ excused = {}
  /\ lost = {}

-----------------------------------------------------------------------------
Ask(j) ==
  /\ j \notin asked
  /\ asked' = asked \cup {j}
  /\ UNCHANGED <<withdrawn, due, runs, verdict, excused, lost>>

ComesDue(j) ==
  /\ j \in asked \ due
  /\ due' = due \cup {j}
  /\ UNCHANGED <<asked, withdrawn, runs, verdict, excused, lost>>

\* Only the row goes: a job that was withdrawn may still run.
Withdraw(j) ==
  /\ j \in asked \ withdrawn
  /\ withdrawn' = withdrawn \cup {j}
  /\ UNCHANGED <<asked, due, runs, verdict, excused, lost>>

\* The run itself may be what allows for a later one: it raced with a flow.
Run(j, raced) ==
  /\ j \in asked \cap due
  /\ runs[j] = 0 \/ j \in excused
  /\ runs' = [runs EXCEPT ![j] = @ + 1]
  /\ excused' = IF raced THEN excused \cup {j} ELSE excused
  /\ UNCHANGED <<asked, withdrawn, due, verdict, lost>>

\* Of a job nothing happened to, the row says what is so, and completed is final.
Settle(j, how) ==
  /\ j \in (asked \cap due) \ withdrawn
  /\ how = "completed" => runs[j] > 0
  /\ j \notin excused => /\ how = "failed" => runs[j] = 0
                         /\ verdict[j] # "completed"
  /\ verdict' = [verdict EXCEPT ![j] = how]
  /\ UNCHANGED <<asked, withdrawn, due, runs, excused, lost>>

\* A job in the worker's hands meets with a fault, a death or another flow; for
\* an unwritten result it is also lost.  What a death loses a restart may find.
Disturb(j, isLost) ==
  /\ j \in asked \cap due
  /\ excused' = excused \cup {j}
  /\ lost' = IF isLost THEN lost \cup {j} ELSE lost
  /\ UNCHANGED <<asked, withdrawn, due, runs, verdict>>

Lose(js) ==
  /\ js \subseteq asked
  /\ lost' = lost \cup js
  /\ UNCHANGED <<asked, withdrawn, due, runs, verdict, excused>>

\* A death disturbs at most the one job the worker holds.
Restart(js, found) ==
  /\ js \subseteq asked \cap due
  /\ \A i, j \in js : i = j
  /\ excused' = excused \cup js
  /\ lost' = lost \ found
  /\ UNCHANGED <<asked, withdrawn, due, runs, verdict>>

Next ==
  \/ \E j \in Once :
       \/ Ask(j) \/ ComesDue(j) \/ Withdraw(j)
       \/ \E raced \in BOOLEAN : Run(j, raced)
       \/ \E how \in {"completed", "failed"} : Settle(j, how)
       \/ \E isLost \in BOOLEAN : Disturb(j, isLost)
  \/ \E js \in SUBSET Once : Lose(js) \/ \E found \in SUBSET Once : Restart(js, found)

Safety == Init /\ [][Next]_vars

\* A job is settled in the end, unless it is withdrawn or lost.
Settled(j) == verdict[j] # "open" \/ j \in withdrawn \cup lost

Spec == Safety /\ \A j \in Once : j \in asked ~> Settled(j)
=============================================================================
