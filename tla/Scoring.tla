------------------------------- MODULE Scoring -------------------------------
(***************************************************************************)
(* How the evaluation scores a turn: the tool calls ChatService finds in   *)
(* the agent's messages, their comparison with the ground truth, the       *)
(* errors, the records, what a report makes of them, and the functional    *)
(* evaluation's wait for an acknowledgement.                               *)
(*                                                                         *)
(* An object (arguments, a rule, a schedule) is a partial function to      *)
(* values that are equal when valueNormalizer takes them to be.            *)
(***************************************************************************)
EXTENDS Integers, Sequences, FiniteSets, SequencesExt

CONSTANTS
  Tools,     \* tools a turn calls
  Objects,   \* objects of the ground truth
  Actuals,   \* objects an agent gives
  MaxCalls,  \* bound on calls of a turn
  MaxTime,   \* bound on the clock of the functional evaluation
  MaxLag     \* the longest a request of it takes, or it fails

ASSUME ScoringAssumption == MaxCalls \in Nat /\ MaxTime \in Nat /\ MaxLag \in Nat

VARIABLE trial  \* what is scored

Call(objects) == [tool : Tools, args : objects]
Lists(S) == BoundedSeq(S, MaxCalls)

\* The answer of an agent, and what was expected of it.
Turns ==
  {t \in [kind : {"turn"}, behavior : {"tool_call", "clarification", "reject_or_no_tool"},
          expected : Lists(Call(Objects)), actual : Lists(Call(Actuals)), valid : BOOLEAN] :
     t.behavior # "tool_call" => t.expected = <<>>}

\* Rules or schedules of the ground truth, and those the calls would make.
Entries == [kind : {"entries"}, expected : Lists(Objects), actual : Lists(Actuals)]

\* Messages of an agent, each the calls it has made: whether tool_calls has the call with
\* a name, and whether additional_kwargs has.
Given == [tool : Tools, direct : BOOLEAN, kwargs : BOOLEAN]
Histories == [kind : {"history"}, messages : Lists(Lists(Given))]

\* A functional case: when the device reported (-1: before it), how long the chat took,
\* and what a request made so long after it takes until the server reads the answer.
Cases == [kind : {"case"}, test : {"device_control", "sensor_read", "rule"},
          updates : SUBSET (-1 .. MaxTime), took : 0 .. MaxTime, timeout : 0 .. MaxTime,
          every : 1 .. 2, lag : [0 .. MaxTime -> 0 .. MaxLag], answers : BOOLEAN]

ScoringInit == trial \in Turns \cup Entries \cup Histories \cup Cases
ScoringSpec == ScoringInit /\ [][UNCHANGED trial]_trial

-----------------------------------------------------------------------------
(* Chat.service.ts: the trace of a turn *)

\* What a message carries in tool_calls and in additional_kwargs.
Direct(m) == SelectSeq(m, LAMBDA c : c.direct)
Kwargs(m) == SelectSeq(m, LAMBDA c : c.kwargs)

\* Mutant: both are collected.
ExtractBoth(messages) ==
  FoldLeft(LAMBDA calls, m : calls \o Direct(m) \o Kwargs(m), <<>>, messages)

\* A message with one usable call in tool_calls is read no further.
ExtractToolCalls(messages) ==
  FoldLeft(LAMBDA calls, m : calls \o IF Direct(m) # <<>> THEN Direct(m) ELSE Kwargs(m),
           <<>>, messages)

-----------------------------------------------------------------------------
(* evaluation/metrics *)

\* Each expected entry, in order, takes the first of the actual ones that is left.
TakeInOrder(Same(_, _), expected, actual) ==
  FoldLeft(LAMBDA acc, e :
             LET hits == {i \in DOMAIN acc.left : Same(e, acc.left[i])} IN
             IF hits = {} THEN [acc EXCEPT !.missing = Append(@, e)]
             ELSE [acc EXCEPT !.left = RemoveAt(@, Min(hits)),
                              !.pairs = Append(@, <<e, acc.left[Min(hits)]>>)],
           [left |-> actual, missing |-> <<>>, pairs |-> <<>>], expected)

CompareTools(expected, actual) ==
  TakeInOrder(LAMBDA e, a : e.tool = a.tool, expected, actual)

ToolCorrect(t, tools) ==
  IF t.behavior = "tool_call" THEN tools.missing = <<>> /\ tools.left = <<>> ELSE t.actual = <<>>

\* Keys the ground truth does not give are not compared.
SemanticEqual(e, a) == \A k \in DOMAIN e : k \in DOMAIN a /\ a[k] = e[k]

Checked(pairs) == UNION {{<<i, k>> : k \in DOMAIN pairs[i][1].args} : i \in DOMAIN pairs}
CompareParameters(pairs) ==
  LET good == {c \in Checked(pairs) :
                 LET a == pairs[c[1]][2].args IN
                 c[2] \in DOMAIN a /\ a[c[2]] = pairs[c[1]][1].args[c[2]]}
  IN [checked |-> Cardinality(Checked(pairs)), correct |-> Cardinality(good)]

\* For rules and for schedules alike.
CompareEntries(expected, actual) ==
  IF expected = <<>> THEN [matched |-> 0, correct |-> TRUE]
  ELSE LET taken == TakeInOrder(SemanticEqual, expected, actual) IN
       [matched |-> Len(taken.pairs), correct |-> taken.missing = <<>>]

ClassifyErrors(t, tools, params, structureValid) ==
  LET called == t.actual # <<>> IN
  CASE t.behavior = "clarification" ->
         IF called THEN {"FAILED_CLARIFICATION", "UNNECESSARY_TOOL_CALL"} ELSE {}
    [] t.behavior = "reject_or_no_tool" -> IF called THEN {"UNNECESSARY_TOOL_CALL"} ELSE {}
    [] t.behavior = "tool_call" ->
         (IF tools.missing # <<>> THEN {"WRONG_TOOL"} ELSE {})
         \cup (IF tools.left # <<>> THEN {"UNNECESSARY_TOOL_CALL"} ELSE {})
         \cup (IF tools.missing = <<>> /\ tools.left = <<>>
               THEN (IF params.checked # params.correct
                     THEN {"INVALID_OR_MISSING_PARAMETER"} ELSE {})
                    \cup (IF ~structureValid /\ called THEN {"INVALID_STRUCTURE"} ELSE {})
               ELSE {})

BuildSuccessRecord(t) ==
  LET tools == IF t.behavior = "tool_call" THEN CompareTools(t.expected, t.actual)
               ELSE [left |-> t.actual, missing |-> <<>>, pairs |-> <<>>]
      params == CompareParameters(tools.pairs)
  IN [toolCorrect |-> ToolCorrect(t, tools), checked |-> params.checked,
      correct |-> params.correct, structure |-> IF t.actual = <<>> THEN {} ELSE {t.valid},
      errors |-> ClassifyErrors(t, tools, params, t.valid)]

BuildErrorRecord ==
  [toolCorrect |-> FALSE, checked |-> 0, correct |-> 0, structure |-> {}, errors |-> {"OTHER"}]

-----------------------------------------------------------------------------
(* evaluation/reporters/aggregate.ts *)

Count(records, P(_)) == Cardinality({i \in DOMAIN records : P(records[i])})

AggregateOne(records) ==
  [tests |-> Len(records),
   toolCorrect |-> Count(records, LAMBDA r : r.toolCorrect),
   checked |-> FoldLeft(LAMBDA n, r : n + r.checked, 0, records),
   correct |-> FoldLeft(LAMBDA n, r : n + r.correct, 0, records),
   structureChecked |-> Count(records, LAMBDA r : r.structure # {}),
   structureValid |-> Count(records, LAMBDA r : r.structure = {TRUE}),
   errors |-> FoldLeft(LAMBDA n, r : n + Cardinality(r.errors), 0, records)]

-----------------------------------------------------------------------------
(* evaluation/runner/functionalRunner.ts: the request is sent at 0 *)

\* When the status is asked for: from the reply on, each a pause after the one before
\* was answered, and none at the deadline or later.
Polls(c) ==
  LET window == c.took .. c.took + c.timeout - 1
      asked[p \in window] ==
        \/ p = c.took
        \/ \E q \in c.took .. p - 1 : asked[q] /\ p = q + c.lag[q - c.took] + c.every
  IN {p \in window : asked[p]}

\* What was asked before the deadline may be answered after it.
ReadAt(c, p) == p + c.lag[p - c.took]

Latest(c, p) == {u \in c.updates : u \leq p /\ \A v \in c.updates : v \leq p => v \leq u}

\* The status shows the latest report; one of the time of the request or later counts.
PollForAck(c) ==
  LET hits == {p \in Polls(c) : \E u \in Latest(c, ReadAt(c, p)) : u \geq 0}
  IN IF hits = {} THEN {} ELSE Latest(c, ReadAt(c, Min(hits)))

\* The last reading is young enough; a request that is refused counts as none.
CheckSensorFreshness(c) ==
  LET now == ReadAt(c, c.took) IN c.answers /\ \E u \in Latest(c, now) : now - u \leq c.timeout

\* A status request that is refused ends the case with an error.
IntegrationSuccess(c) ==
  CASE c.test = "device_control" -> (Polls(c) # {} => c.answers) /\ PollForAck(c) # {}
    [] c.test = "sensor_read" -> CheckSensorFreshness(c)
    [] OTHER -> TRUE

-----------------------------------------------------------------------------
Names(calls) == [k \in Tools |-> Cardinality({i \in DOMAIN calls : calls[i].tool = k})]

\* The most expected entries that different actual ones can meet at once.
Meetable(expected, actual) ==
  LET met(S) == \E f \in [S -> DOMAIN actual] :
                  /\ \A i, j \in S : f[i] = f[j] => i = j
                  /\ \A i \in S : SemanticEqual(expected[i], actual[f[i]])
  IN CHOOSE n \in 0 .. Len(expected) :
       /\ \E S \in SUBSET DOMAIN expected : Cardinality(S) = n /\ met(S)
       /\ \A S \in SUBSET DOMAIN expected : met(S) => Cardinality(S) \leq n

(***************************************************************************)
(* A turn is right about its tools exactly when it calls each as often as  *)
(* expected, in any order; it has no error exactly when its tools,         *)
(* parameters and structure are right; a failed attempt counts as a test   *)
(* and changes no other rate; no rate is above one.                        *)
(***************************************************************************)
TurnsAreScored ==
  trial.kind = "turn" =>
    LET t == trial
        r == BuildSuccessRecord(t)
        one == AggregateOne(<<r>>)
        two == AggregateOne(<<BuildErrorRecord, r>>)
    IN /\ r.toolCorrect <=> Names(t.expected) = Names(t.actual)
       /\ "WRONG_TOOL" \in r.errors <=> \E k \in Tools : Names(t.actual)[k] < Names(t.expected)[k]
       /\ r.errors = {} <=> r.toolCorrect /\ r.correct = r.checked /\ r.structure # {FALSE}
       /\ r.toolCorrect =>
            r.checked = FoldLeft(LAMBDA n, e : n + Cardinality(DOMAIN e.args), 0, t.expected)
       /\ two = [one EXCEPT !.tests = 2, !.errors = @ + 1]
       /\ one.toolCorrect \leq one.tests /\ one.correct \leq one.checked
       /\ one.structureValid \leq one.structureChecked

(***************************************************************************)
(* Rules or schedules that are counted as met are met by different calls;  *)
(* taking them in order may miss some, but never more than half.           *)
(***************************************************************************)
EntriesAreScored ==
  trial.kind = "entries" =>
    LET n == CompareEntries(trial.expected, trial.actual).matched
        m == Meetable(trial.expected, trial.actual)
    IN n \leq m /\ m \leq 2 * n /\ (CompareEntries(trial.expected, trial.actual).correct <=> n = Len(trial.expected))

(***************************************************************************)
(* However the provider gives the calls of a turn, none is counted twice;  *)
(* and all are counted when every message has all of its calls in          *)
(* tool_calls, or none there and all in additional_kwargs.  Of a message   *)
(* with only some in tool_calls, the others are lost.                      *)
(***************************************************************************)
CallsAreCountedOnce ==
  trial.kind = "history" =>
    LET counted == ExtractToolCalls(trial.messages)
        made == FoldLeft(LAMBDA calls, m : calls \o m, <<>>, trial.messages)
        times(calls, c) == Cardinality({i \in DOMAIN calls : calls[i] = c})
    IN /\ \A c \in Given : times(counted, c) \leq times(made, c)
       /\ counted = made <=> \A i \in DOMAIN trial.messages :
                               LET m == trial.messages[i] IN
                               m = Direct(m) \/ (Direct(m) = <<>> /\ m = Kwargs(m))

(***************************************************************************)
(* A command that is taken for applied was followed by a report of the     *)
(* device, before the last request sent within the timeout was answered:   *)
(* the device may report after the deadline, but not later than a request  *)
(* may take.  A sensor taken for live has reported within the timeout.  A  *)
(* route that refuses leaves no case of a device that succeeds.            *)
(***************************************************************************)
AcksAreReports ==
  trial.kind = "case" /\ IntegrationSuccess(trial) =>
    CASE trial.test = "device_control" ->
           /\ trial.answers
           /\ \E u \in trial.updates : PollForAck(trial) = {u}
                                      /\ 0 \leq u /\ u < trial.took + trial.timeout + MaxLag
      [] trial.test = "sensor_read" ->
           /\ trial.answers
           /\ \E u \in trial.updates, now \in trial.took .. trial.took + MaxLag :
                u \in now - trial.timeout .. now
      [] OTHER -> TRUE
==============================================================================
