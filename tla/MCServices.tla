------------------------------ MODULE MCServices ------------------------------
(***************************************************************************)
(* An instance, for TLC, of the components that share no state with the    *)
(* rules, the schedules and the chat broker, nor with each other: a        *)
(* behaviour is one of any of them, the others at rest.                    *)
(***************************************************************************)
EXTENDS WhatsappSession, RabbitLink, ChatSocket, Accounts, RagStore, ChatTurn, Evaluation,
        ScheduleTime, TelemetryMetrics, Scoring, RestApi

VARIABLE moving  \* which one moves

conversionVars == <<when, payload, wanted, trial>>
allVars == <<waVars, rabbitVars, wsVars, accountVars, ragVars, turnVars, evalVars,
             conversionVars, restVars, moving>>

-----------------------------------------------------------------------------
(* Constants *)

\* Calls of the schedule functions around midnight, around six in the evening and on
\* the last days of a month and of a year.
Dated(y, m, d) == [year |-> y, month |-> m, day |-> d]
ClockDays == {Dated(2027, 12, 31), Dated(2028, 2, 28), Dated(2028, 2, 29)}
Seconds == {0, 64799, 64800, 86399}
MCMoments ==
  {c \in [daily : BOOLEAN, hour : {0, 7, 18, 23, 24}, minute : {0, 59, 60},
          text : {<<>>, <<2028, 2, 29>>, <<31, 2, 2028>>, <<1, 13, 2028>>, <<2, 28>>},
          parts : {<<>>, Dated(2028, 2, 30), [month |-> 3, day |-> 1]},
          now : {<<t, t + i, t + i + j>> : t \in {Instant(d, 0, 0) + s : d \in ClockDays, s \in Seconds},
                                           i, j \in {0, 1}}] :
     /\ <<c.hour, c.minute>> \in {<<0, 0>>, <<18, 0>>, <<23, 59>>, <<24, 0>>, <<7, 60>>}
     /\ c.daily => c.text = <<>> /\ c.parts = <<>>}

\* Payloads with up to four fields, and up to two in the JSON "value" holds; the numbers
\* tell where one comes from.
PartOf(keys, values, max) ==
  UNION {[K -> values] : K \in {L \in SUBSET keys : Cardinality(L) \leq max}}
JsonNumber(n) == [kind |-> "number", n |-> n]
MCPayloads ==
  LET own == {"temperature", "humidity", "VALUE", "METRIC"}
      given(p) == [form |-> "object", fields |-> p[1] @@ p[2] @@ p[3], inner |-> p[4], name |-> p[5]]
      named == {<<[k \in {"metric"} |-> Words], m>> : m \in MetricNames}
               \cup {<<f, "">> : f \in PartOf({"metric"}, {Blank, JsonNumber(0)}, 1)}
      bare == PartOf({"value"}, {Words, Blank, JsonNumber(1)}, 1)
      other == PartOf(own, {Words, Blank, [kind |-> "digits", n |-> 2]}, 2)
      inner == {f \in PartOf(Keys, {Words, JsonNumber(3)}, 2) : Once(DOMAIN f)}
  IN {given(<<v, f, m[1], Nothing, m[2]>>) : v \in bare, f \in other, m \in named}
     \cup {given(<<[k \in {"value"} |-> Inner], f, m[1], i, m[2]>>) :
             f \in {g \in other : Cardinality(DOMAIN g) \leq 1}, m \in named, i \in inner}
     \cup {[form |-> "text", text |-> f] : f \in {Words, Blank, [kind |-> "digits", n |-> 1]}}
     \cup {[form |-> "other"]}

MCObjects == UNION {[S -> {1}] : S \in SUBSET {"a", "b"}}
MCActuals == UNION {[S -> {1, 2}] : S \in {{"a"}, {"a", "b"}}}

-----------------------------------------------------------------------------
Moving == {"whatsapp", "rabbit", "websocket", "accounts", "rag", "chat turn", "evaluation",
           "http", "time", "telemetry", "scoring"}

\* What a part that does not move shows.
SomeMoment == [daily |-> TRUE, hour |-> 0, minute |-> 0, text |-> <<>>, parts |-> <<>>,
               now |-> <<0, 0, 0>>]
SomePayload == [form |-> "other"]
SomeTrial == [kind |-> "history", messages |-> <<>>]
SomeRequest == [method |-> "GET", path |-> <<"nowhere">>, query |-> "good", token |-> "missing",
                body |-> "good"]
SomeUsers == <<[email |-> "e1", role |-> "admin", gone |-> FALSE],
               [email |-> "e2", role |-> "user", gone |-> FALSE]>>

Init ==
  /\ moving \in Moving
  /\ WaInit /\ RabbitInit /\ WsInit /\ AccountsInit /\ RagInit /\ TurnInit /\ EvalInit
  /\ moving # "whatsapp" => folder = "none"
  /\ moving # "accounts" => users = SomeUsers /\ selected = {"m1"}
  /\ IF moving = "time" THEN WhenInit ELSE when = SomeMoment
  /\ IF moving = "telemetry" THEN TelemetryInit ELSE payload = SomePayload /\ wanted = "humidity"
  /\ IF moving = "scoring" THEN ScoringInit ELSE trial = SomeTrial
  /\ IF moving = "http" THEN RestInit
     ELSE /\ request = SomeRequest
          /\ http = [layer |-> 0, step |-> 1, user |-> "none", checked |-> <<>>,
                     answer |-> NotAnswered]

Next ==
  /\ UNCHANGED <<conversionVars, moving>>
  /\ \/ /\ moving = "whatsapp" /\ WaNext
        /\ UNCHANGED <<rabbitVars, wsVars, accountVars, ragVars, turnVars, evalVars, restVars>>
     \/ /\ moving = "rabbit" /\ RabbitNext
        /\ UNCHANGED <<waVars, wsVars, accountVars, ragVars, turnVars, evalVars, restVars>>
     \/ /\ moving = "websocket" /\ WsNext
        /\ UNCHANGED <<waVars, rabbitVars, accountVars, ragVars, turnVars, evalVars, restVars>>
     \/ /\ moving = "accounts" /\ AccountsNext
        /\ UNCHANGED <<waVars, rabbitVars, wsVars, ragVars, turnVars, evalVars, restVars>>
     \/ /\ moving = "rag" /\ RagNext
        /\ UNCHANGED <<waVars, rabbitVars, wsVars, accountVars, turnVars, evalVars, restVars>>
     \/ /\ moving = "chat turn" /\ TurnNext
        /\ UNCHANGED <<waVars, rabbitVars, wsVars, accountVars, ragVars, evalVars, restVars>>
     \/ /\ moving = "evaluation" /\ EvalNext
        /\ UNCHANGED <<waVars, rabbitVars, wsVars, accountVars, ragVars, turnVars, restVars>>
     \/ /\ moving = "http" /\ RestNext
        /\ UNCHANGED <<waVars, rabbitVars, wsVars, accountVars, ragVars, turnVars, evalVars>>

\* The fairness of WaSpec and of WsSpec, for the part that moves.
Spec ==
  /\ Init /\ [][Next]_allVars
  /\ WF_waVars(moving = "whatsapp" /\ ConnectStep)
  /\ \A c \in Connects : WF_waVars(moving = "whatsapp" /\ Poll(c))
  /\ WF_wsVars(moving = "websocket" /\ Tick)
  /\ WF_wsVars(moving = "websocket" /\ ServerClosed)
  /\ \A c \in Clients :
       /\ WF_wsVars(moving = "websocket" /\ client[c] = "closing" /\ Leave(c))
       /\ WF_wsVars(moving = "websocket" /\ Settle(c))

-----------------------------------------------------------------------------
(***************************************************************************)
(* The variables of every part are of the types they declare; above all, a *)
(* language model is selected, and only one, whatever selections interleave*)
(* and whichever of their updates fail: getSelectedModel never answers 404 *)
(* and never has a choice.                                                 *)
(***************************************************************************)
ServicesTypeOK ==
  /\ WaTypeOK /\ RabbitTypeOK /\ WsTypeOK /\ AccountsTypeOK /\ RagTypeOK /\ TurnTypeOK
  /\ EvalTypeOK
  /\ moving = "http" => RestTypeOK

(***************************************************************************)
(* What a schedule, a rule or a trace takes from a text is what it says:   *)
(* RunsAreNextOccurrences and ReadingIsOwn.                                *)
(***************************************************************************)
ConversionsAgree ==
  /\ moving = "time" => RunsAreNextOccurrences
  /\ moving = "telemetry" => ReadingIsOwn

(***************************************************************************)
(* A score means what the report says it does: TurnsAreScored,             *)
(* EntriesAreScored, CallsAreCountedOnce and AcksAreReports.               *)
(***************************************************************************)
ScoresAreSound ==
  moving = "scoring" =>
    TurnsAreScored /\ EntriesAreScored /\ CallsAreCountedOnce /\ AcksAreReports
=============================================================================
