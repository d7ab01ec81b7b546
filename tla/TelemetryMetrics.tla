---------------------------- MODULE TelemetryMetrics ----------------------------
(***************************************************************************)
(* From a telemetry payload to the number a rule compares:                 *)
(* telemetryMetrics.ts.  A field is what its value is to the parser; a     *)
(* result is a partial function from names in lower case to numbers.       *)
(***************************************************************************)
EXTENDS Integers, Functions

CONSTANTS
  Numbers,  \* the numbers of the payloads
  Metrics,  \* names of metrics, in lower case
  Payloads  \* what arrives: see Payload

VARIABLES
  payload,  \* a payload that arrives
  wanted    \* the metric a rule asks for

MetricNames == Metrics \cup {"value", "metric"}

\* A key of an object is a name as it is spelled; the capitals stand for any spelling
\* of these two that is not theirs.
Keys == MetricNames \cup {"VALUE", "METRIC"}
Lower(k) == IF k = "VALUE" THEN "value" ELSE IF k = "METRIC" THEN "metric" ELSE k

None == [kind |-> "none", n |-> 0]     \* neither a number nor a text
Words == [kind |-> "words", n |-> 0]   \* a text that is no number
Blank == [kind |-> "blank", n |-> 0]   \* a text of spaces
Inner == [kind |-> "inner", n |-> 0]   \* a text that is the JSON of an object
Numeric == [kind : {"number", "digits"}, n : Numbers]  \* a number, or a text of one
Field == {None, Words, Blank, Inner} \cup Numeric

\* Of two spellings of a name the parser keeps the later number: an object has one of
\* each name, and the keys the parser skips besides.
Once(keys) == \A k, l \in keys : Lower(k) = Lower(l) => k = l
Fields(f, skipped) ==
  /\ DOMAIN f \subseteq Keys /\ \A k \in DOMAIN f : f[k] \in Field
  /\ Once(DOMAIN f \ skipped)

SkipKeys == {"metric", "value"}

\* JSON of an object, or a text JSON.parse refuses, or what else there is: null, an
\* array, a scalar.  inner holds the fields of the JSON in "value"; name is the text of
\* "metric", trimmed and in lower case.
Payload(p) ==
  \/ /\ p.form = "object"
     /\ Fields(p.fields, SkipKeys) /\ Fields(p.inner, {})
     /\ p.name \in MetricNames \cup {""}
     /\ p.name # "" =>
          "metric" \in DOMAIN p.fields /\ p.fields["metric"].kind \in {"words", "digits"}
  \/ p.form = "text" /\ p.text \in Field \ {Inner}
  \/ p.form = "other"

ASSUME PayloadsAssumption ==
  /\ Numbers \subseteq Int
  /\ Metrics \cap {"VALUE", "METRIC", ""} = {}
  /\ \A p \in Payloads : Payload(p)

-----------------------------------------------------------------------------
IsNumber(f) == f.kind \in {"number", "digits"}

\* Number("") is 0, so a blank text is a number to Number().
IsBare(f) == f.kind \in {"number", "digits", "blank"}

Nothing == [m \in {} |-> 0]
ToNumber(key, f) == IF IsBare(f) THEN [m \in {key} |-> f.n] ELSE Nothing

\* Object.assign: the later one wins.
Assign(a, b) == [m \in DOMAIN a \cup DOMAIN b |-> IF m \in DOMAIN b THEN b[m] ELSE a[m]]

\* Mutant: no key is skipped.
ExtractEveryField(fields, skipKeys) ==
  LET kept == {k \in DOMAIN fields : IsNumber(fields[k])}
  IN [m \in {Lower(k) : k \in kept} |-> fields[CHOOSE k \in kept : Lower(k) = m].n]

\* Here a blank text is none.
ExtractNumericFields(fields, skipKeys) ==
  LET kept == {k \in DOMAIN fields \ skipKeys : IsNumber(fields[k])}
  IN [m \in {Lower(k) : k \in kept} |-> fields[CHOOSE k \in kept : Lower(k) = m].n]

Value(p) == IF "value" \in DOMAIN p.fields THEN p.fields["value"] ELSE None

\* The JSON in "value" is read with no key skipped, the object itself with two.
OfObject(p) ==
  LET value == IF Value(p) = Inner THEN ExtractNumericFields(p.inner, {})
               ELSE ToNumber("value", Value(p))
      named == IF p.name = "" THEN Nothing ELSE ToNumber(p.name, Value(p))
  IN Assign(Assign(value, named), ExtractNumericFields(p.fields, SkipKeys))

\* A text that JSON.parse takes for a number is none; only one it refuses is.
ParseTelemetryMetrics(p) ==
  CASE p.form = "object" -> OfObject(p)
    [] p.form = "text" -> ToNumber("value", p.text)
    [] OTHER -> Nothing

\* The set of what is returned: empty for null.
ResolveMetricReading(metrics, metric) ==
  IF metric \in DOMAIN metrics THEN {metrics[metric]}
  ELSE IF "value" \in DOMAIN metrics THEN {metrics["value"]}
  ELSE {}

TelemetryInit == payload \in Payloads /\ wanted \in MetricNames

-----------------------------------------------------------------------------
\* The numbers fields give a metric, whatever its spelling.
GivenBy(fields, skipKeys, m) ==
  {fields[k].n : k \in {l \in DOMAIN fields \ skipKeys : Lower(l) = m /\ IsNumber(fields[l])}}

\* The number the object's "value" gives a metric: a field of the JSON it holds; or it
\* is the number, of the metric "metric" names and of "value".
InValue(p, m) ==
  IF Value(p) = Inner THEN GivenBy(p.inner, {}, m)
  ELSE IF IsBare(Value(p)) /\ m \in {"value", p.name} THEN {Value(p).n} ELSE {}

GivenFor(p, m) ==
  CASE p.form = "object" ->
         LET own == GivenBy(p.fields, SkipKeys, m) IN IF own # {} THEN own ELSE InValue(p, m)
    [] p.form = "text" -> IF m = "value" /\ IsBare(p.text) THEN {p.text.n} ELSE {}
    [] OTHER -> {}

(***************************************************************************)
(* A rule reads the number the payload gives for its metric when there is  *)
(* one: of a field of the object before one of its "value".  Otherwise it  *)
(* reads what is given for the metric "value", whoever that is for (28 is  *)
(* a reading of humidity in {metric: temperature, value: 28}, and also in  *)
(* {value: '{"metric":"temperature","value":28}'}); otherwise nothing.     *)
(***************************************************************************)
ReadingIsOwn ==
  ResolveMetricReading(ParseTelemetryMetrics(payload), wanted)
    = IF GivenFor(payload, wanted) # {} THEN GivenFor(payload, wanted)
      ELSE GivenFor(payload, "value")
=============================================================================
