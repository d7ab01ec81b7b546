------------------------------ MODULE ChatPromise ------------------------------
(***************************************************************************)
(* What requestChat promises its callers, whatever the broker, the         *)
(* consumer and the process do: an answer in the end, at most one, which   *)
(* says of the LLM turn only what is so.  ChatRpc implements it.           *)
(***************************************************************************)
CONSTANT Requests  \* calls of requestChat

VARIABLES
  asked,   \* requests that were made
  answer,  \* answer[q]: the answer to q, "none" before
  tried,   \* requests whose turn ended, well or not
  done     \* requests whose turn took effect

vars == <<asked, answer, tried, done>>

Answer == {"ok", "error", "timeout", "full", "failed", "cut"}

Init ==
  /\ asked = {}
  /\ answer = [q \in Requests |-> "none"]
  /\ tried = {}
  /\ done = {}

-----------------------------------------------------------------------------
Ask(q) ==
  /\ q \notin asked
  /\ asked' = asked \cup {q}
  /\ UNCHANGED <<answer, tried, done>>

\* A turn, on what was asked for; also late, or again, but never for a caller who
\* was told that the call failed.
Try(q, effect) ==
  /\ q \in asked
  /\ answer[q] # "failed"
  /\ tried' = tried \cup {q}
  /\ done' = IF effect THEN done \cup {q} ELSE done
  /\ UNCHANGED <<asked, answer>>

\* What must be so for an answer; of the others no caller can tell anything.
SaysSo(q, how) ==
  CASE how = "ok" -> q \in done
    [] how = "error" -> q \in tried
    [] how = "failed" -> q \notin tried
    [] OTHER -> TRUE

\* A loss of the connection or of the process answers several at once.
Settle(qs, how) ==
  /\ \A q \in qs : q \in asked /\ answer[q] = "none" /\ SaysSo(q, how)
  /\ answer' = [q \in Requests |-> IF q \in qs THEN how ELSE answer[q]]
  /\ UNCHANGED <<asked, tried, done>>

Next ==
  \/ \E q \in Requests : Ask(q) \/ \E effect \in BOOLEAN : Try(q, effect)
  \/ \E qs \in SUBSET Requests, how \in Answer : Settle(qs, how)

Safety == Init /\ [][Next]_vars

Spec == Safety /\ \A q \in Requests : q \in asked ~> answer[q] # "none"
=============================================================================
