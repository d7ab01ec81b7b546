-------------------------------- MODULE ChatRpc --------------------------------
(***************************************************************************)
(* Chat turns over RabbitMQ: ChatMessageBroker.requestChat, the consumer   *)
(* of the chat queue and what becomes of both when calls fail, the         *)
(* connection drops or the process dies.                                   *)
(*                                                                         *)
(* One process plays both ends.  A caller opens a reply queue of its own,  *)
(* subscribes to it, publishes its request to the durable chat queue and   *)
(* waits for the reply or for its timer.  The consumer takes one request   *)
(* at a time (prefetch 1), runs the LLM turn, replies and acknowledges.    *)
(***************************************************************************)
EXTENDS Naturals, Sequences, FiniteSets

CONSTANTS
  Requests,    \* calls of requestChat, by message id
  NoRequest,   \* no request
  MaxCrashes,  \* bound on process deaths
  MaxDrops,    \* bound on lost connections
  MaxFaults    \* bound on failing broker calls

ASSUME ChatRpcAssumption ==
  /\ NoRequest \notin Requests
  /\ MaxCrashes \in Nat
  /\ MaxDrops \in Nat
  /\ MaxFaults \in Nat

VARIABLES
  stage,      \* stage[q]: the call the flow of q awaits
  answer,     \* answer[q]: how the promise of q was settled
  timers,     \* requests whose timer is armed
  listening,  \* requests with a consumer on their reply queue
  wire,       \* published requests in the client's write buffer
  queue,      \* the chat queue, ready messages
  unacked,    \* the request delivered and not acknowledged
  handlers,   \* running calls of onQueuedMessage
  replies,    \* replies in the reply queues
  consumer,   \* the subscription to the chat queue
  turns,      \* history: turns[q]: how often q's LLM turn was carried out
  tried,      \* history: requests whose turn ended, well or not
  lost,       \* history: requests dropped with the write buffer
  redelivered,  \* history: requests delivered and put back
  crashes, drops, faults

callVars == <<stage, answer, timers, listening>>
brokerVars == <<wire, queue, unacked, replies>>
historyVars == <<turns, tried, lost, redelivered>>
boundVars == <<crashes, drops, faults>>
vars == <<callVars, brokerVars, handlers, consumer, historyVars, boundVars>>

\* conn: the connection the message came on, drops being the number of the
\* current one.
Handler == [req : Requests, conn : 0 .. MaxDrops, turn : {"running", "ok", "error"}]

Reply == [req : Requests, outcome : {"ok", "error"}]

TypeOK ==
  /\ stage \in [Requests -> {"none", "channel", "assert", "consume", "sent", "over"}]
  /\ answer \in [Requests -> {"none", "ok", "error", "timeout", "full", "failed",
                              "cut"}]
  /\ timers \subseteq Requests
  /\ listening \subseteq Requests
  /\ wire \in Seq(Requests)
  /\ queue \in Seq(Requests)
  /\ unacked \in Requests \cup {NoRequest}
  /\ handlers \subseteq Handler
  /\ replies \subseteq Reply
  /\ consumer \in {"starting", "on", "lost", "off"}
  /\ turns \in [Requests -> Nat]
  /\ tried \subseteq Requests
  /\ lost \subseteq Requests
  /\ redelivered \subseteq Requests
  /\ crashes \in 0 .. MaxCrashes
  /\ drops \in 0 .. MaxDrops
  /\ faults \in 0 .. MaxFaults

Init ==
  /\ stage = [q \in Requests |-> "none"]
  /\ answer = [q \in Requests |-> "none"]
  /\ timers = {}
  /\ listening = {}
  /\ wire = <<>>
  /\ queue = <<>>
  /\ unacked = NoRequest
  /\ handlers = {}
  /\ replies = {}
  /\ consumer = "starting"
  /\ turns = [q \in Requests |-> 0]
  /\ tried = {}
  /\ lost = {}
  /\ redelivered = {}
  /\ crashes = 0
  /\ drops = 0
  /\ faults = 0

InSeq(q, s) == \E i \in DOMAIN s : s[i] = q

\* A promise is settled once: later attempts change nothing.
Settled(qs, how) ==
  [q \in Requests |-> IF q \in qs /\ answer[q] = "none" THEN how ELSE answer[q]]

-----------------------------------------------------------------------------
\* requestChat, up to its first await.
Call(q) ==
  /\ stage[q] = "none"
  /\ stage' = [stage EXCEPT ![q] = "channel"]
  /\ UNCHANGED <<answer, timers, listening, brokerVars, handlers, consumer,
                 historyVars, boundVars>>

GetChannel(q) ==
  /\ stage[q] = "channel"
  /\ stage' = [stage EXCEPT ![q] = "assert"]
  /\ UNCHANGED <<answer, timers, listening, brokerVars, handlers, consumer,
                 historyVars, boundVars>>

\* Mutant: the request is published before the subscription.
AssertAndPublish(q) ==
  /\ stage[q] = "assert"
  /\ stage' = [stage EXCEPT ![q] = "consume"]
  /\ timers' = timers \cup {q}
  /\ wire' = Append(wire, q)
  /\ UNCHANGED <<answer, listening, queue, unacked, replies, handlers, consumer,
                 historyVars, boundVars>>

\* The reply queue exists: the timer is set and the subscription sent off.
AssertReplyQueue(q) ==
  /\ stage[q] = "assert"
  /\ stage' = [stage EXCEPT ![q] = "consume"]
  /\ timers' = timers \cup {q}
  /\ UNCHANGED <<answer, listening, brokerVars, handlers, consumer, historyVars,
                 boundVars>>

\* Subscribed: the request is published, whether the timer has fired or not.
\* sendToQueue says false when the write buffer is above its mark; the message
\* is in the buffer all the same, but the caller gives up.
Publish(q, full) ==
  /\ stage[q] = "consume"
  /\ stage' = [stage EXCEPT ![q] = "sent"]
  /\ wire' = Append(wire, q)
  /\ IF full THEN /\ timers' = timers \ {q}
                  /\ answer' = Settled({q}, "full")
                  /\ UNCHANGED listening
             ELSE /\ listening' = listening \cup {q}
                  /\ UNCHANGED <<timers, answer>>
  /\ UNCHANGED <<queue, unacked, replies, handlers, consumer, historyVars,
                 boundVars>>

\* An awaited call of requestChat throws.
CallFails(q) ==
  /\ stage[q] \in {"channel", "assert", "consume"}
  /\ faults < MaxFaults
  /\ faults' = faults + 1
  /\ stage' = [stage EXCEPT ![q] = "over"]
  /\ timers' = timers \ {q}
  /\ answer' = Settled({q}, "failed")
  /\ UNCHANGED <<listening, brokerVars, handlers, consumer, historyVars, crashes,
                 drops>>

\* Mutant: the timer of a request that was published is off.
TimeoutUnlessSent(q) ==
  /\ q \in timers
  /\ stage[q] # "sent"
  /\ timers' = timers \ {q}
  /\ answer' = Settled({q}, "timeout")
  /\ UNCHANGED <<stage, listening, brokerVars, handlers, consumer, historyVars,
                 boundVars>>

\* The timer: the reply consumer is cancelled only if its tag is known by now.
Timeout(q) ==
  /\ q \in timers
  /\ timers' = timers \ {q}
  /\ answer' = Settled({q}, "timeout")
  /\ IF stage[q] = "sent"
     THEN /\ listening' = listening \ {q}
          /\ replies' = {p \in replies : p.req # q}
     ELSE UNCHANGED <<listening, replies>>
  /\ UNCHANGED <<stage, wire, queue, unacked, handlers, consumer, historyVars,
                 boundVars>>

TakeReply(p) ==
  LET q == p.req
  IN /\ p \in replies
     /\ q \in listening
     /\ timers' = timers \ {q}
     /\ answer' = Settled({q}, p.outcome)
     \* the last consumer is gone, and an autoDelete queue with it
     /\ listening' = listening \ {q}
     /\ replies' = {r \in replies : r.req # q}
     /\ UNCHANGED <<stage, wire, queue, unacked, handlers, consumer, historyVars,
                    boundVars>>

-----------------------------------------------------------------------------
\* ChatMessageBroker.initialize, once per process; a failure is only logged.
Subscribe ==
  /\ consumer = "starting"
  /\ consumer' = "on"
  /\ UNCHANGED <<callVars, brokerVars, handlers, historyVars, boundVars>>

SubscribeFails ==
  /\ consumer = "starting"
  /\ faults < MaxFaults
  /\ faults' = faults + 1
  /\ consumer' = "off"
  /\ UNCHANGED <<callVars, brokerVars, handlers, historyVars, crashes, drops>>

\* The write buffer reaches the broker.
Flush ==
  /\ wire # <<>>
  /\ queue' = Append(queue, Head(wire))
  /\ wire' = Tail(wire)
  /\ UNCHANGED <<callVars, unacked, replies, handlers, consumer, historyVars,
                 boundVars>>

Started(q) == [req |-> q, conn |-> drops, turn |-> "running"]

\* Mutants: no prefetch; a message leaves the broker on delivery (noAck).
DeliverAny ==
  /\ consumer = "on"
  /\ queue # <<>>
  /\ unacked' = Head(queue)
  /\ queue' = Tail(queue)
  /\ handlers' = handlers \cup {Started(Head(queue))}
  /\ UNCHANGED <<callVars, wire, replies, consumer, historyVars, boundVars>>

DeliverNoAck ==
  /\ consumer = "on"
  /\ queue # <<>>
  /\ queue' = Tail(queue)
  /\ handlers' = handlers \cup {Started(Head(queue))}
  /\ UNCHANGED <<callVars, wire, unacked, replies, consumer, historyVars,
                 boundVars>>

\* prefetch(1): nothing is delivered before the last message is acknowledged.
Deliver ==
  /\ consumer = "on"
  /\ queue # <<>>
  /\ unacked = NoRequest
  /\ unacked' = Head(queue)
  /\ queue' = Tail(queue)
  /\ handlers' = handlers \cup {Started(Head(queue))}
  /\ UNCHANGED <<callVars, wire, replies, consumer, historyVars, boundVars>>

\* ChatService.query: the turn's tools take effect; the turn may fail before,
\* or after that.
Turn(h, outcome, effect) ==
  /\ h \in handlers
  /\ h.turn = "running"
  /\ outcome = "ok" => effect
  /\ handlers' = (handlers \ {h}) \cup {[h EXCEPT !.turn = outcome]}
  /\ turns' = IF effect THEN [turns EXCEPT ![h.req] = @ + 1] ELSE turns
  /\ tried' = tried \cup {h.req}
  /\ UNCHANGED <<callVars, brokerVars, consumer, lost, redelivered, boundVars>>

Alive(h) == h.conn = drops

\* Mutant: every turn is reported as a good one.
RepliedOk(h) ==
  IF h.req \in listening
  THEN replies \cup {[req |-> h.req, outcome |-> "ok"]} ELSE replies

\* A reply to a queue that is gone is dropped by the broker.
Replied(h) ==
  IF h.req \in listening
  THEN replies \cup {[req |-> h.req, outcome |-> h.turn]} ELSE replies

\* Mutants: a failed turn is put back, on whatever channel; it is acknowledged
\* without a reply; it is never acknowledged.
FinishOrRequeue(h) ==
  /\ h \in handlers /\ h.turn # "running"
  /\ handlers' = handlers \ {h}
  /\ CASE h.turn = "error" -> /\ queue' = <<unacked>> \o queue
                             /\ unacked' = NoRequest
                             /\ UNCHANGED replies
       [] Alive(h) -> replies' = Replied(h) /\ unacked' = NoRequest /\ UNCHANGED queue
       [] OTHER -> UNCHANGED <<queue, replies, unacked>>
  /\ UNCHANGED <<callVars, wire, consumer, historyVars, boundVars>>

FinishSilently(h) ==
  /\ h \in handlers /\ h.turn # "running"
  /\ handlers' = handlers \ {h}
  /\ IF Alive(h) THEN /\ replies' = IF h.turn = "ok" THEN Replied(h) ELSE replies
                      /\ unacked' = NoRequest
                 ELSE UNCHANGED <<replies, unacked>>
  /\ UNCHANGED <<callVars, wire, queue, consumer, historyVars, boundVars>>

FinishUnacked(h) ==
  /\ h \in handlers /\ h.turn # "running"
  /\ handlers' = handlers \ {h}
  /\ IF Alive(h) THEN /\ replies' = Replied(h)
                      /\ unacked' = IF h.turn = "ok" THEN NoRequest ELSE unacked
                 ELSE UNCHANGED <<replies, unacked>>
  /\ UNCHANGED <<callVars, wire, queue, consumer, historyVars, boundVars>>

\* The rest of onQueuedMessage is one step: reply and acknowledgement; on a
\* channel that is closed the first of the two throws.
Finish(h) ==
  /\ h \in handlers
  /\ h.turn # "running"
  /\ handlers' = handlers \ {h}
  /\ IF Alive(h) THEN replies' = Replied(h) /\ unacked' = NoRequest
                 ELSE UNCHANGED <<replies, unacked>>
  /\ UNCHANGED <<callVars, wire, queue, consumer, historyVars, boundVars>>

-----------------------------------------------------------------------------
\* The broker puts the unacknowledged message back and drops the exclusive
\* reply queues; what was not sent is gone.
LoseChannel ==
  /\ queue' = IF unacked = NoRequest THEN queue ELSE <<unacked>> \o queue
  /\ unacked' = NoRequest
  /\ wire' = <<>>
  /\ replies' = {}
  /\ listening' = {}
  /\ redelivered' = redelivered \cup ({unacked} \ {NoRequest})
  /\ lost' = lost \cup {q \in Requests : InSeq(q, wire)}

\* The connection is lost: pending calls throw, callers that have published go
\* on waiting, and so does a running turn.
Drop ==
  /\ drops < MaxDrops
  /\ drops' = drops + 1
  /\ LoseChannel
  /\ LET pending == {q \in Requests : stage[q] \in {"channel", "assert", "consume"}}
     IN /\ stage' = [q \in Requests |-> IF q \in pending THEN "over" ELSE stage[q]]
        /\ answer' = Settled(pending, "failed")
        /\ timers' = timers \ pending
  /\ consumer' = CASE consumer = "on" -> "lost"
                   [] consumer = "starting" -> "off"
                   [] OTHER -> consumer
  /\ UNCHANGED <<handlers, turns, tried, crashes, faults>>

\* The client library's recovery may subscribe again; the code does not.
Recover ==
  /\ consumer = "lost"
  /\ consumer' = "on"
  /\ UNCHANGED <<callVars, brokerVars, handlers, historyVars, boundVars>>

\* The process dies and starts again; the callers' connections are cut.
Crash ==
  /\ crashes < MaxCrashes
  /\ crashes' = crashes + 1
  /\ LoseChannel
  /\ stage' = [q \in Requests |->
                IF stage[q] \in {"none", "sent"} THEN stage[q] ELSE "over"]
  /\ answer' = Settled({q \in Requests : stage[q] # "none"}, "cut")
  /\ timers' = {}
  /\ handlers' = {}
  /\ consumer' = "starting"
  /\ UNCHANGED <<turns, tried, drops, faults>>

CallStep(q) ==
  \/ GetChannel(q) \/ AssertReplyQueue(q)
  \/ \E full \in BOOLEAN : Publish(q, full)

Outcome == {"ok", "error"}

HandlerStep ==
  \E h \in handlers :
    \/ \E outcome \in Outcome, effect \in BOOLEAN : Turn(h, outcome, effect)
    \/ Finish(h)

Next ==
  \/ \E q \in Requests : Call(q) \/ CallStep(q) \/ CallFails(q) \/ Timeout(q)
  \/ \E p \in replies : TakeReply(p)
  \/ Subscribe \/ SubscribeFails \/ Flush \/ Deliver
  \/ HandlerStep
  \/ Drop \/ Recover \/ Crash

\* Calls and LLM turns return, timers fire, the broker delivers.
Fairness ==
  /\ \A q \in Requests : WF_vars(CallStep(q)) /\ WF_vars(Timeout(q))
  /\ WF_vars(\E p \in replies : TakeReply(p))
  /\ WF_vars(Subscribe) /\ WF_vars(Flush) /\ WF_vars(Deliver)
  /\ WF_vars(HandlerStep)

Spec == Init /\ [][Next]_vars /\ Fairness

-----------------------------------------------------------------------------
(***************************************************************************)
(* LLM turns do not overlap, so that the tools of two turns never switch   *)
(* devices at once: of two running ones, one lost its connection.          *)
(***************************************************************************)
TurnsDoNotOverlap ==
  \A g, h \in handlers : Alive(g) /\ Alive(h) => g = h

(***************************************************************************)
(* A turn is carried out twice only if its request was delivered when the  *)
(* process died or the connection dropped; failed turns are not retried.   *)
(***************************************************************************)
TurnOnce == \A q \in Requests : turns[q] > 1 => q \in redelivered

(***************************************************************************)
(* A request once published is not lost before its turn was tried: neither *)
(* a crash nor a lost connection drops it, unless it was still in the      *)
(* client's write buffer.                                                  *)
(***************************************************************************)
Somewhere(q) == InSeq(q, wire) \/ InSeq(q, queue) \/ unacked = q

NotLost ==
  \A q \in Requests :
    stage[q] = "sent" /\ q \notin lost => Somewhere(q) \/ q \in tried

(***************************************************************************)
(* A caller told "Failed to enqueue chat message", or whose call threw     *)
(* before, may ask again: its request is not processed, now or later.      *)
(***************************************************************************)
FailedIsNotProcessed ==
  \A q \in Requests : answer[q] = "failed" => ~Somewhere(q) /\ q \notin tried

(***************************************************************************)
(* Every caller is answered, whatever becomes of the broker, the consumer  *)
(* and the LLM, unless the process died under it.                          *)
(***************************************************************************)
EveryCallerAnswered ==
  \A q \in Requests : stage[q] # "none" ~> answer[q] # "none"

(***************************************************************************)
(* The consumer on a reply queue is released in the end, also when the     *)
(* caller timed out before its tag was known, as long as the chat queue    *)
(* has its consumer.                                                       *)
(***************************************************************************)
Unserved == consumer \in {"lost", "off"}

ReplyConsumersReleased ==
  \A q \in Requests : q \in listening ~> q \notin listening \/ Unserved

(***************************************************************************)
(* A request in the chat queue is tried in the end: no turn, failed or     *)
(* not, blocks those behind it.                                            *)
(***************************************************************************)
QueuedIsTried ==
  \A q \in Requests : InSeq(q, queue) ~> q \in tried \/ Unserved

(***************************************************************************)
(* requestChat keeps its promise: every caller is answered in the end,     *)
(* once; "ok" says that the turn was carried out, an error of the LLM that *)
(* it was tried, a failed call that it was not and never will be.          *)
(***************************************************************************)
Promise == INSTANCE ChatPromise
           WITH asked <- {q \in Requests : stage[q] # "none"},
                done <- {q \in Requests : turns[q] > 0}

KeepsPromise == Promise!Spec
=============================================================================
