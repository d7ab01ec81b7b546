---------------------------- MODULE ChatRpc_proofs ----------------------------
(***************************************************************************)
(* Proofs about ChatRpc: its types, and the safety properties of the chat  *)
(* queue and its consumer.                                                 *)
(***************************************************************************)
EXTENDS ChatRpc, TLAPS

\* What is in a sequence after the operations on queue and wire.
LEMMA InAppend ==
  ASSUME NEW s \in Seq(Requests), NEW e \in Requests, NEW q
  PROVE  InSeq(q, Append(s, e)) <=> InSeq(q, s) \/ q = e
<1>1. Append(s, e) \in Seq(Requests) /\ Len(Append(s, e)) = Len(s) + 1
  OBVIOUS
<1>2. \A i \in 1 .. Len(s) : Append(s, e)[i] = s[i]
  OBVIOUS
<1>3. Append(s, e)[Len(s) + 1] = e
  OBVIOUS
<1>4. DOMAIN s = 1 .. Len(s) /\ DOMAIN Append(s, e) = 1 .. Len(s) + 1
  BY <1>1
<1>5. QED
  BY <1>2, <1>3, <1>4 DEF InSeq

LEMMA InHeadTail ==
  ASSUME NEW s \in Seq(Requests), s # <<>>, NEW q
  PROVE  InSeq(q, s) <=> q = Head(s) \/ InSeq(q, Tail(s))
<1>1. /\ Len(s) \in Nat \ {0}
      /\ DOMAIN s = 1 .. Len(s)
      /\ Head(s) = s[1]
      /\ DOMAIN Tail(s) = 1 .. Len(s) - 1
  OBVIOUS
<1>2. \A i \in 1 .. Len(s) - 1 : Tail(s)[i] = s[i + 1]
  OBVIOUS
<1>3. ASSUME InSeq(q, s), q # Head(s)
      PROVE  InSeq(q, Tail(s))
  <2>1. PICK i \in 1 .. Len(s) : s[i] = q
    BY <1>1, <1>3 DEF InSeq
  <2>2. i - 1 \in 1 .. Len(s) - 1 /\ (i - 1) + 1 = i
    BY <1>1, <1>3, <2>1
  <2>3. QED
    BY <1>1, <1>2, <2>1, <2>2 DEF InSeq
<1>4. QED
  BY <1>1, <1>2, <1>3 DEF InSeq

LEMMA InFront ==
  ASSUME NEW s \in Seq(Requests), NEW e \in Requests, NEW q
  PROVE  InSeq(q, <<e>> \o s) <=> q = e \/ InSeq(q, s)
<1>1. /\ DOMAIN s = 1 .. Len(s)
      /\ DOMAIN (<<e>> \o s) = 1 .. Len(s) + 1
      /\ Len(s) \in Nat
  OBVIOUS
<1>2. (<<e>> \o s)[1] = e
  OBVIOUS
<1>3. \A i \in 1 .. Len(s) : (<<e>> \o s)[i + 1] = s[i]
  OBVIOUS
<1>4. ASSUME InSeq(q, <<e>> \o s), q # e
      PROVE  InSeq(q, s)
  <2>1. PICK i \in 1 .. Len(s) + 1 : (<<e>> \o s)[i] = q
    BY <1>1, <1>4 DEF InSeq
  <2>2. i - 1 \in 1 .. Len(s) /\ (i - 1) + 1 = i
    BY <1>1, <1>2, <1>4, <2>1
  <2>3. QED
    BY <1>1, <1>3, <2>1, <2>2 DEF InSeq
<1>5. ASSUME InSeq(q, s)
      PROVE  InSeq(q, <<e>> \o s)
  <2>1. PICK i \in 1 .. Len(s) : s[i] = q
    BY <1>1, <1>5 DEF InSeq
  <2>2. i + 1 \in 1 .. Len(s) + 1 /\ (<<e>> \o s)[i + 1] = q
    BY <1>1, <1>3, <2>1
  <2>3. QED
    BY <1>1, <2>2 DEF InSeq
<1>6. 1 \in 1 .. Len(s) + 1
  BY <1>1
<1>7. QED
  BY <1>1, <1>2, <1>4, <1>5, <1>6 DEF InSeq

LEMMA InEmpty == \A q : ~InSeq(q, <<>>)
  BY DEF InSeq

\* The queue after a lost channel holds what was unacknowledged as well.
LEMMA InRequeued ==
  ASSUME TypeOK, LoseChannel, NEW q \in Requests
  PROVE  InSeq(q, queue') <=> q = unacked \/ InSeq(q, queue)
<1>1. CASE unacked = NoRequest
  BY <1>1, ChatRpcAssumption DEF LoseChannel
<1>2. CASE unacked \in Requests
  <2>1. queue' = <<unacked>> \o queue /\ queue \in Seq(Requests)
    BY <1>2, ChatRpcAssumption DEF LoseChannel, TypeOK
  <2>2. QED
    BY <1>2, <2>1, InFront
<1>3. QED
  BY <1>1, <1>2 DEF TypeOK

-----------------------------------------------------------------------------
\* The flow of a caller leaves the broker's side alone but for its wire.
LEMMA TypeCall ==
  ASSUME TypeOK, NEW q \in Requests,
         \/ Call(q) \/ CallStep(q) \/ CallFails(q) \/ Timeout(q)
  PROVE  TypeOK'
<1> USE DEF TypeOK
<1>1. CASE Call(q)
  BY <1>1 DEF Call, brokerVars, historyVars, boundVars
<1>2. CASE GetChannel(q)
  BY <1>2 DEF GetChannel, brokerVars, historyVars, boundVars
<1>3. CASE AssertReplyQueue(q)
  BY <1>3 DEF AssertReplyQueue, brokerVars, historyVars, boundVars
<1>4. ASSUME NEW full \in BOOLEAN, Publish(q, full)
      PROVE  TypeOK'
  <2>1. answer' \in [Requests -> {"none", "ok", "error", "timeout", "full",
                                  "failed", "cut"}]
    BY <1>4 DEF Publish, Settled
  <2>2. wire' \in Seq(Requests) /\ timers' \subseteq Requests
        /\ listening' \subseteq Requests
    BY <1>4 DEF Publish
  <2>3. QED
    BY <1>4, <2>1, <2>2 DEF Publish, historyVars, boundVars
<1>5. CASE CallFails(q)
  BY <1>5, ChatRpcAssumption DEF CallFails, Settled, brokerVars, historyVars
<1>6. CASE Timeout(q)
  <2>1. answer' \in [Requests -> {"none", "ok", "error", "timeout", "full",
                                  "failed", "cut"}]
    BY <1>6 DEF Timeout, Settled
  <2>2. QED
    BY <1>6, <2>1 DEF Timeout, historyVars, boundVars
<1>7. QED
  BY <1>1, <1>2, <1>3, <1>4, <1>5, <1>6 DEF CallStep

LEMMA TypeConsumer ==
  ASSUME TypeOK,
         \/ Subscribe \/ SubscribeFails \/ Flush \/ Deliver \/ Recover
         \/ \E p \in replies : TakeReply(p)
  PROVE  TypeOK'
<1> USE DEF TypeOK
<1>1. CASE Subscribe
  BY <1>1 DEF Subscribe, callVars, brokerVars, historyVars, boundVars
<1>2. CASE SubscribeFails
  BY <1>2, ChatRpcAssumption
  DEF SubscribeFails, callVars, brokerVars, historyVars
<1>3. CASE Flush
  <2>1. queue' \in Seq(Requests) /\ wire' \in Seq(Requests)
    BY <1>3 DEF Flush
  <2>2. QED
    BY <1>3, <2>1 DEF Flush, callVars, historyVars, boundVars
<1>4. CASE Deliver
  <2>1. queue' \in Seq(Requests) /\ Head(queue) \in Requests
    BY <1>4 DEF Deliver
  <2>2. handlers' \subseteq Handler
    BY <1>4, <2>1 DEF Deliver, Started, Handler
  <2>3. QED
    BY <1>4, <2>1, <2>2 DEF Deliver, callVars, historyVars, boundVars
<1>5. CASE Recover
  BY <1>5 DEF Recover, callVars, brokerVars, historyVars, boundVars
<1>6. ASSUME NEW p \in replies, TakeReply(p)
      PROVE  TypeOK'
  <2>1. p.req \in Requests /\ p.outcome \in {"ok", "error"}
    BY DEF Reply
  <2>2. answer' \in [Requests -> {"none", "ok", "error", "timeout", "full",
                                  "failed", "cut"}]
    BY <1>6, <2>1 DEF TakeReply, Settled
  <2>3. QED
    BY <1>6, <2>2 DEF TakeReply, historyVars, boundVars
<1>7. QED
  BY <1>1, <1>2, <1>3, <1>4, <1>5, <1>6

LEMMA TypeHandler ==
  ASSUME TypeOK, HandlerStep
  PROVE  TypeOK'
<1> USE DEF TypeOK
<1>1. ASSUME NEW h \in handlers, NEW outcome \in Outcome, NEW effect \in BOOLEAN,
             Turn(h, outcome, effect)
      PROVE  TypeOK'
  <2>1. h \in Handler /\ outcome \in {"ok", "error"}
    BY DEF Outcome
  <2>2. [h EXCEPT !.turn = outcome] \in Handler /\ h.req \in Requests
    BY <2>1 DEF Handler
  <2>3. turns' \in [Requests -> Nat]
    BY <1>1, <2>2 DEF Turn
  <2>4. QED
    BY <1>1, <2>2, <2>3 DEF Turn, callVars, brokerVars, boundVars
<1>2. ASSUME NEW h \in handlers, Finish(h)
      PROVE  TypeOK'
  <2>1. h.req \in Requests /\ h.turn \in {"ok", "error"}
    BY <1>2 DEF Finish, Handler
  <2>2. replies' \subseteq Reply
    BY <1>2, <2>1 DEF Finish, Replied, Reply
  <2>3. unacked' \in Requests \cup {NoRequest}
    BY <1>2 DEF Finish
  <2>4. QED
    BY <1>2, <2>2, <2>3 DEF Finish, callVars, historyVars, boundVars
<1>3. QED
  BY <1>1, <1>2 DEF HandlerStep

LEMMA TypeLoss ==
  ASSUME TypeOK, Drop \/ Crash
  PROVE  TypeOK'
<1> USE DEF TypeOK
<1>1. LoseChannel
  BY DEF Drop, Crash
<1>2. /\ queue' \in Seq(Requests)
      /\ wire' \in Seq(Requests)
      /\ unacked' \in Requests \cup {NoRequest}
      /\ replies' \subseteq Reply
      /\ listening' \subseteq Requests
      /\ redelivered' \subseteq Requests
      /\ lost' \subseteq Requests
  BY <1>1 DEF LoseChannel
<1>3. CASE Drop
  <2>1. stage' \in [Requests -> {"none", "channel", "assert", "consume", "sent",
                                 "over"}]
    BY <1>3 DEF Drop
  <2>2. answer' \in [Requests -> {"none", "ok", "error", "timeout", "full",
                                  "failed", "cut"}]
    BY <1>3 DEF Drop, Settled
  <2>3. /\ timers' \subseteq Requests
        /\ consumer' \in {"starting", "on", "lost", "off"}
        /\ drops' \in 0 .. MaxDrops
    BY <1>3, ChatRpcAssumption DEF Drop
  <2>4. QED
    BY <1>2, <1>3, <2>1, <2>2, <2>3 DEF Drop
<1>4. CASE Crash
  <2>1. stage' \in [Requests -> {"none", "channel", "assert", "consume", "sent",
                                 "over"}]
    BY <1>4 DEF Crash
  <2>2. answer' \in [Requests -> {"none", "ok", "error", "timeout", "full",
                                  "failed", "cut"}]
    BY <1>4 DEF Crash, Settled
  <2>3. crashes' \in 0 .. MaxCrashes
    BY <1>4, ChatRpcAssumption DEF Crash
  <2>4. QED
    BY <1>2, <1>4, <2>1, <2>2, <2>3 DEF Crash
<1>5. QED
  BY <1>3, <1>4

LEMMA TypeStep == TypeOK /\ [Next]_vars => TypeOK'
<1> SUFFICES ASSUME TypeOK, [Next]_vars
             PROVE  TypeOK'
  OBVIOUS
<1>1. CASE UNCHANGED vars
  BY <1>1 DEF TypeOK, vars, callVars, brokerVars, historyVars, boundVars
<1>2. QED
  BY <1>1, TypeCall, TypeConsumer, TypeHandler, TypeLoss DEF Next

LEMMA TypeInit == Init => TypeOK
  BY ChatRpcAssumption DEF Init, TypeOK

(***************************************************************************)
(* The types of ChatRpc: the chat queue and the write buffer hold requests *)
(* only, whatever is put back and however often the channel is lost.       *)
(***************************************************************************)
THEOREM TypeCorrect == Spec => []TypeOK
  BY TypeInit, TypeStep, PTL DEF Spec

-----------------------------------------------------------------------------
\* A running turn of the current connection is the one unacknowledged message;
\* of turns and queued requests, each was published by its caller.
HandlersKnown ==
  \A h \in handlers :
    /\ h.conn <= drops
    /\ Alive(h) => unacked = h.req
    /\ h.turn # "running" => h.req \in tried
    /\ stage[h.req] = "sent"

OnlyPublished ==
  /\ \A q \in Requests : Somewhere(q) \/ q \in tried => stage[q] = "sent"
  /\ \A q \in Requests : answer[q] = "failed" => stage[q] = "over"

SafetyInv ==
  /\ TypeOK
  /\ HandlersKnown
  /\ TurnsDoNotOverlap
  /\ OnlyPublished
  /\ NotLost

LEMMA SafetyInit == Init => SafetyInv
<1> SUFFICES ASSUME Init
             PROVE  SafetyInv
  OBVIOUS
<1>1. handlers = {} /\ tried = {}
  BY DEF Init
<1>2. \A q \in Requests : ~Somewhere(q) /\ stage[q] = "none" /\ answer[q] = "none"
  BY InEmpty, ChatRpcAssumption DEF Init, Somewhere
<1>3. QED
  BY <1>1, <1>2, TypeInit
  DEF SafetyInv, HandlersKnown, TurnsDoNotOverlap, OnlyPublished, NotLost

\* A step that leaves the handlers, the published requests and what became of
\* them alone, and settles no call as failed.
LEMMA Undisturbed ==
  ASSUME SafetyInv, TypeOK',
         UNCHANGED <<stage, wire, queue, unacked, handlers, tried, lost, drops>>,
         \A q \in Requests : answer'[q] = "failed" => answer[q] = "failed"
  PROVE  SafetyInv'
<1>1. HandlersKnown' /\ TurnsDoNotOverlap'
  BY DEF SafetyInv, HandlersKnown, TurnsDoNotOverlap, Alive
<1>2. OnlyPublished' /\ NotLost'
  BY DEF SafetyInv, OnlyPublished, NotLost, Somewhere, InSeq
<1>3. QED
  BY <1>1, <1>2 DEF SafetyInv

LEMMA SafetyCall ==
  ASSUME SafetyInv, TypeOK', NEW q \in Requests,
         \/ Call(q) \/ CallStep(q) \/ CallFails(q) \/ Timeout(q)
  PROVE  SafetyInv'
<1> USE DEF SafetyInv
<1>1. ASSUME \/ Call(q) \/ GetChannel(q) \/ AssertReplyQueue(q) \/ CallFails(q)
      PROVE  SafetyInv'
  <2>1. /\ stage[q] # "sent" /\ stage[q] # "over" /\ stage'[q] # "sent"
        /\ \A r \in Requests \ {q} : stage'[r] = stage[r]
        /\ UNCHANGED <<wire, queue, unacked, handlers, tried, lost, drops>>
    BY <1>1
    DEF TypeOK, Call, GetChannel, AssertReplyQueue, CallFails, brokerVars,
        historyVars, boundVars
  <2>2. \A r \in Requests :
          answer'[r] = "failed" => answer[r] = "failed" \/ (r = q /\ stage'[q] = "over")
    <3>1. CASE Call(q) \/ GetChannel(q) \/ AssertReplyQueue(q)
      BY <3>1
      DEF Call, GetChannel, AssertReplyQueue, brokerVars, historyVars, boundVars
    <3>2. CASE CallFails(q)
      BY <3>2 DEF TypeOK, CallFails, Settled
    <3>3. QED
      BY <1>1, <3>1, <3>2
  <2>3. HandlersKnown' /\ TurnsDoNotOverlap'
    BY <2>1 DEF HandlersKnown, TurnsDoNotOverlap, Alive, TypeOK, Handler
  <2>4. \A r \in Requests : Somewhere(r)' <=> Somewhere(r)
    BY <2>1 DEF Somewhere, InSeq
  <2>5. OnlyPublished'
    BY <2>1, <2>2, <2>4 DEF OnlyPublished
  <2>6. NotLost'
    BY <2>1, <2>4 DEF NotLost
  <2>7. QED
    BY <2>3, <2>5, <2>6
<1>2. ASSUME NEW full \in BOOLEAN, Publish(q, full)
      PROVE  SafetyInv'
  <2>1. /\ stage[q] = "consume" /\ stage'[q] = "sent"
        /\ \A r \in Requests \ {q} : stage'[r] = stage[r]
        /\ UNCHANGED <<queue, unacked, handlers, tried, lost, drops>>
    BY <1>2 DEF TypeOK, Publish, historyVars, boundVars
  <2>2. \A r \in Requests : answer'[r] = "failed" => answer[r] = "failed"
    BY <1>2 DEF TypeOK, Publish, Settled
  <2>3. \A r \in Requests : InSeq(r, wire') <=> InSeq(r, wire) \/ r = q
    BY <1>2, InAppend DEF TypeOK, Publish
  <2>4. \A r \in Requests : Somewhere(r)' <=> Somewhere(r) \/ r = q
    BY <2>1, <2>3 DEF Somewhere, InSeq
  <2>5. HandlersKnown' /\ TurnsDoNotOverlap'
    BY <2>1 DEF HandlersKnown, TurnsDoNotOverlap, Alive, TypeOK, Handler
  <2>6. OnlyPublished'
    BY <2>1, <2>2, <2>4 DEF OnlyPublished
  <2>7. NotLost'
    BY <2>1, <2>4 DEF NotLost
  <2>8. QED
    BY <2>5, <2>6, <2>7
<1>3. CASE Timeout(q)
  <2>1. \A r \in Requests : answer'[r] = "failed" => answer[r] = "failed"
    BY <1>3 DEF TypeOK, Timeout, Settled
  <2>2. QED
    BY <1>3, <2>1, Undisturbed DEF Timeout, historyVars, boundVars
<1>4. QED
  BY <1>1, <1>2, <1>3 DEF CallStep

LEMMA SafetyConsumer ==
  ASSUME SafetyInv, TypeOK',
         \/ Subscribe \/ SubscribeFails \/ Flush \/ Deliver \/ Recover
         \/ \E p \in replies : TakeReply(p)
  PROVE  SafetyInv'
<1> USE DEF SafetyInv
<1>1. CASE Subscribe \/ SubscribeFails \/ Recover
  BY <1>1, Undisturbed
  DEF Subscribe, SubscribeFails, Recover, callVars, brokerVars, historyVars,
      boundVars
<1>2. CASE Flush
  <2>1. /\ wire \in Seq(Requests) /\ wire # <<>> /\ queue \in Seq(Requests)
        /\ Head(wire) \in Requests
        /\ wire' = Tail(wire) /\ queue' = Append(queue, Head(wire))
        /\ UNCHANGED <<stage, answer, unacked, handlers, tried, lost, drops>>
    BY <1>2 DEF TypeOK, Flush, callVars, historyVars, boundVars
  <2>2. \A r \in Requests : Somewhere(r)' <=> Somewhere(r)
    BY <2>1, InAppend, InHeadTail DEF Somewhere
  <2>3. HandlersKnown' /\ TurnsDoNotOverlap'
    BY <2>1 DEF HandlersKnown, TurnsDoNotOverlap, Alive
  <2>4. OnlyPublished' /\ NotLost'
    BY <2>1, <2>2 DEF OnlyPublished, NotLost
  <2>5. QED
    BY <2>3, <2>4
<1>3. CASE Deliver
  <2> DEFINE q == Head(queue)
  <2>1. /\ queue \in Seq(Requests) /\ queue # <<>> /\ q \in Requests
        /\ unacked = NoRequest /\ unacked' = q /\ queue' = Tail(queue)
        /\ handlers' = handlers \cup {Started(q)}
        /\ UNCHANGED <<stage, answer, wire, tried, lost, drops>>
    BY <1>3 DEF TypeOK, Deliver, callVars, historyVars, boundVars
  <2>2. \A r \in Requests : Somewhere(r)' <=> Somewhere(r)
    BY <2>1, InHeadTail, ChatRpcAssumption DEF Somewhere
  <2>3. \A h \in handlers : ~Alive(h)
    BY <2>1, ChatRpcAssumption DEF HandlersKnown, TypeOK, Handler
  <2>4. stage[q] = "sent"
    BY <2>1, InHeadTail DEF OnlyPublished, Somewhere
  <2>5. HandlersKnown'
    BY <2>1, <2>3, <2>4 DEF HandlersKnown, Alive, Started, TypeOK
  <2>6. TurnsDoNotOverlap'
    BY <2>1, <2>3 DEF TurnsDoNotOverlap, Alive
  <2>7. OnlyPublished' /\ NotLost'
    BY <2>1, <2>2 DEF OnlyPublished, NotLost
  <2>8. QED
    BY <2>5, <2>6, <2>7
<1>4. ASSUME NEW p \in replies, TakeReply(p)
      PROVE  SafetyInv'
  <2>1. \A r \in Requests : answer'[r] = "failed" => answer[r] = "failed"
    BY <1>4 DEF TypeOK, TakeReply, Settled, Reply
  <2>2. QED
    BY <1>4, <2>1, Undisturbed DEF TakeReply, historyVars, boundVars
<1>5. QED
  BY <1>1, <1>2, <1>3, <1>4

\* The end of a turn: before its reply, and with it.
LEMMA SafetyHandler ==
  ASSUME SafetyInv, TypeOK', HandlerStep
  PROVE  SafetyInv'
<1> USE DEF SafetyInv
<1>1. ASSUME NEW h \in handlers, NEW outcome \in Outcome, NEW effect \in BOOLEAN,
             Turn(h, outcome, effect)
      PROVE  SafetyInv'
  <2> DEFINE g == [h EXCEPT !.turn = outcome]
  <2>1. /\ h \in Handler /\ g \in Handler
        /\ g.req = h.req /\ g.conn = h.conn /\ Alive(g) = Alive(h)
    BY DEF TypeOK, Handler, Outcome, Alive
  <2>2. /\ handlers' = (handlers \ {h}) \cup {g}
        /\ tried' = tried \cup {h.req}
        /\ UNCHANGED <<stage, answer, wire, queue, unacked, lost, drops>>
    BY <1>1 DEF Turn, callVars, brokerVars, boundVars
  <2> HIDE DEF g
  <2>3. HandlersKnown'
    BY <2>1, <2>2 DEF HandlersKnown, Alive
  <2>4. TurnsDoNotOverlap'
    BY <2>1, <2>2 DEF TurnsDoNotOverlap, Alive
  <2>5. OnlyPublished'
    BY <2>1, <2>2 DEF OnlyPublished, HandlersKnown, Somewhere, InSeq
  <2>6. NotLost'
    BY <2>2 DEF NotLost, Somewhere, InSeq
  <2>7. QED
    BY <2>3, <2>4, <2>5, <2>6
<1>2. ASSUME NEW h \in handlers, Finish(h)
      PROVE  SafetyInv'
  <2>1. /\ h.req \in tried
        /\ handlers' = handlers \ {h}
        /\ UNCHANGED <<stage, answer, wire, queue, tried, lost, drops>>
    BY <1>2 DEF Finish, HandlersKnown, callVars, historyVars, boundVars
  <2>2. IF Alive(h) THEN unacked = h.req /\ unacked' = NoRequest
                    ELSE unacked' = unacked
    BY <1>2 DEF Finish, HandlersKnown
  <2>3. \A g \in handlers' : Alive(h) => ~Alive(g)
    BY <2>1 DEF TurnsDoNotOverlap
  <2>4. HandlersKnown' /\ TurnsDoNotOverlap'
    BY <2>1, <2>2, <2>3 DEF HandlersKnown, TurnsDoNotOverlap, Alive
  <2>5. \A r \in Requests :
          /\ Somewhere(r)' => Somewhere(r)
          /\ Somewhere(r) => Somewhere(r)' \/ r \in tried
    BY <2>1, <2>2, ChatRpcAssumption DEF Somewhere, InSeq
  <2>6. OnlyPublished' /\ NotLost'
    BY <2>1, <2>5 DEF OnlyPublished, NotLost
  <2>7. QED
    BY <2>4, <2>6
<1>3. QED
  BY <1>1, <1>2 DEF HandlerStep

\* A lost channel: what was unacknowledged is back in the queue.
LEMMA SafetyLoss ==
  ASSUME SafetyInv, TypeOK', Drop \/ Crash
  PROVE  SafetyInv'
<1> USE DEF SafetyInv
<1>1. LoseChannel
  BY DEF Drop, Crash
<1>2. \A r \in Requests :
        /\ Somewhere(r)' => Somewhere(r)
        /\ Somewhere(r) => Somewhere(r)' \/ r \in lost'
  BY <1>1, InRequeued, InEmpty, ChatRpcAssumption
  DEF LoseChannel, Somewhere
<1>3. lost \subseteq lost'
  BY <1>1 DEF LoseChannel
<1>4. /\ tried' = tried
      /\ \A r \in Requests : stage'[r] = "sent" <=> stage[r] = "sent"
      /\ \A r \in Requests :
           answer'[r] = "failed" /\ answer[r] # "failed" => stage'[r] = "over"
      /\ \A r \in Requests : stage[r] = "over" => stage'[r] = "over"
  <2>1. CASE Drop
    BY <2>1 DEF TypeOK, Drop, Settled
  <2>2. CASE Crash
    BY <2>2 DEF TypeOK, Crash, Settled
  <2>3. QED
    BY <2>1, <2>2
<1>5. OnlyPublished' /\ NotLost'
  BY <1>2, <1>3, <1>4 DEF OnlyPublished, NotLost
<1>6. HandlersKnown' /\ TurnsDoNotOverlap'
  <2>1. CASE Drop
    <3>1. drops \in Nat /\ drops' = drops + 1 /\ handlers' = handlers
      BY <2>1, ChatRpcAssumption DEF TypeOK, Drop
    <3>2. \A h \in handlers : h.conn \in Nat /\ h.conn <= drops /\ h.req \in Requests
      BY ChatRpcAssumption DEF TypeOK, Handler, HandlersKnown
    <3>3. \A h \in handlers' : ~(Alive(h))'
      BY <3>1, <3>2 DEF Alive
    <3>4. QED
      BY <1>4, <3>1, <3>2, <3>3 DEF HandlersKnown, TurnsDoNotOverlap
  <2>2. CASE Crash
    BY <2>2 DEF Crash, HandlersKnown, TurnsDoNotOverlap
  <2>3. QED
    BY <2>1, <2>2
<1>7. QED
  BY <1>5, <1>6

LEMMA SafetyStep == SafetyInv /\ [Next]_vars => SafetyInv'
<1> SUFFICES ASSUME SafetyInv, [Next]_vars
             PROVE  SafetyInv'
  OBVIOUS
<1>1. TypeOK'
  BY TypeStep DEF SafetyInv
<1>2. CASE UNCHANGED vars
  BY <1>1, <1>2, Undisturbed
  DEF vars, callVars, brokerVars, historyVars, boundVars
<1>3. CASE Next
  BY <1>1, <1>3, SafetyCall, SafetyConsumer, SafetyHandler, SafetyLoss DEF Next
<1>4. QED
  BY <1>2, <1>3

LEMMA Safety == Spec => []SafetyInv
  BY SafetyInit, SafetyStep, PTL DEF Spec

(***************************************************************************)
(* For any number of requests, crashes and lost connections: two turns     *)
(* that both still have their channel are one (prefetch 1).                *)
(***************************************************************************)
THEOREM TurnsAreSerial == Spec => []TurnsDoNotOverlap
<1>1. SafetyInv => TurnsDoNotOverlap
  BY DEF SafetyInv
<1>2. QED
  BY <1>1, Safety, PTL

(***************************************************************************)
(* A published request that was not lost with the write buffer is in the   *)
(* queue, unacknowledged or tried (manual acknowledgement after the turn). *)
(***************************************************************************)
THEOREM NothingLost == Spec => []NotLost
<1>1. SafetyInv => NotLost
  BY DEF SafetyInv
<1>2. QED
  BY <1>1, Safety, PTL

(***************************************************************************)
(* A caller whose call failed, for lack of a channel, reply queue or       *)
(* subscription, has not published and never will.                         *)
(***************************************************************************)
THEOREM FailedHasNoEffect == Spec => []FailedIsNotProcessed
<1>1. SafetyInv => FailedIsNotProcessed
  BY DEF SafetyInv, OnlyPublished, FailedIsNotProcessed
<1>2. QED
  BY <1>1, Safety, PTL

-----------------------------------------------------------------------------
\* q is in s at most once.
Single(q, s) == \A i, j \in DOMAIN s : s[i] = q /\ s[j] = q => i = j

LEMMA SingleAppend ==
  ASSUME NEW s \in Seq(Requests), NEW e \in Requests, NEW q,
         Single(q, s), q = e => ~InSeq(q, s)
  PROVE  Single(q, Append(s, e))
<1>1. /\ DOMAIN s = 1 .. Len(s)
      /\ DOMAIN Append(s, e) = 1 .. Len(s) + 1
      /\ Len(s) \in Nat
      /\ Append(s, e)[Len(s) + 1] = e
  OBVIOUS
<1>2. \A i \in 1 .. Len(s) : Append(s, e)[i] = s[i]
  OBVIOUS
<1>3. \A i \in 1 .. Len(s) + 1 : i \in 1 .. Len(s) \/ i = Len(s) + 1
  BY <1>1
<1>4. QED
  BY <1>1, <1>2, <1>3 DEF Single, InSeq

LEMMA SingleTail ==
  ASSUME NEW s \in Seq(Requests), s # <<>>, NEW q, Single(q, s)
  PROVE  Single(q, Tail(s)) /\ (q = Head(s) => ~InSeq(q, Tail(s)))
<1>1. /\ Len(s) \in Nat \ {0}
      /\ DOMAIN s = 1 .. Len(s)
      /\ Head(s) = s[1]
      /\ DOMAIN Tail(s) = 1 .. Len(s) - 1
  OBVIOUS
<1>2. \A i \in 1 .. Len(s) - 1 : Tail(s)[i] = s[i + 1]
  OBVIOUS
<1>3. /\ 1 \in 1 .. Len(s)
      /\ \A i \in 1 .. Len(s) - 1 : i + 1 \in 1 .. Len(s) /\ i + 1 # 1
      /\ \A i, j \in 1 .. Len(s) - 1 : i + 1 = j + 1 => i = j
  BY <1>1
<1>4. QED
  BY <1>1, <1>2, <1>3 DEF Single, InSeq

LEMMA SingleFront ==
  ASSUME NEW s \in Seq(Requests), NEW e \in Requests, NEW q, q # e, Single(q, s)
  PROVE  Single(q, <<e>> \o s)
<1>1. /\ DOMAIN s = 1 .. Len(s)
      /\ DOMAIN (<<e>> \o s) = 1 .. Len(s) + 1
      /\ Len(s) \in Nat
      /\ (<<e>> \o s)[1] = e
  OBVIOUS
<1>2. \A i \in 1 .. Len(s) : (<<e>> \o s)[i + 1] = s[i]
  OBVIOUS
<1>3. \A i \in 1 .. Len(s) + 1 :
        (<<e>> \o s)[i] = q => i - 1 \in 1 .. Len(s) /\ s[i - 1] = q
  <2>1. SUFFICES ASSUME NEW i \in 1 .. Len(s) + 1, (<<e>> \o s)[i] = q
                 PROVE  i - 1 \in 1 .. Len(s) /\ s[i - 1] = q
    OBVIOUS
  <2>2. i - 1 \in 1 .. Len(s) /\ (i - 1) + 1 = i
    BY <1>1, <2>1
  <2>3. QED
    BY <1>2, <2>1, <2>2
<1>4. \A i, j \in 1 .. Len(s) + 1 : i - 1 = j - 1 => i = j
  BY <1>1
<1>5. QED
  BY <1>1, <1>3, <1>4 DEF Single

\* A request not put back so far is in one place: the write buffer, the queue or
\* one running turn, in that order; its turn is carried out when it is done.
FreshOnce ==
  \A q \in Requests \ redelivered :
    /\ Single(q, wire) /\ Single(q, queue)
    /\ InSeq(q, wire) => ~InSeq(q, queue)
    /\ InSeq(q, wire) \/ InSeq(q, queue)
         => unacked # q /\ turns[q] = 0 /\ \A h \in handlers : h.req # q
    /\ \A h \in handlers :
         h.req = q => Alive(h) /\ (h.turn = "running" => turns[q] = 0)
    /\ turns[q] <= 1

TurnInv ==
  /\ SafetyInv
  /\ \A q \in Requests : turns[q] > 0 => q \in tried
  /\ FreshOnce

LEMMA TurnInvInit == Init => TurnInv
<1> SUFFICES ASSUME Init
             PROVE  TurnInv
  OBVIOUS
<1>1. FreshOnce
  BY InEmpty DEF Init, FreshOnce, Single
<1>2. QED
  BY <1>1, SafetyInit DEF Init, TurnInv

LEMMA TurnInvStep == TurnInv /\ [Next]_vars => TurnInv'
<1> SUFFICES ASSUME TurnInv, [Next]_vars
             PROVE  TurnInv'
  OBVIOUS
<1> USE DEF TurnInv
<1>1. SafetyInv'
  BY SafetyStep
<1>2. TypeOK /\ TypeOK' /\ HandlersKnown /\ OnlyPublished /\ TurnsDoNotOverlap
  BY <1>1 DEF SafetyInv
<1>3. ASSUME UNCHANGED <<wire, queue, unacked, handlers, turns, tried,
                         redelivered, drops>>
      PROVE  TurnInv'
  BY <1>1, <1>3 DEF FreshOnce, Single, InSeq, Alive
<1>4. ASSUME NEW q \in Requests, NEW full \in BOOLEAN, Publish(q, full)
      PROVE  TurnInv'
  <2>1. /\ stage[q] = "consume" /\ wire \in Seq(Requests)
        /\ wire' = Append(wire, q)
        /\ UNCHANGED <<queue, unacked, handlers, turns, tried, redelivered, drops>>
    BY <1>2, <1>4 DEF TypeOK, Publish, historyVars, boundVars
  <2>2. /\ ~InSeq(q, wire) /\ ~InSeq(q, queue) /\ unacked # q
        /\ \A h \in handlers : h.req # q
        /\ turns[q] = 0
    <3>1. ~InSeq(q, wire) /\ ~InSeq(q, queue) /\ unacked # q /\ q \notin tried
      BY <1>2, <2>1 DEF OnlyPublished, Somewhere
    <3>2. turns[q] \in Nat
      BY <1>2 DEF TypeOK
    <3>3. \A h \in handlers : h.req # q
      BY <1>2, <2>1 DEF HandlersKnown
    <3>4. QED
      BY <3>1, <3>2, <3>3
  <2>3. \A r \in Requests : InSeq(r, wire') <=> InSeq(r, wire) \/ r = q
    BY <2>1, InAppend
  <2>4. \A r \in Requests : Single(r, wire) => Single(r, wire')
    BY <2>1, <2>2, SingleAppend
  <2>5. \A r \in Requests : /\ Single(r, queue)' = Single(r, queue)
                            /\ InSeq(r, queue') = InSeq(r, queue)
    BY <2>1 DEF Single, InSeq
  <2>6. FreshOnce'
    BY <2>1, <2>2, <2>3, <2>4, <2>5 DEF FreshOnce, Alive
  <2>7. QED
    BY <1>1, <2>1, <2>6
<1>5. CASE Flush
  <2> DEFINE q == Head(wire)
  <2>1. /\ wire \in Seq(Requests) /\ wire # <<>> /\ queue \in Seq(Requests)
        /\ q \in Requests /\ wire' = Tail(wire) /\ queue' = Append(queue, q)
        /\ UNCHANGED <<unacked, handlers, turns, tried, redelivered, drops>>
    BY <1>2, <1>5 DEF TypeOK, Flush, historyVars, boundVars
  <2> HIDE DEF q
  <2>2. \A r \in Requests : /\ InSeq(r, wire) <=> r = q \/ InSeq(r, wire')
                            /\ InSeq(r, queue') <=> InSeq(r, queue) \/ r = q
    BY <2>1, InAppend, InHeadTail DEF q
  <2>3. \A r \in Requests : Single(r, wire) =>
          Single(r, wire') /\ (r = q => ~InSeq(r, wire'))
    BY <2>1, SingleTail DEF q
  <2>4. \A r \in Requests :
          Single(r, queue) /\ (r = q => ~InSeq(r, queue)) => Single(r, queue')
    BY <2>1, SingleAppend
  <2>5. FreshOnce'
    BY <2>1, <2>2, <2>3, <2>4 DEF FreshOnce, Alive
  <2>6. QED
    BY <1>1, <2>1, <2>5
<1>6. CASE Deliver
  <2> DEFINE q == Head(queue)
  <2>1. /\ queue \in Seq(Requests) /\ queue # <<>> /\ q \in Requests
        /\ unacked' = q /\ queue' = Tail(queue)
        /\ handlers' = handlers \cup {Started(q)}
        /\ UNCHANGED <<wire, turns, tried, redelivered, drops>>
    BY <1>2, <1>6 DEF TypeOK, Deliver, historyVars, boundVars
  <2> HIDE DEF q
  <2>2. \A r \in Requests : InSeq(r, queue) <=> r = q \/ InSeq(r, queue')
    BY <2>1, InHeadTail DEF q
  <2>3. \A r \in Requests : Single(r, queue) =>
          Single(r, queue') /\ (r = q => ~InSeq(r, queue'))
    BY <2>1, SingleTail DEF q
  <2>4. \A r \in Requests : /\ Single(r, wire)' = Single(r, wire)
                            /\ InSeq(r, wire') = InSeq(r, wire)
    BY <2>1 DEF Single, InSeq
  <2>5. Started(q).req = q /\ Started(q).conn = drops
    BY DEF Started
  <2>6. FreshOnce'
    BY <2>1, <2>2, <2>3, <2>4, <2>5 DEF FreshOnce, Alive
  <2>7. QED
    BY <1>1, <2>1, <2>6
<1>7. ASSUME NEW h \in handlers, NEW outcome \in Outcome, NEW effect \in BOOLEAN,
             Turn(h, outcome, effect)
      PROVE  TurnInv'
  <2> DEFINE g == [h EXCEPT !.turn = outcome]
  <2>1. /\ h \in Handler /\ h.req \in Requests /\ h.turn = "running"
        /\ g.req = h.req /\ g.conn = h.conn /\ g.turn # "running"
    BY <1>2, <1>7 DEF TypeOK, Handler, Outcome, Turn
  <2>2. /\ handlers' = (handlers \ {h}) \cup {g}
        /\ tried' = tried \cup {h.req}
        /\ UNCHANGED <<wire, queue, unacked, redelivered, drops>>
    BY <1>7 DEF Turn, callVars, brokerVars, boundVars
  <2>3. /\ \A r \in Requests \ {h.req} : turns'[r] = turns[r]
        /\ turns'[h.req] = turns[h.req] \/ turns'[h.req] = turns[h.req] + 1
        /\ \A r \in Requests : turns[r] \in Nat
    BY <1>2, <1>7, <2>1 DEF TypeOK, Turn
  <2> HIDE DEF g
  <2>4. \A r \in Requests : turns'[r] > 0 => r \in tried'
    BY <2>2, <2>3
  <2>5. \A k \in handlers \ {h} : Alive(h) /\ Alive(k) => FALSE
    BY <1>2 DEF TurnsDoNotOverlap
  <2>6. /\ wire' = wire /\ queue' = queue
        /\ \A r \in Requests : /\ Single(r, wire)' = Single(r, wire)
                               /\ Single(r, queue)' = Single(r, queue)
                               /\ InSeq(r, wire') = InSeq(r, wire)
                               /\ InSeq(r, queue') = InSeq(r, queue)
    BY <2>2 DEF Single, InSeq
  <2>7. FreshOnce'
    BY <2>1, <2>2, <2>3, <2>5, <2>6 DEF FreshOnce, Alive
  <2>8. QED
    BY <1>1, <2>4, <2>7
<1>8. ASSUME NEW h \in handlers, Finish(h)
      PROVE  TurnInv'
  <2>1. /\ handlers' = handlers \ {h}
        /\ unacked' = unacked \/ unacked' = NoRequest
        /\ UNCHANGED <<wire, queue, turns, tried, redelivered, drops>>
    BY <1>8 DEF Finish, historyVars, boundVars
  <2>2. \A r \in Requests : /\ Single(r, wire)' = Single(r, wire)
                            /\ Single(r, queue)' = Single(r, queue)
                            /\ InSeq(r, wire') = InSeq(r, wire)
                            /\ InSeq(r, queue') = InSeq(r, queue)
    BY <2>1 DEF Single, InSeq
  <2>3. FreshOnce'
    BY <2>1, <2>2, ChatRpcAssumption DEF FreshOnce, Alive
  <2>4. QED
    BY <1>1, <2>1, <2>3
<1>9. CASE Drop \/ Crash
  <2>1. LoseChannel /\ UNCHANGED <<turns, tried>>
    BY <1>9 DEF Drop, Crash
  <2>2. queue \in Seq(Requests) /\ unacked \in Requests \cup {NoRequest}
    BY <1>2 DEF TypeOK
  <2>3. \A r \in Requests \ redelivered' :
          r \notin redelivered /\ r # unacked /\ unacked' # r
    BY <2>1, ChatRpcAssumption DEF LoseChannel
  <2>4. \A r \in Requests : InSeq(r, queue') <=> r = unacked \/ InSeq(r, queue)
    BY <1>2, <2>1, InRequeued
  <2>5. ASSUME NEW r \in Requests \ redelivered', Single(r, queue)
        PROVE  Single(r, queue)'
    <3>1. CASE unacked = NoRequest
      BY <2>1, <2>5, <3>1 DEF LoseChannel, Single
    <3>2. CASE unacked \in Requests
      BY <2>1, <2>2, <2>3, <2>5, <3>2, SingleFront, ChatRpcAssumption DEF LoseChannel
    <3>3. QED
      BY <2>2, <3>1, <3>2
  <2>6. \A r : ~InSeq(r, wire') /\ Single(r, wire)'
    BY <2>1, InEmpty DEF LoseChannel, Single
  <2>7. \A r \in Requests \ redelivered' : \A h \in handlers' : h.req # r
    BY <1>2, <1>9, <2>3 DEF Drop, Crash, FreshOnce, HandlersKnown
  <2>8. FreshOnce'
    BY <2>1, <2>3, <2>4, <2>5, <2>6, <2>7 DEF FreshOnce
  <2>9. QED
    BY <1>1, <2>1, <2>8
<1>10. ASSUME NEW q \in Requests,
              \/ Call(q) \/ GetChannel(q) \/ AssertReplyQueue(q)
              \/ CallFails(q) \/ Timeout(q)
       PROVE  TurnInv'
  BY <1>3, <1>10
  DEF Call, GetChannel, AssertReplyQueue, CallFails, Timeout, brokerVars,
      historyVars, boundVars
<1>11. CASE \/ Subscribe \/ SubscribeFails \/ Recover
            \/ \E p \in replies : TakeReply(p)
  BY <1>3, <1>11
  DEF Subscribe, SubscribeFails, Recover, TakeReply, brokerVars, historyVars,
      boundVars
<1>12. CASE UNCHANGED vars
  BY <1>3, <1>12 DEF vars, brokerVars, historyVars, boundVars
<1>13. QED
  BY <1>4, <1>5, <1>6, <1>7, <1>8, <1>9, <1>10, <1>11, <1>12
  DEF Next, CallStep, HandlerStep

(***************************************************************************)
(* For any number of requests: a turn is carried out more than once only   *)
(* for a request that was put back by a crash or a lost connection.        *)
(***************************************************************************)
THEOREM TurnsRunOnce == Spec => []TurnOnce
<1>1. TurnInv => TurnOnce
  <2>1. SUFFICES ASSUME TurnInv, NEW q \in Requests, turns[q] > 1
                 PROVE  q \in redelivered
    BY DEF TurnOnce
  <2>2. turns[q] \in Nat
    BY <2>1 DEF TurnInv, SafetyInv, TypeOK
  <2>3. QED
    BY <2>1, <2>2 DEF TurnInv, FreshOnce
<1>2. QED
  BY <1>1, TurnInvInit, TurnInvStep, PTL DEF Spec

-----------------------------------------------------------------------------
(* The promise: requestChat implements ChatPromise. *)

\* What a finished turn and its reply report is so; only who asked waits.
ReportsTrue ==
  /\ \A h \in handlers : h.turn = "ok" => turns[h.req] > 0
  /\ \A p \in replies : IF p.outcome = "ok" THEN turns[p.req] > 0 ELSE p.req \in tried
  /\ \A q \in listening \cup timers : stage[q] # "none"

PromiseInv == SafetyInv /\ ReportsTrue

LEMMA ReportsCall ==
  ASSUME PromiseInv, NEW q \in Requests,
         Call(q) \/ CallStep(q) \/ CallFails(q) \/ Timeout(q)
  PROVE  ReportsTrue'
<1>. USE DEF ReportsTrue, PromiseInv, SafetyInv, TypeOK
<1>1. CASE Call(q)
  BY <1>1 DEF Call, brokerVars, historyVars
<1>2. CASE GetChannel(q)
  BY <1>2 DEF GetChannel, brokerVars, historyVars
<1>3. CASE AssertReplyQueue(q)
  BY <1>3 DEF AssertReplyQueue, brokerVars, historyVars
<1>4. ASSUME NEW full \in BOOLEAN, Publish(q, full)
      PROVE  ReportsTrue'
  BY <1>4 DEF Publish, historyVars
<1>5. CASE CallFails(q)
  BY <1>5 DEF CallFails, brokerVars, historyVars
<1>6. CASE Timeout(q)
  BY <1>6 DEF Timeout, historyVars
<1>7. QED
  BY <1>1, <1>2, <1>3, <1>4, <1>5, <1>6 DEF CallStep

LEMMA ReportsHandler ==
  ASSUME PromiseInv, HandlerStep
  PROVE  ReportsTrue'
<1>. USE DEF ReportsTrue, PromiseInv, SafetyInv, TypeOK
<1>1. ASSUME NEW h \in handlers, NEW outcome \in Outcome, NEW effect \in BOOLEAN,
             Turn(h, outcome, effect)
      PROVE  ReportsTrue'
  <2>1. /\ h.req \in Requests
        /\ handlers' = (handlers \ {h}) \cup {[h EXCEPT !.turn = outcome]}
        /\ UNCHANGED <<listening, timers, stage, replies>>
        /\ tried \subseteq tried'
    BY <1>1 DEF Turn, Handler, callVars, brokerVars
  <2>2. /\ \A r \in Requests : turns[r] > 0 => turns'[r] > 0
        /\ effect => turns'[h.req] > 0
    BY <1>1, <2>1 DEF Turn
  <2>3. [h EXCEPT !.turn = outcome].req = h.req /\ [h EXCEPT !.turn = outcome].turn = outcome
    BY DEF Handler
  <2>4. outcome = "ok" => effect
    BY <1>1 DEF Turn
  <2>5. QED
    BY <2>1, <2>2, <2>3, <2>4 DEF Handler, Reply
<1>2. ASSUME NEW h \in handlers, Finish(h)
      PROVE  ReportsTrue'
  <2>1. /\ h.turn # "running" /\ h.turn \in {"running", "ok", "error"}
        /\ handlers' \subseteq handlers
        /\ replies' \subseteq replies \cup {[req |-> h.req, outcome |-> h.turn]}
        /\ UNCHANGED <<listening, timers, stage, turns, tried>>
    BY <1>2 DEF Finish, Handler, Replied, callVars, historyVars
  <2>2. h.req \in tried
    BY <2>1 DEF HandlersKnown
  <2>3. QED
    BY <2>1, <2>2
<1>3. QED
  BY <1>1, <1>2 DEF HandlerStep

LEMMA PromiseInvStep == PromiseInv /\ [Next]_vars => PromiseInv'
<1>. SUFFICES ASSUME PromiseInv, [Next]_vars
              PROVE  ReportsTrue'
  BY SafetyStep DEF PromiseInv
<1>1. CASE UNCHANGED vars
  BY <1>1 DEF vars, callVars, brokerVars, historyVars, PromiseInv, ReportsTrue
<1>2. ASSUME NEW q \in Requests, Call(q) \/ CallStep(q) \/ CallFails(q) \/ Timeout(q)
      PROVE  ReportsTrue'
  BY <1>2, ReportsCall
<1>3. ASSUME NEW p \in replies, TakeReply(p)
      PROVE  ReportsTrue'
  BY <1>3 DEF TakeReply, historyVars, PromiseInv, ReportsTrue
<1>4. CASE Subscribe \/ SubscribeFails \/ Flush \/ Deliver \/ Recover
  <2>1. /\ UNCHANGED <<listening, timers, stage, replies, turns, tried>>
        /\ \A h \in handlers' : h \in handlers \/ h.turn = "running"
    BY <1>4 DEF Subscribe, SubscribeFails, Flush, Deliver, Recover, Started, callVars,
                brokerVars, historyVars
  <2>2. QED
    BY <2>1 DEF PromiseInv, ReportsTrue
<1>5. CASE HandlerStep
  BY <1>5, ReportsHandler
<1>6. CASE Drop \/ Crash
  BY <1>6 DEF Drop, Crash, LoseChannel, PromiseInv, SafetyInv, TypeOK, ReportsTrue
<1>7. QED
  BY <1>1, <1>2, <1>3, <1>4, <1>5, <1>6 DEF Next

LEMMA PromiseInvHolds == Spec => []PromiseInv
<1>1. Init => PromiseInv
  BY SafetyInit DEF Init, PromiseInv, ReportsTrue
<1>2. QED
  BY <1>1, PromiseInvStep, PTL DEF Spec

-----------------------------------------------------------------------------
\* Settling the promises of some requests is settling those not yet settled.
LEMMA SettledSettles ==
  ASSUME TypeOK, NEW qs \in SUBSET Requests, NEW how \in Promise!Answer,
         answer' = Settled(qs, how),
         UNCHANGED <<turns, tried>>,
         \A q \in Requests : stage'[q] # "none" <=> stage[q] # "none",
         \A q \in qs : stage[q] # "none",
         \A q \in qs : answer[q] = "none" => Promise!SaysSo(q, how)
  PROVE  Promise!Next
<1>. DEFINE open == {q \in qs : answer[q] = "none"}
<1>1. answer' = [q \in Requests |-> IF q \in open THEN how ELSE answer[q]]
  BY DEF Settled
<1>2. {q \in Requests : stage[q] # "none"}' = {q \in Requests : stage[q] # "none"}
  OBVIOUS
<1>3. Promise!Settle(open, how)
  BY <1>1, <1>2 DEF Promise!Settle
<1>4. open \in SUBSET Requests
  OBVIOUS
<1>5. QED
  BY <1>3, <1>4 DEF Promise!Next

\* A step that settles nothing, ends no turn and makes no request.
LEMMA NothingSettled ==
  ASSUME UNCHANGED <<answer, turns, tried>>,
         \A q \in Requests : stage'[q] # "none" <=> stage[q] # "none"
  PROVE  UNCHANGED Promise!vars
BY DEF Promise!vars

LEMMA PromiseCall ==
  ASSUME PromiseInv, NEW q \in Requests,
         Call(q) \/ CallStep(q) \/ CallFails(q) \/ Timeout(q)
  PROVE  [Promise!Next]_(Promise!vars)
<1>. USE DEF PromiseInv, SafetyInv
<1>1. CASE Call(q)
  <2>1. stage' = [stage EXCEPT ![q] = "channel"] /\ stage[q] = "none"
        /\ UNCHANGED <<answer, turns, tried>>
    BY <1>1 DEF Call, historyVars
  <2>2. {r \in Requests : stage[r] # "none"}' = {r \in Requests : stage[r] # "none"} \cup {q}
    BY <2>1 DEF TypeOK
  <2>3. Promise!Ask(q)
    BY <2>1, <2>2 DEF Promise!Ask
  <2>4. QED
    BY <2>3 DEF Promise!Next
<1>2. CASE GetChannel(q) \/ AssertReplyQueue(q)
  <2>1. UNCHANGED <<answer, turns, tried>>
        /\ \A r \in Requests : stage'[r] # "none" <=> stage[r] # "none"
    BY <1>2 DEF GetChannel, AssertReplyQueue, historyVars, TypeOK
  <2>2. QED
    BY <2>1, NothingSettled
<1>3. ASSUME NEW full \in BOOLEAN, Publish(q, full)
      PROVE  [Promise!Next]_(Promise!vars)
  <2>1. /\ UNCHANGED <<turns, tried>>
        /\ stage[q] # "none"
        /\ \A r \in Requests : stage'[r] # "none" <=> stage[r] # "none"
    BY <1>3 DEF Publish, historyVars, TypeOK
  <2>2. CASE full
    BY <1>3, <2>1, <2>2, SettledSettles DEF Publish, Promise!Answer, Promise!SaysSo
  <2>3. CASE ~full
    BY <1>3, <2>1, <2>3, NothingSettled DEF Publish
  <2>4. QED
    BY <2>2, <2>3
<1>4. CASE CallFails(q)
  <2>1. /\ UNCHANGED <<turns, tried>>
        /\ stage[q] \in {"channel", "assert", "consume"}
        /\ \A r \in Requests : stage'[r] # "none" <=> stage[r] # "none"
        /\ answer' = Settled({q}, "failed")
    BY <1>4 DEF CallFails, historyVars, TypeOK
  <2>2. q \notin tried
    BY <2>1 DEF OnlyPublished
  <2>3. QED
    BY <2>1, <2>2, SettledSettles DEF Promise!Answer, Promise!SaysSo
<1>5. CASE Timeout(q)
  <2>1. /\ UNCHANGED <<turns, tried, stage>>
        /\ stage[q] # "none"
        /\ answer' = Settled({q}, "timeout")
    BY <1>5 DEF Timeout, historyVars, ReportsTrue
  <2>2. QED
    BY <2>1, SettledSettles DEF Promise!Answer, Promise!SaysSo
<1>6. QED
  BY <1>1, <1>2, <1>3, <1>4, <1>5 DEF CallStep

LEMMA PromiseTurn ==
  ASSUME PromiseInv, HandlerStep
  PROVE  [Promise!Next]_(Promise!vars)
<1>. USE DEF PromiseInv, SafetyInv
<1>1. ASSUME NEW h \in handlers, NEW outcome \in Outcome, NEW effect \in BOOLEAN,
             Turn(h, outcome, effect)
      PROVE  [Promise!Next]_(Promise!vars)
  <2>1. /\ h.req \in Requests /\ stage[h.req] = "sent" /\ answer[h.req] # "failed"
        /\ UNCHANGED <<answer, stage>>
        /\ tried' = tried \cup {h.req}
    BY <1>1 DEF Turn, TypeOK, Handler, HandlersKnown, OnlyPublished, callVars
  <2>2. turns' = IF effect THEN [turns EXCEPT ![h.req] = turns[h.req] + 1] ELSE turns
    BY <1>1 DEF Turn
  <2>3. {q \in Requests : turns[q] > 0}' =
          IF effect THEN {q \in Requests : turns[q] > 0} \cup {h.req}
                    ELSE {q \in Requests : turns[q] > 0}
    BY <2>1, <2>2 DEF TypeOK
  <2>4. Promise!Try(h.req, effect)
    BY <2>1, <2>3 DEF Promise!Try
  <2>5. QED
    BY <2>1, <2>4 DEF Promise!Next
<1>2. ASSUME NEW h \in handlers, Finish(h)
      PROVE  [Promise!Next]_(Promise!vars)
  BY <1>2, NothingSettled DEF Finish, callVars, historyVars
<1>3. QED
  BY <1>1, <1>2 DEF HandlerStep

LEMMA PromiseLoss ==
  ASSUME PromiseInv, Drop \/ Crash
  PROVE  Promise!Next
<1>. USE DEF PromiseInv, SafetyInv
<1>1. CASE Drop
  <2>. DEFINE pending == {q \in Requests : stage[q] \in {"channel", "assert", "consume"}}
  <2>1. /\ UNCHANGED <<turns, tried>>
        /\ \A q \in Requests : stage'[q] # "none" <=> stage[q] # "none"
        /\ answer' = Settled(pending, "failed")
    BY <1>1 DEF Drop
  <2>2. \A q \in pending : stage[q] # "none" /\ q \notin tried
    BY DEF OnlyPublished
  <2>3. QED
    BY <2>1, <2>2, SettledSettles DEF Promise!Answer, Promise!SaysSo
<1>2. CASE Crash
  <2>1. /\ UNCHANGED <<turns, tried>>
        /\ \A q \in Requests : stage'[q] # "none" <=> stage[q] # "none"
        /\ answer' = Settled({q \in Requests : stage[q] # "none"}, "cut")
    BY <1>2 DEF Crash
  <2>2. QED
    BY <2>1, SettledSettles DEF Promise!Answer, Promise!SaysSo
<1>3. QED
  BY <1>1, <1>2

LEMMA PromiseStep ==
  PromiseInv /\ [Next]_vars => [Promise!Next]_(Promise!vars)
<1>. SUFFICES ASSUME PromiseInv, [Next]_vars
              PROVE  [Promise!Next]_(Promise!vars)
  OBVIOUS
<1>1. CASE UNCHANGED vars
  BY <1>1, NothingSettled DEF vars, callVars, historyVars
<1>2. ASSUME NEW q \in Requests, Call(q) \/ CallStep(q) \/ CallFails(q) \/ Timeout(q)
      PROVE  [Promise!Next]_(Promise!vars)
  BY <1>2, PromiseCall
<1>3. ASSUME NEW p \in replies, TakeReply(p)
      PROVE  [Promise!Next]_(Promise!vars)
  <2>1. /\ p.req \in Requests /\ p.outcome \in {"ok", "error"}
        /\ UNCHANGED <<stage, turns, tried>>
        /\ answer' = Settled({p.req}, p.outcome)
        /\ stage[p.req] # "none"
    BY <1>3 DEF TakeReply, PromiseInv, SafetyInv, TypeOK, Reply, ReportsTrue, historyVars
  <2>2. Promise!SaysSo(p.req, p.outcome)
    BY <2>1 DEF PromiseInv, ReportsTrue, Promise!SaysSo
  <2>3. QED
    BY <2>1, <2>2, SettledSettles DEF Promise!Answer, PromiseInv, SafetyInv
<1>4. CASE Subscribe \/ SubscribeFails \/ Flush \/ Deliver \/ Recover
  BY <1>4, NothingSettled DEF Subscribe, SubscribeFails, Flush, Deliver, Recover, callVars,
                              historyVars
<1>5. CASE HandlerStep
  BY <1>5, PromiseTurn
<1>6. CASE Drop \/ Crash
  BY <1>6, PromiseLoss
<1>7. QED
  BY <1>1, <1>2, <1>3, <1>4, <1>5, <1>6 DEF Next

(***************************************************************************)
(* For any number of requests, crashes and lost connections requestChat    *)
(* implements the safety part of its promise: an answer is given at most   *)
(* once, to who asked, and says of the turn only what is so; a call that   *)
(* failed has no effect, then or later.                                    *)
(***************************************************************************)
THEOREM PromiseKept == Spec => Promise!Safety
<1>1. Init => Promise!Init
  BY DEF Init, Promise!Init
<1>2. QED
  BY <1>1, PromiseInvHolds, PromiseStep, PTL DEF Spec, Promise!Safety
=============================================================================
