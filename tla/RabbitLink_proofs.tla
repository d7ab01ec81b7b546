--------------------------- MODULE RabbitLink_proofs ---------------------------
(***************************************************************************)
(* Proofs about RabbitLink: the channel handed out is open, links are      *)
(* accounted for, and an undisturbed shutdown releases everything, for any *)
(* number of requests, losses and errors.                                  *)
(***************************************************************************)
EXTENDS RabbitLink, TLAPS

\* The attempt works on a link it made, and is the only way to a channel; a channel
\* it has created is open, or the attempt knows that it is gone.
AttemptKnown ==
  /\ connecting.at \in {"channel", "queue"} => connecting.link \in Made
  /\ connecting.at = "queue" => connecting.link \in channels
  /\ connecting.at # "no" => channel = 0
  /\ connection # 0 => connection \in Made

\* What shutdown closes was there when it looked.
StoppingKnown ==
  /\ stopping.at = "connection" => stopping.link \in Made
  /\ stopping.at # "no" => asking["stop"].is = "done"

LinkInv == RabbitTypeOK /\ AttemptKnown /\ StoppingKnown /\ ChannelIsOpen

\* The next caller, or the attempt under way, will make a link.
LinkNeeded == channel = 0 /\ connecting.at \in {"no", "connect", "broken"}

\* How often the shutdown may yet empty the channel, and what the account grants it.
Emptyings ==
  IF asking["stop"].is = "none" \/ stopping.at = "done" THEN 0
  ELSE IF stopping.at = "connection" THEN 1 ELSE 2

Needed == IF LinkNeeded THEN 1 ELSE 0

Granted == IF asking["stop"].is = "none" THEN 0 ELSE 2

AccountInv == Len(links) + Needed + Emptyings <= 1 + losses + errors + Granted

\* Nothing was lost, nothing failed, and nobody needed the channel during a shutdown.
Calm == ~late /\ losses = 0 /\ errors = 0

\* Before the shutdown there is the first link, on its way to a channel or with it.
NoLink ==
  /\ links = <<>> /\ connection = 0 /\ channel = 0 /\ channels = {}
  /\ consumers = {} /\ consumerTag = 0
  /\ connecting.at \in {"no", "connect"}

HalfLink ==
  /\ links = <<"up">> /\ connection = 1 /\ channel = 0
  /\ consumers = {} /\ consumerTag = 0
  /\ connecting.at \in {"channel", "queue"} /\ connecting.link = 1

WholeLink ==
  /\ links = <<"up">> /\ connection = 1 /\ channel = 1 /\ 1 \in channels
  /\ consumers = IF consumerTag = 1 THEN {1} ELSE {}
  /\ consumerTag \in {0, 1}
  /\ connecting.at = "no"

Starting ==
  /\ asking["stop"].is = "none" /\ stopping.at = "no"
  /\ NoLink \/ HalfLink \/ WholeLink
  /\ \A f \in Users : asking[f].is # "refused"
  /\ \A f \in Users : asking[f].is = "has" => asking[f].link = 1 /\ WholeLink
  /\ asking["init"].is = "done" => consumerTag = 1

\* During it, and after it.
Closing ==
  /\ asking["init"].is = "done"
  /\ \A f \in Users : asking[f].is # "waiting"
  /\ connecting.at = "no"
  /\ asking["stop"].is # "none"
  /\ \/ /\ asking["stop"].is = "has" /\ asking["stop"].link = 1
        /\ stopping.at = "no" /\ WholeLink /\ consumerTag = 1
     \/ /\ asking["stop"].is = "done" /\ stopping = [at |-> "channel", link |-> 1]
        /\ WholeLink /\ consumerTag = 0
     \/ /\ asking["stop"].is = "done" /\ stopping = [at |-> "connection", link |-> 1]
        /\ links = <<"up">> /\ consumers = {} /\ consumerTag = 0
     \/ /\ asking["stop"].is = "done" /\ stopping.at = "done"
        /\ links = <<"closed">> /\ consumers = {}

CalmInv == Calm => Starting \/ Closing

-----------------------------------------------------------------------------
\* The sets the variables are from.
Statuses == {"up", "recovering", "closed"}
Attempt == [at : {"no", "connect", "channel", "queue", "broken"}, link : Nat]

\* A link that changes its status is still one of the links.
LEMMA LinkChanges ==
  ASSUME RabbitTypeOK, NEW l \in Made, NEW s \in Statuses,
         links' = [links EXCEPT ![l] = s]
  PROVE  /\ links' \in Seq(Statuses) /\ Len(links') = Len(links)
         /\ Made' = Made /\ Made = 1 .. Len(links)
  BY DEF RabbitTypeOK, Made, Statuses

LEMMA LinkMade ==
  ASSUME RabbitTypeOK, links' = Append(links, "up")
  PROVE  /\ links' \in Seq(Statuses) /\ Len(links') = Len(links) + 1
         /\ Made \subseteq Made' /\ Len(links') \in Made' /\ Len(links') \in Nat \ {0}
  BY DEF RabbitTypeOK, Made, Statuses

LEMMA MadeAreNumbers ==
  ASSUME RabbitTypeOK
  PROVE  Made = 1 .. Len(links) /\ Made \subseteq Nat \ {0} /\ Len(links) \in Nat
  BY DEF RabbitTypeOK, Made

\* Asking leaves the links alone and can only begin an attempt.
LEMMA AskBegins ==
  ASSUME LinkInv, NEW f \in Users, Ask(f)
  PROVE  /\ asking' \in [Users -> Asking] /\ connecting' \in Attempt
         /\ \A g \in Users \ {f} : asking'[g] = asking[g]
         /\ \/ /\ channel # 0 /\ connecting' = connecting
               /\ asking'[f] = [is |-> "has", link |-> channel]
            \/ /\ channel = 0 /\ connecting' = connecting /\ connecting.at # "no"
               /\ asking'[f] = [is |-> "waiting", link |-> 0]
            \/ /\ channel = 0 /\ connecting.at = "no"
               /\ connecting' = [at |-> "connect", link |-> 0]
               /\ asking'[f] = [is |-> "waiting", link |-> 0]
<1>1. /\ channel \in Nat /\ asking \in [Users -> Asking] /\ connecting \in Attempt
      /\ channel # 0 => connecting.at = "no"
  BY DEF LinkInv, RabbitTypeOK, AttemptKnown, Attempt
<1>2. CASE channel # 0
  <2>1. asking' = [asking EXCEPT ![f] = [is |-> "has", link |-> channel]]
        /\ connecting' = connecting
    BY <1>2 DEF Ask
  <2>2. QED
    BY <1>1, <1>2, <2>1 DEF Asking
<1>3. CASE channel = 0
  <2>1. /\ asking' = [asking EXCEPT ![f] = [is |-> "waiting", link |-> 0]]
        /\ connecting' = IF connecting.at = "no" THEN [at |-> "connect", link |-> 0]
                         ELSE connecting
    BY <1>3 DEF Ask
  <2>2. asking' \in [Users -> Asking] /\ asking'[f] = [is |-> "waiting", link |-> 0]
        /\ \A g \in Users \ {f} : asking'[g] = asking[g]
    BY <1>1, <2>1 DEF Asking
  <2>3. QED
    BY <1>1, <1>3, <2>1, <2>2 DEF Attempt
<1>4. QED
  BY <1>2, <1>3

LEMMA ToldType ==
  ASSUME RabbitTypeOK, NEW what \in {"has", "refused"}, NEW l \in Nat, asking' = Told(what, l)
  PROVE  /\ asking' \in [Users -> Asking]
         /\ \A f \in Users : IF asking[f].is = "waiting"
                             THEN asking'[f] = [is |-> what, link |-> l]
                             ELSE asking'[f] = asking[f]
  BY DEF RabbitTypeOK, Told, Asking

\* A lost channel ends the attempt that was about to hand it out.
LEMMA ChannelLost ==
  ASSUME RabbitTypeOK, NEW l \in Nat, ChannelGone(l)
  PROVE  /\ channels' = channels \ {l} /\ consumers' = consumers \ {l}
         /\ connecting' \in Attempt
         /\ \/ /\ connecting' = connecting
               /\ connecting.at \in {"channel", "queue"} => connecting.link # l
            \/ /\ connecting.at \in {"channel", "queue"} /\ connecting.link = l
               /\ connecting'.at = "broken"
  BY DEF ChannelGone, RabbitTypeOK, Attempt

\* The parts of the invariant that a step which loses the channel of l keeps.
LEMMA LossKeeps ==
  ASSUME LinkInv, NEW l \in Made, ChannelGone(l), Made' = Made,
         channel' = 0 \/ (channel' = channel /\ channel # l),
         connection' = 0 \/ connection' = connection
  PROVE  /\ channels' \subseteq Made' /\ consumers' \subseteq Made'
         /\ connecting' \in Attempt /\ channel' \in Nat /\ connection' \in Nat
         /\ AttemptKnown' /\ ChannelIsOpen'
<1>1. l \in Nat
  BY MadeAreNumbers DEF LinkInv
<1>2. /\ channels' = channels \ {l} /\ consumers' = consumers \ {l}
      /\ connecting' \in Attempt
      /\ \/ /\ connecting' = connecting
            /\ connecting.at \in {"channel", "queue"} => connecting.link # l
         \/ connecting.at \in {"channel", "queue"} /\ connecting'.at = "broken"
  BY <1>1, ChannelLost DEF LinkInv
<1>3. QED
  BY <1>2 DEF LinkInv, RabbitTypeOK, AttemptKnown, ChannelIsOpen

LEMMA LinkInvInit == RabbitInit => LinkInv
<1>1. SUFFICES ASSUME RabbitInit PROVE LinkInv
  OBVIOUS
<1>2. asking \in [Users -> Asking] /\ asking["stop"].is = "none"
  BY <1>1 DEF RabbitInit, Asking, Users
<1>3. losses \in 0 .. MaxLosses /\ errors \in 0 .. MaxErrors
  BY <1>1, RabbitAssumption DEF RabbitInit
<1>4. links \in Seq(Statuses) /\ Made = {}
  BY <1>1 DEF RabbitInit, Statuses, Made
<1>5. RabbitTypeOK
  BY <1>1, <1>2, <1>3, <1>4 DEF RabbitInit, RabbitTypeOK, NoAttempt, Statuses
<1>6. QED
  BY <1>1, <1>5 DEF RabbitInit, LinkInv, AttemptKnown, StoppingKnown, ChannelIsOpen, NoAttempt


\* The attempt's own steps.
LEMMA AttemptStep ==
  ASSUME LinkInv, Connected \/ ChannelCreated \/ QueueAsserted \/ AttemptFails
  PROVE  LinkInv'
<1>. USE DEF LinkInv
<1>1. Made = 1 .. Len(links) /\ Made \subseteq Nat \ {0} /\ Len(links) \in Nat
  BY MadeAreNumbers
<1>2. CASE Connected
  <2>1. /\ links' \in Seq(Statuses) /\ Made \subseteq Made'
        /\ Len(links') \in Made' /\ Len(links') \in Nat \ {0}
    BY <1>2, LinkMade DEF Connected
  <2>2. /\ connection' = Len(links') /\ connecting' = [at |-> "channel", link |-> Len(links')]
        /\ connecting.at = "connect"
        /\ UNCHANGED <<channel, channels, consumers, consumerTag, asking, stopping, late,
                       rabbitBounds>>
    BY <1>2 DEF Connected
  <2>3. RabbitTypeOK'
    BY <2>1, <2>2 DEF RabbitTypeOK, Statuses, rabbitBounds
  <2>4. AttemptKnown' /\ StoppingKnown' /\ ChannelIsOpen'
    BY <2>1, <2>2 DEF AttemptKnown, StoppingKnown, ChannelIsOpen
  <2>5. QED
    BY <2>3, <2>4
<1>3. CASE ChannelCreated
  <2>1. /\ connecting.at = "channel" /\ connecting' = [connecting EXCEPT !.at = "queue"]
        /\ channels' = channels \cup {connecting.link} /\ Made' = Made
        /\ UNCHANGED <<connection, channel, links, consumers, consumerTag, asking, stopping,
                       late, rabbitBounds>>
    BY <1>3 DEF ChannelCreated, Made
  <2>2. /\ connecting' \in Attempt /\ connecting'.at = "queue"
        /\ connecting'.link = connecting.link /\ connecting.link \in Made
    BY <2>1 DEF RabbitTypeOK, Attempt, AttemptKnown
  <2>3. RabbitTypeOK'
    BY <2>1, <2>2 DEF RabbitTypeOK, Attempt, rabbitBounds
  <2>4. QED
    BY <2>1, <2>2, <2>3 DEF AttemptKnown, StoppingKnown, ChannelIsOpen
<1>4. CASE QueueAsserted
  <2>1. /\ connecting.at = "queue" /\ connecting' = NoAttempt /\ channel' = connecting.link
        /\ asking' = Told("has", connecting.link) /\ Made' = Made
        /\ UNCHANGED <<connection, links, channels, consumers, consumerTag, stopping, late,
                       rabbitBounds>>
    BY <1>4 DEF QueueAsserted, Made
  <2>2. connecting.link \in channels /\ connecting.link \in Nat
    BY <2>1 DEF AttemptKnown, RabbitTypeOK
  <2>3. /\ asking' \in [Users -> Asking]
        /\ asking["stop"].is = "done" => asking'["stop"].is = "done"
    BY <2>1, <2>2, ToldType DEF Users
  <2>4. RabbitTypeOK'
    BY <2>1, <2>2, <2>3 DEF RabbitTypeOK, NoAttempt, rabbitBounds
  <2>5. QED
    BY <2>1, <2>2, <2>3, <2>4 DEF AttemptKnown, StoppingKnown, ChannelIsOpen, NoAttempt
<1>5. CASE AttemptFails
  <2>1. /\ connecting' = NoAttempt /\ channel' = 0 /\ connection' = 0
        /\ asking' = Told("refused", 0) /\ Made' = Made
        /\ UNCHANGED <<links, channels, consumers, consumerTag, stopping, late, losses>>
    BY <1>5 DEF AttemptFails, Made
  <2>2. errors' \in 0 .. MaxErrors
    BY <1>5, RabbitAssumption DEF AttemptFails, Error, RabbitTypeOK
  <2>3. /\ asking' \in [Users -> Asking]
        /\ asking["stop"].is = "done" => asking'["stop"].is = "done"
    BY <2>1, ToldType DEF Users
  <2>4. RabbitTypeOK'
    BY <2>1, <2>2, <2>3 DEF RabbitTypeOK, NoAttempt
  <2>5. QED
    BY <2>1, <2>3, <2>4 DEF AttemptKnown, StoppingKnown, ChannelIsOpen, NoAttempt
<1>6. QED
  BY <1>2, <1>3, <1>4, <1>5

\* Losses, and what comes back of them.
LEMMA LossStep ==
  ASSUME LinkInv, NEW l \in Made, NEW again \in BOOLEAN,
         DropLink(l) \/ CloseChannel(l) \/ RecoverLink(l, again)
  PROVE  LinkInv'
<1>. USE DEF LinkInv
<1>1. CASE DropLink(l)
  <2>1. /\ links' = [links EXCEPT ![l] = "recovering"] /\ ChannelGone(l) /\ channel' = 0
        /\ UNCHANGED <<connection, consumerTag, asking, stopping, late, errors>>
    BY <1>1 DEF DropLink
  <2>2. links' \in Seq(Statuses) /\ Made' = Made
    BY <2>1, LinkChanges DEF Statuses
  <2>3. losses' \in 0 .. MaxLosses
    BY <1>1, RabbitAssumption DEF DropLink, Loss, RabbitTypeOK
  <2>4. /\ channels' \subseteq Made' /\ consumers' \subseteq Made'
        /\ connecting' \in Attempt /\ AttemptKnown' /\ ChannelIsOpen'
    BY <2>1, <2>2, LossKeeps
  <2>5. RabbitTypeOK'
    BY <2>1, <2>2, <2>3, <2>4 DEF RabbitTypeOK, Attempt, Statuses
  <2>6. QED
    BY <2>1, <2>2, <2>4, <2>5 DEF StoppingKnown
<1>2. CASE CloseChannel(l)
  <2>1. /\ ChannelGone(l) /\ channel' = 0 /\ Made' = Made
        /\ UNCHANGED <<connection, links, consumerTag, asking, stopping, late, errors>>
    BY <1>2 DEF CloseChannel, Made
  <2>2. losses' \in 0 .. MaxLosses
    BY <1>2, RabbitAssumption DEF CloseChannel, Loss, RabbitTypeOK
  <2>3. /\ channels' \subseteq Made' /\ consumers' \subseteq Made'
        /\ connecting' \in Attempt /\ AttemptKnown' /\ ChannelIsOpen'
    BY <2>1, LossKeeps
  <2>4. RabbitTypeOK'
    BY <2>1, <2>2, <2>3 DEF RabbitTypeOK, Attempt
  <2>5. QED
    BY <2>1, <2>3, <2>4 DEF StoppingKnown
<1>3. CASE RecoverLink(l, again)
  <2>1. /\ links' = [links EXCEPT ![l] = "up"]
        /\ consumers' \subseteq consumers \cup {l}
        /\ UNCHANGED <<connection, channel, connecting, channels, consumerTag, asking,
                       stopping, late, rabbitBounds>>
    BY <1>3 DEF RecoverLink
  <2>2. links' \in Seq(Statuses) /\ Made' = Made
    BY <2>1, LinkChanges DEF Statuses
  <2>3. RabbitTypeOK'
    BY <2>1, <2>2 DEF RabbitTypeOK, Statuses, rabbitBounds
  <2>4. QED
    BY <2>1, <2>2, <2>3 DEF AttemptKnown, StoppingKnown, ChannelIsOpen
<1>4. QED
  BY <1>1, <1>2, <1>3

\* Who asks for the channel, and the boot's subscription.
LEMMA UserStep ==
  ASSUME LinkInv,
         \/ \E f \in Askers : RequestChannel(f)
         \/ InitBroker
         \/ \E ok \in BOOLEAN : Consume(ok)
  PROVE  LinkInv'
<1>. USE DEF LinkInv
<1>1. ASSUME NEW f \in Users \ {"stop"}, Ask(f), late' \in BOOLEAN,
             UNCHANGED <<connection, channel, links, channels, consumers, consumerTag,
                         stopping, rabbitBounds>>
      PROVE  LinkInv'
  <2>1. /\ asking' \in [Users -> Asking] /\ connecting' \in Attempt
        /\ asking'["stop"] = asking["stop"]
        /\ \/ connecting' = connecting
           \/ channel = 0 /\ connecting' = [at |-> "connect", link |-> 0]
    BY <1>1, AskBegins DEF Users
  <2>2. Made' = Made
    BY <1>1 DEF Made
  <2>3. RabbitTypeOK'
    BY <1>1, <2>1, <2>2 DEF RabbitTypeOK, Attempt, rabbitBounds
  <2>4. QED
    BY <1>1, <2>1, <2>2, <2>3 DEF AttemptKnown, StoppingKnown, ChannelIsOpen
<1>2. late \in BOOLEAN
  BY DEF RabbitTypeOK
<1>3. ASSUME NEW f \in Askers, RequestChannel(f)
      PROVE  LinkInv'
  <2>1. f \in Users \ {"stop"}
    BY RabbitAssumption DEF Users
  <2>2. late' \in BOOLEAN
    BY <1>3 DEF RequestChannel
  <2>3. QED
    BY <1>1, <1>3, <2>1, <2>2 DEF RequestChannel
<1>4. CASE InitBroker
  <2>1. "init" \in Users \ {"stop"}
    BY DEF Users
  <2>2. late' \in BOOLEAN
    BY <1>4 DEF InitBroker
  <2>3. QED
    BY <1>1, <1>4, <2>1, <2>2 DEF InitBroker
<1>5. ASSUME NEW ok \in BOOLEAN, Consume(ok)
      PROVE  LinkInv'
  <2>1. /\ asking["init"].is = "has"
        /\ asking' = [asking EXCEPT !["init"].is = "done"]
        /\ UNCHANGED <<linkVars, stopping, late, losses>> /\ Made' = Made
    BY <1>5 DEF Consume, linkVars, Made
  <2>2. asking' \in [Users -> Asking] /\ asking'["stop"] = asking["stop"]
    BY <2>1 DEF RabbitTypeOK, Asking, Users
  <2>3. consumers' \subseteq Made /\ consumerTag' \in Nat
    BY <1>5, MadeAreNumbers DEF Consume, RabbitTypeOK
  <2>4. errors' \in 0 .. MaxErrors
    BY <1>5, RabbitAssumption DEF Consume, Error, RabbitTypeOK
  <2>5. RabbitTypeOK'
    BY <2>1, <2>2, <2>3, <2>4 DEF RabbitTypeOK, linkVars
  <2>6. QED
    BY <2>1, <2>2, <2>5 DEF AttemptKnown, StoppingKnown, ChannelIsOpen, linkVars
<1>6. QED
  BY <1>3, <1>4, <1>5

\* What shutdown would close next is a link that was made.
LEMMA NextCloses ==
  ASSUME LinkInv
  PROVE  /\ CloseNext \in [at : {"channel", "connection", "done"}, link : Nat]
         /\ CloseConnection \in [at : {"connection", "done"}, link : Nat]
         /\ CloseNext.at = "connection" => CloseNext.link \in Made
         /\ CloseConnection.at = "connection" => CloseConnection.link \in Made
  BY DEF LinkInv, RabbitTypeOK, AttemptKnown, CloseNext, CloseConnection, Over

\* Shutdown asks, cancels, and closes.
LEMMA ShutdownStep ==
  ASSUME LinkInv,
         \/ Shutdown
         \/ \E ok \in BOOLEAN : Cancel(ok)
         \/ ChannelClosed \/ ConnectionClosed \/ CloseFails
  PROVE  LinkInv'
<1>. USE DEF LinkInv
<1>1. "stop" \in Users
  BY DEF Users
<1>2. CASE Shutdown
  <2>1. /\ asking["stop"].is = "none" /\ stopping.at = "no" /\ Made' = Made
        /\ UNCHANGED <<connection, channel, links, channels, consumers, consumerTag,
                       rabbitBounds>>
    BY <1>2 DEF Shutdown, StoppingKnown, Made
  <2>2. late' \in BOOLEAN
    BY <1>2 DEF Shutdown, RabbitTypeOK
  <2>3. CASE consumerTag # 0
    <3>1. Ask("stop") /\ stopping' = stopping
      BY <1>2, <2>3 DEF Shutdown
    <3>2. /\ asking' \in [Users -> Asking] /\ connecting' \in Attempt
          /\ \/ connecting' = connecting
             \/ channel = 0 /\ connecting' = [at |-> "connect", link |-> 0]
      BY <1>1, <3>1, AskBegins
    <3>3. RabbitTypeOK'
      BY <2>1, <2>2, <3>1, <3>2 DEF RabbitTypeOK, Attempt, rabbitBounds
    <3>4. QED
      BY <2>1, <3>1, <3>2, <3>3 DEF AttemptKnown, StoppingKnown, ChannelIsOpen
  <2>4. CASE consumerTag = 0
    <3>1. /\ asking' = [asking EXCEPT !["stop"].is = "done"]
          /\ stopping' = CloseNext /\ connecting' = connecting
      BY <1>2, <2>4 DEF Shutdown
    <3>2. asking' \in [Users -> Asking] /\ asking'["stop"].is = "done"
      BY <1>1, <3>1 DEF RabbitTypeOK, Asking
    <3>3. /\ stopping' \in [at : {"channel", "connection", "done"}, link : Nat]
          /\ stopping'.at = "connection" => stopping'.link \in Made
      BY <3>1, NextCloses
    <3>4. RabbitTypeOK'
      BY <2>1, <2>2, <3>1, <3>2, <3>3 DEF RabbitTypeOK, rabbitBounds
    <3>5. QED
      BY <2>1, <3>1, <3>2, <3>3, <3>4 DEF AttemptKnown, StoppingKnown, ChannelIsOpen
  <2>5. QED
    BY <2>3, <2>4
<1>3. ASSUME NEW ok \in BOOLEAN, Cancel(ok)
      PROVE  LinkInv'
  <2>1. /\ asking' = [asking EXCEPT !["stop"].is = "done"] /\ consumerTag' = 0
        /\ UNCHANGED <<linkVars, late, losses>> /\ Made' = Made
    BY <1>3 DEF Cancel, linkVars, Made
  <2>2. asking' \in [Users -> Asking] /\ asking'["stop"].is = "done"
    BY <1>1, <2>1 DEF RabbitTypeOK, Asking
  <2>3. stopping' \in {CloseNext, Over} /\ consumers' \subseteq consumers
    BY <1>3 DEF Cancel
  <2>4. errors' \in 0 .. MaxErrors
    BY <1>3, RabbitAssumption DEF Cancel, Error, RabbitTypeOK
  <2>5. /\ stopping' \in [at : {"channel", "connection", "done"}, link : Nat]
        /\ stopping'.at = "connection" => stopping'.link \in Made
    BY <2>3, NextCloses DEF Over
  <2>6. RabbitTypeOK'
    BY <2>1, <2>2, <2>3, <2>4, <2>5 DEF RabbitTypeOK, linkVars
  <2>7. QED
    BY <2>1, <2>2, <2>5, <2>6 DEF AttemptKnown, StoppingKnown, ChannelIsOpen, linkVars
<1>4. CASE ChannelClosed
  <2>1. /\ stopping.link \in channels /\ ChannelGone(stopping.link) /\ channel' = 0
        /\ stopping.at = "channel" /\ stopping' = CloseConnection /\ Made' = Made
        /\ UNCHANGED <<connection, links, consumerTag, asking, late, rabbitBounds>>
    BY <1>4 DEF ChannelClosed, Made
  <2>2. /\ stopping.link \in Made
        /\ stopping' \in [at : {"connection", "done"}, link : Nat]
        /\ stopping'.at = "connection" => stopping'.link \in Made
    BY <2>1, NextCloses DEF RabbitTypeOK
  <2>3. /\ channels' \subseteq Made' /\ consumers' \subseteq Made'
        /\ connecting' \in Attempt /\ AttemptKnown' /\ ChannelIsOpen'
    BY <2>1, <2>2, LossKeeps
  <2>4. RabbitTypeOK'
    BY <2>1, <2>2, <2>3 DEF RabbitTypeOK, Attempt, rabbitBounds
  <2>5. QED
    BY <2>1, <2>2, <2>3, <2>4 DEF StoppingKnown
<1>5. CASE ConnectionClosed
  <2>1. PICK l : l = stopping.link
    OBVIOUS
  <2>2. /\ stopping.at = "connection" /\ links' = [links EXCEPT ![l] = "closed"]
        /\ ChannelGone(l) /\ channel' = (IF l \in channels THEN 0 ELSE channel)
        /\ connection' = 0 /\ stopping' = Over
        /\ UNCHANGED <<consumerTag, asking, late, rabbitBounds>>
    BY <1>5, <2>1 DEF ConnectionClosed
  <2>3. l \in Made
    BY <2>1, <2>2 DEF StoppingKnown
  <2>4. links' \in Seq(Statuses) /\ Made' = Made
    BY <2>2, <2>3, LinkChanges DEF Statuses
  <2>5. /\ channels' \subseteq Made' /\ consumers' \subseteq Made' /\ channel' \in Nat
        /\ connecting' \in Attempt /\ AttemptKnown' /\ ChannelIsOpen'
    <3>1. channel' \in {0, channel} \ {l}
      BY <2>2, <2>3 DEF RabbitTypeOK, Made, ChannelIsOpen
    <3>2. QED
      BY <2>2, <2>3, <2>4, <3>1, LossKeeps
  <2>6. RabbitTypeOK'
    BY <2>2, <2>4, <2>5 DEF RabbitTypeOK, Attempt, Statuses, Over, rabbitBounds
  <2>7. QED
    BY <2>2, <2>5, <2>6 DEF StoppingKnown, Over
<1>6. CASE CloseFails
  <2>1. /\ channel' = 0 /\ connection' = 0 /\ stopping' = Over /\ Made' = Made
        /\ stopping.at \in {"channel", "connection"}
        /\ UNCHANGED <<connecting, links, channels, consumers, consumerTag, asking, late,
                       losses>>
    BY <1>6 DEF CloseFails, Made
  <2>2. errors' \in 0 .. MaxErrors
    BY <1>6, RabbitAssumption DEF CloseFails, Error, RabbitTypeOK
  <2>3. RabbitTypeOK'
    BY <2>1, <2>2 DEF RabbitTypeOK, Over
  <2>4. QED
    BY <2>1, <2>3 DEF AttemptKnown, StoppingKnown, ChannelIsOpen, Over
<1>7. QED
  BY <1>2, <1>3, <1>4, <1>5, <1>6

LEMMA LinkInvStep == LinkInv /\ [RabbitNext]_rabbitVars => LinkInv'
<1>1. SUFFICES ASSUME LinkInv, [RabbitNext]_rabbitVars PROVE LinkInv'
  OBVIOUS
<1>2. CASE UNCHANGED rabbitVars
  BY <1>1, <1>2 DEF LinkInv, RabbitTypeOK, AttemptKnown, StoppingKnown, ChannelIsOpen,
                    rabbitVars, linkVars, rabbitBounds, Made
<1>3. CASE RabbitNext
  <2>1. \/ Connected \/ ChannelCreated \/ QueueAsserted \/ AttemptFails
        \/ \E l \in Made, again \in BOOLEAN :
             DropLink(l) \/ CloseChannel(l) \/ RecoverLink(l, again)
        \/ \E f \in Askers : RequestChannel(f)
        \/ InitBroker
        \/ \E ok \in BOOLEAN : Consume(ok)
        \/ Shutdown
        \/ \E ok \in BOOLEAN : Cancel(ok)
        \/ ChannelClosed \/ ConnectionClosed \/ CloseFails
    BY <1>3 DEF RabbitNext
  <2>2. QED
    BY <1>1, <2>1, AttemptStep, LossStep, UserStep, ShutdownStep
<1>4. QED
  BY <1>1, <1>2, <1>3

\* The shared connection, its attempt and its consumers keep their types.
THEOREM RabbitTypeCorrect == RabbitSpec => []RabbitTypeOK
<1>1. LinkInv => RabbitTypeOK
  BY DEF LinkInv
<1>2. QED
  BY <1>1, LinkInvInit, LinkInvStep, PTL DEF RabbitSpec

\* getRabbitChannel hands out a channel that is open: every loss, failure and
\* close empties the module's variable in the step in which it happens.
THEOREM ChannelHandedOutOpen == RabbitSpec => []ChannelIsOpen
<1>1. LinkInv => ChannelIsOpen
  BY DEF LinkInv
<1>2. QED
  BY <1>1, LinkInvInit, LinkInvStep, PTL DEF RabbitSpec

-----------------------------------------------------------------------------
\* The terms of the account, as numbers.
LEMMA AccountTerms ==
  ASSUME LinkInv
  PROVE  /\ Len(links) \in Nat /\ losses \in Nat /\ errors \in Nat
         /\ Emptyings \in 0 .. 2 /\ Needed \in 0 .. 1 /\ Granted \in {0, 2}
  BY RabbitAssumption DEF LinkInv, RabbitTypeOK, Emptyings, Needed, Granted

\* The account is even before anything happens: the first link is the one allowed.
LEMMA AccountInit == RabbitInit => AccountInv
<1>1. SUFFICES ASSUME RabbitInit PROVE AccountInv
  OBVIOUS
<1>2. Len(links) = 0 /\ losses = 0 /\ errors = 0
  BY <1>1 DEF RabbitInit
<1>3. asking["stop"].is = "none"
  BY <1>1 DEF RabbitInit, Users
<1>4. Emptyings = 0 /\ Granted = 0 /\ Needed \in 0 .. 1
  BY <1>3 DEF Emptyings, Granted, Needed
<1>5. QED
  BY <1>2, <1>4 DEF AccountInv

\* What the account is, as numbers, decides whether it is kept.
LEMMA AccountNow ==
  ASSUME NEW a, NEW n, NEW e, NEW l, NEW r, NEW g,
         a = Len(links), n = Needed, e = Emptyings, l = losses, r = errors, g = Granted
  PROVE  AccountInv <=> a + n + e <= 1 + l + r + g
  BY DEF AccountInv

LEMMA AccountNext ==
  ASSUME NEW a, NEW n, NEW e, NEW l, NEW r, NEW g,
         a = Len(links'), n = Needed', e = Emptyings', l = losses', r = errors', g = Granted',
         a + n + e <= 1 + l + r + g
  PROVE  AccountInv'
<1>1. Len(links') + Needed' + Emptyings' <= 1 + losses' + errors' + Granted'
  BY Zenon
<1>2. QED
  BY <1>1, Zenon DEF AccountInv

\* A counter goes up by one.
Raised(new, old) == new = old + 1

LEMMA RaisedIs == ASSUME NEW new, NEW old, NEW c, Raised(new, old), c = old PROVE c + 1 = new
  BY Zenon DEF Raised

\* A step that makes no link and ends no shutdown call raises what is needed by one
\* at most, and only with a loss or an error.
LEMMA AccountCarries ==
  ASSUME LinkInv, LinkInv', AccountInv, Len(links') = Len(links),
         (asking'["stop"].is = "none") <=> (asking["stop"].is = "none"),
         stopping' = stopping,
         losses' = losses \/ Raised(losses', losses),
         errors' = errors \/ Raised(errors', errors),
         LinkNeeded' /\ ~LinkNeeded => Raised(losses', losses) \/ Raised(errors', errors)
  PROVE  AccountInv'
<1>1. PICK a \in Nat, n \in 0 .. 1, e \in 0 .. 2, l \in Nat, r \in Nat, g \in {0, 2} :
        /\ a = Len(links) /\ n = Needed /\ e = Emptyings
        /\ l = losses /\ r = errors /\ g = Granted
  BY AccountTerms
<1>2. a + n + e <= 1 + l + r + g
  BY <1>1, AccountNow
<1>3. PICK m \in 0 .. 1 : m = Needed'
  BY DEF Needed
<1>4. a = Len(links') /\ e = Emptyings' /\ g = Granted'
  BY <1>1 DEF Emptyings, Granted
<1>5. PICK k \in {l, l + 1}, q \in {r, r + 1} :
        /\ k = losses' /\ q = errors'
        /\ m <= n \/ k = l + 1 \/ q = r + 1
  <2>1. m <= n \/ Raised(losses', losses) \/ Raised(errors', errors)
    BY <1>1, <1>3 DEF Needed
  <2>2. /\ Raised(losses', losses) => l + 1 = losses'
        /\ Raised(errors', errors) => r + 1 = errors'
    BY <1>1, RaisedIs, Zenon
  <2>3. /\ losses' = losses => l = losses'
        /\ errors' = errors => r = errors'
    BY <1>1, Zenon
  <2>4. QED
    BY <2>1, <2>2, <2>3, Zenon
<1>6. m <= n \/ k = l + 1 \/ q = r + 1
  BY <1>5, Zenon
<1>7. a + m + e <= 1 + k + q + g
  BY <1>2, <1>6
<1>8. QED
  BY <1>3, <1>4, <1>5, <1>7, AccountNext, Zenon

\* A call of the shutdown that ends uses up one of what it was granted, or makes no link
\* needed.
Eases == Needed' + Emptyings' <= Needed + Emptyings

LEMMA EasesIs ==
  ASSUME NEW m, NEW f, NEW n, NEW e,
         m = Needed', f = Emptyings', n = Needed, e = Emptyings
  PROVE  Eases <=> m + f <= n + e
  BY Zenon DEF Eases

LEMMA AccountEases ==
  ASSUME LinkInv, LinkInv', AccountInv, Len(links') = Len(links), losses' = losses,
         errors' = errors \/ Raised(errors', errors), Granted' = Granted, Eases
  PROVE  AccountInv'
<1>1. PICK a \in Nat, n \in 0 .. 1, e \in 0 .. 2, l \in Nat, r \in Nat, g \in {0, 2} :
        /\ a = Len(links) /\ n = Needed /\ e = Emptyings
        /\ l = losses /\ r = errors /\ g = Granted
  BY AccountTerms
<1>2. a + n + e <= 1 + l + r + g
  BY <1>1, AccountNow
<1>3. PICK q \in {r, r + 1} : q = errors'
  BY <1>1, RaisedIs, Zenon
<1>4. PICK m \in 0 .. 1, f \in 0 .. 2 : m = Needed' /\ f = Emptyings'
  BY DEF Needed, Emptyings
<1>5. m + f <= n + e
  BY <1>1, <1>4, EasesIs, Zenon
<1>6. a + m + f <= 1 + l + q + g
  BY <1>2, <1>5
<1>7. a = Len(links') /\ l = losses' /\ g = Granted'
  BY <1>1, Zenon
<1>8. QED
  BY <1>3, <1>4, <1>6, <1>7, AccountNext, Zenon

\* Whoever is told of the attempt's end had asked.
LEMMA ToldKeepsStop ==
  ASSUME RabbitTypeOK, NEW what \in {"has", "refused"}, NEW l \in Nat, asking' = Told(what, l)
  PROVE  (asking'["stop"].is = "none") <=> (asking["stop"].is = "none")
<1>1. "stop" \in Users
  BY DEF Users
<1>2. IF asking["stop"].is = "waiting" THEN asking'["stop"] = [is |-> what, link |-> l]
      ELSE asking'["stop"] = asking["stop"]
  BY <1>1, ToldType
<1>3. QED
  BY <1>2

LEMMA AccountStep == LinkInv /\ LinkInv' /\ AccountInv /\ [RabbitNext]_rabbitVars => AccountInv'
<1>1. SUFFICES ASSUME LinkInv, LinkInv', AccountInv, [RabbitNext]_rabbitVars
               PROVE  AccountInv'
  OBVIOUS
<1>2. /\ Len(links) \in Nat /\ losses \in Nat /\ errors \in Nat /\ Emptyings \in 0 .. 2
      /\ asking \in [Users -> Asking] /\ "stop" \in Users /\ channel \in Nat
      /\ connecting.at # "no" => channel = 0
      /\ stopping.at # "no" => asking["stop"].is = "done"
      /\ Made \subseteq Nat \ {0} /\ Needed \in 0 .. 1
  BY <1>1, AccountTerms, MadeAreNumbers
     DEF LinkInv, RabbitTypeOK, Users, AttemptKnown, StoppingKnown
<1>3. CASE Connected
  <2>1. Raised(Len(links'), Len(links)) /\ LinkNeeded /\ ~LinkNeeded'
    BY <1>1, <1>2, <1>3, LinkMade DEF LinkInv, Connected, LinkNeeded, Raised
  <2>2. losses' = losses /\ errors' = errors /\ asking' = asking /\ stopping' = stopping
    BY <1>3 DEF Connected, rabbitBounds
  <2>3. PICK a \in Nat, e \in 0 .. 2, l \in Nat, r \in Nat, g \in {0, 2} :
          /\ a = Len(links) /\ e = Emptyings /\ l = losses /\ r = errors /\ g = Granted
    BY <1>1, AccountTerms
  <2>4. 1 = Needed /\ 0 = Needed' /\ e = Emptyings' /\ l = losses' /\ r = errors' /\ g = Granted'
    BY <2>1, <2>2, <2>3 DEF Emptyings, Granted, Needed
  <2>5. a + 1 + e <= 1 + l + r + g
    BY <1>1, <2>3, <2>4, AccountNow
  <2>6. PICK k \in Nat : k = a + 1
    OBVIOUS
  <2>7. k + 0 + e <= 1 + l + r + g
    BY <2>5, <2>6
  <2>8. k = Len(links')
    BY <2>1, <2>3, <2>6, RaisedIs, Zenon
  <2>9. QED
    BY <2>4, <2>7, <2>8, AccountNext, Zenon
<1>4. CASE ChannelCreated
  <2>1. connecting'.at = "queue"
    BY <1>1, <1>4 DEF ChannelCreated, LinkInv, RabbitTypeOK
  <2>2. ~LinkNeeded'
    BY <2>1 DEF LinkNeeded
  <2>3. /\ links' = links /\ losses' = losses /\ errors' = errors /\ asking' = asking
        /\ stopping' = stopping
    BY <1>4 DEF ChannelCreated, rabbitBounds
  <2>4. QED
    BY <1>1, <2>2, <2>3, AccountCarries
<1>5. CASE QueueAsserted
  <2>1. connecting.link \in Nat \ {0} /\ channel' = connecting.link
    BY <1>1, <1>2, <1>5 DEF QueueAsserted, LinkInv, AttemptKnown
  <2>2. ~LinkNeeded'
    BY <2>1 DEF LinkNeeded
  <2>3. /\ links' = links /\ losses' = losses /\ errors' = errors /\ stopping' = stopping
    BY <1>5 DEF QueueAsserted, rabbitBounds
  <2>4. (asking'["stop"].is = "none") <=> (asking["stop"].is = "none")
    <3>1. asking' = Told("has", connecting.link)
      BY <1>5 DEF QueueAsserted
    <3>2. RabbitTypeOK /\ connecting.link \in Nat
      BY <1>1, <2>1 DEF LinkInv
    <3>3. QED
      BY <3>1, <3>2, ToldKeepsStop
  <2>5. Len(links') = Len(links)
    BY <2>3
  <2>6. QED
    BY <1>1, <2>2, <2>3, <2>4, <2>5, AccountCarries, Zenon
<1>6. CASE AttemptFails
  <2>1. /\ connecting.at # "no" /\ links' = links /\ losses' = losses /\ stopping' = stopping
        /\ IF connecting.at = "broken" THEN errors' = errors ELSE Raised(errors', errors)
    BY <1>6 DEF AttemptFails, Error, Raised
  <2>2. connecting.at = "broken" => LinkNeeded
    BY <1>2, <2>1 DEF LinkNeeded
  <2>3. (asking'["stop"].is = "none") <=> (asking["stop"].is = "none")
    <3>1. asking' = Told("refused", 0)
      BY <1>6 DEF AttemptFails
    <3>2. RabbitTypeOK
      BY <1>1 DEF LinkInv
    <3>3. QED
      BY <3>1, <3>2, ToldKeepsStop
  <2>4. /\ errors' = errors \/ Raised(errors', errors)
        /\ LinkNeeded' /\ ~LinkNeeded => Raised(losses', losses) \/ Raised(errors', errors)
        /\ Len(links') = Len(links)
    BY <2>1, <2>2
  <2>5. QED
    BY <1>1, <2>1, <2>3, <2>4, AccountCarries, Zenon
<1>7. ASSUME NEW l \in Made, NEW again \in BOOLEAN,
             DropLink(l) \/ CloseChannel(l) \/ RecoverLink(l, again)
      PROVE  AccountInv'
  <2>1. /\ Len(links') = Len(links) /\ stopping' = stopping /\ asking' = asking
        /\ errors' = errors
    BY <1>1, <1>7, LinkChanges DEF LinkInv, DropLink, CloseChannel, RecoverLink, Statuses,
                                   rabbitBounds
  <2>2. \/ Raised(losses', losses)
        \/ losses' = losses /\ channel' = channel /\ connecting' = connecting
    BY <1>7 DEF DropLink, CloseChannel, RecoverLink, Loss, rabbitBounds, Raised
  <2>3. LinkNeeded' /\ ~LinkNeeded => Raised(losses', losses)
    BY <2>2 DEF LinkNeeded
  <2>4. QED
    BY <1>1, <2>1, <2>2, <2>3, AccountCarries
<1>8. ASSUME NEW f \in Users \ {"stop"}, Ask(f),
             UNCHANGED <<channel, links, stopping, rabbitBounds>>
      PROVE  AccountInv'
  <2>1. asking'["stop"] = asking["stop"]
        /\ (connecting' = connecting \/ (channel = 0 /\ connecting.at = "no"))
    BY <1>1, <1>2, <1>8, AskBegins
  <2>2. LinkNeeded' => LinkNeeded
    BY <1>8, <2>1 DEF LinkNeeded
  <2>3. losses' = losses /\ errors' = errors
    BY <1>8 DEF rabbitBounds
  <2>4. QED
    BY <1>1, <1>8, <2>1, <2>2, <2>3, AccountCarries
<1>9. ASSUME NEW ok \in BOOLEAN, Consume(ok)
      PROVE  AccountInv'
  <2>1. /\ asking' = [asking EXCEPT !["init"].is = "done"]
        /\ UNCHANGED <<linkVars, stopping, losses>>
        /\ errors' = errors \/ Raised(errors', errors)
    BY <1>9 DEF Consume, Error, Raised
  <2>2. asking'["stop"] = asking["stop"] /\ (LinkNeeded' => LinkNeeded) /\ links' = links
    BY <1>2, <2>1 DEF linkVars, LinkNeeded
  <2>3. QED
    BY <1>1, <2>1, <2>2, AccountCarries
<1>10. CASE Shutdown
  <2>1. /\ asking["stop"].is = "none" /\ links' = links /\ channel' = channel
        /\ losses' = losses /\ errors' = errors
    BY <1>10 DEF Shutdown, rabbitBounds
  <2>2. /\ asking'["stop"].is # "none"
        /\ connecting' = connecting \/ (channel = 0 /\ connecting.at = "no")
    <3>1. CASE consumerTag # 0
      <4>1. Ask("stop")
        BY <1>10, <3>1 DEF Shutdown
      <4>2. QED
        BY <1>1, <1>2, <4>1, AskBegins
    <3>2. CASE consumerTag = 0
      <4>1. asking' = [asking EXCEPT !["stop"].is = "done"] /\ connecting' = connecting
        BY <1>10, <3>2 DEF Shutdown
      <4>2. QED
        BY <1>2, <4>1 DEF Asking
    <3>3. QED
      BY <3>1, <3>2
  <2>3. LinkNeeded' => LinkNeeded
    BY <2>1, <2>2 DEF LinkNeeded
  <2>4. PICK a \in Nat, l \in Nat, r \in Nat : a = Len(links) /\ l = losses /\ r = errors
    BY <1>2
  <2>5. PICK m \in 0 .. 1, n \in 0 .. 1, f \in 0 .. 2 :
          n = Needed /\ m = Needed' /\ f = Emptyings'
    BY <1>1, <1>2 DEF Needed, Emptyings
  <2>6. m <= n
    BY <2>3, <2>5 DEF Needed
  <2>7. 0 = Emptyings /\ 0 = Granted /\ 2 = Granted'
    BY <2>1, <2>2 DEF Emptyings, Granted
  <2>8. a + n + 0 <= 1 + l + r + 0
    BY <1>1, <2>4, <2>5, <2>7, AccountNow, Zenon
  <2>9. a + m + f <= 1 + l + r + 2
    BY <2>6, <2>8
  <2>10. a = Len(links') /\ l = losses' /\ r = errors'
    BY <2>1, <2>4, Zenon
  <2>11. QED
    BY <2>5, <2>7, <2>9, <2>10, AccountNext, Zenon
<1>11. ASSUME NEW ok \in BOOLEAN, Cancel(ok)
       PROVE  AccountInv'
  <2>1. /\ asking["stop"].is \in {"has", "refused"}
        /\ asking' = [asking EXCEPT !["stop"].is = "done"]
        /\ UNCHANGED <<linkVars, losses>>
        /\ errors' = errors \/ Raised(errors', errors)
    BY <1>11 DEF Cancel, Error, Raised
  <2>2. asking'["stop"].is = "done" /\ (LinkNeeded' => LinkNeeded) /\ links' = links
    BY <1>2, <2>1 DEF linkVars, LinkNeeded, Asking
  <2>3. Eases
    <3>1. PICK m \in 0 .. 1, n \in 0 .. 1, f \in 0 .. 2 :
            m = Needed' /\ n = Needed /\ f = Emptyings'
      BY DEF Needed, Emptyings
    <3>2. m <= n
      BY <2>2, <3>1 DEF Needed
    <3>3. 2 = Emptyings
      BY <1>2, <2>1 DEF Emptyings
    <3>4. m + f <= n + 2
      BY <3>2
    <3>5. QED
      BY <3>1, <3>3, <3>4, EasesIs, Zenon
  <2>4. Granted' = Granted
    BY <2>1, <2>2 DEF Granted
  <2>5. Len(links') = Len(links) /\ losses' = losses
    BY <2>1, <2>2
  <2>6. QED
    BY <1>1, <2>1, <2>3, <2>4, <2>5, AccountEases, Zenon
<1>12. ASSUME ChannelClosed \/ ConnectionClosed \/ CloseFails
       PROVE  AccountInv'
  <2>1. /\ asking' = asking /\ losses' = losses
        /\ errors' = errors \/ Raised(errors', errors)
        /\ stopping.at \in {"channel", "connection"}
        /\ stopping.at = "channel" => stopping'.at \in {"connection", "done"}
        /\ stopping.at = "connection" => stopping'.at = "done"
    BY <1>12 DEF ChannelClosed, ConnectionClosed, CloseFails, Error, CloseConnection, Over,
                 rabbitBounds, Raised
  <2>2. Len(links') = Len(links)
    <3>1. CASE ConnectionClosed
      BY <1>1, <3>1, LinkChanges DEF ConnectionClosed, LinkInv, StoppingKnown, Statuses
    <3>2. CASE ChannelClosed \/ CloseFails
      BY <3>2 DEF ChannelClosed, CloseFails
    <3>3. QED
      BY <1>12, <3>1, <3>2
  <2>3. Eases
    <3>1. PICK m \in 0 .. 1, n \in 0 .. 1 : m = Needed' /\ n = Needed
      BY DEF Needed
    <3>2. \/ 1 = Emptyings /\ 0 = Emptyings'
          \/ 2 = Emptyings /\ \E f \in 0 .. 1 : f = Emptyings'
      BY <1>2, <2>1 DEF Emptyings
    <3>3. m + 0 <= n + 1 /\ \A f \in 0 .. 1 : m + f <= n + 2
      OBVIOUS
    <3>4. QED
      BY <3>1, <3>2, <3>3, EasesIs, Zenon
  <2>4. Granted' = Granted
    BY <2>1 DEF Granted
  <2>5. QED
    BY <1>1, <2>1, <2>2, <2>3, <2>4, AccountEases, Zenon
<1>13. CASE UNCHANGED rabbitVars
  <2>1. UNCHANGED <<links, channel, connecting, asking, stopping, losses, errors>>
    BY <1>13 DEF rabbitVars, linkVars, rabbitBounds
  <2>2. QED
    BY <1>1, <2>1, AccountCarries DEF LinkNeeded
<1>14. CASE RabbitNext
  <2>1. "init" \in Users \ {"stop"} /\ \A f \in Askers : f \in Users \ {"stop"}
    BY RabbitAssumption DEF Users
  <2>2. (\E f \in Askers : RequestChannel(f)) \/ InitBroker => AccountInv'
    BY <1>8, <2>1 DEF RequestChannel, InitBroker
  <2>3. QED
    BY <1>3, <1>4, <1>5, <1>6, <1>7, <1>9, <1>10, <1>11, <1>12, <1>14, <2>2 DEF RabbitNext
<1>15. QED
  BY <1>1, <1>13, <1>14

LEMMA AccountSound == LinkInv /\ AccountInv => LinksAccounted
<1>1. SUFFICES ASSUME LinkInv, AccountInv PROVE LinksAccounted
  OBVIOUS
<1>2. QED
  BY <1>1, AccountTerms DEF AccountInv, Granted, LinksAccounted

\* Callers share one attempt, so each link beyond the first answers a loss, an error or
\* one of the two times that a shutdown empties the module's variables.
THEOREM LinksAnswerLosses == RabbitSpec => []LinksAccounted
<1>1. RabbitInit => LinkInv /\ AccountInv
  BY LinkInvInit, AccountInit
<1>2. LinkInv /\ AccountInv /\ [RabbitNext]_rabbitVars => (LinkInv /\ AccountInv)'
  BY LinkInvStep, AccountStep
<1>3. LinkInv /\ AccountInv => LinksAccounted
  BY AccountSound
<1>4. QED
  BY <1>1, <1>2, <1>3, PTL DEF RabbitSpec

-----------------------------------------------------------------------------
\* Disturbances are never forgotten.
LEMMA CalmBefore ==
  ASSUME LinkInv, LinkInv', [RabbitNext]_rabbitVars, Calm'
  PROVE  /\ Calm /\ late' = FALSE /\ losses' = 0 /\ errors' = 0
         /\ ~Loss /\ ~Error
<1>1. late' = FALSE /\ losses' = 0 /\ errors' = 0
  BY DEF Calm, LinkInv, RabbitTypeOK
<1>2. losses \in Nat /\ errors \in Nat /\ late \in BOOLEAN
  BY AccountTerms DEF LinkInv, RabbitTypeOK
<1>3. ~Loss /\ ~Error
  BY <1>1, <1>2 DEF Loss, Error
<1>4. losses' = losses
  <2>1. CASE UNCHANGED rabbitVars
    BY <2>1 DEF rabbitVars, rabbitBounds
  <2>2. CASE RabbitNext
    BY <1>3, <2>2 DEF RabbitNext, Connected, ChannelCreated, QueueAsserted, AttemptFails, DropLink,
       CloseChannel, RecoverLink, RequestChannel, InitBroker, Shutdown, Consume, Cancel,
       ChannelClosed, ConnectionClosed, CloseFails, rabbitBounds
  <2>3. QED
    BY <2>1, <2>2
<1>5. errors' = errors
  <2>1. CASE UNCHANGED rabbitVars
    BY <2>1 DEF rabbitVars, rabbitBounds
  <2>2. CASE RabbitNext
    BY <1>3, <2>2 DEF RabbitNext, Connected, ChannelCreated, QueueAsserted, AttemptFails, DropLink,
       CloseChannel, RecoverLink, RequestChannel, InitBroker, Shutdown, Consume, Cancel,
       ChannelClosed, ConnectionClosed, CloseFails, rabbitBounds
  <2>3. QED
    BY <2>1, <2>2
<1>6. late => late'
  <2>1. CASE UNCHANGED rabbitVars
    BY <2>1 DEF rabbitVars
  <2>2. CASE RabbitNext
    BY <2>2 DEF RabbitNext, Connected, ChannelCreated, QueueAsserted, AttemptFails, DropLink,
       CloseChannel, RecoverLink, RequestChannel, InitBroker, Shutdown, Consume, Cancel,
       ChannelClosed, ConnectionClosed, CloseFails
  <2>3. QED
    BY <2>1, <2>2
<1>7. QED
  BY <1>1, <1>3, <1>4, <1>5, <1>6 DEF Calm

\* A link that is up, alone, cannot be recovered: nothing was lost.
LEMMA NothingToRecover ==
  ASSUME links \in {<<>>, <<"up">>, <<"closed">>}, NEW l \in Made
  PROVE  links[l] # "recovering"
  BY DEF Made

\* Before the shutdown: the first link and its channel are made, people get it, and the
\* queue is consumed.
LEMMA StartingMakes ==
  ASSUME LinkInv, Starting, ~Error,
         Connected \/ ChannelCreated \/ QueueAsserted \/ AttemptFails
  PROVE  Starting'
<1>. USE DEF Starting
<1>0. asking \in [Users -> Asking] /\ "init" \in Users /\ "stop" \in Users
  BY DEF LinkInv, RabbitTypeOK, Users
<1>1. CASE Connected
  <2>1. connecting.at = "connect" /\ NoLink
    BY <1>1 DEF Connected, HalfLink, WholeLink
  <2>2. links' = <<"up">> /\ Len(links') = 1
    BY <1>1, <2>1 DEF Connected, NoLink
  <2>3. HalfLink'
    BY <1>1, <2>1, <2>2 DEF Connected, NoLink, HalfLink
  <2>4. asking' = asking /\ stopping' = stopping /\ ~WholeLink /\ consumerTag = 0
    BY <1>1, <2>1 DEF Connected, NoLink, WholeLink
  <2>5. QED
    BY <2>3, <2>4
<1>2. CASE ChannelCreated
  <2>1. connecting.at = "channel" /\ HalfLink
    BY <1>2 DEF ChannelCreated, NoLink, WholeLink
  <2>2. connecting'.at = "queue" /\ connecting'.link = connecting.link
    BY <1>2 DEF ChannelCreated, LinkInv, RabbitTypeOK
  <2>3. HalfLink' /\ asking' = asking /\ stopping' = stopping /\ ~WholeLink
    BY <1>2, <2>1, <2>2 DEF ChannelCreated, HalfLink, WholeLink
  <2>4. consumerTag # 1
    BY <2>1 DEF HalfLink
  <2>5. QED
    BY <2>3, <2>4
<1>3. CASE QueueAsserted
  <2>1. connecting.at = "queue" /\ HalfLink /\ connecting.link = 1 /\ 1 \in channels
    BY <1>3 DEF QueueAsserted, NoLink, HalfLink, WholeLink, LinkInv, AttemptKnown
  <2>2. WholeLink' /\ stopping' = stopping /\ asking' = Told("has", 1) /\ ~WholeLink
        /\ consumerTag = 0
    BY <1>3, <2>1 DEF QueueAsserted, HalfLink, WholeLink, NoAttempt
  <2>3. \A f \in Users : IF asking[f].is = "waiting" THEN asking'[f] = [is |-> "has", link |-> 1]
                         ELSE asking'[f] = asking[f]
    BY <2>2, ToldType DEF LinkInv
  <2>4. \A f \in Users : asking'[f].is # "refused" /\ (asking'[f].is = "has" => asking'[f].link = 1)
    BY <2>2, <2>3
  <2>5. asking'["stop"].is = "none" /\ asking'["init"].is # "done"
    BY <1>0, <2>2, <2>3
  <2>6. QED
    BY <2>2, <2>4, <2>5
<1>4. CASE AttemptFails
  BY <1>4 DEF AttemptFails, NoLink, HalfLink, WholeLink
<1>5. QED
  BY <1>1, <1>2, <1>3, <1>4

LEMMA StartingAsks ==
  ASSUME LinkInv, Starting, NEW f \in Users \ {"stop"}, asking[f].is = "none", Ask(f),
         UNCHANGED <<connection, channel, links, channels, consumers, consumerTag, stopping>>
  PROVE  Starting'
<1>1. /\ \A g \in Users \ {f} : asking'[g] = asking[g]
      /\ \/ /\ channel # 0 /\ connecting' = connecting
            /\ asking'[f] = [is |-> "has", link |-> channel]
         \/ /\ channel = 0 /\ connecting' = connecting /\ connecting.at # "no"
            /\ asking'[f] = [is |-> "waiting", link |-> 0]
         \/ /\ channel = 0 /\ connecting.at = "no"
            /\ connecting' = [at |-> "connect", link |-> 0]
            /\ asking'[f] = [is |-> "waiting", link |-> 0]
  BY AskBegins
<1>2. "init" \in Users /\ "stop" \in Users
  BY DEF Users
<1>3. /\ NoLink => NoLink'
      /\ HalfLink => HalfLink'
      /\ WholeLink => WholeLink' /\ channel = 1
  BY <1>1 DEF NoLink, HalfLink, WholeLink
<1>4. channel # 0 => WholeLink
  BY DEF Starting, NoLink, HalfLink
<1>5. \A g \in Users : asking'[g].is # "refused" /\ (asking'[g].is = "has" => asking'[g].link = 1 /\ WholeLink')
  BY <1>1, <1>3, <1>4 DEF Starting
<1>6. asking'["stop"] = asking["stop"] /\ (asking'["init"].is = "done" => asking["init"].is = "done")
  BY <1>1, <1>2
<1>7. QED
  BY <1>3, <1>5, <1>6 DEF Starting

LEMMA StartingConsumes ==
  ASSUME LinkInv, Starting, ~Error, NEW ok \in BOOLEAN, Consume(ok)
  PROVE  Starting'
<1>1. asking \in [Users -> Asking] /\ "init" \in Users /\ "stop" \in Users
  BY DEF LinkInv, RabbitTypeOK, Users
<1>2. WholeLink /\ asking["init"].link = 1 /\ 1 \in channels
  BY <1>1 DEF Consume, Starting, WholeLink
<1>3. /\ asking' = [asking EXCEPT !["init"].is = "done"]
      /\ consumers' = consumers \cup {1} /\ consumerTag' = 1
      /\ UNCHANGED <<linkVars, stopping>>
  BY <1>2 DEF Consume
<1>4. WholeLink'
  BY <1>2, <1>3 DEF WholeLink, linkVars
<1>5. /\ \A g \in Users \ {"init"} : asking'[g] = asking[g]
      /\ asking'["init"].is = "done"
  BY <1>1, <1>3 DEF Asking
<1>6. QED
  BY <1>1, <1>3, <1>4, <1>5 DEF Starting

\* Shutdown begins when the subscription stands and nobody waits.
LEMMA StartingCloses ==
  ASSUME LinkInv, Starting, Shutdown, late' = FALSE
  PROVE  Closing'
<1>1. asking \in [Users -> Asking] /\ "init" \in Users /\ "stop" \in Users
  BY DEF LinkInv, RabbitTypeOK, Users
<1>2. ~Pending /\ asking["init"].is \notin {"none", "has"}
  BY DEF Shutdown
<1>3. \A f \in Users : asking[f].is # "waiting"
  BY <1>2 DEF Pending
<1>4. asking["init"].is = "done" /\ consumerTag = 1
  BY <1>1, <1>2, <1>3 DEF Starting, Asking
<1>5. WholeLink /\ channel = 1
  BY <1>4 DEF Starting, NoLink, HalfLink, WholeLink
<1>6. Ask("stop") /\ stopping' = stopping
      /\ UNCHANGED <<connection, channel, links, channels, consumers, consumerTag>>
  BY <1>4 DEF Shutdown
<1>7. /\ asking'["stop"] = [is |-> "has", link |-> 1] /\ connecting' = connecting
      /\ \A g \in Users \ {"stop"} : asking'[g] = asking[g]
  BY <1>1, <1>5, <1>6, AskBegins
<1>8. WholeLink' /\ connecting'.at = "no"
  BY <1>5, <1>6, <1>7 DEF WholeLink
<1>9. QED
  BY <1>1, <1>3, <1>4, <1>6, <1>7, <1>8 DEF Closing, Starting

\* During it: the consumer is cancelled, the channel closed, then the connection.
LEMMA ClosingStep ==
  ASSUME LinkInv, Closing, ~Error,
         \/ \E ok \in BOOLEAN : Cancel(ok)
         \/ ChannelClosed \/ ConnectionClosed \/ CloseFails
  PROVE  Closing'
<1>1. asking \in [Users -> Asking] /\ "init" \in Users /\ "stop" \in Users
  BY DEF LinkInv, RabbitTypeOK, Users
<1>2. /\ asking["init"].is = "done" /\ connecting.at = "no"
      /\ \A f \in Users : asking[f].is # "waiting"
  BY DEF Closing
<1>3. ASSUME NEW ok \in BOOLEAN, Cancel(ok) PROVE Closing'
  <2>1. /\ asking["stop"].is = "has" /\ asking["stop"].link = 1
        /\ WholeLink /\ consumerTag = 1 /\ consumers = {1} /\ 1 \in channels
    BY <1>3 DEF Cancel, Closing, WholeLink
  <2>2. /\ consumers' = {} /\ consumerTag' = 0 /\ stopping' = CloseNext
        /\ asking' = [asking EXCEPT !["stop"].is = "done"] /\ UNCHANGED linkVars
    BY <1>3, <2>1 DEF Cancel
  <2>3. /\ asking'["stop"].is = "done"
        /\ \A g \in Users \ {"stop"} : asking'[g] = asking[g]
    BY <1>1, <2>2 DEF Asking
  <2>4. stopping' = [at |-> "channel", link |-> 1] /\ WholeLink' /\ connecting' = connecting
    BY <2>1, <2>2 DEF CloseNext, WholeLink, linkVars
  <2>5. QED
    BY <1>1, <1>2, <2>2, <2>3, <2>4 DEF Closing
<1>4. CASE ChannelClosed
  <2>1. /\ stopping = [at |-> "channel", link |-> 1] /\ WholeLink /\ consumerTag = 0
        /\ asking["stop"].is = "done"
    BY <1>4 DEF ChannelClosed, Closing
  <2>2. /\ ChannelGone(1) /\ stopping' = CloseConnection
        /\ UNCHANGED <<links, consumerTag, asking>>
    BY <1>4, <2>1 DEF ChannelClosed
  <2>3. consumers' = {} /\ connecting' = connecting
    BY <1>2, <2>1, <2>2 DEF ChannelGone, WholeLink
  <2>4. stopping' = [at |-> "connection", link |-> 1] /\ links' = <<"up">>
    BY <2>1, <2>2 DEF CloseConnection, WholeLink
  <2>5. QED
    BY <1>2, <2>1, <2>2, <2>3, <2>4 DEF Closing
<1>5. CASE ConnectionClosed
  <2>1. /\ stopping = [at |-> "connection", link |-> 1] /\ links = <<"up">> /\ consumers = {}
        /\ asking["stop"].is = "done"
    BY <1>5 DEF ConnectionClosed, Closing
  <2>2. /\ ChannelGone(1) /\ stopping' = Over /\ links' = [links EXCEPT ![1] = "closed"]
        /\ UNCHANGED <<consumerTag, asking>>
    BY <1>5, <2>1 DEF ConnectionClosed
  <2>3. consumers' = {} /\ connecting' = connecting
    BY <1>2, <2>1, <2>2 DEF ChannelGone
  <2>4. links' = <<"closed">>
    BY <2>1, <2>2
  <2>5. QED
    BY <1>2, <2>1, <2>2, <2>3, <2>4 DEF Closing, Over
<1>6. CASE CloseFails
  <2>1. \/ stopping = [at |-> "channel", link |-> 1] /\ 1 \in channels
        \/ stopping = [at |-> "connection", link |-> 1] /\ links[1] = "up"
    BY <1>6 DEF CloseFails, Closing, WholeLink
  <2>2. QED
    BY <1>6, <2>1 DEF CloseFails
<1>7. QED
  BY <1>3, <1>4, <1>5, <1>6

LEMMA CalmInit == RabbitInit => CalmInv
<1>1. SUFFICES ASSUME RabbitInit PROVE Starting
  BY DEF CalmInv
<1>2. \A f \in Users : asking[f].is = "none"
  BY <1>1 DEF RabbitInit
<1>3. "init" \in Users /\ "stop" \in Users
  BY DEF Users
<1>4. NoLink /\ stopping.at = "no"
  BY <1>1 DEF RabbitInit, NoLink, NoAttempt
<1>5. QED
  BY <1>2, <1>3, <1>4 DEF Starting

LEMMA CalmStep == LinkInv /\ LinkInv' /\ CalmInv /\ [RabbitNext]_rabbitVars => CalmInv'
<1>1. SUFFICES ASSUME LinkInv, LinkInv', CalmInv, [RabbitNext]_rabbitVars, Calm'
               PROVE  (Starting \/ Closing)'
  BY DEF CalmInv
<1>2. Calm /\ late' = FALSE /\ losses' = 0 /\ errors' = 0 /\ ~Loss /\ ~Error
  BY <1>1, CalmBefore
<1>3. links \in {<<>>, <<"up">>, <<"closed">>}
  BY <1>1, <1>2 DEF CalmInv, Starting, Closing, NoLink, HalfLink, WholeLink
<1>4. CASE UNCHANGED rabbitVars
  BY <1>1, <1>2, <1>4 DEF CalmInv, Starting, Closing, NoLink, HalfLink, WholeLink, rabbitVars,
                         linkVars
<1>5. CASE RabbitNext
  <2>1. \A l \in Made : /\ ~DropLink(l) /\ ~CloseChannel(l)
                        /\ \A again \in BOOLEAN : ~RecoverLink(l, again)
    BY <1>2, <1>3, NothingToRecover DEF DropLink, CloseChannel, RecoverLink
  <2>2. \/ Connected \/ ChannelCreated \/ QueueAsserted \/ AttemptFails
        \/ \E f \in Askers : RequestChannel(f)
        \/ InitBroker \/ Shutdown
        \/ \E ok \in BOOLEAN : Consume(ok)
        \/ \E ok \in BOOLEAN : Cancel(ok)
        \/ ChannelClosed \/ ConnectionClosed \/ CloseFails
    BY <1>5, <2>1 DEF RabbitNext
  <2>3. "init" \in Users \ {"stop"} /\ \A f \in Askers : f \in Users \ {"stop"}
    BY RabbitAssumption DEF Users
  <2>4. CASE Starting
    <3>1. Connected \/ ChannelCreated \/ QueueAsserted \/ AttemptFails => Starting'
      BY <1>1, <1>2, <2>4, StartingMakes
    <3>2. (\E f \in Askers : RequestChannel(f)) \/ InitBroker => Starting'
      BY <1>1, <2>3, <2>4, StartingAsks DEF RequestChannel, InitBroker
    <3>3. (\E ok \in BOOLEAN : Consume(ok)) => Starting'
      BY <1>1, <1>2, <2>4, StartingConsumes
    <3>4. Shutdown => Closing'
      BY <1>1, <1>2, <2>4, StartingCloses
    <3>5. /\ \A ok \in BOOLEAN : ~Cancel(ok)
          /\ ~ChannelClosed /\ ~ConnectionClosed /\ ~CloseFails
      BY <2>4 DEF Starting, Cancel, ChannelClosed, ConnectionClosed, CloseFails
    <3>6. QED
      BY <2>2, <3>1, <3>2, <3>3, <3>4, <3>5
  <2>5. CASE Closing
    <3>1. ~Connected /\ ~ChannelCreated /\ ~QueueAsserted /\ ~AttemptFails
      BY <2>5 DEF Closing, Connected, ChannelCreated, QueueAsserted, AttemptFails
    <3>2. ~Shutdown /\ ~InitBroker /\ \A f \in Askers : ~RequestChannel(f)
      BY <1>2, <2>5 DEF Closing, Shutdown, InitBroker, RequestChannel
    <3>3. \A ok \in BOOLEAN : ~Consume(ok)
      BY <2>5 DEF Closing, Consume
    <3>4. QED
      BY <1>1, <1>2, <2>2, <2>5, <3>1, <3>2, <3>3, ClosingStep
  <2>6. QED
    BY <1>1, <1>2, <2>4, <2>5 DEF CalmInv
<1>6. QED
  BY <1>1, <1>4, <1>5

LEMMA CalmSound == LinkInv /\ CalmInv => ShutdownReleases
<1>1. SUFFICES ASSUME CalmInv, stopping.at = "done", ~late, losses = 0, errors = 0
               PROVE  consumers = {} /\ \A l \in Made : links[l] = "closed"
  BY DEF ShutdownReleases
<1>2. Closing
  BY <1>1 DEF CalmInv, Calm, Starting
<1>3. links = <<"closed">> /\ consumers = {}
  BY <1>1, <1>2 DEF Closing
<1>4. QED
  BY <1>3 DEF Made

\* An undisturbed shutdown leaves no consumer and no link that would keep the process
\* alive, whoever asked for the channel before it.
THEOREM ShutdownLeavesNothing == RabbitSpec => []ShutdownReleases
<1>1. RabbitInit => LinkInv /\ CalmInv
  BY LinkInvInit, CalmInit
<1>2. LinkInv /\ CalmInv /\ [RabbitNext]_rabbitVars => (LinkInv /\ CalmInv)'
  BY LinkInvStep, CalmStep
<1>3. LinkInv /\ CalmInv => ShutdownReleases
  BY CalmSound
<1>4. QED
  BY <1>1, <1>2, <1>3, PTL DEF RabbitSpec

=============================================================================
