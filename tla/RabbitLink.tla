------------------------------- MODULE RabbitLink -------------------------------
(***************************************************************************)
(* The process's connection to RabbitMQ: getRabbitChannel, shared by all   *)
(* who need a channel, the chat consumer set up at boot, and the shutdown  *)
(* on SIGTERM, while links and channels are lost and come back.            *)
(*                                                                         *)
(* The module keeps one connection and one channel; the flows that read    *)
(* and set them interleave at every call they await.                       *)
(***************************************************************************)
EXTENDS Naturals, Sequences

CONSTANTS
  Askers,      \* requests that need the channel
  MaxLosses,   \* bound on lost links and channels
  MaxErrors    \* bound on failing broker calls

ASSUME RabbitAssumption ==
  /\ Askers \cap {"init", "stop"} = {}
  /\ MaxLosses \in Nat
  /\ MaxErrors \in Nat

VARIABLES
  connection,   \* the module's connection: the number of its link, 0: undefined
  channel,      \* the module's channel: the link it is on, 0: undefined
  connecting,   \* the shared attempt: what it awaits, and its link
  links,        \* links[l]: the links made, in order
  channels,     \* links whose channel is open
  consumers,    \* links on whose channel the chat queue is consumed
  consumerTag,  \* the link consumerTag was given out on, 0: undefined
  asking,       \* asking[f]: what flow f knows of the channel
  stopping,     \* the close shutdown awaits, and of which link
  late,         \* history: someone needed the channel during or after shutdown
  losses, errors

linkVars == <<connection, channel, connecting, links, channels>>
rabbitBounds == <<losses, errors>>
rabbitVars == <<linkVars, consumers, consumerTag, asking, stopping, late, rabbitBounds>>

Users == Askers \cup {"init", "stop"}

Made == DOMAIN links

Asking == [is : {"none", "waiting", "has", "refused", "done"}, link : Nat]

RabbitTypeOK ==
  /\ connection \in Nat
  /\ channel \in Nat
  /\ connecting \in [at : {"no", "connect", "channel", "queue", "broken"}, link : Nat]
  /\ links \in Seq({"up", "recovering", "closed"})
  /\ channels \subseteq Made
  /\ consumers \subseteq Made
  /\ consumerTag \in Nat
  /\ asking \in [Users -> Asking]
  /\ stopping \in [at : {"no", "channel", "connection", "done"}, link : Nat]
  /\ late \in BOOLEAN
  /\ losses \in 0 .. MaxLosses
  /\ errors \in 0 .. MaxErrors

NoAttempt == [at |-> "no", link |-> 0]

RabbitInit ==
  /\ connection = 0
  /\ channel = 0
  /\ connecting = NoAttempt
  /\ links = <<>>
  /\ channels = {}
  /\ consumers = {}
  /\ consumerTag = 0
  /\ asking = [f \in Users |-> [is |-> "none", link |-> 0]]
  /\ stopping = [at |-> "no", link |-> 0]
  /\ late = FALSE
  /\ losses = 0
  /\ errors = 0

Error == errors < MaxErrors /\ errors' = errors + 1

-----------------------------------------------------------------------------
\* Mutant: the attempt under way is not shared.
AskAlone(f) ==
  IF channel # 0
  THEN /\ asking' = [asking EXCEPT ![f] = [is |-> "has", link |-> channel]]
       /\ UNCHANGED connecting
  ELSE /\ asking' = [asking EXCEPT ![f] = [is |-> "waiting", link |-> 0]]
       /\ connecting' = [at |-> "connect", link |-> 0]

\* getRabbitChannel, by flow f.
Ask(f) ==
  IF channel # 0
  THEN /\ asking' = [asking EXCEPT ![f] = [is |-> "has", link |-> channel]]
       /\ UNCHANGED connecting
  ELSE /\ asking' = [asking EXCEPT ![f] = [is |-> "waiting", link |-> 0]]
       /\ connecting' = IF connecting.at = "no" THEN [at |-> "connect", link |-> 0]
                        ELSE connecting

\* Whoever awaits the attempt learns of its end.
Told(what, l) ==
  [f \in Users |-> IF asking[f].is = "waiting" THEN [is |-> what, link |-> l] ELSE asking[f]]

Connected ==
  /\ connecting.at = "connect"
  /\ links' = Append(links, "up")
  /\ connection' = Len(links')
  /\ connecting' = [at |-> "channel", link |-> Len(links')]
  /\ UNCHANGED <<channel, channels, consumers, consumerTag, asking, stopping, late, rabbitBounds>>

ChannelCreated ==
  /\ connecting.at = "channel"
  /\ connecting' = [connecting EXCEPT !.at = "queue"]
  /\ channels' = channels \cup {connecting.link}
  /\ UNCHANGED <<connection, channel, links, consumers, consumerTag, asking, stopping,
                 late, rabbitBounds>>

QueueAsserted ==
  /\ connecting.at = "queue"
  /\ connecting' = NoAttempt
  /\ channel' = connecting.link
  /\ asking' = Told("has", connecting.link)
  /\ UNCHANGED <<connection, links, channels, consumers, consumerTag, stopping, late, rabbitBounds>>

\* An awaited call of the attempt throws.  The link it made stays.
AttemptFails ==
  /\ connecting.at # "no"
  /\ IF connecting.at = "broken" THEN UNCHANGED errors ELSE Error
  /\ connecting' = NoAttempt
  /\ connection' = 0
  /\ channel' = 0
  /\ asking' = Told("refused", 0)
  /\ UNCHANGED <<links, channels, consumers, consumerTag, stopping, late, losses>>

-----------------------------------------------------------------------------
\* What is lost with the channel of link l.
ChannelGone(l) ==
  /\ channels' = channels \ {l}
  /\ consumers' = consumers \ {l}
  /\ connecting' = IF connecting.at \in {"channel", "queue"} /\ connecting.link = l
                   THEN [connecting EXCEPT !.at = "broken"] ELSE connecting

Loss == losses < MaxLosses /\ losses' = losses + 1

\* Mutant: only a closing channel clears the module's channel, not a lost link.
DropQuietly(l) ==
  /\ links[l] = "up"
  /\ Loss
  /\ links' = [links EXCEPT ![l] = "recovering"]
  /\ ChannelGone(l)
  /\ UNCHANGED <<connection, channel, consumerTag, asking, stopping, late,
                 errors>>

\* The link is lost: the disconnect handler clears whatever channel is current.
DropLink(l) ==
  /\ links[l] = "up"
  /\ Loss
  /\ links' = [links EXCEPT ![l] = "recovering"]
  /\ ChannelGone(l)
  /\ channel' = 0
  /\ UNCHANGED <<connection, consumerTag, asking, stopping, late, errors>>

\* The broker closes a channel; its close handler clears the current one.
CloseChannel(l) ==
  /\ l \in channels
  /\ Loss
  /\ ChannelGone(l)
  /\ channel' = 0
  /\ UNCHANGED <<connection, links, consumerTag, asking, stopping, late,
                 errors>>

\* The library connects a lost link again and may consume on it once more.
RecoverLink(l, again) ==
  /\ links[l] = "recovering"
  /\ links' = [links EXCEPT ![l] = "up"]
  /\ consumers' = IF again /\ consumerTag = l THEN consumers \cup {l} ELSE consumers
  /\ UNCHANGED <<connection, channel, connecting, channels, consumerTag, asking,
                 stopping, late, rabbitBounds>>

-----------------------------------------------------------------------------
\* requestChat's first call.
RequestChannel(f) ==
  /\ asking[f].is = "none"
  /\ Ask(f)
  /\ late' = (late \/ asking["stop"].is # "none")
  /\ UNCHANGED <<connection, channel, links, channels, consumers, consumerTag, stopping,
                 rabbitBounds>>

\* ChatMessageBroker.initialize.
InitBroker ==
  /\ asking["init"].is = "none"
  /\ Ask("init")
  /\ late' = (late \/ asking["stop"].is # "none")
  /\ UNCHANGED <<connection, channel, links, channels, consumers, consumerTag, stopping,
                 rabbitBounds>>

Consume(ok) ==
  LET l == asking["init"].link
  IN /\ asking["init"].is = "has"
     /\ asking' = [asking EXCEPT !["init"].is = "done"]
     /\ IF ok THEN /\ l \in channels
                   /\ consumers' = consumers \cup {l}
                   /\ consumerTag' = l
                   /\ UNCHANGED errors
              ELSE /\ IF l \in channels THEN Error ELSE UNCHANGED errors
                   /\ UNCHANGED <<consumers, consumerTag>>
     /\ UNCHANGED <<linkVars, stopping, late, losses>>

-----------------------------------------------------------------------------
Pending == \E f \in Users : asking[f].is = "waiting"

Over == [at |-> "done", link |-> 0]

\* SIGTERM: shutdown asks for the channel if it has a consumer to cancel;
\* closeRabbitConnection closes what the module has then.
CloseConnection ==
  IF connection # 0 THEN [at |-> "connection", link |-> connection] ELSE Over

CloseNext ==
  IF channel # 0 THEN [at |-> "channel", link |-> channel] ELSE CloseConnection

Shutdown ==
  /\ asking["stop"].is = "none"
  /\ late' = (late \/ Pending \/ asking["init"].is \in {"none", "has"})
  /\ IF consumerTag # 0
     THEN Ask("stop") /\ UNCHANGED stopping
     ELSE /\ asking' = [asking EXCEPT !["stop"].is = "done"]
          /\ stopping' = CloseNext
          /\ UNCHANGED connecting
  /\ UNCHANGED <<connection, channel, links, channels, consumers, consumerTag, rabbitBounds>>

\* The consumer is cancelled, on the channel shutdown got; when that throws,
\* nothing is closed.
Cancel(ok) ==
  LET l == asking["stop"].link
  IN /\ asking["stop"].is \in {"has", "refused"}
     /\ asking' = [asking EXCEPT !["stop"].is = "done"]
     /\ consumerTag' = 0
     /\ IF asking["stop"].is = "refused"
        THEN ok /\ stopping' = CloseNext /\ UNCHANGED <<consumers, errors>>
        ELSE IF ok THEN /\ l \in channels
                        /\ consumers' = IF consumerTag = l THEN consumers \ {l}
                                        ELSE consumers
                        /\ stopping' = CloseNext
                        /\ UNCHANGED errors
                   ELSE /\ IF l \in channels THEN Error ELSE UNCHANGED errors
                        /\ stopping' = Over
                        /\ UNCHANGED consumers
     /\ UNCHANGED <<linkVars, late, losses>>

\* Mutant: closing ends with the channel.
ChannelClosedOnly ==
  /\ stopping.at = "channel"
  /\ stopping.link \in channels
  /\ ChannelGone(stopping.link)
  /\ channel' = 0
  /\ stopping' = Over
  /\ UNCHANGED <<connection, links, consumerTag, asking, late, rabbitBounds>>

\* channel.close is answered; the connection is next.
ChannelClosed ==
  /\ stopping.at = "channel"
  /\ stopping.link \in channels
  /\ ChannelGone(stopping.link)
  /\ channel' = 0
  /\ stopping' = CloseConnection
  /\ UNCHANGED <<connection, links, consumerTag, asking, late, rabbitBounds>>

\* connection.close is answered: the variable is emptied, whatever it holds now; and the
\* close of a channel it had clears the current one.
ConnectionClosed ==
  LET l == stopping.link
  IN /\ stopping.at = "connection"
     /\ links' = [links EXCEPT ![l] = "closed"]
     /\ ChannelGone(l)
     /\ channel' = IF l \in channels THEN 0 ELSE channel
     /\ connection' = 0
     /\ stopping' = Over
     /\ UNCHANGED <<consumerTag, asking, late, rabbitBounds>>

\* One of the two throws: the module forgets both.
CloseFails ==
  /\ stopping.at \in {"channel", "connection"}
  /\ IF \/ stopping.at = "channel" /\ stopping.link \notin channels
        \/ stopping.at = "connection" /\ links[stopping.link] # "up"
     THEN UNCHANGED errors ELSE Error
  /\ channel' = 0
  /\ connection' = 0
  /\ stopping' = Over
  /\ UNCHANGED <<connecting, links, channels, consumers, consumerTag, asking, late, losses>>

RabbitNext ==
  \/ Connected \/ ChannelCreated \/ QueueAsserted \/ AttemptFails
  \/ \E l \in Made : \/ DropLink(l) \/ CloseChannel(l)
                     \/ \E again \in BOOLEAN : RecoverLink(l, again)
  \/ \E f \in Askers : RequestChannel(f)
  \/ InitBroker \/ Shutdown
  \/ \E ok \in BOOLEAN : Consume(ok) \/ Cancel(ok)
  \/ ChannelClosed \/ ConnectionClosed \/ CloseFails

RabbitSpec == RabbitInit /\ [][RabbitNext]_rabbitVars

-----------------------------------------------------------------------------
(***************************************************************************)
(* Whoever is handed the module's channel gets an open one: losing a link, *)
(* a channel or an attempt always leaves the variable empty.               *)
(***************************************************************************)
ChannelIsOpen == channel # 0 => channel \in channels

(***************************************************************************)
(* Links do not multiply: concurrent callers share one attempt, and every  *)
(* further link answers a loss, a failure, or one of the two times that a  *)
(* shutdown empties the variables.                                         *)
(***************************************************************************)
LinksAccounted ==
  Len(links) <= 1 + losses + errors + (IF asking["stop"].is = "none" THEN 0 ELSE 2)

(***************************************************************************)
(* After a shutdown no link keeps the process alive and nothing consumes   *)
(* the chat queue, if nothing had been lost or failed before and nobody    *)
(* needed the channel meanwhile.                                           *)
(***************************************************************************)
ShutdownReleases ==
  stopping.at = "done" /\ ~late /\ losses = 0 /\ errors = 0 =>
    consumers = {} /\ (\A l \in Made : links[l] = "closed")
=============================================================================
