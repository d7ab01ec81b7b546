------------------------------- MODULE ChatSocket -------------------------------
(***************************************************************************)
(* The WebSocket server of the chat: who is let in, how the heartbeat      *)
(* finds peers that are gone, and what becomes of a message whose turn     *)
(* outlives its connection or the server.                                  *)
(***************************************************************************)
EXTENDS FiniteSets

CONSTANT Clients

VARIABLES
  client,   \* client[c]: its connection
  authed,   \* clients whose token was accepted, which have the handlers
  present,  \* clients whose peer still answers
  isAlive,  \* clients with isAlive # false
  pinged,   \* clients with an unanswered ping
  message,  \* message[c]: what became of the client's message
  wss       \* the server

wsVars == <<client, authed, present, isAlive, pinged, message, wss>>

WsTypeOK ==
  /\ client \in [Clients -> {"away", "open", "closing", "gone"}]
  /\ authed \subseteq Clients
  /\ present \subseteq Clients
  /\ isAlive \subseteq Clients
  /\ pinged \subseteq Clients
  /\ message \in [Clients -> {"none", "pending", "answered", "unheard"}]
  /\ wss \in {"on", "closing", "off"}

WsInit ==
  /\ client = [c \in Clients |-> "away"]
  /\ authed = {}
  /\ present = Clients
  /\ isAlive = {}
  /\ pinged = {}
  /\ message = [c \in Clients |-> "none"]
  /\ wss = "on"

Held == {c \in Clients : client[c] \in {"open", "closing"}}

\* A token that is missing or invalid closes the connection with 4401.
Accept(c, valid) ==
  /\ client[c] = "away"
  /\ wss = "on"
  /\ client' = [client EXCEPT ![c] = IF valid THEN "open" ELSE "closing"]
  /\ authed' = IF valid THEN authed \cup {c} ELSE authed
  /\ isAlive' = isAlive \cup {c}
  /\ UNCHANGED <<present, pinged, message, wss>>

\* The peer vanishes without a word, leaves, or has closed; ws ends a closing
\* handshake after 30 s by itself.
Vanish(c) ==
  /\ client[c] = "open" /\ c \in present
  /\ present' = present \ {c}
  /\ UNCHANGED <<client, authed, isAlive, pinged, message, wss>>

Leave(c) ==
  /\ client[c] = "closing" \/ (client[c] = "open" /\ c \in present)
  /\ client' = [client EXCEPT ![c] = "gone"]
  /\ UNCHANGED <<authed, present, isAlive, pinged, message, wss>>

\* Mutant: a ping does not take isAlive back.
TickOnTrust ==
  /\ wss = "on"
  /\ client' = [c \in Clients |-> IF c \in Held \ isAlive THEN "gone" ELSE client[c]]
  /\ pinged' = pinged \cup Held
  /\ UNCHANGED <<authed, present, isAlive, message, wss>>

\* The heartbeat: who has not answered the last ping is terminated.
Tick ==
  /\ wss = "on"
  /\ client' = [c \in Clients |-> IF c \in Held \ isAlive THEN "gone" ELSE client[c]]
  /\ pinged' = pinged \cup (Held \cap isAlive)
  /\ isAlive' = isAlive \ Held
  /\ UNCHANGED <<authed, present, message, wss>>

Pong(c) ==
  /\ c \in pinged \cap present \cap authed
  /\ client[c] = "open"
  /\ pinged' = pinged \ {c}
  /\ isAlive' = isAlive \cup {c}
  /\ UNCHANGED <<client, authed, present, message, wss>>

\* handleMessage: junk is answered with an error at once, a chat message is
\* handed to the broker.
Receive(c, wellFormed) ==
  /\ client[c] = "open" /\ c \in present
  /\ message[c] = "none"
  /\ message' = [message EXCEPT ![c] = IF wellFormed THEN "pending" ELSE "answered"]
  /\ UNCHANGED <<client, authed, present, isAlive, pinged, wss>>

\* requestChat is settled: its reply or its error goes to an open connection.
Settle(c) ==
  /\ message[c] = "pending"
  /\ message' = [message EXCEPT ![c] = IF client[c] = "open" THEN "answered"
                                       ELSE "unheard"]
  /\ UNCHANGED <<client, authed, present, isAlive, pinged, wss>>

\* shutdown: no more heartbeat; the server is closed when its clients are gone.
CloseServer ==
  /\ wss = "on"
  /\ wss' = "closing"
  /\ client' = [c \in Clients |-> IF client[c] = "open" THEN "closing" ELSE client[c]]
  /\ UNCHANGED <<authed, present, isAlive, pinged, message>>

ServerClosed ==
  /\ wss = "closing"
  /\ Held = {}
  /\ wss' = "off"
  /\ UNCHANGED <<client, authed, present, isAlive, pinged, message>>

WsNext ==
  \/ \E c \in Clients : \/ \E ok \in BOOLEAN : Accept(c, ok) \/ Receive(c, ok)
                        \/ Vanish(c) \/ Leave(c) \/ Pong(c) \/ Settle(c)
  \/ Tick \/ CloseServer \/ ServerClosed

\* The heartbeat ticks, closing handshakes end, broker requests are settled
\* (EveryCallerAnswered of ChatRpc).
WsFairness ==
  /\ WF_wsVars(Tick) /\ WF_wsVars(ServerClosed)
  /\ \A c \in Clients : /\ WF_wsVars(client[c] = "closing" /\ Leave(c))
                        /\ WF_wsVars(Settle(c))

WsSpec == WsInit /\ [][WsNext]_wsVars /\ WsFairness

-----------------------------------------------------------------------------
Hanging ==
  \/ \E c \in Clients : (c \notin present /\ client[c] # "gone") \/ message[c] = "pending"
  \/ wss = "closing"

(***************************************************************************)
(* Nothing hangs: a connection whose peer vanished is given up, a message  *)
(* is answered or its connection is gone by then, and a server that is     *)
(* shut down gets rid of all its clients.                                  *)
(***************************************************************************)
ClientsSettled == Hanging ~> ~Hanging
=============================================================================
