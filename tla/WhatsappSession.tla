---------------------------- MODULE WhatsappSession ----------------------------
(***************************************************************************)
(* The WhatsApp session of one user: WhatsappService and the Baileys       *)
(* socket it drives, under connect and disconnect requests, the retry      *)
(* timer, the phone, the network, process deaths and the resume at boot.   *)
(*                                                                         *)
(* Two requests interleave where the code awaits the disk, the network or  *)
(* a timer.  Everything between two such awaits is one step; a socket that *)
(* is ended reports its close to its listeners before end() returns.       *)
(***************************************************************************)
EXTENDS Integers, FiniteSets

CONSTANTS
  Connects,     \* GET /connect requests
  Pairing,      \* those with ?type=, which wait for a QR code
  Disconnects,  \* POST /disconnect requests
  MaxCloses,    \* bound on connections the network closes
  MaxFaults,    \* bound on failing calls
  MaxDeaths     \* bound on process deaths

ASSUME WhatsappAssumption ==
  /\ Pairing \subseteq Connects
  /\ MaxCloses \in Nat
  /\ MaxFaults \in Nat
  /\ MaxDeaths \in Nat

VARIABLES
  state,        \* the connection status the API reports
  socket,       \* the current socket, 0: undefined
  sockets,      \* the sockets that are not ended, by number
  attached,     \* number of sockets made so far
  qr,           \* lastPairingQr: the socket that showed it, 0: undefined
  scheduled,    \* reconnectScheduled
  intentional,  \* intentionalDisconnect
  timers,       \* pending retry timers
  auth,         \* the credentials in memory
  ready,        \* credentialsReady
  folder,       \* the session folder on disk
  opening,      \* what connectPromise awaits
  call,         \* call[c]: the state of connect request c
  closing,      \* closing[d]: the state of disconnect request d
  booting,      \* the sessions are yet to be resumed
  closed,       \* history: a disconnect was completed that nothing disturbed
  closes, faults, deaths

socketVars == <<state, socket, sockets, attached, qr, scheduled, intentional, timers>>
credVars == <<auth, ready, folder>>
flowVars == <<opening, call, closing, booting>>
waBounds == <<closes, faults, deaths>>
waVars == <<socketVars, credVars, flowVars, closed, waBounds>>

\* own: the socket's credentials are the object the service holds.
Socket == [creds : {"blank", "paired", "revoked"},
           phase : {"opening", "scanned", "open"}, own : BOOLEAN]

Live == DOMAIN sockets

WaTypeOK ==
  /\ state \in {"disconnected", "connecting", "connected", "error"}
  /\ socket \in Nat
  /\ attached \in Nat
  /\ Live \subseteq 1 .. attached
  /\ sockets \in [Live -> Socket]
  /\ qr \in Nat
  /\ scheduled \in BOOLEAN
  /\ intentional \in BOOLEAN
  /\ timers \in Nat
  /\ auth \in {"none", "blank", "paired", "revoked"}
  /\ ready \in BOOLEAN
  /\ folder \in {"none", "blank", "paired", "revoked"}
  /\ opening \in {"no", "folder", "version"}
  /\ call \in [Connects -> {"none", "waiting", "polling", "answered"}]
  /\ closing \in [Disconnects -> [stage : {"none", "logout", "rm", "done", "failed"},
                                  sock : Nat]]
  /\ booting \in BOOLEAN
  /\ closed \in {"no", "closing", "yes"}
  /\ closes \in 0 .. MaxCloses
  /\ faults \in 0 .. MaxFaults
  /\ deaths \in 0 .. MaxDeaths

NoSockets == [s \in {} |-> [creds |-> "blank", phase |-> "opening", own |-> TRUE]]

WaInit ==
  /\ state = "disconnected"
  /\ socket = 0
  /\ sockets = NoSockets
  /\ qr = 0
  /\ scheduled = FALSE
  /\ intentional = FALSE
  /\ timers = 0
  /\ auth = "none"
  /\ ready = FALSE
  /\ opening = "no"
  /\ booting = TRUE
  /\ attached = 0
  /\ folder \in {"none", "paired"}
  /\ call = [c \in Connects |-> "none"]
  /\ closing = [d \in Disconnects |-> [stage |-> "none", sock |-> 0]]
  /\ closed = "no"
  /\ closes = 0
  /\ faults = 0
  /\ deaths = 0

Without(s) == [t \in Live \ {s} |-> sockets[t]]

\* A disconnect under way no longer leaves the session closed for good.
Disturbed == IF closed = "closing" THEN "no" ELSE closed

Fault == faults < MaxFaults /\ faults' = faults + 1

-----------------------------------------------------------------------------
\* The current socket is ended: its listeners hear of a close without a code.
StateAfterEnd(st, intent) ==
  IF socket = 0 THEN st ELSE IF intent THEN "disconnected" ELSE "error"

NewSocket ==
  [creds |-> IF auth = "none" THEN "blank" ELSE auth, phase |-> "opening", own |-> TRUE]

\* Mutant: the old socket is not ended.
AttachBeside(st, intent, ok) ==
  /\ IF ok THEN UNCHANGED faults ELSE Fault
  /\ scheduled' = FALSE
  /\ qr' = 0
  /\ attached' = attached + 1
  /\ socket' = attached'
  /\ state' = IF ok THEN st ELSE "error"
  /\ sockets' = [s \in Live \cup {attached'} |->
                  IF s = attached' THEN NewSocket ELSE sockets[s]]

\* attach in state st, intent: intentionalDisconnect, ok: makeWASocket does not
\* throw.
Attach(st, intent, ok) ==
  /\ IF ok THEN UNCHANGED faults ELSE Fault
  /\ scheduled' = FALSE
  /\ qr' = 0
  /\ IF ok THEN /\ attached' = attached + 1
                /\ socket' = attached'
                /\ state' = StateAfterEnd(st, intent)
                /\ sockets' = [s \in (Live \ {socket}) \cup {attached'} |->
                                IF s = attached' THEN NewSocket ELSE sockets[s]]
           ELSE /\ socket' = 0
                /\ state' = "error"
                /\ sockets' = Without(socket)
                /\ UNCHANGED attached

Detach ==
  /\ scheduled' = FALSE
  /\ qr' = 0
  /\ socket' = 0
  /\ sockets' = Without(socket)

\* onSocketClosed for socket s, which is gone; only a transient reason is retried.
OnSocketClosed(s, reason) ==
  /\ sockets' = Without(s)
  /\ socket' = 0
  /\ IF ~intentional /\ reason = "transient" /\ ~scheduled
     THEN /\ state' = "connecting"
          /\ scheduled' = TRUE
          /\ timers' = timers + 1
     ELSE /\ state' = IF intentional \/ reason = "loggedOut" THEN "disconnected"
                      ELSE "error"
          /\ UNCHANGED <<scheduled, timers>>

-----------------------------------------------------------------------------
\* Every caller of the connectPromise goes on.
Resumed(calls, ok) ==
  [c \in Connects |-> IF calls[c] # "waiting" THEN calls[c]
                      ELSE IF ok /\ c \in Pairing THEN "polling" ELSE "answered"]

\* openSession, once the credentials are loaded.
OpenSession(calls, intent) ==
  IF socket # 0 /\ state \in {"connected", "connecting"}
  THEN /\ call' = Resumed(calls, TRUE)
       /\ UNCHANGED <<state, socket, sockets, attached, qr, scheduled, faults>>
  ELSE \E ok \in BOOLEAN :
         /\ Attach("connecting", intent, ok)
         /\ call' = Resumed(calls, ok)

\* Mutant: the state says connecting while the credentials are still loaded.
JoinOrOpenEarly(calls) ==
  /\ IF opening = "no" /\ ready
     THEN OpenSession(calls, FALSE) /\ UNCHANGED opening
     ELSE /\ opening' = IF opening = "no" THEN "folder" ELSE opening
          /\ call' = calls
          /\ state' = IF socket = 0 THEN "connecting" ELSE state
          /\ UNCHANGED <<socket, sockets, attached, qr, scheduled, faults>>
  /\ intentional' = (intentional /\ opening # "no")
  /\ UNCHANGED <<timers, credVars, closing, closes, deaths>>

\* connect: callers share one connectPromise.
JoinOrOpen(calls) ==
  /\ IF opening = "no" /\ ready
     THEN OpenSession(calls, FALSE) /\ UNCHANGED opening
     ELSE /\ opening' = IF opening = "no" THEN "folder" ELSE opening
          /\ call' = calls
          /\ UNCHANGED <<state, socket, sockets, attached, qr, scheduled, faults>>
  /\ intentional' = (intentional /\ opening # "no")
  /\ UNCHANGED <<timers, credVars, closing, closes, deaths>>

Connect(c) ==
  /\ call[c] = "none"
  /\ JoinOrOpen([call EXCEPT ![c] = "waiting"])
  /\ closed' = "no"
  /\ UNCHANGED booting

\* loadCredentialsOnce: the folder is read, and made if it is missing.
LoadFolder ==
  /\ opening = "folder"
  /\ opening' = "version"
  /\ auth' = IF folder = "none" THEN "blank" ELSE folder
  /\ folder' = auth'
  /\ sockets' = [s \in Live |-> [sockets[s] EXCEPT !.own = FALSE]]
  /\ UNCHANGED <<state, socket, attached, qr, scheduled, intentional, timers, ready,
                 call, closing, booting, closed, waBounds>>

FetchVersion ==
  /\ opening = "version"
  /\ opening' = "no"
  /\ ready' = TRUE
  /\ OpenSession(call, intentional)
  /\ UNCHANGED <<intentional, timers, auth, folder, closing, booting, closed,
                 closes, deaths>>

LoadFails ==
  /\ opening # "no"
  /\ Fault
  /\ opening' = "no"
  /\ call' = Resumed(call, FALSE)
  /\ UNCHANGED <<socketVars, credVars, closing, booting, closed, closes, deaths>>

\* Mutant: no deadline.
PollForever(c) ==
  /\ call[c] = "polling"
  /\ qr # 0 \/ state \in {"connected", "error"}
  /\ call' = [call EXCEPT ![c] = "answered"]
  /\ UNCHANGED <<socketVars, credVars, opening, closing, booting, closed,
                 waBounds>>

\* connectAwaitingPairingQr: an answer for whatever the poll sees, or when its time
\* is over.
Poll(c) ==
  /\ call[c] = "polling"
  /\ call' = [call EXCEPT ![c] = "answered"]
  /\ UNCHANGED <<socketVars, credVars, opening, closing, booting, closed,
                 waBounds>>

-----------------------------------------------------------------------------
\* retryOpen, 1.5 s after a transient close; nothing cancels the timer.
RetryOpen ==
  /\ timers > 0
  /\ timers' = timers - 1
  /\ IF intentional
     THEN /\ state' = "disconnected"
          /\ scheduled' = FALSE
          /\ UNCHANGED <<socket, sockets, attached, qr, faults>>
     ELSE \E ok \in BOOLEAN : Attach(state, FALSE, ok)
  /\ closed' = Disturbed
  /\ UNCHANGED <<intentional, credVars, flowVars, closes, deaths>>

\* What the phone and the network do to a socket.
ShowQr(s) ==
  /\ s \in Live
  /\ sockets[s].creds = "blank" /\ sockets[s].phase = "opening"
  /\ qr # s
  /\ qr' = s
  /\ UNCHANGED <<state, socket, sockets, attached, scheduled, intentional, timers,
                 credVars, flowVars, closed, waBounds>>

\* The phone scans the code: saveCreds, into a folder that may be gone.
Scan(s) ==
  /\ s \in Live
  /\ sockets[s].creds = "blank" /\ qr = s
  /\ sockets' = [sockets EXCEPT ![s].creds = "paired", ![s].phase = "scanned"]
  /\ auth' = IF sockets[s].own THEN "paired" ELSE auth
  /\ folder' = IF folder = "none" THEN "none" ELSE "paired"
  /\ UNCHANGED <<state, socket, attached, qr, scheduled, intentional, timers, ready,
                 flowVars, closed, waBounds>>

Opened(s) ==
  /\ s \in Live
  /\ sockets[s].creds = "paired" /\ sockets[s].phase = "opening"
  /\ sockets' = [sockets EXCEPT ![s].phase = "open"]
  /\ state' = "connected"
  /\ qr' = 0
  /\ UNCHANGED <<socket, attached, scheduled, intentional, timers, credVars, flowVars,
                 closed, waBounds>>

\* The network closes it, or WhatsApp does: after pairing for a restart, or for a
\* reason of its own, which isTransientDisconnect need not know.
Close(s) ==
  /\ s \in Live
  /\ \/ /\ sockets[s].phase = "scanned"
        /\ UNCHANGED closes
        /\ OnSocketClosed(s, "transient")
     \/ /\ sockets[s].phase # "scanned"
        /\ closes < MaxCloses
        /\ closes' = closes + 1
        /\ \E reason \in {"transient", "other"} : OnSocketClosed(s, reason)
  /\ UNCHANGED <<attached, qr, intentional, credVars, flowVars, closed, faults,
                 deaths>>

\* The account was unlinked on the phone: the credentials are worth nothing.
Revoked(creds) == IF creds = "paired" THEN "revoked" ELSE creds

LoggedOut(s) ==
  /\ s \in Live
  /\ sockets[s].creds = "paired" /\ sockets[s].phase # "scanned"
  /\ closes < MaxCloses
  /\ closes' = closes + 1
  /\ OnSocketClosed(s, "loggedOut")
  /\ auth' = Revoked(auth)
  /\ folder' = Revoked(folder)
  /\ UNCHANGED <<attached, qr, intentional, ready, flowVars, closed, faults,
                 deaths>>

\* A socket with such credentials is refused.
Refused(s) ==
  /\ s \in Live
  /\ sockets[s].creds = "revoked"
  /\ OnSocketClosed(s, "loggedOut")
  /\ UNCHANGED <<attached, qr, intentional, credVars, flowVars, closed,
                 waBounds>>

-----------------------------------------------------------------------------
\* Nothing else is under way that would open the session again.
Alone ==
  /\ opening = "no" /\ timers = 0 /\ ~booting
  /\ \A d \in Disconnects : closing[d].stage \notin {"logout", "rm"}

Noted == IF closed = "no" /\ Alone THEN "closing" ELSE closed

\* Mutant: a socket that is not connected yet is left alone.
DisconnectIfConnected(d) ==
  /\ closing[d].stage = "none"
  /\ IF socket # 0 /\ state = "connected"
     THEN /\ intentional' = FALSE
          /\ closing' = [closing EXCEPT ![d] = [stage |-> "logout", sock |-> socket]]
     ELSE /\ closing' = [closing EXCEPT ![d].stage = "rm"]
          /\ UNCHANGED intentional
  /\ scheduled' = FALSE
  /\ qr' = 0
  /\ closed' = Noted
  /\ UNCHANGED <<state, socket, sockets, attached, timers, credVars, opening, call,
                 booting, waBounds>>

\* disconnect, up to its first await.
Disconnect(d) ==
  /\ closing[d].stage = "none"
  /\ IF socket # 0 /\ state = "connected"
     THEN /\ intentional' = FALSE
          /\ closing' = [closing EXCEPT ![d] = [stage |-> "logout", sock |-> socket]]
          /\ scheduled' = FALSE
          /\ qr' = 0
          /\ UNCHANGED <<socket, sockets>>
     ELSE /\ intentional' = (socket # 0 \/ intentional)
          /\ closing' = [closing EXCEPT ![d].stage = "rm"]
          /\ Detach
  /\ closed' = Noted
  /\ UNCHANGED <<state, attached, timers, credVars, opening, call, booting, 
                 waBounds>>

\* logout: the phone drops the account, and the socket ends as logged out.
LogoutDone(d) ==
  /\ closing[d].stage = "logout"
  /\ closing[d].sock \in Live
  /\ closing' = [closing EXCEPT ![d].stage = "rm"]
  /\ state' = "disconnected"
  /\ scheduled' = FALSE
  /\ qr' = 0
  /\ socket' = 0
  /\ sockets' = Without(closing[d].sock)
  /\ auth' = Revoked(auth)
  /\ folder' = Revoked(folder)
  /\ UNCHANGED <<attached, intentional, timers, ready, opening, call, booting, 
                 closed, waBounds>>

\* logout throws, or finds that the socket is gone and may still return.
LogoutFails(d) ==
  /\ closing[d].stage = "logout"
  /\ IF closing[d].sock \in Live THEN Fault ELSE UNCHANGED faults
  /\ closing' = [closing EXCEPT ![d].stage = "rm"]
  /\ intentional' \in IF closing[d].sock \in Live THEN {TRUE} ELSE {TRUE, intentional}
  /\ Detach
  /\ UNCHANGED <<state, attached, timers, credVars, opening, call, booting, 
                 closed, closes, deaths>>

Rm(d) ==
  /\ closing[d].stage = "rm"
  /\ closing' = [closing EXCEPT ![d].stage = "done"]
  /\ folder' = "none"
  /\ ready' = FALSE
  /\ intentional' = FALSE
  /\ state' = "disconnected"
  /\ closed' = IF closed = "closing" /\ timers = 0 THEN "yes" ELSE closed
  /\ UNCHANGED <<socket, sockets, attached, qr, scheduled, timers, auth, opening, call,
                 booting, waBounds>>

RmFails(d) ==
  /\ closing[d].stage = "rm"
  /\ Fault
  /\ closing' = [closing EXCEPT ![d].stage = "failed"]
  /\ UNCHANGED <<socketVars, credVars, opening, call, booting, closed, closes, deaths>>

-----------------------------------------------------------------------------
\* The process dies; requests under way are cut off, the folder remains.
Die ==
  /\ deaths < MaxDeaths
  /\ deaths' = deaths + 1
  /\ state' = "disconnected"
  /\ socket' = 0
  /\ sockets' = NoSockets
  /\ qr' = 0
  /\ scheduled' = FALSE
  /\ intentional' = FALSE
  /\ timers' = 0
  /\ auth' = "none"
  /\ ready' = FALSE
  /\ opening' = "no"
  /\ booting' = TRUE
  /\ call' = [c \in Connects |-> IF call[c] = "none" THEN "none" ELSE "answered"]
  /\ closing' = [d \in Disconnects |->
                  IF closing[d].stage \in {"logout", "rm"}
                  THEN [closing[d] EXCEPT !.stage = "failed"] ELSE closing[d]]
  /\ closed' = Disturbed
  /\ UNCHANGED <<attached, folder, closes, faults>>

Skip == UNCHANGED <<socketVars, credVars, opening, call, closing, waBounds>>

\* resumeWhatsappSessionsOnBoot: connect, for a folder that was once paired.
Resume ==
  /\ booting
  /\ booting' = FALSE
  /\ closed' = Disturbed
  /\ IF folder \in {"paired", "revoked"} THEN JoinOrOpen(call) ELSE Skip

SocketStep(s) ==
  ShowQr(s) \/ Scan(s) \/ Opened(s) \/ Close(s) \/ LoggedOut(s) \/ Refused(s)

ConnectStep == LoadFolder \/ FetchVersion \/ LoadFails

DisconnectStep(d) == LogoutDone(d) \/ LogoutFails(d) \/ Rm(d) \/ RmFails(d)

WaNext ==
  \/ \E c \in Connects : Connect(c) \/ Poll(c)
  \/ ConnectStep
  \/ \E s \in Live : SocketStep(s)
  \/ RetryOpen
  \/ \E d \in Disconnects : Disconnect(d) \/ DisconnectStep(d)
  \/ Resume \/ Die

\* The loads of a connect end, and so does the poll for a QR code.
WaFairness == WF_waVars(ConnectStep) /\ \A c \in Connects : WF_waVars(Poll(c))

WaSpec == WaInit /\ [][WaNext]_waVars /\ WaFairness

-----------------------------------------------------------------------------
(***************************************************************************)
(* One account never has two connections: whatever connects, retries and   *)
(* closes do, the only socket that is not ended is the current one, which  *)
(* a disconnect can still find.                                            *)
(***************************************************************************)
OneLiveSocket == Live \subseteq {socket}

\* A disconnect that removes the folder, or could not, has not reset the state.
StateLeftBehind == \E d \in Disconnects : closing[d].stage \in {"rm", "failed"}

(***************************************************************************)
(* sendMessage takes a message when there is a socket and the state is     *)
(* connected: that socket is then open, not one still opening or gone.     *)
(***************************************************************************)
SendReachesOpenSocket ==
  socket # 0 /\ state = "connected" =>
    \/ socket \in Live /\ sockets[socket].phase = "open"
    \/ StateLeftBehind

(***************************************************************************)
(* A session reported as connecting is being connected: by a socket, a     *)
(* retry or a connect under way.                                           *)
(***************************************************************************)
ConnectingIsPursued ==
  state = "connecting" =>
    Live # {} \/ timers > 0 \/ opening # "no" \/ StateLeftBehind

(***************************************************************************)
(* A session the user closed, no connect or retry being under way, stays   *)
(* closed over restarts of the process until a connect: no socket, no      *)
(* folder, no code to scan.                                                *)
(***************************************************************************)
ClosedStaysClosed ==
  closed = "yes" =>
    state = "disconnected" /\ Live = {} /\ folder = "none" /\ qr = 0

(***************************************************************************)
(* Every connect request is answered, whether credentials load, codes show *)
(* up and sockets open or not.                                             *)
(***************************************************************************)
EveryConnectAnswered ==
  \A c \in Connects : call[c] \in {"waiting", "polling"} ~> call[c] = "answered"
=============================================================================
