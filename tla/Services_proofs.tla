---------------------------- MODULE Services_proofs ----------------------------
(***************************************************************************)
(* Proofs about components that share no state: WhatsappSession, RagStore, *)
(* ChatTurn, TelemetryMetrics and ScheduleTime; and about all of them      *)
(* together, with the parts proved elsewhere, as MCServices composes them. *)
(***************************************************************************)
EXTENDS MCServices, RabbitLink_proofs, Accounts_proofs, Evaluation_proofs, SequenceTheorems,
        WellFoundedInduction

-----------------------------------------------------------------------------
(* WhatsappSession *)

\* The current socket is the only one that is not ended.
CurrentLives ==
  /\ OneLiveSocket
  /\ socket # 0 => socket \in Live

\* A socket opens with the credentials of a paired account.
OpenArePaired == \A s \in Live : sockets[s].phase = "open" => sockets[s].creds = "paired"

\* What the state says, but for a disconnect that has not come to reset it.
StateIsTrue ==
  \/ StateLeftBehind
  \/ /\ state = "connected" => socket # 0 /\ sockets[socket].phase = "open"
     /\ state = "connecting" => socket # 0 \/ timers > 0

\* While a disconnect counts as undisturbed nothing is under way that opens a
\* session, and once one of them removes the folder there is no socket.
ClosedInv ==
  /\ closed # "no" => opening = "no"
  /\ closed = "closing" =>
       /\ ~booting
       /\ \A d \in Disconnects : closing[d].stage = "rm" => socket = 0 /\ qr = 0
  /\ closed = "yes" => timers = 0 /\ socket = 0
  /\ ClosedStaysClosed

SessionInv ==
  WaTypeOK /\ CurrentLives /\ OpenArePaired /\ StateIsTrue /\ ClosedInv

-----------------------------------------------------------------------------
\* What attach leaves: a new socket in the place of the old one, or none.
Attached(st, intent) ==
  /\ scheduled' = FALSE
  /\ qr' = 0
  /\ \/ /\ attached' = attached + 1
        /\ socket' = attached'
        /\ Live' = {attached'}
        /\ sockets' \in [Live' -> Socket]
        /\ sockets'[attached'].phase = "opening"
        /\ state' = StateAfterEnd(st, intent)
     \/ /\ socket' = 0 /\ Live' = {}
        /\ state' = "error"
        /\ attached' = attached
        /\ sockets' \in [Live' -> Socket]
  /\ faults' \in 0 .. MaxFaults

LEMMA AttachMakesOne ==
  ASSUME WaTypeOK, OneLiveSocket, NEW st, NEW intent \in BOOLEAN,
         \E good \in BOOLEAN : Attach(st, intent, good)
  PROVE  Attached(st, intent)
<1>0. NewSocket \in Socket /\ NewSocket.phase = "opening"
  BY DEF NewSocket, Socket, WaTypeOK
<1>1. CASE Attach(st, intent, TRUE)
  <2>1. /\ scheduled' = FALSE /\ qr' = 0
        /\ attached' = attached + 1 /\ socket' = attached'
        /\ state' = StateAfterEnd(st, intent)
        /\ sockets' = [s \in (Live \ {socket}) \cup {attached'} |->
                         IF s = attached' THEN NewSocket ELSE sockets[s]]
        /\ faults' = faults
    BY <1>1, Zenon DEF Attach
  <2>2. (Live \ {socket}) \cup {attached'} = {attached'}
    BY DEF OneLiveSocket
  <2>3. sockets' = [s \in {attached'} |-> NewSocket]
    BY <2>1, <2>2
  <2>4. Live' = {attached'} /\ sockets' \in [Live' -> Socket]
        /\ sockets'[attached'] = NewSocket
    BY <1>0, <2>3 DEF Live
  <2>5. QED
    BY <1>0, <2>1, <2>4 DEF Attached, WaTypeOK
<1>2. CASE Attach(st, intent, FALSE)
  <2>1. /\ scheduled' = FALSE /\ qr' = 0
        /\ socket' = 0 /\ state' = "error" /\ attached' = attached
        /\ sockets' = Without(socket)
        /\ Fault
    BY <1>2, Zenon DEF Attach
  <2>2. Live \ {socket} = {}
    BY DEF OneLiveSocket
  <2>3. Live' = {} /\ sockets' \in [Live' -> Socket]
    BY <2>1, <2>2 DEF Live, Without
  <2>4. faults' \in 0 .. MaxFaults
    BY <2>1, WhatsappAssumption DEF Fault, WaTypeOK
  <2>5. QED
    BY <2>1, <2>3, <2>4 DEF Attached
<1>3. QED
  BY <1>1, <1>2

\* The current socket is gone.
Emptied == socket' = 0 /\ Live' = {} /\ sockets' \in [Live' -> Socket]

LEMMA WithoutIsEmpty ==
  ASSUME WaTypeOK, OneLiveSocket, NEW s, s = socket \/ s \in Live,
         sockets' = Without(s), socket' = 0
  PROVE  Emptied
<1>1. Live \ {s} = {}
  BY DEF OneLiveSocket
<1>2. QED
  BY <1>1 DEF Emptied, Without, Live

\* The session is opened with a socket there is, or with a new one.
Opens(intent) ==
  \/ /\ socket # 0
     /\ UNCHANGED <<state, socket, sockets, attached, qr, scheduled, faults>>
  \/ Attached("connecting", intent)

CallStates == [Connects -> {"none", "waiting", "polling", "answered"}]

LEMMA ResumedIsCalls ==
  \A calls \in CallStates, good \in BOOLEAN : Resumed(calls, good) \in CallStates
  BY DEF CallStates, Resumed

LEMMA OpenSessionOpens ==
  ASSUME WaTypeOK, OneLiveSocket, NEW calls \in CallStates, NEW intent \in BOOLEAN,
         OpenSession(calls, intent)
  PROVE  Opens(intent) /\ call' \in CallStates
<1>1. CASE /\ socket # 0
           /\ call' = Resumed(calls, TRUE)
           /\ UNCHANGED <<state, socket, sockets, attached, qr, scheduled, faults>>
  BY <1>1, ResumedIsCalls DEF Opens
<1>2. ASSUME NEW good \in BOOLEAN,
             Attach("connecting", intent, good) /\ call' = Resumed(calls, good)
      PROVE  Opens(intent) /\ call' \in CallStates
  <2>1. Attached("connecting", intent)
    BY <1>2, AttachMakesOne, Zenon
  <2>2. QED
    BY <1>2, <2>1, ResumedIsCalls, Zenon DEF Opens
<1>3. QED
  BY <1>1, <1>2, Zenon DEF OpenSession

\* connect opens the session at once or waits for its credentials.
LEMMA JoinOrOpenGoes ==
  ASSUME WaTypeOK, OneLiveSocket, NEW calls \in CallStates, JoinOrOpen(calls)
  PROVE  /\ call' \in CallStates
         /\ intentional' \in BOOLEAN
         /\ opening' \in {"no", "folder", "version"}
         /\ \/ Opens(FALSE) /\ opening' = opening
            \/ UNCHANGED <<state, socket, sockets, attached, qr, scheduled, faults>>
         /\ UNCHANGED <<timers, credVars, closing, closes, deaths>>
<1>1. /\ intentional' \in BOOLEAN
      /\ UNCHANGED <<timers, credVars, closing, closes, deaths>>
  BY DEF JoinOrOpen
<1>2. CASE OpenSession(calls, FALSE) /\ UNCHANGED opening
  BY <1>1, <1>2, OpenSessionOpens DEF WaTypeOK
<1>3. CASE /\ opening' = IF opening = "no" THEN "folder" ELSE opening
           /\ call' = calls
           /\ UNCHANGED <<state, socket, sockets, attached, qr, scheduled, faults>>
  BY <1>1, <1>3 DEF WaTypeOK
<1>4. QED
  BY <1>2, <1>3, Zenon DEF JoinOrOpen

-----------------------------------------------------------------------------
LEMMA InitSession == WaInit => SessionInv
<1> SUFFICES ASSUME WaInit PROVE SessionInv
  OBVIOUS
<1>1. Live = {} /\ sockets \in [Live -> Socket]
  BY DEF WaInit, NoSockets, Live
<1>2. WaTypeOK
  <2>1. /\ call \in [Connects -> {"none"}]
        /\ closing \in [Disconnects -> [stage : {"none"}, sock : {0}]]
    BY DEF WaInit
  <2>2. /\ closes \in 0 .. MaxCloses /\ faults \in 0 .. MaxFaults
        /\ deaths \in 0 .. MaxDeaths
    BY WhatsappAssumption DEF WaInit
  <2>3. /\ state = "disconnected" /\ socket = 0 /\ attached = 0 /\ qr = 0
        /\ scheduled = FALSE /\ intentional = FALSE /\ timers = 0 /\ auth = "none"
        /\ ready = FALSE /\ folder \in {"none", "paired"} /\ opening = "no"
        /\ booting = TRUE /\ closed = "no"
    BY Zenon DEF WaInit
  <2>4. closing \in [Disconnects -> [stage : {"none", "logout", "rm", "done", "failed"},
                                     sock : Nat]]
    BY <2>1
  <2>5. call \in [Connects -> {"none", "waiting", "polling", "answered"}]
    BY <2>1
  <2>6. QED
    BY <1>1, <2>2, <2>3, <2>4, <2>5 DEF WaTypeOK
<1>3. QED
  BY <1>1, <1>2
     DEF WaInit, SessionInv, CurrentLives, OneLiveSocket, OpenArePaired, StateIsTrue,
         ClosedInv, ClosedStaysClosed

\* What opening a session does to what is known of its socket.
LEMMA OpensKeeps ==
  ASSUME SessionInv, NEW intent \in BOOLEAN, Opens(intent), timers' = timers,
         closing' = closing
  PROVE  CurrentLives' /\ OpenArePaired' /\ StateIsTrue'
<1>1. CASE UNCHANGED <<state, socket, sockets>>
  BY <1>1 DEF SessionInv, CurrentLives, OneLiveSocket, OpenArePaired, StateIsTrue,
              StateLeftBehind, Live
<1>2. CASE Attached("connecting", intent)
  <2>1. CurrentLives'
    BY <1>2 DEF Attached, CurrentLives, OneLiveSocket
  <2>2. OpenArePaired'
    BY <1>2 DEF Attached, OpenArePaired
  <2>3. StateIsTrue'
    BY <1>2 DEF Attached, StateIsTrue, StateAfterEnd, SessionInv, WaTypeOK
  <2>4. QED
    BY <2>1, <2>2, <2>3
<1>3. QED
  BY <1>1, <1>2 DEF Opens

LEMMA OpensTypes ==
  ASSUME WaTypeOK, NEW intent \in BOOLEAN, Opens(intent)
  PROVE  /\ state' \in {"disconnected", "connecting", "connected", "error"}
         /\ socket' \in Nat /\ attached' \in Nat
         /\ Live' \subseteq 1 .. attached'
         /\ sockets' \in [Live' -> Socket]
         /\ qr' \in Nat /\ scheduled' \in BOOLEAN
         /\ faults' \in 0 .. MaxFaults
<1>1. CASE UNCHANGED <<state, socket, sockets, attached, qr, scheduled, faults>>
  BY <1>1 DEF WaTypeOK, Live
<1>2. CASE Attached("connecting", intent)
  <2>1. \/ attached' = attached + 1 /\ socket' = attached' /\ Live' = {attached'}
        \/ attached' = attached /\ socket' = 0 /\ Live' = {}
    BY <1>2 DEF Attached
  <2>2. attached \in Nat
    BY DEF WaTypeOK
  <2>3. state' \in {"disconnected", "connecting", "connected", "error"}
    BY <1>2 DEF Attached, StateAfterEnd
  <2>4. socket' \in Nat /\ attached' \in Nat /\ Live' \subseteq 1 .. attached'
    BY <2>1, <2>2
  <2>5. /\ sockets' \in [Live' -> Socket]
        /\ qr' = 0 /\ scheduled' = FALSE
        /\ faults' \in 0 .. MaxFaults
    BY <1>2, Zenon DEF Attached
  <2>6. QED
    BY <2>3, <2>4, <2>5
<1>3. QED
  BY <1>1, <1>2 DEF Opens

\* Nothing but where requests are changes.
LEMMA SessionStays ==
  ASSUME SessionInv, UNCHANGED <<socketVars, credVars, closing, booting, closed>>,
         opening' = opening \/ opening' = "no",
         call' \in CallStates, closes' = closes, faults' \in 0 .. MaxFaults, deaths' = deaths
  PROVE  SessionInv'
<1> USE DEF SessionInv, socketVars, credVars
<1>1. WaTypeOK'
  BY DEF WaTypeOK, Live, CallStates
<1>2. CurrentLives' /\ OpenArePaired' /\ StateIsTrue'
  BY DEF CurrentLives, OneLiveSocket, OpenArePaired, StateIsTrue, StateLeftBehind, Live
<1>3. ClosedInv'
  BY DEF ClosedInv, ClosedStaysClosed, Live
<1>4. QED
  BY <1>1, <1>2, <1>3

LEMMA SessionConnect ==
  ASSUME SessionInv, NEW c \in Connects, Connect(c) \/ Poll(c)
  PROVE  SessionInv'
<1>1. CASE Connect(c)
  <2> DEFINE calls == [call EXCEPT ![c] = "waiting"]
  <2>1. calls \in CallStates
    BY DEF SessionInv, WaTypeOK, CallStates
  <2>2. JoinOrOpen(calls) /\ closed' = "no" /\ booting' = booting
    BY <1>1, Zenon DEF Connect
  <2> HIDE DEF calls
  <2>3. /\ call' \in CallStates
        /\ intentional' \in BOOLEAN
        /\ opening' \in {"no", "folder", "version"}
        /\ Opens(FALSE) \/ UNCHANGED <<state, socket, sockets, attached, qr, scheduled, faults>>
        /\ UNCHANGED <<timers, credVars, closing, closes, deaths>>
    BY <2>1, <2>2, JoinOrOpenGoes, Zenon DEF SessionInv, CurrentLives
  <2>4. CASE Opens(FALSE)
    <3>1. CurrentLives' /\ OpenArePaired' /\ StateIsTrue'
      BY <2>3, <2>4, OpensKeeps
    <3>2. WaTypeOK'
      BY <2>2, <2>3, <2>4, OpensTypes DEF SessionInv, WaTypeOK, CallStates, credVars
    <3>3. QED
      BY <2>2, <3>1, <3>2 DEF SessionInv, ClosedInv, ClosedStaysClosed
  <2>5. CASE UNCHANGED <<state, socket, sockets, attached, qr, scheduled, faults>>
    <3>1. CurrentLives' /\ OpenArePaired' /\ StateIsTrue'
      BY <2>3, <2>5
         DEF SessionInv, CurrentLives, OneLiveSocket, OpenArePaired, StateIsTrue,
             StateLeftBehind, Live
    <3>2. WaTypeOK'
      BY <2>2, <2>3, <2>5 DEF SessionInv, WaTypeOK, CallStates, credVars, Live
    <3>3. QED
      BY <2>2, <3>1, <3>2 DEF SessionInv, ClosedInv, ClosedStaysClosed
  <2>6. QED
    BY <2>3, <2>4, <2>5
<1>2. CASE Poll(c)
  <2>1. call' \in CallStates
    BY <1>2 DEF Poll, SessionInv, WaTypeOK, CallStates
  <2>2. QED
    BY <1>2, <2>1, SessionStays DEF Poll, SessionInv, WaTypeOK, waBounds
<1>3. QED
  BY <1>1, <1>2

LEMMA SessionLoads ==
  ASSUME SessionInv, ConnectStep
  PROVE  SessionInv'
<1> USE DEF SessionInv
<1>1. CASE LoadFolder
  <2>1. sockets' = [s \in Live |-> [sockets[s] EXCEPT !.own = FALSE]]
    BY <1>1, Zenon DEF LoadFolder
  <2>2. Live' = Live
    BY <2>1 DEF Live
  <2>3. \A s \in Live : sockets[s] \in Socket
    BY DEF WaTypeOK
  <2>4. \A s \in Live : /\ sockets'[s] \in Socket
                        /\ sockets'[s].phase = sockets[s].phase
                        /\ sockets'[s].creds = sockets[s].creds
    BY <2>1, <2>3 DEF Socket
  <2>5. /\ opening = "folder" /\ opening' = "version"
        /\ auth' \in {"blank", "paired", "revoked"} /\ folder' = auth'
        /\ UNCHANGED <<state, socket, attached, qr, scheduled, intentional, timers,
                       ready, call, closing, booting, closed, closes, faults, deaths>>
    BY <1>1 DEF LoadFolder, WaTypeOK, waBounds
  <2>6. sockets' \in [Live' -> Socket]
    BY <2>1, <2>2, <2>4
  <2>7. WaTypeOK'
    BY <2>2, <2>5, <2>6 DEF WaTypeOK
  <2>8. CurrentLives' /\ OpenArePaired' /\ StateIsTrue'
    BY <2>2, <2>4, <2>5
       DEF CurrentLives, OneLiveSocket, OpenArePaired, StateIsTrue, StateLeftBehind
  <2>9. closed = "no"
    BY <2>5 DEF ClosedInv, WaTypeOK
  <2>10. QED
    BY <2>5, <2>7, <2>8, <2>9 DEF ClosedInv, ClosedStaysClosed
<1>2. CASE FetchVersion
  <2>1. /\ opening = "version" /\ opening' = "no" /\ ready' = TRUE
        /\ OpenSession(call, intentional)
        /\ UNCHANGED <<intentional, timers, auth, folder, closing, booting, closed,
                       closes, deaths>>
    BY <1>2, Zenon DEF FetchVersion
  <2>2. call \in CallStates /\ intentional \in BOOLEAN
    BY DEF WaTypeOK, CallStates
  <2>3. Opens(intentional) /\ call' \in CallStates
    BY <2>1, <2>2, OpenSessionOpens, Zenon DEF CurrentLives
  <2>4. CurrentLives' /\ OpenArePaired' /\ StateIsTrue'
    BY <2>1, <2>2, <2>3, OpensKeeps
  <2>5. WaTypeOK'
    BY <2>1, <2>2, <2>3, OpensTypes DEF WaTypeOK, CallStates
  <2>6. closed = "no"
    BY <2>1 DEF ClosedInv, WaTypeOK
  <2>7. QED
    BY <2>1, <2>4, <2>5, <2>6 DEF ClosedInv, ClosedStaysClosed
<1>3. CASE LoadFails
  <2>1. call \in CallStates
    BY DEF WaTypeOK, CallStates
  <2>2. call' = Resumed(call, FALSE) /\ opening' = "no" /\ Fault
        /\ UNCHANGED <<socketVars, credVars, closing, booting, closed, closes, deaths>>
    BY <1>3, Zenon DEF LoadFails
  <2>3. call' \in CallStates
    BY <2>1, <2>2, ResumedIsCalls
  <2>4. faults' \in 0 .. MaxFaults
    BY <2>2, WhatsappAssumption DEF Fault, WaTypeOK
  <2>5. QED
    BY <2>2, <2>3, <2>4, SessionStays
<1>4. QED
  BY <1>1, <1>2, <1>3 DEF ConnectStep

\* A socket that closes was the current one, and a retry is due if the state
\* says connecting.
LEMMA ClosesCurrent ==
  ASSUME SessionInv, NEW s \in Live, NEW reason, OnSocketClosed(s, reason),
         closing' = closing
  PROVE  /\ Emptied /\ socket = s /\ s # 0
         /\ CurrentLives' /\ OpenArePaired' /\ StateIsTrue'
         /\ state' \in {"disconnected", "connecting", "connected", "error"}
         /\ scheduled' \in BOOLEAN /\ timers' \in Nat
<1> USE DEF SessionInv
<1>1. /\ sockets' = Without(s) /\ socket' = 0
      /\ \/ state' = "connecting" /\ scheduled' = TRUE /\ timers' = timers + 1
         \/ /\ state' \in {"disconnected", "error"}
            /\ UNCHANGED <<scheduled, timers>>
  BY DEF OnSocketClosed
<1>2. Emptied /\ socket = s /\ s # 0
  BY <1>1, WithoutIsEmpty DEF CurrentLives, OneLiveSocket, WaTypeOK
<1>3. timers \in Nat /\ timers' \in Nat /\ scheduled' \in BOOLEAN
  <2>1. timers \in Nat /\ scheduled \in BOOLEAN
    BY DEF WaTypeOK
  <2>2. timers' \in Nat
    BY <1>1, <2>1
  <2>3. scheduled' \in BOOLEAN
    BY <1>1, <2>1, Zenon
  <2>4. QED
    BY <2>1, <2>2, <2>3
<1>4. state' = "connecting" => timers' > 0
  BY <1>1, <1>3
<1>5. CurrentLives' /\ OpenArePaired' /\ StateIsTrue'
  BY <1>1, <1>2, <1>4
     DEF Emptied, CurrentLives, OneLiveSocket, OpenArePaired, StateIsTrue
<1>6. QED
  BY <1>1, <1>2, <1>3, <1>5

LEMMA SessionSocket ==
  ASSUME SessionInv, NEW s \in Live, SocketStep(s)
  PROVE  SessionInv'
<1> USE DEF SessionInv
<1>0. s = socket /\ s # 0 /\ s \in Nat /\ sockets[s] \in Socket
  BY DEF CurrentLives, OneLiveSocket, WaTypeOK
<1>1. CASE ShowQr(s)
  <2>1. /\ qr' = s
        /\ UNCHANGED <<state, socket, sockets, attached, scheduled, intentional, timers,
                       credVars, flowVars, closed, waBounds>>
    BY <1>1, Zenon DEF ShowQr
  <2>2. WaTypeOK'
    BY <1>0, <2>1 DEF WaTypeOK, Live, credVars, flowVars, waBounds
  <2>3. QED
    BY <1>0, <2>1, <2>2
       DEF CurrentLives, OneLiveSocket, OpenArePaired, StateIsTrue, StateLeftBehind,
           ClosedInv, ClosedStaysClosed, Live, flowVars
<1>2. CASE Scan(s)
  <2>1. /\ sockets[s].creds = "blank"
        /\ sockets' = [sockets EXCEPT ![s].creds = "paired", ![s].phase = "scanned"]
        /\ auth' = (IF sockets[s].own THEN "paired" ELSE auth)
        /\ folder' = (IF folder = "none" THEN "none" ELSE "paired")
        /\ UNCHANGED <<state, socket, attached, qr, scheduled, intentional, timers,
                       ready, flowVars, closed, waBounds>>
    BY <1>2, Zenon DEF Scan
  <2> DEFINE t == [sockets[s] EXCEPT !.creds = "paired", !.phase = "scanned"]
  <2>2. t \in Socket /\ t.phase = "scanned"
    BY <1>0 DEF Socket
  <2>3. sockets' = [sockets EXCEPT ![s] = t]
    BY <1>0, <2>1 DEF WaTypeOK, Live, Socket
  <2> HIDE DEF t
  <2>4. Live' = Live /\ sockets' \in [Live' -> Socket]
    BY <2>2, <2>3 DEF WaTypeOK, Live
  <2>5. sockets[s].phase # "open"
    BY <2>1 DEF OpenArePaired
  <2>6. WaTypeOK'
    BY <2>1, <2>4 DEF WaTypeOK, flowVars, waBounds
  <2>7. CurrentLives' /\ OpenArePaired'
    BY <2>1, <2>2, <2>3, <2>4
       DEF CurrentLives, OneLiveSocket, OpenArePaired, WaTypeOK, Live
  <2>8. StateIsTrue'
    BY <1>0, <2>1, <2>5 DEF StateIsTrue, StateLeftBehind, flowVars
  <2>9. ClosedInv'
    BY <1>0, <2>1 DEF ClosedInv, ClosedStaysClosed, flowVars
  <2>10. QED
    BY <2>6, <2>7, <2>8, <2>9
<1>3. CASE Opened(s)
  <2>1. /\ sockets[s].creds = "paired"
        /\ sockets' = [sockets EXCEPT ![s].phase = "open"]
        /\ state' = "connected" /\ qr' = 0
        /\ UNCHANGED <<socket, attached, scheduled, intentional, timers, credVars,
                       flowVars, closed, waBounds>>
    BY <1>3, Zenon DEF Opened
  <2> DEFINE t == [sockets[s] EXCEPT !.phase = "open"]
  <2>2. t \in Socket /\ t.phase = "open" /\ t.creds = "paired"
    BY <1>0, <2>1 DEF Socket
  <2>3. sockets' = [sockets EXCEPT ![s] = t]
    BY <1>0, <2>1 DEF WaTypeOK, Live, Socket
  <2> HIDE DEF t
  <2>4. Live' = Live /\ sockets' \in [Live' -> Socket]
    BY <2>2, <2>3 DEF WaTypeOK, Live
  <2>5. WaTypeOK'
    BY <2>1, <2>4 DEF WaTypeOK, credVars, flowVars, waBounds
  <2>6. CurrentLives' /\ OpenArePaired'
    BY <2>1, <2>2, <2>3, <2>4
       DEF CurrentLives, OneLiveSocket, OpenArePaired, WaTypeOK, Live
  <2>7. sockets'[s] = t
    BY <2>3 DEF WaTypeOK, Live
  <2>8. StateIsTrue'
    BY <1>0, <2>1, <2>2, <2>7 DEF StateIsTrue
  <2>9. ClosedInv'
    BY <1>0, <2>1 DEF ClosedInv, ClosedStaysClosed, flowVars
  <2>10. QED
    BY <2>5, <2>6, <2>8, <2>9
<1>4. CASE Close(s) \/ LoggedOut(s) \/ Refused(s)
  <2>1. /\ \E reason \in {"transient", "loggedOut", "other"} : OnSocketClosed(s, reason)
        /\ UNCHANGED <<attached, qr, intentional, ready, flowVars, closed, faults, deaths>>
        /\ closes' # closes => closes < MaxCloses /\ closes' = closes + 1
        /\ auth' \in {auth, Revoked(auth)}
        /\ folder' \in {folder, Revoked(folder)}
    <3>1. CASE Close(s)
      <4>1. /\ \E reason \in {"transient", "other"} : OnSocketClosed(s, reason)
            /\ UNCHANGED <<attached, qr, intentional, credVars, flowVars, closed, faults,
                           deaths>>
            /\ closes' # closes => closes < MaxCloses /\ closes' = closes + 1
        BY <3>1, Zenon DEF Close
      <4>2. QED
        BY <4>1 DEF credVars
    <3>2. CASE LoggedOut(s)
      <4>1. /\ OnSocketClosed(s, "loggedOut")
            /\ UNCHANGED <<attached, qr, intentional, ready, flowVars, closed, faults,
                           deaths>>
            /\ closes < MaxCloses /\ closes' = closes + 1
            /\ auth' = Revoked(auth) /\ folder' = Revoked(folder)
        BY <3>2, Zenon DEF LoggedOut
      <4>2. QED
        BY <4>1
    <3>3. CASE Refused(s)
      <4>1. /\ OnSocketClosed(s, "loggedOut")
            /\ UNCHANGED <<attached, qr, intentional, credVars, flowVars, closed, waBounds>>
        BY <3>3, Zenon DEF Refused
      <4>2. QED
        BY <4>1 DEF credVars, waBounds
    <3>4. QED
      BY <1>4, <3>1, <3>2, <3>3
  <2>2. /\ Emptied /\ CurrentLives' /\ OpenArePaired' /\ StateIsTrue'
        /\ state' \in {"disconnected", "connecting", "connected", "error"}
        /\ scheduled' \in BOOLEAN /\ timers' \in Nat
    BY <2>1, ClosesCurrent DEF flowVars
  <2>3. closes' \in 0 .. MaxCloses
    BY <2>1, WhatsappAssumption DEF WaTypeOK
  <2>4. WaTypeOK'
    BY <2>1, <2>2, <2>3 DEF WaTypeOK, Emptied, Revoked, flowVars
  <2>5. ClosedInv'
    BY <1>0, <2>1, <2>2 DEF ClosedInv, ClosedStaysClosed, Emptied, flowVars
  <2>6. QED
    BY <2>2, <2>4, <2>5
<1>5. QED
  BY <1>1, <1>2, <1>3, <1>4 DEF SocketStep

\* retryOpen goes on only from a close, so a state of connected has its socket.
LEMMA SessionRetry ==
  ASSUME SessionInv, RetryOpen
  PROVE  SessionInv'
<1> USE DEF SessionInv
<1>1. /\ timers > 0 /\ timers' = timers - 1
      /\ closed' = Disturbed
      /\ UNCHANGED <<intentional, credVars, flowVars, closes, deaths>>
  BY Zenon DEF RetryOpen
<1>2. timers' \in Nat /\ closed # "yes" /\ closed' = "no"
  BY <1>1 DEF WaTypeOK, ClosedInv, Disturbed
<1>3. CASE /\ state' = "disconnected" /\ scheduled' = FALSE
           /\ UNCHANGED <<socket, sockets, attached, qr, faults>>
  <2>1. WaTypeOK'
    BY <1>1, <1>2, <1>3 DEF WaTypeOK, Live, credVars, flowVars
  <2>2. CurrentLives' /\ OpenArePaired' /\ StateIsTrue'
    BY <1>3 DEF CurrentLives, OneLiveSocket, OpenArePaired, StateIsTrue, Live
  <2>3. QED
    BY <1>2, <2>1, <2>2 DEF ClosedInv, ClosedStaysClosed
<1>4. CASE \E good \in BOOLEAN : Attach(state, FALSE, good)
  <2>1. Attached(state, FALSE)
    BY <1>4, AttachMakesOne DEF CurrentLives
  <2>2. \/ attached' = attached + 1 /\ socket' = attached' /\ Live' = {attached'}
        \/ attached' = attached /\ socket' = 0 /\ Live' = {}
    BY <2>1 DEF Attached
  <2>3. socket' \in Nat /\ attached' \in Nat /\ Live' \subseteq 1 .. attached'
    BY <2>2 DEF WaTypeOK
  <2>4. state' \in {"disconnected", "connecting", "connected", "error"}
    BY <2>1 DEF Attached, StateAfterEnd, WaTypeOK
  <2>5. /\ sockets' \in [Live' -> Socket]
        /\ qr' = 0 /\ scheduled' = FALSE
        /\ faults' \in 0 .. MaxFaults
    BY <2>1, Zenon DEF Attached
  <2>6. WaTypeOK'
    BY <1>1, <1>2, <2>3, <2>4, <2>5 DEF WaTypeOK, credVars, flowVars
  <2>7. CurrentLives'
    BY <2>2, <2>3 DEF CurrentLives, OneLiveSocket
  <2>8. OpenArePaired'
    BY <2>1 DEF Attached, OpenArePaired
  <2>9. StateIsTrue'
    BY <1>1, <2>1, <2>2, <2>3
       DEF Attached, StateIsTrue, StateLeftBehind, StateAfterEnd, flowVars
  <2>10. QED
    BY <1>2, <2>6, <2>7, <2>8, <2>9 DEF ClosedInv, ClosedStaysClosed
<1>5. QED
  BY <1>3, <1>4, Zenon DEF RetryOpen

-----------------------------------------------------------------------------
ClosingStates ==
  [Disconnects -> [stage : {"none", "logout", "rm", "done", "failed"}, sock : Nat]]

LEMMA DetachEmpties ==
  ASSUME WaTypeOK, OneLiveSocket, Detach
  PROVE  Emptied /\ scheduled' = FALSE /\ qr' = 0
  BY WithoutIsEmpty, Zenon DEF Detach

\* With the socket gone, what remains is what the state and the disconnects say.
LEMMA SessionEmptied ==
  ASSUME SessionInv, Emptied, qr' = 0, scheduled' = FALSE,
         UNCHANGED <<attached, timers, ready, opening, call, booting, closes, deaths>>,
         closing' \in ClosingStates, intentional' \in BOOLEAN,
         state' \in {state, "disconnected"},
         StateLeftBehind' \/ state' = "disconnected",
         auth' \in {auth, Revoked(auth)}, folder' \in {folder, Revoked(folder)},
         faults' \in 0 .. MaxFaults,
         \/ closed' = closed
         \/ closed = "no" /\ Alone /\ closed' = "closing"
  PROVE  SessionInv'
<1> USE DEF SessionInv
<1>1. WaTypeOK'
  <2>1. /\ socket' = 0 /\ Live' = {} /\ sockets' \in [Live' -> Socket]
    BY DEF Emptied
  <2>2. /\ auth' \in {"none", "blank", "paired", "revoked"}
        /\ folder' \in {"none", "blank", "paired", "revoked"}
        /\ state' \in {"disconnected", "connecting", "connected", "error"}
        /\ closed' \in {"no", "closing", "yes"}
    BY DEF WaTypeOK, Revoked
  <2>3. QED
    BY <2>1, <2>2 DEF WaTypeOK, ClosingStates
<1>2. CurrentLives' /\ OpenArePaired' /\ StateIsTrue'
  BY DEF Emptied, CurrentLives, OneLiveSocket, OpenArePaired, StateIsTrue
<1>3. closed' = "yes" => closed = "yes"
  OBVIOUS
<1>4. folder = "none" => folder' = "none"
  BY DEF Revoked
<1>5. ClosedInv'
  BY <1>3, <1>4 DEF Emptied, ClosedInv, ClosedStaysClosed, Alone
<1>6. QED
  BY <1>1, <1>2, <1>5

LEMMA SessionDisconnect ==
  ASSUME SessionInv, NEW d \in Disconnects, Disconnect(d)
  PROVE  SessionInv'
<1> USE DEF SessionInv
<1>0. /\ closing[d].stage = "none"
      /\ closed' = Noted
      /\ UNCHANGED <<state, attached, timers, credVars, opening, call, booting, waBounds>>
  BY Zenon DEF Disconnect
<1>1. \/ closed' = closed
      \/ closed = "no" /\ Alone /\ closed' = "closing"
  BY <1>0 DEF Noted
<1>2. closing[d] \in [stage : {"none", "logout", "rm", "done", "failed"}, sock : Nat]
  BY DEF WaTypeOK
<1>3. CASE /\ socket # 0 /\ state = "connected"
           /\ intentional' = FALSE
           /\ closing' = [closing EXCEPT ![d] = [stage |-> "logout", sock |-> socket]]
           /\ scheduled' = FALSE
           /\ qr' = 0
           /\ UNCHANGED <<socket, sockets>>
  <2>1. closing' \in ClosingStates
    BY <1>3 DEF WaTypeOK, ClosingStates
  <2>2. /\ closing'[d].stage = "logout"
        /\ \A e \in Disconnects \ {d} : closing'[e] = closing[e]
    BY <1>3 DEF WaTypeOK
  <2>3. WaTypeOK'
    <3>1. closed' \in {"no", "closing", "yes"}
      BY <1>1 DEF WaTypeOK
    <3>2. Live' = Live /\ sockets' = sockets /\ scheduled' \in BOOLEAN /\ intentional' \in BOOLEAN
      BY <1>3 DEF Live
    <3>3. QED
      BY <1>0, <1>3, <2>1, <3>1, <3>2 DEF WaTypeOK, ClosingStates, credVars, waBounds
  <2>4. CurrentLives' /\ OpenArePaired'
    BY <1>3 DEF CurrentLives, OneLiveSocket, OpenArePaired, Live
  <2>5. StateIsTrue'
    BY <1>0, <1>3, <2>2 DEF StateIsTrue, StateLeftBehind
  <2>6. closed # "yes" /\ Live # {}
    BY <1>3 DEF ClosedInv, CurrentLives
  <2>7. ClosedInv'
    BY <1>0, <1>1, <1>3, <2>2, <2>6 DEF ClosedInv, ClosedStaysClosed, Alone
  <2>8. QED
    BY <2>3, <2>4, <2>5, <2>7
<1>4. CASE /\ intentional' = (socket # 0 \/ intentional)
           /\ closing' = [closing EXCEPT ![d].stage = "rm"]
           /\ Detach
  <2>1. Emptied /\ scheduled' = FALSE /\ qr' = 0
    BY <1>4, DetachEmpties DEF CurrentLives
  <2>2. closing' \in ClosingStates /\ closing'[d].stage = "rm"
    BY <1>2, <1>4 DEF WaTypeOK, ClosingStates
  <2>3. intentional' \in BOOLEAN
    BY <1>4, Zenon DEF WaTypeOK
  <2>4. StateLeftBehind'
    BY <2>2 DEF StateLeftBehind
  <2>5. faults' \in 0 .. MaxFaults
    BY <1>0 DEF WaTypeOK, waBounds
  <2>6. QED
    BY <1>0, <1>1, <2>1, <2>2, <2>3, <2>4, <2>5, SessionEmptied DEF credVars, waBounds
<1>5. QED
  BY <1>3, <1>4, Zenon DEF Disconnect

LEMMA SessionDisconnecting ==
  ASSUME SessionInv, NEW d \in Disconnects, DisconnectStep(d)
  PROVE  SessionInv'
<1> USE DEF SessionInv
<1>0. closing[d] \in [stage : {"none", "logout", "rm", "done", "failed"}, sock : Nat]
  BY DEF WaTypeOK
<1>1. ASSUME NEW phase \in {"rm", "done", "failed"},
             closing' = [closing EXCEPT ![d].stage = phase]
      PROVE  /\ closing' \in ClosingStates
             /\ closing'[d].stage = phase
             /\ \A e \in Disconnects \ {d} : closing'[e] = closing[e]
  BY <1>0, <1>1 DEF WaTypeOK, ClosingStates
<1>2. CASE LogoutDone(d)
  <2>1. /\ closing[d].sock \in Live
        /\ closing' = [closing EXCEPT ![d].stage = "rm"]
        /\ state' = "disconnected" /\ scheduled' = FALSE /\ qr' = 0 /\ socket' = 0
        /\ sockets' = Without(closing[d].sock)
        /\ auth' = Revoked(auth) /\ folder' = Revoked(folder)
        /\ UNCHANGED <<attached, intentional, timers, ready, opening, call, booting,
                       closed, waBounds>>
    BY <1>2, Zenon DEF LogoutDone
  <2>2. Emptied
    BY <2>1, WithoutIsEmpty DEF CurrentLives
  <2>3. closing' \in ClosingStates
    BY <1>1, <2>1
  <2>4. intentional' \in BOOLEAN /\ faults' \in 0 .. MaxFaults
    BY <2>1 DEF WaTypeOK, waBounds
  <2>5. QED
    BY <2>1, <2>2, <2>3, <2>4, SessionEmptied DEF waBounds
<1>3. CASE LogoutFails(d)
  <2>1. /\ closing' = [closing EXCEPT ![d].stage = "rm"]
        /\ intentional' \in {TRUE, intentional}
        /\ Detach
        /\ UNCHANGED <<state, attached, timers, credVars, opening, call, booting,
                       closed, closes, deaths>>
        /\ Fault \/ faults' = faults
    BY <1>3, Zenon DEF LogoutFails
  <2>2. Emptied /\ scheduled' = FALSE /\ qr' = 0
    BY <2>1, DetachEmpties DEF CurrentLives
  <2>3. closing' \in ClosingStates /\ StateLeftBehind'
    BY <1>1, <2>1 DEF StateLeftBehind
  <2>4. faults' \in 0 .. MaxFaults
    BY <2>1, WhatsappAssumption DEF Fault, WaTypeOK
  <2>5. intentional' \in BOOLEAN
    BY <2>1 DEF WaTypeOK
  <2>6. QED
    BY <2>1, <2>2, <2>3, <2>4, <2>5, SessionEmptied DEF credVars
<1>4. CASE Rm(d)
  <2>1. /\ closing[d].stage = "rm"
        /\ closing' = [closing EXCEPT ![d].stage = "done"]
        /\ folder' = "none" /\ ready' = FALSE /\ intentional' = FALSE
        /\ state' = "disconnected"
        /\ closed' = (IF closed = "closing" /\ timers = 0 THEN "yes" ELSE closed)
        /\ UNCHANGED <<socket, sockets, attached, qr, scheduled, timers, auth,
                       opening, call, booting, waBounds>>
    BY <1>4, Zenon DEF Rm
  <2>2. /\ closing' \in ClosingStates
        /\ \A e \in Disconnects : closing'[e].stage = "rm" => closing[e].stage = "rm"
    BY <1>1, <2>1
  <2>3. WaTypeOK'
    BY <2>1, <2>2 DEF WaTypeOK, Live, ClosingStates, waBounds
  <2>4. CurrentLives' /\ OpenArePaired' /\ StateIsTrue'
    BY <2>1 DEF CurrentLives, OneLiveSocket, OpenArePaired, StateIsTrue, Live
  <2>5. socket = 0 => Live = {}
    BY DEF CurrentLives, OneLiveSocket, WaTypeOK
  <2>6. ClosedInv'
    BY <2>1, <2>2, <2>5 DEF ClosedInv, ClosedStaysClosed, Live
  <2>7. QED
    BY <2>3, <2>4, <2>6
<1>5. CASE RmFails(d)
  <2>1. /\ closing' = [closing EXCEPT ![d].stage = "failed"]
        /\ Fault
        /\ UNCHANGED <<socketVars, credVars, opening, call, booting, closed, closes,
                       deaths>>
    BY <1>5, Zenon DEF RmFails
  <2>2. /\ closing' \in ClosingStates /\ StateLeftBehind'
        /\ \A e \in Disconnects : closing'[e].stage = "rm" => closing[e].stage = "rm"
    BY <1>1, <2>1 DEF StateLeftBehind
  <2>3. faults' \in 0 .. MaxFaults
    BY <2>1, WhatsappAssumption DEF Fault, WaTypeOK
  <2>4. WaTypeOK'
    BY <2>1, <2>2, <2>3 DEF WaTypeOK, Live, ClosingStates, socketVars, credVars
  <2>5. CurrentLives' /\ OpenArePaired' /\ StateIsTrue'
    BY <2>1, <2>2
       DEF CurrentLives, OneLiveSocket, OpenArePaired, StateIsTrue, Live, socketVars
  <2>6. ClosedInv'
    BY <2>1, <2>2 DEF ClosedInv, ClosedStaysClosed, Live, socketVars, credVars
  <2>7. QED
    BY <2>4, <2>5, <2>6
<1>6. QED
  BY <1>2, <1>3, <1>4, <1>5 DEF DisconnectStep

\* The resume at boot opens nothing of a session without a folder.
LEMMA SessionResume ==
  ASSUME SessionInv, Resume
  PROVE  SessionInv'
<1> USE DEF SessionInv
<1>1. booting /\ booting' = FALSE /\ closed' = Disturbed
  BY Zenon DEF Resume
<1>2. call \in CallStates /\ closed' \in {"no", "yes"} /\ closed # "closing"
      /\ closed' = closed
  BY <1>1 DEF WaTypeOK, CallStates, Disturbed, ClosedInv
<1>3. CASE Skip
  <2>1. WaTypeOK'
    <3>1. UNCHANGED <<state, socket, sockets, attached, qr, scheduled, intentional, timers,
                      auth, ready, folder, opening, call, closing, closes, faults, deaths>>
      BY <1>3 DEF Skip, socketVars, credVars, waBounds
    <3>2. Live' = Live
      BY <3>1 DEF Live
    <3>3. booting' \in BOOLEAN /\ closed' \in {"no", "closing", "yes"}
      BY <1>1, <1>2
    <3>4. sockets' \in [Live' -> Socket] /\ Live' \subseteq 1 .. attached'
      BY <3>1, <3>2 DEF WaTypeOK
    <3>5. QED
      BY <3>1, <3>3, <3>4 DEF WaTypeOK
  <2>2. CurrentLives' /\ OpenArePaired' /\ StateIsTrue'
    BY <1>3
       DEF Skip, CurrentLives, OneLiveSocket, OpenArePaired, StateIsTrue,
           StateLeftBehind, Live, socketVars
  <2>3. ClosedInv'
    BY <1>2, <1>3 DEF Skip, ClosedInv, ClosedStaysClosed, Live, socketVars, credVars
  <2>4. QED
    BY <2>1, <2>2, <2>3
<1>4. CASE folder \in {"paired", "revoked"} /\ JoinOrOpen(call)
  <2>1. /\ call' \in CallStates
        /\ intentional' \in BOOLEAN
        /\ opening' \in {"no", "folder", "version"}
        /\ Opens(FALSE) \/ UNCHANGED <<state, socket, sockets, attached, qr, scheduled, faults>>
        /\ UNCHANGED <<timers, credVars, closing, closes, deaths>>
    BY <1>2, <1>4, JoinOrOpenGoes, Zenon DEF CurrentLives
  <2>2. closed' = "no"
    BY <1>2, <1>4 DEF ClosedInv, ClosedStaysClosed
  <2>3. CASE Opens(FALSE)
    <3>1. CurrentLives' /\ OpenArePaired' /\ StateIsTrue'
      BY <2>1, <2>3, OpensKeeps
    <3>2. WaTypeOK'
      BY <1>1, <2>1, <2>2, <2>3, OpensTypes DEF WaTypeOK, CallStates, credVars
    <3>3. QED
      BY <2>2, <3>1, <3>2 DEF ClosedInv, ClosedStaysClosed
  <2>4. CASE UNCHANGED <<state, socket, sockets, attached, qr, scheduled, faults>>
    <3>1. CurrentLives' /\ OpenArePaired' /\ StateIsTrue'
      BY <2>1, <2>4
         DEF CurrentLives, OneLiveSocket, OpenArePaired, StateIsTrue, StateLeftBehind,
             Live
    <3>2. WaTypeOK'
      BY <1>1, <2>1, <2>2, <2>4 DEF WaTypeOK, CallStates, credVars, Live
    <3>3. QED
      BY <2>2, <3>1, <3>2 DEF ClosedInv, ClosedStaysClosed
  <2>5. QED
    BY <2>1, <2>3, <2>4
<1>5. QED
  BY <1>3, <1>4, Zenon DEF Resume

LEMMA SessionDie ==
  ASSUME SessionInv, Die
  PROVE  SessionInv'
<1> USE DEF SessionInv
<1>1. /\ state' = "disconnected" /\ socket' = 0 /\ sockets' = NoSockets /\ qr' = 0
      /\ scheduled' = FALSE /\ intentional' = FALSE /\ timers' = 0 /\ auth' = "none"
      /\ ready' = FALSE /\ opening' = "no" /\ booting' = TRUE /\ closed' = Disturbed
      /\ UNCHANGED <<attached, folder, closes, faults>>
  BY Zenon DEF Die
<1>2. Live' = {} /\ sockets' \in [Live' -> Socket]
  BY <1>1 DEF NoSockets, Live
<1>3. call' \in CallStates
  BY DEF Die, WaTypeOK, CallStates
<1>4. closing' \in ClosingStates
  BY DEF Die, WaTypeOK, ClosingStates
<1>5. deaths' \in 0 .. MaxDeaths
  BY WhatsappAssumption DEF Die, WaTypeOK
<1>6. closed' \in {"no", "yes"} /\ (closed' = "yes" => closed = "yes")
  BY <1>1 DEF Disturbed, WaTypeOK
<1>7. WaTypeOK'
  BY <1>1, <1>2, <1>3, <1>4, <1>5, <1>6 DEF WaTypeOK, CallStates, ClosingStates
<1>8. CurrentLives' /\ OpenArePaired' /\ StateIsTrue'
  BY <1>1, <1>2 DEF CurrentLives, OneLiveSocket, OpenArePaired, StateIsTrue
<1>9. ClosedInv'
  BY <1>1, <1>2, <1>6 DEF ClosedInv, ClosedStaysClosed
<1>10. QED
  BY <1>7, <1>8, <1>9

LEMMA NextSession ==
  ASSUME SessionInv, [WaNext]_waVars
  PROVE  SessionInv'
<1>1. CASE UNCHANGED waVars
  <2>1. /\ UNCHANGED <<socketVars, credVars, closing, booting, closed, call, opening,
                       closes, faults, deaths>>
    BY <1>1 DEF waVars, flowVars, waBounds
  <2>2. call \in CallStates /\ faults \in 0 .. MaxFaults
    BY DEF SessionInv, WaTypeOK, CallStates
  <2>3. QED
    BY <2>1, <2>2, SessionStays
<1>2. CASE WaNext
  BY <1>2, SessionConnect, SessionLoads, SessionSocket, SessionRetry,
     SessionDisconnect, SessionDisconnecting, SessionResume, SessionDie, Zenon DEF WaNext
<1>3. QED
  BY <1>1, <1>2

LEMMA SessionCorrect == WaSpec => []SessionInv
  BY InitSession, NextSession, PTL DEF WaSpec

LEMMA SessionSound ==
  SessionInv => /\ OneLiveSocket /\ SendReachesOpenSocket
                /\ ConnectingIsPursued /\ ClosedStaysClosed
  BY DEF SessionInv, CurrentLives, StateIsTrue, ClosedInv, SendReachesOpenSocket,
         ConnectingIsPursued

(***************************************************************************)
(* For any number of requests, closes, failures and deaths: one account    *)
(* never has two connections, and a disconnect can find the one it has.    *)
(***************************************************************************)
THEOREM OneLiveSocketCorrect == WaSpec => []OneLiveSocket
  BY SessionSound, SessionCorrect, PTL

(***************************************************************************)
(* A message that sendMessage takes goes to an open socket, unless a       *)
(* disconnect has not reset the state.                                     *)
(***************************************************************************)
THEOREM SendReachesCorrect == WaSpec => []SendReachesOpenSocket
  BY SessionSound, SessionCorrect, PTL

(***************************************************************************)
(* A session reported as connecting has a socket or a retry, unless a      *)
(* disconnect has not reset the state.                                     *)
(***************************************************************************)
THEOREM ConnectingPursuedCorrect == WaSpec => []ConnectingIsPursued
  BY SessionSound, SessionCorrect, PTL

(***************************************************************************)
(* A session closed while nothing else was under way stays closed, over    *)
(* any deaths, until it is asked for again.                                *)
(***************************************************************************)
THEOREM ClosedStaysClosedCorrect == WaSpec => []ClosedStaysClosed
  BY SessionSound, SessionCorrect, PTL

-----------------------------------------------------------------------------
(* RagStore *)

IndexStages == {"reach", "embed", "verify", "backup"}
DeleteStages == {"destroy", "fetch", "delete"}

\* How much of its list an indexing has written.
Written(r) == IF r.stage = "verify" THEN r.done + BatchSize ELSE r.done

HasRow(d) == \E n \in DOMAIN rows : rows[n] = d
Works(q, d) == d \in rag[q].docs

\* What a request knows of its documents and of its row.
RequestsFit ==
  \A q \in Readers :
    /\ rag[q].stage \in IndexStages =>
         /\ rag[q].docs = ToSet(rag[q].list)
         /\ Repeated(rag[q].list) \subseteq suspect
         /\ Len(rag[q].list) <= MaxDocs
    /\ rag[q].stage = "destroy" =>
         /\ rag[q].row \in DOMAIN rows
         /\ rows[rag[q].row] \in rag[q].docs \cup {NoDoc}
    /\ rag[q].stage \in DeleteStages => \A c, d \in rag[q].docs : c = d

\* One request works on the document, and it has one row.
SoleWork(d) ==
  /\ \A p, q \in Readers : Works(p, d) /\ Works(q, d) => p = q
  /\ \A i, j \in DOMAIN rows : rows[i] = d /\ rows[j] = d => i = j

\* Where the document is while a request works on it.
WorkIs(q, d) ==
  Works(q, d) =>
    /\ rag[q].stage # "destroy" => ~HasRow(d)
    /\ rag[q].stage \in IndexStages =>
         \A i \in DOMAIN rag[q].list :
           /\ rag[q].list[i] = d
           /\ rag[q].stage = "backup" \/ i <= Written(rag[q])
           => d \in vectors
    /\ rag[q].stage = "destroy" => rows[rag[q].row] = d
    /\ rag[q].stage \in DeleteStages => d \in vectors

Kept(d) ==
  /\ HasRow(d) => d \in vectors
  /\ d \in vectors => HasRow(d) \/ \E q \in Readers : Works(q, d)

DocumentIs(d) == SoleWork(d) /\ (\A q \in Readers : WorkIs(q, d)) /\ Kept(d)

RagInv == RagTypeOK /\ RequestsFit /\ \A d \in Docs \ suspect : DocumentIs(d)

-----------------------------------------------------------------------------
LEMMA BackedHasRow == \A d \in Docs : d \in Backed <=> HasRow(d)
  BY RagAssumption DEF Backed, HasRow

LEMMA UnderWayWorks == \A d : d \in UnderWay <=> \E q \in Readers : Works(q, d)
  BY DEF UnderWay, Works

Indexing == [stage : IndexStages, docs : SUBSET Docs, list : Seq(Docs), done : 0 .. MaxDocs]
Deleting == [stage : DeleteStages, docs : SUBSET Docs, row : 1 .. MaxRows]
Searching == [stage : {"search"}, docs : {{}}, attempt : 1 .. MaxAttempts]

LEMMA RequestKinds ==
  ASSUME RagTypeOK, NEW q \in Readers
  PROVE  /\ rag[q].stage \in IndexStages => rag[q] \in Indexing
         /\ rag[q].stage \in DeleteStages => rag[q] \in Deleting
         /\ rag[q].stage = "search" => rag[q] \in Searching
         /\ rag[q].stage = "idle" => rag[q] = Quiet
         /\ rag[q].stage \in IndexStages \cup DeleteStages \cup {"search", "idle"}
         /\ rag[q].docs \subseteq Docs
<1>1. \/ rag[q] = Quiet
      \/ rag[q] \in Indexing
      \/ rag[q] \in Deleting
      \/ rag[q] \in Searching
  BY Zenon DEF RagTypeOK, RagRequest, Indexing, Deleting, Searching, IndexStages, DeleteStages
<1>2. CASE rag[q] = Quiet
  BY <1>2 DEF Quiet, IndexStages, DeleteStages
<1>3. CASE rag[q] \in Indexing
  BY <1>3 DEF Indexing, IndexStages, DeleteStages
<1>4. CASE rag[q] \in Deleting
  BY <1>4 DEF Deleting, IndexStages, DeleteStages
<1>5. CASE rag[q] \in Searching
  BY <1>5 DEF Searching, IndexStages, DeleteStages
<1>6. QED
  BY <1>1, <1>2, <1>3, <1>4, <1>5

LEMMA RequestIs ==
  /\ Indexing \subseteq RagRequest
  /\ Deleting \subseteq RagRequest
  /\ Searching \subseteq RagRequest
  /\ Quiet \in RagRequest
  BY Zenon DEF RagRequest, Indexing, Deleting, Searching, IndexStages, DeleteStages

\* A request goes on; the others stay where they are.
LEMMA GoesTo ==
  ASSUME RagTypeOK, NEW q \in Readers, NEW r \in RagRequest, Goes(q, r)
  PROVE  /\ rag' \in [Readers -> RagRequest]
         /\ rag'[q] = r
         /\ \A p \in Readers : p # q => rag'[p] = rag[p]
  BY DEF RagTypeOK, Goes

-----------------------------------------------------------------------------
RowsAgree(d) ==
  \A n : n \in DOMAIN rows' /\ rows'[n] = d <=> n \in DOMAIN rows /\ rows[n] = d

\* A document that request q neither worked on nor works on.
LEMMA DocumentApart ==
  ASSUME RequestsFit, NEW d, DocumentIs(d), NEW q \in Readers,
         \A p \in Readers : p # q => rag'[p] = rag[p],
         ~Works(q, d), ~Works(q, d)',
         d \in vectors' <=> d \in vectors, RowsAgree(d)
  PROVE  DocumentIs(d)'
<1>1. HasRow(d)' <=> HasRow(d)
  BY DEF RowsAgree, HasRow
<1>2. \A p \in Readers : Works(p, d)' <=> Works(p, d)
  BY DEF Works
<1>3. SoleWork(d)'
  BY <1>2 DEF DocumentIs, SoleWork, RowsAgree
<1>4. ASSUME NEW p \in Readers
      PROVE  WorkIs(p, d)'
  <2>1. CASE Works(p, d)
    <3>1. p # q /\ rag'[p] = rag[p] /\ WorkIs(p, d)
      BY <2>1 DEF DocumentIs
    <3>2. rag[p].stage = "destroy" => rows'[rag[p].row] = d
      BY <2>1, <3>1 DEF WorkIs, RowsAgree, RequestsFit
    <3>3. QED
      BY <1>1, <2>1, <3>1, <3>2 DEF WorkIs, Written
  <2>2. CASE ~Works(p, d)
    BY <1>2, <2>2 DEF WorkIs
  <2>3. QED
    BY <2>1, <2>2
<1>5. Kept(d)'
  BY <1>1, <1>2 DEF DocumentIs, Kept
<1>6. QED
  BY <1>3, <1>4, <1>5 DEF DocumentIs

\* A document that request q works on, and goes on working on.
LEMMA DocumentInHand ==
  ASSUME NEW d, NEW q \in Readers,
         \A p \in Readers : p # q => rag'[p] = rag[p] /\ ~Works(p, d),
         Works(q, d)', WorkIs(q, d)', HasRow(d)' => d \in vectors',
         \A i, j \in DOMAIN rows' : rows'[i] = d /\ rows'[j] = d => i = j
  PROVE  DocumentIs(d)'
<1>1. \A p \in Readers : p # q => ~Works(p, d)'
  BY DEF Works
<1>2. QED
  BY <1>1 DEF DocumentIs, SoleWork, WorkIs, Kept

\* A document that request q is done with.
LEMMA DocumentLeft ==
  ASSUME NEW d, NEW q \in Readers,
         \A p \in Readers : p # q => rag'[p] = rag[p] /\ ~Works(p, d),
         ~Works(q, d)', HasRow(d)' <=> d \in vectors',
         \A i, j \in DOMAIN rows' : rows'[i] = d /\ rows'[j] = d => i = j
  PROVE  DocumentIs(d)'
<1>1. \A p \in Readers : ~Works(p, d)'
  BY DEF Works
<1>2. QED
  BY <1>1 DEF DocumentIs, SoleWork, WorkIs, Kept

\* Requests that did not move, with their rows still there.
LEMMA RequestsStillFit ==
  ASSUME RequestsFit, NEW q \in Readers,
         \A p \in Readers : p # q => rag'[p] = rag[p],
         suspect \subseteq suspect',
         \A n \in DOMAIN rows : n \in DOMAIN rows' /\ rows'[n] \in {rows[n], NoDoc},
         rag'[q].stage \in IndexStages =>
           /\ rag'[q].docs = ToSet(rag'[q].list)
           /\ Repeated(rag'[q].list) \subseteq suspect'
           /\ Len(rag'[q].list) <= MaxDocs,
         rag'[q].stage = "destroy" =>
           /\ rag'[q].row \in DOMAIN rows'
           /\ rows'[rag'[q].row] \in rag'[q].docs \cup {NoDoc},
         rag'[q].stage \in DeleteStages => \A c, d \in rag'[q].docs : c = d
  PROVE  RequestsFit'
<1> SUFFICES ASSUME NEW p \in Readers, p # q
             PROVE  /\ rag'[p].stage \in IndexStages =>
                         /\ rag'[p].docs = ToSet(rag'[p].list)
                         /\ Repeated(rag'[p].list) \subseteq suspect'
                         /\ Len(rag'[p].list) <= MaxDocs
                    /\ rag'[p].stage = "destroy" =>
                         /\ rag'[p].row \in DOMAIN rows'
                         /\ rows'[rag'[p].row] \in rag'[p].docs \cup {NoDoc}
                    /\ rag'[p].stage \in DeleteStages => \A c, d \in rag'[p].docs : c = d
  BY DEF RequestsFit
<1>1. rag'[p] = rag[p]
  OBVIOUS
<1>2. QED
  BY <1>1 DEF RequestsFit

-----------------------------------------------------------------------------
LEMMA InitRag == RagInit => RagInv
<1> SUFFICES ASSUME RagInit PROVE RagInv
  OBVIOUS
<1>1. \A q \in Readers : rag[q] = Quiet
  BY DEF RagInit
<1>2. \A q \in Readers : rag[q].stage = "idle" /\ rag[q].docs = {}
  BY <1>1 DEF Quiet
<1>3. RagTypeOK
  BY RequestIs, RagAssumption DEF RagInit, RagTypeOK
<1>4. RequestsFit
  BY <1>2 DEF RequestsFit, IndexStages, DeleteStages
<1>5. \A d \in Docs : DocumentIs(d)
  BY <1>2 DEF RagInit, DocumentIs, SoleWork, WorkIs, Kept, HasRow, Works
<1>6. QED
  BY <1>3, <1>4, <1>5 DEF RagInv

\* A document new to table, index and requests comes under way.
LEMMA RagIndex ==
  ASSUME RagInv, NEW q \in Readers, NEW list \in BoundedSeq(Docs, MaxDocs),
         IndexDocuments(q, list)
  PROVE  RagInv'
<1> USE DEF RagInv
<1>0. list \in Seq(Docs) /\ Len(list) <= MaxDocs
  <2>1. PICK m \in 0 .. MaxDocs : list \in [1 .. m -> Docs]
    BY DEF BoundedSeq, SeqOf
  <2>2. QED
    BY <2>1, RagAssumption
<1>1. ToSet(list) \subseteq Docs
  BY <1>0 DEF ToSet
<1> DEFINE r == [stage |-> "reach", docs |-> ToSet(list), list |-> list, done |-> 0]
<1>2. /\ rag[q] = Quiet
      /\ Goes(q, r)
      /\ suspect' = suspect \cup Repeated(list)
                      \cup (ToSet(list) \cap (vectors \cup Backed \cup UnderWay))
      /\ UNCHANGED <<vectors, rows>>
  BY Zenon DEF IndexDocuments
<1>3. r \in Indexing /\ r.stage = "reach" /\ r.docs = ToSet(list) /\ r.list = list /\ r.done = 0
  BY <1>0, <1>1, RagAssumption DEF Indexing, IndexStages
<1> HIDE DEF r
<1>4. /\ rag' \in [Readers -> RagRequest] /\ rag'[q] = r
      /\ \A p \in Readers : p # q => rag'[p] = rag[p]
  BY <1>2, <1>3, GoesTo, RequestIs
<1>5. suspect' \subseteq Docs
  BY <1>1, <1>2 DEF RagTypeOK, Repeated
<1>6. RagTypeOK'
  BY <1>2, <1>4, <1>5 DEF RagTypeOK
<1>7. RequestsFit'
  BY <1>0, <1>2, <1>3, <1>4, RequestsStillFit DEF IndexStages, DeleteStages
<1>8. ASSUME NEW d \in Docs \ suspect'
      PROVE  DocumentIs(d)'
  <2>1. d \notin suspect /\ DocumentIs(d)
    BY <1>2, <1>8
  <2>2. ~Works(q, d) /\ (Works(q, d)' <=> d \in ToSet(list))
    BY <1>2, <1>3, <1>4 DEF Works, Quiet
  <2>3. CASE d \in ToSet(list)
    <3>1. ~HasRow(d) /\ d \notin vectors /\ \A p \in Readers : ~Works(p, d)
      BY <1>2, <1>8, <2>3, BackedHasRow, UnderWayWorks
    <3>2. ~HasRow(d)'
      BY <1>2, <3>1 DEF HasRow
    <3>3. DOMAIN list \subseteq Nat /\ \A i \in DOMAIN list : i > 0
      BY <1>0
    <3>4. WorkIs(q, d)'
      BY <1>3, <1>4, <3>2, <3>3 DEF WorkIs, Written, DeleteStages
    <3>5. QED
      BY <1>2, <1>4, <2>1, <2>2, <2>3, <3>1, <3>2, <3>4, DocumentInHand
         DEF DocumentIs, SoleWork
  <2>4. CASE d \notin ToSet(list)
    BY <1>2, <1>4, <2>1, <2>2, <2>4, DocumentApart DEF RowsAgree
  <2>5. QED
    BY <2>3, <2>4
<1>9. QED
  BY <1>6, <1>7, <1>8

\* A step of an indexing that leaves the table alone: what it has written of its
\* list is in the index.
LEMMA RagIndexing ==
  ASSUME RagInv, NEW q \in Readers, NEW r \in Indexing,
         rag[q].stage \in IndexStages, Goes(q, r),
         r.docs = rag[q].docs, r.list = rag[q].list,
         vectors \subseteq vectors', vectors' \subseteq vectors \cup rag[q].docs,
         \A i \in DOMAIN r.list :
           r.stage = "backup" \/ i <= Written(r) => r.list[i] \in vectors' \cup suspect,
         UNCHANGED <<rows, suspect>>
  PROVE  RagInv'
<1> USE DEF RagInv
<1>1. /\ rag' \in [Readers -> RagRequest] /\ rag'[q] = r
      /\ \A p \in Readers : p # q => rag'[p] = rag[p]
  BY GoesTo, RequestIs
<1>2. r.stage \in IndexStages /\ r.stage \notin DeleteStages
  BY DEF Indexing, IndexStages, DeleteStages
<1>3. RagTypeOK'
  BY <1>1, RequestKinds DEF RagTypeOK
<1>4. RequestsFit'
  BY <1>1, <1>2, RequestsStillFit DEF RequestsFit, DeleteStages
<1>5. ASSUME NEW d \in Docs \ suspect'
      PROVE  DocumentIs(d)'
  <2>1. d \notin suspect /\ DocumentIs(d)
    BY <1>5
  <2>2. Works(q, d)' <=> Works(q, d)
    BY <1>1 DEF Works
  <2>3. CASE Works(q, d)
    <3>1. rag[q].stage # "destroy" /\ ~HasRow(d)
      BY <2>1, <2>3 DEF DocumentIs, WorkIs, IndexStages
    <3>2. ~HasRow(d)'
      BY <3>1 DEF HasRow
    <3>3. WorkIs(q, d)'
      BY <1>1, <1>2, <2>1, <3>2 DEF WorkIs, Written, IndexStages, DeleteStages
    <3>4. QED
      BY <1>1, <2>1, <2>2, <2>3, <3>2, <3>3, DocumentInHand DEF DocumentIs, SoleWork
  <2>4. CASE ~Works(q, d)
    <3>1. d \in vectors' <=> d \in vectors
      BY <2>4 DEF Works
    <3>2. QED
      BY <1>1, <2>1, <2>2, <2>4, <3>1, DocumentApart DEF RowsAgree
  <2>5. QED
    BY <2>3, <2>4
<1>6. QED
  BY <1>3, <1>4, <1>5

\* What an indexing has written so far, of the documents that count.
LEMMA WrittenAre ==
  ASSUME RagInv, NEW q \in Readers, rag[q].stage \in IndexStages
  PROVE  /\ rag[q] \in Indexing
         /\ rag[q].docs = ToSet(rag[q].list)
         /\ \A i \in DOMAIN rag[q].list : rag[q].list[i] \in rag[q].docs
         /\ \A i \in DOMAIN rag[q].list :
              rag[q].stage = "backup" \/ i <= Written(rag[q])
                => rag[q].list[i] \in vectors \cup suspect
<1> USE DEF RagInv
<1>1. rag[q] \in Indexing /\ rag[q].docs = ToSet(rag[q].list) /\ rag[q].docs \subseteq Docs
  BY RequestKinds DEF RequestsFit
<1>2. ASSUME NEW i \in DOMAIN rag[q].list, rag[q].stage = "backup" \/ i <= Written(rag[q]),
             rag[q].list[i] \notin suspect
      PROVE  rag[q].list[i] \in vectors
  <2>1. rag[q].list[i] \in rag[q].docs
    BY <1>1 DEF ToSet
  <2>2. WorkIs(q, rag[q].list[i])
    BY <1>1, <1>2, <2>1 DEF DocumentIs
  <2>3. QED
    BY <1>2, <2>1, <2>2 DEF WorkIs, Works
<1>3. QED
  BY <1>1, <1>2 DEF ToSet

LEMMA RagBatches ==
  ASSUME RagInv, NEW q \in Readers, ReachIndex(q) \/ EmbedBatch(q) \/ VerifyBatch(q)
  PROVE  RagInv'
<1>1. rag[q].stage \in IndexStages
  BY DEF ReachIndex, EmbedBatch, VerifyBatch, IndexStages
<1>2. /\ rag[q] \in Indexing
      /\ rag[q].docs = ToSet(rag[q].list)
      /\ \A i \in DOMAIN rag[q].list : rag[q].list[i] \in rag[q].docs
      /\ \A i \in DOMAIN rag[q].list :
           rag[q].stage = "backup" \/ i <= Written(rag[q])
             => rag[q].list[i] \in vectors \cup suspect
  BY <1>1, WrittenAre
<1>3. ASSUME NEW phase \in IndexStages, At(q, phase)
      PROVE  \E r \in Indexing :
               /\ Goes(q, r) /\ r.stage = phase
               /\ r.docs = rag[q].docs /\ r.list = rag[q].list /\ r.done = rag[q].done
  <2> DEFINE r == [rag[q] EXCEPT !.stage = phase]
  <2>1. Goes(q, r)
    BY <1>3, Zenon DEF At
  <2>2. /\ r \in Indexing /\ r.stage = phase
        /\ r.docs = rag[q].docs /\ r.list = rag[q].list /\ r.done = rag[q].done
    BY <1>2 DEF Indexing
  <2> HIDE DEF r
  <2>3. QED
    BY <2>1, <2>2
<1>4. BatchSize \in Nat \ {0} /\ rag[q].done \in Nat /\ rag[q].list \in Seq(Docs)
  BY <1>2, RagAssumption DEF Indexing
<1>5. \A i \in DOMAIN rag[q].list : i \in Nat
  BY <1>4
<1>6. CASE ReachIndex(q)
  <2>1. At(q, "embed") /\ rag[q].stage = "reach" /\ UNCHANGED <<vectors, rows, suspect>>
    BY <1>6 DEF ReachIndex
  <2>2. PICK r \in Indexing :
          /\ Goes(q, r) /\ r.stage = "embed"
          /\ r.docs = rag[q].docs /\ r.list = rag[q].list /\ r.done = rag[q].done
    BY <1>3, <2>1 DEF IndexStages
  <2>3. \A i \in DOMAIN r.list :
          r.stage = "backup" \/ i <= Written(r) => r.list[i] \in vectors' \cup suspect
    BY <1>2, <2>1, <2>2 DEF Written
  <2>4. QED
    BY <1>1, <2>1, <2>2, <2>3, RagIndexing
<1>7. CASE EmbedBatch(q)
  <2>1. /\ At(q, "verify") /\ rag[q].stage = "embed" /\ UNCHANGED <<rows, suspect>>
        /\ vectors' = vectors \cup Batch(rag[q])
    BY <1>7 DEF EmbedBatch
  <2>2. PICK r \in Indexing :
          /\ Goes(q, r) /\ r.stage = "verify"
          /\ r.docs = rag[q].docs /\ r.list = rag[q].list /\ r.done = rag[q].done
    BY <1>3, <2>1 DEF IndexStages
  <2>3. Batch(rag[q]) \subseteq rag[q].docs
    BY <1>2 DEF Batch
  <2>4. \A i \in DOMAIN rag[q].list :
          i > rag[q].done /\ i <= rag[q].done + BatchSize => rag[q].list[i] \in vectors'
    BY <2>1 DEF Batch
  <2>5. \A i \in DOMAIN r.list :
          r.stage = "backup" \/ i <= Written(r) => r.list[i] \in vectors' \cup suspect
    <3> SUFFICES ASSUME NEW i \in DOMAIN rag[q].list, i <= rag[q].done + BatchSize
                 PROVE  rag[q].list[i] \in vectors' \cup suspect
      BY <2>2 DEF Written
    <3>1. CASE i <= rag[q].done
      BY <1>2, <2>1, <3>1 DEF Written
    <3>2. CASE i > rag[q].done
      BY <2>4, <3>2
    <3>3. QED
      BY <1>4, <1>5, <3>1, <3>2
  <2>6. QED
    BY <1>1, <2>1, <2>2, <2>3, <2>5, RagIndexing
<1>8. CASE VerifyBatch(q)
  <2>1. rag[q].stage = "verify" /\ UNCHANGED <<vectors, rows, suspect>>
    BY <1>8, Zenon DEF VerifyBatch
  <2>2. Written(rag[q]) = rag[q].done + BatchSize
    BY <2>1 DEF Written
  <2>3. CASE /\ rag[q].done + BatchSize < Len(rag[q].list)
             /\ Goes(q, [rag[q] EXCEPT !.stage = "embed", !.done = @ + BatchSize])
    <3> DEFINE r == [rag[q] EXCEPT !.stage = "embed", !.done = @ + BatchSize]
    <3>1. rag[q].done + BatchSize \in 0 .. MaxDocs
      BY <1>1, <1>4, <2>3, RagAssumption DEF RagInv, RequestsFit
    <3>2. /\ r \in Indexing /\ r.stage = "embed" /\ r.docs = rag[q].docs
          /\ r.list = rag[q].list /\ r.done = rag[q].done + BatchSize
      BY <1>2, <3>1 DEF Indexing, IndexStages
    <3>3. Goes(q, r)
      BY <2>3
    <3> HIDE DEF r
    <3>4. \A i \in DOMAIN r.list :
            r.stage = "backup" \/ i <= Written(r) => r.list[i] \in vectors' \cup suspect
      BY <1>2, <2>1, <2>2, <3>2 DEF Written
    <3>5. QED
      BY <1>1, <2>1, <3>2, <3>3, <3>4, RagIndexing
  <2>4. CASE ~(rag[q].done + BatchSize < Len(rag[q].list)) /\ At(q, "backup")
    <3>1. PICK r \in Indexing :
            /\ Goes(q, r) /\ r.stage = "backup"
            /\ r.docs = rag[q].docs /\ r.list = rag[q].list /\ r.done = rag[q].done
      BY <1>3, <2>4 DEF IndexStages
    <3>2. \A i \in DOMAIN rag[q].list : i <= Written(rag[q])
      BY <1>4, <2>2, <2>4
    <3>3. \A i \in DOMAIN r.list :
            r.stage = "backup" \/ i <= Written(r) => r.list[i] \in vectors' \cup suspect
      BY <1>2, <2>1, <3>1, <3>2
    <3>4. QED
      BY <1>1, <2>1, <3>1, <3>3, RagIndexing
  <2>5. QED
    BY <1>8, <2>3, <2>4, Zenon DEF VerifyBatch
<1>9. QED
  BY <1>6, <1>7, <1>8

\* The rows of an indexing are added, for documents that are in the index.
LEMMA RagBackup ==
  ASSUME RagInv, NEW q \in Readers, SaveIndexingBackup(q)
  PROVE  RagInv'
<1> USE DEF RagInv
<1> DEFINE list == rag[q].list
<1>1. /\ rag[q].stage = "backup"
      /\ Len(rows) + Len(list) <= MaxRows
      /\ rows' = rows \o list
      /\ Goes(q, Quiet)
      /\ UNCHANGED <<vectors, suspect>>
  BY Zenon DEF SaveIndexingBackup, Done
<1>2. /\ rag[q].stage \in IndexStages
      /\ rag[q] \in Indexing
      /\ rag[q].docs = ToSet(list)
      /\ \A i \in DOMAIN list : list[i] \in vectors \cup suspect
  BY <1>1, WrittenAre DEF IndexStages
<1>3. list \in Seq(Docs) /\ rows \in Seq(Docs \cup {NoDoc})
  BY <1>2 DEF Indexing, RagTypeOK
<1> HIDE DEF list
<1>4. list \in Seq(Docs \cup {NoDoc})
  BY <1>3, SeqMonotonic
<1>5. /\ rows' \in Seq(Docs \cup {NoDoc})
      /\ Len(rows') = Len(rows) + Len(list)
      /\ \A i \in 1 .. Len(rows) + Len(list) :
           rows'[i] = IF i <= Len(rows) THEN rows[i] ELSE list[i - Len(rows)]
  BY <1>1, <1>3, <1>4, ConcatProperties
<1>6. /\ DOMAIN rows = 1 .. Len(rows) /\ DOMAIN list = 1 .. Len(list)
      /\ DOMAIN rows' = 1 .. Len(rows) + Len(list)
      /\ Len(rows) \in Nat /\ Len(list) \in Nat
  BY <1>3, <1>5
<1>7. /\ \A i \in DOMAIN rows : i \in DOMAIN rows' /\ rows'[i] = rows[i]
      /\ \A i \in DOMAIN list : i + Len(rows) \in DOMAIN rows' /\ rows'[i + Len(rows)] = list[i]
      /\ \A i \in DOMAIN rows' : i \in DOMAIN rows \/ i - Len(rows) \in DOMAIN list
  <2>1. ASSUME NEW i \in DOMAIN rows
        PROVE  i \in DOMAIN rows' /\ rows'[i] = rows[i]
    BY <1>5, <1>6
  <2>2. ASSUME NEW i \in DOMAIN list
        PROVE  i + Len(rows) \in DOMAIN rows' /\ rows'[i + Len(rows)] = list[i]
    <3>1. i + Len(rows) \in 1 .. Len(rows) + Len(list) /\ ~(i + Len(rows) <= Len(rows))
          /\ (i + Len(rows)) - Len(rows) = i
      BY <1>6
    <3>2. QED
      BY <1>5, <1>6, <3>1
  <2>3. ASSUME NEW i \in DOMAIN rows'
        PROVE  i \in DOMAIN rows \/ i - Len(rows) \in DOMAIN list
    BY <1>6
  <2>4. QED
    BY <2>1, <2>2, <2>3
<1>8. /\ rag' \in [Readers -> RagRequest] /\ rag'[q] = Quiet
      /\ \A p \in Readers : p # q => rag'[p] = rag[p]
  BY <1>1, GoesTo, RequestIs
<1>9. Quiet.stage = "idle" /\ Quiet.docs = {}
  BY DEF Quiet
<1>10. RagTypeOK'
  BY <1>1, <1>5, <1>8 DEF RagTypeOK
<1>11. RequestsFit'
  BY <1>1, <1>7, <1>8, <1>9, RequestsStillFit DEF IndexStages, DeleteStages
<1>12. ASSUME NEW d \in Docs \ suspect'
       PROVE  DocumentIs(d)'
  <2>1. d \notin suspect /\ DocumentIs(d)
    BY <1>1, <1>12
  <2>2. ~Works(q, d)' /\ (Works(q, d) <=> d \in ToSet(list))
    BY <1>2, <1>8, <1>9 DEF Works, list
  <2>3. CASE d \in ToSet(list)
    <3>1. PICK k \in DOMAIN list : list[k] = d
      BY <2>3 DEF ToSet
    <3>2. \A i, j \in DOMAIN list : list[i] = d /\ list[j] = d => i = j
      BY <1>2, <2>1, <2>3 DEF RequestsFit, Repeated, list
    <3>3. \A n \in DOMAIN rows : rows[n] # d
      BY <1>1, <2>1, <2>2, <2>3 DEF DocumentIs, WorkIs, HasRow
    <3>4. HasRow(d)' /\ d \in vectors'
      BY <1>1, <1>2, <1>7, <2>1, <3>1 DEF HasRow
    <3>5. ASSUME NEW i \in DOMAIN rows', NEW j \in DOMAIN rows',
                 rows'[i] = d, rows'[j] = d
          PROVE  i = j
      <4>1. i \notin DOMAIN rows /\ j \notin DOMAIN rows
        BY <1>7, <3>3, <3>5
      <4> DEFINE a == i - Len(rows)
                 b == j - Len(rows)
      <4>2. a \in DOMAIN list /\ b \in DOMAIN list
        BY <1>7, <4>1
      <4> HIDE DEF a, b
      <4>3. i \in Nat /\ j \in Nat /\ a + Len(rows) = i /\ b + Len(rows) = j
        BY <1>6, <3>5, <4>2 DEF a, b
      <4>4. rows'[a + Len(rows)] = list[a] /\ rows'[b + Len(rows)] = list[b]
        BY <1>7, <4>2, Zenon
      <4>5. list[a] = d /\ list[b] = d
        BY <3>5, <4>3, <4>4, Zenon
      <4>6. a = b
        BY <3>2, <4>2, <4>5, Zenon
      <4>7. QED
        BY <4>3, <4>6, Zenon
    <3>6. QED
      BY <1>8, <2>1, <2>2, <2>3, <3>4, <3>5, DocumentLeft DEF DocumentIs, SoleWork
  <2>4. CASE d \notin ToSet(list)
    <3>1. RowsAgree(d)
      <4>1. ASSUME NEW n \in DOMAIN rows', rows'[n] = d
            PROVE  n \in DOMAIN rows /\ rows[n] = d
        <5>1. CASE n \in DOMAIN rows
          BY <1>7, <4>1, <5>1
        <5>2. CASE n - Len(rows) \in DOMAIN list
          <6>1. PICK a \in DOMAIN list : a = n - Len(rows)
            BY <5>2
          <6>2. a + Len(rows) = n
            BY <1>6, <6>1
          <6>3. QED
            BY <1>7, <2>4, <4>1, <6>2 DEF ToSet
        <5>3. QED
          BY <1>7, <5>1, <5>2
      <4>2. QED
        BY <1>7, <4>1 DEF RowsAgree
    <3>2. QED
      BY <1>1, <1>8, <2>1, <2>2, <2>4, <3>1, DocumentApart
  <2>5. QED
    BY <2>3, <2>4
<1>13. QED
  BY <1>10, <1>11, <1>12

-----------------------------------------------------------------------------
\* A request that rests or searches without having to do with a document that
\* counts.
LEMMA RagRests ==
  ASSUME RagInv, NEW q \in Readers, NEW r \in Searching \cup {Quiet}, Goes(q, r),
         suspect \subseteq suspect', suspect' \subseteq Docs,
         rag[q].docs \subseteq suspect',
         UNCHANGED <<vectors, rows>>
  PROVE  RagInv'
<1> USE DEF RagInv
<1>1. /\ r \in RagRequest /\ r.docs = {}
      /\ r.stage \notin IndexStages \cup DeleteStages
  <2>1. CASE r \in Searching
    <3>1. r.stage = "search" /\ r.docs = {}
      BY <2>1 DEF Searching
    <3>2. QED
      BY <2>1, <3>1, RequestIs DEF IndexStages, DeleteStages
  <2>2. CASE r = Quiet
    <3>1. r.stage = "idle" /\ r.docs = {}
      BY <2>2 DEF Quiet
    <3>2. QED
      BY <2>2, <3>1, RequestIs DEF IndexStages, DeleteStages
  <2>3. QED
    BY <2>1, <2>2
<1>2. /\ rag' \in [Readers -> RagRequest] /\ rag'[q] = r
      /\ \A p \in Readers : p # q => rag'[p] = rag[p]
  BY <1>1, GoesTo
<1>3. RagTypeOK'
  BY <1>2 DEF RagTypeOK
<1>4. RequestsFit'
  BY <1>1, <1>2, RequestsStillFit DEF DeleteStages
<1>5. ASSUME NEW d \in Docs \ suspect'
      PROVE  DocumentIs(d)'
  <2>1. DocumentIs(d) /\ ~Works(q, d) /\ ~Works(q, d)'
    BY <1>1, <1>2, <1>5 DEF Works
  <2>2. QED
    BY <1>2, <2>1, DocumentApart DEF RowsAgree
<1>6. QED
  BY <1>3, <1>4, <1>5

LEMMA RagOther ==
  ASSUME RagInv, NEW q \in Readers,
         Search(q) \/ SearchAgain(q) \/ SearchEnds(q) \/ CallFails(q)
  PROVE  RagInv'
<1>1. suspect \subseteq Docs /\ rag[q].docs \subseteq Docs
  BY RequestKinds DEF RagInv, RagTypeOK
<1>2. CASE Search(q)
  <2> DEFINE r == [stage |-> "search", docs |-> {}, attempt |-> 1]
  <2>1. Goes(q, r) /\ rag[q] = Quiet /\ UNCHANGED <<vectors, rows, suspect>>
    BY <1>2, Zenon DEF Search
  <2>2. r \in Searching
    BY DEF Searching, MaxAttempts
  <2>3. rag[q].docs = {}
    BY <2>1 DEF Quiet
  <2> HIDE DEF r
  <2>4. QED
    BY <1>1, <2>1, <2>2, <2>3, RagRests
<1>3. CASE SearchAgain(q)
  <2> DEFINE r == [rag[q] EXCEPT !.attempt = @ + 1]
  <2>1. /\ Goes(q, r) /\ rag[q].stage = "search" /\ rag[q].attempt < MaxAttempts
        /\ UNCHANGED <<vectors, rows, suspect>>
    BY <1>3, Zenon DEF SearchAgain
  <2>2. rag[q] \in Searching
    BY <2>1, RequestKinds DEF RagInv
  <2>3. r \in Searching /\ rag[q].docs = {}
    BY <2>1, <2>2 DEF Searching, MaxAttempts
  <2> HIDE DEF r
  <2>4. QED
    BY <1>1, <2>1, <2>3, RagRests
<1>4. CASE SearchEnds(q)
  <2>1. Goes(q, Quiet) /\ rag[q].stage = "search" /\ UNCHANGED <<vectors, rows, suspect>>
    BY <1>4, Zenon DEF SearchEnds, Done
  <2>2. rag[q].docs = {}
    BY <2>1, RequestKinds DEF RagInv, Searching
  <2>3. QED
    BY <1>1, <2>1, <2>2, RagRests
<1>5. CASE CallFails(q)
  <2>1. /\ Goes(q, Quiet) /\ suspect' = suspect \cup rag[q].docs
        /\ UNCHANGED <<vectors, rows>>
    BY <1>5, Zenon DEF CallFails, Done
  <2>2. QED
    BY <1>1, <2>1, RagRests
<1>6. QED
  BY <1>2, <1>3, <1>4, <1>5

\* A deletion that goes on, with the table as it is or with one row emptied.
LEMMA RagDeleting ==
  ASSUME RagInv, NEW q \in Readers, NEW r \in Deleting, Goes(q, r),
         rows' \in Seq(Docs \cup {NoDoc}), Len(rows') <= MaxRows,
         \A n \in DOMAIN rows : n \in DOMAIN rows' /\ rows'[n] \in {rows[n], NoDoc},
         suspect \subseteq suspect', suspect' \subseteq Docs, UNCHANGED vectors,
         r.stage = "destroy" => /\ r.row \in DOMAIN rows'
                                /\ rows'[r.row] \in r.docs \cup {NoDoc},
         \A c, d \in r.docs : c = d,
         \A d \in Docs \ suspect' : DocumentIs(d) => DocumentIs(d)'
  PROVE  RagInv'
<1> USE DEF RagInv
<1>1. /\ rag' \in [Readers -> RagRequest] /\ rag'[q] = r
      /\ \A p \in Readers : p # q => rag'[p] = rag[p]
  BY GoesTo, RequestIs
<1>2. r.stage \notin IndexStages
  BY DEF Deleting, IndexStages, DeleteStages
<1>3. RagTypeOK'
  BY <1>1 DEF RagTypeOK
<1>4. RequestsFit'
  BY <1>1, <1>2, RequestsStillFit
<1>5. QED
  BY <1>3, <1>4

\* The row found is the document's only one, and its vector is there.
LEMMA RagFind ==
  ASSUME RagInv, NEW q \in Readers, NEW n \in 1 .. MaxRows, FindIndexing(q, n)
  PROVE  RagInv'
<1> DEFINE e == rows[n]
           r == [stage |-> "destroy", docs |-> {e}, row |-> n]
<1>1. /\ rag[q] = Quiet /\ n \in DOMAIN rows /\ e # NoDoc
      /\ Goes(q, r)
      /\ suspect' = suspect \cup ({e} \cap UnderWay)
      /\ UNCHANGED <<vectors, rows>>
  BY Zenon DEF FindIndexing
<1>2. e \in Docs /\ rows \in Seq(Docs \cup {NoDoc}) /\ Len(rows) <= MaxRows
      /\ suspect \subseteq Docs
  BY <1>1 DEF RagInv, RagTypeOK
<1>3. r \in Deleting /\ r.stage = "destroy" /\ r.docs = {e} /\ r.row = n
  BY <1>2 DEF Deleting, DeleteStages
<1>4. n \in DOMAIN rows /\ rows[n] = e
  BY <1>1
<1> HIDE DEF e, r
<1>5. /\ rag' \in [Readers -> RagRequest] /\ rag'[q] = r
      /\ \A p \in Readers : p # q => rag'[p] = rag[p]
  BY <1>1, <1>3, GoesTo, RequestIs DEF RagInv
<1>6. suspect \subseteq suspect' /\ suspect' \subseteq Docs
  BY <1>1, <1>2
<1>7. ASSUME NEW d \in Docs \ suspect', DocumentIs(d)
      PROVE  DocumentIs(d)'
  <2>1. ~Works(q, d) /\ (Works(q, d)' <=> d = e)
    BY <1>1, <1>3, <1>5 DEF Works, Quiet
  <2>2. CASE d = e
    <3>1. \A p \in Readers : ~Works(p, d)
      BY <1>1, <1>7, <2>2, UnderWayWorks
    <3>2. d \in vectors
      BY <1>4, <1>7, <2>2 DEF DocumentIs, Kept, HasRow
    <3>3. WorkIs(q, d)'
      BY <1>1, <1>3, <1>4, <1>5, <2>2, <3>2 DEF WorkIs, IndexStages
    <3>4. QED
      BY <1>1, <1>5, <1>7, <2>1, <2>2, <3>1, <3>2, <3>3, DocumentInHand
         DEF DocumentIs, SoleWork
  <2>3. CASE d # e
    BY <1>1, <1>5, <1>7, <2>1, <2>3, DocumentApart DEF RowsAgree, RagInv
  <2>4. QED
    BY <2>2, <2>3
<1>8. QED
  BY <1>1, <1>2, <1>3, <1>4, <1>6, <1>7, RagDeleting

\* The row goes first; the vector is still there, and the request works on it.
LEMMA RagDestroy ==
  ASSUME RagInv, NEW q \in Readers, DestroyIndexing(q)
  PROVE  RagInv'
<1> DEFINE r == [rag[q] EXCEPT !.stage = "fetch"]
           n == rag[q].row
<1>1. /\ rag[q].stage = "destroy"
      /\ rows' = [rows EXCEPT ![n] = NoDoc]
      /\ Goes(q, r)
      /\ UNCHANGED <<vectors, suspect>>
  BY Zenon DEF DestroyIndexing, At
<1>2. rag[q] \in Deleting /\ rag[q].stage \in DeleteStages
  BY <1>1, RequestKinds DEF RagInv, DeleteStages
<1>3. r \in Deleting /\ r.stage = "fetch" /\ r.docs = rag[q].docs
  BY <1>2 DEF Deleting, DeleteStages
<1>4. /\ n \in DOMAIN rows /\ rows[n] \in rag[q].docs \cup {NoDoc}
      /\ \A c, d \in rag[q].docs : c = d
  BY <1>1, <1>2 DEF RagInv, RequestsFit
<1> HIDE DEF r, n
<1>5. /\ rag' \in [Readers -> RagRequest] /\ rag'[q] = r
      /\ \A p \in Readers : p # q => rag'[p] = rag[p]
  BY <1>1, <1>3, GoesTo, RequestIs DEF RagInv
<1>6. /\ rows \in Seq(Docs \cup {NoDoc}) /\ Len(rows) <= MaxRows
      /\ suspect \subseteq Docs /\ rag[q].docs \subseteq Docs
  BY RequestKinds DEF RagInv, RagTypeOK
<1>7. /\ rows' \in Seq(Docs \cup {NoDoc}) /\ Len(rows') = Len(rows)
      /\ DOMAIN rows' = DOMAIN rows /\ rows'[n] = NoDoc
      /\ \A i \in DOMAIN rows : i # n => rows'[i] = rows[i]
  BY <1>1, <1>4, <1>6
<1>8. ASSUME NEW d \in Docs \ suspect', DocumentIs(d)
      PROVE  DocumentIs(d)'
  <2>1. (Works(q, d) <=> d \in rag[q].docs) /\ (Works(q, d)' <=> d \in rag[q].docs)
        /\ d # NoDoc
    BY <1>3, <1>5, RagAssumption DEF Works
  <2>2. CASE Works(q, d)
    <3>1. rows[n] = d /\ d \in vectors /\ \A p \in Readers : p # q => ~Works(p, d)
      BY <1>1, <1>2, <1>8, <2>2 DEF DocumentIs, SoleWork, WorkIs, n
    <3>2. ~HasRow(d)'
      BY <1>4, <1>7, <1>8, <2>1, <3>1 DEF HasRow, DocumentIs, SoleWork
    <3>3. WorkIs(q, d)'
      BY <1>1, <1>3, <1>5, <3>1, <3>2 DEF WorkIs, IndexStages
    <3>4. QED
      BY <1>5, <2>1, <2>2, <3>1, <3>2, <3>3, DocumentInHand DEF HasRow
  <2>3. CASE ~Works(q, d)
    <3>1. rows[n] # d
      BY <1>4, <2>1, <2>3
    <3>2. RowsAgree(d)
      BY <1>4, <1>7, <2>1, <3>1 DEF RowsAgree
    <3>3. QED
      BY <1>1, <1>5, <1>8, <2>1, <2>3, <3>2, DocumentApart DEF RagInv
  <2>4. QED
    BY <2>2, <2>3
<1>9. QED
  BY <1>1, <1>3, <1>4, <1>6, <1>7, <1>8, RagDeleting

\* A deletion of a document that counts finds its vector, unless its read misses it.
LEMMA RagFetch ==
  ASSUME RagInv, NEW q \in Readers, FetchVector(q)
  PROVE  RagInv'
<1>1. /\ rag[q].stage = "fetch"
      /\ \/ /\ rag[q].docs \subseteq vectors
            /\ Goes(q, [rag[q] EXCEPT !.stage = "delete"])
            /\ UNCHANGED suspect
         \/ /\ Goes(q, Quiet)
            /\ suspect' = suspect \cup (rag[q].docs \cap vectors)
      /\ UNCHANGED <<vectors, rows>>
  BY Zenon DEF FetchVector, At, Done
<1>2. rag[q] \in Deleting /\ rag[q].stage \in DeleteStages
  BY <1>1, RequestKinds DEF RagInv, DeleteStages
<1>3. /\ rows \in Seq(Docs \cup {NoDoc}) /\ Len(rows) <= MaxRows
      /\ suspect \subseteq Docs /\ rag[q].docs \subseteq Docs
      /\ \A c, d \in rag[q].docs : c = d
  BY <1>2, RequestKinds DEF RagInv, RagTypeOK, RequestsFit
<1>4. CASE Goes(q, [rag[q] EXCEPT !.stage = "delete"]) /\ UNCHANGED suspect
  <2> DEFINE r == [rag[q] EXCEPT !.stage = "delete"]
  <2>1. r \in Deleting /\ r.stage = "delete" /\ r.docs = rag[q].docs
    BY <1>2 DEF Deleting, DeleteStages
  <2>2. Goes(q, r)
    BY <1>1, <1>4
  <2> HIDE DEF r
  <2>3. /\ rag' \in [Readers -> RagRequest] /\ rag'[q] = r
        /\ \A p \in Readers : p # q => rag'[p] = rag[p]
    BY <2>1, <2>2, GoesTo, RequestIs DEF RagInv
  <2>4. ASSUME NEW d \in Docs \ suspect', DocumentIs(d)
        PROVE  DocumentIs(d)'
    <3>1. Works(q, d)' <=> Works(q, d)
      BY <2>1, <2>3 DEF Works
    <3>2. CASE Works(q, d)
      <4>1. d \in vectors /\ ~HasRow(d) /\ \A p \in Readers : p # q => ~Works(p, d)
        BY <1>1, <1>2, <2>4, <3>2 DEF DocumentIs, SoleWork, WorkIs
      <4>2. ~HasRow(d)'
        BY <1>1, <4>1 DEF HasRow
      <4>3. WorkIs(q, d)'
        BY <1>1, <2>1, <2>3, <4>1, <4>2 DEF WorkIs, IndexStages
      <4>4. QED
        BY <2>3, <3>1, <3>2, <4>1, <4>2, <4>3, DocumentInHand DEF HasRow
    <3>3. CASE ~Works(q, d)
      BY <1>1, <2>3, <2>4, <3>1, <3>3, DocumentApart DEF RowsAgree, RagInv
    <3>4. QED
      BY <3>2, <3>3
  <2>5. QED
    BY <1>1, <1>3, <2>1, <2>2, <2>4, RagDeleting
<1>5. CASE Goes(q, Quiet) /\ suspect' = suspect \cup (rag[q].docs \cap vectors)
  <2>1. ASSUME NEW d \in rag[q].docs
        PROVE  d \in suspect'
    <3>1. CASE d \notin vectors
      <4>1. d \in Docs
        BY <1>3
      <4>2. d \in suspect
        BY <1>2, <3>1, <4>1 DEF RagInv, DocumentIs, WorkIs, Works
      <4>3. QED
        BY <1>5, <4>2
    <3>2. CASE d \in vectors
      BY <1>5, <3>2
    <3>3. QED
      BY <3>1, <3>2
  <2>2. QED
    BY <1>1, <1>3, <1>5, <2>1, RagRests
<1>6. QED
  BY <1>1, <1>4, <1>5

\* The vector goes last, with no row left.
LEMMA RagDelete ==
  ASSUME RagInv, NEW q \in Readers, DeleteVector(q)
  PROVE  RagInv'
<1> USE DEF RagInv
<1>1. /\ rag[q].stage = "delete"
      /\ vectors' = vectors \ rag[q].docs
      /\ Goes(q, Quiet)
      /\ UNCHANGED <<rows, suspect>>
  BY Zenon DEF DeleteVector, Done
<1>2. /\ rag' \in [Readers -> RagRequest] /\ rag'[q] = Quiet
      /\ \A p \in Readers : p # q => rag'[p] = rag[p]
  BY <1>1, GoesTo, RequestIs
<1>3. Quiet.stage = "idle" /\ Quiet.docs = {}
  BY DEF Quiet
<1>4. RagTypeOK'
  BY <1>1, <1>2 DEF RagTypeOK
<1>5. RequestsFit'
  BY <1>1, <1>2, <1>3, RequestsStillFit DEF IndexStages, DeleteStages
<1>6. ASSUME NEW d \in Docs \ suspect'
      PROVE  DocumentIs(d)'
  <2>1. DocumentIs(d)
    BY <1>1, <1>6
  <2>2. ~Works(q, d)' /\ (Works(q, d) <=> d \in rag[q].docs)
    BY <1>2, <1>3 DEF Works
  <2>3. CASE Works(q, d)
    <3>1. ~HasRow(d) /\ \A p \in Readers : p # q => ~Works(p, d)
      BY <1>1, <2>1, <2>3 DEF DocumentIs, SoleWork, WorkIs
    <3>2. ~HasRow(d)' /\ d \notin vectors'
      BY <1>1, <2>2, <2>3, <3>1 DEF HasRow
    <3>3. QED
      BY <1>2, <2>2, <3>1, <3>2, DocumentLeft DEF HasRow
  <2>4. CASE ~Works(q, d)
    BY <1>1, <1>2, <2>1, <2>2, <2>4, DocumentApart DEF RowsAgree
  <2>5. QED
    BY <2>3, <2>4
<1>7. QED
  BY <1>4, <1>5, <1>6

-----------------------------------------------------------------------------
LEMMA NextRag ==
  ASSUME RagInv, [RagNext]_ragVars
  PROVE  RagInv'
<1>1. CASE UNCHANGED ragVars
  <2>1. vectors' = vectors /\ rows' = rows /\ rag' = rag /\ suspect' = suspect
    BY <1>1 DEF ragVars
  <2>2. RagTypeOK' /\ RequestsFit'
    BY <2>1 DEF RagInv, RagTypeOK, RequestsFit
  <2>3. ASSUME NEW d \in Docs \ suspect'
        PROVE  DocumentIs(d)'
    BY <2>1, <2>3
       DEF RagInv, DocumentIs, SoleWork, WorkIs, Kept, HasRow, Works, Written
  <2>4. QED
    BY <2>2, <2>3 DEF RagInv
<1>2. ASSUME NEW q \in Readers,
             \/ \E list \in BoundedSeq(Docs, MaxDocs) : IndexDocuments(q, list)
             \/ ReachIndex(q) \/ EmbedBatch(q) \/ VerifyBatch(q) \/ SaveIndexingBackup(q)
             \/ \E n \in 1 .. MaxRows : FindIndexing(q, n)
             \/ DestroyIndexing(q) \/ FetchVector(q) \/ DeleteVector(q)
             \/ Search(q) \/ SearchAgain(q) \/ SearchEnds(q) \/ CallFails(q)
      PROVE  RagInv'
  BY <1>2, RagIndex, RagBatches, RagBackup, RagFind, RagDestroy, RagFetch, RagDelete,
     RagOther, Zenon
<1>3. QED
  BY <1>1, <1>2, Zenon DEF RagNext

LEMMA RagCorrect == RagSpec => []RagInv
  BY InitRag, NextRag, PTL DEF RagSpec

LEMMA RagSound == RagInv => VectorsBacked
  BY BackedHasRow, UnderWayWorks DEF RagInv, DocumentIs, Kept, VectorsBacked

(***************************************************************************)
(* For any documents, requests and failures, and any batch size: an        *)
(* undisturbed document has a row only with its vector, and a vector       *)
(* without a row only while a request works on it.                         *)
(***************************************************************************)
THEOREM VectorsBackedCorrect == RagSpec => []VectorsBacked
<1>1. RagInv => VectorsBacked
  BY RagSound
<1>2. QED
  BY <1>1, RagCorrect, PTL

-----------------------------------------------------------------------------
(* ChatTurn *)

Row == [turn : Nat, role : {"user", "assistant"}, scope : Scopes, at : Nat]
TurnOf == [stage : {"idle", "agent", "ask", "reply", "speech"}, number : Nat,
           scope : Scopes \cup {NoScope}, audio : BOOLEAN, blank : BOOLEAN,
           given : SUBSET Nat, of : Nat]

\* Message i has the question message j asks of the same turn and scope.
QuestionOf(row, at) == [turn |-> row.turn, role |-> "user", scope |-> row.scope, at |-> at]
Question(m, i, j) == m[j] = QuestionOf(m[i], m[j].at)

Own(m, t) == {i \in 1 .. t.of : m[i].scope = t.scope}

\* What a turn was given, of the rows there were when it was read.
GivenIs(m, t) ==
  /\ t.of <= Len(m)
  /\ t.given \subseteq Own(m, t)
  /\ \A i \in t.given, j \in Own(m, t) \ t.given : m[i].at \geq m[j].at
  /\ Cardinality(Own(m, t)) > Cardinality(t.given) => Cardinality(t.given) = RecentLimit

\* A turn about to remember its reply has remembered its question.
Asked(m, t) ==
  \E j \in DOMAIN m :
    m[j] = [turn |-> t.number, role |-> "user", scope |-> t.scope, at |-> m[j].at]

TurnInv ==
  /\ memory \in Seq(Row)
  /\ turn \in [Workers -> TurnOf]
  /\ turns \in Nat /\ second \in Nat
  /\ \A w \in Workers :
       /\ turn[w].stage # "idle" => GivenIs(memory, turn[w])
       /\ turn[w].stage \in {"ask", "reply"} => turn[w].scope \in Scopes
       /\ turn[w].stage = "reply" => Asked(memory, turn[w])
  /\ \A i \in DOMAIN memory : memory[i].role = "assistant" =>
       \E j \in 1 .. i - 1 : Question(memory, i, j)

LEMMA QuestionIs ==
  ASSUME NEW row \in Row, NEW at \in Nat
  PROVE  [row EXCEPT !.role = "user", !.at = at] = QuestionOf(row, at)
<1> DEFINE x == [row EXCEPT !.role = "user", !.at = at]
           y == QuestionOf(row, at)
<1>1. x \in Row /\ x.turn = row.turn /\ x.role = "user" /\ x.scope = row.scope /\ x.at = at
  BY DEF Row
<1>2. y \in Row /\ y.turn = row.turn /\ y.role = "user" /\ y.scope = row.scope /\ y.at = at
  BY DEF Row, QuestionOf
<1> HIDE DEF x, y
<1>3. x = y
  BY <1>1, <1>2 DEF Row
<1>4. QED
  BY <1>3 DEF x, y

LEMMA InitTurn == TurnInit => TurnInv
  BY DEF TurnInit, TurnInv, TurnOf, Resting

\* A worker goes on with a turn that was given what t was, or rests.
Follows(w, t) ==
  /\ t \in TurnOf
  /\ \/ t = Resting
     \/ /\ turn[w].stage # "idle" /\ t.stage # "idle"
        /\ t.number = turn[w].number /\ t.scope = turn[w].scope
        /\ t.given = turn[w].given /\ t.of = turn[w].of
        /\ t.stage = "ask" => t.scope \in Scopes
        /\ t.stage = "reply" => t.scope \in Scopes /\ Asked(memory', t)

LEMMA TurnGoesOn ==
  ASSUME TurnInv, NEW w \in Workers, NEW t, Follows(w, t),
         turn' = [turn EXCEPT ![w] = t],
         UNCHANGED <<turns, second>>,
         memory' \in Seq(Row), Len(memory) <= Len(memory'),
         \A i \in DOMAIN memory : i \in DOMAIN memory' /\ memory'[i] = memory[i],
         \A i \in DOMAIN memory' : i \notin DOMAIN memory /\ memory'[i].role = "assistant" =>
           \E j \in 1 .. i - 1 : Question(memory', i, j)
  PROVE  TurnInv'
<1>1. /\ t \in TurnOf /\ turn' \in [Workers -> TurnOf] /\ turn'[w] = t
      /\ \A v \in Workers : v # w => turn'[v] = turn[v]
  BY DEF Follows, TurnInv
<1>2. memory \in Seq(Row) /\ DOMAIN memory = 1 .. Len(memory) /\ Len(memory) \in Nat
      /\ Len(memory') \in Nat
  BY DEF TurnInv
<1>3. ASSUME NEW u \in TurnOf, GivenIs(memory, u)
      PROVE  GivenIs(memory', u)
  <2>1. u.of \in Nat /\ u.of <= Len(memory) /\ u.of <= Len(memory')
    BY <1>2, <1>3 DEF TurnOf, GivenIs
  <2>2. \A i \in 1 .. u.of : memory'[i] = memory[i]
    BY <1>2, <2>1
  <2>3. Own(memory', u) = Own(memory, u)
    BY <2>2 DEF Own
  <2>4. \A i \in Own(memory, u) : memory'[i] = memory[i]
    BY <2>2 DEF Own
  <2>5. \A i \in u.given : memory'[i] = memory[i]
    BY <1>3, <2>4 DEF GivenIs
  <2>6. \A i \in u.given, j \in Own(memory, u) \ u.given : memory'[i].at \geq memory'[j].at
    BY <1>3, <2>4, <2>5 DEF GivenIs
  <2>7. QED
    BY <1>3, <2>1, <2>3, <2>6 DEF GivenIs
<1>4. ASSUME NEW u, Asked(memory, u)
      PROVE  Asked(memory', u)
  BY <1>4 DEF Asked
<1>5. ASSUME NEW v \in Workers
      PROVE  /\ turn'[v].stage # "idle" => GivenIs(memory', turn'[v])
             /\ turn'[v].stage \in {"ask", "reply"} => turn'[v].scope \in Scopes
             /\ turn'[v].stage = "reply" => Asked(memory', turn'[v])
  <2>1. CASE v # w
    <3>1. turn'[v] = turn[v] /\ turn[v] \in TurnOf
      BY <1>1, <2>1 DEF TurnInv
    <3>2. turn[v].stage # "idle" => GivenIs(memory, turn[v])
      BY DEF TurnInv
    <3>3. turn[v].stage # "idle" => GivenIs(memory', turn'[v])
      BY <1>3, <3>1, <3>2
    <3>4. QED
      BY <1>4, <3>1, <3>3 DEF TurnInv
  <2>2. CASE v = w /\ t = Resting
    BY <1>1, <2>2 DEF Resting
  <2>3. CASE v = w /\ t # Resting
    <3>1. /\ turn[w].stage # "idle" /\ t.stage # "idle"
          /\ t.number = turn[w].number /\ t.scope = turn[w].scope
          /\ t.given = turn[w].given /\ t.of = turn[w].of
          /\ t.stage = "ask" => t.scope \in Scopes
          /\ t.stage = "reply" => t.scope \in Scopes /\ Asked(memory', t)
      BY <2>3 DEF Follows
    <3>2. GivenIs(memory, turn[w])
      BY <3>1 DEF TurnInv
    <3>3. GivenIs(memory, t)
      BY <3>1, <3>2 DEF GivenIs, Own
    <3>4. turn'[v] = t
      BY <1>1, <2>3
    <3>5. GivenIs(memory', turn'[v])
      BY <1>1, <1>3, <3>3, <3>4
    <3>6. QED
      BY <3>1, <3>4, <3>5
  <2>4. QED
    BY <2>1, <2>2, <2>3
<1>6. ASSUME NEW i \in DOMAIN memory', memory'[i].role = "assistant"
      PROVE  \E j \in 1 .. i - 1 : Question(memory', i, j)
  <2>1. CASE i \in DOMAIN memory
    <3>1. PICK j \in 1 .. i - 1 : Question(memory, i, j)
      BY <1>6, <2>1 DEF TurnInv
    <3>2. j \in DOMAIN memory
      BY <1>2, <2>1
    <3>3. memory'[i] = memory[i] /\ memory'[j] = memory[j]
      BY <2>1, <3>2
    <3>4. QED
      BY <3>1, <3>3, Zenon DEF Question
  <2>2. QED
    BY <1>6, <2>1
<1>7. QED
  BY <1>1, <1>5, <1>6 DEF TurnInv

\* A turn moves to a stage, or ends.
LEMMA TurnTo ==
  ASSUME TurnInv, NEW w \in Workers, turn[w].stage # "idle",
         NEW phase \in {"ask", "reply", "speech"},
         phase \in {"ask", "reply"} => turn[w].scope \in Scopes,
         phase = "reply" => Asked(memory', turn[w]),
         To(w, phase)
  PROVE  \E t : Follows(w, t) /\ turn' = [turn EXCEPT ![w] = t]
<1> DEFINE t == [turn[w] EXCEPT !.stage = phase]
<1>1. turn[w] \in TurnOf
  BY DEF TurnInv
<1>2. /\ t \in TurnOf /\ t.stage = phase /\ t.number = turn[w].number
      /\ t.scope = turn[w].scope /\ t.given = turn[w].given /\ t.of = turn[w].of
  BY <1>1 DEF TurnOf
<1>3. turn' = [turn EXCEPT ![w] = t]
  BY Zenon DEF To
<1> HIDE DEF t
<1>4. Follows(w, t)
  BY <1>2 DEF Follows, Asked
<1>5. QED
  BY <1>3, <1>4

LEMMA RestFollows == \A w : Follows(w, Resting)
  BY DEF Follows, Resting, TurnOf

LEMMA TurnAfterMemory ==
  ASSUME TurnInv, NEW w \in Workers, turn[w].stage # "idle", AfterMemory(w) \/ EndTurn(w)
  PROVE  \E t : Follows(w, t) /\ turn' = [turn EXCEPT ![w] = t]
<1>1. CASE EndTurn(w)
  BY <1>1, RestFollows DEF EndTurn
<1>2. CASE To(w, "speech")
  BY <1>2, TurnTo
<1>3. QED
  BY <1>1, <1>2, Zenon DEF AfterMemory

\* A turn that writes nothing.
LEMMA TurnWritesNone ==
  ASSUME TurnInv, NEW w \in Workers, NEW t, Follows(w, t),
         turn' = [turn EXCEPT ![w] = t], UNCHANGED <<memory, turns, second>>
  PROVE  TurnInv'
<1>1. memory' = memory /\ memory \in Seq(Row) /\ UNCHANGED <<turns, second>>
  BY DEF TurnInv
<1>2. Len(memory) <= Len(memory')
  BY <1>1
<1>3. QED
  BY <1>1, <1>2, TurnGoesOn

\* A turn that writes a row: a question, or the reply to the one it asked.
LEMMA TurnWrites ==
  ASSUME TurnInv, NEW w \in Workers, NEW t, Follows(w, t),
         turn' = [turn EXCEPT ![w] = t], UNCHANGED <<turns, second>>,
         NEW row \in Row, memory' = Append(memory, row),
         row.role = "assistant" =>
           \E j \in DOMAIN memory :
             memory[j] = QuestionOf(row, memory[j].at)
  PROVE  TurnInv'
<1>0. memory \in Seq(Row)
  BY DEF TurnInv
<1>1. memory \in Seq(Row) /\ Len(memory) \in Nat /\ DOMAIN memory = 1 .. Len(memory)
  BY <1>0
<1>2. /\ memory' \in Seq(Row) /\ Len(memory') = Len(memory) + 1
      /\ DOMAIN memory' = 1 .. Len(memory) + 1
      /\ \A i \in 1 .. Len(memory) : memory'[i] = memory[i]
      /\ memory'[Len(memory) + 1] = row
  BY <1>1
<1>3. ASSUME NEW i \in DOMAIN memory', i \notin DOMAIN memory,
             memory'[i].role = "assistant"
      PROVE  \E j \in 1 .. i - 1 : Question(memory', i, j)
  <2>1. i = Len(memory) + 1 /\ memory'[i] = row
    BY <1>1, <1>2, <1>3
  <2>2. PICK j \in DOMAIN memory : memory[j] = QuestionOf(row, memory[j].at)
    BY <1>3, <2>1
  <2>3. j \in 1 .. i - 1 /\ memory'[j] = memory[j]
    BY <1>1, <1>2, <2>1
  <2>4. Question(memory', i, j)
    BY <2>1, <2>2, <2>3, Zenon DEF Question
  <2>5. QED
    BY <2>3, <2>4
<1>4. Len(memory) <= Len(memory')
      /\ \A i \in DOMAIN memory : i \in DOMAIN memory' /\ memory'[i] = memory[i]
  BY <1>1, <1>2
<1>5. QED
  BY <1>2, <1>3, <1>4, TurnGoesOn

-----------------------------------------------------------------------------
\* What a turn is given is the latest there is of its scope.
LEMMA TurnBegin ==
  ASSUME TurnInv, NEW w \in Workers, NEW scope \in Scopes \cup {NoScope},
         NEW audio \in BOOLEAN, NEW blank \in BOOLEAN, Begin(w, scope, audio, blank)
  PROVE  TurnInv'
<1>1. PICK h \in GetRecent(scope) :
        turn' = [turn EXCEPT ![w] = [stage |-> "agent", number |-> turns', scope |-> scope,
                                     audio |-> audio, blank |-> blank, given |-> h,
                                     of |-> Len(memory)]]
  BY Zenon DEF Begin
<1> DEFINE t == [stage |-> "agent", number |-> turns', scope |-> scope, audio |-> audio,
                 blank |-> blank, given |-> h, of |-> Len(memory)]
<1>2. turns' = turns + 1 /\ memory' = memory /\ second' = second
  BY DEF Begin
<1>3. memory \in Seq(Row) /\ Len(memory) \in Nat /\ DOMAIN memory = 1 .. Len(memory)
      /\ turns \in Nat
  BY DEF TurnInv
<1>4. /\ h \subseteq Of(scope)
      /\ Cardinality(h) = IF Cardinality(Of(scope)) < RecentLimit
                          THEN Cardinality(Of(scope)) ELSE RecentLimit
      /\ \A i \in h, j \in Of(scope) \ h : memory[i].at \geq memory[j].at
  BY <1>1 DEF GetRecent
<1>5. Of(scope) \subseteq 1 .. Len(memory)
  BY <1>3 DEF Of
<1>6. /\ t \in TurnOf /\ t.stage = "agent" /\ t.of = Len(memory) /\ t.scope = scope
      /\ t.given = h
  BY <1>2, <1>3, <1>4, <1>5 DEF TurnOf
<1>7. turn' = [turn EXCEPT ![w] = t]
  BY <1>1
<1> HIDE DEF t
<1>8. Own(memory, t) = Of(scope)
  BY <1>3, <1>6 DEF Own, Of
<1>9. Cardinality(Of(scope)) \in Nat
  <2>1. IsFiniteSet(1 .. Len(memory))
    BY <1>3, FS_Interval
  <2>2. QED
    BY <1>5, <2>1, FS_Subset, FS_CardinalityType
<1>10. Cardinality(Of(scope)) > Cardinality(h) => Cardinality(h) = RecentLimit
  BY <1>4, <1>9
<1>11. GivenIs(memory, t)
  BY <1>3, <1>4, <1>6, <1>8, <1>10 DEF GivenIs
<1>12. /\ turn' \in [Workers -> TurnOf] /\ turn'[w] = t
       /\ \A v \in Workers : v # w => turn'[v] = turn[v]
  BY <1>6, <1>7 DEF TurnInv
<1>13. ASSUME NEW v \in Workers
       PROVE  /\ turn'[v].stage # "idle" => GivenIs(memory', turn'[v])
              /\ turn'[v].stage \in {"ask", "reply"} => turn'[v].scope \in Scopes
              /\ turn'[v].stage = "reply" => Asked(memory', turn'[v])
  <2>1. CASE v = w
    BY <1>2, <1>6, <1>11, <1>12, <2>1
  <2>2. CASE v # w
    BY <1>2, <1>12, <2>2 DEF TurnInv
  <2>3. QED
    BY <2>1, <2>2
<1>14. turns' \in Nat
  BY <1>2, <1>3
<1>15. QED
  BY <1>2, <1>12, <1>13, <1>14 DEF TurnInv

LEMMA TurnSaves ==
  ASSUME TurnInv, NEW w \in Workers, SaveQuestion(w) \/ SaveReply(w)
  PROVE  TurnInv'
<1> DEFINE row(role) == [turn |-> turn[w].number, role |-> role, scope |-> turn[w].scope,
                         at |-> second]
<1>1. turn[w] \in TurnOf /\ second \in Nat
      /\ (turn[w].stage \in {"ask", "reply"} => turn[w].scope \in Scopes)
  BY DEF TurnInv
<1>2. ASSUME turn[w].scope \in Scopes, NEW role \in {"user", "assistant"}
      PROVE  row(role) \in Row /\ row(role).role = role
  BY <1>1, <1>2 DEF TurnOf, Row
<1>3. CASE SaveQuestion(w)
  <2>1. turn[w].stage = "ask" /\ UNCHANGED <<turns, second>>
    BY <1>3, Zenon DEF SaveQuestion
  <2>2. CASE AfterMemory(w) /\ UNCHANGED memory
    BY <2>1, <2>2, TurnAfterMemory, TurnWritesNone
  <2>3. CASE AppendMessage(w, "user") /\ To(w, "reply")
    <3>1. memory' = Append(memory, row("user"))
      BY <2>3, Zenon DEF AppendMessage
    <3>2. row("user") \in Row /\ row("user").role = "user"
      BY <1>1, <1>2, <2>1
    <3>3. memory \in Seq(Row) /\ Len(memory) \in Nat
      BY DEF TurnInv
    <3>4. /\ Len(memory) + 1 \in DOMAIN memory'
          /\ memory'[Len(memory) + 1] = row("user")
      BY <3>1, <3>2, <3>3
    <3>5. row("user") = [turn |-> turn[w].number, role |-> "user", scope |-> turn[w].scope,
                         at |-> row("user").at]
      OBVIOUS
    <3> HIDE DEF row
    <3>6. Asked(memory', turn[w])
      BY <3>4, <3>5, Zenon DEF Asked
    <3>7. PICK t : Follows(w, t) /\ turn' = [turn EXCEPT ![w] = t]
      BY <1>1, <2>1, <2>3, <3>6, TurnTo
    <3>8. QED
      BY <2>1, <3>1, <3>2, <3>7, TurnWrites
  <2>4. QED
    BY <1>3, <2>2, <2>3, Zenon DEF SaveQuestion
<1>4. CASE SaveReply(w)
  <2>1. turn[w].stage = "reply" /\ AfterMemory(w) /\ UNCHANGED <<turns, second>>
        /\ memory' = Append(memory, row("assistant"))
    BY <1>4, Zenon DEF SaveReply, AppendMessage
  <2>2. row("assistant") \in Row
    BY <1>1, <1>2, <2>1
  <2>3. PICK j \in DOMAIN memory :
          memory[j] = [turn |-> turn[w].number, role |-> "user", scope |-> turn[w].scope,
                       at |-> memory[j].at]
    BY <2>1 DEF TurnInv, Asked
  <2>4. memory[j] = QuestionOf(row("assistant"), memory[j].at)
    BY <2>3, Zenon DEF QuestionOf
  <2>5. PICK t : Follows(w, t) /\ turn' = [turn EXCEPT ![w] = t]
    BY <2>1, TurnAfterMemory
  <2> HIDE DEF row
  <2>6. QED
    BY <2>1, <2>2, <2>4, <2>5, TurnWrites
<1>5. QED
  BY <1>3, <1>4

LEMMA TurnOther ==
  ASSUME TurnInv, NEW w \in Workers,
         Reply(w) \/ SaveFails(w) \/ Speak(w) \/ TurnFails(w)
  PROVE  TurnInv'
<1>1. turn[w].stage # "idle" /\ UNCHANGED <<memory, turns, second>>
  BY DEF Reply, SaveFails, Speak, TurnFails
<1>2. CASE AfterMemory(w) \/ EndTurn(w)
  BY <1>1, <1>2, TurnAfterMemory, TurnWritesNone
<1>3. CASE turn[w].scope # NoScope /\ To(w, "ask")
  <2>1. turn[w].scope \in Scopes
    BY <1>3 DEF TurnInv, TurnOf
  <2>2. PICK t : Follows(w, t) /\ turn' = [turn EXCEPT ![w] = t]
    BY <1>1, <1>3, <2>1, TurnTo
  <2>3. QED
    BY <1>1, <2>2, TurnWritesNone
<1>4. QED
  BY <1>2, <1>3, Zenon DEF Reply, SaveFails, Speak, TurnFails

LEMMA NextTurn ==
  ASSUME TurnInv, [TurnNext]_turnVars
  PROVE  TurnInv'
<1>1. CASE UNCHANGED turnVars
  BY <1>1 DEF turnVars, TurnInv
<1>2. CASE SecondPasses
  <2>1. UNCHANGED <<memory, turn, turns>> /\ second' \in Nat
    BY <1>2 DEF SecondPasses, TurnInv
  <2>2. QED
    BY <2>1 DEF TurnInv
<1>3. ASSUME NEW w \in Workers,
             \/ \E scope \in Scopes \cup {NoScope}, audio, blank \in BOOLEAN :
                  Begin(w, scope, audio, blank)
             \/ Reply(w) \/ SaveQuestion(w) \/ SaveReply(w) \/ SaveFails(w) \/ Speak(w)
             \/ TurnFails(w)
      PROVE  TurnInv'
  BY <1>3, TurnBegin, TurnSaves, TurnOther, Zenon
<1>4. QED
  BY <1>1, <1>2, <1>3, Zenon DEF TurnNext

LEMMA TurnCorrect == TurnSpec => []TurnInv
  BY InitTurn, NextTurn, PTL DEF TurnSpec

LEMMA TurnSound == TurnInv => MemoryIsRecent
<1> SUFFICES ASSUME TurnInv PROVE MemoryIsRecent
  OBVIOUS
<1>1. ASSUME NEW w \in Workers, turn[w].stage # "idle"
      PROVE  GivenIs(memory, turn[w])
  BY <1>1 DEF TurnInv
<1>2. ASSUME NEW i \in DOMAIN memory, memory[i].role = "assistant"
      PROVE  \E j \in 1 .. i - 1 :
               memory[j] = [memory[i] EXCEPT !.role = "user", !.at = memory[j].at]
  <2>1. PICK j \in 1 .. i - 1 : memory[j] = QuestionOf(memory[i], memory[j].at)
    BY <1>2 DEF TurnInv, Question
  <2>2. memory \in Seq(Row)
    BY DEF TurnInv
  <2>3. j \in DOMAIN memory
    BY <1>2, <2>2
  <2>4. \A n \in DOMAIN memory : memory[n] \in Row /\ memory[n].at \in Nat
    <3>1. \A n \in DOMAIN memory : memory[n] \in Row
      BY <2>2
    <3>2. QED
      BY <3>1 DEF Row
  <2>5. QED
    BY <1>2, <2>1, <2>3, <2>4, QuestionIs, Zenon
<1>3. QED
  BY <1>1, <1>2, Zenon DEF MemoryIsRecent, GivenIs, Own

(***************************************************************************)
(* For any number of turns of any scopes: a turn is given the latest       *)
(* messages of its own scope, and no reply is remembered without its       *)
(* question before it.                                                     *)
(***************************************************************************)
THEOREM MemoryIsRecentCorrect == TurnSpec => []MemoryIsRecent
<1>1. TurnInv => MemoryIsRecent
  BY TurnSound
<1>2. QED
  BY <1>1, TurnCorrect, PTL

-----------------------------------------------------------------------------
(* ChatTurn: what a turn leaves in the memory *)

\* Turns are told apart by their numbers, and leave one message of a role at most.
NumbersInv ==
  /\ TurnInv
  /\ memory \in Seq(Message)
  /\ turns \leq MaxTurns /\ second \leq MaxSeconds
  /\ \A i \in DOMAIN memory : memory[i].turn \leq turns
  /\ \A w \in Workers : turn[w].stage = "idle" => turn[w] = Resting
  /\ \A w \in Workers : turn[w].stage # "idle" =>
       /\ turn[w].number \in 1 .. turns
       /\ \A v \in Workers \ {w} : turn[v].stage # "idle" => turn[v].number # turn[w].number
       /\ \A i \in DOMAIN memory : memory[i].turn = turn[w].number =>
            /\ turn[w].stage \notin {"agent", "ask"}
            /\ turn[w].stage = "reply" => memory[i].role = "user"
  /\ \A i, j \in DOMAIN memory :
       i # j => memory[i].turn # memory[j].turn \/ memory[i].role # memory[j].role

LEMMA RestingIsIdle == Resting.stage = "idle"
  BY DEF Resting

LEMMA InitNumbers == TurnInit => NumbersInv
<1> SUFFICES ASSUME TurnInit PROVE NumbersInv
  OBVIOUS
<1>1. TurnInv
  BY InitTurn
<1>2. QED
  BY <1>1, ChatTurnAssumption DEF TurnInit, NumbersInv, Resting

\* A worker rests, or goes on with its turn without a message.
LEMMA NumbersStay ==
  ASSUME NumbersInv, TurnInv', NEW w \in Workers, NEW t,
         turn[w].stage # "idle",
         turn' = [turn EXCEPT ![w] = t],
         \/ t = Resting
         \/ /\ t.number = turn[w].number /\ t.stage \in {"ask", "speech"}
            /\ t.stage = "ask" => turn[w].stage = "agent",
         UNCHANGED <<memory, turns, second>>
  PROVE  NumbersInv'
<1>1. /\ turn' [w] = t
      /\ \A v \in Workers \ {w} : turn'[v] = turn[v]
  BY DEF NumbersInv, TurnInv
<1>2. \A v \in Workers : turn'[v].stage = "idle" => turn'[v] = Resting
  BY <1>1 DEF NumbersInv
<1>3. QED
  BY <1>1, <1>2, RestingIsIdle DEF NumbersInv

\* A worker remembers its question, or its reply, and goes on or rests.
LEMMA NumbersGrow ==
  ASSUME NumbersInv, TurnInv', NEW w \in Workers, NEW t,
         turn' = [turn EXCEPT ![w] = t],
         NEW role \in {"user", "assistant"}, AppendMessage(w, role),
         turn[w].scope \in Scopes,
         \/ t = Resting
         \/ t.number = turn[w].number /\ t.stage \in {"reply", "speech"},
         \/ turn[w].stage = "ask" /\ role = "user"
         \/ turn[w].stage = "reply" /\ role = "assistant" /\ t.stage # "reply",
         UNCHANGED <<turns, second>>
  PROVE  NumbersInv'
<1>1. /\ turn' [w] = t
      /\ \A v \in Workers \ {w} : turn'[v] = turn[v]
  BY DEF NumbersInv, TurnInv
<1> DEFINE row == [turn |-> turn[w].number, role |-> role, scope |-> turn[w].scope,
                   at |-> second]
           n == Len(memory) + 1
<1>2. row \in Message
  BY ChatTurnAssumption DEF NumbersInv, TurnInv, Message
<1>3. row.turn = turn[w].number /\ row.role = role
  OBVIOUS
<1>4. memory' = Append(memory, row)
  BY DEF AppendMessage
<1> HIDE DEF row
<1>5. /\ memory' \in Seq(Message) /\ n \in Nat
      /\ DOMAIN memory' = DOMAIN memory \cup {n} /\ n \notin DOMAIN memory
      /\ memory'[n] = row /\ \A i \in DOMAIN memory : memory'[i] = memory[i]
  BY <1>2, <1>4 DEF NumbersInv
<1> HIDE DEF n
<1>6. \A i \in DOMAIN memory' : memory'[i].turn \leq turns'
  BY <1>3, <1>5 DEF NumbersInv
<1>7. \A i, j \in DOMAIN memory' :
        i # j => memory'[i].turn # memory'[j].turn \/ memory'[i].role # memory'[j].role
  <2>1. \A i \in DOMAIN memory : memory[i].turn # turn[w].number \/ memory[i].role # role
    BY DEF NumbersInv
  <2>2. QED
    BY <1>3, <1>5, <2>1 DEF NumbersInv
<1>8. ASSUME NEW v \in Workers, turn'[v].stage # "idle"
      PROVE  /\ turn'[v].number \in 1 .. turns'
             /\ \A u \in Workers \ {v} :
                  turn'[u].stage # "idle" => turn'[u].number # turn'[v].number
             /\ \A i \in DOMAIN memory' : memory'[i].turn = turn'[v].number =>
                  /\ turn'[v].stage \notin {"agent", "ask"}
                  /\ turn'[v].stage = "reply" => memory'[i].role = "user"
  <2>1. /\ turn[v].stage # "idle" /\ turn'[v].number = turn[v].number
        /\ v # w => turn'[v] = turn[v]
    BY <1>1, <1>8, RestingIsIdle
  <2>2. \A u \in Workers \ {v} :
          turn'[u].stage # "idle" => turn'[u].number # turn'[v].number
    <3>1. \A u \in Workers : turn'[u].stage # "idle" =>
            turn[u].stage # "idle" /\ turn'[u].number = turn[u].number
      BY <1>1, RestingIsIdle
    <3>2. \A u \in Workers \ {v} : turn[u].stage # "idle" => turn[u].number # turn[v].number
      BY <2>1 DEF NumbersInv
    <3>3. QED
      BY <2>1, <3>1, <3>2
  <2>3. CASE v # w
    BY <1>1, <1>3, <1>5, <2>1, <2>2, <2>3 DEF NumbersInv
  <2>4. CASE v = w
    <3>1. turn'[v].stage = "reply" => role = "user" /\ turn[v].stage = "ask"
      BY <1>1, <2>4, RestingIsIdle
    <3>2. turn'[v].stage \notin {"agent", "ask"}
      BY <1>1, <1>8, <2>4, RestingIsIdle
    <3>3. QED
      BY <1>3, <1>5, <2>1, <2>2, <2>4, <3>1, <3>2 DEF NumbersInv
  <2>5. QED
    BY <2>3, <2>4
<1>9. \A v \in Workers : turn'[v].stage = "idle" => turn'[v] = Resting
  BY <1>1 DEF NumbersInv
<1>10. QED
  BY <1>5, <1>6, <1>7, <1>8, <1>9 DEF NumbersInv

\* A new turn takes the next number.
LEMMA NumbersBegin ==
  ASSUME NumbersInv, TurnInv', NEW w \in Workers, NEW scope, NEW audio, NEW blank,
         Begin(w, scope, audio, blank)
  PROVE  NumbersInv'
<1>1. /\ turn[w].stage = "idle" /\ turns < MaxTurns /\ turns' = turns + 1
      /\ UNCHANGED <<memory, second>>
  BY DEF Begin
<1>2. PICK h : turn' = [turn EXCEPT ![w] = [stage |-> "agent", number |-> turns',
                          scope |-> scope, audio |-> audio, blank |-> blank, given |-> h,
                          of |-> Len(memory)]]
  BY DEF Begin
<1>3. /\ turn'[w].stage = "agent" /\ turn'[w].number = turns'
      /\ \A v \in Workers \ {w} : turn'[v] = turn[v]
  BY <1>2 DEF NumbersInv, TurnInv
<1>4. turns \in Nat /\ MaxTurns \in Nat
  BY ChatTurnAssumption DEF NumbersInv, TurnInv
<1>5. \A i \in DOMAIN memory : memory[i].turn \in Nat /\ memory[i].turn \leq turns
  <2>1. memory \in Seq(Row) /\ \A i \in DOMAIN memory : memory[i].turn \leq turns
    BY DEF NumbersInv, TurnInv
  <2>2. \A i \in DOMAIN memory : memory[i] \in Row
    BY <2>1
  <2>3. QED
    BY <2>1, <2>2 DEF Row
<1>6. \A v \in Workers \ {w} : turn[v].stage # "idle" => turn[v].number \in 1 .. turns
  BY DEF NumbersInv
<1>7. turns' \in Nat /\ turns' \leq MaxTurns /\ turns' \in 1 .. turns' /\ turns < turns'
  BY <1>1, <1>4
<1>8. \A i \in DOMAIN memory' : memory'[i].turn \leq turns' /\ memory'[i].turn # turns'
  BY <1>1, <1>4, <1>5
<1>9. \A v \in Workers \ {w} : turn'[v].stage # "idle" =>
        /\ turn'[v].number = turn[v].number
        /\ turn'[v].number \in 1 .. turns' /\ turn'[v].number # turns'
  BY <1>1, <1>3, <1>4, <1>6
<1>10. ASSUME NEW v \in Workers, turn'[v].stage # "idle"
       PROVE  /\ turn'[v].number \in 1 .. turns'
              /\ \A u \in Workers \ {v} :
                   turn'[u].stage # "idle" => turn'[u].number # turn'[v].number
              /\ \A i \in DOMAIN memory' : memory'[i].turn = turn'[v].number =>
                   /\ turn'[v].stage \notin {"agent", "ask"}
                   /\ turn'[v].stage = "reply" => memory'[i].role = "user"
  <2>1. CASE v = w
    BY <1>3, <1>7, <1>8, <1>9, <2>1
  <2>2. CASE v # w
    <3>1. /\ turn'[v] = turn[v] /\ turn[v].stage # "idle"
          /\ turn'[v].number \in 1 .. turns' /\ turn'[v].number # turns'
      BY <1>3, <1>9, <1>10, <2>2
    <3>2. \A u \in Workers \ {v} :
            turn'[u].stage # "idle" => turn'[u].number # turn'[v].number
      BY <1>3, <3>1 DEF NumbersInv
    <3>3. QED
      BY <1>1, <3>1, <3>2 DEF NumbersInv
  <2>3. QED
    BY <2>1, <2>2
<1>11. \A v \in Workers : turn'[v].stage = "idle" => turn'[v] = Resting
  BY <1>3 DEF NumbersInv
<1>12. QED
  BY <1>1, <1>7, <1>8, <1>10, <1>11 DEF NumbersInv

LEMMA NextNumbers == NumbersInv /\ [TurnNext]_turnVars => NumbersInv'
<1> SUFFICES ASSUME NumbersInv, [TurnNext]_turnVars PROVE NumbersInv'
  OBVIOUS
<1>1. TurnInv /\ TurnInv'
  BY NextTurn DEF NumbersInv
<1>2. CASE UNCHANGED turnVars
  BY <1>1, <1>2 DEF turnVars, NumbersInv
<1>3. CASE SecondPasses
  <2>1. UNCHANGED <<memory, turn, turns>> /\ second' = second + 1 /\ second < MaxSeconds
    BY <1>3 DEF SecondPasses
  <2>2. second' \leq MaxSeconds
    BY <1>1, <2>1, ChatTurnAssumption DEF TurnInv
  <2>3. QED
    BY <1>1, <2>1, <2>2 DEF NumbersInv
<1>4. ASSUME NEW w \in Workers, NEW scope, NEW audio, NEW blank, Begin(w, scope, audio, blank)
      PROVE  NumbersInv'
  BY <1>1, <1>4, NumbersBegin
<1>5. ASSUME NEW w \in Workers
      PROVE  /\ EndTurn(w) => turn' = [turn EXCEPT ![w] = Resting]
             /\ \A p : To(w, p) => turn' = [turn EXCEPT ![w] = [turn[w] EXCEPT !.stage = p]]
             /\ AfterMemory(w) => EndTurn(w) \/ To(w, "speech")
             /\ turn[w] \in TurnOf
             /\ \A p : LET t == [turn[w] EXCEPT !.stage = p] IN
                      t.stage = p /\ t.number = turn[w].number
  <2>1. turn[w] \in TurnOf
    BY <1>1 DEF TurnInv
  <2>2. \A p : LET t == [turn[w] EXCEPT !.stage = p] IN
                 t.stage = p /\ t.number = turn[w].number
    BY <2>1 DEF TurnOf
  <2>3. QED
    BY <2>1, <2>2, Zenon DEF EndTurn, To, AfterMemory
<1>6. ASSUME NEW w \in Workers, turn[w].stage # "idle", UNCHANGED <<memory, turns, second>>,
             \/ AfterMemory(w) \/ EndTurn(w)
             \/ turn[w].stage = "agent" /\ To(w, "ask")
      PROVE  NumbersInv'
  <2>1. CASE EndTurn(w)
    BY <1>1, <1>5, <1>6, <2>1, NumbersStay
  <2>2. CASE To(w, "speech")
    <3> DEFINE t == [turn[w] EXCEPT !.stage = "speech"]
    <3>1. t.stage = "speech" /\ t.number = turn[w].number /\ turn' = [turn EXCEPT ![w] = t]
      BY <1>5, <2>2
    <3> HIDE DEF t
    <3>2. QED
      BY <1>1, <1>6, <3>1, NumbersStay
  <2>3. CASE turn[w].stage = "agent" /\ To(w, "ask")
    <3> DEFINE t == [turn[w] EXCEPT !.stage = "ask"]
    <3>1. t.stage = "ask" /\ t.number = turn[w].number /\ turn' = [turn EXCEPT ![w] = t]
      BY <1>5, <2>3
    <3> HIDE DEF t
    <3>2. QED
      BY <1>1, <1>6, <2>3, <3>1, NumbersStay
  <2>4. QED
    BY <1>5, <1>6, <2>1, <2>2, <2>3
<1>7. ASSUME NEW w \in Workers, Reply(w) \/ SaveFails(w) \/ Speak(w) \/ TurnFails(w)
      PROVE  NumbersInv'
  <2>1. /\ turn[w].stage # "idle" /\ UNCHANGED <<memory, turns, second>>
        /\ \/ AfterMemory(w) \/ EndTurn(w)
           \/ turn[w].stage = "agent" /\ To(w, "ask")
    BY <1>7 DEF Reply, SaveFails, Speak, TurnFails
  <2>2. QED
    BY <1>6, <2>1
<1>8. ASSUME NEW w \in Workers, SaveQuestion(w)
      PROVE  NumbersInv'
  <2>1. turn[w].stage = "ask" /\ UNCHANGED <<turns, second>> /\ turn[w].scope \in Scopes
    BY <1>1, <1>8 DEF SaveQuestion, TurnInv
  <2>2. CASE AfterMemory(w) /\ UNCHANGED memory
    BY <1>6, <2>1, <2>2
  <2>3. CASE AppendMessage(w, "user") /\ To(w, "reply")
    <3> DEFINE t == [turn[w] EXCEPT !.stage = "reply"]
    <3>1. t.stage = "reply" /\ t.number = turn[w].number /\ turn' = [turn EXCEPT ![w] = t]
      BY <1>5, <2>3
    <3> HIDE DEF t
    <3>2. QED
      BY <1>1, <2>1, <2>3, <3>1, NumbersGrow
  <2>4. QED
    BY <1>8, <2>2, <2>3, Zenon DEF SaveQuestion
<1>9. ASSUME NEW w \in Workers, SaveReply(w)
       PROVE  NumbersInv'
  <2>1. /\ turn[w].stage = "reply" /\ UNCHANGED <<turns, second>> /\ turn[w].scope \in Scopes
        /\ AppendMessage(w, "assistant") /\ AfterMemory(w)
    BY <1>1, <1>9 DEF SaveReply, TurnInv
  <2>2. CASE EndTurn(w)
    <3>1. turn' = [turn EXCEPT ![w] = Resting]
      BY <1>5, <2>2
    <3>2. Resting.stage # "reply"
      BY RestingIsIdle
    <3>3. QED
      BY <1>1, <2>1, <3>1, <3>2, NumbersGrow
  <2>3. CASE To(w, "speech")
    <3> DEFINE t == [turn[w] EXCEPT !.stage = "speech"]
    <3>1. t.stage = "speech" /\ t.number = turn[w].number /\ turn' = [turn EXCEPT ![w] = t]
      BY <1>5, <2>3
    <3> HIDE DEF t
    <3>2. QED
      BY <1>1, <2>1, <3>1, NumbersGrow
  <2>4. QED
    BY <1>5, <2>1, <2>2, <2>3
<1>10. QED
  BY <1>2, <1>3, <1>4, <1>7, <1>8, <1>9, Zenon DEF TurnNext

\* The messages are as many as there are numbers and roles, at most.
LEMMA MemoryIsBounded == ASSUME NumbersInv PROVE Len(memory) \leq 2 * MaxTurns
<1> DEFINE n == Len(memory)
           place(i) == 2 * memory[i].turn - IF memory[i].role = "user" THEN 1 ELSE 0
           f == [i \in 1 .. n |-> place(i)]
<1>1. /\ n \in Nat /\ MaxTurns \in Nat /\ turns \in Nat /\ turns \leq MaxTurns
      /\ \A i \in 1 .. n : memory[i] \in Message
  BY ChatTurnAssumption DEF NumbersInv, TurnInv
<1>2. \A i \in 1 .. n : /\ memory[i].turn \in 1 .. MaxTurns
                        /\ memory[i].role \in {"user", "assistant"}
  BY <1>1 DEF Message
<1>3. \A i \in 1 .. n : place(i) \in 1 .. 2 * MaxTurns
  BY <1>1, <1>2
<1>4. \A i, j \in 1 .. n : i # j => place(i) # place(j)
  <2>1. \A i, j \in 1 .. n :
          i # j => memory[i].turn # memory[j].turn \/ memory[i].role # memory[j].role
    BY <1>1 DEF NumbersInv
  <2>2. QED
    BY <1>2, <2>1
<1> HIDE DEF place
<1>5. f \in Injection(1 .. n, 1 .. 2 * MaxTurns)
  BY <1>3, <1>4 DEF Injection, IsInjective
<1>6. n \leq 2 * MaxTurns
  <2> HIDE DEF n, f
  <2>1. \A k \in Nat : IsFiniteSet(1 .. k) /\ Cardinality(1 .. k) = k
    BY FS_Interval
  <2>2. 2 * MaxTurns \in Nat
    BY <1>1
  <2>3. Cardinality(1 .. n) \leq Cardinality(1 .. 2 * MaxTurns)
    BY <1>5, <2>1, <2>2, FS_Injection
  <2>4. QED
    BY <1>1, <2>1, <2>2, <2>3
<1>7. QED
  BY <1>1, <1>6

LEMMA NumbersType == NumbersInv => TurnTypeOK
<1> SUFFICES ASSUME NumbersInv PROVE TurnTypeOK
  OBVIOUS
<1>1. /\ turns \in 0 .. MaxTurns /\ second \in 0 .. MaxSeconds
      /\ memory \in Seq(Message) /\ Len(memory) \leq 2 * MaxTurns /\ Len(memory) \in Nat
      /\ MaxTurns \in Nat
  BY ChatTurnAssumption, MemoryIsBounded DEF NumbersInv, TurnInv
<1>2. ASSUME NEW w \in Workers
      PROVE  turn[w] \in Turn
  <2>1. turn[w] \in TurnOf
    BY DEF NumbersInv, TurnInv
  <2>2. CASE turn[w].stage = "idle"
    <3>1. turn[w] = Resting
      BY <2>2 DEF NumbersInv
    <3>2. QED
      BY <1>1, <3>1 DEF Resting, Turn
  <2>3. CASE turn[w].stage # "idle"
    <3>1. turn[w].number \in 0 .. MaxTurns
      BY <1>1, <2>3 DEF NumbersInv
    <3>2. GivenIs(memory, turn[w])
      BY <2>3 DEF NumbersInv, TurnInv
    <3>3. turn[w].of \in 0 .. 2 * MaxTurns
      BY <1>1, <2>1, <3>2 DEF GivenIs, TurnOf
    <3>4. turn[w].given \subseteq 1 .. turn[w].of
      BY <3>2 DEF GivenIs, Own
    <3>5. turn[w].given \subseteq 1 .. 2 * MaxTurns
      BY <1>1, <3>3, <3>4
    <3>6. QED
      BY <2>1, <3>1, <3>3, <3>5 DEF TurnOf, Turn
  <2>4. QED
    BY <2>2, <2>3
<1>3. turn \in [Workers -> Turn]
  BY <1>2 DEF NumbersInv, TurnInv
<1>4. QED
  BY <1>1, <1>3 DEF TurnTypeOK

LEMMA NumbersCorrect == TurnSpec => []NumbersInv
  BY InitNumbers, NextNumbers, PTL DEF TurnSpec

\* No turn leaves two questions, or two replies.
RememberedOnce ==
  \A i, j \in DOMAIN memory :
    i # j => memory[i].turn # memory[j].turn \/ memory[i].role # memory[j].role

(***************************************************************************)
(* For any number of turns, however they interleave and fail: a turn       *)
(* leaves one question and one reply at most, so that the memory grows by  *)
(* two messages a turn.                                                    *)
(***************************************************************************)
THEOREM TurnsRememberedOnce == TurnSpec => [](TurnTypeOK /\ RememberedOnce)
<1>1. NumbersInv => TurnTypeOK /\ RememberedOnce
  BY NumbersType DEF NumbersInv, RememberedOnce
<1>2. QED
  BY <1>1, NumbersCorrect, PTL

-----------------------------------------------------------------------------
(* TelemetryMetrics *)

\* What a result holds of a metric.
Found(f, m) == IF m \in DOMAIN f THEN {f[m]} ELSE {}

LEMMA AssignAt ==
  ASSUME NEW a, NEW b, NEW m
  PROVE  Found(Assign(a, b), m) = IF Found(b, m) # {} THEN Found(b, m) ELSE Found(a, m)
  BY DEF Assign, Found

LEMMA NumberAt ==
  ASSUME NEW key, NEW f, NEW m
  PROVE  Found(ToNumber(key, f), m) = IF IsBare(f) /\ m = key THEN {f.n} ELSE {}
  BY DEF ToNumber, Nothing, Found

\* Of an object that has one field of a name, its number is what is extracted.
LEMMA ExtractedAt ==
  ASSUME NEW fields, NEW skipKeys, NEW m, Once(DOMAIN fields \ skipKeys)
  PROVE  Found(ExtractNumericFields(fields, skipKeys), m) = GivenBy(fields, skipKeys, m)
<1> DEFINE kept == {k \in DOMAIN fields \ skipKeys : IsNumber(fields[k])}
           out == [x \in {Lower(k) : k \in kept} |-> fields[CHOOSE k \in kept : Lower(k) = x].n]
<1>1. ExtractNumericFields(fields, skipKeys) = out
  BY DEF ExtractNumericFields
<1>2. GivenBy(fields, skipKeys, m) = {fields[k].n : k \in {l \in kept : Lower(l) = m}}
  BY DEF GivenBy
<1>3. \A k, l \in kept : Lower(k) = Lower(l) => k = l
  BY DEF Once
<1> HIDE DEF kept
<1>4. CASE \E k \in kept : Lower(k) = m
  <2>1. PICK k \in kept : Lower(k) = m
    BY <1>4
  <2>2. (CHOOSE l \in kept : Lower(l) = m) = k
    BY <1>3, <2>1
  <2>3. m \in DOMAIN out /\ out[m] = fields[k].n
    BY <2>1, <2>2
  <2>4. {l \in kept : Lower(l) = m} = {k}
    BY <1>3, <2>1
  <2>5. QED
    BY <1>1, <1>2, <2>3, <2>4 DEF Found
<1>5. CASE ~\E k \in kept : Lower(k) = m
  <2>1. m \notin DOMAIN out
    BY <1>5
  <2>2. {l \in kept : Lower(l) = m} = {}
    BY <1>5
  <2>3. QED
    BY <1>1, <1>2, <2>1, <2>2 DEF Found
<1>6. QED
  BY <1>4, <1>5

LEMMA ResolvedAt ==
  ASSUME NEW metrics, NEW m
  PROVE  ResolveMetricReading(metrics, m)
           = IF Found(metrics, m) # {} THEN Found(metrics, m) ELSE Found(metrics, "value")
  BY DEF ResolveMetricReading, Found

\* What the parser holds of a metric is what the payload gives for it.
LEMMA ParsedAt ==
  ASSUME NEW p, NEW m \in MetricNames, Payload(p)
  PROVE  Found(ParseTelemetryMetrics(p), m) = GivenFor(p, m)
<1>1. CASE p.form = "object"
  <2> DEFINE value == IF Value(p) = Inner THEN ExtractNumericFields(p.inner, {})
                      ELSE ToNumber("value", Value(p))
             named == IF p.name = "" THEN Nothing ELSE ToNumber(p.name, Value(p))
             own == ExtractNumericFields(p.fields, SkipKeys)
  <2>1. /\ ParseTelemetryMetrics(p) = Assign(Assign(value, named), own)
        /\ GivenFor(p, m) = IF GivenBy(p.fields, SkipKeys, m) # {}
                            THEN GivenBy(p.fields, SkipKeys, m) ELSE InValue(p, m)
    BY <1>1, Zenon DEF ParseTelemetryMetrics, OfObject, GivenFor
  <2>2. Once(DOMAIN p.fields \ SkipKeys) /\ Once(DOMAIN p.inner \ {})
    BY <1>1 DEF Payload, Fields
  <2>3. Found(own, m) = GivenBy(p.fields, SkipKeys, m)
    BY <2>2, ExtractedAt
  <2>4. Found(named, m) = IF IsBare(Value(p)) /\ m = p.name THEN {Value(p).n} ELSE {}
    <3>1. CASE p.name = ""
      <4>1. m # p.name
        BY <3>1, PayloadsAssumption, Zenon DEF MetricNames
      <4>2. Found(named, m) = {}
        BY <3>1, Zenon DEF Found, Nothing
      <4>3. QED
        BY <4>1, <4>2, Zenon
    <3>2. CASE p.name # ""
      BY <3>2, NumberAt, Zenon
    <3>3. QED
      BY <3>1, <3>2
  <2>5. Found(value, m) = IF Value(p) = Inner THEN GivenBy(p.inner, {}, m)
                       ELSE IF IsBare(Value(p)) /\ m = "value" THEN {Value(p).n} ELSE {}
    BY <2>2, ExtractedAt, NumberAt
  <2> HIDE DEF value, named, own
  <2>6. Found(Assign(Assign(value, named), own), m)
          = IF Found(own, m) # {} THEN Found(own, m)
            ELSE IF Found(named, m) # {} THEN Found(named, m) ELSE Found(value, m)
    BY AssignAt
  <2>7. ~IsBare(Inner)
    BY DEF IsBare, Inner
  <2>8. QED
    BY <2>1, <2>3, <2>4, <2>5, <2>6, <2>7 DEF InValue
<1>2. CASE p.form = "text"
  <2>1. /\ ParseTelemetryMetrics(p) = ToNumber("value", p.text)
        /\ GivenFor(p, m) = IF m = "value" /\ IsBare(p.text) THEN {p.text.n} ELSE {}
    BY <1>2, Zenon DEF ParseTelemetryMetrics, GivenFor
  <2>2. QED
    BY <2>1, NumberAt
<1>3. CASE p.form = "other"
  BY <1>3 DEF ParseTelemetryMetrics, GivenFor, Nothing, Found
<1>4. QED
  BY <1>1, <1>2, <1>3 DEF Payload

(***************************************************************************)
(* For any metrics, numbers and payloads: a rule reads the number the      *)
(* payload gives for its metric, of a field of its own first; otherwise    *)
(* what is given for "value", whoever that is for; otherwise nothing.      *)
(***************************************************************************)
THEOREM ReadingIsOwnCorrect ==
  ASSUME TelemetryInit
  PROVE  ReadingIsOwn
<1>1. Payload(payload) /\ wanted \in MetricNames /\ "value" \in MetricNames
  BY PayloadsAssumption DEF TelemetryInit, MetricNames
<1>2. /\ Found(ParseTelemetryMetrics(payload), wanted) = GivenFor(payload, wanted)
      /\ Found(ParseTelemetryMetrics(payload), "value") = GivenFor(payload, "value")
  BY <1>1, ParsedAt
<1>3. QED
  BY <1>2, ResolvedAt, Zenon DEF ReadingIsOwn

-----------------------------------------------------------------------------
(* ScheduleTime: a year's days follow those of the year before, a month's  *)
(* those of the month before                                               *)

LEMMA DayOf ==
  ASSUME NEW n \in Int, NEW s \in Int, 0 \leq s, s < Day
  PROVE  (Day * n + s) \div Day = n
  BY DEF Day

LEMMA DayIs ==
  ASSUME NEW t \in Int
  PROVE  t \div Day \in Int /\ Day * (t \div Day) \leq t /\ t < Day * (t \div Day) + Day
  BY DEF Day

LEMMA YearFollows ==
  ASSUME FirstYear \in Nat, NEW y \in Int
  PROVE  /\ FirstDay(y) \in Int
         /\ FirstDay(y + 1) = FirstDay(y) + IF Leap(y) THEN 366 ELSE 365
<1>1. LeapsTo(y) \in Int /\ LeapsTo(y - 1) \in Int /\ LeapsTo(FirstYear - 1) \in Int
  BY DEF LeapsTo
<1>2. LeapsTo(y) - LeapsTo(y - 1) = IF Leap(y) THEN 1 ELSE 0
  BY DEF LeapsTo, Leap
<1>3. (y + 1) - 1 = y
  OBVIOUS
<1> HIDE DEF LeapsTo
<1>4. QED
  BY <1>1, <1>2, <1>3 DEF FirstDay

LEMMA YearsFollow ==
  ASSUME FirstYear \in Nat, NEW x \in Int, NEW y \in Int, x \leq y
  PROVE  FirstDay(x) \leq FirstDay(y)
<1>1. LeapsTo(x - 1) \in Int /\ LeapsTo(y - 1) \in Int /\ LeapsTo(FirstYear - 1) \in Int
  BY DEF LeapsTo
<1>2. LeapsTo(x - 1) \leq LeapsTo(y - 1)
  BY DEF LeapsTo
<1> HIDE DEF LeapsTo
<1>3. QED
  BY <1>1, <1>2 DEF FirstDay

MonthStart(y, m) == DaysBefore[m] + IF m > 2 /\ Leap(y) THEN 1 ELSE 0

LEMMA MonthsFollow ==
  ASSUME NEW y, NEW m \in 1 .. 12
  PROVE  /\ MonthStart(y, m) \in Nat
         /\ MonthLength(y, m) \in 28 .. 31
         /\ m = 12 => MonthStart(y, m) + MonthLength(y, m) = IF Leap(y) THEN 366 ELSE 365
         /\ m < 12 => MonthStart(y, m + 1) = MonthStart(y, m) + MonthLength(y, m)
         /\ \A k \in 1 .. 12 : m < k => MonthStart(y, m) + MonthLength(y, m)
                                          \leq MonthStart(y, k)
<1>1. m \in {1, 2, 3, 4, 5, 6, 7, 8, 9, 10, 11, 12}
  OBVIOUS
<1>2. QED
  BY <1>1 DEF MonthStart, MonthLength, DaysBefore

LEMMA DayOfDate ==
  ASSUME FirstYear \in Nat, LastYear \in Nat, NEW d \in Calendar
  PROVE  /\ DayNumber(d) = FirstDay(d.year) + MonthStart(d.year, d.month) + d.day - 1
         /\ DayNumber(d) \in Int /\ FirstDay(d.year) \in Int
         /\ Real(d) => /\ FirstDay(d.year) \leq DayNumber(d)
                       /\ DayNumber(d) < FirstDay(d.year + 1)
<1>1. d.year \in Int /\ d.month \in 1 .. 12 /\ d.day \in 1 .. 31
  BY DEF Calendar
<1>2. FirstDay(d.year) \in Int
      /\ FirstDay(d.year + 1) = FirstDay(d.year) + IF Leap(d.year) THEN 366 ELSE 365
  BY <1>1, YearFollows
<1>3. /\ MonthStart(d.year, d.month) \in Nat
      /\ MonthStart(d.year, 12) + MonthLength(d.year, 12) = IF Leap(d.year) THEN 366 ELSE 365
      /\ MonthLength(d.year, d.month) \in 28 .. 31
      /\ MonthLength(d.year, 12) \in 28 .. 31
      /\ d.month # 12 => MonthStart(d.year, d.month) + MonthLength(d.year, d.month)
                           \leq MonthStart(d.year, 12)
      /\ MonthStart(d.year, 12) \in Nat
  BY <1>1, MonthsFollow
<1>4. DayNumber(d) = FirstDay(d.year) + MonthStart(d.year, d.month) + d.day - 1
  <2>1. DaysBefore[d.month] \in Int
    BY <1>1 DEF DaysBefore
  <2> HIDE DEF DaysBefore, FirstDay
  <2>2. QED
    BY <1>1, <1>2, <2>1 DEF DayNumber, MonthStart
<1> HIDE DEF DayNumber, MonthStart, MonthLength, FirstDay
<1>5. QED
  BY <1>1, <1>2, <1>3, <1>4 DEF Real

LEMMA DaysDiffer ==
  ASSUME FirstYear \in Nat, LastYear \in Nat, NEW d \in RealDates, NEW e \in RealDates,
         DayNumber(d) = DayNumber(e)
  PROVE  d = e
<1>1. d \in Calendar /\ e \in Calendar /\ Real(d) /\ Real(e)
  BY DEF RealDates
<1>2. /\ d.year \in Int /\ d.month \in 1 .. 12 /\ d.day \in 1 .. 31
      /\ e.year \in Int /\ e.month \in 1 .. 12 /\ e.day \in 1 .. 31
  BY <1>1 DEF Calendar
<1>3. d.year = e.year
  <2>1. ASSUME NEW x \in RealDates, NEW y \in RealDates, x.year < y.year
        PROVE  DayNumber(x) < DayNumber(y)
    <3>1. x \in Calendar /\ y \in Calendar /\ Real(x) /\ Real(y)
      BY DEF RealDates
    <3>2. x.year \in Int /\ y.year \in Int /\ x.year + 1 \in Int /\ x.year + 1 \leq y.year
      BY <2>1, <3>1 DEF Calendar
    <3>3. FirstDay(x.year + 1) \leq FirstDay(y.year)
      BY <3>2, YearsFollow
    <3>4. FirstDay(x.year + 1) \in Int /\ FirstDay(y.year) \in Int
      BY <3>2, YearFollows
    <3>5. /\ DayNumber(x) < FirstDay(x.year + 1) /\ FirstDay(y.year) \leq DayNumber(y)
          /\ DayNumber(x) \in Int /\ DayNumber(y) \in Int
      BY <3>1, DayOfDate
    <3> HIDE DEF FirstDay, DayNumber
    <3>6. QED
      BY <3>3, <3>4, <3>5
  <2>2. DayNumber(d) \in Int /\ DayNumber(e) \in Int
    BY <1>1, DayOfDate
  <2>3. ~(d.year < e.year) /\ ~(e.year < d.year)
    BY <2>1, <2>2
  <2>4. QED
    BY <1>2, <2>3
<1>4. MonthStart(d.year, d.month) + d.day = MonthStart(d.year, e.month) + e.day
  <2>1. /\ DayNumber(d) = FirstDay(d.year) + MonthStart(d.year, d.month) + d.day - 1
        /\ DayNumber(e) = FirstDay(d.year) + MonthStart(d.year, e.month) + e.day - 1
        /\ FirstDay(d.year) \in Int
    <3>1. /\ DayNumber(d) = FirstDay(d.year) + MonthStart(d.year, d.month) + d.day - 1
          /\ FirstDay(d.year) \in Int
      BY <1>1, DayOfDate
    <3>2. DayNumber(e) = FirstDay(e.year) + MonthStart(e.year, e.month) + e.day - 1
      BY <1>1, DayOfDate
    <3>3. QED
      BY <1>3, <3>1, <3>2, Zenon
  <2>2. MonthStart(d.year, d.month) \in Nat /\ MonthStart(d.year, e.month) \in Nat
    BY <1>2, MonthsFollow
  <2>3. FirstDay(d.year) + MonthStart(d.year, d.month) + d.day - 1
          = FirstDay(d.year) + MonthStart(d.year, e.month) + e.day - 1
    BY <2>1, Zenon
  <2> DEFINE f == FirstDay(d.year)
             a == MonthStart(d.year, d.month)
             b == MonthStart(d.year, e.month)
             x == d.day
             y == e.day
  <2>4. /\ f \in Int /\ a \in Int /\ b \in Int /\ x \in Int /\ y \in Int
        /\ f + a + x - 1 = f + b + y - 1
    BY <1>2, <2>1, <2>2, <2>3
  <2> HIDE DEF f, a, b, x, y
  <2>5. a + x = b + y
    BY <2>4
  <2>6. QED
    BY <2>5 DEF a, b, x, y
<1>5. d.day \leq MonthLength(d.year, d.month) /\ e.day \leq MonthLength(d.year, e.month)
  BY <1>1, <1>3 DEF Real
<1>6. d.month = e.month
  <2>1. /\ MonthStart(d.year, d.month) \in Nat /\ MonthStart(d.year, e.month) \in Nat
        /\ MonthLength(d.year, d.month) \in 28 .. 31 /\ MonthLength(d.year, e.month) \in 28 .. 31
        /\ d.month < e.month => MonthStart(d.year, d.month) + MonthLength(d.year, d.month)
                                  \leq MonthStart(d.year, e.month)
        /\ e.month < d.month => MonthStart(d.year, e.month) + MonthLength(d.year, e.month)
                                  \leq MonthStart(d.year, d.month)
    BY <1>2, MonthsFollow
  <2> HIDE DEF MonthStart, MonthLength
  <2>2. QED
    BY <1>2, <1>4, <1>5, <2>1
<1>7. d.day = e.day
  <2>1. MonthStart(d.year, d.month) \in Nat
    BY <1>2, MonthsFollow
  <2> HIDE DEF MonthStart
  <2>2. QED
    BY <1>2, <1>4, <1>6, <2>1
<1>8. QED
  BY <1>1, <1>3, <1>6, <1>7 DEF Calendar

LEMMA DateIs ==
  ASSUME NEW n \in DOMAIN DateOfDay
  PROVE  DateOfDay[n] \in RealDates /\ DayNumber(DateOfDay[n]) = n
<1>1. n \in {DayNumber(d) : d \in RealDates}
      /\ DateOfDay[n] = CHOOSE d \in RealDates : DayNumber(d) = n
  BY Zenon DEF DateOfDay
<1>2. \E d \in RealDates : DayNumber(d) = n
  BY <1>1, Zenon
<1>3. QED
  BY <1>1, <1>2, Zenon

LEMMA DateOfReal ==
  ASSUME FirstYear \in Nat, LastYear \in Nat, NEW d \in RealDates
  PROVE  /\ DayNumber(d) \in DOMAIN DateOfDay
         /\ DateOfDay[DayNumber(d)] = d
<1>1. DayNumber(d) \in DOMAIN DateOfDay
  BY Zenon DEF DateOfDay
<1>2. QED
  BY <1>1, DateIs, DaysDiffer

\* A day the month does not have is one of the next month.
LEMMA RunsOver ==
  ASSUME FirstYear \in Nat, LastYear \in Nat, NEW d \in Calendar, ~Real(d)
  PROVE  DayNumber(d) \in DOMAIN DateOfDay
<1> DEFINE e == [year |-> d.year, month |-> d.month + 1,
                 day |-> d.day - MonthLength(d.year, d.month)]
<1>1. d.year \in FirstYear .. LastYear /\ d.month \in 1 .. 12 /\ d.day \in 1 .. 31
  BY DEF Calendar
<1>2. /\ d.day > MonthLength(d.year, d.month)
      /\ MonthLength(d.year, d.month) \in 28 .. 31
      /\ MonthLength(d.year, 12) = 31
  BY <1>1, MonthsFollow DEF Real, MonthLength
<1>3. d.month < 12
  BY <1>1, <1>2
<1>4. /\ MonthStart(d.year, d.month + 1)
           = MonthStart(d.year, d.month) + MonthLength(d.year, d.month)
      /\ MonthLength(d.year, d.month + 1) \in 28 .. 31
      /\ MonthStart(d.year, d.month) \in Nat
  BY <1>1, <1>3, MonthsFollow
<1> HIDE DEF MonthStart, MonthLength
<1>5. e \in Calendar /\ e.day \leq 3
  BY <1>1, <1>2, <1>3 DEF Calendar
<1>6. e \in RealDates
  BY <1>4, <1>5 DEF RealDates, Real, Calendar
<1>7. DayNumber(e) = DayNumber(d)
  <2>1. /\ DayNumber(e) = FirstDay(d.year) + MonthStart(d.year, d.month + 1)
                            + (d.day - MonthLength(d.year, d.month)) - 1
        /\ DayNumber(d) = FirstDay(d.year) + MonthStart(d.year, d.month) + d.day - 1
        /\ FirstDay(d.year) \in Int
    BY <1>5, DayOfDate
  <2> HIDE DEF e, FirstDay, DayNumber
  <2>2. QED
    BY <1>1, <1>2, <1>4, <2>1
<1>8. QED
  BY <1>6, <1>7, DateOfReal

\* The time of day of a valid time, in seconds.
Secs(h, m) == 3600 * h + 60 * m

LEMMA SecsInDay ==
  ASSUME NEW h, NEW m, ValidateTimeParts(h, m)
  PROVE  Secs(h, m) \in Nat /\ Secs(h, m) < Day
  BY DEF ValidateTimeParts, Secs, Day

LEMMA DateOfRun ==
  ASSUME FirstYear \in Nat, LastYear \in Nat, NEW d \in Calendar,
         NEW h, NEW m, ValidateTimeParts(h, m)
  PROVE  /\ Instant(d, h, m) = Day * DayNumber(d) + Secs(h, m)
         /\ Instant(d, h, m) \in Int
         /\ GetWibDateParts(Instant(d, h, m)) = d <=> Real(d)
<1>1. DayNumber(d) \in Int /\ Secs(h, m) \in Nat /\ Secs(h, m) < Day /\ Day \in Nat
      /\ h \in Int /\ m \in Int
  BY DayOfDate, SecsInDay DEF Day, ValidateTimeParts
<1>2. Instant(d, h, m) = Day * DayNumber(d) + Secs(h, m)
  <2> HIDE DEF DayNumber
  <2>1. QED
    BY <1>1 DEF Instant, Secs, Day
<1>3. Instant(d, h, m) \in Int
  <2> HIDE DEF DayNumber, Secs, Instant
  <2>1. QED
    BY <1>1, <1>2 DEF Day
<1>4. GetWibDateParts(Instant(d, h, m)) = DateOfDay[DayNumber(d)]
  <2>1. (Day * DayNumber(d) + Secs(h, m)) \div Day = DayNumber(d)
    BY <1>1, DayOf
  <2>2. QED
    BY <1>2, <2>1, Zenon DEF GetWibDateParts
<1>5. Real(d) => GetWibDateParts(Instant(d, h, m)) = d
  BY <1>4, DateOfReal DEF RealDates
<1>6. ~Real(d) => GetWibDateParts(Instant(d, h, m)) # d
  BY <1>4, RunsOver, DateIs DEF RealDates
<1>7. QED
  BY <1>2, <1>3, <1>5, <1>6

\* The next run of a valid time after t1, of a clock that read t0 on the same day or
\* an earlier one: today's, or tomorrow's when today's is past.
NextDate(c) ==
  LET today == GetWibDateParts(c.now[1])
  IN IF Instant(today, c.hour, c.minute) \leq c.now[2] THEN AddDaysWib(today, 1) ELSE today

NextRun(c, timeOnly) ==
  [runAt |-> Instant(NextDate(c), c.hour, c.minute), date |-> NextDate(c),
   timeOnly |-> timeOnly]

LEMMA RunOnIs ==
  ASSUME NEW c, NEW d, NEW b
  PROVE  RunOn(d, c, b) = IF ValidateDateParts(d)
                          THEN {[runAt |-> Instant(d, c.hour, c.minute), date |-> d,
                                 timeOnly |-> b]}
                          ELSE {}
<1>1. CASE ValidateDateParts(d)
  <2>1. BuildRunAt(d, c.hour, c.minute) = {Instant(d, c.hour, c.minute)}
    BY <1>1 DEF BuildRunAt
  <2> HIDE DEF Instant
  <2>2. QED
    BY <1>1, <2>1 DEF RunOn
<1>2. CASE ~ValidateDateParts(d)
  <2>1. BuildRunAt(d, c.hour, c.minute) = {}
    BY <1>2 DEF BuildRunAt
  <2>2. QED
    BY <1>2, <2>1 DEF RunOn
<1>3. QED
  BY <1>1, <1>2

LEMMA RealIsValid ==
  ASSUME NEW d \in RealDates
  PROVE  d \in Calendar /\ Real(d) /\ ValidateDateParts(d)
  BY DEF RealDates, Calendar, ValidateDateParts

LEMMA ClockIs ==
  ASSUME NEW c, Moment(c)
  PROVE  /\ c.now[1] \in Nat /\ c.now[2] \in Nat /\ c.now[3] \in Nat
         /\ c.now[1] \leq c.now[2] /\ c.now[2] \leq c.now[3]
         /\ c.now[1] \div Day \in DOMAIN DateOfDay
         /\ c.now[1] \div Day + 1 \in DOMAIN DateOfDay
<1>1. /\ c.now \in Seq(Nat) /\ Len(c.now) = 3
      /\ c.now[1] \leq c.now[2] /\ c.now[2] \leq c.now[3]
      /\ {c.now[1] \div Day, c.now[1] \div Day + 1} \subseteq DOMAIN DateOfDay
  BY Zenon DEF Moment
<1>2. QED
  BY <1>1

LEMMA TodayTomorrow ==
  ASSUME FirstYear \in Nat, LastYear \in Nat, NEW c, Moment(c)
  PROVE  LET today == GetWibDateParts(c.now[1]) IN
         /\ today \in RealDates
         /\ DayNumber(today) = c.now[1] \div Day
         /\ AddDaysWib(today, 1) \in RealDates
         /\ DayNumber(AddDaysWib(today, 1)) = c.now[1] \div Day + 1
<1> DEFINE n == c.now[1] \div Day
           today == GetWibDateParts(c.now[1])
<1>1. n \in DOMAIN DateOfDay /\ n + 1 \in DOMAIN DateOfDay
  BY ClockIs
<1>2. today \in RealDates /\ DayNumber(today) = n
  BY <1>1, DateIs, Zenon DEF GetWibDateParts
<1>3. c.now[1] \in Int /\ n \in Int
  BY ClockIs, DayIs
<1>4. AddDaysWib(today, 1) = DateOfDay[n + 1]
  <2>1. Instant(today, 12, 0) + 1 * Day = Day * (n + 1) + 43200
    <3> HIDE DEF today, n, DayNumber
    <3>1. QED
      BY <1>2, <1>3 DEF Instant, Day
  <2>2. n + 1 \in Int /\ 0 \leq 43200 /\ 43200 < Day /\ 43200 \in Int
    BY <1>3 DEF Day
  <2>3. (Day * (n + 1) + 43200) \div Day = n + 1
    BY <2>2, DayOf
  <2> HIDE DEF today, n
  <2>4. AddDaysWib(today, 1) = DateOfDay[(Instant(today, 12, 0) + 1 * Day) \div Day]
    BY DEF AddDaysWib, GetWibDateParts
  <2>5. QED
    BY <2>1, <2>3, <2>4
<1>5. DateOfDay[n + 1] \in RealDates /\ DayNumber(DateOfDay[n + 1]) = n + 1
  BY <1>1, DateIs
<1>6. QED
  BY <1>2, <1>4, <1>5

\* What is picked of today's run and tomorrow's.
Picked(c, a, b) ==
  UNION {IF r.runAt \leq c.now[2]
         THEN RunOn(AddDaysWib(GetWibDateParts(c.now[1]), 1), c, b) ELSE {r} :
           r \in RunOn(GetWibDateParts(c.now[1]), c, a)}

LEMMA NextRunIs ==
  ASSUME FirstYear \in Nat, LastYear \in Nat, NEW c, Moment(c),
         ValidateTimeParts(c.hour, c.minute)
  PROVE  /\ NextDate(c) \in RealDates
         /\ NextRun(c, TRUE).runAt \in Int
         /\ \A a, b : Picked(c, a, b)
              = {NextRun(c, IF Instant(GetWibDateParts(c.now[1]), c.hour, c.minute)
                                 \leq c.now[2] THEN b ELSE a)}
<1> DEFINE today == GetWibDateParts(c.now[1])
           tomorrow == AddDaysWib(today, 1)
           passed == Instant(today, c.hour, c.minute) \leq c.now[2]
<1>1. today \in RealDates /\ tomorrow \in RealDates
  BY TodayTomorrow
<1>2. NextDate(c) \in RealDates
  BY <1>1, Zenon DEF NextDate
<1>3. NextRun(c, TRUE).runAt \in Int
  <2>1. NextDate(c) \in Calendar
    BY <1>2, RealIsValid
  <2>2. Instant(NextDate(c), c.hour, c.minute) \in Int
    BY <2>1, DateOfRun
  <2> HIDE DEF NextDate, Instant
  <2>3. QED
    BY <2>2 DEF NextRun
<1>4. ASSUME NEW a, NEW b
      PROVE  UNION {IF r.runAt \leq c.now[2] THEN RunOn(tomorrow, c, b) ELSE {r} :
                      r \in RunOn(today, c, a)}
               = {NextRun(c, IF passed THEN b ELSE a)}
  <2> DEFINE rec(d, x) == [runAt |-> Instant(d, c.hour, c.minute), date |-> d,
                           timeOnly |-> x]
  <2>1. RunOn(today, c, a) = {rec(today, a)} /\ RunOn(tomorrow, c, b) = {rec(tomorrow, b)}
    BY <1>1, RunOnIs, RealIsValid
  <2>2. rec(today, a).runAt = Instant(today, c.hour, c.minute)
    <3> HIDE DEF Instant, today
    <3>1. QED
      OBVIOUS
  <2>3. CASE passed
    <3>1. NextDate(c) = tomorrow
      BY <2>3, Zenon DEF NextDate
    <3>2. NextRun(c, b) = rec(tomorrow, b)
      BY <3>1, Zenon DEF NextRun
    <3> HIDE DEF rec, today, tomorrow, NextRun
    <3>3. rec(today, a).runAt \leq c.now[2]
      BY <2>2, <2>3, Zenon
    <3> HIDE DEF passed
    <3>4. QED
      BY <2>1, <2>3, <3>2, <3>3
  <2>4. CASE ~passed
    <3>1. NextDate(c) = today
      BY <2>4, Zenon DEF NextDate
    <3>2. NextRun(c, a) = rec(today, a)
      BY <3>1, Zenon DEF NextRun
    <3> HIDE DEF rec, today, tomorrow, NextRun
    <3>3. ~(rec(today, a).runAt \leq c.now[2])
      BY <2>2, <2>4, Zenon
    <3> HIDE DEF passed
    <3>4. QED
      BY <2>1, <2>4, <3>2, <3>3
  <2>5. QED
    BY <2>3, <2>4
<1>5. QED
  BY <1>2, <1>3, <1>4, Zenon DEF Picked

LEMMA FirstAfterIs ==
  ASSUME NEW t \in Nat, NEW h, NEW m, ValidateTimeParts(h, m)
  PROVE  LET s == Day * (t \div Day) + Secs(h, m) IN
         FirstAfter(t, [minute |-> m, hour |-> h]) = IF s > t THEN s ELSE Day + s
<1> DEFINE n == t \div Day
           s == Day * n + Secs(h, m)
           x == IF s > t THEN s ELSE Day + s
           cron == [minute |-> m, hour |-> h]
           hits == {r \in {Day * k + 3600 * cron.hour + 60 * cron.minute :
                             k \in n .. n + 1} : r > t}
<1>1. /\ n \in Int /\ Day * n \leq t /\ t < Day * n + Day
      /\ Secs(h, m) \in Nat /\ Secs(h, m) < Day /\ Day \in Nat
      /\ h \in Int /\ m \in Int
  BY DayIs, SecsInDay DEF Day, ValidateTimeParts
<1>2. cron.hour = h /\ cron.minute = m
  OBVIOUS
<1> HIDE DEF n, cron
<1>3. \A k \in n .. n + 1 : Day * k + 3600 * cron.hour + 60 * cron.minute
                              = Day * k + Secs(h, m)
  BY <1>1, <1>2 DEF Secs, Day
<1>4. \A k \in n .. n + 1 : k = n \/ k = n + 1
  BY <1>1
<1>5. Day * (n + 1) + Secs(h, m) = Day + s
  <2> HIDE DEF Secs
  <2>1. QED
    BY <1>1 DEF Day
<1>6. s \in Int /\ Day * n \leq s
  <2> HIDE DEF Secs
  <2>1. QED
    BY <1>1 DEF Day
<1>7. \A r : r \in hits <=> (r = s \/ r = Day + s) /\ r > t
  <2>1. n \in n .. n + 1 /\ n + 1 \in n .. n + 1
    BY <1>1
  <2>2. \A r : r \in hits <=> (\E k \in n .. n + 1 : r = Day * k + Secs(h, m)) /\ r > t
    <3> DEFINE f(k) == Day * k + 3600 * cron.hour + 60 * cron.minute
               g(k) == Day * k + Secs(h, m)
    <3>1. \A k \in n .. n + 1 : f(k) = g(k)
      BY <1>3, Zenon
    <3>2. \A r : r \in hits <=> (\E k \in n .. n + 1 : r = f(k)) /\ r > t
      <4> HIDE DEF f
      <4>1. hits = {r \in {f(k) : k \in n .. n + 1} : r > t}
        BY Zenon DEF f
      <4> HIDE DEF hits
      <4>2. QED
        BY <4>1, Zenon
    <3> HIDE DEF f, g, hits
    <3>3. \A r : r \in hits <=> (\E k \in n .. n + 1 : r = g(k)) /\ r > t
      BY <3>1, <3>2, Zenon
    <3>4. QED
      BY <3>3, Zenon DEF g
  <2> HIDE DEF hits
  <2>3. QED
    BY <1>4, <1>5, <2>1, <2>2, Zenon
<1> HIDE DEF hits
<1>8. x \in hits /\ x \in Int /\ \A r \in hits : x \leq r
  <2> HIDE DEF s
  <2>1. QED
    BY <1>1, <1>6, <1>7
<1> HIDE DEF x, s
<1>9. \A y \in hits : (\A r \in hits : y \leq r) => y = x
  BY <1>6, <1>7, <1>8, <1>1
<1>10. (CHOOSE y \in hits : \A r \in hits : y \leq r) = x
  BY <1>8, <1>9, Zenon
<1>11. QED
  BY <1>10, Zenon DEF FirstAfter, hits, x, s, n, cron

\* The next run is the cron pattern's, when both clock readings are of one day.
LEMMA NextRunAt ==
  ASSUME FirstYear \in Nat, LastYear \in Nat, NEW c, Moment(c),
         ValidateTimeParts(c.hour, c.minute), OneDay(c.now[1], c.now[2]), NEW b
  PROVE  NextRun(c, b).runAt
           = FirstAfter(c.now[2], [minute |-> c.minute, hour |-> c.hour])
<1> DEFINE today == GetWibDateParts(c.now[1])
           tomorrow == AddDaysWib(today, 1)
           n == c.now[1] \div Day
           s == Day * n + Secs(c.hour, c.minute)
<1>1. /\ today \in Calendar /\ DayNumber(today) = n
      /\ tomorrow \in Calendar /\ DayNumber(tomorrow) = n + 1
  BY TodayTomorrow, RealIsValid
<1>2. c.now[1] \in Nat /\ c.now[2] \in Nat /\ n \in Int /\ n = c.now[2] \div Day
  BY ClockIs, DayIs DEF OneDay
<1>3. Secs(c.hour, c.minute) \in Nat
  BY SecsInDay
<1>4. Instant(today, c.hour, c.minute) = s
  BY <1>1, DateOfRun
<1>5. Instant(tomorrow, c.hour, c.minute) = Day + s
  <2>1. Instant(tomorrow, c.hour, c.minute) = Day * (n + 1) + Secs(c.hour, c.minute)
    BY <1>1, DateOfRun
  <2> HIDE DEF n, Instant, tomorrow
  <2>2. Day * (n + 1) + Secs(c.hour, c.minute) = Day + s
    <3> HIDE DEF Secs
    <3>1. QED
      BY <1>2, <1>3 DEF Day
  <2>3. QED
    BY <2>1, <2>2
<1>6. FirstAfter(c.now[2], [minute |-> c.minute, hour |-> c.hour])
        = IF s > c.now[2] THEN s ELSE Day + s
  BY <1>2, FirstAfterIs
<1>7. NextRun(c, b).runAt = Instant(NextDate(c), c.hour, c.minute)
  <2> HIDE DEF Instant, NextDate
  <2>1. QED
    BY DEF NextRun
<1>8. s \in Int
  <2> HIDE DEF n, Secs
  <2>1. QED
    BY <1>2, <1>3 DEF Day
<1>9. (s \leq c.now[2]) <=> ~(s > c.now[2])
  <2> HIDE DEF s
  <2>1. QED
    BY <1>2, <1>8
<1>10. NextDate(c) = IF s \leq c.now[2] THEN tomorrow ELSE today
  BY <1>4, Zenon DEF NextDate
<1> HIDE DEF s, today, tomorrow, n
<1>11. QED
  BY <1>4, <1>5, <1>6, <1>7, <1>9, <1>10, Zenon

LEMMA DailyRuns ==
  ASSUME FirstYear \in Nat, LastYear \in Nat, NEW c, Moment(c)
  PROVE  ResolveNextDailyRun(c)
           = IF ValidateTimeParts(c.hour, c.minute) THEN {NextRun(c, FALSE)} ELSE {}
<1>1. CASE ValidateTimeParts(c.hour, c.minute)
  <2>1. ResolveNextDailyRun(c) = Picked(c, FALSE, FALSE)
    BY <1>1, Zenon DEF ResolveNextDailyRun, Picked
  <2>2. \A a, b : Picked(c, a, b)
           = {NextRun(c, IF Instant(GetWibDateParts(c.now[1]), c.hour, c.minute)
                              \leq c.now[2] THEN b ELSE a)}
    BY <1>1, NextRunIs
  <2>3. QED
    BY <1>1, <2>1, <2>2, Zenon
<1>2. CASE ~ValidateTimeParts(c.hour, c.minute)
  BY <1>2, Zenon DEF ResolveNextDailyRun
<1>3. QED
  BY <1>1, <1>2

\* A time alone.
LEMMA TimeRuns ==
  ASSUME FirstYear \in Nat, LastYear \in Nat, NEW c, Moment(c),
         c.text = <<>>, DOMAIN c.parts = {}
  PROVE  ResolveScheduleDateTime(c)
           = IF ValidateTimeParts(c.hour, c.minute)
             THEN {r \in {NextRun(c, TRUE)} : r.runAt > c.now[3]} ELSE {}
<1> DEFINE p == [date |-> GetWibDateParts(c.now[1]), timeOnly |-> TRUE]
           picked(q) == UNION {IF q.timeOnly /\ r.runAt \leq c.now[2]
                               THEN RunOn(AddDaysWib(q.date, 1), c, TRUE) ELSE {r} :
                                 r \in RunOn(q.date, c, q.timeOnly)}
<1>1. ResolveDateParts(c) = {p}
  BY Zenon DEF ResolveDateParts
<1>2. p.timeOnly = TRUE /\ p.date = GetWibDateParts(c.now[1])
  <2> HIDE DEF GetWibDateParts
  <2>1. QED
    OBVIOUS
<1> HIDE DEF p
<1>3. CASE ValidateTimeParts(c.hour, c.minute)
  <2>1. picked(p) = Picked(c, TRUE, TRUE)
    BY <1>2, Zenon DEF Picked
  <2>2. picked(p) = {NextRun(c, TRUE)}
    <3>1. \A a, b : Picked(c, a, b)
             = {NextRun(c, IF Instant(GetWibDateParts(c.now[1]), c.hour, c.minute)
                                \leq c.now[2] THEN b ELSE a)}
      BY <1>3, NextRunIs
    <3> HIDE DEF picked
    <3>2. QED
      BY <2>1, <3>1, Zenon
  <2>3. UNION {picked(q) : q \in {p}} = picked(p)
    <3> HIDE DEF picked
    <3>1. QED
      OBVIOUS
  <2>4. ResolveScheduleDateTime(c)
          = {r \in UNION {picked(q) : q \in ResolveDateParts(c)} : r.runAt > c.now[3]}
    BY <1>3, Zenon DEF ResolveScheduleDateTime
  <2> HIDE DEF picked
  <2>5. QED
    BY <1>1, <1>3, <2>2, <2>3, <2>4, Zenon
<1>4. CASE ~ValidateTimeParts(c.hour, c.minute)
  BY <1>4, Zenon DEF ResolveScheduleDateTime
<1>5. QED
  BY <1>3, <1>4

\* A date that is given is kept, and runs at its time.
LEMMA DatedRuns ==
  ASSUME FirstYear \in Nat, LastYear \in Nat, NEW c, Moment(c),
         c.text # <<>> \/ DOMAIN c.parts # {},
         NEW r \in ResolveScheduleDateTime(c)
  PROVE  /\ ValidateTimeParts(c.hour, c.minute)
         /\ r.date \in Calendar
         /\ r.runAt = Instant(r.date, c.hour, c.minute)
         /\ r.runAt > c.now[3]
<1> DEFINE picked(q) == UNION {IF q.timeOnly /\ x.runAt \leq c.now[2]
                               THEN RunOn(AddDaysWib(q.date, 1), c, TRUE) ELSE {x} :
                                 x \in RunOn(q.date, c, q.timeOnly)}
           dates == [year : FirstYear .. LastYear, month : Int, day : Int]
<1>1. ValidateTimeParts(c.hour, c.minute)
  BY Zenon DEF ResolveScheduleDateTime
<1>2. ResolveScheduleDateTime(c)
        = {x \in UNION {picked(q) : q \in ResolveDateParts(c)} : x.runAt > c.now[3]}
  BY <1>1, Zenon DEF ResolveScheduleDateTime
<1>3. PICK p \in ResolveDateParts(c) : r \in picked(p) /\ r.runAt > c.now[3]
  <2> HIDE DEF picked
  <2>1. QED
    BY <1>2
<1>4. PICK d \in dates : p = [date |-> d, timeOnly |-> FALSE]
  <2>1. /\ DOMAIN c.parts = {"year", "month", "day"} => c.parts \in dates
        /\ ParseDateString(c.text) \subseteq dates
    BY Zenon DEF Moment
  <2> HIDE DEF dates
  <2>2. CASE c.text # <<>>
    <3>1. ResolveDateParts(c) = {[date |-> d, timeOnly |-> FALSE] : d \in ParseDateString(c.text)}
      BY <2>2, Zenon DEF ResolveDateParts
    <3>2. QED
      BY <2>1, <3>1
  <2>3. CASE c.text = <<>>
    <3>1. ResolveDateParts(c) = IF DOMAIN c.parts = {"year", "month", "day"}
                                THEN {[date |-> c.parts, timeOnly |-> FALSE]} ELSE {}
      BY <2>3, Zenon DEF ResolveDateParts
    <3>2. QED
      BY <2>1, <3>1
  <2>4. QED
    BY <2>2, <2>3
<1>5. p.date = d /\ p.timeOnly = FALSE
  BY <1>4
<1>6. r \in RunOn(d, c, FALSE)
  <2>1. PICK x \in RunOn(p.date, c, p.timeOnly) :
           r \in IF p.timeOnly /\ x.runAt \leq c.now[2]
                 THEN RunOn(AddDaysWib(p.date, 1), c, TRUE) ELSE {x}
    BY <1>3, Zenon
  <2>2. r = x
    BY <1>5, <2>1, Zenon
  <2>3. QED
    BY <1>5, <2>1, <2>2, Zenon
<1>7. ValidateDateParts(d) /\ r = [runAt |-> Instant(d, c.hour, c.minute), date |-> d,
                                   timeOnly |-> FALSE]
  BY <1>6, RunOnIs, Zenon
<1>8. r.date = d /\ r.runAt = Instant(d, c.hour, c.minute)
  <2> HIDE DEF Instant
  <2>1. QED
    BY <1>7
<1>9. d \in Calendar
  BY <1>4, <1>7 DEF ValidateDateParts, Calendar
<1>10. QED
  BY <1>1, <1>3, <1>8, <1>9, Zenon

LEMMA MinutesAreNear ==
  ASSUME NEW a \in Int, NEW b \in Int, b > a
  PROVE  LET n == MinutesUntilRun(a, b) IN
         n \geq 1 /\ 60 * n \in b - a - 30 .. b - a + 59
  BY DEF MinutesUntilRun

\* All there is to know of a run of either function.
LEMMA RunsAreDated ==
  ASSUME FirstYear \in Nat, LastYear \in Nat, NEW c, Moment(c),
         NEW r \in IF c.daily THEN ResolveNextDailyRun(c) ELSE ResolveScheduleDateTime(c)
  PROVE  /\ ValidateTimeParts(c.hour, c.minute)
         /\ r.date \in Calendar
         /\ r.runAt = Instant(r.date, c.hour, c.minute)
         /\ ~c.daily => r.runAt > c.now[3]
<1>1. ASSUME NEW b, r = NextRun(c, b), ValidateTimeParts(c.hour, c.minute)
      PROVE  r.date \in Calendar /\ r.runAt = Instant(r.date, c.hour, c.minute)
  <2>1. r.date = NextDate(c) /\ r.runAt = Instant(NextDate(c), c.hour, c.minute)
    <3> HIDE DEF Instant, NextDate
    <3>1. QED
      BY <1>1 DEF NextRun
  <2>2. NextDate(c) \in Calendar
    BY <1>1, NextRunIs, RealIsValid
  <2>3. QED
    BY <2>1, <2>2, Zenon
<1>2. CASE c.daily
  BY <1>1, <1>2, DailyRuns, Zenon
<1>3. CASE ~c.daily /\ c.text = <<>> /\ DOMAIN c.parts = {}
  BY <1>1, <1>3, TimeRuns, Zenon
<1>4. CASE ~c.daily /\ (c.text # <<>> \/ DOMAIN c.parts # {})
  BY <1>4, DatedRuns, Zenon
<1>5. QED
  BY <1>2, <1>3, <1>4

(***************************************************************************)
(* For any years and any calls of the schedule functions: a daily schedule *)
(* and a time alone run next when the cron pattern or the clock says,      *)
(* unless midnight passes meanwhile; what is accepted is to come, and has  *)
(* the date it is shown with exactly when that date exists.                *)
(***************************************************************************)
THEOREM NextOccurrencesCorrect == when \in Moments => RunsAreNextOccurrences
<1> SUFFICES ASSUME when \in Moments PROVE RunsAreNextOccurrences
  OBVIOUS
<1> DEFINE c == when
           cron == BuildDailyCronPattern(c.hour, c.minute)
           found == IF c.daily THEN ResolveNextDailyRun(c) ELSE ResolveScheduleDateTime(c)
           dateless == c.text = <<>> /\ c.parts = <<>>
           valid == ValidateTimeParts(c.hour, c.minute)
           pattern == [minute |-> c.minute, hour |-> c.hour]
<1>1. FirstYear \in Nat /\ LastYear \in Nat /\ Moment(c)
  BY MomentsAssumption, Zenon
<1>2. ASSUME OneDay(c.now[1], c.now[2]), dateless
      PROVE  {r.runAt : r \in found}
               = {t \in {FirstAfter(c.now[2], p) : p \in cron} : c.daily \/ t > c.now[3]}
  <2>1. c.text = <<>> /\ DOMAIN c.parts = {}
    BY <1>2
  <2>2. CASE ~valid
    <3>1. found = {}
      BY <1>1, <2>1, <2>2, DailyRuns, TimeRuns, Zenon
    <3>2. cron = {}
      BY <2>2, Zenon DEF BuildDailyCronPattern
    <3> HIDE DEF found, cron
    <3>3. QED
      BY <3>1, <3>2
  <2>3. CASE valid
    <3>1. cron = {pattern}
      BY <2>3, Zenon DEF BuildDailyCronPattern
    <3>2. \A b : NextRun(c, b).runAt = FirstAfter(c.now[2], pattern)
      BY <1>1, <1>2, <2>3, NextRunAt
    <3>3. found = {r \in {NextRun(c, ~c.daily)} : c.daily \/ r.runAt > c.now[3]}
      <4>1. CASE c.daily
        <5>1. found = {NextRun(c, FALSE)}
          BY <1>1, <2>3, <4>1, DailyRuns, Zenon
        <5>2. (~c.daily) = FALSE
          BY <4>1
        <5> HIDE DEF found, NextRun
        <5>3. QED
          BY <4>1, <5>1, <5>2
      <4>2. CASE ~c.daily
        <5>1. found = {r \in {NextRun(c, TRUE)} : r.runAt > c.now[3]}
          BY <1>1, <2>1, <2>3, <4>2, TimeRuns, Zenon
        <5>2. (~c.daily) = TRUE
          BY <4>2
        <5> HIDE DEF found, NextRun
        <5>3. QED
          BY <4>2, <5>1, <5>2
      <4>3. QED
        BY <4>1, <4>2
    <3> HIDE DEF found, cron, pattern, NextRun, FirstAfter
    <3>4. QED
      BY <3>1, <3>2, <3>3
  <2>4. QED
    BY <2>2, <2>3
<1>3. ASSUME NEW r \in found
      PROVE  /\ ~c.daily => r.runAt > c.now[3]
             /\ GetWibDateParts(r.runAt) = r.date <=> Real(r.date)
             /\ r.runAt > c.now[1] =>
                  LET n == MinutesUntilRun(c.now[1], r.runAt) IN
                  n \geq 1 /\ 60 * n \in r.runAt - c.now[1] - 30 .. r.runAt - c.now[1] + 59
  <2>1. /\ valid /\ r.date \in Calendar /\ r.runAt = Instant(r.date, c.hour, c.minute)
        /\ ~c.daily => r.runAt > c.now[3]
    BY <1>1, RunsAreDated, Zenon
  <2>2. /\ r.runAt \in Int
        /\ GetWibDateParts(r.runAt) = r.date <=> Real(r.date)
    <3>1. /\ Instant(r.date, c.hour, c.minute) \in Int
          /\ GetWibDateParts(Instant(r.date, c.hour, c.minute)) = r.date <=> Real(r.date)
      <4>1. ValidateTimeParts(c.hour, c.minute) /\ r.date \in Calendar
        BY <2>1, Zenon
      <4>2. \A d \in Calendar : /\ Instant(d, c.hour, c.minute) \in Int
                                /\ GetWibDateParts(Instant(d, c.hour, c.minute)) = d <=> Real(d)
        BY <1>1, <4>1, DateOfRun
      <4>3. QED
        BY <4>1, <4>2, Zenon
    <3>2. r.runAt = Instant(r.date, c.hour, c.minute)
      BY <2>1, Zenon
    <3>3. QED
      BY <3>1, <3>2, Zenon
  <2>3. c.now[1] \in Int
    BY <1>1, ClockIs
  <2>4. QED
    BY <2>1, <2>2, <2>3, MinutesAreNear, Zenon
<1>4. QED
  BY <1>2, <1>3, Zenon DEF RunsAreNextOccurrences

-----------------------------------------------------------------------------
(* RestApi: what the routers are made of, and where a request stands *)

\* A layer has handlers; a validation is of parts of a request, and a router's own
\* middleware is no controller.
IsHandler(h, method) ==
  /\ h.kind = "validate" => DOMAIN h.schemas \subseteq Parts
  /\ h.kind = "controller" => method # "USE"

IsLayer(l) ==
  /\ DOMAIN l = {"method", "path", "handlers"}
  /\ Len(l.handlers) \in Nat \ {0}
  /\ \A k \in 1 .. Len(l.handlers) : IsHandler(l.handlers[k], l.method)

IsRouter(r) ==
  /\ r \in Seq({r[i] : i \in DOMAIN r})
  /\ \A i \in DOMAIN r : IsLayer(r[i])

LEMMA OfItsOwn ==
  ASSUME NEW U, NEW t \in Seq(U) PROVE t \in Seq({t[i] : i \in DOMAIN t})
  OBVIOUS

LEMMA RouterOf2 == \A a, b : IsLayer(a) /\ IsLayer(b) => IsRouter(<<a, b>>)
  BY DEF IsRouter
LEMMA RouterOf3 ==
  \A a, b, c : IsLayer(a) /\ IsLayer(b) /\ IsLayer(c) => IsRouter(<<a, b, c>>)
  BY DEF IsRouter
LEMMA RouterOf4 ==
  \A a, b, c, d : IsLayer(a) /\ IsLayer(b) /\ IsLayer(c) /\ IsLayer(d) => IsRouter(<<a, b, c, d>>)
  BY DEF IsRouter

LEMMA RouterOf5 ==
  \A a, b, c, d, e :
    IsLayer(a) /\ IsLayer(b) /\ IsLayer(c) /\ IsLayer(d) /\ IsLayer(e)
      => IsRouter(<<a, b, c, d, e>>)
  BY DEF IsRouter
LEMMA RouterOf6 ==
  \A a, b, c, d, e, f :
    IsLayer(a) /\ IsLayer(b) /\ IsLayer(c) /\ IsLayer(d) /\ IsLayer(e) /\ IsLayer(f)
      => IsRouter(<<a, b, c, d, e, f>>)
  BY DEF IsRouter
LEMMA RouterOf7 ==
  ASSUME NEW a, NEW b, NEW c, NEW d, NEW e, NEW f, NEW g, IsLayer(a), IsLayer(b), IsLayer(c),
         IsLayer(d), IsLayer(e), IsLayer(f), IsLayer(g)
  PROVE  IsRouter(<<a, b, c, d, e, f, g>>)
<1> DEFINE t == <<a, b, c, d, e, f, g>>
<1>1. t \in Seq({a, b, c, d, e, f, g}) /\ DOMAIN t = 1 .. 7
  <2> DEFINE S == {a, b, c, d, e, f, g}
  <2>1. a \in S /\ b \in S /\ c \in S /\ d \in S /\ e \in S /\ f \in S /\ g \in S
    OBVIOUS
  <2> HIDE DEF S
  <2>2. t \in Seq(S)
    BY <2>1
  <2>3. DOMAIN t = 1 .. 7
    OBVIOUS
  <2>4. QED
    BY <2>2, <2>3 DEF S
<1>2. t[1] = a /\ t[2] = b /\ t[3] = c /\ t[4] = d /\ t[5] = e /\ t[6] = f /\ t[7] = g
  OBVIOUS
<1> HIDE DEF t
<1>3. \A i \in DOMAIN t : IsLayer(t[i])
  BY <1>1, <1>2
<1>4. t \in Seq({t[i] : i \in DOMAIN t})
  BY <1>1, OfItsOwn
<1>5. QED
  BY <1>3, <1>4 DEF IsRouter, t

LEMMA RouterOf8 ==
  ASSUME NEW a, NEW b, NEW c, NEW d, NEW e, NEW f, NEW g, NEW h, IsLayer(a), IsLayer(b), IsLayer(c),
         IsLayer(d), IsLayer(e), IsLayer(f), IsLayer(g), IsLayer(h)
  PROVE  IsRouter(<<a, b, c, d, e, f, g, h>>)
<1> DEFINE t == <<a, b, c, d, e, f, g, h>>
<1>1. t \in Seq({a, b, c, d, e, f, g, h}) /\ DOMAIN t = 1 .. 8
  <2> DEFINE S == {a, b, c, d, e, f, g, h}
  <2>1. a \in S /\ b \in S /\ c \in S /\ d \in S /\ e \in S /\ f \in S /\ g \in S /\ h \in S
    OBVIOUS
  <2> HIDE DEF S
  <2>2. t \in Seq(S)
    BY <2>1
  <2>3. DOMAIN t = 1 .. 8
    OBVIOUS
  <2>4. QED
    BY <2>2, <2>3 DEF S
<1>2. t[1] = a /\ t[2] = b /\ t[3] = c /\ t[4] = d /\ t[5] = e /\ t[6] = f /\ t[7] = g /\ t[8] = h
  OBVIOUS
<1> HIDE DEF t
<1>3. \A i \in DOMAIN t : IsLayer(t[i])
  BY <1>1, <1>2
<1>4. t \in Seq({t[i] : i \in DOMAIN t})
  BY <1>1, OfItsOwn
<1>5. QED
  BY <1>3, <1>4 DEF IsRouter, t

LEMMA RoutersJoin == \A r, s : IsRouter(r) /\ IsRouter(s) => IsRouter(r \o s)
<1> SUFFICES ASSUME NEW r, NEW s, IsRouter(r), IsRouter(s) PROVE IsRouter(r \o s)
  OBVIOUS
<1> DEFINE R == {r[i] : i \in DOMAIN r}
           S == {s[i] : i \in DOMAIN s}
<1>1. r \in Seq(R) /\ s \in Seq(S)
  BY DEF IsRouter
<1>2. /\ Len(r) \in Nat /\ DOMAIN r = 1 .. Len(r) /\ \A i \in DOMAIN r : IsLayer(r[i])
      /\ Len(s) \in Nat /\ DOMAIN s = 1 .. Len(s) /\ \A i \in DOMAIN s : IsLayer(s[i])
  BY <1>1 DEF IsRouter
<1>3. r \in Seq(R \cup S) /\ s \in Seq(R \cup S)
  BY <1>1
<1> HIDE DEF R, S
<1>4. /\ r \o s \in Seq(R \cup S) /\ Len(r \o s) = Len(r) + Len(s)
      /\ \A i \in 1 .. Len(r) + Len(s) :
           (r \o s)[i] = IF i \leq Len(r) THEN r[i] ELSE s[i - Len(r)]
  BY <1>3
<1>5. \A i \in 1 .. Len(r) + Len(s) : IsLayer((r \o s)[i])
  BY <1>2, <1>4
<1>6. /\ r \o s \in Seq({(r \o s)[i] : i \in DOMAIN (r \o s)})
      /\ DOMAIN (r \o s) = 1 .. Len(r) + Len(s)
  <2> DEFINE t == r \o s
  <2>1. t \in Seq(R \cup S) /\ Len(t) = Len(r) + Len(s)
    BY <1>4
  <2> HIDE DEF t
  <2>2. t \in Seq({t[i] : i \in DOMAIN t})
    BY <2>1, OfItsOwn
  <2>3. DOMAIN t = 1 .. Len(r) + Len(s)
    BY <2>1
  <2>4. QED
    BY <2>2, <2>3 DEF t
<1>7. QED
  BY <1>5, <1>6, Zenon DEF IsRouter

LEMMA MountIs == \A prefix, r : IsRouter(r) => IsRouter(Mount(prefix, r))
<1> SUFFICES ASSUME NEW prefix, NEW r, IsRouter(r) PROVE IsRouter(Mount(prefix, r))
  OBVIOUS
<1>1. ASSUME NEW l, IsLayer(l)
      PROVE  IsLayer([l EXCEPT !.path = prefix \o @])
  BY <1>1 DEF IsLayer
<1>2. Len(r) \in Nat /\ DOMAIN r = 1 .. Len(r) /\ \A i \in DOMAIN r : IsLayer(r[i])
  BY DEF IsRouter
<1>3. /\ DOMAIN Mount(prefix, r) = 1 .. Len(r)
      /\ \A i \in 1 .. Len(r) : Mount(prefix, r)[i] = [r[i] EXCEPT !.path = prefix \o @]
  BY <1>2 DEF Mount
<1>4. \A i \in 1 .. Len(r) : IsLayer(Mount(prefix, r)[i])
  BY <1>1, <1>2, <1>3
<1>5. Mount(prefix, r) = [i \in 1 .. Len(r) |-> Mount(prefix, r)[i]]
  BY <1>3 DEF Mount
<1>6. Mount(prefix, r) \in Seq({Mount(prefix, r)[i] : i \in DOMAIN Mount(prefix, r)})
  BY <1>2, <1>3, <1>5
<1>7. QED
  BY <1>3, <1>4, <1>6 DEF IsRouter

IsController(c) == c.kind = "controller"

LEMMA UseIs == /\ IsLayer(Use(useAuthorization))
               /\ \A roles : IsLayer(Use(allowAppRoles(roles)))
  BY DEF IsLayer, IsHandler, Use, Layer, useAuthorization, allowAppRoles

LEMMA BareIs ==
  \A method, path, c : IsController(c) /\ method # "USE" => IsLayer(Bare(method, path, c))
  BY DEF IsLayer, IsHandler, IsController, Bare, Layer

LEMMA RouteIs ==
  \A method, path, schema, c : IsController(c) /\ method # "USE" =>
     \A part \in Parts : IsLayer(Route(method, path, part, schema, c))
  BY DEF IsLayer, IsHandler, IsController, Route, Layer, validate

LEMMA GuardedIs ==
  \A method, path, roles, schemas, c :
    IsController(c) /\ method # "USE" /\ DOMAIN schemas \subseteq Parts =>
      IsLayer(Layer(method, path, <<allowAppRoles(roles), validate(schemas), c>>))
  BY DEF IsLayer, IsHandler, IsController, Layer, validate, allowAppRoles

LEMMA ReadsAre == /\ \A service, parts : IsController(Reads(service, parts))
                  /\ \A service, type : IsController(ReadsId(service, type))
  BY DEF Reads, ReadsId, IsController

LEMMA MethodsAre == "GET" # "USE" /\ "POST" # "USE" /\ "PATCH" # "USE" /\ "DELETE" # "USE"
  OBVIOUS
LEMMA PartsAre == "body" \in Parts /\ "query" \in Parts /\ "params" \in Parts
  BY DEF Parts

LEMMA AppLogsRouted == IsRouter(AppLogRoute)
  BY UseIs, RouteIs, ReadsAre, RouterOf3, MethodsAre, PartsAre, Zenon
  DEF AppLogRoute, AppLogCreate, AppLogFindAll
LEMMA AuthRouted == IsRouter(AuthRoute)
  BY UseIs, RouteIs, ReadsAre, RouterOf3, MethodsAre, PartsAre, Zenon
  DEF AuthRoute, UserLogin, UserRegister, UpdatePassword
LEMMA IndexingsRouted == IsRouter(IndexingRouter)
  BY UseIs, BareIs, RouteIs, ReadsAre, RouterOf4, MethodsAre, PartsAre, Zenon
  DEF IndexingRouter, IndexingFindAll, IndexingText, IndexingRemove

LEMMA AdminsRouted == IsRouter(AdminRoute)
<1>1. IsController(AdminRemove)
  BY DEF AdminRemove, ReadsId, IsController
<1>2. QED
  BY <1>1, UseIs, RouteIs, ReadsAre, RouterOf7, MethodsAre, PartsAre, Zenon
  DEF AdminRoute, AdminFindAll, AdminFindDetail, AdminCreate, AdminUpdate

LEMMA ChatRouted == IsRouter(ChatRoute)
  BY UseIs, RouteIs, ReadsAre, RouterOf3, MethodsAre, PartsAre, Zenon
  DEF ChatRoute, TtsPreview, ChatQuery
LEMMA DeviceLogsRouted == IsRouter(DeviceLogRoute)
  BY UseIs, RouteIs, ReadsAre, RouterOf8, MethodsAre, PartsAre, Zenon
  DEF DeviceLogRoute, DeviceLogFindAll, DeviceLogFindDetail, DeviceLogFindLast,
      DeviceLogFindLatest, DeviceLogCreate, DeviceLogUpdate, DeviceLogRemove
LEMMA DevicesRouted == IsRouter(DeviceRoute)
  BY UseIs, RouteIs, ReadsAre, RouterOf6, MethodsAre, PartsAre, Zenon
  DEF DeviceRoute, DeviceFindAll, DeviceFindDetail, DeviceCreate, DeviceUpdate, DeviceRemove
LEMMA HealthRouted == IsRouter(HealthRoute)
  BY BareIs, ReadsAre, RouterOf2, MethodsAre, Zenon DEF HealthRoute, MainApp, HealthCheck
LEMMA MqttRouted == IsRouter(MqttRoute)
  BY UseIs, BareIs, RouteIs, ReadsAre, RouterOf5, MethodsAre, PartsAre, Zenon
  DEF MqttRoute, MqttGetConnection, MqttGetLastStatus, MqttSendCommand, MqttPublishStatus
LEMMA ProfilesRouted == IsRouter(MyProfileRoute)
  BY UseIs, RouteIs, ReadsAre, RouterOf4, MethodsAre, PartsAre, Zenon
  DEF MyProfileRoute, ProfileFind, ProfileUpdate, ProfileOnboarding
LEMMA SchedulerLogsRouted == IsRouter(SchedulerLogRoute)
  BY UseIs, RouteIs, ReadsAre, RouterOf4, MethodsAre, PartsAre, Zenon
  DEF SchedulerLogRoute, SchedulerLogFindAll, SchedulerLogFindDetail, SchedulerLogRemove
LEMMA SettingsRouted == IsRouter(SettingRoute)
  BY UseIs, BareIs, RouteIs, ReadsAre, RouterOf5, MethodsAre, PartsAre, Zenon
  DEF SettingRoute, ModelFindAll, ModelGetSelected, ModelFindDetail, ModelSelect
LEMMA StatsRouted == IsRouter(StatsRoute)
  BY UseIs, BareIs, ReadsAre, RouterOf2, MethodsAre, Zenon DEF StatsRoute, StatsGetCounts
LEMMA RulesRouted == IsRouter(RuleRoute)
<1>1. \A x : DOMAIN [body |-> x] \subseteq Parts /\ DOMAIN [params |-> x] \subseteq Parts
  BY DEF Parts
<1>2. \A method, path, x, c : IsController(c) /\ method # "USE" =>
        /\ IsLayer(Layer(method, path, <<Anyone, validate([body |-> x]), c>>))
        /\ IsLayer(Layer(method, path, <<Anyone, validate([params |-> x]), c>>))
  BY <1>1, GuardedIs, Zenon DEF Anyone
<1>3. QED
  BY <1>2, UseIs, RouteIs, ReadsAre, RouterOf8, MethodsAre, PartsAre, Zenon
  DEF RuleRoute, RuleFindAll, RuleFindExecutionLogs, RuleFindDetail, RuleCreate, RuleUpdate,
      RuleSetActive, RuleRemove
LEMMA WhatsappRouted == IsRouter(WhatsAppRoute)
<1>1. \A method, path, x, y, c : IsController(c) /\ method # "USE" =>
        IsLayer(Layer(method, path, <<validate([body |-> x, query |-> y]), c>>))
  BY DEF IsLayer, IsHandler, IsController, Layer, validate, Parts
<1>2. QED
  BY <1>1, UseIs, BareIs, RouteIs, ReadsAre, RouterOf4, MethodsAre, PartsAre, Zenon
  DEF WhatsAppRoute, WhatsappConnect, WhatsappStatus, WhatsappDisconnect

LEMMA RoutersRouted == IsRouter(Routers)
  BY AppLogsRouted, AuthRouted, IndexingsRouted, AdminsRouted, ChatRouted, DeviceLogsRouted, DevicesRouted,
     HealthRouted, MqttRouted, ProfilesRouted, SchedulerLogsRouted, SettingsRouted,
     StatsRouted, RulesRouted, WhatsappRouted, MountIs, RoutersJoin, Zenon DEF Routers

LEMMA LeastExists ==
  ASSUME NEW T \in SUBSET Nat, T # {}
  PROVE  \E x \in T : \A y \in T : x \leq y
<1> DEFINE R == {ss \in Nat \X Nat : ss[1] < ss[2]}
<1>1. IsWellFoundedOn(R, Nat)
  BY NatLessThanWellFounded DEF OpToRel
<1>2. PICK x \in T : \A y \in T : <<y, x>> \notin R
  <2> HIDE DEF R
  <2>1. QED
    BY <1>1, WFMin
<1>3. ASSUME NEW y \in T PROVE x \leq y
  <2>1. <<y, x>> \in Nat \X Nat /\ <<y, x>>[1] = y /\ <<y, x>>[2] = x
    OBVIOUS
  <2>2. ~(y < x)
    BY <1>2, <2>1
  <2>3. x \in Nat /\ y \in Nat
    OBVIOUS
  <2> HIDE DEF R
  <2>4. QED
    BY <2>2, <2>3
<1>4. QED
  BY <1>3

LEMMA MinIsLeast ==
  ASSUME NEW T \in SUBSET Nat, T # {}
  PROVE  Min(T) \in T /\ \A y \in T : Min(T) \leq y
<1>1. \E x \in T : \A y \in T : x \leq y
  BY LeastExists
<1>2. QED
  BY <1>1, Zenon DEF Min

\* Every request stays at a handler of a layer.
RestInv ==
  /\ DOMAIN http = {"layer", "step", "user", "checked", "answer"}
  /\ DOMAIN http.answer = {"status", "by"}
  /\ http.layer # 0 => http.step \in 1 .. Len(Routers[http.layer].handlers)
  /\ RestTypeOK

LEMMA LayersAre ==
  /\ Layers \in SUBSET Nat /\ 0 \notin Layers
  /\ \A i \in Layers : IsLayer(Routers[i])
<1>1. /\ Routers \in Seq({Routers[i] : i \in DOMAIN Routers})
      /\ \A i \in DOMAIN Routers : IsLayer(Routers[i])
  BY RoutersRouted, Zenon DEF IsRouter
<1>2. Len(Routers) \in Nat /\ DOMAIN Routers = 1 .. Len(Routers)
  BY <1>1
<1>3. QED
  BY <1>1, <1>2 DEF Layers

LEMMA ReachIs == \A r, n : Reach(r, n) \in Layers \cup {0}
<1> SUFFICES ASSUME NEW r, NEW n PROVE Reach(r, n) \in Layers \cup {0}
  OBVIOUS
<1>1. Fitting(r, n) \subseteq Layers
  BY Zenon DEF Fitting
<1>2. Fitting(r, n) # {} => Min(Fitting(r, n)) \in Fitting(r, n)
  BY <1>1, LayersAre, MinIsLeast
<1>3. QED
  BY <1>1, <1>2, Zenon DEF Reach

LEMMA FirstStep == \A i \in Layers : 1 \in 1 .. Len(Routers[i].handlers)
  BY LayersAre DEF IsLayer

LEMMA InitRest == RestInit => RestInv
<1> SUFFICES ASSUME RestInit PROVE RestInv
  OBVIOUS
<1>1. /\ request \in HttpRequests
      /\ http = [layer |-> Reach(request, 0), step |-> 1, user |-> "none", checked |-> <<>>,
                 answer |-> NotAnswered]
  BY DEF RestInit
<1>2. http.layer \in Layers \cup {0} /\ http.step = 1
  BY <1>1, ReachIs
<1>3. http.layer # 0 => http.step \in 1 .. Len(Routers[http.layer].handlers)
  BY <1>2, FirstStep
<1>4. /\ DOMAIN http = {"layer", "step", "user", "checked", "answer"}
      /\ http.user = "none" /\ http.checked = <<>> /\ http.answer = NotAnswered
  BY <1>1
<1>5. QED
  BY <1>1, <1>2, <1>3, <1>4 DEF RestInv, RestTypeOK, NotAnswered

\* The request goes on to the next handler.
LEMMA RestGoesOn ==
  ASSUME RestInv, UNCHANGED request, NEW h, GoesOn(h), http.layer # 0,
         DOMAIN h = DOMAIN http, h.layer = http.layer, h.step = http.step,
         h.answer = http.answer, h.user \in {"none", "user", "admin"},
         DOMAIN h.checked \subseteq Parts
  PROVE  RestInv'
<1>1. /\ http.layer \in Layers /\ http.step \in 1 .. Len(Routers[http.layer].handlers)
      /\ Len(Routers[http.layer].handlers) \in Nat
  BY LayersAre DEF RestInv, RestTypeOK, IsLayer
<1>2. CASE h.step < Len(Routers[h.layer].handlers)
  <2>1. http' = [h EXCEPT !.step = h.step + 1]
    BY <1>2 DEF GoesOn
  <2>2. /\ DOMAIN http' = DOMAIN http /\ http'.layer = http.layer /\ http'.step = http.step + 1
        /\ http'.answer = http.answer /\ http'.user = h.user /\ http'.checked = h.checked
    BY <2>1 DEF RestInv
  <2>3. http'.step \in 1 .. Len(Routers[http'.layer].handlers)
    BY <1>1, <1>2, <2>2
  <2>4. QED
    BY <2>2, <2>3 DEF RestInv, RestTypeOK
<1>3. CASE ~(h.step < Len(Routers[h.layer].handlers))
  <2>1. http' = [h EXCEPT !.layer = Reach(request, h.layer), !.step = 1]
    BY <1>3 DEF GoesOn
  <2>2. /\ DOMAIN http' = DOMAIN http /\ http'.layer = Reach(request, h.layer) /\ http'.step = 1
        /\ http'.answer = http.answer /\ http'.user = h.user /\ http'.checked = h.checked
    BY <2>1 DEF RestInv
  <2>3. http'.layer \in Layers \cup {0}
    BY <2>2, ReachIs
  <2>4. http'.layer # 0 => http'.step \in 1 .. Len(Routers[http'.layer].handlers)
    BY <2>2, <2>3, FirstStep
  <2>5. QED
    BY <2>2, <2>3, <2>4 DEF RestInv, RestTypeOK
<1>4. QED
  BY <1>2, <1>3

LEMMA RestAnswers ==
  ASSUME RestInv, UNCHANGED request, NEW status \in {200, 400, 401, 404, 500},
         NEW by \in Endpoints \cup {0}, Answers(status, by)
  PROVE  RestInv'
<1>1. /\ DOMAIN http' = DOMAIN http /\ http'.layer = http.layer /\ http'.step = http.step
      /\ http'.user = http.user /\ http'.checked = http.checked
      /\ http'.answer = [status |-> status, by |-> by]
  BY DEF RestInv, Answers
<1>2. QED
  BY <1>1 DEF RestInv, RestTypeOK

LEMMA CurrentIs ==
  ASSUME RestInv, http.layer # 0
  PROVE  /\ Current.kind = "validate" => DOMAIN Current.schemas \subseteq Parts
         /\ Current.kind = "controller" => http.layer \in Endpoints
<1>1. http.layer \in Layers /\ http.step \in 1 .. Len(Routers[http.layer].handlers)
  BY DEF RestInv, RestTypeOK
<1>2. IsLayer(Routers[http.layer])
  BY <1>1, LayersAre
<1>3. IsHandler(Current, Routers[http.layer].method)
  BY <1>1, <1>2, Zenon DEF IsLayer, Current
<1>4. QED
  BY <1>1, <1>3, Zenon DEF IsHandler, Endpoints

LEMMA NextRest == RestInv /\ [RestNext]_restVars => RestInv'
<1> SUFFICES ASSUME RestInv, [RestNext]_restVars PROVE RestInv'
  OBVIOUS
<1>1. CASE UNCHANGED restVars
  BY <1>1 DEF restVars, RestInv, RestTypeOK
<1>2. CASE Authorize
  <2>1. UNCHANGED request /\ http.layer # 0
    BY <1>2 DEF Authorize, Handling
  <2>2. request.token \in {"missing", "invalid", "user", "admin"}
    BY DEF RestInv, RestTypeOK, HttpRequests
  <2>3. \/ Answers(400, 0) \/ Answers(401, 0)
        \/ request.token \in {"user", "admin"} /\ GoesOn([http EXCEPT !.user = request.token])
    BY <1>2, <2>2 DEF Authorize
  <2>4. CASE request.token \in {"user", "admin"} /\ GoesOn([http EXCEPT !.user = request.token])
    <3> DEFINE h == [http EXCEPT !.user = request.token]
    <3>1. /\ DOMAIN h = DOMAIN http /\ h.layer = http.layer /\ h.step = http.step
          /\ h.answer = http.answer /\ h.user = request.token /\ h.checked = http.checked
      BY DEF RestInv
    <3>2. GoesOn(h)
      BY <2>4
    <3> HIDE DEF h
    <3>3. DOMAIN http.checked \subseteq Parts
      BY DEF RestInv, RestTypeOK
    <3>4. QED
      BY <2>1, <2>4, <3>1, <3>2, <3>3, RestGoesOn
  <2>5. QED
    BY <2>1, <2>3, <2>4, RestAnswers
<1>3. CASE CheckRoles
  <2>1. UNCHANGED request /\ http.layer # 0 /\ (GoesOn(http) \/ Answers(401, 0))
    BY <1>3 DEF CheckRoles, Handling
  <2>2. http.user \in {"none", "user", "admin"} /\ DOMAIN http.checked \subseteq Parts
    BY DEF RestInv, RestTypeOK
  <2>3. QED
    BY <2>1, <2>2, RestGoesOn, RestAnswers
<1>4. CASE Validate
  <2> DEFINE kept == [p \in DOMAIN Current.schemas |-> Parsed(Current.schemas[p])]
             h == [http EXCEPT !.checked = kept]
  <2>1. UNCHANGED request /\ http.layer # 0 /\ Current.kind = "validate"
    BY <1>4 DEF Validate, Handling
  <2>2. GoesOn(h) \/ Answers(400, 0)
    BY <1>4, Zenon DEF Validate
  <2>3. DOMAIN kept \subseteq Parts
    BY <2>1, CurrentIs
  <2> HIDE DEF kept
  <2>4. /\ DOMAIN h = DOMAIN http /\ h.layer = http.layer /\ h.step = http.step
        /\ h.answer = http.answer /\ h.user = http.user /\ h.checked = kept
    BY DEF RestInv
  <2>5. http.user \in {"none", "user", "admin"}
    BY DEF RestInv, RestTypeOK
  <2> HIDE DEF h
  <2>6. QED
    BY <2>1, <2>2, <2>3, <2>4, <2>5, RestGoesOn, RestAnswers
<1>5. CASE Serve
  <2>1. UNCHANGED request /\ http.layer # 0 /\ Current.kind = "controller"
    BY <1>5 DEF Serve, Handling
  <2>2. \E status \in {200, 400, 404, 500} : Answers(status, http.layer)
    <3>1. PICK status \in IF "user in body" \in Current.reads /\ request.body # "user"
                           THEN {400} ELSE {200, 404, 500} : Answers(status, http.layer)
      BY <1>5, Zenon DEF Serve
    <3>2. status \in {200, 400, 404, 500}
      OBVIOUS
    <3>3. QED
      BY <3>1, <3>2, Zenon
  <2>3. QED
    BY <2>1, <2>2, CurrentIs, RestAnswers
<1>6. CASE RouteNotFound
  BY <1>6, RestAnswers DEF RouteNotFound
<1>7. QED
  BY <1>1, <1>2, <1>3, <1>4, <1>5, <1>6 DEF RestNext

-----------------------------------------------------------------------------
(* Scoring: the wait for an acknowledgement *)

(***************************************************************************)
(* For any times: a case of a device that counts as a success has been     *)
(* answered, and has the one report that its last poll was shown, of a     *)
(* moment between the request and the deadline or, since what was asked    *)
(* before it may be answered after it, MaxLag later at most; one of a      *)
(* sensor has a report no older than the timeout.                          *)
(***************************************************************************)
THEOREM AcksCorrect == trial \in Cases => AcksAreReports
<1> SUFFICES ASSUME trial \in Cases, IntegrationSuccess(trial)
             PROVE  CASE trial.test = "device_control" ->
                           /\ trial.answers
                           /\ \E u \in trial.updates :
                                /\ PollForAck(trial) = {u}
                                /\ 0 \leq u /\ u < trial.took + trial.timeout + MaxLag
                      [] trial.test = "sensor_read" ->
                           /\ trial.answers
                           /\ \E u \in trial.updates, now \in trial.took .. trial.took + MaxLag :
                                u \in now - trial.timeout .. now
                      [] OTHER -> TRUE
  BY DEF AcksAreReports
<1>1. /\ trial.updates \in SUBSET Int /\ trial.took \in Nat /\ trial.timeout \in 0 .. MaxTime
      /\ trial.lag \in [0 .. MaxTime -> 0 .. MaxLag] /\ MaxTime \in Nat /\ MaxLag \in Nat
      /\ trial.test \in {"device_control", "sensor_read", "rule"}
  BY ScoringAssumption DEF Cases
<1>2. ASSUME NEW p \in Int, trial.took \leq p, p \leq trial.took + trial.timeout
      PROVE  ReadAt(trial, p) \in p .. p + MaxLag
  <2>1. p - trial.took \in 0 .. MaxTime
    BY <1>1, <1>2
  <2>2. trial.lag[p - trial.took] \in 0 .. MaxLag
    BY <1>1, <2>1
  <2>3. QED
    BY <1>1, <2>2 DEF ReadAt
<1>3. CASE trial.test = "device_control"
  <2> DEFINE hits == {p \in Polls(trial) : \E u \in Latest(trial, ReadAt(trial, p)) : u \geq 0}
             last == Min(hits)
             read == ReadAt(trial, last)
  <2>1. /\ Polls(trial) # {} => trial.answers
        /\ PollForAck(trial) # {}
    BY <1>3 DEF IntegrationSuccess
  <2>2. hits # {} /\ PollForAck(trial) = Latest(trial, read)
    BY <2>1, Zenon DEF PollForAck
  <2>3. Polls(trial) \subseteq trial.took .. trial.took + trial.timeout - 1
    BY Zenon DEF Polls
  <2>4. hits \subseteq Nat
    BY <1>1, <2>3
  <2>5. last \in hits
    BY <2>2, <2>4, MinIsLeast
  <2>6. /\ last \in Nat /\ trial.took \leq last /\ last < trial.took + trial.timeout
        /\ \E u \in Latest(trial, read) : u \geq 0
    <3>1. /\ last \in Polls(trial)
          /\ \E u \in Latest(trial, read) : u \geq 0
      BY <2>5, Zenon
    <3>2. last \in Nat
      BY <2>4, <2>5, Zenon
    <3> HIDE DEF last
    <3>3. trial.took \leq last /\ last < trial.took + trial.timeout
      BY <1>1, <2>3, <3>1
    <3>4. QED
      BY <3>1, <3>2, <3>3, Zenon
  <2> HIDE DEF last
  <2>7. read \in last .. last + MaxLag
    <3>1. last \in Int /\ last \leq trial.took + trial.timeout
      BY <1>1, <2>6
    <3>2. QED
      BY <1>2, <2>6, <3>1
  <2>8. PICK u \in Latest(trial, read) : u \geq 0
    BY <2>6
  <2>9. trial.answers
    BY <2>1, <2>5
  <2> HIDE DEF read
  <2>10. u \in trial.updates /\ u \leq read /\ \A v \in trial.updates : v \leq read => v \leq u
    BY <2>8 DEF Latest
  <2>11. Latest(trial, read) = {u}
    BY <1>1, <2>10 DEF Latest
  <2>12. 0 \leq u /\ u < trial.took + trial.timeout + MaxLag
    BY <1>1, <2>6, <2>7, <2>8, <2>10
  <2>13. QED
    BY <1>3, <2>2, <2>9, <2>10, <2>11, <2>12
<1>4. CASE trial.test = "sensor_read"
  <2> DEFINE now == ReadAt(trial, trial.took)
  <2>1. CheckSensorFreshness(trial)
    BY <1>4 DEF IntegrationSuccess
  <2>2. PICK u \in Latest(trial, now) : now - u \leq trial.timeout
    BY <2>1 DEF CheckSensorFreshness
  <2>3. trial.answers /\ u \in trial.updates /\ u \leq now
    BY <2>1, <2>2 DEF CheckSensorFreshness, Latest
  <2>4. now \in trial.took .. trial.took + MaxLag
    BY <1>1, <1>2
  <2> HIDE DEF now
  <2>5. u \in now - trial.timeout .. now
    BY <1>1, <2>2, <2>3, <2>4
  <2>6. QED
    BY <1>4, <2>3, <2>4, <2>5
<1>5. CASE trial.test = "rule"
  BY <1>5
<1>6. QED
  BY <1>1, <1>3, <1>4, <1>5

-----------------------------------------------------------------------------
(* ChatSocket *)

LEMMA InitWs == WsInit => WsTypeOK
  BY DEF WsInit, WsTypeOK

LEMMA NextWs == WsTypeOK /\ [WsNext]_wsVars => WsTypeOK'
<1> SUFFICES ASSUME WsTypeOK, [WsNext]_wsVars PROVE WsTypeOK'
  OBVIOUS
<1> USE DEF WsTypeOK
<1>1. CASE UNCHANGED wsVars
  BY <1>1 DEF wsVars
<1>2. ASSUME NEW c \in Clients, NEW good \in BOOLEAN, Accept(c, good) \/ Receive(c, good)
      PROVE  WsTypeOK'
  BY <1>2 DEF Accept, Receive
<1>3. ASSUME NEW c \in Clients, Vanish(c) \/ Leave(c) \/ Pong(c) \/ Settle(c)
      PROVE  WsTypeOK'
  BY <1>3 DEF Vanish, Leave, Pong, Settle
<1>4. CASE Tick
  BY <1>4 DEF Tick, Held
<1>5. CASE CloseServer \/ ServerClosed
  BY <1>5 DEF CloseServer, ServerClosed
<1>6. QED
  BY <1>1, <1>2, <1>3, <1>4, <1>5 DEF WsNext

-----------------------------------------------------------------------------
(* The composition: a part that moves takes a step of its own, the others *)
(* none, so that what holds of each part alone holds of all of them.       *)

PartsInv ==
  /\ SessionInv
  /\ LinkInv /\ AccountInv /\ CalmInv
  /\ WsTypeOK
  /\ AdminInv
  /\ RagInv
  /\ NumbersInv
  /\ RecordInv

LEMMA InitRecord == EvalInit => RecordInv
  BY SlotInvInit DEF RecordInv, EvalInit, RunIsDry, AllOut, Zeros, TasksKnown, EveryCaseRecorded

LEMMA NextRecord == RecordInv /\ [EvalNext]_evalVars => RecordInv'
  BY SlotInvStep, RunIsDryStep, RecordInvStep DEF RecordInv

LEMMA InitParts == Init => PartsInv /\ (moving = "http" => RestInv)
<1> SUFFICES ASSUME Init PROVE PartsInv /\ (moving = "http" => RestInv)
  OBVIOUS
<1>1. /\ WaInit /\ RabbitInit /\ WsInit /\ AccountsInit /\ RagInit /\ TurnInit /\ EvalInit
      /\ moving = "http" => RestInit
  BY Zenon DEF Init
<1>2. QED
  BY <1>1, InitSession, LinkInvInit, AccountInit, CalmInit, InitWs, AdminInvInit, InitRag,
     InitNumbers, InitRecord, InitRest, Zenon DEF PartsInv

LEMMA NextParts ==
  PartsInv /\ (moving = "http" => RestInv) /\ [Next]_allVars
    => (PartsInv /\ (moving = "http" => RestInv))'
<1> SUFFICES ASSUME PartsInv, moving = "http" => RestInv, [Next]_allVars
             PROVE  PartsInv' /\ (moving' = "http" => RestInv')
  OBVIOUS
<1>1. /\ [WaNext]_waVars /\ [RabbitNext]_rabbitVars /\ [WsNext]_wsVars
      /\ [AccountsNext]_accountVars /\ [RagNext]_ragVars /\ [TurnNext]_turnVars
      /\ [EvalNext]_evalVars /\ [RestNext]_restVars /\ moving' = moving
  <2>1. CASE UNCHANGED allVars
    BY <2>1, Zenon DEF allVars
  <2>2. CASE Next
    BY <2>2, Zenon DEF Next
  <2>3. QED
    BY <2>1, <2>2
<1>2. SessionInv'
  BY <1>1, NextSession, Zenon DEF PartsInv
<1>3. LinkInv' /\ AccountInv' /\ CalmInv'
  BY <1>1, LinkInvStep, AccountStep, CalmStep, Zenon DEF PartsInv
<1>4. WsTypeOK' /\ AdminInv' /\ RagInv'
  BY <1>1, NextWs, AdminInvStep, NextRag, Zenon DEF PartsInv
<1>5. NumbersInv' /\ RecordInv'
  BY <1>1, NextNumbers, NextRecord, Zenon DEF PartsInv
<1>6. moving' = "http" => RestInv'
  BY <1>1, NextRest, Zenon
<1>7. QED
  BY <1>2, <1>3, <1>4, <1>5, <1>6, Zenon DEF PartsInv

PartsSafe ==
  /\ OneLiveSocket /\ SendReachesOpenSocket /\ ConnectingIsPursued /\ ClosedStaysClosed
  /\ ChannelIsOpen /\ LinksAccounted /\ ShutdownReleases
  /\ AdminRemains
  /\ VectorsBacked
  /\ MemoryIsRecent /\ RememberedOnce
  /\ SlotsConserved /\ EveryCaseRecorded

LEMMA PartsSound == PartsInv => PartsSafe
<1>1. AdminInv => AdminRemains
  BY DEF AdminInv, AdminRemains, Crossed
<1>2. LinkInv => ChannelIsOpen
  BY DEF LinkInv
<1>3. RecordInv => SlotsConserved /\ EveryCaseRecorded
  BY DEF RecordInv, SlotInv
<1>4. NumbersInv => MemoryIsRecent /\ RememberedOnce
  BY TurnSound DEF NumbersInv, RememberedOnce
<1>5. QED
  BY <1>1, <1>2, <1>3, <1>4, SessionSound, AccountSound, CalmSound, RagSound, Zenon
  DEF PartsInv, PartsSafe

(***************************************************************************)
(* For any constants: whichever part moves, the variables of each keep     *)
(* their types, and one language model is selected at every moment.        *)
(***************************************************************************)
THEOREM ServicesTypeCorrect == Spec => []ServicesTypeOK
<1>1. PartsInv /\ (moving = "http" => RestInv) => ServicesTypeOK
  BY NumbersType DEF PartsInv, ServicesTypeOK, SessionInv, LinkInv, AdminInv, RagInv, RecordInv,
                     SlotInv, RestInv
<1>2. QED
  BY <1>1, InitParts, NextParts, PTL DEF Spec

(***************************************************************************)
(* For any constants: what is proved of the parts alone holds of all of    *)
(* them as the process runs them.                                          *)
(***************************************************************************)
THEOREM ServicesSafe == Spec => []PartsSafe
<1>1. PartsInv /\ (moving = "http" => RestInv) => PartsSafe
  BY PartsSound
<1>2. QED
  BY <1>1, InitParts, NextParts, PTL DEF Spec

LEMMA MomentIsGiven == ASSUME Init, moving = "time" PROVE when \in Moments
  BY DEF Init, WhenInit

LEMMA PayloadIsGiven == ASSUME Init, moving = "telemetry" PROVE TelemetryInit
  BY DEF Init

LEMMA InitConversions == Init => ConversionsAgree
<1> SUFFICES ASSUME Init PROVE ConversionsAgree
  OBVIOUS
<1>1. moving = "time" => RunsAreNextOccurrences
  BY MomentIsGiven, NextOccurrencesCorrect, Zenon
<1>2. moving = "telemetry" => ReadingIsOwn
  BY PayloadIsGiven, ReadingIsOwnCorrect, Zenon
<1>3. QED
  BY <1>1, <1>2, Zenon DEF ConversionsAgree

LEMMA NextConversions == ConversionsAgree /\ [Next]_allVars => ConversionsAgree'
<1> SUFFICES ASSUME ConversionsAgree, [Next]_allVars PROVE ConversionsAgree'
  OBVIOUS
<1>1. UNCHANGED <<when, payload, wanted, moving>>
  BY Zenon DEF Next, allVars, conversionVars
<1>2. RunsAreNextOccurrences' = RunsAreNextOccurrences
  BY <1>1 DEF RunsAreNextOccurrences
<1>3. ReadingIsOwn' = ReadingIsOwn
  BY <1>1 DEF ReadingIsOwn
<1>4. QED
  BY <1>1, <1>2, <1>3, Zenon DEF ConversionsAgree

(***************************************************************************)
(* For any calendar, any calls and any payloads: what a schedule, a rule   *)
(* or a trace takes from a text is what it says.                           *)
(***************************************************************************)
THEOREM ConversionsCorrect == Spec => []ConversionsAgree
  BY InitConversions, NextConversions, PTL DEF Spec
=============================================================================
