-------------------------------- MODULE ChatTurn --------------------------------
(***************************************************************************)
(* A turn of the chat: ChatService.query with the short-term memory of     *)
(* ChatMemoryService, the search of the knowledge base, the agent and the  *)
(* speech of TTSService.                                                   *)
(*                                                                         *)
(* A turn awaits the database, the agent or the speech API between its     *)
(* steps, any of which may fail.  created_at has whole seconds.            *)
(***************************************************************************)
EXTENDS Integers, Sequences, FiniteSets

CONSTANTS
  Workers,      \* turns under way at a time
  Scopes,       \* memory scopes: a user with a session
  NoScope,      \* a turn without user or session
  RecentLimit,  \* CHAT_MEMORY_RECENT_LIMIT
  MaxTurns,     \* bound on turns
  MaxSeconds    \* bound on the clock

ASSUME ChatTurnAssumption ==
  /\ NoScope \notin Scopes
  /\ RecentLimit \in Nat \ {0}
  /\ MaxTurns \in Nat
  /\ MaxSeconds \in Nat

VARIABLES
  memory,  \* the chat_messages table, in the order of insertion
  turn,    \* turn[w]: the turn worker w runs
  turns,   \* turns begun
  second   \* the clock, in seconds

turnVars == <<memory, turn, turns, second>>

Message == [turn : 1 .. MaxTurns, role : {"user", "assistant"}, scope : Scopes,
            at : 0 .. MaxSeconds]

\* given: the rows the prompt holds; of: the rows there were when it was read.
Turn == [stage : {"idle", "agent", "ask", "reply", "speech"}, number : 0 .. MaxTurns,
         scope : Scopes \cup {NoScope}, audio : BOOLEAN, blank : BOOLEAN,
         given : SUBSET (1 .. 2 * MaxTurns), of : 0 .. 2 * MaxTurns]

Resting == [stage |-> "idle", number |-> 0, scope |-> NoScope, audio |-> FALSE,
            blank |-> FALSE, given |-> {}, of |-> 0]

TurnTypeOK ==
  /\ memory \in Seq(Message) /\ Len(memory) \leq 2 * MaxTurns
  /\ turn \in [Workers -> Turn]
  /\ turns \in 0 .. MaxTurns
  /\ second \in 0 .. MaxSeconds

TurnInit ==
  /\ memory = <<>>
  /\ turn = [w \in Workers |-> Resting]
  /\ turns = 0
  /\ second = 0

-----------------------------------------------------------------------------
Of(scope) == {i \in DOMAIN memory : memory[i].scope = scope}

\* Mutant: the oldest rows instead of the latest.
GetOldest(scope) ==
  {h \in SUBSET Of(scope) :
     /\ Cardinality(h) = IF Cardinality(Of(scope)) < RecentLimit
                         THEN Cardinality(Of(scope)) ELSE RecentLimit
     /\ \A i \in h, j \in Of(scope) \ h : memory[i].at \leq memory[j].at}

\* ORDER BY created_at DESC LIMIT n: among rows of a second, any.
GetRecent(scope) ==
  {h \in SUBSET Of(scope) :
     /\ Cardinality(h) = IF Cardinality(Of(scope)) < RecentLimit
                         THEN Cardinality(Of(scope)) ELSE RecentLimit
     /\ \A i \in h, j \in Of(scope) \ h : memory[i].at \geq memory[j].at}

\* No user, or no session: a turn that neither reads nor writes the memory.
Begin(w, scope, audio, blank) ==
  /\ turn[w].stage = "idle"
  /\ turns < MaxTurns
  /\ turns' = turns + 1
  /\ \E h \in GetRecent(scope) :
       turn' = [turn EXCEPT ![w] = [stage |-> "agent", number |-> turns', scope |-> scope,
                                    audio |-> audio, blank |-> blank, given |-> h,
                                    of |-> Len(memory)]]
  /\ UNCHANGED <<memory, second>>

To(w, stage) == turn' = [turn EXCEPT ![w].stage = stage]
EndTurn(w) == turn' = [turn EXCEPT ![w] = Resting]
AfterMemory(w) == IF turn[w].audio THEN To(w, "speech") ELSE EndTurn(w)

\* The knowledge base is searched and the agent replies.
Reply(w) ==
  /\ turn[w].stage = "agent"
  /\ IF turn[w].scope = NoScope THEN AfterMemory(w) ELSE To(w, "ask")
  /\ UNCHANGED <<memory, turns, second>>

AppendMessage(w, role) ==
  memory' = Append(memory, [turn |-> turn[w].number, role |-> role,
                            scope |-> turn[w].scope, at |-> second])

\* A blank message is refused, and so is what would follow it.
SaveQuestion(w) ==
  /\ turn[w].stage = "ask"
  /\ IF turn[w].blank
     THEN AfterMemory(w) /\ UNCHANGED memory
     ELSE AppendMessage(w, "user") /\ To(w, "reply")
  /\ UNCHANGED <<turns, second>>

SaveReply(w) ==
  /\ turn[w].stage = "reply"
  /\ AppendMessage(w, "assistant")
  /\ AfterMemory(w)
  /\ UNCHANGED <<turns, second>>

\* A failing insert, or a blank reply, leaves the turn half remembered.
SaveFails(w) ==
  /\ turn[w].stage \in {"ask", "reply"}
  /\ AfterMemory(w)
  /\ UNCHANGED <<memory, turns, second>>

\* The reply is spoken, or the caller gets an error for a turn that is remembered.
Speak(w) ==
  /\ turn[w].stage = "speech"
  /\ EndTurn(w)
  /\ UNCHANGED <<memory, turns, second>>

TurnFails(w) ==
  /\ turn[w].stage = "agent"
  /\ EndTurn(w)
  /\ UNCHANGED <<memory, turns, second>>

SecondPasses ==
  /\ second < MaxSeconds
  /\ second' = second + 1
  /\ UNCHANGED <<memory, turn, turns>>

TurnNext ==
  \/ \E w \in Workers :
       \/ \E scope \in Scopes \cup {NoScope}, audio, blank \in BOOLEAN :
            Begin(w, scope, audio, blank)
       \/ Reply(w) \/ SaveQuestion(w) \/ SaveReply(w) \/ SaveFails(w) \/ Speak(w)
       \/ TurnFails(w)
  \/ SecondPasses

TurnSpec == TurnInit /\ [][TurnNext]_turnVars

-----------------------------------------------------------------------------
(***************************************************************************)
(* A turn is given the latest messages of its own user and session, none   *)
(* of another's, none of a second older than one it is not given, however  *)
(* the turns of several sessions interleave; and what is remembered is a   *)
(* question, or a question and its reply after it: never a reply alone.    *)
(* (Which of the messages of one second come first, or are given at all,   *)
(* is not determined: created_at is all getRecent orders by.)              *)
(***************************************************************************)
MemoryIsRecent ==
  /\ \A w \in Workers : turn[w].stage # "idle" =>
       LET t == turn[w]
           own == {i \in 1 .. t.of : memory[i].scope = t.scope} IN
       /\ t.given \subseteq own
       /\ \A i \in t.given, j \in own \ t.given : memory[i].at \geq memory[j].at
       /\ Cardinality(own) > Cardinality(t.given) => Cardinality(t.given) = RecentLimit
  /\ \A i \in DOMAIN memory : memory[i].role = "assistant" =>
       \E j \in 1 .. i - 1 : memory[j] = [memory[i] EXCEPT !.role = "user", !.at = memory[j].at]
=============================================================================
