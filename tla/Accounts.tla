-------------------------------- MODULE Accounts --------------------------------
(***************************************************************************)
(* The accounts and the selected language model: what AdminService,        *)
(* AuthService, MyProfileService and LLMModelService do to their tables.   *)
(*                                                                         *)
(* Each request awaits the database between its queries, so two requests   *)
(* interleave there.  A query is one step; only selectModel has a          *)
(* transaction.  Names, passwords and the onboarding status are data that  *)
(* nothing reads back: an update either gives such a column or does not.   *)
(***************************************************************************)
EXTENDS Integers, Sequences, FiniteSets

CONSTANTS
  Requests,  \* requests under way at a time
  Emails,    \* e-mail addresses
  Models,    \* the models of the llm_models table
  MaxUsers   \* bound on rows of the users table

ASSUME AccountsAssumption ==
  /\ "same" \notin Emails
  /\ Models # {}
  /\ MaxUsers \in Nat \ {0, 1}

VARIABLES
  users,     \* the users table, by userId
  selected,  \* the models with isSelected
  acct,      \* acct[q]: what request q awaits
  removals   \* history: the removals made, with the administrators counted

accountVars == <<users, selected, acct, removals>>

Role == {"admin", "user"}
Ids == 1 .. MaxUsers

\* A row; gone: deletedAt is set.
User == [email : Emails, role : Role, gone : BOOLEAN]

Idle == [stage |-> "idle"]
Request ==
  {Idle}
  \cup [stage : {"insert"}, email : Emails, role : Role]
  \cup [stage : {"update"}, id : Ids, email : Emails \cup {"same"},
        rows : {"admin", "live", "key"}]
  \cup [stage : {"count"}, id : Ids]
  \cup [stage : {"destroy"}, id : Ids, seen : SUBSET Ids]
  \cup [stage : {"swap"}, model : Models]

AccountsTypeOK ==
  /\ users \in Seq(User) /\ Len(users) \leq MaxUsers
  /\ selected \in {{m} : m \in Models}
  /\ acct \in [Requests -> Request]
  /\ removals \subseteq [id : Ids, seen : SUBSET Ids]

\* The seeded rows: an administrator and a user.
SeededUsers ==
  {<<[email |-> e[1], role |-> "admin", gone |-> FALSE],
     [email |-> e[2], role |-> "user", gone |-> FALSE]>> :
     e \in {p \in Emails \X Emails : p[1] # p[2]}}

\* One of the seeded models is selected.
SeededModel == {{m} : m \in Models}

AccountsInit ==
  /\ users \in SeededUsers
  /\ selected \in SeededModel
  /\ acct = [q \in Requests |-> Idle]
  /\ removals = {}

-----------------------------------------------------------------------------
\* The rows a paranoid model finds.
Rows == {i \in DOMAIN users : ~users[i].gone}
AdminRows == {i \in Rows : users[i].role = "admin"}
WithEmail(e) == {i \in Rows : users[i].email = e}

\* The unique index of the e-mail covers the rows that are gone.
EmailTaken(e, but) == \E i \in DOMAIN users \ {but} : users[i].email = e

\* A request is answered, with success or with an error.
Answered(q) == acct' = [acct EXCEPT ![q] = Idle]

\* The first query of a request, which goes on to r.
Asks(q, r) ==
  /\ acct[q] = Idle
  /\ acct' = [acct EXCEPT ![q] = r]
  /\ UNCHANGED <<users, selected, removals>>

-----------------------------------------------------------------------------
(* Sign-up *)

CreateAdmin(q, e) ==
  /\ WithEmail(e) = {}
  /\ Asks(q, [stage |-> "insert", email |-> e, role |-> "admin"])

RegisterUser(q, e, role) ==
  /\ WithEmail(e) = {}
  /\ Asks(q, [stage |-> "insert", email |-> e, role |-> role])

\* UserModel.create, for either.
Insert(q) ==
  LET a == acct[q] IN
  /\ a.stage = "insert"
  /\ Len(users) < MaxUsers \/ EmailTaken(a.email, 0)
  /\ users' = IF EmailTaken(a.email, 0) THEN users
              ELSE Append(users, [email |-> a.email, role |-> a.role, gone |-> FALSE])
  /\ Answered(q)
  /\ UNCHANGED <<selected, removals>>

-----------------------------------------------------------------------------
(* Changes of a row: e is the new e-mail, "same" when the update has none *)

UpdateAdmin(q, id, e) ==
  /\ e # "same" => WithEmail(e) \subseteq {id}
  /\ Asks(q, [stage |-> "update", id |-> id, email |-> e, rows |-> "admin"])

UpdateProfile(q, id, e) ==
  /\ e # "same" => WithEmail(e) \subseteq {id}
  /\ Asks(q, [stage |-> "update", id |-> id, email |-> e, rows |-> "live"])

\* save() writes by the key alone.
UpdateOnboarding(q, id) ==
  /\ id \in Rows
  /\ Asks(q, [stage |-> "update", id |-> id, email |-> "same", rows |-> "key"])

\* Only a user resets a password without signing in.
ResetPassword(q, e) ==
  \E id \in WithEmail(e) :
    /\ users[id].role = "user"
    /\ Asks(q, [stage |-> "update", id |-> id, email |-> "same", rows |-> "live"])

\* The rows the UPDATE matches.
Matched(a) ==
  {a.id} \cap CASE a.rows = "admin" -> AdminRows
                [] a.rows = "live" -> Rows
                [] a.rows = "key" -> DOMAIN users

Update(q) ==
  LET a == acct[q] IN
  /\ a.stage = "update"
  /\ users' = IF a.email = "same" \/ EmailTaken(a.email, a.id) THEN users
              ELSE [i \in DOMAIN users |->
                      IF i \in Matched(a) THEN [users[i] EXCEPT !.email = a.email] ELSE users[i]]
  /\ Answered(q)
  /\ UNCHANGED <<selected, removals>>

-----------------------------------------------------------------------------
(* Removal.  A token outlives its account: the requester was an            *)
(* administrator when it signed in and may be gone.                        *)

RemoveAdmin(q, by, id) ==
  /\ by \in DOMAIN users /\ users[by].role = "admin"
  /\ id # by
  /\ id \in AdminRows
  /\ Asks(q, [stage |-> "count", id |-> id])

\* Mutant: the last administrator counts as enough.
CountAny(q) ==
  /\ acct[q].stage = "count"
  /\ acct' = [acct EXCEPT ![q] =
       IF AdminRows = {} THEN Idle
       ELSE [stage |-> "destroy", id |-> acct[q].id, seen |-> AdminRows]]
  /\ UNCHANGED <<users, selected, removals>>

CountAdmins(q) ==
  /\ acct[q].stage = "count"
  /\ acct' = [acct EXCEPT ![q] =
       IF Cardinality(AdminRows) \leq 1 THEN Idle
       ELSE [stage |-> "destroy", id |-> acct[q].id, seen |-> AdminRows]]
  /\ UNCHANGED <<users, selected, removals>>

Destroy(q) ==
  /\ acct[q].stage = "destroy"
  /\ users' = [users EXCEPT ![acct[q].id].gone = TRUE]
  /\ removals' = removals \cup {[id |-> acct[q].id, seen |-> acct[q].seen]}
  /\ Answered(q)
  /\ UNCHANGED selected

-----------------------------------------------------------------------------
(* The selected model *)

SelectModel(q, m) == Asks(q, [stage |-> "swap", model |-> m])

\* Mutant: the two updates are not one transaction.
SwapHalfway(q) ==
  /\ acct[q].stage = "swap"
  /\ selected' \in {{acct[q].model}, {}}
  /\ Answered(q)
  /\ UNCHANGED <<users, removals>>

\* The transaction commits, or rolls back.
Swap(q) ==
  /\ acct[q].stage = "swap"
  /\ selected' \in {{acct[q].model}, selected}
  /\ Answered(q)
  /\ UNCHANGED <<users, removals>>

\* A query fails and the service answers 500.
QueryFails(q) ==
  /\ acct[q].stage \in {"insert", "update", "count", "destroy"}
  /\ Answered(q)
  /\ UNCHANGED <<users, selected, removals>>

-----------------------------------------------------------------------------
AskAccount(q) ==
  \/ \E e \in Emails : CreateAdmin(q, e) \/ ResetPassword(q, e)
  \/ \E e \in Emails, r \in Role : RegisterUser(q, e, r)
  \/ \E id \in Ids : UpdateOnboarding(q, id)
  \/ \E id \in Ids, e \in Emails \cup {"same"} :
       UpdateAdmin(q, id, e) \/ UpdateProfile(q, id, e)
  \/ \E by, id \in Ids : RemoveAdmin(q, by, id)
  \/ \E m \in Models : SelectModel(q, m)

AccountsNext ==
  \E q \in Requests :
    \/ AskAccount(q) \/ Insert(q) \/ Update(q)
    \/ CountAdmins(q) \/ Destroy(q) \/ Swap(q) \/ QueryFails(q)

AccountsSpec == AccountsInit /\ [][AccountsNext]_accountVars

-----------------------------------------------------------------------------
(***************************************************************************)
(* "Cannot delete the last admin account": if no administrator is left,    *)
(* two removals of different administrators overlapped, each having        *)
(* counted the one the other removes.  (AdminService.remove counts and     *)
(* deletes in two queries; the requester may itself be gone.)              *)
(***************************************************************************)
AdminRemains ==
  AdminRows = {} =>
    \E r, s \in removals : r.id # s.id /\ r.id \in s.seen /\ s.id \in r.seen
=============================================================================
