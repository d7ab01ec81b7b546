---------------------------- MODULE Accounts_proofs ----------------------------
(***************************************************************************)
(* Proofs about Accounts: an administrator remains unless two removals     *)
(* counted each other's target, whatever the number of requests.           *)
(***************************************************************************)
EXTENDS Accounts, FiniteSetTheorems, TLAPS

\* The removals that have counted and not deleted yet, as removals.
Decided == {q \in Requests : acct[q].stage = "destroy"}
Due == {[id |-> acct[q].id, seen |-> acct[q].seen] : q \in Decided}

\* Two removals in R have counted each other's target.
Crossed(R) == \E r, s \in R : r.id # s.id /\ r.id \in s.seen /\ s.id \in r.seen

\* No removal in S is one of x.
Spared(S, x) == \A r \in S : r.id # x

RowsKnown ==
  /\ \A q \in Requests :
       acct[q].stage \in {"count", "destroy"} => acct[q].id \in DOMAIN users
  /\ \A r \in Due : r.seen \subseteq DOMAIN users

\* What removals have counted grows in the order they counted: of the rows that are
\* still there, one saw all that the other saw.
InOrder ==
  /\ \A r \in Due : r.id \in AdminRows => r.id \in r.seen
  /\ \A r, s \in Due : r.seen \cap AdminRows \subseteq s.seen
                       \/ s.seen \cap AdminRows \subseteq r.seen

\* If some of the due removals were carried out, two would be crossed, or one of them
\* has counted an administrator whom all of them spare.
OneSpared ==
  \A S \in SUBSET Due :
    S # {} /\ (\A r \in S : r.id \in AdminRows) =>
      \/ Crossed(removals \cup S)
      \/ \E r \in S : \E x \in r.seen \cap AdminRows : Spared(S, x)

AdminInv ==
  /\ AccountsTypeOK
  /\ RowsKnown
  /\ InOrder
  /\ OneSpared
  /\ AdminRows = {} => Crossed(removals)

-----------------------------------------------------------------------------
LEMMA AdminInvInit == AccountsInit => AdminInv
<1>. SUFFICES ASSUME AccountsInit
              PROVE  AdminInv
  OBVIOUS
<1>1. PICK e \in Emails, f \in Emails :
        users = <<[email |-> e, role |-> "admin", gone |-> FALSE],
                  [email |-> f, role |-> "user", gone |-> FALSE]>>
  BY DEF AccountsInit, SeededUsers
<1>2. /\ users \in Seq(User)
      /\ 1 \in DOMAIN users
      /\ users[1].role = "admin" /\ users[1].gone = FALSE
  BY <1>1 DEF User, Role
<1>3. AdminRows # {}
  BY <1>2 DEF AdminRows, Rows
<1>4. Decided = {} /\ Due = {}
  BY DEF AccountsInit, Idle, Decided, Due
<1>5. acct \in [Requests -> Request] /\ \A q \in Requests : acct[q].stage = "idle"
  BY DEF AccountsInit, Idle, Request
<1>6. AccountsTypeOK
  <2>1. Len(users) = 2 /\ MaxUsers \in Nat /\ 2 \leq MaxUsers
    BY <1>1, AccountsAssumption
  <2>2. QED
    BY <1>2, <1>5, <2>1 DEF AccountsInit, SeededModel, AccountsTypeOK
<1>7. QED
  BY <1>2, <1>3, <1>4, <1>5, <1>6 DEF AdminInv, RowsKnown, InOrder, OneSpared

LEMMA RowsInIds == AccountsTypeOK => DOMAIN users \subseteq Ids
  BY AccountsAssumption DEF AccountsTypeOK, Ids

\* Rows that come, or change but for what removal looks at, disturb nothing.
LEMMA RowsGrow ==
  ASSUME AdminInv,
         Due' \subseteq Due, removals' = removals,
         DOMAIN users \subseteq DOMAIN users',
         AdminRows' \cap DOMAIN users = AdminRows
  PROVE  /\ \A r \in Due' : r.seen \subseteq DOMAIN users'
         /\ InOrder' /\ OneSpared'
         /\ AdminRows' = {} => Crossed(removals')
<1>. USE DEF AdminInv
<1>1. \A r \in Due : r.id \in DOMAIN users /\ r.seen \subseteq DOMAIN users
  BY DEF RowsKnown, Due, Decided
<1>2. \A r \in Due : /\ r.id \in AdminRows' <=> r.id \in AdminRows
                     /\ r.seen \cap AdminRows' = r.seen \cap AdminRows
  BY <1>1
<1>3. InOrder'
  <2>1. \A r \in Due' : r.id \in AdminRows' => r.id \in r.seen
    BY <1>2 DEF InOrder
  <2>2. ASSUME NEW r \in Due', NEW s \in Due'
        PROVE  r.seen \cap AdminRows' \subseteq s.seen \/ s.seen \cap AdminRows' \subseteq r.seen
    <3>1. r \in Due /\ s \in Due
      OBVIOUS
    <3>2. r.seen \cap AdminRows \subseteq s.seen \/ s.seen \cap AdminRows \subseteq r.seen
      BY <3>1 DEF InOrder
    <3>3. QED
      BY <1>2, <3>1, <3>2
  <2>3. QED
    BY <2>1, <2>2 DEF InOrder
<1>4. ASSUME NEW S \in SUBSET Due', S # {}, \A r \in S : r.id \in AdminRows'
      PROVE  \/ Crossed(removals' \cup S)
             \/ \E r \in S : \E x \in r.seen \cap AdminRows' : Spared(S, x)
  <2>1. S \in SUBSET Due /\ \A r \in S : r.id \in AdminRows
    BY <1>2, <1>4
  <2>2. \/ Crossed(removals \cup S)
        \/ \E r \in S : \E x \in r.seen \cap AdminRows : Spared(S, x)
    BY <1>4, <2>1 DEF OneSpared
  <2>3. QED
    BY <1>2, <2>1, <2>2
<1>5. OneSpared'
  BY <1>4 DEF OneSpared
<1>6. AdminRows' = {} => Crossed(removals')
  OBVIOUS
<1>7. QED
  BY <1>1, <1>3, <1>5, <1>6

\* A step that leaves the rows and the removals alone, and decides on none.
LEMMA NothingDecided ==
  ASSUME AdminInv, NEW q \in Requests, NEW a \in Request,
         UNCHANGED <<users, removals>>, selected' \in {{m} : m \in Models},
         acct' = [acct EXCEPT ![q] = a],
         a.stage # "destroy",
         a.stage = "count" => a.id \in DOMAIN users
  PROVE  AdminInv'
<1>. USE DEF AdminInv
<1>1. Decided' \subseteq Decided /\ \A p \in Decided' : acct'[p] = acct[p]
  BY DEF Decided
<1>2. Due' \subseteq Due
  BY <1>1 DEF Due
<1>3. AdminRows' = AdminRows /\ AdminRows \subseteq DOMAIN users
  BY DEF AdminRows, Rows
<1>4. /\ \A r \in Due' : r.seen \subseteq DOMAIN users'
      /\ InOrder' /\ OneSpared'
      /\ AdminRows' = {} => Crossed(removals')
  BY <1>2, <1>3, RowsGrow
<1>5. AccountsTypeOK'
  BY DEF AccountsTypeOK
<1>6. RowsKnown'
  BY <1>4 DEF RowsKnown
<1>7. QED
  BY <1>4, <1>5, <1>6

LEMMA AdminAsk ==
  ASSUME AdminInv, NEW q \in Requests, AskAccount(q)
  PROVE  AdminInv'
<1>1. PICK a \in Request : /\ Asks(q, a)
                           /\ a.stage # "destroy"
                           /\ a.stage = "count" => a.id \in DOMAIN users
  <2>1. CASE \E e \in Emails : CreateAdmin(q, e) \/ ResetPassword(q, e)
    <3>1. PICK e \in Emails : CreateAdmin(q, e) \/ ResetPassword(q, e)
      BY <2>1
    <3>2. CASE CreateAdmin(q, e)
      BY <3>2 DEF CreateAdmin, Request, Role
    <3>3. CASE ResetPassword(q, e)
      <4>1. PICK id \in WithEmail(e) :
              Asks(q, [stage |-> "update", id |-> id, email |-> "same", rows |-> "live"])
        BY <3>3 DEF ResetPassword
      <4>2. id \in Ids
        BY RowsInIds DEF WithEmail, Rows, AdminInv
      <4>3. QED
        BY <4>1, <4>2 DEF Request
    <3>4. QED
      BY <3>1, <3>2, <3>3
  <2>2. CASE \E e \in Emails, r \in Role : RegisterUser(q, e, r)
    BY <2>2 DEF RegisterUser, Request
  <2>3. CASE \E id \in Ids : UpdateOnboarding(q, id)
    BY <2>3 DEF UpdateOnboarding, Request
  <2>4. CASE \E id \in Ids, e \in Emails \cup {"same"} :
               UpdateAdmin(q, id, e) \/ UpdateProfile(q, id, e)
    BY <2>4 DEF UpdateAdmin, UpdateProfile, Request
  <2>5. CASE \E by, id \in Ids : RemoveAdmin(q, by, id)
    BY <2>5 DEF RemoveAdmin, Request, AdminRows, Rows
  <2>6. CASE \E m \in Models : SelectModel(q, m)
    BY <2>6 DEF SelectModel, Request
  <2>7. QED
    BY <2>1, <2>2, <2>3, <2>4, <2>5, <2>6 DEF AskAccount
<1>2. selected' \in {{m} : m \in Models}
  BY <1>1 DEF Asks, AdminInv, AccountsTypeOK
<1>3. QED
  BY <1>1, <1>2, NothingDecided DEF Asks

\* The answer of a request, if it changes no row.
LEMMA AdminAnswered ==
  ASSUME AdminInv, NEW q \in Requests, Swap(q) \/ QueryFails(q)
  PROVE  AdminInv'
<1>1. Idle \in Request /\ Idle.stage = "idle"
  BY DEF Idle, Request
<1>2. acct' = [acct EXCEPT ![q] = Idle] /\ UNCHANGED <<users, removals>>
  BY DEF Swap, QueryFails, Answered
<1>3. selected' \in {{m} : m \in Models}
  <2>1. ASSUME acct[q].stage = "swap"
        PROVE  acct[q].model \in Models
    BY <2>1 DEF AdminInv, AccountsTypeOK, Request, Idle
  <2>2. QED
    BY <2>1 DEF Swap, QueryFails, AdminInv, AccountsTypeOK
<1>4. QED
  BY <1>1, <1>2, <1>3, NothingDecided

\* A row is inserted or updated.
LEMMA AdminWrites ==
  ASSUME AdminInv, NEW q \in Requests, Insert(q) \/ Update(q)
  PROVE  AdminInv'
<1>. USE DEF AdminInv
<1>1. /\ acct' = [acct EXCEPT ![q] = Idle]
      /\ UNCHANGED <<selected, removals>>
      /\ acct[q].stage \in {"insert", "update"}
  BY DEF Insert, Update, Answered
<1>2. Idle \in Request /\ Idle.stage = "idle"
  BY DEF Idle, Request
<1>3. acct' \in [Requests -> Request]
  BY <1>1, <1>2 DEF AccountsTypeOK
<1>4. /\ users' \in Seq(User) /\ Len(users') \leq MaxUsers
      /\ DOMAIN users \subseteq DOMAIN users'
      /\ \A i \in DOMAIN users : /\ users'[i].role = users[i].role
                                 /\ users'[i].gone = users[i].gone
  <2>1. CASE Insert(q)
    <3>1. /\ acct[q].email \in Emails /\ acct[q].role \in Role
      BY <2>1 DEF Insert, AccountsTypeOK, Request, Idle
    <3>2. [email |-> acct[q].email, role |-> acct[q].role, gone |-> FALSE] \in User
      BY <3>1 DEF User
    <3>3. CASE EmailTaken(acct[q].email, 0)
      BY <2>1, <3>3 DEF Insert, AccountsTypeOK
    <3>4. CASE ~EmailTaken(acct[q].email, 0)
      <4>. DEFINE row == [email |-> acct[q].email, role |-> acct[q].role, gone |-> FALSE]
      <4>1. users' = Append(users, row) /\ Len(users) < MaxUsers
        BY <2>1, <3>4 DEF Insert
      <4>2. users \in Seq(User) /\ row \in User /\ MaxUsers \in Nat
        BY <3>2, AccountsAssumption DEF AccountsTypeOK
      <4>. HIDE DEF row
      <4>3. /\ users' \in Seq(User)
            /\ Len(users') = Len(users) + 1
            /\ \A i \in 1 .. Len(users) : users'[i] = users[i]
        BY <4>1, <4>2
      <4>4. DOMAIN users = 1 .. Len(users) /\ DOMAIN users' = 1 .. Len(users) + 1
        BY <4>2, <4>3
      <4>5. Len(users) \in Nat
        BY <4>2
      <4>6. QED
        BY <4>1, <4>2, <4>3, <4>4, <4>5
    <3>5. QED
      BY <3>3, <3>4
  <2>2. CASE Update(q)
    <3>1. acct[q].email \in Emails \cup {"same"}
      BY <2>2 DEF Update, AccountsTypeOK, Request, Idle
    <3>2. CASE users' = users
      BY <3>2 DEF AccountsTypeOK
    <3>3. CASE /\ acct[q].email # "same"
               /\ users' = [i \in DOMAIN users |->
                              IF i \in Matched(acct[q])
                              THEN [users[i] EXCEPT !.email = acct[q].email] ELSE users[i]]
      <4>1. ASSUME NEW i \in DOMAIN users
            PROVE  /\ users'[i] \in User
                   /\ users'[i].role = users[i].role /\ users'[i].gone = users[i].gone
        <5>1. users[i] \in User
          BY DEF AccountsTypeOK
        <5>2. CASE i \in Matched(acct[q])
          <6>1. users'[i] = [users[i] EXCEPT !.email = acct[q].email]
            BY <3>3, <5>2
          <6>2. QED
            BY <3>1, <3>3, <5>1, <6>1 DEF User
        <5>3. CASE i \notin Matched(acct[q])
          BY <3>3, <5>1, <5>3
        <5>4. QED
          BY <5>2, <5>3
      <4>2. DOMAIN users = 1 .. Len(users) /\ Len(users) \in Nat
        BY DEF AccountsTypeOK
      <4>3. users' \in [1 .. Len(users) -> User]
        BY <3>3, <4>1, <4>2
      <4>4. users' \in Seq(User) /\ Len(users') = Len(users) /\ DOMAIN users' = DOMAIN users
        BY <4>2, <4>3
      <4>5. QED
        BY <4>1, <4>4 DEF AccountsTypeOK
    <3>4. QED
      BY <2>2, <3>2, <3>3 DEF Update
  <2>3. QED
    BY <2>1, <2>2
<1>5. AdminRows' \cap DOMAIN users = AdminRows
  BY <1>4 DEF AdminRows, Rows
<1>6. Decided' = Decided /\ \A p \in Decided : acct'[p] = acct[p]
  BY <1>1, <1>2 DEF Decided, AccountsTypeOK
<1>7. Due' = Due
  BY <1>6 DEF Due
<1>8. /\ \A r \in Due' : r.seen \subseteq DOMAIN users'
      /\ InOrder' /\ OneSpared'
      /\ AdminRows' = {} => Crossed(removals')
  BY <1>1, <1>4, <1>5, <1>7, RowsGrow
<1>9. RowsKnown'
  BY <1>1, <1>2, <1>4, <1>8 DEF RowsKnown, AccountsTypeOK
<1>10. AccountsTypeOK'
  BY <1>1, <1>3, <1>4 DEF AccountsTypeOK
<1>11. QED
  BY <1>8, <1>9, <1>10

-----------------------------------------------------------------------------
\* A removal counts more than one administrator: whom it would not spare, it has
\* counted together with another.
LEMMA AdminCounts ==
  ASSUME AdminInv, NEW q \in Requests, CountAdmins(q), ~(Cardinality(AdminRows) \leq 1)
  PROVE  AdminInv'
<1>. USE DEF AdminInv
<1>. DEFINE d == [id |-> acct[q].id, seen |-> AdminRows]
            a == [stage |-> "destroy", id |-> acct[q].id, seen |-> AdminRows]
<1>1. /\ acct' = [acct EXCEPT ![q] = a]
      /\ acct[q].stage = "count"
      /\ UNCHANGED <<users, selected, removals>>
  BY DEF CountAdmins
<1>2. AdminRows \subseteq DOMAIN users /\ AdminRows' = AdminRows
  BY <1>1 DEF AdminRows, Rows
<1>3. acct[q].id \in Ids /\ acct[q].id \in DOMAIN users
  BY <1>1 DEF AccountsTypeOK, Request, Idle, RowsKnown
<1>4. AdminRows \in SUBSET Ids
  BY <1>2, RowsInIds
<1>5. a \in Request
  BY <1>3, <1>4 DEF Request
<1>6. \A i : \E y \in AdminRows : y # i
  <2>1. SUFFICES ASSUME NEW i, AdminRows \subseteq {i}
                 PROVE  FALSE
    OBVIOUS
  <2>2. IsFiniteSet({i}) /\ Cardinality({i}) = 1
    BY FS_Singleton
  <2>3. Cardinality(AdminRows) \leq 1
    BY <2>1, <2>2, FS_Subset
  <2>4. QED
    BY <2>3
<1>7. Due' = Due \cup {d}
  <2>1. q \notin Decided /\ Decided' = Decided \cup {q}
    BY <1>1 DEF Decided, AccountsTypeOK
  <2>2. /\ acct'[q].id = acct[q].id /\ acct'[q].seen = AdminRows
        /\ \A p \in Decided : acct'[p] = acct[p]
    BY <1>1, <2>1 DEF Decided, AccountsTypeOK
  <2>3. QED
    BY <2>1, <2>2 DEF Due
<1>8. AccountsTypeOK'
  BY <1>1, <1>5 DEF AccountsTypeOK
<1>9. RowsKnown'
  BY <1>1, <1>2, <1>3, <1>7 DEF RowsKnown, AccountsTypeOK
<1>10. InOrder'
  <2>1. \A r \in Due' : r.id \in AdminRows' => r.id \in r.seen
    BY <1>2, <1>7 DEF InOrder
  <2>2. \A r, s \in Due : \/ r.seen \cap AdminRows \subseteq s.seen
                          \/ s.seen \cap AdminRows \subseteq r.seen
    BY DEF InOrder
  <2>3. \A r \in Due' : r.seen \cap AdminRows \subseteq d.seen
    OBVIOUS
  <2>4. \A r, s \in Due' : \/ r.seen \cap AdminRows' \subseteq s.seen
                           \/ s.seen \cap AdminRows' \subseteq r.seen
    BY <1>2, <1>7, <2>2, <2>3
  <2>5. QED
    BY <2>1, <2>4 DEF InOrder
<1>11. ASSUME NEW T \in SUBSET Due', T # {}, \A r \in T : r.id \in AdminRows
       PROVE  \/ Crossed(removals \cup T)
              \/ \E r \in T : \E x \in r.seen \cap AdminRows : Spared(T, x)
  <2>. DEFINE S == T \ {d}
  <2>1. S \in SUBSET Due /\ \A r \in S : r.id \in AdminRows
    BY <1>7, <1>11
  <2>2. CASE d \notin T
    BY <1>11, <2>1, <2>2 DEF OneSpared
  <2>3. CASE d \in T /\ S = {}
    <3>1. PICK y \in AdminRows : y # acct[q].id
      BY <1>6
    <3>2. Spared(T, y) /\ y \in d.seen \cap AdminRows
      BY <2>3, <3>1 DEF Spared
    <3>3. QED
      BY <2>3, <3>2
  <2>4. CASE d \in T /\ S # {}
    <3>1. \/ Crossed(removals \cup S)
          \/ \E r \in S : \E x \in r.seen \cap AdminRows : Spared(S, x)
      BY <2>1, <2>4 DEF OneSpared
    <3>2. CASE Crossed(removals \cup S)
      BY <3>2 DEF Crossed
    <3>3. ASSUME NEW r \in S, NEW x \in r.seen \cap AdminRows, Spared(S, x)
          PROVE  \/ Crossed(removals \cup T)
                 \/ \E e \in T : \E y \in e.seen \cap AdminRows : Spared(T, y)
      <4>1. CASE x # d.id
        <5>1. Spared(T, x)
          BY <3>3, <4>1 DEF Spared
        <5>2. QED
          BY <3>3, <5>1
      <4>2. CASE x = d.id
        <5>1. r.id # d.id /\ r.id \in d.seen /\ d.id \in r.seen /\ r \in T
          BY <2>1, <3>3, <4>2 DEF Spared
        <5>2. QED
          BY <2>4, <5>1 DEF Crossed
      <4>3. QED
        BY <4>1, <4>2
    <3>4. QED
      BY <3>1, <3>2, <3>3
  <2>5. QED
    BY <2>2, <2>3, <2>4
<1>12. OneSpared'
  BY <1>1, <1>2, <1>11 DEF OneSpared
<1>13. QED
  BY <1>1, <1>2, <1>8, <1>9, <1>10, <1>12

\* A removal is carried out: an administrator it was to be spared by is spared by it
\* together with the others, or has crossed it.
LEMMA AdminDestroys ==
  ASSUME AdminInv, NEW q \in Requests, Destroy(q)
  PROVE  AdminInv'
<1>. USE DEF AdminInv
<1>. DEFINE f == [id |-> acct[q].id, seen |-> acct[q].seen]
<1>1. /\ acct' = [acct EXCEPT ![q] = Idle]
      /\ acct[q].stage = "destroy"
      /\ removals' = removals \cup {f}
      /\ users' = [users EXCEPT ![f.id].gone = TRUE]
      /\ selected' = selected
  BY DEF Destroy, Answered
<1>2. Idle \in Request /\ Idle.stage = "idle"
  BY DEF Idle, Request
<1>3. f \in Due
  BY <1>1 DEF Due, Decided
<1>4. f.id \in DOMAIN users /\ f.id \in Ids /\ f.seen \in SUBSET Ids
  BY <1>1 DEF RowsKnown, AccountsTypeOK, Request, Idle
<1>5. /\ users' \in Seq(User) /\ Len(users') = Len(users) /\ DOMAIN users' = DOMAIN users
      /\ \A i \in DOMAIN users :
           /\ users'[i].role = users[i].role
           /\ ~users'[i].gone <=> i # f.id /\ ~users[i].gone
  <2>1. \A i \in DOMAIN users : users[i] \in User
    BY DEF AccountsTypeOK
  <2>2. DOMAIN users = 1 .. Len(users) /\ Len(users) \in Nat
    BY DEF AccountsTypeOK
  <2>3. \A i \in DOMAIN users :
          users'[i] = IF i = f.id THEN [users[i] EXCEPT !.gone = TRUE] ELSE users[i]
    BY <1>1, <1>4 DEF AccountsTypeOK
  <2>4. \A i \in DOMAIN users : users'[i] \in User
    BY <2>1, <2>3 DEF User
  <2>5. users' \in [1 .. Len(users) -> User]
    BY <1>1, <2>2, <2>4 DEF AccountsTypeOK
  <2>6. users' \in Seq(User) /\ Len(users') = Len(users) /\ DOMAIN users' = DOMAIN users
    BY <2>2, <2>5
  <2>7. QED
    BY <2>1, <2>3, <2>6 DEF User
<1>6. AdminRows' = AdminRows \ {f.id}
  <2>1. AdminRows' = {i \in DOMAIN users : i # f.id /\ ~users[i].gone /\ users[i].role = "admin"}
    <3>1. AdminRows' = {i \in DOMAIN users' : ~users'[i].gone /\ users'[i].role = "admin"}
      BY DEF AdminRows, Rows
    <3>. HIDE DEF f
    <3>2. QED
      BY <1>5, <3>1
  <2>2. AdminRows = {i \in DOMAIN users : ~users[i].gone /\ users[i].role = "admin"}
    BY DEF AdminRows, Rows
  <2>3. QED
    BY <2>1, <2>2
<1>7. Due' \subseteq Due
  <2>1. Decided' \subseteq Decided /\ \A p \in Decided' : acct'[p] = acct[p]
    BY <1>1, <1>2 DEF Decided, AccountsTypeOK
  <2>2. QED
    BY <2>1 DEF Due
<1>8. AccountsTypeOK'
  BY <1>1, <1>2, <1>4, <1>5 DEF AccountsTypeOK
<1>9. RowsKnown'
  BY <1>1, <1>2, <1>5, <1>7 DEF RowsKnown, AccountsTypeOK
<1>10. InOrder'
  <2>1. \A r \in Due' : r.id \in AdminRows' => r.id \in r.seen
    BY <1>6, <1>7 DEF InOrder
  <2>2. \A r, s \in Due' : \/ r.seen \cap AdminRows' \subseteq s.seen
                           \/ s.seen \cap AdminRows' \subseteq r.seen
    BY <1>6, <1>7 DEF InOrder
  <2>3. QED
    BY <2>1, <2>2 DEF InOrder
<1>11. ASSUME NEW T \in SUBSET Due', T # {}, \A r \in T : r.id \in AdminRows'
       PROVE  \/ Crossed(removals' \cup T)
              \/ \E r \in T : \E x \in r.seen \cap AdminRows' : Spared(T, x)
  <2>1. T \in SUBSET Due /\ \A r \in T : r.id \in AdminRows /\ r.id # f.id
    BY <1>6, <1>7, <1>11
  <2>2. \/ Crossed(removals \cup T)
        \/ \E r \in T : \E x \in r.seen \cap AdminRows : Spared(T, x)
    BY <1>11, <2>1 DEF OneSpared
  <2>3. CASE Crossed(removals \cup T)
    BY <1>1, <2>3 DEF Crossed
  <2>4. ASSUME NEW r \in T, NEW x \in r.seen \cap AdminRows, Spared(T, x), x # f.id
        PROVE  \E e \in T : \E y \in e.seen \cap AdminRows' : Spared(T, y)
    BY <1>6, <2>4
  <2>5. ASSUME NEW r \in T, f.id \in r.seen \cap AdminRows
        PROVE  \/ Crossed(removals' \cup T)
               \/ \E e \in T : \E y \in e.seen \cap AdminRows' : Spared(T, y)
    <3>. DEFINE S == T \cup {f}
    <3>1. S \in SUBSET Due /\ S # {} /\ \A e \in S : e.id \in AdminRows
      BY <1>3, <2>1, <2>5
    <3>2. \/ Crossed(removals \cup S)
          \/ \E e \in S : \E y \in e.seen \cap AdminRows : Spared(S, y)
      BY <3>1 DEF OneSpared
    <3>3. CASE Crossed(removals \cup S)
      BY <1>1, <3>3 DEF Crossed
    <3>4. ASSUME NEW e \in S, NEW y \in e.seen \cap AdminRows, Spared(S, y)
          PROVE  \/ Crossed(removals' \cup T)
                 \/ \E g \in T : \E z \in g.seen \cap AdminRows' : Spared(T, z)
      <4>1. y # f.id /\ y \in AdminRows' /\ Spared(T, y)
        BY <1>6, <3>4 DEF Spared
      <4>2. CASE e \in T
        BY <3>4, <4>1, <4>2
      <4>3. CASE e = f /\ f.seen \cap AdminRows \subseteq r.seen
        BY <2>5, <3>4, <4>1, <4>3
      <4>4. CASE r.seen \cap AdminRows \subseteq f.seen
        <5>1. r.id \in r.seen /\ r.id \in AdminRows
          BY <2>1, <2>5 DEF InOrder
        <5>2. r.id \in f.seen /\ f.id \in r.seen /\ r.id # f.id
          BY <2>1, <2>5, <4>4, <5>1
        <5>3. QED
          BY <1>1, <2>5, <5>2 DEF Crossed
      <4>5. \/ f.seen \cap AdminRows \subseteq r.seen
            \/ r.seen \cap AdminRows \subseteq f.seen
        BY <1>3, <2>1, <2>5 DEF InOrder
      <4>6. QED
        BY <3>4, <4>2, <4>3, <4>4, <4>5
    <3>5. QED
      BY <3>2, <3>3, <3>4
  <2>6. QED
    BY <2>2, <2>3, <2>4, <2>5
<1>12. OneSpared'
  BY <1>11 DEF OneSpared
<1>13. ASSUME AdminRows' = {}
       PROVE  Crossed(removals')
  <2>1. CASE AdminRows = {}
    BY <1>1, <2>1 DEF Crossed
  <2>2. CASE AdminRows = {f.id}
    <3>1. \/ Crossed(removals \cup {f})
          \/ \E r \in {f} : \E x \in r.seen \cap AdminRows : Spared({f}, x)
      BY <1>3, <2>2 DEF OneSpared
    <3>2. QED
      BY <1>1, <2>2, <3>1 DEF Spared
  <2>3. QED
    BY <1>6, <1>13, <2>1, <2>2
<1>14. QED
  BY <1>8, <1>9, <1>10, <1>12, <1>13

-----------------------------------------------------------------------------
LEMMA AdminInvStep == AdminInv /\ [AccountsNext]_accountVars => AdminInv'
<1>. SUFFICES ASSUME AdminInv, [AccountsNext]_accountVars
              PROVE  AdminInv'
  OBVIOUS
<1>1. CASE UNCHANGED accountVars
  <2>1. Due' = Due /\ AdminRows' = AdminRows /\ removals' = removals
    BY <1>1 DEF accountVars, Due, Decided, AdminRows, Rows
  <2>2. QED
    BY <1>1, <2>1 DEF accountVars, AdminInv, AccountsTypeOK, RowsKnown, InOrder, OneSpared
<1>2. ASSUME NEW q \in Requests, AskAccount(q)
      PROVE  AdminInv'
  BY <1>2, AdminAsk
<1>3. ASSUME NEW q \in Requests, Insert(q) \/ Update(q)
      PROVE  AdminInv'
  BY <1>3, AdminWrites
<1>4. ASSUME NEW q \in Requests, CountAdmins(q)
      PROVE  AdminInv'
  <2>1. CASE Cardinality(AdminRows) \leq 1
    <3>1. Idle \in Request /\ Idle.stage = "idle"
      BY DEF Idle, Request
    <3>2. acct' = [acct EXCEPT ![q] = Idle] /\ UNCHANGED <<users, removals, selected>>
      BY <1>4, <2>1 DEF CountAdmins
    <3>3. selected' \in {{m} : m \in Models}
      BY <3>2 DEF AdminInv, AccountsTypeOK
    <3>4. QED
      BY <3>1, <3>2, <3>3, NothingDecided
  <2>2. CASE ~(Cardinality(AdminRows) \leq 1)
    BY <1>4, <2>2, AdminCounts
  <2>3. QED
    BY <2>1, <2>2
<1>5. ASSUME NEW q \in Requests, Destroy(q)
      PROVE  AdminInv'
  BY <1>5, AdminDestroys
<1>6. ASSUME NEW q \in Requests, Swap(q) \/ QueryFails(q)
      PROVE  AdminInv'
  BY <1>6, AdminAnswered
<1>7. QED
  BY <1>1, <1>2, <1>3, <1>4, <1>5, <1>6 DEF AccountsNext

LEMMA AdminInvHolds == AccountsSpec => []AdminInv
  BY AdminInvInit, AdminInvStep, PTL DEF AccountsSpec

(***************************************************************************)
(* For any number of requests, users and models: the tables and requests   *)
(* are well formed, and one model is selected at every moment, since       *)
(* selectModel is one transaction.                                         *)
(***************************************************************************)
THEOREM AccountsTypeCorrect == AccountsSpec => []AccountsTypeOK
<1>1. AdminInv => AccountsTypeOK
  BY DEF AdminInv
<1>2. QED
  BY <1>1, AdminInvHolds, PTL

(***************************************************************************)
(* For any number of requests and users: no administrator is left only     *)
(* after two removals that had counted each other's target.                *)
(***************************************************************************)
THEOREM AdminRemainsCorrect == AccountsSpec => []AdminRemains
<1>1. AdminInv => AdminRemains
  BY DEF AdminInv, AdminRemains, Crossed
<1>2. QED
  BY <1>1, AdminInvHolds, PTL
=============================================================================
