--------------------------- MODULE RuleStore_proofs ---------------------------
(***************************************************************************)
(* Proofs about RuleStore: its types, and that an operation which runs     *)
(* alone leaves the cache exact.                                           *)
(***************************************************************************)
EXTENDS RuleStore, TLAPS

LEMMA AbsentRowType == AbsentRow \in Row
  BY RuleStoreAssumption DEF AbsentRow, Row

LEMMA ActiveRowsType ==
  ASSUME StoreTypeOK
  PROVE  ActiveRows \in [Rules -> Cached]
  BY DEF StoreTypeOK, ActiveRows, Live, Row, Cached, Entry

\* Each request that looks its row up starts one operation.
LEMMA LookupBegins ==
  ASSUME StoreTypeOK, NEW m \in Managers, Lookup(m)
  PROVE  \E op \in Op : Begin(m, op)
  BY DEF Lookup, LookupSetActive, LookupRemove, LookupUpdate, Op, Row,
         StoreTypeOK

LEMMA RowAfterType ==
  ASSUME StoreTypeOK, NEW op \in Op
  PROVE  RowAfter(op) \in Row
<1> DEFINE row == rules[op.rule]
<1>1. row \in Row /\ op.active \in BOOLEAN /\ op.variant \in Variants
  BY DEF StoreTypeOK, Op
<1> HIDE DEF row
<1>2. /\ [row EXCEPT !.active = op.active] \in Row
      /\ [row EXCEPT !.status = "removed", !.active = FALSE] \in Row
      /\ [row EXCEPT !.active = op.active, !.variant = op.variant] \in Row
  BY <1>1 DEF Row
<1>3. QED
  BY <1>1, <1>2 DEF RowAfter, row

LEMMA StoreInitType == StoreInit => StoreTypeOK
<1> SUFFICES ASSUME StoreInit
             PROVE  StoreTypeOK
  OBVIOUS
<1>1. rules \in [Rules -> Row]
  BY RuleStoreAssumption, AbsentRowType DEF StoreInit, Row
<1>2. EmptyCache \in [Rules -> Cached]
  BY DEF EmptyCache, Cached
<1>3. mpc \in [Managers -> {"idle", "commit", "read", "set"}]
      /\ \A m \in Managers : mpc[m] # "commit"
  BY DEF StoreInit
<1>4. QED
  BY <1>1, <1>2, <1>3 DEF StoreInit, StoreTypeOK

LEMMA StoreTypeStep ==
  StoreTypeOK /\ [StoreNext]_storeVars => StoreTypeOK'
<1> SUFFICES ASSUME StoreTypeOK, [StoreNext]_storeVars
             PROVE  StoreTypeOK'
  OBVIOUS
<1> USE DEF StoreTypeOK
<1>1. ASSUME NEW m \in Managers, Lookup(m)
      PROVE  StoreTypeOK'
  <2>1. PICK op \in Op : Begin(m, op)
    BY <1>1, LookupBegins
  <2>2. QED
    BY <2>1 DEF Begin, EnterOp
<1>2. ASSUME NEW m \in Managers, CreateRule(m)
      PROVE  StoreTypeOK'
  <2>1. PICK r \in Rules, v \in Variants, a \in BOOLEAN : Create(m, r, v, a)
    BY <1>2 DEF CreateRule
  <2>2. [status |-> "live", active |-> a, variant |-> v, last |-> Never] \in Row
    BY RuleStoreAssumption DEF Row
  <2>3. rules' \in [Rules -> Row]
    BY <2>1, <2>2 DEF Create
  <2>4. QED
    BY <2>1, <2>3 DEF Create, EnterOp
<1>3. ASSUME NEW m \in Managers, Commit(m)
      PROVE  StoreTypeOK'
  <2>1. mop[m] \in Op
    BY <1>3 DEF Commit
  <2>2. RowAfter(mop[m]) \in Row
    BY <2>1, RowAfterType
  <2>3. rules' \in [Rules -> Row]
    BY <1>3, <2>2 DEF Commit
  <2>4. QED
    BY <1>3, <2>3 DEF Commit
<1>4. ASSUME NEW m \in Managers, ReadRows(m)
      PROVE  StoreTypeOK'
  BY <1>4, ActiveRowsType DEF ReadRows
<1>5. ASSUME NEW m \in Managers, SetRules(m)
      PROVE  StoreTypeOK'
  BY <1>5 DEF SetRules, EmptyCache, Cached
<1>6. ASSUME NEW m \in Managers, Abort(m)
      PROVE  StoreTypeOK'
  BY <1>6 DEF Abort
<1>7. CASE StoreRestart
  BY <1>7 DEF StoreRestart, EmptyCache, Cached
<1>8. CASE UNCHANGED storeVars
  BY <1>8 DEF storeVars
<1>9. QED
  BY <1>1, <1>2, <1>3, <1>4, <1>5, <1>6, <1>7, <1>8 DEF StoreNext

(***************************************************************************)
(* Every row, cache entry, operation and snapshot keeps its type.          *)
(***************************************************************************)
THEOREM StoreTypeCorrect == StoreSpec => []StoreTypeOK
BY StoreInitType, StoreTypeStep, PTL DEF StoreSpec

-----------------------------------------------------------------------------
(***************************************************************************)
(* An operation in flight that is still alone has the event loop to itself;*)
(* what it read is what the table holds; and once nobody is between commit *)
(* and setRules, a trusted cache is exact.                                 *)
(***************************************************************************)
SoloInv ==
  /\ StoreTypeOK
  /\ \A m, n \in Managers :
       alone[m] /\ mpc[m] # "idle" /\ n # m => mpc[n] = "idle"
  /\ \A m \in Managers :
       alone[m] /\ mpc[m] = "set"
         => Definitions(msnap[m]) = Definitions(ActiveRows)
  /\ trusted /\ (\A m \in Managers : mpc[m] \in {"idle", "commit"})
       => Definitions(cache) = Definitions(ActiveRows)

\* A step that leaves the rows alone leaves the active rows alone.
LEMMA SameActiveRows ==
  ASSUME UNCHANGED rules
  PROVE  ActiveRows' = ActiveRows
  BY DEF ActiveRows, Live

LEMMA SoloInvInit == StoreInit => SoloInv
<1> SUFFICES ASSUME StoreInit
             PROVE  SoloInv
  OBVIOUS
<1>1. StoreTypeOK
  BY StoreInitType
<1>2. QED
  BY <1>1, RuleStoreAssumption DEF StoreInit, SoloInv

LEMMA SoloInvStep == SoloInv /\ [StoreNext]_storeVars => SoloInv'
<1> SUFFICES ASSUME SoloInv, [StoreNext]_storeVars
             PROVE  SoloInv'
  OBVIOUS
<1>0. StoreTypeOK /\ StoreTypeOK'
  BY StoreTypeStep DEF SoloInv
<1>1. ASSUME NEW m \in Managers, Lookup(m)
      PROVE  SoloInv'
  <2>1. PICK op \in Op : Begin(m, op)
    BY <1>0, <1>1, LookupBegins
  <2>2. ActiveRows' = ActiveRows
    BY <2>1, SameActiveRows DEF Begin
  <2>3. QED
    BY <1>0, <2>1, <2>2 DEF Begin, EnterOp, SoloInv, StoreTypeOK
<1>2. ASSUME NEW m \in Managers, CreateRule(m)
      PROVE  SoloInv'
  <2>1. PICK r \in Rules, v \in Variants, a \in BOOLEAN : Create(m, r, v, a)
    BY <1>2 DEF CreateRule
  <2>2. mpc'[m] = "read" /\ \A n \in Managers \ {m} : mpc'[n] = mpc[n]
    BY <1>0, <2>1 DEF Create, StoreTypeOK
  <2>3. QED
    BY <1>0, <2>1, <2>2 DEF Create, EnterOp, SoloInv, StoreTypeOK
<1>3. ASSUME NEW m \in Managers, Commit(m)
      PROVE  SoloInv'
  <2>1. mpc'[m] = "read" /\ \A n \in Managers \ {m} : mpc'[n] = mpc[n]
    BY <1>0, <1>3 DEF Commit, StoreTypeOK
  <2>2. \A n \in Managers : alone[n] => mpc[n] # "set"
    BY <1>3 DEF Commit, SoloInv
  <2>3. QED
    BY <1>0, <1>3, <2>1, <2>2 DEF Commit, SoloInv, StoreTypeOK
<1>4. ASSUME NEW m \in Managers, ReadRows(m)
      PROVE  SoloInv'
  <2>1. ActiveRows' = ActiveRows
    BY <1>4, SameActiveRows DEF ReadRows
  <2>2. msnap'[m] = ActiveRows
        /\ \A n \in Managers \ {m} : msnap'[n] = msnap[n]
    BY <1>0, <1>4 DEF ReadRows, StoreTypeOK
  <2>3. mpc'[m] = "set" /\ \A n \in Managers \ {m} : mpc'[n] = mpc[n]
    BY <1>0, <1>4 DEF ReadRows, StoreTypeOK
  <2>4. QED
    BY <1>0, <1>4, <2>1, <2>2, <2>3 DEF ReadRows, SoloInv, Definitions
<1>5. ASSUME NEW m \in Managers, SetRules(m)
      PROVE  SoloInv'
  <2>1. ActiveRows' = ActiveRows
    BY <1>5, SameActiveRows DEF SetRules
  <2>2. mpc'[m] = "idle" /\ \A n \in Managers \ {m} :
                             mpc'[n] = mpc[n] /\ msnap'[n] = msnap[n]
    BY <1>0, <1>5 DEF SetRules, StoreTypeOK
  <2>3. trusted' => Definitions(cache)' = Definitions(ActiveRows)'
    BY <1>5, <2>1 DEF SetRules, SoloInv, Definitions
  <2>4. QED
    BY <1>0, <1>5, <2>1, <2>2, <2>3 DEF SetRules, SoloInv, Definitions
<1>6. ASSUME NEW m \in Managers, Abort(m)
      PROVE  SoloInv'
  <2>1. ActiveRows' = ActiveRows
    BY <1>6, SameActiveRows DEF Abort
  <2>2. mpc'[m] = "idle" /\ \A n \in Managers \ {m} : mpc'[n] = mpc[n]
    BY <1>0, <1>6 DEF Abort, StoreTypeOK
  <2>3. QED
    BY <1>0, <1>6, <2>1, <2>2 DEF Abort, SoloInv, Definitions
<1>7. CASE StoreRestart
  BY <1>0, <1>7, RuleStoreAssumption DEF StoreRestart, SoloInv
<1>8. CASE UNCHANGED storeVars
  <2>1. ActiveRows' = ActiveRows
    BY <1>8, SameActiveRows DEF storeVars
  <2>2. QED
    BY <1>0, <1>8, <2>1 DEF storeVars, SoloInv, Definitions
<1>9. QED
  BY <1>1, <1>2, <1>3, <1>4, <1>5, <1>6, <1>7, <1>8 DEF StoreNext

(***************************************************************************)
(* For every set of rules, variants and flows: after an operation that     *)
(* overlapped no other and did not fail, the cache is exact.               *)
(***************************************************************************)
THEOREM SoloRefreshCorrect == StoreSpec => []SoloRefreshIsExact
<1>1. SoloInv => SoloRefreshIsExact
  BY DEF SoloInv, SoloRefreshIsExact
<1>2. QED
  BY <1>1, SoloInvInit, SoloInvStep, PTL DEF StoreSpec

-----------------------------------------------------------------------------
\* An edit that leaves isActive out, and is still alone, holds what its row has.
ToggleInv ==
  /\ SoloInv
  /\ \A m \in Managers :
       mpc[m] = "commit" /\ mop[m].kind = "update" /\ ~mop[m].explicit /\ alone[m]
         => mop[m].active = rules[mop[m].rule].active

\* A step of one flow that changes rows ends the solitude of all the others.
LEMMA ToggleInvOthers ==
  ASSUME ToggleInv, NEW m \in Managers, mpc'[m] # "commit",
         \A n \in Managers \ {m} :
           mpc'[n] = mpc[n] /\ mop'[n] = mop[n]
             /\ (alone'[n] /\ mpc[n] = "commit" => alone[n] /\ rules' = rules)
  PROVE  \A n \in Managers :
           mpc'[n] = "commit" /\ mop'[n].kind = "update" /\ ~mop'[n].explicit /\ alone'[n]
             => mop'[n].active = rules'[mop'[n].rule].active
  BY DEF ToggleInv

LEMMA ToggleInvInit == StoreInit => ToggleInv
<1> SUFFICES ASSUME StoreInit
             PROVE  ToggleInv
  OBVIOUS
<1>1. \A m \in Managers : mpc[m] # "commit"
  BY DEF StoreInit
<1>2. QED
  BY <1>1, SoloInvInit DEF ToggleInv

LEMMA ToggleInvStep == ToggleInv /\ [StoreNext]_storeVars => ToggleInv'
<1> SUFFICES ASSUME ToggleInv, [StoreNext]_storeVars
             PROVE  ToggleInv'
  OBVIOUS
<1>0. StoreTypeOK /\ SoloInv /\ SoloInv'
  BY SoloInvStep DEF ToggleInv, SoloInv
<1>1. ASSUME NEW m \in Managers, Lookup(m)
      PROVE  ToggleInv'
  <2>1. PICK r \in Rules :
          \/ \E a \in BOOLEAN : LookupSetActive(m, r, a)
          \/ LookupRemove(m, r)
          \/ \E v \in Variants, e, a \in BOOLEAN : LookupUpdate(m, r, v, e, a)
    BY <1>1 DEF Lookup
  <2>2. /\ rules' = rules
        /\ \/ mop'[m].explicit \/ mop'[m].kind # "update"
           \/ mop'[m].active = rules[mop'[m].rule].active
        /\ \A n \in Managers \ {m} : mpc'[n] = mpc[n] /\ mop'[n] = mop[n] /\ ~alone'[n]
    BY <1>0, <2>1
    DEF LookupSetActive, LookupRemove, LookupUpdate, Begin, EnterOp, StoreTypeOK
  <2>3. QED
    BY <1>0, <2>2 DEF ToggleInv
<1>2. ASSUME NEW m \in Managers, CreateRule(m)
      PROVE  ToggleInv'
  <2>1. PICK r \in Rules, v \in Variants, a \in BOOLEAN : Create(m, r, v, a)
    BY <1>2 DEF CreateRule
  <2>2. /\ mpc'[m] = "read" /\ mop' = mop
        /\ \A n \in Managers \ {m} : mpc'[n] = mpc[n] /\ ~alone'[n]
    BY <1>0, <2>1 DEF Create, EnterOp, StoreTypeOK
  <2>3. QED
    BY <1>0, <2>2, ToggleInvOthers DEF ToggleInv
<1>3. ASSUME NEW m \in Managers, Commit(m)
      PROVE  ToggleInv'
  <2>1. /\ mpc'[m] = "read" /\ mop' = mop /\ alone' = alone
        /\ \A n \in Managers \ {m} : mpc'[n] = mpc[n]
    BY <1>0, <1>3 DEF Commit, StoreTypeOK
  <2>2. \A n \in Managers \ {m} : ~(alone[n] /\ mpc[n] = "commit")
    BY <1>0, <1>3 DEF Commit, SoloInv
  <2>3. QED
    BY <1>0, <2>1, <2>2, ToggleInvOthers DEF ToggleInv
<1>4. ASSUME NEW m \in Managers, ReadRows(m) \/ SetRules(m) \/ Abort(m)
      PROVE  ToggleInv'
  <2>1. /\ mpc'[m] # "commit" /\ alone' = alone /\ rules' = rules
        /\ \A n \in Managers \ {m} : mpc'[n] = mpc[n] /\ mop'[n] = mop[n]
    BY <1>0, <1>4 DEF ReadRows, SetRules, Abort, StoreTypeOK
  <2>2. QED
    BY <1>0, <2>1, ToggleInvOthers DEF ToggleInv
<1>5. CASE StoreRestart
  <2>1. \A m \in Managers : mpc'[m] # "commit"
    BY <1>5 DEF StoreRestart
  <2>2. QED
    BY <1>0, <2>1 DEF ToggleInv
<1>6. CASE UNCHANGED storeVars
  BY <1>0, <1>6 DEF storeVars, ToggleInv
<1>7. QED
  BY <1>1, <1>2, <1>3, <1>4, <1>5, <1>6 DEF StoreNext

(***************************************************************************)
(* For every set of rules, variants and flows: an edit that leaves isActive*)
(* out and overlapped no other operation writes back the isActive the row  *)
(* has.                                                                    *)
(***************************************************************************)
THEOREM EditKeepsToggleCorrect == StoreSpec => EditKeepsToggle
<1> DEFINE Kept ==
      \A m \in Managers :
        /\ mpc[m] = "commit" /\ mpc'[m] = "read" /\ alone[m]
        /\ mop[m].kind = "update" /\ ~mop[m].explicit
        => rules'[mop[m].rule].active = rules[mop[m].rule].active
<1>1. ASSUME ToggleInv, [StoreNext]_storeVars
      PROVE  [Kept]_storeVars
  <2>1. SUFFICES ASSUME NEW m \in Managers, mpc[m] = "commit", mpc'[m] = "read",
                        alone[m], mop[m].kind = "update", ~mop[m].explicit
                 PROVE  rules'[mop[m].rule].active = rules[mop[m].rule].active
    OBVIOUS
  <2>2. /\ StoreTypeOK /\ mop[m] \in Op /\ mop[m].kind = "update"
        /\ mop[m].active = rules[mop[m].rule].active
    BY <2>1, <1>1 DEF ToggleInv, SoloInv, StoreTypeOK
  <2>3. CASE rules' = rules
    BY <2>3
  <2>4. CASE Commit(m)
    <3>1. RowAfter(mop[m]).active = rules[mop[m].rule].active
      BY <2>2 DEF RowAfter, StoreTypeOK, Row, Op
    <3>2. QED
      BY <2>2, <2>4, <3>1 DEF Commit, StoreTypeOK, Op
  <2>5. ASSUME NEW n \in Managers, Commit(n) \/ CreateRule(n), n # m
        PROVE  FALSE
    BY <2>1, <2>2, <2>5 DEF Commit, CreateRule, Create, StoreTypeOK
  <2>6. ~CreateRule(m)
    BY <2>1 DEF CreateRule, Create
  <2>7. rules' = rules \/ \E n \in Managers : Commit(n) \/ CreateRule(n)
    BY <1>1
    DEF StoreNext, Lookup, LookupSetActive, LookupRemove, LookupUpdate, Begin,
        ReadRows, SetRules, Abort, StoreRestart, storeVars
  <2>8. QED
    BY <2>3, <2>4, <2>5, <2>6, <2>7
<1>2. QED
  BY <1>1, ToggleInvInit, ToggleInvStep, PTL DEF StoreSpec, EditKeepsToggle
=============================================================================
