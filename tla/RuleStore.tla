------------------------------ MODULE RuleStore ------------------------------
(***************************************************************************)
(* Automation rules: the `rules` table, the in-memory RuleCache and the    *)
(* management operations of RuleManagementService that keep the second in  *)
(* step with the first.                                                    *)
(*                                                                         *)
(* Each operation is a flow of awaited database calls on one event loop,   *)
(* so other operations run between any two of its steps:                   *)
(*   lookup (findOne / findById) -> commit (update or transaction)         *)
(*     -> ReadRows (findAll of refreshCache) -> SetRules (RuleCache).      *)
(* The trigger, conditions, actions and cooldown of a rule are one value,  *)
(* its variant; the data inside is in RuleEngine's constant Def.           *)
(***************************************************************************)
CONSTANTS
  Rules,      \* rule ids (auto-increment: an id is never used twice)
  Variants,   \* what a rule's trigger, conditions, actions, cooldown may be
  Managers,   \* flows that may run a management operation
  Requests,   \* the kinds of operation requested
  Boot,       \* the flow that loads the cache at start-up, a member of Managers
  Stamps,     \* values of last_triggered_at
  Never,      \* last_triggered_at IS NULL, a member of Stamps
  NotCached,  \* no entry for a rule in the cache
  NoOp        \* no operation

ASSUME RuleStoreAssumption ==
  /\ Boot \in Managers
  /\ Requests \subseteq {"create", "setActive", "remove", "update"}
  /\ Never \in Stamps
  /\ Variants # {}
  /\ NotCached \notin [variant : Variants, last : Stamps]
  /\ NotCached \notin Variants

VARIABLES
  rules,      \* rules[r]: the row of rule r
  cache,      \* RuleCache.rules: cache[r] is its entry, or NotCached
  mpc,        \* mpc[m]: where manager flow m is
  mop,        \* mop[m]: the operation it runs
  msnap,      \* msnap[m]: the rows its findAll returned, until setRules
  alone,      \* history: no other operation was in flight during m's
  trusted     \* history: the last operation to end overlapped no other one,
              \* and no database call of it failed

storeVars == <<rules, cache, mpc, mop, msnap, alone, trusted>>

Row == [status : {"absent", "live", "removed"}, active : BOOLEAN,
        variant : Variants, last : Stamps]

Entry == [variant : Variants, last : Stamps]

Cached == Entry \cup {NotCached}

Op == [kind : {"setActive", "remove", "update"}, rule : Rules,
       active : BOOLEAN, explicit : BOOLEAN, variant : Variants]

AbsentRow == [status |-> "absent", active |-> FALSE,
              variant |-> CHOOSE v \in Variants : TRUE, last |-> Never]

EmptyCache == [r \in Rules |-> NotCached]

Live(r) == rules[r].status = "live"

\* The rows refreshCache selects (deleted 0, isActive true, not soft deleted),
\* serialised.
ActiveRows ==
  [r \in Rules |->
     IF Live(r) /\ rules[r].active
     THEN [variant |-> rules[r].variant, last |-> rules[r].last]
     ELSE NotCached]

StoreTypeOK ==
  /\ rules \in [Rules -> Row]
  /\ cache \in [Rules -> Cached]
  /\ mpc \in [Managers -> {"idle", "commit", "read", "set"}]
  /\ mop \in [Managers -> Op \cup {NoOp}]
  /\ \A m \in Managers : mpc[m] = "commit" => mop[m] \in Op
  /\ msnap \in [Managers -> [Rules -> Cached]]
  /\ alone \in [Managers -> BOOLEAN]
  /\ trusted \in BOOLEAN

\* The server starts on any table that earlier runs may have left, and loads
\* the cache in the background.
StoreInit ==
  /\ rules \in [Rules -> {AbsentRow} \cup
                          [status : {"live"}, active : BOOLEAN,
                           variant : Variants, last : {Never}]]
  /\ cache = EmptyCache
  /\ mpc = [m \in Managers |-> IF m = Boot THEN "read" ELSE "idle"]
  /\ mop = [m \in Managers |-> NoOp]
  /\ msnap = [m \in Managers |-> EmptyCache]
  /\ alone = [m \in Managers |-> m = Boot]
  /\ trusted = FALSE

-----------------------------------------------------------------------------
\* Flow m is the only operation from here on; those it meets are not alone.
EnterOp(m) ==
  alone' = [n \in Managers |->
              IF n = m THEN \A k \in Managers \ {m} : mpc[k] = "idle"
                       ELSE FALSE]

Begin(m, op) ==
  /\ op.kind \in Requests
  /\ mpc[m] = "idle"
  /\ Live(op.rule)
  /\ mpc' = [mpc EXCEPT ![m] = "commit"]
  /\ mop' = [mop EXCEPT ![m] = op]
  /\ EnterOp(m)
  /\ UNCHANGED <<rules, cache, msnap, trusted>>

\* setActive, remove and update look the row up first.  setActive is an
\* instance update: it writes only what differs from the row it read.
LookupSetActive(m, r, a) ==
  Begin(m, [kind |-> "setActive", rule |-> r, active |-> a,
            explicit |-> a # rules[r].active, variant |-> rules[r].variant])

LookupRemove(m, r) ==
  Begin(m, [kind |-> "remove", rule |-> r, active |-> FALSE,
            explicit |-> TRUE, variant |-> rules[r].variant])

\* Mutant: isActive defaults to true when the request leaves it out.
LookupUpdateActive(m, r, v, e, a) ==
  Begin(m, [kind |-> "update", rule |-> r, active |-> e => a,
            explicit |-> e, variant |-> v])

\* update merges the request with the row it read: fields the request leaves
\* out, isActive among them, are written back as they were read.
LookupUpdate(m, r, v, e, a) ==
  Begin(m, [kind |-> "update", rule |-> r,
            active |-> IF e THEN a ELSE rules[r].active,
            explicit |-> e, variant |-> v])

\* Mutant: the row loses the fields an update does not name.
RowAfterUnset(op) ==
  IF op.kind = "update" THEN [rules[op.rule] EXCEPT !.variant = NotCached]
  ELSE [rules[op.rule] EXCEPT !.active = op.active]

\* The row after the operation's commit. An instance update (setActive) has no
\* soft-delete condition, a bulk update (update) has one.
RowAfter(op) ==
  LET row == rules[op.rule] IN
  CASE op.kind = "setActive" -> IF op.explicit THEN [row EXCEPT !.active = op.active]
                                ELSE row
    [] op.kind = "remove" -> [row EXCEPT !.status = "removed", !.active = FALSE]
    [] OTHER -> IF row.status = "live"
                THEN [row EXCEPT !.active = op.active, !.variant = op.variant]
                ELSE row

Commit(m) ==
  /\ mpc[m] = "commit"
  /\ rules' = [rules EXCEPT ![mop[m].rule] = RowAfter(mop[m])]
  /\ mpc' = [mpc EXCEPT ![m] = "read"]
  /\ UNCHANGED <<cache, mop, msnap, alone, trusted>>

\* create: one transaction inserts the rule and its parts.
Create(m, r, v, a) ==
  /\ "create" \in Requests
  /\ mpc[m] = "idle"
  /\ rules[r].status = "absent"
  /\ rules' = [rules EXCEPT ![r] = [status |-> "live", active |-> a,
                                    variant |-> v, last |-> Never]]
  /\ mpc' = [mpc EXCEPT ![m] = "read"]
  /\ EnterOp(m)
  /\ UNCHANGED <<cache, mop, msnap, trusted>>

\* Mutant: the query forgets isActive = true.
ReadLiveRows(m) ==
  /\ mpc[m] = "read"
  /\ msnap' = [msnap EXCEPT ![m] =
                 [r \in Rules |-> IF Live(r)
                                  THEN [variant |-> rules[r].variant,
                                        last |-> rules[r].last]
                                  ELSE NotCached]]
  /\ mpc' = [mpc EXCEPT ![m] = "set"]
  /\ UNCHANGED <<rules, cache, mop, alone, trusted>>

\* refreshCache: the findAll, then, once its answer is back, setRules.
ReadRows(m) ==
  /\ mpc[m] = "read"
  /\ msnap' = [msnap EXCEPT ![m] = ActiveRows]
  /\ mpc' = [mpc EXCEPT ![m] = "set"]
  /\ UNCHANGED <<rules, cache, mop, alone, trusted>>

SetRules(m) ==
  /\ mpc[m] = "set"
  /\ cache' = msnap[m]
  /\ msnap' = [msnap EXCEPT ![m] = EmptyCache]
  /\ mpc' = [mpc EXCEPT ![m] = "idle"]
  /\ mop' = [mop EXCEPT ![m] = NoOp]
  /\ trusted' = alone[m]
  /\ UNCHANGED <<rules, alone>>

\* A database call fails, or update meets a device it refuses and rolls back:
\* the operation throws. After the commit the cache is left as it was.
Abort(m) ==
  /\ mpc[m] \in {"commit", "read"}
  /\ mpc' = [mpc EXCEPT ![m] = "idle"]
  /\ mop' = [mop EXCEPT ![m] = NoOp]
  /\ trusted' = (trusted /\ mpc[m] = "commit")
  /\ UNCHANGED <<rules, cache, msnap, alone>>

\* The process dies and starts again: memory is lost, the table stays.
StoreRestart ==
  /\ cache' = EmptyCache
  /\ mpc' = [m \in Managers |-> IF m = Boot THEN "read" ELSE "idle"]
  /\ mop' = [m \in Managers |-> NoOp]
  /\ msnap' = [m \in Managers |-> EmptyCache]
  /\ alone' = [m \in Managers |-> m = Boot]
  /\ trusted' = FALSE
  /\ UNCHANGED rules

Lookup(m) ==
  \E r \in Rules :
    \/ \E a \in BOOLEAN : LookupSetActive(m, r, a)
    \/ LookupRemove(m, r)
    \/ \E v \in Variants, e, a \in BOOLEAN : LookupUpdate(m, r, v, e, a)

CreateRule(m) ==
  \E r \in Rules, v \in Variants, a \in BOOLEAN : Create(m, r, v, a)

StoreNext ==
  \/ \E m \in Managers :
       \/ Lookup(m)
       \/ CreateRule(m)
       \/ Commit(m)
       \/ ReadRows(m)
       \/ SetRules(m)
       \/ Abort(m)
  \/ StoreRestart

\* No fairness: an operation may fail or wait on the database for ever, and
\* nothing below is a liveness property.
StoreSpec == StoreInit /\ [][StoreNext]_storeVars

-----------------------------------------------------------------------------
\* What a cache content defines, whatever its last_triggered_at values.
Definitions(c) ==
  [r \in Rules |-> IF c[r] = NotCached THEN NotCached ELSE c[r].variant]

(***************************************************************************)
(* When the operations are over and the last of them overlapped no other   *)
(* and met no failure, the cache holds exactly the active rules of the     *)
(* table, with their current definitions: created, edited, toggled and     *)
(* deleted rules alike, whatever races or failures came before             *)
(* (refreshCache after every commit, RuleCache.setRules).                  *)
(***************************************************************************)
SoloRefreshIsExact ==
  trusted /\ (\A m \in Managers : mpc[m] = "idle")
    => Definitions(cache) = Definitions(ActiveRows)

(***************************************************************************)
(* An edit that does not mention isActive, and overlaps no other operation,*)
(* neither enables a disabled rule nor disables an enabled one (update     *)
(* writes back the isActive it read).                                      *)
(***************************************************************************)
EditKeepsToggle ==
  [][\A m \in Managers :
       /\ mpc[m] = "commit" /\ mpc'[m] = "read" /\ alone[m]
       /\ mop[m].kind = "update" /\ ~mop[m].explicit
       => rules'[mop[m].rule].active = rules[mop[m].rule].active]_storeVars
=============================================================================
