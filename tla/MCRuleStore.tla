----------------------------- MODULE MCRuleStore -----------------------------
(* Instances of RuleStore for TLC. *)
EXTENDS RuleStore, TLC

Symmetry == Permutations(Rules)

\* The same operations when no database call fails.
NoFailureNext ==
  \E m \in Managers :
    \/ Lookup(m)
    \/ CreateRule(m)
    \/ Commit(m)
    \/ ReadRows(m)
    \/ SetRules(m)

NoFailureSpec == StoreInit /\ [][NoFailureNext]_storeVars

(***************************************************************************)
(* RuleCache.service.ts:49 calls the cache the "In-memory cache of active  *)
(* automation rules": with no operation in flight, a cached rule is an     *)
(* active row of the table.                                                *)
(***************************************************************************)
CacheHoldsActiveRulesOnly ==
  (\A m \in Managers : mpc[m] = "idle") =>
    \A r \in Rules : cache[r] # NotCached => Live(r) /\ rules[r].active
=============================================================================
