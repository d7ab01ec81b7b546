---------------------------- MODULE MCRuleEngine ----------------------------
(* Instances of RuleEngine for TLC. *)
EXTENDS RuleEngine, TLC, FiniteSets

CONSTANTS v1, v2, d1, d2

\* v1: a rule on sensor d1 that switches actuator d2.
\* v2: a rule on hybrid device d2 that switches it off and on again.
MCDef ==
  [v \in Variants |->
     IF v = v1
     THEN [trigger |-> d1, cooldown |-> 2,
           actions |-> <<[dev |-> d2, state |-> "on"]>>]
     ELSE [trigger |-> d2, cooldown |-> 0,
           actions |-> <<[dev |-> d2, state |-> "off"],
                         [dev |-> d2, state |-> "on"]>>]]

TurnOn == {[dev |-> d2, state |-> "on"]}

TurnOnOrOff == [dev : {d2}, state : {"on", "off"}]

Symmetry == Permutations(Threads)

\* Bounds.  Where every rule's cooldown, or every rule's audit row, is excused,
\* nothing is left to check.
SomeCooldownSteady ==
  \E r \in Rules : disturbed[r] \cap {"overlap", "stale", "lostStamp"} = {}

SomeAuditSteady == \E r \in Rules : disturbed[r] \cap {"overlap", "lostAudit"} = {}

\* The audit needs no more than one tick, the cooldown two.
SomethingToCheck == SomeCooldownSteady \/ (SomeAuditSteady /\ now < 2)

\* While log and command may have parted: one flow at a time, and three rows.
CalmWhileMixed ==
  d2 \in mixed => /\ Cardinality({e \in Threads : ev[e].pc # "idle"}) <= 1
                 /\ Cardinality(logs[d2]) <= 3

\* Two flows of telemetry and management when no database call fails.
NoFailureNext ==
  \/ \E e \in Threads :
       \/ \E d \in Devices, v \in Readings : IngestTelemetry(e, d, v)
       \/ Evaluate(e)
       \/ \E r \in Rules : SkipRule(e, r) \/ PassCooldown(e, r)
       \/ Conditions(e, TRUE)
       \/ SkipAction(e) \/ TakeAction(e, TRUE) \/ InsertLog(e) \/ Publish(e)
       \/ UpdateRow(e) \/ TouchLastTriggered(e) \/ Audit(e)
  \/ /\ \E m \in Managers : Lookup(m) \/ Commit(m) \/ ReadRows(m)
     /\ UNCHANGED <<engineVars, histVars>>
  \/ \E m \in Managers : InstallRules(m)
  \/ Tick

NoFailureSpec == Init /\ [][NoFailureNext]_vars

(***************************************************************************)
(* RuleEngine.service.test.ts:198, "skips when in cooldown": an evaluation *)
(* that meets a rule within its cooldown, the earlier firing being over,   *)
(* goes no further than the cooldown check.                                *)
(***************************************************************************)
SkipsWhenInCooldown ==
  [][\A e \in Threads :
       LET r == ev'[e].rule IN
       /\ ev[e].pc = "check" /\ ev'[e].pc = "conditions"
       /\ \A k \in Threads \ {e} : ev[k].rule # r
       /\ fired[r] # Never
       => now - fired[r] >= Def[Object(e, r).variant].cooldown]_vars

(***************************************************************************)
(* RuleEngine.service.ts:142, "target already in desired state": a skipped *)
(* action's target was last commanded to that state, if it ever was.  Two  *)
(* rows of one second are enough to break it.                              *)
(***************************************************************************)
SkipsOnlyDesiredTargets ==
  [][\A e \in Threads :
       ev[e].pc = "target" /\ ev'[e].pc \in {"target", "row"}
         /\ <<ev'[e].pc, ev'[e].idx>> # <<ev[e].pc, ev[e].idx>>
         => LET a == Actions(e)[ev[e].idx]
            IN lastCmd[a.dev] \in {a.state, "none"}]_vars
=============================================================================
