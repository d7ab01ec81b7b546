--------------------------- MODULE RuleEngine_proofs ---------------------------
(***************************************************************************)
(* Proofs about RuleEngine: what the cooldown, the execution log and the   *)
(* device log guarantee, for any rules, devices and evaluations at once.   *)
(***************************************************************************)
EXTENDS RuleEngine, RuleStore_proofs

\* Where a flow is between its cooldown check and the firing, and after it.
Passed == {"conditions", "target", "insert", "publish"}
Firing == {"row", "touch", "audit"}

\* A flow that holds candidates knows what they are: a refresh takes nothing away from it.
Held(e) == ev[e].todo \cup ({ev[e].rule} \ {NoRule})

Holds(e) ==
  /\ \A r \in Held(e) : Object(e, r) # NotCached
  /\ ev[e].pc \in {"idle", "start"} =>
       ev[e].todo = {} /\ ev[e].rule = NoRule /\ ev[e].attached
  /\ ev[e].pc \in {"idle", "start", "check"} => ev[e].idx = 1
  /\ ev[e].pc \in {"conditions", "target", "failed"} \cup Firing => ev[e].rule \in Rules
  /\ ev[e].pc = "check" => ev[e].rule = NoRule
  /\ ev[e].rule \in Rules /\ ev[e].pc \in Passed => ev[e].idx \in DOMAIN Actions(e)

HoldsEntries == \A e \in Threads : Holds(e)

EngineInv == TypeOK /\ HoldsEntries

-----------------------------------------------------------------------------
\* One evaluation of a rule at a time.
OnlyOne(r) ==
  \A e, k \in Threads : ev[e].rule = r /\ ev[k].rule = r => e = k

\* Nothing happened to r that keeps its success row from being written.
AuditSteady(r) == disturbed[r] \cap {"overlap", "lostAudit"} = {}

\* The execution log: behind the firings only while the flow that fired has yet to write.
AuditInv ==
  \A r \in Rules : AuditSteady(r) =>
    /\ OnlyOne(r)
    /\ \A e \in Threads : ev[e].rule = r =>
         IF ev[e].pc \in Firing THEN ev[e].stamp = fired[r] ELSE audited[r] = fired[r]
    /\ (\A e \in Threads : ev[e].rule # r) => audited[r] = fired[r]

\* Nothing happened to r that the cooldown does not stand.
Steady(r) == disturbed[r] \cap {"overlap", "stale", "lostStamp"} = {}

At(e, r, where) == ev[e].rule = r /\ ev[e].pc \in where

CooledDown(e, r) ==
  \/ fired[r] = Never
  \/ now - fired[r] >= Def[Object(e, r).variant].cooldown

\* The last firing's stamp is in the row, and in the cache, but for the flow that is about
\* to put it there; whoever passed the check will fire outside the cooldown.
CooldownInv ==
  /\ \A r \in Rules : rules[r].status = "absent" => rules[r].last = Never
  /\ \A r \in Rules : Steady(r) =>
       /\ OnlyOne(r)
       /\ r \notin tooSoon
       /\ \A e \in Threads : At(e, r, Passed) => CooledDown(e, r)
       /\ \A e \in Threads : At(e, r, {"row", "touch"}) => ev[e].stamp = fired[r]
       /\ (\A e \in Threads : ~At(e, r, {"row"})) => rules[r].last = fired[r]
       /\ cache[r] # NotCached /\ (\A e \in Threads : ~At(e, r, {"row", "touch"}))
            => cache[r].last = fired[r]

\* A command on its way to d, after its row.
Sending(e, d) == ev[e].pc = "publish" /\ ev[e].dev = d

\* The device log of an unmixed device names one switched state: the last command, or the
\* one that is on its way.
LogInv ==
  \A d \in Devices \ mixed :
    /\ \A e, k \in Threads : Sending(e, d) /\ Sending(k, d) => e = k
    /\ \A e \in Threads : Sending(e, d) =>
         "other" \in Newest(d) \/ ev[e].state \in Newest(d)
    /\ (\A e \in Threads : ~Sending(e, d)) =>
         \/ Newest(d) = {}
         \/ "other" \in Newest(d)
         \/ lastCmd[d] \in Newest(d)
    /\ \A x, y \in Newest(d) \ {"other"} : x = y

-----------------------------------------------------------------------------
LEMMA SomeDevice == Devices # {} /\ IdleFlow.dev \in Devices
<1>1. PICK v \in Variants : TRUE
  BY RuleStoreAssumption
<1>2. Def[v].trigger \in Devices
  BY <1>1, RuleEngineAssumption
<1>3. (CHOOSE d \in Devices : TRUE) \in Devices
  BY <1>2
<1>4. QED
  BY <1>2, <1>3 DEF IdleFlow

LEMMA IdleFlowIs ==
  /\ IdleFlow \in Flow /\ IdleFlow.pc = "idle" /\ IdleFlow.todo = {}
  /\ IdleFlow.rule = NoRule /\ IdleFlow.idx = 1 /\ IdleFlow.attached
<1>1. /\ IdleFlow.dev \in Devices /\ EmptyCache \in [Rules -> Cached] /\ Never \in Stamps
  BY SomeDevice, RuleStoreAssumption DEF EmptyCache, Cached
<1>2. QED
  BY <1>1 DEF IdleFlow, Flow, PC

LEMMA NextCandidateIs ==
  ASSUME NEW f \in Flow
  PROVE  /\ NextCandidate(f) \in Flow
         /\ NextCandidate(f).rule = NoRule /\ NextCandidate(f).idx = 1
         /\ \/ f.todo = {} /\ NextCandidate(f) = IdleFlow
            \/ /\ f.todo # {} /\ NextCandidate(f).pc = "check"
               /\ NextCandidate(f).todo = f.todo
               /\ (NextCandidate(f).attached <=> f.attached)
               /\ NextCandidate(f).view = f.view
<1>1. CASE f.todo = {}
  BY <1>1, IdleFlowIs DEF NextCandidate
<1>2. CASE f.todo # {}
  <2>1. NextCandidate(f) = [f EXCEPT !.pc = "check", !.rule = NoRule, !.idx = 1, !.stamp = Never,
                                     !.dev = IdleFlow.dev, !.state = IdleFlow.state]
    BY <1>2 DEF NextCandidate
  <2>2. PICK d \in Devices, s \in {"on", "off"} : d = IdleFlow.dev /\ s = IdleFlow.state
    BY IdleFlowIs DEF Flow
  <2>3. NextCandidate(f) = [f EXCEPT !.pc = "check", !.rule = NoRule, !.idx = 1, !.stamp = Never,
                                     !.dev = d, !.state = s]
    BY <2>1, <2>2
  <2>4. Never \in Stamps
    BY RuleStoreAssumption
  <2>5. NextCandidate(f) = [pc |-> "check", dev |-> d, todo |-> f.todo, rule |-> NoRule,
                            idx |-> 1, attached |-> f.attached, view |-> f.view,
                            stamp |-> Never, state |-> s]
    BY <2>3 DEF Flow
  <2>6. QED
    BY <1>2, <2>4, <2>5 DEF Flow, PC
<1>3. QED
  BY <1>1, <1>2

\* A flow's step changes that flow only.
LEMMA FlowSteps ==
  ASSUME TypeOK, NEW e \in Threads, NEW g \in Flow, ev' = [ev EXCEPT ![e] = g]
  PROVE  /\ ev' \in [Threads -> Flow] /\ ev'[e] = g
         /\ \A k \in Threads \ {e} : ev'[k] = ev[k]
  BY DEF TypeOK

LEMMA ObjectType ==
  ASSUME TypeOK, NEW e \in Threads, NEW r \in Rules
  PROVE  /\ Object(e, r) \in Cached
         /\ Object(e, r) # NotCached => /\ Object(e, r).variant \in Variants
                                        /\ Object(e, r).last \in Stamps
<1>1. cache[r] \in Cached /\ ev[e].view[r] \in Cached
  BY DEF TypeOK, StoreTypeOK, Flow
<1>2. QED
  BY <1>1 DEF Object, Cached, Entry

LEMMA ActionsType ==
  ASSUME TypeOK, NEW e \in Threads, ev[e].rule \in Rules, Object(e, ev[e].rule) # NotCached
  PROVE  Actions(e) \in Seq(Target) /\ Actions(e) # <<>>
  BY ObjectType, RuleEngineAssumption DEF Actions

\* Stamps of firings are times.
LEMMA TimeIsStamp == Time \subseteq Stamps /\ Time \subseteq Nat /\ Never \notin Time
  BY RuleEngineAssumption DEF Time

\* The entries of the cache are still there, with the same definitions.
SameEntries ==
  \A r \in Rules : /\ cache'[r] = NotCached <=> cache[r] = NotCached
                   /\ cache[r] # NotCached => cache'[r].variant = cache[r].variant

LEMMA SameObject ==
  ASSUME SameEntries, NEW e \in Threads, NEW r \in Rules,
         (ev'[e].attached <=> ev[e].attached), ev'[e].view = ev[e].view
  PROVE  /\ Object(e, r)' = NotCached <=> Object(e, r) = NotCached
         /\ Object(e, r) # NotCached => Object(e, r)'.variant = Object(e, r).variant
  BY DEF SameEntries, Object

LEMMA SameActions ==
  ASSUME SameEntries, NEW e \in Threads, ev[e].rule \in Rules,
         Object(e, ev[e].rule) # NotCached, ev'[e].rule = ev[e].rule,
         (ev'[e].attached <=> ev[e].attached), ev'[e].view = ev[e].view
  PROVE  Actions(e)' = Actions(e)
<1>1. PICK r \in Rules : r = ev[e].rule
  OBVIOUS
<1>2. Object(e, r)'.variant = Object(e, r).variant
  BY <1>1, SameObject
<1>3. Actions(e)' = Def[Object(e, r)'.variant].actions /\ Actions(e) = Def[Object(e, r).variant].actions
  BY <1>1 DEF Actions, Object
<1>4. QED
  BY <1>2, <1>3

\* A flow that does nothing holds what it held.
LEMMA OthersHold ==
  ASSUME SameEntries, NEW k \in Threads, Holds(k), ev'[k] = ev[k], ev[k].todo \subseteq Rules,
         ev[k].rule \in Rules \cup {NoRule}
  PROVE  Holds(k)'
<1>1. \A r \in Held(k) : r \in Rules /\ Object(k, r)' # NotCached
  BY SameObject DEF Holds, Held
<1>2. ev[k].rule \in Rules => Actions(k)' = Actions(k)
  BY SameActions, RuleEngineAssumption DEF Holds, Held
<1>3. QED
  BY <1>1, <1>2 DEF Holds, Held

\* Flow e moves and the others stand.
Moves(e) ==
  /\ ev' \in [Threads -> Flow]
  /\ \A k \in Threads \ {e} : ev'[k] = ev[k]

LEMMA MovesHold ==
  ASSUME EngineInv, NEW e \in Threads, SameEntries, Moves(e), Holds(e)'
  PROVE  HoldsEntries'
<1>1. ASSUME NEW k \in Threads \ {e}
      PROVE  Holds(k)'
  <2>1. ev[k] \in Flow /\ Holds(k) /\ ev'[k] = ev[k]
    BY DEF EngineInv, TypeOK, HoldsEntries, Moves
  <2>2. QED
    BY <2>1, OthersHold DEF Flow
<1>2. QED
  BY <1>1 DEF HoldsEntries

\* A flow keeps its rule and moves within the rule's evaluation.
Continues(e) ==
  /\ Moves(e)
  /\ ev'[e].rule = ev[e].rule /\ ev'[e].todo = ev[e].todo
  /\ (ev'[e].attached <=> ev[e].attached) /\ ev'[e].view = ev[e].view
  /\ ev[e].pc \notin {"idle", "start", "check"}
  /\ ev'[e].pc \in {"publish"} \/ ev[e].rule \in Rules
  /\ ev'[e].pc \notin {"idle", "start", "check"}
  /\ ev[e].rule \in Rules /\ ev'[e].pc \in Passed =>
       ev[e].pc \in Passed /\ ev'[e].idx \in DOMAIN Actions(e)

LEMMA ContinuesHolds ==
  ASSUME EngineInv, NEW e \in Threads, SameEntries, Continues(e)
  PROVE  HoldsEntries'
<1>1. ev[e] \in Flow /\ Holds(e)
  BY DEF EngineInv, TypeOK, HoldsEntries
<1>2. \A r \in Held(e) : r \in Rules /\ Object(e, r)' # NotCached
  BY <1>1, SameObject DEF Holds, Held, Continues, Flow
<1>3. ev[e].rule \in Rules => Actions(e)' = Actions(e)
  BY <1>1, SameActions, RuleEngineAssumption DEF Holds, Held, Continues
<1>4. Holds(e)'
  BY <1>1, <1>2, <1>3 DEF Holds, Held, Continues, Firing, Passed
<1>5. QED
  BY <1>4, MovesHold DEF Continues

\* A flow lets its rule go: the next candidate, or the end.
LetsGo(e) ==
  /\ Moves(e)
  /\ ev'[e].rule = NoRule
  /\ \/ ev'[e] = IdleFlow
     \/ /\ ev'[e].pc = "check" /\ ev'[e].idx = 1
        /\ (ev'[e].attached <=> ev[e].attached) /\ ev'[e].view = ev[e].view
        /\ \A r \in ev'[e].todo : r \in Rules /\ Object(e, r) # NotCached

LEMMA LetsGoHolds ==
  ASSUME EngineInv, NEW e \in Threads, SameEntries, LetsGo(e)
  PROVE  HoldsEntries'
<1>1. CASE ev'[e] = IdleFlow
  <2>1. Holds(e)'
    BY <1>1, IdleFlowIs, RuleEngineAssumption DEF Holds, Held, Firing, Passed
  <2>2. QED
    BY <2>1, MovesHold DEF LetsGo
<1>2. CASE ev'[e] # IdleFlow
  <2>1. \A r \in ev'[e].todo : Object(e, r)' # NotCached
    BY <1>2, SameObject DEF LetsGo
  <2>2. Holds(e)'
    BY <1>2, <2>1, RuleEngineAssumption DEF Holds, Held, LetsGo, Firing, Passed
  <2>3. QED
    BY <2>2, MovesHold DEF LetsGo
<1>3. QED
  BY <1>1, <1>2

-----------------------------------------------------------------------------
\* What each step does to the flow that takes it.
LEMMA EvaluateMoves ==
  ASSUME EngineInv, NEW e \in Threads, Evaluate(e)
  PROVE  LetsGo(e) /\ ev[e].pc = "start" /\ ev[e].rule = NoRule
<1>1. TypeOK /\ Holds(e) /\ ev[e] \in Flow /\ ev[e].pc = "start"
  BY DEF EngineInv, HoldsEntries, TypeOK, Evaluate
<1>2. ev[e].attached /\ ev[e].rule = NoRule
  BY <1>1 DEF Holds
<1>3. PICK candidates \in SUBSET Rules :
        /\ \A r \in candidates : cache[r] # NotCached
        /\ ev' = [ev EXCEPT ![e] = NextCandidate([ev[e] EXCEPT !.todo = candidates])]
  <2>1. {r \in Rules : /\ cache[r] # NotCached
                       /\ Def[cache[r].variant].trigger = ev[e].dev} \in SUBSET Rules
    OBVIOUS
  <2>2. QED
    BY <2>1 DEF Evaluate
<1> DEFINE f == [ev[e] EXCEPT !.todo = candidates]
<1>4. /\ f \in Flow /\ f.todo = candidates
      /\ (f.attached <=> ev[e].attached) /\ f.view = ev[e].view
  BY <1>1 DEF Flow
<1>5. ev' = [ev EXCEPT ![e] = NextCandidate(f)]
  BY <1>3
<1> HIDE DEF f
<1>6. Moves(e) /\ ev'[e] = NextCandidate(f)
  BY <1>1, <1>4, <1>5, NextCandidateIs, FlowSteps DEF Moves
<1>7. \A r \in candidates : Object(e, r) # NotCached
  BY <1>2, <1>3 DEF Object
<1>8. QED
  BY <1>1, <1>2, <1>4, <1>6, <1>7, NextCandidateIs DEF LetsGo

\* Whoever goes on to the next candidate lets its rule go.
LEMMA NextMoves ==
  ASSUME EngineInv, NEW e \in Threads, NEW f \in Flow, f.todo \subseteq ev[e].todo,
         (f.attached <=> ev[e].attached), f.view = ev[e].view,
         ev' = [ev EXCEPT ![e] = NextCandidate(f)]
  PROVE  LetsGo(e)
<1>1. TypeOK /\ Holds(e) /\ ev[e] \in Flow
  BY DEF EngineInv, HoldsEntries, TypeOK
<1>2. Moves(e) /\ ev'[e] = NextCandidate(f)
  BY <1>1, NextCandidateIs, FlowSteps DEF Moves
<1>3. \A r \in ev[e].todo : r \in Rules /\ Object(e, r) # NotCached
  BY <1>1 DEF Holds, Held, Flow
<1>4. QED
  BY <1>2, <1>3, NextCandidateIs DEF LetsGo

LEMMA SkipRuleMoves ==
  ASSUME EngineInv, NEW e \in Threads, NEW r \in Rules, SkipRule(e, r)
  PROVE  LetsGo(e) /\ ev[e].pc = "check" /\ ev[e].rule = NoRule
<1>1. Holds(e) /\ ev[e] \in Flow /\ ev[e].pc = "check"
  BY DEF EngineInv, HoldsEntries, TypeOK, SkipRule
<1> DEFINE f == [ev[e] EXCEPT !.todo = ev[e].todo \ {r}]
<1>2. /\ f \in Flow /\ f.todo = ev[e].todo \ {r}
      /\ (f.attached <=> ev[e].attached) /\ f.view = ev[e].view
  BY <1>1 DEF Flow
<1>3. ev' = [ev EXCEPT ![e] = NextCandidate(f)]
  BY DEF SkipRule
<1> HIDE DEF f
<1>4. QED
  BY <1>1, <1>2, <1>3, NextMoves DEF Holds

LEMMA PassCooldownMoves ==
  ASSUME EngineInv, NEW e \in Threads, NEW r \in Rules, PassCooldown(e, r)
  PROVE  /\ Moves(e) /\ HoldsEntries'
         /\ ev[e].pc = "check" /\ ev[e].rule = NoRule
         /\ ev'[e].pc = "conditions" /\ ev'[e].rule = r
         /\ (ev'[e].attached <=> ev[e].attached) /\ ev'[e].view = ev[e].view
         /\ Object(e, r) # NotCached /\ cache' = cache
<1>1. TypeOK /\ Holds(e) /\ ev[e] \in Flow /\ ev[e].pc = "check" /\ r \in ev[e].todo
  BY DEF EngineInv, HoldsEntries, TypeOK, PassCooldown
<1>2. ev' = [ev EXCEPT ![e].pc = "conditions", ![e].rule = r, ![e].todo = @ \ {r}]
      /\ cache' = cache
  BY DEF PassCooldown, storeVars
<1> DEFINE f == [ev[e] EXCEPT !.pc = "conditions", !.rule = r, !.todo = ev[e].todo \ {r}]
<1>3. ev' = [ev EXCEPT ![e] = f]
  BY <1>1, <1>2 DEF TypeOK, Flow
<1>4. /\ f \in Flow
      /\ f.pc = "conditions" /\ f.rule = r /\ f.todo = ev[e].todo \ {r}
      /\ (f.attached <=> ev[e].attached) /\ f.view = ev[e].view
      /\ f.idx = ev[e].idx
  BY <1>1 DEF Flow, PC
<1> HIDE DEF f
<1>5. Moves(e) /\ ev'[e] = f
  BY <1>1, <1>3, <1>4, FlowSteps DEF Moves
<1>6. SameEntries
  BY <1>2 DEF SameEntries
<1>7. \A q \in ev[e].todo : q \in Rules /\ Object(e, q) # NotCached
  BY <1>1 DEF Holds, Held, Flow
<1>8. \A q \in Held(e)' : Object(e, q)' # NotCached
  <2>1. \A q \in Held(e)' : q \in ev[e].todo
    BY <1>1, <1>4, <1>5 DEF Held
  <2>2. QED
    BY <1>4, <1>5, <1>6, <1>7, <2>1, SameObject
<1>9. ev'[e].idx \in DOMAIN Actions(e)'
  <2>1. Object(e, r) # NotCached /\ Object(e, r).variant \in Variants
    BY <1>1, <1>7, ObjectType
  <2>2. Object(e, r)' # NotCached /\ Object(e, r)'.variant = Object(e, r).variant
    BY <1>4, <1>5, <1>6, <2>1, SameObject
  <2>3. Actions(e)' = Def[Object(e, r)'.variant].actions
    BY <1>4, <1>5 DEF Actions, Object
  <2>4. Actions(e)' \in Seq(Target) /\ Actions(e)' # <<>>
    BY <2>1, <2>2, <2>3, RuleEngineAssumption
  <2>5. ev'[e].idx = 1
    BY <1>1, <1>4, <1>5 DEF Holds
  <2>6. QED
    BY <2>4, <2>5
<1>10. Holds(e)'
  BY <1>4, <1>5, <1>8, <1>9 DEF Holds, Firing, Passed
<1>11. ev[e].rule = NoRule
  BY <1>1 DEF Holds
<1>12. QED
  BY <1>1, <1>2, <1>4, <1>5, <1>6, <1>7, <1>10, <1>11, MovesHold

LEMMA ConditionsMoves ==
  ASSUME EngineInv, NEW e \in Threads, NEW passed \in BOOLEAN, Conditions(e, passed)
  PROVE  /\ ev[e].pc = "conditions" /\ ev[e].rule \in Rules
         /\ \/ /\ Continues(e) /\ ev'[e].pc = "target" /\ ev'[e].idx = ev[e].idx
               /\ ev'[e].stamp = ev[e].stamp
            \/ LetsGo(e)
<1>1. TypeOK /\ Holds(e) /\ ev[e] \in Flow /\ ev[e].pc = "conditions" /\ ev[e].rule \in Rules
  BY DEF EngineInv, HoldsEntries, TypeOK, Conditions, Holds
<1>2. CASE passed
  <2> DEFINE f == [ev[e] EXCEPT !.pc = "target"]
  <2>1. ev' = [ev EXCEPT ![e] = f]
    BY <1>2 DEF Conditions
  <2>2. /\ f \in Flow
        /\ f.pc = "target" /\ f.rule = ev[e].rule /\ f.todo = ev[e].todo
        /\ (f.attached <=> ev[e].attached) /\ f.view = ev[e].view
        /\ f.idx = ev[e].idx /\ f.stamp = ev[e].stamp
    BY <1>1 DEF Flow, PC
  <2> HIDE DEF f
  <2>3. Moves(e) /\ ev'[e] = f
    BY <1>1, <2>1, <2>2, FlowSteps DEF Moves
  <2>4. QED
    BY <1>1, <1>2, <2>2, <2>3 DEF Continues, Holds, Passed
<1>3. CASE ~passed
  <2>1. ev' = [ev EXCEPT ![e] = NextCandidate(ev[e])]
    BY <1>3 DEF Conditions
  <2>2. QED
    BY <1>1, <1>3, <2>1, NextMoves
<1>4. QED
  BY <1>1, <1>2, <1>3

\* A step within a rule's evaluation that only changes where the flow is.
LEMMA OnlyPC ==
  ASSUME EngineInv, NEW e \in Threads, NEW pc \in PC,
         ev' = [ev EXCEPT ![e].pc = pc] \/ ev' = [ev EXCEPT ![e] = [ev[e] EXCEPT !.pc = pc]]
  PROVE  /\ Moves(e) /\ ev'[e].pc = pc
         /\ ev'[e].rule = ev[e].rule /\ ev'[e].todo = ev[e].todo
         /\ (ev'[e].attached <=> ev[e].attached) /\ ev'[e].view = ev[e].view
         /\ ev'[e].idx = ev[e].idx /\ ev'[e].stamp = ev[e].stamp
         /\ ev'[e].dev = ev[e].dev /\ ev'[e].state = ev[e].state
<1>1. TypeOK /\ ev[e] \in Flow
  BY DEF EngineInv, TypeOK
<1> DEFINE f == [ev[e] EXCEPT !.pc = pc]
<1>2. ev' = [ev EXCEPT ![e] = f]
  BY <1>1 DEF TypeOK
<1>3. /\ f \in Flow
      /\ f.pc = pc /\ f.rule = ev[e].rule /\ f.todo = ev[e].todo
      /\ (f.attached <=> ev[e].attached) /\ f.view = ev[e].view
      /\ f.idx = ev[e].idx /\ f.stamp = ev[e].stamp
      /\ f.dev = ev[e].dev /\ f.state = ev[e].state
  BY <1>1 DEF Flow
<1> HIDE DEF f
<1>4. QED
  BY <1>1, <1>2, <1>3, FlowSteps DEF Moves

\* The action loop: the flow is at one of the rule's actions.
LEMMA AtAnAction ==
  ASSUME EngineInv, NEW e \in Threads, ev[e].rule \in Rules, ev[e].pc \in Passed
  PROVE  /\ Actions(e) \in Seq(Target) /\ ev[e].idx \in 1 .. Len(Actions(e))
         /\ Len(Actions(e)) \in Nat
         /\ Actions(e)[ev[e].idx] \in Target
         /\ Object(e, ev[e].rule) # NotCached
<1>1. TypeOK /\ Holds(e)
  BY DEF EngineInv, HoldsEntries
<1>2. Object(e, ev[e].rule) # NotCached
  BY <1>1, RuleEngineAssumption DEF Holds, Held
<1>3. Actions(e) \in Seq(Target) /\ ev[e].idx \in DOMAIN Actions(e)
  BY <1>1, <1>2, ActionsType DEF Holds
<1>4. QED
  BY <1>2, <1>3

LEMMA FinishActionMoves ==
  ASSUME EngineInv, NEW e \in Threads, FinishAction(e), ev[e].pc \in {"target", "publish"},
         ev[e].rule \in Rules
  PROVE  /\ Continues(e)
         /\ \/ /\ ev[e].idx = Len(Actions(e)) /\ ev'[e].pc = "row" /\ ev'[e].stamp = now
               /\ fired' = [fired EXCEPT ![ev[e].rule] = now]
               /\ tooSoon' = IF /\ fired[ev[e].rule] # Never
                                /\ now - fired[ev[e].rule]
                                     < Def[Object(e, ev[e].rule).variant].cooldown
                             THEN tooSoon \cup {ev[e].rule} ELSE tooSoon
            \/ /\ ev[e].idx # Len(Actions(e)) /\ ev'[e].pc = "target"
               /\ fired' = fired /\ tooSoon' = tooSoon
<1>1. TypeOK /\ ev[e] \in Flow /\ ev[e].pc \in Passed /\ now \in Stamps
  BY TimeIsStamp DEF EngineInv, TypeOK, Passed
<1>2. /\ ev[e].idx \in 1 .. Len(Actions(e)) /\ Len(Actions(e)) \in Nat
      /\ DOMAIN Actions(e) = 1 .. Len(Actions(e))
  BY <1>1, AtAnAction
<1>3. CASE ev[e].idx = Len(Actions(e))
  <2> DEFINE f == [ev[e] EXCEPT !.pc = "row", !.stamp = now]
  <2>1. ev' = [ev EXCEPT ![e] = f]
    BY <1>3 DEF FinishAction
  <2>2. /\ f \in Flow
        /\ f.pc = "row" /\ f.rule = ev[e].rule /\ f.todo = ev[e].todo
        /\ (f.attached <=> ev[e].attached) /\ f.view = ev[e].view
        /\ f.stamp = now
    BY <1>1 DEF Flow, PC
  <2> HIDE DEF f
  <2>3. Moves(e) /\ ev'[e] = f
    BY <1>1, <2>1, <2>2, FlowSteps DEF Moves
  <2>4. Continues(e)
    BY <1>1, <2>2, <2>3 DEF Continues, Passed
  <2>5. fired' = [fired EXCEPT ![ev[e].rule] = now]
    BY <1>3 DEF FinishAction
  <2>6. tooSoon' = IF /\ fired[ev[e].rule] # Never
                      /\ now - fired[ev[e].rule] < Def[Object(e, ev[e].rule).variant].cooldown
                   THEN tooSoon \cup {ev[e].rule} ELSE tooSoon
    BY <1>3, Zenon DEF FinishAction
  <2>7. QED
    BY <1>3, <2>2, <2>3, <2>4, <2>5, <2>6
<1>4. CASE ev[e].idx # Len(Actions(e))
  <2>0. PICK n \in Nat : n = ev[e].idx + 1
    BY <1>1 DEF Flow
  <2> DEFINE f == [ev[e] EXCEPT !.pc = "target", !.idx = n]
  <2>1. ev' = [ev EXCEPT ![e] = f]
    BY <1>4, <2>0 DEF FinishAction
  <2>2. /\ f \in Flow
        /\ f.pc = "target" /\ f.rule = ev[e].rule /\ f.todo = ev[e].todo
        /\ (f.attached <=> ev[e].attached) /\ f.view = ev[e].view
        /\ f.idx = n
    BY <1>1 DEF Flow, PC
  <2> HIDE DEF f
  <2>3. Moves(e) /\ ev'[e] = f
    BY <1>1, <2>1, <2>2, FlowSteps DEF Moves
  <2>4. f.idx \in DOMAIN Actions(e)
    BY <1>2, <1>4, <2>0, <2>2
  <2>5. Continues(e)
    BY <1>1, <2>2, <2>3, <2>4 DEF Continues, Passed
  <2>6. fired' = fired /\ tooSoon' = tooSoon
    BY <1>4 DEF FinishAction
  <2>7. QED
    BY <1>4, <2>2, <2>3, <2>5, <2>6
<1>5. QED
  BY <1>3, <1>4

LEMMA TakeActionMoves ==
  ASSUME EngineInv, NEW e \in Threads, NEW readable \in BOOLEAN, TakeAction(e, readable)
  PROVE  /\ Continues(e) /\ ev[e].pc = "target" /\ ev[e].rule \in Rules
         /\ ev'[e].pc = "insert" /\ ev'[e].stamp = ev[e].stamp
<1>1. TypeOK /\ Holds(e) /\ ev[e] \in Flow /\ ev[e].pc = "target" /\ ev[e].rule \in Rules
  BY DEF EngineInv, HoldsEntries, TypeOK, TakeAction, Holds
<1>2. PICK a \in Target : a = Actions(e)[ev[e].idx] /\ ev[e].idx \in DOMAIN Actions(e)
  BY <1>1, AtAnAction DEF Passed
<1>3. ev' = [ev EXCEPT ![e].pc = "insert", ![e].dev = a.dev, ![e].state = a.state]
  BY <1>2 DEF TakeAction
<1> DEFINE f == [ev[e] EXCEPT !.pc = "insert", !.dev = a.dev, !.state = a.state]
<1>4. ev' = [ev EXCEPT ![e] = f]
  BY <1>1, <1>3 DEF TypeOK, Flow
<1>5. /\ f \in Flow
      /\ f.pc = "insert" /\ f.rule = ev[e].rule /\ f.todo = ev[e].todo
      /\ (f.attached <=> ev[e].attached) /\ f.view = ev[e].view
      /\ f.idx = ev[e].idx /\ f.stamp = ev[e].stamp
  BY <1>1 DEF Flow, PC, Target
<1> HIDE DEF f
<1>6. Moves(e) /\ ev'[e] = f
  BY <1>1, <1>4, <1>5, FlowSteps DEF Moves
<1>7. QED
  BY <1>1, <1>2, <1>5, <1>6 DEF Continues, Passed

\* A flow starts from nothing.
LEMMA StartMoves ==
  ASSUME EngineInv, NEW e \in Threads, NEW pc \in {"start", "insert"}, NEW d \in Devices,
         NEW s \in {"on", "off"}, SameEntries,
         \/ ev' = [ev EXCEPT ![e] = [IdleFlow EXCEPT !.pc = pc, !.dev = d, !.state = s]]
         \/ ev' = [ev EXCEPT ![e] = [IdleFlow EXCEPT !.pc = pc, !.dev = d]]
  PROVE  /\ Moves(e) /\ HoldsEntries'
         /\ ev'[e].pc = pc /\ ev'[e].rule = NoRule /\ ev'[e].dev = d
<1>1. TypeOK
  BY DEF EngineInv
<1>2. PICK f \in Flow : /\ ev' = [ev EXCEPT ![e] = f]
                        /\ f.pc = pc /\ f.rule = NoRule /\ f.dev = d /\ f.todo = {}
                        /\ f.idx = 1 /\ f.attached
  <2> DEFINE f == [IdleFlow EXCEPT !.pc = pc, !.dev = d, !.state = s]
  <2> DEFINE g == [IdleFlow EXCEPT !.pc = pc, !.dev = d]
  <2>1. /\ f \in Flow /\ f.pc = pc /\ f.rule = NoRule /\ f.dev = d /\ f.todo = {}
        /\ f.idx = 1 /\ f.attached
    BY IdleFlowIs DEF Flow, PC
  <2>2. /\ g \in Flow /\ g.pc = pc /\ g.rule = NoRule /\ g.dev = d /\ g.todo = {}
        /\ g.idx = 1 /\ g.attached
    BY IdleFlowIs DEF Flow, PC
  <2>3. ev' = [ev EXCEPT ![e] = f] \/ ev' = [ev EXCEPT ![e] = g]
    OBVIOUS
  <2> HIDE DEF f, g
  <2>4. QED
    BY <2>1, <2>2, <2>3, Zenon
<1>3. Moves(e) /\ ev'[e] = f
  BY <1>1, <1>2, FlowSteps DEF Moves
<1>4. Holds(e)'
  BY <1>2, <1>3, RuleEngineAssumption DEF Holds, Held, Firing, Passed
<1>5. QED
  BY <1>2, <1>3, <1>4, MovesHold

LEMMA IdleMoves ==
  ASSUME EngineInv, NEW e \in Threads, ev' = [ev EXCEPT ![e] = IdleFlow]
  PROVE  LetsGo(e)
  BY FlowSteps, IdleFlowIs DEF EngineInv, Moves, LetsGo

LEMMA UnchangedEntries == ASSUME cache' = cache PROVE SameEntries
  BY DEF SameEntries

LEMMA InsertLogMoves ==
  ASSUME EngineInv, NEW e \in Threads, InsertLog(e)
  PROVE  /\ Continues(e) /\ ev[e].pc = "insert" /\ ev'[e].pc = "publish"
         /\ ev'[e].dev = ev[e].dev /\ ev'[e].state = ev[e].state
         /\ ev'[e].stamp = ev[e].stamp
<1>1. TypeOK /\ Holds(e) /\ ev[e] \in Flow /\ ev[e].pc = "insert"
  BY DEF EngineInv, HoldsEntries, TypeOK, InsertLog
<1>2. ev' = [ev EXCEPT ![e].pc = "publish"] /\ "publish" \in PC
  BY DEF InsertLog, PC
<1>3. QED
  BY <1>1, <1>2, OnlyPC DEF Continues, Holds, Passed

LEMMA InsertFailsMoves ==
  ASSUME EngineInv, NEW e \in Threads, InsertFails(e)
  PROVE  /\ ev[e].pc = "insert"
         /\ \/ ev[e].rule = NoRule /\ LetsGo(e)
            \/ Continues(e) /\ ev'[e].pc = "failed"
<1>1. TypeOK /\ Holds(e) /\ ev[e] \in Flow /\ ev[e].pc = "insert" /\ "failed" \in PC
  BY DEF EngineInv, HoldsEntries, TypeOK, InsertFails, PC
<1>2. CASE ev[e].rule = NoRule
  <2>1. ev' = [ev EXCEPT ![e] = IdleFlow]
    BY <1>2 DEF InsertFails
  <2>2. QED
    BY <1>1, <1>2, <2>1, IdleMoves
<1>3. CASE ev[e].rule # NoRule
  <2>1. ev' = [ev EXCEPT ![e] = [ev[e] EXCEPT !.pc = "failed"]]
    BY <1>3 DEF InsertFails
  <2>2. /\ Moves(e) /\ ev'[e].pc = "failed"
        /\ ev'[e].rule = ev[e].rule /\ ev'[e].todo = ev[e].todo
        /\ (ev'[e].attached <=> ev[e].attached) /\ ev'[e].view = ev[e].view
    BY <1>1, <2>1, OnlyPC, Zenon
  <2>3. ev[e].rule \in Rules
    BY <1>1, <1>3 DEF Flow
  <2>4. QED
    BY <1>1, <2>2, <2>3 DEF Continues, Passed
<1>4. QED
  BY <1>2, <1>3

LEMMA PublishMoves ==
  ASSUME EngineInv, NEW e \in Threads, Publish(e)
  PROVE  /\ ev[e].pc = "publish"
         /\ \/ ev[e].rule = NoRule /\ LetsGo(e) /\ ev'[e] = IdleFlow
                 /\ fired' = fired /\ tooSoon' = tooSoon
            \/ ev[e].rule \in Rules /\ FinishAction(e)
<1>1. ev[e] \in Flow /\ ev[e].pc = "publish" /\ IdleFlow \in Flow
  BY IdleFlowIs DEF EngineInv, TypeOK, Publish
<1>2. CASE ev[e].rule = NoRule
  <2>1. ev' = [ev EXCEPT ![e] = IdleFlow] /\ fired' = fired /\ tooSoon' = tooSoon
    BY <1>2 DEF Publish
  <2>2. QED
    BY <1>1, <1>2, <2>1, IdleMoves, FlowSteps DEF EngineInv
<1>3. CASE ev[e].rule # NoRule
  BY <1>1, <1>3 DEF Publish, Flow
<1>4. QED
  BY <1>2, <1>3

\* The steps of a firing after the last action, and their failures.
LEMMA FiringMoves ==
  ASSUME EngineInv, NEW e \in Threads, NEW pc \in {"touch", "audit", "failed"},
         ev[e].pc \in Firing, ev' = [ev EXCEPT ![e].pc = pc]
  PROVE  /\ Continues(e) /\ ev[e].rule \in Rules
         /\ ev'[e].pc = pc /\ ev'[e].stamp = ev[e].stamp
<1>1. TypeOK /\ Holds(e) /\ ev[e] \in Flow /\ pc \in PC
  BY DEF EngineInv, HoldsEntries, TypeOK, PC
<1>2. ev[e].rule \in Rules
  BY <1>1 DEF Holds
<1>3. QED
  BY <1>1, <1>2, OnlyPC DEF Continues, Firing, Passed

LEMMA LastMoves ==
  ASSUME EngineInv, NEW e \in Threads, ev' = [ev EXCEPT ![e] = NextCandidate(ev[e])]
  PROVE  LetsGo(e)
<1>1. ev[e] \in Flow
  BY DEF EngineInv, TypeOK
<1>2. QED
  BY <1>1, NextMoves

LEMMA TouchIs ==
  ASSUME EngineInv, NEW e \in Threads, TouchLastTriggered(e)
  PROVE  /\ ev[e].pc = "touch" /\ ev[e].rule \in Rules
         /\ \A r \in Rules \ {ev[e].rule} : cache'[r] = cache[r]
         /\ cache[ev[e].rule] = NotCached => cache'[ev[e].rule] = NotCached
         /\ cache[ev[e].rule] # NotCached => cache'[ev[e].rule].last = ev[e].stamp
         /\ cache' \in [Rules -> Cached]
         /\ SameEntries
<1>1. TypeOK /\ Holds(e) /\ ev[e] \in Flow /\ ev[e].pc = "touch"
  BY DEF EngineInv, HoldsEntries, TypeOK, TouchLastTriggered
<1>2. PICK r \in Rules : r = ev[e].rule
  BY <1>1 DEF Holds, Firing
<1>3. PICK s \in Stamps : s = ev[e].stamp
  BY <1>1 DEF Flow
<1>4. cache \in [Rules -> Cached]
  BY <1>1 DEF TypeOK, StoreTypeOK
<1>5. cache' = IF cache[r] = NotCached THEN cache ELSE [cache EXCEPT ![r].last = s]
  BY <1>2, <1>3 DEF TouchLastTriggered
<1>6. CASE cache[r] = NotCached
  BY <1>1, <1>2, <1>4, <1>5, <1>6 DEF SameEntries
<1>7. CASE cache[r] # NotCached
  <2>1. PICK v \in Variants, l \in Stamps : cache[r] = [variant |-> v, last |-> l]
    BY <1>4, <1>7 DEF Cached, Entry
  <2>2. cache' = [cache EXCEPT ![r] = [variant |-> v, last |-> s]]
    <3>1. [cache[r] EXCEPT !.last = s] = [variant |-> v, last |-> s]
      BY <2>1
    <3>2. cache' = [cache EXCEPT ![r] = [cache[r] EXCEPT !.last = s]]
      BY <1>5, <1>7
    <3>3. QED
      BY <3>1, <3>2
  <2>3. [variant |-> v, last |-> s] \in Cached /\ [variant |-> v, last |-> s] # NotCached
    BY RuleStoreAssumption DEF Cached, Entry
  <2>4. /\ cache' \in [Rules -> Cached] /\ cache'[r] = [variant |-> v, last |-> s]
        /\ \A q \in Rules \ {r} : cache'[q] = cache[q]
    BY <1>4, <2>2, <2>3
  <2>5. SameEntries
    BY <1>7, <2>1, <2>3, <2>4 DEF SameEntries
  <2>6. cache'[r].last = s
    BY <2>4
  <2>7. QED
    BY <1>1, <1>2, <1>3, <1>7, <2>4, <2>5, <2>6
<1>8. QED
  BY <1>6, <1>7

LEMMA LogRowIs ==
  ASSUME TypeOK, NEW d \in Devices, NEW v \in LogValue, LogRow(d, v)
  PROVE  /\ logs' \in [Devices -> SUBSET LogRows]
         /\ \A k \in Devices \ {d} : logs'[k] = logs[k]
         /\ logs'[d] = logs[d] \cup {[at |-> now, val |-> v]}
<1>1. [at |-> now, val |-> v] \in LogRows
  BY DEF TypeOK, LogRows
<1>2. QED
  BY <1>1 DEF LogRow, TypeOK

LEMMA EditLogIs ==
  ASSUME TypeOK, NEW d \in Devices, NEW x \in logs[d], NEW t \in Devices, NEW v \in LogValue,
         EditLog(d, x, t, v)
  PROVE  /\ logs' \in [Devices -> SUBSET LogRows]
         /\ \A k \in Devices \ {d, t} : logs'[k] = logs[k]
         /\ \A k \in Devices : \A y \in logs'[k] :
              y \in logs[k] \/ y.at = x.at
         /\ mixed' = mixed \cup {d, t}
<1>1. PICK others \in {logs[d], logs[d] \ {x}} :
        logs' = [logs EXCEPT ![d] = others, ![t] = @ \cup {[x EXCEPT !.val = v]}]
  BY Zenon DEF EditLog
<1>2. x \in LogRows
  BY DEF TypeOK
<1>3. PICK y \in LogRows : y = [x EXCEPT !.val = v] /\ y.at = x.at
  <2>1. x.at \in Time /\ [x EXCEPT !.val = v] = [at |-> x.at, val |-> v]
    BY <1>2 DEF LogRows
  <2>2. [at |-> x.at, val |-> v] \in LogRows
    BY <2>1 DEF LogRows
  <2>3. QED
    BY <2>1, <2>2, Zenon
<1>4. logs \in [Devices -> SUBSET LogRows] /\ others \subseteq logs[d]
  BY DEF TypeOK
<1>5. logs' = [logs EXCEPT ![d] = others, ![t] = @ \cup {y}]
  BY <1>1, <1>3
<1>6. mixed' = mixed \cup {d, t}
  BY Zenon DEF EditLog
<1>7. QED
  BY <1>3, <1>4, <1>5, <1>6

LEMMA RemoveLogIs ==
  ASSUME TypeOK, NEW d \in Devices, NEW x \in logs[d], RemoveLog(d, x)
  PROVE  /\ logs' \in [Devices -> SUBSET LogRows]
         /\ \A k \in Devices \ {d} : logs'[k] = logs[k]
         /\ \A k \in Devices : logs'[k] \subseteq logs[k]
         /\ mixed' = mixed \cup {d}
<1>1. PICK others \in {logs[d], logs[d] \ {x}} : logs' = [logs EXCEPT ![d] = others]
  BY Zenon DEF RemoveLog
<1>2. mixed' = mixed \cup {d}
  BY Zenon DEF RemoveLog
<1>3. QED
  BY <1>1, <1>2 DEF TypeOK

-----------------------------------------------------------------------------
\* The types of everything but the flows.
RestTypeOK ==
  /\ StoreTypeOK
  /\ now \in Time
  /\ logs \in [Devices -> SUBSET LogRows]
  /\ reported \in [Devices -> {"on", "off", "none"}]
  /\ lastCmd \in [Devices -> {"on", "off", "none"}]
  /\ fired \in [Rules -> Stamps]
  /\ audited \in [Rules -> Stamps]
  /\ tooSoon \subseteq Rules
  /\ disturbed \in [Rules -> SUBSET Disturbance]
  /\ mixed \subseteq Devices

LEMMA StoreSame == ASSUME StoreTypeOK, UNCHANGED storeVars PROVE StoreTypeOK'
  BY DEF StoreTypeOK, storeVars

LEMMA MarkedIs ==
  ASSUME TypeOK, NEW rs, NEW cause \in Disturbance
  PROVE  /\ Marked(rs, cause) \in [Rules -> SUBSET Disturbance]
         /\ \A r \in Rules : disturbed[r] \subseteq Marked(rs, cause)[r]
         /\ \A r \in Rules \cap rs : cause \in Marked(rs, cause)[r]
  BY DEF Marked, TypeOK

LEMMA UpdateFailsMarks ==
  ASSUME TypeOK, NEW e \in Threads, UpdateRowFails(e)
  PROVE  /\ disturbed' \in [Rules -> SUBSET Disturbance]
         /\ \A r \in Rules : disturbed[r] \subseteq disturbed'[r]
         /\ \A r \in Rules :
              ev[e].rule = r => "lostStamp" \in disturbed'[r] /\ "lostAudit" \in disturbed'[r]
<1>1. disturbed \in [Rules -> SUBSET Disturbance] /\ {"lostStamp", "lostAudit"} \subseteq Disturbance
  BY DEF TypeOK, Disturbance
<1>2. disturbed' = [disturbed EXCEPT ![ev[e].rule] = @ \cup {"lostStamp", "lostAudit"}]
  BY DEF UpdateRowFails
<1>3. QED
  BY <1>1, <1>2

LEMMA MovedHolds ==
  ASSUME EngineInv, NEW e \in Threads, Continues(e) \/ LetsGo(e), SameEntries, RestTypeOK'
  PROVE  EngineInv'
<1>1. HoldsEntries'
  BY ContinuesHolds, LetsGoHolds
<1>2. ev' \in [Threads -> Flow]
  BY DEF Continues, LetsGo, Moves
<1>3. QED
  BY <1>1, <1>2 DEF EngineInv, TypeOK, RestTypeOK

LEMMA QuietHolds ==
  ASSUME EngineInv, NEW e \in Threads, Continues(e) \/ LetsGo(e),
         UNCHANGED <<storeVars, now, logs, reported, lastCmd, fired, audited, histVars>>
  PROVE  EngineInv'
<1>1. SameEntries
  BY UnchangedEntries DEF storeVars
<1>2. RestTypeOK'
  BY StoreSame DEF EngineInv, TypeOK, RestTypeOK, histVars
<1>3. QED
  BY <1>1, <1>2, MovedHolds

LEMMA FinishTypes ==
  ASSUME EngineInv, NEW e \in Threads, FinishAction(e), ev[e].pc \in {"target", "publish"},
         ev[e].rule \in Rules
  PROVE  fired' \in [Rules -> Stamps] /\ tooSoon' \subseteq Rules
<1>1. fired \in [Rules -> Stamps] /\ tooSoon \subseteq Rules /\ now \in Stamps
  BY TimeIsStamp DEF EngineInv, TypeOK
<1>2. PICK r \in Rules : r = ev[e].rule
  OBVIOUS
<1>3. \/ fired' = [fired EXCEPT ![r] = now] /\ tooSoon' \in {tooSoon \cup {r}, tooSoon}
      \/ fired' = fired /\ tooSoon' = tooSoon
  BY <1>2, FinishActionMoves
<1>4. QED
  BY <1>1, <1>3

LEMMA TouchHolds ==
  ASSUME EngineInv, NEW e \in Threads, TouchLastTriggered(e)
  PROVE  EngineInv'
<1>1. Continues(e) /\ SameEntries /\ cache' \in [Rules -> Cached]
  BY FiringMoves, TouchIs DEF TouchLastTriggered, Firing
<1>2. StoreTypeOK'
  BY <1>1 DEF TouchLastTriggered, EngineInv, TypeOK, StoreTypeOK
<1>3. RestTypeOK'
  BY <1>2 DEF TouchLastTriggered, EngineInv, TypeOK, RestTypeOK, histVars
<1>4. QED
  BY <1>1, <1>3, MovedHolds

LEMMA UpdateRowIs ==
  ASSUME EngineInv, NEW e \in Threads, UpdateRow(e)
  PROVE  /\ Continues(e) /\ ev[e].pc = "row" /\ ev[e].rule \in Rules /\ ev'[e].pc = "touch"
         /\ ev'[e].stamp = ev[e].stamp
         /\ rules' \in [Rules -> Row]
         /\ \A r \in Rules \ {ev[e].rule} : rules'[r] = rules[r]
         /\ \A r \in Rules : rules'[r].status = rules[r].status
         /\ \/ rules'[ev[e].rule].last = ev[e].stamp /\ Live(ev[e].rule)
                 /\ disturbed' = disturbed
            \/ rules' = rules /\ disturbed' = Marked({ev[e].rule}, "lostStamp")
<1>1. Continues(e) /\ ev[e].pc = "row" /\ ev[e].rule \in Rules /\ ev'[e].pc = "touch"
      /\ ev'[e].stamp = ev[e].stamp
  BY FiringMoves DEF UpdateRow, Firing
<1>2. PICK r \in Rules, s \in Stamps : r = ev[e].rule /\ s = ev[e].stamp
  BY <1>1 DEF EngineInv, TypeOK, Flow
<1>3. rules \in [Rules -> Row]
  BY DEF EngineInv, TypeOK, StoreTypeOK
<1>4. CASE Live(r)
  <2> DEFINE row == [rules[r] EXCEPT !.last = s]
  <2>1. rules' = [rules EXCEPT ![r] = row]
    BY <1>2, <1>4 DEF UpdateRow
  <2>2. row \in Row /\ row.last = s /\ row.status = rules[r].status
    BY <1>3 DEF Row
  <2> HIDE DEF row
  <2>3. disturbed' = disturbed
    BY <1>2, <1>4 DEF UpdateRow
  <2>4. QED
    BY <1>1, <1>2, <1>3, <1>4, <2>1, <2>2, <2>3
<1>5. CASE ~Live(r)
  <2>1. rules' = rules /\ disturbed' = Marked({r}, "lostStamp")
    BY <1>2, <1>5 DEF UpdateRow
  <2>2. QED
    BY <1>1, <1>2, <1>3, <2>1
<1>6. QED
  BY <1>4, <1>5

LEMMA UpdateRowHolds ==
  ASSUME EngineInv, NEW e \in Threads, UpdateRow(e)
  PROVE  EngineInv'
<1>1. SameEntries
  BY UnchangedEntries DEF UpdateRow
<1>2. StoreTypeOK'
  BY UpdateRowIs DEF UpdateRow, EngineInv, TypeOK, StoreTypeOK
<1>3. disturbed' \in [Rules -> SUBSET Disturbance]
  <2>1. disturbed' = disturbed \/ disturbed' = Marked({ev[e].rule}, "lostStamp")
    BY UpdateRowIs
  <2>2. TypeOK /\ disturbed \in [Rules -> SUBSET Disturbance] /\ "lostStamp" \in Disturbance
    BY DEF EngineInv, TypeOK, Disturbance
  <2>3. QED
    BY <2>1, <2>2, MarkedIs
<1>4. RestTypeOK'
  BY <1>2, <1>3 DEF UpdateRow, EngineInv, TypeOK, RestTypeOK
<1>5. QED
  BY <1>1, <1>4, UpdateRowIs, MovedHolds

LEMMA EvaluationHolds ==
  ASSUME EngineInv, NEW e \in Threads, EvaluateStep(e)
  PROVE  EngineInv'
<1>0. TypeOK /\ ev[e] \in Flow /\ RestTypeOK
  BY DEF EngineInv, TypeOK, RestTypeOK
<1>1. CASE Evaluate(e)
  BY <1>1, EvaluateMoves, QuietHolds DEF Evaluate
<1>2. ASSUME NEW r \in Rules, SkipRule(e, r)
      PROVE  EngineInv'
  BY <1>2, SkipRuleMoves, QuietHolds DEF SkipRule
<1>3. ASSUME NEW r \in Rules, PassCooldown(e, r)
      PROVE  EngineInv'
  <2>1. HoldsEntries' /\ ev' \in [Threads -> Flow]
    BY <1>3, PassCooldownMoves DEF Moves
  <2>2. \/ disturbed' = disturbed
        \/ disturbed' = Marked({r}, "overlap") \/ disturbed' = Marked({r}, "stale")
    BY <1>3 DEF PassCooldown
  <2>3. disturbed' \in [Rules -> SUBSET Disturbance]
    BY <1>0, <2>2, MarkedIs DEF TypeOK, Disturbance
  <2>4. RestTypeOK'
    BY <1>0, <1>3, <2>3, StoreSame DEF PassCooldown, RestTypeOK
  <2>5. QED
    BY <2>1, <2>4 DEF EngineInv, TypeOK, RestTypeOK
<1>4. ASSUME NEW passed \in BOOLEAN, Conditions(e, passed)
      PROVE  EngineInv'
  BY <1>4, ConditionsMoves, QuietHolds DEF Conditions
<1>5. CASE SkipAction(e)
  <2>1. FinishAction(e) /\ ev[e].pc = "target" /\ ev[e].rule \in Rules
    BY <1>5 DEF SkipAction, EngineInv, HoldsEntries, Holds
  <2>2. Continues(e) /\ fired' \in [Rules -> Stamps] /\ tooSoon' \subseteq Rules
    BY <2>1, FinishActionMoves, FinishTypes
  <2>3. RestTypeOK' /\ SameEntries
    BY <1>0, <1>5, <2>2, StoreSame, UnchangedEntries DEF SkipAction, RestTypeOK, storeVars
  <2>4. QED
    BY <2>2, <2>3, MovedHolds
<1>6. ASSUME NEW readable \in BOOLEAN, TakeAction(e, readable)
      PROVE  EngineInv'
  <2>1. UNCHANGED <<storeVars, now, logs, reported, lastCmd, fired, audited, histVars>>
    BY <1>6, Zenon DEF TakeAction
  <2>2. QED
    BY <1>6, <2>1, TakeActionMoves, QuietHolds
<1>7. CASE InsertLog(e)
  <2>1. PICK d \in Devices, s \in {"on", "off"} : d = ev[e].dev /\ s = ev[e].state
    BY <1>0 DEF Flow
  <2>2. LogRow(d, s) /\ s \in LogValue
    BY <1>7, <2>1 DEF InsertLog, LogValue
  <2>3. logs' \in [Devices -> SUBSET LogRows]
    BY <1>0, <2>2, LogRowIs
  <2>4. mixed' = mixed \cup {d} \/ mixed' = mixed
    BY <1>7, <2>1 DEF InsertLog
  <2>5. RestTypeOK' /\ SameEntries
    BY <1>0, <1>7, <2>3, <2>4, StoreSame, UnchangedEntries DEF InsertLog, RestTypeOK, storeVars
  <2>6. QED
    BY <1>7, <2>5, InsertLogMoves, MovedHolds
<1>8. CASE InsertFails(e)
  BY <1>8, InsertFailsMoves, QuietHolds DEF InsertFails
<1>9. CASE Publish(e)
  <2>1. /\ Continues(e) \/ LetsGo(e)
        /\ fired' \in [Rules -> Stamps] /\ tooSoon' \subseteq Rules
    BY <1>0, <1>9, PublishMoves, FinishActionMoves, FinishTypes DEF RestTypeOK
  <2>2. lastCmd' \in [Devices -> {"on", "off", "none"}] /\ mixed' \subseteq Devices
    BY <1>0, <1>9 DEF Publish, RestTypeOK, Flow
  <2>3. RestTypeOK' /\ SameEntries
    BY <1>0, <1>9, <2>1, <2>2, StoreSame, UnchangedEntries DEF Publish, RestTypeOK, storeVars
  <2>4. QED
    BY <2>1, <2>3, MovedHolds
<1>10. CASE UpdateRow(e)
  BY <1>10, UpdateRowHolds
<1>11. CASE UpdateRowFails(e) \/ AuditFails(e)
  <2>1. Continues(e)
    BY <1>11, FiringMoves DEF UpdateRowFails, AuditFails, Firing
  <2>2. disturbed' \in [Rules -> SUBSET Disturbance]
    BY <1>0, <1>11, MarkedIs, UpdateFailsMarks
    DEF UpdateRowFails, AuditFails, Disturbance, EngineInv
  <2>3. RestTypeOK' /\ SameEntries
    BY <1>0, <1>11, <2>2, StoreSame, UnchangedEntries
    DEF UpdateRowFails, AuditFails, RestTypeOK, storeVars
  <2>4. QED
    BY <2>1, <2>3, MovedHolds
<1>12. CASE TouchLastTriggered(e)
  BY <1>12, TouchHolds
<1>13. CASE Audit(e)
  <2>1. PICK r \in Rules, s \in Stamps : r = ev[e].rule /\ s = ev[e].stamp
    BY <1>0, <1>13 DEF Audit, EngineInv, HoldsEntries, Holds, Firing, Flow
  <2>2. audited' \in [Rules -> Stamps]
    BY <1>0, <1>13, <2>1 DEF Audit, RestTypeOK
  <2>3. RestTypeOK' /\ SameEntries
    BY <1>0, <1>13, <2>2, StoreSame, UnchangedEntries DEF Audit, RestTypeOK, storeVars, histVars
  <2>4. QED
    BY <1>13, <2>3, LastMoves, MovedHolds DEF Audit
<1>14. CASE LogFailure(e)
  BY <1>14, LastMoves, QuietHolds DEF LogFailure
<1>15. QED
  BY <1>1, <1>2, <1>3, <1>4, <1>5, <1>6, <1>7, <1>8, <1>9, <1>10, <1>11, <1>12, <1>13,
     <1>14 DEF EvaluateStep

\* A refresh detaches the flows that hold candidates from the array it replaces.
LEMMA InstallIs ==
  ASSUME EngineInv, NEW m \in Managers, InstallRules(m), NEW k \in Threads
  PROVE  /\ ev'[k] \in Flow
         /\ ev'[k].pc = ev[k].pc /\ ev'[k].rule = ev[k].rule /\ ev'[k].todo = ev[k].todo
         /\ ev'[k].idx = ev[k].idx /\ ev'[k].stamp = ev[k].stamp
         /\ ev'[k].dev = ev[k].dev /\ ev'[k].state = ev[k].state
         /\ ev[k].pc \notin {"idle", "start"} => \A r \in Rules : Object(k, r)' = Object(k, r)
         /\ ev[k].pc \in {"idle", "start"} => ev'[k] = ev[k]
<1>1. TypeOK /\ ev[k] \in Flow /\ cache \in [Rules -> Cached]
  BY DEF EngineInv, TypeOK, StoreTypeOK
<1>2. ev'[k] = Detached(ev[k])
  BY DEF InstallRules
<1>3. ev'[k] = IF ev[k].attached /\ ev[k].pc \notin {"idle", "start"}
               THEN [ev[k] EXCEPT !.attached = FALSE, !.view = cache] ELSE ev[k]
  BY <1>2 DEF Detached
<1>4. CASE ev[k].attached /\ ev[k].pc \notin {"idle", "start"}
  <2> DEFINE f == [ev[k] EXCEPT !.attached = FALSE, !.view = cache]
  <2>1. ev'[k] = f
    BY <1>3, <1>4
  <2>2. /\ f \in Flow /\ f.pc = ev[k].pc /\ f.rule = ev[k].rule /\ f.todo = ev[k].todo
        /\ f.idx = ev[k].idx /\ f.stamp = ev[k].stamp
        /\ f.dev = ev[k].dev /\ f.state = ev[k].state
        /\ ~f.attached /\ f.view = cache
    BY <1>1 DEF Flow
  <2> HIDE DEF f
  <2>3. QED
    BY <1>4, <2>1, <2>2 DEF Object
<1>5. CASE ~(ev[k].attached /\ ev[k].pc \notin {"idle", "start"})
  <2>1. ev'[k] = ev[k]
    BY <1>3, <1>5
  <2>2. QED
    BY <1>1, <1>5, <2>1 DEF Object
<1>6. QED
  BY <1>4, <1>5

LEMMA InstallHolds ==
  ASSUME EngineInv, NEW m \in Managers, InstallRules(m)
  PROVE  EngineInv'
<1>1. TypeOK /\ RestTypeOK /\ StoreTypeOK
  BY DEF EngineInv, TypeOK, RestTypeOK
<1>2. StoreTypeOK'
  BY <1>1, StoreTypeStep DEF StoreNext, InstallRules
<1>3. disturbed' \in [Rules -> SUBSET Disturbance]
  BY <1>1, MarkedIs DEF InstallRules, Disturbance
<1>4. RestTypeOK'
  BY <1>1, <1>2, <1>3 DEF InstallRules, RestTypeOK
<1>5. ev' \in [Threads -> Flow]
  <2>1. ev' = [e \in Threads |-> ev'[e]]
    BY DEF InstallRules
  <2>2. QED
    BY <2>1, InstallIs
<1>6. ASSUME NEW k \in Threads
      PROVE  Holds(k)'
  <2>1. Holds(k) /\ ev[k] \in Flow
    BY <1>1 DEF EngineInv, HoldsEntries, TypeOK
  <2>2. Held(k)' = Held(k) /\ Held(k) \subseteq Rules
    BY <2>1, InstallIs DEF Held, Flow
  <2>3. CASE ev[k].pc \in {"idle", "start"}
    <3>1. Held(k) = {}
      BY <2>1, <2>3 DEF Holds, Held
    <3>2. QED
      BY <2>1, <2>2, <2>3, <3>1, InstallIs, RuleEngineAssumption DEF Holds, Firing, Passed
  <2>4. CASE ev[k].pc \notin {"idle", "start"}
    <3>1. \A r \in Held(k)' : Object(k, r)' # NotCached
      BY <2>1, <2>2, <2>4, InstallIs DEF Holds
    <3>2. ev[k].rule \in Rules => Actions(k)' = Actions(k)
      BY <2>4, InstallIs DEF Actions
    <3>3. QED
      BY <2>1, <2>4, <3>1, <3>2, InstallIs DEF Holds
  <2>5. QED
    BY <2>3, <2>4
<1>7. QED
  BY <1>4, <1>5, <1>6 DEF EngineInv, HoldsEntries, TypeOK, RestTypeOK

\* The management operations before a refresh's last step leave the cache alone.
LEMMA ManageIs ==
  ASSUME Manage
  PROVE  StoreNext /\ cache' = cache /\ UNCHANGED <<engineVars, histVars>>
<1>1. PICK m \in Managers :
        Lookup(m) \/ CreateRule(m) \/ Commit(m) \/ ReadRows(m) \/ Abort(m)
  BY DEF Manage
<1>2. cache' = cache
  BY <1>1 DEF Lookup, LookupSetActive, LookupRemove, LookupUpdate, Begin, CreateRule, Create,
              Commit, ReadRows, Abort
<1>3. QED
  BY <1>1, <1>2 DEF Manage, StoreNext

\* No flow moves and the cache stays.
LEMMA StillHolds ==
  ASSUME EngineInv, ev' = ev, cache' = cache, RestTypeOK'
  PROVE  EngineInv'
<1>1. HoldsEntries'
  BY DEF EngineInv, HoldsEntries, Holds, Held, Object, Actions
<1>2. QED
  BY <1>1 DEF EngineInv, TypeOK, RestTypeOK

LEMMA EngineInvInit == Init => EngineInv
<1> SUFFICES ASSUME Init
             PROVE  EngineInv
  OBVIOUS
<1>1. StoreTypeOK /\ Never \in Stamps /\ 0 \in Time
  BY StoreInitType, RuleStoreAssumption, RuleEngineAssumption DEF Init, Time
<1>2. TypeOK
  BY <1>1, IdleFlowIs DEF Init, TypeOK
<1>3. HoldsEntries
  BY IdleFlowIs, RuleEngineAssumption DEF Init, HoldsEntries, Holds, Held, Firing, Passed
<1>4. QED
  BY <1>2, <1>3 DEF EngineInv

LEMMA CrashHolds ==
  ASSUME EngineInv, Crash
  PROVE  EngineInv'
<1>1. TypeOK /\ RestTypeOK /\ StoreTypeOK
  BY DEF EngineInv, TypeOK, RestTypeOK
<1>2. StoreTypeOK'
  BY <1>1, StoreTypeStep DEF StoreNext, Crash
<1>3. disturbed' \in [Rules -> SUBSET Disturbance]
  BY <1>1 DEF Crash, TypeOK, Disturbance
<1>4. mixed' \subseteq Devices
  BY <1>1 DEF Crash, TypeOK, Flow
<1>5. RestTypeOK'
  BY <1>1, <1>2, <1>3, <1>4 DEF Crash, RestTypeOK
<1>6. \A k \in Threads : ev'[k] = IdleFlow
  BY DEF Crash
<1>7. HoldsEntries'
  BY <1>6, IdleFlowIs, RuleEngineAssumption DEF HoldsEntries, Holds, Held, Firing, Passed
<1>8. ev' \in [Threads -> Flow]
  BY IdleFlowIs DEF Crash
<1>9. QED
  BY <1>5, <1>7, <1>8 DEF EngineInv, TypeOK, RestTypeOK

LEMMA IngestIs ==
  ASSUME EngineInv, NEW e \in Threads, NEW d \in Devices, NEW v \in Readings,
         IngestTelemetry(e, d, v)
  PROVE  /\ Moves(e) /\ HoldsEntries' /\ ev[e].pc = "idle" /\ ev[e].rule = NoRule
         /\ ev'[e].pc = "start" /\ ev'[e].rule = NoRule
         /\ cache' = cache /\ v \in LogValue
<1>1. SameEntries /\ v \in LogValue /\ cache' = cache
  BY UnchangedEntries, RuleEngineAssumption DEF IngestTelemetry, storeVars
<1>2. Holds(e) /\ ev[e].pc = "idle"
  BY DEF EngineInv, HoldsEntries, IngestTelemetry
<1>3. ev' = [ev EXCEPT ![e] = [IdleFlow EXCEPT !.pc = "start", !.dev = d]]
  BY DEF IngestTelemetry
<1>4. /\ Moves(e) /\ HoldsEntries' /\ ev'[e].pc = "start" /\ ev'[e].rule = NoRule
  BY <1>1, <1>3, StartMoves, Zenon
<1>5. QED
  BY <1>1, <1>2, <1>4 DEF Holds

LEMMA DirectIs ==
  ASSUME EngineInv, NEW e \in Threads, NEW a \in Target, DirectCommand(e, a.dev, a.state)
  PROVE  /\ Moves(e) /\ HoldsEntries' /\ ev[e].pc = "idle" /\ ev[e].rule = NoRule
         /\ ev'[e].pc = "insert" /\ ev'[e].rule = NoRule /\ cache' = cache
<1>1. SameEntries /\ cache' = cache
  BY UnchangedEntries DEF DirectCommand, storeVars
<1>2. Holds(e) /\ ev[e].pc = "idle"
  BY DEF EngineInv, HoldsEntries, DirectCommand
<1>3. PICK d \in Devices, s \in {"on", "off"} : d = a.dev /\ s = a.state
  BY DEF Target
<1>4. ev' = [ev EXCEPT ![e] = [IdleFlow EXCEPT !.pc = "insert", !.dev = d, !.state = s]]
  BY <1>3 DEF DirectCommand
<1>5. /\ Moves(e) /\ HoldsEntries' /\ ev'[e].pc = "insert" /\ ev'[e].rule = NoRule
  BY <1>1, <1>4, StartMoves, Zenon
<1>6. QED
  BY <1>1, <1>2, <1>5 DEF Holds

\* What a target of a command is.
LEMMA TargetsAre ==
  /\ \A a \in Commanded \cup Reports \cup ApiCommands \cup ApiLogs :
       a \in Target /\ a.dev \in Devices /\ a.state \in {"on", "off"} /\ a.state \in LogValue
<1>1. Commanded \cup Reports \cup ApiCommands \cup ApiLogs \subseteq Target
  BY RuleEngineAssumption
<1>2. \A a \in Target : a.dev \in Devices /\ a.state \in {"on", "off"}
  BY DEF Target
<1>3. QED
  BY <1>1, <1>2 DEF LogValue

LEMMA EngineInvStep == EngineInv /\ [Next]_vars => EngineInv'
<1> SUFFICES ASSUME EngineInv, [Next]_vars
             PROVE  EngineInv'
  OBVIOUS
<1>0. TypeOK /\ RestTypeOK /\ StoreTypeOK
  BY DEF EngineInv, TypeOK, RestTypeOK
<1>1. ASSUME NEW e \in Threads, NEW d \in Devices, NEW v \in Readings,
             IngestTelemetry(e, d, v)
      PROVE  EngineInv'
  <2>1. logs' \in [Devices -> SUBSET LogRows]
    <3>1. LogRow(d, v)
      BY <1>1, Zenon DEF IngestTelemetry
    <3>2. QED
      BY <1>0, <1>1, <3>1, IngestIs, LogRowIs
  <2>2. mixed' \subseteq Devices
    BY <1>0, <1>1 DEF IngestTelemetry, TypeOK
  <2>3. RestTypeOK'
    BY <1>0, <1>1, <2>1, <2>2, StoreSame DEF IngestTelemetry, RestTypeOK
  <2>4. QED
    BY <1>1, <2>3, IngestIs DEF EngineInv, TypeOK, RestTypeOK, Moves
<1>2. ASSUME NEW e \in Threads, NEW a \in Commanded, DirectCommand(e, a.dev, a.state)
      PROVE  EngineInv'
  <2>1. HoldsEntries' /\ ev' \in [Threads -> Flow]
    BY <1>2, TargetsAre, DirectIs DEF Moves
  <2>2. RestTypeOK'
    BY <1>0, <1>2, StoreSame DEF DirectCommand, RestTypeOK, histVars
  <2>3. QED
    BY <2>1, <2>2 DEF EngineInv, TypeOK, RestTypeOK
<1>3. ASSUME NEW m \in Managers, InstallRules(m)
      PROVE  EngineInv'
  BY <1>3, InstallHolds
<1>4. CASE Manage
  <2>1. StoreTypeOK'
    BY <1>0, <1>4, ManageIs, StoreTypeStep
  <2>2. RestTypeOK'
    BY <1>0, <1>4, <2>1, ManageIs DEF RestTypeOK, engineVars, histVars
  <2>3. QED
    BY <1>4, <2>2, ManageIs, StillHolds DEF engineVars
<1>5. ASSUME NEW a \in Reports, DeviceReports(a.dev, a.state)
      PROVE  EngineInv'
  <2>1. reported' \in [Devices -> {"on", "off", "none"}]
    BY <1>0, <1>5, TargetsAre DEF DeviceReports, RestTypeOK
  <2>2. RestTypeOK'
    BY <1>0, <1>5, <2>1, StoreSame DEF DeviceReports, RestTypeOK, histVars
  <2>3. QED
    BY <1>5, <2>2, StillHolds DEF DeviceReports, storeVars
<1>6. ASSUME NEW a \in ApiLogs, ApiLog(a.dev, a.state)
      PROVE  EngineInv'
  <2>1. logs' \in [Devices -> SUBSET LogRows]
    BY <1>0, <1>6, TargetsAre, LogRowIs DEF ApiLog
  <2>2. mixed' \subseteq Devices
    BY <1>0, <1>6, TargetsAre DEF ApiLog, TypeOK
  <2>3. RestTypeOK'
    BY <1>0, <1>6, <2>1, <2>2, StoreSame DEF ApiLog, RestTypeOK
  <2>4. QED
    BY <1>6, <2>3, StillHolds DEF ApiLog, storeVars
<1>10. ASSUME NEW a \in ApiCommands, SendCommand(a.dev, a.state)
       PROVE  EngineInv'
  <2>1. lastCmd' \in [Devices -> {"on", "off", "none"}] /\ mixed' \subseteq Devices
    BY <1>0, <1>10, TargetsAre DEF SendCommand, RestTypeOK
  <2>2. RestTypeOK'
    BY <1>0, <1>10, <2>1, StoreSame DEF SendCommand, RestTypeOK
  <2>3. QED
    BY <1>10, <2>2, StillHolds DEF SendCommand, storeVars
<1>11. ASSUME NEW a \in ApiLogs, NEW d \in Devices, NEW x \in logs[d],
              EditLog(d, x, a.dev, a.state)
       PROVE  EngineInv'
  <2>1. logs' \in [Devices -> SUBSET LogRows] /\ mixed' \subseteq Devices
    BY <1>0, <1>11, TargetsAre, EditLogIs DEF RestTypeOK
  <2>2. RestTypeOK'
    BY <1>0, <1>11, <2>1, StoreSame DEF EditLog, RestTypeOK
  <2>3. QED
    BY <1>11, <2>2, StillHolds DEF EditLog, storeVars
<1>12. ASSUME NEW d \in Devices, NEW x \in logs[d], RemoveLog(d, x)
       PROVE  EngineInv'
  <2>1. logs' \in [Devices -> SUBSET LogRows] /\ mixed' \subseteq Devices
    BY <1>0, <1>12, RemoveLogIs DEF RestTypeOK
  <2>2. RestTypeOK'
    BY <1>0, <1>12, <2>1, StoreSame DEF RemoveLog, RestTypeOK
  <2>3. QED
    BY <1>12, <2>2, StillHolds DEF RemoveLog, storeVars
<1>7. CASE Tick
  <2>1. now' \in Time
    BY <1>0, <1>7, RuleEngineAssumption DEF Tick, TypeOK, Time
  <2>2. RestTypeOK'
    BY <1>0, <1>7, <2>1, StoreSame DEF Tick, RestTypeOK, histVars
  <2>3. QED
    BY <1>7, <2>2, StillHolds DEF Tick, storeVars
<1>8. CASE UNCHANGED vars
  <2>1. RestTypeOK'
    BY <1>0, <1>8, StoreSame DEF vars, engineVars, histVars, RestTypeOK
  <2>2. QED
    BY <1>8, <2>1, StillHolds DEF vars, engineVars, storeVars
<1>9. QED
  BY <1>1, <1>2, <1>3, <1>4, <1>5, <1>6, <1>7, <1>8, <1>10, <1>11, <1>12, EvaluationHolds,
     CrashHolds, TargetsAre DEF Next

(***************************************************************************)
(* The rule store, the clock, the device log and every flow keep their     *)
(* types, for any rules, devices, managers and evaluations at once.        *)
(***************************************************************************)
THEOREM RuleEngineTypeCorrect == Spec => []TypeOK
<1>1. EngineInv => TypeOK
  BY DEF EngineInv
<1>2. QED
  BY <1>1, EngineInvInit, EngineInvStep, PTL DEF Spec

-----------------------------------------------------------------------------
\* The steps of an evaluation, as the invariants of a rule see them.
Quiet == UNCHANGED <<rules, cache, now, fired, audited, tooSoon, disturbed>>

Stays(e) ==
  /\ Continues(e) /\ ev'[e].stamp = ev[e].stamp
  /\ ev[e].pc \notin Firing /\ ev'[e].pc \notin Firing

Fires(e) ==
  /\ Continues(e) /\ ev[e].pc \in {"target", "publish"} /\ ev[e].rule \in Rules
  /\ ev'[e].pc = "row" /\ ev'[e].stamp = now
  /\ fired' = [fired EXCEPT ![ev[e].rule] = now]
  /\ tooSoon' = IF /\ fired[ev[e].rule] # Never
                   /\ now - fired[ev[e].rule] < Def[Object(e, ev[e].rule).variant].cooldown
                THEN tooSoon \cup {ev[e].rule} ELSE tooSoon
  /\ UNCHANGED <<rules, cache, now, audited, disturbed>>

LEMMA FinishCases ==
  ASSUME EngineInv, NEW e \in Threads, FinishAction(e), ev[e].pc \in {"target", "publish"},
         ev[e].rule \in Rules, UNCHANGED <<rules, cache, now, audited, disturbed>>
  PROVE  (Quiet /\ Stays(e)) \/ Fires(e)
<1>1. CASE ev[e].idx = Len(Actions(e))
  BY <1>1, FinishActionMoves, Zenon DEF Fires
<1>2. CASE ev[e].idx # Len(Actions(e))
  <2>1. /\ Continues(e) /\ ev'[e].pc = "target" /\ fired' = fired /\ tooSoon' = tooSoon
    BY <1>2, FinishActionMoves, Zenon
  <2>2. ev'[e].stamp = ev[e].stamp
    <3>1. ev[e] \in Flow
      BY DEF EngineInv, TypeOK
    <3>2. PICK n \in Nat : n = ev[e].idx + 1
      BY <3>1 DEF Flow
    <3> DEFINE f == [ev[e] EXCEPT !.pc = "target", !.idx = n]
    <3>3. ev' = [ev EXCEPT ![e] = f]
      BY <1>2, <3>2 DEF FinishAction
    <3>4. f \in Flow /\ f.stamp = ev[e].stamp
      BY <3>1 DEF Flow, PC
    <3> HIDE DEF f
    <3>5. QED
      BY <3>3, <3>4, FlowSteps DEF EngineInv
  <2>3. QED
    BY <2>1, <2>2 DEF Quiet, Stays, Firing
<1>3. QED
  BY <1>1, <1>2

LEMMA EvaluationCases ==
  ASSUME EngineInv, NEW e \in Threads, EvaluateStep(e)
  PROVE  \/ Quiet /\ Stays(e)
         \/ Quiet /\ LetsGo(e) /\ ev[e].pc \notin Firing
         \/ \E r \in Rules : PassCooldown(e, r)
         \/ Fires(e)
         \/ UpdateRow(e) \/ UpdateRowFails(e) \/ TouchLastTriggered(e)
         \/ Audit(e) \/ AuditFails(e)
<1>0. ev[e] \in Flow /\ Holds(e)
  BY DEF EngineInv, TypeOK, HoldsEntries
<1>1. CASE Evaluate(e)
  BY <1>1, EvaluateMoves DEF Evaluate, Quiet, Firing, storeVars, histVars
<1>2. ASSUME NEW r \in Rules, SkipRule(e, r)
      PROVE  Quiet /\ LetsGo(e) /\ ev[e].pc \notin Firing
  BY <1>2, SkipRuleMoves DEF SkipRule, Quiet, Firing, storeVars, histVars
<1>3. ASSUME NEW passed \in BOOLEAN, Conditions(e, passed)
      PROVE  Quiet /\ (Stays(e) \/ LetsGo(e)) /\ ev[e].pc \notin Firing
  BY <1>3, ConditionsMoves DEF Conditions, Quiet, Stays, Firing, storeVars, histVars
<1>4. CASE SkipAction(e)
  <2>1. FinishAction(e) /\ ev[e].pc = "target" /\ UNCHANGED <<rules, cache, now, audited, disturbed>>
    BY <1>4, Zenon DEF SkipAction, storeVars
  <2>2. ev[e].rule \in Rules
    BY <1>0, <2>1 DEF Holds
  <2>3. QED
    BY <2>1, <2>2, FinishCases
<1>5. ASSUME NEW readable \in BOOLEAN, TakeAction(e, readable)
      PROVE  Quiet /\ Stays(e)
  <2>1. Quiet
    BY <1>5, Zenon DEF TakeAction, Quiet, storeVars, histVars
  <2>2. QED
    BY <1>5, <2>1, TakeActionMoves DEF Stays, Firing
<1>6. CASE InsertLog(e)
  <2>1. Quiet
    BY <1>6, Zenon DEF InsertLog, Quiet, storeVars
  <2>2. QED
    BY <1>6, <2>1, InsertLogMoves DEF Stays, Firing
<1>7. CASE InsertFails(e)
  <2>1. Quiet
    BY <1>7, Zenon DEF InsertFails, Quiet, storeVars, histVars
  <2>2. CASE ev[e].rule = NoRule
    <3>1. ev' = [ev EXCEPT ![e] = IdleFlow]
      BY <1>7, <2>2 DEF InsertFails
    <3>2. QED
      BY <1>7, <2>1, <3>1, IdleMoves, InsertFailsMoves DEF Firing
  <2>3. CASE ev[e].rule # NoRule
    <3>1. ev' = [ev EXCEPT ![e] = [ev[e] EXCEPT !.pc = "failed"]] /\ "failed" \in PC
      BY <1>7, <2>3 DEF InsertFails, PC
    <3>2. ev'[e].stamp = ev[e].stamp
      BY <3>1, OnlyPC, Zenon
    <3>3. QED
      BY <1>7, <2>1, <2>3, <3>2, InsertFailsMoves DEF Stays, Firing
  <2>4. QED
    BY <2>2, <2>3
<1>8. CASE Publish(e)
  <2>1. UNCHANGED <<rules, cache, now, audited, disturbed>>
    BY <1>8, Zenon DEF Publish, storeVars
  <2>2. CASE ev[e].rule = NoRule
    BY <1>8, <2>1, <2>2, PublishMoves, RuleEngineAssumption DEF Quiet, Firing
  <2>3. CASE ev[e].rule # NoRule
    BY <1>8, <2>1, <2>3, PublishMoves, FinishCases
  <2>4. QED
    BY <2>2, <2>3
<1>9. CASE LogFailure(e)
  <2>1. Quiet
    BY <1>9, Zenon DEF LogFailure, Quiet, storeVars, histVars
  <2>2. QED
    BY <1>9, <2>1, LastMoves DEF LogFailure, Firing
<1>10. QED
  BY <1>1, <1>2, <1>3, <1>4, <1>5, <1>6, <1>7, <1>8, <1>9 DEF EvaluateStep

\* A step of the engine that is no step of an evaluation.
LEMMA OtherCases ==
  ASSUME EngineInv, [Next]_vars, \A e \in Threads : ~EvaluateStep(e)
  PROVE  \/ \E e \in Threads : /\ Quiet /\ Moves(e)
                               /\ ev[e].rule = NoRule /\ ev'[e].rule = NoRule
         \/ \E m \in Managers : InstallRules(m)
         \/ Manage
         \/ Quiet /\ ev' = ev
         \/ Tick
         \/ Crash
<1>1. ASSUME NEW e \in Threads, NEW d \in Devices, NEW v \in Readings,
             IngestTelemetry(e, d, v)
      PROVE  Quiet /\ Moves(e) /\ ev[e].rule = NoRule /\ ev'[e].rule = NoRule
  <2>1. Quiet
    BY <1>1, Zenon DEF IngestTelemetry, Quiet, storeVars
  <2>2. QED
    BY <1>1, <2>1, IngestIs
<1>2. ASSUME NEW e \in Threads, NEW a \in Commanded, DirectCommand(e, a.dev, a.state)
      PROVE  Quiet /\ Moves(e) /\ ev[e].rule = NoRule /\ ev'[e].rule = NoRule
  <2>1. Quiet
    BY <1>2, Zenon DEF DirectCommand, Quiet, storeVars, histVars
  <2>2. QED
    BY <1>2, <2>1, TargetsAre, DirectIs
<1>3. ASSUME NEW a \in Reports, DeviceReports(a.dev, a.state)
      PROVE  Quiet /\ ev' = ev
  BY <1>3, Zenon DEF DeviceReports, Quiet, storeVars, histVars
<1>4. ASSUME NEW a \in ApiLogs, ApiLog(a.dev, a.state)
      PROVE  Quiet /\ ev' = ev
  BY <1>4, Zenon DEF ApiLog, Quiet, storeVars
<1>5. CASE UNCHANGED vars
  BY <1>5 DEF vars, engineVars, histVars, storeVars, Quiet
<1>6. ASSUME NEW d, NEW w, SendCommand(d, w)
      PROVE  Quiet /\ ev' = ev
  BY <1>6, Zenon DEF SendCommand, Quiet, storeVars
<1>7. ASSUME NEW d, NEW x, NEW t, NEW w, EditLog(d, x, t, w)
      PROVE  Quiet /\ ev' = ev
  BY <1>7, Zenon DEF EditLog, Quiet, storeVars
<1>8. ASSUME NEW d, NEW x, RemoveLog(d, x)
      PROVE  Quiet /\ ev' = ev
  BY <1>8, Zenon DEF RemoveLog, Quiet, storeVars
<1>9. QED
  BY <1>1, <1>2, <1>3, <1>4, <1>5, <1>6, <1>7, <1>8 DEF Next

-----------------------------------------------------------------------------
\* What AuditInv says of one rule.
AuditOf(r) ==
  /\ OnlyOne(r)
  /\ \A e \in Threads : ev[e].rule = r =>
       IF ev[e].pc \in Firing THEN ev[e].stamp = fired[r] ELSE audited[r] = fired[r]
  /\ (\A e \in Threads : ev[e].rule # r) => audited[r] = fired[r]

LEMMA AuditInvIs == AuditInv <=> \A r \in Rules : AuditSteady(r) => AuditOf(r)
  BY DEF AuditInv, AuditOf

LEMMA AuditMove ==
  ASSUME NEW r \in Rules, NEW e \in Threads, AuditOf(r), Moves(e),
         \/ /\ ev[e].rule # r /\ ev'[e].rule # r
            /\ fired'[r] = fired[r] /\ audited'[r] = audited[r]
         \/ /\ ev[e].rule = r /\ ev'[e].rule = r
            /\ fired'[r] = fired[r] /\ audited'[r] = audited[r]
            /\ ev'[e].stamp = ev[e].stamp
            /\ ev'[e].pc \in Firing <=> ev[e].pc \in Firing
         \/ ev[e].rule = r /\ ev'[e].rule # r /\ audited'[r] = fired'[r]
         \/ /\ \A k \in Threads \ {e} : ev[k].rule # r
            /\ ev'[e].pc \notin Firing /\ audited'[r] = fired'[r]
         \/ ev[e].rule = r /\ ev'[e].rule = r /\ ev'[e].pc \in Firing /\ ev'[e].stamp = fired'[r]
  PROVE  AuditOf(r)'
<1>1. \A k \in Threads \ {e} : ev'[k] = ev[k]
  BY DEF Moves
<1>2. QED
  BY <1>1 DEF AuditOf, OnlyOne

\* Flows keep their rules, and the ends of their firings.
LEMMA AuditStill ==
  ASSUME NEW r \in Rules, AuditOf(r), fired'[r] = fired[r], audited'[r] = audited[r],
         \A k \in Threads : /\ ev'[k].pc = ev[k].pc /\ ev'[k].rule = ev[k].rule
                            /\ ev'[k].stamp = ev[k].stamp
  PROVE  AuditOf(r)'
  BY DEF AuditOf, OnlyOne

\* A mark takes no other disturbance back.
LEMMA DisturbedIs ==
  ASSUME EngineInv, NEW rs, NEW cause \in Disturbance, NEW r \in Rules,
         disturbed' = Marked(rs, cause)
  PROVE  /\ disturbed[r] \subseteq disturbed'[r]
         /\ r \in rs => cause \in disturbed'[r]
  BY MarkedIs DEF EngineInv

\* A steady rule was steady before.
LEMMA AuditSteadyBack ==
  ASSUME NEW r \in Rules, AuditSteady(r)', disturbed[r] \subseteq disturbed'[r]
  PROVE  AuditSteady(r)
  BY DEF AuditSteady

LEMMA EvaluationAudited ==
  ASSUME EngineInv, AuditInv, NEW e \in Threads, EvaluateStep(e),
         NEW r \in Rules, AuditSteady(r)'
  PROVE  AuditOf(r)'
<1>0. /\ ev[e] \in Flow /\ Holds(e) /\ NoRule # r
      /\ fired \in [Rules -> Stamps] /\ audited \in [Rules -> Stamps]
  BY RuleEngineAssumption DEF EngineInv, TypeOK, HoldsEntries
<1>1. CASE Quiet /\ Stays(e)
  <2>1. AuditOf(r)
    BY <1>1, AuditInvIs DEF Quiet, AuditSteady
  <2>2. QED
    BY <1>1, <2>1, AuditMove DEF Quiet, Stays, Continues
<1>2. CASE Quiet /\ LetsGo(e) /\ ev[e].pc \notin Firing
  <2>1. AuditOf(r)
    BY <1>2, AuditInvIs DEF Quiet, AuditSteady
  <2>2. ev[e].rule = r => audited'[r] = fired'[r]
    BY <1>2, <2>1 DEF AuditOf, Quiet
  <2>3. QED
    BY <1>0, <1>2, <2>1, <2>2, AuditMove DEF Quiet, LetsGo
<1>3. ASSUME NEW q \in Rules, PassCooldown(e, q)
      PROVE  AuditOf(r)'
  <2>1. /\ Moves(e) /\ ev[e].rule = NoRule /\ ev'[e].rule = q /\ ev'[e].pc = "conditions"
    BY <1>3, PassCooldownMoves
  <2>2. fired' = fired /\ audited' = audited
    BY <1>3, Zenon DEF PassCooldown
  <2>3. CASE disturbed' = Marked({q}, "overlap") /\ q = r
    BY <2>3, DisturbedIs DEF Disturbance, AuditSteady
  <2>4. CASE q # r
    <3>1. \/ disturbed' = disturbed
          \/ disturbed' = Marked({q}, "overlap") \/ disturbed' = Marked({q}, "stale")
      BY <1>3, Zenon DEF PassCooldown
    <3>2. AuditSteady(r)
      BY <3>1, DisturbedIs, AuditSteadyBack DEF Disturbance
    <3>3. QED
      BY <1>0, <2>1, <2>2, <2>4, <3>2, AuditInvIs, AuditMove
  <2>5. CASE q = r /\ disturbed' # Marked({q}, "overlap")
    <3>1. /\ disturbed' = disturbed \/ disturbed' = Marked({q}, "stale")
          /\ \A k \in Threads \ {e} : ev[k].rule # r
      BY <1>3, <2>5, Zenon DEF PassCooldown
    <3>2. AuditSteady(r)
      BY <3>1, DisturbedIs, AuditSteadyBack DEF Disturbance
    <3>3. AuditOf(r) /\ audited[r] = fired[r]
      BY <1>0, <2>1, <3>1, <3>2, AuditInvIs DEF AuditOf
    <3>4. QED
      BY <2>1, <2>2, <3>1, <3>3, AuditMove DEF Firing
  <2>6. QED
    BY <2>3, <2>4, <2>5
<1>4. CASE Fires(e)
  <2>1. AuditOf(r)
    BY <1>4, AuditInvIs DEF Fires, AuditSteady
  <2>2. CASE ev[e].rule = r
    <3>1. fired'[r] = now
      BY <1>0, <1>4, <2>2 DEF Fires
    <3>2. QED
      BY <1>4, <2>1, <2>2, <3>1, AuditMove DEF Fires, Continues, Firing
  <2>3. CASE ev[e].rule # r
    <3>1. fired'[r] = fired[r]
      BY <1>0, <1>4, <2>3 DEF Fires
    <3>2. QED
      BY <1>4, <2>1, <2>3, <3>1, AuditMove DEF Fires, Continues
  <2>4. QED
    BY <2>2, <2>3
<1>5. CASE UpdateRow(e)
  <2>1. /\ Continues(e) /\ ev[e].pc = "row" /\ ev'[e].pc = "touch" /\ ev'[e].stamp = ev[e].stamp
        /\ disturbed' = disturbed \/ disturbed' = Marked({ev[e].rule}, "lostStamp")
    BY <1>5, UpdateRowIs
  <2>2. AuditSteady(r)
    BY <2>1, DisturbedIs, AuditSteadyBack DEF Disturbance
  <2>3. fired' = fired /\ audited' = audited
    BY <1>5, Zenon DEF UpdateRow
  <2>4. QED
    BY <2>1, <2>2, <2>3, AuditInvIs, AuditMove DEF Continues, Firing
<1>6. CASE UpdateRowFails(e) \/ AuditFails(e)
  <2>1. Continues(e)
    BY <1>6, FiringMoves DEF UpdateRowFails, AuditFails, Firing
  <2>2. fired' = fired /\ audited' = audited
    BY <1>6, Zenon DEF UpdateRowFails, AuditFails
  <2>3. /\ disturbed[r] \subseteq disturbed'[r]
        /\ ev[e].rule = r => "lostAudit" \in disturbed'[r]
    <3>1. CASE UpdateRowFails(e)
      <4>1. TypeOK
        BY DEF EngineInv
      <4>2. QED
        BY <3>1, <4>1, UpdateFailsMarks, Zenon
    <3>2. CASE AuditFails(e)
      <4>1. disturbed' = Marked({ev[e].rule}, "lostAudit")
        BY <3>2, Zenon DEF AuditFails
      <4>2. QED
        BY <4>1, DisturbedIs DEF Disturbance
    <3>3. QED
      BY <1>6, <3>1, <3>2
  <2>4. AuditSteady(r) /\ ev[e].rule # r
    BY <2>3, AuditSteadyBack DEF AuditSteady
  <2>5. QED
    BY <2>1, <2>2, <2>4, AuditInvIs, AuditMove DEF Continues
<1>7. CASE TouchLastTriggered(e)
  <2>1. Continues(e) /\ ev[e].pc = "touch" /\ ev'[e].pc = "audit" /\ ev'[e].stamp = ev[e].stamp
    BY <1>7, FiringMoves DEF TouchLastTriggered, Firing
  <2>2. fired' = fired /\ audited' = audited /\ disturbed' = disturbed
    BY <1>7, Zenon DEF TouchLastTriggered, histVars
  <2>3. QED
    BY <2>1, <2>2, AuditInvIs, AuditMove DEF Continues, Firing, AuditSteady
<1>8. CASE Audit(e)
  <2>1. LetsGo(e) /\ ev[e].pc = "audit"
    BY <1>8, LastMoves DEF Audit
  <2>2. /\ fired' = fired /\ disturbed' = disturbed
        /\ audited' = [audited EXCEPT ![ev[e].rule] = ev[e].stamp]
    BY <1>8, Zenon DEF Audit, histVars
  <2>3. AuditOf(r)
    BY <2>2, AuditInvIs DEF AuditSteady
  <2>4. ev[e].rule = r => audited'[r] = fired'[r]
    BY <1>0, <2>1, <2>2, <2>3 DEF AuditOf, Firing
  <2>5. ev[e].rule # r => audited'[r] = audited[r]
    BY <1>0, <2>2
  <2>6. QED
    BY <1>0, <2>1, <2>2, <2>3, <2>4, <2>5, AuditMove DEF LetsGo
<1>9. QED
  BY <1>1, <1>2, <1>3, <1>4, <1>5, <1>6, <1>7, <1>8, EvaluationCases

LEMMA CrashDisturbs ==
  ASSUME EngineInv, Crash, NEW r \in Rules
  PROVE  /\ disturbed[r] \subseteq disturbed'[r]
         /\ \A k \in Threads : At(k, r, {"row"}) => "lostStamp" \in disturbed'[r]
         /\ \A k \in Threads : At(k, r, {"row", "touch", "audit"}) => "lostAudit" \in disturbed'[r]
  BY Zenon DEF Crash, At

LEMMA AuditInvStep == EngineInv /\ AuditInv /\ [Next]_vars => AuditInv'
<1> SUFFICES ASSUME EngineInv, AuditInv, [Next]_vars, NEW r \in Rules, AuditSteady(r)'
             PROVE  AuditOf(r)'
  BY AuditInvIs DEF AuditInv, AuditOf
<1>0. /\ NoRule # r
      /\ fired \in [Rules -> Stamps] /\ audited \in [Rules -> Stamps]
  BY RuleEngineAssumption DEF EngineInv, TypeOK, HoldsEntries
<1>1. ASSUME NEW e \in Threads, EvaluateStep(e)
      PROVE  AuditOf(r)'
  BY <1>1, EvaluationAudited
<1>2. ASSUME NEW e \in Threads, Quiet, Moves(e), ev[e].rule = NoRule, ev'[e].rule = NoRule
      PROVE  AuditOf(r)'
  BY <1>0, <1>2, AuditInvIs, AuditMove DEF Quiet, AuditSteady
<1>3. ASSUME NEW m \in Managers, InstallRules(m)
      PROVE  AuditOf(r)'
  <2>1. fired' = fired /\ audited' = audited
    BY <1>3, Zenon DEF InstallRules
  <2>2. AuditSteady(r)
    BY <1>3, DisturbedIs, AuditSteadyBack DEF InstallRules, Disturbance
  <2>3. QED
    BY <1>3, <2>1, <2>2, InstallIs, AuditInvIs, AuditStill
<1>4. CASE Manage
  <2>1. fired' = fired /\ audited' = audited /\ disturbed' = disturbed /\ ev' = ev
    BY <1>4, ManageIs DEF engineVars, histVars
  <2>2. QED
    BY <2>1, AuditInvIs, AuditStill DEF AuditSteady
<1>5. CASE Quiet /\ ev' = ev
  BY <1>5, AuditInvIs, AuditStill DEF Quiet, AuditSteady
<1>6. CASE Tick
  <2>1. fired' = fired /\ audited' = audited /\ disturbed' = disturbed /\ ev' = ev
    BY <1>6, Zenon DEF Tick, histVars
  <2>2. QED
    BY <2>1, AuditInvIs, AuditStill DEF AuditSteady
<1>7. CASE Crash
  <2>1. AuditSteady(r) /\ AuditOf(r)
    BY <1>7, CrashDisturbs, AuditInvIs, AuditSteadyBack
  <2>2. \A k \in Threads : ev[k].rule = r => ev[k].pc \notin Firing
    BY <1>7, CrashDisturbs DEF At, Firing, AuditSteady
  <2>3. audited[r] = fired[r]
    BY <2>1, <2>2 DEF AuditOf
  <2>4. fired' = fired /\ audited' = audited /\ \A k \in Threads : ev'[k] = IdleFlow
    BY <1>7 DEF Crash
  <2>5. QED
    BY <1>0, <2>3, <2>4, IdleFlowIs DEF AuditOf, OnlyOne
<1>8. QED
  BY <1>1, <1>2, <1>3, <1>4, <1>5, <1>6, <1>7, OtherCases

LEMMA AuditInvInit == Init => AuditInv
<1> SUFFICES ASSUME Init
             PROVE  AuditInv
  OBVIOUS
<1>1. \A e \in Threads : ev[e].rule = NoRule
  BY IdleFlowIs DEF Init
<1>2. \A r \in Rules : audited[r] = fired[r]
  BY Zenon DEF Init
<1>3. QED
  BY <1>1, <1>2, RuleEngineAssumption DEF AuditInv, OnlyOne

(***************************************************************************)
(* For any rules and evaluations: a firing has its success row once no     *)
(* evaluation of the rule is under way, unless the row or the stamp before *)
(* it failed, the process died before it, or evaluations overlapped.       *)
(***************************************************************************)
THEOREM FiringsAuditedCorrect == Spec => []FiringsAudited
<1>1. AuditInv => FiringsAudited
  BY DEF AuditInv, FiringsAudited, AuditSteady
<1>2. QED
  BY <1>1, EngineInvInit, EngineInvStep, AuditInvInit, AuditInvStep, PTL DEF Spec

-----------------------------------------------------------------------------
\* What CooldownInv says of one rule.
AbsentRowsNew == \A r \in Rules : rules[r].status = "absent" => rules[r].last = Never

CooldownOf(r) ==
  /\ OnlyOne(r)
  /\ r \notin tooSoon
  /\ \A e \in Threads : At(e, r, Passed) => CooledDown(e, r)
  /\ \A e \in Threads : At(e, r, {"row", "touch"}) => ev[e].stamp = fired[r]
  /\ (\A e \in Threads : ~At(e, r, {"row"})) => rules[r].last = fired[r]
  /\ cache[r] # NotCached /\ (\A e \in Threads : ~At(e, r, {"row", "touch"}))
       => cache[r].last = fired[r]

LEMMA CooldownInvIs ==
  CooldownInv <=> AbsentRowsNew /\ \A r \in Rules : Steady(r) => CooldownOf(r)
  BY DEF CooldownInv, CooldownOf, AbsentRowsNew

\* A flow at a rule holds its entry.
LEMMA AtHolds ==
  ASSUME EngineInv, NEW e \in Threads, NEW r \in Rules, ev[e].rule = r
  PROVE  Object(e, r) # NotCached /\ Object(e, r).variant \in Variants
<1>1. TypeOK /\ Holds(e) /\ r # NoRule
  BY RuleEngineAssumption DEF EngineInv, HoldsEntries
<1>2. Object(e, r) # NotCached
  BY <1>1 DEF Holds, Held
<1>3. QED
  BY <1>1, <1>2, ObjectType

LEMMA CooledStill ==
  ASSUME NEW e \in Threads, NEW r \in Rules, CooledDown(e, r),
         fired'[r] = fired[r], now' = now, Object(e, r)'.variant = Object(e, r).variant
  PROVE  CooledDown(e, r)'
<1>1. PICK t, f, v : t = now /\ f = fired[r] /\ v = Object(e, r).variant
  OBVIOUS
<1>2. f = Never \/ t - f >= Def[v].cooldown
  BY <1>1 DEF CooledDown
<1>3. t = now' /\ f = fired'[r] /\ v = Object(e, r)'.variant
  BY <1>1
<1>4. QED
  BY <1>2, <1>3 DEF CooledDown

\* The variants of the objects flow k holds stay.
LEMMA SameVariant ==
  ASSUME EngineInv, NEW k \in Threads, NEW r \in Rules, ev[k].rule = r, SameEntries,
         (ev'[k].attached <=> ev[k].attached), ev'[k].view = ev[k].view
  PROVE  Object(k, r)'.variant = Object(k, r).variant
  BY AtHolds, SameObject

LEMMA CooledMove ==
  ASSUME EngineInv, NEW r \in Rules, NEW e \in Threads, CooldownOf(r), Moves(e), SameEntries,
         fired'[r] = fired[r], now' = now,
         NEW k \in Threads, At(k, r, Passed)',
         k = e => /\ At(e, r, Passed)
                  /\ (ev'[e].attached <=> ev[e].attached) /\ ev'[e].view = ev[e].view
  PROVE  CooledDown(k, r)'
<1>1. At(k, r, Passed) /\ (ev'[k].attached <=> ev[k].attached) /\ ev'[k].view = ev[k].view
  BY DEF Moves, At
<1>2. Object(k, r)'.variant = Object(k, r).variant
  BY <1>1, SameVariant DEF At
<1>3. CooledDown(k, r)
  BY <1>1 DEF CooldownOf
<1>4. QED
  BY <1>2, <1>3, CooledStill

\* A step of flow e that puts no stamp anywhere.
LEMMA CooldownMove ==
  ASSUME EngineInv, NEW r \in Rules, NEW e \in Threads, CooldownOf(r), Moves(e), SameEntries,
         fired'[r] = fired[r], now' = now, r \notin tooSoon',
         rules'[r].last = rules[r].last, cache'[r] = cache[r],
         \/ ev[e].rule # r /\ ev'[e].rule # r
         \/ ev[e].rule = r /\ ev'[e].rule # r /\ ev[e].pc \notin {"row", "touch"}
         \/ /\ ev[e].rule = r /\ ev'[e].rule = r
            /\ (ev'[e].attached <=> ev[e].attached) /\ ev'[e].view = ev[e].view
            /\ ev[e].pc \notin {"row", "touch"} /\ ev'[e].pc \notin {"row", "touch"}
            /\ ev'[e].pc \in Passed => ev[e].pc \in Passed
  PROVE  CooldownOf(r)'
<1>1. \A k \in Threads \ {e} : ev'[k] = ev[k]
  BY DEF Moves
<1>2. OnlyOne(r)'
  BY <1>1 DEF CooldownOf, OnlyOne
<1>3. \A k \in Threads : At(k, r, Passed)' => CooledDown(k, r)'
  <2>1. At(e, r, Passed)' =>
          /\ At(e, r, Passed)
          /\ (ev'[e].attached <=> ev[e].attached) /\ ev'[e].view = ev[e].view
    BY DEF At
  <2>2. QED
    BY <2>1, CooledMove
<1>4. \A k \in Threads : At(k, r, {"row", "touch"})' <=> At(k, r, {"row", "touch"})
  BY <1>1 DEF At
<1>5. \A k \in Threads : At(k, r, {"row"})' <=> At(k, r, {"row"})
  BY <1>1 DEF At
<1>6. \A k \in Threads : At(k, r, {"row", "touch"})' => ev'[k].stamp = fired'[r]
  BY <1>1, <1>4 DEF CooldownOf, At
<1>7. QED
  BY <1>2, <1>3, <1>4, <1>5, <1>6 DEF CooldownOf

LEMMA SteadyBack ==
  ASSUME NEW r \in Rules, Steady(r)', disturbed[r] \subseteq disturbed'[r]
  PROVE  Steady(r)
  BY DEF Steady

LEMMA PassCooled ==
  ASSUME EngineInv, NEW e \in Threads, NEW r \in Rules, PassCooldown(e, r), CooldownOf(r),
         Steady(r)'
  PROVE  CooldownOf(r)'
<1>1. /\ Moves(e) /\ ev[e].pc = "check" /\ ev[e].rule = NoRule
      /\ ev'[e].pc = "conditions" /\ ev'[e].rule = r
      /\ (ev'[e].attached <=> ev[e].attached) /\ ev'[e].view = ev[e].view
      /\ Object(e, r) # NotCached
  BY PassCooldownMoves
<1>2. /\ fired' = fired /\ now' = now /\ tooSoon' = tooSoon /\ rules' = rules /\ cache' = cache
  BY Zenon DEF PassCooldown, storeVars
<1>3. disturbed' # Marked({r}, "overlap") /\ disturbed' # Marked({r}, "stale")
  BY DisturbedIs DEF Steady, Disturbance
<1>4. /\ \A k \in Threads \ {e} : ev[k].rule # r
      /\ Object(e, r) = cache[r]
  BY <1>3, Zenon DEF PassCooldown
<1>5. \A k \in Threads : ev[k].rule # r
  BY <1>1, <1>4, RuleEngineAssumption
<1>6. cache[r].last = fired[r]
  BY <1>1, <1>4, <1>5 DEF CooldownOf, At
<1>7. CooledDown(e, r)
  <2>1. ~InCooldown(cache[r], now)
    BY <1>4, Zenon DEF PassCooldown
  <2>2. PICK cd \in Nat : cd = Def[cache[r].variant].cooldown
    <3>1. cache[r].variant \in Variants
      BY <1>1, <1>4, ObjectType DEF EngineInv
    <3>2. QED
      BY <3>1, RuleEngineAssumption
  <2>3. fired[r] # Never => fired[r] \in Nat
    BY RuleEngineAssumption DEF EngineInv, TypeOK, Time
  <2>4. now \in Nat
    BY TimeIsStamp DEF EngineInv, TypeOK
  <2>5. PICK t \in Nat, f \in Stamps : t = now /\ f = fired[r]
    BY <2>4 DEF EngineInv, TypeOK
  <2>6. f = Never \/ ~(t - f < cd)
    BY <1>6, <2>1, <2>2, <2>5 DEF InCooldown
  <2>7. f = Never \/ t - f >= cd
    BY <2>3, <2>5, <2>6
  <2>8. QED
    BY <1>4, <2>2, <2>5, <2>7 DEF CooledDown
<1>8. CooledDown(e, r)'
  <2>1. Object(e, r)'.variant = Object(e, r).variant
    BY <1>1, <1>2 DEF Object
  <2>2. QED
    BY <1>2, <1>7, <2>1, CooledStill
<1>9. \A k \in Threads : ev'[k].rule = r => k = e
  BY <1>1, <1>5 DEF Moves
<1>10. QED
  BY <1>1, <1>2, <1>5, <1>8, <1>9 DEF CooldownOf, OnlyOne, At, Passed

LEMMA FiresCooled ==
  ASSUME EngineInv, NEW e \in Threads, NEW r \in Rules, Fires(e), ev[e].rule = r, CooldownOf(r)
  PROVE  CooldownOf(r)'
<1>1. /\ Moves(e) /\ ev'[e].rule = r /\ ev'[e].pc = "row" /\ ev'[e].stamp = now
      /\ rules' = rules /\ cache' = cache /\ ev[e].pc \in Passed
  BY Zenon DEF Fires, Continues, Passed
<1>2. fired'[r] = now
  BY DEF Fires, EngineInv, TypeOK
<1>3. CooledDown(e, r)
  BY <1>1 DEF CooldownOf, At
<1>4. ~(fired[r] # Never /\ now - fired[r] < Def[Object(e, r).variant].cooldown)
  <2>1. PICK cd \in Nat : cd = Def[Object(e, r).variant].cooldown
    BY AtHolds, RuleEngineAssumption
  <2>2. fired[r] # Never => fired[r] \in Nat
    BY RuleEngineAssumption DEF EngineInv, TypeOK, Time
  <2>3. now \in Nat
    BY TimeIsStamp DEF EngineInv, TypeOK
  <2>4. PICK t \in Nat, f \in Stamps : t = now /\ f = fired[r]
    BY <2>3 DEF EngineInv, TypeOK
  <2>5. f = Never \/ t - f >= cd
    BY <1>3, <2>1, <2>4 DEF CooledDown
  <2>6. ~(f # Never /\ t - f < cd)
    BY <2>2, <2>4, <2>5
  <2>7. QED
    BY <2>1, <2>4, <2>6
<1>5. tooSoon' = tooSoon
  BY <1>4, Zenon DEF Fires
<1>6. \A k \in Threads : ev'[k].rule = r => k = e
  BY <1>1 DEF Moves, CooldownOf, OnlyOne
<1>7. QED
  BY <1>1, <1>2, <1>5, <1>6 DEF CooldownOf, OnlyOne, At, Passed

LEMMA StampsCooled ==
  ASSUME EngineInv, NEW e \in Threads, NEW r \in Rules, ev[e].rule = r, CooldownOf(r), Steady(r)',
         UpdateRow(e) \/ TouchLastTriggered(e)
  PROVE  CooldownOf(r)'
<1>1. /\ Moves(e) /\ ev'[e].rule = r /\ ev'[e].stamp = ev[e].stamp
      /\ ev[e].pc \in {"row", "touch"} /\ ev'[e].pc \in {"touch", "audit"}
  BY FiringMoves DEF UpdateRow, TouchLastTriggered, Firing, Continues
<1>2. fired' = fired /\ tooSoon' = tooSoon
  BY Zenon DEF UpdateRow, TouchLastTriggered, histVars
<1>3. ev[e].stamp = fired[r]
  BY <1>1 DEF CooldownOf, At
<1>4. \A k \in Threads : ev'[k].rule = r => k = e
  BY <1>1 DEF Moves, CooldownOf, OnlyOne
<1>5. rules'[r].last = fired[r]
  <2>1. CASE UpdateRow(e)
    <3>1. disturbed' # Marked({r}, "lostStamp")
      BY DisturbedIs DEF Steady, Disturbance
    <3>2. QED
      BY <1>3, <2>1, <3>1, UpdateRowIs
  <2>2. CASE TouchLastTriggered(e)
    <3>1. rules' = rules /\ ev[e].pc = "touch"
      BY <2>2, Zenon DEF TouchLastTriggered
    <3>2. \A k \in Threads : ~At(k, r, {"row"})
      BY <3>1 DEF At, CooldownOf, OnlyOne
    <3>3. QED
      BY <3>1, <3>2 DEF CooldownOf
  <2>3. QED
    BY <2>1, <2>2
<1>6. cache'[r] # NotCached /\ ev'[e].pc # "touch" => cache'[r].last = fired[r]
  <2>1. CASE UpdateRow(e)
    BY <2>1, UpdateRowIs
  <2>2. CASE TouchLastTriggered(e)
    BY <1>3, <2>2, TouchIs
  <2>3. QED
    BY <2>1, <2>2
<1>7. QED
  BY <1>1, <1>2, <1>3, <1>4, <1>5, <1>6 DEF CooldownOf, OnlyOne, At, Passed

\* Management keeps the stamps of the rows; a new row has none.
LEMMA ManageRows ==
  ASSUME EngineInv, AbsentRowsNew, Manage, NEW r \in Rules
  PROVE  /\ rules'[r].last = rules[r].last
         /\ rules'[r].status = "absent" => rules[r].status = "absent"
<1>0. StoreTypeOK /\ rules \in [Rules -> Row]
  BY DEF EngineInv, TypeOK, StoreTypeOK
<1>1. PICK m \in Managers :
        Lookup(m) \/ CreateRule(m) \/ Commit(m) \/ ReadRows(m) \/ Abort(m)
  BY DEF Manage
<1>2. CASE Lookup(m) \/ ReadRows(m) \/ Abort(m)
  BY <1>2 DEF Lookup, LookupSetActive, LookupRemove, LookupUpdate, Begin, ReadRows, Abort
<1>3. CASE CreateRule(m)
  <2>1. PICK q \in Rules, v \in Variants, a \in BOOLEAN : Create(m, q, v, a)
    BY <1>3 DEF CreateRule
  <2>2. /\ rules[q].status = "absent"
        /\ rules' = [rules EXCEPT ![q] = [status |-> "live", active |-> a,
                                          variant |-> v, last |-> Never]]
    BY <2>1 DEF Create
  <2>3. rules[q].last = Never
    BY <2>2 DEF AbsentRowsNew
  <2>4. CASE q = r
    BY <1>0, <2>2, <2>3, <2>4
  <2>5. CASE q # r
    BY <1>0, <2>2, <2>5
  <2>6. QED
    BY <2>4, <2>5
<1>4. CASE Commit(m)
  <2>1. mop[m] \in Op
    BY <1>0, <1>4 DEF Commit, StoreTypeOK
  <2>2. PICK op \in Op : op = mop[m]
    BY <2>1
  <2>3. rules' = [rules EXCEPT ![op.rule] = RowAfter(op)] /\ op.rule \in Rules
    BY <1>4, <2>2 DEF Commit, Op
  <2>4. /\ RowAfter(op).last = rules[op.rule].last
        /\ RowAfter(op).status = "absent" => rules[op.rule].status = "absent"
    <3>1. PICK row \in Row : row = rules[op.rule]
      BY <1>0, <2>3
    <3>2. /\ [row EXCEPT !.active = op.active].last = row.last
          /\ [row EXCEPT !.active = op.active].status = row.status
          /\ [row EXCEPT !.status = "removed", !.active = FALSE].last = row.last
          /\ [row EXCEPT !.status = "removed", !.active = FALSE].status = "removed"
          /\ [row EXCEPT !.active = op.active, !.variant = op.variant].last = row.last
          /\ [row EXCEPT !.active = op.active, !.variant = op.variant].status = row.status
      BY DEF Row
    <3>3. \/ RowAfter(op) = [row EXCEPT !.active = op.active]
          \/ RowAfter(op) = [row EXCEPT !.status = "removed", !.active = FALSE]
          \/ RowAfter(op) = [row EXCEPT !.active = op.active, !.variant = op.variant]
          \/ RowAfter(op) = row
      BY <3>1 DEF RowAfter, Op
    <3>4. QED
      BY <3>1, <3>2, <3>3
  <2>5. CASE op.rule = r
    BY <1>0, <2>3, <2>4, <2>5
  <2>6. CASE op.rule # r
    BY <1>0, <2>3, <2>6
  <2>7. QED
    BY <2>5, <2>6
<1>5. QED
  BY <1>1, <1>2, <1>3, <1>4

LEMMA EvaluationCooled ==
  ASSUME EngineInv, CooldownInv, NEW e \in Threads, EvaluateStep(e), NEW r \in Rules, Steady(r)'
  PROVE  CooldownOf(r)'
<1>0. /\ NoRule # r /\ fired \in [Rules -> Stamps] /\ tooSoon \subseteq Rules
  BY RuleEngineAssumption DEF EngineInv, TypeOK
<1>1. CASE Quiet /\ Stays(e)
  <2>1. CooldownOf(r) /\ SameEntries
    BY <1>1, CooldownInvIs, UnchangedEntries, SteadyBack DEF Quiet
  <2>2. r \notin tooSoon'
    BY <1>1, <2>1 DEF Quiet, CooldownOf
  <2>3. Moves(e) /\ ev'[e].rule = ev[e].rule
        /\ (ev'[e].attached <=> ev[e].attached) /\ ev'[e].view = ev[e].view
        /\ (ev[e].rule \in Rules /\ ev'[e].pc \in Passed => ev[e].pc \in Passed)
    BY <1>1, Zenon DEF Stays, Continues
  <2>4. ev[e].pc \notin {"row", "touch"} /\ ev'[e].pc \notin {"row", "touch"}
    BY <1>1 DEF Stays, Firing
  <2>5. fired'[r] = fired[r] /\ now' = now /\ rules'[r].last = rules[r].last /\ cache'[r] = cache[r]
    BY <1>1 DEF Quiet
  <2>6. CASE ev[e].rule = r
    BY <2>1, <2>2, <2>3, <2>4, <2>5, <2>6, CooldownMove
  <2>7. CASE ev[e].rule # r
    BY <2>1, <2>2, <2>3, <2>5, <2>7, CooldownMove
  <2>8. QED
    BY <2>6, <2>7
<1>2. CASE Quiet /\ LetsGo(e) /\ ev[e].pc \notin Firing
  <2>1. CooldownOf(r) /\ SameEntries
    BY <1>2, CooldownInvIs, UnchangedEntries, SteadyBack DEF Quiet
  <2>2. r \notin tooSoon'
    BY <1>2, <2>1 DEF Quiet, CooldownOf
  <2>3. Moves(e) /\ ev'[e].rule # r /\ ev[e].pc \notin {"row", "touch"}
    BY <1>0, <1>2 DEF LetsGo, Firing
  <2>4. fired'[r] = fired[r] /\ now' = now /\ rules'[r].last = rules[r].last /\ cache'[r] = cache[r]
    BY <1>2 DEF Quiet
  <2>5. QED
    BY <2>1, <2>2, <2>3, <2>4, CooldownMove
<1>3. ASSUME NEW q \in Rules, PassCooldown(e, q)
      PROVE  CooldownOf(r)'
  <2>1. \/ disturbed' = disturbed
        \/ disturbed' = Marked({q}, "overlap") \/ disturbed' = Marked({q}, "stale")
    BY <1>3, Zenon DEF PassCooldown
  <2>2. disturbed[r] \subseteq disturbed'[r]
    BY <2>1, DisturbedIs DEF Disturbance
  <2>3. CooldownOf(r)
    BY <2>2, SteadyBack, CooldownInvIs
  <2>4. CASE q = r
    BY <1>3, <2>3, <2>4, PassCooled
  <2>5. CASE q # r
    <3>1. Moves(e) /\ ev[e].rule # r /\ ev'[e].rule # r
      BY <1>0, <1>3, <2>5, PassCooldownMoves
    <3>2. fired' = fired /\ now' = now /\ tooSoon' = tooSoon /\ rules' = rules /\ cache' = cache
      BY <1>3, Zenon DEF PassCooldown, storeVars
    <3>3. r \notin tooSoon' /\ SameEntries
      BY <2>3, <3>2, UnchangedEntries DEF CooldownOf
    <3>4. QED
      BY <2>3, <3>1, <3>2, <3>3, CooldownMove
  <2>6. QED
    BY <2>4, <2>5
<1>4. CASE Fires(e)
  <2>1. CooldownOf(r)
    BY <1>4, SteadyBack, CooldownInvIs DEF Fires
  <2>2. CASE ev[e].rule = r
    BY <1>4, <2>1, <2>2, FiresCooled
  <2>3. CASE ev[e].rule # r
    <3>1. /\ Moves(e) /\ ev'[e].rule # r /\ now' = now
          /\ rules' = rules /\ cache' = cache /\ fired' = [fired EXCEPT ![ev[e].rule] = now]
          /\ tooSoon' = tooSoon \/ tooSoon' = tooSoon \cup {ev[e].rule}
      BY <1>4, <2>3, Zenon DEF Fires, Continues
    <3>2. fired'[r] = fired[r]
      BY <1>0, <2>3, <3>1
    <3>3. r \notin tooSoon' /\ SameEntries
      BY <2>1, <2>3, <3>1, UnchangedEntries DEF CooldownOf
    <3>4. QED
      BY <2>1, <2>3, <3>1, <3>2, <3>3, CooldownMove
  <2>4. QED
    BY <2>2, <2>3
<1>5. CASE UpdateRow(e) \/ TouchLastTriggered(e)
  <2>1. /\ Continues(e) /\ ev[e].rule \in Rules
        /\ disturbed' = disturbed \/ disturbed' = Marked({ev[e].rule}, "lostStamp")
    <3>1. CASE UpdateRow(e)
      BY <3>1, UpdateRowIs
    <3>2. CASE TouchLastTriggered(e)
      BY <3>2, FiringMoves, TouchIs DEF TouchLastTriggered, Firing, histVars
    <3>3. QED
      BY <1>5, <3>1, <3>2
  <2>2. disturbed[r] \subseteq disturbed'[r]
    BY <2>1, DisturbedIs DEF Disturbance
  <2>3. CooldownOf(r)
    BY <2>2, SteadyBack, CooldownInvIs
  <2>4. CASE ev[e].rule = r
    BY <1>5, <2>3, <2>4, StampsCooled
  <2>5. CASE ev[e].rule # r
    <3>1. Moves(e) /\ ev'[e].rule # r
      BY <2>1, <2>5 DEF Continues
    <3>2. fired' = fired /\ now' = now /\ tooSoon' = tooSoon
      BY <1>5, Zenon DEF UpdateRow, TouchLastTriggered, histVars
    <3>3. /\ rules'[r].last = rules[r].last /\ cache'[r] = cache[r] /\ SameEntries
      <4>1. CASE UpdateRow(e)
        <5>1. cache' = cache
          BY <4>1, Zenon DEF UpdateRow
        <5>2. QED
          BY <2>5, <4>1, <5>1, UpdateRowIs, UnchangedEntries
      <4>2. CASE TouchLastTriggered(e)
        <5>1. rules' = rules
          BY <4>2, Zenon DEF TouchLastTriggered
        <5>2. QED
          BY <2>5, <4>2, <5>1, TouchIs
      <4>3. QED
        BY <1>5, <4>1, <4>2
    <3>4. r \notin tooSoon'
      BY <2>3, <3>2 DEF CooldownOf
    <3>5. QED
      BY <2>3, <2>5, <3>1, <3>2, <3>3, <3>4, CooldownMove
  <2>6. QED
    BY <2>4, <2>5
<1>6. CASE UpdateRowFails(e) \/ AuditFails(e) \/ Audit(e)
  <2>1. /\ fired' = fired /\ now' = now /\ tooSoon' = tooSoon /\ rules' = rules /\ cache' = cache
    BY <1>6, Zenon DEF UpdateRowFails, AuditFails, Audit, storeVars, histVars
  <2>2. /\ ev[e].pc \in Firing
        /\ \/ Continues(e) /\ ev'[e].pc = "failed"
           \/ LetsGo(e) /\ ev[e].pc = "audit"
    BY <1>6, FiringMoves, LastMoves DEF UpdateRowFails, AuditFails, Audit, Firing
  <2>3. /\ disturbed[r] \subseteq disturbed'[r]
        /\ ev[e].rule # r \/ ev[e].pc = "audit"
    <3>1. CASE UpdateRowFails(e)
      <4>1. /\ disturbed[r] \subseteq disturbed'[r]
            /\ ev[e].rule = r => "lostStamp" \in disturbed'[r]
        <5>1. TypeOK
          BY DEF EngineInv
        <5>2. QED
          BY <3>1, <5>1, UpdateFailsMarks, Zenon
      <4>2. "lostStamp" \notin disturbed'[r]
        BY DEF Steady
      <4>3. QED
        BY <4>1, <4>2
    <3>2. CASE AuditFails(e)
      <4>1. disturbed' = Marked({ev[e].rule}, "lostAudit") /\ ev[e].pc = "audit"
        BY <3>2, Zenon DEF AuditFails
      <4>2. QED
        BY <4>1, DisturbedIs DEF Disturbance
    <3>3. CASE Audit(e)
      BY <3>3, Zenon DEF Audit, histVars
    <3>4. QED
      BY <1>6, <3>1, <3>2, <3>3
  <2>4. CooldownOf(r) /\ SameEntries
    BY <2>1, <2>3, SteadyBack, CooldownInvIs, UnchangedEntries
  <2>5. r \notin tooSoon'
    BY <2>1, <2>4 DEF CooldownOf
  <2>6. CASE Continues(e) /\ ev'[e].pc = "failed"
    BY <2>1, <2>3, <2>4, <2>5, <2>6, CooldownMove DEF Continues, Passed
  <2>7. CASE LetsGo(e) /\ ev[e].pc = "audit"
    BY <1>0, <2>1, <2>4, <2>5, <2>7, CooldownMove DEF LetsGo
  <2>8. QED
    BY <2>2, <2>6, <2>7
<1>7. QED
  BY <1>1, <1>2, <1>3, <1>4, <1>5, <1>6, EvaluationCases

LEMMA AbsentStep == EngineInv /\ AbsentRowsNew /\ [Next]_vars => AbsentRowsNew'
<1> SUFFICES ASSUME EngineInv, AbsentRowsNew, [Next]_vars
             PROVE  AbsentRowsNew'
  OBVIOUS
<1>1. CASE rules' = rules
  BY <1>1 DEF AbsentRowsNew
<1>2. ASSUME NEW e \in Threads, EvaluateStep(e)
      PROVE  AbsentRowsNew'
  <2>1. CASE UpdateRow(e)
    <3>1. ASSUME NEW r \in Rules, rules'[r].status = "absent"
          PROVE  rules'[r].last = Never
      <4>1. rules[r].status = "absent" /\ ~Live(r)
        BY <2>1, <3>1, UpdateRowIs DEF Live
      <4>2. rules'[r] = rules[r]
        <5>1. CASE ev[e].rule = r
          BY <2>1, <4>1, <5>1, UpdateRowIs
        <5>2. CASE ev[e].rule # r
          BY <2>1, <5>2, UpdateRowIs
        <5>3. QED
          BY <5>1, <5>2
      <4>3. QED
        BY <4>1, <4>2 DEF AbsentRowsNew
    <3>2. QED
      BY <3>1 DEF AbsentRowsNew
  <2>2. CASE ~UpdateRow(e)
    <3>1. rules' = rules
      BY <1>2, <2>2, EvaluationCases, Zenon
      DEF Quiet, PassCooldown, Fires, UpdateRowFails, TouchLastTriggered, Audit, AuditFails,
          storeVars
    <3>2. QED
      BY <1>1, <3>1
  <2>3. QED
    BY <2>1, <2>2
<1>3. CASE Manage
  BY <1>3, ManageRows DEF AbsentRowsNew
<1>4. ASSUME NEW m \in Managers, InstallRules(m)
      PROVE  rules' = rules
  BY <1>4, Zenon DEF InstallRules, SetRules
<1>5. Tick \/ Crash => rules' = rules
  <2>1. Tick => rules' = rules
    BY Zenon DEF Tick, storeVars
  <2>2. Crash => StoreRestart
    BY Zenon DEF Crash
  <2>3. StoreRestart => rules' = rules
    BY Zenon DEF StoreRestart
  <2>4. QED
    BY <2>1, <2>2, <2>3
<1>6. QED
  BY <1>1, <1>2, <1>3, <1>4, <1>5, OtherCases DEF Quiet

\* Nothing happens to the rule but the passing of time.
LEMMA CooldownStill ==
  ASSUME EngineInv, NEW r \in Rules, CooldownOf(r), ev' = ev, fired' = fired,
         cache' = cache, tooSoon' = tooSoon, rules'[r].last = rules[r].last,
         now' \in Nat, now' = now \/ now' = now + 1
  PROVE  CooldownOf(r)'
<1>1. ASSUME NEW k \in Threads, At(k, r, Passed)
      PROVE  CooledDown(k, r)'
  <2>1. Object(k, r)' = Object(k, r) /\ fired'[r] = fired[r]
    BY DEF Object
  <2>2. PICK cd \in Nat : cd = Def[Object(k, r).variant].cooldown
    BY <1>1, AtHolds, RuleEngineAssumption DEF At
  <2>3. PICK t \in Nat, u \in Nat, f \in Stamps : t = now /\ u = now' /\ f = fired[r]
    BY TimeIsStamp DEF EngineInv, TypeOK
  <2>4. f # Never => f \in Nat
    BY RuleEngineAssumption DEF Time
  <2>5. f = Never \/ t - f >= cd
    BY <1>1, <2>2, <2>3 DEF CooldownOf, CooledDown
  <2>6. u = t \/ u = t + 1
    BY <2>3
  <2>7. f = Never \/ u - f >= cd
    BY <2>4, <2>5, <2>6
  <2>8. QED
    BY <2>1, <2>2, <2>3, <2>7 DEF CooledDown
<1>2. QED
  BY <1>1 DEF CooldownOf, OnlyOne, At

LEMMA InstallCooled ==
  ASSUME EngineInv, NEW m \in Managers, InstallRules(m), NEW r \in Rules, CooldownOf(r), Steady(r)'
  PROVE  CooldownOf(r)'
<1>1. /\ fired' = fired /\ now' = now /\ tooSoon' = tooSoon
  BY Zenon DEF InstallRules
<1>2. /\ rules' = rules /\ cache' = msnap[m]
  BY Zenon DEF InstallRules, SetRules
<1>3. cache'[r] # NotCached => cache'[r].last = rules[r].last
  <2> DEFINE rs == {q \in Rules : msnap[m][q] # NotCached /\ msnap[m][q].last # rules[q].last}
  <2>1. disturbed' = Marked(rs, "lostStamp")
    BY Zenon DEF InstallRules
  <2>2. "lostStamp" \in Disturbance /\ "lostStamp" \notin disturbed'[r]
    BY DEF Disturbance, Steady
  <2>3. r \notin rs
    <3> HIDE DEF rs
    <3>1. QED
      BY <2>1, <2>2, DisturbedIs
  <2>4. QED
    BY <1>2, <2>3
<1>4. \A k \in Threads : ev'[k].pc = ev[k].pc /\ ev'[k].rule = ev[k].rule /\ ev'[k].stamp = ev[k].stamp
  BY InstallIs
<1>5. ASSUME NEW k \in Threads, At(k, r, Passed)'
      PROVE  CooledDown(k, r)'
  <2>1. At(k, r, Passed) /\ ev[k].pc \notin {"idle", "start"} /\ CooledDown(k, r)
    BY <1>4, <1>5 DEF At, Passed, CooldownOf
  <2>2. Object(k, r)' = Object(k, r)
    BY <2>1, InstallIs
  <2>3. QED
    BY <1>1, <2>1, <2>2, CooledStill
<1>6. QED
  BY <1>1, <1>2, <1>3, <1>4, <1>5 DEF CooldownOf, OnlyOne, At

LEMMA CooldownInvStep == EngineInv /\ CooldownInv /\ [Next]_vars => CooldownInv'
<1> SUFFICES ASSUME EngineInv, CooldownInv, [Next]_vars, NEW r \in Rules, Steady(r)'
             PROVE  CooldownOf(r)'
  <2>1. EngineInv /\ CooldownInv /\ [Next]_vars => AbsentRowsNew'
    BY AbsentStep, CooldownInvIs
  <2>2. CooldownInv' <=> AbsentRowsNew' /\ \A r \in Rules : Steady(r)' => CooldownOf(r)'
    BY DEF CooldownInv, CooldownOf, AbsentRowsNew
  <2>3. QED
    BY <2>1, <2>2
<1>1. ASSUME NEW e \in Threads, EvaluateStep(e)
      PROVE  CooldownOf(r)'
  BY <1>1, EvaluationCooled
<1>2. ASSUME NEW e \in Threads, Quiet, Moves(e), ev[e].rule = NoRule, ev'[e].rule = NoRule
      PROVE  CooldownOf(r)'
  <2>1. CooldownOf(r) /\ SameEntries
    BY <1>2, SteadyBack, CooldownInvIs, UnchangedEntries DEF Quiet
  <2>2. r # NoRule /\ r \notin tooSoon'
    BY <1>2, <2>1, RuleEngineAssumption DEF Quiet, CooldownOf
  <2>3. QED
    BY <1>2, <2>1, <2>2, CooldownMove DEF Quiet
<1>3. ASSUME NEW m \in Managers, InstallRules(m)
      PROVE  CooldownOf(r)'
  <2>1. disturbed[r] \subseteq disturbed'[r]
    BY <1>3, DisturbedIs DEF InstallRules, Disturbance
  <2>2. QED
    BY <1>3, <2>1, SteadyBack, CooldownInvIs, InstallCooled
<1>4. now \in Nat
  BY TimeIsStamp DEF EngineInv, TypeOK
<1>5. CASE Manage
  <2>1. UNCHANGED <<cache, fired, tooSoon, now, ev, disturbed>>
    BY <1>5, ManageIs DEF engineVars, histVars
  <2>2. CooldownOf(r) /\ AbsentRowsNew
    BY <2>1, SteadyBack, CooldownInvIs
  <2>3. QED
    BY <1>4, <1>5, <2>1, <2>2, ManageRows, CooldownStill
<1>6. CASE Quiet /\ ev' = ev
  <2>1. CooldownOf(r)
    BY <1>6, SteadyBack, CooldownInvIs DEF Quiet
  <2>2. QED
    BY <1>4, <1>6, <2>1, CooldownStill DEF Quiet
<1>7. CASE Tick
  <2>1. UNCHANGED <<rules, cache, fired, tooSoon, ev, disturbed>> /\ now' = now + 1
    BY <1>7, Zenon DEF Tick, storeVars, histVars
  <2>2. CooldownOf(r)
    BY <2>1, SteadyBack, CooldownInvIs
  <2>3. QED
    BY <1>4, <2>1, <2>2, CooldownStill
<1>8. CASE Crash
  <2>1. CooldownOf(r)
    BY <1>8, CrashDisturbs, SteadyBack, CooldownInvIs
  <2>2. \A k \in Threads : ~At(k, r, {"row"})
    BY <1>8, CrashDisturbs DEF Steady
  <2>3. /\ rules' = rules /\ fired' = fired /\ tooSoon' = tooSoon /\ cache' = EmptyCache
        /\ \A k \in Threads : ev'[k] = IdleFlow
    BY <1>8 DEF Crash, StoreRestart
  <2>4. cache'[r] = NotCached /\ \A k \in Threads : ev'[k].rule # r
    BY <2>3, IdleFlowIs, RuleEngineAssumption DEF EmptyCache
  <2>5. QED
    BY <2>1, <2>2, <2>3, <2>4 DEF CooldownOf, OnlyOne, At
<1>9. QED
  BY <1>1, <1>2, <1>3, <1>5, <1>6, <1>7, <1>8, OtherCases

LEMMA CooldownInvInit == Init => CooldownInv
<1> SUFFICES ASSUME Init
             PROVE  CooldownInv
  OBVIOUS
<1>1. \A e \in Threads : ev[e].rule = NoRule
  BY IdleFlowIs DEF Init
<1>2. \A r \in Rules : fired[r] = Never /\ cache[r] = NotCached /\ rules[r].last = Never
  <2>1. /\ fired = [r \in Rules |-> Never] /\ cache = EmptyCache
        /\ rules \in [Rules -> {AbsentRow} \cup
                                [status : {"live"}, active : BOOLEAN,
                                 variant : Variants, last : {Never}]]
    BY Zenon DEF Init, StoreInit
  <2>2. \A r \in Rules : fired[r] = Never /\ cache[r] = NotCached
    BY <2>1, Zenon DEF EmptyCache
  <2>3. \A r \in Rules : rules[r].last = Never
    <3>1. AbsentRow.last = Never
      BY DEF AbsentRow
    <3>2. \A row \in {AbsentRow} \cup [status : {"live"}, active : BOOLEAN,
                                        variant : Variants, last : {Never}] : row.last = Never
      BY <3>1
    <3>3. QED
      BY <2>1, <3>2, Zenon
  <2>4. QED
    BY <2>2, <2>3, Zenon
<1>3. tooSoon = {}
  BY Zenon DEF Init
<1>4. \A r \in Rules : r # NoRule
  BY RuleEngineAssumption
<1>5. QED
  BY <1>1, <1>2, <1>3, <1>4 DEF CooldownInv, OnlyOne, At

(***************************************************************************)
(* For any rules, cooldowns, refreshes, edits, failures and restarts: a    *)
(* rule fires twice within its cooldown only if evaluations of it          *)
(* overlapped, one checked a replaced object, or a stamp was lost.         *)
(***************************************************************************)
THEOREM CooldownKeptCorrect == Spec => []CooldownKept
<1>1. EngineInv /\ CooldownInv => CooldownKept
  <2>1. EngineInv => tooSoon \subseteq Rules
    BY DEF EngineInv, TypeOK
  <2>2. CooldownInv => \A r \in Rules : Steady(r) => r \notin tooSoon
    BY CooldownInvIs DEF CooldownOf
  <2>3. QED
    BY <2>1, <2>2, Zenon DEF CooldownKept, Steady
<1>2. QED
  BY <1>1, EngineInvInit, EngineInvStep, CooldownInvInit, CooldownInvStep, PTL DEF Spec

-----------------------------------------------------------------------------
\* What LogInv says of one device.
LogOf(d) ==
  /\ \A e, k \in Threads : Sending(e, d) /\ Sending(k, d) => e = k
  /\ \A e \in Threads : Sending(e, d) =>
       "other" \in Newest(d) \/ ev[e].state \in Newest(d)
  /\ (\A e \in Threads : ~Sending(e, d)) =>
       \/ Newest(d) = {}
       \/ "other" \in Newest(d)
       \/ lastCmd[d] \in Newest(d)
  /\ \A x, y \in Newest(d) \ {"other"} : x = y

\* No row is dated ahead of the clock: a row written now is among the newest.
RowsPast == \A d \in Devices : \A x \in logs[d] : x.at <= now

LEMMA NewestIs ==
  ASSUME TypeOK, RowsPast, NEW d \in Devices, NEW v \in LogValue, LogRow(d, v)
  PROVE  /\ v \in Newest(d)'
         /\ \A w \in Newest(d)' \ {v} : w \in Newest(d)
         /\ ~Tied(d, v) => Newest(d)' = {v}
<1>1. PICK t \in Time : t = now
  BY DEF TypeOK
<1>2. /\ t \in Int /\ logs[d] \subseteq LogRows /\ \A x \in logs[d] : x.at \in Int /\ x.at <= t
  BY <1>1 DEF RowsPast, TypeOK, LogRows, Time
<1>3. PICK row \in LogRows : row.at = t /\ row.val = v /\ logs'[d] = logs[d] \cup {row}
  BY <1>1, LogRowIs DEF LogRows
<1>4. ASSUME NEW w \in Newest(d)'
      PROVE  w = v \/ (w \in Newest(d) /\ Tied(d, v))
  <2>1. PICK x \in logs'[d] : x.val = w /\ \A z \in logs'[d] : z.at <= x.at
    BY DEF Newest
  <2>2. CASE x = row
    BY <1>3, <2>1, <2>2
  <2>3. CASE x \in logs[d] /\ w # v
    <3>1. x.at = t
      BY <1>2, <1>3, <2>1, <2>3
    <3>2. \A z \in logs[d] : z.at <= x.at
      BY <1>3, <2>1
    <3>3. QED
      BY <1>1, <2>1, <2>3, <3>1, <3>2 DEF Newest, Tied
  <2>4. QED
    BY <1>3, <2>1, <2>2, <2>3
<1>5. v \in Newest(d)'
  <2>1. \A z \in logs'[d] : z.at <= row.at
    BY <1>2, <1>3
  <2>2. QED
    BY <1>3, <2>1 DEF Newest
<1>6. QED
  BY <1>4, <1>5

LEMMA LogInvIs == LogInv <=> \A d \in Devices \ mixed : LogOf(d)
  BY DEF LogInv, LogOf

\* The log, the commands and who is about to send one stay.
LEMMA LogStill ==
  ASSUME NEW d \in Devices, LogOf(d), logs'[d] = logs[d], lastCmd'[d] = lastCmd[d],
         \A k \in Threads : /\ Sending(k, d)' <=> Sending(k, d)
                            /\ Sending(k, d) => ev'[k].state = ev[k].state
  PROVE  LogOf(d)'
<1>1. Newest(d)' = Newest(d)
  BY DEF Newest
<1>2. QED
  BY <1>1 DEF LogOf

LogQuiet(e) ==
  /\ Moves(e) /\ ev[e].pc # "publish" /\ ev'[e].pc # "publish"
  /\ UNCHANGED <<logs, lastCmd, mixed>>

LEMMA LogQuietKeeps ==
  ASSUME NEW e \in Threads, LogQuiet(e), NEW d \in Devices, LogOf(d)
  PROVE  LogOf(d)'
<1>1. \A k \in Threads : /\ Sending(k, d)' <=> Sending(k, d)
                         /\ Sending(k, d) => ev'[k].state = ev[k].state
  BY DEF LogQuiet, Moves, Sending
<1>2. QED
  BY <1>1, LogStill DEF LogQuiet

LEMMA LetsGoQuiet ==
  ASSUME NEW e \in Threads, LetsGo(e)
  PROVE  Moves(e) /\ ev'[e].pc # "publish" /\ ev'[e].pc \in {"idle", "check"}
  BY IdleFlowIs DEF LetsGo

LEMMA LogCases ==
  ASSUME EngineInv, NEW e \in Threads, EvaluateStep(e)
  PROVE  LogQuiet(e) \/ InsertLog(e) \/ Publish(e)
<1>1. CASE Evaluate(e)
  <2>1. UNCHANGED <<logs, lastCmd, mixed>>
    BY <1>1, Zenon DEF Evaluate, histVars
  <2>2. QED
    BY <1>1, <2>1, EvaluateMoves, LetsGoQuiet DEF LogQuiet
<1>2. ASSUME NEW r \in Rules, SkipRule(e, r)
      PROVE  LogQuiet(e)
  <2>1. UNCHANGED <<logs, lastCmd, mixed>>
    BY <1>2, Zenon DEF SkipRule, histVars
  <2>2. QED
    BY <1>2, <2>1, SkipRuleMoves, LetsGoQuiet DEF LogQuiet
<1>3. ASSUME NEW r \in Rules, PassCooldown(e, r)
      PROVE  LogQuiet(e)
  <2>1. UNCHANGED <<logs, lastCmd, mixed>>
    BY <1>3, Zenon DEF PassCooldown
  <2>2. QED
    BY <1>3, <2>1, PassCooldownMoves DEF LogQuiet
<1>4. ASSUME NEW passed \in BOOLEAN, Conditions(e, passed)
      PROVE  LogQuiet(e)
  <2>1. UNCHANGED <<logs, lastCmd, mixed>>
    BY <1>4, Zenon DEF Conditions, histVars
  <2>2. /\ ev[e].pc = "conditions" /\ "target" \in PC
        /\ \/ ev' = [ev EXCEPT ![e] = [ev[e] EXCEPT !.pc = "target"]]
           \/ ev' = [ev EXCEPT ![e] = NextCandidate(ev[e])]
    BY <1>4 DEF Conditions, PC
  <2>3. CASE ev' = [ev EXCEPT ![e] = [ev[e] EXCEPT !.pc = "target"]]
    <3>1. Moves(e) /\ ev'[e].pc = "target"
      BY <2>2, <2>3, OnlyPC, Zenon
    <3>2. QED
      BY <2>1, <2>2, <3>1 DEF LogQuiet
  <2>4. CASE ev' = [ev EXCEPT ![e] = NextCandidate(ev[e])]
    BY <2>1, <2>2, <2>4, LastMoves, LetsGoQuiet DEF LogQuiet
  <2>5. QED
    BY <2>2, <2>3, <2>4
<1>5. CASE SkipAction(e)
  <2>1. FinishAction(e) /\ ev[e].pc = "target" /\ UNCHANGED <<logs, lastCmd, mixed>>
    BY <1>5, Zenon DEF SkipAction
  <2>2. ev[e].rule \in Rules
    <3>1. Holds(e)
      BY DEF EngineInv, HoldsEntries
    <3>2. QED
      BY <2>1, <3>1 DEF Holds
  <2>3. Moves(e) /\ ev'[e].pc \in {"row", "target"}
    BY <2>1, <2>2, FinishActionMoves DEF Continues
  <2>4. QED
    BY <2>1, <2>3 DEF LogQuiet
<1>6. ASSUME NEW readable \in BOOLEAN, TakeAction(e, readable)
      PROVE  LogQuiet(e)
  <2>1. UNCHANGED <<logs, lastCmd, mixed>>
    BY <1>6, Zenon DEF TakeAction, histVars
  <2>2. QED
    BY <1>6, <2>1, TakeActionMoves DEF LogQuiet, Continues
<1>7. CASE InsertFails(e)
  <2>1. UNCHANGED <<logs, lastCmd, mixed>>
    BY <1>7, Zenon DEF InsertFails, histVars
  <2>2. QED
    BY <1>7, <2>1, InsertFailsMoves, LetsGoQuiet DEF LogQuiet, Continues
<1>8. CASE UpdateRow(e) \/ UpdateRowFails(e) \/ TouchLastTriggered(e) \/ AuditFails(e)
  <2>1. UNCHANGED <<logs, lastCmd, mixed>>
    BY <1>8, Zenon DEF UpdateRow, UpdateRowFails, TouchLastTriggered, AuditFails, histVars
  <2>2. /\ Continues(e) /\ ev[e].pc \in Firing
        /\ ev'[e].pc \in {"touch", "audit", "failed"}
    BY <1>8, FiringMoves DEF UpdateRow, UpdateRowFails, TouchLastTriggered, AuditFails, Firing
  <2>3. QED
    BY <2>1, <2>2 DEF LogQuiet, Continues, Firing
<1>9. CASE Audit(e) \/ LogFailure(e)
  <2>1. UNCHANGED <<logs, lastCmd, mixed>>
    BY <1>9, Zenon DEF Audit, LogFailure, histVars
  <2>2. LetsGo(e) /\ ev[e].pc \in {"audit", "failed"}
    BY <1>9, LastMoves DEF Audit, LogFailure
  <2>3. QED
    BY <2>1, <2>2, LetsGoQuiet DEF LogQuiet
<1>10. QED
  BY <1>1, <1>2, <1>3, <1>4, <1>5, <1>6, <1>7, <1>8, <1>9 DEF EvaluateStep

LEMMA InsertLogged ==
  ASSUME EngineInv, RowsPast, LogInv, NEW e \in Threads, InsertLog(e), NEW d \in Devices \ mixed'
  PROVE  LogOf(d)'
<1>1. PICK t \in Devices, s \in {"on", "off"} : t = ev[e].dev /\ s = ev[e].state
  BY DEF EngineInv, TypeOK, Flow
<1>2. /\ LogRow(t, s) /\ s \in LogValue /\ lastCmd' = lastCmd
      /\ mixed' = IF Tied(t, s) \/ \E k \in Threads : ev[k].pc = "publish" /\ ev[k].dev = t
                  THEN mixed \cup {t} ELSE mixed
  BY <1>1 DEF InsertLog, LogValue
<1>3. /\ Moves(e) /\ ev[e].pc = "insert" /\ ev'[e].pc = "publish"
      /\ ev'[e].dev = t /\ ev'[e].state = s
  BY <1>1, InsertLogMoves DEF Continues
<1>4. LogOf(d)
  BY <1>2, LogInvIs
<1>5. CASE d # t
  <2>1. logs'[d] = logs[d]
    BY <1>2, <1>5, LogRowIs DEF EngineInv
  <2>2. \A k \in Threads : /\ Sending(k, d)' <=> Sending(k, d)
                           /\ Sending(k, d) => ev'[k].state = ev[k].state
    BY <1>3, <1>5 DEF Sending, Moves
  <2>3. QED
    BY <1>2, <1>4, <2>1, <2>2, LogStill
<1>6. CASE d = t
  <2>1. ~Tied(t, s) /\ \A k \in Threads : ~Sending(k, t)
    BY <1>2, <1>6 DEF Sending
  <2>2. Newest(t)' = {s}
    BY <1>2, <2>1, NewestIs DEF EngineInv
  <2>3. \A k \in Threads : Sending(k, t)' => k = e
    BY <2>1 DEF Sending, Moves, InsertLog
  <2>4. QED
    BY <1>3, <1>6, <2>2, <2>3 DEF LogOf, Sending
<1>7. QED
  BY <1>5, <1>6

\* A command that leaves alone, its row the newest.
Heals(e) == /\ Newest(ev[e].dev) = {ev[e].state}
            /\ \A k \in Threads \ {e} : ev[k].pc = "publish" => ev[k].dev # ev[e].dev

LEMMA PublishLogged ==
  ASSUME EngineInv, LogInv, NEW e \in Threads, Publish(e), NEW d \in Devices \ mixed'
  PROVE  LogOf(d)'
<1>1. PICK t \in Devices, s \in {"on", "off"} : t = ev[e].dev /\ s = ev[e].state
  BY DEF EngineInv, TypeOK, Flow
<1>2. /\ lastCmd' = [lastCmd EXCEPT ![t] = s] /\ logs' = logs
      /\ mixed' = IF Heals(e) THEN mixed \ {t} ELSE mixed
  BY <1>1 DEF Publish, Heals
<1>3. Moves(e) /\ ev[e].pc = "publish" /\ ev'[e].pc # "publish"
  BY PublishMoves, FinishActionMoves, IdleFlowIs DEF Continues, LetsGo, Publish
<1>4. lastCmd \in [Devices -> {"on", "off", "none"}] /\ Newest(d)' = Newest(d)
  BY <1>2 DEF EngineInv, TypeOK, Newest
<1>5. Sending(e, t)
  BY <1>1, <1>3 DEF Sending
<1>6. CASE d # t
  <2>1. \A k \in Threads : /\ Sending(k, d)' <=> Sending(k, d)
                           /\ Sending(k, d) => ev'[k].state = ev[k].state
    BY <1>1, <1>3, <1>6 DEF Sending, Moves
  <2>2. lastCmd'[d] = lastCmd[d] /\ logs'[d] = logs[d] /\ LogOf(d)
    BY <1>2, <1>4, <1>6, LogInvIs
  <2>3. QED
    BY <2>1, <2>2, LogStill
<1>7. CASE d = t /\ d \notin mixed
  <2>1. LogOf(d)
    BY <1>7, LogInvIs
  <2>2. \A k \in Threads : ~Sending(k, d)'
    BY <1>3, <1>5, <1>7, <2>1 DEF LogOf, Sending, Moves
  <2>3. lastCmd'[d] = s
    BY <1>2, <1>4, <1>7
  <2>4. "other" \in Newest(d) \/ s \in Newest(d)
    BY <1>1, <1>5, <1>7, <2>1 DEF LogOf
  <2>5. QED
    BY <1>4, <2>1, <2>2, <2>3, <2>4 DEF LogOf
<1>8. CASE d = t /\ d \in mixed
  <2>1. Heals(e)
    BY <1>2, <1>8
  <2>2. \A k \in Threads : ~Sending(k, d)'
    BY <1>1, <1>3, <1>8, <2>1 DEF Heals, Sending, Moves
  <2>3. lastCmd'[d] = s /\ Newest(d)' = {s}
    BY <1>1, <1>2, <1>4, <1>8, <2>1 DEF Heals
  <2>4. QED
    BY <2>2, <2>3 DEF LogOf
<1>9. QED
  BY <1>6, <1>7, <1>8

\* Other rows of the log: telemetry that reads as neither state, rows of the API.
LEMMA OtherRowLogged ==
  ASSUME EngineInv, RowsPast, LogInv, NEW t \in Devices, NEW v \in LogValue, LogRow(t, v),
         lastCmd' = lastCmd, NEW d \in Devices \ mixed, d = t => v = "other",
         \A k \in Threads : /\ Sending(k, d)' <=> Sending(k, d)
                            /\ Sending(k, d) => ev'[k].state = ev[k].state
  PROVE  LogOf(d)'
<1>1. LogOf(d) /\ TypeOK
  BY LogInvIs DEF EngineInv
<1>2. CASE d # t
  BY <1>1, <1>2, LogRowIs, LogStill
<1>3. CASE d = t
  <2>1. /\ "other" \in Newest(d)'
        /\ \A w \in Newest(d)' \ {"other"} : w \in Newest(d)
    BY <1>1, <1>3, NewestIs
  <2>2. QED
    BY <1>1, <2>1 DEF LogOf
<1>4. QED
  BY <1>2, <1>3

LEMMA LogInvStep == EngineInv /\ RowsPast /\ LogInv /\ [Next]_vars => LogInv'
<1> SUFFICES ASSUME EngineInv, RowsPast, LogInv, [Next]_vars, NEW d \in Devices \ mixed'
             PROVE  LogOf(d)'
  BY LogInvIs DEF LogInv, LogOf
<1>1. ASSUME NEW e \in Threads, EvaluateStep(e)
      PROVE  LogOf(d)'
  BY <1>1, LogCases, LogQuietKeeps, InsertLogged, PublishLogged, LogInvIs DEF LogQuiet
<1>2. ASSUME NEW e \in Threads, NEW t \in Devices, NEW v \in Readings, IngestTelemetry(e, t, v)
      PROVE  LogOf(d)'
  <2>1. /\ LogRow(t, v) /\ lastCmd' = lastCmd
        /\ mixed' = IF v = "other" THEN mixed ELSE mixed \cup {t}
    BY <1>2, Zenon DEF IngestTelemetry
  <2>2. d \notin mixed /\ (d = t => v = "other")
    BY <2>1
  <2>3. Moves(e) /\ ev[e].pc = "idle" /\ ev'[e].pc = "start" /\ v \in LogValue
    BY <1>2, IngestIs
  <2>4. \A k \in Threads : /\ Sending(k, d)' <=> Sending(k, d)
                           /\ Sending(k, d) => ev'[k].state = ev[k].state
    BY <2>3 DEF Moves, Sending
  <2>5. QED
    BY <2>1, <2>2, <2>3, <2>4, OtherRowLogged
<1>3. ASSUME NEW e \in Threads, NEW a \in Commanded, DirectCommand(e, a.dev, a.state)
      PROVE  LogOf(d)'
  <2>1. UNCHANGED <<logs, lastCmd, mixed>>
    BY <1>3, Zenon DEF DirectCommand, histVars
  <2>2. LogQuiet(e)
    BY <1>3, <2>1, TargetsAre, DirectIs DEF LogQuiet
  <2>3. QED
    BY <2>1, <2>2, LogQuietKeeps, LogInvIs
<1>4. ASSUME NEW m \in Managers, InstallRules(m)
      PROVE  LogOf(d)'
  <2>1. UNCHANGED <<logs, lastCmd, mixed>>
    BY <1>4, Zenon DEF InstallRules
  <2>2. \A k \in Threads : /\ Sending(k, d)' <=> Sending(k, d)
                           /\ Sending(k, d) => ev'[k].state = ev[k].state
    BY <1>4, InstallIs DEF Sending
  <2>3. QED
    BY <2>1, <2>2, LogStill, LogInvIs
<1>5. CASE ev' = ev /\ UNCHANGED <<logs, lastCmd, mixed>>
  BY <1>5, LogStill, LogInvIs DEF Sending
<1>6. ASSUME NEW a \in ApiLogs, ApiLog(a.dev, a.state)
      PROVE  LogOf(d)'
  <2>1. /\ LogRow(a.dev, a.state) /\ lastCmd' = lastCmd /\ ev' = ev
        /\ mixed' = mixed \cup {a.dev}
    BY <1>6, Zenon DEF ApiLog
  <2>2. d \notin mixed /\ d # a.dev
    BY <2>1
  <2>3. QED
    BY <2>1, <2>2, TargetsAre, OtherRowLogged DEF Sending
<1>7. CASE Crash
  <2>1. /\ logs' = logs /\ lastCmd' = lastCmd
        /\ mixed' = mixed \cup {ev[e].dev : e \in {k \in Threads : ev[k].pc = "publish"}}
        /\ \A k \in Threads : ev'[k] = IdleFlow
    BY <1>7 DEF Crash
  <2>2. \A k \in Threads : ~Sending(k, d)
    BY <2>1 DEF Sending
  <2>3. \A k \in Threads : ~Sending(k, d)'
    BY <2>1, IdleFlowIs DEF Sending
  <2>4. QED
    BY <2>1, <2>2, <2>3, LogStill, LogInvIs
<1>8. Manage \/ Tick \/ UNCHANGED vars => ev' = ev /\ UNCHANGED <<logs, lastCmd, mixed>>
  <2>1. Manage => ev' = ev /\ UNCHANGED <<logs, lastCmd, mixed>>
    BY ManageIs DEF engineVars, histVars
  <2>2. Tick => ev' = ev /\ UNCHANGED <<logs, lastCmd, mixed>>
    BY Zenon DEF Tick, histVars
  <2>3. UNCHANGED vars => ev' = ev /\ UNCHANGED <<logs, lastCmd, mixed>>
    BY DEF vars, engineVars, histVars
  <2>4. QED
    BY <2>1, <2>2, <2>3
<1>9. ASSUME NEW a \in Reports, DeviceReports(a.dev, a.state)
      PROVE  ev' = ev /\ UNCHANGED <<logs, lastCmd, mixed>>
  BY <1>9, Zenon DEF DeviceReports, histVars
<1>10. ASSUME NEW a \in ApiCommands, SendCommand(a.dev, a.state)
       PROVE  LogOf(d)'
  <2>1. /\ ev' = ev /\ logs' = logs /\ mixed' = mixed \cup {a.dev}
        /\ lastCmd' = [lastCmd EXCEPT ![a.dev] = a.state]
    BY <1>10, Zenon DEF SendCommand
  <2>2. d \notin mixed /\ d # a.dev /\ lastCmd'[d] = lastCmd[d]
    BY <2>1 DEF EngineInv, TypeOK
  <2>3. QED
    BY <2>1, <2>2, LogStill, LogInvIs DEF Sending
<1>11. ASSUME NEW a \in ApiLogs, NEW t \in Devices, NEW x \in logs[t],
              EditLog(t, x, a.dev, a.state)
       PROVE  LogOf(d)'
  <2>1. ev' = ev /\ lastCmd' = lastCmd
    BY <1>11, Zenon DEF EditLog
  <2>2. d \notin mixed /\ logs'[d] = logs[d]
    BY <1>11, EditLogIs, TargetsAre DEF EngineInv
  <2>3. QED
    BY <2>1, <2>2, LogStill, LogInvIs DEF Sending
<1>12. ASSUME NEW a \in ApiLogs, NEW x \in logs[a.dev], RemoveLog(a.dev, x)
       PROVE  LogOf(d)'
  <2>1. ev' = ev /\ lastCmd' = lastCmd
    BY <1>12, Zenon DEF RemoveLog
  <2>2. d \notin mixed /\ logs'[d] = logs[d]
    BY <1>12, RemoveLogIs, TargetsAre DEF EngineInv
  <2>3. QED
    BY <2>1, <2>2, LogStill, LogInvIs DEF Sending
<1>13. QED
  BY <1>1, <1>2, <1>3, <1>4, <1>5, <1>6, <1>7, <1>8, <1>9, <1>10, <1>11, <1>12 DEF Next

\* The rows stay in the past: the clock only moves on, and an edit keeps createdAt.
LEMMA RowsPastStep == EngineInv /\ RowsPast /\ [Next]_vars => RowsPast'
<1> SUFFICES ASSUME EngineInv, RowsPast, [Next]_vars
             PROVE  RowsPast'
  OBVIOUS
<1>0. TypeOK /\ now \in Int /\ \A d \in Devices : \A x \in logs[d] : x.at \in Int
  BY DEF EngineInv, TypeOK, LogRows, Time
<1>1. ASSUME logs' = logs, now' = now
      PROVE  RowsPast'
  BY <1>1 DEF RowsPast
<1>2. ASSUME NEW t \in Devices, NEW v \in LogValue, LogRow(t, v), now' = now
      PROVE  RowsPast'
  <2> SUFFICES ASSUME NEW d \in Devices, NEW x \in logs'[d]
               PROVE  x.at <= now
    BY <1>2 DEF RowsPast
  <2>1. x \in logs[d] \/ x = [at |-> now, val |-> v]
    BY <1>0, <1>2, LogRowIs
  <2>2. QED
    BY <1>0, <2>1 DEF RowsPast
<1>3. ASSUME NEW e \in Threads, EvaluateStep(e)
      PROVE  RowsPast'
  <2>1. now' = now
    BY <1>3, EvaluationCases, Zenon
    DEF Quiet, PassCooldown, Fires, UpdateRow, UpdateRowFails, TouchLastTriggered, Audit,
        AuditFails
  <2>2. CASE InsertLog(e)
    <3>1. LogRow(ev[e].dev, ev[e].state)
      BY <2>2 DEF InsertLog
    <3>2. ev[e].dev \in Devices /\ ev[e].state \in LogValue
      BY <1>0 DEF TypeOK, Flow, LogValue
    <3>3. QED
      BY <1>2, <2>1, <3>1, <3>2
  <2>3. CASE LogQuiet(e) \/ Publish(e)
    <3>1. logs' = logs
      BY <2>3, Zenon DEF LogQuiet, Publish
    <3>2. QED
      BY <1>1, <2>1, <3>1
  <2>4. QED
    BY <1>3, <2>2, <2>3, LogCases
<1>4. ASSUME NEW e \in Threads, NEW t \in Devices, NEW v \in Readings, IngestTelemetry(e, t, v)
      PROVE  RowsPast'
  <2>1. LogRow(t, v) /\ now' = now
    BY <1>4, Zenon DEF IngestTelemetry
  <2>2. QED
    BY <1>2, <1>4, <2>1, RuleEngineAssumption
<1>5. ASSUME NEW a \in ApiLogs, ApiLog(a.dev, a.state)
      PROVE  RowsPast'
  <2>1. LogRow(a.dev, a.state) /\ now' = now
    BY <1>5, Zenon DEF ApiLog
  <2>2. QED
    BY <1>2, <2>1, TargetsAre
<1>6. ASSUME NEW a \in ApiLogs, NEW t \in Devices, NEW x \in logs[t],
             EditLog(t, x, a.dev, a.state)
      PROVE  RowsPast'
  <2> SUFFICES ASSUME NEW d \in Devices, NEW y \in logs'[d]
               PROVE  y.at <= now
    BY <1>6, Zenon DEF RowsPast, EditLog
  <2>1. y \in logs[d] \/ y.at = x.at
    BY <1>0, <1>6, EditLogIs, TargetsAre
  <2>2. QED
    BY <2>1 DEF RowsPast
<1>7. ASSUME NEW a \in ApiLogs, NEW x \in logs[a.dev], RemoveLog(a.dev, x)
      PROVE  RowsPast'
  <2>1. now' = now /\ \A d \in Devices : logs'[d] \subseteq logs[d]
    BY <1>0, <1>7, RemoveLogIs, TargetsAre, Zenon DEF RemoveLog
  <2>2. QED
    BY <2>1 DEF RowsPast
<1>8. CASE Tick
  <2>1. logs' = logs /\ now' = now + 1
    BY <1>8, Zenon DEF Tick
  <2>2. QED
    BY <1>0, <2>1 DEF RowsPast
<1>9. ASSUME NEW e \in Threads, NEW a \in Commanded, DirectCommand(e, a.dev, a.state)
      PROVE  logs' = logs /\ now' = now
  BY <1>9, Zenon DEF DirectCommand
<1>10. ASSUME NEW m \in Managers, InstallRules(m)
       PROVE  logs' = logs /\ now' = now
  BY <1>10, Zenon DEF InstallRules
<1>11. ASSUME NEW d, NEW w, DeviceReports(d, w) \/ SendCommand(d, w)
       PROVE  logs' = logs /\ now' = now
  BY <1>11, Zenon DEF DeviceReports, SendCommand
<1>12. Manage \/ Crash \/ UNCHANGED vars => logs' = logs /\ now' = now
  <2>1. Manage => logs' = logs /\ now' = now
    BY ManageIs DEF engineVars
  <2>2. Crash => logs' = logs /\ now' = now
    BY Zenon DEF Crash
  <2>3. UNCHANGED vars => logs' = logs /\ now' = now
    BY DEF vars, engineVars
  <2>4. QED
    BY <2>1, <2>2, <2>3
<1>13. QED
  BY <1>1, <1>3, <1>4, <1>5, <1>6, <1>7, <1>8, <1>9, <1>10, <1>11, <1>12 DEF Next

LEMMA RowsPastInit == Init => RowsPast
<1>1. Init => logs = [d \in Devices |-> {}]
  BY Zenon DEF Init
<1>2. QED
  BY <1>1 DEF RowsPast

LEMMA LogInvInit == Init => LogInv
<1> SUFFICES ASSUME Init
             PROVE  LogInv
  OBVIOUS
<1>1. \A e \in Threads : ev[e].pc # "publish"
  BY IdleFlowIs DEF Init
<1>2. logs = [d \in Devices |-> {}]
  BY Zenon DEF Init
<1>3. \A d \in Devices : Newest(d) = {}
  BY <1>2 DEF Newest
<1>4. QED
  BY <1>1, <1>3 DEF LogInv, Sending

(***************************************************************************)
(* For any devices, rules, commands and flows: the device log of a device  *)
(* that nothing mixed up names the last command, once none is on its way.  *)
(***************************************************************************)
THEOREM CommandFollowsLogCorrect == Spec => []CommandFollowsLog
<1>1. EngineInv /\ LogInv => CommandFollowsLog
  <2> SUFFICES ASSUME LogInv, NEW d \in Devices, LogIsSure(d)
               PROVE  lastCmd[d] \in Newest(d)
    BY DEF CommandFollowsLog
  <2>1. LogOf(d) /\ \A e \in Threads : ~Sending(e, d)
    BY LogInvIs DEF LogIsSure, Sending
  <2>2. QED
    BY <2>1 DEF LogOf, LogIsSure
<1>2. QED
  BY <1>1, EngineInvInit, EngineInvStep, RowsPastInit, RowsPastStep, LogInvInit, LogInvStep, PTL
  DEF Spec

\* What a sure log names is the last command, and nothing else.
LEMMA SureLogNames ==
  ASSUME LogInv, NEW d \in Devices, LogIsSure(d), NEW s \in {"on", "off"}, ReadsAs(d, s)
  PROVE  lastCmd[d] = s
<1>1. LogOf(d) /\ (\A e \in Threads : ~Sending(e, d)) /\ Newest(d) # {}
      /\ "other" \notin Newest(d)
  BY LogInvIs DEF LogIsSure, Sending
<1>2. s \in Newest(d)
  BY <1>1 DEF ReadsAs
<1>3. QED
  BY <1>1, <1>2 DEF LogOf

\* Nothing but the action loop takes a flow on from an action.
LEMMA OnlyLoopSkips ==
  ASSUME EngineInv, [Next]_vars, NEW e \in Threads, ev[e].pc = "target",
         ev'[e].pc \in {"target", "row"}, <<ev'[e].pc, ev'[e].idx>> # <<ev[e].pc, ev[e].idx>>
  PROVE  SkipAction(e)
<1>1. ev'[e] # ev[e]
  OBVIOUS
<1>2. ASSUME NEW k \in Threads, EvaluateStep(k)
      PROVE  SkipAction(e)
  <2>1. k = e
    <3>1. Moves(k)
      BY <1>2, LogCases, InsertLogMoves, PublishMoves, FinishActionMoves
      DEF LogQuiet, Continues, LetsGo
    <3>2. QED
      BY <1>1, <3>1 DEF Moves
  <2>2. ~Evaluate(e) /\ ~InsertLog(e) /\ ~InsertFails(e) /\ ~Publish(e) /\ ~UpdateRow(e)
        /\ ~UpdateRowFails(e) /\ ~TouchLastTriggered(e) /\ ~Audit(e) /\ ~AuditFails(e)
        /\ ~LogFailure(e)
    BY Zenon DEF Evaluate, InsertLog, InsertFails, Publish, UpdateRow, UpdateRowFails,
                 TouchLastTriggered, Audit, AuditFails, LogFailure
  <2>3. \A r \in Rules : ~SkipRule(e, r) /\ ~PassCooldown(e, r)
    BY Zenon DEF SkipRule, PassCooldown
  <2>4. \A passed \in BOOLEAN : ~Conditions(e, passed)
    BY Zenon DEF Conditions
  <2>5. \A readable \in BOOLEAN : ~TakeAction(e, readable)
    BY TakeActionMoves
  <2>6. QED
    BY <1>2, <2>1, <2>2, <2>3, <2>4, <2>5, Zenon DEF EvaluateStep
<1>3. ASSUME NEW k \in Threads, Moves(k), ev[k].rule = NoRule
      PROVE  FALSE
  <2>1. Holds(e) /\ NoRule \notin Rules
    BY RuleEngineAssumption DEF EngineInv, HoldsEntries
  <2>2. k # e
    BY <1>3, <2>1 DEF Holds
  <2>3. QED
    BY <1>1, <1>3, <2>2 DEF Moves
<1>4. ASSUME NEW m \in Managers, InstallRules(m)
      PROVE  FALSE
  BY <1>4, InstallIs
<1>5. Manage => FALSE
  BY <1>1, ManageIs DEF engineVars
<1>6. Tick => FALSE
  BY <1>1, Zenon DEF Tick
<1>7. Crash => FALSE
  BY IdleFlowIs DEF Crash
<1>8. QED
  BY <1>1, <1>2, <1>3, <1>4, <1>5, <1>6, <1>7, OtherCases

(***************************************************************************)
(* For any devices, rules and flows: an action whose target reads as       *)
(* already switched is skipped only for a device that was last told so.    *)
(***************************************************************************)
THEOREM SkippedTargetsCorrect == Spec => SkippedTargetsAgree
<1> DEFINE Agree ==
      \A e \in Threads :
        ev[e].pc = "target" /\ ev'[e].pc \in {"target", "row"}
          /\ <<ev'[e].pc, ev'[e].idx>> # <<ev[e].pc, ev[e].idx>>
          => LET a == Actions(e)[ev[e].idx]
             IN LogIsSure(a.dev) => lastCmd[a.dev] = a.state
<1>1. ASSUME EngineInv, LogInv, [Next]_vars
      PROVE  [Agree]_vars
  <2> SUFFICES ASSUME NEW e \in Threads, ev[e].pc = "target", ev'[e].pc \in {"target", "row"},
                      <<ev'[e].pc, ev'[e].idx>> # <<ev[e].pc, ev[e].idx>>,
                      LogIsSure(Actions(e)[ev[e].idx].dev)
               PROVE  lastCmd[Actions(e)[ev[e].idx].dev] = Actions(e)[ev[e].idx].state
    BY Zenon
  <2>1. SkipAction(e)
    BY <1>1, OnlyLoopSkips
  <2>2. ev[e].rule \in Rules
    <3>1. Holds(e)
      BY <1>1 DEF EngineInv, HoldsEntries
    <3>2. QED
      BY <3>1 DEF Holds
  <2>3. PICK a \in Target : a = Actions(e)[ev[e].idx]
    BY <1>1, <2>2, AtAnAction DEF Passed
  <2>4. ReadsAs(a.dev, a.state) /\ a.dev \in Devices /\ a.state \in {"on", "off"}
    BY <2>1, <2>3 DEF SkipAction, Target
  <2>5. QED
    BY <1>1, <2>3, <2>4, SureLogNames
<1>2. QED
  BY <1>1, EngineInvInit, EngineInvStep, RowsPastInit, RowsPastStep, LogInvInit, LogInvStep, PTL
  DEF Spec, SkippedTargetsAgree

=============================================================================
