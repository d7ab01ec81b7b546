------------------------------ MODULE RuleEngine ------------------------------
(***************************************************************************)
(* The automation rule engine: telemetry ingest, RuleEngine.evaluate, the  *)
(* device log and the MQTT commands, beside the management operations of   *)
(* RuleStore.                                                              *)
(*                                                                         *)
(* TelemetryService starts one evaluation per telemetry message and does   *)
(* not wait for it: evaluations interleave at every await.  A thread is    *)
(* one such flow.  A cached rule is a shared mutable object: a flow that   *)
(* took its candidates from the current RuleCache array sees               *)
(* touchLastTriggered, one whose array a refresh has replaced does not.    *)
(***************************************************************************)
EXTENDS RuleStore, Integers, Sequences

CONSTANTS
  Threads,    \* flows that handle a telemetry message or a direct command
  Devices,    \* device ids
  Def,        \* Def[v]: trigger device, actions and cooldown of variant v
  MaxTime,    \* bound on the clock
  Readings,   \* telemetry values, as shouldSkipAction reads them
  Commanded,  \* what flows other than the rule engine switch to which state
  Reports,    \* states devices report on their MQTT state topic
  ApiCommands,\* commands that POST /mqtt/commands publishes
  ApiLogs,    \* contents that the device log's own routes write
  NoRule      \* no rule

Time == 0 .. MaxTime

Target == [dev : Devices, state : {"on", "off"}]

\* What a device_logs row may say; "other" is a value that is neither on nor
\* off.  Rows of one tick with one content are one element.
LogValue == {"on", "off", "other"}

LogRows == [at : Time, val : LogValue]

ASSUME RuleEngineAssumption ==
  /\ MaxTime \in Nat
  /\ Stamps = Time \cup {Never}
  /\ Never \notin Int
  /\ NoRule \notin Rules
  /\ Readings \subseteq LogValue
  /\ Commanded \cup Reports \cup ApiCommands \cup ApiLogs \subseteq Target
  /\ Def \in [Variants -> [trigger : Devices, cooldown : Nat,
                           actions : Seq(Target)]]
  /\ \A v \in Variants : Def[v].actions # <<>>

VARIABLES
  now,        \* the clock, in the unit of cooldownSec
  logs,       \* logs[d]: the rows of device_logs for d, with their createdAt
  reported,   \* MQTTService.lastStateByDevice
  lastCmd,    \* lastCmd[d]: the last command published to d
  ev,         \* ev[e]: the flow of thread e
  fired,      \* history: when r last ran through all its actions
  audited,    \* when the newest successful rule_execution_logs row says so
  tooSoon,    \* history: rules that fired twice within their cooldown
  disturbed,  \* history: what happened to the evaluations of r (Disturbance)
  mixed       \* history: devices whose log and commands may have parted

engineVars == <<now, logs, reported, lastCmd, ev, fired, audited>>
histVars == <<tooSoon, disturbed, mixed>>
vars == <<storeVars, engineVars, histVars>>

\* What can come between a firing and the next cooldown check or audit row:
\* two evaluations of the rule overlap, or one checks a cached object that is no
\* longer the cache's; its stamp is not recorded where the next check reads it;
\* its execution log row is not written.
Disturbance == {"overlap", "stale", "lostStamp", "lostAudit"}

PC == {"idle", "start", "check", "conditions", "target", "insert", "publish",
       "row", "touch", "audit", "failed"}

IdleFlow == [pc |-> "idle", dev |-> CHOOSE d \in Devices : TRUE, todo |-> {},
             rule |-> NoRule, idx |-> 1, attached |-> TRUE,
             view |-> EmptyCache, stamp |-> Never, state |-> "on"]

\* dev: the device of the telemetry in "start", the target of the command in
\* "insert" and "publish".  todo: the candidates left.  attached: the flow's
\* candidates still are the objects in RuleCache.rules; otherwise they are view.
Flow == [pc : PC, dev : Devices, todo : SUBSET Rules, rule : Rules \cup {NoRule},
         idx : Nat, attached : BOOLEAN, view : [Rules -> Cached],
         stamp : Stamps, state : {"on", "off"}]

TypeOK ==
  /\ StoreTypeOK
  /\ now \in Time
  /\ logs \in [Devices -> SUBSET LogRows]
  /\ reported \in [Devices -> {"on", "off", "none"}]
  /\ lastCmd \in [Devices -> {"on", "off", "none"}]
  /\ ev \in [Threads -> Flow]
  /\ fired \in [Rules -> Stamps]
  /\ audited \in [Rules -> Stamps]
  /\ tooSoon \subseteq Rules
  /\ disturbed \in [Rules -> SUBSET Disturbance]
  /\ mixed \subseteq Devices

Init ==
  /\ StoreInit
  /\ now = 0
  /\ logs = [d \in Devices |-> {}]
  /\ reported = [d \in Devices |-> "none"]
  /\ lastCmd = [d \in Devices |-> "none"]
  /\ ev = [e \in Threads |-> IdleFlow]
  /\ fired = [r \in Rules |-> Never]
  /\ audited = [r \in Rules |-> Never]
  /\ tooSoon = {}
  /\ disturbed = [r \in Rules |-> {}]
  /\ mixed = {}
-----------------------------------------------------------------------------
Marked(rs, cause) ==
  [r \in Rules |-> IF r \in rs THEN disturbed[r] \cup {cause} ELSE disturbed[r]]

\* The cached rule object flow e holds for r.
Object(e, r) == IF ev[e].attached THEN cache[r] ELSE ev[e].view[r]

Actions(e) == Def[Object(e, ev[e].rule).variant].actions

InCooldown(entry, t) ==
  /\ entry.last # Never
  /\ t - entry.last < Def[entry.variant].cooldown

\* The flow after evaluateOne returned or its failure was logged: the next
\* candidate, or the end.
NextCandidate(f) ==
  IF f.todo = {} THEN IdleFlow
  ELSE [f EXCEPT !.pc = "check", !.rule = NoRule, !.idx = 1, !.stamp = Never,
                 !.dev = IdleFlow.dev, !.state = IdleFlow.state]

\* What the newest row may be found to say.  created_at has a resolution of one
\* tick, and "ORDER BY createdAt DESC" does not order the rows of one tick.
Newest(d) == {x.val : x \in {y \in logs[d] : \A z \in logs[d] : z.at <= y.at}}

\* A row is written to device_logs.
LogRow(d, v) == logs' = [logs EXCEPT ![d] = @ \cup {[at |-> now, val |-> v]}]

\* Another row of this tick differs: which of the two is newer cannot be told.
Tied(d, v) == \E x \in logs[d] : x.at = now /\ x.val # v

-----------------------------------------------------------------------------
\* Telemetry of value v arrives and its row is written; a failure ends the
\* handler.  A reading of 1 or 0 looks like a switched state in the log.
IngestTelemetry(e, d, v) ==
  /\ ev[e].pc = "idle"
  /\ LogRow(d, v)
  /\ ev' = [ev EXCEPT ![e] = [IdleFlow EXCEPT !.pc = "start", !.dev = d]]
  /\ mixed' = IF v = "other" THEN mixed ELSE mixed \cup {d}
  /\ UNCHANGED <<storeVars, now, reported, lastCmd, fired, audited, tooSoon,
                 disturbed>>

\* evaluate: the candidates are taken from the cache at once.
Evaluate(e) ==
  /\ ev[e].pc = "start"
  /\ LET candidates == {r \in Rules :
                          /\ cache[r] # NotCached
                          /\ Def[cache[r].variant].trigger = ev[e].dev}
     IN ev' = [ev EXCEPT ![e] = NextCandidate([@ EXCEPT !.todo = candidates])]
  /\ UNCHANGED <<storeVars, now, logs, reported, lastCmd, fired, audited,
                 histVars>>

\* evaluateOne up to its cooldown check, for one of the candidates left.
SkipRule(e, r) ==
  /\ ev[e].pc = "check"
  /\ r \in ev[e].todo
  \* the telemetry lacks the trigger's metric, or the rule is cooling down
  /\ ev' = [ev EXCEPT ![e] = NextCandidate([@ EXCEPT !.todo = ev[e].todo \ {r}])]
  /\ UNCHANGED <<storeVars, now, logs, reported, lastCmd, fired, audited,
                 histVars>>

PassCooldown(e, r) ==
  /\ ev[e].pc = "check"
  /\ r \in ev[e].todo
  /\ ~InCooldown(Object(e, r), now)
  /\ ev' = [ev EXCEPT ![e].pc = "conditions", ![e].rule = r,
                      ![e].todo = @ \ {r}]
  /\ disturbed' =
       IF \E k \in Threads \ {e} : ev[k].rule = r THEN Marked({r}, "overlap")
       ELSE IF Object(e, r) # cache[r] THEN Marked({r}, "stale")
       ELSE disturbed
  /\ UNCHANGED <<storeVars, now, logs, reported, lastCmd, fired, audited,
                 tooSoon, mixed>>

\* The conditions are read (one query per foreign device) and combined.
Conditions(e, passed) ==
  /\ ev[e].pc = "conditions"
  /\ ev' = [ev EXCEPT ![e] = IF passed THEN [@ EXCEPT !.pc = "target"]
                                       ELSE NextCandidate(@)]
  /\ UNCHANGED <<storeVars, now, logs, reported, lastCmd, fired, audited,
                 histVars>>

\* The end of the action loop's body: the next action, or the firing itself.
FinishAction(e) ==
  LET r == ev[e].rule
      last == ev[e].idx = Len(Actions(e))
  IN /\ ev' = [ev EXCEPT ![e] =
                 IF last THEN [@ EXCEPT !.pc = "row", !.stamp = now]
                 ELSE [@ EXCEPT !.pc = "target", !.idx = ev[e].idx + 1]]
     /\ fired' = IF last THEN [fired EXCEPT ![r] = now] ELSE fired
     /\ tooSoon' =
          IF /\ last
             /\ fired[r] # Never
             /\ now - fired[r] < Def[Object(e, r).variant].cooldown
          THEN tooSoon \cup {r} ELSE tooSoon

\* Mutant: the reported state is looked at before the log.
ReadsAsReported(d, s) ==
  \/ reported[d] = s
  \/ reported[d] = "none" /\ s \in Newest(d)

\* shouldSkipAction: what one read of the target may return.
ReadsAs(d, s) ==
  \/ s \in Newest(d)
  \/ /\ Newest(d) = {} \/ "other" \in Newest(d)
     /\ reported[d] = s

SkipAction(e) ==
  LET a == Actions(e)[ev[e].idx]
  IN /\ ev[e].pc = "target"
     /\ ReadsAs(a.dev, a.state)
     /\ FinishAction(e)
     /\ UNCHANGED <<storeVars, now, logs, reported, lastCmd, audited,
                    disturbed, mixed>>

\* The target reads as in another state or in none, or the read fails.
TakeAction(e, readable) ==
  LET a == Actions(e)[ev[e].idx]
  IN /\ ev[e].pc = "target"
     /\ readable => \E s \in {"on", "off", "none"} \ {a.state} : ReadsAs(a.dev, s)
     /\ ev' = [ev EXCEPT ![e].pc = "insert", ![e].dev = a.dev,
                         ![e].state = a.state]
     /\ UNCHANGED <<storeVars, now, logs, reported, lastCmd, fired, audited,
                    histVars>>

\* The other flows that switch an actuator (the chat tool, a schedule job) take
\* the same two steps: device log row, then MQTT command.
DirectCommand(e, d, s) ==
  /\ ev[e].pc = "idle"
  /\ ev' = [ev EXCEPT ![e] = [IdleFlow EXCEPT !.pc = "insert", !.dev = d,
                                              !.state = s]]
  /\ UNCHANGED <<storeVars, now, logs, reported, lastCmd, fired, audited,
                 histVars>>

InsertLog(e) ==
  LET d == ev[e].dev
      s == ev[e].state
  IN /\ ev[e].pc = "insert"
     /\ LogRow(d, s)
     /\ ev' = [ev EXCEPT ![e].pc = "publish"]
     /\ mixed' = IF Tied(d, s) \/ \E k \in Threads : ev[k].pc = "publish"
                                                     /\ ev[k].dev = d
                 THEN mixed \cup {d} ELSE mixed
     /\ UNCHANGED <<storeVars, now, reported, lastCmd, fired, audited, tooSoon,
                    disturbed>>

\* Mutant: the error is swallowed and the command is sent all the same.
InsertFailsSilently(e) ==
  /\ ev[e].pc = "insert"
  /\ ev' = [ev EXCEPT ![e].pc = "publish"]
  /\ UNCHANGED <<storeVars, now, logs, reported, lastCmd, fired, audited,
                 histVars>>

\* DeviceLogService.create throws: the device is gone, or the database failed.
InsertFails(e) ==
  /\ ev[e].pc = "insert"
  /\ ev' = [ev EXCEPT ![e] = IF ev[e].rule = NoRule THEN IdleFlow
                             ELSE [@ EXCEPT !.pc = "failed"]]
  /\ UNCHANGED <<storeVars, now, logs, reported, lastCmd, fired, audited,
                 histVars>>

\* A command that goes out alone, and whose row is the newest, brings log and
\* command together again.
Publish(e) ==
  /\ ev[e].pc = "publish"
  /\ lastCmd' = [lastCmd EXCEPT ![ev[e].dev] = ev[e].state]
  /\ mixed' = IF /\ Newest(ev[e].dev) = {ev[e].state}
                 /\ \A k \in Threads \ {e} : ev[k].pc = "publish"
                                              => ev[k].dev # ev[e].dev
              THEN mixed \ {ev[e].dev} ELSE mixed
  /\ IF ev[e].rule = NoRule
     THEN /\ ev' = [ev EXCEPT ![e] = IdleFlow]
          /\ UNCHANGED <<fired, tooSoon>>
     ELSE FinishAction(e)
  /\ UNCHANGED <<storeVars, now, logs, reported, audited, disturbed>>

\* RuleModel.update: a bulk update, which misses soft-deleted rows.  The column
\* keeps whole seconds; a tick is no shorter.
UpdateRow(e) ==
  LET r == ev[e].rule
  IN /\ ev[e].pc = "row"
     /\ rules' = IF Live(r) THEN [rules EXCEPT ![r].last = ev[e].stamp] ELSE rules
     /\ disturbed' = IF Live(r) THEN disturbed ELSE Marked({r}, "lostStamp")
     /\ ev' = [ev EXCEPT ![e].pc = "touch"]
     /\ UNCHANGED <<cache, mpc, mop, msnap, alone, trusted, now, logs,
                    reported, lastCmd, fired, audited, tooSoon, mixed>>

\* It throws: neither the cache nor the execution log hears of the firing.
UpdateRowFails(e) ==
  /\ ev[e].pc = "row"
  /\ disturbed' = [disturbed EXCEPT ![ev[e].rule] = @ \cup {"lostStamp", "lostAudit"}]
  /\ ev' = [ev EXCEPT ![e].pc = "failed"]
  /\ UNCHANGED <<storeVars, now, logs, reported, lastCmd, fired, audited,
                 tooSoon, mixed>>

\* Mutants: the cache keeps the old stamp; an entry is made for a rule that has
\* none; a rule that has none ends the evaluation.
TouchNothing(e) ==
  /\ ev[e].pc = "touch"
  /\ ev' = [ev EXCEPT ![e].pc = "audit"]
  /\ UNCHANGED <<storeVars, now, logs, reported, lastCmd, fired, audited,
                 histVars>>

TouchUpserts(e) ==
  LET r == ev[e].rule
  IN /\ ev[e].pc = "touch"
     /\ cache' = IF cache[r] = NotCached
                 THEN [cache EXCEPT ![r] = [last |-> ev[e].stamp]]
                 ELSE [cache EXCEPT ![r].last = ev[e].stamp]
     /\ ev' = [ev EXCEPT ![e].pc = "audit"]
     /\ UNCHANGED <<rules, mpc, mop, msnap, alone, trusted, now, logs,
                    reported, lastCmd, fired, audited, histVars>>

TouchOrReturn(e) ==
  LET r == ev[e].rule
      hit == cache[r] # NotCached
  IN /\ ev[e].pc = "touch"
     /\ cache' = IF hit THEN [cache EXCEPT ![r].last = ev[e].stamp] ELSE cache
     /\ ev' = [ev EXCEPT ![e] = IF hit THEN [@ EXCEPT !.pc = "audit"]
                                 ELSE NextCandidate(@)]
     /\ UNCHANGED <<rules, mpc, mop, msnap, alone, trusted, now, logs,
                    reported, lastCmd, fired, audited, histVars>>

\* touchLastTriggered finds the rule by id in the array current now.
TouchLastTriggered(e) ==
  LET r == ev[e].rule
  IN /\ ev[e].pc = "touch"
     /\ cache' = IF cache[r] = NotCached THEN cache
                 ELSE [cache EXCEPT ![r].last = ev[e].stamp]
     /\ ev' = [ev EXCEPT ![e].pc = "audit"]
     /\ UNCHANGED <<rules, mpc, mop, msnap, alone, trusted, now, logs,
                    reported, lastCmd, fired, audited, histVars>>

\* The success row of rule_execution_logs.
Audit(e) ==
  /\ ev[e].pc = "audit"
  /\ audited' = [audited EXCEPT ![ev[e].rule] = ev[e].stamp]
  /\ ev' = [ev EXCEPT ![e] = NextCandidate(@)]
  /\ UNCHANGED <<storeVars, now, logs, reported, lastCmd, fired, histVars>>

AuditFails(e) ==
  /\ ev[e].pc = "audit"
  /\ ev' = [ev EXCEPT ![e].pc = "failed"]
  /\ disturbed' = Marked({ev[e].rule}, "lostAudit")
  /\ UNCHANGED <<storeVars, now, logs, reported, lastCmd, fired, audited,
                 tooSoon, mixed>>

\* evaluate's catch: a failure row is tried, then the next candidate.
LogFailure(e) ==
  /\ ev[e].pc = "failed"
  /\ ev' = [ev EXCEPT ![e] = NextCandidate(@)]
  /\ UNCHANGED <<storeVars, now, logs, reported, lastCmd, fired, audited,
                 histVars>>

-----------------------------------------------------------------------------
\* A refresh replaces the array: flows under way keep the objects they took.
Detached(f) ==
  IF f.attached /\ f.pc \notin {"idle", "start"}
  THEN [f EXCEPT !.attached = FALSE, !.view = cache] ELSE f

\* A copy read before a firing was stamped, and installed after it, forgets it.
InstallRules(m) ==
  /\ SetRules(m)
  /\ ev' = [e \in Threads |-> Detached(ev[e])]
  /\ disturbed' = Marked({r \in Rules : /\ msnap[m][r] # NotCached
                                        /\ msnap[m][r].last # rules[r].last},
                         "lostStamp")
  /\ UNCHANGED <<now, logs, reported, lastCmd, fired, audited, tooSoon, mixed>>

Manage ==
  /\ \E m \in Managers :
       Lookup(m) \/ CreateRule(m) \/ Commit(m) \/ ReadRows(m) \/ Abort(m)
  /\ UNCHANGED <<engineVars, histVars>>

\* A retained or live message on the device's state topic.
DeviceReports(d, s) ==
  /\ reported' = [reported EXCEPT ![d] = s]
  /\ UNCHANGED <<storeVars, now, logs, lastCmd, ev, fired, audited, histVars>>

\* POST /mqtt/commands publishes a command and writes no row.
SendCommand(d, s) ==
  /\ lastCmd' = [lastCmd EXCEPT ![d] = s]
  /\ mixed' = mixed \cup {d}
  /\ UNCHANGED <<storeVars, now, logs, reported, ev, fired, audited, tooSoon,
                 disturbed>>

\* The device log's own routes, and the chat tool create_device_log, send no
\* command.  A row is written,
ApiLog(d, v) ==
  /\ LogRow(d, v)
  /\ mixed' = mixed \cup {d}
  /\ UNCHANGED <<storeVars, now, reported, lastCmd, ev, fired, audited,
                 tooSoon, disturbed>>

\* given another content, another device or both (its createdAt stays),
EditLog(d, x, dev, v) ==
  /\ x \in logs[d]
  /\ \E others \in {logs[d], logs[d] \ {x}} :
       logs' = [logs EXCEPT ![d] = others, ![dev] = @ \cup {[x EXCEPT !.val = v]}]
  /\ mixed' = mixed \cup {d, dev}
  /\ UNCHANGED <<storeVars, now, reported, lastCmd, ev, fired, audited,
                 tooSoon, disturbed>>

\* or removed.  A row of the same tick and content may stay.
RemoveLog(d, x) ==
  /\ x \in logs[d]
  /\ \E others \in {logs[d], logs[d] \ {x}} : logs' = [logs EXCEPT ![d] = others]
  /\ mixed' = mixed \cup {d}
  /\ UNCHANGED <<storeVars, now, reported, lastCmd, ev, fired, audited,
                 tooSoon, disturbed>>

Tick ==
  /\ now < MaxTime
  /\ now' = now + 1
  /\ UNCHANGED <<storeVars, logs, reported, lastCmd, ev, fired, audited,
                 histVars>>

\* The process dies: every flow is cut at its current await.
Crash ==
  /\ StoreRestart
  /\ ev' = [e \in Threads |-> IdleFlow]
  /\ reported' = [d \in Devices |-> "none"]
  /\ disturbed' = [r \in Rules |->
       disturbed[r]
         \cup (IF \E e \in Threads : ev[e].pc = "row" /\ ev[e].rule = r
               THEN {"lostStamp"} ELSE {})
         \cup (IF \E e \in Threads : ev[e].pc \in {"row", "touch", "audit"}
                                       /\ ev[e].rule = r
               THEN {"lostAudit"} ELSE {})]
  /\ mixed' = mixed \cup {ev[e].dev : e \in {k \in Threads : ev[k].pc = "publish"}}
  /\ UNCHANGED <<now, logs, lastCmd, fired, audited, tooSoon>>

EvaluateStep(e) ==
  \/ Evaluate(e)
  \/ \E r \in Rules : SkipRule(e, r) \/ PassCooldown(e, r)
  \/ \E passed \in BOOLEAN : Conditions(e, passed)
  \/ SkipAction(e)
  \/ \E readable \in BOOLEAN : TakeAction(e, readable)
  \/ InsertLog(e) \/ InsertFails(e) \/ Publish(e)
  \/ UpdateRow(e) \/ UpdateRowFails(e) \/ TouchLastTriggered(e)
  \/ Audit(e) \/ AuditFails(e) \/ LogFailure(e)

Next ==
  \/ \E e \in Threads :
       \/ \E d \in Devices, v \in Readings : IngestTelemetry(e, d, v)
       \/ \E a \in Commanded : DirectCommand(e, a.dev, a.state)
       \/ EvaluateStep(e)
  \/ \E m \in Managers : InstallRules(m)
  \/ Manage
  \/ \E a \in Reports : DeviceReports(a.dev, a.state)
  \/ \E a \in ApiCommands : SendCommand(a.dev, a.state)
  \/ \E a \in ApiLogs :
       \/ ApiLog(a.dev, a.state)
       \/ \E d \in Devices : \E x \in logs[d] : EditLog(d, x, a.dev, a.state)
       \/ \E x \in logs[a.dev] : RemoveLog(a.dev, x)
  \/ Tick
  \/ Crash

\* No fairness: the properties below are safety properties.
Spec == Init /\ [][Next]_vars

-----------------------------------------------------------------------------
(***************************************************************************)
(* The cooldown holds across refreshes, toggles, edits, failed actions and *)
(* restarts: a rule fires twice within it only if two of its evaluations   *)
(* overlapped, one of them checked an object that a refresh had replaced,  *)
(* or the stamp of a firing did not reach the row or was overwritten in    *)
(* the cache by a refresh that had read the row before (isInCooldown,      *)
(* touchLastTriggered, refreshCache).                                      *)
(***************************************************************************)
CooldownKept ==
  \A r \in tooSoon : disturbed[r] \cap {"overlap", "stale", "lostStamp"} # {}

(***************************************************************************)
(* A firing leaves its success row in rule_execution_logs, except when     *)
(* that insert or the update of the stamp before it threw, the process     *)
(* died before it, or evaluations of the rule overlapped.  A refresh, an   *)
(* edit or a removal of the rule meanwhile is no excuse.                   *)
(***************************************************************************)
FiringsAudited ==
  \A r \in Rules :
    /\ disturbed[r] \cap {"overlap", "lostAudit"} = {}
    /\ \A e \in Threads : ev[e].rule # r
    => audited[r] = fired[r]

(***************************************************************************)
(* With no command on its way, the device log that shouldSkipAction, the   *)
(* API and the LLM read names the last command sent to the device.  Log    *)
(* and command part only where two flows switched the device at once, its  *)
(* own telemetry reads as a state, rows of one second differ, the process  *)
(* died between the log and the command, a command was sent through POST   *)
(* /mqtt/commands, or a row was written, edited or removed through the     *)
(* device log's routes or tool; the next command that goes out alone, its  *)
(* row the newest, ends the excuse.                                        *)
(***************************************************************************)
LogIsSure(d) ==
  /\ d \notin mixed
  /\ \A e \in Threads : ev[e].pc = "publish" => ev[e].dev # d
  /\ Newest(d) # {} /\ "other" \notin Newest(d)

CommandFollowsLog ==
  \A d \in Devices : LogIsSure(d) => lastCmd[d] \in Newest(d)

(***************************************************************************)
(* An action is skipped only when the device was last told to be in the    *)
(* desired state: "target already in desired state", for the devices       *)
(* CommandFollowsLog covers.                                               *)
(***************************************************************************)
SkippedTargetsAgree ==
  [][\A e \in Threads :
       ev[e].pc = "target" /\ ev'[e].pc \in {"target", "row"}
         /\ <<ev'[e].pc, ev'[e].idx>> # <<ev[e].pc, ev[e].idx>>
         => LET a == Actions(e)[ev[e].idx]
            IN LogIsSure(a.dev) => lastCmd[a.dev] = a.state]_vars
=============================================================================
