# Ginem API — formal models

TLA+ models of the Ginem API server (`src/`): a Node.js process that keeps smart-home
devices in MySQL, talks to them over MQTT, evaluates automation rules on their
telemetry, runs scheduled jobs through BullMQ/Redis, and answers chat turns from the
web, a WebSocket and WhatsApp through a RabbitMQ queue and an LLM agent.

Everything runs on one event loop. Nothing runs in parallel, and everything
interleaves: any two flows may be cut at any `await`. The state the process shares
with itself (caches, timers, sockets) dies with it; tables, Redis and broker queues
survive. Those two facts are what the models are about.

## Inventory

| Component (source) | State | Operations | Talks to | What is hard | What makes it correct |
|---|---|---|---|---|---|
| Rule management, rule cache (`services/rule/RuleManagement`, `RuleCache`) | `rules` tables; `RuleCache.rules`, an array in memory | create, update, setActive, remove, refreshCache (boot and after every commit) | rule engine reads the cache | two refreshes overlap; the commit succeeds and the refresh fails; restart | the cache is exact once a refresh met no other; an edit keeps the toggle |
| Rule engine (`services/rule/RuleEngine`, `mqtt/Telemetry`) | cached rule objects, `last_triggered_at`, `rule_execution_logs` | evaluate, evaluateOne, shouldSkipAction, touchLastTriggered | device log, MQTT, cache | evaluations are not serialised; check and stamp are awaits apart; a refresh swaps the array underneath | the cooldown holds; a firing leaves its audit row; only actions already in effect are skipped |
| Device log, MQTT commands (`device/DeviceLog`, `mqtt/MQTT`) | `device_logs`; `lastStateByDevice` | create, edit and remove rows, publish command (with a row or without), note reported states | rule engine, schedule worker, chat tools, REST | row and command are two steps, or one without the other; rows of one second tie | the newest row names the last command |
| Device schedule (`mcp/DeviceSchedule`, `scheduler/*`) | `scheduler_logs`; BullMQ jobs and repeatable set in Redis | schedule once / repeat, enqueue, recover at boot, execute, record, remove log | MQTT, device log | table and queue are not transactional; recovery runs beside the worker; crash at any await; stalled jobs | no schedule lost; once jobs run once, not early, and are settled |
| Schedule date and time (`scheduler/deviceSchedule.datetime`) | none | parse and convert dates, times, repeat rules | schedule | WIB offset, day boundaries | conversions agree with the calendar |
| Chat broker (`services/rabbitmq/*`) | channel, connection, consumer tag, `started`; chat queue and reply queues in RabbitMQ | requestChat, onQueuedMessage, initialize, shutdown, getRabbitChannel | REST, WebSocket, WhatsApp, chat service | timer races reply and publication; redelivery after a crash; full buffer; lost channel | every caller is answered; a turn is processed once unless the process died |
| Chat service, memory, TTS (`services/chat`) | `chat_messages` | query, remember, speech | LLM agent, MCP tools, RAG | turns of one session overlap; the second insert fails; rows of one second tie | a turn is given its own session's latest messages; no reply without its question |
| Chat WebSocket (`services/websocket/ChatSocket`) | open sockets, `isAlive` marks | upgrade, message, heartbeat, shutdown | chat broker | a peer that vanishes; a close while a turn is in flight | nothing hangs |
| WhatsApp sessions (`services/whatsapp`) | per user: socket, state, reconnect flag, intent | connect, disconnect, logout, connection events, retry | Baileys, chat broker | events of old sockets, retry timers, overlapping connects | one live socket; a session the user closed stays closed |
| RAG store and backup (`services/rag`) | Pinecone vectors, `indexings` rows | index, delete, search | Pinecone, embedding API | partial failures between the two stores; duplicates share a vector | a row has its vector, a vector its row |
| Admin, accounts, settings (`services/admin`, `auth`, `profile`, `llm`) | `users`, `llm_models` | register, login, edit, promote, remove, select a model | REST | check, then act | an administrator remains; one model is selected |
| Evaluation runner (`src/evaluation`) | semaphore, result file, dry-run switch | run, retry, resume, stop, score | LLM providers | wake-ups, stops, deaths between a turn and its record | never more than the limit; every case recorded, no success twice; scores mean what the report says |
| REST controllers, routes, schemas | none | routing, tokens, validation, forwarding | all services | layers are tried in the order they were mounted; a parameter is a string | the closest pattern answers, for whom it may, on what was validated |
| Boot and shutdown (`src/app.ts`, `server.ts`) | none of its own | background loads, signal handlers | all services | the server takes work before the loads are done | the loads lose nothing |

`PROJECT.json` lists the components with their status, and the hazards with the line
where each bites and the properties aimed at it.

## Modules

| Module | What it is |
|---|---|
| `RuleStore` | the rules table, the cache and the management flows |
| `RuleEngine` | extends `RuleStore`: telemetry, evaluations, device log, commands, clock |
| `DeviceSchedule` | table, queue, scheduling flows, recovery, worker, BullMQ's part |
| `SchedulePromise` | what scheduling a once job promises; `DeviceSchedule` implements it |
| `ChatRpc` | chat callers, reply queues, the chat queue and its consumer, crashes and lost connections |
| `ChatPromise` | what a chat request promises its caller; `ChatRpc` implements it |
| `RabbitLink` | `getRabbitChannel`, the consumer set up at boot, lost links, the shutdown |
| `ChatSocket` | the WebSocket server: upgrade, messages, heartbeat, shutdown |
| `ChatTurn` | a turn of the chat: memory, retrieval, agent, speech |
| `WhatsappSession` | one user's session: sockets, retries, pairing, folder, boot resume |
| `RagStore` | vectors and the rows kept beside them |
| `Accounts` | users, administrators, the selected model |
| `Evaluation` | the evaluation's tasks, semaphore, retries, records, stop and resume |
| `Scoring` | from an agent's messages to the scores of a case; the wait for an acknowledgement |
| `ScheduleTime` | dates and times of schedules in WIB, cron patterns |
| `TelemetryMetrics` | from a payload to the number a rule compares |
| `RestApi` | routers, middlewares, schemas, controllers |
| `MCRuleStore`, `MCRuleEngine`, `MCDeviceSchedule`, `MCChatRpc`, `MCServices` | instances for TLC, and the statements the code's own texts make, checked where the models refute them |
| `RuleStore_proofs`, `RuleEngine_proofs`, `DeviceSchedule_proofs`, `ChatRpc_proofs`, `RabbitLink_proofs`, `Accounts_proofs`, `Evaluation_proofs` | theorems about the modules they are named after |
| `Services_proofs` | theorems about `WhatsappSession`, `RagStore`, `ChatTurn`, `TelemetryMetrics`, `ScheduleTime`, `Scoring`, and about all that `MCServices` composes |

`RuleEngine` extends `RuleStore`; `ChatRpc` instantiates `ChatPromise`, and `DeviceSchedule`
`SchedulePromise`, under a refinement mapping; `MCServices` puts the other components, which share no state, side by side.

A definition whose comment starts with "Mutant" is not part of a specification: it is
a wrong version of the definition after it, kept to show that a property notices.

### RuleStore

One *flow* per management request (`Managers`), and the boot load as the flow `Boot`.
A flow's steps are the code's awaits: `Lookup…` (the `findOne` or `findById`),
`Commit` (the update or the transaction), `ReadRows` (`findAll` of `refreshCache`),
`SetRules`. `Abort` is a failed call at either await. `Create` commits at once: what
it reads before are devices, which it does not touch. A rule's trigger, conditions,
actions and cooldown are one value, its *variant*: an update replaces the whole.
`RowAfter` keeps the one difference between the code's updates that matters here:
`setActive` saves an instance and so also writes a row soft-deleted meanwhile, `update`
has the soft-delete condition in its WHERE.

`alone` and `trusted` are history: whether an operation met another one, and whether
the last one to end met none and failed nowhere. Nothing reads them but properties.

### RuleEngine

A *thread* is a telemetry message on its way through `TelemetryService` and
`RuleEngine.evaluate`, or a direct command of a chat tool or schedule job (the same
two steps, device log row then publish). `ev[e].pc` is the await it stands at. The REST
routes need no thread: `SendCommand` (`POST /mqtt/commands`) publishes without a row, and `ApiLog`,
`EditLog`, `RemoveLog` (`/devices/logs`) write, edit and remove rows without a command.

* The cache holds mutable objects. A flow that took its candidates sees later
  `touchLastTriggered` calls only while its objects are still those of
  `RuleCache.rules`; `InstallRules` (= `SetRules` seen from the engine) detaches it
  (`attached`, `view`).
* `logs[d]` holds the rows of a device with their `createdAt`, and `Newest(d)` is the set of values
  an `ORDER BY created_at DESC LIMIT 1` may return: rows of one clock tick are not ordered. Rows of
  one tick and one content are one element, so removing one may leave another.
* Conditions are an arbitrary outcome: they are read from other devices' logs, which
  the properties do not constrain. A candidate may be skipped at any time for lack of the
  trigger's metric.

`disturbed` and `mixed` are history: they name, per rule and per device, the cases in
which the code does not promise anything. The properties say that there are no others.
`disturbed` tells four apart (`overlap`, `stale`, `lostStamp`, `lostAudit`), so that each property names
its own: a stamp that a refresh overwrites excuses the cooldown and not a missing audit row.

### DeviceSchedule

A *flow* is a call of `scheduleActuatorState`/`persistOnceJob`/`persistRepeatJob`
(`Callers`) or `initializeDeviceSchedule` (`Boot`); `flow[f].pc` is the call it awaits.
A once job's delay is fixed when its row is there, before the queue is asked (`SetDelay`).
The worker processes one job at a time. `bull[j]` is the state of the BullMQ job whose
id is the log's id — for a repeat job, of its current occurrence. BullMQ (`Promote`,
`Occur`, `Stalled`), the clock (`ComesDue`) are external: `add` of a known id is ignored, `remove`
of a locked job throws, a stalled job is handed out once more and then failed.

A throw inside recovery ends it: `initializeDeviceSchedule` is not awaited and
`unhandledRejection` is only logged (`server.ts:33`), so the rest of the rows waits
for the next restart (`Throws`). `mishaps` is history again.

`SchedulePromise` is what is left when table, queue and worker are taken away: a once
job is asked for, comes due, runs, and its row is settled, "completed" only after a run and
"failed" only without one. A second run, or a row that changes its verdict, needs
an excuse; a job that is never settled was withdrawn or lost. Excuses and losses are the mishaps
the code admits; a crash may add them, and boot recovery may find what was lost. `DeviceSchedule`
maps `asked` and `verdict` to its rows, `excused` and `lost` to its mishaps, and implements it, liveness
included.

### ChatRpc

Every request is one call of `ChatMessageBroker.requestChat`; `stage[q]` is the broker
call it awaits, `answer[q]` how its promise was settled, and the two part company: the
timer may settle the promise while the subscription is still under way, and the
`.then` publishes all the same. The consumer is `onQueuedMessage`: `Deliver`, `Turn` (the LLM turn,
whose tools may have had their effect even when it fails), then reply and `ack` in one
step, since nothing is awaited between them. A handler belongs to the connection its
message came on; on a later one its reply and `ack` throw. `sendToQueue` returning
false means that the client's buffer is above its mark, not that the message was refused (`Publish` with
`full`). What the broker and the client library do when a channel goes is external
(`LoseChannel`, `Recover`): unacknowledged messages return to the head of the queue, exclusive
reply queues and the unsent buffer are gone, and the subscription may or may not come back.
A queue message that is not JSON has no producer in the code and is left out.

`ChatPromise` is the same thing seen by a caller: a request is asked, its turn may be tried
(also late, also again), and it is settled once, with an answer that is so: "ok" only
after a turn that took effect, "error" only after one that was tried, and "failed" (the
request never left) never for a request that is tried afterwards. A timeout, a full buffer or a
loss of the connection says nothing of the turn. `ChatRpc` maps `asked` and `done` to its
stages and history, and implements it, liveness included.

### RabbitLink

One connection and one channel variable (`connection.ts`), a shared attempt
(`connecting`) whose steps are its awaits, and the flows that ask for the channel: requests
(`Askers`), the chat consumer's `initialize`, and the shutdown. Links are numbered, for a
handler acts on the variables whatever link they name by then: the `close` and `disconnect` handlers
empty `channel` also when a newer one is in it, and closing empties `connection`,
after the await, even if it was set anew. A failed attempt leaves its link open. `late` is
history: someone needed the channel during or after the shutdown.

### ChatSocket

`client[c]` is a connection from upgrade to close, `message[c]` what became of its message;
`Tick` is the heartbeat (terminate those without `isAlive`, ping the rest), `present` says
whose peer still answers. Turns are calls of `requestChat`, which settle (see `ChatPromise`).

### ChatTurn

`ChatService.query` with `ChatMemoryService`: read the latest rows of the turn's scope,
retrieve, ask the agent, insert the question and then the reply, synthesise speech. Each step
may fail where the code awaits; a blank message is not remembered. `given` is what the prompt holds, chosen
among all answers an `ORDER BY created_at DESC LIMIT n` allows when rows of a second tie.

### WhatsappSession

`WhatsApp.service.ts` and `WhatsApp.socket.ts` for one user. `sockets` holds what every socket
made so far was given (its phase, whether it uses the credentials in memory); `attached`
numbers them. A connect shares `connectPromise` (`opening`) and, when it pairs, polls for a
code; the retry timer attaches again; a disconnect ends the socket, waits, removes the folder.
`end()` reports the close to the socket's own listeners before it returns, so the close is part
of the step that ends it. A close has a reason: transient ones are retried after 1.5 s, a logout
discards the credentials, any other leaves the state "error" and is not retried. Closes by the network, faults of disk and library, deaths of the process and the
boot's resume of sessions found on disk are actions. `closed` is history: a disconnect was
completed that nothing disturbed.

### RagStore

A request embeds and upserts in batches, verifies, and writes rows, or destroys a row and deletes its
vector, or searches with retries. A vector's id is a hash of source and content, so `vectors`
is a set of documents while `rows` is a sequence. `suspect` is history: documents touched by
a failure, a duplicate or an overlap, of which the code promises nothing. The index is eventually consistent: a
deletion's read may miss a vector that is there, and the document is then suspect too.

### Accounts

Every query is a step; `acct[q]` is what a request awaits with what it has read.
`removals` is history: the removals made, with the administrators each counted.
Passwords and names are data nothing reads back.

### Evaluation, Scoring

`Evaluation` is `runLlmEvaluation`: `Acquire` goes through the tasks in turn, before
anything else of the process runs (`Listing`); a task with a slot begins unless the run is
stopping; its attempts end in a success, another try, or a record of an error; the slot goes to
the longest waiting task. A second Ctrl+C, a failing write of the record and a crash are `RunDies`;
`StartRun` again is `--resume`, which skips tasks with a recorded success. A line of the results file
is in it whole or not at all (it is one `appendFileSync`); a torn one, which would make the resume fail, is left out.

`Scoring` is pure: from the tool calls in the agent's messages (each in `tool_calls`, in `additional_kwargs` or in
both, calls of a message not alike; a message with one usable direct call is read no further) to the comparison with the ground truth, the greedy matching, the scores of a turn, the record
and the aggregate, and the functional evaluation's poll for an acknowledgement, whose requests take
up to `MaxLag` until the server reads the answer.

### ScheduleTime, TelemetryMetrics

Pure: operators checked over all inputs of an instance against a reference. An
instant is a number of seconds of WIB since the calendar's first day; the code reads the clock up to
three times in one call, so a call is given three readings. Years are years of the calendar: those below 1000 are
past dates, refused like any other. A payload field is what it
is to the parser (a number, digits, blank, words, the JSON of an object). The object's own
fields are read without `value` and `metric` in their exact spelling (`skipKeys`), those of a nested object with no
key skipped.

### RestApi

A request walks the layers in the order `routes/index.ts` and the routers mount them:
`http.layer` and `http.step` say where it is. A pattern with a parameter also fits the
paths of later patterns. Schemas are given by what they take a value for: a coerced number, a
number, digits, text, a record, or a strict record (WhatsApp's bodies, which refuse keys that are not theirs).
Tokens are those the user table's roles allow (`admin`, `user`); `superAdmin`, which some routes admit,
is no role of a user. The table of routes is data translated row by row.

## Runs

| Run | Instance | What it shows |
|---|---|---|
| `rule_store` | 2 rules, 2 variants, 2 flows (one of them boot), all operations, failures, restarts | type invariant; after an operation that met no other and no failure the cache is exact; an edit keeps the toggle |
| `rule_store_race` | the same without failures or restarts | **violation**: overlapping refreshes leave an inactive rule in the "cache of active rules" |
| `rule_cooldown` | 1 rule with cooldown 2, 2 threads, 1 management flow, clock 0..2, failures, crashes | type invariant; the cooldown holds, and a firing has its success row, each but for its own named disturbances |
| `rule_commands` | 1 rule and direct commands on one hybrid device, 2 threads, clock 0..1, reports, readings of 0/1, commands without a row, rows written, edited and removed by the API | log and command agree, and skipping is right, but for the named mix-ups |
| `rule_cooldown_lost` | 1 thread, 1 toggle, no failure | **violation**: a refresh installs the row as it was before the firing was stamped, and the rule fires within its cooldown |
| `rule_skip_tie` | two rows of one second | **violation**: an action is skipped though the device was told the opposite |
| `schedule` | one once and one repeat job, 1 caller, 1 crash, 1 failing call | no schedule lost, no second run but for the named mishaps, none early; `SchedulePromise` is implemented, down to a pending once job being settled |
| `schedule_twice` | one once job, 1 crash (before the job), no failing call | **violation**: recovery, holding a row it read as pending, enqueues a job the worker has meanwhile finished |
| `chat_rpc` | 2 requests, 1 crash, 1 lost connection, 1 failing call | turns are serial, repeated only after redelivery; nothing published is lost; a failed call has no effect; every caller is answered, every reply consumer released, every queued request tried; `ChatPromise` is implemented |
| `chat_full_buffer` | the same without any failure | **violation**: a request answered "Failed to enqueue chat message (broker buffer full)" is enqueued |
| `services` | the eleven parts without shared state, one moving in each behaviour (`moving`) | see below |
| `rest_documented` | every request to every route | **violation**: two documented endpoints never answer |

What `services` shows, by the part that moves:

| Part (states) | Instance | What it shows |
|---|---|---|
| WhatsApp (52 500) | 2 connects, one pairing, 1 disconnect, 1 close by the network, 1 fault, 1 death | one live socket, and it is the current one; a message is taken only by an open socket; "connecting" is pursued; a closed session stays closed; every connect is answered |
| RabbitMQ link (8 400) | 1 asking request, boot, shutdown, 2 losses, 1 error | the channel handed out is open; links do not multiply; the shutdown releases everything, unless something failed or someone needed the channel meanwhile |
| WebSocket (2 600) | 2 clients | nothing hangs |
| Accounts (84 000) | 2 requests, 3 e-mails, 3 rows, 2 models | an administrator remains, unless two removals counted each other's target; exactly one model is selected |
| RAG (72 500) | 2 requests, 2 documents, batches of 1 | rows and vectors agree, but for documents a failure, a late read, a duplicate or an overlap touched |
| Chat turns (38 000) | 2 turns at a time, 2 scopes, a memory of 1, 2 seconds | the prompt holds the scope's own latest messages; no reply without question |
| Evaluation (13 000) | 3 tasks, 2 slots, 1 retry, 2 runs | slots are conserved; every case recorded, no success twice, no device reached |
| HTTP (16 000) | every route, tokens, good and bad parts | served as registered |
| Scoring (128 000) | turns of up to 2 calls, objects with 2 keys, messages with calls in one place or two, requests that take up to 1 | turn scores, entry scores, call counts and acknowledgements mean what they say |
| Telemetry (31 000) | every kind of payload over 2 metrics, `value`, `metric` and 3 numbers, nested and not | a reading is what the payload gives for the rule's own metric, or else for `value` |
| Times (3 800) | clock readings around midnight, 18:00, 29 February and New Year, of 2027–2028 | a run is the next occurrence, in the future, on the date shown, but for dates that do not exist |

`ServicesTypeOK`, `ConversionsAgree` and `ScoresAreSound` gather what the parts state in
their own modules.

### Bounds

* Two flows are enough for every overlap the rule properties speak of: they are about
  pairs (two refreshes, an evaluation and a refresh, two evaluations). `RuleStore`'s
  main property is proved for any number.
* The clock needs one tick for "not the same second" and two for "still within a
  cooldown of two, and then no longer". `CONSTRAINT`s in `MCRuleEngine` stop exploring
  behaviours in which every rule (device) already carries the excuse that makes the
  invariants vacuous (`SomethingToCheck`; once only the audit can fail, the clock stops at 1). A mixed device gets its promise back
with the next command that goes out alone, so `CalmWhileMixed` does not stop there but bounds what
happens meanwhile: one flow at a time, three rows. `LogInv` is proved without any of these.
* Two chat requests show one waiting behind the other; `ChatRpc`'s safety properties
  are proved for any number, and for any number of crashes and drops.
* WhatsApp's four safety invariants were also checked with 2 disconnects, 2 closes, 2 faults
  and 1 death (19 million states), with the same result.
* Two losses of a RabbitMQ link are what it takes for a handler of an old link to meet a
  newer one. Three evaluation tasks for two slots make one wait; two runs make one resumed.
  Three accounts leave one to be removed by each of two requests and one that counts.
* One crash and one fault: the properties excuse each kind of mishap by name, so what
  remains to be shown is that a *single* one of another kind does no harm; one crash also
  makes the boot recovery run against a non-empty table and queue.

### Fairness

`RuleStore` and `RuleEngine` have none: their properties are safety properties, and a
database call may hang. `DeviceSchedule` assumes that calls return (weak fairness of
the flows', recovery's and the worker's next step), that time passes (`ComesDue`) and that
BullMQ promotes due jobs, detects stalled ones and serves waiting jobs in order, which
is strong fairness of `Take`, since the worker is busy with other jobs in between.
Scheduling, crashes, failing calls and removals are never forced. `ChatRpc`
assumes that broker calls and LLM turns return, timers fire and the broker delivers
(weak fairness each); a failure, a drop, a recovery or a crash is never forced. `QueuedIsTried` and `ReplyConsumersReleased`
are claimed only while the chat queue has its consumer: a subscription that
failed at boot is not tried again. `WhatsappSession` assumes that
the loads of a connect end and that the poll for a code, a loop of timeouts, goes on;
`ChatSocket` that the heartbeat's interval fires, that a closing connection goes, that the
server's close is reported and that `requestChat` settles, which `ChatRpc` shows. The runs of
these modules and `rest_documented` do not check deadlock: when every job is settled, every request answered,
or a part's bounded work is done, the system rests.

## Proofs

`RuleStore_proofs` proves, for any sets of rules, variants and flows that satisfy
`RuleStoreAssumption`:

* `StoreTypeCorrect`: `StoreSpec => []StoreTypeOK`.
* `SoloRefreshCorrect`: `StoreSpec => []SoloRefreshIsExact`. The property speaks of
  moments without an operation in flight, so it is not inductive. `SoloInv` adds what
  holds on the way there: at most one flow is under way that thinks itself alone, and while it is,
  every other one is idle; if that flow has read its snapshot, the snapshot has the definitions of
  the active rows; and while the store is trusted, either no commit is pending between table and cache, or
  cache and table already agree. One step per action shows that it is kept.
* `EditKeepsToggleCorrect`: `StoreSpec => EditKeepsToggle`, an action property. `ToggleInv` adds to
  `SoloInv` that a pending edit without an explicit `isActive` is of kind update and,
  while it is alone, holds its row's value.

`DeviceSchedule_proofs` proves, from `DeviceScheduleAssumption`, for any jobs and callers and
any number of crashes and faults:

* `TypeCorrect`, from `BaseInv`: a row precedes everything else known of its job, two callers
  never hold the same job, only recovery has rows to go through, and the worker's
  job is active in BullMQ.
* `NeverEarlyCorrect` (`NeverEarly`), from `EarlyInv`: a once job that is not due is neither waiting nor
  active, and no flow takes it for overdue.
* `ScheduleKept` (`NoScheduleLost`), from `KeptInv`. The property is not inductive: a flow that found its
  job in the queue leaves it there (`SeenIsQueued`), which is right only because nobody
  takes the job out behind its back. Recovery does remove overdue jobs, so `CallerFirst` states that a caller
  who found its job is never overtaken by recovery of it; `FailedExcused` and
  `FinishExcused` say why a job BullMQ has dropped is settled or excused.
* `RunsOnceCorrect` (`RunsOnce`), from `OnceInv`: a once job without a mishap that has been carried out
  is out of everybody's reach. It ran once, no flow holds it (so none can enqueue it again), and
  the worker is about to record it, or the row is settled and BullMQ has dropped the job
  (`RanOnce`). A flow that still held the job while it ran is the overlap the property excuses.
* `SchedulePromiseKept`: `Spec => Promise!Safety`, the refinement. `PromiseInv` joins the invariants above and
  `Reported`: what the worker is about to record, or a row says, of a once job is so, and an
  undisturbed job whose row says completed is past its record. Then each step maps to a step of
  the promise or to a stutter: the row's insert to `Ask`, the worker's `Act` to `Run`, its `Record` to `Settle`, a
  failing call to `Disturb` or `Lose`, and a crash, after which recovery reads the rows again, to `Restart`.

`RuleEngine_proofs` proves, from `RuleEngineAssumption`, for any rules, cooldowns, devices, managers and
evaluations at once:

* `RuleEngineTypeCorrect` (`TypeOK`), from `EngineInv`, which adds that a flow past its `findAll` holds entries.
* `CooldownKeptCorrect` (`CooldownKept`), from `CooldownInv`. The property counts firings; the stamp a later check
  reads is in the row and in the cached object, which are written by different steps. The
  invariant says, of a rule nothing disturbed, that one evaluation of it is under way at most, that whoever
  passed the check read a stamp at least a cooldown old, and that row and object hold the
  last firing but for the evaluation about to write them.
* `FiringsAuditedCorrect` (`FiringsAudited`), from `AuditInv`: as many rows as firings, unless the one evaluation of the rule
  is between the two.
  A refresh, an edit or a removal meanwhile changes neither.
* `CommandFollowsLogCorrect` and `SkippedTargetsCorrect` (`CommandFollowsLog`, `SkippedTargetsAgree`), from `LogInv`:
  but for a mixed device, one sender, whose value is among the newest rows; without one, the last
  command is. `RowsPast` (no row is from the future) makes a row just written a newest one. Commands
  without a row, edits and removals make a device mixed. The second is an action property: what `shouldSkipAction` compares with is the last command.

`RabbitLink_proofs` proves, from `RabbitAssumption`, for any number of callers, losses and errors,
`RabbitTypeCorrect` and:

* `ChannelHandedOutOpen` (`ChannelIsOpen`), from `LinkInv`: an attempt works on a link it made, is the only way to a
  channel, and the channel variable is empty while it does.
* `LinksAnswerLosses` (`LinksAccounted`), from `AccountInv`: links, plus one if one will be needed, plus the times
  the shutdown may still empty the channel, are at most one more than losses, errors and
  the two emptyings a shutdown is granted. Each step moves one of these terms into another.
* `ShutdownLeavesNothing` (`ShutdownReleases`), from `CalmInv`: without losses, errors and late callers there is only
  one link, and the state is one of a few on its way up (`Starting`) or down (`Closing`).

`Services_proofs` proves, from the assumptions of the modules it is about, of one part at a time:

* `OneLiveSocketCorrect`, `SendReachesCorrect`, `ConnectingPursuedCorrect`, `ClosedStaysClosedCorrect`, for any number of connects,
  disconnects, closes, faults and deaths. `SessionInv`: the current socket is the only live one, because `attach`
  ends the old one before it makes the next; a socket opens only with paired
  credentials; the state is true of the socket unless a disconnect has yet to reset
  it; and while a disconnect is undisturbed nothing that opens a session is under way.
* `VectorsBackedCorrect`, for any documents, batch size, list lengths and requests. `RagInv` says of an undisturbed
  document that one request works on it at most and it has one row at most (`SoleWork`), where it is at
  each stage of that request (`WorkIs`: an indexing has written what of its list it has passed,
  a deletion that has found the row will find the vector unless its read misses it), and that row and vector agree (`Kept`).
* `MemoryIsRecentCorrect`, for any workers, scopes, turns and limit. `TurnInv`: rows are only added, so what a turn was
  given stays the latest of the rows there were; a turn about to save its reply has its question in the table.
* `TurnsRememberedOnce`, of the same: a turn leaves one question and one reply at most, so the memory is bounded
  by twice the turns. `NumbersInv`: turns under way have numbers of their own, and a number that is
  about to write a role has no row of that role yet; the bound is an injection of the rows into turns and roles.
* `ReadingIsOwnCorrect`, for any metrics, numbers and payloads: `ReadingIsOwn` of every payload, by what `Object.assign` keeps
  of the bare or nested value, the named metric and the payload's own fields. Of two spellings of a name the
  parser keeps the later, so an object has one of each.
* `NextOccurrencesCorrect`, for any years and any call: `RunsAreNextOccurrences`. The calendar comes first: the leap days
  before a year make `FirstDay` grow by a year's length, `DaysBefore` by a month's, so that `DayNumber`
  is injective on dates that exist, `DateOfDay` inverts it, and a day the month does not have is another
  day's number. An instant then splits into its day and its second of the day, and the next
  occurrence is today's or tomorrow's; the readings of the clock agree unless one is past midnight.
* `AcksCorrect`, for any times, of requests of any length up to `MaxLag`: `AcksAreReports`, by the least poll that was
  shown a report.

And of all of them together, whichever moves: a step of the composition is a step of one part and
stutters in the others, so the parts' invariants hold side by side (`PartsInv`), with that of
`ChatSocket`'s types and `RestInv`, by which a request stands at a handler of a layer. The latter needs to know that
every router is a sequence of layers with handlers, that mounting keeps this, and so that the least
fitting layer (`Min`, which exists by well-foundedness of the naturals) has a first one.

* `ServicesSafe`: the twelve safety invariants `services` checks of the parts with state, and
  `RememberedOnce`, of the composed `Spec`, the one the run checks.
* `ServicesTypeCorrect` (`ServicesTypeOK`), for any constants.
* `ConversionsCorrect` (`ConversionsAgree`): inputs never change, so it is what the two pure theorems say of the
  initial states.

`ChatRpc_proofs` proves, from `ChatRpcAssumption`, for any number of requests,
crashes, drops and faults, `TypeCorrect` and the four safety properties of `chat_rpc`:

* `TurnsAreSerial`, `NothingLost`, `FailedHasNoEffect` from `SafetyInv`: a handler of the current
  connection is the one unacknowledged message (so prefetch 1 leaves room for one), a
  finished turn is recorded as tried before its message is acknowledged, and whatever is queued,
  running or tried was published by its caller, who is then past the calls that can fail.
* `TurnsRunOnce` from `TurnInv`, which adds `FreshOnce`: a request never put back is in one place only, the
  write buffer, the queue (once: `Single`) or one running turn, and its count is 0 until
  that turn ends. Lemmas about `Append`, `Tail` and a put-back head carry it through the steps.

* `PromiseKept`: `Spec => Promise!Safety`, the refinement. `PromiseInv` adds to `SafetyInv` that what a
  reply says of its turn is so (`ReportsTrue`), also while it waits in a reply queue; then each
  step maps to `Ask`, `Try`, `Settle` (a lost connection or a crash settles several requests
  at once) or to a stutter.

`Accounts_proofs` proves, from `AccountsAssumption`, for any requests, e-mails, models and rows,
`AccountsTypeCorrect` and:

* `AdminRemainsCorrect` (`AdminRemains`). It speaks of two removals, but any number may be under way, each
  with its own idea of who is an administrator. `InOrder`: of the rows still there, what two of
  them have counted is comparable, since a later count sees more promotions and no more of the
  old rows. `OneSpared`: whatever subset of the due removals were carried out, two are crossed, or
  one of them counted an administrator that all of them spare. The last administrator's
  removal is then one of a crossed pair.

`Evaluation_proofs` proves, from `EvaluationAssumption`, for any tasks, slots, retries and runs:

* `SlotsAreConserved` (`SlotsConserved`), from `SlotInv`: the queue holds waiting tasks, each once, and a task the loop
  has not come to holds nothing. A released slot is free, or its next holder's: the
  cardinality of the holders changes as `active` does.
* `CasesAreRecorded` (`EveryCaseRecorded`), from `RecordInv`: a task under way has no success yet and runs dry; one that is
  done is recorded unless the run was stopped.

Model-checked only:

* liveness (`EveryCallerAnswered`, `ReplyConsumersReleased`, `QueuedIsTried`, `EveryConnectAnswered`,
  `ClientsSettled`, and the liveness part of `ChatPromise` and `SchedulePromise`): the prover does not reach
  liveness under fairness;
* `ScoresAreSound` but for its acknowledgements: matching, counts and rates are folds over lists, whose
  properties need induction over an operator the prover cannot instantiate;
* `ServedAsRegistered`: the table of routes has no parameter, so the run tries every request there is
  to every route, and a theorem would say no more.

## Findings

Six statements of the repository's own texts are refuted by runs (see
`PROJECT.json`, "findings", for the quotations):

1. the cache is not always a "cache of active automation rules": refreshes are not
   ordered (`RuleManagement.service.ts:158-164`);
2. the engine does not always skip "when in cooldown", even without failures and
   with one telemetry flow: a concurrent refresh overwrites the stamp;
3. "target already in desired state" may be the older of two rows of one second;
4. a "once = run ONE time only" job may run twice after a restart: recovery works on a
   snapshot while the worker, started first, finishes jobs of it;
5. "Failed to enqueue chat message (broker buffer full)" is said of messages that are
   enqueued;
6. "Get last known status for a device" and "Fetch a single scheduler log entry by
   schedulerLogId" never answer anything but 400: their ids are validated as numbers, and a
   path holds strings.

What the models make visible besides, without a text that says otherwise (the properties
name these cases as their exceptions):

* Device log: a command of `POST /mqtt/commands` leaves no row (`sendCommand.ts:16`), and rows can be edited and
  removed: until the next command with a row, the engine may skip an action though the device was last told the opposite.
* WhatsApp: a retry timer is kept nowhere (`WhatsApp.socket.ts:176`), so one that was due before a disconnect
  opens the session after it; one that attaches over the current socket reports "error" while
  the new one opens; a session folder that cannot be removed leaves state and
  intentional flag as they were.
* RabbitMQ: a handler of an old link empties the channel variable of a newer one; a failed attempt leaves its link
  open; if cancelling the consumer throws at shutdown, nothing is closed.
* Accounts: two overlapping removals can leave no administrator, and nothing else can; a row written by
  `save()` is written even when it was removed meanwhile; a removed account keeps
  its e-mail in the unique index; an update that changes nothing is answered 404.
* RAG: documents indexed twice share one vector, which the first deletion takes; a deletion that
  fails half-way has removed the row.
* Chat turn: a question and its reply of one second may come back swapped
  (`ChatMemory.service.ts:46` says "Oldest → newest"); a failing speech call fails a request whose
  turn is remembered.
* Evaluation: a case that failed and succeeded on resume is counted twice by the aggregate
  (`aggregate.ts:71`); the greedy matching may pair fewer entries than possible, never fewer than half;
  the functional runner polls the status route of finding 6, so its device-control cases fail; were it answered, a
  report from after the timeout could count, since the deadline is tested before a request (`functionalRunner.ts:84`).
* Schedules: 31-02 is accepted and runs in March, though shown as 31-02; midnight
  between two clock readings may give a past or refused run.
* Telemetry: a blank `value` reads as 0; a bare `value` sent for one metric is read for any other.
* REST: the list of scheduler logs is validated by the schema of application logs, so its documented
  filters are dropped; `PATCH /my-profiles/onboardings` takes the user from the body; `PATCH
  /devices/logs/:id` does not use its id; the body of `POST /indexing` is not validated.

## Not modelled, and why

* The LLM agent, its prompts, MCP tool descriptions, the speech API: their results are arbitrary.
* Seeders, migrations, notebooks, datasets, tables and reports of the evaluation, log formatting: no
  state that anything reacts to.
* The MQTT client's connection handling. Creation, update and removal of devices: administrative; what a flow
  meets when its device is gone is a failing call.
* Inbound WhatsApp messages: `requestChat` again, as in `ChatRpc`; who may ask is data.
* The prefix test on BullMQ keys (`deviceSchedule.queue.ts:70`): it takes ten schedules within a millisecond.
* Queries that change nothing, other than as steps between which others interleave.

## Plan

Done: the modules above. What is left, hazards first:

1. Composition of `WhatsappSession` with a chat request, for the answer that comes back to a
   session closed meanwhile.
