-------------------------------- MODULE RestApi --------------------------------
(***************************************************************************)
(* The REST API: how express takes a request through the routers mounted   *)
(* in routes/index.ts, their middlewares and the controllers.              *)
(*                                                                         *)
(* A path is what follows /api/v1, as a sequence; ":" in a pattern is a    *)
(* parameter.  A body or a query is good when it has what the schema of    *)
(* its route asks for.  Schemas are given by what they take a value for.   *)
(***************************************************************************)
EXTENDS Integers, Sequences, FiniteSets, SequencesExt

VARIABLES
  request,  \* the request
  http      \* how far it is: layer and handler, who signed it, what was validated, the answer

restVars == <<request, http>>

-----------------------------------------------------------------------------
(* Schemas: a record of a body or a query; or the value of a parameter,    *)
(* which arrives as a string                                               *)

Record == "record"
Strict == "strict record"  \* with no keys but its own
Coerced == "coerced number"
Number == "number"
Digits == "digits"
Text == "text"

AdminSchema == [createBody |-> Record, updateBody |-> Record, query |-> Record, userId |-> Coerced]
AppLogSchema == [createBody |-> Record, query |-> Record]
AuthSchema == [password |-> Record, login |-> Record, registration |-> Record]
ChatSchema == [chat |-> Record, ttsPreview |-> Record]
DeviceLogSchema ==
  [createBody |-> Record, updateBody |-> Record, query |-> Record, deviceLogId |-> Coerced,
   deviceId |-> Coerced]
DeviceSchema == [createBody |-> Record, updateBody |-> Record, query |-> Record, deviceId |-> Coerced]
IndexingSchema == [query |-> Record, indexingId |-> Digits]
LLMModelSchema == [query |-> Record, id |-> Text, selectBody |-> Record]
MqttSchema == [commandBody |-> Record, statusBody |-> Record, deviceId |-> Number]
MyProfileSchema == [query |-> Record, updateBody |-> Record, onboardingBody |-> Record]
RuleSchema ==
  [createBody |-> Record, updateBody |-> Record, activeBody |-> Record, query |-> Record,
   logsQuery |-> Record, ruleId |-> Coerced]
SchedulerLogSchema == [detailId |-> Number, removeId |-> Coerced]
WhatsAppSchema == [connectBody |-> Strict, connectQuery |-> Strict, disconnectBody |-> Strict]

\* No number has arrived as a string, whatever it holds.
SafeParse(schema, value) ==
  CASE schema = Record -> value # "bad"
    [] schema = Strict -> value = "good"
    [] schema \in {Coerced, Digits} -> value = "7"
    [] schema = Number -> FALSE
    [] schema = Text -> TRUE

\* What the handlers after it read.
Parsed(schema) == IF schema = Coerced THEN "a number" ELSE "a string"

-----------------------------------------------------------------------------
(* Handlers *)

useAuthorization == [kind |-> "authorize"]
allowAppRoles(roles) == [kind |-> "roles", roles |-> roles]
validate(schemas) == [kind |-> "validate", schemas |-> schemas]

\* reads: parts of the request a controller hands to its service; takes: what it takes its
\* parameter for.
Reads(service, parts) == [kind |-> "controller", service |-> service, reads |-> parts, takes |-> "none"]
ReadsId(service, type) ==
  [kind |-> "controller", service |-> service, reads |-> {"params"}, takes |-> type]

AdminFindAll == Reads("AdminService.findAll", {"query"})
AdminFindDetail == ReadsId("AdminService.findById", "a number")
AdminCreate == Reads("AdminService.create", {"body"})
AdminUpdate == Reads("AdminService.update", {"body"})
AdminRemove == [ReadsId("AdminService.remove", "a number") EXCEPT !.reads = {"params", "token"}]

MainApp == Reads("none", {})
HealthCheck == Reads("none", {})

AppLogCreate == Reads("AppLogService.create", {"body"})
AppLogFindAll == Reads("AppLogService.findAll", {"query"})

UpdatePassword == Reads("AuthService.updateUserPassword", {"body"})
UserLogin == Reads("AuthService.loginUser", {"body"})
UserRegister == Reads("AuthService.registerUser", {"body"})

ChatQuery == Reads("ChatMessageBroker.requestChat", {"body", "token"})
TtsPreview == Reads("TTSService.synthesizeSpeechBuffer", {"query"})

DeviceFindAll == Reads("DeviceService.findAll", {"query"})
DeviceFindDetail == ReadsId("DeviceService.findById", "a number")
DeviceCreate == Reads("DeviceService.create", {"body"})
DeviceUpdate == Reads("DeviceService.update", {"body"})
DeviceRemove == ReadsId("DeviceService.remove", "a number")

DeviceLogFindAll == Reads("DeviceLogService.findAll", {"query"})
DeviceLogFindDetail == ReadsId("DeviceLogService.findById", "a number")
DeviceLogFindLast == ReadsId("DeviceLogService.getLastLogByDeviceId", "a number")
DeviceLogFindLatest == ReadsId("DeviceLogService.findLatestLogByDeviceId", "a number")
DeviceLogCreate == Reads("DeviceLogService.create", {"body"})
DeviceLogUpdate == Reads("DeviceLogService.update", {"body"})  \* the id is the body's, not the path's
DeviceLogRemove == ReadsId("DeviceLogService.remove", "a number")

IndexingFindAll == Reads("PineconeBackupService.findAllIndexings", {"query"})
IndexingText == Reads("PineconeService.addDocuments", {"body"})
IndexingRemove == ReadsId("PineconeBackupService.deleteIndexingById", "a string")

MqttGetConnection == Reads("MQTTService.isConnected", {})
MqttGetLastStatus == ReadsId("MQTTService.getLastDeviceState", "a number")
MqttSendCommand == Reads("MQTTService.sendCommand", {"body"})
MqttPublishStatus == Reads("MQTTService.publishState", {"body"})

ProfileFind == Reads("MyProfileService.findByUserId", {"token"})
ProfileUpdate == Reads("MyProfileService.updateProfile", {"body", "token"})
\* The user is the one the body names.
ProfileOnboarding == Reads("MyProfileService.updateOnboardingStatus", {"body", "user in body"})

RuleFindAll == Reads("RuleManagementService.findAll", {"query"})
RuleFindExecutionLogs == Reads("RuleManagementService.listExecutionLogs", {"query"})
RuleFindDetail == ReadsId("RuleManagementService.findById", "a number")
RuleCreate == Reads("RuleManagementService.create", {"body", "token"})
RuleUpdate == Reads("RuleManagementService.update", {"body"})
RuleSetActive == Reads("RuleManagementService.setActive", {"body"})
RuleRemove == ReadsId("RuleManagementService.remove", "a number")

SchedulerLogFindAll == Reads("SchedulerLogService.findAll", {"query"})
SchedulerLogFindDetail == ReadsId("SchedulerLogService.findById", "a number")
SchedulerLogRemove == ReadsId("SchedulerLogService.remove", "a number")

ModelFindAll == Reads("LLMModelService.findAll", {"query"})
ModelFindDetail == ReadsId("LLMModelService.findById", "a string")
ModelSelect == Reads("LLMModelService.selectModel", {"body"})
ModelGetSelected == Reads("LLMModelService.getSelectedModel", {})

StatsGetCounts == Reads("StatsService.getCounts", {})

WhatsappConnect == Reads("WhatsappService.connect", {"query", "token"})
WhatsappDisconnect == Reads("WhatsappService.disconnect", {"token"})
WhatsappStatus == Reads("WhatsappService.getStatus", {"token"})

-----------------------------------------------------------------------------
(* Routers *)

Layer(method, path, handlers) == [method |-> method, path |-> path, handlers |-> handlers]
Use(handler) == Layer("USE", <<>>, <<handler>>)

\* A route whose validation is of one part, or of none.
Route(method, path, part, schema, controller) ==
  Layer(method, path, <<validate([p \in {part} |-> schema]), controller>>)
Bare(method, path, controller) == Layer(method, path, <<controller>>)

AdminRoute == <<
  Use(useAuthorization), Use(allowAppRoles({"admin"})),
  Route("GET", <<>>, "query", AdminSchema.query, AdminFindAll),
  Route("GET", <<"detail", ":">>, "params", AdminSchema.userId, AdminFindDetail),
  Route("POST", <<>>, "body", AdminSchema.createBody, AdminCreate),
  Route("PATCH", <<>>, "body", AdminSchema.updateBody, AdminUpdate),
  Route("DELETE", <<":">>, "params", AdminSchema.userId, AdminRemove)>>

AppLogRoute == <<
  Use(useAuthorization),
  Route("POST", <<>>, "body", AppLogSchema.createBody, AppLogCreate),
  Route("GET", <<>>, "query", AppLogSchema.query, AppLogFindAll)>>

AuthRoute == <<
  Route("POST", <<"login">>, "body", AuthSchema.login, UserLogin),
  Route("POST", <<"register">>, "body", AuthSchema.registration, UserRegister),
  Route("PATCH", <<"reset-password">>, "body", AuthSchema.password, UpdatePassword)>>

ChatRoute == <<
  Use(useAuthorization),
  Route("GET", <<"tts-preview">>, "query", ChatSchema.ttsPreview, TtsPreview),
  Route("POST", <<>>, "body", ChatSchema.chat, ChatQuery)>>

DeviceLogRoute == <<
  Use(useAuthorization),
  Route("GET", <<>>, "query", DeviceLogSchema.query, DeviceLogFindAll),
  Route("GET", <<"detail", ":">>, "params", DeviceLogSchema.deviceLogId, DeviceLogFindDetail),
  Route("GET", <<"last", ":">>, "params", DeviceLogSchema.deviceId, DeviceLogFindLast),
  Route("GET", <<"latest", ":">>, "params", DeviceLogSchema.deviceId, DeviceLogFindLatest),
  Route("POST", <<>>, "body", DeviceLogSchema.createBody, DeviceLogCreate),
  Route("PATCH", <<":">>, "body", DeviceLogSchema.updateBody, DeviceLogUpdate),
  Route("DELETE", <<":">>, "params", DeviceLogSchema.deviceLogId, DeviceLogRemove)>>

DeviceRoute == <<
  Use(useAuthorization),
  Route("GET", <<>>, "query", DeviceSchema.query, DeviceFindAll),
  Route("GET", <<"detail", ":">>, "params", DeviceSchema.deviceId, DeviceFindDetail),
  Route("POST", <<>>, "body", DeviceSchema.createBody, DeviceCreate),
  Route("PATCH", <<>>, "body", DeviceSchema.updateBody, DeviceUpdate),
  Route("DELETE", <<":">>, "params", DeviceSchema.deviceId, DeviceRemove)>>

HealthRoute == <<Bare("GET", <<>>, MainApp), Bare("GET", <<"health">>, HealthCheck)>>

\* The validation of the body is commented out.
IndexingRouter == <<
  Use(useAuthorization),
  Route("GET", <<>>, "query", IndexingSchema.query, IndexingFindAll),
  Bare("POST", <<>>, IndexingText),
  Route("DELETE", <<":">>, "params", IndexingSchema.indexingId, IndexingRemove)>>

MqttRoute == <<
  Use(useAuthorization),
  Bare("GET", <<"connection">>, MqttGetConnection),
  Route("GET", <<"devices", ":", "status">>, "params", MqttSchema.deviceId, MqttGetLastStatus),
  Route("POST", <<"commands">>, "body", MqttSchema.commandBody, MqttSendCommand),
  Route("POST", <<"status">>, "body", MqttSchema.statusBody, MqttPublishStatus)>>

MyProfileRoute == <<
  Use(useAuthorization),
  Route("GET", <<>>, "query", MyProfileSchema.query, ProfileFind),
  Route("PATCH", <<>>, "body", MyProfileSchema.updateBody, ProfileUpdate),
  Route("PATCH", <<"onboardings">>, "body", MyProfileSchema.onboardingBody, ProfileOnboarding)>>

Anyone == allowAppRoles({"admin", "user", "superAdmin"})
RuleRoute == <<
  Use(useAuthorization),
  Route("GET", <<>>, "query", RuleSchema.query, RuleFindAll),
  Route("GET", <<"execution-logs">>, "query", RuleSchema.logsQuery, RuleFindExecutionLogs),
  Route("GET", <<"detail", ":">>, "params", RuleSchema.ruleId, RuleFindDetail),
  Layer("POST", <<>>, <<Anyone, validate([body |-> RuleSchema.createBody]), RuleCreate>>),
  Layer("PATCH", <<>>, <<Anyone, validate([body |-> RuleSchema.updateBody]), RuleUpdate>>),
  Layer("PATCH", <<"active">>, <<Anyone, validate([body |-> RuleSchema.activeBody]), RuleSetActive>>),
  Layer("DELETE", <<":">>, <<Anyone, validate([params |-> RuleSchema.ruleId]), RuleRemove>>)>>

\* The query is validated by the schema of the application logs.
SchedulerLogRoute == <<
  Use(useAuthorization),
  Route("GET", <<>>, "query", AppLogSchema.query, SchedulerLogFindAll),
  Route("GET", <<"detail", ":">>, "params", SchedulerLogSchema.detailId, SchedulerLogFindDetail),
  Route("DELETE", <<":">>, "params", SchedulerLogSchema.removeId, SchedulerLogRemove)>>

\* Mutant: the route of any model comes before the one of the selected model.
SettingRouteByIdFirst == <<
  Use(useAuthorization),
  Route("GET", <<>>, "query", LLMModelSchema.query, ModelFindAll),
  Route("GET", <<":">>, "params", LLMModelSchema.id, ModelFindDetail),
  Bare("GET", <<"selected">>, ModelGetSelected),
  Route("POST", <<"select">>, "body", LLMModelSchema.selectBody, ModelSelect)>>

SettingRoute == <<
  Use(useAuthorization),
  Route("GET", <<>>, "query", LLMModelSchema.query, ModelFindAll),
  Bare("GET", <<"selected">>, ModelGetSelected),
  Route("GET", <<":">>, "params", LLMModelSchema.id, ModelFindDetail),
  Route("POST", <<"select">>, "body", LLMModelSchema.selectBody, ModelSelect)>>

StatsRoute == <<Use(useAuthorization), Bare("GET", <<>>, StatsGetCounts)>>

WhatsAppRoute == <<
  Use(useAuthorization),
  Layer("GET", <<"connect">>,
        <<validate([body |-> WhatsAppSchema.connectBody, query |-> WhatsAppSchema.connectQuery]),
          WhatsappConnect>>),
  Bare("GET", <<"connection-status">>, WhatsappStatus),
  Route("POST", <<"disconnect">>, "body", WhatsAppSchema.disconnectBody, WhatsappDisconnect)>>

-----------------------------------------------------------------------------
Mount(prefix, router) ==
  [i \in DOMAIN router |-> [router[i] EXCEPT !.path = prefix \o @]]

\* The layers in the order express tries them.
Routers ==
  Mount(<<>>, HealthRoute) \o Mount(<<"logs">>, AppLogRoute)
  \o Mount(<<"scheduler-logs">>, SchedulerLogRoute) \o Mount(<<"devices">>, DeviceRoute)
  \o Mount(<<"devices", "logs">>, DeviceLogRoute) \o Mount(<<"chat">>, ChatRoute)
  \o Mount(<<"auth">>, AuthRoute) \o Mount(<<"my-profiles">>, MyProfileRoute)
  \o Mount(<<"stats">>, StatsRoute) \o Mount(<<"indexing">>, IndexingRouter)
  \o Mount(<<"whatsapp">>, WhatsAppRoute) \o Mount(<<"mqtt">>, MqttRoute)
  \o Mount(<<"admins">>, AdminRoute) \o Mount(<<"settings">>, SettingRoute)
  \o Mount(<<"rules">>, RuleRoute)

Layers == DOMAIN Routers
Endpoints == {i \in Layers : Routers[i].method # "USE"}

\* A router's own middleware takes every path below its mount.
Fits(layer, r) ==
  /\ layer.method \in {"USE", r.method}
  /\ IF layer.method = "USE" THEN Len(layer.path) \leq Len(r.path)
     ELSE Len(layer.path) = Len(r.path)
  /\ \A k \in DOMAIN layer.path : layer.path[k] \in {":", r.path[k]}

Fitting(r, after) == {i \in Layers : i > after /\ Fits(Routers[i], r)}

\* The parameter of a pattern is the segment in its place.
Param(layer, r) == r.path[CHOOSE k \in DOMAIN layer.path : layer.path[k] = ":"]
Part(layer, r, part) ==
  CASE part = "body" -> r.body [] part = "query" -> r.query [] part = "params" -> Param(layer, r)

Filled(path, value) == [k \in DOMAIN path |-> IF path[k] = ":" THEN value ELSE path[k]]
Paths == {Filled(Routers[i].path, v) : i \in Endpoints, v \in {"7", "word"}}
           \cup {<<"nowhere">>, <<"rules", "7", "nowhere">>}

\* user: a good body that names a user as well (jwtPayload).  A token names a user's role,
\* and UserModel has these two.
HttpRequests ==
  [method : {"GET", "POST", "PATCH", "DELETE"}, path : Paths, query : {"good", "bad"},
   token : {"missing", "invalid", "user", "admin"}, body : {"good", "user", "bad"}]

NotAnswered == [status |-> 0, by |-> 0]
Parts == {"body", "query", "params"}

RestTypeOK ==
  /\ request \in HttpRequests
  /\ http.layer \in Layers \cup {0}
  /\ http.user \in {"none", "user", "admin"}
  /\ DOMAIN http.checked \subseteq Parts
  /\ http.answer.status \in {0, 200, 400, 401, 404, 500}
  /\ http.answer.by \in Endpoints \cup {0}

Reach(r, after) == IF Fitting(r, after) = {} THEN 0 ELSE Min(Fitting(r, after))

RestInit ==
  /\ request \in HttpRequests
  /\ http = [layer |-> Reach(request, 0), step |-> 1, user |-> "none", checked |-> <<>>,
             answer |-> NotAnswered]

-----------------------------------------------------------------------------
Current == Routers[http.layer].handlers[http.step]

Handling(kind) ==
  /\ http.answer = NotAnswered
  /\ http.layer # 0
  /\ Current.kind = kind
  /\ UNCHANGED request

\* next(): the layer's next handler, or the next layer that fits.
GoesOn(h) ==
  http' = IF h.step < Len(Routers[h.layer].handlers) THEN [h EXCEPT !.step = @ + 1]
          ELSE [h EXCEPT !.layer = Reach(request, h.layer), !.step = 1]

Answers(status, by) == http' = [http EXCEPT !.answer = [status |-> status, by |-> by]]

Authorize ==
  /\ Handling("authorize")
  /\ CASE request.token = "missing" -> Answers(400, 0)
       [] request.token = "invalid" -> Answers(401, 0)
       [] OTHER -> GoesOn([http EXCEPT !.user = request.token])

CheckRoles ==
  /\ Handling("roles")
  /\ IF http.user \in Current.roles THEN GoesOn(http) ELSE Answers(401, 0)

\* safeParse of each part that has a schema.
Validate ==
  /\ Handling("validate")
  /\ LET schemas == Current.schemas
         layer == Routers[http.layer]
         value(p) == Part(layer, request, p)
     IN IF \A p \in DOMAIN schemas : SafeParse(schemas[p], value(p))
        THEN GoesOn([http EXCEPT !.checked = [p \in DOMAIN schemas |-> Parsed(schemas[p])]])
        ELSE Answers(400, 0)

\* The service succeeds, throws an AppError, or fails otherwise: handleError.
Serve ==
  /\ Handling("controller")
  /\ \E status \in IF "user in body" \in Current.reads /\ request.body # "user"
                   THEN {400} ELSE {200, 404, 500} :
       Answers(status, http.layer)

RouteNotFound ==
  /\ http.answer = NotAnswered
  /\ http.layer = 0
  /\ Answers(404, 0)
  /\ UNCHANGED request

RestNext == Authorize \/ CheckRoles \/ Validate \/ Serve \/ RouteNotFound

RestSpec == RestInit /\ [][RestNext]_restVars

-----------------------------------------------------------------------------
Literals(i) == Cardinality({k \in DOMAIN Routers[i].path : Routers[i].path[k] # ":"})
Controller(i) == Last(Routers[i].handlers)

\* The endpoint a request is for: the one that fits it most closely.
Meant(r) ==
  {i \in Endpoints \cap Fitting(r, 0) :
     \A j \in Endpoints \cap Fitting(r, 0) : Literals(j) \leq Literals(i)}

Below(r, mount) == Len(mount) \leq Len(r.path) /\ SubSeq(r.path, 1, Len(mount)) = mount
Public(r) == r.path \in {<<>>, <<"health">>} \/ Below(r, <<"auth">>)

\* A request that lacks nothing its endpoint asks for, and has nothing it refuses: a body
\* of these has no fields.
NoFields == {<<"whatsapp", "connect">>, <<"whatsapp", "disconnect">>}
WellFormed(r, i) ==
  /\ Public(r) \/ r.token \in {"user", "admin"}
  /\ Below(r, <<"admins">>) => r.token = "admin"
  /\ r.body # "bad" /\ (r.path \in NoFields => r.body = "good")
  /\ r.query = "good"
  /\ Controller(i).takes # "none" => Param(Routers[i], r) = "7"

NumberTyped == {<<"mqtt", "devices", "7", "status">>, <<"scheduler-logs", "detail", "7">>}

(***************************************************************************)
(* Whatever order the routers are mounted in: a controller that answers is *)
(* the one of the closest pattern; it has run for a verified token unless  *)
(* the route is public, for an administrator under /admins, and on parts   *)
(* that were validated, with its id of the type it takes (POST /indexing   *)
(* looks at its body itself).  A well-formed request reaches its           *)
(* controller, but for two endpoints whose id must be a number and never   *)
(* is one.                                                                 *)
(***************************************************************************)
ServedAsRegistered ==
  LET by == http.answer.by IN
  /\ by # 0 =>
       /\ by \in Meant(request)
       /\ Public(request) \/ http.user \in {"user", "admin"}
       /\ Below(request, <<"admins">>) => http.user = "admin"
       /\ Controller(by).reads \cap Parts \subseteq DOMAIN http.checked
            \/ Controller(by) = IndexingText
       /\ Controller(by).takes # "none" => http.checked["params"] = Controller(by).takes
  /\ http.answer # NotAnswered /\ request.path \notin NumberTyped =>
       \A i \in Meant(request) : WellFormed(request, i) => by = i

(***************************************************************************)
(* "Get last known status for a device", "Fetch a single scheduler log     *)
(* entry by schedulerLogId": a documented request, signed and well formed, *)
(* is answered by its controller.                                          *)
(***************************************************************************)
DocumentedAnswers ==
  http.answer # NotAnswered =>
    \A i \in Meant(request) : WellFormed(request, i) => http.answer.by = i
=============================================================================
