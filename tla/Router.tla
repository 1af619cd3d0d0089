------------------------------- MODULE Router -------------------------------
(***************************************************************************)
(* From a request to the call it asks for: the token check, the requests   *)
(* http_session answers itself, and the table of router::route, which runs *)
(* on a thread of the background pool.  A request is what these look at:   *)
(*    method      unknown stands for every other one                       *)
(*    path        the first segment; none if there is no segment, health   *)
(*                if that is all of the target, invalid if it is no URL    *)
(*    collection  there is a second segment                                *)
(*    params      none, some of what the path needs, or all of it          *)
(*    body        JSON with the members a PUT or DELETE reads              *)
(*    token       the Authorization header holds a token that decodes      *)
(***************************************************************************)
EXTENDS Integers, FiniteSets, Sequences

CONSTANTS Requests,       \* the requests
          TokensChecked   \* DisableJWTTokenValidation is not "true"

ASSUME TokensCheckedAssumption == TokensChecked \in BOOLEAN

VARIABLES asked,    \* request -> what became of it at the front door
          step,     \* request -> where its handler is
          answer    \* request -> the status of the response, 0 before

routerVars == <<asked, step, answer>>

Inputs ==
    [method : {"get", "head", "post", "put", "delete", "patch", "options",
               "unknown"},
     path : {"none", "mdb", "s3", "fundamentals", "duckdb", "health", "other",
             "invalid"},
     collection : BOOLEAN, params : {"none", "some", "all"}, body : BOOLEAN,
     token : BOOLEAN]

\* A plan is a response, or a call of a service with all its parameters or not.
Reply(code) == [call |-> "none", code |-> code, complete |-> TRUE]
Call(service, complete) == [call |-> service, code |-> 0, complete |-> complete]

-----------------------------------------------------------------------------
(* http_session, on its own strand.                                        *)

\* validate_jwt_token
Unauthorized(q) == q.path # "health" /\ q.method # "options" /\ ~ q.token

\* set_param notes what is missing and leaves the model's status alone.
ValidatedStatus(q) == 200

\* set_missing_params_status is what would say so; it is called too late.
MissingParamsStatus(q) == IF q.params = "all" THEN ValidatedStatus(q) ELSE 400

RouteToController(q, service) ==
    IF ValidatedStatus(q) # 200 THEN Reply(MissingParamsStatus(q))
                                ELSE Call(service, q.params = "all")

RouteGet(q) ==
    CASE q.path = "mdb" /\ q.params = "none" -> Reply(400)
      [] q.path = "mdb" /\ q.params # "none" /\ q.collection -> Call("find", TRUE)
      [] q.path = "s3" /\ q.params # "all" -> Reply(400)
      [] q.path = "s3" /\ q.params = "all" -> Call("select", TRUE)
      [] q.path \in {"fundamentals", "duckdb"} -> RouteToController(q, q.path)
      [] OTHER -> Reply(501)

OnCollection(q, plan) ==
    IF q.path = "mdb" /\ q.collection THEN plan ELSE Reply(501)

\* url_view throws on what is no URL, at() and as_object() on a body without
\* the members.
Route(q) ==
    CASE q.path = "invalid" -> Reply(500)
      [] q.path = "none" -> Reply(501)
      [] q.path \notin {"invalid", "none"} /\ q.method = "get" -> RouteGet(q)
      [] q.path \notin {"invalid", "none"} /\ q.method = "post" ->
            OnCollection(q, Call("insert", TRUE))
      [] q.path \notin {"invalid", "none"} /\ q.method = "put" ->
            OnCollection(q, IF q.body THEN Call("upsert", TRUE) ELSE Reply(500))
      [] q.path \notin {"invalid", "none"} /\ q.method = "delete" ->
            OnCollection(q, IF q.body THEN Call("delete", TRUE) ELSE Reply(500))
      [] OTHER -> Reply(405)

\* handle_request
HandleRequest(q) ==
    CASE q.method = "unknown" -> Reply(400)
      [] q.method = "head" -> Reply(200)
      [] q.method = "options" -> Reply(204)
      [] q.method \notin {"unknown", "head", "options"} /\ q.path = "health" ->
            Reply(200)
      [] OTHER -> Route(q)

\* on_read, of a request that is no upgrade.
Plan(q) == IF TokensChecked /\ Unauthorized(q) THEN Reply(401)
                                               ELSE HandleRequest(q)

-----------------------------------------------------------------------------
RouterInit ==
    /\ asked = [r \in Requests |-> Reply(0)]
    /\ step = [r \in Requests |-> "new"]
    /\ answer = [r \in Requests |-> 0]

Goes(r, next) == /\ step' = [step EXCEPT ![r] = next]
                 /\ UNCHANGED answer

Answers(r, code) == /\ step' = [step EXCEPT ![r] = "answered"]
                    /\ answer' = [answer EXCEPT ![r] = code]

\* A request arrives, and is answered or calls a service.
Arrive(r) ==
    /\ step[r] = "new"
    /\ \E plan \in {Plan(q) : q \in Inputs} :
          /\ asked' = [asked EXCEPT ![r] = plan]
          /\ IF plan.call = "none" THEN Answers(r, plan.code)
                                   ELSE Goes(r, "call")

\* r's handler calls this service now.
CallOf(r, service) == step[r] = "call" /\ asked[r].call = service

-----------------------------------------------------------------------------
RouterTypeOK ==
    /\ asked \in [Requests ->
                     [call : {"none", "find", "insert", "upsert", "delete",
                              "select", "fundamentals", "duckdb"},
                      code : {0, 200, 204, 400, 401, 405, 500, 501},
                      complete : BOOLEAN]]
    /\ answer \in [Requests -> {0, 200, 201, 204, 400, 401, 405, 500, 501}]
    /\ DOMAIN step = Requests

\* A request has a status when it is answered, and not before.
AnsweredWithCode == \A r \in Requests : step[r] = "answered" <=> answer[r] # 0
=============================================================================
