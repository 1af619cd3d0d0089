----------------------- MODULE RequestServicesProofs ------------------------
(***************************************************************************)
(* The invariants of the request handlers for any requests, funds, files,  *)
(* connections and bounds, whatever the services do.                       *)
(***************************************************************************)
EXTENDS RequestServices, FiniteSetTheorems, TLAPS

\* What an answer and a step of r's handler leave of the others.
LEMMA GoesFacts ==
    ASSUME RouterTypeOK, NEW r \in Requests, NEW next, Goes(r, next)
    PROVE  /\ DOMAIN step' = Requests /\ answer' = answer
           /\ step'[r] = next
           /\ \A q \in Requests \ {r} : step'[q] = step[q]
  BY DEF RouterTypeOK, Goes

LEMMA AnswersFacts ==
    ASSUME RouterTypeOK, NEW r \in Requests,
           NEW code \in {200, 201, 204, 400, 401, 405, 500, 501},
           Answers(r, code)
    PROVE  /\ DOMAIN step' = Requests
           /\ answer' \in [Requests -> {0, 200, 201, 204, 400, 401, 405, 500, 501}]
           /\ step'[r] = "answered" /\ answer'[r] = code
           /\ \A q \in Requests \ {r} : step'[q] = step[q] /\ answer'[q] = answer[q]
  BY DEF RouterTypeOK, Answers

LEMMA InitInv == Init => ServicesInv
<1> SUFFICES ASSUME Init PROVE ServicesInv  OBVIOUS
<1> USE DEF Init, RouterInit, FundInit, DuckInit, MongoInit
<1>1. RouterTypeOK /\ AnsweredWithCode /\ StepsOfCalls
  BY DEF RouterTypeOK, AnsweredWithCode, StepsOfCalls, Reply
<1>2. FundTypeOK /\ FundSteps /\ PresignedObject
  BY DEF FundTypeOK, FundSteps, PresignedObject, Reply
<1>3. DuckTypeOK /\ DuckSteps
  BY FilesAssumption DEF DuckTypeOK, DuckSteps, Reply
<1>4. MongoTypeOK /\ MongoSteps
  BY MongoAssumption DEF MongoTypeOK, MongoSteps, Reply
<1>5. QED  BY <1>1, <1>2, <1>3, <1>4 DEF ServicesInv

-----------------------------------------------------------------------------
(* The front door.                                                         *)

\* A plan is a status, or a call that may lack a parameter only where the
\* controller is left to find out.
LEMMA PlanFacts ==
    ASSUME NEW q \in Inputs
    PROVE  LET plan == Plan(q)
           IN  /\ plan \in [call : {"none", "find", "insert", "upsert", "delete",
                                    "select", "fundamentals", "duckdb"},
                            code : {0, 200, 204, 400, 401, 405, 500, 501},
                            complete : BOOLEAN]
               /\ plan.call = "none" => plan.code # 0
               /\ ~ plan.complete => plan.call \in {"fundamentals", "duckdb"}
<1> DEFINE Plans ==
      {p \in [call : {"none", "find", "insert", "upsert", "delete",
                       "select", "fundamentals", "duckdb"},
              code : {0, 200, 204, 400, 401, 405, 500, 501},
              complete : BOOLEAN] :
          /\ p.call = "none" => p.code # 0
          /\ ~ p.complete => p.call \in {"fundamentals", "duckdb"}}
<1>1. /\ Reply(200) \in Plans /\ Reply(204) \in Plans /\ Reply(400) \in Plans
      /\ Reply(401) \in Plans /\ Reply(405) \in Plans /\ Reply(500) \in Plans
      /\ Reply(501) \in Plans
  BY DEF Reply
<1>2. /\ Call("find", TRUE) \in Plans /\ Call("insert", TRUE) \in Plans
      /\ Call("upsert", TRUE) \in Plans /\ Call("delete", TRUE) \in Plans
      /\ Call("select", TRUE) \in Plans
  BY DEF Call
<1>3. \A s \in {"fundamentals", "duckdb"} : \A b \in BOOLEAN : Call(s, b) \in Plans
  BY DEF Call
<1>4. q.method \in {"get", "head", "post", "put", "delete", "patch", "options",
                    "unknown"}
      /\ q.path \in {"none", "mdb", "s3", "fundamentals", "duckdb", "health",
                     "other", "invalid"}
      /\ q.params \in {"none", "some", "all"}
  BY DEF Inputs
<1> HIDE DEF Plans
<1>5. RouteGet(q) \in Plans
  <2>1. CASE q.path = "mdb"
    <3>1. CASE q.params = "none"
      <4>1. RouteGet(q) = Reply(400)  BY <2>1, <3>1 DEF RouteGet
      <4>2. QED  BY <1>1, <4>1
    <3>2. CASE q.params # "none" /\ q.collection
      <4>1. RouteGet(q) = Call("find", TRUE)  BY <2>1, <3>2 DEF RouteGet
      <4>2. QED  BY <1>2, <4>1
    <3>3. CASE q.params # "none" /\ ~ q.collection
      <4>1. RouteGet(q) = Reply(501)  BY <2>1, <3>3 DEF RouteGet
      <4>2. QED  BY <1>1, <4>1
    <3>4. QED  BY <3>1, <3>2, <3>3
  <2>2. CASE q.path = "s3"
    <3>1. CASE q.params = "all"
      <4>1. RouteGet(q) = Call("select", TRUE)  BY <2>2, <3>1 DEF RouteGet
      <4>2. QED  BY <1>2, <4>1
    <3>2. CASE q.params # "all"
      <4>1. RouteGet(q) = Reply(400)  BY <2>2, <3>2 DEF RouteGet
      <4>2. QED  BY <1>1, <4>1
    <3>3. QED  BY <3>1, <3>2
  <2>3. CASE q.path \in {"fundamentals", "duckdb"}
    <3>1. RouteGet(q) = Call(q.path, q.params = "all")
      BY <2>3 DEF RouteGet, RouteToController, ValidatedStatus, MissingParamsStatus
    <3>2. QED  BY <1>3, <2>3, <3>1
  <2>4. CASE q.path \notin {"mdb", "s3", "fundamentals", "duckdb"}
    <3>1. RouteGet(q) = Reply(501)  BY <2>4 DEF RouteGet
    <3>2. QED  BY <1>1, <3>1
  <2>5. QED  BY <2>1, <2>2, <2>3, <2>4
<1>6. Route(q) \in Plans
  <2>1. ASSUME NEW p \in Plans PROVE OnCollection(q, p) \in Plans
    BY <1>1, <2>1 DEF OnCollection
  <2>2. CASE q.path = "none"
    <3>1. Route(q) = Reply(501)  BY <2>2 DEF Route
    <3>2. QED  BY <1>1, <3>1
  <2>3. CASE q.path \notin {"invalid", "none"} /\ q.method = "get"
    <3>1. Route(q) = RouteGet(q)  BY <2>3 DEF Route
    <3>2. QED  BY <1>5, <3>1
  <2>4. CASE q.path \notin {"invalid", "none"} /\ q.method = "post"
    <3>1. Route(q) = OnCollection(q, Call("insert", TRUE))  BY <2>4 DEF Route
    <3>2. QED  BY <1>2, <2>1, <3>1
  <2>5. CASE q.path \notin {"invalid", "none"} /\ q.method = "put"
    <3>1. CASE q.body
      <4>1. Route(q) = OnCollection(q, Call("upsert", TRUE))
        BY <2>5, <3>1 DEF Route
      <4>2. QED  BY <1>2, <2>1, <4>1
    <3>2. CASE ~ q.body
      <4>1. Route(q) = OnCollection(q, Reply(500))  BY <2>5, <3>2 DEF Route
      <4>2. QED  BY <1>1, <2>1, <4>1
    <3>3. QED  BY <3>1, <3>2
  <2>6. CASE q.path \notin {"invalid", "none"} /\ q.method = "delete"
    <3>1. CASE q.body
      <4>1. Route(q) = OnCollection(q, Call("delete", TRUE))
        BY <2>6, <3>1 DEF Route
      <4>2. QED  BY <1>2, <2>1, <4>1
    <3>2. CASE ~ q.body
      <4>1. Route(q) = OnCollection(q, Reply(500))  BY <2>6, <3>2 DEF Route
      <4>2. QED  BY <1>1, <2>1, <4>1
    <3>3. QED  BY <3>1, <3>2
  <2>7. CASE /\ q.path \notin {"invalid", "none"}
             /\ q.method \notin {"get", "post", "put", "delete"}
    <3>1. Route(q) = Reply(405)  BY <2>7 DEF Route
    <3>2. QED  BY <1>1, <3>1
  <2>8. CASE q.path = "invalid"
    <3>1. Route(q) = Reply(500)  BY <2>8 DEF Route
    <3>2. QED  BY <1>1, <3>1
  <2>9. QED  BY <2>2, <2>3, <2>4, <2>5, <2>6, <2>7, <2>8
<1>7. HandleRequest(q) \in Plans
  <2>1. HandleRequest(q) \in {Reply(400), Reply(200), Reply(204), Route(q)}
    <3>1. CASE q.method \in {"unknown", "head", "options"}
      <4>1. CASE q.method = "unknown"  BY <4>1 DEF HandleRequest
      <4>2. CASE q.method = "head"  BY <4>2 DEF HandleRequest
      <4>3. CASE q.method = "options"  BY <4>3 DEF HandleRequest
      <4>4. QED  BY <3>1, <4>1, <4>2, <4>3
    <3>2. CASE q.method \notin {"unknown", "head", "options"} /\ q.path = "health"
      <4>1. HandleRequest(q) = Reply(200)  BY <3>2, SMTT(30) DEF HandleRequest
      <4>2. QED  BY <4>1
    <3>3. CASE q.method \notin {"unknown", "head", "options"} /\ q.path # "health"
      BY <3>3 DEF HandleRequest
    <3>4. QED  BY <3>1, <3>2, <3>3
  <2>2. QED  BY <1>1, <1>6, <2>1
<1>8. Plan(q) \in Plans
  BY <1>1, <1>7 DEF Plan
<1>9. QED  BY <1>8 DEF Plans

LEMMA ArriveInv ==
    ASSUME ServicesInv, NEW r \in Requests, Arrive(r),
           UNCHANGED <<fundVars, duckVars, mongoVars>>
    PROVE  ServicesInv'
<1> USE DEF ServicesInv
<1>1. PICK q \in Inputs :
         /\ asked' = [asked EXCEPT ![r] = Plan(q)]
         /\ IF Plan(q).call = "none" THEN Answers(r, Plan(q).code)
                                     ELSE Goes(r, "call")
  BY DEF Arrive
<1> DEFINE plan == Plan(q)
<1>2. /\ plan \in [call : {"none", "find", "insert", "upsert", "delete",
                           "select", "fundamentals", "duckdb"},
                   code : {0, 200, 204, 400, 401, 405, 500, 501},
                   complete : BOOLEAN]
      /\ plan.call = "none" => plan.code # 0
      /\ ~ plan.complete => plan.call \in {"fundamentals", "duckdb"}
  BY PlanFacts
<1>3. step[r] = "new"  BY DEF Arrive
<1> HIDE DEF plan
<1>4. /\ DOMAIN step' = Requests
      /\ answer' \in [Requests -> {0, 200, 201, 204, 400, 401, 405, 500, 501}]
      /\ step'[r] = "answered" \/ step'[r] = "call"
      /\ step'[r] = "answered" <=> answer'[r] # 0
      /\ \A p \in Requests \ {r} : step'[p] = step[p] /\ answer'[p] = answer[p]
  <2>1. CASE plan.call = "none"
    <3>1. plan.code \in {200, 201, 204, 400, 401, 405, 500, 501}
      BY <1>2, <2>1
    <3>2. Answers(r, plan.code)  BY <1>1, <2>1 DEF plan
    <3>3. QED  BY <3>1, <3>2, AnswersFacts
  <2>2. CASE plan.call # "none"
    <3>1. Goes(r, "call")  BY <1>1, <2>2 DEF plan
    <3>2. answer[r] = 0  BY <1>3 DEF AnsweredWithCode
    <3>3. QED  BY <3>1, <3>2, GoesFacts DEF RouterTypeOK
  <2>3. QED  BY <2>1, <2>2
<1>5. asked' = [asked EXCEPT ![r] = plan]  BY <1>1 DEF plan
<1>6. RouterTypeOK' /\ AnsweredWithCode'
  BY <1>2, <1>4, <1>5 DEF RouterTypeOK, AnsweredWithCode
<1>7. StepsOfCalls'
  BY <1>2, <1>4, <1>5 DEF RouterTypeOK, StepsOfCalls
<1>8. FundTypeOK' /\ FundSteps' /\ PresignedObject'
  BY <1>3, <1>4, <1>5
  DEF fundVars, RouterTypeOK, FundTypeOK, FundSteps, PresignedObject, HasObject
<1>9. DuckTypeOK' /\ DuckSteps'
  BY <1>3, <1>4, <1>5
  DEF duckVars, RouterTypeOK, DuckTypeOK, DuckSteps, TableOf
<1>10. MongoTypeOK' /\ MongoSteps'
  BY <1>3, <1>4, <1>5 DEF mongoVars, RouterTypeOK, MongoTypeOK, MongoSteps
<1>11. QED  BY <1>6, <1>7, <1>8, <1>9, <1>10

-----------------------------------------------------------------------------
(* A handler's step: what it leaves to show.                               *)

\* r's handler takes a step behind the front door, to this next one.
Moves(r, next) ==
    /\ step[r] \notin {"new", "answered"}
    /\ asked' = asked /\ DOMAIN step' = Requests /\ step'[r] = next
    /\ next \notin {"new", "call"}
    /\ answer' \in [Requests -> {0, 200, 201, 204, 400, 401, 405, 500, 501}]
    /\ next = "answered" <=> answer'[r] # 0
    /\ \A q \in Requests \ {r} : step'[q] = step[q] /\ answer'[q] = answer[q]

LEMMA MovesOn ==
    ASSUME ServicesInv, NEW r \in Requests, asked' = asked,
           step[r] \notin {"new", "answered"},
           NEW next \in {"head", "fetch", "fetching", "put", "presign", "lost",
                         "create", "duckSelect", "acquire", "mongo"},
           Goes(r, next)
    PROVE  Moves(r, next)
<1>1. answer[r] = 0  BY DEF ServicesInv, AnsweredWithCode
<1>2. QED
  BY <1>1, GoesFacts DEF Moves, ServicesInv, RouterTypeOK

LEMMA MovesToAnswer ==
    ASSUME ServicesInv, NEW r \in Requests, asked' = asked,
           step[r] \notin {"new", "answered"},
           NEW code \in {200, 201, 500}, Answers(r, code)
    PROVE  Moves(r, "answered") /\ answer'[r] = code
  BY AnswersFacts DEF Moves, ServicesInv

\* The step is one of the service that was called.
LEMMA MovesRouter ==
    ASSUME ServicesInv, NEW r \in Requests, NEW next, Moves(r, next),
           \/ next = "answered"
           \/ /\ asked[r].call = "fundamentals"
              /\ next \in {"head", "fetch", "fetching", "put", "presign", "lost"}
           \/ asked[r].call = "duckdb" /\ next \in {"create", "duckSelect"}
           \/ /\ asked[r].call \in {"find", "insert", "upsert", "delete"}
              /\ next \in {"acquire", "mongo"}
    PROVE  RouterTypeOK' /\ AnsweredWithCode' /\ StepsOfCalls'
<1>1. RouterTypeOK' /\ AnsweredWithCode'
  BY DEF ServicesInv, Moves, RouterTypeOK, AnsweredWithCode
<1>2. StepsOfCalls'
  BY DEF ServicesInv, Moves, StepsOfCalls
<1>3. QED  BY <1>1, <1>2

\* A service that is not concerned keeps its invariants.
LEMMA FundKept ==
    ASSUME ServicesInv, NEW r \in Requests, NEW next, Moves(r, next),
           UNCHANGED fundVars, next \notin {"fetching", "put", "presign"}
    PROVE  FundTypeOK' /\ FundSteps' /\ PresignedObject'
  BY DEF ServicesInv, Moves, fundVars, FundTypeOK, FundSteps, PresignedObject,
         HasObject

LEMMA DuckKept ==
    ASSUME ServicesInv, NEW r \in Requests, NEW next, Moves(r, next),
           UNCHANGED duckVars, next # "duckSelect"
    PROVE  DuckTypeOK' /\ DuckSteps'
  BY DEF ServicesInv, Moves, duckVars, DuckTypeOK, DuckSteps, TableOf

LEMMA MongoKept ==
    ASSUME ServicesInv, NEW r \in Requests, NEW next, Moves(r, next),
           UNCHANGED mongoVars, next \notin {"acquire", "mongo"}
    PROVE  MongoTypeOK' /\ MongoSteps'
  BY DEF ServicesInv, Moves, mongoVars, MongoTypeOK, MongoSteps

-----------------------------------------------------------------------------
(* The services.                                                           *)

LEMMA SelectInv ==
    ASSUME ServicesInv, NEW r \in Requests, Select(r),
           UNCHANGED <<fundVars, duckVars, mongoVars>>
    PROVE  ServicesInv'
<1>1. Moves(r, "answered")
  BY MovesToAnswer DEF Select, CallOf
<1>2. QED
  BY <1>1, MovesRouter, FundKept, DuckKept, MongoKept DEF ServicesInv

\* A handler makes a URL only for a fund that has an object, or has lost it.
LEMMA FundInv ==
    ASSUME ServicesInv, NEW r \in Requests, FundStep(r),
           UNCHANGED <<duckVars, mongoVars>>
    PROVE  ServicesInv'
<1> USE DEF ServicesInv
<1>1. /\ asked' = asked /\ asked[r].call = "fundamentals"
      /\ step[r] \notin {"new", "answered"}
  BY DEF FundStep, FundGet, FundHead, FundFetch, FundFetched, FundPut,
         FundPresign, CallOf, StepsOfCalls
<1>2. PICK next \in {"answered", "head", "fetch", "fetching", "put", "presign",
                     "lost"} : Moves(r, next)
  BY <1>1, MovesOn, MovesToAnswer
  DEF FundStep, FundGet, FundHead, FundFetch, FundFetched, FundPut, FundPresign
<1>3. RouterTypeOK' /\ AnsweredWithCode' /\ StepsOfCalls'
  BY <1>1, <1>2, MovesRouter
<1>4. DuckTypeOK' /\ DuckSteps' /\ MongoTypeOK' /\ MongoSteps'
  BY <1>2, DuckKept, MongoKept
<1>5. FundTypeOK' /\ FundSteps' /\ PresignedObject'
  <2> USE DEF Moves, RouterTypeOK, FundTypeOK, FundSteps, PresignedObject,
              HasObject
  <2>1. CASE FundGet(r)
    BY <1>1, <1>2, <2>1, GoesFacts, AnswersFacts DEF FundGet, CallOf
  <2>2. CASE FundHead(r)
    BY <1>1, <1>2, <2>2, GoesFacts DEF FundHead, fundVars
  <2>3. CASE FundFetch(r)
    BY <1>1, <1>2, <2>3, GoesFacts, AnswersFacts DEF FundFetch, fundVars
  <2>4. CASE FundFetched(r)
    BY <1>1, <1>2, <2>4, GoesFacts DEF FundFetched
  <2>5. CASE FundPut(r)
    BY <1>1, <1>2, <2>5, GoesFacts DEF FundPut
  <2>6. CASE FundPresign(r)
    BY <1>1, <1>2, <2>6, AnswersFacts DEF FundPresign
  <2>7. QED  BY <2>1, <2>2, <2>3, <2>4, <2>5, <2>6 DEF FundStep
<1>6. QED  BY <1>3, <1>4, <1>5

\* Rows come from the table, and a table is made once.
LEMMA DuckInv ==
    ASSUME ServicesInv, NEW r \in Requests, DuckStep(r),
           UNCHANGED <<fundVars, mongoVars>>
    PROVE  ServicesInv'
<1> USE DEF ServicesInv
<1>1. /\ asked' = asked /\ asked[r].call = "duckdb"
      /\ step[r] \notin {"new", "answered"}
  BY DEF DuckStep, DuckExists, DuckCreate, DuckSelect, CallOf, StepsOfCalls
<1>2. PICK next \in {"answered", "create", "duckSelect"} : Moves(r, next)
  BY <1>1, MovesOn, MovesToAnswer DEF DuckStep, DuckExists, DuckCreate, DuckSelect
<1>3. RouterTypeOK' /\ AnsweredWithCode' /\ StepsOfCalls'
  BY <1>1, <1>2, MovesRouter
<1>4. /\ FundTypeOK' /\ FundSteps' /\ PresignedObject'
      /\ MongoTypeOK' /\ MongoSteps'
  BY <1>2, FundKept, MongoKept
<1>5. DuckTypeOK' /\ DuckSteps'
  <2> USE DEF Moves, RouterTypeOK, DuckTypeOK, DuckSteps, TableOf, FileOf
  <2>1. CASE DuckExists(r)
    BY <1>1, <1>2, <2>1, GoesFacts, FilesAssumption DEF DuckExists, CallOf
  <2>2. CASE DuckCreate(r)
    <3>1. /\ step[r] = "create" /\ step'[r] = "duckSelect"
          /\ UNCHANGED <<parquet, written, file, rows>>
          /\ \/ /\ Creates(file[r]) /\ UNCHANGED excused
                /\ table' = [table EXCEPT ![file[r]] = parquet[file[r]]]
             \/ /\ table' = table
                /\ excused' = IF TableOf(file[r]) # 0 THEN excused
                                                     ELSE excused \cup {r}
      BY <2>2, GoesFacts DEF DuckCreate
    <3>2. CASE Creates(file[r]) /\ UNCHANGED excused
               /\ table' = [table EXCEPT ![file[r]] = parquet[file[r]]]
      <4>1. /\ file[r] \in Files /\ table[file[r]] = 0
            /\ parquet[file[r]] # 0
        BY <3>2 DEF Creates
      <4>2. QED  BY <1>1, <1>2, <3>1, <3>2, <4>1
    <3>3. CASE table' = table /\ excused' = IF TableOf(file[r]) # 0
                                             THEN excused ELSE excused \cup {r}
      <4>1. /\ excused \subseteq excused' /\ excused' \subseteq Requests
            /\ TableOf(file[r]) # 0 \/ r \in excused'
        BY <3>3
      <4>2. DuckTypeOK'  BY <3>1, <3>3, <4>1
      <4>3. DuckSteps'  BY <1>1, <1>2, <3>1, <3>3, <4>1
      <4>4. QED  BY <4>2, <4>3
    <3>4. QED  BY <3>1, <3>2, <3>3
  <2>3. CASE DuckSelect(r)
    BY <1>1, <1>2, <2>3, AnswersFacts DEF DuckSelect
  <2>4. QED  BY <2>1, <2>2, <2>3 DEF DuckStep
<1>6. QED  BY <1>3, <1>4, <1>5

\* A connection is taken and given back; documents are counted.
LEMMA MongoInv ==
    ASSUME ServicesInv, NEW r \in Requests, MongoStep(r),
           UNCHANGED <<fundVars, duckVars>>
    PROVE  ServicesInv'
<1> USE DEF ServicesInv
<1>1. /\ asked' = asked
      /\ asked[r].call \in {"find", "insert", "upsert", "delete"}
      /\ step[r] \notin {"new", "answered"}
  BY DEF MongoStep, InsertParse, MongoCall, Acquire, InsertMany, Upsert,
         Delete, FindOne, Returned, CallOf, StepsOfCalls
<1>2. PICK next \in {"answered", "acquire", "mongo"} : Moves(r, next)
  BY <1>1, MovesOn, MovesToAnswer
  DEF MongoStep, InsertParse, MongoCall, Acquire, InsertMany, Upsert, Delete,
      FindOne, Returned
<1>3. RouterTypeOK' /\ AnsweredWithCode' /\ StepsOfCalls'
  BY <1>1, <1>2, MovesRouter
<1>4. /\ FundTypeOK' /\ FundSteps' /\ PresignedObject'
      /\ DuckTypeOK' /\ DuckSteps'
  BY <1>2, FundKept, DuckKept
<1>5. MongoTypeOK' /\ MongoSteps'
  <2> USE DEF Moves, RouterTypeOK, MongoTypeOK, MongoSteps
  <2>1. CASE InsertParse(r)
    <3>1. step[r] = "call" /\ UNCHANGED <<asked, matching, free, added, removed>>
      BY <2>1 DEF InsertParse, CallOf
    <3>2. CASE /\ Goes(r, "acquire")
               /\ \E n \in 1 .. MaxBatch : batch' = [batch EXCEPT ![r] = n]
      <4>1. PICK n \in 1 .. MaxBatch : batch' = [batch EXCEPT ![r] = n]
        BY <3>2
      <4>2. n \in -1 .. MaxBatch  BY MongoAssumption
      <4>3. QED  BY <1>2, <3>1, <4>1, <4>2
    <3>3. CASE /\ batch' = [batch EXCEPT ![r] = -1]
               /\ \E c \in {201, 500} : Answers(r, c)
      <4>1. step'[r] = "answered"  BY <3>3, AnswersFacts
      <4>2. -1 \in -1 .. MaxBatch  BY MongoAssumption
      <4>3. QED  BY <1>2, <3>1, <3>3, <4>1, <4>2
    <3>4. QED  BY <2>1, <3>2, <3>3 DEF InsertParse
  <2>2. CASE MongoCall(r)
    BY <1>1, <1>2, <2>2 DEF MongoCall, CallOf, mongoVars
  <2>3. CASE Acquire(r)
    BY <1>1, <1>2, <2>3 DEF Acquire
  <2>4. CASE InsertMany(r)
    <3>1. batch[r] \in Nat /\ \A n \in 0 .. batch[r] : n \in Nat
      BY <2>4, MongoAssumption DEF InsertMany, Returned
    <3>2. QED
      BY <1>1, <1>2, <2>4, <3>1, AnswersFacts DEF InsertMany, Returned, Adds
  <2>5. CASE Upsert(r)
    BY <1>1, <1>2, <2>5, AnswersFacts DEF Upsert, Returned, Adds
  <2>6. CASE Delete(r)
    BY <1>1, <1>2, <2>6, AnswersFacts DEF Delete, Returned, Removes
  <2>7. CASE FindOne(r)
    BY <1>1, <1>2, <2>7, AnswersFacts DEF FindOne, Returned
  <2>8. QED
    BY <2>1, <2>2, <2>3, <2>4, <2>5, <2>6, <2>7 DEF MongoStep
<1>6. QED  BY <1>3, <1>4, <1>5

\* Keys expire, objects are deleted and files are replaced.
LEMMA OutsideInv == ASSUME ServicesInv, Outside PROVE ServicesInv'
<1> USE DEF ServicesInv, RouterTypeOK, AnsweredWithCode, StepsOfCalls,
            FundTypeOK, FundSteps, PresignedObject, HasObject, DuckTypeOK,
            DuckSteps, TableOf, MongoTypeOK, MongoSteps, routerVars, duckVars,
            fundVars, mongoVars
<1>1. ASSUME NEW f \in Funds, Expire(f), UNCHANGED <<duckVars, mongoVars>>
      PROVE  ServicesInv'
  BY <1>1 DEF Expire
<1>2. ASSUME NEW f \in Funds, DeleteObject(f), UNCHANGED <<duckVars, mongoVars>>
      PROVE  ServicesInv'
  BY <1>2 DEF DeleteObject
<1>3. ASSUME NEW k \in Files, Publish(k), UNCHANGED <<fundVars, mongoVars>>
      PROVE  ServicesInv'
  <2>1. /\ parquet' \in [Files -> 0 .. MaxVersions]
        /\ written' \in [Files -> 0 .. MaxVersions]
    <3>1. CASE /\ written[k] < MaxVersions
               /\ written' = [written EXCEPT ![k] = @ + 1]
               /\ parquet' = [parquet EXCEPT ![k] = written'[k]]
      <4>1. written[k] \in 0 .. MaxVersions  OBVIOUS
      <4>2. written[k] + 1 \in 0 .. MaxVersions
        BY <3>1, <4>1, FilesAssumption
      <4>3. written'[k] = written[k] + 1  BY <3>1
      <4>4. QED  BY <3>1, <4>2, <4>3
    <3>2. CASE /\ parquet' = [parquet EXCEPT ![k] = 0]
               /\ UNCHANGED written
      <4>1. 0 \in 0 .. MaxVersions  BY FilesAssumption
      <4>2. QED  BY <3>2, <4>1
    <3>3. QED  BY <1>3, <3>1, <3>2 DEF Publish
  <2>2. UNCHANGED <<asked, step, answer, table, file, rows, excused>>
    BY <1>3 DEF Publish
  <2>3. QED  BY <1>3, <2>1, <2>2
<1>4. QED  BY <1>1, <1>2, <1>3 DEF Outside

-----------------------------------------------------------------------------
(* The theorems.                                                           *)

\* Every handler takes the steps of its service, with what it has in hand.
THEOREM ServicesInvariance == Spec => []ServicesInv
<1>1. ServicesInv /\ Next => ServicesInv'
  BY ArriveInv, SelectInv, FundInv, DuckInv, MongoInv, OutsideInv
  DEF Next, RequestStep
<1>2. ServicesInv /\ UNCHANGED vars => ServicesInv'
  BY DEF vars, routerVars, duckVars, fundVars, mongoVars, ServicesInv,
         RouterTypeOK, AnsweredWithCode, StepsOfCalls, FundTypeOK, FundSteps,
         PresignedObject, HasObject, DuckTypeOK, DuckSteps, TableOf,
         MongoTypeOK, MongoSteps
<1>3. QED  BY <1>1, <1>2, InitInv, PTL DEF Spec

\* All requests for a file see the rows of one version.
THEOREM Snapshot == Spec => []OneSnapshot
<1>1. ServicesInv => OneSnapshot
  BY DEF ServicesInv, DuckSteps, OneSnapshot
<1>2. QED  BY <1>1, ServicesInvariance, PTL

\* A cached URL names an object that was uploaded, whichever request cached it.
THEOREM UrlsNameObjects == Spec => []UrlNamesObject
<1>1. Init => UrlNamesObject
  BY DEF Init, FundInit, UrlNamesObject
<1>2. ASSUME ServicesInv, UrlNamesObject, Next PROVE UrlNamesObject'
  <2> USE DEF ServicesInv, UrlNamesObject, HasObject, FundTypeOK
  <2>1. CASE UNCHANGED fundVars
    BY <1>2, <2>1 DEF fundVars
  <2>2. ASSUME NEW r \in Requests, FundStep(r) PROVE UrlNamesObject'
    <3>1. CASE FundPut(r)
      <4>1. body[r] # "none"  BY <1>2, <3>1 DEF FundPut, FundSteps
      <4>2. QED  BY <1>2, <3>1, <4>1 DEF FundPut
    <3>2. CASE FundPresign(r)
      <4>1. HasObject(fund[r]) \/ fund[r] \in unkept
        BY <1>2, <3>2 DEF FundPresign, PresignedObject
      <4>2. cached' \subseteq cached \cup {fund[r]} /\ UNCHANGED <<object, unkept>>
        BY <3>2 DEF FundPresign
      <4>3. fund[r] \in Funds
        BY <1>2, <3>2 DEF FundPresign, FundSteps
      <4>4. QED  BY <1>2, <4>1, <4>2, <4>3
    <3>3. CASE FundGet(r) \/ FundHead(r) \/ FundFetch(r) \/ FundFetched(r)
      BY <1>2, <3>3 DEF FundGet, FundHead, FundFetch, FundFetched, fundVars
    <3>4. QED  BY <2>2, <3>1, <3>2, <3>3 DEF FundStep
  <2>3. ASSUME NEW f \in Funds, Expire(f) \/ DeleteObject(f)
        PROVE  UrlNamesObject'
    BY <1>2, <2>3 DEF Expire, DeleteObject
  <2>4. QED  BY <1>2, <2>1, <2>2, <2>3 DEF Next, RequestStep, Outside
<1>3. UrlNamesObject /\ UNCHANGED vars => UrlNamesObject'
  BY DEF vars, fundVars, UrlNamesObject, HasObject
<1>4. QED  BY <1>1, <1>2, <1>3, ServicesInvariance, PTL DEF Spec

\* What a step of r leaves of the others, and which of its own it can be.
LEMMA OthersKept ==
    ASSUME ServicesInv, NEW r \in Requests, RequestStep(r)
    PROVE  /\ \A q \in Requests \ {r} :
                 /\ asked'[q] = asked[q] /\ step'[q] = step[q]
                 /\ answer'[q] = answer[q]
                 /\ fund'[q] = fund[q] /\ rows'[q] = rows[q]
           /\ excused \subseteq excused'
<1> USE DEF ServicesInv, RouterTypeOK, FundTypeOK, DuckTypeOK, Goes, Answers
<1>1. CASE Arrive(r) /\ UNCHANGED <<fundVars, duckVars, mongoVars>>
  BY <1>1 DEF Arrive, fundVars, duckVars
<1>2. CASE Select(r) /\ UNCHANGED <<fundVars, duckVars, mongoVars>>
  BY <1>2 DEF Select, fundVars, duckVars
<1>3. CASE FundStep(r) /\ UNCHANGED <<duckVars, mongoVars>>
  BY <1>3
  DEF FundStep, FundGet, FundHead, FundFetch, FundFetched, FundPut,
      FundPresign, fundVars, duckVars
<1>4. CASE DuckStep(r) /\ UNCHANGED <<fundVars, mongoVars>>
  BY <1>4 DEF DuckStep, DuckExists, DuckCreate, DuckSelect, fundVars
<1>5. CASE MongoStep(r) /\ UNCHANGED <<fundVars, duckVars>>
  BY <1>5
  DEF MongoStep, InsertParse, MongoCall, Acquire, InsertMany, Upsert, Delete,
      FindOne, Returned, fundVars, duckVars
<1>6. QED  BY <1>1, <1>2, <1>3, <1>4, <1>5 DEF RequestStep

\* A request that arrives and calls a service has no answer yet.
LEMMA ArriveFacts ==
    ASSUME ServicesInv, NEW r \in Requests, Arrive(r)
    PROVE  /\ step[r] = "new"
           /\ asked'[r].call \in {"fundamentals", "duckdb"} => answer'[r] = 0
           /\ ~ asked'[r].complete => asked'[r].call \in {"fundamentals", "duckdb"}
<1>1. step[r] = "new" /\ answer[r] = 0
  BY DEF Arrive, ServicesInv, AnsweredWithCode
<1>2. PICK q \in Inputs :
         /\ asked' = [asked EXCEPT ![r] = Plan(q)]
         /\ IF Plan(q).call = "none" THEN Answers(r, Plan(q).code)
                                     ELSE Goes(r, "call")
  BY DEF Arrive
<1>3. asked'[r] = Plan(q)
  BY <1>2 DEF ServicesInv, RouterTypeOK
<1>4. QED  BY <1>1, <1>2, <1>3, PlanFacts DEF Goes

\* A request for rows fails only for want of a file, or of a clause.
THEOREM DuckFails == Spec => []DuckFailsForCause
<1>1. Init => DuckFailsForCause
  BY DEF Init, RouterInit, DuckFailsForCause
<1>2. ASSUME ServicesInv, DuckFailsForCause, NEW r \in Requests, RequestStep(r)
      PROVE  DuckFailsForCause'
  <2> SUFFICES ASSUME asked'[r].call = "duckdb", answer'[r] = 500
               PROVE  r \in excused'
    BY <1>2, OthersKept DEF DuckFailsForCause
  <2>1. CASE Arrive(r)
    BY <1>2, <2>1, ArriveFacts
  <2>2. CASE Select(r) \/ FundStep(r) \/ MongoStep(r)
    BY <1>2, <2>2
    DEF Select, FundStep, FundGet, FundHead, FundFetch, FundFetched, FundPut,
        FundPresign, MongoStep, InsertParse, MongoCall, Acquire, InsertMany,
        Upsert, Delete, FindOne, Returned, CallOf, ServicesInv, StepsOfCalls
  <2>3. CASE DuckExists(r) \/ DuckCreate(r)
    BY <1>2, <2>3
    DEF DuckExists, DuckCreate, CallOf, Goes, ServicesInv, AnsweredWithCode
  <2>4. CASE DuckSelect(r)
    <3>1. /\ step[r] = "duckSelect"
          /\ \/ Answers(r, 200)
             \/ TableOf(file[r]) = 0 /\ UNCHANGED excused
             \/ excused' = excused \cup {r}
      BY <2>4 DEF DuckSelect
    <3>2. CASE Answers(r, 200)
      BY <1>2, <3>2, AnswersFacts DEF ServicesInv
    <3>3. CASE TableOf(file[r]) = 0 /\ UNCHANGED excused
      BY <1>2, <3>1, <3>3 DEF ServicesInv, DuckSteps
    <3>4. QED  BY <3>1, <3>2, <3>3
  <2>5. QED
    BY <1>2, <2>1, <2>2, <2>3, <2>4 DEF RequestStep, DuckStep
<1>3. DuckFailsForCause /\ (Outside \/ UNCHANGED vars) => DuckFailsForCause'
  BY DEF Outside, Expire, DeleteObject, Publish, vars, routerVars, duckVars,
         DuckFailsForCause
<1>4. ServicesInv /\ DuckFailsForCause /\ [Next]_vars => DuckFailsForCause'
  BY <1>2, <1>3 DEF Next
<1>5. QED  BY <1>1, <1>4, ServicesInvariance, PTL DEF Spec

\* What validate_request lets pass, the service refuses.
THEOREM Refused == Spec => []IncompleteFails
<1>1. Init => IncompleteFails
  BY DEF Init, RouterInit, FundInit, DuckInit, Reply, IncompleteFails
<1>2. ASSUME ServicesInv, IncompleteFails, NEW r \in Requests, RequestStep(r)
      PROVE  IncompleteFails'
  <2> SUFFICES ASSUME ~ asked'[r].complete
               PROVE  answer'[r] \in {0, 500} /\ fund'[r] = NoFund /\ rows'[r] = 0
    BY <1>2, OthersKept DEF IncompleteFails
  <2>1. CASE Arrive(r) /\ UNCHANGED <<fundVars, duckVars, mongoVars>>
    <3>1. step[r] = "new" /\ answer'[r] = 0
      BY <1>2, <2>1, ArriveFacts
    <3>2. fund[r] = NoFund /\ rows[r] = 0
      BY <1>2, <3>1 DEF ServicesInv, FundSteps, DuckSteps
    <3>3. QED  BY <2>1, <3>1, <3>2 DEF fundVars, duckVars
  <2>2. ASSUME asked' = asked
        PROVE  /\ answer[r] \in {0, 500} /\ fund[r] = NoFund /\ rows[r] = 0
               /\ asked[r].call \in {"fundamentals", "duckdb"}
    BY <1>2, <2>2 DEF IncompleteFails, ServicesInv, StepsOfCalls
  <2>3. CASE Select(r) \/ MongoStep(r)
    BY <1>2, <2>2, <2>3
    DEF Select, MongoStep, InsertParse, MongoCall, Acquire, InsertMany, Upsert,
        Delete, FindOne, Returned, CallOf, ServicesInv, StepsOfCalls
  <2>4. CASE FundStep(r) /\ UNCHANGED <<duckVars, mongoVars>>
    <3>1. asked' = asked /\ rows' = rows
      BY <2>4
      DEF FundStep, FundGet, FundHead, FundFetch, FundFetched, FundPut,
          FundPresign, duckVars
    <3>2. /\ fund[r] = NoFund /\ rows[r] = 0 /\ NoFund \notin Funds
          /\ answer[r] \in {0, 500}
      BY <2>2, <3>1, FundsAssumption
    <3>3. CASE FundGet(r)
      <4>1. ~ asked[r].complete  BY <3>1
      <4>2. NoFund \notin cached
        BY <1>2, <3>2 DEF ServicesInv, FundTypeOK
      <4>3. fund' = [fund EXCEPT ![r] = NoFund]
            /\ (Goes(r, "head") \/ Answers(r, 500))
        <5>1. PICK f \in Funds \cup {NoFund} :
                 /\ ~ asked[r].complete => f = NoFund
                 /\ fund' = [fund EXCEPT ![r] = f]
                 /\ \/ f \in cached /\ Answers(r, 200)
                    \/ f \notin cached /\ Goes(r, "head")
                    \/ ServicesFail /\ Answers(r, 500)
          BY <3>3 DEF FundGet
        <5>2. f = NoFund  BY <4>1, <5>1
        <5>3. QED  BY <4>2, <5>1, <5>2
      <4>4. answer'[r] \in {0, 500}
        BY <1>2, <3>2, <4>3 DEF Goes, Answers, ServicesInv, RouterTypeOK
      <4>5. QED
        BY <1>2, <3>1, <3>2, <4>3, <4>4 DEF ServicesInv, FundTypeOK
    <3>4. CASE FundHead(r)
      BY <3>1, <3>2, <3>4 DEF FundHead, Goes, fundVars
    <3>5. CASE FundFetch(r)
      BY <1>2, <3>1, <3>2, <3>5
      DEF FundFetch, Answers, fundVars, ServicesInv, RouterTypeOK
    <3>6. CASE FundFetched(r) \/ FundPut(r) \/ FundPresign(r)
      BY <1>2, <3>2, <3>6
      DEF FundFetched, FundPut, FundPresign, ServicesInv, FundSteps
    <3>7. QED  BY <2>4, <3>3, <3>4, <3>5, <3>6 DEF FundStep
  <2>5. CASE DuckStep(r) /\ UNCHANGED <<fundVars, mongoVars>>
    <3>1. asked' = asked /\ fund' = fund
      BY <2>5 DEF DuckStep, DuckExists, DuckCreate, DuckSelect, fundVars
    <3>2. fund[r] = NoFund /\ rows[r] = 0 /\ answer[r] \in {0, 500}
      BY <2>2, <3>1
    <3>3. CASE DuckExists(r) \/ DuckCreate(r)
      BY <3>1, <3>2, <3>3 DEF DuckExists, DuckCreate, Goes
    <3>4. CASE DuckSelect(r)
      <4>1. ~ asked[r].complete  BY <3>1
      <4>2. Answers(r, 500) /\ rows' = rows
        BY <3>4, <4>1 DEF DuckSelect
      <4>3. QED
        BY <1>2, <3>1, <3>2, <4>2, AnswersFacts DEF ServicesInv
    <3>5. QED  BY <2>5, <3>3, <3>4 DEF DuckStep
  <2>6. QED  BY <1>2, <2>1, <2>3, <2>4, <2>5 DEF RequestStep
<1>3. IncompleteFails /\ (Outside \/ UNCHANGED vars) => IncompleteFails'
  BY DEF Outside, Expire, DeleteObject, Publish, vars, routerVars, fundVars,
         duckVars, IncompleteFails
<1>4. ServicesInv /\ IncompleteFails /\ [Next]_vars => IncompleteFails'
  BY <1>2, <1>3 DEF Next
<1>5. QED  BY <1>1, <1>4, ServicesInvariance, PTL DEF Spec

\* The connections in use are those of the requests at the driver.
Using == {r \in Requests : step[r] = "mongo"}

\* One request more or less is at the driver, or none.
LEMMA UsingSteps ==
    ASSUME ServicesInv, NEW r \in Requests, RequestStep(r)
    PROVE  \/ /\ Using' = Using \cup {r} /\ r \notin Using
              /\ free' = free - 1
           \/ /\ Using' = Using \ {r} /\ r \in Using
              /\ free' = free + 1
           \/ Using' = Using /\ free' = free
<1> USE DEF ServicesInv, RouterTypeOK, Using, Goes, Answers
<1>1. CASE Arrive(r) /\ UNCHANGED <<fundVars, duckVars, mongoVars>>
  BY <1>1 DEF Arrive, mongoVars
<1>2. CASE Select(r) /\ UNCHANGED <<fundVars, duckVars, mongoVars>>
  BY <1>2 DEF Select, CallOf, mongoVars
<1>3. CASE FundStep(r) /\ UNCHANGED <<duckVars, mongoVars>>
  BY <1>3
  DEF FundStep, FundGet, FundHead, FundFetch, FundFetched, FundPut,
      FundPresign, CallOf, mongoVars
<1>4. CASE DuckStep(r) /\ UNCHANGED <<fundVars, mongoVars>>
  BY <1>4 DEF DuckStep, DuckExists, DuckCreate, DuckSelect, CallOf, mongoVars
<1>5. CASE InsertParse(r) \/ MongoCall(r)
  BY <1>5 DEF InsertParse, MongoCall, CallOf, mongoVars
<1>6. CASE Acquire(r)
  BY <1>6 DEF Acquire
<1>7. CASE InsertMany(r) \/ Upsert(r) \/ Delete(r) \/ FindOne(r)
  BY <1>7 DEF InsertMany, Upsert, Delete, FindOne, Returned
<1>8. QED
  BY <1>1, <1>2, <1>3, <1>4, <1>5, <1>6, <1>7 DEF RequestStep, MongoStep

\* Every connection is in the pool or with one request, for any pool.
THEOREM NoneLeaks ==
    ASSUME IsFiniteSet(Requests) PROVE Spec => []ConnectionsReturn
<1>1. IsFiniteSet(Using) /\ Cardinality(Using) \in Nat
  <2>1. Using \subseteq Requests  BY DEF Using
  <2>2. QED  BY <2>1, FS_Subset, FS_CardinalityType
<1>2. ConnectionsReturn <=> free + Cardinality(Using) = PoolSize
  BY DEF ConnectionsReturn, Using
<1>3. Init => ConnectionsReturn
  <2> SUFFICES ASSUME Init PROVE ConnectionsReturn  OBVIOUS
  <2>1. Using = {}  BY DEF Init, RouterInit, Using
  <2>2. free = PoolSize /\ PoolSize \in Nat
    BY MongoAssumption DEF Init, MongoInit
  <2>3. QED  BY <1>2, <2>1, <2>2, FS_EmptySet
<1>4. ASSUME ServicesInv, ConnectionsReturn, NEW r \in Requests, RequestStep(r)
      PROVE  ConnectionsReturn'
  <2>1. free \in Nat  BY <1>4 DEF ServicesInv, MongoTypeOK
  <2>2. \/ Cardinality(Using') = Cardinality(Using) + 1 /\ free' = free - 1
        \/ Cardinality(Using') = Cardinality(Using) - 1 /\ free' = free + 1
        \/ Cardinality(Using') = Cardinality(Using) /\ free' = free
    BY <1>1, <1>4, UsingSteps, FS_AddElement, FS_RemoveElement
  <2>3. free' + Cardinality(Using') = free + Cardinality(Using)
    BY <1>1, <2>1, <2>2
  <2>4. QED  BY <1>2, <1>4, <2>3 DEF ConnectionsReturn, Using
<1>5. ConnectionsReturn /\ (Outside \/ UNCHANGED vars) => ConnectionsReturn'
  BY DEF Outside, Expire, DeleteObject, Publish, vars, routerVars, mongoVars,
         ConnectionsReturn
<1>6. ServicesInv /\ ConnectionsReturn /\ [Next]_vars => ConnectionsReturn'
  BY <1>4, <1>5 DEF Next
<1>7. QED  BY <1>3, <1>6, ServicesInvariance, PTL DEF Spec

-----------------------------------------------------------------------------
(* The documents of the collection.                                        *)

\* The documents of finitely many requests can be counted.
LEMMA DocumentsFinite ==
    ASSUME IsFiniteSet(Requests), NEW f \in [Requests -> Nat]
    PROVE  IsFiniteSet(Documents(f)) /\ Cardinality(Documents(f)) \in Nat
<1> DEFINE g == [r \in Requests |-> {r} \X (1 .. f[r])]
           S == {g[r] : r \in Requests}
<1>1. IsFiniteSet(S)
  <2>1. g \in [Requests -> S]  BY Zenon
  <2>2. \A s \in S : \E r \in Requests : g[r] = s  BY Zenon
  <2> HIDE DEF g
  <2>3. g \in Surjection(Requests, S)
    BY <2>1, <2>2 DEF Surjection
  <2>4. QED  BY <2>3, FS_Surjection
<1>2. ASSUME NEW s \in S PROVE IsFiniteSet(s)
  <2>1. PICK r \in Requests : s = {r} \X (1 .. f[r])  OBVIOUS
  <2>2. f[r] \in Int  OBVIOUS
  <2>3. IsFiniteSet(1 .. f[r])  BY <2>2, FS_Interval
  <2>4. IsFiniteSet({r})  BY FS_Singleton
  <2>5. QED  BY <2>1, <2>3, <2>4, FS_Product
<1>3. Documents(f) = UNION S  BY DEF Documents
<1> HIDE DEF S
<1>4. IsFiniteSet(Documents(f))  BY <1>1, <1>2, <1>3, FS_UNION
<1>5. QED  BY <1>4, FS_CardinalityType

\* A request that had none and now has n adds n documents to the count.
LEMMA DocumentsAdded ==
    ASSUME IsFiniteSet(Requests), NEW f \in [Requests -> Nat],
           NEW r \in Requests, f[r] = 0, NEW n \in Nat
    PROVE  LET g == [f EXCEPT ![r] = n]
           IN  Cardinality(Documents(g)) = Cardinality(Documents(f)) + n
<1> DEFINE g == [f EXCEPT ![r] = n]
           D == Documents(f)
           N == {r} \X (1 .. n)
<1>1. /\ g[r] = n /\ \A q \in Requests \ {r} : g[q] = f[q]
  OBVIOUS
<1>2. 1 .. f[r] = {}  OBVIOUS
<1>3. Documents(g) = D \cup N
  <2>1. \A q \in Requests : {q} \X (1 .. g[q]) \subseteq D \cup N
    BY <1>1 DEF Documents
  <2>2. \A q \in Requests : {q} \X (1 .. f[q]) \subseteq Documents(g)
    <3> SUFFICES ASSUME NEW q \in Requests
                 PROVE  {q} \X (1 .. f[q]) \subseteq Documents(g)
      OBVIOUS
    <3>1. CASE q = r  BY <1>2, <3>1
    <3>2. CASE q # r  BY <1>1, <3>2 DEF Documents
    <3>3. QED  BY <3>1, <3>2
  <2>3. N \subseteq Documents(g)  BY <1>1 DEF Documents
  <2>4. Documents(g) \subseteq D \cup N  BY <2>1 DEF Documents
  <2>5. D \subseteq Documents(g)  BY <2>2 DEF Documents
  <2>6. QED  BY <2>3, <2>4, <2>5
<1>4. D \cap N = {}
  <2>1. \A q \in Requests : ({q} \X (1 .. f[q])) \cap N = {}
    <3> SUFFICES ASSUME NEW q \in Requests
                 PROVE  ({q} \X (1 .. f[q])) \cap N = {}
      OBVIOUS
    <3>1. CASE q = r  BY <1>2, <3>1
    <3>2. CASE q # r  BY <3>2
    <3>3. QED  BY <3>1, <3>2
  <2>2. QED  BY <2>1 DEF Documents
<1>5. IsFiniteSet(N) /\ Cardinality(N) = n
  <2>1. IsFiniteSet({r}) /\ Cardinality({r}) = 1  BY FS_Singleton
  <2>2. /\ IsFiniteSet(1 .. n)
        /\ Cardinality(1 .. n) = IF 1 > n THEN 0 ELSE n - 1 + 1
    <3>1. 1 \in Int /\ n \in Int  OBVIOUS
    <3>2. QED  BY <3>1, FS_Interval
  <2>3. Cardinality(1 .. n) = n  BY <2>2
  <2>4. /\ IsFiniteSet({r} \X (1 .. n))
        /\ Cardinality({r} \X (1 .. n)) = Cardinality({r}) * Cardinality(1 .. n)
    BY <2>1, <2>2, FS_Product, Zenon
  <2>5. 1 * n = n  OBVIOUS
  <2>6. Cardinality({r} \X (1 .. n)) = 1 * n  BY <2>1, <2>3, <2>4, Zenon
  <2>7. QED  BY <2>4, <2>5, <2>6
<1>6. IsFiniteSet(D) /\ Cardinality(D) \in Nat  BY DocumentsFinite
<1> HIDE DEF D, N
<1>7. Cardinality(D \cup N) = Cardinality(D) + n
  <2>1. Cardinality(D \cup N) = Cardinality(D) + Cardinality(N) - Cardinality({})
    BY <1>4, <1>5, <1>6, FS_Union
  <2>2. Cardinality({}) = 0  BY FS_EmptySet
  <2>3. QED  BY <1>5, <1>6, <2>1, <2>2
<1>8. QED  BY <1>3, <1>7 DEF D

\* A request changes the collection once: by the call it is answered for.
Untouched ==
    \A r \in Requests : step[r] # "answered" => added[r] = 0 /\ removed[r] = 0

\* What a request's step does to the documents.
LEMMA DocumentSteps ==
    ASSUME ServicesInv, NEW r \in Requests, RequestStep(r)
    PROVE  \/ UNCHANGED <<matching, added, removed>>
           \/ /\ step[r] = "mongo" /\ step'[r] = "answered"
              /\ \/ \E n \in Nat : Adds(r, n)
                 \/ \E n \in 0 .. matching : Removes(r, n)
<1>1. CASE UNCHANGED mongoVars  BY <1>1 DEF mongoVars
<1>2. CASE InsertParse(r) \/ MongoCall(r) \/ Acquire(r) \/ FindOne(r)
  BY <1>2 DEF InsertParse, MongoCall, Acquire, FindOne, mongoVars
<1>3. ASSUME NEW code \in {200, 201, 500}, Returned(r, code)
      PROVE  step[r] = "mongo" /\ step'[r] = "answered"
  BY <1>3, AnswersFacts DEF Returned, ServicesInv
<1>4. CASE InsertMany(r)
  <2>1. step[r] = "mongo" /\ step'[r] = "answered"
    BY <1>3, <1>4 DEF InsertMany
  <2>2. batch[r] \in Nat
    <3>1. batch[r] \in 1 .. MaxBatch
      BY <1>4, <2>1 DEF InsertMany, ServicesInv, MongoSteps
    <3>2. QED  BY <3>1
  <2>3. \E n \in 0 .. batch[r] : Adds(r, n)
    BY <1>4, <2>2 DEF InsertMany
  <2>4. QED  BY <2>1, <2>2, <2>3
<1>5. CASE Upsert(r)
  <2>1. step[r] = "mongo" /\ step'[r] = "answered"
    BY <1>3, <1>5 DEF Upsert
  <2>2. Adds(r, 0) \/ Adds(r, 1)  BY <1>5 DEF Upsert
  <2>3. QED  BY <2>1, <2>2
<1>6. CASE Delete(r)
  <2>1. step[r] = "mongo" /\ step'[r] = "answered"
    BY <1>3, <1>6 DEF Delete
  <2>2. matching \in Nat  BY DEF ServicesInv, MongoTypeOK
  <2>3. \E n \in 0 .. matching : Removes(r, n)
    BY <1>6, <2>2 DEF Delete
  <2>4. QED  BY <2>1, <2>3
<1>7. QED  BY <1>1, <1>2, <1>4, <1>5, <1>6 DEF RequestStep, MongoStep

\* A request that has been answered takes no further step.
LEMMA AnsweredStays ==
    ASSUME ServicesInv, NEW r \in Requests, RequestStep(r)
    PROVE  step[r] # "answered"
  BY DEF RequestStep, Arrive, Select, CallOf, FundStep, FundGet, FundHead,
         FundFetch, FundFetched, FundPut, FundPresign, DuckStep, DuckExists,
         DuckCreate, DuckSelect, MongoStep, InsertParse, MongoCall, Acquire,
         InsertMany, Upsert, Delete, FindOne, Returned

\* The collection holds what was inserted less what was deleted, whatever was
\* answered, for any number of requests.
THEOREM AllAccountedFor ==
    ASSUME IsFiniteSet(Requests) PROVE Spec => []DocumentsAccountedFor
<1> DEFINE Inv == Untouched /\ DocumentsAccountedFor
<1>1. Init => Inv
  <2> SUFFICES ASSUME Init PROVE Inv  OBVIOUS
  <2>1. /\ added = [r \in Requests |-> 0] /\ removed = added /\ matching = 0
    BY DEF Init, MongoInit
  <2>2. Untouched  BY <2>1 DEF Untouched
  <2>3. Cardinality(Documents(added)) \in Nat
    BY <2>1, DocumentsFinite
  <2>4. QED  BY <2>1, <2>2, <2>3 DEF DocumentsAccountedFor
<1>2. ASSUME ServicesInv, Inv, NEW r \in Requests, RequestStep(r) PROVE Inv'
  <2>1. /\ added \in [Requests -> Nat] /\ removed \in [Requests -> Nat]
        /\ matching \in Nat
    BY <1>2 DEF ServicesInv, MongoTypeOK
  <2>2. \A q \in Requests \ {r} : step'[q] = step[q]
    BY <1>2, OthersKept
  <2>3. step[r] # "answered" /\ added[r] = 0 /\ removed[r] = 0
    BY <1>2, AnsweredStays DEF Untouched
  <2>4. /\ Cardinality(Documents(added)) \in Nat
        /\ Cardinality(Documents(removed)) \in Nat
    BY <2>1, DocumentsFinite
  <2>5. matching + Cardinality(Documents(removed)) = Cardinality(Documents(added))
    BY <1>2 DEF DocumentsAccountedFor
  <2>6. CASE UNCHANGED <<matching, added, removed>>
    <3>1. DocumentsAccountedFor'
      BY <2>5, <2>6 DEF DocumentsAccountedFor
    <3>2. Untouched'
      BY <1>2, <2>2, <2>3, <2>6 DEF Untouched
    <3>3. QED  BY <3>1, <3>2
  <2>7. ASSUME step'[r] = "answered", NEW n \in Nat, Adds(r, n)
        PROVE  Inv'
    <3>1. /\ matching' = matching + n /\ added' = [added EXCEPT ![r] = n]
          /\ removed' = removed
      BY <2>7 DEF Adds
    <3>2. Cardinality(Documents(added')) = Cardinality(Documents(added)) + n
      BY <2>1, <2>3, <3>1, DocumentsAdded
    <3>3. matching' + Cardinality(Documents(removed'))
             = Cardinality(Documents(added'))
      BY <2>1, <2>4, <2>5, <3>1, <3>2
    <3>4. Untouched'
      BY <1>2, <2>1, <2>2, <2>7, <3>1 DEF Untouched
    <3>5. QED  BY <3>3, <3>4 DEF DocumentsAccountedFor, Documents
  <2>8. ASSUME step'[r] = "answered", NEW n \in 0 .. matching, Removes(r, n)
        PROVE  Inv'
    <3>1. /\ matching' = matching - n /\ removed' = [removed EXCEPT ![r] = n]
          /\ added' = added /\ n \in Nat
      BY <2>8 DEF Removes
    <3>2. Cardinality(Documents(removed')) = Cardinality(Documents(removed)) + n
      BY <2>1, <2>3, <3>1, DocumentsAdded
    <3>3. matching' + Cardinality(Documents(removed'))
             = Cardinality(Documents(added'))
      BY <2>1, <2>4, <2>5, <3>1, <3>2
    <3>4. Untouched'
      BY <1>2, <2>1, <2>2, <2>8, <3>1 DEF Untouched
    <3>5. QED  BY <3>3, <3>4 DEF DocumentsAccountedFor, Documents
  <2>9. QED  BY <1>2, <2>6, <2>7, <2>8, DocumentSteps
<1>3. Inv /\ (Outside \/ UNCHANGED vars) => Inv'
  BY DEF Outside, Expire, DeleteObject, Publish, vars, routerVars, mongoVars,
         Untouched, DocumentsAccountedFor, Documents
<1>4. ServicesInv /\ Inv /\ [Next]_vars => Inv'
  BY <1>2, <1>3 DEF Next
<1>5. QED  BY <1>1, <1>4, ServicesInvariance, PTL DEF Spec
=============================================================================
