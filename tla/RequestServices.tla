-------------------------- MODULE RequestServices ---------------------------
(***************************************************************************)
(* Requests on their way through the router and the services behind it,    *)
(* any number at once: http_session's front door, router::route, and on a  *)
(* thread of the background pool for each the fundamentals cache, DuckDB,  *)
(* MongoDB and S3 Select.  That a thread is free is BackgroundPool's       *)
(* business.                                                               *)
(***************************************************************************)
EXTENDS FundamentalsCache, DuckTables, MongoStore

vars == <<routerVars, fundVars, duckVars, mongoVars>>

Init == RouterInit /\ FundInit /\ DuckInit /\ MongoInit

\* AWSS3Controller::get: the records that came, as an array; an error leaves
\* it short or empty and is only logged.
Select(r) == /\ CallOf(r, "select")
             /\ Answers(r, 200)
             /\ UNCHANGED asked

RequestStep(r) ==
    \/ Arrive(r) /\ UNCHANGED <<fundVars, duckVars, mongoVars>>
    \/ Select(r) /\ UNCHANGED <<fundVars, duckVars, mongoVars>>
    \/ FundStep(r) /\ UNCHANGED <<duckVars, mongoVars>>
    \/ DuckStep(r) /\ UNCHANGED <<fundVars, mongoVars>>
    \/ MongoStep(r) /\ UNCHANGED <<fundVars, duckVars>>

Outside ==
    \/ /\ \E f \in Funds : Expire(f) \/ DeleteObject(f)
       /\ UNCHANGED <<duckVars, mongoVars>>
    \/ /\ \E k \in Files : Publish(k)
       /\ UNCHANGED <<fundVars, mongoVars>>

Next == Outside \/ \E r \in Requests : RequestStep(r)

\* Every call of a service ends: Redis, S3 and the driver have timeouts.
Spec == /\ Init /\ [][Next]_vars
        /\ \A r \in Requests : WF_vars(step[r] # "new" /\ RequestStep(r))

-----------------------------------------------------------------------------
\* A handler takes the steps of the service it called.
StepsOfCalls ==
    \A r \in Requests :
        /\ step[r] = "new" => asked[r] = Reply(0)
        /\ step[r] \in {"head", "fetch", "fetching", "put", "presign", "lost"} =>
              asked[r].call = "fundamentals"
        /\ step[r] \in {"create", "duckSelect"} => asked[r].call = "duckdb"
        /\ step[r] \in {"acquire", "mongo"} =>
              asked[r].call \in {"find", "insert", "upsert", "delete"}
        /\ ~ asked[r].complete => asked[r].call \in {"fundamentals", "duckdb"}

\* The inductive invariant of the request handlers.
ServicesInv == /\ RouterTypeOK /\ AnsweredWithCode /\ StepsOfCalls
               /\ FundTypeOK /\ FundSteps /\ PresignedObject
               /\ DuckTypeOK /\ DuckSteps
               /\ MongoTypeOK /\ MongoSteps

-----------------------------------------------------------------------------
(* Properties.                                                             *)

\* A request that lacks a parameter of its service is answered 500 in the end,
\* and never has a URL or rows: what validate_request lets pass, the service
\* refuses.
IncompleteFails ==
    \A r \in Requests :
        ~ asked[r].complete => /\ answer[r] \in {0, 500}
                               /\ fund[r] = NoFund /\ rows[r] = 0

\* Every request the services were called for is answered, except one whose
\* fetch was lost; waiting for a connection ends.
RequestsAnswered ==
    \A r \in Requests : step[r] = "call" ~> step[r] \in {"answered", "lost"}
=============================================================================
