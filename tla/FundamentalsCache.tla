------------------------- MODULE FundamentalsCache --------------------------
(***************************************************************************)
(* FundamentalsController::get: the presigned URL of a fund's object, from *)
(* Redis if it is cached there; else the object is looked for in S3,       *)
(* fetched from the data provider and uploaded if it is not found, and a   *)
(* URL for it is made and cached for a day.  Requests run on several       *)
(* threads and nothing holds two of them apart.                            *)
(***************************************************************************)
EXTENDS Router

CONSTANTS Funds,         \* well-formed Sravz IDs
          NoFund,        \* a missing or malformed one
          ServicesFail   \* whether Redis, S3 and the data provider may fail

ASSUME FundsAssumption == NoFund \notin Funds /\ ServicesFail \in BOOLEAN

VARIABLES cached,   \* the funds whose URL Redis has
          object,   \* fund -> its object in S3: none, data, or the page of an
                    \*   upstream error
          fund,     \* request -> its Sravz ID
          body,     \* request -> what the data provider has returned
          unkept    \* history: funds whose last upload failed, or whose object
                    \*   was deleted since

fundVars == <<cached, object, fund, body, unkept>>

FundInit ==
    /\ cached = {}
    /\ object = [f \in Funds |-> "none"]
    /\ fund = [r \in Requests |-> NoFund]
    /\ body = [r \in Requests |-> "none"]
    /\ unkept = {}

\* The key expires.
Expire(f) ==
    /\ f \in cached
    /\ cached' = cached \ {f}
    /\ UNCHANGED <<routerVars, object, fund, body, unkept>>

\* Another program of the project deletes the object.
DeleteObject(f) ==
    /\ object[f] # "none"
    /\ object' = [object EXCEPT ![f] = "none"]
    /\ unkept' = unkept \cup {f}
    /\ UNCHANGED <<routerVars, cached, fund, body>>

-----------------------------------------------------------------------------
\* Fault: a missing ID is not told from the others.
FaultyFundGet(r) ==
    /\ CallOf(r, "fundamentals")
    /\ \E f \in Funds \cup {NoFund} :
          /\ fund' = [fund EXCEPT ![r] = f]
          /\ \/ f \in cached /\ Answers(r, 200)
             \/ f \notin cached /\ Goes(r, "head")
    /\ UNCHANGED <<asked, cached, object, body, unkept>>

\* redisClient_->get; a Redis error throws.
FundGet(r) ==
    /\ CallOf(r, "fundamentals")
    /\ \E f \in Funds \cup {NoFund} :
          /\ ~ asked[r].complete => f = NoFund
          /\ fund' = [fund EXCEPT ![r] = f]
          /\ \/ f \in cached /\ Answers(r, 200)
             \/ f \notin cached /\ Goes(r, "head")
             \/ ServicesFail /\ Answers(r, 500)
    /\ UNCHANGED <<asked, cached, object, body, unkept>>

HasObject(f) == f \in Funds /\ object[f] # "none"

\* Fault: an error counts as an object found.
FaultyFundHead(r) ==
    /\ step[r] = "head"
    /\ \/ fund[r] \in Funds /\ ServicesFail /\ Goes(r, "presign")
       \/ ~ HasObject(fund[r]) /\ Goes(r, "fetch")
    /\ UNCHANGED <<asked, fundVars>>

\* objectExists: an error counts as no object.
FundHead(r) ==
    /\ step[r] = "head"
    /\ \/ HasObject(fund[r]) /\ Goes(r, "presign")
       \/ (~ HasObject(fund[r]) \/ ServicesFail) /\ Goes(r, "fetch")
    /\ UNCHANGED <<asked, fundVars>>

\* ConvertMutualFundSravzIDToCode throws on a malformed ID.
FundFetch(r) ==
    /\ step[r] = "fetch"
    /\ IF fund[r] = NoFund THEN Answers(r, 500) ELSE Goes(r, "fetching")
    /\ UNCHANGED <<asked, fundVars>>

\* The promise gets the body of the response, whatever its status, or none.
FundFetched(r) ==
    /\ step[r] = "fetching"
    /\ \/ /\ \E b \in {"data", "page"} : body' = [body EXCEPT ![r] = b]
          /\ Goes(r, "put")
       \/ ServicesFail /\ Goes(r, "lost") /\ UNCHANGED body
    /\ UNCHANGED <<asked, cached, object, fund, unkept>>

\* Fault: the upload is skipped.
FaultyFundPut(r) ==
    /\ step[r] = "put"
    /\ Goes(r, "presign")
    /\ UNCHANGED <<asked, fundVars>>

\* putObject, its result ignored.
FundPut(r) ==
    /\ step[r] = "put"
    /\ \/ /\ object' = [object EXCEPT ![fund[r]] = body[r]]
          /\ unkept' = unkept \ {fund[r]}
       \/ /\ ServicesFail
          /\ unkept' = unkept \cup {fund[r]}
          /\ UNCHANGED object
    /\ Goes(r, "presign")
    /\ UNCHANGED <<asked, cached, fund, body>>

\* generatePresignedUrl asks nobody; set_with_expiry throws if Redis fails.
FundPresign(r) ==
    /\ step[r] = "presign"
    /\ \/ cached' = cached \cup {fund[r]} /\ Answers(r, 200)
       \/ ServicesFail /\ Answers(r, 500) /\ cached' \in {cached, cached \cup {fund[r]}}
    /\ UNCHANGED <<asked, object, fund, body, unkept>>

FundStep(r) == \/ FundGet(r) \/ FundHead(r) \/ FundFetch(r) \/ FundFetched(r)
               \/ FundPut(r) \/ FundPresign(r)

-----------------------------------------------------------------------------
FundTypeOK ==
    /\ cached \subseteq Funds /\ unkept \subseteq Funds
    /\ object \in [Funds -> {"none", "data", "page"}]
    /\ fund \in [Requests -> Funds \cup {NoFund}]
    /\ body \in [Requests -> {"none", "data", "page"}]

\* Where a handler is says what it has in hand.
FundSteps ==
    \A r \in Requests :
        /\ step[r] \in {"fetching", "put", "presign"} => fund[r] \in Funds
        /\ step[r] = "put" => body[r] # "none"
        /\ step[r] \in {"new", "call"} \/ ~ asked[r].complete => fund[r] = NoFund

\* A handler about to make a URL has an object for it, however long ago it
\* looked, unless the last upload failed or the object was deleted since.
PresignedObject ==
    \A r \in Requests :
        step[r] = "presign" => HasObject(fund[r]) \/ fund[r] \in unkept

-----------------------------------------------------------------------------
(* Properties.                                                             *)

\* A cached URL names an object, unless its last upload failed or the object
\* was deleted since: requests that miss together, one ahead of the other, do
\* not cache a URL before there was an upload.
UrlNamesObject == \A f \in cached : HasObject(f) \/ f \in unkept
=============================================================================
