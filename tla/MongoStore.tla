----------------------------- MODULE MongoStore -----------------------------
(***************************************************************************)
(* MongoClient: every call takes a connection of the driver's pool, waits  *)
(* for one if none is free, and gives it back when it returns or throws.   *)
(* insert_many looks at its documents before it takes the connection, the  *)
(* others after.  The collection is the number of documents that match the *)
(* one filter of the requests.                                             *)
(***************************************************************************)
EXTENDS Router

CONSTANTS PoolSize,   \* connections of the pool (100 by the driver's default)
          MaxBatch,   \* bound: documents of one POST
          MongoFails  \* whether MongoDB may fail or its reply be lost

ASSUME MongoAssumption ==
    /\ PoolSize \in Nat \ {0} /\ MaxBatch \in Nat \ {0}
    /\ MongoFails \in BOOLEAN

VARIABLES matching,   \* documents in the collection that match the filter
          free,       \* connections in the pool
          batch,      \* request -> documents to insert, or -1 for a body that
                      \*   is no array of documents
          added,      \* history: request -> documents it has inserted
          removed     \* history: request -> documents it has deleted

mongoVars == <<matching, free, batch, added, removed>>

MongoInit ==
    /\ matching = 0
    /\ free = PoolSize
    /\ batch = [r \in Requests |-> 0]
    /\ added = [r \in Requests |-> 0]
    /\ removed = [r \in Requests |-> 0]

\* insert_many, up to get_connection(): from_json and parse may throw, and
\* what is not an array, or empty, is answered with its text and 201.
InsertParse(r) ==
    /\ CallOf(r, "insert")
    /\ \/ \E n \in 1 .. MaxBatch : batch' = [batch EXCEPT ![r] = n]
          /\ Goes(r, "acquire")
       \/ batch' = [batch EXCEPT ![r] = -1] /\ \E c \in {201, 500} : Answers(r, c)
    /\ UNCHANGED <<asked, matching, free, added, removed>>

\* Every other call begins with get_connection().
MongoCall(r) ==
    /\ CallOf(r, "find") \/ CallOf(r, "upsert") \/ CallOf(r, "delete")
    /\ Goes(r, "acquire")
    /\ UNCHANGED <<asked, mongoVars>>

\* pool::acquire blocks the thread until a connection is free.
Acquire(r) ==
    /\ step[r] = "acquire" /\ free > 0
    /\ free' = free - 1
    /\ Goes(r, "mongo")
    /\ UNCHANGED <<asked, matching, batch, added, removed>>

\* Fault: the connection is kept.
FaultyReturned(r, code) == /\ step[r] = "mongo"
                           /\ Answers(r, code)
                           /\ UNCHANGED free

\* The call returns this code or throws, and the connection goes back.
Returned(r, code) == /\ step[r] = "mongo"
                     /\ Answers(r, code)
                     /\ free' = free + 1

Adds(r, n) == /\ matching' = matching + n
              /\ added' = [added EXCEPT ![r] = n]
              /\ UNCHANGED removed

\* Fault: a batch that failed is inserted once more.
FaultyInsertManyRetries(r) ==
    /\ asked[r].call = "insert"
    /\ \/ Adds(r, batch[r])
       \/ /\ MongoFails
          /\ added' = [added EXCEPT ![r] = batch[r]]
          /\ \E n \in 1 .. batch[r] : matching' = matching + n + batch[r]
          /\ UNCHANGED removed
    /\ Returned(r, 201)
    /\ UNCHANGED <<asked, batch>>

\* An ordered bulk write: it stops at the first document refused, and throws
\* with those before it inserted.
InsertMany(r) ==
    /\ asked[r].call = "insert"
    /\ \/ Adds(r, batch[r]) /\ Returned(r, 201)
       \/ /\ MongoFails
          /\ \E n \in 0 .. batch[r] : Adds(r, n)
          /\ Returned(r, 500)
    /\ UNCHANGED <<asked, batch>>

\* $set on one match or on all, which go on matching; one document is inserted
\* if none does.  A filter or an update that is not BSON throws too.
Upsert(r) ==
    /\ asked[r].call = "upsert"
    /\ \/ Adds(r, IF matching = 0 THEN 1 ELSE 0) /\ Returned(r, 201)
       \/ /\ Adds(r, 0) \/ (MongoFails /\ matching = 0 /\ Adds(r, 1))
          /\ Returned(r, 500)
    /\ UNCHANGED <<asked, batch>>

Removes(r, n) == /\ matching' = matching - n
                 /\ removed' = [removed EXCEPT ![r] = n]
                 /\ UNCHANGED added

\* delete_one takes the first match, delete_many all.
Delete(r) ==
    /\ asked[r].call = "delete"
    /\ \E n \in {0, matching} \cup (IF matching > 0 THEN {1} ELSE {}) :
          /\ Removes(r, n)
          /\ \/ (n = 0 => matching = 0) /\ Returned(r, 200)
             \/ (n # 0 => MongoFails) /\ Returned(r, 500)
    /\ UNCHANGED <<asked, batch>>

FindOne(r) ==
    /\ asked[r].call = "find"
    /\ \E code \in {200, 500} : Returned(r, code)
    /\ UNCHANGED <<asked, matching, batch, added, removed>>

MongoStep(r) == \/ InsertParse(r) \/ MongoCall(r) \/ Acquire(r)
                \/ InsertMany(r) \/ Upsert(r) \/ Delete(r) \/ FindOne(r)

-----------------------------------------------------------------------------
\* The documents of the requests, one by one.
Documents(ofRequest) == UNION {{r} \X (1 .. ofRequest[r]) : r \in Requests}

MongoTypeOK ==
    /\ matching \in Nat /\ free \in Nat
    /\ batch \in [Requests -> -1 .. MaxBatch]
    /\ added \in [Requests -> Nat] /\ removed \in [Requests -> Nat]

\* What is inserted was found to be documents.
MongoSteps ==
    \A r \in Requests :
        step[r] \in {"acquire", "mongo"} /\ asked[r].call = "insert" =>
            batch[r] \in 1 .. MaxBatch

-----------------------------------------------------------------------------
(* Properties.                                                             *)

\* Every connection is in the pool or with the one request that uses it: none
\* leaks on a path that throws.
ConnectionsReturn ==
    free + Cardinality({r \in Requests : step[r] = "mongo"}) = PoolSize

\* What the collection holds is what the requests have inserted less what they
\* have deleted, whatever was answered to them.
DocumentsAccountedFor ==
    matching + Cardinality(Documents(removed)) = Cardinality(Documents(added))
=============================================================================
