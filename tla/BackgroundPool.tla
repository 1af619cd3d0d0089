--------------------------- MODULE BackgroundPool ---------------------------
(***************************************************************************)
(* ioc_background_worker: the io_context whose threads generate the HTTP   *)
(* responses.  http_session posts a request to it; a thread routes it and  *)
(* posts the response back to the session's strand.  A fundamentals        *)
(* request that misses Redis and S3 spawns the coroutine httpGet_ on the   *)
(* same io_context and blocks its thread in future.get() until the         *)
(* coroutine sets the promise.  The coroutine runs on a thread of the      *)
(* pool between its asynchronous operations; when one of them fails it     *)
(* returns without touching the promise.                                   *)
(*                                                                         *)
(* The io_context hands its ready handlers out in FIFO order.              *)
(***************************************************************************)
EXTENDS Naturals, FiniteSets, Sequences

CONSTANTS
    Workers,       \* the threads of the pool (threads - 1 in the server)
    Requests,      \* the HTTP requests posted to it
    Fetches,       \* those that may have to fetch fundamentals
    AsyncOps,      \* operations httpGet_ awaits (6 in the code)
    UpstreamFails, \* whether the data provider may fail
    None           \* no request

ASSUME RequestsAssumption == Fetches \subseteq Requests /\ None \notin Requests
ASSUME AsyncOpsAssumption == AsyncOps \in Nat \ {0} /\ UpstreamFails \in BOOLEAN

VARIABLES
    queue,    \* ready handlers of the io_context, oldest first
    at,       \* worker -> the request whose handler it runs
    stage,    \* request -> how far its handler is
    co,       \* request -> its coroutine: none, ready, io, returned, failed
    left,     \* request -> operations its coroutine has still to start
    error,    \* request -> the operation its coroutine awaited failed
    promise   \* request -> the promise has its value

vars == <<queue, at, stage, co, left, error, promise>>
coVars == <<co, left, error, promise>>

Init == /\ queue = <<>>
        /\ at = [w \in Workers |-> None]
        /\ stage = [r \in Requests |-> "reading"]
        /\ co = [r \in Requests |-> "none"]
        /\ left = [r \in Requests |-> AsyncOps]
        /\ error = [r \in Requests |-> FALSE]
        /\ promise = [r \in Requests |-> FALSE]

\* http_session::handle_request on a thread of ioc.
Post(r) ==
    /\ stage[r] = "reading"
    /\ stage' = [stage EXCEPT ![r] = "posted"]
    /\ queue' = Append(queue, <<"route", r>>)
    /\ UNCHANGED <<at, coVars>>

Handlers == {"route", "resume"} \X Requests

\* A free thread takes the oldest ready handler.
Takes(w, kind, r) == /\ at[w] = None
                     /\ queue # <<>> /\ Head(queue) = <<kind, r>>
                     /\ queue' = Tail(queue)

Start(w, r) ==
    /\ Takes(w, "route", r)
    /\ at' = [at EXCEPT ![w] = r]
    /\ stage' = [stage EXCEPT ![r] = "routing"]
    /\ UNCHANGED coVars

\* The response, or the 500 of router::route, is posted to the session.
Answer(w, r) ==
    /\ stage' = [stage EXCEPT ![r] = "answered"]
    /\ at' = [at EXCEPT ![w] = None]
    /\ UNCHANGED <<queue, coVars>>

\* Every route but a fundamentals miss: synchronous calls, then the response.
Serve(w, r) ==
    /\ at[w] = r /\ stage[r] = "routing"
    /\ Answer(w, r)

\* Fault: every request fetches.
FaultyFetch(w, r) ==
    /\ at[w] = r /\ stage[r] = "routing"
    /\ stage' = [stage EXCEPT ![r] = "waiting"]
    /\ co' = [co EXCEPT ![r] = "io"]
    /\ left' = [left EXCEPT ![r] = @ - 1]
    /\ UNCHANGED <<queue, at, error, promise>>

\* httpGet: spawn runs the coroutine up to its first operation on this thread,
\* or queues it behind a segment of another coroutine that has the strand.
HttpGet(r) ==
    \/ /\ co' = [co EXCEPT ![r] = "io"]
       /\ left' = [left EXCEPT ![r] = @ - 1]
       /\ UNCHANGED queue
    \/ /\ \E other \in Requests \ {r} : co[other] = "ready"
       /\ co' = [co EXCEPT ![r] = "ready"]
       /\ queue' = Append(queue, <<"resume", r>>)
       /\ UNCHANGED left

\* FetchDataAndSaveToS3 up to future.get(), which blocks the thread.
Fetch(w, r) ==
    /\ at[w] = r /\ stage[r] = "routing" /\ r \in Fetches
    /\ stage' = [stage EXCEPT ![r] = "waiting"]
    /\ HttpGet(r)
    /\ UNCHANGED <<at, error, promise>>

\* The awaited operation ends, or times out; the error of the last one,
\* async_shutdown, is ignored.
IoEnds(r) ==
    /\ co[r] = "io"
    /\ co' = [co EXCEPT ![r] = "ready"]
    /\ queue' = Append(queue, <<"resume", r>>)
    /\ \/ UNCHANGED error
       \/ UpstreamFails /\ left[r] > 0 /\ error' = [error EXCEPT ![r] = TRUE]
    /\ UNCHANGED <<at, stage, left, promise>>

\* Fault: the error calls the callback as well.
FaultyResumeFails(w, r) ==
    /\ Takes(w, "resume", r) /\ error[r]
    /\ co' = [co EXCEPT ![r] = "failed"]
    /\ promise' = [promise EXCEPT ![r] = TRUE]
    /\ UNCHANGED <<at, stage, left, error>>

\* The next segment of httpGet_, on a thread of the pool.
ResumeFails(w, r) ==
    /\ Takes(w, "resume", r) /\ error[r]
    /\ co' = [co EXCEPT ![r] = "failed"]
    /\ UNCHANGED <<at, stage, left, error, promise>>

ResumeNextOp(w, r) ==
    /\ Takes(w, "resume", r) /\ ~ error[r] /\ left[r] > 0
    /\ co' = [co EXCEPT ![r] = "io"]
    /\ left' = [left EXCEPT ![r] = @ - 1]
    /\ UNCHANGED <<at, stage, error, promise>>

\* Fault: the callback that sets the promise is not called.
FaultyResumeReturns(w, r) ==
    /\ Takes(w, "resume", r) /\ ~ error[r] /\ left[r] = 0
    /\ co' = [co EXCEPT ![r] = "returned"]
    /\ UNCHANGED <<at, stage, left, error, promise>>

ResumeReturns(w, r) ==
    /\ Takes(w, "resume", r) /\ ~ error[r] /\ left[r] = 0
    /\ co' = [co EXCEPT ![r] = "returned"]
    /\ promise' = [promise EXCEPT ![r] = TRUE]
    /\ UNCHANGED <<at, stage, left, error>>

\* Fault: the thread gives up waiting and unwinds the promise's frame.
FaultyGetFuture(w, r) ==
    /\ at[w] = r /\ stage[r] = "waiting"
    /\ Answer(w, r)

\* future.get() returns: putObject, presign, cache, and the response.
GetFuture(w, r) ==
    /\ at[w] = r /\ stage[r] = "waiting" /\ promise[r]
    /\ Answer(w, r)

WorkerStep(w) ==
    \E r \in Requests :
        \/ Start(w, r) \/ Serve(w, r) \/ Fetch(w, r) \/ GetFuture(w, r)
        \/ ResumeFails(w, r) \/ ResumeNextOp(w, r) \/ ResumeReturns(w, r)

Next == \/ \E r \in Requests : Post(r) \/ IoEnds(r)
        \/ \E w \in Workers : WorkerStep(w)

Spec == Init /\ [][Next]_vars

\* Threads run what is ready, and every operation of httpGet_ has a timeout.
FairSpec == /\ Spec
            /\ \A w \in Workers : WF_vars(WorkerStep(w))
            /\ \A r \in Requests : WF_vars(IoEnds(r))

-----------------------------------------------------------------------------
TypeOK ==
    /\ queue \in Seq(Handlers)
    /\ at \in [Workers -> Requests \cup {None}]
    /\ stage \in [Requests -> {"reading", "posted", "routing", "waiting",
                               "answered"}]
    /\ co \in [Requests -> {"none", "ready", "io", "returned", "failed"}]
    /\ left \in [Requests -> 0 .. AsyncOps]
    /\ error \in [Requests -> BOOLEAN]
    /\ promise \in [Requests -> BOOLEAN]

Queued(q) == {q[i] : i \in DOMAIN q}
Once(q) == \A i, j \in DOMAIN q : q[i] = q[j] => i = j

\* No handler is queued twice, and a queued one is due.
HandlersDue ==
    /\ Once(queue)
    /\ \A r \in Requests :
          /\ <<"route", r>> \in Queued(queue) => stage[r] = "posted"
          /\ <<"resume", r>> \in Queued(queue) => co[r] = "ready"

\* A request's handler runs on one thread.
OneThreadEach ==
    /\ \A w, v \in Workers : at[w] # None /\ at[w] = at[v] => w = v
    /\ \A w \in Workers : at[w] # None => stage[at[w]] \in {"routing", "waiting"}

CoroutineStage ==
    \A r \in Requests :
        /\ stage[r] \in {"reading", "posted", "routing"} =>
              co[r] = "none" /\ left[r] = AsyncOps
        /\ stage[r] = "waiting" => r \in Fetches /\ co[r] # "none"
        /\ promise[r] <=> co[r] = "returned"

\* The coroutine sets a promise that lives on the stack of the thread waiting
\* for it: while the coroutine can still run, that thread still waits.
PromiseAlive ==
    \A r \in Requests : co[r] \in {"ready", "io"} => stage[r] = "waiting"

PoolInv == TypeOK /\ HandlersDue /\ OneThreadEach /\ CoroutineStage /\ PromiseAlive

-----------------------------------------------------------------------------
(* Properties.                                                             *)

\* With fewer fetches than threads the pool is never wholly blocked in
\* future.get(): a thread is left to run the coroutines.
SomeThreadFree ==
    \E w \in Workers : at[w] # None => stage[at[w]] # "waiting"

\* "Let the background worker generate the response" (http_session.cpp:274):
\* every request posted to the pool is answered.
AllAnswered ==
    \A r \in Requests : stage[r] = "posted" ~> stage[r] = "answered"

\* The coroutine that meets an error returns without a word: its request is
\* never answered, and the thread that waits for it is lost to the pool.
FailedNeverAnswered ==
    \A r \in Requests :
        co[r] = "failed" =>
            stage[r] = "waiting" /\ (\E w \in Workers : at[w] = r)

\* With a thread to spare, what remains unanswered is a request whose own fetch
\* failed: no other request has to wait for it.
AnsweredUnlessFailed ==
    \A r \in Requests :
        stage[r] = "posted" ~> stage[r] = "answered" \/ co[r] = "failed"
=============================================================================
