------------------------ MODULE BackgroundPoolProofs ------------------------
(***************************************************************************)
(* For any pool and any requests: a coroutine never outlives the promise   *)
(* it refers to; and a pool with more threads than fetches is never wholly *)
(* blocked.                                                                *)
(***************************************************************************)
EXTENDS BackgroundPool, FiniteSetTheorems, TLAPS

-----------------------------------------------------------------------------
(* The queue of handlers.                                                  *)

\* Appending a handler that is not queued, and taking the oldest.
LEMMA QueueAppend ==
    ASSUME NEW q \in Seq(Handlers), NEW h \in Handlers, Once(q), h \notin Queued(q)
    PROVE  /\ Append(q, h) \in Seq(Handlers) /\ Once(Append(q, h))
           /\ Queued(Append(q, h)) = Queued(q) \cup {h}
<1> DEFINE r == Append(q, h)
<1>1. /\ r \in Seq(Handlers) /\ DOMAIN q = 1 .. Len(q) /\ Len(q) \in Nat
      /\ DOMAIN r = 1 .. Len(q) + 1 /\ r[Len(q) + 1] = h
      /\ \A i \in 1 .. Len(q) : r[i] = q[i]
  OBVIOUS
<1> HIDE DEF r
<1>2. \A i \in DOMAIN r : (i \in DOMAIN q /\ r[i] = q[i]) \/ (i = Len(q) + 1 /\ r[i] = h)
  BY <1>1
<1>3. Once(r)
  BY <1>1, <1>2 DEF Once, Queued
<1>4. Queued(r) = Queued(q) \cup {h}
  <2>1. Queued(r) \subseteq Queued(q) \cup {h}
    BY <1>2 DEF Queued
  <2>2. Queued(q) \subseteq Queued(r) /\ h \in Queued(r)
    BY <1>1 DEF Queued
  <2>3. QED  BY <2>1, <2>2
<1>5. QED  BY <1>1, <1>3, <1>4 DEF r

LEMMA QueueTail ==
    ASSUME NEW q \in Seq(Handlers), q # <<>>, Once(q)
    PROVE  /\ Tail(q) \in Seq(Handlers) /\ Once(Tail(q))
           /\ Head(q) \in Handlers /\ Head(q) \in Queued(q)
           /\ Queued(Tail(q)) = Queued(q) \ {Head(q)}
<1> DEFINE r == Tail(q)
<1>1. /\ r \in Seq(Handlers) /\ DOMAIN q = 1 .. Len(q) /\ Len(q) \in Nat \ {0}
      /\ DOMAIN r = 1 .. Len(q) - 1 /\ Head(q) = q[1] /\ q[1] \in Handlers
      /\ \A i \in 1 .. Len(q) - 1 : r[i] = q[i + 1]
  OBVIOUS
<1> HIDE DEF r
<1>2. \A i \in DOMAIN r : i + 1 \in DOMAIN q /\ r[i] = q[i + 1] /\ i + 1 # 1
  BY <1>1
<1>3. Once(r)
  BY <1>1, <1>2 DEF Once
<1>4. 1 \in DOMAIN q /\ Head(q) \in Queued(q)
  BY <1>1 DEF Queued
<1>5. Queued(r) \subseteq Queued(q) \ {Head(q)}
  BY <1>1, <1>2, <1>4 DEF Queued, Once
<1>6. Queued(q) \ {Head(q)} \subseteq Queued(r)
  <2> SUFFICES ASSUME NEW i \in DOMAIN q, q[i] # Head(q) PROVE q[i] \in Queued(r)
    BY DEF Queued
  <2>1. i # 1  BY <1>1
  <2>2. i - 1 \in DOMAIN r /\ r[i - 1] = q[i]  BY <1>1, <2>1
  <2>3. QED  BY <2>2 DEF Queued
<1>7. QED  BY <1>1, <1>3, <1>4, <1>5, <1>6 DEF r

-----------------------------------------------------------------------------
(* The steps.                                                              *)

LEMMA InitInv == Init => PoolInv
<1> SUFFICES ASSUME Init PROVE PoolInv  OBVIOUS
<1>1. TypeOK
  <2>1. <<>> \in Seq(Handlers) /\ AsyncOps \in 0 .. AsyncOps
    BY AsyncOpsAssumption
  <2>2. QED  BY <2>1 DEF Init, TypeOK
<1>2. HandlersDue  BY DEF Init, HandlersDue, Once, Queued
<1>3. OneThreadEach /\ CoroutineStage /\ PromiseAlive
  BY DEF Init, OneThreadEach, CoroutineStage, PromiseAlive
<1>4. QED  BY <1>1, <1>2, <1>3 DEF PoolInv

\* What taking a handler leaves.
LEMMA TakesFacts ==
    ASSUME PoolInv, NEW w \in Workers, NEW kind \in {"route", "resume"},
           NEW r \in Requests, Takes(w, kind, r)
    PROVE  /\ queue' \in Seq(Handlers) /\ Once(queue') /\ at[w] = None
           /\ <<kind, r>> \in Queued(queue)
           /\ Queued(queue') = Queued(queue) \ {<<kind, r>>}
<1>1. queue \in Seq(Handlers) /\ Once(queue) /\ queue # <<>> /\ at[w] = None
      /\ Head(queue) = <<kind, r>> /\ queue' = Tail(queue)
  BY DEF PoolInv, TypeOK, HandlersDue, Takes
<1>2. QED  BY <1>1, QueueTail

LEMMA PostInv == ASSUME PoolInv, NEW r \in Requests, Post(r) PROVE PoolInv'
<1> USE DEF Post, coVars
<1>1. <<"route", r>> \in Handlers /\ <<"route", r>> \notin Queued(queue)
      /\ queue \in Seq(Handlers) /\ Once(queue)
  BY DEF PoolInv, TypeOK, HandlersDue, Handlers
<1>2. queue' \in Seq(Handlers) /\ Once(queue')
      /\ Queued(queue') = Queued(queue) \cup {<<"route", r>>}
  BY <1>1, QueueAppend
<1>3. TypeOK'  BY <1>2 DEF PoolInv, TypeOK
<1>4. HandlersDue'  BY <1>2 DEF PoolInv, TypeOK, HandlersDue
<1>5. OneThreadEach' /\ CoroutineStage' /\ PromiseAlive'
  BY DEF PoolInv, TypeOK, OneThreadEach, CoroutineStage, PromiseAlive
<1>6. QED  BY <1>3, <1>4, <1>5 DEF PoolInv

LEMMA StartInv ==
    ASSUME PoolInv, NEW w \in Workers, NEW r \in Requests, Start(w, r)
    PROVE  PoolInv'
<1> USE DEF Start, coVars
<1>1. /\ queue' \in Seq(Handlers) /\ Once(queue') /\ stage[r] = "posted"
      /\ Queued(queue') = Queued(queue) \ {<<"route", r>>}
  BY TakesFacts DEF PoolInv, HandlersDue
<1>2. TypeOK'  BY <1>1 DEF PoolInv, TypeOK
<1>3. HandlersDue'  BY <1>1 DEF PoolInv, TypeOK, HandlersDue
<1>4. OneThreadEach'
  BY <1>1, RequestsAssumption DEF PoolInv, TypeOK, OneThreadEach
<1>5. CoroutineStage' /\ PromiseAlive'
  BY <1>1 DEF PoolInv, TypeOK, CoroutineStage, PromiseAlive
<1>6. QED  BY <1>2, <1>3, <1>4, <1>5 DEF PoolInv

\* A response is only posted by a handler whose coroutine is done with the
\* promise, or was never spawned.
LEMMA AnswerInv ==
    ASSUME PoolInv, NEW w \in Workers, NEW r \in Requests,
           Serve(w, r) \/ GetFuture(w, r)
    PROVE  PoolInv'
<1> USE DEF Serve, GetFuture, Answer, coVars
<1>1. TypeOK'  BY DEF PoolInv, TypeOK
<1>2. HandlersDue'
  BY DEF PoolInv, TypeOK, HandlersDue
<1>3. OneThreadEach'
  <2>1. /\ at \in [Workers -> Requests \cup {None}] /\ r # None
        /\ at' = [at EXCEPT ![w] = None]
        /\ \A q \in Requests : q # r => stage'[q] = stage[q]
    BY RequestsAssumption DEF PoolInv, TypeOK
  <2>2. \A v \in Workers : v # w => at'[v] = at[v] /\ at[v] # r
    BY <2>1 DEF PoolInv, OneThreadEach
  <2>3. QED  BY <2>1, <2>2 DEF PoolInv, OneThreadEach
<1>4. CoroutineStage' /\ PromiseAlive'
  BY DEF PoolInv, TypeOK, CoroutineStage, PromiseAlive
<1>5. QED  BY <1>1, <1>2, <1>3, <1>4 DEF PoolInv

LEMMA FetchInv ==
    ASSUME PoolInv, NEW w \in Workers, NEW r \in Requests, Fetch(w, r)
    PROVE  PoolInv'
<1> USE DEF Fetch, HttpGet
<1>1. /\ co[r] = "none" /\ left[r] = AsyncOps /\ ~ promise[r]
      /\ <<"resume", r>> \in Handlers /\ <<"resume", r>> \notin Queued(queue)
      /\ queue \in Seq(Handlers) /\ Once(queue)
  BY DEF PoolInv, TypeOK, HandlersDue, CoroutineStage, Handlers
<1>2. /\ queue' \in Seq(Handlers) /\ Once(queue')
      /\ \/ Queued(queue') = Queued(queue) /\ co' = [co EXCEPT ![r] = "io"]
         \/ /\ Queued(queue') = Queued(queue) \cup {<<"resume", r>>}
            /\ co' = [co EXCEPT ![r] = "ready"]
  BY <1>1, QueueAppend
<1>3. TypeOK'
  <2>1. AsyncOps - 1 \in 0 .. AsyncOps  BY AsyncOpsAssumption
  <2>2. left' \in [Requests -> 0 .. AsyncOps]
    BY <1>1, <2>1 DEF PoolInv, TypeOK
  <2>3. QED  BY <1>2, <2>2 DEF PoolInv, TypeOK
<1>4. HandlersDue'
  BY <1>1, <1>2 DEF PoolInv, TypeOK, HandlersDue
<1>5. OneThreadEach'
  BY DEF PoolInv, TypeOK, OneThreadEach
<1>6. CoroutineStage' /\ PromiseAlive'
  BY <1>1 DEF PoolInv, TypeOK, CoroutineStage, PromiseAlive
<1>7. QED  BY <1>3, <1>4, <1>5, <1>6 DEF PoolInv

LEMMA IoEndsInv == ASSUME PoolInv, NEW r \in Requests, IoEnds(r) PROVE PoolInv'
<1> USE DEF IoEnds
<1>1. /\ <<"resume", r>> \in Handlers /\ <<"resume", r>> \notin Queued(queue)
      /\ queue \in Seq(Handlers) /\ Once(queue)
  BY DEF PoolInv, TypeOK, HandlersDue, Handlers
<1>2. queue' \in Seq(Handlers) /\ Once(queue')
      /\ Queued(queue') = Queued(queue) \cup {<<"resume", r>>}
  BY <1>1, QueueAppend
<1>3. TypeOK'  BY <1>2 DEF PoolInv, TypeOK
<1>4. HandlersDue'  BY <1>2 DEF PoolInv, TypeOK, HandlersDue
<1>5. OneThreadEach' /\ CoroutineStage' /\ PromiseAlive'
  BY DEF PoolInv, TypeOK, OneThreadEach, CoroutineStage, PromiseAlive
<1>6. QED  BY <1>3, <1>4, <1>5 DEF PoolInv

LEMMA ResumeInv ==
    ASSUME PoolInv, NEW w \in Workers, NEW r \in Requests,
           ResumeFails(w, r) \/ ResumeNextOp(w, r) \/ ResumeReturns(w, r)
    PROVE  PoolInv'
<1> USE DEF ResumeFails, ResumeNextOp, ResumeReturns
<1>1. /\ queue' \in Seq(Handlers) /\ Once(queue')
      /\ co[r] = "ready" /\ stage[r] = "waiting"
      /\ Queued(queue') = Queued(queue) \ {<<"resume", r>>}
  BY TakesFacts DEF PoolInv, HandlersDue, PromiseAlive
<1>2. TypeOK'
  <2>1. left[r] > 0 => left[r] - 1 \in 0 .. AsyncOps
    BY AsyncOpsAssumption DEF PoolInv, TypeOK
  <2>2. left' \in [Requests -> 0 .. AsyncOps]
    BY <2>1 DEF PoolInv, TypeOK
  <2>3. QED  BY <1>1, <2>2 DEF PoolInv, TypeOK
<1>3. HandlersDue'  BY <1>1 DEF PoolInv, TypeOK, HandlersDue
<1>4. OneThreadEach' /\ PromiseAlive'
  BY <1>1 DEF PoolInv, TypeOK, OneThreadEach, PromiseAlive
<1>5. CoroutineStage'
  <2>1. ASSUME NEW q \in Requests
        PROVE  /\ q # r => /\ co'[q] = co[q] /\ left'[q] = left[q]
                           /\ promise'[q] = promise[q]
               /\ q = r => /\ co'[q] # "none"
                           /\ promise'[q] <=> co'[q] = "returned"
    BY <1>1 DEF PoolInv, TypeOK, CoroutineStage
  <2>2. QED  BY <1>1, <2>1 DEF PoolInv, CoroutineStage
<1>6. QED  BY <1>2, <1>3, <1>4, <1>5 DEF PoolInv

-----------------------------------------------------------------------------
(* The theorems.                                                           *)

\* Handlers are run once, a request by one thread, and the parts agree.
THEOREM Invariance == Spec => []PoolInv
<1>1. PoolInv /\ UNCHANGED vars => PoolInv'
  BY DEF PoolInv, TypeOK, HandlersDue, OneThreadEach, CoroutineStage,
         PromiseAlive, vars
<1>2. PoolInv /\ Next => PoolInv'
  BY PostInv, StartInv, AnswerInv, FetchInv, IoEndsInv, ResumeInv
  DEF Next, WorkerStep
<1>3. QED  BY <1>1, <1>2, InitInv, PTL DEF Spec

\* While a coroutine can still run, the thread that owns its promise waits.
THEOREM PromisesAlive == Spec => []PromiseAlive
<1>1. PoolInv => PromiseAlive  BY DEF PoolInv
<1>2. QED  BY <1>1, Invariance, PTL

\* With fewer fetches than threads some thread can run the coroutines: each
\* blocked thread waits for a fetch of its own.
THEOREM NeverWhollyBlocked ==
    ASSUME IsFiniteSet(Fetches), Cardinality(Fetches) < Cardinality(Workers)
    PROVE  Spec => []SomeThreadFree
<1>1. PoolInv => SomeThreadFree
  <2> SUFFICES ASSUME PoolInv, ~ SomeThreadFree PROVE FALSE  OBVIOUS
  <2>1. /\ at \in [Workers -> Fetches]
        /\ \A w, v \in Workers : at[w] = at[v] => w = v
    BY DEF SomeThreadFree, PoolInv, TypeOK, CoroutineStage, OneThreadEach
  <2>2. at \in Injection(Workers, Fetches)
    BY <2>1 DEF Injection, IsInjective
  <2>3. Cardinality(Workers) <= Cardinality(Fetches)
    BY <2>2, FS_Injection
  <2>4. IsFiniteSet(Workers)  BY <2>2, FS_Injection
  <2>5. Cardinality(Workers) \in Nat /\ Cardinality(Fetches) \in Nat
    BY <2>4, FS_CardinalityType
  <2>6. QED  BY <2>3, <2>5
<1>2. QED  BY <1>1, Invariance, PTL

-----------------------------------------------------------------------------
(* A failed fetch keeps its thread.                                        *)

\* A handler that has begun is on a thread.
Held == \A r \in Requests :
           stage[r] \in {"routing", "waiting"} => \E w \in Workers : at[w] = r

\* What is not on a worker's step leaves the threads alone.
LEMMA HeldOutside ==
    ASSUME PoolInv, Held, FailedNeverAnswered, NEW r \in Requests,
           Post(r) \/ IoEnds(r)
    PROVE  Held' /\ FailedNeverAnswered'
  BY DEF Post, IoEnds, coVars, PoolInv, TypeOK, CoroutineStage, Held,
         FailedNeverAnswered

\* The handler of r comes to its thread, and blocks there.
LEMMA HeldBegins ==
    ASSUME PoolInv, Held, FailedNeverAnswered, NEW w \in Workers,
           NEW r \in Requests, Start(w, r) \/ Fetch(w, r)
    PROVE  Held' /\ FailedNeverAnswered'
<1>1. CASE Start(w, r)
  <2>1. at[w] = None /\ None \notin Requests
    BY <1>1, RequestsAssumption DEF Start, Takes
  <2>2. stage[r] = "posted"
    BY <1>1, TakesFacts DEF Start, PoolInv, HandlersDue
  <2>3. QED
    BY <1>1, <2>1, <2>2
    DEF Start, coVars, PoolInv, TypeOK, Held, FailedNeverAnswered
<1>2. CASE Fetch(w, r)
  BY <1>2 DEF Fetch, HttpGet, PoolInv, TypeOK, CoroutineStage, Held, FailedNeverAnswered
<1>3. QED  BY <1>1, <1>2

\* A thread that is free runs the coroutine of a request that waits.
LEMMA HeldResumes ==
    ASSUME PoolInv, Held, FailedNeverAnswered, NEW w \in Workers,
           NEW r \in Requests,
           ResumeFails(w, r) \/ ResumeNextOp(w, r) \/ ResumeReturns(w, r)
    PROVE  Held' /\ FailedNeverAnswered'
<1>1. stage[r] = "waiting"
  BY TakesFacts
  DEF ResumeFails, ResumeNextOp, ResumeReturns, PoolInv, HandlersDue,
      PromiseAlive
<1>2. QED
  BY <1>1
  DEF ResumeFails, ResumeNextOp, ResumeReturns, PoolInv, TypeOK, Held,
      FailedNeverAnswered

\* A request that is answered was routed, or its promise has its value: its
\* coroutine has not failed.
LEMMA HeldAnswers ==
    ASSUME PoolInv, Held, FailedNeverAnswered, NEW w \in Workers,
           NEW r \in Requests, Serve(w, r) \/ GetFuture(w, r)
    PROVE  Held' /\ FailedNeverAnswered'
<1>1. Answer(w, r) /\ at[w] = r /\ co[r] # "failed"
  BY DEF Serve, GetFuture, PoolInv, CoroutineStage
<1>2. Held'
  BY <1>1 DEF Answer, coVars, PoolInv, TypeOK, Held
<1>3. FailedNeverAnswered'
  BY <1>1 DEF Answer, coVars, PoolInv, TypeOK, FailedNeverAnswered
<1>4. QED  BY <1>2, <1>3

\* A fetch that failed leaves its request unanswered and its thread blocked.
THEOREM FailedForGood == Spec => []FailedNeverAnswered
<1>1. Init => Held /\ FailedNeverAnswered
  BY DEF Init, Held, FailedNeverAnswered
<1>2. PoolInv /\ Held /\ FailedNeverAnswered /\ Next
      => Held' /\ FailedNeverAnswered'
  BY HeldOutside, HeldBegins, HeldResumes, HeldAnswers DEF Next, WorkerStep
<1>3. Held /\ FailedNeverAnswered /\ UNCHANGED vars
      => Held' /\ FailedNeverAnswered'
  BY DEF vars, Held, FailedNeverAnswered
<1>4. QED  BY <1>1, <1>2, <1>3, Invariance, PTL DEF Spec
=============================================================================
