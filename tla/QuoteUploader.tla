--------------------------- MODULE QuoteUploader ----------------------------
(***************************************************************************)
(* The redis uploader: RedisSubscriber's three endless loops on a pool of  *)
(* three threads.  subscribe() puts every message of its channels in       *)
(* spsc_queue_parse_, parse() passes the fresh ones on to                  *)
(* spsc_queue_publish_, publish() collects them in a TS.MADD command and   *)
(* sends it to Redis when the batch is full.  Each queue has one producer  *)
(* and one consumer; a push into a full queue is lost without a word.      *)
(*                                                                         *)
(* A message is what its fields let the code do with it:                   *)
(*    good      s and p are strings, t a number                            *)
(*    junk      not JSON, no object, or no number t                        *)
(*    partial   t is there, s or p is not                                  *)
(*    unnamed   s is not a string                                          *)
(*    unpriced  s is a string, p is not                                    *)
(***************************************************************************)
EXTENDS Naturals, Sequences

CONSTANTS Symbols,        \* the values of s
          MaxTime,        \* bound: the values of t are 1 .. MaxTime
          Kinds,          \* the kinds of messages that arrive
          QueueCapacity,  \* capacity of both queues (1024 in the code)
          BatchSize,      \* REDIS_BATCH_SIZE (10 in the code)
          MaxMessages,    \* bound: messages that arrive
          RedisFails      \* whether a command may time out or be cut off

ASSUME KindsAssumption ==
    Kinds \subseteq {"good", "junk", "partial", "unnamed", "unpriced"}
ASSUME BoundsAssumption ==
    /\ QueueCapacity \in Nat \ {0} /\ BatchSize \in Nat
    /\ MaxTime \in Nat /\ MaxMessages \in Nat /\ RedisFails \in BOOLEAN

VARIABLES
    arrived,   \* messages received from Redis
    parsing,   \* spsc_queue_parse_
    last,      \* parse(): last_timestamp
    publish,   \* spsc_queue_publish_
    batch,     \* publish(): the datapoints in result
    broken,    \* publish(): result holds a datapoint without its price
    count,     \* publish(): count
    stored,    \* the datapoints Redis has
    passed,    \* history: datapoints parse() has taken as fresh
    taken,     \* history: good datapoints publish() has popped
    outages    \* history: commands without a reply since the last good one

vars == <<arrived, parsing, last, publish, batch, broken, count, stored, passed,
          taken, outages>>
publishVars == <<batch, broken, count, stored, taken, outages>>

Messages == [n : 1 .. MaxMessages, s : Symbols, t : 1 .. MaxTime, kind : Kinds]

Init == /\ arrived = 0
        /\ parsing = <<>>
        /\ last = 0
        /\ publish = <<>>
        /\ batch = <<>>
        /\ broken = FALSE
        /\ count = 0
        /\ stored = {}
        /\ passed = {}
        /\ taken = {}
        /\ outages = 0

\* spsc_queue::push, its result ignored.
Pushed(q, m) == IF Len(q) < QueueCapacity THEN Append(q, m) ELSE q

OnMessage ==
    /\ arrived < MaxMessages
    /\ arrived' = arrived + 1
    /\ \E m \in Messages : m.n = arrived' /\ parsing' = Pushed(parsing, m)
    /\ UNCHANGED <<last, publish, passed, publishVars>>

-----------------------------------------------------------------------------
(* parse(): one message at a time.                                         *)

\* Fault: the time of the last datapoint is not remembered.
FaultyParseFresh ==
    /\ parsing # <<>>
    /\ LET m == Head(parsing)
       IN  /\ m.kind # "junk" /\ m.t >= last
           /\ IF m.kind = "partial"
              THEN UNCHANGED <<publish, passed>>
              ELSE /\ publish' = Pushed(publish, m)
                   /\ passed' = passed \cup {m}
    /\ parsing' = Tail(parsing)
    /\ UNCHANGED <<arrived, last, publishVars>>

\* last_timestamp moves before the fields of the log line are looked up.
ParseFresh ==
    /\ parsing # <<>>
    /\ LET m == Head(parsing)
       IN  /\ m.kind # "junk" /\ m.t >= last
           /\ last' = m.t
           /\ IF m.kind = "partial"
              THEN UNCHANGED <<publish, passed>>
              ELSE /\ publish' = Pushed(publish, m)
                   /\ passed' = passed \cup {m}
    /\ parsing' = Tail(parsing)
    /\ UNCHANGED <<arrived, publishVars>>

\* Older than the last one, or not understood.
ParseSkip ==
    /\ parsing # <<>>
    /\ LET m == Head(parsing) IN m.kind = "junk" \/ m.t < last
    /\ parsing' = Tail(parsing)
    /\ UNCHANGED <<arrived, last, publish, passed, publishVars>>

-----------------------------------------------------------------------------
(* publish(): one datapoint at a time.                                     *)

\* value_to<std::string> throws: at s before anything is pushed to result, at
\* p after the symbol and the time are.
Untyped ==
    /\ publish # <<>>
    /\ publish' = Tail(publish)
    /\ \/ Head(publish).kind = "unnamed" /\ UNCHANGED broken
       \/ Head(publish).kind = "unpriced" /\ broken' = TRUE
    /\ UNCHANGED <<arrived, parsing, last, passed, batch, count, stored, taken,
                   outages>>

Good == /\ publish # <<>>
        /\ Head(publish).kind = "good"
        /\ publish' = Tail(publish)
        /\ taken' = taken \cup {Head(publish)}
        /\ UNCHANGED <<arrived, parsing, last, passed, broken>>

\* Fault: the batch is never full.
FaultyCollect ==
    /\ Good
    /\ batch' = Append(batch, Head(publish))
    /\ count' = count + 1
    /\ UNCHANGED <<stored, outages>>

Collect ==
    /\ Good /\ count < BatchSize
    /\ batch' = Append(batch, Head(publish))
    /\ count' = count + 1
    /\ UNCHANGED <<stored, outages>>

\* Fault: result is kept, as it is when the command throws.
FaultyUpload ==
    /\ Good /\ count >= BatchSize /\ ~ broken
    /\ stored' = stored \cup {batch[i] : i \in DOMAIN batch} \cup {Head(publish)}
    /\ batch' = Append(batch, Head(publish))
    /\ count' = 0
    /\ outages' = 0

\* The command is carried out and answered: resize(1), count = 0.
Upload ==
    /\ Good /\ count >= BatchSize /\ ~ broken
    /\ stored' = stored \cup {batch[i] : i \in DOMAIN batch} \cup {Head(publish)}
    /\ batch' = <<>>
    /\ count' = 0
    /\ outages' = 0

\* command() throws: Redis refuses a command whose fields do not match up, or
\* gives no answer in time, having carried it out or not.  result and count
\* stay as they are.
UploadThrows ==
    /\ Good /\ count >= BatchSize
    /\ batch' = Append(batch, Head(publish))
    /\ \/ broken /\ UNCHANGED <<stored, outages>>
       \/ /\ ~ broken /\ RedisFails
          /\ outages' = outages + 1
          /\ \/ UNCHANGED stored
             \/ stored' = stored \cup {batch'[i] : i \in DOMAIN batch'}
    /\ UNCHANGED count

Next == \/ OnMessage
        \/ ParseFresh \/ ParseSkip
        \/ Untyped \/ Collect \/ Upload \/ UploadThrows

Spec == Init /\ [][Next]_vars

-----------------------------------------------------------------------------
TypeOK ==
    /\ arrived \in 0 .. MaxMessages
    /\ parsing \in Seq(Messages) /\ Len(parsing) <= QueueCapacity
    /\ last \in 0 .. MaxTime
    /\ publish \in Seq(Messages) /\ Len(publish) <= QueueCapacity
    /\ batch \in Seq(Messages)
    /\ broken \in BOOLEAN
    /\ count \in 0 .. BatchSize
    /\ stored \subseteq Messages
    /\ passed \subseteq Messages
    /\ taken \subseteq Messages
    /\ outages \in Nat

\* What the publisher has collected, and what it will collect next.
Ahead == batch \o publish

Members(q) == {q[i] : i \in DOMAIN q}

\* The times of a queue do not go back.
Rising(q) == \A i, j \in DOMAIN q : i < j => q[i].t <= q[j].t

\* No datapoint of the first set is later than one of the second.
NotAfter(A, B) == \A m \in A : \A k \in B : m.t <= k.t

\* The batch goes before what publish() has still to pop, what Redis has before
\* both, and parse() has seen the time of all.
Ordered ==
    /\ Rising(batch) /\ Rising(publish)
    /\ NotAfter(Members(batch), Members(publish))
    /\ NotAfter(stored \ Members(batch), Members(batch) \cup Members(publish))
    /\ \A m \in stored \cup Members(batch) \cup Members(publish) : m.t <= last

-----------------------------------------------------------------------------
(* Properties.                                                             *)

\* A datapoint publish() has popped is in Redis or in the command it is
\* building: no failure of a command loses one.
UploadedOrKept == taken \subseteq stored \cup Members(batch)

\* Datapoints leave the uploader in the order of their times, through both
\* queues, the batch and every retry of it.
InTimeOrder ==
    /\ \A i, j \in DOMAIN Ahead : i < j => Ahead[i].t <= Ahead[j].t
    /\ \A m \in Members(Ahead) : m.t <= last
    /\ \A m \in stored \ Members(batch) : \A k \in Members(Ahead) : m.t <= k.t

\* The batch outgrows its size by the commands that Redis left without an
\* answer, one datapoint each, and by nothing else until a datapoint without
\* its price is in it ("Cannot push datapoint", redis_subscriber.cpp:91); from
\* then on no command is accepted any more.
BatchBounded == ~ broken => Len(batch) <= BatchSize + outages

\* The inductive invariant.
UploaderInv == /\ TypeOK /\ Ordered /\ UploadedOrKept
               /\ ~ broken => Len(batch) = count + outages
=============================================================================
