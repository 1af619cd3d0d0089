--------------------------- MODULE FeedSubscriber ---------------------------
(***************************************************************************)
(* The webserver's subscriber::subscribe(): one endless loop on a thread   *)
(* of its own.  While topics_subscribed_count is not zero it reads one     *)
(* reply from Redis, the acknowledgement of a command or a quote, which it *)
(* puts in spsc_queue_; then it carries out one command of the queue the   *)
(* symbol registry fills (SubscriptionBoard: SUBSCRIBE and UNSUBSCRIBE     *)
(* alternate for every topic, unless one was lost).                        *)
(*                                                                         *)
(* An error of Redis while reading is swallowed; redis++ then refuses      *)
(* every later use of the connection, and nothing opens another one.  An   *)
(* error while sending a command is not caught: it leaves run() and ends   *)
(* the process.                                                            *)
(***************************************************************************)
EXTENDS Integers, FiniteSets, Sequences

CONSTANTS
    Topics,         \* the topics of the webserver
    DataCapacity,   \* capacity of spsc_queue_ (1024 in the code)
    MaxCommands,    \* bound: commands of the sessions
    CommandsLost,   \* whether the registry may lose one
    RedisFails      \* whether Redis may refuse or close the connection

ASSUME FeedAssumption ==
    /\ DataCapacity \in Nat \ {0} /\ MaxCommands \in Nat
    /\ CommandsLost \in BOOLEAN /\ RedisFails \in BOOLEAN

VARIABLES
    serving,    \* the webserver has not died
    wanted,     \* topics some session has joined
    commands,   \* spsc_queue_subscriber_
    given,      \* commands the sessions have given
    missed,     \* one of them was lost
    at,         \* the loop's next step: start, consume or pop
    count,      \* topics_subscribed_count
    conn,       \* the subscriber's connection: none, ok, cut, or broken
                \*   (cut, and the subscriber has met the error)
    subs,       \* topics Redis sends this connection
    inbox,      \* replies of Redis on their way, oldest first
    data,       \* spsc_queue_
    handed      \* the quotes publish() has popped

feedVars == <<serving, wanted, commands, given, missed, at, count, conn, subs,
              inbox, data, handed>>

\* The acknowledgement of a command.
Ack(topic) == [n |-> 0, s |-> topic]
IsQuote(reply) == reply.n # 0

FeedInit ==
    /\ serving = TRUE
    /\ wanted = {}
    /\ commands = <<>>
    /\ given = 0
    /\ missed = FALSE
    /\ at = "start"
    /\ count = 0
    /\ conn = "none"
    /\ subs = {}
    /\ inbox = <<>>
    /\ data = <<>>
    /\ handed = <<>>

-----------------------------------------------------------------------------
(* The loop's surroundings: sessions, Redis and the publisher.             *)

\* The first session joins a topic, or the last one leaves it.
Command(topic) ==
    /\ given < MaxCommands
    /\ given' = given + 1
    /\ wanted' = IF topic \in wanted THEN wanted \ {topic}
                                     ELSE wanted \cup {topic}
    /\ \/ /\ commands' = Append(commands, [subscribe |-> topic \notin wanted,
                                           topic |-> topic])
          /\ UNCHANGED missed
       \/ CommandsLost /\ missed' = TRUE /\ UNCHANGED commands
    /\ UNCHANGED <<serving, at, count, conn, subs, inbox, data, handed>>

\* A quote is published on its channel.
Deliver(quote) ==
    /\ inbox' = IF quote.s \in subs THEN Append(inbox, quote) ELSE inbox
    /\ UNCHANGED <<serving, wanted, commands, given, missed, at, count, conn,
                   subs, data, handed>>

\* Redis goes away, or drops this client; what it has sent may still arrive.
Cut == /\ RedisFails /\ conn = "ok"
       /\ conn' = "cut"
       /\ subs' = {}
       /\ UNCHANGED <<serving, wanted, commands, given, missed, at, count,
                      inbox, data, handed>>

\* Fault: the quote is read with front(), which leaves it in the queue.
FaultyHandOver ==
    /\ data # <<>>
    /\ handed' = Append(handed, Head(data))
    /\ UNCHANGED <<serving, wanted, commands, given, missed, at, count, conn,
                   subs, inbox, data>>

\* get_message_with_backoff returns the oldest quote to publish().
HandOver ==
    /\ data # <<>>
    /\ handed' = Append(handed, Head(data))
    /\ data' = Tail(data)
    /\ UNCHANGED <<serving, wanted, commands, given, missed, at, count, conn,
                   subs, inbox>>

-----------------------------------------------------------------------------
(* The loop.                                                               *)

\* redis_ptr_->subscriber() connects, or throws out of run().
Start ==
    /\ at = "start"
    /\ \/ at' = "consume" /\ conn' = "ok" /\ UNCHANGED serving
       \/ RedisFails /\ serving' = FALSE /\ UNCHANGED <<at, conn>>
    /\ UNCHANGED <<wanted, commands, given, missed, count, subs, inbox, data,
                   handed>>

NoTopics ==
    /\ at = "consume" /\ count = 0
    /\ at' = "pop"
    /\ UNCHANGED <<serving, wanted, commands, given, missed, count, conn, subs,
                   inbox, data, handed>>

Consumes == /\ at = "consume" /\ count # 0
            /\ at' = "pop"
            /\ UNCHANGED <<serving, wanted, commands, given, missed, count,
                           subs, handed>>

\* push, its result ignored.
Pushed(reply) ==
    IF IsQuote(reply) /\ Len(data) < DataCapacity THEN Append(data, reply)
                                                  ELSE data

Consume ==
    /\ Consumes /\ conn \in {"ok", "cut"} /\ inbox # <<>>
    /\ data' = Pushed(Head(inbox))
    /\ inbox' = Tail(inbox)
    /\ UNCHANGED conn

\* A timeout leaves the connection as it is; any other error is for good.
ConsumeFails ==
    /\ Consumes
    /\ conn = "ok" => inbox = <<>>
    /\ conn' = IF conn = "cut" THEN "broken" ELSE conn
    /\ UNCHANGED <<inbox, data>>

PopNothing ==
    /\ at = "pop" /\ commands = <<>>
    /\ at' = "consume"
    /\ UNCHANGED <<serving, wanted, commands, given, missed, count, conn, subs,
                   inbox, data, handed>>

\* Fault: topics_subscribed_count is not moved by a SUBSCRIBE.
FaultyCounted(command) == IF command.subscribe THEN count ELSE count - 1

Counted(command) == IF command.subscribe THEN count + 1 ELSE count - 1

\* A connection that was cut may take a command and never answer it.
PopCommand ==
    /\ at = "pop" /\ commands # <<>> /\ conn \in {"ok", "cut"}
    /\ LET command == Head(commands)
       IN  /\ count' = Counted(command)
           /\ IF conn = "ok"
              THEN /\ subs' = IF command.subscribe THEN subs \cup {command.topic}
                                                   ELSE subs \ {command.topic}
                   /\ inbox' = Append(inbox, Ack(command.topic))
              ELSE UNCHANGED <<subs, inbox>>
    /\ commands' = Tail(commands)
    /\ at' = "consume"
    /\ UNCHANGED <<serving, wanted, given, missed, conn, data, handed>>

\* sub.subscribe or sub.unsubscribe throws.
CommandThrows ==
    /\ at = "pop" /\ commands # <<>> /\ conn \in {"cut", "broken"}
    /\ serving' = FALSE
    /\ commands' = Tail(commands)
    /\ UNCHANGED <<wanted, given, missed, at, count, conn, subs, inbox, data,
                   handed>>

Loop == \/ Start \/ NoTopics \/ Consume \/ ConsumeFails
        \/ PopNothing \/ PopCommand \/ CommandThrows

FeedNext == /\ serving
            /\ \/ Cut \/ HandOver \/ Loop
               \/ \E topic \in Topics : Command(topic)

-----------------------------------------------------------------------------
\* What is on its way through the subscriber, the oldest first.
InFeed == handed \o data \o inbox

\* Whether Redis sends a topic once the first n queued commands are carried
\* out.
SubscribedAfter(n, topic) ==
    LET about == {i \in 1 .. n : commands[i].topic = topic}
    IN  IF about = {} THEN topic \in subs
        ELSE \E i \in about : (\A j \in about : j <= i) /\ commands[i].subscribe

-----------------------------------------------------------------------------
(* Properties.                                                             *)

\* As long as no command was lost, the count is the number of topics Redis
\* sends, and the commands still queued lead from those topics to the ones
\* the sessions want.
CountsTopics ==
    ~ missed /\ conn = "ok" =>
        /\ count = Cardinality(subs)
        /\ \A topic \in Topics :
              topic \in wanted <=> SubscribedAfter(Len(commands), topic)
=============================================================================
