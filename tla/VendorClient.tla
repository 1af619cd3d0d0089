---------------------------- MODULE VendorClient ----------------------------
(***************************************************************************)
(* The websocket vendor client: one session whose handlers connect, send   *)
(* the greeting and then read quotes for ever, each on whichever thread of *)
(* the io_context takes it.  Its strand runs them one at a time.           *)
(*                                                                         *)
(* threadsInfo_ maps a thread to a buffer and a Redis connection.  A       *)
(* handler looks its own thread up: it starts a read into the buffer of    *)
(* its thread, and on_read, on another thread perhaps, publishes and       *)
(* clears the buffer of the thread it runs on itself.  The threads enter   *)
(* the map while others may be using it, with no lock.                     *)
(***************************************************************************)
EXTENDS Integers, FiniteSets, Sequences

CONSTANTS
    Threads,    \* the threads there may be
    Main,       \* the one that calls ws_vendor
    Channels,   \* the symbols quotes are for: the Redis channels
    NoSymbol,   \* a message without one
    MaxQuotes   \* bound: messages of the vendor

ASSUME ThreadsAssumption == Main \in Threads
ASSUME QuotesAssumption == MaxQuotes \in Nat /\ NoSymbol \notin Channels

VARIABLES
    alive,      \* the process has not died
    threads,    \* the threads ws_vendor was called for
    entry,      \* thread -> its entry of threadsInfo_: none, inserting, there
                \*   or lost (looked up, it is empty and has no Redis)
    raced,      \* threads whose insertion another access has overlapped
    stage,      \* the operation the session waits for
    target,     \* the thread whose buffer the read fills
    arrived,    \* the read has completed and on_read is ready
    buffer,     \* thread -> the messages its buffer holds, end to end
    quotes,     \* messages the vendor has sent
    published,  \* the quotes Redis has been given, in order
    signal,     \* SIGINT or SIGTERM: none, pending or handled
    returned    \* threads back from ioc.run(); Main: from ws_vendor

vendorVars == <<alive, threads, entry, raced, stage, target, arrived, buffer,
                quotes, published, signal, returned>>
sessionVars == <<stage, target, arrived, buffer, quotes, published>>

Quotes == [n : 1 .. MaxQuotes, s : Channels \cup {NoSymbol}]

\* The constructor has registered the calling thread; run() resolves.
VendorInit ==
    /\ alive = TRUE
    /\ threads \in {T \in SUBSET Threads : Main \in T}
    /\ entry = [t \in Threads |-> IF t = Main THEN "there" ELSE "none"]
    /\ raced = {}
    /\ stage = "resolve"
    /\ target = Main
    /\ arrived = FALSE
    /\ buffer = [t \in Threads |-> <<>>]
    /\ quotes = 0
    /\ published = <<>>
    /\ signal = "none"
    /\ returned = {}

-----------------------------------------------------------------------------
(* Threads and signals.                                                    *)

Inserting == {t \in Threads : entry[t] = "inserting"}

\* An access of the map while a thread is inserting into it is undefined: the
\* insertion may be lost, or the process.
Overlap(mine) ==
    IF Inserting = {}
    THEN UNCHANGED <<raced, alive>>
    ELSE /\ raced' = raced \cup Inserting \cup mine
         /\ alive' \in BOOLEAN

BeginRegister(t) ==
    /\ t \in threads /\ entry[t] = "none"
    /\ entry' = [entry EXCEPT ![t] = "inserting"]
    /\ Overlap({t})
    /\ UNCHANGED <<threads, sessionVars, signal, returned>>

EndRegister(t) ==
    /\ entry[t] = "inserting"
    /\ \E e \in {"there"} \cup (IF t \in raced THEN {"lost"} ELSE {}) :
          entry' = [entry EXCEPT ![t] = e]
    /\ UNCHANGED <<alive, threads, raced, sessionVars, signal, returned>>

\* Thread t is in ioc.run(), which calls no handler once stopped.
Runs(t) == /\ t \in threads \ returned
           /\ entry[t] \in {"there", "lost"}
           /\ signal # "handled"

Signal ==
    /\ signal = "none" /\ Main \notin returned
    /\ signal' = "pending"
    /\ UNCHANGED <<alive, threads, entry, raced, sessionVars, returned>>

\* Fault: the handler logs the signal and does not stop the io_context.
FaultySignalHandler(t) ==
    /\ Runs(t) /\ signal = "pending"
    /\ UNCHANGED vendorVars

\* ioc.stop()
SignalHandler(t) ==
    /\ Runs(t) /\ signal = "pending"
    /\ signal' = "handled"
    /\ UNCHANGED <<alive, threads, entry, raced, sessionVars, returned>>

\* The wait for a signal is work too.
HasWork == stage # "ended" \/ signal # "handled"

\* run() returns; the calling thread then joins the others.
Returns(t) ==
    /\ t \in threads \ returned
    /\ entry[t] \in {"there", "lost"}
    /\ signal = "handled" \/ ~ HasWork
    /\ t = Main => threads \ {Main} \subseteq returned
    /\ returned' = returned \cup {t}
    /\ UNCHANGED <<alive, threads, entry, raced, sessionVars, signal>>

-----------------------------------------------------------------------------
(* The session's handlers.                                                 *)

\* The operation ends, and its handler starts the next; on an error it only
\* logs, and the session has nothing outstanding any more.
Chain(t, from, to) ==
    /\ Runs(t) /\ stage = from
    /\ stage' \in {to, "ended"}
    /\ UNCHANGED <<threads, entry, arrived, buffer, quotes, published, signal,
                   returned>>

OnResolve(t) ==
    Chain(t, "resolve", "connect") /\ UNCHANGED <<target, raced, alive>>

\* It may also fail to set the host name for TLS.
OnConnect(t) ==
    Chain(t, "connect", "ssl_handshake") /\ UNCHANGED <<target, raced, alive>>

OnSslHandshake(t) ==
    Chain(t, "ssl_handshake", "handshake") /\ UNCHANGED <<target, raced, alive>>

OnHandshake(t) ==
    Chain(t, "handshake", "write") /\ UNCHANGED <<target, raced, alive>>

\* The greeting is out: read into the buffer of this thread.
OnWrite(t) ==
    /\ Chain(t, "write", "read")
    /\ target' = t
    /\ Overlap({})

\* The vendor's next message fills the buffer.
MessageArrives ==
    /\ stage = "read" /\ ~ arrived
    /\ quotes < MaxQuotes /\ signal # "handled"
    /\ quotes' = quotes + 1
    /\ \E q \in Quotes :
          q.n = quotes' /\ buffer' = [buffer EXCEPT ![target] = Append(@, q)]
    /\ arrived' = TRUE
    /\ UNCHANGED <<alive, threads, entry, raced, stage, target, published,
                   signal, returned>>

\* The connection is closed or fails: no second one is made.
OnReadError(t) ==
    /\ Runs(t) /\ stage = "read" /\ ~ arrived
    /\ stage' = "ended"
    /\ UNCHANGED <<alive, threads, entry, raced, target, arrived, buffer,
                   quotes, published, signal, returned>>

\* What the buffer of t holds is one JSON object with a symbol.
Publishable(t) == Len(buffer[t]) = 1 /\ Head(buffer[t]).s # NoSymbol

\* Fault: the buffer is not cleared.
FaultyCleared(t) == buffer

Cleared(t) == [buffer EXCEPT ![t] = <<>>]

\* What cannot be parsed, and what Redis fails to take, is only logged.
OnRead(t) ==
    /\ Runs(t) /\ arrived
    /\ \/ UNCHANGED published
       \/ Publishable(t) /\ published' = Append(published, Head(buffer[t]))
    /\ Publishable(t) => entry[t] = "there"
    /\ buffer' = Cleared(t)
    /\ target' = t
    /\ arrived' = FALSE
    /\ Overlap({})
    /\ UNCHANGED <<threads, entry, stage, quotes, signal, returned>>

\* Publishing through a Redis pointer that is null.
OnReadNoRedis(t) ==
    /\ Runs(t) /\ arrived
    /\ Publishable(t) /\ entry[t] = "lost"
    /\ alive' = FALSE
    /\ UNCHANGED <<threads, entry, raced, sessionVars, signal, returned>>

Handler(t) == \/ OnResolve(t) \/ OnConnect(t) \/ OnSslHandshake(t)
              \/ OnHandshake(t) \/ OnWrite(t) \/ OnReadError(t)
              \/ OnRead(t) \/ OnReadNoRedis(t)

VendorNext ==
    /\ alive
    /\ \/ Signal \/ MessageArrives
       \/ \E t \in Threads : \/ BeginRegister(t) \/ EndRegister(t)
                             \/ SignalHandler(t) \/ Handler(t) \/ Returns(t)

\* The threads come up, and take what is ready; which of them does is open.
VendorFairness ==
    /\ \A t \in Threads :
          WF_vendorVars(alive /\ (BeginRegister(t) \/ EndRegister(t)
                                  \/ Returns(t)))
    /\ WF_vendorVars(alive /\ \E t \in Threads : SignalHandler(t))
    /\ WF_vendorVars(alive /\ \E t \in Threads : OnRead(t) \/ OnReadNoRedis(t))

VendorSpec == VendorInit /\ [][VendorNext]_vendorVars /\ VendorFairness

-----------------------------------------------------------------------------
VendorTypeOK ==
    /\ alive \in BOOLEAN /\ arrived \in BOOLEAN
    /\ threads \in SUBSET Threads /\ Main \in threads
    /\ entry \in [Threads -> {"none", "inserting", "there", "lost"}]
    /\ raced \in SUBSET Threads /\ returned \in SUBSET threads
    /\ stage \in {"resolve", "connect", "ssl_handshake", "handshake", "write",
                  "read", "ended"}
    /\ target \in threads
    /\ buffer \in [Threads -> Seq(Quotes)]
    /\ quotes \in 0 .. MaxQuotes
    /\ published \in Seq(Quotes)
    /\ signal \in {"none", "pending", "handled"}

\* A message is in one buffer, and no buffer holds two.
Buffers ==
    /\ \A t \in Threads : Len(buffer[t]) <= 1
    /\ \A t \in Threads : buffer[t] # <<>> => buffer[t][1].n <= quotes
    /\ \A t, u \in Threads :
          buffer[t] # <<>> /\ buffer[u] # <<>> /\ t # u =>
             buffer[t][1].n # buffer[u][1].n
    /\ ~ arrived => buffer[target] = <<>>
    /\ stage \notin {"read", "ended"} =>
          ~ arrived /\ \A t \in Threads : buffer[t] = <<>>

\* What Redis has been given was given once and is in no buffer.
Given ==
    /\ \A i \in DOMAIN published : published[i].n <= quotes
    /\ \A i, j \in DOMAIN published : published[i].n = published[j].n => i = j
    /\ \A t \in Threads : buffer[t] # <<>> =>
          \A i \in DOMAIN published : published[i].n # buffer[t][1].n

-----------------------------------------------------------------------------
(* Properties.                                                             *)

\* However the handlers move between the threads, a quote is given to Redis
\* at most once, and what has been given is in no buffer any more.
PublishedOnce ==
    /\ \A i, j \in DOMAIN published : published[i] = published[j] => i = j
    /\ \A t \in Threads : \A k \in DOMAIN buffer[t] :
          \A i \in DOMAIN published : published[i] # buffer[t][k]

\* "Read single message" (ws_vendor.cpp:200, :236): a read finds its buffer
\* empty, though the handlers before it have cleared other ones.
SingleMessage ==
    /\ \A t \in Threads : Len(buffer[t]) <= 1
    /\ ~ arrived => buffer[target] = <<>>

\* On one thread quotes are published in the order of the vendor, and each at
\* once or never.
InOrderOnOneThread ==
    threads = {Main} =>
        /\ ~ arrived => buffer[Main] = <<>>
        /\ \A i \in DOMAIN published :
              /\ \A j \in DOMAIN published : i < j => published[i].n < published[j].n
              /\ \A k \in DOMAIN buffer[Main] : published[i].n < buffer[Main][k].n

\* "(If we get here, it means we got a SIGINT or SIGTERM)" (ws_vendor.cpp:315):
\* ws_vendor returns for no other reason, a lost connection included.
ReturnsOnSignal == Main \in returned => signal = "handled"

\* The inductive invariant.
VendorInv == VendorTypeOK /\ Buffers /\ Given /\ InOrderOnOneThread /\ ReturnsOnSignal

\* A signal ends the process, whatever the threads are doing.
SignalEnds == signal = "pending" ~> Main \in returned \/ ~ alive

\* "Clear the buffer" (ws_vendor.cpp:232): when on_read is done, no message it
\* was called for is left in a buffer, to be published late or never.
BuffersCleared == ~ arrived => \A t \in Threads : buffer[t] = <<>>
=============================================================================
