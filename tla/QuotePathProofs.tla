-------------------------- MODULE QuotePathProofs ---------------------------
(***************************************************************************)
(* The way of a quote from the vendor to the publisher, for any threads,   *)
(* channels, topics, capacity and numbers of quotes and commands.          *)
(*                                                                         *)
(* VendorInv is the invariant of the vendor client: what a buffer holds is *)
(* published at most once, although the thread that reads is not the one   *)
(* that clears.  CountInv is the one of the subscriber's count: it needs   *)
(* what every prefix of the queued commands leads to.  FlowInv is the one  *)
(* of the order: it needs that Redis is given a quote once, which is       *)
(* VendorInv, so it holds of the two processes together only.              *)
(***************************************************************************)
EXTENDS QuotePath, TLAPS, FiniteSetTheorems, SequenceTheorems

\* The client starts with empty buffers and nothing published.
LEMMA InitInv == VendorInit => VendorInv
<1> SUFFICES ASSUME VendorInit PROVE VendorInv  OBVIOUS
<1>1. VendorTypeOK
  <2>1. <<>> \in Seq(Quotes)  OBVIOUS
  <2>2. buffer \in [Threads -> Seq(Quotes)]  BY <2>1, Zenon DEF VendorInit
  <2>3. entry \in [Threads -> {"none", "inserting", "there", "lost"}]
    BY DEF VendorInit
  <2>4. published \in Seq(Quotes)  BY <2>1 DEF VendorInit
  <2>5. quotes \in 0 .. MaxQuotes  BY QuotesAssumption DEF VendorInit
  <2>6. QED
    BY <2>2, <2>3, <2>4, <2>5, ThreadsAssumption DEF VendorInit, VendorTypeOK
<1>2. Buffers
  BY ThreadsAssumption DEF VendorInit, Buffers
<1>3. Given /\ InOrderOnOneThread /\ ReturnsOnSignal
  BY DEF VendorInit, Given, InOrderOnOneThread, ReturnsOnSignal
<1>4. QED  BY <1>1, <1>2, <1>3 DEF VendorInv

\* Overlap keeps the process and the threads of the insertions in their types.
LEMMA OverlapType ==
    ASSUME VendorTypeOK, NEW mine \in SUBSET Threads, Overlap(mine)
    PROVE  alive' \in BOOLEAN /\ raced' \in SUBSET Threads
  BY DEF VendorTypeOK, Overlap, Inserting

-----------------------------------------------------------------------------
(* The vendor client: one lemma per group of actions.                      *)

\* Threads enter the map, a signal comes, run() returns: no quote moves.
LEMMA ThreadsInv ==
    ASSUME VendorInv, NEW t \in Threads,
           \/ BeginRegister(t) \/ EndRegister(t) \/ Signal \/ SignalHandler(t)
           \/ Returns(t)
    PROVE  VendorInv'
<1>1. CASE BeginRegister(t)
  <2>1. Overlap({t}) /\ VendorTypeOK  BY <1>1 DEF BeginRegister, VendorInv
  <2>2. alive' \in BOOLEAN /\ raced' \in SUBSET Threads  BY <2>1, OverlapType
  <2>3. QED
    BY <1>1, <2>2
    DEF BeginRegister, sessionVars, VendorInv, VendorTypeOK, Buffers, Given,
        InOrderOnOneThread, ReturnsOnSignal
<1>2. CASE EndRegister(t)
  BY <1>2
  DEF EndRegister, sessionVars, VendorInv, VendorTypeOK, Buffers, Given,
      InOrderOnOneThread, ReturnsOnSignal
<1>3. CASE Signal
  BY <1>3
  DEF Signal, sessionVars, VendorInv, VendorTypeOK, Buffers, Given,
      InOrderOnOneThread, ReturnsOnSignal
<1>4. CASE SignalHandler(t)
  BY <1>4
  DEF SignalHandler, Runs, sessionVars, VendorInv, VendorTypeOK, Buffers,
      Given, InOrderOnOneThread, ReturnsOnSignal
<1>5. CASE Returns(t)
  BY <1>5
  DEF Returns, HasWork, sessionVars, VendorInv, VendorTypeOK, Buffers, Given,
      InOrderOnOneThread, ReturnsOnSignal
<1>6. QED  BY <1>1, <1>2, <1>3, <1>4, <1>5

\* The handlers up to the greeting leave the buffers empty.
LEMMA ChainInv ==
    ASSUME VendorInv, NEW t \in Threads,
           OnResolve(t) \/ OnConnect(t) \/ OnSslHandshake(t) \/ OnHandshake(t)
    PROVE  VendorInv'
<1>1. PICK from \in {"resolve", "connect", "ssl_handshake", "handshake"},
           to \in {"connect", "ssl_handshake", "handshake", "write"} :
         Chain(t, from, to) /\ UNCHANGED <<target, raced, alive>>
  BY DEF OnResolve, OnConnect, OnSslHandshake, OnHandshake
<1>2. QED
  BY <1>1
  DEF Chain, VendorInv, VendorTypeOK, Buffers, Given, InOrderOnOneThread,
      ReturnsOnSignal

\* The first read is into an empty buffer of a thread that runs.
LEMMA OnWriteInv ==
    ASSUME VendorInv, NEW t \in Threads, OnWrite(t) PROVE VendorInv'
<1>1. /\ Chain(t, "write", "read") /\ target' = t /\ Overlap({})
      /\ VendorTypeOK /\ t \in threads
  BY DEF OnWrite, Chain, Runs, VendorInv
<1>2. alive' \in BOOLEAN /\ raced' \in SUBSET Threads  BY <1>1, OverlapType
<1>3. QED
  BY <1>1, <1>2
  DEF Chain, VendorInv, VendorTypeOK, Buffers, Given, InOrderOnOneThread,
      ReturnsOnSignal

\* A message is newer than all before it, and the buffer it fills was empty.
LEMMA MessageArrivesInv ==
    ASSUME VendorInv, MessageArrives PROVE VendorInv'
<1>1. PICK q \in Quotes :
         q.n = quotes' /\ buffer' = [buffer EXCEPT ![target] = Append(@, q)]
  BY DEF MessageArrives
<1>2. /\ quotes' = quotes + 1 /\ quotes < MaxQuotes
      /\ quotes \in Nat /\ quotes' \in 0 .. MaxQuotes
      /\ arrived' = TRUE /\ stage = "read"
      /\ UNCHANGED <<alive, threads, entry, raced, stage, target, published,
                     signal, returned>>
  BY QuotesAssumption DEF MessageArrives, VendorInv, VendorTypeOK
<1>3. /\ target \in Threads /\ buffer[target] = <<>>
      /\ buffer \in [Threads -> Seq(Quotes)]
  BY DEF MessageArrives, VendorInv, VendorTypeOK, Buffers
<1>4. buffer' = [buffer EXCEPT ![target] = <<q>>]
  BY <1>1, <1>3
<1>5. \A p \in Quotes : p.n \in Int
  BY QuotesAssumption DEF Quotes
<1>6. \A i \in DOMAIN published : published[i].n \in Int
  <2>1. \A i \in DOMAIN published : published[i] \in Quotes
    BY DEF VendorInv, VendorTypeOK
  <2>2. QED  BY <1>5, <2>1
<1>7. VendorTypeOK'
  BY <1>1, <1>2, <1>3, <1>4 DEF VendorInv, VendorTypeOK
<1>8. Buffers'
  <2>1. \A t \in Threads :
           buffer'[t] = IF t = target THEN <<q>> ELSE buffer[t]
    BY <1>3, <1>4
  <2>2. \A t \in Threads : t # target /\ buffer[t] # <<>> =>
           buffer[t][1].n <= quotes
    BY DEF VendorInv, Buffers
  <2>3. \A t \in Threads : buffer[t] # <<>> => buffer[t][1].n \in Int
    BY <1>3, <1>5
  <2>4. Len(<<q>>) = 1 /\ <<q>>[1] = q /\ <<q>> # <<>>
    OBVIOUS
  <2>5. ASSUME NEW t \in Threads, buffer'[t] # <<>>
        PROVE  buffer'[t][1].n <= quotes'
    <3>1. CASE t = target
      <4>1. buffer'[t][1] = q  BY <2>1, <2>4, <3>1
      <4>2. QED  BY <1>1, <1>2, <4>1
    <3>2. CASE t # target
      <4>1. buffer'[t] = buffer[t]  BY <2>1, <3>2
      <4>2. QED  BY <1>2, <2>2, <2>3, <2>5, <3>2, <4>1
    <3>3. QED  BY <3>1, <3>2
  <2>6. \A t, u \in Threads :
           buffer'[t] # <<>> /\ buffer'[u] # <<>> /\ t # u =>
              buffer'[t][1].n # buffer'[u][1].n
    <3>1. \A t, u \in Threads :
             buffer[t] # <<>> /\ buffer[u] # <<>> /\ t # u =>
                buffer[t][1].n # buffer[u][1].n
      BY DEF VendorInv, Buffers
    <3>2. \A t \in Threads :
             t # target /\ buffer[t] # <<>> => buffer[t][1].n < q.n
      BY <1>1, <1>2, <2>2, <2>3
    <3>3. QED  BY <1>1, <1>2, <2>1, <2>3, <2>4, <3>1, <3>2
  <2>7. ASSUME NEW t \in Threads PROVE Len(buffer'[t]) <= 1
    <3>1. CASE t = target
      <4>1. buffer'[t] = <<q>>  BY <2>1, <3>1
      <4>2. QED  BY <2>4, <4>1
    <3>2. CASE t # target
      <4>1. buffer'[t] = buffer[t]  BY <2>1, <3>2
      <4>2. QED  BY <4>1 DEF VendorInv, Buffers
    <3>3. QED  BY <3>1, <3>2
  <2>8. QED
    BY <1>2, <2>5, <2>6, <2>7 DEF Buffers
<1>9. Given'
  <2>1. \A t \in Threads :
           buffer'[t] = IF t = target THEN <<q>> ELSE buffer[t]
    BY <1>3, <1>4
  <2>2. QED
    BY <1>1, <1>2, <1>6, <2>1 DEF VendorInv, Given
<1>10. InOrderOnOneThread'
  <2>1. threads = {Main} => target = Main
    BY DEF VendorInv, VendorTypeOK
  <2>2. threads = {Main} => buffer'[Main] = <<q>>
    BY <1>3, <1>4, <2>1
  <2>3. \A i \in DOMAIN published : published[i].n < q.n
    BY <1>1, <1>2, <1>6 DEF VendorInv, Given
  <2>4. QED
    BY <1>2, <2>2, <2>3 DEF VendorInv, InOrderOnOneThread
<1>11. ReturnsOnSignal'
  BY <1>2 DEF VendorInv, ReturnsOnSignal
<1>12. QED  BY <1>7, <1>8, <1>9, <1>10, <1>11 DEF VendorInv

\* The session ends with its connection, or the process with its Redis.
LEMMA EndInv ==
    ASSUME VendorInv, NEW t \in Threads, OnReadError(t) \/ OnReadNoRedis(t)
    PROVE  VendorInv'
  BY DEF OnReadError, OnReadNoRedis, sessionVars, VendorInv, VendorTypeOK,
         Buffers, Given, InOrderOnOneThread, ReturnsOnSignal

\* The buffer of the thread that runs is published or not, and cleared; it is
\* what the next read fills.
LEMMA OnReadInv ==
    ASSUME VendorInv, NEW t \in Threads, OnRead(t) PROVE VendorInv'
<1>1. /\ t \in threads /\ arrived /\ target' = t /\ arrived' = FALSE
      /\ buffer' = [buffer EXCEPT ![t] = <<>>]
      /\ Overlap({}) /\ VendorTypeOK
      /\ UNCHANGED <<threads, entry, stage, quotes, signal, returned>>
  BY DEF OnRead, Runs, Cleared, VendorInv
<1>2. alive' \in BOOLEAN /\ raced' \in SUBSET Threads  BY <1>1, OverlapType
<1>3. \/ published' = published
      \/ /\ buffer[t] # <<>> /\ buffer[t][1] \in Quotes
         /\ published' = Append(published, buffer[t][1])
  BY <1>1 DEF OnRead, Publishable, VendorTypeOK
<1>4. published \in Seq(Quotes) /\ published' \in Seq(Quotes)
  <2>1. published \in Seq(Quotes)  BY <1>1 DEF VendorTypeOK
  <2>2. QED  BY <1>3, <2>1
<1>5. VendorTypeOK'
  <2>1. buffer' \in [Threads -> Seq(Quotes)]
    <3>1. <<>> \in Seq(Quotes) /\ buffer \in [Threads -> Seq(Quotes)]
      BY <1>1 DEF VendorTypeOK
    <3>2. QED  BY <1>1, <3>1
  <2>2. QED  BY <1>1, <1>2, <1>4, <2>1 DEF VendorTypeOK
<1>6. \A u \in Threads : buffer'[u] = IF u = t THEN <<>> ELSE buffer[u]
  BY <1>1 DEF VendorTypeOK
<1>7. Buffers'
  BY <1>1, <1>6 DEF VendorInv, Buffers
<1>8. \A i \in DOMAIN published' :
         \/ i \in DOMAIN published /\ published'[i] = published[i]
         \/ /\ i = Len(published) + 1 /\ buffer[t] # <<>>
            /\ i \notin DOMAIN published
            /\ published'[i] = buffer[t][1]
  BY <1>3, <1>4
<1>9. Given'
  BY <1>1, <1>6, <1>8 DEF VendorInv, Given, Buffers
<1>10. InOrderOnOneThread'
  <2> SUFFICES ASSUME threads = {Main} PROVE InOrderOnOneThread'
    BY <1>1 DEF InOrderOnOneThread
  <2>1. t = Main /\ Main \in Threads /\ buffer'[Main] = <<>>
    BY <1>1, <1>6, ThreadsAssumption
  <2>2. ASSUME NEW i \in DOMAIN published', NEW j \in DOMAIN published', i < j
        PROVE  published'[i].n < published'[j].n
    <3>1. i \in Int /\ j \in Int /\ Len(published) \in Nat
          /\ DOMAIN published = 1 .. Len(published)
      BY <1>4
    <3>2. i \in DOMAIN published /\ published'[i] = published[i]
      BY <1>8, <3>1, <2>2, <1>4
    <3>3. CASE j \in DOMAIN published
      <4>1. published'[j] = published[j]  BY <1>8, <3>3
      <4>2. QED
        BY <2>2, <3>2, <3>3, <4>1 DEF VendorInv, InOrderOnOneThread
    <3>4. CASE j \notin DOMAIN published
      <4>1. buffer[t] # <<>> /\ published'[j] = buffer[t][1]
        BY <1>8, <3>4
      <4>2. 1 \in DOMAIN buffer[Main]
        BY <2>1, <4>1 DEF VendorInv, VendorTypeOK
      <4>3. QED
        BY <2>1, <3>2, <4>1, <4>2 DEF VendorInv, InOrderOnOneThread
    <3>5. QED  BY <3>3, <3>4
  <2>3. QED  BY <2>1, <2>2 DEF InOrderOnOneThread
<1>11. ReturnsOnSignal'
  BY <1>1 DEF VendorInv, ReturnsOnSignal
<1>12. QED  BY <1>5, <1>7, <1>9, <1>10, <1>11 DEF VendorInv

-----------------------------------------------------------------------------
(* The theorems of the vendor client, alone.                               *)

\* Every step of the vendor client, or of something else, keeps VendorInv.
LEMMA VendorStepInv ==
    ASSUME VendorInv, [VendorNext]_vendorVars PROVE VendorInv'
<1>1. UNCHANGED vendorVars => VendorInv'
  BY DEF vendorVars, VendorInv, VendorTypeOK, Buffers, Given,
         InOrderOnOneThread, ReturnsOnSignal
<1>2. VendorNext => VendorInv'
  BY ThreadsAssumption, ThreadsInv, ChainInv, OnWriteInv, MessageArrivesInv,
     EndInv, OnReadInv
  DEF VendorNext, Handler
<1>3. QED  BY <1>1, <1>2

\* Buffers, what has been published and the end of the program fit together.
THEOREM Invariance == VendorSpec => []VendorInv
<1>1. VendorInv /\ [VendorNext]_vendorVars => VendorInv'  BY VendorStepInv
<1>2. QED  BY <1>1, InitInv, PTL DEF VendorSpec

\* VendorInv is stronger than what it is for.
LEMMA OnceInv == VendorInv => PublishedOnce
<1> SUFFICES ASSUME VendorInv PROVE PublishedOnce
  OBVIOUS
<1>1. \A i, j \in DOMAIN published : published[i] = published[j] => i = j
  BY DEF VendorInv, Given
<1>2. ASSUME NEW t \in Threads, NEW k \in DOMAIN buffer[t],
             NEW i \in DOMAIN published
      PROVE  published[i] # buffer[t][k]
  <2>1. k = 1 /\ buffer[t] # <<>>
    BY DEF VendorInv, VendorTypeOK, Buffers
  <2>2. QED  BY <2>1 DEF VendorInv, Given
<1>3. QED  BY <1>1, <1>2 DEF PublishedOnce

\* A quote is given to Redis once, on whatever threads its handlers run.
THEOREM NeverTwice == VendorSpec => []PublishedOnce
<1>1. QED  BY OnceInv, Invariance, PTL

\* A read always finds its buffer empty.
THEOREM ReadsOneMessage == VendorSpec => []SingleMessage
<1>1. VendorInv => SingleMessage
  BY DEF VendorInv, Buffers, SingleMessage
<1>2. QED  BY <1>1, Invariance, PTL

\* On one thread quotes keep the order of the vendor.
THEOREM InOrder == VendorSpec => []InOrderOnOneThread
<1>1. VendorInv => InOrderOnOneThread  BY DEF VendorInv
<1>2. QED  BY <1>1, Invariance, PTL

\* Only a signal makes ws_vendor return.
THEOREM OnlyOnSignal == VendorSpec => []ReturnsOnSignal
<1>1. VendorInv => ReturnsOnSignal  BY DEF VendorInv
<1>2. QED  BY <1>1, Invariance, PTL

-----------------------------------------------------------------------------
(* The subscriber's count: what a queue of commands leads to.              *)

\* What the registry puts in the subscriber's queue.
CommandType == [subscribe : BOOLEAN, topic : Topics]

\* The types of the subscriber's state, and when it has a connection.
FeedTypeOK ==
    /\ wanted \in SUBSET Topics /\ subs \in SUBSET Topics
    /\ IsFiniteSet(subs) /\ count \in Int
    /\ conn \in {"none", "ok", "cut", "broken"}
    /\ at = "start" <=> conn = "none"
    /\ commands \in Seq(CommandType)

\* SubscribedAfter for any queue and any set of subscriptions.
After(q, S, n, t) ==
    LET about == {i \in 1 .. n : q[i].topic = t}
    IN  IF about = {} THEN t \in S
        ELSE \E i \in about : (\A j \in about : j <= i) /\ q[i].subscribe

\* Every queued command changes what the commands before it lead to.
Alternates ==
    \A i \in 1 .. Len(commands) :
        commands[i].subscribe
           <=> ~ After(commands, subs, i - 1, commands[i].topic)

\* The queued commands, carried out, leave the topics the sessions want.
LeadsToWanted ==
    \A topic \in Topics :
        topic \in wanted <=> After(commands, subs, Len(commands), topic)

\* The inductive invariant of the count; before the subscriber connects, too.
CountInv ==
    ~ missed /\ conn \in {"none", "ok"} =>
        count = Cardinality(subs) /\ Alternates /\ LeadsToWanted

\* A command at the end of the queue has the last word on its topic.
LEMMA AfterLast ==
    ASSUME NEW q \in Seq(CommandType), NEW S, NEW n \in 1 .. Len(q), NEW t
    PROVE  After(q, S, n, t) <=> IF q[n].topic = t THEN q[n].subscribe
                                 ELSE After(q, S, n - 1, t)
<1> DEFINE A == {i \in 1 .. n : q[i].topic = t}
           B == {i \in 1 .. (n - 1) : q[i].topic = t}
<1>1. n \in Nat /\ n >= 1  OBVIOUS
<1>2. CASE q[n].topic = t
  <2>1. n \in A /\ \A j \in A : j <= n
    BY <1>1, <1>2
  <2>2. \A i \in A : (\A j \in A : j <= i) => i = n
    BY <1>1, <2>1
  <2>3. After(q, S, n, t) <=> IF A = {} THEN t \in S
                              ELSE \E i \in A : /\ \A j \in A : j <= i
                                                /\ q[i].subscribe
    BY DEF After
  <2> HIDE DEF A
  <2>4. QED  BY <1>2, <2>1, <2>2, <2>3
<1>3. CASE q[n].topic # t
  <2>1. A = B
    BY <1>1, <1>3
  <2>2. QED  BY <1>3, <2>1, Zenon DEF After
<1>4. QED  BY <1>2, <1>3

\* The sequence after n commands depends on these only.
LEMMA AfterPrefix ==
    ASSUME NEW q, NEW p, NEW S, NEW n \in Nat, NEW t,
           \A i \in 1 .. n : p[i] = q[i]
    PROVE  After(p, S, n, t) <=> After(q, S, n, t)
<1>1. {i \in 1 .. n : p[i].topic = t} = {i \in 1 .. n : q[i].topic = t}
  OBVIOUS
<1>2. \A i \in {k \in 1 .. n : q[k].topic = t} : p[i] = q[i]
  OBVIOUS
<1>3. QED  BY <1>1, <1>2 DEF After

\* Carrying out the oldest command is what being subscribed after it means.
LEMMA AfterTail ==
    ASSUME NEW q \in Seq(CommandType), q # <<>>, NEW S,
           NEW n \in 0 .. (Len(q) - 1), NEW t,
           NEW T, T = IF Head(q).subscribe THEN S \cup {Head(q).topic}
                                           ELSE S \ {Head(q).topic}
    PROVE  After(Tail(q), T, n, t) <=> After(q, S, n + 1, t)
<1> DEFINE A == {i \in 1 .. (n + 1) : q[i].topic = t}
           B == {i \in 1 .. n : Tail(q)[i].topic = t}
<1>1. /\ Len(q) \in Nat /\ n \in Nat /\ 1 \in 1 .. (n + 1)
      /\ \A i \in 1 .. n : Tail(q)[i] = q[i + 1]
      /\ q[1] = Head(q)
  OBVIOUS
<1>2. After(q, S, n + 1, t) <=> IF A = {} THEN t \in S
                          ELSE \E i \in A : /\ \A j \in A : j <= i
                                            /\ q[i].subscribe
  BY DEF After
<1>3. After(Tail(q), T, n, t) <=> IF B = {} THEN t \in T
                          ELSE \E i \in B : /\ \A j \in B : j <= i
                                            /\ Tail(q)[i].subscribe
  BY DEF After
<1>4. \A i \in 1 .. n : i \in B <=> i + 1 \in A
  BY <1>1
<1>5. CASE B = {}
  <2>1. A \subseteq {1}
    <3> SUFFICES ASSUME NEW i \in A, i # 1 PROVE FALSE
      OBVIOUS
    <3>1. i - 1 \in 1 .. n /\ i = (i - 1) + 1  BY <1>1
    <3>2. QED  BY <1>4, <1>5, <3>1
  <2>2. CASE q[1].topic = t
    <3>1. A = {1}  BY <1>1, <2>1, <2>2
    <3>2. After(q, S, n + 1, t) <=> q[1].subscribe
      BY <1>1, <1>2, <3>1
    <3>3. After(Tail(q), T, n, t) <=> t \in T
      BY <1>3, <1>5
    <3>4. QED  BY <1>1, <2>2, <3>2, <3>3
  <2>3. CASE q[1].topic # t
    <3>1. A = {}  BY <2>1, <2>3
    <3>2. QED  BY <1>1, <1>2, <1>3, <1>5, <2>3, <3>1
  <2>4. QED  BY <2>2, <2>3
<1>6. CASE B # {}
  <2>0. /\ A # {} /\ A \subseteq 1 .. (n + 1) /\ B \subseteq 1 .. n
    BY <1>1, <1>4, <1>6
  <2> HIDE DEF A, B
  <2>1. ASSUME NEW i \in B, \A j \in B : j <= i, Tail(q)[i].subscribe
        PROVE  \E k \in A : (\A j \in A : j <= k) /\ q[k].subscribe
    <3>1. i + 1 \in A /\ q[i + 1].subscribe
      <4>1. i \in 1 .. n  BY <2>0
      <4>2. i + 1 \in A  BY <1>4, <4>1
      <4>3. Tail(q)[i] = q[i + 1]  BY <1>1, <4>1
      <4>4. QED  BY <2>1, <4>2, <4>3
    <3>2. ASSUME NEW j \in A PROVE j <= i + 1
      <4>1. CASE j = 1  BY <1>1, <4>1, <2>0
      <4>2. CASE j # 1
        <5>1. j - 1 \in 1 .. n /\ j = (j - 1) + 1  BY <1>1, <2>0, <4>2
        <5>2. j - 1 \in B  BY <1>4, <5>1
        <5>3. QED  BY <2>0, <2>1, <5>1, <5>2
      <4>3. QED  BY <4>1, <4>2
    <3>3. QED  BY <3>1, <3>2
  <2>2. ASSUME NEW k \in A, \A j \in A : j <= k, q[k].subscribe
        PROVE  \E i \in B : (\A j \in B : j <= i) /\ Tail(q)[i].subscribe
    <3>1. PICK b \in B : TRUE  BY <1>6
    <3>2. b + 1 \in A /\ b + 1 <= k  BY <1>4, <2>0, <2>2, <3>1
    <3>3. k - 1 \in 1 .. n /\ k = (k - 1) + 1  BY <1>1, <2>0, <3>1, <3>2
    <3>4. k - 1 \in B /\ Tail(q)[k - 1].subscribe
      <4>1. k - 1 \in B  BY <1>4, <3>3
      <4>2. Tail(q)[k - 1] = q[k]  BY <1>1, <3>3
      <4>3. QED  BY <2>2, <4>1, <4>2
    <3>5. ASSUME NEW j \in B PROVE j <= k - 1
      <4>1. j + 1 \in A  BY <1>4, <2>0
      <4>2. QED  BY <2>0, <2>2, <4>1
    <3>6. QED  BY <3>4, <3>5
  <2>3. QED  BY <1>2, <1>3, <1>6, <2>0, <2>1, <2>2
<1>7. QED  BY <1>5, <1>6

-----------------------------------------------------------------------------
(* The subscriber's count: one lemma per group of actions.                 *)

\* Steps that move no command and no subscription.
LEMMA SameCount ==
    ASSUME FeedTypeOK, CountInv,
           UNCHANGED <<wanted, commands, missed, count, subs>>,
           conn' \in {"ok", "cut", "broken"} \/ conn' = conn,
           conn' = "ok" => conn \in {"none", "ok"},
           \/ at' \in {"consume", "pop"} /\ conn' # "none"
           \/ UNCHANGED <<at, conn>>
    PROVE  FeedTypeOK' /\ CountInv'
<1>1. FeedTypeOK'
  BY DEF FeedTypeOK
<1>2. CountInv'
  BY DEF CountInv, Alternates, LeadsToWanted
<1>3. QED  BY <1>1, <1>2

\* A session's command is for the topic as the commands before it leave it.
LEMMA CommandCount ==
    ASSUME FeedTypeOK, CountInv, NEW topic \in Topics, Command(topic)
    PROVE  FeedTypeOK' /\ CountInv'
<1> DEFINE c == [subscribe |-> topic \notin wanted, topic |-> topic]
<1>1. /\ UNCHANGED <<at, count, conn, subs>>
      /\ wanted' = IF topic \in wanted THEN wanted \ {topic}
                                       ELSE wanted \cup {topic}
      /\ \/ commands' = Append(commands, c) /\ UNCHANGED missed
         \/ missed' = TRUE /\ UNCHANGED commands
  BY DEF Command
<1>2. /\ c \in CommandType /\ c.topic = topic
      /\ c.subscribe <=> topic \notin wanted
  BY DEF CommandType
<1> HIDE DEF c
<1>3. FeedTypeOK'
  BY <1>1, <1>2 DEF FeedTypeOK
<1>4. CountInv'
  <2> SUFFICES ASSUME ~ missed', conn \in {"none", "ok"}
               PROVE  /\ count' = Cardinality(subs')
                      /\ Alternates' /\ LeadsToWanted'
    BY <1>1 DEF CountInv
  <2>1. /\ commands' = Append(commands, c) /\ ~ missed
        /\ commands \in Seq(CommandType) /\ commands' \in Seq(CommandType)
    BY <1>1, <1>3 DEF FeedTypeOK
  <2>2. /\ Len(commands') = Len(commands) + 1 /\ Len(commands) \in Nat
        /\ \A i \in 1 .. Len(commands) : commands'[i] = commands[i]
        /\ commands'[Len(commands')] = c
    BY <1>2, <2>1
  <2>3. count = Cardinality(subs) /\ Alternates /\ LeadsToWanted
    BY <2>1 DEF CountInv
  <2>4. \A n \in 0 .. Len(commands) : \A t :
           After(commands', subs, n, t) <=> After(commands, subs, n, t)
    <3> SUFFICES ASSUME NEW n \in 0 .. Len(commands), NEW t
                 PROVE  After(commands', subs, n, t)
                           <=> After(commands, subs, n, t)
      OBVIOUS
    <3>1. n \in Nat /\ \A i \in 1 .. n : commands'[i] = commands[i]
      BY <2>2
    <3>2. QED  BY <3>1, AfterPrefix
  <2>5. Alternates'
    <3> SUFFICES ASSUME NEW i \in 1 .. Len(commands')
                 PROVE  commands'[i].subscribe
                           <=> ~ After(commands', subs, i - 1,
                                       commands'[i].topic)
      BY <1>1 DEF Alternates
    <3>1. CASE i \in 1 .. Len(commands)
      <4>1. commands'[i] = commands[i] /\ i - 1 \in 0 .. Len(commands)
        BY <2>2, <3>1
      <4>2. commands[i].subscribe
               <=> ~ After(commands, subs, i - 1, commands[i].topic)
        BY <2>3, <3>1 DEF Alternates
      <4>3. QED  BY <2>4, <4>1, <4>2
    <3>2. CASE i = Len(commands')
      <4>1. /\ i - 1 = Len(commands) /\ i - 1 \in 0 .. Len(commands)
            /\ commands'[i] = c
        BY <2>2, <3>2
      <4>2. After(commands, subs, i - 1, topic) <=> topic \in wanted
        BY <2>3, <4>1 DEF LeadsToWanted
      <4>3. QED  BY <1>2, <2>4, <4>1, <4>2
    <3>3. QED  BY <2>2, <3>1, <3>2
  <2>6. LeadsToWanted'
    <3> SUFFICES ASSUME NEW t \in Topics
                 PROVE  t \in wanted'
                           <=> After(commands', subs, Len(commands'), t)
      BY <1>1 DEF LeadsToWanted
    <3> DEFINE n == Len(commands')
    <3>1. n \in 1 .. Len(commands') /\ n - 1 = Len(commands)
          /\ n - 1 \in 0 .. Len(commands) /\ commands'[n] = c
      BY <2>2
    <3> HIDE DEF n
    <3>2. After(commands', subs, n, t)
             <=> IF c.topic = t THEN c.subscribe
                 ELSE After(commands', subs, n - 1, t)
      <4>1. After(commands', subs, n, t)
               <=> IF commands'[n].topic = t THEN commands'[n].subscribe
                   ELSE After(commands', subs, n - 1, t)
        BY <2>1, <3>1, AfterLast
      <4>2. QED  BY <3>1, <4>1
    <3>3. After(commands', subs, n - 1, t) <=> t \in wanted
      BY <2>3, <2>4, <3>1 DEF LeadsToWanted
    <3>4. t \in wanted' <=> IF topic = t THEN topic \notin wanted
                                         ELSE t \in wanted
      BY <1>1
    <3>5. QED  BY <1>2, <3>2, <3>3, <3>4 DEF n
  <2>7. QED  BY <1>1, <2>3, <2>5, <2>6
<1>5. QED  BY <1>3, <1>4

\* The loop carries out the oldest command, and the count follows.
LEMMA PopCommandCount ==
    ASSUME FeedTypeOK, CountInv, PopCommand
    PROVE  FeedTypeOK' /\ CountInv'
<1> DEFINE c == Head(commands)
<1>1. /\ commands # <<>> /\ conn \in {"ok", "cut"}
      /\ commands' = Tail(commands)
      /\ at' = "consume" /\ UNCHANGED <<wanted, missed, conn>>
      /\ count' = Counted(c)
      /\ conn = "ok" => subs' = IF c.subscribe THEN subs \cup {c.topic}
                                               ELSE subs \ {c.topic}
      /\ conn # "ok" => subs' = subs
  BY DEF PopCommand
<1>2. /\ commands \in Seq(CommandType) /\ commands' \in Seq(CommandType)
      /\ c \in CommandType /\ c = commands[1]
      /\ Len(commands) \in Nat /\ Len(commands) >= 1
      /\ Len(commands') = Len(commands) - 1
      /\ \A i \in 1 .. Len(commands') : commands'[i] = commands[i + 1]
  BY <1>1 DEF FeedTypeOK
<1>3. c.topic \in Topics  BY <1>2 DEF CommandType
<1> HIDE DEF c
<1>4. FeedTypeOK'
  <2>1. count' \in Int  BY <1>1 DEF FeedTypeOK, Counted
  <2>2. subs' \in SUBSET Topics  BY <1>1, <1>3 DEF FeedTypeOK
  <2>3. IsFiniteSet(subs')
    BY <1>1, FS_AddElement, FS_RemoveElement DEF FeedTypeOK
  <2>4. QED  BY <1>1, <1>2, <2>1, <2>2, <2>3 DEF FeedTypeOK
<1>5. CountInv'
  <2> SUFFICES ASSUME ~ missed, conn = "ok"
               PROVE  /\ count' = Cardinality(subs')
                      /\ Alternates' /\ LeadsToWanted'
    BY <1>1 DEF CountInv
  <2>1. count = Cardinality(subs) /\ Alternates /\ LeadsToWanted
    BY DEF CountInv
  <2>2. c.subscribe <=> c.topic \notin subs
    <3>1. 1 \in 1 .. Len(commands)  BY <1>2
    <3>2. c.subscribe <=> ~ After(commands, subs, 1 - 1, c.topic)
      BY <1>2, <2>1, <3>1 DEF Alternates
    <3>3. 1 .. (1 - 1) = {}  OBVIOUS
    <3>4. After(commands, subs, 1 - 1, c.topic) <=> c.topic \in subs
      BY <3>3, Zenon DEF After
    <3>5. QED  BY <3>2, <3>4
  <2>3. count' = Cardinality(subs')
    <3>1. CASE c.subscribe
      BY <1>1, <2>1, <2>2, <3>1, FS_AddElement, FS_CardinalityType
      DEF FeedTypeOK, Counted
    <3>2. CASE ~ c.subscribe
      BY <1>1, <2>1, <2>2, <3>2, FS_RemoveElement, FS_CardinalityType
      DEF FeedTypeOK, Counted
    <3>3. QED  BY <3>1, <3>2
  <2>4. \A n \in 0 .. Len(commands') : \A t :
           After(commands', subs', n, t) <=> After(commands, subs, n + 1, t)
    <3> SUFFICES ASSUME NEW n \in 0 .. Len(commands'), NEW t
                 PROVE  After(commands', subs', n, t)
                           <=> After(commands, subs, n + 1, t)
      OBVIOUS
    <3>1. n \in 0 .. (Len(commands) - 1)  BY <1>2
    <3>2. subs' = IF Head(commands).subscribe
                  THEN subs \cup {Head(commands).topic}
                  ELSE subs \ {Head(commands).topic}
      BY <1>1 DEF c
    <3>3. QED  BY <1>1, <1>2, <3>1, <3>2, AfterTail
  <2>5. Alternates'
    <3> SUFFICES ASSUME NEW i \in 1 .. Len(commands')
                 PROVE  commands'[i].subscribe
                           <=> ~ After(commands', subs', i - 1,
                                       commands'[i].topic)
      BY DEF Alternates
    <3>1. /\ i + 1 \in 1 .. Len(commands) /\ (i + 1) - 1 = i
          /\ i - 1 \in 0 .. Len(commands') /\ (i - 1) + 1 = i
          /\ commands'[i] = commands[i + 1]
      BY <1>2
    <3>2. commands[i + 1].subscribe
             <=> ~ After(commands, subs, i, commands[i + 1].topic)
      BY <2>1, <3>1 DEF Alternates
    <3>3. QED  BY <2>4, <3>1, <3>2
  <2>6. LeadsToWanted'
    <3> SUFFICES ASSUME NEW t \in Topics
                 PROVE  t \in wanted
                           <=> After(commands', subs', Len(commands'), t)
      BY <1>1 DEF LeadsToWanted
    <3>1. /\ Len(commands') \in 0 .. Len(commands')
          /\ Len(commands') + 1 = Len(commands)
      BY <1>2
    <3>2. After(commands', subs', Len(commands'), t)
             <=> After(commands, subs, Len(commands), t)
      BY <2>4, <3>1
    <3>3. QED  BY <2>1, <3>2 DEF LeadsToWanted
  <2>7. QED  BY <2>3, <2>5, <2>6
<1>6. QED  BY <1>4, <1>5

\* The count holds through every step of the feed.
LEMMA FeedStepCount ==
    ASSUME FeedTypeOK, CountInv, FeedNext
    PROVE  FeedTypeOK' /\ CountInv'
<1>1. ASSUME NEW topic \in Topics, Command(topic)
      PROVE  FeedTypeOK' /\ CountInv'
  BY <1>1, CommandCount
<1>2. CASE PopCommand  BY <1>2, PopCommandCount
<1>3. CASE Cut
  <2>1. CountInv'  BY <1>3 DEF Cut, CountInv
  <2>2. FeedTypeOK'  BY <1>3, FS_EmptySet DEF Cut, FeedTypeOK
  <2>3. QED  BY <2>1, <2>2
<1>4. CASE CommandThrows
  <2>1. CountInv'  BY <1>4 DEF CommandThrows, CountInv
  <2>2. FeedTypeOK'  BY <1>4 DEF CommandThrows, FeedTypeOK
  <2>3. QED  BY <2>1, <2>2
<1>5. CASE HandOver \/ Start
  BY <1>5, SameCount DEF HandOver, Start, FeedTypeOK
<1>6. CASE NoTopics \/ Consume \/ ConsumeFails \/ PopNothing
  BY <1>6, SameCount
  DEF NoTopics, Consume, ConsumeFails, PopNothing, Consumes, FeedTypeOK
<1>7. QED  BY <1>1, <1>2, <1>3, <1>4, <1>5, <1>6 DEF FeedNext, Loop

-----------------------------------------------------------------------------
(* Sequences end to end.                                                   *)

\* Three sequences end to end.
LEMMA ThreeParts ==
    ASSUME NEW R, NEW a \in Seq(R), NEW b \in Seq(R), NEW c \in Seq(R)
    PROVE  /\ a \o b \o c \in Seq(R)
           /\ Len(a \o b \o c) = Len(a) + Len(b) + Len(c)
           /\ \A i \in 1 .. (Len(a) + Len(b) + Len(c)) :
                 (a \o b \o c)[i] = IF i <= Len(a) THEN a[i]
                                    ELSE IF i <= Len(a) + Len(b)
                                    THEN b[i - Len(a)]
                                    ELSE c[i - Len(a) - Len(b)]
<1>1. /\ a \o b \in Seq(R) /\ Len(a \o b) = Len(a) + Len(b)
      /\ \A i \in 1 .. (Len(a) + Len(b)) :
            (a \o b)[i] = IF i <= Len(a) THEN a[i] ELSE b[i - Len(a)]
  BY ConcatProperties
<1>2. /\ (a \o b) \o c \in Seq(R)
      /\ Len((a \o b) \o c) = Len(a \o b) + Len(c)
      /\ \A i \in 1 .. (Len(a \o b) + Len(c)) :
            ((a \o b) \o c)[i] = IF i <= Len(a \o b) THEN (a \o b)[i]
                                 ELSE c[i - Len(a \o b)]
  BY <1>1, ConcatProperties
<1>3. Len(a) \in Nat /\ Len(b) \in Nat /\ Len(c) \in Nat
  OBVIOUS
<1> DEFINE m == Len(a) + Len(b)
           s == (a \o b) \o c
           r == a \o b
<1>4. ASSUME NEW i \in 1 .. (m + Len(c))
      PROVE  s[i] = IF i <= Len(a) THEN a[i]
                    ELSE IF i <= m THEN b[i - Len(a)]
                    ELSE c[i - Len(a) - Len(b)]
  <2>1. s[i] = IF i <= m THEN r[i] ELSE c[i - m]  BY <1>1, <1>2
  <2>2. i <= m => r[i] = IF i <= Len(a) THEN a[i] ELSE b[i - Len(a)]
    BY <1>1, <1>3
  <2>3. i - m = i - Len(a) - Len(b)  BY <1>3
  <2> HIDE DEF s, r
  <2>4. QED  BY <1>3, <2>1, <2>2, <2>3
<1>5. QED  BY <1>1, <1>2, <1>3, <1>4

\* An element moved from the head of what follows to the end of what precedes
\* stays where it was.
LEMMA Moved ==
    ASSUME NEW R, NEW a \in Seq(R), NEW b \in Seq(R), b # <<>>
    PROVE  Append(a, Head(b)) \o Tail(b) = a \o b
<1>1. Head(b) \in R /\ Tail(b) \in Seq(R)  BY HeadTailProperties
<1> DEFINE h == Head(b)
           t == Tail(b)
<1>2. /\ Len(t) = Len(b) - 1 /\ Len(a) \in Nat /\ Len(b) \in Nat
      /\ \A i \in 1 .. Len(t) : t[i] = b[i + 1]
      /\ h = b[1]
  BY HeadTailProperties
<1> DEFINE c == Append(a, h)
<1>3. /\ c \in Seq(R) /\ Len(c) = Len(a) + 1
      /\ c[Len(a) + 1] = h
      /\ \A i \in 1 .. Len(a) : c[i] = a[i]
  BY <1>1
<1> DEFINE s == c \o t
           r == a \o b
<1>4. /\ s \in Seq(R) /\ Len(s) = Len(c) + Len(t)
      /\ \A i \in 1 .. Len(c) + Len(t) :
            s[i] = IF i <= Len(c) THEN c[i] ELSE t[i - Len(c)]
  BY <1>1, <1>3, ConcatProperties
<1>5. /\ r \in Seq(R) /\ Len(r) = Len(a) + Len(b)
      /\ \A i \in 1 .. Len(a) + Len(b) :
            r[i] = IF i <= Len(a) THEN a[i] ELSE b[i - Len(a)]
  BY ConcatProperties
<1> HIDE DEF s, r, c, t, h
<1>6. Len(s) = Len(r)  BY <1>2, <1>3, <1>4, <1>5
<1>7. ASSUME NEW i \in 1 .. Len(s) PROVE s[i] = r[i]
  <2>1. CASE i <= Len(a)
    <3>1. /\ i \in 1 .. (Len(c) + Len(t)) /\ i <= Len(c)
          /\ i \in 1 .. (Len(a) + Len(b)) /\ i \in 1 .. Len(a)
      BY <1>2, <1>3, <1>4, <2>1
    <3>2. s[i] = c[i] /\ r[i] = a[i]  BY <1>4, <1>5, <2>1, <3>1
    <3>3. QED  BY <1>3, <3>1, <3>2
  <2>2. CASE i = Len(a) + 1
    <3>1. s[i] = c[Len(a) + 1]  BY <1>2, <1>3, <1>4, <2>2
    <3>2. r[i] = b[1]
      <4>1. i \in 1 .. (Len(a) + Len(b)) /\ ~ (i <= Len(a)) /\ i - Len(a) = 1
        BY <1>2, <1>4, <1>5, <1>6, <2>2
      <4>2. QED  BY <1>5, <4>1
    <3>3. QED  BY <1>2, <1>3, <3>1, <3>2
  <2>3. CASE i > Len(a) + 1
    <3>1. /\ i \in 1 .. (Len(c) + Len(t)) /\ ~ (i <= Len(c))
          /\ i - Len(c) = i - Len(a) - 1 /\ i - Len(a) - 1 \in 1 .. Len(t)
          /\ (i - Len(a) - 1) + 1 = i - Len(a)
      BY <1>2, <1>3, <1>4, <2>3
    <3>2. s[i] = t[i - Len(a) - 1]  BY <1>4, <3>1
    <3>3. t[i - Len(a) - 1] = b[i - Len(a)]  BY <1>2, <3>1
    <3>4. i \in 1 .. (Len(a) + Len(b)) /\ ~ (i <= Len(a))
      BY <1>2, <1>5, <1>6, <2>3
    <3>5. r[i] = b[i - Len(a)]  BY <1>5, <3>4
    <3>6. QED  BY <3>2, <3>3, <3>5
  <2>4. QED  BY <1>2, <1>4, <2>1, <2>2, <2>3
<1>8. s = r  BY <1>4, <1>5, <1>6, <1>7, SeqEqual
<1>9. QED  BY <1>8 DEF s, r, c, h, t

\* Appending to the second of two sequences is appending to both together.
LEMMA AppendsLast ==
    ASSUME NEW R, NEW a \in Seq(R), NEW b \in Seq(R), NEW x \in R
    PROVE  a \o Append(b, x) = Append(a \o b, x)
<1> DEFINE c == Append(b, x)
           s == a \o c
           u == a \o b
           r == Append(u, x)
<1>1. /\ c \in Seq(R) /\ Len(c) = Len(b) + 1 /\ c[Len(b) + 1] = x
      /\ Len(a) \in Nat /\ Len(b) \in Nat
      /\ \A i \in 1 .. Len(b) : c[i] = b[i]
  OBVIOUS
<1>2. /\ s \in Seq(R) /\ Len(s) = Len(a) + Len(c)
      /\ \A i \in 1 .. Len(a) + Len(c) :
            s[i] = IF i <= Len(a) THEN a[i] ELSE c[i - Len(a)]
  BY <1>1, ConcatProperties
<1>3. /\ u \in Seq(R) /\ Len(u) = Len(a) + Len(b)
      /\ \A i \in 1 .. Len(a) + Len(b) :
            u[i] = IF i <= Len(a) THEN a[i] ELSE b[i - Len(a)]
  BY ConcatProperties
<1> HIDE DEF u
<1>4. /\ r \in Seq(R) /\ Len(r) = Len(u) + 1 /\ r[Len(u) + 1] = x
      /\ \A i \in 1 .. Len(u) : r[i] = u[i]
  BY <1>3
<1> HIDE DEF s, r, c
<1>5. Len(s) = Len(r)  BY <1>1, <1>2, <1>3, <1>4
<1>6. ASSUME NEW i \in 1 .. Len(s) PROVE s[i] = r[i]
  <2>1. CASE i <= Len(a) + Len(b)
    <3>1. r[i] = u[i]  BY <1>1, <1>2, <1>3, <1>4, <2>1
    <3>2. CASE i <= Len(a)
      <4>1. i \in 1 .. (Len(a) + Len(c)) /\ i \in 1 .. (Len(a) + Len(b))
        BY <1>1, <1>2, <2>1
      <4>2. QED  BY <1>2, <1>3, <3>1, <3>2, <4>1
    <3>3. CASE ~ (i <= Len(a))
      <4>0. i \in 1 .. (Len(a) + Len(c)) /\ i \in 1 .. (Len(a) + Len(b))
        BY <1>1, <1>2, <2>1
      <4>1. s[i] = c[i - Len(a)] /\ u[i] = b[i - Len(a)]
        BY <1>2, <1>3, <3>3, <4>0
      <4>2. i - Len(a) \in 1 .. Len(b)  BY <1>1, <1>2, <2>1, <3>3
      <4>3. QED  BY <1>1, <3>1, <4>1, <4>2
    <3>4. QED  BY <3>2, <3>3
  <2>2. CASE i > Len(a) + Len(b)
    <3>0. /\ Len(s) = Len(a) + Len(b) + 1 /\ i \in 1 .. Len(s)
          /\ Len(a) \in Nat /\ Len(b) \in Nat
      BY <1>1, <1>2
    <3>1. i = Len(a) + Len(b) + 1 /\ i - Len(a) = Len(b) + 1 /\ ~ (i <= Len(a))
      BY <2>2, <3>0
    <3>2. s[i] = x  BY <1>1, <1>2, <3>1
    <3>3. r[i] = x  BY <1>3, <1>4, <3>1
    <3>4. QED  BY <3>2, <3>3
  <2>3. i \in Int /\ Len(a) + Len(b) \in Int  BY <1>1, <1>2
  <2>4. QED  BY <2>1, <2>2, <2>3
<1>7. s = r  BY <1>2, <1>4, <1>5, <1>6, SeqEqual
<1>8. QED  BY <1>7 DEF s, r, c, u


-----------------------------------------------------------------------------
(* What is on its way follows the channel.                                 *)

\* What Redis sends: quotes and acknowledgements.
Replies == Quotes \cup {Ack(topic) : topic \in Topics}

FlowTypeOK ==
    handed \in Seq(Replies) /\ data \in Seq(Replies) /\ inbox \in Seq(Replies)

\* The quotes of f are from the channel p, in its order.
Follows(f, p) ==
    /\ \A i \in 1 .. Len(f) : IsQuote(f[i]) =>
          \E k \in 1 .. Len(p) : p[k] = f[i]
    /\ \A i, j \in 1 .. Len(f) :
          i < j /\ IsQuote(f[i]) /\ IsQuote(f[j]) =>
             \A k, l \in 1 .. Len(p) : p[k] = f[i] /\ p[l] = f[j] => k < l

\* The inductive invariant of the order.
FlowInv == FlowTypeOK /\ Follows(InFeed, published)

\* A reply is a quote or an acknowledgement, never both.
LEMMA QuoteOrAck ==
    /\ \A q \in Quotes : IsQuote(q)
    /\ \A topic : ~ IsQuote(Ack(topic))
  BY QuotesAssumption DEF Quotes, IsQuote, Ack

\* What is left when one element is taken out still follows the channel.
LEMMA FollowsWithout ==
    ASSUME NEW f, NEW g, NEW p, NEW m \in Nat, Len(f) \in Nat, Len(g) \in Nat,
           Follows(f, p), Len(f) = Len(g) + 1,
           \A i \in 1 .. Len(g) : g[i] = IF i < m THEN f[i] ELSE f[i + 1]
    PROVE  Follows(g, p)
<1> DEFINE was(i) == IF i < m THEN i ELSE i + 1
<1>1. \A i \in 1 .. Len(g) : was(i) \in 1 .. Len(f) /\ g[i] = f[was(i)]
  OBVIOUS
<1>2. \A i, j \in 1 .. Len(g) : i < j => was(i) < was(j)
  OBVIOUS
<1> HIDE DEF was
<1>3. \A i \in 1 .. Len(g) : IsQuote(g[i]) =>
         \E k \in 1 .. Len(p) : p[k] = g[i]
  BY <1>1 DEF Follows
<1>4. ASSUME NEW i \in 1 .. Len(g), NEW j \in 1 .. Len(g), i < j,
             IsQuote(g[i]), IsQuote(g[j]),
             NEW k \in 1 .. Len(p), NEW l \in 1 .. Len(p),
             p[k] = g[i], p[l] = g[j]
      PROVE  k < l
  <2>1. /\ was(i) \in 1 .. Len(f) /\ was(j) \in 1 .. Len(f) /\ was(i) < was(j)
        /\ g[i] = f[was(i)] /\ g[j] = f[was(j)]
    BY <1>1, <1>2, <1>4
  <2>2. QED  BY <1>4, <2>1 DEF Follows
<1>5. QED  BY <1>3, <1>4 DEF Follows

\* An acknowledgement at the end changes nothing about the quotes.
LEMMA FollowsAck ==
    ASSUME NEW R, NEW f \in Seq(R), NEW a, ~ IsQuote(a), NEW p, Follows(f, p)
    PROVE  Follows(Append(f, a), p)
<1> DEFINE g == Append(f, a)
<1>1. /\ Len(g) = Len(f) + 1 /\ Len(f) \in Nat /\ g[Len(g)] = a
      /\ \A i \in 1 .. Len(f) : g[i] = f[i]
  OBVIOUS
<1> HIDE DEF g
<1>2. \A i \in 1 .. Len(g) : IsQuote(g[i]) => i \in 1 .. Len(f)
  BY <1>1
<1>3. QED  BY <1>1, <1>2 DEF Follows, g

\* A quote that is published goes to the end of the channel, and of the feed
\* or nowhere.
LEMMA FollowsPublish ==
    ASSUME NEW R, NEW f \in Seq(R), NEW p \in Seq(R), NEW q \in R,
           Follows(f, p), \A k \in 1 .. Len(p) : p[k] # q
    PROVE  /\ Follows(f, Append(p, q))
           /\ Follows(Append(f, q), Append(p, q))
<1> DEFINE g == Append(f, q)
           r == Append(p, q)
<1>1. /\ Len(g) = Len(f) + 1 /\ Len(f) \in Nat /\ g[Len(g)] = q
      /\ \A i \in 1 .. Len(f) : g[i] = f[i]
      /\ Len(r) = Len(p) + 1 /\ Len(p) \in Nat /\ r[Len(r)] = q
      /\ \A i \in 1 .. Len(p) : r[i] = p[i]
  OBVIOUS
<1> HIDE DEF g, r
<1>2. ASSUME NEW i \in 1 .. Len(f), IsQuote(f[i])
      PROVE  /\ \E k \in 1 .. Len(p) : p[k] = f[i]
             /\ f[i] # q
             /\ \A k \in 1 .. Len(r) : r[k] = f[i] => k \in 1 .. Len(p)
  <2>1. \E k \in 1 .. Len(p) : p[k] = f[i]  BY <1>2 DEF Follows
  <2>2. f[i] # q  BY <2>1
  <2>3. \A k \in 1 .. Len(r) : k \in 1 .. Len(p) \/ k = Len(r)  BY <1>1
  <2>4. QED  BY <1>1, <2>1, <2>2, <2>3
<1>3. Follows(f, r)
  <2>1. ASSUME NEW i \in 1 .. Len(f), IsQuote(f[i])
        PROVE  \E k \in 1 .. Len(r) : r[k] = f[i]
    <3>1. PICK k \in 1 .. Len(p) : p[k] = f[i]  BY <1>2, <2>1
    <3>2. k \in 1 .. Len(r) /\ r[k] = f[i]  BY <1>1, <3>1
    <3>3. QED  BY <3>2
  <2>2. ASSUME NEW i \in 1 .. Len(f), NEW j \in 1 .. Len(f), i < j,
               IsQuote(f[i]), IsQuote(f[j]),
               NEW k \in 1 .. Len(r), NEW l \in 1 .. Len(r),
               r[k] = f[i], r[l] = f[j]
        PROVE  k < l
    <3>1. k \in 1 .. Len(p) /\ l \in 1 .. Len(p)  BY <1>2, <2>2
    <3>2. p[k] = f[i] /\ p[l] = f[j]  BY <1>1, <2>2, <3>1
    <3>3. QED  BY <2>2, <3>1, <3>2 DEF Follows
  <2>3. QED  BY <2>1, <2>2 DEF Follows
<1>4. Follows(g, r)
  <2>1. \A i \in 1 .. Len(g) : i \in 1 .. Len(f) \/ i = Len(g)  BY <1>1
  <2>2. ASSUME NEW i \in 1 .. Len(g), IsQuote(g[i])
        PROVE  \E k \in 1 .. Len(r) : r[k] = g[i]
    <3>1. CASE i \in 1 .. Len(f)
      BY <1>1, <1>3, <2>2, <3>1 DEF Follows
    <3>2. CASE i = Len(g)
      <4>1. Len(r) \in 1 .. Len(r) /\ r[Len(r)] = g[i]  BY <1>1, <3>2
      <4>2. QED  BY <4>1
    <3>3. QED  BY <2>1, <3>1, <3>2
  <2>3. ASSUME NEW i \in 1 .. Len(g), NEW j \in 1 .. Len(g), i < j,
               IsQuote(g[i]), IsQuote(g[j]),
               NEW k \in 1 .. Len(r), NEW l \in 1 .. Len(r),
               r[k] = g[i], r[l] = g[j]
        PROVE  k < l
    <3>1. i \in 1 .. Len(f) /\ g[i] = f[i]  BY <1>1, <2>1, <2>3
    <3>2. CASE j \in 1 .. Len(f)
      <4>1. g[j] = f[j]  BY <1>1, <3>2
      <4>2. QED  BY <1>3, <2>3, <3>1, <3>2, <4>1 DEF Follows
    <3>3. CASE j = Len(g)
      <4>1. r[l] = q  BY <1>1, <2>3, <3>3
      <4>2. l = Len(r)
        <5>1. l \in 1 .. Len(p) => r[l] # q  BY <1>1
        <5>2. QED  BY <1>1, <4>1, <5>1
      <4>3. k \in 1 .. Len(p)  BY <1>2, <2>3, <3>1
      <4>4. QED  BY <1>1, <4>2, <4>3
    <3>4. QED  BY <2>1, <3>2, <3>3
  <2>4. QED  BY <2>2, <2>3 DEF Follows
<1>5. QED  BY <1>3, <1>4 DEF g, r

\* publish() takes the oldest quote: nothing changes place.
LEMMA HandOverFlow ==
    ASSUME FlowTypeOK, HandOver
    PROVE  FlowTypeOK' /\ InFeed' = InFeed
<1>1. /\ data # <<>> /\ handed' = Append(handed, Head(data))
      /\ data' = Tail(data) /\ inbox' = inbox
      /\ handed \in Seq(Replies) /\ data \in Seq(Replies)
      /\ inbox \in Seq(Replies)
  BY DEF HandOver, FlowTypeOK
<1>2. Head(data) \in Replies /\ Tail(data) \in Seq(Replies)
  BY <1>1, HeadTailProperties
<1>3. FlowTypeOK'  BY <1>1, <1>2 DEF FlowTypeOK
<1>4. handed' \o data' = handed \o data  BY <1>1, Moved
<1>5. QED  BY <1>1, <1>3, <1>4 DEF InFeed

\* A reply that is read goes to the end of the queue, or is dropped.
LEMMA ConsumeFlow ==
    ASSUME FlowInv, Consume
    PROVE  FlowTypeOK' /\ Follows(InFeed', published)
<1> DEFINE x == Head(inbox)
<1>1. /\ inbox # <<>> /\ inbox' = Tail(inbox) /\ handed' = handed
      /\ data' = Append(data, x) \/ data' = data
      /\ handed \in Seq(Replies) /\ data \in Seq(Replies)
      /\ inbox \in Seq(Replies)
  BY DEF Consume, Consumes, Pushed, FlowInv, FlowTypeOK
<1>2. x \in Replies /\ Tail(inbox) \in Seq(Replies)
  BY <1>1, HeadTailProperties
<1>3. FlowTypeOK'  BY <1>1, <1>2 DEF FlowTypeOK
<1> DEFINE a == handed \o data
<1>4. a \in Seq(Replies)  BY <1>1, ConcatProperties
<1>5. InFeed = a \o inbox  BY DEF InFeed
<1>6. CASE data' = Append(data, x)
  <2>1. handed' \o data' = Append(a, x)  BY <1>1, <1>2, <1>6, AppendsLast
  <2>2. InFeed' = Append(a, x) \o Tail(inbox)  BY <1>1, <2>1 DEF InFeed
  <2> HIDE DEF a
  <2>3. InFeed' = InFeed  BY <1>1, <1>4, <1>5, <2>2, Moved
  <2>4. QED  BY <1>3, <2>3 DEF FlowInv
<1>7. CASE data' = data
  <2>1. InFeed' = a \o Tail(inbox)  BY <1>1, <1>7 DEF InFeed
  <2> HIDE DEF a, x
  <2> DEFINE t == Tail(inbox)
             m == Len(a) + 1
             f == a \o inbox
             g == a \o t
  <2>2. /\ Len(t) = Len(inbox) - 1 /\ Len(inbox) \in Nat /\ Len(a) \in Nat
        /\ Len(inbox) >= 1
        /\ \A i \in 1 .. Len(t) : t[i] = inbox[i + 1]
    BY <1>1, <1>4, HeadTailProperties
  <2>3. /\ Len(f) = Len(a) + Len(inbox)
        /\ \A i \in 1 .. (Len(a) + Len(inbox)) :
              f[i] = IF i <= Len(a) THEN a[i] ELSE inbox[i - Len(a)]
    BY <1>1, <1>4, ConcatProperties
  <2>4. /\ Len(g) = Len(a) + Len(t)
        /\ \A i \in 1 .. (Len(a) + Len(t)) :
              g[i] = IF i <= Len(a) THEN a[i] ELSE t[i - Len(a)]
    BY <1>2, <1>4, ConcatProperties
  <2> HIDE DEF f, g, t
  <2>5. /\ m \in Nat /\ Len(f) \in Nat /\ Len(g) \in Nat /\ Len(f) = Len(g) + 1
    BY <2>2, <2>3, <2>4
  <2>6. ASSUME NEW i \in 1 .. Len(g)
        PROVE  g[i] = IF i < m THEN f[i] ELSE f[i + 1]
    <3>1. CASE i < m
      <4>1. /\ i <= Len(a) /\ i \in 1 .. (Len(a) + Len(inbox))
            /\ i \in 1 .. (Len(a) + Len(t))
        BY <2>2, <2>4, <3>1
      <4>2. QED  BY <2>3, <2>4, <3>1, <4>1
    <3>2. CASE ~ (i < m)
      <4>1. /\ ~ (i <= Len(a)) /\ i \in 1 .. (Len(a) + Len(t))
            /\ ~ (i + 1 <= Len(a)) /\ i + 1 \in 1 .. (Len(a) + Len(inbox))
            /\ i - Len(a) \in 1 .. Len(t)
            /\ (i - Len(a)) + 1 = (i + 1) - Len(a)
        BY <2>2, <2>4, <3>2
      <4>2. g[i] = t[i - Len(a)] /\ f[i + 1] = inbox[(i + 1) - Len(a)]
        BY <2>3, <2>4, <4>1
      <4>3. QED  BY <2>2, <3>2, <4>1, <4>2
    <3>3. QED  BY <3>1, <3>2
  <2>7. Follows(f, published)  BY <1>5 DEF FlowInv, f
  <2> HIDE DEF m
  <2>8. Follows(g, published)  BY <2>5, <2>6, <2>7, FollowsWithout
  <2>9. QED  BY <1>3, <2>1, <2>8 DEF g, t
<1>8. QED  BY <1>1, <1>6, <1>7

\* The acknowledgement of a command comes after every quote.
LEMMA PopCommandFlow ==
    ASSUME FlowInv, FeedTypeOK, PopCommand
    PROVE  FlowTypeOK' /\ Follows(InFeed', published)
<1>1. /\ handed' = handed /\ data' = data
      /\ inbox' = Append(inbox, Ack(Head(commands).topic)) \/ inbox' = inbox
      /\ commands # <<>>
      /\ handed \in Seq(Replies) /\ data \in Seq(Replies)
      /\ inbox \in Seq(Replies)
  BY DEF PopCommand, FlowInv, FlowTypeOK
<1>2. PICK a \in Replies :
         /\ ~ IsQuote(a)
         /\ inbox' = Append(inbox, a) \/ inbox' = inbox
  <2>1. Head(commands) \in CommandType  BY <1>1 DEF FeedTypeOK
  <2>2. Ack(Head(commands).topic) \in Replies  BY <2>1 DEF Replies, CommandType
  <2>3. QED  BY <1>1, <2>2, QuoteOrAck
<1>3. FlowTypeOK'  BY <1>1, <1>2 DEF FlowTypeOK
<1> DEFINE h == handed \o data
<1>4. h \in Seq(Replies) /\ h \o inbox \in Seq(Replies)
  BY <1>1, ConcatProperties
<1>5. InFeed = h \o inbox /\ InFeed' = h \o inbox'
  BY <1>1 DEF InFeed
<1> HIDE DEF h
<1>6. CASE inbox' = Append(inbox, a)
  <2>1. InFeed' = Append(InFeed, a)  BY <1>1, <1>4, <1>5, <1>6, AppendsLast
  <2>2. InFeed \in Seq(Replies) /\ Follows(InFeed, published)
    BY <1>4, <1>5 DEF FlowInv
  <2>3. QED  BY <1>2, <1>3, <2>1, <2>2, FollowsAck
<1>7. CASE inbox' = inbox
  BY <1>3, <1>5, <1>7 DEF FlowInv
<1>8. QED  BY <1>2, <1>6, <1>7

\* Whatever the subscriber does, what is on its way follows the channel.
LEMMA FeedStepFlow ==
    ASSUME FeedTypeOK, FlowInv, FeedNext, published' = published
    PROVE  FlowInv'
<1>1. ASSUME FlowTypeOK', Follows(InFeed', published) PROVE FlowInv'
  BY <1>1 DEF FlowInv
<1>2. CASE HandOver
  BY <1>1, <1>2, HandOverFlow DEF FlowInv
<1>3. CASE Consume  BY <1>1, <1>3, ConsumeFlow
<1>4. CASE PopCommand  BY <1>1, <1>4, PopCommandFlow
<1>5. CASE UNCHANGED <<handed, data, inbox>>
  BY <1>5 DEF FlowInv, FlowTypeOK, InFeed
<1>6. \/ HandOver \/ Consume \/ PopCommand
      \/ UNCHANGED <<handed, data, inbox>>
  BY DEF FeedNext, Loop, Cut, Command, Start, NoTopics, ConsumeFails, Consumes,
         PopNothing, CommandThrows
<1>7. QED  BY <1>2, <1>3, <1>4, <1>5, <1>6

-----------------------------------------------------------------------------
(* The two processes together.                                             *)

\* Only on_read publishes, and then a quote Redis was not given before.
LEMMA PublishesNew ==
    ASSUME VendorInv, VendorNext, published' # published
    PROVE  \E q \in Quotes : /\ published' = Append(published, q)
                             /\ \A k \in 1 .. Len(published) : published[k] # q
<1>1. PICK t \in Threads : OnRead(t)
  BY DEF VendorNext, Handler, Signal, MessageArrives, BeginRegister,
         EndRegister, SignalHandler, Returns, Chain, OnResolve, OnConnect,
         OnSslHandshake, OnHandshake, OnWrite, OnReadError, OnReadNoRedis,
         sessionVars
<1>2. Publishable(t) /\ published' = Append(published, Head(buffer[t]))
  BY <1>1 DEF OnRead
<1>3. /\ buffer[t] \in Seq(Quotes) /\ Len(buffer[t]) = 1
      /\ published \in Seq(Quotes)
  BY <1>2 DEF Publishable, VendorInv, VendorTypeOK
<1>4. buffer[t] # <<>> /\ Head(buffer[t]) = buffer[t][1]
      /\ buffer[t][1] \in Quotes
  BY <1>3
<1>5. \A k \in 1 .. Len(published) : published[k].n # buffer[t][1].n
  BY <1>3, <1>4 DEF VendorInv, Given
<1>6. QED  BY <1>2, <1>4, <1>5

\* The vendor's steps pass a quote on at most, behind everything Redis has
\* sent before.
LEMMA VendorStepFeed ==
    ASSUME VendorInv, FeedTypeOK, CountInv, FlowInv, VendorStep
    PROVE  FeedTypeOK' /\ CountInv' /\ FlowInv'
<1>1. CASE published' = published
  <2>1. UNCHANGED feedVars  BY <1>1 DEF VendorStep
  <2>2. FeedTypeOK' /\ CountInv'
    BY <2>1 DEF feedVars, FeedTypeOK, CountInv, Alternates, LeadsToWanted
  <2>3. FlowInv'
    BY <1>1, <2>1 DEF feedVars, FlowInv, FlowTypeOK, InFeed
  <2>4. QED  BY <2>2, <2>3
<1>2. CASE published' # published
  <2>1. PICK q \in Quotes : /\ published' = Append(published, q)
                            /\ \A k \in 1 .. Len(published) : published[k] # q
    BY <1>2, PublishesNew DEF VendorStep
  <2>2. published \in Seq(Quotes)  BY DEF VendorInv, VendorTypeOK
  <2>3. published'[Len(published')] = q  BY <2>1, <2>2
  <2>4. Deliver(q)  BY <1>2, <2>3 DEF VendorStep
  <2>5. FeedTypeOK' /\ CountInv'  BY <2>4, SameCount DEF Deliver
  <2>6. /\ handed' = handed /\ data' = data
        /\ inbox' = Append(inbox, q) \/ inbox' = inbox
        /\ handed \in Seq(Replies) /\ data \in Seq(Replies)
        /\ inbox \in Seq(Replies) /\ q \in Replies /\ Quotes \subseteq Replies
    BY <2>4 DEF Deliver, FlowInv, FlowTypeOK, Replies
  <2>7. FlowTypeOK'  BY <2>6 DEF FlowTypeOK
  <2> DEFINE h == handed \o data
  <2>8. h \in Seq(Replies) /\ h \o inbox \in Seq(Replies)
    BY <2>6, ConcatProperties
  <2>9. InFeed = h \o inbox /\ InFeed' = h \o inbox'
    BY <2>6 DEF InFeed
  <2> HIDE DEF h
  <2>10. InFeed' = Append(InFeed, q) \/ InFeed' = InFeed
    <3>1. CASE inbox' = Append(inbox, q)
      <4>1. h \o Append(inbox, q) = Append(h \o inbox, q)
        BY <2>6, <2>8, AppendsLast
      <4>2. QED  BY <2>9, <3>1, <4>1
    <3>2. CASE inbox' = inbox  BY <2>9, <3>2
    <3>3. QED  BY <2>6, <3>1, <3>2
  <2>11. published \in Seq(Replies)  BY <2>2, <2>6, SeqMonotonic
  <2>12. /\ Follows(InFeed, published')
         /\ Follows(Append(InFeed, q), published')
    BY <2>1, <2>6, <2>8, <2>9, <2>11, FollowsPublish DEF FlowInv
  <2>13. Follows(InFeed', published')
    BY <2>10, <2>12
  <2>14. QED  BY <2>5, <2>7, <2>13 DEF FlowInv
<1>3. QED  BY <1>1, <1>2

\* Both start with nothing published, commanded or on its way.
LEMMA FeedInitInv == FeedInit => FeedTypeOK /\ CountInv /\ FlowInv
<1> SUFFICES ASSUME FeedInit
             PROVE  FeedTypeOK /\ CountInv /\ FlowInv
  OBVIOUS
<1>1. FeedTypeOK
  <2>1. <<>> \in Seq(CommandType)  OBVIOUS
  <2>2. IsFiniteSet(subs)  BY FS_EmptySet DEF FeedInit
  <2>3. QED  BY <2>1, <2>2 DEF FeedInit, FeedTypeOK
<1>2. CountInv
  <2>1. count = Cardinality(subs)
    BY FS_EmptySet DEF FeedInit
  <2>2. Len(commands) = 0 /\ 1 .. Len(commands) = {}
    BY DEF FeedInit
  <2>3. Alternates  BY <2>2 DEF Alternates
  <2>4. LeadsToWanted
    <3>1. \A topic \in Topics : ~ After(commands, subs, Len(commands), topic)
      BY <2>2 DEF FeedInit, After
    <3>2. wanted = {}  BY DEF FeedInit
    <3>3. QED  BY <3>1, <3>2 DEF LeadsToWanted
  <2>5. QED  BY <2>1, <2>3, <2>4 DEF CountInv
<1>3. FlowInv
  <2>1. handed = <<>> /\ data = <<>> /\ inbox = <<>> /\ <<>> \in Seq(Replies)
    BY DEF FeedInit
  <2>2. FlowTypeOK  BY <2>1 DEF FlowTypeOK
  <2>3. Len(InFeed) = 0
    BY <2>1, <2>2, ThreeParts DEF FlowTypeOK, InFeed
  <2>4. QED  BY <2>2, <2>3 DEF FlowInv, Follows
<1>4. QED  BY <1>1, <1>2, <1>3

\* The vendor client works in this composition as it does alone.
THEOREM VendorInside == Spec => VendorInit /\ [][VendorNext]_vendorVars
<1>1. Init => VendorInit  BY DEF Init
<1>2. [Next]_vars => [VendorNext]_vendorVars
  BY DEF Next, VendorStep, FeedStep, vars
<1>3. QED  BY <1>1, <1>2, PTL DEF Spec

\* The invariants of the two processes hold of them together.
THEOREM PathInvariance ==
    Spec => [](VendorInv /\ FeedTypeOK /\ CountInv /\ FlowInv)
<1> DEFINE Inv == VendorInv /\ FeedTypeOK /\ CountInv /\ FlowInv
<1>1. Init => Inv  BY InitInv, FeedInitInv DEF Init
<1>2. Inv /\ [Next]_vars => Inv'
  <2> SUFFICES ASSUME Inv, [Next]_vars PROVE Inv'  OBVIOUS
  <2>1. VendorInv'
    <3>1. [VendorNext]_vendorVars
      BY DEF Next, VendorStep, FeedStep, vars
    <3>2. QED  BY <3>1, VendorStepInv
  <2>2. CASE VendorStep
    <3>1. FeedTypeOK' /\ CountInv' /\ FlowInv'  BY <2>2, VendorStepFeed
    <3>2. QED  BY <2>1, <3>1
  <2>3. CASE FeedStep
    <3>1. FeedNext /\ published' = published
      BY <2>3 DEF FeedStep, vendorVars
    <3>2. FeedTypeOK' /\ CountInv'  BY <3>1, FeedStepCount
    <3>3. FlowInv'  BY <3>1, FeedStepFlow
    <3>4. QED  BY <2>1, <3>2, <3>3
  <2>4. CASE UNCHANGED vars
    <3>1. UNCHANGED feedVars /\ published' = published
      BY <2>4 DEF vars, vendorVars
    <3>2. FeedTypeOK' /\ CountInv'
      BY <3>1 DEF feedVars, FeedTypeOK, CountInv, Alternates, LeadsToWanted
    <3>3. FlowInv'
      BY <3>1 DEF feedVars, FlowInv, FlowTypeOK, InFeed
    <3>4. QED  BY <2>1, <3>2, <3>3
  <2>5. QED  BY <2>2, <2>3, <2>4 DEF Next
<1>3. QED  BY <1>1, <1>2, PTL DEF Spec

\* The count is the number of topics Redis sends, and the queue leads from
\* those topics to the ones the sessions want.
THEOREM CountIsExact == Spec => []CountsTopics
<1>1. CountInv => CountsTopics
  <2> SUFFICES ASSUME CountInv, ~ missed, conn = "ok"
               PROVE  /\ count = Cardinality(subs)
                      /\ \A topic \in Topics :
                            topic \in wanted
                               <=> SubscribedAfter(Len(commands), topic)
    BY DEF CountsTopics
  <2>1. count = Cardinality(subs) /\ LeadsToWanted  BY DEF CountInv
  <2>2. \A n, topic :
           SubscribedAfter(n, topic) <=> After(commands, subs, n, topic)
    BY DEF SubscribedAfter, After
  <2>3. QED  BY <2>1, <2>2 DEF LeadsToWanted
<1>2. QED  BY <1>1, PathInvariance, PTL

\* Quotes come out of the feed in the order of the channel, each once.
THEOREM FeedInOrder == Spec => []FeedFollowsChannel
<1>1. VendorInv /\ FlowInv => FeedFollowsChannel
  <2> SUFFICES ASSUME VendorInv, FlowInv PROVE FeedFollowsChannel  OBVIOUS
  <2> DEFINE f == InFeed
             p == published
  <2>1. DOMAIN f = 1 .. Len(f) /\ DOMAIN p = 1 .. Len(p)
    <3>1. f \in Seq(Replies)
      BY ThreeParts DEF FlowInv, FlowTypeOK, InFeed
    <3>2. p \in Seq(Quotes)  BY DEF VendorInv, VendorTypeOK
    <3> HIDE DEF f, p
    <3>3. QED  BY <3>1, <3>2
  <2>2. Follows(f, p)  BY DEF FlowInv
  <2>3. \A i \in DOMAIN f : IsQuote(f[i]) => \E k \in DOMAIN p : p[k] = f[i]
    BY <2>1, <2>2 DEF Follows
  <2>4. \A i \in DOMAIN f : IsQuote(f[i]) =>
           Place(f[i]) \in DOMAIN p /\ p[Place(f[i])] = f[i]
    BY <2>3 DEF Place
  <2> HIDE DEF f, p
  <2>5. \A i, j \in DOMAIN f :
           i < j /\ IsQuote(f[i]) /\ IsQuote(f[j]) => Place(f[i]) < Place(f[j])
    BY <2>1, <2>2, <2>4 DEF Follows
  <2>6. QED  BY <2>3, <2>5 DEF FeedFollowsChannel, f, p
<1>2. QED  BY <1>1, PathInvariance, PTL

\* A quote is given to Redis once, whatever the subscriber does meanwhile.
THEOREM NeverTwiceOnPath == Spec => []PublishedOnce
<1>1. QED  BY PathInvariance, OnceInv, PTL
=============================================================================
