------------------------ MODULE SessionWriterProofs -------------------------
(***************************************************************************)
(* For any number of quotes: the types, the single write of the front, and *)
(* that the writer implements the ordered feed.                            *)
(***************************************************************************)
EXTENDS SessionWriter, TLAPS

Quotes == 1 .. MaxQuotes

\* Lengths and elements of the sequences the actions build.
LEMMA AppendFacts ==
    ASSUME NEW q \in Seq(Quotes), NEW v \in Quotes
    PROVE  /\ Append(q, v) \in Seq(Quotes) /\ Append(q, v) # <<>>
           /\ Len(Append(q, v)) = Len(q) + 1
           /\ \A i \in 1 .. Len(q) : Append(q, v)[i] = q[i]
           /\ Append(q, v)[Len(q) + 1] = v
  OBVIOUS

LEMMA TailFacts ==
    ASSUME NEW q \in Seq(Quotes), q # <<>>
    PROVE  /\ Tail(q) \in Seq(Quotes) /\ Head(q) \in Quotes /\ Head(q) = q[1]
           /\ Len(q) \in Nat \ {0} /\ Len(Tail(q)) = Len(q) - 1
           /\ \A i \in 1 .. Len(q) - 1 : Tail(q)[i] = q[i + 1]
  OBVIOUS

\* A numbered sequence grows by its next number and shrinks to the rest.
LEMMA NumberedAppend ==
    ASSUME NEW q \in Seq(Quotes), NEW k \in Nat, Numbered(q, k),
           k + Len(q) + 1 \in Quotes
    PROVE  Numbered(Append(q, k + Len(q) + 1), k)
<1> DEFINE r == Append(q, k + Len(q) + 1)
<1>1. /\ Len(q) \in Nat /\ Len(r) = Len(q) + 1
      /\ \A i \in 1 .. Len(q) : r[i] = q[i]
      /\ r[Len(q) + 1] = k + Len(q) + 1
  BY AppendFacts
<1> HIDE DEF r
<1>2. ASSUME NEW i \in 1 .. Len(r) PROVE r[i] = k + i
  <2>1. CASE i = Len(q) + 1
    BY <1>1, <2>1
  <2>2. CASE i # Len(q) + 1
    <3>1. i \in 1 .. Len(q)  BY <1>1, <2>2
    <3>2. r[i] = q[i] /\ q[i] = k + i  BY <1>1, <3>1 DEF Numbered
    <3>3. QED  BY <3>2
  <2>3. QED  BY <2>1, <2>2
<1>3. QED  BY <1>2 DEF Numbered, r

LEMMA NumberedTail ==
    ASSUME NEW q \in Seq(Quotes), NEW k \in Nat, Numbered(q, k), q # <<>>
    PROVE  Head(q) = k + 1 /\ Numbered(Tail(q), k + 1)
<1> DEFINE r == Tail(q)
<1>1. /\ Len(q) \in Nat \ {0} /\ Len(r) = Len(q) - 1 /\ Head(q) = q[1]
      /\ \A i \in 1 .. Len(q) - 1 : r[i] = q[i + 1]
  BY TailFacts
<1> HIDE DEF r
<1>2. Head(q) = k + 1
  <2>1. 1 \in 1 .. Len(q)  BY <1>1
  <2>2. QED  BY <1>1, <2>1 DEF Numbered
<1>3. ASSUME NEW i \in 1 .. Len(r) PROVE r[i] = k + 1 + i
  <2>1. i \in 1 .. Len(q) - 1 /\ i + 1 \in 1 .. Len(q)  BY <1>1
  <2>2. r[i] = q[i + 1] /\ q[i + 1] = k + (i + 1)  BY <1>1, <2>1 DEF Numbered
  <2>3. QED  BY <2>1, <2>2
<1>4. QED  BY <1>2, <1>3 DEF Numbered, r

LEMMA InitInv == Init => WriterInv
<1> SUFFICES ASSUME Init PROVE WriterInv  OBVIOUS
<1>1. TypeOK
  <2>1. <<>> \in Seq(1 .. MaxQuotes) /\ 0 \in 0 .. MaxQuotes
    BY MaxQuotesAssumption
  <2>2. QED  BY <2>1 DEF Init, TypeOK
<1>2. InOrder  BY DEF Init, InOrder, Numbered
<1>3. FrontIsWritten /\ SentOnce
  BY DEF Init, FrontIsWritten, SentOnce
<1>4. QED  BY <1>1, <1>2, <1>3 DEF WriterInv

\* What the action lemmas use of the invariant.
LEMMA InvFacts ==
    ASSUME WriterInv
    PROVE  /\ posted \in Seq(Quotes) /\ queue_ \in Seq(Quotes)
           /\ wire \in Seq(Quotes) /\ Len(posted) \in Nat
           /\ Len(queue_) \in Nat /\ Len(wire) \in Nat
           /\ sent = Len(wire) + Len(queue_) + Len(posted)
           /\ Numbered(wire, 0) /\ Numbered(queue_, Len(wire))
           /\ Numbered(posted, Len(wire) + Len(queue_))
  BY DEF WriterInv, TypeOK, InOrder, Quotes

\* A posted quote joins the queue; the write starts if it is the only one.
LEMMA OnSendInv == ASSUME WriterInv, OnSend PROVE WriterInv'
<1> USE DEF OnSend
<1>1. /\ Head(posted) = Len(wire) + Len(queue_) + 1 /\ Head(posted) \in Quotes
      /\ posted' \in Seq(Quotes) /\ Len(posted') = Len(posted) - 1
      /\ Len(posted) \in Nat \ {0}
      /\ Numbered(posted', Len(wire) + Len(queue_) + 1)
  BY InvFacts, TailFacts, NumberedTail
<1>2. /\ queue_' \in Seq(Quotes) /\ queue_' # <<>>
      /\ Len(queue_') = Len(queue_) + 1
      /\ \A i \in 1 .. Len(queue_) : queue_'[i] = queue_[i]
      /\ Numbered(queue_', Len(wire))
  BY <1>1, InvFacts, AppendFacts, NumberedAppend
<1>3. Head(queue_') = queue_'[1] /\ Head(queue_') \in Quotes
  BY <1>2, TailFacts
<1>4. writes' = IF failed THEN {} ELSE {Head(queue_')}
  <2>1. CASE queue_ = <<>>
    <3>1. Len(queue_') = 1 /\ writes = {} /\ ~ failed
      BY <2>1, <1>2 DEF WriterInv, FrontIsWritten
    <3>2. QED  BY <3>1
  <2>2. CASE queue_ # <<>>
    <3>1. Head(queue_) = queue_[1] /\ 1 \in 1 .. Len(queue_)
      BY <2>2, InvFacts, TailFacts
    <3>2. Head(queue_') = Head(queue_) /\ Len(queue_') > 1
      BY <3>1, <1>2, <1>3, InvFacts
    <3>3. writes' = writes
      BY <3>2
    <3>4. QED  BY <2>2, <3>2, <3>3 DEF WriterInv, FrontIsWritten
  <2>3. QED  BY <2>1, <2>2
<1>5. TypeOK'
  BY <1>1, <1>2, <1>3, <1>4 DEF WriterInv, TypeOK, Quotes
<1>6. InOrder'
  <2>1. sent' = Len(wire') + Len(queue_') + Len(posted')
    BY <1>1, <1>2, InvFacts
  <2>2. Len(wire) + Len(queue_) + 1 = Len(wire') + Len(queue_')
    BY <1>2, InvFacts
  <2>3. QED  BY <2>1, <2>2, <1>1, <1>2, InvFacts DEF InOrder
<1>7. FrontIsWritten' /\ SentOnce'
  BY <1>2, <1>4 DEF WriterInv, FrontIsWritten, SentOnce
<1>8. QED  BY <1>5, <1>6, <1>7 DEF WriterInv

\* The written front moves to the wire; the next front is written.
LEMMA OnWriteInv ==
    ASSUME WriterInv, OnWrite
    PROVE  WriterInv' /\ ~ failed /\ wire' = Append(wire, Len(wire) + 1)
                      /\ Len(wire) < sent
<1> USE DEF OnWrite
<1>1. queue_ # <<>> /\ ~ failed /\ writes = {Head(queue_)}
  BY DEF WriterInv, FrontIsWritten
<1>2. /\ Head(queue_) = Len(wire) + 1 /\ Head(queue_) \in Quotes
      /\ queue_' \in Seq(Quotes) /\ Len(queue_) \in Nat \ {0}
      /\ Len(queue_') = Len(queue_) - 1
      /\ Numbered(queue_', Len(wire) + 1)
  BY <1>1, InvFacts, TailFacts, NumberedTail
<1>3. /\ wire' = Append(wire, Len(wire) + 1)
      /\ writes' = IF queue_' = <<>> THEN {} ELSE {Head(queue_')}
  BY <1>1, <1>2
<1>4. /\ wire' \in Seq(Quotes) /\ Len(wire') = Len(wire) + 1
      /\ Numbered(wire', 0)
  <2>1. 0 + Len(wire) + 1 = Len(wire) + 1  BY InvFacts
  <2>2. QED  BY <2>1, <1>2, <1>3, InvFacts, AppendFacts, NumberedAppend
<1>5. TypeOK'
  <2>1. writes' \subseteq Quotes
    BY <1>2, <1>3, TailFacts
  <2>2. QED  BY <2>1, <1>2, <1>4 DEF WriterInv, TypeOK, Quotes
<1>6. InOrder'
  <2>1. sent' = Len(wire') + Len(queue_') + Len(posted')
    BY <1>2, <1>4, InvFacts
  <2>2. Len(wire') + Len(queue_') = Len(wire) + Len(queue_)
    BY <1>2, <1>4, InvFacts
  <2>3. QED  BY <2>1, <2>2, <1>2, <1>4, InvFacts DEF InOrder
<1>7. FrontIsWritten' /\ SentOnce'
  BY <1>1, <1>3 DEF WriterInv, FrontIsWritten, SentOnce
<1>8. Len(wire) < sent
  BY <1>2, InvFacts
<1>9. QED  BY <1>1, <1>3, <1>5, <1>6, <1>7, <1>8 DEF WriterInv

\* The steps of the publisher, the errors and the stuttering.
LEMMA SendInv == ASSUME WriterInv, Send PROVE WriterInv'
<1> USE DEF Send
<1>1. sent + 1 \in Quotes
  BY MaxQuotesAssumption DEF WriterInv, TypeOK, SentOnce, Quotes
<1>2. /\ posted' \in Seq(Quotes) /\ Len(posted') = Len(posted) + 1
      /\ Numbered(posted', Len(wire) + Len(queue_))
  BY <1>1, InvFacts, AppendFacts, NumberedAppend
<1>3. TypeOK'
  BY <1>1, <1>2, MaxQuotesAssumption DEF WriterInv, TypeOK, Quotes
<1>4. InOrder'
  BY <1>2, InvFacts DEF InOrder
<1>5. QED  BY <1>3, <1>4 DEF WriterInv, FrontIsWritten, SentOnce

LEMMA OthersInv ==
    ASSUME WriterInv,
           Lock \/ Drop \/ OnWriteError \/ OnReadError \/ UNCHANGED vars
    PROVE  WriterInv'
<1> USE DEF Lock, Drop, OnWriteError, OnReadError, vars
<1>1. TypeOK'  BY DEF WriterInv, TypeOK
<1>2. InOrder'  BY DEF WriterInv, InOrder
<1>3. FrontIsWritten' /\ SentOnce'
  BY DEF WriterInv, FrontIsWritten, SentOnce
<1>4. QED  BY <1>1, <1>2, <1>3 DEF WriterInv

THEOREM Invariance == Spec => []WriterInv
<1>1. WriterInv /\ [Next]_vars => WriterInv'
  BY OnSendInv, OnWriteInv, SendInv, OthersInv DEF Next
<1>2. QED  BY <1>1, InitInv, PTL DEF Spec

\* Every variable keeps its type.
THEOREM TypeCorrect == Spec => []TypeOK
<1>1. WriterInv => TypeOK  BY DEF WriterInv
<1>2. QED  BY <1>1, Invariance, PTL

\* A session is destroyed with nothing left to write, or after a failed write.
THEOREM Stranded == Spec => []NothingStranded
<1>1. WriterInv => NothingStranded
  <2> SUFFICES ASSUME WriterInv, ~ Exists, ~ failed
               PROVE  posted = <<>> /\ queue_ = <<>> /\ Len(wire) = sent
    BY DEF NothingStranded
  <2>1. posted = <<>> /\ writes = {}
    BY DEF Exists
  <2>2. queue_ = <<>>
    BY <2>1 DEF WriterInv, FrontIsWritten
  <2>3. Len(wire) = sent
    BY <2>1, <2>2 DEF WriterInv, TypeOK, InOrder
  <2>4. QED  BY <2>1, <2>2, <2>3
<1>2. QED  BY <1>1, Invariance, PTL

\* The client receives what was sent, in order and without a gap, until a
\* write fails.
THEOREM FeedRefinement == Spec => ImplementsFeed
<1>1. Init => Feed!Init
  BY DEF Init, Feed!Init
<1>2. WriterInv /\ [Next]_vars => [Feed!Next]_Feed!vars
  <2> SUFFICES ASSUME WriterInv, [Next]_vars
               PROVE  Feed!Next \/ UNCHANGED Feed!vars
    OBVIOUS
  <2> USE DEF Feed!vars, Feed!Next
  <2>1. CASE Send
    BY <2>1 DEF Send, Feed!Send
  <2>2. CASE OnWrite
    BY <2>2, OnWriteInv DEF OnWrite, Feed!Deliver
  <2>3. CASE OnWriteError
    BY <2>3 DEF OnWriteError, WriterInv, FrontIsWritten, Feed!Cut
  <2>4. CASE Lock \/ Drop \/ OnSend \/ OnReadError \/ UNCHANGED vars
    BY <2>4 DEF Lock, Drop, OnSend, OnReadError, vars
  <2>5. QED  BY <2>1, <2>2, <2>3, <2>4 DEF Next
<1>3. QED  BY <1>1, <1>2, Invariance, PTL DEF Spec, ImplementsFeed, Feed!Spec
=============================================================================
