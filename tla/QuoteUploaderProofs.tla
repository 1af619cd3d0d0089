------------------------ MODULE QuoteUploaderProofs -------------------------
(***************************************************************************)
(* UploaderInv is an invariant of the uploader for any messages, queues    *)
(* and batch size, and with it no failure of a command loses a datapoint,  *)
(* changes their order or makes the batch grow by more than one.           *)
(***************************************************************************)
EXTENDS QuoteUploader, TLAPS

-----------------------------------------------------------------------------
(* Queues.                                                                 *)

\* A queue that grows at its end, and one that is popped.
LEMMA AppendFacts ==
    ASSUME NEW S, NEW q \in Seq(S), NEW m \in S
    PROVE  /\ Append(q, m) \in Seq(S)
           /\ Len(Append(q, m)) = Len(q) + 1
           /\ Members(Append(q, m)) = Members(q) \cup {m}
           /\ \A i \in DOMAIN Append(q, m) :
                 \/ i \in DOMAIN q /\ Append(q, m)[i] = q[i]
                 \/ i = Len(q) + 1 /\ Append(q, m)[i] = m
  BY DEF Members

LEMMA TailFacts ==
    ASSUME NEW S, NEW q \in Seq(S), q # <<>>
    PROVE  /\ Tail(q) \in Seq(S) /\ Head(q) \in S
           /\ Len(Tail(q)) = Len(q) - 1
           /\ Members(q) = {Head(q)} \cup Members(Tail(q))
           /\ \A i \in DOMAIN Tail(q) : i + 1 \in DOMAIN q /\ Tail(q)[i] = q[i + 1]
<1>1. \A i \in DOMAIN Tail(q) : i + 1 \in DOMAIN q /\ Tail(q)[i] = q[i + 1]
  OBVIOUS
<1>2. \A j \in DOMAIN q : j = 1 \/ (j - 1 \in DOMAIN Tail(q) /\ Tail(q)[j - 1] = q[j])
  OBVIOUS
<1>3. Members(Tail(q)) \subseteq Members(q)
  BY <1>1 DEF Members
<1>4. ASSUME NEW j \in DOMAIN q PROVE q[j] \in {Head(q)} \cup Members(Tail(q))
  <2>1. CASE j = 1  BY <2>1
  <2>2. CASE j # 1
    <3>1. j - 1 \in DOMAIN Tail(q) /\ Tail(q)[j - 1] = q[j]  BY <1>2, <2>2
    <3>2. QED  BY <3>1 DEF Members
  <2>3. QED  BY <2>1, <2>2
<1>5. Members(q) \subseteq {Head(q)} \cup Members(Tail(q))
  BY <1>4 DEF Members
<1>6. Head(q) \in Members(q)
  <2>1. 1 \in DOMAIN q /\ Head(q) = q[1]  OBVIOUS
  <2>2. QED  BY <2>1 DEF Members
<1>7. Tail(q) \in Seq(S) /\ Head(q) \in S /\ Len(Tail(q)) = Len(q) - 1
  OBVIOUS
<1>8. QED  BY <1>1, <1>3, <1>5, <1>6, <1>7

\* Times are numbers.
LEMMA Times == \A m \in Messages : m.t \in Nat
  BY BoundsAssumption DEF Messages

\* A queue stays in order when a datapoint no earlier than its members is
\* added, and when one is popped; the one popped is the earliest.
LEMMA RisingAppend ==
    ASSUME NEW q \in Seq(Messages), NEW m \in Messages, Rising(q),
           NotAfter(Members(q), {m})
    PROVE  Rising(Append(q, m))
<1>1. \A i \in DOMAIN q : q[i].t <= m.t
  BY DEF NotAfter, Members
<1>2. ASSUME NEW i \in DOMAIN Append(q, m), NEW j \in DOMAIN Append(q, m), i < j
      PROVE  Append(q, m)[i].t <= Append(q, m)[j].t
  <2>1. i \in DOMAIN q /\ Append(q, m)[i] = q[i]
    BY <1>2
  <2>2. CASE j \in DOMAIN q  BY <1>2, <2>1, <2>2 DEF Rising
  <2>3. CASE j \notin DOMAIN q
    <3>1. Append(q, m)[j] = m  BY <1>2, <2>3
    <3>2. QED  BY <1>1, <2>1, <3>1
  <2>4. QED  BY <2>2, <2>3
<1>3. QED  BY <1>2 DEF Rising

LEMMA RisingTail ==
    ASSUME NEW q \in Seq(Messages), q # <<>>, Rising(q)
    PROVE  Rising(Tail(q)) /\ NotAfter({Head(q)}, Members(Tail(q)))
<1>1. \A i \in DOMAIN Tail(q) : i + 1 \in DOMAIN q /\ Tail(q)[i] = q[i + 1]
  BY TailFacts
<1>2. Rising(Tail(q))
  BY <1>1 DEF Rising
<1>3. \A i \in DOMAIN Tail(q) : q[1].t <= q[i + 1].t
  BY <1>1 DEF Rising
<1>4. NotAfter({Head(q)}, Members(Tail(q)))
  BY <1>1, <1>3 DEF NotAfter, Members
<1>5. QED  BY <1>2, <1>4

-----------------------------------------------------------------------------
(* The steps.                                                              *)

LEMMA InitInv == Init => UploaderInv
<1> SUFFICES ASSUME Init PROVE UploaderInv  OBVIOUS
<1>1. <<>> \in Seq(Messages) /\ Len(<<>>) = 0 /\ Members(<<>>) = {}
  BY DEF Members
<1>2. TypeOK
  <2>1. /\ arrived \in 0 .. MaxMessages /\ last \in 0 .. MaxTime
        /\ count \in 0 .. BatchSize /\ outages \in Nat
    BY BoundsAssumption DEF Init
  <2>2. broken \in BOOLEAN  BY Zenon DEF Init
  <2>3. /\ parsing \in Seq(Messages) /\ Len(parsing) <= QueueCapacity
        /\ publish \in Seq(Messages) /\ Len(publish) <= QueueCapacity
        /\ batch \in Seq(Messages)
    BY <1>1, BoundsAssumption DEF Init
  <2>4. stored \subseteq Messages /\ passed \subseteq Messages /\ taken \subseteq Messages
    BY Zenon DEF Init
  <2>5. QED  BY <2>1, <2>2, <2>3, <2>4 DEF TypeOK
<1>3. Ordered  BY <1>1 DEF Init, Ordered, Rising, NotAfter
<1>4. UploadedOrKept /\ (~ broken => Len(batch) = count + outages)
  BY <1>1 DEF Init, UploadedOrKept
<1>5. QED  BY <1>2, <1>3, <1>4 DEF UploaderInv

LEMMA OnMessageInv == ASSUME UploaderInv, OnMessage PROVE UploaderInv'
<1>1. parsing' \in Seq(Messages) /\ Len(parsing') <= QueueCapacity
  <2>1. PICK m \in Messages : parsing' = Pushed(parsing, m)
    BY DEF OnMessage
  <2>2. QED
    BY <2>1, AppendFacts, BoundsAssumption DEF Pushed, UploaderInv, TypeOK
<1>2. arrived' \in 0 .. MaxMessages
  BY BoundsAssumption DEF OnMessage, UploaderInv, TypeOK
<1>3. UNCHANGED <<last, publish, batch, broken, count, stored, passed, taken,
                  outages>>
  BY DEF OnMessage, publishVars
<1>4. TypeOK'  BY <1>1, <1>2, <1>3 DEF UploaderInv, TypeOK
<1>5. Ordered' /\ UploadedOrKept'
  BY <1>3 DEF UploaderInv, Ordered, UploadedOrKept
<1>6. QED  BY <1>3, <1>4, <1>5 DEF UploaderInv

\* What parse() passes on is no earlier than anything it has seen.
LEMMA ParseInv ==
    ASSUME UploaderInv, ParseFresh \/ ParseSkip PROVE UploaderInv'
<1> DEFINE m == Head(parsing)
<1>1. /\ parsing \in Seq(Messages) /\ parsing # <<>> /\ parsing' = Tail(parsing)
      /\ publish \in Seq(Messages) /\ Len(publish) <= QueueCapacity
      /\ Len(parsing) <= QueueCapacity
      /\ UNCHANGED <<arrived, batch, broken, count, stored, taken, outages>>
  BY DEF ParseFresh, ParseSkip, publishVars, UploaderInv, TypeOK
<1>2. m \in Messages /\ parsing' \in Seq(Messages) /\ Len(parsing') <= QueueCapacity
  BY <1>1, TailFacts, BoundsAssumption
<1>3. CASE ParseSkip
  <2>1. UNCHANGED <<last, publish, passed>>  BY <1>3 DEF ParseSkip
  <2>2. TypeOK'
    BY <1>1, <1>2, <2>1 DEF UploaderInv, TypeOK
  <2>3. Ordered' /\ UploadedOrKept'
    BY <1>1, <2>1 DEF UploaderInv, Ordered, UploadedOrKept
  <2>4. ~ broken' => Len(batch') = count' + outages'
    BY <1>1 DEF UploaderInv
  <2>5. QED  BY <2>2, <2>3, <2>4 DEF UploaderInv
<1>4. CASE ParseFresh
  <2>1. /\ m.t >= last /\ last' = m.t
        /\ \/ publish' = publish /\ passed' = passed
           \/ publish' = Pushed(publish, m) /\ passed' = passed \cup {m}
    BY <1>4 DEF ParseFresh
  <2>2. \/ publish' = publish
        \/ publish' = Append(publish, m) /\ Len(publish) < QueueCapacity
    BY <2>1 DEF Pushed
  <2>3. TypeOK'
    <3>1. publish' \in Seq(Messages) /\ Len(publish') <= QueueCapacity
      <4>1. CASE publish' = publish  BY <1>1, <4>1
      <4>2. CASE publish' = Append(publish, m) /\ Len(publish) < QueueCapacity
        <5>1. /\ Append(publish, m) \in Seq(Messages)
              /\ Len(Append(publish, m)) = Len(publish) + 1
          BY <1>1, <1>2, AppendFacts
        <5>2. Len(publish) \in Nat /\ QueueCapacity \in Nat
          BY <1>1, BoundsAssumption
        <5>3. QED  BY <4>2, <5>1, <5>2
      <4>3. QED  BY <2>2, <4>1, <4>2
    <3>2. last' \in 0 .. MaxTime  BY <1>2, <2>1, BoundsAssumption DEF Messages
    <3>3. passed' \subseteq Messages
      BY <1>2, <2>1 DEF UploaderInv, TypeOK
    <3>4. QED
      BY <1>1, <1>2, <3>1, <3>2, <3>3 DEF UploaderInv, TypeOK
  <2>4. Ordered'
    <3>1. m.t \in Nat /\ last \in Nat /\ batch \in Seq(Messages)
          /\ stored \subseteq Messages
      BY <1>2, Times, BoundsAssumption DEF UploaderInv, TypeOK
    <3>2. \A k \in stored \cup Members(batch) \cup Members(publish) :
             k.t \in Nat /\ k.t <= last
      BY <1>1, <3>1, Times DEF UploaderInv, Ordered, Members
    <3>3. \A k \in stored \cup Members(batch) \cup Members(publish) :
             k.t <= m.t
      BY <2>1, <3>1, <3>2
    <3>4. Rising(publish')
      <4>1. NotAfter(Members(publish), {m})  BY <3>3 DEF NotAfter
      <4>2. QED
        BY <1>1, <1>2, <2>2, <4>1, RisingAppend DEF UploaderInv, Ordered
    <3>5. Members(publish') \subseteq Members(publish) \cup {m}
      BY <1>1, <1>2, <2>2, AppendFacts
    <3>6. \A k \in stored' \cup Members(batch') \cup Members(publish') :
             k.t <= last'
      BY <1>1, <2>1, <3>1, <3>3, <3>5
    <3>7. QED
      BY <1>1, <3>3, <3>4, <3>5, <3>6 DEF UploaderInv, Ordered, NotAfter
  <2>5. QED
    BY <1>1, <2>3, <2>4 DEF UploaderInv, UploadedOrKept
<1>5. QED  BY <1>3, <1>4

\* publish() takes the first of its queue, and drops or collects it.
LEMMA UntypedInv == ASSUME UploaderInv, Untyped PROVE UploaderInv'
<1>1. /\ publish \in Seq(Messages) /\ publish # <<>> /\ publish' = Tail(publish)
      /\ Len(publish) <= QueueCapacity /\ Rising(publish)
      /\ UNCHANGED <<arrived, parsing, last, passed, batch, count, stored, taken,
                     outages>>
  BY DEF Untyped, UploaderInv, TypeOK, Ordered
<1>2. broken' = broken \/ broken' = TRUE
  BY Zenon DEF Untyped
<1>3. /\ Tail(publish) \in Seq(Messages)
      /\ Len(Tail(publish)) = Len(publish) - 1
      /\ Members(Tail(publish)) \subseteq Members(publish)
      /\ Rising(Tail(publish))
  BY <1>1, TailFacts, RisingTail
<1>4. TypeOK'
  <2>1. Len(Tail(publish)) <= QueueCapacity
    BY <1>1, <1>3, BoundsAssumption
  <2>2. broken' \in BOOLEAN  BY <1>2, Zenon DEF UploaderInv, TypeOK
  <2>3. QED  BY <1>1, <1>3, <2>1, <2>2 DEF UploaderInv, TypeOK
<1>5. Ordered'
  BY <1>1, <1>3 DEF UploaderInv, Ordered, NotAfter
<1>6. UploadedOrKept'
  BY <1>1 DEF UploaderInv, UploadedOrKept
<1>7. ~ broken' => Len(batch') = count' + outages'
  <2>1. ~ broken' => ~ broken  BY <1>2, Zenon
  <2>2. QED  BY <1>1, <2>1 DEF UploaderInv
<1>8. QED  BY <1>4, <1>5, <1>6, <1>7 DEF UploaderInv

\* Whichever way publish() deals with a good datapoint, the queues are in
\* order: the batch has it at its end, with what Redis may have got of the
\* batch, or Redis has it with all of the batch.
LEMMA GoodInv ==
    ASSUME UploaderInv, Good,
           \/ /\ batch' = Append(batch, Head(publish))
              /\ \/ stored' = stored
                 \/ stored' = stored \cup Members(batch')
           \/ /\ batch' = <<>>
              /\ stored' = stored \cup Members(batch) \cup {Head(publish)},
           count' \in 0 .. BatchSize, outages' \in Nat,
           ~ broken => Len(batch') = count' + outages'
    PROVE  UploaderInv'
<1> DEFINE m == Head(publish)
<1>1. /\ publish \in Seq(Messages) /\ publish # <<>> /\ publish' = Tail(publish)
      /\ batch \in Seq(Messages) /\ stored \subseteq Messages
      /\ taken \subseteq Messages /\ last \in Nat
      /\ taken' = taken \cup {m}
      /\ Len(publish) <= QueueCapacity
      /\ UNCHANGED <<arrived, parsing, last, passed, broken>>
  BY BoundsAssumption DEF Good, UploaderInv, TypeOK
<1>2. /\ Rising(batch) /\ Rising(publish)
      /\ NotAfter(Members(batch), Members(publish))
      /\ NotAfter(stored \ Members(batch), Members(batch) \cup Members(publish))
      /\ \A k \in stored \cup Members(batch) \cup Members(publish) : k.t <= last
  BY DEF UploaderInv, Ordered
<1>3. /\ m \in Messages /\ Tail(publish) \in Seq(Messages)
      /\ Len(Tail(publish)) = Len(publish) - 1
      /\ Members(publish) = {m} \cup Members(Tail(publish))
      /\ Rising(Tail(publish)) /\ NotAfter({m}, Members(Tail(publish)))
  BY <1>1, <1>2, TailFacts, RisingTail
<1>4. /\ Append(batch, m) \in Seq(Messages)
      /\ Members(Append(batch, m)) = Members(batch) \cup {m}
  BY <1>1, <1>3, AppendFacts
<1>5. <<>> \in Seq(Messages) /\ Members(<<>>) = {}
  BY DEF Members
<1>6. Members(batch) \subseteq Messages
  BY <1>1 DEF Members
<1>7. TypeOK'
  <2>1. Len(Tail(publish)) <= QueueCapacity
    BY <1>1, <1>3, BoundsAssumption
  <2>2. batch' \in Seq(Messages)  BY <1>4, <1>5
  <2>3. stored' \subseteq Messages  BY <1>1, <1>3, <1>4, <1>6
  <2>4. taken' \subseteq Messages  BY <1>1, <1>3
  <2>5. QED
    BY <1>1, <1>3, <2>1, <2>2, <2>3, <2>4 DEF UploaderInv, TypeOK
<1>8. Ordered'
  <2>1. Rising(batch')
    <3>1. NotAfter(Members(batch), {m})  BY <1>2, <1>3 DEF NotAfter
    <3>2. Rising(Append(batch, m))
      BY <1>1, <1>2, <1>3, <3>1, RisingAppend
    <3>3. Rising(<<>>)  BY DEF Rising
    <3>4. QED  BY <3>2, <3>3
  <2>2. NotAfter(Members(batch'), Members(Tail(publish)))
    BY <1>2, <1>3, <1>4, <1>5 DEF NotAfter
  <2>3. NotAfter(stored \cup Members(batch) \cup {m}, Members(Tail(publish)))
    BY <1>2, <1>3 DEF NotAfter
  <2>4. NotAfter(stored \ Members(batch), Members(batch) \cup {m})
    BY <1>2, <1>3 DEF NotAfter
  <2>5. NotAfter(stored' \ Members(batch'), Members(batch') \cup Members(Tail(publish)))
    <3>1. CASE batch' = <<>>
      BY <1>5, <2>3, <3>1, <1>4, <2>4 DEF NotAfter
    <3>2. CASE batch' = Append(batch, m)
      <4>1. stored' \ Members(batch') \subseteq stored \ Members(batch)
        BY <1>4, <1>5, <3>2
      <4>2. QED  BY <1>4, <2>3, <2>4, <3>2, <4>1 DEF NotAfter
    <3>3. QED  BY <3>1, <3>2
  <2>6. \A k \in stored' \cup Members(batch') \cup Members(Tail(publish)) :
           k.t <= last
    BY <1>2, <1>3, <1>4, <1>5
  <2>7. QED  BY <1>1, <1>3, <2>1, <2>2, <2>5, <2>6 DEF Ordered
<1>9. UploadedOrKept'
  <2>1. stored \cup Members(batch) \cup {m} \subseteq stored' \cup Members(batch')
    BY <1>4, <1>5
  <2>2. QED  BY <1>1, <2>1 DEF UploaderInv, UploadedOrKept
<1>10. ~ broken' => Len(batch') = count' + outages'
  BY <1>1
<1>11. QED  BY <1>7, <1>8, <1>9, <1>10 DEF UploaderInv

LEMMA CollectInv == ASSUME UploaderInv, Collect PROVE UploaderInv'
<1>1. /\ batch \in Seq(Messages) /\ count \in 0 .. BatchSize /\ outages \in Nat
      /\ publish \in Seq(Messages) /\ publish # <<>>
      /\ Good /\ count < BatchSize /\ batch' = Append(batch, Head(publish))
      /\ count' = count + 1 /\ stored' = stored /\ outages' = outages
  BY DEF Collect, Good, UploaderInv, TypeOK
<1>2. Len(batch') = Len(batch) + 1
  BY <1>1, TailFacts, AppendFacts
<1>3. count' \in 0 .. BatchSize  BY <1>1, BoundsAssumption
<1>4. ~ broken => Len(batch') = count' + outages'
  <2>1. ~ broken => Len(batch) = count + outages  BY DEF UploaderInv
  <2>2. QED  BY <1>1, <1>2, <2>1
<1>5. QED  BY <1>1, <1>3, <1>4, GoodInv

LEMMA UploadInv == ASSUME UploaderInv, Upload PROVE UploaderInv'
<1>1. /\ Good /\ batch' = <<>> /\ count' = 0 /\ outages' = 0
      /\ stored' = stored \cup Members(batch) \cup {Head(publish)}
  BY DEF Upload, Members
<1>2. count' \in 0 .. BatchSize /\ Len(batch') = 0
  BY <1>1, BoundsAssumption
<1>3. QED  BY <1>1, <1>2, GoodInv

LEMMA ThrowsInv == ASSUME UploaderInv, UploadThrows PROVE UploaderInv'
<1>1. /\ batch \in Seq(Messages) /\ count \in 0 .. BatchSize /\ outages \in Nat
      /\ publish \in Seq(Messages) /\ publish # <<>>
      /\ Good /\ batch' = Append(batch, Head(publish)) /\ count' = count
  BY DEF UploadThrows, Good, UploaderInv, TypeOK
<1>2. Len(batch') = Len(batch) + 1
  BY <1>1, TailFacts, AppendFacts
<1>3. CASE broken /\ stored' = stored /\ outages' = outages
  BY <1>1, <1>3, GoodInv
<1>4. CASE /\ ~ broken /\ outages' = outages + 1
           /\ stored' = stored \/ stored' = stored \cup Members(batch')
  <2>1. Len(batch) = count + outages  BY <1>4 DEF UploaderInv
  <2>2. outages' \in Nat /\ Len(batch') = count' + outages'
    BY <1>1, <1>2, <1>4, <2>1
  <2>3. QED  BY <1>1, <1>4, <2>2, GoodInv
<1>5. QED  BY <1>3, <1>4 DEF UploadThrows, Members

LEMMA StepInv == UploaderInv /\ [Next]_vars => UploaderInv'
<1> SUFFICES ASSUME UploaderInv, [Next]_vars PROVE UploaderInv'  OBVIOUS
<1>1. CASE OnMessage  BY <1>1, OnMessageInv
<1>2. CASE ParseFresh \/ ParseSkip  BY <1>2, ParseInv
<1>3. CASE Untyped  BY <1>3, UntypedInv
<1>4. CASE Collect  BY <1>4, CollectInv
<1>5. CASE Upload  BY <1>5, UploadInv
<1>6. CASE UploadThrows  BY <1>6, ThrowsInv
<1>7. CASE UNCHANGED vars
  <2>1. UNCHANGED <<arrived, parsing, last, publish, batch, broken, count, stored,
                    passed, taken, outages>>
    BY <1>7 DEF vars
  <2>2. TypeOK' /\ Ordered' /\ UploadedOrKept'
    BY <2>1 DEF UploaderInv, TypeOK, Ordered, UploadedOrKept
  <2>3. ~ broken' => Len(batch') = count' + outages'
    BY <2>1 DEF UploaderInv
  <2>4. QED  BY <2>2, <2>3 DEF UploaderInv
<1>8. QED
  BY <1>1, <1>2, <1>3, <1>4, <1>5, <1>6, <1>7 DEF Next

\* UploaderInv holds of the uploader whatever arrives and whenever Redis fails:
\* parse() and publish() keep the order of their queues at every step.
THEOREM Invariance == Spec => []UploaderInv
<1>1. QED  BY InitInv, StepInv, PTL DEF Spec

\* A datapoint publish() has popped is in Redis or in the command being built,
\* because a command that throws leaves result as it is.
THEOREM NoneLost == Spec => []UploadedOrKept
<1>1. UploaderInv => UploadedOrKept  BY DEF UploaderInv
<1>2. QED  BY <1>1, Invariance, PTL

\* Every command Redis leaves without an answer lets the batch outgrow
\* REDIS_BATCH_SIZE by one, and nothing else does.
THEOREM Bounded == Spec => []BatchBounded
<1>1. UploaderInv => BatchBounded
  <2> SUFFICES ASSUME UploaderInv, ~ broken
               PROVE  Len(batch) <= BatchSize + outages
    BY DEF BatchBounded
  <2>1. Len(batch) = count + outages  BY DEF UploaderInv
  <2>2. count \in 0 .. BatchSize /\ outages \in Nat  BY DEF UploaderInv, TypeOK
  <2>3. QED  BY <2>1, <2>2, BoundsAssumption
<1>2. QED  BY <1>1, Invariance, PTL

\* Both queues, the batch and its retries keep the order parse() gives the
\* datapoints by their times.
THEOREM Chronological == Spec => []InTimeOrder
<1>1. UploaderInv => InTimeOrder
  <2> SUFFICES ASSUME UploaderInv PROVE InTimeOrder  OBVIOUS
  <2>1. /\ batch \in Seq(Messages) /\ publish \in Seq(Messages)
        /\ stored \subseteq Messages
    BY DEF UploaderInv, TypeOK
  <2>2. /\ Rising(batch) /\ Rising(publish)
        /\ NotAfter(Members(batch), Members(publish))
        /\ NotAfter(stored \ Members(batch), Members(batch) \cup Members(publish))
        /\ \A m \in stored \cup Members(batch) \cup Members(publish) : m.t <= last
    BY DEF UploaderInv, Ordered
  <2>3. \A i \in DOMAIN Ahead :
           \/ i \in DOMAIN batch /\ Ahead[i] = batch[i]
           \/ /\ i > Len(batch) /\ i - Len(batch) \in DOMAIN publish
              /\ Ahead[i] = publish[i - Len(batch)]
    BY <2>1 DEF Ahead
  <2>4. Members(Ahead) \subseteq Members(batch) \cup Members(publish)
    BY <2>3 DEF Members
  <2>5. ASSUME NEW i \in DOMAIN Ahead, NEW j \in DOMAIN Ahead, i < j
        PROVE  Ahead[i].t <= Ahead[j].t
    <3>1. i \in Nat /\ j \in Nat /\ Len(batch) \in Nat
          /\ DOMAIN batch = 1 .. Len(batch)
      BY <2>1, <2>5 DEF Ahead
    <3>2. CASE i \in DOMAIN batch /\ j \in DOMAIN batch
      BY <2>2, <2>3, <2>5, <3>1, <3>2 DEF Rising
    <3>3. CASE i \in DOMAIN batch /\ j \notin DOMAIN batch
      <4>1. Ahead[i] \in Members(batch) /\ Ahead[j] \in Members(publish)
        BY <2>3, <2>5, <3>1, <3>3 DEF Members
      <4>2. QED  BY <2>2, <4>1 DEF NotAfter
    <3>4. CASE i \notin DOMAIN batch /\ j \notin DOMAIN batch
      <4>1. /\ i - Len(batch) \in DOMAIN publish /\ Ahead[i] = publish[i - Len(batch)]
            /\ j - Len(batch) \in DOMAIN publish /\ Ahead[j] = publish[j - Len(batch)]
        BY <2>3, <2>5, <3>4
      <4>2. i - Len(batch) < j - Len(batch)  BY <2>5, <3>1
      <4>3. QED  BY <2>2, <4>1, <4>2 DEF Rising
    <3>5. ~ (i \notin DOMAIN batch /\ j \in DOMAIN batch)
      BY <2>3, <2>5, <3>1
    <3>6. QED  BY <3>2, <3>3, <3>4, <3>5
  <2>6. QED  BY <2>2, <2>4, <2>5 DEF InTimeOrder, NotAfter
<1>2. QED  BY <1>1, Invariance, PTL
=============================================================================
