------------------------ MODULE SymbolRegistryProofs ------------------------
(***************************************************************************)
(* LoopInv and KnownAlive are invariants of SymbolRegistry, and with them  *)
(* its properties of pointers, pushes and subscriptions, for any bounds.   *)
(* While the command ring has a single producer, FeedInv is one too: then  *)
(* the feed follows the registry, and the registry, as long as nothing is  *)
(* refused, implements SubscriptionBoard.                                  *)
(***************************************************************************)
EXTENDS SymbolRegistry, TLAPS

-----------------------------------------------------------------------------
(* The command ring.                                                       *)

\* An index moves within the ring.
LEMMA FollowingSlot == \A i \in Ring!Slots : Ring!Following(i) \in Ring!Slots
  BY BoundsAssumption DEF Ring!Slots, Ring!Following

\* A store and a pop keep a ring a ring.
LEMMA RingOps ==
    ASSUME NEW q \in Ring!RingType(Commands)
    PROVE  /\ \A i \in Ring!Slots, v \in Commands :
                 Ring!Stored(q, i, v) \in Ring!RingType(Commands)
           /\ Ring!Popped(q) \in Ring!RingType(Commands)
           /\ Ring!Front(q) \in Commands \cup {None}
<1>1. /\ q.buf \in [Ring!Slots -> Commands \cup {None}]
      /\ q.write \in Ring!Slots /\ q.read \in Ring!Slots
  BY DEF Ring!RingType
<1>2. ASSUME NEW i \in Ring!Slots, NEW v \in Commands
      PROVE  Ring!Stored(q, i, v) \in Ring!RingType(Commands)
  BY <1>1, <1>2, FollowingSlot DEF Ring!Stored, Ring!RingType
<1>3. Ring!Popped(q) \in Ring!RingType(Commands)
  BY <1>1, FollowingSlot DEF Ring!Popped, Ring!RingType
<1>4. Ring!Front(q) \in Commands \cup {None}
  BY <1>1 DEF Ring!Front
<1>5. QED  BY <1>2, <1>3, <1>4

\* The ring starts as a ring.
LEMMA RingInit == Ring!EmptyRing \in Ring!RingType(Commands)
  BY BoundsAssumption DEF Ring!EmptyRing, Ring!RingType, Ring!Slots

-----------------------------------------------------------------------------
(* One lemma per action.                                                   *)

LEMMA InitInv == Init => LoopInv
<1> SUFFICES ASSUME Init PROVE LoopInv  OBVIOUS
<1>1. TypeOK
  BY RingInit, BoundsAssumption DEF Init, TypeOK, Ring!Slots
<1>2. LifeMatchesRefs  BY DEF Init, LifeMatchesRefs
<1>3. LoopSubject /\ HeldByPub /\ StrandPc /\ OneDestroyer /\ LeaveVisitsAll
      /\ SubscribeMarked
  BY DEF Init, LoopSubject, HeldByPub, StrandPc, OneDestroyer, LeaveVisitsAll,
         SubscribeMarked, Busy, Agents
<1>4. MembershipTracked /\ AtTopic  BY DEF Init, MembershipTracked, AtTopic
<1>5. QED  BY <1>1, <1>2, <1>3, <1>4 DEF LoopInv

\* A strand that drops a pointer of its own may have to destroy the session.
LEMMA StrandRelease ==
    ASSUME NEW s \in Sessions, NEW r \in {"read", "send"}, LoopInv,
           life[s] \in {"accepting", "open"}, pc[s] = "idle",
           Release(s, s, r, "idle"),
           UNCHANGED <<up, topics, registryVars, cur, slot, pubVars, queueVars,
                       budget>>
    PROVE  LoopInv'
<1> USE DEF registryVars, pubVars, queueVars
<1>1. TypeOK'
  BY DEF LoopInv, TypeOK, Release, Agents
<1>2. LifeMatchesRefs'
  BY DEF LoopInv, TypeOK, LifeMatchesRefs, Release
<1>3. LoopSubject'
  BY AgentsAssumption
  DEF LoopInv, TypeOK, LoopSubject, Release, Busy, Subject, Agents
<1>4. HeldByPub' /\ StrandPc'
  BY AgentsAssumption
  DEF LoopInv, TypeOK, HeldByPub, StrandPc, Release, Agents
<1>5. OneDestroyer'
  BY AgentsAssumption
  DEF LoopInv, TypeOK, OneDestroyer, LoopSubject, Release, Busy, Subject,
      Agents
<1>6. LeaveVisitsAll' /\ SubscribeMarked'
  BY AgentsAssumption
  DEF LoopInv, TypeOK, LeaveVisitsAll, SubscribeMarked, Release, Busy,
      Subject, Agents
<1>7. MembershipTracked' /\ AtTopic'
  BY AgentsAssumption
  DEF LoopInv, TypeOK, MembershipTracked, AtTopic, Release, Subject, Agents
<1>8. QED  BY <1>1, <1>2, <1>3, <1>4, <1>5, <1>6, <1>7 DEF LoopInv

\* The life of a session up to its first message.
LEMMA ConnectInv ==
    ASSUME NEW s \in Sessions, LoopInv, Connect(s) PROVE LoopInv'
<1> USE DEF Connect, registryVars, loopVars, pubVars, queueVars
<1>1. TypeOK'  BY DEF LoopInv, TypeOK
<1>2. LifeMatchesRefs'  BY DEF LoopInv, TypeOK, LifeMatchesRefs
<1>3. LoopSubject'
  BY AgentsAssumption
  DEF LoopInv, TypeOK, LoopSubject, Busy, Subject, Agents
<1>4. HeldByPub'
  BY DEF LoopInv, TypeOK, HeldByPub, LifeMatchesRefs
<1>5. StrandPc' /\ OneDestroyer' /\ LeaveVisitsAll' /\ SubscribeMarked'
      /\ MembershipTracked' /\ AtTopic'
  BY DEF LoopInv, StrandPc, OneDestroyer, LeaveVisitsAll, SubscribeMarked,
         MembershipTracked, AtTopic, Busy, Subject
<1>6. QED  BY <1>1, <1>2, <1>3, <1>4, <1>5 DEF LoopInv

LEMMA OnAcceptInv ==
    ASSUME NEW s \in Sessions, LoopInv, OnAccept(s) PROVE LoopInv'
<1> USE DEF OnAccept, loopVars, pubVars, queueVars
<1>1. TypeOK'  BY DEF LoopInv, TypeOK
<1>2. LifeMatchesRefs' /\ LoopSubject'
  BY AgentsAssumption
  DEF LoopInv, TypeOK, LifeMatchesRefs, LoopSubject, Busy, Subject, Agents
<1>3. HeldByPub' /\ StrandPc' /\ OneDestroyer' /\ LeaveVisitsAll'
      /\ SubscribeMarked' /\ MembershipTracked' /\ AtTopic'
  BY DEF LoopInv, HeldByPub, StrandPc, OneDestroyer, LeaveVisitsAll,
         SubscribeMarked, MembershipTracked, AtTopic, Busy, Subject
<1>4. QED  BY <1>1, <1>2, <1>3 DEF LoopInv

\* A message starts a loop of the session's strand.
LEMMA OnReadInv ==
    ASSUME NEW s \in Sessions, NEW o \in {"sub", "unsub"},
           NEW ns \in SUBSET Names, LoopInv, OnRead(s, o, ns)
    PROVE  LoopInv'
<1> USE DEF OnRead, sessionVars, registryVars, pubVars, queueVars
<1>1. TypeOK'  BY BoundsAssumption DEF LoopInv, TypeOK, Agents
<1>2. LoopSubject'
  BY AgentsAssumption
  DEF LoopInv, TypeOK, LoopSubject, Busy, Subject, Agents
<1>3. OneDestroyer'
  BY AgentsAssumption
  DEF LoopInv, TypeOK, OneDestroyer, LoopSubject, Busy, Subject, Agents
<1>4. LifeMatchesRefs' /\ HeldByPub' /\ StrandPc'
  BY AgentsAssumption
  DEF LoopInv, TypeOK, LifeMatchesRefs, HeldByPub, StrandPc, Agents
<1>5. LeaveVisitsAll' /\ SubscribeMarked'
  BY AgentsAssumption
  DEF LoopInv, TypeOK, LeaveVisitsAll, SubscribeMarked, Busy, Subject, Agents
<1>6. MembershipTracked' /\ AtTopic'
  BY AgentsAssumption
  DEF LoopInv, TypeOK, MembershipTracked, AtTopic, Subject, Agents
<1>7. QED  BY <1>1, <1>2, <1>3, <1>4, <1>5, <1>6 DEF LoopInv

-----------------------------------------------------------------------------
(* The loops.                                                              *)

\* What the loop lemmas share: a busy agent's subject is a session, and no
\* other busy agent works for the same one.
LEMMA SoleWorker ==
    ASSUME LoopInv, NEW a \in Agents, Busy(a)
    PROVE  /\ Subject(a) \in Sessions
           /\ \A b \in Agents : Busy(b) /\ Subject(b) = Subject(a) => b = a
  BY AgentsAssumption
  DEF LoopInv, LoopSubject, OneDestroyer, Subject, Busy, Agents

LEMMA VisitTopicInv ==
    ASSUME NEW a \in Agents, LoopInv, VisitTopic(a) PROVE LoopInv'
<1> USE DEF VisitTopic, registryVars, pubVars, queueVars
<1>0. /\ Busy(a) /\ Subject(a) \in Sessions
      /\ \A b \in Agents : Busy(b) /\ Subject(b) = Subject(a) => b = a
      /\ \A b \in Agents : b # a => (Busy(b)' <=> Busy(b))
      /\ \A b : Subject(b)' = Subject(b)
  BY SoleWorker DEF LoopInv, TypeOK, Busy, Subject
<1>1. TypeOK'  BY <1>0 DEF LoopInv, TypeOK
<1>2. LifeMatchesRefs' /\ LoopSubject'
  BY <1>0, AgentsAssumption
  DEF LoopInv, TypeOK, LifeMatchesRefs, LoopSubject, Busy, Agents
<1>3. HeldByPub' /\ StrandPc' /\ OneDestroyer'
  BY <1>0, AgentsAssumption
  DEF LoopInv, TypeOK, HeldByPub, StrandPc, OneDestroyer, Busy, Agents
<1>4. LeaveVisitsAll'
  BY <1>0 DEF LoopInv, TypeOK, LeaveVisitsAll, LoopSubject, Busy
<1>5. SubscribeMarked'
  BY <1>0 DEF LoopInv, TypeOK, SubscribeMarked, LoopSubject, Busy
<1>6. MembershipTracked'
  <2> SUFFICES ASSUME NEW t \in Topics, NEW s \in members[t], t \notin topics'[s]
               PROVE  \E b \in {s, Pub} : /\ Subject(b) = s /\ pc'[b] = "marked"
                                          /\ cur'[b] = t /\ op[b] # "sub"
    BY <1>0 DEF MembershipTracked
  <2>1. CASE t \in topics[s]
    BY <2>1, <1>0 DEF LoopInv, TypeOK, Subject, Agents
  <2>2. CASE t \notin topics[s]
    BY <2>2, <1>0, AgentsAssumption
    DEF LoopInv, TypeOK, MembershipTracked, Agents
  <2>3. QED  BY <2>1, <2>2
<1>7. AtTopic'
  BY DEF LoopInv, TypeOK, AtTopic
<1>8. QED  BY <1>1, <1>2, <1>3, <1>4, <1>5, <1>6, <1>7 DEF LoopInv

\* The invariant only looks at these variables, besides the types.
LEMMA SameRegistry ==
    ASSUME LoopInv, TypeOK',
           UNCHANGED <<life, refs, topics, members, holder, pc, op, todo, cur,
                       held>>
    PROVE  LoopInv'
<1>1. LifeMatchesRefs' /\ LoopSubject' /\ HeldByPub' /\ StrandPc'
  BY DEF LoopInv, LifeMatchesRefs, LoopSubject, HeldByPub, StrandPc, Busy,
         Subject
<1>2. OneDestroyer' /\ LeaveVisitsAll' /\ SubscribeMarked'
  BY DEF LoopInv, OneDestroyer, LeaveVisitsAll, SubscribeMarked, Busy,
         Subject
<1>3. MembershipTracked' /\ AtTopic'
  BY DEF LoopInv, MembershipTracked, AtTopic, Subject
<1>4. QED  BY <1>1, <1>2, <1>3 DEF LoopInv

LEMMA UnlistedTopicInv ==
    ASSUME NEW a \in Agents, LoopInv, UnlistedTopic(a) PROVE LoopInv'
<1> USE DEF UnlistedTopic, sessionVars, registryVars, loopVars, pubVars,
            queueVars
<1>1. TypeOK'  BY DEF LoopInv, TypeOK
<1>2. QED  BY <1>1, SameRegistry

\* A round of a loop at the mutex of its topic: the agent moves to the store
\* of its push or to the next round, and its subject joins or leaves.  Whoever
\* joins has the topic in its own set; whoever ends a round that is not a
\* subscribe has left.
LEMMA RoundInv ==
    ASSUME NEW a \in Agents, LoopInv, TypeOK', AtTopic',
           pc[a] \in {"marked", "store"}, cur[a] \in Topics,
           UNCHANGED <<life, refs, topics, op, todo, held>>,
           \/ pc' = [pc EXCEPT ![a] = "next"] /\ cur' = [cur EXCEPT ![a] = None]
           \/ pc' = [pc EXCEPT ![a] = "store"] /\ cur' = cur,
           \/ op[a] = "sub" /\ (members' = members \/ members' = Joined(a))
           \/ op[a] # "sub" /\ members' = Left(a)
           \/ pc[a] = "store" /\ members' = members
    PROVE  LoopInv'
<1>0. /\ Busy(a) /\ Busy(a)' /\ Subject(a) \in Sessions
      /\ \A b \in Agents : Busy(b) /\ Subject(b) = Subject(a) => b = a
      /\ \A b \in Agents : Busy(b)' <=> Busy(b)
      /\ \A b : Subject(b)' = Subject(b)
  BY SoleWorker DEF LoopInv, TypeOK, Busy, Subject
<1>1. LifeMatchesRefs' /\ LoopSubject' /\ LeaveVisitsAll'
  BY <1>0, AgentsAssumption
  DEF LoopInv, LifeMatchesRefs, LoopSubject, LeaveVisitsAll, Agents
<1>2. HeldByPub' /\ StrandPc' /\ OneDestroyer'
  BY <1>0, AgentsAssumption
  DEF LoopInv, TypeOK, HeldByPub, StrandPc, OneDestroyer, Busy, Agents
<1>3. SubscribeMarked'
  BY <1>0 DEF LoopInv, TypeOK, SubscribeMarked
<1>4. MembershipTracked'
  <2> SUFFICES ASSUME NEW t \in Topics, NEW s \in members'[t], t \notin topics[s]
               PROVE  \E b \in {s, Pub} : /\ Subject(b) = s /\ pc'[b] = "marked"
                                          /\ cur'[b] = t /\ op[b] # "sub"
    BY <1>0 DEF MembershipTracked
  <2>1. s \in members[t]
    BY <1>0 DEF LoopInv, TypeOK, SubscribeMarked, Joined, Left
  <2>2. PICK b \in {s, Pub} : /\ Subject(b) = s /\ pc[b] = "marked"
                              /\ cur[b] = t /\ op[b] # "sub"
    BY <2>1 DEF LoopInv, MembershipTracked
  <2>3. b # a
    BY <1>0, <2>2 DEF LoopInv, TypeOK, Left
  <2>4. b \in Agents
    BY <2>1 DEF LoopInv, TypeOK, Agents
  <2>5. pc'[b] = "marked" /\ cur'[b] = t
    BY <2>2, <2>3, <2>4 DEF LoopInv, TypeOK
  <2>6. QED  BY <2>2, <2>5
<1>5. QED  BY <1>1, <1>2, <1>3, <1>4 DEF LoopInv

LEMMA SubscribeInv ==
    ASSUME NEW a \in Agents, LoopInv, SubscribeFirst(a) \/ SubscribeMore(a)
    PROVE  LoopInv'
<1> USE DEF SubscribeFirst, SubscribeMore, BeginPush, RefusePush, EndRound,
            CanLock, sessionVars, pubVars, queueVars
<1>1. Subject(a) \in Sessions /\ cmd.write \in Ring!Slots
  BY SoleWorker DEF LoopInv, TypeOK, Busy, Ring!RingType
<1>2. TypeOK'  BY <1>1 DEF LoopInv, TypeOK, Joined
<1>3. AtTopic'
  BY AgentsAssumption DEF LoopInv, TypeOK, AtTopic, Agents
<1>4. QED  BY <1>2, <1>3, RoundInv

LEMMA UnsubscribeInv ==
    ASSUME NEW a \in Agents, LoopInv,
           UnsubscribeLast(a) \/ UnsubscribeOther(a)
    PROVE  LoopInv'
<1> USE DEF UnsubscribeLast, UnsubscribeOther, BeginPush, RefusePush, EndRound,
            CanLock, sessionVars, pubVars, queueVars
<1>1. cmd.write \in Ring!Slots
  BY DEF LoopInv, TypeOK, Ring!RingType
<1>2. TypeOK'  BY <1>1 DEF LoopInv, TypeOK, Left
<1>3. AtTopic'
  BY AgentsAssumption DEF LoopInv, TypeOK, AtTopic, Agents
<1>4. QED  BY <1>2, <1>3, RoundInv
LEMMA FinishPushInv ==
    ASSUME NEW a \in Agents, LoopInv, FinishPush(a) PROVE LoopInv'
<1> USE DEF FinishPush, EndRound, sessionVars, pubVars
<1>1. Subject(a) \in Sessions /\ cur[a] \in Topics
  BY SoleWorker DEF Busy, LoopInv, AtTopic
<1>2. <<IF op[a] = "sub" THEN "sub" ELSE "unsub", cur[a]>> \in Commands
  BY <1>1, NamesAssumption DEF Commands
<1>3. cmd' \in Ring!RingType(Commands)
  BY <1>2, RingOps DEF LoopInv, TypeOK
<1>4. TypeOK'
  BY <1>1, <1>3, BoundsAssumption DEF LoopInv, TypeOK, Joined, Ring!Slots
<1>5. AtTopic'
  <2> SUFFICES ASSUME NEW b \in Agents, b # a
               PROVE  /\ pc[b] = "marked" => cur[b] \in Names
                      /\ pc[b] \in {"store", "snapshot"} => cur[b] \in Topics
                      /\ pc[b] = "store" => holder'[cur[b]] = b
    BY DEF LoopInv, TypeOK, AtTopic
  <2>1. pc[b] = "store" => cur[b] # cur[a]
    BY DEF LoopInv, AtTopic
  <2>2. QED  BY <1>1, <2>1 DEF LoopInv, TypeOK, AtTopic
<1>6. QED  BY <1>1, <1>4, <1>5, RoundInv

\* The end of a message's loop.
LEMMA HandlerReturnsInv ==
    ASSUME NEW a \in Agents, LoopInv, HandlerReturns(a) PROVE LoopInv'
<1> USE DEF HandlerReturns, sessionVars, registryVars, pubVars, queueVars
<1>1. TypeOK'  BY DEF LoopInv, TypeOK
<1>2. a # Pub
  BY DEF LoopInv, LoopSubject, Busy
<1>3. LifeMatchesRefs' /\ LoopSubject' /\ LeaveVisitsAll' /\ SubscribeMarked'
  BY <1>2 DEF LoopInv, TypeOK, LifeMatchesRefs, LoopSubject, LeaveVisitsAll,
              SubscribeMarked, Busy, Subject
<1>4. HeldByPub' /\ StrandPc' /\ OneDestroyer' /\ AtTopic'
  BY <1>2, AgentsAssumption
  DEF LoopInv, TypeOK, HeldByPub, StrandPc, OneDestroyer, AtTopic, Agents
<1>5. MembershipTracked'
  BY DEF LoopInv, TypeOK, MembershipTracked, Subject, Agents
<1>6. QED  BY <1>1, <1>3, <1>4, <1>5 DEF LoopInv

\* The end of leave(): no symbol has the session any more.
LEMMA LeaveReturnsInv ==
    ASSUME NEW a \in Agents, LoopInv, LeaveReturns(a) PROVE LoopInv'
<1> USE DEF LeaveReturns, queueVars
<1>0. /\ Busy(a) /\ Subject(a) \in Sessions
      /\ life[Subject(a)] = "dying" /\ refs[Subject(a)] = {}
      /\ \A b \in Agents : Busy(b) /\ Subject(b) = Subject(a) => b = a
  BY SoleWorker DEF LoopInv, LoopSubject, LifeMatchesRefs, Busy
<1>1. TypeOK'  BY <1>0 DEF LoopInv, TypeOK
<1>2. \A t \in Topics : Subject(a) \notin members[t]
  <2> SUFFICES ASSUME NEW t \in Topics, Subject(a) \in members[t]
               PROVE  FALSE
    OBVIOUS
  <2>1. topics[Subject(a)] = {}
    BY <1>0 DEF LoopInv, TypeOK, LeaveVisitsAll
  <2>2. PICK b \in {Subject(a), Pub} : Subject(b) = Subject(a) /\ pc[b] = "marked"
    BY <2>1, <1>0 DEF LoopInv, MembershipTracked
  <2>3. b \in Agents  BY <1>0 DEF Agents
  <2>4. QED  BY <2>2, <2>3, <1>0 DEF Busy
<1>3. LifeMatchesRefs'
  BY <1>0 DEF LoopInv, TypeOK, LifeMatchesRefs
<1>4. LoopSubject'
  BY <1>0, AgentsAssumption
  DEF LoopInv, TypeOK, LoopSubject, Busy, Subject, Agents
<1>5. HeldByPub' /\ StrandPc' /\ AtTopic'
  BY <1>0, AgentsAssumption
  DEF LoopInv, TypeOK, HeldByPub, StrandPc, AtTopic, Busy, Subject, Agents
<1>6. OneDestroyer'
  BY <1>0, AgentsAssumption
  DEF LoopInv, TypeOK, OneDestroyer, Busy, Subject, Agents
<1>7. LeaveVisitsAll' /\ SubscribeMarked'
  BY <1>0, AgentsAssumption
  DEF LoopInv, TypeOK, LeaveVisitsAll, SubscribeMarked, Busy, Subject, Agents
<1>8. MembershipTracked'
  BY <1>0, <1>2, AgentsAssumption
  DEF LoopInv, TypeOK, MembershipTracked, Subject, Agents
<1>9. QED
  BY <1>1, <1>3, <1>4, <1>5, <1>6, <1>7, <1>8 DEF LoopInv
LEMMA LoopStepInv ==
    ASSUME NEW a \in Agents, LoopInv, LoopStep(a) PROVE LoopInv'
  BY VisitTopicInv, UnlistedTopicInv, SubscribeInv, UnsubscribeInv,
     FinishPushInv, HandlerReturnsInv, LeaveReturnsInv
  DEF LoopStep

-----------------------------------------------------------------------------
(* The publisher and the subscriber.                                       *)

\* Between the publisher's own steps nothing but its position moves.
LEMMA PubMoves ==
    ASSUME LoopInv, ~ Busy(Pub), TypeOK', AtTopic', HeldByPub',
           UNCHANGED <<life, topics, members, op, todo>>,
           pc' = pc \/ \E next \in {"idle", "snapshot", "fan", "send", "drop"} :
                         pc' = [pc EXCEPT ![Pub] = next],
           cur' = cur \/ \E t : cur' = [cur EXCEPT ![Pub] = t],
           \A s \in Sessions : /\ (refs'[s] = {}) <=> (refs[s] = {})
                               /\ ("read" \in refs'[s]) <=> ("read" \in refs[s])
    PROVE  LoopInv'
<1>0. /\ ~ Busy(Pub)'
      /\ \A s \in Sessions : /\ pc'[s] = pc[s] /\ cur'[s] = cur[s]
                             /\ Subject(s) = s /\ Subject(s)' = s
  BY AgentsAssumption DEF LoopInv, TypeOK, Busy, Subject, Agents
<1>1. LifeMatchesRefs'
  BY DEF LoopInv, LifeMatchesRefs
<1>2. LoopSubject'
  BY <1>0, AgentsAssumption DEF LoopInv, LoopSubject, Busy, Subject, Agents
<1>3. StrandPc' /\ OneDestroyer' /\ LeaveVisitsAll' /\ SubscribeMarked'
  BY <1>0 DEF LoopInv, StrandPc, OneDestroyer, LeaveVisitsAll,
              SubscribeMarked, Busy, Agents
<1>4. MembershipTracked'
  BY <1>0 DEF LoopInv, TypeOK, MembershipTracked, Busy
<1>5. QED  BY <1>1, <1>2, <1>3, <1>4 DEF LoopInv

LEMMA PubPopInv ==
    ASSUME NEW t \in Topics, LoopInv, PubPop(t) PROVE LoopInv'
<1> USE DEF PubPop, sessionVars, registryVars, pubVars, queueVars
<1>1. TypeOK'  BY NamesAssumption DEF LoopInv, TypeOK
<1>2. AtTopic' /\ HeldByPub' /\ ~ Busy(Pub)
  BY DEF LoopInv, TypeOK, AtTopic, HeldByPub, Agents, Busy
<1>3. QED  BY <1>1, <1>2, PubMoves

LEMMA PubSnapshotInv ==
    ASSUME LoopInv, PubSnapshot PROVE LoopInv'
<1> USE DEF PubSnapshot, sessionVars, registryVars, queueVars
<1>1. cur[Pub] \in Topics  BY DEF LoopInv, AtTopic, Agents
<1>2. TypeOK'  BY <1>1 DEF LoopInv, TypeOK
<1>3. AtTopic' /\ HeldByPub' /\ ~ Busy(Pub)
  BY DEF LoopInv, TypeOK, AtTopic, HeldByPub, Agents, Busy
<1>4. QED  BY <1>2, <1>3, PubMoves

LEMMA PubLockInv ==
    ASSUME NEW s \in Sessions, LoopInv, PubLock(s) PROVE LoopInv'
<1> USE DEF PubLock, registryVars, loopVars, queueVars
<1>1. TypeOK'  BY DEF LoopInv, TypeOK
<1>2. AtTopic' /\ HeldByPub' /\ ~ Busy(Pub)
  BY AgentsAssumption
  DEF LoopInv, TypeOK, AtTopic, HeldByPub, Agents, Busy
<1>3. QED  BY <1>1, <1>2, PubMoves DEF LoopInv, TypeOK

LEMMA PubSendInv ==
    ASSUME LoopInv, PubSend PROVE LoopInv'
<1> USE DEF PubSend, registryVars, loopVars, pubVars, queueVars
<1>1. held \in Sessions /\ "pub" \in refs[held]
  BY DEF LoopInv, HeldByPub
<1>2. TypeOK'  BY <1>1 DEF LoopInv, TypeOK
<1>3. AtTopic' /\ HeldByPub' /\ ~ Busy(Pub)
  BY <1>1 DEF LoopInv, TypeOK, AtTopic, HeldByPub, Agents, Busy
<1>4. QED  BY <1>1, <1>2, <1>3, PubMoves DEF LoopInv, TypeOK

LEMMA PubDoneInv ==
    ASSUME LoopInv, PubDone PROVE LoopInv'
<1> USE DEF PubDone, sessionVars, registryVars, loopVars, pubVars, queueVars
<1>1. TypeOK'  BY DEF LoopInv, TypeOK
<1>2. AtTopic' /\ HeldByPub' /\ ~ Busy(Pub)
  BY DEF LoopInv, TypeOK, AtTopic, HeldByPub, Agents, Busy
<1>3. QED  BY <1>1, <1>2, PubMoves

\* The publisher may be the one to destroy a session: the session's strand is
\* idle then, for a busy one would own the "read" pointer.
LEMMA PubDropInv ==
    ASSUME LoopInv, PubDrop PROVE LoopInv'
<1> USE DEF PubDrop, registryVars, queueVars
<1>0. /\ held \in Sessions /\ "pub" \in refs[held] /\ pc[Pub] = "drop"
      /\ life[held] \in {"accepting", "open"}
      /\ refs[held] \subseteq {"pub"} <=> refs[held] = {"pub"}
  BY DEF LoopInv, HeldByPub, LifeMatchesRefs
<1>1. TypeOK'
  BY <1>0 DEF LoopInv, TypeOK, Release, Agents
<1>2. AtTopic'
  BY DEF LoopInv, TypeOK, AtTopic, Release, Agents
<1>3. CASE refs[held] = {"pub"}
  <2>1. /\ life' = [life EXCEPT ![held] = "dying"] /\ refs'[held] = {}
        /\ op' = [op EXCEPT ![Pub] = "leave"] /\ held' = held
        /\ todo' = [todo EXCEPT ![Pub] = topics[held]]
        /\ pc' = [pc EXCEPT ![Pub] = "next"]
        /\ \A s \in Sessions : s # held => refs'[s] = refs[s]
    BY <1>0, <1>3 DEF Release, LoopInv, TypeOK
  <2>2. pc[held] = "idle"
    BY <1>0, <1>3, AgentsAssumption
    DEF LoopInv, StrandPc, LoopSubject, Busy, Subject, Agents
  <2>3. \A s \in Sessions : Subject(s) = s /\ Subject(s)' = s /\ pc'[s] = pc[s]
    BY <2>1, AgentsAssumption DEF Subject, LoopInv, TypeOK
  <2>4. LifeMatchesRefs'
    BY <1>0, <2>1 DEF LoopInv, TypeOK, LifeMatchesRefs
  <2>5. LoopSubject'
    BY <1>0, <2>1, <2>2, <2>3, AgentsAssumption
    DEF LoopInv, TypeOK, LoopSubject, Busy, Agents, Subject
  <2>6. HeldByPub' /\ StrandPc' /\ OneDestroyer'
    BY <1>0, <2>1, <2>2, <2>3
    DEF LoopInv, TypeOK, HeldByPub, StrandPc, OneDestroyer, Agents
  <2>7. LeaveVisitsAll' /\ SubscribeMarked'
    BY <1>0, <2>1, <2>3, AgentsAssumption
    DEF LoopInv, TypeOK, LeaveVisitsAll, SubscribeMarked, Busy, Agents,
        Subject
  <2>8. MembershipTracked'
    BY <1>0, <2>1, <2>3, AgentsAssumption
    DEF LoopInv, TypeOK, MembershipTracked, Agents
  <2>9. QED
    BY <1>1, <1>2, <2>4, <2>5, <2>6, <2>7, <2>8 DEF LoopInv
<1>4. CASE refs[held] # {"pub"}
  <2>1. /\ UNCHANGED <<life, op, todo>> /\ pc' = [pc EXCEPT ![Pub] = "fan"]
        /\ held' = None /\ refs' = [refs EXCEPT ![held] = @ \ {"pub"}]
    BY <1>0, <1>4 DEF Release
  <2>2. HeldByPub' /\ ~ Busy(Pub)
    BY <1>0, <2>1 DEF LoopInv, TypeOK, HeldByPub, Busy, Agents
  <2>3. QED
    BY <1>0, <1>1, <1>2, <1>4, <2>1, <2>2, PubMoves DEF LoopInv, TypeOK
<1>5. QED  BY <1>3, <1>4

LEMMA SubscriberPopsInv ==
    ASSUME LoopInv, SubscriberPops PROVE LoopInv'
<1> USE DEF SubscriberPops, sessionVars, registryVars, loopVars, pubVars
<1>1. cmd \in Ring!RingType(Commands) /\ Ring!Front(cmd) \in Commands \cup {None}
  BY RingOps DEF LoopInv, TypeOK
<1>2. Ring!Front(cmd) # None => Ring!Front(cmd)[2] \in Names
  BY <1>1 DEF Commands
<1>3. TypeOK'
  BY <1>1, <1>2, RingOps DEF LoopInv, TypeOK
<1>4. QED  BY <1>3, SameRegistry

-----------------------------------------------------------------------------
(* The theorems.                                                           *)

\* Every step of every agent keeps the invariant.
LEMMA NextInv == LoopInv /\ [Next]_vars => LoopInv'
<1> SUFFICES ASSUME LoopInv, [Next]_vars PROVE LoopInv'  OBVIOUS
<1>1. CASE UNCHANGED vars
  <2>1. TypeOK'  BY <1>1 DEF vars, LoopInv, TypeOK
  <2>2. QED  BY <1>1, <2>1, SameRegistry DEF vars
<1>2. ASSUME NEW s \in Sessions, OnAcceptError(s) PROVE LoopInv'
  <2>1. pc[s] = "idle"
    BY <1>2, AgentsAssumption
    DEF OnAcceptError, LoopInv, StrandPc, LoopSubject, Busy, Subject, Agents
  <2>2. QED  BY <1>2, <2>1, StrandRelease DEF OnAcceptError
<1>3. ASSUME NEW s \in Sessions, OnReadError(s) PROVE LoopInv'
  BY <1>3, StrandRelease DEF OnReadError
<1>4. ASSUME NEW s \in Sessions, StrandStep(s) PROVE LoopInv'
  BY <1>4, StrandRelease, LoopStepInv DEF StrandStep, SendChainEnds, Agents
<1>5. CASE PubStep
  BY <1>5, PubSnapshotInv, PubSendInv, PubDropInv, PubDoneInv, PubLockInv,
     LoopStepInv DEF PubStep, Agents
<1>6. QED
  BY <1>1, <1>2, <1>3, <1>4, <1>5, ConnectInv, OnAcceptInv, OnReadInv,
     PubPopInv, SubscriberPopsInv DEF Next

LEMMA LoopInvariance == Spec => []LoopInv
  BY InitInv, NextInv, PTL DEF Spec

\* A session registered with a symbol is alive.
LEMMA MembersAlive ==
    ASSUME LoopInv, KnownAlive, NEW t \in Topics, NEW s \in members[t]
    PROVE  Alive(s)
<1>1. s \in Sessions  BY DEF LoopInv, TypeOK
<1>2. CASE t \in topics[s]  BY <1>1, <1>2 DEF KnownAlive
<1>3. CASE t \notin topics[s]
  BY <1>1, <1>3
  DEF LoopInv, MembershipTracked, LoopSubject, Busy, Agents, Alive
<1>4. QED  BY <1>2, <1>3

\* The pointers the server keeps stay good from step to step.
LEMMA KnownAliveInv ==
    ASSUME LoopInv, KnownAlive, Next PROVE KnownAlive'
<1> USE DEF KnownAlive, Alive, sessionVars, registryVars, loopVars, pubVars,
            queueVars
<1>1. ASSUME NEW s \in Sessions, Connect(s) \/ OnAccept(s) PROVE KnownAlive'
  BY <1>1 DEF Connect, OnAccept, LoopInv, TypeOK
<1>2. ASSUME NEW a \in Agents, NEW s \in Sessions, NEW r, NEW next,
             Release(a, s, r, next), life[s] \in {"accepting", "open"},
             UNCHANGED <<topics, active, weak>>, held' \in {held, None}
      PROVE  KnownAlive'
  BY <1>2 DEF Release, LoopInv, TypeOK
<1>3. ASSUME NEW a \in Agents, LoopStep(a) PROVE KnownAlive'
  <2>1. CASE VisitTopic(a)
    BY <2>1, SoleWorker, AgentsAssumption
    DEF VisitTopic, LoopInv, TypeOK, LoopSubject, Busy, Subject
  <2>2. CASE LeaveReturns(a)
    <3>1. /\ Busy(a) /\ Subject(a) \in Sessions /\ topics[Subject(a)] = {}
          /\ \A b \in Agents : Busy(b) /\ Subject(b) = Subject(a) => b = a
      BY <2>2, SoleWorker
      DEF LeaveReturns, LoopInv, TypeOK, LeaveVisitsAll, Busy
    <3>2. a # Pub => held # a
      BY <2>2, <3>1, AgentsAssumption
      DEF LeaveReturns, LoopInv, TypeOK, HeldByPub, LifeMatchesRefs,
          LoopSubject, Busy, Subject, Agents
    <3>3. QED
      BY <2>2, <3>1, <3>2 DEF LeaveReturns, LoopInv, TypeOK, Subject, Agents
  <2>3. QED
    BY <1>3, <2>1, <2>2
    DEF LoopStep, UnlistedTopic, SubscribeFirst, SubscribeMore,
        UnsubscribeLast, UnsubscribeOther, FinishPush, HandlerReturns
<1>4. ASSUME NEW s \in Sessions, NEW o \in {"sub", "unsub"},
             NEW ns \in SUBSET Names, OnRead(s, o, ns)
      PROVE  KnownAlive'
  BY <1>4 DEF OnRead
<1>5. ASSUME NEW s \in Sessions,
             OnAcceptError(s) \/ OnReadError(s) \/ SendChainEnds(s)
      PROVE  KnownAlive'
  BY <1>2, <1>5 DEF OnAcceptError, OnReadError, SendChainEnds, Agents
<1>6. CASE PubSnapshot
  <2>1. \A s \in weak' : Alive(s)
    BY <1>6, MembersAlive DEF PubSnapshot, LoopInv, AtTopic, Agents
  <2>2. QED  BY <1>6, <2>1 DEF PubSnapshot
<1>7. ASSUME NEW s \in Sessions, PubLock(s) PROVE KnownAlive'
  BY <1>7 DEF PubLock, LoopInv, TypeOK, LifeMatchesRefs
<1>8. CASE PubDrop
  BY <1>2, <1>8
  DEF PubDrop, LoopInv, HeldByPub, LifeMatchesRefs, Agents
<1>9. CASE PubSend \/ PubDone \/ SubscriberPops \/ \E t \in Topics : PubPop(t)
  BY <1>9 DEF PubSend, PubDone, SubscriberPops, PubPop
<1>10. QED
  BY <1>1, <1>3, <1>4, <1>5, <1>6, <1>7, <1>8, <1>9
  DEF Next, StrandStep, PubStep, Agents

\* RegistryInv is inductive.
THEOREM Invariance == Spec => []RegistryInv
<1>1. Init => KnownAlive  BY DEF Init, KnownAlive
<1>2. LoopInv /\ KnownAlive /\ [Next]_vars => KnownAlive'
  BY KnownAliveInv DEF vars, KnownAlive, Alive
<1>3. QED  BY <1>1, <1>2, LoopInvariance, PTL DEF Spec, RegistryInv

\* Every variable keeps its type.
THEOREM TypeCorrect == Spec => []TypeOK
<1>1. LoopInv => TypeOK  BY DEF LoopInv
<1>2. QED  BY <1>1, LoopInvariance, PTL

\* No set of the server ever holds a pointer to a session whose destructor has
\* finished, whatever sessions, topics and names there are.
THEOREM NoDangling == Spec => []NoDanglingSession
<1>1. RegistryInv => NoDanglingSession
  BY MembersAlive DEF RegistryInv, NoDanglingSession, KnownAlive
<1>2. QED  BY <1>1, Invariance, PTL

\* The push to spsc_queue_subscriber_ is exclusive per topic.
THEOREM OneProducer == Spec => []OneProducerPerTopic
<1>1. LoopInv => OneProducerPerTopic
  BY DEF LoopInv, AtTopic, OneProducerPerTopic
<1>2. QED  BY <1>1, LoopInvariance, PTL

-----------------------------------------------------------------------------
(* How sessions end.                                                       *)

\* A session that is being destroyed goes on to be freed, and no further.
LEMMA LifeGoesOn ==
    ASSUME LoopInv, Next, NEW s \in Sessions, life[s] \in {"dying", "freed"}
    PROVE  /\ life'[s] \in {"dying", "freed"}
           /\ life[s] = "freed" => life'[s] = "freed"
<1> USE DEF sessionVars, registryVars, loopVars, pubVars, queueVars
<1>1. ASSUME NEW a, NEW x \in Sessions, NEW r, NEW next,
             Release(a, x, r, next), life[x] \in {"accepting", "open"}
      PROVE  life'[s] = life[s]
  BY <1>1 DEF Release, LoopInv, TypeOK
<1>2. ASSUME NEW x \in Sessions, Connect(x) \/ OnAccept(x)
      PROVE  life'[s] = life[s]
  BY <1>2 DEF Connect, OnAccept, LoopInv, TypeOK
<1>3. ASSUME NEW x \in Sessions,
             OnAcceptError(x) \/ OnReadError(x) \/ SendChainEnds(x)
      PROVE  life'[s] = life[s]
  BY <1>1, <1>3 DEF OnAcceptError, OnReadError, SendChainEnds
<1>4. CASE PubDrop
  BY <1>1, <1>4 DEF PubDrop, LoopInv, HeldByPub, LifeMatchesRefs
<1>5. ASSUME NEW a \in Agents, LeaveReturns(a)
      PROVE  /\ life'[s] \in {"dying", "freed"}
             /\ life[s] = "freed" => life'[s] = "freed"
  BY <1>5 DEF LeaveReturns, LoopInv, TypeOK
<1>6. ASSUME NEW a \in Agents, LoopStep(a), ~ LeaveReturns(a)
      PROVE  life'[s] = life[s]
  BY <1>6
  DEF LoopStep, VisitTopic, UnlistedTopic, SubscribeFirst, SubscribeMore,
      UnsubscribeLast, UnsubscribeOther, FinishPush, HandlerReturns
<1>7. ASSUME \/ PubSnapshot \/ PubSend \/ PubDone \/ SubscriberPops
             \/ \E t \in Topics : PubPop(t)
             \/ \E x \in Sessions : PubLock(x)
             \/ \E x \in Sessions, o \in {"sub", "unsub"}, ns \in SUBSET Names :
                   OnRead(x, o, ns)
      PROVE  life'[s] = life[s]
  BY <1>7 DEF PubSnapshot, PubSend, PubDone, SubscriberPops, PubPop, PubLock,
              OnRead
<1>8. QED
  BY <1>2, <1>3, <1>4, <1>5, <1>6, <1>7 DEF Next, StrandStep, PubStep, Agents

\* wp.lock() finds no session whose last strong pointer was dropped: nothing
\* refers to a session again once its destructor has begun.
THEOREM GoneForGood == Spec => NoResurrection
<1> DEFINE Step == \A s \in Sessions :
                      /\ life[s] \in {"dying", "freed"} => refs'[s] = {}
                      /\ life[s] = "freed" => life'[s] = "freed"
<1>1. LoopInv /\ LoopInv' /\ [Next]_vars => [Step]_vars
  <2> SUFFICES ASSUME LoopInv, LoopInv', Next,
                      NEW s \in Sessions, life[s] \in {"dying", "freed"}
               PROVE  refs'[s] = {} /\ (life[s] = "freed" => life'[s] = "freed")
    OBVIOUS
  <2>1. /\ life'[s] \in {"dying", "freed"}
        /\ life[s] = "freed" => life'[s] = "freed"
    BY LifeGoesOn
  <2>2. refs'[s] = {}
    BY <2>1 DEF LoopInv, LifeMatchesRefs
  <2>3. QED  BY <2>1, <2>2
<1>2. QED  BY <1>1, LoopInvariance, PTL DEF Spec, NoResurrection

-----------------------------------------------------------------------------
(* The two records of a subscription.                                      *)

\* A strand between the two mutexes, or between the halves of its push.
Between(s) == pc[s] \in {"marked", "store"}

\* A topic of an open session is one the session is registered with, or the
\* one it is about to join.
Registered ==
    \A s \in Sessions : life[s] = "open" =>
        \A t \in topics[s] :
            \/ t \in Topics /\ s \in members[t]
            \/ Between(s) /\ op[s] = "sub" /\ cur[s] = t

\* A topic that is about to be left is no longer the session's.
Unmarked ==
    \A s \in Sessions :
        Between(s) /\ op[s] # "sub" => cur[s] \notin topics[s]

ViewsInv == Registered /\ Unmarked

\* Steps that leave the loops and the registrations alone, but for the life of
\* a session that has no topics yet or is destroyed, keep the two records.
LEMMA SameViews ==
    ASSUME LoopInv, KnownAlive, ViewsInv,
           UNCHANGED <<topics, members, cur>>,
           \A s \in Sessions :
              /\ life'[s] = "open" => life[s] \in {"open", "accepting"}
              /\ Between(s)' <=> Between(s)
              /\ Between(s) => op'[s] = op[s]
    PROVE  ViewsInv'
<1>1. Registered'
  <2> SUFFICES ASSUME NEW s \in Sessions, life'[s] = "open", NEW t \in topics[s]
               PROVE  \/ t \in Topics /\ s \in members[t]
                      \/ Between(s) /\ op[s] = "sub" /\ cur[s] = t
    BY DEF Registered
  <2>1. life[s] = "open"
    BY DEF KnownAlive, Alive
  <2>2. QED  BY <2>1 DEF ViewsInv, Registered
<1>2. Unmarked'
  BY DEF ViewsInv, Unmarked
<1>3. QED  BY <1>1, <1>2 DEF ViewsInv

\* The loop marks a topic in the session's own set, or takes the mark away.
LEMMA VisitTopicViews ==
    ASSUME LoopInv, ViewsInv, NEW a \in Agents, VisitTopic(a)
    PROVE  ViewsInv'
<1> USE DEF VisitTopic, registryVars, pubVars
<1>1. Busy(a) /\ Subject(a) \in Sessions  BY SoleWorker DEF Busy
<1>2. CASE a = Pub
  <2>1. life[held] = "dying" /\ op[Pub] = "leave"
    BY <1>1, <1>2 DEF LoopInv, LoopSubject, Subject
  <2>2. /\ \A s \in Sessions : Between(s)' <=> Between(s)
        /\ \A s \in Sessions : cur'[s] = cur[s]
        /\ \A s \in Sessions : topics'[s] \subseteq topics[s]
        /\ \A s \in Sessions : s # held => topics'[s] = topics[s]
    BY <1>1, <1>2, <2>1, AgentsAssumption
    DEF LoopInv, TypeOK, Between, Subject, Agents
  <2>3. QED
    BY <2>1, <2>2 DEF ViewsInv, Registered, Unmarked
<1>3. CASE a \in Sessions
  <2>1. Subject(a) = a  BY <1>3, AgentsAssumption DEF Subject
  <2>2. PICK t \in todo[a] :
           /\ cur' = [cur EXCEPT ![a] = t]
           /\ topics' = [topics EXCEPT ![a] =
                            IF op[a] = "sub" THEN @ \cup {t} ELSE @ \ {t}]
    BY <2>1
  <2>3. ~ Between(a) /\ Between(a)'
    BY <1>3 DEF LoopInv, TypeOK, Between, Agents
  <2>4. \A s \in Sessions : s # a => /\ Between(s)' <=> Between(s)
                                     /\ cur'[s] = cur[s] /\ topics'[s] = topics[s]
    BY <2>2 DEF LoopInv, TypeOK, Between, Agents
  <2>5. cur'[a] = t
    BY <1>3, <2>2 DEF LoopInv, TypeOK, Agents
  <2>6. topics'[a] = IF op[a] = "sub" THEN topics[a] \cup {t} ELSE topics[a] \ {t}
    BY <1>3, <2>2 DEF LoopInv, TypeOK
  <2>7. Registered'
    BY <1>3, <2>3, <2>4, <2>5, <2>6 DEF ViewsInv, Registered
  <2>8. Unmarked'
    BY <1>3, <2>3, <2>4, <2>5, <2>6 DEF ViewsInv, Unmarked
  <2>9. QED  BY <2>7, <2>8 DEF ViewsInv
<1>4. QED  BY <1>2, <1>3 DEF Agents

\* At the topic's mutex the session joins what it has marked and leaves what
\* it has not; nobody else's records are touched.
LEMMA RoundViews ==
    ASSUME LoopInv, ViewsInv, NEW a \in Agents,
           pc[a] \in {"marked", "store"}, cur[a] \in Topics,
           UNCHANGED <<life, topics, op>>,
           \/ /\ pc' = [pc EXCEPT ![a] = "next"]
              /\ cur' = [cur EXCEPT ![a] = None]
              /\ \/ op[a] = "sub" /\ members' = Joined(a)
                 \/ op[a] # "sub" /\ members' = Left(a)
                 \/ op[a] # "sub" /\ members' = members
           \/ /\ pc' = [pc EXCEPT ![a] = "store"] /\ cur' = cur
              /\ \/ op[a] = "sub" /\ members' = members
                 \/ op[a] # "sub" /\ members' = Left(a)
    PROVE  ViewsInv'
<1>1. Busy(a) /\ Subject(a) \in Sessions  BY SoleWorker DEF Busy
<1>2. \A s \in Sessions : life[s] = "open" /\ Subject(a) = s => a = s
  BY <1>1 DEF LoopInv, LoopSubject, Subject, Agents
<1>3. \A s \in Sessions : s # a => (Between(s)' <=> Between(s)) /\ cur'[s] = cur[s]
  BY DEF LoopInv, TypeOK, Between, Agents
<1>4. \A s \in Sessions, t \in Topics :
         s \in members[t] /\ s \notin members'[t] =>
            s = Subject(a) /\ t = cur[a] /\ op[a] # "sub"
  BY DEF LoopInv, TypeOK, Joined, Left
<1>5. Registered'
  <2> SUFFICES ASSUME NEW s \in Sessions, life[s] = "open", NEW t \in topics[s]
               PROVE  \/ t \in Topics /\ s \in members'[t]
                      \/ Between(s)' /\ op[s] = "sub" /\ cur'[s] = t
    BY DEF Registered
  <2>1. CASE t \in Topics /\ s \in members[t]
    <3>1. CASE s \in members'[t]  BY <2>1, <3>1
    <3>2. CASE s \notin members'[t]
      <4>1. a = s /\ t = cur[a] /\ op[a] # "sub"
        BY <1>2, <1>4, <2>1, <3>2
      <4>2. QED  BY <4>1 DEF ViewsInv, Unmarked, Between
    <3>3. QED  BY <3>1, <3>2
  <2>2. CASE Between(s) /\ op[s] = "sub" /\ cur[s] = t
    <3>1. CASE s # a  BY <1>3, <2>2, <3>1
    <3>2. CASE s = a
      <4>1. Subject(a) = a  BY <3>2, AgentsAssumption DEF Subject
      <4>2. CASE members' = Joined(a)
        <5>1. t \in Topics /\ s \in members'[t]
          BY <2>2, <3>2, <4>1, <4>2 DEF LoopInv, TypeOK, Joined
        <5>2. QED  BY <5>1
      <4>3. CASE pc' = [pc EXCEPT ![a] = "store"] /\ cur' = cur
        BY <2>2, <3>2, <4>3 DEF LoopInv, TypeOK, Between, Agents
      <4>4. QED  BY <2>2, <3>2, <4>2, <4>3
    <3>3. QED  BY <3>1, <3>2
  <2>3. QED  BY <2>1, <2>2 DEF ViewsInv, Registered
<1>6. Unmarked'
  <2> SUFFICES ASSUME NEW s \in Sessions, Between(s)', op[s] # "sub"
               PROVE  cur'[s] \notin topics[s]
    BY DEF Unmarked
  <2>1. Between(s) /\ cur'[s] = cur[s]
    BY <1>3 DEF LoopInv, TypeOK, Between, Agents
  <2>2. QED  BY <2>1 DEF ViewsInv, Unmarked
<1>7. QED  BY <1>5, <1>6 DEF ViewsInv

LEMMA LoopStepViews ==
    ASSUME LoopInv, KnownAlive, ViewsInv, NEW a \in Agents, LoopStep(a)
    PROVE  ViewsInv'
<1> USE DEF sessionVars, registryVars, loopVars, pubVars, queueVars
<1>1. CASE VisitTopic(a)  BY <1>1, VisitTopicViews
<1>2. CASE SubscribeFirst(a) \/ SubscribeMore(a)
  BY <1>2, RoundViews
  DEF SubscribeFirst, SubscribeMore, BeginPush, RefusePush, EndRound, CanLock
<1>3. CASE UnsubscribeLast(a) \/ UnsubscribeOther(a)
  BY <1>3, RoundViews
  DEF UnsubscribeLast, UnsubscribeOther, BeginPush, RefusePush, EndRound,
      CanLock
<1>4. CASE FinishPush(a)
  <2>1. cur[a] \in Topics  BY <1>4 DEF FinishPush, LoopInv, AtTopic
  <2>2. QED  BY <1>4, <2>1, RoundViews DEF FinishPush, EndRound
<1>5. CASE UnlistedTopic(a)
  BY <1>5, SameViews DEF UnlistedTopic, Between
<1>6. CASE HandlerReturns(a) \/ LeaveReturns(a)
  <2>1. \A s \in Sessions : /\ life'[s] = "open" => life[s] = "open"
                            /\ Between(s)' <=> Between(s)
                            /\ Between(s) => op'[s] = op[s]
    BY <1>6
    DEF HandlerReturns, LeaveReturns, LoopInv, TypeOK, Between, Agents
  <2>2. UNCHANGED <<topics, members, cur>>
    BY <1>6 DEF HandlerReturns, LeaveReturns
  <2>3. QED  BY <2>1, <2>2, SameViews
<1>7. QED
  BY <1>1, <1>2, <1>3, <1>4, <1>5, <1>6 DEF LoopStep

\* Every step keeps the two records of a subscription together.
LEMMA NextViews ==
    ASSUME LoopInv, KnownAlive, ViewsInv, Next PROVE ViewsInv'
<1> USE DEF sessionVars, registryVars, loopVars, pubVars, queueVars
<1>1. ASSUME NEW s \in Sessions, Connect(s) \/ OnAccept(s) PROVE ViewsInv'
  <2>1. \A x \in Sessions : /\ life'[x] = "open" => life[x] \in {"open", "accepting"}
                            /\ Between(x)' <=> Between(x)
                            /\ Between(x) => op'[x] = op[x]
    BY <1>1 DEF Connect, OnAccept, LoopInv, TypeOK, Between
  <2>2. QED  BY <1>1, <2>1, SameViews DEF Connect, OnAccept
<1>2. ASSUME NEW a \in Agents, NEW s \in Sessions, NEW r,
             NEW next \in {"idle", "fan"}, Release(a, s, r, next), ~ Between(a),
             UNCHANGED <<topics, members, cur>>
      PROVE  ViewsInv'
  <2>1. \A x \in Sessions : /\ life'[x] = "open" => life[x] = "open"
                            /\ Between(x)' <=> Between(x)
                            /\ Between(x) => op'[x] = op[x]
    BY <1>2 DEF Release, LoopInv, TypeOK, Between, Agents
  <2>2. QED  BY <1>2, <2>1, SameViews
<1>3. ASSUME NEW s \in Sessions,
             OnAcceptError(s) \/ OnReadError(s) \/ SendChainEnds(s)
      PROVE  ViewsInv'
  <2>1. ~ Between(s)
    BY <1>3, AgentsAssumption
    DEF OnAcceptError, OnReadError, SendChainEnds, Between, LoopInv,
        LoopSubject, Busy, Subject, Agents
  <2>2. s \in Agents  BY DEF Agents
  <2>3. QED
    BY <1>2, <1>3, <2>1, <2>2 DEF OnAcceptError, OnReadError, SendChainEnds
<1>4. CASE PubDrop
  <2>1. held \in Sessions /\ Pub \in Agents /\ ~ Between(Pub)
    BY <1>4 DEF PubDrop, LoopInv, HeldByPub, Between, Agents
  <2>2. QED  BY <1>2, <1>4, <2>1 DEF PubDrop
<1>5. ASSUME NEW s \in Sessions, NEW o \in {"sub", "unsub"},
             NEW ns \in SUBSET Names, OnRead(s, o, ns)
      PROVE  ViewsInv'
  <2>1. \A x \in Sessions : /\ Between(x)' <=> Between(x)
                            /\ Between(x) => op'[x] = op[x]
    BY <1>5 DEF OnRead, LoopInv, TypeOK, Between, Agents
  <2>2. QED  BY <1>5, <2>1, SameViews DEF OnRead
<1>6. CASE \/ PubSnapshot \/ PubSend \/ PubDone \/ SubscriberPops
           \/ \E t \in Topics : PubPop(t)
           \/ \E s \in Sessions : PubLock(s)
  <2>1. /\ UNCHANGED <<life, topics, members, op>>
        /\ \A s \in Sessions : pc'[s] = pc[s] /\ cur'[s] = cur[s]
    BY <1>6, AgentsAssumption
    DEF PubSnapshot, PubSend, PubDone, SubscriberPops, PubPop, PubLock,
        LoopInv, TypeOK, Agents
  <2>2. QED  BY <2>1 DEF ViewsInv, Registered, Unmarked, Between
<1>7. QED
  BY <1>1, <1>3, <1>4, <1>5, <1>6, LoopStepViews
  DEF Next, StrandStep, PubStep, Agents

\* Between two messages a session's own topics are exactly those it is
\* registered with, however other sessions and the publisher interleave.
THEOREM TwoViews == Spec => []ViewsAgree
<1>1. Init => ViewsInv
  BY DEF Init, ViewsInv, Registered, Unmarked, Between, Agents
<1>2. LoopInv /\ KnownAlive /\ ViewsInv /\ [Next]_vars => ViewsInv'
  <2>1. ViewsInv /\ UNCHANGED vars => ViewsInv'
    BY DEF vars, ViewsInv, Registered, Unmarked, Between
  <2>2. QED  BY <2>1, NextViews
<1>3. LoopInv /\ ViewsInv => ViewsAgree
  <2> SUFFICES ASSUME LoopInv, ViewsInv, NEW s \in Sessions,
                      life[s] = "open", pc[s] = "idle"
               PROVE  topics[s] = {t \in Topics : s \in members[t]}
    BY DEF ViewsAgree
  <2>1. topics[s] \subseteq {t \in Topics : s \in members[t]}
    BY DEF ViewsInv, Registered, Between
  <2>2. ASSUME NEW t \in Topics, s \in members[t] PROVE t \in topics[s]
    BY <2>2, AgentsAssumption
    DEF LoopInv, MembershipTracked, LoopSubject, Busy, Subject, Agents
  <2>3. QED  BY <2>1, <2>2
<1>4. QED  BY <1>1, <1>2, <1>3, Invariance, PTL DEF Spec, RegistryInv

-----------------------------------------------------------------------------
(* The command ring as a sequence.                                         *)

\* Counting around the ring, at most once past its end.
Wrapped(n) == IF n <= CmdCapacity THEN n ELSE n - (CmdCapacity + 1)

LEMMA Wraps ==
    ASSUME NEW n \in 0 .. (2 * CmdCapacity + 1)
    PROVE  n % (CmdCapacity + 1) = Wrapped(n)
  BY BoundsAssumption DEF Wrapped

\* The next index.
LEMMA FollowingIs ==
    ASSUME NEW i \in Ring!Slots
    PROVE  Ring!Following(i) = IF i = CmdCapacity THEN 0 ELSE i + 1
<1> DEFINE n == i + 1
<1>1. n \in 0 .. (2 * CmdCapacity + 1)  BY BoundsAssumption DEF Ring!Slots
<1>2. n % (CmdCapacity + 1) = Wrapped(n)
  <2> HIDE DEF n
  <2>1. QED  BY <1>1, Wraps
<1>3. QED  BY <1>2, BoundsAssumption DEF Ring!Following, Ring!Slots, Wrapped

\* The slot of the i-th element from the oldest.
At(q, i) == Wrapped(q.read + i - 1)

\* What a ring holds, without the modulus.
LEMMA RingShape ==
    ASSUME NEW q \in Ring!RingType(Commands)
    PROVE  /\ Ring!Length(q) = IF q.write >= q.read
                               THEN q.write - q.read
                               ELSE q.write + CmdCapacity + 1 - q.read
           /\ Ring!Length(q) \in 0 .. CmdCapacity
           /\ DOMAIN Ring!Contents(q) = 1 .. Ring!Length(q)
           /\ \A i \in 1 .. Ring!Length(q) : Ring!Contents(q)[i] = q.buf[At(q, i)]
<1>1. /\ q.write \in 0 .. CmdCapacity /\ q.read \in 0 .. CmdCapacity
      /\ CmdCapacity \in Nat
  BY BoundsAssumption DEF Ring!RingType, Ring!Slots
<1>2. Ring!Length(q) = IF q.write >= q.read THEN q.write - q.read
                       ELSE q.write + CmdCapacity + 1 - q.read
  <2> DEFINE n == q.write + CmdCapacity + 1 - q.read
  <2>1. n \in 0 .. (2 * CmdCapacity + 1)  BY <1>1
  <2>2. n % (CmdCapacity + 1) = Wrapped(n)
    <3> HIDE DEF n
    <3>1. QED  BY <2>1, Wraps
  <2>3. QED  BY <1>1, <2>2 DEF Ring!Length, Wrapped
<1>3. Ring!Length(q) \in 0 .. CmdCapacity
  BY <1>1, <1>2
<1>4. DOMAIN Ring!Contents(q) = 1 .. Ring!Length(q)
  BY DEF Ring!Contents
<1>5. ASSUME NEW i \in 1 .. Ring!Length(q)
      PROVE  Ring!Contents(q)[i] = q.buf[At(q, i)]
  <2> DEFINE n == q.read + i - 1
  <2>1. n \in 0 .. (2 * CmdCapacity + 1)  BY <1>1, <1>3
  <2>2. Ring!Contents(q)[i] = q.buf[n % (CmdCapacity + 1)]
    BY DEF Ring!Contents
  <2>3. n % (CmdCapacity + 1) = Wrapped(n)
    <3> HIDE DEF n
    <3>1. QED  BY <2>1, Wraps
  <2>4. QED  BY <2>2, <2>3 DEF At
<1>6. QED  BY <1>2, <1>3, <1>4, <1>5

\* A store with room appends to what the ring holds.
LEMMA StoredAppends ==
    ASSUME NEW q \in Ring!RingType(Commands), NEW v \in Commands, Ring!HasRoom(q)
    PROVE  LET p == Ring!Stored(q, q.write, v)
           IN  /\ Ring!Length(p) = Ring!Length(q) + 1
               /\ \A i \in 1 .. Ring!Length(q) :
                     Ring!Contents(p)[i] = Ring!Contents(q)[i]
               /\ Ring!Contents(p)[Ring!Length(p)] = v
<1> DEFINE p == Ring!Stored(q, q.write, v)
<1>1. /\ q.write \in 0 .. CmdCapacity /\ q.read \in 0 .. CmdCapacity
      /\ CmdCapacity \in Nat \ {0} /\ q.buf \in [0 .. CmdCapacity -> Commands \cup {None}]
  BY BoundsAssumption DEF Ring!RingType, Ring!Slots
<1>2. /\ p \in Ring!RingType(Commands)
      /\ p.read = q.read
      /\ p.write = IF q.write = CmdCapacity THEN 0 ELSE q.write + 1
      /\ p.write # q.read
      /\ p.buf = [q.buf EXCEPT ![q.write] = v]
  <2>1. p \in Ring!RingType(Commands)
    BY <1>1, RingOps DEF Ring!Slots
  <2>2. /\ p.read = q.read /\ p.write = Ring!Following(q.write)
        /\ p.buf = [q.buf EXCEPT ![q.write] = v]
    BY DEF Ring!Stored, Ring!RingType
  <2>3. QED  BY <1>1, <2>1, <2>2, FollowingIs DEF Ring!Slots, Ring!HasRoom
<1> HIDE DEF p
<1>3. Ring!Length(p) = Ring!Length(q) + 1
  <2>1. /\ Ring!Length(q) = IF q.write >= q.read THEN q.write - q.read
                            ELSE q.write + CmdCapacity + 1 - q.read
        /\ Ring!Length(p) = IF p.write >= p.read THEN p.write - p.read
                            ELSE p.write + CmdCapacity + 1 - p.read
    BY <1>2, RingShape
  <2>2. QED  BY <1>1, <1>2, <2>1
<1>4. ASSUME NEW i \in 1 .. Ring!Length(q)
      PROVE  Ring!Contents(p)[i] = Ring!Contents(q)[i]
  <2>0. /\ Ring!Length(q) = IF q.write >= q.read THEN q.write - q.read
                            ELSE q.write + CmdCapacity + 1 - q.read
        /\ Ring!Length(q) \in 0 .. CmdCapacity
    BY RingShape
  <2>1. At(p, i) = At(q, i) /\ At(q, i) # q.write /\ At(q, i) \in 0 .. CmdCapacity
    <3>1. At(p, i) = At(q, i)  BY <1>2 DEF At
    <3>2. At(q, i) # q.write /\ At(q, i) \in 0 .. CmdCapacity
      BY <1>1, <2>0 DEF At, Wrapped
    <3>3. QED  BY <3>1, <3>2
  <2>2. i \in 1 .. Ring!Length(p)  BY <1>3, RingShape
  <2>3. QED  BY <1>1, <1>2, <2>1, <2>2, RingShape
<1>5. Ring!Contents(p)[Ring!Length(p)] = v
  <2>0. Ring!Length(p) = IF p.write >= p.read THEN p.write - p.read
                         ELSE p.write + CmdCapacity + 1 - p.read
    BY <1>2, RingShape
  <2>1. At(p, Ring!Length(p)) = q.write
    <3>1. /\ p.read = q.read /\ p.write # q.read
          /\ p.write = IF q.write = CmdCapacity THEN 0 ELSE q.write + 1
      BY <1>2
    <3>2. /\ q.write \in 0 .. CmdCapacity /\ q.read \in 0 .. CmdCapacity
          /\ CmdCapacity \in Nat \ {0}
      BY <1>1
    <3> DEFINE n == Ring!Length(p)
    <3>3. n = IF p.write >= p.read THEN p.write - p.read
              ELSE p.write + CmdCapacity + 1 - p.read
      BY <2>0
    <3> HIDE DEF n
    <3>4. Wrapped(p.read + n - 1) = q.write
      BY <3>1, <3>2, <3>3 DEF Wrapped
    <3>5. QED  BY <3>4 DEF At, n
  <2>2. Ring!Length(p) \in 1 .. Ring!Length(p)
    BY <1>3, RingShape
  <2>3. QED  BY <1>1, <1>2, <2>1, <2>2, RingShape
<1>6. QED  BY <1>3, <1>4, <1>5 DEF p

\* A pop takes the oldest element off.
LEMMA PoppedIsTail ==
    ASSUME NEW q \in Ring!RingType(Commands), ~ Ring!IsEmpty(q)
    PROVE  LET p == Ring!Popped(q)
           IN  /\ Ring!Length(q) = Ring!Length(p) + 1
               /\ \A i \in 1 .. Ring!Length(p) :
                     Ring!Contents(p)[i] = Ring!Contents(q)[i + 1]
               /\ Ring!Contents(q)[1] = Ring!Front(q)
<1> DEFINE p == Ring!Popped(q)
<1>1. /\ q.write \in 0 .. CmdCapacity /\ q.read \in 0 .. CmdCapacity
      /\ CmdCapacity \in Nat \ {0} /\ q.write # q.read
  BY BoundsAssumption DEF Ring!RingType, Ring!Slots, Ring!IsEmpty
<1>2. /\ p \in Ring!RingType(Commands)
      /\ p.write = q.write /\ p.buf = q.buf
      /\ p.read = IF q.read = CmdCapacity THEN 0 ELSE q.read + 1
  <2>1. p.write = q.write /\ p.buf = q.buf /\ p.read = Ring!Following(q.read)
    BY DEF Ring!Popped, Ring!RingType
  <2>2. QED  BY <1>1, <2>1, RingOps, FollowingIs DEF Ring!Slots
<1> HIDE DEF p
<1>3. Ring!Length(q) = Ring!Length(p) + 1
  BY <1>1, <1>2, RingShape
<1>4. ASSUME NEW i \in 1 .. Ring!Length(p)
      PROVE  Ring!Contents(p)[i] = Ring!Contents(q)[i + 1]
  <2>1. At(p, i) = At(q, i + 1)
    BY <1>1, <1>2, RingShape DEF At, Wrapped
  <2>2. i + 1 \in 1 .. Ring!Length(q)
    <3>1. Ring!Length(p) \in Nat  BY <1>2, RingShape
    <3>2. QED  BY <1>3, <3>1
  <2>3. QED  BY <1>2, <2>1, <2>2, RingShape
<1>5. Ring!Contents(q)[1] = Ring!Front(q)
  <2>1. At(q, 1) = q.read  BY <1>1 DEF At, Wrapped
  <2>2. 1 \in 1 .. Ring!Length(q)  BY <1>2, <1>3, RingShape
  <2>3. QED  BY <2>1, <2>2, RingShape DEF Ring!Front
<1>6. QED  BY <1>3, <1>4, <1>5 DEF p

\* The read index moves away from the write index: a pop never takes away the
\* room a producer has seen.
LEMMA PopKeepsRoom ==
    ASSUME NEW q \in Ring!RingType(Commands), ~ Ring!IsEmpty(q), Ring!HasRoom(q)
    PROVE  Ring!HasRoom(Ring!Popped(q)) /\ Ring!Popped(q).write = q.write
<1>1. q.write \in Ring!Slots /\ q.read \in Ring!Slots
  BY DEF Ring!RingType
<1>2. Ring!Popped(q).write = q.write /\ Ring!Popped(q).read = Ring!Following(q.read)
  BY DEF Ring!Popped, Ring!RingType
<1>3. Ring!Following(q.write) # Ring!Following(q.read)
  BY <1>1, FollowingIs, BoundsAssumption DEF Ring!IsEmpty, Ring!Slots
<1>4. QED  BY <1>2, <1>3 DEF Ring!HasRoom

\* The latest command about t in q, over a set S of topics subscribed to.
Latest(q, S, t) ==
    LET about == {i \in DOMAIN Ring!Contents(q) : Ring!Contents(q)[i][2] = t}
    IN  IF about = {} THEN t \in S
        ELSE \E i \in about : /\ \A j \in about : j <= i
                              /\ Ring!Contents(q)[i][1] = "sub"

\* A push changes what its own topic has been commanded last, and no other's.
LEMMA LatestStored ==
    ASSUME NEW q \in Ring!RingType(Commands), NEW v \in Commands,
           Ring!HasRoom(q), NEW S, NEW t
    PROVE  Latest(Ring!Stored(q, q.write, v), S, t)
              <=> IF v[2] = t THEN v[1] = "sub" ELSE Latest(q, S, t)
<1> DEFINE p == Ring!Stored(q, q.write, v)
           n == Ring!Length(q)
           c == Ring!Contents(q)
           d == Ring!Contents(p)
           A == {i \in DOMAIN c : c[i][2] = t}
           B == {i \in DOMAIN d : d[i][2] = t}
<1>1. /\ n \in Nat
      /\ DOMAIN c = 1 .. n /\ DOMAIN d = 1 .. (n + 1)
      /\ \A i \in 1 .. n : d[i] = c[i]
      /\ d[n + 1] = v
  <2>1. p \in Ring!RingType(Commands)
    BY RingOps DEF Ring!RingType
  <2>2. n \in Nat /\ DOMAIN c = 1 .. n /\ DOMAIN d = 1 .. Ring!Length(p)
    BY <2>1, RingShape
  <2>3. /\ Ring!Length(p) = n + 1
        /\ \A i \in 1 .. n : d[i] = c[i]
        /\ d[Ring!Length(p)] = v
    BY StoredAppends
  <2>4. QED  BY <2>2, <2>3
<1>2. Latest(q, S, t) <=> IF A = {} THEN t \in S
                          ELSE \E i \in A : (\A j \in A : j <= i) /\ c[i][1] = "sub"
  BY DEF Latest
<1>3. Latest(p, S, t) <=> IF B = {} THEN t \in S
                          ELSE \E i \in B : (\A j \in B : j <= i) /\ d[i][1] = "sub"
  BY DEF Latest
<1> HIDE DEF p, n, c, d
<1>4. CASE v[2] = t
  <2>1. n + 1 \in B /\ \A j \in B : j <= n + 1
    BY <1>1, <1>4
  <2>2. \A i \in B : (\A j \in B : j <= i) => i = n + 1
    BY <1>1, <2>1
  <2>3. QED  BY <1>1, <1>3, <1>4, <2>1, <2>2 DEF p
<1>5. CASE v[2] # t
  <2>1. A = B
    BY <1>1, <1>5
  <2>2. \A i \in A : c[i] = d[i]
    BY <1>1
  <2>3. QED  BY <1>2, <1>3, <1>5, <2>1, <2>2 DEF p
<1>6. QED  BY <1>4, <1>5

\* Carrying out the oldest command leaves what has been commanded last.
LEMMA LatestPopped ==
    ASSUME NEW q \in Ring!RingType(Commands), ~ Ring!IsEmpty(q),
           NEW S, NEW t,
           NEW T, T = IF Ring!Front(q)[1] = "sub" THEN S \cup {Ring!Front(q)[2]}
                                                  ELSE S \ {Ring!Front(q)[2]}
    PROVE  Latest(Ring!Popped(q), T, t) <=> Latest(q, S, t)
<1> DEFINE p == Ring!Popped(q)
           n == Ring!Length(p)
           c == Ring!Contents(q)
           d == Ring!Contents(p)
           A == {i \in DOMAIN c : c[i][2] = t}
           B == {i \in DOMAIN d : d[i][2] = t}
<1>1. /\ n \in Nat
      /\ DOMAIN c = 1 .. (n + 1) /\ DOMAIN d = 1 .. n
      /\ \A i \in 1 .. n : d[i] = c[i + 1]
      /\ c[1] = Ring!Front(q)
  <2>1. p \in Ring!RingType(Commands)
    BY RingOps
  <2>2. n \in Nat /\ DOMAIN d = 1 .. n /\ DOMAIN c = 1 .. Ring!Length(q)
    BY <2>1, RingShape
  <2>3. /\ Ring!Length(q) = n + 1
        /\ \A i \in 1 .. n : d[i] = c[i + 1]
        /\ c[1] = Ring!Front(q)
    BY PoppedIsTail
  <2>4. QED  BY <2>2, <2>3
<1>2. Latest(q, S, t) <=> IF A = {} THEN t \in S
                          ELSE \E i \in A : (\A j \in A : j <= i) /\ c[i][1] = "sub"
  BY DEF Latest
<1>3. Latest(p, T, t) <=> IF B = {} THEN t \in T
                          ELSE \E i \in B : (\A j \in B : j <= i) /\ d[i][1] = "sub"
  BY DEF Latest
<1> HIDE DEF p, n, c, d
<1>4. \A i \in 1 .. n : i \in B <=> i + 1 \in A
  BY <1>1
<1>5. CASE B = {}
  <2>1. A \subseteq {1}
    <3> SUFFICES ASSUME NEW i \in A, i # 1 PROVE FALSE
      OBVIOUS
    <3>1. i - 1 \in 1 .. n /\ i = (i - 1) + 1  BY <1>1
    <3>2. QED  BY <1>4, <1>5, <3>1
  <2>2. CASE c[1][2] = t
    <3>1. A = {1}  BY <1>1, <2>1, <2>2
    <3>2. QED  BY <1>1, <1>2, <1>3, <1>5, <2>2, <3>1 DEF p
  <2>3. CASE c[1][2] # t
    <3>1. A = {}  BY <2>1, <2>3
    <3>2. QED  BY <1>1, <1>2, <1>3, <1>5, <2>3, <3>1 DEF p
  <2>4. QED  BY <2>2, <2>3
<1>6. CASE B # {}
  <2>0. /\ A # {} /\ A \subseteq 1 .. (n + 1) /\ B \subseteq 1 .. n
    BY <1>1, <1>4, <1>6
  <2>1. ASSUME NEW i \in B, \A j \in B : j <= i, d[i][1] = "sub"
        PROVE  \E k \in A : (\A j \in A : j <= k) /\ c[k][1] = "sub"
    <3>1. i + 1 \in A /\ c[i + 1][1] = "sub"
      <4>1. i \in 1 .. n  BY <2>0
      <4>2. i + 1 \in A  BY <1>4, <4>1
      <4>3. d[i] = c[i + 1]  BY <1>1, <4>1
      <4>4. QED  BY <2>1, <4>2, <4>3
    <3>2. ASSUME NEW j \in A PROVE j <= i + 1
      <4>1. CASE j = 1  BY <4>1, <2>0
      <4>2. CASE j # 1
        <5>1. j - 1 \in 1 .. n /\ j = (j - 1) + 1  BY <1>1, <2>0, <4>2
        <5>2. j - 1 \in B  BY <1>4, <5>1
        <5>3. QED  BY <2>0, <2>1, <5>1, <5>2
      <4>3. QED  BY <4>1, <4>2
    <3>3. QED  BY <3>1, <3>2
  <2>2. ASSUME NEW k \in A, \A j \in A : j <= k, c[k][1] = "sub"
        PROVE  \E i \in B : (\A j \in B : j <= i) /\ d[i][1] = "sub"
    <3>1. PICK b \in B : TRUE  BY <1>6
    <3>2. b + 1 \in A /\ b + 1 <= k  BY <1>4, <2>0, <2>2, <3>1
    <3>3. k - 1 \in 1 .. n /\ k = (k - 1) + 1  BY <1>1, <2>0, <3>1, <3>2
    <3>4. k - 1 \in B /\ d[k - 1][1] = "sub"
      <4>1. k - 1 \in B  BY <1>4, <3>3
      <4>2. d[k - 1] = c[k]  BY <1>1, <3>3
      <4>3. QED  BY <2>2, <4>1, <4>2
    <3>5. ASSUME NEW j \in B PROVE j <= k - 1
      <4>1. j + 1 \in A  BY <1>4, <2>0
      <4>2. QED  BY <2>0, <2>2, <4>1
    <3>6. QED  BY <3>4, <3>5
  <2>3. QED  BY <1>2, <1>3, <1>6, <2>0, <2>1, <2>2 DEF p
<1>7. QED  BY <1>5, <1>6

-----------------------------------------------------------------------------
(* What the subscriber has been commanded, and who is registered.          *)

\* What boost's single-producer queue asks of the server: one agent at a time
\* between the two halves of a push.
SingleProducer ==
    \A a, b \in Agents : pc[a] = "store" /\ pc[b] = "store" => a = b

\* The queue holds commands only, and the one push under way is about to
\* store at the write index, with room behind it.
QueueClean ==
    \A i \in DOMAIN Ring!Contents(cmd) : Ring!Contents(cmd)[i] \in Commands

StoreReady ==
    \A a \in Agents : pc[a] = "store" => slot[a] = cmd.write /\ Ring!HasRoom(cmd)

\* A symbol's mutex is held over a push of its own topic only.
HolderStores ==
    \A t \in Topics : holder[t] # None =>
        /\ holder[t] \in Agents
        /\ pc[holder[t]] = "store" /\ cur[holder[t]] = t

\* Until the push of a first join or a last leave is done the topic has no
\* session, and has been commanded as it was before.
AtStore ==
    \A a \in Agents : pc[a] = "store" /\ cur[a] \notin rejected =>
        /\ members[cur[a]] = {}
        /\ Commanded(cur[a]) <=> op[a] # "sub"

FeedInv ==
    QueueClean /\ StoreReady /\ HolderStores /\ AtStore /\ FeedFollowsMembers

LEMMA CommandedLatest ==
    /\ \A t : Commanded(t) <=> Latest(cmd, subscribed, t)
    /\ \A t : Commanded(t)' <=> Latest(cmd', subscribed', t)
  BY DEF Commanded, Latest

\* Steps that leave the queue, the registrations and the pushes alone.
Aside ==
    /\ UNCHANGED <<members, holder, cmd, subscribed, rejected>>
    /\ \A b \in Agents :
          /\ pc'[b] = "store" <=> pc[b] = "store"
          /\ pc[b] = "store" => UNCHANGED <<op[b], cur[b], slot[b], Subject(b)>>

\* All steps but those at a symbol's mutex and the subscriber's are such.
LEMMA StepsAside ==
    ASSUME LoopInv, [Next]_vars
    PROVE  \/ Aside
           \/ \E a \in Agents :
                 \/ SubscribeFirst(a) \/ SubscribeMore(a)
                 \/ UnsubscribeLast(a) \/ UnsubscribeOther(a) \/ FinishPush(a)
           \/ SubscriberPops
<1> USE DEF sessionVars, registryVars, loopVars, pubVars, queueVars
<1>1. ASSUME NEW s \in Sessions, Connect(s) \/ OnAccept(s) PROVE Aside
  BY <1>1 DEF Connect, OnAccept, Aside, Subject
<1>2. ASSUME NEW a \in Agents, NEW s, NEW r, NEW next \in {"idle", "fan"},
             Release(a, s, r, next), ~ Busy(a),
             UNCHANGED <<members, holder, cmd, subscribed, rejected, cur, slot>>,
             a # Pub => held' = held
      PROVE  Aside
  <2>1. /\ \A b \in Agents : b # a => pc'[b] = pc[b] /\ op'[b] = op[b]
        /\ pc'[a] # "store" /\ pc[a] # "store"
    BY <1>2 DEF Release, LoopInv, TypeOK, Busy
  <2>2. \A b \in Agents : b # a => Subject(b)' = Subject(b)
    BY <1>2 DEF Subject
  <2>3. QED  BY <1>2, <2>1, <2>2 DEF Aside
<1>3. ASSUME NEW s \in Sessions,
             OnAcceptError(s) \/ OnReadError(s) \/ SendChainEnds(s)
      PROVE  Aside
  <2>1. s \in Agents /\ ~ Busy(s) /\ s # Pub
    BY <1>3, AgentsAssumption
    DEF OnAcceptError, OnReadError, SendChainEnds, LoopInv, LoopSubject, Busy,
        Subject, Agents
  <2>2. QED
    BY <1>2, <1>3, <2>1 DEF OnAcceptError, OnReadError, SendChainEnds
<1>4. CASE PubDrop
  <2>1. Pub \in Agents /\ ~ Busy(Pub)
    BY <1>4 DEF PubDrop, Busy, Agents
  <2>2. QED  BY <1>2, <1>4, <2>1 DEF PubDrop
<1>5. ASSUME NEW s \in Sessions, NEW o \in {"sub", "unsub"},
             NEW ns \in SUBSET Names, OnRead(s, o, ns)
      PROVE  Aside
  BY <1>5 DEF OnRead, Aside, LoopInv, TypeOK, Subject
<1>6. CASE \/ PubSnapshot \/ PubSend \/ PubDone
           \/ \E t \in Topics : PubPop(t)
           \/ \E s \in Sessions : PubLock(s)
  BY <1>6, AgentsAssumption
  DEF PubSnapshot, PubSend, PubDone, PubPop, PubLock, Aside, LoopInv, TypeOK,
      Subject
<1>7. ASSUME NEW a \in Agents, VisitTopic(a) \/ UnlistedTopic(a) PROVE Aside
  BY <1>7 DEF VisitTopic, UnlistedTopic, Aside, LoopInv, TypeOK, Subject
<1>8. ASSUME NEW a \in Agents, HandlerReturns(a) \/ LeaveReturns(a) PROVE Aside
  BY <1>8 DEF HandlerReturns, LeaveReturns, Aside, LoopInv, TypeOK, Subject
<1>9. CASE UNCHANGED vars
  BY <1>9 DEF vars, Aside, Subject
<1>10. QED
  BY <1>1, <1>3, <1>4, <1>5, <1>6, <1>7, <1>8, <1>9
  DEF Next, StrandStep, PubStep, LoopStep, Agents

LEMMA AsideFeed ==
    ASSUME FeedInv, Aside
    PROVE  FeedInv' /\ \A t : Commanded(t)' <=> Commanded(t)
<1> USE DEF Aside
<1>1. \A t : Commanded(t)' <=> Commanded(t)  BY CommandedLatest
<1>2. QueueClean' /\ StoreReady'
  BY DEF FeedInv, QueueClean, StoreReady
<1>3. HolderStores'  BY DEF FeedInv, HolderStores
<1>4. AtStore' /\ FeedFollowsMembers'
  BY <1>1 DEF FeedInv, AtStore, FeedFollowsMembers
<1>5. QED  BY <1>1, <1>2, <1>3, <1>4 DEF FeedInv

\* A push begins: the topic's mutex passes to the agent, and nothing of what
\* is commanded or registered changes but for the last leave.
LEMMA BeginPushFeed ==
    ASSUME LoopInv, FeedInv, SingleProducer', NEW a \in Agents, CanLock(a),
           BeginPush(a), UNCHANGED <<op, cmd, subscribed>>,
           \/ op[a] = "sub" /\ members[cur[a]] = {} /\ members' = members
           \/ /\ op[a] # "sub" /\ members[cur[a]] = {Subject(a)}
              /\ members' = Left(a)
    PROVE  FeedInv'
<1> USE DEF CanLock, BeginPush
<1>1. \A t : Commanded(t)' <=> Commanded(t)  BY CommandedLatest
<1>2. /\ pc'[a] = "store" /\ cur[a] \in Topics /\ holder[cur[a]] = None
      /\ slot'[a] = cmd.write /\ holder'[cur[a]] = a /\ a # None
      /\ \A b \in Agents : pc'[b] = "store" => b = a
      /\ \A t \in Topics : t # cur[a] => holder'[t] = holder[t]
      /\ \A b \in Agents : b # a => pc'[b] = pc[b]
  BY AgentsAssumption DEF LoopInv, TypeOK, SingleProducer, Agents
<1>3. /\ members'[cur[a]] = {}
      /\ \A t \in Topics : t # cur[a] => members'[t] = members[t]
  BY <1>2 DEF LoopInv, TypeOK, Left
<1>4. QueueClean' /\ StoreReady'
  BY <1>2 DEF FeedInv, QueueClean, StoreReady
<1>5. HolderStores'
  BY <1>2 DEF FeedInv, HolderStores
<1>6. AtStore'
  <2>1. cur[a] \notin rejected => (Commanded(cur[a]) <=> op[a] # "sub")
    BY <1>2 DEF FeedInv, FeedFollowsMembers
  <2>2. QED  BY <1>1, <1>2, <1>3, <2>1 DEF AtStore
<1>7. FeedFollowsMembers'
  BY <1>1, <1>2, <1>3 DEF FeedInv, FeedFollowsMembers
<1>8. QED  BY <1>4, <1>5, <1>6, <1>7 DEF FeedInv

\* A round without a push: the topic keeps a session if it had one and gets
\* none if it had none, or a command about it was refused.
LEMMA QuietRoundFeed ==
    ASSUME LoopInv, FeedInv, NEW a \in Agents, CanLock(a), EndRound(a),
           UNCHANGED <<op, slot, holder, cmd, subscribed>>,
           NEW M, members' = [members EXCEPT ![cur[a]] = M],
           \/ rejected' = rejected /\ (M = {} <=> members[cur[a]] = {})
           \/ rejected' = rejected \cup {cur[a]}
    PROVE  FeedInv'
<1> USE DEF CanLock, EndRound
<1>1. \A t : Commanded(t)' <=> Commanded(t)  BY CommandedLatest
<1>2. /\ cur[a] \in Topics /\ holder[cur[a]] = None
      /\ \A b \in Agents : pc'[b] = "store" <=> pc[b] = "store"
      /\ \A b \in Agents : pc[b] = "store" => cur'[b] = cur[b]
      /\ \A t \in Topics : t # cur[a] => members'[t] = members[t]
      /\ members'[cur[a]] = M
  BY DEF LoopInv, TypeOK
<1>3. QueueClean' /\ StoreReady' /\ HolderStores'
  BY <1>2 DEF FeedInv, QueueClean, StoreReady, HolderStores
<1>4. AtStore'
  <2>1. \A b \in Agents : pc[b] = "store" => cur[b] # cur[a] /\ cur[b] \in Topics
    BY <1>2, AgentsAssumption DEF LoopInv, AtTopic, Agents
  <2>2. QED  BY <1>1, <1>2, <2>1 DEF FeedInv, AtStore
<1>5. FeedFollowsMembers'
  BY <1>1, <1>2 DEF FeedInv, FeedFollowsMembers
<1>6. QED  BY <1>3, <1>4, <1>5 DEF FeedInv

\* The command is in the queue when the mutex is given back.
LEMMA FinishPushFeed ==
    ASSUME LoopInv, FeedInv, SingleProducer, NEW a \in Agents, FinishPush(a)
    PROVE  /\ FeedInv'
           /\ \A t : Commanded(t)' <=> IF t = cur[a] THEN op[a] = "sub"
                                                    ELSE Commanded(t)
<1> USE DEF FinishPush, EndRound
<1> DEFINE v == <<IF op[a] = "sub" THEN "sub" ELSE "unsub", cur[a]>>
<1>1. /\ pc[a] = "store" /\ cur[a] \in Topics /\ holder[cur[a]] = a
      /\ slot[a] = cmd.write /\ Ring!HasRoom(cmd)
      /\ cmd \in Ring!RingType(Commands) /\ v \in Commands
  BY NamesAssumption DEF LoopInv, TypeOK, AtTopic, FeedInv, StoreReady, Commands
<1>2. cmd' = Ring!Stored(cmd, cmd.write, v)
  BY <1>1
<1>3. \A t : Commanded(t)' <=> IF t = cur[a] THEN op[a] = "sub" ELSE Commanded(t)
  <2> SUFFICES ASSUME NEW t
               PROVE  Commanded(t)' <=> IF t = cur[a] THEN op[a] = "sub"
                                                     ELSE Commanded(t)
    OBVIOUS
  <2>1. v[2] = cur[a] /\ (v[1] = "sub" <=> op[a] = "sub")
    OBVIOUS
  <2> HIDE DEF v
  <2>2. Latest(cmd', subscribed, t)
           <=> IF v[2] = t THEN v[1] = "sub" ELSE Latest(cmd, subscribed, t)
    BY <1>1, <1>2, LatestStored
  <2>3. QED  BY <2>1, <2>2, CommandedLatest
<1>4. /\ \A b \in Agents : b # a => pc[b] # "store"
      /\ \A b \in Agents : pc'[b] # "store"
  BY <1>1 DEF SingleProducer, LoopInv, TypeOK
<1>5. /\ \A t \in Topics : t # cur[a] => members'[t] = members[t]
      /\ \A t \in Topics : holder'[t] = IF t = cur[a] THEN None ELSE holder[t]
      /\ op[a] = "sub" => members'[cur[a]] # {}
      /\ op[a] # "sub" => members' = members
  BY <1>1 DEF LoopInv, TypeOK, Joined
<1>6. QueueClean'
  <2> HIDE DEF v
  <2>1. cmd' \in Ring!RingType(Commands)
    <3>1. cmd.write \in Ring!Slots  BY <1>1 DEF Ring!RingType
    <3>2. QED  BY <1>1, <1>2, <3>1, RingOps
  <2>2. /\ Ring!Length(cmd') = Ring!Length(cmd) + 1
        /\ \A i \in 1 .. Ring!Length(cmd) :
              Ring!Contents(cmd')[i] = Ring!Contents(cmd)[i]
        /\ Ring!Contents(cmd')[Ring!Length(cmd')] = v
    BY <1>1, <1>2, StoredAppends
  <2>3. /\ DOMAIN Ring!Contents(cmd') = 1 .. Ring!Length(cmd')
        /\ DOMAIN Ring!Contents(cmd) = 1 .. Ring!Length(cmd)
        /\ Ring!Length(cmd) \in Nat
    BY <1>1, <2>1, RingShape
  <2>4. \A i \in 1 .. Ring!Length(cmd) : Ring!Contents(cmd)[i] \in Commands
    BY <2>3 DEF FeedInv, QueueClean
  <2>5. ASSUME NEW i \in 1 .. Ring!Length(cmd')
        PROVE  Ring!Contents(cmd')[i] \in Commands
    <3>1. i = Ring!Length(cmd') \/ i \in 1 .. Ring!Length(cmd)
      BY <2>2, <2>3
    <3>2. QED  BY <1>1, <2>2, <2>4, <3>1
  <2>6. QED  BY <2>3, <2>5 DEF QueueClean
<1>7. StoreReady' /\ AtStore'
  BY <1>4 DEF StoreReady, AtStore
<1>8. HolderStores'
  BY <1>4, <1>5 DEF FeedInv, HolderStores
<1>9. FeedFollowsMembers'
  <2> SUFFICES ASSUME NEW t \in Topics, holder'[t] = None, t \notin rejected
               PROVE  Commanded(t)' <=> members'[t] # {}
    BY DEF FeedFollowsMembers
  <2>1. CASE t = cur[a]
    <3>1. members[cur[a]] = {}
      BY <1>1, <2>1 DEF FeedInv, AtStore
    <3>2. members'[cur[a]] # {} <=> op[a] = "sub"
      BY <1>5, <3>1
    <3>3. QED  BY <1>3, <2>1, <3>2
  <2>2. CASE t # cur[a]
    BY <1>3, <1>5, <2>2 DEF FeedInv, FeedFollowsMembers
  <2>3. QED  BY <2>1, <2>2
<1>10. QED  BY <1>3, <1>6, <1>7, <1>8, <1>9 DEF FeedInv

\* The subscriber carries the oldest command out, which changes nothing of
\* what will have been commanded in the end.
LEMMA SubscriberPopsFeed ==
    ASSUME LoopInv, FeedInv, SubscriberPops
    PROVE  FeedInv' /\ \A t : Commanded(t)' <=> Commanded(t)
<1> USE DEF SubscriberPops, registryVars, loopVars
<1>1. cmd \in Ring!RingType(Commands) /\ ~ Ring!IsEmpty(cmd)
  BY DEF LoopInv, TypeOK
<1>2. /\ cmd' \in Ring!RingType(Commands)
      /\ DOMAIN Ring!Contents(cmd) = 1 .. Ring!Length(cmd)
      /\ DOMAIN Ring!Contents(cmd') = 1 .. Ring!Length(cmd')
      /\ Ring!Length(cmd') \in Nat
      /\ Ring!Length(cmd) = Ring!Length(cmd') + 1
      /\ \A i \in 1 .. Ring!Length(cmd') :
            Ring!Contents(cmd')[i] = Ring!Contents(cmd)[i + 1]
      /\ Ring!Contents(cmd)[1] = Ring!Front(cmd)
  <2>1. cmd' \in Ring!RingType(Commands)  BY <1>1, RingOps
  <2>2. QED  BY <1>1, <2>1, RingShape, PoppedIsTail
<1>3. Ring!Front(cmd) \in Commands /\ Ring!Front(cmd) # None
  <2>1. 1 \in 1 .. Ring!Length(cmd)  BY <1>2
  <2>2. QED  BY <1>2, <2>1, VacantAssumption DEF FeedInv, QueueClean, Commands
<1>4. \A t : Commanded(t)' <=> Commanded(t)
  <2>1. subscribed' = IF Ring!Front(cmd)[1] = "sub"
                      THEN subscribed \cup {Ring!Front(cmd)[2]}
                      ELSE subscribed \ {Ring!Front(cmd)[2]}
    BY <1>3
  <2>2. \A t : Latest(cmd', subscribed', t) <=> Latest(cmd, subscribed, t)
    BY <1>1, <2>1, LatestPopped
  <2>3. QED  BY <2>2, CommandedLatest
<1>5. QueueClean'
  <2> SUFFICES ASSUME NEW i \in 1 .. Ring!Length(cmd')
               PROVE  Ring!Contents(cmd')[i] \in Commands
    BY <1>2 DEF QueueClean
  <2>1. i + 1 \in 1 .. Ring!Length(cmd)  BY <1>2
  <2>2. QED  BY <1>2, <2>1 DEF FeedInv, QueueClean
<1>6. StoreReady'
  BY <1>1, PopKeepsRoom DEF FeedInv, StoreReady
<1>7. HolderStores' /\ AtStore' /\ FeedFollowsMembers'
  BY <1>4 DEF FeedInv, HolderStores, AtStore, FeedFollowsMembers
<1>8. QED  BY <1>4, <1>5, <1>6, <1>7 DEF FeedInv

\* Every step of every agent keeps the feed in line with the registry.
LEMMA NextFeed ==
    ASSUME LoopInv, FeedInv, SingleProducer, SingleProducer', Next
    PROVE  FeedInv'
<1> USE DEF sessionVars, registryVars, loopVars, pubVars, queueVars
<1>1. ASSUME NEW a \in Agents, SubscribeFirst(a) \/ UnsubscribeLast(a)
      PROVE  FeedInv'
  <2>1. CASE BeginPush(a)
    BY <1>1, <2>1, BeginPushFeed
    DEF SubscribeFirst, UnsubscribeLast, BeginPush, RefusePush
  <2>2. CASE RefusePush(a)
    <3>1. \E M : members' = [members EXCEPT ![cur[a]] = M]
      BY <1>1, <2>2
      DEF SubscribeFirst, UnsubscribeLast, BeginPush, RefusePush, Joined, Left
    <3>2. QED
      BY <1>1, <2>2, <3>1, QuietRoundFeed
      DEF SubscribeFirst, UnsubscribeLast, RefusePush
  <2>3. QED  BY <1>1, <2>1, <2>2 DEF SubscribeFirst, UnsubscribeLast
<1>2. ASSUME NEW a \in Agents, SubscribeMore(a) PROVE FeedInv'
  <2>1. members' = [members EXCEPT ![cur[a]] = members[cur[a]] \cup {Subject(a)}]
    BY <1>2 DEF SubscribeMore, Joined
  <2>2. QED  BY <1>2, <2>1, QuietRoundFeed DEF SubscribeMore
<1>3. ASSUME NEW a \in Agents, UnsubscribeOther(a) PROVE FeedInv'
  <2>1. members' = [members EXCEPT ![cur[a]] = members[cur[a]] \ {Subject(a)}]
    BY <1>3 DEF UnsubscribeOther, Left
  <2>2. members[cur[a]] \ {Subject(a)} = {} <=> members[cur[a]] = {}
    BY <1>3 DEF UnsubscribeOther
  <2>3. QED  BY <1>3, <2>1, <2>2, QuietRoundFeed DEF UnsubscribeOther
<1>4. ASSUME NEW a \in Agents, FinishPush(a) PROVE FeedInv'
  BY <1>4, FinishPushFeed
<1>5. CASE SubscriberPops  BY <1>5, SubscriberPopsFeed
<1>6. CASE Aside  BY <1>6, AsideFeed
<1>7. QED  BY <1>1, <1>2, <1>3, <1>4, <1>5, <1>6, StepsAside

LEMMA InitFeed == Init => FeedInv
<1> SUFFICES ASSUME Init PROVE FeedInv  OBVIOUS
<1>1. cmd = Ring!EmptyRing /\ cmd \in Ring!RingType(Commands)
  BY RingInit DEF Init
<1>2. DOMAIN Ring!Contents(cmd) = {}
  <2>1. cmd.read = 0 /\ cmd.write = 0  BY <1>1 DEF Ring!EmptyRing
  <2>2. Ring!Length(cmd) = 0  BY <1>1, <2>1, RingShape
  <2>3. QED  BY <1>1, <2>2, RingShape
<1>3. \A t : ~ Commanded(t)
  BY <1>2 DEF Init, Commanded
<1>4. QED
  BY <1>2, <1>3
  DEF Init, FeedInv, QueueClean, StoreReady, HolderStores, AtStore,
      FeedFollowsMembers

LEMMA FeedInvariance == Spec /\ []SingleProducer => []FeedInv
<1>1. Init => FeedInv  BY InitFeed
<1>2. LoopInv /\ FeedInv /\ SingleProducer /\ SingleProducer' /\ [Next]_vars
         => FeedInv'
  <2> SUFFICES ASSUME LoopInv, FeedInv, SingleProducer, SingleProducer',
                      [Next]_vars
               PROVE  FeedInv'
    OBVIOUS
  <2>1. CASE Next  BY <2>1, NextFeed
  <2>2. CASE UNCHANGED vars
    <3>1. Aside  BY <2>2 DEF vars, Aside, Subject
    <3>2. QED  BY <3>1, AsideFeed
  <2>3. QED  BY <2>1, <2>2
<1>3. QED  BY <1>1, <1>2, LoopInvariance, PTL DEF Spec

\* Whatever the capacity of the queue: as long as it has a single producer, a
\* topic no command of which was refused is commanded from the subscriber
\* exactly when a session is registered with it.
THEOREM FeedFollows == Spec /\ []SingleProducer => []FeedFollowsMembers
<1>1. FeedInv => FeedFollowsMembers  BY DEF FeedInv
<1>2. QED  BY <1>1, FeedInvariance, PTL

\* With one configured topic the mutex of its symbol makes every push
\* exclusive, so that the feed follows the registry.
THEOREM OneTopicFeedFollows ==
    ASSUME NEW t1, Topics = {t1}
    PROVE  Spec => []FeedFollowsMembers
<1>1. LoopInv => SingleProducer
  BY DEF LoopInv, AtTopic, SingleProducer
<1>2. QED  BY <1>1, LoopInvariance, FeedFollows, PTL

-----------------------------------------------------------------------------
(* The registry implements SubscriptionBoard.                              *)

\* The board's view of a topic between two pushes, and during one.
LEMMA OnBoardIs ==
    ASSUME LoopInv, HolderStores, NEW t \in Topics
    PROVE  /\ holder[t] = None => OnBoard(t) = members[t]
           /\ \A a \in Agents : holder[t] = a =>
                 OnBoard(t) = members[t] \cup (IF op[a] # "sub" THEN {Subject(a)} ELSE {})
<1>1. \A a \in Agents : a # None  BY AgentsAssumption DEF Agents
<1>2. QED  BY <1>1 DEF OnBoard

\* A step of the registry that is a join, a leave or nothing on the board.
LEMMA BoardJoin ==
    ASSUME NEW s \in Sessions, NEW t \in Topics,
           s \notin OnBoard(t), OnBoard(t)' = OnBoard(t) \cup {s},
           \A u \in Topics : u # t => /\ OnBoard(u)' = OnBoard(u)
                                      /\ Commanded(u)' <=> Commanded(u),
           OnBoard(t) = {} => ~ Commanded(t) /\ Commanded(t)',
           OnBoard(t) # {} => (Commanded(t)' <=> Commanded(t))
    PROVE  Board!Next
<1> DEFINE J == [u \in Topics |-> OnBoard(u)]
           R == {u \in Topics : Commanded(u)}
<1>1. J' = [J EXCEPT ![t] = @ \cup {s}] /\ J[t] = OnBoard(t)
  OBVIOUS
<1>2. OnBoard(t) = {} => t \notin R /\ R' = R \cup {t}
  OBVIOUS
<1>3. OnBoard(t) # {} => R' = R
  OBVIOUS
<1>4. Board!Join(s, t)
  <2> HIDE DEF J, R
  <2>1. /\ s \notin J[t] /\ J' = [J EXCEPT ![t] = @ \cup {s}]
        /\ IF J[t] = {} THEN t \notin R /\ R' = R \cup {t} ELSE R' = R
    BY <1>1, <1>2, <1>3
  <2>2. QED  BY <2>1 DEF Board!Join, J, R
<1>5. QED  BY <1>4 DEF Board!Next

LEMMA BoardLeave ==
    ASSUME NEW s \in Sessions, NEW t \in Topics,
           s \in OnBoard(t), OnBoard(t)' = OnBoard(t) \ {s},
           \A u \in Topics : u # t => /\ OnBoard(u)' = OnBoard(u)
                                      /\ Commanded(u)' <=> Commanded(u),
           OnBoard(t) = {s} => Commanded(t) /\ ~ Commanded(t)',
           OnBoard(t) # {s} => (Commanded(t)' <=> Commanded(t))
    PROVE  Board!Next
<1> DEFINE J == [u \in Topics |-> OnBoard(u)]
           R == {u \in Topics : Commanded(u)}
<1>1. J' = [J EXCEPT ![t] = @ \ {s}] /\ J[t] = OnBoard(t)
  OBVIOUS
<1>2. OnBoard(t) = {s} => t \in R /\ R' = R \ {t}
  OBVIOUS
<1>3. OnBoard(t) # {s} => R' = R
  OBVIOUS
<1>4. Board!Leave(s, t)
  <2> HIDE DEF J, R
  <2>1. /\ s \in J[t] /\ J' = [J EXCEPT ![t] = @ \ {s}]
        /\ IF J[t] = {s} THEN t \in R /\ R' = R \ {t} ELSE R' = R
    BY <1>1, <1>2, <1>3
  <2>2. QED  BY <2>1 DEF Board!Leave, J, R
<1>5. QED  BY <1>4 DEF Board!Next

LEMMA BoardStays ==
    ASSUME \A u \in Topics : /\ OnBoard(u)' = OnBoard(u)
                             /\ Commanded(u)' <=> Commanded(u)
    PROVE  UNCHANGED Board!vars
<1> DEFINE J == [u \in Topics |-> OnBoard(u)]
           R == {u \in Topics : Commanded(u)}
<1>1. J' = J /\ R' = R  OBVIOUS
<1>2. QED  BY <1>1 DEF Board!vars

\* Every step of the registry is one of the board, or none of it.
LEMMA BoardStep ==
    ASSUME LoopInv, FeedInv, FeedInv', SingleProducer, LoopInv', [Next]_vars,
           rejected = {}, rejected' = {}
    PROVE  [Board!Next]_(Board!vars)
<1> USE DEF sessionVars, registryVars, loopVars, pubVars, queueVars, CanLock
<1>0. \A t \in Topics : holder[t] = None =>
         OnBoard(t) = members[t] /\ (Commanded(t) <=> members[t] # {})
  BY OnBoardIs DEF FeedInv, FeedFollowsMembers
<1>1. CASE Aside
  <2>1. \A u \in Topics : OnBoard(u)' = OnBoard(u)
    <3> SUFFICES ASSUME NEW u \in Topics PROVE OnBoard(u)' = OnBoard(u)
      OBVIOUS
    <3>1. \A b \in Agents : holder[u] = b => pc[b] = "store"
      BY AgentsAssumption DEF FeedInv, HolderStores, Agents
    <3>2. QED  BY <1>1, <3>1 DEF Aside, OnBoard
  <2>2. QED  BY <1>1, <2>1, AsideFeed, BoardStays
<1>2. CASE SubscriberPops
  <2>1. \A u \in Topics : OnBoard(u)' = OnBoard(u)
    BY <1>2 DEF SubscriberPops, OnBoard, Subject
  <2>2. QED  BY <1>2, <2>1, SubscriberPopsFeed, BoardStays
<1>3. ASSUME NEW a \in Agents, SubscribeFirst(a) \/ UnsubscribeLast(a)
      PROVE  [Board!Next]_(Board!vars)
  <2>0. PICK t \in Topics : t = cur[a]
    BY <1>3 DEF SubscribeFirst, UnsubscribeLast
  <2>1. BeginPush(a)
    BY <2>0, <1>3 DEF SubscribeFirst, UnsubscribeLast, RefusePush
  <2>2. /\ holder[t] = None /\ holder'[t] = a
        /\ \A u \in Topics : u # t => /\ holder'[u] = holder[u]
                                           /\ members'[u] = members[u]
        /\ op' = op /\ held' = held /\ \A b : Subject(b)' = Subject(b)
    <3>1. holder[t] = None /\ op' = op /\ held' = held
      BY <1>3, <2>0 DEF SubscribeFirst, UnsubscribeLast
    <3>2. holder' = [holder EXCEPT ![t] = a]
      BY <2>0, <2>1 DEF BeginPush
    <3>3. \E M : members' = [members EXCEPT ![t] = M]
      <4>1. CASE SubscribeFirst(a)
        <5>1. members' = members
          BY <2>1, <4>1 DEF SubscribeFirst, BeginPush, RefusePush
        <5>2. members' = [members EXCEPT ![t] = members[t]]
          BY <5>1 DEF LoopInv, TypeOK
        <5>3. QED  BY <5>2
      <4>2. CASE UnsubscribeLast(a)
        BY <2>0, <4>2 DEF UnsubscribeLast, Left
      <4>3. QED  BY <1>3, <4>1, <4>2
    <3>4. QED  BY <3>1, <3>2, <3>3 DEF LoopInv, TypeOK, Subject
  <2>3. \A u \in Topics : u # t => OnBoard(u)' = OnBoard(u)
    BY <2>2 DEF OnBoard
  <2>4. OnBoard(t)' = OnBoard(t)
    <3>1. OnBoard(t) = members[t]  BY <1>0, <2>2
    <3>2. OnBoard(t)' = members'[t]
                                \cup (IF op[a] # "sub" THEN {Subject(a)} ELSE {})
      BY <2>2 DEF OnBoard
    <3>3. CASE SubscribeFirst(a)
      BY <2>1, <3>1, <3>2, <3>3 DEF SubscribeFirst, BeginPush, RefusePush
    <3>4. CASE UnsubscribeLast(a)
      BY <2>0, <3>1, <3>2, <3>4 DEF UnsubscribeLast, LoopInv, TypeOK, Left
    <3>5. QED  BY <1>3, <3>3, <3>4
  <2>5. \A u : Commanded(u)' <=> Commanded(u)
    BY <2>0, <1>3, CommandedLatest DEF SubscribeFirst, UnsubscribeLast
  <2>6. QED  BY <2>3, <2>4, <2>5, BoardStays
<1>4. ASSUME NEW a \in Agents, SubscribeMore(a) \/ UnsubscribeOther(a)
      PROVE  [Board!Next]_(Board!vars)
  <2>0. PICK t \in Topics : t = cur[a]
    BY <1>4 DEF SubscribeMore, UnsubscribeOther
  <2>1. /\ holder[t] = None /\ Subject(a) \in Sessions
        /\ \A u \in Topics : u # t => members'[u] = members[u]
        /\ holder' = holder /\ op' = op /\ \A b : Subject(b)' = Subject(b)
    BY <2>0, <1>4, SoleWorker
    DEF SubscribeMore, UnsubscribeOther, LoopInv, TypeOK, Joined, Left, Subject,
        Busy
  <2>2. /\ \A u \in Topics : u # t => OnBoard(u)' = OnBoard(u)
        /\ OnBoard(t)' = members'[t]
    <3>1. \A b \in Agents : b # None  BY AgentsAssumption DEF Agents
    <3>2. QED  BY <2>1, <3>1 DEF OnBoard
  <2>3. \A u : Commanded(u)' <=> Commanded(u)
    BY <2>0, <1>4, CommandedLatest DEF SubscribeMore, UnsubscribeOther
  <2>4. OnBoard(t) = members[t]
    BY <1>0, <2>1
  <2>5. CASE members'[t] = members[t]
    BY <2>2, <2>3, <2>4, <2>5, BoardStays
  <2>6. CASE SubscribeMore(a) /\ members'[t] # members[t]
    <3>1. /\ members[t] # {} /\ Subject(a) \notin members[t]
          /\ members'[t] = members[t] \cup {Subject(a)}
      BY <2>1, <2>6 DEF SubscribeMore, LoopInv, TypeOK, Joined
    <3>2. QED  BY <2>1, <2>2, <2>3, <2>4, <3>1, BoardJoin
  <2>7. CASE UnsubscribeOther(a) /\ members'[t] # members[t]
    <3>1. /\ members[t] # {Subject(a)} /\ Subject(a) \in members[t]
          /\ members'[t] = members[t] \ {Subject(a)}
      BY <2>1, <2>7 DEF UnsubscribeOther, LoopInv, TypeOK, Left
    <3>2. QED  BY <2>1, <2>2, <2>3, <2>4, <3>1, BoardLeave
  <2>8. QED  BY <2>0, <1>4, <2>5, <2>6, <2>7
<1>5. ASSUME NEW a \in Agents, FinishPush(a)
      PROVE  [Board!Next]_(Board!vars)
  <2>0. PICK t \in Topics : t = cur[a]
    BY <1>5 DEF FinishPush, LoopInv, AtTopic
  <2>1. /\ pc[a] = "store" /\ holder[t] = a
        /\ holder'[t] = None /\ Subject(a) \in Sessions
        /\ \A u \in Topics : u # t => /\ members'[u] = members[u]
                                           /\ holder'[u] = holder[u]
        /\ op' = op /\ \A b : Subject(b)' = Subject(b)
    BY <2>0, <1>5, SoleWorker
    DEF FinishPush, LoopInv, TypeOK, AtTopic, Joined, Subject, Busy
  <2>2. \A u : Commanded(u)' <=> IF u = t THEN op[a] = "sub" ELSE Commanded(u)
    BY <2>0, <1>5, FinishPushFeed
  <2>3. members[t] = {} /\ (Commanded(t) <=> op[a] # "sub")
    BY <2>0, <2>1 DEF FeedInv, AtStore
  <2>4. /\ \A u \in Topics : u # t => OnBoard(u)' = OnBoard(u)
        /\ OnBoard(t)' = members'[t]
        /\ OnBoard(t) = IF op[a] # "sub" THEN {Subject(a)} ELSE {}
    <3>1. \A b \in Agents : b # None  BY AgentsAssumption DEF Agents
    <3>2. QED  BY <2>1, <2>3, <3>1 DEF OnBoard
  <2>5. CASE op[a] = "sub"
    <3>1. members'[t] = {Subject(a)}
      BY <2>0, <1>5, <2>1, <2>3, <2>5 DEF FinishPush, LoopInv, TypeOK, Joined
    <3>2. QED  BY <2>1, <2>2, <2>3, <2>4, <2>5, <3>1, BoardJoin
  <2>6. CASE op[a] # "sub"
    <3>1. members'[t] = {}
      BY <2>0, <1>5, <2>3, <2>6 DEF FinishPush
    <3>2. QED  BY <2>1, <2>2, <2>3, <2>4, <2>6, <3>1, BoardLeave
  <2>7. QED  BY <2>5, <2>6
<1>6. QED  BY <1>1, <1>2, <1>3, <1>4, <1>5, StepsAside

\* As long as the queue has a single producer and refuses nothing, the
\* registry implements the board, however sessions join, leave and are
\* destroyed.
THEOREM RegistryImplementsBoard ==
    Spec /\ []SingleProducer /\ [](rejected = {}) => ImplementsBoard
<1>1. Init => Board!Init
  <2> SUFFICES ASSUME Init PROVE Board!Init  OBVIOUS
  <2>1. \A t \in Topics : OnBoard(t) = {}
    BY AgentsAssumption DEF Init, OnBoard, Agents
  <2>2. \A t \in Topics : ~ Commanded(t)
    BY InitFeed DEF Init, FeedInv, FeedFollowsMembers
  <2>3. QED  BY <2>1, <2>2 DEF Board!Init
<1>2. LoopInv /\ LoopInv' /\ FeedInv /\ FeedInv' /\ SingleProducer
      /\ rejected = {} /\ (rejected = {})' /\ [Next]_vars
         => [Board!Next]_(Board!vars)
  BY BoardStep
<1>3. Spec /\ []SingleProducer => []FeedInv
  BY FeedInvariance
<1>4. QED
  BY <1>1, <1>2, <1>3, LoopInvariance, PTL DEF Spec, ImplementsBoard, Board!Spec

\* With one configured topic a queue that refuses nothing is all it takes.
THEOREM OneTopicImplementsBoard ==
    ASSUME NEW t1, Topics = {t1}
    PROVE  Spec /\ [](rejected = {}) => ImplementsBoard
<1>1. LoopInv => SingleProducer
  BY DEF LoopInv, AtTopic, SingleProducer
<1>2. QED  BY <1>1, LoopInvariance, RegistryImplementsBoard, PTL
=============================================================================
