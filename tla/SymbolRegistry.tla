--------------------------- MODULE SymbolRegistry ---------------------------
(***************************************************************************)
(* The registry of websocket sessions and symbols: shared_state, symbol,   *)
(* the lifetime of websocket_session, and the publisher that fans a quote  *)
(* out to the sessions of its topic.                                       *)
(*                                                                         *)
(* An agent is whoever runs code: the strand of a session (named by the    *)
(* session) or the publisher's thread.  Sessions live as long as a strong  *)
(* pointer to them does: the handler of the accept or read chain ("read"), *)
(* posted sends and the write chain ("send"), the publisher's local sp     *)
(* ("pub").  The agent that drops the last one runs the destructor, which  *)
(* leaves every topic and then the set of active sessions.                 *)
(*                                                                         *)
(* A command for the subscriber is pushed under the mutex of its topic     *)
(* only; the push is split where two producers can interleave.             *)
(***************************************************************************)
EXTENDS Naturals, FiniteSets, Sequences

CONSTANTS Sessions,      \* websocket_session objects
          Topics,        \* the topics the server is configured with
          Names,         \* the topic names clients send
          Pub,           \* the publisher's thread
          None,          \* no session, no agent
          CmdCapacity,   \* capacity of spsc_queue_subscriber_
          MaxMessages    \* bound: messages each client sends

ASSUME NamesAssumption == Topics \subseteq Names
ASSUME AgentsAssumption == /\ Pub \notin Sessions
                           /\ None \notin Sessions \cup {Pub}
ASSUME BoundsAssumption == /\ CmdCapacity \in Nat \ {0}
                           /\ MaxMessages \in Nat
ASSUME VacantAssumption == None \notin {"sub", "unsub"} \X Names

Agents == Sessions \cup {Pub}

\* parser::MsgType and the command pushed for the subscriber
Commands == {"sub", "unsub"} \X Names

Ring == INSTANCE SpscRing WITH Capacity <- CmdCapacity, Vacant <- None

VARIABLES
    up,         \* the process has not died
    life,       \* session -> absent, accepting, open, dying or freed
    refs,       \* session -> kinds of strong pointers to it
    topics,     \* session -> websocket_session::topics
    active,     \* shared_state::sessions_
    members,    \* topic -> symbol::sessions_
    holder,     \* topic -> agent holding symbol::mutex_ between two steps
    pc,         \* agent -> what it does next
    op,         \* agent -> the operation it is in: sub, unsub, leave or none
    todo,       \* agent -> the topics its loop has still to visit
    cur,        \* agent -> the topic it is at, in the scope of the variable
    slot,       \* agent -> the write index its push has loaded, or 0
    held,       \* the session the publisher's sp points to
    weak,       \* the publisher's local list v of weak pointers
    cmd,        \* spsc_queue_subscriber_
    subscribed, \* the topics the subscriber is subscribed to at Redis
    rejected,   \* history: topics with a command the full queue refused
    budget      \* session -> messages its client may still send

sessionVars == <<life, refs, topics>>
registryVars == <<active, members, holder>>
loopVars == <<op, todo, cur, slot>>
pubVars == <<held, weak>>
queueVars == <<cmd, subscribed, rejected>>
vars == <<up, life, refs, topics, active, members, holder, pc, op, todo, cur,
          slot, held, weak, cmd, subscribed, rejected, budget>>

\* The session an agent's operation is about: `this`, or the publisher's sp.
Subject(a) == IF a = Pub THEN held ELSE a

Init == /\ up = TRUE
        /\ life = [s \in Sessions |-> "absent"]
        /\ refs = [s \in Sessions |-> {}]
        /\ topics = [s \in Sessions |-> {}]
        /\ active = {}
        /\ members = [t \in Topics |-> {}]
        /\ holder = [t \in Topics |-> None]
        /\ pc = [a \in Agents |-> "idle"]
        /\ op = [a \in Agents |-> "none"]
        /\ todo = [a \in Agents |-> {}]
        /\ cur = [a \in Agents |-> None]
        /\ slot = [a \in Agents |-> 0]
        /\ held = None
        /\ weak = {}
        /\ cmd = Ring!EmptyRing
        /\ subscribed = {}
        /\ rejected = {}
        /\ budget = [s \in Sessions |-> MaxMessages]

-----------------------------------------------------------------------------
(* The last strong pointer: agent a drops the pointer of kind r to s.  If  *)
(* it is the last one, a enters ~websocket_session, that is leave(), with  *)
(* a copy of the session's topics; otherwise it goes on at `next`.         *)

\* Fault: the destructor takes the session off the active set only.
FaultyRelease(a, s, r, next) ==
    /\ refs' = [refs EXCEPT ![s] = @ \ {r}]
    /\ UNCHANGED todo
    /\ IF refs[s] \subseteq {r}
       THEN /\ life' = [life EXCEPT ![s] = "dying"]
            /\ op' = [op EXCEPT ![a] = "leave"]
            /\ pc' = [pc EXCEPT ![a] = "next"]
       ELSE pc' = [pc EXCEPT ![a] = next] /\ UNCHANGED <<life, op>>

Release(a, s, r, next) ==
    /\ refs' = [refs EXCEPT ![s] = @ \ {r}]
    /\ IF refs[s] \subseteq {r}
       THEN /\ life' = [life EXCEPT ![s] = "dying"]
            /\ op' = [op EXCEPT ![a] = "leave"]
            /\ todo' = [todo EXCEPT ![a] = topics[s]]
            /\ pc' = [pc EXCEPT ![a] = "next"]
       ELSE /\ pc' = [pc EXCEPT ![a] = next]
            /\ UNCHANGED <<life, op, todo>>

-----------------------------------------------------------------------------
(* The websocket session, on its strand.                                   *)

\* The upgrade of an http_session makes the session and starts async_accept.
Connect(s) ==
    /\ life[s] = "absent"
    /\ life' = [life EXCEPT ![s] = "accepting"]
    /\ refs' = [refs EXCEPT ![s] = {"read"}]
    /\ UNCHANGED <<up, topics, registryVars, pc, loopVars, pubVars, queueVars,
                   budget>>

OnAccept(s) ==
    /\ life[s] = "accepting"
    /\ life' = [life EXCEPT ![s] = "open"]
    /\ active' = active \cup {s}
    /\ UNCHANGED <<up, refs, topics, members, holder, pc, loopVars, pubVars,
                   queueVars, budget>>

\* fail(ec, "accept"): the handler's pointer was the only one.
OnAcceptError(s) ==
    /\ life[s] = "accepting"
    /\ Release(s, s, "read", "idle")
    /\ UNCHANGED <<up, topics, registryVars, cur, slot, pubVars, queueVars,
                   budget>>

\* A message with type o and the comma-separated names ns: parse() enters the
\* subscribe or unsubscribe loop.  Visiting a name twice changes nothing.
OnRead(s, o, ns) ==
    /\ life[s] = "open" /\ pc[s] = "idle" /\ "read" \in refs[s]
    /\ budget[s] > 0
    /\ budget' = [budget EXCEPT ![s] = @ - 1]
    /\ pc' = [pc EXCEPT ![s] = "next"]
    /\ op' = [op EXCEPT ![s] = o]
    /\ todo' = [todo EXCEPT ![s] = ns]
    /\ UNCHANGED <<up, sessionVars, registryVars, cur, slot, pubVars,
                   queueVars>>

\* fail(ec, "read"): the read chain ends and its handler is destroyed.
OnReadError(s) ==
    /\ life[s] = "open" /\ pc[s] = "idle" /\ "read" \in refs[s]
    /\ Release(s, s, "read", "idle")
    /\ UNCHANGED <<up, topics, registryVars, cur, slot, pubVars, queueVars,
                   budget>>

\* The handlers of posted sends and of the write chain have all run: the
\* queue is written out, or a write failed.
SendChainEnds(s) ==
    /\ life[s] = "open" /\ pc[s] = "idle" /\ "send" \in refs[s]
    /\ Release(s, s, "send", "idle")
    /\ UNCHANGED <<up, topics, registryVars, cur, slot, pubVars, queueVars,
                   budget>>

-----------------------------------------------------------------------------
(* The subscribe and unsubscribe loops of shared_state, run by a session's *)
(* handler or by whoever destroys a session.                               *)

\* Fault: a subscription is not entered in the session's own topics.
FaultyVisitTopic(a) ==
    /\ pc[a] = "next"
    /\ \E t \in todo[a] :
          /\ cur' = [cur EXCEPT ![a] = t]
          /\ todo' = [todo EXCEPT ![a] = @ \ {t}]
          /\ topics' = [topics EXCEPT ![Subject(a)] = @ \ {t}]
    /\ pc' = [pc EXCEPT ![a] = "marked"]
    /\ UNCHANGED <<up, life, refs, registryVars, op, slot, pubVars, queueVars,
                   budget>>

\* Under shared_state::mutex_: the session's own set of topics.
VisitTopic(a) ==
    /\ pc[a] = "next"
    /\ \E t \in todo[a] :
          /\ cur' = [cur EXCEPT ![a] = t]
          /\ todo' = [todo EXCEPT ![a] = @ \ {t}]
          /\ topics' = [topics EXCEPT ![Subject(a)] =
                           IF op[a] = "sub" THEN @ \cup {t} ELSE @ \ {t}]
    /\ pc' = [pc EXCEPT ![a] = "marked"]
    /\ UNCHANGED <<up, life, refs, registryVars, op, slot, pubVars, queueVars,
                   budget>>

\* symbols_[name] of a name that is not configured inserts a null pointer,
\* and the next expression reads through it.
UnlistedTopic(a) ==
    /\ pc[a] = "marked" /\ cur[a] \notin Topics
    /\ up' = FALSE
    /\ UNCHANGED <<sessionVars, registryVars, pc, loopVars, pubVars, queueVars,
                   budget>>

\* Fault: the lock_guard is forgotten.
FaultyCanLock(a) == pc[a] = "marked" /\ cur[a] \in Topics

\* The mutex of cur[a] is free; the critical sections below take it.
CanLock(a) ==
    /\ pc[a] = "marked" /\ cur[a] \in Topics
    /\ holder[cur[a]] = None

\* The end of one round of the loop.
EndRound(a) == /\ pc' = [pc EXCEPT ![a] = "next"]
               /\ cur' = [cur EXCEPT ![a] = None]

Joined(a) == [members EXCEPT ![cur[a]] = @ \cup {Subject(a)}]
Left(a) == [members EXCEPT ![cur[a]] = @ \ {Subject(a)}]

\* First half of push: with room, load the write index and keep the mutex.
\* A full queue refuses the command; the caller ignores the result.
BeginPush(a) ==
    /\ Ring!HasRoom(cmd)
    /\ holder' = [holder EXCEPT ![cur[a]] = a]
    /\ slot' = [slot EXCEPT ![a] = cmd.write]
    /\ pc' = [pc EXCEPT ![a] = "store"]
    /\ UNCHANGED <<cur, rejected>>

RefusePush(a) ==
    /\ ~ Ring!HasRoom(cmd)
    /\ rejected' = rejected \cup {cur[a]}
    /\ EndRound(a)
    /\ UNCHANGED <<holder, slot>>

\* The first session of the topic: push SUBSCRIBE, then join.
SubscribeFirst(a) ==
    /\ CanLock(a) /\ op[a] = "sub" /\ members[cur[a]] = {}
    /\ \/ BeginPush(a) /\ UNCHANGED members
       \/ RefusePush(a) /\ members' = Joined(a)
    /\ UNCHANGED <<up, sessionVars, active, op, todo, pubVars, cmd,
                   subscribed, budget>>

SubscribeMore(a) ==
    /\ CanLock(a) /\ op[a] = "sub" /\ members[cur[a]] # {}
    /\ members' = Joined(a)
    /\ EndRound(a)
    /\ UNCHANGED <<up, sessionVars, active, holder, op, todo, slot, pubVars,
                   queueVars, budget>>

\* Fault: "the last" is taken to be whoever leaves a set of one.
FaultyUnsubscribeLast(a) ==
    /\ CanLock(a) /\ op[a] # "sub" /\ Cardinality(members[cur[a]]) = 1
    /\ members' = Left(a)
    /\ BeginPush(a) \/ RefusePush(a)
    /\ UNCHANGED <<up, sessionVars, active, op, todo, pubVars, cmd,
                   subscribed, budget>>

\* The last session of the topic: erase it, then push UNSUBSCRIBE.
UnsubscribeLast(a) ==
    /\ CanLock(a) /\ op[a] # "sub" /\ members[cur[a]] = {Subject(a)}
    /\ members' = Left(a)
    /\ BeginPush(a) \/ RefusePush(a)
    /\ UNCHANGED <<up, sessionVars, active, op, todo, pubVars, cmd,
                   subscribed, budget>>

\* Fault: a session that is not the last stays in the symbol's set.
FaultyUnsubscribeOther(a) ==
    /\ CanLock(a) /\ op[a] # "sub" /\ members[cur[a]] # {Subject(a)}
    /\ EndRound(a)
    /\ UNCHANGED <<up, sessionVars, active, members, holder, op, todo, slot,
                   pubVars, queueVars, budget>>

UnsubscribeOther(a) ==
    /\ CanLock(a) /\ op[a] # "sub" /\ members[cur[a]] # {Subject(a)}
    /\ members' = Left(a)
    /\ EndRound(a)
    /\ UNCHANGED <<up, sessionVars, active, holder, op, todo, slot, pubVars,
                   queueVars, budget>>

\* Second half of push, the join of a subscribe, and the end of the scope of
\* the lock_guard.
FinishPush(a) ==
    /\ pc[a] = "store"
    /\ cmd' = Ring!Stored(cmd, slot[a],
                          <<IF op[a] = "sub" THEN "sub" ELSE "unsub", cur[a]>>)
    /\ members' = IF op[a] = "sub" THEN Joined(a) ELSE members
    /\ holder' = [holder EXCEPT ![cur[a]] = None]
    /\ slot' = [slot EXCEPT ![a] = 0]
    /\ EndRound(a)
    /\ UNCHANGED <<up, sessionVars, active, op, todo, pubVars, subscribed,
                   rejected, budget>>

\* The message is handled: async_read again.
HandlerReturns(a) ==
    /\ pc[a] = "next" /\ todo[a] = {} /\ op[a] # "leave"
    /\ pc' = [pc EXCEPT ![a] = "idle"]
    /\ op' = [op EXCEPT ![a] = "none"]
    /\ UNCHANGED <<up, sessionVars, registryVars, todo, cur, slot, pubVars,
                   queueVars, budget>>

\* The end of leave(), under shared_state::mutex_, and of the destructor.
LeaveReturns(a) ==
    /\ pc[a] = "next" /\ todo[a] = {} /\ op[a] = "leave"
    /\ active' = active \ {Subject(a)}
    /\ life' = [life EXCEPT ![Subject(a)] = "freed"]
    /\ op' = [op EXCEPT ![a] = "none"]
    /\ IF a = Pub THEN pc' = [pc EXCEPT ![a] = "fan"] /\ held' = None
                  ELSE pc' = [pc EXCEPT ![a] = "idle"] /\ UNCHANGED held
    /\ UNCHANGED <<up, refs, topics, members, holder, todo, cur, slot, weak,
                   queueVars, budget>>

LoopStep(a) ==
    \/ VisitTopic(a) \/ UnlistedTopic(a)
    \/ SubscribeFirst(a) \/ SubscribeMore(a)
    \/ UnsubscribeLast(a) \/ UnsubscribeOther(a)
    \/ FinishPush(a) \/ HandlerReturns(a) \/ LeaveReturns(a)

-----------------------------------------------------------------------------
(* The publisher's thread.                                                 *)

\* A quote of topic t comes out of spsc_queue_.
PubPop(t) ==
    /\ pc[Pub] = "idle"
    /\ cur' = [cur EXCEPT ![Pub] = t]
    /\ pc' = [pc EXCEPT ![Pub] = "snapshot"]
    /\ UNCHANGED <<up, sessionVars, registryVars, op, todo, slot, pubVars,
                   queueVars, budget>>

\* Fault: the mutex is not released after the copy.
FaultyPubSnapshot ==
    /\ pc[Pub] = "snapshot" /\ holder[cur[Pub]] = None
    /\ holder' = [holder EXCEPT ![cur[Pub]] = Pub]
    /\ weak' = members[cur[Pub]]
    /\ pc' = [pc EXCEPT ![Pub] = "fan"]
    /\ cur' = [cur EXCEPT ![Pub] = None]
    /\ UNCHANGED <<up, sessionVars, active, members, op, todo, slot, held,
                   queueVars, budget>>

\* Under the topic's mutex: weak_from_this() of every session of the topic.
PubSnapshot ==
    /\ pc[Pub] = "snapshot" /\ holder[cur[Pub]] = None
    /\ weak' = members[cur[Pub]]
    /\ pc' = [pc EXCEPT ![Pub] = "fan"]
    /\ cur' = [cur EXCEPT ![Pub] = None]
    /\ UNCHANGED <<up, sessionVars, registryVars, op, todo, slot, held,
                   queueVars, budget>>

\* Fault: the list holds raw pointers and every one is made a strong one.
FaultyPubLock(s) ==
    /\ pc[Pub] = "fan" /\ s \in weak
    /\ weak' = weak \ {s}
    /\ held' = s
    /\ refs' = [refs EXCEPT ![s] = @ \cup {"pub"}]
    /\ pc' = [pc EXCEPT ![Pub] = "send"]
    /\ UNCHANGED <<up, life, topics, registryVars, loopVars, queueVars, budget>>

\* wp.lock(): a strong pointer, unless the last one is already gone.
PubLock(s) ==
    /\ pc[Pub] = "fan" /\ s \in weak
    /\ weak' = weak \ {s}
    /\ IF refs[s] # {}
       THEN /\ held' = s
            /\ refs' = [refs EXCEPT ![s] = @ \cup {"pub"}]
            /\ pc' = [pc EXCEPT ![Pub] = "send"]
       ELSE UNCHANGED <<held, refs, pc>>
    /\ UNCHANGED <<up, life, topics, registryVars, loopVars, queueVars, budget>>

\* sp->send(ss) posts on_send with a pointer of its own.
PubSend ==
    /\ pc[Pub] = "send"
    /\ refs' = [refs EXCEPT ![held] = @ \cup {"send"}]
    /\ pc' = [pc EXCEPT ![Pub] = "drop"]
    /\ UNCHANGED <<up, life, topics, registryVars, loopVars, pubVars,
                   queueVars, budget>>

\* Fault: the strong pointer of a finished round is kept.
FaultyPubDrop ==
    /\ pc[Pub] = "drop"
    /\ pc' = [pc EXCEPT ![Pub] = "fan"]
    /\ held' = None
    /\ UNCHANGED <<up, sessionVars, registryVars, loopVars, weak, queueVars,
                   budget>>

\* The end of sp's scope.
PubDrop ==
    /\ pc[Pub] = "drop"
    /\ Release(Pub, held, "pub", "fan")
    /\ held' = IF refs[held] = {"pub"} THEN held ELSE None
    /\ UNCHANGED <<up, topics, registryVars, cur, slot, weak, queueVars, budget>>

PubDone ==
    /\ pc[Pub] = "fan" /\ weak = {}
    /\ pc' = [pc EXCEPT ![Pub] = "idle"]
    /\ UNCHANGED <<up, sessionVars, registryVars, loopVars, pubVars, queueVars,
                   budget>>

PubStep == \/ PubSnapshot \/ PubSend \/ PubDrop \/ PubDone
           \/ \E s \in Sessions : PubLock(s)
           \/ LoopStep(Pub)

-----------------------------------------------------------------------------
(* The subscriber's end of the command queue.  A slot nothing was ever     *)
(* stored in holds garbage: the switch ignores it or the process dies.  A  *)
(* popped slot keeps the bytes of the command it held.                     *)

SubscriberPops ==
    /\ ~ Ring!IsEmpty(cmd)
    /\ cmd' = Ring!Popped(cmd)
    /\ IF Ring!Front(cmd) = None
       THEN up' \in BOOLEAN /\ UNCHANGED subscribed
       ELSE /\ subscribed' =
                  IF Ring!Front(cmd)[1] = "sub"
                  THEN subscribed \cup {Ring!Front(cmd)[2]}
                  ELSE subscribed \ {Ring!Front(cmd)[2]}
            /\ UNCHANGED up
    /\ UNCHANGED <<sessionVars, registryVars, pc, loopVars, pubVars, rejected,
                   budget>>

-----------------------------------------------------------------------------
StrandStep(s) == LoopStep(s) \/ SendChainEnds(s)

Next == /\ up
        /\ \/ \E s \in Sessions :
                 \/ Connect(s) \/ OnAccept(s) \/ OnAcceptError(s)
                 \/ \E o \in {"sub", "unsub"}, ns \in SUBSET Names :
                       OnRead(s, o, ns)
                 \/ OnReadError(s)
                 \/ StrandStep(s)
           \/ \E t \in Topics : PubPop(t)
           \/ PubStep
           \/ SubscriberPops

Spec == Init /\ [][Next]_vars

(***************************************************************************)
(* The executors run every ready handler and the publisher's loop, and a   *)
(* websocket's timeouts end its writes; clients, the feed and the          *)
(* subscriber owe nothing.                                                 *)
(***************************************************************************)
FairSpec == /\ Spec
            /\ \A s \in Sessions : /\ WF_vars(up /\ LoopStep(s))
                                   /\ WF_vars(up /\ SendChainEnds(s))
            /\ WF_vars(up /\ PubStep)

-----------------------------------------------------------------------------
TypeOK ==
    /\ up \in BOOLEAN
    /\ life \in [Sessions -> {"absent", "accepting", "open", "dying", "freed"}]
    /\ refs \in [Sessions -> SUBSET {"read", "send", "pub"}]
    /\ topics \in [Sessions -> SUBSET Names]
    /\ active \subseteq Sessions
    /\ members \in [Topics -> SUBSET Sessions]
    /\ holder \in [Topics -> Agents \cup {None}]
    /\ pc \in [Agents -> {"idle", "next", "marked", "store",
                          "snapshot", "fan", "send", "drop"}]
    /\ op \in [Agents -> {"none", "sub", "unsub", "leave"}]
    /\ todo \in [Agents -> SUBSET Names]
    /\ cur \in [Agents -> Names \cup {None}]
    /\ slot \in [Agents -> Ring!Slots]
    /\ held \in Sessions \cup {None}
    /\ weak \subseteq Sessions
    /\ cmd \in Ring!RingType(Commands)
    /\ subscribed \subseteq Names
    /\ rejected \subseteq Topics
    /\ budget \in [Sessions -> 0 .. MaxMessages]

(***************************************************************************)
(* The inductive invariant behind NoDanglingSession, by parts.             *)
(***************************************************************************)
Busy(a) == pc[a] \in {"next", "marked", "store"}

\* A session is alive exactly while strong pointers to it exist.
LifeMatchesRefs ==
    \A s \in Sessions : refs[s] # {} <=> life[s] \in {"accepting", "open"}

\* An agent in a loop works for a session that is open, or that it destroys.
LoopSubject ==
    \A a \in Agents : Busy(a) =>
        /\ Subject(a) \in Sessions
        /\ op[a] # "none"
        /\ op[a] = "leave" => life[Subject(a)] = "dying"
        /\ op[a] # "leave" => a # Pub /\ life[a] = "open" /\ "read" \in refs[a]

\* While the publisher has a session in hand it owns a pointer to it, until
\* it destroys it.
HeldByPub ==
    /\ pc[Pub] \in {"send", "drop"} => held \in Sessions /\ "pub" \in refs[held]
    /\ pc[Pub] \in {"idle", "snapshot", "fan"} => held = None
    /\ \A s \in Sessions : "pub" \in refs[s] => held = s

StrandPc == \A s \in Sessions : pc[s] \in {"idle", "next", "marked", "store"}

\* Only its destroyer still works for a dying session.
OneDestroyer ==
    \A s \in Sessions :
        pc[Pub] \in {"next", "marked", "store"} /\ held = s => pc[s] = "idle"

\* A dying session has yet to visit every topic it had.
LeaveVisitsAll ==
    \A a \in Agents :
        Busy(a) /\ op[a] = "leave" => topics[Subject(a)] \subseteq todo[a]

SubscribeMarked ==
    \A a \in Agents :
        pc[a] \in {"marked", "store"} /\ op[a] = "sub" =>
            cur[a] \in topics[Subject(a)]

\* symbol::sessions_ never runs ahead of websocket_session::topics, except at
\* the topic its owner is about to leave.
MembershipTracked ==
    \A t \in Topics : \A s \in members[t] :
        \/ t \in topics[s]
        \/ \E a \in {s, Pub} : /\ Subject(a) = s /\ pc[a] = "marked"
                               /\ cur[a] = t /\ op[a] # "sub"

\* An agent in a critical section is at a listed topic; one between the two
\* halves of a push has that topic's mutex.
AtTopic ==
    \A a \in Agents :
        /\ pc[a] = "marked" => cur[a] \in Names
        /\ pc[a] \in {"store", "snapshot"} => cur[a] \in Topics
        /\ pc[a] = "store" => holder[cur[a]] = a

LoopInv ==
    /\ TypeOK /\ AtTopic /\ LifeMatchesRefs /\ LoopSubject /\ HeldByPub /\ StrandPc
    /\ OneDestroyer /\ LeaveVisitsAll /\ SubscribeMarked /\ MembershipTracked

\* What names a session names one that was accepted and is not freed; a weak
\* pointer may outlive it.
Alive(s) == life[s] \in {"open", "dying"}

KnownAlive ==
    /\ \A s \in Sessions : topics[s] # {} => Alive(s)
    /\ \A s \in active : Alive(s)
    /\ \A s \in weak : life[s] \in {"open", "dying", "freed"}
    /\ held # None => Alive(held)

RegistryInv == LoopInv /\ KnownAlive

-----------------------------------------------------------------------------
(* Properties.                                                             *)

\* Every raw websocket_session pointer a set of the server holds, and the
\* publisher's sp, points to a session whose destructor has not finished: the
\* publisher calls weak_from_this() through those in symbol::sessions_.
NoDanglingSession ==
    /\ \A t \in Topics : \A s \in members[t] : Alive(s)
    /\ \A s \in active : Alive(s)
    /\ held # None => Alive(held)

\* Two agents are between the halves of a push only for different topics: with
\* one topic spsc_queue_subscriber_ has the single producer it is made for.
OneProducerPerTopic ==
    \A a, b \in Agents :
        pc[a] = "store" /\ pc[b] = "store" /\ cur[a] = cur[b] => a = b

\* Between two messages the two views of a subscription agree: the session's
\* own topics are exactly the symbols it is registered with.
ViewsAgree ==
    \A s \in Sessions : life[s] = "open" /\ pc[s] = "idle" =>
        topics[s] = {t \in Topics : s \in members[t]}

\* Once the last strong pointer is gone no weak pointer brings the session
\* back, and a freed session stays freed.
NoResurrection ==
    [][\A s \in Sessions :
          /\ life[s] \in {"dying", "freed"} => refs'[s] = {}
          /\ life[s] = "freed" => life'[s] = "freed"]_vars

\* The topics the subscriber will be subscribed to once it has drained the
\* command queue.
Commanded(t) ==
    LET about == {i \in DOMAIN Ring!Contents(cmd) : Ring!Contents(cmd)[i][2] = t}
    IN  IF about = {} THEN t \in subscribed
        ELSE \E i \in about : /\ \A j \in about : j <= i
                              /\ Ring!Contents(cmd)[i][1] = "sub"

\* "First websocket to subscribe to the symbol" (shared_state.cpp:62): with
\* no push of its own under way and none refused, a topic has been commanded
\* from the subscriber exactly when a session is registered with it.
FeedFollowsMembers ==
    \A t \in Topics : holder[t] = None /\ t \notin rejected =>
        (Commanded(t) <=> members[t] # {})

\* The board a topic's sessions see: a topic is left when its UNSUBSCRIBE is
\* in the queue.
OnBoard(t) ==
    members[t] \cup {Subject(a) : a \in {b \in Agents : holder[t] = b /\ op[b] # "sub"}}

Board == INSTANCE SubscriptionBoard
         WITH joined <- [t \in Topics |-> OnBoard(t)],
              requested <- {t \in Topics : Commanded(t)}

\* With one configured topic the registry implements the board: what the feed
\* is asked for changes only with a first join, to SUBSCRIBE, and with a last
\* leave, to UNSUBSCRIBE, in the step that makes it the first or the last.
ImplementsBoard == Board!Spec

\* Every handler and every round of the publisher ends: no agent waits for a
\* symbol's mutex for ever.
HandlersFinish == \A a \in Agents : pc[a] # "idle" ~> pc[a] = "idle"

\* When the feed falls silent, a session whose client is gone is destroyed
\* and has left every topic, however the publisher's pointers to it, its
\* posted sends and its own strand interleave.
GoneIsForgotten ==
    <>[](pc[Pub] = "idle") =>
        \A s \in Sessions :
            (life[s] # "absent" /\ "read" \notin refs[s]) ~>
                /\ life[s] = "freed"
                /\ s \notin active
                /\ \A t \in Topics : s \notin members[t]
=============================================================================
