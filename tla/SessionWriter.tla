--------------------------- MODULE SessionWriter ----------------------------
(***************************************************************************)
(* The outgoing half of one websocket_session: send() posts on_send to the *)
(* session's strand, on_send appends to queue_ and starts an async_write   *)
(* when none is running, on_write takes the written quote off the queue    *)
(* and starts the next.  The n-th quote sent to the session is the number  *)
(* n.  Every posted handler, the running write, the read chain and the     *)
(* publisher's sp hold a strong pointer; without one the session is gone.  *)
(***************************************************************************)
EXTENDS Naturals, Sequences, FiniteSets

CONSTANT MaxQuotes   \* bound: quotes sent to the session

ASSUME MaxQuotesAssumption == MaxQuotes \in Nat

VARIABLES
    reading,  \* the read chain is alive
    pub,      \* the publisher's sp: none, locked, or sent through
    sent,     \* quotes handed to send()
    posted,   \* the strand's on_send handlers, oldest first
    queue_,   \* websocket_session::queue_
    writes,   \* quotes with an async_write outstanding
    wire,     \* quotes written to the client, in order
    failed    \* a write ended with an error

vars == <<reading, pub, sent, posted, queue_, writes, wire, failed>>

\* A strong pointer to the session exists.
Exists == reading \/ pub # "none" \/ posted # <<>> \/ writes # {}

Init == /\ reading = TRUE
        /\ pub = "none"
        /\ sent = 0
        /\ posted = <<>>
        /\ queue_ = <<>>
        /\ writes = {}
        /\ wire = <<>>
        /\ failed = FALSE

\* The publisher's wp.lock(), sp->send(ss), and the end of sp's scope.
Lock == /\ Exists /\ pub = "none" /\ sent < MaxQuotes
        /\ pub' = "locked"
        /\ UNCHANGED <<reading, sent, posted, queue_, writes, wire, failed>>

Send == /\ pub = "locked"
        /\ pub' = "sent"
        /\ sent' = sent + 1
        /\ posted' = Append(posted, sent + 1)
        /\ UNCHANGED <<reading, queue_, writes, wire, failed>>

Drop == /\ pub = "sent"
        /\ pub' = "none"
        /\ UNCHANGED <<reading, sent, posted, queue_, writes, wire, failed>>

\* Fault: the size of the queue is compared before the quote is counted out.
FaultyOnSendNeverWrites ==
    /\ posted # <<>>
    /\ posted' = Tail(posted)
    /\ queue_' = Append(queue_, Head(posted))
    /\ writes' = IF Len(queue_') > 0 THEN writes
                                     ELSE writes \cup {Head(queue_')}
    /\ UNCHANGED <<reading, pub, sent, wire, failed>>

\* Fault: the newest quote is put before those that wait.
FaultyOnSendPushesFront ==
    /\ posted # <<>>
    /\ posted' = Tail(posted)
    /\ queue_' = <<Head(posted)>> \o queue_
    /\ writes' = IF Len(queue_') > 1 THEN writes
                                     ELSE writes \cup {Head(queue_')}
    /\ UNCHANGED <<reading, pub, sent, wire, failed>>

\* "Are we already writing?": whatever is queued is taken to be under way.
OnSend == /\ posted # <<>>
          /\ posted' = Tail(posted)
          /\ queue_' = Append(queue_, Head(posted))
          /\ writes' = IF Len(queue_') > 1 THEN writes
                                           ELSE writes \cup {Head(queue_')}
          /\ UNCHANGED <<reading, pub, sent, wire, failed>>

\* The write of the front has ended well.
OnWrite == /\ writes # {}
           /\ queue_' = Tail(queue_)
           /\ \E n \in writes :
                 /\ wire' = Append(wire, n)
                 /\ writes' = (writes \ {n}) \cup
                              (IF queue_' = <<>> THEN {} ELSE {Head(queue_')})
           /\ UNCHANGED <<reading, pub, sent, posted, failed>>

\* Fault: the quote that failed is erased before the error is looked at.
FaultyOnWriteError ==
    /\ \E n \in writes : writes' = writes \ {n}
    /\ failed' = TRUE
    /\ queue_' = Tail(queue_)
    /\ UNCHANGED <<reading, pub, sent, posted, wire>>

\* fail(ec, "write"): the quote stays in the queue and no write follows.
OnWriteError == /\ \E n \in writes : writes' = writes \ {n}
                /\ failed' = TRUE
                /\ UNCHANGED <<reading, pub, sent, posted, queue_, wire>>

OnReadError == /\ reading
               /\ reading' = FALSE
               /\ UNCHANGED <<pub, sent, posted, queue_, writes, wire, failed>>

Next == Lock \/ Send \/ Drop \/ OnSend \/ OnWrite \/ OnWriteError \/ OnReadError

Spec == Init /\ [][Next]_vars

\* The strand runs every posted handler, and a websocket's timeouts end every
\* write; the publisher ends what it began.
FairSpec == /\ Spec
            /\ WF_vars(OnSend)
            /\ WF_vars(OnWrite \/ OnWriteError)
            /\ WF_vars(Send \/ Drop)

-----------------------------------------------------------------------------
TypeOK == /\ reading \in BOOLEAN
          /\ pub \in {"none", "locked", "sent"}
          /\ sent \in 0 .. MaxQuotes
          /\ posted \in Seq(1 .. MaxQuotes)
          /\ queue_ \in Seq(1 .. MaxQuotes)
          /\ writes \subseteq 1 .. MaxQuotes
          /\ wire \in Seq(1 .. MaxQuotes)
          /\ failed \in BOOLEAN

(***************************************************************************)
(* The inductive invariant: quotes 1 .. sent lie, in order, on the wire,   *)
(* in queue_ and in the strand's handlers, and the front of queue_ is what *)
(* is being written.                                                       *)
(***************************************************************************)
Numbered(q, k) == \A i \in 1 .. Len(q) : q[i] = k + i

InOrder ==
    /\ sent = Len(wire) + Len(queue_) + Len(posted)
    /\ Numbered(wire, 0)
    /\ Numbered(queue_, Len(wire))
    /\ Numbered(posted, Len(wire) + Len(queue_))

FrontIsWritten ==
    /\ failed => queue_ # <<>>
    /\ writes = IF failed \/ queue_ = <<>> THEN {} ELSE {Head(queue_)}

SentOnce == pub = "locked" => sent < MaxQuotes

WriterInv == TypeOK /\ InOrder /\ FrontIsWritten /\ SentOnce

-----------------------------------------------------------------------------
(* Properties.                                                             *)

\* The last strong pointer goes only when the client has every quote the
\* publisher sent it, or a write has failed: no quote dies with the session.
NothingStranded ==
    ~ Exists => failed \/ (posted = <<>> /\ queue_ = <<>> /\ Len(wire) = sent)

Feed == INSTANCE OrderedFeed WITH delivered <- wire, cut <- failed

\* The writer implements the ordered feed: the wire grows by the next quote
\* and by nothing else, and not at all after a failed write.
ImplementsFeed == Feed!Spec

\* Every quote the publisher sends is written, unless a write fails.
QuotesDelivered ==
    \A n \in 1 .. MaxQuotes : (sent >= n) ~> (Len(wire) >= n \/ failed)
=============================================================================
