----------------------------- MODULE QuotePath ------------------------------
(***************************************************************************)
(* From the vendor to the publisher: the vendor client publishes a quote   *)
(* on the Redis channel named by its symbol, and Redis passes it on to the *)
(* webserver's subscriber if it is subscribed to that channel then.  Two   *)
(* processes, each with its own failures, and nothing but Redis between    *)
(* them.                                                                   *)
(***************************************************************************)
EXTENDS VendorClient, FeedSubscriber

vars == <<vendorVars, feedVars>>

Init == VendorInit /\ FeedInit

VendorStep ==
    /\ VendorNext
    /\ IF published' = published THEN UNCHANGED feedVars
                                 ELSE Deliver(published'[Len(published')])

FeedStep == FeedNext /\ UNCHANGED vendorVars

Next == VendorStep \/ FeedStep

\* The loop and publish() have a thread each; the vendor's threads are those
\* of VendorFairness.
FeedFairness ==
    /\ WF_feedVars(serving /\ Loop /\ UNCHANGED vendorVars)
    /\ WF_feedVars(serving /\ HandOver /\ UNCHANGED vendorVars)

Spec == Init /\ [][Next]_vars /\ VendorFairness /\ FeedFairness

-----------------------------------------------------------------------------
(* Properties.                                                             *)

\* The place of a quote in the order of publication.
Place(q) == CHOOSE i \in DOMAIN published : published[i] = q

\* Quotes come out of the feed in the order they were published in, and each
\* at most once, through both processes and whatever is dropped on the way.
FeedFollowsChannel ==
    LET quotesIn == {i \in DOMAIN InFeed : IsQuote(InFeed[i])}
    IN  /\ \A i \in quotesIn :
              \E k \in DOMAIN published : published[k] = InFeed[i]
        /\ \A i, j \in quotesIn :
              i < j => Place(InFeed[i]) < Place(InFeed[j])

\* Every quote Redis sends is read from the connection, while there is a topic
\* left and no command was lost: the count does not stop the loop's reads.
QuotesFlow ==
    \A n \in 1 .. MaxQuotes :
        (\E i \in DOMAIN inbox : inbox[i].n = n)
        ~> \/ \A i \in DOMAIN inbox : inbox[i].n # n
           \/ subs = {} \/ missed \/ conn # "ok" \/ ~ serving
=============================================================================
