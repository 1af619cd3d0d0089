---------------------------- MODULE OrderedFeed -----------------------------
(***************************************************************************)
(* What a websocket session promises the publisher: the client receives    *)
(* the quotes sent to it in their order, each at most once and without a   *)
(* gap, until a write fails; then it receives nothing more.                *)
(***************************************************************************)
EXTENDS Naturals, Sequences

VARIABLES sent,       \* quotes handed to the session, numbered from 1
          delivered,  \* the quotes the client has received
          cut         \* a write has failed

vars == <<sent, delivered, cut>>

Init == sent = 0 /\ delivered = <<>> /\ cut = FALSE

Send == sent' = sent + 1 /\ UNCHANGED <<delivered, cut>>

Deliver == /\ ~ cut /\ Len(delivered) < sent
           /\ delivered' = Append(delivered, Len(delivered) + 1)
           /\ UNCHANGED <<sent, cut>>

Cut == ~ cut /\ cut' = TRUE /\ UNCHANGED <<sent, delivered>>

Next == Send \/ Deliver \/ Cut

Spec == Init /\ [][Next]_vars
=============================================================================
