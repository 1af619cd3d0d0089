------------------------- MODULE SubscriptionBoard --------------------------
(***************************************************************************)
(* What the registry promises the feed, one step per change: a topic is    *)
(* requested from Redis by the session that joins it first and cancelled   *)
(* by the one that leaves it last, and by nothing else.                    *)
(***************************************************************************)
CONSTANTS Sessions, Topics

VARIABLES joined,    \* topic -> the sessions that want it
          requested  \* the topics whose latest command is SUBSCRIBE

vars == <<joined, requested>>

Init == /\ joined = [t \in Topics |-> {}]
        /\ requested = {}

Join(s, t) ==
    /\ s \notin joined[t]
    /\ joined' = [joined EXCEPT ![t] = @ \cup {s}]
    /\ IF joined[t] = {}
       THEN t \notin requested /\ requested' = requested \cup {t}
       ELSE UNCHANGED requested

Leave(s, t) ==
    /\ s \in joined[t]
    /\ joined' = [joined EXCEPT ![t] = @ \ {s}]
    /\ IF joined[t] = {s}
       THEN t \in requested /\ requested' = requested \ {t}
       ELSE UNCHANGED requested

Next == \E s \in Sessions, t \in Topics : Join(s, t) \/ Leave(s, t)

Spec == Init /\ [][Next]_vars
=============================================================================
