--------------------------- MODULE ServerProcess ----------------------------
(***************************************************************************)
(* The webserver's process: the listener and the http_sessions of          *)
(* HttpServer run on the threads that ServerLifeCycle's webserver() gives  *)
(* ioc and the background worker, and stop with them.                      *)
(***************************************************************************)
EXTENDS HttpServer, ServerLifeCycle

processVars == <<vars, lifeVars>>

ProcessInit == Init /\ LifeInit

\* Fault: the main thread runs ioc too.
FaultyIocRuns == phase = "serving"

\* Handlers of the sessions and of the background worker are called.
IocRuns == phase = "serving" /\ IocThreads > 0

\* Fault: the socket of a session that cannot be made stays open.
FaultyAcceptThrows ==
    /\ up /\ IocRuns /\ listening /\ ~ setup.jwt
    /\ \E c \in Conns : sock[c] = "none" /\ sock' = [sock EXCEPT ![c] = "session"]
    /\ phase' = "aborted"
    /\ UNCHANGED <<up, listening, refs, task, write, keep, setup, code, at,
                   instances, loops, signalled>>

\* The constructor of http_session reads two variables of the environment, or
\* throws out of ioc.run().
AcceptThrows ==
    /\ up /\ IocRuns /\ listening /\ ~ setup.jwt
    /\ \E c \in Conns : sock[c] = "none"
    /\ phase' = "aborted"
    /\ UNCHANGED <<vars, setup, code, at, instances, loops, signalled>>

ServeStep == /\ up /\ IocRuns
             /\ \/ AcceptError
                \/ \E c \in Conns : \/ setup.jwt /\ Accept(c)
                                    \/ SessionStep(c) \/ TaskStep(c)
             /\ UNCHANGED lifeVars

ProcessNext == ServeStep \/ AcceptThrows \/ (up /\ LifeNext /\ UNCHANGED vars)

ProcessSpec ==
    /\ ProcessInit /\ [][ProcessNext]_processVars
    /\ WF_processVars(up /\ LifeStep /\ UNCHANGED vars)
    /\ \A c \in Conns :
          /\ WF_processVars(up /\ IocRuns /\ SessionStep(c) /\ UNCHANGED lifeVars)
          /\ WF_processVars(up /\ IocRuns /\ TaskStep(c) /\ UNCHANGED lifeVars)

-----------------------------------------------------------------------------
\* The inductive invariants of the sessions and of the life cycle.
ProcessInv == HttpInv /\ LifeInv

-----------------------------------------------------------------------------
(* Properties.                                                             *)

\* Configured with one thread, or none, the webserver accepts nobody; without
\* the variables of the token check it does not survive the first connection.
ServesNobody ==
    IocThreads = 0 \/ ~ setup.jwt => \A c \in Conns : sock[c] = "none"

\* A signal ends the service, not the process: with threads to take it, it
\* gets its handler, and no session goes on.
SignalEndsService ==
    signalled /\ phase = "serving" /\ IocThreads > 0
        ~> phase # "serving" \/ ~ up

\* Every session ends as long as the threads run: none holds a pointer to
\* itself, and what each handler leaves to the next does not go round.
SessionsEndWhileServing ==
    \A c \in Conns : refs[c] # {} ~> refs[c] = {} \/ ~ up \/ phase # "serving"

\* A complete setup gets the webserver to serve, unless a signal comes first or
\* a turn of the loop fails after the Mongo instance was made.
StartsServing ==
    (phase = "creating" /\ setup.options /\ setup.redis /\ setup.origins)
        ~> \/ phase \in {"serving", "killed"}
           \/ phase = "creating" /\ instances = 1 /\ at # "listen"

\* ServerProcess only ever does what HttpServer allows.
ImplementsHttpServer == Init /\ [][Next]_vars
=============================================================================
