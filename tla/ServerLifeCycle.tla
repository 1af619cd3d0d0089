-------------------------- MODULE ServerLifeCycle ---------------------------
(***************************************************************************)
(* main(): from the command line, the environment and the configuration    *)
(* file to one of three programs, and the end of each.  The websocket      *)
(* vendor client runs until a signal (VendorClient); the redis uploader    *)
(* puts three endless loops on a pool of three threads; the webserver is   *)
(* made, run and, after an exception or its return, made again for ever.   *)
(***************************************************************************)
EXTENDS Integers, Sequences, FiniteSets

CONSTANTS MaxThreads,   \* bound: the threads asked for, 0 .. MaxThreads
          Transient     \* whether the system may lack a resource for a while

ASSUME LifeAssumption == MaxThreads \in Nat /\ Transient \in BOOLEAN

VARIABLES
    setup,       \* what the process is started with
    phase,       \* starting, vendor, uploader, creating, serving, stopping,
                 \*   exited, killed (by the signal itself) or aborted (by an
                 \*   exception on another thread)
    code,        \* the exit code
    at,          \* webserver(), creating: address, state or listen
    instances,   \* mongocxx::instances made so far
    loops,       \* endless loops running: the uploader's, or publish()
    signalled    \* a signal waits for its handler

lifeVars == <<setup, phase, code, at, instances, loops, signalled>>

\* commandLine, file, options: it can be parsed, opened, and has what the
\* program reads; redis: REDIS_PORT is unset or a number; jwt: both variables
\* of the token check are set; threads: a number after atoi.
Setups ==
    [commandLine : BOOLEAN, nodeEnv : BOOLEAN, file : BOOLEAN,
     asks : {"run", "help", "version"},
     program : {"ws-vendor", "redis-uploader", "webserver", "other"},
     level : {"known", "other", "none"}, options : BOOLEAN, redis : BOOLEAN,
     origins : BOOLEAN, jwt : BOOLEAN, threads : 0 .. MaxThreads]

LifeInit == /\ setup \in Setups
            /\ phase = "starting"
            /\ code = -1
            /\ at = "address"
            /\ instances = 0
            /\ loops = 0
            /\ signalled = FALSE

Exits(c) == phase' = "exited" /\ code' = c

-----------------------------------------------------------------------------
(* main().                                                                 *)

\* getConfigFile: the name of the file is made of NODE_ENV.
HasConfigFile == setup.nodeEnv

\* What ends main before a program is called, in its order, and the exit code.
\* 255 is -1.
Checks == LET s == setup
          IN  << <<s.commandLine, 1>>,
                 <<HasConfigFile, 255>>,
                 <<s.file, 0>>,
                 <<s.asks = "run", 0>>,
                 <<s.program # "other", 1>>,
                 <<s.level # "none", 1>>,
                 <<s.level = "known", 1>> >>

Failing == {i \in DOMAIN Checks : ~ Checks[i][1]}

CheckFails ==
    /\ phase = "starting" /\ Failing # {}
    /\ \E i \in Failing : (\A j \in Failing : i <= j) /\ Exits(Checks[i][2])
    /\ UNCHANGED <<setup, at, instances, loops, signalled>>

\* What the program reads before it runs: a missing option, a port that is no
\* number and, in the vendor client, room for -1 threads throw.
Ready == /\ setup.options /\ setup.redis
         /\ setup.program = "ws-vendor" => setup.threads > 0

\* The vendor client and the uploader are called once; an exception is caught
\* at the end of main.
RunOnce ==
    /\ phase = "starting" /\ Failing = {}
    /\ setup.program \in {"ws-vendor", "redis-uploader"}
    /\ \/ /\ Ready
          /\ phase' = IF setup.program = "ws-vendor" THEN "vendor" ELSE "uploader"
          /\ UNCHANGED code
       \/ ~ Ready /\ Exits(1)
    /\ UNCHANGED <<setup, at, instances, loops, signalled>>

RunWebserver ==
    /\ phase = "starting" /\ Failing = {} /\ setup.program = "webserver"
    /\ phase' = "creating"
    /\ UNCHANGED <<setup, code, at, instances, loops, signalled>>

-----------------------------------------------------------------------------
(* The webserver: each turn of the loop in main goes through webserver().  *)

\* Fault: a turn without a thread to serve with is refused as well.
FaultyMakeAddress ==
    /\ phase = "creating" /\ at = "address" /\ setup.options /\ setup.threads > 0
    /\ at' = "state"
    /\ UNCHANGED <<setup, phase, code, instances, loops, signalled>>

\* make_address; a turn that ends here by an exception changes nothing.
MakeAddress ==
    /\ phase = "creating" /\ at = "address" /\ setup.options
    /\ at' = "state"
    /\ UNCHANGED <<setup, phase, code, instances, loops, signalled>>

\* Fault: the driver lets an instance be made again.
FaultyInstance == TRUE

\* mongocxx refuses a second instance, the first one destroyed or not.
Instance == instances = 0

\* getRedisConnectionOptions of the services: REDIS_PORT has to be a number
\* although host and port are fixed right after it was read.
RedisOptions == setup.redis

\* The shared state and its router: Mongo, the other clients, the origins.
MakeState ==
    /\ phase = "creating" /\ at = "state"
    /\ IF Instance
       THEN /\ instances' = 1
            /\ at' = IF RedisOptions /\ setup.origins THEN "listen" ELSE "address"
       ELSE at' = "address" /\ UNCHANGED instances
    /\ UNCHANGED <<setup, phase, code, loops, signalled>>

\* Listener, subscriber, publisher, the signal set and the threads.
Listen ==
    /\ phase = "creating" /\ at = "listen"
    /\ \/ phase' = "serving"
       \/ Transient /\ UNCHANGED phase
    /\ at' = "address"
    /\ UNCHANGED <<setup, code, instances, loops, signalled>>

\* publisher::publish() begins its endless loop on the thread of ioc_publisher.
Publishes ==
    /\ phase = "serving" /\ loops = 0
    /\ loops' = 1
    /\ UNCHANGED <<setup, phase, code, at, instances, signalled>>

\* max(1, threads) - 1 threads run ioc, and as many the background worker.
IocThreads == (IF setup.threads > 1 THEN setup.threads ELSE 1) - 1

\* Fault: the handler stops ioc_publisher only, and does not wait again.
FaultyStop ==
    /\ phase = "serving" /\ signalled /\ IocThreads > 0
    /\ signalled' = FALSE
    /\ UNCHANGED <<setup, phase, code, at, instances, loops>>

\* The handler of the signal stops the io_contexts.
Stop ==
    /\ phase = "serving" /\ signalled /\ IocThreads > 0
    /\ phase' = "stopping"
    /\ signalled' = FALSE
    /\ UNCHANGED <<setup, code, at, instances, loops>>

\* The joins return if publish() had not begun; main calls webserver() again.
WebserverReturns ==
    /\ phase = "stopping" /\ loops = 0
    /\ phase' = "creating"
    /\ UNCHANGED <<setup, code, at, instances, loops, signalled>>

-----------------------------------------------------------------------------
(* Vendor client and uploader.                                             *)

VendorEnds ==
    /\ phase = "vendor" /\ signalled
    /\ Exits(0)
    /\ UNCHANGED <<setup, at, instances, loops, signalled>>

PoolThreads == 3

\* subscribe(), parse() or publish() takes a thread of the pool; subscribe()
\* may find no Redis, and its exception ends the process.
UploaderLoop ==
    /\ phase = "uploader" /\ loops < 3
    /\ \/ loops' = loops + 1 /\ UNCHANGED phase
       \/ phase' = "aborted" /\ UNCHANGED loops
    /\ UNCHANGED <<setup, code, at, instances, signalled>>

\* The handler of the signal needs a thread too, and join() waits for the
\* loops that have begun.
UploaderStops ==
    /\ phase = "uploader" /\ signalled /\ loops < PoolThreads
    /\ signalled' = FALSE
    /\ IF loops = 0 THEN Exits(0) ELSE phase' = "stopping" /\ UNCHANGED code
    /\ UNCHANGED <<setup, at, instances, loops>>

\* SIGINT or SIGTERM: without a signal_set it kills, and a second one of the
\* same finds no handler any more.
Signal ==
    /\ phase \in {"starting", "creating", "serving", "vendor", "uploader"}
    /\ ~ signalled
    /\ IF phase \in {"starting", "creating"}
       THEN phase' = "killed" /\ UNCHANGED signalled
       ELSE signalled' = TRUE /\ UNCHANGED phase
    /\ UNCHANGED <<setup, code, at, instances, loops>>

LifeStep == \/ CheckFails \/ RunOnce \/ RunWebserver
            \/ MakeAddress \/ MakeState \/ Listen \/ Publishes
            \/ Stop \/ WebserverReturns
            \/ VendorEnds \/ UploaderLoop \/ UploaderStops

LifeNext == LifeStep \/ Signal

-----------------------------------------------------------------------------
LifeTypeOK ==
    /\ setup \in Setups
    /\ phase \in {"starting", "vendor", "uploader", "creating", "serving",
                  "stopping", "exited", "killed", "aborted"}
    /\ code \in {-1, 0, 1, 255} /\ (code # -1 <=> phase = "exited")
    /\ at \in {"address", "state", "listen"}
    /\ instances \in 0 .. 1 /\ loops \in 0 .. 3
    /\ signalled \in BOOLEAN

-----------------------------------------------------------------------------
(* Properties.                                                             *)

\* A webserver that was made serves with every option it reads and with the
\* one Mongo instance the process can have.
ServesComplete ==
    phase = "serving" => /\ setup.options /\ setup.redis /\ setup.origins
                         /\ instances = 1

\* "This should be done only once." (mongo_service.hpp:62): once it was done,
\* no later turn of main's loop gets the webserver to serve, whatever ended
\* the turn before.
RetryInVain ==
    [](instances = 1 /\ phase = "creating" /\ at # "listen" => [](phase # "serving"))

\* The webserver never exits: the end of main, with Aws::ShutdownAPI, is not
\* reached by a signal, an exception or a return.
WebserverNeverExits ==
    setup.program = "webserver" /\ Failing = {} => phase # "exited"

\* Once the uploader's loops have its three threads no signal ends it.
UploaderStaysUp == loops = PoolThreads => phase = "uploader"

\* The setup is what the process was started with, and where a turn of main's
\* loop is says what it has found in it.
LifeParts ==
    /\ phase = "vendor" => setup.program = "ws-vendor"
    /\ phase = "uploader" => setup.program = "redis-uploader"
    /\ at \in {"state", "listen"} => setup.options
    /\ at = "listen" => setup.redis /\ setup.origins /\ instances = 1

\* The inductive invariant.
LifeInv == /\ LifeTypeOK /\ LifeParts
           /\ ServesComplete /\ WebserverNeverExits /\ UploaderStaysUp
=============================================================================
