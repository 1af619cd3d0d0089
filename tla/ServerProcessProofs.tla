------------------------ MODULE ServerProcessProofs -------------------------
(***************************************************************************)
(* The webserver's process implements HttpServer, whose invariants it      *)
(* inherits for any connections, and its life cycle keeps its promises for *)
(* any setup and any number of threads.                                    *)
(***************************************************************************)
EXTENDS ServerProcess, HttpServerProofs

-----------------------------------------------------------------------------
(* Refinement.                                                             *)

\* A step of the process is a step of HttpServer or leaves it alone.
LEMMA StepImplements == [ProcessNext]_processVars => [Next]_vars
<1> SUFFICES ASSUME [ProcessNext]_processVars PROVE [Next]_vars  OBVIOUS
<1>1. CASE ServeStep  BY <1>1 DEF ServeStep, Next
<1>2. CASE AcceptThrows  BY <1>2 DEF AcceptThrows
<1>3. CASE up /\ LifeNext /\ UNCHANGED vars  BY <1>3
<1>4. CASE UNCHANGED processVars  BY <1>4 DEF processVars
<1>5. QED  BY <1>1, <1>2, <1>3, <1>4 DEF ProcessNext

\* Whatever the life cycle does, the sessions behave as in HttpServer.
THEOREM HttpRefinement == ProcessSpec => ImplementsHttpServer
<1>1. ProcessInit => Init  BY DEF ProcessInit
<1>2. QED  BY <1>1, StepImplements, PTL DEF ProcessSpec, ImplementsHttpServer

-----------------------------------------------------------------------------
(* The life cycle's steps.                                                 *)

LEMMA LifeInitInv == LifeInit => LifeInv
<1> SUFFICES ASSUME LifeInit PROVE LifeInv  OBVIOUS
<1>1. LifeTypeOK
  <2>1. signalled \in BOOLEAN /\ setup \in Setups  BY DEF LifeInit
  <2>2. code \in {-1, 0, 1, 255} /\ (code # -1 <=> phase = "exited")
    BY DEF LifeInit
  <2>3. instances \in 0 .. 1 /\ loops \in 0 .. 3  BY DEF LifeInit
  <2>4. QED  BY <2>1, <2>2, <2>3 DEF LifeInit, LifeTypeOK
<1>2. LifeParts /\ ServesComplete  BY DEF LifeInit, LifeParts, ServesComplete
<1>3. WebserverNeverExits  BY DEF LifeInit, WebserverNeverExits
<1>4. UploaderStaysUp  BY DEF LifeInit, UploaderStaysUp, PoolThreads
<1>5. QED  BY <1>1, <1>2, <1>3, <1>4 DEF LifeInv

\* main, up to the call of a program.
LEMMA MainInv ==
    ASSUME LifeInv, CheckFails \/ RunOnce \/ RunWebserver PROVE LifeInv'
<1> USE DEF LifeInv, LifeTypeOK, LifeParts, ServesComplete,
            WebserverNeverExits, UploaderStaysUp, PoolThreads
<1>1. Failing' = Failing
  <2>1. setup' = setup  BY DEF CheckFails, RunOnce, RunWebserver
  <2>2. QED  BY <2>1 DEF Failing, Checks, HasConfigFile
<1>2. CASE CheckFails
  <2>1. \A i \in Failing : Checks[i][2] \in {0, 1, 255}
    BY DEF Failing, Checks, HasConfigFile
  <2>2. QED  BY <1>1, <1>2, <2>1 DEF CheckFails, Exits
<1>3. CASE RunOnce  BY <1>1, <1>3 DEF RunOnce, Exits
<1>4. CASE RunWebserver  BY <1>1, <1>4 DEF RunWebserver
<1>5. QED  BY <1>2, <1>3, <1>4

\* The turns of main's loop through webserver().
LEMMA WebserverInv ==
    ASSUME LifeInv,
           \/ MakeAddress \/ MakeState \/ Listen \/ Publishes \/ Stop
           \/ WebserverReturns
    PROVE  LifeInv'
<1> USE DEF LifeInv, LifeTypeOK, LifeParts, ServesComplete,
            WebserverNeverExits, UploaderStaysUp, PoolThreads
<1>1. CASE MakeAddress  BY <1>1 DEF MakeAddress, Failing, Checks, HasConfigFile
<1>2. CASE MakeState
  BY <1>2 DEF MakeState, RedisOptions, Instance, Failing, Checks, HasConfigFile
<1>3. CASE Listen  BY <1>3 DEF Listen, Failing, Checks, HasConfigFile
<1>4. CASE Publishes  BY <1>4 DEF Publishes, Failing, Checks, HasConfigFile
<1>5. CASE Stop  BY <1>5 DEF Stop, Failing, Checks, HasConfigFile
<1>6. CASE WebserverReturns
  BY <1>6 DEF WebserverReturns, Failing, Checks, HasConfigFile
<1>7. QED  BY <1>1, <1>2, <1>3, <1>4, <1>5, <1>6

\* The vendor client, the uploader, signals, and a session that cannot be made.
LEMMA OtherInv ==
    ASSUME LifeInv,
           VendorEnds \/ UploaderLoop \/ UploaderStops \/ Signal \/ AcceptThrows
    PROVE  LifeInv'
<1> USE DEF LifeInv, LifeTypeOK, LifeParts, ServesComplete,
            WebserverNeverExits, UploaderStaysUp, PoolThreads
<1>1. CASE VendorEnds
  BY <1>1 DEF VendorEnds, Exits, Failing, Checks, HasConfigFile
<1>2. CASE UploaderLoop
  BY <1>2 DEF UploaderLoop, Failing, Checks, HasConfigFile
<1>3. CASE UploaderStops
  <2>1. phase = "uploader" /\ loops < 3 /\ signalled' \in BOOLEAN
    BY <1>3 DEF UploaderStops
  <2>2. /\ phase' \in {"exited", "stopping"}
        /\ code' \in {-1, 0} /\ (code' # -1 <=> phase' = "exited")
        /\ UNCHANGED <<setup, at, instances, loops>>
    BY <1>3, <2>1 DEF UploaderStops, Exits
  <2>3. QED  BY <2>1, <2>2
<1>4. CASE Signal  BY <1>4 DEF Signal, Failing, Checks, HasConfigFile
<1>5. CASE AcceptThrows
  BY <1>5 DEF AcceptThrows, IocRuns, Failing, Checks, HasConfigFile
<1>6. QED  BY <1>1, <1>2, <1>3, <1>4, <1>5

LEMMA LifeStutter == LifeInv /\ UNCHANGED lifeVars => LifeInv'
  BY DEF lifeVars, LifeInv, LifeTypeOK, LifeParts, ServesComplete,
         WebserverNeverExits, UploaderStaysUp, PoolThreads, Failing, Checks,
         HasConfigFile

LEMMA LifeStepInv == LifeInv /\ [ProcessNext]_processVars => LifeInv'
  BY MainInv, WebserverInv, OtherInv, LifeStutter
  DEF ProcessNext, ServeStep, LifeNext, LifeStep, processVars

\* The life cycle of the process, for any setup.
THEOREM LifeInvariance == ProcessSpec => []LifeInv
<1>1. ProcessInit => LifeInv  BY LifeInitInv DEF ProcessInit
<1>2. QED  BY <1>1, LifeStepInv, PTL DEF ProcessSpec

-----------------------------------------------------------------------------
(* The theorems.                                                           *)

\* The invariants of the sessions and of the life cycle.
THEOREM ProcessInvariance == ProcessSpec => []ProcessInv
<1>1. ProcessSpec => Spec  BY HttpRefinement DEF ImplementsHttpServer, Spec
<1>2. LifeInv /\ HttpInv => ProcessInv  BY DEF ProcessInv
<1>3. QED  BY <1>1, <1>2, Invariance, LifeInvariance, PTL

\* A webserver that serves has everything it reads.
THEOREM Complete == ProcessSpec => []ServesComplete
<1>1. LifeInv => ServesComplete  BY DEF LifeInv
<1>2. QED  BY <1>1, LifeInvariance, PTL

\* Nothing gets the webserver to the end of main.
THEOREM NeverExits == ProcessSpec => []WebserverNeverExits
<1>1. LifeInv => WebserverNeverExits  BY DEF LifeInv
<1>2. QED  BY <1>1, LifeInvariance, PTL

\* No signal ends the uploader once its three loops run.
THEOREM UploaderStays == ProcessSpec => []UploaderStaysUp
<1>1. LifeInv => UploaderStaysUp  BY DEF LifeInv
<1>2. QED  BY <1>1, LifeInvariance, PTL

\* Once the Mongo instance was made outside a webserver that serves, nothing
\* makes one serve any more.
Spent == instances = 1 /\ phase # "serving" /\ at # "listen"

\* No turn of main's loop serves after the one that made the Mongo instance.
THEOREM InVain == ProcessSpec => RetryInVain
<1>1. Spent /\ [ProcessNext]_processVars => Spent'
  BY DEF Spent, ProcessNext, ServeStep, AcceptThrows, LifeNext, LifeStep,
         CheckFails, RunOnce, RunWebserver, MakeAddress, MakeState,
         RedisOptions, Instance,
         Listen, Publishes, Stop, WebserverReturns, VendorEnds, UploaderLoop,
         UploaderStops, Signal, Exits, lifeVars, processVars
<1>2. instances = 1 /\ phase = "creating" /\ at # "listen" => Spent
  BY DEF Spent
<1>3. Spent => phase # "serving"  BY DEF Spent
<1>4. QED  BY <1>1, <1>2, <1>3, PTL DEF ProcessSpec, RetryInVain

\* A session needs a thread of ioc, and an environment, to begin.
THEOREM NobodyServed == ProcessSpec => []ServesNobody
<1>1. ProcessInit => ServesNobody  BY DEF ProcessInit, Init, ServesNobody
<1>2. ProcessInv /\ ServesNobody /\ [ProcessNext]_processVars => ServesNobody'
  <2> SUFFICES ASSUME ProcessInv, ServesNobody, [ProcessNext]_processVars
               PROVE  ServesNobody'
    OBVIOUS
  <2>1. setup' = setup
    BY DEF ProcessNext, ServeStep, AcceptThrows, LifeNext, LifeStep,
           CheckFails, RunOnce, RunWebserver, MakeAddress, MakeState, Listen,
           Publishes, Stop, WebserverReturns, VendorEnds, UploaderLoop,
           UploaderStops, Signal, lifeVars, processVars
  <2>2. CASE UNCHANGED vars
    BY <2>1, <2>2 DEF vars, ServesNobody, IocThreads
  <2>3. CASE AcceptThrows \/ (up /\ LifeNext /\ UNCHANGED vars)
    BY <2>2, <2>3 DEF AcceptThrows
  <2>4. CASE ServeStep
    <3> SUFFICES ASSUME ~ setup.jwt, NEW c \in Conns PROVE sock'[c] = "none"
      BY <2>1, <2>4 DEF ServeStep, IocRuns, ServesNobody, IocThreads
    <3>1. \A d \in Conns : /\ sock[d] = "none" /\ refs[d] = {}
                           /\ task[d] = "none" /\ write[d] = "none"
      BY DEF ServesNobody, ProcessInv, HttpInv, TypeOK, Sockets
    <3>2. \A d \in Conns : ~ SessionStep(d) /\ ~ TaskStep(d)
      BY <3>1
      DEF SessionStep, TaskStep, OnReadError, OnUpgrade, Reply, Post, DoWrite,
          OnWrite, OnWriteOrphan, TaskStarts, TaskPosts, TaskEnds
    <3>3. AcceptError  BY <2>4, <3>2 DEF ServeStep
    <3>4. QED  BY <3>1, <3>3 DEF AcceptError
  <2>5. QED  BY <2>2, <2>3, <2>4 DEF ProcessNext, processVars
<1>3. QED  BY <1>1, <1>2, ProcessInvariance, PTL DEF ProcessSpec
=============================================================================
