-------------------------- MODULE HttpServerProofs --------------------------
(***************************************************************************)
(* HttpInv is an invariant of HttpServer for any set of connections, and   *)
(* with it TaskHasSession and SocketHasOneOwner.                           *)
(***************************************************************************)
EXTENDS HttpServer, TLAPS

\* No connection yet.
LEMMA InitInv == Init => HttpInv
  BY DEF Init, HttpInv, TypeOK, Reads, Replies, Tasks, Writes, Sockets

-----------------------------------------------------------------------------
(* One lemma per group of actions that end alike.                          *)

\* The listener makes a session.
LEMMA AcceptInv ==
    ASSUME HttpInv, NEW c \in Conns, Accept(c) PROVE HttpInv'
  BY DEF Accept, HttpInv, TypeOK, Reads, Replies, Tasks, Writes, Sockets

\* The read ends: what follows takes over its only pointer.
LEMMA ReadInv ==
    ASSUME HttpInv, NEW c \in Conns,
           OnReadError(c) \/ OnUpgrade(c) \/ Reply(c) \/ Post(c)
    PROVE  HttpInv'
<1> USE DEF HttpInv, TypeOK, Reads, Replies, Tasks, Writes, Sockets
<1>1. CASE OnReadError(c)  BY <1>1 DEF OnReadError, Release
<1>2. CASE OnUpgrade(c)  BY <1>2 DEF OnUpgrade
<1>3. CASE Reply(c)  BY <1>3 DEF Reply
<1>4. CASE Post(c)  BY <1>4 DEF Post
<1>5. QED  BY <1>1, <1>2, <1>3, <1>4

\* The pool holds the session until its handler is destroyed.
LEMMA TaskInv ==
    ASSUME HttpInv, NEW c \in Conns, TaskStep(c) PROVE HttpInv'
<1> USE DEF HttpInv, TypeOK, Reads, Replies, Tasks, Writes, Sockets
<1>1. CASE TaskStarts(c)  BY <1>1 DEF TaskStarts
<1>2. CASE TaskPosts(c)  BY <1>2 DEF TaskPosts
<1>3. CASE TaskEnds(c)  BY <1>3 DEF TaskEnds, Release
<1>4. QED  BY <1>1, <1>2, <1>3 DEF TaskStep

\* Writing the response.
LEMMA WriteInv ==
    ASSUME HttpInv, NEW c \in Conns,
           DoWrite(c) \/ OnWrite(c) \/ OnWriteOrphan(c)
    PROVE  HttpInv'
<1> USE DEF HttpInv, TypeOK, Reads, Replies, Tasks, Writes, Sockets
<1>1. CASE DoWrite(c)  BY <1>1 DEF DoWrite, Release
<1>2. CASE OnWrite(c)  BY <1>2 DEF OnWrite, Release
<1>3. CASE OnWriteOrphan(c)  BY <1>3 DEF OnWriteOrphan
<1>4. QED  BY <1>1, <1>2, <1>3

-----------------------------------------------------------------------------

\* The strong pointers tell how far each request is.
THEOREM Invariance == Spec => []HttpInv
<1>1. HttpInv /\ UNCHANGED vars => HttpInv'
  BY DEF vars, HttpInv, TypeOK, Reads, Replies, Tasks, Writes, Sockets
<1>2. HttpInv /\ Next => HttpInv'
  <2> SUFFICES ASSUME HttpInv, Next PROVE HttpInv'  OBVIOUS
  <2>1. CASE AcceptError
    BY <2>1
    DEF AcceptError, HttpInv, TypeOK, Reads, Replies, Tasks, Writes, Sockets
  <2>2. ASSUME NEW c \in Conns, Accept(c) \/ SessionStep(c) \/ TaskStep(c)
        PROVE  HttpInv'
    BY <2>2, AcceptInv, ReadInv, TaskInv, WriteInv DEF SessionStep
  <2>3. QED  BY <2>1, <2>2 DEF Next
<1>3. QED  BY <1>1, <1>2, InitInv, PTL DEF Spec

\* The background worker never works for a destroyed session.
THEOREM TasksHaveSessions == Spec => []TaskHasSession
<1>1. HttpInv => TaskHasSession
  BY DEF HttpInv, TypeOK, Tasks, Sockets, TaskHasSession
<1>2. QED  BY <1>1, Invariance, PTL

\* A socket handed to a websocket_session has no other writer.
THEOREM OneOwner == Spec => []SocketHasOneOwner
<1>1. HttpInv => SocketHasOneOwner
  BY DEF HttpInv, TypeOK, Sockets, SocketHasOneOwner
<1>2. QED  BY <1>1, Invariance, PTL
=============================================================================
