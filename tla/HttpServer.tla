----------------------------- MODULE HttpServer -----------------------------
(***************************************************************************)
(* The listener and its http_sessions.  A session reads one request under  *)
(* a timeout of 30 seconds and answers it itself, hands its socket over to *)
(* a websocket_session, or posts the request to the background pool, whose *)
(* handler posts do_write back to the strand of the session.               *)
(*                                                                         *)
(* A session exists while something holds a strong pointer to it: the      *)
(* handler of the read ("read"), the completion of a reply of its own      *)
(* ("self"), the handler in the pool ("task"), the bound do_write          *)
(* ("post").  The completion of do_write's write holds a bare `this`.      *)
(* The destructor closes the socket, and with it what is outstanding.      *)
(***************************************************************************)
EXTENDS Naturals, FiniteSets

CONSTANT Conns   \* TCP connections

VARIABLES
    up,         \* the process has not died
    listening,  \* the listener has an async_accept outstanding
    sock,       \* connection -> none, open, half (sending shut down), moved
                \*   (to a websocket_session) or closed
    refs,       \* connection -> kinds of strong pointers to its http_session
    task,       \* connection -> the handler in the pool: none, queued,
                \*   running, posted or done
    write,      \* connection -> the response: none, outstanding, sent, failed
    keep        \* connection -> keep_alive() of the response

vars == <<up, listening, sock, refs, task, write, keep>>

Init == /\ up = TRUE
        /\ listening = TRUE
        /\ sock = [c \in Conns |-> "none"]
        /\ refs = [c \in Conns |-> {}]
        /\ task = [c \in Conns |-> "none"]
        /\ write = [c \in Conns |-> "none"]
        /\ keep = [c \in Conns |-> FALSE]

-----------------------------------------------------------------------------
(* The listener.                                                           *)

Accept(c) ==
    /\ listening /\ sock[c] = "none"
    /\ sock' = [sock EXCEPT ![c] = "open"]
    /\ refs' = [refs EXCEPT ![c] = {"read"}]
    /\ UNCHANGED <<up, listening, task, write, keep>>

\* fail(ec, "accept") returns before the next async_accept.
AcceptError ==
    /\ listening
    /\ listening' = FALSE
    /\ UNCHANGED <<up, sock, refs, task, write, keep>>

-----------------------------------------------------------------------------
(* http_session.                                                           *)

\* A holder of kind r lets go; without another the session is destroyed.
Release(c, r) ==
    /\ refs' = [refs EXCEPT ![c] = @ \ {r}]
    /\ sock' = IF refs[c] \subseteq {r} /\ sock[c] # "moved"
               THEN [sock EXCEPT ![c] = "closed"] ELSE sock

\* The client closed the connection, or the read failed or timed out.
OnReadError(c) ==
    /\ "read" \in refs[c]
    /\ Release(c, "read")
    /\ UNCHANGED <<up, listening, task, write, keep>>

\* Fault: the request is posted to the pool although its socket is gone.
FaultyOnUpgrade(c) ==
    /\ "read" \in refs[c]
    /\ sock' = [sock EXCEPT ![c] = "moved"]
    /\ refs' = [refs EXCEPT ![c] = {"task"}]
    /\ task' = [task EXCEPT ![c] = "queued"]
    /\ UNCHANGED <<up, listening, write, keep>>

\* A websocket_session takes the socket and the request.
OnUpgrade(c) ==
    /\ "read" \in refs[c]
    /\ sock' = [sock EXCEPT ![c] = "moved"]
    /\ refs' = [refs EXCEPT ![c] = {}]
    /\ UNCHANGED <<up, listening, task, write, keep>>

\* Fault: the completion of the reply captures the bare session.
FaultyReply(c) ==
    /\ "read" \in refs[c]
    /\ Release(c, "read")
    /\ write' = [write EXCEPT ![c] = "outstanding"]
    /\ \E k \in BOOLEAN : keep' = [keep EXCEPT ![c] = k]
    /\ UNCHANGED <<up, listening, task>>

\* 401, 400 for the method, HEAD, OPTIONS and /health, from the session's own
\* strand.
Reply(c) ==
    /\ "read" \in refs[c]
    /\ refs' = [refs EXCEPT ![c] = {"self"}]
    /\ write' = [write EXCEPT ![c] = "outstanding"]
    /\ \E k \in BOOLEAN : keep' = [keep EXCEPT ![c] = k]
    /\ UNCHANGED <<up, listening, sock, task>>

\* Every other request is for the background worker.
Post(c) ==
    /\ "read" \in refs[c]
    /\ refs' = [refs EXCEPT ![c] = {"task"}]
    /\ task' = [task EXCEPT ![c] = "queued"]
    /\ \E k \in BOOLEAN : keep' = [keep EXCEPT ![c] = k]
    /\ UNCHANGED <<up, listening, sock, write>>

TaskStarts(c) ==
    /\ task[c] = "queued"
    /\ task' = [task EXCEPT ![c] = "running"]
    /\ UNCHANGED <<up, listening, sock, refs, write, keep>>

\* The response is made and do_write is bound to it.
TaskPosts(c) ==
    /\ task[c] = "running"
    /\ task' = [task EXCEPT ![c] = "posted"]
    /\ refs' = [refs EXCEPT ![c] = @ \cup {"post"}]
    /\ UNCHANGED <<up, listening, sock, write, keep>>

\* The handler is destroyed, after an exception without a response.
TaskEnds(c) ==
    /\ task[c] \in {"running", "posted"}
    /\ task' = [task EXCEPT ![c] = "done"]
    /\ Release(c, "task")
    /\ UNCHANGED <<up, listening, write, keep>>

\* Fault: the write is held by the session it belongs to.
FaultyDoWrite(c) ==
    /\ "post" \in refs[c]
    /\ write' = [write EXCEPT ![c] = "outstanding"]
    /\ UNCHANGED <<up, listening, sock, refs, task, keep>>

\* do_write starts the write, and the binding that held the session is gone.
DoWrite(c) ==
    /\ "post" \in refs[c]
    /\ write' = [write EXCEPT ![c] = "outstanding"]
    /\ Release(c, "post")
    /\ UNCHANGED <<up, listening, task, keep>>

\* on_write: without keep_alive sending is shut down.  The next do_read is
\* commented out.
OnWrite(c) ==
    /\ write[c] = "outstanding" /\ refs[c] # {}
    /\ \/ /\ write' = [write EXCEPT ![c] = "sent"]
          /\ IF "self" \in refs[c]
             THEN Release(c, "self")
             ELSE /\ sock' = IF keep[c] THEN sock
                                        ELSE [sock EXCEPT ![c] = "half"]
                  /\ UNCHANGED refs
       \/ write' = [write EXCEPT ![c] = "failed"] /\ Release(c, "self")
    /\ UNCHANGED <<up, listening, task, keep>>

\* The write of a destroyed session completes: on_write, called on what is
\* left of it, sees an aborted write, or a finished one, or brings the process
\* down.
OnWriteOrphan(c) ==
    /\ write[c] = "outstanding" /\ refs[c] = {}
    /\ \E w \in {"sent", "failed"} : write' = [write EXCEPT ![c] = w]
    /\ up' \in BOOLEAN
    /\ UNCHANGED <<listening, sock, refs, task, keep>>

\* What the threads of the two io_contexts owe a connection.
SessionStep(c) ==
    \/ OnReadError(c) \/ OnUpgrade(c) \/ Reply(c) \/ Post(c)
    \/ DoWrite(c) \/ OnWrite(c) \/ OnWriteOrphan(c)

TaskStep(c) == TaskStarts(c) \/ TaskPosts(c) \/ TaskEnds(c)

Next == /\ up
        /\ \/ AcceptError
           \/ \E c \in Conns : Accept(c) \/ SessionStep(c) \/ TaskStep(c)

Spec == Init /\ [][Next]_vars

\* A read or a write ends within 30 seconds, and the strands and the pool run
\* what is ready: the pool's own conditions are those of BackgroundPool.
FairSpec == /\ Spec
            /\ \A c \in Conns : /\ WF_vars(up /\ SessionStep(c))
                                /\ WF_vars(up /\ TaskStep(c))

-----------------------------------------------------------------------------
TypeOK ==
    /\ up \in BOOLEAN /\ listening \in BOOLEAN
    /\ sock \in [Conns -> {"none", "open", "half", "moved", "closed"}]
    /\ refs \in [Conns -> SUBSET {"read", "self", "task", "post"}]
    /\ task \in [Conns -> {"none", "queued", "running", "posted", "done"}]
    /\ write \in [Conns -> {"none", "outstanding", "sent", "failed"}]
    /\ keep \in [Conns -> BOOLEAN]

(***************************************************************************)
(* The inductive invariant: which pointers there are tells how far the     *)
(* request is.                                                             *)
(***************************************************************************)
Reads == \A c \in Conns : "read" \in refs[c] =>
            refs[c] = {"read"} /\ task[c] = "none" /\ write[c] = "none"

Replies == \A c \in Conns : "self" \in refs[c] =>
              refs[c] = {"self"} /\ task[c] = "none" /\ write[c] = "outstanding"

Tasks == \A c \in Conns :
            /\ "task" \in refs[c] <=> task[c] \in {"queued", "running", "posted"}
            /\ "post" \in refs[c] =>
                  task[c] \in {"posted", "done"} /\ write[c] = "none"
            /\ task[c] \in {"queued", "running"} => write[c] = "none"

Writes == \A c \in Conns :
             write[c] = "outstanding" =>
                "self" \in refs[c] \/ task[c] \in {"posted", "done"}

Sockets == \A c \in Conns :
              /\ sock[c] \in {"open", "half"} <=> refs[c] # {}
              /\ sock[c] \in {"none", "moved"} =>
                    task[c] = "none" /\ write[c] = "none"

HttpInv == TypeOK /\ Reads /\ Replies /\ Tasks /\ Writes /\ Sockets

-----------------------------------------------------------------------------
(* Properties.                                                             *)

\* The pool's handler and the do_write it posts have a live session with its
\* socket still open, whatever became of the connection meanwhile.
TaskHasSession ==
    \A c \in Conns :
        task[c] \in {"queued", "running", "posted"} \/ "post" \in refs[c] =>
            refs[c] # {} /\ sock[c] \in {"open", "half"}

\* Once a websocket_session has the socket, no handler of the http_session is
\* left to write to it.
SocketHasOneOwner ==
    \A c \in Conns :
        sock[c] = "moved" =>
            refs[c] = {} /\ write[c] = "none" /\ task[c] = "none"

\* "Represents an established HTTP connection" (http_session.hpp:18): while a
\* response is being written the session that owns its socket exists.
WriteHasSession ==
    \A c \in Conns : write[c] = "outstanding" => refs[c] # {}
=============================================================================
