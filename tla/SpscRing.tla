------------------------------ MODULE SpscRing ------------------------------
(***************************************************************************)
(* The ring buffer behind boost::lockfree::spsc_queue<T, capacity<N>>, as  *)
(* the server uses it: push loads the write index, refuses when the ring   *)
(* is full, constructs the element and only then stores the new index; pop *)
(* destroys the element it hands out, which leaves its bytes where they    *)
(* are.  The queue type is external code; these operators state what push  *)
(* and pop do to its three fields.                                         *)
(***************************************************************************)
EXTENDS Naturals, Sequences

CONSTANTS Capacity,   \* elements the ring can hold (1024 in the server)
          Vacant      \* the content of a slot no element was ever stored in

Slots == 0 .. Capacity

Following(i) == (i + 1) % (Capacity + 1)

EmptyRing == [buf |-> [i \in Slots |-> Vacant], write |-> 0, read |-> 0]

IsEmpty(q) == q.read = q.write

\* A producer that has loaded the write index finds room behind it.
HasRoom(q) == Following(q.write) # q.read

\* The second half of push, for a producer that loaded index i: whatever the
\* slot and the write index hold by now is overwritten.
Stored(q, i, v) ==
    [q EXCEPT !.buf[i] = v, !.write = Following(i)]

Front(q) == q.buf[q.read]

Popped(q) ==
    [q EXCEPT !.read = Following(q.read)]

Length(q) == (q.write + Capacity + 1 - q.read) % (Capacity + 1)

\* What the consumer will pop, oldest first.
Contents(q) ==
    [i \in 1 .. Length(q) |-> q.buf[(q.read + i - 1) % (Capacity + 1)]]

RingType(Value) ==
    [buf : [Slots -> Value \cup {Vacant}], write : Slots, read : Slots]
=============================================================================
