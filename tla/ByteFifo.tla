------------------------------ MODULE ByteFifo ------------------------------
(***************************************************************************)
(* What a byte buffer promises: a bounded stream of bytes.  What is sent   *)
(* comes out once, unchanged and in order; one receiver at a time looks at *)
(* a piece of it, and the piece it looks at stays as it is until the       *)
(* receiver returns it.                                                    *)
(***************************************************************************)
EXTENDS Sequences, Integers

CONSTANTS
  Byte,              \* what a byte can be
  Capacity,          \* bytes the buffer holds
  Users              \* who may receive

VARIABLES
  queue,             \* bytes sent and not yet received
  lent               \* the piece each receiver looks at

fifoVars == <<queue, lent>>

FifoInit ==
  /\ queue = << >>
  /\ lent = [u \in Users |-> << >>]

\* The bytes of item are appended if they fit beside what is stored.
Put(item) ==
  /\ Len(item) > 0
  /\ \A u \in Users : Len(queue) + Len(lent[u]) + Len(item) <= Capacity
  /\ queue' = queue \o item
  /\ UNCHANGED lent

\* A receiver gets a non-empty piece of the front, if nobody looks at another.
Lend(u, n) ==
  /\ \A w \in Users : lent[w] = << >>
  /\ lent' = [lent EXCEPT ![u] = SubSeq(queue, 1, n)]
  /\ queue' = SubSeq(queue, n + 1, Len(queue))

\* The receiver is done with its piece.
GiveBack(u) ==
  /\ lent[u] # << >>
  /\ lent' = [lent EXCEPT ![u] = << >>]
  /\ UNCHANGED queue

FifoNext ==
  \/ \E n \in 1..Capacity : \E item \in [1..n -> Byte] : Put(item)
  \/ \E u \in Users : (\E n \in 1..Len(queue) : Lend(u, n)) \/ GiveBack(u)

FifoSpec == FifoInit /\ [][FifoNext]_fifoVars
=============================================================================
