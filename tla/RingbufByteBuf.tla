--------------------------- MODULE RingbufByteBuf ---------------------------
(***************************************************************************)
(* A ring buffer of type RINGBUF_TYPE_BYTEBUF and the tasks and interrupt  *)
(* handlers that use it.  Pointers are offsets from pucHead, so pucTail is *)
(* xSize.  A critical section is one step.                                 *)
(***************************************************************************)
EXTENDS RingbufTasks, Sequences, Integers

CONSTANTS
  xSize,             \* size of the buffer, which is also xMaxItemSize
  Byte,              \* what a byte can be
  MaxSizes           \* arguments xMaxSize of the receivers; 0: xRingbufferReceive

ASSUME RingbufByteBufAssumption ==
  /\ xSize \in Nat \ {0}
  /\ MaxSizes \subseteq Nat
  /\ Byte # {}

VARIABLES
  buf,               \* the storage area
  pucAcquire,        \* next byte to be acquired
  pucWrite,          \* next byte to be written
  pucRead,           \* next byte to be read
  pucFree,           \* first byte not yet returned
  full,              \* rbBUFFER_FULL_FLAG
  xItemsWaiting,     \* bytes not yet retrieved
  arg,               \* xItemSize of each sender's call; 0 once it is sent
  held               \* the piece each receiver has retrieved: address and length

rbVars == <<buf, pucAcquire, pucWrite, pucRead, pucFree, full, xItemsWaiting>>
vars == <<pc, tx, rx, buf, pucAcquire, pucWrite, pucRead, pucFree, full,
          xItemsWaiting, arg, held>>

Index == 0 .. xSize - 1

\* Sizes of the items that are sent: the calls return at once for size 0 and
\* for a size above xMaxItemSize.
Sizes == 1 .. xSize

\* No piece is held.
None == [at |-> 0, len |-> 0]

\* A pointer that reaches pucTail continues at pucHead.
Wrap(p) == IF p >= xSize THEN p - xSize ELSE p

\* Distance from p forward to i, around the ring.
Offset(p, i) == IF i >= p THEN i - p ELSE i - p + xSize

-----------------------------------------------------------------------------
(* The static functions, called in the critical section. *)

prvGetFreeSize(acquire, isFull) ==
  IF isFull THEN 0
  ELSE IF pucFree - acquire <= 0 THEN pucFree - acquire + xSize
  ELSE pucFree - acquire

(* Mutant: the space of retrieved data counts as free before its return. *)
MutFitsUpToRead(n) ==
  IF pucAcquire = pucRead THEN ~full
  ELSE IF pucRead > pucAcquire THEN n <= pucRead - pucAcquire
  ELSE n <= xSize - (pucAcquire - pucRead)

prvCheckItemFitsByteBuffer(n) ==
  IF pucAcquire = pucFree THEN ~full
  ELSE IF pucFree > pucAcquire THEN n <= pucFree - pucAcquire
  ELSE n <= xSize - (pucAcquire - pucFree)

prvCopyItemByteBuf(item) ==
  /\ buf' = [i \in Index |-> IF Offset(pucAcquire, i) < Len(item)
                             THEN item[Offset(pucAcquire, i) + 1] ELSE buf[i]]
  /\ xItemsWaiting' = xItemsWaiting + Len(item)
  /\ pucAcquire' = Wrap(pucAcquire + Len(item))
  /\ full' = (full \/ pucAcquire' = pucFree)
  /\ pucWrite' = pucAcquire'
  /\ UNCHANGED <<pucRead, pucFree>>

prvCheckItemAvail ==
  /\ pucRead = pucFree
  /\ xItemsWaiting > 0
  /\ pucRead # pucWrite \/ full

\* Bytes that can be read without wrapping around.
Contiguous ==
  IF pucRead > pucWrite \/ full THEN xSize - pucRead ELSE pucWrite - pucRead

prvGetItemByteBuf(r, xMaxSize) ==
  LET n == IF xMaxSize = 0 \/ Contiguous <= xMaxSize THEN Contiguous ELSE xMaxSize
  IN  /\ held' = [held EXCEPT ![r] = [at |-> pucRead, len |-> n]]
      /\ xItemsWaiting' = xItemsWaiting - n
      /\ pucRead' = Wrap(pucRead + n)
      /\ UNCHANGED <<buf, pucAcquire, pucWrite, pucFree, full>>

(* Mutant: the full flag is not reset. *)
MutReturnKeepsFull ==
  /\ pucFree' = pucRead
  /\ UNCHANGED <<buf, pucAcquire, pucWrite, pucRead, full, xItemsWaiting>>

prvReturnItemByteBuf ==
  /\ pucFree' = pucRead
  /\ full' = FALSE
  /\ UNCHANGED <<buf, pucAcquire, pucWrite, pucRead, xItemsWaiting>>

-----------------------------------------------------------------------------
Init ==
  /\ TasksInit
  /\ buf \in [Index -> Byte]
  /\ pucAcquire = 0 /\ pucWrite = 0 /\ pucRead = 0 /\ pucFree = 0
  /\ full = FALSE
  /\ xItemsWaiting = 0
  /\ arg = [s \in Senders |-> 0]
  /\ held = [r \in Receivers |-> None]

\* xRingbufferSend or xRingbufferSendFromISR is called.
xRingbufferSend(s, xItemSize) ==
  /\ CallSend(s)
  /\ arg' = [arg EXCEPT ![s] = xItemSize]
  /\ UNCHANGED <<rbVars, held>>

\* Its critical section when the item fits: the item is copied from the
\* caller's memory ...
SendFits(s, item) ==
  /\ pc[s] = "send"
  /\ prvCheckItemFitsByteBuffer(arg[s])
  /\ prvCopyItemByteBuf(item)
  /\ Goto(s, IF prvGetFreeSize(pucAcquire', full') > 0 THEN "giveTxRx" ELSE "giveRx")
  /\ arg' = [arg EXCEPT ![s] = 0]
  /\ UNCHANGED <<tx, rx, held>>

\* ... and when it does not.
SendRefused(s) ==
  /\ pc[s] = "send"
  /\ ~prvCheckItemFitsByteBuffer(arg[s])
  /\ Refused(s)
  /\ UNCHANGED <<rbVars, arg, held>>

\* xRingbufferReceive(UpTo)(FromISR) is called by a receiver that has
\* returned what it got before.
xRingbufferReceive(r) ==
  /\ held[r] = None
  /\ CallReceive(r)
  /\ UNCHANGED <<rbVars, arg, held>>

(* Mutant: RecvSem is not given again for the data that is left. *)
MutReceiveKeepsRx(r, xMaxSize) ==
  /\ pc[r] = "receive"
  /\ prvCheckItemAvail
  /\ prvGetItemByteBuf(r, xMaxSize)
  /\ Goto(r, "idle")
  /\ UNCHANGED <<tx, rx, arg>>

\* Critical section of prvReceiveGeneric when a piece is available ...
ReceiveGets(r, xMaxSize) ==
  /\ pc[r] = "receive"
  /\ prvCheckItemAvail
  /\ prvGetItemByteBuf(r, xMaxSize)
  /\ Goto(r, IF xItemsWaiting' > 0 THEN "giveRx" ELSE "idle")
  /\ UNCHANGED <<tx, rx, arg>>

\* ... and when there is none.
ReceiveRefused(r) ==
  /\ pc[r] = "receive"
  /\ ~prvCheckItemAvail
  /\ Refused(r)
  /\ UNCHANGED <<rbVars, arg, held>>

(* Mutant: TransSem is not given. *)
MutReturnNoGive(r) ==
  /\ r \in Receivers
  /\ pc[r] = "idle"
  /\ held[r] # None
  /\ prvReturnItemByteBuf
  /\ held' = [held EXCEPT ![r] = None]
  /\ UNCHANGED <<pc, tx, rx, arg>>

\* vRingbufferReturnItem or vRingbufferReturnItemFromISR, up to the give.
vRingbufferReturnItem(r) ==
  /\ r \in Receivers
  /\ pc[r] = "idle"
  /\ held[r] # None
  /\ prvReturnItemByteBuf
  /\ held' = [held EXCEPT ![r] = None]
  /\ Goto(r, "giveTx")
  /\ UNCHANGED <<tx, rx, arg>>

Semaphores(t) == SemaphoreStep(t) /\ UNCHANGED <<rbVars, arg, held>>

Next ==
  \/ \E s \in Senders : \/ \E n \in Sizes : xRingbufferSend(s, n)
                        \/ \E item \in [1..arg[s] -> Byte] : SendFits(s, item)
                        \/ SendRefused(s)
  \/ \E r \in Receivers : \/ xRingbufferReceive(r)
                          \/ \E m \in MaxSizes : ReceiveGets(r, m)
                          \/ ReceiveRefused(r)
                          \/ vRingbufferReturnItem(r)
  \/ \E t \in Tasks : Semaphores(t)

Spec == Init /\ [][Next]_vars

\* Every call makes progress between and in its critical sections, and the
\* receivers keep receiving and returning.  Nothing forces a wait to time out
\* or a sender to send.
Progress(t) ==
  \/ (TakeTx(t) \/ TakeRx(t) \/ GiveTx(t) \/ GiveRx(t)) /\ UNCHANGED <<rbVars, arg, held>>
  \/ t \in Senders /\ ((\E item \in [1..arg[t] -> Byte] : SendFits(t, item)) \/ SendRefused(t))
  \/ t \in Receivers /\ ((\E m \in MaxSizes : ReceiveGets(t, m)) \/ ReceiveRefused(t))

FairSpec ==
  /\ Spec
  /\ \A t \in Tasks : WF_vars(Progress(t))
  /\ \A r \in Receivers : WF_vars(xRingbufferReceive(r)) /\ WF_vars(vRingbufferReturnItem(r))

-----------------------------------------------------------------------------
(* Properties. *)

\* Type correctness: the pointers stay inside the storage area, and the
\* counter and the retrieved pieces inside the size of the buffer.
TypeOK ==
  /\ TasksTypeOK
  /\ buf \in [Index -> Byte]
  /\ pucAcquire \in Index /\ pucWrite \in Index /\ pucRead \in Index /\ pucFree \in Index
  /\ full \in BOOLEAN
  /\ xItemsWaiting \in 0..xSize
  /\ arg \in [Senders -> Sizes \cup {0}]
  /\ held \in [Receivers -> [at : Index, len : 0..xSize]]

\* The bytes stored from address at on.
Bytes(at, n) == [k \in 1..n |-> buf[Wrap(at + k - 1)]]

\* The abstract state: the bytes between pucRead and pucAcquire wait, and the
\* retrieved pieces are what the storage area holds in their place now.
Queue == Bytes(pucRead, xItemsWaiting)
Lent == [r \in Receivers |-> Bytes(held[r].at, held[r].len)]

Fifo == INSTANCE ByteFifo WITH Capacity <- xSize, Users <- Receivers,
                               queue <- Queue, lent <- Lent

\* The byte buffer is a bounded FIFO stream: wrapping around, the full flag
\* and the interleaving of calls neither lose, duplicate, reorder nor
\* overwrite a byte (prvCopyItemByteBuf, prvGetItemByteBuf).
ImplementsFifo == Fifo!FifoSpec

\* The four pointers, the full flag, the counter and what the receivers hold
\* describe one state of the ring: from pucFree to pucRead lies what is held
\* by the one receiver that holds something, from pucRead to pucAcquire what
\* waits, and the flag tells a full ring from an empty one.  The assertions
\* in prvGetFreeSize and prvGetItemByteBuf follow from it.
PointersAgree ==
  /\ pucWrite = pucAcquire
  /\ pucAcquire = Wrap(pucRead + xItemsWaiting)
  /\ (\A r \in Receivers : held[r].len = 0) =>
        pucRead = pucFree /\ (full <=> xItemsWaiting = xSize)
  /\ \A r \in Receivers : held[r].len > 0 =>
        /\ held[r].at = pucFree
        /\ pucRead = Wrap(pucFree + held[r].len)
        /\ held[r].len + xItemsWaiting <= xSize
        /\ full <=> held[r].len + xItemsWaiting = xSize
        /\ \A q \in Receivers : held[q].len > 0 => q = r

\* TransSem is not lost: a sender that takes it and is refused keeps it, but
\* only while something is stored whose return will give it again.
TxNotLost ==
  \/ tx
  \/ \E t \in Tasks : pc[t] \in {"send", "giveTx", "giveTxRx"}
  \/ xItemsWaiting > 0
  \/ \E r \in Receivers : held[r].len > 0

\* RecvSem is not lost: when data waits that could be retrieved, RecvSem is
\* available or some call is about to use it or to give it.
RxNotLost ==
  prvCheckItemAvail =>
     rx \/ \E t \in Tasks : pc[t] \in {"receive", "giveRx", "giveTxRx"}

\* Data that waits is eventually retrieved.
EventuallyRead == xItemsWaiting > 0 ~> \E r \in Receivers : held[r].len > 0

\* While senders wait for space, some send eventually succeeds, or every one
\* of them times out.
EventuallySent ==
  (\E s \in Senders : pc[s] = "takeTx") ~>
     \/ \E s \in Senders : pc[s] \in {"giveTxRx", "giveRx"}
     \/ \A s \in Senders : pc[s] = "idle"
=============================================================================
