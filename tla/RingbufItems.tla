---------------------------- MODULE RingbufItems ----------------------------
(***************************************************************************)
(* A no-split or allow-split ring buffer and the tasks and interrupt       *)
(* handlers that use it.  Sizes and offsets are in 32-bit words, so a size *)
(* is already rounded up by rbALIGN_SIZE; offset 0 is pucHead and xSize is *)
(* pucTail.  An item is known by the offset of its header.  A critical     *)
(* section is one step.                                                    *)
(***************************************************************************)
EXTENDS RingbufTasks, Sequences, Integers, FiniteSets

CONSTANTS
  xSize,             \* size of the storage area
  HEADER,            \* rbHEADER_SIZE
  Splits,            \* buffer types: FALSE no-split, TRUE allow-split
  Lens,              \* sizes of the items sent
  Uses               \* how the application may use the buffer: see MaySend

ASSUME RingbufItemsAssumption ==
  /\ HEADER \in Nat \ {0}
  /\ xSize \in Nat /\ xSize >= 2 * HEADER
  /\ Splits \subseteq BOOLEAN
  /\ Lens \subseteq Nat
  /\ Uses \subseteq {"single", "several", "any"}

VARIABLES
  use,               \* how the application uses the buffer
  split,             \* rbALLOW_SPLIT_FLAG
  rb,                \* storage, pointers, full flag and counter of the ring buffer
  arg,               \* size and kind of each sender's call
  acquired,          \* offset of the item each sender has acquired, if any
  held,              \* items each receiver has retrieved and not returned
  order              \* history: the items not yet retrieved, as they were acquired

vars == <<pc, tx, rx, use, split, rb, arg, acquired, held, order>>
appVars == <<split, arg, acquired, held, order>>

Index == 0 .. xSize - 1
NoItem == -1
NoCall == [len |-> 0, acquire |-> FALSE]

xMaxItemSize == IF split THEN xSize - 2 * HEADER ELSE (xSize + 1) \div 2 - HEADER

-----------------------------------------------------------------------------
(* The storage area: a word holds a header or data. *)

Header(kind, len, part) ==
  [kind |-> kind, len |-> len, free |-> FALSE, written |-> FALSE, split |-> part]
Data == Header("data", 0, FALSE)
Dummy == Header("dummy", 0, FALSE)

\* An item of n words with header h is laid out at offset p.
Store(mem, p, n, h) ==
  [i \in Index |-> IF i = p THEN h ELSE IF i \in p + 1 .. p + HEADER + n - 1 THEN Data
                   ELSE mem[i]]

\* A pointer with no room for a header in front of pucTail wraps around.
Wrap(p) == IF xSize - p < HEADER THEN 0 ELSE p

\* From p, skip dummy items and the items in done, up to stop.
Skip(mem, p, stop, done) ==
  LET at[k \in 0..xSize] ==
        IF k = 0 THEN p
        ELSE LET q == at[k - 1] IN
             IF q = stop \/ (q \notin done /\ mem[q].kind # "dummy") THEN q
             ELSE Wrap(IF mem[q].kind = "dummy" THEN 0 ELSE q + HEADER + mem[q].len)
  IN  at[xSize]

-----------------------------------------------------------------------------
(* The static functions, called in the critical section. *)

prvGetFreeSize(b) ==
  IF b.full THEN 0
  ELSE IF b.pucFree - b.pucAcquire <= 0 THEN b.pucFree - b.pucAcquire + xSize
  ELSE b.pucFree - b.pucAcquire

(* Mutant: the second header of a split item is not counted. *)
MutFitsOneHeader(n) ==
  LET total == n + HEADER IN
  IF rb.pucAcquire = rb.pucFree THEN ~rb.full
  ELSE IF rb.pucFree > rb.pucAcquire THEN total <= rb.pucFree - rb.pucAcquire
  ELSE \/ total <= xSize - rb.pucAcquire
       \/ split /\ total <= xSize - (rb.pucAcquire - rb.pucFree)
       \/ ~split /\ total <= rb.pucFree

prvCheckItemFitsDefault(n) ==
  LET total == n + HEADER IN
  IF rb.pucAcquire = rb.pucFree THEN ~rb.full
  ELSE IF rb.pucFree > rb.pucAcquire THEN total <= rb.pucFree - rb.pucAcquire
  ELSE \/ total <= xSize - rb.pucAcquire
       \/ split /\ total + HEADER <= xSize - (rb.pucAcquire - rb.pucFree)
       \/ ~split /\ total <= rb.pucFree

\* Move pucAcquire to p; where it meets pucFree the buffer is full.
AcquireUpTo(b, p) ==
  [b EXCEPT !.pucAcquire = Wrap(p), !.full = @ \/ Wrap(p) = b.pucFree]

\* Where prvAcquireItemNoSplit puts the header of an item of n words.
ItemAddress(b, n) == IF xSize - b.pucAcquire < n + HEADER THEN 0 ELSE b.pucAcquire

prvAcquireItemNoSplit(b, n) ==
  LET at  == ItemAddress(b, n)
      mem == IF at # b.pucAcquire THEN [b.mem EXCEPT ![b.pucAcquire] = Dummy] ELSE b.mem
  IN  AcquireUpTo([b EXCEPT !.mem = Store(mem, at, n, Header("item", n, FALSE))],
                  at + HEADER + n)

\* The marks this and prvReturnItemDefault leave on dummy items are never
\* looked at and are left out.
prvSendItemDoneNoSplit(b, at) ==
  LET mem == [b.mem EXCEPT ![at].written = TRUE]
  IN  [b EXCEPT !.mem = mem,
                !.xItemsWaiting = @ + 1,
                !.pucWrite = Skip(mem, @, b.pucAcquire, {i \in Index : mem[i].written})]

prvCopyItemNoSplit(b, n) ==
  prvSendItemDoneNoSplit(prvAcquireItemNoSplit(b, n), ItemAddress(b, n))

\* Length of the part of an item of n words that is stored in front of
\* pucTail; n if the item is not split.
FirstPart(b, n) ==
  IF xSize - b.pucAcquire < n + HEADER THEN xSize - b.pucAcquire - HEADER ELSE n

prvCopyItemAllowSplit(b, n) ==
  LET k     == FirstPart(b, n)
      whole == Store(b.mem, b.pucAcquire, n, Header("item", n, FALSE))
      first == IF k > 0 THEN Store(b.mem, b.pucAcquire, k, Header("item", k, TRUE))
               ELSE [b.mem EXCEPT ![b.pucAcquire] = Dummy]
      copy  == IF k = n
               THEN AcquireUpTo([b EXCEPT !.mem = whole, !.xItemsWaiting = @ + 1],
                                b.pucAcquire + HEADER + n)
               ELSE AcquireUpTo([b EXCEPT !.mem = Store(first, 0, n - k, Header("item", n - k, FALSE)),
                                          !.xItemsWaiting = @ + (IF k > 0 THEN 2 ELSE 1)],
                                HEADER + n - k)
  IN  [copy EXCEPT !.pucWrite = copy.pucAcquire]

prvCheckItemAvail(b) ==
  /\ b.xItemsWaiting > 0
  /\ b.pucRead # b.pucWrite \/ b.full

(* Mutant: the wrap around at a dummy item is left out. *)
MutReadsDummy(b) == b.pucRead

\* Where the next item to be read has its header.
ReadAddress(b) == IF b.mem[b.pucRead].kind = "dummy" THEN 0 ELSE b.pucRead

prvGetItemDefault(b) ==
  LET at == ReadAddress(b)
  IN  [b EXCEPT !.xItemsWaiting = @ - 1, !.pucRead = Wrap(at + HEADER + b.mem[at].len)]

(* Mutant: pucFree does not pass over dummy items. *)
MutReturnStopsAtDummy(b, at) ==
  LET mem  == [b.mem EXCEPT ![at].free = TRUE, ![at].split = FALSE]
      free == IF b.pucFree # b.pucRead /\ mem[b.pucFree].free
              THEN Wrap(b.pucFree + HEADER + mem[b.pucFree].len) ELSE b.pucFree
  IN  [b EXCEPT !.mem = mem, !.pucFree = free,
                !.full = @ /\ free = b.pucAcquire /\ free # b.pucRead]

prvReturnItemDefault(b, at) ==
  LET mem  == [b.mem EXCEPT ![at].free = TRUE, ![at].split = FALSE]
      free == Skip(mem, b.pucFree, b.pucRead, {i \in Index : mem[i].free})
  IN  [b EXCEPT !.mem = mem,
                !.pucFree = free,
                !.full = @ /\ free = b.pucAcquire /\ free # b.pucRead]

(* Mutant: the two pieces of free space are added up. *)
MutMaxSizeOfBoth ==
  LET size == (IF rb.pucAcquire < rb.pucFree THEN rb.pucFree - rb.pucAcquire
               ELSE xSize - rb.pucAcquire + rb.pucFree) - HEADER
  IN  IF rb.full \/ size < 0 THEN 0 ELSE IF size > xMaxItemSize THEN xMaxItemSize ELSE size

prvGetCurMaxSizeNoSplit ==
  LET a == xSize - rb.pucAcquire
      f == rb.pucFree
      size == (IF rb.pucAcquire < f THEN f - rb.pucAcquire
               ELSE IF a > f THEN a ELSE f) - HEADER
  IN  IF rb.full \/ size < 0 THEN 0 ELSE IF size > xMaxItemSize THEN xMaxItemSize ELSE size

prvGetCurMaxSizeAllowSplit ==
  LET size == IF rb.pucAcquire = 0 /\ rb.pucFree = 0 THEN xSize - HEADER
              ELSE IF rb.pucAcquire < rb.pucFree THEN rb.pucFree - rb.pucAcquire - HEADER
              ELSE rb.pucFree + xSize - rb.pucAcquire - 2 * HEADER
  IN  IF rb.full \/ size < 0 THEN 0 ELSE IF size > xMaxItemSize THEN xMaxItemSize ELSE size

xRingbufferGetCurFreeSize ==
  IF split THEN prvGetCurMaxSizeAllowSplit ELSE prvGetCurMaxSizeNoSplit

-----------------------------------------------------------------------------
Init ==
  /\ TasksInit
  /\ use \in Uses
  /\ split \in Splits
  /\ rb = [mem |-> [i \in Index |-> Data], pucAcquire |-> 0, pucWrite |-> 0, pucRead |-> 0,
           pucFree |-> 0, full |-> FALSE, xItemsWaiting |-> 0]
  /\ arg = [s \in Senders |-> NoCall]
  /\ acquired = [s \in Senders |-> NoItem]
  /\ held = [r \in Receivers |-> {}]
  /\ order = << >>

\* History of an item of n words at offset at that is sent or only acquired.
Entry(at, n, sent) == [at |-> at, len |-> n, sent |-> sent]

\* The history without the item whose header is at offset at.
Without(items, at) ==
  IF \E i \in DOMAIN items : items[i].at = at
  THEN LET i == CHOOSE i \in DOMAIN items : items[i].at = at
       IN  SubSeq(items, 1, i - 1) \o SubSeq(items, i + 1, Len(items))
  ELSE items

\* xRingbufferSend(FromISR), or xRingbufferSendAcquire on a no-split buffer,
\* for an item within xMaxItemSize.
xRingbufferSend(s, n, acquire) ==
  /\ n <= xMaxItemSize
  /\ acquire => ~split /\ s \notin Isrs /\ acquired[s] = NoItem
  /\ CallSend(s)
  /\ arg' = [arg EXCEPT ![s] = [len |-> n, acquire |-> acquire]]
  /\ UNCHANGED <<split, rb, acquired, held, order>>

\* Critical section of xRingbufferSend when the item fits.
SendFits(s) ==
  LET n == arg[s].len
      k == FirstPart(rb, n)
      copy == IF split THEN prvCopyItemAllowSplit(rb, n) ELSE prvCopyItemNoSplit(rb, n)
      parts == IF ~split THEN <<Entry(ItemAddress(rb, n), n, TRUE)>>
               ELSE IF k = n THEN <<Entry(rb.pucAcquire, n, TRUE)>>
               ELSE IF k = 0 THEN <<Entry(0, n, TRUE)>>
               ELSE <<Entry(rb.pucAcquire, k, TRUE), Entry(0, n - k, TRUE)>>
  IN  /\ pc[s] = "send" /\ ~arg[s].acquire
      /\ prvCheckItemFitsDefault(n)
      /\ rb' = copy
      /\ order' = order \o parts
      /\ Goto(s, IF prvGetFreeSize(copy) > 0 THEN "giveTxRx" ELSE "giveRx")
      /\ arg' = [arg EXCEPT ![s] = NoCall]
      /\ UNCHANGED <<tx, rx, split, acquired, held>>

\* Critical section of xRingbufferSendAcquire when the item fits.
AcquireFits(s) ==
  LET n == arg[s].len
      b == prvAcquireItemNoSplit(rb, n)
  IN  /\ pc[s] = "send" /\ arg[s].acquire
      /\ prvCheckItemFitsDefault(n)
      /\ rb' = b
      /\ acquired' = [acquired EXCEPT ![s] = ItemAddress(rb, n)]
      /\ order' = Append(order, Entry(ItemAddress(rb, n), n, FALSE))
      /\ Goto(s, IF prvGetFreeSize(b) > 0 THEN "giveTx" ELSE "idle")
      /\ arg' = [arg EXCEPT ![s] = NoCall]
      /\ UNCHANGED <<tx, rx, split, held>>

\* Critical section of either when the item does not fit.
SendRefused(s) ==
  /\ pc[s] = "send"
  /\ ~prvCheckItemFitsDefault(arg[s].len)
  /\ Refused(s)
  /\ UNCHANGED <<rb, appVars>>

\* xRingbufferSendComplete of the item acquired, up to the give.
xRingbufferSendComplete(s) ==
  /\ pc[s] = "idle" /\ acquired[s] # NoItem
  /\ rb' = prvSendItemDoneNoSplit(rb, acquired[s])
  /\ order' = [i \in DOMAIN order |-> IF order[i].at = acquired[s] /\ ~order[i].sent
                                      THEN [order[i] EXCEPT !.sent = TRUE] ELSE order[i]]
  /\ acquired' = [acquired EXCEPT ![s] = NoItem]
  /\ Goto(s, "giveRx")
  /\ UNCHANGED <<tx, rx, split, arg, held>>

\* xRingbufferReceive or xRingbufferReceiveSplit, also from an ISR.
xRingbufferReceive(r) == CallReceive(r) /\ UNCHANGED <<rb, appVars>>

(* Mutant: RecvSem is not given again for the items that are left. *)
MutReceiveKeepsRx(r, both) ==
  LET at == ReadAddress(rb)
  IN  /\ pc[r] = "receive"
      /\ ~both
      /\ prvCheckItemAvail(rb)
      /\ rb' = prvGetItemDefault(rb)
      /\ held' = [held EXCEPT ![r] = @ \cup {[at |-> at, len |-> rb.mem[at].len]}]
      /\ order' = Without(order, at)
      /\ Goto(r, "idle")
      /\ UNCHANGED <<tx, rx, split, arg, acquired>>

\* Critical section of prvReceiveGeneric when an item is available: both
\* parts of a split item if it was called by xRingbufferReceiveSplit.
ReceiveGets(r, both) ==
  LET at1 == ReadAddress(rb)
      b1  == prvGetItemDefault(rb)
      two == both /\ rb.mem[at1].split
      at2 == ReadAddress(b1)
      got == IF two THEN {at1, at2} ELSE {at1}
      b2  == IF two THEN prvGetItemDefault(b1) ELSE b1
  IN  /\ pc[r] = "receive"
      /\ both => split
      /\ prvCheckItemAvail(rb)
      /\ rb' = b2
      /\ held' = [held EXCEPT ![r] = @ \cup {[at |-> a, len |-> rb.mem[a].len] : a \in got}]
      /\ order' = IF two THEN Without(Without(order, at1), at2) ELSE Without(order, at1)
      /\ Goto(r, IF b2.xItemsWaiting > 0 THEN "giveRx" ELSE "idle")
      /\ UNCHANGED <<tx, rx, split, arg, acquired>>

\* ... and when there is none.
ReceiveRefused(r) ==
  /\ pc[r] = "receive"
  /\ ~prvCheckItemAvail(rb)
  /\ Refused(r)
  /\ UNCHANGED <<rb, appVars>>

(* Mutant: TransSem is not given. *)
MutReturnNoGive(r, item) ==
  /\ pc[r] = "idle"
  /\ rb' = prvReturnItemDefault(rb, item.at)
  /\ held' = [held EXCEPT ![r] = @ \ {item}]
  /\ UNCHANGED <<pc, tx, rx, split, arg, acquired, order>>

\* vRingbufferReturnItem(FromISR) of a retrieved item, up to the give.
vRingbufferReturnItem(r, item) ==
  /\ pc[r] = "idle"
  /\ rb' = prvReturnItemDefault(rb, item.at)
  /\ held' = [held EXCEPT ![r] = @ \ {item}]
  /\ Goto(r, "giveTx")
  /\ UNCHANGED <<tx, rx, split, arg, acquired, order>>

Semaphores(t) == SemaphoreStep(t) /\ UNCHANGED <<rb, appVars>>

\* An item of n words fits, and the buffer is not full with it.
LeavesRoom(n) ==
  /\ prvCheckItemFitsDefault(n)
  /\ ~(IF split THEN prvCopyItemAllowSplit(rb, n) ELSE prvAcquireItemNoSplit(rb, n)).full

\* How the application uses the buffer.  An acquired item is completed before another
\* one is sent (else prvCheckItemAvail takes the item at pucRead for complete when a
\* later one is), and
\*   "single": a retrieved item is returned before another is asked for; or
\*   "several": items are kept and returned in any order, but the senders take turns
\*     and leave room (else prvReturnItemDefault frees all items with the first one).
\*   "any": nothing of this is observed.
MaySend(s, n, acquire) ==
  \/ use = "any"
  \/ /\ \A q \in Senders : acquired[q] = NoItem /\ ~(arg[q].acquire /\ pc[q] # "idle")
     /\ acquire => \A q \in Senders : pc[q] = "idle"
     /\ use = "several" => LeavesRoom(n) /\ \A q \in Senders : pc[q] \notin {"takeTx", "send"}
MayReceive == use = "single" => \A r \in Receivers : held[r] = {}

Step ==
  \/ \E s \in Senders :
       \/ \E n \in Lens, acquire \in BOOLEAN : MaySend(s, n, acquire) /\ xRingbufferSend(s, n, acquire)
       \/ SendFits(s) \/ AcquireFits(s) \/ SendRefused(s) \/ xRingbufferSendComplete(s)
  \/ \E r \in Receivers :
       \/ MayReceive /\ xRingbufferReceive(r)
       \/ \E both \in BOOLEAN : ReceiveGets(r, both)
       \/ ReceiveRefused(r)
       \/ \E item \in held[r] : vRingbufferReturnItem(r, item)
  \/ \E t \in Tasks : Semaphores(t)

Next == Step /\ UNCHANGED use

Spec == Init /\ [][Next]_vars

-----------------------------------------------------------------------------
(* Properties. *)

Region(x) == x.at .. x.at + HEADER + x.len - 1

\* Type correctness: the pointers stay where a header has room, and the
\* counter is never negative.
TypeOK ==
  /\ TasksTypeOK
  /\ {rb.pucAcquire, rb.pucWrite, rb.pucRead, rb.pucFree} \subseteq 0 .. xSize - HEADER
  /\ rb.full \in BOOLEAN
  /\ rb.xItemsWaiting \in Nat
  /\ acquired \in [Senders -> Index \cup {NoItem}]

\* The memory of items that are acquired, sent or retrieved and not yet
\* returned lies in the storage area and never overlaps: no one writes to an
\* item that another task is still writing or reading
\* (prvCheckItemFitsDefault, prvReturnItemDefault; used as in MaySend).
MemoryExclusive ==
  /\ \A i, j \in DOMAIN order : i # j => Region(order[i]) \cap Region(order[j]) = {}
  /\ \A r \in Receivers : \A x \in held[r] :
       /\ Region(x) \subseteq Index
       /\ \A i \in DOMAIN order : Region(x) \cap Region(order[i]) = {}
       /\ \A q \in Receivers : \A y \in held[q] :
            <<r, x>> # <<q, y>> => Region(x) \cap Region(y) = {}

\* Senders that wait for the same semaphore, interrupt handlers that do not, and
\* items that wrap around or are split change nothing about the order: items are
\* retrieved as they were put into the buffer, with the size they were sent with,
\* and none before it is completely sent.  It holds when an acquired item is
\* completed before another one is sent (MaySend; prvSendItemDoneNoSplit,
\* prvCheckItemAvail).
FifoReceive ==
  [][\A r \in Receivers :
       LET new == held'[r] \ held[r]
       IN  /\ Cardinality(new) <= Len(order)
           /\ \A i \in 1..Cardinality(new) :
                order[i].sent /\ [at |-> order[i].at, len |-> order[i].len] \in new]_vars

\* "The item, as well as the following items SendAcquire or Send after it, will not be
\* able to be read from the ring buffer until this item is actually sent"
\* (ringbuf.h:192): no item is retrieved that was acquired and not completed.
UnsentNotReceived ==
  [][\A r \in Receivers : \A x \in held'[r] \ held[r] :
       \A i \in DOMAIN order : order[i].at = x.at => order[i].sent]_vars

\* The counter is the number of sent items that wait (xItemsWaiting).
CountExact == rb.xItemsWaiting = Cardinality({i \in DOMAIN order : order[i].sent})

\* When everything sent was retrieved and returned the whole buffer is free
\* again, also when several items were kept and returned in another order than
\* they were retrieved: no dummy item or flag is left behind.
SpaceRecovered ==
  order = << >> /\ (\A r \in Receivers : held[r] = {}) =>
     /\ ~rb.full
     /\ rb.pucFree = rb.pucAcquire /\ rb.pucRead = rb.pucAcquire /\ rb.pucWrite = rb.pucAcquire

\* The pointers, the flag, the counter and the items describe one state of the
\* ring, whatever was split, skipped and returned in between: in a buffer that
\* fills up when one item at a time is kept, in one with room left when several
\* are, and with at most one acquired item that is not complete (MaySend).
SpaceAccounted == TypeOK /\ CountExact /\ SpaceRecovered

\* An item of the size that xRingbufferGetCurFreeSize reports can be sent.
FreeSizeFits ==
  xRingbufferGetCurFreeSize > 0 => prvCheckItemFitsDefault(xRingbufferGetCurFreeSize)

\* TransSem is not lost: it is available or in use, or something is stored
\* whose return will give it.
TxNotLost ==
  \/ tx
  \/ \E t \in Tasks : pc[t] \in {"send", "giveTx", "giveTxRx"}
  \/ order # << >>
  \/ \E r \in Receivers : held[r] # {}

\* The next item, once sent, can be received, and RecvSem is available or
\* some call is about to use it or to give it.
RxNotLost ==
  order # << >> /\ order[1].sent =>
     /\ prvCheckItemAvail(rb)
     /\ rx \/ \E t \in Tasks : pc[t] \in {"receive", "giveRx", "giveTxRx"}

\* Neither semaphore is lost between a critical section and the give after it.
SemaphoresKept == TxNotLost /\ RxNotLost
=============================================================================
