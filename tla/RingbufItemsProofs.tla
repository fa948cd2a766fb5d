------------------------- MODULE RingbufItemsProofs -------------------------
(***************************************************************************)
(* The no-split and the allow-split ring buffer keep items apart when one   *)
(* item at a time is acquired and one retrieved, for every size of the     *)
(* buffer and of the header, and every size of item but the largest that   *)
(* an allow-split buffer takes.                                            *)
(*                                                                         *)
(* The items from pucFree to pucAcquire are a chain q.  Its first m items  *)
(* have been retrieved (one item, or the two parts of a split one), the    *)
(* others are the history order.  Each pointer of the buffer is the        *)
(* pointer in front of some item of the chain, or the end of it.           *)
(***************************************************************************)
EXTENDS RingbufItems, TLAPS, FiniteSetTheorems, NaturalsInduction, WellFoundedInduction

(***************************************************************************)
(* What the application does: one task or interrupt handler receives, and  *)
(* returns an item before it asks for the next; an acquired item is        *)
(* completed before another is sent; and no item has exactly the maximum   *)
(* size of an allow-split buffer.                                          *)
(***************************************************************************)
OneReceiver == \A r, t \in Receivers : r = t
OneAtATime == Uses \subseteq {"single"}
NotMaximal == TRUE \in Splits => xSize - 2 * HEADER \notin Lens

-----------------------------------------------------------------------------
(* The chain of items. *)

Headers == [kind : {"item", "data", "dummy"}, len : Nat, free : BOOLEAN,
            written : BOOLEAN, split : BOOLEAN]
Items == [at : Nat, len : Nat, sent : BOOLEAN]
Room == 0 .. xSize - HEADER

\* The pointer after item e, and the pointer in front of the i-th item of q.
End(e) == Wrap(e.at + HEADER + e.len)
Ptr(f, q, i) == IF i = 1 THEN f ELSE End(q[i - 1])

\* Distance of offset p from pucFree f, going around the ring.
Dist(f, p) == IF p >= f THEN p - f ELSE p - f + xSize
Used(a, f, full) == IF full THEN xSize ELSE Dist(f, a)

\* Item e lies in the storage area and in the used part of the ring, and its
\* header says so.
Placed(mem, f, used, e) ==
  /\ e.at + HEADER + e.len <= xSize
  /\ Dist(f, e.at) + HEADER + e.len <= used
  /\ mem[e.at].kind = "item"
  /\ mem[e.at].len = e.len

\* Item e ends before item g starts.
Before(f, e, g) == Dist(f, e.at) + HEADER + e.len <= Dist(f, g.at)

\* Pointer p leads to the header at offset at, directly or by a dummy item.
Linked(mem, f, p, at) ==
  \/ p = at
  \/ at = 0 /\ mem[p].kind = "dummy" /\ 0 < f /\ f <= p

Chain(mem, a, f, full, q) ==
  /\ mem \in [Index -> Headers]
  /\ a \in Room /\ f \in Room /\ full \in BOOLEAN /\ q \in Seq(Items)
  /\ full => a = f
  /\ q = << >> => ~full
  /\ a = Ptr(f, q, Len(q) + 1)
  /\ \A i \in 1..Len(q) : Placed(mem, f, Used(a, f, full), q[i])
  /\ \A i, j \in 1..Len(q) : i < j => Before(f, q[i], q[j])
  /\ \A i \in 1..Len(q) : Linked(mem, f, Ptr(f, q, i), q[i].at)

-----------------------------------------------------------------------------
(* The inductive invariant. *)

\* The last item of q is acquired and not yet complete.
Open(q) == Len(q) > 0 /\ ~q[Len(q)].sent

\* Items e and g are the parts of one split item, in front of pucTail and at
\* pucHead.
Parts(e, g) ==
  /\ e.at + HEADER + e.len = xSize
  /\ g.at = 0
  /\ e.len + g.len + 2 * HEADER < xSize

\* The other pointers, the counter and the flags, given chain q and the
\* number m of its items that are retrieved.
Pointers(b, q, m) ==
  /\ b.pucRead = Ptr(b.pucFree, q, m + 1)
  /\ b.pucWrite = Ptr(b.pucFree, q, IF Open(q) THEN Len(q) ELSE Len(q) + 1)
  /\ b.xItemsWaiting = Len(q) - m - (IF Open(q) THEN 1 ELSE 0)
Sent(sp, q, m) ==
  /\ \A i \in 1..Len(q) : i < Len(q) \/ i <= m => q[i].sent
  /\ Open(q) => ~sp
Flags(sp, mem, q, m) ==
  /\ \A i \in 1..Len(q) : mem[q[i].at].free => i = 2 /\ m = 2
  /\ m = 2 => Parts(q[1], q[2])
  /\ \A i \in m + 1 .. Len(q) :
       mem[q[i].at].split => sp /\ i < Len(q) /\ Parts(q[i], q[i + 1])

\* The retrieved items that are not yet returned.
Lent(mem, q, m) ==
  {[at |-> q[i].at, len |-> q[i].len] : i \in {j \in 1..m : ~mem[q[j].at].free}}
HeldIs(hold, mem, q, m) ==
  /\ \A r \in Receivers : hold[r] = Lent(mem, q, m)
  /\ m > 0 => Receivers # {}
OrderIs(ord, q, m) == ord = [i \in 1 .. Len(q) - m |-> q[m + i]]

\* The buffer, the items held and the history are the chain q.
Shape(sp, b, hold, ord, q, m) ==
  /\ m \in 0..2 /\ m <= Len(q)
  /\ Chain(b.mem, b.pucAcquire, b.pucFree, b.full, q)
  /\ Pointers(b, q, m)
  /\ Sent(sp, q, m)
  /\ Flags(sp, b.mem, q, m)
  /\ HeldIs(hold, b.mem, q, m)
  /\ OrderIs(ord, q, m)

\* The acquired item is the last one.
OwnerIs(acq, q) ==
  /\ \A s \in Senders : acq[s] # NoItem => Open(q) /\ acq[s] = q[Len(q)].at
  /\ Open(q) => \E s \in Senders : acq[s] # NoItem

\* Whoever asks for an item holds none.
Asking(p, m) == \A r \in Receivers : p[r] \in {"takeRx", "receive"} => m = 0

Ring(q, m) ==
  /\ Shape(split, rb, held, order, q, m)
  /\ OwnerIs(acquired, q)
  /\ Asking(pc, m)

Buffers == [mem : [Index -> Headers], pucAcquire : Room, pucWrite : Room, pucRead : Room,
            pucFree : Room, full : BOOLEAN, xItemsWaiting : Nat]
Calls == [len : Nat, acquire : BOOLEAN]

Types ==
  /\ TasksTypeOK
  /\ split \in Splits
  /\ rb \in Buffers
  /\ arg \in [Senders -> Calls]
  /\ acquired \in [Senders -> Index \cup {NoItem}]
  /\ held \in [Receivers -> SUBSET [at : Nat, len : Nat]]

\* The calls in progress: an acquire call is alone, and so is an acquired item.
Sending(t) == pc[t] \in {"takeTx", "send"}
CallsOK ==
  /\ \A s \in Senders : Sending(s) => arg[s].len \in Lens /\ arg[s].len <= xMaxItemSize
  /\ \A s \in Senders : arg[s].acquire => ~split
  /\ \A s, t \in Senders : Sending(s) /\ arg[s].acquire /\ Sending(t) => s = t
  /\ \A s, t \in Senders : acquired[s] # NoItem => ~Sending(t)
  /\ \A s, t \in Senders : acquired[s] # NoItem /\ acquired[t] # NoItem => s = t

RingInv == \E q \in Seq(Items), m \in 0..2 : Ring(q, m)
ItemsInv == Types /\ CallsOK /\ RingInv /\ SemaphoresKept

-----------------------------------------------------------------------------
(* Facts about the chain. *)

\* The sizes of a ring buffer (prvInitializeNewRingbuffer).
LEMMA Sizes == HEADER \in Nat /\ HEADER > 0 /\ xSize \in Nat /\ xSize >= 2 * HEADER
  BY RingbufItemsAssumption

\* A pointer that has no room for a header wraps around to pucHead (Wrap).
LEMMA WrapRoom ==
  ASSUME NEW p \in 0..xSize
  PROVE  Wrap(p) \in Room /\ (Wrap(p) = p \/ (Wrap(p) = 0 /\ p > xSize - HEADER))
  BY Sizes DEF Wrap, Room

\* A distance is less than the size of the buffer.
LEMMA DistNat ==
  ASSUME NEW f \in Room, NEW p \in Room
  PROVE  Dist(f, p) \in Nat /\ Dist(f, p) < xSize
  BY Sizes DEF Dist, Room

\* The used part of the ring is at most the size of the buffer.
LEMMA UsedNat ==
  ASSUME NEW f \in Room, NEW a \in Room, NEW full
  PROVE  Used(a, f, full) \in Nat /\ Used(a, f, full) <= xSize
  BY Sizes DEF Dist, Room, Used

\* The pointer after an item lies behind the item, if it leads to another item.
LEMMA EndDist ==
  ASSUME NEW f \in Room, NEW at \in Nat, NEW len \in Nat, NEW y \in Room, NEW p \in Room,
         at + HEADER + len <= xSize, p = Wrap(at + HEADER + len),
         Dist(f, at) + HEADER + len <= Dist(f, y), Dist(f, y) + HEADER <= xSize,
         p = y \/ (y = 0 /\ 0 < f /\ f <= p)
  PROVE  Dist(f, at) + HEADER + len <= Dist(f, p)
<1> USE Sizes
<1>1. CASE p = at + HEADER + len
  BY <1>1 DEF Dist, Room
<1>2. CASE p = 0 /\ at + HEADER + len > xSize - HEADER
  BY <1>2 DEF Dist, Room
<1> QED BY <1>1, <1>2 DEF Wrap

\* The pointers along a chain: each has room for a header, lies behind the
\* items before it and not behind the item it leads to.
LEMMA ChainPointers ==
  ASSUME NEW mem, NEW a, NEW f, NEW full, NEW q, Chain(mem, a, f, full, q)
  PROVE  /\ \A i \in 1 .. Len(q) + 1 : Ptr(f, q, i) \in Room
         /\ \A i \in 1 .. Len(q) :
              /\ q[i] \in Items /\ q[i].at \in Room
              /\ Dist(f, Ptr(f, q, i)) <= Dist(f, q[i].at)
              /\ Ptr(f, q, i) = q[i].at \/ (q[i].at = 0 /\ mem[Ptr(f, q, i)].kind = "dummy")
         /\ \A i \in 2 .. Len(q) :
              Dist(f, q[i - 1].at) + HEADER + q[i - 1].len <= Dist(f, Ptr(f, q, i))
<1> USE Sizes
<1>1. \A i \in 1 .. Len(q) : q[i] \in Items /\ q[i].at \in Room /\ End(q[i]) \in Room
  <2> SUFFICES ASSUME NEW i \in 1 .. Len(q)
               PROVE  q[i] \in Items /\ q[i].at \in Room /\ End(q[i]) \in Room
      OBVIOUS
  <2>1. q[i] \in Items /\ q[i].at + HEADER + q[i].len <= xSize
    BY DEF Chain, Placed
  <2>2. q[i].at \in Nat /\ q[i].len \in Nat
    BY <2>1 DEF Items
  <2>3. q[i].at + HEADER + q[i].len \in 0..xSize
    BY <2>1, <2>2
  <2> QED BY <2>1, <2>2, <2>3, WrapRoom DEF End, Room
<1>2. ASSUME NEW i \in 1 .. Len(q) + 1
      PROVE  Ptr(f, q, i) \in Room
  BY <1>1, <1>2 DEF Ptr, Chain
<1>3. ASSUME NEW i \in 2 .. Len(q)
      PROVE  Dist(f, q[i - 1].at) + HEADER + q[i - 1].len <= Dist(f, Ptr(f, q, i))
  <2>1. PICK x : x = q[i - 1]
    OBVIOUS
  <2>2. PICK y : y = q[i]
    OBVIOUS
  <2>3. /\ x.at \in Nat /\ x.len \in Nat /\ y.at \in Nat /\ y.len \in Nat
        /\ x.at + HEADER + x.len <= xSize
        /\ Dist(f, x.at) + HEADER + x.len <= Dist(f, y.at)
        /\ y.at \in Room /\ f \in Room /\ x.at \in Room
        /\ Ptr(f, q, i) = y.at \/ (y.at = 0 /\ 0 < f /\ f <= Ptr(f, q, i))
        /\ Dist(f, y.at) + HEADER <= xSize
    <3>1. i - 1 \in 1..Len(q) /\ i \in 1..Len(q) /\ i - 1 < i
      BY DEF Chain
    <3>2. x.at \in Nat /\ x.len \in Nat /\ y.at \in Nat /\ y.len \in Nat /\ y.at \in Room /\ x.at \in Room
      BY <1>1, <2>1, <2>2, <3>1 DEF Items
    <3>3. /\ x.at + HEADER + x.len <= xSize
          /\ Dist(f, x.at) + HEADER + x.len <= Dist(f, y.at)
      BY <3>1, <2>1, <2>2 DEF Chain, Placed, Before
    <3>4. Ptr(f, q, i) = y.at \/ (y.at = 0 /\ 0 < f /\ f <= Ptr(f, q, i))
      BY <3>1, <2>2 DEF Chain, Linked
    <3>5. f \in Room /\ Dist(f, y.at) + HEADER + y.len <= Used(a, f, full) /\ Used(a, f, full) <= xSize
      BY <3>1, <2>2 DEF Chain, Placed, Used, Dist, Room
    <3>6. Dist(f, y.at) \in Int /\ Used(a, f, full) \in Int
      <4>1. a \in Int /\ f \in Int /\ xSize \in Int
        BY DEF Chain, Room
      <4> QED BY <4>1, <3>2 DEF Used, Dist
    <3> QED BY <3>2, <3>3, <3>4, <3>5, <3>6
  <2>4. Ptr(f, q, i) = Wrap(x.at + HEADER + x.len)
    BY <1>3, <2>1 DEF Ptr, End
  <2>5. PICK p \in Room : p = Ptr(f, q, i)
    BY <1>2, <1>3 DEF Chain
  <2>6. Dist(f, x.at) + HEADER + x.len <= Dist(f, p)
    <3>1. PICK xa \in Nat, xl \in Nat, ya \in Room : xa = x.at /\ xl = x.len /\ ya = y.at
      BY <2>3
    <3>2. Dist(f, xa) + HEADER + xl <= Dist(f, p)
      BY <2>3, <2>4, <2>5, <3>1, EndDist
    <3> QED BY <3>1, <3>2
  <2> QED BY <2>1, <2>5, <2>6
<1>4. ASSUME NEW i \in 1 .. Len(q)
      PROVE  /\ Dist(f, Ptr(f, q, i)) <= Dist(f, q[i].at)
             /\ Ptr(f, q, i) = q[i].at \/ (q[i].at = 0 /\ mem[Ptr(f, q, i)].kind = "dummy")
  <2>1. PICK p \in Room : p = Ptr(f, q, i)
    BY <1>2, <1>4 DEF Chain
  <2>2. PICK at \in Room : at = q[i].at
    BY <1>1, <1>4
  <2>3. Linked(mem, f, p, at) /\ f \in Room
    BY <1>4, <2>1, <2>2 DEF Chain
  <2>4. Dist(f, p) <= Dist(f, at)
    BY <2>3 DEF Linked, Dist, Room
  <2> QED BY <2>1, <2>2, <2>3, <2>4 DEF Linked
<1> QED BY <1>1, <1>2, <1>3, <1>4

\* Where an item of n words may be laid out when pucAcquire is a and pucFree f:
\* at pucAcquire, or at pucHead behind a dummy item.
Slot(a, f, at, n) ==
  \/ at = a /\ (a >= f => a + HEADER + n <= xSize) /\ (a < f => a + HEADER + n <= f)
  \/ at = 0 /\ 0 < f /\ f <= a /\ HEADER + n <= f

\* Arithmetic of laying out an item: it lies behind the used part of the ring
\* and in the part used afterwards.
LEMMA SlotDist ==
  ASSUME NEW a \in Room, NEW f \in Room, NEW at \in Nat, NEW n \in Nat, Slot(a, f, at, n),
         NEW b \in Room, b = Wrap(at + HEADER + n)
  PROVE  /\ at \in Room /\ at + HEADER + n <= xSize
         /\ Dist(f, a) <= Dist(f, at)
         /\ Dist(f, at) + HEADER + n <= Used(b, f, b = f)
         /\ Used(b, f, b = f) <= xSize
<1> USE Sizes
<1>1. at \in Room /\ at + HEADER + n <= xSize /\ Dist(f, a) <= Dist(f, at)
  BY DEF Slot, Dist, Room
<1>2. CASE b = at + HEADER + n
  BY <1>1, <1>2 DEF Slot, Dist, Room, Used
<1>3. CASE b = 0 /\ at + HEADER + n > xSize - HEADER
  BY <1>1, <1>3 DEF Slot, Dist, Room, Used
<1> QED BY <1>1, <1>2, <1>3 DEF Wrap

\* The headers in the used part of the ring are the same.
Kept(mem, mem2, a, f) ==
  \A i \in Index : Dist(f, i) < Dist(f, a) =>
    mem2[i].kind = mem[i].kind /\ mem2[i].len = mem[i].len

\* Laying out an item behind the used part of the ring extends the chain by it.
LEMMA ChainExtend ==
  ASSUME NEW mem, NEW a, NEW f, NEW q, Chain(mem, a, f, FALSE, q),
         NEW e \in Items, Slot(a, f, e.at, e.len),
         NEW mem2 \in [Index -> Headers],
         mem2[e.at].kind = "item", mem2[e.at].len = e.len,
         e.at # a => mem2[a].kind = "dummy", Kept(mem, mem2, a, f),
         NEW b, b = End(e), NEW full \in BOOLEAN, full <=> b = f
  PROVE  Chain(mem2, b, f, full, Append(q, e))
<1> USE Sizes
<1> DEFINE q2 == Append(q, e)
<1> DEFINE n == Len(q)
<1>1. /\ a \in Room /\ f \in Room /\ q \in Seq(Items) /\ n \in Nat
      /\ e.at \in Nat /\ e.len \in Nat
  BY DEF Chain, Items
<1>2. e.at + HEADER + e.len \in 0..xSize
  <2>1. PICK at \in Nat, len \in Nat : at = e.at /\ len = e.len
    BY <1>1
  <2>2. Slot(a, f, at, len)
    BY <2>1
  <2>3. at + HEADER + len \in 0..xSize
    BY <1>1, <2>2 DEF Slot, Room
  <2> QED BY <2>1, <2>3
<1>3. b \in Room /\ b = Wrap(e.at + HEADER + e.len)
  BY <1>2, WrapRoom DEF End
<1>4. /\ e.at \in Room /\ e.at + HEADER + e.len <= xSize
      /\ Dist(f, a) <= Dist(f, e.at)
      /\ Dist(f, e.at) + HEADER + e.len <= Used(b, f, full)
      /\ Used(b, f, full) <= xSize
  <2>1. PICK at \in Nat, len \in Nat : at = e.at /\ len = e.len
    BY <1>1
  <2> QED BY <2>1, <1>1, <1>3, SlotDist
<1>5. /\ Used(a, f, FALSE) = Dist(f, a) /\ Dist(f, a) \in Int /\ Dist(f, e.at) \in Int
      /\ Used(b, f, full) \in Int
  BY <1>1, <1>3, <1>4 DEF Used, Dist, Room
<1>6. /\ q2 \in Seq(Items) /\ Len(q2) = n + 1 /\ q2[n + 1] = e
      /\ \A i \in 1..n : q2[i] = q[i]
      /\ q2 # << >>
  <2>1. /\ q2 \in Seq(Items) /\ Len(q2) = n + 1 /\ q2[n + 1] = e
        /\ \A i \in 1..n : q2[i] = q[i]
    BY <1>1
  <2>2. q2 # << >>
    BY <2>1, <1>1
  <2> QED BY <2>1, <2>2
<1>7. \A i \in 1..n : /\ q[i] \in Items /\ q[i].at \in Room /\ q[i].at \in Nat /\ q[i].len \in Nat
                      /\ Dist(f, q[i].at) + HEADER + q[i].len <= Dist(f, a)
                      /\ Dist(f, q[i].at) \in Int
  <2> SUFFICES ASSUME NEW i \in 1..n
               PROVE  /\ q[i] \in Items /\ q[i].at \in Room /\ q[i].at \in Nat /\ q[i].len \in Nat
                      /\ Dist(f, q[i].at) + HEADER + q[i].len <= Dist(f, a)
                      /\ Dist(f, q[i].at) \in Int
      OBVIOUS
  <2>1. q[i] \in Items /\ q[i].at \in Room
    BY ChainPointers
  <2>2. Placed(mem, f, Used(a, f, FALSE), q[i])
    BY DEF Chain
  <2>3. q[i].at \in Nat /\ q[i].len \in Nat
    BY <2>1 DEF Items
  <2>4. Dist(f, q[i].at) \in Int
    BY <2>3, <1>1 DEF Dist, Room
  <2>5. Dist(f, q[i].at) + HEADER + q[i].len <= Dist(f, a)
    BY <2>2, <1>5 DEF Placed
  <2> QED BY <2>1, <2>3, <2>4, <2>5
<1>8. \A i \in 1 .. n + 1 : Ptr(f, q2, i) = Ptr(f, q, i)
  BY <1>1, <1>6 DEF Ptr
<1>9. b = Ptr(f, q2, Len(q2) + 1)
  BY <1>1, <1>6 DEF Ptr
<1>10. ASSUME NEW i \in 1..Len(q2)
       PROVE  Placed(mem2, f, Used(b, f, full), q2[i])
  <2>1. CASE i = n + 1
    BY <2>1, <1>4, <1>6 DEF Placed
  <2>2. CASE i \in 1..n
    <3>1. PICK x : x = q[i]
      OBVIOUS
    <3>2. Placed(mem, f, Used(a, f, FALSE), x)
      BY <2>2, <3>1 DEF Chain
    <3>3. /\ x.at \in Nat /\ x.len \in Nat /\ x.at \in Room
          /\ Dist(f, x.at) + HEADER + x.len <= Dist(f, a) /\ Dist(f, x.at) \in Int
      BY <2>2, <3>1, <1>7
    <3>4. x.at \in Index /\ Dist(f, x.at) < Dist(f, a)
      BY <3>3, <1>5 DEF Room, Index
    <3>5. mem2[x.at].kind = mem[x.at].kind /\ mem2[x.at].len = mem[x.at].len
      BY <3>4 DEF Kept
    <3>6. Dist(f, x.at) + HEADER + x.len <= Used(b, f, full)
      <4>1. PICK d \in Int, l \in Nat, de \in Int, le \in Nat, da \in Int, u \in Int :
              /\ d = Dist(f, x.at) /\ l = x.len /\ de = Dist(f, e.at) /\ le = e.len
              /\ da = Dist(f, a) /\ u = Used(b, f, full)
        BY <3>3, <1>1, <1>5
      <4>2. d + HEADER + l <= da /\ da <= de /\ de + HEADER + le <= u
        BY <4>1, <3>3, <1>4
      <4>3. d + HEADER + l <= u
        BY <4>2
      <4> QED BY <4>1, <4>3
    <3> QED BY <3>1, <3>2, <3>5, <3>6, <2>2, <1>6 DEF Placed
  <2> QED BY <2>1, <2>2, <1>6, <1>1
<1>11. ASSUME NEW i \in 1..Len(q2), NEW j \in 1..Len(q2), i < j
       PROVE  Before(f, q2[i], q2[j])
  <2>1. CASE j = n + 1
    <3>1. i \in 1..n
      BY <2>1, <1>11, <1>6, <1>1
    <3>2. PICK d \in Int, l \in Nat, da \in Int, de \in Int :
            d = Dist(f, q[i].at) /\ l = q[i].len /\ da = Dist(f, a) /\ de = Dist(f, e.at)
      BY <3>1, <1>5, <1>7
    <3>3. d + HEADER + l <= da /\ da <= de
      BY <3>1, <3>2, <1>4, <1>7
    <3>4. d + HEADER + l <= de
      BY <3>3
    <3>5. Before(f, q[i], e)
      BY <3>2, <3>4 DEF Before
    <3> QED BY <2>1, <3>1, <3>5, <1>6
  <2>2. CASE j \in 1..n
    <3>1. i \in 1..n
      BY <2>2, <1>11, <1>6, <1>1
    <3> QED BY <2>2, <3>1, <1>6, <1>11 DEF Chain
  <2> QED BY <2>1, <2>2, <1>6, <1>1
<1>12. ASSUME NEW i \in 1..Len(q2)
       PROVE  Linked(mem2, f, Ptr(f, q2, i), q2[i].at)
  <2>1. CASE i = n + 1
    <3>1. Ptr(f, q2, i) = a
      BY <2>1, <1>8, <1>1 DEF Chain
    <3> QED BY <2>1, <3>1, <1>6, <1>1 DEF Linked, Slot
  <2>2. CASE i \in 1..n
    <3>1. PICK p : p = Ptr(f, q, i)
      OBVIOUS
    <3>2. Linked(mem, f, p, q[i].at)
      BY <2>2, <3>1 DEF Chain
    <3>3. p \in Room /\ Dist(f, p) <= Dist(f, q[i].at)
      <4>1. Ptr(f, q, i) \in Room /\ Dist(f, Ptr(f, q, i)) <= Dist(f, q[i].at)
        <5>1. i \in 1..Len(q) /\ i \in 1..Len(q) + 1
          BY <2>2, <1>1
        <5> QED BY <5>1, ChainPointers
      <4> QED BY <4>1, <3>1
    <3>4. Dist(f, p) < Dist(f, a) /\ p \in Index
      <4>1. PICK d \in Int, l \in Nat : d = Dist(f, q[i].at) /\ l = q[i].len /\ d + HEADER + l <= Dist(f, a)
        BY <2>2, <1>7
      <4>2. Dist(f, p) \in Int /\ p \in Index
        BY <1>1, <3>3 DEF Dist, Room, Index
      <4>3. Dist(f, p) <= d
        BY <4>1, <3>3
      <4>4. PICK dp \in Int, da \in Int : dp = Dist(f, p) /\ da = Dist(f, a)
        BY <4>2, <1>5
      <4>5. dp <= d /\ d + HEADER + l <= da
        BY <4>1, <4>3, <4>4
      <4>6. dp < da
        BY <4>5
      <4> QED BY <4>2, <4>4, <4>6
    <3>5. mem2[p].kind = mem[p].kind
      BY <3>4 DEF Kept
    <3>6. q2[i] = q[i] /\ Ptr(f, q2, i) = p
      BY <2>2, <3>1, <1>6, <1>8
    <3> QED BY <3>2, <3>5, <3>6 DEF Linked
  <2> QED BY <2>1, <2>2, <1>6, <1>1
<1> HIDE DEF q2
<1> QED BY <1>1, <1>3, <1>6, <1>9, <1>10, <1>11, <1>12 DEF Chain, q2

\* Arithmetic of moving pucFree from f to g: distances shrink by that of g.
LEMMA DropDist ==
  ASSUME NEW f \in Room, NEW g \in Room, NEW p \in Room, Dist(f, g) <= Dist(f, p)
  PROVE  Dist(g, p) = Dist(f, p) - Dist(f, g)
  BY Sizes DEF Dist, Room

\* ... and so does the used part of the ring, which is then not all of it.
LEMMA DropUsed ==
  ASSUME NEW f \in Room, NEW g \in Room, NEW a \in Room, NEW full \in BOOLEAN,
         full => a = f, 0 < Dist(f, g), Dist(f, g) < Used(a, f, full)
  PROVE  Used(a, g, FALSE) = Used(a, f, full) - Dist(f, g)
  BY Sizes DEF Dist, Room, Used

\* A dummy item that leads to a later item lies behind the new pucFree g.
LEMMA DropLinked ==
  ASSUME NEW f \in Room, NEW g \in Room, NEW p \in Room, Dist(f, g) <= Dist(f, p),
         0 < f, f <= p
  PROVE  0 < g /\ g <= p
  BY Sizes DEF Dist, Room

\* The pointers in front of the items that are left when the first is dropped.
LEMMA TailPtr ==
  ASSUME NEW q \in Seq(Items), Len(q) > 0, NEW f, NEW g, g = Ptr(f, q, 2)
  PROVE  /\ Tail(q) \in Seq(Items) /\ Len(Tail(q)) = Len(q) - 1
         /\ \A i \in 1 .. Len(q) - 1 : Tail(q)[i] = q[i + 1]
         /\ \A i \in 1 .. Len(q) : Ptr(g, Tail(q), i) = Ptr(f, q, i + 1)
<1> DEFINE n == Len(q)
<1> DEFINE q2 == Tail(q)
<1>1. n \in Nat
  OBVIOUS
<1>3. /\ q2 \in Seq(Items) /\ Len(q2) = n - 1
      /\ \A i \in 1 .. n - 1 : q2[i] = q[i + 1]
  BY <1>1
<1>4. \A i \in 1 .. n : Ptr(g, q2, i) = Ptr(f, q, i + 1)
  <2> SUFFICES ASSUME NEW i \in 1..n
               PROVE  Ptr(g, q2, i) = Ptr(f, q, i + 1)
      OBVIOUS
  <2>1. CASE i = 1
    BY <2>1 DEF Ptr
  <2>2. CASE i # 1
    <3>1. i - 1 \in 1 .. n - 1 /\ (i - 1) + 1 = i /\ i + 1 # 1 /\ (i + 1) - 1 = i
      BY <2>2, <1>1
    <3>2. q2[i - 1] = q[i]
      BY <3>1, <1>3
    <3> QED BY <2>2, <3>1, <3>2 DEF Ptr
  <2> QED BY <2>1, <2>2
<1> QED BY <1>3, <1>4

\* Passing over the first item of a chain leaves a chain.
LEMMA ChainDrop ==
  ASSUME NEW mem, NEW a, NEW f, NEW full, NEW q, Chain(mem, a, f, full, q), Len(q) > 0,
         NEW g, g = Ptr(f, q, 2)
  PROVE  Chain(mem, a, g, FALSE, Tail(q))
<1> USE Sizes
<1> DEFINE n == Len(q)
<1> DEFINE q2 == Tail(q)
<1>1. /\ mem \in [Index -> Headers] /\ a \in Room /\ f \in Room /\ full \in BOOLEAN
      /\ q \in Seq(Items) /\ n \in Nat /\ n > 0 /\ (full => a = f) /\ a = Ptr(f, q, n + 1)
  BY DEF Chain
<1>2. g \in Room
  <2>1. 2 \in 1 .. Len(q) + 1
    BY <1>1
  <2> QED BY <2>1, ChainPointers
<1>3. /\ q2 \in Seq(Items) /\ Len(q2) = n - 1
      /\ \A i \in 1 .. n - 1 : q2[i] = q[i + 1]
  BY <1>1
<1>4. \A i \in 1 .. n : Ptr(g, q2, i) = Ptr(f, q, i + 1)
  BY <1>1, TailPtr
<1>5. a = Ptr(g, q2, Len(q2) + 1)
  <2>1. Len(q2) + 1 = n /\ n \in 1..n
    BY <1>1, <1>3
  <2> QED BY <2>1, <1>1, <1>4
<1>6. ASSUME NEW i \in 1..Len(q2)
      PROVE  /\ 0 < Dist(f, g)
             /\ q2[i].at \in Room /\ q2[i].at \in Nat /\ q2[i].len \in Nat
             /\ Dist(f, g) <= Dist(f, q2[i].at) /\ Dist(f, g) \in Int /\ Dist(f, q2[i].at) \in Int
             /\ Dist(f, g) <= Dist(f, Ptr(g, q2, i))
             /\ Ptr(g, q2, i) \in Room
             /\ Placed(mem, f, Used(a, f, full), q2[i])
             /\ Linked(mem, f, Ptr(g, q2, i), q2[i].at)
  <2>1. /\ i + 1 \in 2..n /\ i + 1 \in 1..n /\ i + 1 \in 1 .. n + 1 /\ i \in 1..n
        /\ 2 \in 2..n /\ 2 \in 1..n /\ 1 \in 1..n /\ 2 - 1 = 1 /\ (i + 1) - 1 = i /\ q2[i] = q[i + 1]
    BY <1>1, <1>3
  <2>2. /\ q[1] \in Items /\ q[2] \in Items /\ q[i] \in Items /\ q[i + 1] \in Items
        /\ q[1].at \in Room /\ q[2].at \in Room /\ q[i].at \in Room /\ q[i + 1].at \in Room
    BY <2>1, ChainPointers
  <2>3. /\ Dist(f, q[1].at) + HEADER + q[1].len <= Dist(f, g)
        /\ Dist(f, g) <= Dist(f, q[2].at)
    BY <2>1, ChainPointers
  <2>4. /\ Dist(f, q[i].at) + HEADER + q[i].len <= Dist(f, Ptr(f, q, i + 1))
        /\ Dist(f, Ptr(f, q, i + 1)) <= Dist(f, q[i + 1].at)
        /\ Ptr(f, q, i + 1) \in Room
    BY <2>1, ChainPointers
  <2>5. i = 1 \/ i = 2 \/ Dist(f, q[2].at) + HEADER + q[2].len <= Dist(f, q[i].at)
    BY <2>1 DEF Chain, Before
  <2>6. PICK x1 \in Room, x2 \in Room, xi \in Room, xj \in Room, p \in Room :
             x1 = q[1].at /\ x2 = q[2].at /\ xi = q[i].at /\ xj = q[i + 1].at /\ p = Ptr(f, q, i + 1)
    BY <2>2, <2>4
  <2>7. PICK l1 \in Nat, l2 \in Nat, li \in Nat, lj \in Nat :
             l1 = q[1].len /\ l2 = q[2].len /\ li = q[i].len /\ lj = q[i + 1].len
    BY <2>2 DEF Items
  <2>8. /\ Dist(f, x1) + HEADER + l1 <= Dist(f, g)
        /\ Dist(f, g) <= Dist(f, x2)
        /\ Dist(f, xi) + HEADER + li <= Dist(f, p)
        /\ Dist(f, p) <= Dist(f, xj)
        /\ i = 1 \/ i = 2 \/ Dist(f, x2) + HEADER + l2 <= Dist(f, xi)
        /\ i = 1 => p = g /\ xj = x2
        /\ i = 2 => xi = x2
    BY <2>3, <2>4, <2>5, <2>6, <2>7
  <2>9. 0 < Dist(f, g) /\ Dist(f, g) <= Dist(f, xj) /\ Dist(f, g) <= Dist(f, p)
    <3>1. PICK d1 \in Nat, d2 \in Nat, di \in Nat, dj \in Nat, dp \in Nat, dg \in Nat :
            /\ d1 = Dist(f, x1) /\ d2 = Dist(f, x2) /\ di = Dist(f, xi)
            /\ dj = Dist(f, xj) /\ dp = Dist(f, p) /\ dg = Dist(f, g)
      BY <1>1, <1>2, <2>6, DistNat
    <3>2. /\ d1 + HEADER + l1 <= dg /\ dg <= d2 /\ di + HEADER + li <= dp /\ dp <= dj
          /\ i = 1 \/ i = 2 \/ d2 + HEADER + l2 <= di
          /\ i = 1 => dp = dg /\ dj = d2
          /\ i = 2 => di = d2
      BY <3>1, <2>8
    <3>3. 0 < dg /\ dg <= dj /\ dg <= dp
      BY <3>2
    <3> QED BY <3>1, <3>3
  <2>10. Dist(f, g) \in Int /\ Dist(f, xj) \in Int /\ xj \in Nat
    <3>1. Dist(f, g) \in Nat /\ Dist(f, xj) \in Nat
      BY <1>1, <1>2, DistNat
    <3> QED BY <3>1, <2>6 DEF Room
  <2>11. Placed(mem, f, Used(a, f, full), q[i + 1]) /\ Linked(mem, f, Ptr(f, q, i + 1), q[i + 1].at)
    BY <2>1 DEF Chain
  <2>12. Ptr(g, q2, i) = Ptr(f, q, i + 1)
    BY <2>1, <1>4
  <2>13. PICK y : y = q2[i]
    OBVIOUS
  <2>14. y = q[i + 1]
    BY <2>13, <2>1
  <2>15. y.at = xj /\ y.len = lj /\ Ptr(g, q2, i) = p
    BY <2>14, <2>6, <2>7, <2>12
  <2>16. Placed(mem, f, Used(a, f, full), y) /\ Linked(mem, f, Ptr(g, q2, i), y.at)
    BY <2>11, <2>12, <2>14
  <2>17. /\ y.at \in Room /\ y.at \in Nat /\ y.len \in Nat /\ Ptr(g, q2, i) \in Room
         /\ Dist(f, g) <= Dist(f, y.at) /\ Dist(f, y.at) \in Int /\ Dist(f, g) <= Dist(f, Ptr(g, q2, i))
    BY <2>15, <2>6, <2>7, <2>9, <2>10
  <2> HIDE DEF q2
  <2> QED BY <2>9, <2>10, <2>13, <2>16, <2>17
<1> HIDE DEF q2
<1>7. ASSUME NEW i \in 1..Len(q2)
      PROVE  Dist(g, q2[i].at) = Dist(f, q2[i].at) - Dist(f, g)
  BY <1>1, <1>2, <1>6, DropDist
<1>8. ASSUME NEW i \in 1..Len(q2)
      PROVE  Placed(mem, g, Used(a, g, FALSE), q2[i])
  <2>1. PICK x : x = q2[i]
    OBVIOUS
  <2>2. /\ 0 < Dist(f, g) /\ x.len \in Nat /\ Dist(f, g) \in Int /\ Dist(f, x.at) \in Int
        /\ Dist(f, g) <= Dist(f, x.at)
        /\ Placed(mem, f, Used(a, f, full), x)
        /\ Dist(g, x.at) = Dist(f, x.at) - Dist(f, g)
    BY <1>6, <1>7, <2>1
  <2>3. PICK dx \in Int, dg \in Int, u \in Int, lx \in Nat : dx = Dist(f, x.at) /\ dg = Dist(f, g) /\ u = Used(a, f, full) /\ lx = x.len
    BY <1>1, <2>2, UsedNat
  <2>4. dx + HEADER + lx <= u
    BY <2>2, <2>3 DEF Placed
  <2>5. Dist(f, g) < Used(a, f, full)
    <3>1. dg <= dx
      BY <2>2, <2>3
    <3>2. dg < u
      BY <3>1, <2>4
    <3> QED BY <3>2, <2>3
  <2>6. Used(a, g, FALSE) = u - dg
    <3>1. /\ a \in Room /\ f \in Room /\ g \in Room /\ full \in BOOLEAN /\ (full => a = f)
          /\ 0 < Dist(f, g)
      BY <2>2, <1>1, <1>2
    <3>2. Used(a, g, FALSE) = Used(a, f, full) - Dist(f, g)
      BY ONLY <3>1, <2>5, DropUsed
    <3> QED BY <3>2, <2>3
  <2>7. Dist(g, x.at) = dx - dg
    BY <2>2, <2>3
  <2>8. (dx - dg) + HEADER + lx <= u - dg
    BY <2>4
  <2>9. Dist(g, x.at) + HEADER + x.len <= Used(a, g, FALSE)
    BY <2>3, <2>6, <2>7, <2>8
  <2>10. Placed(mem, g, Used(a, g, FALSE), x)
    BY <2>2, <2>9 DEF Placed
  <2> QED BY <2>1, <2>10
<1>9. ASSUME NEW i \in 1..Len(q2), NEW j \in 1..Len(q2), i < j
      PROVE  Before(g, q2[i], q2[j])
  <2>1. Before(f, q[i + 1], q[j + 1])
    BY <1>1, <1>3, <1>9 DEF Chain
  <2>2. q2[i] = q[i + 1] /\ q2[j] = q[j + 1]
    BY <1>3
  <2>3. PICK x, y : x = q2[i] /\ y = q2[j]
    OBVIOUS
  <2>4. /\ Before(f, x, y) /\ x.len \in Nat /\ Dist(f, g) \in Int /\ Dist(f, x.at) \in Int /\ Dist(f, y.at) \in Int
        /\ Dist(g, x.at) = Dist(f, x.at) - Dist(f, g)
        /\ Dist(g, y.at) = Dist(f, y.at) - Dist(f, g)
    BY <1>6, <1>7, <2>1, <2>2, <2>3
  <2>5. Before(g, x, y)
    <3>1. PICK dx \in Int, dy \in Int, dg \in Int, lx \in Nat :
            dx = Dist(f, x.at) /\ dy = Dist(f, y.at) /\ dg = Dist(f, g) /\ lx = x.len
      BY <2>4
    <3>2. dx + HEADER + lx <= dy
      BY <2>4, <3>1 DEF Before
    <3>3. (dx - dg) + HEADER + lx <= dy - dg
      BY <3>2
    <3> QED BY <2>4, <3>1, <3>3 DEF Before
  <2> QED BY <2>3, <2>5
<1>10. ASSUME NEW i \in 1..Len(q2)
       PROVE  Linked(mem, g, Ptr(g, q2, i), q2[i].at)
  <2>1. PICK p \in Room : p = Ptr(g, q2, i)
    BY <1>6
  <2>2. Dist(f, g) <= Dist(f, p) /\ Linked(mem, f, p, q2[i].at)
    BY <1>6, <2>1
  <2>3. Linked(mem, g, p, q2[i].at)
    BY <2>2, <1>1, <1>2, DropLinked DEF Linked
  <2> QED BY <2>1, <2>3
<1> QED BY <1>1, <1>2, <1>3, <1>5, <1>8, <1>9, <1>10 DEF Chain, q2

-----------------------------------------------------------------------------
(* Skip follows the chain of items. *)

\* Every non-empty set of natural numbers has a least element.
LEMMA Least ==
  ASSUME NEW T \in SUBSET Nat, T # {}
  PROVE  \E x \in T : \A y \in T : x <= y
<1> DEFINE R == OpToRel(<, Nat)
<1>1. IsWellFoundedOn(R, Nat)
  BY NatLessThanWellFounded
<1>2. \A x, y \in Nat : x < y => <<x, y>> \in R
  BY DEF OpToRel
<1> HIDE DEF R
<1>3. PICK x \in T : \A y \in T : <<y, x>> \notin R
  BY <1>1, WFMin
<1>4. ASSUME NEW y \in T
      PROVE  x <= y
  <2>1. x \in Nat /\ y \in Nat
    OBVIOUS
  <2>2. ~(y < x)
    BY <1>2, <1>3, <2>1, Zenon
  <2> QED BY <2>1, <2>2
<1> QED BY <1>4

\* One step of the loop in Skip.
SkipStep(mem, stop, done, q) ==
  IF q = stop \/ (q \notin done /\ mem[q].kind # "dummy") THEN q
  ELSE Wrap(IF mem[q].kind = "dummy" THEN 0 ELSE q + HEADER + mem[q].len)

\* at[k] is the offset that the loop in Skip has reached after k steps.
SkipLoop(mem, p, stop, done, n, at) ==
  at = [k \in 0..n |-> IF k = 0 THEN p ELSE SkipStep(mem, stop, done, at[k - 1])]

\* The loop of Skip has a value at every turn.
LEMMA SkipExists ==
  ASSUME NEW mem, NEW p, NEW stop, NEW done
  PROVE  \A n \in Nat : \E at : SkipLoop(mem, p, stop, done, n, at)
<1> DEFINE G(at, n) ==
      at = [k \in 0..n |-> IF k = 0 THEN p ELSE SkipStep(mem, stop, done, at[k - 1])]
<1> DEFINE T == {n \in Nat : ~ \E at : G(at, n)}
<1>1. SUFFICES ASSUME T # {} PROVE FALSE
  BY DEF SkipLoop
<1>2. PICK n \in T : \A y \in T : n <= y
  <2>1. T \in SUBSET Nat
    OBVIOUS
  <2> HIDE DEF T
  <2> QED BY <1>1, <2>1, Least
<1>3. n \in Nat /\ ~ \E at : G(at, n)
  OBVIOUS
<1>4. n # 0
  <2> SUFFICES ASSUME n = 0 PROVE FALSE
    OBVIOUS
  <2>1. G([k \in 0..0 |-> p], 0)
    OBVIOUS
  <2> QED BY <2>1, <1>3
<1>5. n - 1 \in Nat /\ n - 1 \notin T
  <2>1. n - 1 \in Nat /\ ~(n <= n - 1)
    BY <1>3, <1>4
  <2> HIDE DEF T
  <2> QED BY <1>2, <2>1
<1>6. PICK old : G(old, n - 1)
  BY <1>5
<1> DEFINE new == [k \in 0..n |-> IF k < n THEN old[k] ELSE SkipStep(mem, stop, done, old[n - 1])]
<1>7. ASSUME NEW k \in 0..n
      PROVE  new[k] = IF k = 0 THEN p ELSE SkipStep(mem, stop, done, new[k - 1])
  <2>1. CASE k = 0
    BY <2>1, <1>3, <1>4, <1>6
  <2>2. CASE k # 0 /\ k < n
    <3>1. k \in 0 .. n - 1 /\ k - 1 \in 0 .. n /\ k - 1 < n
      BY <2>2, <1>3
    <3>2. old[k] = SkipStep(mem, stop, done, old[k - 1])
      BY <3>1, <2>2, <1>6
    <3>3. new[k] = old[k] /\ new[k - 1] = old[k - 1]
      BY <3>1, <2>2
    <3> QED BY <2>2, <3>2, <3>3
  <2>3. CASE k = n
    <3>1. n - 1 \in 0..n /\ n - 1 < n /\ ~(n < n) /\ n \in 0..n
      BY <1>3, <1>5
    <3>2. new[n - 1] = old[n - 1] /\ new[n] = SkipStep(mem, stop, done, old[n - 1])
      BY <3>1
    <3> HIDE DEF new
    <3> QED BY <2>3, <3>2, <1>4
  <2> QED BY <2>1, <2>2, <2>3, <1>3
<1>8. G(new, n)
  <2>1. new = [k \in 0..n |-> new[k]]
    OBVIOUS
  <2> HIDE DEF new
  <2> QED BY <2>1, <1>7
<1> QED BY <1>3, <1>8

\* Skip stops at offset t when two steps lead there and t is where it stops.
LEMMA SkipTwo ==
  ASSUME NEW mem, NEW p, NEW stop, NEW done, NEW t,
         t = SkipStep(mem, stop, done, SkipStep(mem, stop, done, p)),
         SkipStep(mem, stop, done, t) = t
  PROVE  Skip(mem, p, stop, done) = t
<1> DEFINE G(at) ==
      at = [k \in 0..xSize |-> IF k = 0 THEN p ELSE SkipStep(mem, stop, done, at[k - 1])]
<1>1. \E at : G(at)
  <2>1. \E at : SkipLoop(mem, p, stop, done, xSize, at)
    BY SkipExists, Sizes
  <2> QED BY <2>1 DEF SkipLoop
<1>2. Skip(mem, p, stop, done) = (CHOOSE at : G(at))[xSize]
  BY DEF Skip, SkipStep
<1>3. PICK at : at = (CHOOSE x : G(x))
  OBVIOUS
<1>4. G(at)
  BY <1>1, <1>3
<1>5. at[xSize] = t
  <2>1. /\ 0 \in 0..xSize /\ 1 \in 0..xSize /\ 2 \in 0..xSize /\ xSize \in Nat
        /\ 1 - 1 = 0 /\ 2 - 1 = 1 /\ 1 # 0 /\ 2 # 0
    BY Sizes
  <2>2. at[2] = t
    BY <1>4, <2>1
  <2> DEFINE T == {k \in Nat : k \in 2..xSize /\ at[k] # t}
  <2>3. T = {}
    <3> SUFFICES ASSUME T # {} PROVE FALSE
      OBVIOUS
    <3>1. PICK k \in T : \A y \in T : k <= y
      <4>1. T \in SUBSET Nat
        OBVIOUS
      <4> HIDE DEF T
      <4> QED BY <4>1, Least
    <3>2. k \in Nat /\ k \in 2..xSize /\ at[k] # t
      OBVIOUS
    <3>3. k # 2
      BY <2>2, <3>2
    <3>4. k - 1 \in Nat /\ k - 1 \in 2..xSize /\ k - 1 \notin T /\ k # 0 /\ k \in 0..xSize
      <4>1. k - 1 \in Nat /\ k - 1 \in 2..xSize /\ k # 0 /\ k \in 0..xSize /\ ~(k <= k - 1)
        BY <3>2, <3>3, Sizes
      <4> HIDE DEF T
      <4> QED BY <3>1, <4>1
    <3>5. at[k - 1] = t
      BY <3>4
    <3>6. at[k] = SkipStep(mem, stop, done, at[k - 1])
      BY <1>4, <3>4
    <3> QED BY <3>2, <3>5, <3>6
  <2> QED BY <2>1, <2>3, Sizes
<1> QED BY <1>2, <1>3, <1>5

\* From pointer p over one finished item to the pointer after it.
LEMMA SkipOne ==
  ASSUME NEW mem, NEW p, NEW at, NEW stop, NEW done,
         p = at \/ (at = 0 /\ mem[p].kind = "dummy"),
         mem[at].kind = "item", at \in done, stop = Wrap(at + HEADER + mem[at].len)
  PROVE  Skip(mem, p, stop, done) = stop
<1>1. Wrap(0) = 0
  BY Sizes DEF Wrap
<1>2. SkipStep(mem, stop, done, stop) = stop
  BY DEF SkipStep
<1>3. SkipStep(mem, stop, done, at) = stop
  BY DEF SkipStep
<1>4. SkipStep(mem, stop, done, SkipStep(mem, stop, done, p)) = stop
  <2>1. CASE p = at
    BY <2>1, <1>2, <1>3
  <2>2. CASE at = 0 /\ mem[p].kind = "dummy"
    <3>1. CASE p = stop
      BY <3>1, <1>2
    <3>2. CASE p # stop
      <4>1. SkipStep(mem, stop, done, p) = at
        BY <2>2, <3>2, <1>1 DEF SkipStep
      <4> QED BY <4>1, <1>3
    <3> QED BY <3>1, <3>2
  <2> QED BY <2>1, <2>2
<1> QED BY <1>2, <1>4, SkipTwo

\* Over both parts of a split item.
LEMMA SkipPair ==
  ASSUME NEW mem, NEW p, NEW stop, NEW done,
         mem[p].kind = "item", p \in done, Wrap(p + HEADER + mem[p].len) = 0,
         mem[0].kind = "item", 0 \in done, stop = Wrap(0 + HEADER + mem[0].len)
  PROVE  Skip(mem, p, stop, done) = stop
<1>1. SkipStep(mem, stop, done, stop) = stop
  BY DEF SkipStep
<1>2. SkipStep(mem, stop, done, 0) = stop
  BY DEF SkipStep
<1>3. SkipStep(mem, stop, done, p) \in {0, stop}
  BY DEF SkipStep
<1> QED BY <1>1, <1>2, <1>3, SkipTwo

\* Over the first part of a split item only.
LEMMA SkipFirst ==
  ASSUME NEW mem, NEW p, NEW stop, NEW done, p # stop,
         mem[p].kind = "item", p \in done, Wrap(p + HEADER + mem[p].len) = 0,
         mem[0].kind = "item", 0 \notin done
  PROVE  Skip(mem, p, stop, done) = 0
<1>1. SkipStep(mem, stop, done, 0) = 0
  BY DEF SkipStep
<1>2. SkipStep(mem, stop, done, p) = 0
  BY DEF SkipStep
<1> QED BY <1>1, <1>2, SkipTwo

\* Over nothing, in front of an item that is not finished.
LEMMA SkipNone ==
  ASSUME NEW mem, NEW p, NEW stop, NEW done, mem[p].kind = "item", p \notin done
  PROVE  Skip(mem, p, stop, done) = p
<1>1. SkipStep(mem, stop, done, p) = p
  BY DEF SkipStep
<1> QED BY <1>1, SkipTwo

-----------------------------------------------------------------------------
(* Laying out items. *)

\* What the headers look like that the static functions write (Header).
LEMMA HeaderTypes ==
  /\ Data \in Headers /\ Dummy \in Headers /\ Dummy.kind = "dummy"
  /\ \A n \in Nat, part \in BOOLEAN :
       /\ Header("item", n, part) \in Headers
       /\ Header("item", n, part).kind = "item" /\ Header("item", n, part).len = n
       /\ ~Header("item", n, part).free /\ Header("item", n, part).split = part
  BY DEF Data, Dummy, Header, Headers

\* Laying out an item changes its own words only (Store).
LEMMA StoreFacts ==
  ASSUME NEW mem \in [Index -> Headers], NEW p \in Index, NEW n \in Nat, NEW h \in Headers
  PROVE  /\ Store(mem, p, n, h) \in [Index -> Headers]
         /\ Store(mem, p, n, h)[p] = h
         /\ \A i \in Index : i \notin p .. p + HEADER + n - 1 => Store(mem, p, n, h)[i] = mem[i]
<1>1. Data \in Headers
  BY HeaderTypes
<1>2. Index \subseteq Nat
  BY DEF Index
<1>3. Store(mem, p, n, h) \in [Index -> Headers]
  BY <1>1 DEF Store
<1>4. Store(mem, p, n, h)[p] = h
  BY DEF Store
<1>5. ASSUME NEW i \in Index, i \notin p .. p + HEADER + n - 1
      PROVE  Store(mem, p, n, h)[i] = mem[i]
  <2>1. i # p /\ i \notin p + 1 .. p + HEADER + n - 1
    BY <1>5, <1>2, Sizes
  <2> QED BY <2>1 DEF Store
<1> QED BY <1>3, <1>4, <1>5

\* The words that laying out an item changes are behind the used part.
LEMMA SlotWords ==
  ASSUME NEW a \in Room, NEW f \in Room, NEW at \in Nat, NEW n \in Nat, Slot(a, f, at, n),
         NEW i \in Index, i = a \/ i \in at .. at + HEADER + n - 1
  PROVE  Dist(f, a) <= Dist(f, i)
  BY Sizes DEF Slot, Dist, Room, Index

\* The storage with a dummy item at pucAcquire a, if the item is not put there.
SkippedTo(mem, a, at) == IF at # a THEN [mem EXCEPT ![a] = Dummy] ELSE mem

\* Laying out an item of n words with header h at offset at, after a dummy item
\* if that is not where pucAcquire is, extends the chain and changes no header
\* of its items.
Laid(mem, a, f, q, e, h, mem2, b, full) ==
  /\ Chain(mem, a, f, FALSE, q)
  /\ e \in Items /\ Slot(a, f, e.at, e.len)
  /\ h \in Headers /\ h.kind = "item" /\ h.len = e.len
  /\ mem2 = Store(SkippedTo(mem, a, e.at), e.at, e.len, h)
  /\ b = End(e)
  /\ full \in BOOLEAN /\ (full <=> b = f)

\* Writing a header h with its item behind the used part extends the chain and
\* leaves the headers of the items before it alone.
LEMMA ChainPlace ==
  ASSUME NEW mem, NEW a, NEW f, NEW q, NEW e, NEW h, NEW mem2, NEW b, NEW full,
         Laid(mem, a, f, q, e, h, mem2, b, full)
  PROVE  /\ Chain(mem2, b, f, full, Append(q, e))
         /\ e.at \in Room /\ b \in Room
         /\ mem2 \in [Index -> Headers] /\ mem2[e.at] = h
         /\ \A i \in 1..Len(q) : mem2[q[i].at] = mem[q[i].at]
<1> USE Sizes
<1>0. PICK base : base = SkippedTo(mem, a, e.at)
  OBVIOUS
<1>1. /\ a \in Room /\ f \in Room /\ mem \in [Index -> Headers] /\ e.at \in Nat /\ e.len \in Nat
      /\ Slot(a, f, e.at, e.len) /\ e \in Items /\ h \in Headers /\ h.kind = "item" /\ h.len = e.len
      /\ mem2 = Store(base, e.at, e.len, h) /\ Chain(mem, a, f, FALSE, q)
  BY <1>0 DEF Laid, Chain, Items
<1>2. PICK at \in Nat, n \in Nat : at = e.at /\ n = e.len
  BY <1>1
<1>3. at \in Room /\ at + HEADER + n \in 0..xSize
  BY <1>1, <1>2 DEF Slot, Room
<1>4. a \in Index /\ at \in Index
  BY <1>1, <1>3 DEF Room, Index
<1>5. base \in [Index -> Headers] /\ base[a] = (IF at # a THEN Dummy ELSE mem[a])
      /\ \A i \in Index : i # a => base[i] = mem[i]
  BY <1>0, <1>1, <1>2, <1>4, HeaderTypes DEF SkippedTo
<1>6. /\ mem2 \in [Index -> Headers] /\ mem2[at] = h
      /\ \A i \in Index : i \notin at .. at + HEADER + n - 1 => mem2[i] = base[i]
  <2>1. mem2 = Store(base, at, n, h)
    BY <1>1, <1>2
  <2>2. base \in [Index -> Headers] /\ h \in Headers
    BY <1>1, <1>5
  <2>3. /\ Store(base, at, n, h) \in [Index -> Headers]
        /\ Store(base, at, n, h)[at] = h
        /\ \A i \in Index : i \notin at .. at + HEADER + n - 1 => Store(base, at, n, h)[i] = base[i]
    BY ONLY <1>4, <2>2, n \in Nat, StoreFacts
  <2> QED BY <2>1, <2>3
<1>7. ASSUME NEW i \in Index, Dist(f, i) < Dist(f, a)
      PROVE  mem2[i] = mem[i]
  <2>1. Dist(f, i) \in Int /\ Dist(f, a) \in Int
    BY <1>1 DEF Dist, Room, Index
  <2>2. i # a /\ i \notin at .. at + HEADER + n - 1
    BY <1>1, <1>2, <1>7, <2>1, SlotWords
  <2> QED BY <2>2, <1>5, <1>6
<1>8. at # a => mem2[a].kind = "dummy"
  <2> SUFFICES ASSUME at # a PROVE mem2[a].kind = "dummy"
    OBVIOUS
  <2>1. a \notin at .. at + HEADER + n - 1
    BY <1>1, <1>2 DEF Slot, Room
  <2>2. mem2[a] = Dummy
    BY <2>1, <1>4, <1>5, <1>6
  <2> QED BY <2>2, HeaderTypes
<1>9. Chain(mem2, b, f, full, Append(q, e))
  <2>1. mem2[e.at].kind = "item" /\ mem2[e.at].len = e.len /\ (e.at # a => mem2[a].kind = "dummy")
    BY <1>1, <1>2, <1>6, <1>8
  <2>2. Kept(mem, mem2, a, f)
    BY <1>7 DEF Kept
  <2>3. mem2 \in [Index -> Headers]
    BY <1>6
  <2>4. b = End(e) /\ full \in BOOLEAN /\ (full <=> b = f)
    BY DEF Laid
  <2> QED BY <2>1, <2>2, <2>3, <2>4, <1>1, ChainExtend
<1>10. ASSUME NEW i \in 1..Len(q)
       PROVE  mem2[q[i].at] = mem[q[i].at]
  <2>1. q[i] \in Items /\ q[i].at \in Room /\ Placed(mem, f, Used(a, f, FALSE), q[i])
    BY <1>1, ChainPointers DEF Chain
  <2>2. PICK x \in Room, l \in Nat : x = q[i].at /\ l = q[i].len
    BY <2>1 DEF Items
  <2>3. Dist(f, x) + HEADER + l <= Dist(f, a)
    BY <2>1, <2>2 DEF Placed, Used
  <2>4. Dist(f, x) \in Nat /\ Dist(f, a) \in Nat
    BY <1>1, DistNat
  <2>5. Dist(f, x) < Dist(f, a)
    BY <2>3, <2>4
  <2>6. x \in Index
    BY DEF Room, Index
  <2> QED BY <2>2, <2>5, <2>6, <1>7
<1>11. b \in Room
  BY <1>2, <1>3, WrapRoom DEF End, Laid
<1> QED BY <1>2, <1>3, <1>6, <1>9, <1>10, <1>11

\* A chain is one of kinds and lengths: the marks on the headers do not matter.
SameItems(mem, mem2) ==
  /\ mem2 \in [Index -> Headers]
  /\ \A i \in Index : mem2[i].kind = mem[i].kind /\ mem2[i].len = mem[i].len

\* Changing only marks keeps a chain.
LEMMA ChainSame ==
  ASSUME NEW mem, NEW a, NEW f, NEW full, NEW q, Chain(mem, a, f, full, q),
         NEW mem2, SameItems(mem, mem2)
  PROVE  Chain(mem2, a, f, full, q)
<1>1. Room \subseteq Index
  BY Sizes DEF Room, Index
<1>2. ASSUME NEW i \in 1..Len(q)
      PROVE  Placed(mem2, f, Used(a, f, full), q[i]) /\ Linked(mem2, f, Ptr(f, q, i), q[i].at)
  <2>1. q[i].at \in Room
    BY ChainPointers
  <2>2. Ptr(f, q, i) \in Room
    <3>1. i \in 1..Len(q) + 1
      BY DEF Chain
    <3> QED BY <3>1, ChainPointers
  <2>3. PICK x, p : x = q[i].at /\ p = Ptr(f, q, i)
    OBVIOUS
  <2>4. /\ mem2[x].kind = mem[x].kind /\ mem2[x].len = mem[x].len
        /\ mem2[p].kind = mem[p].kind
    BY <1>1, <2>1, <2>2, <2>3 DEF SameItems
  <2>5. Placed(mem, f, Used(a, f, full), q[i]) /\ Linked(mem, f, p, x)
    BY <2>3 DEF Chain
  <2> QED BY <2>3, <2>4, <2>5 DEF Placed, Linked
<1>3. mem2 \in [Index -> Headers]
  BY DEF SameItems
<1> QED BY <1>2, <1>3 DEF Chain

\* Writing a mark of a header.
LEMMA MarkSame ==
  ASSUME NEW mem \in [Index -> Headers], NEW at \in Index, NEW mem2,
         \/ mem2 = [mem EXCEPT ![at].written = TRUE]
         \/ mem2 = [mem EXCEPT ![at].free = TRUE, ![at].split = FALSE]
  PROVE  /\ SameItems(mem, mem2)
         /\ \A i \in Index : i # at => mem2[i] = mem[i]
<1>1. mem[at] \in Headers
  OBVIOUS
<1>2. CASE mem2 = [mem EXCEPT ![at].written = TRUE]
  <2>1. mem2 = [mem EXCEPT ![at] = [mem[at] EXCEPT !.written = TRUE]]
    BY <1>2
  <2>2. PICK h : h = [mem[at] EXCEPT !.written = TRUE]
    OBVIOUS
  <2>3. h \in Headers /\ h.kind = mem[at].kind /\ h.len = mem[at].len
    BY <1>1, <2>2 DEF Headers
  <2> QED BY <2>1, <2>2, <2>3 DEF SameItems
<1>3. CASE mem2 = [mem EXCEPT ![at].free = TRUE, ![at].split = FALSE]
  <2>1. PICK h : h = [mem[at] EXCEPT !.free = TRUE, !.split = FALSE]
    OBVIOUS
  <2>2. h \in Headers /\ h.kind = mem[at].kind /\ h.len = mem[at].len
    BY <1>1, <2>1 DEF Headers
  <2>3. mem2 = [mem EXCEPT ![at] = h]
    BY <1>3, <2>1
  <2> QED BY <2>1, <2>2, <2>3 DEF SameItems
<1> QED BY <1>2, <1>3

\* Two items of a chain have different offsets.
LEMMA ChainApart ==
  ASSUME NEW mem, NEW a, NEW f, NEW full, NEW q, Chain(mem, a, f, full, q),
         NEW i \in 1..Len(q), NEW j \in 1..Len(q), i # j
  PROVE  q[i].at # q[j].at
<1>1. q[i] \in Items /\ q[j] \in Items /\ q[i].at \in Room /\ q[j].at \in Room /\ f \in Room
  BY ChainPointers DEF Chain
<1>2. PICK x \in Room, y \in Room, k \in Nat, l \in Nat :
        x = q[i].at /\ y = q[j].at /\ k = q[i].len /\ l = q[j].len
  BY <1>1 DEF Items
<1>3. Dist(f, x) + HEADER + k <= Dist(f, y) \/ Dist(f, y) + HEADER + l <= Dist(f, x)
  <2>1. i < j \/ j < i
    BY DEF Chain
  <2> QED BY <2>1, <1>2 DEF Chain, Before
<1>4. Dist(f, x) \in Nat /\ Dist(f, y) \in Nat
  BY <1>1, DistNat
<1>5. x # y
  BY <1>3, <1>4, Sizes
<1> QED BY <1>2, <1>5

\* Chain q2 with storage mem2 is q with more items behind.
Grows(sp, q, mem, q2, mem2) ==
  /\ q2 \in Seq(Items) /\ Len(q) <= Len(q2)
  /\ \A i \in 1..Len(q) : q2[i] = q[i] /\ mem2[q[i].at] = mem[q[i].at]
  /\ \A i \in Len(q) + 1 .. Len(q2) :
       /\ ~mem2[q2[i].at].free
       /\ mem2[q2[i].at].split => sp /\ i < Len(q2) /\ Parts(q2[i], q2[i + 1])

\* New items leave the marks, the items that are held and pucRead alone.
LEMMA Grown ==
  ASSUME NEW q \in Seq(Items), NEW mem, NEW m \in 0..2, m <= Len(q), NEW hold,
         Flags(split, mem, q, m), HeldIs(hold, mem, q, m),
         NEW q2, NEW mem2, Grows(split, q, mem, q2, mem2), NEW f
  PROVE  /\ Flags(split, mem2, q2, m)
         /\ HeldIs(hold, mem2, q2, m)
         /\ Ptr(f, q2, m + 1) = Ptr(f, q, m + 1)
<1>1. /\ Len(q) \in Nat /\ Len(q2) \in Nat /\ Len(q) <= Len(q2) /\ m \in Nat
  BY DEF Grows
<1>2. Ptr(f, q2, m + 1) = Ptr(f, q, m + 1)
  <2>1. CASE m = 0
    BY <2>1 DEF Ptr
  <2>2. CASE m # 0
    <3>1. m \in 1..Len(q) /\ (m + 1) - 1 = m /\ m + 1 # 1
      BY <2>2, <1>1
    <3> QED BY <3>1 DEF Ptr, Grows
  <2> QED BY <2>1, <2>2
<1>3. ASSUME NEW i \in 1..Len(q2), mem2[q2[i].at].free
      PROVE  i = 2 /\ m = 2
  <2>1. i \in 1..Len(q)
    BY <1>1, <1>3 DEF Grows
  <2>2. q2[i] = q[i] /\ mem2[q[i].at] = mem[q[i].at]
    BY <2>1 DEF Grows
  <2>3. mem[q[i].at].free
    BY <1>3, <2>2
  <2> QED BY <2>1, <2>3 DEF Flags
<1>4. ASSUME m = 2
      PROVE  Parts(q2[1], q2[2])
  <2>1. 1 \in 1..Len(q) /\ 2 \in 1..Len(q)
    BY <1>1, <1>4
  <2>2. q2[1] = q[1] /\ q2[2] = q[2]
    BY <2>1 DEF Grows
  <2> QED BY <1>4, <2>2 DEF Flags
<1>5. ASSUME NEW i \in m + 1 .. Len(q2), mem2[q2[i].at].split
      PROVE  split /\ i < Len(q2) /\ Parts(q2[i], q2[i + 1])
  <2>1. CASE i \in Len(q) + 1 .. Len(q2)
    BY <1>5, <2>1 DEF Grows
  <2>2. CASE i \in m + 1 .. Len(q)
    <3>1. i \in 1..Len(q)
      BY <1>1, <2>2
    <3>2. q2[i] = q[i] /\ mem2[q[i].at] = mem[q[i].at]
      BY <3>1 DEF Grows
    <3>3. mem[q[i].at].split
      BY <1>5, <3>2
    <3>4. split /\ i < Len(q) /\ Parts(q[i], q[i + 1])
      BY <2>2, <3>3 DEF Flags
    <3>5. i + 1 \in 1..Len(q)
      BY <3>1, <3>4, <1>1
    <3>6. q2[i + 1] = q[i + 1] /\ i < Len(q2)
      BY <3>5, <3>4, <3>1, <1>1 DEF Grows
    <3> QED BY <3>2, <3>4, <3>6
  <2> QED BY <2>1, <2>2, <1>1
<1>6. HeldIs(hold, mem2, q2, m)
  <2>1. \A j \in 1..m : q2[j] = q[j] /\ mem2[q[j].at] = mem[q[j].at]
    BY <1>1 DEF Grows
  <2>2. \A j \in 1..m : q2[j] = q[j] /\ mem2[q2[j].at].free = mem[q[j].at].free
    BY <2>1
  <2>3. {j \in 1..m : ~mem2[q2[j].at].free} = {j \in 1..m : ~mem[q[j].at].free}
    BY <2>2
  <2>4. PICK J : J = {j \in 1..m : ~mem[q[j].at].free}
    OBVIOUS
  <2>5. \A j \in J : q2[j] = q[j]
    BY <2>2, <2>4
  <2>6. {[at |-> q2[i].at, len |-> q2[i].len] : i \in J} = {[at |-> q[i].at, len |-> q[i].len] : i \in J}
    BY <2>5
  <2>7. Lent(mem2, q2, m) = Lent(mem, q, m)
    BY <2>3, <2>4, <2>6 DEF Lent
  <2> QED BY <2>7 DEF HeldIs
<1> QED BY <1>2, <1>3, <1>4, <1>5, <1>6 DEF Flags

\* The history grows with the chain.
LEMMA OrderOne ==
  ASSUME NEW q \in Seq(Items), NEW m \in 0..2, m <= Len(q), NEW ord, OrderIs(ord, q, m),
         NEW e \in Items
  PROVE  /\ OrderIs(Append(ord, e), Append(q, e), m)
         /\ ord \o <<e>> = Append(ord, e)
         /\ ord \in Seq(Items)
<1>1. Len(q) - m \in Nat /\ m \in Nat /\ Len(q) \in Nat
  OBVIOUS
<1>2. \A i \in 1 .. Len(q) - m : m + i \in 1..Len(q)
  BY <1>1
<1>3. ord \in Seq(Items) /\ Len(ord) = Len(q) - m
  BY <1>1, <1>2 DEF OrderIs
<1>4. ord \o <<e>> = Append(ord, e)
  BY <1>3
<1>5. PICK o : o = Append(ord, e)
  OBVIOUS
<1>6. PICK q2 : q2 = Append(q, e)
  OBVIOUS
<1>7. /\ o \in Seq(Items) /\ Len(o) = (Len(q) - m) + 1
      /\ o[(Len(q) - m) + 1] = e /\ \A i \in 1 .. Len(q) - m : o[i] = ord[i]
  BY <1>3, <1>5
<1>8. /\ Len(q2) = Len(q) + 1 /\ q2[Len(q) + 1] = e
      /\ \A i \in 1..Len(q) : q2[i] = q[i]
  BY <1>6
<1>9. Len(q2) - m = Len(o)
  BY <1>1, <1>7, <1>8
<1>10. ASSUME NEW i \in 1..Len(o)
       PROVE  o[i] = q2[m + i]
  <2>1. CASE i = (Len(q) - m) + 1
    <3>1. m + i = Len(q) + 1
      BY <2>1, <1>1
    <3> QED BY <2>1, <3>1, <1>7, <1>8
  <2>2. CASE i \in 1 .. Len(q) - m
    <3>1. ord[i] = q[m + i]
      BY <2>2 DEF OrderIs
    <3> QED BY <2>2, <3>1, <1>2, <1>7, <1>8
  <2> QED BY <2>1, <2>2, <1>1, <1>7
<1>11. o = [i \in 1..Len(o) |-> o[i]]
  BY <1>7
<1>12. OrderIs(o, q2, m)
  BY <1>9, <1>10, <1>11 DEF OrderIs
<1> QED BY <1>3, <1>4, <1>5, <1>6, <1>12

-----------------------------------------------------------------------------
(* An item that prvCheckItemFitsDefault accepts has a place. *)

\* Arithmetic of prvCheckItemFitsDefault and ItemAddress on a no-split buffer.
LEMMA FitsArith ==
  ASSUME NEW a \in Room, NEW f \in Room, NEW n \in Nat, NEW at \in Int,
         n <= (xSize + 1) \div 2 - HEADER,
         at = IF xSize - a < n + HEADER THEN 0 ELSE a,
         \/ a = f
         \/ f > a /\ n + HEADER <= f - a
         \/ f < a /\ (n + HEADER <= xSize - a \/ n + HEADER <= f)
  PROVE  at \in Nat /\ Slot(a, f, at, n)
<1> USE Sizes
<1>1. 2 * (n + HEADER) <= xSize + 1
  OBVIOUS
<1>2. CASE xSize - a < n + HEADER
  <2>1. at = 0 /\ 0 < f /\ f <= a /\ HEADER + n <= f
    BY <1>1, <1>2 DEF Room
  <2> QED BY <2>1 DEF Slot
<1>3. CASE ~(xSize - a < n + HEADER)
  BY <1>3 DEF Room, Slot
<1> QED BY <1>2, <1>3

\* No-split: at pucAcquire or behind a dummy item at pucHead.
LEMMA FitsNoSplit ==
  ASSUME rb \in Buffers, rb.full => rb.pucAcquire = rb.pucFree, ~split,
         NEW n \in Nat, n <= xMaxItemSize, prvCheckItemFitsDefault(n)
  PROVE  /\ ~rb.full
         /\ ItemAddress(rb, n) \in Nat
         /\ Slot(rb.pucAcquire, rb.pucFree, ItemAddress(rb, n), n)
<1>1. PICK a \in Room, f \in Room : a = rb.pucAcquire /\ f = rb.pucFree
  BY DEF Buffers
<1>2. ~rb.full
  BY DEF prvCheckItemFitsDefault
<1>3. PICK at : at = ItemAddress(rb, n)
  OBVIOUS
<1>4. at = (IF xSize - a < n + HEADER THEN 0 ELSE a) /\ at \in Int
  BY <1>1, <1>3 DEF ItemAddress, Room
<1>5. n <= (xSize + 1) \div 2 - HEADER
  BY DEF xMaxItemSize
<1>6. \/ a = f
      \/ f > a /\ n + HEADER <= f - a
      \/ f < a /\ (n + HEADER <= xSize - a \/ n + HEADER <= f)
  BY <1>1, Sizes DEF prvCheckItemFitsDefault, Room
<1>7. at \in Nat /\ Slot(a, f, at, n)
  BY <1>4, <1>5, <1>6, FitsArith
<1> QED BY <1>1, <1>2, <1>3, <1>7

\* Arithmetic of prvCheckItemFitsDefault and FirstPart on an allow-split buffer.
LEMMA FitsSplitArith ==
  ASSUME NEW a \in Room, NEW f \in Room, NEW n \in Nat, NEW k \in Int,
         n + 2 * HEADER < xSize,
         k = IF xSize - a < n + HEADER THEN xSize - a - HEADER ELSE n,
         \/ a = f
         \/ f > a /\ n + HEADER <= f - a
         \/ f < a /\ (n + HEADER <= xSize - a \/ n + HEADER + HEADER <= xSize - (a - f))
  PROVE  /\ k \in Nat
         /\ k = n => Slot(a, f, a, n)
         /\ k # n => /\ a + HEADER + k = xSize /\ 0 < f /\ n - k \in Nat
                     /\ k > 0 => Slot(a, f, a, k) /\ Slot(0, f, 0, n - k)
                     /\ k = 0 => Slot(a, f, 0, n)
<1> USE Sizes
<1>1. k \in Nat
  BY DEF Room
<1>2. CASE ~(xSize - a < n + HEADER)
  BY <1>2 DEF Room, Slot
<1>3. CASE xSize - a < n + HEADER
  <2>1. k # n /\ n - k \in Nat /\ a + HEADER + k = xSize /\ f <= a
    BY <1>3 DEF Room
  <2>2. HEADER + (n - k) <= f /\ 0 < f
    BY <1>3, <2>1 DEF Room
  <2> QED BY <1>1, <2>1, <2>2 DEF Room, Slot
<1> QED BY <1>2, <1>3

\* Allow-split: at pucAcquire, whole or as far as it goes, and the rest at pucHead.
LEMMA FitsSplit ==
  ASSUME rb \in Buffers, rb.full => rb.pucAcquire = rb.pucFree, split,
         NEW n \in Nat, n + 2 * HEADER < xSize, prvCheckItemFitsDefault(n),
         NEW a, NEW f, NEW k, a = rb.pucAcquire, f = rb.pucFree, k = FirstPart(rb, n)
  PROVE  /\ ~rb.full /\ k \in Nat
         /\ k = n => Slot(a, f, a, n)
         /\ k # n => /\ a + HEADER + k = xSize /\ 0 < f /\ n - k \in Nat
                     /\ k > 0 => Slot(a, f, a, k) /\ Slot(0, f, 0, n - k)
                     /\ k = 0 => Slot(a, f, 0, n)
<1>1. a \in Room /\ f \in Room
  BY DEF Buffers
<1>2. ~rb.full
  BY DEF prvCheckItemFitsDefault
<1>3. k = (IF xSize - a < n + HEADER THEN xSize - a - HEADER ELSE n) /\ k \in Int
  BY <1>1, Sizes DEF FirstPart, Room
<1>4. \/ a = f
      \/ f > a /\ n + HEADER <= f - a
      \/ f < a /\ (n + HEADER <= xSize - a \/ n + HEADER + HEADER <= xSize - (a - f))
  BY <1>1, Sizes DEF prvCheckItemFitsDefault, Room
<1> QED BY <1>1, <1>2, <1>3, <1>4, FitsSplitArith

-----------------------------------------------------------------------------
(* The static functions on a chain. *)

\* q2 is q with e appended.
Longer(q, e, q2) == q \in Seq(Items) /\ e \in Items /\ q2 = Append(q, e)

\* A sequence with an item appended.
LEMMA LongerFacts ==
  ASSUME NEW q, NEW e, NEW q2, Longer(q, e, q2)
  PROVE  /\ q2 \in Seq(Items) /\ Len(q2) = Len(q) + 1 /\ Len(q) \in Nat
         /\ q2[Len(q) + 1] = e
         /\ \A i \in 1..Len(q) : q2[i] = q[i]
         /\ \A i \in Len(q) + 1 .. Len(q2) : i = Len(q) + 1
  BY DEF Longer

\* Buffer b0 with chain q has room for an item of n words at offset at.
HasPlace(b0, q, n, at) ==
  /\ b0 \in Buffers /\ Chain(b0.mem, b0.pucAcquire, b0.pucFree, b0.full, q) /\ ~b0.full
  /\ n \in Nat /\ at = ItemAddress(b0, n) /\ at \in Nat
  /\ Slot(b0.pucAcquire, b0.pucFree, at, n)

Acquired(b0, q, n, at, b, q2) ==
  /\ b \in Buffers
  /\ Chain(b.mem, b.pucAcquire, b.pucFree, b.full, q2)
  /\ b.pucFree = b0.pucFree /\ b.pucRead = b0.pucRead /\ b.pucWrite = b0.pucWrite
  /\ b.xItemsWaiting = b0.xItemsWaiting
  /\ b.mem[at] = Header("item", n, FALSE)
  /\ \A i \in 1..Len(q) : b.mem[q[i].at] = b0.mem[q[i].at]

\* prvAcquireItemNoSplit appends an item.
LEMMA AcquireChain ==
  ASSUME NEW b0, NEW q, NEW n, NEW at, HasPlace(b0, q, n, at),
         NEW e, NEW q2, Longer(q, e, q2), e.at = at, e.len = n,
         NEW b, b = prvAcquireItemNoSplit(b0, n)
  PROVE  Acquired(b0, q, n, at, b, q2)
<1>0. /\ b0 \in Buffers /\ Chain(b0.mem, b0.pucAcquire, b0.pucFree, b0.full, q) /\ ~b0.full
      /\ n \in Nat /\ at = ItemAddress(b0, n) /\ at \in Nat
      /\ Slot(b0.pucAcquire, b0.pucFree, at, n)
  BY DEF HasPlace
<1>1. e \in Items /\ e.at = at /\ e.len = n /\ q2 = Append(q, e)
  BY DEF Longer
<1>2. PICK h : h = Header("item", n, FALSE)
  OBVIOUS
<1>3. h \in Headers /\ h.kind = "item" /\ h.len = n
  BY <1>0, <1>2, HeaderTypes
<1>4. PICK mem, a, f : mem = b0.mem /\ a = b0.pucAcquire /\ f = b0.pucFree
  OBVIOUS
<1>5. PICK mem2 : mem2 = Store(SkippedTo(mem, a, at), at, n, h)
  OBVIOUS
<1>6. PICK b1 : b1 = [b0 EXCEPT !.mem = mem2]
  OBVIOUS
<1>7. b = AcquireUpTo(b1, at + HEADER + n)
  BY <1>0, <1>2, <1>4, <1>5, <1>6 DEF prvAcquireItemNoSplit, SkippedTo
<1>8. Chain(mem, a, f, FALSE, q)
  <2>1. b0.full = FALSE
    BY <1>0 DEF Buffers
  <2> QED BY <1>0, <1>4, <2>1
<1>10. PICK a2, fu : a2 = End(e) /\ fu \in BOOLEAN /\ (fu <=> a2 = f)
  OBVIOUS
<1>11. /\ Chain(mem2, a2, f, fu, q2)
       /\ a2 \in Room /\ fu \in BOOLEAN
       /\ mem2 \in [Index -> Headers] /\ mem2[at] = h
       /\ \A i \in 1..Len(q) : mem2[q[i].at] = mem[q[i].at]
  <2>1. Laid(mem, a, f, q, e, h, mem2, a2, fu)
    BY <1>0, <1>1, <1>3, <1>4, <1>5, <1>8, <1>10 DEF Laid
  <2>2. /\ Chain(mem2, a2, f, fu, Append(q, e))
        /\ a2 \in Room /\ mem2 \in [Index -> Headers] /\ mem2[e.at] = h
        /\ \A i \in 1..Len(q) : mem2[q[i].at] = mem[q[i].at]
    BY <2>1, ChainPlace
  <2> QED BY <1>1, <1>10, <2>2
<1>12. b1 \in Buffers /\ b1.mem = mem2 /\ b1.pucFree = f /\ b1.full = FALSE
       /\ b1.pucRead = b0.pucRead /\ b1.pucWrite = b0.pucWrite /\ b1.xItemsWaiting = b0.xItemsWaiting
  BY <1>0, <1>4, <1>6, <1>11 DEF Buffers
<1>13. a2 = Wrap(at + HEADER + n)
  BY <1>1, <1>10 DEF End
<1>14. /\ b \in Buffers /\ b.mem = mem2 /\ b.pucFree = f /\ b.pucAcquire = a2 /\ b.full = fu
       /\ b.pucRead = b0.pucRead /\ b.pucWrite = b0.pucWrite /\ b.xItemsWaiting = b0.xItemsWaiting
  <2>1. b = [b1 EXCEPT !.pucAcquire = a2, !.full = FALSE \/ a2 = f]
    BY <1>7, <1>12, <1>13 DEF AcquireUpTo
  <2>2. b = [b1 EXCEPT !.pucAcquire = a2, !.full = fu]
    BY <2>1, <1>10
  <2> QED BY <2>2, <1>11, <1>12 DEF Buffers
<1> QED BY <1>1, <1>2, <1>4, <1>11, <1>14 DEF Acquired

\* prvSendItemDoneNoSplit of the last item: pucWrite reaches pucAcquire.
LastOpen(b0, q, n, at) ==
  /\ b0 \in Buffers /\ Chain(b0.mem, b0.pucAcquire, b0.pucFree, b0.full, q)
  /\ n = Len(q) /\ n > 0 /\ at = q[n].at /\ b0.pucWrite = Ptr(b0.pucFree, q, n)

\* It keeps the chain and counts the item.
LEMMA DoneChain ==
  ASSUME NEW b0, NEW q, NEW n, NEW at, LastOpen(b0, q, n, at),
         NEW b, b = prvSendItemDoneNoSplit(b0, at)
  PROVE  /\ b \in Buffers
         /\ Chain(b.mem, b.pucAcquire, b.pucFree, b.full, q)
         /\ b.pucFree = b0.pucFree /\ b.pucRead = b0.pucRead /\ b.pucWrite = b0.pucAcquire
         /\ b.pucAcquire = b0.pucAcquire
         /\ b.full = b0.full /\ b.xItemsWaiting = b0.xItemsWaiting + 1
         /\ b.mem[at].free = b0.mem[at].free /\ b.mem[at].split = b0.mem[at].split
         /\ \A i \in Index : i # at => b.mem[i] = b0.mem[i]
<1>0. /\ b0 \in Buffers /\ Chain(b0.mem, b0.pucAcquire, b0.pucFree, b0.full, q)
      /\ n = Len(q) /\ n > 0 /\ at = q[n].at /\ b0.pucWrite = Ptr(b0.pucFree, q, n)
  BY DEF LastOpen
<1>1. PICK mem, a, f : mem = b0.mem /\ a = b0.pucAcquire /\ f = b0.pucFree
  OBVIOUS
<1>2. mem \in [Index -> Headers] /\ n \in 1..Len(q) /\ n \in 1 .. Len(q) + 1 /\ q \in Seq(Items)
  BY <1>0, <1>1 DEF Chain
<1>3. q[n] \in Items /\ at \in Room /\ at \in Index
  <2>1. q[n] \in Items /\ q[n].at \in Room
    BY <1>0, <1>2, ChainPointers
  <2> QED BY <1>0, <2>1, Sizes DEF Room, Index
<1>4. PICK mem2 : mem2 = [mem EXCEPT ![at].written = TRUE]
  OBVIOUS
<1>5. SameItems(mem, mem2) /\ \A i \in Index : i # at => mem2[i] = mem[i]
  BY <1>2, <1>3, <1>4, MarkSame
<1>6. mem2[at].written /\ mem2[at].free = mem[at].free /\ mem2[at].split = mem[at].split
  <2>1. mem[at] \in Headers
    BY <1>2, <1>3
  <2>2. mem2[at] = [mem[at] EXCEPT !.written = TRUE]
    BY <1>2, <1>3, <1>4
  <2> QED BY <2>1, <2>2 DEF Headers
<1>7. PICK p : p = b0.pucWrite
  OBVIOUS
<1>8. PICK done : done = {i \in Index : mem2[i].written}
  OBVIOUS
<1>9. Chain(mem2, a, f, b0.full, q)
  BY <1>0, <1>1, <1>5, ChainSame
<1>10. Skip(mem2, p, a, done) = a
  <2>1. p = at \/ (at = 0 /\ mem2[p].kind = "dummy")
    <3>1. Ptr(f, q, n) = q[n].at \/ (q[n].at = 0 /\ mem2[Ptr(f, q, n)].kind = "dummy")
      BY <1>0, <1>2, <1>9, ChainPointers
    <3> QED BY <3>1, <1>0, <1>1, <1>7
  <2>2. mem2[at].kind = "item" /\ mem2[at].len = q[n].len
    BY <1>0, <1>2, <1>9 DEF Chain, Placed
  <2>3. at \in done
    BY <1>3, <1>6, <1>8
  <2>4. a = Wrap(at + HEADER + mem2[at].len)
    <3>1. a = Ptr(f, q, n + 1)
      BY <1>0, <1>9 DEF Chain
    <3>2. (n + 1) - 1 = n /\ n + 1 # 1
      BY <1>2
    <3> QED BY <1>0, <3>1, <3>2, <2>2 DEF Ptr, End
  <2> QED BY <2>1, <2>2, <2>3, <2>4, SkipOne
<1>11. b = [b0 EXCEPT !.mem = mem2, !.xItemsWaiting = b0.xItemsWaiting + 1, !.pucWrite = a]
  <2>1. b = [b0 EXCEPT !.mem = mem2, !.xItemsWaiting = b0.xItemsWaiting + 1,
                       !.pucWrite = Skip(mem2, p, a, done)]
    BY <1>1, <1>4, <1>7, <1>8 DEF prvSendItemDoneNoSplit
  <2> QED BY <2>1, <1>10
<1>12. /\ b \in Buffers /\ b.mem = mem2 /\ b.pucFree = f /\ b.pucAcquire = a /\ b.full = b0.full
       /\ b.pucRead = b0.pucRead /\ b.pucWrite = a /\ b.xItemsWaiting = b0.xItemsWaiting + 1
  <2>1. a \in Room /\ mem2 \in [Index -> Headers] /\ b0.xItemsWaiting + 1 \in Nat
    BY <1>0, <1>1, <1>5 DEF SameItems, Buffers
  <2> QED BY <2>1, <1>0, <1>1, <1>11 DEF Buffers
<1> QED BY <1>1, <1>5, <1>6, <1>9, <1>12

\* A copy of an item that is sent at once: chain q becomes q2, pucWrite reaches
\* pucAcquire and the counter grows with the chain.
Copied(sp, b0, q, b, q2) ==
  /\ b \in Buffers
  /\ Chain(b.mem, b.pucAcquire, b.pucFree, b.full, q2)
  /\ Grows(sp, q, b0.mem, q2, b.mem)
  /\ b.pucFree = b0.pucFree /\ b.pucRead = b0.pucRead /\ b.pucWrite = b.pucAcquire
  /\ b.xItemsWaiting = b0.xItemsWaiting + (Len(q2) - Len(q))
  /\ Len(q2) > Len(q)
  /\ \A i \in Len(q) + 1 .. Len(q2) : q2[i].sent

\* prvCopyItemNoSplit.
LEMMA CopyNoSplit ==
  ASSUME NEW b0, NEW q, NEW n, NEW at, HasPlace(b0, q, n, at),
         b0.pucWrite = Ptr(b0.pucFree, q, Len(q) + 1),
         NEW e, NEW q2, Longer(q, e, q2), e.at = at, e.len = n, e.sent,
         NEW b, b = prvCopyItemNoSplit(b0, n)
  PROVE  Copied(split, b0, q, b, q2)
<1>1. PICK b1 : b1 = prvAcquireItemNoSplit(b0, n)
  OBVIOUS
<1>3. /\ b1 \in Buffers
      /\ Chain(b1.mem, b1.pucAcquire, b1.pucFree, b1.full, q2)
      /\ b1.pucFree = b0.pucFree /\ b1.pucRead = b0.pucRead /\ b1.pucWrite = b0.pucWrite
      /\ b1.xItemsWaiting = b0.xItemsWaiting
      /\ b1.mem[at] = Header("item", n, FALSE)
      /\ \A i \in 1..Len(q) : b1.mem[q[i].at] = b0.mem[q[i].at]
  <2>1. Acquired(b0, q, n, at, b1, q2)
    BY <1>1, AcquireChain
  <2> QED BY <2>1 DEF Acquired
<1>4. q \in Seq(Items) /\ n \in Nat /\ at = ItemAddress(b0, n)
      /\ Chain(b0.mem, b0.pucAcquire, b0.pucFree, b0.full, q) /\ b0.xItemsWaiting \in Nat
  BY <1>3 DEF HasPlace, Chain, Buffers
<1>5. /\ q2 \in Seq(Items) /\ Len(q2) = Len(q) + 1 /\ q2[Len(q) + 1] = e /\ Len(q) \in Nat
      /\ \A i \in 1..Len(q) : q2[i] = q[i]
      /\ \A i \in Len(q) + 1 .. Len(q2) : i = Len(q) + 1
  BY LongerFacts
<1>6. e.at = at /\ e.len = n /\ e.sent
  OBVIOUS
<1>7. b = prvSendItemDoneNoSplit(b1, at)
  BY <1>1, <1>4 DEF prvCopyItemNoSplit
<1>8. PICK k : k = Len(q2)
  OBVIOUS
<1>9. k > 0 /\ at = q2[k].at /\ b1.pucWrite = Ptr(b1.pucFree, q2, k)
  <2>1. k = Len(q) + 1 /\ k > 0
    BY <1>5, <1>8
  <2>2. Ptr(b0.pucFree, q2, k) = Ptr(b0.pucFree, q, k)
    <3>1. CASE k = 1
      BY <3>1 DEF Ptr
    <3>2. CASE k # 1
      <4>1. k - 1 \in 1..Len(q)
        BY <3>2, <2>1, <1>5
      <4> QED BY <4>1, <3>2, <1>5 DEF Ptr
    <3> QED BY <3>1, <3>2
  <2> QED BY <2>1, <2>2, <1>3, <1>5, <1>6, <1>8
<1>10. /\ b \in Buffers
       /\ Chain(b.mem, b.pucAcquire, b.pucFree, b.full, q2)
       /\ b.pucFree = b1.pucFree /\ b.pucRead = b1.pucRead /\ b.pucWrite = b1.pucAcquire
       /\ b.pucAcquire = b1.pucAcquire
       /\ b.full = b1.full /\ b.xItemsWaiting = b1.xItemsWaiting + 1
       /\ b.mem[at].free = b1.mem[at].free /\ b.mem[at].split = b1.mem[at].split
       /\ \A i \in Index : i # at => b.mem[i] = b1.mem[i]
  <2>1. LastOpen(b1, q2, k, at)
    BY <1>3, <1>8, <1>9 DEF LastOpen
  <2> QED BY <2>1, <1>7, DoneChain
<1>11. Grows(split, q, b0.mem, q2, b.mem)
  <2>1. ASSUME NEW i \in 1..Len(q)
        PROVE  q2[i] = q[i] /\ b.mem[q[i].at] = b0.mem[q[i].at]
    <3>1. i \in 1..Len(q2) /\ k \in 1..Len(q2) /\ i # k
      BY <1>5, <1>8
    <3>2. q2[i].at # q2[k].at
      <4>1. Chain(b1.mem, b1.pucAcquire, b1.pucFree, b1.full, q2)
        BY <1>3
      <4> QED BY <3>1, <4>1, ChainApart
    <3>3. q2[i] = q[i]
      BY <1>5
    <3>4. q[i].at \in Room
      BY <1>4, ChainPointers
    <3>5. q[i].at \in Index /\ q[i].at # at
      <4>1. q[i].at # at
        BY <3>2, <3>3, <1>9
      <4>2. Room \subseteq Index
        BY Sizes DEF Room, Index
      <4> QED BY <3>4, <4>1, <4>2
    <3> QED BY <3>3, <3>5, <1>3, <1>10
  <2>2. ASSUME NEW i \in Len(q) + 1 .. Len(q2)
        PROVE  ~b.mem[q2[i].at].free /\ ~b.mem[q2[i].at].split
    <3>1. q2[i].at = at
      BY <1>5, <1>6
    <3>2. ~b1.mem[at].free /\ b1.mem[at].split = FALSE
      BY <1>3, <1>4, HeaderTypes
    <3> QED BY <3>1, <3>2, <1>10
  <2> QED BY <2>1, <2>2, <1>5 DEF Grows
<1>12. /\ b.xItemsWaiting = b0.xItemsWaiting + (Len(q2) - Len(q))
       /\ \A i \in Len(q) + 1 .. Len(q2) : q2[i].sent
       /\ Len(q2) > Len(q)
  <2>1. b.xItemsWaiting = b0.xItemsWaiting + 1 /\ Len(q2) - Len(q) = 1 /\ Len(q2) > Len(q)
    BY <1>3, <1>5, <1>10
  <2>2. \A i \in Len(q) + 1 .. Len(q2) : q2[i].sent
    BY <1>5, <1>6
  <2> QED BY <2>1, <2>2
<1> QED BY <1>3, <1>10, <1>11, <1>12 DEF Copied

\* The record that prvCopyItemAllowSplit leaves: storage mem2, pucAcquire and
\* pucWrite at a2, c items more.
CopyRecord(b0, mem2, c, p) ==
  LET b2 == AcquireUpTo([b0 EXCEPT !.mem = mem2, !.xItemsWaiting = @ + c], p)
  IN  [b2 EXCEPT !.pucWrite = b2.pucAcquire]
CopyFields(b0, mem2, c, a2, full, b) ==
  /\ b \in Buffers /\ b.mem = mem2 /\ b.pucAcquire = a2 /\ b.pucWrite = a2 /\ b.full = full
  /\ b.pucFree = b0.pucFree /\ b.pucRead = b0.pucRead /\ b.xItemsWaiting = b0.xItemsWaiting + c
CopyMade(b0, mem2, c, p, a2, full, b) ==
  /\ b0 \in Buffers /\ b0.full = FALSE /\ mem2 \in [Index -> Headers] /\ c \in Nat
  /\ a2 \in Room /\ a2 = Wrap(p) /\ full \in BOOLEAN /\ (full <=> a2 = b0.pucFree)
  /\ b = CopyRecord(b0, mem2, c, p)

\* The fields of that record.
LEMMA CopyRecordFields ==
  ASSUME NEW b0, NEW mem2, NEW c, NEW p, NEW a2, NEW full, NEW b,
         CopyMade(b0, mem2, c, p, a2, full, b)
  PROVE  CopyFields(b0, mem2, c, a2, full, b)
<1> USE DEF CopyMade
<1>1. PICK b1 : b1 = [b0 EXCEPT !.mem = mem2, !.xItemsWaiting = b0.xItemsWaiting + c]
  OBVIOUS
<1>2. /\ b1 \in Buffers /\ b1.mem = mem2 /\ b1.xItemsWaiting = b0.xItemsWaiting + c
      /\ b1.pucFree = b0.pucFree /\ b1.pucRead = b0.pucRead /\ b1.full = FALSE
  <2>1. b0.xItemsWaiting + c \in Nat
    BY DEF Buffers
  <2> QED BY <1>1, <2>1 DEF Buffers
<1>3. PICK b2 : b2 = AcquireUpTo(b1, p)
  OBVIOUS
<1>4. b2 = [b1 EXCEPT !.pucAcquire = a2, !.full = full]
  <2>1. b2 = [b1 EXCEPT !.pucAcquire = a2, !.full = b1.full \/ a2 = b1.pucFree]
    BY <1>3 DEF AcquireUpTo
  <2>2. (b1.full \/ a2 = b1.pucFree) = full
    BY <1>2
  <2> QED BY <2>1, <2>2
<1>5. /\ b2 \in Buffers /\ b2.mem = mem2 /\ b2.xItemsWaiting = b0.xItemsWaiting + c
      /\ b2.pucFree = b0.pucFree /\ b2.pucRead = b0.pucRead /\ b2.full = full /\ b2.pucAcquire = a2
  BY <1>2, <1>4 DEF Buffers
<1>6. b = [b2 EXCEPT !.pucWrite = a2]
  <2>1. b = [b2 EXCEPT !.pucWrite = b2.pucAcquire]
    BY <1>1, <1>3 DEF CopyRecord
  <2> QED BY <2>1, <1>5
<1> QED BY <1>5, <1>6 DEF Buffers, CopyFields

\* Buffer b0 with chain q has room for an item of n words, of which k words are
\* stored in front of pucTail.
HasSplitPlace(b0, q, n, k, a, f) ==
  /\ b0 \in Buffers /\ Chain(b0.mem, a, f, FALSE, q) /\ b0.full = FALSE
  /\ a = b0.pucAcquire /\ f = b0.pucFree
  /\ n \in Nat /\ k = FirstPart(b0, n) /\ k \in Nat /\ n + 2 * HEADER < xSize
  /\ k = n => Slot(a, f, a, n)
  /\ k # n => /\ a + HEADER + k = xSize /\ 0 < f /\ n - k \in Nat
              /\ k > 0 => Slot(a, f, a, k) /\ Slot(0, f, 0, n - k)
              /\ k = 0 => Slot(a, f, 0, n)

\* prvCopyItemAllowSplit, for an item that is stored in one piece, at pucAcquire
\* or, if there is room for no more than a header, at pucHead.
LEMMA CopyWhole ==
  ASSUME NEW b0, NEW q, NEW n, NEW k, NEW a, NEW f, HasSplitPlace(b0, q, n, k, a, f),
         k = n \/ k = 0,
         NEW e, NEW q2, Longer(q, e, q2), e.at = IF k = n THEN a ELSE 0, e.len = n, e.sent,
         NEW b, b = prvCopyItemAllowSplit(b0, n)
  PROVE  Copied(split, b0, q, b, q2)
<1>1. /\ b0 \in Buffers /\ Chain(b0.mem, a, f, FALSE, q) /\ b0.full = FALSE
      /\ a = b0.pucAcquire /\ f = b0.pucFree /\ n \in Nat /\ k = FirstPart(b0, n)
      /\ e \in Items /\ a \in Room /\ f \in Room
  BY DEF HasSplitPlace, Longer, Chain
<1>2. PICK mem, h : mem = b0.mem /\ h = Header("item", n, FALSE)
  OBVIOUS
<1>3. h \in Headers /\ h.kind = "item" /\ h.len = n /\ ~h.free /\ h.split = FALSE
  BY <1>1, <1>2, HeaderTypes
<1>4. PICK mem2 : mem2 = Store(SkippedTo(mem, a, e.at), e.at, n, h)
  OBVIOUS
<1>5. PICK a2, fu : a2 = End(e) /\ fu \in BOOLEAN /\ (fu <=> a2 = f)
  OBVIOUS
<1>6. Slot(a, f, e.at, n)
  <2>1. CASE k = n
    BY <2>1 DEF HasSplitPlace
  <2>2. CASE k # n
    BY <2>2, <1>1 DEF HasSplitPlace
  <2> QED BY <2>1, <2>2
<1>7. Laid(mem, a, f, q, e, h, mem2, a2, fu)
  BY <1>1, <1>2, <1>3, <1>4, <1>5, <1>6 DEF Laid
<1>8. /\ Chain(mem2, a2, f, fu, Append(q, e))
      /\ a2 \in Room /\ mem2 \in [Index -> Headers] /\ mem2[e.at] = h
      /\ \A i \in 1..Len(q) : mem2[q[i].at] = mem[q[i].at]
  BY <1>7, ChainPlace
<1>9. b = CopyRecord(b0, mem2, 1, e.at + HEADER + n)
  <2>1. CASE k = n
    <3>1. e.at = a /\ mem2 = Store(mem, a, n, h)
      BY <2>1, <1>4 DEF SkippedTo
    <3> QED BY <2>1, <3>1, <1>1, <1>2 DEF prvCopyItemAllowSplit, CopyRecord
  <2>2. CASE k # n
    <3>1. k = 0 /\ e.at = 0 /\ n - k = n /\ HEADER + n - k = e.at + HEADER + n /\ a # 0
      <4>1. k = 0 /\ e.at = 0 /\ n - k = n /\ HEADER + n - k = e.at + HEADER + n
        BY <2>2, <1>1, Sizes
      <4>2. a + HEADER + k = xSize
        BY <2>2 DEF HasSplitPlace
      <4>3. a # 0
        BY <4>1, <4>2, <1>1, Sizes
      <4> QED BY <4>1, <4>3
    <3>2. mem2 = Store([mem EXCEPT ![a] = Dummy], 0, n, h)
      BY <3>1, <1>4 DEF SkippedTo
    <3>3. ~(k > 0)
      BY <3>1
    <3>4. b = CopyRecord(b0, Store([mem EXCEPT ![a] = Dummy], 0, n - k, Header("item", n - k, FALSE)),
                         1, HEADER + n - k)
      BY <2>2, <3>3, <1>1, <1>2 DEF prvCopyItemAllowSplit, CopyRecord
    <3> QED BY <3>1, <3>2, <3>4, <1>2
  <2> QED BY <2>1, <2>2
<1>10. CopyFields(b0, mem2, 1, a2, fu, b)
  <2>1. PICK p, c : p = e.at + HEADER + n /\ c = 1
    OBVIOUS
  <2>2. a2 = Wrap(p) /\ b = CopyRecord(b0, mem2, c, p) /\ c \in Nat
    BY <2>1, <1>5, <1>9 DEF End
  <2>3. CopyFields(b0, mem2, c, a2, fu, b)
    <3>1. CopyMade(b0, mem2, c, p, a2, fu, b)
      BY <2>2, <1>1, <1>5, <1>8 DEF CopyMade
    <3> QED BY <3>1, CopyRecordFields
  <2> QED BY <2>1, <2>3
<1>11. /\ q2 \in Seq(Items) /\ Len(q2) = Len(q) + 1 /\ q2[Len(q) + 1] = e /\ Len(q) \in Nat
       /\ \A i \in 1..Len(q) : q2[i] = q[i]
       /\ \A i \in Len(q) + 1 .. Len(q2) : i = Len(q) + 1
  BY LongerFacts
<1>12. Grows(split, q, b0.mem, q2, b.mem)
  <2>1. b.mem = mem2
    BY <1>10 DEF CopyFields
  <2>2. ASSUME NEW i \in Len(q) + 1 .. Len(q2)
        PROVE  ~mem2[q2[i].at].free /\ ~mem2[q2[i].at].split
    BY <1>3, <1>8, <1>11
  <2> QED BY <2>1, <2>2, <1>2, <1>8, <1>11 DEF Grows
<1>13. Chain(b.mem, b.pucAcquire, b.pucFree, b.full, q2)
  <2>1. q2 = Append(q, e)
    BY DEF Longer
  <2> QED BY <2>1, <1>1, <1>8, <1>10 DEF CopyFields
<1>14. /\ b.xItemsWaiting = b0.xItemsWaiting + (Len(q2) - Len(q)) /\ Len(q2) > Len(q)
       /\ \A i \in Len(q) + 1 .. Len(q2) : q2[i].sent
  <2>1. b.xItemsWaiting = b0.xItemsWaiting + 1
    BY <1>10 DEF CopyFields
  <2>2. Len(q2) - Len(q) = 1 /\ Len(q2) > Len(q)
    BY <1>11
  <2> QED BY <2>1, <2>2, <1>11
<1> QED BY <1>10, <1>12, <1>13, <1>14 DEF Copied, CopyFields

\* ... and for an item that is stored in two parts.
LEMMA CopyParts ==
  ASSUME NEW b0, NEW q, NEW n, NEW k, NEW a, NEW f, HasSplitPlace(b0, q, n, k, a, f),
         k # n, k > 0, split,
         NEW e1, NEW q1, Longer(q, e1, q1), e1.at = a, e1.len = k, e1.sent,
         NEW e2, NEW q2, Longer(q1, e2, q2), e2.at = 0, e2.len = n - k, e2.sent,
         NEW b, b = prvCopyItemAllowSplit(b0, n)
  PROVE  Copied(split, b0, q, b, q2)
<1>1. /\ b0 \in Buffers /\ Chain(b0.mem, a, f, FALSE, q) /\ b0.full = FALSE
      /\ a = b0.pucAcquire /\ f = b0.pucFree /\ n \in Nat /\ k = FirstPart(b0, n) /\ k \in Nat
      /\ e1 \in Items /\ e2 \in Items /\ a \in Room /\ f \in Room /\ n - k \in Nat
      /\ a + HEADER + k = xSize /\ 0 < f /\ Slot(a, f, a, k) /\ Slot(0, f, 0, n - k)
      /\ n + 2 * HEADER < xSize
  BY DEF HasSplitPlace, Longer, Chain
<1>2. PICK mem, h1, h2 : /\ mem = b0.mem /\ h1 = Header("item", k, TRUE)
                         /\ h2 = Header("item", n - k, FALSE)
  OBVIOUS
<1>3. /\ h1 \in Headers /\ h1.kind = "item" /\ h1.len = k /\ ~h1.free
      /\ h2 \in Headers /\ h2.kind = "item" /\ h2.len = n - k /\ ~h2.free /\ h2.split = FALSE
  BY <1>1, <1>2, HeaderTypes
<1>4. PICK mem1 : mem1 = Store(mem, a, k, h1)
  OBVIOUS
<1>5. PICK mem2 : mem2 = Store(mem1, 0, n - k, h2)
  OBVIOUS
<1>0. PICK zero, no : zero = 0 /\ no = FALSE
  OBVIOUS
<1>6. Laid(mem, a, f, q, e1, h1, mem1, zero, no)
  <2>1. mem1 = Store(SkippedTo(mem, a, e1.at), e1.at, e1.len, h1)
    BY <1>4 DEF SkippedTo
  <2>2. 0 = End(e1)
    BY <1>1, Sizes DEF End, Wrap
  <2>3. ~(0 = f)
    BY <1>1 DEF Room
  <2> QED BY <2>1, <2>2, <2>3, <1>0, <1>1, <1>2, <1>3 DEF Laid
<1>7. /\ Chain(mem1, 0, f, FALSE, q1)
      /\ mem1 \in [Index -> Headers] /\ mem1[a] = h1
      /\ \A i \in 1..Len(q) : mem1[q[i].at] = mem[q[i].at]
  <2>1. /\ Chain(mem1, zero, f, no, Append(q, e1))
        /\ mem1 \in [Index -> Headers] /\ mem1[e1.at] = h1
        /\ \A i \in 1..Len(q) : mem1[q[i].at] = mem[q[i].at]
    BY <1>6, ChainPlace
  <2>2. q1 = Append(q, e1)
    BY DEF Longer
  <2> QED BY <2>1, <2>2, <1>0
<1>8. PICK a2, fu : a2 = End(e2) /\ fu \in BOOLEAN /\ (fu <=> a2 = f)
  OBVIOUS
<1>9. Laid(mem1, 0, f, q1, e2, h2, mem2, a2, fu)
  <2>1. mem2 = Store(SkippedTo(mem1, 0, e2.at), e2.at, e2.len, h2)
    BY <1>5 DEF SkippedTo
  <2> QED BY <2>1, <1>1, <1>3, <1>7, <1>8 DEF Laid
<1>10. /\ Chain(mem2, a2, f, fu, q2)
       /\ a2 \in Room /\ mem2 \in [Index -> Headers] /\ mem2[0] = h2
       /\ \A i \in 1..Len(q1) : mem2[q1[i].at] = mem1[q1[i].at]
  <2>1. /\ Chain(mem2, a2, f, fu, Append(q1, e2))
        /\ a2 \in Room /\ mem2 \in [Index -> Headers] /\ mem2[e2.at] = h2
        /\ \A i \in 1..Len(q1) : mem2[q1[i].at] = mem1[q1[i].at]
    BY <1>9, ChainPlace
  <2>2. q2 = Append(q1, e2)
    BY DEF Longer
  <2> QED BY <2>1, <2>2
<1>11. CopyFields(b0, mem2, 2, a2, fu, b)
  <2>1. PICK p, c : p = HEADER + n - k /\ c = 2
    OBVIOUS
  <2>2. b = CopyRecord(b0, mem2, c, p)
    BY <2>1, <1>1, <1>2, <1>4, <1>5 DEF prvCopyItemAllowSplit, CopyRecord
  <2>3. a2 = Wrap(p) /\ c \in Nat
    <3>1. e2.at + HEADER + e2.len = HEADER + n - k
      BY <1>1, Sizes
    <3> QED BY <3>1, <2>1, <1>8 DEF End
  <2>4. CopyMade(b0, mem2, c, p, a2, fu, b)
    BY <2>2, <2>3, <1>1, <1>8, <1>10 DEF CopyMade
  <2>5. CopyFields(b0, mem2, c, a2, fu, b)
    BY <2>4, CopyRecordFields
  <2> QED BY <2>1, <2>5
<1>12. /\ q1 \in Seq(Items) /\ Len(q1) = Len(q) + 1 /\ q1[Len(q) + 1] = e1 /\ Len(q) \in Nat
       /\ \A i \in 1..Len(q) : q1[i] = q[i]
  BY LongerFacts
<1>13. /\ q2 \in Seq(Items) /\ Len(q2) = Len(q1) + 1 /\ q2[Len(q1) + 1] = e2
       /\ \A i \in 1..Len(q1) : q2[i] = q1[i]
  BY LongerFacts
<1>14. /\ Len(q2) = Len(q) + 2 /\ q2[Len(q) + 2] = e2 /\ q2[Len(q) + 1] = e1
       /\ \A i \in 1..Len(q) : q2[i] = q[i]
       /\ \A i \in Len(q) + 1 .. Len(q2) : i = Len(q) + 1 \/ i = Len(q) + 2
  <2>1. Len(q) + 1 \in 1..Len(q1) /\ Len(q1) + 1 = Len(q) + 2 /\ \A i \in 1..Len(q) : i \in 1..Len(q1)
    BY <1>12
  <2> QED BY <2>1, <1>12, <1>13
<1>15. /\ mem2[e1.at] = h1 /\ mem2[e2.at] = h2
       /\ \A i \in 1..Len(q) : mem2[q[i].at] = mem[q[i].at]
  <2>1. Len(q) + 1 \in 1..Len(q1) /\ \A i \in 1..Len(q) : i \in 1..Len(q1)
    BY <1>12
  <2>2. mem2[e1.at] = mem1[e1.at]
    BY <2>1, <1>10, <1>12
  <2>3. \A i \in 1..Len(q) : mem2[q[i].at] = mem1[q[i].at]
    BY <2>1, <1>10, <1>12
  <2> QED BY <2>2, <2>3, <1>7, <1>10
<1>16. Grows(split, q, b0.mem, q2, b.mem)
  <2>1. b.mem = mem2
    BY <1>11 DEF CopyFields
  <2>2. Parts(e1, e2)
    BY <1>1, Sizes DEF Parts
  <2>3. ASSUME NEW i \in Len(q) + 1 .. Len(q2)
        PROVE  /\ ~mem2[q2[i].at].free
               /\ mem2[q2[i].at].split => split /\ i < Len(q2) /\ Parts(q2[i], q2[i + 1])
    <3>1. CASE i = Len(q) + 1
      <4>1. i + 1 = Len(q) + 2 /\ i < Len(q2)
        BY <3>1, <1>12, <1>14
      <4>2. q2[i] = e1 /\ q2[i + 1] = e2
        BY <3>1, <4>1, <1>14
      <4> QED BY <4>1, <4>2, <2>2, <1>3, <1>15
    <3>2. CASE i = Len(q) + 2
      BY <3>2, <1>3, <1>14, <1>15
    <3> QED BY <3>1, <3>2, <1>14
  <2>4. Len(q) <= Len(q2)
    BY <1>12, <1>14
  <2> QED BY <2>1, <2>3, <2>4, <1>2, <1>13, <1>14, <1>15 DEF Grows
<1>17. /\ b.xItemsWaiting = b0.xItemsWaiting + (Len(q2) - Len(q)) /\ Len(q2) > Len(q)
       /\ \A i \in Len(q) + 1 .. Len(q2) : q2[i].sent
  <2>1. b.xItemsWaiting = b0.xItemsWaiting + 2
    BY <1>11 DEF CopyFields
  <2>2. Len(q2) - Len(q) = 2 /\ Len(q2) > Len(q)
    BY <1>12, <1>14
  <2> QED BY <2>1, <2>2, <1>14
<1>18. Chain(b.mem, b.pucAcquire, b.pucFree, b.full, q2)
  BY <1>1, <1>10, <1>11 DEF CopyFields
<1> QED BY <1>11, <1>16, <1>17, <1>18 DEF Copied, CopyFields

-----------------------------------------------------------------------------
(* The critical sections keep the shape. *)

\* A copy of an item keeps the shape.
LEMMA CopiedShape ==
  ASSUME NEW b0, NEW hold, NEW ord, NEW q, NEW m, Shape(split, b0, hold, ord, q, m), ~Open(q),
         NEW b, NEW q2, Copied(split, b0, q, b, q2), NEW ord2, OrderIs(ord2, q2, m)
  PROVE  Shape(split, b, hold, ord2, q2, m) /\ ~Open(q2)
<1>1. /\ m \in 0..2 /\ m <= Len(q) /\ q \in Seq(Items) /\ Len(q) \in Nat
      /\ Chain(b0.mem, b0.pucAcquire, b0.pucFree, b0.full, q)
      /\ Pointers(b0, q, m) /\ Sent(split, q, m) /\ Flags(split, b0.mem, q, m)
      /\ HeldIs(hold, b0.mem, q, m)
  BY DEF Shape, Chain
<1>2. /\ q2 \in Seq(Items) /\ Len(q2) \in Nat /\ Len(q2) > Len(q)
      /\ Grows(split, q, b0.mem, q2, b.mem)
      /\ Chain(b.mem, b.pucAcquire, b.pucFree, b.full, q2)
      /\ b.pucFree = b0.pucFree /\ b.pucRead = b0.pucRead /\ b.pucWrite = b.pucAcquire
      /\ b.xItemsWaiting = b0.xItemsWaiting + (Len(q2) - Len(q))
      /\ \A i \in Len(q) + 1 .. Len(q2) : q2[i].sent
      /\ \A i \in 1..Len(q) : q2[i] = q[i]
  BY DEF Copied, Grows
<1>3. /\ Flags(split, b.mem, q2, m)
      /\ HeldIs(hold, b.mem, q2, m)
      /\ Ptr(b0.pucFree, q2, m + 1) = Ptr(b0.pucFree, q, m + 1)
  BY <1>1, <1>2, Grown
<1>4. ~Open(q2)
  BY <1>1, <1>2 DEF Open
<1>5. Sent(split, q2, m)
  <2>1. ASSUME NEW i \in 1..Len(q2), i < Len(q2) \/ i <= m
        PROVE  q2[i].sent
    <3>1. CASE i \in Len(q) + 1 .. Len(q2)
      BY <3>1, <1>2
    <3>2. CASE i \in 1..Len(q)
      <4>1. q[i].sent
        BY <3>2, <1>1 DEF Sent, Open
      <4> QED BY <3>2, <4>1, <1>2
    <3> QED BY <3>1, <3>2, <1>1, <1>2
  <2> QED BY <2>1, <1>4 DEF Sent
<1>6. Pointers(b, q2, m)
  <2>1. b.pucRead = Ptr(b.pucFree, q2, m + 1)
    BY <1>1, <1>2, <1>3 DEF Pointers
  <2>2. b.pucWrite = Ptr(b.pucFree, q2, Len(q2) + 1)
    BY <1>2 DEF Chain
  <2>3. b0.xItemsWaiting = Len(q) - m - 0
    BY <1>1 DEF Pointers
  <2>4. b.xItemsWaiting = Len(q2) - m - 0
    BY <2>3, <1>1, <1>2
  <2> QED BY <2>1, <2>2, <2>4, <1>4 DEF Pointers
<1>7. m <= Len(q2)
  BY <1>1, <1>2
<1> QED BY <1>1, <1>2, <1>3, <1>4, <1>5, <1>6, <1>7 DEF Shape

\* The history of one item more.
LEMMA OrderLonger ==
  ASSUME NEW q, NEW m \in 0..2, m <= Len(q), NEW ord, OrderIs(ord, q, m),
         NEW e, NEW q2, Longer(q, e, q2)
  PROVE  /\ OrderIs(Append(ord, e), q2, m)
         /\ ord \o <<e>> = Append(ord, e)
         /\ ord \in Seq(Items)
<1>1. q \in Seq(Items) /\ e \in Items /\ q2 = Append(q, e)
  BY DEF Longer
<1> QED BY <1>1, OrderOne

\* What a send of an item of n words leaves: buffer b and history ord.
SendResult(n, b, ord) ==
  LET k == FirstPart(rb, n)
      parts == IF ~split THEN <<Entry(ItemAddress(rb, n), n, TRUE)>>
               ELSE IF k = n THEN <<Entry(rb.pucAcquire, n, TRUE)>>
               ELSE IF k = 0 THEN <<Entry(0, n, TRUE)>>
               ELSE <<Entry(rb.pucAcquire, k, TRUE), Entry(0, n - k, TRUE)>>
  IN  /\ b = IF split THEN prvCopyItemAllowSplit(rb, n) ELSE prvCopyItemNoSplit(rb, n)
      /\ ord = order \o parts

\* The critical section of xRingbufferSend keeps the shape.
LEMMA SendShape ==
  ASSUME Types, NEW q, NEW m, Shape(split, rb, held, order, q, m), ~Open(q),
         NEW n \in Nat, n <= xMaxItemSize, split => n + 2 * HEADER < xSize,
         prvCheckItemFitsDefault(n), NEW b, NEW ord, SendResult(n, b, ord)
  PROVE  \E q2 \in Seq(Items) :
           /\ Shape(split, b, held, ord, q2, m) /\ ~Open(q2) /\ b \in Buffers
           /\ Len(q2) > Len(q)
<1>1. /\ rb \in Buffers /\ m \in 0..2 /\ m <= Len(q) /\ q \in Seq(Items) /\ OrderIs(order, q, m)
      /\ Chain(rb.mem, rb.pucAcquire, rb.pucFree, rb.full, q)
      /\ rb.full => rb.pucAcquire = rb.pucFree
      /\ rb.pucWrite = Ptr(rb.pucFree, q, Len(q) + 1)
      /\ split \in BOOLEAN
  BY RingbufItemsAssumption DEF Types, Shape, Chain, Pointers
<1>2. \E q2 : Copied(split, rb, q, b, q2) /\ OrderIs(ord, q2, m)
  <2>1. CASE ~split
    <3>1. PICK at : at = ItemAddress(rb, n)
      OBVIOUS
    <3>2. HasPlace(rb, q, n, at)
      BY <2>1, <3>1, <1>1, FitsNoSplit DEF HasPlace
    <3>3. PICK e : e = Entry(at, n, TRUE)
      OBVIOUS
    <3>4. e \in Items /\ e.at = at /\ e.len = n /\ e.sent
      BY <3>2, <3>3 DEF HasPlace, Entry, Items
    <3>5. PICK q2 : Longer(q, e, q2)
      BY <3>4, <1>1 DEF Longer
    <3>6. b = prvCopyItemNoSplit(rb, n) /\ ord = order \o <<e>>
      BY <2>1, <3>1, <3>3 DEF SendResult
    <3>7. Copied(split, rb, q, b, q2)
      BY <3>2, <3>4, <3>5, <3>6, <1>1, CopyNoSplit
    <3>8. OrderIs(Append(order, e), q2, m) /\ order \o <<e>> = Append(order, e)
      BY <3>5, <1>1, OrderLonger
    <3> QED BY <3>6, <3>7, <3>8
  <2>2. CASE split
    <3>1. PICK a, f, k : a = rb.pucAcquire /\ f = rb.pucFree /\ k = FirstPart(rb, n)
      OBVIOUS
    <3>2. HasSplitPlace(rb, q, n, k, a, f)
      <4>1. /\ ~rb.full /\ k \in Nat
            /\ k = n => Slot(a, f, a, n)
            /\ k # n => /\ a + HEADER + k = xSize /\ 0 < f /\ n - k \in Nat
                        /\ k > 0 => Slot(a, f, a, k) /\ Slot(0, f, 0, n - k)
                        /\ k = 0 => Slot(a, f, 0, n)
        BY <2>2, <3>1, <1>1, FitsSplit
      <4>2. rb.full = FALSE
        BY <4>1, <1>1 DEF Buffers
      <4>3. Chain(rb.mem, a, f, FALSE, q)
        BY <4>2, <3>1, <1>1
      <4> QED BY <4>1, <4>2, <4>3, <2>2, <3>1, <1>1 DEF HasSplitPlace
    <3>3. k \in Nat /\ n - k \in Int /\ a \in Nat /\ (k # n => n - k \in Nat)
      BY <3>1, <3>2, <1>1 DEF HasSplitPlace, Buffers, Room
    <3>4. b = prvCopyItemAllowSplit(rb, n)
      BY <2>2 DEF SendResult
    <3>5. CASE k = n \/ k = 0
      <4>1. PICK e : e = Entry(IF k = n THEN a ELSE 0, n, TRUE)
        OBVIOUS
      <4>2. e \in Items /\ e.at = (IF k = n THEN a ELSE 0) /\ e.len = n /\ e.sent
        BY <4>1, <3>3 DEF Entry, Items
      <4>3. PICK q2 : Longer(q, e, q2)
        BY <4>2, <1>1 DEF Longer
      <4>4. ord = order \o <<e>>
        BY <2>2, <3>1, <3>5, <4>1 DEF SendResult
      <4>5. Copied(split, rb, q, b, q2)
        BY <3>2, <3>4, <3>5, <4>2, <4>3, CopyWhole
      <4>6. OrderIs(Append(order, e), q2, m) /\ order \o <<e>> = Append(order, e)
        BY <4>3, <1>1, OrderLonger
      <4> QED BY <4>4, <4>5, <4>6
    <3>6. CASE k # n /\ k # 0
      <4>1. PICK e1, e2 : e1 = Entry(a, k, TRUE) /\ e2 = Entry(0, n - k, TRUE)
        OBVIOUS
      <4>2. /\ e1 \in Items /\ e1.at = a /\ e1.len = k /\ e1.sent
            /\ e2 \in Items /\ e2.at = 0 /\ e2.len = n - k /\ e2.sent
        BY <4>1, <3>3, <3>6 DEF Entry, Items
      <4>3. PICK q1 : Longer(q, e1, q1)
        BY <4>2, <1>1 DEF Longer
      <4>4. q1 \in Seq(Items) /\ Len(q1) = Len(q) + 1 /\ Len(q) \in Nat
        BY <4>3, LongerFacts
      <4>5. PICK q2 : Longer(q1, e2, q2)
        BY <4>2, <4>4 DEF Longer
      <4>6. ord = order \o <<e1, e2>>
        BY <2>2, <3>1, <3>6, <4>1 DEF SendResult
      <4>7. k > 0
        BY <3>3, <3>6
      <4>8. Copied(split, rb, q, b, q2)
        BY <2>2, <3>2, <3>4, <3>6, <4>2, <4>3, <4>5, <4>7, CopyParts
      <4>9. PICK o1 : o1 = Append(order, e1)
        OBVIOUS
      <4>10. OrderIs(o1, q1, m) /\ order \in Seq(Items)
        BY <4>3, <4>9, <1>1, OrderLonger
      <4>11. m <= Len(q1)
        BY <4>4, <1>1
      <4>12. OrderIs(Append(o1, e2), q2, m)
        BY <4>5, <4>10, <4>11, <1>1, OrderLonger
      <4>13. order \o <<e1, e2>> = Append(Append(order, e1), e2)
        BY <4>2, <4>10
      <4> QED BY <4>6, <4>8, <4>9, <4>12, <4>13
    <3> QED BY <3>5, <3>6
  <2> QED BY <2>1, <2>2
<1>3. PICK q2 : Copied(split, rb, q, b, q2) /\ OrderIs(ord, q2, m)
  BY <1>2
<1>4. Shape(split, b, held, ord, q2, m) /\ ~Open(q2)
  BY <1>3, CopiedShape
<1>5. q2 \in Seq(Items) /\ b \in Buffers /\ Len(q2) > Len(q)
  BY <1>3 DEF Copied, Grows
<1> QED BY <1>4, <1>5

\* What AcquireFits does to the buffer and the history.
AcquireResult(n, b, at, ord) ==
  /\ at = ItemAddress(rb, n)
  /\ b = prvAcquireItemNoSplit(rb, n)
  /\ ord = Append(order, Entry(at, n, FALSE))

\* The critical section of xRingbufferSendAcquire keeps the shape.
LEMMA AcquireShape ==
  ASSUME Types, NEW q, NEW m, Shape(split, rb, held, order, q, m), ~Open(q), ~split,
         NEW n \in Nat, n <= xMaxItemSize, prvCheckItemFitsDefault(n),
         NEW b, NEW at, NEW ord, AcquireResult(n, b, at, ord)
  PROVE  /\ b \in Buffers /\ at \in Index
         /\ \E q2 \in Seq(Items) :
              /\ Shape(split, b, held, ord, q2, m)
              /\ Open(q2) /\ q2[Len(q2)].at = at /\ Len(q2) > Len(q)
<1>0. /\ b = prvAcquireItemNoSplit(rb, n) /\ at = ItemAddress(rb, n)
      /\ ord = Append(order, Entry(at, n, FALSE))
  BY DEF AcquireResult
<1>1. /\ rb \in Buffers /\ m \in 0..2 /\ m <= Len(q) /\ q \in Seq(Items) /\ OrderIs(order, q, m)
      /\ Chain(rb.mem, rb.pucAcquire, rb.pucFree, rb.full, q)
      /\ rb.full => rb.pucAcquire = rb.pucFree
      /\ Pointers(rb, q, m) /\ Sent(split, q, m) /\ Flags(split, rb.mem, q, m)
      /\ HeldIs(held, rb.mem, q, m)
  BY DEF Types, Shape, Chain
<1>2. HasPlace(rb, q, n, at)
  BY <1>0, <1>1, FitsNoSplit DEF HasPlace
<1>3. PICK e : e = Entry(at, n, FALSE)
  OBVIOUS
<1>4. e \in Items /\ e.at = at /\ e.len = n /\ ~e.sent
  BY <1>2, <1>3 DEF HasPlace, Entry, Items
<1>5. PICK q2 : Longer(q, e, q2)
  BY <1>4, <1>1 DEF Longer
<1>6. Acquired(rb, q, n, at, b, q2)
  BY <1>0, <1>2, <1>4, <1>5, AcquireChain
<1>7. /\ q2 \in Seq(Items) /\ Len(q2) = Len(q) + 1 /\ q2[Len(q) + 1] = e /\ Len(q) \in Nat
      /\ \A i \in 1..Len(q) : q2[i] = q[i]
      /\ \A i \in Len(q) + 1 .. Len(q2) : i = Len(q) + 1
  BY <1>5, LongerFacts
<1>8. Grows(split, q, rb.mem, q2, b.mem)
  <2>1. ASSUME NEW i \in Len(q) + 1 .. Len(q2)
        PROVE  ~b.mem[q2[i].at].free /\ ~b.mem[q2[i].at].split
    <3>1. q2[i].at = at
      BY <1>4, <1>7
    <3>2. b.mem[at] = Header("item", n, FALSE)
      BY <1>6 DEF Acquired
    <3>3. ~b.mem[at].free /\ b.mem[at].split = FALSE
      BY <3>2, HeaderTypes
    <3> QED BY <3>1, <3>3
  <2>2. \A i \in 1..Len(q) : b.mem[q[i].at] = rb.mem[q[i].at]
    BY <1>6 DEF Acquired
  <2>3. Len(q) <= Len(q2)
    BY <1>7
  <2> QED BY <2>1, <2>2, <2>3, <1>7 DEF Grows
<1>9. /\ Flags(split, b.mem, q2, m)
      /\ HeldIs(held, b.mem, q2, m)
      /\ Ptr(rb.pucFree, q2, m + 1) = Ptr(rb.pucFree, q, m + 1)
  BY <1>1, <1>8, Grown
<1>10. Open(q2) /\ q2[Len(q2)].at = at /\ Len(q2) > Len(q)
  BY <1>4, <1>7 DEF Open
<1>11. Sent(split, q2, m)
  <2>1. ASSUME NEW i \in 1..Len(q2), i < Len(q2) \/ i <= m
        PROVE  q2[i].sent
    <3>1. i \in 1..Len(q)
      BY <2>1, <1>1, <1>7
    <3>2. q[i].sent
      BY <3>1, <1>1, <1>7 DEF Sent, Open
    <3> QED BY <3>1, <3>2, <1>7
  <2> QED BY <2>1 DEF Sent
<1>12. Pointers(b, q2, m)
  <2>1. /\ b.pucFree = rb.pucFree /\ b.pucRead = rb.pucRead /\ b.pucWrite = rb.pucWrite
        /\ b.xItemsWaiting = rb.xItemsWaiting
    BY <1>6 DEF Acquired
  <2>2. b.pucRead = Ptr(b.pucFree, q2, m + 1)
    BY <2>1, <1>1, <1>9 DEF Pointers
  <2>3. Ptr(rb.pucFree, q2, Len(q2)) = Ptr(rb.pucFree, q, Len(q) + 1)
    <3>1. CASE Len(q) = 0
      BY <3>1, <1>7 DEF Ptr
    <3>2. CASE Len(q) # 0
      <4>1. Len(q) \in 1..Len(q) /\ Len(q2) - 1 = Len(q) /\ (Len(q) + 1) - 1 = Len(q)
            /\ Len(q2) # 1 /\ Len(q) + 1 # 1
        BY <3>2, <1>7
      <4> QED BY <4>1, <1>7 DEF Ptr
    <3> QED BY <3>1, <3>2
  <2>4. b.pucWrite = Ptr(b.pucFree, q2, Len(q2))
    BY <2>1, <2>3, <1>1 DEF Pointers
  <2>5. b.xItemsWaiting = Len(q2) - m - 1
    <3>1. rb.xItemsWaiting = Len(q) - m - 0
      BY <1>1 DEF Pointers
    <3>2. Len(q) \in Nat /\ Len(q2) = Len(q) + 1 /\ m \in 0..2
      BY <1>1, <1>7
    <3> QED BY <3>1, <3>2, <2>1
  <2> QED BY <2>2, <2>4, <2>5, <1>10 DEF Pointers
<1>13. OrderIs(Append(order, e), q2, m)
  BY <1>1, <1>5, OrderLonger
<1>14. m <= Len(q2) /\ Chain(b.mem, b.pucAcquire, b.pucFree, b.full, q2) /\ b \in Buffers
  BY <1>1, <1>6, <1>7 DEF Acquired
<1>15. Shape(split, b, held, ord, q2, m)
  BY <1>0, <1>3, <1>1, <1>9, <1>11, <1>12, <1>13, <1>14 DEF Shape
<1>16. at \in Index
  <2>1. Len(q2) \in 1..Len(q2)
    BY <1>7
  <2>2. q2[Len(q2)].at \in Room
    BY <2>1, <1>14, ChainPointers
  <2> QED BY <2>2, <1>10, Sizes DEF Room, Index
<1> QED BY <1>3, <1>7, <1>10, <1>14, <1>15, <1>16

\* Chain q2 is q, the last item of it marked as sent.
Completed(q, q2) ==
  /\ q2 \in Seq(Items) /\ Len(q2) = Len(q)
  /\ \A i \in 1..Len(q) : q2[i].at = q[i].at /\ q2[i].len = q[i].len
  /\ \A i \in 1..Len(q) : i < Len(q) => q2[i] = q[i]
  /\ q2[Len(q)].sent

\* Marking the last item as sent keeps the chain and its pointers.
LEMMA ChainCompleted ==
  ASSUME NEW mem, NEW a, NEW f, NEW full, NEW q, Chain(mem, a, f, full, q), Len(q) > 0,
         NEW q2, Completed(q, q2)
  PROVE  /\ Chain(mem, a, f, full, q2)
         /\ \A i \in 1 .. Len(q) + 1 : Ptr(f, q2, i) = Ptr(f, q, i)
<1>1. /\ q2 \in Seq(Items) /\ Len(q2) = Len(q) /\ Len(q) \in Nat
      /\ \A i \in 1..Len(q) : q2[i].at = q[i].at /\ q2[i].len = q[i].len
  BY DEF Completed, Chain
<1>2. \A i \in 1..Len(q) : End(q2[i]) = End(q[i])
  BY <1>1 DEF End
<1>3. \A i \in 1 .. Len(q) + 1 : Ptr(f, q2, i) = Ptr(f, q, i)
  BY <1>1, <1>2 DEF Ptr
<1>4. \A i \in 1..Len(q) : Placed(mem, f, Used(a, f, full), q2[i])
  BY <1>1 DEF Chain, Placed
<1>5. \A i, j \in 1..Len(q) : i < j => Before(f, q2[i], q2[j])
  BY <1>1 DEF Chain, Before
<1>6. \A i \in 1..Len(q) : Linked(mem, f, Ptr(f, q2, i), q2[i].at)
  <2> SUFFICES ASSUME NEW i \in 1..Len(q)
               PROVE  Linked(mem, f, Ptr(f, q2, i), q2[i].at)
      OBVIOUS
  <2>1. Ptr(f, q2, i) = Ptr(f, q, i)
    BY <1>1, <1>3
  <2> QED BY <2>1, <1>1 DEF Chain
<1>7. a = Ptr(f, q2, Len(q2) + 1)
  BY <1>1, <1>3 DEF Chain
<1>8. q2 # << >>
  BY <1>1
<1> QED BY <1>1, <1>3, <1>4, <1>5, <1>6, <1>7, <1>8 DEF Chain

\* xRingbufferSendComplete keeps the shape.
LEMMA CompleteShape ==
  ASSUME Types, NEW q, NEW m, Shape(split, rb, held, order, q, m), Open(q),
         NEW at, at = q[Len(q)].at, NEW b, b = prvSendItemDoneNoSplit(rb, at),
         NEW ord, ord = [i \in DOMAIN order |-> IF order[i].at = at /\ ~order[i].sent
                                                THEN [order[i] EXCEPT !.sent = TRUE] ELSE order[i]]
  PROVE  /\ b \in Buffers
         /\ \E q2 \in Seq(Items) : Shape(split, b, held, ord, q2, m) /\ ~Open(q2) /\ Len(q2) = Len(q) /\ m < Len(q)
<1> DEFINE n == Len(q)
<1>1. /\ rb \in Buffers /\ m \in 0..2 /\ m <= n /\ q \in Seq(Items) /\ OrderIs(order, q, m)
      /\ Chain(rb.mem, rb.pucAcquire, rb.pucFree, rb.full, q)
      /\ Pointers(rb, q, m) /\ Sent(split, q, m) /\ Flags(split, rb.mem, q, m)
      /\ HeldIs(held, rb.mem, q, m) /\ n \in Nat /\ n > 0 /\ ~q[n].sent
  BY DEF Types, Shape, Chain, Open
<1>2. m < n /\ n \in 1..n /\ q[n] \in Items
  BY <1>1 DEF Sent
<1>3. LastOpen(rb, q, n, at)
  BY <1>1 DEF LastOpen, Pointers
<1>4. /\ b \in Buffers
      /\ Chain(b.mem, b.pucAcquire, b.pucFree, b.full, q)
      /\ b.pucFree = rb.pucFree /\ b.pucRead = rb.pucRead /\ b.pucWrite = rb.pucAcquire
      /\ b.pucAcquire = rb.pucAcquire
      /\ b.full = rb.full /\ b.xItemsWaiting = rb.xItemsWaiting + 1
      /\ b.mem[at].free = rb.mem[at].free /\ b.mem[at].split = rb.mem[at].split
      /\ \A i \in Index : i # at => b.mem[i] = rb.mem[i]
  BY <1>3, DoneChain
<1>5. PICK q2 : q2 = [q EXCEPT ![n] = [q[n] EXCEPT !.sent = TRUE]]
  OBVIOUS
<1>6. Completed(q, q2)
  <2>1. PICK e : e = [q[n] EXCEPT !.sent = TRUE]
    OBVIOUS
  <2>2. e \in Items /\ e.at = q[n].at /\ e.len = q[n].len /\ e.sent
    BY <2>1, <1>2 DEF Items
  <2>3. q2 = [q EXCEPT ![n] = e]
    BY <2>1, <1>5
  <2>4. q2 \in Seq(Items) /\ Len(q2) = n /\ q2[n] = e /\ \A i \in 1..n : i # n => q2[i] = q[i]
    BY <2>2, <2>3, <1>1, <1>2
  <2> QED BY <2>2, <2>4, <1>1 DEF Completed
<1>7. /\ q2 \in Seq(Items) /\ Len(q2) = n /\ q2[n].sent
      /\ \A i \in 1..n : q2[i].at = q[i].at /\ q2[i].len = q[i].len
      /\ \A i \in 1..n : i < n => q2[i] = q[i]
  BY <1>6 DEF Completed
<1>8. /\ Chain(b.mem, b.pucAcquire, b.pucFree, b.full, q2)
      /\ \A i \in 1 .. n + 1 : Ptr(b.pucFree, q2, i) = Ptr(b.pucFree, q, i)
  BY <1>1, <1>4, <1>6, ChainCompleted
<1>9. \A i \in 1..n : b.mem[q[i].at].free = rb.mem[q[i].at].free /\ b.mem[q[i].at].split = rb.mem[q[i].at].split
  <2> SUFFICES ASSUME NEW i \in 1..n
               PROVE  b.mem[q[i].at].free = rb.mem[q[i].at].free /\ b.mem[q[i].at].split = rb.mem[q[i].at].split
      OBVIOUS
  <2>1. q[i].at \in Room
    BY <1>1, ChainPointers
  <2>2. q[i].at \in Index
    BY <2>1, Sizes DEF Room, Index
  <2> QED BY <2>2, <1>4
<1>10. ~Open(q2)
  BY <1>7 DEF Open
<1>11. Sent(split, q2, m)
  <2>1. ASSUME NEW i \in 1..Len(q2)
        PROVE  q2[i].sent
    <3>1. CASE i = n
      BY <3>1, <1>7
    <3>2. CASE i < n
      BY <2>1, <3>2, <1>1, <1>7 DEF Sent
    <3> QED BY <3>1, <3>2, <1>1, <1>7
  <2> QED BY <2>1, <1>10 DEF Sent
<1>12. Pointers(b, q2, m)
  <2>1. b.pucRead = Ptr(b.pucFree, q2, m + 1)
    <3>1. m + 1 \in 1 .. n + 1
      BY <1>1, <1>2
    <3> QED BY <3>1, <1>1, <1>4, <1>8 DEF Pointers
  <2>2. b.pucWrite = Ptr(b.pucFree, q2, Len(q2) + 1)
    BY <1>4, <1>8 DEF Chain
  <2>3. b.xItemsWaiting = Len(q2) - m - 0
    <3>1. rb.xItemsWaiting = n - m - 1
      BY <1>1 DEF Pointers
    <3>2. n \in Nat /\ m \in 0..2 /\ Len(q2) = n
      BY <1>1, <1>7
    <3> QED BY <3>1, <3>2, <1>4
  <2> QED BY <2>1, <2>2, <2>3, <1>10 DEF Pointers
<1>13. Flags(split, b.mem, q2, m)
  <2>1. \A i \in 1..Len(q2) : b.mem[q2[i].at].free => i = 2 /\ m = 2
    BY <1>1, <1>7, <1>9 DEF Flags
  <2>2. m = 2 => Parts(q2[1], q2[2])
    <3> SUFFICES ASSUME m = 2 PROVE Parts(q2[1], q2[2])
      OBVIOUS
    <3>1. 1 \in 1..n /\ 2 \in 1..n
      BY <1>1, <1>2
    <3>2. Parts(q[1], q[2])
      BY <1>1 DEF Flags
    <3> QED BY <3>1, <3>2, <1>7 DEF Parts
  <2>3. ASSUME NEW i \in m + 1 .. Len(q2), b.mem[q2[i].at].split
        PROVE  split /\ i < Len(q2) /\ Parts(q2[i], q2[i + 1])
    <3>1. i \in m + 1 .. n /\ i \in 1..n
      BY <2>3, <1>1, <1>7
    <3>2. split
      BY <2>3, <3>1, <1>1, <1>7, <1>9 DEF Flags
    <3> QED BY <3>2, <1>1 DEF Sent
  <2> QED BY <2>1, <2>2, <2>3 DEF Flags
<1>14. HeldIs(held, b.mem, q2, m)
  <2>1. \A j \in 1..m : j \in 1..n /\ j < n
    BY <1>1, <1>2
  <2>2. \A j \in 1..m : q2[j] = q[j] /\ b.mem[q2[j].at].free = rb.mem[q[j].at].free
    BY <2>1, <1>7, <1>9
  <2>3. {j \in 1..m : ~b.mem[q2[j].at].free} = {j \in 1..m : ~rb.mem[q[j].at].free}
    BY <2>2
  <2>4. PICK J : J = {j \in 1..m : ~rb.mem[q[j].at].free}
    OBVIOUS
  <2>5. \A j \in J : q2[j] = q[j]
    BY <2>2, <2>4
  <2>6. {[at |-> q2[i].at, len |-> q2[i].len] : i \in J} = {[at |-> q[i].at, len |-> q[i].len] : i \in J}
    BY <2>5
  <2>7. Lent(b.mem, q2, m) = Lent(rb.mem, q, m)
    BY <2>3, <2>4, <2>6 DEF Lent
  <2> QED BY <2>7, <1>1 DEF HeldIs
<1>15. OrderIs(ord, q2, m)
  <2>1. /\ DOMAIN order = 1 .. n - m
        /\ \A i \in 1 .. n - m : order[i] = q[m + i]
    BY <1>1 DEF OrderIs
  <2>2. ASSUME NEW i \in 1 .. n - m
        PROVE  ord[i] = q2[m + i]
    <3>1. m + i \in 1..n
      BY <1>1
    <3>2. ord[i] = IF q[m + i].at = at /\ ~q[m + i].sent
                   THEN [q[m + i] EXCEPT !.sent = TRUE] ELSE q[m + i]
      <4>1. PICK x : x = order[i]
        OBVIOUS
      <4>2. i \in DOMAIN order /\ x = q[m + i]
        BY <2>1, <4>1
      <4>3. ord[i] = IF x.at = at /\ ~x.sent THEN [x EXCEPT !.sent = TRUE] ELSE x
        BY <4>1, <4>2
      <4> QED BY <4>2, <4>3
    <3>3. CASE m + i = n
      <4>1. ord[i] = [q[n] EXCEPT !.sent = TRUE]
        BY <3>2, <3>3, <1>1
      <4>2. q2[n] = [q[n] EXCEPT !.sent = TRUE]
        <5>1. PICK e : e = [q[n] EXCEPT !.sent = TRUE]
          OBVIOUS
        <5>2. q2 = [q EXCEPT ![n] = e]
          BY <5>1, <1>5
        <5>3. DOMAIN q = 1..n
          BY <1>1
        <5>4. q2[n] = e
          BY <5>2, <5>3, <1>2
        <5> QED BY <5>1, <5>4
      <4> QED BY <3>3, <4>1, <4>2
    <3>4. CASE m + i # n
      <4>1. m + i < n
        BY <3>1, <3>4, <1>1
      <4>2. q[m + i].sent
        BY <3>1, <4>1, <1>1 DEF Sent
      <4>3. q2[m + i] = q[m + i]
        BY <3>1, <4>1, <1>7
      <4> QED BY <3>2, <4>2, <4>3
    <3> QED BY <3>3, <3>4
  <2>3. ord = [i \in 1 .. n - m |-> ord[i]]
    BY <2>1
  <2>4. Len(q2) - m = n - m
    BY <1>7
  <2> QED BY <2>2, <2>3, <2>4 DEF OrderIs
<1>16. Shape(split, b, held, ord, q2, m)
  BY <1>1, <1>7, <1>8, <1>11, <1>12, <1>13, <1>14, <1>15 DEF Shape
<1> QED BY <1>2, <1>4, <1>7, <1>10, <1>16

-----------------------------------------------------------------------------
(* Retrieving items. *)

\* The i-th item of chain q is the next to be read.
ReadsItem(b0, q, i) ==
  /\ b0 \in Buffers /\ Chain(b0.mem, b0.pucAcquire, b0.pucFree, b0.full, q)
  /\ i \in 1..Len(q) /\ b0.pucRead = Ptr(b0.pucFree, q, i) /\ b0.xItemsWaiting > 0

\* Buffer b is b0 with k more items retrieved, pucRead being p.
ReadBy(b0, k, p, b) ==
  /\ b \in Buffers /\ b.mem = b0.mem /\ b.pucAcquire = b0.pucAcquire /\ b.pucWrite = b0.pucWrite
  /\ b.pucFree = b0.pucFree /\ b.full = b0.full
  /\ b.pucRead = p /\ b.xItemsWaiting = b0.xItemsWaiting - k

\* prvGetItemDefault retrieves the item that the chain has there.
LEMMA ReadItem ==
  ASSUME NEW b0, NEW q, NEW i, ReadsItem(b0, q, i), NEW b, b = prvGetItemDefault(b0)
  PROVE  /\ ReadAddress(b0) = q[i].at /\ b0.mem[q[i].at].len = q[i].len
         /\ ReadBy(b0, 1, Ptr(b0.pucFree, q, i + 1), b)
<1>1. /\ b0 \in Buffers /\ Chain(b0.mem, b0.pucAcquire, b0.pucFree, b0.full, q)
      /\ i \in 1..Len(q) /\ b0.pucRead = Ptr(b0.pucFree, q, i) /\ b0.xItemsWaiting > 0
  BY DEF ReadsItem
<1>2. PICK at, p : at = q[i].at /\ p = b0.pucRead
  OBVIOUS
<1>3. b0.mem[at].kind = "item" /\ b0.mem[at].len = q[i].len
  BY <1>1, <1>2 DEF Chain, Placed
<1>4. p = at \/ (at = 0 /\ b0.mem[p].kind = "dummy")
  BY <1>1, <1>2, ChainPointers
<1>5. ReadAddress(b0) = at
  BY <1>2, <1>3, <1>4 DEF ReadAddress
<1>6. PICK e : e = Wrap(at + HEADER + q[i].len)
  OBVIOUS
<1>7. e = Ptr(b0.pucFree, q, i + 1) /\ i + 1 \in 1 .. Len(q) + 1
  <2>1. Len(q) \in Nat
    BY <1>1 DEF Chain
  <2>2. i + 1 # 1 /\ (i + 1) - 1 = i /\ i + 1 \in 1 .. Len(q) + 1
    BY <1>1, <2>1
  <2> QED BY <2>2, <1>2, <1>6 DEF Ptr, End
<1>8. e \in Room
  BY <1>1, <1>7, ChainPointers
<1>9. b = [b0 EXCEPT !.xItemsWaiting = @ - 1, !.pucRead = e]
  BY <1>3, <1>5, <1>6 DEF prvGetItemDefault
<1>10. b0.xItemsWaiting - 1 \in Nat
  BY <1>1 DEF Buffers
<1>11. ReadBy(b0, 1, e, b)
  BY <1>1, <1>8, <1>9, <1>10 DEF ReadBy, Buffers
<1> QED BY <1>2, <1>3, <1>5, <1>7, <1>11

\* The history without its first item.
LEMMA WithoutFirst ==
  ASSUME NEW items \in Seq(Items), Len(items) > 0, NEW at, at = items[1].at,
         \A j \in 1..Len(items) : items[j].at = at => j = 1
  PROVE  Without(items, at) = [i \in 1 .. Len(items) - 1 |-> items[i + 1]]
<1> DEFINE n == Len(items)
<1>1. n \in Nat /\ DOMAIN items = 1..n /\ 1 \in 1..n
  OBVIOUS
<1>2. \E i \in DOMAIN items : items[i].at = at
  BY <1>1
<1>3. PICK k : k = CHOOSE i \in DOMAIN items : items[i].at = at
  OBVIOUS
<1>4. k = 1
  BY <1>1, <1>2, <1>3
<1>5. Without(items, at) = SubSeq(items, 1, 1 - 1) \o SubSeq(items, 1 + 1, Len(items))
  BY <1>2, <1>3, <1>4 DEF Without
<1>6. SubSeq(items, 1, 1 - 1) = << >>
  OBVIOUS
<1>7. PICK t : t = SubSeq(items, 2, Len(items))
  OBVIOUS
<1>8. t = [i \in 1 .. n - 1 |-> items[i + 1]] /\ t \in Seq(Items)
  <2>1. t \in Seq(Items) /\ Len(t) = n - 1 /\ \A i \in 1 .. n - 1 : t[i] = items[i + 1]
    BY <1>1, <1>7
  <2>2. t = [i \in 1..Len(t) |-> t[i]]
    BY <2>1
  <2> QED BY <2>1, <2>2
<1>9. << >> \o t = t
  BY <1>8
<1> QED BY <1>5, <1>6, <1>7, <1>8, <1>9

\* Retrieving the next item takes it out of the history.
LEMMA OrderNext ==
  ASSUME NEW mem, NEW a, NEW f, NEW full, NEW q, Chain(mem, a, f, full, q),
         NEW m \in Nat, NEW k, k = m + 1, k <= Len(q), NEW ord, OrderIs(ord, q, m)
  PROVE  OrderIs(Without(ord, q[k].at), q, k) /\ ord[1] = q[k] /\ Len(ord) = Len(q) - m
<1> DEFINE n == Len(q)
<1>1. q \in Seq(Items) /\ n \in Nat /\ k \in 1..n /\ n - m \in Nat /\ k \in Nat
  BY DEF Chain
<1>2. ord = [i \in 1 .. n - m |-> q[m + i]]
  BY DEF OrderIs
<1>3. \A i \in 1 .. n - m : m + i \in 1..n /\ q[m + i] \in Items
  BY <1>1
<1>4. ord \in Seq(Items) /\ Len(ord) = n - m /\ \A i \in 1 .. n - m : ord[i] = q[m + i]
  BY <1>1, <1>2, <1>3
<1>5. ord[1] = q[k]
  BY <1>1, <1>4
<1>6. \A j \in 1..Len(ord) : ord[j].at = q[k].at => j = 1
  <2> SUFFICES ASSUME NEW j \in 1..Len(ord), j # 1
               PROVE  ord[j].at # q[k].at
      OBVIOUS
  <2>1. PICK i : i = m + j
    OBVIOUS
  <2>2. i \in 1..n /\ i # k /\ ord[j] = q[i]
    BY <2>1, <1>1, <1>3, <1>4
  <2> QED BY <2>2, <1>1, ChainApart
<1>7. Without(ord, q[k].at) = [i \in 1 .. Len(ord) - 1 |-> ord[i + 1]]
  <2>1. PICK at : at = q[k].at
    OBVIOUS
  <2>2. Len(ord) > 0
    BY <1>1, <1>4
  <2> QED BY <2>1, <2>2, <1>4, <1>5, <1>6, WithoutFirst
<1>8. Len(ord) - 1 = n - k
  BY <1>1, <1>4
<1>9. \A i \in 1 .. n - k : ord[i + 1] = q[k + i]
  <2> SUFFICES ASSUME NEW i \in 1 .. n - k
               PROVE  ord[i + 1] = q[k + i]
      OBVIOUS
  <2>1. i + 1 \in 1 .. n - m /\ m + (i + 1) = k + i
    BY <1>1
  <2> QED BY <2>1, <1>4
<1>10. [i \in 1 .. n - k |-> ord[i + 1]] = [i \in 1 .. n - k |-> q[k + i]]
  BY <1>9
<1> QED BY <1>4, <1>5, <1>7, <1>8, <1>10 DEF OrderIs

\* The first m items of a chain of which none is returned.
LEMMA LentAll ==
  ASSUME NEW mem, NEW q, NEW m \in 1..2, \A j \in 1..m : ~mem[q[j].at].free
  PROVE  /\ m = 1 => Lent(mem, q, m) = {[at |-> q[1].at, len |-> q[1].len]}
         /\ m = 2 => Lent(mem, q, m) = {[at |-> q[1].at, len |-> q[1].len],
                                        [at |-> q[2].at, len |-> q[2].len]}
<1>1. {j \in 1..m : ~mem[q[j].at].free} = 1..m
  OBVIOUS
<1>2. Lent(mem, q, m) = {[at |-> q[i].at, len |-> q[i].len] : i \in 1..m}
  BY <1>1 DEF Lent
<1>3. CASE m = 1
  <2>1. 1..m = {1}
    BY <1>3
  <2> QED BY <1>2, <1>3, <2>1
<1>4. CASE m = 2
  <2>1. 1..m = {1, 2}
    BY <1>4
  <2> QED BY <1>2, <1>4, <2>1
<1> QED BY <1>3, <1>4

\* No item is held when none is retrieved.
LEMMA LentNone ==
  ASSUME NEW mem, NEW q
  PROVE  Lent(mem, q, 0) = {}
<1>1. {j \in 1..0 : ~mem[q[j].at].free} = {}
  OBVIOUS
<1> QED BY <1>1 DEF Lent

\* One item, or the two parts of a split one, are retrieved from chain q.
Retrieved(q, m) ==
  /\ m \in 1..2 /\ m <= Len(q) - (IF Open(q) THEN 1 ELSE 0)
  /\ m = 2 => Parts(q[1], q[2])

\* Moving pucRead past the retrieved items keeps the shape, given what is held
\* and the history afterwards.
LEMMA ReceivedShape ==
  ASSUME NEW sp, NEW b0, NEW hold0, NEW ord0, NEW q, Shape(sp, b0, hold0, ord0, q, 0),
         NEW m, Retrieved(q, m), NEW b, ReadBy(b0, m, Ptr(b0.pucFree, q, m + 1), b),
         NEW hold, HeldIs(hold, b.mem, q, m), NEW ord, OrderIs(ord, q, m)
  PROVE  Shape(sp, b, hold, ord, q, m)
<1>1. /\ Chain(b0.mem, b0.pucAcquire, b0.pucFree, b0.full, q)
      /\ Pointers(b0, q, 0) /\ Sent(sp, q, 0) /\ Flags(sp, b0.mem, q, 0)
  BY DEF Shape
<1>2. /\ b.mem = b0.mem /\ b.pucAcquire = b0.pucAcquire /\ b.pucWrite = b0.pucWrite
      /\ b.pucFree = b0.pucFree /\ b.full = b0.full
      /\ b.pucRead = Ptr(b0.pucFree, q, m + 1) /\ b.xItemsWaiting = b0.xItemsWaiting - m
  BY DEF ReadBy
<1>3. Len(q) \in Nat /\ m \in 1..2 /\ m <= Len(q) /\ (Open(q) => m < Len(q)) /\ (m = 2 => Parts(q[1], q[2]))
  BY <1>1 DEF Retrieved, Chain
<1>4. Chain(b.mem, b.pucAcquire, b.pucFree, b.full, q)
  BY <1>1, <1>2
<1>5. Pointers(b, q, m)
  <2>1. b0.xItemsWaiting = Len(q) - 0 - (IF Open(q) THEN 1 ELSE 0)
    BY <1>1 DEF Pointers
  <2>2. b.xItemsWaiting = Len(q) - m - (IF Open(q) THEN 1 ELSE 0)
    BY <2>1, <1>2, <1>3
  <2> QED BY <2>2, <1>1, <1>2 DEF Pointers
<1>6. Sent(sp, q, m)
  <2>1. ASSUME NEW i \in 1..Len(q), i < Len(q) \/ i <= m
        PROVE  q[i].sent
    <3>1. CASE i < Len(q)
      BY <3>1, <1>1 DEF Sent
    <3>2. CASE i = Len(q)
      BY <2>1, <3>2, <1>3 DEF Open
    <3> QED BY <3>1, <3>2, <1>3
  <2> QED BY <2>1, <1>1 DEF Sent
<1>7. Flags(sp, b.mem, q, m)
  <2>1. \A i \in 1..Len(q) : ~b.mem[q[i].at].free
    BY <1>1, <1>2 DEF Flags
  <2>2. \A i \in m + 1 .. Len(q) : i \in 0 + 1 .. Len(q)
    BY <1>3
  <2>3. \A i \in m + 1 .. Len(q) :
          b.mem[q[i].at].split => sp /\ i < Len(q) /\ Parts(q[i], q[i + 1])
    BY <2>2, <1>1, <1>2 DEF Flags
  <2> QED BY <2>1, <2>3, <1>3 DEF Flags
<1>8. m \in 0..2
  BY <1>3
<1> QED BY <1>3, <1>4, <1>5, <1>6, <1>7, <1>8 DEF Shape

\* What ReceiveGets does to the buffer, the items held and the history.
ReceiveResult(r, both, b, hold, ord) ==
  LET at1 == ReadAddress(rb)
      b1  == prvGetItemDefault(rb)
      two == both /\ rb.mem[at1].split
      at2 == ReadAddress(b1)
      got == IF two THEN {at1, at2} ELSE {at1}
      b2  == IF two THEN prvGetItemDefault(b1) ELSE b1
  IN  /\ b = b2
      /\ hold = [held EXCEPT ![r] = @ \cup {[at |-> a, len |-> rb.mem[a].len] : a \in got}]
      /\ ord = IF two THEN Without(Without(order, at1), at2) ELSE Without(order, at1)

\* The critical section of prvReceiveGeneric keeps the shape.
LEMMA ReceiveShape ==
  ASSUME Types, OneReceiver, NEW q, Shape(split, rb, held, order, q, 0), prvCheckItemAvail(rb),
         NEW r \in Receivers, NEW both \in BOOLEAN,
         NEW b, NEW hold, NEW ord, ReceiveResult(r, both, b, hold, ord)
  PROVE  /\ b \in Buffers
         /\ \E m \in 1..2 : Shape(split, b, hold, ord, q, m)
<1> DEFINE n == Len(q)
<1>1. /\ rb \in Buffers /\ q \in Seq(Items) /\ n \in Nat /\ OrderIs(order, q, 0)
      /\ Chain(rb.mem, rb.pucAcquire, rb.pucFree, rb.full, q)
      /\ Pointers(rb, q, 0) /\ Sent(split, q, 0) /\ Flags(split, rb.mem, q, 0)
      /\ HeldIs(held, rb.mem, q, 0) /\ rb.xItemsWaiting > 0
      /\ held \in [Receivers -> SUBSET [at : Nat, len : Nat]]
  BY DEF Types, Shape, Chain, prvCheckItemAvail
<1>2. rb.pucRead = Ptr(rb.pucFree, q, 1) /\ rb.xItemsWaiting = n - 0 - (IF Open(q) THEN 1 ELSE 0)
  BY <1>1 DEF Pointers
<1>3. 1 \in 1..n /\ 1 <= n - (IF Open(q) THEN 1 ELSE 0)
  BY <1>1, <1>2
<1>4. ReadsItem(rb, q, 1)
  BY <1>1, <1>2, <1>3 DEF ReadsItem
<1>5. PICK b1 : b1 = prvGetItemDefault(rb)
  OBVIOUS
<1>6. /\ ReadAddress(rb) = q[1].at /\ rb.mem[q[1].at].len = q[1].len
      /\ ReadBy(rb, 1, Ptr(rb.pucFree, q, 2), b1)
  <2>1. PICK one : one = 1
    OBVIOUS
  <2>2. /\ ReadAddress(rb) = q[one].at /\ rb.mem[q[one].at].len = q[one].len
        /\ ReadBy(rb, 1, Ptr(rb.pucFree, q, one + 1), b1)
    BY <2>1, <1>4, <1>5, ReadItem
  <2>3. one + 1 = 2
    BY <2>1
  <2> QED BY <2>1, <2>2, <2>3
<1>7. held[r] = {} /\ \A t \in Receivers : t = r
  BY <1>1, LentNone DEF HeldIs, OneReceiver
<1>8. \A i \in 1..n : ~rb.mem[q[i].at].free
  BY <1>1 DEF Flags
<1>9. OrderIs(Without(order, q[1].at), q, 1)
  <2>1. PICK z \in Nat, one \in Nat : z = 0 /\ one = 1
    OBVIOUS
  <2>2. one = z + 1 /\ one <= Len(q) /\ OrderIs(order, q, z)
    BY <2>1, <1>1, <1>3
  <2>3. OrderIs(Without(order, q[one].at), q, one)
    BY <2>2, <1>1, OrderNext
  <2> QED BY <2>1, <2>3
<1>10. CASE ~(both /\ rb.mem[q[1].at].split)
  <2>1. /\ b = b1 /\ ord = Without(order, q[1].at)
        /\ hold = [held EXCEPT ![r] = @ \cup {[at |-> a, len |-> rb.mem[a].len] : a \in {q[1].at}}]
    BY <1>5, <1>6, <1>10 DEF ReceiveResult
  <2>2. hold[r] = {[at |-> q[1].at, len |-> q[1].len]}
    <3>1. {[at |-> a, len |-> rb.mem[a].len] : a \in {q[1].at}} = {[at |-> q[1].at, len |-> q[1].len]}
      BY <1>6
    <3> QED BY <2>1, <3>1, <1>1, <1>7
  <2>3. PICK m \in 1..2 : m = 1
    OBVIOUS
  <2>4. ReadBy(rb, m, Ptr(rb.pucFree, q, m + 1), b)
    <3>1. m + 1 = 2
      BY <2>3
    <3> QED BY <3>1, <2>1, <2>3, <1>6
  <2>5. Retrieved(q, m) /\ OrderIs(ord, q, m)
    BY <2>1, <2>3, <1>3, <1>9 DEF Retrieved
  <2>6. HeldIs(hold, b.mem, q, m)
    <3>1. \A j \in 1..m : ~rb.mem[q[j].at].free
      BY <2>3, <1>3, <1>8
    <3>2. Lent(rb.mem, q, m) = hold[r]
      BY <2>2, <2>3, <3>1, LentAll
    <3>3. b.mem = rb.mem
      BY <2>4 DEF ReadBy
    <3> QED BY <3>2, <3>3, <1>7 DEF HeldIs
  <2>7. Shape(split, b, hold, ord, q, m)
    BY <2>4, <2>5, <2>6, ReceivedShape
  <2> QED BY <2>4, <2>7 DEF ReadBy
<1>11. CASE both /\ rb.mem[q[1].at].split
  <2>1. split /\ 1 < n /\ Parts(q[1], q[2]) /\ ~Open(q)
    <3>1. split /\ 1 < n /\ Parts(q[1], q[1 + 1])
      BY <1>1, <1>3, <1>11 DEF Flags
    <3> QED BY <3>1, <1>1 DEF Sent
  <2>2. 2 \in 1..n /\ 1 \in 1..n /\ rb.xItemsWaiting = n
    BY <2>1, <1>1, <1>2
  <2>3. ReadsItem(b1, q, 2)
    <3>1. /\ b1 \in Buffers /\ b1.mem = rb.mem /\ b1.pucAcquire = rb.pucAcquire
          /\ b1.pucFree = rb.pucFree /\ b1.full = rb.full
          /\ b1.pucRead = Ptr(rb.pucFree, q, 2) /\ b1.xItemsWaiting = rb.xItemsWaiting - 1
      BY <1>6 DEF ReadBy
    <3>2. b1.xItemsWaiting > 0
      BY <3>1, <2>1, <2>2, <1>1
    <3> QED BY <3>1, <3>2, <2>2, <1>1 DEF ReadsItem
  <2>4. PICK two \in 1..2 : two = 2
    OBVIOUS
  <2>5. PICK b2 : b2 = prvGetItemDefault(b1)
    OBVIOUS
  <2>6. /\ ReadAddress(b1) = q[two].at /\ b1.mem[q[two].at].len = q[two].len
        /\ ReadBy(b1, 1, Ptr(b1.pucFree, q, two + 1), b2)
    BY <2>3, <2>4, <2>5, ReadItem
  <2>7. ReadBy(rb, two, Ptr(rb.pucFree, q, two + 1), b2)
    <3>1. rb.xItemsWaiting \in Nat
      BY <1>1 DEF Buffers
    <3> QED BY <3>1, <2>4, <2>6, <1>6 DEF ReadBy
  <2>8. ReadAddress(b1) = q[2].at /\ rb.mem[q[2].at].len = q[2].len
    BY <2>4, <2>6, <1>6 DEF ReadBy
  <2>9. /\ b = b2 /\ ord = Without(Without(order, q[1].at), q[2].at)
        /\ hold = [held EXCEPT ![r] = @ \cup {[at |-> a, len |-> rb.mem[a].len] : a \in {q[1].at, q[2].at}}]
    BY <1>5, <1>6, <1>11, <2>5, <2>8 DEF ReceiveResult
  <2>10. hold[r] = {[at |-> q[1].at, len |-> q[1].len], [at |-> q[2].at, len |-> q[2].len]}
    <3>1. {[at |-> a, len |-> rb.mem[a].len] : a \in {q[1].at, q[2].at}}
             = {[at |-> q[1].at, len |-> q[1].len], [at |-> q[2].at, len |-> q[2].len]}
      BY <1>6, <2>8
    <3> QED BY <2>9, <3>1, <1>1, <1>7
  <2>11. OrderIs(ord, q, two)
    <3>1. PICK one \in Nat : one = 1
      OBVIOUS
    <3>2. PICK o1 : o1 = Without(order, q[1].at)
      OBVIOUS
    <3>3. two = one + 1 /\ two <= Len(q) /\ OrderIs(o1, q, one) /\ ord = Without(o1, q[two].at)
      BY <3>1, <3>2, <2>2, <2>4, <2>9, <1>9
    <3> QED BY <3>3, <1>1, OrderNext
  <2>12. Retrieved(q, two)
    BY <2>1, <2>2, <2>4 DEF Retrieved
  <2>13. HeldIs(hold, b.mem, q, two)
    <3>1. \A j \in 1..two : ~rb.mem[q[j].at].free
      BY <2>2, <2>4, <1>8
    <3>2. Lent(rb.mem, q, two) = hold[r]
      BY <2>10, <2>4, <3>1, LentAll
    <3>3. b.mem = rb.mem
      BY <2>7, <2>9 DEF ReadBy
    <3> QED BY <3>2, <3>3, <1>7 DEF HeldIs
  <2>14. ReadBy(rb, two, Ptr(rb.pucFree, q, two + 1), b)
    BY <2>7, <2>9
  <2>15. Shape(split, b, hold, ord, q, two)
    BY <2>11, <2>12, <2>13, <2>14, ReceivedShape
  <2> QED BY <2>14, <2>15 DEF ReadBy
<1> QED BY <1>10, <1>11

-----------------------------------------------------------------------------
(* Returning items. *)

\* The items behind the first m are not returned, and the parts of a split item
\* are together.
Rest(sp, mem, q, m) ==
  \A i \in m + 1 .. Len(q) :
    /\ ~mem[q[i].at].free
    /\ mem[q[i].at].split => sp /\ i < Len(q) /\ Parts(q[i], q[i + 1])

\* What Shape says of the items and the pointers, but for the retrieved items.
Line(b, sp, ord, q, m) ==
  /\ b \in Buffers /\ m \in Nat /\ m <= Len(q)
  /\ Chain(b.mem, b.pucAcquire, b.pucFree, b.full, q)
  /\ Pointers(b, q, m) /\ Sent(sp, q, m) /\ OrderIs(ord, q, m)
  /\ Rest(sp, b.mem, q, m)

\* The same item is open in both chains.
SameOpen(q, q2) == (Open(q) <=> Open(q2)) /\ (Open(q2) => q2[Len(q2)] = q[Len(q)])

\* pucFree g passes over the first item.
Passed(b0, g, b) ==
  /\ b \in Buffers /\ b.mem = b0.mem /\ b.pucAcquire = b0.pucAcquire /\ b.pucWrite = b0.pucWrite
  /\ b.pucRead = b0.pucRead /\ b.xItemsWaiting = b0.xItemsWaiting
  /\ b.pucFree = g /\ b.full = FALSE

\* Returning a retrieved item leaves the acquired one the last.
LEMMA TailOpen ==
  ASSUME NEW sp, NEW q \in Seq(Items), NEW m \in Nat, Sent(sp, q, m), m > 0, m <= Len(q)
  PROVE  SameOpen(q, Tail(q))
<1> DEFINE n == Len(q)
<1>1. /\ n \in Nat /\ n > 0 /\ Tail(q) \in Seq(Items) /\ Len(Tail(q)) = n - 1
      /\ \A i \in 1 .. n - 1 : Tail(q)[i] = q[i + 1]
  OBVIOUS
<1>2. CASE n = 1
  <2>1. q[1].sent
    BY <1>2 DEF Sent
  <2>2. ~Open(q)
    BY <2>1, <1>2 DEF Open
  <2>3. ~Open(Tail(q))
    <3>1. PICK t : t = Tail(q)
      OBVIOUS
    <3>2. ~(Len(t) > 0)
      BY <3>1, <1>1, <1>2
    <3>3. ~Open(t)
      BY <3>2 DEF Open
    <3> QED BY <3>1, <3>3
  <2> QED BY <2>2, <2>3 DEF SameOpen
<1>3. CASE n # 1
  <2>1. n - 1 \in 1 .. n - 1 /\ (n - 1) + 1 = n
    BY <1>1, <1>3
  <2>2. Tail(q)[n - 1] = q[n]
    BY <2>1, <1>1
  <2> QED BY <2>1, <2>2, <1>1 DEF SameOpen, Open
<1> QED BY <1>2, <1>3

\* pucFree passes over the first item of q, which is one of m retrieved ones.
Drops(b0, sp, ord, q, m, b, q2, k) ==
  /\ Line(b0, sp, ord, q, m) /\ m > 0
  /\ Passed(b0, Ptr(b0.pucFree, q, 2), b)
  /\ q2 = Tail(q) /\ k = m - 1

\* Passing over the first item drops it from the chain.
LEMMA DropLine ==
  ASSUME NEW b0, NEW sp, NEW ord, NEW q, NEW m, NEW b, NEW q2, NEW k,
         Drops(b0, sp, ord, q, m, b, q2, k)
  PROVE  Line(b, sp, ord, q2, k) /\ SameOpen(q, q2)
<1> USE DEF Drops
<1> DEFINE n == Len(q)
<1>0. PICK g : g = Ptr(b0.pucFree, q, 2)
  OBVIOUS
<1>1. /\ b0 \in Buffers /\ m \in Nat /\ m <= n /\ q \in Seq(Items) /\ n \in Nat
      /\ Chain(b0.mem, b0.pucAcquire, b0.pucFree, b0.full, q)
      /\ Pointers(b0, q, m) /\ Sent(sp, q, m) /\ OrderIs(ord, q, m) /\ Rest(sp, b0.mem, q, m)
  BY DEF Line, Chain
<1>2. /\ b \in Buffers /\ b.mem = b0.mem /\ b.pucAcquire = b0.pucAcquire /\ b.pucWrite = b0.pucWrite
      /\ b.pucRead = b0.pucRead /\ b.xItemsWaiting = b0.xItemsWaiting
      /\ b.pucFree = g /\ b.full = FALSE
  BY <1>0 DEF Passed
<1>3. n > 0 /\ k \in Nat /\ k + 1 = m /\ m \in 1..n
  BY <1>1
<1>4. /\ q2 \in Seq(Items) /\ Len(q2) = n - 1
      /\ \A i \in 1 .. n - 1 : q2[i] = q[i + 1]
      /\ \A i \in 1 .. n : Ptr(g, q2, i) = Ptr(b0.pucFree, q, i + 1)
  BY <1>0, <1>1, <1>3, TailPtr
<1>5. Chain(b.mem, b.pucAcquire, b.pucFree, b.full, q2)
  <2>1. Chain(b0.mem, b0.pucAcquire, g, FALSE, q2)
    BY <1>0, <1>1, <1>3, ChainDrop
  <2> QED BY <2>1, <1>2
<1>6. SameOpen(q, q2)
  BY <1>1, TailOpen
<1>7. Sent(sp, q2, k)
  <2>1. ASSUME NEW i \in 1..Len(q2), i < Len(q2) \/ i <= k
        PROVE  q2[i].sent
    <3>1. i \in 1 .. n - 1 /\ i + 1 \in 1..n /\ (i + 1 < n \/ i + 1 <= m)
      BY <2>1, <1>1, <1>3, <1>4
    <3>2. q[i + 1].sent
      BY <3>1, <1>1 DEF Sent
    <3> QED BY <3>1, <3>2, <1>4
  <2> QED BY <2>1, <1>1, <1>6 DEF Sent, SameOpen
<1>8. Pointers(b, q2, k)
  <2>1. b.pucRead = Ptr(g, q2, k + 1)
    BY <1>1, <1>2, <1>3, <1>4 DEF Pointers
  <2>2. b.pucWrite = Ptr(g, q2, IF Open(q2) THEN Len(q2) ELSE Len(q2) + 1)
    <3>1. CASE Open(q2)
      <4>1. Len(q2) \in 1..n /\ Len(q2) + 1 = n
        BY <3>1, <1>1, <1>4 DEF Open
      <4>2. b0.pucWrite = Ptr(b0.pucFree, q, n)
        BY <3>1, <1>1, <1>6 DEF Pointers, SameOpen
      <4> QED BY <3>1, <4>1, <4>2, <1>2, <1>4
    <3>2. CASE ~Open(q2)
      <4>1. Len(q2) + 1 = n /\ n \in 1..n
        BY <1>1, <1>3, <1>4
      <4>2. b0.pucWrite = Ptr(b0.pucFree, q, n + 1)
        BY <3>2, <1>1, <1>6 DEF Pointers, SameOpen
      <4> QED BY <3>2, <4>1, <4>2, <1>2, <1>4
    <3> QED BY <3>1, <3>2
  <2>3. b.xItemsWaiting = Len(q2) - k - (IF Open(q2) THEN 1 ELSE 0)
    <3>1. b0.xItemsWaiting = n - m - (IF Open(q2) THEN 1 ELSE 0)
      BY <1>1, <1>6 DEF Pointers, SameOpen
    <3>2. n - m = Len(q2) - k
      BY <1>1, <1>3, <1>4
    <3> QED BY <3>1, <3>2, <1>2
  <2> QED BY <2>1, <2>2, <2>3, <1>2 DEF Pointers
<1>9. OrderIs(ord, q2, k)
  <2>1. n - m = Len(q2) - k
    BY <1>1, <1>3, <1>4
  <2>2. \A i \in 1 .. n - m : q2[k + i] = q[m + i]
    <3> SUFFICES ASSUME NEW i \in 1 .. n - m PROVE q2[k + i] = q[m + i]
      OBVIOUS
    <3>1. k + i \in 1 .. n - 1 /\ (k + i) + 1 = m + i
      BY <1>1, <1>3
    <3> QED BY <3>1, <1>4
  <2>3. [i \in 1 .. n - m |-> q2[k + i]] = [i \in 1 .. n - m |-> q[m + i]]
    BY <2>2
  <2> QED BY <2>1, <2>3, <1>1 DEF OrderIs
<1>10. Rest(sp, b.mem, q2, k)
  <2> SUFFICES ASSUME NEW i \in k + 1 .. Len(q2)
               PROVE  /\ ~b.mem[q2[i].at].free
                      /\ b.mem[q2[i].at].split => sp /\ i < Len(q2) /\ Parts(q2[i], q2[i + 1])
      BY DEF Rest
  <2>1. i + 1 \in m + 1 .. n /\ i \in 1 .. n - 1
    BY <1>1, <1>3, <1>4
  <2>2. q2[i] = q[i + 1]
    BY <2>1, <1>4
  <2>3. /\ ~b0.mem[q[i + 1].at].free
        /\ b0.mem[q[i + 1].at].split => sp /\ i + 1 < n /\ Parts(q[i + 1], q[(i + 1) + 1])
    BY <2>1, <1>1 DEF Rest
  <2>4. i + 1 < n => i < Len(q2) /\ q2[i + 1] = q[(i + 1) + 1]
    <3> SUFFICES ASSUME i + 1 < n PROVE i < Len(q2) /\ q2[i + 1] = q[(i + 1) + 1]
      OBVIOUS
    <3>1. i + 1 \in 1 .. n - 1 /\ i < n - 1
      BY <2>1, <1>1
    <3> QED BY <3>1, <1>4
  <2> QED BY <2>2, <2>3, <2>4, <1>2
<1>11. k <= Len(q2)
  BY <1>1, <1>3, <1>4
<1> QED BY <1>2, <1>3, <1>5, <1>6, <1>7, <1>8, <1>9, <1>10, <1>11 DEF Line

\* Nothing is held: the line is the shape.
LEMMA LineNone ==
  ASSUME NEW b, NEW sp, NEW ord, NEW q, Line(b, sp, ord, q, 0),
         NEW hold, \A r \in Receivers : hold[r] = {}
  PROVE  Shape(sp, b, hold, ord, q, 0)
<1>1. HeldIs(hold, b.mem, q, 0)
  BY LentNone DEF HeldIs
<1>2. Flags(sp, b.mem, q, 0)
  BY DEF Line, Rest, Flags
<1> QED BY <1>1, <1>2 DEF Line, Shape

\* One item is held.
LEMMA LineOne ==
  ASSUME NEW b, NEW sp, NEW ord, NEW q, NEW m \in 1..2, m = 1, Line(b, sp, ord, q, m),
         ~b.mem[q[1].at].free, Receivers # {},
         NEW hold, \A r \in Receivers : hold[r] = {[at |-> q[1].at, len |-> q[1].len]}
  PROVE  Shape(sp, b, hold, ord, q, m)
<1>1. HeldIs(hold, b.mem, q, m)
  <2>1. \A j \in 1..m : ~b.mem[q[j].at].free
    OBVIOUS
  <2>2. Lent(b.mem, q, m) = {[at |-> q[1].at, len |-> q[1].len]}
    BY <2>1, LentAll
  <2> QED BY <2>2 DEF HeldIs
<1>2. Flags(sp, b.mem, q, m)
  <2>1. Rest(sp, b.mem, q, m) /\ Len(q) \in Nat
    BY DEF Line, Chain
  <2>2. ASSUME NEW i \in 1..Len(q)
        PROVE  ~b.mem[q[i].at].free
    <3>1. i = 1 \/ i \in m + 1 .. Len(q)
      BY <2>1
    <3> QED BY <3>1, <2>1 DEF Rest
  <2> QED BY <2>1, <2>2 DEF Rest, Flags
<1> QED BY <1>1, <1>2 DEF Line, Shape

\* Arithmetic of the two parts of a split item, when pucFree f is in front of
\* the first.
LEMMA PartsArith ==
  ASSUME NEW mem, NEW a, NEW f, NEW full, NEW q, Chain(mem, a, f, full, q), Len(q) >= 2,
         Parts(q[1], q[2])
  PROVE  /\ f = q[1].at /\ f # 0 /\ q[2].at = 0
         /\ Ptr(f, q, 2) = 0 /\ End(q[1]) = 0
         /\ Ptr(f, q, 3) = End(q[2]) /\ End(q[2]) # f
<1> USE Sizes
<1>1. Len(q) \in Nat /\ 1 \in 1..Len(q) /\ 2 \in 1..Len(q)
  BY DEF Chain
<1>2. q[1] \in Items /\ q[2] \in Items /\ q[1].at \in Room /\ f \in Room
  BY <1>1, ChainPointers DEF Chain
<1>3. PICK x \in Nat, k \in Nat, l \in Nat : x = q[1].at /\ k = q[1].len /\ l = q[2].len
  BY <1>2 DEF Items
<1>4. x + HEADER + k = xSize /\ q[2].at = 0 /\ k + l + 2 * HEADER < xSize
  BY <1>3 DEF Parts
<1>5. x > 0
  BY <1>4
<1>6. f = x
  <2>1. Ptr(f, q, 1) = q[1].at \/ q[1].at = 0
    BY <1>1, ChainPointers
  <2> QED BY <2>1, <1>3, <1>5 DEF Ptr
<1>7. Wrap(x + HEADER + k) = 0
  BY <1>4 DEF Wrap
<1>8. Wrap(0 + HEADER + l) # x
  BY <1>4 DEF Wrap
<1>9. End(q[1]) = 0 /\ End(q[2]) # x
  BY <1>3, <1>4, <1>7, <1>8 DEF End
<1>10. Ptr(f, q, 2) = End(q[1]) /\ Ptr(f, q, 3) = End(q[2])
  BY DEF Ptr
<1> QED BY <1>3, <1>4, <1>5, <1>6, <1>9, <1>10

\* Marking the j-th of the retrieved items as returned.
Marked(b0, q, j, b1) ==
  b1 = [b0 EXCEPT !.mem = [b0.mem EXCEPT ![q[j].at].free = TRUE, ![q[j].at].split = FALSE]]

OthersKept(b0, q, j, b1) ==
  \A i \in 1..Len(q) : i # j => b1.mem[q[i].at] = b0.mem[q[i].at]

\* Marking a retrieved item as returned changes no other item and no pointer.
LEMMA MarkLine ==
  ASSUME NEW b0 \in Buffers, NEW sp, NEW hold, NEW ord, NEW q, NEW m,
         Shape(sp, b0, hold, ord, q, m), NEW j \in 1..m, NEW b1, Marked(b0, q, j, b1)
  PROVE  /\ Line(b1, sp, ord, q, m)
         /\ b1.mem[q[j].at].free /\ q[j].at \in Index
         /\ b1.mem = [b0.mem EXCEPT ![q[j].at].free = TRUE, ![q[j].at].split = FALSE]
         /\ b1.pucFree = b0.pucFree /\ b1.pucRead = b0.pucRead
         /\ b1.pucAcquire = b0.pucAcquire /\ b1.full = b0.full
         /\ OthersKept(b0, q, j, b1)
<1>1. /\ Chain(b0.mem, b0.pucAcquire, b0.pucFree, b0.full, q) /\ q \in Seq(Items) /\ Len(q) \in Nat
      /\ m \in 0..2 /\ m <= Len(q) /\ j \in 1..Len(q)
      /\ Pointers(b0, q, m) /\ Sent(sp, q, m) /\ OrderIs(ord, q, m) /\ Flags(sp, b0.mem, q, m)
  BY DEF Shape, Chain
<1>2. PICK at : at = q[j].at
  OBVIOUS
<1>3. at \in Index
  <2>1. at \in Room
    BY <1>1, <1>2, ChainPointers
  <2> QED BY <2>1, Sizes DEF Room, Index
<1>4. PICK mem : mem = [b0.mem EXCEPT ![at].free = TRUE, ![at].split = FALSE]
  OBVIOUS
<1>5. b0.mem \in [Index -> Headers]
  BY DEF Buffers
<1>6. SameItems(b0.mem, mem) /\ \A i \in Index : i # at => mem[i] = b0.mem[i]
  BY <1>3, <1>4, <1>5, MarkSame
<1>7. mem[at].free
  <2>1. b0.mem[at] \in Headers
    BY <1>3, <1>5
  <2>2. PICK h : h = [b0.mem[at] EXCEPT !.free = TRUE, !.split = FALSE]
    OBVIOUS
  <2>3. h.free
    BY <2>1, <2>2 DEF Headers
  <2>4. mem = [b0.mem EXCEPT ![at] = h]
    BY <1>4, <2>2
  <2> QED BY <2>3, <2>4, <1>3, <1>5
<1>8. b1 = [b0 EXCEPT !.mem = mem]
  BY <1>2, <1>4 DEF Marked
<1>9. mem \in [Index -> Headers]
  BY <1>6 DEF SameItems
<1>10. /\ b1 \in Buffers /\ b1.mem = mem /\ b1.pucAcquire = b0.pucAcquire /\ b1.pucWrite = b0.pucWrite
       /\ b1.pucRead = b0.pucRead /\ b1.pucFree = b0.pucFree /\ b1.full = b0.full
       /\ b1.xItemsWaiting = b0.xItemsWaiting
  BY <1>8, <1>9 DEF Buffers
<1>11. Chain(b1.mem, b1.pucAcquire, b1.pucFree, b1.full, q)
  BY <1>1, <1>6, <1>10, ChainSame
<1>12. ASSUME NEW i \in 1..Len(q), i # j
       PROVE  b1.mem[q[i].at] = b0.mem[q[i].at]
  <2>1. q[i].at # at
    BY <1>1, <1>2, <1>12, ChainApart
  <2>2. q[i].at \in Room
    BY <1>1, ChainPointers
  <2>3. q[i].at \in Index
    BY <2>2, Sizes DEF Room, Index
  <2> QED BY <2>1, <2>3, <1>6, <1>10
<1>13. Rest(sp, b1.mem, q, m)
  <2> SUFFICES ASSUME NEW i \in m + 1 .. Len(q)
               PROVE  /\ ~b1.mem[q[i].at].free
                      /\ b1.mem[q[i].at].split => sp /\ i < Len(q) /\ Parts(q[i], q[i + 1])
      BY DEF Rest
  <2>1. i \in 1..Len(q) /\ i # j /\ ~(i = 2 /\ m = 2)
    BY <1>1
  <2>2. b1.mem[q[i].at] = b0.mem[q[i].at]
    BY <2>1, <1>12
  <2> QED BY <2>1, <2>2, <1>1 DEF Flags
<1>14. Pointers(b1, q, m)
  BY <1>1, <1>10 DEF Pointers
<1>15. m \in Nat
  BY <1>1
<1>16. OthersKept(b0, q, j, b1)
  BY <1>12 DEF OthersKept
<1> QED BY <1>1, <1>2, <1>3, <1>4, <1>7, <1>10, <1>11, <1>13, <1>14, <1>15, <1>16 DEF Line

\* Every receiver holds the items in S.
AllHold(hold, S) == \A r \in Receivers : hold[r] = S

\* The second part of a split item is returned, the first is not.
LEMMA LentFirst ==
  ASSUME NEW mem, NEW q, NEW m, m = 2, ~mem[q[1].at].free, mem[q[2].at].free
  PROVE  Lent(mem, q, m) = {[at |-> q[1].at, len |-> q[1].len]}
<1>1. {j \in 1..m : ~mem[q[j].at].free} = {1}
  OBVIOUS
<1>2. Lent(mem, q, m) = {[at |-> q[i].at, len |-> q[i].len] : i \in {1}}
  BY <1>1 DEF Lent
<1> QED BY <1>2

\* prvReturnItemDefault moves pucFree to free.
Returned(b1, free, b) ==
  /\ b \in Buffers /\ b.mem = b1.mem /\ b.pucAcquire = b1.pucAcquire /\ b.pucWrite = b1.pucWrite
  /\ b.pucRead = b1.pucRead /\ b.xItemsWaiting = b1.xItemsWaiting
  /\ b.pucFree = free
  /\ b.full \in BOOLEAN /\ (b.full <=> b1.full /\ free = b1.pucAcquire /\ free # b1.pucRead)

\* The fields of the record that prvReturnItemDefault leaves.
LEMMA ReturnFields ==
  ASSUME NEW b0 \in Buffers, NEW q, NEW j, NEW b1 \in Buffers, Marked(b0, q, j, b1),
         NEW at, at = q[j].at, NEW b, b = prvReturnItemDefault(b0, at),
         NEW free \in Room, free = Skip(b1.mem, b1.pucFree, b1.pucRead, {i \in Index : b1.mem[i].free})
  PROVE  Returned(b1, free, b)
<1>1. PICK mem : mem = [b0.mem EXCEPT ![at].free = TRUE, ![at].split = FALSE]
  OBVIOUS
<1>2. b1 = [b0 EXCEPT !.mem = mem]
  BY <1>1 DEF Marked
<1>3. /\ b1.mem = mem /\ b1.pucAcquire = b0.pucAcquire /\ b1.pucWrite = b0.pucWrite
      /\ b1.pucRead = b0.pucRead /\ b1.pucFree = b0.pucFree /\ b1.full = b0.full
      /\ b1.xItemsWaiting = b0.xItemsWaiting
  BY <1>2 DEF Buffers
<1>4. mem \in [Index -> Headers]
  BY <1>3 DEF Buffers
<1>5. free = Skip(mem, b0.pucFree, b0.pucRead, {i \in Index : mem[i].free})
  BY <1>3
<1>6. PICK fu \in BOOLEAN : fu <=> b0.full /\ free = b0.pucAcquire /\ free # b0.pucRead
  OBVIOUS
<1>7. b = [b0 EXCEPT !.mem = mem, !.pucFree = free,
                     !.full = @ /\ free = b0.pucAcquire /\ free # b0.pucRead]
  BY <1>1, <1>5 DEF prvReturnItemDefault
<1>8. b = [b0 EXCEPT !.mem = mem, !.pucFree = free, !.full = fu]
  <2>1. fu = (b0.full /\ free = b0.pucAcquire /\ free # b0.pucRead)
    BY <1>6
  <2> QED BY <2>1, <1>7
<1>9. /\ b \in Buffers /\ b.mem = mem /\ b.pucAcquire = b0.pucAcquire /\ b.pucWrite = b0.pucWrite
      /\ b.pucRead = b0.pucRead /\ b.xItemsWaiting = b0.xItemsWaiting /\ b.pucFree = free /\ b.full = fu
  BY <1>4, <1>8 DEF Buffers
<1> QED BY <1>3, <1>6, <1>9 DEF Returned

\* Returning the only item that is retrieved.
LEMMA ReturnSingle ==
  ASSUME NEW b0 \in Buffers, NEW sp, NEW hold, NEW ord, NEW q, NEW m, m = 1,
         Shape(sp, b0, hold, ord, q, m), NEW at, at = q[1].at,
         NEW b, b = prvReturnItemDefault(b0, at), NEW hold2, NEW S, S = {}, AllHold(hold2, S)
  PROVE  /\ Shape(sp, b, hold2, ord, Tail(q), 0) /\ SameOpen(q, Tail(q)) /\ b \in Buffers
         /\ Tail(q) \in Seq(Items)
<1>1. PICK j \in 1..m : j = 1
  OBVIOUS
<1>2. PICK b1 : Marked(b0, q, j, b1)
  BY DEF Marked
<1>3. /\ Line(b1, sp, ord, q, m)
      /\ b1.mem[at].free /\ at \in Index
  <2>1. /\ Line(b1, sp, ord, q, m)
        /\ b1.mem[q[j].at].free /\ q[j].at \in Index
    BY <1>2, MarkLine
  <2> QED BY <2>1, <1>1
<1>4. /\ b1 \in Buffers /\ Chain(b1.mem, b1.pucAcquire, b1.pucFree, b1.full, q)
      /\ b1.pucRead = Ptr(b1.pucFree, q, 2) /\ Len(q) \in Nat /\ 1 \in 1..Len(q) /\ 2 \in 1 .. Len(q) + 1
      /\ q \in Seq(Items)
  <2>1. Pointers(b1, q, m) /\ m + 1 = 2
    BY <1>3 DEF Line
  <2>2. b1 \in Buffers /\ Chain(b1.mem, b1.pucAcquire, b1.pucFree, b1.full, q) /\ m <= Len(q)
    BY <1>3 DEF Line
  <2>3. q \in Seq(Items) /\ Len(q) \in Nat
    BY <2>2 DEF Chain
  <2> QED BY <2>1, <2>2, <2>3 DEF Pointers
<1>5. PICK p, stop, mem, done : /\ p = b1.pucFree /\ stop = b1.pucRead /\ mem = b1.mem
                                /\ done = {i \in Index : b1.mem[i].free}
  OBVIOUS
<1>6. Skip(mem, p, stop, done) = stop
  <2>1. p = at \/ (at = 0 /\ mem[p].kind = "dummy")
    <3>1. Ptr(b1.pucFree, q, 1) = q[1].at \/ (q[1].at = 0 /\ b1.mem[Ptr(b1.pucFree, q, 1)].kind = "dummy")
      BY <1>4, ChainPointers
    <3> QED BY <3>1, <1>5 DEF Ptr
  <2>2. mem[at].kind = "item" /\ mem[at].len = q[1].len
    BY <1>4, <1>5 DEF Chain, Placed
  <2>3. at \in done
    BY <1>3, <1>5
  <2>4. stop = Wrap(at + HEADER + mem[at].len)
    BY <2>2, <1>4, <1>5 DEF Ptr, End
  <2> QED BY <2>1, <2>2, <2>3, <2>4, SkipOne
<1>7. stop \in Room
  BY <1>4, <1>5 DEF Buffers
<1>8. Returned(b1, stop, b)
  BY <1>1, <1>2, <1>4, <1>5, <1>6, <1>7, ReturnFields
<1>9. Passed(b1, Ptr(b1.pucFree, q, 2), b)
  BY <1>4, <1>5, <1>8 DEF Returned, Passed
<1>10. PICK k, q2 : k = m - 1 /\ q2 = Tail(q)
  OBVIOUS
<1>11. Line(b, sp, ord, q2, k) /\ SameOpen(q, q2)
  <2>1. Drops(b1, sp, ord, q, m, b, q2, k)
    BY <1>3, <1>9, <1>10 DEF Drops
  <2> QED BY <2>1, DropLine
<1>12. k = 0
  BY <1>10
<1>13. Shape(sp, b, hold2, ord, q2, 0)
  BY <1>11, <1>12, LineNone DEF AllHold
<1>14. q2 \in Seq(Items)
  BY <1>11 DEF Line, Chain
<1> QED BY <1>8, <1>10, <1>11, <1>13, <1>14 DEF Returned

\* The two parts of a split item are retrieved: what is marked, and where the
\* pointers are.
LEMMA PairFacts ==
  ASSUME NEW b0 \in Buffers, NEW sp, NEW hold, NEW ord, NEW q, NEW m, m = 2,
         Shape(sp, b0, hold, ord, q, m), NEW j \in 1..m, NEW b1, Marked(b0, q, j, b1)
  PROVE  /\ Line(b1, sp, ord, q, m) /\ b1 \in Buffers
         /\ Chain(b1.mem, b1.pucAcquire, b1.pucFree, b1.full, q)
         /\ Len(q) \in Nat /\ Len(q) >= 2 /\ q \in Seq(Items)
         /\ b1.pucFree = q[1].at /\ b1.pucFree # 0 /\ q[2].at = 0
         /\ Ptr(b1.pucFree, q, 2) = 0 /\ Wrap(b1.pucFree + HEADER + q[1].len) = 0
         /\ b1.pucRead = Wrap(0 + HEADER + q[2].len) /\ b1.pucRead # b1.pucFree
         /\ b1.pucRead = Ptr(b1.pucFree, q, 3)
         /\ b1.mem[b1.pucFree].kind = "item" /\ b1.mem[b1.pucFree].len = q[1].len
         /\ b1.mem[0].kind = "item" /\ b1.mem[0].len = q[2].len
         /\ b1.pucFree \in Index /\ 0 \in Index
<1>1. Line(b1, sp, ord, q, m)
  BY MarkLine
<1>2. /\ b1 \in Buffers /\ Chain(b1.mem, b1.pucAcquire, b1.pucFree, b1.full, q)
      /\ q \in Seq(Items) /\ Len(q) \in Nat /\ Len(q) >= 2 /\ Pointers(b1, q, m)
  BY <1>1 DEF Line, Chain
<1>3. Parts(q[1], q[2])
  BY DEF Shape, Flags
<1>4. PICK f : f = b1.pucFree
  OBVIOUS
<1>5. /\ f = q[1].at /\ f # 0 /\ q[2].at = 0
      /\ Ptr(f, q, 2) = 0 /\ End(q[1]) = 0
      /\ Ptr(f, q, 3) = End(q[2]) /\ End(q[2]) # f
  BY <1>2, <1>3, <1>4, PartsArith
<1>6. b1.pucRead = Ptr(f, q, 3)
  <2>1. m + 1 = 3
    OBVIOUS
  <2> QED BY <2>1, <1>2, <1>4 DEF Pointers
<1>7. /\ b1.mem[q[1].at].kind = "item" /\ b1.mem[q[1].at].len = q[1].len
      /\ b1.mem[q[2].at].kind = "item" /\ b1.mem[q[2].at].len = q[2].len
  <2>1. 1 \in 1..Len(q) /\ 2 \in 1..Len(q)
    BY <1>2
  <2> QED BY <2>1, <1>2 DEF Chain, Placed
<1>8. f \in Index /\ 0 \in Index
  BY <1>2, <1>4, Sizes DEF Buffers, Room, Index
<1> QED BY <1>1, <1>2, <1>4, <1>5, <1>6, <1>7, <1>8 DEF End

\* Returning the first part before the second.
LEMMA ReturnFirst ==
  ASSUME NEW b0 \in Buffers, NEW sp, NEW hold, NEW ord, NEW q, NEW m, m = 2,
         Shape(sp, b0, hold, ord, q, m), NEW at, at = q[1].at, ~b0.mem[q[2].at].free,
         NEW b, b = prvReturnItemDefault(b0, at), Receivers # {},
         NEW hold2, NEW S, S = {[at |-> q[2].at, len |-> q[2].len]}, AllHold(hold2, S)
  PROVE  /\ Shape(sp, b, hold2, ord, Tail(q), 1) /\ SameOpen(q, Tail(q)) /\ b \in Buffers
         /\ Tail(q) \in Seq(Items)
<1>1. PICK j \in 1..m : j = 1
  OBVIOUS
<1>2. PICK b1 : Marked(b0, q, j, b1)
  BY DEF Marked
<1>3. /\ Line(b1, sp, ord, q, m) /\ b1 \in Buffers
      /\ Chain(b1.mem, b1.pucAcquire, b1.pucFree, b1.full, q)
      /\ Len(q) \in Nat /\ Len(q) >= 2 /\ q \in Seq(Items)
      /\ b1.pucFree = q[1].at /\ b1.pucFree # 0 /\ q[2].at = 0
      /\ Ptr(b1.pucFree, q, 2) = 0 /\ Wrap(b1.pucFree + HEADER + q[1].len) = 0
      /\ b1.pucRead # b1.pucFree
      /\ b1.mem[b1.pucFree].kind = "item" /\ b1.mem[b1.pucFree].len = q[1].len
      /\ b1.mem[0].kind = "item"
      /\ b1.pucFree \in Index
  BY <1>2, PairFacts
<1>4. /\ b1.mem[at].free /\ \A i \in 1..Len(q) : i # j => b1.mem[q[i].at] = b0.mem[q[i].at]
  <2>1. b1.mem[q[j].at].free
    BY <1>2, MarkLine
  <2>2. OthersKept(b0, q, j, b1)
    BY <1>2, MarkLine
  <2> QED BY <2>1, <2>2, <1>1 DEF OthersKept
<1>5. ~b1.mem[0].free
  <2>1. 2 \in 1..Len(q) /\ 2 # j
    BY <1>1, <1>3
  <2> QED BY <2>1, <1>3, <1>4
<1>6. PICK p, stop, mem, done : /\ p = b1.pucFree /\ stop = b1.pucRead /\ mem = b1.mem
                                /\ done = {i \in Index : b1.mem[i].free}
  OBVIOUS
<1>7. Skip(mem, p, stop, done) = 0
  <2>1. p # stop /\ mem[p].kind = "item" /\ p \in done /\ Wrap(p + HEADER + mem[p].len) = 0
        /\ mem[0].kind = "item" /\ 0 \notin done
    BY <1>3, <1>4, <1>5, <1>6
  <2> QED BY <2>1, SkipFirst
<1>8. PICK z \in Room : z = 0
  BY Sizes DEF Room
<1>9. Returned(b1, z, b)
  BY <1>1, <1>2, <1>3, <1>6, <1>7, <1>8, ReturnFields
<1>10. ~b.full
  <2>1. b1.full => b1.pucAcquire = b1.pucFree
    BY <1>3 DEF Chain
  <2> QED BY <2>1, <1>3, <1>8, <1>9 DEF Returned
<1>11. Passed(b1, Ptr(b1.pucFree, q, 2), b)
  BY <1>3, <1>8, <1>9, <1>10 DEF Returned, Passed
<1>12a. PICK k \in 1..2 : k = m - 1
  OBVIOUS
<1>12. PICK q2 : q2 = Tail(q)
  OBVIOUS
<1>13. Line(b, sp, ord, q2, k) /\ SameOpen(q, q2)
  <2>1. Drops(b1, sp, ord, q, m, b, q2, k)
    BY <1>3, <1>11, <1>12a, <1>12 DEF Drops
  <2> QED BY <2>1, DropLine
<1>14. k = 1 /\ q2[1] = q[2]
  <2>1. PICK f, g : f = b1.pucFree /\ g = Ptr(f, q, 2)
    OBVIOUS
  <2>2. Len(q) > 0 /\ 1 \in 1 .. Len(q) - 1 /\ 1 + 1 = 2
    BY <1>3
  <2>3. \A i \in 1 .. Len(q) - 1 : q2[i] = q[i + 1]
    BY <2>1, <2>2, <1>3, <1>12, TailPtr
  <2> QED BY <2>2, <2>3, <1>12a
<1>15. ~b.mem[q2[1].at].free
  BY <1>3, <1>5, <1>9, <1>14 DEF Returned
<1>16. Shape(sp, b, hold2, ord, q2, k)
  <2>1. \A r \in Receivers : hold2[r] = {[at |-> q2[1].at, len |-> q2[1].len]}
    BY <1>14 DEF AllHold
  <2> QED BY <2>1, <1>13, <1>14, <1>15, LineOne
<1>17. q2 \in Seq(Items)
  BY <1>13 DEF Line, Chain
<1> QED BY <1>9, <1>12, <1>13, <1>14, <1>16, <1>17 DEF Returned

\* Returning the first part after the second.
LEMMA ReturnLast ==
  ASSUME NEW b0 \in Buffers, NEW sp, NEW hold, NEW ord, NEW q, NEW m, m = 2,
         Shape(sp, b0, hold, ord, q, m), NEW at, at = q[1].at, b0.mem[q[2].at].free,
         NEW b, b = prvReturnItemDefault(b0, at),
         NEW hold2, NEW S, S = {}, AllHold(hold2, S)
  PROVE  /\ Shape(sp, b, hold2, ord, Tail(Tail(q)), 0) /\ SameOpen(q, Tail(Tail(q))) /\ b \in Buffers
         /\ Tail(Tail(q)) \in Seq(Items)
<1>1. PICK j \in 1..m : j = 1
  OBVIOUS
<1>2. PICK b1 : Marked(b0, q, j, b1)
  BY DEF Marked
<1>3. /\ Line(b1, sp, ord, q, m) /\ b1 \in Buffers
      /\ Chain(b1.mem, b1.pucAcquire, b1.pucFree, b1.full, q)
      /\ Len(q) \in Nat /\ Len(q) >= 2 /\ q \in Seq(Items)
      /\ b1.pucFree = q[1].at /\ q[2].at = 0
      /\ Wrap(b1.pucFree + HEADER + q[1].len) = 0
      /\ b1.pucRead = Wrap(0 + HEADER + q[2].len)
      /\ b1.pucRead = Ptr(b1.pucFree, q, 3)
      /\ b1.mem[b1.pucFree].kind = "item" /\ b1.mem[b1.pucFree].len = q[1].len
      /\ b1.mem[0].kind = "item" /\ b1.mem[0].len = q[2].len
      /\ b1.pucFree \in Index /\ 0 \in Index
  BY <1>2, PairFacts
<1>4. b1.mem[at].free /\ OthersKept(b0, q, j, b1)
  <2>1. b1.mem[q[j].at].free
    BY <1>2, MarkLine
  <2>2. OthersKept(b0, q, j, b1)
    BY <1>2, MarkLine
  <2> QED BY <2>1, <2>2, <1>1
<1>5. b1.mem[0].free
  <2>1. 2 \in 1..Len(q) /\ 2 # j
    BY <1>1, <1>3
  <2> QED BY <2>1, <1>3, <1>4 DEF OthersKept
<1>6. PICK p, stop, mem, done : /\ p = b1.pucFree /\ stop = b1.pucRead /\ mem = b1.mem
                                /\ done = {i \in Index : b1.mem[i].free}
  OBVIOUS
<1>7. Skip(mem, p, stop, done) = stop
  <2>1. /\ mem[p].kind = "item" /\ p \in done /\ Wrap(p + HEADER + mem[p].len) = 0
        /\ mem[0].kind = "item" /\ 0 \in done /\ stop = Wrap(0 + HEADER + mem[0].len)
    BY <1>3, <1>4, <1>5, <1>6
  <2> QED BY <2>1, SkipPair
<1>8. stop \in Room
  BY <1>3, <1>6 DEF Buffers
<1>9. Returned(b1, stop, b)
  BY <1>1, <1>2, <1>3, <1>6, <1>7, <1>8, ReturnFields
<1>10. PICK f, g : f = b1.pucFree /\ g = Ptr(f, q, 2)
  OBVIOUS
<1>11. g \in Room
  <2>1. 2 \in 1 .. Len(q) + 1
    BY <1>3
  <2> QED BY <2>1, <1>3, <1>10, ChainPointers
<1>12. PICK b2 : b2 = [b1 EXCEPT !.pucFree = g, !.full = FALSE]
  OBVIOUS
<1>13. Passed(b1, Ptr(b1.pucFree, q, 2), b2) /\ b2.pucFree = g
  BY <1>3, <1>10, <1>11, <1>12 DEF Passed, Buffers
<1>14. PICK k, l, q1, q2 : k = m - 1 /\ l = k - 1 /\ q1 = Tail(q) /\ q2 = Tail(q1)
  OBVIOUS
<1>15. m > 0 /\ k > 0 /\ l = 0
  BY <1>14
<1>16. Line(b2, sp, ord, q1, k) /\ SameOpen(q, q1)
  <2>1. Drops(b1, sp, ord, q, m, b2, q1, k)
    BY <1>3, <1>13, <1>14, <1>15 DEF Drops
  <2> QED BY <2>1, DropLine
<1>17. Ptr(g, q1, 2) = b1.pucRead
  <2>1. Len(q) > 0 /\ 2 \in 1..Len(q) /\ 2 + 1 = 3
    BY <1>3
  <2>2. \A i \in 1..Len(q) : Ptr(g, q1, i) = Ptr(f, q, i + 1)
    BY <2>1, <1>3, <1>10, <1>14, TailPtr
  <2> QED BY <2>1, <2>2, <1>3, <1>10
<1>18. Passed(b2, Ptr(b2.pucFree, q1, 2), b)
  <2>1. Ptr(b2.pucFree, q1, 2) = stop
    BY <1>6, <1>13, <1>17
  <2>2. Passed(b2, stop, b)
    BY <1>6, <1>9, <1>13 DEF Returned, Passed
  <2> QED BY <2>1, <2>2
<1>19. Line(b, sp, ord, q2, l) /\ SameOpen(q1, q2)
  <2>1. Drops(b2, sp, ord, q1, k, b, q2, l)
    BY <1>14, <1>15, <1>16, <1>18 DEF Drops
  <2> QED BY <2>1, DropLine
<1>20. Shape(sp, b, hold2, ord, q2, 0)
  BY <1>15, <1>19, LineNone DEF AllHold
<1>21. SameOpen(q, q2)
  BY <1>16, <1>19 DEF SameOpen
<1>22. q2 \in Seq(Items)
  BY <1>19 DEF Line, Chain
<1> QED BY <1>9, <1>14, <1>20, <1>21, <1>22 DEF Returned

\* Returning the second part before the first: it waits for the first.
LEMMA ReturnSecond ==
  ASSUME NEW b0 \in Buffers, NEW sp, NEW hold, NEW ord, NEW q, NEW m, m = 2,
         Shape(sp, b0, hold, ord, q, m), NEW at, at = q[2].at,
         NEW b, b = prvReturnItemDefault(b0, at), Receivers # {},
         NEW hold2, NEW S, S = {[at |-> q[1].at, len |-> q[1].len]}, AllHold(hold2, S)
  PROVE  Shape(sp, b, hold2, ord, q, m) /\ b \in Buffers
<1>1. PICK j \in 1..m : j = 2
  OBVIOUS
<1>2. PICK b1 : Marked(b0, q, j, b1)
  BY DEF Marked
<1>3. /\ Line(b1, sp, ord, q, m) /\ b1 \in Buffers
      /\ Chain(b1.mem, b1.pucAcquire, b1.pucFree, b1.full, q)
      /\ Len(q) \in Nat /\ Len(q) >= 2 /\ q \in Seq(Items)
      /\ b1.pucFree = q[1].at /\ b1.pucRead # b1.pucFree
      /\ b1.mem[b1.pucFree].kind = "item"
      /\ b1.pucFree \in Index
  BY <1>2, PairFacts
<1>4. b1.mem[at].free /\ OthersKept(b0, q, j, b1)
  <2>1. b1.mem[q[j].at].free
    BY <1>2, MarkLine
  <2>2. OthersKept(b0, q, j, b1)
    BY <1>2, MarkLine
  <2> QED BY <2>1, <2>2, <1>1
<1>5. ~b1.mem[q[1].at].free
  <2>1. 1 \in 1..Len(q) /\ 1 # j
    BY <1>1, <1>3
  <2>2. ~b0.mem[q[1].at].free
    BY <2>1 DEF Shape, Flags
  <2> QED BY <2>1, <2>2, <1>4 DEF OthersKept
<1>6. PICK p, stop, mem, done : /\ p = b1.pucFree /\ stop = b1.pucRead /\ mem = b1.mem
                                /\ done = {i \in Index : b1.mem[i].free}
  OBVIOUS
<1>7. Skip(mem, p, stop, done) = p
  <2>1. mem[p].kind = "item" /\ p \notin done
    BY <1>3, <1>5, <1>6
  <2> QED BY <2>1, SkipNone
<1>8. p \in Room
  BY <1>3, <1>6 DEF Buffers
<1>9. Returned(b1, p, b)
  BY <1>1, <1>2, <1>3, <1>6, <1>7, <1>8, ReturnFields
<1>10. /\ b.mem = b1.mem /\ b.pucAcquire = b1.pucAcquire /\ b.pucWrite = b1.pucWrite
       /\ b.pucRead = b1.pucRead /\ b.xItemsWaiting = b1.xItemsWaiting
       /\ b.pucFree = b1.pucFree /\ b \in Buffers /\ b.full = b1.full
  <2>1. b1.full => b1.pucAcquire = b1.pucFree
    BY <1>3 DEF Chain
  <2>2. b.full <=> b1.full
    BY <2>1, <1>3, <1>6, <1>9 DEF Returned
  <2>3. b.full \in BOOLEAN /\ b1.full \in BOOLEAN
    BY <1>3, <1>9 DEF Returned, Buffers
  <2> QED BY <2>2, <2>3, <1>6, <1>9 DEF Returned
<1>11. Lent(b.mem, q, m) = {[at |-> q[1].at, len |-> q[1].len]}
  <2>1. ~b.mem[q[1].at].free /\ b.mem[q[2].at].free
    BY <1>4, <1>5, <1>10
  <2> QED BY <2>1, LentFirst
<1>12. HeldIs(hold2, b.mem, q, m)
  BY <1>11 DEF HeldIs, AllHold
<1>13. Flags(sp, b.mem, q, m)
  <2>1. Parts(q[1], q[2])
    BY DEF Shape, Flags
  <2>2. Rest(sp, b.mem, q, m)
    BY <1>3, <1>10 DEF Line
  <2>3. ASSUME NEW i \in 1..Len(q), b.mem[q[i].at].free
        PROVE  i = 2
    <3>1. i = 1 \/ i = 2 \/ i \in m + 1 .. Len(q)
      BY <1>3
    <3> QED BY <3>1, <2>2, <2>3, <1>5, <1>10 DEF Rest
  <2> QED BY <2>1, <2>2, <2>3 DEF Rest, Flags
<1>14. Chain(b.mem, b.pucAcquire, b.pucFree, b.full, q) /\ Pointers(b, q, m)
  <2>1. Pointers(b1, q, m)
    BY <1>3 DEF Line
  <2> QED BY <2>1, <1>3, <1>10 DEF Pointers
<1>15. Sent(sp, q, m) /\ OrderIs(ord, q, m)
  BY DEF Shape
<1> QED BY <1>3, <1>10, <1>12, <1>13, <1>14, <1>15 DEF Shape

\* vRingbufferReturnItem keeps the shape.
LEMMA ReturnShape ==
  ASSUME Types, OneReceiver, NEW q, NEW m, Shape(split, rb, held, order, q, m),
         NEW r \in Receivers, NEW item \in held[r],
         NEW b, b = prvReturnItemDefault(rb, item.at),
         NEW hold, hold = [held EXCEPT ![r] = @ \ {item}]
  PROVE  /\ b \in Buffers
         /\ \E q2 \in Seq(Items), k \in 0..2 : Shape(split, b, hold, order, q2, k) /\ SameOpen(q, q2)
<1> DEFINE one == [at |-> q[1].at, len |-> q[1].len]
<1> DEFINE two == [at |-> q[2].at, len |-> q[2].len]
<1>1. /\ rb \in Buffers /\ m \in 0..2 /\ m <= Len(q) /\ q \in Seq(Items) /\ Len(q) \in Nat
      /\ Chain(rb.mem, rb.pucAcquire, rb.pucFree, rb.full, q)
      /\ Flags(split, rb.mem, q, m) /\ HeldIs(held, rb.mem, q, m)
      /\ held \in [Receivers -> SUBSET [at : Nat, len : Nat]]
  BY DEF Types, Shape, Chain
<1>2. held[r] = Lent(rb.mem, q, m) /\ \A t \in Receivers : t = r
  BY <1>1 DEF HeldIs, OneReceiver
<1>3. m # 0
  BY <1>2, LentNone
<1>4. PICK S : S = held[r] \ {item} /\ AllHold(hold, S)
  BY <1>1, <1>2 DEF AllHold
<1>5. 1 \in 1..Len(q) /\ ~rb.mem[q[1].at].free
  <2>1. 1 \in 1..Len(q)
    BY <1>1, <1>3
  <2> QED BY <2>1, <1>1 DEF Flags
<1>6. CASE m = 1
  <2>1. PICK k \in 1..2 : k = m
    BY <1>6
  <2>2. \A i \in 1..k : ~rb.mem[q[i].at].free
    BY <2>1, <1>5, <1>6
  <2>3. held[r] = {one}
    BY <2>1, <2>2, <1>2, <1>6, LentAll
  <2>4. item = one
    BY <2>3
  <2>5. item.at = q[1].at /\ S = {}
    BY <2>3, <2>4, <1>4
  <2>6. PICK at : at = item.at
    OBVIOUS
  <2>7. /\ Shape(split, b, hold, order, Tail(q), 0) /\ SameOpen(q, Tail(q)) /\ b \in Buffers
        /\ Tail(q) \in Seq(Items)
    BY <2>5, <2>6, <1>1, <1>4, <1>6, ReturnSingle
  <2>8. 0 \in 0..2
    OBVIOUS
  <2> QED BY <2>7, <2>8
<1>7. CASE m = 2
  <2>1. 2 \in 1..Len(q) /\ q[1].at # q[2].at
    <3>1. 2 \in 1..Len(q) /\ 1 # 2
      BY <1>1, <1>7
    <3> QED BY <3>1, <1>1, <1>5, ChainApart
  <2>2. one # two /\ one.at = q[1].at /\ two.at = q[2].at
    BY <2>1
  <2>3. PICK at : at = item.at
    OBVIOUS
  <2>6. b = prvReturnItemDefault(rb, at) /\ rb \in Buffers /\ Receivers # {}
    BY <2>3, <1>1
  <2>4. CASE rb.mem[q[2].at].free
    <3>1. held[r] = {one}
      BY <2>4, <1>2, <1>5, <1>7, LentFirst
    <3>2. item = one
      BY <3>1
    <3>3. at = q[1].at /\ S = {}
      BY <3>1, <3>2, <2>3, <1>4
    <3>4. PICK q2 : q2 = Tail(Tail(q))
      OBVIOUS
    <3>5. /\ Shape(split, b, hold, order, q2, 0) /\ SameOpen(q, q2) /\ b \in Buffers
          /\ q2 \in Seq(Items)
      BY <2>4, <2>6, <3>3, <3>4, <1>4, <1>7, ReturnLast
    <3>6. 0 \in 0..2
      OBVIOUS
    <3> QED BY <3>5, <3>6
  <2>5. CASE ~rb.mem[q[2].at].free
    <3>1. PICK k \in 1..2 : k = m
      BY <1>7
    <3>2. \A i \in 1..k : ~rb.mem[q[i].at].free
      BY <2>5, <3>1, <1>5, <1>7
    <3>3. held[r] = {one, two}
      BY <3>1, <3>2, <1>2, <1>7, LentAll
    <3>4. CASE item = one
      <4>1. at = q[1].at /\ S = {two}
        BY <2>2, <2>3, <3>3, <3>4, <1>4
      <4>2. /\ Shape(split, b, hold, order, Tail(q), 1) /\ SameOpen(q, Tail(q)) /\ b \in Buffers
            /\ Tail(q) \in Seq(Items)
        BY <2>5, <2>6, <4>1, <1>4, <1>7, ReturnFirst
      <4>3. 1 \in 0..2
        OBVIOUS
      <4> QED BY <4>2, <4>3
    <3>5. CASE item = two
      <4>1. at = q[2].at /\ S = {one}
        BY <2>2, <2>3, <3>3, <3>5, <1>4
      <4>2. Shape(split, b, hold, order, q, m) /\ b \in Buffers
        BY <2>6, <4>1, <1>4, <1>7, ReturnSecond
      <4>3. SameOpen(q, q)
        BY DEF SameOpen
      <4> QED BY <4>2, <4>3, <1>1
    <3> QED BY <3>3, <3>4, <3>5
  <2> QED BY <2>4, <2>5
<1>8. m = 1 \/ m = 2
  BY <1>1, <1>3
<1> QED BY <1>6, <1>7, <1>8

-----------------------------------------------------------------------------
(* The semaphores. *)

\* A pointer and a later one differ, unless they are the ends of a full buffer.
LEMMA PointersDiffer ==
  ASSUME NEW mem, NEW a, NEW f, NEW full, NEW q, Chain(mem, a, f, full, q),
         NEW i \in 1..Len(q), NEW w \in 1 .. Len(q) + 1, i < w, w = Len(q) + 1 => ~full
  PROVE  Ptr(f, q, i) # Ptr(f, q, w)
<1>1. /\ a \in Room /\ f \in Room /\ Len(q) \in Nat /\ a = Ptr(f, q, Len(q) + 1)
  BY DEF Chain
<1>2. PICK p \in Room, r \in Room : p = Ptr(f, q, i) /\ r = Ptr(f, q, w)
  <2>1. i \in 1 .. Len(q) + 1
    BY <1>1
  <2> QED BY <2>1, ChainPointers
<1>3. q[i] \in Items /\ q[i].at \in Room /\ Dist(f, p) <= Dist(f, q[i].at)
  BY <1>2, ChainPointers
<1>4. PICK x \in Room, k \in Nat : x = q[i].at /\ k = q[i].len
  BY <1>3 DEF Items
<1>5. Dist(f, p) <= Dist(f, x)
  BY <1>3, <1>4
<1>6. Dist(f, x) + HEADER + k <= Dist(f, r)
  <2>1. CASE w = Len(q) + 1
    <3>1. Placed(mem, f, Used(a, f, full), q[i])
      BY DEF Chain
    <3>2. Used(a, f, full) = Dist(f, a)
      BY <2>1 DEF Used
    <3>3. r = a
      BY <2>1, <1>1, <1>2
    <3> QED BY <3>1, <3>2, <3>3, <1>4 DEF Placed
  <2>2. CASE w # Len(q) + 1
    <3>1. w \in 1..Len(q)
      BY <2>2, <1>1
    <3>2. w \in 2..Len(q) /\ w - 1 \in 1..Len(q)
      BY <3>1, <1>1
    <3>3. q[w - 1] \in Items /\ q[w - 1].at \in Room
      BY <3>2, ChainPointers
    <3>4. PICK y \in Room, l \in Nat : y = q[w - 1].at /\ l = q[w - 1].len
      BY <3>3 DEF Items
    <3>5. Dist(f, y) + HEADER + l <= Dist(f, r)
      BY <3>2, <3>4, <1>2, ChainPointers
    <3>6. CASE i = w - 1
      BY <3>4, <3>5, <3>6, <1>4
    <3>7. CASE i # w - 1
      <4>1. i < w - 1
        BY <3>2, <3>7
      <4>2. Dist(f, x) + HEADER + k <= Dist(f, y)
        BY <3>2, <3>4, <4>1, <1>4 DEF Chain, Before
      <4>3. PICK dx \in Nat, dy \in Nat, dr \in Nat : dx = Dist(f, x) /\ dy = Dist(f, y) /\ dr = Dist(f, r)
        BY <1>1, DistNat
      <4>4. dx + HEADER + k <= dy /\ dy + HEADER + l <= dr
        BY <4>2, <4>3, <3>5
      <4>5. dx + HEADER + k <= dr
        BY <4>4, Sizes
      <4> QED BY <4>3, <4>5
    <3> QED BY <3>6, <3>7
  <2> QED BY <2>1, <2>2
<1>7. Dist(f, p) \in Nat /\ Dist(f, x) \in Nat /\ Dist(f, r) \in Nat
  BY <1>1, DistNat
<1>8. Dist(f, p) # Dist(f, r)
  BY <1>5, <1>6, <1>7, Sizes
<1> QED BY <1>2, <1>8

\* The next item, once sent, can be received.
LEMMA ShapeAvail ==
  ASSUME NEW sp, NEW b \in Buffers, NEW hold, NEW ord, NEW q, NEW m, Shape(sp, b, hold, ord, q, m),
         ord # << >>, ord[1].sent
  PROVE  prvCheckItemAvail(b)
<1> DEFINE n == Len(q)
<1>1. /\ m \in 0..2 /\ m <= n /\ q \in Seq(Items) /\ n \in Nat /\ OrderIs(ord, q, m)
      /\ Chain(b.mem, b.pucAcquire, b.pucFree, b.full, q) /\ Pointers(b, q, m)
  BY DEF Shape, Chain
<1>2. m < n
  <2> SUFFICES ASSUME ~(m < n) PROVE FALSE
    OBVIOUS
  <2>1. 1 .. n - m = {}
    BY <1>1
  <2>2. ord = << >>
    BY <2>1, <1>1 DEF OrderIs
  <2> QED BY <2>2
<1>3. q[m + 1].sent /\ m + 1 \in 1..n
  <2>1. 1 \in 1 .. n - m /\ m + 1 \in 1..n
    BY <1>1, <1>2
  <2> QED BY <2>1, <1>1 DEF OrderIs
<1>4. Open(q) => m + 1 < n
  BY <1>1, <1>2, <1>3 DEF Open
<1>5. PICK w : w = IF Open(q) THEN n ELSE n + 1
  OBVIOUS
<1>6. w \in 1 .. n + 1 /\ m + 1 < w
  BY <1>1, <1>2, <1>4, <1>5
<1>7. b.pucRead = Ptr(b.pucFree, q, m + 1) /\ b.pucWrite = Ptr(b.pucFree, q, w)
  BY <1>1, <1>5 DEF Pointers
<1>8. b.xItemsWaiting > 0
  <2>1. b.xItemsWaiting = n - m - (IF Open(q) THEN 1 ELSE 0)
    BY <1>1 DEF Pointers
  <2> QED BY <2>1, <1>1, <1>2, <1>4
<1>9. b.pucRead # b.pucWrite \/ b.full
  <2> SUFFICES ASSUME ~b.full PROVE b.pucRead # b.pucWrite
    OBVIOUS
  <2>1. PICK i \in 1..n : i = m + 1
    BY <1>3
  <2>2. Ptr(b.pucFree, q, i) # Ptr(b.pucFree, q, w)
    BY <2>1, <1>1, <1>6, PointersDiffer
  <2> QED BY <2>1, <2>2, <1>7
<1> QED BY <1>8, <1>9 DEF prvCheckItemAvail

\* The number of elements of an interval.
LEMMA CardUpTo ==
  ASSUME NEW n \in Nat
  PROVE  IsFiniteSet(1..n) /\ Cardinality(1..n) = n
<1>1. PICK one \in Int : one = 1
  OBVIOUS
<1>2. n \in Int
  OBVIOUS
<1>3. IsFiniteSet(one..n) /\ Cardinality(one..n) = IF one > n THEN 0 ELSE n - one + 1
  BY <1>2, FS_Interval
<1>4. (IF one > n THEN 0 ELSE n - one + 1) = n
  BY <1>1
<1> QED BY <1>1, <1>3, <1>4

\* A retrieved item is held, and with none retrieved none is.
LEMMA HeldNone ==
  ASSUME NEW sp, NEW b, NEW hold, NEW ord, NEW q, NEW m, Shape(sp, b, hold, ord, q, m)
  PROVE  /\ m = 0 => \A r \in Receivers : hold[r] = {}
         /\ (\A r \in Receivers : hold[r] = {}) => m = 0
         /\ \A r \in Receivers : IsFiniteSet(hold[r]) /\ Cardinality(hold[r]) <= m
<1>1. m \in 0..2 /\ m <= Len(q) /\ Flags(sp, b.mem, q, m) /\ HeldIs(hold, b.mem, q, m) /\ Len(q) \in Nat
  BY DEF Shape, Chain
<1>2. m = 0 => \A r \in Receivers : hold[r] = {}
  BY <1>1, LentNone DEF HeldIs
<1>3. ASSUME m # 0, \A r \in Receivers : hold[r] = {}
      PROVE  FALSE
  <2>1. 1 \in 1..Len(q) /\ 1 \in 1..m
    BY <1>1, <1>3
  <2>2. ~b.mem[q[1].at].free
    BY <2>1, <1>1 DEF Flags
  <2>3. [at |-> q[1].at, len |-> q[1].len] \in Lent(b.mem, q, m)
    BY <2>1, <2>2 DEF Lent
  <2>4. PICK r \in Receivers : TRUE
    BY <1>1, <1>3 DEF HeldIs
  <2>5. hold[r] = Lent(b.mem, q, m)
    BY <1>1 DEF HeldIs
  <2> QED BY <2>3, <2>5, <1>3
<1>4. ASSUME NEW r \in Receivers
      PROVE  IsFiniteSet(hold[r]) /\ Cardinality(hold[r]) <= m
  <2>1. IsFiniteSet(1..m) /\ Cardinality(1..m) = m
    BY <1>1, CardUpTo
  <2>2. PICK J : J = {j \in 1..m : ~b.mem[q[j].at].free}
    OBVIOUS
  <2>3. J \subseteq 1..m
    BY <2>2
  <2>4. IsFiniteSet(J) /\ Cardinality(J) <= m /\ Cardinality(J) \in Nat
    BY <2>1, <2>3, FS_Subset, FS_CardinalityType
  <2>5. hold[r] = {[at |-> q[i].at, len |-> q[i].len] : i \in J}
    BY <2>2, <1>1 DEF HeldIs, Lent
  <2>6. PICK fn : fn = [i \in J |-> [at |-> q[i].at, len |-> q[i].len]]
    OBVIOUS
  <2>7. fn \in Surjection(J, hold[r])
    BY <2>5, <2>6 DEF Surjection
  <2>8. IsFiniteSet(hold[r]) /\ Cardinality(hold[r]) <= Cardinality(J)
    BY <2>4, <2>7, FS_Surjection
  <2>9. Cardinality(hold[r]) \in Nat
    BY <2>8, FS_CardinalityType
  <2> QED BY <2>4, <2>8, <2>9, <1>1
<1> QED BY <1>2, <1>3, <1>4

-----------------------------------------------------------------------------
(* The steps. *)

\* RecvSem is available or in use when the next item is sent.
RxServed ==
  order # << >> /\ order[1].sent =>
     rx \/ \E t \in Tasks : pc[t] \in {"receive", "giveRx", "giveTxRx"}

\* Caller t goes to label l.
LEMMA Moved ==
  ASSUME TasksTypeOK, NEW t \in Tasks, NEW l \in Labels, Goto(t, l)
  PROVE  /\ pc' \in [Tasks -> Labels] /\ pc'[t] = l
         /\ \A u \in Tasks : u # t => pc'[u] = pc[u]
  BY DEF TasksTypeOK, Goto

\* A step to a state of the given shape.
LEMMA StepInv ==
  ASSUME NEW q \in Seq(Items), NEW m \in 0..2, Types', CallsOK', TxNotLost', RxServed',
         Shape(split', rb', held', order', q, m), OwnerIs(acquired', q), Asking(pc', m)
  PROVE  ItemsInv'
<1>1. RingInv'
  BY DEF RingInv, Ring
<1>2. rb' \in Buffers
  BY DEF Types
<1>3. ASSUME order' # << >>, order'[1].sent
      PROVE  prvCheckItemAvail(rb')
  BY <1>2, <1>3, ShapeAvail
<1>4. RxNotLost'
  <2>1. (order # << >> /\ order[1].sent => prvCheckItemAvail(rb))'
    BY <1>3
  <2> QED BY <2>1 DEF RxNotLost, RxServed
<1> QED BY <1>1, <1>4 DEF ItemsInv, SemaphoresKept

\* A step that starts no send and no acquired item.
LEMMA CallsKept ==
  ASSUME CallsOK, UNCHANGED split,
         \A t \in Senders : Sending(t)' => Sending(t) /\ arg'[t] = arg[t],
         \A t \in Senders : arg'[t].acquire => arg[t].acquire,
         \A t \in Senders : acquired'[t] # NoItem => acquired[t] # NoItem
  PROVE  CallsOK'
<1>1. xMaxItemSize' = xMaxItemSize
  BY DEF xMaxItemSize
<1>2. \A s \in Senders : Sending(s)' => arg'[s].len \in Lens /\ arg'[s].len <= xMaxItemSize'
  BY <1>1 DEF CallsOK
<1>3. \A s \in Senders : arg'[s].acquire => ~split'
  BY DEF CallsOK
<1>4. \A s, t \in Senders : Sending(s)' /\ arg'[s].acquire /\ Sending(t)' => s = t
  BY DEF CallsOK
<1>5. \A s, t \in Senders : acquired'[s] # NoItem => ~Sending(t)'
  BY DEF CallsOK
<1>6. \A s, t \in Senders : acquired'[s] # NoItem /\ acquired'[t] # NoItem => s = t
  BY DEF CallsOK
<1> QED BY <1>2, <1>3, <1>4, <1>5, <1>6 DEF CallsOK

\* A step that leaves the buffer and the items alone.
LEMMA QuietStep ==
  ASSUME ItemsInv, UNCHANGED <<rb, split, acquired, held, order>>,
         TasksTypeOK', arg' \in [Senders -> Calls], CallsOK', TxNotLost', RxServed',
         \A r \in Receivers : pc'[r] \in {"takeRx", "receive"} =>
            pc[r] \in {"takeRx", "receive"} \/ \A t \in Receivers : held[t] = {}
  PROVE  ItemsInv'
<1>1. PICK q \in Seq(Items), m \in 0..2 : Ring(q, m)
  BY DEF ItemsInv, RingInv
<1>2. Shape(split, rb, held, order, q, m) /\ OwnerIs(acquired, q) /\ Asking(pc, m)
  BY <1>1 DEF Ring
<1>3. Types'
  BY DEF ItemsInv, Types
<1>4. (\A t \in Receivers : held[t] = {}) => m = 0
  BY <1>2, HeldNone
<1>5. Asking(pc', m)
  BY <1>2, <1>4 DEF Asking
<1>6. Shape(split', rb', held', order', q, m) /\ OwnerIs(acquired', q)
  BY <1>2
<1> QED BY <1>3, <1>5, <1>6, StepInv

\* What the invariant says, part by part.
LEMMA InvFacts ==
  ASSUME ItemsInv
  PROVE  /\ Types /\ CallsOK /\ TasksTypeOK /\ TxNotLost /\ RxNotLost /\ RxServed
         /\ arg \in [Senders -> Calls] /\ tx \in BOOLEAN /\ rx \in BOOLEAN
         /\ pc \in [Tasks -> Labels] /\ split \in BOOLEAN
         /\ Senders \subseteq Tasks /\ Receivers \subseteq Tasks
<1>1. Types /\ CallsOK /\ TxNotLost /\ RxNotLost
  BY DEF ItemsInv, SemaphoresKept
<1>2. RxServed
  BY <1>1 DEF RxNotLost, RxServed
<1> QED BY <1>1, <1>2, RingbufItemsAssumption DEF Types, TasksTypeOK, Tasks

\* A call of a send function (the next-state relation, step by step).
LEMMA SendStep ==
  ASSUME use = "single", ItemsInv, NEW s \in Senders, NEW n \in Lens, NEW acquire \in BOOLEAN,
         MaySend(s, n, acquire), xRingbufferSend(s, n, acquire)
  PROVE  ItemsInv'
<1>1. /\ CallsOK /\ TasksTypeOK /\ TxNotLost /\ RxServed /\ arg \in [Senders -> Calls]
      /\ Senders \subseteq Tasks /\ Receivers \subseteq Tasks /\ pc \in [Tasks -> Labels]
      /\ tx \in BOOLEAN /\ rx \in BOOLEAN
  BY InvFacts
<1>2. /\ n <= xMaxItemSize /\ (acquire => ~split) /\ pc[s] = "idle"
      /\ arg' = [arg EXCEPT ![s] = [len |-> n, acquire |-> acquire]]
      /\ UNCHANGED <<tx, rx, split, rb, acquired, held, order>>
  BY DEF xRingbufferSend, CallSend
<1>3. PICK l : l = IF s \in Isrs THEN "send" ELSE "takeTx"
  OBVIOUS
<1>4. l \in {"send", "takeTx"} /\ l \in Labels /\ Goto(s, l)
  BY <1>3 DEF xRingbufferSend, CallSend, Labels
<1>5. /\ pc' \in [Tasks -> Labels] /\ pc'[s] = l
      /\ \A u \in Tasks : u # s => pc'[u] = pc[u]
  BY <1>1, <1>4, Moved
<1>6. /\ \A t \in Senders : acquired[t] = NoItem /\ ~(arg[t].acquire /\ pc[t] # "idle")
      /\ acquire => \A t \in Senders : pc[t] = "idle"
  BY DEF MaySend
<1>7. arg' \in [Senders -> Calls]
  <2>1. n \in Nat
    BY RingbufItemsAssumption
  <2>2. [len |-> n, acquire |-> acquire] \in Calls
    BY <2>1 DEF Calls
  <2> QED BY <2>2, <1>1, <1>2
<1>8. arg'[s].len = n /\ arg'[s].acquire = acquire /\ \A t \in Senders : t # s => arg'[t] = arg[t]
  BY <1>1, <1>2
<1>9. CallsOK'
  <2>1. xMaxItemSize' = xMaxItemSize
    BY <1>2 DEF xMaxItemSize
  <2>2. ASSUME NEW t \in Senders, t # s, Sending(t)'
        PROVE  Sending(t) /\ pc[t] # "idle" /\ ~acquire /\ ~arg[t].acquire /\ arg'[t] = arg[t]
    <3>1. pc[t] \in {"takeTx", "send"}
      BY <2>2, <1>1, <1>5 DEF Sending
    <3> QED BY <3>1, <2>2, <1>6, <1>8 DEF Sending
  <2>3. \A t \in Senders : Sending(t)' => arg'[t].len \in Lens /\ arg'[t].len <= xMaxItemSize'
    <3> SUFFICES ASSUME NEW t \in Senders, Sending(t)'
                 PROVE  arg'[t].len \in Lens /\ arg'[t].len <= xMaxItemSize'
        OBVIOUS
    <3>1. CASE t = s
      BY <3>1, <2>1, <1>2, <1>8
    <3>2. CASE t # s
      BY <3>2, <2>1, <2>2, <1>1 DEF CallsOK
    <3> QED BY <3>1, <3>2
  <2>4. \A t \in Senders : arg'[t].acquire => ~split'
    BY <1>1, <1>2, <1>8 DEF CallsOK
  <2>5. \A t, u \in Senders : Sending(t)' /\ arg'[t].acquire /\ Sending(u)' => t = u
    BY <2>2, <1>8
  <2>6. \A t, u \in Senders : acquired'[t] # NoItem => ~Sending(u)'
    BY <1>2, <1>6
  <2>7. \A t, u \in Senders : acquired'[t] # NoItem /\ acquired'[u] # NoItem => t = u
    BY <1>2, <1>6
  <2> QED BY <2>3, <2>4, <2>5, <2>6, <2>7 DEF CallsOK
<1>10. TasksTypeOK'
  BY <1>1, <1>2, <1>5 DEF TasksTypeOK
<1>11. \A t \in Tasks : pc[t] # "idle" => pc'[t] = pc[t]
  BY <1>2, <1>5
<1>12. TxNotLost' /\ RxServed'
  BY <1>1, <1>2, <1>11 DEF TxNotLost, RxServed
<1>13. \A r \in Receivers : pc'[r] \in {"takeRx", "receive"} => pc[r] \in {"takeRx", "receive"}
  BY <1>1, <1>4, <1>5
<1> QED BY <1>2, <1>7, <1>9, <1>10, <1>12, <1>13, QuietStep

\* Everything fits into an empty buffer, so a refused send finds something stored
\* that will give TransSem when it is returned.
LEMMA RefusedFits ==
  ASSUME ItemsInv, order = << >>, \A r \in Receivers : held[r] = {}, NEW n
  PROVE  prvCheckItemFitsDefault(n)
<1>1. PICK q \in Seq(Items), m \in 0..2 : Ring(q, m)
  BY DEF ItemsInv, RingInv
<1>2. Shape(split, rb, held, order, q, m)
  BY <1>1 DEF Ring
<1>3. m = 0
  BY <1>2, HeldNone
<1>4. OrderIs(order, q, 0) /\ Chain(rb.mem, rb.pucAcquire, rb.pucFree, rb.full, q) /\ Len(q) \in Nat
  BY <1>2, <1>3 DEF Shape
<1>5. Len(q) = 0
  <2> SUFFICES ASSUME Len(q) # 0 PROVE FALSE
    OBVIOUS
  <2>1. 1 \in 1 .. Len(q) - 0
    BY <1>4
  <2>2. 1 \in DOMAIN order
    BY <2>1, <1>4 DEF OrderIs
  <2> QED BY <2>2
<1>6. q = << >>
  BY <1>5
<1>7. ~rb.full /\ rb.pucAcquire = rb.pucFree
  BY <1>4, <1>5, <1>6 DEF Chain, Ptr
<1> QED BY <1>7 DEF prvCheckItemFitsDefault

\* A send or acquire that does not fit.
LEMMA SendRefusedStep ==
  ASSUME ItemsInv, NEW s \in Senders, SendRefused(s)
  PROVE  ItemsInv'
<1>1. /\ CallsOK /\ TasksTypeOK /\ TxNotLost /\ RxServed /\ arg \in [Senders -> Calls]
      /\ Senders \subseteq Tasks /\ Receivers \subseteq Tasks
      /\ tx \in BOOLEAN /\ rx \in BOOLEAN
  BY InvFacts
<1>2. /\ pc[s] = "send" /\ ~prvCheckItemFitsDefault(arg[s].len)
      /\ UNCHANGED <<tx, rx, rb, split, arg, acquired, held, order>>
  BY DEF SendRefused, Refused, appVars
<1>3. PICK l \in {"takeTx", "idle"} : Goto(s, l)
  BY <1>2 DEF SendRefused, Refused
<1>4. /\ pc' \in [Tasks -> Labels] /\ pc'[s] = l
      /\ \A u \in Tasks : u # s => pc'[u] = pc[u]
  <2>1. l \in Labels
    BY DEF Labels
  <2> QED BY <2>1, <1>1, <1>3, Moved
<1>5. order # << >> \/ \E r \in Receivers : held[r] # {}
  BY <1>2, RefusedFits
<1>6. CallsOK'
  <2>1. \A t \in Senders : Sending(t)' => Sending(t)
    BY <1>1, <1>2, <1>4 DEF Sending
  <2> QED BY <2>1, <1>1, <1>2, CallsKept
<1>7. TasksTypeOK' /\ arg' \in [Senders -> Calls]
  BY <1>1, <1>2, <1>4 DEF TasksTypeOK
<1>8. TxNotLost'
  BY <1>2, <1>5 DEF TxNotLost
<1>9. \A t \in Tasks : pc[t] # "send" => pc'[t] = pc[t]
  BY <1>2, <1>4
<1>10. RxServed'
  BY <1>1, <1>2, <1>9 DEF RxServed
<1>11. \A r \in Receivers : pc'[r] \in {"takeRx", "receive"} => pc[r] \in {"takeRx", "receive"}
  BY <1>1, <1>4
<1> QED BY <1>2, <1>6, <1>7, <1>8, <1>10, <1>11, QuietStep

\* A call of a receive function: the only receiver holds nothing then.
LEMMA ReceiveCallStep ==
  ASSUME use = "single", OneReceiver, ItemsInv, NEW r \in Receivers, MayReceive, xRingbufferReceive(r)
  PROVE  ItemsInv'
<1>1. /\ CallsOK /\ TasksTypeOK /\ TxNotLost /\ RxServed /\ arg \in [Senders -> Calls]
      /\ Senders \subseteq Tasks /\ Receivers \subseteq Tasks
      /\ tx \in BOOLEAN /\ rx \in BOOLEAN
  BY InvFacts
<1>2. pc[r] = "idle" /\ UNCHANGED <<tx, rx, rb, split, arg, acquired, held, order>>
  BY DEF xRingbufferReceive, CallReceive, appVars
<1>3. PICK l \in {"takeRx", "receive"} : Goto(r, l)
  BY DEF xRingbufferReceive, CallReceive
<1>4. /\ pc' \in [Tasks -> Labels] /\ pc'[r] = l
      /\ \A u \in Tasks : u # r => pc'[u] = pc[u]
  <2>1. l \in Labels
    BY DEF Labels
  <2> QED BY <2>1, <1>1, <1>3, Moved
<1>5. \A t \in Receivers : held[t] = {}
  BY DEF MayReceive
<1>6. CallsOK'
  <2>1. \A t \in Senders : Sending(t)' => Sending(t)
    BY <1>1, <1>4 DEF Sending
  <2> QED BY <2>1, <1>1, <1>2, CallsKept
<1>7. TasksTypeOK' /\ arg' \in [Senders -> Calls]
  BY <1>1, <1>2, <1>4 DEF TasksTypeOK
<1>8. \A t \in Tasks : pc[t] # "idle" => pc'[t] = pc[t]
  BY <1>2, <1>4
<1>9. TxNotLost' /\ RxServed'
  BY <1>1, <1>2, <1>8 DEF TxNotLost, RxServed
<1> QED BY <1>2, <1>5, <1>6, <1>7, <1>9, QuietStep

\* A receive that finds no item available: then no sent item is next.
LEMMA ReceiveRefusedStep ==
  ASSUME ItemsInv, NEW r \in Receivers, ReceiveRefused(r)
  PROVE  ItemsInv'
<1>1. /\ CallsOK /\ TasksTypeOK /\ TxNotLost /\ RxNotLost /\ arg \in [Senders -> Calls]
      /\ Senders \subseteq Tasks /\ Receivers \subseteq Tasks
      /\ tx \in BOOLEAN /\ rx \in BOOLEAN
  BY InvFacts
<1>2. /\ pc[r] = "receive" /\ ~prvCheckItemAvail(rb)
      /\ UNCHANGED <<tx, rx, rb, split, arg, acquired, held, order>>
  BY DEF ReceiveRefused, Refused, appVars
<1>3. PICK l \in {"takeRx", "idle"} : Goto(r, l)
  BY <1>2 DEF ReceiveRefused, Refused
<1>4. /\ pc' \in [Tasks -> Labels] /\ pc'[r] = l
      /\ \A u \in Tasks : u # r => pc'[u] = pc[u]
  <2>1. l \in Labels
    BY DEF Labels
  <2> QED BY <2>1, <1>1, <1>3, Moved
<1>5. CallsOK'
  <2>1. \A t \in Senders : Sending(t)' => Sending(t)
    BY <1>1, <1>4 DEF Sending
  <2> QED BY <2>1, <1>1, <1>2, CallsKept
<1>6. TasksTypeOK' /\ arg' \in [Senders -> Calls]
  BY <1>1, <1>2, <1>4 DEF TasksTypeOK
<1>7. \A t \in Tasks : pc[t] # "receive" => pc'[t] = pc[t]
  BY <1>2, <1>4
<1>8. TxNotLost'
  BY <1>1, <1>2, <1>7 DEF TxNotLost
<1>9. RxServed'
  BY <1>1, <1>2 DEF RxNotLost, RxServed
<1>10. \A t \in Receivers : pc'[t] \in {"takeRx", "receive"} => pc[t] \in {"takeRx", "receive"}
  BY <1>1, <1>2, <1>4
<1> QED BY <1>2, <1>5, <1>6, <1>8, <1>9, <1>10, QuietStep

\* Taking and giving the semaphores, and running out of time.
LEMMA SemaphoreSteps ==
  ASSUME ItemsInv, NEW t \in Tasks, Semaphores(t)
  PROVE  ItemsInv'
<1>1. /\ CallsOK /\ TasksTypeOK /\ TxNotLost /\ RxServed /\ arg \in [Senders -> Calls]
      /\ Senders \subseteq Tasks /\ Receivers \subseteq Tasks
      /\ tx \in BOOLEAN /\ rx \in BOOLEAN
  BY InvFacts
<1>2. UNCHANGED <<rb, split, arg, acquired, held, order>> /\ SemaphoreStep(t)
  BY DEF Semaphores, appVars
<1>3. \E l \in Labels :
        /\ Goto(t, l)
        /\ l = "send" => pc[t] = "takeTx"
        /\ l # "takeTx" /\ l # "takeRx"
        /\ l = "receive" => pc[t] = "takeRx"
        /\ tx' \in BOOLEAN /\ rx' \in BOOLEAN
        /\ \/ tx' \/ l = "send"
           \/ tx' = tx /\ pc[t] \notin {"send", "giveTx", "giveTxRx"}
        /\ \/ rx' \/ l \in {"receive", "giveRx"}
           \/ rx' = rx /\ pc[t] \notin {"receive", "giveRx", "giveTxRx"}
  <2>1. CASE TakeTx(t)
    BY <2>1, <1>1 DEF TakeTx, Labels
  <2>2. CASE TakeRx(t)
    BY <2>2, <1>1 DEF TakeRx, Labels
  <2>3. CASE TakeTimeout(t)
    BY <2>3, <1>1 DEF TakeTimeout, Labels
  <2>4. CASE GiveTx(t)
    BY <2>4, <1>1 DEF GiveTx, Labels
  <2>5. CASE GiveRx(t)
    BY <2>5, <1>1 DEF GiveRx, Labels
  <2> QED BY <2>1, <2>2, <2>3, <2>4, <2>5, <1>2 DEF SemaphoreStep
<1>4. PICK l \in Labels :
        /\ Goto(t, l)
        /\ l = "send" => pc[t] = "takeTx"
        /\ l # "takeTx" /\ l # "takeRx"
        /\ l = "receive" => pc[t] = "takeRx"
        /\ tx' \in BOOLEAN /\ rx' \in BOOLEAN
        /\ \/ tx' \/ l = "send"
           \/ tx' = tx /\ pc[t] \notin {"send", "giveTx", "giveTxRx"}
        /\ \/ rx' \/ l \in {"receive", "giveRx"}
           \/ rx' = rx /\ pc[t] \notin {"receive", "giveRx", "giveTxRx"}
  BY <1>3
<1>5. /\ pc' \in [Tasks -> Labels] /\ pc'[t] = l
      /\ \A u \in Tasks : u # t => pc'[u] = pc[u]
  BY <1>1, <1>4, Moved
<1>6. CallsOK'
  <2>1. \A u \in Senders : Sending(u)' => Sending(u)
    BY <1>1, <1>4, <1>5 DEF Sending
  <2> QED BY <2>1, <1>1, <1>2, CallsKept
<1>7. TasksTypeOK' /\ arg' \in [Senders -> Calls]
  BY <1>1, <1>2, <1>4, <1>5 DEF TasksTypeOK
<1>8. TxNotLost'
  <2>1. tx' \/ pc'[t] = "send" \/ (tx' = tx /\ pc[t] \notin {"send", "giveTx", "giveTxRx"})
    BY <1>4, <1>5
  <2> QED BY <2>1, <1>1, <1>2, <1>5 DEF TxNotLost
<1>9. RxServed'
  <2>1. \/ rx' \/ pc'[t] \in {"receive", "giveRx"}
        \/ rx' = rx /\ pc[t] \notin {"receive", "giveRx", "giveTxRx"}
    BY <1>4, <1>5
  <2> QED BY <2>1, <1>1, <1>2, <1>5 DEF RxServed
<1>10. \A u \in Receivers : pc'[u] \in {"takeRx", "receive"} => pc[u] \in {"takeRx", "receive"}
  BY <1>1, <1>4, <1>5
<1> QED BY <1>2, <1>6, <1>7, <1>8, <1>9, <1>10, QuietStep

\* The history consists of the items after the first m of the chain.
IsRest(ord, q, m) ==
  /\ DOMAIN ord = 1 .. Len(q) - m
  /\ \A i \in 1 .. Len(q) - m : ord[i] = q[m + i]

\* The history is what is left of the chain.
LEMMA OrderLen ==
  ASSUME NEW sp, NEW b, NEW hold, NEW ord, NEW q, NEW m, Shape(sp, b, hold, ord, q, m)
  PROVE  /\ Len(q) \in Nat /\ m \in 0..2 /\ m <= Len(q)
         /\ ord # << >> <=> m < Len(q)
         /\ IsRest(ord, q, m)
<1>1. Len(q) \in Nat /\ m \in 0..2 /\ m <= Len(q) /\ ord = [i \in 1 .. Len(q) - m |-> q[m + i]]
  BY DEF Shape, Chain, OrderIs
<1>2. DOMAIN ord = 1 .. Len(q) - m /\ IsRest(ord, q, m)
  BY <1>1 DEF IsRest
<1>3. CASE m < Len(q)
  <2>1. 1 \in 1 .. Len(q) - m
    BY <1>1, <1>3
  <2>2. 1 \in DOMAIN ord
    BY <2>1, <1>2
  <2>3. ord # << >>
    BY <2>2
  <2> QED BY <2>3, <1>1, <1>2, <1>3
<1>4. CASE ~(m < Len(q))
  <2>1. 1 .. Len(q) - m = {}
    BY <1>1, <1>4
  <2>2. ord = << >>
    BY <2>1, <1>1
  <2> QED BY <2>2, <1>1, <1>2, <1>4
<1> QED BY <1>3, <1>4

\* The history is a sequence of items.
LEMMA OrderSeq ==
  ASSUME NEW sp, NEW b, NEW hold, NEW ord, NEW q, NEW m, Shape(sp, b, hold, ord, q, m)
  PROVE  ord \in Seq(Items)
<1>1. /\ q \in Seq(Items) /\ Len(q) \in Nat /\ m \in 0..2 /\ m <= Len(q)
      /\ ord = [i \in 1 .. Len(q) - m |-> q[m + i]]
  BY DEF Shape, Chain, OrderIs
<1>2. Len(q) - m \in Nat /\ \A i \in 1 .. Len(q) - m : q[m + i] \in Items
  BY <1>1
<1> QED BY <1>1, <1>2

\* A send finds no acquired item.
LEMMA NoneAcquired ==
  ASSUME ItemsInv, NEW s \in Senders, Sending(s), NEW q, OwnerIs(acquired, q)
  PROVE  ~Open(q) /\ \A t \in Senders : acquired[t] = NoItem
<1>1. \A t \in Senders : acquired[t] = NoItem
  BY DEF ItemsInv, CallsOK
<1> QED BY <1>1 DEF OwnerIs

\* The critical section of xRingbufferSend.
LEMMA SendFitsStep ==
  ASSUME NotMaximal, ItemsInv, NEW s \in Senders, SendFits(s)
  PROVE  ItemsInv'
<1>1. /\ Types /\ CallsOK /\ TasksTypeOK /\ TxNotLost /\ RxServed /\ arg \in [Senders -> Calls]
      /\ Senders \subseteq Tasks /\ Receivers \subseteq Tasks
      /\ tx \in BOOLEAN /\ rx \in BOOLEAN /\ split \in BOOLEAN
  BY InvFacts
<1>2. PICK n : n = arg[s].len
  OBVIOUS
<1>3. /\ pc[s] = "send" /\ prvCheckItemFitsDefault(n)
      /\ arg' = [arg EXCEPT ![s] = NoCall]
      /\ UNCHANGED <<tx, rx, split, acquired, held>>
  BY <1>2 DEF SendFits
<1>4. SendResult(n, rb', order')
  BY <1>2 DEF SendFits, SendResult
<1>5. PICK l \in {"giveTxRx", "giveRx"} : Goto(s, l)
  BY DEF SendFits
<1>6. /\ pc' \in [Tasks -> Labels] /\ pc'[s] = l
      /\ \A u \in Tasks : u # s => pc'[u] = pc[u]
  <2>1. l \in Labels
    BY DEF Labels
  <2> QED BY <2>1, <1>1, <1>5, Moved
<1>7. PICK q \in Seq(Items), m \in 0..2 : Ring(q, m)
  BY DEF ItemsInv, RingInv
<1>8. Shape(split, rb, held, order, q, m) /\ OwnerIs(acquired, q) /\ Asking(pc, m)
  BY <1>7 DEF Ring
<1>9. Sending(s)
  BY <1>3 DEF Sending
<1>10. ~Open(q) /\ \A t \in Senders : acquired[t] = NoItem
  BY <1>8, <1>9, NoneAcquired
<1>11. n \in Nat /\ n \in Lens /\ n <= xMaxItemSize
  <2>1. n \in Lens /\ n <= xMaxItemSize
    BY <1>1, <1>2, <1>9 DEF CallsOK
  <2> QED BY <2>1, RingbufItemsAssumption
<1>12. split => n + 2 * HEADER < xSize
  <2> SUFFICES ASSUME split PROVE n + 2 * HEADER < xSize
    OBVIOUS
  <2>1. split = TRUE /\ split \in Splits
    BY <1>1 DEF Types
  <2>2. xSize - 2 * HEADER \notin Lens
    BY <2>1 DEF NotMaximal
  <2>3. n <= xSize - 2 * HEADER
    BY <1>11 DEF xMaxItemSize
  <2>4. n # xSize - 2 * HEADER
    BY <2>2, <1>11
  <2> QED BY <2>3, <2>4, <1>11, Sizes
<1>13. PICK q2 \in Seq(Items) :
         /\ Shape(split, rb', held, order', q2, m) /\ ~Open(q2) /\ rb' \in Buffers
         /\ Len(q2) > Len(q)
  BY <1>1, <1>3, <1>4, <1>8, <1>10, <1>11, <1>12, SendShape
<1>14. OwnerIs(acquired', q2)
  BY <1>3, <1>10, <1>13 DEF OwnerIs
<1>15. Asking(pc', m)
  <2>1. \A r \in Receivers : pc'[r] \in {"takeRx", "receive"} => pc[r] \in {"takeRx", "receive"}
    BY <1>1, <1>6
  <2> QED BY <2>1, <1>8 DEF Asking
<1>16. NoCall \in Calls /\ ~NoCall.acquire
  BY DEF NoCall, Calls
<1>17. Types'
  BY <1>1, <1>3, <1>6, <1>13, <1>16 DEF Types, TasksTypeOK
<1>18. CallsOK'
  <2>1. \A t \in Senders : arg'[t] = IF t = s THEN NoCall ELSE arg[t]
    BY <1>1, <1>3
  <2>2. \A t \in Senders : Sending(t)' => Sending(t) /\ t # s
    BY <1>1, <1>6 DEF Sending
  <2> QED BY <2>1, <2>2, <1>1, <1>3, <1>16, CallsKept
<1>19. order' # << >>
  <2>1. Len(q) \in Nat /\ m <= Len(q)
    BY <1>8, OrderLen
  <2>2. Len(q2) \in Nat
    BY <1>13, OrderLen
  <2>3. m < Len(q2)
    BY <2>1, <2>2, <1>13
  <2> QED BY <2>3, <1>13, OrderLen
<1>20. TxNotLost'
  BY <1>19 DEF TxNotLost
<1>21. RxServed'
  <2>1. s \in Tasks /\ pc'[s] \in {"receive", "giveRx", "giveTxRx"}
    BY <1>1, <1>6
  <2> QED BY <2>1 DEF RxServed
<1>22. Shape(split', rb', held', order', q2, m)
  BY <1>3, <1>13
<1> QED BY <1>14, <1>15, <1>17, <1>18, <1>20, <1>21, <1>22, StepInv

\* The critical section of xRingbufferSendAcquire.
LEMMA AcquireFitsStep ==
  ASSUME ItemsInv, NEW s \in Senders, AcquireFits(s)
  PROVE  ItemsInv'
<1>1. /\ Types /\ CallsOK /\ TasksTypeOK /\ TxNotLost /\ RxServed /\ arg \in [Senders -> Calls]
      /\ Senders \subseteq Tasks /\ Receivers \subseteq Tasks
      /\ tx \in BOOLEAN /\ rx \in BOOLEAN /\ split \in BOOLEAN
      /\ acquired \in [Senders -> Index \cup {NoItem}]
  BY InvFacts DEF Types
<1>2. PICK n, at : n = arg[s].len /\ at = ItemAddress(rb, n)
  OBVIOUS
<1>3. /\ pc[s] = "send" /\ arg[s].acquire /\ prvCheckItemFitsDefault(n)
      /\ rb' = prvAcquireItemNoSplit(rb, n)
      /\ acquired' = [acquired EXCEPT ![s] = at]
      /\ order' = Append(order, Entry(at, n, FALSE))
      /\ arg' = [arg EXCEPT ![s] = NoCall]
      /\ UNCHANGED <<tx, rx, split, held>>
  BY <1>2 DEF AcquireFits
<1>4. PICK l \in {"giveTx", "idle"} : Goto(s, l)
  BY DEF AcquireFits
<1>5. /\ pc' \in [Tasks -> Labels] /\ pc'[s] = l
      /\ \A u \in Tasks : u # s => pc'[u] = pc[u]
  <2>1. l \in Labels
    BY DEF Labels
  <2> QED BY <2>1, <1>1, <1>4, Moved
<1>6. PICK q \in Seq(Items), m \in 0..2 : Ring(q, m)
  BY DEF ItemsInv, RingInv
<1>7. Shape(split, rb, held, order, q, m) /\ OwnerIs(acquired, q) /\ Asking(pc, m)
  BY <1>6 DEF Ring
<1>8. Sending(s)
  BY <1>3 DEF Sending
<1>9. ~Open(q) /\ \A t \in Senders : acquired[t] = NoItem
  BY <1>7, <1>8, NoneAcquired
<1>10. n \in Nat /\ n <= xMaxItemSize /\ ~split
  <2>1. n \in Lens /\ n <= xMaxItemSize /\ ~split
    BY <1>1, <1>2, <1>3, <1>8 DEF CallsOK
  <2> QED BY <2>1, RingbufItemsAssumption
<1>11. /\ rb' \in Buffers /\ at \in Index
       /\ \E q2 \in Seq(Items) :
            /\ Shape(split, rb', held, order', q2, m)
            /\ Open(q2) /\ q2[Len(q2)].at = at /\ Len(q2) > Len(q)
  <2>1. Types /\ prvCheckItemFitsDefault(n) /\ Shape(split, rb, held, order, q, m)
    BY <1>1, <1>3, <1>7
  <2>2. AcquireResult(n, rb', at, order')
    BY <1>2, <1>3 DEF AcquireResult
  <2> QED BY <2>1, <2>2, <1>9, <1>10, AcquireShape
<1>12. PICK q2 \in Seq(Items) :
         /\ Shape(split', rb', held', order', q2, m)
         /\ Open(q2) /\ q2[Len(q2)].at = at /\ Len(q2) > Len(q)
  BY <1>3, <1>11
<1>13. at # NoItem /\ acquired'[s] = at /\ \A t \in Senders : t # s => acquired'[t] = NoItem
  <2>1. at # NoItem
    BY <1>11 DEF NoItem, Index
  <2> QED BY <2>1, <1>1, <1>3, <1>9
<1>14. OwnerIs(acquired', q2)
  BY <1>12, <1>13 DEF OwnerIs
<1>15. Asking(pc', m)
  <2>1. \A r \in Receivers : pc'[r] \in {"takeRx", "receive"} => pc[r] \in {"takeRx", "receive"}
    BY <1>1, <1>5
  <2> QED BY <2>1, <1>7 DEF Asking
<1>16. NoCall \in Calls /\ ~NoCall.acquire
  BY DEF NoCall, Calls
<1>17. Types'
  <2>1. acquired' \in [Senders -> Index \cup {NoItem}]
    BY <1>1, <1>3, <1>11
  <2> QED BY <2>1, <1>1, <1>3, <1>5, <1>11, <1>16 DEF Types, TasksTypeOK
<1>18. CallsOK'
  <2>1. \A t \in Senders : arg'[t] = IF t = s THEN NoCall ELSE arg[t]
    BY <1>1, <1>3
  <2>2. ASSUME NEW t \in Senders PROVE ~Sending(t)'
    <3>1. CASE t = s
      BY <3>1, <1>1, <1>5 DEF Sending
    <3>2. CASE t # s
      <4>1. ~Sending(t)
        BY <3>2, <1>1, <1>3, <1>8 DEF CallsOK
      <4> QED BY <3>2, <4>1, <1>1, <1>5 DEF Sending
    <3> QED BY <3>1, <3>2
  <2>3. \A t \in Senders : arg'[t].acquire => ~split'
    BY <1>3, <1>10
  <2> QED BY <2>2, <2>3, <1>13 DEF CallsOK
<1>19. order' # << >>
  <2>1. Len(q) \in Nat /\ m <= Len(q)
    BY <1>7, OrderLen
  <2>2. Len(q2) \in Nat
    BY <1>12, OrderLen
  <2>3. m < Len(q2)
    BY <2>1, <2>2, <1>12
  <2> QED BY <2>3, <1>12, OrderLen
<1>20. TxNotLost'
  BY <1>19 DEF TxNotLost
<1>21. RxServed'
  <2> SUFFICES ASSUME order'[1].sent
               PROVE  rx' \/ \E t \in Tasks : pc'[t] \in {"receive", "giveRx", "giveTxRx"}
      BY DEF RxServed
  <2>1. order \in Seq(Items)
    BY <1>7, OrderSeq
  <2>2. order # << >>
    <3> SUFFICES ASSUME order = << >> PROVE FALSE
      OBVIOUS
    <3>1. order'[1] = Entry(at, n, FALSE)
      BY <1>3
    <3> QED BY <3>1 DEF Entry
  <2>3. order'[1] = order[1]
    <3>1. PICK e : e = Entry(at, n, FALSE)
      OBVIOUS
    <3>2. order' = Append(order, e)
      BY <3>1, <1>3
    <3>3. 1 \in 1..Len(order)
      BY <2>1, <2>2
    <3> QED BY <3>2, <3>3, <2>1
  <2>4. rx \/ \E t \in Tasks : pc[t] \in {"receive", "giveRx", "giveTxRx"}
    BY <2>2, <2>3, <1>1 DEF RxServed
  <2> QED BY <2>4, <1>3, <1>5
<1> QED BY <1>12, <1>14, <1>15, <1>17, <1>18, <1>20, <1>21, StepInv

\* xRingbufferSendComplete of the acquired item, which is the last one.
LEMMA CompleteStep ==
  ASSUME ItemsInv, NEW s \in Senders, xRingbufferSendComplete(s)
  PROVE  ItemsInv'
<1>1. /\ Types /\ CallsOK /\ TasksTypeOK /\ TxNotLost /\ RxServed /\ arg \in [Senders -> Calls]
      /\ Senders \subseteq Tasks /\ Receivers \subseteq Tasks
      /\ tx \in BOOLEAN /\ rx \in BOOLEAN
      /\ acquired \in [Senders -> Index \cup {NoItem}]
  BY InvFacts DEF Types
<1>2. /\ pc[s] = "idle" /\ acquired[s] # NoItem
      /\ rb' = prvSendItemDoneNoSplit(rb, acquired[s])
      /\ order' = [i \in DOMAIN order |-> IF order[i].at = acquired[s] /\ ~order[i].sent
                                          THEN [order[i] EXCEPT !.sent = TRUE] ELSE order[i]]
      /\ acquired' = [acquired EXCEPT ![s] = NoItem]
      /\ Goto(s, "giveRx")
      /\ UNCHANGED <<tx, rx, split, arg, held>>
  BY DEF xRingbufferSendComplete
<1>3. /\ pc' \in [Tasks -> Labels] /\ pc'[s] = "giveRx"
      /\ \A u \in Tasks : u # s => pc'[u] = pc[u]
  <2>1. PICK l \in Labels : l = "giveRx"
    BY DEF Labels
  <2> QED BY <2>1, <1>1, <1>2, Moved
<1>4. PICK q \in Seq(Items), m \in 0..2 : Ring(q, m)
  BY DEF ItemsInv, RingInv
<1>5. Shape(split, rb, held, order, q, m) /\ OwnerIs(acquired, q) /\ Asking(pc, m)
  BY <1>4 DEF Ring
<1>6. PICK at : at = acquired[s]
  OBVIOUS
<1>7. Open(q) /\ at = q[Len(q)].at
  BY <1>2, <1>5, <1>6 DEF OwnerIs
<1>8. /\ rb' \in Buffers
      /\ \E q2 \in Seq(Items) : Shape(split, rb', held, order', q2, m) /\ ~Open(q2) /\ Len(q2) = Len(q) /\ m < Len(q)
  <2>1. /\ Types /\ Shape(split, rb, held, order, q, m) /\ rb' = prvSendItemDoneNoSplit(rb, at)
        /\ order' = [i \in DOMAIN order |-> IF order[i].at = at /\ ~order[i].sent
                                            THEN [order[i] EXCEPT !.sent = TRUE] ELSE order[i]]
    BY <1>1, <1>2, <1>5, <1>6
  <2> QED BY <2>1, <1>7, CompleteShape
<1>9. PICK q2 \in Seq(Items) :
        Shape(split', rb', held', order', q2, m) /\ ~Open(q2) /\ Len(q2) = Len(q) /\ m < Len(q)
  BY <1>2, <1>8
<1>10. \A t \in Senders : acquired'[t] = NoItem
  <2>1. \A t \in Senders : t # s => acquired[t] = NoItem
    BY <1>1, <1>2 DEF CallsOK
  <2> QED BY <2>1, <1>1, <1>2
<1>11. OwnerIs(acquired', q2)
  BY <1>9, <1>10 DEF OwnerIs
<1>12. Asking(pc', m)
  <2>1. \A r \in Receivers : pc'[r] \in {"takeRx", "receive"} => pc[r] \in {"takeRx", "receive"}
    BY <1>1, <1>3
  <2> QED BY <2>1, <1>5 DEF Asking
<1>13. Types'
  <2>1. acquired' \in [Senders -> Index \cup {NoItem}]
    BY <1>1, <1>2
  <2> QED BY <2>1, <1>1, <1>2, <1>3, <1>8 DEF Types, TasksTypeOK
<1>14. CallsOK'
  <2>1. \A t \in Senders : Sending(t)' => Sending(t)
    BY <1>1, <1>3 DEF Sending
  <2> QED BY <2>1, <1>1, <1>2, <1>10, CallsKept
<1>15. order' # << >>
  <2>1. m < Len(q2)
    BY <1>9
  <2> QED BY <2>1, <1>9, OrderLen
<1>16. TxNotLost'
  BY <1>15 DEF TxNotLost
<1>17. RxServed'
  <2>1. s \in Tasks /\ pc'[s] \in {"receive", "giveRx", "giveTxRx"}
    BY <1>1, <1>3
  <2> QED BY <2>1 DEF RxServed
<1> QED BY <1>9, <1>11, <1>12, <1>13, <1>14, <1>16, <1>17, StepInv

\* Retrieving takes at least one item, which is the first of the history.
LEMMA ReceiveRing ==
  ASSUME OneReceiver, ItemsInv, NEW r \in Receivers, NEW both \in BOOLEAN, ReceiveGets(r, both)
  PROVE  /\ rb' \in Buffers
         /\ \E q \in Seq(Items), m \in 1..2 :
              /\ Shape(split, rb, held, order, q, 0) /\ Ring(q, 0)
              /\ Shape(split', rb', held', order', q, m)
<1>1. Types /\ split \in BOOLEAN
  BY InvFacts
<1>2. /\ pc[r] = "receive" /\ prvCheckItemAvail(rb) /\ UNCHANGED split
  BY DEF ReceiveGets
<1>3. ReceiveResult(r, both, rb', held', order')
  BY DEF ReceiveGets, ReceiveResult
<1>4. PICK q \in Seq(Items), m \in 0..2 : Ring(q, m)
  BY DEF ItemsInv, RingInv
<1>5. m = 0
  BY <1>2, <1>4 DEF Ring, Asking
<1>6. Ring(q, 0) /\ Shape(split, rb, held, order, q, 0)
  BY <1>4, <1>5 DEF Ring
<1>7. rb' \in Buffers /\ \E k \in 1..2 : Shape(split, rb', held', order', q, k)
  BY <1>1, <1>2, <1>3, <1>6, ReceiveShape
<1>8. rb' \in Buffers /\ \E k \in 1..2 : Shape(split', rb', held', order', q, k)
  BY <1>2, <1>7
<1> QED BY <1>6, <1>8

\* The items held are records of offset and size.
LEMMA HeldType ==
  ASSUME NEW sp, NEW b, NEW hold, NEW ord, NEW q, NEW m, Shape(sp, b, hold, ord, q, m)
  PROVE  \A r \in Receivers : hold[r] \in SUBSET [at : Nat, len : Nat]
<1>1. q \in Seq(Items) /\ HeldIs(hold, b.mem, q, m) /\ m \in 0..2 /\ m <= Len(q) /\ Len(q) \in Nat
  BY DEF Shape, Chain
<1>2. ASSUME NEW i \in 1..m
      PROVE  [at |-> q[i].at, len |-> q[i].len] \in [at : Nat, len : Nat]
  <2>1. i \in 1..Len(q)
    BY <1>1
  <2>2. q[i] \in Items
    BY <2>1, <1>1
  <2> QED BY <2>2 DEF Items
<1>3. Lent(b.mem, q, m) \in SUBSET [at : Nat, len : Nat]
  BY <1>2 DEF Lent
<1> QED BY <1>1, <1>3 DEF HeldIs

\* The critical section of prvReceiveGeneric.
LEMMA ReceiveGetsStep ==
  ASSUME OneReceiver, ItemsInv, NEW r \in Receivers, NEW both \in BOOLEAN, ReceiveGets(r, both)
  PROVE  ItemsInv'
<1>1. /\ Types /\ CallsOK /\ TasksTypeOK /\ arg \in [Senders -> Calls]
      /\ Senders \subseteq Tasks /\ Receivers \subseteq Tasks
      /\ tx \in BOOLEAN /\ rx \in BOOLEAN
  BY InvFacts
<1>2. pc[r] = "receive" /\ UNCHANGED <<tx, rx, split, arg, acquired>>
  BY DEF ReceiveGets
<1>3. /\ rb' \in Buffers
      /\ \E q \in Seq(Items), m \in 1..2 :
           /\ Shape(split, rb, held, order, q, 0) /\ Ring(q, 0)
           /\ Shape(split', rb', held', order', q, m)
  BY ReceiveRing
<1>4. PICK q \in Seq(Items), m \in 1..2 : Ring(q, 0) /\ Shape(split', rb', held', order', q, m)
  BY <1>3
<1>5. PICK l \in {"giveRx", "idle"} : Goto(r, l) /\ (rb'.xItemsWaiting > 0 => l = "giveRx")
  BY DEF ReceiveGets
<1>6. /\ pc' \in [Tasks -> Labels] /\ pc'[r] = l
      /\ \A u \in Tasks : u # r => pc'[u] = pc[u]
  <2>1. l \in Labels
    BY DEF Labels
  <2> QED BY <2>1, <1>1, <1>5, Moved
<1>7. OwnerIs(acquired', q)
  BY <1>2, <1>4 DEF Ring
<1>8. Asking(pc', m)
  BY <1>6 DEF Asking, OneReceiver
<1>9. Types'
  <2>1. held' \in [Receivers -> SUBSET [at : Nat, len : Nat]]
    <3>1. DOMAIN held' = Receivers /\ held' = [t \in Receivers |-> held'[t]]
      BY <1>1 DEF Types, ReceiveGets
    <3>2. \A t \in Receivers : held'[t] \in SUBSET [at : Nat, len : Nat]
      BY <1>4, HeldType
    <3> QED BY <3>1, <3>2
  <2> QED BY <2>1, <1>1, <1>2, <1>3, <1>6 DEF Types, TasksTypeOK
<1>10. CallsOK'
  <2>1. \A t \in Senders : Sending(t)' => Sending(t)
    BY <1>1, <1>6 DEF Sending
  <2> QED BY <2>1, <1>1, <1>2, CallsKept
<1>11. TxNotLost'
  <2>1. m # 0
    OBVIOUS
  <2>2. \E t \in Receivers : held'[t] # {}
    BY <2>1, <1>4, HeldNone
  <2> QED BY <2>2 DEF TxNotLost
<1>12. RxServed'
  <2> SUFFICES ASSUME order' # << >>, order'[1].sent
               PROVE  \E t \in Tasks : pc'[t] \in {"receive", "giveRx", "giveTxRx"}
      BY DEF RxServed
  <2>1. prvCheckItemAvail(rb')
    BY <1>3, <1>4, ShapeAvail
  <2>2. pc'[r] = "giveRx"
    BY <2>1, <1>5, <1>6 DEF prvCheckItemAvail
  <2> QED BY <2>2, <1>1
<1>13. m \in 0..2
  OBVIOUS
<1> QED BY <1>4, <1>7, <1>8, <1>9, <1>10, <1>11, <1>12, <1>13, StepInv

\* vRingbufferReturnItem of a retrieved item.
LEMMA ReturnStep ==
  ASSUME OneReceiver, ItemsInv, NEW r \in Receivers, NEW item \in held[r],
         vRingbufferReturnItem(r, item)
  PROVE  ItemsInv'
<1>1. /\ Types /\ CallsOK /\ TasksTypeOK /\ RxServed /\ arg \in [Senders -> Calls]
      /\ Senders \subseteq Tasks /\ Receivers \subseteq Tasks
      /\ tx \in BOOLEAN /\ rx \in BOOLEAN
      /\ held \in [Receivers -> SUBSET [at : Nat, len : Nat]]
  BY InvFacts DEF Types
<1>2. /\ pc[r] = "idle" /\ rb' = prvReturnItemDefault(rb, item.at)
      /\ held' = [held EXCEPT ![r] = @ \ {item}] /\ Goto(r, "giveTx")
      /\ UNCHANGED <<tx, rx, split, arg, acquired, order>>
  BY DEF vRingbufferReturnItem
<1>3. PICK q \in Seq(Items), m \in 0..2 : Ring(q, m)
  BY DEF ItemsInv, RingInv
<1>4. Shape(split, rb, held, order, q, m) /\ OwnerIs(acquired, q)
  BY <1>3 DEF Ring
<1>5. /\ rb' \in Buffers
      /\ \E q2 \in Seq(Items), k \in 0..2 : Shape(split, rb', held', order, q2, k) /\ SameOpen(q, q2)
  BY <1>1, <1>2, <1>4, ReturnShape
<1>6. PICK q2 \in Seq(Items), k \in 0..2 : Shape(split', rb', held', order', q2, k) /\ SameOpen(q, q2)
  BY <1>2, <1>5
<1>7. /\ pc' \in [Tasks -> Labels] /\ pc'[r] = "giveTx"
      /\ \A u \in Tasks : u # r => pc'[u] = pc[u]
  <2>1. PICK l \in Labels : l = "giveTx"
    BY DEF Labels
  <2> QED BY <2>1, <1>1, <1>2, Moved
<1>8. OwnerIs(acquired', q2)
  BY <1>2, <1>4, <1>6 DEF OwnerIs, SameOpen
<1>9. Asking(pc', k)
  BY <1>7 DEF Asking, OneReceiver
<1>10. Types'
  <2>1. held' \in [Receivers -> SUBSET [at : Nat, len : Nat]]
    BY <1>1, <1>2
  <2> QED BY <2>1, <1>1, <1>2, <1>5, <1>7 DEF Types, TasksTypeOK
<1>11. CallsOK'
  <2>1. \A t \in Senders : Sending(t)' => Sending(t)
    BY <1>1, <1>7 DEF Sending
  <2> QED BY <2>1, <1>1, <1>2, CallsKept
<1>12. TxNotLost'
  BY <1>1, <1>7 DEF TxNotLost
<1>13. RxServed'
  <2>1. \A t \in Tasks : pc[t] # "idle" => pc'[t] = pc[t]
    BY <1>2, <1>7
  <2> QED BY <2>1, <1>1, <1>2 DEF RxServed
<1> QED BY <1>6, <1>8, <1>9, <1>10, <1>11, <1>12, <1>13, StepInv

-----------------------------------------------------------------------------
(* The inductive invariant holds. *)

\* A new ring buffer is an empty chain.
LEMMA InitInv ==
  ASSUME Init
  PROVE  ItemsInv
<1> USE Sizes
<1>1. Data \in Headers /\ 0 \in Room
  BY HeaderTypes DEF Room
<1>2. rb \in Buffers
  <2>1. [i \in Index |-> Data] \in [Index -> Headers]
    BY <1>1
  <2> QED BY <1>1, <2>1 DEF Init, Buffers
<1>3. NoCall \in Calls /\ ~NoCall.acquire
  BY DEF NoCall, Calls
<1>4. Types
  BY <1>2, <1>3 DEF Init, TasksInit, Types, TasksTypeOK, Labels
<1>5. CallsOK
  <2>1. \A s \in Senders : ~Sending(s) /\ arg[s] = NoCall /\ acquired[s] = NoItem
    BY DEF Init, TasksInit, Sending, Tasks
  <2> QED BY <2>1, <1>3 DEF CallsOK
<1>6. PICK q, m : q = << >> /\ m = 0
  OBVIOUS
<1>6a. q \in Seq(Items) /\ m \in 0..2
  BY <1>6
<1>7. /\ rb.pucAcquire = 0 /\ rb.pucWrite = 0 /\ rb.pucRead = 0 /\ rb.pucFree = 0
      /\ rb.full = FALSE /\ rb.xItemsWaiting = 0
  BY DEF Init
<1>8. Len(q) = 0 /\ ~Open(q) /\ 1..Len(q) = {}
  BY <1>6 DEF Open
<1>9. Ptr(0, q, 1) = 0
  BY DEF Ptr
<1>10. Chain(rb.mem, rb.pucAcquire, rb.pucFree, rb.full, q)
  <2>1. rb.mem \in [Index -> Headers]
    BY <1>2 DEF Buffers
  <2>2. Ptr(0, q, Len(q) + 1) = 0
    BY <1>8 DEF Ptr
  <2>3. /\ \A i \in 1..Len(q) : FALSE
        /\ \A i, j \in 1..Len(q) : FALSE
    BY <1>8
  <2>4. Chain(rb.mem, 0, 0, FALSE, q)
    BY <2>1, <2>2, <2>3, <1>1, <1>6a DEF Chain
  <2> QED BY <2>4, <1>7
<1>11. Pointers(rb, q, m)
  BY <1>6, <1>7, <1>8, <1>9 DEF Pointers
<1>12. Sent(split, q, m) /\ Flags(split, rb.mem, q, m)
  BY <1>6, <1>8 DEF Sent, Flags
<1>13. HeldIs(held, rb.mem, q, m)
  BY <1>6, LentNone DEF HeldIs, Init
<1>14. OrderIs(order, q, m)
  <2>1. 1 .. Len(q) - m = {}
    BY <1>6, <1>8
  <2>2. [i \in 1 .. Len(q) - m |-> q[m + i]] = << >>
    BY <2>1
  <2> QED BY <2>2 DEF OrderIs, Init
<1>15. Shape(split, rb, held, order, q, m)
  BY <1>6, <1>6a, <1>8, <1>10, <1>11, <1>12, <1>13, <1>14 DEF Shape
<1>16. OwnerIs(acquired, q) /\ Asking(pc, m)
  BY <1>6, <1>8 DEF OwnerIs, Asking, Init
<1>17. RingInv
  BY <1>6a, <1>15, <1>16 DEF RingInv, Ring
<1>18. SemaphoresKept
  BY DEF SemaphoresKept, TxNotLost, RxNotLost, Init, TasksInit
<1> QED BY <1>4, <1>5, <1>17, <1>18 DEF ItemsInv

\* Every step keeps the invariant.
LEMMA NextInv ==
  ASSUME OneReceiver, use = "single", NotMaximal, ItemsInv, [Next]_vars
  PROVE  ItemsInv'
<1>1. ASSUME NEW s \in Senders, NEW n \in Lens, NEW acquire \in BOOLEAN,
             MaySend(s, n, acquire), xRingbufferSend(s, n, acquire)
      PROVE  ItemsInv'
  BY <1>1, SendStep
<1>2. ASSUME NEW s \in Senders,
             SendFits(s) \/ AcquireFits(s) \/ SendRefused(s) \/ xRingbufferSendComplete(s)
      PROVE  ItemsInv'
  BY <1>2, SendFitsStep, AcquireFitsStep, SendRefusedStep, CompleteStep
<1>3. ASSUME NEW r \in Receivers, MayReceive, xRingbufferReceive(r)
      PROVE  ItemsInv'
  BY <1>3, ReceiveCallStep
<1>4. ASSUME NEW r \in Receivers, NEW both \in BOOLEAN, ReceiveGets(r, both)
      PROVE  ItemsInv'
  BY <1>4, ReceiveGetsStep
<1>5. ASSUME NEW r \in Receivers, ReceiveRefused(r)
      PROVE  ItemsInv'
  BY <1>5, ReceiveRefusedStep
<1>6. ASSUME NEW r \in Receivers, NEW item \in held[r], vRingbufferReturnItem(r, item)
      PROVE  ItemsInv'
  BY <1>6, ReturnStep
<1>7. ASSUME NEW t \in Tasks, Semaphores(t)
      PROVE  ItemsInv'
  BY <1>7, SemaphoreSteps
<1>8. CASE UNCHANGED vars
  <2>1. UNCHANGED <<pc, tx, rx, split, rb, arg, acquired, held, order>>
    BY <1>8 DEF vars
  <2>2. /\ CallsOK /\ TasksTypeOK /\ TxNotLost /\ RxServed /\ arg \in [Senders -> Calls]
    BY InvFacts
  <2>3. CallsOK'
    <3>1. \A t \in Senders : Sending(t)' => Sending(t)
      BY <2>1 DEF Sending
    <3> QED BY <3>1, <2>1, <2>2, CallsKept
  <2>4. TasksTypeOK' /\ TxNotLost' /\ RxServed' /\ arg' \in [Senders -> Calls]
    BY <2>1, <2>2 DEF TasksTypeOK, TxNotLost, RxServed
  <2> QED BY <2>1, <2>3, <2>4, QuietStep
<1> QED BY <1>1, <1>2, <1>3, <1>4, <1>5, <1>6, <1>7, <1>8 DEF Next, Step

\* The buffer, the items and the history are one chain of items, in every
\* reachable state.
THEOREM ItemsAlwaysChained ==
  ASSUME OneReceiver, OneAtATime, NotMaximal
  PROVE  Spec => []ItemsInv
<1>1. Init => ItemsInv /\ use = "single"
  <2>1. Init => use \in Uses
    BY DEF Init
  <2> QED BY <2>1, InitInv DEF OneAtATime
<1>2. (ItemsInv /\ use = "single") /\ [Next]_vars => (ItemsInv /\ use = "single")'
  <2>1. [Next]_vars => use' = use
    BY DEF Next, vars
  <2> QED BY <2>1, NextInv
<1> QED BY <1>1, <1>2, PTL DEF Spec

-----------------------------------------------------------------------------
(* What the invariant says of the properties. *)

\* Two items whose ranges around the ring are apart share no word.
LEMMA RegionsApart ==
  ASSUME NEW f \in Room, NEW x \in Room, NEW y \in Room, NEW k \in Nat, NEW l \in Nat,
         x + HEADER + k <= xSize, y + HEADER + l <= xSize,
         Dist(f, x) + HEADER + k <= Dist(f, y), Dist(f, y) + HEADER + l <= xSize
  PROVE  \A i \in Int : ~(x <= i /\ i <= x + HEADER + k - 1 /\ y <= i /\ i <= y + HEADER + l - 1)
  BY Sizes DEF Dist, Room

\* The words of a record with offset and size.
Words(x, k) == x .. x + HEADER + k - 1

\* Two items of a chain share no word, and each lies in the storage area.
LEMMA ChainExclusive ==
  ASSUME NEW mem, NEW a, NEW f, NEW full, NEW q, Chain(mem, a, f, full, q)
  PROVE  /\ \A i \in 1..Len(q) : Words(q[i].at, q[i].len) \subseteq Index
         /\ \A i, j \in 1..Len(q) :
              i # j => Words(q[i].at, q[i].len) \cap Words(q[j].at, q[j].len) = {}
<1>1. /\ f \in Room /\ a \in Room /\ Len(q) \in Nat
      /\ \A i \in 1..Len(q) : q[i].at \in Room /\ q[i].len \in Nat
  <2>1. f \in Room /\ a \in Room /\ Len(q) \in Nat
    BY DEF Chain
  <2>2. \A i \in 1..Len(q) : q[i] \in Items /\ q[i].at \in Room
    BY ChainPointers
  <2> QED BY <2>1, <2>2 DEF Items
<1>2. ASSUME NEW i \in 1..Len(q)
      PROVE  /\ q[i].at + HEADER + q[i].len <= xSize
             /\ Dist(f, q[i].at) + HEADER + q[i].len <= xSize
  <2>1. PICK x \in Room, k \in Nat : x = q[i].at /\ k = q[i].len
    BY <1>1
  <2>2. PICK u \in Nat : u = Used(a, f, full) /\ u <= xSize
    BY <1>1, UsedNat
  <2>3. PICK d \in Nat : d = Dist(f, x)
    BY <1>1, DistNat
  <2>4. x + HEADER + k <= xSize /\ d + HEADER + k <= u
    BY <2>1, <2>2, <2>3 DEF Chain, Placed
  <2>5. d + HEADER + k <= xSize
    BY <2>2, <2>4, Sizes
  <2> QED BY <2>1, <2>3, <2>4, <2>5
<1>3. ASSUME NEW i \in 1..Len(q)
      PROVE  Words(q[i].at, q[i].len) \subseteq Index
  <2>1. PICK x \in Room, k \in Nat : x = q[i].at /\ k = q[i].len
    BY <1>1
  <2>2. x + HEADER + k <= xSize
    BY <1>2, <2>1
  <2>3. Words(x, k) \subseteq Index
    BY <2>2, Sizes DEF Words, Index, Room
  <2> QED BY <2>1, <2>3
<1>4. ASSUME NEW i \in 1..Len(q), NEW j \in 1..Len(q), i < j
      PROVE  Words(q[i].at, q[i].len) \cap Words(q[j].at, q[j].len) = {}
  <2>1. PICK x \in Room, k \in Nat, y \in Room, l \in Nat :
          x = q[i].at /\ k = q[i].len /\ y = q[j].at /\ l = q[j].len
    BY <1>1
  <2>2. x + HEADER + k <= xSize /\ y + HEADER + l <= xSize /\ Dist(f, y) + HEADER + l <= xSize
    BY <1>2, <2>1
  <2>3. Dist(f, x) + HEADER + k <= Dist(f, y)
    BY <1>4, <2>1 DEF Chain, Before
  <2>4. \A w \in Int : ~(x <= w /\ w <= x + HEADER + k - 1 /\ y <= w /\ w <= y + HEADER + l - 1)
    BY <1>1, <2>2, <2>3, RegionsApart
  <2>5. Words(x, k) \cap Words(y, l) = {}
    BY <2>4, Sizes DEF Words, Room
  <2> QED BY <2>1, <2>5
<1>5. ASSUME NEW i \in 1..Len(q), NEW j \in 1..Len(q), i # j
      PROVE  Words(q[i].at, q[i].len) \cap Words(q[j].at, q[j].len) = {}
  <2>1. i < j \/ j < i
    BY <1>1, <1>5
  <2> QED BY <1>4, <2>1
<1> QED BY <1>3, <1>5

\* The items held and the history are items of the chain, each in its place.
LEMMA InvExclusive ==
  ASSUME OneReceiver, ItemsInv
  PROVE  MemoryExclusive
<1>1. PICK q \in Seq(Items), m \in 0..2 : Ring(q, m)
  BY DEF ItemsInv, RingInv
<1>2. Shape(split, rb, held, order, q, m)
  BY <1>1 DEF Ring
<1>3. /\ \A i \in 1..Len(q) : Words(q[i].at, q[i].len) \subseteq Index
      /\ \A i, j \in 1..Len(q) :
           i # j => Words(q[i].at, q[i].len) \cap Words(q[j].at, q[j].len) = {}
  BY <1>2, ChainExclusive DEF Shape
<1>4. /\ Len(q) \in Nat /\ m <= Len(q) /\ DOMAIN order = 1 .. Len(q) - m
      /\ \A i \in 1 .. Len(q) - m : order[i] = q[m + i]
  <2>1. Len(q) \in Nat /\ m <= Len(q) /\ IsRest(order, q, m)
    BY <1>2, OrderLen
  <2> QED BY <2>1 DEF IsRest
<1>5. ASSUME NEW i \in DOMAIN order
      PROVE  m + i \in 1..Len(q) /\ m + i > m /\ Region(order[i]) = Words(q[m + i].at, q[m + i].len)
  <2>1. i \in 1 .. Len(q) - m /\ m + i \in 1..Len(q) /\ m + i > m
    BY <1>4
  <2> QED BY <2>1, <1>4 DEF Region, Words
<1>6. ASSUME NEW r \in Receivers, NEW x \in held[r]
      PROVE  \E i \in 1..Len(q) : i <= m /\ x = [at |-> q[i].at, len |-> q[i].len]
                                  /\ Region(x) = Words(q[i].at, q[i].len)
  <2>1. x \in Lent(rb.mem, q, m)
    BY <1>2 DEF Shape, HeldIs
  <2>2. PICK i \in 1..m : x = [at |-> q[i].at, len |-> q[i].len]
    BY <2>1 DEF Lent
  <2>3. i \in 1..Len(q) /\ i <= m
    BY <1>4
  <2> QED BY <2>2, <2>3 DEF Region, Words
<1>7. ASSUME NEW i \in DOMAIN order, NEW j \in DOMAIN order, i # j
      PROVE  Region(order[i]) \cap Region(order[j]) = {}
  <2>1. m + i # m + j
    BY <1>4, <1>7
  <2> QED BY <2>1, <1>3, <1>5
<1>8. ASSUME NEW r \in Receivers, NEW x \in held[r]
      PROVE  /\ Region(x) \subseteq Index
             /\ \A i \in DOMAIN order : Region(x) \cap Region(order[i]) = {}
  <2>1. PICK k \in 1..Len(q) : k <= m /\ Region(x) = Words(q[k].at, q[k].len)
    BY <1>6, <1>8
  <2>2. ASSUME NEW i \in DOMAIN order
        PROVE  Region(x) \cap Region(order[i]) = {}
    <3>1. k # m + i
      BY <1>5, <2>1
    <3> QED BY <3>1, <1>3, <1>5, <2>1
  <2> QED BY <1>3, <2>1, <2>2
<1>9. ASSUME NEW r \in Receivers, NEW x \in held[r], NEW t \in Receivers, NEW y \in held[t],
             <<r, x>> # <<t, y>>
      PROVE  Region(x) \cap Region(y) = {}
  <2>1. x # y
    BY <1>9 DEF OneReceiver
  <2>2. PICK k \in 1..Len(q) : x = [at |-> q[k].at, len |-> q[k].len] /\ Region(x) = Words(q[k].at, q[k].len)
    BY <1>6, <1>9
  <2>3. PICK l \in 1..Len(q) : y = [at |-> q[l].at, len |-> q[l].len] /\ Region(y) = Words(q[l].at, q[l].len)
    BY <1>6, <1>9
  <2>4. k # l
    BY <2>1, <2>2, <2>3
  <2> QED BY <2>2, <2>3, <2>4, <1>3
<1> QED BY <1>7, <1>8, <1>9 DEF MemoryExclusive

\* The counter, the pointers and the flag are those of the chain.
LEMMA InvAccounted ==
  ASSUME ItemsInv
  PROVE  SpaceAccounted
<1> USE Sizes
<1>1. PICK q \in Seq(Items), m \in 0..2 : Ring(q, m)
  BY DEF ItemsInv, RingInv
<1>2. Shape(split, rb, held, order, q, m)
  BY <1>1 DEF Ring
<1>3. /\ Len(q) \in Nat /\ m <= Len(q) /\ DOMAIN order = 1 .. Len(q) - m
      /\ order # << >> <=> m < Len(q)
      /\ \A i \in 1 .. Len(q) - m : order[i] = q[m + i]
  <2>1. Len(q) \in Nat /\ m <= Len(q) /\ IsRest(order, q, m)
    BY <1>2, OrderLen
  <2>2. order # << >> <=> m < Len(q)
    BY <1>2, OrderLen
  <2> QED BY <2>1, <2>2 DEF IsRest
<1>4. TypeOK
  BY DEF ItemsInv, Types, TypeOK, Buffers, Room
<1>5. CountExact
  <2>1. PICK k : k = IF Open(q) THEN 1 ELSE 0
    OBVIOUS
  <2>2. Sent(split, q, m) /\ rb.xItemsWaiting = Len(q) - m - k
    BY <1>2, <2>1 DEF Shape, Pointers
  <2>3. Open(q) => m < Len(q)
    <3> SUFFICES ASSUME Open(q), m = Len(q) PROVE FALSE
      BY <1>3
    <3>1. Len(q) \in 1..Len(q) /\ Len(q) <= m
      BY <1>3 DEF Open
    <3> QED BY <3>1, <2>2 DEF Open, Sent
  <2>4. k \in 0..1 /\ Len(q) - m - k \in Nat
    BY <1>3, <2>1, <2>3
  <2>5. ASSUME NEW i \in 1 .. Len(q) - m
        PROVE  order[i].sent <=> i <= Len(q) - m - k
    <3>1. m + i \in 1..Len(q) /\ order[i] = q[m + i]
      BY <1>3
    <3>2. CASE m + i < Len(q)
      BY <3>1, <3>2, <2>2, <2>4, <1>3 DEF Sent
    <3>3. CASE m + i = Len(q)
      <4>1. q[m + i].sent <=> ~Open(q)
        BY <3>1, <3>3, <1>3 DEF Open
      <4>2. i = Len(q) - m
        BY <3>3, <1>3
      <4> QED BY <4>1, <4>2, <3>1, <2>1, <2>4, <1>3
    <3> QED BY <3>1, <3>2, <3>3, <1>3
  <2>6. {i \in DOMAIN order : order[i].sent} = 1 .. Len(q) - m - k
    BY <1>3, <2>4, <2>5
  <2>7. PICK c \in Nat : c = Len(q) - m - k
    BY <2>4
  <2>8. Cardinality(1..c) = c
    BY CardUpTo
  <2> QED BY <2>2, <2>6, <2>7, <2>8 DEF CountExact
<1>6. SpaceRecovered
  <2> SUFFICES ASSUME order = << >>, \A r \in Receivers : held[r] = {}
               PROVE  /\ ~rb.full
                      /\ rb.pucFree = rb.pucAcquire /\ rb.pucRead = rb.pucAcquire
                      /\ rb.pucWrite = rb.pucAcquire
      BY DEF SpaceRecovered
  <2>1. m = 0
    BY <1>2, HeldNone
  <2>2. Len(q) = 0
    BY <1>3, <2>1
  <2>3. q = << >> /\ ~Open(q)
    BY <2>2 DEF Open
  <2>4. /\ Chain(rb.mem, rb.pucAcquire, rb.pucFree, rb.full, q) /\ Pointers(rb, q, 0)
    BY <1>2, <2>1 DEF Shape
  <2>5. ~rb.full /\ rb.pucAcquire = Ptr(rb.pucFree, q, 1)
    BY <2>2, <2>3, <2>4 DEF Chain
  <2>6. rb.pucRead = Ptr(rb.pucFree, q, 1) /\ rb.pucWrite = Ptr(rb.pucFree, q, 1)
    BY <2>2, <2>3, <2>4 DEF Pointers
  <2> QED BY <2>5, <2>6 DEF Ptr
<1> QED BY <1>4, <1>5, <1>6 DEF SpaceAccounted

\* Arithmetic of prvGetCurMaxSizeNoSplit, prvGetCurMaxSizeAllowSplit and
\* prvCheckItemFitsDefault.
LEMMA InvFreeSize ==
  ASSUME ItemsInv
  PROVE  FreeSizeFits
<1> USE Sizes
<1>1. PICK a \in Room, f \in Room : a = rb.pucAcquire /\ f = rb.pucFree
  BY DEF ItemsInv, Types, Buffers
<1>2. PICK n : n = xRingbufferGetCurFreeSize
  OBVIOUS
<1>3. PICK top \in Int : top = xMaxItemSize
  <2>1. (xSize + 1) \div 2 \in Int
    OBVIOUS
  <2>2. xSize - 2 * HEADER \in Int /\ (xSize + 1) \div 2 - HEADER \in Int
    BY <2>1
  <2>3. xMaxItemSize \in Int
    BY <2>2 DEF xMaxItemSize
  <2> QED BY <2>3
<1> SUFFICES ASSUME n > 0 PROVE prvCheckItemFitsDefault(n)
  BY <1>2 DEF FreeSizeFits
<1>4. CASE split
  <2>1. PICK size \in Int : size = IF a = 0 /\ f = 0 THEN xSize - HEADER
                                   ELSE IF a < f THEN f - a - HEADER
                                   ELSE f + xSize - a - 2 * HEADER
    <3>1. xSize - HEADER \in Int /\ f - a - HEADER \in Int /\ f + xSize - a - 2 * HEADER \in Int
      BY DEF Room
    <3> QED BY <3>1
  <2>2. n = IF rb.full \/ size < 0 THEN 0 ELSE IF size > top THEN top ELSE size
    BY <1>1, <1>2, <1>3, <1>4, <2>1
       DEF xRingbufferGetCurFreeSize, prvGetCurMaxSizeAllowSplit
  <2>3. ~rb.full /\ n \in Int /\ n <= size
    BY <2>2
  <2>4. CASE a = f
    BY <1>1, <2>3, <2>4 DEF prvCheckItemFitsDefault
  <2>5. CASE a < f
    <3>1. n + HEADER <= f - a
      BY <2>1, <2>3, <2>5 DEF Room
    <3> QED BY <1>1, <2>5, <3>1 DEF prvCheckItemFitsDefault, Room
  <2>6. CASE f < a
    <3>1. n + HEADER + HEADER <= xSize - (a - f)
      BY <2>1, <2>3, <2>6 DEF Room
    <3> QED BY <1>1, <1>4, <2>6, <3>1 DEF prvCheckItemFitsDefault, Room
  <2> QED BY <2>4, <2>5, <2>6 DEF Room
<1>5. CASE ~split
  <2>1. PICK size \in Int : size = (IF a < f THEN f - a
                                    ELSE IF xSize - a > f THEN xSize - a ELSE f) - HEADER
    BY DEF Room
  <2>2. n = IF rb.full \/ size < 0 THEN 0 ELSE IF size > top THEN top ELSE size
    BY <1>1, <1>2, <1>3, <1>5, <2>1
       DEF xRingbufferGetCurFreeSize, prvGetCurMaxSizeNoSplit
  <2>3. ~rb.full /\ n \in Int /\ n <= size
    BY <2>2
  <2>4. CASE a = f
    BY <1>1, <2>3, <2>4 DEF prvCheckItemFitsDefault
  <2>5. CASE a < f
    <3>1. n + HEADER <= f - a
      BY <2>1, <2>3, <2>5 DEF Room
    <3> QED BY <1>1, <2>5, <3>1 DEF prvCheckItemFitsDefault, Room
  <2>6. CASE f < a
    <3>1. n + HEADER <= xSize - a \/ n + HEADER <= f
      BY <2>1, <2>3, <2>6 DEF Room
    <3> QED BY <1>1, <1>5, <2>6, <3>1 DEF prvCheckItemFitsDefault, Room
  <2> QED BY <2>4, <2>5, <2>6 DEF Room
<1> QED BY <1>4, <1>5

\* What FifoReceive asks of receiver r.
TakesFirst(r) ==
  LET new == held'[r] \ held[r]
  IN  /\ Cardinality(new) <= Len(order)
      /\ \A i \in 1..Cardinality(new) :
           order[i].sent /\ [at |-> order[i].at, len |-> order[i].len] \in new

\* A step that gives receiver r nothing.
LEMMA TakesNone ==
  ASSUME ItemsInv, NEW r, held'[r] \subseteq held[r]
  PROVE  TakesFirst(r)
<1>1. PICK q \in Seq(Items), m \in 0..2 : Ring(q, m)
  BY DEF ItemsInv, RingInv
<1>2. order \in Seq(Items)
  BY <1>1, OrderSeq DEF Ring
<1>3. PICK new : new = held'[r] \ held[r]
  OBVIOUS
<1>4. new = {}
  BY <1>3
<1>5. Cardinality(new) = 0
  BY <1>4, FS_EmptySet
<1>6. Len(order) \in Nat
  BY <1>2
<1>7. Cardinality(new) <= Len(order)
  BY <1>5, <1>6
<1>8. 1..Cardinality(new) = {}
  BY <1>5
<1> QED BY <1>3, <1>7, <1>8 DEF TakesFirst

\* prvGetItemDefault leaves the storage alone.
LEMMA GetKeepsMem ==
  ASSUME NEW b
  PROVE  DOMAIN prvGetItemDefault(b) = DOMAIN b /\ ("mem" \in DOMAIN b => prvGetItemDefault(b).mem = b.mem)
  BY DEF prvGetItemDefault

\* The critical section of prvReceiveGeneric takes the first items of the
\* history, which are completely sent.
LEMMA ReceiveTakesFirst ==
  ASSUME OneReceiver, ItemsInv, NEW r \in Receivers, NEW both \in BOOLEAN, ReceiveGets(r, both)
  PROVE  TakesFirst(r)
<1>1. PICK q \in Seq(Items), m \in 1..2 :
        Shape(split, rb, held, order, q, 0) /\ Shape(split', rb', held', order', q, m)
  BY ReceiveRing
<1>2. rb'.mem = rb.mem
  <2>1. rb \in Buffers
    BY DEF ItemsInv, Types
  <2>2. "mem" \in DOMAIN rb
    BY <2>1 DEF Buffers
  <2>3. PICK b1 : b1 = prvGetItemDefault(rb)
    OBVIOUS
  <2>4. PICK b2 : b2 = prvGetItemDefault(b1)
    OBVIOUS
  <2>5. b1.mem = rb.mem /\ "mem" \in DOMAIN b1
    BY <2>2, <2>3, GetKeepsMem
  <2>6. b2.mem = rb.mem
    BY <2>4, <2>5, GetKeepsMem
  <2>7. rb' = b1 \/ rb' = b2
    BY <2>3, <2>4 DEF ReceiveGets
  <2> QED BY <2>5, <2>6, <2>7
<1>3. held[r] = {}
  <2>1. PICK z : z = 0
    OBVIOUS
  <2>2. Shape(split, rb, held, order, q, z)
    BY <1>1, <2>1
  <2> QED BY <2>1, <2>2, HeldNone
<1>4. PICK new : new = held'[r] \ held[r]
  OBVIOUS
<1>5. new = Lent(rb.mem, q, m) /\ new = held'[r]
  BY <1>1, <1>2, <1>3, <1>4 DEF Shape, HeldIs
<1>6. PICK c \in Nat : c = Cardinality(new) /\ c <= m
  <2>1. IsFiniteSet(held'[r]) /\ Cardinality(held'[r]) <= m
    BY <1>1, HeldNone
  <2>2. Cardinality(held'[r]) \in Nat
    BY <2>1, FS_CardinalityType
  <2> QED BY <2>1, <2>2, <1>5
<1>7. /\ Len(q) \in Nat /\ m <= Len(q) /\ Sent(split', q, m)
      /\ Flags(split, rb.mem, q, 0) /\ OrderIs(order, q, 0)
  BY <1>1 DEF Shape, Chain
<1>8. order \in Seq(Items) /\ DOMAIN order = 1..Len(q) /\ \A i \in 1..Len(q) : order[i] = q[i]
  <2>1. order \in Seq(Items)
    BY <1>1, OrderSeq
  <2>2. order = [i \in 1 .. Len(q) - 0 |-> q[0 + i]]
    BY <1>7 DEF OrderIs
  <2>3. Len(q) - 0 = Len(q) /\ \A i \in 1..Len(q) : 0 + i = i
    BY <1>7
  <2> QED BY <2>1, <2>2, <2>3
<1>9. Len(order) = Len(q)
  <2>1. DOMAIN order = 1..Len(order) /\ Len(order) \in Nat
    BY <1>8
  <2> QED BY <2>1, <1>7, <1>8
<1>10. ASSUME NEW i \in 1..c
       PROVE  order[i].sent /\ [at |-> order[i].at, len |-> order[i].len] \in new
  <2>1. i \in 1..m /\ i \in 1..Len(q) /\ i <= m
    BY <1>6, <1>7
  <2>2. order[i] = q[i] /\ q[i].sent
    BY <2>1, <1>7, <1>8 DEF Sent
  <2>3. ~rb.mem[q[i].at].free
    BY <2>1, <1>7 DEF Flags
  <2>4. [at |-> q[i].at, len |-> q[i].len] \in Lent(rb.mem, q, m)
    BY <2>1, <2>3 DEF Lent
  <2> QED BY <2>2, <2>4, <1>5
<1>11. c <= Len(order)
  BY <1>6, <1>7, <1>9
<1> QED BY <1>4, <1>6, <1>10, <1>11 DEF TakesFirst

\* Every step takes items from the front of the history, or none.
LEMMA NextFifo ==
  ASSUME OneReceiver, ItemsInv, Next, NEW r \in Receivers
  PROVE  TakesFirst(r)
<1>1. CASE \E t \in Receivers, both \in BOOLEAN : ReceiveGets(t, both)
  <2>1. PICK t \in Receivers, both \in BOOLEAN : ReceiveGets(t, both)
    BY <1>1
  <2>2. t = r
    BY DEF OneReceiver
  <2> QED BY <2>1, <2>2, ReceiveTakesFirst
<1>2. CASE \E t \in Receivers : \E item \in held[t] : vRingbufferReturnItem(t, item)
  <2>1. PICK t \in Receivers : \E item \in held[t] : held' = [held EXCEPT ![t] = @ \ {item}]
    BY <1>2 DEF vRingbufferReturnItem
  <2>2. held'[r] \subseteq held[r]
    BY <2>1 DEF ItemsInv, Types
  <2> QED BY <2>2, TakesNone
<1>3. CASE UNCHANGED held
  <2>1. held'[r] \subseteq held[r]
    BY <1>3
  <2> QED BY <2>1, TakesNone
<1> QED BY <1>1, <1>2, <1>3
       DEF Next, Step, xRingbufferSend, SendFits, AcquireFits, SendRefused, xRingbufferSendComplete,
           xRingbufferReceive, ReceiveRefused, Semaphores, appVars

-----------------------------------------------------------------------------
(* The results. *)

\* No word of the storage area belongs to two items that are acquired, sent or
\* retrieved, however the calls of the senders and of the one receiver interleave
\* and wherever items wrap around or are split, when the receiver returns an item
\* before it asks for the next, an acquired item is completed before another is
\* sent, and no item has the maximum size of an allow-split buffer
\* (prvCheckItemFitsDefault, prvCopyItemAllowSplit, prvReturnItemDefault).
THEOREM MemoryAlwaysExclusive ==
  ASSUME OneReceiver, OneAtATime, NotMaximal
  PROVE  Spec => []MemoryExclusive
<1>1. ItemsInv => MemoryExclusive
  BY InvExclusive
<1> QED BY <1>1, ItemsAlwaysChained, PTL

\* Under the same conditions the pointers stay where a header has room,
\* xItemsWaiting is the number of sent items that wait, and a buffer whose items
\* have all been returned has all its space back.
THEOREM SpaceAlwaysAccounted ==
  ASSUME OneReceiver, OneAtATime, NotMaximal
  PROVE  Spec => []SpaceAccounted
<1>1. ItemsInv => SpaceAccounted
  BY InvAccounted
<1> QED BY <1>1, ItemsAlwaysChained, PTL

\* An item of the size that xRingbufferGetCurFreeSize reports can be sent, under
\* the same conditions.
THEOREM FreeSizeAlwaysFits ==
  ASSUME OneReceiver, OneAtATime, NotMaximal
  PROVE  Spec => []FreeSizeFits
<1>1. ItemsInv => FreeSizeFits
  BY InvFreeSize
<1> QED BY <1>1, ItemsAlwaysChained, PTL

\* Neither semaphore of an item buffer is lost between a critical section and
\* the give after it, under the same conditions.
THEOREM ItemSemaphoresAlwaysKept ==
  ASSUME OneReceiver, OneAtATime, NotMaximal
  PROVE  Spec => []SemaphoresKept
<1>1. ItemsInv => SemaphoresKept
  BY DEF ItemsInv
<1> QED BY <1>1, ItemsAlwaysChained, PTL

\* The receiver gets the items in the order in which the senders' critical sections
\* put them into the buffer, with the size they were sent with, and an acquired one
\* not before it is complete, under the same conditions: each acquired item is
\* completed before another is sent.
THEOREM ItemsReceivedInOrder ==
  ASSUME OneReceiver, OneAtATime, NotMaximal
  PROVE  Spec => FifoReceive
<1>1. ItemsInv /\ [Next]_vars => [\A r \in Receivers : TakesFirst(r)]_vars
  BY NextFifo
<1>2. Spec => [][\A r \in Receivers : TakesFirst(r)]_vars
  BY <1>1, ItemsAlwaysChained, PTL DEF Spec
<1> QED BY <1>2 DEF FifoReceive, TakesFirst
=============================================================================
