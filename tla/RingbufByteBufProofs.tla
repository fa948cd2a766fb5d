------------------------ MODULE RingbufByteBufProofs ------------------------
(***************************************************************************)
(* Proofs about the byte buffer, for every size, set of bytes and set of   *)
(* senders, receivers and interrupt handlers.                              *)
(***************************************************************************)
EXTENDS RingbufByteBuf, TLAPS, SequenceTheorems

(* The inductive invariant: the pointers describe the ring, a receiver     *)
(* that holds no bytes holds nothing, a call that may copy has an item,    *)
(* and TransSem is not lost.                                               *)
HeldNone == \A r \in Receivers : held[r].len = 0 => held[r] = None
ArgSet == \A s \in Senders : pc[s] \in {"takeTx", "send"} => arg[s] \in Sizes
BInv == TypeOK /\ PointersAgree /\ HeldNone /\ ArgSet

USE DEF Index, Sizes

-----------------------------------------------------------------------------
(* Facts about the operators *)

(* A pointer stays inside the storage area when it moves by at most the    *)
(* size of the buffer.                                                     *)
LEMMA WrapType ==
  ASSUME NEW p \in Index, NEW n \in 0..xSize
  PROVE  Wrap(p + n) \in Index
BY RingbufByteBufAssumption DEF Wrap

(* The item a sender copies has the size it was called with. *)
LEMMA ItemLen ==
  ASSUME NEW n \in Nat, NEW item \in [1..n -> Byte]
  PROVE  Len(item) = n /\ item \in Seq(Byte)
OBVIOUS

(* While no bytes are retrieved, the ring is described by pucRead,         *)
(* xItemsWaiting and the full flag alone.                                  *)
LEMMA AvailMeansNoneHeld ==
  ASSUME BInv, prvCheckItemAvail
  PROVE  \A r \in Receivers : held[r].len = 0
<1> SUFFICES ASSUME NEW r \in Receivers, held[r].len # 0 PROVE FALSE
  OBVIOUS
<1>1. held[r].len \in 1..xSize /\ pucFree \in Index /\ xItemsWaiting \in 0..xSize
  BY DEF BInv, TypeOK
<1>2. pucRead = Wrap(pucFree + held[r].len) /\ held[r].len + xItemsWaiting <= xSize
  BY <1>1 DEF BInv, PointersAgree
<1>3. held[r].len = xSize
  BY <1>1, <1>2, RingbufByteBufAssumption DEF prvCheckItemAvail, Wrap
<1> QED
  BY <1>1, <1>2, <1>3 DEF prvCheckItemAvail

(* prvGetItemByteBuf takes at least one byte and at most those waiting.    *)
LEMMA GetSize ==
  ASSUME BInv, prvCheckItemAvail
  PROVE  /\ Contiguous \in 1..xItemsWaiting
         /\ pucRead + Contiguous <= xSize
<1>1. \A r \in Receivers : held[r].len = 0
  BY AvailMeansNoneHeld
<1>2. /\ pucWrite = pucAcquire
      /\ pucAcquire = Wrap(pucRead + xItemsWaiting)
      /\ full <=> xItemsWaiting = xSize
  BY <1>1 DEF BInv, PointersAgree
<1>3. pucRead \in Index /\ xItemsWaiting \in 1..xSize /\ full \in BOOLEAN
  BY DEF BInv, TypeOK, prvCheckItemAvail
<1> QED
  BY <1>2, <1>3, RingbufByteBufAssumption DEF Contiguous, Wrap, prvCheckItemAvail

(* A step of one caller moves that caller and no other. *)
LEMMA GotoOne ==
  ASSUME TasksTypeOK, NEW t \in Tasks, NEW l \in Labels, Goto(t, l)
  PROVE  /\ pc' \in [Tasks -> Labels]
         /\ pc'[t] = l
         /\ \A u \in Tasks : u # t => pc'[u] = pc[u]
BY DEF TasksTypeOK, Goto

-----------------------------------------------------------------------------
(* The invariant holds initially and is preserved *)

(* The new ring buffer satisfies the invariant. *)
LEMMA InitBInv == Init => BInv
<1> SUFFICES ASSUME Init PROVE BInv
  OBVIOUS
<1>1. TasksTypeOK
  BY DEF Init, TasksInit, TasksTypeOK, Labels
<1>2. None \in [at : Index, len : 0..xSize]
  BY RingbufByteBufAssumption DEF None
<1>a. held \in [Receivers -> [at : Index, len : 0..xSize]]
  BY <1>2 DEF Init
<1>b. full \in BOOLEAN
  BY DEF Init
<1>3. TypeOK
  BY <1>1, <1>a, <1>b, RingbufByteBufAssumption DEF Init, TypeOK
<1>4. PointersAgree
  BY RingbufByteBufAssumption DEF Init, PointersAgree, Wrap, None
<1>5. HeldNone /\ ArgSet
  BY DEF Init, TasksInit, HeldNone, ArgSet, None, Tasks
<1> QED
  BY <1>3, <1>4, <1>5 DEF BInv

(* Steps outside the critical sections leave the ring alone. *)
LEMMA OutsideBInv ==
  ASSUME BInv, UNCHANGED <<rbVars, held>>, TasksTypeOK',
         arg' \in [Senders -> Sizes \cup {0}], ArgSet'
  PROVE  BInv'
<1>1. UNCHANGED <<buf, pucAcquire, pucWrite, pucRead, pucFree, full, xItemsWaiting, held>>
  BY DEF rbVars
<1>2. TypeOK'
  BY <1>1 DEF BInv, TypeOK
<1>3. PointersAgree'
  BY <1>1 DEF BInv, PointersAgree, Wrap
<1>4. HeldNone'
  BY <1>1 DEF BInv, HeldNone
<1> QED
  BY <1>2, <1>3, <1>4 DEF BInv

(* Calls, takes, gives, time-outs and refusals. *)
LEMMA TaskStepBInv ==
  ASSUME BInv, NEW t \in Tasks, UNCHANGED <<rbVars, held>>,
         \/ \E n \in Sizes : xRingbufferSend(t, n)
         \/ SendRefused(t) \/ xRingbufferReceive(t) \/ ReceiveRefused(t) \/ Semaphores(t)
  PROVE  BInv'
<1>1. TasksTypeOK /\ arg \in [Senders -> Sizes \cup {0}] /\ ArgSet
  BY DEF BInv, TypeOK
<1>2. PICK l \in Labels : Goto(t, l)
  BY DEF xRingbufferSend, SendRefused, xRingbufferReceive, ReceiveRefused, Semaphores,
         SemaphoreStep, CallSend, CallReceive, Refused, TakeTx, TakeRx, TakeTimeout,
         GiveTx, GiveRx, Labels
<1>3. pc' \in [Tasks -> Labels] /\ pc'[t] = l /\ \A u \in Tasks : u # t => pc'[u] = pc[u]
  BY <1>1, <1>2, GotoOne
<1>4. tx' \in BOOLEAN /\ rx' \in BOOLEAN
  BY <1>1 DEF xRingbufferSend, SendRefused, xRingbufferReceive, ReceiveRefused, Semaphores,
         SemaphoreStep, CallSend, CallReceive, Refused, TakeTx, TakeRx, TakeTimeout,
         GiveTx, GiveRx, TasksTypeOK
<1>5. TasksTypeOK'
  BY <1>3, <1>4 DEF TasksTypeOK
<1>6. CASE \E n \in Sizes : xRingbufferSend(t, n)
  <2>1. PICK n \in Sizes : arg' = [arg EXCEPT ![t] = n]
    BY <1>6 DEF xRingbufferSend
  <2>2. arg' \in [Senders -> Sizes \cup {0}]
    BY <1>1, <2>1
  <2>3. ArgSet'
    BY <1>1, <1>3, <2>1 DEF ArgSet, Tasks
  <2> QED
    BY <1>5, <2>2, <2>3, OutsideBInv
<1>7. CASE ~ \E n \in Sizes : xRingbufferSend(t, n)
  <2>1. arg' = arg
    BY <1>7 DEF SendRefused, xRingbufferReceive, ReceiveRefused, Semaphores
  <2>2. pc'[t] \in {"takeTx", "send"} => pc[t] \in {"takeTx", "send"}
    BY <1>1, <1>2, <1>3, <1>7
    DEF SendRefused, xRingbufferReceive, ReceiveRefused, Semaphores, SemaphoreStep,
        CallReceive, Refused, TakeTx, TakeRx, TakeTimeout, GiveTx, GiveRx, Goto, TasksTypeOK
  <2>3. ArgSet'
    BY <1>1, <1>3, <2>1, <2>2 DEF ArgSet, Tasks
  <2> QED
    BY <1>1, <1>5, <2>1, <2>3, OutsideBInv
<1> QED
  BY <1>6, <1>7

(* The critical section of a send that fits. *)
LEMMA SendFitsBInv ==
  ASSUME BInv, NEW s \in Senders, NEW item \in [1..arg[s] -> Byte], SendFits(s, item)
  PROVE  BInv'
<1> DEFINE n == arg[s]
<1>0. n \in 1..xSize
  BY DEF BInv, SendFits, ArgSet
<1>1. TypeOK /\ PointersAgree /\ s \in Tasks
  BY DEF BInv, Tasks
<1>2. Len(item) = n
  BY <1>0, ItemLen
<1>3. /\ buf' = [i \in Index |-> IF Offset(pucAcquire, i) < n
                                THEN item[Offset(pucAcquire, i) + 1] ELSE buf[i]]
      /\ xItemsWaiting' = xItemsWaiting + n
      /\ pucAcquire' = Wrap(pucAcquire + n)
      /\ full' = (full \/ pucAcquire' = pucFree)
      /\ pucWrite' = pucAcquire'
      /\ UNCHANGED <<pucRead, pucFree, tx, rx, held>>
      /\ arg' = [arg EXCEPT ![s] = 0]
  BY <1>2 DEF SendFits, prvCopyItemByteBuf
<1>4. /\ pucAcquire \in Index /\ pucRead \in Index /\ pucFree \in Index
      /\ xItemsWaiting \in 0..xSize /\ full \in BOOLEAN /\ buf \in [Index -> Byte]
      /\ held \in [Receivers -> [at : Index, len : 0..xSize]]
      /\ prvCheckItemFitsByteBuffer(n)
  BY <1>1 DEF TypeOK, SendFits
<1> HIDE DEF n
<1>5. PICK l \in {"giveTxRx", "giveRx"} : Goto(s, l)
  BY DEF SendFits
<1>6. pc' \in [Tasks -> Labels] /\ pc'[s] = l /\ \A u \in Tasks : u # s => pc'[u] = pc[u]
  BY <1>1, <1>5, GotoOne DEF TypeOK, Labels
<1>7. /\ PointersAgree'
      /\ xItemsWaiting' \in 0..xSize
  <2>1. CASE \A r \in Receivers : held[r].len = 0
    <3>1. pucRead = pucFree /\ (full <=> xItemsWaiting = xSize)
          /\ pucAcquire = Wrap(pucRead + xItemsWaiting)
      BY <1>1, <2>1 DEF PointersAgree
    <3>2. ~full /\ xItemsWaiting + n <= xSize
      BY <1>0, <1>4, <3>1, RingbufByteBufAssumption DEF prvCheckItemFitsByteBuffer, Wrap
    <3>3. pucAcquire' = Wrap(pucRead + xItemsWaiting')
          /\ (full' <=> xItemsWaiting' = xSize)
      <4>1. full' <=> pucAcquire' = pucFree
        BY <1>3, <3>2
      <4>2. pucAcquire' = pucFree <=> xItemsWaiting + n = xSize
        BY <1>0, <1>3, <1>4, <3>1, <3>2, RingbufByteBufAssumption DEF Wrap
      <4>3. pucAcquire' = Wrap(pucRead + (xItemsWaiting + n))
        BY <1>0, <1>3, <1>4, <3>1, <3>2, RingbufByteBufAssumption DEF Wrap
      <4> QED
        BY <1>3, <4>1, <4>2, <4>3
    <3>4. xItemsWaiting' \in 0..xSize
      BY <1>0, <1>3, <1>4, <3>2, RingbufByteBufAssumption
    <3> QED
      BY <1>3, <2>1, <3>1, <3>3, <3>4 DEF PointersAgree, Wrap
  <2>2. CASE \E r \in Receivers : held[r].len # 0
    <3>1. PICK r \in Receivers : held[r].len # 0
      BY <2>2
    <3> DEFINE h == held[r].len
    <3>2. h \in 1..xSize
      BY <1>4, <3>1
    <3>3. /\ held[r].at = pucFree
          /\ pucRead = Wrap(pucFree + h)
          /\ h + xItemsWaiting <= xSize
          /\ full <=> h + xItemsWaiting = xSize
          /\ \A q \in Receivers : held[q].len > 0 => q = r
          /\ pucAcquire = Wrap(pucRead + xItemsWaiting)
      BY <1>1, <3>2 DEF PointersAgree
    <3> HIDE DEF h
    <3>4. ~full /\ h + xItemsWaiting + n <= xSize
      BY <1>0, <1>4, <3>2, <3>3, RingbufByteBufAssumption
      DEF prvCheckItemFitsByteBuffer, Wrap
    <3>5. pucAcquire' = Wrap(pucRead + xItemsWaiting')
          /\ (full' <=> h + xItemsWaiting' = xSize)
          /\ h + xItemsWaiting' <= xSize
      <4>1. full' <=> pucAcquire' = pucFree
        BY <1>3, <3>4
      <4>2. pucAcquire' = pucFree <=> h + (xItemsWaiting + n) = xSize
        BY <1>0, <1>3, <1>4, <3>2, <3>3, <3>4, RingbufByteBufAssumption DEF Wrap
      <4>3. pucAcquire' = Wrap(pucRead + (xItemsWaiting + n))
        BY <1>0, <1>3, <1>4, <3>2, <3>3, <3>4, RingbufByteBufAssumption DEF Wrap
      <4>4. h + (xItemsWaiting + n) <= xSize
        BY <1>0, <1>4, <3>2, <3>4
      <4> QED
        BY <1>3, <4>1, <4>2, <4>3, <4>4
    <3>6. xItemsWaiting' \in 0..xSize
      BY <1>0, <1>3, <1>4, <3>2, <3>4, RingbufByteBufAssumption
    <3>7. ASSUME NEW q \in Receivers, held'[q].len > 0
          PROVE  /\ held'[q].at = pucFree'
                 /\ pucRead' = Wrap(pucFree' + held'[q].len)
                 /\ held'[q].len + xItemsWaiting' <= xSize
                 /\ full' <=> held'[q].len + xItemsWaiting' = xSize
                 /\ \A p \in Receivers : held'[p].len > 0 => p = q
      BY <1>3, <3>3, <3>5, <3>7 DEF h
    <3>8. ~ \A q \in Receivers : held'[q].len = 0
      BY <1>3, <3>1
    <3> QED
      BY <1>3, <3>5, <3>6, <3>7, <3>8 DEF PointersAgree, Wrap
  <2> QED
    BY <2>1, <2>2
<1>8. TypeOK'
  <2>1. pucAcquire' \in Index
    BY <1>0, <1>3, <1>4, RingbufByteBufAssumption DEF Wrap
  <2>2. buf' \in [Index -> Byte]
    <3>1. ASSUME NEW i \in Index, Offset(pucAcquire, i) < n
          PROVE  item[Offset(pucAcquire, i) + 1] \in Byte
      BY <1>0, <1>4, <3>1, RingbufByteBufAssumption, SMTT(30) DEF Offset, n
    <3> QED
      BY <1>3, <1>4, <3>1
  <2>3. arg' \in [Senders -> Sizes \cup {0}]
    BY <1>1, <1>3 DEF TypeOK
  <2>4. full' \in BOOLEAN
    BY <1>3, <1>4
  <2>5. TasksTypeOK'
    BY <1>1, <1>3, <1>6 DEF TypeOK, TasksTypeOK
  <2> QED
    BY <1>1, <1>3, <1>4, <1>7, <2>1, <2>2, <2>3, <2>4, <2>5 DEF TypeOK
<1>9. HeldNone' /\ ArgSet'
  BY <1>1, <1>3, <1>5, <1>6 DEF BInv, TypeOK, HeldNone, ArgSet, Tasks
<1> QED
  BY <1>7, <1>8, <1>9 DEF BInv

(* The number of bytes a retrieval takes. *)
GetLen(m) == IF m = 0 \/ Contiguous <= m THEN Contiguous ELSE m

(* What the critical section of a successful retrieval does: nobody held   *)
(* anything, and between one and all of the waiting bytes, contiguous ones,*)
(* are handed out.                                                         *)
LEMMA GetsEffect ==
  ASSUME BInv, NEW r \in Receivers, NEW m \in MaxSizes, ReceiveGets(r, m)
  PROVE  /\ GetLen(m) \in 1..xItemsWaiting
         /\ pucRead + GetLen(m) <= xSize
         /\ \A q \in Receivers : held[q].len = 0
         /\ pucRead = pucFree
         /\ full <=> xItemsWaiting = xSize
         /\ held' = [held EXCEPT ![r] = [at |-> pucRead, len |-> GetLen(m)]]
         /\ xItemsWaiting' = xItemsWaiting - GetLen(m)
         /\ pucRead' = Wrap(pucRead + GetLen(m))
         /\ UNCHANGED <<buf, pucAcquire, pucWrite, pucFree, full, tx, rx, arg>>
<1>1. prvCheckItemAvail
  BY DEF ReceiveGets
<1>2. Contiguous \in 1..xItemsWaiting /\ pucRead + Contiguous <= xSize
  BY <1>1, GetSize
<1>3. m \in Nat /\ xItemsWaiting \in 0..xSize /\ pucRead \in Index
  BY RingbufByteBufAssumption DEF BInv, TypeOK
<1>4. GetLen(m) \in 1..xItemsWaiting /\ pucRead + GetLen(m) <= xSize
  BY <1>2, <1>3, RingbufByteBufAssumption DEF GetLen
<1>5. \A q \in Receivers : held[q].len = 0
  BY <1>1, AvailMeansNoneHeld
<1>6. pucRead = pucFree /\ (full <=> xItemsWaiting = xSize)
  BY <1>5 DEF BInv, PointersAgree
<1>7. /\ held' = [held EXCEPT ![r] = [at |-> pucRead, len |-> GetLen(m)]]
      /\ xItemsWaiting' = xItemsWaiting - GetLen(m)
      /\ pucRead' = Wrap(pucRead + GetLen(m))
      /\ UNCHANGED <<buf, pucAcquire, pucWrite, pucFree, full, tx, rx, arg>>
  BY DEF ReceiveGets, prvGetItemByteBuf, GetLen
<1> QED
  BY <1>4, <1>5, <1>6, <1>7

(* The critical section of a retrieval that finds data. *)
LEMMA ReceiveGetsBInv ==
  ASSUME BInv, NEW r \in Receivers, NEW m \in MaxSizes, ReceiveGets(r, m)
  PROVE  BInv'
<1> DEFINE n == GetLen(m)
<1>1. /\ n \in 1..xItemsWaiting
      /\ pucRead + n <= xSize
      /\ \A q \in Receivers : held[q].len = 0
      /\ pucRead = pucFree
      /\ full <=> xItemsWaiting = xSize
      /\ held' = [held EXCEPT ![r] = [at |-> pucRead, len |-> n]]
      /\ xItemsWaiting' = xItemsWaiting - n
      /\ pucRead' = Wrap(pucRead + n)
      /\ UNCHANGED <<buf, pucAcquire, pucWrite, pucFree, full, tx, rx, arg>>
  BY GetsEffect
<1> HIDE DEF n
<1>2. /\ pucAcquire \in Index /\ pucRead \in Index /\ pucFree \in Index
      /\ xItemsWaiting \in 0..xSize
      /\ held \in [Receivers -> [at : Index, len : 0..xSize]]
      /\ pucWrite = pucAcquire
      /\ pucAcquire = Wrap(pucRead + xItemsWaiting)
  BY DEF BInv, TypeOK, PointersAgree
<1>3. r \in Tasks /\ pc[r] = "receive"
  BY DEF Tasks, ReceiveGets
<1>4. PICK l \in {"giveRx", "idle"} : Goto(r, l)
  BY DEF ReceiveGets
<1>5. pc' \in [Tasks -> Labels] /\ pc'[r] = l /\ \A u \in Tasks : u # r => pc'[u] = pc[u]
  BY <1>3, <1>4, GotoOne DEF BInv, TypeOK, Labels
<1>6. /\ held'[r] = [at |-> pucRead, len |-> n]
      /\ \A q \in Receivers : q # r => held'[q].len = 0
  BY <1>1, <1>2
<1>7. PointersAgree'
  <2>1. pucAcquire' = Wrap(pucRead' + xItemsWaiting')
    BY <1>1, <1>2, RingbufByteBufAssumption DEF Wrap
  <2>2. n > 0 /\ n + (xItemsWaiting - n) = xItemsWaiting
    BY <1>1, <1>2
  <2>3. ASSUME NEW q \in Receivers, held'[q].len > 0
        PROVE  /\ held'[q].at = pucFree'
               /\ pucRead' = Wrap(pucFree' + held'[q].len)
               /\ held'[q].len + xItemsWaiting' <= xSize
               /\ full' <=> held'[q].len + xItemsWaiting' = xSize
               /\ \A p \in Receivers : held'[p].len > 0 => p = q
    <3>1. q = r
      BY <1>6, <2>3
    <3>2. held'[q].at = pucFree' /\ held'[q].len = n
      BY <1>1, <1>6, <3>1
    <3>3. held'[q].len + xItemsWaiting' = xItemsWaiting
      BY <1>1, <2>2, <3>2
    <3>4. pucRead' = Wrap(pucFree' + held'[q].len)
      BY <1>1, <3>2
    <3>5. \A p \in Receivers : held'[p].len > 0 => p = q
      BY <1>6, <3>1
    <3> QED
      BY <1>1, <1>2, <3>2, <3>3, <3>4, <3>5
  <2>4. ~ \A q \in Receivers : held'[q].len = 0
    BY <1>6, <2>2
  <2> QED
    BY <1>1, <1>2, <2>1, <2>3, <2>4 DEF PointersAgree, Wrap
<1>8. TypeOK'
  <2>1. pucRead' \in Index /\ xItemsWaiting' \in 0..xSize /\ n \in 0..xSize
    BY <1>1, <1>2, RingbufByteBufAssumption DEF Wrap
  <2>2. held' \in [Receivers -> [at : Index, len : 0..xSize]]
    BY <1>1, <1>2, <2>1
  <2>3. TasksTypeOK'
    BY <1>1, <1>5 DEF BInv, TypeOK, TasksTypeOK
  <2> QED
    BY <1>1, <2>1, <2>2, <2>3 DEF BInv, TypeOK
<1>9. HeldNone' /\ ArgSet'
  <2>1. n # 0
    BY <1>1, <1>2
  <2>2. HeldNone'
    BY <1>1, <1>2, <1>6, <2>1 DEF BInv, HeldNone
  <2>3. ArgSet'
    BY <1>1, <1>3, <1>4, <1>5 DEF BInv, ArgSet, Tasks
  <2> QED
    BY <2>2, <2>3
<1> QED
  BY <1>7, <1>8, <1>9 DEF BInv

(* The critical section of vRingbufferReturnItem. *)
LEMMA ReturnBInv ==
  ASSUME BInv, NEW r \in Receivers, vRingbufferReturnItem(r)
  PROVE  BInv'
<1> DEFINE h == held[r].len
<1>1. /\ pucAcquire \in Index /\ pucRead \in Index /\ pucFree \in Index
      /\ xItemsWaiting \in 0..xSize
      /\ held \in [Receivers -> [at : Index, len : 0..xSize]]
      /\ pucWrite = pucAcquire
      /\ pucAcquire = Wrap(pucRead + xItemsWaiting)
  BY DEF BInv, TypeOK, PointersAgree
<1>2. h \in 1..xSize
  BY <1>1 DEF BInv, HeldNone, vRingbufferReturnItem
<1>3. /\ pucRead = Wrap(pucFree + h)
      /\ h + xItemsWaiting <= xSize
      /\ \A q \in Receivers : held[q].len > 0 => q = r
  BY <1>2 DEF BInv, PointersAgree
<1>4. /\ pucFree' = pucRead
      /\ full' = FALSE
      /\ UNCHANGED <<buf, pucAcquire, pucWrite, pucRead, xItemsWaiting, tx, rx, arg>>
      /\ held' = [held EXCEPT ![r] = None]
      /\ Goto(r, "giveTx")
  BY DEF vRingbufferReturnItem, prvReturnItemByteBuf
<1> HIDE DEF h
<1>5. r \in Tasks /\ "giveTx" \in Labels
  BY DEF Tasks, Labels
<1>6. pc' \in [Tasks -> Labels] /\ pc'[r] = "giveTx" /\ \A u \in Tasks : u # r => pc'[u] = pc[u]
  BY <1>4, <1>5, GotoOne DEF BInv, TypeOK
<1>7. \A q \in Receivers : held'[q].len = 0
  BY <1>1, <1>3, <1>4 DEF None
<1>8. PointersAgree'
  <2>1. xItemsWaiting # xSize
    BY <1>1, <1>2, <1>3
  <2> QED
    BY <1>1, <1>4, <1>7, <2>1 DEF PointersAgree, Wrap
<1>9. TypeOK'
  <2>1. None \in [at : Index, len : 0..xSize]
    BY RingbufByteBufAssumption DEF None
  <2>2. held' \in [Receivers -> [at : Index, len : 0..xSize]]
    BY <1>1, <1>4, <2>1
  <2>3. TasksTypeOK'
    BY <1>4, <1>6 DEF BInv, TypeOK, TasksTypeOK
  <2>4. full' \in BOOLEAN
    BY <1>4
  <2> QED
    BY <1>1, <1>4, <2>2, <2>3, <2>4 DEF BInv, TypeOK
<1>10. HeldNone' /\ ArgSet'
  <2>1. HeldNone'
    BY <1>1, <1>4 DEF BInv, HeldNone
  <2>2. ArgSet'
    BY <1>4, <1>5, <1>6 DEF BInv, ArgSet, Tasks
  <2> QED
    BY <2>1, <2>2
<1> QED
  BY <1>8, <1>9, <1>10 DEF BInv

(* Every step preserves the invariant. *)
LEMMA NextBInv == BInv /\ [Next]_vars => BInv'
<1> SUFFICES ASSUME BInv, [Next]_vars PROVE BInv'
  OBVIOUS
<1>1. ASSUME NEW s \in Senders, NEW n \in Sizes, xRingbufferSend(s, n) PROVE BInv'
  BY <1>1, TaskStepBInv DEF xRingbufferSend, Tasks
<1>2. ASSUME NEW s \in Senders, NEW item \in [1..arg[s] -> Byte], SendFits(s, item) PROVE BInv'
  BY <1>2, SendFitsBInv
<1>3. ASSUME NEW s \in Senders, SendRefused(s) PROVE BInv'
  BY <1>3, TaskStepBInv DEF SendRefused, Tasks
<1>4. ASSUME NEW r \in Receivers, xRingbufferReceive(r) PROVE BInv'
  BY <1>4, TaskStepBInv DEF xRingbufferReceive, Tasks
<1>5. ASSUME NEW r \in Receivers, NEW m \in MaxSizes, ReceiveGets(r, m) PROVE BInv'
  BY <1>5, ReceiveGetsBInv
<1>6. ASSUME NEW r \in Receivers, ReceiveRefused(r) PROVE BInv'
  BY <1>6, TaskStepBInv DEF ReceiveRefused, Tasks
<1>7. ASSUME NEW r \in Receivers, vRingbufferReturnItem(r) PROVE BInv'
  BY <1>7, ReturnBInv
<1>8. ASSUME NEW t \in Tasks, Semaphores(t) PROVE BInv'
  BY <1>8, TaskStepBInv DEF Semaphores
<1>9. CASE UNCHANGED vars
  <2>1. UNCHANGED <<rbVars, held>> /\ UNCHANGED <<pc, tx, rx, arg>>
    BY <1>9 DEF vars, rbVars
  <2> QED
    BY <2>1, OutsideBInv DEF BInv, TypeOK, TasksTypeOK, ArgSet
<1> QED
  BY <1>1, <1>2, <1>3, <1>4, <1>5, <1>6, <1>7, <1>8, <1>9 DEF Next

(* The invariant always holds. *)
THEOREM BInvAlways == Spec => []BInv
BY InitBInv, NextBInv, PTL DEF Spec

(* The pointers of the byte buffer never leave the storage area and its    *)
(* counters never exceed its size, whatever its size and its callers.      *)
THEOREM ByteBufTypeCorrect == Spec => []TypeOK
<1>1. BInv => TypeOK
  BY DEF BInv
<1> QED
  BY BInvAlways, <1>1, PTL

(* The pointers, the full flag, the counter and what is held always        *)
(* describe one state of the ring.                                         *)
THEOREM ByteBufPointersAgree == Spec => []PointersAgree
<1>1. BInv => PointersAgree
  BY DEF BInv
<1> QED
  BY BInvAlways, <1>1, PTL

-----------------------------------------------------------------------------
(* TransSem is not lost *)

(* An item is refused only while something is stored. *)
LEMMA RefusedMeansStored ==
  ASSUME BInv, NEW n \in Sizes, ~prvCheckItemFitsByteBuffer(n)
  PROVE  xItemsWaiting > 0 \/ \E r \in Receivers : held[r].len > 0
<1> SUFFICES ASSUME xItemsWaiting = 0, \A r \in Receivers : held[r].len = 0 PROVE FALSE
  BY DEF BInv, TypeOK
<1>1. /\ pucRead = pucFree
      /\ pucAcquire = Wrap(pucRead + xItemsWaiting)
      /\ full <=> xItemsWaiting = xSize
  BY DEF BInv, PointersAgree
<1>2. pucRead \in Index
  BY DEF BInv, TypeOK
<1> QED
  BY <1>1, <1>2, RingbufByteBufAssumption DEF prvCheckItemFitsByteBuffer, Wrap

(* Every step preserves TxNotLost. *)
LEMMA NextTxNotLost == BInv /\ TxNotLost /\ [Next]_vars => TxNotLost'
<1> SUFFICES ASSUME BInv, TxNotLost, [Next]_vars PROVE TxNotLost'
  OBVIOUS
<1> DEFINE busy == {"send", "giveTx", "giveTxRx"}
<1>1. TasksTypeOK
  BY DEF BInv, TypeOK
<1>2. ASSUME NEW t \in Tasks, NEW l \in Labels, Goto(t, l), UNCHANGED <<tx, xItemsWaiting, held>>,
             pc[t] \in busy => l \in busy
      PROVE  TxNotLost'
  <2>1. pc'[t] = l /\ \A u \in Tasks : u # t => pc'[u] = pc[u]
    BY <1>1, <1>2, GotoOne
  <2> QED
    BY <1>2, <2>1 DEF TxNotLost
<1>3. ASSUME NEW s \in Senders, NEW n \in Sizes, xRingbufferSend(s, n) PROVE TxNotLost'
  BY <1>2, <1>3 DEF xRingbufferSend, CallSend, Labels, Tasks, rbVars
<1>4. ASSUME NEW s \in Senders, NEW item \in [1..arg[s] -> Byte], SendFits(s, item)
      PROVE  TxNotLost'
  <2>1. arg[s] \in 1..xSize
    BY <1>4 DEF BInv, ArgSet, SendFits
  <2>2. Len(item) = arg[s]
    BY <2>1, ItemLen
  <2>3. xItemsWaiting' = xItemsWaiting + arg[s] /\ xItemsWaiting \in 0..xSize
    BY <1>4, <2>2 DEF SendFits, prvCopyItemByteBuf, BInv, TypeOK
  <2>4. xItemsWaiting' > 0
    BY <2>1, <2>3, RingbufByteBufAssumption
  <2> QED
    BY <2>4 DEF TxNotLost
<1>5. ASSUME NEW s \in Senders, SendRefused(s) PROVE TxNotLost'
  <2>1. arg[s] \in Sizes /\ ~prvCheckItemFitsByteBuffer(arg[s])
    BY <1>5 DEF BInv, ArgSet, SendRefused
  <2>2. xItemsWaiting > 0 \/ \E r \in Receivers : held[r].len > 0
    BY <2>1, RefusedMeansStored
  <2>3. UNCHANGED <<xItemsWaiting, held>>
    BY <1>5 DEF SendRefused, rbVars
  <2> QED
    BY <2>2, <2>3 DEF TxNotLost
<1>6. ASSUME NEW r \in Receivers, xRingbufferReceive(r) PROVE TxNotLost'
  BY <1>2, <1>6 DEF xRingbufferReceive, CallReceive, Labels, Tasks, rbVars
<1>7. ASSUME NEW r \in Receivers, NEW m \in MaxSizes, ReceiveGets(r, m) PROVE TxNotLost'
  <2>1. GetLen(m) \in 1..xItemsWaiting /\ xItemsWaiting \in 0..xSize
        /\ held' = [held EXCEPT ![r] = [at |-> pucRead, len |-> GetLen(m)]]
    BY <1>7, GetsEffect DEF BInv, TypeOK
  <2>2. held \in [Receivers -> [at : Index, len : 0..xSize]]
    BY DEF BInv, TypeOK
  <2>3. held'[r].len > 0
    BY <2>1, <2>2
  <2> QED
    BY <2>3 DEF TxNotLost
<1>8. ASSUME NEW r \in Receivers, ReceiveRefused(r) PROVE TxNotLost'
  BY <1>2, <1>8 DEF ReceiveRefused, Refused, Labels, Tasks, rbVars
<1>9. ASSUME NEW r \in Receivers, vRingbufferReturnItem(r) PROVE TxNotLost'
  <2>1. pc'[r] = "giveTx" /\ r \in Tasks
    BY <1>1, <1>9 DEF vRingbufferReturnItem, Goto, Tasks, TasksTypeOK
  <2> QED
    BY <2>1 DEF TxNotLost
<1>10. ASSUME NEW t \in Tasks, Semaphores(t) PROVE TxNotLost'
  <2>1. UNCHANGED <<xItemsWaiting, held>>
    BY <1>10 DEF Semaphores, rbVars
  <2>2. CASE TakeTx(t)
    <3>1. pc'[t] = "send"
      BY <1>1, <2>2 DEF TakeTx, Goto, TasksTypeOK
    <3> QED
      BY <3>1 DEF TxNotLost
  <2>3. CASE TakeRx(t)
    BY <1>2, <2>1, <2>3 DEF TakeRx, Labels
  <2>4. CASE TakeTimeout(t)
    BY <1>2, <2>1, <2>4 DEF TakeTimeout, Labels
  <2>5. CASE GiveTx(t)
    BY <2>5 DEF GiveTx, TxNotLost
  <2>6. CASE GiveRx(t)
    BY <1>2, <2>1, <2>6 DEF GiveRx, Labels
  <2> QED
    BY <1>10, <2>2, <2>3, <2>4, <2>5, <2>6 DEF Semaphores, SemaphoreStep
<1>11. CASE UNCHANGED vars
  BY <1>11 DEF vars, TxNotLost
<1> QED
  BY <1>3, <1>4, <1>5, <1>6, <1>7, <1>8, <1>9, <1>10, <1>11 DEF Next

(* With any number of senders and receivers, TransSem is available or in   *)
(* use, or something is stored whose return will give it.                  *)
THEOREM TxNeverLost == Spec => []TxNotLost
<1>1. Init => TxNotLost
  BY DEF Init, TasksInit, TxNotLost
<1> QED
  BY BInvAlways, <1>1, NextTxNotLost, PTL DEF Spec
-----------------------------------------------------------------------------
(* RecvSem is not lost *)

Alone == \A q, r \in Receivers : q = r

(* While bytes wait, retrievable at once or not, RecvSem is available or   *)
(* in the hands of a call that will use it or give it; a receiver that has *)
(* a piece does not receive.                                               *)
RxKept ==
  xItemsWaiting > 0 => rx \/ \E t \in Tasks : pc[t] \in {"receive", "giveRx", "giveTxRx"}
HeldIdle == \A r \in Receivers : pc[r] \in {"takeRx", "receive"} => held[r] = None
RxInv == RxKept /\ HeldIdle

(* The only receiver is refused only when nothing waits. *)
LEMMA RefusedMeansEmpty ==
  ASSUME Alone, BInv, HeldIdle, NEW r \in Receivers, pc[r] = "receive", ~prvCheckItemAvail
  PROVE  xItemsWaiting = 0
<1>1. held[r] = None
  BY DEF HeldIdle
<1>2. \A q \in Receivers : held[q].len = 0
  BY <1>1 DEF Alone, None
<1>3. /\ pucRead = pucFree /\ pucWrite = Wrap(pucRead + xItemsWaiting)
      /\ full <=> xItemsWaiting = xSize
  BY <1>2 DEF BInv, PointersAgree
<1>4. pucRead \in Index /\ xItemsWaiting \in 0..xSize
  BY DEF BInv, TypeOK
<1> QED
  BY <1>3, <1>4, RingbufByteBufAssumption DEF prvCheckItemAvail, Wrap, Index

LEMMA NextRxInv ==
  ASSUME Alone, BInv, RxInv, [Next]_vars
  PROVE  RxInv'
<1> DEFINE busy == {"receive", "giveRx", "giveTxRx"}
           getting == {"takeRx", "receive"}
<1>1. TasksTypeOK /\ held \in [Receivers -> [at : Index, len : 0..xSize]]
  BY DEF BInv, TypeOK
(* A step outside the critical sections. *)
<1>2. ASSUME NEW t \in Tasks, NEW l \in Labels, Goto(t, l), UNCHANGED <<rx, xItemsWaiting, held>>,
             pc[t] \in busy => l \in busy,
             t \in Receivers /\ l \in getting => held[t] = None
      PROVE  RxInv'
  <2>1. pc'[t] = l /\ \A u \in Tasks : u # t => pc'[u] = pc[u]
    BY <1>1, <1>2, GotoOne
  <2>2. RxKept'
    BY <1>2, <2>1 DEF RxInv, RxKept
  <2>3. HeldIdle'
    BY <1>2, <2>1 DEF RxInv, HeldIdle, Tasks
  <2> QED
    BY <2>2, <2>3 DEF RxInv
<1>3. ASSUME NEW s \in Senders, NEW n \in Sizes, xRingbufferSend(s, n) PROVE RxInv'
  BY <1>2, <1>3 DEF xRingbufferSend, CallSend, Labels, Tasks, rbVars
<1>4. ASSUME NEW s \in Senders, NEW item \in [1..arg[s] -> Byte], SendFits(s, item)
      PROVE  RxInv'
  <2>0. s \in Tasks
    BY DEF Tasks
  <2>1. PICK l \in {"giveTxRx", "giveRx"} : Goto(s, l)
    BY <1>4 DEF SendFits
  <2>2. pc'[s] = l /\ \A u \in Tasks : u # s => pc'[u] = pc[u]
    BY <1>1, <2>0, <2>1, GotoOne DEF Labels
  <2>3. held' = held
    BY <1>4 DEF SendFits
  <2>4. RxKept'
    BY <2>0, <2>2 DEF RxKept
  <2>5. HeldIdle'
    BY <2>2, <2>3 DEF RxInv, HeldIdle, Tasks
  <2> QED
    BY <2>4, <2>5 DEF RxInv
<1>5. ASSUME NEW s \in Senders, SendRefused(s) PROVE RxInv'
  BY <1>2, <1>5 DEF SendRefused, Refused, Labels, Tasks, rbVars
<1>6. ASSUME NEW r \in Receivers, xRingbufferReceive(r) PROVE RxInv'
  BY <1>2, <1>6 DEF xRingbufferReceive, CallReceive, Labels, Tasks, rbVars
<1>7. ASSUME NEW r \in Receivers, NEW m \in MaxSizes, ReceiveGets(r, m) PROVE RxInv'
  <2>0. r \in Tasks
    BY DEF Tasks
  <2>1. PICK l \in {"giveRx", "idle"} : Goto(r, l) /\ (xItemsWaiting' > 0 => l = "giveRx")
    BY <1>7 DEF ReceiveGets
  <2>2. pc'[r] = l
    BY <1>1, <2>0, <2>1, GotoOne DEF Labels
  <2>3. RxKept'
    BY <2>0, <2>1, <2>2 DEF RxKept
  <2>4. HeldIdle'
    BY <2>2 DEF HeldIdle, Alone
  <2> QED
    BY <2>3, <2>4 DEF RxInv
<1>8. ASSUME NEW r \in Receivers, ReceiveRefused(r) PROVE RxInv'
  <2>0. r \in Tasks
    BY DEF Tasks
  <2>1. pc[r] = "receive" /\ ~prvCheckItemAvail /\ UNCHANGED <<xItemsWaiting, held>>
    BY <1>8 DEF ReceiveRefused, rbVars
  <2>2. xItemsWaiting = 0
    BY <2>1, RefusedMeansEmpty DEF RxInv
  <2>3. held[r] = None
    BY <2>1 DEF RxInv, HeldIdle
  <2>4. RxKept'
    BY <2>1, <2>2 DEF RxKept
  <2>5. HeldIdle'
    BY <2>1, <2>3 DEF HeldIdle, Alone
  <2> QED
    BY <2>4, <2>5 DEF RxInv
<1>9. ASSUME NEW r \in Receivers, vRingbufferReturnItem(r) PROVE RxInv'
  <2>0. r \in Tasks /\ pc[r] = "idle" /\ Goto(r, "giveTx") /\ UNCHANGED <<rx, xItemsWaiting>>
    BY <1>9 DEF vRingbufferReturnItem, Tasks, prvReturnItemByteBuf
  <2>1. pc'[r] = "giveTx" /\ \A u \in Tasks : u # r => pc'[u] = pc[u]
    BY <1>1, <2>0, GotoOne DEF Labels
  <2>2. RxKept'
    BY <2>0, <2>1 DEF RxInv, RxKept
  <2>3. HeldIdle'
    BY <2>1 DEF HeldIdle, Alone
  <2> QED
    BY <2>2, <2>3 DEF RxInv
<1>10. ASSUME NEW t \in Tasks, Semaphores(t) PROVE RxInv'
  <2>1. UNCHANGED <<xItemsWaiting, held>>
    BY <1>10 DEF Semaphores, rbVars
  <2>2. CASE TakeTx(t)
    BY <1>2, <2>1, <2>2 DEF TakeTx, Labels
  <2>3. CASE TakeRx(t)
    <3>0. pc[t] = "takeRx" /\ Goto(t, "receive")
      BY <2>3 DEF TakeRx
    <3>1. pc'[t] = "receive" /\ \A u \in Tasks : u # t => pc'[u] = pc[u]
      BY <1>1, <3>0, GotoOne DEF Labels
    <3>2. RxKept'
      BY <3>1 DEF RxKept
    <3>3. HeldIdle'
      BY <2>1, <3>0, <3>1 DEF RxInv, HeldIdle, Tasks
    <3> QED
      BY <3>2, <3>3 DEF RxInv
  <2>4. CASE TakeTimeout(t)
    BY <1>2, <2>1, <2>4 DEF TakeTimeout, Labels
  <2>5. CASE GiveTx(t)
    BY <1>2, <2>1, <2>5 DEF GiveTx, Labels
  <2>6. CASE GiveRx(t)
    <3>0. Goto(t, "idle") /\ rx'
      BY <2>6 DEF GiveRx
    <3>1. pc'[t] = "idle" /\ \A u \in Tasks : u # t => pc'[u] = pc[u]
      BY <1>1, <3>0, GotoOne DEF Labels
    <3>2. HeldIdle'
      BY <2>1, <3>1 DEF RxInv, HeldIdle, Tasks
    <3> QED
      BY <3>0, <3>2 DEF RxInv, RxKept
  <2> QED
    BY <1>10, <2>2, <2>3, <2>4, <2>5, <2>6 DEF Semaphores, SemaphoreStep
<1>11. CASE UNCHANGED vars
  BY <1>11 DEF vars, RxInv, RxKept, HeldIdle
<1> QED
  BY <1>3, <1>4, <1>5, <1>6, <1>7, <1>8, <1>9, <1>10, <1>11 DEF Next

(* With one receiver, and any number of senders, bytes that it could       *)
(* retrieve never wait without RecvSem being available or in use: the take *)
(* in prvReceiveGeneric does not block beside them.  (With a second        *)
(* receiver they can, because a refused receiver keeps RecvSem and         *)
(* vRingbufferReturnItem gives TransSem only.)                             *)
THEOREM RxNeverLost ==
  ASSUME \A q, r \in Receivers : q = r
  PROVE  Spec => []RxNotLost
<1>1. Alone
  BY DEF Alone
<1>2. Init => RxInv
  BY DEF Init, TasksInit, RxInv, RxKept, HeldIdle
<1>3. BInv /\ RxInv /\ [Next]_vars => RxInv'
  BY <1>1, NextRxInv
<1>4. RxInv => RxNotLost
  BY DEF RxInv, RxKept, RxNotLost, prvCheckItemAvail
<1> QED
  BY BInvAlways, <1>2, <1>3, <1>4, PTL DEF Spec

-----------------------------------------------------------------------------
(* The byte buffer implements the bounded FIFO stream ByteFifo *)


(* A stretch of the ring, read from the storage area, is a sequence. *)
LEMMA BytesSeq ==
  ASSUME buf \in [Index -> Byte], NEW p \in Index, NEW n \in 0..xSize
  PROVE  /\ Bytes(p, n) \in Seq(Byte)
         /\ Len(Bytes(p, n)) = n
         /\ \A k \in 1..n : Bytes(p, n)[k] = buf[Wrap(p + k - 1)]
<1>1. \A k \in 1..n : Wrap(p + k - 1) \in Index
  BY RingbufByteBufAssumption DEF Wrap
<1>2. Bytes(p, n) \in [1..n -> Byte]
  BY <1>1 DEF Bytes
<1>3. n \in Nat
  OBVIOUS
<1>4. Bytes(p, n) \in Seq(Byte) /\ Len(Bytes(p, n)) = n
  BY <1>2, <1>3, ItemLen
<1> QED
  BY <1>4 DEF Bytes

(* The same for the primed storage area. *)
LEMMA BytesSeqPrime ==
  ASSUME buf' \in [Index -> Byte], NEW p \in Index, NEW n \in 0..xSize
  PROVE  LET b == [k \in 1..n |-> buf'[Wrap(p + k - 1)]]
         IN  /\ b \in Seq(Byte)
             /\ Len(b) = n
             /\ \A k \in 1..n : b[k] = buf'[Wrap(p + k - 1)]
<1> DEFINE b == [k \in 1..n |-> buf'[Wrap(p + k - 1)]]
<1>1. \A k \in 1..n : Wrap(p + k - 1) \in Index
  BY RingbufByteBufAssumption DEF Wrap
<1>2. b \in [1..n -> Byte]
  BY <1>1
<1>3. n \in Nat
  OBVIOUS
<1>4. b \in Seq(Byte) /\ Len(b) = n
  BY <1>2, <1>3, ItemLen
<1> QED
  BY <1>4

(* Bytes that lie behind the item being copied are not touched by it: a    *)
(* stretch of len bytes that ends gap bytes before pucAcquire, with room   *)
(* for the item in the rest of the ring, reads the same afterwards.        *)
LEMMA CopyKeeps ==
  ASSUME BInv, NEW n \in 1..xSize, NEW item \in [1..n -> Byte],
         prvCopyItemByteBuf(item),
         NEW p \in Index, NEW len \in 0..xSize, NEW gap \in 0..xSize,
         pucAcquire = Wrap(p + len + gap), len + gap + n <= xSize
  PROVE  \A k \in 1..len : buf'[Wrap(p + k - 1)] = buf[Wrap(p + k - 1)]
<1> SUFFICES ASSUME NEW k \in 1..len PROVE buf'[Wrap(p + k - 1)] = buf[Wrap(p + k - 1)]
  OBVIOUS
<1> DEFINE i == Wrap(p + k - 1)
<1>1. Len(item) = n
  BY ItemLen
<1>2. i \in Index /\ pucAcquire \in Index
  BY RingbufByteBufAssumption DEF Wrap, BInv, TypeOK
<1>3. ~(Offset(pucAcquire, i) < n)
  BY RingbufByteBufAssumption DEF Wrap, Offset
<1>4. buf' = [j \in Index |-> IF Offset(pucAcquire, j) < n
                             THEN item[Offset(pucAcquire, j) + 1] ELSE buf[j]]
  BY <1>1 DEF prvCopyItemByteBuf
<1> HIDE DEF i
<1>5. buf'[i] = buf[i]
  BY <1>2, <1>3, <1>4
<1> QED
  BY <1>5 DEF i

(* The item is stored from pucAcquire on. *)
LEMMA CopyStores ==
  ASSUME BInv, NEW n \in 1..xSize, NEW item \in [1..n -> Byte], prvCopyItemByteBuf(item)
  PROVE  \A k \in 1..n : buf'[Wrap(pucAcquire + k - 1)] = item[k]
<1> SUFFICES ASSUME NEW k \in 1..n PROVE buf'[Wrap(pucAcquire + k - 1)] = item[k]
  OBVIOUS
<1> DEFINE i == Wrap(pucAcquire + k - 1)
<1>1. Len(item) = n
  BY ItemLen
<1>2. pucAcquire \in Index
  BY DEF BInv, TypeOK
<1>3. i \in Index /\ Offset(pucAcquire, i) = k - 1
  BY <1>2, RingbufByteBufAssumption DEF Wrap, Offset
<1>4. buf' = [j \in Index |-> IF Offset(pucAcquire, j) < n
                             THEN item[Offset(pucAcquire, j) + 1] ELSE buf[j]]
  BY <1>1 DEF prvCopyItemByteBuf
<1> HIDE DEF i
<1>5. buf'[i] = item[k]
  BY <1>3, <1>4
<1> QED
  BY <1>5 DEF i

(* An item that fits has room beside what waits and what is held. *)
LEMMA FitsMeansRoom ==
  ASSUME BInv, NEW n \in Sizes, prvCheckItemFitsByteBuffer(n)
  PROVE  /\ xItemsWaiting + n <= xSize
         /\ \A r \in Receivers : xItemsWaiting + held[r].len + n <= xSize
<1>1. /\ pucAcquire \in Index /\ pucRead \in Index /\ pucFree \in Index
      /\ xItemsWaiting \in 0..xSize /\ full \in BOOLEAN
      /\ held \in [Receivers -> [at : Index, len : 0..xSize]]
      /\ pucAcquire = Wrap(pucRead + xItemsWaiting)
  BY DEF BInv, TypeOK, PointersAgree
<1>2. CASE \A r \in Receivers : held[r].len = 0
  <2>1. pucRead = pucFree /\ (full <=> xItemsWaiting = xSize)
    BY <1>2 DEF BInv, PointersAgree
  <2>2. xItemsWaiting + n <= xSize
    BY <1>1, <2>1, RingbufByteBufAssumption DEF prvCheckItemFitsByteBuffer, Wrap
  <2> QED
    BY <1>1, <1>2, <2>2
<1>3. CASE \E r \in Receivers : held[r].len # 0
  <2>1. PICK r \in Receivers : held[r].len # 0
    BY <1>3
  <2> DEFINE h == held[r].len
  <2>2. h \in 1..xSize
    BY <1>1, <2>1
  <2>3. /\ pucRead = Wrap(pucFree + h)
        /\ h + xItemsWaiting <= xSize
        /\ full <=> h + xItemsWaiting = xSize
        /\ \A q \in Receivers : held[q].len > 0 => q = r
    BY <2>2 DEF BInv, PointersAgree
  <2> HIDE DEF h
  <2>4. h + xItemsWaiting + n <= xSize
    BY <1>1, <2>2, <2>3, RingbufByteBufAssumption DEF prvCheckItemFitsByteBuffer, Wrap
  <2>5. ASSUME NEW q \in Receivers PROVE xItemsWaiting + held[q].len + n <= xSize
    <3>1. held[q].len = 0 \/ held[q].len = h
      BY <1>1, <2>3 DEF h
    <3> QED
      BY <1>1, <2>2, <2>4, <3>1, RingbufByteBufAssumption
  <2>6. xItemsWaiting + n <= xSize
    BY <1>1, <2>2, <2>4, RingbufByteBufAssumption
  <2> QED
    BY <2>5, <2>6
<1> QED
  BY <1>2, <1>3

(* What a held piece is: it ends where the waiting bytes begin. *)
LEMMA HeldPlace ==
  ASSUME BInv, NEW r \in Receivers, held[r].len # 0
  PROVE  /\ held[r].at \in Index /\ held[r].len \in 1..xSize
         /\ held[r].len + xItemsWaiting <= xSize
         /\ pucAcquire = Wrap(held[r].at + held[r].len + xItemsWaiting)
<1>1. /\ pucRead \in Index /\ pucFree \in Index /\ xItemsWaiting \in 0..xSize
      /\ held[r].at \in Index /\ held[r].len \in 1..xSize
      /\ pucAcquire = Wrap(pucRead + xItemsWaiting)
  BY DEF BInv, TypeOK, PointersAgree
<1>2. /\ held[r].at = pucFree
      /\ pucRead = Wrap(pucFree + held[r].len)
      /\ held[r].len + xItemsWaiting <= xSize
  BY <1>1 DEF BInv, PointersAgree
<1> QED
  BY <1>1, <1>2, RingbufByteBufAssumption DEF Wrap

-----------------------------------------------------------------------------
(* Each critical section is a step of the FIFO stream *)

(* A send appends its item. *)
LEMMA SendPuts ==
  ASSUME BInv, BInv', NEW s \in Senders, NEW item \in [1..arg[s] -> Byte], SendFits(s, item)
  PROVE  Fifo!FifoNext
<1> DEFINE n == arg[s]
<1>1. n \in 1..xSize
  BY DEF BInv, SendFits, ArgSet
<1>2. Len(item) = n /\ item \in Seq(Byte)
  BY <1>1, ItemLen
<1>3. prvCopyItemByteBuf(item) /\ prvCheckItemFitsByteBuffer(n) /\ held' = held
  BY DEF SendFits
<1>4. /\ buf \in [Index -> Byte] /\ buf' \in [Index -> Byte]
      /\ pucRead \in Index /\ pucRead' = pucRead
      /\ xItemsWaiting \in 0..xSize /\ xItemsWaiting' = xItemsWaiting + n
      /\ held \in [Receivers -> [at : Index, len : 0..xSize]]
      /\ pucAcquire = Wrap(pucRead + xItemsWaiting)
  BY <1>2, <1>3 DEF BInv, TypeOK, PointersAgree, prvCopyItemByteBuf
<1>5. /\ xItemsWaiting + n <= xSize
      /\ \A r \in Receivers : xItemsWaiting + held[r].len + n <= xSize
  BY <1>1, <1>3, FitsMeansRoom
<1>6. item \in [1..n -> Byte]
  OBVIOUS
<1> HIDE DEF n
<1>7. Queue' = Queue \o item
  <2> DEFINE W == xItemsWaiting
  <2> DEFINE b == [k \in 1..(W + n) |-> buf'[Wrap(pucRead + k - 1)]]
  <2>1. Queue' = b
    BY <1>4 DEF Queue, Bytes, Wrap
  <2>2. W + n \in 0..xSize
    BY <1>1, <1>4, <1>5
  <2>3. b \in Seq(Byte) /\ Len(b) = W + n
        /\ \A k \in 1..(W + n) : b[k] = buf'[Wrap(pucRead + k - 1)]
    BY <1>4, <2>2, BytesSeqPrime
  <2>4. Queue \in Seq(Byte) /\ Len(Queue) = W
        /\ \A k \in 1..W : Queue[k] = buf[Wrap(pucRead + k - 1)]
    BY <1>4, BytesSeq DEF Queue
  <2>5. /\ Queue \o item \in Seq(Byte)
        /\ Len(Queue \o item) = W + n
        /\ \A i \in 1..(W + n) : (Queue \o item)[i] = IF i <= W THEN Queue[i] ELSE item[i - W]
    BY <1>2, <2>4, ConcatProperties
  <2> HIDE DEF b
  <2>6. ASSUME NEW k \in 1..(W + n) PROVE b[k] = (Queue \o item)[k]
    <3>1. CASE k <= W
      <4>1. k \in 1..W
        BY <1>1, <1>4, <3>1
      <4>2. pucAcquire = Wrap(pucRead + W + 0) /\ W + 0 + n <= xSize /\ 0 \in 0..xSize
        BY <1>4, <1>5, RingbufByteBufAssumption
      <4>3. \A j \in 1..W : buf'[Wrap(pucRead + j - 1)] = buf[Wrap(pucRead + j - 1)]
        BY <1>1, <1>3, <1>4, <1>6, <4>2, CopyKeeps
      <4> QED
        BY <2>3, <2>4, <2>5, <3>1, <4>1, <4>3
    <3>2. CASE ~(k <= W)
      <4>1. k - W \in 1..n
        BY <1>1, <1>4, <3>2
      <4>2. buf'[Wrap(pucAcquire + (k - W) - 1)] = item[k - W]
        BY <1>1, <1>3, <1>6, <4>1, CopyStores
      <4>3. Wrap(pucAcquire + (k - W) - 1) = Wrap(pucRead + k - 1)
        BY <1>1, <1>4, <1>5, <4>1, RingbufByteBufAssumption DEF Wrap
      <4> QED
        BY <2>3, <2>5, <3>2, <4>2, <4>3
    <3> QED
      BY <3>1, <3>2
  <2> QED
    BY <2>1, <2>3, <2>5, <2>6, SeqEqual
<1>8. Lent' = Lent
  <2>1. ASSUME NEW r \in Receivers
        PROVE  Bytes(held[r].at, held[r].len)' = Bytes(held[r].at, held[r].len)
    <3>1. CASE held[r].len = 0
      BY <1>3, <3>1 DEF Bytes
    <3>2. CASE held[r].len # 0
      <4>1. /\ held[r].at \in Index /\ held[r].len \in 1..xSize
            /\ pucAcquire = Wrap(held[r].at + held[r].len + xItemsWaiting)
        BY <3>2, HeldPlace
      <4>2. held[r].len \in 0..xSize /\ held[r].len + xItemsWaiting + n <= xSize
        BY <1>1, <1>4, <1>5, <4>1
      <4>3. \A k \in 1..held[r].len :
              buf'[Wrap(held[r].at + k - 1)] = buf[Wrap(held[r].at + k - 1)]
        BY <1>1, <1>3, <1>4, <1>6, <4>1, <4>2, CopyKeeps
      <4> QED
        BY <1>3, <4>3 DEF Bytes, Wrap
    <3> QED
      BY <3>1, <3>2
  <2> QED
    BY <1>3, <2>1 DEF Lent
<1>9. \A r \in Receivers : Len(Queue) + Len(Lent[r]) + Len(item) <= xSize
  <2>1. Len(Queue) = xItemsWaiting
    BY <1>4, BytesSeq DEF Queue
  <2>2. ASSUME NEW r \in Receivers PROVE Len(Lent[r]) = held[r].len
    BY <1>4, BytesSeq DEF Lent
  <2> QED
    BY <1>2, <1>5, <2>1, <2>2
<1>10. Fifo!Put(item)
  BY <1>1, <1>2, <1>7, <1>8, <1>9 DEF Fifo!Put
<1> QED
  BY <1>1, <1>6, <1>10 DEF Fifo!FifoNext

(* A retrieval lends the front of the queue. *)
LEMMA GetLends ==
  ASSUME BInv, BInv', NEW r \in Receivers, NEW m \in MaxSizes, ReceiveGets(r, m)
  PROVE  Fifo!FifoNext
<1> DEFINE n == GetLen(m)
           W == xItemsWaiting
<1>1. /\ n \in 1..W
      /\ pucRead + n <= xSize
      /\ \A q \in Receivers : held[q].len = 0
      /\ held' = [held EXCEPT ![r] = [at |-> pucRead, len |-> n]]
      /\ xItemsWaiting' = W - n
      /\ pucRead' = Wrap(pucRead + n)
      /\ buf' = buf
  BY GetsEffect
<1> HIDE DEF n
<1>2. /\ buf \in [Index -> Byte] /\ pucRead \in Index /\ W \in 0..xSize
      /\ held \in [Receivers -> [at : Index, len : 0..xSize]]
      /\ pucRead' \in Index
  BY DEF BInv, TypeOK
<1>3. n \in 0..xSize /\ W - n \in 0..xSize /\ n \in Int /\ W \in Int /\ n + 1 \in Int
  BY <1>1, <1>2, RingbufByteBufAssumption
<1>4. Queue \in Seq(Byte) /\ Len(Queue) = W
      /\ \A k \in 1..W : Queue[k] = buf[Wrap(pucRead + k - 1)]
  BY <1>2, BytesSeq DEF Queue
<1>5. \A k \in 1..W : Queue[k] \in Byte
  BY <1>4, ElementOfSeq
<1>6. Bytes(pucRead, n) = SubSeq(Queue, 1, n)
  <2>1. \A k \in 1..n : Queue[k] \in Byte
    BY <1>1, <1>2, <1>5
  <2>2. /\ SubSeq(Queue, 1, n) \in Seq(Byte)
        /\ Len(SubSeq(Queue, 1, n)) = IF 1 <= n THEN n - 1 + 1 ELSE 0
        /\ \A k \in 1..(n - 1 + 1) : SubSeq(Queue, 1, n)[k] = Queue[1 + k - 1]
    BY <1>3, <2>1, SubSeqProperties
  <2>3. /\ Bytes(pucRead, n) \in Seq(Byte)
        /\ Len(Bytes(pucRead, n)) = n
        /\ \A k \in 1..n : Bytes(pucRead, n)[k] = buf[Wrap(pucRead + k - 1)]
    BY <1>2, <1>3, BytesSeq
  <2>4. Len(SubSeq(Queue, 1, n)) = n
    BY <1>1, <1>3, <2>2
  <2>5. ASSUME NEW k \in 1..n PROVE Bytes(pucRead, n)[k] = SubSeq(Queue, 1, n)[k]
    <3>1. k \in 1..(n - 1 + 1) /\ k \in 1..W /\ 1 + k - 1 = k
      BY <1>1, <1>2, <1>3
    <3> QED
      BY <1>4, <2>2, <2>3, <3>1
  <2> QED
    BY <2>2, <2>3, <2>4, <2>5, SeqEqual
<1>7. Queue' = SubSeq(Queue, n + 1, Len(Queue))
  <2> DEFINE p == Wrap(pucRead + n)
             rest == Bytes(p, W - n)
  <2>1. Queue' = rest
    BY <1>1 DEF Queue, Bytes, Wrap
  <2>2. p \in Index
    BY <1>1, <1>2
  <2>3. /\ rest \in Seq(Byte)
        /\ Len(rest) = W - n
        /\ \A k \in 1..(W - n) : rest[k] = buf[Wrap(p + k - 1)]
    BY <1>2, <1>3, <2>2, BytesSeq
  <2>4. \A k \in (n + 1)..W : Queue[k] \in Byte
    BY <1>1, <1>2, <1>5
  <2>5. /\ SubSeq(Queue, n + 1, W) \in Seq(Byte)
        /\ Len(SubSeq(Queue, n + 1, W)) = IF n + 1 <= W THEN W - (n + 1) + 1 ELSE 0
        /\ \A k \in 1..(W - (n + 1) + 1) : SubSeq(Queue, n + 1, W)[k] = Queue[(n + 1) + k - 1]
    BY <1>3, <2>4, SubSeqProperties
  <2>6. Len(SubSeq(Queue, n + 1, W)) = W - n
    BY <1>1, <1>2, <2>5
  <2> HIDE DEF rest
  <2>7. ASSUME NEW k \in 1..(W - n) PROVE rest[k] = SubSeq(Queue, n + 1, W)[k]
    <3>1. k \in 1..(W - (n + 1) + 1) /\ (n + 1) + k - 1 \in 1..W
      BY <1>1, <1>2
    <3>2. Wrap(p + k - 1) = Wrap(pucRead + ((n + 1) + k - 1) - 1)
      BY <1>1, <1>2, <3>1, RingbufByteBufAssumption DEF Wrap
    <3> QED
      BY <1>4, <2>3, <2>5, <3>1, <3>2
  <2> QED
    BY <1>4, <2>1, <2>3, <2>5, <2>6, <2>7, SeqEqual
<1>8. \A q \in Receivers : Lent[q] = << >>
  BY <1>1 DEF Lent, Bytes
<1>9. Lent' = [Lent EXCEPT ![r] = SubSeq(Queue, 1, n)]
  <2>1. ASSUME NEW q \in Receivers
        PROVE  Bytes(held[q].at, held[q].len)' =
                 IF q = r THEN Bytes(pucRead, n) ELSE Bytes(held[q].at, held[q].len)
    BY <1>1, <1>2 DEF Bytes, Wrap
  <2> QED
    BY <1>6, <2>1 DEF Lent
<1>10. n \in 1..Len(Queue) /\ Fifo!Lend(r, n)
  BY <1>1, <1>4, <1>7, <1>8, <1>9 DEF Fifo!Lend
<1> QED
  BY <1>10 DEF Fifo!FifoNext

(* A return gives back what was lent. *)
LEMMA ReturnGivesBack ==
  ASSUME BInv, NEW r \in Receivers, vRingbufferReturnItem(r)
  PROVE  Fifo!FifoNext
<1>1. /\ UNCHANGED <<buf, pucRead, xItemsWaiting>>
      /\ held' = [held EXCEPT ![r] = None]
  BY DEF vRingbufferReturnItem, prvReturnItemByteBuf
<1>2. /\ held \in [Receivers -> [at : Index, len : 0..xSize]]
      /\ buf \in [Index -> Byte]
      /\ held[r].len # 0
  BY DEF BInv, TypeOK, HeldNone, vRingbufferReturnItem
<1>3. Queue' = Queue
  BY <1>1 DEF Queue, Bytes, Wrap
<1>4. Lent' = [Lent EXCEPT ![r] = << >>]
  <2>1. ASSUME NEW q \in Receivers
        PROVE  Bytes(held[q].at, held[q].len)' =
                 IF q = r THEN << >> ELSE Bytes(held[q].at, held[q].len)
    BY <1>1, <1>2 DEF Bytes, Wrap, None
  <2> QED
    BY <2>1 DEF Lent
<1>5. Lent[r] # << >>
  <2>1. Len(Lent[r]) = held[r].len
    BY <1>2, BytesSeq DEF Lent
  <2>2. Len(<< >>) = 0
    OBVIOUS
  <2> QED
    BY <1>2, <2>1, <2>2
<1>6. Fifo!GiveBack(r)
  BY <1>3, <1>4, <1>5 DEF Fifo!GiveBack
<1> QED
  BY <1>6 DEF Fifo!FifoNext

(* Every step of the byte buffer is a step of the stream or leaves it      *)
(* unchanged.                                                              *)
LEMMA StepSimulates ==
  ASSUME BInv, BInv', [Next]_vars
  PROVE  [Fifo!FifoNext]_(Fifo!fifoVars)
<1>1. ASSUME UNCHANGED <<rbVars, held>> PROVE UNCHANGED Fifo!fifoVars
  <2>1. UNCHANGED <<buf, pucRead, xItemsWaiting, held>>
    BY <1>1 DEF rbVars
  <2>2. Queue' = Queue
    BY <2>1 DEF Queue, Bytes, Wrap
  <2>3. Lent' = Lent
    BY <2>1 DEF Lent, Bytes, Wrap
  <2> QED
    BY <2>2, <2>3 DEF Fifo!fifoVars
<1>2. ASSUME NEW s \in Senders, NEW item \in [1..arg[s] -> Byte], SendFits(s, item)
      PROVE  Fifo!FifoNext
  BY <1>2, SendPuts
<1>3. ASSUME NEW r \in Receivers, NEW m \in MaxSizes, ReceiveGets(r, m)
      PROVE  Fifo!FifoNext
  BY <1>3, GetLends
<1>4. ASSUME NEW r \in Receivers, vRingbufferReturnItem(r) PROVE Fifo!FifoNext
  BY <1>4, ReturnGivesBack
<1>5. ASSUME NEW s \in Senders, NEW n \in Sizes, xRingbufferSend(s, n)
      PROVE  UNCHANGED <<rbVars, held>>
  BY <1>5 DEF xRingbufferSend
<1>6. ASSUME NEW s \in Senders, SendRefused(s) PROVE UNCHANGED <<rbVars, held>>
  BY <1>6 DEF SendRefused
<1>7. ASSUME NEW r \in Receivers, xRingbufferReceive(r) \/ ReceiveRefused(r)
      PROVE  UNCHANGED <<rbVars, held>>
  BY <1>7 DEF xRingbufferReceive, ReceiveRefused
<1>8. ASSUME NEW t \in Tasks, Semaphores(t) PROVE UNCHANGED <<rbVars, held>>
  BY <1>8 DEF Semaphores
<1>9. CASE UNCHANGED vars
  BY <1>1, <1>9 DEF vars, rbVars
<1> QED
  BY <1>1, <1>2, <1>3, <1>4, <1>5, <1>6, <1>7, <1>8, <1>9 DEF Next

(* The byte buffer implements the bounded FIFO stream: for every size and  *)
(* any number of concurrent senders and receivers, bytes come out once,    *)
(* unchanged and in order, and a retrieved piece is not overwritten before *)
(* it is returned.                                                         *)
THEOREM ByteBufImplementsFifo == Spec => ImplementsFifo
<1>1. Init => Fifo!FifoInit
  <2> SUFFICES ASSUME Init PROVE Fifo!FifoInit
    OBVIOUS
  <2>1. Queue = << >>
    BY DEF Init, Queue, Bytes
  <2>2. Lent = [r \in Receivers |-> << >>]
    BY DEF Init, Lent, Bytes, None
  <2> QED
    BY <2>1, <2>2 DEF Fifo!FifoInit
<1>2. BInv /\ BInv' /\ [Next]_vars => [Fifo!FifoNext]_(Fifo!fifoVars)
  BY StepSimulates
<1> QED
  BY <1>1, <1>2, BInvAlways, PTL DEF Spec, ImplementsFifo, Fifo!FifoSpec
=============================================================================
