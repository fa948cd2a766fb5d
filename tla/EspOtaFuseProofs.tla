-------------------------- MODULE EspOtaFuseProofs --------------------------
(***************************************************************************)
(* Proofs about anti-rollback in EspOta: the version burnt into the eFuses *)
(* never leaves the device without an app that can be started.             *)
(***************************************************************************)
EXTENDS EspOtaSelectProofs

----------------------------------------------------------------------------
(* Records of confirmed apps *)

Confirmed(e) == ota_select_valid(e) /\ e.state = "VALID"

(* The app that the record e confirms can be started when the fuses show   *)
(* sv; the bootloader may raise them to its version.                       *)
Good(e, fl, sv) == Confirmed(e) /\ Bootable(fl[SlotOf(e)], sv)

(* The record outlived its app: the slot was erased for an update, or the  *)
(* version has been revoked.                                               *)
Stale(e, fl, sv) == Confirmed(e) /\ ~Bootable(fl[SlotOf(e)], sv)

(* A stale record is never the one in force. *)
Backed(d, fl, sv) ==
  \A i \in 0..1 : Stale(d[i], fl, sv) => Good(d[1 - i], fl, sv) /\ Beats(1 - i, d[1 - i], d[i])

(* No record with a CRC lacks a state. *)
Known(e) == e.crcOk => e.state # "UNDEFINED"

StatesKnown ==
  /\ \A i \in 0..1 : Known(otadata[i])
  /\ \A k \in 1 .. Len(todo) : todo[k].op = "write_entry" => Known(todo[k].e)

----------------------------------------------------------------------------
(* What is queued *)

(* Slot p is erased or written; a record that confirms it yields. *)
Filling(p) ==
  /\ pc = "run" /\ p # running
  /\ \A k \in 1 .. Len(todo) : todo[k].op \in {"erase_cell", "write_cell"} /\ todo[k].p = p
  /\ \A i \in 0..1 : Confirmed(otadata[i]) /\ SlotOf(otadata[i]) = p =>
       /\ Good(otadata[1 - i], flash, secver) /\ SlotOf(otadata[1 - i]) # p
       /\ Beats(1 - i, otadata[1 - i], otadata[i])

(* Sector j holds a record that will be good when the fuses show v. *)
Holds(j, v) ==
  /\ Good(otadata[j], flash, v)
  /\ \A k \in 1 .. Len(todo) : ~Touches(todo[k], j)
  /\ Confirmed(otadata[1 - j]) => Beats(j, otadata[j], otadata[1 - j])

(* Records are erased or written that nothing depends on, none of them     *)
(* confirmed; last, the fuses may be burnt.                                *)
Recordkeeping ==
  \A k \in 1 .. Len(todo) :
    /\ todo[k].op \in {"erase_entry", "write_entry", "burn"}
    /\ todo[k].op = "write_entry" => ~Confirmed(todo[k].e)
    /\ \A i \in 0..1 : Touches(todo[k], i) =>
         /\ ~Stale(otadata[1 - i], flash, secver)
         /\ pc = "run" => ~(Confirmed(otadata[1 - i]) /\ SlotOf(otadata[1 - i]) # running)
    /\ todo[k].op = "burn" => k = Len(todo) /\ \E j \in 0..1 : Holds(j, todo[k].v)

(* The record e of the running app is written to sector j as confirmed;    *)
(* last, the fuses may be burnt.                                           *)
Confirming(j, e) ==
  /\ pc = "run"
  /\ Good(e, flash, secver) /\ SlotOf(e) = running
  /\ ~Stale(otadata[1 - j], flash, secver)
  /\ Confirmed(otadata[1 - j]) => Beats(j, e, otadata[1 - j])
  /\ \E n \in 1 .. 2 :
       /\ n <= Len(todo) /\ todo[n] = WriteEntry(j, e)
       /\ n = 2 => todo[1] = EraseEntry(j)
       /\ \A k \in n + 1 .. Len(todo) :
            k = Len(todo) /\ todo[k].op = "burn" /\ Good(e, flash, todo[k].v)

Queued ==
  \/ \E p \in Slots : Filling(p)
  \/ Recordkeeping
  \/ \E j \in 0..1, e \in Entry : Confirming(j, e)

----------------------------------------------------------------------------
(* The running app and the boot that started it *)

(* The other record is in force, names the running app, and is confirmed   *)
(* if an update of the app of record i has begun.                          *)
Yields(i) ==
  LET x == otadata[1 - i]
  IN /\ Beats(1 - i, x, otadata[i]) /\ SlotOf(x) = running
     /\ x.state \in {"PENDING_VERIFY", "VALID"}
     /\ (\E h \in Handles : ops[h].part = SlotOf(otadata[i])) => x.state = "VALID"

RunSafe ==
  pc = "run" =>
    \/ \E j \in 0..1, e \in Entry : Confirming(j, e)
    \/ \A i \in 0..1 : Confirmed(otadata[i]) /\ SlotOf(otadata[i]) # running => Yields(i)

(* The bootloader starts from the app of record i, which can be started. *)
StartsConfirmed(i) ==
  /\ boot.index = SlotOf(otadata[i]) /\ Bootable(flash[SlotOf(otadata[i])], secver)
  /\ \A k \in 1 .. Len(todo) :
       /\ ~Touches(todo[k], i)
       /\ todo[k].op = "burn" => Bootable(flash[SlotOf(otadata[i])], todo[k].v)

(* It starts from the app of the other record, which will be e. *)
StartsOther(i, e) ==
  /\ boot.index = SlotOf(e) /\ Beats(1 - i, e, otadata[i])
  /\ e.state \in {"PENDING_VERIFY", "VALID"}
  /\ \/ /\ todo \in {Rewrite(1 - i, e), <<WriteEntry(1 - i, e)>>}
        /\ Bootable(flash[SlotOf(otadata[i])], secver)
     \/ /\ otadata[1 - i] = e
        /\ \A k \in 1 .. Len(todo) : todo[k].op = "burn" /\ Bootable(flash[SlotOf(e)], todo[k].v)
        /\ \/ Bootable(flash[SlotOf(e)], secver)
           \/ Bootable(flash[SlotOf(otadata[i])], secver)

Choice ==
  pc \in {"gpio", "load"} =>
    \A i \in 0..1 : Confirmed(otadata[i]) =>
      StartsConfirmed(i) \/ \E e \in Entry : StartsOther(i, e)

FuseInv ==
  /\ Inv /\ Backed(otadata, flash, secver) /\ StatesKnown /\ Queued /\ RunSafe /\ Choice
  /\ StillInitial /\ NeverBricked

----------------------------------------------------------------------------
(* Images and versions *)

(* An app that can be started can be with a lower version on chip. *)
LEMMA BootableBelow ==
  ASSUME ANTI_ROLLBACK, NEW img, NEW v \in Nat, NEW w \in Nat, w <= v, Bootable(img, v)
  PROVE  Bootable(img, w)
<1>1. SecureVersion(img) \in Nat /\ SecureVersion(img) >= v
  BY OtaAssumption DEF Bootable, check_anti_rollback, HasDescription, SecureVersion
<1>2. SecureVersion(img) >= w
  BY <1>1
<1> QED BY <1>2 DEF Bootable, check_anti_rollback

(* An app that can be started still can when the fuses show its version. *)
LEMMA BootableOwn ==
  ASSUME ANTI_ROLLBACK, NEW img, NEW sv, Bootable(img, sv)
  PROVE  SecureVersion(img) \in Versions /\ Bootable(img, SecureVersion(img))
<1>1. Verifies(img) /\ HasDescription(img)
  BY DEF Bootable, check_anti_rollback
<1>2. SecureVersion(img) \in Versions
  BY <1>1 DEF HasDescription, SecureVersion
<1>3. SecureVersion(img) >= SecureVersion(img)
  <2>1. SecureVersion(img) \in Nat
    BY <1>2, OtaAssumption
  <2> QED BY <2>1
<1> QED BY <1>1, <1>2, <1>3 DEF Bootable, check_anti_rollback

(* A confirmed record is in order. *)
LEMMA ConfirmedValid ==
  ASSUME NEW e
  PROVE  Confirmed(e) => ota_select_valid(e) /\ e.state = "VALID" /\ e.crcOk
BY DEF Confirmed, ota_select_valid

(* A confirmed record is stale or good, and not both. *)
LEMMA StaleOrGood ==
  ASSUME NEW e, NEW fl, NEW sv
  PROVE  /\ Confirmed(e) <=> Stale(e, fl, sv) \/ Good(e, fl, sv)
         /\ ~(Stale(e, fl, sv) /\ Good(e, fl, sv))
BY DEF Stale, Good

(* The apps are in the slots, and one that can be started is loadable. *)
LEMMA OnlySlots ==
  ASSUME ANTI_ROLLBACK, ~HasTest
  PROVE  /\ Parts = Slots
         /\ \A fl, sv : \A p \in Slots : Bootable(fl[p], sv) => Loadable(fl, sv) # {}
         /\ \A fl, sv : \A p \in Slots : Bootable(fl[p], sv) => p \in Loadable(fl, sv)
<1>1. Parts = Slots
  BY OtaAssumption DEF Parts
<1>2. TEST_APP_INDEX \notin Slots
  BY DEF Slots, TEST_APP_INDEX
<1>3. \A fl, sv : \A p \in Slots : Bootable(fl[p], sv) => p \in Loadable(fl, sv)
  BY <1>1, <1>2 DEF Loadable
<1> QED BY <1>1, <1>3

(* Two records do not beat each other. *)
LEMMA BeatsOnce ==
  ASSUME NEW d \in [0..1 -> Entry], NEW i \in 0..1, Beats(i, d[i], d[1 - i])
  PROVE  ~Beats(1 - i, d[1 - i], d[i])
<1>1. d[i].seq \in Int /\ d[1 - i].seq \in Int
  <2>1. 1 - i \in 0..1
    OBVIOUS
  <2> QED BY <2>1, OtaAssumption DEF Entry, UINT32_MAX
<1> QED BY <1>1 DEF Beats

(* An app that runs can be started again. *)
LEMMA RunningBootable ==
  ASSUME ANTI_ROLLBACK, ~HasTest, Inv, running # NO_APP
  PROVE  running \in Slots /\ Bootable(flash[running], secver)
<1>1. running \in Slots
  BY OnlySlots DEF Inv, TypeOK
<1>2. Verifies(flash[running]) /\ SecureVersion(flash[running]) >= secver
  BY <1>1 DEF Inv, RunningIntact, RunningNotRevoked
<1>3. HasDescription(flash[running])
  BY <1>2, OtaAssumption DEF Verifies, HasDescription
<1> QED BY <1>1, <1>2, <1>3 DEF Bootable, check_anti_rollback

----------------------------------------------------------------------------
(* The operations *)

(* The first operation of the queue, and the rest. *)
LEMMA HeadOfQueue ==
  ASSUME TypeOK, todo # <<>>
  PROVE  /\ Head(todo) \in Operations /\ Head(todo) = todo[1]
         /\ Len(todo) \in Nat /\ 1 \in 1 .. Len(todo)
         /\ Len(Tail(todo)) = Len(todo) - 1
         /\ \A k \in 1 .. Len(todo) - 1 : Tail(todo)[k] = todo[k + 1] /\ k + 1 \in 1 .. Len(todo)
BY DEF TypeOK

(* The kinds of operations, and which of them touch a record. *)
LEMMA OperationKinds ==
  ASSUME NEW x \in Operations
  PROVE  /\ x.op \in {"erase_entry", "write_entry", "erase_cell", "write_cell", "burn"}
         /\ x.op \in {"erase_entry", "write_entry"}
              => x \in EntryOps /\ \E i \in 0..1 : Touches(x, i)
         /\ x.op \in {"erase_cell", "write_cell", "burn"} => \A i : ~Touches(x, i)
         /\ x.op = "burn" => x.v \in Versions /\ x.v \in Nat
<1>1. CASE \E i \in 0..1 : x = EraseEntry(i)
  BY <1>1 DEF EraseEntry, EntryOps, Touches
<1>2. CASE \E i \in 0..1, e \in Entry : x = WriteEntry(i, e)
  BY <1>2 DEF WriteEntry, EntryOps, Touches
<1>3. CASE \E q \in Parts, c \in 1 .. Chunks : x = EraseCell(q, c)
  BY <1>3 DEF EraseCell, Touches
<1>4. CASE \E q \in Slots, c \in 1 .. Chunks, v \in Versions : x = WriteCell(q, c, v)
  BY <1>4 DEF WriteCell, Touches
<1>5. CASE \E v \in Versions : x = Burn(v)
  BY <1>5, OtaAssumption DEF Burn, Touches
<1> QED BY <1>1, <1>2, <1>3, <1>4, <1>5, OperationCases

(* A record is replaced or loses its CRC; nothing else changes. *)
LEMMA EntryEffect ==
  ASSUME TypeOK, NEW x \in EntryOps, NEW i \in 0..1, Touches(x, i), Perform(x) \/ Tear(x),
         x.op = "write_entry" => Known(x.e)
  PROVE  /\ flash' = flash /\ secver' = secver
         /\ otadata' \in [0..1 -> Entry]
         /\ otadata'[1 - i] = otadata[1 - i]
         /\ ~otadata'[i].crcOk \/ (x.op = "write_entry" /\ otadata'[i] = x.e)
         /\ Known(otadata'[i])
<1>1. 1 - i \in 0..1 /\ ~Touches(x, 1 - i)
  BY DEF Touches
<1>2. ~otadata'[i].crcOk \/ (x.op = "write_entry" /\ otadata'[i] = x.e)
  BY EntryOpEffect
<1>3. otadata' \in [0..1 -> Entry] /\ otadata'[1 - i] = otadata[1 - i]
  BY <1>1, EntryOpEffect
<1>4. Known(otadata'[i])
  BY <1>2 DEF Known
<1> QED BY <1>2, <1>3, <1>4, EntryOpsKeepRest

(* An erased or programmed unit changes one partition only. *)
LEMMA CellEffect ==
  ASSUME TypeOK, NEW x \in Operations, x.op \in {"erase_cell", "write_cell"},
         Perform(x) \/ Tear(x)
  PROVE  /\ otadata' = otadata /\ secver' = secver
         /\ \A q \in Parts : q # x.p => flash'[q] = flash[q]
<1>1. CASE Perform(x)
  BY <1>1 DEF TypeOK, Perform
<1>2. CASE Tear(x)
  BY <1>2 DEF TypeOK, Tear
<1> QED BY <1>1, <1>2

(* Burning raises the version no further than asked. *)
LEMMA BurnEffect ==
  ASSUME TypeOK, NEW x \in Operations, x.op = "burn", Perform(x) \/ Tear(x)
  PROVE  /\ otadata' = otadata /\ flash' = flash
         /\ secver' \in Nat /\ secver' <= x.v
<1>1. x.v \in Nat
  BY OperationKinds
<1>2. CASE Perform(x)
  BY <1>1, <1>2 DEF TypeOK, Perform
<1>3. CASE Tear(x)
  BY <1>1, <1>3, OtaAssumption DEF TypeOK, Tear
<1> QED BY <1>2, <1>3

----------------------------------------------------------------------------
(* The records stay backed when one thing changes *)

(* A partition whose record yields may change. *)
LEMMA BackedFlash ==
  ASSUME NEW d \in [0..1 -> Entry], NEW fl, NEW fl2, NEW sv, NEW p, Backed(d, fl, sv),
         \A i \in 0..1 : Confirmed(d[i]) /\ SlotOf(d[i]) = p =>
           Good(d[1 - i], fl, sv) /\ SlotOf(d[1 - i]) # p /\ Beats(1 - i, d[1 - i], d[i]),
         \A q \in Slots : q # p => fl2[q] = fl[q]
  PROVE  /\ Backed(d, fl2, sv)
         /\ \A i \in 0..1 : Confirmed(d[i]) /\ SlotOf(d[i]) = p =>
              Good(d[1 - i], fl2, sv) /\ SlotOf(d[1 - i]) # p /\ Beats(1 - i, d[1 - i], d[i])
<1>1. \A i \in 0..1 : SlotOf(d[i]) \in Slots /\ 1 - i \in 0..1 /\ 1 - (1 - i) = i
  BY SlotOfType
<1>2. \A i \in 0..1 : SlotOf(d[i]) # p => /\ Good(d[i], fl2, sv) <=> Good(d[i], fl, sv)
                                          /\ Stale(d[i], fl2, sv) <=> Stale(d[i], fl, sv)
  BY <1>1 DEF Good, Stale
<1>3. ASSUME NEW i \in 0..1, Confirmed(d[i]), SlotOf(d[i]) = p
      PROVE  Good(d[1 - i], fl2, sv) /\ SlotOf(d[1 - i]) # p /\ Beats(1 - i, d[1 - i], d[i])
  BY <1>1, <1>2, <1>3
<1>4. ASSUME NEW i \in 0..1, Stale(d[i], fl2, sv)
      PROVE  Good(d[1 - i], fl2, sv) /\ Beats(1 - i, d[1 - i], d[i])
  <2>1. Confirmed(d[i])
    BY <1>4 DEF Stale
  <2>2. CASE SlotOf(d[i]) = p
    BY <1>3, <2>1, <2>2
  <2>3. CASE SlotOf(d[i]) # p
    <3>1. Stale(d[i], fl, sv)
      BY <1>2, <1>4, <2>3
    <3>2. Good(d[1 - i], fl, sv) /\ Beats(1 - i, d[1 - i], d[i])
      BY <3>1 DEF Backed
    <3>3. SlotOf(d[1 - i]) # p
      <4>1. SUFFICES ASSUME SlotOf(d[1 - i]) = p PROVE FALSE
        OBVIOUS
      <4>2. Good(d[1 - (1 - i)], fl, sv)
        BY <1>1, <3>2, <4>1 DEF Good
      <4>3. Good(d[i], fl, sv)
        BY <1>1, <4>2
      <4> QED BY <3>1, <4>3, StaleOrGood
    <3> QED BY <1>1, <1>2, <3>2, <3>3
  <2> QED BY <2>2, <2>3
<1> QED BY <1>3, <1>4 DEF Backed

(* A record may change when neither it nor the other one is stale. *)
LEMMA BackedEntry ==
  ASSUME NEW d \in [0..1 -> Entry], NEW c \in [0..1 -> Entry], NEW fl, NEW sv, NEW i \in 0..1,
         c[1 - i] = d[1 - i], ~Stale(d[1 - i], fl, sv), ~Stale(c[i], fl, sv)
  PROVE  Backed(c, fl, sv)
<1>1. \A j \in 0..1 : ~Stale(c[j], fl, sv)
  BY DEF Backed
<1> QED BY <1>1 DEF Backed

(* The version may rise as far as the app of the record in force. *)
LEMMA BackedBurn ==
  ASSUME NEW d \in [0..1 -> Entry], NEW fl, NEW sv, NEW j \in 0..1, Good(d[j], fl, sv),
         Confirmed(d[1 - j]) => Beats(j, d[j], d[1 - j])
  PROVE  Backed(d, fl, sv)
<1>1. ~Stale(d[j], fl, sv)
  BY StaleOrGood
<1>2. ASSUME NEW i \in 0..1, Stale(d[i], fl, sv)
      PROVE  Good(d[1 - i], fl, sv) /\ Beats(1 - i, d[1 - i], d[i])
  <2>1. i = 1 - j /\ 1 - i = j /\ Confirmed(d[i])
    BY <1>1, <1>2 DEF Stale
  <2> QED BY <2>1
<1> QED BY <1>2 DEF Backed

----------------------------------------------------------------------------
(* An operation done completely or in part *)

(* The head of a queue that burns fuses has a good app for them. *)
LEMMA BurnHeld ==
  ASSUME TypeOK, todo # <<>>, Queued, Head(todo).op = "burn"
  PROVE  Recordkeeping /\ Len(todo) = 1 /\ \E j \in 0..1 : Holds(j, Head(todo).v)
<1> DEFINE x == Head(todo)
<1>1. x = todo[1] /\ 1 \in 1 .. Len(todo)
  BY HeadOfQueue
<1>2. ASSUME NEW p \in Slots, Filling(p) PROVE FALSE
  BY <1>1, <1>2 DEF Filling
<1>3. ASSUME NEW j \in 0..1, NEW e \in Entry, Confirming(j, e) PROVE FALSE
  BY <1>1, <1>3 DEF Confirming, WriteEntry, EraseEntry
<1>4. Recordkeeping
  BY <1>2, <1>3 DEF Queued
<1> QED BY <1>1, <1>4 DEF Recordkeeping

(* Complete or torn, an operation leaves an app that can be started. *)
LEMMA OperationKeeps ==
  ASSUME ANTI_ROLLBACK, ~HasTest, FuseInv, todo # <<>>,
         Perform(Head(todo)) \/ Tear(Head(todo))
  PROVE  /\ Backed(otadata', flash', secver') /\ NeverBricked'
         /\ \A i \in 0..1 : Known(otadata'[i])
         /\ secver' > secver => flash' = flash
<1> DEFINE x == Head(todo)
<1>t. TypeOK /\ otadata \in [0..1 -> Entry] /\ flash \in [Parts -> Image] /\ secver \in Nat
  BY DEF FuseInv, Inv, TypeOK
<1>x. x \in Operations /\ x = todo[1] /\ 1 \in 1 .. Len(todo) /\ (Perform(x) \/ Tear(x))
  BY <1>t, HeadOfQueue
<1>b. /\ Backed(otadata, flash, secver) /\ Queued /\ NeverBricked
      /\ \A i \in 0..1 : Known(otadata[i])
      /\ x.op = "write_entry" => Known(x.e)
  BY <1>x DEF FuseInv, StatesKnown
<1>p. Parts = Slots
  BY OnlySlots
<1>i. \A i \in 0..1 : 1 - i \in 0..1 /\ 1 - (1 - i) = i /\ SlotOf(otadata[i]) \in Slots
  BY <1>t, SlotOfType
<1> HIDE DEF x
<1>1. CASE x.op \in {"erase_cell", "write_cell"}
  <2>1. PICK p \in Slots : Filling(p)
    <3>1. ASSUME NEW j \in 0..1, NEW e \in Entry, Confirming(j, e) PROVE FALSE
      BY <1>1, <1>x, <3>1 DEF Confirming, WriteEntry, EraseEntry
    <3>2. ~Recordkeeping
      BY <1>1, <1>x DEF Recordkeeping
    <3> QED BY <1>b, <3>1, <3>2 DEF Queued
  <2>2. x.p = p /\ p # running /\ pc = "run"
    BY <1>x, <2>1 DEF Filling
  <2>3. otadata' = otadata /\ secver' = secver /\ \A q \in Slots : q # p => flash'[q] = flash[q]
    BY <1>1, <1>p, <1>t, <1>x, <2>2, CellEffect
  <2>4. Backed(otadata, flash', secver)
    BY <1>b, <1>t, <2>1, <2>3, BackedFlash DEF Filling
  <2>5. running \in Slots /\ Bootable(flash[running], secver)
    BY <2>2, RunningBootable DEF FuseInv, Inv, Control
  <2>6. Bootable(flash'[running], secver')
    BY <2>2, <2>3, <2>5
  <2>7. NeverBricked'
    BY <2>5, <2>6, OnlySlots DEF NeverBricked
  <2> QED BY <1>b, <1>t, <2>3, <2>4, <2>7
<1>2. CASE x.op \in {"erase_entry", "write_entry"}
  <2>1. PICK i \in 0..1 : Touches(x, i)
    BY <1>2, <1>x, OperationKinds
  <2>2. x \in EntryOps
    BY <1>2, <1>x, OperationKinds
  <2>3. /\ flash' = flash /\ secver' = secver /\ otadata' \in [0..1 -> Entry]
        /\ otadata'[1 - i] = otadata[1 - i] /\ Known(otadata'[i])
        /\ ~otadata'[i].crcOk \/ (x.op = "write_entry" /\ otadata'[i] = x.e)
    BY <1>b, <1>t, <1>x, <2>1, <2>2, EntryEffect
  <2>4. ~Stale(otadata[1 - i], flash, secver) /\ ~Stale(otadata'[i], flash, secver)
    <3>1. ~otadata'[i].crcOk => ~Stale(otadata'[i], flash, secver)
      BY ConfirmedValid DEF Stale
    <3>2. CASE Recordkeeping
      <4>1. ~Stale(otadata[1 - i], flash, secver)
        BY <1>x, <2>1, <3>2 DEF Recordkeeping
      <4>2. x.op = "write_entry" => ~Confirmed(x.e)
        BY <1>x, <3>2 DEF Recordkeeping
      <4> QED BY <2>3, <3>1, <4>1, <4>2 DEF Stale
    <3>3. ASSUME NEW j \in 0..1, NEW e \in Entry, Confirming(j, e)
          PROVE  ~Stale(otadata[1 - i], flash, secver) /\ ~Stale(otadata'[i], flash, secver)
      <4>1. x \in {EraseEntry(j), WriteEntry(j, e)}
        BY <1>x, <3>3 DEF Confirming
      <4>2. i = j /\ (x.op = "write_entry" => x.e = e)
        BY <2>1, <4>1 DEF Touches, EraseEntry, WriteEntry
      <4>3. Good(e, flash, secver) /\ ~Stale(otadata[1 - j], flash, secver)
        BY <3>3 DEF Confirming
      <4> QED BY <2>3, <3>1, <4>2, <4>3, StaleOrGood
    <3>4. ASSUME NEW p \in Slots, Filling(p) PROVE FALSE
      BY <1>2, <1>x, <3>4 DEF Filling
    <3> QED BY <1>b, <3>2, <3>3, <3>4 DEF Queued
  <2>5. Backed(otadata', flash, secver)
    BY <1>t, <2>3, <2>4, BackedEntry
  <2>6. NeverBricked'
    BY <1>b, <2>3 DEF NeverBricked
  <2>7. \A j \in 0..1 : Known(otadata'[j])
    <3>1. Known(otadata'[1 - i])
      BY <1>b, <1>i, <2>3
    <3>2. \A j \in 0..1 : j = i \/ j = 1 - i
      OBVIOUS
    <3> QED BY <2>3, <3>1, <3>2
  <2> QED BY <2>3, <2>5, <2>6, <2>7
<1>3. CASE x.op = "burn"
  <2>1. PICK j \in 0..1 : Holds(j, x.v)
    BY <1>3, <1>b, <1>t, BurnHeld DEF x
  <2>2. otadata' = otadata /\ flash' = flash /\ secver' \in Nat /\ secver' <= x.v /\ x.v \in Nat
    BY <1>3, <1>t, <1>x, BurnEffect, OperationKinds
  <2>3. Confirmed(otadata[j]) /\ Bootable(flash[SlotOf(otadata[j])], x.v)
    BY <2>1 DEF Holds, Good
  <2>4. Bootable(flash[SlotOf(otadata[j])], secver')
    BY <2>2, <2>3, BootableBelow
  <2>5. Backed(otadata, flash, secver')
    <3>1. Good(otadata[j], flash, secver')
      BY <2>3, <2>4 DEF Good
    <3>2. Confirmed(otadata[1 - j]) => Beats(j, otadata[j], otadata[1 - j])
      BY <2>1 DEF Holds
    <3> QED BY <1>t, <3>1, <3>2, BackedBurn
  <2>6. NeverBricked'
    BY <1>i, <2>2, <2>4, OnlySlots DEF NeverBricked
  <2> QED BY <1>b, <2>2, <2>5, <2>6
<1> QED BY <1>1, <1>2, <1>3, <1>x, OperationKinds

----------------------------------------------------------------------------
(* Executing the queue *)

(* A step of an update. *)
LEMMA CellStep ==
  ASSUME ANTI_ROLLBACK, ~HasTest, FuseInv, FlashStep, NEW p \in Slots, Filling(p)
  PROVE  Queued' /\ RunSafe' /\ Choice' /\ StillInitial'
<1> DEFINE x == Head(todo)
<1>t. TypeOK /\ otadata \in [0..1 -> Entry] /\ todo # <<>> /\ Perform(x) /\ todo' = Tail(todo)
      /\ pc' = pc /\ boot' = boot /\ running' = running /\ ops' = ops
  BY DEF FuseInv, Inv, TypeOK, FlashStep
<1>x. x \in Operations /\ x = todo[1] /\ 1 \in 1 .. Len(todo)
  BY <1>t, HeadOfQueue
<1>l. Len(todo') = Len(todo) - 1
      /\ \A k \in 1 .. Len(todo') : todo'[k] = todo[k + 1] /\ k + 1 \in 1 .. Len(todo)
  BY <1>t, HeadOfQueue
<1>1. x.op \in {"erase_cell", "write_cell"} /\ x.p = p /\ p # running /\ pc = "run"
  BY <1>x DEF Filling
<1>2. otadata' = otadata /\ secver' = secver /\ \A q \in Slots : q # p => flash'[q] = flash[q]
  BY <1>t, <1>x, <1>1, OnlySlots, CellEffect
<1>3. \A i \in 0..1 : Confirmed(otadata[i]) /\ SlotOf(otadata[i]) = p =>
        /\ Good(otadata[1 - i], flash', secver) /\ SlotOf(otadata[1 - i]) # p
        /\ Beats(1 - i, otadata[1 - i], otadata[i])
  BY <1>t, <1>2, BackedFlash DEF Filling, FuseInv
<1>4. Filling(p)'
  <2>1. \A k \in 1 .. Len(todo') : todo'[k].op \in {"erase_cell", "write_cell"} /\ todo'[k].p = p
    BY <1>l DEF Filling
  <2> QED BY <1>t, <1>1, <1>2, <1>3, <2>1 DEF Filling
<1>5. ASSUME NEW j \in 0..1, NEW e \in Entry, Confirming(j, e) PROVE FALSE
  BY <1>1, <1>x, <1>5 DEF Confirming, WriteEntry, EraseEntry
<1>6. \A i \in 0..1 : Confirmed(otadata[i]) /\ SlotOf(otadata[i]) # running => Yields(i)
  BY <1>1, <1>5 DEF FuseInv, RunSafe
<1>7. RunSafe'
  BY <1>t, <1>2, <1>6 DEF RunSafe, Yields
<1> QED BY <1>t, <1>1, <1>4, <1>7 DEF Queued, Choice, StillInitial

(* The fuses are burnt. *)
LEMMA BurnStep ==
  ASSUME ANTI_ROLLBACK, ~HasTest, FuseInv, FlashStep, Head(todo).op = "burn"
  PROVE  Queued' /\ RunSafe' /\ Choice' /\ StillInitial'
<1> DEFINE x == Head(todo)
<1>t. TypeOK /\ otadata \in [0..1 -> Entry] /\ todo # <<>> /\ Perform(x) /\ todo' = Tail(todo)
      /\ pc' = pc /\ boot' = boot /\ running' = running /\ ops' = ops /\ secver \in Nat
  BY DEF FuseInv, Inv, TypeOK, FlashStep
<1>x. x \in Operations /\ x = todo[1] /\ 1 \in 1 .. Len(todo)
  BY <1>t, HeadOfQueue
<1>1. Len(todo) = 1
  BY <1>t, BurnHeld DEF FuseInv
<1>2. Len(todo') = 0
  BY <1>t, <1>1, HeadOfQueue
<1>3. otadata' = otadata /\ flash' = flash /\ secver' = x.v
  <2>1. otadata' = otadata /\ flash' = flash
    BY <1>t, <1>x, BurnEffect
  <2> QED BY <1>t, <2>1 DEF Perform
<1>4. Recordkeeping'
  BY <1>2 DEF Recordkeeping
<1>5. ASSUME NEW j \in 0..1, NEW e \in Entry, Confirming(j, e) PROVE FALSE
  BY <1>x, <1>5 DEF Confirming, WriteEntry, EraseEntry
<1>6. RunSafe'
  <2>1. pc = "run" =>
          \A i \in 0..1 : Confirmed(otadata[i]) /\ SlotOf(otadata[i]) # running => Yields(i)
    BY <1>5 DEF FuseInv, RunSafe
  <2> QED BY <1>t, <1>3, <2>1 DEF RunSafe, Yields
<1>7. Choice'
  <2> SUFFICES ASSUME pc \in {"gpio", "load"}, NEW i \in 0..1, Confirmed(otadata[i])
               PROVE  StartsConfirmed(i)' \/ \E e \in Entry : StartsOther(i, e)'
    BY <1>t, <1>3 DEF Choice
  <2>1. CASE StartsConfirmed(i)
    <3>1. boot.index = SlotOf(otadata[i]) /\ Bootable(flash[SlotOf(otadata[i])], x.v)
      BY <1>x, <2>1 DEF StartsConfirmed
    <3>2. boot'.index = SlotOf(otadata'[i]) /\ Bootable(flash'[SlotOf(otadata'[i])], secver')
      BY <1>t, <1>3, <3>1
    <3> QED BY <1>2, <3>2 DEF StartsConfirmed
  <2>2. ASSUME NEW e \in Entry, StartsOther(i, e)
        PROVE  StartsOther(i, e)'
    <3>1. todo \notin {Rewrite(1 - i, e), <<WriteEntry(1 - i, e)>>}
      BY <1>1, <1>x DEF Rewrite, WriteEntry
    <3>2. otadata[1 - i] = e /\ Bootable(flash[SlotOf(e)], x.v)
      BY <1>x, <2>2, <3>1 DEF StartsOther
    <3>3. boot.index = SlotOf(e) /\ Beats(1 - i, e, otadata[i])
          /\ e.state \in {"PENDING_VERIFY", "VALID"}
      BY <2>2 DEF StartsOther
    <3>4. otadata'[1 - i] = e /\ Bootable(flash'[SlotOf(e)], secver')
      BY <1>3, <3>2
    <3>5. boot'.index = SlotOf(e) /\ Beats(1 - i, e, otadata'[i])
      BY <1>t, <1>3, <3>3
    <3> QED BY <1>2, <3>3, <3>4, <3>5 DEF StartsOther
  <2> QED BY <2>1, <2>2 DEF FuseInv, Choice
<1>8. StillInitial'
  BY <1>t, <1>2, <1>3 DEF FuseInv, StillInitial
<1> QED BY <1>4, <1>6, <1>7, <1>8 DEF Queued

(* A step of the confirmation of the running app. *)
LEMMA ConfirmStep ==
  ASSUME ANTI_ROLLBACK, ~HasTest, FuseInv, FlashStep, NEW j \in 0..1, NEW e \in Entry,
         Confirming(j, e)
  PROVE  Queued' /\ RunSafe' /\ Choice' /\ StillInitial'
<1> DEFINE x == Head(todo)
<1>t. TypeOK /\ otadata \in [0..1 -> Entry] /\ todo # <<>> /\ Perform(x) /\ todo' = Tail(todo)
      /\ pc' = pc /\ boot' = boot /\ running' = running /\ ops' = ops
  BY DEF FuseInv, Inv, TypeOK, FlashStep
<1>x. x \in Operations /\ x = todo[1] /\ 1 \in 1 .. Len(todo) /\ Len(todo) \in Nat
  BY <1>t, HeadOfQueue
<1>l. Len(todo') = Len(todo) - 1
      /\ \A k \in 1 .. Len(todo) - 1 : todo'[k] = todo[k + 1] /\ k + 1 \in 1 .. Len(todo)
  BY <1>t, HeadOfQueue
<1>1. /\ pc = "run" /\ Good(e, flash, secver) /\ SlotOf(e) = running
      /\ ~Stale(otadata[1 - j], flash, secver)
      /\ Confirmed(otadata[1 - j]) => Beats(j, e, otadata[1 - j])
  BY DEF Confirming
<1>p. pc' = "run" /\ Choice' /\ StillInitial'
  BY <1>t, <1>1 DEF Choice, StillInitial
<1>2. PICK n \in 1 .. 2 :
        /\ n <= Len(todo) /\ todo[n] = WriteEntry(j, e)
        /\ n = 2 => todo[1] = EraseEntry(j)
        /\ \A k \in n + 1 .. Len(todo) :
             k = Len(todo) /\ todo[k].op = "burn" /\ Good(e, flash, todo[k].v)
  BY DEF Confirming
<1>3. CASE n = 2
  <2>1. x = EraseEntry(j)
    BY <1>2, <1>3, <1>x
  <2>2. x \in EntryOps /\ Touches(x, j) /\ x.op # "write_entry"
    BY <2>1 DEF EntryOps, Touches, EraseEntry
  <2>3. flash' = flash /\ secver' = secver /\ otadata'[1 - j] = otadata[1 - j]
    BY <1>t, <2>2, EntryEffect
  <2>4. /\ 1 <= Len(todo') /\ todo'[1] = WriteEntry(j, e)
        /\ \A k \in 2 .. Len(todo') :
             k = Len(todo') /\ todo'[k].op = "burn" /\ Good(e, flash, todo'[k].v)
    BY <1>2, <1>3, <1>l, <1>x
  <2>5. Confirming(j, e)'
    BY <1>t, <1>1, <2>3, <2>4 DEF Confirming
  <2> QED BY <1>p, <2>5 DEF Queued, RunSafe
<1>4. CASE n = 1
  <2>1. x = WriteEntry(j, e)
    BY <1>2, <1>4, <1>x
  <2>2. otadata' = [otadata EXCEPT ![j] = e] /\ flash' = flash
    BY <1>t, <2>1, PerformEntry
  <2>3. secver' = secver
    BY <1>t, <2>1 DEF Perform, WriteEntry
  <2>4. otadata'[j] = e /\ otadata'[1 - j] = otadata[1 - j] /\ 1 - j \in 0..1
    BY <1>t, <2>2
  <2>5. \A k \in 1 .. Len(todo') :
          k = Len(todo') /\ todo'[k].op = "burn" /\ Good(e, flash, todo'[k].v)
    BY <1>2, <1>4, <1>l, <1>x
  <2>6. Recordkeeping'
    <3>1. \A k \in 1 .. Len(todo'), i \in 0..1 : ~Touches(todo'[k], i)
      BY <2>5 DEF Touches
    <3>2. \A k \in 1 .. Len(todo') : Holds(j, todo[k].v)'
      BY <1>1, <2>2, <2>4, <2>5, <3>1 DEF Holds
    <3> QED BY <2>5, <3>1, <3>2 DEF Recordkeeping
  <2>7. \A i \in 0..1 : Confirmed(otadata'[i]) /\ SlotOf(otadata'[i]) # running' => Yields(i)'
    <3> SUFFICES ASSUME NEW i \in 0..1, Confirmed(otadata'[i]), SlotOf(otadata'[i]) # running'
                 PROVE  Yields(i)'
      OBVIOUS
    <3>1. i = 1 - j /\ 1 - i = j
      BY <1>t, <1>1, <2>4
    <3>2. Confirmed(otadata[1 - j]) /\ Beats(j, e, otadata[1 - j]) /\ e.state = "VALID"
      BY <1>1, <2>4, <3>1 DEF Good, Confirmed
    <3>3. otadata'[1 - i] = e /\ Beats(1 - i, otadata'[1 - i], otadata'[i])
      BY <2>4, <3>1, <3>2
    <3> QED BY <1>t, <1>1, <3>2, <3>3 DEF Yields
  <2> QED BY <1>p, <2>6, <2>7 DEF Queued, RunSafe
<1> QED BY <1>2, <1>3, <1>4

(* A step that writes a record which is not confirmed. *)
LEMMA EntryStep ==
  ASSUME ANTI_ROLLBACK, ~HasTest, FuseInv, FlashStep, Recordkeeping,
         Head(todo).op \in {"erase_entry", "write_entry"}
  PROVE  Queued' /\ RunSafe' /\ Choice' /\ StillInitial'
<1> DEFINE x == Head(todo)
<1>t. TypeOK /\ otadata \in [0..1 -> Entry] /\ todo # <<>> /\ Perform(x) /\ todo' = Tail(todo)
      /\ pc' = pc /\ boot' = boot /\ running' = running /\ ops' = ops /\ todo \in Seq(Operations)
  BY DEF FuseInv, Inv, TypeOK, FlashStep
<1>x. x \in Operations /\ x = todo[1] /\ 1 \in 1 .. Len(todo) /\ Len(todo) \in Nat
  BY <1>t, HeadOfQueue
<1>l. Len(todo') = Len(todo) - 1
      /\ \A k \in 1 .. Len(todo') : todo'[k] = todo[k + 1] /\ k + 1 \in 1 .. Len(todo)
  BY <1>t, HeadOfQueue
<1>i. PICK i \in 0..1 : Touches(x, i)
  BY <1>x, OperationKinds
<1>o. x \in EntryOps /\ (x.op = "write_entry" => Known(x.e) /\ ~Confirmed(x.e))
  BY <1>x, OperationKinds DEF FuseInv, StatesKnown, Recordkeeping
<1>1. /\ flash' = flash /\ secver' = secver /\ otadata' \in [0..1 -> Entry]
      /\ otadata'[1 - i] = otadata[1 - i]
      /\ ~otadata'[i].crcOk \/ (x.op = "write_entry" /\ otadata'[i] = x.e)
  BY <1>t, <1>i, <1>o, EntryEffect
<1>2. ~Confirmed(otadata'[i])
  BY <1>1, <1>o, ConfirmedValid
<1>3. \A j \in 0..1 : /\ j = i \/ j = 1 - i
                      /\ 1 - j = i \/ 1 - j = 1 - i
                      /\ 1 - j \in 0..1
  OBVIOUS
<1>4. \A j \in 0..1 : Confirmed(otadata'[j]) => j = 1 - i /\ 1 - j = i /\ otadata'[j] = otadata[j]
  BY <1>1, <1>2, <1>3
<1>5. pc = "run" => ~(Confirmed(otadata[1 - i]) /\ SlotOf(otadata[1 - i]) # running)
  BY <1>x, <1>i DEF Recordkeeping
<1>6. Recordkeeping'
  <2> SUFFICES ASSUME NEW k \in 1 .. Len(todo')
               PROVE  /\ todo'[k].op \in {"erase_entry", "write_entry", "burn"}
                      /\ todo'[k].op = "write_entry" => ~Confirmed(todo'[k].e)
                      /\ \A j \in 0..1 : Touches(todo'[k], j) =>
                           /\ ~Stale(otadata'[1 - j], flash', secver')
                           /\ pc' = "run" => ~(/\ Confirmed(otadata'[1 - j])
                                               /\ SlotOf(otadata'[1 - j]) # running')
                      /\ todo'[k].op = "burn" =>
                           k = Len(todo') /\ \E j \in 0..1 : Holds(j, todo[k].v)'
    BY DEF Recordkeeping
  <2>1. /\ todo[k + 1].op \in {"erase_entry", "write_entry", "burn"}
        /\ todo[k + 1].op = "write_entry" => ~Confirmed(todo[k + 1].e)
        /\ todo[k + 1].op = "burn" =>
             k + 1 = Len(todo) /\ \E j \in 0..1 : Holds(j, todo[k + 1].v)
    BY <1>l DEF Recordkeeping
  <2>2. ASSUME NEW j \in 0..1, Touches(todo'[k], j)
        PROVE  /\ ~Stale(otadata'[1 - j], flash, secver)
               /\ pc = "run" => ~(Confirmed(otadata'[1 - j]) /\ SlotOf(otadata'[1 - j]) # running)
    <3>1. /\ ~Stale(otadata[1 - j], flash, secver)
          /\ pc = "run" => ~(Confirmed(otadata[1 - j]) /\ SlotOf(otadata[1 - j]) # running)
      BY <1>l, <2>2 DEF Recordkeeping
    <3>2. CASE 1 - j = i
      BY <1>2, <3>2 DEF Stale
    <3>3. CASE 1 - j = 1 - i
      BY <1>1, <3>1, <3>3
    <3> QED BY <1>3, <3>2, <3>3
  <2>3. ASSUME todo'[k].op = "burn"
        PROVE  k = Len(todo') /\ \E j \in 0..1 : Holds(j, todo[k].v)'
    <3>1. PICK j \in 0..1 : Holds(j, todo[k + 1].v)
      BY <1>l, <2>1, <2>3
    <3>2. ~Touches(x, j)
      BY <1>x, <3>1 DEF Holds
    <3>3. j = 1 - i /\ 1 - j = i
      BY <1>3, <1>i, <3>2
    <3>4. Good(otadata'[j], flash', todo'[k].v)
      BY <1>1, <1>l, <3>1, <3>3 DEF Holds
    <3>5. \A n \in 1 .. Len(todo') : ~Touches(todo'[n], j)
      BY <1>l, <3>1 DEF Holds
    <3>6. Holds(j, todo[k].v)'
      BY <1>2, <3>3, <3>4, <3>5 DEF Holds
    <3>7. k = Len(todo')
      BY <1>l, <1>x, <2>1, <2>3
    <3> QED BY <3>6, <3>7
  <2> QED BY <1>t, <1>l, <1>1, <2>1, <2>2, <2>3
<1>7. RunSafe'
  <2>1. pc = "run" => \A j \in 0..1 : ~(Confirmed(otadata'[j]) /\ SlotOf(otadata'[j]) # running)
    BY <1>4, <1>5
  <2> QED BY <1>t, <2>1 DEF RunSafe
<1>8. Choice'
  <2> SUFFICES ASSUME pc \in {"gpio", "load"}, NEW j \in 0..1, Confirmed(otadata'[j])
               PROVE  StartsConfirmed(j)' \/ \E e \in Entry : StartsOther(j, e)'
    BY <1>t DEF Choice
  <2>0. j = 1 - i /\ 1 - j = i /\ otadata'[j] = otadata[j] /\ Confirmed(otadata[j])
    BY <1>4
  <2>1. CASE StartsConfirmed(j)
    <3>1. boot'.index = SlotOf(otadata'[j]) /\ Bootable(flash'[SlotOf(otadata'[j])], secver')
      BY <1>t, <1>1, <2>0, <2>1 DEF StartsConfirmed
    <3>2. \A k \in 1 .. Len(todo') :
            /\ ~Touches(todo'[k], j)
            /\ todo'[k].op = "burn" => Bootable(flash'[SlotOf(otadata'[j])], todo'[k].v)
      BY <1>l, <1>1, <2>0, <2>1 DEF StartsConfirmed
    <3> QED BY <3>1, <3>2 DEF StartsConfirmed
  <2>2. ASSUME NEW e \in Entry, StartsOther(j, e)
        PROVE  StartsOther(j, e)'
    <3>1. /\ boot'.index = SlotOf(e) /\ Beats(1 - j, e, otadata'[j])
          /\ e.state \in {"PENDING_VERIFY", "VALID"}
      BY <1>t, <2>0, <2>2 DEF StartsOther
    <3>2. /\ todo \in {Rewrite(i, e), <<WriteEntry(i, e)>>}
          /\ Bootable(flash[SlotOf(otadata[j])], secver)
      BY <1>x, <2>0, <2>2 DEF StartsOther
    <3>3. CASE todo = Rewrite(i, e)
      <4>1. todo' = <<WriteEntry(1 - j, e)>>
        BY <1>t, <2>0, <3>3, RewriteShape
      <4> QED BY <1>1, <2>0, <3>1, <3>2, <4>1 DEF StartsOther
    <3>4. CASE todo = <<WriteEntry(i, e)>>
      <4>1. todo' = <<>> /\ x = WriteEntry(i, e)
        BY <1>t, <3>4
      <4>2. otadata' = [otadata EXCEPT ![i] = e]
        BY <1>t, <4>1, PerformEntry
      <4>3. otadata'[1 - j] = e
        BY <1>t, <2>0, <4>2
      <4>4. Len(todo') = 0
        BY <4>1
      <4>5. Bootable(flash'[SlotOf(otadata'[j])], secver')
        BY <1>1, <2>0, <3>2
      <4> QED BY <3>1, <4>3, <4>4, <4>5 DEF StartsOther
    <3> QED BY <3>2, <3>3, <3>4
  <2> QED BY <2>0, <2>1, <2>2 DEF FuseInv, Choice
<1>9. StillInitial'
  <2> SUFFICES ASSUME pc \in {"gpio", "load"}, boot.initial
               PROVE  /\ \A j \in 0..1 : IsInitial(otadata'[j])
                      /\ \A k \in 1 .. Len(todo') : todo'[k].op = "write_entry" => IsInitial(todo'[k].e)
    BY <1>t DEF StillInitial
  <2>1. /\ \A j \in 0..1 : IsInitial(otadata[j])
        /\ \A k \in 1 .. Len(todo) : todo[k].op = "write_entry" => IsInitial(todo[k].e)
    BY DEF FuseInv, StillInitial
  <2>2. IsInitial(otadata'[i])
    <3>1. x.op = "write_entry" => IsInitial(x.e)
      BY <1>x, <2>1
    <3> QED BY <1>1, <3>1 DEF IsInitial
  <2> QED BY <1>l, <1>1, <1>3, <2>1, <2>2
<1> QED BY <1>6, <1>7, <1>8, <1>9 DEF Queued

(* Every operation preserves the invariant. *)
LEMMA FlashStepKeeps ==
  ASSUME ANTI_ROLLBACK, ~HasTest, FuseInv, FlashStep
  PROVE  FuseInv'
<1> DEFINE x == Head(todo)
<1>t. TypeOK /\ todo # <<>> /\ Perform(x) /\ todo' = Tail(todo)
  BY DEF FuseInv, Inv, FlashStep
<1>x. x \in Operations /\ x = todo[1] /\ 1 \in 1 .. Len(todo)
  BY <1>t, HeadOfQueue
<1>i. Inv'
  BY InvStep DEF FuseInv, Next
<1>1. Backed(otadata', flash', secver') /\ NeverBricked' /\ \A i \in 0..1 : Known(otadata'[i])
  BY <1>t, OperationKeeps
<1>2. StatesKnown'
  <2>1. \A k \in 1 .. Len(todo') : todo'[k].op = "write_entry" => Known(todo'[k].e)
    <3>1. Len(todo') = Len(todo) - 1
          /\ \A k \in 1 .. Len(todo') : todo'[k] = todo[k + 1] /\ k + 1 \in 1 .. Len(todo)
      BY <1>t, HeadOfQueue
    <3> QED BY <3>1 DEF FuseInv, StatesKnown
  <2> QED BY <1>1, <2>1 DEF StatesKnown
<1>3. Queued' /\ RunSafe' /\ Choice' /\ StillInitial'
  <2>1. CASE \E p \in Slots : Filling(p)
    BY <2>1, CellStep
  <2>2. CASE Recordkeeping
    <3>1. x.op \in {"erase_entry", "write_entry", "burn"}
      BY <1>x, <2>2 DEF Recordkeeping
    <3> QED BY <2>2, <3>1, EntryStep, BurnStep
  <2>3. CASE \E j \in 0..1, e \in Entry : Confirming(j, e)
    BY <2>3, ConfirmStep
  <2> QED BY <2>1, <2>2, <2>3 DEF FuseInv, Queued
<1> QED BY <1>i, <1>1, <1>2, <1>3 DEF FuseInv

(* So does power loss, during an operation or between two. *)
LEMMA PowerLossKeeps ==
  ASSUME ANTI_ROLLBACK, ~HasTest, FuseInv, Unstable, PowerLoss
  PROVE  FuseInv'
<1>i. Inv'
  BY InvStep DEF FuseInv, Next
<1>0. pc' = "reset" /\ Len(todo') = 0 /\ (UNCHANGED device \/ (todo # <<>> /\ Tear(Head(todo))))
  BY DEF PowerLoss
<1>1. Backed(otadata', flash', secver') /\ NeverBricked' /\ \A i \in 0..1 : Known(otadata'[i])
  <2>1. CASE UNCHANGED device
    BY <2>1 DEF device, FuseInv, StatesKnown, NeverBricked
  <2>2. CASE todo # <<>> /\ Tear(Head(todo))
    BY <2>2, OperationKeeps
  <2> QED BY <1>0, <2>1, <2>2
<1>2. StatesKnown' /\ Recordkeeping' /\ RunSafe' /\ Choice' /\ StillInitial'
  BY <1>0, <1>1 DEF StatesKnown, Recordkeeping, RunSafe, Choice, StillInitial
<1> QED BY <1>i, <1>1, <1>2 DEF FuseInv, Queued

----------------------------------------------------------------------------
(* The bootloader's selection *)

(* The selection with check_anti_rollback: the greatest valid record whose *)
(* version is not revoked.                                                 *)
LEMMA CheckedSelection ==
  ASSUME ANTI_ROLLBACK, NEW a \in [0..1 -> Entry], NEW fl, NEW sv, NEW k,
         k = Selection(a, fl, sv).active
  PROVE  /\ k \in {-1, 0, 1}
         /\ k # -1 => /\ k \in 0..1 /\ 1 - k \in 0..1
                      /\ ota_select_valid(a[k]) /\ check_anti_rollback(fl[SlotOf(a[k])], sv)
                      /\ Selection(a, fl, sv).index = SlotOf(a[k])
                      /\ /\ ota_select_valid(a[1 - k])
                         /\ check_anti_rollback(fl[SlotOf(a[1 - k])], sv)
                         => Beats(k, a[k], a[1 - k])
         /\ k = -1 => \A i \in 0..1 : ~(/\ ota_select_valid(a[i])
                                        /\ check_anti_rollback(fl[SlotOf(a[i])], sv))
         /\ Selection(a, fl, sv).initial <=> IsInitial(a[0]) /\ IsInitial(a[1])
<1> DEFINE ok == [i \in 0..1 |-> /\ ota_select_valid(a[i])
                                 /\ check_anti_rollback(fl[SlotOf(a[i])], sv)]
           unset == IsInitial(a[0]) /\ IsInitial(a[1])
           c == select_otadata(a, ok, TRUE)
<1>1. /\ k = IF unset THEN -1 ELSE c
      /\ k # -1 => Selection(a, fl, sv).index = SlotOf(a[k])
      /\ Selection(a, fl, sv).initial <=> unset
  BY DEF Selection, get_active_otadata_with_check_anti_rollback
<1>2. \A i \in 0..1 : ok[i] <=> /\ ota_select_valid(a[i])
                                /\ check_anti_rollback(fl[SlotOf(a[i])], sv)
  OBVIOUS
<1>3. unset => ~ok[0] /\ ~ok[1]
  BY <1>2 DEF IsInitial, ota_select_valid, ota_select_invalid
<1>4. \A i \in 0..1 : a[i].seq \in Int /\ 1 - i \in 0..1
  BY OtaAssumption DEF Entry, UINT32_MAX
<1> HIDE DEF ok, unset
<1>5. /\ c \in {-1, 0, 1}
      /\ c # -1 => ok[c]
      /\ c = -1 => ~ok[0] /\ ~ok[1]
      /\ c # -1 /\ ok[1 - c] => a[c].seq > a[1 - c].seq \/ (a[c].seq = a[1 - c].seq /\ c = 0)
  BY <1>4 DEF select_otadata
<1> HIDE DEF c
<1>6. CASE k = -1
  BY <1>1, <1>2, <1>3, <1>5, <1>6 DEF unset
<1>7. CASE k # -1
  <2>1. k = c /\ k \in 0..1 /\ 1 - k \in 0..1
    BY <1>1, <1>5, <1>7
  <2> QED BY <1>1, <1>2, <1>5, <1>7, <2>1 DEF unset, Beats
<1> QED BY <1>6, <1>7

(* What the bootloader finds when an app has been confirmed: its record,   *)
(* or one that prevails over it.                                           *)
LEMMA SelectionBacked ==
  ASSUME ANTI_ROLLBACK, NEW d \in [0..1 -> Entry], NEW fl, NEW sv, Backed(d, fl, sv),
         NEW i \in 0..1, Confirmed(d[i]), NEW k,
         k = Selection(AbortPending(d), fl, sv).active
  PROVE  /\ k = i => Good(d[i], fl, sv)
         /\ k # i => /\ k = 1 - i /\ Beats(k, d[k], d[i])
                     /\ d[k].state # "PENDING_VERIFY"
                     /\ Bootable(fl[SlotOf(d[k])], sv) \/ Bootable(fl[SlotOf(d[i])], sv)
<1> DEFINE a == AbortPending(d)
<1>a. a \in [0..1 -> Entry]
  BY AbortPendingType
<1>c. k # -1 =>
        /\ ota_select_valid(a[k])
        /\ ota_select_valid(a[1 - k]) /\ check_anti_rollback(fl[SlotOf(a[1 - k])], sv)
             => Beats(k, a[k], a[1 - k])
  BY <1>a, CheckedSelection
<1>j. 1 - i \in 0..1 /\ 1 - (1 - i) = i
  OBVIOUS
<1>1. a[i] = d[i] /\ SlotOf(a[1 - i]) = SlotOf(d[1 - i]) /\ a[1 - i].seq = d[1 - i].seq
      /\ (ota_select_valid(a[1 - i]) => ota_select_valid(d[1 - i]))
      /\ (d[1 - i].state # "PENDING_VERIFY" => a[1 - i] = d[1 - i])
  BY <1>j, AbortFacts, ConfirmedValid
<1>r. ROLLBACK_ENABLE
  BY OtaAssumption
<1>p. d[1 - i].state = "PENDING_VERIFY" => ~ota_select_valid(a[1 - i])
  <2>1. d[1 - i].state = "PENDING_VERIFY" => a[1 - i] = [d[1 - i] EXCEPT !.state = "ABORTED"]
    BY <1>j, <1>r, AbortFacts
  <2>2. d[1 - i].state = "PENDING_VERIFY" => a[1 - i].state = "ABORTED"
    BY <1>j, <2>1 DEF Entry
  <2> QED BY <2>2 DEF ota_select_valid, ota_select_invalid
<1>2. Stale(d[i], fl, sv) => /\ Good(d[1 - i], fl, sv) /\ Beats(1 - i, d[1 - i], d[i])
                             /\ a[1 - i] = d[1 - i]
  <2>1. Stale(d[i], fl, sv) => Good(d[1 - i], fl, sv) /\ Beats(1 - i, d[1 - i], d[i])
    BY DEF Backed
  <2> QED BY <1>1, <2>1, ConfirmedValid DEF Good
<1>3. CASE k = i
  <2>1. ~Stale(d[i], fl, sv)
    <3> SUFFICES ASSUME Stale(d[i], fl, sv) PROVE FALSE
      OBVIOUS
    <3>1. /\ ota_select_valid(a[1 - i]) /\ check_anti_rollback(fl[SlotOf(a[1 - i])], sv)
          /\ Beats(1 - i, d[1 - i], d[i])
      BY <1>2 DEF Good, Confirmed, Bootable
    <3>2. k # -1
      BY <1>3
    <3>3. Beats(i, a[i], a[1 - i])
      BY <1>c, <1>3, <3>1, <3>2
    <3>4. Beats(i, d[i], d[1 - i])
      BY <1>1, <3>3 DEF Beats
    <3> QED BY <3>1, <3>4, BeatsOnce
  <2> QED BY <1>3, <2>1, StaleOrGood
<1>4. CASE k # i
  <2>1. k # -1
    <3> SUFFICES ASSUME k = -1 PROVE FALSE
      OBVIOUS
    <3>1. \A j \in 0..1 : ~(ota_select_valid(a[j]) /\ check_anti_rollback(fl[SlotOf(a[j])], sv))
      BY <1>a, CheckedSelection
    <3>2. CASE Stale(d[i], fl, sv)
      BY <1>j, <1>2, <3>1, <3>2 DEF Good, Confirmed, Bootable
    <3>3. CASE Good(d[i], fl, sv)
      BY <1>1, <3>1, <3>3 DEF Good, Confirmed, Bootable
    <3> QED BY <3>2, <3>3, StaleOrGood
  <2>2. k \in {-1, 0, 1}
    BY <1>a, CheckedSelection
  <2>3. k = 1 - i /\ 1 - k = i
    BY <1>4, <2>1, <2>2
  <2>4. ota_select_valid(a[k]) /\ (check_anti_rollback(fl[SlotOf(a[i])], sv) => Beats(k, a[k], a[i]))
    <3>1. ota_select_valid(a[i])
      BY <1>1, ConfirmedValid
    <3> QED BY <1>c, <2>1, <2>3, <3>1
  <2>5. d[k].state # "PENDING_VERIFY" /\ a[k] = d[k]
    BY <1>1, <1>p, <2>3, <2>4
  <2>6. CASE Stale(d[i], fl, sv)
    BY <1>2, <2>3, <2>5, <2>6 DEF Good
  <2>7. CASE Good(d[i], fl, sv)
    BY <1>1, <2>3, <2>4, <2>5, <2>7 DEF Good, Bootable
  <2> QED BY <1>4, <2>6, <2>7, StaleOrGood
<1> QED BY <1>3, <1>4

(* An operation that changes the state of a record which is not confirmed. *)
StateWrites ==
  {x \in EntryOps : \E i \in 0..1, e \in Entry :
     /\ x \in {EraseEntry(i), WriteEntry(i, e)}
     /\ otadata[i].state \in {"NEW", "PENDING_VERIFY"}
     /\ e.state \in {"ABORTED", "PENDING_VERIFY"}
     /\ e.seq = otadata[i].seq /\ e.crcOk = otadata[i].crcOk}

(* The selection writes records that are not confirmed, and burns the      *)
(* version of the app of a record that is.                                 *)
LEMMA CheckedQueue ==
  ASSUME ANTI_ROLLBACK, TypeOK, GetSelectedBootPartition, NEW k,
         k = Selection(AbortPending(otadata), flash, secver).active
  PROVE  /\ \A n \in 1 .. Len(todo') :
              \/ todo'[n] \in StateWrites
              \/ /\ n = Len(todo') /\ k \in 0..1 /\ otadata[k].state = "VALID"
                 /\ HasDescription(flash[SlotOf(otadata[k])])
                 /\ todo'[n] = Burn(SecureVersion(flash[SlotOf(otadata[k])]))
         /\ k \in 0..1 /\ otadata[k].state = "NEW" /\ otadata[1 - k].state = "VALID"
              => todo' = Rewrite(k, OnTrial(otadata[k]))
<1> DEFINE d == otadata
           a == AbortPending(d)
           sel == Selection(a, flash, secver)
           m == MarkFirstBoot(a, k)
           C(i) == IF d[i] # a[i] THEN Rewrite(i, a[i]) ELSE <<>>
           M(i) == IF a[i] # m[i] THEN Rewrite(i, m[i]) ELSE <<>>
           v == SecureVersion(flash[sel.index])
           burns == k # -1 /\ m[k].state = "VALID" /\ HasDescription(flash[sel.index])
           b == IF burns THEN UpdateSecureVersion(v) ELSE <<>>
           w == C(0) \o C(1) \o M(0) \o M(1)
<1>r. ROLLBACK_ENABLE
  BY OtaAssumption
<1>d. d \in [0..1 -> Entry] /\ a \in [0..1 -> Entry] /\ m \in [0..1 -> Entry]
  BY AbortPendingType, MarkFirstBootType DEF TypeOK
<1>k. k \in {-1, 0, 1} /\ (k # -1 => sel.index = SlotOf(a[k]))
  BY <1>d, CheckedSelection
<1>1. todo' = w \o b
  <2>1. todo' = C(0) \o C(1) \o M(0) \o M(1)
                \o (IF /\ ANTI_ROLLBACK /\ k # -1
                       /\ m[k].state = "VALID"
                       /\ HasDescription(flash[sel.index])
                    THEN UpdateSecureVersion(SecureVersion(flash[sel.index])) ELSE <<>>)
    BY DEF GetSelectedBootPartition
  <2> QED BY <2>1
<1>2. ASSUME NEW i \in 0..1
      PROVE  /\ d[i].state = "PENDING_VERIFY" => a[i] = Aborted(d[i])
             /\ d[i].state # "PENDING_VERIFY" => a[i] = d[i]
             /\ SlotOf(a[i]) = SlotOf(d[i])
  BY <1>d, <1>r, AbortFacts DEF Aborted
<1>3. ASSUME NEW i \in 0..1
      PROVE  /\ i = k /\ a[i].state = "NEW" => m[i] = OnTrial(a[i])
             /\ ~(i = k /\ a[i].state = "NEW") => m[i] = a[i]
  BY <1>d, <1>r DEF MarkFirstBoot, OnTrial
<1>s. ASSUME NEW i \in 0..1, NEW e \in Entry, d[i].state \in {"NEW", "PENDING_VERIFY"},
             e.state \in {"ABORTED", "PENDING_VERIFY"}, e.seq = d[i].seq, e.crcOk = d[i].crcOk
      PROVE  Rewrite(i, e) \in Seq(StateWrites)
  <2>1. EraseEntry(i) \in EntryOps /\ WriteEntry(i, e) \in EntryOps
    BY DEF EntryOps
  <2>2. EraseEntry(i) \in StateWrites /\ WriteEntry(i, e) \in StateWrites
    BY <1>s, <2>1 DEF StateWrites
  <2> QED BY <2>2 DEF Rewrite
<1>e. \A i \in 0..1 : d[i] \in Entry
  BY <1>d
<1>n. \A i \in 0..1 : a[i].state = "NEW" => a[i] = d[i]
  BY <1>2, <1>e, StateChangeType
<1>4. ASSUME NEW i \in 0..1 PROVE C(i) \in Seq(StateWrites)
  <2>1. CASE d[i].state = "PENDING_VERIFY"
    <3>1. /\ a[i] = Aborted(d[i]) /\ Aborted(d[i]) \in Entry /\ Aborted(d[i]).state = "ABORTED"
          /\ Aborted(d[i]).seq = d[i].seq /\ Aborted(d[i]).crcOk = d[i].crcOk
      BY <1>2, <1>e, <2>1, StateChangeType
    <3>2. Rewrite(i, a[i]) \in Seq(StateWrites)
      BY <1>s, <2>1, <3>1
    <3> QED BY <3>2
  <2>2. CASE d[i].state # "PENDING_VERIFY"
    BY <1>2, <2>2
  <2> QED BY <2>1, <2>2
<1>5. ASSUME NEW i \in 0..1 PROVE M(i) \in Seq(StateWrites)
  <2>1. CASE i = k /\ a[i].state = "NEW"
    <3>1. /\ m[i] = OnTrial(d[i]) /\ OnTrial(d[i]) \in Entry /\ OnTrial(d[i]).state = "PENDING_VERIFY"
          /\ OnTrial(d[i]).seq = d[i].seq /\ OnTrial(d[i]).crcOk = d[i].crcOk /\ d[i].state = "NEW"
      BY <1>3, <1>e, <1>n, <2>1, StateChangeType
    <3>2. Rewrite(i, m[i]) \in Seq(StateWrites)
      BY <1>s, <2>1, <3>1
    <3> QED BY <3>2
  <2>2. CASE ~(i = k /\ a[i].state = "NEW")
    BY <1>3, <2>2
  <2> QED BY <2>1, <2>2
<1>6. w \in Seq(StateWrites)
  <2>1. /\ C(0) \in Seq(StateWrites) /\ C(1) \in Seq(StateWrites)
        /\ M(0) \in Seq(StateWrites) /\ M(1) \in Seq(StateWrites)
    BY <1>4, <1>5
  <2> HIDE DEF C, M
  <2> QED BY <2>1
<1>7. ASSUME burns
      PROVE  /\ k \in 0..1 /\ d[k].state = "VALID" /\ HasDescription(flash[SlotOf(d[k])])
             /\ v = SecureVersion(flash[SlotOf(d[k])])
  <2>1. k \in 0..1 /\ sel.index = SlotOf(d[k])
    BY <1>2, <1>7, <1>k
  <2>2. a[k].state = "VALID"
    BY <1>3, <1>7, <1>d, <2>1, StateChangeType
  <2>3. d[k].state = "VALID"
    BY <1>2, <1>e, <2>1, <2>2, StateChangeType
  <2> QED BY <1>7, <2>1, <2>3
<1>8. b = <<>> \/ (burns /\ b = <<Burn(v)>>)
  BY DEF UpdateSecureVersion
<1>9. ASSUME NEW n \in 1 .. Len(todo')
      PROVE  \/ todo'[n] \in StateWrites
             \/ n = Len(todo') /\ burns /\ todo'[n] = Burn(v)
  <2> HIDE DEF w, b, burns, v
  <2>1. CASE b = <<>>
    <3>1. todo' = w
      BY <1>1, <1>6, <2>1, EmptyConcat
    <3> QED BY <1>6, <3>1
  <2>2. CASE burns /\ b = <<Burn(v)>>
    <3>1. Len(todo') = Len(w) + 1 /\ todo'[Len(w) + 1] = Burn(v)
          /\ \A l \in 1 .. Len(w) : todo'[l] = w[l]
      BY <1>1, <1>6, <2>2
    <3> QED BY <1>6, <2>2, <3>1
  <2> QED BY <1>8, <2>1, <2>2
<1>10. ASSUME k \in 0..1, d[k].state = "NEW", d[1 - k].state = "VALID"
       PROVE  todo' = Rewrite(k, OnTrial(d[k]))
  <2> DEFINE R == Rewrite(k, OnTrial(d[k]))
  <2>1. 1 - k \in 0..1 /\ 1 - k # k /\ a[k] = d[k] /\ a[1 - k] = d[1 - k]
    BY <1>2, <1>10
  <2>2. m[k] = OnTrial(d[k]) /\ m[1 - k] = d[1 - k]
    BY <1>3, <1>10, <2>1
  <2>3. OnTrial(d[k]) \in Entry /\ OnTrial(d[k]).state = "PENDING_VERIFY"
    BY <1>10, <1>e, StateChangeType
  <2>4. ~burns
    BY <2>2, <2>3
  <2>5. C(k) = <<>> /\ C(1 - k) = <<>> /\ M(1 - k) = <<>> /\ M(k) = R
    BY <1>10, <2>1, <2>2, <2>3
  <2>6. R \in Seq(Operations) /\ b = <<>>
    BY <1>10, <2>3, <2>4, RewriteType
  <2> HIDE DEF C, M, b, R
  <2>7. C(0) = <<>> /\ C(1) = <<>>
    BY <1>10, <2>5
  <2>8. (M(0) = R /\ M(1) = <<>>) \/ (M(0) = <<>> /\ M(1) = R)
    BY <1>10, <2>5
  <2>9. <<>> \o R = R /\ R \o <<>> = R /\ <<>> \o <<>> = <<>>
    BY <2>6, EmptyConcat
  <2>10. w \o b = R
    BY <2>6, <2>7, <2>8, <2>9
  <2> QED BY <1>1, <2>10 DEF R
<1> QED BY <1>7, <1>9, <1>10

(* What those writes leave alone. *)
LEMMA StateWriteFacts ==
  ASSUME NEW x \in StateWrites
  PROVE  /\ x.op \in {"erase_entry", "write_entry"}
         /\ \A i \in 0..1 : Touches(x, i) => otadata[i].state \in {"NEW", "PENDING_VERIFY"}
         /\ x.op = "write_entry" =>
              /\ ~Confirmed(x.e) /\ Known(x.e)
              /\ (\A i \in 0..1 : IsInitial(otadata[i])) => IsInitial(x.e)
<1>1. PICK i \in 0..1, e \in Entry :
        /\ x \in {EraseEntry(i), WriteEntry(i, e)}
        /\ otadata[i].state \in {"NEW", "PENDING_VERIFY"}
        /\ e.state \in {"ABORTED", "PENDING_VERIFY"}
        /\ e.seq = otadata[i].seq /\ e.crcOk = otadata[i].crcOk
  BY DEF StateWrites
<1>2. x.op \in {"erase_entry", "write_entry"} /\ x.i = i /\ (x.op = "write_entry" => x.e = e)
  BY <1>1 DEF EraseEntry, WriteEntry
<1>3. ~Confirmed(e) /\ Known(e)
  BY <1>1 DEF Confirmed, Known
<1>4. (\A j \in 0..1 : IsInitial(otadata[j])) => IsInitial(e)
  BY <1>1 DEF IsInitial
<1> QED BY <1>1, <1>2, <1>3, <1>4 DEF Touches

(* bootloader_utility_get_selected_boot_partition preserves the invariant. *)
LEMMA SelectionStep ==
  ASSUME ANTI_ROLLBACK, ~HasTest, FuseInv, GetSelectedBootPartition
  PROVE  FuseInv'
<1> DEFINE k == Selection(AbortPending(otadata), flash, secver).active
           Burnt(n) == /\ n = Len(todo') /\ k \in 0..1 /\ otadata[k].state = "VALID"
                       /\ HasDescription(flash[SlotOf(otadata[k])])
                       /\ todo'[n] = Burn(SecureVersion(flash[SlotOf(otadata[k])]))
<1>t. TypeOK /\ otadata \in [0..1 -> Entry] /\ flash \in [Parts -> Image]
      /\ AbortPending(otadata) \in [0..1 -> Entry]
      /\ Backed(otadata, flash, secver) /\ secver \in Nat
  BY AbortPendingType DEF FuseInv, Inv, TypeOK
<1>i. Inv'
  BY InvStep DEF FuseInv, Next, BootNext
<1>u. /\ otadata' = otadata /\ flash' = flash /\ secver' = secver /\ pc' \in {"gpio", "load"}
      /\ boot'.index = Selection(AbortPending(otadata), flash, secver).index
      /\ boot'.initial = Selection(AbortPending(otadata), flash, secver).initial
  BY DEF GetSelectedBootPartition, device
<1>j. \A i \in 0..1 : /\ 1 - i \in 0..1 /\ 1 - (1 - i) = i
                      /\ SlotOf(AbortPending(otadata)[i]) = SlotOf(otadata[i])
                      /\ AbortPending(otadata)[i].seq = otadata[i].seq
                      /\ AbortPending(otadata)[i].crcOk = otadata[i].crcOk
                      /\ ota_select_valid(AbortPending(otadata)[i]) => ota_select_valid(otadata[i])
  <2>1. \A i \in 0..1 : 1 - i \in 0..1 /\ 1 - (1 - i) = i
    OBVIOUS
  <2>2. \A i \in 0..1 : /\ SlotOf(AbortPending(otadata)[i]) = SlotOf(otadata[i])
                        /\ AbortPending(otadata)[i].seq = otadata[i].seq
                        /\ AbortPending(otadata)[i].crcOk = otadata[i].crcOk
                        /\ ota_select_valid(AbortPending(otadata)[i]) => ota_select_valid(otadata[i])
    BY <1>t, AbortFacts
  <2> QED BY <2>1, <2>2
<1>k. /\ k \in {-1, 0, 1}
      /\ k # -1 => boot'.index = SlotOf(otadata[k]) /\ ota_select_valid(otadata[k])
  BY <1>t, <1>u, <1>j, CheckedSelection
<1>q. \A n \in 1 .. Len(todo') : todo'[n] \in StateWrites \/ Burnt(n)
  BY <1>t, CheckedQueue
<1>o. k \in 0..1 /\ otadata[k].state = "NEW" /\ otadata[1 - k].state = "VALID"
        => todo' = Rewrite(k, OnTrial(otadata[k]))
  BY <1>t, CheckedQueue
<1>s. \A i \in 0..1 : Confirmed(otadata[i]) =>
        /\ k = i => Good(otadata[i], flash, secver)
        /\ k # i => /\ k = 1 - i /\ Beats(k, otadata[k], otadata[i])
                    /\ otadata[k].state # "PENDING_VERIFY"
                    /\ \/ Bootable(flash[SlotOf(otadata[k])], secver)
                       \/ Bootable(flash[SlotOf(otadata[i])], secver)
  BY <1>t, SelectionBacked
<1> HIDE DEF k
<1>b. ASSUME NEW n \in 1 .. Len(todo'), Burnt(n)
      PROVE  /\ todo'[n].op = "burn" /\ Confirmed(otadata[k])
             /\ Bootable(flash[SlotOf(otadata[k])], todo'[n].v)
             /\ Good(otadata[k], flash, secver)
  <2>1. todo'[n].op = "burn" /\ todo'[n].v = SecureVersion(flash[SlotOf(otadata[k])])
    BY <1>b DEF Burn
  <2>2. Confirmed(otadata[k])
    BY <1>b, <1>k DEF Confirmed
  <2>3. Good(otadata[k], flash, secver)
    BY <1>b, <1>s, <2>2
  <2>4. Bootable(flash[SlotOf(otadata[k])], SecureVersion(flash[SlotOf(otadata[k])]))
    BY <2>3, BootableOwn DEF Good
  <2> QED BY <2>1, <2>2, <2>3, <2>4
<1>1. StatesKnown'
  <2>1. \A n \in 1 .. Len(todo') : todo'[n].op = "write_entry" => Known(todo'[n].e)
    BY <1>q, <1>b, StateWriteFacts
  <2> QED BY <1>u, <2>1 DEF FuseInv, StatesKnown
<1>2. Recordkeeping'
  <2> SUFFICES ASSUME NEW n \in 1 .. Len(todo')
               PROVE  /\ todo'[n].op \in {"erase_entry", "write_entry", "burn"}
                      /\ todo'[n].op = "write_entry" => ~Confirmed(todo'[n].e)
                      /\ \A i \in 0..1 : Touches(todo'[n], i) =>
                           ~Stale(otadata'[1 - i], flash', secver')
                      /\ todo'[n].op = "burn" =>
                           n = Len(todo') /\ \E j \in 0..1 : Holds(j, todo[n].v)'
    BY <1>u DEF Recordkeeping
  <2>1. CASE todo'[n] \in StateWrites
    <3>1. ASSUME NEW i \in 0..1, Touches(todo'[n], i)
          PROVE  ~Stale(otadata[1 - i], flash, secver)
      <4>1. ~Good(otadata[i], flash, secver)
        BY <2>1, <3>1, StateWriteFacts, ConfirmedValid DEF Good
      <4>2. Stale(otadata[1 - i], flash, secver) => Good(otadata[1 - (1 - i)], flash, secver)
        BY <1>t, <1>j DEF Backed
      <4> QED BY <1>j, <4>1, <4>2
    <3> QED BY <1>u, <2>1, <3>1, StateWriteFacts
  <2>2. CASE Burnt(n)
    <3>1. k \in 0..1 /\ 1 - k \in 0..1 /\ 1 - (1 - k) = k
      BY <2>2, <1>j
    <3>2. \A l \in 1 .. Len(todo') : ~Touches(todo'[l], k)
      <4>1. ASSUME NEW l \in 1 .. Len(todo'), Touches(todo'[l], k) PROVE FALSE
        <5>1. CASE todo'[l] \in StateWrites
          BY <2>2, <3>1, <4>1, <5>1, StateWriteFacts
        <5>2. CASE Burnt(l)
          BY <1>b, <4>1, <5>2 DEF Touches
        <5> QED BY <1>q, <5>1, <5>2
      <4> QED BY <4>1
    <3>3. Confirmed(otadata[1 - k]) => Beats(k, otadata[k], otadata[1 - k])
      BY <1>s, <3>1
    <3>4. Good(otadata[k], flash, todo'[n].v)
      BY <1>b, <2>2 DEF Good
    <3>5. PICK c \in 0..1 : c = k
      BY <3>1
    <3>7. Holds(c, todo[n].v)'
      BY <1>u, <3>2, <3>3, <3>4, <3>5 DEF Holds
    <3>6. todo'[n].op = "burn" /\ n = Len(todo')
      BY <1>b, <2>2
    <3> QED BY <3>6, <3>7 DEF Touches
  <2> QED BY <1>q, <2>1, <2>2
<1>3. Choice'
  <2> SUFFICES ASSUME NEW i \in 0..1, Confirmed(otadata[i])
               PROVE  StartsConfirmed(i)' \/ \E e \in Entry : StartsOther(i, e)'
    BY <1>u DEF Choice
  <2>v. otadata[i].state = "VALID"
    BY ConfirmedValid
  <2>w. \A n \in 1 .. Len(todo') : ~Touches(todo'[n], i)
    <3>1. \A n \in 1 .. Len(todo') : Burnt(n) => ~Touches(todo'[n], i)
      BY <1>b DEF Touches
    <3> QED BY <1>q, <2>v, <3>1, StateWriteFacts
  <2>1. CASE k = i
    <3>1. boot'.index = SlotOf(otadata[i]) /\ Bootable(flash[SlotOf(otadata[i])], secver)
      BY <1>k, <1>s, <2>1 DEF Good
    <3>2. \A n \in 1 .. Len(todo') :
            todo'[n].op = "burn" => Bootable(flash[SlotOf(otadata[i])], todo'[n].v)
      BY <1>b, <1>q, <2>1, StateWriteFacts
    <3> QED BY <1>u, <2>w, <3>1, <3>2 DEF StartsConfirmed
  <2>2. CASE k # i
    <3>1. /\ k = 1 - i /\ 1 - k = i /\ k \in 0..1 /\ Beats(k, otadata[k], otadata[i])
          /\ otadata[k].state # "PENDING_VERIFY"
          /\ \/ Bootable(flash[SlotOf(otadata[k])], secver)
             \/ Bootable(flash[SlotOf(otadata[i])], secver)
      BY <1>j, <1>s, <2>2
    <3>2. boot'.index = SlotOf(otadata[k]) /\ otadata[k] \in Entry
      BY <1>k, <1>t, <3>1
    <3>3. otadata[k].state \in {"NEW", "VALID"}
      <4>1. ota_select_valid(otadata[k]) /\ Known(otadata[k])
        BY <3>1 DEF Beats, FuseInv, StatesKnown
      <4> QED BY <3>1, <3>2, <4>1
          DEF ota_select_valid, ota_select_invalid, Known, Entry, ImgStates
    <3>4. CASE otadata[k].state = "NEW"
      <4>0. PICK e : e = OnTrial(otadata[k])
        OBVIOUS
      <4>1. e \in Entry /\ e.state = "PENDING_VERIFY" /\ e.seq = otadata[k].seq
            /\ e.crcOk = otadata[k].crcOk /\ SlotOf(e) = SlotOf(otadata[k])
        BY <3>2, <4>0, StateChangeType
      <4>2. Beats(k, e, otadata[i])
        BY <3>1, <4>1 DEF Beats, ota_select_valid, ota_select_invalid
      <4>3. todo' = Rewrite(1 - i, e)
        BY <1>o, <2>v, <3>1, <3>4, <4>0
      <4>4. Bootable(flash[SlotOf(otadata[i])], secver)
        <5>1. ~Good(otadata[1 - i], flash, secver)
          BY <3>1, <3>4, ConfirmedValid DEF Good
        <5>2. ~Stale(otadata[i], flash, secver)
          BY <1>t, <5>1 DEF Backed
        <5> QED BY <5>2 DEF Stale
      <4>5. StartsOther(i, e)'
        BY <1>u, <3>1, <3>2, <4>1, <4>2, <4>3, <4>4 DEF StartsOther
      <4> QED BY <4>1, <4>5
    <3>5. CASE otadata[k].state = "VALID"
      <4>1. \A n \in 1 .. Len(todo') :
              todo'[n].op = "burn" /\ Bootable(flash[SlotOf(otadata[k])], todo'[n].v)
        <5>1. ASSUME NEW n \in 1 .. Len(todo'), todo'[n] \in StateWrites PROVE FALSE
          <6>1. PICK l \in 0..1 : otadata[l].state \in {"NEW", "PENDING_VERIFY"}
            BY <5>1 DEF StateWrites
          <6>2. l = i \/ l = k
            BY <3>1
          <6> QED BY <2>v, <3>5, <6>1, <6>2
        <5> QED BY <1>b, <1>q, <5>1
      <4>2. PICK e \in Entry : e = otadata[k]
        BY <3>2
      <4>3. otadata'[1 - i] = e /\ boot'.index = SlotOf(e) /\ Beats(1 - i, e, otadata'[i])
        BY <1>u, <3>1, <3>2, <4>2
      <4>4. Bootable(flash'[SlotOf(e)], secver') \/ Bootable(flash'[SlotOf(otadata'[i])], secver')
        BY <1>u, <3>1, <4>2
      <4>5. \A n \in 1 .. Len(todo') : todo'[n].op = "burn" /\ Bootable(flash'[SlotOf(e)], todo'[n].v)
        BY <1>u, <4>1, <4>2
      <4>6. StartsOther(i, e)'
        BY <3>5, <4>2, <4>3, <4>4, <4>5 DEF StartsOther
      <4> QED BY <4>6
    <3> QED BY <3>3, <3>4, <3>5
  <2> QED BY <2>1, <2>2
<1>4. StillInitial'
  <2> SUFFICES ASSUME boot'.initial
               PROVE  /\ \A i \in 0..1 : IsInitial(otadata[i])
                      /\ \A n \in 1 .. Len(todo') : todo'[n].op = "write_entry" => IsInitial(todo'[n].e)
    BY <1>u DEF StillInitial
  <2>1. \A i \in 0..1 : IsInitial(AbortPending(otadata)[i])
    BY <1>t, <1>u, CheckedSelection
  <2>2. \A i \in 0..1 : IsInitial(otadata[i])
    BY <1>j, <2>1 DEF IsInitial
  <2>3. \A n \in 1 .. Len(todo') : todo'[n].op = "write_entry" => IsInitial(todo'[n].e)
    BY <1>q, <1>b, <2>2, StateWriteFacts
  <2> QED BY <2>2, <2>3
<1>5. RunSafe' /\ NeverBricked'
  BY <1>u DEF RunSafe, FuseInv, NeverBricked
<1> QED BY <1>i, <1>t, <1>u, <1>1, <1>2, <1>3, <1>4, <1>5 DEF FuseInv, Queued

----------------------------------------------------------------------------
(* The rest of the boot *)

(* The queue that confirms an app: its record, then perhaps the fuses. *)
LEMMA ConfirmQueue ==
  ASSUME NEW j, NEW e, NEW v, NEW q, q = Rewrite(j, e) \o UpdateSecureVersion(v)
  PROVE  /\ 2 <= Len(q) /\ q[1] = EraseEntry(j) /\ q[2] = WriteEntry(j, e)
         /\ \A k \in 1 .. Len(q) : \/ k \in 1..2
                                   \/ k = 3 /\ k = Len(q) /\ q[k] = Burn(v)
<1> DEFINE a == EraseEntry(j)
           b == WriteEntry(j, e)
           c == Burn(v)
           u == UpdateSecureVersion(v)
<1>1. q = <<a, b>> \o u
  BY DEF Rewrite
<1>2. u = <<>> \/ u = <<c>>
  BY DEF UpdateSecureVersion
<1> HIDE DEF a, b, c, u
<1>3. CASE u = <<>>
  BY <1>1, <1>3 DEF a, b
<1>4. CASE u = <<c>>
  <2>1. Len(q) = 3 /\ q[1] = a /\ q[2] = b /\ q[3] = c
    BY <1>1, <1>4
  <2> QED BY <2>1 DEF a, b, c
<1> QED BY <1>2, <1>3, <1>4

(* The running app is about to be recorded as confirmed. *)
LEMMA StartsConfirming ==
  ASSUME ANTI_ROLLBACK, NEW j \in 0..1, NEW e \in Entry, NEW p,
         UNCHANGED device, pc' = "run", running' = p,
         Good(e, flash, secver), SlotOf(e) = p,
         ~Stale(otadata[1 - j], flash, secver),
         Confirmed(otadata[1 - j]) => Beats(j, e, otadata[1 - j]),
         todo' = Rewrite(j, e) \o UpdateSecureVersion(SecureVersion(flash[p]))
  PROVE  /\ Confirming(j, e)'
         /\ \A k \in 1 .. Len(todo') : todo'[k].op = "write_entry" => Known(todo'[k].e)
<1> DEFINE v == SecureVersion(flash[p])
<1>1. otadata' = otadata /\ flash' = flash /\ secver' = secver
  BY DEF device
<1>2. Good(e, flash, v)
  BY BootableOwn DEF Good
<1> HIDE DEF v
<1>3. /\ 2 <= Len(todo') /\ todo'[1] = EraseEntry(j) /\ todo'[2] = WriteEntry(j, e)
      /\ \A k \in 1 .. Len(todo') : k \in 1..2 \/ (k = 3 /\ k = Len(todo') /\ todo'[k] = Burn(v))
  BY ConfirmQueue DEF v
<1>4. \A k \in 3 .. Len(todo') : k = Len(todo') /\ todo'[k].op = "burn" /\ todo'[k].v = v
  BY <1>3 DEF Burn
<1>5. \E n \in 1 .. 2 :
        /\ n <= Len(todo') /\ todo'[n] = WriteEntry(j, e)
        /\ n = 2 => todo'[1] = EraseEntry(j)
        /\ \A k \in n + 1 .. Len(todo') :
             k = Len(todo') /\ todo'[k].op = "burn" /\ Good(e, flash', todo'[k].v)
  <2>1. \A k \in 2 + 1 .. Len(todo') :
          k = Len(todo') /\ todo'[k].op = "burn" /\ Good(e, flash', todo'[k].v)
    BY <1>1, <1>2, <1>4
  <2> QED BY <1>3, <2>1
<1>6. Confirming(j, e)'
  BY <1>1, <1>5 DEF Confirming
<1>7. Known(e)
  BY ConfirmedValid DEF Good, Known
<1>8. \A k \in 1 .. Len(todo') : todo'[k].op = "write_entry" => Known(todo'[k].e)
  BY <1>3, <1>7 DEF EraseEntry, WriteEntry, Burn
<1> QED BY <1>6, <1>8

(* selected_boot_partition preserves it, unless it erases both records. *)
LEMMA PinsStep ==
  ASSUME ANTI_ROLLBACK, ~HasTest, ~(FACTORY_RESET /\ OTA_DATA_ERASE), FuseInv, CheckPins
  PROVE  FuseInv'
<1>i. Inv'
  BY InvStep DEF FuseInv, Next, BootNext
<1>1. /\ otadata' = otadata /\ flash' = flash /\ secver' = secver /\ todo = <<>> /\ pc = "gpio"
      /\ todo' = <<>>
      /\ \/ pc' = "load" /\ boot' = boot
         \/ pc' \in {"reselect", "reset"}
  BY DEF CheckPins, device
<1>2. Len(todo) = 0 /\ Len(todo') = 0
  BY <1>1
<1>3. Backed(otadata, flash, secver)' /\ StatesKnown' /\ Recordkeeping' /\ RunSafe' /\ NeverBricked'
  BY <1>1, <1>2 DEF FuseInv, StatesKnown, Recordkeeping, RunSafe, NeverBricked
<1>4. Choice' /\ StillInitial'
  <2>1. CASE pc' = "load" /\ boot' = boot
    BY <1>1, <2>1 DEF FuseInv, Choice, StartsConfirmed, StartsOther, StillInitial
  <2>2. CASE pc' \in {"reselect", "reset"}
    BY <2>2 DEF Choice, StillInitial
  <2> QED BY <1>1, <2>1, <2>2
<1> QED BY <1>i, <1>3, <1>4 DEF FuseInv, Queued

(* bootloader_utility_load_boot_image preserves it: with two slots the app *)
(* that is started is one that a confirmed record names or yields to.      *)
LEMMA LoadStep ==
  ASSUME ANTI_ROLLBACK, ~HasTest, AppCount <= 2, FuseInv, LoadBootImage
  PROVE  FuseInv'
<1> DEFINE p == LoadIndex(boot.index, flash, secver)
<1>t. /\ TypeOK /\ otadata \in [0..1 -> Entry] /\ flash \in [Parts -> Image]
      /\ boot.index \in Parts \cup {FACTORY_INDEX} /\ Backed(otadata, flash, secver)
  BY DEF FuseInv, Inv, TypeOK
<1>i. Inv'
  BY InvStep DEF FuseInv, Next, BootNext
<1>u. /\ otadata' = otadata /\ flash' = flash /\ secver' = secver /\ ops' = ops
      /\ UNCHANGED device /\ todo = <<>> /\ pc = "load"
  BY DEF LoadBootImage, device
<1>s. \A i \in 0..1 : Known(otadata[i])
  BY DEF FuseInv, StatesKnown
<1>c. Choice' /\ StillInitial' /\ NeverBricked' /\ Backed(otadata', flash', secver')
  <2>1. pc' \in {"reset", "run"}
    BY DEF LoadBootImage
  <2> QED BY <1>t, <1>u, <2>1 DEF FuseInv, Choice, StillInitial, NeverBricked
<1>0. Len(todo) = 0
  BY <1>u
<1>1. CASE p = NO_APP
  <2>1. pc' = "reset" /\ Len(todo') = 0
    BY <1>1, <1>0 DEF LoadBootImage
  <2>2. StatesKnown' /\ Recordkeeping' /\ RunSafe'
    BY <1>s, <1>u, <2>1 DEF StatesKnown, Recordkeeping, RunSafe
  <2> QED BY <1>c, <1>i, <2>2 DEF FuseInv, Queued
<1>2. CASE p # NO_APP
  <2>1. p \in Slots /\ Bootable(flash[p], secver)
    <3>1. p \in Parts /\ Verifies(flash[p]) /\ (p \in Slots => check_anti_rollback(flash[p], secver))
      BY <1>2, <1>t, LoadIndexGood
    <3> QED BY <3>1, OnlySlots DEF Bootable
  <2>2. pc' = "run" /\ running' = p
    BY <1>2 DEF LoadBootImage
  <2>p. p \in Nat /\ p < AppCount /\ p > FACTORY_INDEX
    BY <2>1, OtaAssumption DEF Slots, FACTORY_INDEX
  <2>3. CASE boot.initial
    <3> DEFINE e == [seq |-> p + 1, state |-> "VALID", crcOk |-> TRUE]
    <3>1. todo' = Rewrite(0, e) \o UpdateSecureVersion(SecureVersion(flash[p]))
      BY <1>2, <2>3, <2>p DEF LoadBootImage
    <3>2. e \in Entry /\ Confirmed(e)
      BY <2>p, OtaAssumption
      DEF Entry, ImgStates, UINT32_MAX, Confirmed, ota_select_valid, ota_select_invalid
    <3>3. SlotOf(e) = p
      BY <2>p, OtaAssumption DEF SlotOf
    <3>4. ~Confirmed(otadata[1])
      <4>1. IsInitial(otadata[1])
        BY <1>u, <2>3 DEF FuseInv, StillInitial
      <4> QED BY <4>1 DEF IsInitial, Confirmed, ota_select_valid, ota_select_invalid
    <3> HIDE DEF e, p
    <3>5. PICK f \in Entry : f = e
      BY <3>2
    <3>6. PICK r : r = p
      OBVIOUS
    <3>7. Confirming(0, f)' /\ \A k \in 1 .. Len(todo') : todo'[k].op = "write_entry" => Known(todo'[k].e)
      <4>1. Good(f, flash, secver) /\ SlotOf(f) = r
        BY <2>1, <3>2, <3>3, <3>5, <3>6 DEF Good
      <4>2. ~Stale(otadata[1 - 0], flash, secver) /\ ~Confirmed(otadata[1 - 0])
        BY <3>4 DEF Stale
      <4>3. todo' = Rewrite(0, f) \o UpdateSecureVersion(SecureVersion(flash[r])) /\ running' = r
        BY <2>2, <3>1, <3>5, <3>6
      <4>4. 0 \in 0..1
        OBVIOUS
      <4> QED BY <1>u, <2>2, <4>1, <4>2, <4>3, <4>4, StartsConfirming
    <3>8. StatesKnown'
      BY <1>s, <1>u, <3>7 DEF StatesKnown
    <3>9. 0 \in 0..1
      OBVIOUS
    <3>10. Queued' /\ RunSafe'
      BY <3>7, <3>9 DEF Queued, RunSafe
    <3> QED BY <1>c, <1>i, <3>8, <3>10 DEF FuseInv
  <2>4. CASE ~boot.initial
    <3>1. todo' = <<>>
      BY <1>2, <2>4 DEF LoadBootImage
    <3>0. Len(todo') = 0
      BY <3>1
    <3>2. ASSUME NEW i \in 0..1, Confirmed(otadata[i]), SlotOf(otadata[i]) # p
          PROVE  Yields(i)'
      <4>1. SlotOf(otadata[i]) \in Slots /\ 1 - i \in 0..1
        BY <1>t, SlotOfType
      <4>2. \A q \in Slots : q = boot.index /\ Bootable(flash[q], secver) => q = p
        BY LoadsSelected, OnlySlots
      <4>3. ~StartsConfirmed(i)
        BY <3>2, <4>1, <4>2 DEF StartsConfirmed
      <4>4. PICK e \in Entry : StartsOther(i, e)
        BY <1>u, <3>2, <4>3 DEF FuseInv, Choice
      <4>5. todo \notin {Rewrite(1 - i, e), <<WriteEntry(1 - i, e)>>}
        BY <1>u DEF Rewrite
      <4>6. /\ boot.index = SlotOf(e) /\ Beats(1 - i, e, otadata[i]) /\ otadata[1 - i] = e
            /\ e.state \in {"PENDING_VERIFY", "VALID"} /\ SlotOf(e) \in Slots
            /\ Bootable(flash[SlotOf(e)], secver) \/ Bootable(flash[SlotOf(otadata[i])], secver)
        BY <4>4, <4>5, SlotOfType DEF StartsOther
      <4>7. SlotOf(e) = p
        <5>1. CASE Bootable(flash[SlotOf(e)], secver)
          BY <4>2, <4>6, <5>1
        <5>2. CASE ~Bootable(flash[SlotOf(e)], secver)
          <6>1. SlotOf(e) # SlotOf(otadata[i])
            BY <4>6, <5>2
          <6>2. \A a, b, c \in Slots : a = b \/ b = c \/ a = c
            BY OtaAssumption DEF Slots
          <6> QED BY <2>1, <3>2, <4>1, <4>6, <6>1, <6>2
        <5> QED BY <5>1, <5>2
      <4>8. \A h \in Handles : ops'[h].part # SlotOf(otadata'[i])
        <5>1. NO_APP \notin Slots /\ NoEntry.part = NO_APP
          BY DEF NO_APP, Slots, NoEntry
        <5>2. \A h \in Handles : ops[h] = NoEntry
          BY <1>u DEF FuseInv, Inv, Control, HandlesElsewhere
        <5> QED BY <1>u, <4>1, <5>1, <5>2
      <4> HIDE DEF p
      <4> QED BY <1>u, <2>2, <4>6, <4>7, <4>8 DEF Yields
    <3>3. RunSafe'
      BY <1>u, <2>2, <3>2 DEF RunSafe
    <3>4. StatesKnown' /\ Recordkeeping'
      BY <1>s, <1>u, <3>0 DEF StatesKnown, Recordkeeping
    <3> QED BY <1>c, <1>i, <3>3, <3>4 DEF FuseInv, Queued
  <2> QED BY <2>3, <2>4
<1> QED BY <1>1, <1>2

----------------------------------------------------------------------------
(* The application *)

(* Between two calls no confirmation is under way, and the records of      *)
(* other apps yield to the one of the running app.                         *)
LEMMA BetweenCalls ==
  ASSUME ANTI_ROLLBACK, ~HasTest, FuseInv, AppCalls
  PROVE  /\ otadata \in [0..1 -> Entry] /\ secver \in Nat /\ pc = "run" /\ Len(todo) = 0
         /\ running # NO_APP /\ running \in Slots /\ Bootable(flash[running], secver)
         /\ \A i \in 0..1 : Confirmed(otadata[i]) /\ SlotOf(otadata[i]) # running => Yields(i)
         /\ \A i \in 0..1 : Known(otadata[i])
<1>1. pc = "run" /\ Len(todo) = 0
  BY DEF AppCalls
<1>2. running # NO_APP
  BY <1>1 DEF FuseInv, Inv, Control
<1>3. ASSUME NEW j \in 0..1, NEW e \in Entry, Confirming(j, e) PROVE FALSE
  BY <1>1, <1>3 DEF Confirming
<1>4. \A i \in 0..1 : Confirmed(otadata[i]) /\ SlotOf(otadata[i]) # running => Yields(i)
  BY <1>1, <1>3 DEF FuseInv, RunSafe
<1>5. running \in Slots /\ Bootable(flash[running], secver)
  BY <1>2, RunningBootable DEF FuseInv
<1> QED BY <1>1, <1>2, <1>4, <1>5 DEF FuseInv, Inv, TypeOK, StatesKnown

(* What a call or a restart leaves as it is. *)
LEMMA CallKeeps ==
  ASSUME FuseInv, UNCHANGED device, pc' \in {"run", "reset"}, Inv'
  PROVE  Backed(otadata', flash', secver') /\ Choice' /\ StillInitial' /\ NeverBricked'
BY DEF FuseInv, device, Choice, StillInitial, NeverBricked

(* esp_ota_begin is refused while the record that the others yield to is   *)
(* on trial.                                                               *)
LEMMA BeginStep ==
  ASSUME ANTI_ROLLBACK, ~HasTest, FuseInv, NEW h \in Handles, NEW p \in Slots,
         NEW n \in 1 .. Chunks, esp_ota_begin(h, p, n)
  PROVE  StatesKnown' /\ Queued' /\ RunSafe'
<1>b. AppCalls
  BY DEF esp_ota_begin
<1>t. /\ otadata \in [0..1 -> Entry] /\ pc = "run" /\ running \in Slots
      /\ Bootable(flash[running], secver)
      /\ \A i \in 0..1 : Confirmed(otadata[i]) /\ SlotOf(otadata[i]) # running => Yields(i)
      /\ \A i \in 0..1 : Known(otadata[i])
  BY <1>b, BetweenCalls
<1>u. /\ otadata' = otadata /\ flash' = flash /\ secver' = secver /\ pc' = pc /\ running' = running
      /\ p # running /\ todo' = EraseCells(p, n)
      /\ esp_ota_get_state_partition(otadata, running) # "PENDING_VERIFY"
  BY OtaAssumption DEF esp_ota_begin, device
<1>1. \A k \in 1 .. Len(todo') : todo'[k].op = "erase_cell" /\ todo'[k].p = p
  <2>1. n \in Nat
    BY OtaAssumption
  <2> QED BY <1>u, <2>1 DEF EraseCells, EraseCell
<1>2. ASSUME NEW i \in 0..1, Confirmed(otadata[i]), SlotOf(otadata[i]) # running
      PROVE  /\ SlotOf(otadata[1 - i]) = running /\ Beats(1 - i, otadata[1 - i], otadata[i])
             /\ otadata[1 - i].state = "VALID" /\ Good(otadata[1 - i], flash, secver)
  <2>1. Yields(i) /\ 1 - i \in 0..1
    BY <1>2, <1>t
  <2>2. /\ SlotOf(otadata[1 - i]) = running /\ Beats(1 - i, otadata[1 - i], otadata[i])
        /\ otadata[1 - i].state \in {"PENDING_VERIFY", "VALID"}
        /\ ota_select_valid(otadata[1 - i])
    BY <2>1 DEF Yields, Beats
  <2>3. otadata[1 - i].crcOk
    BY <2>2 DEF ota_select_valid
  <2>4. esp_ota_get_state_partition(otadata, running) = otadata[1 - i].state
    <3>1. CASE i = 0
      BY <1>2, <1>t, <2>2, <2>3, <3>1 DEF esp_ota_get_state_partition
    <3>2. CASE i = 1
      BY <1>2, <1>t, <2>2, <2>3, <3>2 DEF esp_ota_get_state_partition
    <3> QED BY <3>1, <3>2
  <2>5. otadata[1 - i].state = "VALID"
    BY <1>u, <2>2, <2>4
  <2> QED BY <1>t, <2>2, <2>5 DEF Good, Confirmed
<1>3. Filling(p)'
  <2>1. \A i \in 0..1 : Confirmed(otadata[i]) /\ SlotOf(otadata[i]) = p =>
          /\ Good(otadata[1 - i], flash, secver) /\ SlotOf(otadata[1 - i]) # p
          /\ Beats(1 - i, otadata[1 - i], otadata[i])
    BY <1>2, <1>u
  <2> QED BY <1>t, <1>u, <1>1, <2>1 DEF Filling
<1>4. RunSafe'
  <2>1. \A i \in 0..1 : Confirmed(otadata[i]) /\ SlotOf(otadata[i]) # running => Yields(i)'
    BY <1>2, <1>u DEF Yields
  <2> QED BY <1>u, <2>1 DEF RunSafe
<1>5. StatesKnown'
  BY <1>t, <1>u, <1>1 DEF StatesKnown
<1> QED BY <1>3, <1>4, <1>5 DEF Queued

(* esp_ota_write goes to a slot that esp_ota_begin was allowed to erase. *)
LEMMA WriteStep ==
  ASSUME ANTI_ROLLBACK, ~HasTest, FuseInv, NEW h \in Handles, NEW v \in Versions,
         esp_ota_write(h, v)
  PROVE  StatesKnown' /\ Queued' /\ RunSafe'
<1>b. AppCalls
  BY DEF esp_ota_write
<1>t. /\ otadata \in [0..1 -> Entry] /\ pc = "run" /\ running \in Slots /\ running # NO_APP
      /\ Bootable(flash[running], secver)
      /\ \A i \in 0..1 : Confirmed(otadata[i]) /\ SlotOf(otadata[i]) # running => Yields(i)
      /\ \A i \in 0..1 : Known(otadata[i])
  BY <1>b, BetweenCalls
<1>0. PICK p : p = ops[h].part
  OBVIOUS
<1>p. p \in Slots /\ p # running /\ ops \in [Handles -> {NoEntry} \cup [part : Slots, pos : 0 .. Chunks]]
  <2>1. ops[h] # NoEntry
    BY DEF esp_ota_write
  <2> QED BY <1>t, <1>0, <2>1 DEF FuseInv, Inv, TypeOK, HandlesElsewhere
<1>u. /\ otadata' = otadata /\ flash' = flash /\ secver' = secver /\ pc' = pc /\ running' = running
      /\ todo' = <<WriteCell(p, ops[h].pos + 1, v)>>
      /\ ops' = [ops EXCEPT ![h].pos = @ + 1]
  BY <1>0 DEF esp_ota_write, device
<1>1. \A k \in 1 .. Len(todo') : todo'[k].op = "write_cell" /\ todo'[k].p = p
  BY <1>u DEF WriteCell
<1>o. \A g \in Handles : ops'[g].part = ops[g].part
  BY <1>p, <1>u DEF NoEntry
<1>2. ASSUME NEW i \in 0..1, Confirmed(otadata[i]), SlotOf(otadata[i]) = p
      PROVE  /\ SlotOf(otadata[1 - i]) = running /\ Beats(1 - i, otadata[1 - i], otadata[i])
             /\ Good(otadata[1 - i], flash, secver)
  <2>1. Yields(i)
    BY <1>2, <1>p, <1>t
  <2>2. /\ SlotOf(otadata[1 - i]) = running /\ Beats(1 - i, otadata[1 - i], otadata[i])
        /\ otadata[1 - i].state = "VALID" /\ ota_select_valid(otadata[1 - i])
    BY <1>0, <1>2, <2>1 DEF Yields, Beats
  <2> QED BY <1>t, <2>2 DEF Good, Confirmed
<1>3. Filling(p)'
  BY <1>p, <1>t, <1>u, <1>1, <1>2 DEF Filling
<1>4. RunSafe'
  BY <1>o, <1>t, <1>u DEF RunSafe, Yields
<1>5. StatesKnown'
  BY <1>t, <1>u, <1>1 DEF StatesKnown
<1> QED BY <1>p, <1>3, <1>4, <1>5 DEF Queued

(* esp_ota_end writes nothing. *)
LEMMA EndStep ==
  ASSUME ANTI_ROLLBACK, ~HasTest, FuseInv, NEW h \in Handles, esp_ota_end(h)
  PROVE  StatesKnown' /\ Queued' /\ RunSafe'
<1>b. AppCalls
  BY DEF esp_ota_end
<1>t. /\ otadata \in [0..1 -> Entry] /\ Len(todo) = 0
      /\ \A i \in 0..1 : Confirmed(otadata[i]) /\ SlotOf(otadata[i]) # running => Yields(i)
      /\ \A i \in 0..1 : Known(otadata[i])
  BY <1>b, BetweenCalls
<1>u. /\ otadata' = otadata /\ flash' = flash /\ secver' = secver /\ pc' = pc /\ running' = running
      /\ todo' = todo /\ ops' = [ops EXCEPT ![h] = NoEntry]
      /\ ops \in [Handles -> {NoEntry} \cup [part : Slots, pos : 0 .. Chunks]]
  BY DEF esp_ota_end, device, FuseInv, Inv, TypeOK
<1>1. StatesKnown' /\ Recordkeeping'
  BY <1>t, <1>u DEF StatesKnown, Recordkeeping
<1>2. ASSUME NEW i \in 0..1, Confirmed(otadata[i]), SlotOf(otadata[i]) # running
      PROVE  Yields(i)'
  <2>1. Yields(i)
    BY <1>2, <1>t
  <2>2. NoEntry.part \notin Slots /\ SlotOf(otadata[i]) \in Slots
    BY <1>t, SlotOfType DEF NoEntry, NO_APP, Slots
  <2>3. \A g \in Handles : ops'[g].part = SlotOf(otadata[i]) => ops[g].part = SlotOf(otadata[i])
    BY <1>u, <2>2
  <2> QED BY <1>u, <2>1, <2>3 DEF Yields
<1>3. RunSafe'
  BY <1>u, <1>2 DEF RunSafe
<1> QED BY <1>1, <1>3 DEF Queued

(* esp_ota_set_boot_partition replaces the record that is not in force, or *)
(* erases an app that is revoked.                                          *)
LEMMA SetBootStep ==
  ASSUME ANTI_ROLLBACK, ~HasTest, FuseInv, NEW p \in Parts, esp_ota_set_boot_partition(p)
  PROVE  StatesKnown' /\ Queued' /\ RunSafe'
<1>b. AppCalls
  BY DEF esp_ota_set_boot_partition
<1>t. /\ otadata \in [0..1 -> Entry] /\ secver \in Nat /\ pc = "run" /\ running \in Slots
      /\ Bootable(flash[running], secver)
      /\ \A i \in 0..1 : Confirmed(otadata[i]) /\ SlotOf(otadata[i]) # running => Yields(i)
      /\ \A i \in 0..1 : Known(otadata[i])
      /\ Backed(otadata, flash, secver)
  BY <1>b, BetweenCalls DEF FuseInv
<1>u. /\ otadata' = otadata /\ flash' = flash /\ secver' = secver /\ pc' = pc /\ running' = running
      /\ ops' = ops
  BY DEF esp_ota_set_boot_partition, device
<1>p. p \in Slots /\ p # FACTORY_INDEX
  BY OnlySlots DEF Slots, FACTORY_INDEX
<1>r. RunSafe'
  BY <1>t, <1>u DEF RunSafe, Yields
<1>1. CASE esp_rewrite_ota_data(p)
  <2>0. PICK i \in 0..1 :
          /\ \E e : todo' = Rewrite(i, e) /\ e.state = "NEW"
          /\ Active = -1 \/ Active = 1 - i
    <3>r. ROLLBACK_ENABLE
      BY OtaAssumption
    <3>1. CASE Active = -1
      BY <1>1, <3>1, <3>r DEF esp_rewrite_ota_data
    <3>2. CASE Active # -1
      <4>1. Active \in 0..1 /\ 1 - Active \in 0..1 /\ Active = 1 - (1 - Active)
        BY <1>t, <3>2, ActiveType DEF Active
      <4>2. \E e : todo' = Rewrite(1 - Active, e) /\ e.state = "NEW"
        BY <1>1, <3>2, <3>r DEF esp_rewrite_ota_data
      <4> QED BY <4>1, <4>2
    <3> QED BY <3>1, <3>2
  <2>1. PICK e : todo' = Rewrite(i, e) /\ e.state = "NEW"
    BY <2>0
  <2>j. 1 - i \in 0..1 /\ 1 - (1 - i) = i
    OBVIOUS
  <2>2. Confirmed(otadata[1 - i]) => ~Beats(i, otadata[i], otadata[1 - i])
    <3>1. CASE Active = -1
      BY <1>t, <2>j, <3>1, ActiveNone, ConfirmedValid DEF Active
    <3>2. CASE Active = 1 - i
      <4>1. ota_select_valid(otadata[i]) =>
              \/ otadata[1 - i].seq > otadata[i].seq
              \/ otadata[1 - i].seq = otadata[i].seq /\ 1 - i = 0
        BY <1>t, <2>j, <3>2, ActivePrevails DEF Active
      <4>2. otadata[i].seq \in Int /\ otadata[1 - i].seq \in Int
        BY <1>t, <2>j, OtaAssumption DEF Entry, UINT32_MAX
      <4> QED BY <4>1, <4>2 DEF Beats
    <3> QED BY <2>0, <3>1, <3>2
  <2>3. ~Stale(otadata[1 - i], flash, secver)
    <3>1. Stale(otadata[1 - i], flash, secver) => Beats(i, otadata[i], otadata[1 - i])
      BY <1>t, <2>j DEF Backed
    <3> QED BY <2>2, <3>1 DEF Stale
  <2>4. ~(Confirmed(otadata[1 - i]) /\ SlotOf(otadata[1 - i]) # running)
    BY <1>t, <2>2, <2>j DEF Yields
  <2>5. Len(todo') = 2 /\ todo'[1] = EraseEntry(i) /\ todo'[2] = WriteEntry(i, e)
    BY <2>1 DEF Rewrite
  <2>6. ~Confirmed(e) /\ Known(e)
    BY <2>1 DEF Confirmed, Known
  <2>7. \A k \in 1 .. Len(todo') :
          /\ todo'[k].op \in {"erase_entry", "write_entry"} /\ todo'[k].i = i
          /\ todo'[k].op = "write_entry" => todo'[k].e = e
    BY <2>5 DEF EraseEntry, WriteEntry
  <2>8. Recordkeeping'
    BY <1>u, <2>3, <2>4, <2>6, <2>7 DEF Recordkeeping, Touches
  <2>9. StatesKnown'
    BY <1>t, <1>u, <2>6, <2>7 DEF StatesKnown
  <2> QED BY <1>r, <2>8, <2>9 DEF Queued
<1>2. CASE SecureVersion(flash[p]) < secver /\ todo' = EraseCells(p, Chunks)
  <2>1. \A k \in 1 .. Len(todo') : todo'[k].op = "erase_cell" /\ todo'[k].p = p
    <3>1. Chunks \in Nat
      BY OtaAssumption
    <3> QED BY <1>2, <3>1 DEF EraseCells, EraseCell
  <2>2. ~Bootable(flash[p], secver)
    <3> SUFFICES ASSUME Bootable(flash[p], secver) PROVE FALSE
      OBVIOUS
    <3>1. SecureVersion(flash[p]) \in Nat /\ SecureVersion(flash[p]) >= secver
      BY OtaAssumption DEF Bootable, check_anti_rollback, HasDescription, SecureVersion
    <3> QED BY <1>2, <1>t, <3>1
  <2>3. p # running
    BY <1>t, <2>2
  <2>4. \A i \in 0..1 : Confirmed(otadata[i]) /\ SlotOf(otadata[i]) = p =>
          /\ Good(otadata[1 - i], flash, secver) /\ SlotOf(otadata[1 - i]) # p
          /\ Beats(1 - i, otadata[1 - i], otadata[i])
    BY <1>t, <2>2 DEF Backed, Stale, Good
  <2>5. Filling(p)'
    BY <1>t, <1>u, <2>1, <2>3, <2>4 DEF Filling
  <2>6. StatesKnown'
    BY <1>t, <1>u, <2>1 DEF StatesKnown
  <2> QED BY <1>p, <1>r, <2>5, <2>6 DEF Queued
<1> QED BY <1>1, <1>2, <1>p DEF esp_ota_set_boot_partition

(* esp_ota_mark_app_valid_cancel_rollback confirms the running app. *)
LEMMA MarkValidStep ==
  ASSUME ANTI_ROLLBACK, ~HasTest, FuseInv, IsSelected(running),
         esp_ota_mark_app_valid_cancel_rollback
  PROVE  StatesKnown' /\ Queued' /\ RunSafe'
<1>b. AppCalls
  BY DEF esp_ota_mark_app_valid_cancel_rollback
<1>t. /\ otadata \in [0..1 -> Entry] /\ pc = "run" /\ running \in Slots
      /\ Bootable(flash[running], secver) /\ \A i \in 0..1 : Known(otadata[i])
      /\ Backed(otadata, flash, secver)
  BY <1>b, BetweenCalls DEF FuseInv
<1>u. UNCHANGED device /\ otadata' = otadata /\ pc' = "run" /\ running' = running
  BY <1>t DEF esp_ota_mark_app_valid_cancel_rollback, device
<1>a. PICK a \in 0..1 : a = Active
  <2>1. Active \in {-1, 0, 1} /\ Active # -1
    BY <1>t, ActiveType DEF Active, IsSelected
  <2> QED BY <2>1
<1>j. 1 - a \in 0..1 /\ 1 - (1 - a) = a
  OBVIOUS
<1>1. SlotOf(otadata[a]) = running /\ otadata[a].state # "VALID"
  BY <1>a DEF IsSelected, esp_ota_mark_app_valid_cancel_rollback
<1>2. /\ ota_select_valid(otadata[a])
      /\ ota_select_valid(otadata[1 - a]) =>
           \/ otadata[a].seq > otadata[1 - a].seq
           \/ otadata[a].seq = otadata[1 - a].seq /\ a = 0
  BY <1>a, <1>t, ActivePrevails DEF Active
<1>3. PICK e : e = [otadata[a] EXCEPT !.state = "VALID"]
  OBVIOUS
<1>4. e \in Entry /\ e.state = "VALID" /\ e.seq = otadata[a].seq /\ e.crcOk = otadata[a].crcOk
  BY <1>3, <1>t DEF Entry, ImgStates
<1>5. ota_select_valid(e) /\ SlotOf(e) = running
  BY <1>1, <1>2, <1>4 DEF ota_select_valid, ota_select_invalid, SlotOf
<1>6. Good(e, flash, secver)
  BY <1>t, <1>4, <1>5 DEF Good, Confirmed
<1>7. ~Stale(otadata[1 - a], flash, secver)
  <2>1. Stale(otadata[1 - a], flash, secver) => Good(otadata[a], flash, secver)
    BY <1>j, <1>t DEF Backed
  <2> QED BY <1>1, <2>1 DEF Good, Confirmed
<1>8. Confirmed(otadata[1 - a]) => Beats(a, e, otadata[1 - a])
  BY <1>2, <1>4, <1>5, ConfirmedValid DEF Beats
<1>9. todo' = Rewrite(a, e) \o UpdateSecureVersion(SecureVersion(flash[running]))
  BY <1>a, <1>3 DEF esp_ota_mark_app_valid_cancel_rollback
<1>10. PICK r : r = running
  OBVIOUS
<1>11. running' = r /\ SlotOf(e) = r
       /\ todo' = Rewrite(a, e) \o UpdateSecureVersion(SecureVersion(flash[r]))
  BY <1>5, <1>9, <1>10, <1>u
<1>12. Confirming(a, e)' /\ \A k \in 1 .. Len(todo') : todo'[k].op = "write_entry" => Known(todo'[k].e)
  BY <1>4, <1>6, <1>7, <1>8, <1>11, <1>u, StartsConfirming
<1>13. StatesKnown'
  BY <1>t, <1>u, <1>12 DEF StatesKnown
<1> QED BY <1>4, <1>12, <1>13 DEF Queued, RunSafe

(* esp_ota_mark_app_invalid_rollback_and_reboot gives up the record in     *)
(* force when the other one names an app that can be started.              *)
LEMMA MarkInvalidStep ==
  ASSUME ANTI_ROLLBACK, ~HasTest, FuseInv, esp_ota_mark_app_invalid_rollback_and_reboot
  PROVE  StatesKnown' /\ Queued' /\ RunSafe'
<1>b. AppCalls
  BY DEF esp_ota_mark_app_invalid_rollback_and_reboot
<1>t. otadata \in [0..1 -> Entry] /\ \A i \in 0..1 : Known(otadata[i])
  BY <1>b, BetweenCalls
<1>u. otadata' = otadata /\ flash' = flash /\ secver' = secver /\ pc' = "reset"
  BY DEF esp_ota_mark_app_invalid_rollback_and_reboot, device
<1>a. PICK a \in 0..1 : a = Active
  <2>1. Active \in {-1, 0, 1} /\ Active # -1
    BY <1>t, ActiveType DEF Active, esp_ota_mark_app_invalid_rollback_and_reboot
  <2> QED BY <2>1
<1>1. ~Stale(otadata[1 - a], flash, secver)
  <2>1. ota_select_valid(otadata[1 - a]) => Bootable(flash[SlotOf(otadata[1 - a])], secver)
    BY <1>a
    DEF esp_ota_mark_app_invalid_rollback_and_reboot, esp_ota_check_rollback_is_possible, Active
  <2> QED BY <2>1 DEF Stale, Confirmed
<1>2. PICK e : e = [otadata[a] EXCEPT !.state = "INVALID"]
  OBVIOUS
<1>3. ~Confirmed(e) /\ Known(e)
  <2>1. e.state = "INVALID"
    BY <1>2, <1>t DEF Entry
  <2> QED BY <2>1 DEF Confirmed, Known
<1>4. todo' = <<EraseEntry(a), WriteEntry(a, e)>>
  BY <1>a, <1>2 DEF esp_ota_mark_app_invalid_rollback_and_reboot, Rewrite
<1>5. \A k \in 1 .. Len(todo') :
        /\ todo'[k].op \in {"erase_entry", "write_entry"} /\ todo'[k].i = a
        /\ todo'[k].op = "write_entry" => todo'[k].e = e
  <2>1. Len(todo') = 2 /\ todo'[1] = EraseEntry(a) /\ todo'[2] = WriteEntry(a, e)
    BY <1>4
  <2> QED BY <2>1 DEF EraseEntry, WriteEntry
<1>6. Recordkeeping'
  BY <1>u, <1>1, <1>3, <1>5 DEF Recordkeeping, Touches
<1>7. StatesKnown' /\ RunSafe'
  BY <1>t, <1>u, <1>3, <1>5 DEF StatesKnown, RunSafe
<1> QED BY <1>6, <1>7 DEF Queued

(* Every call of the application preserves the invariant. *)
LEMMA AppStep ==
  ASSUME ANTI_ROLLBACK, ~HasTest, ~Forget, ~ConfirmOther, FuseInv, AppNext
  PROVE  FuseInv'
<1>i. Inv'
  BY InvStep DEF FuseInv, Next
<1>1. UNCHANGED device /\ pc' \in {"run", "reset"}
  BY DEF AppNext, AppCalls, esp_ota_begin, esp_ota_write, esp_ota_end,
     esp_ota_set_boot_partition, esp_ota_mark_app_valid_cancel_rollback, Restart,
     esp_ota_mark_app_invalid_rollback_and_reboot
<1>2. Backed(otadata', flash', secver') /\ Choice' /\ StillInitial' /\ NeverBricked'
  BY <1>i, <1>1, CallKeeps
<1>3. StatesKnown' /\ Queued' /\ RunSafe'
  <2>1. CASE \E h \in Handles, p \in Slots, n \in 1 .. Chunks : esp_ota_begin(h, p, n)
    BY <2>1, BeginStep
  <2>2. CASE \E h \in Handles, v \in Versions : esp_ota_write(h, v)
    BY <2>2, WriteStep
  <2>3. CASE \E h \in Handles : esp_ota_end(h)
    BY <2>3, EndStep
  <2>4. CASE \E p \in Parts : esp_ota_set_boot_partition(p)
    BY <2>4, SetBootStep
  <2>5. CASE IsSelected(running) /\ esp_ota_mark_app_valid_cancel_rollback
    BY <2>5, MarkValidStep
  <2>6. CASE esp_ota_mark_app_invalid_rollback_and_reboot
    BY <2>6, MarkInvalidStep
  <2>7. CASE Restart
    <3>1. pc' = "reset" /\ Len(todo') = 0 /\ otadata' = otadata
      BY <2>7 DEF Restart, AppCalls, device
    <3> QED BY <3>1 DEF FuseInv, StatesKnown, Queued, Recordkeeping, RunSafe
  <2> QED BY <2>1, <2>2, <2>3, <2>4, <2>5, <2>6, <2>7 DEF AppNext
<1> QED BY <1>i, <1>2, <1>3 DEF FuseInv

----------------------------------------------------------------------------
(* Theorems *)

(* What is asked of the build and of the application.  With a third slot   *)
(* the bootloader may pass over both recorded apps; a confirmation while   *)
(* another slot is selected names an app that never ran; and the record    *)
(* that is left when the other one is erased may be stale.                 *)
TwoSlots ==
  /\ ANTI_ROLLBACK /\ ~HasTest /\ AppCount <= 2
  /\ ~ConfirmOther /\ ~Forget /\ ~(FACTORY_RESET /\ OTA_DATA_ERASE)

(* Every step preserves the invariant. *)
LEMMA FuseInvStep ==
  ASSUME TwoSlots, FuseInv, [Next]_vars
  PROVE  FuseInv'
<1> USE DEF TwoSlots
<1>1. CASE FlashStep
  BY <1>1, FlashStepKeeps
<1>2. CASE Unstable /\ PowerLoss
  BY <1>2, PowerLossKeeps
<1>3. CASE BootNext
  BY <1>3, SelectionStep, PinsStep, LoadStep DEF BootNext
<1>4. CASE AppNext
  BY <1>4, AppStep
<1>5. CASE UNCHANGED vars
  <2>1. Inv'
    BY InvStep DEF FuseInv
  <2>2. /\ otadata' = otadata /\ flash' = flash /\ secver' = secver /\ todo' = todo /\ pc' = pc
        /\ boot' = boot /\ running' = running /\ ops' = ops
    BY <1>5 DEF vars
  <2>3. Queued'
    BY <2>2 DEF FuseInv, Queued, Filling, Recordkeeping, Holds, Confirming
  <2>4. RunSafe' /\ Choice' /\ StillInitial'
    BY <2>2 DEF FuseInv, RunSafe, Confirming, Yields, Choice, StartsConfirmed, StartsOther,
       StillInitial
  <2>5. StatesKnown' /\ Backed(otadata', flash', secver') /\ NeverBricked'
    BY <2>2 DEF FuseInv, StatesKnown, NeverBricked
  <2> QED BY <2>1, <2>3, <2>4, <2>5 DEF FuseInv
<1> QED BY <1>1, <1>2, <1>3, <1>4, <1>5 DEF Next

(* The device as it leaves the factory satisfies it. *)
LEMMA InitFuseInv ==
  ASSUME TwoSlots, Init
  PROVE  FuseInv
<1>1. /\ Inv /\ otadata = [i \in 0..1 |-> ErasedEntry] /\ secver = 0 /\ pc = "reset"
      /\ Len(todo) = 0
  BY InitInv DEF Init
<1>2. \A i \in 0..1 : otadata[i] = ErasedEntry
  BY <1>1
<1>3. ~ErasedEntry.crcOk
  BY DEF ErasedEntry
<1>4. \A i \in 0..1 : ~Confirmed(otadata[i]) /\ Known(otadata[i])
  BY <1>2, <1>3, ConfirmedValid DEF Known
<1>5. Backed(otadata, flash, secver)
  BY <1>4 DEF Backed, Stale
<1>6. StatesKnown /\ Recordkeeping /\ RunSafe /\ Choice /\ StillInitial
  BY <1>1, <1>4 DEF StatesKnown, Recordkeeping, RunSafe, Choice, StillInitial
<1>7. NeverBricked
  <2>1. 0 \in Slots /\ 0 \in Parts
    BY OtaAssumption DEF Slots, Parts
  <2>2. PICK v \in Versions : flash[0] = [c \in 1 .. Chunks |-> v]
    BY <2>1, OtaAssumption DEF Init, TwoSlots
  <2>3. flash[0][1] = v /\ v >= 0
    <3>1. 1 \in 1 .. Chunks
      BY OtaAssumption
    <3> QED BY <2>2, <3>1, OtaAssumption
  <2>4. Bootable(flash[0], secver)
    BY <1>1, <2>2, <2>3
    DEF Bootable, check_anti_rollback, Verifies, HasDescription, SecureVersion
  <2> QED BY <2>1, <2>4, OnlySlots DEF NeverBricked, TwoSlots
<1> QED BY <1>1, <1>5, <1>6, <1>7 DEF FuseInv, Queued

(* It always holds. *)
LEMMA FuseInvAlways ==
  ASSUME TwoSlots
  PROVE  Spec => []FuseInv
<1>1. Init => FuseInv
  BY InitFuseInv
<1>2. FuseInv /\ [Next]_vars => FuseInv'
  BY FuseInvStep
<1> QED BY <1>1, <1>2, PTL DEF Spec

(* With anti-rollback and two slots the device always holds an app that    *)
(* the bootloader would start: neither power loss during an operation, nor *)
(* an update, a rollback, or the fuses burnt by the bootloader             *)
(* (bootloader_utility_get_selected_boot_partition, set_actual_ota_seq) or *)
(* by esp_ota_mark_app_valid_cancel_rollback takes the last one away.      *)
THEOREM AlwaysAnAppAboveFuses ==
  ASSUME TwoSlots
  PROVE  Spec => []NeverBricked
<1>1. FuseInv => NeverBricked
  BY DEF FuseInv
<1> QED BY <1>1, FuseInvAlways, PTL

(* Whenever esp_efuse_update_secure_version raises the version on chip,    *)
(* some slot holds an app of at least that version that verifies, although *)
(* the bootloader burns from a record marked VALID and a description it    *)
(* has not verified.                                                       *)
THEOREM FusesAlwaysFollowGoodApp ==
  ASSUME TwoSlots
  PROVE  Spec => FusesFollowGoodApp
<1> DEFINE Raised == secver' > secver
           Backing == \E p \in Parts : Bootable(flash[p], secver')
<1>1. ASSUME FuseInv, FuseInv', Next, Raised
      PROVE  Backing
  <2>t. secver \in Nat
    BY <1>1 DEF FuseInv, Inv, TypeOK
  <2>1. secver' # secver
    BY <1>1, <2>t
  <2>2. flash' = flash
    <3>1. CASE FlashStep
      BY <1>1, <3>1, OperationKeeps DEF FlashStep, TwoSlots
    <3>2. CASE PowerLoss
      BY <1>1, <2>1, <3>2, OperationKeeps DEF PowerLoss, device, TwoSlots
    <3>3. CASE BootNext \/ AppNext
      BY <2>1, <3>3 DEF BootNext, GetSelectedBootPartition, CheckPins, LoadBootImage, device,
         AppNext, esp_ota_begin, esp_ota_write, esp_ota_end, esp_ota_set_boot_partition,
         esp_ota_mark_app_valid_cancel_rollback, Restart,
         esp_ota_mark_app_invalid_rollback_and_reboot, esp_ota_erase_last_boot_app_partition
    <3> QED BY <1>1, <3>1, <3>2, <3>3 DEF Next
  <2>3. Loadable(flash', secver') # {}
    BY <1>1 DEF FuseInv, NeverBricked
  <2> QED BY <2>2, <2>3 DEF Loadable
<1>2. FuseInv /\ FuseInv' /\ [Next]_vars => [Raised => Backing]_vars
  BY <1>1
<1> QED BY <1>2, FuseInvAlways, PTL DEF Spec, FusesFollowGoodApp
=============================================================================
