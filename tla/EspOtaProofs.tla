---------------------------- MODULE EspOtaProofs ----------------------------
(***************************************************************************)
(* Proofs about EspOta, for every partition table, number of handles,      *)
(* image size and set of versions.                                         *)
(***************************************************************************)
EXTENDS EspOta, WellFoundedInduction, TLAPS

----------------------------------------------------------------------------
(* Facts about the operators *)

(* A non-empty set of naturals has a least element. *)
LEMMA NatMin ==
  ASSUME NEW T \in SUBSET Nat, T # {}
  PROVE  \E x \in T : \A y \in T : x <= y
<1> DEFINE R == OpToRel(<, Nat)
<1>1. IsWellFoundedOn(R, Nat)
  BY NatLessThanWellFounded
<1>2. \A x, y \in Nat : x < y => <<x, y>> \in R
  BY DEF OpToRel
<1> HIDE DEF R
<1>3. PICK x \in T : \A y \in T : ~(<<y, x>> \in R)
  BY <1>1, WFMin
<1>4. ASSUME NEW y \in T PROVE x <= y
  <2>1. x \in Nat /\ y \in Nat
    OBVIOUS
  <2>2. ~(y < x)
    BY <1>2, <1>3, <2>1, Zenon
  <2> QED BY <2>1, <2>2
<1> QED BY <1>4

(* The slot an entry designates exists. *)
LEMMA SlotOfType ==
  ASSUME NEW e \in Entry
  PROVE  SlotOf(e) \in Slots
BY OtaAssumption DEF SlotOf, Slots, Entry, UINT32_MAX

(* Where there is an app to load the bootloader finds one. *)
LEMMA LoadIndexFinds ==
  ASSUME NEW start \in Parts \cup {FACTORY_INDEX}, NEW fl \in [Parts -> Image], NEW sv,
         start # TEST_APP_INDEX, Loadable(fl, sv) # {}
  PROVE  LoadIndex(start, fl, sv) \in Loadable(fl, sv)
<1> DEFINE good == Loadable(fl, sv)
           p    == LoadIndex(start, fl, sv)
<1>1. \A q \in good : TryRank(start, q) \in Nat
  BY OtaAssumption
  DEF Loadable, Parts, Slots, FACTORY_INDEX, TEST_APP_INDEX, TryRank
<1> DEFINE ranks == {TryRank(start, q) : q \in good}
<1>a. ranks \in SUBSET Nat /\ ranks # {}
  BY <1>1
<1> HIDE DEF ranks
<1>b. \E r \in ranks : \A s \in ranks : r <= s
  BY <1>a, NatMin
<1> USE DEF ranks
<1>2. PICK r \in ranks : \A s \in ranks : r <= s
  BY <1>b
<1>3. \E q \in good : \A x \in good : TryRank(start, q) <= TryRank(start, x)
  BY <1>2
<1>4. p = CHOOSE q \in good : \A x \in good : TryRank(start, q) <= TryRank(start, x)
  BY DEF LoadIndex
<1> QED BY <1>3, <1>4

(* An app that LoadIndex designates verifies, and an OTA app is not below  *)
(* the eFuse version: the bootloader starts nothing else.                  *)
LEMMA LoadIndexGood ==
  ASSUME NEW start \in Parts \cup {FACTORY_INDEX}, NEW fl \in [Parts -> Image], NEW sv,
         LoadIndex(start, fl, sv) # NO_APP
  PROVE  /\ LoadIndex(start, fl, sv) \in Parts
         /\ Verifies(fl[LoadIndex(start, fl, sv)])
         /\ LoadIndex(start, fl, sv) \in Slots
              => check_anti_rollback(fl[LoadIndex(start, fl, sv)], sv)
<1> DEFINE p == LoadIndex(start, fl, sv)
<1>1. CASE start # TEST_APP_INDEX /\ Loadable(fl, sv) # {}
  <2>1. p \in Loadable(fl, sv)
    BY <1>1, LoadIndexFinds
  <2> QED BY <2>1 DEF Loadable, Bootable
<1>2. CASE ~(start # TEST_APP_INDEX /\ Loadable(fl, sv) # {})
  <2>1. p = TEST_APP_INDEX /\ HasTest /\ Verifies(fl[TEST_APP_INDEX])
    BY <1>2 DEF LoadIndex
  <2> QED BY <2>1 DEF Parts, Slots, TEST_APP_INDEX
<1> QED BY <1>1, <1>2

(* What the selection yields: an entry or none, and a partition index. *)
LEMMA SelectOtadataType ==
  ASSUME NEW d, NEW v \in [0..1 -> BOOLEAN], NEW m \in BOOLEAN
  PROVE  /\ select_otadata(d, v, m) \in {-1, 0, 1}
         /\ select_otadata(d, v, m) # -1 => v[select_otadata(d, v, m)]
BY DEF select_otadata

LEMMA SelectValidType ==
  ASSUME NEW e \in Entry
  PROVE  ota_select_valid(e) \in BOOLEAN /\ ota_select_invalid(e) \in BOOLEAN
         /\ IsInitial(e) \in BOOLEAN
BY DEF ota_select_valid, ota_select_invalid, IsInitial, Entry

LEMMA ActiveType ==
  ASSUME NEW d \in [0..1 -> Entry]
  PROVE  /\ get_active_otadata(d) \in {-1, 0, 1}
         /\ get_active_otadata(d) # -1 => ota_select_valid(d[get_active_otadata(d)])
<1>1. Valid(d) \in [0..1 -> BOOLEAN]
  BY SelectValidType DEF Valid
<1>2. \A i \in 0..1 : Valid(d)[i] = ota_select_valid(d[i])
  BY DEF Valid
<1> DEFINE k == select_otadata(d, Valid(d), TRUE)
<1>3. k \in {-1, 0, 1} /\ (k # -1 => Valid(d)[k])
  BY <1>1, SelectOtadataType
<1> HIDE DEF k
<1>4. k \in {-1, 0, 1} /\ (k # -1 => ota_select_valid(d[k]))
  BY <1>2, <1>3
<1> QED BY <1>4 DEF get_active_otadata, k

LEMMA AbortPendingType ==
  ASSUME NEW d \in [0..1 -> Entry]
  PROVE  AbortPending(d) \in [0..1 -> Entry]
BY DEF AbortPending, Entry, ImgStates

LEMMA MarkFirstBootType ==
  ASSUME NEW d \in [0..1 -> Entry], NEW a
  PROVE  MarkFirstBoot(d, a) \in [0..1 -> Entry]
BY DEF MarkFirstBoot, Entry, ImgStates

LEMMA SelectionType ==
  ASSUME NEW a \in [0..1 -> Entry], NEW fl \in [Parts -> Image], NEW sv \in Nat
  PROVE  /\ Selection(a, fl, sv).active \in {-1, 0, 1}
         /\ Selection(a, fl, sv).index \in Slots \cup {FACTORY_INDEX}
         /\ Selection(a, fl, sv).active # -1 => Selection(a, fl, sv).index \in Slots
         /\ Selection(a, fl, sv).initial \in BOOLEAN
<1> DEFINE act == get_active_otadata_with_check_anti_rollback(a, fl, sv)
           chk(i) == /\ ota_select_valid(a[i])
                     /\ check_anti_rollback(fl[SlotOf(a[i])], sv)
<1>1. act \in {-1, 0, 1}
  <2>1. [i \in 0..1 |-> chk(i)] \in [0..1 -> BOOLEAN]
    BY DEF check_anti_rollback, ota_select_valid, HasDescription
  <2> QED BY <2>1, SelectOtadataType DEF get_active_otadata_with_check_anti_rollback
<1>2. get_active_otadata(a) \in {-1, 0, 1}
  BY ActiveType
<1>3. SlotOf(a[0]) \in Slots /\ SlotOf(a[1]) \in Slots /\ 0 \in Slots
  BY SlotOfType, OtaAssumption DEF Slots
<1>4. \A i \in 0..1 : /\ IsInitial(a[i]) \in BOOLEAN
                      /\ ota_select_invalid(a[i]) \in BOOLEAN
  BY SelectValidType
<1> HIDE DEF act
<1> QED BY <1>1, <1>2, <1>3, <1>4, OtaAssumption DEF Selection, act

LEMMA BootTargetType ==
  ASSUME NEW d \in [0..1 -> Entry], NEW fl \in [Parts -> Image], NEW sv \in Nat
  PROVE  BootTarget(d, fl, sv) \in Parts \cup {NO_APP}
<1> DEFINE sel == Selection(AbortPending(d), fl, sv)
<1>1. sel.index \in Parts \cup {FACTORY_INDEX}
  BY AbortPendingType, SelectionType DEF Parts
<1>2. \A v : LoadIndex(sel.index, fl, v) \in Parts \cup {NO_APP}
  BY <1>1, LoadIndexGood
<1> QED BY <1>2 DEF BootTarget

LEMMA OperationTypes ==
  /\ \A i \in 0..1 : EraseEntry(i) \in Operations
  /\ \A i \in 0..1, e \in Entry : WriteEntry(i, e) \in Operations
  /\ \A p \in Parts, c \in 1 .. Chunks : EraseCell(p, c) \in Operations
  /\ \A p \in Slots, c \in 1 .. Chunks, v \in Versions : WriteCell(p, c, v) \in Operations
  /\ \A v \in Versions : Burn(v) \in Operations
BY DEF Operations

(* An operation is one of the five kinds. *)
LEMMA OperationCases ==
  ASSUME NEW x \in Operations
  PROVE  \/ \E i \in 0..1 : x = EraseEntry(i)
         \/ \E i \in 0..1, e \in Entry : x = WriteEntry(i, e)
         \/ \E p \in Parts, c \in 1 .. Chunks : x = EraseCell(p, c)
         \/ \E p \in Slots, c \in 1 .. Chunks, v \in Versions : x = WriteCell(p, c, v)
         \/ \E v \in Versions : x = Burn(v)
BY DEF Operations

(* The short sequences of operations that calls and phases queue. *)
LEMMA RewriteType ==
  ASSUME NEW i \in 0..1, NEW e \in Entry
  PROVE  Rewrite(i, e) \in Seq(Operations)
BY OperationTypes DEF Rewrite

LEMMA EraseCellsType ==
  ASSUME NEW p \in Parts, NEW n \in 0 .. Chunks
  PROVE  EraseCells(p, n) \in Seq(Operations)
BY OperationTypes, OtaAssumption DEF EraseCells

LEMMA UpdateSecureVersionType ==
  ASSUME NEW v \in Versions
  PROVE  UpdateSecureVersion(v) \in Seq(Operations)
BY OperationTypes DEF UpdateSecureVersion

(* The loop of esp_rewrite_ota_data ends, at a number not below the one of *)
(* the active entry and of the form it computes.                           *)
LEMMA NextSeqBound ==
  ASSUME NEW seq \in Nat, NEW sub \in Nat
  PROVE  /\ NextSeq(seq, sub) \in Nat /\ NextSeq(seq, sub) >= seq
         /\ \E n \in Nat : NextSeq(seq, sub) = ((sub + 1) % AppCount) + n * AppCount
<1> DEFINE r == (sub + 1) % AppCount
           S == {i \in Nat : seq <= r + i * AppCount}
<1>1. r \in Nat
  BY OtaAssumption
<1> HIDE DEF r
<1>2. seq * AppCount \in Nat /\ seq <= seq * AppCount
  BY OtaAssumption
<1>3. seq \in S
  BY <1>1, <1>2
<1>4. S \in SUBSET Nat /\ S # {}
  BY <1>3
<1> HIDE DEF S
<1>5. PICK i \in S : \A j \in S : i <= j
  BY <1>4, NatMin
<1>6. i \in 0 .. seq
  BY <1>3, <1>4, <1>5
<1> USE DEF S
<1>7. \A j \in 0 .. i - 1 : seq > r + j * AppCount
  <2> SUFFICES ASSUME NEW j \in 0 .. i - 1, ~(seq > r + j * AppCount)
               PROVE  FALSE
    OBVIOUS
  <2>1. j \in Nat /\ j * AppCount \in Nat
    BY <1>6, OtaAssumption
  <2>2. j \in S
    BY <1>1, <2>1
  <2> QED BY <1>5, <1>6, <2>2
<1> DEFINE P(x) == /\ seq <= r + x * AppCount
                   /\ \A j \in 0 .. x - 1 : seq > r + j * AppCount
           k == CHOOSE x \in 0 .. seq : P(x)
<1>8. k \in 0 .. seq /\ P(k)
  BY <1>5, <1>6, <1>7
<1>9. NextSeq(seq, sub) = r + k * AppCount
  BY DEF NextSeq, r
<1> HIDE DEF k
<1>10. k * AppCount \in Nat
  BY <1>8, OtaAssumption
<1>11. \E n \in Nat : NextSeq(seq, sub) = ((sub + 1) % AppCount) + n * AppCount
  BY <1>8, <1>9 DEF r
<1> QED BY <1>1, <1>8, <1>9, <1>10, <1>11

----------------------------------------------------------------------------
(* The inductive invariant.  RunningIntact is not inductive by itself: a   *)
(* handle opened, or an erase queued, in the past could still hit the      *)
(* running partition.                                                      *)

(* An app is running exactly while control is with it. *)
Control == pc = "run" <=> running # NO_APP

(* Update handles die with the app, and none is open on its partition. *)
HandlesElsewhere ==
  \A h \in Handles : IF running = NO_APP THEN ops[h] = NoEntry ELSE ops[h].part # running

(* The operation x is not aimed at partition r, and does not revoke the    *)
(* app in it.                                                              *)
Harmless(x, r, fl) ==
  /\ x.op \in {"erase_cell", "write_cell"} => x.p # r
  /\ x.op = "burn" => x.v <= SecureVersion(fl[r])

SafeQueue(q, r, fl) == \A k \in 1 .. Len(q) : Harmless(q[k], r, fl)

(* What is queued does not harm the running app. *)
QueueHarmless == running # NO_APP => SafeQueue(todo, running, flash)

Inv == /\ TypeOK /\ Control /\ HandlesElsewhere /\ QueueHarmless /\ RunningIntact /\ RunningNotRevoked

----------------------------------------------------------------------------
(* Type correctness *)

(* Performing an operation keeps the device well typed. *)
LEMMA PerformType ==
  ASSUME TypeOK, NEW x \in Operations, Perform(x)
  PROVE  /\ otadata' \in [0..1 -> Entry]
         /\ flash' \in [Parts -> Image]
         /\ secver' \in Nat
<1> USE DEF TypeOK
<1>1. CASE \E i \in 0..1 : x = EraseEntry(i)
  BY <1>1, OtaAssumption
  DEF Perform, EraseEntry, ErasedEntry, Entry, ImgStates, UINT32_MAX
<1>2. CASE \E i \in 0..1, e \in Entry : x = WriteEntry(i, e)
  BY <1>2 DEF Perform, WriteEntry
<1>3. CASE \E p \in Parts, c \in 1 .. Chunks : x = EraseCell(p, c)
  BY <1>3 DEF Perform, EraseCell, Image, Cell
<1>4. CASE \E p \in Slots, c \in 1 .. Chunks, v \in Versions : x = WriteCell(p, c, v)
  <2>1. PICK p \in Slots, c \in 1 .. Chunks, v \in Versions : x = WriteCell(p, c, v)
    BY <1>4
  <2>2. p \in Parts /\ Program(flash[p][c], v) \in Cell
    BY DEF Program, Parts, Cell
  <2>3. flash' = [flash EXCEPT ![p][c] = Program(flash[p][c], v)]
        /\ otadata' = otadata /\ secver' = secver
    BY <2>1 DEF Perform, WriteCell
  <2> QED BY <2>2, <2>3 DEF Image
<1>5. CASE \E v \in Versions : x = Burn(v)
  BY <1>5, OtaAssumption DEF Perform, Burn
<1> QED BY <1>1, <1>2, <1>3, <1>4, <1>5, OperationCases

(* So does interrupting it. *)
LEMMA TearType ==
  ASSUME TypeOK, NEW x \in Operations, Tear(x)
  PROVE  /\ otadata' \in [0..1 -> Entry]
         /\ flash' \in [Parts -> Image]
         /\ secver' \in Nat
<1> USE DEF TypeOK
<1>1. CASE \E i \in 0..1 : x = EraseEntry(i)
  <2>1. PICK i \in 0..1 : x = EraseEntry(i)
    BY <1>1
  <2>2. /\ otadata' = [otadata EXCEPT ![i].crcOk = FALSE]
        /\ flash' = flash /\ secver' = secver
    BY <2>1 DEF Tear, EraseEntry
  <2>3. [otadata[i] EXCEPT !.crcOk = FALSE] \in Entry
    <3>1. otadata[i] \in Entry
      OBVIOUS
    <3> QED BY <3>1 DEF Entry
  <2>4. otadata' = [otadata EXCEPT ![i] = [otadata[i] EXCEPT !.crcOk = FALSE]]
    BY <2>2
  <2> QED BY <2>2, <2>3, <2>4
<1>2. CASE \E i \in 0..1, e \in Entry : x = WriteEntry(i, e)
  <2>1. PICK i \in 0..1, e \in Entry : x = WriteEntry(i, e)
    BY <1>2
  <2>2. /\ flash' = flash /\ secver' = secver
        /\ \E s \in {e.state, "UNDEFINED"} :
             otadata' = [otadata EXCEPT ![i] = [e EXCEPT !.state = s, !.crcOk = FALSE]]
    BY <2>1 DEF Tear, WriteEntry
  <2>3. \A s \in {e.state, "UNDEFINED"} : [e EXCEPT !.state = s, !.crcOk = FALSE] \in Entry
    BY DEF Entry, ImgStates
  <2>4. PICK en \in Entry : otadata' = [otadata EXCEPT ![i] = en]
    BY <2>2, <2>3
  <2> QED BY <2>2, <2>4
<1>3. CASE \E p \in Parts, c \in 1 .. Chunks : x = EraseCell(p, c)
  <2>1. PICK p \in Parts, c \in 1 .. Chunks : x = EraseCell(p, c)
    BY <1>3
  <2>2. /\ flash' = [flash EXCEPT ![p][c] = Garbage]
        /\ otadata' = otadata /\ secver' = secver
    BY <2>1 DEF Tear, EraseCell
  <2> QED BY <2>2 DEF Image, Cell
<1>4. CASE \E p \in Slots, c \in 1 .. Chunks, v \in Versions : x = WriteCell(p, c, v)
  <2>1. PICK p \in Slots, c \in 1 .. Chunks, v \in Versions : x = WriteCell(p, c, v)
    BY <1>4
  <2>2. /\ flash' = [flash EXCEPT ![p][c] = Garbage]
        /\ otadata' = otadata /\ secver' = secver
    BY <2>1 DEF Tear, WriteCell
  <2> QED BY <2>2 DEF Image, Cell, Parts
<1>5. CASE \E v \in Versions : x = Burn(v)
  <2>1. PICK v \in Versions : x = Burn(v)
    BY <1>5
  <2>2. /\ secver' \in Versions
        /\ otadata' = otadata /\ flash' = flash
    BY <2>1 DEF Tear, Burn
  <2> QED BY <2>2, OtaAssumption
<1> QED BY <1>1, <1>2, <1>3, <1>4, <1>5, OperationCases

(* Every step of the specification keeps the variables well typed. *)
LEMMA TypeOKStep ==
  ASSUME TypeOK, Control, RunningIntact, [Next]_vars
  PROVE  TypeOK'
<1> USE DEF TypeOK
<1>n. NoCall \in [fn : {"none", "set_boot", "mark_valid", "mark_invalid"},
                 part : Parts \cup {NO_APP}, old : Parts \cup {NO_APP}, trial : BOOLEAN]
  BY DEF NoCall
<1>a. Active \in {-1, 0, 1}
  BY ActiveType DEF Active
<1>e. <<>> \in Seq(Operations) /\ <<EraseEntry(0), EraseEntry(1)>> \in Seq(Operations)
  BY OperationTypes
<1>1. CASE FlashStep
  <2>1. Head(todo) \in Operations /\ Tail(todo) \in Seq(Operations)
    BY <1>1 DEF FlashStep
  <2> QED BY <1>1, <2>1, PerformType DEF FlashStep
<1>2. CASE PowerLoss
  <2>1. /\ otadata' \in [0..1 -> Entry] /\ flash' \in [Parts -> Image] /\ secver' \in Nat
    <3>1. CASE UNCHANGED device
      BY <3>1 DEF device
    <3>2. CASE todo # <<>> /\ Tear(Head(todo))
      BY <3>2, TearType
    <3> QED BY <1>2, <3>1, <3>2 DEF PowerLoss
  <2>2. call' \in {call, NoCall}
    BY <1>2 DEF PowerLoss
  <2> QED BY <1>2, <1>e, <1>n, <2>1, <2>2 DEF PowerLoss
<1>3. CASE GetSelectedBootPartition
  <2> DEFINE a   == AbortPending(otadata)
             sel == Selection(a, flash, secver)
             m   == MarkFirstBoot(a, sel.active)
             Changed(from, to, i) == IF from[i] # to[i] THEN Rewrite(i, to[i]) ELSE <<>>
             burn == IF /\ ANTI_ROLLBACK /\ sel.active # -1
                        /\ m[sel.active].state = "VALID"
                        /\ HasDescription(flash[sel.index])
                     THEN UpdateSecureVersion(SecureVersion(flash[sel.index])) ELSE <<>>
  <2>1. a \in [0..1 -> Entry] /\ m \in [0..1 -> Entry]
    BY AbortPendingType, MarkFirstBootType
  <2>2. sel.index \in Parts \cup {FACTORY_INDEX} /\ sel.initial \in BOOLEAN
    BY <2>1, SelectionType DEF Parts
  <2>3. burn \in Seq(Operations)
    BY UpdateSecureVersionType DEF HasDescription, SecureVersion
  <2>4. \A i \in 0..1 : /\ Changed(otadata, a, i) \in Seq(Operations)
                       /\ Changed(a, m, i) \in Seq(Operations)
    BY <2>1, RewriteType
  <2> HIDE DEF a, sel, m, Changed, burn
  <2>5. /\ todo' = Changed(otadata, a, 0) \o Changed(otadata, a, 1)
                   \o Changed(a, m, 0) \o Changed(a, m, 1) \o burn
        /\ boot' = [index |-> sel.index, initial |-> sel.initial]
        /\ pc' \in {"gpio", "load"}
        /\ fresh' \subseteq 0..1
        /\ UNCHANGED <<device, running, ops, call>>
    BY <1>3 DEF GetSelectedBootPartition, a, sel, m, Changed, burn
  <2>6. todo' \in Seq(Operations)
    BY <2>3, <2>4, <2>5
  <2> QED BY <2>2, <2>5, <2>6 DEF device
<1>4. CASE CheckPins
  <2>0. todo' \in {todo, <<>>, <<EraseEntry(0), EraseEntry(1)>>}
    BY <1>4 DEF CheckPins
  <2>1. todo' \in Seq(Operations)
    BY <2>0, <1>e
  <2>2. boot' \in [index : Parts \cup {FACTORY_INDEX}, initial : BOOLEAN]
    BY <1>4, OtaAssumption DEF CheckPins, Parts
  <2> QED BY <1>4, <2>1, <2>2 DEF CheckPins, device
<1>5. CASE LoadBootImage
  <2> DEFINE p == LoadIndex(boot.index, flash, secver)
             e == [seq |-> p + 1, state |-> "VALID", crcOk |-> TRUE]
             burn == IF ANTI_ROLLBACK
                     THEN UpdateSecureVersion(SecureVersion(flash[p])) ELSE <<>>
  <2>1. CASE p = NO_APP
    BY <1>5, <2>1 DEF LoadBootImage, device
  <2>2. CASE p # NO_APP
    <3>1. p \in Parts /\ Verifies(flash[p])
      BY <2>2, LoadIndexGood
    <3>2. SecureVersion(flash[p]) \in Versions
      BY <3>1, OtaAssumption DEF Verifies, SecureVersion
    <3>3. burn \in Seq(Operations)
      BY <3>2, UpdateSecureVersionType
    <3>4. p > FACTORY_INDEX => e \in Entry
      BY <3>1, OtaAssumption
      DEF Parts, Slots, FACTORY_INDEX, TEST_APP_INDEX, Entry, UINT32_MAX, ImgStates
    <3> HIDE DEF p, e, burn
    <3>5. /\ pc' = "run" /\ running' = p /\ call' = NoCall /\ fresh' = {}
          /\ UNCHANGED <<device, boot, ops>>
          /\ todo' = IF p > FACTORY_INDEX /\ boot.initial THEN Rewrite(0, e) \o burn ELSE <<>>
      BY <1>5, <2>2 DEF LoadBootImage, p, e, burn
    <3>6. todo' \in Seq(Operations)
      <4>1. CASE p > FACTORY_INDEX /\ boot.initial
        BY <4>1, <3>3, <3>4, <3>5, RewriteType
      <4>2. CASE ~(p > FACTORY_INDEX /\ boot.initial)
        BY <4>2, <3>5
      <4> QED BY <4>1, <4>2
    <3> QED BY <3>1, <3>5, <3>6, <1>n DEF device
  <2> QED BY <2>1, <2>2
<1>6. ASSUME NEW h \in Handles, NEW p \in Slots, NEW n \in 1 .. Chunks, esp_ota_begin(h, p, n)
      PROVE  TypeOK'
  <2>1. EraseCells(p, n) \in Seq(Operations)
    BY EraseCellsType DEF Parts
  <2>2. [part |-> p, pos |-> 0] \in [part : Slots, pos : 0 .. Chunks]
    BY OtaAssumption
  <2> QED BY <1>6, <1>n, <2>1, <2>2 DEF esp_ota_begin, device
<1>7. ASSUME NEW h \in Handles, NEW v \in Versions, esp_ota_write(h, v)
      PROVE  TypeOK'
  <2>1. ops[h] \in [part : Slots, pos : 0 .. Chunks] /\ ops[h].pos + 1 \in 1 .. Chunks
    BY <1>7, OtaAssumption DEF esp_ota_write
  <2>2. [ops[h] EXCEPT !.pos = @ + 1] \in [part : Slots, pos : 0 .. Chunks]
    BY <2>1, OtaAssumption
  <2>3. <<WriteCell(ops[h].part, ops[h].pos + 1, v)>> \in Seq(Operations)
    BY <2>1, OperationTypes
  <2> QED BY <1>7, <1>n, <2>2, <2>3 DEF esp_ota_write, device
<1>8. ASSUME NEW h \in Handles, esp_ota_end(h)
      PROVE  TypeOK'
  BY <1>8, <1>n DEF esp_ota_end, device
<1>9. ASSUME NEW p \in Parts, esp_ota_set_boot_partition(p)
      PROVE  TypeOK'
  <2> DEFINE old == BootTarget(otadata, flash, secver)
             trial == Active # -1 /\ otadata[Active].state \in {"NEW", "PENDING_VERIFY"}
             selected == [fn |-> "set_boot", part |-> p, old |-> old, trial |-> trial]
  <2>1. selected \in [fn : {"none", "set_boot", "mark_valid", "mark_invalid"},
                     part : Parts \cup {NO_APP}, old : Parts \cup {NO_APP}, trial : BOOLEAN]
    BY BootTargetType
  <2>2. ASSUME p # FACTORY_INDEX, esp_rewrite_ota_data(p)
        PROVE  todo' \in Seq(Operations)
    <3> DEFINE i   == IF Active = -1 THEN 0 ELSE 1 - Active
               seq == IF Active = -1 THEN SUB_TYPE_ID(p) + 1
                      ELSE NextSeq(otadata[Active].seq, SUB_TYPE_ID(p))
               e   == [seq |-> seq, crcOk |-> TRUE,
                       state |-> IF ROLLBACK_ENABLE THEN "NEW" ELSE "UNDEFINED"]
    <3>1. i \in 0..1
      BY <1>a
    <3>2. seq \in 1 .. UINT32_MAX
      <4>1. SUB_TYPE_ID(p) \in Slots
        BY <2>2, OtaAssumption DEF SUB_TYPE_ID, Parts, Slots
      <4>2. seq <= MaxSeq
        BY <2>2 DEF esp_rewrite_ota_data
      <4>3. CASE Active = -1
        BY <4>1, <4>2, <4>3, OtaAssumption DEF Slots, UINT32_MAX
      <4>4. CASE Active # -1
        <5>1. otadata[Active].seq \in Nat /\ otadata[Active].seq >= 1
          BY <1>a, <4>4, OtaAssumption DEF Entry, UINT32_MAX
        <5>2. /\ NextSeq(otadata[Active].seq, SUB_TYPE_ID(p)) \in Nat
              /\ NextSeq(otadata[Active].seq, SUB_TYPE_ID(p)) >= otadata[Active].seq
          <6>1. SUB_TYPE_ID(p) \in Nat
            BY <4>1 DEF Slots
          <6> QED BY <5>1, <6>1, NextSeqBound
        <5> QED BY <4>2, <4>4, <5>1, <5>2, OtaAssumption DEF UINT32_MAX
      <4> QED BY <4>3, <4>4
    <3>3. e \in Entry
      BY <3>2, OtaAssumption DEF Entry, ImgStates
    <3>4. todo' = Rewrite(i, e)
      BY <2>2 DEF esp_rewrite_ota_data
    <3> QED BY <3>1, <3>3, <3>4, RewriteType
  <2> HIDE DEF selected
  <2>3. EraseCells(p, Chunks) \in Seq(Operations)
    BY EraseCellsType, OtaAssumption
  <2>4. todo' \in Seq(Operations) /\ call' \in {selected, NoCall}
    BY <1>9, <1>e, <2>2, <2>3 DEF esp_ota_set_boot_partition, selected
  <2> QED BY <1>9, <1>n, <2>1, <2>4 DEF esp_ota_set_boot_partition, device
<1>10. CASE esp_ota_mark_app_valid_cancel_rollback
  <2> DEFINE e == [otadata[Active] EXCEPT !.state = "VALID"]
             burn == IF ANTI_ROLLBACK
                     THEN UpdateSecureVersion(SecureVersion(flash[running])) ELSE <<>>
  <2>0. Active \in 0..1
    BY <1>a, <1>10 DEF esp_ota_mark_app_valid_cancel_rollback
  <2>1. e \in Entry
    BY <2>0 DEF Entry, ImgStates
  <2>a. SecureVersion(flash[running]) \in Versions
    <3>1. running # NO_APP /\ Verifies(flash[running])
      BY <1>10 DEF esp_ota_mark_app_valid_cancel_rollback, AppCalls, Control, RunningIntact
    <3> QED BY <3>1, OtaAssumption DEF Verifies, SecureVersion
  <2>2. burn \in Seq(Operations)
    BY <2>a, UpdateSecureVersionType
  <2>3. Rewrite(Active, e) \o burn \in Seq(Operations)
    BY <2>0, <2>1, <2>2, RewriteType
  <2>4. BootTarget(otadata, flash, secver) \in Parts \cup {NO_APP}
    BY BootTargetType
  <2> QED BY <1>10, <2>3, <2>4 DEF esp_ota_mark_app_valid_cancel_rollback, device
<1>11. CASE esp_ota_mark_app_invalid_rollback_and_reboot
  <2> DEFINE e == [otadata[Active] EXCEPT !.state = "INVALID"]
  <2>0. Active \in 0..1
    BY <1>a, <1>11 DEF esp_ota_mark_app_invalid_rollback_and_reboot
  <2>1. e \in Entry
    BY <2>0 DEF Entry, ImgStates
  <2>2. Rewrite(Active, e) \in Seq(Operations)
    BY <2>0, <2>1, RewriteType
  <2> QED BY <1>11, <2>2 DEF esp_ota_mark_app_invalid_rollback_and_reboot, device
<1>12. CASE esp_ota_erase_last_boot_app_partition
  <2> DEFINE last == otadata[1 - Active]
  <2>1. 1 - Active \in 0..1 /\ SlotOf(last) \in Parts
    BY <1>a, <1>12, SlotOfType DEF esp_ota_erase_last_boot_app_partition, Parts
  <2>2. /\ EraseCells(SlotOf(last), Chunks) \in Seq(Operations)
        /\ EraseEntry(1 - Active) \in Operations
    BY <2>1, EraseCellsType, OperationTypes, OtaAssumption
  <2>3. Append(EraseCells(SlotOf(last), Chunks), EraseEntry(1 - Active)) \in Seq(Operations)
    BY <2>2
  <2> QED BY <1>12, <1>n, <2>3 DEF esp_ota_erase_last_boot_app_partition, device
<1>13. CASE Restart
  BY <1>13 DEF Restart, device
<1>14. CASE UNCHANGED vars
  BY <1>14 DEF vars
<1> QED
  BY <1>1, <1>2, <1>3, <1>4, <1>5, <1>6, <1>7, <1>8, <1>9, <1>10, <1>11, <1>12, <1>13, <1>14
  DEF Next, BootNext, AppNext

----------------------------------------------------------------------------
(* Safety of the running app *)

(* The queues that calls and phases make are safe for a partition r that   *)
(* they are not aimed at.                                                  *)
LEMMA RewriteSafe ==
  ASSUME NEW i, NEW e, NEW r, NEW fl
  PROVE  SafeQueue(Rewrite(i, e), r, fl)
<1>1. Harmless(EraseEntry(i), r, fl) /\ Harmless(WriteEntry(i, e), r, fl)
  BY DEF Harmless, EraseEntry, WriteEntry
<1> QED BY <1>1 DEF SafeQueue, Rewrite

LEMMA EraseBothSafe ==
  ASSUME NEW r, NEW fl
  PROVE  SafeQueue(<<EraseEntry(0), EraseEntry(1)>>, r, fl) /\ SafeQueue(<<>>, r, fl)
<1>1. Harmless(EraseEntry(0), r, fl) /\ Harmless(EraseEntry(1), r, fl)
  BY DEF Harmless, EraseEntry
<1> QED BY <1>1 DEF SafeQueue

LEMMA EraseCellsSafe ==
  ASSUME NEW p, NEW n \in Nat, NEW r, NEW fl, p # r
  PROVE  SafeQueue(EraseCells(p, n), r, fl)
<1>1. \A c : Harmless(EraseCell(p, c), r, fl)
  BY DEF Harmless, EraseCell
<1> QED BY <1>1 DEF SafeQueue, EraseCells

LEMMA UpdateSafe ==
  ASSUME NEW r, NEW fl, SecureVersion(fl[r]) \in Versions
  PROVE  SafeQueue(UpdateSecureVersion(SecureVersion(fl[r])), r, fl)
<1> DEFINE v == SecureVersion(fl[r])
<1>0. \A w : w <= SecureVersion(fl[r]) => Harmless(Burn(w), r, fl)
  BY DEF Harmless, Burn
<1>a. v <= SecureVersion(fl[r])
  <2>1. \A n \in Nat : n <= n
    OBVIOUS
  <2>2. v \in Nat
    BY OtaAssumption, Zenon
  <2> QED BY <2>1, <2>2, Zenon
<1>1. Harmless(Burn(v), r, fl)
  BY <1>0, <1>a, Zenon
<1> HIDE DEF v
<1>2. SafeQueue(UpdateSecureVersion(v), r, fl)
  BY <1>1 DEF SafeQueue, UpdateSecureVersion
<1> QED BY <1>2 DEF v

LEMMA ConcatSafe ==
  ASSUME NEW q1 \in Seq(Operations), NEW q2 \in Seq(Operations), NEW r, NEW fl,
         SafeQueue(q1, r, fl), SafeQueue(q2, r, fl)
  PROVE  SafeQueue(q1 \o q2, r, fl)
BY DEF SafeQueue

(* Executing a queued operation leaves the running app as it is. *)
LEMMA FlashStepSafe ==
  ASSUME Inv, FlashStep
  PROVE  QueueHarmless' /\ RunningIntact' /\ RunningNotRevoked'
<1> SUFFICES ASSUME running # NO_APP
             PROVE  QueueHarmless' /\ RunningIntact' /\ RunningNotRevoked'
  <2>1. running' = running
    BY DEF FlashStep
  <2>2. NO_APP \notin Slots
    BY DEF NO_APP, Slots
  <2> QED BY <2>1, <2>2 DEF QueueHarmless, RunningIntact, RunningNotRevoked
<1> DEFINE x == Head(todo)
<1>1. todo \in Seq(Operations) /\ todo # <<>> /\ flash \in [Parts -> Image] /\ running \in Parts
  BY DEF Inv, TypeOK, FlashStep
<1>2. x \in Operations /\ Harmless(x, running, flash)
  BY <1>1 DEF Inv, QueueHarmless, SafeQueue
<1>3. running' = running /\ todo' = Tail(todo) /\ Perform(x)
  BY DEF FlashStep
<1> HIDE DEF x
<1>4. flash'[running] = flash[running]
  <2>1. CASE x.op = "erase_cell"
    BY <1>1, <1>2, <1>3, <2>1 DEF Perform, Harmless
  <2>2. CASE x.op = "write_cell"
    BY <1>1, <1>2, <1>3, <2>2 DEF Perform, Harmless
  <2>3. CASE x.op \notin {"erase_cell", "write_cell"}
    BY <1>1, <1>3, <2>3 DEF Perform
  <2> QED BY <2>1, <2>2, <2>3
<1>5. secver' = secver \/ secver' <= SecureVersion(flash[running])
  BY <1>2, <1>3 DEF Perform, Harmless
<1>6. SafeQueue(Tail(todo), running, flash)
  BY <1>1 DEF Inv, QueueHarmless, SafeQueue
<1>7. QueueHarmless'
  BY <1>3, <1>4, <1>6 DEF QueueHarmless, SafeQueue, Harmless, SecureVersion
<1>8. RunningIntact'
  BY <1>3, <1>4 DEF Inv, RunningIntact
<1>9. RunningNotRevoked'
  BY <1>3, <1>4, <1>5 DEF Inv, RunningNotRevoked, SecureVersion
<1> QED BY <1>7, <1>8, <1>9

(* A step that neither touches the device nor changes the running app is   *)
(* safe if what it queues is.                                              *)
LEMMA QueueingSafe ==
  ASSUME Inv, UNCHANGED <<device, running, pc>>,
         running # NO_APP => SafeQueue(todo', running, flash)
  PROVE  Control' /\ QueueHarmless' /\ RunningIntact' /\ RunningNotRevoked'
BY DEF Inv, device, Control, QueueHarmless, RunningIntact, RunningNotRevoked

(* A step after which no app runs is safe if the handles are gone. *)
LEMMA StoppedSafe ==
  ASSUME running' = NO_APP, pc' # "run", \A h \in Handles : ops'[h] = NoEntry
  PROVE  /\ Control' /\ HandlesElsewhere' /\ QueueHarmless'
         /\ RunningIntact' /\ RunningNotRevoked'
<1>1. NO_APP \notin Slots
  BY DEF NO_APP, Slots
<1> QED
  BY <1>1 DEF Control, HandlesElsewhere, QueueHarmless, RunningIntact, RunningNotRevoked

(* Every step preserves the invariant.  A running test app is not checked  *)
(* for its secure version, so with anti-rollback it could be erased by     *)
(* selecting itself: that table is excluded.                               *)
LEMMA InvStep ==
  ASSUME Inv, ANTI_ROLLBACK => ~HasTest, [Next]_vars
  PROVE  Inv'
<1>t. TypeOK'
  BY TypeOKStep DEF Inv
<1>n. NO_APP \notin Parts /\ NoEntry.part = NO_APP
  BY DEF NO_APP, Parts, Slots, FACTORY_INDEX, TEST_APP_INDEX, NoEntry
<1>r. AppCalls => running # NO_APP /\ running \in Parts
  BY DEF Inv, TypeOK, Control, AppCalls
<1>h. ASSUME running' = running, ops' = ops PROVE HandlesElsewhere'
  BY <1>h DEF Inv, HandlesElsewhere
<1> SUFFICES Control' /\ HandlesElsewhere' /\ QueueHarmless' /\ RunningIntact' /\ RunningNotRevoked'
  BY <1>t DEF Inv
<1>1. CASE FlashStep
  <2>1. Control' /\ HandlesElsewhere'
    BY <1>1, <1>h DEF Inv, FlashStep, Control
  <2> QED BY <1>1, <2>1, FlashStepSafe
<1>2. CASE PowerLoss
  BY <1>2, StoppedSafe DEF PowerLoss
<1>3. CASE GetSelectedBootPartition
  <2>1. running = NO_APP /\ running' = running /\ ops' = ops /\ pc' # "run"
    BY <1>3 DEF GetSelectedBootPartition, Inv, Control
  <2> QED BY <2>1, StoppedSafe DEF Inv, HandlesElsewhere
<1>4. CASE CheckPins
  <2>1. running = NO_APP /\ running' = running /\ ops' = ops /\ pc' # "run"
    BY <1>4 DEF CheckPins, Inv, Control
  <2> QED BY <2>1, StoppedSafe DEF Inv, HandlesElsewhere
<1>5. CASE LoadBootImage
  <2> DEFINE p == LoadIndex(boot.index, flash, secver)
             e == [seq |-> p + 1, state |-> "VALID", crcOk |-> TRUE]
             burn == IF ANTI_ROLLBACK
                     THEN UpdateSecureVersion(SecureVersion(flash[p])) ELSE <<>>
  <2>0. running = NO_APP /\ \A h \in Handles : ops[h] = NoEntry
    BY <1>5 DEF LoadBootImage, Inv, Control, HandlesElsewhere
  <2>1. CASE p = NO_APP
    <3>1. running' = running /\ ops' = ops /\ pc' # "run"
      BY <1>5, <2>1 DEF LoadBootImage
    <3> QED BY <2>0, <3>1, StoppedSafe
  <2>2. CASE p # NO_APP
    <3>1. p \in Parts /\ Verifies(flash[p]) /\ (p \in Slots => check_anti_rollback(flash[p], secver))
      <4>1. boot.index \in Parts \cup {FACTORY_INDEX} /\ flash \in [Parts -> Image]
        BY DEF Inv, TypeOK
      <4> QED BY <2>2, <4>1, LoadIndexGood
    <3>a. burn \in Seq(Operations) /\ SafeQueue(burn, p, flash)
      <4>1. SecureVersion(flash[p]) \in Versions
        BY <3>1, OtaAssumption DEF Verifies, SecureVersion
      <4> QED BY <4>1, UpdateSecureVersionType, UpdateSafe, EraseBothSafe
    <3>b. p > FACTORY_INDEX => e \in Entry
      BY <3>1, OtaAssumption
      DEF Parts, Slots, FACTORY_INDEX, TEST_APP_INDEX, Entry, UINT32_MAX, ImgStates
    <3> HIDE DEF p, e, burn
    <3>2. /\ pc' = "run" /\ running' = p /\ ops' = ops
          /\ flash' = flash /\ secver' = secver
          /\ todo' = IF p > FACTORY_INDEX /\ boot.initial THEN Rewrite(0, e) \o burn ELSE <<>>
      BY <1>5, <2>2 DEF LoadBootImage, p, e, burn, device
    <3>3. SafeQueue(todo', p, flash)
      <4>1. CASE p > FACTORY_INDEX /\ boot.initial
        <5>1. Rewrite(0, e) \in Seq(Operations)
          BY <3>b, <4>1, RewriteType
        <5> QED BY <3>2, <3>a, <4>1, <5>1, RewriteSafe, ConcatSafe
      <4>2. CASE ~(p > FACTORY_INDEX /\ boot.initial)
        BY <4>2, <3>2, EraseBothSafe
      <4> QED BY <4>1, <4>2
    <3>4. Control' /\ QueueHarmless' /\ RunningIntact'
      BY <3>1, <3>2, <3>3, <2>2 DEF Control, QueueHarmless, RunningIntact
    <3>5. HandlesElsewhere'
      BY <2>0, <2>2, <3>2, <1>n DEF HandlesElsewhere
    <3>6. RunningNotRevoked'
      BY <3>1, <3>2 DEF RunningNotRevoked, check_anti_rollback
    <3> QED BY <3>4, <3>5, <3>6
  <2> QED BY <2>1, <2>2
<1>6. ASSUME NEW h \in Handles, NEW p \in Slots, NEW n \in 1 .. Chunks, esp_ota_begin(h, p, n)
      PROVE  Control' /\ HandlesElsewhere' /\ QueueHarmless' /\ RunningIntact' /\ RunningNotRevoked'
  <2>1. /\ UNCHANGED <<device, running, pc>> /\ p # running /\ running # NO_APP
        /\ todo' = EraseCells(p, n)
        /\ ops' = [ops EXCEPT ![h] = [part |-> p, pos |-> 0]]
    BY <1>6, <1>r DEF esp_ota_begin
  <2>2. SafeQueue(todo', running, flash)
    BY <2>1, EraseCellsSafe, OtaAssumption
  <2>3. HandlesElsewhere'
    BY <2>1 DEF Inv, TypeOK, HandlesElsewhere
  <2> QED BY <2>1, <2>2, <2>3, QueueingSafe
<1>7. ASSUME NEW h \in Handles, NEW v \in Versions, esp_ota_write(h, v)
      PROVE  Control' /\ HandlesElsewhere' /\ QueueHarmless' /\ RunningIntact' /\ RunningNotRevoked'
  <2>1. /\ UNCHANGED <<device, running, pc>> /\ running # NO_APP
        /\ todo' = <<WriteCell(ops[h].part, ops[h].pos + 1, v)>>
        /\ ops' = [ops EXCEPT ![h].pos = @ + 1]
    BY <1>7, <1>r DEF esp_ota_write
  <2>2. ops[h].part # running
    BY <2>1 DEF Inv, HandlesElsewhere
  <2>a. Harmless(WriteCell(ops[h].part, ops[h].pos + 1, v), running, flash)
    BY <2>2 DEF Harmless, WriteCell
  <2>3. SafeQueue(todo', running, flash)
    BY <2>1, <2>a DEF SafeQueue
  <2>4. HandlesElsewhere'
    <3>1. \A g \in Handles : ops'[g].part = ops[g].part
      <4>1. ops \in [Handles -> {NoEntry} \cup [part : Slots, pos : 0 .. Chunks]]
        BY DEF Inv, TypeOK
      <4> QED BY <2>1, <4>1 DEF NoEntry
    <3> QED BY <2>1, <3>1 DEF Inv, HandlesElsewhere
  <2> QED BY <2>1, <2>3, <2>4, QueueingSafe
<1>8. ASSUME NEW h \in Handles, esp_ota_end(h)
      PROVE  Control' /\ HandlesElsewhere' /\ QueueHarmless' /\ RunningIntact' /\ RunningNotRevoked'
  <2>1. /\ UNCHANGED <<device, running, pc>> /\ running # NO_APP /\ todo' = todo
        /\ ops' = [ops EXCEPT ![h] = NoEntry]
    BY <1>8, <1>r DEF esp_ota_end
  <2>2. HandlesElsewhere'
    BY <2>1, <1>n DEF Inv, TypeOK, HandlesElsewhere
  <2> QED BY <2>1, <2>2, QueueingSafe DEF Inv, QueueHarmless
<1>9. ASSUME NEW p \in Parts, esp_ota_set_boot_partition(p)
      PROVE  Control' /\ HandlesElsewhere' /\ QueueHarmless' /\ RunningIntact' /\ RunningNotRevoked'
  <2>1. UNCHANGED <<device, running, pc, ops>> /\ running # NO_APP
    BY <1>9, <1>r DEF esp_ota_set_boot_partition
  <2>2. SafeQueue(todo', running, flash)
    <3>1. CASE todo' = <<EraseEntry(0), EraseEntry(1)>>
      BY <3>1, EraseBothSafe
    <3>2. CASE esp_rewrite_ota_data(p)
      <4>1. \E i, e : todo' = Rewrite(i, e)
        BY <3>2 DEF esp_rewrite_ota_data
      <4> QED BY <4>1, RewriteSafe
    <3>3. CASE /\ ANTI_ROLLBACK /\ SecureVersion(flash[p]) < secver
               /\ todo' = EraseCells(p, Chunks)
      <4>1. Parts = Slots
        BY <3>3, OtaAssumption DEF Parts
      <4>2. SecureVersion(flash[p]) \in Nat /\ secver \in Nat
        BY <1>9, OtaAssumption
        DEF esp_ota_set_boot_partition, Verifies, SecureVersion, Inv, TypeOK
      <4>3. p # running
        BY <3>3, <4>1, <4>2 DEF Inv, RunningNotRevoked
      <4> QED BY <3>3, <4>3, EraseCellsSafe, OtaAssumption
    <3> QED BY <1>9, <3>1, <3>2, <3>3 DEF esp_ota_set_boot_partition
  <2> QED BY <2>1, <2>2, <1>h, QueueingSafe
<1>10. CASE esp_ota_mark_app_valid_cancel_rollback
  <2> DEFINE e == [otadata[Active] EXCEPT !.state = "VALID"]
             burn == IF ANTI_ROLLBACK
                     THEN UpdateSecureVersion(SecureVersion(flash[running])) ELSE <<>>
  <2>1. UNCHANGED <<device, running, pc, ops>> /\ running # NO_APP /\ todo' = Rewrite(Active, e) \o burn
    BY <1>10, <1>r DEF esp_ota_mark_app_valid_cancel_rollback
  <2>2. Rewrite(Active, e) \in Seq(Operations)
    <3>1. Active \in 0..1
      BY <1>10, ActiveType DEF esp_ota_mark_app_valid_cancel_rollback, Active, Inv, TypeOK
    <3>2. otadata[Active] \in Entry
      BY <3>1 DEF Inv, TypeOK
    <3>3. e \in Entry
      BY <3>2 DEF Entry, ImgStates
    <3> QED BY <3>1, <3>3, RewriteType
  <2>3. burn \in Seq(Operations) /\ SafeQueue(burn, running, flash)
    <3>a. Verifies(flash[running])
      BY <2>1 DEF Inv, RunningIntact
    <3>1. SecureVersion(flash[running]) \in Versions
      BY <3>a, OtaAssumption DEF Verifies, SecureVersion
    <3> QED BY <3>1, UpdateSecureVersionType, UpdateSafe, EraseBothSafe
  <2> HIDE DEF e, burn
  <2>4. SafeQueue(todo', running, flash)
    BY <2>1, <2>2, <2>3, RewriteSafe, ConcatSafe
  <2> QED BY <2>1, <2>4, <1>h, QueueingSafe
<1>11. CASE esp_ota_mark_app_invalid_rollback_and_reboot
  BY <1>11, StoppedSafe DEF esp_ota_mark_app_invalid_rollback_and_reboot
<1>12. CASE esp_ota_erase_last_boot_app_partition
  <2> DEFINE last == otadata[1 - Active]
             erase == EraseCells(SlotOf(last), Chunks)
  <2>1. /\ UNCHANGED <<device, running, pc, ops>> /\ running # NO_APP /\ SlotOf(last) # running
        /\ todo' = Append(erase, EraseEntry(1 - Active))
    BY <1>12, <1>r DEF esp_ota_erase_last_boot_app_partition
  <2>2. SafeQueue(erase, running, flash)
    BY <2>1, EraseCellsSafe, OtaAssumption
  <2>3. Harmless(EraseEntry(1 - Active), running, flash)
    BY DEF Harmless, EraseEntry
  <2>a. erase \in Seq(Operations)
    <3>1. Active \in {0, 1}
      BY <1>12, ActiveType DEF esp_ota_erase_last_boot_app_partition, Active, Inv, TypeOK
    <3>2. last \in Entry
      BY <3>1 DEF Inv, TypeOK
    <3> QED BY <3>2, SlotOfType, EraseCellsType, OtaAssumption DEF Parts
  <2> HIDE DEF erase
  <2>4. SafeQueue(todo', running, flash)
    BY <2>1, <2>2, <2>3, <2>a DEF SafeQueue
  <2> QED BY <2>1, <2>4, <1>h, QueueingSafe
<1>13. CASE Restart
  BY <1>13, StoppedSafe DEF Restart
<1>14. CASE UNCHANGED vars
  BY <1>14 DEF vars, Inv, Control, HandlesElsewhere, QueueHarmless, RunningIntact, RunningNotRevoked
<1> QED
  BY <1>1, <1>2, <1>3, <1>4, <1>5, <1>6, <1>7, <1>8, <1>9, <1>10, <1>11, <1>12, <1>13, <1>14
  DEF Next, BootNext, AppNext

(* A device as it leaves the factory satisfies the invariant. *)
LEMMA InitInv == Init => Inv
<1> SUFFICES ASSUME Init PROVE Inv
  OBVIOUS
<1>1. otadata \in [0..1 -> Entry]
  BY OtaAssumption DEF Init, ErasedEntry, Entry, UINT32_MAX, ImgStates
<1>2. flash \in [Parts -> Image]
  BY DEF Init, Image, Cell
<1>a. secver \in Nat /\ todo \in Seq(Operations) /\ fresh \subseteq 0..1
  BY DEF Init
<1>b. boot \in [index : Parts \cup {FACTORY_INDEX}, initial : BOOLEAN]
  BY DEF Init
<1>c. call \in [fn : {"none", "set_boot", "mark_valid", "mark_invalid"},
               part : Parts \cup {NO_APP}, old : Parts \cup {NO_APP}, trial : BOOLEAN]
  BY DEF Init, NoCall
<1>d. ops \in [Handles -> {NoEntry} \cup [part : Slots, pos : 0 .. Chunks]]
  BY DEF Init
<1>3. TypeOK
  BY <1>1, <1>2, <1>a, <1>b, <1>c, <1>d DEF Init, TypeOK
<1>4. NO_APP \notin Slots
  BY DEF NO_APP, Slots
<1> QED
  BY <1>3, <1>4
  DEF Init, Inv, Control, HandlesElsewhere, QueueHarmless, RunningIntact, RunningNotRevoked

----------------------------------------------------------------------------
(* Results *)

(* The invariant holds throughout, for every partition table that does not *)
(* combine anti-rollback with a test app.                                  *)
THEOREM InvAlways ==
  ASSUME ANTI_ROLLBACK => ~HasTest
  PROVE  Spec => []Inv
<1>1. Inv /\ [Next]_vars => Inv'
  BY InvStep
<1> QED BY <1>1, InitInv, PTL DEF Spec

(* The records, images, queues and handles of the update system always     *)
(* have the type their C counterparts have; the write position of a handle *)
(* in particular never leaves its partition (esp_ota_write).               *)
THEOREM TypeCorrect ==
  ASSUME ANTI_ROLLBACK => ~HasTest
  PROVE  Spec => []TypeOK
<1>1. Inv => TypeOK
  BY DEF Inv
<1> QED BY <1>1, InvAlways, PTL

(* The partition the running app executes from is never erased or written, *)
(* whatever calls it makes (esp_ota_begin, esp_ota_write,                  *)
(* esp_ota_set_boot_partition, esp_ota_erase_last_boot_app_partition), in  *)
(* whatever order and with however many handles.                           *)
THEOREM RunningImageIntact ==
  ASSUME ANTI_ROLLBACK => ~HasTest
  PROVE  Spec => []RunningIntact
<1>1. Inv => RunningIntact
  BY DEF Inv
<1> QED BY <1>1, InvAlways, PTL

(* The secure version in the eFuses never passes the one of the running    *)
(* app (check_anti_rollback, esp_efuse_update_secure_version), so a        *)
(* restart does not find its own app revoked.                              *)
THEOREM RunningAppNotRevoked ==
  ASSUME ANTI_ROLLBACK => ~HasTest
  PROVE  Spec => []RunningNotRevoked
<1>1. Inv => RunningNotRevoked
  BY DEF Inv
<1> QED BY <1>1, InvAlways, PTL
============================================================================
