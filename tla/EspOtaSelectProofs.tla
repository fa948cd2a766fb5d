------------------------- MODULE EspOtaSelectProofs -------------------------
(***************************************************************************)
(* Proofs about the protocol of the two otadata entries in EspOta: what    *)
(* the calls that select, confirm and reject an app promise.               *)
(***************************************************************************)
EXTENDS EspOtaBootProofs

----------------------------------------------------------------------------
(* The two entries *)

(* What entry 0 (x) and entry 1 (y) never are at the same time: both on    *)
(* trial, or records of the same slot of which the second is in force.     *)
Coexist(x, y) ==
  /\ ~(x.state = "PENDING_VERIFY" /\ y.state = "PENDING_VERIFY")
  /\ x.crcOk /\ y.crcOk /\ SlotOf(x) = SlotOf(y) => ota_select_invalid(y)
  /\ ~ROLLBACK_ENABLE => "PENDING_VERIFY" \notin {x.state, y.state}

Sound(d) == Coexist(d[0], d[1])

(* The queue q writes no entry, one entry, or the two one after the other, *)
(* and the entries d are sound after each write.                           *)
SoundQueue(d, q) ==
  \/ \A k \in 1 .. Len(q) : q[k].op # "write_entry"
  \/ \E i \in 0..1, e \in Entry :
       /\ q \in {Rewrite(i, e), <<WriteEntry(i, e)>>}
       /\ Sound([d EXCEPT ![i] = e])
  \/ \E i \in 0..1, e \in Entry, f \in Entry :
       /\ q \in {Rewrite(i, e) \o Rewrite(1 - i, f), <<WriteEntry(i, e)>> \o Rewrite(1 - i, f)}
       /\ Sound([d EXCEPT ![i] = e])
       /\ Sound([d EXCEPT ![i] = e, ![1 - i] = f])

(* When the bootloader found no record at all, there is none when it       *)
(* writes the first one.                                                   *)
StillInitial ==
  pc \in {"gpio", "load"} /\ boot.initial
    => /\ \A i \in 0..1 : IsInitial(otadata[i])
       /\ \A k \in 1 .. Len(todo) : todo[k].op = "write_entry" => IsInitial(todo[k].e)

Entries == Sound(otadata) /\ SoundQueue(otadata, todo) /\ StillInitial

----------------------------------------------------------------------------
(* The calls that decide the next boot *)

(* Entry e in sector i is in force against y in the other one, and stays   *)
(* so when the bootloader aborts what is on trial.                         *)
Prevails(i, e, y) ==
  /\ ota_select_valid(e) /\ e.state # "PENDING_VERIFY"
  /\ ota_select_valid(y) => e.seq > y.seq \/ (e.seq = y.seq /\ i = 0)

(* The record of slot p is being written, or has been. *)
Recording(p, states) ==
  \E i \in 0..1, e \in Entry :
    /\ Prevails(i, e, otadata[1 - i]) /\ SlotOf(e) = p /\ e.state \in states
    /\ \/ todo \in {Rewrite(i, e), <<WriteEntry(i, e)>>}
       \/ todo = <<>> /\ otadata[i] = e

(* Both records are being erased, or have been. *)
Erasing ==
  \/ todo = <<EraseEntry(0), EraseEntry(1)>>
  \/ otadata[0] = ErasedEntry /\ todo = <<EraseEntry(1)>>
  \/ otadata[0] = ErasedEntry /\ otadata[1] = ErasedEntry /\ todo = <<>>

(* A call that selects what boots next, from its decision to the next one. *)
Selected ==
  pc = "run" =>
    /\ call.fn = "set_boot" =>
         /\ call.part \in Parts /\ Verifies(flash[call.part])
         /\ IF call.part = FACTORY_INDEX THEN Erasing ELSE Recording(call.part, {"NEW", "UNDEFINED"})
    /\ call.fn = "mark_valid" => call.part = running /\ Recording(running, {"VALID"})
    /\ call.fn # "mark_invalid"

(* The record e does not lead back to the app in slot p. *)
LeadsElsewhere(e, p) == ota_select_valid(e) => SlotOf(e) # p /\ Verifies(flash[SlotOf(e)])

(* An app has declared itself invalid: what its record becomes, and all    *)
(* that the bootloader writes until an app runs, leads elsewhere.          *)
RolledBack ==
  call.fn = "mark_invalid" =>
    /\ call.part \in Slots
    /\ \A i \in 0..1 : \/ LeadsElsewhere(otadata[i], call.part)
                       \/ todo # <<>> /\ Head(todo) = EraseEntry(i)
    /\ \A k \in 1 .. Len(todo) :
         todo[k].op = "write_entry" => LeadsElsewhere(todo[k].e, call.part)

----------------------------------------------------------------------------
(* Sequence numbers and slots *)

LEMMA ModSlot ==
  ASSUME NEW s \in Slots, NEW n \in Nat
  PROVE  (s + n * AppCount) % AppCount = s
<1> DEFINE a == s + n * AppCount
           m == a % AppCount
<1>1. AppCount \in Nat /\ AppCount > 0 /\ s \in Nat /\ s < AppCount /\ n * AppCount \in Nat
  BY OtaAssumption DEF Slots
<1>2. a \in Nat
  BY <1>1
<1>3. PICK q \in Int : a = q * AppCount + m /\ m \in 0 .. AppCount - 1
  BY <1>1, <1>2
<1>4. (q - n) * AppCount = s - m
  BY <1>1, <1>3
<1> HIDE DEF a, m
<1>5. q - n = 0
  <2>1. q - n >= 1 => (q - n) * AppCount >= AppCount
    BY <1>1
  <2>2. q - n <= -1 => (q - n) * AppCount <= -AppCount
    BY <1>1
  <2> QED BY <1>1, <1>3, <1>4, <2>1, <2>2
<1>6. m = s
  BY <1>1, <1>3, <1>4, <1>5
<1> QED BY <1>6 DEF m, a

(* The number esp_rewrite_ota_data computes designates the wanted slot. *)
LEMMA NextSeqSlot ==
  ASSUME NEW seq \in Nat \ {0}, NEW s \in Slots
  PROVE  (NextSeq(seq, s) - 1) % AppCount = s
<1>1. AppCount \in Nat /\ AppCount > 0 /\ s \in Nat /\ s < AppCount
  BY OtaAssumption DEF Slots
<1>2. NextSeq(seq, s) \in Nat /\ NextSeq(seq, s) >= seq
  BY <1>1, NextSeqBound
<1>3. PICK n \in Nat : NextSeq(seq, s) = ((s + 1) % AppCount) + n * AppCount
  BY <1>1, NextSeqBound
<1>4. CASE s + 1 < AppCount
  <2>1. (s + 1) % AppCount = s + 1
    BY <1>1, <1>4
  <2>2. NextSeq(seq, s) - 1 = s + n * AppCount
    BY <1>1, <1>3, <2>1
  <2> QED BY <2>2, ModSlot
<1>5. CASE s + 1 = AppCount
  <2>1. (s + 1) % AppCount = 0
    BY <1>1, <1>5
  <2>2. n # 0
    BY <1>1, <1>2, <1>3, <2>1
  <2>3. n - 1 \in Nat /\ n * AppCount = (n - 1) * AppCount + AppCount
    BY <1>1, <2>2
  <2>4. NextSeq(seq, s) - 1 = s + (n - 1) * AppCount
    BY <1>1, <1>3, <1>5, <2>1, <2>3
  <2> QED BY <2>3, <2>4, ModSlot
<1> QED BY <1>1, <1>4, <1>5
----------------------------------------------------------------------------
(* What the bootloader makes of the entries *)

(* The valid entry with the greater number is the active one. *)
LEMMA ActiveIs ==
  ASSUME NEW d \in [0..1 -> Entry], NEW i \in 0..1, ota_select_valid(d[i]),
         ota_select_valid(d[1 - i]) => d[i].seq > d[1 - i].seq \/ (d[i].seq = d[1 - i].seq /\ i = 0)
  PROVE  get_active_otadata(d) = i
<1>1. \A j \in 0..1 : Valid(d)[j] = ota_select_valid(d[j])
  BY DEF Valid
<1>2. \A j \in 0..1 : d[j].seq \in Int
  BY OtaAssumption DEF Entry, UINT32_MAX
<1>3. CASE i = 0
  BY <1>1, <1>2, <1>3 DEF get_active_otadata, select_otadata
<1>4. CASE i = 1
  BY <1>1, <1>2, <1>4 DEF get_active_otadata, select_otadata
<1> QED BY <1>3, <1>4

(* Conversely, the active entry is valid and has the greater number. *)
LEMMA ActivePrevails ==
  ASSUME NEW d \in [0..1 -> Entry], NEW i \in 0..1, get_active_otadata(d) = i
  PROVE  /\ ota_select_valid(d[i])
         /\ ota_select_valid(d[1 - i])
              => d[i].seq > d[1 - i].seq \/ (d[i].seq = d[1 - i].seq /\ i = 0)
<1>1. \A j \in 0..1 : Valid(d)[j] = ota_select_valid(d[j])
  BY DEF Valid
<1>2. \A j \in 0..1 : d[j].seq \in Int
  BY OtaAssumption DEF Entry, UINT32_MAX
<1>3. CASE i = 0
  BY <1>1, <1>2, <1>3 DEF get_active_otadata, select_otadata
<1>4. CASE i = 1
  BY <1>1, <1>2, <1>4 DEF get_active_otadata, select_otadata
<1> QED BY <1>3, <1>4

LEMMA ActiveNone ==
  ASSUME NEW d \in [0..1 -> Entry]
  PROVE  get_active_otadata(d) = -1 <=> \A i \in 0..1 : ~ota_select_valid(d[i])
<1>1. Valid(d)[0] = ota_select_valid(d[0]) /\ Valid(d)[1] = ota_select_valid(d[1])
  BY DEF Valid
<1>2. get_active_otadata(d) = -1 <=> ~Valid(d)[0] /\ ~Valid(d)[1]
  BY DEF get_active_otadata, select_otadata
<1> QED BY <1>1, <1>2

(* bootloader_utility_get_selected_boot_partition on the entries a. *)
LEMMA SelectionIs ==
  ASSUME ~ANTI_ROLLBACK, NEW a \in [0..1 -> Entry], NEW fl, NEW sv
  PROVE  /\ Selection(a, fl, sv).active = get_active_otadata(a)
         /\ get_active_otadata(a) # -1
              => Selection(a, fl, sv).index = SlotOf(a[get_active_otadata(a)])
         /\ get_active_otadata(a) = -1
              => \/ Selection(a, fl, sv).index = FACTORY_INDEX
                 \/ ~HasFactory /\ Selection(a, fl, sv).index = 0
<1> DEFINE k == get_active_otadata(a)
           unset == ota_select_invalid(a[0]) /\ ota_select_invalid(a[1])
           sel == Selection(a, fl, sv)
<1>1. k \in {-1, 0, 1} /\ (k # -1 => ota_select_valid(a[k]))
  BY ActiveType
<1>2. unset => k = -1
  BY <1>1 DEF ota_select_valid
<1>3. /\ sel.active = IF unset THEN -1 ELSE k
      /\ sel.index = IF sel.active # -1 THEN SlotOf(a[sel.active])
                     ELSE IF unset /\ ~HasFactory THEN 0 ELSE FACTORY_INDEX
  BY DEF Selection
<1> HIDE DEF k, unset, sel
<1>4. sel.active = k
  BY <1>2, <1>3
<1> QED BY <1>3, <1>4 DEF k, sel

(* What aborting does to an entry. *)
LEMMA AbortFacts ==
  ASSUME NEW d \in [0..1 -> Entry], NEW i \in 0..1
  PROVE  /\ AbortPending(d) \in [0..1 -> Entry]
         /\ AbortPending(d)[i].seq = d[i].seq
         /\ AbortPending(d)[i].crcOk = d[i].crcOk
         /\ d[i].state # "PENDING_VERIFY" => AbortPending(d)[i] = d[i]
         /\ ROLLBACK_ENABLE /\ d[i].state = "PENDING_VERIFY"
              => AbortPending(d)[i] = [d[i] EXCEPT !.state = "ABORTED"]
         /\ ota_select_valid(AbortPending(d)[i]) => ota_select_valid(d[i])
         /\ SlotOf(AbortPending(d)[i]) = SlotOf(d[i])
<1> DEFINE a == AbortPending(d)
<1>1. d[i] \in Entry /\ a \in [0..1 -> Entry]
  BY AbortPendingType
<1>2. a[i] = IF ROLLBACK_ENABLE /\ d[i].state = "PENDING_VERIFY"
             THEN [d[i] EXCEPT !.state = "ABORTED"] ELSE d[i]
  BY DEF AbortPending
<1> HIDE DEF a
<1>3. CASE ROLLBACK_ENABLE /\ d[i].state = "PENDING_VERIFY"
  <2>1. a[i] = [d[i] EXCEPT !.state = "ABORTED"]
    BY <1>2, <1>3
  <2>2. a[i].state = "ABORTED" /\ a[i].seq = d[i].seq /\ a[i].crcOk = d[i].crcOk
    BY <1>1, <2>1 DEF Entry
  <2> QED BY <1>1, <1>3, <2>1, <2>2 DEF a, ota_select_valid, ota_select_invalid, SlotOf
<1>4. CASE ~(ROLLBACK_ENABLE /\ d[i].state = "PENDING_VERIFY")
  BY <1>1, <1>2, <1>4 DEF a
<1> QED BY <1>3, <1>4

LEMMA BootTargetIs ==
  ASSUME ~ANTI_ROLLBACK, NEW d, NEW fl, NEW sv
  PROVE  BootTarget(d, fl, sv) = LoadIndex(Selection(AbortPending(d), fl, sv).index, fl, sv)
BY DEF BootTarget

(* An entry that prevails decides the next boot. *)
LEMMA PrevailsBoots ==
  ASSUME ~ANTI_ROLLBACK, NEW d \in [0..1 -> Entry], NEW fl, NEW sv, NEW i \in 0..1,
         Prevails(i, d[i], d[1 - i]), Verifies(fl[SlotOf(d[i])])
  PROVE  BootTarget(d, fl, sv) = SlotOf(d[i])
<1> DEFINE a == AbortPending(d)
<1>0. 1 - i \in 0..1
  OBVIOUS
<1>1. a \in [0..1 -> Entry] /\ a[i] = d[i] /\ a[1 - i].seq = d[1 - i].seq
      /\ (ota_select_valid(a[1 - i]) => ota_select_valid(d[1 - i]))
  BY <1>0, AbortFacts DEF Prevails
<1> HIDE DEF a
<1>2. get_active_otadata(a) = i
  BY <1>1, ActiveIs DEF Prevails
<1>3. Selection(a, fl, sv).index = SlotOf(d[i])
  BY <1>1, <1>2, SelectionIs
<1>4. SlotOf(d[i]) \in Slots
  BY SlotOfType
<1>5. SlotOf(d[i]) \in Parts \ {TEST_APP_INDEX}
  BY <1>4, OtaAssumption DEF Parts, Slots, TEST_APP_INDEX
<1>6. SlotOf(d[i]) \in Loadable(fl, sv)
  BY <1>5, VerifiesLoadable
<1> QED BY <1>3, <1>6, BootTargetIs, LoadsSelected DEF a

(* When the bootloader is left without a valid entry it starts the factory *)
(* app.                                                                    *)
LEMMA FactoryBoots ==
  ASSUME ~ANTI_ROLLBACK, HasFactory, NEW d \in [0..1 -> Entry], NEW fl, NEW sv,
         \A i \in 0..1 : ~ota_select_valid(AbortPending(d)[i]),
         Verifies(fl[FACTORY_INDEX])
  PROVE  BootTarget(d, fl, sv) = FACTORY_INDEX
<1>1. AbortPending(d) \in [0..1 -> Entry]
  BY AbortPendingType
<1>2. get_active_otadata(AbortPending(d)) = -1
  BY <1>1, ActiveNone
<1>3. Selection(AbortPending(d), fl, sv).index = FACTORY_INDEX
  BY <1>1, <1>2, SelectionIs
<1>4. FACTORY_INDEX \in Parts \ {TEST_APP_INDEX}
  BY DEF Parts, FACTORY_INDEX, TEST_APP_INDEX
<1>5. FACTORY_INDEX \in Loadable(fl, sv)
  BY <1>4, VerifiesLoadable
<1> QED BY <1>3, <1>5, BootTargetIs, LoadsSelected
----------------------------------------------------------------------------
(* What the invariants say about the promises *)

LEMMA SelectedTakesEffect ==
  ASSUME ~ANTI_ROLLBACK, TypeOK, RunningIntact, Control, Selected
  PROVE  SetBootTakesEffect /\ ConfirmSticks
<1>o. otadata \in [0..1 -> Entry]
  BY DEF TypeOK
<1>1. ASSUME NEW p, NEW st, todo = <<>>, Recording(p, st), Verifies(flash[p])
      PROVE  BootTarget(otadata, flash, secver) = p
  <2>1. PICK i \in 0..1, e \in Entry :
          /\ Prevails(i, e, otadata[1 - i]) /\ SlotOf(e) = p /\ e.state \in st
          /\ \/ todo \in {Rewrite(i, e), <<WriteEntry(i, e)>>}
             \/ todo = <<>> /\ otadata[i] = e
    BY <1>1 DEF Recording
  <2>2. otadata[i] = e
    BY <1>1, <2>1 DEF Rewrite
  <2> QED BY <1>1, <1>o, <2>1, <2>2, PrevailsBoots
<1>2. SetBootTakesEffect
  <2> SUFFICES ASSUME AppCalls, call.fn = "set_boot"
               PROVE  BootTarget(otadata, flash, secver) = call.part
    BY DEF SetBootTakesEffect
  <2>0. todo = <<>> /\ pc = "run"
    BY DEF AppCalls
  <2>1. call.part \in Parts /\ Verifies(flash[call.part])
    BY <2>0 DEF Selected
  <2>2. CASE call.part = FACTORY_INDEX
    <3>1. otadata[0] = ErasedEntry /\ otadata[1] = ErasedEntry
      BY <2>0, <2>2 DEF Selected, Erasing
    <3>2. \A i \in 0..1 : ~ota_select_valid(otadata[i])
      BY <3>1 DEF ota_select_valid, ErasedEntry
    <3>3. \A i \in 0..1 : ~ota_select_valid(AbortPending(otadata)[i])
      BY <1>o, <3>2, AbortFacts
    <3>4. HasFactory
      BY <2>1, <2>2, OtaAssumption DEF Parts, Slots, FACTORY_INDEX, TEST_APP_INDEX
    <3> QED BY <1>o, <2>1, <2>2, <3>3, <3>4, FactoryBoots
  <2>3. CASE call.part # FACTORY_INDEX
    BY <1>1, <2>0, <2>1, <2>3 DEF Selected
  <2> QED BY <2>2, <2>3
<1>3. ConfirmSticks
  <2> SUFFICES ASSUME AppCalls, call.fn = "mark_valid"
               PROVE  BootTarget(otadata, flash, secver) = call.part
    BY DEF ConfirmSticks
  <2>1. todo = <<>> /\ call.part = running /\ Recording(running, {"VALID"})
    BY DEF AppCalls, Selected
  <2>2. Verifies(flash[running])
    BY DEF AppCalls, Control, RunningIntact
  <2> QED BY <1>1, <2>1, <2>2
<1> QED BY <1>2, <1>3

(* esp_ota_get_state_partition finds the active entry of a slot, not an    *)
(* older one of the same slot.                                             *)
LEMMA StateOfActive ==
  ASSUME NEW d \in [0..1 -> Entry], NEW i \in 0..1, Sound(d), ota_select_valid(d[i])
  PROVE  esp_ota_get_state_partition(d, SlotOf(d[i])) = d[i].state
<1>1. SlotOf(d[i]) \in Slots
  BY SlotOfType
<1>2. CASE i = 0
  BY <1>1, <1>2 DEF esp_ota_get_state_partition, ota_select_valid
<1>3. CASE i = 1
  BY <1>1, <1>3 DEF esp_ota_get_state_partition, ota_select_valid, Sound, Coexist
<1> QED BY <1>2, <1>3

LEMMA MarksRunning ==
  ASSUME TypeOK, Entries, Selected
  PROVE  MarksRunningApp
<1> SUFFICES ASSUME AppCalls, call.fn = "mark_valid"
             PROVE  esp_ota_get_state_partition(otadata, call.part) = "VALID"
  BY DEF MarksRunningApp
<1>1. todo = <<>> /\ call.part = running /\ Recording(running, {"VALID"})
  BY DEF AppCalls, Selected
<1>2. PICK i \in 0..1, e \in Entry :
        /\ Prevails(i, e, otadata[1 - i]) /\ SlotOf(e) = running /\ e.state \in {"VALID"}
        /\ \/ todo \in {Rewrite(i, e), <<WriteEntry(i, e)>>}
           \/ todo = <<>> /\ otadata[i] = e
  BY <1>1 DEF Recording
<1>3. otadata[i] = e
  BY <1>1, <1>2 DEF Rewrite
<1>4. otadata \in [0..1 -> Entry] /\ Sound(otadata) /\ ota_select_valid(e)
  BY <1>2 DEF TypeOK, Entries, Prevails
<1> QED BY <1>1, <1>2, <1>3, <1>4, StateOfActive

LEMMA PromiseKept ==
  ASSUME ~ANTI_ROLLBACK, TypeOK, Sound(otadata)
  PROVE  RollbackPromise
<1> SUFFICES ASSUME IsSelected(running), otadata[Active].state = "PENDING_VERIFY",
                    esp_ota_check_rollback_is_possible(otadata, flash, secver)
             PROVE  BootTarget(otadata, flash, secver) # running
  BY DEF RollbackPromise
<1> DEFINE k == Active
           o == 1 - Active
           a == AbortPending(otadata)
<1>o. otadata \in [0..1 -> Entry]
  BY DEF TypeOK
<1>1. k \in 0..1 /\ o \in 0..1 /\ SlotOf(otadata[k]) = running /\ ota_select_valid(otadata[k])
  BY <1>o, ActiveType DEF IsSelected, Active
<1>2. ROLLBACK_ENABLE /\ otadata[o].state # "PENDING_VERIFY"
  BY <1>1, <1>o DEF Sound, Coexist
<1>3. a \in [0..1 -> Entry] /\ a[o] = otadata[o] /\ a[k] = [otadata[k] EXCEPT !.state = "ABORTED"]
  BY <1>1, <1>2, <1>o, AbortFacts
<1>4. ~ota_select_valid(a[k])
  <2>1. a[k].state = "ABORTED"
    BY <1>1, <1>3, <1>o DEF Entry
  <2> QED BY <2>1 DEF ota_select_valid, ota_select_invalid
<1>5. running \in Slots
  BY <1>1, <1>o, SlotOfType
<1>6. CASE ota_select_valid(otadata[o])
  <2>1. Verifies(flash[SlotOf(otadata[o])])
    BY <1>6 DEF esp_ota_check_rollback_is_possible, Active, Bootable
  <2>2. SlotOf(otadata[o]) # running
    BY <1>1, <1>6 DEF Sound, Coexist, ota_select_valid
  <2>3. get_active_otadata(a) = o
    <3>1. k = 1 - o
      BY <1>1
    <3> HIDE DEF k, o, a
    <3> QED BY <1>1, <1>3, <1>4, <1>6, <3>1, ActiveIs
  <2>4. Selection(a, flash, secver).index = SlotOf(otadata[o])
    BY <1>1, <1>3, <2>3, SelectionIs
  <2>5. SlotOf(otadata[o]) \in Slots
    BY <1>1, <1>o, SlotOfType
  <2>6. SlotOf(otadata[o]) \in Parts \ {TEST_APP_INDEX}
    BY <2>5, OtaAssumption DEF Parts, Slots, TEST_APP_INDEX
  <2>7. SlotOf(otadata[o]) \in Loadable(flash, secver)
    BY <2>1, <2>6, VerifiesLoadable
  <2> QED BY <2>2, <2>4, <2>7, BootTargetIs, LoadsSelected
<1>7. CASE ~ota_select_valid(otadata[o])
  <2>1. HasFactory /\ Verifies(flash[FACTORY_INDEX])
    BY <1>7 DEF esp_ota_check_rollback_is_possible, Active
  <2>2. \A i \in 0..1 : ~ota_select_valid(a[i])
    BY <1>1, <1>3, <1>4, <1>7
  <2>3. BootTarget(otadata, flash, secver) = FACTORY_INDEX
    BY <1>o, <2>1, <2>2, FactoryBoots
  <2> QED BY <1>5, <2>3, OtaAssumption DEF Slots, FACTORY_INDEX
<1> QED BY <1>6, <1>7

(* When everything that can be in force leads elsewhere, the rejected app  *)
(* does not boot.                                                          *)
LEMMA RollbackBoots ==
  ASSUME ~ANTI_ROLLBACK, HasFactory, TypeOK, FactoryKept, RolledBack
  PROVE  RollbackSwitches
<1> SUFFICES ASSUME todo = <<>>, call.fn = "mark_invalid"
             PROVE  BootTarget(otadata, flash, secver) # call.part
  BY DEF RollbackSwitches
<1> DEFINE a == AbortPending(otadata)
           k == get_active_otadata(a)
<1>1. otadata \in [0..1 -> Entry] /\ a \in [0..1 -> Entry]
  BY AbortPendingType DEF TypeOK
<1>2. call.part \in Slots /\ \A i \in 0..1 : LeadsElsewhere(otadata[i], call.part)
  BY DEF RolledBack
<1>3. k \in {-1, 0, 1} /\ (k # -1 => ota_select_valid(a[k]))
  BY <1>1, ActiveType
<1>4. CASE k = -1
  <2>1. \A i \in 0..1 : ~ota_select_valid(a[i])
    BY <1>1, <1>4, ActiveNone
  <2>2. BootTarget(otadata, flash, secver) = FACTORY_INDEX
    BY <1>1, <2>1, FactoryBoots DEF FactoryKept
  <2> QED BY <1>2, <2>2, OtaAssumption DEF Slots, FACTORY_INDEX
<1>5. CASE k # -1
  <2>1. k \in 0..1 /\ ota_select_valid(otadata[k]) /\ SlotOf(a[k]) = SlotOf(otadata[k])
    BY <1>1, <1>3, <1>5, AbortFacts
  <2>2. SlotOf(otadata[k]) # call.part /\ Verifies(flash[SlotOf(otadata[k])])
    BY <1>2, <2>1 DEF LeadsElsewhere
  <2>3. Selection(a, flash, secver).index = SlotOf(otadata[k])
    BY <1>1, <1>5, <2>1, SelectionIs
  <2>5. SlotOf(otadata[k]) \in Slots
    BY <1>1, <2>1, SlotOfType
  <2>6. SlotOf(otadata[k]) \in Parts \ {TEST_APP_INDEX}
    BY <2>5, OtaAssumption DEF Parts, Slots, TEST_APP_INDEX
  <2>7. SlotOf(otadata[k]) \in Loadable(flash, secver)
    BY <2>2, <2>6, VerifiesLoadable
  <2> QED BY <2>2, <2>3, <2>7, BootTargetIs, LoadsSelected
<1> QED BY <1>4, <1>5
----------------------------------------------------------------------------
(* The entries stay sound *)

(* An unreadable entry coexists with whatever the readable one does. *)
LEMMA TornSound ==
  ASSUME NEW d \in [0..1 -> Entry], NEW i \in 0..1, NEW e \in Entry, NEW x \in Entry,
         Sound([d EXCEPT ![i] = e]), ~x.crcOk, x.state \in {e.state, "UNDEFINED"}
  PROVE  Sound([d EXCEPT ![i] = x])
<1>1. CASE i = 0
  BY <1>1 DEF Sound, Coexist
<1>2. CASE i = 1
  BY <1>2 DEF Sound, Coexist
<1> QED BY <1>1, <1>2

LEMMA ErasedEntryType == ErasedEntry \in Entry /\ ~ErasedEntry.crcOk
BY OtaAssumption DEF ErasedEntry, Entry, UINT32_MAX, ImgStates

LEMMA ErasedSound ==
  ASSUME NEW d \in [0..1 -> Entry], NEW i \in 0..1, Sound(d)
  PROVE  Sound([d EXCEPT ![i] = ErasedEntry])
<1>1. [d EXCEPT ![i] = d[i]] = d
  OBVIOUS
<1>2. ErasedEntry.state = "UNDEFINED"
  BY DEF ErasedEntry
<1> QED BY <1>1, <1>2, ErasedEntryType, TornSound

(* So does an entry whose state changes, unless it is revived or goes on   *)
(* trial beside another one.                                               *)
LEMMA InPlaceSound ==
  ASSUME NEW d \in [0..1 -> Entry], NEW i \in 0..1, NEW x \in Entry, Sound(d),
         x.seq = d[i].seq, x.crcOk = d[i].crcOk,
         ota_select_invalid(d[i]) => ota_select_invalid(x),
         x.state = "PENDING_VERIFY" => ROLLBACK_ENABLE /\ d[1 - i].state # "PENDING_VERIFY"
  PROVE  Sound([d EXCEPT ![i] = x])
<1>1. SlotOf(x) = SlotOf(d[i])
  BY DEF SlotOf
<1>2. CASE i = 0
  BY <1>1, <1>2 DEF Sound, Coexist
<1>3. CASE i = 1
  BY <1>1, <1>3 DEF Sound, Coexist
<1> QED BY <1>2, <1>3

(* The new record of esp_rewrite_ota_data is of another slot than the      *)
(* active one, or there is no active one.                                  *)
LEMMA NewSound ==
  ASSUME NEW d \in [0..1 -> Entry], NEW i \in 0..1, NEW x \in Entry,
         x.state # "PENDING_VERIFY", Sound(d),
         \/ SlotOf(x) # SlotOf(d[1 - i])
         \/ i = 0 /\ ~ota_select_valid(d[1])
  PROVE  Sound([d EXCEPT ![i] = x])
<1>1. CASE i = 0
  BY <1>1 DEF Sound, Coexist, ota_select_valid
<1>2. CASE i = 1
  BY <1>2 DEF Sound, Coexist
<1> QED BY <1>1, <1>2

(* The operations on otadata. *)
LEMMA PerformEntry ==
  ASSUME NEW i \in 0..1, NEW e \in Entry
  PROVE  /\ Perform(EraseEntry(i)) => otadata' = [otadata EXCEPT ![i] = ErasedEntry]
         /\ Perform(WriteEntry(i, e)) => otadata' = [otadata EXCEPT ![i] = e]
         /\ Perform(EraseEntry(i)) \/ Perform(WriteEntry(i, e)) => flash' = flash
BY DEF Perform, EraseEntry, WriteEntry

LEMMA TearEntry ==
  ASSUME NEW i \in 0..1, NEW e \in Entry
  PROVE  /\ Tear(EraseEntry(i)) => otadata' = [otadata EXCEPT ![i].crcOk = FALSE]
         /\ Tear(WriteEntry(i, e)) =>
              \E s \in {e.state, "UNDEFINED"} :
                otadata' = [otadata EXCEPT ![i] = [e EXCEPT !.state = s, !.crcOk = FALSE]]
<1>1. ASSUME Tear(EraseEntry(i)) PROVE otadata' = [otadata EXCEPT ![i].crcOk = FALSE]
  BY <1>1 DEF Tear, EraseEntry
<1>2. ASSUME Tear(WriteEntry(i, e))
      PROVE  \E s \in {e.state, "UNDEFINED"} :
                otadata' = [otadata EXCEPT ![i] = [e EXCEPT !.state = s, !.crcOk = FALSE]]
  BY <1>2 DEF Tear, WriteEntry
<1> QED BY <1>1, <1>2

(* The first operation of the queues that write entries. *)
LEMMA RewriteShape ==
  ASSUME NEW i \in 0..1, NEW e \in Entry, NEW f \in Entry
  PROVE  /\ Head(Rewrite(i, e)) = EraseEntry(i)
         /\ Tail(Rewrite(i, e)) = <<WriteEntry(i, e)>>
         /\ Head(Rewrite(i, e) \o Rewrite(1 - i, f)) = EraseEntry(i)
         /\ Tail(Rewrite(i, e) \o Rewrite(1 - i, f)) = <<WriteEntry(i, e)>> \o Rewrite(1 - i, f)
         /\ Head(<<WriteEntry(i, e)>> \o Rewrite(1 - i, f)) = WriteEntry(i, e)
         /\ Tail(<<WriteEntry(i, e)>> \o Rewrite(1 - i, f)) = Rewrite(1 - i, f)
<1> DEFINE a == EraseEntry(i)
           b == WriteEntry(i, e)
           c == EraseEntry(1 - i)
           d == WriteEntry(1 - i, f)
           s == <<a, b>> \o <<c, d>>
           t == <<b>> \o <<c, d>>
<1>0. a \in Operations /\ b \in Operations /\ c \in Operations /\ d \in Operations
  <2>1. 1 - i \in 0..1
    OBVIOUS
  <2> QED BY <2>1, OperationTypes
<1>1. Rewrite(i, e) = <<a, b>> /\ Rewrite(1 - i, f) = <<c, d>>
  BY DEF Rewrite
<1> HIDE DEF a, b, c, d
<1>a. s \in Seq(Operations) /\ Len(s) = 4 /\ s[1] = a /\ s[2] = b /\ s[3] = c /\ s[4] = d
  BY <1>0
<1>b. t \in Seq(Operations) /\ Len(t) = 3 /\ t[1] = b /\ t[2] = c /\ t[3] = d
  BY <1>0
<1> HIDE DEF s, t
<1>c. s = <<a, b, c, d>> /\ t = <<b, c, d>>
  BY <1>a, <1>b
<1>2. <<a, b>> \o <<c, d>> = <<a, b, c, d>> /\ <<b>> \o <<c, d>> = <<b, c, d>>
  BY <1>c DEF s, t
<1>3. Head(<<a, b>>) = a /\ Tail(<<a, b>>) = <<b>>
  OBVIOUS
<1>4. Head(<<a, b, c, d>>) = a /\ Tail(<<a, b, c, d>>) = <<b, c, d>>
  OBVIOUS
<1>5. Head(<<b, c, d>>) = b /\ Tail(<<b, c, d>>) = <<c, d>>
  OBVIOUS
<1> QED BY <1>1, <1>2, <1>3, <1>4, <1>5 DEF a, b

LEMMA NoWritesSound ==
  ASSUME NEW d
  PROVE  SoundQueue(d, <<>>) /\ SoundQueue(d, <<EraseEntry(0), EraseEntry(1)>>)
         /\ SoundQueue(d, <<EraseEntry(1)>>)
<1>1. \A k \in 1 .. Len(<<>>) : <<>>[k].op # "write_entry"
  OBVIOUS
<1>2. \A k \in 1 .. Len(<<EraseEntry(0), EraseEntry(1)>>) :
        <<EraseEntry(0), EraseEntry(1)>>[k].op # "write_entry"
  BY DEF EraseEntry
<1>3. \A k \in 1 .. Len(<<EraseEntry(1)>>) : <<EraseEntry(1)>>[k].op # "write_entry"
  BY DEF EraseEntry
<1> QED BY <1>1, <1>2, <1>3 DEF SoundQueue

(* Executing the queue one operation further. *)
LEMMA SoundStep ==
  ASSUME TypeOK, Sound(otadata), SoundQueue(otadata, todo), FlashStep
  PROVE  Sound(otadata') /\ SoundQueue(otadata', todo')
<1>t. otadata \in [0..1 -> Entry] /\ todo \in Seq(Operations) /\ todo # <<>>
  BY DEF TypeOK, FlashStep
<1>h. Perform(Head(todo)) /\ todo' = Tail(todo) /\ Head(todo) \in Operations
  BY <1>t DEF FlashStep
<1>er. ASSUME NEW i \in 0..1, Head(todo) = EraseEntry(i)
       PROVE  otadata' = [otadata EXCEPT ![i] = ErasedEntry]
  BY <1>h, <1>er, PerformEntry, ErasedEntryType
<1>wr. ASSUME NEW i \in 0..1, NEW e \in Entry, Head(todo) = WriteEntry(i, e)
       PROVE  otadata' = [otadata EXCEPT ![i] = e]
  BY <1>h, <1>wr, PerformEntry
<1>1. CASE \A k \in 1 .. Len(todo) : todo[k].op # "write_entry"
  <2>1. SoundQueue(otadata', todo')
    <3>1. \A k \in 1 .. Len(Tail(todo)) : Tail(todo)[k].op # "write_entry"
      BY <1>1, <1>t
    <3> QED BY <1>h, <3>1 DEF SoundQueue
  <2>2. Head(todo).op # "write_entry"
    BY <1>1, <1>t
  <2>3. CASE \E i \in 0..1 : Head(todo) = EraseEntry(i)
    BY <1>er, <1>t, <2>1, <2>3, ErasedSound
  <2>4. CASE ~\E i \in 0..1 : Head(todo) = EraseEntry(i)
    <3>1. otadata' = otadata
      BY <1>h, <2>2, <2>4, OperationCases
      DEF Perform, EraseEntry, WriteEntry, EraseCell, WriteCell, Burn
    <3> QED BY <2>1, <3>1
  <2> QED BY <2>3, <2>4
<1>2. CASE \E i \in 0..1, e \in Entry :
             /\ todo \in {Rewrite(i, e), <<WriteEntry(i, e)>>}
             /\ Sound([otadata EXCEPT ![i] = e])
  <2>1. PICK i \in 0..1, e \in Entry :
             /\ todo \in {Rewrite(i, e), <<WriteEntry(i, e)>>}
             /\ Sound([otadata EXCEPT ![i] = e])
    BY <1>2
  <2>2. CASE todo = Rewrite(i, e)
    <3>1. Head(todo) = EraseEntry(i) /\ Tail(todo) = <<WriteEntry(i, e)>>
      BY <2>2, RewriteShape
    <3>2. otadata' = [otadata EXCEPT ![i] = ErasedEntry]
      BY <3>1, <1>er
    <3>3. [otadata' EXCEPT ![i] = e] = [otadata EXCEPT ![i] = e]
      BY <3>2, <1>t
    <3>4. SoundQueue(otadata', todo')
      BY <1>h, <2>1, <3>1, <3>3 DEF SoundQueue
    <3> QED BY <1>t, <3>2, <3>4, ErasedSound
  <2>3. CASE todo = <<WriteEntry(i, e)>>
    <3>1. Head(todo) = WriteEntry(i, e) /\ Tail(todo) = <<>>
      BY <2>3
    <3>2. SoundQueue(otadata', todo')
      BY <1>h, <3>1, NoWritesSound
    <3> QED BY <2>1, <3>1, <3>2, <1>wr
  <2> QED BY <2>1, <2>2, <2>3
<1>3. CASE \E i \in 0..1, e \in Entry, f \in Entry :
       /\ todo \in {Rewrite(i, e) \o Rewrite(1 - i, f), <<WriteEntry(i, e)>> \o Rewrite(1 - i, f)}
       /\ Sound([otadata EXCEPT ![i] = e])
       /\ Sound([otadata EXCEPT ![i] = e, ![1 - i] = f])
  <2>1. PICK i \in 0..1, e \in Entry, f \in Entry :
       /\ todo \in {Rewrite(i, e) \o Rewrite(1 - i, f), <<WriteEntry(i, e)>> \o Rewrite(1 - i, f)}
       /\ Sound([otadata EXCEPT ![i] = e])
       /\ Sound([otadata EXCEPT ![i] = e, ![1 - i] = f])
    BY <1>3
  <2>o. 1 - i \in 0..1
    OBVIOUS
  <2>2. CASE todo = Rewrite(i, e) \o Rewrite(1 - i, f)
    <3>1. Head(todo) = EraseEntry(i) /\ Tail(todo) = <<WriteEntry(i, e)>> \o Rewrite(1 - i, f)
      BY <2>2, RewriteShape
    <3>2. otadata' = [otadata EXCEPT ![i] = ErasedEntry]
      BY <3>1, <1>er
    <3>3. [otadata' EXCEPT ![i] = e] = [otadata EXCEPT ![i] = e]
      BY <3>2, <1>t
    <3>a. [otadata' EXCEPT ![i] = e, ![1 - i] = f] = [otadata EXCEPT ![i] = e, ![1 - i] = f]
      BY <3>2, <1>t
    <3>4. SoundQueue(otadata', todo')
      BY <1>h, <2>1, <3>1, <3>3, <3>a DEF SoundQueue
    <3> QED BY <1>t, <3>2, <3>4, ErasedSound
  <2>3. CASE todo = <<WriteEntry(i, e)>> \o Rewrite(1 - i, f)
    <3>1. Head(todo) = WriteEntry(i, e) /\ Tail(todo) = Rewrite(1 - i, f)
      BY <2>3, RewriteShape
    <3>2. otadata' = [otadata EXCEPT ![i] = e]
      BY <3>1, <1>wr
    <3>3. Sound([otadata' EXCEPT ![1 - i] = f])
      BY <2>1, <3>2, <1>t
    <3>4. SoundQueue(otadata', todo')
      BY <1>h, <2>o, <3>1, <3>3 DEF SoundQueue
    <3> QED BY <2>1, <3>2, <3>4
  <2> QED BY <2>1, <2>2, <2>3
<1> QED BY <1>1, <1>2, <1>3 DEF SoundQueue

(* Losing the power in the middle of an operation. *)
LEMMA SoundTear ==
  ASSUME TypeOK, Sound(otadata), SoundQueue(otadata, todo), todo # <<>>, Tear(Head(todo))
  PROVE  Sound(otadata')
<1>t. otadata \in [0..1 -> Entry] /\ todo \in Seq(Operations) /\ Head(todo) \in Operations
  BY DEF TypeOK
<1>1. CASE \E i \in 0..1 : Head(todo) = EraseEntry(i)
  <2>1. PICK i \in 0..1 : Head(todo) = EraseEntry(i)
    BY <1>1
  <2> DEFINE x == [otadata[i] EXCEPT !.crcOk = FALSE]
  <2>2. otadata' = [otadata EXCEPT ![i] = x]
    BY <2>1, <1>t DEF Tear, EraseEntry
  <2>3. x \in Entry /\ ~x.crcOk /\ x.state = otadata[i].state
    BY <1>t DEF Entry
  <2>4. [otadata EXCEPT ![i] = otadata[i]] = otadata
    BY <1>t
  <2> HIDE DEF x
  <2> QED BY <1>t, <2>2, <2>3, <2>4, TornSound
<1>2. CASE \E i \in 0..1, e \in Entry : Head(todo) = WriteEntry(i, e)
  <2>1. PICK i \in 0..1, e \in Entry : Head(todo) = WriteEntry(i, e)
    BY <1>2
  <2>2. Sound([otadata EXCEPT ![i] = e])
    <3>1. todo[1] = WriteEntry(i, e) /\ Len(todo) >= 1
      BY <1>t, <2>1
    <3>2. ~\A k \in 1 .. Len(todo) : todo[k].op # "write_entry"
      BY <3>1 DEF WriteEntry
    <3>3. PICK j \in 0..1, f \in Entry :
            /\ Head(todo) \in {EraseEntry(j), WriteEntry(j, f)}
            /\ Sound([otadata EXCEPT ![j] = f])
      <4>1. ASSUME NEW j \in 0..1, NEW f \in Entry,
                   todo \in {Rewrite(j, f), <<WriteEntry(j, f)>>}
            PROVE  Head(todo) \in {EraseEntry(j), WriteEntry(j, f)}
        <5>1. Head(<<WriteEntry(j, f)>>) = WriteEntry(j, f)
          OBVIOUS
        <5> QED BY <4>1, <5>1, RewriteShape, Zenon
      <4>2. ASSUME NEW j \in 0..1, NEW f \in Entry, NEW g \in Entry,
                   todo \in {Rewrite(j, f) \o Rewrite(1 - j, g),
                             <<WriteEntry(j, f)>> \o Rewrite(1 - j, g)}
            PROVE  Head(todo) \in {EraseEntry(j), WriteEntry(j, f)}
        <5>1. /\ Head(Rewrite(j, f) \o Rewrite(1 - j, g)) = EraseEntry(j)
              /\ Head(<<WriteEntry(j, f)>> \o Rewrite(1 - j, g)) = WriteEntry(j, f)
          BY RewriteShape
        <5> QED BY <4>2, <5>1, Zenon
      <4>3. \/ \E j \in 0..1, f \in Entry : /\ todo \in {Rewrite(j, f), <<WriteEntry(j, f)>>}
                                           /\ Sound([otadata EXCEPT ![j] = f])
            \/ \E j \in 0..1, f \in Entry, g \in Entry :
                 /\ todo \in {Rewrite(j, f) \o Rewrite(1 - j, g),
                              <<WriteEntry(j, f)>> \o Rewrite(1 - j, g)}
                 /\ Sound([otadata EXCEPT ![j] = f])
        BY <3>2 DEF SoundQueue
      <4> QED BY <4>1, <4>2, <4>3
    <3>4. i = j /\ e = f
      BY <2>1, <3>3 DEF EraseEntry, WriteEntry
    <3> QED BY <3>3, <3>4
  <2>3. PICK s \in {e.state, "UNDEFINED"} :
          otadata' = [otadata EXCEPT ![i] = [e EXCEPT !.state = s, !.crcOk = FALSE]]
    <3>1. Tear(WriteEntry(i, e))
      BY <2>1
    <3> QED BY <3>1, TearEntry, Zenon
  <2> DEFINE x == [e EXCEPT !.state = s, !.crcOk = FALSE]
  <2>4. x \in Entry /\ ~x.crcOk /\ x.state \in {e.state, "UNDEFINED"}
    BY DEF Entry, ImgStates
  <2> HIDE DEF x
  <2> QED BY <1>t, <2>2, <2>3, <2>4, TornSound DEF x
<1>3. CASE ~(\E i \in 0..1 : Head(todo) = EraseEntry(i))
           /\ ~(\E i \in 0..1, e \in Entry : Head(todo) = WriteEntry(i, e))
  <2>1. otadata' = otadata
    BY <1>3, <1>t, OperationCases DEF Tear, EraseCell, WriteCell, Burn
  <2> QED BY <2>1
<1> QED BY <1>1, <1>2, <1>3
----------------------------------------------------------------------------
(* What the bootloader queues *)

Aborted(e) == [e EXCEPT !.state = "ABORTED"]
OnTrial(e) == [e EXCEPT !.state = "PENDING_VERIFY"]

(* The first loop gives the entry up. *)
GivenUp(i) == ROLLBACK_ENABLE /\ otadata[i].state = "PENDING_VERIFY"

(* The entry is the one selected, for its first boot. *)
Starts(i) ==
  /\ ROLLBACK_ENABLE /\ otadata[i].state = "NEW"
  /\ get_active_otadata(AbortPending(otadata)) = i

SelectionWrites(q) ==
  \/ q = <<>>
  \/ \E i \in 0..1 :
       \/ GivenUp(i) /\ q = Rewrite(i, Aborted(otadata[i]))
       \/ Starts(i) /\ ~GivenUp(1 - i) /\ q = Rewrite(i, OnTrial(otadata[i]))
       \/ GivenUp(i) /\ Starts(1 - i)
          /\ q = Rewrite(i, Aborted(otadata[i])) \o Rewrite(1 - i, OnTrial(otadata[1 - i]))

LEMMA EmptyConcat ==
  ASSUME NEW S, NEW s \in Seq(S)
  PROVE  <<>> \o s = s /\ s \o <<>> = s
OBVIOUS

LEMMA StateChangeType ==
  ASSUME NEW e \in Entry
  PROVE  /\ Aborted(e) \in Entry /\ Aborted(e).state = "ABORTED"
         /\ Aborted(e).seq = e.seq /\ Aborted(e).crcOk = e.crcOk
         /\ OnTrial(e) \in Entry /\ OnTrial(e).state = "PENDING_VERIFY"
         /\ OnTrial(e).seq = e.seq /\ OnTrial(e).crcOk = e.crcOk
         /\ SlotOf(Aborted(e)) = SlotOf(e) /\ SlotOf(OnTrial(e)) = SlotOf(e)
<1>1. /\ Aborted(e) \in Entry /\ Aborted(e).state = "ABORTED"
      /\ Aborted(e).seq = e.seq /\ Aborted(e).crcOk = e.crcOk
  BY DEF Aborted, Entry, ImgStates
<1>2. /\ OnTrial(e) \in Entry /\ OnTrial(e).state = "PENDING_VERIFY"
      /\ OnTrial(e).seq = e.seq /\ OnTrial(e).crcOk = e.crcOk
  BY DEF OnTrial, Entry, ImgStates
<1> QED BY <1>1, <1>2 DEF SlotOf

LEMMA SelectionQueue ==
  ASSUME ~ANTI_ROLLBACK, TypeOK, Sound(otadata), GetSelectedBootPartition
  PROVE  SelectionWrites(todo')
<1> DEFINE d == otadata
           a == AbortPending(d)
           k == get_active_otadata(a)
           m == MarkFirstBoot(a, k)
           C(i) == IF d[i] # a[i] THEN Rewrite(i, a[i]) ELSE <<>>
           M(i) == IF a[i] # m[i] THEN Rewrite(i, m[i]) ELSE <<>>
<1>o. d \in [0..1 -> Entry] /\ a \in [0..1 -> Entry]
  BY AbortPendingType DEF TypeOK
<1>1. todo' = C(0) \o C(1) \o M(0) \o M(1) \o <<>>
  <2> DEFINE sel == Selection(a, flash, secver)
             n == MarkFirstBoot(a, sel.active)
             burn == IF /\ ANTI_ROLLBACK /\ sel.active # -1
                        /\ n[sel.active].state = "VALID"
                        /\ HasDescription(flash[sel.index])
                     THEN UpdateSecureVersion(SecureVersion(flash[sel.index])) ELSE <<>>
             N(i) == IF a[i] # n[i] THEN Rewrite(i, n[i]) ELSE <<>>
  <2>1. todo' = C(0) \o C(1) \o N(0) \o N(1) \o burn
    BY DEF GetSelectedBootPartition
  <2>2. burn = <<>>
    OBVIOUS
  <2>3. sel.active = k
    BY <1>o, SelectionIs
  <2>4. N(0) = M(0) /\ N(1) = M(1)
    BY <2>3
  <2> HIDE DEF C, M, N, burn
  <2> QED BY <2>1, <2>2, <2>4
<1>2. ASSUME NEW i \in 0..1 PROVE C(i) = IF GivenUp(i) THEN Rewrite(i, Aborted(d[i])) ELSE <<>>
  <2>1. CASE GivenUp(i)
    <3>1. a[i] = Aborted(d[i])
      BY <2>1 DEF AbortPending, GivenUp, Aborted
    <3>2. a[i] # d[i]
      BY <1>o, <2>1, <3>1, StateChangeType DEF GivenUp
    <3> QED BY <2>1, <3>1, <3>2
  <2>2. CASE ~GivenUp(i)
    BY <2>2 DEF AbortPending, GivenUp
  <2> QED BY <2>1, <2>2
<1>3. ASSUME NEW i \in 0..1 PROVE M(i) = IF Starts(i) THEN Rewrite(i, OnTrial(d[i])) ELSE <<>>
  <2>1. CASE Starts(i)
    <3>1. a[i] = d[i] /\ d[i].state = "NEW" /\ k = i /\ ROLLBACK_ENABLE
      BY <2>1 DEF AbortPending, Starts
    <3>2. m[i] = OnTrial(d[i])
      BY <3>1 DEF MarkFirstBoot, OnTrial
    <3>3. a[i] # m[i]
      BY <1>o, <3>1, <3>2, StateChangeType
    <3> QED BY <2>1, <3>2, <3>3
  <2>2. CASE ~Starts(i)
    <3>1. m[i] = a[i]
      <4>1. CASE ROLLBACK_ENABLE /\ i = k /\ a[i].state = "NEW"
        <5>1. d[i].state # "NEW"
          BY <2>2, <4>1 DEF Starts
        <5>2. a[i].state # "NEW"
          <6>1. CASE GivenUp(i)
            <7>1. a[i] = Aborted(d[i])
              BY <6>1 DEF AbortPending, GivenUp, Aborted
            <7> QED BY <1>o, <7>1, StateChangeType
          <6>2. CASE ~GivenUp(i)
            BY <5>1, <6>2 DEF AbortPending, GivenUp
          <6> QED BY <6>1, <6>2
        <5> QED BY <4>1, <5>2
      <4>2. CASE ~(ROLLBACK_ENABLE /\ i = k /\ a[i].state = "NEW")
        BY <4>2 DEF MarkFirstBoot
      <4> QED BY <4>1, <4>2
    <3> QED BY <2>2, <3>1
  <2> QED BY <2>1, <2>2
<1>4. ASSUME NEW i \in 0..1
      PROVE  Rewrite(i, Aborted(d[i])) \in Seq(Operations) /\ Rewrite(i, OnTrial(d[i])) \in Seq(Operations)
  BY <1>o, StateChangeType, RewriteType
<1> HIDE DEF C, M
<1>5. ~(GivenUp(0) /\ GivenUp(1)) /\ ~(Starts(0) /\ Starts(1))
      /\ ~(GivenUp(0) /\ Starts(0)) /\ ~(GivenUp(1) /\ Starts(1))
  BY DEF Sound, Coexist, GivenUp, Starts
<1>6. ASSUME NEW i \in 0..1 PROVE C(i) \in Seq(Operations) /\ M(i) \in Seq(Operations)
  <2>1. C(i) \in {Rewrite(i, Aborted(d[i])), <<>>} /\ M(i) \in {Rewrite(i, OnTrial(d[i])), <<>>}
    BY <1>2, <1>3
  <2>2. <<>> \in Seq(Operations)
    OBVIOUS
  <2> QED BY <1>4, <2>1, <2>2, Zenon
<1>s. /\ C(0) \in Seq(Operations) /\ C(1) \in Seq(Operations)
      /\ M(0) \in Seq(Operations) /\ M(1) \in Seq(Operations)
  BY <1>6
<1>7. todo' = C(0) \o C(1) \o M(0) \o M(1)
  <2>1. C(0) \o C(1) \o M(0) \o M(1) \in Seq(Operations)
    BY <1>s
  <2> QED BY <1>1, <2>1, EmptyConcat
<1>c. \A i \in 0..1 : (~GivenUp(i) => C(i) = <<>>) /\ (~Starts(i) => M(i) = <<>>)
  BY <1>2, <1>3
<1>8. CASE GivenUp(0)
  <2>1. C(0) = Rewrite(0, Aborted(d[0])) /\ C(1) = <<>> /\ M(0) = <<>>
    BY <1>2, <1>5, <1>8, <1>c
  <2>2. todo' = C(0) \o M(1)
    <3>1. C(0) \o C(1) = C(0) /\ C(0) \o M(0) = C(0)
      BY <1>s, <2>1, EmptyConcat
    <3> QED BY <1>7, <3>1
  <2>3. CASE Starts(1)
    <3>1. M(1) = Rewrite(1, OnTrial(d[1]))
      BY <1>3, <2>3
    <3>2. todo' = Rewrite(0, Aborted(d[0])) \o Rewrite(1, OnTrial(d[1]))
      BY <2>1, <2>2, <3>1, Zenon
    <3> QED BY <1>8, <2>3, <3>2 DEF SelectionWrites
  <2>4. CASE ~Starts(1)
    <3>1. todo' = C(0)
      BY <1>s, <1>c, <2>2, <2>4, EmptyConcat
    <3> QED BY <1>8, <2>1, <3>1 DEF SelectionWrites
  <2> QED BY <2>3, <2>4
<1>9. CASE GivenUp(1)
  <2>1. C(1) = Rewrite(1, Aborted(d[1])) /\ C(0) = <<>> /\ M(1) = <<>>
    BY <1>2, <1>5, <1>9, <1>c
  <2>2. todo' = C(1) \o M(0)
    <3>1. C(0) \o C(1) = C(1)
      BY <1>s, <2>1, EmptyConcat
    <3>2. C(1) \o M(0) \in Seq(Operations)
      BY <1>s
    <3>3. (C(1) \o M(0)) \o M(1) = C(1) \o M(0)
      BY <2>1, <3>2, EmptyConcat
    <3> QED BY <1>7, <3>1, <3>3
  <2>3. CASE Starts(0)
    <3>1. M(0) = Rewrite(0, OnTrial(d[0])) /\ 1 - 1 = 0
      BY <1>3, <2>3
    <3> QED BY <1>9, <2>1, <2>2, <2>3, <3>1 DEF SelectionWrites
  <2>4. CASE ~Starts(0)
    <3>1. todo' = C(1)
      BY <1>s, <1>c, <2>2, <2>4, EmptyConcat
    <3> QED BY <1>9, <2>1, <3>1 DEF SelectionWrites
  <2> QED BY <2>3, <2>4
<1>10. CASE ~GivenUp(0) /\ ~GivenUp(1)
  <2>1. C(0) = <<>> /\ C(1) = <<>>
    BY <1>10, <1>c
  <2>2. todo' = M(0) \o M(1)
    <3>1. C(0) \o C(1) = <<>> /\ <<>> \o M(0) = M(0)
      BY <1>s, <2>1, EmptyConcat
    <3> QED BY <1>7, <3>1
  <2>3. CASE Starts(0)
    <3>1. M(0) = Rewrite(0, OnTrial(d[0])) /\ M(1) = <<>> /\ 1 - 0 = 1
      BY <1>3, <1>5, <1>c, <2>3
    <3>2. todo' = Rewrite(0, OnTrial(d[0]))
      BY <1>s, <2>2, <3>1, EmptyConcat
    <3> QED BY <1>10, <2>3, <3>1, <3>2 DEF SelectionWrites
  <2>4. CASE Starts(1)
    <3>1. M(1) = Rewrite(1, OnTrial(d[1])) /\ M(0) = <<>> /\ 1 - 1 = 0
      BY <1>3, <1>5, <1>c, <2>4
    <3>2. todo' = Rewrite(1, OnTrial(d[1]))
      BY <1>s, <2>2, <3>1, EmptyConcat
    <3> QED BY <1>10, <2>4, <3>1, <3>2 DEF SelectionWrites
  <2>5. CASE ~Starts(0) /\ ~Starts(1)
    <3>1. todo' = <<>>
      BY <1>s, <1>c, <2>2, <2>5, EmptyConcat
    <3> QED BY <3>1 DEF SelectionWrites
  <2> QED BY <2>3, <2>4, <2>5
<1> QED BY <1>8, <1>9, <1>10
LEMMA RewriteElements ==
  ASSUME NEW i \in 0..1, NEW e \in Entry, NEW k \in 1 .. Len(Rewrite(i, e))
  PROVE  Rewrite(i, e)[k] \in {EraseEntry(i), WriteEntry(i, e)}
BY DEF Rewrite

LEMMA ConcatElements ==
  ASSUME NEW S, NEW s \in Seq(S), NEW t \in Seq(S), NEW k \in 1 .. Len(s \o t)
  PROVE  \/ \E j \in 1 .. Len(s) : (s \o t)[k] = s[j]
         \/ \E j \in 1 .. Len(t) : (s \o t)[k] = t[j]
<1>1. CASE k <= Len(s)
  BY <1>1
<1>2. CASE k > Len(s)
  <2>1. k - Len(s) \in 1 .. Len(t) /\ (s \o t)[k] = t[k - Len(s)]
    BY <1>2
  <2> QED BY <2>1
<1> QED BY <1>1, <1>2

LEMMA ConcatNotEmpty ==
  ASSUME NEW S, NEW s \in Seq(S), NEW t \in Seq(S), Len(t) = 2
  PROVE  s \o t # <<>>
<1>1. Len(s \o t) # 0
  OBVIOUS
<1> QED BY <1>1

(* What the bootloader writes into an entry: that it is given up, or on    *)
(* trial.                                                                  *)
LEMMA SelectionElements ==
  ASSUME TypeOK, NEW q, SelectionWrites(q), NEW k \in 1 .. Len(q)
  PROVE  \E i \in 0..1 :
           \/ (GivenUp(i) \/ Starts(i)) /\ q[k] = EraseEntry(i)
           \/ GivenUp(i) /\ q[k] = WriteEntry(i, Aborted(otadata[i]))
           \/ Starts(i) /\ q[k] = WriteEntry(i, OnTrial(otadata[i]))
<1>o. \A i \in 0..1 : /\ Aborted(otadata[i]) \in Entry /\ OnTrial(otadata[i]) \in Entry
                      /\ 1 - i \in 0..1
  BY StateChangeType DEF TypeOK
<1>1. CASE q = <<>>
  BY <1>1
<1>2. ASSUME NEW i \in 0..1, GivenUp(i), q = Rewrite(i, Aborted(otadata[i]))
      PROVE  q[k] = EraseEntry(i) \/ q[k] = WriteEntry(i, Aborted(otadata[i]))
  BY <1>2, <1>o, RewriteElements
<1>3. ASSUME NEW i \in 0..1, Starts(i), q = Rewrite(i, OnTrial(otadata[i]))
      PROVE  q[k] = EraseEntry(i) \/ q[k] = WriteEntry(i, OnTrial(otadata[i]))
  BY <1>3, <1>o, RewriteElements
<1>4. ASSUME NEW i \in 0..1, GivenUp(i), Starts(1 - i),
             q = Rewrite(i, Aborted(otadata[i])) \o Rewrite(1 - i, OnTrial(otadata[1 - i]))
      PROVE  \/ q[k] = EraseEntry(i) \/ q[k] = WriteEntry(i, Aborted(otadata[i]))
             \/ q[k] = EraseEntry(1 - i) \/ q[k] = WriteEntry(1 - i, OnTrial(otadata[1 - i]))
  <2> DEFINE s == Rewrite(i, Aborted(otadata[i]))
             t == Rewrite(1 - i, OnTrial(otadata[1 - i]))
  <2>1. s \in Seq(Operations) /\ t \in Seq(Operations)
    BY <1>o, RewriteType
  <2>2. \/ \E j \in 1 .. Len(s) : q[k] = s[j]
        \/ \E j \in 1 .. Len(t) : q[k] = t[j]
    <3> HIDE DEF s, t
    <3>1. q = s \o t
      BY <1>4 DEF s, t
    <3> QED BY <2>1, <3>1, ConcatElements
  <2>3. \A j \in 1 .. Len(s) : s[j] \in {EraseEntry(i), WriteEntry(i, Aborted(otadata[i]))}
    BY <1>o, RewriteElements
  <2>4. \A j \in 1 .. Len(t) :
          t[j] \in {EraseEntry(1 - i), WriteEntry(1 - i, OnTrial(otadata[1 - i]))}
    BY <1>o, RewriteElements
  <2> HIDE DEF s, t
  <2> QED BY <2>2, <2>3, <2>4
<1> QED BY <1>1, <1>2, <1>3, <1>4, <1>o DEF SelectionWrites

LEMMA SelectionQueueSound ==
  ASSUME TypeOK, Sound(otadata), NEW q, SelectionWrites(q)
  PROVE  SoundQueue(otadata, q)
<1>o. otadata \in [0..1 -> Entry]
  BY DEF TypeOK
<1>a. ASSUME NEW i \in 0..1, GivenUp(i)
      PROVE  /\ Aborted(otadata[i]) \in Entry
             /\ Sound([otadata EXCEPT ![i] = Aborted(otadata[i])])
  BY <1>a, <1>o, StateChangeType, InPlaceSound DEF ota_select_invalid
<1>b. ASSUME NEW d \in [0..1 -> Entry], NEW i \in 0..1, Starts(i), Sound(d),
             d[i] = otadata[i], d[1 - i].state # "PENDING_VERIFY"
      PROVE  Sound([d EXCEPT ![i] = OnTrial(d[i])])
  <2>1. ROLLBACK_ENABLE /\ ota_select_valid(otadata[i])
    <3>1. ota_select_valid(AbortPending(otadata)[i])
      BY <1>b, <1>o, AbortPendingType, ActiveType DEF Starts
    <3> QED BY <1>b, <1>o, <3>1, AbortFacts DEF Starts
  <2>2. ~ota_select_invalid(d[i])
    BY <1>b, <2>1 DEF ota_select_valid
  <2> QED BY <1>b, <2>1, <2>2, StateChangeType, InPlaceSound
<1>1. CASE q = <<>>
  BY <1>1, NoWritesSound
<1>2. ASSUME NEW i \in 0..1, GivenUp(i), q = Rewrite(i, Aborted(otadata[i]))
      PROVE  SoundQueue(otadata, q)
  BY <1>2, <1>a DEF SoundQueue
<1>3. ASSUME NEW i \in 0..1, Starts(i), ~GivenUp(1 - i), q = Rewrite(i, OnTrial(otadata[i]))
      PROVE  SoundQueue(otadata, q)
  <2>1. otadata[1 - i].state # "PENDING_VERIFY"
    BY <1>3 DEF GivenUp, Starts
  <2>2. OnTrial(otadata[i]) \in Entry /\ Sound([otadata EXCEPT ![i] = OnTrial(otadata[i])])
    BY <1>3, <1>b, <1>o, <2>1, StateChangeType
  <2> QED BY <1>3, <2>2 DEF SoundQueue
<1>4. ASSUME NEW i \in 0..1, GivenUp(i), Starts(1 - i),
             q = Rewrite(i, Aborted(otadata[i])) \o Rewrite(1 - i, OnTrial(otadata[1 - i]))
      PROVE  SoundQueue(otadata, q)
  <2> DEFINE d == [otadata EXCEPT ![i] = Aborted(otadata[i])]
             f == OnTrial(otadata[1 - i])
  <2>1. 1 - i \in 0..1 /\ 1 - (1 - i) = i
    OBVIOUS
  <2>2. Aborted(otadata[i]) \in Entry /\ Sound(d) /\ Aborted(otadata[i]).state = "ABORTED"
    BY <1>4, <1>a, <1>o, StateChangeType
  <2>3. d \in [0..1 -> Entry] /\ d[1 - i] = otadata[1 - i] /\ d[i].state = "ABORTED"
    BY <1>o, <2>1, <2>2
  <2>4. f \in Entry
    BY <1>o, <2>1, StateChangeType
  <2>5. Sound([d EXCEPT ![1 - i] = f])
    <3> HIDE DEF d
    <3>1. d[1 - (1 - i)].state # "PENDING_VERIFY"
      BY <2>1, <2>3
    <3>2. Sound([d EXCEPT ![1 - i] = OnTrial(d[1 - i])])
      BY <1>4, <1>b, <2>1, <2>2, <2>3, <3>1
    <3> QED BY <2>3, <3>2
  <2>6. [d EXCEPT ![1 - i] = f] = [otadata EXCEPT ![i] = Aborted(otadata[i]), ![1 - i] = f]
    OBVIOUS
  <2> HIDE DEF f
  <2> QED BY <1>4, <2>2, <2>4, <2>5, <2>6 DEF SoundQueue, f
<1> QED BY <1>1, <1>2, <1>3, <1>4 DEF SelectionWrites

(* esp_rewrite_ota_data for a slot that is not the one selected: a new     *)
(* record that prevails, beside the active one if there is one.            *)
LEMMA RewriteOtaData ==
  ASSUME TypeOK, NEW p \in Slots, ~IsSelected(p), esp_rewrite_ota_data(p)
  PROVE  \E i \in 0..1, e \in Entry :
           /\ todo' = Rewrite(i, e) /\ SlotOf(e) = p /\ e.state \in {"NEW", "UNDEFINED"}
           /\ Prevails(i, e, otadata[1 - i])
           /\ \/ Active = 1 - i
              \/ Active = -1 /\ i = 0
<1>o. otadata \in [0..1 -> Entry]
  BY DEF TypeOK
<1>p. SUB_TYPE_ID(p) = p /\ p \in Nat /\ p < AppCount
  BY OtaAssumption DEF SUB_TYPE_ID, Slots, TEST_APP_INDEX
<1> DEFINE st == IF ROLLBACK_ENABLE THEN "NEW" ELSE "UNDEFINED"
           rec(s) == [seq |-> s, crcOk |-> TRUE, state |-> st]
<1>e. ASSUME NEW s \in 1 .. MaxSeq
      PROVE  /\ rec(s) \in Entry /\ ota_select_valid(rec(s)) /\ rec(s).seq = s
             /\ rec(s).state \in {"NEW", "UNDEFINED"} /\ SlotOf(rec(s)) = (s - 1) % AppCount
  BY OtaAssumption DEF Entry, ImgStates, UINT32_MAX, ota_select_valid,
     ota_select_invalid, SlotOf
<1>1. CASE Active = -1
  <2>1. p + 1 <= MaxSeq /\ todo' = Rewrite(0, rec(p + 1))
    BY <1>1, <1>p DEF esp_rewrite_ota_data
  <2>2. p + 1 \in 1 .. MaxSeq /\ (p + 1 - 1) % AppCount = p
    BY <1>p, <2>1, OtaAssumption
  <2>3. ~ota_select_valid(otadata[1])
    BY <1>1, <1>o, ActiveNone DEF Active
  <2> HIDE DEF rec
  <2>4. Prevails(0, rec(p + 1), otadata[1 - 0])
    BY <1>e, <2>2, <2>3 DEF Prevails
  <2>5. /\ rec(p + 1) \in Entry /\ SlotOf(rec(p + 1)) = p
        /\ rec(p + 1).state \in {"NEW", "UNDEFINED"} /\ 0 \in 0..1
    <3> DEFINE s == p + 1
    <3>1. s \in 1 .. MaxSeq /\ (s - 1) % AppCount = p
      BY <1>p, <2>2, OtaAssumption
    <3> HIDE DEF s
    <3>2. rec(s) \in Entry /\ SlotOf(rec(s)) = p /\ rec(s).state \in {"NEW", "UNDEFINED"}
      BY <1>e, <3>1
    <3> QED BY <3>2 DEF s
  <2> QED BY <1>1, <2>1, <2>4, <2>5
<1>2. CASE Active # -1
  <2> DEFINE k == Active
             s == NextSeq(otadata[k].seq, p)
  <2>1. k \in 0..1 /\ 1 - k \in 0..1 /\ 1 - (1 - k) = k
    BY <1>2, <1>o, ActiveType DEF Active
  <2>2. s <= MaxSeq /\ todo' = Rewrite(1 - k, rec(s))
    BY <1>2, <1>p DEF esp_rewrite_ota_data
  <2>3. otadata[k].seq \in Nat \ {0}
    BY <1>o, <2>1, OtaAssumption DEF Entry, UINT32_MAX
  <2>4. s \in Nat /\ s >= otadata[k].seq /\ (s - 1) % AppCount = p
    BY <1>p, <2>3, NextSeqBound, NextSeqSlot
  <2>5. s # otadata[k].seq
    <3>1. SlotOf(otadata[k]) # p
      BY <1>2 DEF IsSelected
    <3> QED BY <2>4, <3>1 DEF SlotOf
  <2> HIDE DEF k, s, rec
  <2>6. s \in 1 .. MaxSeq /\ s > otadata[k].seq
    BY <2>2, <2>3, <2>4, <2>5, OtaAssumption
  <2>7. Prevails(1 - k, rec(s), otadata[k])
    BY <1>e, <2>6 DEF Prevails
  <2>8. Active = 1 - (1 - k)
    BY <2>1 DEF k
  <2> QED BY <1>e, <2>1, <2>2, <2>4, <2>6, <2>7, <2>8
<1> QED BY <1>1, <1>2
(* StillInitial looks only at what the bootloader has before it. *)
LEMMA StillInitialStep ==
  ASSUME ~ANTI_ROLLBACK, Inv, Entries, [Next]_vars
  PROVE  StillInitial'
<1> SUFFICES ASSUME pc' \in {"gpio", "load"}, boot'.initial
             PROVE  /\ \A i \in 0..1 : IsInitial(otadata'[i])
                    /\ \A k \in 1 .. Len(todo') : todo'[k].op = "write_entry" => IsInitial(todo'[k].e)
  BY DEF StillInitial
<1>t. TypeOK /\ otadata \in [0..1 -> Entry] /\ todo \in Seq(Operations)
  BY DEF Inv, TypeOK
<1>1. CASE FlashStep
  <2>1. /\ pc' = pc /\ boot' = boot /\ todo' = Tail(todo) /\ todo # <<>> /\ Perform(Head(todo))
    BY <1>1 DEF FlashStep
  <2>2. /\ \A i \in 0..1 : IsInitial(otadata[i])
        /\ \A k \in 1 .. Len(todo) : todo[k].op = "write_entry" => IsInitial(todo[k].e)
    BY <2>1 DEF Entries, StillInitial
  <2>3. \A k \in 1 .. Len(todo') : todo'[k].op = "write_entry" => IsInitial(todo'[k].e)
    BY <1>t, <2>1, <2>2
  <2>4. Head(todo) \in Operations /\ Head(todo) = todo[1] /\ 1 \in 1 .. Len(todo)
    BY <1>t, <2>1
  <2>5. ASSUME NEW i \in 0..1, Head(todo) = EraseEntry(i)
        PROVE  \A j \in 0..1 : IsInitial(otadata'[j])
    <3>1. otadata' = [otadata EXCEPT ![i] = ErasedEntry]
      BY <2>1, <2>5, PerformEntry, ErasedEntryType
    <3>2. IsInitial(ErasedEntry)
      BY DEF IsInitial, ErasedEntry
    <3> QED BY <1>t, <2>2, <3>1, <3>2
  <2>6. ASSUME NEW i \in 0..1, NEW e \in Entry, Head(todo) = WriteEntry(i, e)
        PROVE  \A j \in 0..1 : IsInitial(otadata'[j])
    <3>1. otadata' = [otadata EXCEPT ![i] = e]
      BY <2>1, <2>6, PerformEntry
    <3>2. todo[1].op = "write_entry" /\ todo[1].e = e
      BY <2>4, <2>6 DEF WriteEntry
    <3>3. IsInitial(e)
      BY <2>2, <2>4, <3>2
    <3> QED BY <1>t, <2>2, <3>1, <3>3
  <2>7. ASSUME ~(\E i \in 0..1 : Head(todo) = EraseEntry(i)),
               ~(\E i \in 0..1, e \in Entry : Head(todo) = WriteEntry(i, e))
        PROVE  otadata' = otadata
    BY <2>1, <2>4, <2>7, OperationCases DEF Perform, EraseCell, WriteCell, Burn
  <2> QED BY <2>2, <2>3, <2>5, <2>6, <2>7
<1>2. CASE PowerLoss
  BY <1>2 DEF PowerLoss
<1>3. CASE GetSelectedBootPartition
  <2> DEFINE a == AbortPending(otadata)
  <2>1. otadata' = otadata /\ boot'.initial = Selection(a, flash, secver).initial
    BY <1>3 DEF GetSelectedBootPartition, device
  <2>2. IsInitial(a[0]) /\ IsInitial(a[1])
    BY <2>1 DEF Selection
  <2>3. ASSUME NEW i \in 0..1 PROVE IsInitial(otadata[i])
    <3>1. IsInitial(a[i])
      BY <2>2
    <3>2. a[i].seq = otadata[i].seq /\ a[i].crcOk = otadata[i].crcOk
      BY <1>t, AbortFacts
    <3> QED BY <3>1, <3>2 DEF IsInitial
  <2>4. ASSUME NEW i \in 0..1
        PROVE  IsInitial(Aborted(otadata[i])) /\ IsInitial(OnTrial(otadata[i]))
    BY <1>t, <2>3, StateChangeType DEF IsInitial
  <2>6. SelectionWrites(todo')
    BY <1>3, <1>t, SelectionQueue DEF Entries
  <2>8. ASSUME NEW k \in 1 .. Len(todo'), todo'[k].op = "write_entry"
        PROVE  IsInitial(todo'[k].e)
    <3>1. PICK i \in 0..1 : \/ todo'[k] = EraseEntry(i)
                            \/ todo'[k] = WriteEntry(i, Aborted(otadata[i]))
                            \/ todo'[k] = WriteEntry(i, OnTrial(otadata[i]))
      BY <1>t, <2>6, SelectionElements
    <3>2. todo'[k].e \in {Aborted(otadata[i]), OnTrial(otadata[i])}
      BY <2>8, <3>1 DEF EraseEntry, WriteEntry
    <3> QED BY <2>4, <3>2
  <2> QED BY <2>1, <2>3, <2>8
<1>4. CASE CheckPins
  <2>1. pc' = "load" /\ pc = "gpio" /\ todo' = todo /\ todo = <<>> /\ otadata' = otadata
        /\ boot'.initial = boot.initial
    <3>1. pc' = "load" /\ pc = "gpio" /\ todo' = todo /\ todo = <<>> /\ otadata' = otadata
          /\ (boot' = boot \/ boot' = [boot EXCEPT !.index = TEST_APP_INDEX])
      BY <1>4 DEF CheckPins, device
    <3> QED BY <3>1, <1>t DEF TypeOK
  <2> QED BY <2>1 DEF Entries, StillInitial
<1>5. CASE LoadBootImage
  BY <1>5 DEF LoadBootImage
<1>6. CASE AppNext
  BY <1>6 DEF AppNext, AppCalls, esp_ota_begin, esp_ota_write, esp_ota_end,
     esp_ota_set_boot_partition, esp_ota_mark_app_valid_cancel_rollback,
     esp_ota_mark_app_invalid_rollback_and_reboot, esp_ota_erase_last_boot_app_partition, Restart
<1>7. CASE UNCHANGED vars
  BY <1>7 DEF vars, Entries, StillInitial
<1> QED BY <1>1, <1>2, <1>3, <1>4, <1>5, <1>6, <1>7 DEF Next, BootNext
(* A queue without writes of entries. *)
LEMMA NoEntryWrites ==
  ASSUME NEW d, NEW q, \A k \in 1 .. Len(q) : q[k].op # "write_entry"
  PROVE  SoundQueue(d, q)
BY DEF SoundQueue

LEMMA EntriesStep ==
  ASSUME ~ANTI_ROLLBACK, ~HasTest, ~Reselect, Inv, Entries, [Next]_vars
  PROVE  Entries'
<1>i. StillInitial'
  BY StillInitialStep
<1>t. TypeOK /\ otadata \in [0..1 -> Entry] /\ Sound(otadata) /\ SoundQueue(otadata, todo)
  BY DEF Inv, TypeOK, Entries
<1> SUFFICES Sound(otadata') /\ SoundQueue(otadata', todo')
  BY <1>i DEF Entries
<1>s. ASSUME otadata' = otadata, SoundQueue(otadata, todo')
      PROVE  Sound(otadata') /\ SoundQueue(otadata', todo')
  BY <1>s, <1>t
<1>w. ASSUME NEW i \in 0..1, NEW e \in Entry, otadata' = otadata, todo' = Rewrite(i, e),
             Sound([otadata EXCEPT ![i] = e])
      PROVE  Sound(otadata') /\ SoundQueue(otadata', todo')
  BY <1>w, <1>s DEF SoundQueue
<1>a. Active # -1 => Active \in 0..1 /\ ota_select_valid(otadata[Active])
  BY <1>t, ActiveType DEF Active
<1>1. CASE FlashStep
  BY <1>1, <1>t, SoundStep
<1>2. CASE PowerLoss
  <2>1. todo' = <<>>
    BY <1>2 DEF PowerLoss
  <2>2. CASE UNCHANGED device
    BY <2>1, <2>2, <1>s, NoWritesSound DEF device
  <2>3. CASE todo # <<>> /\ Tear(Head(todo))
    BY <1>t, <2>1, <2>3, SoundTear, NoWritesSound
  <2> QED BY <1>2, <2>2, <2>3 DEF PowerLoss
<1>3. CASE GetSelectedBootPartition
  <2>1. otadata' = otadata
    BY <1>3 DEF GetSelectedBootPartition, device
  <2>2. SelectionWrites(todo')
    BY <1>3, <1>t, SelectionQueue
  <2> QED BY <1>s, <1>t, <2>1, <2>2, SelectionQueueSound
<1>4. CASE CheckPins
  <2>1. otadata' = otadata /\ todo' \in {<<>>, <<EraseEntry(0), EraseEntry(1)>>}
    BY <1>4 DEF CheckPins, device
  <2> QED BY <1>s, <2>1, NoWritesSound
<1>5. CASE LoadBootImage
  <2> DEFINE p == LoadIndex(boot.index, flash, secver)
             e == [seq |-> p + 1, state |-> "VALID", crcOk |-> TRUE]
  <2>1. otadata' = otadata /\ todo = <<>> /\ pc = "load"
    BY <1>5 DEF LoadBootImage, device
  <2>2. CASE p # NO_APP /\ p > FACTORY_INDEX /\ boot.initial
    <3>1. todo' = Rewrite(0, e) \o <<>>
      BY <1>5, <2>2 DEF LoadBootImage
    <3>2. boot.index \in Parts \cup {FACTORY_INDEX} /\ flash \in [Parts -> Image]
      BY <1>t DEF TypeOK
    <3>3. p \in Parts
      BY <2>2, <3>2, LoadIndexGood
    <3>4. e \in Entry /\ e.state # "PENDING_VERIFY"
      BY <2>2, <3>3, OtaAssumption
      DEF Parts, Slots, FACTORY_INDEX, TEST_APP_INDEX, Entry, UINT32_MAX, ImgStates
    <3>5. ~ota_select_valid(otadata[1])
      BY <2>1, <2>2 DEF Entries, StillInitial, IsInitial, ota_select_valid,
         ota_select_invalid
    <3> HIDE DEF p, e
    <3>6. todo' = Rewrite(0, e)
      <4>1. Rewrite(0, e) \in Seq(Operations)
        BY <3>4, RewriteType
      <4> QED BY <3>1, <4>1, EmptyConcat
    <3>7. Sound([otadata EXCEPT ![0] = e])
      BY <1>t, <3>4, <3>5, NewSound
    <3> QED BY <1>w, <2>1, <3>4, <3>6, <3>7
  <2>3. CASE ~(p # NO_APP /\ p > FACTORY_INDEX /\ boot.initial)
    <3>1. todo' = <<>>
      BY <1>5, <2>1, <2>3 DEF LoadBootImage
    <3> QED BY <1>s, <2>1, <3>1, NoWritesSound
  <2> QED BY <2>2, <2>3
<1>6. ASSUME NEW h \in Handles, NEW p \in Slots, NEW n \in 1 .. Chunks, esp_ota_begin(h, p, n)
      PROVE  Sound(otadata') /\ SoundQueue(otadata', todo')
  <2>1. otadata' = otadata /\ todo' = EraseCells(p, n)
    BY <1>6 DEF esp_ota_begin, device
  <2>2. \A k \in 1 .. Len(EraseCells(p, n)) : EraseCells(p, n)[k].op # "write_entry"
    BY OtaAssumption DEF EraseCells, EraseCell
  <2> QED BY <1>s, <2>1, <2>2, NoEntryWrites
<1>7. ASSUME NEW h \in Handles, NEW v \in Versions, esp_ota_write(h, v)
      PROVE  Sound(otadata') /\ SoundQueue(otadata', todo')
  <2> DEFINE x == WriteCell(ops[h].part, ops[h].pos + 1, v)
  <2>1. otadata' = otadata /\ todo' = <<x>>
    BY <1>7 DEF esp_ota_write, device
  <2>2. x.op # "write_entry"
    BY DEF WriteCell
  <2> HIDE DEF x
  <2>3. \A k \in 1 .. Len(todo') : todo'[k].op # "write_entry"
    BY <2>1, <2>2
  <2> QED BY <1>s, <2>1, <2>3, NoEntryWrites
<1>8. ASSUME NEW h \in Handles, esp_ota_end(h)
      PROVE  Sound(otadata') /\ SoundQueue(otadata', todo')
  BY <1>8, <1>s, <1>t DEF esp_ota_end, device
<1>9. ASSUME NEW p \in Parts, ~IsSelected(p), esp_ota_set_boot_partition(p)
      PROVE  Sound(otadata') /\ SoundQueue(otadata', todo')
  <2>1. otadata' = otadata
    BY <1>9 DEF esp_ota_set_boot_partition, device
  <2>2. CASE p = FACTORY_INDEX
    <3>1. todo' = <<EraseEntry(0), EraseEntry(1)>>
      BY <1>9, <2>2 DEF esp_ota_set_boot_partition
    <3> QED BY <1>s, <2>1, <3>1, NoWritesSound
  <2>3. CASE p # FACTORY_INDEX
    <3>1. p \in Slots /\ esp_rewrite_ota_data(p)
      BY <1>9, <2>3 DEF esp_ota_set_boot_partition, Parts
    <3>2. PICK i \in 0..1, e \in Entry :
            /\ todo' = Rewrite(i, e) /\ SlotOf(e) = p /\ e.state \in {"NEW", "UNDEFINED"}
            /\ Prevails(i, e, otadata[1 - i])
            /\ \/ Active = 1 - i
               \/ Active = -1 /\ i = 0
      BY <1>9, <1>t, <3>1, RewriteOtaData
    <3>3. SlotOf(e) # SlotOf(otadata[1 - i]) \/ (i = 0 /\ ~ota_select_valid(otadata[1]))
      <4>1. CASE Active = 1 - i
        BY <1>9, <3>2, <4>1 DEF IsSelected
      <4>2. CASE Active = -1 /\ i = 0
        BY <1>t, <4>2, ActiveNone DEF Active
      <4> QED BY <3>2, <4>1, <4>2
    <3>4. Sound([otadata EXCEPT ![i] = e])
      BY <1>t, <3>2, <3>3, NewSound
    <3> QED BY <1>w, <2>1, <3>2, <3>4
  <2> QED BY <2>2, <2>3
<1>10. CASE esp_ota_mark_app_valid_cancel_rollback
  <2> DEFINE e == [otadata[Active] EXCEPT !.state = "VALID"]
  <2>1. otadata' = otadata /\ todo' = Rewrite(Active, e) \o <<>> /\ Active # -1
    BY <1>10 DEF esp_ota_mark_app_valid_cancel_rollback, device
  <2>2. /\ e \in Entry /\ e.state = "VALID"
        /\ e.seq = otadata[Active].seq /\ e.crcOk = otadata[Active].crcOk
    BY <1>a, <1>t, <2>1 DEF Entry, ImgStates
  <2> HIDE DEF e
  <2>3. Sound([otadata EXCEPT ![Active] = e])
    BY <1>a, <1>t, <2>1, <2>2, InPlaceSound DEF ota_select_valid
  <2>4. todo' = Rewrite(Active, e)
    <3>1. Rewrite(Active, e) \in Seq(Operations)
      BY <1>a, <2>1, <2>2, RewriteType
    <3> QED BY <2>1, <3>1, EmptyConcat
  <2> QED BY <1>a, <1>w, <2>1, <2>2, <2>3, <2>4
<1>11. CASE esp_ota_mark_app_invalid_rollback_and_reboot
  <2> DEFINE e == [otadata[Active] EXCEPT !.state = "INVALID"]
  <2>1. otadata' = otadata /\ todo' = Rewrite(Active, e) /\ Active # -1
    BY <1>11 DEF esp_ota_mark_app_invalid_rollback_and_reboot, device
  <2>2. /\ e \in Entry /\ e.state = "INVALID"
        /\ e.seq = otadata[Active].seq /\ e.crcOk = otadata[Active].crcOk
    BY <1>a, <1>t, <2>1 DEF Entry, ImgStates
  <2> HIDE DEF e
  <2>3. Sound([otadata EXCEPT ![Active] = e])
    BY <1>a, <1>t, <2>1, <2>2, InPlaceSound DEF ota_select_valid
  <2> QED BY <1>a, <1>w, <2>1, <2>2, <2>3
<1>12. CASE esp_ota_erase_last_boot_app_partition
  <2> DEFINE erase == EraseCells(SlotOf(otadata[1 - Active]), Chunks)
             x == EraseEntry(1 - Active)
  <2>1. otadata' = otadata /\ todo' = Append(erase, x) /\ Active # -1
    BY <1>12 DEF esp_ota_erase_last_boot_app_partition, device
  <2>2. 1 - Active \in 0..1
    BY <1>a, <2>1
  <2>3. erase \in Seq(Operations)
    BY <1>t, <2>2, SlotOfType, EraseCellsType, OtaAssumption DEF Parts
  <2>4. \A k \in 1 .. Len(erase) : erase[k].op # "write_entry"
    BY OtaAssumption DEF EraseCells, EraseCell
  <2>5. x.op # "write_entry"
    BY DEF EraseEntry
  <2> HIDE DEF erase, x
  <2>6. \A k \in 1 .. Len(todo') : todo'[k].op # "write_entry"
    BY <2>1, <2>3, <2>4, <2>5
  <2> QED BY <1>s, <2>1, <2>6, NoEntryWrites
<1>13. CASE Restart
  BY <1>13, <1>s, <1>t DEF Restart, device
<1>14. CASE UNCHANGED vars
  BY <1>14, <1>t DEF vars
<1> QED
  BY <1>1, <1>2, <1>3, <1>4, <1>5, <1>6, <1>7, <1>8, <1>9, <1>10, <1>11, <1>12, <1>13,
     <1>14
  DEF Next, BootNext, AppNext
----------------------------------------------------------------------------
(* The calls keep what they promise *)

(* The record gets written, and the images are left alone. *)
LEMMA RecordingStep ==
  ASSUME TypeOK, FlashStep, NEW p, NEW st, Recording(p, st)
  PROVE  Recording(p, st)' /\ flash' = flash
<1>t. otadata \in [0..1 -> Entry] /\ todo # <<>> /\ Perform(Head(todo)) /\ todo' = Tail(todo)
  BY DEF TypeOK, FlashStep
<1>1. PICK i \in 0..1, e \in Entry :
        /\ Prevails(i, e, otadata[1 - i]) /\ SlotOf(e) = p /\ e.state \in st
        /\ todo \in {Rewrite(i, e), <<WriteEntry(i, e)>>}
  BY <1>t DEF Recording
<1>i. 1 - i \in 0..1 /\ 1 - i # i
  OBVIOUS
<1>2. CASE todo = Rewrite(i, e)
  <2>1. Head(todo) = EraseEntry(i) /\ todo' = <<WriteEntry(i, e)>>
    BY <1>2, <1>t, RewriteShape
  <2>2. otadata' = [otadata EXCEPT ![i] = ErasedEntry] /\ flash' = flash
    BY <1>t, <2>1, PerformEntry
  <2>3. otadata'[1 - i] = otadata[1 - i]
    BY <1>i, <1>t, <2>2
  <2>4. Recording(p, st)'
    BY <1>1, <2>1, <2>3 DEF Recording
  <2> QED BY <2>2, <2>4
<1>3. CASE todo = <<WriteEntry(i, e)>>
  <2>1. Head(todo) = WriteEntry(i, e) /\ todo' = <<>>
    BY <1>3, <1>t
  <2>2. otadata' = [otadata EXCEPT ![i] = e] /\ flash' = flash
    BY <1>t, <2>1, PerformEntry
  <2>3. otadata'[1 - i] = otadata[1 - i] /\ otadata'[i] = e
    BY <1>i, <1>t, <2>2
  <2>4. Recording(p, st)'
    BY <1>1, <2>1, <2>3 DEF Recording
  <2> QED BY <2>2, <2>4
<1> QED BY <1>1, <1>2, <1>3

LEMMA ErasingStep ==
  ASSUME TypeOK, FlashStep, Erasing
  PROVE  Erasing' /\ flash' = flash
<1>t. otadata \in [0..1 -> Entry] /\ todo # <<>> /\ Perform(Head(todo)) /\ todo' = Tail(todo)
  BY DEF TypeOK, FlashStep
<1>1. CASE todo = <<EraseEntry(0), EraseEntry(1)>>
  <2>1. Head(todo) = EraseEntry(0) /\ todo' = <<EraseEntry(1)>>
    BY <1>1, <1>t
  <2>2. otadata' = [otadata EXCEPT ![0] = ErasedEntry] /\ flash' = flash
    BY <1>t, <2>1, PerformEntry, ErasedEntryType
  <2>3. otadata'[0] = ErasedEntry
    BY <1>t, <2>2
  <2> QED BY <2>1, <2>2, <2>3 DEF Erasing
<1>2. CASE otadata[0] = ErasedEntry /\ todo = <<EraseEntry(1)>>
  <2>1. Head(todo) = EraseEntry(1) /\ todo' = <<>>
    BY <1>2, <1>t
  <2>2. otadata' = [otadata EXCEPT ![1] = ErasedEntry] /\ flash' = flash
    BY <1>t, <2>1, PerformEntry, ErasedEntryType
  <2> QED BY <1>2, <1>t, <2>1, <2>2 DEF Erasing
<1> QED BY <1>1, <1>2, <1>t DEF Erasing

LEMMA SelectedStep ==
  ASSUME ~ANTI_ROLLBACK, ~HasTest, ~Reselect, ~ConfirmOther, Inv, Selected, [Next]_vars
  PROVE  Selected'
<1>t. TypeOK /\ otadata \in [0..1 -> Entry]
  BY DEF Inv, TypeOK
<1>n. ASSUME call' = NoCall PROVE Selected'
  BY <1>n DEF Selected, NoCall
<1>r. ASSUME pc' # "run" PROVE Selected'
  BY <1>r DEF Selected
<1>1. CASE FlashStep
  <2>1. pc' = pc /\ call' = call /\ running' = running
    BY <1>1 DEF FlashStep
  <2>2. CASE pc = "run" /\ call.fn = "set_boot" /\ call.part = FACTORY_INDEX
    <3>1. Erasing' /\ flash' = flash
      BY <1>1, <1>t, <2>2, ErasingStep DEF Selected
    <3> QED BY <2>1, <2>2, <3>1 DEF Selected
  <2>3. CASE pc = "run" /\ call.fn = "set_boot" /\ call.part # FACTORY_INDEX
    <3>1. Recording(call.part, {"NEW", "UNDEFINED"})
      BY <2>3 DEF Selected
    <3> DEFINE p == call.part
    <3>2. p' = p
      BY <2>1
    <3>3. Recording(p, {"NEW", "UNDEFINED"})' /\ flash' = flash
      BY <1>1, <1>t, <3>1, <3>2, RecordingStep DEF Recording
    <3> QED BY <2>1, <2>3, <3>3 DEF Selected
  <2>4. CASE pc = "run" /\ call.fn = "mark_valid"
    <3>1. Recording(running, {"VALID"}) /\ call.part = running
      BY <2>4 DEF Selected
    <3> DEFINE p == running
    <3>2. p' = p
      BY <2>1
    <3>3. Recording(p, {"VALID"})' /\ flash' = flash
      BY <1>1, <1>t, <3>1, <3>2, RecordingStep DEF Recording
    <3> QED BY <2>1, <2>4, <3>1, <3>3 DEF Selected
  <2>5. CASE pc # "run" \/ call.fn \notin {"set_boot", "mark_valid"}
    BY <2>1, <2>5 DEF Selected
  <2> QED BY <2>2, <2>3, <2>4, <2>5
<1>2. CASE PowerLoss
  BY <1>2, <1>r DEF PowerLoss
<1>3. CASE GetSelectedBootPartition
  BY <1>3, <1>r DEF GetSelectedBootPartition
<1>4. CASE CheckPins
  BY <1>4, <1>r DEF CheckPins
<1>5. CASE LoadBootImage
  BY <1>5, <1>r, <1>n DEF LoadBootImage
<1>6. ASSUME NEW h \in Handles, NEW p \in Slots, NEW n \in 1 .. Chunks, esp_ota_begin(h, p, n)
      PROVE  Selected'
  BY <1>6, <1>n DEF esp_ota_begin
<1>7. ASSUME NEW h \in Handles, NEW v \in Versions, esp_ota_write(h, v)
      PROVE  Selected'
  BY <1>7, <1>n DEF esp_ota_write
<1>8. ASSUME NEW h \in Handles, esp_ota_end(h)
      PROVE  Selected'
  BY <1>8, <1>n DEF esp_ota_end
<1>9. ASSUME NEW p \in Parts, ~IsSelected(p), esp_ota_set_boot_partition(p)
      PROVE  Selected'
  <2>1. /\ call'.fn = "set_boot" /\ call'.part = p /\ otadata' = otadata /\ flash' = flash
        /\ Verifies(flash[p])
    BY <1>9 DEF esp_ota_set_boot_partition, device
  <2>2. CASE p = FACTORY_INDEX
    <3>1. todo' = <<EraseEntry(0), EraseEntry(1)>>
      BY <1>9, <2>2 DEF esp_ota_set_boot_partition
    <3>2. Erasing'
      BY <3>1 DEF Erasing
    <3> QED BY <2>1, <2>2, <3>2 DEF Selected
  <2>3. CASE p # FACTORY_INDEX
    <3>1. p \in Slots /\ esp_rewrite_ota_data(p)
      BY <1>9, <2>3 DEF esp_ota_set_boot_partition, Parts
    <3>2. PICK i \in 0..1, e \in Entry :
            /\ todo' = Rewrite(i, e) /\ SlotOf(e) = p /\ e.state \in {"NEW", "UNDEFINED"}
            /\ Prevails(i, e, otadata[1 - i])
      BY <1>9, <1>t, <3>1, RewriteOtaData
    <3>3. Recording(p, {"NEW", "UNDEFINED"})'
      BY <2>1, <3>2 DEF Recording
    <3>4. Recording(call.part, {"NEW", "UNDEFINED"})'
      BY <2>1, <3>3 DEF Recording
    <3> QED BY <2>1, <2>3, <3>4 DEF Selected
  <2> QED BY <2>2, <2>3
<1>10. CASE IsSelected(running) /\ esp_ota_mark_app_valid_cancel_rollback
  <2> DEFINE e == [otadata[Active] EXCEPT !.state = "VALID"]
  <2>1. /\ otadata' = otadata /\ todo' = Rewrite(Active, e) \o <<>> /\ Active # -1
        /\ call'.fn = "mark_valid" /\ call'.part = running /\ running' = running
    BY <1>10 DEF esp_ota_mark_app_valid_cancel_rollback, device
  <2>a. Active \in 0..1
    BY <1>t, <2>1, ActiveType DEF Active
  <2>2. /\ e \in Entry /\ e.state = "VALID"
        /\ e.seq = otadata[Active].seq /\ e.crcOk = otadata[Active].crcOk
    BY <1>t, <2>a DEF Entry, ImgStates
  <2> HIDE DEF e
  <2>3. todo' = Rewrite(Active, e)
    <3>1. Rewrite(Active, e) \in Seq(Operations)
      BY <2>a, <2>2, RewriteType
    <3> QED BY <2>1, <3>1, EmptyConcat
  <2>4. Prevails(Active, e, otadata[1 - Active])
    <3>1. ota_select_valid(otadata[Active])
          /\ (ota_select_valid(otadata[1 - Active])
                => \/ otadata[Active].seq > otadata[1 - Active].seq
                   \/ otadata[Active].seq = otadata[1 - Active].seq /\ Active = 0)
      BY <1>t, <2>a, ActivePrevails DEF Active
    <3> QED BY <2>2, <3>1 DEF Prevails, ota_select_valid, ota_select_invalid
  <2>5. SlotOf(e) = running
    BY <1>10, <2>2 DEF IsSelected, SlotOf
  <2>6. Recording(running, {"VALID"})'
    <3>1. \E j \in 0..1 : /\ Prevails(j, e, otadata'[1 - j]) /\ todo' = Rewrite(j, e)
      BY <2>1, <2>3, <2>4, <2>a
    <3> QED BY <2>1, <2>2, <2>5, <3>1 DEF Recording
  <2> QED BY <2>1, <2>6 DEF Selected
<1>11. CASE esp_ota_mark_app_invalid_rollback_and_reboot
  BY <1>11, <1>r DEF esp_ota_mark_app_invalid_rollback_and_reboot
<1>12. CASE esp_ota_erase_last_boot_app_partition
  BY <1>12, <1>n DEF esp_ota_erase_last_boot_app_partition
<1>13. CASE Restart
  BY <1>13, <1>r DEF Restart
<1>14. CASE UNCHANGED vars
  BY <1>14 DEF vars, Selected, Recording, Erasing
<1> QED
  BY <1>1, <1>2, <1>3, <1>4, <1>5, <1>6, <1>7, <1>8, <1>9, <1>10, <1>11, <1>12, <1>13,
     <1>14
  DEF Next, BootNext, AppNext
(* After an app declared itself invalid nothing leads back to it. *)
LEMMA RolledBackStep ==
  ASSUME ~ANTI_ROLLBACK, ~ConfirmOther, BootInv, Entries, Selected, RolledBack, [Next]_vars
  PROVE  RolledBack'
<1>t. TypeOK /\ otadata \in [0..1 -> Entry] /\ todo \in Seq(Operations)
  BY DEF BootInv, Inv, TypeOK
<1>n. ASSUME call'.fn # "mark_invalid" PROVE RolledBack'
  BY <1>n DEF RolledBack
<1>c. NoCall.fn # "mark_invalid"
  BY DEF NoCall
<1>q. call.fn = "mark_invalid" => todo \in Seq(EntryOps)
  BY DEF Selected, BootInv, Inv, Control, BootloaderQueue
(* A step that leaves the entries, the images and the call alone. *)
<1>s. ASSUME call' = call, otadata' = otadata, flash' = flash, todo = <<>>,
             \A k \in 1 .. Len(todo') :
               todo'[k].op = "write_entry" => LeadsElsewhere(todo'[k].e, call.part)
      PROVE  RolledBack'
  BY <1>s DEF RolledBack, LeadsElsewhere
<1>e. \A k \in 1 .. Len(<<>>) : <<>>[k].op = "write_entry" => LeadsElsewhere(<<>>[k].e, call.part)
  OBVIOUS
<1>1. CASE FlashStep
  <2> SUFFICES ASSUME call.fn = "mark_invalid"
               PROVE  RolledBack'
    BY <1>1, <1>n DEF FlashStep
  <2>1. call' = call /\ todo' = Tail(todo) /\ todo # <<>> /\ Perform(Head(todo))
    BY <1>1 DEF FlashStep
  <2>2. Head(todo) \in EntryOps /\ Head(todo) = todo[1] /\ 1 \in 1 .. Len(todo)
    BY <1>q, <2>1
  <2>3. flash' = flash
    BY <2>1, <2>2, EntryOpsKeepFlash
  <2>4. \A k \in 1 .. Len(todo') :
          todo'[k].op = "write_entry" => LeadsElsewhere(todo'[k].e, call.part)
    BY <1>t, <2>1 DEF RolledBack
  <2>5. \A i \in 0..1 : LeadsElsewhere(otadata'[i], call.part)
    <3>1. ASSUME NEW i \in 0..1, Head(todo) = EraseEntry(i), NEW j \in 0..1
          PROVE  LeadsElsewhere(otadata'[j], call.part)
      <4>1. otadata' = [otadata EXCEPT ![i] = ErasedEntry]
        BY <2>1, <3>1, PerformEntry, ErasedEntryType
      <4>2. CASE j = i
        BY <1>t, <4>1, <4>2, ErasedEntryType DEF LeadsElsewhere, ota_select_valid
      <4>3. CASE j # i
        <5>1. Head(todo) # EraseEntry(j)
          BY <3>1, <4>3 DEF EraseEntry
        <5> QED BY <1>t, <4>1, <4>3, <5>1 DEF RolledBack
      <4> QED BY <4>2, <4>3
    <3>2. ASSUME NEW i \in 0..1, NEW e \in Entry, Head(todo) = WriteEntry(i, e), NEW j \in 0..1
          PROVE  LeadsElsewhere(otadata'[j], call.part)
      <4>1. otadata' = [otadata EXCEPT ![i] = e]
        BY <2>1, <3>2, PerformEntry
      <4>2. CASE j = i
        <5>1. todo[1].op = "write_entry" /\ todo[1].e = e
          BY <2>2, <3>2 DEF WriteEntry
        <5> QED BY <1>t, <2>2, <4>1, <4>2, <5>1 DEF RolledBack
      <4>3. CASE j # i
        <5>1. Head(todo) # EraseEntry(j)
          BY <3>2 DEF EraseEntry, WriteEntry
        <5> QED BY <1>t, <4>1, <4>3, <5>1 DEF RolledBack
      <4> QED BY <4>2, <4>3
    <3> QED BY <2>2, <3>1, <3>2 DEF EntryOps
  <2> QED BY <2>1, <2>3, <2>4, <2>5 DEF RolledBack, LeadsElsewhere
<1>2. CASE PowerLoss
  <2>1. CASE call.fn = "mark_invalid" /\ todo # <<>>
    BY <1>2, <1>c, <1>n, <2>1 DEF PowerLoss
  <2>2. CASE call.fn = "mark_invalid" /\ todo = <<>>
    <3>1. call' = call /\ otadata' = otadata /\ flash' = flash /\ todo' = <<>>
      BY <1>2, <2>2 DEF PowerLoss, device
    <3> QED BY <1>e, <1>s, <2>2, <3>1
  <2>3. CASE call.fn # "mark_invalid"
    BY <1>2, <1>n, <2>3 DEF PowerLoss
  <2> QED BY <2>1, <2>2, <2>3
<1>3. CASE GetSelectedBootPartition
  <2> SUFFICES ASSUME call.fn = "mark_invalid"
               PROVE  RolledBack'
    BY <1>3, <1>n DEF GetSelectedBootPartition
  <2>1. call' = call /\ otadata' = otadata /\ flash' = flash /\ todo = <<>>
    BY <1>3 DEF GetSelectedBootPartition, device
  <2>2. SelectionWrites(todo')
    BY <1>3, <1>t, SelectionQueue DEF Entries
  <2>3. \A i \in 0..1 : LeadsElsewhere(otadata[i], call.part)
    BY <2>1 DEF RolledBack
  <2>4. ASSUME NEW i \in 0..1 PROVE LeadsElsewhere(Aborted(otadata[i]), call.part)
    BY <1>t, StateChangeType DEF LeadsElsewhere, ota_select_valid, ota_select_invalid
  <2>5. ASSUME NEW i \in 0..1, Starts(i) PROVE LeadsElsewhere(OnTrial(otadata[i]), call.part)
    <3>1. ota_select_valid(AbortPending(otadata)[i])
      BY <1>t, <2>5, AbortPendingType, ActiveType DEF Starts
    <3>2. ota_select_valid(otadata[i])
      BY <1>t, <3>1, AbortFacts
    <3> QED BY <1>t, <2>3, <3>2, StateChangeType DEF LeadsElsewhere
  <2>6. ASSUME NEW k \in 1 .. Len(todo'), todo'[k].op = "write_entry"
        PROVE  LeadsElsewhere(todo'[k].e, call.part)
    <3>1. PICK i \in 0..1 : \/ todo'[k] = EraseEntry(i)
                            \/ todo'[k] = WriteEntry(i, Aborted(otadata[i]))
                            \/ Starts(i) /\ todo'[k] = WriteEntry(i, OnTrial(otadata[i]))
      BY <1>t, <2>2, SelectionElements
    <3>2. \/ todo'[k].e = Aborted(otadata[i])
          \/ Starts(i) /\ todo'[k].e = OnTrial(otadata[i])
      BY <2>6, <3>1 DEF EraseEntry, WriteEntry
    <3> QED BY <2>4, <2>5, <3>2
  <2> QED BY <1>s, <2>1, <2>6
<1>4. CASE CheckPins
  <2>1. /\ call' = call /\ otadata' = otadata /\ flash' = flash /\ todo = <<>>
        /\ todo' \in {<<>>, <<EraseEntry(0), EraseEntry(1)>>}
    BY <1>4 DEF CheckPins, device
  <2>2. \A k \in 1 .. Len(todo') : todo'[k].op # "write_entry"
    BY <2>1 DEF EraseEntry
  <2> QED BY <1>s, <2>1, <2>2
<1>5. CASE LoadBootImage
  <2>1. CASE call' = NoCall
    BY <1>c, <1>n, <2>1
  <2>2. CASE call' # NoCall
    <3>1. call' = call /\ otadata' = otadata /\ flash' = flash /\ todo = <<>> /\ todo' = todo
      BY <1>5, <2>2 DEF LoadBootImage, device
    <3> QED BY <1>e, <1>s, <3>1
  <2> QED BY <2>1, <2>2
<1>6. ASSUME NEW h \in Handles, NEW p \in Slots, NEW n \in 1 .. Chunks, esp_ota_begin(h, p, n)
      PROVE  RolledBack'
  BY <1>6, <1>c, <1>n DEF esp_ota_begin
<1>7. ASSUME NEW h \in Handles, NEW v \in Versions, esp_ota_write(h, v)
      PROVE  RolledBack'
  BY <1>7, <1>c, <1>n DEF esp_ota_write
<1>8. ASSUME NEW h \in Handles, esp_ota_end(h)
      PROVE  RolledBack'
  BY <1>8, <1>c, <1>n DEF esp_ota_end
<1>9. ASSUME NEW p \in Parts, esp_ota_set_boot_partition(p)
      PROVE  RolledBack'
  BY <1>9, <1>c, <1>n DEF esp_ota_set_boot_partition
<1>10. CASE esp_ota_mark_app_valid_cancel_rollback
  BY <1>10, <1>n DEF esp_ota_mark_app_valid_cancel_rollback
<1>11. CASE IsSelected(running) /\ esp_ota_mark_app_invalid_rollback_and_reboot
  <2> DEFINE k == Active
             e == [otadata[k] EXCEPT !.state = "INVALID"]
  <2>1. /\ otadata' = otadata /\ flash' = flash /\ todo' = Rewrite(k, e) /\ k # -1
        /\ call'.part = running
        /\ esp_ota_check_rollback_is_possible(otadata, flash, secver)
    BY <1>11 DEF esp_ota_mark_app_invalid_rollback_and_reboot, device
  <2>2. k \in 0..1 /\ ota_select_valid(otadata[k]) /\ SlotOf(otadata[k]) = running
    BY <1>11, <1>t, <2>1, ActiveType DEF Active, IsSelected
  <2>3. e \in Entry /\ e.state = "INVALID"
    BY <1>t, <2>2 DEF Entry, ImgStates
  <2>4. running \in Slots
    BY <1>t, <2>2, SlotOfType
  <2>5. LeadsElsewhere(e, running)
    BY <2>3 DEF LeadsElsewhere, ota_select_valid, ota_select_invalid
  <2>6. ASSUME ota_select_valid(otadata[1 - k])
        PROVE  SlotOf(otadata[1 - k]) # running /\ Verifies(flash[SlotOf(otadata[1 - k])])
    <3>1. Verifies(flash[SlotOf(otadata[1 - k])])
      BY <2>1, <2>6 DEF esp_ota_check_rollback_is_possible, Active, Bootable
    <3>2. SlotOf(otadata[1 - k]) # running
      BY <2>2, <2>6 DEF Entries, Sound, Coexist, ota_select_valid
    <3> QED BY <3>1, <3>2
  <2> HIDE DEF k, e
  <2>7. Head(todo') = EraseEntry(k) /\ todo' # <<>>
    BY <2>1, <2>2, <2>3, RewriteShape DEF Rewrite
  <2>8. \A j \in 1 .. Len(todo') :
          todo'[j].op = "write_entry" => LeadsElsewhere(todo'[j].e, running)
    <3>1. \A j \in 1 .. Len(todo') : todo'[j] \in {EraseEntry(k), WriteEntry(k, e)}
      BY <2>1, <2>2, <2>3, RewriteElements
    <3> QED BY <2>5, <3>1 DEF EraseEntry, WriteEntry
  <2>9. \A j \in 0..1 : j = k \/ LeadsElsewhere(otadata[j], running)
    BY <2>2, <2>6 DEF LeadsElsewhere
  <2> QED BY <2>1, <2>4, <2>7, <2>8, <2>9 DEF RolledBack, LeadsElsewhere
<1>12. CASE esp_ota_erase_last_boot_app_partition
  BY <1>12, <1>c, <1>n DEF esp_ota_erase_last_boot_app_partition
<1>13. CASE Restart
  BY <1>13, <1>n DEF Restart, AppCalls, Selected
<1>14. CASE UNCHANGED vars
  BY <1>14 DEF vars, RolledBack, LeadsElsewhere
<1> QED
  BY <1>1, <1>2, <1>3, <1>4, <1>5, <1>6, <1>7, <1>8, <1>9, <1>10, <1>11, <1>12, <1>13,
     <1>14
  DEF Next, BootNext, AppNext
----------------------------------------------------------------------------
(* Power loss during a switch *)

(* Entry x in sector i would be chosen over y in the other one. *)
Beats(i, x, y) == ota_select_valid(x) /\ (x.seq > y.seq \/ (x.seq = y.seq /\ i = 0))

Touches(x, i) == x.op \in {"erase_entry", "write_entry"} /\ x.i = i

(* The new record goes to sector i; the other one holds what was selected  *)
(* before, is not on trial and is left alone.                              *)
Challenged(i) ==
  LET y == otadata[1 - i]
  IN /\ ota_select_valid(y) /\ y.state \notin {"NEW", "PENDING_VERIFY"}
     /\ call.old = LoadIndex(SlotOf(y), flash, secver)
     /\ Beats(i, otadata[i], y) => SlotOf(otadata[i]) = call.part
     /\ \A k \in 1 .. Len(todo) :
          /\ ~Touches(todo[k], 1 - i)
          /\ todo[k].op = "write_entry" /\ Beats(i, todo[k].e, y) => SlotOf(todo[k].e) = call.part

(* Nothing was selected before. *)
Unchallenged ==
  /\ call.old = LoadIndex(FACTORY_INDEX, flash, secver)
  /\ \A i \in 0..1 : ota_select_valid(otadata[i]) => SlotOf(otadata[i]) = call.part
  /\ \A k \in 1 .. Len(todo) :
       todo[k].op = "write_entry" /\ ota_select_valid(todo[k].e) => SlotOf(todo[k].e) = call.part

(* esp_ota_set_boot_partition has begun to replace the selection; until an *)
(* app runs, whatever the bootloader reads or writes is the old one or the *)
(* new one.                                                                *)
Switching ==
  call.fn = "set_boot" /\ call.part \in Slots /\ ~call.trial =>
    /\ Verifies(flash[call.part])
    /\ (\E i \in 0..1 : Challenged(i)) \/ Unchallenged
    /\ pc \in {"gpio", "load"} => LoadIndex(boot.index, flash, secver) \in {call.old, call.part}

LEMMA EntryOpsKeepRest ==
  ASSUME NEW x \in EntryOps, Perform(x) \/ Tear(x)
  PROVE  flash' = flash /\ secver' = secver
BY DEF EntryOps, EraseEntry, WriteEntry, Perform, Tear

(* Executing an operation on otadata, completely or not. *)
LEMMA EntryOpEffect ==
  ASSUME TypeOK, NEW x \in EntryOps, Perform(x) \/ Tear(x)
  PROVE  /\ otadata' \in [0..1 -> Entry]
         /\ \A j \in 0..1 : ~Touches(x, j) => otadata'[j] = otadata[j]
         /\ \A j \in 0..1 : Touches(x, j) =>
              \/ ~otadata'[j].crcOk
              \/ x.op = "write_entry" /\ otadata'[j] = x.e
<1>o. otadata \in [0..1 -> Entry]
  BY DEF TypeOK
<1>1. ASSUME NEW i \in 0..1, x = EraseEntry(i)
      PROVE  \E y \in Entry : ~y.crcOk /\ otadata' = [otadata EXCEPT ![i] = y]
  <2>1. CASE Perform(x)
    BY <1>1, <2>1, PerformEntry, ErasedEntryType
  <2>2. CASE Tear(x)
    <3> DEFINE y == [otadata[i] EXCEPT !.crcOk = FALSE]
    <3>1. Tear(EraseEntry(i))
      BY <1>1, <2>2
    <3>2. otadata' = [otadata EXCEPT ![i].crcOk = FALSE]
      BY <3>1, TearEntry, ErasedEntryType
    <3>3. otadata' = [otadata EXCEPT ![i] = y]
      BY <1>o, <3>2
    <3>4. y \in Entry /\ ~y.crcOk
      BY <1>o DEF Entry
    <3> QED BY <3>3, <3>4
  <2> QED BY <2>1, <2>2
<1>2. ASSUME NEW i \in 0..1, NEW e \in Entry, x = WriteEntry(i, e)
      PROVE  \E y \in Entry : (~y.crcOk \/ y = e) /\ otadata' = [otadata EXCEPT ![i] = y]
  <2>1. CASE Perform(x)
    BY <1>2, <2>1, PerformEntry
  <2>2. CASE Tear(x)
    <3>1. Tear(WriteEntry(i, e))
      BY <1>2, <2>2
    <3>2. PICK s \in {e.state, "UNDEFINED"} :
            otadata' = [otadata EXCEPT ![i] = [e EXCEPT !.state = s, !.crcOk = FALSE]]
      BY <3>1, TearEntry, Zenon
    <3> DEFINE y == [e EXCEPT !.state = s, !.crcOk = FALSE]
    <3>3. y \in Entry /\ ~y.crcOk
      BY DEF Entry, ImgStates
    <3> HIDE DEF y
    <3> QED BY <3>2, <3>3 DEF y
  <2> QED BY <2>1, <2>2
<1>3. CASE \E i \in 0..1 : x = EraseEntry(i)
  <2>1. PICK i \in 0..1 : x = EraseEntry(i)
    BY <1>3
  <2>2. PICK y \in Entry : ~y.crcOk /\ otadata' = [otadata EXCEPT ![i] = y]
    BY <1>1, <2>1
  <2>3. \A j \in 0..1 : Touches(x, j) <=> j = i
    BY <2>1 DEF Touches, EraseEntry
  <2> QED BY <1>o, <2>2, <2>3
<1>4. CASE \E i \in 0..1, e \in Entry : x = WriteEntry(i, e)
  <2>1. PICK i \in 0..1, e \in Entry : x = WriteEntry(i, e)
    BY <1>4
  <2>2. PICK y \in Entry : (~y.crcOk \/ y = e) /\ otadata' = [otadata EXCEPT ![i] = y]
    BY <1>2, <2>1
  <2>3. \A j \in 0..1 : Touches(x, j) <=> j = i
    BY <2>1 DEF Touches, WriteEntry
  <2>4. x.op = "write_entry" /\ x.e = e
    BY <2>1 DEF WriteEntry
  <2> QED BY <1>o, <2>2, <2>3, <2>4
<1> QED BY <1>3, <1>4 DEF EntryOps

(* From the partition selected when there is no factory app, the search    *)
(* goes on as from the factory app.                                        *)
LEMMA FirstSlotOrder ==
  ASSUME ~HasFactory, NEW fl, NEW sv
  PROVE  LoadIndex(0, fl, sv) = LoadIndex(FACTORY_INDEX, fl, sv)
<1> DEFINE good == Loadable(fl, sv)
           Best(s, p) == \A q \in good : TryRank(s, p) <= TryRank(s, q)
<1>1. \A q \in good : q \in Int /\ q >= 0
  BY OtaAssumption DEF Loadable, Parts, Slots, TEST_APP_INDEX
<1>2. \A p \in good : Best(0, p) <=> Best(FACTORY_INDEX, p)
  BY <1>1 DEF TryRank, FACTORY_INDEX
<1> DEFINE first   == CHOOSE p \in good : Best(0, p)
           factory == CHOOSE p \in good : Best(FACTORY_INDEX, p)
           rest    == IF HasTest /\ Verifies(fl[TEST_APP_INDEX]) THEN TEST_APP_INDEX ELSE NO_APP
<1>3. first = factory
  BY <1>2
<1>4. 0 # TEST_APP_INDEX /\ FACTORY_INDEX # TEST_APP_INDEX
  BY DEF FACTORY_INDEX, TEST_APP_INDEX
<1>5. LoadIndex(0, fl, sv) = IF good # {} THEN first ELSE rest
  BY <1>4 DEF LoadIndex
<1>6. LoadIndex(FACTORY_INDEX, fl, sv) = IF good # {} THEN factory ELSE rest
  BY <1>4 DEF LoadIndex
<1> HIDE DEF good, first, factory, rest
<1> QED BY <1>3, <1>5, <1>6

(* An intact image in a slot is what boots when the slot is selected. *)
LEMMA SlotLoads ==
  ASSUME ~ANTI_ROLLBACK, NEW fl, NEW sv, NEW p \in Slots, Verifies(fl[p])
  PROVE  LoadIndex(p, fl, sv) = p
<1>1. p \in Parts \ {TEST_APP_INDEX}
  BY OtaAssumption DEF Parts, Slots, TEST_APP_INDEX
<1>2. p \in Loadable(fl, sv)
  BY <1>1, VerifiesLoadable
<1> QED BY <1>2, LoadsSelected

(* Without a valid entry the search starts at the default app. *)
LEMMA DefaultLoads ==
  ASSUME ~ANTI_ROLLBACK, NEW a \in [0..1 -> Entry], NEW fl, NEW sv,
         get_active_otadata(a) = -1
  PROVE  LoadIndex(Selection(a, fl, sv).index, fl, sv) = LoadIndex(FACTORY_INDEX, fl, sv)
BY SelectionIs, FirstSlotOrder
(* An operation of the switch, or of the bootloader after it, executed     *)
(* completely or not.                                                      *)
LEMMA SwitchingOp ==
  ASSUME TypeOK, todo # <<>>, Head(todo) \in EntryOps, Perform(Head(todo)) \/ Tear(Head(todo)),
         call' = call, todo' \in {Tail(todo), <<>>},
         (\E i \in 0..1 : Challenged(i)) \/ Unchallenged
  PROVE  ((\E i \in 0..1 : Challenged(i)) \/ Unchallenged)'
<1> DEFINE x == Head(todo)
<1>t. otadata \in [0..1 -> Entry] /\ todo \in Seq(Operations)
  BY DEF TypeOK
<1>1. flash' = flash /\ secver' = secver
  BY EntryOpsKeepRest
<1>2. /\ otadata' \in [0..1 -> Entry]
      /\ \A j \in 0..1 : ~Touches(x, j) => otadata'[j] = otadata[j]
      /\ \A j \in 0..1 : Touches(x, j) => \/ ~otadata'[j].crcOk
                                          \/ x.op = "write_entry" /\ otadata'[j] = x.e
  BY EntryOpEffect
<1>3. x = todo[1] /\ 1 \in 1 .. Len(todo)
  BY <1>t
<1>4. \A k \in 1 .. Len(todo') : \E j \in 1 .. Len(todo) : todo'[k] = todo[j]
  <2>1. CASE todo' = Tail(todo)
    <3>1. \A k \in 1 .. Len(todo') : k + 1 \in 1 .. Len(todo) /\ todo'[k] = todo[k + 1]
      BY <1>t, <2>1
    <3> QED BY <3>1
  <2>2. CASE todo' = <<>>
    BY <2>2
  <2> QED BY <2>1, <2>2
<1> HIDE DEF x
<1>5. ASSUME NEW i \in 0..1, Challenged(i) PROVE Challenged(i)'
  <2> DEFINE y == otadata[1 - i]
  <2>0. 1 - i \in 0..1
    OBVIOUS
  <2>1. otadata'[1 - i] = y
    BY <1>2, <1>3, <1>5, <2>0 DEF Challenged
  <2>2. Beats(i, otadata'[i], y) => SlotOf(otadata'[i]) = call.part
    <3>1. CASE ~Touches(x, i)
      BY <1>2, <1>5, <3>1 DEF Challenged
    <3>2. CASE Touches(x, i)
      BY <1>2, <1>3, <1>5, <3>2 DEF Challenged, Beats, ota_select_valid
    <3> QED BY <3>1, <3>2
  <2>3. \A k \in 1 .. Len(todo') :
          /\ ~Touches(todo'[k], 1 - i)
          /\ todo'[k].op = "write_entry" /\ Beats(i, todo'[k].e, y)
               => SlotOf(todo'[k].e) = call.part
    BY <1>4, <1>5 DEF Challenged
  <2>4. /\ ota_select_valid(y) /\ y.state \notin {"NEW", "PENDING_VERIFY"}
        /\ call.old = LoadIndex(SlotOf(y), flash, secver)
    BY <1>5 DEF Challenged
  <2> HIDE DEF y
  <2> QED BY <1>1, <2>1, <2>2, <2>3, <2>4 DEF Challenged
<1>6. ASSUME Unchallenged PROVE Unchallenged'
  <2>1. ASSUME NEW i \in 0..1, ota_select_valid(otadata'[i])
        PROVE  SlotOf(otadata'[i]) = call.part
    <3>1. CASE ~Touches(x, i)
      BY <1>2, <1>6, <2>1, <3>1 DEF Unchallenged
    <3>2. CASE Touches(x, i)
      BY <1>2, <1>3, <1>6, <2>1, <3>2 DEF Unchallenged, ota_select_valid
    <3> QED BY <3>1, <3>2
  <2>2. \A k \in 1 .. Len(todo') :
          todo'[k].op = "write_entry" /\ ota_select_valid(todo'[k].e)
            => SlotOf(todo'[k].e) = call.part
    BY <1>4, <1>6 DEF Unchallenged
  <2>3. call.old = LoadIndex(FACTORY_INDEX, flash, secver)
    BY <1>6 DEF Unchallenged
  <2> QED BY <1>1, <2>1, <2>2, <2>3 DEF Unchallenged
<1> QED BY <1>5, <1>6

(* What the bootloader selects during a switch. *)
LEMMA SwitchSelects ==
  ASSUME ~ANTI_ROLLBACK, TypeOK, call.part \in Slots, Verifies(flash[call.part]),
         (\E i \in 0..1 : Challenged(i)) \/ Unchallenged
  PROVE  LoadIndex(Selection(AbortPending(otadata), flash, secver).index, flash, secver)
           \in {call.old, call.part}
<1> DEFINE a == AbortPending(otadata)
           idx == Selection(a, flash, secver).index
           k == get_active_otadata(a)
<1>t. otadata \in [0..1 -> Entry] /\ a \in [0..1 -> Entry]
  BY AbortPendingType DEF TypeOK
<1>p. LoadIndex(call.part, flash, secver) = call.part
  BY SlotLoads
<1>1. ASSUME NEW i \in 0..1, Challenged(i)
      PROVE  LoadIndex(idx, flash, secver) \in {call.old, call.part}
  <2> DEFINE y == otadata[1 - i]
  <2>0. 1 - i \in 0..1 /\ 1 - (1 - i) = i
    OBVIOUS
  <2>1. a[1 - i] = y /\ ota_select_valid(y) /\ call.old = LoadIndex(SlotOf(y), flash, secver)
    BY <1>1, <1>t, <2>0, AbortFacts DEF Challenged
  <2>2. /\ a[i].seq = otadata[i].seq /\ SlotOf(a[i]) = SlotOf(otadata[i])
        /\ (ota_select_valid(a[i]) => ota_select_valid(otadata[i]))
    BY <1>t, AbortFacts
  <2>3. y.seq \in Int /\ a[i].seq \in Int
    BY <1>t, <2>0, OtaAssumption DEF Entry, UINT32_MAX
  <2>4. CASE Beats(i, a[i], y)
    <3>1. k = i
      BY <1>t, <2>1, <2>4, ActiveIs DEF Beats
    <3>2. SlotOf(a[i]) = call.part
      BY <1>1, <2>2, <2>4 DEF Challenged, Beats
    <3>3. idx = call.part
      BY <1>t, <3>1, <3>2, SelectionIs
    <3> QED BY <1>p, <3>3
  <2>5. CASE ~Beats(i, a[i], y)
    <3>1. ota_select_valid(a[i]) => y.seq > a[i].seq \/ (y.seq = a[i].seq /\ 1 - i = 0)
      BY <2>3, <2>5 DEF Beats
    <3>2. k = 1 - i
      <4> HIDE DEF a, y
      <4>1. ota_select_valid(a[1 - i]) /\ (ota_select_valid(a[1 - (1 - i)]) =>
              a[1 - i].seq > a[1 - (1 - i)].seq \/ (a[1 - i].seq = a[1 - (1 - i)].seq /\ 1 - i = 0))
        BY <2>0, <2>1, <3>1
      <4> QED BY <1>t, <2>0, <4>1, ActiveIs
    <3>3. idx = SlotOf(y)
      BY <1>t, <2>0, <2>1, <3>2, SelectionIs
    <3> QED BY <2>1, <3>3
  <2> QED BY <2>4, <2>5
<1>2. ASSUME Unchallenged
      PROVE  LoadIndex(idx, flash, secver) \in {call.old, call.part}
  <2>1. k \in {-1, 0, 1} /\ (k # -1 => ota_select_valid(a[k]))
    BY <1>t, ActiveType
  <2>2. CASE k = -1
    <3>1. LoadIndex(idx, flash, secver) = LoadIndex(FACTORY_INDEX, flash, secver)
      BY <1>t, <2>2, DefaultLoads
    <3> QED BY <1>2, <3>1 DEF Unchallenged
  <2>3. CASE k # -1
    <3>1. k \in 0..1 /\ ota_select_valid(otadata[k]) /\ SlotOf(a[k]) = SlotOf(otadata[k])
      <4>1. k \in 0..1 /\ ota_select_valid(a[k])
        BY <2>1, <2>3
      <4> HIDE DEF k
      <4> QED BY <1>t, <4>1, AbortFacts
    <3>2. SlotOf(a[k]) = call.part
      BY <1>2, <3>1 DEF Unchallenged
    <3>3. idx = call.part
      BY <1>t, <2>3, <3>2, SelectionIs
    <3> QED BY <1>p, <3>3
  <2> QED BY <2>2, <2>3
<1> QED BY <1>1, <1>2
LEMMA SwitchingStep ==
  ASSUME ~ANTI_ROLLBACK, ~HasTest, ~Reselect, ~(FACTORY_RESET /\ OTA_DATA_ERASE),
         BootInv, Entries, Selected, Switching, [Next]_vars
  PROVE  Switching'
<1> DEFINE on == call.fn = "set_boot" /\ call.part \in Slots /\ ~call.trial
           fixed == (\E i \in 0..1 : Challenged(i)) \/ Unchallenged
<1>t. TypeOK /\ otadata \in [0..1 -> Entry] /\ todo \in Seq(Operations)
  BY DEF BootInv, Inv, TypeOK
<1>n. ASSUME call'.fn # "set_boot" PROVE Switching'
  BY <1>n DEF Switching
<1>c. NoCall.fn # "set_boot"
  BY DEF NoCall
<1>q. ASSUME on PROVE todo \in Seq(EntryOps)
  <2>1. CASE pc = "run"
    <3>1. Recording(call.part, {"NEW", "UNDEFINED"})
      BY <1>q, <2>1, OtaAssumption DEF Selected, Slots, FACTORY_INDEX
    <3>2. PICK i \in 0..1, e \in Entry :
            todo \in {Rewrite(i, e), <<WriteEntry(i, e)>>} \/ todo = <<>>
      BY <3>1 DEF Recording
    <3>3. WriteEntry(i, e) \in EntryOps
      BY DEF EntryOps
    <3>4. Rewrite(i, e) \in Seq(EntryOps) /\ <<WriteEntry(i, e)>> \in Seq(EntryOps)
          /\ <<>> \in Seq(EntryOps)
      BY <3>3, RewriteEntryOps
    <3> QED BY <3>2, <3>4, Zenon
  <2>2. CASE pc # "run"
    BY <2>2 DEF BootInv, Inv, Control, BootloaderQueue
  <2> QED BY <2>1, <2>2
(* A step that leaves device, queue and call alone, and does not select. *)
<1>s. ASSUME UNCHANGED <<otadata, flash, secver, call>>, todo = <<>>, todo' = <<>>,
             pc' \in {"gpio", "load"} => pc \in {"gpio", "load"} /\ boot' = boot
      PROVE  Switching'
  <2>1. ASSUME fixed PROVE fixed'
    BY <1>s, <2>1 DEF Challenged, Unchallenged
  <2> QED BY <1>s, <2>1 DEF Switching
<1>1. CASE FlashStep
  <2> SUFFICES ASSUME on
               PROVE  Switching'
    BY <1>1 DEF FlashStep, Switching
  <2>1. /\ call' = call /\ todo' = Tail(todo) /\ todo # <<>> /\ Perform(Head(todo))
        /\ pc' = pc /\ boot' = boot
    BY <1>1 DEF FlashStep
  <2>2. Head(todo) \in EntryOps
    BY <1>q, <2>1
  <2>3. flash' = flash /\ secver' = secver
    BY <2>1, <2>2, EntryOpsKeepRest
  <2>4. fixed'
    BY <1>t, <2>1, <2>2, SwitchingOp DEF Switching
  <2> QED BY <2>1, <2>3, <2>4 DEF Switching
<1>2. CASE PowerLoss
  <2>0. call' \in {call, NoCall} /\ pc' = "reset" /\ todo' = <<>>
    BY <1>2 DEF PowerLoss
  <2> SUFFICES ASSUME on, call' = call
               PROVE  Switching'
    BY <1>c, <1>n, <2>0 DEF Switching
  <2>1. CASE todo # <<>> /\ Tear(Head(todo))
    <3>1. Head(todo) \in EntryOps
      BY <1>q, <2>1
    <3>2. flash' = flash /\ secver' = secver
      BY <2>1, <3>1, EntryOpsKeepRest
    <3>3. fixed'
      BY <1>t, <2>0, <2>1, <3>1, SwitchingOp DEF Switching
    <3> QED BY <2>0, <3>2, <3>3 DEF Switching
  <2>2. CASE UNCHANGED device
    <3>1. UNCHANGED <<otadata, flash, secver, call>>
      BY <2>2 DEF device
    <3>2. ASSUME fixed PROVE fixed'
      BY <2>0, <3>1, <3>2 DEF Challenged, Unchallenged
    <3> QED BY <2>0, <3>1, <3>2 DEF Switching
  <2> QED BY <1>2, <2>1, <2>2 DEF PowerLoss
<1>3. CASE GetSelectedBootPartition
  <2> SUFFICES ASSUME on
               PROVE  Switching'
    BY <1>3 DEF GetSelectedBootPartition, Switching
  <2>1. /\ UNCHANGED <<otadata, flash, secver, call>> /\ todo = <<>>
        /\ boot'.index = Selection(AbortPending(otadata), flash, secver).index
    BY <1>3 DEF GetSelectedBootPartition, device
  <2>2. SelectionWrites(todo')
    BY <1>3, <1>t, SelectionQueue DEF Entries
  <2>3. fixed /\ Verifies(flash[call.part])
    BY DEF Switching
  <2>4. LoadIndex(boot'.index, flash, secver) \in {call.old, call.part}
    BY <1>t, <2>1, <2>3, SwitchSelects
  <2>e. ASSUME NEW k \in 1 .. Len(todo')
        PROVE  \E j \in 0..1 :
                 /\ GivenUp(j) \/ Starts(j)
                 /\ \A m \in 0..1 : Touches(todo'[k], m) => m = j
                 /\ todo'[k].op = "write_entry" =>
                      \/ todo'[k].e = Aborted(otadata[j])
                      \/ Starts(j) /\ todo'[k].e = OnTrial(otadata[j])
    <3>1. PICK j \in 0..1 :
            \/ (GivenUp(j) \/ Starts(j)) /\ todo'[k] = EraseEntry(j)
            \/ GivenUp(j) /\ todo'[k] = WriteEntry(j, Aborted(otadata[j]))
            \/ Starts(j) /\ todo'[k] = WriteEntry(j, OnTrial(otadata[j]))
      BY <1>t, <2>2, SelectionElements
    <3>2. \A m \in 0..1 : Touches(todo'[k], m) => m = j
      BY <3>1 DEF Touches, EraseEntry, WriteEntry
    <3>3. todo'[k].op = "write_entry" =>
            \/ todo'[k].e = Aborted(otadata[j])
            \/ Starts(j) /\ todo'[k].e = OnTrial(otadata[j])
      BY <3>1 DEF EraseEntry, WriteEntry
    <3> QED BY <3>1, <3>2, <3>3
  <2>a. \A j \in 0..1 : ~ota_select_valid(Aborted(otadata[j]))
    BY <1>t, StateChangeType DEF ota_select_valid, ota_select_invalid
  <2>b. \A j \in 0..1 : Starts(j) =>
          /\ ota_select_valid(otadata[j]) /\ OnTrial(otadata[j]).seq = otadata[j].seq
          /\ SlotOf(OnTrial(otadata[j])) = SlotOf(otadata[j])
    <3> SUFFICES ASSUME NEW j \in 0..1, Starts(j)
                 PROVE  /\ ota_select_valid(otadata[j]) /\ OnTrial(otadata[j]).seq = otadata[j].seq
                        /\ SlotOf(OnTrial(otadata[j])) = SlotOf(otadata[j])
      OBVIOUS
    <3>1. ota_select_valid(AbortPending(otadata)[j])
      BY <1>t, AbortPendingType, ActiveType DEF Starts
    <3>2. ota_select_valid(otadata[j])
      BY <1>t, <3>1, AbortFacts
    <3> QED BY <1>t, <3>2, StateChangeType
  <2>5. ASSUME NEW i \in 0..1, Challenged(i) PROVE Challenged(i)'
    <3> DEFINE y == otadata[1 - i]
    <3>0. 1 - i \in 0..1 /\ y.state \notin {"NEW", "PENDING_VERIFY"}
      BY <2>5 DEF Challenged
    <3>1. ~GivenUp(1 - i) /\ ~Starts(1 - i)
      BY <3>0 DEF GivenUp, Starts
    <3>2. ASSUME NEW k \in 1 .. Len(todo')
          PROVE  /\ ~Touches(todo'[k], 1 - i)
                 /\ todo'[k].op = "write_entry" /\ Beats(i, todo'[k].e, y)
                      => SlotOf(todo'[k].e) = call.part
      <4>1. PICK j \in 0..1 :
                 /\ GivenUp(j) \/ Starts(j)
                 /\ \A m \in 0..1 : Touches(todo'[k], m) => m = j
                 /\ todo'[k].op = "write_entry" =>
                      \/ todo'[k].e = Aborted(otadata[j])
                      \/ Starts(j) /\ todo'[k].e = OnTrial(otadata[j])
        BY <2>e
      <4>2. j = i
        BY <3>0, <3>1, <4>1
      <4>3. ~Touches(todo'[k], 1 - i)
        BY <3>0, <4>1, <4>2
      <4>4. ASSUME todo'[k].op = "write_entry", Beats(i, todo'[k].e, y)
            PROVE  SlotOf(todo'[k].e) = call.part
        <5>1. Starts(i) /\ todo'[k].e = OnTrial(otadata[i])
          BY <2>a, <4>1, <4>2, <4>4 DEF Beats
        <5>2. Beats(i, otadata[i], y)
          BY <2>b, <4>4, <5>1 DEF Beats
        <5> QED BY <2>5, <2>b, <5>1, <5>2 DEF Challenged
      <4> QED BY <4>3, <4>4
    <3> HIDE DEF y
    <3>3. otadata'[1 - i] = y
      BY <2>1 DEF y
    <3>4. /\ ota_select_valid(y) /\ call.old = LoadIndex(SlotOf(y), flash, secver)
          /\ Beats(i, otadata[i], y) => SlotOf(otadata[i]) = call.part
      BY <2>5 DEF Challenged, y
    <3> QED BY <2>1, <3>0, <3>2, <3>3, <3>4 DEF Challenged
  <2>6. ASSUME Unchallenged PROVE Unchallenged'
    <3>1. ASSUME NEW k \in 1 .. Len(todo'), todo'[k].op = "write_entry",
                 ota_select_valid(todo'[k].e)
          PROVE  SlotOf(todo'[k].e) = call.part
      <4>1. PICK j \in 0..1 : \/ todo'[k].e = Aborted(otadata[j])
                              \/ Starts(j) /\ todo'[k].e = OnTrial(otadata[j])
        BY <2>e, <3>1
      <4> QED BY <2>6, <2>a, <2>b, <3>1, <4>1 DEF Unchallenged
    <3> QED BY <2>1, <2>6, <3>1 DEF Unchallenged
  <2> QED BY <2>1, <2>3, <2>4, <2>5, <2>6 DEF Switching
<1>4. CASE CheckPins
  <2>1. /\ UNCHANGED <<otadata, flash, secver, call>> /\ todo = <<>> /\ todo' = <<>>
        /\ pc = "gpio" /\ (pc' \in {"gpio", "load"} => boot' = boot)
    BY <1>4 DEF CheckPins, device
  <2> QED BY <1>s, <2>1
<1>5. CASE LoadBootImage
  <2>1. CASE call' = NoCall
    BY <1>c, <1>n, <2>1
  <2>2. CASE call' # NoCall
    <3>1. UNCHANGED <<otadata, flash, secver, call>> /\ todo = <<>> /\ todo' = <<>> /\ pc' = "reset"
      BY <1>5, <2>2 DEF LoadBootImage, device
    <3> QED BY <1>s, <3>1
  <2> QED BY <2>1, <2>2
<1>6. ASSUME NEW h \in Handles, NEW p \in Slots, NEW n \in 1 .. Chunks, esp_ota_begin(h, p, n)
      PROVE  Switching'
  BY <1>6, <1>c, <1>n DEF esp_ota_begin
<1>7. ASSUME NEW h \in Handles, NEW v \in Versions, esp_ota_write(h, v)
      PROVE  Switching'
  BY <1>7, <1>c, <1>n DEF esp_ota_write
<1>8. ASSUME NEW h \in Handles, esp_ota_end(h)
      PROVE  Switching'
  BY <1>8, <1>c, <1>n DEF esp_ota_end
<1>9. ASSUME NEW p \in Parts, ~IsSelected(p), esp_ota_set_boot_partition(p)
      PROVE  Switching'
  <2>1. /\ call'.part = p /\ UNCHANGED <<otadata, flash, secver>> /\ pc' = "run"
        /\ Verifies(flash[p]) /\ call'.old = BootTarget(otadata, flash, secver)
        /\ call'.trial = (Active # -1 /\ otadata[Active].state \in {"NEW", "PENDING_VERIFY"})
    BY <1>9 DEF esp_ota_set_boot_partition, device, AppCalls
  <2> SUFFICES ASSUME p \in Slots, ~(Active # -1 /\ otadata[Active].state \in {"NEW", "PENDING_VERIFY"})
               PROVE  fixed'
    BY <2>1 DEF Switching
  <2>2. esp_rewrite_ota_data(p)
    BY <1>9, OtaAssumption DEF esp_ota_set_boot_partition, Slots, FACTORY_INDEX
  <2>3. PICK i \in 0..1, e \in Entry :
            /\ todo' = Rewrite(i, e) /\ SlotOf(e) = p
            /\ \/ Active = 1 - i
               \/ Active = -1 /\ i = 0
      BY <1>9, <1>t, <2>2, RewriteOtaData
  <2>4. \A k \in 1 .. Len(todo') : todo'[k] \in {EraseEntry(i), WriteEntry(i, e)}
    BY <2>3, RewriteElements
  <2>5. \A k \in 1 .. Len(todo') : /\ \A m \in 0..1 : Touches(todo'[k], m) => m = i
                                   /\ todo'[k].op = "write_entry" => todo'[k].e = e
    BY <2>4 DEF Touches, EraseEntry, WriteEntry
  <2>a. AbortPending(otadata) \in [0..1 -> Entry]
    BY <1>t, AbortPendingType
  <2>6. CASE Active = 1 - i
    <3> DEFINE y == otadata[1 - i]
               a == AbortPending(otadata)
    <3>0. 1 - i \in 0..1 /\ 1 - i # i /\ 1 - (1 - i) = i /\ 1 - i # -1
      OBVIOUS
    <3>1. y.state \notin {"NEW", "PENDING_VERIFY"}
      BY <2>6, <3>0
    <3>2. /\ ota_select_valid(y)
          /\ ota_select_valid(otadata[i]) => y.seq > otadata[i].seq \/ (y.seq = otadata[i].seq /\ i = 1)
      BY <1>t, <2>6, <3>0, ActivePrevails DEF Active
    <3>3. a[1 - i] = y /\ a[i].seq = otadata[i].seq
          /\ (ota_select_valid(a[i]) => ota_select_valid(otadata[i]))
      BY <1>t, <3>0, <3>1, AbortFacts
    <3>4. get_active_otadata(a) = 1 - i
      <4>1. ota_select_valid(a[1 - i]) /\ (ota_select_valid(a[1 - (1 - i)]) =>
              a[1 - i].seq > a[1 - (1 - i)].seq \/ (a[1 - i].seq = a[1 - (1 - i)].seq /\ 1 - i = 0))
        <5> HIDE DEF a, y
        <5> QED BY <3>0, <3>2, <3>3
      <4> HIDE DEF a, y
      <4> QED BY <2>a, <3>0, <4>1, ActiveIs DEF a
    <3>5. Selection(a, flash, secver).index = SlotOf(y)
      BY <2>a, <3>0, <3>3, <3>4, SelectionIs
    <3>6. call'.old = LoadIndex(SlotOf(y), flash, secver)
      BY <2>1, <3>5, BootTargetIs
    <3>7. ~Beats(i, otadata[i], y)
      <4>1. y.seq \in Int /\ otadata[i].seq \in Int
        BY <1>t, <3>0, OtaAssumption DEF Entry, UINT32_MAX
      <4> QED BY <3>2, <4>1 DEF Beats
    <3>8. \A k \in 1 .. Len(todo') :
            /\ ~Touches(todo'[k], 1 - i)
            /\ todo'[k].op = "write_entry" => SlotOf(todo'[k].e) = p
      BY <2>3, <2>5, <3>0
    <3> HIDE DEF y
    <3>9. otadata'[1 - i] = y /\ otadata'[i] = otadata[i]
      BY <2>1 DEF y
    <3>10. Challenged(i)'
      BY <2>1, <3>1, <3>2, <3>6, <3>7, <3>8, <3>9 DEF Challenged
    <3> QED BY <3>10
  <2>7. CASE Active = -1 /\ i = 0
    <3>1. \A j \in 0..1 : ~ota_select_valid(otadata[j])
      BY <1>t, <2>7, ActiveNone DEF Active
    <3>2. \A j \in 0..1 : ~ota_select_valid(AbortPending(otadata)[j])
      BY <1>t, <3>1, AbortFacts
    <3>3. get_active_otadata(AbortPending(otadata)) = -1
      BY <2>a, <3>2, ActiveNone
    <3>4. call'.old = LoadIndex(FACTORY_INDEX, flash, secver)
      BY <2>1, <2>a, <3>3, BootTargetIs, DefaultLoads
    <3>5. \A k \in 1 .. Len(todo') : todo'[k].op = "write_entry" => SlotOf(todo'[k].e) = p
      BY <2>3, <2>5
    <3>6. Unchallenged'
      BY <2>1, <3>1, <3>4, <3>5 DEF Unchallenged
    <3> QED BY <3>6
  <2> QED BY <2>3, <2>6, <2>7
<1>10. CASE esp_ota_mark_app_valid_cancel_rollback
  BY <1>10, <1>n DEF esp_ota_mark_app_valid_cancel_rollback
<1>11. CASE esp_ota_mark_app_invalid_rollback_and_reboot
  BY <1>11, <1>n DEF esp_ota_mark_app_invalid_rollback_and_reboot
<1>12. CASE esp_ota_erase_last_boot_app_partition
  BY <1>12, <1>c, <1>n DEF esp_ota_erase_last_boot_app_partition
<1>13. CASE Restart
  <2>1. UNCHANGED <<otadata, flash, secver, call>> /\ todo = <<>> /\ todo' = <<>> /\ pc' = "reset"
    BY <1>13 DEF Restart, AppCalls, device
  <2> QED BY <1>s, <2>1
<1>14. CASE UNCHANGED vars
  BY <1>14 DEF vars, Switching, Challenged, Unchallenged
<1> QED
  BY <1>1, <1>2, <1>3, <1>4, <1>5, <1>6, <1>7, <1>8, <1>9, <1>10, <1>11, <1>12, <1>13,
     <1>14
  DEF Next, BootNext, AppNext
----------------------------------------------------------------------------
(* The first boot of a new app *)

(* The queue ends by writing e to sector i. *)
EndsWith(q, i, e) ==
  \/ q \in {Rewrite(i, e), <<WriteEntry(i, e)>>}
  \/ \E f \in Entry :
       q \in {Rewrite(1 - i, f) \o Rewrite(i, e), <<WriteEntry(1 - i, f)>> \o Rewrite(i, e)}

Untouched(i) == \A k \in 1 .. Len(todo) : ~Touches(todo[k], i)

(* An entry that was NEW when the bootloader was entered is still so, or   *)
(* is the one that the bootloader goes on to start.                        *)
Settled(i) ==
  \/ (otadata[i].state = "NEW" \/ SlotOf(otadata[i]) = boot.index) /\ Untouched(i)
  \/ \E e \in Entry : SlotOf(e) = boot.index /\ EndsWith(todo, i, e)

(* No boot ends otherwise than in an app or by power loss. *)
Trials ==
  /\ pc # "reselect"
  /\ pc \in {"reset", "run"} => fresh = {}
  /\ pc \in {"gpio", "load"} => \A i \in fresh : Settled(i)

LEMMA SettledOp ==
  ASSUME TypeOK, NEW i \in 0..1, Settled(i), FlashStep, todo \in Seq(EntryOps)
  PROVE  Settled(i)'
<1>t. /\ otadata \in [0..1 -> Entry] /\ todo # <<>> /\ Perform(Head(todo))
      /\ todo' = Tail(todo) /\ boot' = boot /\ Head(todo) \in EntryOps
  BY DEF TypeOK, FlashStep
<1>1. CASE (otadata[i].state = "NEW" \/ SlotOf(otadata[i]) = boot.index) /\ Untouched(i)
  <2>1. Head(todo) = todo[1] /\ 1 \in 1 .. Len(todo)
    BY <1>t
  <2>2. ~Touches(Head(todo), i)
    BY <1>1, <2>1 DEF Untouched
  <2>3. otadata'[i] = otadata[i]
    BY <1>t, <2>2, EntryOpEffect
  <2>4. \A k \in 1 .. Len(Tail(todo)) : k + 1 \in 1 .. Len(todo) /\ Tail(todo)[k] = todo[k + 1]
    BY <1>t
  <2>5. Untouched(i)'
    BY <1>1, <1>t, <2>4 DEF Untouched
  <2> QED BY <1>1, <1>t, <2>3, <2>5 DEF Settled
<1>2. CASE \E e \in Entry : SlotOf(e) = boot.index /\ EndsWith(todo, i, e)
  <2>1. PICK e \in Entry : SlotOf(e) = boot.index /\ EndsWith(todo, i, e)
    BY <1>2
  <2>0. 1 - i \in 0..1 /\ 1 - (1 - i) = i
    OBVIOUS
  <2>2. CASE todo = Rewrite(i, e)
    <3>1. todo' = <<WriteEntry(i, e)>>
      BY <1>t, <2>2, RewriteShape
    <3> QED BY <1>t, <2>1, <3>1 DEF Settled, EndsWith
  <2>3. CASE todo = <<WriteEntry(i, e)>>
    <3>1. Head(todo) = WriteEntry(i, e) /\ todo' = <<>>
      BY <1>t, <2>3
    <3>2. otadata' = [otadata EXCEPT ![i] = e]
      BY <1>t, <3>1, PerformEntry
    <3>3. otadata'[i] = e
      BY <1>t, <3>2
    <3>4. Untouched(i)'
      BY <3>1 DEF Untouched
    <3> QED BY <1>t, <2>1, <3>3, <3>4 DEF Settled
  <2>4. ASSUME NEW f \in Entry, todo = Rewrite(1 - i, f) \o Rewrite(i, e)
        PROVE  Settled(i)'
    <3>1. todo' = <<WriteEntry(1 - i, f)>> \o Rewrite(i, e)
      <4>1. Tail(Rewrite(1 - i, f) \o Rewrite(1 - (1 - i), e))
              = <<WriteEntry(1 - i, f)>> \o Rewrite(1 - (1 - i), e)
        BY <2>0, RewriteShape
      <4> QED BY <1>t, <2>0, <2>4, <4>1
    <3> QED BY <1>t, <2>1, <3>1 DEF Settled, EndsWith
  <2>5. ASSUME NEW f \in Entry, todo = <<WriteEntry(1 - i, f)>> \o Rewrite(i, e)
        PROVE  Settled(i)'
    <3>1. todo' = Rewrite(i, e)
      <4>1. Tail(<<WriteEntry(1 - i, f)>> \o Rewrite(1 - (1 - i), e)) = Rewrite(1 - (1 - i), e)
        BY <2>0, RewriteShape
      <4> QED BY <1>t, <2>0, <2>5, <4>1
    <3> QED BY <1>t, <2>1, <3>1 DEF Settled, EndsWith
  <2> QED BY <2>1, <2>2, <2>3, <2>4, <2>5 DEF EndsWith
<1> QED BY <1>1, <1>2 DEF Settled

LEMMA TrialsStep ==
  ASSUME ~ANTI_ROLLBACK, ~HasTest, ~FACTORY_RESET, ~APP_TEST,
         BootInv, Entries, Trials, [Next]_vars
  PROVE  Trials'
<1>t. TypeOK /\ otadata \in [0..1 -> Entry] /\ fresh \subseteq 0..1
  BY DEF BootInv, Inv, TypeOK
<1>r. ASSUME pc' \in {"reset", "run"}, fresh' = {} PROVE Trials'
  BY <1>r DEF Trials
<1>1. CASE FlashStep
  <2>1. pc' = pc /\ fresh' = fresh
    BY <1>1 DEF FlashStep
  <2>2. pc \in {"gpio", "load"} => todo \in Seq(EntryOps)
    BY DEF BootInv, Inv, Control, BootloaderQueue
  <2> QED BY <1>1, <1>t, <2>1, <2>2, SettledOp DEF Trials
<1>2. CASE PowerLoss
  BY <1>2, <1>r DEF PowerLoss
<1>3. CASE GetSelectedBootPartition
  <2> DEFINE a == AbortPending(otadata)
  <2>1. pc = "reset" /\ pc' = "gpio" /\ otadata' = otadata
        /\ fresh' = {i \in 0..1 : otadata[i].state = "NEW"}
        /\ boot'.index = Selection(a, flash, secver).index
    BY <1>3 DEF GetSelectedBootPartition, device, Trials
  <2>2. SelectionWrites(todo')
    BY <1>3, <1>t, SelectionQueue DEF Entries
  <2> SUFFICES ASSUME NEW i \in 0..1, otadata[i].state = "NEW"
               PROVE  Settled(i)'
    BY <2>1 DEF Trials
  <2>0. 1 - i \in 0..1 /\ 1 - (1 - i) = i
    OBVIOUS
  <2>3. CASE Starts(i)
    <3> DEFINE e == OnTrial(otadata[i])
    <3>1. e \in Entry /\ SlotOf(e) = SlotOf(otadata[i])
      BY <1>t, StateChangeType
    <3>2. boot'.index = SlotOf(otadata[i])
      <4>1. a \in [0..1 -> Entry] /\ SlotOf(a[i]) = SlotOf(otadata[i])
        BY <1>t, AbortFacts
      <4>2. get_active_otadata(a) = i
        BY <2>3 DEF Starts
      <4> QED BY <2>1, <4>1, <4>2, SelectionIs
    <3>3. EndsWith(todo', i, e) \/ Untouched(i)'
      <4>1. CASE todo' = <<>>
        BY <4>1 DEF Untouched
      <4>2. ASSUME NEW j \in 0..1, GivenUp(j), todo' = Rewrite(j, Aborted(otadata[j]))
            PROVE  Untouched(i)'
        <5>1. j # i
          BY <2>3, <4>2 DEF GivenUp, Starts
        <5>2. \A k \in 1 .. Len(todo') :
                todo'[k] \in {EraseEntry(j), WriteEntry(j, Aborted(otadata[j]))}
          BY <1>t, <4>2, StateChangeType, RewriteElements
        <5> QED BY <5>1, <5>2 DEF Untouched, Touches, EraseEntry, WriteEntry
      <4>3. ASSUME NEW j \in 0..1, Starts(j), todo' = Rewrite(j, OnTrial(otadata[j]))
            PROVE  EndsWith(todo', i, e)
        <5>1. j = i
          BY <2>3, <4>3 DEF Starts
        <5> QED BY <4>3, <5>1 DEF EndsWith
      <4>4. ASSUME NEW j \in 0..1, GivenUp(j), Starts(1 - j),
                   todo' = Rewrite(j, Aborted(otadata[j])) \o Rewrite(1 - j, OnTrial(otadata[1 - j]))
            PROVE  EndsWith(todo', i, e)
        <5>1. j # i
          BY <2>3, <4>4 DEF GivenUp, Starts
        <5>2. j = 1 - i /\ 1 - j = i
          BY <5>1
        <5>3. todo' = Rewrite(1 - i, Aborted(otadata[j])) \o Rewrite(i, e)
          BY <4>4, <5>2
        <5>4. Aborted(otadata[j]) \in Entry
          BY <1>t, StateChangeType
        <5> QED BY <5>3, <5>4 DEF EndsWith
      <4> QED BY <2>2, <4>1, <4>2, <4>3, <4>4 DEF SelectionWrites
    <3> HIDE DEF e
    <3> QED BY <2>1, <3>1, <3>2, <3>3 DEF Settled
  <2>4. CASE ~Starts(i)
    <3>1. ~GivenUp(i)
      BY DEF GivenUp
    <3>2. Untouched(i)'
      <4> SUFFICES ASSUME NEW k \in 1 .. Len(todo')
                   PROVE  ~Touches(todo'[k], i)
        BY DEF Untouched
      <4>1. PICK j \in 0..1 :
            \/ (GivenUp(j) \/ Starts(j)) /\ todo'[k] = EraseEntry(j)
            \/ GivenUp(j) /\ todo'[k] = WriteEntry(j, Aborted(otadata[j]))
            \/ Starts(j) /\ todo'[k] = WriteEntry(j, OnTrial(otadata[j]))
        BY <1>t, <2>2, SelectionElements
      <4>2. j # i
        BY <2>4, <3>1, <4>1
      <4> QED BY <4>1, <4>2 DEF Touches, EraseEntry, WriteEntry
    <3> QED BY <2>1, <3>2 DEF Settled
  <2> QED BY <2>3, <2>4
<1>4. CASE CheckPins
  <2>1. pc' = "load" /\ pc = "gpio" /\ UNCHANGED <<otadata, todo, boot, fresh>>
    BY <1>4 DEF CheckPins, device
  <2> QED BY <2>1 DEF Trials, Settled, Untouched
<1>5. CASE LoadBootImage
  <2>1. /\ boot.index \in Parts \cup {FACTORY_INDEX} /\ flash \in [Parts -> Image]
        /\ Loadable(flash, secver) # {}
    BY <1>t DEF TypeOK, BootInv, NeverBricked
  <2>2. boot.index # TEST_APP_INDEX
    BY <2>1 DEF Parts, Slots, FACTORY_INDEX, TEST_APP_INDEX
  <2>3. LoadIndex(boot.index, flash, secver) \in Parts
    BY <2>1, <2>2, LoadIndexFinds DEF Loadable
  <2>4. LoadIndex(boot.index, flash, secver) # NO_APP
    BY <2>3, OtaAssumption DEF Parts, Slots, FACTORY_INDEX, TEST_APP_INDEX, NO_APP
  <2> QED BY <1>5, <1>r, <2>4 DEF LoadBootImage
<1>6. CASE AppNext
  <2>1. pc = "run" /\ pc' \in {"reset", "run"} /\ fresh' = fresh
    BY <1>6 DEF AppNext, AppCalls, esp_ota_begin, esp_ota_write, esp_ota_end,
       esp_ota_set_boot_partition, esp_ota_mark_app_valid_cancel_rollback,
       esp_ota_mark_app_invalid_rollback_and_reboot, esp_ota_erase_last_boot_app_partition, Restart
  <2> QED BY <1>r, <2>1 DEF Trials
<1>7. CASE UNCHANGED vars
  BY <1>7 DEF vars, Trials, Settled, Untouched
<1> QED BY <1>1, <1>2, <1>3, <1>4, <1>5, <1>6, <1>7 DEF Next, BootNext
----------------------------------------------------------------------------
(* A device as it leaves the factory *)

LEMMA InitEntries == Init => Entries /\ Selected /\ RolledBack /\ Switching /\ Trials
<1> SUFFICES ASSUME Init PROVE Entries /\ Selected /\ RolledBack /\ Switching /\ Trials
  OBVIOUS
<1>1. /\ todo = <<>> /\ pc = "reset" /\ call.fn = "none" /\ fresh = {}
      /\ otadata[0] = ErasedEntry /\ otadata[1] = ErasedEntry
  BY DEF Init, NoCall
<1>2. Sound(otadata)
  BY <1>1 DEF Sound, Coexist, ErasedEntry
<1>3. SoundQueue(otadata, todo)
  BY <1>1, NoWritesSound
<1> QED BY <1>1, <1>2, <1>3 DEF Entries, StillInitial, Selected, RolledBack, Switching,
           Trials

----------------------------------------------------------------------------
(* Results *)

(* The records of the two sectors stay sound throughout. *)
LEMMA EntriesAlways ==
  ASSUME ~ANTI_ROLLBACK, ~HasTest, ~Reselect
  PROVE  Spec => [](BootInv /\ Entries)
<1>1. BootInv /\ Entries /\ [Next]_vars => (BootInv /\ Entries)'
  BY NextBootInv, EntriesStep DEF BootInv
<1>2. Init => BootInv /\ Entries
  BY InitBootInv, InitEntries
<1> QED BY <1>1, <1>2, PTL DEF Spec

(* While esp_ota_check_rollback_is_possible answers true, an app on trial  *)
(* that is reset before it confirms itself does not boot again, whatever   *)
(* calls and power losses the records have been through: the bootloader    *)
(* aborts it and the record in the other sector, or the factory app, takes *)
(* over.                                                                   *)
THEOREM RollbackAlwaysPromised ==
  ASSUME ~ANTI_ROLLBACK, ~HasTest, ~Reselect
  PROVE  Spec => []RollbackPromise
<1>1. BootInv /\ Entries => RollbackPromise
  BY PromiseKept DEF BootInv, Inv, Entries
<1> QED BY <1>1, EntriesAlways, PTL

(* esp_ota_begin opens no update while the running app is on trial,        *)
(* although it looks for the state of the running slot in the first entry  *)
(* that names it: an older record of the same slot never comes before the  *)
(* one in force with another state.                                        *)
THEOREM UpdatesAlwaysConfirmed ==
  ASSUME ~ANTI_ROLLBACK, ~HasTest, ~Reselect
  PROVE  Spec => ConfirmedBeforeUpdate
<1> DEFINE Opens == \E h \in Handles : ops[h] = NoEntry /\ ops'[h] # NoEntry
           OnTrialNow == IsSelected(running) /\ otadata[Active].state = "PENDING_VERIFY"
<1>1. ASSUME BootInv, Entries, Next, Opens
      PROVE  ~OnTrialNow
  <2>t. otadata \in [0..1 -> Entry] /\ Sound(otadata)
        /\ ops \in [Handles -> {NoEntry} \cup [part : Slots, pos : 0 .. Chunks]]
    BY <1>1 DEF BootInv, Inv, TypeOK, Entries
  <2>1. PICK h \in Handles : ops[h] = NoEntry /\ ops'[h] # NoEntry
    BY <1>1
  <2>2. \E g \in Handles, p \in Slots, n \in 1 .. Chunks : esp_ota_begin(g, p, n)
    <3>1. CASE FlashStep \/ PowerLoss \/ BootNext
      BY <2>1, <3>1 DEF FlashStep, PowerLoss, BootNext, GetSelectedBootPartition,
         CheckPins,
         LoadBootImage
    <3>2. ASSUME NEW g \in Handles, (\E v \in Versions : esp_ota_write(g, v)) \/ esp_ota_end(g)
          PROVE  FALSE
      BY <2>t, <2>1, <3>2 DEF esp_ota_write, esp_ota_end
    <3>3. ASSUME NEW p \in Parts, esp_ota_set_boot_partition(p)
          PROVE  FALSE
      BY <2>1, <3>3 DEF esp_ota_set_boot_partition
    <3>4. CASE \/ esp_ota_mark_app_valid_cancel_rollback
               \/ esp_ota_mark_app_invalid_rollback_and_reboot
               \/ esp_ota_erase_last_boot_app_partition \/ Restart
      BY <2>1, <3>4 DEF esp_ota_mark_app_valid_cancel_rollback, Restart,
         esp_ota_mark_app_invalid_rollback_and_reboot, esp_ota_erase_last_boot_app_partition
    <3> QED BY <1>1, <3>1, <3>2, <3>3, <3>4 DEF Next, AppNext
  <2>3. ROLLBACK_ENABLE => esp_ota_get_state_partition(otadata, running) # "PENDING_VERIFY"
    BY <2>2 DEF esp_ota_begin
  <2> SUFFICES ASSUME OnTrialNow PROVE FALSE
    OBVIOUS
  <2>4. /\ Active \in 0..1 /\ ota_select_valid(otadata[Active])
        /\ SlotOf(otadata[Active]) = running /\ otadata[Active].state = "PENDING_VERIFY"
    BY <2>t, ActiveType DEF IsSelected, Active
  <2>5. ROLLBACK_ENABLE
    BY <2>t, <2>4 DEF Sound, Coexist
  <2>6. esp_ota_get_state_partition(otadata, running) = "PENDING_VERIFY"
    BY <2>t, <2>4, StateOfActive
  <2> QED BY <2>3, <2>5, <2>6
<1>2. BootInv /\ Entries /\ [Next]_vars => [Opens => ~OnTrialNow]_vars
  BY <1>1
<1> QED BY <1>2, EntriesAlways, PTL DEF Spec, ConfirmedBeforeUpdate

(* The calls in progress and those that have returned are on record. *)
LEMMA SelectedAlways ==
  ASSUME ~ANTI_ROLLBACK, ~HasTest, ~Reselect, ~ConfirmOther
  PROVE  Spec => [](BootInv /\ Entries /\ Selected)
<1>1. BootInv /\ Selected /\ [Next]_vars => Selected'
  BY SelectedStep DEF BootInv
<1>2. Init => Selected
  BY InitEntries
<1> QED BY <1>1, <1>2, EntriesAlways, PTL DEF Spec

(* Once esp_ota_mark_app_valid_cancel_rollback has returned, the running   *)
(* app is recorded as VALID where esp_ota_get_state_partition looks for it *)
(* and is what every later boot starts, until the app decides otherwise.   *)
THEOREM ConfirmAlwaysHolds ==
  ASSUME ~ANTI_ROLLBACK, ~HasTest, ~Reselect, ~ConfirmOther
  PROVE  Spec => []ConfirmHolds
<1>1. BootInv /\ Entries /\ Selected => ConfirmHolds
  BY SelectedTakesEffect, MarksRunning DEF BootInv, Inv, ConfirmHolds
<1> QED BY <1>1, SelectedAlways, PTL

(* Once esp_ota_set_boot_partition has returned, the next boot starts the  *)
(* partition it was given; once an app has declared itself invalid with    *)
(* esp_ota_mark_app_invalid_rollback_and_reboot, no boot starts it, power  *)
(* loss in the bootloader included.                                        *)
THEOREM SelectionAlwaysHolds ==
  ASSUME ~ANTI_ROLLBACK, ~HasTest, ~Reselect, ~ConfirmOther, HasFactory
  PROVE  Spec => []SelectionHolds
<1>1. BootInv /\ Entries /\ Selected /\ RolledBack /\ [Next]_vars => RolledBack'
  BY RolledBackStep
<1>2. Init => RolledBack
  BY InitEntries
<1>3. BootInv /\ Entries /\ Selected /\ RolledBack => SelectionHolds
  BY SelectedTakesEffect, RollbackBoots DEF BootInv, Inv, SelectionHolds
<1> QED BY <1>1, <1>2, <1>3, SelectedAlways, PTL DEF Spec

(* Power loss at any moment of esp_ota_set_boot_partition for an OTA slot, *)
(* and again during the boots that follow, ends with the app that would    *)
(* have booted before the call or the one it was given, and no other.      *)
THEOREM SwitchAlwaysAtomic ==
  ASSUME ~ANTI_ROLLBACK, ~HasTest, ~Reselect, ~ConfirmOther, ~(FACTORY_RESET /\ OTA_DATA_ERASE)
  PROVE  Spec => SwitchAtomic
<1> DEFINE Boots == /\ pc = "load" /\ running' # NO_APP
                    /\ call.fn = "set_boot" /\ call.part \in Slots /\ ~call.trial
           OldOrNew == running' \in {call.old, call.part}
<1>1. BootInv /\ Entries /\ Selected /\ Switching /\ [Next]_vars => Switching'
  BY SwitchingStep
<1>2. Init => Switching
  BY InitEntries
<1>3. ASSUME BootInv, Switching, Next, Boots
      PROVE  OldOrNew
  <2>1. running = NO_APP
    BY <1>3 DEF BootInv, Inv, Control
  <2>2. LoadBootImage
    <3>1. CASE FlashStep \/ PowerLoss
      BY <1>3, <2>1, <3>1 DEF FlashStep, PowerLoss
    <3>2. CASE GetSelectedBootPartition \/ CheckPins
      BY <1>3, <3>2 DEF GetSelectedBootPartition, CheckPins
    <3>3. CASE AppNext
      BY <1>3, <3>3 DEF AppNext, AppCalls, esp_ota_begin, esp_ota_write, esp_ota_end,
         esp_ota_set_boot_partition, esp_ota_mark_app_valid_cancel_rollback, Restart,
         esp_ota_mark_app_invalid_rollback_and_reboot, esp_ota_erase_last_boot_app_partition
    <3> QED BY <1>3, <3>1, <3>2, <3>3 DEF Next, BootNext
  <2>3. running' = LoadIndex(boot.index, flash, secver)
    BY <1>3, <2>1, <2>2 DEF LoadBootImage
  <2> QED BY <1>3, <2>3 DEF Switching
<1>4. BootInv /\ Switching /\ [Next]_vars => [Boots => OldOrNew]_vars
  BY <1>3
<1> QED BY <1>1, <1>2, <1>4, SelectedAlways, PTL DEF Spec, SwitchAtomic

(* Where there are no pins, the bootloader marks a new app as on trial     *)
(* only to start it: when it hands over to an app, every entry that was    *)
(* NEW at the beginning of this boot, or of an earlier one since an app    *)
(* last ran or the power was lost, is still NEW, is the one of that app,   *)
(* or names an image that cannot be started.                               *)
THEOREM TrialsAreRun ==
  ASSUME ~ANTI_ROLLBACK, ~HasTest, ~Reselect, ~FACTORY_RESET, ~APP_TEST
  PROVE  Spec => TrialIsRun
<1> DEFINE HandsOver == pc = "load" /\ pc' = "run"
           Run(i) == \/ otadata[i].state = "NEW"
                     \/ running' = SlotOf(otadata[i])
                     \/ ~Bootable(flash[SlotOf(otadata[i])], secver)
<1>1. BootInv /\ Entries /\ Trials /\ [Next]_vars => Trials'
  BY TrialsStep
<1>2. Init => Trials
  BY InitEntries
<1>3. ASSUME BootInv, Trials, Next, HandsOver, NEW i \in fresh
      PROVE  Run(i)
  <2>t. i \in 0..1 /\ otadata \in [0..1 -> Entry]
    BY <1>3 DEF BootInv, Inv, TypeOK
  <2>1. LoadBootImage
    BY <1>3 DEF Next, BootNext, AppNext, AppCalls, FlashStep, PowerLoss,
       GetSelectedBootPartition, CheckPins, esp_ota_begin, esp_ota_write, esp_ota_end,
       esp_ota_set_boot_partition, esp_ota_mark_app_valid_cancel_rollback, Restart,
       esp_ota_mark_app_invalid_rollback_and_reboot, esp_ota_erase_last_boot_app_partition
  <2>2. todo = <<>> /\ running' = LoadIndex(boot.index, flash, secver)
    BY <1>3, <2>1 DEF LoadBootImage
  <2>3. ASSUME NEW e \in Entry PROVE ~EndsWith(todo, i, e)
    <3>1. 1 - i \in 0..1
      BY <2>t
    <3>2. ASSUME NEW f \in Entry
          PROVE  todo \notin {Rewrite(1 - i, f) \o Rewrite(i, e), <<WriteEntry(1 - i, f)>> \o Rewrite(i, e)}
      <4>1. Rewrite(1 - i, f) \in Seq(Operations) /\ Rewrite(i, e) \in Seq(Operations)
            /\ <<WriteEntry(1 - i, f)>> \in Seq(Operations)
        BY <2>t, <3>1, RewriteType, OperationTypes
      <4>2. Len(Rewrite(i, e)) = 2
        BY DEF Rewrite
      <4>3. \A s \in Seq(Operations) : s \o Rewrite(i, e) # <<>>
        BY <4>1, <4>2, ConcatNotEmpty
      <4> QED BY <2>2, <4>1, <4>3
    <3>3. todo \notin {Rewrite(i, e), <<WriteEntry(i, e)>>}
      BY <2>2 DEF Rewrite
    <3> QED BY <3>2, <3>3 DEF EndsWith
  <2>4. otadata[i].state = "NEW" \/ SlotOf(otadata[i]) = boot.index
    BY <1>3, <2>3 DEF Trials, Settled
  <2>5. ASSUME SlotOf(otadata[i]) = boot.index, Bootable(flash[SlotOf(otadata[i])], secver)
        PROVE  running' = SlotOf(otadata[i])
    <3>1. SlotOf(otadata[i]) \in Slots
      BY <2>t, SlotOfType
    <3> QED BY <2>2, <2>5, <3>1, SlotLoads DEF Bootable
  <2> QED BY <2>4, <2>5
<1>4. BootInv /\ Trials /\ [Next]_vars =>
        [ pc = "load" /\ pc' = "run"
          => \A i \in fresh : \/ otadata[i].state = "NEW"
                              \/ running' = SlotOf(otadata[i])
                              \/ ~Bootable(flash[SlotOf(otadata[i])], secver) ]_vars
  BY <1>3
<1> QED BY <1>1, <1>2, <1>4, EntriesAlways, PTL DEF Spec, TrialIsRun
=============================================================================
