-------------------------- MODULE EspOtaBootProofs --------------------------
(***************************************************************************)
(* Proofs about what the bootloader of EspOta finds: there is always an    *)
(* app to start, and esp_ota_get_boot_partition predicts which.            *)
(***************************************************************************)
EXTENDS EspOtaProofs

----------------------------------------------------------------------------
(* The queues that only touch otadata *)

EntryOps == {EraseEntry(i) : i \in 0..1} \cup {WriteEntry(i, e) : i \in 0..1, e \in Entry}

(* The factory app verifies, and nothing queued is aimed at it. *)
FactoryKept ==
  HasFactory => Verifies(flash[FACTORY_INDEX]) /\ SafeQueue(todo, FACTORY_INDEX, flash)

(* The bootloader writes otadata only. *)
BootloaderQueue == running = NO_APP => todo \in Seq(EntryOps)

BootInv == Inv /\ FactoryKept /\ BootloaderQueue /\ NeverBricked

LEMMA EntryOpsSafe ==
  ASSUME NEW q \in Seq(EntryOps), NEW r, NEW fl
  PROVE  SafeQueue(q, r, fl)
<1>1. \A x \in EntryOps : Harmless(x, r, fl)
  BY DEF EntryOps, Harmless, EraseEntry, WriteEntry
<1>2. \A k \in 1 .. Len(q) : q[k] \in EntryOps
  OBVIOUS
<1> QED BY <1>1, <1>2 DEF SafeQueue

LEMMA RewriteEntryOps ==
  ASSUME NEW i \in 0..1, NEW e \in Entry
  PROVE  Rewrite(i, e) \in Seq(EntryOps)
BY DEF Rewrite, EntryOps

(* An operation that is not aimed at partition r leaves it as it is. *)
LEMMA PerformKeeps ==
  ASSUME TypeOK, NEW x \in Operations, NEW r \in Parts, Harmless(x, r, flash), Perform(x)
  PROVE  flash'[r] = flash[r]
<1>1. CASE x.op = "erase_cell"
  BY <1>1 DEF TypeOK, Perform, Harmless
<1>2. CASE x.op = "write_cell"
  BY <1>2 DEF TypeOK, Perform, Harmless
<1>3. CASE x.op \notin {"erase_cell", "write_cell"}
  BY <1>3 DEF TypeOK, Perform
<1> QED BY <1>1, <1>2, <1>3

LEMMA TearKeeps ==
  ASSUME TypeOK, NEW x \in Operations, NEW r \in Parts, Harmless(x, r, flash), Tear(x)
  PROVE  flash'[r] = flash[r]
<1>1. CASE x.op \in {"erase_cell", "write_cell"}
  BY <1>1 DEF TypeOK, Tear, Harmless
<1>2. CASE x.op \notin {"erase_cell", "write_cell"}
  BY <1>2 DEF TypeOK, Tear
<1> QED BY <1>1, <1>2

(* Operations on otadata leave the images alone. *)
LEMMA EntryOpsKeepFlash ==
  ASSUME NEW x \in EntryOps, Perform(x) \/ Tear(x)
  PROVE  flash' = flash
BY DEF EntryOps, EraseEntry, WriteEntry, Perform, Tear

----------------------------------------------------------------------------
(* There is always an app to start *)

(* Without anti-rollback an app can be started when its image verifies. *)
LEMMA VerifiesLoadable ==
  ASSUME ~ANTI_ROLLBACK, NEW fl, NEW sv, NEW p \in Parts \ {TEST_APP_INDEX}
  PROVE  p \in Loadable(fl, sv) <=> Verifies(fl[p])
BY DEF Loadable, Bootable, check_anti_rollback

(* A step that leaves the images alone keeps what NeverBricked says. *)
LEMMA SameFlash ==
  ASSUME ~ANTI_ROLLBACK, NeverBricked, flash' = flash
  PROVE  NeverBricked'
BY DEF NeverBricked, Loadable, Bootable, check_anti_rollback

(* A factory app, or an app that runs and is not the test app, can be      *)
(* started again when its image is intact.                                 *)
LEMMA KeptMeansLoadable ==
  ASSUME ~ANTI_ROLLBACK, HasTest => HasFactory, NEW fl, NEW sv, NEW r \in Parts \cup {NO_APP},
         HasFactory => Verifies(fl[FACTORY_INDEX]), r # NO_APP => Verifies(fl[r]),
         HasFactory \/ r # NO_APP
  PROVE  Loadable(fl, sv) # {}
<1>1. CASE HasFactory
  <2>1. FACTORY_INDEX \in Parts \ {TEST_APP_INDEX} /\ Verifies(fl[FACTORY_INDEX])
    BY <1>1 DEF Parts, FACTORY_INDEX, TEST_APP_INDEX
  <2> QED BY <2>1, VerifiesLoadable
<1>2. CASE ~HasFactory
  <2>1. r \in Parts \ {TEST_APP_INDEX} /\ Verifies(fl[r])
    BY <1>2 DEF Parts, Slots, TEST_APP_INDEX
  <2> QED BY <2>1, VerifiesLoadable
<1> QED BY <1>1, <1>2

(* What the factory app needs of a step that does not touch the device. *)
LEMMA QueueKeepsFactory ==
  ASSUME FactoryKept, flash' = flash, HasFactory => SafeQueue(todo', FACTORY_INDEX, flash)
  PROVE  FactoryKept'
BY DEF FactoryKept

LEMMA NextBootInv ==
  ASSUME ~ANTI_ROLLBACK, HasTest => HasFactory, BootInv, [Next]_vars
  PROVE  BootInv'
<1> USE DEF BootInv
<1>i. Inv'
  BY InvStep
<1>f. FACTORY_INDEX \notin Slots /\ (HasFactory => FACTORY_INDEX \in Parts)
  BY DEF FACTORY_INDEX, Slots, Parts
<1>a. AppCalls => running # NO_APP
  BY DEF Inv, Control, AppCalls
<1>e. <<>> \in Seq(EntryOps) /\ <<EraseEntry(0), EraseEntry(1)>> \in Seq(EntryOps)
  BY DEF EntryOps
<1>o. otadata \in [0..1 -> Entry]
  BY DEF Inv, TypeOK
<1>s. ASSUME flash' = flash, todo' \in Seq(EntryOps) PROVE FactoryKept' /\ BootloaderQueue' /\ NeverBricked'
  BY <1>s, EntryOpsSafe, QueueKeepsFactory, SameFlash DEF BootloaderQueue
<1>q. ASSUME flash' = flash, running' # NO_APP, HasFactory => SafeQueue(todo', FACTORY_INDEX, flash)
      PROVE  FactoryKept' /\ BootloaderQueue' /\ NeverBricked'
  BY <1>q, QueueKeepsFactory, SameFlash DEF BootloaderQueue
<1> SUFFICES FactoryKept' /\ BootloaderQueue' /\ NeverBricked'
  BY <1>i
<1>1. CASE FlashStep
  <2> DEFINE x == Head(todo)
  <2>1. /\ todo \in Seq(Operations) /\ todo # <<>> /\ x \in Operations
        /\ Perform(x) /\ todo' = Tail(todo) /\ running' = running
    BY <1>1 DEF Inv, TypeOK, FlashStep
  <2>2. FactoryKept'
    <3> SUFFICES ASSUME HasFactory
                 PROVE  Verifies(flash'[FACTORY_INDEX]) /\ SafeQueue(todo', FACTORY_INDEX, flash')
      BY DEF FactoryKept
    <3>1. Harmless(x, FACTORY_INDEX, flash)
      BY <2>1 DEF FactoryKept, SafeQueue
    <3> HIDE DEF x
    <3>2. flash'[FACTORY_INDEX] = flash[FACTORY_INDEX]
      BY <1>f, <2>1, <3>1, PerformKeeps DEF Inv
    <3>3. SafeQueue(Tail(todo), FACTORY_INDEX, flash)
      BY <2>1 DEF FactoryKept, SafeQueue
    <3> QED BY <2>1, <3>2, <3>3 DEF FactoryKept, SafeQueue, Harmless, SecureVersion
  <2>3. BootloaderQueue'
    BY <2>1 DEF BootloaderQueue
  <2>4. NeverBricked'
    <3>1. CASE HasFactory \/ running # NO_APP
      <4>1. running' \in Parts \cup {NO_APP} /\ (running' # NO_APP => Verifies(flash'[running']))
        BY <1>i DEF Inv, TypeOK, RunningIntact
      <4>2. HasFactory => Verifies(flash'[FACTORY_INDEX])
        BY <2>2 DEF FactoryKept
      <4> QED BY <2>1, <3>1, <4>1, <4>2, KeptMeansLoadable DEF NeverBricked
    <3>2. CASE running = NO_APP
      <4>1. x \in EntryOps
        BY <2>1, <3>2 DEF BootloaderQueue
      <4> QED BY <2>1, <4>1, EntryOpsKeepFlash, SameFlash
    <3> QED BY <3>1, <3>2
  <2> QED BY <2>2, <2>3, <2>4
<1>2. CASE PowerLoss
  <2>1. todo' = <<>> /\ running' = NO_APP
    BY <1>2 DEF PowerLoss
  <2>2. CASE flash' = flash
    BY <1>e, <1>s, <2>1, <2>2
  <2>3. CASE todo # <<>> /\ Tear(Head(todo))
    <3> DEFINE x == Head(todo)
    <3>1. todo \in Seq(Operations) /\ x \in Operations
      BY <2>3 DEF Inv, TypeOK
    <3>2. ASSUME NEW r \in Parts, SafeQueue(todo, r, flash) PROVE flash'[r] = flash[r]
      <4>1. Harmless(x, r, flash)
        BY <2>3, <3>1, <3>2 DEF SafeQueue
      <4> QED BY <2>3, <3>1, <4>1, TearKeeps DEF Inv
    <3>3. HasFactory => Verifies(flash'[FACTORY_INDEX])
      BY <1>f, <3>2 DEF FactoryKept
    <3>4. FactoryKept' /\ BootloaderQueue'
      BY <1>e, <2>1, <3>3 DEF FactoryKept, SafeQueue, BootloaderQueue
    <3>5. CASE HasFactory \/ running # NO_APP
      <4>1. running \in Parts \cup {NO_APP} /\ (running # NO_APP => Verifies(flash'[running]))
        BY <3>2 DEF Inv, TypeOK, RunningIntact, QueueHarmless
      <4>2. NeverBricked'
        BY <3>3, <3>5, <4>1, KeptMeansLoadable DEF NeverBricked
      <4> QED BY <3>4, <4>2
    <3>6. CASE running = NO_APP
      <4>1. x \in EntryOps
        BY <2>3, <3>6 DEF BootloaderQueue
      <4> HIDE DEF x
      <4>2. flash' = flash
        BY <2>3, <4>1, EntryOpsKeepFlash DEF x
      <4> QED BY <2>2, <4>2
    <3> QED BY <3>5, <3>6
  <2> QED BY <1>2, <2>2, <2>3 DEF PowerLoss, device
<1>3. CASE GetSelectedBootPartition
  <2> DEFINE a   == AbortPending(otadata)
             sel == Selection(a, flash, secver)
             m   == MarkFirstBoot(a, sel.active)
             Changed(from, to, i) == IF from[i] # to[i] THEN Rewrite(i, to[i]) ELSE <<>>
  <2>1. a \in [0..1 -> Entry] /\ m \in [0..1 -> Entry]
    BY <1>o, AbortPendingType, MarkFirstBootType
  <2>2. \A i \in 0..1 : /\ Changed(otadata, a, i) \in Seq(EntryOps)
                       /\ Changed(a, m, i) \in Seq(EntryOps)
    BY <1>e, <2>1, RewriteEntryOps
  <2> HIDE DEF a, sel, m, Changed
  <2>3. /\ todo' = Changed(otadata, a, 0) \o Changed(otadata, a, 1)
                   \o Changed(a, m, 0) \o Changed(a, m, 1) \o <<>>
        /\ flash' = flash
    BY <1>3 DEF GetSelectedBootPartition, a, sel, m, Changed, device
  <2>4. todo' \in Seq(EntryOps)
    BY <2>2, <2>3
  <2> QED BY <1>s, <2>3, <2>4
<1>4. CASE CheckPins
  <2>1. todo' \in Seq(EntryOps) /\ flash' = flash
    BY <1>4, <1>e DEF CheckPins, device
  <2> QED BY <1>s, <2>1
<1>5. CASE LoadBootImage
  <2> DEFINE p == LoadIndex(boot.index, flash, secver)
             e == [seq |-> p + 1, state |-> "VALID", crcOk |-> TRUE]
  <2>1. flash' = flash
    BY <1>5 DEF LoadBootImage, device
  <2>2. CASE p = NO_APP
    <3>1. todo' = <<>>
      BY <1>5, <2>2 DEF LoadBootImage
    <3> QED BY <1>e, <1>s, <2>1, <3>1
  <2>3. CASE p # NO_APP
    <3>1. p \in Parts
      <4>1. boot.index \in Parts \cup {FACTORY_INDEX} /\ flash \in [Parts -> Image]
        BY DEF Inv, TypeOK
      <4> QED BY <2>3, <4>1, LoadIndexGood
    <3>2. p > FACTORY_INDEX => e \in Entry
      BY <3>1, OtaAssumption
      DEF Parts, Slots, FACTORY_INDEX, TEST_APP_INDEX, Entry, UINT32_MAX, ImgStates
    <3> HIDE DEF p, e
    <3>3. todo' = IF p > FACTORY_INDEX /\ boot.initial THEN Rewrite(0, e) \o <<>> ELSE <<>>
      BY <1>5, <2>3 DEF LoadBootImage, p, e
    <3>4. p > FACTORY_INDEX => Rewrite(0, e) \in Seq(EntryOps)
      BY <3>2, RewriteEntryOps
    <3>5. todo' \in Seq(EntryOps)
      BY <1>e, <3>3, <3>4
    <3> QED BY <1>s, <2>1, <3>5
  <2> QED BY <2>2, <2>3
<1>6. ASSUME NEW h \in Handles, NEW p \in Slots, NEW n \in 1 .. Chunks, esp_ota_begin(h, p, n)
      PROVE  FactoryKept' /\ BootloaderQueue' /\ NeverBricked'
  <2>1. flash' = flash /\ running' # NO_APP /\ todo' = EraseCells(p, n)
    BY <1>6, <1>a DEF esp_ota_begin, device
  <2>2. SafeQueue(todo', FACTORY_INDEX, flash)
    BY <1>f, <2>1, EraseCellsSafe, OtaAssumption
  <2> QED BY <1>q, <2>1, <2>2
<1>7. ASSUME NEW h \in Handles, NEW v \in Versions, esp_ota_write(h, v)
      PROVE  FactoryKept' /\ BootloaderQueue' /\ NeverBricked'
  <2> DEFINE x == WriteCell(ops[h].part, ops[h].pos + 1, v)
  <2>1. flash' = flash /\ running' # NO_APP /\ todo' = <<x>> /\ ops[h].part \in Slots
    BY <1>7, <1>a DEF esp_ota_write, device, Inv, TypeOK
  <2>2. Harmless(x, FACTORY_INDEX, flash)
    BY <1>f, <2>1 DEF Harmless, WriteCell
  <2> HIDE DEF x
  <2>3. SafeQueue(todo', FACTORY_INDEX, flash)
    BY <2>1, <2>2 DEF SafeQueue
  <2> QED BY <1>q, <2>1, <2>3
<1>8. ASSUME NEW h \in Handles, esp_ota_end(h)
      PROVE  FactoryKept' /\ BootloaderQueue' /\ NeverBricked'
  BY <1>8, <1>a, <1>e, <1>s DEF esp_ota_end, AppCalls, device
<1>9. ASSUME NEW p \in Parts, esp_ota_set_boot_partition(p)
      PROVE  FactoryKept' /\ BootloaderQueue' /\ NeverBricked'
  <2>1. flash' = flash /\ running' # NO_APP
    BY <1>9, <1>a DEF esp_ota_set_boot_partition, device
  <2>2. CASE todo' = <<EraseEntry(0), EraseEntry(1)>>
    BY <1>e, <1>s, <2>1, <2>2
  <2>3. CASE esp_rewrite_ota_data(p)
    <3>1. \E i, e : todo' = Rewrite(i, e)
      BY <2>3 DEF esp_rewrite_ota_data
    <3> QED BY <1>q, <2>1, <3>1, RewriteSafe
  <2> QED BY <1>9, <2>2, <2>3 DEF esp_ota_set_boot_partition
<1>10. CASE esp_ota_mark_app_valid_cancel_rollback
  <2>1. flash' = flash /\ running' # NO_APP
    BY <1>10, <1>a DEF esp_ota_mark_app_valid_cancel_rollback, device
  <2>2. \E i, e : todo' = Rewrite(i, e) \o <<>>
    BY <1>10 DEF esp_ota_mark_app_valid_cancel_rollback
  <2>3. \A i, e : Rewrite(i, e) \o <<>> = Rewrite(i, e)
    BY DEF Rewrite
  <2> QED BY <1>q, <2>1, <2>2, <2>3, RewriteSafe
<1>11. CASE esp_ota_mark_app_invalid_rollback_and_reboot
  <2> DEFINE e == [otadata[Active] EXCEPT !.state = "INVALID"]
  <2>1. Active \in 0..1
    BY <1>o, <1>11, ActiveType DEF esp_ota_mark_app_invalid_rollback_and_reboot, Active
  <2>2. e \in Entry
    BY <1>o, <2>1 DEF Entry, ImgStates
  <2>3. todo' = Rewrite(Active, e) /\ flash' = flash
    BY <1>11 DEF esp_ota_mark_app_invalid_rollback_and_reboot, device
  <2> QED BY <1>s, <2>1, <2>2, <2>3, RewriteEntryOps
<1>12. CASE esp_ota_erase_last_boot_app_partition
  <2> DEFINE last == otadata[1 - Active]
             erase == EraseCells(SlotOf(last), Chunks)
  <2>1. flash' = flash /\ running' # NO_APP /\ todo' = Append(erase, EraseEntry(1 - Active))
    BY <1>12, <1>a DEF esp_ota_erase_last_boot_app_partition, device
  <2>2. 1 - Active \in 0..1
    BY <1>o, <1>12, ActiveType DEF esp_ota_erase_last_boot_app_partition, Active
  <2>3. SlotOf(last) \in Slots
    BY <1>o, <2>2, SlotOfType
  <2>4. SafeQueue(erase, FACTORY_INDEX, flash) /\ erase \in Seq(Operations)
    BY <1>f, <2>3, EraseCellsSafe, EraseCellsType, OtaAssumption DEF Parts
  <2>5. Harmless(EraseEntry(1 - Active), FACTORY_INDEX, flash)
    BY DEF Harmless, EraseEntry
  <2> HIDE DEF erase
  <2>6. SafeQueue(todo', FACTORY_INDEX, flash)
    BY <2>1, <2>4, <2>5 DEF SafeQueue
  <2> QED BY <1>q, <2>1, <2>6
<1>13. CASE Restart
  BY <1>13, <1>e, <1>s DEF Restart, AppCalls, device
<1>14. CASE UNCHANGED vars
  BY <1>14 DEF vars, FactoryKept, BootloaderQueue, NeverBricked
<1> QED
  BY <1>1, <1>2, <1>3, <1>4, <1>5, <1>6, <1>7, <1>8, <1>9, <1>10, <1>11, <1>12, <1>13, <1>14
  DEF Next, BootNext, AppNext

LEMMA InitBootInv ==
  ASSUME ~ANTI_ROLLBACK, HasTest => HasFactory, Init
  PROVE  BootInv
<1>1. Inv
  BY InitInv
<1>2. PICK v \in Versions :
        flash = [p \in Parts |-> [c \in 1 .. Chunks |->
                   IF p < 0 \/ (p = 0 /\ ~HasFactory) THEN v ELSE Erased]]
  BY DEF Init
<1>3. ASSUME NEW p \in Parts, p < 0 \/ (p = 0 /\ ~HasFactory) PROVE Verifies(flash[p])
  BY <1>2, <1>3 DEF Verifies
<1>4. FactoryKept
  <2>1. todo = <<>>
    BY DEF Init
  <2>2. SafeQueue(todo, FACTORY_INDEX, flash)
    BY <2>1 DEF SafeQueue
  <2>3. HasFactory => FACTORY_INDEX \in Parts /\ FACTORY_INDEX < 0
    BY DEF Parts, FACTORY_INDEX
  <2>4. HasFactory => Verifies(flash[FACTORY_INDEX])
    BY <1>3, <2>3
  <2> QED BY <2>2, <2>4 DEF FactoryKept
<1>5. BootloaderQueue
  BY DEF BootloaderQueue, Init
<1>6. NeverBricked
  <2> DEFINE r == IF HasFactory THEN FACTORY_INDEX ELSE 0
  <2>1. r \in Parts \ {TEST_APP_INDEX} /\ Verifies(flash[r])
    BY <1>3, OtaAssumption DEF Parts, Slots, FACTORY_INDEX, TEST_APP_INDEX
  <2> QED BY <2>1, VerifiesLoadable DEF NeverBricked
<1> QED BY <1>1, <1>4, <1>5, <1>6 DEF BootInv

(* Whatever the app calls and wherever the power is lost, in an erase, a   *)
(* write of an image or of otadata, the bootloader finds an app to start:  *)
(* without anti-rollback, in every partition table in which the test app   *)
(* is not the only one that cannot be overwritten.                         *)
THEOREM AlwaysAnAppToBoot ==
  ASSUME ~ANTI_ROLLBACK, HasTest => HasFactory
  PROVE  Spec => []NeverBricked
<1>1. BootInv /\ [Next]_vars => BootInv'
  BY NextBootInv
<1>2. Init => BootInv
  BY InitBootInv
<1>3. BootInv => NeverBricked
  BY DEF BootInv
<1> QED BY <1>1, <1>2, <1>3, PTL DEF Spec
----------------------------------------------------------------------------
(* The app's view of the next boot *)

(* The loops of bootloader_utility_load_boot_image reach the selected      *)
(* partition first.                                                        *)
LEMMA LoadsSelected ==
  ASSUME NEW fl, NEW sv, NEW start \in Loadable(fl, sv)
  PROVE  LoadIndex(start, fl, sv) = start
<1> DEFINE good == Loadable(fl, sv)
<1>1. start \in Int /\ start >= FACTORY_INDEX /\ start # TEST_APP_INDEX
  BY OtaAssumption DEF Loadable, Parts, Slots, FACTORY_INDEX, TEST_APP_INDEX
<1>2. \A q \in good : q \in Int /\ q >= FACTORY_INDEX
  BY OtaAssumption DEF Loadable, Parts, Slots, FACTORY_INDEX, TEST_APP_INDEX
<1>3. \A q \in good : TryRank(start, start) <= TryRank(start, q)
  BY <1>1, <1>2 DEF TryRank, FACTORY_INDEX
<1>4. \A p \in good : (\A q \in good : TryRank(start, p) <= TryRank(start, q)) => p = start
  BY <1>1, <1>2 DEF TryRank, FACTORY_INDEX
<1>5. LoadIndex(start, fl, sv)
        = CHOOSE p \in good : \A q \in good : TryRank(start, p) <= TryRank(start, q)
  BY <1>1 DEF LoadIndex
<1> HIDE DEF good
<1> QED BY <1>3, <1>4, <1>5 DEF good

(* Without a factory app the search that starts there goes on with slot 0. *)
LEMMA LoadsFirstSlot ==
  ASSUME NEW fl, NEW sv, ~HasFactory, 0 \in Loadable(fl, sv)
  PROVE  LoadIndex(FACTORY_INDEX, fl, sv) = 0
<1> DEFINE good == Loadable(fl, sv)
<1>1. \A q \in good : q \in Int /\ q >= 0
  BY OtaAssumption DEF Loadable, Parts, Slots, TEST_APP_INDEX
<1>2. \A q \in good : TryRank(FACTORY_INDEX, 0) <= TryRank(FACTORY_INDEX, q)
  BY <1>1 DEF TryRank, FACTORY_INDEX
<1>3. \A p \in good : (\A q \in good : TryRank(FACTORY_INDEX, p) <= TryRank(FACTORY_INDEX, q))
                        => p = 0
  BY <1>1 DEF TryRank, FACTORY_INDEX
<1>4. LoadIndex(FACTORY_INDEX, fl, sv)
        = CHOOSE p \in good : \A q \in good : TryRank(FACTORY_INDEX, p) <= TryRank(FACTORY_INDEX, q)
  BY DEF LoadIndex, FACTORY_INDEX, TEST_APP_INDEX
<1> HIDE DEF good
<1> QED BY <1>2, <1>3, <1>4 DEF good

(* Nothing is aborted when no entry is on trial. *)
LEMMA NothingToAbort ==
  ASSUME NEW d \in [0..1 -> Entry], \A i \in 0..1 : d[i].state # "PENDING_VERIFY"
  PROVE  AbortPending(d) = d
BY DEF AbortPending

LEMMA ViewAgrees ==
  ASSUME TypeOK
  PROVE  BootViewAgrees
<1> DEFINE g == esp_ota_get_boot_partition(otadata)
           k == get_active_otadata(otadata)
           sel == Selection(otadata, flash, secver)
           unset == ota_select_invalid(otadata[0]) /\ ota_select_invalid(otadata[1])
<1> SUFFICES ASSUME ~ANTI_ROLLBACK, \A i \in 0..1 : otadata[i].state # "PENDING_VERIFY",
                    Verifies(flash[g])
             PROVE  BootTarget(otadata, flash, secver) = g
  BY DEF BootViewAgrees
<1>t. otadata \in [0..1 -> Entry] /\ flash \in [Parts -> Image]
  BY DEF TypeOK
<1>1. AbortPending(otadata) = otadata
  BY <1>t, NothingToAbort
<1>2. BootTarget(otadata, flash, secver) = LoadIndex(sel.index, flash, secver)
  BY <1>1 DEF BootTarget
<1>3. k \in {-1, 0, 1}
  BY <1>t, ActiveType
<1>4. sel.index = IF ~unset /\ k # -1 THEN SlotOf(otadata[k])
                  ELSE IF unset /\ ~HasFactory THEN 0 ELSE FACTORY_INDEX
  BY DEF Selection
<1>5. g = IF unset \/ k = -1 THEN find_default_boot_partition ELSE SlotOf(otadata[k])
  BY DEF esp_ota_get_boot_partition
<1> HIDE DEF g, k, sel, unset
<1>6. g \in Parts \ {TEST_APP_INDEX}
  <2>1. CASE unset \/ k = -1
    <3>1. g = find_default_boot_partition
      BY <1>5, <2>1
    <3> QED BY <3>1, OtaAssumption
        DEF find_default_boot_partition, Parts, Slots, FACTORY_INDEX, TEST_APP_INDEX
  <2>2. CASE ~(unset \/ k = -1)
    <3>1. g \in Slots
      BY <1>3, <1>5, <1>t, <2>2, SlotOfType
    <3> QED BY <3>1, OtaAssumption DEF Parts, Slots, TEST_APP_INDEX
  <2> QED BY <2>1, <2>2
<1>7. g \in Loadable(flash, secver)
  BY <1>6, VerifiesLoadable DEF g
<1>8. sel.index = g \/ (sel.index = FACTORY_INDEX /\ ~HasFactory /\ g = 0)
  <2>1. CASE ~unset /\ k # -1
    BY <1>4, <1>5, <2>1
  <2>2. CASE ~(~unset /\ k # -1)
    BY <1>4, <1>5, <2>2 DEF find_default_boot_partition
  <2> QED BY <2>1, <2>2
<1>9. CASE sel.index = g
  BY <1>2, <1>7, <1>9, LoadsSelected DEF g
<1>10. CASE sel.index = FACTORY_INDEX /\ ~HasFactory /\ g = 0
  BY <1>2, <1>7, <1>10, LoadsFirstSlot DEF g
<1> QED BY <1>8, <1>9, <1>10

(* The two implementations of the selection agree: what                    *)
(* esp_ota_get_boot_partition tells the app is what the next boot starts,  *)
(* in every state the app can call it in, torn entries, equal sequence     *)
(* numbers and a missing factory app included.                             *)
THEOREM BootViewAlwaysAgrees ==
  ASSUME ANTI_ROLLBACK => ~HasTest
  PROVE  Spec => []BootViewAgrees
<1>1. TypeOK => BootViewAgrees
  BY ViewAgrees
<1> QED BY <1>1, TypeCorrect, PTL
=============================================================================
