------------------------------- MODULE EspOta -------------------------------
(***************************************************************************)
(* Over-the-air update: the application's calls into app_update, the       *)
(* second stage bootloader, and power loss between and during the flash    *)
(* operations of both.                                                     *)
(*                                                                         *)
(* A call or a bootloader phase decides what it will do from what it reads *)
(* and queues its flash operations in todo; FlashStep executes them one by *)
(* one.  Control continues at pc when todo is empty.  PowerLoss may strike *)
(* at any moment and may tear the operation in progress.                   *)
(***************************************************************************)
EXTENDS OtaSelect, FiniteSets

CONSTANTS
  Handles,           \* bound: update handles that can be open at once
  SecVerSize,        \* CONFIG_BOOTLOADER_APP_SEC_VER_SIZE_EFUSE_FIELD
  FACTORY_RESET,     \* CONFIG_BOOTLOADER_FACTORY_RESET
  OTA_DATA_ERASE,    \* CONFIG_BOOTLOADER_OTA_DATA_ERASE
  APP_TEST,          \* CONFIG_BOOTLOADER_APP_TEST
  Unstable,          \* power may be lost at any moment
  Reselect,          \* the caller may select the slot already selected
  ConfirmOther,      \* the caller may confirm while another slot is selected
  Forget             \* the caller may use esp_ota_erase_last_boot_app_partition

ASSUME EspOtaAssumption ==
  /\ SecVerSize \in Nat
  /\ {FACTORY_RESET, OTA_DATA_ERASE, APP_TEST} \subseteq BOOLEAN
  /\ {Unstable, Reselect, ConfirmOther, Forget} \subseteq BOOLEAN

VARIABLES
  otadata,           \* the two entries in flash
  flash,             \* the app partitions
  secver,            \* secure version burnt into the eFuses
  pc,                \* where control continues: "reset", "gpio", "reselect", "load" or "run"
  todo,              \* flash operations of the call or phase in progress
  boot,              \* bootloader memory: index to start from, ota_has_initial_contents
  running,           \* partition of the running app; NO_APP in the bootloader
  ops,               \* s_ota_ops_entries_head: the open update handles
  call,              \* history: the last selecting call, and what would have booted before it
  fresh              \* history: entries that were NEW when a boot began, no app having run since

vars == <<otadata, flash, secver, pc, todo, boot, running, ops, call, fresh>>

device == <<otadata, flash, secver>>

NoEntry == [part |-> NO_APP, pos |-> 0]
NoCall  == [fn |-> "none", part |-> NO_APP, old |-> NO_APP, trial |-> FALSE]

----------------------------------------------------------------------------
(* Flash operations *)

EraseEntry(i)      == [op |-> "erase_entry", i |-> i]
WriteEntry(i, e)   == [op |-> "write_entry", i |-> i, e |-> e]
EraseCell(p, c)    == [op |-> "erase_cell", p |-> p, c |-> c]
WriteCell(p, c, v) == [op |-> "write_cell", p |-> p, c |-> c, v |-> v]
Burn(v)            == [op |-> "burn", v |-> v]

Operations ==
  {EraseEntry(i) : i \in 0..1}
    \cup {WriteEntry(i, e) : i \in 0..1, e \in Entry}
    \cup {EraseCell(p, c) : p \in Parts, c \in 1 .. Chunks}
    \cup {WriteCell(p, c, v) : p \in Slots, c \in 1 .. Chunks, v \in Versions}
    \cup {Burn(v) : v \in Versions}

(* write_otadata and rewrite_ota_seq: erase the sector, write the entry. *)
Rewrite(i, e) == <<EraseEntry(i), WriteEntry(i, e)>>

EraseCells(p, n) == [c \in 1 .. n |-> EraseCell(p, c)]

(* esp_efuse_update_secure_version *)
UpdateSecureVersion(v) == IF v <= SecVerSize /\ secver < v THEN <<Burn(v)>> ELSE <<>>

(* The operation x done completely. *)
Perform(x) ==
  /\ otadata' = CASE x.op = "erase_entry" -> [otadata EXCEPT ![x.i] = ErasedEntry]
                  [] x.op = "write_entry" -> [otadata EXCEPT ![x.i] = x.e]
                  [] OTHER -> otadata
  /\ flash' = CASE x.op = "erase_cell" -> [flash EXCEPT ![x.p][x.c] = Erased]
                [] x.op = "write_cell" -> [flash EXCEPT ![x.p][x.c] = Program(@, x.v)]
                [] OTHER -> flash
  /\ secver' = IF x.op = "burn" THEN x.v ELSE secver

(* The operation x interrupted: a sector half erased, an entry whose CRC   *)
(* or state and CRC are not written, an unreadable cell, some of the fuses.*)
Tear(x) ==
  \/ /\ x.op = "erase_entry"
     /\ otadata' = [otadata EXCEPT ![x.i].crcOk = FALSE]
     /\ UNCHANGED <<flash, secver>>
  \/ /\ x.op = "write_entry"
     /\ \E s \in {x.e.state, "UNDEFINED"} :
          otadata' = [otadata EXCEPT ![x.i] = [x.e EXCEPT !.state = s, !.crcOk = FALSE]]
     /\ UNCHANGED <<flash, secver>>
  \/ /\ x.op \in {"erase_cell", "write_cell"}
     /\ flash' = [flash EXCEPT ![x.p][x.c] = Garbage]
     /\ UNCHANGED <<otadata, secver>>
  \/ /\ x.op = "burn"
     /\ \E v \in Versions : secver < v /\ v < x.v /\ secver' = v
     /\ UNCHANGED <<otadata, flash>>

FlashStep ==
  /\ todo # <<>>
  /\ Perform(Head(todo))
  /\ todo' = Tail(todo)
  /\ UNCHANGED <<pc, boot, running, ops, call, fresh>>

(* fresh forgets a boot that power loss cuts off: to the code that boot    *)
(* was the app's trial, whether or not the app had been started.           *)
PowerLoss ==
  /\ UNCHANGED device \/ (todo # <<>> /\ Tear(Head(todo)))
  /\ pc' = "reset" /\ running' = NO_APP
  /\ todo' = <<>>
  /\ ops' = [h \in Handles |-> NoEntry]
  /\ call' = IF call.fn = "mark_invalid" /\ todo # <<>> THEN NoCall ELSE call
  /\ fresh' = {}
  /\ UNCHANGED boot

----------------------------------------------------------------------------
(* The second stage bootloader *)

(* bootloader_utility_get_selected_boot_partition; it runs a second time   *)
(* after a factory reset.                                                  *)
GetSelectedBootPartition ==
  LET a   == AbortPending(otadata)
      sel == Selection(a, flash, secver)
      m   == MarkFirstBoot(a, sel.active)
      Changed(from, to, i) == IF from[i] # to[i] THEN Rewrite(i, to[i]) ELSE <<>>
  IN /\ todo = <<>> /\ pc \in {"reset", "reselect"}
     /\ todo' = Changed(otadata, a, 0) \o Changed(otadata, a, 1)
                \o Changed(a, m, 0) \o Changed(a, m, 1)
                \o (IF /\ ANTI_ROLLBACK /\ sel.active # -1
                       /\ m[sel.active].state = "VALID"
                       /\ HasDescription(flash[sel.index])
                    THEN UpdateSecureVersion(SecureVersion(flash[sel.index])) ELSE <<>>)
     /\ boot' = [index |-> sel.index, initial |-> sel.initial]
     /\ pc' = IF pc = "reset" THEN "gpio" ELSE "load"
     /\ fresh' = IF pc = "reset" THEN fresh \cup {i \in 0..1 : otadata[i].state = "NEW"}
                 ELSE fresh
     /\ UNCHANGED <<device, running, ops, call>>

(* selected_boot_partition of bootloader_start.c: the pins are read after  *)
(* the selection has been made (and possibly written).                     *)
CheckPins ==
  /\ todo = <<>> /\ pc = "gpio"
  /\ \/ /\ pc' = "load"                               \* no pin held, or waking from deep sleep
        /\ UNCHANGED <<todo, boot>>
     \/ /\ FACTORY_RESET /\ pc' = "reselect"
        /\ todo' = IF OTA_DATA_ERASE THEN <<EraseEntry(0), EraseEntry(1)>> ELSE <<>>
        /\ UNCHANGED boot
     \/ /\ APP_TEST /\ ~HasTest /\ pc' = "reset"      \* INVALID_INDEX
        /\ UNCHANGED <<todo, boot>>
     \/ /\ APP_TEST /\ HasTest /\ pc' = "load"
        /\ boot' = [boot EXCEPT !.index = TEST_APP_INDEX]
        /\ UNCHANGED todo
  /\ UNCHANGED <<device, running, ops, call, fresh>>

(* bootloader_utility_load_boot_image with set_actual_ota_seq. *)
LoadBootImage ==
  LET p == LoadIndex(boot.index, flash, secver)
  IN /\ todo = <<>> /\ pc = "load"
     /\ IF p = NO_APP
        THEN /\ pc' = "reset"
             /\ UNCHANGED <<todo, running, call, fresh>>
        ELSE /\ pc' = "run"
             /\ running' = p
             /\ todo' = IF p > FACTORY_INDEX /\ boot.initial
                        THEN Rewrite(0, [seq |-> p + 1, state |-> "VALID", crcOk |-> TRUE])
                             \o (IF ANTI_ROLLBACK
                                 THEN UpdateSecureVersion(SecureVersion(flash[p])) ELSE <<>>)
                        ELSE <<>>
             /\ call' = NoCall
             /\ fresh' = {}
     /\ UNCHANGED <<device, boot, ops>>

----------------------------------------------------------------------------
(* The application *)

AppCalls == todo = <<>> /\ pc = "run"

Active == get_active_otadata(otadata)

IsSelected(p) == Active # -1 /\ SlotOf(otadata[Active]) = p

(* Mutant: the partition conflict is not checked. *)
MutBeginAnywhere(h, p, n) ==
  /\ AppCalls /\ ops[h] = NoEntry
  /\ todo' = EraseCells(p, n)
  /\ ops' = [ops EXCEPT ![h] = [part |-> p, pos |-> 0]]
  /\ call' = NoCall
  /\ UNCHANGED <<device, pc, boot, running, fresh>>

(* esp_ota_begin: n is the number of erase units the announced size covers *)
(* (all of them for OTA_SIZE_UNKNOWN).                                     *)
esp_ota_begin(h, p, n) ==
  /\ AppCalls /\ ops[h] = NoEntry
  /\ p # running
  /\ ROLLBACK_ENABLE => esp_ota_get_state_partition(otadata, running) # "PENDING_VERIFY"
  /\ todo' = EraseCells(p, n)
  /\ ops' = [ops EXCEPT ![h] = [part |-> p, pos |-> 0]]
  /\ call' = NoCall
  /\ UNCHANGED <<device, pc, boot, running, fresh>>

(* esp_ota_write of the next unit of image v, whatever was erased; a write *)
(* past the partition is refused.                                          *)
esp_ota_write(h, v) ==
  /\ AppCalls /\ ops[h] # NoEntry
  /\ ops[h].pos < Chunks
  /\ todo' = <<WriteCell(ops[h].part, ops[h].pos + 1, v)>>
  /\ ops' = [ops EXCEPT ![h].pos = @ + 1]
  /\ call' = NoCall
  /\ UNCHANGED <<device, pc, boot, running, fresh>>

(* esp_ota_end frees the handle whether or not the image verifies. *)
esp_ota_end(h) ==
  /\ AppCalls /\ ops[h] # NoEntry
  /\ ops' = [ops EXCEPT ![h] = NoEntry]
  /\ call' = NoCall
  /\ UNCHANGED <<device, pc, todo, boot, running, fresh>>

(* esp_rewrite_ota_data: the entry that is not active gets the next        *)
(* number for the slot.  SUB_TYPE_ID masks the test app's subtype to 0.    *)
SUB_TYPE_ID(p) == IF p = TEST_APP_INDEX THEN 0 ELSE p

(* Mutant: the new selection overwrites the active entry. *)
MutRewriteInPlace(p) ==
  LET i   == IF Active = -1 THEN 0 ELSE Active
      seq == IF Active = -1 THEN SUB_TYPE_ID(p) + 1
             ELSE NextSeq(otadata[Active].seq, SUB_TYPE_ID(p))
  IN /\ seq <= MaxSeq
     /\ todo' = Rewrite(i, [seq |-> seq, crcOk |-> TRUE,
                            state |-> IF ROLLBACK_ENABLE THEN "NEW" ELSE "UNDEFINED"])

esp_rewrite_ota_data(p) ==
  LET i   == IF Active = -1 THEN 0 ELSE 1 - Active
      seq == IF Active = -1 THEN SUB_TYPE_ID(p) + 1
             ELSE NextSeq(otadata[Active].seq, SUB_TYPE_ID(p))
  IN /\ seq <= MaxSeq
     /\ todo' = Rewrite(i, [seq |-> seq, crcOk |-> TRUE,
                            state |-> IF ROLLBACK_ENABLE THEN "NEW" ELSE "UNDEFINED"])

esp_ota_set_boot_partition(p) ==
  /\ AppCalls
  /\ Verifies(flash[p])
  /\ LET old == BootTarget(otadata, flash, secver)
         trial == Active # -1 /\ otadata[Active].state \in {"NEW", "PENDING_VERIFY"}
         selected == [fn |-> "set_boot", part |-> p, old |-> old, trial |-> trial]
     IN \/ /\ p = FACTORY_INDEX
           /\ todo' = <<EraseEntry(0), EraseEntry(1)>>
           /\ call' = selected
        \/ /\ p # FACTORY_INDEX /\ (ANTI_ROLLBACK => SecureVersion(flash[p]) >= secver)
           /\ esp_rewrite_ota_data(p)
           /\ call' = selected
        \/ /\ p # FACTORY_INDEX /\ ANTI_ROLLBACK /\ SecureVersion(flash[p]) < secver
           /\ todo' = EraseCells(p, Chunks)
           /\ call' = NoCall
  /\ UNCHANGED <<device, pc, boot, running, ops, fresh>>

(* Mutant: the confirmation is written to the other sector. *)
MutConfirmOtherSector ==
  /\ AppCalls
  /\ Active # -1 /\ otadata[Active].state # "VALID"
  /\ todo' = Rewrite(1 - Active, [otadata[1 - Active] EXCEPT !.state = "VALID"])
  /\ call' = [fn |-> "mark_valid", part |-> running, trial |-> FALSE,
              old |-> BootTarget(otadata, flash, secver)]
  /\ UNCHANGED <<device, pc, boot, running, ops, fresh>>

(* esp_ota_mark_app_valid_cancel_rollback works on the active entry,       *)
(* whichever partition is running.                                         *)
esp_ota_mark_app_valid_cancel_rollback ==
  /\ AppCalls
  /\ Active # -1 /\ otadata[Active].state # "VALID"
  /\ todo' = Rewrite(Active, [otadata[Active] EXCEPT !.state = "VALID"])
             \o (IF ANTI_ROLLBACK THEN UpdateSecureVersion(SecureVersion(flash[running])) ELSE <<>>)
  /\ call' = [fn |-> "mark_valid", part |-> running, trial |-> FALSE,
              old |-> BootTarget(otadata, flash, secver)]
  /\ UNCHANGED <<device, pc, boot, running, ops, fresh>>

(* esp_ota_mark_app_invalid_rollback_and_reboot: the restart follows the   *)
(* write.                                                                  *)
esp_ota_mark_app_invalid_rollback_and_reboot ==
  /\ AppCalls
  /\ Active # -1
  /\ esp_ota_check_rollback_is_possible(otadata, flash, secver)
  /\ todo' = Rewrite(Active, [otadata[Active] EXCEPT !.state = "INVALID"])
  /\ pc' = "reset"
  /\ call' = [fn |-> "mark_invalid", part |-> running, trial |-> FALSE, old |-> NO_APP]
  /\ running' = NO_APP
  /\ ops' = [h \in Handles |-> NoEntry]
  /\ UNCHANGED <<device, boot, fresh>>

esp_ota_erase_last_boot_app_partition ==
  LET last == otadata[1 - Active]
  IN /\ AppCalls
     /\ Active # -1
     /\ ~IsInitial(last)
     /\ SlotOf(last) # running
     /\ todo' = Append(EraseCells(SlotOf(last), Chunks), EraseEntry(1 - Active))
     /\ call' = NoCall
     /\ UNCHANGED <<device, pc, boot, running, ops, fresh>>

(* esp_restart, a panic or a watchdog, between two calls. *)
Restart ==
  /\ AppCalls
  /\ pc' = "reset" /\ running' = NO_APP
  /\ ops' = [h \in Handles |-> NoEntry]
  /\ UNCHANGED <<device, todo, boot, call, fresh>>

----------------------------------------------------------------------------
(* A device as it leaves the factory: otadata erased, one good image in    *)
(* the partition that boots first, test app in place, other slots empty.   *)
Init ==
  /\ otadata = [i \in 0..1 |-> ErasedEntry]
  /\ \E v \in Versions :
       flash = [p \in Parts |-> [c \in 1 .. Chunks |->
                  IF p < 0 \/ (p = 0 /\ ~HasFactory) THEN v ELSE Erased]]
  /\ secver = 0
  /\ pc = "reset" /\ todo = <<>> /\ running = NO_APP
  /\ boot = [index |-> FACTORY_INDEX, initial |-> FALSE]
  /\ ops = [h \in Handles |-> NoEntry]
  /\ call = NoCall /\ fresh = {}

BootNext == GetSelectedBootPartition \/ CheckPins \/ LoadBootImage

(* What the application may call, within the environment's constants. *)
AppNext ==
  \/ \E h \in Handles, p \in Slots, n \in 1 .. Chunks : esp_ota_begin(h, p, n)
  \/ \E h \in Handles, v \in Versions : esp_ota_write(h, v)
  \/ \E h \in Handles : esp_ota_end(h)
  \/ \E p \in Parts : (Reselect \/ ~IsSelected(p)) /\ esp_ota_set_boot_partition(p)
  \/ (ConfirmOther \/ IsSelected(running)) /\ esp_ota_mark_app_valid_cancel_rollback
  \/ (ConfirmOther \/ IsSelected(running)) /\ esp_ota_mark_app_invalid_rollback_and_reboot
  \/ Forget /\ esp_ota_erase_last_boot_app_partition
  \/ Restart

Next == FlashStep \/ (Unstable /\ PowerLoss) \/ BootNext \/ AppNext

Spec == Init /\ [][Next]_vars

(* The bootloader and a call in progress are single threaded code that     *)
(* runs on by itself; nothing obliges the application to make a call.      *)
FairSpec == Spec /\ WF_vars(FlashStep) /\ WF_vars(BootNext)

----------------------------------------------------------------------------
(* Properties *)

(* Every variable has the type its C counterpart has. *)
TypeOK ==
  /\ otadata \in [0..1 -> Entry]
  /\ flash \in [Parts -> Image]
  /\ secver \in Nat
  /\ pc \in {"reset", "gpio", "reselect", "load", "run"}
  /\ todo \in Seq(Operations)
  /\ boot \in [index : Parts \cup {FACTORY_INDEX}, initial : BOOLEAN]
  /\ running \in Parts \cup {NO_APP}
  /\ ops \in [Handles -> {NoEntry} \cup [part : Slots, pos : 0 .. Chunks]]
  /\ call \in [fn : {"none", "set_boot", "mark_valid", "mark_invalid"},
               part : Parts \cup {NO_APP}, old : Parts \cup {NO_APP}, trial : BOOLEAN]
  /\ fresh \subseteq 0..1

(* The flash the running app executes from is never erased or programmed:  *)
(* whatever sequence of calls and handles, its image keeps verifying.      *)
RunningIntact == running # NO_APP => Verifies(flash[running])

(* The eFuse version is never raised above the version of the app that     *)
(* runs: the app can be booted again.                                      *)
RunningNotRevoked ==
  ANTI_ROLLBACK /\ running \in Slots => SecureVersion(flash[running]) >= secver

(* ota.rst:148: the version on chip follows an app that booted and was     *)
(* found good, so whenever it is raised some image can still be booted.    *)
FusesFollowGoodApp ==
  [][ secver' > secver => \E p \in Parts : Bootable(flash[p], secver') ]_vars

(* At every moment, power loss in the middle of any operation included,    *)
(* some partition holds an app that the bootloader would start.            *)
NeverBricked == Loadable(flash, secver) # {}

(* esp_ota_ops.h:139: after esp_ota_set_boot_partition returns ESP_OK, a   *)
(* restart boots the partition.                                            *)
SetBootTakesEffect ==
  AppCalls /\ call.fn = "set_boot" => BootTarget(otadata, flash, secver) = call.part

(* Power loss while esp_ota_set_boot_partition writes the selection of an  *)
(* OTA slot leaves the old or the new one in force, whatever happens until *)
(* an app runs.  (While the app selected so far is itself on trial, the    *)
(* entry being overwritten is its only way back.)                          *)
SwitchAtomic ==
  [][ /\ pc = "load" /\ running' # NO_APP
      /\ call.fn = "set_boot" /\ call.part \in Slots /\ ~call.trial
      => running' \in {call.old, call.part} ]_vars

(* Once the app has confirmed itself it is what boots from then on. *)
ConfirmSticks ==
  AppCalls /\ call.fn = "mark_valid" => BootTarget(otadata, flash, secver) = call.part

(* ota.rst:42: esp_ota_mark_app_valid_cancel_rollback "marks the running   *)
(* application with the state ESP_OTA_IMG_VALID".                          *)
MarksRunningApp ==
  AppCalls /\ call.fn = "mark_valid" /\ call.part \in Slots
    => esp_ota_get_state_partition(otadata, call.part) = "VALID"

(* After an app declared itself invalid and restarted (no power loss in    *)
(* between), another one boots, whatever happens until then.               *)
RollbackSwitches ==
  pc = "reset" /\ todo = <<>> /\ call.fn = "mark_invalid"
    => BootTarget(otadata, flash, secver) # call.part

(* What a call that selects another app promises once it has returned:     *)
(* esp_ota_set_boot_partition and                                          *)
(* esp_ota_mark_app_invalid_rollback_and_reboot decide the next boot.      *)
SelectionHolds == SetBootTakesEffect /\ RollbackSwitches

(* What esp_ota_mark_app_valid_cancel_rollback promises once it has        *)
(* returned: the running app is marked, and is the one that boots.         *)
ConfirmHolds == ConfirmSticks /\ MarksRunningApp

(* While esp_ota_check_rollback_is_possible answers true, a running app    *)
(* that has not confirmed itself will not survive the next reset           *)
(* (ota.rst:76, "otherwise the application will be rolled back").          *)
RollbackPromise ==
  /\ AppCalls /\ IsSelected(running) /\ otadata[Active].state = "PENDING_VERIFY"
  /\ esp_ota_check_rollback_is_possible(otadata, flash, secver)
  => BootTarget(otadata, flash, secver) # running

(* esp_ota_get_boot_partition predicts the bootloader's choice, when the   *)
(* bootloader is not about to abort an app or to consult the eFuses.       *)
BootViewAgrees ==
  LET g == esp_ota_get_boot_partition(otadata)
  IN /\ AppCalls /\ ~ANTI_ROLLBACK
     /\ \A i \in 0..1 : otadata[i].state # "PENDING_VERIFY"
     /\ Verifies(flash[g])
     => BootTarget(otadata, flash, secver) = g

(* The bootloader takes an app out of the state NEW only to start it, or   *)
(* because it cannot be started (esp_flash_partitions.h:59: "First boot    *)
(* for this app was"): when an app runs at last, after however many resets *)
(* of the bootloader's own, every app that was NEW when the first of these *)
(* boots began still is NEW, or is the one that runs, or cannot be loaded. *)
(* Two ways of using up a trial without a run are not covered: power loss  *)
(* between the write of PENDING_VERIFY and the start of the app (PowerLoss *)
(* clears fresh), and a pin held in that boot (FACTORY_RESET, APP_TEST).   *)
TrialIsRun ==
  [][ pc = "load" /\ pc' = "run"
      => \A i \in fresh : \/ otadata[i].state = "NEW"
                          \/ running' = SlotOf(otadata[i])
                          \/ ~Bootable(flash[SlotOf(otadata[i])], secver) ]_vars

(* No update is opened while the selected and running app is unconfirmed   *)
(* (esp_ota_ops.h:96), although esp_ota_begin consults the first entry     *)
(* that names the running slot and not the active one.                     *)
ConfirmedBeforeUpdate ==
  [][ (\E h \in Handles : ops[h] = NoEntry /\ ops'[h] # NoEntry)
      => ~(IsSelected(running) /\ otadata[Active].state = "PENDING_VERIFY") ]_vars

(* Once the power is stable every reset, of the bootloader's own doing     *)
(* included, ends with some app running: there is no reset loop.           *)
EventuallyRuns ==
  <>[][PowerLoss => BootNext \/ Restart]_vars => (pc = "reset" ~> AppCalls)
============================================================================
