----------------------------- MODULE OtaSelect -----------------------------
(***************************************************************************)
(* The record that says which application boots, and the functions over it *)
(* that the running application (app_update) and the second stage          *)
(* bootloader (bootloader_support) share or duplicate.                     *)
(*                                                                         *)
(* The otadata partition has two flash sectors; each holds one             *)
(* esp_ota_select_entry_t.  The sequence number of the active entry        *)
(* designates OTA slot (ota_seq - 1) % AppCount.  The CRC of an entry      *)
(* covers its sequence number only, so an entry is abstracted to its       *)
(* number, its state and whether the stored CRC matches.                   *)
(***************************************************************************)
EXTENDS Integers, Sequences

CONSTANTS
  AppCount,          \* number of OTA app slots in the partition table
  HasFactory,        \* the table has a factory app partition
  HasTest,           \* the table has a test app partition
  ROLLBACK_ENABLE,   \* CONFIG_BOOTLOADER_APP_ROLLBACK_ENABLE
  ANTI_ROLLBACK,     \* CONFIG_BOOTLOADER_APP_ANTI_ROLLBACK
  Versions,          \* secure versions of the images that exist
  Chunks,            \* an app partition has this many erase units
  MaxSeq             \* bound: largest ota_seq a run explores

(* Anti-rollback selects rollback in Kconfig, and "factory partition       *)
(* should not be in partition table" (bootloader_utility.c:363).           *)
ASSUME OtaAssumption ==
  /\ AppCount \in Nat \ {0}
  /\ Chunks \in Nat \ {0}
  /\ MaxSeq \in Nat /\ AppCount <= MaxSeq
  /\ Versions \subseteq Nat
  /\ HasFactory \in BOOLEAN /\ HasTest \in BOOLEAN
  /\ ROLLBACK_ENABLE \in BOOLEAN /\ ANTI_ROLLBACK \in BOOLEAN
  /\ ANTI_ROLLBACK => ROLLBACK_ENABLE /\ ~HasFactory

FACTORY_INDEX  == -1
TEST_APP_INDEX == -2

Slots == 0 .. AppCount - 1

(* The app partitions, named by the bootloader's partition index. *)
Parts == Slots \cup (IF HasFactory THEN {FACTORY_INDEX} ELSE {})
               \cup (IF HasTest THEN {TEST_APP_INDEX} ELSE {})

----------------------------------------------------------------------------
(* esp_ota_select_entry_t *)

UINT32_MAX == MaxSeq + 1       \* stands for the erased value 0xFFFFFFFF

ImgStates == {"NEW", "PENDING_VERIFY", "VALID", "INVALID", "ABORTED", "UNDEFINED"}

Entry == [seq : 1 .. UINT32_MAX, state : ImgStates, crcOk : BOOLEAN]

ErasedEntry == [seq |-> UINT32_MAX, state |-> "UNDEFINED", crcOk |-> FALSE]

ota_select_invalid(e) == e.seq = UINT32_MAX \/ e.state \in {"INVALID", "ABORTED"}

ota_select_valid(e) == ~ota_select_invalid(e) /\ e.crcOk

(* The entry carries no selection: never written, or the write was torn. *)
IsInitial(e) == e.seq = UINT32_MAX \/ ~e.crcOk

SlotOf(e) == (e.seq - 1) % AppCount

(* Index of the entry to use among the valid ones, -1 if there is none.    *)
(* Equal sequence numbers select sector 0.                                 *)
select_otadata(d, valid, max) ==
  IF valid[0] /\ valid[1]
  THEN IF (max /\ d[0].seq >= d[1].seq) \/ (~max /\ d[0].seq <= d[1].seq) THEN 0 ELSE 1
  ELSE IF valid[0] THEN 0 ELSE IF valid[1] THEN 1 ELSE -1

Valid(d) == [i \in 0..1 |-> ota_select_valid(d[i])]

get_active_otadata(d) == select_otadata(d, Valid(d), TRUE)

----------------------------------------------------------------------------
(* Application images: a partition is a row of erase units, each holding   *)
(* the data of one image version, nothing, or an unreadable mixture.       *)

Erased  == -1
Garbage == -2
Cell    == Versions \cup {Erased, Garbage}
Image   == [1 .. Chunks -> Cell]

(* NOR flash only clears bits: programming data over other data leaves a   *)
(* mixture of both.                                                        *)
Program(old, new) == IF old = Erased \/ old = new THEN new ELSE Garbage

(* esp_image_verify: header, segments and digest belong to one image.      *)
Verifies(img) == \E v \in Versions : img = [c \in 1 .. Chunks |-> v]

(* The esp_app_desc_t lies behind the first segment header. *)
HasDescription(img) == img[1] \in Versions
SecureVersion(img)  == img[1]

(* Mutant: the version check is forgotten. *)
MutNoVersionCheck(img, secver) == ANTI_ROLLBACK => HasDescription(img)

(* check_anti_rollback, against the version burnt into the eFuses. *)
check_anti_rollback(img, secver) ==
  ANTI_ROLLBACK => HasDescription(img) /\ SecureVersion(img) >= secver

Bootable(img, secver) == check_anti_rollback(img, secver) /\ Verifies(img)

----------------------------------------------------------------------------
(* bootloader_utility_get_selected_boot_partition *)

(* Mutant: only the first entry is looked at. *)
MutAbortFirstOnly(d) ==
  [d EXCEPT ![0].state = IF ROLLBACK_ENABLE /\ @ = "PENDING_VERIFY" THEN "ABORTED" ELSE @]

(* First loop: an app that was started once and did not confirm itself is  *)
(* given up.                                                               *)
AbortPending(d) ==
  [i \in 0..1 |-> IF ROLLBACK_ENABLE /\ d[i].state = "PENDING_VERIFY"
                  THEN [d[i] EXCEPT !.state = "ABORTED"] ELSE d[i]]

get_active_otadata_with_check_anti_rollback(d, flash, secver) ==
  select_otadata(d, [i \in 0..1 |-> /\ ota_select_valid(d[i])
                                    /\ check_anti_rollback(flash[SlotOf(d[i])], secver)], TRUE)

(* The selection made from the entries a after AbortPending: the active    *)
(* entry (-1: none), the partition index to start from, and whether        *)
(* set_actual_ota_seq is to write a first entry later.                     *)
Selection(a, flash, secver) ==
  LET unset  == IF ANTI_ROLLBACK
                THEN IsInitial(a[0]) /\ IsInitial(a[1])
                ELSE ota_select_invalid(a[0]) /\ ota_select_invalid(a[1])
      active == IF unset THEN -1
                ELSE IF ANTI_ROLLBACK
                     THEN get_active_otadata_with_check_anti_rollback(a, flash, secver)
                     ELSE get_active_otadata(a)
  IN [active  |-> active,
      index   |-> IF active # -1 THEN SlotOf(a[active])
                  ELSE IF unset /\ ~ANTI_ROLLBACK /\ ~HasFactory THEN 0 ELSE FACTORY_INDEX,
      initial |-> unset /\ (~ANTI_ROLLBACK => ~HasFactory /\ IsInitial(a[0]) /\ IsInitial(a[1]))]

(* Mutant: every NEW entry is marked, not only the active one. *)
MutMarkAll(a, active) ==
  [i \in 0..1 |-> IF ROLLBACK_ENABLE /\ active # -1 /\ a[i].state = "NEW"
                  THEN [a[i] EXCEPT !.state = "PENDING_VERIFY"] ELSE a[i]]

(* A NEW active entry is about to get its one monitored boot. *)
MarkFirstBoot(a, active) ==
  [i \in 0..1 |-> IF ROLLBACK_ENABLE /\ i = active /\ a[i].state = "NEW"
                  THEN [a[i] EXCEPT !.state = "PENDING_VERIFY"] ELSE a[i]]

----------------------------------------------------------------------------
(* bootloader_utility_load_boot_image *)

(* Partitions are tried from start down to the factory app, then from      *)
(* start + 1 up: the position of partition p in that order.                *)
TryRank(start, p) == IF p <= start THEN start - p ELSE p + 1

(* Those that would be loaded; the loops skip what the table does not have.*)
Loadable(flash, secver) ==
  {p \in Parts \ {TEST_APP_INDEX} : Bootable(flash[p], secver)}

(* The partition whose app is started; NO_APP means reset.  The test app   *)
(* is the last resort and is not checked for its secure version.           *)
NO_APP == -99

(* Mutant: there is no last resort. *)
MutNoTestFallback(start, flash, secver) ==
  LET good == Loadable(flash, secver)
  IN IF start # TEST_APP_INDEX /\ good # {}
     THEN CHOOSE p \in good : \A q \in good : TryRank(start, p) <= TryRank(start, q)
     ELSE IF start = TEST_APP_INDEX THEN TEST_APP_INDEX ELSE NO_APP

LoadIndex(start, flash, secver) ==
  LET good == Loadable(flash, secver)
  IN IF start # TEST_APP_INDEX /\ good # {}
     THEN CHOOSE p \in good : \A q \in good : TryRank(start, p) <= TryRank(start, q)
     ELSE IF HasTest /\ Verifies(flash[TEST_APP_INDEX]) THEN TEST_APP_INDEX ELSE NO_APP

(* What the next undisturbed boot would start. *)
BootTarget(d, flash, secver) ==
  LET sel == Selection(AbortPending(d), flash, secver)
      s2  == IF ANTI_ROLLBACK /\ sel.active # -1 /\ AbortPending(d)[sel.active].state = "VALID"
                /\ HasDescription(flash[sel.index]) /\ SecureVersion(flash[sel.index]) > secver
             THEN SecureVersion(flash[sel.index]) ELSE secver
  IN LoadIndex(sel.index, flash, s2)

----------------------------------------------------------------------------
(* app_update's view of the same records *)

(* esp_rewrite_ota_data: the least number not below the active one that    *)
(* designates slot sub.                                                    *)
NextSeq(seq, sub) ==
  LET r == (sub + 1) % AppCount
      i == CHOOSE i \in 0 .. seq :
             /\ seq <= r + i * AppCount
             /\ \A j \in 0 .. i - 1 : seq > r + j * AppCount
  IN r + i * AppCount

find_default_boot_partition == IF HasFactory THEN FACTORY_INDEX ELSE 0

(* Mutant: the CRC of the entries is not looked at. *)
MutBootViewNoCrc(d) ==
  LET ok == [i \in 0..1 |-> ~ota_select_invalid(d[i])]
      k  == select_otadata(d, ok, TRUE)
  IN IF k = -1 THEN find_default_boot_partition ELSE SlotOf(d[k])

esp_ota_get_boot_partition(d) ==
  LET active == get_active_otadata(d)
  IN IF (ota_select_invalid(d[0]) /\ ota_select_invalid(d[1])) \/ active = -1
     THEN find_default_boot_partition
     ELSE SlotOf(d[active])

(* esp_ota_get_state_partition: the state in the first entry that names    *)
(* the slot, "NOT_FOUND" otherwise.                                        *)
esp_ota_get_state_partition(d, p) ==
  LET names(i) == SlotOf(d[i]) = p /\ d[i].crcOk
  IN IF p \in Slots /\ names(0) THEN d[0].state
     ELSE IF p \in Slots /\ names(1) THEN d[1].state ELSE "NOT_FOUND"

(* Mutant: the image of the other slot is not verified. *)
MutRollbackUnverified(d, flash, secver) ==
  LET active == get_active_otadata(d)
  IN active # -1 /\ (ota_select_valid(d[1 - active]) \/ HasFactory)

esp_ota_check_rollback_is_possible(d, flash, secver) ==
  LET active == get_active_otadata(d)
      last   == 1 - active
  IN /\ active # -1
     /\ IF ota_select_valid(d[last])
        THEN Bootable(flash[SlotOf(d[last])], secver)
        ELSE ~ANTI_ROLLBACK /\ HasFactory /\ Verifies(flash[FACTORY_INDEX])
============================================================================
