# Verification of ESP-IDF core components

TLA+ models, TLC runs and TLAPS proofs for the parts of this ESP-IDF tree whose
correctness is a matter of protocol: what survives a power loss, what two
callers may do to each other, what must eventually happen.

## The system

ESP-IDF is the software development framework of the ESP32.  Most of the tree
is drivers, vendored stacks and glue.  The components below carry state
machines of their own.

| component | state it keeps | operations | interacts with | what is hard |
|---|---|---|---|---|
| `app_update` | list of open update handles; the two `otadata` entries in flash | begin / write / end an update, select the boot partition, confirm or reject the running app, erase the previous one | flash, eFuses, the bootloader (through `otadata` only) | power loss in any flash operation; calls in an unexpected order |
| `bootloader`, `bootloader_support` | none between boots but `otadata`, `ota_has_initial_contents` during one | select an entry, abort / start a trial, read pins, try partitions in order | `otadata` written by `app_update`, eFuses | both sides decide from the same records with separate code; resets at any moment |
| `efuse` | secure version (bits only ever set) | check, update | bootloader, `app_update` | cannot be undone; a burn may be partial |
| `esp_ringbuf` | acquire / write / read / free pointers, full flag, item headers, two semaphores | send, acquire / complete, receive, return, from tasks and ISRs | FreeRTOS semaphores | semaphore and critical section are two steps; items returned out of order |
| `nvs_flash` | page states, entry state tables, page list, hash list | set / get / erase, page activation, garbage collection, recovery at init | flash | write before erase, duplicates after power loss, multi-page blobs |
| `wear_levelling` | position of the dummy sector, two copies of the state | erase, write, move the dummy sector, recover | flash | state copies out of step after power loss |
| `esp_event` | loops, handler lists, bounded queue | post, dispatch, register, unregister, delete | FreeRTOS queue, mutex | handlers that change the lists during dispatch |
| `esp_timer`, `ipc`, `pm_locks` | sorted timer list, per-core request, lock counts | start / stop / delete, call on another core, acquire / release | ISR, timer task | callbacks that stop or delete their own timer |
| `pthread` | thread list, states, condition waiters | create, join, detach, exit, wait, signal | FreeRTOS tasks | join / detach / exit races |

`PROJECT.json` lists every other component with the reason it is left out:
vendored code, binary libraries, register-level drivers, host tools, or
behaviour that is only formatting and parsing.

### What makes the update system correct

* the flash an app executes from is never erased or written;
* at every moment some app can be booted, however power fails;
* a selection is atomic, takes effect, and is what the application reads back;
* a new app gets one trial, which is a run of it as long as power lasts and no pin
  is held, and one that is not confirmed gives way;
* the secure version is raised only to what can still boot;
* a reset ends with an app running.

### What makes a ring buffer correct

* no byte or item is lost, duplicated, reordered, resized or overwritten while
  somebody writes or reads it;
* the pointers, the full flag and the counter describe one state of the ring,
  and all space comes back once everything is returned;
* a semaphore is never lost: whoever waits is woken when there is space or data.

### What makes non-volatile storage correct

* power loss at any flash write leaves each key with its old or its new value,
  a blob of several chunks included;
* the storage can always be mounted again, with a page free for the next move;
* the search returns the newest value, there is one copy of it, and what the page
  objects cache is what the flash holds.

### What makes wear levelling correct

* a sector that is not being erased or written keeps its content through page
  moves, rounds, transactions, and power loss in any of them;
* the position in RAM and the one the next mount reconstructs address the same
  data.

### What makes an event loop correct

* the handlers of an event are called in the order of their registration, all of
  them, once each;
* handlers that register and unregister during the dispatch do not make it read
  freed memory;
* a full queue is served, also when a handler posts to its own loop.

### What makes threads correct

* a thread that ends finds its descriptor; a task that joins keeps it until it is
  done, gets the value and returns;
* a task is deleted only when it holds no lock of the component;
* no signal is lost between the release of the mutex and the wait.

## Modules

| module | models |
|---|---|
| `OtaSelect` | `esp_ota_select_entry_t` and the pure functions over it: validity, the choice of the active entry, the bootloader's selection and order of partitions, the next sequence number, the application's queries |
| `EspOta` | the state machine: flash, `otadata`, eFuses, the bootloader's phases, the application's calls, power loss |
| `MCEspOta` | `EspOta` with interchangeable handles, for TLC |
| `EspOtaProofs` | the inductive invariant of `EspOta` and the theorems about the running image |
| `EspOtaBootProofs` | there is always an app to boot, and the application's view of the boot partition agrees with the bootloader's |
| `EspOtaSelectProofs` | the pair of `otadata` entries between any two flash operations: selection, confirmation, rollback, trials |
| `EspOtaFuseProofs` | anti-rollback: the fuses never pass the last app that can be started |
| `RingbufTasks` | the two semaphores of a ring buffer and the steps of a call around its critical section |
| `ByteFifo` | abstract specification of a byte buffer: a bounded FIFO stream of which one piece may be lent |
| `RingbufByteBuf` | ring buffers of type byte buffer, composed with `RingbufTasks`; `ImplementsFifo` instantiates `ByteFifo` |
| `RingbufItems` | no-split and allow-split ring buffers, composed with `RingbufTasks` |
| `RingbufByteBufProofs` | the inductive invariant of the byte buffer, its safety theorems, and that it implements `ByteFifo` |
| `RingbufItemsProofs` | the item buffers keep items apart, in order and accounted for, for every size |
| `KvStore` | abstract specification of a storage layer: a map in which a call changes its keys, each at once, and power loss only those |
| `NvsPage` | one NVS page: header, entry state table, entries, the page object with its caches; the operations of `nvs::Page` |
| `NvsStorage` | page manager and storage over `NvsPage`, power loss; `KeyValueStore` instantiates `KvStore` |
| `WlFlash` | the wear levelling layer: address mapping, page moves, state copies, mount |
| `WlExtSafe` | FAT sectors in safety mode over `WlFlash`, power loss; `DiskSurvives` instantiates `KvStore` |
| `WlProofs` | addresses, page moves, erases and writes of `WlFlash` for every number of sectors, with power loss |
| `EspEventTree` | the three levels of handler lists: add, remove, traversal with the pointers it keeps |
| `EspEvent` | an event loop over `EspEventTree`: queue, posts, runs, dispatch |
| `Pthread` | thread descriptors, create / join / detach / exit, one mutex and one condition variable |
| `PthreadProofs` | the inductive invariant of `Pthread` and its theorems |

### How `EspOta` corresponds to the code

A call into `app_update` reads `otadata`, decides, and then performs a fixed
list of flash operations.  Its action evaluates the conditions and puts that
list in `todo`; `FlashStep` executes one operation at a time, and no other call
starts before the list is empty (the caller's task is inside the call).
`PowerLoss` may come between any two operations and may tear the one in
progress: an erase leaves the CRC wrong, a write leaves an entry without its
CRC (and perhaps without its state), a cell becomes unreadable, a burn sets
some of the bits.  The bootloader is the same with `pc` going
`reset -> gpio -> (reselect ->) load -> run`.

| action | code |
|---|---|
| `GetSelectedBootPartition` | `bootloader_utility_get_selected_boot_partition`: abort trials, select, start a trial, burn the version of a confirmed slot |
| `CheckPins` | `selected_boot_partition`: factory reset and test pins, read after the selection |
| `LoadBootImage` | `bootloader_utility_load_boot_image` and `set_actual_ota_seq` |
| `esp_ota_begin`, `esp_ota_write`, `esp_ota_end` | the same functions |
| `esp_ota_set_boot_partition` | the same with `esp_rewrite_ota_data` and `rewrite_ota_seq` |
| `esp_ota_mark_app_valid_cancel_rollback`, `esp_ota_mark_app_invalid_rollback_and_reboot` | the two uses of `esp_ota_current_ota_is_workable` |
| `esp_ota_erase_last_boot_app_partition` | the same function |
| `Restart` | `esp_restart`, a panic or a watchdog between calls |

Data is abstracted to what the properties distinguish.  An entry is its
sequence number, its state and whether its CRC matches (the CRC covers the
number only, so a torn entry can carry any state).  A partition is `Chunks`
cells, each holding a piece of one image version, nothing, or garbage;
programming over old data gives garbage unless it is the same data.  An image
verifies when all cells belong to one version.  The description with the
secure version is in the first cell, so a half-written image can have one.
A call that returns an error without touching anything is not a step.

`call` and `fresh` are history variables: the last selecting or confirming
call, with what would have booted before it, and the entries that were `NEW`
when a boot began since an app last ran.  A reset of the bootloader's own does
not empty `fresh`; power loss does, because to the code a boot that is cut off
after its trial was recorded is the trial.

Constants that describe the configuration carry the names of the Kconfig
options.  Four constants restrict the environment, so that a property can be
stated where the code promises it: `Unstable` (power may fail), `Reselect`
(the caller may select the slot already selected), `ConfirmOther` (the caller
may confirm while another slot is selected) and `Forget` (the caller may use
`esp_ota_erase_last_boot_app_partition`).

### How the ring buffer modules correspond to the code

A call takes a semaphore, enters a critical section, and gives semaphores after
it; `pc` says where each caller is.  The critical section is one step, because
it holds the spinlock of the buffer.  Everything else interleaves.  The
`FromISR` calls are the same without the first step and without retries, so an
interrupt handler is a caller in `Isrs`.  FreeRTOS itself is not modelled: a
binary semaphore is a Boolean, a blocked task may proceed once it is available,
and `Timeouts` says whether a wait may end without it.

| action | code |
|---|---|
| `xRingbufferSend`, `xRingbufferReceive` | entry of the send, acquire and receive functions |
| `TakeTx`, `TakeRx`, `TakeTimeout` | `xSemaphoreTake` |
| `SendFits`, `AcquireFits`, `SendRefused` | critical section of `xRingbufferSend(FromISR)` and `xRingbufferSendAcquire` |
| `ReceiveGets`, `ReceiveRefused` | critical section of `prvReceiveGeneric(FromISR)` |
| `xRingbufferSendComplete`, `vRingbufferReturnItem` | the same functions up to the give |
| `GiveTx`, `GiveRx` | `xSemaphoreGive`, after the critical section |

The `prv...` functions are operators of the same name.  In `RingbufByteBuf` a
pointer is an offset into the storage area `buf`, which holds the bytes.  In
`RingbufItems` offsets are in words, sizes are already aligned, and the storage
area holds headers (length, free, written, split and dummy marks); the content
of items is left out, because `MemoryExclusive` says that nobody writes to an
item in use.  `order` is a history variable: the items not yet retrieved in the
order they were acquired.  An argument for which the code returns at once or
asserts is not a step.  A receiver of a byte buffer returns its piece before it
receives again.

How an application may use an item buffer is `use`, chosen from the constant
`Uses` in the initial state and fixed from then on (`MaySend`, `MayReceive`):

| `use` | acquired items | retrieved items | the buffer |
|---|---|---|---|
| `"single"` | completed before another is sent | returned before the receiver asks again | may fill up |
| `"several"` | completed before another is sent | any number, returned in any order | senders take turns and leave room |
| `"any"` | any number, completed in any order | any number, returned in any order | may fill up |

The documentation allows `"any"`; the code keeps its promises in the first two.
`RbItems` checks those, `RbOverlap` shows what happens in the third.

### How the storage modules correspond to the code

`NvsStorage` and `WlExtSafe` are built alike.  Every call is made under one lock
(`nvs_api.cpp`, `wear_levelling.cpp`), so its code runs alone; what can come
between its steps is power loss.  The operators of `NvsPage` and `WlFlash` carry
the names of the methods, and take and return a store: flash, RAM, and a log of
the flash writes made, in order.  The action of a call computes the store from
the state it starts in and puts the log in `todo`; `WriteFlash` carries out one
write per step, `Return` ends the call, and `PowerLoss` may come before, between
and after them or in the middle of one, with the outcomes that the log entry
names.  `KvStore` is refined at every one of these steps: the value of a key is
defined from the flash alone, as the next mount would find it.

| action of `NvsStorage` | code |
|---|---|
| `PowerOn` | `Storage::init`, `PageManager::load` with the recovery of an interrupted move and the removal of duplicates, `Page::load` of every page, `eraseOrphanDataBlobs` |
| `Set` | `Storage::writeItem`, for integers, strings and blobs (`writeMultiPageBlob`), with `requestNewPage` and the move of a page |
| `Erase`, `EraseAll` | `Storage::eraseItem`, `eraseMultiPageBlob`, `eraseNamespace` |
| `GetBlob` | `readMultiPageBlob`, which may erase an index whose chunks are gone |

| action of `WlExtSafe` | code |
|---|---|
| `Mount` | `WL_Flash::init` with `recoverPos` (without `updateV1_V2`), then `WL_Ext_Safe::recover` |
| `Erase` | `WL_Ext_Perf::erase_range` over `WL_Ext_Safe::erase_sector_fit` and `WL_Flash::erase_sector` with `updateWL` |
| `Write` | `WL_Flash::write` |
| `Unmount` | `WL_Flash::flush` |

An NVS entry is blank, half written, data, or an item with key, type, span, chunk
and value; a value names its bytes, so that a mixture of two values is visible.
The state table is written in words of `WORD` entry states, as the code writes
it, and a word write is atomic.  A page is moved by copying its items to the last
free page, and the page states on flash are those of `Page::PageState`.  Sizes
are in entries: `SzLen` and `BlobLen` give those of a string and of a blob.
Assumptions on the flash: an interrupted erase destroys the header of the page
(a header that survives is listed below); an interrupted write leaves the entry
half written; written data does not decay.

A wear levelling state copy is its header, with a flag for the CRC, and the set
of position marks.  The transaction record is four words, programmed in
ascending order, each whole or not at all: a cut leaves the first none, one, two
or three of them, and the rest as erased (`CutAfter`; `Unset` is 0xffffffff and
is compared as an unsigned number, `Kept`).  A page is `FACTOR` FAT sectors.  The
dump and the transaction record are ordinary sectors, so they are moved and remapped like the others.

### How `EspEvent` corresponds to the code

The loop's mutex is held for a whole dispatch, and the handlers run inside it.
`disp` is the dispatch in progress with the list of what is still to be visited,
each element with the nodes whose memory the traversal will read to get there;
`handler_execute` takes the next handler, and while it runs its task may post,
register and unregister, as may a task that does not need the mutex
(`esp_event_isr_post_to`).  The queue is FreeRTOS's, bounded by `QueueSize`.  A
node carries the address of its allocation; `Readable` says whether the memory
the traversal reads next is still allocated.

| action | code |
|---|---|
| `esp_event_loop_create`, `esp_event_loop_delete` | the same functions |
| `esp_event_handler_register`, `esp_event_handler_unregister` | `esp_event_handler_register_with`, `..._unregister_with` and the `add` / `remove` functions of nodes |
| `esp_event_post_to`, `PostMutex`, `PostSend`, `PostFail`, `PostTimeout` | `esp_event_post_to`: the test of the caller, the mutex, the queue, the end of `ticks_to_wait` |
| `esp_event_isr_post_to` | the same function |
| `esp_event_loop_run`, `Receive`, `ReceiveTimeout`, `Lock`, `EndDispatch` | `esp_event_loop_run` up to and after the dispatch |
| `handler_execute`, `HandlerReturn` | the traversal and the calls of handlers |

`order` and `log` are ghosts: the registered handlers in order, and what is due
in the present dispatch.

### How `Pthread` corresponds to the code

`s_threads_mux` protects the list of descriptors; a critical section is one step,
except in `pthread_exit`, where another task could delete the one that holds the
mutex: taking it (`pthread_exit`), updating the descriptor (`ExitUpdate`), giving
it back (`ExitUnlock`) and suspending or deleting the task (`ExitEnd`) are steps
of their own.  `pthread_join` is the look-up, the wait for the
notification, and the deletion of the descriptor and then of the task.
`pthread_cond_timedwait` is entering the list, releasing the mutex, the wait,
leaving the list, deleting the semaphore and taking the mutex again;
`pthread_cond_wait` is the same without a time-out.  Tasks, notifications and
semaphores are FreeRTOS's and modelled by how they are used.

## Runs

| run | configuration | shows |
|---|---|---|
| `OtaRollback` | 2 slots, factory app, rollback, 2 handles, no pins, power loss | `RunningIntact`, `SelectionHolds`, `ConfirmHolds`, `SwitchAtomic`, `RollbackPromise`, `BootViewAgrees`, `TrialIsRun`, `ConfirmedBeforeUpdate` |
| `OtaAntiRollback` | 2 slots, two secure versions, anti-rollback, both pins, no test app | `RunningNotRevoked`, `NeverBricked`, `FusesFollowGoodApp` |
| `OtaBoots` | 2 slots, test app, both pins, no rollback | `EventuallyRuns` |
| `RbByte` | byte buffer of 3 bytes, sending task, sending interrupt handler, receiver, time-outs | `ImplementsFifo`, `PointersAgree`, `TxNotLost`, `RxNotLost`, `EventuallyRead`, `EventuallySent` |
| `RbItems` | no-split and allow-split buffer of 8 words, sending task, sending interrupt handler, receiver, time-outs, `Uses` = {"single", "several"} | `MemoryExclusive`, `FifoReceive`, `SpaceAccounted`, `FreeSizeFits`, `SemaphoresKept` |
| `RbOverlap` | the same with `Uses` = {"any"} | violation of `UnsentNotReceived` |
| `Nvs` | 3 pages of 5 entries, a string and a blob of several chunks, two values each; calls with a blob that fail are left out | `KeyValueStore`, `NoDuplicates`, `ReadsNewest`, `CachesSound`, `ChunksTidy`, `Mountable` |
| `NvsFailedBlob` | the same with an integer instead of the string, and blobs that do not fit | violation of `FailedBlobKept` |
| `WlSafe` | 4 flash sectors of 2 FAT sectors, a move after every second erase, power loss anywhere but in the rewriting of state copy 1 and before the count of a record with shift 0 | `DiskSurvives`, `StateConsistent` |
| `WlRecover` | 3 flash sectors, a move with every erase, power loss anywhere in the state copies | violation of `SurvivesReboot` |
| `Event` | 2 tasks, with and without a loop task, handlers of all three levels, a queue of one | `CalledInOrder`, `NoUseAfterFree`, `QueueServed` |
| `Pthread` | 2 threads and the main task, all of which use the condition variable | `DescriptorsKept`, `DeletesStopped`, `WaitersListed`, `JoinReturns`, `SignalledReturns` |

Some of these are conjunctions of invariants that belong together, each defined
and explained in its module:

| property | parts |
|---|---|
| `SelectionHolds` | `SetBootTakesEffect`, `RollbackSwitches` |
| `ConfirmHolds` | `ConfirmSticks`, `MarksRunningApp` |
| `SpaceAccounted` | `TypeOK`, `CountExact`, `SpaceRecovered` |
| `SemaphoresKept` | `TxNotLost`, `RxNotLost` |
| `Mountable` | `MountSucceeds`, `Settled` |
| `CachesSound` | `TypeOK`, `NoAssert`, `CacheExact` |
| `ChunksTidy` | `NoDuplicates`, `NoOrphans`, `NoAssert` |
| `StateConsistent` | `TypeOK`, `SurvivesReboot` |
| `CalledInOrder` | `TypeOK`, `FirstRegisteredFirst`, `AllHandlersCalled` |
| `DescriptorsKept` | `TypeOK`, `ExitFindsItself`, `JoinKeepsDescriptor`, `JoinResult`, `NoMutualJoin` |

The type invariants of `EspOta` and `RingbufByteBuf` are proved, so no run
repeats them.

### Bounds

* Two slots are the smallest table with an update; the order of partitions and
  the modulus of the sequence number then already matter, and a factory app in
  `OtaRollback` gives the third outcome that makes `SwitchAtomic` say something.
* `MaxSeq` = 3 lets the device go from slot 0 to 1 and back, so that each
  sector has been overwritten once; a selection that would need a larger number
  is not taken.
* `Chunks` = 2 separates "erased", "half written" and "written", and lets an
  update announce less than it writes.  `OtaBoots` uses 1.
* Two secure versions give an upgrade and a downgrade.
* Handles are interchangeable, so their permutations are a symmetry
  (`OtaRollback` checks no liveness).
* A byte buffer of 3 bytes has every relation of the four pointers with a
  piece of 0, 1 or 2 bytes lent, wrapping around included; the proofs cover
  the other sizes.
* 8 words with headers of 2 and items of 0, 1 and 2 give dummy items, a
  remainder too small for a header, items split into two parts or moved whole
  behind a header, and a buffer filled exactly.  In use "single" the receiver
  still holds both parts of a split item; in use "several" it keeps more than one
  item and returns them in any order.
* Three NVS pages are one more than the smallest storage, so that a page can be
  moved while another stays full.  With 5 entries and a string of 2 (header and
  one of data) strings leave the tail of a page to be skipped, `WORD` = 4 lets a
  cut fall between the words that mark an item in entries 3 and 4, and a blob of
  2 entries of data is one chunk or two, depending on what is left of the page;
  both versions of it are written.  `MaxSeq` = 3 bounds the activations of pages:
  a page has been moved and the freed page used again.  Two values tell old
  from new.  An integer is an item of one entry, and takes the path of the string
  without its data; the instance with an integer beside a string of one value and
  the blob (1015400 states), and one with an integer instead of the string
  (299923 states), pass too.
* `WlSafe`: with 4 flash sectors two hold the transaction and two the data; a
  round has 5 positions, and it is passed, with the change of `move_count`,
  because the erases of a transaction move pages too.  The erase of 2 FAT sectors
  at 1 spans two flash sectors, so it is two transactions, one with shift 1 and
  one with shift 0.  An erase of a whole flash sector makes no transaction; it is
  in `WlRecover` and, for every number of sectors, in `EraseKeepsOthers`.
  Written sectors are restricted to one, as the others differ from it only by
  address.
* `Event`: handlers are `10 * slot + n`, where the slot is 0 (loop level), 10
  (base level) or an event.  Two handlers of event 11, one of event 21, one of
  the base and one of the loop; three registered at a time give every pattern
  of neighbours on the three levels.  Only the handlers in `SelfRemoved`
  unregister themselves and only `Late` is registered by a handler (see below).
* `Pthread`: the races are between two threads and an outsider; three waiters
  give a list with a middle.

### Fairness

`FairSpec` adds weak fairness of `FlashStep` and `BootNext`: the bootloader is
the only code running after a reset, and a call in progress is straight-line
code.  Nothing is assumed of the application.  `EventuallyRuns` is conditional
on power failures ending; a `PowerLoss` step that is indistinguishable from a
bootloader reset or a restart does not count as one.

For the byte buffer `FairSpec` adds weak fairness of each caller's steps inside
a call (`Progress`): a task that is ready eventually runs, and weak fairness of
a take is enough because `EventuallyRead` and `EventuallySent` ask only that
somebody proceeds.  Receivers keep receiving and returning what they got, which
the documentation demands of them.  Nothing forces a sender to send or a wait to
time out.

For `Event`, weak fairness of the steps of the loop's own task: it has nothing
else to do, and nothing but itself keeps it from its next step.  `HandlerReturn`
is strongly fair: a handler returns, although it may post and register any
number of times before.  Other tasks need not do anything, and the time that
they wait need not end (`PostTimeout` is not fair: it may be `portMAX_DELAY`).

For `Pthread`, strong fairness of `Continue`, the steps inside calls: the
scheduler runs a task that is able to run, and a task that waits for a mutex gets
it, among others, if it becomes free again and again.  Strong fairness of
`pthread_mutex_unlock` is asked of the application: it gives its mutex back, and
does not join while it holds it.

`OtaRollback`, `OtaAntiRollback`, `RbItems`, `Nvs` and `WlSafe` check safety only.  `Event`
and `Pthread` are not checked for deadlock: a deleted loop, and threads that
wait for signals nobody sends, really stop.

### What the violations show

`WlRecover`: **a broken state copy 1 loses the position.**  At the end of a round
both state copies are erased and written again.  When power is lost while copy 1
is written, `WL_Flash::init` finds copy 2 valid and restores copy 1 from it, with
its marks; but the test whether a mark is set (`OkBuffSet`) uses
`this->state.device_id`, which still holds what was read from the broken copy.
No mark is recognised, so none is copied.  The present mount sets `pos` to the
last position and serves the data; the next mount finds copy 1 valid and
unmarked, takes position 0, and reads every sector from another page.
`wear_levelling/README.rst:17` promises that data can be recovered after a
power-off.

`RbOverlap`: **an item can be received before it is sent.**  `SendAcquire`
hands out memory and `SendComplete` makes it readable; `pucWrite` stays at the
first item that is not complete.  But `prvCheckItemAvail` (`ringbuf.c:532`) asks
only whether some item waits and whether `pucRead` differs from `pucWrite` or the
buffer is full.  Let an item be acquired, another be acquired and completed
first: `xItemsWaiting` is 1.  If the buffer is full, or if nothing but a dummy
item lies between `pucRead` and `pucWrite`, the receiver gets the item that was
acquired and not completed, while its sender is still writing it.  `ringbuf.h:192`
and `freertos_additions.rst:245-249` say that this item, and those after it, cannot
be read.

`NvsFailedBlob`: **a failed `nvs_set_blob` can lose the old value.**  A blob is
replaced by writing its other version (chunks from 0 or from 128) before the one
in use is erased.  When the new version does not fit, `writeMultiPageBlob` cleans
up with the comment "Anything failed, then we should erase all the written chunks"
(`nvs_storage.cpp:230`), but counts the chunks from 0 whichever version it wrote.
In the counterexample version 0 is in use and version 1 was being written to the
same page: chunk 0, which belongs to the value in use, is erased, and the call
returns an error.  The index is still there and its chunk is not, so the next
`nvs_get_blob` finds nothing and erases the rest.

### Restrictions that the checked properties need

The following was observed while modelling.  In each case a constant or a guard
of the model restricts the environment; lifting it gives a counterexample.

* **A factory reset can waste a trial** (`OtaRollback` with
  `FACTORY_RESET = TRUE`, `OTA_DATA_ERASE = FALSE`: `TrialIsRun`).  The
  selection is made before the pin is read and again after it: `NEW` becomes
  `PENDING_VERIFY`, then `ABORTED`, and the new app never ran.  The same happens
  with `APP_TEST = TRUE` and no test app: the pin makes the bootloader reset after
  the trial was recorded.
* **Power loss can use up a trial.**  When power fails after `PENDING_VERIFY` was
  written and before the app runs, the next boot aborts it
  (`bootloader_utility.c:333`).  `TrialIsRun` does not count such a boot
  (`PowerLoss` empties `fresh`).
* **Confirmation marks the active entry** (`ConfirmOther = TRUE`:
  `MarksRunningApp`).  After another slot was selected,
  `esp_ota_mark_app_valid_cancel_rollback` confirms that one, which has not run.
* **The fuses can revoke the only good app** (`OtaAntiRollback` with
  `Forget = TRUE`: `FusesFollowGoodApp`).  An app on trial erases its
  predecessor, and power fails during the erase: the predecessor's `VALID` entry
  survives and becomes active when the trial is aborted, although its slot is
  empty.  If a later update of that slot is interrupted after its first sector,
  the next boot finds a `VALID` entry and a readable description, burns its
  version, and only then finds that the image does not verify.
* **Two receivers can starve a byte buffer** (`EventuallyRead` with a second
  receiver).  A receiver that takes `RecvSem` while the other holds a piece is
  refused and does not give it back; the return gives only `TransSem`.
* **Returning one item frees the others** (`RbItems` with items of the maximum
  size, with a second receiver, or with `Uses` = {"any"}: `MemoryExclusive`,
  `SpaceAccounted`).  When everything in a full buffer has been retrieved,
  `pucFree`, `pucRead` and `pucAcquire` coincide, and the special case for a
  buffer freed in one go (`ringbuf.c:666`) clears the full flag at the first of
  several returns.
* **A failed blob leaves chunks** (`Nvs` with `FailedBlobs = TRUE`: `NoOrphans`).
  Beside the loss shown by `NvsFailedBlob`, the clean-up misses the chunks of
  version 1, and those that a later page request has moved from the page they
  were written to.
* **A torn transaction record can lose a sector** (`WlSafe` with
  `CutCount = TRUE`: `DiskSurvives`).  The marker is the first of the four words
  of the record (`WL_Ext_Safe.cpp:135-144`).  Cut before the last one, the record
  has its marker and a count of 0xffffffff.  With shift 0 no sector passes the test
  in `recover` (`WL_Ext_Safe.cpp:105`), so the flash sector is erased, nothing is
  written back, and the record is cleared: FAT sectors that the erase was not about
  are lost.  Records cut after the first or the second word name the dump sector or
  keep every sector, and are in `WlSafe`, as is the third with another shift.
* **A base or loop level handler that unregisters itself** as the last content of
  its node frees the node, whose list of children the traversal reads next
  (`SelfRemoved` with 1 or 101: `NoUseAfterFree`).  The repository's test covers
  the id level only.  A handler that unregisters its successor in the list frees
  the element that the traversal has already fetched.  With profiling enabled,
  `handler->invoked++` follows the call of a handler that may have been freed.
* `SUB_TYPE_ID` masks the subtype 0x20 of the test app to 0, so
  `esp_ota_set_boot_partition` of the test app selects `ota_0`.  Selecting the
  factory app erases the two sectors in turn, so power loss can revive the older
  entry: `SwitchAtomic` is stated for OTA slots.  Selecting the slot already
  selected makes the running app its own way back (`Reselect = FALSE`).  Without
  a factory app and a valid entry slot 0 is started even if it was rejected.
* `esp_event_loop_run` leaves `running_task` set when its time is over
  (`esp_event.c:581-583`), so a later post of that task does not wait for room.
  Registering a handler again may put it in another node beside the first
  (`esp_event.h:128` says it is overwritten).  Two tasks that run one loop take
  events off the queue before they take the mutex and may dispatch them in the
  other order.
* A signal goes to the first waiter of the list even if it has been signalled
  and has not left yet, or has just timed out: then another waiter is not woken.
  `pthread_once` marks the routine executed before it runs.  A ring of
  three threads that join each other is not recognised.
* The loops over the wear levelling marks run to sectors times `wr_size`.
  `wl_erase_range` and the others look up their
  handle before they take its lock, against `wl_unmount`.

## Proofs

Every theorem below holds for every value of the constants that satisfies the
named assumptions, which TLC evaluates in the runs, and the hypotheses given.

### The running image (`EspOtaProofs`)

Assumptions `OtaAssumption` and `EspOtaAssumption`: any partition table, image
size, set of versions and set of handles.

* `TypeCorrect`: `Spec => []TypeOK`;
* `RunningImageIntact`: `Spec => []RunningIntact`;
* `RunningAppNotRevoked`: `Spec => []RunningNotRevoked`;

under the hypothesis that anti-rollback is not combined with a test app.  The
hypothesis is needed: the test app is started without a version check, and
`esp_ota_set_boot_partition` erases a partition whose version is too low, the
running one included.

`RunningIntact` is not inductive.  An operation already queued, or a handle
opened earlier, could hit the running partition, so the invariant `Inv` adds:
no open handle refers to the running partition and none survives a reset
(`HandlesElsewhere`); no queued operation is aimed at it, and no queued burn
exceeds its version (`QueueHarmless`); an app runs exactly in `pc = "run"`
(`Control`).  `RunningNotRevoked` is needed for `RunningIntact` itself, because
of the erasing branch of `esp_ota_set_boot_partition`, and depends in turn on
the bootloader starting only what passes `check_anti_rollback`
(`LoadIndexGood`).  Type correctness rests on `NextSeqBound`: the loop in
`esp_rewrite_ota_data` ends at a number not below the active one.

### What the bootloader finds (`EspOtaBootProofs`)

* `AlwaysAnAppToBoot`: `Spec => []NeverBricked`.  `BootInv` adds to `Inv` that the
  factory app verifies and nothing queued is aimed at it (`FactoryKept`), and
  that before an app runs only `otadata` is written (`BootloaderQueue`).  While an
  app runs, its own image is the one that remains (`RunningIntact`); from the
  reset on, nothing touches an image.
* `BootViewAlwaysAgrees`: `Spec => []BootViewAgrees`, a consequence of the types
  alone: `esp_ota_get_boot_partition` and the bootloader agree on any pair of
  entries.

`AlwaysAnAppToBoot` is stated without anti-rollback, where a raised fuse may
revoke an image that verifies (see `AlwaysAnAppAboveFuses`), and for a test app only beside a factory app: a
device that runs its test app and has no other image holds nothing that the
bootloader starts without the pin.

### The two `otadata` entries (`EspOtaSelectProofs`)

| theorem | property | hypotheses beside `~ANTI_ROLLBACK`, `~HasTest`, `~Reselect` |
|---|---|---|
| `RollbackAlwaysPromised` | `RollbackPromise` | |
| `UpdatesAlwaysConfirmed` | `ConfirmedBeforeUpdate` | |
| `ConfirmAlwaysHolds` | `ConfirmHolds` | `~ConfirmOther` |
| `SelectionAlwaysHolds` | `SelectionHolds` | `~ConfirmOther`, `HasFactory` |
| `SwitchAlwaysAtomic` | `SwitchAtomic` | `~ConfirmOther`, no reset pin that erases `otadata` |
| `TrialsAreRun` | `TrialIsRun` | `~FACTORY_RESET`, `~APP_TEST` |

Each hypothesis is a restriction explained above: a test app is masked to slot
0; selecting the selected slot makes an app its own way back; a confirmation
marks the active entry, whoever runs; without a factory app slot 0 is started
even if it was rejected; the reset pin erases the record of a switch, and either
pin wastes a trial.  With anti-rollback the bootloader's choice also depends on the fuses and
on images, which is the subject of the next section.

The invariant describes the entries between any two flash operations, power loss
included, and has a part for each promise:

* `Entries`: the two records are never both on trial, and never name one slot
  unless the second is out of force (`Sound`); the queued operations write no
  entry, one, or two in turn, and each write leaves a sound pair (`SoundQueue`);
  when the bootloader found no record there still is none when it writes one
  (`StillInitial`).  A torn write leaves the CRC wrong, so it drops out of
  `Coexist`; this is why the invariant is about the pair and not about the call.
* `Selected`: from the decision of a selecting or confirming call to the next
  one, the record it writes prevails over the other, whether it is still queued
  or already written (`Recording`), or both are being erased (`Erasing`).
* `RolledBack`: after an app has declared itself invalid, each record, and each
  record still to be written, leads to another app that verifies
  (`LeadsElsewhere`), through the reboot and the bootloader's own writes.
* `Switching`: until an app runs, one sector holds what was selected before and
  is left alone, and whatever beats it names the new slot (`Challenged`); or
  nothing was selected, and every record names the new slot (`Unchallenged`).
* `Trials`: an entry that was `NEW` at a reset since an app ran still is, or is, or ends as, the
  record of the slot that the bootloader goes on to start (`Settled`).

The arithmetic they rest on is `NextSeqSlot`: the sequence number that
`esp_rewrite_ota_data` computes designates the wanted slot.

### Anti-rollback (`EspOtaFuseProofs`)

* `FusesAlwaysFollowGoodApp`: `Spec => FusesFollowGoodApp`;
* `AlwaysAnAppAboveFuses`: `Spec => []NeverBricked`;

under `TwoSlots`: anti-rollback without a test app, at most two slots, no
confirmation while another slot is selected (`~ConfirmOther`), no
`esp_ota_erase_last_boot_app_partition` (`~Forget`), and no reset pin that erases
`otadata`.  Versions, image size, handles, sequence numbers, reselection and the
other pins are arbitrary.  TLC refutes `FusesFollowGoodApp` when any one of the
last four is dropped from the constants of `OtaAntiRollback`:

* with three slots both recorded apps may fail to start, and the third one runs
  while a `VALID` record names a slot that it may update;
* `ConfirmOther` confirms a record whose app never ran;
* `Forget` is the case described above;
* when power fails between the two erasures of the reset pin, the record in force
  is gone and the older one, whose slot may be half updated, is left.

The bootloader burns from two things it reads, the state `VALID` of the record
and the description in the first sector of its slot, and verifies the image only
afterwards.  So the invariant `FuseInv` must say that a record in force is never
`VALID` for a slot that cannot be started.  Its parts are:

* `Backed`: a `VALID` record whose app cannot be started any more (`Stale`: the slot
  is being updated, or its version is revoked) is beaten by the other record, which
  is `VALID` for an app that can (`Good`);
* `Queued`: what is queued is the update of a slot whose record yields in that
  sense (`Filling`), or writes of records that are not confirmed, in sectors whose
  neighbour is not stale, perhaps followed by a burn for a record that holds
  (`Recordkeeping`), or the confirmation of the running app (`Confirming`);
* `RunSafe`: while an app runs, a `VALID` record of another slot yields to the
  record of the running app, and that one is `VALID` once an update has begun,
  which is what the state check in `esp_ota_begin` is for;
* `Choice`: between the selection and the start, a `VALID` record names the
  partition the bootloader starts from, or is beaten by the one that does;
* `StatesKnown`, `StillInitial` and `NeverBricked` itself.

Two slots are used in one place (`LoadStep`): when the image of the record in
force does not verify, the only other partition is the one of the other record.
TLC checked `FuseInv` on the instance of `OtaAntiRollback` before it was proved.

### Byte buffers (`RingbufByteBufProofs`)

For every size, byte set and set of senders, receivers and interrupt handlers
(assumptions `RingbufTasksAssumption` and `RingbufByteBufAssumption`):

* `ByteBufTypeCorrect`, `ByteBufPointersAgree`: `Spec => []TypeOK` and
  `Spec => []PointersAgree`;
* `TxNeverLost`: `Spec => []TxNotLost`;
* `RxNeverLost`: `Spec => []RxNotLost`, for at most one receiver;
* `ByteBufImplementsFifo`: `Spec => ImplementsFifo`.

`PointersAgree` is nearly inductive; `BInv` adds that a receiver without bytes
holds nothing (`HeldNone`) and that a call in progress has an item of legal size
(`ArgSet`).  It holds for any number of receivers: the starvation above is a
matter of `RecvSem` only, and it is the reason for the hypothesis of
`RxNeverLost`, whose invariant adds that a receiver with a piece does not receive
(`HeldIdle`), so that the only receiver is refused only when nothing waits.
The refinement then treats the three critical sections in turn: a copy appends
its item behind what waits and touches neither that nor the lent piece (`Put`), a
retrieval moves a prefix (`Lend`), a return drops it (`GiveBack`), and every
other step stutters.

### Item buffers (`RingbufItemsProofs`)

For no-split and allow-split buffers of every size, every size of header and of
items, and any set of senders and interrupt handlers (assumptions
`RingbufTasksAssumption` and `RingbufItemsAssumption`):

* `MemoryAlwaysExclusive`: `Spec => []MemoryExclusive`;
* `SpaceAlwaysAccounted`: `Spec => []SpaceAccounted`;
* `FreeSizeAlwaysFits`: `Spec => []FreeSizeFits`;
* `ItemSemaphoresAlwaysKept`: `Spec => []SemaphoresKept`;
* `ItemsReceivedInOrder`: `Spec => FifoReceive`.

The hypotheses restrict the application to the use "single" of `RbItems`: the
theorems are about one acquired and one retrieved item at a time in a buffer that
fills up, with any number of senders.  They say nothing about items completed or
returned in another order: retrieved ones are checked by TLC in use "several",
and acquired ones break the order (`RbOverlap`).  One
receiver returns what it retrieved before it asks again (`OneReceiver`,
`OneAtATime`), and no item has exactly the maximum size of an allow-split buffer
(`NotMaximal`): otherwise a full buffer can be retrieved in several pieces, and
returning one of them frees the others, as described above.  TLC shows
`MemoryExclusive` violated on the instance of `RbItems` with a second receiver.
An acquired item is completed before another is sent (`OneAtATime`): otherwise it
can be received before that.

The code keeps four pointers and marks in the headers; the invariant `ItemsInv`
says what they stand for.  There is a sequence `q` of items, the chain from
`pucFree` to `pucAcquire` (`Chain`): each lies in the storage area and, measured
around the ring from `pucFree`, behind its predecessor; the pointer after one
item leads to the next, directly or by a dummy item.  The first `m` items are
retrieved and the rest is the history `order`; `pucRead` and `pucWrite` are
pointers along the chain, and the counter is the number of items between them
(`Pointers`).  Only the second part of a split item can be marked free, while the
first is still held, and a split mark is only on an item whose other part follows
at `pucHead` (`Flags`, `Parts`).  `CallsOK`, `OwnerIs` and `Asking` say which
calls may be in progress beside an acquired or a retrieved item.  TLC checked
`ItemsInv` on the instance of `RbItems` and on five others with different sizes
of buffer, header and items before it was proved.

The chain is a sequence given with the state, not one computed from it, so no
induction over it is needed: an action appends one or two items (`ChainExtend`),
marks one, or drops the first (`ChainDrop`).  `Skip`, the loop of
`prvReturnItemDefault` and of `prvSendItemDoneNoSplit`, is a recursive function,
but passes over at most two items here: the function exists for every length of
the loop (`SkipExists`, by a least counterexample), and two turns of it decide
where it stops (`SkipTwo`).

### Threads (`PthreadProofs`)

For any set of threads and of tasks that use the condition variable
(`ThreadsAssumption`: the main task is not one of the threads):

* `DescriptorsAlwaysKept`: `Spec => []DescriptorsKept`;
* `WaitersAlwaysListed`: `Spec => []WaitersListed`;
* `OnlyStoppedDeleted`: `Spec => DeletesStopped`.

`PInv` ties together what the code keeps apart: who holds `s_threads_mux`
(`MuxHeld`), which thread a call is about (`Targets`), which descriptors are on
the list (`Listed`), what a pending notification is for (`Notifications`), when
the state of a descriptor is `exit` (`Ended`), that `join_task` and the joining
task name each other (`Joins`), that a task about to delete another has unlisted
it and is alone in that (`Reaping`), and that the waiter list has each waiting
task once (`OnList`).  `Notifications` and `Reaping` are what the properties do
not say and the induction needs: a task notification carries no sender, so a join
may go on only because every pending one is meant for it, and a descriptor may be
reused only because the task that unlisted it is the only one still to delete its
task.

### Wear levelling (`WlProofs`)

For every number of sectors and every rate of moves (`FlashAssumption`), about
the operations of `WL_Flash` that the actions of `WlExtSafe` are made of:

* `SectorsApart`: `calcAddr` maps the sectors to different pages, never to the
  dummy;
* `MovesKeepSectors`, `EraseKeepsOthers`, `WriteKeepsOthers`: `updateWL`,
  `erase_sector` and `write` change no other sector than theirs, and the position
  in RAM stays the one that the state copies record (`Consistent`).

`Survives` says the same of power loss.  Given the flash images on the way
through the log of a call (`Images`, the steps that `WriteFlash` takes), every one
of them, and every torn write between them, shows the next mount the old content
of the other sectors; the exception is an image in which state copy 1 is being
rewritten, for which `WlRecover` shows the opposite.  The argument is one lemma
per flash write: erasing or overwriting the dummy page hurts nobody (`PagePut`);
the mark in copy 1 is what moves the position, and by then the moved sector is on
both pages (`Mark1`, `MoveAddr`); the marks of copy 2 decide nothing (`Mark2`); at
the end of a round position 0 of the next move count addresses the same pages as
the last position of this one, so that either state copy may go first
(`RenewStates`).  That the state between calls is `Consistent`, after every mount
as well, was checked with TLC on the instance of `WlSafe`.

### Only model-checked

* Item buffers of which several items are kept and returned in any order (use
  "several").
* NVS, the event loops, and in wear levelling the mount and the transactions of
  `WL_Ext_Safe`: their calls are folds over pages, entries, marks, handlers or
  parts of a sector, and what a fold computes for every input is out of the
  prover's reach.
* The promises of `EspOtaSelectProofs` with anti-rollback, and of the update system
  with a test app.
* All liveness properties.

## Not modelled

* Flash or eFuse operations that fail with an error while power stays on, and
  allocation failure.
* Flash encryption: the 16 byte cache in `esp_ota_write`.
* Image parsing, signatures and digests: `Verifies` is a predicate.
* Boot from deep sleep without validation
  (`bootloader_utility_load_boot_image_from_deep_sleep`).
* Partition tables without OTA slots or without `otadata`.
* The queries `esp_ota_get_next_update_partition` and
  `esp_ota_get_last_invalid_partition`, which change nothing.
* Overflow of the 32 bit sequence number.
* Of the ring buffers: creation beyond the initial state, deletion (the caller
  must be the last user), queue sets, and `vRingbufferGetInfo`.  Scheduling
  priorities: any ready task may run next.
* Of NVS: namespaces beyond one, items of the old single-page blob format,
  encryption, partition generation, errors returned by the flash driver, hash
  collisions, the iterator and statistics, flash that decays.  An interrupted
  erase that leaves a readable header.  The content of erased entries, which
  nothing reads.  Erasing a key that is absent changes nothing and is no step.
* Of wear levelling: the update from version 1 of the state, performance mode
  (the same without the transaction), encryption, driver errors.
* Of event loops: the default loop's wrapper, the data of events, allocation
  failure, profiling.
* Of pthreads: thread-local storage, `pthread_once`, attributes, recursive and
  error-checking mutexes, initialisation and destruction of mutexes and
  condition variables.
* The tree as a whole is an operating system with drivers, network and Bluetooth
  stacks, register headers and vendored libraries: the components modelled here
  are a small share of its lines.  `esp_timer`, `ipc` and `pm_locks` have
  state machines that could be modelled in the same way.

## Plan

1. **Event loops, proofs.**  `NoUseAfterFree` for handlers that unregister only
   themselves at the id level.
2. **`esp_timer`, `ipc`.**  Timers stopped and deleted from their own callback, a
   call to the other core against a second caller.
