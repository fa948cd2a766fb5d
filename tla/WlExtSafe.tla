------------------------------ MODULE WlExtSafe ------------------------------
(***************************************************************************)
(* Flash sectors cut into smaller ones for the FAT file system, in safety  *)
(* mode: WL_Ext_Perf.cpp and WL_Ext_Safe.cpp on top of WlFlash.  The last  *)
(* two logical sectors hold the transaction (state_addr, dump_addr).  The  *)
(* lock of wear_levelling.cpp serialises the calls; power may be lost      *)
(* before, between, after and in the middle of their flash writes.         *)
(***************************************************************************)
EXTENDS WlFlash

CONSTANTS FACTOR,     \* size_factor: FAT sectors in a flash sector
          Vals,       \* what is written to a FAT sector
          Starts, Counts,  \* first FAT sectors and lengths of the ranges that are erased
          Written,    \* the FAT sectors that are written
          CutState1,  \* whether power may be lost while copy 1 of the WL state is rewritten
          CutCount    \* whether it may be lost before the last word of a transaction
                      \* record whose local_addr_shift is 0

ASSUME ExtAssumption ==
  FACTOR \in Nat \ {0} /\ FLASH > 2 /\ CutState1 \in BOOLEAN /\ CutCount \in BOOLEAN

VARIABLES flash,    \* the pages and the two state copies
          ram,      \* pos, move and access of WL_Flash
          todo,     \* flash writes of the running call still to be made
          mounted,  \* whether wl_mount was called
          call      \* the running call: [op, ask]

vars == <<flash, ram, todo, mounted, call>>

Parts == 0 .. FACTOR - 1
FatSectors == 0 .. (FLASH - 2) * FACTOR - 1
StateSector == FLASH - 2
DumpSector == FLASH - 1
NoChange == [k \in {} |-> 0]
NoState == [pos |-> 0, move |-> 0, access |-> 0]
SAFE_OK == 99      \* WL_EXT_SAFE_OK

Store == [fl |-> flash, pos |-> ram.pos, move |-> ram.move, access |-> ram.access, log |-> <<>>]

\* Part i was not to be erased: i < shift || i >= count + shift, compared as unsigned
\* 32-bit numbers (those from 2^31 on are negative here).
Kept(i, shift, count) ==
  LET Below(w) == w < 0 \/ i < w
  IN Below(shift) \/ ~Below(count + shift)

\* Write back the parts of a flash sector that were not to be erased.
writeBack(s, base, shift, count, buffer) ==
  FoldLeft(LAMBDA t, i : IF Kept(i, shift, count) THEN write(t, base, [j \in {i} |-> buffer[i]]) ELSE t,
           s, [n \in 1 .. FACTOR |-> n - 1])

\* Complete a transaction that power loss interrupted, when the first word of its
\* record is there.  (An Unset sector number is that of the dump sector itself:
\* WL_Flash::calcAddr takes it modulo the flash size.)
recover(s) ==
  LET t == read(s, StateSector)[0]
      buffer == read(s, DumpSector)
      a == writeBack(eraseSector(s, t[2]), t[2], t[3], t[4], buffer)
  IN IF t # <<>> /\ t[1] = SAFE_OK THEN eraseSector(a, StateSector) ELSE s

\* Mutant: no transaction is opened, as in WL_Ext_Perf::erase_sector_fit.
eraseSectorFitPerf(s, start, count) ==
  LET base == start \div FACTOR
  IN writeBack(eraseSector(s, base), base, start % FACTOR, count, read(s, base))

eraseSectorFit(s, start, count) ==
  LET base   == start \div FACTOR
      shift  == start % FACTOR
      buffer == [i \in Parts |-> IF i \in shift .. shift + count - 1 THEN Garbage ELSE read(s, base)[i]]
      a == write(eraseSector(s, DumpSector), DumpSector, buffer)
      b == write(eraseSector(a, StateSector), StateSector, [j \in {0} |-> <<SAFE_OK, base, shift, count>>])
      c == writeBack(eraseSector(b, base), base, shift, count, buffer)
  IN eraseSector(c, StateSector)

\* WL_Ext_Perf::erase_range: a part of the first flash sector, whole flash
\* sectors, a part of the last one.
eraseRange(s, start, count) ==
  LET preStart == start % FACTOR
      pre0  == IF FACTOR - preStart > count THEN count ELSE FACTOR - preStart
      post  == (count - pre0) % FACTOR
      whole == pre0 = FACTOR /\ preStart = 0
      rest  == count - pre0 - post + (IF whole THEN FACTOR ELSE 0)
      pre   == IF whole THEN 0 ELSE pre0
      first == (start + pre) \div FACTOR
      a == IF pre # 0 THEN eraseSectorFit(s, start, pre) ELSE s
      b == FoldLeft(eraseSector, a, [n \in 1 .. rest \div FACTOR |-> first + n - 1])
  IN IF post # 0 THEN eraseSectorFit(b, start + count - post, post) ELSE b

initExt(s) == recover(init(s))

(********************************* the system ******************************)
Run(op, ask, s) ==
  /\ ram' = [pos |-> s.pos, move |-> s.move, access |-> s.access]
  /\ todo' = s.log
  /\ call' = [op |-> op, ask |-> ask]
  /\ UNCHANGED flash

Idle == mounted /\ todo = <<>> /\ call.op = "none"

Init == /\ flash = [x \in 0 .. ST2 |-> IF x \in Page THEN [i \in Parts |-> <<>>] ELSE Blank]
        /\ ram = NoState
        /\ todo = <<>> /\ mounted = FALSE
        /\ call = [op |-> "none", ask |-> NoChange]

Mount == ~mounted /\ Run("mount", NoChange, initExt(Store)) /\ mounted' = TRUE

Erase(start, count) ==
  /\ Idle
  /\ Run("erase", [k \in start .. start + count - 1 |-> <<>>], eraseRange(Store, start, count))
  /\ UNCHANGED mounted

\* The file system programs a FAT sector that it has erased before.
Write(k, v) ==
  /\ Idle /\ read(Store, k \div FACTOR)[k % FACTOR] = <<>>
  /\ Run("write", [x \in {k} |-> <<v>>], write(Store, k \div FACTOR, [j \in {k % FACTOR} |-> <<v>>]))
  /\ UNCHANGED mounted

Unmount == Idle /\ Run("unmount", NoChange, flush(Store)) /\ UNCHANGED mounted

WriteFlash == /\ todo # <<>>
              /\ flash' = [flash EXCEPT ![Head(todo).at] = Head(todo).val]
              /\ todo' = Tail(todo)
              /\ UNCHANGED <<ram, mounted, call>>

Return == /\ todo = <<>> /\ call.op # "none"
          /\ call' = [op |-> "none", ask |-> NoChange]
          /\ IF call.op = "unmount" THEN mounted' = FALSE /\ ram' = NoState
             ELSE UNCHANGED <<mounted, ram>>
          /\ UNCHANGED <<flash, todo>>

\* Copy 1 is erased or half written and copy 2 valid.
RewritingState1(fl) == ~fl[ST1].crc /\ fl[ST2].crc

\* The record of a transaction lacks its last word, and its local_addr_shift is 0.
CountMissing(fl) ==
  \E p \in Page, base \in Sector : fl[p][0] = <<SAFE_OK, base, 0, Unset>>

PowerLoss ==
  /\ mounted
  /\ \/ UNCHANGED flash
     \/ todo # <<>> /\ \E x \in TornImages(flash, Head(todo)) : flash' = [flash EXCEPT ![Head(todo).at] = x]
  /\ CutState1 \/ ~RewritingState1(flash')
  /\ CutCount \/ ~CountMissing(flash')
  /\ ram' = NoState
  /\ todo' = <<>> /\ mounted' = FALSE
  /\ call' = [op |-> "none", ask |-> NoChange]

Next == \/ Mount \/ Unmount \/ WriteFlash \/ Return \/ PowerLoss
        \/ \E k \in Starts, n \in Counts : k + n - 1 \in FatSectors /\ Erase(k, n)
        \/ \E k \in Written, v \in Vals : Write(k, v)

Spec == Init /\ [][Next]_vars

(******************************** properties *******************************)
\* The position stays on a page and the move count on a sector; the flash holds
\* parts and state copies, and only the state copies carry marks.
TypeOK ==
  /\ ram \in [pos : Page, move : Sector, access : 0 .. MAX_COUNT - 1]
  /\ mounted \in BOOLEAN /\ \A n \in DOMAIN todo : todo[n].at \in 0 .. ST2
  /\ DOMAIN flash = 0 .. ST2
  /\ \A p \in Page : DOMAIN flash[p] = Parts
  /\ \A st \in {ST1, ST2} : flash[st] \in [crc : BOOLEAN, id : {0, 1}, move : Sector, marks : SUBSET Page]
  /\ call.op \in {"none", "mount", "unmount", "erase", "write"} /\ DOMAIN call.ask \subseteq FatSectors

\* The position and move count that WL_Flash::init takes from the flash.
View(fl) ==
  LET s == [fl |-> fl, pos |-> 0, move |-> 0]
  IN CASE fl[ST1].crc /\ fl[ST2].crc -> recoverPos([s EXCEPT !.move = fl[ST1].move])
       [] fl[ST1].crc /\ ~fl[ST2].crc -> [s EXCEPT !.move = fl[ST1].move]
       [] ~fl[ST1].crc /\ fl[ST2].crc -> [s EXCEPT !.pos = MAX_POS - 1, !.move = fl[ST2].move]
       [] OTHER -> s

\* What the FAT sectors hold, read at the positions of v; when a transaction is open,
\* what completing it will make of them.
ContentsAt(v) ==
  LET t == read(v, StateSector)[0]
      Of(base, i) == IF t # <<>> /\ t[1] = SAFE_OK /\ t[2] = base
                     THEN IF Kept(i, t[3], t[4]) THEN read(v, DumpSector)[i] ELSE <<>>
                     ELSE read(v, base)[i]
  IN [k \in FatSectors |-> Of(k \div FACTOR, k % FACTOR)]

\* What they hold for a reader who mounts the flash now.  (A set binds the view, so
\* that TLC evaluates it once.)
Contents == CHOOSE c \in {ContentsAt(v) : v \in {View(flash)}} : TRUE

Disk == INSTANCE KvStore WITH Key <- FatSectors, Value <- {<<>>, Garbage} \cup {<<v>> : v \in Vals},
          Torn <- {Garbage}, kv <- Contents, ask <- call.ask, ok <- TRUE, up <- mounted

\* WL_Ext_Safe is a disk: an erase or a write changes nothing but its FAT sectors, has
\* changed all of them when it returns, and power loss at any flash write of a
\* transaction, a page move or a state update damages no other FAT sector, also when
\* it leaves the first one or two words of the transaction record, or three of one
\* whose shift is not 0.  Two cuts are left out, of which it does not hold: copy 1 of
\* the WL state half written (CutState1 = FALSE; SurvivesReboot), and the record of a
\* transaction with shift 0 without its count (CutCount = FALSE).
DiskSurvives == Disk!Spec

\* Between calls the sectors that are read are those which the next mount will read:
\* the positions in RAM and on flash (state copies and marks) agree on the data.
SurvivesReboot == Idle => Contents = [k \in FatSectors |-> read(Store, k \div FACTOR)[k % FACTOR]]

\* The state of the wear levelling layer is one of a round, and is the one that the
\* next mount will reconstruct.
StateConsistent == TypeOK /\ SurvivesReboot
=============================================================================
