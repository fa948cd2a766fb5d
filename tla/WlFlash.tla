------------------------------- MODULE WlFlash -------------------------------
(***************************************************************************)
(* Wear levelling of flash sectors: class WL_Flash of                       *)
(* components/wear_levelling/WL_Flash.cpp, in units of one page (which is   *)
(* one sector in the configurations of wear_levelling.cpp).                 *)
(*                                                                         *)
(* FLASH logical sectors live on FLASH + 1 pages; the page at pos is the   *)
(* dummy.  A move copies the next page into the dummy, which so travels    *)
(* through the flash.  Two copies of a state record (st1, st2) hold        *)
(* move_count and, written one by one, a mark for every move of the round. *)
(*                                                                         *)
(* As in NvsPage every operator takes and returns a store: fl is the flash, *)
(* pos, move and access the state in RAM, log the flash writes made.       *)
(***************************************************************************)
EXTENDS Integers, Sequences, FiniteSets, SequencesExt

CONSTANTS FLASH,      \* flash_size / page_size
          MAX_COUNT   \* max_count: erases between two moves

ASSUME FlashAssumption == FLASH \in Nat \ {0} /\ MAX_COUNT \in Nat \ {0}

MAX_POS == FLASH + 1
Page == 0 .. FLASH
Sector == 0 .. FLASH - 1

\* A state copy: crc tells whether its header is valid, id is the device_id.
Blank == [crc |-> FALSE, id |-> 0, move |-> 0, marks |-> {}]
Fresh(move) == [crc |-> TRUE, id |-> 1, move |-> move, marks |-> {}]
\* The two state copies follow the pages in the flash.
ST1 == FLASH + 1
ST2 == FLASH + 2

\* Write val at a page or state copy; cut names the parts that power loss on the way
\* leaves half written (of a state copy: {0}, its header).
Put(s, at, val, cut) ==
  [s EXCEPT !.fl[at] = val, !.log = Append(@, [at |-> at, val |-> val, cut |-> cut])]

\* The page that holds logical sector addr.
calcAddr(pos, move, addr) ==
  LET r == (FLASH - move + addr) % FLASH
  IN IF r < pos THEN r ELSE r + 1

(******************************* state copies ******************************)
eraseState(s, st) == Put(s, st, Blank, {})
writeState(s, st, h) == Put(s, st, h, {0})
mark(s, st, n) == Put(s, st, [s.fl[st] EXCEPT !.marks = @ \cup {n}], {})

Header(st) == [st EXCEPT !.marks = {}]

renewStates(s, move) ==
  LET a == writeState(eraseState([s EXCEPT !.pos = 0, !.move = move], ST1), ST1, Fresh(move))
  IN writeState(eraseState(a, ST2), ST2, Fresh(move))

initSections(s) == renewStates([s EXCEPT !.access = 0], 0)

\* The first move of the round without a mark; the last one when all are marked.
recoverPos(s) ==
  LET open == {n \in 0 .. MAX_POS - 1 : n \notin s.fl[ST1].marks}
  IN [s EXCEPT !.pos = IF open = {} THEN MAX_POS - 1
                       ELSE CHOOSE n \in open : \A m \in open : n <= m]

\* Rewrite a state copy from the other one, header first, then the known marks.
copyState(s, to, from, known) ==
  FoldLeft(LAMBDA t, n : mark(t, to, n), writeState(eraseState(s, to), to, Header(s.fl[from])),
           SetToSortSeq(known, <))

recoverState2(s) == copyState(s, ST2, ST1, s.fl[ST1].marks)

\* OkBuffSet checks the marks of copy 2 against the device_id that was read from
\* the broken copy 1.
recoverState1(s) ==
  copyState(s, ST1, ST2, IF s.fl[ST1].id = s.fl[ST2].id THEN s.fl[ST2].marks ELSE {})

init(s) ==
  LET a == s.fl[ST1]
      b == s.fl[ST2]
      s1 == [s EXCEPT !.move = a.move, !.access = 0]
      s2 == [s EXCEPT !.move = b.move, !.access = 0]
  IN CASE a.crc /\ b.crc -> recoverPos(IF Header(a) # Header(b) THEN recoverState2(s1) ELSE s1)
       [] ~a.crc /\ ~b.crc -> recoverPos(initSections(s))
       [] a.crc /\ ~b.crc -> [recoverState2(s1) EXCEPT !.pos = 0]
       [] ~a.crc /\ b.crc -> [recoverState1(s2) EXCEPT !.pos = MAX_POS - 1]

(******************************** the pages ********************************)
\* A page is cut into parts; <<>> is a blank part and Garbage one whose programming
\* or erasing was cut off, or that was programmed twice.  A part holds one value, or
\* the words of a record, of which Unset (0xffffffff) is one not yet programmed.
Garbage == <<-1>>
Unset == -1

erasePage(s, p) == Put(s, p, [i \in DOMAIN s.fl[p] |-> <<>>], DOMAIN s.fl[p])
copyPage(s, from, to) == Put(s, to, s.fl[from], DOMAIN s.fl[to])

\* Program parts of a page; only blank parts take the new value.
programPage(s, p, new) ==
  LET old == s.fl[p]
      used == {i \in DOMAIN new : new[i] # <<>>}
  IN Put(s, p, [i \in DOMAIN old |-> IF i \notin used THEN old[i]
                                    ELSE IF old[i] = <<>> THEN new[i] ELSE Garbage], used)

\* What is left of a part when its programming ends after n words.
CutAfter(n, part) ==
  IF n \in 1 .. Len(part) - 1 THEN [m \in DOMAIN part |-> IF m <= n THEN part[m] ELSE Unset]
  ELSE Garbage

\* What power loss during the flash write e may leave: of a part garbage, or the
\* first words of a record, which has at most four; of a cut header its device_id
\* or not.
TornImages(fl, e) ==
  IF e.cut = {} THEN {}
  ELSE IF e.at \in Page
  THEN {[i \in DOMAIN e.val |-> IF i \in e.cut THEN CutAfter(n, e.val[i]) ELSE fl[e.at][i]] : n \in 0 .. 3}
  ELSE {[Blank EXCEPT !.id = i] : i \in {0, 1}}

\* Mutant: the position is marked in the second copy only.
markMoveInCopy2(s) == mark(s, ST2, s.pos)

markMove(s) == mark(mark(s, ST1, s.pos), ST2, s.pos)

nextMove(move) == IF move + 1 >= MAX_POS - 1 THEN 0 ELSE move + 1

\* Move the page after the dummy into it and mark the move; the round ends with one
\* move more, and fresh state copies.
updateWL(s) ==
  LET src  == IF s.pos + 1 >= MAX_POS THEN 0 ELSE s.pos + 1
      b    == copyPage(erasePage([s EXCEPT !.access = 0], s.pos), src, s.pos)
      c    == markMove(b)
  IN IF s.access + 1 < MAX_COUNT THEN [s EXCEPT !.access = @ + 1]
     ELSE IF s.pos + 1 < MAX_POS THEN [c EXCEPT !.pos = @ + 1]
     ELSE renewStates(c, nextMove(s.move))

flush(s) == updateWL([s EXCEPT !.access = MAX_COUNT - 1])

eraseSector(s, sector) ==
  LET a == updateWL(s) IN erasePage(a, calcAddr(a.pos, a.move, sector))

read(s, sector) == s.fl[calcAddr(s.pos, s.move, sector)]

write(s, sector, new) == programPage(s, calcAddr(s.pos, s.move, sector), new)
=============================================================================
