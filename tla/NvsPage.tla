------------------------------- MODULE NvsPage -------------------------------
(***************************************************************************)
(* One page (flash sector) of non-volatile storage: class nvs::Page of      *)
(* components/nvs_flash/src/nvs_page.cpp and the item cache of              *)
(* nvs_item_hash_list.cpp.                                                  *)
(*                                                                         *)
(* Every operator takes and returns a store                                *)
(*   [fl    : flash image of every page,                                   *)
(*    rp    : RAM object of every page,                                    *)
(*    list, free : the page lists of PageManager,  seq : mSeqNumber,       *)
(*    log   : the flash writes made so far, in order,                      *)
(*    rc    : the error code returned by the last call]                    *)
(* A log entry [page, img, torn] is one atomic flash operation: it leaves  *)
(* img, or, when power is lost during it, the old image or one in torn.    *)
(***************************************************************************)
EXTENDS Integers, Sequences, FiniteSets, SequencesExt

CONSTANTS ENTRY_COUNT,   \* entries of a page
          WORD           \* entry states kept in one word of the state table

ASSUME PageAssumption == ENTRY_COUNT \in Nat \ {0, 1} /\ WORD \in Nat \ {0}

Entries == 0 .. ENTRY_COUNT - 1
INVALID_ENTRY == 2 * ENTRY_COUNT + 1
CHUNK_ANY == -1
ANY == "ANY"
VER_0 == 0
VER_1 == 8
VER_ANY == -1
CHUNK_MAX == ENTRY_COUNT - 1

\* Entry contents. A half-written entry has a first word that is not blank
\* and no valid CRC; a data entry carries bytes of the value, not a header.
Blank == [type |-> "blank"]
Half  == [type |-> "half"]
Data(v, off) == [type |-> "data", val |-> <<v, off>>]
Item(key, type, span, chunk, val) ==
  [type |-> type, key |-> key, span |-> span, chunk |-> chunk, val |-> val]
CrcOK(e) == e.type \notin {"blank", "half", "data"}
isVariableLengthType(t) == t \in {"SZ", "BLOB_DATA"}

\* Programming flash can only clear bits: over a used entry it makes garbage.
Program(old, new) == IF old = Blank THEN new ELSE Half

ErasedPage == [state |-> "UNINITIALIZED", seq |-> 0, crc |-> FALSE,
               tab |-> [i \in Entries |-> "EMPTY"], ent |-> [i \in Entries |-> Blank]]
\* What is left of a page whose header was cut off by a power loss.
TornPage(f) == [f EXCEPT !.state = "ACTIVE", !.crc = FALSE]
NewPage == [state |-> "INVALID", seq |-> 0, first |-> INVALID_ENTRY,
            next |-> INVALID_ENTRY, used |-> 0, hash |-> <<>>]

FlashWrite(s, p, img, torn) ==
  [s EXCEPT !.fl[p] = img, !.rc = "OK",
            !.log = Append(@, [page |-> p, img |-> img, torn |-> torn])]

MinOr(S, d) == IF S = {} THEN d ELSE CHOOSE i \in S : \A j \in S : i <= j
UpTo(n) == [i \in 1 .. n |-> i - 1]
Written(s, p) == {i \in Entries : s.fl[p].tab[i] = "WRITTEN"}

(************************* the cache of item hashes ************************)
\* A hash covers namespace, key and chunk index, not the type or the value.
HashFind(hash, start, key, chunk) ==
  LET at == {n \in DOMAIN hash : hash[n].idx >= start /\ hash[n].key = key
                                 /\ hash[n].chunk = chunk}
  IN IF at = {} THEN INVALID_ENTRY ELSE hash[MinOr(at, 0)].idx

HashInsert(s, p, item, i) ==
  [s EXCEPT !.rp[p].hash = Append(@, [key |-> item.key, chunk |-> item.chunk, idx |-> i])]

HashErase(s, p, i) ==
  [s EXCEPT !.rp[p].hash = SelectSeq(@, LAMBDA n : n.idx # i)]

(***************************** entry state table ****************************)
\* What an erased entry holds is never read again: only whether it is blank is kept.
SetEntries(f, I, st) ==
  [f EXCEPT !.tab = [i \in Entries |-> IF i \in I THEN st ELSE @[i]],
            !.ent = [i \in Entries |-> IF i \in I /\ st = "ERASED" /\ @[i] # Blank
                                       THEN Half ELSE @[i]]]

alterEntryState(s, p, i, st) == FlashWrite(s, p, SetEntries(s.fl[p], {i}, st), {})

\* The words of the table are written from the last one back to the first.
alterEntryRangeState(s, p, begin, end, st) ==
  LET words == [n \in 1 .. ((end - 1) \div WORD) - (begin \div WORD) + 1
                   |-> ((end - 1) \div WORD) - n + 1]
  IN FoldLeft(LAMBDA t, w :
       FlashWrite(t, p, SetEntries(t.fl[p], {i \in begin .. end - 1 : i \div WORD = w}, st), {}),
       s, words)

alterPageState(s, p, st) ==
  [FlashWrite(s, p, [s.fl[p] EXCEPT !.state = st], {}) EXCEPT !.rp[p].state = st]

markFull(s, p) == IF s.rp[p].state # "ACTIVE" THEN [s EXCEPT !.rc = "INVALID_STATE"]
                  ELSE alterPageState(s, p, "FULL")
markFreeing(s, p) == IF s.rp[p].state \notin {"ACTIVE", "FULL"}
                     THEN [s EXCEPT !.rc = "INVALID_STATE"]
                     ELSE alterPageState(s, p, "FREEING")

erasePage(s, p) ==
  [FlashWrite(s, p, ErasedPage, {TornPage(s.fl[p])})
     EXCEPT !.rp[p] = [NewPage EXCEPT !.state = "UNINITIALIZED"]]

initialize(s, p) ==
  LET img == [ErasedPage EXCEPT !.state = "ACTIVE", !.seq = s.rp[p].seq, !.crc = TRUE]
  IN [FlashWrite(s, p, img, {TornPage(img)})
        EXCEPT !.rp[p].state = "ACTIVE", !.rp[p].next = 0]

(******************************* erasing items *****************************)
\* Mutant: the first used entry is not searched again.
staleFirstUsedEntry(s, p, index, span) == s

updateFirstUsedEntry(s, p, index, span) ==
  LET end == IF s.rp[p].next > ENTRY_COUNT THEN ENTRY_COUNT ELSE s.rp[p].next
  IN [s EXCEPT !.rp[p].first =
        MinOr({i \in Written(s, p) : i >= index + span /\ i < end}, INVALID_ENTRY)]

eraseEntryAndSpan(s, p, index) ==
  LET item  == s.fl[p].ent[index]
      whole == s.fl[p].tab[index] = "WRITTEN" /\ CrcOK(item)
      span  == IF whole THEN item.span ELSE 1
      gone  == Cardinality(Written(s, p) \cap (index .. index + span - 1))
      h     == HashErase(s, p, index)
      lost  == whole /\ h.rp[p].hash = s.rp[p].hash   \* assert in HashList::erase
      a     == [alterEntryRangeState(h, p, index, index + span, "ERASED")
                  EXCEPT !.rp[p].used = @ - gone]
      b     == IF index = s.rp[p].first THEN updateFirstUsedEntry(a, p, index, span) ELSE a
      c     == IF index + span > b.rp[p].next THEN [b EXCEPT !.rp[p].next = index + span] ELSE b
  IN IF lost THEN [s EXCEPT !.rc = "ASSERT"] ELSE c

(******************************* finding items *****************************)
\* Visit the items at or after start, one after the other, until one decides.  The
\* code also erases a written entry whose CRC is wrong; loading a page has already
\* done so, and CacheExact of NvsStorage says that no such entry is met here.
findItem(s, p, type, key, begin, chunk, ver) ==
  LET r     == s.rp[p]
      from  == IF begin > r.first /\ begin < ENTRY_COUNT THEN begin ELSE r.first
      hit   == HashFind(r.hash, from, key, chunk)
      exact == type # ANY /\ key # ANY
      start == IF exact THEN hit ELSE from
      end   == IF r.next > ENTRY_COUNT THEN ENTRY_COUNT ELSE r.next
      Visit(a, i) ==
        LET e == s.fl[p].ent[i]
            skip == \/ key # ANY /\ e.key # key
                    \/ chunk # CHUNK_ANY /\ type = "BLOB_DATA" /\ e.chunk # chunk
                    \/ type = "BLOB_IDX" /\ e.chunk # CHUNK_ANY
                    \/ type = "BLOB_IDX" /\ ver # VER_ANY /\ e.val[1] # ver
                    \/ type # ANY /\ e.type # type /\ key = ANY /\ chunk = CHUNK_ANY
        IN IF i # a.at \/ i >= end \/ a.rc # "NOT_FOUND" THEN a
           ELSE IF s.fl[p].tab[i] # "WRITTEN" \/ ~CrcOK(e) THEN [a EXCEPT !.at = i + 1]
           ELSE IF skip THEN [a EXCEPT !.at = IF isVariableLengthType(e.type)
                                              THEN i + e.span ELSE i + 1]
           ELSE [a EXCEPT !.idx = i,
                   !.rc = IF type # ANY /\ e.type # type THEN "TYPE_MISMATCH" ELSE "OK"]
      none  == [rc |-> "NOT_FOUND", at |-> start, idx |-> INVALID_ENTRY]
  IN IF \/ r.state \in {"CORRUPT", "INVALID", "UNINITIALIZED"} \/ begin >= ENTRY_COUNT
        \/ start >= ENTRY_COUNT
     THEN none ELSE FoldLeft(Visit, none, UpTo(ENTRY_COUNT))

eraseItem(s, p, type, key, chunk, ver) ==
  LET found(f) == IF f.rc # "OK" THEN [s EXCEPT !.rc = f.rc] ELSE eraseEntryAndSpan(s, p, f.idx)
  IN found(findItem(s, p, type, key, 0, chunk, ver))

\* Every item of a given type on a page, in order of position.
AllItems(s, p, type) ==
  LET Visit(a, i) ==
        LET f == findItem(s, p, type, ANY, a.at, CHUNK_ANY, VER_ANY)
        IN IF a.stop \/ i < a.at THEN a
           ELSE IF f.rc # "OK" THEN [a EXCEPT !.stop = TRUE]
           ELSE [a EXCEPT !.at = f.idx + s.fl[p].ent[f.idx].span,
                          !.found = Append(@, f.idx)]
  IN FoldLeft(Visit, [at |-> 0, stop |-> FALSE, found |-> <<>>], UpTo(ENTRY_COUNT)).found

(******************************* writing items *****************************)
writeEntry(s, p, e) ==
  LET i   == s.rp[p].next
      f   == s.fl[p]
      img == [f EXCEPT !.ent[i] = Program(@, e)]
      a   == FlashWrite(s, p, img, {[f EXCEPT !.ent[i] = Half]})
  IN [alterEntryState(a, p, i, "WRITTEN")
        EXCEPT !.rp[p].first = IF @ = INVALID_ENTRY THEN i ELSE @,
               !.rp[p].used = @ + 1, !.rp[p].next = @ + 1]

\* One flash write for all entries; power loss cuts it after any of them.
writeEntryData(s, p, es) ==
  LET i == s.rp[p].next
      n == Len(es)
      f == s.fl[p]
      Upto(m, half) == [f EXCEPT !.ent = [j \in Entries |->
          IF j \in i .. i + m - 1 THEN Program(@[j], es[j - i + 1])
          ELSE IF half /\ j = i + m THEN Half ELSE @[j]]]
      a == FlashWrite(s, p, Upto(n, FALSE), {Upto(m, TRUE) : m \in 0 .. n - 1})
  IN [alterEntryRangeState(a, p, i, i + n, "WRITTEN")
        EXCEPT !.rp[p].used = @ + n, !.rp[p].next = @ + n]

\* item with its data entries; tail: the last data entry is only partly used.
writeItem(s, p, item, data, tail) ==
  LET a    == IF s.rp[p].state = "UNINITIALIZED" THEN initialize(s, p) ELSE [s EXCEPT !.rc = "OK"]
      next == a.rp[p].next
      b    == writeEntry(HashInsert(a, p, item, next), p, item)
      full == IF tail THEN Front(data) ELSE data
      c    == IF full = <<>> THEN b ELSE writeEntryData(b, p, full)
      d    == IF tail THEN writeEntry(c, p, Last(data)) ELSE c
  IN IF s.rp[p].state = "INVALID" THEN [s EXCEPT !.rc = "INVALID_STATE"]
     ELSE IF a.rp[p].state = "FULL" \/ next = INVALID_ENTRY
             \/ next + 1 + Len(data) > ENTRY_COUNT
     THEN [a EXCEPT !.rc = "PAGE_FULL"]
     ELSE d

copyItems(s, p, q) ==
  LET Copy(a, i) ==
        LET e == s.fl[p].ent[i]
            one(t, x) == writeEntry(t, q, s.fl[p].ent[x])
        IN IF i # a.at THEN a
           ELSE IF s.fl[p].tab[i] # "WRITTEN" THEN [a EXCEPT !.at = i + 1]
           ELSE [s |-> FoldLeft(one, HashInsert(a.s, q, e, a.s.rp[q].next),
                                [n \in 1 .. e.span |-> i + n - 1]),
                 at |-> i + e.span]
      start == IF s.rp[q].state = "UNINITIALIZED" THEN initialize(s, q) ELSE s
  IN IF s.rp[p].first = INVALID_ENTRY THEN [s EXCEPT !.rc = "OK"]   \* NOT_FOUND is accepted
     ELSE FoldLeft(Copy, [s |-> start, at |-> s.rp[p].first], UpTo(ENTRY_COUNT)).s

getVarDataTailroom(r) ==
  CASE r.state = "UNINITIALIZED" -> CHUNK_MAX
    [] r.state = "FULL" -> 0
    [] OTHER -> IF r.next < ENTRY_COUNT - 1 THEN ENTRY_COUNT - r.next - 1 ELSE 0

(****************************** loading a page *****************************)
\* Entries after the last written one that hold data are given up.
discardHalfWritten(s, p) ==
  LET Visit(t, i) ==
        IF i # t.rp[p].next \/ t.fl[p].ent[i] = Blank THEN t
        ELSE [alterEntryState(t, p, i, "ERASED")
                EXCEPT !.rp[p].next = @ + 1,
                       !.rp[p].used = IF t.fl[p].tab[i] = "WRITTEN" THEN @ - 1 ELSE @]
  IN FoldLeft(Visit, s, UpTo(ENTRY_COUNT))

Complete(s, p, i) ==
  \A j \in i .. i + s.fl[p].ent[i].span - 1 : j \in Written(s, p)

\* An active page: rebuild the cache, erase what is incomplete and what a newer
\* item of the page replaces.
loadActive(s, p) ==
  LET empty == MinOr({i \in Entries : s.fl[p].tab[i] = "EMPTY"}, INVALID_ENTRY)
      b     == discardHalfWritten([s EXCEPT !.rp[p].next = empty], p)
      end   == IF b.rp[p].next > ENTRY_COUNT THEN ENTRY_COUNT ELSE b.rp[p].next
      Visit(a, i) ==
        LET e   == a.s.fl[p].ent[i]
            h   == HashInsert(a.s, p, e, i)
            dup == HashFind(h.rp[p].hash, 0, e.key, e.chunk)
            var == isVariableLengthType(e.type)
        IN IF i # a.at \/ i >= end THEN a
           ELSE IF a.s.fl[p].tab[i] = "ERASED" THEN [a EXCEPT !.at = i + 1, !.last = INVALID_ENTRY]
           ELSE IF ~CrcOK(e) THEN [s |-> eraseEntryAndSpan(a.s, p, i), at |-> i + 1,
                                   last |-> i, item |-> e]
           ELSE IF var /\ ~Complete(a.s, p, i)
           THEN [s |-> eraseEntryAndSpan(h, p, i), at |-> i + e.span,
                 last |-> INVALID_ENTRY, item |-> e]
           ELSE [s |-> IF dup < i THEN eraseEntryAndSpan(h, p, dup) ELSE h,
                 at |-> IF var THEN i + e.span ELSE i + 1, last |-> i, item |-> e]
      c     == FoldLeft(Visit, [s |-> b, at |-> 0, last |-> INVALID_ENTRY, item |-> Blank],
                        UpTo(ENTRY_COUNT))
      f     == findItem(c.s, p, c.item.type, c.item.key, 0, CHUNK_ANY, VER_ANY)
  IN IF c.last # INVALID_ENTRY /\ CrcOK(c.item) /\ f.rc = "OK" /\ f.idx < c.last
     THEN eraseEntryAndSpan(c.s, p, f.idx) ELSE c.s

\* A full or freeing page: rebuild the cache and erase incomplete items.
loadFull(s, p) ==
  LET Visit(a, i) ==
        LET e == a.s.fl[p].ent[i]
            h == HashInsert(a.s, p, e, i)
        IN IF i < a.at \/ a.s.fl[p].tab[i] # "WRITTEN" THEN a
           ELSE IF ~CrcOK(e) THEN [s |-> eraseEntryAndSpan(a.s, p, i), at |-> i + 1]
           ELSE [s |-> IF isVariableLengthType(e.type) /\ ~Complete(a.s, p, i)
                       THEN eraseEntryAndSpan(h, p, i) ELSE h,
                 at |-> i + e.span]
  IN FoldLeft(Visit, [s |-> s, at |-> s.rp[p].first], UpTo(ENTRY_COUNT)).s

mLoadEntryTable(s, p) ==
  LET w == Written(s, p)
      a == [s EXCEPT !.rp[p].used = Cardinality(w), !.rp[p].first = MinOr(w, INVALID_ENTRY)]
  IN IF s.rp[p].state = "ACTIVE" THEN loadActive(a, p) ELSE loadFull(a, p)

\* Page::load on a fresh Page object.
loadPage(s, p) ==
  LET f  == s.fl[p]
      st == IF f.state = "UNINITIALIZED"
            THEN IF f = ErasedPage THEN "UNINITIALIZED" ELSE "CORRUPT"
            ELSE IF f.crc THEN f.state ELSE "CORRUPT"
      a  == [s EXCEPT !.rp[p] = [NewPage EXCEPT !.state = st,
                                   !.seq = IF f.crc THEN f.seq ELSE 0]]
  IN IF st \in {"UNINITIALIZED", "CORRUPT"} THEN a ELSE mLoadEntryTable(a, p)
=============================================================================
