----------------------------- MODULE NvsStorage -----------------------------
(***************************************************************************)
(* Non-volatile storage on flash, components/nvs_flash/src: PageManager     *)
(* (nvs_pagemanager.cpp) and Storage (nvs_storage.cpp) on top of NvsPage.   *)
(* Calls are serialised by the lock of nvs_api.cpp.  A call is computed    *)
(* from the state it starts in; the flash writes it makes (its log) are     *)
(* then carried out one per step, and power may be lost before, between,   *)
(* after and in the middle of them.                                        *)
(***************************************************************************)
EXTENDS NvsPage

CONSTANTS Pages,      \* sectors of the partition, 0 .. n-1
          IntKeys,    \* keys set with nvs_set_u8
          StrKeys,    \* keys set with nvs_set_str
          BlobKeys,   \* keys set with nvs_set_blob
          IntVals, StrVals, BlobVals,   \* their values
          SzLen,      \* entries taken by the bytes of a string
          BlobLen,    \* entries taken by the bytes of a blob
          MaxSeq,     \* bound: page activations
          FailedBlobs \* whether nvs_set_blob is also called when it will fail

Keys == IntKeys \cup StrKeys \cup BlobKeys
Vals == IntVals \cup StrVals \cup BlobVals
ValsOf(k) == UNION {IF k \in IntKeys THEN IntVals ELSE {}, IF k \in StrKeys THEN StrVals ELSE {},
                    IF k \in BlobKeys THEN BlobVals ELSE {}}

ASSUME StorageAssumption ==
  /\ Vals \subseteq Nat \ {0} /\ SzLen \in 1 .. CHUNK_MAX /\ BlobLen \in Nat \ {0}
  /\ Pages = 0 .. Cardinality(Pages) - 1 /\ Cardinality(Pages) >= 2
  /\ MaxSeq \in Nat /\ FailedBlobs \in BOOLEAN

VARIABLES flash,    \* image of every page
          ram,      \* page objects, page lists and next sequence number
          todo,     \* flash writes of the running call still to be made
          power,    \* "off", "on" (mounted), or "failed" (nvs_flash_init failed)
          call      \* the running or last call: [op, ask, rc]

vars == <<flash, ram, todo, power, call>>

Absent == 0
NoChange == [k \in {} |-> 0]
Store == [fl |-> flash, rp |-> ram.rp, list |-> ram.list, free |-> ram.free,
          seq |-> ram.seq, log |-> <<>>, rc |-> "OK"]

(******************************** PageManager ******************************)
activatePage(s) ==
  LET p == Head(s.free)
      a == IF s.rp[p].state = "CORRUPT" THEN erasePage(s, p) ELSE s
  IN IF s.free = <<>> THEN [s EXCEPT !.rc = "NOT_ENOUGH_SPACE"]
     ELSE [a EXCEPT !.free = Tail(@), !.list = Append(@, p), !.rp[p].seq = s.seq,
                    !.seq = @ + 1, !.rc = "OK"]

\* Mutant: the page is erased before its items have been copied.
movePageErasedFirst(s, p) ==
  [copyItems(erasePage(s, p), p, Last(s.list))
     EXCEPT !.list = SelectSeq(@, LAMBDA q : q # p), !.free = Append(@, p)]

\* Copy what is left on page p to the last page, and free p.
movePage(s, p) ==
  LET c == copyItems(s, p, Last(s.list))
      e == erasePage(c, p)
  IN IF c.rc # "OK" THEN c
     ELSE [e EXCEPT !.list = SelectSeq(@, LAMBDA q : q # p), !.free = Append(@, p)]

requestNewPage(s) ==
  LET unused(p) == ENTRY_COUNT - s.rp[p].used
      most == s.list[CHOOSE n \in DOMAIN s.list :
                /\ \A m \in DOMAIN s.list : unused(s.list[m]) <= unused(s.list[n])
                /\ \A m \in 1 .. n - 1 : unused(s.list[m]) < unused(s.list[n])]
      moved(m) == IF m.rc = "OK" /\ m.rp[Last(m.list)].used # s.rp[most].used
                  THEN [m EXCEPT !.rc = "ASSERT"] ELSE m
      freeing(b) == IF b.rc # "OK" THEN b ELSE moved(movePage(b, most))
  IN IF s.free = <<>> THEN [s EXCEPT !.rc = "INVALID_STATE"]
     ELSE IF Len(s.free) >= 2 THEN activatePage(s)
     ELSE IF unused(most) = 0 THEN [s EXCEPT !.rc = "NOT_ENOUGH_SPACE"]
     ELSE freeing(markFreeing(activatePage(s), most))

\* Mutant: the replaced item is left on its page.
keepDuplicate(s) == s

\* The last item of the last page may replace one of an earlier page that
\* power loss kept from being erased.
removeDuplicate(s) ==
  LET last == Last(s.list)
      has(p, e) == /\ s.rp[p].state # "FREEING"
                   /\ findItem(s, p, e.type, e.key, 0, e.chunk, VER_ANY).rc = "OK"
      erase(old, e) == IF old = {} THEN s
                       ELSE eraseItem(s, s.list[MinOr(old, 0)], e.type, e.key, e.chunk, VER_ANY)
      check(e) == erase({n \in 1 .. Len(s.list) - 1 : has(s.list[n], e)}, e)
      loaded(items) == IF items = <<>> THEN s ELSE check(s.fl[last].ent[Last(items)])
  IN loaded(AllItems(s, last, ANY))

\* Mutant: an interrupted move is left as it is.
leaveFreeing(s) == s

\* Complete the freeing of a page that power loss interrupted.
recoverFreeing(s) ==
  LET freeing == {n \in DOMAIN s.list : s.rp[s.list[n]].state = "FREEING"}
      last == Last(s.list)
      copy(b) == IF b.rc # "OK" THEN b ELSE movePage(b, s.list[MinOr(freeing, 0)])
  IN IF freeing = {} THEN s
     ELSE copy(activatePage(
            IF s.rp[last].state = "ACTIVE"
            THEN [erasePage(s, last) EXCEPT !.list = Front(@), !.free = Append(@, last)]
            ELSE s))

loadPages(s) ==
  LET recovered(c) == IF c.rc = "OK" /\ c.free = <<>> THEN [c EXCEPT !.rc = "NO_FREE_PAGES"] ELSE c
      listed(b) == IF b.list = <<>> THEN activatePage([b EXCEPT !.seq = 0])
                   ELSE recovered(recoverFreeing(removeDuplicate(
                          [b EXCEPT !.seq = b.rp[Last(b.list)].seq + 1])))
      loaded(a) ==
        LET used == {p \in Pages : a.rp[p].state \notin {"UNINITIALIZED", "INVALID", "CORRUPT"}}
        IN listed([a EXCEPT !.list = SetToSortSeq(used, LAMBDA p, q : a.rp[p].seq < a.rp[q].seq),
                            !.free = SetToSortSeq(Pages \ used, <), !.rc = "OK"])
  IN loaded(FoldLeft(loadPage, s, UpTo(Cardinality(Pages))))

(********************************* Storage *********************************)
InitialStore == [fl |-> flash, rp |-> [p \in Pages |-> NewPage], list |-> <<>>,
                 free |-> <<>>, seq |-> 0, log |-> <<>>, rc |-> "OK"]

findInPages(s, type, key, chunk, ver) ==
  LET on(p) == findItem(s, p, type, key, 0, chunk, ver)
      found(p, i) == [rc |-> "OK", page |-> p, item |-> s.fl[p].ent[i], idx |-> i]
      first(at) == IF at = {} THEN [rc |-> "NOT_FOUND", page |-> 0, item |-> Blank, idx |-> 0]
                   ELSE LET p == s.list[MinOr(at, 0)] IN found(p, on(p).idx)
  IN first({n \in DOMAIN s.list : on(s.list[n]).rc = "OK"})

\* Mutant: chunks of an unfinished write are kept.
keepOrphanDataBlobs(s) == s

\* Chunks that belong to no blob index are left over from an unfinished write.
eraseOrphanDataBlobs(s) ==
  LET indices == {s.fl[pi[1]].ent[pi[2]] : pi \in
        {<<p, i>> \in Pages \X Entries :
           /\ p \in Range(s.list)
           /\ i \in Range(AllItems(s, p, "BLOB_IDX"))}}
      owned(e) == \E x \in indices : x.key = e.key /\ e.chunk >= x.val[1]
                                     /\ e.chunk < x.val[1] + x.val[2]
      one(t, p) == FoldLeft(LAMBDA u, i :
                     LET e == u.fl[p].ent[i]
                     IN IF owned(e) THEN u
                        ELSE eraseItem(u, p, "BLOB_DATA", e.key, e.chunk, VER_ANY),
                   t, AllItems(t, p, "BLOB_DATA"))
  IN FoldLeft(one, s, s.list)

init(s) == LET loaded(a) == IF a.rc # "OK" THEN a ELSE [eraseOrphanDataBlobs(a) EXCEPT !.rc = "OK"]
           IN loaded(loadPages(s))

\* Erase a blob: its index first, which makes its chunks orphans, then those that
\* are found, up to the first error.
eraseMultiPageBlob(s, key, ver) ==
  LET chunk(t, n) ==
        LET found(g) == IF t.rc # "OK" \/ g.rc # "OK" THEN t
                        ELSE eraseItem(t, g.page, "BLOB_DATA", key, n, VER_ANY)
        IN found(findInPages(t, "BLOB_DATA", key, n, VER_ANY))
      chunks(a, start, count) == FoldLeft(LAMBDA t, n : chunk(t, start + n), a, UpTo(count))
      found(f) == IF f.rc # "OK" THEN [s EXCEPT !.rc = f.rc]
                  ELSE chunks(eraseItem(s, f.page, "BLOB_IDX", key, CHUNK_ANY, ver),
                              f.item.val[1], f.item.val[2])
  IN found(findInPages(s, "BLOB_IDX", key, CHUNK_ANY, ver))

\* The last data entry of an odd value is only partly used.
Tail1(v) == v % 2 = 1
Piece(v, off, n) == [j \in 1 .. n |-> Data(v, off + j - 1)]

\* Mark the current page full if it is not yet, and get another one.
nextPage(s) ==
  LET cur == Last(s.list)
      a   == IF s.rp[cur].state # "FULL" THEN markFull(s, cur) ELSE [s EXCEPT !.rc = "OK"]
  IN IF a.rc # "OK" THEN a ELSE requestNewPage(a)

\* One round of the loop of writeMultiPageBlob.
blobRound(key, v, start, b, n) ==
  LET p    == Last(b.s.list)
      room == getVarDataTailroom(b.s.rp[p])
      size == IF b.left > room THEN room ELSE b.left
      left == b.left - size
      item == Item(key, "BLOB_DATA", 1 + size, start + b.count, <<v, BlobLen - b.left>>)
      idx  == Item(key, "BLOB_IDX", 1, CHUNK_ANY, <<start, b.count + 1, BlobLen>>)
      end(s) == [b EXCEPT !.s = s, !.done = TRUE]
      retry(s) == IF s.rc # "OK" THEN end(s)
                  ELSE IF getVarDataTailroom(s.rp[Last(s.list)]) = room
                  THEN end([s EXCEPT !.rc = "NOT_ENOUGH_SPACE"])
                  ELSE [b EXCEPT !.s = s]
      indexed(s) == end(IF s.rc = "PAGE_FULL" THEN [s EXCEPT !.rc = "ASSERT"] ELSE s)
      next(s) == IF s.rc # "OK" THEN end(s)
                 ELSE IF left > 0 THEN [b EXCEPT !.s = s, !.left = left, !.count = @ + 1]
                 ELSE indexed(writeItem(s, Last(s.list), idx, <<>>, FALSE))
      written(s) == IF s.rc # "OK" THEN end(s)
                    ELSE [next(IF left > 0 \/ room = size THEN nextPage(s) ELSE s)
                            EXCEPT !.pages = Append(@, p)]
  IN IF b.done THEN b
     ELSE IF b.count = 0 /\ room < BlobLen /\ room * 10 < CHUNK_MAX THEN retry(nextPage(b.s))
     ELSE IF room = 0 THEN end([b.s EXCEPT !.rc = "NOT_ENOUGH_SPACE"])
     ELSE written(writeItem(b.s, p, item, Piece(v, BlobLen - b.left, size), left = 0 /\ Tail1(v)))

\* When anything failed the chunks are erased again, by number from 0.
eraseChunks(s, key, start, pages) ==
  FoldLeft(LAMBDA t, n : eraseItem(t, pages[n + 1], "BLOB_DATA", key, n, VER_ANY),
           s, UpTo(Len(pages)))

writeMultiPageBlob(s, key, v, start) ==
  LET end(b) == IF b.s.rc = "OK" THEN b.s
                ELSE [eraseChunks(b.s, key, start, b.pages) EXCEPT !.rc = b.s.rc]
  IN IF BlobLen > (Cardinality(Pages) - 1) * CHUNK_MAX
     THEN [s EXCEPT !.rc = "VALUE_TOO_LONG"]
     ELSE end(FoldLeft(LAMBDA b, n : blobRound(key, v, start, b, n),
                [s |-> s, left |-> BlobLen, count |-> 0, pages |-> <<>>, done |-> FALSE],
                UpTo(2 * Cardinality(Pages))))

\* The chunks of a blob, as a reader finds them one after the other.
chunksOf(s, key) ==
  LET found(f) == IF f.rc # "OK" THEN <<>>
                  ELSE [n \in 1 .. f.item.val[2] |->
                          findInPages(s, "BLOB_DATA", key, f.item.val[1] + n - 1, VER_ANY)]
  IN found(findInPages(s, "BLOB_IDX", key, CHUNK_ANY, VER_ANY))

\* The bytes of an item: the data entries after its header.
DataOf(s, f) == [j \in 1 .. f.item.span - 1 |-> s.fl[f.page].ent[f.idx + j]]

\* readMultiPageBlob: the pieces in order, or not found when a chunk is missing.
readBlob(s, key) ==
  LET read(cs) == IF cs = <<>> \/ \E n \in DOMAIN cs : cs[n].rc # "OK" THEN <<>>
                  ELSE FlattenSeq([n \in DOMAIN cs |-> DataOf(s, cs[n])])
  IN read(chunksOf(s, key))

writeBlob(s, key, v) ==
  LET other(f) == IF f.rc = "OK" /\ f.item.val[1] = VER_0 THEN VER_1 ELSE VER_0
      written(f, w) == IF w.rc # "OK" \/ f.rc # "OK" THEN w
                       ELSE eraseMultiPageBlob(w, key, f.item.val[1])
      found(f) == IF f.rc = "OK" /\ readBlob(s, key) = Piece(v, 0, BlobLen) THEN s
                  ELSE written(f, writeMultiPageBlob(s, key, v, other(f)))
  IN found(findInPages(s, "BLOB_IDX", key, CHUNK_ANY, VER_ANY))

\* Storage::writeItem for integers and strings.
writePlain(s, type, key, v) ==
  LET item == IF type = "U8" THEN Item(key, type, 1, CHUNK_ANY, <<v>>)
              ELSE Item(key, type, 1 + SzLen, CHUNK_ANY, <<v, 0>>)
      data == IF type = "U8" THEN <<>> ELSE Piece(v, 0, SzLen)
      find(t) == findInPages(t, type, key, CHUNK_ANY, VER_ANY)
      write(t) == writeItem(t, Last(t.list), item, data, type = "SZ" /\ Tail1(v))
      again(t) == IF t.rc = "PAGE_FULL" THEN [t EXCEPT !.rc = "NOT_ENOUGH_SPACE"] ELSE t
      turned(t) == IF t.rc # "OK" THEN t ELSE again(write(t))
      tried(t) == IF t.rc # "PAGE_FULL" THEN t ELSE turned(nextPage(t))
      old(f, t) == IF t.rp[f.page].state \in {"UNINITIALIZED", "INVALID"} THEN find(t).page ELSE f.page
      written(f, t) == IF t.rc # "OK" \/ f.rc # "OK" THEN t
                       ELSE eraseItem(t, old(f, t), type, key, CHUNK_ANY, VER_ANY)
      found(f) == IF f.rc = "OK" /\ f.item = item THEN s ELSE written(f, tried(write(s)))
  IN found(find(s))

\* nvs_erase_key: an item of any type, a blob with all its parts.
eraseKey(s, key) ==
  LET found(f) ==
        IF f.rc # "OK" THEN [s EXCEPT !.rc = f.rc]
        ELSE IF f.item.type \in {"BLOB_DATA", "BLOB_IDX"} THEN eraseMultiPageBlob(s, key, VER_ANY)
        ELSE eraseItem(s, f.page, ANY, key, CHUNK_ANY, VER_ANY)
  IN found(findInPages(s, ANY, key, CHUNK_ANY, VER_ANY))

\* nvs_erase_all: item after item, page after page.
eraseNamespace(s) ==
  FoldLeft(LAMBDA t, p : FoldLeft(LAMBDA u, i : eraseEntryAndSpan(u, p, i), t, AllItems(t, p, ANY)),
           s, s.list)

(********************************* the system ******************************)
\* Run a call: its result is known, its flash writes are still to be made.
Run(op, ask, s) ==
  /\ ram' = [rp |-> s.rp, list |-> s.list, free |-> s.free, seq |-> s.seq]
  /\ todo' = s.log
  /\ call' = [op |-> op, ask |-> ask, rc |-> s.rc]
  /\ UNCHANGED flash

Idle == power = "on" /\ todo = <<>> /\ call.op = "none"

Init == /\ flash = [p \in Pages |-> ErasedPage]
        /\ ram = [rp |-> [p \in Pages |-> NewPage], list |-> <<>>, free |-> <<>>, seq |-> 0]
        /\ todo = <<>> /\ power = "off"
        /\ call = [op |-> "none", ask |-> NoChange, rc |-> "OK"]

PowerOn == /\ power = "off"
           /\ \E s \in {init(InitialStore)} :
                Run("init", NoChange, s) /\ power' = IF s.rc = "OK" THEN "on" ELSE "failed"

Set(k, v) ==
  /\ Idle /\ ram.seq < MaxSeq
  /\ \E s \in {CASE k \in IntKeys -> writePlain(Store, "U8", k, v)
                 [] k \in StrKeys -> writePlain(Store, "SZ", k, v)
                 [] k \in BlobKeys -> writeBlob(Store, k, v)} :
        /\ k \in BlobKeys /\ ~FailedBlobs => s.rc = "OK"
        /\ Run("set", [x \in {k} |-> v], s)
  /\ UNCHANGED power

\* Of a key that is absent it returns ESP_ERR_NVS_NOT_FOUND and does nothing.
Erase(k) == /\ Idle
            /\ \E s \in {eraseKey(Store, k)} :
                 s.rc # "NOT_FOUND" /\ Run("erase", [x \in {k} |-> Absent], s)
            /\ UNCHANGED power

EraseAll == Idle /\ Run("eraseAll", [x \in Keys |-> Absent], eraseNamespace(Store)) /\ UNCHANGED power

\* nvs_get_blob cleans up a blob that misses a chunk.
GetBlob(k) ==
  /\ Idle /\ \E f \in Range(chunksOf(Store, k)) : f.rc # "OK"
  /\ Run("get", NoChange, eraseMultiPageBlob(Store, k, VER_ANY))
  /\ UNCHANGED power

\* The next flash write of the running call.
WriteFlash == /\ todo # <<>>
              /\ flash' = [flash EXCEPT ![Head(todo).page] = Head(todo).img]
              /\ todo' = Tail(todo)
              /\ UNCHANGED <<ram, power, call>>

Return == /\ todo = <<>> /\ call.op # "none"
          /\ call' = [op |-> "none", ask |-> NoChange, rc |-> "OK"]
          /\ UNCHANGED <<flash, ram, todo, power>>

\* Power goes off; a write that was being made may have been cut off.
PowerLoss ==
  /\ power # "off" /\ \A p \in Pages : flash[p].seq < MaxSeq
  /\ \/ UNCHANGED flash
     \/ todo # <<>> /\ \E img \in Head(todo).torn : flash' = [flash EXCEPT ![Head(todo).page] = img]
  /\ ram' = [rp |-> [p \in Pages |-> NewPage], list |-> <<>>, free |-> <<>>, seq |-> 0]
  /\ todo' = <<>> /\ power' = "off"
  /\ call' = [op |-> "none", ask |-> NoChange, rc |-> "OK"]

Next == \/ PowerOn \/ WriteFlash \/ Return \/ PowerLoss \/ EraseAll
        \/ \E k \in Keys : Erase(k) \/ \E v \in ValsOf(k) : Set(k, v)
        \/ \E k \in BlobKeys : GetBlob(k)

Spec == Init /\ [][Next]_vars

(******************************** properties *******************************)
\* The value of a key, from the flash alone: that of the newest complete item of
\* the key on a page with a valid header.
Whole(k, type, chunk) ==
  {pi \in {p \in Pages : flash[p].crc /\ flash[p].state # "UNINITIALIZED"} \X Entries :
     LET f == flash[pi[1]]
         e == f.ent[pi[2]]
     IN /\ e.type = type /\ f.tab[pi[2]] = "WRITTEN" /\ e.key = k /\ e.chunk = chunk
        /\ \A j \in 1 .. e.span - 1 : f.tab[pi[2] + j] = "WRITTEN"}

Newer(pi, qj) == \/ flash[pi[1]].seq > flash[qj[1]].seq
                 \/ flash[pi[1]].seq = flash[qj[1]].seq /\ pi[2] > qj[2]

\* At most one position: the newest of those in S.
Newest(S) == {pi \in S : \A qj \in S : ~Newer(qj, pi)}

Header(pi) == flash[pi[1]].ent[pi[2]]
Bytes(pi) == {flash[pi[1]].ent[pi[2] + j] : j \in 1 .. Header(pi).span - 1}

\* The value whose bytes these are; Mixed when they are not those of one value.
Mixed == -1
Decode(bytes, len) ==
  IF \E v \in Vals : bytes = {Data(v, o) : o \in 0 .. len - 1}
  THEN (CHOOSE e \in bytes : TRUE).val[1] ELSE Mixed

The(S, default) == IF S = {} THEN default ELSE CHOOSE x \in S : TRUE

BlobValue(k, x) ==
  LET cs == [n \in 1 .. x[2] |-> Newest(Whole(k, "BLOB_DATA", x[1] + n - 1))]
  IN IF \E n \in DOMAIN cs : cs[n] = {} THEN Absent
     ELSE Decode(UNION {Bytes(pi) : pi \in UNION {cs[n] : n \in DOMAIN cs}}, BlobLen)

ValueOf(k) ==
  The(CASE k \in BlobKeys -> {BlobValue(k, Header(pi).val) :
                                pi \in Newest(Whole(k, "BLOB_IDX", CHUNK_ANY))}
        [] k \in IntKeys  -> {Header(pi).val[1] : pi \in Newest(Whole(k, "U8", CHUNK_ANY))}
        [] k \in StrKeys  -> {Decode(Bytes(pi), SzLen) : pi \in Newest(Whole(k, "SZ", CHUNK_ANY))},
      Absent)

Kv == INSTANCE KvStore WITH Key <- Keys, Value <- Vals \cup {Absent}, Torn <- {},
        kv <- [k \in Keys |-> ValueOf(k)], ask <- call.ask,
        ok <- call.rc = "OK", up <- power # "off"

\* The flash images, the page objects and lists, the writes left to make and the call
\* have their types.
TypeOK ==
  /\ \A p \in Pages :
       /\ flash[p].state \in {"UNINITIALIZED", "ACTIVE", "FULL", "FREEING"}
       /\ flash[p].tab \in [Entries -> {"EMPTY", "WRITTEN", "ERASED"}]
       /\ flash[p].seq \in Nat /\ flash[p].crc \in BOOLEAN /\ DOMAIN flash[p].ent = Entries
       /\ ram.rp[p].used \in 0 .. ENTRY_COUNT /\ ram.rp[p].first \in Entries \cup {INVALID_ENTRY}
  /\ power \in {"off", "on", "failed"}
  /\ Range(ram.list) \cap Range(ram.free) = {}

\* Storage as a whole is a key-value map that power loss cannot damage: at every
\* moment, also between and in the middle of the flash writes of a call and of the
\* recovery in PageManager::load, the value that is on flash for a key is the one it
\* had, or the one the running nvs_set/nvs_erase asks for; a call that returns ESP_OK
\* has taken effect, a call for an integer or a string that returns an error has not.
\* With FailedBlobs = FALSE every nvs_set_blob that is made succeeds; of one that
\* fails this does not hold (FailedBlobKept).
KeyValueStore == Kv!Spec

\* What nvs_get_* returns for a key.
Get(k) ==
  LET f(t) == findInPages(Store, t, k, CHUNK_ANY, VER_ANY)
      b == readBlob(Store, k)
  IN CASE k \in BlobKeys -> IF b = <<>> THEN Absent
                            ELSE IF b = Piece(b[1].val[1], 0, BlobLen) THEN b[1].val[1] ELSE Mixed
       [] k \in IntKeys -> IF f("U8").rc = "OK" THEN f("U8").item.val[1] ELSE Absent
       [] k \in StrKeys -> IF f("SZ").rc = "OK"
                           THEN Decode(Range(DataOf(Store, f("SZ"))), SzLen) ELSE Absent

\* The search through the pages in list order and the cached hashes
\* (Storage::findItem, Page::findItem) returns the newest value of the key that is
\* on flash, never one it replaced and never chunks of two versions of a blob.
ReadsNewest == Idle => \A k \in Keys : Get(k) = ValueOf(k)

\* None of the asserts of the code fails: the item is in the cache when it is erased
\* (HashList::erase), a page that was moved has as many used entries as before
\* (requestNewPage), and the blob index fits the page it goes to (writeMultiPageBlob).
NoAssert == call.rc # "ASSERT"

\* nvs_flash_init never fails after a power loss: PageManager::load always finds or
\* makes a free page, so it never returns ESP_ERR_NVS_NO_FREE_PAGES.
MountSucceeds == power # "failed"

\* When a call has returned, no page is left in the transient state FREEING and one
\* page is free for the next move, whatever happened before.
Settled == Idle =>
  /\ ram.free # <<>>
  /\ \A p \in Range(ram.list) : flash[p].state # "FREEING"

\* Power loss never makes the storage unusable: it is mounted, its interrupted moves
\* are completed, and it has a page to move the next one to.
Mountable == MountSucceeds /\ Settled

\* When a call has returned, no two items on the pages have the same key, type and
\* chunk (what Storage::debugCheck asserts on the host): the item a write replaced
\* is gone, also when power was lost before it was erased or when it was moved.
NoDuplicates == Idle =>
  LET at == UNION {{p} \X Range(AllItems(Store, p, ANY)) : p \in Range(ram.list)}
  IN \A x, y \in at :
       LET e == Header(x)
           d == Header(y)
       IN e.key = d.key /\ e.type = d.type /\ e.chunk = d.chunk => x = y

\* When a call has returned, every chunk of a blob belongs to the index of the blob:
\* the chunks of a replaced version and of an interrupted write have been erased.
NoOrphans == Idle =>
  \A p \in Range(ram.list) : \A i \in Range(AllItems(Store, p, "BLOB_DATA")) :
     LET e == flash[p].ent[i]
         f == findInPages(Store, "BLOB_IDX", e.key, CHUNK_ANY, VER_ANY)
     IN f.rc = "OK" /\ e.chunk \in f.item.val[1] .. f.item.val[1] + f.item.val[2] - 1

\* A blob that could not be replaced is still there: when nvs_set_blob has returned
\* an error, every blob whose index is on flash has all its chunks.  "Anything failed,
\* then we should erase all the written chunks" (nvs_storage.cpp:230): those that the
\* failed call has written, not those of the version it was to replace.
FailedBlobKept ==
  call.op = "set" /\ call.rc # "OK" /\ todo = <<>> =>
    \A k \in BlobKeys : Whole(k, "BLOB_IDX", CHUNK_ANY) # {} => ValueOf(k) # Absent

\* What a Page object caches agrees with its sector when a call has returned: state
\* and sequence number, the count of used entries and the first of them, the item
\* hashes, and the next free entry, at and after which the flash is blank (so the
\* next item is not programmed over another).  Every used entry is part of an item
\* with a valid CRC: Page::findItem, which would erase another, meets none.
CacheExact == Idle => \A p \in Range(ram.list) :
  LET r == ram.rp[p]
      w == Written(Store, p)
  IN /\ r.state = "UNINITIALIZED" \/ (r.state = flash[p].state /\ r.seq = flash[p].seq)
     /\ r.used = Cardinality(w)
     /\ r.first = MinOr(w, INVALID_ENTRY)
     /\ r.state = "ACTIVE" =>
          \A i \in Entries : i >= r.next => flash[p].ent[i] = Blank /\ flash[p].tab[i] = "EMPTY"
     /\ {r.hash[n].idx : n \in DOMAIN r.hash} = Range(AllItems(Store, p, ANY))
     /\ w = UNION {i .. i + flash[p].ent[i].span - 1 : i \in Range(AllItems(Store, p, ANY))}

\* The page objects mirror the flash, so that no assert about them fails.
CachesSound == TypeOK /\ NoAssert /\ CacheExact

\* When a call has returned no chunk of a blob exists twice or without its index, and
\* the index found room beside the last chunk (nvs_set_blob calls that fail are left
\* out with FailedBlobs = FALSE: they leave chunks behind).
ChunksTidy == NoDuplicates /\ NoOrphans /\ NoAssert
=============================================================================
