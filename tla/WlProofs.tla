------------------------------ MODULE WlProofs ------------------------------
(***************************************************************************)
(* Proofs about the wear levelling layer (WlFlash), for every number of    *)
(* sectors: where the sectors are, what a page move does to them, and what *)
(* a reader finds who mounts the flash after power was lost on the way.    *)
(***************************************************************************)
EXTENDS WlExtSafe, TLAPS

----------------------------------------------------------------------------
(* Addresses *)

(* The page of a sector, counted from the first one of the round. *)
Rank(move, a) == IF a < move THEN FLASH - move + a ELSE a - move

(* The arithmetic of calcAddr without its remainder. *)
LEMMA RankIs ==
  ASSUME NEW move \in Sector, NEW a \in Sector
  PROVE  /\ (FLASH - move + a) % FLASH = Rank(move, a)
         /\ Rank(move, a) \in Sector
<1> DEFINE x == FLASH - move + a
           r == x % FLASH
<1>1. FLASH \in Nat /\ FLASH > 0 /\ move \in 0 .. FLASH - 1 /\ a \in 0 .. FLASH - 1
  BY FlashAssumption DEF Sector
<1>2. x \in Nat /\ x < 2 * FLASH
  BY <1>1
<1>3. PICK q \in Int : x = q * FLASH + r /\ r \in 0 .. FLASH - 1
  BY <1>1, <1>2
<1> HIDE DEF r
<1>4. q \in {0, 1}
  <2>1. q >= 2 => q * FLASH >= 2 * FLASH
    BY <1>1
  <2>2. q <= -1 => q * FLASH <= -FLASH
    BY <1>1
  <2> QED BY <1>1, <1>2, <1>3, <2>1, <2>2
<1>5. r = Rank(move, a)
  BY <1>1, <1>3, <1>4 DEF Rank
<1> QED BY <1>1, <1>5 DEF r, Rank, Sector

(* The pages from the dummy on are one higher. *)
LEMMA CalcAddrIs ==
  ASSUME NEW pos \in Page, NEW move \in Sector, NEW a \in Sector
  PROVE  calcAddr(pos, move, a) = IF Rank(move, a) < pos THEN Rank(move, a) ELSE Rank(move, a) + 1
BY RankIs DEF calcAddr

(* Every sector is on a page of its own, and none on the dummy page:       *)
(* erasing or overwriting the dummy, or one sector, hits no other          *)
(* (WL_Flash::calcAddr).                                                   *)
THEOREM SectorsApart ==
  ASSUME NEW pos \in Page, NEW move \in Sector
  PROVE  /\ \A a \in Sector : calcAddr(pos, move, a) \in Page \ {pos}
         /\ \A a, b \in Sector : calcAddr(pos, move, a) = calcAddr(pos, move, b) => a = b
<1>0. FLASH \in Nat /\ FLASH > 0 /\ pos \in 0 .. FLASH /\ move \in 0 .. FLASH - 1
  BY FlashAssumption DEF Sector, Page
<1>1. ASSUME NEW a \in Sector PROVE calcAddr(pos, move, a) \in Page \ {pos}
  <2>1. Rank(move, a) \in 0 .. FLASH - 1
    BY RankIs DEF Sector
  <2>2. calcAddr(pos, move, a) = IF Rank(move, a) < pos THEN Rank(move, a) ELSE Rank(move, a) + 1
    BY CalcAddrIs
  <2> QED BY <1>0, <2>1, <2>2 DEF Page
<1>2. ASSUME NEW a \in Sector, NEW b \in Sector, calcAddr(pos, move, a) = calcAddr(pos, move, b)
      PROVE  a = b
  <2>1. a \in 0 .. FLASH - 1 /\ b \in 0 .. FLASH - 1
    BY DEF Sector
  <2>2. Rank(move, a) \in Nat /\ Rank(move, b) \in Nat
    <3>1. Rank(move, a) \in Sector /\ Rank(move, b) \in Sector
      BY RankIs
    <3> QED BY <1>0, <3>1 DEF Sector
  <2>3. Rank(move, a) = Rank(move, b)
    BY <1>0, <1>2, <2>2, CalcAddrIs
  <2> QED BY <1>0, <2>1, <2>3 DEF Rank
<1> QED BY <1>1, <1>2

(* The page that a move copies into the dummy, and where the dummy and the *)
(* move count are afterwards.                                              *)
Source(pos) == IF pos + 1 >= MAX_POS THEN 0 ELSE pos + 1
NextPos(pos) == IF pos + 1 < MAX_POS THEN pos + 1 ELSE 0
NextCount(pos, move) == IF pos + 1 < MAX_POS THEN move ELSE nextMove(move)

(* A move stays on the flash and never copies the dummy onto itself. *)
LEMMA NextTypes ==
  ASSUME NEW pos \in Page, NEW move \in Sector
  PROVE  /\ Source(pos) \in Page /\ Source(pos) # pos
         /\ NextPos(pos) \in Page /\ NextCount(pos, move) \in Sector
BY FlashAssumption DEF Page, Sector, Source, NextPos, NextCount, nextMove, MAX_POS

(* A move changes the address of the moved sector only, from its page to   *)
(* the dummy; the change of the move count changes none.                   *)
LEMMA MoveAddr ==
  ASSUME NEW pos \in Page, NEW move \in Sector, NEW a \in Sector
  PROVE  calcAddr(NextPos(pos), NextCount(pos, move), a)
           = IF calcAddr(pos, move, a) = Source(pos) THEN pos ELSE calcAddr(pos, move, a)
<1>0. FLASH \in Nat /\ FLASH > 0 /\ pos \in 0 .. FLASH /\ move \in 0 .. FLASH - 1
      /\ a \in 0 .. FLASH - 1
  BY FlashAssumption DEF Sector, Page
<1>1. Rank(move, a) \in 0 .. FLASH - 1
  BY RankIs DEF Sector
<1>2. CASE pos < FLASH
  <2>1. NextPos(pos) = pos + 1 /\ NextCount(pos, move) = move /\ Source(pos) = pos + 1
    BY <1>0, <1>2 DEF NextPos, NextCount, Source, MAX_POS
  <2>2. pos + 1 \in Page
    BY <1>0, <1>2 DEF Page
  <2> QED BY <1>0, <1>1, <1>2, <2>1, <2>2, CalcAddrIs
<1>3. CASE pos = FLASH
  <2>1. NextPos(pos) = 0 /\ NextCount(pos, move) = nextMove(move) /\ Source(pos) = 0
    BY <1>0, <1>3 DEF NextPos, NextCount, Source, MAX_POS
  <2>2. nextMove(move) = IF move = FLASH - 1 THEN 0 ELSE move + 1
    BY <1>0 DEF nextMove, MAX_POS
  <2>3. nextMove(move) \in Sector /\ 0 \in Page
    BY <1>0, <2>2 DEF Sector, Page
  <2>4. Rank(nextMove(move), a) = IF Rank(move, a) = 0 THEN FLASH - 1 ELSE Rank(move, a) - 1
    BY <1>0, <2>2 DEF Rank
  <2>5. calcAddr(0, nextMove(move), a) = Rank(nextMove(move), a) + 1
    <3>1. calcAddr(0, nextMove(move), a)
            = IF Rank(nextMove(move), a) < 0 THEN Rank(nextMove(move), a) ELSE Rank(nextMove(move), a) + 1
      BY <2>3, CalcAddrIs
    <3>2. ~(Rank(nextMove(move), a) < 0)
      BY <1>0, <1>1, <2>4
    <3> QED BY <3>1, <3>2
  <2>6. calcAddr(pos, move, a) = Rank(move, a)
    BY <1>0, <1>1, <1>3, CalcAddrIs
  <2> QED BY <1>0, <1>1, <1>3, <2>1, <2>4, <2>5, <2>6
<1> QED BY <1>0, <1>2, <1>3

----------------------------------------------------------------------------
(* The store *)

(* The fields of a store. *)
Fields == {"fl", "pos", "move", "access", "log"}
IsStore(s) == s = [x \in Fields |-> s[x]]

(* A flash write as the log records it, and the flash after one. *)
LogEntry(at, val, cut) == [at |-> at, val |-> val, cut |-> cut]
After(f, at, val) == [f EXCEPT ![at] = val]

(* A write changes one page or state copy and adds one log entry. *)
LEMMA PutIs ==
  ASSUME NEW s, IsStore(s), NEW at, NEW val, NEW cut
  PROVE  /\ IsStore(Put(s, at, val, cut))
         /\ Put(s, at, val, cut).fl = After(s.fl, at, val)
         /\ Put(s, at, val, cut).pos = s.pos /\ Put(s, at, val, cut).move = s.move
         /\ Put(s, at, val, cut).access = s.access
         /\ Put(s, at, val, cut).log = Append(s.log, LogEntry(at, val, cut))
<1> DEFINE e == [at |-> at, val |-> val, cut |-> cut]
           t == [s EXCEPT !.fl = [s.fl EXCEPT ![at] = val], !.log = Append(s.log, e)]
<1>1. Put(s, at, val, cut) = t
  BY DEF Put
<1>2. IsStore(t)
  BY DEF IsStore, Fields
<1>3. /\ t.fl = [s.fl EXCEPT ![at] = val] /\ t.pos = s.pos /\ t.move = s.move /\ t.access = s.access
      /\ t.log = Append(s.log, e)
  BY DEF IsStore, Fields
<1> QED BY <1>1, <1>2, <1>3 DEF After, LogEntry

(* The assignments to the state in RAM. *)
SetPos(s, v) == [s EXCEPT !.pos = v]
SetMove(s, v) == [s EXCEPT !.move = v]
SetAccess(s, v) == [s EXCEPT !.access = v]

(* Assignments to the state in RAM leave flash and log alone. *)
LEMMA AssignIs ==
  ASSUME NEW s, IsStore(s), NEW v
  PROVE  /\ IsStore(SetPos(s, v)) /\ SetPos(s, v).fl = s.fl /\ SetPos(s, v).log = s.log
         /\ SetPos(s, v).pos = v /\ SetPos(s, v).move = s.move /\ SetPos(s, v).access = s.access
         /\ IsStore(SetMove(s, v)) /\ SetMove(s, v).fl = s.fl /\ SetMove(s, v).log = s.log
         /\ SetMove(s, v).pos = s.pos /\ SetMove(s, v).move = v /\ SetMove(s, v).access = s.access
         /\ IsStore(SetAccess(s, v)) /\ SetAccess(s, v).fl = s.fl /\ SetAccess(s, v).log = s.log
         /\ SetAccess(s, v).pos = s.pos /\ SetAccess(s, v).move = s.move /\ SetAccess(s, v).access = v
<1>1. /\ IsStore(SetPos(s, v)) /\ SetPos(s, v).fl = s.fl /\ SetPos(s, v).log = s.log
      /\ SetPos(s, v).pos = v /\ SetPos(s, v).move = s.move /\ SetPos(s, v).access = s.access
  BY DEF IsStore, Fields, SetPos
<1>2. /\ IsStore(SetMove(s, v)) /\ SetMove(s, v).fl = s.fl /\ SetMove(s, v).log = s.log
      /\ SetMove(s, v).pos = s.pos /\ SetMove(s, v).move = v /\ SetMove(s, v).access = s.access
  BY DEF IsStore, Fields, SetMove
<1>3. /\ IsStore(SetAccess(s, v)) /\ SetAccess(s, v).fl = s.fl /\ SetAccess(s, v).log = s.log
      /\ SetAccess(s, v).pos = s.pos /\ SetAccess(s, v).move = s.move /\ SetAccess(s, v).access = v
  BY DEF IsStore, Fields, SetAccess
<1> QED BY <1>1, <1>2, <1>3

----------------------------------------------------------------------------
(* What the next mount reads *)

(* What a state copy and the flash may be. *)
StateCopy == [crc : BOOLEAN, id : {0, 1}, move : Sector, marks : SUBSET Page]
IsFlash(f) == /\ f = [x \in 0 .. ST2 |-> f[x]]
              /\ f[ST1] \in StateCopy /\ f[ST2] \in StateCopy

(* Both copies are valid, and the marks are those of a round whose dummy   *)
(* is at pos: the moves before pos are marked, or all when pos is last.    *)
Round(f, pos, move) ==
  /\ f[ST1].crc /\ f[ST2].crc /\ f[ST1].move = move
  /\ \/ f[ST1].marks = 0 .. pos - 1
     \/ pos = FLASH /\ f[ST1].marks = Page

(* The state copies lie behind the pages. *)
LEMMA PageIndex ==
  /\ ST1 \in 0 .. ST2 /\ ST2 \in 0 .. ST2 /\ ST1 # ST2 /\ Page \subseteq 0 .. ST2
  /\ \A p \in Page : p # ST1 /\ p # ST2
BY FlashAssumption DEF ST1, ST2, Page

(* The mount recovers the position and move count of a round. *)
LEMMA ViewOfRound ==
  ASSUME NEW f, NEW pos \in Page, NEW move, Round(f, pos, move)
  PROVE  View(f).fl = f /\ View(f).pos = pos /\ View(f).move = move
<1> DEFINE s == [fl |-> f, pos |-> 0, move |-> 0]
           t == [s EXCEPT !.move = f[ST1].move]
           open == {n \in 0 .. MAX_POS - 1 : n \notin f[ST1].marks}
           p == IF open = {} THEN MAX_POS - 1 ELSE CHOOSE n \in open : \A m \in open : n <= m
<1>0. FLASH \in Nat /\ FLASH > 0 /\ pos \in 0 .. FLASH
  BY FlashAssumption DEF Page
<1>1. View(f) = recoverPos(t)
  BY DEF Round, View
<1>2. t.fl = f /\ t.move = move /\ t = [fl |-> f, pos |-> 0, move |-> move]
  BY DEF Round
<1>3. recoverPos(t) = [t EXCEPT !.pos = p]
  <2> HIDE DEF t
  <2> QED BY <1>2 DEF recoverPos
<1>4. p = pos
  <2>1. CASE f[ST1].marks = 0 .. pos - 1
    <3>1. open = pos .. FLASH
      BY <1>0, <2>1 DEF MAX_POS
    <3>2. pos \in open /\ \A n \in open : pos <= n
      BY <1>0, <3>1
    <3>3. \A n \in open : (\A m \in open : n <= m) => n = pos
      BY <1>0, <3>1
    <3> HIDE DEF open
    <3> QED BY <3>2, <3>3
  <2>2. CASE pos = FLASH /\ f[ST1].marks = Page
    <3>1. open = {}
      BY <1>0, <2>2 DEF MAX_POS, Page
    <3> QED BY <1>0, <2>2, <3>1 DEF MAX_POS
  <2> QED BY <2>1, <2>2 DEF Round
<1> HIDE DEF t, p
<1>5. [t EXCEPT !.pos = p].fl = f /\ [t EXCEPT !.pos = p].pos = p /\ [t EXCEPT !.pos = p].move = move
  BY <1>2
<1> QED BY <1>1, <1>3, <1>4, <1>5

(* With copy 2 erased or half written the mount takes position 0. *)
LEMMA ViewOfCopy1 ==
  ASSUME NEW f, f[ST1].crc, ~f[ST2].crc
  PROVE  View(f).fl = f /\ View(f).pos = 0 /\ View(f).move = f[ST1].move
<1>1. View(f) = [[fl |-> f, pos |-> 0, move |-> 0] EXCEPT !.move = f[ST1].move]
  BY DEF View
<1> QED BY <1>1

(* The sectors outside K read as C says for a reader who mounts the flash  *)
(* now; nothing is claimed of a broken state copy 1 (see WlRecover).       *)
Keeps(f, K, C) ==
  RewritingState1(f) \/ \A x \in Sector \ K : read(View(f), x) = C[x]

(* The flash images on the way through a log of writes.                    *)
Images(f, log, img) ==
  /\ img[0] = f
  /\ \A n \in 1 .. Len(log) : img[n] = After(img[n - 1], log[n].at, log[n].val)

(* Power loss before, in the middle of, or after any write of the log of s *)
(* keeps the sectors outside K.                                            *)
Survives(f, s, K, C) ==
  \A img : Images(f, s.log, img) =>
    /\ img[Len(s.log)] = s.fl
    /\ \A n \in 0 .. Len(s.log) : Keeps(img[n], K, C)
    /\ \A n \in 1 .. Len(s.log) : \A g \in TornImages(img[n - 1], s.log[n]) :
         Keeps(After(img[n - 1], s.log[n].at, g), K, C)

(* A log is a sequence. *)
IsLog(l) == \E S : l \in Seq(S)

(* A log with one write more. *)
LEMMA AppendIs ==
  ASSUME NEW l, IsLog(l), NEW e
  PROVE  /\ IsLog(Append(l, e)) /\ Len(l) \in Nat /\ Len(Append(l, e)) = Len(l) + 1
         /\ Append(l, e)[Len(l) + 1] = e
         /\ \A n \in 1 .. Len(l) : Append(l, e)[n] = l[n]
<1>1. PICK S : l \in Seq(S)
  BY DEF IsLog
<1> DEFINE T == S \cup {e}
<1>2. l \in Seq(T) /\ e \in T
  BY <1>1
<1> HIDE DEF T
<1>3. Append(l, e) \in Seq(T)
  BY <1>2
<1> QED BY <1>2, <1>3 DEF IsLog

(* One more write: only its result and its torn images are to be shown. *)
LEMMA SurvivesPut ==
  ASSUME NEW s, IsStore(s), IsLog(s.log), NEW f, NEW K, NEW C, Survives(f, s, K, C),
         NEW at, NEW val, NEW cut,
         Keeps(After(s.fl, at, val), K, C),
         \A g \in TornImages(s.fl, LogEntry(at, val, cut)) :
           Keeps(After(s.fl, at, g), K, C)
  PROVE  Survives(f, Put(s, at, val, cut), K, C) /\ IsLog(Put(s, at, val, cut).log)
<1> DEFINE e == LogEntry(at, val, cut)
           t == Put(s, at, val, cut)
           l == s.log
           L == Len(s.log)
<1>1. t.log = Append(l, e) /\ t.fl = After(s.fl, at, val)
  BY PutIs
<1>a. e.at = at /\ e.val = val
  BY DEF LogEntry
<1> HIDE DEF t, e
<1>2. /\ IsLog(t.log) /\ L \in Nat /\ Len(t.log) = L + 1 /\ t.log[L + 1] = e
      /\ \A n \in 1 .. L : t.log[n] = l[n]
  BY <1>1, AppendIs
<1>3. ASSUME NEW img, Images(f, t.log, img)
      PROVE  /\ img[Len(t.log)] = t.fl
             /\ \A n \in 0 .. Len(t.log) : Keeps(img[n], K, C)
             /\ \A n \in 1 .. Len(t.log) : \A g \in TornImages(img[n - 1], t.log[n]) :
                  Keeps(After(img[n - 1], t.log[n].at, g), K, C)
  <2>0. /\ img[0] = f
        /\ \A n \in 1 .. L + 1 : img[n] = After(img[n - 1], t.log[n].at, t.log[n].val)
    BY <1>2, <1>3 DEF Images
  <2>1. Images(f, l, img)
    <3>1. ASSUME NEW n \in 1 .. L PROVE img[n] = After(img[n - 1], l[n].at, l[n].val)
      <4>1. n \in 1 .. L + 1 /\ t.log[n] = l[n]
        BY <1>2
      <4>2. img[n] = After(img[n - 1], t.log[n].at, t.log[n].val)
        BY <2>0, <4>1
      <4> QED BY <4>1, <4>2, Zenon
    <3> QED BY <2>0, <3>1 DEF Images
  <2>2. /\ img[L] = s.fl
        /\ \A n \in 0 .. L : Keeps(img[n], K, C)
        /\ \A n \in 1 .. L : \A g \in TornImages(img[n - 1], l[n]) :
             Keeps(After(img[n - 1], l[n].at, g), K, C)
    BY <2>1 DEF Survives
  <2>3. img[L + 1] = After(s.fl, at, val)
    <3>1. PICK m : m = L + 1
      OBVIOUS
    <3>2. m \in 1 .. L + 1 /\ m - 1 = L /\ t.log[m] = e
      BY <1>2, <3>1
    <3>3. img[m] = After(img[m - 1], t.log[m].at, t.log[m].val)
      BY <2>0, <3>2
    <3>4. img[m] = After(img[L], e.at, e.val)
      BY <3>2, <3>3, Zenon
    <3> QED BY <1>a, <2>2, <3>1, <3>4
  <2>4. ASSUME NEW n \in 0 .. Len(t.log) PROVE Keeps(img[n], K, C)
    <3>1. n \in 0 .. L \/ n = L + 1
      BY <1>2
    <3> QED BY <2>2, <2>3, <3>1
  <2>5. ASSUME NEW n \in 1 .. Len(t.log), NEW g \in TornImages(img[n - 1], t.log[n])
        PROVE  Keeps(After(img[n - 1], t.log[n].at, g), K, C)
    <3>1. CASE n \in 1 .. L
      BY <1>2, <2>2, <3>1
    <3>2. CASE n = L + 1
      <4>1. img[n - 1] = s.fl /\ t.log[n] = e
        BY <1>2, <2>2, <3>2
      <4> QED BY <1>a, <4>1 DEF e
    <3> QED BY <1>2, <3>1, <3>2
  <2> QED BY <1>1, <1>2, <2>3, <2>4, <2>5
<1>4. Survives(f, t, K, C)
  BY <1>3 DEF Survives
<1> QED BY <1>2, <1>4 DEF t

----------------------------------------------------------------------------
(* The writes of a call *)

(* The sectors outside K are on the pages of position pos as C says. *)
Holds(f, pos, move, K, C) == \A x \in Sector \ K : f[calcAddr(pos, move, x)] = C[x]

(* A store on the way of a call that started with flash f: what was        *)
(* written so far is safe, and the flash is one of a round.                *)
Safe(f, s, K, C) ==
  IsStore(s) /\ IsLog(s.log) /\ IsFlash(s.fl) /\ Survives(f, s, K, C)
At(f, s, pos, move, K, C) ==
  Safe(f, s, K, C) /\ Round(s.fl, pos, move) /\ Holds(s.fl, pos, move, K, C)

(* The flash after one write. *)
LEMMA AfterIs ==
  ASSUME NEW f, IsFlash(f), NEW at \in 0 .. ST2, NEW v
  PROVE  /\ After(f, at, v)[at] = v
         /\ \A x \in 0 .. ST2 : x # at => After(f, at, v)[x] = f[x]
         /\ After(f, at, v) = [x \in 0 .. ST2 |-> After(f, at, v)[x]]
         /\ at \in Page \/ v \in StateCopy => IsFlash(After(f, at, v))
<1>1. f = [x \in 0 .. ST2 |-> f[x]]
  BY DEF IsFlash
<1>2. /\ After(f, at, v)[at] = v
      /\ \A x \in 0 .. ST2 : x # at => After(f, at, v)[x] = f[x]
      /\ After(f, at, v) = [x \in 0 .. ST2 |-> After(f, at, v)[x]]
  BY <1>1 DEF After
<1>3. ASSUME at \in Page \/ v \in StateCopy PROVE IsFlash(After(f, at, v))
  BY <1>2, <1>3, PageIndex DEF IsFlash
<1> QED BY <1>2, <1>3

(* In a round the next mount finds what is at its position. *)
LEMMA RoundKeeps ==
  ASSUME NEW f, NEW pos \in Page, NEW move, NEW K, NEW C, Round(f, pos, move), Holds(f, pos, move, K, C)
  PROVE  Keeps(f, K, C)
BY ViewOfRound DEF Keeps, Holds, read

(* A call that writes what the next mount can use stays safe. *)
LEMMA SafePut ==
  ASSUME NEW f, NEW s, NEW K, NEW C, Safe(f, s, K, C), NEW at \in 0 .. ST2, NEW val, NEW cut,
         at \in Page \/ val \in StateCopy,
         Keeps(After(s.fl, at, val), K, C),
         \A g \in TornImages(s.fl, LogEntry(at, val, cut)) : Keeps(After(s.fl, at, g), K, C)
  PROVE  /\ Safe(f, Put(s, at, val, cut), K, C)
         /\ Put(s, at, val, cut).fl = After(s.fl, at, val)
         /\ Put(s, at, val, cut).pos = s.pos /\ Put(s, at, val, cut).move = s.move
         /\ Put(s, at, val, cut).access = s.access
<1>1. IsStore(s) /\ IsLog(s.log) /\ IsFlash(s.fl) /\ Survives(f, s, K, C)
  BY DEF Safe
<1>2. Survives(f, Put(s, at, val, cut), K, C) /\ IsLog(Put(s, at, val, cut).log)
  BY <1>1, SurvivesPut
<1>3. /\ IsStore(Put(s, at, val, cut))
      /\ Put(s, at, val, cut).fl = After(s.fl, at, val)
      /\ Put(s, at, val, cut).pos = s.pos /\ Put(s, at, val, cut).move = s.move
      /\ Put(s, at, val, cut).access = s.access
  BY <1>1, PutIs
<1>4. IsFlash(After(s.fl, at, val))
  BY <1>1, AfterIs
<1> QED BY <1>2, <1>3, <1>4 DEF Safe

(* Writing a page where no sector outside K is. *)
LEMMA PagePut ==
  ASSUME NEW f, NEW s, NEW pos \in Page, NEW move \in Sector, NEW K, NEW C, At(f, s, pos, move, K, C),
         NEW at \in Page, NEW val, NEW cut, \A x \in Sector \ K : calcAddr(pos, move, x) # at
  PROVE  /\ At(f, Put(s, at, val, cut), pos, move, K, C)
         /\ Put(s, at, val, cut).fl = After(s.fl, at, val)
         /\ Put(s, at, val, cut).pos = s.pos /\ Put(s, at, val, cut).move = s.move
         /\ Put(s, at, val, cut).access = s.access
<1>1. Safe(f, s, K, C) /\ IsFlash(s.fl) /\ Round(s.fl, pos, move) /\ Holds(s.fl, pos, move, K, C)
  BY DEF At, Safe
<1>2. at \in 0 .. ST2 /\ at # ST1 /\ at # ST2 /\ ST1 \in 0 .. ST2 /\ ST2 \in 0 .. ST2
  BY PageIndex
<1>3. ASSUME NEW v
      PROVE  /\ Round(After(s.fl, at, v), pos, move) /\ Holds(After(s.fl, at, v), pos, move, K, C)
             /\ Keeps(After(s.fl, at, v), K, C)
  <2>1. After(s.fl, at, v)[ST1] = s.fl[ST1] /\ After(s.fl, at, v)[ST2] = s.fl[ST2]
    BY <1>1, <1>2, AfterIs
  <2>2. Round(After(s.fl, at, v), pos, move)
    BY <1>1, <2>1 DEF Round
  <2>3. Holds(After(s.fl, at, v), pos, move, K, C)
    <3>1. ASSUME NEW x \in Sector \ K PROVE After(s.fl, at, v)[calcAddr(pos, move, x)] = C[x]
      <4>1. calcAddr(pos, move, x) \in 0 .. ST2 /\ calcAddr(pos, move, x) # at
        BY SectorsApart, PageIndex
      <4>2. s.fl[calcAddr(pos, move, x)] = C[x]
        BY <1>1 DEF Holds
      <4> QED BY <1>1, <1>2, <4>1, <4>2, AfterIs
    <3> QED BY <3>1 DEF Holds
  <2> QED BY <2>2, <2>3, RoundKeeps
<1>4. /\ Safe(f, Put(s, at, val, cut), K, C)
      /\ Put(s, at, val, cut).fl = After(s.fl, at, val)
      /\ Put(s, at, val, cut).pos = s.pos /\ Put(s, at, val, cut).move = s.move
      /\ Put(s, at, val, cut).access = s.access
  BY <1>1, <1>2, <1>3, SafePut
<1> QED BY <1>3, <1>4 DEF At

(* Marking a move in copy 1 takes the dummy to the next position; the last *)
(* one of the round is kept until the copies are renewed.                  *)
Marked(pos) == IF pos < FLASH THEN pos + 1 ELSE pos

LEMMA Mark1 ==
  ASSUME NEW f, NEW s, NEW pos \in Page, NEW move \in Sector, NEW K, NEW C, At(f, s, pos, move, K, C),
         Holds(s.fl, Marked(pos), move, K, C)
  PROVE  /\ At(f, mark(s, ST1, pos), Marked(pos), move, K, C)
         /\ \A p \in Page : mark(s, ST1, pos).fl[p] = s.fl[p]
         /\ mark(s, ST1, pos).pos = s.pos /\ mark(s, ST1, pos).move = s.move
         /\ mark(s, ST1, pos).access = s.access
         /\ pos = FLASH => mark(s, ST1, pos).fl[ST1].marks = Page
<1> DEFINE v == [s.fl[ST1] EXCEPT !.marks = @ \cup {pos}]
           g == After(s.fl, ST1, v)
<1>0. FLASH \in Nat /\ FLASH > 0 /\ pos \in 0 .. FLASH
  BY FlashAssumption DEF Page
<1>1. Safe(f, s, K, C) /\ IsFlash(s.fl) /\ Round(s.fl, pos, move) /\ s.fl[ST1] \in StateCopy
  BY DEF At, Safe, IsFlash
<1>2. /\ v \in StateCopy /\ v.crc = s.fl[ST1].crc /\ v.move = s.fl[ST1].move
      /\ v.marks = s.fl[ST1].marks \cup {pos}
  BY <1>1 DEF StateCopy
<1> HIDE DEF v
<1>3. g[ST1] = v /\ g[ST2] = s.fl[ST2] /\ IsFlash(g) /\ \A p \in Page : g[p] = s.fl[p]
  <2>1. ST1 \in 0 .. ST2 /\ ST2 \in 0 .. ST2 /\ ST1 # ST2
    BY PageIndex
  <2>2. g[ST1] = v /\ IsFlash(g) /\ \A x \in 0 .. ST2 : x # ST1 => g[x] = s.fl[x]
    <3>1. g[ST1] = v
      BY <1>1, <2>1, AfterIs
    <3>2. \A x \in 0 .. ST2 : x # ST1 => g[x] = s.fl[x]
      BY <1>1, <2>1, AfterIs
    <3>3. IsFlash(g)
      BY <1>1, <1>2, <2>1, AfterIs
    <3> QED BY <3>1, <3>2, <3>3
  <2> HIDE DEF g
  <2> QED BY <2>1, <2>2, PageIndex
<1> HIDE DEF g
<1>4. Marked(pos) \in Page
  BY <1>0 DEF Marked, Page
<1>5. Round(g, Marked(pos), move) /\ (pos = FLASH => g[ST1].marks = Page)
  <2>1. CASE s.fl[ST1].marks = 0 .. pos - 1
    <3>1. v.marks = 0 .. pos
      BY <1>0, <1>2, <2>1
    <3>2. v.marks = 0 .. Marked(pos) - 1 \/ (Marked(pos) = FLASH /\ v.marks = Page)
      BY <1>0, <3>1 DEF Marked, Page
    <3> QED BY <1>1, <1>2, <1>3, <3>1, <3>2 DEF Round, Page
  <2>2. CASE pos = FLASH /\ s.fl[ST1].marks = Page
    <3>1. v.marks = Page /\ Marked(pos) = FLASH
      BY <1>0, <1>2, <2>2 DEF Marked
    <3> QED BY <1>1, <1>2, <1>3, <3>1 DEF Round
  <2> QED BY <1>1, <2>1, <2>2 DEF Round
<1>6. Holds(g, Marked(pos), move, K, C)
  BY <1>3, <1>4, SectorsApart DEF Holds
<1>7. Keeps(g, K, C)
  BY <1>4, <1>5, <1>6, RoundKeeps
<1>8. TornImages(s.fl, LogEntry(ST1, v, {})) = {}
  BY DEF TornImages, LogEntry
<1>9. mark(s, ST1, pos) = Put(s, ST1, v, {})
  BY DEF mark, v
<1>10. /\ Safe(f, Put(s, ST1, v, {}), K, C) /\ Put(s, ST1, v, {}).fl = g
       /\ Put(s, ST1, v, {}).pos = s.pos /\ Put(s, ST1, v, {}).move = s.move
       /\ Put(s, ST1, v, {}).access = s.access
  BY <1>1, <1>2, <1>7, <1>8, PageIndex, SafePut DEF g
<1> QED BY <1>3, <1>5, <1>6, <1>9, <1>10 DEF At

(* The marks of copy 2 decide nothing while copy 1 is valid. *)
LEMMA Mark2 ==
  ASSUME NEW f, NEW s, NEW pos \in Page, NEW move \in Sector, NEW K, NEW C, At(f, s, pos, move, K, C),
         NEW n \in Page
  PROVE  /\ At(f, mark(s, ST2, n), pos, move, K, C)
         /\ mark(s, ST2, n).fl[ST1] = s.fl[ST1] /\ mark(s, ST2, n).fl[ST2].crc
         /\ mark(s, ST2, n).pos = s.pos /\ mark(s, ST2, n).move = s.move
         /\ mark(s, ST2, n).access = s.access
         /\ \A p \in Page : mark(s, ST2, n).fl[p] = s.fl[p]
<1> DEFINE v == [s.fl[ST2] EXCEPT !.marks = @ \cup {n}]
           g == After(s.fl, ST2, v)
<1>1. /\ Safe(f, s, K, C) /\ IsFlash(s.fl) /\ Round(s.fl, pos, move) /\ s.fl[ST2] \in StateCopy
      /\ Holds(s.fl, pos, move, K, C)
  BY DEF At, Safe, IsFlash
<1>2. v \in StateCopy /\ v.crc = s.fl[ST2].crc
  BY <1>1 DEF StateCopy
<1> HIDE DEF v
<1>3. g[ST2] = v /\ g[ST1] = s.fl[ST1] /\ IsFlash(g) /\ \A p \in Page : g[p] = s.fl[p]
  <2>1. ST2 \in 0 .. ST2 /\ ST1 \in 0 .. ST2 /\ ST1 # ST2
    BY PageIndex
  <2>2. g[ST2] = v /\ IsFlash(g) /\ \A x \in 0 .. ST2 : x # ST2 => g[x] = s.fl[x]
    <3>1. g[ST2] = v
      BY <1>1, <2>1, AfterIs
    <3>2. \A x \in 0 .. ST2 : x # ST2 => g[x] = s.fl[x]
      BY <1>1, <2>1, AfterIs
    <3>3. IsFlash(g)
      BY <1>1, <1>2, <2>1, AfterIs
    <3> QED BY <3>1, <3>2, <3>3
  <2> HIDE DEF g
  <2> QED BY <2>1, <2>2, PageIndex
<1> HIDE DEF g
<1>5. Round(g, pos, move) /\ g[ST2].crc
  BY <1>1, <1>2, <1>3 DEF Round
<1>6. Holds(g, pos, move, K, C)
  BY <1>1, <1>3, SectorsApart DEF Holds
<1>7. Keeps(g, K, C)
  BY <1>5, <1>6, RoundKeeps
<1>8. TornImages(s.fl, LogEntry(ST2, v, {})) = {}
  BY DEF TornImages, LogEntry
<1>9. mark(s, ST2, n) = Put(s, ST2, v, {})
  BY DEF mark, v
<1>10. /\ Safe(f, Put(s, ST2, v, {}), K, C) /\ Put(s, ST2, v, {}).fl = g
       /\ Put(s, ST2, v, {}).pos = s.pos /\ Put(s, ST2, v, {}).move = s.move
       /\ Put(s, ST2, v, {}).access = s.access
  BY <1>1, <1>2, <1>7, <1>8, PageIndex, SafePut DEF g
<1> QED BY <1>3, <1>5, <1>6, <1>9, <1>10 DEF At

(* The store with another position, move count or access count. *)
LEMMA SafeAssign ==
  ASSUME NEW f, NEW s, NEW K, NEW C, Safe(f, s, K, C), NEW v
  PROVE  /\ Safe(f, SetPos(s, v), K, C) /\ SetPos(s, v).fl = s.fl
         /\ SetPos(s, v).pos = v /\ SetPos(s, v).move = s.move /\ SetPos(s, v).access = s.access
         /\ Safe(f, SetMove(s, v), K, C) /\ SetMove(s, v).fl = s.fl
         /\ SetMove(s, v).pos = s.pos /\ SetMove(s, v).move = v /\ SetMove(s, v).access = s.access
         /\ Safe(f, SetAccess(s, v), K, C) /\ SetAccess(s, v).fl = s.fl
         /\ SetAccess(s, v).pos = s.pos /\ SetAccess(s, v).move = s.move /\ SetAccess(s, v).access = v
<1>1. ASSUME NEW t, IsStore(t), t.fl = s.fl, t.log = s.log PROVE Safe(f, t, K, C)
  BY <1>1 DEF Safe, Survives
<1>2. IsStore(s)
  BY DEF Safe
<1> QED BY <1>1, <1>2, AssignIs

(* The end of a round.  The copies are written again, one after the other, *)
(* and the sectors are at position 0 of the next move count.               *)
LEMMA RenewStates ==
  ASSUME NEW f, NEW s, NEW K, NEW C, Safe(f, s, K, C), s.fl[ST2].crc,
         NEW move \in Sector, Holds(s.fl, 0, move, K, C)
  PROVE  LET t == renewStates(s, move)
         IN /\ At(f, t, 0, move, K, C)
            /\ t.pos = 0 /\ t.move = move /\ t.access = s.access
<1> DEFINE b == SetPos(s, 0)
           s0 == SetMove(b, move)
           s1 == Put(s0, ST1, Blank, {})
           s2 == Put(s1, ST1, Fresh(move), {0})
           s3 == Put(s2, ST2, Blank, {})
           s4 == Put(s3, ST2, Fresh(move), {0})
<1>a. Safe(f, b, K, C) /\ b.fl = s.fl /\ b.pos = 0 /\ b.access = s.access
  BY SafeAssign
<1>b. Safe(f, s0, K, C) /\ s0.fl = s.fl /\ s0.pos = 0 /\ s0.move = move /\ s0.access = s.access
  <2> HIDE DEF b
  <2> QED BY <1>a, SafeAssign
<1>c. renewStates(s, move) = s4
  <2>1. [s EXCEPT !.pos = 0, !.move = move] = s0
    BY DEF SetPos, SetMove, Safe, IsStore, Fields
  <2> QED BY <2>1 DEF renewStates, writeState, eraseState
<1> HIDE DEF b, s0
<1>d. /\ Blank \in StateCopy /\ ~Blank.crc
      /\ Fresh(move) \in StateCopy /\ Fresh(move).crc /\ Fresh(move).move = move
      /\ Fresh(move).marks = 0 .. 0 - 1
  BY FlashAssumption DEF Blank, Fresh, StateCopy, Sector, Page
<1>e. ASSUME NEW fl, NEW st \in {ST1, ST2}, NEW v, NEW g \in TornImages(fl, LogEntry(st, v, {0}))
      PROVE  ~g.crc
  BY <1>e, PageIndex DEF TornImages, LogEntry, Blank
<1>g. ASSUME NEW fl, NEW st, NEW v PROVE TornImages(fl, LogEntry(st, v, {})) = {}
  BY DEF TornImages, LogEntry
<1>h. ASSUME NEW g, g[ST1].crc, ~g[ST2].crc, g[ST1].move = move, Holds(g, 0, move, K, C)
      PROVE  Keeps(g, K, C)
  BY <1>h, ViewOfCopy1 DEF Keeps, Holds, read
<1>z. 0 \in Page /\ ST1 \in 0 .. ST2 /\ ST2 \in 0 .. ST2 /\ ST1 # ST2
  BY FlashAssumption, PageIndex DEF Page
<1>p. ASSUME NEW g, NEW st \in {ST1, ST2}, NEW v, IsFlash(g), Holds(g, 0, move, K, C)
      PROVE  Holds(After(g, st, v), 0, move, K, C)
  <2>1. ASSUME NEW x \in Sector PROVE After(g, st, v)[calcAddr(0, move, x)] = g[calcAddr(0, move, x)]
    <3>1. calcAddr(0, move, x) \in Page
      BY <1>z, SectorsApart
    <3>2. calcAddr(0, move, x) \in 0 .. ST2 /\ calcAddr(0, move, x) # st
      BY <3>1, PageIndex
    <3> QED BY <1>p, <1>z, <3>2, AfterIs
  <2> QED BY <1>p, <2>1 DEF Holds
<1>1. /\ Safe(f, s1, K, C) /\ s1.pos = 0 /\ s1.move = move /\ s1.access = s.access
      /\ ~s1.fl[ST1].crc /\ s1.fl[ST2].crc /\ Holds(s1.fl, 0, move, K, C)
  <2>1. After(s0.fl, ST1, Blank)[ST1] = Blank /\ After(s0.fl, ST1, Blank)[ST2] = s.fl[ST2]
    BY <1>b, <1>z, AfterIs DEF Safe
  <2>2. Keeps(After(s0.fl, ST1, Blank), K, C)
    BY <1>d, <2>1 DEF Keeps, RewritingState1
  <2>3. Holds(After(s0.fl, ST1, Blank), 0, move, K, C)
    BY <1>b, <1>p DEF Safe
  <2> QED BY <1>b, <1>d, <1>g, <1>z, <2>1, <2>2, <2>3, SafePut
<1> HIDE DEF s1
<1>2. /\ Safe(f, s2, K, C) /\ s2.pos = 0 /\ s2.move = move /\ s2.access = s.access
      /\ s2.fl[ST1] = Fresh(move) /\ Holds(s2.fl, 0, move, K, C)
  <2> DEFINE g == After(s1.fl, ST1, Fresh(move))
  <2>1. g[ST1] = Fresh(move) /\ g[ST2] = s1.fl[ST2]
    BY <1>1, <1>z, AfterIs DEF Safe
  <2>2. Holds(g, 0, move, K, C)
    BY <1>1, <1>p DEF Safe
  <2>3. Keeps(g, K, C)
    <3> HIDE DEF g
    <3>1. Round(g, 0, move)
      BY <1>1, <1>d, <2>1 DEF Round
    <3> QED BY <1>z, <2>2, <3>1, RoundKeeps
  <2>4. ASSUME NEW x \in TornImages(s1.fl, LogEntry(ST1, Fresh(move), {0}))
        PROVE  Keeps(After(s1.fl, ST1, x), K, C)
    <3>1. After(s1.fl, ST1, x)[ST1] = x /\ After(s1.fl, ST1, x)[ST2] = s1.fl[ST2]
      BY <1>1, <1>z, AfterIs DEF Safe
    <3> QED BY <1>1, <1>e, <3>1 DEF Keeps, RewritingState1
  <2> QED BY <1>1, <1>d, <1>z, <2>1, <2>2, <2>3, <2>4, SafePut
<1> HIDE DEF s2
<1>3. /\ Safe(f, s3, K, C) /\ s3.pos = 0 /\ s3.move = move /\ s3.access = s.access
      /\ s3.fl[ST1] = Fresh(move) /\ Holds(s3.fl, 0, move, K, C)
  <2> DEFINE g == After(s2.fl, ST2, Blank)
  <2>1. g[ST2] = Blank /\ g[ST1] = Fresh(move)
    BY <1>2, <1>z, AfterIs DEF Safe
  <2>2. Holds(g, 0, move, K, C)
    BY <1>2, <1>p DEF Safe
  <2>3. Keeps(g, K, C)
    <3> HIDE DEF g
    <3> QED BY <1>d, <1>h, <2>1, <2>2
  <2> QED BY <1>2, <1>d, <1>g, <1>z, <2>1, <2>2, <2>3, SafePut
<1> HIDE DEF s3
<1>4. /\ At(f, s4, 0, move, K, C) /\ s4.pos = 0 /\ s4.move = move /\ s4.access = s.access
  <2> DEFINE g == After(s3.fl, ST2, Fresh(move))
  <2>1. g[ST2] = Fresh(move) /\ g[ST1] = Fresh(move)
    BY <1>3, <1>z, AfterIs DEF Safe
  <2>2. Holds(g, 0, move, K, C)
    BY <1>3, <1>p DEF Safe
  <2>3. Round(g, 0, move)
    <3> HIDE DEF g
    <3> QED BY <1>d, <2>1 DEF Round
  <2>4. Keeps(g, K, C)
    BY <1>z, <2>2, <2>3, RoundKeeps
  <2>5. ASSUME NEW x \in TornImages(s3.fl, LogEntry(ST2, Fresh(move), {0}))
        PROVE  Keeps(After(s3.fl, ST2, x), K, C)
    <3> DEFINE h == After(s3.fl, ST2, x)
    <3>1. h[ST2] = x /\ h[ST1] = Fresh(move)
      BY <1>3, <1>z, AfterIs DEF Safe
    <3>2. Holds(h, 0, move, K, C)
      BY <1>3, <1>p DEF Safe
    <3>3. ~x.crc
      BY <1>e, <2>5
    <3> HIDE DEF h
    <3>4. Keeps(h, K, C)
      BY <1>d, <1>h, <3>1, <3>2, <3>3
    <3> QED BY <3>4 DEF h
  <2>6. /\ Safe(f, s4, K, C) /\ s4.fl = g /\ s4.pos = 0 /\ s4.move = move /\ s4.access = s.access
    BY <1>3, <1>d, <1>z, <2>4, <2>5, SafePut
  <2> QED BY <2>2, <2>3, <2>6 DEF At
<1> QED BY <1>4, <1>c

----------------------------------------------------------------------------
(* The operations *)

(* The state that WL_Flash keeps between two calls: what is in RAM is what *)
(* the next mount takes from the flash.                                    *)
Consistent(s) ==
  /\ IsStore(s) /\ IsFlash(s.fl) /\ Round(s.fl, s.pos, s.move)
  /\ s.pos \in Page /\ s.move \in Sector /\ s.access \in 0 .. MAX_COUNT - 1

(* A call on the way, with the RAM of the state between calls. *)
Going(f, s, K, C) ==
  /\ At(f, s, s.pos, s.move, K, C)
  /\ s.pos \in Page /\ s.move \in Sector /\ s.access \in 0 .. MAX_COUNT - 1

(* What a page move leaves where, before it is marked. *)
LEMMA MovedHolds ==
  ASSUME NEW f, NEW g, NEW pos \in Page, NEW move \in Sector, NEW K, NEW C,
         Holds(f, pos, move, K, C), g[pos] = f[Source(pos)],
         \A p \in Page : p # pos => g[p] = f[p]
  PROVE  Holds(g, NextPos(pos), NextCount(pos, move), K, C) /\ Holds(g, pos, move, K, C)
<1>1. ASSUME NEW x \in Sector \ K
      PROVE  /\ g[calcAddr(NextPos(pos), NextCount(pos, move), x)] = C[x]
             /\ g[calcAddr(pos, move, x)] = C[x]
  <2>1. calcAddr(pos, move, x) \in Page /\ calcAddr(pos, move, x) # pos
    BY SectorsApart
  <2>2. f[calcAddr(pos, move, x)] = C[x]
    BY DEF Holds
  <2>3. calcAddr(NextPos(pos), NextCount(pos, move), x)
          = IF calcAddr(pos, move, x) = Source(pos) THEN pos ELSE calcAddr(pos, move, x)
    BY MoveAddr
  <2> QED BY <2>1, <2>2, <2>3
<1> QED BY <1>1 DEF Holds

(* A page move, write by write: the dummy is erased, takes the next page,  *)
(* the move is marked in copy 1 and in copy 2, and a round may end.        *)
LEMMA UpdateGoing ==
  ASSUME NEW f, NEW s, NEW K, NEW C, Going(f, s, K, C)
  PROVE  Going(f, updateWL(s), K, C)
<1> DEFINE p0 == s.pos
           m0 == s.move
           s0 == SetAccess(s, 0)
           s1 == erasePage(s0, p0)
           s2 == copyPage(s1, Source(p0), p0)
           c1 == mark(s2, ST1, p0)
           c2 == mark(c1, ST2, p0)
<1>0. /\ FLASH \in Nat /\ FLASH > 0 /\ p0 \in Page /\ p0 \in 0 .. FLASH /\ m0 \in Sector
      /\ MAX_COUNT \in Nat \ {0} /\ s.access \in 0 .. MAX_COUNT - 1
  BY FlashAssumption DEF Going, Page
<1>1. At(f, s, p0, m0, K, C) /\ Safe(f, s, K, C) /\ IsStore(s)
  BY DEF Going, At, Safe
<1> HIDE DEF p0, m0
<1>2. CASE s.access + 1 < MAX_COUNT
  <2> DEFINE t == SetAccess(s, s.access + 1)
  <2>1. updateWL(s) = t
    BY <1>2 DEF updateWL, SetAccess
  <2>2. Safe(f, t, K, C) /\ t.fl = s.fl /\ t.pos = s.pos /\ t.move = s.move /\ t.access = s.access + 1
    BY <1>1, SafeAssign
  <2> HIDE DEF t
  <2>3. Going(f, t, K, C)
    BY <1>0, <1>1, <1>2, <2>2 DEF Going, At, p0, m0
  <2> QED BY <2>1, <2>3
<1>3. CASE ~(s.access + 1 < MAX_COUNT)
  <2>n. \A x \in Sector \ K : calcAddr(p0, m0, x) # p0
    BY <1>0, SectorsApart
  <2>0. /\ At(f, s0, p0, m0, K, C) /\ s0.fl = s.fl /\ s0.pos = p0 /\ s0.move = m0 /\ s0.access = 0
    <3>1. /\ Safe(f, s0, K, C) /\ s0.fl = s.fl /\ s0.pos = p0 /\ s0.move = m0 /\ s0.access = 0
      BY <1>1, SafeAssign DEF p0, m0
    <3> HIDE DEF s0
    <3> QED BY <1>1, <3>1 DEF At
  <2> HIDE DEF s0
  <2>1. /\ At(f, s1, p0, m0, K, C) /\ s1.pos = p0 /\ s1.move = m0 /\ s1.access = 0
        /\ \A p \in Page : p # p0 => s1.fl[p] = s.fl[p]
    <3> DEFINE v == [i \in DOMAIN s0.fl[p0] |-> <<>>]
               d == DOMAIN s0.fl[p0]
    <3>1. s1 = Put(s0, p0, v, d)
      BY DEF erasePage
    <3> HIDE DEF v, d
    <3>2. /\ At(f, Put(s0, p0, v, d), p0, m0, K, C)
          /\ Put(s0, p0, v, d).fl = After(s0.fl, p0, v)
          /\ Put(s0, p0, v, d).pos = s0.pos /\ Put(s0, p0, v, d).move = s0.move
          /\ Put(s0, p0, v, d).access = s0.access
      <4>1. p0 \in Page /\ m0 \in Sector /\ At(f, s0, p0, m0, K, C)
        BY <1>0, <2>0
      <4>2. At(f, Put(s0, p0, v, d), p0, m0, K, C)
        BY <2>n, <4>1, PagePut
      <4> QED BY <2>n, <4>1, <4>2, PagePut
    <3>3. \A p \in Page : p # p0 => After(s0.fl, p0, v)[p] = s0.fl[p]
      BY <1>0, <2>0, PageIndex, AfterIs DEF At, Safe
    <3> QED BY <2>0, <3>1, <3>2, <3>3
  <2> HIDE DEF s1
  <2>2. /\ At(f, s2, p0, m0, K, C) /\ s2.pos = p0 /\ s2.move = m0 /\ s2.access = 0
        /\ s2.fl[p0] = s.fl[Source(p0)] /\ \A p \in Page : p # p0 => s2.fl[p] = s.fl[p]
    <3> DEFINE v == s1.fl[Source(p0)]
               d == DOMAIN s1.fl[p0]
    <3>1. s2 = Put(s1, p0, v, d)
      BY DEF copyPage
    <3>v. v = s.fl[Source(p0)]
      BY <1>0, <2>1, NextTypes
    <3> HIDE DEF v, d
    <3>2. /\ At(f, Put(s1, p0, v, d), p0, m0, K, C)
          /\ Put(s1, p0, v, d).fl = After(s1.fl, p0, v)
          /\ Put(s1, p0, v, d).pos = s1.pos /\ Put(s1, p0, v, d).move = s1.move
          /\ Put(s1, p0, v, d).access = s1.access
      <4>1. p0 \in Page /\ m0 \in Sector /\ At(f, s1, p0, m0, K, C)
        BY <1>0, <2>1
      <4>2. At(f, Put(s1, p0, v, d), p0, m0, K, C)
        BY <2>n, <4>1, PagePut
      <4> QED BY <2>n, <4>1, <4>2, PagePut
    <3>3. \A p \in Page : p # p0 => After(s1.fl, p0, v)[p] = s1.fl[p]
      BY <1>0, <2>1, PageIndex, AfterIs DEF At, Safe
    <3>4. After(s1.fl, p0, v)[p0] = v
      BY <1>0, <2>1, PageIndex, AfterIs DEF At, Safe
    <3> QED BY <2>1, <3>1, <3>v, <3>2, <3>3, <3>4
  <2> HIDE DEF s2
  <2>3. Holds(s2.fl, NextPos(p0), NextCount(p0, m0), K, C) /\ Holds(s2.fl, p0, m0, K, C)
    <3>1. Holds(s.fl, p0, m0, K, C)
      BY <1>1 DEF At
    <3> QED BY <1>0, <2>2, <3>1, MovedHolds
  <2>4. Holds(s2.fl, Marked(p0), m0, K, C)
    <3>1. CASE p0 < FLASH
      <4>1. Marked(p0) = NextPos(p0) /\ NextCount(p0, m0) = m0
        BY <1>0, <3>1 DEF Marked, NextPos, NextCount, MAX_POS
      <4> QED BY <2>3, <4>1
    <3>2. CASE ~(p0 < FLASH)
      <4>1. Marked(p0) = p0
        BY <3>2 DEF Marked
      <4> QED BY <2>3, <4>1
    <3> QED BY <3>1, <3>2
  <2>m. Marked(p0) \in Page
    BY <1>0 DEF Marked, Page
  <2>5. /\ At(f, c1, Marked(p0), m0, K, C) /\ \A p \in Page : c1.fl[p] = s2.fl[p]
        /\ c1.pos = p0 /\ c1.move = m0 /\ c1.access = 0
    <3>1. p0 \in Page /\ m0 \in Sector /\ At(f, s2, p0, m0, K, C)
      BY <1>0, <2>2
    <3>2. /\ At(f, mark(s2, ST1, p0), Marked(p0), m0, K, C)
          /\ \A p \in Page : mark(s2, ST1, p0).fl[p] = s2.fl[p]
          /\ mark(s2, ST1, p0).pos = s2.pos /\ mark(s2, ST1, p0).move = s2.move
          /\ mark(s2, ST1, p0).access = s2.access
      <4>1. At(f, mark(s2, ST1, p0), Marked(p0), m0, K, C)
        BY <2>4, <3>1, Mark1
      <4> QED BY <2>4, <3>1, <4>1, Mark1
    <3> QED BY <2>2, <3>2
  <2> HIDE DEF c1
  <2>6. /\ At(f, c2, Marked(p0), m0, K, C) /\ \A p \in Page : c2.fl[p] = c1.fl[p]
        /\ c2.pos = p0 /\ c2.move = m0 /\ c2.access = 0 /\ c2.fl[ST2].crc
    <3>1. p0 \in Page /\ m0 \in Sector /\ At(f, c1, Marked(p0), m0, K, C)
      BY <1>0, <2>5
    <3>2. /\ At(f, mark(c1, ST2, p0), Marked(p0), m0, K, C)
          /\ \A p \in Page : mark(c1, ST2, p0).fl[p] = c1.fl[p]
          /\ mark(c1, ST2, p0).pos = c1.pos /\ mark(c1, ST2, p0).move = c1.move
          /\ mark(c1, ST2, p0).access = c1.access /\ mark(c1, ST2, p0).fl[ST2].crc
      <4>1. At(f, mark(c1, ST2, p0), Marked(p0), m0, K, C)
        BY <2>m, <3>1, Mark2
      <4> QED BY <2>m, <3>1, <4>1, Mark2
    <3> QED BY <2>5, <3>2
  <2>7. markMove(s2) = c2
    BY <2>2 DEF markMove, c1
  <2> HIDE DEF c2
  <2>8. updateWL(s) = IF p0 + 1 < MAX_POS THEN SetPos(c2, c2.pos + 1) ELSE renewStates(c2, nextMove(m0))
    BY <1>3, <2>7 DEF updateWL, SetPos, SetAccess, s0, s1, s2, Source, p0, m0
  <2>9. CASE p0 + 1 < MAX_POS
    <3> DEFINE t == SetPos(c2, c2.pos + 1)
    <3>1. Safe(f, t, K, C) /\ t.fl = c2.fl /\ t.pos = p0 + 1 /\ t.move = m0 /\ t.access = 0
      BY <2>6, SafeAssign DEF At
    <3>2. Marked(p0) = p0 + 1
      BY <1>0, <2>9 DEF Marked, MAX_POS
    <3> HIDE DEF t
    <3>3. Going(f, t, K, C)
      BY <1>0, <2>6, <2>m, <3>1, <3>2 DEF Going, At
    <3> QED BY <2>8, <2>9, <3>3 DEF t
  <2>10. CASE ~(p0 + 1 < MAX_POS)
    <3> DEFINE t == renewStates(c2, nextMove(m0))
    <3>1. NextPos(p0) = 0 /\ NextCount(p0, m0) = nextMove(m0) /\ nextMove(m0) \in Sector /\ 0 \in Page
      BY <1>0, <2>10, NextTypes DEF NextPos, NextCount
    <3>2. Holds(s2.fl, 0, nextMove(m0), K, C)
      BY <2>3, <3>1
    <3>3. Holds(c2.fl, 0, nextMove(m0), K, C)
      BY <2>5, <2>6, <3>1, <3>2, SectorsApart DEF Holds
    <3>4. At(f, t, 0, nextMove(m0), K, C) /\ t.pos = 0 /\ t.move = nextMove(m0) /\ t.access = 0
      BY <2>6, <3>1, <3>3, RenewStates DEF At
    <3> HIDE DEF t
    <3>5. Going(f, t, K, C)
      BY <1>0, <3>1, <3>4 DEF Going
    <3> QED BY <2>8, <2>10, <3>5 DEF t
  <2> QED BY <2>9, <2>10
<1> QED BY <1>2, <1>3

(* What the sectors hold. *)
Reads(s) == [x \in Sector |-> read(s, x)]

(* A call starts safely from the state between calls. *)
LEMMA StartGoing ==
  ASSUME NEW s, Consistent(s), s.log = <<>>, NEW K
  PROVE  Going(s.fl, s, K, Reads(s))
<1> DEFINE C == Reads(s)
<1>1. Holds(s.fl, s.pos, s.move, K, C)
  BY DEF Holds, Reads, read
<1>2. Keeps(s.fl, K, C)
  <2>1. s.pos \in Page /\ Round(s.fl, s.pos, s.move)
    BY DEF Consistent
  <2> HIDE DEF C
  <2> QED BY <1>1, <2>1, RoundKeeps
<1> HIDE DEF C
<1>3. IsLog(s.log) /\ Len(s.log) = 0
  <2>1. s.log \in Seq({})
    OBVIOUS
  <2> QED BY <2>1 DEF IsLog
<1>4. Survives(s.fl, s, K, C)
  <2>1. ASSUME NEW img, Images(s.fl, s.log, img)
        PROVE  /\ img[Len(s.log)] = s.fl
               /\ \A n \in 0 .. Len(s.log) : Keeps(img[n], K, C)
               /\ \A n \in 1 .. Len(s.log) : \A g \in TornImages(img[n - 1], s.log[n]) :
                    Keeps(After(img[n - 1], s.log[n].at, g), K, C)
    <3>1. img[0] = s.fl
      BY <2>1 DEF Images
    <3>2. 0 .. Len(s.log) = {0} /\ 1 .. Len(s.log) = {}
      BY <1>3
    <3> QED BY <1>2, <1>3, <3>1, <3>2
  <2> QED BY <2>1 DEF Survives
<1>5. Going(s.fl, s, K, C)
  BY <1>1, <1>3, <1>4 DEF Going, At, Safe, Consistent
<1> QED BY <1>5 DEF C

(* A call that ends leaves the state between calls. *)
LEMMA GoingEnds ==
  ASSUME NEW f, NEW s, NEW K, NEW t, Going(f, t, K, Reads(s))
  PROVE  /\ Consistent(t) /\ Survives(f, t, K, Reads(s))
         /\ \A x \in Sector \ K : read(t, x) = read(s, x)
<1>1. Consistent(t) /\ Survives(f, t, K, Reads(s)) /\ Holds(t.fl, t.pos, t.move, K, Reads(s))
  BY DEF Going, At, Safe, Consistent
<1> QED BY <1>1 DEF Holds, Reads, read

(* Writing the page of a sector of K. *)
LEMMA SectorPut ==
  ASSUME NEW f, NEW s, NEW K, NEW C, Going(f, s, K, C), NEW k \in K \cap Sector, NEW val, NEW cut
  PROVE  /\ Going(f, Put(s, calcAddr(s.pos, s.move, k), val, cut), K, C)
         /\ read(Put(s, calcAddr(s.pos, s.move, k), val, cut), k) = val
<1>1. PICK p, m : p = s.pos /\ m = s.move
  OBVIOUS
<1>2. p \in Page /\ m \in Sector /\ At(f, s, p, m, K, C)
  BY <1>1 DEF Going
<1>3. PICK at : at = calcAddr(p, m, k)
  OBVIOUS
<1>4. at \in Page /\ \A x \in Sector \ K : calcAddr(p, m, x) # at
  BY <1>2, <1>3, SectorsApart
<1>5. At(f, Put(s, at, val, cut), p, m, K, C)
  BY <1>2, <1>4, PagePut
<1>6. /\ Put(s, at, val, cut).pos = p /\ Put(s, at, val, cut).move = m
      /\ Put(s, at, val, cut).access = s.access /\ Put(s, at, val, cut).fl = After(s.fl, at, val)
  BY <1>1, <1>2, <1>4, <1>5, PagePut
<1>7. After(s.fl, at, val)[at] = val
  BY <1>2, <1>4, PageIndex, AfterIs DEF At, Safe
<1>8. s.access \in 0 .. MAX_COUNT - 1
  BY DEF Going
<1>9. Going(f, Put(s, at, val, cut), K, C)
  BY <1>2, <1>5, <1>6, <1>8 DEF Going
<1>10. read(Put(s, at, val, cut), k) = val
  BY <1>3, <1>6, <1>7 DEF read
<1> QED BY <1>1, <1>3, <1>9, <1>10

(* A page move, at the end of a round too, is invisible: afterwards every  *)
(* sector reads as before, and so it does for whoever mounts the flash     *)
(* after power was lost before, in the middle of, or after any of the      *)
(* flash writes, unless state copy 1 is being rewritten                    *)
(* (WL_Flash::updateWL).                                                   *)
THEOREM MovesKeepSectors ==
  ASSUME NEW s, Consistent(s), s.log = <<>>
  PROVE  /\ Consistent(updateWL(s))
         /\ \A x \in Sector : read(updateWL(s), x) = read(s, x)
         /\ Survives(s.fl, updateWL(s), {}, Reads(s))
<1>1. Going(s.fl, updateWL(s), {}, Reads(s))
  BY StartGoing, UpdateGoing
<1>2. /\ Consistent(updateWL(s)) /\ Survives(s.fl, updateWL(s), {}, Reads(s))
      /\ \A x \in Sector \ {} : read(updateWL(s), x) = read(s, x)
  BY <1>1, GoingEnds
<1> QED BY <1>2

(* Erasing a sector, with the move it may cause, blanks that sector and    *)
(* changes no other, power loss at any flash write included                *)
(* (WL_Flash::erase_sector).                                               *)
THEOREM EraseKeepsOthers ==
  ASSUME NEW s, Consistent(s), s.log = <<>>, NEW k \in Sector
  PROVE  /\ Consistent(eraseSector(s, k))
         /\ \A x \in Sector \ {k} : read(eraseSector(s, k), x) = read(s, x)
         /\ \A i \in DOMAIN read(eraseSector(s, k), k) : read(eraseSector(s, k), k)[i] = <<>>
         /\ Survives(s.fl, eraseSector(s, k), {k}, Reads(s))
<1>1. PICK a : a = updateWL(s)
  OBVIOUS
<1>2. Going(s.fl, a, {k}, Reads(s))
  BY <1>1, StartGoing, UpdateGoing
<1> DEFINE at == calcAddr(a.pos, a.move, k)
           v == [i \in DOMAIN a.fl[at] |-> <<>>]
           d == DOMAIN a.fl[at]
<1>3. eraseSector(s, k) = Put(a, at, v, d)
  BY <1>1 DEF eraseSector, erasePage
<1>4. \A i \in DOMAIN v : v[i] = <<>>
  OBVIOUS
<1> HIDE DEF v, d
<1>5. Going(s.fl, Put(a, at, v, d), {k}, Reads(s)) /\ read(Put(a, at, v, d), k) = v
  BY <1>2, SectorPut
<1> HIDE DEF at
<1>6. /\ Consistent(Put(a, at, v, d)) /\ Survives(s.fl, Put(a, at, v, d), {k}, Reads(s))
      /\ \A x \in Sector \ {k} : read(Put(a, at, v, d), x) = read(s, x)
  BY <1>5, GoingEnds
<1> QED BY <1>3, <1>4, <1>5, <1>6

(* Programming a sector takes the new value where it was blank, and        *)
(* changes no other sector, power loss included (WL_Flash::write).         *)
THEOREM WriteKeepsOthers ==
  ASSUME NEW s, Consistent(s), s.log = <<>>, NEW k \in Sector, NEW new
  PROVE  /\ Consistent(write(s, k, new))
         /\ \A x \in Sector \ {k} : read(write(s, k, new), x) = read(s, x)
         /\ \A i \in DOMAIN new \cap DOMAIN read(s, k) :
              new[i] # <<>> /\ read(s, k)[i] = <<>> => read(write(s, k, new), k)[i] = new[i]
         /\ Survives(s.fl, write(s, k, new), {k}, Reads(s))
<1>1. Going(s.fl, s, {k}, Reads(s))
  BY StartGoing
<1> DEFINE at == calcAddr(s.pos, s.move, k)
           old == s.fl[at]
           used == {i \in DOMAIN new : new[i] # <<>>}
           v == [i \in DOMAIN old |-> IF i \notin used THEN old[i]
                                      ELSE IF old[i] = <<>> THEN new[i] ELSE Garbage]
<1>2. write(s, k, new) = Put(s, at, v, used)
  BY DEF write, programPage
<1>3. old = read(s, k)
  BY DEF read
<1>4. \A i \in DOMAIN new \cap DOMAIN old : new[i] # <<>> /\ old[i] = <<>> => v[i] = new[i]
  OBVIOUS
<1> HIDE DEF v, used, old
<1>5. Going(s.fl, Put(s, at, v, used), {k}, Reads(s)) /\ read(Put(s, at, v, used), k) = v
  BY <1>1, SectorPut
<1> HIDE DEF at
<1>6. /\ Consistent(Put(s, at, v, used)) /\ Survives(s.fl, Put(s, at, v, used), {k}, Reads(s))
      /\ \A x \in Sector \ {k} : read(Put(s, at, v, used), x) = read(s, x)
  BY <1>5, GoingEnds
<1> QED BY <1>2, <1>3, <1>4, <1>5, <1>6
=============================================================================
