--------------------------- MODULE FreezerProofs ---------------------------
(***************************************************************************)
(* Proofs about Freezer, for any tables, payloads, sizes and limits.       *)
(*                                                                         *)
(* An index entry is solid when the synced and the current content of its  *)
(* data file agree up to its end and hold its item there.  All entries of  *)
(* an open table are solid, in the synced index and in the current one, so *)
(* whatever a crash leaves of index and data fits together.  The only      *)
(* entries that may have lost data are those at the end of a table that is *)
(* closed; no acknowledged or hidden item is among them, and the repair    *)
(* drops exactly these.                                                    *)
(***************************************************************************)
EXTENDS Freezer, FiniteSetTheorems, WellFoundedInduction, TLAPS

-----------------------------------------------------------------------------
(* Types                                                                   *)

Position == [file : Nat, off : Nat]
Data     == UNION {[S -> Seq(Payload)] : S \in SUBSET Nat}
Files    == [index : Seq(Position), meta : Nat, data : Data]
Memory   == [items : Nat, itemOffset : Nat, itemHidden : Nat, headId : Nat,
             tailId : Nat, headBytes : Nat, files : SUBSET Nat]
Batch    == [data : Seq(Payload), index : Seq(Position), curItem : Nat]

TypeOK ==
    /\ cache \in [Table -> Files] /\ disk \in [Table -> Files]
    /\ mem \in [Table -> Memory] /\ batch \in [Table -> Batch]
    /\ hist \in [Table -> Seq(Payload)]
    /\ frozen \in Nat /\ tail \in Nat /\ target \in Nat /\ safe \in Nat /\ asked \in Nat
    /\ todo \subseteq Table /\ held \in Payload \cup {None}

-----------------------------------------------------------------------------
(* What index and data files hold                                          *)

\* The number of the item of entry i, and where it starts in its data file.
Num(x, i)   == x[1].off + i - 2
Start(x, i) == IF i = 2 \/ x[i - 1].file # x[i].file THEN 0 ELSE x[i - 1].off

\* Files follow each other without a gap, offsets grow in each of them.
Shape(x) ==
    /\ \A i, j \in 1 .. Len(x) : i < j => x[i].file <= x[j].file
    /\ \A i, j \in 2 .. Len(x) : i < j /\ x[i].file = x[j].file => x[i].off < x[j].off
    /\ \A j \in 2 .. Len(x) : \A g \in x[1].file .. x[j].file :
           \E i \in 2 .. j : x[i].file = g

\* An index of items that were written, with room for their sizes.
Formed(t, x, h) ==
    /\ Shape(x) /\ Stored(x) <= Len(h)
    /\ \A i \in 2 .. Len(x) : x[i].off = Start(x, i) + Size[t][h[Num(x, i) + 1]]

\* Content s of the file of entry i holds its item.
Written(x, i, s, h) == \A j \in Start(x, i) + 1 .. x[i].off : s[j] = h[Num(x, i) + 1]

\* It does if the file is long enough.
Sound(x, i, s, h) == x[i].off <= Len(s) => Written(x, i, s, h)

\* Synced content d and current content c agree on the item and all before it.
Full(x, i, d, c, h) ==
    /\ x[i].off <= Len(d) /\ x[i].off <= Len(c)
    /\ \A j \in 1 .. x[i].off : d[j] = c[j]
    /\ Written(x, i, c, h)

\* All entries of an index have their items in the data files.
Solid(t, x, dd, cd, h) ==
    /\ Formed(t, x, h)
    /\ \A i \in 2 .. Len(x) :
           /\ x[i].file \in DOMAIN dd /\ x[i].file \in DOMAIN cd
           /\ Full(x, i, dd[x[i].file], cd[x[i].file], h)

\* All have but some in the last file, and none of those below lo.
Holds(t, x, dd, cd, h, lo) ==
    /\ Formed(t, x, h)
    /\ \A i \in 2 .. Len(x) :
           LET f == x[i].file
           IN  /\ f \in DOMAIN dd /\ f \in DOMAIN cd
               /\ Sound(x, i, dd[f], h) /\ Sound(x, i, cd[f], h)
               /\ f # x[Len(x)].file \/ Num(x, i) < lo => Full(x, i, dd[f], cd[f], h)

IsPfx(a, b) == Len(a) <= Len(b) /\ \A i \in 1 .. Len(a) : a[i] = b[i]

\* The synced index and the current one: one is a front part of the other,
\* unless the current one has just replaced the other.
Comparable(d, c) ==
    \/ d # <<>> /\ c # <<>> /\ d[1] # c[1]
    \/ IsPfx(d, c) \/ IsPfx(c, d)

-----------------------------------------------------------------------------
(* The inductive invariant                                                 *)

IsOpen(t) == pc # "down" /\ ~(op = "open" /\ t \in todo)

\* The steps in which a table is not as its counters say.
Midway == {"index", "count", "cut", "cutdone", "rename", "drop"}
Phase(t) == IF t = cur /\ pc \in Midway THEN pc ELSE "none"

\* Where the data of an index ends in file f.
EndOf(x, f) == IF Len(x) > 1 /\ x[Len(x)].file = f THEN x[Len(x)].off ELSE 0

\* The files of the first item to keep, as truncateTail sees it.
TailFile(x, m, n) == IF m.items = n THEN m.headId ELSE x[n - m.itemOffset + 2].file

\* The counters m of a table with synced index di, index x and data cd.
Counted(di, x, cd, m, ph) ==
    /\ x # <<>> /\ di # <<>>
    /\ IF ph = "drop" THEN di[1] # x[1] /\ m.tailId <= x[1].file
                      ELSE m.tailId = x[1].file /\ m.itemOffset = x[1].off
    /\ ph \notin {"count", "cut", "drop"} => di = x
    /\ ph = "rename" => m.tailId # TailFile(x, m, m.itemHidden)
    /\ m.files = m.tailId .. m.headId /\ m.files \subseteq DOMAIN cd
    /\ m.tailId <= m.headId /\ x[Len(x)].file <= m.headId
    /\ ph # "cut" => /\ Len(x) <= 1 => m.headId = x[1].file
                     /\ m.headId <= x[Len(x)].file + 1
    /\ ph \notin {"index", "count", "cutdone"} => Len(cd[m.headId]) = m.headBytes
    /\ ph = "cutdone" => Len(cd[m.headId]) = EndOf(x, m.headId)
    /\ ph \notin {"count", "cut", "cutdone"} =>
           m.headBytes = EndOf(x, m.headId) /\ Stored(x) = m.items
    /\ m.itemOffset <= m.itemHidden

\* No acknowledged item (below s) and no item that is asked to be hidden
\* (below a) is missing from index x, and the metadata hides no other.
Covered(x, dm, cm, s, a) ==
    /\ x # <<>> => x[1].off <= dm /\ x[1].off <= cm
    /\ s <= Stored(x) /\ a <= Stored(x)

FilesAgree(d, c, s, a) ==
    /\ Covered(d.index, d.meta, c.meta, s, a) /\ Covered(c.index, d.meta, c.meta, s, a)
    /\ Comparable(d.index, c.index)
    /\ d.meta <= a /\ c.meta <= a

Lo(s, a) == IF s < a THEN a ELSE s

\* The synced files d and the current files c of a table that repair has not
\* reached, and of one that is open, in step ph and with counters m.
ClosedOK(t, d, c, h, s, a) ==
    /\ FilesAgree(d, c, s, a)
    /\ Holds(t, d.index, d.data, c.data, h, Lo(s, a))
    /\ Holds(t, c.index, d.data, c.data, h, Lo(s, a))

OpenOK(t, d, c, m, h, ph, s, a) ==
    /\ FilesAgree(d, c, s, a)
    /\ Solid(t, d.index, d.data, c.data, h)
    /\ Solid(t, c.index, d.data, c.data, h)
    /\ Counted(d.index, c.index, c.data, m, ph)
    /\ m.itemHidden = c.meta

FilesInv(t) ==
    /\ ~IsOpen(t) => ClosedOK(t, disk[t], cache[t], hist[t], safe, asked)
    /\ IsOpen(t) => OpenOK(t, disk[t], cache[t], mem[t], hist[t], Phase(t), safe, asked)

\* The batch of a table: entries that go on where the head file ends.
From(m, b, j) == IF j = 1 THEN m.headBytes ELSE b.index[j - 1].off
Buffered(t, m, b, h) ==
    /\ b.curItem = m.items + Len(b.index) /\ b.curItem <= Len(h)
    /\ \A j \in 1 .. Len(b.index) :
          /\ b.index[j].file = m.headId
          /\ m.headBytes <= From(m, b, j)
          /\ b.index[j].off = From(m, b, j) + Size[t][h[m.items + j]]
          /\ b.index[j].off <= m.headBytes + Len(b.data)
          /\ \A k \in From(m, b, j) + 1 .. b.index[j].off :
                 b.data[k - m.headBytes] = h[m.items + j]
    /\ \A i, j \in 1 .. Len(b.index) : i < j => b.index[i].off < b.index[j].off
    /\ Len(b.data) = IF b.index = <<>> THEN 0 ELSE b.index[Len(b.index)].off - m.headBytes

\* Which operation is at which step.
ControlInv ==
    /\ \/ pc \in {"idle", "down"} /\ op = None
       \/ pc = "next" /\ op \in {"commit", "rollback", "head", "tail", "open", "level"}
       \/ pc \in {"run", "advance", "write"} /\ op = "modify"
       \/ pc \in {"index", "count"} /\ op \in {"modify", "commit"}
       \/ pc \in {"cut", "cutdone"} /\ op \in {"head", "rollback", "level"}
       \/ pc = "tail" /\ op = "level"
       \/ pc \in {"rename", "drop"} /\ op \in {"tail", "level"}
       \/ pc = "repair" /\ op = "open"
    /\ pc \in {"advance", "write", "index", "count"} => cur \in Table
    /\ pc \in {"cut", "cutdone", "tail", "rename", "drop", "repair"} => cur \in todo
    /\ op = "commit" /\ pc # "next" => cur \in todo

IdleInv ==
    pc = "idle" =>
       /\ safe <= frozen /\ asked = tail /\ held = None
       /\ \A t \in Table : mem[t].items = frozen /\ mem[t].itemHidden = tail

Overfull(u) ==
    held \in Payload /\ mem[u].headBytes + Len(batch[u].data) + Size[u][held] > MaxFileSize

ModifyInv ==
    /\ op \in {"modify", "commit", "rollback"} =>
          /\ safe = frozen /\ asked = tail /\ tail <= frozen
          /\ \A t \in Table : frozen <= mem[t].items /\ mem[t].itemHidden = tail
    /\ op \in {"modify", "commit"} =>
          \A t \in Table : Buffered(t, mem[t], batch[t], hist[t])
    /\ op = "commit" => held = None
    /\ op = "modify" =>
          /\ pc = "run" => held = None
          /\ pc \in {"write", "index", "count"} /\ held # None => Overfull(cur)
          /\ pc = "advance" => Overfull(cur) /\ batch[cur].index = <<>>

\* A batch that is partly in the files.
CommitInv ==
    LET m == mem[cur]
        b == batch[cur]
        s == cache[cur].data[m.headId]
        x == cache[cur].index
    IN  /\ pc \in {"index", "count"} => Len(s) = m.headBytes + Len(b.data)
        /\ pc = "index" => \A k \in 1 .. Len(b.data) : s[m.headBytes + k] = b.data[k]
        /\ pc = "count" => /\ m.headBytes + Len(b.data) = EndOf(x, m.headId)
                           /\ Stored(x) = b.curItem
        /\ op = "commit" =>
              /\ \A t, u \in Table : batch[t].curItem = batch[u].curItem
              /\ \A t \in Table \ todo : batch[t].index = <<>>

RollbackInv ==
    op = "rollback" => target = frozen /\ \A t \in Table \ todo : mem[t].items = frozen

CutInv == pc \in {"cut", "cutdone"} => Stored(cache[cur].index) = target

HeadInv ==
    op = "head" =>
       /\ asked = tail /\ target < frozen
       /\ \A t \in Table : mem[t].itemHidden = tail
       /\ \A t \in todo : mem[t].items = frozen
       /\ \A t \in Table \ todo : mem[t].items = target
       /\ \/ tail <= target /\ safe = target
          \/ target < tail /\ todo = Table /\ pc = "next" /\ safe = frozen

TailInv ==
    op = "tail" =>
       /\ safe = frozen /\ tail < target
       /\ \A t \in Table : mem[t].items = frozen
       /\ \A t \in Table :
             mem[t].itemHidden = IF t \notin todo \/ (t = cur /\ pc # "next") THEN target ELSE tail
       /\ \/ target <= frozen /\ asked = target
          \/ frozen < target /\ todo = Table /\ pc = "next" /\ asked = tail

LevelInv ==
    op = "level" =>
       /\ safe <= target /\ asked <= target
       /\ \A t \in Table : target <= mem[t].items
       /\ \A t \in Table : t \notin todo \/ (t = cur /\ pc \in {"tail", "rename", "drop"}) =>
              mem[t].items = target
       /\ \A t \in Table : t \notin todo \/ (t = cur /\ pc \in {"rename", "drop"}) =>
              \A u \in Table : mem[u].itemHidden <= mem[t].itemHidden

\* While the freezer is down, and until it is open again.
DownInv ==
    /\ pc = "down" => disk = cache
    /\ pc = "down" \/ op \in {"open", "level"} => \E u \in Table : asked <= cache[u].meta
    /\ pc = "down" => \A t \in Table : mem[t] = ClosedTable
    /\ op = "open" =>
          \A t \in todo :
             (t = cur /\ pc = "repair") \/ (mem[t] = ClosedTable /\ disk[t] = cache[t])

\* The entries of the synced index d that repair dropped from the files c have
\* lost their data.
Repairing(d, c, m) ==
    /\ c.index # <<>>
    /\ m.items = 0 /\ m.tailId = c.index[1].file /\ m.itemOffset = c.index[1].off
    /\ m.headId = LastEntry(c.index, m.tailId).file /\ m.itemHidden = c.meta
    /\ m.headId \in DOMAIN c.data
    /\ d # <<>> => /\ IsPfx(c.index, d)
                   /\ \A i \in Len(c.index) + 1 .. Len(d) :
                          Len(c.data[d[i].file]) < d[i].off
    /\ d = <<>> => Len(c.index) <= 1

RepairInv == pc = "repair" => Repairing(disk[cur].index, cache[cur], mem[cur])

OpInv == /\ IdleInv /\ ModifyInv /\ CommitInv /\ RollbackInv /\ CutInv
         /\ HeadInv /\ TailInv /\ LevelInv /\ DownInv /\ RepairInv

IInv == TypeOK /\ ControlInv /\ OpInv /\ \A t \in Table : FilesInv(t)

-----------------------------------------------------------------------------
(* Numbers                                                                 *)

\* A set of numbers has a least one.
LEMMA LeastNat ==
  ASSUME NEW T, T \subseteq Nat, T # {}
  PROVE  Min(T) \in T /\ \A y \in T : Min(T) <= y
<1> DEFINE R == OpToRel(<, Nat)
<1>1. IsWellFoundedOn(R, Nat)
  BY NatLessThanWellFounded
<1>2. \A x, y \in Nat : x < y => <<x, y>> \in R
  BY DEF OpToRel
<1> HIDE DEF R
<1>3. PICK x \in T : \A y \in T : ~(<<y, x>> \in R)
  BY <1>1, WFMin
<1>4. \A y \in T : x <= y
  <2> SUFFICES ASSUME NEW y \in T PROVE x <= y
    OBVIOUS
  <2>1. x \in Nat /\ y \in Nat /\ ~(y < x)
    BY <1>2, <1>3
  <2> QED BY <2>1
<1>5. \E z \in T : \A y \in T : z <= y
  BY <1>4
<1> QED BY <1>5 DEF Min

\* A set of numbers up to a bound has a greatest one.
LEMMA GreatestNat ==
  ASSUME NEW L \in Nat, NEW T, T \subseteq 0..L, T # {}
  PROVE  Max(T) \in T /\ \A y \in T : y <= Max(T)
<1> DEFINE D == {L - y : y \in T}
<1>1. D \subseteq Nat /\ D # {}
  <2>1. ASSUME NEW y \in T PROVE L - y \in Nat
    OBVIOUS
  <2> QED BY <2>1
<1> HIDE DEF D
<1>2. Min(D) \in D /\ \A e \in D : Min(D) <= e
  BY <1>1, LeastNat
<1>3. PICK x \in T : Min(D) = L - x
  BY <1>2 DEF D
<1>4. \A y \in T : x >= y
  <2> SUFFICES ASSUME NEW y \in T PROVE x >= y
    OBVIOUS
  <2>1. L - y \in D
    BY DEF D
  <2>2. L - x <= L - y
    BY <1>2, <1>3, <2>1
  <2> QED BY <2>2
<1>5. \E z \in T : \A y \in T : z >= y
  BY <1>4
<1>6. Max(T) \in T /\ \A y \in T : Max(T) >= y
  BY <1>5 DEF Max
<1>7. \A y \in T : y \in Int
  OBVIOUS
<1> QED BY <1>6, <1>7

-----------------------------------------------------------------------------
(* Indexes                                                                 *)

\* What the definitions say of one entry.
LEMMA Entries ==
  ASSUME NEW t \in Table, NEW x \in Seq(Position), NEW h \in Seq(Payload), Formed(t, x, h),
         NEW i \in 2..Len(x)
  PROVE  /\ x[i] \in Position /\ x[1] \in Position /\ x[Len(x)] \in Position
         /\ Num(x, i) \in Nat /\ Num(x, i) < Stored(x) /\ Num(x, i) + 1 \in 1..Len(h)
         /\ h[Num(x, i) + 1] \in Payload
         /\ Start(x, i) \in Nat /\ Start(x, i) < x[i].off
         /\ x[i].file <= x[Len(x)].file /\ x[1].file <= x[i].file
<1>1. x[i] \in Position /\ x[1] \in Position /\ x[Len(x)] \in Position /\ x[i - 1] \in Position
  OBVIOUS
<1>2. Stored(x) = x[1].off + Len(x) - 1
  BY DEF Stored
<1>3. Num(x, i) \in Nat /\ Num(x, i) < Stored(x) /\ Num(x, i) + 1 \in 1..Len(h)
  <2>1. Stored(x) <= Len(h)
    BY DEF Formed
  <2>2. x[1].off \in Nat /\ Len(x) \in Nat /\ i \in 2..Len(x) /\ Len(h) \in Nat
    BY SMTT(30), <1>1 DEF Position
  <2>3. Num(x, i) = x[1].off + i - 2
    BY DEF Num
  <2> HIDE DEF Num, Stored
  <2> QED BY <1>2, <2>1, <2>2, <2>3
<1>4. h[Num(x, i) + 1] \in Payload
  BY <1>3
<1>5. Start(x, i) \in Nat
  BY <1>1 DEF Start, Position
<1>6. Size[t][h[Num(x, i) + 1]] \in 1..MaxFileSize /\ MaxFileSize \in Nat
  BY <1>4, FreezerAssumption
<1>7. Start(x, i) < x[i].off
  BY <1>5, <1>6 DEF Formed
<1>8. x[i].file <= x[Len(x)].file /\ x[1].file <= x[i].file
  <2>1. x[i].file <= x[Len(x)].file
    <3>1. CASE i = Len(x)
      BY <1>1, <3>1 DEF Position
    <3>2. CASE i < Len(x)
      BY <3>2 DEF Formed, Shape
    <3> QED BY <3>1, <3>2
  <2> QED BY <2>1 DEF Formed, Shape
<1> QED BY <1>1, <1>3, <1>4, <1>5, <1>7, <1>8

\* The number after the last item.
LEMMA StoredNat ==
  ASSUME NEW x \in Seq(Position)
  PROVE  /\ Stored(x) \in Nat
         /\ x # <<>> => Stored(x) = x[1].off + Len(x) - 1 /\ Len(x) \in Nat \ {0} /\ x[1] \in Position
                        /\ x[Len(x)] \in Position
<1>1. CASE x = <<>>
  BY <1>1 DEF Stored
<1>2. CASE x # <<>>
  <2>1. Len(x) \in Nat \ {0} /\ x[1] \in Position /\ x[Len(x)] \in Position
    BY <1>2
  <2> QED BY <1>2, <2>1 DEF Stored, Position
<1> QED BY <1>1, <1>2

\* A table all of whose entries are solid holds whatever it has to.
LEMMA SolidHolds ==
  ASSUME NEW t \in Table, NEW x, NEW dd, NEW cd, NEW h, NEW lo, Solid(t, x, dd, cd, h), 
         x \in Seq(Position)
  PROVE  Holds(t, x, dd, cd, h, lo)
<1> SUFFICES ASSUME NEW i \in 2..Len(x)
             PROVE  /\ Sound(x, i, dd[x[i].file], h) /\ Sound(x, i, cd[x[i].file], h)
  BY DEF Solid, Holds
<1>1. Full(x, i, dd[x[i].file], cd[x[i].file], h)
  BY DEF Solid
<1>2. x[i].off \in Nat /\ Start(x, i) \in Nat
  <2>1. x[i] \in Position /\ x[i - 1] \in Position
    OBVIOUS
  <2> QED BY <2>1 DEF Start, Position
<1> QED BY <1>1, <1>2 DEF Full, Sound, Written

\* Solid entries stay so if both contents of their files keep what is before their ends.
LEMMA SolidData ==
  ASSUME NEW t \in Table, NEW x \in Seq(Position), NEW h \in Seq(Payload),
         NEW dd, NEW cd, NEW dn, NEW cn, Solid(t, x, dd, cd, h),
         \A i \in 2..Len(x) :
            LET f == x[i].file
            IN  /\ f \in DOMAIN dn /\ f \in DOMAIN cn
                /\ x[i].off <= Len(dn[f]) /\ x[i].off <= Len(cn[f])
                /\ \A j \in 1..x[i].off : dn[f][j] = cd[f][j] /\ cn[f][j] = cd[f][j]
  PROVE  Solid(t, x, dn, cn, h)
<1>1. Formed(t, x, h)
  BY DEF Solid
<1> SUFFICES ASSUME NEW i \in 2..Len(x)
             PROVE  Full(x, i, dn[x[i].file], cn[x[i].file], h)
  BY <1>1 DEF Solid
<1>2. x[i].off \in Nat /\ Start(x, i) \in Nat
  BY <1>1, Entries DEF Position
<1>3. Written(x, i, cd[x[i].file], h)
  BY DEF Solid, Full
<1>4. Written(x, i, cn[x[i].file], h)
  BY <1>2, <1>3 DEF Written
<1> QED BY <1>4 DEF Full

\* Only the items an index knows of matter.
LEMMA FormedHist ==
  ASSUME NEW t \in Table, NEW x \in Seq(Position), NEW h \in Seq(Payload), NEW hn \in Seq(Payload),
         Formed(t, x, h), Stored(x) <= Len(hn), \A n \in 1..Stored(x) : hn[n] = h[n]
  PROVE  /\ Formed(t, x, hn)
         /\ \A i \in 2..Len(x) : hn[Num(x, i) + 1] = h[Num(x, i) + 1]
<1>1. \A i \in 2..Len(x) : hn[Num(x, i) + 1] = h[Num(x, i) + 1]
  <2> SUFFICES ASSUME NEW i \in 2..Len(x) PROVE hn[Num(x, i) + 1] = h[Num(x, i) + 1]
    OBVIOUS
  <2>1. Num(x, i) \in Nat /\ Num(x, i) < Stored(x) /\ Stored(x) \in Nat
    BY Entries, StoredNat
  <2> QED BY <2>1
<1> QED BY <1>1 DEF Formed

\* Solid entries stay solid when items that are not stored are forgotten or added.
LEMMA SolidHist ==
  ASSUME NEW t \in Table, NEW x \in Seq(Position), NEW h \in Seq(Payload), NEW hn \in Seq(Payload),
         NEW dd, NEW cd, Solid(t, x, dd, cd, h), Stored(x) <= Len(hn),
         \A n \in 1..Stored(x) : hn[n] = h[n]
  PROVE  Solid(t, x, dd, cd, hn)
<1>1. Formed(t, x, hn) /\ \A i \in 2..Len(x) : hn[Num(x, i) + 1] = h[Num(x, i) + 1]
  BY FormedHist DEF Solid
<1> QED BY <1>1 DEF Solid, Full, Written

\* The same of a table that may have lost data.
LEMMA HoldsHist ==
  ASSUME NEW t \in Table, NEW x \in Seq(Position), NEW h \in Seq(Payload), NEW hn \in Seq(Payload),
         NEW dd, NEW cd, NEW lo, Holds(t, x, dd, cd, h, lo), Stored(x) <= Len(hn),
         \A n \in 1..Stored(x) : hn[n] = h[n]
  PROVE  Holds(t, x, dd, cd, hn, lo)
<1>1. Formed(t, x, hn) /\ \A i \in 2..Len(x) : hn[Num(x, i) + 1] = h[Num(x, i) + 1]
  BY FormedHist DEF Holds
<1> QED BY <1>1 DEF Holds, Full, Sound, Written

\* The front part of an index.
LEMMA PfxEntries ==
  ASSUME NEW x \in Seq(Position), NEW y \in Seq(Position), IsPfx(y, x)
  PROVE  \A i \in 2..Len(y) : i \in 2..Len(x) /\ y[i] = x[i] /\ Num(y, i) = Num(x, i)
                              /\ Start(y, i) = Start(x, i)
<1> SUFFICES ASSUME NEW i \in 2..Len(y)
             PROVE  i \in 2..Len(x) /\ y[i] = x[i] /\ Num(y, i) = Num(x, i) /\ Start(y, i) = Start(x, i)
  OBVIOUS
<1>1. i \in 2..Len(x) /\ y[i] = x[i] /\ y[1] = x[1] /\ y[i - 1] = x[i - 1]
  BY DEF IsPfx
<1> QED BY <1>1 DEF Num, Start

\* An index cut at its end is still formed.
LEMMA FormedPfx ==
  ASSUME NEW t \in Table, NEW x \in Seq(Position), NEW h \in Seq(Payload), Formed(t, x, h),
         NEW y \in Seq(Position), IsPfx(y, x)
  PROVE  Formed(t, y, h) /\ Stored(y) <= Stored(x)
<1>1. \A i \in 1..Len(y) : y[i] = x[i] /\ i \in 1..Len(x)
  BY DEF IsPfx
<1>2. \A i \in 2..Len(y) : i \in 2..Len(x) /\ y[i] = x[i] /\ Num(y, i) = Num(x, i) /\ Start(y, i) = Start(x, i)
  BY PfxEntries
<1>3. Stored(y) <= Stored(x)
  <2>1. CASE y = <<>>
    BY <2>1, StoredNat DEF Stored
  <2>2. CASE y # <<>>
    <3>1. x # <<>> /\ y[1] = x[1] /\ Len(y) <= Len(x)
      BY <2>2 DEF IsPfx
    <3>2. Stored(x) = x[1].off + Len(x) - 1 /\ Stored(y) = x[1].off + Len(y) - 1 /\ x[1] \in Position
      BY <2>2, <3>1, StoredNat
    <3> QED BY <3>1, <3>2 DEF Position
  <2> QED BY <2>1, <2>2
<1>4. Shape(y)
  <2>1. \A i, j \in 1 .. Len(y) : i < j => y[i].file <= y[j].file
    BY <1>1 DEF Formed, Shape
  <2>2. \A i, j \in 2 .. Len(y) : i < j /\ y[i].file = y[j].file => y[i].off < y[j].off
    BY <1>2 DEF Formed, Shape
  <2>3. ASSUME NEW j \in 2..Len(y), NEW g \in y[1].file..y[j].file
        PROVE  \E i \in 2..j : y[i].file = g
    <3>1. j \in 2..Len(x) /\ g \in x[1].file..x[j].file
      BY <1>1, <1>2, <2>3
    <3>2. PICK i \in 2..j : x[i].file = g
      BY <3>1 DEF Formed, Shape
    <3>3. i \in 1..Len(y)
      OBVIOUS
    <3> QED BY <1>1, <3>2, <3>3
  <2> QED BY <2>1, <2>2, <2>3 DEF Shape
<1>5. Stored(y) <= Len(h)
  BY <1>3, StoredNat DEF Formed
<1> QED BY <1>2, <1>3, <1>4, <1>5 DEF Formed

\* Its entries are still solid.
LEMMA SolidPfx ==
  ASSUME NEW t \in Table, NEW x \in Seq(Position), NEW h \in Seq(Payload), NEW dd, NEW cd,
         Solid(t, x, dd, cd, h), NEW y \in Seq(Position), IsPfx(y, x)
  PROVE  Solid(t, y, dd, cd, h)
<1>1. Formed(t, y, h)
  BY FormedPfx DEF Solid
<1>2. \A i \in 2..Len(y) : i \in 2..Len(x) /\ y[i] = x[i] /\ Num(y, i) = Num(x, i) /\ Start(y, i) = Start(x, i)
  BY PfxEntries
<1> QED BY SMTT(30), <1>1, <1>2 DEF Solid, Full, Written

\* The same of a table that may have lost data: the entries it keeps below its
\* new last file were complete already.
LEMMA HoldsPfx ==
  ASSUME NEW t \in Table, NEW x \in Seq(Position), NEW h \in Seq(Payload), NEW dd, NEW cd, NEW lo,
         Holds(t, x, dd, cd, h, lo), NEW y \in Seq(Position), IsPfx(y, x)
  PROVE  Holds(t, y, dd, cd, h, lo)
<1>0. Formed(t, x, h)
  BY DEF Holds
<1>1. Formed(t, y, h)
  BY <1>0, FormedPfx
<1> SUFFICES ASSUME NEW i \in 2..Len(y)
             PROVE  LET f == y[i].file
                    IN  /\ f \in DOMAIN dd /\ f \in DOMAIN cd
                        /\ Sound(y, i, dd[f], h) /\ Sound(y, i, cd[f], h)
                        /\ f # y[Len(y)].file \/ Num(y, i) < lo => Full(y, i, dd[f], cd[f], h)
  BY <1>1 DEF Holds
<1>2. i \in 2..Len(x) /\ y[i] = x[i] /\ Num(y, i) = Num(x, i) /\ Start(y, i) = Start(x, i)
  BY PfxEntries
<1>3. y[Len(y)] = x[Len(y)] /\ Len(y) \in 2..Len(x)
  BY DEF IsPfx
<1>4. x[i].file # x[Len(y)].file => x[i].file # x[Len(x)].file
  <2>1. i <= Len(y) /\ Len(y) <= Len(x)
    BY <1>3
  <2>2. i < Len(y) => x[i].file <= x[Len(y)].file
    BY <1>0, <1>2, <1>3 DEF Formed, Shape
  <2>3. x[Len(y)].file <= x[Len(x)].file
    BY <1>0, <1>3, Entries
  <2>4. x[i].file \in Nat /\ x[Len(y)].file \in Nat /\ x[Len(x)].file \in Nat
    BY <1>0, <1>2, <1>3, Entries DEF Position
  <2> QED BY <2>1, <2>2, <2>3, <2>4
<1> QED BY <1>2, <1>3, <1>4 DEF Holds, Sound, Full, Written

-----------------------------------------------------------------------------
(* Steps of an open table                                                  *)

\* Data files are a function of their numbers.
LEMMA DataFacts ==
  ASSUME NEW dd \in Data
  PROVE  /\ DOMAIN dd \subseteq Nat /\ \A f \in DOMAIN dd : dd[f] \in Seq(Payload)
         /\ dd = [f \in DOMAIN dd |-> dd[f]]
  BY DEF Data

\* Data files by number.
LEMMA DataMade ==
  ASSUME NEW S \in SUBSET Nat, NEW g \in [S -> Seq(Payload)]
  PROVE  g \in Data
  BY DEF Data

\* File f gets content s, the others stay.
Changed(cd, cn, f, s) ==
    /\ cn \in Data /\ DOMAIN cn = DOMAIN cd \cup {f} /\ cn[f] = s
    /\ \A g \in DOMAIN cd \ {f} : cn[g] = cd[g]

\* A file that is there is written, one that may be there is created.
LEMMA FileChanged ==
  ASSUME NEW cd \in Data, NEW f \in Nat, NEW s \in Seq(Payload)
  PROVE  /\ Changed(cd, WithFile(cd, f, s), f, s)
         /\ f \in DOMAIN cd => Changed(cd, [cd EXCEPT ![f] = s], f, s)
<1>1. DOMAIN cd \subseteq Nat /\ \A g \in DOMAIN cd : cd[g] \in Seq(Payload)
  BY DataFacts
<1>2. Changed(cd, WithFile(cd, f, s), f, s)
  <2> DEFINE cn == WithFile(cd, f, s)
  <2>1. /\ cn \in [DOMAIN cd \cup {f} -> Seq(Payload)]
        /\ DOMAIN cn = DOMAIN cd \cup {f} /\ cn[f] = s /\ \A g \in DOMAIN cd \ {f} : cn[g] = cd[g]
    BY <1>1 DEF WithFile
  <2> HIDE DEF cn
  <2>2. cn \in Data
    BY <1>1, <2>1, DataMade
  <2>3. Changed(cd, cn, f, s)
    BY <2>1, <2>2 DEF Changed
  <2> QED BY <2>3 DEF cn
<1>3. ASSUME f \in DOMAIN cd PROVE Changed(cd, [cd EXCEPT ![f] = s], f, s)
  <2> DEFINE cn == [cd EXCEPT ![f] = s]
  <2>1. /\ cn \in [DOMAIN cd -> Seq(Payload)]
        /\ DOMAIN cn = DOMAIN cd /\ cn[f] = s /\ \A g \in DOMAIN cd \ {f} : cn[g] = cd[g]
    BY <1>1, <1>3, DataFacts
  <2> HIDE DEF cn
  <2>2. cn \in Data
    BY <1>1, <2>1, DataMade
  <2>3. DOMAIN cd \cup {f} = DOMAIN cd
    BY <1>3
  <2>4. Changed(cd, cn, f, s)
    BY <2>1, <2>2, <2>3 DEF Changed
  <2> QED BY <2>4 DEF cn
<1> QED BY <1>2, <1>3

\* Data is written behind what the index knows.
LEMMA AppendData ==
  ASSUME NEW t \in Table, NEW cd \in Data, NEW f \in DOMAIN cd, NEW s \in Seq(Payload),
         NEW cn, Changed(cd, cn, f, cd[f] \o s)
  PROVE  /\ cn \in Data /\ DOMAIN cn = DOMAIN cd
         /\ Len(cn[f]) = Len(cd[f]) + Len(s)
         /\ \A k \in 1..Len(s) : cn[f][Len(cd[f]) + k] = s[k]
         /\ \A x \in Seq(Position), h \in Seq(Payload) : \A dd :
               Solid(t, x, dd, cd, h) => Solid(t, x, dd, cn, h)
<1>1. DOMAIN cd \subseteq Nat /\ \A g \in DOMAIN cd : cd[g] \in Seq(Payload)
  BY DataFacts
<1>2. DOMAIN cn = DOMAIN cd /\ cn[f] = cd[f] \o s
      /\ \A g \in DOMAIN cd \ {f} : cn[g] = cd[g]
  <2>1. DOMAIN cd \cup {f} = DOMAIN cd
    OBVIOUS
  <2> QED BY <2>1 DEF Changed
<1>3. cn \in Data
  BY DEF Changed
<1>4. /\ Len(cn[f]) = Len(cd[f]) + Len(s)
      /\ \A k \in 1..Len(s) : cn[f][Len(cd[f]) + k] = s[k]
      /\ \A k \in 1..Len(cd[f]) : cn[f][k] = cd[f][k]
  BY <1>1, <1>2
<1>5. ASSUME NEW x \in Seq(Position), NEW h \in Seq(Payload), NEW dd, Solid(t, x, dd, cd, h)
      PROVE  Solid(t, x, dd, cn, h)
  <2> SUFFICES ASSUME NEW i \in 2..Len(x)
               PROVE  LET g == x[i].file
                      IN  /\ g \in DOMAIN dd /\ g \in DOMAIN cn
                          /\ x[i].off <= Len(dd[g]) /\ x[i].off <= Len(cn[g])
                          /\ \A j \in 1..x[i].off : dd[g][j] = cd[g][j] /\ cn[g][j] = cd[g][j]
    BY <1>5, SolidData
  <2>1. x[i].file \in DOMAIN dd /\ x[i].file \in DOMAIN cd /\ x[i].off <= Len(dd[x[i].file])
        /\ x[i].off <= Len(cd[x[i].file]) /\ \A j \in 1..x[i].off : dd[x[i].file][j] = cd[x[i].file][j]
    BY <1>5 DEF Solid, Full
  <2>2. x[i].off \in Nat
    BY <1>5, Entries DEF Solid, Position
  <2>3. CASE x[i].file = f
    <3>1. Len(cd[f]) \in Nat /\ Len(s) \in Nat
      BY <1>1
    <3> QED BY <1>2, <1>4, <2>1, <2>2, <2>3, <3>1
  <2>4. CASE x[i].file # f
    BY <1>2, <2>1, <2>4
  <2> QED BY <2>3, <2>4
<1> QED BY <1>2, <1>3, <1>4, <1>5

\* The synced data once file f is synced.
Synced(dd, cd, f) ==
    [g \in (DOMAIN dd \cap DOMAIN cd) \cup {f} |-> IF g = f THEN cd[f] ELSE dd[g]]

\* Syncing one file keeps all solid entries solid.
LEMMA SyncData ==
  ASSUME NEW t \in Table, NEW dd \in Data, NEW cd \in Data, NEW f \in DOMAIN cd
  PROVE  /\ Synced(dd, cd, f) \in Data
         /\ \A x \in Seq(Position), h \in Seq(Payload) :
               Solid(t, x, dd, cd, h) => Solid(t, x, Synced(dd, cd, f), cd, h)
<1> DEFINE dn == Synced(dd, cd, f)
<1>1. /\ DOMAIN cd \subseteq Nat /\ \A g \in DOMAIN cd : cd[g] \in Seq(Payload)
      /\ DOMAIN dd \subseteq Nat /\ \A g \in DOMAIN dd : dd[g] \in Seq(Payload)
  BY DataFacts
<1>2. /\ dn \in [(DOMAIN dd \cap DOMAIN cd) \cup {f} -> Seq(Payload)]
      /\ DOMAIN dn = (DOMAIN dd \cap DOMAIN cd) \cup {f}
      /\ \A g \in DOMAIN dn : dn[g] = IF g = f THEN cd[f] ELSE dd[g]
  BY <1>1 DEF Synced
<1> HIDE DEF dn
<1>3. dn \in Data
  BY <1>1, <1>2, DataMade
<1>4. ASSUME NEW x \in Seq(Position), NEW h \in Seq(Payload), Solid(t, x, dd, cd, h)
      PROVE  Solid(t, x, dn, cd, h)
  <2> SUFFICES ASSUME NEW i \in 2..Len(x)
               PROVE  LET g == x[i].file
                      IN  /\ g \in DOMAIN dn /\ g \in DOMAIN cd
                          /\ x[i].off <= Len(dn[g]) /\ x[i].off <= Len(cd[g])
                          /\ \A j \in 1..x[i].off : dn[g][j] = cd[g][j] /\ cd[g][j] = cd[g][j]
    BY <1>4, SolidData
  <2>1. x[i].file \in DOMAIN dd /\ x[i].file \in DOMAIN cd /\ x[i].off <= Len(dd[x[i].file])
        /\ x[i].off <= Len(cd[x[i].file]) /\ \A j \in 1..x[i].off : dd[x[i].file][j] = cd[x[i].file][j]
    BY <1>4 DEF Solid, Full
  <2> QED BY <1>2, <2>1
<1> QED BY <1>3, <1>4 DEF dn

\* A file that no entry is in is added or replaced.
LEMMA AddFile ==
  ASSUME NEW t \in Table, NEW cd \in Data, NEW f \in Nat,
         NEW cn, Changed(cd, cn, f, <<>>)
  PROVE  /\ cn \in Data /\ DOMAIN cn = DOMAIN cd \cup {f} /\ cn[f] = <<>>
         /\ \A x \in Seq(Position), h \in Seq(Payload) : \A dd :
               Solid(t, x, dd, cd, h) /\ (\A i \in 2..Len(x) : x[i].file # f)
                   => Solid(t, x, dd, cn, h)
<1>1. DOMAIN cd \subseteq Nat /\ \A g \in DOMAIN cd : cd[g] \in Seq(Payload)
  BY DataFacts
<1>2. DOMAIN cn = DOMAIN cd \cup {f} /\ cn[f] = <<>> /\ \A g \in DOMAIN cd \ {f} : cn[g] = cd[g]
  BY DEF Changed
<1>3. cn \in Data
  BY DEF Changed
<1>4. ASSUME NEW x \in Seq(Position), NEW h \in Seq(Payload), NEW dd,
             Solid(t, x, dd, cd, h), \A i \in 2..Len(x) : x[i].file # f
      PROVE  Solid(t, x, dd, cn, h)
  <2> SUFFICES ASSUME NEW i \in 2..Len(x)
               PROVE  x[i].file \in DOMAIN cn /\ cn[x[i].file] = cd[x[i].file]
    BY <1>4 DEF Solid
  <2> QED BY <1>2, <1>4 DEF Solid
<1> QED BY <1>2, <1>3, <1>4

\* Files that no entry is in are removed.
LEMMA RemoveFiles ==
  ASSUME NEW t \in Table, NEW cd \in Data, NEW F,
         NEW cn, cn = WithoutFiles(cd, F)
  PROVE  /\ cn \in Data /\ DOMAIN cn = DOMAIN cd \ F /\ \A g \in DOMAIN cn : cn[g] = cd[g]
         /\ \A x \in Seq(Position), h \in Seq(Payload) : \A dd :
               Solid(t, x, dd, cd, h) /\ (\A i \in 2..Len(x) : x[i].file \notin F)
                   => Solid(t, x, dd, cn, h)
<1>1. DOMAIN cd \subseteq Nat /\ \A g \in DOMAIN cd : cd[g] \in Seq(Payload)
  BY DataFacts
<1>2. /\ cn \in [DOMAIN cd \ F -> Seq(Payload)]
      /\ DOMAIN cn = DOMAIN cd \ F /\ \A g \in DOMAIN cd \ F : cn[g] = cd[g]
  BY <1>1 DEF WithoutFiles
<1>3. cn \in Data
  <2>1. DOMAIN cd \ F \in SUBSET Nat
    BY <1>1
  <2> QED BY <2>1, <1>2, DataMade
<1>4. ASSUME NEW x \in Seq(Position), NEW h \in Seq(Payload), NEW dd,
             Solid(t, x, dd, cd, h), \A i \in 2..Len(x) : x[i].file \notin F
      PROVE  Solid(t, x, dd, cn, h)
  <2> SUFFICES ASSUME NEW i \in 2..Len(x)
               PROVE  x[i].file \in DOMAIN cn /\ cn[x[i].file] = cd[x[i].file]
    BY <1>4 DEF Solid
  <2> QED BY <1>2, <1>4 DEF Solid
<1> QED BY <1>2, <1>3, <1>4

\* A file is cut behind the ends of its entries.
LEMMA CutFile ==
  ASSUME NEW t \in Table, NEW cd \in Data, NEW f \in DOMAIN cd, NEW o \in Nat, o <= Len(cd[f]),
         NEW cn, Changed(cd, cn, f, Prefix(cd[f], o))
  PROVE  /\ cn \in Data /\ DOMAIN cn = DOMAIN cd /\ Len(cn[f]) = o
         /\ \A k \in 1..o : cn[f][k] = cd[f][k]
         /\ \A g \in DOMAIN cd \ {f} : cn[g] = cd[g]
         /\ \A x \in Seq(Position), h \in Seq(Payload) : \A dd :
               /\ Solid(t, x, dd, cd, h)
               /\ \A i \in 2..Len(x) : x[i].file = f => x[i].off <= o
               => Solid(t, x, dd, cn, h)
<1>1. DOMAIN cd \subseteq Nat /\ \A g \in DOMAIN cd : cd[g] \in Seq(Payload)
  BY DataFacts
<1>2. /\ Prefix(cd[f], o) \in Seq(Payload) /\ Len(Prefix(cd[f], o)) = o
      /\ \A k \in 1..o : Prefix(cd[f], o)[k] = cd[f][k]
  <2>1. cd[f] \in Seq(Payload) /\ \A k \in 1..o : cd[f][k] \in Payload
    BY <1>1
  <2> QED BY <2>1 DEF Prefix
<1>3. /\ DOMAIN cn = DOMAIN cd
      /\ cn[f] = Prefix(cd[f], o) /\ \A g \in DOMAIN cd \ {f} : cn[g] = cd[g]
  <2>1. DOMAIN cd \cup {f} = DOMAIN cd
    OBVIOUS
  <2> QED BY <2>1 DEF Changed
<1>4. cn \in Data
  BY DEF Changed
<1>5. ASSUME NEW x \in Seq(Position), NEW h \in Seq(Payload), NEW dd, Solid(t, x, dd, cd, h),
             \A i \in 2..Len(x) : x[i].file = f => x[i].off <= o
      PROVE  Solid(t, x, dd, cn, h)
  <2> SUFFICES ASSUME NEW i \in 2..Len(x)
               PROVE  LET g == x[i].file
                      IN  /\ g \in DOMAIN dd /\ g \in DOMAIN cn
                          /\ x[i].off <= Len(dd[g]) /\ x[i].off <= Len(cn[g])
                          /\ \A j \in 1..x[i].off : dd[g][j] = cd[g][j] /\ cn[g][j] = cd[g][j]
    BY <1>5, SolidData
  <2>1. x[i].file \in DOMAIN dd /\ x[i].file \in DOMAIN cd /\ x[i].off <= Len(dd[x[i].file])
        /\ x[i].off <= Len(cd[x[i].file]) /\ \A j \in 1..x[i].off : dd[x[i].file][j] = cd[x[i].file][j]
    BY <1>5 DEF Solid, Full
  <2>2. x[i].off \in Nat
    BY <1>5, Entries DEF Solid, Position
  <2>3. CASE x[i].file = f
    BY <1>2, <1>3, <1>5, <2>1, <2>2, <2>3
  <2>4. CASE x[i].file # f
    BY <1>3, <2>1, <2>4
  <2> QED BY <2>3, <2>4
<1> QED BY <1>2, <1>3, <1>4, <1>5

\* The entries of a batch go on where the index ends.
LEMMA GrowEntries ==
  ASSUME NEW t \in Table, NEW x \in Seq(Position), NEW h \in Seq(Payload), x # <<>>,
         NEW m \in Memory, NEW b \in Batch, Buffered(t, m, b, h),
         m.headBytes = EndOf(x, m.headId), Stored(x) = m.items,
         Len(x) <= 1 => m.headId = x[1].file
  PROVE  LET y == x \o b.index
         IN  /\ y \in Seq(Position) /\ Len(y) = Len(x) + Len(b.index) /\ y[1] = x[1]
             /\ IsPfx(x, y) /\ Stored(y) = b.curItem
             /\ \A j \in 1..Len(b.index) :
                   /\ y[Len(x) + j] = b.index[j] /\ b.index[j] \in Position
                   /\ Start(y, Len(x) + j) = From(m, b, j) /\ From(m, b, j) \in Nat
                   /\ Num(y, Len(x) + j) + 1 = m.items + j
<1> DEFINE y == x \o b.index
<1>0. b.index \in Seq(Position) /\ m.items \in Nat /\ m.headBytes \in Nat /\ m.headId \in Nat
      /\ b.curItem \in Nat
  BY DEF Batch, Memory
<1>1. /\ y \in Seq(Position) /\ Len(y) = Len(x) + Len(b.index) /\ y[1] = x[1]
      /\ \A i \in 1..Len(x) : y[i] = x[i]
      /\ \A j \in 1..Len(b.index) : y[Len(x) + j] = b.index[j]
      /\ y # <<>> /\ Len(x) \in Nat \ {0} /\ Len(b.index) \in Nat
  BY <1>0
<1> HIDE DEF y
<1>2. IsPfx(x, y)
  BY <1>1 DEF IsPfx
<1>3. Stored(x) = x[1].off + Len(x) - 1 /\ Stored(y) = y[1].off + Len(y) - 1 /\ x[1].off \in Nat
  BY <1>1, StoredNat DEF Position
<1>4. Stored(y) = b.curItem
  <2>1. b.curItem = m.items + Len(b.index)
    BY DEF Buffered
  <2>2. Len(y) = Len(x) + Len(b.index) /\ Len(x) \in Nat /\ Len(b.index) \in Nat /\ y[1] = x[1]
    BY <1>1
  <2>3. Stored(y) = x[1].off + (Len(x) + Len(b.index)) - 1
    BY <1>3, <2>2
  <2>4. m.items = x[1].off + Len(x) - 1
    BY <1>3
  <2>5. x[1].off \in Nat /\ Len(x) \in Nat /\ Len(b.index) \in Nat
    BY <1>1, <1>3
  <2> QED BY <2>1, <2>3, <2>4, <2>5
<1>5. ASSUME NEW j \in 1..Len(b.index)
      PROVE  /\ y[Len(x) + j] = b.index[j] /\ b.index[j] \in Position
             /\ Start(y, Len(x) + j) = From(m, b, j) /\ From(m, b, j) \in Nat
             /\ Num(y, Len(x) + j) + 1 = m.items + j
  <2>1. y[Len(x) + j] = b.index[j] /\ b.index[j] \in Position
    BY <1>0, <1>1
  <2>2. Num(y, Len(x) + j) + 1 = m.items + j
    <3>1. Num(y, Len(x) + j) = x[1].off + (Len(x) + j) - 2
      BY <1>1 DEF Num
    <3>2. m.items = x[1].off + Len(x) - 1 /\ x[1].off \in Nat
      BY <1>3
    <3>3. Len(x) \in Nat /\ j \in Nat
      BY <1>1
    <3>4. PICK o \in Nat, l \in Nat : o = x[1].off /\ l = Len(x)
      BY ONLY <3>2, <3>3
    <3>5. Num(y, Len(x) + j) = o + (l + j) - 2 /\ m.items = o + l - 1
      BY ONLY <3>1, <3>2, <3>4
    <3> QED BY ONLY <3>3, <3>5, o \in Nat, l \in Nat
  <2>3. b.index[j].file = m.headId
    BY DEF Buffered
  <2>4. CASE j = 1
    <3>1. Len(x) + j - 1 = Len(x) /\ y[Len(x)] = x[Len(x)] /\ x[Len(x)] \in Position
      BY <1>1, <2>4
    <3>2. CASE Len(x) <= 1
      <4>1. Start(y, Len(x) + j) = 0 /\ EndOf(x, m.headId) = 0
        BY <2>4, <3>2 DEF Start, EndOf
      <4> QED BY <1>0, <2>1, <2>2, <2>4, <4>1 DEF From
    <3>3. CASE Len(x) > 1
      <4>1. Start(y, Len(x) + j) = IF x[Len(x)].file # m.headId THEN 0 ELSE x[Len(x)].off
        <5>1. y[(Len(x) + j) - 1] = x[Len(x)] /\ y[Len(x) + j].file = m.headId
          BY <2>1, <2>3, <3>1
        <5>2. Len(x) + j # 2
          BY <1>1, <2>4, <3>3
        <5> QED BY <5>1, <5>2 DEF Start
      <4>2. EndOf(x, m.headId) = IF x[Len(x)].file = m.headId THEN x[Len(x)].off ELSE 0
        <5>1. Len(x) > 1
          BY <1>1, <3>3
        <5> QED BY <5>1 DEF EndOf
      <4> QED BY <1>0, <2>1, <2>2, <2>4, <4>1, <4>2 DEF From
    <3> QED BY <3>2, <3>3
  <2>5. CASE j # 1
    <3>1. j - 1 \in 1..Len(b.index)
      BY <2>5, <1>1
    <3>2. y[Len(x) + j - 1] = b.index[j - 1] /\ b.index[j - 1] \in Position
          /\ b.index[j - 1].file = m.headId
      <4>1. Len(x) + j - 1 = Len(x) + (j - 1)
        BY <1>1
      <4>2. y[Len(x) + (j - 1)] = b.index[j - 1]
        BY <1>1, <3>1
      <4> QED BY <1>0, <3>1, <4>1, <4>2 DEF Buffered
    <3>3. Len(x) + j # 2
      BY <1>1, <2>5
    <3>4. Start(y, Len(x) + j) = b.index[j - 1].off
      BY <2>1, <2>3, <3>2, <3>3 DEF Start
    <3> QED BY <2>1, <2>2, <2>5, <3>2, <3>4 DEF From, Position
  <2> QED BY <2>4, <2>5
<1> QED BY <1>1, <1>2, <1>4, <1>5 DEF y

\* The index is extended by a batch whose data is synced.
LEMMA GrowIndex ==
  ASSUME NEW t \in Table, NEW x \in Seq(Position), NEW h \in Seq(Payload), x # <<>>,
         NEW m \in Memory, NEW b \in Batch, Buffered(t, m, b, h),
         m.headBytes = EndOf(x, m.headId), Stored(x) = m.items,
         Len(x) <= 1 => m.headId = x[1].file, 
         x[Len(x)].file <= m.headId, m.headId <= x[Len(x)].file + 1,
         NEW dd \in Data, NEW cd \in Data, Solid(t, x, dd, cd, h),
         m.headId \in DOMAIN cd, m.headId \in DOMAIN dd, dd[m.headId] = cd[m.headId],
         Len(cd[m.headId]) = m.headBytes + Len(b.data),
         \A k \in 1..Len(b.data) : cd[m.headId][m.headBytes + k] = b.data[k]
  PROVE  LET y == x \o b.index
         IN  /\ Solid(t, y, dd, cd, h) /\ EndOf(y, m.headId) = m.headBytes + Len(b.data)
             /\ y[Len(y)].file <= m.headId /\ m.headId <= y[Len(y)].file + 1
             /\ Len(y) <= 1 => m.headId = y[1].file
<1> DEFINE y == x \o b.index
<1> DEFINE f == m.headId
<1>0. b.index \in Seq(Position) /\ m.items \in Nat /\ m.headBytes \in Nat /\ f \in Nat
      /\ b.curItem \in Nat /\ b.data \in Seq(Payload) /\ Len(b.data) \in Nat /\ Len(b.index) \in Nat
      /\ Len(x) \in Nat \ {0}
  BY DEF Batch, Memory
<1>1. /\ y \in Seq(Position) /\ Len(y) = Len(x) + Len(b.index) /\ y[1] = x[1]
      /\ IsPfx(x, y) /\ Stored(y) = b.curItem
      /\ \A j \in 1..Len(b.index) :
            /\ y[Len(x) + j] = b.index[j] /\ b.index[j] \in Position
            /\ Start(y, Len(x) + j) = From(m, b, j) /\ From(m, b, j) \in Nat
            /\ Num(y, Len(x) + j) + 1 = m.items + j
  BY GrowEntries
<1> HIDE DEF y
<1>2. \A i \in 2..Len(x) : i \in 2..Len(y) /\ x[i] = y[i] /\ Num(x, i) = Num(y, i) /\ Start(x, i) = Start(y, i)
  BY <1>1, PfxEntries
<1>3. \A i \in 1..Len(x) : y[i] = x[i]
  BY <1>1 DEF IsPfx
<1>4. Formed(t, x, h)
  BY DEF Solid
<1>5. \A i \in 1..Len(x) : x[i].file <= x[Len(x)].file /\ x[i] \in Position
  <2> SUFFICES ASSUME NEW i \in 1..Len(x) PROVE x[i].file <= x[Len(x)].file /\ x[i] \in Position
    OBVIOUS
  <2>1. x[i] \in Position /\ x[Len(x)] \in Position
    BY <1>0
  <2>2. CASE i = Len(x)
    BY <2>1, <2>2 DEF Position
  <2>3. CASE i < Len(x)
    BY <1>0, <1>4, <2>1, <2>3 DEF Formed, Shape
  <2> QED BY <2>2, <2>3
<1>12. \A i \in 1..Len(x) : x[i].file \in Nat /\ x[i].off \in Nat
  BY <1>5 DEF Position
<1>13. x[Len(x)].file \in Nat /\ x[Len(x)].off \in Nat /\ x[1].file \in Nat
  BY <1>0, <1>12
\* An entry is an old one or one of the batch.
<1>6. \A i \in 1..Len(y) : i \in 1..Len(x) \/ \E j \in 1..Len(b.index) : i = Len(x) + j
  <2> SUFFICES ASSUME NEW i \in 1..Len(y), i \notin 1..Len(x)
               PROVE  \E j \in 1..Len(b.index) : i = Len(x) + j
    OBVIOUS
  <2>1. i - Len(x) \in 1..Len(b.index) /\ i = Len(x) + (i - Len(x))
    BY <1>0, <1>1
  <2> QED BY <2>1
<1>7. \A j \in 1..Len(b.index) : y[Len(x) + j].file = f /\ y[Len(x) + j] = b.index[j] /\ b.index[j] \in Position
  BY <1>1 DEF Buffered
<1>8. Shape(y)
  <2>1. ASSUME NEW i \in 1..Len(y), NEW j \in 1..Len(y), i < j PROVE y[i].file <= y[j].file
    <3>1. CASE j \in 1..Len(x)
      <4>1. i \in 1..Len(x) /\ y[i] = x[i] /\ y[j] = x[j]
        BY SMTT(30), <1>0, <1>3, <2>1, <3>1
      <4> QED BY <1>4, <2>1, <3>1, <4>1 DEF Formed, Shape
    <3>2. CASE j \notin 1..Len(x)
      <4>1. y[j].file = f
        BY <1>6, <1>7, <3>2
      <4>2. CASE i \in 1..Len(x)
        <5>1. y[i].file <= x[Len(x)].file /\ y[i].file \in Nat /\ x[Len(x)].file \in Nat
          BY <1>3, <1>5, <1>12, <1>13, <4>2
        <5> QED BY SMTT(30), <1>0, <4>1, <5>1
      <4>3. CASE i \notin 1..Len(x)
        <5>1. y[i].file = f
          BY ZenonT(40), <1>6, <1>7, <4>3
        <5> QED BY <1>0, <4>1, <5>1
      <4> QED BY <4>2, <4>3
    <3> QED BY <3>1, <3>2
  <2>2. ASSUME NEW i \in 2..Len(y), NEW j \in 2..Len(y), i < j, y[i].file = y[j].file
        PROVE  y[i].off < y[j].off
    <3>1. CASE j \in 1..Len(x)
      <4>1. i \in 2..Len(x) /\ j \in 2..Len(x) /\ y[i] = x[i] /\ y[j] = x[j]
        BY <1>0, <1>3, <2>2, <3>1
      <4> QED BY <1>4, <2>2, <3>1, <4>1 DEF Formed, Shape
    <3>2. CASE j \notin 1..Len(x)
      <4>0. j \in 1..Len(y) /\ i \in 1..Len(y)
        BY <1>1
      <4>1. PICK k \in 1..Len(b.index) : j = Len(x) + k
        BY <1>6, <3>2, <4>0
      <4>2. CASE i \in 1..Len(x)
        <5>1. y[i] = x[i] /\ x[i].file = f
          BY <1>3, <1>7, <2>2, <4>1, <4>2
        <5>2. x[Len(x)].file = f
          BY SMTT(30), <1>0, <1>5, <1>13, <4>2, <5>1
        <5>3. x[i].off <= x[Len(x)].off
          <6>1. CASE i = Len(x)
            BY <1>13, <6>1
          <6>2. CASE i < Len(x)
            <7>1. i \in 2..Len(x) /\ Len(x) \in 2..Len(x)
              BY <1>0, <4>2, <6>2
            <7>2. x[i].off < x[Len(x)].off
              BY <1>4, <5>1, <5>2, <6>2, <7>1 DEF Formed, Shape
            <7>3. x[i].off \in Nat /\ x[Len(x)].off \in Nat
              BY <1>12, <1>13, <4>2
            <7> QED BY <7>2, <7>3
          <6> QED BY <1>0, <4>2, <6>1, <6>2
        <5>4. m.headBytes = x[Len(x)].off
          <6>1. Len(x) > 1
            BY <4>2, <1>0
          <6> QED BY <5>2, <6>1 DEF EndOf
        <5>5. m.headBytes <= From(m, b, k) /\ From(m, b, k) \in Nat /\ y[j].off = b.index[k].off
          BY <1>1, <4>1 DEF Buffered
        <5>6. From(m, b, k) < b.index[k].off
          <6>1. b.index[k].off = From(m, b, k) + Size[t][h[m.items + k]]
            BY DEF Buffered
          <6>2. m.items + k \in 1..Len(h)
            <7>1. b.curItem = m.items + Len(b.index) /\ b.curItem <= Len(h)
              BY DEF Buffered
            <7>2. m.items \in Nat /\ Len(b.index) \in Nat
              BY <1>0
            <7>3. m.items + k <= Len(h)
              BY <7>1, <7>2
            <7> QED BY <7>2, <7>3
          <6>3. Size[t][h[m.items + k]] \in 1..MaxFileSize /\ MaxFileSize \in Nat
            BY SMTT(30), <6>2, FreezerAssumption
          <6> QED BY SMTT(30), <5>5, <6>1, <6>3
        <5>7. x[i].off \in Nat /\ b.index[k].off \in Nat
          BY <1>7, <1>12, <4>2 DEF Position
        <5>8. m.headBytes \in Nat
          BY <1>0
        <5>9. x[i].off <= m.headBytes
          BY <5>3, <5>4
        <5>10. m.headBytes < b.index[k].off
          BY <5>5, <5>6, <5>7, <5>8
        <5>11. x[i].off < b.index[k].off
          BY SMTT(30), <5>7, <5>8, <5>9, <5>10
        <5> QED BY <5>1, <5>5, <5>11
      <4>3. CASE i \notin 1..Len(x)
        <5>1. PICK l \in 1..Len(b.index) : i = Len(x) + l
          BY <1>6, <4>0, <4>3
        <5>2. l < k
          BY <1>0, <2>2, <4>1, <5>1
        <5> QED BY <1>7, <4>1, <5>1, <5>2 DEF Buffered
      <4> QED BY <4>2, <4>3
    <3> QED BY <3>1, <3>2
  <2>3. ASSUME NEW j \in 2..Len(y), NEW g \in y[1].file..y[j].file
        PROVE  \E i \in 2..j : y[i].file = g
    <3>1. CASE j \in 1..Len(x)
      <4>1. j \in 2..Len(x) /\ g \in x[1].file..x[j].file
        BY <1>1, <1>3, <2>3, <3>1
      <4>2. PICK i \in 2..j : x[i].file = g
        BY <1>4, <4>1 DEF Formed, Shape
      <4>3. i \in 1..Len(x)
        BY <1>0, <4>1
      <4> QED BY <1>3, <4>2, <4>3
    <3>2. CASE j \notin 1..Len(x)
      <4>0. j \in 1..Len(y)
        BY <1>1
      <4>1. y[j].file = f
        BY <1>6, <1>7, <3>2, <4>0
      <4>2. CASE g = f
        BY <4>1, <4>2
      <4>3. CASE g # f /\ Len(x) <= 1
        BY <1>0, <1>1, <4>1, <4>3
      <4>4. CASE g # f /\ Len(x) > 1
        <5>0. g \in x[1].file..f
          BY <1>1, <2>3, <4>1
        <5>4. x[Len(x)].file \in Nat /\ x[1].file \in Nat /\ f \in Nat
          BY <1>0, <1>13
        <5>6. g <= x[Len(x)].file
          BY <4>4, <5>0, <5>4
        <5>1. g \in x[1].file..x[Len(x)].file /\ Len(x) \in 2..Len(x)
          BY <4>4, <5>0, <5>4, <5>6
        <5>2. PICK i \in 2..Len(x) : x[i].file = g
          BY <1>4, <5>1 DEF Formed, Shape
        <5>3. i \in 2..j
          BY <1>0, <3>2
        <5> QED BY <1>3, <5>2, <5>3
      <4> QED BY <4>2, <4>3, <4>4
    <3> QED BY <3>1, <3>2
  <2> QED BY <2>1, <2>2, <2>3 DEF Shape
<1>9. Formed(t, y, h)
  <2>1. Stored(y) <= Len(h)
    BY <1>1 DEF Buffered
  <2>2. ASSUME NEW i \in 2..Len(y)
        PROVE  y[i].off = Start(y, i) + Size[t][h[Num(y, i) + 1]]
    <3>1. CASE i \in 1..Len(x)
      <4>1. i \in 2..Len(x)
        BY <3>1
      <4> QED BY <1>2, <1>4, <4>1 DEF Formed
    <3>2. CASE i \notin 1..Len(x)
      <4>1. PICK k \in 1..Len(b.index) : i = Len(x) + k
        BY <1>1, <1>6, <3>2
      <4> QED BY <1>1, <4>1 DEF Buffered
    <3> QED BY <3>1, <3>2
  <2> QED BY <1>8, <2>1, <2>2 DEF Formed
<1>10. Solid(t, y, dd, cd, h)
  <2> SUFFICES ASSUME NEW i \in 2..Len(y)
               PROVE  /\ y[i].file \in DOMAIN dd /\ y[i].file \in DOMAIN cd
                      /\ Full(y, i, dd[y[i].file], cd[y[i].file], h)
    BY <1>9 DEF Solid
  <2>1. CASE i \in 1..Len(x)
    <3>1. i \in 2..Len(x)
      BY <2>1
    <3>2. x[i] = y[i] /\ Num(x, i) = Num(y, i) /\ Start(x, i) = Start(y, i)
      BY <1>2, <3>1
    <3> QED BY SMTT(30), <3>1, <3>2 DEF Solid, Full, Written
  <2>2. CASE i \notin 1..Len(x)
    <3>1. PICK k \in 1..Len(b.index) : i = Len(x) + k
      BY <1>1, <1>6, <2>2
    <3>2. /\ y[i] = b.index[k] /\ y[i].file = f /\ y[i].off \in Nat
          /\ Start(y, i) = From(m, b, k) /\ From(m, b, k) \in Nat /\ Num(y, i) + 1 = m.items + k
      BY <1>1, <1>7, <3>1 DEF Position
    <3>3. /\ y[i].off <= m.headBytes + Len(b.data) /\ m.headBytes <= From(m, b, k)
          /\ \A l \in From(m, b, k) + 1 .. y[i].off : b.data[l - m.headBytes] = h[m.items + k]
      BY <3>2 DEF Buffered
    <3>4. Written(y, i, cd[f], h)
      <4> SUFFICES ASSUME NEW l \in From(m, b, k) + 1 .. y[i].off PROVE cd[f][l] = h[m.items + k]
        BY <3>2 DEF Written
      <4>0. y[i].off <= m.headBytes + Len(b.data) /\ m.headBytes <= From(m, b, k)
            /\ y[i].off \in Nat /\ From(m, b, k) \in Nat
        BY <3>2, <3>3
      <4>1. l - m.headBytes \in 1..Len(b.data) /\ m.headBytes + (l - m.headBytes) = l
        <5>1. m.headBytes \in Nat /\ Len(b.data) \in Nat
          BY <1>0
        <5>2. l \in Int /\ From(m, b, k) + 1 <= l /\ l <= y[i].off
          BY <4>0
        <5>3. m.headBytes + 1 <= l /\ l <= m.headBytes + Len(b.data)
          BY ONLY SMTT(30), <4>0, <5>1, <5>2
        <5> QED BY ONLY SMTT(30), <5>1, <5>2, <5>3
      <4>2. cd[f][m.headBytes + (l - m.headBytes)] = b.data[l - m.headBytes]
        BY <4>1
      <4> QED BY <3>3, <4>1, <4>2
    <3> QED BY <3>2, <3>3, <3>4 DEF Full
  <2> QED BY <2>1, <2>2
<1>11. /\ EndOf(y, f) = m.headBytes + Len(b.data)
       /\ y[Len(y)].file <= f /\ f <= y[Len(y)].file + 1
       /\ Len(y) <= 1 => f = y[1].file
  <2>1. CASE b.index = <<>>
    <3>1. Len(b.index) = 0 /\ Len(b.data) = 0
      BY <2>1 DEF Buffered
    <3>2. Len(y) = Len(x) /\ y[Len(y)] = x[Len(x)]
      BY <1>0, <1>1, <1>3, <3>1
    <3> QED BY <1>0, <1>1, <3>1, <3>2 DEF EndOf
  <2>2. CASE b.index # <<>>
    <3>1. Len(b.index) \in 1..Len(b.index)
      BY <1>0, <2>2
    <3>2. y[Len(y)] = b.index[Len(b.index)] /\ y[Len(y)].file = f /\ Len(y) > 1 /\ y[Len(y)].off \in Nat
      <4>1. Len(y) = Len(x) + Len(b.index) /\ b.index[Len(b.index)] \in Position
            /\ y[Len(x) + Len(b.index)] = b.index[Len(b.index)] /\ b.index[Len(b.index)].file = f
        BY <1>1, <1>7, <3>1
      <4>2. Len(y) > 1
        BY <1>0, <3>1, <4>1
      <4>3. b.index[Len(b.index)].off \in Nat
        BY <4>1 DEF Position
      <4> QED BY <4>1, <4>2, <4>3
    <3>3. Len(b.data) = y[Len(y)].off - m.headBytes
      BY <2>2, <3>2 DEF Buffered
    <3>4. EndOf(y, f) = y[Len(y)].off
      BY <3>2 DEF EndOf
    <3>5. Len(b.data) \in Nat /\ m.headBytes \in Nat /\ f \in Nat
      BY <1>0
    <3>6. EndOf(y, f) = m.headBytes + Len(b.data)
      BY ONLY <3>2, <3>3, <3>4, <3>5
    <3> QED BY ONLY <3>2, <3>5, <3>6
  <2> QED BY <2>1, <2>2
<1> QED BY <1>10, <1>11 DEF y

-----------------------------------------------------------------------------
(* A new tail                                                              *)

\* The index that starts with entry e and goes on behind entry q + 1 of x.
LEMMA TailEntries ==
  ASSUME NEW x \in Seq(Position), NEW q \in Nat, q < Len(x), NEW e \in Position
  PROVE  LET y == <<e>> \o SubSeq(x, q + 2, Len(x))
         IN  /\ y \in Seq(Position) /\ Len(y) = Len(x) - q /\ y[1] = e
             /\ \A i \in 2..Len(x) - q : y[i] = x[i + q]
<1> DEFINE z == SubSeq(x, q + 2, Len(x))
<1>0. Len(x) \in Nat
  OBVIOUS
<1>1. /\ z \in Seq(Position) /\ Len(z) = Len(x) - q - 1
      /\ \A i \in 1..Len(x) - q - 1 : z[i] = x[i + q + 1]
  <2>1. CASE q + 2 <= Len(x)
    BY <1>0, <2>1
  <2>2. CASE q + 2 > Len(x)
    <3>1. q + 1 = Len(x)
      BY <1>0, <2>2
    <3>2. z = <<>>
      BY <1>0, <2>2
    <3> QED BY <1>0, <3>1, <3>2
  <2> QED BY <1>0, <2>1, <2>2
<1> HIDE DEF z
<1>2. <<e>> \in Seq(Position) /\ Len(<<e>>) = 1 /\ <<e>>[1] = e
  OBVIOUS
<1> DEFINE y == <<e>> \o z
<1>3. /\ y \in Seq(Position) /\ Len(y) = 1 + Len(z) /\ y[1] = e
      /\ \A i \in 1..Len(z) : y[1 + i] = z[i]
  BY <1>1, <1>2
<1> HIDE DEF y
<1>4. Len(y) = Len(x) - q
  BY <1>0, <1>1, <1>3
<1>5. ASSUME NEW i \in 2..Len(x) - q PROVE y[i] = x[i + q]
  <2>1. i - 1 \in 1..Len(x) - q - 1 /\ i = 1 + (i - 1) /\ (i - 1) + q + 1 = i + q
    BY <1>0
  <2>2. i - 1 \in 1..Len(z)
    BY <1>0, <1>1, <2>1
  <2>3. y[1 + (i - 1)] = z[i - 1] /\ z[i - 1] = x[(i - 1) + q + 1]
    BY <1>1, <1>3, <2>1, <2>2
  <2> QED BY <2>1, <2>3
<1> QED BY <1>3, <1>4, <1>5 DEF y, z

\* An index from which the first items are gone still fits the data, if its
\* first entry names the file of the first item that is left and that item
\* is the first one in its file.
LEMMA MoveTail ==
  ASSUME NEW t \in Table, NEW x \in Seq(Position), NEW h \in Seq(Payload), NEW dd, NEW cd,
         Solid(t, x, dd, cd, h), NEW y \in Seq(Position), NEW q \in Nat, NEW n \in Nat, n > 0,
         Len(x) = n + q, Len(y) = n, y[1].off = x[1].off + q,
         \A i \in 2..n : y[i] = x[i + q],
         2 <= n => x[q + 2].file = y[1].file /\ (q = 0 \/ x[q + 1].file # x[q + 2].file)
  PROVE  Solid(t, y, dd, cd, h) /\ Stored(y) = Stored(x)
<1>1. Formed(t, x, h)
  BY DEF Solid
<1>2. x # <<>> /\ y # <<>> /\ x[1] \in Position /\ y[1] \in Position
  OBVIOUS
<1>3. x[1].off \in Nat /\ x[1].file \in Nat /\ y[1].file \in Nat
  BY <1>2 DEF Position
<1>4. Stored(y) = Stored(x)
  <2>1. Stored(x) = x[1].off + (n + q) - 1
    BY <1>2 DEF Stored
  <2>2. Stored(y) = (x[1].off + q) + n - 1
    BY <1>2 DEF Stored
  <2> QED BY <1>3, <2>1, <2>2
<1>5. ASSUME NEW i \in 2..n
      PROVE  /\ i + q \in 2..Len(x) /\ y[i] = x[i + q] /\ x[i + q] \in Position
             /\ Num(y, i) = Num(x, i + q) /\ Start(y, i) = Start(x, i + q)
  <2>1. i + q \in 2..Len(x) /\ y[i] = x[i + q]
    OBVIOUS
  <2>2. Num(y, i) = Num(x, i + q)
    <3>1. Num(y, i) = (x[1].off + q) + i - 2 /\ Num(x, i + q) = x[1].off + (i + q) - 2
      BY DEF Num
    <3> QED BY <1>3, <3>1
  <2>3. Start(y, i) = Start(x, i + q)
    <3>1. CASE i = 2
      <4>1. Start(y, i) = 0
        BY <3>1 DEF Start
      <4>2. q = 0 \/ x[q + 1].file # x[q + 2].file
        BY <3>1
      <4>3. i + q = q + 2 /\ (i + q) - 1 = q + 1 /\ (q = 0 => i + q = 2)
        BY <3>1
      <4>4. Start(x, i + q) = 0
        BY <4>2, <4>3 DEF Start
      <4> QED BY <4>1, <4>4
    <3>2. CASE i # 2
      <4>1. i - 1 \in 2..n /\ (i - 1) + q = (i + q) - 1 /\ i + q # 2
        BY <3>2
      <4>2. y[i - 1] = x[(i + q) - 1]
        BY <4>1
      <4> QED BY <2>1, <3>2, <4>1, <4>2 DEF Start
    <3> QED BY <3>1, <3>2
  <2>4. x[i + q] \in Position
    BY <2>1
  <2> QED BY <2>1, <2>2, <2>3, <2>4
<1>6. Shape(y)
  <2>1. ASSUME NEW i \in 1..Len(y), NEW j \in 1..Len(y), i < j PROVE y[i].file <= y[j].file
    <3>1. j \in 2..n /\ j + q \in 2..Len(x) /\ y[j] = x[j + q] /\ x[j + q] \in Position
      BY <1>5, <2>1
    <3>2. CASE i = 1
      <4>1. y[1].file = x[q + 2].file
        BY <3>1
      <4>2. CASE j = 2
        <5>1. x[j + q].file = y[1].file
          BY <4>1, <4>2
        <5> QED BY <1>3, <3>1, <3>2, <5>1
      <4>3. CASE j > 2
        <5>1. q + 2 \in 1..Len(x) /\ j + q \in 1..Len(x) /\ q + 2 < j + q
          BY <3>1, <4>3
        <5>2. x[q + 2].file <= x[j + q].file
          BY <1>1, <5>1 DEF Formed, Shape
        <5> QED BY <3>1, <3>2, <4>1, <5>2
      <4> QED BY <3>1, <4>2, <4>3
    <3>3. CASE i # 1
      <4>1. i \in 2..n
        BY <3>3
      <4>2. i + q \in 1..Len(x) /\ j + q \in 1..Len(x) /\ i + q < j + q /\ y[i] = x[i + q]
        BY <2>1, <3>1, <4>1
      <4> QED BY <1>1, <3>1, <4>2 DEF Formed, Shape
    <3> QED BY <3>2, <3>3
  <2>2. ASSUME NEW i \in 2..Len(y), NEW j \in 2..Len(y), i < j, y[i].file = y[j].file
        PROVE  y[i].off < y[j].off
    <3>1. i + q \in 2..Len(x) /\ j + q \in 2..Len(x) /\ i + q < j + q /\ y[i] = x[i + q] /\ y[j] = x[j + q]
      BY <1>5, <2>2
    <3> QED BY <1>1, <2>2, <3>1 DEF Formed, Shape
  <2>3. ASSUME NEW j \in 2..Len(y), NEW g \in y[1].file..y[j].file
        PROVE  \E i \in 2..j : y[i].file = g
    <3>1. j + q \in 2..Len(x) /\ y[j] = x[j + q] /\ q + 2 \in 2..Len(x) /\ y[2] = x[q + 2] /\ j \in 2..n
      BY <1>5
    <3>2. y[2].file = y[1].file /\ x[q + 2].file = y[1].file
      BY <3>1
    <3>3. CASE g = y[1].file
      BY <3>2, <3>3
    <3>4. CASE g # y[1].file
      <4>0. x[1].file <= x[q + 2].file
        BY <1>1, <3>1, Entries
      <4>1. g \in x[1].file..x[j + q].file
        BY <1>3, <3>1, <3>2, <4>0
      <4>2. PICK k \in 2..j + q : x[k].file = g
        BY <1>1, <3>1, <4>1 DEF Formed, Shape
      <4>3. ~(k < q + 2)
        <5> SUFFICES ASSUME k < q + 2 PROVE FALSE
          OBVIOUS
        <5>1. k \in 1..Len(x) /\ q + 2 \in 1..Len(x)
          BY <3>1
        <5>2. x[k].file <= x[q + 2].file
          BY <1>1, <5>1 DEF Formed, Shape
        <5> QED BY <1>3, <3>2, <3>4, <4>2, <5>2
      <4>4. k # q + 2
        BY <3>2, <3>4, <4>2
      <4>5. k - q \in 2..j /\ (k - q) + q = k /\ k - q \in 2..n
        BY <3>1, <4>3, <4>4
      <4>6. y[k - q] = x[k]
        BY <4>5
      <4> QED BY <4>2, <4>5, <4>6
    <3> QED BY <3>3, <3>4
  <2> QED BY <2>1, <2>2, <2>3 DEF Shape
<1>7. Formed(t, y, h)
  <2>1. Stored(y) <= Len(h)
    BY <1>1, <1>4 DEF Formed
  <2>2. ASSUME NEW i \in 2..Len(y)
        PROVE  y[i].off = Start(y, i) + Size[t][h[Num(y, i) + 1]]
    <3>1. i \in 2..n
      OBVIOUS
    <3> QED BY <1>1, <1>5, <3>1 DEF Formed
  <2> QED BY <1>6, <2>1, <2>2 DEF Formed
<1>8. ASSUME NEW i \in 2..Len(y)
      PROVE  /\ y[i].file \in DOMAIN dd /\ y[i].file \in DOMAIN cd
             /\ Full(y, i, dd[y[i].file], cd[y[i].file], h)
  <2>1. i \in 2..n
    OBVIOUS
  <2>2. /\ i + q \in 2..Len(x) /\ y[i] = x[i + q]
        /\ Num(y, i) = Num(x, i + q) /\ Start(y, i) = Start(x, i + q)
    BY <1>5, <2>1
  <2>3. /\ x[i + q].file \in DOMAIN dd /\ x[i + q].file \in DOMAIN cd
        /\ Full(x, i + q, dd[x[i + q].file], cd[x[i + q].file], h)
    BY <2>2 DEF Solid
  <2> QED BY <2>2, <2>3 DEF Full, Written
<1> QED BY <1>4, <1>7, <1>8 DEF Solid

-----------------------------------------------------------------------------
(* The steps of one open table                                             *)

\* The fields of files, counters and batches.
LEMMA Fields ==
  /\ \A c \in Files : c.index \in Seq(Position) /\ c.meta \in Nat /\ c.data \in Data
  /\ \A m \in Memory : /\ m.items \in Nat /\ m.itemOffset \in Nat /\ m.itemHidden \in Nat
                       /\ m.headId \in Nat /\ m.tailId \in Nat /\ m.headBytes \in Nat
                       /\ m.files \subseteq Nat
  /\ \A b \in Batch : b.data \in Seq(Payload) /\ b.index \in Seq(Position) /\ b.curItem \in Nat
  BY DEF Files, Memory, Batch

\* A table in no step has as many items as its counters say, on disk too.
LEMMA OpenFacts ==
  ASSUME NEW t, NEW d, NEW c, NEW m \in Memory, NEW h, NEW s, NEW a, OpenOK(t, d, c, m, h, "none", s, a)
  PROVE  /\ d.index = c.index /\ c.index # <<>> /\ Stored(c.index) = m.items
         /\ m.tailId = c.index[1].file /\ m.itemOffset = c.index[1].off
         /\ m.headId \in DOMAIN c.data /\ Len(c.data[m.headId]) = m.headBytes
         /\ m.headBytes = EndOf(c.index, m.headId)
         /\ m.itemHidden = c.meta /\ m.itemOffset <= m.itemHidden
<1>1. m.tailId <= m.headId /\ m.files = m.tailId .. m.headId /\ m.files \subseteq DOMAIN c.data
  BY DEF OpenOK, Counted
<1>2. m.headId \in m.tailId .. m.headId
  BY <1>1, Fields
<1> QED BY <1>1, <1>2 DEF OpenOK, Counted

\* An operation starts: what it must not lose is there.
LEMMA OpenFloors ==
  ASSUME NEW t, NEW d \in Files, NEW c \in Files, NEW m \in Memory, NEW h, NEW s \in Nat, NEW a \in Nat,
         OpenOK(t, d, c, m, h, "none", s, a),
         NEW sn \in Nat, NEW an \in Nat, sn <= m.items, a <= an, an <= m.items
  PROVE  OpenOK(t, d, c, m, h, "none", sn, an)
<1>1. d.index = c.index /\ Stored(c.index) = m.items
  BY OpenFacts
<1>2. FilesAgree(d, c, s, a)
  BY DEF OpenOK
<1>3. Covered(d.index, d.meta, c.meta, sn, an) /\ Covered(c.index, d.meta, c.meta, sn, an)
  BY <1>1, <1>2 DEF FilesAgree, Covered
<1>4. d.meta <= an /\ c.meta <= an
  <2>1. d.meta <= a /\ c.meta <= a /\ d.meta \in Nat /\ c.meta \in Nat
    BY <1>2, Fields DEF FilesAgree
  <2> QED BY <2>1
<1>5. FilesAgree(d, c, sn, an)
  BY <1>2, <1>3, <1>4 DEF FilesAgree
<1> QED BY <1>5 DEF OpenOK

\* Items that are not stored are appended to the history or forgotten.
LEMMA OpenHist ==
  ASSUME NEW t \in Table, NEW d \in Files, NEW c \in Files, NEW m \in Memory, NEW h \in Seq(Payload),
         NEW s, NEW a, OpenOK(t, d, c, m, h, "none", s, a),
         NEW hn \in Seq(Payload), m.items <= Len(hn), \A n \in 1..m.items : hn[n] = h[n]
  PROVE  OpenOK(t, d, c, m, hn, "none", s, a)
<1>1. d.index = c.index /\ Stored(c.index) = m.items /\ c.index \in Seq(Position)
  BY OpenFacts, Fields
<1>2. Solid(t, c.index, d.data, c.data, h)
  BY DEF OpenOK
<1>3. Solid(t, c.index, d.data, c.data, hn)
  BY <1>1, <1>2, SolidHist
<1> QED BY <1>1, <1>3 DEF OpenOK

\* The files of a table are synced.
LEMMA OpenSync ==
  ASSUME NEW t \in Table, NEW d \in Files, NEW c \in Files, NEW m \in Memory, NEW h \in Seq(Payload),
         NEW s, NEW a, OpenOK(t, d, c, m, h, "none", s, a),
         NEW dn, dn.index = c.index, dn.meta = c.meta, dn.data = Synced(d.data, c.data, m.headId)
  PROVE  dn.data \in Data /\ OpenOK(t, dn, c, m, h, "none", s, a)
<1>1. /\ d.index = c.index /\ m.headId \in DOMAIN c.data /\ c.index \in Seq(Position)
      /\ d.data \in Data /\ c.data \in Data
  BY OpenFacts, Fields
<1>2. Solid(t, c.index, d.data, c.data, h)
  BY DEF OpenOK
<1>3. dn.data \in Data /\ Solid(t, c.index, dn.data, c.data, h)
  BY <1>1, <1>2, SyncData
<1>4. FilesAgree(dn, c, s, a)
  BY <1>1 DEF OpenOK, FilesAgree, Covered, Comparable
<1>5. Counted(dn.index, c.index, c.data, m, "none")
  BY <1>1 DEF OpenOK
<1> QED BY <1>3, <1>4, <1>5 DEF OpenOK

\* The data of a batch is written.
LEMMA OpenWriteData ==
  ASSUME NEW t \in Table, NEW d \in Files, NEW c \in Files, NEW m \in Memory, NEW h \in Seq(Payload),
         NEW s, NEW a, OpenOK(t, d, c, m, h, "none", s, a), NEW z \in Seq(Payload),
         NEW cn, cn.index = c.index, cn.meta = c.meta,
         Changed(c.data, cn.data, m.headId, c.data[m.headId] \o z)
  PROVE  /\ cn.data \in Data /\ OpenOK(t, d, cn, m, h, "index", s, a)
         /\ Len(cn.data[m.headId]) = m.headBytes + Len(z)
         /\ \A k \in 1..Len(z) : cn.data[m.headId][m.headBytes + k] = z[k]
<1> DEFINE x == c.index
<1> DEFINE dd == d.data
<1> DEFINE cd == c.data
<1> DEFINE cx == cn.data
<1> DEFINE f == m.headId
<1>1. /\ d.index = x /\ f \in DOMAIN cd /\ x \in Seq(Position)
      /\ dd \in Data /\ cd \in Data /\ Len(cd[f]) = m.headBytes
  BY OpenFacts, Fields
<1>2. Solid(t, x, dd, cd, h)
  BY DEF OpenOK
<1>7. Changed(cd, cx, f, cd[f] \o z)
  OBVIOUS
<1> HIDE DEF x, dd, cd, cx, f
<1>3. /\ cx \in Data /\ DOMAIN cx = DOMAIN cd
      /\ Len(cx[f]) = Len(cd[f]) + Len(z)
      /\ \A k \in 1..Len(z) : cx[f][Len(cd[f]) + k] = z[k]
      /\ Solid(t, x, dd, cx, h)
  <2>1. cx \in Data /\ DOMAIN cx = DOMAIN cd
    BY <1>1, <1>7, AppendData
  <2>2. Len(cx[f]) = Len(cd[f]) + Len(z)
    BY <1>1, <1>7, AppendData
  <2>3. \A k \in 1..Len(z) : cx[f][Len(cd[f]) + k] = z[k]
    BY SMTT(30), <1>1, <1>7, AppendData
  <2>4. Solid(t, x, dd, cx, h)
    BY <1>1, <1>2, <1>7, AppendData
  <2> QED BY <2>1, <2>2, <2>3, <2>4
<1> USE DEF x, dd, cd, cx, f
<1>4. FilesAgree(d, cn, s, a)
  BY DEF OpenOK, FilesAgree
<1>5. Counted(d.index, c.index, cn.data, m, "index")
  <2>1. Counted(d.index, c.index, c.data, m, "none")
    BY DEF OpenOK
  <2> QED BY <1>3, <2>1 DEF Counted
<1>6. OpenOK(t, d, cn, m, h, "index", s, a)
  BY <1>1, <1>3, <1>4, <1>5 DEF OpenOK
<1> QED BY <1>1, <1>3, <1>6

\* The data of a batch is at the end of the head file, and its entries are at
\* the end of index x.
Landed(cd, m, b) ==
    /\ Len(cd[m.headId]) = m.headBytes + Len(b.data)
    /\ \A k \in 1 .. Len(b.data) : cd[m.headId][m.headBytes + k] = b.data[k]
Indexed(x, m, b) == m.headBytes + Len(b.data) = EndOf(x, m.headId) /\ Stored(x) = b.curItem
IndexedOK(t, d, c, m, b, h, s, a) == OpenOK(t, d, c, m, h, "count", s, a) /\ Indexed(c.index, m, b)

\* The head file is synced and the index entries of a batch are written.
LEMMA OpenWriteIndex ==
  ASSUME NEW t \in Table, NEW d \in Files, NEW c \in Files, NEW m \in Memory, NEW h \in Seq(Payload),
         NEW s \in Nat, NEW a \in Nat, OpenOK(t, d, c, m, h, "index", s, a),
         NEW b \in Batch, Buffered(t, m, b, h),
         Landed(c.data, m, b),
         NEW dn, dn.index = d.index, dn.meta = d.meta, dn.data = Synced(d.data, c.data, m.headId),
         NEW cn, cn.index = c.index \o b.index, cn.meta = c.meta, cn.data = c.data
  PROVE  IndexedOK(t, dn, cn, m, b, h, s, a)
<1> DEFINE x == c.index
<1> DEFINE cd == c.data
<1> DEFINE dd == dn.data
<1> DEFINE y == cn.index
<1> DEFINE f == m.headId
<1>0. d.data \in Data /\ cd \in Data /\ x \in Seq(Position) /\ b.index \in Seq(Position)
      /\ b.data \in Seq(Payload) /\ f \in Nat /\ m.tailId \in Nat /\ m.headBytes \in Nat
      /\ m.items \in Nat /\ b.curItem \in Nat /\ Len(b.data) \in Nat /\ Len(b.index) \in Nat
  BY Fields
<1>1. /\ d.index = x /\ x # <<>> /\ Solid(t, x, d.data, cd, h)
      /\ m.tailId = x[1].file /\ m.itemOffset = x[1].off
      /\ m.files = m.tailId .. f /\ m.files \subseteq DOMAIN cd /\ m.tailId <= f
      /\ x[Len(x)].file <= f /\ (Len(x) <= 1 => f = x[1].file) /\ f <= x[Len(x)].file + 1
      /\ m.headBytes = EndOf(x, f) /\ Stored(x) = m.items
      /\ m.itemOffset <= m.itemHidden /\ m.itemHidden = c.meta
  BY DEF OpenOK, Counted
<1>2. f \in DOMAIN cd
  <2>1. f \in m.tailId .. f
    BY <1>0, <1>1
  <2> QED BY <1>1, <2>1
<1>3. dd \in Data /\ Solid(t, x, dd, cd, h)
  BY <1>0, <1>1, <1>2, SyncData
<1>4. f \in DOMAIN dd /\ dd[f] = cd[f]
  BY DEF Synced
<1>5. Len(cd[f]) = m.headBytes + Len(b.data) /\ \A k \in 1..Len(b.data) : cd[f][m.headBytes + k] = b.data[k]
  BY DEF Landed
<1>6. y = x \o b.index
  OBVIOUS
<1>7. FilesAgree(d, c, s, a)
  BY DEF OpenOK
<1> HIDE DEF x, cd, dd, y, f
<1>8. /\ y \in Seq(Position) /\ y[1] = x[1] /\ IsPfx(x, y) /\ Stored(y) = b.curItem
  BY <1>0, <1>1, <1>6, GrowEntries DEF f
<1>9. /\ Solid(t, y, dd, cd, h) /\ EndOf(y, f) = m.headBytes + Len(b.data)
      /\ y[Len(y)].file <= f /\ f <= y[Len(y)].file + 1
      /\ Len(y) <= 1 => f = y[1].file
  <2>1. /\ f = m.headId /\ m.headBytes = EndOf(x, m.headId) /\ Stored(x) = m.items
        /\ (Len(x) <= 1 => m.headId = x[1].file) /\ x[Len(x)].file <= m.headId
        /\ m.headId <= x[Len(x)].file + 1 /\ m.headId \in DOMAIN cd /\ m.headId \in DOMAIN dd
        /\ dd[m.headId] = cd[m.headId] /\ Len(cd[m.headId]) = m.headBytes + Len(b.data)
        /\ \A k \in 1..Len(b.data) : cd[m.headId][m.headBytes + k] = b.data[k]
    BY <1>1, <1>2, <1>4, <1>5 DEF f
  <2>2. x \in Seq(Position) /\ x # <<>> /\ dd \in Data /\ cd \in Data /\ Solid(t, x, dd, cd, h)
    BY <1>0, <1>1, <1>3
  <2>3. Solid(t, x \o b.index, dd, cd, h)
    BY <2>1, <2>2, GrowIndex
  <2>4. EndOf(x \o b.index, m.headId) = m.headBytes + Len(b.data)
    BY <2>1, <2>2, GrowIndex
  <2>5. y[Len(y)].file <= m.headId /\ m.headId <= y[Len(y)].file + 1
    BY <1>6, <2>1, <2>2, GrowIndex
  <2>6. Len(y) <= 1 => m.headId = y[1].file
    BY <1>6, <2>1, <2>2, GrowIndex
  <2> QED BY <1>6, <2>1, <2>3, <2>4, <2>5, <2>6
<1>10. y # <<>>
  <2>1. Len(x) \in Nat \ {0} /\ Len(x) <= Len(y)
    BY <1>0, <1>1, <1>8 DEF IsPfx
  <2> QED BY <2>1, <1>8
<1>11. m.items <= b.curItem
  <2>1. b.curItem = m.items + Len(b.index)
    BY DEF Buffered
  <2> QED BY <1>0, <2>1
<1>12. Counted(x, y, cd, m, "count")
  BY <1>1, <1>8, <1>9, <1>10 DEF Counted, f
<1>13. /\ x[1].off <= d.meta /\ x[1].off <= c.meta /\ s <= m.items /\ a <= m.items
       /\ d.meta <= a /\ c.meta <= a
  BY <1>1, <1>7 DEF FilesAgree, Covered, x
<1>14. s <= b.curItem /\ a <= b.curItem
  BY <1>0, <1>11, <1>13
<1>15. Covered(x, d.meta, c.meta, s, a) /\ Covered(y, d.meta, c.meta, s, a) /\ Comparable(x, y)
  BY <1>1, <1>8, <1>13, <1>14 DEF Covered, Comparable
<1>16. FilesAgree(dn, cn, s, a)
  BY <1>1, <1>13, <1>15 DEF FilesAgree, x, y
<1>17. OpenOK(t, dn, cn, m, h, "count", s, a)
  BY <1>1, <1>3, <1>9, <1>12, <1>16 DEF OpenOK, x, y, cd, dd
<1> QED BY <1>3, <1>8, <1>9, <1>17 DEF y, dd, f, Indexed, IndexedOK

\* The index is synced and the counters follow.
LEMMA OpenCountItems ==
  ASSUME NEW t \in Table, NEW d \in Files, NEW c \in Files, NEW m \in Memory, NEW h \in Seq(Payload),
         NEW s \in Nat, NEW a \in Nat, OpenOK(t, d, c, m, h, "count", s, a),
         NEW b \in Batch, Len(c.data[m.headId]) = m.headBytes + Len(b.data),
         Indexed(c.index, m, b),
         NEW dn, dn.index = c.index, dn.meta = d.meta, dn.data = d.data,
         NEW mn, mn.items = b.curItem, mn.headBytes = m.headBytes + Len(b.data),
         mn.itemOffset = m.itemOffset, mn.itemHidden = m.itemHidden, mn.headId = m.headId,
         mn.tailId = m.tailId, mn.files = m.files
  PROVE  OpenOK(t, dn, c, mn, h, "none", s, a)
<1>1. Counted(d.index, c.index, c.data, m, "count")
  BY DEF OpenOK
<1>2. Counted(c.index, c.index, c.data, mn, "none")
  BY <1>1 DEF Counted, Indexed
<1>3. Comparable(c.index, c.index)
  BY DEF Comparable, IsPfx
<1>4. FilesAgree(dn, c, s, a)
  BY <1>3 DEF FilesAgree, Covered, OpenOK
<1> QED BY <1>2, <1>4 DEF OpenOK

\* The entry that tells where the data ends.
LEMMA LastPosition ==
  ASSUME NEW x \in Seq(Position), x # <<>>, NEW f \in Nat
  PROVE  /\ Len(x) > 1 => LastEntry(x, f) = x[Len(x)]
         /\ Len(x) <= 1 => LastEntry(x, f) = Entry(f, 0)
         /\ LastEntry(x, f) \in Position
<1>1. Len(x) \in Nat \ {0} /\ x[Len(x)] \in Position
  OBVIOUS
<1>2. Entry(f, 0) \in Position
  BY DEF Entry, Position
<1>3. PICK n \in Nat : Len(x) = n
  BY <1>1
<1>4. n > 0
  BY <1>1, <1>3
<1>5. CASE n = 1
  BY <1>2, <1>3, <1>5 DEF LastEntry
<1>6. CASE n > 1
  <2>1. ~(Len(x) = 1)
    <3> SUFFICES ASSUME Len(x) = 1 PROVE FALSE
      OBVIOUS
    <3>1. n = 1
      BY <1>3
    <3> QED BY <1>6, <3>1
  <2>2. LastEntry(x, f) = x[Len(x)]
    BY <2>1 DEF LastEntry, Last
  <2> QED BY <1>1, <1>3, <1>6, <2>2
<1> QED BY <1>4, <1>5, <1>6

\* Its file and its offset.
LEMMA LastFields ==
  ASSUME NEW x \in Seq(Position), x # <<>>, NEW f \in Nat, NEW e, e = LastEntry(x, f)
  PROVE  /\ Len(x) > 1 => e.file = x[Len(x)].file /\ e.off = x[Len(x)].off
         /\ Len(x) <= 1 => e.file = f /\ e.off = 0
         /\ e.file \in Nat /\ e.off \in Nat
<1>1. CASE Len(x) > 1
  <2>1. e = x[Len(x)] /\ e \in Position
    BY <1>1, LastPosition
  <2>2. e.file \in Nat /\ e.off \in Nat
    BY <2>1 DEF Position
  <2>3. ~(Len(x) <= 1)
    BY <1>1
  <2> QED BY <2>1, <2>2, <2>3
<1>2. CASE Len(x) <= 1
  <2>1. LastEntry(x, f) = [file |-> f, off |-> 0]
    BY <1>2, LastPosition DEF Entry
  <2>2. e.file = f /\ e.off = 0
    BY <2>1
  <2>3. ~(Len(x) > 1)
    BY <1>2
  <2> QED BY <2>2, <2>3
<1> QED BY <1>1, <1>2

\* An index of one entry.
LEMMA OneEntry ==
  ASSUME NEW x \in Seq(Position), x # <<>>, Len(x) <= 1
  PROVE  x[Len(x)] = x[1]
<1>1. PICK n \in Nat : n = Len(x)
  OBVIOUS
<1>2. n # 0 /\ n <= 1
  BY <1>1
<1>3. n = 1
  BY <1>2
<1> QED BY <1>1, <1>3

\* File numbers grow along an index.
LEMMA FilesOrder ==
  ASSUME NEW t \in Table, NEW x \in Seq(Position), NEW h \in Seq(Payload), Formed(t, x, h),
         NEW i \in 1..Len(x), NEW j \in 1..Len(x), i <= j
  PROVE  /\ x[i].file <= x[j].file
         /\ x[i].file \in Nat /\ x[j].file \in Nat /\ x[i].off \in Nat /\ x[j].off \in Nat
<1>1. x[i] \in Position /\ x[j] \in Position
  OBVIOUS
<1>2. x[i].file \in Nat /\ x[j].file \in Nat /\ x[i].off \in Nat /\ x[j].off \in Nat
  BY <1>1 DEF Position
<1>3. CASE i = j
  BY <1>2, <1>3
<1>4. CASE i < j
  BY <1>2, <1>4 DEF Formed, Shape
<1> QED BY <1>3, <1>4

\* No entry is behind the last one.
LEMMA LastEnds ==
  ASSUME NEW t \in Table, NEW x \in Seq(Position), NEW h \in Seq(Payload), Formed(t, x, h),
         NEW i \in 2..Len(x)
  PROVE  /\ Len(x) > 1 /\ x[i].file <= x[Len(x)].file
         /\ x[i].file = x[Len(x)].file => x[i].off <= x[Len(x)].off
<1>1. Len(x) > 1 /\ x[i].file <= x[Len(x)].file /\ x[Len(x)].off \in Nat
  <2>1. Len(x) > 1
    OBVIOUS
  <2>2. x[i].file <= x[Len(x)].file /\ x[Len(x)] \in Position
    BY Entries
  <2>3. x[Len(x)].off \in Nat
    BY ONLY <2>2 DEF Position
  <2> QED BY ONLY <2>1, <2>2, <2>3
<1>2. CASE i = Len(x)
  BY <1>1, <1>2
<1>3. CASE i < Len(x)
  <2>1. i \in 2..Len(x) /\ Len(x) \in 2..Len(x)
    BY <1>3
  <2>2. x[i].file = x[Len(x)].file => x[i].off < x[Len(x)].off
    BY <1>3, <2>1 DEF Formed, Shape
  <2>3. x[i].off \in Nat
    BY Entries DEF Position
  <2> QED BY <1>1, <2>2, <2>3
<1> QED BY <1>2, <1>3

\* The head file is synced and the next file becomes the head.
LEMMA OpenAdvance ==
  ASSUME NEW t \in Table, NEW d \in Files, NEW c \in Files, NEW m \in Memory, NEW h \in Seq(Payload),
         NEW s \in Nat, NEW a \in Nat, OpenOK(t, d, c, m, h, "none", s, a), m.headBytes > 0,
         NEW dn, dn.index = d.index, dn.meta = d.meta, dn.data = Synced(d.data, c.data, m.headId),
         NEW cn, cn.index = c.index, cn.meta = c.meta, cn.data = WithFile(c.data, m.headId + 1, <<>>),
         NEW mn, mn.items = m.items, mn.headBytes = 0,
         mn.itemOffset = m.itemOffset, mn.itemHidden = m.itemHidden, mn.headId = m.headId + 1,
         mn.tailId = m.tailId, mn.files = m.files \cup {m.headId + 1}
  PROVE  dn.data \in Data /\ cn.data \in Data /\ OpenOK(t, dn, cn, mn, h, "none", s, a)
<1> DEFINE x == c.index
<1> DEFINE cd == c.data
<1> DEFINE dd == dn.data
<1> DEFINE cx == cn.data
<1> DEFINE f == m.headId
<1>0. d.data \in Data /\ cd \in Data /\ x \in Seq(Position) /\ f \in Nat /\ m.tailId \in Nat
      /\ m.headBytes \in Nat
  BY Fields
<1>1. /\ d.index = x /\ x # <<>> /\ Solid(t, x, d.data, cd, h)
      /\ m.tailId = x[1].file /\ m.itemOffset = x[1].off
      /\ m.files = m.tailId .. f /\ m.files \subseteq DOMAIN cd /\ m.tailId <= f
      /\ m.headBytes = EndOf(x, f) /\ Stored(x) = m.items
      /\ m.itemOffset <= m.itemHidden /\ m.itemHidden = c.meta
  BY DEF OpenOK, Counted
<1>2. f \in DOMAIN cd /\ f + 1 \in Nat
  <2>1. f \in m.tailId .. f
    BY <1>0, <1>1
  <2> QED BY <1>0, <1>1, <2>1
<1>3. Len(x) > 1 /\ x[Len(x)].file = f
  BY <1>0, <1>1 DEF EndOf
<1>4. dd = Synced(d.data, cd, f) /\ cx = WithFile(cd, f + 1, <<>>)
  OBVIOUS
<1> HIDE DEF x, cd, dd, cx, f
<1>5. dd \in Data /\ Solid(t, x, dd, cd, h)
  BY <1>0, <1>1, <1>2, <1>4, SyncData
<1>6. Changed(cd, cx, f + 1, <<>>)
  <2>1. <<>> \in Seq(Payload)
    OBVIOUS
  <2> QED BY <1>0, <1>2, <1>4, <2>1, FileChanged
<1>7. \A i \in 2..Len(x) : x[i].file # f + 1
  <2> SUFFICES ASSUME NEW i \in 2..Len(x) PROVE x[i].file # f + 1
    OBVIOUS
  <2>1. Formed(t, x, h)
    BY <1>1 DEF Solid
  <2>2. x[i].file <= f /\ x[i].file \in Nat
    BY <1>0, <1>3, <2>1, Entries DEF Position
  <2> QED BY <1>0, <2>2
<1>8. cx \in Data /\ DOMAIN cx = DOMAIN cd \cup {f + 1} /\ cx[f + 1] = <<>>
  BY <1>6 DEF Changed
<1>9. Solid(t, x, dd, cx, h)
  BY <1>0, <1>2, <1>5, <1>6, <1>7, AddFile
<1>10. Counted(x, x, cx, mn, "none")
  <2>1. mn.files = mn.tailId .. f + 1 /\ mn.files \subseteq DOMAIN cx
    <3>1. mn.files = (m.tailId .. f) \cup {f + 1}
      BY <1>1 DEF f
    <3>2. (m.tailId .. f) \cup {f + 1} = m.tailId .. f + 1
      BY <1>0, <1>1
    <3> QED BY <1>1, <1>8, <3>1, <3>2
  <2>2. EndOf(x, f + 1) = 0
    <3>1. f # f + 1
      BY <1>0
    <3> QED BY <1>3, <3>1 DEF EndOf
  <2>3. Len(cx[f + 1]) = 0
    BY <1>8
  <2>4. mn.headId = f + 1 /\ mn.tailId <= mn.headId /\ x[Len(x)].file <= mn.headId
        /\ ~(Len(x) <= 1) /\ mn.headId <= x[Len(x)].file + 1
    BY <1>0, <1>1, <1>3 DEF f
  <2> QED BY <1>1, <2>1, <2>2, <2>3, <2>4 DEF Counted
<1>11. FilesAgree(dn, cn, s, a)
  BY DEF OpenOK, FilesAgree
<1> QED BY <1>1, <1>5, <1>8, <1>9, <1>10, <1>11 DEF OpenOK, x, dd, cx

\* The front part of a sequence.
LEMMA PrefixFacts ==
  ASSUME NEW S, NEW x \in Seq(S), NEW n \in Nat, n <= Len(x)
  PROVE  /\ Prefix(x, n) \in Seq(S) /\ Len(Prefix(x, n)) = n
         /\ \A i \in 1..n : Prefix(x, n)[i] = x[i]
         /\ IsPfx(Prefix(x, n), x)
<1> DEFINE y == Prefix(x, n)
<1>1. y \in Seq(S) /\ Len(y) = n /\ \A i \in 1..n : y[i] = x[i]
  BY DEF Prefix
<1> HIDE DEF y
<1>2. IsPfx(y, x)
  BY <1>1 DEF IsPfx
<1> QED BY <1>1, <1>2 DEF y

\* truncateHead cuts index x to y, so that the items below n stay.
IndexCut(x, y, m, n) == y = Prefix(x, n - m.itemOffset + 1)

\* The index is cut to the items below n.
LEMMA OpenHeadIndex ==
  ASSUME NEW t \in Table, NEW d \in Files, NEW c \in Files, NEW m \in Memory, NEW h \in Seq(Payload),
         NEW s \in Nat, NEW a \in Nat, OpenOK(t, d, c, m, h, "none", s, a),
         NEW n \in Nat, m.itemHidden <= n, n < m.items, s <= n, a <= n,
         NEW cn, IndexCut(c.index, cn.index, m, n), cn.meta = c.meta, cn.data = c.data
  PROVE  /\ cn.index \in Seq(Position) /\ OpenOK(t, d, cn, m, h, "cut", s, a)
         /\ Stored(cn.index) = n
<1> DEFINE x == c.index
<1> DEFINE y == cn.index
<1> DEFINE k == n - m.itemOffset + 1
<1>0. x \in Seq(Position) /\ m.itemOffset \in Nat /\ m.itemHidden \in Nat /\ m.items \in Nat
      /\ m.headId \in Nat
  BY Fields
<1>1. /\ d.index = x /\ x # <<>> /\ Solid(t, x, d.data, c.data, h)
      /\ m.tailId = x[1].file /\ m.itemOffset = x[1].off
      /\ m.files = m.tailId .. m.headId /\ m.files \subseteq DOMAIN c.data /\ m.tailId <= m.headId
      /\ x[Len(x)].file <= m.headId /\ Stored(x) = m.items
      /\ Len(c.data[m.headId]) = m.headBytes
      /\ m.itemOffset <= m.itemHidden /\ m.itemHidden = c.meta
  BY DEF OpenOK, Counted
<1>2. Stored(x) = x[1].off + Len(x) - 1 /\ Len(x) \in Nat \ {0} /\ x[1] \in Position
  BY <1>0, <1>1, StoredNat
<1> HIDE DEF x, y
<1>3. k \in Nat /\ 1 <= k /\ k <= Len(x)
  <2>1. m.items = m.itemOffset + Len(x) - 1 /\ Len(x) \in Nat
    BY <1>1, <1>2
  <2>2. m.itemOffset <= n
    BY <1>0, <1>1
  <2>3. n < m.itemOffset + Len(x) - 1
    BY <2>1
  <2> QED BY SMTT(30), <1>0, <2>1, <2>2, <2>3
<1>7. FilesAgree(d, c, s, a)
  BY DEF OpenOK
<1> HIDE DEF k
<1>4. y \in Seq(Position) /\ Len(y) = k /\ IsPfx(y, x) /\ y[1] = x[1] /\ y[Len(y)] = x[k]
  <2>1. y = Prefix(x, k)
    BY DEF IndexCut, k, x, y
  <2>2. 1 \in 1..k /\ k \in 1..k
    BY <1>3
  <2> QED BY <1>0, <1>3, <2>1, <2>2, PrefixFacts
<1>5. y # <<>> /\ Stored(y) = n
  <2>1. y # <<>>
    BY <1>3, <1>4
  <2>2. Stored(y) = m.itemOffset + Len(y) - 1
    BY <1>1, <1>4, <2>1, StoredNat
  <2>3. Len(y) = n - m.itemOffset + 1
    BY <1>4 DEF k
  <2>4. Stored(y) = m.itemOffset + (n - m.itemOffset + 1) - 1
    BY <2>2, <2>3
  <2> QED BY <1>0, <2>1, <2>4
<1>6. Solid(t, y, d.data, c.data, h)
  BY <1>0, <1>1, <1>4, SolidPfx
<1>8. y[Len(y)].file <= m.headId
  <2>1. k \in 1..Len(x) /\ Len(x) \in 1..Len(x) /\ k <= Len(x)
    BY <1>2, <1>3
  <2>2. x[k].file <= x[Len(x)].file /\ x[k].file \in Nat /\ x[Len(x)].file \in Nat
    BY <1>0, <1>1, <2>1, FilesOrder DEF Solid
  <2>3. x[Len(x)].file <= m.headId /\ m.headId \in Nat
    BY <1>0, <1>1
  <2>4. x[k].file <= m.headId
    BY <2>2, <2>3
  <2> QED BY <1>4, <2>4
<1>9. Counted(x, y, c.data, m, "cut")
  BY <1>1, <1>4, <1>5, <1>8 DEF Counted
<1>10. FilesAgree(d, cn, s, a)
  <2>1. Covered(x, d.meta, c.meta, s, a) /\ d.meta <= a /\ c.meta <= a
    BY <1>1, <1>7 DEF FilesAgree
  <2>2. Covered(y, d.meta, c.meta, s, a)
    BY <1>1, <1>4, <1>5, <2>1 DEF Covered
  <2>3. Comparable(x, y)
    BY <1>4 DEF Comparable
  <2> QED BY <1>1, <2>1, <2>2, <2>3 DEF FilesAgree, y
<1> QED BY <1>1, <1>4, <1>5, <1>6, <1>9, <1>10 DEF OpenOK, y

\* truncateHead removes the files after entry e from the data cd and cuts the
\* file of e, and the counters follow.
AfterHead(m, e) == {f \in m.files : f > e.file}
DataCut(cd, cn, m, e) ==
    LET w == OpenForAppend(WithoutFiles(cd, AfterHead(m, e)), e.file)
    IN  cn = [w EXCEPT ![e.file] = Prefix(@, e.off)]
HeadMoved(m, mn, e) ==
    /\ mn.items = m.items /\ mn.headBytes = m.headBytes
    /\ mn.itemOffset = m.itemOffset /\ mn.itemHidden = m.itemHidden /\ mn.headId = e.file
    /\ mn.tailId = m.tailId /\ mn.files = (m.files \ AfterHead(m, e)) \cup {e.file}

\* The index is synced, files behind it are removed and the last one is cut.
LEMMA OpenHeadData ==
  ASSUME NEW t \in Table, NEW d \in Files, NEW c \in Files, NEW m \in Memory, NEW h \in Seq(Payload),
         NEW s \in Nat, NEW a \in Nat, OpenOK(t, d, c, m, h, "cut", s, a),
         NEW dn, dn.index = c.index, dn.meta = d.meta, dn.data = d.data,
         NEW cn, cn.index = c.index, cn.meta = c.meta,
         DataCut(c.data, cn.data, m, LastEntry(c.index, m.tailId)),
         NEW mn, HeadMoved(m, mn, LastEntry(c.index, m.tailId))
  PROVE  /\ cn.data \in Data
         /\ OpenOK(t, dn, cn, mn, h, "cutdone", s, a)
<1> DEFINE e == LastEntry(c.index, m.tailId)
<1> DEFINE after == AfterHead(m, e)
<1> DEFINE w == OpenForAppend(WithoutFiles(c.data, after), e.file)
<1>3. /\ after = {f \in m.files : f > e.file} /\ w = OpenForAppend(WithoutFiles(c.data, after), e.file)
      /\ cn.data = [w EXCEPT ![e.file] = Prefix(@, e.off)]
      /\ mn.items = m.items /\ mn.headBytes = m.headBytes
      /\ mn.itemOffset = m.itemOffset /\ mn.itemHidden = m.itemHidden /\ mn.headId = e.file
      /\ mn.tailId = m.tailId /\ mn.files = (m.files \ after) \cup {e.file}
  BY DEF AfterHead, DataCut, HeadMoved
<1> HIDE DEF after, w
<1> DEFINE x == c.index
<1> DEFINE dd == d.data
<1> DEFINE cd == c.data
<1> DEFINE cx == cn.data
<1> DEFINE g == e.file
<1> DEFINE o == e.off
<1>0. dd \in Data /\ cd \in Data /\ x \in Seq(Position) /\ m.headId \in Nat /\ m.tailId \in Nat
  BY Fields
<1>1. /\ x # <<>> /\ Solid(t, x, dd, cd, h) /\ Solid(t, d.index, dd, cd, h)
      /\ m.tailId = x[1].file /\ m.itemOffset = x[1].off
      /\ m.files = m.tailId .. m.headId /\ m.files \subseteq DOMAIN cd /\ m.tailId <= m.headId
      /\ x[Len(x)].file <= m.headId /\ m.itemOffset <= m.itemHidden /\ m.itemHidden = c.meta
  BY DEF OpenOK, Counted
<1>2. FilesAgree(d, c, s, a)
  BY DEF OpenOK
<1>4. after = {f \in m.files : f > g} /\ w = OpenForAppend(WithoutFiles(cd, after), g)
      /\ cx = [w EXCEPT ![g] = Prefix(@, o)] /\ mn.headId = g /\ mn.files = (m.files \ after) \cup {g}
  BY <1>3
<1>6. Formed(t, x, h)
  BY <1>1 DEF Solid
<1>7. /\ Len(x) > 1 => g = x[Len(x)].file /\ o = x[Len(x)].off
      /\ Len(x) <= 1 => g = m.tailId /\ o = 0
  BY <1>0, <1>1, LastFields
<1>5. g \in Nat /\ o \in Nat
  BY <1>0, <1>1, LastFields
<1> HIDE DEF e, x, dd, cd, cx, g, o
<1>8. m.tailId <= g /\ g <= m.headId /\ g \in DOMAIN cd /\ o <= Len(cd[g])
  <2>1. CASE Len(x) > 1
    <3>1. 1 \in 1..Len(x) /\ Len(x) \in 1..Len(x) /\ 1 <= Len(x) /\ Len(x) \in 2..Len(x)
      BY <2>1
    <3>2. x[1].file <= x[Len(x)].file
      BY <1>0, <1>6, <3>1, FilesOrder
    <3>3. x[Len(x)].file \in DOMAIN cd /\ x[Len(x)].off <= Len(cd[x[Len(x)].file])
      BY <1>1, <3>1 DEF Solid, Full
    <3> QED BY <1>1, <1>7, <2>1, <3>2, <3>3
  <2>2. CASE Len(x) <= 1
    <3>1. g = m.tailId /\ o = 0
      BY <1>7, <2>2
    <3>2. m.tailId \in m.tailId .. m.headId
      BY <1>0, <1>1
    <3>3. g \in DOMAIN cd
      BY <1>1, <3>1, <3>2
    <3>4. Len(cd[g]) \in Nat
      BY <1>0, <3>3, DataFacts
    <3> QED BY <1>0, <1>1, <3>1, <3>3, <3>4
  <2>3. Len(x) \in Nat
    BY <1>0
  <2> QED BY <2>1, <2>2, <2>3
<1>9. /\ w = WithoutFiles(cd, after) /\ g \in DOMAIN w /\ w[g] = cd[g]
  <2>1. g \notin after
    BY <1>4, <1>5
  <2>2. g \in DOMAIN WithoutFiles(cd, after) /\ WithoutFiles(cd, after)[g] = cd[g]
    BY <1>8, <2>1 DEF WithoutFiles
  <2> QED BY <1>4, <2>2 DEF OpenForAppend
<1>10. w \in Data /\ DOMAIN w = DOMAIN cd \ after
  BY <1>0, <1>9, RemoveFiles
<1>11. \A i \in 2..Len(x) : x[i].file \notin after /\ (x[i].file = g => x[i].off <= o)
  <2> SUFFICES ASSUME NEW i \in 2..Len(x)
               PROVE  x[i].file \notin after /\ (x[i].file = g => x[i].off <= o)
    OBVIOUS
  <2>1. /\ Len(x) > 1 /\ x[i].file <= x[Len(x)].file
        /\ x[i].file = x[Len(x)].file => x[i].off <= x[Len(x)].off
    BY <1>0, <1>6, LastEnds
  <2>2. g = x[Len(x)].file /\ o = x[Len(x)].off
    BY <1>7, <2>1
  <2>3. x[i].file \in Nat
    BY <1>0, <1>6, Entries DEF Position
  <2>4. x[i].file <= g
    BY <2>1, <2>2
  <2>5. x[i].file \notin after
    BY <1>4, <1>5, <2>3, <2>4
  <2> QED BY <2>1, <2>2, <2>5
<1>12. Solid(t, x, dd, w, h)
  <2>1. \A i \in 2..Len(x) : x[i].file \notin after
    BY <1>11
  <2> QED BY <1>0, <1>1, <1>9, <2>1, RemoveFiles
<1>13. Changed(w, cx, g, Prefix(w[g], o))
  <2>1. w[g] \in Seq(Payload) /\ o <= Len(w[g])
    BY <1>8, <1>9, <1>10, DataFacts
  <2>2. Prefix(w[g], o) \in Seq(Payload)
    BY <1>5, <2>1, PrefixFacts
  <2>3. cx = [w EXCEPT ![g] = Prefix(w[g], o)]
    BY <1>4, <1>9
  <2> QED BY <1>5, <1>9, <1>10, <2>2, <2>3, FileChanged
<1>14. cx \in Data /\ DOMAIN cx = DOMAIN w /\ Len(cx[g]) = o
  BY <1>5, <1>8, <1>9, <1>10, <1>13, CutFile
<1>15. Solid(t, x, dd, cx, h)
  <2>1. \A i \in 2..Len(x) : x[i].file = g => x[i].off <= o
    BY <1>11
  <2>2. o <= Len(w[g])
    BY <1>8, <1>9
  <2> QED BY <1>0, <1>5, <1>9, <1>10, <1>12, <1>13, <2>1, <2>2, CutFile
<1>16. Counted(x, x, cx, mn, "cutdone")
  <2>1. mn.files = mn.tailId .. g /\ mn.files \subseteq DOMAIN cx
    <3>1. mn.files = ((m.tailId .. m.headId) \ {f \in m.tailId .. m.headId : f > g}) \cup {g}
      BY <1>1, <1>4
    <3>2. mn.files = m.tailId .. g
      <4>1. \A f : f \in ((m.tailId .. m.headId) \ {k \in m.tailId .. m.headId : k > g}) \cup {g}
                  <=> f \in m.tailId .. g
        BY <1>0, <1>5, <1>8
      <4>2. ((m.tailId .. m.headId) \ {k \in m.tailId .. m.headId : k > g}) \cup {g} = m.tailId .. g
        BY <4>1
      <4> QED BY <3>1, <4>2
    <3>3. mn.files \subseteq DOMAIN w
      <4>1. m.tailId .. g \subseteq m.tailId .. m.headId
        BY <1>0, <1>5, <1>8
      <4>2. \A f \in m.tailId .. g : f \notin after
        BY <1>0, <1>4, <1>5
      <4>3. m.tailId .. g \subseteq DOMAIN cd
        BY <1>1, <4>1
      <4> QED BY <1>10, <3>2, <4>2, <4>3
    <3> QED BY <1>3, <1>14, <3>2, <3>3
  <2>2. mn.headId = g
    BY <1>4
  <2>3. x[Len(x)].file \in Nat /\ Len(x) \in Nat /\ x[1].file = m.tailId
    BY <1>0, <1>1, StoredNat DEF Position
  <2>4. CASE Len(x) > 1
    <3>1. x[Len(x)].file = g /\ o = x[Len(x)].off
      BY <1>7, <2>4
    <3>2. EndOf(x, g) = o
      BY <2>4, <3>1 DEF EndOf
    <3>3. x[Len(x)].file <= g /\ g <= x[Len(x)].file + 1 /\ ~(Len(x) <= 1)
      BY <1>5, <2>4, <3>1
    <3> QED BY <1>1, <1>3, <1>4, <1>8, <1>14, <2>1, <2>2, <3>2, <3>3 DEF Counted
  <2>5. CASE Len(x) <= 1
    <3>1. g = m.tailId /\ o = 0
      BY <1>7, <2>5
    <3>2. EndOf(x, g) = o
      BY <2>3, <2>5, <3>1 DEF EndOf
    <3>3. x[Len(x)] = x[1]
      BY <1>0, <1>1, <2>5, OneEntry
    <3>4. x[Len(x)].file <= g /\ g <= x[Len(x)].file + 1 /\ g = x[1].file
      BY <1>5, <2>3, <3>1, <3>3
    <3> QED BY <1>1, <1>3, <1>4, <1>8, <1>14, <2>1, <2>2, <3>2, <3>4 DEF Counted
  <2> QED BY <2>3, <2>4, <2>5
<1>17. FilesAgree(dn, cn, s, a)
  <2>1. Comparable(x, x)
    BY DEF Comparable, IsPfx
  <2> QED BY <1>2, <2>1 DEF FilesAgree, x
<1> QED BY <1>1, <1>3, <1>5, <1>14, <1>15, <1>16, <1>17 DEF OpenOK, x, dd, cx, g

\* The head is synced and the counters follow.
LEMMA OpenHeadCount ==
  ASSUME NEW t \in Table, NEW d \in Files, NEW c \in Files, NEW m \in Memory, NEW h \in Seq(Payload),
         NEW s \in Nat, NEW a \in Nat, OpenOK(t, d, c, m, h, "cutdone", s, a),
         NEW dn, dn.index = d.index, dn.meta = d.meta, dn.data = Synced(d.data, c.data, m.headId),
         NEW mn, mn.items = Stored(c.index), mn.headBytes = Len(c.data[m.headId]),
         mn.itemOffset = m.itemOffset, mn.itemHidden = m.itemHidden, mn.headId = m.headId,
         mn.tailId = m.tailId, mn.files = m.files
  PROVE  /\ dn.data \in Data /\ Len(c.data[m.headId]) \in Nat
         /\ OpenOK(t, dn, c, mn, h, "none", s, a)
<1> DEFINE x == c.index
<1> DEFINE cd == c.data
<1> DEFINE dd == dn.data
<1>0. d.data \in Data /\ cd \in Data /\ x \in Seq(Position) /\ m.headId \in Nat /\ m.tailId \in Nat
  BY Fields
<1>1. /\ d.index = x /\ Solid(t, x, d.data, cd, h) /\ Counted(x, x, cd, m, "cutdone")
  BY DEF OpenOK, Counted
<1>2. m.headId \in DOMAIN cd
  <2>1. m.files = m.tailId .. m.headId /\ m.files \subseteq DOMAIN cd /\ m.tailId <= m.headId
    BY <1>1 DEF Counted
  <2>2. m.headId \in m.tailId .. m.headId
    BY <1>0, <2>1
  <2> QED BY <2>1, <2>2
<1>3. Len(cd[m.headId]) \in Nat
  BY <1>0, <1>2, DataFacts
<1>4. dd \in Data /\ Solid(t, x, dd, cd, h)
  BY <1>0, <1>1, <1>2, SyncData
<1>5. Counted(x, x, cd, mn, "none")
  BY <1>1 DEF Counted
<1>6. FilesAgree(dn, c, s, a)
  BY DEF OpenOK, FilesAgree
<1> QED BY <1>1, <1>3, <1>4, <1>5, <1>6 DEF OpenOK

\* The new tail goes to the metadata file.
LEMMA OpenTailMeta ==
  ASSUME NEW t \in Table, NEW d \in Files, NEW c \in Files, NEW m \in Memory, NEW h \in Seq(Payload),
         NEW s \in Nat, NEW a \in Nat, OpenOK(t, d, c, m, h, "none", s, a),
         NEW n \in Nat, m.itemHidden < n, n <= m.items, n <= a,
         NEW cn, cn.index = c.index, cn.meta = n, cn.data = c.data,
         NEW mn, mn.items = m.items, mn.headBytes = m.headBytes,
         mn.itemOffset = m.itemOffset, mn.itemHidden = n, mn.headId = m.headId,
         mn.tailId = m.tailId, mn.files = m.files
  PROVE  /\ OpenOK(t, d, cn, mn, h, "none", s, a)
         /\ m.tailId # TailFile(c.index, m, n) => OpenOK(t, d, cn, mn, h, "rename", s, a)
<1>0. m.itemHidden \in Nat /\ m.itemOffset \in Nat /\ c.meta \in Nat /\ d.meta \in Nat
  BY Fields
<1>1. Counted(d.index, c.index, c.data, m, "none") /\ m.itemHidden = c.meta /\ FilesAgree(d, c, s, a)
  BY DEF OpenOK
<1>2. m.itemOffset <= n
  <2>1. m.itemOffset <= m.itemHidden
    BY <1>1 DEF Counted
  <2> QED BY <1>0, <2>1
<1>3. Counted(d.index, c.index, c.data, mn, "none")
  BY <1>1, <1>2 DEF Counted
<1>4. TailFile(c.index, mn, n) = TailFile(c.index, m, n)
  BY DEF TailFile
<1>5. m.tailId # TailFile(c.index, m, n) => Counted(d.index, c.index, c.data, mn, "rename")
  BY <1>3, <1>4 DEF Counted
<1>6. FilesAgree(d, cn, s, a)
  <2>1. d.index = c.index /\ c.index # <<>> /\ m.itemOffset = c.index[1].off
    BY <1>1 DEF Counted
  <2>2. c.index[1].off <= d.meta /\ c.index[1].off <= n
    BY <1>1, <1>2, <2>1 DEF FilesAgree, Covered
  <2>3. Covered(c.index, d.meta, n, s, a)
    BY <1>1, <2>1, <2>2 DEF FilesAgree, Covered
  <2> QED BY <1>1, <2>1, <2>3 DEF FilesAgree
<1> QED BY <1>3, <1>5, <1>6 DEF OpenOK

\* The items from first on stay in index x, which starts with item off: those
\* below item n that are in its file g.
FirstInFile(x, off, n, g) ==
    Min({n} \cup {k \in off .. n - 1 : \A j \in k .. n - 1 : x[j - off + 2].file = g})
FirstKept(x, off, n, g, first) ==
    /\ off <= first /\ first <= n
    /\ first < n => x[first - off + 2].file = g
    /\ off < first => x[first - off + 1].file # g

\* The first item that is kept is the first one of its file.
LEMMA TailFirst ==
  ASSUME NEW x, NEW g, NEW off \in Nat, NEW n \in Nat, off <= n, NEW first,
         first = FirstInFile(x, off, n, g)
  PROVE  first \in Nat /\ FirstKept(x, off, n, g, first)
<1> DEFINE T == {n} \cup {k \in off .. n - 1 : \A j \in k .. n - 1 : x[j - off + 2].file = g}
<1>1. first = Min(T)
  BY DEF FirstInFile
<1>2. T \subseteq Nat /\ T # {}
  OBVIOUS
<1>3. first \in T /\ \A k \in T : first <= k
  <2> HIDE DEF T
  <2> QED BY <1>1, <1>2, LeastNat
<1>4. first \in Nat /\ off <= first /\ first <= n
  BY <1>3
<1>5. ASSUME first < n PROVE \A j \in first .. n - 1 : x[j - off + 2].file = g
  <2>1. first # n
    BY <1>4, <1>5
  <2> QED BY <1>3, <2>1
<1>6. ASSUME first < n PROVE x[first - off + 2].file = g
  <2>1. first \in first .. n - 1
    BY <1>4, <1>6
  <2> QED BY <1>5, <1>6, <2>1
<1>7. ASSUME off < first, x[first - off + 1].file = g PROVE FALSE
  <2>1. first - 1 \in off .. n - 1 /\ ~(first <= first - 1)
    BY <1>4, <1>7
  <2>2. ASSUME NEW j \in first - 1 .. n - 1 PROVE x[j - off + 2].file = g
    <3>1. CASE j = first - 1
      <4>1. j - off + 2 = first - off + 1
        BY <1>4, <3>1
      <4> QED BY <1>7, <4>1
    <3>2. CASE j # first - 1
      <4>0. j \in Int /\ first - 1 <= j /\ j <= n - 1
        BY <1>4
      <4>1. first < n /\ j \in first .. n - 1
        BY <1>4, <3>2, <4>0
      <4> QED BY <1>5, <4>1
    <3> QED BY <3>1, <3>2
  <2>3. first - 1 \in T
    BY <2>1, <2>2
  <2> HIDE DEF T
  <2> QED BY <1>3, <2>1, <2>3
<1> QED BY <1>4, <1>6, <1>7 DEF FirstKept

\* The index y that starts with item first, in file g.
TailCut(x, y, m, g, first) ==
    y = <<Entry(g, first)>> \o SubSeq(x, first - m.itemOffset + 2, Len(x))

\* The metadata is synced and the index is replaced by one with the new tail.
LEMMA OpenTailIndex ==
  ASSUME NEW t \in Table, NEW d \in Files, NEW c \in Files, NEW m \in Memory, NEW h \in Seq(Payload),
         NEW s \in Nat, NEW a \in Nat, OpenOK(t, d, c, m, h, "rename", s, a),
         m.itemHidden <= m.items,
         NEW first \in Nat, FirstKept(c.index, m.itemOffset, m.itemHidden, TailFile(c.index, m, m.itemHidden), first),
         NEW dn, dn.index = d.index, dn.meta = c.meta, dn.data = d.data,
         NEW cn, TailCut(c.index, cn.index, m, TailFile(c.index, m, m.itemHidden), first),
         cn.meta = c.meta, cn.data = c.data
  PROVE  /\ cn.index \in Seq(Position)
         /\ OpenOK(t, dn, cn, m, h, "drop", s, a)
<1> DEFINE g == TailFile(c.index, m, m.itemHidden)
<1>7. FirstKept(c.index, m.itemOffset, m.itemHidden, g, first) /\ TailCut(c.index, cn.index, m, g, first)
      /\ g = TailFile(c.index, m, m.itemHidden)
  OBVIOUS
<1> HIDE DEF g
<1> DEFINE x == c.index
<1> DEFINE y == cn.index
<1> DEFINE n == m.itemHidden
<1> DEFINE off == m.itemOffset
<1>0. x \in Seq(Position) /\ m.headId \in Nat /\ m.tailId \in Nat /\ n \in Nat /\ off \in Nat
      /\ m.items \in Nat /\ c.meta \in Nat
  BY Fields
<1>1. /\ d.index = x /\ x # <<>> /\ Solid(t, x, d.data, c.data, h)
      /\ m.tailId = x[1].file /\ off = x[1].off /\ m.tailId # g
      /\ m.files = m.tailId .. m.headId /\ m.files \subseteq DOMAIN c.data /\ m.tailId <= m.headId
      /\ x[Len(x)].file <= m.headId /\ (Len(x) <= 1 => m.headId = x[1].file)
      /\ m.headId <= x[Len(x)].file + 1 /\ m.headBytes = EndOf(x, m.headId) /\ Stored(x) = m.items
      /\ Len(c.data[m.headId]) = m.headBytes
      /\ off <= n /\ n = c.meta
  BY <1>7 DEF OpenOK, Counted
<1>2. FilesAgree(d, c, s, a)
  BY DEF OpenOK
<1>3. /\ n = m.items => g = m.headId
      /\ n # m.items => g = x[n - off + 2].file
  BY <1>7 DEF TailFile
<1>4. /\ off <= first /\ first <= n
      /\ first < n => x[first - off + 2].file = g
      /\ off < first => x[first - off + 1].file # g
  BY <1>7 DEF FirstKept
<1>5. y = <<Entry(g, first)>> \o SubSeq(x, first - off + 2, Len(x))
  BY <1>7 DEF TailCut
<1>6. n <= m.items
  OBVIOUS
<1> HIDE DEF x, y, n, off
<1>8. first \in Nat /\ off <= first /\ first <= n
  BY <1>4
<1>9. Formed(t, x, h)
  BY <1>1 DEF Solid
<1>10. Len(x) \in Nat \ {0} /\ x[1] \in Position /\ m.items = off + Len(x) - 1
  BY <1>0, <1>1, StoredNat
<1> DEFINE q == first - off
<1>11. q \in Nat /\ q < Len(x) /\ first = off + q
  <2>1. first <= off + Len(x) - 1
    BY <1>0, <1>6, <1>8, <1>10
  <2> QED BY <1>0, <1>8, <1>10, <2>1
<1>12. g \in Nat /\ m.tailId <= g /\ g <= m.headId
  <2>1. CASE n = m.items
    BY <1>0, <1>1, <1>3, <2>1
  <2>2. CASE n # m.items
    <3>0. n < off + Len(x) - 1 /\ Len(x) \in Nat /\ off <= n
      BY <1>0, <1>1, <1>6, <1>10, <2>2
    <3>00. n \in Nat /\ off \in Nat
      BY <1>0
    <3>1. n - off + 2 \in 1..Len(x) /\ 1 \in 1..Len(x) /\ 1 <= n - off + 2
      BY <3>00, <3>0
    <3>2. Len(x) \in 1..Len(x) /\ n - off + 2 <= Len(x)
      BY <3>0, <3>1
    <3>3. x[n - off + 2].file \in Nat /\ x[1].file <= x[n - off + 2].file
      BY <1>0, <1>9, <3>1, FilesOrder
    <3>4. x[n - off + 2].file <= x[Len(x)].file /\ x[Len(x)].file \in Nat
      BY <1>0, <1>9, <3>1, <3>2, FilesOrder
    <3>5. g = x[n - off + 2].file /\ x[Len(x)].file <= m.headId /\ x[1].file = m.tailId
      BY <1>1, <1>3, <2>2
    <3>6. g \in Nat /\ m.tailId <= g
      BY <3>3, <3>5
    <3>7. g <= m.headId
      <4>1. m.headId \in Nat /\ g <= x[Len(x)].file
        BY <1>0, <3>4, <3>5
      <4>2. x[Len(x)].file \in Nat /\ x[Len(x)].file <= m.headId /\ g \in Nat
        BY <3>4, <3>5, <3>6
      <4> HIDE <1>1, <1>2, <1>3
      <4> QED BY <4>1, <4>2
    <3> QED BY <3>6, <3>7
  <2> QED BY <2>1, <2>2
<1>13. q + 2 <= Len(x) => x[q + 2].file = g
  <2> SUFFICES ASSUME q + 2 <= Len(x) PROVE x[q + 2].file = g
    OBVIOUS
  <2>1. CASE first = n
    <3>1. n # m.items
      BY <1>0, <1>8, <1>10, <1>11, <2>1
    <3>2. q + 2 = n - off + 2
      BY <2>1
    <3> QED BY <1>3, <3>1, <3>2
  <2>2. CASE first # n
    BY <1>0, <1>4, <1>8, <2>2
  <2> QED BY <2>1, <2>2
<1>14. q = 0 \/ x[q + 1].file # g
  <2>1. q # 0 => off < first
    BY <1>0, <1>8
  <2> QED BY <1>4, <2>1
<1> HIDE DEF q
<1> DEFINE l == Len(x) - q
<1>15. l \in Nat /\ l > 0 /\ Len(x) = l + q
  BY <1>10, <1>11
<1>16. /\ y \in Seq(Position) /\ Len(y) = l /\ y[1] = Entry(g, first)
       /\ \A i \in 2..l : y[i] = x[i + q]
  <2>1. Entry(g, first) \in Position
    BY <1>8, <1>12 DEF Entry, Position
  <2>2. y = <<Entry(g, first)>> \o SubSeq(x, q + 2, Len(x))
    BY <1>5 DEF q
  <2>3. q \in Nat /\ q < Len(x)
    BY <1>11
  <2>4. PICK e \in Position : e = Entry(g, first)
    BY <2>1
  <2>5. y = <<e>> \o SubSeq(x, q + 2, Len(x))
    BY <2>2, <2>4
  <2>6. y \in Seq(Position)
    BY <1>0, <2>3, <2>5, TailEntries
  <2>7. Len(y) = Len(x) - q
    BY <1>0, <2>3, <2>5, TailEntries
  <2>8. y[1] = e
    BY <1>0, <2>3, <2>5, TailEntries
  <2>9. \A i \in 2..Len(x) - q : y[i] = x[i + q]
    BY <1>0, <2>3, <2>5, TailEntries
  <2> QED BY <2>4, <2>6, <2>7, <2>8, <2>9
<1>17. y[1].off = first /\ y[1].file = g
  BY <1>16 DEF Entry
<1>18. Solid(t, y, d.data, c.data, h) /\ Stored(y) = Stored(x)
  <2>1. 2 <= l => x[q + 2].file = y[1].file /\ (q = 0 \/ x[q + 1].file # x[q + 2].file)
    <3>1. 2 <= l => q + 2 <= Len(x)
      BY <1>10, <1>11
    <3> QED BY <1>13, <1>14, <1>17, <3>1
  <2>2. y[1].off = x[1].off + q
    BY <1>1, <1>11, <1>17
  <2>3. q \in Nat
    BY <1>11
  <2> HIDE DEF l
  <2>6. x \in Seq(Position) /\ Solid(t, x, d.data, c.data, h)
    BY <1>0, <1>1
  <2>4. Solid(t, y, d.data, c.data, h)
    BY <1>15, <1>16, <2>1, <2>2, <2>3, <2>6, MoveTail
  <2>5. Stored(y) = Stored(x)
    <3>1. Stored(x) = x[1].off + Len(x) - 1 /\ x[1].off \in Nat /\ Len(x) = l + q
      BY <1>0, <1>1, <1>15, StoredNat DEF Position
    <3>2. Stored(y) = y[1].off + Len(y) - 1 /\ Len(y) = l
      <4>1. y # <<>>
        BY <1>15, <1>16
      <4> QED BY <1>16, <4>1, StoredNat
    <3>3. Stored(x) = x[1].off + (l + q) - 1
      BY <3>1
    <3>4. Stored(y) = (x[1].off + q) + l - 1
      BY <2>2, <3>2
    <3>5. x[1].off \in Nat /\ l \in Nat /\ q \in Nat
      BY <1>15, <2>3, <3>1
    <3>6. PICK o \in Nat : o = x[1].off
      BY <3>5
    <3>7. Stored(x) = o + (l + q) - 1 /\ Stored(y) = (o + q) + l - 1
      BY <3>3, <3>4, <3>6
    <3>8. o + (l + q) - 1 = (o + q) + l - 1
      <4>1. l \in Nat /\ q \in Nat
        BY <3>5
      <4> QED BY <4>1
    <3> QED BY <3>7, <3>8
  <2> QED BY <2>4, <2>5
<1> HIDE DEF l
<1>19. y # <<>>
  BY <1>15, <1>16
<1>20. /\ y[Len(y)].file <= m.headId /\ m.headId <= y[Len(y)].file + 1
       /\ Len(y) <= 1 => m.headId = y[1].file
       /\ m.headBytes = EndOf(y, m.headId)
  <2>1. CASE l > 1
    <3>1. y[Len(y)] = x[Len(x)] /\ Len(x) > 1 /\ Len(y) > 1
      <4>1. l \in 2..l /\ l + q = Len(x)
        BY <1>15, <2>1
      <4>2. y[l] = x[l + q]
        BY <1>16, <4>1
      <4>3. Len(x) > 1
        BY <1>11, <1>15, <2>1
      <4> QED BY <1>16, <2>1, <4>1, <4>2, <4>3
    <3>2. EndOf(y, m.headId) = EndOf(x, m.headId)
      BY <3>1 DEF EndOf
    <3>3. ~(Len(y) <= 1)
      BY <3>1
    <3> QED BY <1>1, <3>1, <3>2, <3>3
  <2>2. CASE l <= 1
    <3>0. l = 1
      BY <1>15, <2>2
    <3>1. Len(y) <= 1 /\ ~(Len(y) > 1) /\ y[Len(y)] = y[1]
      BY <1>16, <3>0
    <3>2. n = m.items /\ g = m.headId /\ q + 1 = Len(x)
      <4>1. first = m.items /\ q + 1 = Len(x)
        BY <1>0, <1>10, <1>11, <1>15, <3>0
      <4>2. n = m.items
        BY <1>0, <1>6, <1>8, <4>1
      <4> QED BY <1>3, <4>1, <4>2
    <3>3. EndOf(x, m.headId) = 0
      <4>1. CASE q = 0
        <5>1. Len(x) <= 1
          BY <1>15, <3>0, <4>1
        <5>3. ~(Len(x) > 1)
          BY <1>10, <5>1
        <5> QED BY <5>3 DEF EndOf
      <4>2. CASE q # 0
        <5>1. x[Len(x)].file # m.headId
          BY <1>14, <3>2, <4>2 DEF q
        <5> QED BY <5>1 DEF EndOf
      <4> QED BY <4>1, <4>2
    <3>4. EndOf(y, m.headId) = 0
      BY <3>1 DEF EndOf
    <3>5. y[Len(y)].file = m.headId
      BY <1>17, <3>1, <3>2
    <3> QED BY <1>0, <1>1, <1>17, <3>1, <3>2, <3>3, <3>4, <3>5
  <2> QED BY <1>15, <2>1, <2>2
<1>21. x[1] # y[1]
  BY <1>1, <1>17
<1>22. Counted(x, y, c.data, m, "drop")
  BY <1>1, <1>12, <1>17, <1>18, <1>19, <1>20, <1>21 DEF Counted, n, off
<1>23. FilesAgree(dn, cn, s, a)
  <2>1. Covered(x, c.meta, c.meta, s, a) /\ c.meta <= a
    BY <1>1, <1>2 DEF FilesAgree, Covered, x
  <2>2. y[1].off <= c.meta
    BY <1>1, <1>8, <1>17
  <2>3. Covered(y, c.meta, c.meta, s, a)
    BY <1>18, <2>1, <2>2 DEF Covered
  <2>4. Comparable(x, y)
    BY <1>1, <1>19, <1>21 DEF Comparable
  <2> QED BY <1>1, <2>1, <2>3, <2>4 DEF FilesAgree, y
<1> QED BY <1>1, <1>16, <1>18, <1>22, <1>23 DEF OpenOK, y, n

\* truncateTail removes the files before the tail, and the counters follow.
BeforeTail(m, x) == {f \in m.files : f < x[1].file}
TailMoved(m, mn, x) ==
    /\ mn.items = m.items /\ mn.headBytes = m.headBytes
    /\ mn.itemOffset = x[1].off /\ mn.itemHidden = m.itemHidden /\ mn.headId = m.headId
    /\ mn.tailId = x[1].file /\ mn.files = m.files \ BeforeTail(m, x)

\* The new index is synced and the files before the tail are removed.
LEMMA OpenTailFiles ==
  ASSUME NEW t \in Table, NEW d \in Files, NEW c \in Files, NEW m \in Memory, NEW h \in Seq(Payload),
         NEW s \in Nat, NEW a \in Nat, OpenOK(t, d, c, m, h, "drop", s, a),
         NEW dn, dn.index = c.index, dn.meta = d.meta, dn.data = d.data,
         NEW cn, cn.index = c.index, cn.meta = c.meta, cn.data = WithoutFiles(c.data, BeforeTail(m, c.index)),
         NEW mn, TailMoved(m, mn, c.index)
  PROVE  /\ cn.data \in Data /\ c.index[1].off \in Nat /\ c.index[1].file \in Nat
         /\ OpenOK(t, dn, cn, mn, h, "none", s, a)
<1> DEFINE before == BeforeTail(m, c.index)
<1>16. /\ before = {f \in m.files : f < c.index[1].file} /\ cn.data = WithoutFiles(c.data, before)
      /\ mn.items = m.items /\ mn.headBytes = m.headBytes
      /\ mn.itemOffset = c.index[1].off /\ mn.itemHidden = m.itemHidden /\ mn.headId = m.headId
      /\ mn.tailId = c.index[1].file /\ mn.files = m.files \ before
  BY DEF BeforeTail, TailMoved
<1> HIDE DEF before
<1> DEFINE x == c.index
<1> DEFINE cd == c.data
<1> DEFINE cx == cn.data
<1>0. cd \in Data /\ x \in Seq(Position) /\ m.headId \in Nat /\ m.tailId \in Nat
  BY Fields
<1>1. /\ x # <<>> /\ Solid(t, x, d.data, cd, h) /\ m.tailId <= x[1].file
      /\ m.files = m.tailId .. m.headId /\ m.files \subseteq DOMAIN cd /\ m.tailId <= m.headId
      /\ x[Len(x)].file <= m.headId /\ (Len(x) <= 1 => m.headId = x[1].file)
      /\ m.headId <= x[Len(x)].file + 1 /\ m.headBytes = EndOf(x, m.headId) /\ Stored(x) = m.items
      /\ Len(cd[m.headId]) = m.headBytes /\ m.itemHidden = c.meta
  BY DEF OpenOK, Counted
<1>2. FilesAgree(d, c, s, a)
  BY DEF OpenOK
<1>3. x[1].off <= c.meta
  BY <1>1, <1>2 DEF FilesAgree, Covered
<1>4. before = {f \in m.files : f < x[1].file} /\ cx = WithoutFiles(cd, before)
      /\ mn.files = m.files \ before /\ mn.tailId = x[1].file /\ mn.itemOffset = x[1].off
  BY <1>16
<1>5. Formed(t, x, h)
  BY <1>1 DEF Solid
<1> HIDE DEF x, cd, cx
<1>6. 1 \in 1..Len(x) /\ Len(x) \in 1..Len(x) /\ 1 <= Len(x)
  BY <1>0, <1>1
<1>7. x[1].file <= x[Len(x)].file /\ x[1].file \in Nat /\ x[Len(x)].file \in Nat /\ x[1].off \in Nat
  BY <1>0, <1>5, <1>6, FilesOrder
<1>8. x[1].file <= m.headId
  BY <1>0, <1>1, <1>7
<1>9. \A i \in 2..Len(x) : x[i].file \notin before
  <2> SUFFICES ASSUME NEW i \in 2..Len(x) PROVE x[i].file \notin before
    OBVIOUS
  <2>1. x[1].file <= x[i].file /\ x[i].file \in Nat
    BY <1>0, <1>5, Entries DEF Position
  <2> QED BY <1>4, <1>7, <2>1
<1>10. cx \in Data /\ DOMAIN cx = DOMAIN cd \ before /\ \A k \in DOMAIN cx : cx[k] = cd[k]
  <2>1. cx = WithoutFiles(cd, before) /\ cd \in Data
    BY <1>0, <1>4
  <2>2. cx \in Data
    BY <2>1, RemoveFiles
  <2>3. DOMAIN cx = DOMAIN cd \ before
    BY <2>1 DEF WithoutFiles
  <2>4. \A k \in DOMAIN cx : cx[k] = cd[k]
    BY <2>1 DEF WithoutFiles
  <2> QED BY <2>2, <2>3, <2>4
<1>11. Solid(t, x, d.data, cx, h)
  <2>1. PICK F : F = before
    OBVIOUS
  <2>2. cx = WithoutFiles(cd, F) /\ \A i \in 2..Len(x) : x[i].file \notin F
    BY <1>4, <1>9, <2>1
  <2>3. cd \in Data /\ x \in Seq(Position) /\ Solid(t, x, d.data, cd, h) /\ h \in Seq(Payload)
    BY <1>0, <1>1
  <2> HIDE DEF cx, cd, x
  <2> QED BY ONLY t \in Table, <2>2, <2>3, RemoveFiles
<1>12. mn.files = x[1].file .. m.headId /\ mn.files \subseteq DOMAIN cx
  <2>1. \A f : f \in (m.tailId .. m.headId) \ {k \in m.tailId .. m.headId : k < x[1].file}
               <=> f \in x[1].file .. m.headId
    BY <1>0, <1>1, <1>7
  <2>2. (m.tailId .. m.headId) \ {k \in m.tailId .. m.headId : k < x[1].file} = x[1].file .. m.headId
    BY <2>1
  <2>3. mn.files = x[1].file .. m.headId
    BY <1>1, <1>4, <2>2
  <2>4. mn.files \subseteq DOMAIN cx
    BY <1>1, <1>4, <1>10
  <2> QED BY <2>3, <2>4
<1>13. m.headId \in DOMAIN cx
  <2>1. m.headId \in x[1].file .. m.headId
    BY <1>0, <1>7, <1>8
  <2> QED BY <1>12, <2>1
<1>14. Counted(x, x, cx, mn, "none")
  BY <1>1, <1>3, <1>4, <1>8, <1>10, <1>12, <1>13, <1>16 DEF Counted
<1>15. FilesAgree(dn, cn, s, a)
  <2>1. Comparable(x, x)
    BY DEF Comparable, IsPfx
  <2> QED BY <1>2, <2>1 DEF FilesAgree, x
<1> QED BY <1>1, <1>7, <1>10, <1>11, <1>14, <1>15, <1>16 DEF OpenOK, x, cx

-----------------------------------------------------------------------------
(* What a crash leaves                                                     *)

\* The content a crash leaves of a file keeps what the synced and the current
\* one have in common, and is a front part of one of them.
LEMMA BetweenFacts ==
  ASSUME NEW S, NEW d \in Seq(S), NEW c \in Seq(S), NEW r \in Between(d, c)
  PROVE  /\ r \in Seq(S) /\ (IsPfx(r, d) \/ IsPfx(r, c))
         /\ \A n \in Nat : n <= Len(d) /\ n <= Len(c) /\ (\A j \in 1..n : d[j] = c[j])
                => n <= Len(r) /\ \A j \in 1..n : r[j] = c[j]
<1> DEFINE L == Min({Len(d), Len(c)})
<1> DEFINE K == {k \in 0 .. L : Prefix(d, k) = Prefix(c, k)}
<1> DEFINE same == Max(K)
<1>1. L \in Nat /\ L <= Len(d) /\ L <= Len(c) /\ (L = Len(d) \/ L = Len(c))
  <2>1. {Len(d), Len(c)} \subseteq Nat /\ {Len(d), Len(c)} # {}
    OBVIOUS
  <2>2. L \in {Len(d), Len(c)} /\ \A y \in {Len(d), Len(c)} : L <= y
    BY <2>1, LeastNat
  <2> HIDE DEF L
  <2> QED BY <2>1, <2>2
<1> HIDE DEF L
<1>2. 0 \in K
  <2>1. Prefix(d, 0) = <<>> /\ Prefix(c, 0) = <<>>
    BY DEF Prefix
  <2> QED BY <1>1, <2>1
<1>3. same \in K /\ \A y \in K : y <= same
  <2>1. K \subseteq 0 .. L /\ K # {}
    BY <1>2
  <2> HIDE DEF K
  <2> QED BY <1>1, <2>1, GreatestNat
<1>4. r \in {Prefix(d, k) : k \in same .. Len(d)} \cup {Prefix(c, k) : k \in same .. Len(c)}
  BY DEF Between, L
<1>5. same \in Nat /\ same <= L
  BY <1>1, <1>3
<1> HIDE DEF same, K
<1>6. PICK q \in {d, c} : \E k \in same .. Len(q) : r = Prefix(q, k)
  BY <1>4
<1>7. PICK k \in same .. Len(q) : r = Prefix(q, k)
  BY <1>6
<1>8. q \in Seq(S) /\ k \in Nat /\ k <= Len(q) /\ same <= k
  BY <1>5, <1>6, <1>7
<1>9. r \in Seq(S) /\ Len(r) = k /\ (\A i \in 1..k : r[i] = q[i]) /\ IsPfx(r, q)
  BY <1>7, <1>8, PrefixFacts
<1>10. ASSUME NEW n \in Nat, n <= Len(d), n <= Len(c), \A j \in 1..n : d[j] = c[j]
       PROVE  n <= Len(r) /\ \A j \in 1..n : r[j] = c[j]
  <2>1. /\ Prefix(d, n) \in Seq(S) /\ Len(Prefix(d, n)) = n /\ \A i \in 1..n : Prefix(d, n)[i] = d[i]
        /\ Prefix(c, n) \in Seq(S) /\ Len(Prefix(c, n)) = n /\ \A i \in 1..n : Prefix(c, n)[i] = c[i]
    BY <1>10, PrefixFacts
  <2>2. Prefix(d, n) = Prefix(c, n)
    BY <1>10, <2>1
  <2>3. n \in K
    BY <1>1, <1>10, <2>2 DEF K
  <2>4. n <= same
    BY <1>3, <2>3
  <2>5. n <= k
    BY <1>5, <1>8, <2>4
  <2>6. \A j \in 1..n : r[j] = q[j] /\ q[j] = c[j]
    BY <1>6, <1>8, <1>9, <1>10, <2>5
  <2> QED BY <1>9, <2>5, <2>6
<1> QED BY <1>6, <1>9, <1>10

\* The same for one length.
LEMMA BetweenKeeps ==
  ASSUME NEW S, NEW d \in Seq(S), NEW c \in Seq(S), NEW r \in Between(d, c),
         NEW n \in Nat, n <= Len(d), n <= Len(c), \A j \in 1..n : d[j] = c[j]
  PROVE  n <= Len(r)
<1>1. \A k \in Nat : k <= Len(d) /\ k <= Len(c) /\ (\A j \in 1..k : d[j] = c[j])
                => k <= Len(r) /\ \A j \in 1..k : r[j] = c[j]
  BY BetweenFacts
<1> QED BY <1>1

\* A crash leaves the data files that were there before and after.
LEMMA DataLeftFacts ==
  ASSUME NEW dd \in Data, NEW cd \in Data, NEW r \in DataLeft(dd, cd)
  PROVE  /\ r \in Data
         /\ \A f \in DOMAIN dd \cap DOMAIN cd : f \in DOMAIN r /\ r[f] \in Between(dd[f], cd[f])
<1> DEFINE Both == DOMAIN dd \cap DOMAIN cd
<1> DEFINE Content == [f \in DOMAIN dd \cup DOMAIN cd |->
                        CASE f \notin DOMAIN dd -> Between(<<>>, cd[f]) \ {<<>>}
                          [] f \notin DOMAIN cd -> {dd[f]}
                          [] OTHER -> Between(dd[f], cd[f])]
<1>1. PICK F \in SUBSET (DOMAIN Content \ Both) : r \in Picks([f \in Both \cup F |-> Content[f]])
  BY DEF DataLeft
<1>2. DOMAIN r = Both \cup F /\ r = [f \in Both \cup F |-> r[f]] /\ \A f \in Both \cup F : r[f] \in Content[f]
  BY <1>1 DEF Picks
<1>3. DOMAIN dd \subseteq Nat /\ DOMAIN cd \subseteq Nat
      /\ (\A g \in DOMAIN cd : cd[g] \in Seq(Payload)) /\ (\A g \in DOMAIN dd : dd[g] \in Seq(Payload))
  BY DataFacts
<1>4. \A f \in Both : Content[f] = Between(dd[f], cd[f])
  OBVIOUS
<1>5. ASSUME NEW f \in Both \cup F PROVE r[f] \in Seq(Payload)
  <2>0. f \in DOMAIN dd \cup DOMAIN cd /\ r[f] \in Content[f]
    BY <1>2
  <2>1. CASE f \notin DOMAIN dd
    <3>1. r[f] \in Between(<<>>, cd[f]) /\ cd[f] \in Seq(Payload) /\ <<>> \in Seq(Payload)
      BY <1>3, <2>0, <2>1
    <3> QED BY <3>1, BetweenFacts
  <2>2. CASE f \in DOMAIN dd /\ f \notin DOMAIN cd
    BY <1>3, <2>0, <2>2
  <2>3. CASE f \in DOMAIN dd /\ f \in DOMAIN cd
    <3>1. r[f] \in Between(dd[f], cd[f]) /\ cd[f] \in Seq(Payload) /\ dd[f] \in Seq(Payload)
      BY <1>3, <2>0, <2>3
    <3> QED BY <3>1, BetweenFacts
  <2> QED BY <2>0, <2>1, <2>2, <2>3
<1>6. r \in Data
  <2>1. Both \cup F \in SUBSET Nat
    BY <1>1, <1>3
  <2>2. r \in [Both \cup F -> Seq(Payload)]
    BY <1>2, <1>5
  <2> HIDE DEF Both
  <2> QED BY <2>1, <2>2, DataMade
<1> QED BY <1>2, <1>4, <1>6

\* The index a crash leaves is between the synced and the current one.
LEMMA IndexLeftFacts ==
  ASSUME NEW d \in Seq(Position), NEW c \in Seq(Position), Comparable(d, c), NEW r \in IndexLeft(d, c)
  PROVE  r \in Seq(Position) /\ (IsPfx(r, d) \/ IsPfx(r, c)) /\ (IsPfx(d, r) \/ IsPfx(c, r))
<1>1. CASE d # <<>> /\ c # <<>> /\ d[1] # c[1]
  <2>1. r \in {d, c}
    BY <1>1 DEF IndexLeft
  <2>2. IsPfx(d, d) /\ IsPfx(c, c)
    BY DEF IsPfx
  <2> QED BY <2>1, <2>2
<1>2. CASE ~(d # <<>> /\ c # <<>> /\ d[1] # c[1])
  <2>1. r \in Between(d, c) /\ (IsPfx(d, c) \/ IsPfx(c, d))
    BY <1>2 DEF IndexLeft, Comparable
  <2>2. r \in Seq(Position) /\ (IsPfx(r, d) \/ IsPfx(r, c))
    BY <2>1, BetweenFacts
  <2>3. \A n \in Nat : n <= Len(d) /\ n <= Len(c) /\ (\A j \in 1..n : d[j] = c[j])
                => n <= Len(r) /\ \A j \in 1..n : r[j] = c[j]
    BY <2>1, BetweenFacts
  <2>4. Len(d) \in Nat /\ Len(c) \in Nat
    OBVIOUS
  <2>5. CASE IsPfx(d, c)
    <3>1. Len(d) <= Len(c) /\ \A i \in 1..Len(d) : d[i] = c[i]
      BY <2>5 DEF IsPfx
    <3>2. Len(d) <= Len(r) /\ \A j \in 1..Len(d) : r[j] = c[j]
      BY <2>3, <2>4, <3>1
    <3>3. IsPfx(d, r)
      BY <3>1, <3>2 DEF IsPfx
    <3> QED BY <2>2, <3>3
  <2>6. CASE IsPfx(c, d)
    <3>1. Len(c) <= Len(d) /\ \A i \in 1..Len(c) : d[i] = c[i]
      BY <2>6 DEF IsPfx
    <3>2. Len(c) <= Len(r) /\ \A j \in 1..Len(c) : r[j] = c[j]
      BY <2>3, <2>4, <3>1
    <3>3. IsPfx(c, r)
      BY <3>2 DEF IsPfx
    <3> QED BY <2>2, <3>3
  <2> QED BY <2>1, <2>5, <2>6
<1> QED BY <1>1, <1>2

\* A longer index covers no fewer items.
LEMMA StoredPfx ==
  ASSUME NEW x \in Seq(Position), NEW y \in Seq(Position), IsPfx(y, x)
  PROVE  Stored(y) <= Stored(x) /\ (y # <<>> => x # <<>> /\ y[1] = x[1])
<1>1. CASE y = <<>>
  BY <1>1, StoredNat DEF Stored
<1>2. CASE y # <<>>
  <2>1. x # <<>> /\ y[1] = x[1] /\ Len(y) <= Len(x)
    BY <1>2 DEF IsPfx
  <2>2. Stored(x) = x[1].off + Len(x) - 1 /\ Stored(y) = x[1].off + Len(y) - 1 /\ x[1] \in Position
    BY <1>2, <2>1, StoredNat
  <2> QED BY <2>1, <2>2 DEF Position
<1> QED BY <1>1, <1>2

\* Whatever is left of the data files, the index entries that are required have their items.
LEMMA HoldsLeft ==
  ASSUME NEW t \in Table, NEW x \in Seq(Position), NEW h \in Seq(Payload), NEW dd \in Data, NEW cd \in Data,
         NEW lo \in Nat, Holds(t, x, dd, cd, h, lo), NEW r \in DataLeft(dd, cd), NEW ln \in Nat, ln <= lo
  PROVE  Holds(t, x, r, r, h, ln)
<1>1. Formed(t, x, h)
  BY DEF Holds
<1> SUFFICES ASSUME NEW i \in 2..Len(x)
             PROVE  LET f == x[i].file
                    IN  /\ f \in DOMAIN r /\ Sound(x, i, r[f], h)
                        /\ f # x[Len(x)].file \/ Num(x, i) < ln => Full(x, i, r[f], r[f], h)
  BY <1>1 DEF Holds
<1> DEFINE f == x[i].file
<1>2. /\ f \in DOMAIN dd /\ f \in DOMAIN cd
      /\ Sound(x, i, dd[f], h) /\ Sound(x, i, cd[f], h)
      /\ f # x[Len(x)].file \/ Num(x, i) < lo => Full(x, i, dd[f], cd[f], h)
  BY DEF Holds
<1>3. Start(x, i) \in Nat /\ x[i].off \in Nat /\ Num(x, i) \in Nat
  BY <1>1, Entries DEF Position
<1> HIDE DEF f
<1>4. f \in DOMAIN r /\ r[f] \in Between(dd[f], cd[f]) /\ dd[f] \in Seq(Payload) /\ cd[f] \in Seq(Payload)
  BY <1>2, DataFacts, DataLeftFacts
<1>5. r[f] \in Seq(Payload) /\ (IsPfx(r[f], dd[f]) \/ IsPfx(r[f], cd[f]))
  BY <1>4, BetweenFacts
<1>7. Sound(x, i, r[f], h)
  <2> SUFFICES ASSUME x[i].off <= Len(r[f]) PROVE Written(x, i, r[f], h)
    BY DEF Sound
  <2>1. PICK q \in {dd[f], cd[f]} : IsPfx(r[f], q)
    BY <1>5
  <2>2. Len(r[f]) <= Len(q) /\ (\A j \in 1..Len(r[f]) : r[f][j] = q[j]) /\ Len(q) \in Nat /\ Len(r[f]) \in Nat
    BY <1>4, <1>5, <2>1 DEF IsPfx
  <2>3. x[i].off <= Len(q)
    BY <1>3, <2>2
  <2>4. Written(x, i, q, h)
    BY <1>2, <2>1, <2>3 DEF Sound
  <2> QED BY <1>3, <2>2, <2>4 DEF Written
<1>8. ASSUME f # x[Len(x)].file \/ Num(x, i) < ln PROVE Full(x, i, r[f], r[f], h)
  <2>1. f # x[Len(x)].file \/ Num(x, i) < lo
    BY <1>3, <1>8
  <2>2. /\ x[i].off <= Len(dd[f]) /\ x[i].off <= Len(cd[f])
        /\ \A j \in 1 .. x[i].off : dd[f][j] = cd[f][j]
    BY <1>2, <2>1 DEF Full
  <2>3. x[i].off <= Len(r[f])
    <3> DEFINE u == dd[f]
    <3> DEFINE v == cd[f]
    <3> DEFINE w == r[f]
    <3> DEFINE o == x[i].off
    <3>1. u \in Seq(Payload) /\ v \in Seq(Payload) /\ w \in Between(u, v) /\ o \in Nat
          /\ o <= Len(u) /\ o <= Len(v) /\ \A j \in 1..o : u[j] = v[j]
      BY <1>3, <1>4, <2>2
    <3> HIDE DEF u, v, w, o
    <3>2. o <= Len(w)
      BY <3>1, BetweenKeeps
    <3> QED BY <3>2 DEF w, o
  <2> QED BY <1>7, <2>3 DEF Full, Sound
<1> QED BY <1>4, <1>7, <1>8 DEF f

\* An open table is fit to be closed.
LEMMA OpenCloses ==
  ASSUME NEW t \in Table, NEW d \in Files, NEW c \in Files, NEW m, NEW h, NEW ph, NEW s, NEW a,
         OpenOK(t, d, c, m, h, ph, s, a)
  PROVE  ClosedOK(t, d, c, h, s, a)
<1>1. d.index \in Seq(Position) /\ c.index \in Seq(Position)
  BY Fields
<1>2. FilesAgree(d, c, s, a) /\ Solid(t, d.index, d.data, c.data, h) /\ Solid(t, c.index, d.data, c.data, h)
  BY DEF OpenOK
<1>3. Holds(t, d.index, d.data, c.data, h, Lo(s, a))
  BY <1>1, <1>2, SolidHolds
<1>4. Holds(t, c.index, d.data, c.data, h, Lo(s, a))
  BY <1>1, <1>2, SolidHolds
<1> QED BY <1>2, <1>3, <1>4 DEF ClosedOK

\* A table after a crash.
LEMMA ClosedCrash ==
  ASSUME NEW t \in Table, NEW d \in Files, NEW c \in Files, NEW h \in Seq(Payload),
         NEW s \in Nat, NEW a \in Nat, ClosedOK(t, d, c, h, s, a),
         NEW r \in FilesLeft(d, c), NEW an \in Nat, an <= a, r.meta <= an
  PROVE  /\ r \in Files /\ Stored(r.index) \in Nat /\ Stored(r.index) <= Len(h)
         /\ ClosedOK(t, r, r, Prefix(h, Stored(r.index)), s, an)
<1> DEFINE x == r.index
<1> DEFINE dd == d.data
<1> DEFINE cd == c.data
<1> DEFINE rd == r.data
<1>0. d.index \in Seq(Position) /\ c.index \in Seq(Position) /\ dd \in Data /\ cd \in Data
      /\ d.meta \in Nat /\ c.meta \in Nat
  BY Fields
<1>1. /\ x \in IndexLeft(d.index, c.index) /\ r.meta \in {d.meta, c.meta} /\ rd \in DataLeft(dd, cd)
      /\ r = [index |-> x, meta |-> r.meta, data |-> rd]
  BY DEF FilesLeft
<1>2. FilesAgree(d, c, s, a)
  BY DEF ClosedOK
<1>3. Comparable(d.index, c.index)
  BY <1>2 DEF FilesAgree
<1> DEFINE lo == Lo(s, a)
<1>4. Holds(t, d.index, dd, cd, h, lo) /\ Holds(t, c.index, dd, cd, h, lo)
  BY DEF ClosedOK
<1> HIDE DEF x, dd, cd, rd
<1>5. x \in Seq(Position) /\ (IsPfx(x, d.index) \/ IsPfx(x, c.index)) /\ (IsPfx(d.index, x) \/ IsPfx(c.index, x))
  BY <1>0, <1>1, <1>3, IndexLeftFacts
<1>6. rd \in Data
  BY <1>0, <1>1, DataLeftFacts
<1>7. r \in Files
  BY <1>0, <1>1, <1>5, <1>6 DEF Files
<1>8. lo \in Nat /\ Lo(s, an) \in Nat /\ Lo(s, an) <= lo
  BY DEF Lo
<1> HIDE DEF lo
<1>9. Holds(t, x, dd, cd, h, lo)
  BY <1>0, <1>4, <1>5, HoldsPfx
<1>10. Holds(t, x, rd, rd, h, Lo(s, an))
  BY <1>0, <1>1, <1>5, <1>8, <1>9, HoldsLeft
<1>11. Stored(x) \in Nat /\ Stored(x) <= Len(h)
  BY <1>5, <1>9, StoredNat DEF Holds, Formed
<1> DEFINE hn == Prefix(h, Stored(x))
<1>12. hn \in Seq(Payload) /\ Len(hn) = Stored(x) /\ \A n \in 1..Stored(x) : hn[n] = h[n]
  BY <1>11, PrefixFacts
<1>13. Holds(t, x, rd, rd, hn, Lo(s, an))
  <2> HIDE DEF hn
  <2>1. Stored(x) <= Len(hn)
    BY <1>11, <1>12
  <2> QED BY <1>5, <1>10, <1>12, <2>1, HoldsHist
<1>14. s <= Stored(x) /\ a <= Stored(x)
  <2>1. PICK z \in {d.index, c.index} : IsPfx(z, x)
    BY <1>5
  <2>2. s <= Stored(z) /\ a <= Stored(z) /\ z \in Seq(Position)
    BY <1>0, <1>2, <2>1 DEF FilesAgree, Covered
  <2>3. Stored(z) <= Stored(x) /\ Stored(z) \in Nat
    BY <1>5, <2>1, <2>2, StoredPfx, StoredNat
  <2> QED BY <1>11, <2>2, <2>3
<1>15. x # <<>> => x[1].off <= r.meta
  <2> SUFFICES ASSUME x # <<>> PROVE x[1].off <= r.meta
    OBVIOUS
  <2>1. PICK z \in {d.index, c.index} : IsPfx(x, z)
    BY <1>5
  <2>2. z \in Seq(Position)
    BY <1>0, <2>1
  <2>3. z # <<>> /\ z[1] = x[1]
    BY <1>5, <2>1, <2>2, StoredPfx
  <2>4. z[1].off <= d.meta /\ z[1].off <= c.meta
    BY <1>2, <2>1, <2>3 DEF FilesAgree, Covered
  <2> QED BY <1>1, <2>3, <2>4
<1>16. FilesAgree(r, r, s, an)
  <2>1. an <= Stored(x)
    BY <1>11, <1>14
  <2>2. Comparable(x, x)
    BY DEF Comparable, IsPfx
  <2> QED BY <1>14, <1>15, <2>1, <2>2 DEF FilesAgree, Covered, x
<1> QED BY <1>7, <1>11, <1>13, <1>16 DEF ClosedOK, x, rd

-----------------------------------------------------------------------------
(* The steps of one closed table                                           *)

\* Close syncs everything.
LEMMA ClosedClose ==
  ASSUME NEW t \in Table, NEW d \in Files, NEW c \in Files, NEW m \in Memory, NEW h \in Seq(Payload),
         NEW s, NEW a, OpenOK(t, d, c, m, h, "none", s, a)
  PROVE  ClosedOK(t, c, c, h, s, a)
<1> DEFINE x == c.index
<1> DEFINE cd == c.data
<1>0. x \in Seq(Position) /\ d.index = x
  BY Fields, OpenFacts
<1>1. Solid(t, x, d.data, cd, h)
  BY DEF OpenOK
<1>2. Solid(t, x, cd, cd, h)
  <2> HIDE DEF x, cd
  <2> SUFFICES ASSUME NEW i \in 2..Len(x)
               PROVE  LET f == x[i].file
                      IN  /\ f \in DOMAIN cd /\ f \in DOMAIN cd
                          /\ x[i].off <= Len(cd[f]) /\ x[i].off <= Len(cd[f])
                          /\ \A j \in 1..x[i].off : cd[f][j] = cd[f][j] /\ cd[f][j] = cd[f][j]
    BY <1>0, <1>1, SolidData
  <2> QED BY <1>1 DEF Solid, Full
<1>3. FilesAgree(d, c, s, a)
  BY DEF OpenOK
<1>4. FilesAgree(c, c, s, a)
  <2>1. Comparable(x, x)
    BY DEF Comparable, IsPfx
  <2> QED BY <1>3, <2>1 DEF FilesAgree, Covered
<1>5. Holds(t, x, cd, cd, h, Lo(s, a))
  <2> HIDE DEF x, cd
  <2> QED BY <1>0, <1>2, SolidHolds
<1> QED BY <1>4, <1>5 DEF ClosedOK

\* The entries that survive a cut of the last file at k are the first ones.
LEMMA KeptEntries ==
  ASSUME NEW t \in Table, NEW x \in Seq(Position), NEW h \in Seq(Payload), Formed(t, x, h),
         NEW k \in Nat, NEW f, f = x[Len(x)].file, NEW i \in 2..Len(x),
         i - 2 < Cardinality({j \in 2..Len(x) : x[j].file # f \/ x[j].off <= k})
  PROVE  x[i].file # f \/ x[i].off <= k
<1> DEFINE K == {j \in 2..Len(x) : x[j].file # f \/ x[j].off <= k}
<1> SUFFICES ASSUME x[i].file = f, ~(x[i].off <= k) PROVE FALSE
  OBVIOUS
<1>0. x[i].off \in Nat /\ x[i].file \in Nat
  BY Entries DEF Position
<1>1. \A j \in K : j \in 2..i - 1
  <2> SUFFICES ASSUME NEW j \in K PROVE j < i
    OBVIOUS
  <2>0. j \in 2..Len(x) /\ (x[j].file # f \/ x[j].off <= k)
    OBVIOUS
  <2> HIDE DEF K
  <2>1. j # i
    BY <2>0
  <2>2. ASSUME i < j PROVE FALSE
    <3>1. x[i].file <= x[j].file /\ x[j].file <= f /\ x[j].file \in Nat /\ x[j].off \in Nat
      <4>1. i \in 1..Len(x) /\ j \in 1..Len(x) /\ i <= j
        BY <2>0, <2>2
      <4>2. x[i].file <= x[j].file /\ x[j].file \in Nat /\ x[j].off \in Nat
        BY <4>1, FilesOrder
      <4>3. x[j].file <= x[Len(x)].file
        BY <2>0, Entries
      <4> QED BY <4>2, <4>3
    <3>2. x[j].file = f
      BY <1>0, <3>1
    <3>3. x[i].off < x[j].off
      BY <2>0, <2>2, <3>2 DEF Formed, Shape
    <3>4. ~(x[j].off <= k)
      BY <1>0, <3>1, <3>3
    <3> QED BY <2>0, <3>2, <3>4
  <2> QED BY <2>0, <2>1, <2>2
<1>2. Cardinality(2..i - 1) = i - 2 /\ IsFiniteSet(2..i - 1)
  <2>1. 2 \in Int /\ i - 1 \in Int
    OBVIOUS
  <2>2. IsFiniteSet(2..i - 1) /\ Cardinality(2..i - 1) = IF 2 > i - 1 THEN 0 ELSE (i - 1) - 2 + 1
    BY <2>1, FS_Interval
  <2> QED BY <2>2
<1>3. K \subseteq 2..i - 1
  BY <1>1
<1>4. Cardinality(K) <= i - 2 /\ Cardinality(K) \in Nat
  <2> HIDE DEF K
  <2>1. IsFiniteSet(K) /\ Cardinality(K) <= Cardinality(2..i - 1)
    BY <1>2, <1>3, FS_Subset
  <2>2. Cardinality(K) \in Nat
    BY <2>1, FS_CardinalityType
  <2> QED BY <1>2, <2>1, <2>2
<1>5. i - 2 < Cardinality(K)
  OBVIOUS
<1> HIDE DEF K
<1> QED BY <1>4, <1>5

\* The number after the last item that is complete when file f, the last one of
\* index x, is cut to length k.
Intact(x, f, k) == x[1].off + Cardinality({j \in 2..Len(x) : x[j].file # f \/ x[j].off <= k})
FileCut(cd, cn, f, k) == Changed(cd, cn, f, Prefix(cd[f], k))

\* The end of the last data file is lost, down to no item below a.
LEMMA ClosedLoss ==
  ASSUME NEW t \in Table, NEW c \in Files, NEW h \in Seq(Payload),
         NEW s \in Nat, NEW a \in Nat, ClosedOK(t, c, c, h, s, a), Len(c.index) > 1,
         NEW f, f = c.index[Len(c.index)].file, NEW k \in Nat, k <= Len(c.data[f]),
         a <= Intact(c.index, f, k),
         NEW cn, cn.index = c.index, cn.meta = c.meta, FileCut(c.data, cn.data, f, k)
  PROVE  ClosedOK(t, cn, cn, h, 0, a)
<1> DEFINE x == c.index
<1> DEFINE cd == c.data
<1> DEFINE cx == cn.data
<1> DEFINE n == Cardinality({j \in 2..Len(x) : x[j].file # f \/ x[j].off <= k})
<1>0. x \in Seq(Position) /\ cd \in Data
  BY Fields
<1>1. Holds(t, x, cd, cd, h, Lo(s, a)) /\ FilesAgree(c, c, s, a)
  BY DEF ClosedOK
<1>2. Formed(t, x, h)
  BY <1>1 DEF Holds
<1>3. f = x[Len(x)].file /\ Len(x) > 1 /\ Changed(cd, cx, f, Prefix(cd[f], k)) /\ k <= Len(cd[f])
      /\ a <= x[1].off + n
  BY DEF Intact, FileCut
<1> HIDE DEF x, cd, cx
<1>4. f \in DOMAIN cd
  <2>1. Len(x) \in 2..Len(x)
    BY <1>3
  <2> QED BY <1>1, <1>3, <2>1 DEF Holds
<1>5. cd[f] \in Seq(Payload)
  BY <1>0, <1>4, DataFacts
<1>6. Prefix(cd[f], k) \in Seq(Payload) /\ Len(Prefix(cd[f], k)) = k
      /\ \A j \in 1..k : Prefix(cd[f], k)[j] = cd[f][j]
  BY <1>3, <1>5, PrefixFacts
<1>7. /\ DOMAIN cx = DOMAIN cd /\ Len(cx[f]) = k /\ \A j \in 1..k : cx[f][j] = cd[f][j]
      /\ \A g \in DOMAIN cd \ {f} : cx[g] = cd[g]
  BY <1>3, <1>4, <1>6 DEF Changed
<1>8. n \in Nat
  <2> DEFINE K == {j \in 2..Len(x) : x[j].file # f \/ x[j].off <= k}
  <2>1. Len(x) \in Int /\ 2 \in Int
    BY <1>0
  <2>2. IsFiniteSet(2..Len(x))
    BY <2>1, FS_Interval
  <2>3. K \subseteq 2..Len(x)
    OBVIOUS
  <2> HIDE DEF K
  <2>4. IsFiniteSet(K)
    BY <2>2, <2>3, FS_Subset
  <2>5. Cardinality(K) \in Nat
    BY <2>4, FS_CardinalityType
  <2> QED BY <2>5 DEF K
<1>9. Holds(t, x, cx, cx, h, Lo(0, a))
  <2> SUFFICES ASSUME NEW i \in 2..Len(x)
               PROVE  LET g == x[i].file
                      IN  /\ g \in DOMAIN cx /\ Sound(x, i, cx[g], h)
                          /\ g # x[Len(x)].file \/ Num(x, i) < Lo(0, a) => Full(x, i, cx[g], cx[g], h)
    BY <1>2 DEF Holds
  <2> DEFINE g == x[i].file
  <2>1. /\ g \in DOMAIN cd /\ Sound(x, i, cd[g], h)
        /\ g # x[Len(x)].file \/ Num(x, i) < Lo(s, a) => Full(x, i, cd[g], cd[g], h)
    BY <1>1 DEF Holds
  <2>2. x[i].off \in Nat /\ Start(x, i) \in Nat /\ Num(x, i) \in Nat
    BY <1>0, <1>2, Entries DEF Position
  <2>3. CASE g # f
    <3>1. cx[g] = cd[g] /\ g \in DOMAIN cx
      BY <1>7, <2>1, <2>3
    <3> QED BY <1>3, <2>1, <2>3, <3>1
  <2>4. CASE g = f
    <3>1. ASSUME x[i].off <= k PROVE Written(x, i, cx[g], h)
      <4>1. x[i].off <= Len(cd[f])
        <5>1. Len(cd[f]) \in Nat
          BY SMTT(30), <1>5
        <5> QED BY <1>3, <2>2, <3>1, <5>1
      <4>2. Written(x, i, cd[g], h)
        BY <2>1, <2>4, <4>1 DEF Sound
      <4>3. \A j \in Start(x, i) + 1 .. x[i].off : cx[g][j] = cd[g][j]
        BY <1>7, <2>2, <2>4, <3>1
      <4> QED BY <4>2, <4>3 DEF Written
    <3>2. Sound(x, i, cx[g], h)
      BY <1>7, <2>4, <3>1 DEF Sound
    <3>3. ASSUME Num(x, i) < Lo(0, a) PROVE x[i].off <= k
      <4>1. Num(x, i) < a
        BY <2>2, <3>3 DEF Lo
      <4>2. Num(x, i) = x[1].off + i - 2 /\ x[1].off \in Nat
        BY <1>0, <1>2, Entries DEF Num, Position
      <4>3. PICK o \in Nat : o = x[1].off
        BY <4>2
      <4>4. o + i - 2 < a /\ a <= o + n
        BY <1>3, <4>1, <4>2, <4>3
      <4>5. i - 2 < n
        <5> HIDE DEF n
        <5> QED BY <1>8, <4>4
      <4>6. x[i].file # f \/ x[i].off <= k
        BY <1>0, <1>2, <1>3, <4>5, KeptEntries
      <4> QED BY <2>4, <4>6
    <3>4. ASSUME Num(x, i) < Lo(0, a) PROVE Full(x, i, cx[g], cx[g], h)
      BY <1>7, <2>4, <3>1, <3>3, <3>4 DEF Full
    <3> QED BY <1>3, <1>7, <2>1, <2>4, <3>2, <3>4
  <2> QED BY <2>3, <2>4
<1>10. FilesAgree(cn, cn, 0, a)
  <2>1. Stored(x) \in Nat
    BY <1>0, StoredNat
  <2> QED BY <1>1, <2>1 DEF FilesAgree, Covered, x
<1> QED BY <1>9, <1>10 DEF ClosedOK, x, cx

\* A file is opened for appending, which creates it if it is not there.
LEMMA OpenedFile ==
  ASSUME NEW cd \in Data, NEW f \in Nat
  PROVE  /\ OpenForAppend(cd, f) \in Data /\ f \in DOMAIN OpenForAppend(cd, f)
         /\ \A g \in DOMAIN cd : g \in DOMAIN OpenForAppend(cd, f) /\ OpenForAppend(cd, f)[g] = cd[g]
<1>1. CASE f \in DOMAIN cd
  BY <1>1 DEF OpenForAppend
<1>2. CASE f \notin DOMAIN cd
  <2>1. <<>> \in Seq(Payload)
    OBVIOUS
  <2>2. Changed(cd, WithFile(cd, f, <<>>), f, <<>>)
    BY <2>1, FileChanged
  <2> QED BY <1>2, <2>2 DEF OpenForAppend, Changed
<1> QED BY <1>1, <1>2

\* That changes nothing for the entries of an index.
LEMMA HoldsOpened ==
  ASSUME NEW t, NEW x, NEW dd, NEW cd \in Data, NEW h, NEW lo, Holds(t, x, dd, cd, h, lo), NEW f \in Nat
  PROVE  Holds(t, x, dd, OpenForAppend(cd, f), h, lo)
<1> DEFINE cx == OpenForAppend(cd, f)
<1>1. \A g \in DOMAIN cd : g \in DOMAIN cx /\ cx[g] = cd[g]
  BY OpenedFile
<1> HIDE DEF cx
<1>2. Holds(t, x, dd, cx, h, lo)
  BY <1>1 DEF Holds
<1> QED BY <1>2 DEF cx

\* The files cn and the counters m that repair of a table with files c starts with.
Opening(c, cn, m) ==
    LET x == IF c.index = <<>> THEN <<Entry(0, 0)>> ELSE c.index
        hidden == Max({c.meta, x[1].off})
        head == LastEntry(x, x[1].file).file
    IN  /\ cn.index = x /\ cn.meta = hidden /\ cn.data = OpenForAppend(c.data, head)
        /\ m.items = 0 /\ m.tailId = x[1].file /\ m.itemOffset = x[1].off
        /\ m.itemHidden = hidden /\ m.headId = head

\* repair reads the index, the metadata and opens the head file.
LEMMA ClosedOpen ==
  ASSUME NEW t \in Table, NEW c \in Files, NEW h \in Seq(Payload),
         NEW s \in Nat, NEW a \in Nat, ClosedOK(t, c, c, h, s, a),
         NEW cn, NEW m, Opening(c, cn, m)
  PROVE  /\ cn.index \in Seq(Position) /\ cn.meta = c.meta /\ cn.data \in Data /\ cn.index[1] \in Position
         /\ m.headId \in Nat /\ ClosedOK(t, c, cn, h, s, a) /\ Repairing(c.index, cn, m)
<1>e1. PICK x : x = IF c.index = <<>> THEN <<Entry(0, 0)>> ELSE c.index
  OBVIOUS
<1>e2. PICK hidden : hidden = Max({c.meta, x[1].off})
  OBVIOUS
<1>e3. PICK head : head = LastEntry(x, x[1].file).file
  OBVIOUS
<1>e4. /\ cn.index = x /\ cn.meta = hidden /\ cn.data = OpenForAppend(c.data, head)
       /\ m.items = 0 /\ m.tailId = x[1].file /\ m.itemOffset = x[1].off /\ m.itemHidden = hidden
       /\ m.headId = head
  BY <1>e1, <1>e2, <1>e3 DEF Opening
<1> USE <1>e1, <1>e2, <1>e3, <1>e4
<1>0. c.index \in Seq(Position) /\ c.data \in Data /\ c.meta \in Nat
  BY Fields
<1>1. Holds(t, c.index, c.data, c.data, h, Lo(s, a)) /\ FilesAgree(c, c, s, a)
  BY DEF ClosedOK
<1>2. /\ x \in Seq(Position) /\ x # <<>> /\ x[1] \in Position /\ x[1].off <= c.meta
      /\ s <= Stored(x) /\ a <= Stored(x) /\ IsPfx(c.index, x)
      /\ c.index # <<>> => IsPfx(x, c.index)
      /\ c.index = <<>> => Len(x) <= 1
      /\ Holds(t, x, c.data, c.data, h, Lo(s, a))
  <2>1. CASE c.index = <<>>
    <3>1. PICK e \in Position : e = Entry(0, 0) /\ e.off = 0
      BY DEF Entry, Position
    <3>2. x = <<e>>
      BY <2>1, <3>1
    <3>3. x \in Seq(Position) /\ x # <<>> /\ x[1] = e /\ Len(x) = 1 /\ Len(x) <= 1
      <4>1. <<e>> \in Seq(Position)
        BY <3>1
      <4>2. <<e>>[1] = e
        OBVIOUS
      <4>3. Len(<<e>>) = 1
        OBVIOUS
      <4>4. <<e>> # <<>>
        OBVIOUS
      <4>5. Len(x) = 1
        BY ONLY <3>2, <4>3
      <4>6. Len(x) <= 1
        <5>1. Len(<<e>>) <= 1
          OBVIOUS
        <5> QED BY ONLY <3>2, <5>1
      <4>7. x \in Seq(Position) /\ x[1] = e /\ x # <<>>
        BY ONLY <3>2, <4>1, <4>2, <4>4
      <4> QED BY <4>5, <4>6, <4>7
    <3>4. Stored(x) = 0
      <4>1. Stored(x) = x[1].off + Len(x) - 1
        BY <3>3 DEF Stored
      <4> QED BY <3>1, <3>3, <4>1
    <3>5. Stored(c.index) = 0
      BY <2>1 DEF Stored
    <3>6. s <= 0 /\ a <= 0
      BY <1>1, <3>5 DEF FilesAgree, Covered
    <3>7. IsPfx(c.index, x)
      BY SMTT(30), <2>1, <3>3 DEF IsPfx
    <3>8. Holds(t, x, c.data, c.data, h, Lo(s, a))
      <4>0. \A i \in 2..Len(x) : FALSE
        BY <3>3
      <4>1. Shape(x)
        <5>1. \A i, j \in 1..Len(x) : ~(i < j)
          BY <3>3
        <5> QED BY <4>0, <5>1 DEF Shape
      <4>2. Formed(t, x, h)
        BY <3>4, <4>0, <4>1 DEF Formed
      <4> QED BY <4>0, <4>2 DEF Holds
    <3>9. x[1].off <= c.meta
      BY <1>0, <3>1, <3>3
    <3> QED BY <2>1, <3>1, <3>3, <3>4, <3>6, <3>7, <3>8, <3>9
  <2>2. CASE c.index # <<>>
    <3>1. x = c.index
      BY <2>2
    <3>2. IsPfx(c.index, c.index)
      BY DEF IsPfx
    <3>3. c.index[1] \in Position
      BY <1>0, <2>2
    <3> QED BY <1>0, <1>1, <2>2, <3>1, <3>2, <3>3 DEF FilesAgree, Covered
  <2> QED BY <2>1, <2>2
<1>3. x[1].off \in Nat /\ x[1].file \in Nat
  BY <1>2 DEF Position
<1>4. hidden = c.meta
  <2>1. {c.meta, x[1].off} \subseteq 0..c.meta
    BY <1>0, <1>2, <1>3
  <2>2. Max({c.meta, x[1].off}) \in {c.meta, x[1].off} /\ \A y \in {c.meta, x[1].off} : y <= Max({c.meta, x[1].off})
    BY <1>0, <2>1, GreatestNat
  <2>3. hidden \in {c.meta, x[1].off} /\ c.meta <= hidden
    BY <2>2
  <2> QED BY <1>0, <1>2, <1>3, <2>3
<1>5. head \in Nat
  <2>1. LastEntry(x, x[1].file) \in Position
    BY <1>2, <1>3, LastPosition
  <2> QED BY <2>1 DEF Position
<1>6. cn.data \in Data /\ head \in DOMAIN cn.data
  BY <1>0, <1>5, OpenedFile
<1>7. Holds(t, c.index, c.data, cn.data, h, Lo(s, a)) /\ Holds(t, x, c.data, cn.data, h, Lo(s, a))
  BY <1>0, <1>1, <1>2, <1>5, HoldsOpened
<1>8. FilesAgree(c, cn, s, a)
  <2>1. Comparable(c.index, x)
    BY <1>2 DEF Comparable
  <2>2. Covered(c.index, c.meta, c.meta, s, a) /\ c.meta <= a
    BY <1>1 DEF FilesAgree
  <2>3. Covered(x, c.meta, c.meta, s, a)
    BY <1>2 DEF Covered
  <2> QED BY <1>4, <2>1, <2>2, <2>3 DEF FilesAgree
<1>9. ClosedOK(t, c, cn, h, s, a)
  BY SMTT(30), <1>7, <1>8 DEF ClosedOK
<1>10. Repairing(c.index, cn, m)
  <2>1. c.index # <<>> => \A i \in Len(x) + 1 .. Len(c.index) : FALSE
    <3> SUFFICES ASSUME c.index # <<>> PROVE \A i \in Len(x) + 1 .. Len(c.index) : FALSE
      OBVIOUS
    <3>1. x = c.index
      OBVIOUS
    <3>2. Len(c.index) \in Nat
      BY <1>0
    <3> QED BY <3>1, <3>2
  <2> QED BY <1>2, <1>6, <2>1 DEF Repairing
<1> QED BY <1>2, <1>4, <1>5, <1>6, <1>9, <1>10

\* A data file is cut where an entry ends, or inside items that were incomplete.
LEMMA HoldsCut ==
  ASSUME NEW t \in Table, NEW x \in Seq(Position), NEW h \in Seq(Payload), NEW dd \in Data, NEW cd \in Data,
         NEW lo, Holds(t, x, dd, cd, h, lo),
         NEW f \in DOMAIN cd, NEW o \in Nat, o <= Len(cd[f]),
         NEW cn, Changed(cd, cn, f, Prefix(cd[f], o)),
         \A i \in 2..Len(x) : x[i].file = f => x[i].off <= o \/ Len(cd[f]) < x[i].off
  PROVE  Holds(t, x, dd, cn, h, lo)
<1>1. /\ DOMAIN cn = DOMAIN cd /\ Len(cn[f]) = o
      /\ \A k \in 1..o : cn[f][k] = cd[f][k]
      /\ \A g \in DOMAIN cd \ {f} : cn[g] = cd[g]
  BY CutFile
<1>2. Formed(t, x, h)
  BY DEF Holds
<1>3. ASSUME NEW i \in 2..Len(x)
      PROVE  LET g == x[i].file
             IN  /\ g \in DOMAIN dd /\ g \in DOMAIN cn
                 /\ Sound(x, i, dd[g], h) /\ Sound(x, i, cn[g], h)
                 /\ g # x[Len(x)].file \/ Num(x, i) < lo => Full(x, i, dd[g], cn[g], h)
  <2>1. LET g == x[i].file
        IN  /\ g \in DOMAIN dd /\ g \in DOMAIN cd
            /\ Sound(x, i, dd[g], h) /\ Sound(x, i, cd[g], h)
            /\ g # x[Len(x)].file \/ Num(x, i) < lo => Full(x, i, dd[g], cd[g], h)
    BY DEF Holds
  <2>2. CASE x[i].file # f
    BY <1>1, <2>1, <2>2
  <2>3. CASE x[i].file = f
    <3>0. x[i].off \in Nat /\ Start(x, i) \in Nat /\ Len(cd[f]) \in Nat
      BY SMTT(30), <1>2, Entries, DataFacts DEF Position
    <3>1. CASE x[i].off <= o
      <4>1. x[i].off <= Len(cd[f])
        BY <3>0, <3>1
      <4>2. Written(x, i, cd[f], h)
        BY <2>1, <2>3, <4>1 DEF Sound
      <4>3. \A k \in 1..x[i].off : cn[f][k] = cd[f][k]
        BY <1>1, <3>0, <3>1
      <4>4. Written(x, i, cn[f], h)
        <5>1. \A j \in Start(x, i) + 1 .. x[i].off : j \in 1..x[i].off
          BY <3>0
        <5> QED BY <4>2, <4>3, <5>1 DEF Written
      <4>5. Full(x, i, dd[f], cd[f], h) => Full(x, i, dd[f], cn[f], h)
        BY <1>1, <3>1, <4>3, <4>4 DEF Full
      <4> QED BY <1>1, <2>1, <2>3, <4>4, <4>5 DEF Sound
    <3>2. CASE Len(cd[f]) < x[i].off
      <4>1. ~(x[i].off <= Len(cd[f])) /\ ~(x[i].off <= Len(cn[f]))
        BY <1>1, <3>0, <3>2
      <4>2. ~Full(x, i, dd[f], cd[f], h)
        BY <4>1 DEF Full
      <4> QED BY <1>1, <2>1, <2>3, <4>1, <4>2 DEF Sound
    <3> QED BY <2>3, <3>1, <3>2
  <2> QED BY <2>2, <2>3
<1> QED BY <1>2, <1>3 DEF Holds

\* repair cuts the head file to where the index says it ends.
LEMMA ClosedRepairData ==
  ASSUME NEW t \in Table, NEW d \in Files, NEW c \in Files, NEW m, NEW h \in Seq(Payload),
         NEW s \in Nat, NEW a \in Nat, ClosedOK(t, d, c, h, s, a), Repairing(d.index, c, m),
         LastEntry(c.index, m.tailId).off < Len(c.data[m.headId]),
         NEW cn, cn.index = c.index, cn.meta = c.meta,
         FileCut(c.data, cn.data, m.headId, LastEntry(c.index, m.tailId).off)
  PROVE  cn.data \in Data /\ ClosedOK(t, d, cn, h, s, a) /\ Repairing(d.index, cn, m)
<1>e1. PICK e : e = LastEntry(c.index, m.tailId)
  OBVIOUS
<1>e2. e.off < Len(c.data[m.headId]) /\ Changed(c.data, cn.data, m.headId, Prefix(c.data[m.headId], e.off))
  BY <1>e1 DEF FileCut
<1> USE <1>e1, <1>e2
<1> DEFINE x == c.index
           y == d.index
           f == m.headId
           o == e.off
<1>0. x \in Seq(Position) /\ y \in Seq(Position) /\ c.data \in Data /\ d.data \in Data
  BY SMTT(30), Fields
<1>1. /\ x # <<>> /\ m.tailId = x[1].file /\ f = e.file /\ f \in DOMAIN c.data
      /\ y # <<>> => IsPfx(x, y) /\ \A i \in Len(x) + 1 .. Len(y) : Len(c.data[y[i].file]) < y[i].off
  BY DEF Repairing
<1>2. Holds(t, x, d.data, c.data, h, Lo(s, a)) /\ Holds(t, y, d.data, c.data, h, Lo(s, a))
      /\ FilesAgree(d, c, s, a)
  BY DEF ClosedOK
<1>3. Formed(t, x, h)
  BY <1>2 DEF Holds
<1>4. x[1].file \in Nat /\ Len(x) \in Nat /\ Len(y) \in Nat
  <2>1. x[1] \in Position
    BY <1>0, <1>1
  <2> QED BY <1>0, <2>1 DEF Position
<1>5. /\ Len(x) > 1 => e.file = x[Len(x)].file /\ e.off = x[Len(x)].off
      /\ o \in Nat
  BY SMTT(30), <1>0, <1>1, <1>4, LastFields
<1>6. \A i \in 2..Len(x) : x[i].file = f => x[i].off <= o
  BY <1>0, <1>1, <1>3, <1>5, LastEnds
<1>7. o <= Len(c.data[f])
  <2>1. Len(c.data[f]) \in Nat
    BY <1>0, <1>1, DataFacts
  <2> QED BY <1>5, <2>1
<1>8. \A i \in 2..Len(y) : y[i].file = f => y[i].off <= o \/ Len(c.data[f]) < y[i].off
  <2> SUFFICES ASSUME NEW i \in 2..Len(y), y[i].file = f
               PROVE  y[i].off <= o \/ Len(c.data[f]) < y[i].off
    OBVIOUS
  <2>0. y # <<>>
    BY <1>4
  <2>1. CASE i <= Len(x)
    <3>1. i \in 2..Len(x) /\ i \in 1..Len(x)
      BY <1>4, <2>1
    <3>2. x[i] = y[i]
      BY <1>1, <2>0, <3>1 DEF IsPfx
    <3> QED BY <1>6, <3>1, <3>2
  <2>2. CASE ~(i <= Len(x))
    <3>1. i \in Len(x) + 1 .. Len(y)
      BY <1>4, <2>2
    <3> QED BY <1>1, <2>0, <3>1
  <2> QED BY <2>1, <2>2
<1> HIDE DEF x, y, f, o
<1>9. Changed(c.data, cn.data, f, Prefix(c.data[f], o))
  BY DEF f, o
<1>10. cn.data \in Data /\ DOMAIN cn.data = DOMAIN c.data
  BY <1>1, <1>9 DEF Changed
<1>11. Holds(t, x, d.data, cn.data, h, Lo(s, a))
  <2>1. \A i \in 2..Len(x) : x[i].file = f => x[i].off <= o \/ Len(c.data[f]) < x[i].off
    BY <1>6
  <2> QED BY ONLY t \in Table, h \in Seq(Payload), <1>0, <1>1, <1>2, <1>5, <1>7, <1>9, <2>1, HoldsCut
<1>12. Holds(t, y, d.data, cn.data, h, Lo(s, a))
  BY <1>0, <1>1, <1>2, <1>5, <1>7, <1>8, <1>9, HoldsCut
<1>13. FilesAgree(d, cn, s, a)
  BY <1>2 DEF FilesAgree
<1>14. ClosedOK(t, d, cn, h, s, a)
  BY <1>11, <1>12, <1>13 DEF ClosedOK, x, y
<1>15. Repairing(d.index, cn, m)
  <2>1. \A i \in Len(x) + 1 .. Len(y) : y # <<>> => Len(cn.data[y[i].file]) < y[i].off
    <3> SUFFICES ASSUME NEW i \in Len(x) + 1 .. Len(y), y # <<>>
                 PROVE  Len(cn.data[y[i].file]) < y[i].off
      OBVIOUS
    <3>1. Len(c.data[y[i].file]) < y[i].off
      BY <1>1
    <3>2. i \in 2..Len(y)
      <4>1. Len(x) >= 1
        BY <1>0, <1>1
      <4> QED BY <1>4, <4>1
    <3>3. y[i].file \in DOMAIN c.data
      BY <1>2, <3>2 DEF Holds
    <3>4. y[i].off \in Nat
      <4>1. y[i] \in Position
        BY <1>0, <1>4, <3>2
      <4> QED BY <4>1 DEF Position
    <3>5. CASE y[i].file = f
      <4>1. Len(cn.data[f]) = o
        BY <1>0, <1>1, <1>5, <1>7, <1>9, CutFile
      <4>2. Len(c.data[f]) \in Nat
        BY <1>0, <1>1, DataFacts
      <4> QED BY SMTT(30), <1>5, <1>7, <3>1, <3>4, <3>5, <4>1, <4>2
    <3>6. CASE y[i].file # f
      <4>1. cn.data[y[i].file] = c.data[y[i].file]
        BY <1>9, <3>3, <3>6 DEF Changed
      <4> QED BY <3>1, <4>1
    <3> QED BY <3>5, <3>6
  <2> QED BY <1>10, <2>1 DEF Repairing, x, y
<1> QED BY <1>10, <1>14, <1>15

\* The files cn and the counters mn after repair dropped the last index entry.
Shortened(c, cn, m, mn) ==
    LET x == Front(c.index)
        head == LastEntry(x, m.tailId).file
    IN  /\ cn.index = x /\ cn.meta = c.meta /\ cn.data = OpenForAppend(c.data, head)
        /\ mn.items = m.items /\ mn.tailId = m.tailId /\ mn.itemOffset = m.itemOffset
        /\ mn.itemHidden = m.itemHidden /\ mn.headId = head

\* repair drops the last index entry, whose item is incomplete.
LEMMA ClosedRepairIndex ==
  ASSUME NEW t \in Table, NEW d \in Files, NEW c \in Files, NEW m, NEW h \in Seq(Payload),
         NEW s \in Nat, NEW a \in Nat, ClosedOK(t, d, c, h, s, a), Repairing(d.index, c, m),
         Len(c.data[m.headId]) < LastEntry(c.index, m.tailId).off,
         NEW cn, NEW mn, Shortened(c, cn, m, mn)
  PROVE  /\ cn.index \in Seq(Position) /\ cn.data \in Data /\ mn.headId \in Nat
         /\ ClosedOK(t, d, cn, h, s, a) /\ Repairing(d.index, cn, mn)
<1>e1. PICK e : e = LastEntry(c.index, m.tailId)
  OBVIOUS
<1>e2. PICK xn : xn = Front(c.index)
  OBVIOUS
<1>e3. PICK head : head = LastEntry(xn, m.tailId).file
  OBVIOUS
<1>e4. /\ Len(c.data[m.headId]) < e.off
       /\ cn.index = xn /\ cn.meta = c.meta /\ cn.data = OpenForAppend(c.data, head)
       /\ mn.items = m.items /\ mn.tailId = m.tailId /\ mn.itemOffset = m.itemOffset
       /\ mn.itemHidden = m.itemHidden /\ mn.headId = head
  BY <1>e1, <1>e2, <1>e3 DEF Shortened
<1> USE <1>e1, <1>e2, <1>e3, <1>e4
<1> DEFINE x == c.index
           y == d.index
           n == Len(x)
           lo == Lo(s, a)
<1>0. x \in Seq(Position) /\ y \in Seq(Position) /\ c.data \in Data /\ d.data \in Data
  BY Fields
<1>1. /\ x # <<>> /\ m.tailId = x[1].file /\ m.headId = e.file /\ m.headId \in DOMAIN c.data
      /\ y # <<>> => IsPfx(x, y) /\ \A i \in n + 1 .. Len(y) : Len(c.data[y[i].file]) < y[i].off
      /\ y = <<>> => n <= 1
  BY DEF Repairing
<1>2. Holds(t, x, d.data, c.data, h, lo) /\ Holds(t, y, d.data, c.data, h, lo)
      /\ FilesAgree(d, c, s, a)
  BY DEF ClosedOK
<1>3. Formed(t, x, h)
  BY <1>2 DEF Holds
<1>4. x[1] \in Position /\ n \in Nat /\ Len(y) \in Nat
  BY <1>0, <1>1
<1>5. x[1].file \in Nat /\ x[1].off \in Nat
  BY <1>4 DEF Position
<1>6. /\ n > 1 => e.file = x[n].file /\ e.off = x[n].off
      /\ n <= 1 => e.off = 0
      /\ e.off \in Nat
  BY SMTT(30), <1>0, <1>1, <1>5, LastFields
<1>7. Len(c.data[m.headId]) \in Nat
  BY <1>0, <1>1, DataFacts
<1>8. n > 1
  BY <1>4, <1>6, <1>7
<1>9. n \in 2..n /\ Len(c.data[x[n].file]) < x[n].off
  BY <1>1, <1>4, <1>6, <1>8
<1>10. n - 1 \in Nat /\ n - 1 <= n /\ n - 1 > 0
  BY <1>4, <1>8
<1>11. xn \in Seq(Position) /\ Len(xn) = n - 1 /\ IsPfx(xn, x) /\ \A i \in 1..n - 1 : xn[i] = x[i]
  <2>1. /\ Prefix(x, n - 1) \in Seq(Position) /\ Len(Prefix(x, n - 1)) = n - 1
        /\ IsPfx(Prefix(x, n - 1), x) /\ \A i \in 1..n - 1 : Prefix(x, n - 1)[i] = x[i]
    BY SMTT(30), <1>0, <1>10, PrefixFacts
  <2>2. xn = Prefix(x, n - 1)
    BY DEF Front, Prefix
  <2> QED BY ONLY <2>1, <2>2
<1>12. xn # <<>> /\ xn[1] = x[1]
  <2>1. xn # <<>>
    <3>1. Len(xn) > 0
      <4> HIDE DEF n
      <4> QED BY ONLY <1>10, <1>11
    <3> QED BY ONLY <3>1
  <2>2. 1 \in 1..n - 1
    BY <1>4, <1>8
  <2> QED BY ONLY <1>11, <2>1, <2>2
<1>13. Stored(xn) = Num(x, n)
  <2>1. Stored(xn) = xn[1].off + Len(xn) - 1
    BY <1>12 DEF Stored
  <2>2. PICK o \in Nat : o = x[1].off
    BY <1>5
  <2>3. Stored(xn) = o + (n - 1) - 1
    BY <1>11, <1>12, <2>1, <2>2
  <2>4. Num(x, n) = o + n - 2
    BY <2>2 DEF Num
  <2> HIDE DEF n
  <2> QED BY <1>4, <2>3, <2>4
<1>14. ~(Num(x, n) < lo)
  <2>1. ~(x[n].off <= Len(c.data[x[n].file]))
    BY SMTT(30), <1>1, <1>6, <1>7, <1>8, <1>9
  <2>2. ~Full(x, n, d.data[x[n].file], c.data[x[n].file], h)
    BY <2>1 DEF Full
  <2> QED BY <1>2, <1>9, <2>2 DEF Holds
<1>15. s <= Stored(xn) /\ a <= Stored(xn)
  <2>1. Num(x, n) \in Nat
    BY <1>0, <1>3, <1>9, Entries
  <2> HIDE DEF n
  <2> QED BY <1>13, <1>14, <2>1 DEF Lo
<1>16. head \in Nat
  <2>1. LastEntry(xn, m.tailId) \in Position
    BY <1>1, <1>5, <1>11, <1>12, LastPosition
  <2> QED BY <2>1 DEF Position
<1>17. cn.data \in Data /\ head \in DOMAIN cn.data
       /\ \A g \in DOMAIN c.data : g \in DOMAIN cn.data /\ cn.data[g] = c.data[g]
  <2>1. cn.data = OpenForAppend(c.data, head)
    OBVIOUS
  <2>2. /\ OpenForAppend(c.data, head) \in Data /\ head \in DOMAIN OpenForAppend(c.data, head)
        /\ \A g \in DOMAIN c.data :
              g \in DOMAIN OpenForAppend(c.data, head) /\ OpenForAppend(c.data, head)[g] = c.data[g]
    BY ONLY <1>0, <1>16, OpenedFile
  <2> QED BY ONLY <2>1, <2>2
<1> HIDE DEF x, y, lo
<1>18. Holds(t, xn, d.data, c.data, h, lo)
  BY <1>0, <1>2, <1>11, HoldsPfx
<1>19. Holds(t, xn, d.data, cn.data, h, lo)
  BY <1>0, <1>16, <1>18, HoldsOpened
<1>20. Holds(t, y, d.data, cn.data, h, lo)
  BY <1>0, <1>2, <1>16, HoldsOpened
<1>21. y # <<>> /\ IsPfx(x, y)
  BY <1>1, <1>4, <1>8
<1>22. IsPfx(xn, y)
  <2>1. Len(x) <= Len(y) /\ \A i \in 1..n : x[i] = y[i]
    BY <1>21 DEF IsPfx
  <2>2. \A i \in 1..n - 1 : xn[i] = y[i]
    BY <1>4, <1>11, <2>1
  <2> QED BY <1>4, <1>11, <2>1, <2>2 DEF IsPfx
<1>23. FilesAgree(d, cn, s, a)
  <2>1. Comparable(y, xn)
    BY <1>22 DEF Comparable
  <2>2. Covered(y, d.meta, c.meta, s, a) /\ Covered(x, d.meta, c.meta, s, a)
        /\ d.meta <= a /\ c.meta <= a
    BY <1>2 DEF FilesAgree, x, y
  <2>3. Covered(xn, d.meta, c.meta, s, a)
    BY <1>1, <1>12, <1>15, <2>2 DEF Covered
  <2> QED BY <2>1, <2>2, <2>3 DEF FilesAgree, y
<1>24. ClosedOK(t, d, cn, h, s, a)
  BY <1>19, <1>20, <1>23 DEF ClosedOK, y, lo
<1>25. ASSUME NEW i \in Len(xn) + 1 .. Len(y) PROVE Len(cn.data[y[i].file]) < y[i].off
  <2>1. i \in n .. Len(y) /\ i \in 2 .. Len(y)
    BY <1>4, <1>8, <1>11
  <2>2. y[i].file \in DOMAIN c.data
    BY <1>2, <2>1 DEF Holds
  <2>3. Len(c.data[y[i].file]) < y[i].off
    <3>1. CASE i = n
      <4>1. y[n] = x[n]
        BY <1>9, <1>21 DEF IsPfx
      <4> QED BY <1>9, <3>1, <4>1
    <3>2. CASE i # n
      <4>1. i \in n + 1 .. Len(y)
        BY <1>4, <2>1, <3>2
      <4> QED BY <1>1, <1>21, <4>1
    <3> QED BY <3>1, <3>2
  <2> QED BY <1>17, <2>2, <2>3
<1>26. Repairing(y, cn, mn)
  <2>1. /\ m.items = 0 /\ m.itemOffset = x[1].off /\ m.itemHidden = c.meta
    BY DEF Repairing, x
  <2> QED BY <1>1, <1>12, <1>17, <1>21, <1>22, <1>25, <2>1 DEF Repairing
<1> QED BY <1>11, <1>16, <1>17, <1>24, <1>26 DEF y

\* The counters mn of a table that repair is done with.
Counting(c, m, mn) ==
    /\ mn.items = m.itemOffset + Len(c.index) - 1 /\ mn.headBytes = Len(c.data[m.headId])
    /\ mn.files = m.tailId .. m.headId
    /\ mn.itemOffset = m.itemOffset /\ mn.itemHidden = m.itemHidden
    /\ mn.headId = m.headId /\ mn.tailId = m.tailId

\* Index and head file agree: the table is open, all its files are there.
LEMMA ClosedRepairDone ==
  ASSUME NEW t \in Table, NEW d \in Files, NEW c \in Files, NEW m, NEW h \in Seq(Payload),
         NEW s \in Nat, NEW a \in Nat, ClosedOK(t, d, c, h, s, a), Repairing(d.index, c, m),
         LastEntry(c.index, m.tailId).off = Len(c.data[m.headId]),
         NEW dn, dn.index = c.index, dn.meta = c.meta, dn.data = Synced(d.data, c.data, m.headId),
         NEW mn, Counting(c, m, mn)
  PROVE  /\ dn.data \in Data /\ mn.items \in Nat /\ mn.headBytes \in Nat
         /\ m.tailId \in Nat /\ m.headId \in Nat /\ mn.files \subseteq DOMAIN c.data
         /\ OpenOK(t, dn, c, mn, h, "none", s, a)
<1>e1. PICK e : e = LastEntry(c.index, m.tailId)
  OBVIOUS
<1>e2. /\ e.off = Len(c.data[m.headId])
       /\ mn.items = m.itemOffset + Len(c.index) - 1 /\ mn.headBytes = Len(c.data[m.headId])
       /\ mn.files = m.tailId .. m.headId
       /\ mn.itemOffset = m.itemOffset /\ mn.itemHidden = m.itemHidden /\ mn.headId = m.headId
       /\ mn.tailId = m.tailId
  BY <1>e1 DEF Counting
<1> USE <1>e1, <1>e2
<1> DEFINE x == c.index
           n == Len(x)
           f == m.headId
           cd == c.data
           dd == dn.data
<1>0. x \in Seq(Position) /\ cd \in Data /\ d.data \in Data /\ c.meta \in Nat
  BY Fields
<1>1. /\ x # <<>> /\ m.tailId = x[1].file /\ f = e.file /\ f \in DOMAIN cd
      /\ m.itemOffset = x[1].off /\ m.itemHidden = c.meta
  BY DEF Repairing
<1>2. Holds(t, x, d.data, cd, h, Lo(s, a)) /\ FilesAgree(d, c, s, a)
  BY DEF ClosedOK
<1>3. Formed(t, x, h)
  BY <1>2 DEF Holds
<1>4. x[1] \in Position /\ n \in Nat /\ n >= 1
  BY <1>0, <1>1
<1>5. x[1].file \in Nat /\ x[1].off \in Nat
  BY <1>4 DEF Position
<1>6. /\ n > 1 => e.file = x[n].file /\ e.off = x[n].off
      /\ n <= 1 => e.off = 0 /\ e.file = x[1].file
      /\ e.off \in Nat /\ e.file \in Nat
  BY SMTT(30), <1>0, <1>1, <1>5, LastFields
<1>7. dd = Synced(d.data, cd, f) /\ Len(cd[f]) = e.off
  OBVIOUS
<1> HIDE DEF x, f, cd, dd
<1>8. dd \in Data
  <2>1. Synced(d.data, cd, f) \in Data
    BY <1>0, <1>1, SyncData
  <2> QED BY <1>7, <2>1
<1>9. Solid(t, x, dd, cd, h)
  <2> SUFFICES ASSUME NEW i \in 2..n
               PROVE  /\ x[i].file \in DOMAIN dd /\ x[i].file \in DOMAIN cd
                      /\ Full(x, i, dd[x[i].file], cd[x[i].file], h)
    BY <1>3 DEF Solid
  <2>0. n > 1
    BY <1>4
  <2>1. LET g == x[i].file
        IN  /\ g \in DOMAIN d.data /\ g \in DOMAIN cd
            /\ Sound(x, i, cd[g], h)
            /\ g # x[n].file => Full(x, i, d.data[g], cd[g], h)
    BY <1>2 DEF Holds
  <2>2. CASE x[i].file = f
    <3>1. x[i].off <= x[n].off
      BY <1>0, <1>1, <1>3, <1>6, <2>0, <2>2, LastEnds
    <3>2. x[i].off <= Len(cd[f])
      BY <1>6, <1>7, <2>0, <3>1
    <3>3. Written(x, i, cd[f], h)
      BY <2>1, <2>2, <3>2 DEF Sound
    <3>4. f \in DOMAIN dd /\ dd[f] = cd[f]
      BY <1>7 DEF Synced
    <3> QED BY <2>1, <2>2, <3>2, <3>3, <3>4 DEF Full
  <2>3. CASE x[i].file # f
    <3>1. Full(x, i, d.data[x[i].file], cd[x[i].file], h)
      BY <1>1, <1>6, <2>0, <2>1, <2>3
    <3>2. x[i].file \in DOMAIN dd /\ dd[x[i].file] = d.data[x[i].file]
      BY <1>7, <2>1, <2>3 DEF Synced
    <3> QED BY <2>1, <3>1, <3>2
  <2> QED BY <2>2, <2>3
<1>10. x[1].file .. f \subseteq DOMAIN cd
  <2>1. CASE n <= 1
    BY <1>1, <1>5, <1>6, <2>1
  <2>2. CASE n > 1
    <3> SUFFICES ASSUME NEW g \in x[1].file .. f PROVE g \in DOMAIN cd
      OBVIOUS
    <3>1. n \in 2..n /\ f = x[n].file
      BY <1>1, <1>4, <1>6, <2>2
    <3>2. PICK i \in 2..n : x[i].file = g
      BY <1>3, <3>1 DEF Formed, Shape
    <3> QED BY <1>2, <3>2 DEF Holds
  <2> QED BY <1>4, <2>1, <2>2
<1>11. x[1].file <= f /\ x[n].file <= f /\ f <= x[n].file + 1 /\ (n <= 1 => f = x[1].file)
  <2>1. CASE n <= 1
    <3>1. x[n] = x[1]
      BY <1>0, <1>1, <2>1, OneEntry
    <3> QED BY <1>1, <1>5, <1>6, <2>1, <3>1
  <2>2. CASE n > 1
    <3>1. x[1].file <= x[n].file /\ x[n].file \in Nat
      BY <1>0, <1>3, <1>4, FilesOrder
    <3> QED BY <1>1, <1>6, <2>2, <3>1
  <2> QED BY <1>4, <2>1, <2>2
<1>12. EndOf(x, f) = e.off
  <2>1. CASE n <= 1
    BY <1>4, <1>6, <2>1 DEF EndOf
  <2>2. CASE n > 1
    BY <1>1, <1>6, <2>2 DEF EndOf
  <2> QED BY <1>4, <2>1, <2>2
<1>13. Stored(x) = x[1].off + n - 1 /\ x[1].off + n - 1 \in Nat
  <2>1. Stored(x) = x[1].off + n - 1
    BY <1>1 DEF Stored
  <2>2. PICK o \in Nat : o = x[1].off
    BY <1>5
  <2>3. o + n - 1 \in Nat
    <3> HIDE DEF n
    <3> QED BY <1>4
  <2> QED BY <2>1, <2>2, <2>3
<1>14. Covered(x, c.meta, c.meta, s, a) /\ c.meta <= a
  BY <1>2 DEF FilesAgree, Covered, x
<1>15. FilesAgree(dn, c, s, a)
  <2>1. Comparable(x, x)
    BY DEF Comparable, IsPfx
  <2> QED BY <1>14, <2>1 DEF FilesAgree, x
<1>16. x[1].off <= c.meta
  BY <1>1, <1>14 DEF Covered
<1>17. Counted(x, x, cd, mn, "none")
  <2>1. /\ mn.items = x[1].off + n - 1 /\ mn.headBytes = Len(cd[f]) /\ mn.files = x[1].file .. f
        /\ mn.itemOffset = x[1].off /\ mn.itemHidden = c.meta /\ mn.headId = f
        /\ mn.tailId = x[1].file
    BY <1>1 DEF x, cd, f
  <2> HIDE DEF n
  <2>2. Len(x) <= 1 => f = x[1].file
    BY <1>11 DEF n
  <2>3. x[Len(x)].file <= f /\ f <= x[Len(x)].file + 1
    BY <1>11 DEF n
  <2> QED BY <1>1, <1>7, <1>10, <1>11, <1>12, <1>13, <1>16, <2>1, <2>2, <2>3 DEF Counted
<1>18. OpenOK(t, dn, c, mn, h, "none", s, a)
  BY <1>1, <1>9, <1>15, <1>17 DEF OpenOK, x, cd, dd
<1> QED BY <1>1, <1>5, <1>6, <1>7, <1>8, <1>10, <1>13, <1>18 DEF x, f, cd, dd

-----------------------------------------------------------------------------
(* The steps                                                               *)

Opened(t) == OpenOK(t, disk[t], cache[t], mem[t], hist[t], Phase(t), safe, asked)

\* A state and its parts.
LEMMA Typed ==
  ASSUME TypeOK, NEW t \in Table
  PROVE  /\ disk[t] \in Files /\ cache[t] \in Files /\ mem[t] \in Memory
         /\ batch[t] \in Batch /\ hist[t] \in Seq(Payload)
BY DEF TypeOK

\* All tables are open when the freezer is, and all of them in no step.
LEMMA OpenTables ==
  ASSUME \A t \in Table : FilesInv(t), pc # "down", op # "open"
  PROVE  /\ \A t \in Table : Opened(t)
         /\ \A t \in Table : t # cur \/ pc \notin Midway => Phase(t) = "none"
<1>1. \A t \in Table : IsOpen(t)
  BY DEF IsOpen
<1> QED BY <1>1 DEF FilesInv, Opened, Phase

\* The same of the next state.
LEMMA OpenNext ==
  ASSUME pc' # "down", op' # "open", \A t \in Table : Opened(t)'
  PROVE  \A t \in Table : FilesInv(t)'
<1>1. \A t \in Table : IsOpen(t)'
  BY DEF IsOpen
<1> QED BY <1>1 DEF FilesInv, Opened

\* A step that only moves the program counter leaves the tables as they were.
LEMMA FilesStay ==
  ASSUME \A t \in Table : FilesInv(t), UNCHANGED <<cache, disk, mem, hist, safe, asked>>,
         pc # "down", op # "open", pc' # "down", op' # "open", pc \notin Midway, pc' \notin Midway
  PROVE  \A t \in Table : FilesInv(t)'
<1>1. \A t \in Table : Opened(t) /\ Phase(t) = "none" /\ Phase(t)' = "none"
  BY OpenTables DEF Phase
<1>2. \A t \in Table : Opened(t)'
  BY <1>1 DEF Opened
<1> QED BY <1>2, OpenNext

\* fn fails, which starts the roll-back.
LEMMA StepModifyError ==
  ASSUME IInv, ModifyError PROVE IInv'
<1>1. /\ pc = "run" /\ op = "modify" /\ pc' = "next" /\ op' = "rollback" /\ todo' = Table
      /\ target' = frozen /\ held' = None
      /\ UNCHANGED <<cache, disk, mem, batch, frozen, tail, hist, safe, asked>>
  BY DEF IInv, ControlInv, ModifyError, Begin, fileVars, ghosts, None
<1>2. TypeOK'
  BY <1>1 DEF IInv, TypeOK
<1>3. ControlInv'
  BY <1>1 DEF ControlInv
<1>4. IdleInv' /\ CommitInv' /\ CutInv' /\ HeadInv' /\ TailInv' /\ LevelInv' /\ DownInv' /\ RepairInv'
  BY <1>1 DEF IdleInv, CommitInv, CutInv, HeadInv, TailInv, LevelInv, DownInv, RepairInv
<1>5. ModifyInv' /\ RollbackInv'
  BY <1>1 DEF IInv, OpInv, ModifyInv, RollbackInv
<1>6. \A t \in Table : FilesInv(t)'
  BY <1>1, FilesStay DEF IInv, Midway
<1> QED BY <1>2, <1>3, <1>4, <1>5, <1>6 DEF IInv, OpInv

\* So does a write that stores nothing.
LEMMA StepWriteError ==
  ASSUME IInv, WriteError PROVE IInv'
<1>1. /\ pc \in {"next", "write"} /\ op \in {"modify", "commit"} /\ pc' = "next" /\ op' = "rollback"
      /\ todo' = Table /\ target' = frozen /\ held' = None
      /\ UNCHANGED <<cache, disk, mem, batch, frozen, tail, hist, safe, asked>>
  BY DEF IInv, ControlInv, WriteError, Begin, fileVars, ghosts, None
<1>2. TypeOK'
  BY <1>1 DEF IInv, TypeOK
<1>3. ControlInv'
  BY <1>1 DEF ControlInv
<1>4. IdleInv' /\ CommitInv' /\ CutInv' /\ HeadInv' /\ TailInv' /\ LevelInv' /\ DownInv' /\ RepairInv'
  BY <1>1 DEF IdleInv, CommitInv, CutInv, HeadInv, TailInv, LevelInv, DownInv, RepairInv
<1>5. ModifyInv' /\ RollbackInv'
  BY <1>1 DEF IInv, OpInv, ModifyInv, RollbackInv
<1>6. \A t \in Table : FilesInv(t)'
  BY <1>1, FilesStay DEF IInv, Midway
<1> QED BY <1>2, <1>3, <1>4, <1>5, <1>6 DEF IInv, OpInv

\* The batches are of one length and are written table by table.
LEMMA StepCommitBatch ==
  ASSUME IInv, CommitBatch PROVE IInv'
<1>1. /\ pc = "run" /\ op = "modify" /\ pc' = "next" /\ op' = "commit" /\ todo' = Table
      /\ target' = 0 /\ UNCHANGED <<cache, disk, mem, batch, frozen, tail, held, hist, safe, asked>>
      /\ \A t, u \in Table : batch[t].curItem = batch[u].curItem
  BY DEF IInv, ControlInv, CommitBatch, Begin, fileVars, ghosts, None
<1>2. TypeOK'
  BY <1>1 DEF IInv, TypeOK
<1>3. ControlInv'
  BY <1>1 DEF ControlInv
<1>4. IdleInv' /\ RollbackInv' /\ CutInv' /\ HeadInv' /\ TailInv' /\ LevelInv' /\ DownInv' /\ RepairInv'
  BY <1>1 DEF IdleInv, RollbackInv, CutInv, HeadInv, TailInv, LevelInv, DownInv, RepairInv
<1>5. ModifyInv'
  BY <1>1 DEF IInv, OpInv, ModifyInv
<1>6. CommitInv'
  BY <1>1 DEF CommitInv
<1>7. \A t \in Table : FilesInv(t)'
  BY <1>1, FilesStay DEF IInv, Midway
<1> QED BY <1>2, <1>3, <1>4, <1>5, <1>6, <1>7 DEF IInv, OpInv

\* The tail that Freezer.repair gives all tables: the largest one, and not more
\* than was asked for.
LEMMA LevelTail ==
  ASSUME TypeOK, \A t \in Table : Opened(t), op = "level"
  PROVE  /\ NewTail \in Nat /\ NewTail <= asked
         /\ \E t \in Table : NewTail = mem[t].itemHidden
         /\ \A t \in Table : mem[t].itemHidden <= NewTail
<1> DEFINE T == {mem[t].itemHidden : t \in Table}
<1>1. asked \in Nat /\ Table # {}
  BY FreezerAssumption DEF TypeOK
<1>2. \A t \in Table : mem[t].itemHidden \in 0 .. asked
  <2> SUFFICES ASSUME NEW t \in Table PROVE mem[t].itemHidden \in 0 .. asked
    OBVIOUS
  <2>1. mem[t].itemHidden \in Nat
    BY Typed, Fields
  <2>2. mem[t].itemHidden <= asked
    BY DEF Opened, OpenOK, FilesAgree
  <2> QED BY <1>1, <2>1, <2>2
<1>3. T \subseteq 0 .. asked /\ T # {}
  BY <1>1, <1>2
<1> HIDE DEF T
<1>4. Max(T) \in T /\ \A y \in T : y <= Max(T)
  BY <1>1, <1>3, GreatestNat
<1>5. NewTail = Max(T)
  BY DEF NewTail, T
<1> QED BY SMTT(30), <1>1, <1>2, <1>4, <1>5 DEF T

\* truncateHead finds a table that is short enough.
LEMMA StepHeadShort ==
  ASSUME IInv, NEW t \in Table, HeadShort(t) PROVE IInv'
<1>1. /\ pc = "next" /\ op \in {"head", "rollback", "level"} /\ t \in todo /\ mem[t].items <= target
      /\ op' = op /\ target' = target
      /\ UNCHANGED <<cache, disk, mem, batch, frozen, tail, held, hist, safe, asked>>
      /\ op = "level" => pc' = "tail" /\ cur' = t /\ todo' = todo
      /\ op # "level" => pc' = "next" /\ todo' = todo \ {t}
  BY DEF HeadShort, AtTable, HeadDone, TableDone, Goto, fileVars, ghosts
<1>2. mem[t].items \in Nat /\ target \in Nat /\ frozen \in Nat
  BY Typed, Fields DEF IInv, TypeOK
<1>3. op # "head"
  <2>1. op = "head" => mem[t].items = frozen /\ target < frozen
    BY <1>1 DEF IInv, OpInv, HeadInv
  <2> QED BY <1>1, <1>2, <2>1
<1>4. op = "rollback" => mem[t].items = frozen
  <2>1. op = "rollback" => target = frozen /\ frozen <= mem[t].items
    BY DEF IInv, OpInv, ModifyInv, RollbackInv
  <2> QED BY <1>1, <1>2, <2>1
<1>5. op = "level" => mem[t].items = target
  <2>1. op = "level" => target <= mem[t].items
    BY DEF IInv, OpInv, LevelInv
  <2> QED BY <1>1, <1>2, <2>1
<1>6. TypeOK'
  BY <1>1 DEF IInv, TypeOK
<1>7. ControlInv'
  BY <1>1 DEF ControlInv
<1>8. IdleInv' /\ CommitInv' /\ CutInv' /\ HeadInv' /\ TailInv' /\ RepairInv'
  BY <1>1, <1>3 DEF IdleInv, CommitInv, CutInv, HeadInv, TailInv, RepairInv
<1>9. ModifyInv' /\ RollbackInv'
  BY <1>1, <1>4 DEF IInv, OpInv, ModifyInv, RollbackInv
<1>10. LevelInv'
  BY <1>1, <1>5 DEF IInv, OpInv, LevelInv
<1>11. DownInv'
  BY <1>1 DEF IInv, OpInv, DownInv
<1>12. \A u \in Table : FilesInv(u)'
  BY <1>1, FilesStay DEF IInv, Midway
<1> QED BY <1>6, <1>7, <1>8, <1>9, <1>10, <1>11, <1>12 DEF IInv, OpInv

\* truncateTail finds a table whose tail is there already: only on opening.
LEMMA StepTailReached ==
  ASSUME IInv, NEW t \in Table, TailReached(t) PROVE IInv'
<1>1. /\ NewTail <= mem[t].itemHidden /\ pc' = "next" /\ todo' = todo \ {t}
      /\ op' = op /\ target' = target
      /\ UNCHANGED <<cache, disk, mem, batch, frozen, tail, held, hist, safe, asked>>
      /\ (pc = "next" /\ op = "tail" /\ t \in todo) \/ (pc = "tail" /\ t = cur)
  BY DEF TailReached, AtTail, AtTable, TableDone, fileVars, ghosts
<1>2. pc = "tail" /\ t = cur /\ op = "level"
  <2>1. ~(pc = "next" /\ op = "tail" /\ t \in todo)
    <3> SUFFICES ASSUME pc = "next", op = "tail", t \in todo PROVE FALSE
      OBVIOUS
    <3>1. mem[t].itemHidden = tail /\ tail < target
      BY DEF IInv, OpInv, TailInv
    <3>2. NewTail = target /\ target \in Nat /\ tail \in Nat
      BY DEF NewTail, IInv, TypeOK
    <3> QED BY <1>1, <3>1, <3>2
  <2> QED BY <1>1, <2>1 DEF IInv, ControlInv
<1>3. \A u \in Table : Opened(u)
  BY <1>2, OpenTables DEF IInv
<1>4. NewTail \in Nat /\ \A u \in Table : mem[u].itemHidden <= NewTail
  BY <1>2, <1>3, LevelTail DEF IInv
<1>5. \A u \in Table : mem[u].itemHidden <= mem[t].itemHidden
  <2>1. \A u \in Table : mem[u].itemHidden \in Nat
    BY Typed, Fields DEF IInv
  <2> QED BY <1>1, <1>4, <2>1
<1>6. TypeOK'
  BY <1>1 DEF IInv, TypeOK
<1>7. ControlInv'
  BY <1>1, <1>2 DEF ControlInv
<1>8. IdleInv' /\ ModifyInv' /\ CommitInv' /\ RollbackInv' /\ CutInv' /\ HeadInv' /\ TailInv' /\ RepairInv'
  BY <1>1, <1>2 DEF IdleInv, ModifyInv, CommitInv, RollbackInv, CutInv, HeadInv, TailInv, RepairInv
<1>9. LevelInv'
  BY <1>1, <1>2, <1>5 DEF IInv, OpInv, LevelInv
<1>10. DownInv'
  BY <1>1, <1>2 DEF IInv, OpInv, DownInv
<1>11. \A u \in Table : FilesInv(u)'
  BY <1>1, <1>2, FilesStay DEF IInv, Midway
<1> QED BY <1>6, <1>7, <1>8, <1>9, <1>10, <1>11 DEF IInv, OpInv

\* The files are there, and no table is open yet.
LEMMA StepNewFreezer ==
  ASSUME IInv, NewFreezer PROVE IInv'
<1>1. /\ pc = "down" /\ pc' = "next" /\ op' = "open" /\ todo' = Table /\ target' = 0
      /\ UNCHANGED <<cache, disk, mem, batch, frozen, tail, held, hist, safe, asked>>
  BY DEF NewFreezer, Begin, fileVars, ghosts
<1>2. TypeOK'
  BY <1>1 DEF IInv, TypeOK
<1>3. ControlInv'
  BY <1>1 DEF ControlInv
<1>4. IdleInv' /\ ModifyInv' /\ CommitInv' /\ RollbackInv' /\ CutInv' /\ HeadInv' /\ TailInv'
      /\ LevelInv' /\ RepairInv'
  BY <1>1 DEF IdleInv, ModifyInv, CommitInv, RollbackInv, CutInv, HeadInv, TailInv, LevelInv, RepairInv
<1>5. DownInv'
  BY <1>1 DEF IInv, OpInv, DownInv
<1>6. \A t \in Table : FilesInv(t)'
  BY <1>1 DEF IInv, FilesInv, IsOpen
<1> QED BY <1>2, <1>3, <1>4, <1>5, <1>6 DEF IInv, OpInv

\* All tables are open, the shortest tells how long the others may be.
LEMMA StepLevel ==
  ASSUME IInv, Level PROVE IInv'
<1> DEFINE T == {mem[t].items : t \in Table}
<1>1. /\ pc = "next" /\ op = "open" /\ todo = {} /\ pc' = "next" /\ op' = "level" /\ todo' = Table
      /\ target' = Min(T)
      /\ UNCHANGED <<cache, disk, mem, batch, frozen, tail, held, hist, safe, asked>>
  BY DEF Level, Begin, fileVars, ghosts
<1>2. \A t \in Table : mem[t].items \in Nat /\ mem[t] \in Memory
  BY Typed, Fields DEF IInv
<1>3. T \subseteq Nat /\ T # {}
  BY <1>2, FreezerAssumption
<1> HIDE DEF T
<1>4. Min(T) \in T /\ \A y \in T : Min(T) <= y
  BY <1>3, LeastNat
<1>5. target' \in Nat /\ \A t \in Table : target' <= mem[t].items
  BY <1>1, <1>2, <1>4 DEF T
<1>6. \A t \in Table : OpenOK(t, disk[t], cache[t], mem[t], hist[t], "none", safe, asked)
  <2>1. \A t \in Table : IsOpen(t) /\ Phase(t) = "none"
    BY <1>1 DEF IsOpen, Phase, Midway
  <2> QED BY <2>1 DEF IInv, FilesInv
<1>7. \A t \in Table : safe <= mem[t].items /\ asked <= mem[t].items
  <2> SUFFICES ASSUME NEW t \in Table PROVE safe <= mem[t].items /\ asked <= mem[t].items
    OBVIOUS
  <2>1. Stored(cache[t].index) = mem[t].items
    BY <1>2, <1>6, OpenFacts
  <2>2. safe <= Stored(cache[t].index) /\ asked <= Stored(cache[t].index)
    BY <1>6 DEF OpenOK, FilesAgree, Covered
  <2> QED BY <2>1, <2>2
<1>8. TypeOK'
  BY <1>1, <1>5 DEF IInv, TypeOK
<1>9. ControlInv'
  BY <1>1 DEF ControlInv
<1>10. IdleInv' /\ ModifyInv' /\ CommitInv' /\ RollbackInv' /\ CutInv' /\ HeadInv' /\ TailInv' /\ RepairInv'
  BY <1>1 DEF IdleInv, ModifyInv, CommitInv, RollbackInv, CutInv, HeadInv, TailInv, RepairInv
<1>11. LevelInv'
  <2>1. safe <= target' /\ asked <= target'
    BY <1>1, <1>4, <1>7 DEF T
  <2> QED BY <1>1, <1>5, <2>1 DEF LevelInv
<1>12. DownInv'
  BY <1>1 DEF IInv, OpInv, DownInv
<1>13. \A t \in Table : Opened(t)'
  <2>1. \A t \in Table : Phase(t)' = "none"
    BY <1>1 DEF Phase, Midway
  <2> QED BY <1>1, <1>6, <2>1 DEF Opened
<1>14. \A t \in Table : FilesInv(t)'
  BY <1>1, <1>13, OpenNext
<1> QED BY <1>8, <1>9, <1>10, <1>11, <1>12, <1>14 DEF IInv, OpInv

\* Between two steps of an operation an open table has all its items.
LEMMA Quiet ==
  ASSUME TypeOK, \A t \in Table : FilesInv(t), pc # "down", op # "open", NEW t \in Table,
         t # cur \/ pc \notin Midway
  PROVE  /\ OpenOK(t, disk[t], cache[t], mem[t], hist[t], "none", safe, asked)
         /\ safe <= mem[t].items /\ asked <= mem[t].items /\ mem[t].items <= Len(hist[t])
         /\ mem[t].itemHidden = cache[t].meta
<1>1. OpenOK(t, disk[t], cache[t], mem[t], hist[t], "none", safe, asked)
  BY OpenTables DEF Opened
<1>2. Stored(cache[t].index) = mem[t].items /\ mem[t].itemHidden = cache[t].meta
  BY <1>1, Typed, OpenFacts
<1>3. safe <= Stored(cache[t].index) /\ asked <= Stored(cache[t].index)
  BY <1>1 DEF OpenOK, FilesAgree, Covered
<1>4. Stored(cache[t].index) <= Len(hist[t])
  BY <1>1 DEF OpenOK, Solid, Formed
<1> QED BY <1>1, <1>2, <1>3, <1>4

\* What is left to show when an operation ends.
LEMMA StepFinish ==
  ASSUME IInv, Finish, pc # "down", op # "open", pc \notin Midway, UNCHANGED <<cache, disk, mem, asked>>,
         frozen' \in Nat, tail' \in Nat, safe' \in Nat, \A t \in Table : safe' <= mem[t].items,
         IdleInv'
  PROVE  IInv'
<1>1. /\ pc' = "idle" /\ op' = None /\ todo' = {} /\ target' = 0 /\ held' = None
      /\ batch' = [t \in Table |-> EmptyBatch]
      /\ hist' = [t \in Table |-> Prefix(hist[t], mem[t].items)]
  BY DEF Finish
<1>2. \A t \in Table : mem[t].items \in Nat /\ mem[t] \in Memory
  BY Typed, Fields DEF IInv
<1>3. ASSUME NEW t \in Table
      PROVE  /\ hist'[t] \in Seq(Payload) /\ Len(hist'[t]) = mem[t].items
             /\ \A n \in 1 .. mem[t].items : hist'[t][n] = hist[t][n]
  <2>1. mem[t].items <= Len(hist[t]) /\ hist[t] \in Seq(Payload)
    BY Quiet, Typed DEF IInv
  <2>2. hist'[t] = Prefix(hist[t], mem[t].items)
    BY <1>1
  <2> QED BY <1>2, <2>1, <2>2, PrefixFacts
<1>4. ASSUME NEW t \in Table
      PROVE  OpenOK(t, disk[t], cache[t], mem[t], hist'[t], "none", safe', asked)
  <2>1. /\ OpenOK(t, disk[t], cache[t], mem[t], hist[t], "none", safe, asked)
        /\ asked <= mem[t].items
    BY Quiet DEF IInv
  <2>2. /\ disk[t] \in Files /\ cache[t] \in Files /\ mem[t] \in Memory /\ hist[t] \in Seq(Payload)
        /\ safe \in Nat /\ asked \in Nat /\ asked <= asked /\ mem[t].items <= mem[t].items
    BY <1>2, Typed DEF IInv, TypeOK
  <2>3. OpenOK(t, disk[t], cache[t], mem[t], hist[t], "none", safe', asked)
    BY <2>1, <2>2, OpenFloors
  <2>4. mem[t].items <= Len(hist'[t])
    BY <1>2, <1>3
  <2> QED BY <1>3, <2>2, <2>3, <2>4, OpenHist
<1>5. TypeOK'
  <2>1. EmptyBatch \in Batch
    BY DEF EmptyBatch, Batch
  <2>2. hist' \in [Table -> Seq(Payload)]
    BY <1>1, <1>3
  <2>3. batch' \in [Table -> Batch]
    BY <1>1, <2>1
  <2> QED BY <1>1, <2>2, <2>3 DEF IInv, TypeOK
<1>6. ControlInv'
  BY <1>1 DEF ControlInv, None
<1>7. ModifyInv' /\ CommitInv' /\ RollbackInv' /\ CutInv' /\ HeadInv' /\ TailInv' /\ LevelInv' /\ DownInv' /\ RepairInv'
  BY <1>1 DEF ModifyInv, CommitInv, RollbackInv, CutInv, HeadInv, TailInv, LevelInv, DownInv, RepairInv, None
<1>8. \A t \in Table : Opened(t)'
  <2>1. \A t \in Table : Phase(t)' = "none"
    BY <1>1 DEF Phase, Midway
  <2> QED BY <1>4, <2>1 DEF Opened
<1>9. \A t \in Table : FilesInv(t)'
  BY <1>1, <1>8, OpenNext DEF None
<1> QED BY <1>5, <1>6, <1>7, <1>9 DEF IInv, OpInv

\* CommitReturn publishes the length that all tables have.
LEMMA StepCommitReturn ==
  ASSUME IInv, CommitReturn PROVE IInv'
<1>1. PICK t \in Table : frozen' = mem[t].items /\ safe' = mem[t].items
  BY DEF CommitReturn
<1>2. /\ pc = "next" /\ op = "commit" /\ todo = {} /\ Finish /\ UNCHANGED <<cache, disk, mem, tail, asked>>
      /\ held' = None
  BY DEF CommitReturn, Finish, fileVars
<1>3. \A u \in Table : mem[u].items = batch[u].curItem
  <2> SUFFICES ASSUME NEW u \in Table PROVE mem[u].items = batch[u].curItem
    OBVIOUS
  <2>1. batch[u].index = <<>> /\ batch[u].curItem = mem[u].items + Len(batch[u].index)
    BY <1>2 DEF IInv, OpInv, ModifyInv, CommitInv, Buffered
  <2>2. mem[u].items \in Nat
    BY Typed, Fields DEF IInv
  <2>3. batch[u].curItem = mem[u].items + 0
    BY <2>1
  <2> QED BY <2>2, <2>3
<1>4. \A u \in Table : mem[u].items = mem[t].items
  BY <1>2, <1>3 DEF IInv, OpInv, CommitInv
<1>5. \A u \in Table : mem[u].items \in Nat /\ mem[t].items <= mem[u].items
  BY <1>4, Typed, Fields DEF IInv
<1>6. IdleInv'
  BY <1>1, <1>2, <1>4, <1>5 DEF IInv, OpInv, ModifyInv, IdleInv
<1>7. frozen' \in Nat /\ tail' \in Nat /\ safe' \in Nat
  BY <1>1, <1>2, <1>5 DEF IInv, TypeOK
<1> QED BY <1>1, <1>2, <1>5, <1>6, <1>7, StepFinish DEF Midway

\* The roll-back has brought all tables back.
LEMMA StepRollbackReturn ==
  ASSUME IInv, RollbackReturn PROVE IInv'
<1>1. /\ pc = "next" /\ op = "rollback" /\ todo = {} /\ Finish
      /\ UNCHANGED <<cache, disk, mem, frozen, tail, safe, asked>> /\ held' = None
  BY DEF RollbackReturn, Finish, fileVars
<1>2. \A t \in Table : safe <= mem[t].items
  BY <1>1, Quiet DEF IInv, Midway
<1>3. frozen \in Nat /\ safe = frozen /\ frozen <= frozen /\ tail \in Nat
  BY <1>1 DEF IInv, TypeOK, OpInv, ModifyInv
<1>4. IdleInv'
  BY <1>1, <1>3 DEF IInv, OpInv, ModifyInv, RollbackInv, IdleInv
<1> QED BY <1>1, <1>2, <1>3, <1>4, StepFinish DEF Midway

\* TruncateHead is done with all tables.
LEMMA StepTruncateHeadReturn ==
  ASSUME IInv, TruncateHeadReturn PROVE IInv'
<1>1. /\ pc = "next" /\ op = "head" /\ todo = {} /\ frozen' = target /\ Finish
      /\ UNCHANGED <<cache, disk, mem, tail, safe, asked>> /\ held' = None
  BY DEF TruncateHeadReturn, Finish, fileVars
<1>2. \A t \in Table : safe <= mem[t].items
  BY <1>1, Quiet DEF IInv, Midway
<1>3. safe = target /\ target \in Nat /\ target <= target /\ tail \in Nat /\ asked = tail
      /\ \A t \in Table : mem[t].items = target /\ mem[t].itemHidden = tail
  BY <1>1, FreezerAssumption DEF IInv, TypeOK, OpInv, HeadInv
<1>4. IdleInv'
  BY <1>1, <1>3 DEF IdleInv
<1> QED BY <1>1, <1>2, <1>3, <1>4, StepFinish DEF Midway

\* TruncateTail is done with all tables.
LEMMA StepTruncateTailReturn ==
  ASSUME IInv, TruncateTailReturn PROVE IInv'
<1>1. /\ pc = "next" /\ op = "tail" /\ todo = {} /\ tail' = target /\ Finish
      /\ UNCHANGED <<cache, disk, mem, frozen, safe, asked>> /\ held' = None
  BY DEF TruncateTailReturn, Finish, fileVars
<1>2. \A t \in Table : safe <= mem[t].items
  BY <1>1, Quiet DEF IInv, Midway
<1>3. safe = frozen /\ frozen \in Nat /\ frozen <= frozen /\ target \in Nat /\ asked = target
      /\ \A t \in Table : mem[t].items = frozen /\ mem[t].itemHidden = target
  BY <1>1, FreezerAssumption DEF IInv, TypeOK, OpInv, TailInv
<1>4. IdleInv'
  BY <1>1, <1>3 DEF IdleInv
<1> QED BY <1>1, <1>2, <1>3, <1>4, StepFinish DEF Midway

\* Freezer.repair is done with all tables.
LEMMA StepLevelReturn ==
  ASSUME IInv, LevelReturn PROVE IInv'
<1>1. /\ pc = "next" /\ op = "level" /\ todo = {} /\ frozen' = target /\ tail' = NewTail /\ Finish
      /\ UNCHANGED <<cache, disk, mem, safe, asked>> /\ held' = None
  BY DEF LevelReturn, Finish, fileVars
<1>2. \A t \in Table : Opened(t)
  BY <1>1, OpenTables DEF IInv
<1>3. \A t \in Table : safe <= mem[t].items /\ mem[t].itemHidden = cache[t].meta
  BY <1>1, Quiet DEF IInv, Midway
<1>4. /\ NewTail \in Nat /\ NewTail <= asked
      /\ \E t \in Table : NewTail = mem[t].itemHidden
      /\ \A t \in Table : mem[t].itemHidden <= NewTail
  BY <1>1, <1>2, LevelTail DEF IInv
<1>5. \A t \in Table : mem[t].itemHidden \in Nat
  BY Typed, Fields DEF IInv
<1>6. \A t, u \in Table : mem[u].itemHidden <= mem[t].itemHidden /\ mem[t].items = target
  BY <1>1 DEF IInv, OpInv, LevelInv
<1>7. \A t \in Table : mem[t].itemHidden = NewTail
  BY <1>4, <1>5, <1>6
<1>8. asked = NewTail /\ safe \in Nat /\ target \in Nat /\ safe <= target
  <2>1. PICK u \in Table : asked <= cache[u].meta
    BY <1>1 DEF IInv, OpInv, DownInv
  <2>2. asked <= NewTail /\ asked \in Nat
    BY <1>3, <1>7, <2>1 DEF IInv, TypeOK
  <2> QED BY <1>1, <1>4, <2>2 DEF IInv, TypeOK, OpInv, LevelInv
<1>9. IdleInv'
  BY <1>1, <1>6, <1>7, <1>8 DEF IdleInv
<1> QED BY <1>1, <1>3, <1>4, <1>8, <1>9, StepFinish DEF Midway

\* "truncation below tail" comes before any table is changed, and only there.
LEMMA StepHeadBelowTail ==
  ASSUME IInv, NEW t \in Table, HeadBelowTail(t) PROVE IInv'
<1>1. /\ pc = "next" /\ op \in {"head", "rollback", "level"} /\ t \in todo
      /\ target < mem[t].items /\ target < mem[t].itemHidden
      /\ op = "head" => Finish
      /\ UNCHANGED <<cache, disk, mem, frozen, tail, safe, asked>>
  BY DEF HeadBelowTail, AtTable, fileVars
<1>2. /\ target \in Nat /\ frozen \in Nat /\ tail \in Nat /\ safe \in Nat /\ asked \in Nat
      /\ mem[t].itemHidden \in Nat
  BY Typed, Fields DEF IInv, TypeOK
<1>3. op # "rollback"
  <2>1. op = "rollback" => target = frozen /\ mem[t].itemHidden = tail /\ tail <= frozen
    BY DEF IInv, OpInv, ModifyInv, RollbackInv
  <2> QED BY <1>1, <1>2, <2>1
<1>4. op # "level"
  <2> SUFFICES ASSUME op = "level" PROVE FALSE
    OBVIOUS
  <2>1. Opened(t)
    BY <1>1, OpenTables DEF IInv
  <2>2. mem[t].itemHidden <= asked
    BY <2>1 DEF Opened, OpenOK, FilesAgree
  <2>3. asked <= target
    BY DEF IInv, OpInv, LevelInv
  <2> QED BY <1>1, <1>2, <2>2, <2>3
<1>5. op = "head" /\ Finish /\ held' = None
  BY <1>1, <1>3, <1>4 DEF Finish
<1>6. /\ todo = Table /\ safe = frozen /\ asked = tail /\ frozen <= frozen
      /\ \A u \in Table : mem[u].items = frozen /\ mem[u].itemHidden = tail
  <2>1. HeadInv
    BY DEF IInv, OpInv
  <2>2. mem[t].itemHidden = tail
    BY <1>5, <2>1 DEF HeadInv
  <2>3. ~(tail <= target)
    BY <1>1, <1>2, <2>2
  <2>4. todo = Table /\ safe = frozen
    BY <1>5, <2>1, <2>3 DEF HeadInv
  <2> QED BY <1>2, <1>5, <2>1, <2>4 DEF HeadInv
<1>7. IdleInv'
  BY <1>1, <1>5, <1>6 DEF IdleInv
<1>8. \A u \in Table : safe <= mem[u].items
  BY <1>1, Quiet DEF IInv, Midway
<1> QED BY <1>1, <1>2, <1>5, <1>7, <1>8, StepFinish DEF Midway

\* So does "truncation above head".
LEMMA StepTailAboveHead ==
  ASSUME IInv, NEW t \in Table, TailAboveHead(t) PROVE IInv'
<1>1. /\ (pc = "next" /\ op = "tail" /\ t \in todo) \/ (pc = "tail" /\ t = cur)
      /\ mem[t].itemHidden < NewTail /\ mem[t].items < NewTail
      /\ op = "tail" => Finish
      /\ UNCHANGED <<cache, disk, mem, frozen, tail, safe, asked>>
  BY DEF TailAboveHead, AtTail, AtTable, fileVars
<1>2. /\ target \in Nat /\ frozen \in Nat /\ tail \in Nat /\ safe \in Nat /\ asked \in Nat
      /\ mem[t].items \in Nat
  BY Typed, Fields DEF IInv, TypeOK
<1>3. pc # "tail"
  <2> SUFFICES ASSUME pc = "tail", t = cur PROVE FALSE
    BY <1>1
  <2>1. op = "level"
    BY DEF IInv, ControlInv
  <2>2. \A u \in Table : Opened(u)
    BY <2>1, OpenTables DEF IInv
  <2>3. NewTail \in Nat /\ NewTail <= asked
    BY <2>1, <2>2, LevelTail DEF IInv
  <2>4. asked <= target /\ mem[t].items = target
    BY <2>1 DEF IInv, OpInv, LevelInv
  <2> QED BY <1>1, <1>2, <2>3, <2>4
<1>4. pc = "next" /\ op = "tail" /\ Finish /\ held' = None /\ NewTail = target
  BY <1>1, <1>3 DEF Finish, NewTail
<1>5. /\ todo = Table /\ safe = frozen /\ asked = tail /\ frozen <= frozen
      /\ \A u \in Table : mem[u].items = frozen /\ mem[u].itemHidden = tail
  <2>1. TailInv
    BY DEF IInv, OpInv
  <2>2. mem[t].items = frozen
    BY <1>4, <2>1 DEF TailInv
  <2>3. ~(target <= frozen)
    BY <1>1, <1>2, <1>4, <2>2
  <2>4. todo = Table /\ asked = tail
    BY <1>4, <2>1, <2>3 DEF TailInv
  <2> QED BY <1>2, <1>4, <2>1, <2>4 DEF TailInv
<1>6. IdleInv'
  BY <1>1, <1>4, <1>5 DEF IdleInv
<1>7. \A u \in Table : safe <= mem[u].items
  BY <1>4, Quiet DEF IInv, Midway
<1> QED BY <1>1, <1>2, <1>4, <1>6, <1>7, StepFinish DEF Midway

\* At the start of an operation the floors may move: what was acknowledged is
\* what the freezer has, and the tail is where it is asked to be.
LEMMA FloorsMove ==
  ASSUME IInv, pc = "idle", UNCHANGED <<cache, disk, mem, hist>>, pc' # "down", pc' \notin Midway,
         op' # "open", safe' \in Nat, safe' <= frozen, asked' \in Nat, tail <= asked', asked' <= frozen
  PROVE  \A t \in Table : FilesInv(t)'
<1>1. op # "open"
  BY DEF IInv, ControlInv, None
<1>2. \A t \in Table : mem[t].items = frozen /\ asked = tail
  BY DEF IInv, OpInv, IdleInv
<1>3. ASSUME NEW t \in Table
      PROVE  OpenOK(t, disk[t], cache[t], mem[t], hist[t], "none", safe', asked')
  <2>1. OpenOK(t, disk[t], cache[t], mem[t], hist[t], "none", safe, asked)
    BY <1>1, Quiet DEF IInv, Midway
  <2>2. disk[t] \in Files /\ cache[t] \in Files /\ mem[t] \in Memory /\ safe \in Nat /\ asked \in Nat
    BY Typed DEF IInv, TypeOK
  <2>3. safe' <= mem[t].items /\ asked <= asked' /\ asked' <= mem[t].items
    BY <1>2
  <2> QED BY <2>1, <2>2, <2>3, OpenFloors
<1>4. \A t \in Table : Phase(t)' = "none"
  BY DEF Phase
<1>5. \A t \in Table : Opened(t)'
  BY <1>3, <1>4 DEF Opened
<1> QED BY <1>5, OpenNext

\* The tail is not above the head.
LEMMA TailBelow ==
  ASSUME IInv, pc = "idle" PROVE tail <= frozen
<1>1. PICK t \in Table : TRUE
  BY FreezerAssumption
<1>2. asked <= mem[t].items
  BY Quiet DEF IInv, ControlInv, None, Midway
<1> QED BY <1>2 DEF IInv, OpInv, IdleInv

\* An empty batch that goes on with item n.
LEMMA Emptied ==
  ASSUME NEW n \in Nat
  PROVE  LET b == [EmptyBatch EXCEPT !.curItem = n]
         IN  b \in Batch /\ b.data = <<>> /\ b.index = <<>> /\ b.curItem = n
<1> DEFINE b == [EmptyBatch EXCEPT !.curItem = n]
<1>1. b = [data |-> <<>>, index |-> <<>>, curItem |-> n]
  BY DEF EmptyBatch
<1>2. <<>> \in Seq(Payload) /\ <<>> \in Seq(Position)
  OBVIOUS
<1>3. [data |-> <<>>, index |-> <<>>, curItem |-> n] \in Batch
  BY <1>2 DEF Batch
<1> HIDE DEF b
<1>4. b.data = <<>> /\ b.index = <<>> /\ b.curItem = n
  BY <1>1
<1>5. b \in Batch
  BY <1>1, <1>3
<1> QED BY <1>4, <1>5 DEF b

\* ModifyAncients starts with empty batches.
LEMMA StepModifyAncients ==
  ASSUME IInv, ModifyAncients PROVE IInv'
<1>1. /\ pc = "idle" /\ pc' = "run" /\ op' = "modify"
      /\ batch' = [t \in Table |-> [EmptyBatch EXCEPT !.curItem = mem[t].items]]
      /\ safe' = frozen /\ asked' = tail
      /\ UNCHANGED <<cache, disk, mem, frozen, tail, cur, todo, target, held, hist>>
  BY DEF ModifyAncients, Goto, fileVars
<1>2. \A t \in Table : mem[t].items \in Nat /\ mem[t].headBytes \in Nat
  BY Typed, Fields DEF IInv
<1>3. ASSUME NEW t \in Table
      PROVE  /\ batch'[t] \in Batch /\ batch'[t].data = <<>> /\ batch'[t].index = <<>>
             /\ batch'[t].curItem = mem[t].items
  <2>1. batch'[t] = [EmptyBatch EXCEPT !.curItem = mem[t].items]
    BY <1>1
  <2> QED BY <1>2, <2>1, Emptied
<1>4. frozen \in Nat /\ tail \in Nat
  BY DEF IInv, TypeOK
<1>5. tail <= frozen /\ frozen <= frozen /\ tail <= tail
  BY <1>1, <1>4, TailBelow
<1>6. TypeOK'
  <2>1. batch' \in [Table -> Batch]
    BY <1>1, <1>3
  <2> QED BY <1>1, <1>4, <2>1 DEF IInv, TypeOK
<1>7. ControlInv'
  BY <1>1 DEF IInv, ControlInv
<1>8. IdleInv' /\ CommitInv' /\ RollbackInv' /\ CutInv' /\ HeadInv' /\ TailInv' /\ LevelInv' /\ DownInv' /\ RepairInv'
  BY <1>1 DEF IdleInv, CommitInv, RollbackInv, CutInv, HeadInv, TailInv, LevelInv, DownInv, RepairInv
<1>9. ASSUME NEW t \in Table PROVE Buffered(t, mem[t], batch'[t], hist[t])
  <2>1. mem[t].items <= Len(hist[t])
    BY <1>1, Quiet DEF IInv, ControlInv, None, Midway
  <2>2. Len(batch'[t].index) = 0 /\ Len(batch'[t].data) = 0
    BY <1>3
  <2>3. batch'[t].curItem = mem[t].items + Len(batch'[t].index)
    BY <1>2, <1>3, <2>2
  <2>4. \A j \in 1 .. Len(batch'[t].index) : FALSE
    BY <2>2
  <2> QED BY <1>3, <2>1, <2>2, <2>3, <2>4 DEF Buffered
<1>10. ModifyInv'
  <2>1. \A t \in Table : frozen <= mem[t].items /\ mem[t].itemHidden = tail
    BY <1>1, <1>5 DEF IInv, OpInv, IdleInv
  <2>2. held = None
    BY <1>1 DEF IInv, OpInv, IdleInv
  <2> QED BY <1>1, <1>5, <1>9, <2>1, <2>2 DEF ModifyInv
<1>11. \A t \in Table : FilesInv(t)'
  BY <1>1, <1>4, <1>5, FloorsMove DEF Midway
<1> QED BY <1>6, <1>7, <1>8, <1>10, <1>11 DEF IInv, OpInv

\* TruncateHead gives up what it was asked to drop.
LEMMA StepTruncateHead ==
  ASSUME IInv, NEW n \in 0 .. MaxItems, TruncateHead(n) PROVE IInv'
<1>1. /\ pc = "idle" /\ n < frozen /\ pc' = "next" /\ op' = "head" /\ todo' = Table /\ target' = n
      /\ safe' = (IF n < tail THEN frozen ELSE n) /\ asked' = tail
      /\ UNCHANGED <<cache, disk, mem, batch, frozen, tail, held, hist>>
  BY DEF TruncateHead, Begin, fileVars
<1>2. frozen \in Nat /\ tail \in Nat /\ n \in Nat
  BY FreezerAssumption DEF IInv, TypeOK
<1>3. tail <= frozen /\ safe' \in Nat /\ safe' <= frozen /\ tail <= tail
  BY <1>1, <1>2, TailBelow
<1>4. TypeOK'
  BY <1>1, <1>2, <1>3 DEF IInv, TypeOK
<1>5. ControlInv'
  BY <1>1 DEF ControlInv
<1>6. IdleInv' /\ ModifyInv' /\ CommitInv' /\ RollbackInv' /\ CutInv' /\ TailInv' /\ LevelInv' /\ DownInv' /\ RepairInv'
  BY <1>1 DEF IdleInv, ModifyInv, CommitInv, RollbackInv, CutInv, TailInv, LevelInv, DownInv, RepairInv
<1>7. HeadInv'
  <2>1. \A t \in Table : mem[t].items = frozen /\ mem[t].itemHidden = tail
    BY <1>1 DEF IInv, OpInv, IdleInv
  <2> QED BY <1>1, <1>2, <2>1 DEF HeadInv
<1>8. \A t \in Table : FilesInv(t)'
  BY <1>1, <1>2, <1>3, FloorsMove DEF Midway
<1> QED BY <1>4, <1>5, <1>6, <1>7, <1>8 DEF IInv, OpInv

\* TruncateTail asks for a new tail, unless it is above the head.
LEMMA StepTruncateTail ==
  ASSUME IInv, NEW n \in 0 .. MaxItems, TruncateTail(n) PROVE IInv'
<1>1. /\ pc = "idle" /\ tail < n /\ pc' = "next" /\ op' = "tail" /\ todo' = Table /\ target' = n
      /\ safe' = frozen /\ asked' = (IF n <= frozen THEN n ELSE tail)
      /\ UNCHANGED <<cache, disk, mem, batch, frozen, tail, held, hist>>
  BY DEF TruncateTail, Begin, fileVars
<1>2. frozen \in Nat /\ tail \in Nat /\ n \in Nat
  BY FreezerAssumption DEF IInv, TypeOK
<1>3. tail <= frozen /\ asked' \in Nat /\ asked' <= frozen /\ tail <= asked' /\ frozen <= frozen
  BY <1>1, <1>2, TailBelow
<1>4. TypeOK'
  BY <1>1, <1>2, <1>3 DEF IInv, TypeOK
<1>5. ControlInv'
  BY <1>1 DEF ControlInv
<1>6. IdleInv' /\ ModifyInv' /\ CommitInv' /\ RollbackInv' /\ CutInv' /\ HeadInv' /\ LevelInv' /\ DownInv' /\ RepairInv'
  BY <1>1 DEF IdleInv, ModifyInv, CommitInv, RollbackInv, CutInv, HeadInv, LevelInv, DownInv, RepairInv
<1>7. TailInv'
  <2>1. \A t \in Table : mem[t].items = frozen /\ mem[t].itemHidden = tail
    BY <1>1 DEF IInv, OpInv, IdleInv
  <2> QED BY <1>1, <1>2, <2>1 DEF TailInv
<1>8. \A t \in Table : FilesInv(t)'
  BY <1>1, <1>2, <1>3, FloorsMove DEF Midway
<1> QED BY <1>4, <1>5, <1>6, <1>7, <1>8 DEF IInv, OpInv

\* One more element at the end of a sequence.
LEMMA AppendFacts ==
  ASSUME NEW S, NEW x \in Seq(S), NEW e \in S
  PROVE  /\ Append(x, e) \in Seq(S) /\ Len(Append(x, e)) = Len(x) + 1 /\ Append(x, e) # <<>>
         /\ Append(x, e)[Len(x) + 1] = e /\ \A i \in 1 .. Len(x) : Append(x, e)[i] = x[i]
<1>1. Append(x, e) \in Seq(S)
  OBVIOUS
<1>2. Len(Append(x, e)) = Len(x) + 1
  OBVIOUS
<1>3. Append(x, e)[Len(x) + 1] = e
  OBVIOUS
<1>4. \A i \in 1 .. Len(x) : Append(x, e)[i] = x[i]
  OBVIOUS
<1>5. Append(x, e) # <<>>
  <2>1. Len(x) + 1 > 0
    OBVIOUS
  <2>2. Len(Append(x, e)) > 0
    BY <1>2, <2>1
  <2> QED BY ONLY <2>2
<1> QED BY <1>1, <1>2, <1>3, <1>4, <1>5

\* Two sequences in a row.
LEMMA ConcatFacts ==
  ASSUME NEW S, NEW x \in Seq(S), NEW y \in Seq(S)
  PROVE  /\ x \o y \in Seq(S) /\ Len(x \o y) = Len(x) + Len(y)
         /\ \A i \in 1 .. Len(x) : (x \o y)[i] = x[i]
         /\ \A i \in Len(x) + 1 .. Len(x) + Len(y) : (x \o y)[i] = y[i - Len(x)]
<1>1. x \o y \in Seq(S)
  OBVIOUS
<1>2. Len(x \o y) = Len(x) + Len(y)
  OBVIOUS
<1>3. \A i \in 1 .. Len(x) : (x \o y)[i] = x[i]
  OBVIOUS
<1>4. \A i \in Len(x) + 1 .. Len(x) + Len(y) : (x \o y)[i] = y[i - Len(x)]
  OBVIOUS
<1> QED BY <1>1, <1>2, <1>3, <1>4

\* The stored form of a payload.
LEMMA BytesFacts ==
  ASSUME NEW t \in Table, NEW p \in Payload
  PROVE  /\ Size[t][p] \in Nat /\ Size[t][p] > 0 /\ Size[t][p] <= MaxFileSize
         /\ Bytes(t, p) \in Seq(Payload) /\ Len(Bytes(t, p)) = Size[t][p]
         /\ \A k \in 1 .. Size[t][p] : Bytes(t, p)[k] = p
<1>1. Size[t][p] \in 1 .. MaxFileSize /\ MaxFileSize \in Nat
  BY FreezerAssumption
<1>2. PICK z \in Nat : z = Size[t][p]
  BY <1>1
<1>3. Bytes(t, p) = [i \in 1 .. z |-> p]
  BY <1>2 DEF Bytes
<1>4. [i \in 1 .. z |-> p] \in Seq(Payload)
  OBVIOUS
<1>5. Len([i \in 1 .. z |-> p]) = z
  OBVIOUS
<1>6. \A k \in 1 .. z : [i \in 1 .. z |-> p][k] = p
  OBVIOUS
<1>7. z > 0 /\ z <= MaxFileSize
  BY <1>1, <1>2
<1>8. /\ Bytes(t, p) \in Seq(Payload) /\ Len(Bytes(t, p)) = z
      /\ \A k \in 1 .. z : Bytes(t, p)[k] = p
  BY ONLY <1>3, <1>4, <1>5, <1>6
<1> QED BY ONLY <1>2, <1>7, <1>8

\* Batch bn is b and history hn the front of h, both with item p added.
Added(t, m, b, h, p, bn, hn) ==
    /\ bn.data = b.data \o Bytes(t, p)
    /\ bn.index = Append(b.index, Entry(m.headId, m.headBytes + Len(b.data) + Size[t][p]))
    /\ bn.curItem = b.curItem + 1
    /\ hn = Append(Prefix(h, b.curItem), p)

\* The end of appendItem: one more item in the batch of a table.
LEMMA BufferedAppend ==
  ASSUME NEW t \in Table, NEW m \in Memory, NEW b \in Batch, NEW h \in Seq(Payload), NEW p \in Payload,
         Buffered(t, m, b, h), NEW bn, NEW hn, Added(t, m, b, h, p, bn, hn)
  PROVE  /\ Buffered(t, m, bn, hn) /\ bn.data \in Seq(Payload) /\ bn.index \in Seq(Position)
         /\ hn \in Seq(Payload) /\ Len(hn) = b.curItem + 1 /\ \A n \in 1 .. b.curItem : hn[n] = h[n]
<1> DEFINE H == m.headBytes
           L == Len(b.index)
           D == Len(b.data)
           z == Size[t][p]
           I == m.items
           C == b.curItem
           end == m.headBytes + Len(b.data) + Size[t][p]
<1>20. /\ bn.data = b.data \o Bytes(t, p) /\ bn.index = Append(b.index, Entry(m.headId, end))
       /\ bn.curItem = b.curItem + 1 /\ hn = Append(Prefix(h, b.curItem), p)
  BY DEF Added
<1>0. /\ H \in Nat /\ L \in Nat /\ D \in Nat /\ I \in Nat /\ C \in Nat /\ m.headId \in Nat
      /\ b.index \in Seq(Position) /\ b.data \in Seq(Payload)
  BY Fields
<1>1. z \in Nat /\ z > 0
  BY BytesFacts
<1>2. PICK E \in Nat : E = H + D + z /\ E = end
  <2>1. end = H + D + z
    OBVIOUS
  <2> HIDE DEF H, D, z
  <2>2. H + D + z \in Nat
    BY ONLY <1>0, <1>1
  <2> QED BY ONLY <2>1, <2>2
<1>3. C = I + L /\ C <= Len(h)
  BY DEF Buffered
<1>4. /\ hn \in Seq(Payload) /\ Len(hn) = C + 1 /\ hn[C + 1] = p
      /\ \A n \in 1 .. C : hn[n] = h[n]
  <2> DEFINE g == Prefix(h, C)
  <2>1. g \in Seq(Payload) /\ Len(g) = C /\ \A i \in 1..C : g[i] = h[i]
    BY ZenonT(40), <1>0, <1>3, PrefixFacts
  <2>2. hn = Append(g, p)
    BY <1>20
  <2> HIDE DEF g
  <2> QED BY ONLY <1>0, <2>1, <2>2, p \in Payload
<1>5. /\ bn.index \in Seq(Position) /\ Len(bn.index) = L + 1 /\ bn.index # <<>>
      /\ bn.index[L + 1].file = m.headId /\ bn.index[L + 1].off = E
      /\ \A j \in 1 .. L : bn.index[j] = b.index[j]
  <2>1. PICK e \in Position : e = Entry(m.headId, E) /\ e.file = m.headId /\ e.off = E
    <3>1. PICK g \in Nat : g = m.headId
      BY ONLY <1>0
    <3>2. Entry(g, E) \in Position /\ Entry(g, E).file = g /\ Entry(g, E).off = E
      BY ONLY E \in Nat, g \in Nat DEF Entry, Position
    <3> QED BY ONLY <3>1, <3>2
  <2>2. bn.index = Append(b.index, e)
    BY <1>2, <1>20, <2>1
  <2>3. /\ Append(b.index, e) \in Seq(Position) /\ Len(Append(b.index, e)) = L + 1
        /\ Append(b.index, e) # <<>> /\ Append(b.index, e)[L + 1] = e
        /\ \A j \in 1 .. L : Append(b.index, e)[j] = b.index[j]
    BY ONLY <1>0, AppendFacts
  <2> QED BY ONLY <2>1, <2>2, <2>3
<1>6. /\ bn.data \in Seq(Payload) /\ Len(bn.data) = D + z
      /\ \A k \in 1 .. D : bn.data[k] = b.data[k]
      /\ \A k \in D + 1 .. D + z : bn.data[k] = p
  <2> DEFINE q == Bytes(t, p)
  <2>1. q \in Seq(Payload) /\ Len(q) = z /\ \A k \in 1 .. z : q[k] = p
    BY BytesFacts
  <2>2. bn.data = b.data \o q
    BY <1>20
  <2> HIDE DEF q, z
  <2>3. /\ b.data \o q \in Seq(Payload) /\ Len(b.data \o q) = D + z
        /\ \A k \in 1 .. D : (b.data \o q)[k] = b.data[k]
        /\ \A k \in D + 1 .. D + z : (b.data \o q)[k] = q[k - D]
    <3>1. /\ b.data \o q \in Seq(Payload) /\ Len(b.data \o q) = D + Len(q)
          /\ \A k \in 1 .. D : (b.data \o q)[k] = b.data[k]
          /\ \A k \in D + 1 .. D + Len(q) : (b.data \o q)[k] = q[k - D]
      <4>1. PICK r \in Seq(Payload) : r = b.data
        BY ONLY <1>0
      <4>2. PICK v \in Seq(Payload) : v = q
        BY ONLY <2>1
      <4>3. /\ r \o v \in Seq(Payload) /\ Len(r \o v) = Len(r) + Len(v)
            /\ \A i \in 1 .. Len(r) : (r \o v)[i] = r[i]
            /\ \A i \in Len(r) + 1 .. Len(r) + Len(v) : (r \o v)[i] = v[i - Len(r)]
        BY ONLY r \in Seq(Payload), v \in Seq(Payload), ConcatFacts
      <4> QED BY ONLY <4>1, <4>2, <4>3
    <3> QED BY ONLY <2>1, <3>1
  <2>4. \A k \in D + 1 .. D + z : k - D \in 1 .. z
    BY <1>0, <1>1
  <2> QED BY ONLY <2>1, <2>2, <2>3, <2>4
<1> HIDE DEF H, L, D, z, I, C
<1>7. \A j \in 1 .. L : From(m, bn, j) = From(m, b, j)
  <2> SUFFICES ASSUME NEW j \in 1 .. L PROVE From(m, bn, j) = From(m, b, j)
    OBVIOUS
  <2>1. CASE j = 1
    BY <2>1 DEF From
  <2>2. CASE j # 1
    <3>1. j - 1 \in 1 .. L
      BY <1>0, <2>2
    <3>2. bn.index[j - 1] = b.index[j - 1]
      BY <1>5, <3>1
    <3> QED BY <2>2, <3>2 DEF From
  <2> QED BY <2>1, <2>2
<1>8. From(m, bn, L + 1) = H + D
  <2>1. D = IF b.index = <<>> THEN 0 ELSE b.index[L].off - H
    BY DEF Buffered, D, L, H
  <2>2. CASE b.index = <<>>
    <3>1. L = 0 /\ D = 0
      BY <2>1, <2>2 DEF L
    <3> QED BY <1>0, <3>1 DEF From, H
  <2>3. CASE b.index # <<>>
    <3>1. L > 0
      BY <1>0, <2>3 DEF L
    <3>2. L \in 1 .. L /\ L + 1 # 1 /\ L + 1 - 1 = L
      BY <1>0, <3>1
    <3>3. From(m, bn, L + 1) = b.index[L].off
      BY <1>5, <3>2 DEF From
    <3>4. b.index[L] \in Position
      BY <1>0, <3>2 DEF L
    <3>5. b.index[L].off \in Nat
      BY <3>4 DEF Position
    <3>6. PICK o \in Nat : o = b.index[L].off
      BY <3>5
    <3>7. D = o - H
      BY ONLY <2>1, <2>3, <3>6
    <3>8. o = H + D
      BY ONLY <1>0, <3>7
    <3> QED BY ONLY <3>3, <3>6, <3>8
  <2> QED BY <2>2, <2>3
<1>9. ASSUME NEW j \in 1 .. L
      PROVE  /\ bn.index[j].file = m.headId /\ H <= From(m, bn, j)
             /\ bn.index[j].off = From(m, bn, j) + Size[t][hn[I + j]]
             /\ bn.index[j].off <= H + Len(bn.data)
             /\ bn.index[j].off <= H + D
             /\ \A k \in From(m, bn, j) + 1 .. bn.index[j].off : bn.data[k - H] = hn[I + j]
  <2> DEFINE F == From(m, b, j)
             O == b.index[j].off
  <2>1. /\ b.index[j].file = m.headId /\ H <= F /\ O = F + Size[t][h[I + j]] /\ O <= H + D
        /\ \A k \in F + 1 .. O : b.data[k - H] = h[I + j]
    BY DEF Buffered, H, D, I, L
  <2>2. bn.index[j] = b.index[j] /\ From(m, bn, j) = F
    BY <1>5, <1>7
  <2>3. I + j \in 1 .. C
    BY <1>0, <1>3
  <2>4. hn[I + j] = h[I + j]
    BY <1>4, <2>3
  <2>5. b.index[j] \in Position
    BY <1>0 DEF L
  <2>6. O \in Nat
    BY <2>5 DEF Position
  <2>7. F \in Nat
    <3>1. CASE j = 1
      BY <1>0, <3>1 DEF From, H
    <3>2. CASE j # 1
      <4>1. j - 1 \in 1 .. L
        BY <1>0, <3>2
      <4>2. b.index[j - 1] \in Position
        BY <1>0, <4>1 DEF L
      <4> QED BY <3>2, <4>2 DEF From, Position
    <3> QED BY <3>1, <3>2
  <2> HIDE DEF F, O
  <2>8. O <= H + Len(bn.data)
    BY <1>0, <1>1, <1>6, <2>1, <2>6
  <2>9. \A k \in F + 1 .. O : bn.data[k - H] = b.data[k - H]
    <3> SUFFICES ASSUME NEW k \in F + 1 .. O PROVE bn.data[k - H] = b.data[k - H]
      OBVIOUS
    <3>1. k - H \in 1 .. D
      BY ONLY <1>0, <2>1, <2>6, <2>7, k \in F + 1 .. O
    <3> QED BY <1>6, <3>1
  <2> QED BY <2>1, <2>2, <2>4, <2>8, <2>9 DEF F, O
<1>10. /\ H <= From(m, bn, L + 1)
       /\ E = From(m, bn, L + 1) + Size[t][hn[I + (L + 1)]]
       /\ E <= H + Len(bn.data)
       /\ \A k \in From(m, bn, L + 1) + 1 .. E : bn.data[k - H] = hn[I + (L + 1)]
  <2>1. I + (L + 1) = C + 1
    BY <1>0, <1>3
  <2>2. hn[I + (L + 1)] = p
    BY <1>4, <2>1
  <2>3. Size[t][hn[I + (L + 1)]] = z
    BY <2>2 DEF z
  <2>4. \A k \in H + D + 1 .. E : k - H \in D + 1 .. D + z
    BY ONLY <1>0, <1>1, <1>2
  <2>5. \A k \in H + D + 1 .. E : bn.data[k - H] = p
    BY <1>6, <2>4
  <2>6. H <= H + D /\ E = (H + D) + z /\ E <= H + (D + z)
    BY ONLY <1>0, <1>1, <1>2
  <2>7. E <= H + Len(bn.data)
    BY ONLY <1>6, <2>6
  <2> QED BY <1>8, <2>2, <2>3, <2>5, <2>6, <2>7
<1>11. \A j \in 1 .. Len(bn.index) : j \in 1 .. L \/ j = L + 1
  BY <1>0, <1>5
<1>12. ASSUME NEW j \in 1 .. Len(bn.index)
       PROVE  /\ bn.index[j].file = m.headId /\ H <= From(m, bn, j)
              /\ bn.index[j].off = From(m, bn, j) + Size[t][hn[I + j]]
              /\ bn.index[j].off <= H + Len(bn.data)
              /\ \A k \in From(m, bn, j) + 1 .. bn.index[j].off : bn.data[k - H] = hn[I + j]
  <2>1. CASE j \in 1 .. L
    BY <1>9, <2>1
  <2>2. CASE j = L + 1
    BY <1>5, <1>10, <2>2
  <2> QED BY <1>11, <2>1, <2>2
<1>13. ASSUME NEW i \in 1 .. Len(bn.index), NEW j \in 1 .. Len(bn.index), i < j
       PROVE  bn.index[i].off < bn.index[j].off
  <2>1. i \in 1 .. L
    BY <1>0, <1>5, <1>13
  <2>2. CASE j \in 1 .. L
    <3>1. b.index[i].off < b.index[j].off
      BY <1>13, <2>1, <2>2 DEF Buffered, L
    <3> QED BY <1>5, <2>1, <2>2, <3>1
  <2>3. CASE j = L + 1
    <3>1. bn.index[i].off <= H + D
      BY <1>9, <2>1
    <3>2. bn.index[i] \in Position
      BY <1>5
    <3>3. bn.index[i].off \in Nat
      BY <3>2 DEF Position
    <3>4. PICK o \in Nat : o = bn.index[i].off /\ o <= H + D
      BY ONLY <3>1, <3>3
    <3>5. o < E
      BY ONLY <1>0, <1>1, <1>2, <3>4
    <3>6. bn.index[j].off = E
      BY ONLY <1>5, <2>3
    <3> QED BY ONLY <3>4, <3>5, <3>6
  <2> QED BY <1>11, <2>2, <2>3
<1>14. bn.curItem = I + Len(bn.index) /\ bn.curItem <= Len(hn)
  <2>1. bn.curItem = C + 1
    BY <1>20 DEF C
  <2>2. C + 1 = I + (L + 1) /\ C + 1 <= C + 1
    BY ONLY <1>0, <1>3
  <2> QED BY ONLY <1>4, <1>5, <2>1, <2>2
<1>15. Len(bn.data) = IF bn.index = <<>> THEN 0 ELSE bn.index[Len(bn.index)].off - H
  <2>1. bn.index[Len(bn.index)].off = E
    BY ONLY <1>5
  <2>2. D + z = E - H
    BY ONLY <1>0, <1>1, <1>2
  <2> QED BY ONLY <1>5, <1>6, <2>1, <2>2
<1>16. Buffered(t, m, bn, hn)
  BY <1>12, <1>13, <1>14, <1>15 DEF Buffered, H, I
<1> QED BY <1>4, <1>5, <1>6, <1>16 DEF C

\* What the end of appendItem does to the batches.
LEMMA BufferStep ==
  ASSUME TypeOK, NEW t \in Table, NEW p \in Payload, NEW m \in Memory, Buffer(t, p, m),
         Buffered(t, m, batch[t], hist[t])
  PROVE  /\ batch' \in [Table -> Batch] /\ hist' \in [Table -> Seq(Payload)]
         /\ Buffered(t, m, batch'[t], hist'[t])
         /\ \A u \in Table \ {t} : batch'[u] = batch[u] /\ hist'[u] = hist[u]
         /\ m.items <= Len(hist'[t]) /\ \A n \in 1 .. m.items : hist'[t][n] = hist[t][n]
         /\ pc' \in {"write", "run"} /\ (pc' = "write" => cur' = t)
<1> DEFINE b == batch[t]
           h == hist[t]
           end == m.headBytes + Len(b.data) + Size[t][p]
           bn == [data |-> b.data \o Bytes(t, p), index |-> Append(b.index, Entry(m.headId, end)),
                  curItem |-> b.curItem + 1]
           hn == Append(Prefix(h, b.curItem), p)
<1>1. /\ batch' = [batch EXCEPT ![t] = bn] /\ hist' = [hist EXCEPT ![t] = hn]
      /\ pc' \in {"write", "run"} /\ (pc' = "write" => cur' = t)
  BY DEF Buffer, Goto
<1>2. b \in Batch /\ h \in Seq(Payload) /\ b.curItem \in Nat /\ m.items \in Nat
  BY Typed, Fields
<1>3. /\ Buffered(t, m, bn, hn) /\ bn.data \in Seq(Payload) /\ bn.index \in Seq(Position)
      /\ hn \in Seq(Payload) /\ Len(hn) = b.curItem + 1 /\ \A n \in 1 .. b.curItem : hn[n] = h[n]
  <2>1. Added(t, m, b, h, p, bn, hn)
    BY DEF Added
  <2> HIDE DEF b, h, bn, hn
  <2>2. b \in Batch /\ h \in Seq(Payload) /\ Buffered(t, m, b, h)
    BY <1>2 DEF b, h
  <2> QED BY <2>1, <2>2, BufferedAppend
<1>4. bn \in Batch
  <2>1. b.curItem + 1 \in Nat
    BY ONLY <1>2
  <2> QED BY <1>3, <2>1 DEF Batch
<1> HIDE DEF bn, hn
<1>5. /\ batch' \in [Table -> Batch] /\ batch'[t] = bn /\ \A u \in Table \ {t} : batch'[u] = batch[u]
  BY <1>1, <1>4 DEF TypeOK
<1>6. /\ hist' \in [Table -> Seq(Payload)] /\ hist'[t] = hn /\ \A u \in Table \ {t} : hist'[u] = hist[u]
  BY <1>1, <1>3 DEF TypeOK
<1>7. m.items <= b.curItem
  <2>1. b.curItem = m.items + Len(b.index) /\ Len(b.index) \in Nat
    BY <1>2, Fields DEF Buffered
  <2> QED BY ONLY <1>2, <2>1
<1>8. m.items <= Len(hn) /\ \A n \in 1 .. m.items : n \in 1 .. b.curItem
  BY <1>2, <1>3, <1>7
<1> QED BY <1>1, <1>3, <1>5, <1>6, <1>8

\* An item that does not fit waits for the next file, the others go to the batch.
LEMMA StepAppendItem ==
  ASSUME IInv, NEW t \in Table, NEW p \in Payload, AppendItem(t, p) PROVE IInv'
<1>0. TypeOK /\ (\A u \in Table : FilesInv(u))
  BY DEF IInv
<1>1. /\ pc = "run" /\ op = "modify" /\ op' = op
      /\ UNCHANGED <<cache, disk, mem, frozen, tail, todo, target, safe, asked>>
  BY DEF IInv, ControlInv, AppendItem, fileVars, None
<1>2. /\ held = None /\ safe = frozen /\ asked = tail /\ tail <= frozen
      /\ \A u \in Table : /\ frozen <= mem[u].items /\ mem[u].itemHidden = tail
                          /\ Buffered(u, mem[u], batch[u], hist[u])
  BY <1>1 DEF IInv, OpInv, ModifyInv
<1>3. CASE mem[t].headBytes + Len(batch[t].data) + Size[t][p] > MaxFileSize
  <2>1. pc' = "write" /\ cur' = t /\ held' = p /\ UNCHANGED <<batch, hist>>
    BY <1>3 DEF AppendItem, Goto
  <2>2. TypeOK'
    BY <1>0, <1>1, <2>1 DEF TypeOK
  <2>3. ControlInv'
    BY <1>1, <2>1 DEF ControlInv
  <2>4. IdleInv' /\ CommitInv' /\ RollbackInv' /\ CutInv' /\ HeadInv' /\ TailInv' /\ LevelInv' /\ DownInv' /\ RepairInv'
    BY <1>1, <2>1 DEF IdleInv, CommitInv, RollbackInv, CutInv, HeadInv, TailInv, LevelInv, DownInv, RepairInv
  <2>5. ModifyInv'
    <3>1. Overfull(cur)'
      BY <1>1, <1>3, <2>1 DEF Overfull
    <3> QED BY <1>1, <1>2, <2>1, <3>1 DEF ModifyInv
  <2>6. \A u \in Table : FilesInv(u)'
    BY <1>0, <1>1, <2>1, FilesStay DEF Midway
  <2> QED BY <2>2, <2>3, <2>4, <2>5, <2>6 DEF IInv, OpInv
<1>4. CASE ~(mem[t].headBytes + Len(batch[t].data) + Size[t][p] > MaxFileSize)
  <2>1. Buffer(t, p, mem[t]) /\ held' = held
    BY <1>4 DEF AppendItem
  <2>2. mem[t] \in Memory
    BY <1>0, Typed
  <2>3. /\ batch' \in [Table -> Batch] /\ hist' \in [Table -> Seq(Payload)]
        /\ Buffered(t, mem[t], batch'[t], hist'[t])
        /\ \A u \in Table \ {t} : batch'[u] = batch[u] /\ hist'[u] = hist[u]
        /\ mem[t].items <= Len(hist'[t]) /\ \A n \in 1 .. mem[t].items : hist'[t][n] = hist[t][n]
        /\ pc' \in {"write", "run"} /\ (pc' = "write" => cur' = t)
    BY <1>0, <1>2, <2>1, <2>2, BufferStep
  <2>4. TypeOK'
    BY <1>0, <1>1, <2>1, <2>3 DEF TypeOK
  <2>5. ControlInv'
    BY <1>1, <2>3 DEF ControlInv
  <2>6. IdleInv' /\ CommitInv' /\ RollbackInv' /\ CutInv' /\ HeadInv' /\ TailInv' /\ LevelInv' /\ DownInv' /\ RepairInv'
    BY <1>1, <2>3 DEF IdleInv, CommitInv, RollbackInv, CutInv, HeadInv, TailInv, LevelInv, DownInv, RepairInv
  <2>7. ModifyInv'
    <3>1. \A u \in Table : Buffered(u, mem[u], batch'[u], hist'[u])
      BY <1>2, <2>3
    <3> QED BY <1>1, <1>2, <2>1, <2>3, <3>1 DEF ModifyInv
  <2>8. ASSUME NEW u \in Table
        PROVE  OpenOK(u, disk[u], cache[u], mem[u], hist'[u], "none", safe, asked)
    <3>1. OpenOK(u, disk[u], cache[u], mem[u], hist[u], "none", safe, asked)
      BY <1>0, <1>1, Quiet DEF Midway
    <3>2. CASE u # t
      BY <2>3, <3>1, <3>2
    <3>3. CASE u = t
      <4>1. disk[t] \in Files /\ cache[t] \in Files /\ hist[t] \in Seq(Payload) /\ hist'[t] \in Seq(Payload)
        BY <1>0, <2>3, Typed
      <4>2. OpenOK(t, disk[t], cache[t], mem[t], hist[t], "none", safe, asked)
        BY <3>1, <3>3
      <4>3. OpenOK(t, disk[t], cache[t], mem[t], hist'[t], "none", safe, asked)
        BY <2>2, <2>3, <4>1, <4>2, OpenHist
      <4> QED BY <3>3, <4>3
    <3> QED BY <3>2, <3>3
  <2>9. \A u \in Table : Opened(u)'
    <3>1. \A u \in Table : Phase(u)' = "none"
      BY <2>3 DEF Phase, Midway
    <3> QED BY <1>1, <2>8, <3>1 DEF Opened
  <2>10. \A u \in Table : FilesInv(u)'
    BY <1>1, <2>3, <2>9, OpenNext
  <2> QED BY <2>4, <2>5, <2>6, <2>7, <2>10 DEF IInv, OpInv
<1> QED BY <1>3, <1>4

\* A step that works on one open table.
LEMMA OneTable ==
  ASSUME TypeOK, \A u \in Table : FilesInv(u), pc # "down", op # "open", pc' # "down", op' # "open",
         NEW t \in Table, pc \in Midway => cur = t, pc' \in Midway => cur' = t,
         \A u \in Table \ {t} : /\ cache'[u] = cache[u] /\ disk'[u] = disk[u]
                                /\ mem'[u] = mem[u] /\ hist'[u] = hist[u],
         safe' = safe, asked' = asked,
         NEW ph, ph = (IF pc' \in Midway THEN pc' ELSE "none"),
         OpenOK(t, disk'[t], cache'[t], mem'[t], hist'[t], ph, safe, asked)
  PROVE  \A u \in Table : FilesInv(u)'
<1>1. ASSUME NEW u \in Table PROVE Opened(u)'
  <2>1. CASE u = t
    <3>1. Phase(t)' = ph
      BY DEF Phase
    <3> QED BY <2>1, <3>1 DEF Opened
  <2>2. CASE u # t
    <3>1. Phase(u)' = "none"
      BY <2>2 DEF Phase
    <3>2. OpenOK(u, disk[u], cache[u], mem[u], hist[u], "none", safe, asked)
      BY <2>2, Quiet
    <3> QED BY <2>2, <3>1, <3>2 DEF Opened
  <2> QED BY <2>1, <2>2
<1> QED BY <1>1, OpenNext

\* Functions v and vn of files differ at t, where vn has index x, metadata n and
\* data g.
TablePut(v, vn, t, x, n, g) ==
    /\ vn \in [Table -> Files] /\ vn[t].index = x /\ vn[t].meta = n /\ vn[t].data = g
    /\ \A u \in Table \ {t} : vn[u] = v[u]

SetIndex(v, vn, t, x) == vn = [v EXCEPT ![t].index = x]

\* The index of one table is replaced.
LEMMA PutIndex ==
  ASSUME NEW v \in [Table -> Files], NEW t \in Table, NEW x \in Seq(Position),
         NEW vn, SetIndex(v, vn, t, x)
  PROVE  TablePut(v, vn, t, x, v[t].meta, v[t].data)
<1>1. PICK c \in Files : c = v[t]
  OBVIOUS
<1>2. PICK w : w = [c EXCEPT !.index = x]
  OBVIOUS
<1>3. w \in Files
  BY ONLY <1>2, c \in Files, x \in Seq(Position) DEF Files
<1>4. w.index = x /\ w.meta = c.meta /\ w.data = c.data
  BY ONLY <1>2, c \in Files DEF Files
<1>5. vn = [v EXCEPT ![t] = w]
  BY <1>1, <1>2 DEF SetIndex
<1>6. vn \in [Table -> Files] /\ vn[t] = w /\ \A u \in Table \ {t} : vn[u] = v[u]
  BY ONLY <1>3, <1>5, v \in [Table -> Files], t \in Table
<1> QED BY ONLY <1>1, <1>4, <1>6 DEF TablePut

SetMeta(v, vn, t, n) == vn = [v EXCEPT ![t].meta = n]

\* The meta of one table is replaced.
LEMMA PutMeta ==
  ASSUME NEW v \in [Table -> Files], NEW t \in Table, NEW n \in Nat,
         NEW vn, SetMeta(v, vn, t, n)
  PROVE  TablePut(v, vn, t, v[t].index, n, v[t].data)
<1>1. PICK c \in Files : c = v[t]
  OBVIOUS
<1>2. PICK w : w = [c EXCEPT !.meta = n]
  OBVIOUS
<1>3. w \in Files
  BY ONLY <1>2, c \in Files, n \in Nat DEF Files
<1>4. w.meta = n /\ w.index = c.index /\ w.data = c.data
  BY ONLY <1>2, c \in Files DEF Files
<1>5. vn = [v EXCEPT ![t] = w]
  BY <1>1, <1>2 DEF SetMeta
<1>6. vn \in [Table -> Files] /\ vn[t] = w /\ \A u \in Table \ {t} : vn[u] = v[u]
  BY ONLY <1>3, <1>5, v \in [Table -> Files], t \in Table
<1> QED BY ONLY <1>1, <1>4, <1>6 DEF TablePut

SetData(v, vn, t, g) == vn = [v EXCEPT ![t].data = g]

\* The data of one table is replaced.
LEMMA PutData ==
  ASSUME NEW v \in [Table -> Files], NEW t \in Table, NEW g \in Data,
         NEW vn, SetData(v, vn, t, g)
  PROVE  TablePut(v, vn, t, v[t].index, v[t].meta, g)
<1>1. PICK c \in Files : c = v[t]
  OBVIOUS
<1>2. PICK w : w = [c EXCEPT !.data = g]
  OBVIOUS
<1>3. w \in Files
  BY ONLY <1>2, c \in Files, g \in Data DEF Files
<1>4. w.data = g /\ w.index = c.index /\ w.meta = c.meta
  BY ONLY <1>2, c \in Files DEF Files
<1>5. vn = [v EXCEPT ![t] = w]
  BY <1>1, <1>2 DEF SetData
<1>6. vn \in [Table -> Files] /\ vn[t] = w /\ \A u \in Table \ {t} : vn[u] = v[u]
  BY ONLY <1>3, <1>5, v \in [Table -> Files], t \in Table
<1> QED BY ONLY <1>1, <1>4, <1>6 DEF TablePut

\* Data is appended to the head file.
LEMMA StepWriteData ==
  ASSUME IInv, NEW t \in Table, WriteData(t) PROVE IInv'
<1>0. TypeOK /\ (\A u \in Table : FilesInv(u))
  BY DEF IInv
<1>1. /\ (pc = "next" /\ op = "commit" /\ t \in todo) \/ (pc = "write" /\ op = "modify" /\ t = cur)
      /\ cache' = [cache EXCEPT ![t].data[mem[t].headId] = @ \o batch[t].data]
      /\ pc' = "index" /\ cur' = t
      /\ UNCHANGED <<disk, mem, batch, frozen, tail, op, todo, target, held, hist, safe, asked>>
  BY DEF IInv, ControlInv, WriteData, Committing, AtTable, Goto, ghosts, None
<1> DEFINE f == mem[t].headId
           z == batch[t].data
           cd == cache[t].data
           cx == [cd EXCEPT ![f] = cd[f] \o z]
<1>2. /\ disk[t] \in Files /\ cache[t] \in Files /\ mem[t] \in Memory /\ hist[t] \in Seq(Payload)
      /\ z \in Seq(Payload) /\ cd \in Data
  BY <1>0, Typed, Fields
<1>3. OpenOK(t, disk[t], cache[t], mem[t], hist[t], "none", safe, asked)
  BY <1>0, <1>1, Quiet DEF Midway
<1>4. f \in DOMAIN cd /\ cd[f] \in Seq(Payload) /\ f \in Nat
  BY <1>2, <1>3, OpenFacts, DataFacts, Fields
<1>5. cd[f] \o z \in Seq(Payload)
  BY ONLY SMTT(30), <1>2, <1>4, ConcatFacts
<1>6. cx \in Data /\ Changed(cd, cx, f, cd[f] \o z)
  <2>1. PICK w \in Seq(Payload) : w = cd[f] \o z
    BY ONLY <1>5
  <2>2. Changed(cd, [cd EXCEPT ![f] = w], f, w)
    BY ONLY <1>2, <1>4, FileChanged, w \in Seq(Payload)
  <2>3. Changed(cd, cx, f, cd[f] \o z)
    BY ONLY <2>1, <2>2
  <2> QED BY <2>3 DEF Changed
<1>7. SetData(cache, cache', t, cx)
  BY <1>0, <1>1 DEF TypeOK, SetData
<1>8. cache \in [Table -> Files]
  BY <1>0 DEF TypeOK
<1> HIDE DEF cx
<1>9. /\ cache' \in [Table -> Files] /\ cache'[t].index = cache[t].index
      /\ cache'[t].meta = cache[t].meta /\ cache'[t].data = cx
      /\ \A u \in Table \ {t} : cache'[u] = cache[u]
  <2>1. cx \in Data
    BY <1>6
  <2> HIDE DEF cd
  <2>2. TablePut(cache, cache', t, cache[t].index, cache[t].meta, cx)
    BY ONLY <1>7, <1>8, <2>1, PutData, t \in Table
  <2> QED BY ONLY <2>2 DEF TablePut
<1>10. Changed(cd, cache'[t].data, f, cd[f] \o z)
  BY <1>6, <1>9
<1>11. /\ OpenOK(t, disk[t], cache'[t], mem[t], hist[t], "index", safe, asked)
       /\ Len(cache'[t].data[f]) = mem[t].headBytes + Len(z)
       /\ \A k \in 1 .. Len(z) : cache'[t].data[f][mem[t].headBytes + k] = z[k]
  <2>1. cache'[t].index = cache[t].index /\ cache'[t].meta = cache[t].meta
    BY <1>9
  <2>2. Changed(cache[t].data, cache'[t].data, mem[t].headId, cache[t].data[mem[t].headId] \o z)
    BY <1>10
  <2> HIDE DEF z
  <2> QED BY ONLY SMTT(30), t \in Table, <1>2, <1>3, <2>1, <2>2, OpenWriteData
<1>12. TypeOK'
  BY <1>0, <1>1, <1>9 DEF TypeOK
<1>13. ControlInv'
  BY SMTT(30), <1>1 DEF ControlInv
<1>14. IdleInv' /\ RollbackInv' /\ CutInv' /\ HeadInv' /\ TailInv' /\ LevelInv' /\ DownInv' /\ RepairInv'
  BY SMTT(30), <1>1 DEF IdleInv, RollbackInv, CutInv, HeadInv, TailInv, LevelInv, DownInv, RepairInv
<1>15. ModifyInv'
  <2>1. ModifyInv
    BY SMTT(30) DEF IInv, OpInv
  <2>2. op = "modify" /\ held # None => Overfull(cur)'
    BY SMTT(30), <1>1, <2>1 DEF ModifyInv, Overfull
  <2> QED BY <1>1, <2>1, <2>2 DEF ModifyInv
<1>16. CommitInv'
  <2>1. op = "commit" => /\ \A u, w \in Table : batch[u].curItem = batch[w].curItem
                         /\ \A u \in Table \ todo : batch[u].index = <<>>
    BY SMTT(30) DEF IInv, OpInv, CommitInv
  <2> QED BY <1>1, <1>11, <2>1 DEF CommitInv
<1>17. \A u \in Table : FilesInv(u)'
  BY <1>0, <1>1, <1>9, <1>11, OneTable DEF Midway
<1> QED BY <1>12, <1>13, <1>14, <1>15, <1>16, <1>17 DEF IInv, OpInv

SetMem(v, vn, t, w) == vn = [v EXCEPT ![t] = w]

\* The fields of one table are replaced.
LEMMA PutMem ==
  ASSUME NEW v \in [Table -> Memory], NEW t \in Table, NEW w \in Memory, NEW vn, SetMem(v, vn, t, w)
  PROVE  vn \in [Table -> Memory] /\ vn[t] = w /\ \A u \in Table \ {t} : vn[u] = v[u]
BY DEF SetMem

\* The data is synced and the index entries are written.
LEMMA StepWriteIndex ==
  ASSUME IInv, WriteIndex PROVE IInv'
<1>0. TypeOK /\ (\A u \in Table : FilesInv(u))
  BY DEF IInv
<1>1. PICK t \in Table : t = cur /\ pc = "index"
  BY DEF IInv, ControlInv, WriteIndex
<1>2. op \in {"modify", "commit"} /\ (op = "commit" => t \in todo)
  BY <1>1 DEF IInv, ControlInv
<1>3. /\ disk' = [disk EXCEPT ![t].data = Synced(disk[t].data, cache[t].data, mem[t].headId)]
      /\ cache' = [cache EXCEPT ![t].index = cache[t].index \o batch[t].index]
      /\ pc' = "count" /\ cur' = t
      /\ UNCHANGED <<mem, batch, frozen, tail, op, todo, target, held, hist, safe, asked>>
  BY <1>0, <1>1 DEF WriteIndex, SyncedData, Synced, Goto, ghosts, TypeOK
<1>4. /\ disk[t] \in Files /\ cache[t] \in Files /\ mem[t] \in Memory /\ hist[t] \in Seq(Payload)
      /\ batch[t] \in Batch /\ safe \in Nat /\ asked \in Nat
  BY <1>0, Typed DEF TypeOK
<1>5. OpenOK(t, disk[t], cache[t], mem[t], hist[t], "index", safe, asked)
  <2>1. Phase(t) = "index" /\ op # "open"
    BY <1>1, <1>2 DEF Phase, Midway
  <2>2. Opened(t)
    BY <1>0, <1>1, <2>1, OpenTables
  <2> QED BY <2>1, <2>2 DEF Opened
<1>6. /\ Len(cache[t].data[mem[t].headId]) = mem[t].headBytes + Len(batch[t].data)
      /\ \A k \in 1 .. Len(batch[t].data) :
            cache[t].data[mem[t].headId][mem[t].headBytes + k] = batch[t].data[k]
  BY <1>1 DEF IInv, OpInv, CommitInv
<1>7. Buffered(t, mem[t], batch[t], hist[t])
  BY <1>2 DEF IInv, OpInv, ModifyInv
<1> DEFINE g == Synced(disk[t].data, cache[t].data, mem[t].headId)
           x == cache[t].index \o batch[t].index
<1>8. g \in Data /\ x \in Seq(Position)
  <2>1. cache[t].index \in Seq(Position) /\ batch[t].index \in Seq(Position) /\ disk[t].data \in Data /\ cache[t].data \in Data
    BY <1>4, Fields
  <2>2. mem[t].headId \in DOMAIN cache[t].data
    <3>1. /\ mem[t].files = mem[t].tailId .. mem[t].headId /\ mem[t].files \subseteq DOMAIN cache[t].data
          /\ mem[t].tailId <= mem[t].headId
      BY <1>5 DEF OpenOK, Counted
    <3>2. mem[t].tailId \in Nat /\ mem[t].headId \in Nat
      BY <1>4, Fields
    <3>3. mem[t].headId \in mem[t].tailId .. mem[t].headId
      BY <3>1, <3>2
    <3> QED BY <3>1, <3>3
  <2>3. x \in Seq(Position)
    BY ONLY <2>1, ConcatFacts
  <2> QED BY <2>1, <2>2, <2>3, SyncData
<1>9. SetData(disk, disk', t, g) /\ SetIndex(cache, cache', t, x)
  BY <1>3 DEF SetData, SetIndex
<1> HIDE DEF g, x
<1>10. disk \in [Table -> Files] /\ cache \in [Table -> Files]
  BY <1>0 DEF TypeOK
<1>11. TablePut(disk, disk', t, disk[t].index, disk[t].meta, g)
  BY <1>8, <1>9, <1>10, PutData
<1>12. TablePut(cache, cache', t, x, cache[t].meta, cache[t].data)
  BY <1>8, <1>9, <1>10, PutIndex
<1>13. /\ disk' \in [Table -> Files] /\ cache' \in [Table -> Files]
       /\ disk'[t].index = disk[t].index /\ disk'[t].meta = disk[t].meta
       /\ disk'[t].data = Synced(disk[t].data, cache[t].data, mem[t].headId)
       /\ cache'[t].index = cache[t].index \o batch[t].index /\ cache'[t].meta = cache[t].meta
       /\ cache'[t].data = cache[t].data
       /\ \A u \in Table \ {t} : disk'[u] = disk[u] /\ cache'[u] = cache[u]
  BY <1>11, <1>12 DEF TablePut, g, x
<1>14. /\ OpenOK(t, disk'[t], cache'[t], mem[t], hist[t], "count", safe, asked)
       /\ Indexed(cache'[t].index, mem[t], batch[t])
  <2>1. Landed(cache[t].data, mem[t], batch[t])
    BY <1>6 DEF Landed
  <2>2. IndexedOK(t, disk'[t], cache'[t], mem[t], batch[t], hist[t], safe, asked)
    BY ONLY ZenonT(40), <1>4, <1>5, <1>7, <1>13, <2>1, OpenWriteIndex, t \in Table
  <2> QED BY <2>2 DEF IndexedOK
<1>15. TypeOK'
  BY <1>0, <1>3, <1>13 DEF TypeOK
<1>16. ControlInv'
  BY <1>2, <1>3 DEF ControlInv
<1>17. IdleInv' /\ RollbackInv' /\ CutInv' /\ HeadInv' /\ TailInv' /\ LevelInv' /\ DownInv' /\ RepairInv'
  BY <1>2, <1>3 DEF IdleInv, RollbackInv, CutInv, HeadInv, TailInv, LevelInv, DownInv, RepairInv
<1>18. ModifyInv'
  <2>1. ModifyInv
    BY DEF IInv, OpInv
  <2>2. op = "modify" /\ held # None => Overfull(cur)'
    BY <1>1, <1>3, <2>1 DEF ModifyInv, Overfull
  <2> QED BY <1>2, <1>3, <2>1, <2>2 DEF ModifyInv
<1>19. CommitInv'
  <2>1. op = "commit" => /\ \A u, w \in Table : batch[u].curItem = batch[w].curItem
                         /\ \A u \in Table \ todo : batch[u].index = <<>>
    BY DEF IInv, OpInv, CommitInv
  <2> QED BY <1>3, <1>6, <1>13, <1>14, <2>1 DEF CommitInv, Indexed
<1>20. \A u \in Table : FilesInv(u)'
  BY <1>0, <1>1, <1>2, <1>3, <1>13, <1>14, OneTable DEF Midway
<1> QED BY <1>15, <1>16, <1>17, <1>18, <1>19, <1>20 DEF IInv, OpInv

\* A batch is written: the index is synced, the counters follow and the batch
\* is empty.
LEMMA StepCountItems ==
  ASSUME IInv, CountItems PROVE IInv'
<1>0. TypeOK /\ (\A u \in Table : FilesInv(u)) /\ ModifyInv /\ CommitInv
  BY DEF IInv, OpInv
<1>1. PICK t \in Table : t = cur /\ pc = "count"
  BY DEF IInv, ControlInv, CountItems
<1> DEFINE b == batch[t]
           m == mem[t]
           bn == [EmptyBatch EXCEPT !.curItem = b.curItem]
           hb == m.headBytes + Len(b.data)
           mn == [m EXCEPT !.headBytes = hb, !.items = b.curItem]
<1>2. op \in {"modify", "commit"} /\ (op = "commit" => t \in todo)
  BY <1>1 DEF IInv, ControlInv
<1>3. /\ disk' = [disk EXCEPT ![t].index = cache[t].index]
      /\ SetMem(mem, mem', t, mn)
      /\ batch' = [batch EXCEPT ![t] = bn]
      /\ UNCHANGED <<cache, frozen, tail, op, target, held, hist, safe, asked>>
  <2>1. /\ disk' = [disk EXCEPT ![t].index = cache[t].index]
        /\ batch' = [batch EXCEPT ![t] = bn]
        /\ UNCHANGED <<cache, frozen, tail, op, target, held, hist, safe, asked>>
    BY <1>1 DEF CountItems, TableDone, ghosts
  <2>2. SetMem(mem, mem', t, mn)
    BY <1>0, <1>1 DEF CountItems, SetMem, TypeOK, Memory
  <2> QED BY <2>1, <2>2
<1>4. /\ op = "commit" => pc' = "next" /\ todo' = todo \ {t}
      /\ op # "commit" /\ held # None => pc' = "advance" /\ cur' = t /\ todo' = todo
      /\ op # "commit" /\ held = None => pc' = "run" /\ todo' = todo
  <2> DEFINE A == TableDone(cur)
             B == Goto("advance") /\ UNCHANGED <<op, cur, todo, target>>
             C == Goto("run") /\ cur' = None /\ UNCHANGED <<op, todo, target>>
  <2>1. (CASE op = "commit" -> A [] held # None -> B [] OTHER -> C)
    BY DEF CountItems
  <2>0. op = "commit" => held = None
    BY <1>0 DEF ModifyInv
  <2>2. (op = "commit" => A) /\ (op # "commit" /\ held # None => B) /\ (op # "commit" /\ held = None => C)
    <3> HIDE DEF A, B, C
    <3>1. CASE op = "commit"
      BY <2>0, <2>1, <3>1
    <3>2. CASE op # "commit" /\ held # None
      BY <2>1, <3>2
    <3>3. CASE op # "commit" /\ held = None
      BY <2>1, <3>3
    <3> QED BY <3>1, <3>2, <3>3
  <2> QED BY <1>1, <2>2 DEF TableDone, Goto
<1>5. /\ disk[t] \in Files /\ cache[t] \in Files /\ m \in Memory /\ hist[t] \in Seq(Payload)
      /\ b \in Batch /\ safe \in Nat /\ asked \in Nat /\ cache[t].index \in Seq(Position)
      /\ b.curItem \in Nat /\ m.items \in Nat
  BY <1>0, Typed, Fields DEF TypeOK
<1>6. hb \in Nat
  <2>1. m.headBytes \in Nat /\ Len(b.data) \in Nat
    BY <1>5, Fields
  <2> QED BY <2>1
<1>7. OpenOK(t, disk[t], cache[t], m, hist[t], "count", safe, asked)
  <2>1. Phase(t) = "count" /\ op # "open"
    BY <1>1, <1>2 DEF Phase, Midway
  <2>2. Opened(t)
    BY <1>0, <1>1, <2>1, OpenTables
  <2> QED BY <2>1, <2>2 DEF Opened
<1>8. Len(cache[t].data[m.headId]) = m.headBytes + Len(b.data) /\ Indexed(cache[t].index, m, b)
  BY <1>0, <1>1 DEF CommitInv, Indexed
<1>9. /\ mn \in Memory /\ mn.items = b.curItem /\ mn.headBytes = hb /\ mn.itemOffset = m.itemOffset
      /\ mn.itemHidden = m.itemHidden /\ mn.headId = m.headId /\ mn.tailId = m.tailId /\ mn.files = m.files
  <2> HIDE DEF m, hb
  <2> QED BY <1>5, <1>6 DEF Memory
<1>10. TablePut(disk, disk', t, cache[t].index, disk[t].meta, disk[t].data)
  <2>1. disk \in [Table -> Files] /\ SetIndex(disk, disk', t, cache[t].index)
    BY <1>0, <1>3 DEF TypeOK, SetIndex
  <2> QED BY <1>5, <2>1, PutIndex
<1>11. /\ disk' \in [Table -> Files] /\ disk'[t].index = cache[t].index
       /\ disk'[t].meta = disk[t].meta /\ disk'[t].data = disk[t].data
       /\ \A u \in Table \ {t} : disk'[u] = disk[u]
  BY <1>10 DEF TablePut
<1> HIDE DEF mn, bn
<1>12. mem' \in [Table -> Memory] /\ mem'[t] = mn /\ \A u \in Table \ {t} : mem'[u] = mem[u]
  <2>1. mem \in [Table -> Memory]
    BY <1>0 DEF TypeOK
  <2> QED BY <1>3, <1>9, <2>1, PutMem
<1>13. bn \in Batch /\ bn.data = <<>> /\ bn.index = <<>> /\ bn.curItem = b.curItem
  BY <1>5, Emptied DEF bn
<1>14. batch' \in [Table -> Batch] /\ batch'[t] = bn /\ \A u \in Table \ {t} : batch'[u] = batch[u]
  BY <1>0, <1>3, <1>13 DEF TypeOK
<1>15. OpenOK(t, disk'[t], cache[t], mn, hist[t], "none", safe, asked)
  BY ZenonT(40), <1>5, <1>7, <1>8, <1>9, <1>11, OpenCountItems
<1>16. Buffered(t, m, b, hist[t])
  BY <1>0, <1>2 DEF ModifyInv
<1>17. b.curItem <= Len(hist[t]) /\ m.items <= b.curItem
  <2>1. b.curItem <= Len(hist[t]) /\ b.curItem = m.items + Len(b.index) /\ Len(b.index) \in Nat
    BY <1>5, <1>16, Fields DEF Buffered
  <2> HIDE DEF m, b
  <2> QED BY <1>5, <2>1
<1>18. Buffered(t, mn, bn, hist[t])
  <2>1. Len(bn.index) = 0 /\ Len(bn.data) = 0
    BY <1>13
  <2>2. bn.curItem = mn.items + Len(bn.index)
    BY <1>5, <1>9, <1>13, <2>1
  <2>3. \A j \in 1 .. Len(bn.index) : FALSE
    BY <2>1
  <2> QED BY <1>13, <1>17, <2>1, <2>2, <2>3 DEF Buffered
<1>19. TypeOK'
  <2>1. todo' \subseteq Table
    BY <1>0, <1>2, <1>4 DEF TypeOK
  <2> QED BY <1>0, <1>3, <1>11, <1>12, <1>14, <2>1 DEF TypeOK
<1>20. ControlInv'
  BY <1>2, <1>3, <1>4 DEF ControlInv
<1>21. IdleInv' /\ RollbackInv' /\ CutInv' /\ HeadInv' /\ TailInv' /\ LevelInv' /\ DownInv' /\ RepairInv'
  BY <1>2, <1>3, <1>4 DEF IdleInv, RollbackInv, CutInv, HeadInv, TailInv, LevelInv, DownInv, RepairInv
<1>22. ModifyInv'
  <2>1. /\ safe = frozen /\ asked = tail /\ tail <= frozen
        /\ \A u \in Table : frozen <= mem[u].items /\ mem[u].itemHidden = tail
        /\ \A u \in Table : Buffered(u, mem[u], batch[u], hist[u])
    BY <1>0, <1>2 DEF ModifyInv
  <2>2. frozen <= mn.items /\ mn.itemHidden = tail
    <3>1. frozen \in Nat /\ frozen <= m.items /\ m.itemHidden = tail
      BY <1>0, <2>1 DEF TypeOK
    <3> HIDE DEF m, b
    <3> QED BY <1>5, <1>9, <1>17, <3>1
  <2>3. \A u \in Table : frozen <= mem'[u].items /\ mem'[u].itemHidden = tail
    BY <1>12, <2>1, <2>2
  <2>4. \A u \in Table : Buffered(u, mem'[u], batch'[u], hist[u])
    BY <1>12, <1>14, <1>18, <2>1
  <2>5. op = "modify" /\ held # None => Overfull(cur)' /\ batch'[t].index = <<>>
    <3> SUFFICES ASSUME op = "modify", held # None PROVE Overfull(cur)' /\ batch'[t].index = <<>>
      OBVIOUS
    <3>1. held \in Payload /\ hb + Size[t][held] > MaxFileSize
      <4>1. Overfull(t)
        BY <1>0, <1>1 DEF ModifyInv
      <4> QED BY <4>1 DEF Overfull
    <3>2. Size[t][held] \in Nat
      BY <3>1, BytesFacts
    <3>3. mem'[t].headBytes = hb /\ Len(batch'[t].data) = 0 /\ cur' = t /\ held' = held
      BY <1>3, <1>4, <1>9, <1>12, <1>13, <1>14
    <3>4. hb + 0 + Size[t][held] > MaxFileSize
      <4> HIDE DEF hb
      <4> QED BY <1>6, <3>1, <3>2
    <3>5. Overfull(cur)'
      BY <3>1, <3>3, <3>4 DEF Overfull
    <3> QED BY <1>13, <1>14, <3>5
  <2>6. op = "commit" => held = None
    BY <1>0 DEF ModifyInv
  <2> QED BY <1>2, <1>3, <1>4, <2>1, <2>3, <2>4, <2>5, <2>6 DEF ModifyInv
<1>23. CommitInv'
  <2>1. op = "commit" => /\ \A u, w \in Table : batch[u].curItem = batch[w].curItem
                         /\ \A u \in Table \ todo : batch[u].index = <<>>
    BY <1>0 DEF CommitInv
  <2>2. \A u \in Table : batch'[u].curItem = batch[u].curItem
    BY <1>13, <1>14
  <2>3. op = "commit" => \A u \in Table \ todo' : batch'[u].index = <<>>
    BY <1>4, <1>13, <1>14, <2>1
  <2> QED BY <1>2, <1>3, <1>4, <2>1, <2>2, <2>3 DEF CommitInv
<1>24. \A u \in Table : FilesInv(u)'
  <2>1. pc' # "down" /\ pc' \notin Midway
    BY <1>2, <1>4 DEF Midway
  <2> QED BY <1>0, <1>1, <1>2, <1>3, <1>11, <1>12, <1>15, <2>1, OneTable
<1> QED BY <1>19, <1>20, <1>21, <1>22, <1>23, <1>24 DEF IInv, OpInv

\* The next data file is opened and the item that did not fit goes to the batch.
LEMMA StepAdvanceHead ==
  ASSUME IInv, AdvanceHead PROVE IInv'
<1>0. TypeOK /\ (\A u \in Table : FilesInv(u)) /\ ModifyInv /\ CommitInv
  BY DEF IInv, OpInv
<1>1. PICK t \in Table : t = cur /\ pc = "advance" /\ op = "modify"
  BY DEF IInv, ControlInv, AdvanceHead
<1> DEFINE m == mem[t]
           b == batch[t]
           p == held
           n == m.headId + 1
           mn == [m EXCEPT !.headId = n, !.headBytes = 0, !.files = m.files \cup {n}]
<1>2. /\ m \in Memory /\ b \in Batch /\ disk[t] \in Files /\ cache[t] \in Files /\ hist[t] \in Seq(Payload)
      /\ safe \in Nat /\ asked \in Nat /\ m.headId \in Nat /\ m.headBytes \in Nat /\ m.files \subseteq Nat
      /\ disk[t].data \in Data /\ cache[t].data \in Data /\ m.items \in Nat
  BY <1>0, Typed, Fields DEF TypeOK
<1>3. n \in Nat
  BY <1>2
<1>4. /\ mn \in Memory /\ mn.items = m.items /\ mn.headBytes = 0 /\ mn.itemOffset = m.itemOffset
      /\ mn.itemHidden = m.itemHidden /\ mn.headId = n /\ mn.tailId = m.tailId /\ mn.files = m.files \cup {n}
  <2> HIDE DEF m, n
  <2> QED BY <1>2, <1>3 DEF Memory
<1>5. /\ cache' = [cache EXCEPT ![t].data = WithFile(cache[t].data, n, <<>>)]
      /\ disk' = [disk EXCEPT ![t].data = Synced(disk[t].data, cache[t].data, m.headId)]
      /\ SetMem(mem, mem', t, mn) /\ Buffer(t, p, mn) /\ held' = None
      /\ UNCHANGED <<frozen, tail, op, todo, target, safe, asked>>
  <2>1. mn = [mem[cur] EXCEPT !.headId = @ + 1, !.headBytes = 0, !.files = @ \cup {mem[cur].headId + 1}]
    BY <1>1, <1>2 DEF Memory
  <2>2. /\ cache' = [cache EXCEPT ![cur].data = WithFile(@, mn.headId, <<>>)]
        /\ mem' = [mem EXCEPT ![cur] = mn] /\ Buffer(cur, held, mn)
        /\ disk' = [disk EXCEPT ![cur].data = SyncedData(cur, mem[cur].headId)]
        /\ held' = None /\ UNCHANGED <<frozen, tail, op, todo, target, safe, asked>>
    BY <2>1 DEF AdvanceHead
  <2>3. cache' = [cache EXCEPT ![t].data = WithFile(cache[t].data, n, <<>>)]
    BY <1>0, <1>1, <1>4, <2>2 DEF TypeOK
  <2>4. disk' = [disk EXCEPT ![t].data = Synced(disk[t].data, cache[t].data, m.headId)]
    BY <1>1, <2>2 DEF SyncedData, Synced
  <2> QED BY <1>1, <2>2, <2>3, <2>4 DEF SetMem
<1>6. Overfull(t) /\ b.index = <<>> /\ held \in Payload
  BY <1>0, <1>1 DEF ModifyInv, Overfull
<1>7. Buffered(t, m, b, hist[t])
  BY <1>0, <1>1 DEF ModifyInv
<1>8. Len(b.data) = 0 /\ Len(b.index) = 0
  BY <1>6, <1>7 DEF Buffered
<1>9. m.headBytes > 0
  <2>1. PICK z \in Nat : z = Size[t][held] /\ z <= MaxFileSize
    BY <1>6, BytesFacts
  <2>2. PICK k \in Nat : k = m.headBytes
    BY <1>2
  <2>3. k + 0 + z > MaxFileSize
    BY <1>6, <1>8, <2>1, <2>2 DEF Overfull
  <2>4. k > 0
    BY <2>1, <2>3, FreezerAssumption
  <2> QED BY <2>2, <2>4
<1>10. OpenOK(t, disk[t], cache[t], m, hist[t], "none", safe, asked)
  BY <1>0, <1>1, Quiet DEF Midway
<1> DEFINE g == WithFile(cache[t].data, n, <<>>)
           e == Synced(disk[t].data, cache[t].data, m.headId)
<1>11. g \in Data /\ e \in Data
  <2>1. <<>> \in Seq(Payload)
    OBVIOUS
  <2>2. Changed(cache[t].data, g, n, <<>>)
    BY <1>2, <1>3, <2>1, FileChanged
  <2>3. m.headId \in DOMAIN cache[t].data
    BY <1>2, <1>10, OpenFacts
  <2>4. e \in Data
    BY <1>2, <2>3, SyncData
  <2> QED BY <2>2, <2>4 DEF Changed
<1>12. SetData(cache, cache', t, g) /\ SetData(disk, disk', t, e)
  BY <1>5 DEF SetData
<1>13. cache \in [Table -> Files] /\ disk \in [Table -> Files] /\ mem \in [Table -> Memory]
  BY <1>0 DEF TypeOK
<1> HIDE DEF g, e, mn
<1>14. TablePut(cache, cache', t, cache[t].index, cache[t].meta, g)
  BY <1>11, <1>12, <1>13, PutData
<1>15. TablePut(disk, disk', t, disk[t].index, disk[t].meta, e)
  BY <1>11, <1>12, <1>13, PutData
<1>16. /\ disk' \in [Table -> Files] /\ cache' \in [Table -> Files]
       /\ disk'[t].index = disk[t].index /\ disk'[t].meta = disk[t].meta
       /\ disk'[t].data = Synced(disk[t].data, cache[t].data, m.headId)
       /\ cache'[t].index = cache[t].index /\ cache'[t].meta = cache[t].meta
       /\ cache'[t].data = WithFile(cache[t].data, m.headId + 1, <<>>)
       /\ \A u \in Table \ {t} : disk'[u] = disk[u] /\ cache'[u] = cache[u]
  BY <1>14, <1>15 DEF TablePut, g, e
<1>17. mem' \in [Table -> Memory] /\ mem'[t] = mn /\ \A u \in Table \ {t} : mem'[u] = mem[u]
  BY <1>4, <1>5, <1>13, PutMem
<1>18. OpenOK(t, disk'[t], cache'[t], mn, hist[t], "none", safe, asked)
  BY ZenonT(40), <1>2, <1>4, <1>9, <1>10, <1>16, OpenAdvance
<1>19. Buffered(t, mn, b, hist[t])
  <2>1. \A j \in 1 .. Len(b.index) : FALSE
    BY <1>8
  <2> QED BY <1>4, <1>6, <1>7, <1>8, <2>1 DEF Buffered
<1>20. /\ batch' \in [Table -> Batch] /\ hist' \in [Table -> Seq(Payload)]
       /\ Buffered(t, mn, batch'[t], hist'[t])
       /\ \A u \in Table \ {t} : batch'[u] = batch[u] /\ hist'[u] = hist[u]
       /\ mn.items <= Len(hist'[t]) /\ \A k \in 1 .. mn.items : hist'[t][k] = hist[t][k]
       /\ pc' \in {"write", "run"} /\ (pc' = "write" => cur' = t)
  BY <1>0, <1>4, <1>5, <1>6, <1>19, BufferStep
<1>21. OpenOK(t, disk'[t], cache'[t], mn, hist'[t], "none", safe, asked)
  <2>1. disk'[t] \in Files /\ cache'[t] \in Files /\ hist'[t] \in Seq(Payload)
    BY <1>16, <1>20
  <2> QED BY <1>2, <1>4, <1>18, <1>20, <2>1, OpenHist
<1>22. TypeOK'
  BY <1>0, <1>5, <1>16, <1>17, <1>20 DEF TypeOK
<1>23. ControlInv'
  BY <1>1, <1>5, <1>20 DEF ControlInv
<1>24. IdleInv' /\ CommitInv' /\ RollbackInv' /\ CutInv' /\ HeadInv' /\ TailInv' /\ LevelInv' /\ DownInv' /\ RepairInv'
  BY <1>1, <1>5, <1>20 DEF IdleInv, CommitInv, RollbackInv, CutInv, HeadInv, TailInv, LevelInv, DownInv, RepairInv
<1>25. ModifyInv'
  <2>1. /\ safe = frozen /\ asked = tail /\ tail <= frozen
        /\ \A u \in Table : frozen <= mem[u].items /\ mem[u].itemHidden = tail
        /\ \A u \in Table : Buffered(u, mem[u], batch[u], hist[u])
    BY <1>0, <1>1 DEF ModifyInv
  <2>2. \A u \in Table : frozen <= mem'[u].items /\ mem'[u].itemHidden = tail
    BY <1>4, <1>17, <2>1
  <2>3. \A u \in Table : Buffered(u, mem'[u], batch'[u], hist'[u])
    BY <1>17, <1>20, <2>1
  <2> QED BY <1>1, <1>5, <1>20, <2>1, <2>2, <2>3 DEF ModifyInv
<1>26. \A u \in Table : FilesInv(u)'
  <2>1. pc' # "down" /\ pc' \notin Midway /\ pc \notin Midway
    BY <1>1, <1>20 DEF Midway
  <2> QED BY <1>0, <1>1, <1>5, <1>16, <1>17, <1>20, <1>21, <2>1, OneTable
<1> QED BY <1>22, <1>23, <1>24, <1>25, <1>26 DEF IInv, OpInv

\* truncateHead cuts the index.
LEMMA StepHeadIndex ==
  ASSUME IInv, NEW t \in Table, HeadIndex(t) PROVE IInv'
<1>0. /\ TypeOK /\ (\A u \in Table : FilesInv(u)) /\ ModifyInv /\ RollbackInv /\ HeadInv /\ LevelInv /\ DownInv
  BY DEF IInv, OpInv
<1> DEFINE m == mem[t]
           c == cache[t]
           x == Prefix(c.index, target - m.itemOffset + 1)
<1>1. /\ pc = "next" /\ op \in {"head", "rollback", "level"} /\ t \in todo
      /\ m.itemHidden <= target /\ target < m.items
      /\ SetIndex(cache, cache', t, x) /\ pc' = "cut" /\ cur' = t
      /\ UNCHANGED <<disk, mem, batch, frozen, tail, op, todo, target, held, hist, safe, asked>>
  BY <1>0 DEF HeadIndex, AtTable, Goto, ghosts, SetIndex, TypeOK
<1>2. /\ disk[t] \in Files /\ c \in Files /\ m \in Memory /\ hist[t] \in Seq(Payload)
      /\ safe \in Nat /\ asked \in Nat /\ target \in Nat /\ c.index \in Seq(Position)
      /\ m.itemOffset \in Nat /\ m.itemHidden \in Nat /\ m.items \in Nat /\ frozen \in Nat /\ tail \in Nat
  BY <1>0, Typed, Fields DEF TypeOK
<1>3. OpenOK(t, disk[t], c, m, hist[t], "none", safe, asked)
  BY <1>0, <1>1, Quiet DEF Midway
<1>4. safe <= target /\ asked <= target
  <2>1. CASE op = "rollback"
    BY <1>0, <1>2, <2>1 DEF ModifyInv, RollbackInv
  <2>2. CASE op = "level"
    BY <1>0, <2>2 DEF LevelInv
  <2>3. CASE op = "head"
    <3>1. asked = tail /\ m.itemHidden = tail
      BY <1>0, <2>3 DEF HeadInv
    <3>2. asked <= target
      BY <1>1, <3>1
    <3>3. (tail <= target /\ safe = target) \/ target < tail
      BY <1>0, <2>3 DEF HeadInv
    <3> QED BY <1>1, <1>2, <3>1, <3>2, <3>3
  <2> QED BY <1>1, <2>1, <2>2, <2>3
<1>5. x \in Seq(Position)
  <2>1. Stored(c.index) = m.items /\ m.itemOffset = c.index[1].off /\ m.itemOffset <= m.itemHidden /\ c.index # <<>>
    BY <1>2, <1>3, OpenFacts
  <2>2. m.items = m.itemOffset + Len(c.index) - 1 /\ Len(c.index) \in Nat
    BY <1>2, <2>1, StoredNat
  <2>3. target - m.itemOffset + 1 \in Nat /\ target - m.itemOffset + 1 <= Len(c.index)
    <3> HIDE DEF m, c
    <3> QED BY SMTT(30), <1>1, <1>2, <2>1, <2>2
  <2>4. PICK k \in Nat : k = target - m.itemOffset + 1
    BY <2>3
  <2>5. Prefix(c.index, k) \in Seq(Position)
    BY <1>2, <2>3, <2>4, PrefixFacts
  <2> QED BY <2>4, <2>5
<1> HIDE DEF x
<1>6. TablePut(cache, cache', t, x, c.meta, c.data)
  <2>1. cache \in [Table -> Files]
    BY <1>0 DEF TypeOK
  <2> QED BY <1>1, <1>5, <2>1, PutIndex
<1>7. /\ cache' \in [Table -> Files] /\ cache'[t].index = Prefix(c.index, target - m.itemOffset + 1)
      /\ cache'[t].meta = c.meta /\ cache'[t].data = c.data /\ \A u \in Table \ {t} : cache'[u] = cache[u]
  BY <1>6 DEF TablePut, x
<1>8. OpenOK(t, disk[t], cache'[t], m, hist[t], "cut", safe, asked) /\ Stored(cache'[t].index) = target
  <2>1. IndexCut(c.index, cache'[t].index, m, target)
    BY <1>7 DEF IndexCut
  <2>2. m.itemHidden <= target /\ target < m.items /\ cache'[t].meta = c.meta /\ cache'[t].data = c.data
    BY <1>1, <1>7
  <2> HIDE DEF m, c
  <2> QED BY ONLY t \in Table, <1>2, <1>3, <1>4, <2>1, <2>2, OpenHeadIndex
<1>9. TypeOK'
  BY <1>0, <1>1, <1>7 DEF TypeOK
<1>10. ControlInv'
  BY <1>1 DEF ControlInv
<1>11. IdleInv' /\ CommitInv' /\ TailInv' /\ RepairInv'
  BY <1>1 DEF IdleInv, CommitInv, TailInv, RepairInv
<1>12. ModifyInv' /\ RollbackInv'
  BY <1>0, <1>1 DEF ModifyInv, RollbackInv
<1>13. CutInv'
  BY <1>1, <1>8 DEF CutInv
<1>14. HeadInv'
  <2>1. op = "head" => m.itemHidden = tail
    BY <1>0 DEF HeadInv
  <2>2. op = "head" => ~(target < tail)
    BY <1>1, <1>2, <2>1
  <2> QED BY <1>0, <1>1, <2>2 DEF HeadInv
<1>15. LevelInv'
  BY <1>0, <1>1 DEF LevelInv
<1>16. DownInv'
  <2>1. \A u \in Table : cache'[u].meta = cache[u].meta
    BY <1>7
  <2> QED BY <1>0, <1>1, <2>1 DEF DownInv
<1>17. \A u \in Table : FilesInv(u)'
  <2>1. pc' \in Midway /\ pc' # "down" /\ pc \notin Midway
    BY <1>1 DEF Midway
  <2> QED BY <1>0, <1>1, <1>7, <1>8, <2>1, OneTable
<1> QED BY <1>9, <1>10, <1>11, <1>12, <1>13, <1>14, <1>15, <1>16, <1>17 DEF IInv, OpInv

\* Files after the new head are removed and the head is cut.
LEMMA StepHeadData ==
  ASSUME IInv, HeadData PROVE IInv'
<1>0. /\ TypeOK /\ (\A u \in Table : FilesInv(u)) /\ ModifyInv /\ RollbackInv /\ HeadInv /\ LevelInv /\ DownInv
      /\ CutInv
  BY DEF IInv, OpInv
<1>1. PICK t \in Table : t = cur /\ pc = "cut" /\ t \in todo /\ op \in {"head", "rollback", "level"}
  BY DEF IInv, TypeOK, ControlInv, HeadData
<1> DEFINE m == mem[t]
           c == cache[t]
           e == LastEntry(c.index, m.tailId)
           after == {f \in m.files : f > e.file}
           w == OpenForAppend(WithoutFiles(c.data, after), e.file)
           g == [w EXCEPT ![e.file] = Prefix(@, e.off)]
           mn == [m EXCEPT !.headId = e.file, !.files = (m.files \ after) \cup {e.file}]
<1>2. /\ disk' = [disk EXCEPT ![t].index = c.index]
      /\ cache' = [cache EXCEPT ![t].data = g] /\ pc' = "cutdone" /\ cur' = t
      /\ UNCHANGED <<batch, frozen, tail, op, todo, target, held, hist, safe, asked>>
  BY <1>1 DEF HeadData, Goto, ghosts
<1>3. SetMem(mem, mem', t, mn)
  BY <1>0, <1>1 DEF HeadData, SetMem, TypeOK, Memory
<1>4. /\ disk[t] \in Files /\ c \in Files /\ m \in Memory /\ hist[t] \in Seq(Payload)
      /\ safe \in Nat /\ asked \in Nat /\ c.index \in Seq(Position)
      /\ m.files \subseteq Nat /\ m.tailId \in Nat
  BY <1>0, Typed, Fields DEF TypeOK
<1>5. OpenOK(t, disk[t], c, m, hist[t], "cut", safe, asked)
  <2>1. Phase(t) = "cut" /\ op # "open"
    BY <1>1 DEF Phase, Midway
  <2>2. Opened(t)
    BY <1>0, <1>1, <2>1, OpenTables
  <2> QED BY <2>1, <2>2 DEF Opened
<1>6. e.file \in Nat
  <2>1. c.index # <<>>
    BY <1>5 DEF OpenOK, Counted
  <2> QED BY <1>4, <2>1, LastFields
<1>7. /\ mn \in Memory /\ mn.items = m.items /\ mn.headBytes = m.headBytes /\ mn.itemOffset = m.itemOffset
      /\ mn.itemHidden = m.itemHidden /\ mn.headId = e.file /\ mn.tailId = m.tailId
      /\ mn.files = (m.files \ after) \cup {e.file}
  <2>1. (m.files \ after) \cup {e.file} \subseteq Nat
    BY <1>4, <1>6
  <2> HIDE DEF m, e, after
  <2> QED BY <1>4, <1>6, <2>1 DEF Memory
<1>8. PICK cn : cn = [c EXCEPT !.data = g]
  OBVIOUS
<1>9. cn.index = c.index /\ cn.meta = c.meta /\ cn.data = [w EXCEPT ![e.file] = Prefix(@, e.off)]
  <2> HIDE DEF c, g
  <2>1. cn.index = c.index /\ cn.meta = c.meta /\ cn.data = g
    BY ONLY <1>4, <1>8 DEF Files
  <2> QED BY <2>1 DEF g
<1>10. PICK dn : dn = [disk[t] EXCEPT !.index = c.index]
  OBVIOUS
<1>11. dn.index = c.index /\ dn.meta = disk[t].meta /\ dn.data = disk[t].data
  <2> HIDE DEF c
  <2> QED BY ONLY <1>4, <1>10 DEF Files
<1>12. cn.data \in Data /\ OpenOK(t, dn, cn, mn, hist[t], "cutdone", safe, asked)
  <2>1. DataCut(c.data, cn.data, m, e)
    BY <1>9 DEF DataCut, AfterHead
  <2>2. HeadMoved(m, mn, e)
    BY <1>7 DEF HeadMoved, AfterHead
  <2>3. cn.index = c.index /\ cn.meta = c.meta
    BY <1>9
  <2> HIDE DEF mn, m, c
  <2> QED BY ONLY t \in Table, <1>4, <1>5, <1>11, <2>1, <2>2, <2>3, OpenHeadData
<1>13. TablePut(cache, cache', t, c.index, c.meta, g)
  <2>1. cache \in [Table -> Files] /\ g \in Data
    BY <1>0, <1>9, <1>12 DEF TypeOK
  <2> HIDE DEF g
  <2>2. SetData(cache, cache', t, g)
    BY <1>2 DEF SetData
  <2> QED BY <2>1, <2>2, PutData
<1>14. TablePut(disk, disk', t, c.index, disk[t].meta, disk[t].data)
  <2>1. disk \in [Table -> Files] /\ SetIndex(disk, disk', t, c.index)
    BY <1>0, <1>2 DEF TypeOK, SetIndex
  <2> QED BY <1>4, <2>1, PutIndex
<1> HIDE DEF mn, g
<1>15. mem' \in [Table -> Memory] /\ mem'[t] = mn /\ \A u \in Table \ {t} : mem'[u] = mem[u]
  <2>1. mem \in [Table -> Memory]
    BY <1>0 DEF TypeOK
  <2> QED BY <1>3, <1>7, <2>1, PutMem
<1>16. /\ disk' \in [Table -> Files] /\ cache' \in [Table -> Files]
       /\ disk'[t].index = c.index /\ disk'[t].meta = disk[t].meta /\ disk'[t].data = disk[t].data
       /\ cache'[t].index = c.index /\ cache'[t].meta = c.meta /\ cache'[t].data = g
       /\ \A u \in Table \ {t} : disk'[u] = disk[u] /\ cache'[u] = cache[u]
  BY SMTT(30), <1>13, <1>14 DEF TablePut
<1>17. OpenOK(t, disk'[t], cache'[t], mn, hist[t], "cutdone", safe, asked)
  <2>1. cache'[t].data = cn.data
    BY <1>9, <1>16 DEF g
  <2> QED BY <1>9, <1>11, <1>12, <1>16, <2>1 DEF OpenOK, FilesAgree
<1>18. TypeOK'
  BY <1>0, <1>2, <1>15, <1>16 DEF TypeOK
<1>19. ControlInv'
  BY <1>1, <1>2 DEF ControlInv
<1>20. IdleInv' /\ CommitInv' /\ TailInv' /\ RepairInv'
  BY <1>1, <1>2 DEF IdleInv, CommitInv, TailInv, RepairInv
<1>21. \A u \in Table : mem'[u].items = mem[u].items /\ mem'[u].itemHidden = mem[u].itemHidden
  BY <1>7, <1>15
<1>22. ModifyInv' /\ RollbackInv'
  BY <1>0, <1>1, <1>2, <1>21 DEF ModifyInv, RollbackInv
<1>23. CutInv'
  <2>1. Stored(c.index) = target
    BY <1>0, <1>1 DEF CutInv
  <2>2. Stored(cache'[cur'].index) = target'
    BY <1>2, <1>16, <2>1
  <2> QED BY <2>2 DEF CutInv
<1>24. HeadInv'
  <2> SUFFICES ASSUME op = "head" PROVE HeadInv'
    BY <1>2 DEF HeadInv
  <2>1. /\ asked = tail /\ target < frozen /\ tail <= target /\ safe = target
        /\ \A u \in Table : mem'[u].itemHidden = tail
    BY <1>0, <1>1, <1>21 DEF HeadInv
  <2>2. /\ \A u \in todo : mem'[u].items = frozen
        /\ \A u \in Table \ todo : mem'[u].items = target
    BY <1>0, <1>21 DEF HeadInv, TypeOK
  <2> QED BY <1>2, <2>1, <2>2 DEF HeadInv
<1>25. LevelInv'
  BY <1>0, <1>1, <1>2, <1>21 DEF LevelInv
<1>26. DownInv'
  <2>1. \A u \in Table : cache'[u].meta = cache[u].meta
    BY <1>16
  <2> QED BY <1>0, <1>1, <1>2, <2>1 DEF DownInv
<1>27. \A u \in Table : FilesInv(u)'
  <2>1. pc' \in Midway /\ pc' # "down"
    BY <1>2 DEF Midway
  <2>2. OpenOK(t, disk'[t], cache'[t], mem'[t], hist'[t], "cutdone", safe, asked)
    BY <1>2, <1>15, <1>17
  <2> QED BY <1>0, <1>1, <1>2, <1>15, <1>16, <2>1, <2>2, OneTable
<1> QED BY <1>18, <1>19, <1>20, <1>22, <1>23, <1>24, <1>25, <1>26, <1>27 DEF IInv, OpInv

\* The head is synced and the counters follow.
LEMMA StepHeadCount ==
  ASSUME IInv, HeadCount PROVE IInv'
<1>0. /\ TypeOK /\ (\A u \in Table : FilesInv(u)) /\ ModifyInv /\ RollbackInv /\ HeadInv /\ LevelInv /\ DownInv
      /\ CutInv
  BY DEF IInv, OpInv
<1>1. PICK t \in Table : t = cur /\ pc = "cutdone" /\ t \in todo /\ op \in {"head", "rollback", "level"}
  BY DEF IInv, TypeOK, ControlInv, HeadCount
<1> DEFINE m == mem[t]
           c == cache[t]
           g == Synced(disk[t].data, c.data, m.headId)
           hb == Len(c.data[m.headId])
           mn == [m EXCEPT !.headBytes = hb, !.items = target]
<1>2. /\ disk' = [disk EXCEPT ![t].data = g]
      /\ UNCHANGED <<cache, batch, frozen, tail, op, target, held, hist, safe, asked>>
      /\ op = "level" => pc' = "tail" /\ cur' = t /\ todo' = todo
      /\ op # "level" => pc' = "next" /\ todo' = todo \ {t}
  BY <1>1 DEF HeadCount, HeadDone, TableDone, SyncedData, Synced, Goto, ghosts
<1>3. SetMem(mem, mem', t, mn)
  BY <1>0, <1>1 DEF HeadCount, SetMem, TypeOK, Memory
<1>4. /\ disk[t] \in Files /\ c \in Files /\ m \in Memory /\ hist[t] \in Seq(Payload)
      /\ safe \in Nat /\ asked \in Nat /\ target \in Nat /\ disk[t].data \in Data /\ c.data \in Data
      /\ m.headId \in Nat /\ m.tailId \in Nat
  BY <1>0, Typed, Fields DEF TypeOK
<1>5. OpenOK(t, disk[t], c, m, hist[t], "cutdone", safe, asked)
  <2>1. Phase(t) = "cutdone" /\ op # "open"
    BY <1>1 DEF Phase, Midway
  <2>2. Opened(t)
    BY <1>0, <1>1, <2>1, OpenTables
  <2> QED BY <2>1, <2>2 DEF Opened
<1>6. m.headId \in DOMAIN c.data /\ hb \in Nat
  <2>1. /\ m.files = m.tailId .. m.headId /\ m.files \subseteq DOMAIN c.data /\ m.tailId <= m.headId
    BY <1>5 DEF OpenOK, Counted
  <2>2. m.headId \in m.tailId .. m.headId
    <3> HIDE DEF m
    <3> QED BY <1>4, <2>1
  <2>3. m.headId \in DOMAIN c.data
    BY <2>1, <2>2
  <2> QED BY <1>4, <2>3, DataFacts
<1>7. Stored(c.index) = target
  BY <1>0, <1>1 DEF CutInv
<1>8. /\ mn \in Memory /\ mn.items = target /\ mn.headBytes = hb /\ mn.itemOffset = m.itemOffset
      /\ mn.itemHidden = m.itemHidden /\ mn.headId = m.headId /\ mn.tailId = m.tailId /\ mn.files = m.files
  <2> HIDE DEF m, hb
  <2> QED BY <1>4, <1>6 DEF Memory
<1>9. g \in Data
  BY <1>4, <1>6, SyncData
<1> HIDE DEF g
<1>10. TablePut(disk, disk', t, disk[t].index, disk[t].meta, g)
  <2>1. disk \in [Table -> Files] /\ SetData(disk, disk', t, g)
    BY <1>0, <1>2 DEF TypeOK, SetData
  <2> QED BY <1>9, <2>1, PutData
<1>11. /\ disk' \in [Table -> Files] /\ disk'[t].index = disk[t].index /\ disk'[t].meta = disk[t].meta
       /\ disk'[t].data = Synced(disk[t].data, c.data, m.headId) /\ \A u \in Table \ {t} : disk'[u] = disk[u]
  BY <1>10 DEF TablePut, g
<1> HIDE DEF mn
<1>12. mem' \in [Table -> Memory] /\ mem'[t] = mn /\ \A u \in Table \ {t} : mem'[u] = mem[u]
  <2>1. mem \in [Table -> Memory]
    BY <1>0 DEF TypeOK
  <2> QED BY <1>3, <1>8, <2>1, PutMem
<1>13. OpenOK(t, disk'[t], c, mn, hist[t], "none", safe, asked)
  <2>1. mn.items = Stored(c.index) /\ mn.headBytes = Len(c.data[m.headId])
    BY <1>7, <1>8
  <2> QED BY ZenonT(40), <1>4, <1>5, <1>8, <1>11, <2>1, OpenHeadCount
<1>14. TypeOK'
  <2>1. todo' \subseteq Table
    BY <1>0, <1>1, <1>2 DEF TypeOK
  <2> QED BY <1>0, <1>2, <1>11, <1>12, <2>1 DEF TypeOK
<1>15. ControlInv'
  BY <1>1, <1>2 DEF ControlInv
<1>16. IdleInv' /\ CommitInv' /\ TailInv' /\ CutInv' /\ RepairInv'
  BY <1>1, <1>2 DEF IdleInv, CommitInv, TailInv, CutInv, RepairInv
<1>17. /\ mem'[t].items = target /\ \A u \in Table : mem'[u].itemHidden = mem[u].itemHidden
       /\ \A u \in Table \ {t} : mem'[u].items = mem[u].items
  BY <1>8, <1>12
<1>18. ModifyInv' /\ RollbackInv'
  <2> SUFFICES ASSUME op = "rollback" PROVE ModifyInv' /\ RollbackInv'
    BY <1>1, <1>2 DEF ModifyInv, RollbackInv
  <2>1. /\ safe = frozen /\ asked = tail /\ tail <= frozen /\ target = frozen
        /\ \A u \in Table : frozen <= mem[u].items /\ mem[u].itemHidden = tail
        /\ \A u \in Table \ todo : mem[u].items = frozen
    BY <1>0 DEF ModifyInv, RollbackInv
  <2>2. \A u \in Table : frozen <= mem'[u].items /\ mem'[u].itemHidden = tail
    BY <1>4, <1>17, <2>1
  <2>3. \A u \in Table \ todo' : mem'[u].items = frozen
    BY <1>2, <1>17, <2>1
  <2> QED BY <1>2, <2>1, <2>2, <2>3 DEF ModifyInv, RollbackInv
<1>19. HeadInv'
  <2> SUFFICES ASSUME op = "head" PROVE HeadInv'
    BY <1>2 DEF HeadInv
  <2>1. /\ asked = tail /\ target < frozen /\ tail <= target /\ safe = target
        /\ \A u \in Table : mem'[u].itemHidden = tail
    BY <1>0, <1>1, <1>17 DEF HeadInv
  <2>2. /\ \A u \in todo : mem[u].items = frozen
        /\ \A u \in Table \ todo : mem[u].items = target
    BY <1>0 DEF HeadInv
  <2>3. /\ \A u \in todo' : mem'[u].items = frozen
        /\ \A u \in Table \ todo' : mem'[u].items = target
    BY <1>0, <1>2, <1>17, <2>2 DEF TypeOK
  <2> QED BY <1>2, <2>1, <2>3 DEF HeadInv
<1>20. LevelInv'
  <2> SUFFICES ASSUME op = "level" PROVE LevelInv'
    BY <1>2 DEF LevelInv
  <2>1. safe <= target /\ asked <= target
    BY <1>0 DEF LevelInv
  <2>2. \A u \in Table : target <= mem'[u].items
    BY <1>0, <1>4, <1>17 DEF LevelInv
  <2>3. \A u \in Table : u \notin todo \/ u = t => mem'[u].items = target
    BY <1>0, <1>17 DEF LevelInv
  <2>4. \A u \in Table : u \notin todo => \A v \in Table : mem'[v].itemHidden <= mem'[u].itemHidden
    BY <1>0, <1>17 DEF LevelInv
  <2> QED BY <1>1, <1>2, <2>1, <2>2, <2>3, <2>4 DEF LevelInv
<1>21. DownInv'
  BY <1>0, <1>1, <1>2 DEF DownInv
<1>22. \A u \in Table : FilesInv(u)'
  <2>1. pc' \notin Midway /\ pc' # "down"
    BY <1>1, <1>2 DEF Midway
  <2>2. OpenOK(t, disk'[t], cache'[t], mem'[t], hist'[t], "none", safe, asked)
    BY <1>2, <1>12, <1>13
  <2> QED BY <1>0, <1>1, <1>2, <1>11, <1>12, <2>1, <2>2, OneTable
<1> QED BY <1>14, <1>15, <1>16, <1>18, <1>19, <1>20, <1>21, <1>22 DEF IInv, OpInv

\* The new tail goes to the metadata.
LEMMA StepTailMeta ==
  ASSUME IInv, NEW t \in Table, TailMeta(t) PROVE IInv'
<1>0. TypeOK /\ (\A u \in Table : FilesInv(u)) /\ TailInv /\ LevelInv /\ DownInv
  BY DEF IInv, OpInv
<1> DEFINE m == mem[t]
           c == cache[t]
<1>1. PICK n : n = NewTail
  OBVIOUS
<1> DEFINE mn == [m EXCEPT !.itemHidden = n]
<1>2. /\ (pc = "next" /\ op = "tail" /\ t \in todo) \/ (pc = "tail" /\ op = "level" /\ t = cur /\ t \in todo)
      /\ m.itemHidden < n /\ n <= m.items
      /\ UNCHANGED <<disk, batch, frozen, tail, op, target, held, hist, safe, asked>>
      /\ cache' = [cache EXCEPT ![t].meta = n]
      /\ m.tailId = TailFile(c.index, m, n) => pc' = "next" /\ todo' = todo \ {t}
      /\ m.tailId # TailFile(c.index, m, n) => pc' = "rename" /\ cur' = t /\ todo' = todo
  BY <1>1 DEF IInv, ControlInv, TailMeta, AtTail, AtTable, TableDone, Goto, ghosts, NewTailId, TailFile
<1>3. SetMem(mem, mem', t, mn)
  BY <1>0, <1>1 DEF TailMeta, SetMem, TypeOK, Memory
<1>4. /\ disk[t] \in Files /\ c \in Files /\ m \in Memory /\ hist[t] \in Seq(Payload)
      /\ safe \in Nat /\ asked \in Nat /\ target \in Nat
  BY <1>0, Typed DEF TypeOK
<1>5. pc # "down" /\ op # "open" /\ pc \notin Midway
  BY <1>2 DEF Midway
<1>6. OpenOK(t, disk[t], c, m, hist[t], "none", safe, asked) /\ asked <= m.items
  BY <1>0, <1>5, Quiet
<1>7. op = "tail" => n = target
  BY <1>1 DEF NewTail
<1>8. op = "level" => /\ n \in Nat /\ n <= asked /\ (\A u \in Table : mem[u].itemHidden <= n)
                      /\ \E u \in Table : n = mem[u].itemHidden
  <2>1. \A u \in Table : Opened(u)
    BY <1>0, <1>5, OpenTables
  <2> QED BY <1>0, <1>1, <2>1, LevelTail
<1>9. n \in Nat /\ n <= asked
  <2> SUFFICES ASSUME op = "tail" PROVE n <= asked
    BY <1>2, <1>4, <1>7, <1>8
  <2>1. mem[t].items = frozen /\ (asked = target \/ frozen < target)
    BY <1>0 DEF TailInv
  <2>2. frozen \in Nat /\ n <= frozen
    BY <1>0, <1>2, <2>1 DEF TypeOK
  <2> QED BY <1>4, <1>7, <2>1, <2>2
<1>10. /\ mn \in Memory /\ mn.items = m.items /\ mn.headBytes = m.headBytes /\ mn.itemOffset = m.itemOffset
       /\ mn.itemHidden = n /\ mn.headId = m.headId /\ mn.tailId = m.tailId /\ mn.files = m.files
  <2> HIDE DEF m
  <2> QED BY <1>4, <1>9 DEF Memory
<1>11. TablePut(cache, cache', t, c.index, n, c.data)
  <2>1. cache \in [Table -> Files] /\ SetMeta(cache, cache', t, n)
    BY <1>0, <1>2 DEF TypeOK, SetMeta
  <2> QED BY <1>9, <2>1, PutMeta
<1>12. /\ cache' \in [Table -> Files] /\ cache'[t].index = c.index /\ cache'[t].meta = n
       /\ cache'[t].data = c.data /\ \A u \in Table \ {t} : cache'[u] = cache[u]
  BY <1>11 DEF TablePut
<1> HIDE DEF mn
<1>13. mem' \in [Table -> Memory] /\ mem'[t] = mn /\ \A u \in Table \ {t} : mem'[u] = mem[u]
  <2>1. mem \in [Table -> Memory]
    BY <1>0 DEF TypeOK
  <2> QED BY <1>3, <1>10, <2>1, PutMem
<1>14. /\ OpenOK(t, disk[t], cache'[t], mn, hist[t], "none", safe, asked)
       /\ m.tailId # TailFile(c.index, m, n) => OpenOK(t, disk[t], cache'[t], mn, hist[t], "rename", safe, asked)
  <2> HIDE DEF m, c
  <2>1. m.itemHidden < n /\ n <= m.items
    BY <1>2
  <2> QED BY ONLY t \in Table, <1>4, <1>6, <1>9, <1>10, <1>12, <2>1, OpenTailMeta
<1>15. TypeOK'
  <2>1. todo' \subseteq Table
    BY <1>0, <1>2 DEF TypeOK
  <2> QED BY <1>0, <1>2, <1>12, <1>13, <2>1 DEF TypeOK
<1>16. ControlInv'
  BY <1>2 DEF ControlInv
<1>17. IdleInv' /\ ModifyInv' /\ CommitInv' /\ RollbackInv' /\ CutInv' /\ HeadInv' /\ RepairInv'
  BY <1>2 DEF IdleInv, ModifyInv, CommitInv, RollbackInv, CutInv, HeadInv, RepairInv
<1>18. /\ mem'[t].itemHidden = n /\ \A u \in Table : mem'[u].items = mem[u].items
       /\ \A u \in Table \ {t} : mem'[u].itemHidden = mem[u].itemHidden
  BY <1>10, <1>13
<1>19. TailInv'
  <2> SUFFICES ASSUME op = "tail" PROVE TailInv'
    BY <1>2 DEF TailInv
  <2>1. /\ safe = frozen /\ tail < target /\ \A u \in Table : mem'[u].items = frozen
    BY <1>0, <1>18 DEF TailInv
  <2>2. \A u \in Table : mem[u].itemHidden = IF u \notin todo THEN target ELSE tail
    BY <1>0, <1>2 DEF TailInv
  <2>3. target <= frozen /\ asked = target
    <3>1. target <= frozen /\ frozen \in Nat
      BY <1>0, <1>2, <1>7 DEF TailInv, TypeOK
    <3> QED BY <1>0, <1>4, <3>1 DEF TailInv
  <2>4. \A u \in Table :
             mem'[u].itemHidden = IF u \notin todo' \/ (u = cur' /\ pc' # "next") THEN target ELSE tail
    BY <1>2, <1>7, <1>18, <2>2
  <2> QED BY <1>2, <2>1, <2>3, <2>4 DEF TailInv
<1>20. LevelInv'
  <2> SUFFICES ASSUME op = "level" PROVE LevelInv'
    BY <1>2 DEF LevelInv
  <2>1. safe <= target /\ asked <= target /\ \A u \in Table : target <= mem'[u].items
    BY <1>0, <1>18 DEF LevelInv
  <2>2. \A u \in Table : u \notin todo \/ u = t => mem'[u].items = target
    BY <1>0, <1>2, <1>18 DEF LevelInv
  <2>3. \A u \in Table : mem[u].itemHidden \in Nat
    BY <1>0, Typed, Fields
  <2>4. \A v \in Table : mem'[v].itemHidden <= mem'[t].itemHidden
    BY <1>8, <1>9, <1>18
  <2>5. \A u \in Table : u \notin todo => \A v \in Table : mem'[v].itemHidden <= mem'[u].itemHidden
    <3> SUFFICES ASSUME NEW u \in Table, u \notin todo, NEW v \in Table
                 PROVE  mem'[v].itemHidden <= mem'[u].itemHidden
      OBVIOUS
    <3>1. \A w \in Table : mem[w].itemHidden <= mem[u].itemHidden
      BY <1>0 DEF LevelInv
    <3>2. n <= mem[u].itemHidden
      BY <1>8, <3>1
    <3> QED BY <1>2, <1>18, <3>1, <3>2
  <2> QED BY <1>2, <2>1, <2>2, <2>4, <2>5 DEF LevelInv
<1>21. DownInv'
  <2>1. \A u \in Table : cache[u].meta <= cache'[u].meta
    <3>1. cache[t].meta = m.itemHidden
      BY <1>4, <1>6, OpenFacts
    <3>2. m.itemHidden \in Nat /\ \A u \in Table : cache[u].meta \in Nat
      BY <1>0, <1>4, Typed, Fields
    <3> QED BY <1>2, <1>9, <1>12, <3>1, <3>2
  <2>2. \A u \in Table : cache[u].meta \in Nat /\ cache'[u].meta \in Nat
    BY <1>0, <1>12, Typed, Fields
  <2>3. op = "level" => \E u \in Table : asked <= cache'[u].meta
    <3> SUFFICES ASSUME op = "level" PROVE \E u \in Table : asked <= cache'[u].meta
      OBVIOUS
    <3>1. PICK u \in Table : asked <= cache[u].meta
      BY <1>0 DEF DownInv
    <3>2. asked <= cache'[u].meta
      BY <1>4, <2>1, <2>2, <3>1
    <3> QED BY <3>2
  <2> QED BY <1>2, <2>3 DEF DownInv
<1>22. \A u \in Table : FilesInv(u)'
  <2>1. pc' # "down" /\ (pc' \in Midway => pc' = "rename" /\ cur' = t)
    BY <1>2 DEF Midway
  <2>2. OpenOK(t, disk'[t], cache'[t], mem'[t], hist'[t], IF pc' \in Midway THEN pc' ELSE "none", safe, asked)
    BY <1>2, <1>13, <1>14, <2>1
  <2> QED BY <1>0, <1>2, <1>5, <1>12, <1>13, <2>1, <2>2, OneTable
<1> QED BY <1>15, <1>16, <1>17, <1>19, <1>20, <1>21, <1>22 DEF IInv, OpInv

\* The index is replaced by one that starts at the new tail.
LEMMA StepTailIndex ==
  ASSUME IInv, TailIndex PROVE IInv'
<1>0. TypeOK /\ (\A u \in Table : FilesInv(u)) /\ TailInv /\ LevelInv /\ DownInv
  BY DEF IInv, OpInv
<1>1. PICK t \in Table : t = cur /\ pc = "rename" /\ t \in todo /\ op \in {"tail", "level"}
  BY DEF IInv, TypeOK, ControlInv, TailIndex
<1> DEFINE m == mem[t]
           c == cache[t]
           n == m.itemHidden
           g == TailFile(c.index, m, n)
           first == NewDeleted(t, n)
           y == <<Entry(g, first)>> \o SubSeq(c.index, first - m.itemOffset + 2, Len(c.index))
<1>2. /\ disk' = [disk EXCEPT ![t].meta = c.meta]
      /\ SetIndex(cache, cache', t, y) /\ pc' = "drop" /\ cur' = t
      /\ UNCHANGED <<mem, batch, frozen, tail, op, todo, target, held, hist, safe, asked>>
  BY <1>0, <1>1 DEF TailIndex, Goto, ghosts, SetIndex, TypeOK, NewTailId, TailFile
<1>3. /\ disk[t] \in Files /\ c \in Files /\ m \in Memory /\ hist[t] \in Seq(Payload)
      /\ safe \in Nat /\ asked \in Nat /\ target \in Nat /\ m.itemOffset \in Nat /\ n \in Nat /\ m.items \in Nat
      /\ c.meta \in Nat
  BY <1>0, Typed, Fields DEF TypeOK
<1>4. OpenOK(t, disk[t], c, m, hist[t], "rename", safe, asked)
  <2>1. Phase(t) = "rename" /\ op # "open"
    BY <1>1 DEF Phase, Midway
  <2>2. Opened(t)
    BY <1>0, <1>1, <2>1, OpenTables
  <2> QED BY <2>1, <2>2 DEF Opened
<1>5. m.itemOffset <= n /\ n = c.meta /\ c.meta <= asked
  BY <1>4 DEF OpenOK, Counted, FilesAgree
<1>6. n <= m.items
  <2>1. CASE op = "tail"
    <3>1. n = target /\ m.items = frozen /\ target <= frozen
      BY <1>0, <1>1, <2>1 DEF TailInv
    <3> QED BY <3>1
  <2>2. CASE op = "level"
    <3>1. m.items = target /\ asked <= target
      BY <1>0, <1>1, <2>2 DEF LevelInv
    <3> HIDE DEF m, n, c
    <3> QED BY <1>3, <1>5, <3>1
  <2> QED BY <1>1, <2>1, <2>2
<1>7. first \in Nat /\ FirstKept(c.index, m.itemOffset, n, g, first)
  <2>1. first = FirstInFile(c.index, m.itemOffset, n, g)
    BY DEF NewDeleted, NewTailId, TailFile, FirstInFile
  <2> HIDE DEF first, g, c, n, m
  <2> QED BY <1>3, <1>5, <2>1, TailFirst
<1>8. PICK cn : cn = [c EXCEPT !.index = y]
  OBVIOUS
<1>9. cn.index = y /\ cn.meta = c.meta /\ cn.data = c.data
  <2> HIDE DEF y, c
  <2> QED BY ONLY <1>3, <1>8 DEF Files
<1>10. PICK dn : dn = [disk[t] EXCEPT !.meta = c.meta]
  OBVIOUS
<1>11. dn.index = disk[t].index /\ dn.meta = c.meta /\ dn.data = disk[t].data
  <2> HIDE DEF c
  <2> QED BY ONLY <1>3, <1>10 DEF Files
<1>12. TailCut(c.index, cn.index, m, g, first)
  BY <1>9 DEF TailCut
<1>13. cn.index \in Seq(Position) /\ OpenOK(t, dn, cn, m, hist[t], "drop", safe, asked)
  <2>1. PICK k \in Nat : k = first
    BY <1>7
  <2> HIDE DEF first, y
  <2>2. FirstKept(c.index, m.itemOffset, n, g, k) /\ TailCut(c.index, cn.index, m, g, k)
    BY <1>7, <1>12, <2>1
  <2> HIDE DEF m, c
  <2> QED BY ONLY t \in Table, <1>3, <1>4, <1>6, <1>9, <1>11, <2>2, k \in Nat, OpenTailIndex
<1>14. TablePut(cache, cache', t, y, c.meta, c.data)
  <2>1. cache \in [Table -> Files] /\ y \in Seq(Position)
    BY <1>0, <1>9, <1>13 DEF TypeOK
  <2> HIDE DEF y
  <2> QED BY <1>2, <2>1, PutIndex
<1> HIDE DEF y
<1>15. TablePut(disk, disk', t, disk[t].index, c.meta, disk[t].data)
  <2>1. disk \in [Table -> Files] /\ SetMeta(disk, disk', t, c.meta)
    BY <1>0, <1>2 DEF TypeOK, SetMeta
  <2> QED BY <1>3, <2>1, PutMeta
<1>16. /\ disk' \in [Table -> Files] /\ cache' \in [Table -> Files]
       /\ disk'[t].index = dn.index /\ disk'[t].meta = dn.meta /\ disk'[t].data = dn.data
       /\ cache'[t].index = cn.index /\ cache'[t].meta = cn.meta /\ cache'[t].data = cn.data
       /\ \A u \in Table \ {t} : disk'[u] = disk[u] /\ cache'[u] = cache[u]
  BY <1>9, <1>11, <1>14, <1>15 DEF TablePut
<1>17. OpenOK(t, disk'[t], cache'[t], m, hist[t], "drop", safe, asked)
  BY <1>13, <1>16 DEF OpenOK, FilesAgree
<1>18. TypeOK'
  BY <1>0, <1>2, <1>16 DEF TypeOK
<1>19. ControlInv'
  BY <1>1, <1>2 DEF ControlInv
<1>20. IdleInv' /\ ModifyInv' /\ CommitInv' /\ RollbackInv' /\ CutInv' /\ HeadInv' /\ RepairInv'
  BY <1>1, <1>2 DEF IdleInv, ModifyInv, CommitInv, RollbackInv, CutInv, HeadInv, RepairInv
<1>21. TailInv'
  BY <1>0, <1>1, <1>2 DEF TailInv
<1>22. LevelInv'
  BY <1>0, <1>1, <1>2 DEF LevelInv
<1>23. DownInv'
  <2>1. \A u \in Table : cache'[u].meta = cache[u].meta
    BY <1>9, <1>16
  <2> QED BY <1>0, <1>1, <1>2, <2>1 DEF DownInv
<1>24. \A u \in Table : FilesInv(u)'
  <2>1. pc' \in Midway /\ pc' # "down"
    BY <1>2 DEF Midway
  <2> QED BY <1>0, <1>1, <1>2, <1>16, <1>17, <2>1, OneTable
<1> QED BY <1>18, <1>19, <1>20, <1>21, <1>22, <1>23, <1>24 DEF IInv, OpInv

\* The files before the tail are removed.
LEMMA StepTailFiles ==
  ASSUME IInv, TailFiles PROVE IInv'
<1>0. TypeOK /\ (\A u \in Table : FilesInv(u)) /\ TailInv /\ LevelInv /\ DownInv
  BY DEF IInv, OpInv
<1>1. PICK t \in Table : t = cur /\ pc = "drop" /\ t \in todo /\ op \in {"tail", "level"}
  BY DEF IInv, TypeOK, ControlInv, TailFiles
<1> DEFINE m == mem[t]
           c == cache[t]
           e == c.index[1]
           before == BeforeTail(m, c.index)
           g == WithoutFiles(c.data, before)
           mn == [m EXCEPT !.tailId = e.file, !.itemOffset = e.off, !.files = m.files \ before]
<1>2. /\ disk' = [disk EXCEPT ![t].index = c.index]
      /\ SetData(cache, cache', t, g) /\ pc' = "next" /\ todo' = todo \ {t} /\ cur' = None
      /\ UNCHANGED <<batch, frozen, tail, op, target, held, hist, safe, asked>>
  BY <1>0, <1>1 DEF TailFiles, TableDone, ghosts, SetData, TypeOK, BeforeTail
<1>3. SetMem(mem, mem', t, mn)
  BY <1>0, <1>1 DEF TailFiles, SetMem, TypeOK, Memory, BeforeTail
<1>4. /\ disk[t] \in Files /\ c \in Files /\ m \in Memory /\ hist[t] \in Seq(Payload)
      /\ safe \in Nat /\ asked \in Nat /\ c.index \in Seq(Position)
      /\ m.files \subseteq Nat
  BY <1>0, Typed, Fields DEF TypeOK
<1>5. OpenOK(t, disk[t], c, m, hist[t], "drop", safe, asked)
  <2>1. Phase(t) = "drop" /\ op # "open"
    BY <1>1 DEF Phase, Midway
  <2>2. Opened(t)
    BY <1>0, <1>1, <2>1, OpenTables
  <2> QED BY <2>1, <2>2 DEF Opened
<1>6. e.file \in Nat /\ e.off \in Nat
  <2>1. c.index # <<>>
    BY <1>5 DEF OpenOK, Counted
  <2>2. e \in Position
    BY <1>4, <2>1, StoredNat
  <2> QED BY <2>2 DEF Position
<1>7. /\ mn \in Memory /\ mn.items = m.items /\ mn.itemHidden = m.itemHidden /\ TailMoved(m, mn, c.index)
  <2>1. m.files \ before \subseteq Nat
    BY <1>4
  <2> HIDE DEF m, before, e
  <2>2. /\ mn \in Memory /\ mn.items = m.items /\ mn.headBytes = m.headBytes
        /\ mn.itemOffset = e.off /\ mn.itemHidden = m.itemHidden /\ mn.headId = m.headId
        /\ mn.tailId = e.file /\ mn.files = m.files \ before
    BY <1>4, <1>6, <2>1 DEF Memory
  <2> QED BY <2>2 DEF TailMoved, before, e
<1>8. PICK cn : cn = [c EXCEPT !.data = g]
  OBVIOUS
<1>9. cn.index = c.index /\ cn.meta = c.meta /\ cn.data = g
  <2> HIDE DEF g, c
  <2> QED BY ONLY <1>4, <1>8 DEF Files
<1>10. PICK dn : dn = [disk[t] EXCEPT !.index = c.index]
  OBVIOUS
<1>11. dn.index = c.index /\ dn.meta = disk[t].meta /\ dn.data = disk[t].data
  <2> HIDE DEF c
  <2> QED BY ONLY <1>4, <1>10 DEF Files
<1> HIDE DEF mn
<1>12. cn.data \in Data /\ OpenOK(t, dn, cn, mn, hist[t], "none", safe, asked)
  <2> HIDE DEF m, c
  <2> QED BY ONLY ZenonT(40), t \in Table, <1>4, <1>5, <1>7, <1>9, <1>11, OpenTailFiles
<1>13. TablePut(cache, cache', t, c.index, c.meta, g)
  <2>1. cache \in [Table -> Files] /\ g \in Data
    BY <1>0, <1>9, <1>12 DEF TypeOK
  <2> HIDE DEF g
  <2> QED BY <1>2, <2>1, PutData
<1>14. TablePut(disk, disk', t, c.index, disk[t].meta, disk[t].data)
  <2>1. disk \in [Table -> Files] /\ SetIndex(disk, disk', t, c.index)
    BY <1>0, <1>2 DEF TypeOK, SetIndex
  <2> QED BY <1>4, <2>1, PutIndex
<1>15. mem' \in [Table -> Memory] /\ mem'[t] = mn /\ \A u \in Table \ {t} : mem'[u] = mem[u]
  <2>1. mem \in [Table -> Memory]
    BY <1>0 DEF TypeOK
  <2> QED BY <1>3, <1>7, <2>1, PutMem
<1>16. /\ disk' \in [Table -> Files] /\ cache' \in [Table -> Files]
       /\ disk'[t].index = dn.index /\ disk'[t].meta = dn.meta /\ disk'[t].data = dn.data
       /\ cache'[t].index = cn.index /\ cache'[t].meta = cn.meta /\ cache'[t].data = cn.data
       /\ \A u \in Table \ {t} : disk'[u] = disk[u] /\ cache'[u] = cache[u]
  BY <1>9, <1>11, <1>13, <1>14 DEF TablePut
<1>17. OpenOK(t, disk'[t], cache'[t], mn, hist[t], "none", safe, asked)
  BY <1>12, <1>16 DEF OpenOK, FilesAgree
<1>18. TypeOK'
  <2>1. todo' \subseteq Table
    BY <1>0, <1>2 DEF TypeOK
  <2> QED BY <1>0, <1>2, <1>15, <1>16, <2>1 DEF TypeOK
<1>19. ControlInv'
  BY <1>1, <1>2 DEF ControlInv
<1>20. IdleInv' /\ ModifyInv' /\ CommitInv' /\ RollbackInv' /\ CutInv' /\ HeadInv' /\ RepairInv'
  BY <1>1, <1>2 DEF IdleInv, ModifyInv, CommitInv, RollbackInv, CutInv, HeadInv, RepairInv
<1>21. \A u \in Table : mem'[u].items = mem[u].items /\ mem'[u].itemHidden = mem[u].itemHidden
  BY <1>7, <1>15
<1>22. TailInv'
  <2> SUFFICES ASSUME op = "tail" PROVE TailInv'
    BY <1>2 DEF TailInv
  <2>1. /\ safe = frozen /\ tail < target /\ target <= frozen /\ asked = target
        /\ \A u \in Table : mem[u].items = frozen
        /\ \A u \in Table : mem[u].itemHidden = IF u \notin todo \/ u = t THEN target ELSE tail
    BY <1>0, <1>1 DEF TailInv
  <2>2. \A u \in Table : mem'[u].itemHidden = IF u \notin todo' THEN target ELSE tail
    BY <1>2, <1>21, <2>1
  <2> QED BY <1>2, <1>21, <2>1, <2>2 DEF TailInv
<1>23. LevelInv'
  <2> SUFFICES ASSUME op = "level" PROVE LevelInv'
    BY <1>2 DEF LevelInv
  <2>1. /\ safe <= target /\ asked <= target /\ \A u \in Table : target <= mem[u].items
        /\ \A u \in Table : u \notin todo \/ u = t => mem[u].items = target
        /\ \A u \in Table : u \notin todo \/ u = t => \A v \in Table : mem[v].itemHidden <= mem[u].itemHidden
    BY <1>0, <1>1 DEF LevelInv
  <2> QED BY <1>2, <1>21, <2>1 DEF LevelInv
<1>24. DownInv'
  <2>1. \A u \in Table : cache'[u].meta = cache[u].meta
    BY <1>9, <1>16
  <2> QED BY <1>0, <1>1, <1>2, <2>1 DEF DownInv
<1>25. \A u \in Table : FilesInv(u)'
  <2>1. pc' \notin Midway /\ pc' # "down"
    BY <1>2 DEF Midway
  <2>2. OpenOK(t, disk'[t], cache'[t], mem'[t], hist'[t], "none", safe, asked)
    BY <1>2, <1>15, <1>17
  <2> QED BY <1>0, <1>1, <1>2, <1>15, <1>16, <2>1, <2>2, OneTable
<1> QED BY <1>18, <1>19, <1>20, <1>22, <1>23, <1>24, <1>25 DEF IInv, OpInv

\* The head file, the index and the metadata of one table are synced.
LEMMA StepSync ==
  ASSUME IInv, NEW t \in Table, Sync(t) PROVE IInv'
<1>0. TypeOK /\ ControlInv /\ (\A u \in Table : FilesInv(u)) /\ OpInv
  BY DEF IInv
<1> DEFINE c == cache[t]
           m == mem[t]
           g == Synced(disk[t].data, c.data, m.headId)
           dn == [index |-> c.index, meta |-> c.meta, data |-> g]
<1>1. /\ pc \in {"idle", "run"} /\ disk' = [disk EXCEPT ![t] = dn]
      /\ UNCHANGED <<cache, mem, batch, frozen, tail, pc, op, cur, todo, target, held, hist, safe, asked>>
  BY DEF Sync, SyncedData, Synced, ghosts
<1>2. op \in {None, "modify"}
  BY <1>0, <1>1 DEF ControlInv
<1>3. pc # "down" /\ op # "open" /\ pc \notin Midway
  BY <1>1, <1>2 DEF Midway, None
<1>4. /\ disk[t] \in Files /\ c \in Files /\ m \in Memory /\ hist[t] \in Seq(Payload)
      /\ c.index \in Seq(Position) /\ c.meta \in Nat
  BY <1>0, Typed, Fields
<1>5. OpenOK(t, disk[t], c, m, hist[t], "none", safe, asked)
  BY <1>0, <1>3, Quiet
<1>6. dn.index = c.index /\ dn.meta = c.meta /\ dn.data = Synced(disk[t].data, c.data, m.headId)
  OBVIOUS
<1>7. dn.data \in Data /\ OpenOK(t, dn, c, m, hist[t], "none", safe, asked)
  <2> HIDE DEF dn, c, m
  <2> QED BY <1>4, <1>5, <1>6, OpenSync
<1>8. dn \in Files
  <2>1. g \in Data
    BY <1>6, <1>7
  <2> HIDE DEF g, c
  <2> QED BY <1>4, <2>1 DEF Files
<1> HIDE DEF dn
<1>9. disk' \in [Table -> Files] /\ disk'[t] = dn /\ \A u \in Table \ {t} : disk'[u] = disk[u]
  BY <1>0, <1>1, <1>8 DEF TypeOK
<1>10. TypeOK'
  BY <1>0, <1>1, <1>9 DEF TypeOK
<1>11. ControlInv'
  BY <1>0, <1>1 DEF ControlInv
<1>12. CommitInv' /\ RollbackInv' /\ CutInv' /\ HeadInv' /\ TailInv' /\ LevelInv' /\ DownInv' /\ RepairInv'
  BY <1>1, <1>2 DEF CommitInv, RollbackInv, CutInv, HeadInv, TailInv, LevelInv, DownInv, RepairInv, None
<1>13. IdleInv' /\ ModifyInv'
  <2>1. IdleInv /\ ModifyInv
    BY <1>0 DEF OpInv
  <2>2. IdleInv'
    BY <1>1, <2>1 DEF IdleInv
  <2>3. ModifyInv'
    BY <1>1, <1>2, <2>1 DEF ModifyInv, None
  <2> QED BY <2>2, <2>3
<1>14. \A u \in Table : FilesInv(u)'
  <2>1. OpenOK(t, disk'[t], cache'[t], mem'[t], hist'[t], "none", safe, asked)
    BY <1>1, <1>7, <1>9
  <2> QED BY <1>0, <1>1, <1>3, <1>9, <2>1, OneTable
<1> QED BY <1>10, <1>11, <1>12, <1>13, <1>14 DEF IInv, OpInv

\* What is left to show when the freezer goes down.
LEMMA StepDown ==
  ASSUME IInv, NoMemory, cache' \in [Table -> Files], disk' = cache', hist' \in [Table -> Seq(Payload)],
         safe' \in Nat, asked' \in Nat, \E u \in Table : asked' <= cache'[u].meta,
         \A t \in Table : ClosedOK(t, cache'[t], cache'[t], hist'[t], safe', asked')
  PROVE  IInv'
<1>1. /\ pc' = "down" /\ op' = None /\ todo' = {} /\ target' = 0 /\ held' = None /\ frozen' = 0 /\ tail' = 0
      /\ mem' = [t \in Table |-> ClosedTable] /\ batch' = [t \in Table |-> EmptyBatch]
  BY DEF NoMemory
<1>2. TypeOK'
  <2>1. EmptyBatch \in Batch
    BY DEF EmptyBatch, Batch
  <2>2. ClosedTable \in Memory
    BY DEF ClosedTable, Memory
  <2>3. mem' \in [Table -> Memory] /\ batch' \in [Table -> Batch]
    BY <1>1, <2>1, <2>2
  <2> QED BY <1>1, <2>3 DEF TypeOK
<1>3. ControlInv'
  BY <1>1 DEF ControlInv, None
<1>4. IdleInv' /\ ModifyInv' /\ CommitInv' /\ RollbackInv' /\ CutInv' /\ HeadInv' /\ TailInv' /\ LevelInv' /\ RepairInv'
  BY <1>1 DEF IdleInv, ModifyInv, CommitInv, RollbackInv, CutInv, HeadInv, TailInv, LevelInv, RepairInv, None
<1>5. DownInv'
  BY <1>1 DEF DownInv, None
<1>6. \A t \in Table : FilesInv(t)'
  BY <1>1 DEF FilesInv, IsOpen
<1> QED BY <1>2, <1>3, <1>4, <1>5, <1>6 DEF IInv, OpInv

\* Whatever a crash leaves of the files can be opened again.
LEMMA StepCrash ==
  ASSUME IInv, Crash PROVE IInv'
<1>0. TypeOK /\ (\A u \in Table : FilesInv(u))
  BY DEF IInv
<1>1. /\ disk' = cache' /\ NoMemory /\ safe' = safe
      /\ hist' = [t \in Table |-> Prefix(hist[t], Stored(cache'[t].index))]
      /\ asked' = Min({asked, Max({cache'[t].meta : t \in Table})})
  BY DEF Crash
<1>2. DOMAIN cache' = Table /\ cache' = [t \in Table |-> cache'[t]]
      /\ \A t \in Table : cache'[t] \in FilesLeft(disk[t], cache[t])
  <2> DEFINE S == [t \in Table |-> FilesLeft(disk[t], cache[t])]
  <2>1. cache' \in Picks(S)
    BY DEF Crash
  <2>2. cache' \in [DOMAIN S -> UNION {S[x] : x \in DOMAIN S}] /\ \A x \in DOMAIN S : cache'[x] \in S[x]
    BY <2>1 DEF Picks
  <2>3. DOMAIN S = Table /\ \A t \in Table : S[t] = FilesLeft(disk[t], cache[t])
    OBVIOUS
  <2> HIDE DEF S
  <2> QED BY <2>2, <2>3
<1>3. safe \in Nat /\ asked \in Nat /\ Table # {}
  BY <1>0, FreezerAssumption DEF TypeOK
<1>4. ASSUME NEW t \in Table
      PROVE  /\ disk[t] \in Files /\ cache[t] \in Files /\ hist[t] \in Seq(Payload)
             /\ ClosedOK(t, disk[t], cache[t], hist[t], safe, asked)
  <2>1. disk[t] \in Files /\ cache[t] \in Files /\ hist[t] \in Seq(Payload)
    BY <1>0, Typed
  <2>2. ~IsOpen(t) => ClosedOK(t, disk[t], cache[t], hist[t], safe, asked)
    BY <1>0 DEF FilesInv
  <2>3. IsOpen(t) => ClosedOK(t, disk[t], cache[t], hist[t], safe, asked)
    <3>1. IsOpen(t) => OpenOK(t, disk[t], cache[t], mem[t], hist[t], Phase(t), safe, asked)
      BY <1>0 DEF FilesInv
    <3> QED BY <2>1, <3>1, OpenCloses
  <2> QED BY <2>1, <2>2, <2>3
<1>5. \A t \in Table : cache'[t].meta \in 0 .. asked
  <2> SUFFICES ASSUME NEW t \in Table PROVE cache'[t].meta \in 0 .. asked
    OBVIOUS
  <2>1. cache'[t].meta \in {disk[t].meta, cache[t].meta}
    BY <1>2 DEF FilesLeft
  <2>2. disk[t].meta \in Nat /\ cache[t].meta \in Nat
    BY <1>4, Fields
  <2>3. disk[t].meta <= asked /\ cache[t].meta <= asked
    BY <1>4 DEF ClosedOK, FilesAgree
  <2> QED BY <1>3, <2>1, <2>2, <2>3
<1> DEFINE M == {cache'[t].meta : t \in Table}
<1>6. M \subseteq 0 .. asked /\ M # {}
  BY <1>3, <1>5
<1> HIDE DEF M
<1>7. Max(M) \in M /\ \A y \in M : y <= Max(M)
  BY <1>3, <1>6, GreatestNat
<1>8. asked' = Max(M)
  <2>0. Max(M) \in 0 .. asked
    BY <1>6, <1>7
  <2>1. Max(M) \in Nat /\ Max(M) <= asked
    BY <1>3, <2>0
  <2>2. PICK y \in Nat : y = Max(M)
    BY <2>1
  <2>3. {asked, y} \subseteq Nat /\ {asked, y} # {} /\ y <= asked
    BY <1>3, <2>1, <2>2
  <2>4. Min({asked, y}) \in {asked, y} /\ \A z \in {asked, y} : Min({asked, y}) <= z
    BY <2>3, LeastNat
  <2>5. Min({asked, y}) = y
    BY <1>3, <2>3, <2>4
  <2>6. asked' = Min({asked, y})
    BY <1>1, <2>2 DEF M
  <2> QED BY <2>2, <2>5, <2>6
<1>9. /\ asked' \in Nat /\ asked' <= asked /\ \A t \in Table : cache'[t].meta <= asked'
      /\ \E t \in Table : asked' = cache'[t].meta
  <2>1. asked' \in M /\ \A y \in M : y <= asked'
    BY <1>7, <1>8
  <2>2. asked' \in 0 .. asked
    BY <1>6, <2>1
  <2> QED BY <1>3, <2>1, <2>2 DEF M
<1>10. ASSUME NEW t \in Table
       PROVE  /\ cache'[t] \in Files /\ hist'[t] \in Seq(Payload)
              /\ ClosedOK(t, cache'[t], cache'[t], hist'[t], safe, asked')
  <2>1. hist'[t] = Prefix(hist[t], Stored(cache'[t].index))
    BY <1>1
  <2>2. PICK r \in FilesLeft(disk[t], cache[t]) : r = cache'[t]
    BY <1>2
  <2>3. PICK an \in Nat : an = asked' /\ an <= asked /\ r.meta <= an
    BY <1>9, <2>2
  <2>4. /\ r \in Files /\ Stored(r.index) \in Nat /\ Stored(r.index) <= Len(hist[t])
        /\ ClosedOK(t, r, r, Prefix(hist[t], Stored(r.index)), safe, an)
    BY <1>3, <1>4, <2>3, ClosedCrash
  <2>5. Prefix(hist[t], Stored(r.index)) \in Seq(Payload)
    BY <1>4, <2>4, PrefixFacts
  <2>6. hist'[t] = Prefix(hist[t], Stored(r.index))
    BY <2>1, <2>2
  <2> QED BY <2>2, <2>3, <2>4, <2>5, <2>6
<1>11. cache' \in [Table -> Files]
  BY <1>2, <1>10
<1>12. hist' \in [Table -> Seq(Payload)]
  BY <1>1, <1>10
<1>13. \E u \in Table : asked' <= cache'[u].meta
  BY <1>9
<1> QED BY <1>1, <1>3, <1>9, <1>10, <1>11, <1>12, <1>13, StepDown

\* Close leaves all files synced.
LEMMA StepClose ==
  ASSUME IInv, Close PROVE IInv'
<1>0. TypeOK /\ (\A u \in Table : FilesInv(u)) /\ IdleInv /\ ControlInv
  BY DEF IInv, OpInv
<1>1. pc = "idle" /\ disk' = cache /\ NoMemory /\ UNCHANGED <<cache, hist, safe, asked>>
  BY DEF Close, ghosts
<1>2. op = None
  BY <1>0, <1>1 DEF ControlInv
<1>3. pc # "down" /\ op # "open" /\ pc \notin Midway
  BY <1>1, <1>2 DEF Midway, None
<1>4. ASSUME NEW t \in Table
      PROVE  ClosedOK(t, cache[t], cache[t], hist[t], safe, asked) /\ asked = cache[t].meta
  <2>1. OpenOK(t, disk[t], cache[t], mem[t], hist[t], "none", safe, asked) /\ mem[t].itemHidden = cache[t].meta
    BY <1>0, <1>3, Quiet
  <2>2. /\ disk[t] \in Files /\ cache[t] \in Files /\ mem[t] \in Memory /\ hist[t] \in Seq(Payload)
    BY <1>0, Typed
  <2>3. asked = mem[t].itemHidden
    BY <1>0, <1>1 DEF IdleInv
  <2> QED BY <2>1, <2>2, <2>3, ClosedClose
<1>5. safe' \in Nat /\ asked' \in Nat /\ hist' \in [Table -> Seq(Payload)] /\ cache' \in [Table -> Files]
  BY <1>0, <1>1 DEF TypeOK
<1>6. \E u \in Table : asked' <= cache'[u].meta
  <2>1. PICK u \in Table : TRUE
    BY FreezerAssumption
  <2>2. asked' = cache'[u].meta
    BY <1>1, <1>4
  <2> QED BY <1>5, <2>2
<1>7. \A t \in Table : ClosedOK(t, cache'[t], cache'[t], hist'[t], safe', asked')
  BY <1>1, <1>4
<1> QED BY <1>1, <1>5, <1>6, <1>7, StepDown

\* Less may be acknowledged than was.
LEMMA ClosedForgets ==
  ASSUME NEW t \in Table, NEW d \in Files, NEW c \in Files, NEW h \in Seq(Payload), NEW s \in Nat, NEW a \in Nat,
         ClosedOK(t, d, c, h, s, a)
  PROVE  ClosedOK(t, d, c, h, 0, a)
<1>1. FilesAgree(d, c, 0, a)
  <2>1. Stored(d.index) \in Nat /\ Stored(c.index) \in Nat
    BY Fields, StoredNat
  <2> QED BY <2>1 DEF ClosedOK, FilesAgree, Covered
<1>2. Lo(0, a) <= Lo(s, a) /\ Lo(0, a) \in Nat /\ Lo(s, a) \in Nat
  BY DEF Lo
<1>3. ASSUME NEW x \in Seq(Position), Holds(t, x, d.data, c.data, h, Lo(s, a))
      PROVE  Holds(t, x, d.data, c.data, h, Lo(0, a))
  <2>1. Formed(t, x, h)
    BY <1>3 DEF Holds
  <2>2. \A i \in 2 .. Len(x) : Num(x, i) < Lo(0, a) => Num(x, i) < Lo(s, a)
    <3> SUFFICES ASSUME NEW i \in 2 .. Len(x), Num(x, i) < Lo(0, a) PROVE Num(x, i) < Lo(s, a)
      OBVIOUS
    <3>1. Num(x, i) \in Nat
      BY <2>1, Entries
    <3> QED BY <1>2, <3>1
  <2> QED BY <1>3, <2>1, <2>2 DEF Holds
<1>4. d.index \in Seq(Position) /\ c.index \in Seq(Position)
  BY Fields
<1> QED BY <1>1, <1>3, <1>4 DEF ClosedOK

\* The end of the last data file of a table is lost.
LEMMA StepDataLoss ==
  ASSUME IInv, NEW t \in Table, DataLoss(t) PROVE IInv'
<1>0. TypeOK /\ (\A u \in Table : FilesInv(u)) /\ DownInv /\ ControlInv
  BY SMTT(30) DEF IInv, OpInv
<1> DEFINE c == cache[t]
           x == c.index
           f == LastEntry(x, x[1].file).file
<1>1. /\ pc = "down" /\ Len(x) > 1 /\ disk' = cache' /\ safe' = 0
      /\ UNCHANGED <<mem, batch, frozen, tail, pc, op, cur, todo, target, held, hist, asked>>
  BY SMTT(30) DEF DataLoss
<1>2. PICK k \in 0 .. Len(c.data[f]) - 1 :
           /\ \A u \in Table : cache[u].meta <= Intact(x, f, k)
           /\ cache' = [cache EXCEPT ![t].data[f] = Prefix(@, k)]
  BY DEF DataLoss, Intact
<1>3. /\ c \in Files /\ hist[t] \in Seq(Payload) /\ safe \in Nat /\ asked \in Nat /\ x \in Seq(Position)
      /\ c.data \in Data
  BY <1>0, Typed, Fields DEF TypeOK
<1>4. \A u \in Table : ClosedOK(u, cache[u], cache[u], hist[u], safe, asked)
  <2>1. \A u \in Table : ~IsOpen(u)
    BY <1>1 DEF IsOpen
  <2>2. disk = cache
    BY <1>0, <1>1 DEF DownInv
  <2> QED BY <1>0, <2>1, <2>2 DEF FilesInv
<1>5. f = x[Len(x)].file
  <2>1. x # <<>> /\ x[1].file \in Nat
    <3>1. x # <<>>
      BY <1>1
    <3>2. x[1] \in Position
      BY <1>3, <3>1, StoredNat
    <3> QED BY <3>1, <3>2 DEF Position
  <2> QED BY <1>1, <1>3, <2>1, LastFields
<1>6. f \in DOMAIN c.data /\ f \in Nat /\ c.data[f] \in Seq(Payload) /\ Len(c.data[f]) \in Nat
  <2>1. Len(x) \in 2 .. Len(x)
    BY <1>1, <1>3
  <2>2. Holds(t, x, c.data, c.data, hist[t], Lo(safe, asked))
    BY <1>4 DEF ClosedOK
  <2>3. x[Len(x)].file \in DOMAIN c.data
    BY <2>1, <2>2 DEF Holds
  <2>4. f \in DOMAIN c.data
    BY <1>5, <2>3
  <2> HIDE DEF f
  <2> QED BY <1>3, <2>4, DataFacts
<1> HIDE DEF f
<1>7. k \in Nat /\ k <= Len(c.data[f])
  BY <1>2, <1>6
<1>8. asked <= Intact(x, f, k)
  <2>1. PICK u \in Table : asked <= cache[u].meta
    BY <1>0, <1>1 DEF DownInv
  <2>2. cache[u].meta <= Intact(x, f, k) /\ cache[u].meta \in Nat
    BY <1>0, <1>2, Typed, Fields
  <2>3. Intact(x, f, k) \in Int
    <3> DEFINE K == {j \in 2 .. Len(x) : x[j].file # f \/ x[j].off <= k}
    <3>1. Len(x) \in Int /\ 2 \in Int
      BY <1>3
    <3>2. IsFiniteSet(2 .. Len(x))
      BY <3>1, FS_Interval
    <3>3. K \subseteq 2 .. Len(x)
      OBVIOUS
    <3> HIDE DEF K
    <3>4. IsFiniteSet(K)
      BY <3>2, <3>3, FS_Subset
    <3>5. Cardinality(K) \in Nat
      BY <3>4, FS_CardinalityType
    <3>6. x[1].off \in Nat
      <4>1. x # <<>>
        BY <1>1
      <4>2. x[1] \in Position
        BY <1>3, <4>1, StoredNat
      <4> QED BY <4>2 DEF Position
    <3>7. x[1].off + Cardinality(K) \in Int
      BY <3>5, <3>6
    <3> QED BY <3>7 DEF Intact, K
  <2>4. PICK i \in Int : i = Intact(x, f, k)
    BY <2>3
  <2>5. asked <= i
    BY <1>3, <2>1, <2>2, <2>4
  <2> QED BY <2>4, <2>5
<1> DEFINE g == [c.data EXCEPT ![f] = Prefix(c.data[f], k)]
<1>9. FileCut(c.data, g, f, k) /\ g \in Data
  <2>1. Prefix(c.data[f], k) \in Seq(Payload)
    BY <1>6, <1>7, PrefixFacts
  <2>2. PICK w \in Seq(Payload) : w = Prefix(c.data[f], k)
    BY <2>1
  <2>3. Changed(c.data, [c.data EXCEPT ![f] = w], f, w)
    BY <1>3, <1>6, FileChanged
  <2>4. Changed(c.data, g, f, Prefix(c.data[f], k))
    BY <2>2, <2>3
  <2> QED BY <2>4 DEF FileCut, Changed
<1>10. SetData(cache, cache', t, g)
  BY <1>0, <1>2 DEF SetData, TypeOK
<1> HIDE DEF g
<1>11. TablePut(cache, cache', t, x, c.meta, g)
  <2>1. cache \in [Table -> Files]
    BY <1>0 DEF TypeOK
  <2> QED BY <1>9, <1>10, <2>1, PutData
<1>12. /\ cache' \in [Table -> Files] /\ cache'[t].index = x /\ cache'[t].meta = c.meta
       /\ cache'[t].data = g /\ \A u \in Table \ {t} : cache'[u] = cache[u]
  BY <1>11 DEF TablePut
<1>13. ClosedOK(t, cache'[t], cache'[t], hist[t], 0, asked)
  <2>1. FileCut(c.data, cache'[t].data, f, k)
    BY <1>9, <1>12
  <2>2. ClosedOK(t, c, c, hist[t], safe, asked)
    BY <1>4
  <2>3. cache'[t].index = c.index /\ cache'[t].meta = c.meta /\ Len(c.index) > 1
        /\ f = c.index[Len(c.index)].file /\ asked <= Intact(c.index, f, k)
    BY <1>1, <1>5, <1>8, <1>12
  <2> HIDE DEF c
  <2> QED BY ONLY t \in Table, <1>3, <1>7, <2>1, <2>2, <2>3, ClosedLoss
<1>14. \A u \in Table : ClosedOK(u, disk'[u], cache'[u], hist[u], 0, asked)
  <2> SUFFICES ASSUME NEW u \in Table PROVE ClosedOK(u, disk'[u], cache'[u], hist[u], 0, asked)
    OBVIOUS
  <2>1. CASE u = t
    BY <1>1, <1>13, <2>1
  <2>2. CASE u # t
    <3>1. cache[u] \in Files /\ hist[u] \in Seq(Payload)
      BY <1>0, Typed
    <3>2. ClosedOK(u, cache[u], cache[u], hist[u], 0, asked)
      BY <1>3, <1>4, <3>1, ClosedForgets
    <3> QED BY <1>1, <1>12, <2>2, <3>2
  <2> QED BY <2>1, <2>2
<1>15. TypeOK'
  BY <1>0, <1>1, <1>12 DEF TypeOK
<1>16. op = None
  BY <1>0, <1>1 DEF ControlInv
<1>17. ControlInv'
  BY <1>0, <1>1 DEF ControlInv
<1>18. IdleInv' /\ ModifyInv' /\ CommitInv' /\ RollbackInv' /\ CutInv' /\ HeadInv' /\ TailInv' /\ LevelInv' /\ RepairInv'
  BY <1>1, <1>16 DEF IdleInv, ModifyInv, CommitInv, RollbackInv, CutInv, HeadInv, TailInv, LevelInv, RepairInv, None
<1>19. DownInv'
  <2>1. \A u \in Table : cache'[u].meta = cache[u].meta
    BY <1>12
  <2> QED BY <1>0, <1>1, <1>16, <2>1 DEF DownInv, None
<1>20. \A u \in Table : FilesInv(u)'
  BY <1>1, <1>14 DEF FilesInv, IsOpen
<1> QED BY <1>15, <1>17, <1>18, <1>19, <1>20 DEF IInv, OpInv

\* A step of repair that works on one table that is not open yet.
LEMMA OneClosed ==
  ASSUME \A u \in Table : FilesInv(u), op = "open", op' = "open", pc # "down", pc' # "down",
         pc \notin Midway, pc' \notin Midway, NEW t \in Table, t \in todo, t \in todo' \/ todo' = todo \ {t},
         \A u \in Table \ {t} : (u \in todo' <=> u \in todo),
         \A u \in Table \ {t} : /\ cache'[u] = cache[u] /\ disk'[u] = disk[u]
                                /\ mem'[u] = mem[u] /\ hist'[u] = hist[u],
         safe' = safe, asked' = asked,
         t \in todo' => ClosedOK(t, disk'[t], cache'[t], hist'[t], safe, asked),
         t \notin todo' => OpenOK(t, disk'[t], cache'[t], mem'[t], hist'[t], "none", safe, asked)
  PROVE  \A u \in Table : FilesInv(u)'
<1>1. \A u \in Table : Phase(u) = "none" /\ Phase(u)' = "none"
  BY DEF Phase
<1>2. \A u \in Table : (IsOpen(u) <=> u \notin todo) /\ (IsOpen(u)' <=> u \notin todo')
  BY DEF IsOpen
<1>3. ASSUME NEW u \in Table PROVE FilesInv(u)'
  <2>1. CASE u = t
    BY <1>1, <1>2, <2>1 DEF FilesInv
  <2>2. CASE u # t
    <3>1. FilesInv(u)
      OBVIOUS
    <3> QED BY <1>1, <1>2, <2>2, <3>1 DEF FilesInv
  <2> QED BY <2>1, <2>2
<1> QED BY <1>3

\* Repair finds where a table starts and ends.
LEMMA StepOpenTable ==
  ASSUME IInv, NEW t \in Table, OpenTable(t) PROVE IInv'
<1>0. TypeOK /\ (\A u \in Table : FilesInv(u)) /\ DownInv /\ ControlInv
  BY DEF IInv, OpInv
<1> DEFINE c == cache[t]
           x == IF c.index = <<>> THEN <<Entry(0, 0)>> ELSE c.index
           hidden == Max({c.meta, x[1].off})
           head == LastEntry(x, x[1].file).file
           g == OpenForAppend(c.data, head)
           cn == [index |-> x, meta |-> hidden, data |-> g]
           mn == [ClosedTable EXCEPT !.tailId = x[1].file, !.itemOffset = x[1].off, !.itemHidden = hidden,
                                     !.headId = head, !.files = {head}]
<1>1. /\ pc = "next" /\ op = "open" /\ t \in todo /\ pc' = "repair" /\ cur' = t
      /\ UNCHANGED <<disk, batch, frozen, tail, op, todo, target, held, hist, safe, asked>>
  BY DEF OpenTable, AtTable, Goto, ghosts
<1>2. cache' = [cache EXCEPT ![t] = cn] /\ SetMem(mem, mem', t, mn)
  BY <1>0 DEF OpenTable, SetMem, TypeOK
<1>3. /\ c \in Files /\ hist[t] \in Seq(Payload) /\ safe \in Nat /\ asked \in Nat /\ c.meta \in Nat
  BY <1>0, Typed, Fields DEF TypeOK
<1>4. disk[t] = c
  BY <1>0, <1>1 DEF DownInv
<1>5. ClosedOK(t, c, c, hist[t], safe, asked)
  <2>1. ~IsOpen(t)
    BY <1>1 DEF IsOpen
  <2> QED BY <1>0, <1>4, <2>1 DEF FilesInv
<1>6. cn.index = x /\ cn.meta = hidden /\ cn.data = OpenForAppend(c.data, head)
  <2> HIDE DEF x, hidden
  <2> QED OBVIOUS
<1>7. /\ mn.items = 0 /\ mn.tailId = x[1].file /\ mn.itemOffset = x[1].off /\ mn.itemHidden = hidden
      /\ mn.headId = head /\ mn.headBytes = 0 /\ mn.files = {head}
  <2> HIDE DEF x, hidden, head
  <2> QED BY DEF ClosedTable
<1>8. /\ x \in Seq(Position) /\ hidden = c.meta /\ cn.data \in Data /\ x[1] \in Position
      /\ head \in Nat /\ ClosedOK(t, c, cn, hist[t], safe, asked) /\ Repairing(c.index, cn, mn)
  <2>1. Opening(c, cn, mn)
    <3> HIDE DEF cn, mn
    <3> QED BY <1>6, <1>7 DEF Opening
  <2>2. cn.index = x /\ cn.meta = hidden /\ mn.headId = head
    BY <1>6, <1>7
  <2> HIDE DEF x, hidden, head, cn, mn, c
  <2>3. /\ cn.index \in Seq(Position) /\ cn.meta = c.meta /\ cn.data \in Data /\ cn.index[1] \in Position
        /\ mn.headId \in Nat /\ ClosedOK(t, c, cn, hist[t], safe, asked) /\ Repairing(c.index, cn, mn)
    BY ONLY t \in Table, <1>3, <1>5, <2>1, ClosedOpen
  <2> QED BY <2>2, <2>3
<1>9. cn \in Files
  <2>1. x \in Seq(Position) /\ hidden \in Nat /\ g \in Data
    BY <1>3, <1>6, <1>8
  <2> HIDE DEF x, hidden, g
  <2> QED BY SMTT(30), <2>1 DEF Files
<1>10. mn \in Memory
  <2>1. x[1].file \in Nat /\ x[1].off \in Nat /\ hidden \in Nat /\ head \in Nat
    BY <1>3, <1>8 DEF Position
  <2> HIDE DEF x, hidden, head
  <2> QED BY <2>1 DEF ClosedTable, Memory
<1> HIDE DEF cn, mn, x, hidden, head, g
<1>11. cache' \in [Table -> Files] /\ cache'[t] = cn /\ \A u \in Table \ {t} : cache'[u] = cache[u]
  BY <1>0, <1>2, <1>9 DEF TypeOK
<1>12. mem' \in [Table -> Memory] /\ mem'[t] = mn /\ \A u \in Table \ {t} : mem'[u] = mem[u]
  <2>1. mem \in [Table -> Memory]
    BY <1>0 DEF TypeOK
  <2> QED BY <1>2, <1>10, <2>1, PutMem
<1>13. TypeOK'
  BY <1>0, <1>1, <1>11, <1>12 DEF TypeOK
<1>14. ControlInv'
  BY <1>1 DEF ControlInv
<1>15. IdleInv' /\ ModifyInv' /\ CommitInv' /\ RollbackInv' /\ CutInv' /\ HeadInv' /\ TailInv' /\ LevelInv'
  BY <1>1 DEF IdleInv, ModifyInv, CommitInv, RollbackInv, CutInv, HeadInv, TailInv, LevelInv
<1>16. RepairInv'
  BY <1>1, <1>4, <1>8, <1>11, <1>12 DEF RepairInv
<1>17. DownInv'
  <2>1. \A u \in Table : cache'[u].meta = cache[u].meta
    BY <1>6, <1>8, <1>11
  <2>2. \E u \in Table : asked <= cache[u].meta
    BY <1>0, <1>1 DEF DownInv
  <2>3. \A u \in todo : u = t \/ (mem[u] = ClosedTable /\ disk[u] = cache[u])
    BY <1>0, <1>1 DEF DownInv
  <2>4. \A u \in todo : u = t \/ (mem'[u] = ClosedTable /\ disk[u] = cache'[u])
    BY <1>0, <1>11, <1>12, <2>3 DEF TypeOK
  <2> QED BY <1>1, <2>1, <2>2, <2>4 DEF DownInv
<1>18. \A u \in Table : FilesInv(u)'
  <2>1. ClosedOK(t, disk'[t], cache'[t], hist'[t], safe, asked)
    BY <1>1, <1>4, <1>8, <1>11
  <2>2. pc' # "down" /\ pc' \notin Midway /\ pc # "down" /\ pc \notin Midway
    BY <1>1 DEF Midway
  <2> QED BY <1>0, <1>1, <1>11, <1>12, <2>1, <2>2, OneClosed
<1> QED BY <1>13, <1>14, <1>15, <1>16, <1>17, <1>18 DEF IInv, OpInv

\* Repair cuts a data file that is longer than the index says.
LEMMA StepRepairData ==
  ASSUME IInv, RepairData PROVE IInv'
<1>0. TypeOK /\ (\A u \in Table : FilesInv(u)) /\ DownInv /\ RepairInv
  BY DEF IInv, OpInv
<1>1. PICK t \in Table : t = cur /\ pc = "repair" /\ t \in todo /\ op = "open"
  BY DEF IInv, TypeOK, ControlInv, RepairData
<1> DEFINE m == mem[t]
           c == cache[t]
           f == m.headId
           o == LastEntry(c.index, m.tailId).off
           g == [c.data EXCEPT ![f] = Prefix(c.data[f], o)]
<1>2. /\ o < Len(c.data[f]) /\ SetData(cache, cache', t, g)
      /\ UNCHANGED <<disk, mem, batch, frozen, tail, pc, op, cur, todo, target, held, hist, safe, asked>>
  BY <1>0, <1>1 DEF RepairData, Expected, ContentSize, SetData, TypeOK, ghosts
<1>3. /\ disk[t] \in Files /\ c \in Files /\ m \in Memory /\ hist[t] \in Seq(Payload) /\ safe \in Nat /\ asked \in Nat
      /\ c.data \in Data /\ c.index \in Seq(Position) /\ m.tailId \in Nat /\ f \in Nat
  BY <1>0, Typed, Fields DEF TypeOK
<1>4. Repairing(disk[t].index, c, m)
  BY <1>0, <1>1 DEF RepairInv
<1>5. ClosedOK(t, disk[t], c, hist[t], safe, asked)
  <2>1. ~IsOpen(t)
    BY <1>1 DEF IsOpen
  <2> QED BY <1>0, <2>1 DEF FilesInv
<1>6. f \in DOMAIN c.data /\ c.index # <<>>
  BY <1>4 DEF Repairing
<1>7. o \in Nat /\ c.data[f] \in Seq(Payload) /\ Len(c.data[f]) \in Nat
  BY <1>3, <1>6, LastFields, DataFacts
<1>8. Changed(c.data, g, f, Prefix(c.data[f], o)) /\ g \in Data
  <2>1. o <= Len(c.data[f])
    BY <1>2, <1>7
  <2> HIDE DEF o
  <2>2. Prefix(c.data[f], o) \in Seq(Payload)
    BY <1>7, <2>1, PrefixFacts
  <2>3. PICK w \in Seq(Payload) : w = Prefix(c.data[f], o)
    BY <2>2
  <2>4. Changed(c.data, [c.data EXCEPT ![f] = w], f, w)
    BY <1>3, <1>6, FileChanged
  <2>5. Changed(c.data, g, f, Prefix(c.data[f], o))
    BY <2>3, <2>4
  <2> QED BY <2>5 DEF Changed
<1> HIDE DEF g
<1>9. TablePut(cache, cache', t, c.index, c.meta, g)
  <2>1. cache \in [Table -> Files]
    BY <1>0 DEF TypeOK
  <2> QED BY <1>2, <1>8, <2>1, PutData
<1>10. /\ cache' \in [Table -> Files] /\ cache'[t].index = c.index /\ cache'[t].meta = c.meta
       /\ cache'[t].data = g /\ \A u \in Table \ {t} : cache'[u] = cache[u]
  BY <1>9 DEF TablePut
<1>11. ClosedOK(t, disk[t], cache'[t], hist[t], safe, asked) /\ Repairing(disk[t].index, cache'[t], m)
  <2>1. FileCut(c.data, cache'[t].data, m.headId, LastEntry(c.index, m.tailId).off)
    BY <1>8, <1>10 DEF FileCut
  <2>2. LastEntry(c.index, m.tailId).off < Len(c.data[m.headId])
    BY <1>2
  <2>3. cache'[t].index = c.index /\ cache'[t].meta = c.meta
    BY <1>10
  <2> HIDE DEF c, m
  <2> QED BY ONLY t \in Table, <1>3, <1>4, <1>5, <2>1, <2>2, <2>3, ClosedRepairData
<1>12. TypeOK'
  BY <1>0, <1>2, <1>10 DEF TypeOK
<1>13. ControlInv'
  BY <1>1, <1>2 DEF ControlInv
<1>14. IdleInv' /\ ModifyInv' /\ CommitInv' /\ RollbackInv' /\ CutInv' /\ HeadInv' /\ TailInv' /\ LevelInv'
  BY <1>1, <1>2 DEF IdleInv, ModifyInv, CommitInv, RollbackInv, CutInv, HeadInv, TailInv, LevelInv
<1>15. RepairInv'
  BY <1>1, <1>2, <1>11 DEF RepairInv
<1>16. DownInv'
  <2>1. \A u \in Table : cache'[u].meta = cache[u].meta
    BY <1>10
  <2>2. \E u \in Table : asked <= cache[u].meta
    BY <1>0, <1>1 DEF DownInv
  <2>3. \A u \in todo : u = t \/ (mem[u] = ClosedTable /\ disk[u] = cache'[u])
    BY <1>0, <1>1, <1>10 DEF DownInv, TypeOK
  <2> QED BY <1>1, <1>2, <2>1, <2>2, <2>3 DEF DownInv
<1>17. \A u \in Table : FilesInv(u)'
  <2>1. ClosedOK(t, disk'[t], cache'[t], hist'[t], safe, asked)
    BY <1>2, <1>11
  <2>2. pc # "down" /\ pc \notin Midway
    BY <1>1 DEF Midway
  <2> QED BY <1>0, <1>1, <1>2, <1>10, <2>1, <2>2, OneClosed
<1> QED BY <1>12, <1>13, <1>14, <1>15, <1>16, <1>17 DEF IInv, OpInv

\* Repair drops the last entry of an index whose data is not there.
LEMMA StepRepairIndex ==
  ASSUME IInv, RepairIndex PROVE IInv'
<1>0. TypeOK /\ (\A u \in Table : FilesInv(u)) /\ DownInv /\ RepairInv
  BY DEF IInv, OpInv
<1>1. PICK t \in Table : t = cur /\ pc = "repair" /\ t \in todo /\ op = "open"
  BY DEF IInv, TypeOK, ControlInv, RepairIndex
<1> DEFINE m == mem[t]
           c == cache[t]
           x == Front(c.index)
           head == LastEntry(x, m.tailId).file
           g == OpenForAppend(c.data, head)
           fs == IF head # m.headId THEN {head} ELSE m.files
           cn == [c EXCEPT !.index = x, !.data = g]
           mn == [m EXCEPT !.headId = head, !.files = fs]
<1>2. /\ Len(c.data[m.headId]) < LastEntry(c.index, m.tailId).off
      /\ UNCHANGED <<disk, batch, frozen, tail, pc, op, cur, todo, target, held, hist, safe, asked>>
  BY <1>1 DEF RepairIndex, Expected, ContentSize, ghosts
<1>3. cache' = [cache EXCEPT ![t] = cn]
  BY <1>0, <1>1 DEF RepairIndex, TypeOK, Files
<1>4. SetMem(mem, mem', t, mn)
  BY <1>0, <1>1 DEF RepairIndex, SetMem, TypeOK, Memory
<1>5. /\ disk[t] \in Files /\ c \in Files /\ m \in Memory /\ hist[t] \in Seq(Payload) /\ safe \in Nat /\ asked \in Nat
      /\ c.meta \in Nat /\ m.files \subseteq Nat
  BY <1>0, Typed, Fields DEF TypeOK
<1>6. Repairing(disk[t].index, c, m)
  BY <1>0, <1>1 DEF RepairInv
<1>7. ClosedOK(t, disk[t], c, hist[t], safe, asked)
  <2>1. ~IsOpen(t)
    BY <1>1 DEF IsOpen
  <2> QED BY <1>0, <2>1 DEF FilesInv
<1>8. cn.index = x /\ cn.meta = c.meta /\ cn.data = g
  <2> HIDE DEF c, x, g
  <2> QED BY <1>5 DEF Files
<1>9. /\ mn.items = m.items /\ mn.tailId = m.tailId /\ mn.itemOffset = m.itemOffset
      /\ mn.itemHidden = m.itemHidden /\ mn.headId = head
  <2> HIDE DEF m, head, fs
  <2> QED BY <1>5 DEF Memory
<1>10. /\ x \in Seq(Position) /\ g \in Data /\ head \in Nat
       /\ ClosedOK(t, disk[t], cn, hist[t], safe, asked) /\ Repairing(disk[t].index, cn, mn)
  <2>1. Shortened(c, cn, m, mn)
    <3> HIDE DEF cn, mn
    <3> QED BY <1>8, <1>9 DEF Shortened
  <2>2. Len(c.data[m.headId]) < LastEntry(c.index, m.tailId).off
    BY <1>2
  <2> HIDE DEF cn, mn, m, c
  <2>3. /\ cn.index \in Seq(Position) /\ cn.data \in Data /\ mn.headId \in Nat
        /\ ClosedOK(t, disk[t], cn, hist[t], safe, asked) /\ Repairing(disk[t].index, cn, mn)
    BY ONLY t \in Table, <1>5, <1>6, <1>7, <2>1, <2>2, ClosedRepairIndex
  <2> QED BY <1>8, <1>9, <2>3
<1>11. cn \in Files
  <2> HIDE DEF c, x, g
  <2> QED BY <1>5, <1>10 DEF Files
<1>12. mn \in Memory
  <2>1. fs \subseteq Nat
    BY <1>5, <1>10
  <2> HIDE DEF m, head, fs
  <2> QED BY <1>5, <1>10, <2>1 DEF Memory
<1> HIDE DEF cn, mn
<1>13. cache' \in [Table -> Files] /\ cache'[t] = cn /\ \A u \in Table \ {t} : cache'[u] = cache[u]
  BY <1>0, <1>3, <1>11 DEF TypeOK
<1>14. mem' \in [Table -> Memory] /\ mem'[t] = mn /\ \A u \in Table \ {t} : mem'[u] = mem[u]
  <2>1. mem \in [Table -> Memory]
    BY <1>0 DEF TypeOK
  <2> QED BY <1>4, <1>12, <2>1, PutMem
<1>15. TypeOK'
  BY <1>0, <1>2, <1>13, <1>14 DEF TypeOK
<1>16. ControlInv'
  BY <1>1, <1>2 DEF ControlInv
<1>17. IdleInv' /\ ModifyInv' /\ CommitInv' /\ RollbackInv' /\ CutInv' /\ HeadInv' /\ TailInv' /\ LevelInv'
  BY <1>1, <1>2 DEF IdleInv, ModifyInv, CommitInv, RollbackInv, CutInv, HeadInv, TailInv, LevelInv
<1>18. RepairInv'
  BY <1>1, <1>2, <1>10, <1>13, <1>14 DEF RepairInv
<1>19. DownInv'
  <2>1. \A u \in Table : cache'[u].meta = cache[u].meta
    BY <1>8, <1>13
  <2>2. \E u \in Table : asked <= cache[u].meta
    BY <1>0, <1>1 DEF DownInv
  <2>3. \A u \in todo : u = t \/ (mem'[u] = ClosedTable /\ disk[u] = cache'[u])
    BY <1>0, <1>1, <1>13, <1>14 DEF DownInv, TypeOK
  <2> QED BY <1>1, <1>2, <2>1, <2>2, <2>3 DEF DownInv
<1>20. \A u \in Table : FilesInv(u)'
  <2>1. ClosedOK(t, disk'[t], cache'[t], hist'[t], safe, asked)
    BY <1>2, <1>10, <1>13
  <2>2. pc # "down" /\ pc \notin Midway
    BY <1>1 DEF Midway
  <2> QED BY <1>0, <1>1, <1>2, <1>13, <1>14, <2>1, <2>2, OneClosed
<1> QED BY <1>15, <1>16, <1>17, <1>18, <1>19, <1>20 DEF IInv, OpInv

\* Index and data fit: the table is open.
LEMMA StepRepairDone ==
  ASSUME IInv, RepairDone PROVE IInv'
<1>0. TypeOK /\ (\A u \in Table : FilesInv(u)) /\ DownInv /\ RepairInv
  BY DEF IInv, OpInv
<1>1. PICK t \in Table : t = cur /\ pc = "repair" /\ t \in todo /\ op = "open"
  BY DEF IInv, TypeOK, ControlInv, RepairDone
<1> DEFINE m == mem[t]
           c == cache[t]
           needed == m.tailId .. m.headId
           n == m.itemOffset + Len(c.index) - 1
           hb == Len(c.data[m.headId])
           g == Synced(disk[t].data, c.data, m.headId)
           dn == [index |-> c.index, meta |-> c.meta, data |-> g]
           mn == [m EXCEPT !.items = n, !.headBytes = hb, !.files = needed]
<1>2. /\ LastEntry(c.index, m.tailId).off = Len(c.data[m.headId]) /\ disk' = [disk EXCEPT ![t] = dn]
      /\ UNCHANGED <<cache, batch, frozen, tail, op, target, held, hist, safe, asked>>
      /\ needed \subseteq DOMAIN c.data => pc' = "next" /\ todo' = todo \ {t}
  BY <1>1 DEF RepairDone, Expected, ContentSize, SyncedData, Synced, TableDone, OpenFails, ghosts
<1>3. SetMem(mem, mem', t, mn)
  BY <1>0, <1>1 DEF RepairDone, ContentSize, SetMem, TypeOK, Memory
<1>4. /\ disk[t] \in Files /\ c \in Files /\ m \in Memory /\ hist[t] \in Seq(Payload) /\ safe \in Nat /\ asked \in Nat
      /\ c.meta \in Nat /\ c.index \in Seq(Position)
  BY <1>0, Typed, Fields DEF TypeOK
<1>5. Repairing(disk[t].index, c, m)
  BY <1>0, <1>1 DEF RepairInv
<1>6. ClosedOK(t, disk[t], c, hist[t], safe, asked)
  <2>1. ~IsOpen(t)
    BY <1>1 DEF IsOpen
  <2> QED BY <1>0, <2>1 DEF FilesInv
<1>7. dn.index = c.index /\ dn.meta = c.meta /\ dn.data = Synced(disk[t].data, c.data, m.headId)
  <2> HIDE DEF c, m
  <2> QED OBVIOUS
<1>8. /\ mn.items = n /\ mn.headBytes = hb /\ mn.files = needed /\ mn.itemOffset = m.itemOffset
      /\ mn.itemHidden = m.itemHidden /\ mn.headId = m.headId /\ mn.tailId = m.tailId
  <2> HIDE DEF m, n, hb, needed
  <2> QED BY <1>4 DEF Memory
<1>9. /\ g \in Data /\ n \in Nat /\ hb \in Nat /\ needed \subseteq DOMAIN c.data /\ needed \subseteq Nat
      /\ OpenOK(t, dn, c, mn, hist[t], "none", safe, asked)
  <2>1. Counting(c, m, mn)
    <3> HIDE DEF mn
    <3> QED BY <1>8 DEF Counting
  <2>2. LastEntry(c.index, m.tailId).off = Len(c.data[m.headId])
    BY <1>2
  <2> HIDE DEF dn, mn, m, c
  <2>3. /\ dn.data \in Data /\ mn.items \in Nat /\ mn.headBytes \in Nat
        /\ m.tailId \in Nat /\ m.headId \in Nat /\ mn.files \subseteq DOMAIN c.data
        /\ OpenOK(t, dn, c, mn, hist[t], "none", safe, asked)
    BY ONLY t \in Table, <1>4, <1>5, <1>6, <1>7, <2>1, <2>2, ClosedRepairDone
  <2> QED BY <1>7, <1>8, <2>3
<1>10. dn \in Files
  <2> HIDE DEF c, g
  <2> QED BY <1>4, <1>9 DEF Files
<1>11. mn \in Memory
  <2> HIDE DEF m, n, hb, needed
  <2> QED BY <1>4, <1>9 DEF Memory
<1>12. pc' = "next" /\ todo' = todo \ {t}
  BY <1>2, <1>9
<1> HIDE DEF dn, mn
<1>13. disk' \in [Table -> Files] /\ disk'[t] = dn /\ \A u \in Table \ {t} : disk'[u] = disk[u]
  BY <1>0, <1>2, <1>10 DEF TypeOK
<1>14. mem' \in [Table -> Memory] /\ mem'[t] = mn /\ \A u \in Table \ {t} : mem'[u] = mem[u]
  <2>1. mem \in [Table -> Memory]
    BY <1>0 DEF TypeOK
  <2> QED BY <1>3, <1>11, <2>1, PutMem
<1>15. TypeOK'
  <2>1. todo' \subseteq Table
    BY <1>0, <1>12 DEF TypeOK
  <2> QED BY <1>0, <1>2, <1>13, <1>14, <2>1 DEF TypeOK
<1>16. ControlInv'
  BY <1>1, <1>2, <1>12 DEF ControlInv
<1>17. IdleInv' /\ ModifyInv' /\ CommitInv' /\ RollbackInv' /\ CutInv' /\ HeadInv' /\ TailInv' /\ LevelInv' /\ RepairInv'
  BY <1>1, <1>2, <1>12 DEF IdleInv, ModifyInv, CommitInv, RollbackInv, CutInv, HeadInv, TailInv, LevelInv, RepairInv
<1>18. DownInv'
  <2>1. \E u \in Table : asked <= cache[u].meta
    BY <1>0, <1>1 DEF DownInv
  <2>2. \A u \in todo : u = t \/ (mem'[u] = ClosedTable /\ disk'[u] = cache[u])
    BY <1>0, <1>1, <1>13, <1>14 DEF DownInv, TypeOK
  <2> QED BY <1>1, <1>2, <1>12, <2>1, <2>2 DEF DownInv
<1>19. \A u \in Table : FilesInv(u)'
  <2>1. OpenOK(t, disk'[t], cache'[t], mem'[t], hist'[t], "none", safe, asked)
    BY <1>2, <1>9, <1>13, <1>14
  <2>2. pc # "down" /\ pc \notin Midway /\ pc' # "down" /\ pc' \notin Midway
    BY <1>1, <1>12 DEF Midway
  <2>3. t \notin todo' /\ \A u \in Table \ {t} : (u \in todo' <=> u \in todo)
    BY <1>12
  <2> QED BY <1>0, <1>1, <1>2, <1>12, <1>13, <1>14, <2>1, <2>2, <2>3, OneClosed
<1> QED BY <1>15, <1>16, <1>17, <1>18, <1>19 DEF IInv, OpInv

-----------------------------------------------------------------------------
(* The theorems                                                            *)

\* A freezer directory without files.
LEMMA InitInv ==
  ASSUME Init PROVE IInv
<1>1. /\ \A t \in Table : cache[t] = NoFiles /\ disk[t] = NoFiles /\ mem[t] = ClosedTable
                          /\ batch[t] = EmptyBatch /\ hist[t] = <<>>
      /\ disk = cache
      /\ frozen = 0 /\ tail = 0 /\ pc = "down" /\ op = None /\ cur = None /\ todo = {}
      /\ target = 0 /\ held = None /\ safe = 0 /\ asked = 0
  BY DEF Init
<1>2. << >> \in Data
  <2>1. << >> \in [{} -> Seq(Payload)]
    OBVIOUS
  <2> QED BY <2>1 DEF Data
<1>3. NoFiles \in Files /\ NoFiles.index = <<>> /\ NoFiles.meta = 0 /\ NoFiles.data = << >>
  BY <1>2 DEF NoFiles, Files
<1>4. ClosedTable \in Memory /\ EmptyBatch \in Batch /\ <<>> \in Seq(Payload)
  BY DEF ClosedTable, Memory, EmptyBatch, Batch
<1>5. TypeOK
  <2>1. cache \in [Table -> Files] /\ disk \in [Table -> Files]
    BY <1>3 DEF Init
  <2>2. mem \in [Table -> Memory] /\ batch \in [Table -> Batch] /\ hist \in [Table -> Seq(Payload)]
    BY <1>4 DEF Init
  <2> QED BY <1>1, <2>1, <2>2 DEF TypeOK
<1>6. ControlInv
  BY <1>1 DEF ControlInv, None
<1>7. OpInv
  <2>1. IdleInv /\ ModifyInv /\ CommitInv /\ RollbackInv /\ CutInv /\ HeadInv /\ TailInv /\ LevelInv /\ RepairInv
    BY <1>1 DEF IdleInv, ModifyInv, CommitInv, RollbackInv, CutInv, HeadInv, TailInv, LevelInv, RepairInv, None
  <2>2. \E u \in Table : asked <= cache[u].meta
    <3>1. PICK u \in Table : TRUE
      BY FreezerAssumption
    <3>2. cache[u].meta = 0
      BY <1>1, <1>3
    <3> QED BY <1>1, <3>1, <3>2
  <2>3. DownInv
    BY <1>1, <2>2 DEF DownInv, None
  <2> QED BY <2>1, <2>3 DEF OpInv
<1>8. \A t \in Table : FilesInv(t)
  <2> SUFFICES ASSUME NEW t \in Table PROVE FilesInv(t)
    OBVIOUS
  <2>1. ~IsOpen(t)
    BY <1>1 DEF IsOpen
  <2>2. Stored(<<>>) = 0
    BY DEF Stored
  <2>3. Formed(t, <<>>, <<>>)
    BY <2>2 DEF Formed, Shape
  <2>4. Holds(t, <<>>, << >>, << >>, <<>>, Lo(0, 0))
    BY <2>3 DEF Holds
  <2>5. Covered(<<>>, 0, 0, 0, 0) /\ Comparable(<<>>, <<>>)
    BY <2>2 DEF Covered, Comparable, IsPfx
  <2>6. ClosedOK(t, NoFiles, NoFiles, <<>>, 0, 0)
    BY <1>3, <2>4, <2>5 DEF ClosedOK, FilesAgree
  <2> QED BY <1>1, <2>1, <2>6 DEF FilesInv
<1> QED BY <1>5, <1>6, <1>7, <1>8 DEF IInv

\* Every step of the freezer, its writers, its crash and its repair.
LEMMA NextInv ==
  ASSUME IInv, [Next]_vars PROVE IInv'
<1>1. CASE UNCHANGED vars
  <2>1. TypeOK' /\ ControlInv'
    BY <1>1 DEF IInv, TypeOK, ControlInv, vars
  <2>2. IdleInv' /\ ModifyInv' /\ CommitInv' /\ RollbackInv' /\ CutInv'
    BY <1>1 DEF IInv, OpInv, IdleInv, ModifyInv, Overfull, CommitInv, RollbackInv, CutInv, vars
  <2>3. HeadInv' /\ TailInv' /\ LevelInv' /\ DownInv' /\ RepairInv'
    BY <1>1 DEF IInv, OpInv, HeadInv, TailInv, LevelInv, DownInv, RepairInv, vars
  <2>4. \A t \in Table : FilesInv(t)'
    BY <1>1 DEF IInv, FilesInv, IsOpen, Phase, vars
  <2> QED BY <2>1, <2>2, <2>3, <2>4 DEF IInv, OpInv
<1>2. CASE ModifyAncients \/ AdvanceHead \/ ModifyError \/ CommitBatch
  BY <1>2, StepModifyAncients, StepAdvanceHead, StepModifyError, StepCommitBatch
<1>3. CASE Commit
  BY <1>3, StepWriteData, StepWriteIndex, StepCountItems, StepWriteError, StepCommitReturn,
     StepRollbackReturn DEF Commit
<1>4. CASE \E t \in Table, p \in Payload : AppendItem(t, p)
  BY <1>4, StepAppendItem
<1>5. CASE \E n \in 0 .. MaxItems : TruncateHead(n) \/ TruncateTail(n)
  BY <1>5, StepTruncateHead, StepTruncateTail
<1>6. CASE TruncateHeadSteps
  BY <1>6, StepHeadShort, StepHeadBelowTail, StepHeadIndex, StepHeadData, StepHeadCount,
     StepTruncateHeadReturn DEF TruncateHeadSteps
<1>7. CASE TruncateTailSteps
  BY <1>7, StepTailReached, StepTailAboveHead, StepTailMeta, StepTailIndex, StepTailFiles,
     StepTruncateTailReturn DEF TruncateTailSteps
<1>8. CASE Open
  BY <1>8, StepOpenTable, StepNewFreezer, StepRepairData, StepRepairIndex, StepRepairDone,
     StepLevel, StepLevelReturn DEF Open
<1>9. CASE Crash \/ Close
  BY <1>9, StepCrash, StepClose
<1>10. CASE \E t \in Table : Sync(t) \/ DataLoss(t)
  BY <1>10, StepSync, StepDataLoss
<1> QED
  BY <1>1, <1>2, <1>3, <1>4, <1>5, <1>6, <1>7, <1>8, <1>9, <1>10 DEF Next

\* Index, data files, metadata and counters of every table fit together at
\* every step of freezer.go, freezer_table.go and freezer_batch.go, in the
\* synced files and in those the process sees, through every crash.
THEOREM FreezerInvariant == Spec => []IInv
<1>1. Init => IInv
  BY InitInv
<1>2. IInv /\ [Next]_vars => IInv'
  BY NextInv
<1> QED BY <1>1, <1>2, PTL DEF Spec

\* The item with number n of index x is complete in file s, so retrieveItems
\* reads its bytes.
LEMMA ReadEntry ==
  ASSUME NEW t \in Table, NEW x \in Seq(Position), NEW h \in Seq(Payload), Formed(t, x, h),
         NEW i \in 2..Len(x), NEW s \in Seq(Payload), x[i].off <= Len(s), Written(x, i, s, h)
  PROVE  SubSeq(s, Start(x, i) + 1, x[i].off) = Bytes(t, h[Num(x, i) + 1])
<1>1. /\ x[i] \in Position /\ h[Num(x, i) + 1] \in Payload
      /\ Start(x, i) \in Nat /\ Start(x, i) < x[i].off
  BY Entries
<1>2. PICK p \in Payload : p = h[Num(x, i) + 1]
  BY <1>1
<1>3. PICK z \in Nat : z = Size[t][p]
  BY BytesFacts
<1>4. PICK a \in Nat : a = Start(x, i)
  BY <1>1
<1>5. PICK b \in Nat : b = x[i].off
  BY <1>1 DEF Position
<1>6. b = a + z
  BY <1>2, <1>3, <1>4, <1>5 DEF Formed
<1>7. \A j \in a + 1 .. b : s[j] = p
  BY <1>2, <1>4, <1>5 DEF Written
<1>8. b <= Len(s) /\ Len(s) \in Nat
  BY <1>5
<1>9. Bytes(t, p) = [k \in 1 .. z |-> p]
  BY <1>3 DEF Bytes
<1>10. SubSeq(s, a + 1, b) = [k \in 1 .. z |-> p]
  <2>1. SubSeq(s, a + 1, b) = [k \in 1 .. (1 + b) - (a + 1) |-> s[k + (a + 1) - 1]]
    OBVIOUS
  <2>2. (1 + b) - (a + 1) = z
    BY ONLY <1>6, a \in Nat, b \in Nat, z \in Nat
  <2>3. \A k \in 1 .. z : s[k + (a + 1) - 1] = p
    <3> SUFFICES ASSUME NEW k \in 1 .. z PROVE s[k + (a + 1) - 1] = p
      OBVIOUS
    <3>1. k + (a + 1) - 1 \in a + 1 .. b
      BY ONLY <1>6, a \in Nat, b \in Nat, z \in Nat, k \in 1..z
    <3> QED BY ONLY <1>7, <3>1
  <2> QED BY ONLY <2>1, <2>2, <2>3
<1> QED BY ONLY <1>2, <1>4, <1>5, <1>9, <1>10

\* A reader that is let at a table finds it in a state where all items the
\* counters tell of are in the index.
LEMMA Counters ==
  ASSUME IInv, NEW t \in Table, IsOpen(t), ~Locked(t)
  PROVE  /\ cache[t].index # <<>> /\ mem[t].itemOffset = cache[t].index[1].off
         /\ mem[t].itemOffset <= mem[t].itemHidden /\ mem[t].items <= Stored(cache[t].index)
         /\ mem[t].files = mem[t].tailId .. mem[t].headId /\ mem[t].tailId = cache[t].index[1].file
         /\ cache[t].index[Len(cache[t].index)].file <= mem[t].headId
         /\ Solid(t, cache[t].index, disk[t].data, cache[t].data, hist[t])
<1>1. TypeOK /\ FilesInv(t) /\ ModifyInv /\ CommitInv /\ ControlInv
  BY DEF IInv, OpInv
<1>2. PICK ph : ph = Phase(t)
  OBVIOUS
<1>3. OpenOK(t, disk[t], cache[t], mem[t], hist[t], ph, safe, asked)
  BY <1>1, <1>2 DEF FilesInv
<1>4. ph \in {"none", "index", "count"}
  BY <1>2 DEF Phase, Midway, Locked
<1>5. Counted(disk[t].index, cache[t].index, cache[t].data, mem[t], ph)
      /\ Solid(t, cache[t].index, disk[t].data, cache[t].data, hist[t])
  BY <1>3 DEF OpenOK
<1>6. mem[t] \in Memory /\ mem[t].items \in Nat /\ batch[t] \in Batch
  BY <1>1, Typed, Fields
<1>7. mem[t].items <= Stored(cache[t].index)
  <2>1. CASE ph # "count"
    BY <1>4, <1>5, <1>6, <2>1 DEF Counted
  <2>2. CASE ph = "count"
    <3>1. t = cur /\ pc = "count"
      BY <1>2, <2>2 DEF Phase
    <3>2. Stored(cache[t].index) = batch[t].curItem
      BY <1>1, <3>1 DEF CommitInv
    <3>3. op \in {"modify", "commit"}
      BY <1>1, <3>1 DEF ControlInv
    <3>4. batch[t].curItem = mem[t].items + Len(batch[t].index)
      BY <1>1, <3>3 DEF ModifyInv, Buffered
    <3>5. batch[t].index \in Seq(Position)
      BY <1>6, Fields
    <3>6. PICK k \in Nat : k = Len(batch[t].index)
      BY SMTT(30), <3>5
    <3> QED BY <1>6, <3>2, <3>4, <3>6
  <2> QED BY <2>1, <2>2
<1> QED BY <1>4, <1>5, <1>7 DEF Counted

\* So it reads any item that is not hidden.
LEMMA ReadItem ==
  ASSUME IInv, NEW t \in Table, IsOpen(t), ~Locked(t),
         NEW n \in mem[t].itemHidden .. mem[t].items - 1
  PROVE  Readable(t, n)
<1>1. TypeOK
  BY DEF IInv
<1>2. PICK x \in Seq(Position) : x = cache[t].index
  BY <1>1, Typed, Fields
<1>3. PICK m \in Memory : m = mem[t]
  BY <1>1, Typed
<1>4. hist[t] \in Seq(Payload) /\ cache[t].data \in Data
  BY <1>1, Typed, Fields
<1>5. /\ x # <<>> /\ m.itemOffset = x[1].off /\ m.itemOffset <= m.itemHidden /\ m.items <= Stored(x)
      /\ m.files = m.tailId .. m.headId /\ m.tailId = x[1].file /\ x[Len(x)].file <= m.headId
      /\ Solid(t, x, disk[t].data, cache[t].data, hist[t])
  BY <1>2, <1>3, Counters
<1>6. Formed(t, x, hist[t])
  BY <1>5 DEF Solid
<1>7. PICK o \in Nat : o = m.itemOffset
  BY Fields
<1>8. Stored(x) = o + Len(x) - 1 /\ Len(x) \in Nat
  <2>1. Stored(x) = x[1].off + Len(x) - 1 /\ Len(x) \in Nat
    BY <1>5, StoredNat
  <2> QED BY <1>5, <1>7, <2>1
<1>9. n \in Nat /\ o <= n /\ n + 1 <= Stored(x)
  <2>1. n \in m.itemHidden .. m.items - 1 /\ m.itemHidden \in Nat /\ m.items \in Nat /\ Stored(x) \in Nat
    BY <1>3, Fields, StoredNat
  <2> QED BY ONLY <1>5, <1>7, <2>1
<1>10. PICK i \in Nat : i = n - o + 1
  BY ONLY <1>7, <1>9
<1>11. PICK l \in Nat : l = Len(x)
  BY <1>8
<1>12. i \in 1 .. l - 1 /\ i + 1 \in 2 .. l
  <2>1. Stored(x) = o + l - 1
    BY ONLY <1>8, <1>11
  <2>2. n + 1 <= o + l - 1
    BY ONLY <1>9, <2>1
  <2> QED BY ONLY <1>9, <1>10, <2>2, o \in Nat, l \in Nat, i \in Nat
<1>13. PICK j \in 2 .. Len(x) : j = i + 1
  BY ONLY <1>11, <1>12
<1>14. Num(x, j) = n
  <2>1. Num(x, j) = o + j - 2
    BY <1>5, <1>7 DEF Num
  <2> QED BY ONLY <1>9, <1>10, <1>13, <2>1, o \in Nat, i \in Nat
<1>15. Start(x, j) = IF i = 1 \/ x[i].file # x[j].file THEN 0 ELSE x[i].off
  <2>1. j - 1 = i /\ (j = 2 <=> i = 1)
    BY ONLY <1>13, i \in Nat
  <2> QED BY ONLY <2>1 DEF Start
<1>16. PICK f : f = x[j].file
  OBVIOUS
<1>17. /\ f \in DOMAIN cache[t].data /\ x[j].off <= Len(cache[t].data[f])
       /\ Written(x, j, cache[t].data[f], hist[t])
  BY <1>5, <1>13, <1>16 DEF Solid, Full
<1>18. cache[t].data[f] \in Seq(Payload)
  BY <1>4, <1>17, DataFacts
<1>19. SubSeq(cache[t].data[f], Start(x, j) + 1, x[j].off) = Bytes(t, hist[t][n + 1])
  <2>1. SubSeq(cache[t].data[f], Start(x, j) + 1, x[j].off) = Bytes(t, hist[t][Num(x, j) + 1])
    BY ONLY t \in Table, x \in Seq(Position), <1>4, <1>6, <1>13, <1>17, <1>18, ReadEntry
  <2> QED BY ONLY <1>14, <2>1
<1>20. f \in m.files
  <2>1. /\ x[1].file <= x[j].file /\ x[j].file <= x[Len(x)].file
        /\ x[j] \in Position /\ x[1] \in Position /\ x[Len(x)] \in Position
    BY <1>4, <1>6, Entries
  <2>2. x[j].file \in Nat /\ x[1].file \in Nat /\ x[Len(x)].file \in Nat /\ m.headId \in Nat
    BY <2>1, Fields DEF Position
  <2> QED BY <1>5, <1>16, <2>1, <2>2
<1>21. n - m.itemOffset + 1 = i
  BY ONLY <1>7, <1>10
<1>22. i \in 1 .. Len(x) - 1
  BY ONLY <1>11, <1>12
<1> QED BY ONLY <1>2, <1>3, <1>13, <1>15, <1>16, <1>17, <1>19, <1>20, <1>21, <1>22 DEF Readable

\* retrieveItems, which holds only the lock of its table, reads every item the
\* counters promise with the content written last under its number: between
\* the steps of a commit, during truncations of other tables and after the
\* repair that follows any crash.
THEOREM ItemsStayReadable == Spec => []ItemsReadable
<1>1. IInv => ItemsReadable
  <2> SUFFICES ASSUME IInv, NEW t \in Table, ~Locked(t),
                      NEW n \in mem[t].itemHidden .. mem[t].items - 1
               PROVE  Readable(t, n)
    BY DEF ItemsReadable
  <2>1. CASE IsOpen(t)
    BY <2>1, ReadItem
  <2>2. CASE ~IsOpen(t)
    <3>1. mem[t] = ClosedTable
      BY <2>2 DEF IInv, OpInv, DownInv, IsOpen, Locked
    <3>2. mem[t].itemHidden = 0 /\ mem[t].items = 0
      BY <3>1 DEF ClosedTable
    <3> QED BY <3>2
  <2> QED BY <2>1, <2>2
<1> QED BY <1>1, FreezerInvariant, PTL

\* Whenever writeLock is free all tables have the same items and the same
\* tail, those of the freezer, no acknowledged item is lost and no item is
\* hidden without having been asked for, whatever crashes came between; and
\* NewFreezer never finds files it cannot repair.
THEOREM TablesStayAgreed == Spec => []TablesAgree
<1>1. IInv => TablesAgree
  <2> SUFFICES ASSUME IInv PROVE TablesAgree
    OBVIOUS
  <2>1. pc # "failed"
    BY DEF IInv, ControlInv
  <2>2. pc = "idle" => safe <= frozen /\ tail <= asked
    BY DEF IInv, OpInv, IdleInv, TypeOK
  <2>3. pc = "idle" => \A t \in Table : mem[t].items = frozen /\ mem[t].itemHidden = tail
    BY DEF IInv, OpInv, IdleInv
  <2> QED BY <2>1, <2>2, <2>3 DEF TablesAgree
<1> QED BY <1>1, FreezerInvariant, PTL

=============================================================================
