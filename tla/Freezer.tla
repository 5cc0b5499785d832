------------------------------ MODULE Freezer ------------------------------
(***************************************************************************)
(* The ancient store of core/rawdb: a Freezer of append-only tables, each  *)
(* made of numbered data files, an index file with one entry per item and  *)
(* a metadata file, together with the crash it is built to survive.        *)
(*                                                                         *)
(* A file is kept twice: `cache` is what the process reads and writes,     *)
(* `disk` what was last forced out with Sync.  Crash throws the memory     *)
(* away and leaves of every file something between the two.  One step does *)
(* one change of a file.  The Sync that follows a change is joined with    *)
(* the next change: a Sync alone only takes away contents that a crash     *)
(* one step earlier could leave as well.                                   *)
(*                                                                         *)
(* All writers hold Freezer.writeLock, so there is one program counter.    *)
(* Readers hold only the lock of a table; Locked tells when it is taken.   *)
(***************************************************************************)
EXTENDS Integers, Sequences, FiniteSets, FiniteSetsExt, SequencesExt

CONSTANTS
    Table,          \* the tables of the freezer
    Payload,        \* what a block may contain
    Size,           \* Size[t][p]: length of p's item in table t when stored
    MaxFileSize,    \* maxFileSize, the limit of a data file
    BufferLimit,    \* freezerBatchBufferLimit
    MaxItems        \* bound: items ever numbered

ASSUME FreezerAssumption ==
    /\ Size \in [Table -> [Payload -> 1 .. MaxFileSize]]
    /\ MaxFileSize \in Nat /\ BufferLimit \in Nat /\ MaxItems \in Nat
    /\ IsFiniteSet(Table) /\ Table # {}

VARIABLES
    cache,      \* files of each table as the process sees them
    disk,       \* files of each table as they were last synced
    mem,        \* the freezerTable fields of each table
    batch,      \* the freezerTableBatch of each table
    frozen,     \* Freezer.frozen
    tail,       \* Freezer.tail
    pc,         \* what the holder of writeLock does next
    op,         \* the operation it is in
    cur,        \* the table it is at
    todo,       \* tables its loop has not reached
    target,     \* the bound of the truncation
    held,       \* the item that waits for the next data file
    hist,       \* ghost: the items appended to each table
    safe,       \* ghost: the items acknowledged, less those TruncateHead drops
    asked       \* ghost: the tail last asked for

fileVars == <<cache, disk>>
ghosts   == <<hist, safe, asked>>
vars == <<cache, disk, mem, batch, frozen, tail, pc, op, cur, todo, target,
          held, hist, safe, asked>>

None == "none"

\* An index entry: the number of a data file and the end of an item in it.
Entry(f, o) == [file |-> f, off |-> o]

Bytes(t, p) == [i \in 1 .. Size[t][p] |-> p]
Prefix(s, n) == SubSeq(s, 1, n)

NoFiles == [index |-> <<>>, meta |-> 0, data |-> << >>]
ClosedTable == [items |-> 0, itemOffset |-> 0, itemHidden |-> 0, headId |-> 0,
                tailId |-> 0, headBytes |-> 0, files |-> {}]
EmptyBatch == [data |-> <<>>, index |-> <<>>, curItem |-> 0]

Init ==
    /\ cache = [t \in Table |-> NoFiles]
    /\ disk = cache
    /\ mem = [t \in Table |-> ClosedTable]
    /\ batch = [t \in Table |-> EmptyBatch]
    /\ frozen = 0 /\ tail = 0
    /\ pc = "down" /\ op = None /\ cur = None /\ todo = {}
    /\ target = 0 /\ held = None
    /\ hist = [t \in Table |-> <<>>]
    /\ safe = 0 /\ asked = 0

-----------------------------------------------------------------------------
(* Files                                                                   *)

\* The index entry that says where the data ends, for an index of n entries;
\* entry 1 only tells the tail file and the number of the first item.
LastEntry(index, tailId) ==
    IF Len(index) = 1 THEN Entry(tailId, 0) ELSE Last(index)

\* A function d with f |-> s added, as a data file that is created or resized.
WithFile(d, f, s) == [g \in DOMAIN d \cup {f} |-> IF g = f THEN s ELSE d[g]]
WithoutFiles(d, F) == [g \in DOMAIN d \ F |-> d[g]]

\* openFile with openFreezerFileForAppend: a missing file is created empty.
OpenForAppend(d, f) == IF f \in DOMAIN d THEN d ELSE WithFile(d, f, <<>>)

\* The data files of table t on disk once file f is synced; the file system
\* has then also removed those that were deleted before.
SyncedData(t, f) ==
    [g \in (DOMAIN disk[t].data \cap DOMAIN cache[t].data) \cup {f} |->
        IF g = f THEN cache[t].data[f] ELSE disk[t].data[g]]

\* retrieveItems, getIndices and bounds for one item of table t.
Readable(t, n) ==
    LET m     == mem[t]
        index == cache[t].index
        i     == n - m.itemOffset + 1
        end   == index[i + 1]
        start == IF i = 1 \/ index[i].file # end.file THEN 0 ELSE index[i].off
    IN  /\ i \in 1 .. Len(index) - 1
        /\ end.file \in m.files \cap DOMAIN cache[t].data
        /\ SubSeq(cache[t].data[end.file], start + 1, end.off)
               = Bytes(t, hist[t][n + 1])

\* What a crash may leave of a file with synced content d that the process
\* sees as c: one of the two, or the front part of one that the other has too.
Between(d, c) ==
    LET same == Max({k \in 0 .. Min({Len(d), Len(c)}) : Prefix(d, k) = Prefix(c, k)})
    IN  {Prefix(d, k) : k \in same .. Len(d)} \cup {Prefix(c, k) : k \in same .. Len(c)}

\* The functions that pick an element of each set S[x].
Picks(S) == {g \in [DOMAIN S -> UNION {S[x] : x \in DOMAIN S}] :
                   \A x \in DOMAIN S : g[x] \in S[x]}

\* A data file that was created since is lost or keeps a part of its data (an
\* empty one is taken for lost: nothing reads it, and only preopen could miss
\* it); one that was removed since may come back as it was synced.
DataLeft(d, c) ==
    LET Both == DOMAIN d \cap DOMAIN c
        Content == [f \in DOMAIN d \cup DOMAIN c |->
                        CASE f \notin DOMAIN d -> Between(<<>>, c[f]) \ {<<>>}
                          [] f \notin DOMAIN c -> {d[f]}
                          [] OTHER -> Between(d[f], c[f])]
    IN  UNION {Picks([f \in Both \cup F |-> Content[f]]) :
                   F \in SUBSET {f \in DOMAIN Content \ Both : Content[f] # {}}}

\* An index that truncateTail replaced by renaming is the old or the new one.
IndexLeft(d, c) ==
    IF d # <<>> /\ c # <<>> /\ d[1] # c[1] THEN {d, c} ELSE Between(d, c)

FilesLeft(d, c) ==
    [index : IndexLeft(d.index, c.index), meta : {d.meta, c.meta},
     data : DataLeft(d.data, c.data)]

-----------------------------------------------------------------------------
(* Control                                                                 *)

Goto(p) == pc' = p

\* The body of a loop over the tables that has not begun with one.
AtTable(o, t) == pc = "next" /\ op \in o /\ t \in todo

Begin(o, n) ==
    /\ pc' = "next" /\ op' = o /\ todo' = Table /\ target' = n /\ cur' = None

\* The loop goes on with the next table.
TableDone(t) == /\ pc' = "next" /\ todo' = todo \ {t} /\ cur' = None
                /\ UNCHANGED <<op, target>>

\* NewFreezer returns an error.
OpenFails == /\ pc' = "failed" /\ cur' = None /\ UNCHANGED <<op, todo, target>>

\* The writer gives writeLock back; ghost items nobody stored are forgotten.
Finish ==
    /\ pc' = "idle" /\ op' = None /\ todo' = {} /\ target' = 0 /\ cur' = None
    /\ held' = None
    /\ batch' = [t \in Table |-> EmptyBatch]
    /\ hist' = [t \in Table |-> Prefix(hist[t], mem[t].items)]

-----------------------------------------------------------------------------
(* ModifyAncients: the caller fills one batch per table                    *)

ModifyAncients ==
    /\ pc = "idle"
    /\ Goto("run") /\ op' = "modify"
    /\ batch' = [t \in Table |-> [EmptyBatch EXCEPT !.curItem = mem[t].items]]
    /\ safe' = frozen /\ asked' = tail
    /\ UNCHANGED <<fileVars, mem, frozen, tail, cur, todo, target, held, hist>>

\* The end of appendItem: p and its index entry go to the buffers, which
\* maybeCommit empties when they are full.
Buffer(t, p, m) ==
    LET b   == batch[t]
        end == m.headBytes + Len(b.data) + Size[t][p]
        d   == b.data \o Bytes(t, p)
    IN  /\ batch' = [batch EXCEPT ![t] =
                        [data |-> d, index |-> Append(b.index, Entry(m.headId, end)),
                         curItem |-> b.curItem + 1]]
        /\ hist' = [hist EXCEPT ![t] = Append(Prefix(@, b.curItem), p)]
        /\ IF Len(d) > BufferLimit
           THEN Goto("write") /\ cur' = t
           ELSE Goto("run") /\ cur' = None

\* Append or AppendRaw with the next number of table t.  The callers give all
\* tables the items of one block before those of the next.
AppendItem(t, p) ==
    /\ pc = "run" /\ batch[t].curItem < MaxItems
    /\ \A u \in Table : \/ batch[t].curItem = batch[u].curItem
                         \/ /\ batch[t].curItem < batch[u].curItem
                            /\ p = Last(hist[u])
    /\ IF mem[t].headBytes + Len(batch[t].data) + Size[t][p] > MaxFileSize
       THEN /\ Goto("write") /\ cur' = t /\ held' = p
            /\ UNCHANGED <<batch, hist>>
       ELSE Buffer(t, p, mem[t]) /\ UNCHANGED held
    /\ UNCHANGED <<fileVars, mem, frozen, tail, op, todo, target, safe, asked>>

\* Mutant: advanceHead takes over a file with the next number as it is.
BugAdvanceHead ==
    LET m == [mem[cur] EXCEPT !.headId = @ + 1, !.headBytes = 0,
                              !.files = @ \cup {mem[cur].headId + 1}]
    IN  /\ pc = "advance"
        /\ cache' = [cache EXCEPT ![cur].data = OpenForAppend(@, m.headId)]
        /\ disk' = [disk EXCEPT ![cur].data = SyncedData(cur, mem[cur].headId)]
        /\ mem' = [mem EXCEPT ![cur] = m]
        /\ Buffer(cur, held, m)
        /\ held' = None
        /\ UNCHANGED <<frozen, tail, op, todo, target, safe, asked>>

\* advanceHead, then the rest of appendItem for the item that did not fit.
AdvanceHead ==
    LET m == [mem[cur] EXCEPT !.headId = @ + 1, !.headBytes = 0,
                              !.files = @ \cup {mem[cur].headId + 1}]
    IN  /\ pc = "advance"
        /\ cache' = [cache EXCEPT ![cur].data = WithFile(@, m.headId, <<>>)]
        /\ disk' = [disk EXCEPT ![cur].data = SyncedData(cur, mem[cur].headId)]
        /\ mem' = [mem EXCEPT ![cur] = m]
        /\ Buffer(cur, held, m)
        /\ held' = None
        /\ UNCHANGED <<frozen, tail, op, todo, target, safe, asked>>

\* fn gives up, or leaves batches of different lengths, which CommitBatch
\* refuses: the deferred function rolls every table back.
ModifyError ==
    /\ pc = "run"
    /\ Begin("rollback", frozen)
    /\ held' = None
    /\ UNCHANGED <<fileVars, mem, batch, frozen, tail, ghosts>>

\* fn returns and freezerBatch.commit compares the lengths of the batches.
CommitBatch ==
    /\ pc = "run"
    /\ \A t, u \in Table : batch[t].curItem = batch[u].curItem
    /\ Begin("commit", 0)
    /\ UNCHANGED <<fileVars, mem, batch, frozen, tail, held, ghosts>>

-----------------------------------------------------------------------------
(* freezerTableBatch.commit, for a full buffer, an item that does not fit  *)
(* or the end of ModifyAncients                                            *)

Committing(t) == AtTable({"commit"}, t) \/ (pc = "write" /\ t = cur)

WriteData(t) ==
    /\ Committing(t)
    /\ cache' = [cache EXCEPT ![t].data[mem[t].headId] = @ \o batch[t].data]
    /\ Goto("index") /\ cur' = t
    /\ UNCHANGED <<disk, mem, batch, frozen, tail, op, todo, target, held, ghosts>>

\* Mutant: the data file is not synced before the index entries are written.
BugWriteIndex ==
    /\ pc = "index"
    /\ cache' = [cache EXCEPT ![cur].index = @ \o batch[cur].index]
    /\ Goto("count")
    /\ UNCHANGED <<disk, mem, batch, frozen, tail, op, cur, todo, target, held, ghosts>>

\* The data file is synced before the index entries are written.
WriteIndex ==
    LET f == mem[cur].headId
    IN  /\ pc = "index"
        /\ disk' = [disk EXCEPT ![cur].data = SyncedData(cur, f)]
        /\ cache' = [cache EXCEPT ![cur].index = @ \o batch[cur].index]
        /\ Goto("count")
        /\ UNCHANGED <<mem, batch, frozen, tail, op, cur, todo, target, held, ghosts>>

\* The index is synced, and only then do the counters show the items.
CountItems ==
    LET b == batch[cur]
    IN  /\ pc = "count"
        /\ disk' = [disk EXCEPT ![cur].index = cache[cur].index]
        /\ mem' = [mem EXCEPT ![cur].headBytes = @ + Len(b.data),
                              ![cur].items = b.curItem]
        /\ batch' = [batch EXCEPT ![cur] = [EmptyBatch EXCEPT !.curItem = b.curItem]]
        /\ CASE op = "commit" -> TableDone(cur)
             [] held # None -> Goto("advance") /\ UNCHANGED <<op, cur, todo, target>>
             [] OTHER -> Goto("run") /\ cur' = None /\ UNCHANGED <<op, todo, target>>
        /\ UNCHANGED <<cache, frozen, tail, held, ghosts>>

\* A write that stores nothing ends ModifyAncients with an error, also when
\* other tables are written already.
WriteError ==
    /\ (pc = "next" /\ op = "commit" /\ todo # {}) \/ pc = "write"
    /\ Begin("rollback", frozen) /\ held' = None
    /\ UNCHANGED <<fileVars, mem, batch, frozen, tail, ghosts>>

\* All tables are written: the new length is published.
CommitReturn ==
    /\ pc = "next" /\ op = "commit" /\ todo = {}
    /\ \E t \in Table : frozen' = mem[t].items /\ safe' = mem[t].items
    /\ Finish
    /\ UNCHANGED <<fileVars, mem, tail, asked>>

RollbackReturn ==
    /\ pc = "next" /\ op = "rollback" /\ todo = {}
    /\ Finish
    /\ UNCHANGED <<fileVars, mem, frozen, tail, safe, asked>>

-----------------------------------------------------------------------------
(* TruncateHead, the roll-back and the first half of Freezer.repair        *)

TruncateHead(n) ==
    /\ pc = "idle" /\ n < frozen
    /\ Begin("head", n)
    /\ safe' = (IF n < tail THEN frozen ELSE n) /\ asked' = tail
    /\ UNCHANGED <<fileVars, mem, batch, frozen, tail, held, hist>>

\* truncateHead is done with table t; Freezer.repair goes on with its tail.
HeadDone(t) ==
    IF op = "level" THEN Goto("tail") /\ cur' = t /\ UNCHANGED <<op, todo, target>>
                    ELSE TableDone(t)

\* truncateHead(target) of a table that is no longer than that.
HeadShort(t) ==
    /\ AtTable({"head", "rollback", "level"}, t)
    /\ mem[t].items <= target
    /\ HeadDone(t)
    /\ UNCHANGED <<fileVars, mem, batch, frozen, tail, held, ghosts>>

\* "truncation below tail": TruncateHead stops, a roll-back logs it, an
\* open fails.
HeadBelowTail(t) ==
    /\ AtTable({"head", "rollback", "level"}, t)
    /\ target < mem[t].items /\ target < mem[t].itemHidden
    /\ CASE op = "head" -> Finish
         [] op = "rollback" -> TableDone(t) /\ UNCHANGED <<held, batch, hist>>
         [] op = "level" -> OpenFails /\ UNCHANGED <<held, batch, hist>>
    /\ UNCHANGED <<fileVars, mem, frozen, tail, safe, asked>>

\* The index is cut first.
HeadIndex(t) ==
    /\ AtTable({"head", "rollback", "level"}, t)
    /\ mem[t].itemHidden <= target /\ target < mem[t].items
    /\ cache' = [cache EXCEPT ![t].index = Prefix(@, target - mem[t].itemOffset + 1)]
    /\ Goto("cut") /\ cur' = t
    /\ UNCHANGED <<disk, mem, batch, frozen, tail, op, todo, target, held, ghosts>>

\* It is synced, files after the new head are removed and the head is cut.
HeadData ==
    LET m     == mem[cur]
        e     == LastEntry(cache[cur].index, m.tailId)
        after == {f \in m.files : f > e.file}
        d     == OpenForAppend(WithoutFiles(cache[cur].data, after), e.file)
    IN  /\ pc = "cut"
        /\ disk' = [disk EXCEPT ![cur].index = cache[cur].index]
        /\ cache' = [cache EXCEPT ![cur].data = [d EXCEPT ![e.file] = Prefix(@, e.off)]]
        /\ mem' = [mem EXCEPT ![cur].headId = e.file,
                              ![cur].files = (@ \ after) \cup {e.file}]
        /\ Goto("cutdone")
        /\ UNCHANGED <<batch, frozen, tail, op, cur, todo, target, held, ghosts>>

\* The head is synced and the counters follow.
HeadCount ==
    LET f == mem[cur].headId
    IN  /\ pc = "cutdone"
        /\ disk' = [disk EXCEPT ![cur].data = SyncedData(cur, f)]
        /\ mem' = [mem EXCEPT ![cur].headBytes = Len(cache[cur].data[f]),
                              ![cur].items = target]
        /\ HeadDone(cur)
        /\ UNCHANGED <<cache, batch, frozen, tail, held, ghosts>>

TruncateHeadReturn ==
    /\ pc = "next" /\ op = "head" /\ todo = {}
    /\ frozen' = target
    /\ Finish
    /\ UNCHANGED <<fileVars, mem, tail, safe, asked>>

-----------------------------------------------------------------------------
(* TruncateTail and the second half of Freezer.repair                      *)

TruncateTail(n) ==
    /\ pc = "idle" /\ tail < n
    /\ Begin("tail", n)
    /\ safe' = frozen /\ asked' = (IF n <= frozen THEN n ELSE tail)
    /\ UNCHANGED <<fileVars, mem, batch, frozen, tail, held, hist>>

\* The table truncateTail works on, and the tail it is given.
AtTail(t) == AtTable({"tail"}, t) \/ (pc = "tail" /\ t = cur)
NewTail == IF op = "tail" THEN target ELSE Max({mem[t].itemHidden : t \in Table})

\* The file of the item that becomes the first one.
NewTailId(t, n) ==
    IF mem[t].items = n THEN mem[t].headId
                        ELSE cache[t].index[n - mem[t].itemOffset + 2].file

\* The items below n that are stored in the file of item n stay on disk.
NewDeleted(t, n) ==
    LET m == mem[t]
        InFile(k) == cache[t].index[k - m.itemOffset + 2].file = NewTailId(t, n)
    IN  Min({n} \cup {d \in m.itemOffset .. n - 1 : \A k \in d .. n - 1 : InFile(k)})

TailReached(t) ==
    /\ AtTail(t) /\ NewTail <= mem[t].itemHidden
    /\ TableDone(t)
    /\ UNCHANGED <<fileVars, mem, batch, frozen, tail, held, ghosts>>

\* "truncation above head".
TailAboveHead(t) ==
    /\ AtTail(t) /\ mem[t].itemHidden < NewTail /\ mem[t].items < NewTail
    /\ IF op = "tail" THEN Finish ELSE OpenFails /\ UNCHANGED <<held, batch, hist>>
    /\ UNCHANGED <<fileVars, mem, frozen, tail, safe, asked>>

\* The new tail goes to the metadata file, unsynced; unless a data file gets
\* free that is all.
TailMeta(t) ==
    /\ AtTail(t) /\ mem[t].itemHidden < NewTail /\ NewTail <= mem[t].items
    /\ mem' = [mem EXCEPT ![t].itemHidden = NewTail]
    /\ cache' = [cache EXCEPT ![t].meta = NewTail]
    /\ IF mem[t].tailId = NewTailId(t, NewTail)
       THEN TableDone(t)
       ELSE Goto("rename") /\ cur' = t /\ UNCHANGED <<op, todo, target>>
    /\ UNCHANGED <<disk, batch, frozen, tail, held, ghosts>>

\* The metadata is synced, then copyFrom replaces the index.
TailIndex ==
    LET n == mem[cur].itemHidden
        first == NewDeleted(cur, n)
    IN  /\ pc = "rename"
        /\ disk' = [disk EXCEPT ![cur].meta = cache[cur].meta]
        /\ cache' = [cache EXCEPT ![cur].index =
                        <<Entry(NewTailId(cur, n), first)>>
                            \o SubSeq(@, first - mem[cur].itemOffset + 2, Len(@))]
        /\ Goto("drop")
        /\ UNCHANGED <<mem, batch, frozen, tail, op, cur, todo, target, held, ghosts>>

\* The new index is synced and the files before the tail are removed.
TailFiles ==
    LET e      == cache[cur].index[1]
        before == {f \in mem[cur].files : f < e.file}
    IN  /\ pc = "drop"
        /\ disk' = [disk EXCEPT ![cur].index = cache[cur].index]
        /\ mem' = [mem EXCEPT ![cur].tailId = e.file, ![cur].itemOffset = e.off,
                              ![cur].files = @ \ before]
        /\ cache' = [cache EXCEPT ![cur].data = WithoutFiles(@, before)]
        /\ TableDone(cur)
        /\ UNCHANGED <<batch, frozen, tail, held, ghosts>>

TruncateTailReturn ==
    /\ pc = "next" /\ op = "tail" /\ todo = {}
    /\ tail' = target
    /\ Finish
    /\ UNCHANGED <<fileVars, mem, frozen, safe, asked>>

-----------------------------------------------------------------------------
(* Crash, and NewFreezer with the repair of each table                     *)

NoMemory ==
    /\ mem' = [t \in Table |-> ClosedTable]
    /\ batch' = [t \in Table |-> EmptyBatch]
    /\ frozen' = 0 /\ tail' = 0
    /\ pc' = "down" /\ op' = None /\ cur' = None /\ todo' = {} /\ target' = 0
    /\ held' = None

\* The number after the last item an index knows.
Stored(index) == IF index = <<>> THEN 0 ELSE index[1].off + Len(index) - 1

\* The ghosts forget items and tails of which nothing is left.
Crash ==
    /\ pc \notin {"down", "failed"}
    /\ cache' \in Picks([t \in Table |-> FilesLeft(disk[t], cache[t])])
    /\ disk' = cache'
    /\ NoMemory
    /\ hist' = [t \in Table |-> Prefix(hist[t], Stored(cache'[t].index))]
    /\ asked' = Min({asked, Max({cache'[t].meta : t \in Table})})
    /\ UNCHANGED safe

\* Close syncs the index, the metadata and the head file of each table.
Close ==
    /\ pc = "idle"
    /\ disk' = cache
    /\ NoMemory
    /\ UNCHANGED <<cache, ghosts>>

\* The loss of synced data that repair is prepared for: the end of the last
\* data file is gone, down to no item that is hidden.  No item is promised then.
DataLoss(t) ==
    LET index == cache[t].index
        f == LastEntry(index, index[1].file).file
        Kept(k) == Cardinality({i \in 2 .. Len(index) : index[i].file # f \/ index[i].off <= k})
    IN  /\ pc = "down" /\ Len(index) > 1 /\ safe > 0
        /\ \E k \in 0 .. Len(cache[t].data[f]) - 1 :
               /\ \A u \in Table : cache[u].meta <= index[1].off + Kept(k)
               /\ cache' = [cache EXCEPT ![t].data[f] = Prefix(@, k)]
        /\ disk' = cache'
        /\ safe' = 0
        /\ UNCHANGED <<mem, batch, frozen, tail, pc, op, cur, todo, target, held,
                       hist, asked>>

\* Freezer.Sync, which needs only the locks of the tables.
Sync(t) ==
    LET f == mem[t].headId
    IN  /\ pc \in {"idle", "run"}
        /\ disk' = [disk EXCEPT ![t] = [index |-> cache[t].index, meta |-> cache[t].meta,
                                        data |-> SyncedData(t, f)]]
        /\ UNCHANGED <<cache, mem, batch, frozen, tail, pc, op, cur, todo, target,
                       held, ghosts>>

NewFreezer ==
    /\ pc = "down"
    /\ Begin("open", 0)
    /\ UNCHANGED <<fileVars, mem, batch, frozen, tail, held, ghosts>>

\* repair of table t: the first entry gives the tail, the metadata the hidden
\* items, and the file of the last entry is the head.
OpenTable(t) ==
    LET index == IF cache[t].index = <<>> THEN <<Entry(0, 0)>> ELSE cache[t].index
        first == index[1]
        hidden == Max({cache[t].meta, first.off})
        head  == LastEntry(index, first.file).file
    IN  /\ AtTable({"open"}, t)
        /\ cache' = [cache EXCEPT ![t] = [index |-> index, meta |-> hidden,
                                          data |-> OpenForAppend(@.data, head)]]
        /\ mem' = [mem EXCEPT ![t] = [ClosedTable EXCEPT !.tailId = first.file,
                        !.itemOffset = first.off, !.itemHidden = hidden,
                        !.headId = head, !.files = {head}]]
        /\ Goto("repair") /\ cur' = t
        /\ UNCHANGED <<disk, batch, frozen, tail, op, todo, target, held, ghosts>>

\* The entry the head file must end at, and where it does end.
Expected == LastEntry(cache[cur].index, mem[cur].tailId)
ContentSize == Len(cache[cur].data[mem[cur].headId])

\* "Truncating dangling head".
RepairData ==
    /\ pc = "repair" /\ Expected.off < ContentSize
    /\ cache' = [cache EXCEPT ![cur].data[mem[cur].headId] = Prefix(@, Expected.off)]
    /\ UNCHANGED <<disk, mem, batch, frozen, tail, pc, op, cur, todo, target, held,
                   ghosts>>

\* "Truncating dangling indexes", which may slip back to an earlier file.
RepairIndex ==
    LET index == Front(cache[cur].index)
        head  == LastEntry(index, mem[cur].tailId).file
        moved == head # mem[cur].headId
    IN  /\ pc = "repair" /\ ContentSize < Expected.off
        /\ cache' = [cache EXCEPT ![cur].index = index,
                                  ![cur].data = OpenForAppend(@, head)]
        /\ mem' = [mem EXCEPT ![cur].headId = head,
                              ![cur].files = IF moved THEN {head} ELSE @]
        /\ UNCHANGED <<disk, batch, frozen, tail, pc, op, cur, todo, target, held, ghosts>>

\* Both agree: everything is synced, the counters are set and preopen opens
\* the files from the tail to the head, all but the head read-only.
RepairDone ==
    LET m == mem[cur]
        c == cache[cur]
        needed == m.tailId .. m.headId
    IN  /\ pc = "repair" /\ Expected.off = ContentSize
        /\ disk' = [disk EXCEPT ![cur] = [index |-> c.index, meta |-> c.meta,
                        data |-> SyncedData(cur, m.headId)]]
        /\ mem' = [mem EXCEPT ![cur].items = m.itemOffset + Len(c.index) - 1,
                              ![cur].headBytes = ContentSize,
                              ![cur].files = needed]
        /\ IF needed \subseteq DOMAIN c.data THEN TableDone(cur) ELSE OpenFails
        /\ UNCHANGED <<cache, batch, frozen, tail, held, ghosts>>

\* Freezer.repair takes the shortest head.
Level ==
    /\ pc = "next" /\ op = "open" /\ todo = {}
    /\ Begin("level", Min({mem[t].items : t \in Table}))
    /\ UNCHANGED <<fileVars, mem, batch, frozen, tail, held, ghosts>>

LevelReturn ==
    /\ pc = "next" /\ op = "level" /\ todo = {}
    /\ frozen' = target
    /\ tail' = NewTail
    /\ Finish
    /\ UNCHANGED <<fileVars, mem, safe, asked>>

-----------------------------------------------------------------------------
Commit ==
    \/ \E t \in Table : WriteData(t)
    \/ WriteIndex \/ CountItems \/ WriteError \/ CommitReturn \/ RollbackReturn

TruncateHeadSteps ==
    \/ \E t \in Table : HeadShort(t) \/ HeadBelowTail(t) \/ HeadIndex(t)
    \/ HeadData \/ HeadCount \/ TruncateHeadReturn

TruncateTailSteps ==
    \/ \E t \in Table : TailReached(t) \/ TailAboveHead(t) \/ TailMeta(t)
    \/ TailIndex \/ TailFiles \/ TruncateTailReturn

Open ==
    \/ \E t \in Table : OpenTable(t)
    \/ NewFreezer \/ RepairData \/ RepairIndex \/ RepairDone \/ Level \/ LevelReturn

Next ==
    \/ ModifyAncients \/ AdvanceHead \/ ModifyError \/ CommitBatch \/ Commit
    \/ \E t \in Table, p \in Payload : AppendItem(t, p)
    \/ \E n \in 0 .. MaxItems : TruncateHead(n) \/ TruncateTail(n)
    \/ TruncateHeadSteps \/ TruncateTailSteps \/ Open \/ Crash \/ Close
    \/ \E t \in Table : Sync(t) \/ DataLoss(t)

Spec == Init /\ [][Next]_vars

-----------------------------------------------------------------------------
(* Properties                                                              *)

\* truncateHead, truncateTail and advanceHead hold the lock of their table.
Locked(t) == t = cur /\ pc \in {"cut", "cutdone", "rename", "drop", "repair"}

\* A reader that gets the lock of a table at any moment, between the steps of
\* a commit too, finds every item the counters promise, with the content that
\* was written last under its number.
ItemsReadable ==
    \A t \in Table : Locked(t) \/
        \A n \in mem[t].itemHidden .. mem[t].items - 1 : Readable(t, n)

\* When no writer is at work the tables agree with each other and with the
\* freezer, no acknowledged item is lost, whatever crashes came between, and
\* no item is hidden that TruncateTail was not asked to hide.  NewFreezer
\* never finds files it cannot repair.
TablesAgree ==
    /\ pc # "failed"
    /\ pc = "idle" =>
         /\ safe <= frozen /\ tail <= asked
         /\ \A t \in Table : mem[t].items = frozen /\ mem[t].itemHidden = tail

=============================================================================
