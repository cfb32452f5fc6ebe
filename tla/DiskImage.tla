------------------------------ MODULE DiskImage -----------------------------
(***************************************************************************)
(* Image files, in two independent parts: qcow2 (QcowNew, QcowNext), and   *)
(* VHDX (VhdxNew, VhdxNext).                                               *)
(***************************************************************************)
EXTENDS Integers, Sequences, FiniteSets, SequencesExt

CONSTANTS
    L1Size, L2Entries,   \* virtual clusters: L1Size * L2Entries
    BlockEntries,        \* reference counts in a block
    RefTable,            \* blocks in the reference count table
    L2Cap, BlockCap,     \* capacity of the two caches
    Uses,                \* sets of what happens: "discard" by the guest, "crash" of the host
    TablesTogether,      \* a crash keeps both or none of the L1 and the count table
    Lazy,                \* the image is opened with lazy reference counts
    MaxOps,
    Blocks, BlockUnits, LogicalUnits, ChunkRatio,
    Presents,        \* the sets of blocks the image may have at first
    InBlocks,        \* the guest first writes a block at its start
    Segments,        \* a request may have two buffers
    Durable,         \* what was written survives a crash of the host
    FirstSeqs,       \* sequence numbers of the two headers at first
    MaxVhdxOps, MaxCrashes

VARIABLES dev, guest, host

-----------------------------------------------------------------------------
(***************************************************************************)
(* A qcow2 image written through its caches (qcow/src/qcow.rs,             *)
(* qcow/src/refcount.rs, qcow/src/vec_cache.rs): clusters are allocated,   *)
(* modified tables go to new clusters, a flush writes the tables in the    *)
(* order that keeps the file valid, and a crash of the host keeps any      *)
(* subset of what was written since the last sync.                         *)
(*                                                                         *)
(* dev is the QcowFile, host the file (what is written and what is on      *)
(* disk), guest what was written to each virtual cluster.  The content of  *)
(* a cluster is a sequence of words, missing ones being zero; data is one  *)
(* word.  Every request holds the lock of the image, so it is one step.    *)
(***************************************************************************)

qcowVars == <<dev, guest, host>>

Virtual == 0..(L1Size * L2Entries - 1)
MaxIndex == RefTable * BlockEntries - 1     \* max_valid_cluster_offset
Clusters == 0..MaxIndex
Header == 0
L1At == 1
RefAt == 2
Word(content, i) == IF i + 1 \in DOMAIN content THEN content[i + 1] ELSE 0
Table(content, n) == [i \in 1..n |-> Word(content, i - 1)]
Zeros(n) == Table(<<>>, n)
Ascending(S) == SelectSeq([i \in 1..(MaxIndex + 1) |-> i - 1], LAMBDA c : c \in S)
DropLast(seq) == SubSeq(seq, 1, Len(seq) - 1)

\* A request computes on what the image is and on the file.
Put(s, c, content) == [s EXCEPT !.host.vol[c] = content]
Fail(s) == [s EXCEPT !.err = TRUE]

-----------------------------------------------------------------------------
(* The caches: a full one first writes out the entry it evicts.            *)

Evict(s, cache, cap, at) ==
    IF Cardinality(DOMAIN s.dev[cache]) < cap THEN s
    ELSE LET e == CHOOSE i \in DOMAIN s.dev[cache] : TRUE
             t == IF s.dev[cache][e].dirty THEN Put(s, at[e + 1], s.dev[cache][e].words) ELSE s
         IN [t EXCEPT !.dev[cache] = [i \in (DOMAIN @) \ {e} |-> @[i]]]

Insert(s, cache, i, words, dirty) ==
    [s EXCEPT !.dev[cache] =
        [k \in (DOMAIN @) \cup {i} |->
            IF k = i THEN [words |-> words, dirty |-> dirty] ELSE @[k]]]

insert_l2(s, i, words, dirty) == Insert(Evict(s, "l2", L2Cap, s.dev.l1), "l2", i, words, dirty)
insert_block(s, i, words, dirty) == Insert(Evict(s, "rb", BlockCap, s.dev.rt), "rb", i, words, dirty)

read_l2_cluster(s, i) == Table(s.host.vol[s.dev.l1[i + 1]], L2Entries)
read_refcount_block(s, i) == Table(s.host.vol[s.dev.rt[i + 1]], BlockEntries)

CachedL2(s, i) == IF i \in DOMAIN s.dev.l2 \/ s.dev.l1[i + 1] = 0 THEN s
                  ELSE insert_l2(s, i, read_l2_cluster(s, i), FALSE)

-----------------------------------------------------------------------------
(* Allocation and reference counts.                                        *)

\* The new cluster is c; 0 means there is none.
get_new_cluster(s) ==
    CASE s.dev.avail # <<>> ->
            LET c == Last(s.dev.avail)
            IN [Put(s, c, <<>>) EXCEPT !.dev.avail = DropLast(@), !.c = c]
      [] s.dev.avail = <<>> /\ s.host.len <= MaxIndex ->
            [s EXCEPT !.host.len = @ + 1, !.c = s.host.len]
      [] OTHER -> [Fail(s) EXCEPT !.c = 0]

SetTable(s, i, c) == [s EXCEPT !.dev.rt[i + 1] = c, !.dev.rtDirty = TRUE]

\* A block of counts that is not yet modified goes to a new cluster, and the
\* old one is dropped; the counts of the clusters added are set in turn.
RECURSIVE set_cluster_refcount(_, _, _, _)
set_cluster_refcount(s, c, n, keep) ==
    LET i == c \div BlockEntries
        Set(t) == [t EXCEPT !.dev.rb[i].words[(c % BlockEntries) + 1] = n, !.dev.rb[i].dirty = TRUE]
        Added(t, dropped) ==
            LET a == t.c
                u == set_cluster_refcount(Set(t), a, 1, FALSE)
            IN IF keep THEN [u EXCEPT !.dev.unref = @ \o dropped] ELSE u
        loaded == IF i \in DOMAIN s.dev.rb \/ s.dev.rt[i + 1] = 0 THEN s
                  ELSE insert_block(SetTable(s, i, s.dev.rt[i + 1]), i, read_refcount_block(s, i), FALSE)
        new == get_new_cluster(loaded)
    IN CASE s.err -> s
         [] ~ s.err /\ i \in DOMAIN loaded.dev.rb /\ loaded.dev.rb[i].dirty -> Set(loaded)
         [] ~ s.err /\ ~ (i \in DOMAIN loaded.dev.rb /\ loaded.dev.rb[i].dirty) ->
                IF new.err THEN new
                ELSE IF i \notin DOMAIN loaded.dev.rb
                THEN Added(insert_block(SetTable(new, i, new.c), i, Zeros(BlockEntries), TRUE), <<>>)
                ELSE Added([SetTable(new, i, new.c) EXCEPT !.dev.rb[i].dirty = TRUE],
                           << loaded.dev.rt[i + 1] >>)

get_cluster_refcount(s, c) ==
    LET i == c \div BlockEntries
        words == IF s.dev.rt[i + 1] = 0 THEN <<>>
                 ELSE IF i \in DOMAIN s.dev.rb THEN s.dev.rb[i].words
                 ELSE read_refcount_block(s, i)
    IN Word(words, c % BlockEntries)

append_data_cluster(s) ==
    LET t == get_new_cluster(s)
    IN IF t.err THEN t ELSE [set_cluster_refcount(t, t.c, 1, TRUE) EXCEPT !.c = t.c]

\* Modified tables are written to new clusters; counts is the list of the
\* counts to set afterwards.
\* Mutant: the table is modified where it is.
update_cluster_addr_in_place(s, i, j, c) ==
    [s EXCEPT !.dev.l2[i].words[j + 1] = c, !.dev.l2[i].dirty = TRUE]

update_cluster_addr(s, i, j, c) ==
    LET old == s.dev.l1[i + 1]
        freed == IF old = 0 THEN s
                 ELSE [s EXCEPT !.dev.unref = Append(@, old), !.counts = Append(@, <<old, 0>>)]
        new == get_new_cluster(freed)
        moved == IF s.dev.l2[i].dirty THEN s
                 ELSE IF new.err THEN new
                 ELSE [new EXCEPT !.counts = Append(@, <<new.c, 1>>),
                                  !.dev.l1[i + 1] = new.c, !.dev.l1Dirty = TRUE]
    IN IF moved.err THEN moved
       ELSE [moved EXCEPT !.dev.l2[i].words[j + 1] = c, !.dev.l2[i].dirty = TRUE]

SetCounts(s) ==
    LET Step(t, p) == set_cluster_refcount(t, p[1], p[2], TRUE)
    IN [FoldLeft(Step, s, s.counts) EXCEPT !.counts = <<>>]

\* The table that maps virtual cluster v, allocated if need be.
TableForWrite(s, i) ==
    LET new == get_new_cluster(s)
    IN IF i \in DOMAIN s.dev.l2 \/ s.dev.l1[i + 1] # 0 THEN CachedL2(s, i)
       ELSE IF new.err THEN new
       ELSE insert_l2([new EXCEPT !.counts = Append(@, <<new.c, 1>>),
                                  !.dev.l1[i + 1] = new.c, !.dev.l1Dirty = TRUE],
                      i, Zeros(L2Entries), TRUE)

file_offset_write(s, v) ==
    LET i == v \div L2Entries
        j == v % L2Entries
        t == TableForWrite(s, i)
        data == append_data_cluster(t)
        u == IF data.err THEN data ELSE update_cluster_addr(data, i, j, data.c)
        done == SetCounts(u)
    IN CASE t.err -> t
         [] ~ t.err /\ t.dev.l2[i].words[j + 1] # 0 ->
                [SetCounts(t) EXCEPT !.c = t.dev.l2[i].words[j + 1]]
         [] ~ t.err /\ t.dev.l2[i].words[j + 1] = 0 ->
                IF u.err THEN u ELSE [done EXCEPT !.c = data.c]

\* The entry is cleared in the cached table, which keeps its cluster.
deallocate_cluster(s, v) ==
    LET i == v \div L2Entries
        j == v % L2Entries
        t == CachedL2(s, i)
        c == t.dev.l2[i].words[j + 1]
        u == set_cluster_refcount(t, c, get_cluster_refcount(t, c) - 1, TRUE)
    IN CASE s.dev.l1[i + 1] = 0 -> s
         [] s.dev.l1[i + 1] # 0 /\ c = 0 -> t
         [] s.dev.l1[i + 1] # 0 /\ c # 0 /\ get_cluster_refcount(t, c) = 0 -> Fail(t)
         [] OTHER ->
                Put([u EXCEPT !.dev.l2[i].words[j + 1] = 0, !.dev.l2[i].dirty = TRUE,
                              !.dev.unref = Append(@, c)], c, <<>>)

-----------------------------------------------------------------------------
(* Flush.                                                                  *)

Cleaned(cache) == [i \in DOMAIN cache |-> [cache[i] EXCEPT !.dirty = FALSE]]
DirtyAt(cache, at, c) == {i \in DOMAIN cache : cache[i].dirty /\ at[i + 1] = c}

\* The dirty tables, then everything is synced.
flush_blocks(s) ==
    LET Written(c) ==
            LET l == DirtyAt(s.dev.l2, s.dev.l1, c)
                b == DirtyAt(s.dev.rb, s.dev.rt, c)
            IN IF b # {} THEN s.dev.rb[CHOOSE i \in b : TRUE].words
               ELSE IF l # {} THEN s.dev.l2[CHOOSE i \in l : TRUE].words
               ELSE s.host.vol[c]
    IN [s EXCEPT !.host.vol = [c \in Clusters |-> Written(c)],
                 !.dev.l2 = Cleaned(@), !.dev.rb = Cleaned(@)]

Synced(s) == [s EXCEPT !.host.dur = s.host.vol]

\* Then the two tables that point to them.
flush_table(s) ==
    LET a == IF s.dev.l1Dirty THEN Put(s, L1At, s.dev.l1) ELSE s
        b == IF s.dev.rtDirty THEN Put(a, RefAt, s.dev.rt) ELSE a
    IN [b EXCEPT !.dev.l1Dirty = FALSE, !.dev.rtDirty = FALSE]

sync_caches(s) == Synced(flush_table(Synced(flush_blocks(s))))

-----------------------------------------------------------------------------
(* Opening the file.                                                       *)

\* The clusters the L1 table of a file leads to.
set_data_refcounts(content) ==
    LET l2s == {Word(content[L1At], i) : i \in 0..(L1Size - 1)} \ {0}
    IN l2s \cup UNION {{Word(content[t], j) : j \in 0..(L2Entries - 1)} \ {0} : t \in l2s}

div_round_up(a, b) == (a + b - 1) \div b

\* The first clusters in no use hold the new blocks of counts.
alloc_refblocks(used, refblocks) ==
    SubSeq(Ascending(Clusters \ used), 1, div_round_up(refblocks, L2Entries))

write_refblocks(content, used, blocks) ==
    LET Block(k) == [j \in 1..BlockEntries |->
                        IF (k - 1) * BlockEntries + j - 1 \in used THEN 1 ELSE 0]
    IN [c \in Clusters |->
            CASE c = RefAt -> [i \in 1..RefTable |-> IF i \in DOMAIN blocks THEN blocks[i]
                                                     ELSE Word(content[RefAt], i - 1)]
              [] c \in ToSet(blocks) -> Block(CHOOSE k \in DOMAIN blocks : blocks[k] = c)
              [] OTHER -> content[c]]

\* The counts are made anew from the L1 table.
rebuild_refcounts(content) ==
    LET used == {Header, L1At, RefAt} \cup set_data_refcounts(content)
        blocks == alloc_refblocks(used, RefTable)
    IN write_refblocks(content, used \cup ToSet(blocks), blocks)

RebuildRequired(content) ==
    \/ Word(content[RefAt], 0) = 0
    \/ Word(content[Word(content[RefAt], 0)], Header) = 0

CountIn(content, c) ==
    LET b == Word(content[RefAt], c \div BlockEntries)
    IN IF b = 0 THEN 0 ELSE Word(content[b], c % BlockEntries)

\* What has no count is available.
find_avail_clusters(content, len) == Ascending({c \in 0..(len - 1) : CountIn(content, c) = 0})

QcowOpened(content, len, lazy) ==
    LET vol == IF lazy \/ RebuildRequired(content) THEN rebuild_refcounts(content) ELSE content
        last == Max({len} \cup {c + 1 : c \in {d \in Clusters : vol[d] # <<>>}})
    IN [dev |-> [l1 |-> Table(vol[L1At], L1Size), l1Dirty |-> FALSE, l2 |-> <<>>,
                 rt |-> Table(vol[RefAt], RefTable), rtDirty |-> FALSE, rb |-> <<>>,
                 unref |-> <<>>, avail |-> find_avail_clusters(vol, last)],
        host |-> [vol |-> vol, dur |-> vol, len |-> last],
        c |-> 0, counts |-> <<>>, err |-> FALSE]

Now == [dev |-> dev, host |-> host, c |-> 0, counts |-> <<>>, err |-> FALSE]
Become(s) == dev' = s.dev /\ host' = s.host

\* What a read returns: through the caches, or zeros.
file_offset_read(s, v) ==
    LET i == v \div L2Entries
        table == IF s.dev.l1[i + 1] = 0 THEN Zeros(L2Entries)
                 ELSE IF i \in DOMAIN s.dev.l2 THEN s.dev.l2[i].words
                 ELSE read_l2_cluster(s, i)
    IN table[(v % L2Entries) + 1]

Content(s, v) == IF file_offset_read(s, v) = 0 THEN <<>> ELSE s.host.vol[file_offset_read(s, v)]

\* An image made by another tool, or an empty one: with one table and one data
\* cluster, and a block of counts for them.
Image(data) ==
    [c \in Clusters |->
        CASE c = L1At /\ data -> <<4>>
          [] c = RefAt -> <<3>>
          [] c = 3 -> [k \in 1..BlockEntries |-> IF k - 1 <= (IF data THEN 5 ELSE 3) THEN 1 ELSE 0]
          [] c = 4 /\ data -> <<5>>
          [] c = 5 /\ data -> <<99>>
          [] OTHER -> <<>>]

QcowNew ==
    \E data \in BOOLEAN, uses \in Uses :
        LET s == QcowOpened(Image(data), IF data THEN 6 ELSE 4, Lazy)
            first == [v \in Virtual |-> IF data /\ v = 0 THEN <<99>> ELSE <<>>]
        IN /\ dev = s.dev /\ host = s.host
           /\ guest = [now |-> first, may |-> [v \in Virtual |-> {first[v]}], ops |-> 0,
                      uses |-> uses]

-----------------------------------------------------------------------------

\* A write of the guest; one that fails leaves the cluster as it was.
write(v) ==
    LET s == file_offset_write(Now, v)
        value == << guest.ops + 1 >>
    IN /\ guest.ops < MaxOps
       /\ Become(IF s.err THEN s ELSE Put(s, s.c, value))
       /\ guest' = IF s.err THEN [guest EXCEPT !.ops = @ + 1]
                   ELSE [guest EXCEPT !.ops = @ + 1, !.now[v] = value, !.may[v] = @ \cup {value}]

\* A read may fill the cache.
read(v) ==
    LET s == CachedL2(Now, v \div L2Entries)
    IN s # Now /\ Become(s) /\ UNCHANGED guest

punch_hole(v) ==
    LET s == deallocate_cluster(Now, v)
    IN /\ "discard" \in guest.uses /\ guest.ops < MaxOps
       /\ Become(s)
       /\ guest' = IF s.err THEN [guest EXCEPT !.ops = @ + 1]
                   ELSE [guest EXCEPT !.ops = @ + 1, !.now[v] = <<>>, !.may[v] = @ \cup { <<>> }]

\* The freed clusters are available once the file no longer refers to them.
flush ==
    LET s == sync_caches(Now)
    IN /\ guest.ops < MaxOps
       /\ Become([s EXCEPT !.dev.avail = @ \o s.dev.unref, !.dev.unref = <<>>])
       /\ guest' = [guest EXCEPT !.ops = @ + 1, !.may = [v \in Virtual |-> {guest.now[v]}]]

\* The host stops: of what was written since the last sync, at any point of a
\* flush or before one, any part is on disk.  The image is opened again.
Kept(s, keep) == [c \in Clusters |-> IF c \in keep THEN s.host.vol[c] ELSE s.host.dur[c]]
Unsynced(s) == {c \in Clusters : s.host.vol[c] # s.host.dur[c]}

Restarted(content) ==
    LET s == QcowOpened(content, host.len, FALSE)
    IN /\ Become(s)
       /\ guest' = [guest EXCEPT !.uses = @ \ {"crash"}, !.now = [v \in Virtual |-> Content(s, v)]]

Crash ==
    /\ "crash" \in guest.uses
    /\ \/ LET s == flush_blocks(Now)
          IN \E keep \in SUBSET Unsynced(s) : Restarted(Kept(s, keep))
       \/ LET s == flush_table(Synced(flush_blocks(Now)))
          IN \E keep \in IF TablesTogether THEN {Unsynced(s)} ELSE SUBSET Unsynced(s) :
                Restarted(Kept(s, keep))

QcowNext ==
    \/ \E v \in Virtual : write(v)
    \/ \E v \in Virtual : read(v)
    \/ \E v \in Virtual : punch_hole(v)
    \/ flush
    \/ Crash

QcowSpec == QcowNew /\ [][QcowNext]_qcowVars

-----------------------------------------------------------------------------
\* What the guest reads is what it wrote last, whatever was evicted, moved or
\* freed in between; after a crash, what it flushed or wrote since.
ReadsWhatWasWritten ==
    \A v \in Virtual : /\ Content(Now, v) = guest.now[v]
                       /\ guest.now[v] \in guest.may[v]

\* The references of the image as it is in memory.
References ==
    {<<"l2", i>> : i \in {k \in 0..(L1Size - 1) : dev.l1[k + 1] # 0}}
      \cup {<<"data", v>> : v \in {w \in Virtual : file_offset_read(Now, w) # 0}}
      \cup {<<"block", i>> : i \in {k \in 0..(RefTable - 1) : dev.rt[k + 1] # 0}}

TargetOf(r) == CASE r[1] = "l2" -> dev.l1[r[2] + 1]
                 [] r[1] = "data" -> file_offset_read(Now, r[2])
                 [] r[1] = "block" -> dev.rt[r[2] + 1]

\* No cluster is used twice, and none that is used is free to be given out,
\* now or after the next flush.
NoClusterUsedTwice ==
    /\ \A q, r \in References : q # r => TargetOf(q) # TargetOf(r)
    /\ \A r \in References : /\ TargetOf(r) \notin {Header, L1At, RefAt}
                             /\ TargetOf(r) \notin ToSet(dev.avail) \cup ToSet(dev.unref)
                             /\ get_cluster_refcount(Now, TargetOf(r)) = 1

\* "Writing modified counts to new blocks keeps the on-disk state consistent
\* even if it's out of date" (refcount.rs, set_cluster_refcount): on disk, what
\* the L1 table leads to is counted.
DiskIsConsistent == \A c \in set_data_refcounts(host.dur) : CountIn(host.dur, c) > 0

-----------------------------------------------------------------------------
(***************************************************************************)
(* A VHDX image (vhdx/src/) under requests of the guest: the block         *)
(* allocation table (BAT), blocks added at the end of the file, the two    *)
(* headers of which one is always to be valid, and a VMM or a host that    *)
(* stops in between.                                                       *)
(*                                                                         *)
(* dev is the Vhdx structure, host the file, guest what it wrote.  The     *)
(* file and the disk are counted in units of 512 bytes (SECTOR_SIZE); a    *)
(* logical sector is LogicalUnits of them, a block BlockUnits, and the     *)
(* smallest block size is BlockUnits too.  A request holds the lock of the *)
(* image, so it is one step.                                               *)
(***************************************************************************)

vhdxVars == <<dev, guest, host>>

Units == 0..(Blocks * BlockUnits - 1)
FileSize == (2 * Blocks + 2) * BlockUnits
NotPresent == 0
FullyPresent == 6
Absent == [state |-> NotPresent, at |-> 0]

vhdx_div_round_up(a, b) == (a + b - 1) \div b

\* The BAT has an entry for a bitmap after every ChunkRatio blocks.
calculate_entries == Blocks + (Blocks - 1) \div ChunkRatio
EntryOf(b) == b + b \div ChunkRatio

align(n, a) == IF a > n THEN a ELSE ((n \div a) + (n % a)) * a

-----------------------------------------------------------------------------
(* The headers.                                                            *)

Seq0(h, i) == IF h[i].valid THEN h[i].seq ELSE 0

\* The header in use; the program stops if it is not a valid one.
current_header(h) == IF Seq0(h, 1) >= Seq0(h, 2) THEN 1 ELSE 2

\* Mutant: the header in use is written over.
update_header_current(h) ==
    LET c == current_header(h)
    IN [h EXCEPT ![c] = [seq |-> h[c].seq + 1, valid |-> TRUE]]

\* The other header becomes the current one.
update_header(h) ==
    LET c == current_header(h)
    IN [h EXCEPT ![3 - c] = [seq |-> h[c].seq + 1, valid |-> TRUE]]

update_headers(h) == update_header(update_header(h))

\* What the file may hold when the update stops midway: the header that is
\* being written is not valid, or both are when the disk orders nothing.
Torn(old, new) == [i \in 1..2 |-> IF new[i] # old[i] THEN [new[i] EXCEPT !.valid = FALSE] ELSE old[i]]
Stopped(h) ==
    LET one == update_header(h)
        two == update_header(one)
    IN {h, Torn(h, one), one, Torn(one, two), two} \cup (IF Durable THEN {} ELSE {Torn(h, two)})

-----------------------------------------------------------------------------
(* Requests.                                                               *)

\* The parts of a request that lie in one block each: the entry of the BAT,
\* the unit in the block, the number of sectors, and the place in the buffer,
\* which is the length of the part before it.
RECURSIVE Parts(_, _, _)
Parts(sector, count, pos) ==
    IF count = 0 THEN <<>>
    ELSE LET perBlock == BlockUnits \div LogicalUnits
             off == sector % perBlock
             free == Min({perBlock - off, count})
         IN << [index |-> sector \div perBlock, off |-> off * LogicalUnits, n |-> free, pos |-> pos] >>
              \o Parts(sector + free, count - free, free * LogicalUnits)

PartsOf(unit, len) == Parts(unit \div LogicalUnits, vhdx_div_round_up(len, LogicalUnits), 0)

\* n sectors of the buffer are written at unit at of the file: n units of it.
Store(s, at, p, buf) ==
    [s EXCEPT !.host.data = [u \in DOMAIN @ |->
        IF u \in at..(at + p.n - 1) THEN buf[p.pos + u - at] ELSE @[u]]]

WritePart(s, p, buf) ==
    LET e == s.dev.bat[p.index + 1]
        at == align(s.dev.imageSize, BlockUnits)
        added == [s EXCEPT !.dev.imageSize = at + BlockUnits,
                           !.dev.bat[p.index + 1] = [state |-> FullyPresent, at |-> at]]
    IN IF e.state = FullyPresent THEN Store(s, e.at + p.off, p, buf)
       ELSE Store([added EXCEPT !.host.bat = added.dev.bat], at, p, buf)

ReadPart(s, p, buf) ==
    LET e == s.dev.bat[p.index + 1]
    IN [u \in DOMAIN buf |->
            IF e.state = FullyPresent /\ u \in p.pos..(p.pos + p.n - 1)
            THEN s.host.data[e.at + p.off + u - p.pos] ELSE buf[u]]

\* The first write of an image updates the headers.
BeforeWrite(s) ==
    IF ~ s.dev.firstWrite THEN s
    ELSE LET h == update_headers(s.dev.hdr)
         IN [s EXCEPT !.dev.firstWrite = FALSE, !.dev.hdr = h, !.host.hdr = h]

VhdxNow == [dev |-> dev, host |-> host]

VhdxOpened(file) ==
    LET h == update_headers(file.hdr)
    IN [dev |-> [hdr |-> h, bat |-> file.bat, imageSize |-> file.size, firstWrite |-> TRUE, up |-> TRUE],
        host |-> [file EXCEPT !.hdr = h]]

VhdxNew ==
    \E present \in Presents, s1 \in FirstSeqs, s2 \in FirstSeqs :
        LET At(b) == (1 + b) * BlockUnits
            bat == [i \in 1..calculate_entries |->
                        IF \E b \in present : EntryOf(b) = i - 1
                        THEN [state |-> FullyPresent, at |-> At(CHOOSE b \in present : EntryOf(b) = i - 1)]
                        ELSE Absent]
            data == [u \in 0..(FileSize - 1) |->
                        IF \E b \in present : u \in At(b)..(At(b) + BlockUnits - 1) THEN <<0, u>> ELSE <<>>]
            file == [hdr |-> << [seq |-> s1, valid |-> TRUE], [seq |-> s2, valid |-> TRUE] >>,
                     bat |-> bat, size |-> (Blocks + 1) * BlockUnits, data |-> data]
            s == VhdxOpened(file)
        IN /\ dev = s.dev /\ host = s.host
           /\ guest = [now |-> [u \in Units |->
                            LET b == u \div BlockUnits
                            IN IF b \in present THEN <<0, At(b) + (u % BlockUnits)>> ELSE <<>>],
                       ops |-> 0, crashes |-> 0]

\* The requests: some units in a row, in one buffer or two.  Only the first
\* buffer is given to the image, and the request succeeds.
GuestRequests == {<<u, len, first>> \in Units \X (1..(Blocks * BlockUnits)) \X (1..(Blocks * BlockUnits)) :
                /\ u + len <= Blocks * BlockUnits
                /\ first <= len /\ (~ Segments => first = len)}

Absents(u, len) == {b \in 0..(Blocks - 1) : dev.bat[b + 1].state # FullyPresent
                                            /\ \E x \in u..(u + len - 1) : x \div BlockUnits = b}

write_vectored(u, len, first) ==
    LET buf == [i \in 0..(first - 1) |-> <<guest.ops + 1, i>>]
        Step(s, p) == WritePart(s, p, buf)
        s == FoldLeft(Step, BeforeWrite(VhdxNow), PartsOf(u, first))
    IN /\ dev.up /\ guest.ops < MaxVhdxOps
       /\ InBlocks => \A b \in Absents(u, len) : b * BlockUnits >= u
       /\ Become(s)
       /\ guest' = [guest EXCEPT !.ops = @ + 1,
                        !.now = [x \in Units |-> IF x \in u..(u + len - 1)
                                                 THEN <<guest.ops + 1, x - u>> ELSE @[x]]]

\* What the guest gets: its buffer keeps what it held where no block is present.
read_vectored(u, len, first) ==
    LET buf == [i \in 0..(len - 1) |-> <<>>]
        Step(b, p) == ReadPart(VhdxNow, p, b)
        out == FoldLeft(Step, buf, PartsOf(u, first))
    IN {<<u + i, out[i]>> : i \in 0..(len - 1)}

\* The VMM is killed, between requests or while it updates the headers.
Kill ==
    /\ dev.up /\ guest.crashes < MaxCrashes
    /\ \E h \in {host.hdr} \cup (IF dev.firstWrite THEN Stopped(host.hdr) ELSE {}) :
            host' = [host EXCEPT !.hdr = h,
                                 !.size = Max({host.size, dev.imageSize})]
    /\ dev' = [dev EXCEPT !.up = FALSE]
    /\ guest' = [guest EXCEPT !.crashes = @ + 1]

\* It is started again; that can be interrupted as well.
Start ==
    /\ ~ dev.up /\ host.hdr[current_header(host.hdr)].valid
    /\ \/ Become(VhdxOpened(host)) /\ UNCHANGED guest
       \/ /\ guest.crashes < MaxCrashes
          /\ \E h \in Stopped(host.hdr) : h # host.hdr /\ host' = [host EXCEPT !.hdr = h]
          /\ guest' = [guest EXCEPT !.crashes = @ + 1]
          /\ UNCHANGED dev

VhdxNext ==
    \/ \E r \in GuestRequests : write_vectored(r[1], r[2], r[3])
    \/ Kill
    \/ Start

VhdxSpec == VhdxNew /\ [][VhdxNext]_vhdxVars

-----------------------------------------------------------------------------
\* What a request reads is what was last written there, whichever requests,
\* split over whichever blocks, came before.
SectorsReadBack ==
    dev.up => \A r \in GuestRequests : \A x \in read_vectored(r[1], r[2], r[3]) : x[2] = guest.now[x[1]]

\* Wherever the update of the headers stops, the image can be opened again:
\* the header that is found to be current is a valid one.
ImageOpens == host.hdr[current_header(host.hdr)].valid

\* Two blocks never share a place in the file, nor overlap the metadata.
BlocksAreApart ==
    \A i, j \in DOMAIN host.bat :
        (host.bat[i].state = FullyPresent /\ host.bat[j].state = FullyPresent) =>
            /\ host.bat[i].at >= BlockUnits
            /\ i # j => (host.bat[i].at + BlockUnits <= host.bat[j].at
                          \/ host.bat[j].at + BlockUnits <= host.bat[i].at)

=============================================================================
