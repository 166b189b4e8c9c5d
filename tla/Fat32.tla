--------------------------------- MODULE Fat32 ---------------------------------
(***************************************************************************)
(* The FAT32 volume of src/fs/fat32.rs: the copies of the file allocation   *)
(* table (FAT), the root directory, the data clusters and the free count of *)
(* the FSInfo sector, for paths of the root directory.                      *)
(*                                                                          *)
(* A call runs under the mutex FAT32, but it is a sequence of sector writes *)
(* and the power may fail between two of them.  An operation is therefore   *)
(* an operator that extends a trace, the sequence of the disks that its     *)
(* writes make.  A call that completes leaves the last disk of its trace; a *)
(* power failure leaves an earlier one, and the volume is mounted again.    *)
(*                                                                          *)
(* The root directory is one cluster: a new or changed entry is one sector. *)
(* Data is a sequence of blocks, one per cluster, so a file size is counted *)
(* in blocks.  Errors of the drive itself are not modelled.                 *)
(***************************************************************************)
EXTENDS Integers, Sequences, SequencesExt, FiniteSets, FiniteSetsExt

CONSTANTS total_clusters,   \* clusters of the data area
          num_fats,         \* copies of the FAT
          RootSlots,        \* entries of the root directory
          U32_MAX,          \* 2^32 - 1; as a free count: "unknown"
          ShortNames,       \* names that fit 8.3
          LongNames,        \* names that do not
          Blocks,           \* contents of a cluster of data
          MaxBlocks,        \* bound: blocks of a file
          MaxCrashes        \* bound: power failures in one behaviour

ASSUME FatAssumption ==
    /\ total_clusters \in Nat \ {0} /\ num_fats \in Nat \ {0} /\ RootSlots \in Nat
    /\ U32_MAX \in Nat /\ U32_MAX > total_clusters
    /\ MaxBlocks \in Nat /\ MaxCrashes \in Nat
    /\ ShortNames \cap LongNames = {}

VARIABLES disk,      \* fat, root, data, free
          last,      \* the last call and its result
          crashes    \* power failures so far

vars == <<disk, last, crashes>>

Names == ShortNames \cup LongNames
Clusters == 2 .. total_clusters + 1
RootCluster == 2
FREE == 0
EOC == 1          \* stands for the marks of 0x0FFFFFF8 and above
DirBlock == "dir" \* a cluster with "." and ".."
Zeros == "zeros"

NoEntry == [name |-> "", lfn |-> "", dir |-> FALSE, cluster |-> 0, size |-> 0]

\* The 8.3 name of the file that another system stored under a long name.
Alias == "ALIAS~1"

\* to_short_name, "" where it returns an error.
to_short_name(n) == IF n \in ShortNames THEN n ELSE ""

-----------------------------------------------------------------------------
(* Reading.  get_next_cluster and find_free_cluster read the first copy. *)

Entry(d, c) == d.fat[1][c]

FreeClusters(d) == {c \in Clusters : Entry(d, c) = FREE}

\* find_file for a path of the root directory, 0 for None.
find_file(d, n) ==
    LET hits == {s \in 1 .. RootSlots : d.root[s] # NoEntry /\ n \in {d.root[s].name, d.root[s].lfn}}
    IN  IF hits = {} THEN 0 ELSE Min(hits)

\* The clusters of a chain in order.  It ends at a mark, at a free entry or at
\* a cluster it has been at.
RECURSIVE Walk(_, _)
Walk(d, seen) ==
    LET next == Entry(d, Last(seen)) IN
    IF next \in {FREE, EOC} \/ next \in ToSet(seen) THEN seen ELSE Walk(d, Append(seen, next))

Chain(d, c) == Walk(d, <<c>>)

\* read_cluster_chain comes to the end of the chain.
Terminates(d, c) == Entry(d, Last(Chain(d, c))) = EOC

\* FileSystem::read: read_cluster_chain, cut to the size.
Read(d, n) ==
    LET s == find_file(d, n)
        e == d.root[s]
        ch == Chain(d, e.cluster)
        bytes == [i \in 1 .. Len(ch) |-> d.data[ch[i]]]
    IN  IF s = 0 THEN "FileNotFound"
        ELSE IF e.dir THEN "PermissionDenied"
        ELSE IF Entry(d, Last(ch)) # EOC THEN "IoError"
        ELSE SubSeq(bytes, 1, e.size)

-----------------------------------------------------------------------------
(* Writing: operators that extend a trace *)

Now(tr) == Last(tr)

\* Mutant: only the first copy is written.
write_fat_entryFirst(tr, c, v) == Append(tr, [Now(tr) EXCEPT !.fat[1][c] = v])

\* One sector per copy of the FAT.
write_fat_entry(tr, c, v) ==
    FoldLeft(LAMBDA t, k : Append(t, [Now(t) EXCEPT !.fat[k][c] = v]),
             tr, [k \in 1 .. num_fats |-> k])

saturating_add(a, b) == IF a + b > U32_MAX THEN U32_MAX ELSE a + b

update_fsinfo(tr, freed) ==
    IF Now(tr).free = U32_MAX THEN tr
    ELSE Append(tr, [Now(tr) EXCEPT !.free = saturating_add(@, freed)])

\* Mutant: the clusters are taken to be contiguous.
write_cluster_chainContiguous(tr, c, blocks) ==
    FoldLeft(LAMBDA t, i : Append(t, [Now(t) EXCEPT !.data[c + i - 1] = blocks[i]]),
             tr, [i \in 1 .. Len(blocks) |-> i])

\* write_cluster_chain: one cluster after the other along the chain.
write_cluster_chain(tr, c, blocks) ==
    LET ch == Chain(Now(tr), c) IN
    FoldLeft(LAMBDA t, i : Append(t, [Now(t) EXCEPT !.data[ch[i]] = blocks[i]]),
             tr, [i \in 1 .. Len(blocks) |-> i])

WriteSlot(tr, s, e) == Append(tr, [Now(tr) EXCEPT !.root[s] = e])

\* Mutant: the clusters already taken are kept when the space runs out.
RollbackNone(tr, chain) == tr

\* Every cluster that was taken is freed again.
Rollback(tr, chain) == FoldLeft(LAMBDA t, c : write_fat_entry(t, c, FREE), tr, chain)

\* allocate_clusters after the clusters of `chain': the previous cluster is
\* linked to the next one before the next one is reserved.
RECURSIVE Grow(_, _, _)
Grow(tr, chain, num_clusters) ==
    IF Len(chain) = num_clusters THEN [ok |-> TRUE, trace |-> tr, first |-> chain[1]]
    ELSE IF FreeClusters(Now(tr)) = {}
    THEN [ok |-> FALSE, trace |-> Rollback(tr, chain), first |-> 0]
    ELSE LET next == Min(FreeClusters(Now(tr)))
             linked == IF chain = <<>> THEN tr ELSE write_fat_entry(tr, Last(chain), next)
         IN  Grow(write_fat_entry(linked, next, EOC), Append(chain, next), num_clusters)

allocate_clusters(tr, num_clusters) == Grow(tr, <<>>, num_clusters)

\* free_cluster_chain stops with an error at a cluster that is free already.
RECURSIVE FreeFrom(_, _, _)
FreeFrom(tr, c, freed) ==
    LET next == Entry(Now(tr), c)
        tr1 == write_fat_entry(tr, c, FREE)
    IN  IF next = FREE THEN [ok |-> FALSE, trace |-> tr]
        ELSE IF next = EOC THEN [ok |-> TRUE, trace |-> update_fsinfo(tr1, freed + 1)]
        ELSE FreeFrom(tr1, next, freed + 1)

free_cluster_chain(tr, c) == FreeFrom(tr, c, 0)

-----------------------------------------------------------------------------
(* The root directory *)

\* Mutant: the size of a new file is one block too large.
NewEntryLonger(n, dir, first, size) ==
    [name |-> to_short_name(n), lfn |-> "", dir |-> dir, cluster |-> first, size |-> size + 1]

NewEntry(n, dir, first, size) ==
    [name |-> to_short_name(n), lfn |-> "", dir |-> dir, cluster |-> first, size |-> size]

FreeSlots(d) == {s \in 1 .. RootSlots : d.root[s] = NoEntry}

\* create_file_entry and create_dir_entry, with write_directory_entry_to_root.
create_entry(tr, n, dir, first, size) ==
    IF to_short_name(n) = "" \/ FreeSlots(Now(tr)) = {} THEN [res |-> "IoError", trace |-> tr]
    ELSE [res |-> "Ok",
          trace |-> WriteSlot(tr, Min(FreeSlots(Now(tr))), NewEntry(n, dir, first, size))]

\* update_directory_entry and delete_directory_entry: the entry is looked up by
\* its 8.3 name, so one that find_file found by its long name is not found.
put_directory_entry(tr, n, e) ==
    LET hits == {s \in 1 .. RootSlots : to_short_name(n) # "" /\ Now(tr).root[s].name = to_short_name(n)}
    IN  IF hits = {} THEN [res |-> "IoError", trace |-> tr]
        ELSE [res |-> "Ok", trace |-> WriteSlot(tr, Min(hits), e)]

-----------------------------------------------------------------------------
(* The calls, from the trace <<disk>>: the result and the trace *)

Start == <<disk>>
Fails(res) == [res |-> res, trace |-> Start]

AtLeastOne(n) == IF n = 0 THEN 1 ELSE n

\* Mutant: the entry keeps the first cluster of the old chain.
RewrittenOldHead(e, first, size) == [e EXCEPT !.size = size]

Rewritten(e, first, size) == [e EXCEPT !.cluster = first, !.size = size]

\* write over an entry, file or directory: the old chain goes first.
Overwrite(n, e, blocks) ==
    LET f == IF e.cluster = 0 THEN [ok |-> TRUE, trace |-> Start]
             ELSE free_cluster_chain(Start, e.cluster)
        a == allocate_clusters(f.trace, AtLeastOne(Len(blocks)))
    IN  IF ~f.ok THEN [res |-> "IoError", trace |-> f.trace]
        ELSE IF ~a.ok THEN [res |-> "NoSpace", trace |-> a.trace]
        ELSE put_directory_entry(write_cluster_chain(a.trace, a.first, blocks), n,
                                 Rewritten(e, a.first, Len(blocks)))

\* A new file or directory.
Create(n, dir, blocks, size) ==
    LET a == allocate_clusters(Start, AtLeastOne(Len(blocks))) IN
    IF ~a.ok THEN [res |-> "NoSpace", trace |-> a.trace]
    ELSE create_entry(write_cluster_chain(a.trace, a.first, blocks), n, dir, a.first, size)

write(n, blocks) ==
    LET s == find_file(disk, n) IN
    IF s = 0 THEN Create(n, FALSE, blocks, Len(blocks)) ELSE Overwrite(n, disk.root[s], blocks)

mkdir(n) ==
    IF find_file(disk, n) # 0 THEN Fails("FileExists") ELSE Create(n, TRUE, <<DirBlock>>, 0)

\* The chain is freed before the entry is marked as deleted.
Unlink(n, e) ==
    LET f == IF e.cluster = 0 THEN [ok |-> TRUE, trace |-> Start]
             ELSE free_cluster_chain(Start, e.cluster)
    IN  IF ~f.ok THEN [res |-> "IoError", trace |-> f.trace]
        ELSE put_directory_entry(f.trace, n, NoEntry)

delete(n) ==
    LET s == find_file(disk, n) IN
    IF s = 0 THEN Fails("FileNotFound")
    ELSE IF disk.root[s].dir THEN Fails("PermissionDenied")
    ELSE Unlink(n, disk.root[s])

\* A directory that was written over has data where its entries should be: then
\* the data decides whether it looks empty.
LooksEmpty(e) ==
    IF \A c \in ToSet(Chain(disk, e.cluster)) : disk.data[c] = DirBlock THEN {TRUE} ELSE BOOLEAN

rmdir(n, empty) ==
    LET s == find_file(disk, n)
        e == disk.root[s]
    IN  IF s = 0 THEN Fails("FileNotFound")
        ELSE IF ~e.dir THEN Fails("NotADirectory")
        ELSE IF ~Terminates(disk, e.cluster) THEN Fails("IoError")
        ELSE IF ~empty THEN Fails("DirectoryNotEmpty")
        ELSE Unlink(n, e)

EmptyChoices(n) ==
    LET s == find_file(disk, n) IN IF s = 0 THEN {TRUE} ELSE LooksEmpty(disk.root[s])

-----------------------------------------------------------------------------
(* Mounting: Fat32::new, with recover_fsinfo *)

recover_fsinfo(d) ==
    IF d.free <= total_clusters THEN d ELSE [d EXCEPT !.free = Cardinality(FreeClusters(d))]

mount ==
    /\ disk' = recover_fsinfo(disk)
    /\ last' = [op |-> "mount", name |-> "", blocks |-> <<>>, res |-> "Ok"]
    /\ UNCHANGED crashes

Completes(op, n, blocks, r) ==
    /\ disk' = Last(r.trace)
    /\ last' = [op |-> op, name |-> n, blocks |-> blocks, res |-> r.res]
    /\ UNCHANGED crashes

\* The power fails after some of the writes, and the volume is mounted again.
PowerFails(op, n, blocks, r) ==
    /\ crashes < MaxCrashes
    /\ \E i \in 1 .. Len(r.trace) - 1 : disk' = recover_fsinfo(r.trace[i])
    /\ last' = [op |-> op, name |-> n, blocks |-> blocks, res |-> "PowerFailure"]
    /\ crashes' = crashes + 1

Call(op, n, blocks, r) == Completes(op, n, blocks, r) \/ PowerFails(op, n, blocks, r)

Contents == UNION {[1 .. k -> Blocks] : k \in 0 .. MaxBlocks}

\* A volume made elsewhere: nothing but the root directory, or also a file with
\* a long name and one cluster.
Blank ==
    [fat |-> [k \in 1 .. num_fats |-> [c \in Clusters |-> IF c = RootCluster THEN EOC ELSE FREE]],
     root |-> [s \in 1 .. RootSlots |-> NoEntry],
     data |-> [c \in Clusters |-> IF c = RootCluster THEN DirBlock ELSE Zeros],
     free |-> total_clusters - 1]

WithLongName(l, b) ==
    [fat |-> [k \in 1 .. num_fats |-> [Blank.fat[k] EXCEPT ![RootCluster + 1] = EOC]],
     root |-> [Blank.root EXCEPT ![1] = [name |-> Alias, lfn |-> l, dir |-> FALSE,
                                         cluster |-> RootCluster + 1, size |-> 1]],
     data |-> [Blank.data EXCEPT ![RootCluster + 1] = b],
     free |-> total_clusters - 2]

Init ==
    /\ disk \in {Blank} \cup {WithLongName(l, b) : l \in LongNames, b \in Blocks}
    /\ last = [op |-> "mount", name |-> "", blocks |-> <<>>, res |-> "Ok"]
    /\ crashes = 0

Next ==
    \/ mount
    \/ \E n \in Names :
        \/ \E blocks \in Contents : Call("write", n, blocks, write(n, blocks))
        \/ Call("mkdir", n, <<>>, mkdir(n))
        \/ Call("delete", n, <<>>, delete(n))
        \/ \E empty \in EmptyChoices(n) : Call("rmdir", n, <<>>, rmdir(n, empty))

Spec == Init /\ [][Next]_vars

-----------------------------------------------------------------------------
(* Properties *)

EntryType ==
    [name : ShortNames \cup {"", Alias}, lfn : LongNames \cup {""}, dir : BOOLEAN,
     cluster : Clusters \cup {0}, size : 0 .. MaxBlocks]

\* Every field of the disk has its range.
TypeOK ==
    /\ disk.fat \in [1 .. num_fats -> [Clusters -> Clusters \cup {FREE, EOC}]]
    /\ disk.root \in [1 .. RootSlots -> EntryType]
    /\ disk.data \in [Clusters -> Blocks \cup {DirBlock, Zeros}]
    /\ disk.free \in 0 .. U32_MAX
    /\ crashes \in 0 .. MaxCrashes

UsedSlots(d) == {s \in 1 .. RootSlots : d.root[s] # NoEntry}

\* What an entry owns.
Owned(d, s) == ToSet(Chain(d, d.root[s].cluster))

\* Every entry has a chain of its own that ends with a mark and holds the size,
\* and none of them reaches the root directory.
Safe(d) ==
    LET chains == {<<s, Chain(d, d.root[s].cluster)>> : s \in UsedSlots(d)} IN
    /\ \A x \in chains :
          /\ Entry(d, Last(x[2])) = EOC
          /\ Len(x[2]) >= d.root[x[1]].size
          /\ RootCluster \notin ToSet(x[2])
    /\ \A x, y \in chains : x # y => ToSet(x[2]) \cap ToSet(y[2]) = {}

\* The copies of the FAT are identical (fat32.rs:761), up to one entry for every
\* power failure that struck between the writes of two copies.
MirrorsLagByCrashes ==
    Cardinality({c \in Clusters : \E k \in 1 .. num_fats : disk.fat[k][c] # Entry(disk, c)}) <= crashes

\* A sound volume is damaged in one way only: write, delete or rmdir frees the
\* chain of an entry that is there, and then does not get to change the entry,
\* because the space or the power runs out or the entry is not found again.
\* New files and directories never damage it, even when they fail half way.
DamageOnlyByHalfReplace ==
    [][~Safe(disk') /\ Safe(disk) =>
          /\ find_file(disk, last'.name) # 0
          /\ last'.op \in {"write", "delete", "rmdir"}
          /\ last'.res \in {"NoSpace", "IoError", "PowerFailure"}]_vars

\* On a sound volume a call changes what is read of its own path and of no
\* other, whether it succeeds, fails half way or is cut off by a power failure.
OthersUntouched ==
    [][Safe(disk) => \A m \in Names \ {last'.name} : Read(disk', m) = Read(disk, m)]_vars

\* On a sound volume a result says what happened: after Ok the path reads back
\* as the call left it, and after NoSpace the clusters that were taken are free
\* again (allocate_clusters rolls back).
ResultsAreTrue ==
    [][Safe(disk) =>
         LET n == last'.name
             s == find_file(disk, n)
         IN  /\ last'.res = "Ok" /\ last'.op = "write" =>
                   Read(disk', n) = IF s # 0 /\ disk.root[s].dir THEN "PermissionDenied" ELSE last'.blocks
             /\ last'.res = "Ok" /\ last'.op = "mkdir" => disk'.root[find_file(disk', n)].dir
             /\ last'.res = "Ok" /\ last'.op \in {"delete", "rmdir"} => find_file(disk', n) = 0
             /\ last'.res = "NoSpace" =>
                   FreeClusters(disk') = FreeClusters(disk) \cup (IF s = 0 THEN {} ELSE Owned(disk, s))
      ]_vars
=============================================================================
