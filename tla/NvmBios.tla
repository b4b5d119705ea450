------------------------------ MODULE NvmBios ------------------------------
(***************************************************************************)
(* The file system the core's NVM BIOS keeps in the Memory Track flash     *)
(* (src/core/nvmbios.c): a FAT with one byte per block, a directory, a     *)
(* count of the blocks in use and a checksum over the first block, and the *)
(* guest's calls on it.  A call that fails without changing anything is    *)
(* not a step; a call made before Initialize is such a call.               *)
(*                                                                         *)
(* Abstractions: a name is a model value; file data is left out but for    *)
(* the set of blocks a Write touches.                                      *)
(***************************************************************************)
EXTENDS Integers, FiniteSets

CONSTANTS
    Apps, Names,     \* packed application and file names
    NoApp,           \* nvm_appname before Initialize
    TotalBlocks,     \* NVM_TOTALBLOCKS; the data blocks are 3 and up here
    Slots,           \* directory slots, 0 .. NVM_NUMDIRENTRIES - 1
    NumFiles,        \* NVM_NUMFILES handles
    BlockSize,       \* NVM_BLOCKSIZE
    MaxSize          \* bound: sizes, counts and offsets of a call

FAT_FREE      == 0
FAT_END       == 1
FAT_EMPTYFILE == 2
DataBlocks    == 3 .. TotalBlocks - 1       \* NVM_FIRSTDATABLOCK and up

ASSUME GeometryAssumption ==
    /\ TotalBlocks \in Nat /\ TotalBlocks > 3
    /\ BlockSize \in Nat \ {0}
    /\ NumFiles \in Nat \ {0}
    /\ IsFiniteSet(Slots) /\ Slots = 0 .. Cardinality(Slots) - 1
    /\ MaxSize \in Nat
    /\ NoApp \notin Apps

VARIABLES
    fat,        \* FAT byte of each data block
    used,       \* USEDSPACE_OFFSET
    dir,        \* the directory
    chksum,     \* the stored checksum
    app,        \* nvm_appname; NoApp stands for ~nvm_initialized
    handles,    \* nvm_handles; startblock 0 is a free handle
    search,     \* nvm_search_location, nvm_search_flags
    wrote,      \* history: blocks the last step wrote file data to
    opened,     \* history: the file each handle was opened on, while it exists
    failed,     \* history: a Create ran out of space after the last set_chksum
    due         \* history: files the running search has still to report

disk == <<fat, used, dir, chksum>>
vars == <<disk, app, handles, search, wrote, opened, failed, due>>

Handles == 0 .. NumFiles - 1
Free    == [start |-> 0, num |-> 0, file |-> <<>>]
Closed  == [start |-> 0, offset |-> 0]
File(a, n) == <<a, n>>
NoFile  == <<>>
Files   == Apps \X Names
Entries == [start : {0, FAT_EMPTYFILE} \cup DataBlocks, num : 0 .. Cardinality(DataBlocks),
            file : Files \cup {NoFile}]

Init ==
    /\ fat = [b \in DataBlocks |-> FAT_FREE]
    /\ used = 0
    /\ dir = [s \in Slots |-> Free]
    /\ chksum = 0
    /\ app = NoApp
    /\ handles = [h \in Handles |-> Closed]
    /\ search = [at |-> 0, own |-> FALSE]
    /\ wrote = {}
    /\ opened = [h \in Handles |-> NoFile]
    /\ failed = FALSE
    /\ due = {}

----------------------------------------------------------------------------
(* The FAT. *)

Least(S) == CHOOSE x \in S : \A y \in S : x <= y

\* calc_chksum: the used count and the bytes of the FAT, added up in order.  The
\* 16 bits of the sum hold the largest there is (248 blocks).
Sum(f, u) ==
    LET sum[b \in 2 .. TotalBlocks - 1] == IF b = 2 THEN u ELSE sum[b - 1] + f[b]
    IN sum[TotalBlocks - 1]

\* The FAT byte of any block a chain can lead to: byte 2 of the FAT is never
\* written.
Link(f, b) == IF b \in DataBlocks THEN f[b] ELSE FAT_FREE

\* The chain of a file, one block per index; below FAT_EMPTYFILE it has ended.
Walk(f, start) ==
    LET hop[k \in 0 .. TotalBlocks + MaxSize] ==
            IF k = 0 THEN start
            ELSE IF hop[k - 1] < FAT_EMPTYFILE THEN FAT_FREE ELSE Link(f, hop[k - 1])
    IN hop

\* The n lowest members of S, or all of them if there are fewer.
Lowest(S, n) == {b \in S : Cardinality({c \in S : c < b}) < n}

\* alloc_blocks on n > 0 blocks: the lowest free blocks, each linked to the next.
\* Too few free blocks leave the links made so far, and report none.
Allocated(f, n) ==
    LET take == Lowest({b \in DataBlocks : f[b] = FAT_FREE}, n)
        enough == Cardinality(take) = n
        next(b) == {c \in take : c > b}
    IN [f |-> [b \in DataBlocks |->
                  IF b \notin take THEN f[b]
                  ELSE IF next(b) # {} THEN Least(next(b))
                  ELSE IF enough THEN FAT_END ELSE FAT_FREE],
        first |-> IF enough THEN Least(take) ELSE 0]

\* free_blocks: the chain from start, as far as the used count goes.
Chain(f, u, start) ==
    LET hop == Walk(f, start) IN
    {hop[k] : k \in {k \in 0 .. u - 1 : \A j \in 0 .. k : hop[j] > FAT_EMPTYFILE}}

FindFile(d, file) == {s \in Slots : d[s].start # 0 /\ d[s].file = file}

\* Mutant: a deleted file's blocks stay allocated.
DeletedEntryOnly(file) ==
    [dir |-> [s \in Slots |-> IF s \in FindFile(dir, file) THEN Free ELSE dir[s]],
     fat |-> fat, used |-> used]

\* delete_file: what the directory, FAT and used count become.
Deleted(file) ==
    IF FindFile(dir, file) = {} THEN [dir |-> dir, fat |-> fat, used |-> used]
    ELSE LET s == Least(FindFile(dir, file))
             gone == Chain(fat, used, dir[s].start)
         IN [dir |-> [dir EXCEPT ![s] = Free],
             fat |-> [b \in DataBlocks |-> IF b \in gone THEN FAT_FREE ELSE fat[b]],
             used |-> used - Cardinality(gone)]

----------------------------------------------------------------------------
(* History: the handles and the search after a file is gone.               *)

Forget(file) == [h \in Handles |-> IF opened[h] = file THEN NoFile ELSE opened[h]]

Present(d) == {d[s].file : s \in {s \in Slots : d[s].start # 0}}

----------------------------------------------------------------------------
(* The calls. *)

\* A Write to an empty file lands in block 2, which holds directory entries
\* (see EmptyFileOutOfRange): what the guest wrote there is not modelled, and
\* the model stops.
Intact == FAT_EMPTYFILE \notin wrote
Serving == app # NoApp /\ Intact

\* Initialize formats the cartridge when the stored checksum is wrong.
Initialize(a) ==
    /\ Intact
    /\ app' = a
    /\ handles' = [h \in Handles |-> Closed]
    /\ opened' = [h \in Handles |-> NoFile]
    /\ IF chksum = Sum(fat, used)
       THEN /\ due' = {f \in due : search.own => f[1] = a}
            /\ UNCHANGED <<disk, failed>>
       ELSE /\ fat' = [b \in DataBlocks |-> FAT_FREE]
            /\ used' = 0
            /\ dir' = [s \in Slots |-> Free]
            /\ chksum' = 0
            /\ failed' = FALSE
            /\ due' = {}
    /\ wrote' = {}
    /\ UNCHANGED search

FreeHandles == {h \in Handles : handles[h].start = 0}

\* Mutant: an entry without blocks counts as free.
FreeSlotsByBlocks(d) == {s \in Slots : d[s].num = 0}

FreeSlots(d) == {s \in Slots : d[s].start = 0}

Fits(u, n) == u + n <= Cardinality(DataBlocks)

BlocksFor(size) == (size + BlockSize - 1) \div BlockSize

\* Create replaces a file of the same name, also when the new one then does
\* not fit: that path stores no checksum.
Create(name, size) ==
    /\ Serving
    /\ FreeHandles # {}
    /\ LET file == File(app, name)
           left == Deleted(file)
           h == Least(FreeHandles)
           n == BlocksFor(size)
           fits == Fits(left.used, n)
           new == IF n = 0 THEN [f |-> left.fat, first |-> FAT_EMPTYFILE]
                  ELSE Allocated(left.fat, n)
           entry == [start |-> new.first, num |-> n, file |-> file]
           made == FreeSlots(left.dir) # {} /\ fits /\ new.first # 0
       IN /\ fat' = IF FreeSlots(left.dir) # {} /\ fits THEN new.f ELSE left.fat
          /\ used' = IF FreeSlots(left.dir) # {} /\ fits THEN left.used + n ELSE left.used
          /\ dir' = IF made THEN [left.dir EXCEPT ![Least(FreeSlots(left.dir))] = entry]
                    ELSE left.dir
          /\ chksum' = IF made THEN Sum(fat', used') ELSE chksum
          /\ failed' = (~made /\ (failed \/ left.dir # dir))
          /\ handles' = IF made THEN [handles EXCEPT ![h] = [start |-> new.first, offset |-> 0]]
                        ELSE handles
          /\ opened' = IF made THEN [Forget(file) EXCEPT ![h] = file] ELSE Forget(file)
          /\ due' = due \ {file}
    /\ wrote' = {}
    /\ UNCHANGED <<app, search>>

Open(name) ==
    /\ Serving
    /\ FreeHandles # {}
    /\ FindFile(dir, File(app, name)) # {}
    /\ LET s == Least(FindFile(dir, File(app, name)))
           h == Least(FreeHandles)
       IN /\ handles' = [handles EXCEPT ![h] = [start |-> dir[s].start, offset |-> 0]]
          /\ opened' = [opened EXCEPT ![h] = File(app, name)]
    /\ wrote' = {}
    /\ UNCHANGED <<disk, app, search, failed, due>>

Close(h) ==
    /\ Serving
    /\ handles' = [handles EXCEPT ![h] = Closed]
    /\ opened' = [opened EXCEPT ![h] = NoFile]
    /\ wrote' = {}
    /\ UNCHANGED <<disk, app, search, failed, due>>

\* Mutant: Delete stores no checksum.
DeleteSilently(a, name) ==
    /\ Serving
    /\ LET left == Deleted(File(a, name)) IN
         /\ dir' = left.dir
         /\ fat' = left.fat
         /\ used' = left.used
    /\ opened' = Forget(File(a, name))
    /\ due' = due \ {File(a, name)}
    /\ wrote' = {}
    /\ UNCHANGED <<chksum, app, handles, search, failed>>

\* Delete closes no handle, and stores the checksum even if nothing was found.
Delete(a, name) ==
    /\ Serving
    /\ LET left == Deleted(File(a, name)) IN
         /\ dir' = left.dir
         /\ fat' = left.fat
         /\ used' = left.used
         /\ chksum' = Sum(left.fat, left.used)
    /\ failed' = FALSE
    /\ opened' = Forget(File(a, name))
    /\ due' = due \ {File(a, name)}
    /\ wrote' = {}
    /\ UNCHANGED <<app, handles, search>>

\* Mutant: a file is taken to be contiguous.
BlockAtContiguous(h, offset) == handles[h].start + offset \div BlockSize

\* file_offset: the block an offset falls in, or a number below
\* FAT_EMPTYFILE past the end of the chain.
BlockAt(h, offset) == Walk(fat, handles[h].start)[offset \div BlockSize]

InRange(h, offset) == offset >= 0 /\ BlockAt(h, offset) >= FAT_EMPTYFILE

\* nvm_io: a transfer stops at the end of the chain.
Transferred(h, count) ==
    LET from == handles[h].offset
        reach == {d \in 0 .. count : \A i \in 0 .. d - 1 : InRange(h, from + i)}
    IN CHOOSE d \in reach : \A e \in reach : e <= d

Touched(h, count) ==
    {BlockAt(h, handles[h].offset + i) : i \in 0 .. Transferred(h, count) - 1}

Moved(h, count) ==
    /\ handles[h].start # 0
    /\ handles[h].offset + count <= MaxSize
    /\ handles' = [handles EXCEPT ![h].offset = @ + Transferred(h, count)]
    /\ UNCHANGED <<disk, app, search, opened, failed, due>>

Read(h, count)  == Serving /\ Moved(h, count) /\ wrote' = {}
Write(h, count) == Serving /\ Moved(h, count) /\ wrote' = Touched(h, count)

Seek(h, offset, relative) ==
    /\ Serving
    /\ handles[h].start # 0
    /\ LET target == IF relative THEN handles[h].offset + offset ELSE offset IN
         /\ target <= MaxSize
         /\ InRange(h, target)
         /\ handles' = [handles EXCEPT ![h].offset = target]
    /\ wrote' = {}
    /\ UNCHANGED <<disk, app, search, opened, failed, due>>

\* NVMSearchNext from a position: the next entry that matches, else the end.
Found(at, own) ==
    {s \in Slots : s >= at /\ dir[s].start # 0 /\ (own => dir[s].file[1] = app)}

\* Mutant: the location skips a slot.
AfterSkipping(at, own) ==
    IF Found(at, own) = {} THEN Cardinality(Slots) ELSE Least(Found(at, own)) + 2

After(at, own) == IF Found(at, own) = {} THEN Cardinality(Slots) ELSE Least(Found(at, own)) + 1

Reported(at, own) == {dir[s].file : s \in {s \in Found(at, own) : s = Least(Found(at, own))}}

SearchFirst(own) ==
    /\ Serving
    /\ search' = [at |-> After(0, own), own |-> own]
    /\ due' = {f \in Present(dir) : own => f[1] = app} \ Reported(0, own)
    /\ wrote' = {}
    /\ UNCHANGED <<disk, app, handles, opened, failed>>

SearchNext ==
    /\ Serving
    /\ search' = [search EXCEPT !.at = After(search.at, search.own)]
    /\ due' = due \ Reported(search.at, search.own)
    /\ wrote' = {}
    /\ UNCHANGED <<disk, app, handles, opened, failed>>

\* NVMBiosReset, on retro_reset and at load.
NVMBiosReset ==
    /\ Intact
    /\ app' = NoApp
    /\ handles' = [h \in Handles |-> Closed]
    /\ opened' = [h \in Handles |-> NoFile]
    /\ search' = [at |-> 0, own |-> FALSE]
    /\ due' = {}
    /\ wrote' = {}
    /\ UNCHANGED <<disk, failed>>

Next ==
    \/ \E a \in Apps : Initialize(a)
    \/ \E n \in Names, size \in 0 .. MaxSize : Create(n, size)
    \/ \E n \in Names : Open(n)
    \/ \E h \in Handles : Close(h)
    \/ \E a \in Apps, n \in Names : Delete(a, n)
    \/ \E h \in Handles, count \in 1 .. MaxSize : Read(h, count)
    \/ \E h \in Handles, count \in 1 .. MaxSize : Write(h, count)
    \/ \E h \in Handles, offset \in -1 .. MaxSize, relative \in BOOLEAN :
           Seek(h, offset, relative)
    \/ \E own \in BOOLEAN : SearchFirst(own)
    \/ SearchNext
    \/ NVMBiosReset

Spec == Init /\ [][Next]_vars

----------------------------------------------------------------------------
(* Properties. *)

\* The type of the state.
TypeOK ==
    /\ fat \in [DataBlocks -> {FAT_FREE, FAT_END} \cup DataBlocks]
    /\ used \in 0 .. Cardinality(DataBlocks)
    /\ dir \in [Slots -> Entries]
    /\ app \in Apps \cup {NoApp}
    /\ handles \in [Handles -> [start : {0, FAT_EMPTYFILE} \cup DataBlocks,
                                offset : 0 .. MaxSize]]
    /\ search \in [at : 0 .. Cardinality(Slots), own : BOOLEAN]
    /\ opened \in [Handles -> Files \cup {NoFile}]
    /\ due \subseteq Files

InUse == {s \in Slots : dir[s].start # 0}
ChainOf(s) == Chain(fat, Cardinality(DataBlocks), dir[s].start)

\* The file system is sound after every call, failed ones included: each
\* entry's chain has the length the entry says and ends in FAT_END, no two
\* files share a block or a name, no block is lost, and the used count is the
\* number of blocks in chains, so that the scan of alloc_blocks never runs
\* off the end ("this should NEVER happen").
FatSound ==
    /\ \A s \in InUse :
          /\ Cardinality(ChainOf(s)) = dir[s].num
          /\ dir[s].num = 0 <=> dir[s].start = FAT_EMPTYFILE
          /\ dir[s].num > 0 => Walk(fat, dir[s].start)[dir[s].num] = FAT_END
    /\ \A s, t \in InUse :
          s # t => ChainOf(s) \cap ChainOf(t) = {} /\ dir[s].file # dir[t].file
    /\ {b \in DataBlocks : fat[b] # FAT_FREE} = UNION {ChainOf(s) : s \in InUse}
    /\ used = Cardinality({b \in DataBlocks : fat[b] # FAT_FREE})

\* A handle follows the file it was opened on for as long as that file
\* exists, whatever is created, deleted or searched meanwhile (NVMDelete and
\* NVMCreate close no handle; a freed block may belong to another file next).
HandlesFollowFiles ==
    \A h \in Handles : opened[h] # NoFile =>
        \E s \in InUse : dir[s].file = opened[h] /\ dir[s].start = handles[h].start

\* A Write through a handle whose file still exists touches the blocks of that
\* file's chain and no others, however fragmented allocation has left it
\* (file_offset); an empty file is the exception EmptyFileOutOfRange is about.
WritesStayInFile ==
    [][\A h \in Handles :
         /\ wrote' # {}
         /\ handles'[h].offset # handles[h].offset
         /\ opened[h] # NoFile
         /\ handles[h].start # FAT_EMPTYFILE
         => wrote' \subseteq UNION {ChainOf(s) : s \in FindFile(dir, opened[h])}]_vars

\* A search misses nothing: once it has come to the end of the directory it
\* has reported every file that was there when it began and still is, with
\* creations and deletions in between.
SearchReportsAll == search.at >= Cardinality(Slots) => due = {}

\* The stored checksum is right after every call, so that the next Initialize
\* formats nothing, but for a Create that replaced a file and ran out of
\* space.
ChecksumRightUnlessFull == chksum = Sum(fat, used) \/ failed

\* "checksum is maintained: re-Initialize must NOT reformat" (test_nvmbios.c).
ChecksumMaintained == chksum = Sum(fat, used)

\* "file_offset reports ERANGE for offset 0 on a zero-length file"
\* (memory-track.md), so no file data is written to a system block.
EmptyFileOutOfRange == wrote \subseteq DataBlocks
=============================================================================
