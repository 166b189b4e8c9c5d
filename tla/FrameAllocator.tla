---------------------------- MODULE FrameAllocator ----------------------------
(***************************************************************************)
(* The physical frame allocator of src/memory.rs: a bitmap with one bit    *)
(* per 4 KiB frame, a search hint and a counter.  Every operation runs     *)
(* under FRAME_ALLOCATOR's mutex, so each one is a single step.            *)
(*                                                                         *)
(* The bitmap is the set `used' of the frames whose bit is 1.  The frames  *)
(* that callers hold are recorded beside it: `held' one at a time,         *)
(* `regions' as the physically contiguous runs given to device drivers.    *)
(* Callers give back only what they hold: this is the contract that the    *)
(* Safety comments of deallocate_frame and dealloc_dma_contig state, and   *)
(* an assumption here, since neither function checks it.                   *)
(***************************************************************************)
EXTENDS Integers, FiniteSets

CONSTANTS BITMAP_SIZE, \* bytes of the bitmap, MAX_FRAMES / 8 in the source
          ByteBits,    \* frames per bitmap byte, 8 in the source
          Usable,      \* the frames of the usable regions of the memory map
          MaxRun       \* bound: the longest contiguous run a driver asks for

NumFrames == BITMAP_SIZE * ByteBits   \* MAX_FRAMES

Frames == 0 .. NumFrames - 1

ASSUME FrameAssumption ==
    /\ BITMAP_SIZE \in Nat /\ ByteBits \in Nat \ {0} /\ MaxRun \in Nat
    /\ Usable \subseteq Frames

VARIABLES used, next_free, ALLOCATED_FRAMES, held, regions

vars == <<used, next_free, ALLOCATED_FRAMES, held, regions>>

Run(r) == r.start .. r.start + r.len - 1

InRegions == UNION {Run(r) : r \in regions}

\* The bitmap, the hint and the two kinds of owned frames stay within the
\* memory map, and no driver holds a longer run than it asked for.
TypeOK ==
    /\ used \subseteq Frames
    /\ next_free \in 0 .. NumFrames
    /\ ALLOCATED_FRAMES \in Nat
    /\ held \subseteq Frames
    /\ regions \subseteq [start : Frames, len : 1 .. MaxRun]

Init ==
    /\ used = Frames \ Usable
    /\ next_free = 0
    /\ ALLOCATED_FRAMES = 0
    /\ held = {}
    /\ regions = {}

\* The free frames of the bytes lo .. hi - 1, one loop of find_free_frame.
FreeIn(lo, hi) == {f \in Frames \ used : f \div ByteBits \in lo .. hi - 1}

start_byte == next_free \div ByteBits

\* Mutant: the first loop starts at the frame of the hint, not at its byte.
AheadOfHintFrame == {f \in Frames \ used : f >= next_free}

\* The first loop, from the byte of the hint to the end of the bitmap.
AheadOfHint == FreeIn(start_byte, BITMAP_SIZE)

\* The second loop, the bytes before the byte of the hint.
BeforeHint == FreeIn(0, start_byte)

Lowest(f, S) == f \in S /\ \A g \in S : f <= g

\* Both loops return the lowest clear bit of the first byte that has one.
find_free_frame(f) ==
    \/ Lowest(f, AheadOfHint)
    \/ AheadOfHint = {} /\ Lowest(f, BeforeHint)

allocate_frame ==
    \E f \in Frames :
        /\ find_free_frame(f)
        /\ used' = used \cup {f}
        /\ next_free' = f + 1
        /\ ALLOCATED_FRAMES' = ALLOCATED_FRAMES + 1
        /\ held' = held \cup {f}
        /\ UNCHANGED regions

Lower(f) == IF f < next_free THEN f ELSE next_free

deallocate_frame(f) ==
    /\ f \in held
    /\ used' = used \ {f}
    /\ next_free' = Lower(f)
    /\ ALLOCATED_FRAMES' = ALLOCATED_FRAMES - 1
    /\ held' = held \ {f}
    /\ UNCHANGED regions

\* Mutant: the run is one frame short.
FreeRunShort(s, n) == s + n <= NumFrames /\ (s .. s + n - 2) \cap used = {}

\* Mutant: the run may leave the bitmap by one frame.
FreeRunPastEnd(s, n) == s + n <= NumFrames + 1 /\ (s .. s + n - 1) \cap used = {}

FreeRun(s, n) == s + n <= NumFrames /\ (s .. s + n - 1) \cap used = {}

\* The scan of allocate_contiguous_frames stops at the first run of n clear
\* bits, so it returns the lowest start of one.
allocate_contiguous_frames(n) ==
    \E s \in Frames :
        /\ FreeRun(s, n)
        /\ \A t \in Frames : FreeRun(t, n) => s <= t
        /\ used' = used \cup (s .. s + n - 1)
        /\ next_free' = s + n
        /\ ALLOCATED_FRAMES' = ALLOCATED_FRAMES + n
        /\ regions' = regions \cup {[start |-> s, len |-> n]}
        /\ UNCHANGED held

\* Mutant: the counter drops by one for the whole region.
dealloc_dma_contigOne(r) ==
    /\ r \in regions
    /\ used' = used \ Run(r)
    /\ ALLOCATED_FRAMES' = ALLOCATED_FRAMES - 1
    /\ next_free' = Lower(r.start)
    /\ regions' = regions \ {r}
    /\ UNCHANGED held

dealloc_dma_contig(r) ==
    /\ r \in regions
    /\ used' = used \ Run(r)
    /\ ALLOCATED_FRAMES' = ALLOCATED_FRAMES - r.len
    /\ next_free' = Lower(r.start)
    /\ regions' = regions \ {r}
    /\ UNCHANGED held

Next ==
    \/ allocate_frame
    \/ \E f \in held : deallocate_frame(f)
    \/ \E n \in 1 .. MaxRun : allocate_contiguous_frames(n)
    \/ \E r \in regions : dealloc_dma_contig(r)

Spec == Init /\ [][Next]_vars

-----------------------------------------------------------------------------
(* Properties *)

\* No frame has two owners: the frames handed out one at a time and the DMA
\* regions are pairwise disjoint, they are exactly the usable frames whose bit
\* is set, and no reserved frame is ever handed out.  This is what
\* find_free_frame and the run scan must keep across wrap-around of the hint.
ExclusiveOwnership ==
    /\ held \cap InRegions = {}
    /\ \A r, q \in regions : r # q => Run(r) \cap Run(q) = {}
    /\ used \cap Usable = held \cup InRegions
    /\ Frames \ Usable \subseteq used

\* memory_stats is exact: ALLOCATED_FRAMES counts the usable frames whose bit
\* is set, after any mix of single and contiguous allocation and release.
StatsExact == ALLOCATED_FRAMES = Cardinality(used \cap Usable)

\* allocate_frame fails only when memory is exhausted: wherever earlier frees and
\* contiguous allocations left the hint, in the middle of a byte with free bits
\* below it or at the end of the bitmap, the two loops of find_free_frame
\* together find a frame as long as a usable one is free, and only a free one.
SearchComplete ==
    /\ Usable \subseteq used \/ \E f \in Frames : find_free_frame(f)
    /\ \A f \in Frames : find_free_frame(f) => f \in Usable \ used
=============================================================================
