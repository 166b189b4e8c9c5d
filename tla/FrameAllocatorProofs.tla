------------------------- MODULE FrameAllocatorProofs -------------------------
(***************************************************************************)
(* For every bitmap size, byte width, memory map and run bound: no frame   *)
(* has two owners, the counter behind memory_stats is exact, and the       *)
(* search for a frame fails only when none is free.                        *)
(***************************************************************************)
EXTENDS FrameAllocator, FiniteSetTheorems, WellFoundedInduction, TLAPS

\* MAX_FRAMES is a number of frames, and every frame has its bit in a byte of
\* the bitmap, the index that find_free_frame's loops run over.
LEMMA NumFramesNat == NumFrames \in Nat
  BY FrameAssumption DEF NumFrames

LEMMA ByteOfFrame ==
    ASSUME NEW f \in Frames
    PROVE  f \div ByteBits \in 0 .. BITMAP_SIZE - 1
  <1> DEFINE q == f \div ByteBits
  <1>1. f \in Nat /\ f < BITMAP_SIZE * ByteBits
    BY FrameAssumption, NumFramesNat DEF Frames, NumFrames
  <1>2. q \in Int /\ q * ByteBits <= f /\ f < q * ByteBits + ByteBits
    BY <1>1, FrameAssumption
  <1> HIDE DEF q
  <1>3. q >= 0
    BY <1>1, <1>2, FrameAssumption
  <1>4. q < BITMAP_SIZE
    BY <1>1, <1>2, FrameAssumption
  <1> QED  BY <1>2, <1>3, <1>4, FrameAssumption DEF q

\* A loop of find_free_frame over bytes that hold a clear bit returns one.
LEMMA LowestExists ==
    ASSUME NEW S \in SUBSET Frames, S # {}
    PROVE  \E f \in S : Lowest(f, S)
  <1>1. S \subseteq Nat
    BY NumFramesNat DEF Frames
  <1>2. PICK f \in S : \A g \in S : ~ (<<g, f>> \in OpToRel(<, Nat))
    BY <1>1, NatLessThanWellFounded, WFMin
  <1>3. \A g \in S : ~ (g < f)
    BY <1>1, <1>2 DEF OpToRel
  <1> QED  BY <1>1, <1>3 DEF Lowest

\* The frames given to drivers, after a region is added to or taken from the
\* table that dealloc_dma_contig works on.
LEMMA RegionsGrow ==
    ASSUME NEW R, NEW r
    PROVE  (UNION {Run(q) : q \in R \cup {r}}) = (UNION {Run(q) : q \in R}) \cup Run(r)
  OBVIOUS

LEMMA RegionsShrink ==
    ASSUME NEW R, NEW r \in R,
           \A p, q \in R : p # q => Run(p) \cap Run(q) = {}
    PROVE  (UNION {Run(q) : q \in R \ {r}}) = (UNION {Run(q) : q \in R}) \ Run(r)
  OBVIOUS

LEMMA FramesFinite == IsFiniteSet(Frames) /\ \A S \in SUBSET Frames : IsFiniteSet(S)
  <1>1. IsFiniteSet(Frames)
    BY NumFramesNat, FS_Interval DEF Frames
  <1> QED  BY <1>1, FS_Subset

\* The bounds on the hint and on the regions hold in every reachable state of
\* the allocator (allocate_frame may leave the hint at MAX_FRAMES).
IInv == TypeOK /\ ExclusiveOwnership /\ StatsExact

LEMMA InitIInv == Init => IInv
  <1> SUFFICES ASSUME Init PROVE IInv
    OBVIOUS
  <1>1. TypeOK
    BY FrameAssumption, NumFramesNat DEF Init, TypeOK, Frames
  <1>2. ExclusiveOwnership
    BY FrameAssumption DEF Init, ExclusiveOwnership, InRegions
  <1>3. StatsExact
    <2>1. used \cap Usable = {}
      BY DEF Init
    <2> QED  BY <2>1, FS_EmptySet DEF Init, StatsExact
  <1> QED  BY <1>1, <1>2, <1>3 DEF IInv

\* allocate_frame takes one clear bit: the frame had no owner before.
LEMMA AllocateFrameStep == IInv /\ allocate_frame => IInv'
  <1> SUFFICES ASSUME IInv, allocate_frame PROVE IInv'
    OBVIOUS
  <1> USE FrameAssumption, NumFramesNat DEF IInv
  <1>1. PICK f \in Frames :
          /\ find_free_frame(f)
          /\ used' = used \cup {f}
          /\ next_free' = f + 1
          /\ ALLOCATED_FRAMES' = ALLOCATED_FRAMES + 1
          /\ held' = held \cup {f}
          /\ UNCHANGED regions
    BY DEF allocate_frame
  <1>2. f \notin used
    BY <1>1 DEF find_free_frame, Lowest, AheadOfHint, BeforeHint, FreeIn
  <1>3. f \in Usable /\ f \notin used \cap Usable
    BY <1>2 DEF ExclusiveOwnership
  <1>4. TypeOK'
    BY <1>1 DEF TypeOK, Frames
  <1>5. ExclusiveOwnership'
    BY <1>1, <1>2, <1>3 DEF ExclusiveOwnership, InRegions
  <1>6. StatsExact'
    <2>1. (used \cap Usable)' = (used \cap Usable) \cup {f}
      BY <1>1, <1>3
    <2>2. IsFiniteSet(used \cap Usable)
      BY FramesFinite DEF TypeOK
    <2> QED  BY <1>1, <1>3, <2>1, <2>2, FS_AddElement DEF StatsExact
  <1> QED  BY <1>4, <1>5, <1>6

\* deallocate_frame of a held frame: the frame leaves exactly one owner.
LEMMA DeallocateFrameStep ==
    ASSUME IInv, NEW f \in held, deallocate_frame(f)
    PROVE  IInv'
  <1> USE FrameAssumption, NumFramesNat DEF IInv
  <1>1. f \in used \cap Usable /\ f \notin InRegions
    BY DEF ExclusiveOwnership
  <1>2. IsFiniteSet(used \cap Usable)
    BY FramesFinite DEF TypeOK
  <1>3. /\ (used \cap Usable)' = (used \cap Usable) \ {f}
        /\ Cardinality((used \cap Usable)') = Cardinality(used \cap Usable) - 1
    <2>1. (used \cap Usable)' = (used \cap Usable) \ {f}
      BY DEF deallocate_frame
    <2> QED  BY <1>1, <1>2, <2>1, FS_RemoveElement
  <1>4. Cardinality(used \cap Usable) \in Nat \ {0}
    BY <1>1, <1>2, FS_CardinalityType, FS_EmptySet
  <1>5. TypeOK'
    BY <1>4 DEF TypeOK, deallocate_frame, Lower, Frames, StatsExact
  <1>6. ExclusiveOwnership'
    BY <1>1 DEF ExclusiveOwnership, InRegions, deallocate_frame
  <1>7. StatsExact'
    BY <1>3 DEF StatsExact, deallocate_frame
  <1> QED  BY <1>5, <1>6, <1>7

\* allocate_contiguous_frames takes n clear bits at once.
LEMMA AllocateContiguousStep ==
    ASSUME IInv, NEW n \in 1 .. MaxRun, allocate_contiguous_frames(n)
    PROVE  IInv'
  <1> USE FrameAssumption, NumFramesNat DEF IInv
  <1>1. PICK s \in Frames :
          /\ FreeRun(s, n)
          /\ used' = used \cup (s .. s + n - 1)
          /\ next_free' = s + n
          /\ ALLOCATED_FRAMES' = ALLOCATED_FRAMES + n
          /\ regions' = regions \cup {[start |-> s, len |-> n]}
          /\ UNCHANGED held
    BY DEF allocate_contiguous_frames
  <1> DEFINE r == [start |-> s, len |-> n]
  <1>2. Run(r) = s .. s + n - 1
    BY DEF Run
  <1>3. /\ Run(r) \subseteq Frames /\ Run(r) \cap used = {}
    BY <1>1, <1>2 DEF FreeRun, Frames
  <1>4. Run(r) \subseteq Usable /\ Run(r) \cap held = {} /\ Run(r) \cap InRegions = {}
    BY <1>3 DEF ExclusiveOwnership
  <1>5. InRegions' = InRegions \cup Run(r)
    BY <1>1, RegionsGrow DEF InRegions
  <1>6. TypeOK'
    BY <1>1, <1>2, <1>3 DEF TypeOK, Frames, FreeRun
  <1> HIDE DEF r
  <1>7. ExclusiveOwnership'
    <2>1. (held \cap InRegions = {})'
      BY <1>1, <1>4, <1>5 DEF ExclusiveOwnership
    <2>2. \A p, q \in regions' : p # q => Run(p) \cap Run(q) = {}
      <3>1. \A q \in regions : Run(q) \subseteq InRegions
        BY DEF InRegions
      <3>2. regions' = regions \cup {r}
        BY <1>1 DEF r
      <3> QED  BY <3>1, <3>2, <1>4 DEF ExclusiveOwnership
    <2>3. (used \cap Usable)' = held' \cup InRegions'
      BY <1>1, <1>2, <1>4, <1>5 DEF ExclusiveOwnership
    <2>4. Frames \ Usable \subseteq used'
      BY <1>1 DEF ExclusiveOwnership
    <2> QED  BY <2>1, <2>2, <2>3, <2>4 DEF ExclusiveOwnership
  <1>8. StatsExact'
    <2>1. (used \cap Usable)' = (used \cap Usable) \cup Run(r)
      BY <1>1, <1>2, <1>4
    <2>2. IsFiniteSet(used \cap Usable) /\ IsFiniteSet(Run(r))
      BY FramesFinite, <1>3 DEF TypeOK
    <2>3. Cardinality(Run(r)) = n
      BY <1>2, FS_Interval DEF Frames
    <2>4. (used \cap Usable) \cap Run(r) = {}
      BY <1>3
    <2>5. Cardinality((used \cap Usable) \cup Run(r))
            = Cardinality(used \cap Usable) + n - Cardinality({})
      BY <2>2, <2>3, <2>4, FS_Union
    <2>6. Cardinality(used \cap Usable) \in Nat
      BY <2>2, FS_CardinalityType
    <2>7. Cardinality((used \cap Usable)') = Cardinality(used \cap Usable) + n
      <3>1. Cardinality((used \cap Usable) \cup Run(r)) = Cardinality(used \cap Usable) + n
        BY <2>5, <2>6, FS_EmptySet
      <3> QED  BY <2>1, <3>1
    <2> QED  BY <1>1, <2>7 DEF StatsExact
  <1> QED  BY <1>6, <1>7, <1>8

\* dealloc_dma_contig clears exactly the bits of one region.
LEMMA DeallocDmaStep ==
    ASSUME IInv, NEW r \in regions, dealloc_dma_contig(r)
    PROVE  IInv'
  <1> USE FrameAssumption, NumFramesNat DEF IInv
  <1>1. /\ r.start \in Frames /\ r.len \in 1 .. MaxRun
        /\ Run(r) = r.start .. r.start + r.len - 1
    BY DEF TypeOK, Run
  <1>2. Run(r) \subseteq InRegions
    BY DEF InRegions
  <1>3. Run(r) \subseteq used \cap Usable /\ Run(r) \cap held = {}
    BY <1>2 DEF ExclusiveOwnership
  <1>4. InRegions' = InRegions \ Run(r)
    <2>1. \A p, q \in regions : p # q => Run(p) \cap Run(q) = {}
      BY DEF ExclusiveOwnership
    <2> QED  BY <2>1, RegionsShrink DEF InRegions, dealloc_dma_contig
  <1>5. (used \cap Usable)' = (used \cap Usable) \ Run(r)
    BY DEF dealloc_dma_contig
  <1>6. /\ Cardinality((used \cap Usable) \ Run(r)) = Cardinality(used \cap Usable) - r.len
        /\ Cardinality((used \cap Usable) \ Run(r)) \in Nat
    <2>1. IsFiniteSet(used \cap Usable) /\ IsFiniteSet(Run(r))
      BY FramesFinite, <1>3 DEF TypeOK
    <2>2. Cardinality(Run(r)) = r.len
      <3>1. r.start \in Int /\ r.start + r.len - 1 \in Int /\ r.start <= r.start + r.len - 1
        BY <1>1 DEF Frames
      <3>2. Cardinality(r.start .. r.start + r.len - 1) = (r.start + r.len - 1) - r.start + 1
        BY <3>1, FS_Interval
      <3> QED  BY <1>1, <3>1, <3>2
    <2>3. (used \cap Usable) \cap Run(r) = Run(r)
      BY <1>3
    <2>4. /\ IsFiniteSet((used \cap Usable) \ Run(r))
          /\ Cardinality((used \cap Usable) \ Run(r))
               = Cardinality(used \cap Usable) - Cardinality((used \cap Usable) \cap Run(r))
      BY <2>1, FS_Difference
    <2> QED  BY <2>2, <2>3, <2>4, FS_CardinalityType
  <1>7. TypeOK'
    <2>1. next_free' \in 0 .. NumFrames
      BY <1>1 DEF TypeOK, dealloc_dma_contig, Lower, Frames
    <2>2. ALLOCATED_FRAMES' \in Nat
      BY <1>6 DEF dealloc_dma_contig, StatsExact
    <2> QED  BY <2>1, <2>2 DEF TypeOK, dealloc_dma_contig
  <1>8. ExclusiveOwnership'
    BY <1>3, <1>4, <1>5 DEF ExclusiveOwnership, dealloc_dma_contig
  <1>9. StatsExact'
    BY <1>5, <1>6 DEF StatsExact, dealloc_dma_contig
  <1> QED  BY <1>7, <1>8, <1>9

\* The inductive invariant of the allocator: every operation keeps the owners
\* disjoint and the counter exact.
THEOREM AllocatorInvariant == Spec => []IInv
  <1>1. IInv /\ [Next]_vars => IInv'
    <2> SUFFICES ASSUME IInv, [Next]_vars PROVE IInv'
      OBVIOUS
    <2>1. CASE allocate_frame
      BY <2>1, AllocateFrameStep
    <2>2. CASE \E f \in held : deallocate_frame(f)
      BY <2>2, DeallocateFrameStep
    <2>3. CASE \E n \in 1 .. MaxRun : allocate_contiguous_frames(n)
      BY <2>3, AllocateContiguousStep
    <2>4. CASE \E r \in regions : dealloc_dma_contig(r)
      BY <2>4, DeallocDmaStep
    <2>5. CASE UNCHANGED vars
      BY <2>5 DEF vars, IInv, TypeOK, ExclusiveOwnership, StatsExact, InRegions
    <2> QED  BY <2>1, <2>2, <2>3, <2>4, <2>5 DEF Next
  <1> QED  BY <1>1, InitIInv, PTL DEF Spec

\* No frame that allocate_frame or alloc_dma_contig handed out is handed out
\* again before it is given back.
THEOREM FramesHaveOneOwner == Spec => []ExclusiveOwnership
  BY AllocatorInvariant, PTL DEF IInv

\* memory_stats reports the number of usable frames whose bit is set.
THEOREM StatsAreExact == Spec => []StatsExact
  BY AllocatorInvariant, PTL DEF IInv

\* allocate_frame returns None only when every usable frame is taken: whatever
\* the hint, the two loops of find_free_frame cover the bitmap between them.
THEOREM SearchIsComplete == Spec => []SearchComplete
  <1>1. IInv => SearchComplete
    <2> SUFFICES ASSUME IInv PROVE SearchComplete
      OBVIOUS
    <2> USE FrameAssumption, NumFramesNat DEF IInv
    <2>1. AheadOfHint \subseteq Frames \ used /\ BeforeHint \subseteq Frames \ used
      BY DEF AheadOfHint, BeforeHint, FreeIn
    <2>2. start_byte \in Nat
      <3>1. next_free \in Nat
        BY DEF TypeOK
      <3> QED  BY <3>1 DEF start_byte
    <2>3. Frames \ used \subseteq AheadOfHint \cup BeforeHint
      <3> SUFFICES ASSUME NEW f \in Frames \ used
                   PROVE  f \in AheadOfHint \cup BeforeHint
        OBVIOUS
      <3>1. f \div ByteBits \in 0 .. BITMAP_SIZE - 1
        BY ByteOfFrame
      <3>2. f \div ByteBits \in start_byte .. BITMAP_SIZE - 1
              \/ f \div ByteBits \in 0 .. start_byte - 1
        BY <2>2, <3>1
      <3> QED  BY <3>2 DEF AheadOfHint, BeforeHint, FreeIn
    <2>4. ASSUME NEW f \in Frames, find_free_frame(f) PROVE f \in Usable \ used
      BY <2>1, <2>4 DEF find_free_frame, Lowest, ExclusiveOwnership
    <2>5. ASSUME ~ (Usable \subseteq used) PROVE \E f \in Frames : find_free_frame(f)
      <3>1. CASE AheadOfHint # {}
        <4>1. PICK f \in AheadOfHint : Lowest(f, AheadOfHint)
          BY <2>1, <3>1, LowestExists
        <4> QED  BY <2>1, <4>1 DEF find_free_frame
      <3>2. CASE AheadOfHint = {}
        <4>1. BeforeHint # {}
          BY <2>3, <2>5, <3>2
        <4>2. PICK f \in BeforeHint : Lowest(f, BeforeHint)
          BY <2>1, <4>1, LowestExists
        <4> QED  BY <2>1, <3>2, <4>2 DEF find_free_frame
      <3> QED  BY <3>1, <3>2
    <2> QED  BY <2>4, <2>5 DEF SearchComplete
  <1> QED  BY <1>1, AllocatorInvariant, PTL
=============================================================================
