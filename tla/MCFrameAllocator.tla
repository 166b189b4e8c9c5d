--------------------------- MODULE MCFrameAllocator ---------------------------
(* Twelve frames in bytes of six bits, seven of them usable.  A run of two or  *)
(* three skips the single free frame 6 and leaves the hint behind it in the    *)
(* same byte, or at the end of the bitmap.                                     *)
EXTENDS FrameAllocator

MCUsable == {1, 2, 6, 8, 9, 10, 11}
=============================================================================
