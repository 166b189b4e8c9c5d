------------------------------- MODULE MCFat32 -------------------------------
(* Three clusters beside the root directory and two copies of the FAT: two    *)
(* files of two clusters do not fit, and two root entries are fewer than the  *)
(* names.  One power failure at any write.                                    *)
EXTENDS Fat32

\* What a damaged volume does next is not explored: no property is about it.
Sound == Safe(disk)

\* No call reads `last', no call but mount reads the free count, which acts on
\* nothing else, and none makes a difference by the data of a cluster that no
\* entry owns.  The action properties are checked on every step.
View ==
    LET owned == UNION {Owned(disk, s) : s \in UsedSlots(disk)}
    IN  <<disk.fat, disk.root, [c \in owned |-> disk.data[c]], crashes>>
=============================================================================
