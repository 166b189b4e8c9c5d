------------------------------- MODULE FifoPipe -------------------------------
(* What a table of pipes promises: each pipe is a bounded first-in first-out  *)
(* queue of bytes with two ends.  A write takes the longest prefix of the data *)
(* that fits, a read returns the oldest bytes.                                 *)
EXTENDS Integers, Sequences

CONSTANTS Ids, Bytes, Capacity, MaxLen

VARIABLES chan,   \* the pipe of each id: in_use, queue, read_open, write_open
          io      \* the bytes that the last write took or the last read returned

Shorter(a, b) == IF a < b THEN a ELSE b

Data == UNION {[1 .. n -> Bytes] : n \in 1 .. MaxLen}

NoChan == [in_use |-> FALSE, queue |-> <<>>, read_open |-> FALSE, write_open |-> FALSE]

NewChan == [in_use |-> TRUE, queue |-> <<>>, read_open |-> TRUE, write_open |-> TRUE]

Init == chan = [i \in Ids |-> NoChan] /\ io = <<>>

Create(i) ==
    /\ ~chan[i].in_use
    /\ chan' = [chan EXCEPT ![i] = NewChan]
    /\ io' = io

Write(i, data) ==
    LET n == Shorter(Len(data), Capacity - Len(chan[i].queue)) IN
    /\ chan[i].in_use /\ chan[i].read_open
    /\ chan' = [chan EXCEPT ![i].queue = @ \o SubSeq(data, 1, n)]
    /\ io' = SubSeq(data, 1, n)

Read(i, len) ==
    LET q == chan[i].queue
        n == Shorter(len, Len(q))
    IN  /\ chan[i].in_use /\ q # <<>>
        /\ chan' = [chan EXCEPT ![i].queue = SubSeq(q, n + 1, Len(q))]
        /\ io' = SubSeq(q, 1, n)

\* The pipe is gone, with the bytes nobody can read any more, when the second
\* end is closed.
CloseRead(i) ==
    /\ chan[i].in_use
    /\ chan' = [chan EXCEPT ![i] = IF @.write_open THEN [@ EXCEPT !.read_open = FALSE] ELSE NoChan]
    /\ io' = io

CloseWrite(i) ==
    /\ chan[i].in_use
    /\ chan' = [chan EXCEPT ![i] = IF @.read_open THEN [@ EXCEPT !.write_open = FALSE] ELSE NoChan]
    /\ io' = io

Next ==
    \E i \in Ids :
        \/ Create(i) \/ CloseRead(i) \/ CloseWrite(i)
        \/ \E data \in Data : Write(i, data)
        \/ \E len \in 1 .. MaxLen : Read(i, len)

Spec == Init /\ [][Next]_<<chan, io>>
=============================================================================
