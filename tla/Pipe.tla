--------------------------------- MODULE Pipe ---------------------------------
(***************************************************************************)
(* The kernel pipes of src/syscall/pipe.rs: a table of ring buffers.  Every *)
(* function runs under the mutex PIPE_TABLE and, called from a system call, *)
(* with interrupts off, so a call is one step.  The functions are operators *)
(* on a pipe or on the table; module Descriptors calls them.                *)
(*                                                                          *)
(* The table is a Vec that grows up to MAX_PIPES and whose free slots are   *)
(* None: a slot that was never used is free as well, and `create' takes     *)
(* the first free one.                                                      *)
(***************************************************************************)
EXTENDS Integers, Sequences

CONSTANTS PIPE_BUF_SIZE,   \* 4096 in the source
          MAX_PIPES,       \* 64 in the source
          Bytes,
          Zero,            \* the byte a new buffer is filled with
          MaxLen           \* bound: length of the buffers given to read and write

ASSUME PipeAssumption ==
    /\ PIPE_BUF_SIZE \in Nat \ {0} /\ MAX_PIPES \in Nat /\ MaxLen \in Nat
    /\ Zero \in Bytes

VARIABLES pipes,
          io     \* the bytes that the last write took or the last read returned

pipe_vars == <<pipes, io>>

PipeIds == 1 .. MAX_PIPES
Cells == 0 .. PIPE_BUF_SIZE - 1

Shorter(a, b) == IF a < b THEN a ELSE b

Data == UNION {[1 .. n -> Bytes] : n \in 1 .. MaxLen}

-----------------------------------------------------------------------------
(* One pipe *)

PipeType == [in_use : BOOLEAN, buffer : [Cells -> Bytes], read_pos : Cells, write_pos : Cells,
             count : 0 .. PIPE_BUF_SIZE, read_open : BOOLEAN, write_open : BOOLEAN]

\* Pipe::new
NewPipe == [in_use |-> TRUE, buffer |-> [c \in Cells |-> Zero], read_pos |-> 0, write_pos |-> 0,
            count |-> 0, read_open |-> TRUE, write_open |-> TRUE]

\* A None slot.
NoPipe == [in_use |-> FALSE, buffer |-> [c \in Cells |-> Zero], read_pos |-> 0, write_pos |-> 0,
           count |-> 0, read_open |-> FALSE, write_open |-> FALSE]

to_read(p, len) == Shorter(len, p.count)

\* The bytes that n iterations of the loop of Pipe::read copy.
Copied(p, n) == [k \in 1 .. n |-> p.buffer[(p.read_pos + k - 1) % PIPE_BUF_SIZE]]

AfterRead(p, n) ==
    [p EXCEPT !.read_pos = (@ + n) % PIPE_BUF_SIZE, !.count = @ - n]

\* Mutant: a full pipe takes one more byte.
to_writeOver(p, data) == Shorter(Len(data), PIPE_BUF_SIZE + 1 - p.count)

to_write(p, data) == Shorter(Len(data), PIPE_BUF_SIZE - p.count)

\* How far cell c is after write_pos, going round.
Ahead(p, c) == IF c >= p.write_pos THEN c - p.write_pos ELSE c - p.write_pos + PIPE_BUF_SIZE

\* Mutant: write_pos is not wrapped to the start of the buffer.
AfterWriteNoWrap(p, data, n) ==
    [p EXCEPT !.buffer = [c \in Cells |-> IF c >= p.write_pos /\ Ahead(p, c) < n
                                          THEN data[Ahead(p, c) + 1] ELSE p.buffer[c]],
              !.write_pos = (@ + n) % PIPE_BUF_SIZE, !.count = @ + n]

\* The loop of Pipe::write stores n bytes from write_pos on, going round.
AfterWrite(p, data, n) ==
    [p EXCEPT !.buffer = [c \in Cells |-> IF Ahead(p, c) < n THEN data[Ahead(p, c) + 1] ELSE p.buffer[c]],
              !.write_pos = (@ + n) % PIPE_BUF_SIZE, !.count = @ + n]

\* Mutant: close_read without the call to cleanup.
AfterCloseReadNoCleanup(p) == [p EXCEPT !.read_open = FALSE]

\* close_read and close_write, then cleanup.
AfterCloseRead(p) == IF p.write_open THEN [p EXCEPT !.read_open = FALSE] ELSE NoPipe

AfterCloseWrite(p) == IF p.read_open THEN [p EXCEPT !.write_open = FALSE] ELSE NoPipe

-----------------------------------------------------------------------------
(* The table *)

FreeIds(t) == {i \in PipeIds : ~t[i].in_use}

FirstFree(t) == CHOOSE i \in FreeIds(t) : \A j \in FreeIds(t) : i <= j

Set(t, i, p) == [t EXCEPT ![i] = p]

ClosedRead(t, i) == IF t[i].in_use THEN Set(t, i, AfterCloseRead(t[i])) ELSE t

ClosedWrite(t, i) == IF t[i].in_use THEN Set(t, i, AfterCloseWrite(t[i])) ELSE t

\* The table after a read or write, unchanged where the call returns an error, a
\* 0 for end of file, or WouldBlock.
AfterPipeRead(t, i, len) ==
    IF t[i].in_use /\ t[i].count > 0 THEN Set(t, i, AfterRead(t[i], to_read(t[i], len))) ELSE t

AfterPipeWrite(t, i, data) ==
    IF t[i].in_use /\ t[i].read_open /\ to_write(t[i], data) > 0
    THEN Set(t, i, AfterWrite(t[i], data, to_write(t[i], data))) ELSE t

-----------------------------------------------------------------------------
(* The calls *)

PipeInit == pipes = [i \in PipeIds |-> NoPipe] /\ io = <<>>

create_pipe ==
    /\ FreeIds(pipes) # {}
    /\ pipes' = Set(pipes, FirstFree(pipes), NewPipe)
    /\ UNCHANGED io

pipe_read(i, len) ==
    /\ pipes[i].in_use /\ pipes[i].count > 0
    /\ pipes' = AfterPipeRead(pipes, i, len)
    /\ io' = Copied(pipes[i], to_read(pipes[i], len))

pipe_write(i, data) ==
    /\ pipes[i].in_use /\ pipes[i].read_open /\ to_write(pipes[i], data) > 0
    /\ pipes' = AfterPipeWrite(pipes, i, data)
    /\ io' = SubSeq(data, 1, to_write(pipes[i], data))

pipe_close_read(i) ==
    /\ pipes[i].in_use
    /\ pipes' = ClosedRead(pipes, i)
    /\ UNCHANGED io

pipe_close_write(i) ==
    /\ pipes[i].in_use
    /\ pipes' = ClosedWrite(pipes, i)
    /\ UNCHANGED io

PipeNext ==
    \/ create_pipe
    \/ \E i \in PipeIds :
        \/ pipe_close_read(i) \/ pipe_close_write(i)
        \/ \E len \in 1 .. MaxLen : pipe_read(i, len)
        \/ \E data \in Data : pipe_write(i, data)

PipeSpec == PipeInit /\ [][PipeNext]_pipe_vars

-----------------------------------------------------------------------------
(* Properties *)

\* Every slot of PIPE_TABLE holds a ring whose positions and count are in range.
PipeTypeOK == pipes \in [PipeIds -> PipeType]

\* The positions agree with the count: write_pos is count cells after read_pos.
\* A pipe in use has an open end, and a free slot has none.
RingConsistent ==
    \A i \in PipeIds :
        LET p == pipes[i] IN
        /\ p.write_pos = (p.read_pos + p.count) % PIPE_BUF_SIZE
        /\ p.in_use <=> (p.read_open \/ p.write_open)

\* The bytes in the ring, oldest first.
Contents(p) == Copied(p, p.count)

Chan(p) == [in_use |-> p.in_use, queue |-> Contents(p), read_open |-> p.read_open,
            write_open |-> p.write_open]

Fifo == INSTANCE FifoPipe
            WITH chan <- [i \in PipeIds |-> Chan(pipes[i])], io <- io,
                 Ids <- PipeIds, Bytes <- Bytes, Capacity <- PIPE_BUF_SIZE, MaxLen <- MaxLen

\* The ring buffers implement first-in first-out queues: whatever the positions,
\* with wrap-around, partial reads and partial writes, a read returns the oldest
\* bytes in order, and a reused slot starts empty.
FifoSpec == Fifo!Spec
=============================================================================
