------------------------------ MODULE PipeProofs ------------------------------
(* The ring buffers of module Pipe implement the queues of module FifoPipe,     *)
(* for every buffer size, number of pipes, set of bytes and length of a call.   *)
EXTENDS Pipe, SequenceTheorems, NaturalsInduction, WellFoundedInduction, TLAPS

-----------------------------------------------------------------------------
(* Positions *)

Wrapped(x) == IF x < PIPE_BUF_SIZE THEN x ELSE x - PIPE_BUF_SIZE

\* A position that went round at most once is brought back by one subtraction.
LEMMA WrapOnce ==
  ASSUME NEW x \in 0 .. 2 * PIPE_BUF_SIZE - 1
  PROVE  x % PIPE_BUF_SIZE = Wrapped(x)
  <1>1. PIPE_BUF_SIZE \in Nat \ {0}
    BY PipeAssumption
  <1>2. CASE x < PIPE_BUF_SIZE
    BY <1>1, <1>2 DEF Wrapped
  <1>3. CASE x >= PIPE_BUF_SIZE
    <2>1. x - PIPE_BUF_SIZE \in 0 .. PIPE_BUF_SIZE - 1
      BY <1>1, <1>3
    <2>2. x = PIPE_BUF_SIZE * 1 + (x - PIPE_BUF_SIZE)
      BY <1>1
    <2> QED  BY <1>1, <1>3, <2>1, <2>2 DEF Wrapped
  <1> QED  BY <1>1, <1>2, <1>3

\* How far position c is after position w, going round.
Gap(w, c) == IF c >= w THEN c - w ELSE c - w + PIPE_BUF_SIZE

\* With c bytes from position r on, the next n free cells follow them.
LEMMA FreeCellsFollow ==
  ASSUME NEW r \in 0 .. PIPE_BUF_SIZE - 1, NEW c \in 0 .. PIPE_BUF_SIZE,
         NEW n \in 0 .. PIPE_BUF_SIZE - c
  PROVE  /\ r + c \in 0 .. 2 * PIPE_BUF_SIZE - 1
         /\ r + (c + n) \in 0 .. 2 * PIPE_BUF_SIZE - 1
         /\ Wrapped(r + c) \in 0 .. PIPE_BUF_SIZE - 1
         /\ Wrapped(r + c) + n \in 0 .. 2 * PIPE_BUF_SIZE - 1
         /\ Wrapped(Wrapped(r + c) + n) \in 0 .. PIPE_BUF_SIZE - 1
         /\ Wrapped(r + (c + n)) = Wrapped(Wrapped(r + c) + n)
         /\ \A k \in 1 .. c : ~(Gap(Wrapped(r + c), Wrapped(r + k - 1)) < n)
         /\ \A j \in 1 .. n : Gap(Wrapped(r + c), Wrapped(r + (c + j) - 1)) = j - 1
  BY PipeAssumption DEF Wrapped, Gap

\* What RingConsistent says of one pipe.
Ring(p) ==
    /\ p.write_pos = (p.read_pos + p.count) % PIPE_BUF_SIZE
    /\ p.in_use <=> (p.read_open \/ p.write_open)

\* The cell that the k-th byte from read_pos is in.
Cell(p, k) == (p.read_pos + k - 1) % PIPE_BUF_SIZE

LEMMA CellInRange ==
  ASSUME NEW p \in PipeType, NEW k \in 1 .. PIPE_BUF_SIZE
  PROVE  /\ Cell(p, k) \in Cells
         /\ Cell(p, k) = Wrapped(p.read_pos + k - 1)
  <1>1. PIPE_BUF_SIZE \in Nat \ {0} /\ p.read_pos \in 0 .. PIPE_BUF_SIZE - 1
    BY PipeAssumption DEF PipeType, Cells
  <1>2. p.read_pos + k - 1 \in 0 .. 2 * PIPE_BUF_SIZE - 1
    BY <1>1
  <1>3. Cell(p, k) = Wrapped(p.read_pos + k - 1)
    BY <1>2, WrapOnce, Zenon DEF Cell
  <1> QED  BY <1>1, <1>2, <1>3 DEF Cells, Wrapped

LEMMA CopiedIsSeq ==
  ASSUME NEW p \in PipeType, NEW n \in 0 .. p.count
  PROVE  /\ Copied(p, n) \in Seq(Bytes)
         /\ Len(Copied(p, n)) = n
         /\ \A k \in 1 .. n : Copied(p, n)[k] = p.buffer[Cell(p, k)]
  <1>1. PIPE_BUF_SIZE \in Nat \ {0} /\ p.count \in 0 .. PIPE_BUF_SIZE /\ p.buffer \in [Cells -> Bytes]
    BY PipeAssumption DEF PipeType
  <1>2. n \in Nat /\ 1 .. n \subseteq 1 .. PIPE_BUF_SIZE
    BY <1>1
  <1>3. \A k \in 1 .. n : p.buffer[Cell(p, k)] \in Bytes
    BY <1>1, <1>2, CellInRange
  <1>4. Copied(p, n) = [k \in 1 .. n |-> p.buffer[Cell(p, k)]]
    BY Zenon DEF Copied, Cell
  <1>5. Copied(p, n) \in [1 .. n -> Bytes]
    BY <1>3, <1>4
  <1> QED  BY <1>2, <1>4, <1>5
LEMMA ReadFieldsTyped ==
  ASSUME NEW p \in PipeType, NEW r \in Cells, NEW c \in 0 .. PIPE_BUF_SIZE
  PROVE  [p EXCEPT !.read_pos = r, !.count = c] \in PipeType
  BY DEF PipeType

LEMMA WriteFieldsTyped ==
  ASSUME NEW p \in PipeType, NEW b \in [Cells -> Bytes], NEW w \in Cells,
         NEW c \in 0 .. PIPE_BUF_SIZE
  PROVE  [p EXCEPT !.buffer = b, !.write_pos = w, !.count = c] \in PipeType
  BY DEF PipeType

-----------------------------------------------------------------------------
(* One pipe against one queue *)

\* A read of n bytes takes the first n of the queue and leaves the others.
LEMMA ReadTakesOldest ==
  ASSUME NEW p \in PipeType, Ring(p), NEW n \in 0 .. p.count
  PROVE  /\ AfterRead(p, n) \in PipeType
         /\ Ring(AfterRead(p, n))
         /\ Contents(AfterRead(p, n)) = SubSeq(Contents(p), n + 1, Len(Contents(p)))
         /\ Copied(p, n) = SubSeq(Contents(p), 1, n)
  <1> DEFINE N == PIPE_BUF_SIZE
             q == AfterRead(p, n)
  <1>1. /\ N \in Nat \ {0} /\ p.count \in 0 .. N /\ n \in 0 .. N
        /\ p.read_pos \in 0 .. N - 1 /\ p.write_pos \in 0 .. N - 1
    BY PipeAssumption DEF PipeType, Cells
  <1>2. p.read_pos + n \in 0 .. 2 * N - 1
    BY <1>1
  <1>3. (p.read_pos + n) % N = Wrapped(p.read_pos + n)
    BY <1>2, WrapOnce, Zenon
  <1>4. (p.read_pos + n) % N \in 0 .. N - 1
    BY <1>1, <1>2, <1>3 DEF Wrapped
  <1>5. q \in PipeType
    <2>1. (p.read_pos + n) % N \in Cells /\ p.count - n \in 0 .. N
      BY <1>1, <1>4 DEF Cells
    <2> QED  BY <2>1, ReadFieldsTyped DEF AfterRead
  <1>6. /\ q.read_pos = (p.read_pos + n) % N /\ q.count = p.count - n
        /\ q.write_pos = p.write_pos /\ q.buffer = p.buffer
        /\ q.in_use = p.in_use /\ q.read_open = p.read_open /\ q.write_open = p.write_open
    BY DEF AfterRead, PipeType
  <1> HIDE DEF q
  <1>7. \A k \in 1 .. p.count - n : Cell(q, k) = Cell(p, n + k)
    <2> SUFFICES ASSUME NEW k \in 1 .. p.count - n  PROVE Cell(q, k) = Cell(p, n + k)
      OBVIOUS
    <2>1. k \in 1 .. N /\ n + k \in 1 .. N
      BY <1>1
    <2>2. Cell(q, k) = Wrapped(q.read_pos + k - 1)
      BY <1>5, <2>1, CellInRange
    <2>3. Cell(p, n + k) = Wrapped(p.read_pos + (n + k) - 1)
      BY <2>1, CellInRange
    <2> QED  BY <1>1, <1>3, <1>6, <2>1, <2>2, <2>3 DEF Wrapped
  <1>8. Ring(q)
    <2>1. q.read_pos + q.count \in 0 .. 2 * N - 1 /\ p.read_pos + p.count \in 0 .. 2 * N - 1
      BY <1>1, <1>4, <1>6
    <2>2. (q.read_pos + q.count) % N = Wrapped(q.read_pos + q.count)
      BY <2>1, WrapOnce, Zenon
    <2>3. (p.read_pos + p.count) % N = Wrapped(p.read_pos + p.count)
      BY <2>1, WrapOnce, Zenon
    <2>4. (q.read_pos + q.count) % N = (p.read_pos + p.count) % N
      BY <1>1, <1>3, <1>6, <2>2, <2>3 DEF Wrapped
    <2> QED  BY <1>6, <2>4 DEF Ring
  <1>9. /\ Contents(p) \in Seq(Bytes) /\ Len(Contents(p)) = p.count
        /\ \A k \in 1 .. p.count : Contents(p)[k] = p.buffer[Cell(p, k)]
    <2>1. p.count \in 0 .. p.count
      BY <1>1
    <2> QED  BY <2>1, CopiedIsSeq DEF Contents
  <1>10. /\ Contents(q) \in Seq(Bytes) /\ Len(Contents(q)) = q.count
         /\ \A k \in 1 .. q.count : Contents(q)[k] = q.buffer[Cell(q, k)]
    <2>1. q.count \in 0 .. q.count
      BY <1>1, <1>6
    <2> QED  BY <1>5, <2>1, CopiedIsSeq DEF Contents
  <1>11. /\ Copied(p, n) \in Seq(Bytes) /\ Len(Copied(p, n)) = n
         /\ \A k \in 1 .. n : Copied(p, n)[k] = p.buffer[Cell(p, k)]
    BY CopiedIsSeq
  <1>12. \A i \in 1 .. p.count : Contents(p)[i] \in Bytes
    BY <1>9, ElementOfSeq
  <1>13. Contents(q) = SubSeq(Contents(p), n + 1, p.count)
    <2> DEFINE s == SubSeq(Contents(p), n + 1, p.count)
    <2>1. \A i \in n + 1 .. p.count : Contents(p)[i] \in Bytes
      BY <1>1, <1>12
    <2>2. n + 1 \in Int /\ p.count \in Int
      BY <1>1
    <2>3. /\ s \in Seq(Bytes) /\ Len(s) = IF n + 1 <= p.count THEN p.count - (n + 1) + 1 ELSE 0
          /\ \A i \in 1 .. p.count - (n + 1) + 1 : s[i] = Contents(p)[(n + 1) + i - 1]
      BY <2>1, <2>2, SubSeqProperties
    <2> HIDE DEF s
    <2>4. Len(s) = p.count - n /\ \A i \in 1 .. p.count - n : s[i] = Contents(p)[n + i]
      BY <1>1, <2>3
    <2>5. \A i \in 1 .. p.count - n : s[i] = p.buffer[Cell(p, n + i)]
      BY <1>1, <1>9, <2>4
    <2>6. \A i \in 1 .. Len(s) : Contents(q)[i] = s[i]
      BY <1>6, <1>7, <1>10, <2>4, <2>5
    <2>7. Contents(q) = s
      BY <1>6, <1>10, <2>3, <2>4, <2>6, SeqEqual
    <2> QED  BY <2>7 DEF s
  <1>14. Copied(p, n) = SubSeq(Contents(p), 1, n)
    <2> DEFINE s == SubSeq(Contents(p), 1, n)
    <2>1. \A i \in 1 .. n : Contents(p)[i] \in Bytes
      BY <1>1, <1>12
    <2>2. /\ s \in Seq(Bytes) /\ Len(s) = IF 1 <= n THEN n - 1 + 1 ELSE 0
          /\ \A i \in 1 .. n - 1 + 1 : s[i] = Contents(p)[1 + i - 1]
      BY <1>1, <2>1, SubSeqProperties
    <2> HIDE DEF s
    <2>3. Len(s) = n /\ \A i \in 1 .. n : s[i] = Contents(p)[i]
      BY <1>1, <2>2
    <2>4. \A i \in 1 .. n : Copied(p, n)[i] = s[i]
      <3> SUFFICES ASSUME NEW i \in 1 .. n  PROVE Copied(p, n)[i] = s[i]
        OBVIOUS
      <3>1. i \in 1 .. p.count
        BY <1>1
      <3>2. Contents(p)[i] = p.buffer[Cell(p, i)]
        BY <1>9, <3>1, Zenon
      <3>3. Copied(p, n)[i] = p.buffer[Cell(p, i)] /\ s[i] = Contents(p)[i]
        BY <1>11, <2>3, Zenon
      <3> QED  BY <3>2, <3>3, Zenon
    <2>5. Copied(p, n) = s
      BY <1>11, <2>2, <2>3, <2>4, SeqEqual
    <2> QED  BY <2>5 DEF s
  <1> QED  BY <1>5, <1>8, <1>9, <1>13, <1>14 DEF q

\* A write of n bytes that fit puts them behind the queue.
LEMMA WriteAppends ==
  ASSUME NEW p \in PipeType, Ring(p), NEW m \in Nat, NEW data \in [1 .. m -> Bytes],
         NEW n \in 0 .. m, n <= PIPE_BUF_SIZE - p.count
  PROVE  /\ AfterWrite(p, data, n) \in PipeType
         /\ Ring(AfterWrite(p, data, n))
         /\ Contents(AfterWrite(p, data, n)) = Contents(p) \o SubSeq(data, 1, n)
  <1> DEFINE N == PIPE_BUF_SIZE
             q == AfterWrite(p, data, n)
             b == [c \in Cells |-> IF Ahead(p, c) < n THEN data[Ahead(p, c) + 1] ELSE p.buffer[c]]
             d == SubSeq(data, 1, n)
  <1>1. /\ N \in Nat \ {0} /\ p.count \in 0 .. N /\ n \in 0 .. N - p.count
        /\ p.read_pos \in 0 .. N - 1 /\ p.write_pos \in 0 .. N - 1
        /\ p.buffer \in [Cells -> Bytes]
    BY PipeAssumption DEF PipeType, Cells
  <1>2. \A c \in Cells : Ahead(p, c) = Gap(p.write_pos, c) /\ Ahead(p, c) \in 0 .. N - 1
    <2> SUFFICES ASSUME NEW c \in Cells
                 PROVE  Ahead(p, c) = Gap(p.write_pos, c) /\ Ahead(p, c) \in 0 .. N - 1
      OBVIOUS
    <2>1. Ahead(p, c) = Gap(p.write_pos, c)
      BY Zenon DEF Ahead, Gap
    <2>2. c \in 0 .. N - 1 /\ N \in Nat
      BY <1>1 DEF Cells
    <2>3. \A w \in 0 .. N - 1 : Gap(w, c) \in 0 .. N - 1
      BY <2>2 DEF Gap
    <2> QED  BY <1>1, <2>1, <2>3, Zenon
  <1>3. b \in [Cells -> Bytes]
    <2> SUFFICES ASSUME NEW c \in Cells
                 PROVE  (IF Ahead(p, c) < n THEN data[Ahead(p, c) + 1] ELSE p.buffer[c]) \in Bytes
      OBVIOUS
    <2>1. Ahead(p, c) < n => Ahead(p, c) + 1 \in 1 .. m
      BY <1>1, <1>2
    <2> QED  BY <1>1, <2>1
  <1>4. /\ p.write_pos = Wrapped(p.read_pos + p.count)
        /\ (p.write_pos + n) % N = Wrapped(p.write_pos + n)
        /\ (p.read_pos + (p.count + n)) % N = (p.write_pos + n) % N
        /\ (p.write_pos + n) % N \in 0 .. N - 1
    <2>1. p.write_pos = Wrapped(p.read_pos + p.count)
      BY <1>1, FreeCellsFollow, WrapOnce DEF Ring
    <2>2. p.write_pos + n \in 0 .. 2 * N - 1 /\ p.read_pos + (p.count + n) \in 0 .. 2 * N - 1
      BY <1>1, <2>1, FreeCellsFollow
    <2>3. (p.write_pos + n) % N = Wrapped(p.write_pos + n)
      BY <2>2, WrapOnce, Zenon
    <2>4. (p.read_pos + (p.count + n)) % N = Wrapped(p.read_pos + (p.count + n))
      BY <2>2, WrapOnce, Zenon
    <2>5. /\ Wrapped(p.read_pos + (p.count + n)) = Wrapped(p.write_pos + n)
          /\ Wrapped(p.write_pos + n) \in 0 .. N - 1
      <3>1. /\ Wrapped(p.read_pos + (p.count + n)) = Wrapped(Wrapped(p.read_pos + p.count) + n)
            /\ Wrapped(Wrapped(p.read_pos + p.count) + n) \in 0 .. N - 1
        BY <1>1, FreeCellsFollow, Zenon
      <3> QED  BY <2>1, <3>1, Zenon
    <2> QED  BY <2>1, <2>3, <2>4, <2>5, Zenon
  <1>5. p.count + n \in 0 .. N
    BY <1>1
  <1>6. q \in PipeType
    <2>1. (p.write_pos + n) % N \in Cells
      BY <1>4, Zenon DEF Cells
    <2> QED  BY <1>3, <1>5, <2>1, WriteFieldsTyped DEF AfterWrite
  <1>7. /\ q.read_pos = p.read_pos /\ q.count = p.count + n
        /\ q.write_pos = (p.write_pos + n) % N /\ q.buffer = b
        /\ q.in_use = p.in_use /\ q.read_open = p.read_open /\ q.write_open = p.write_open
    BY DEF AfterWrite, PipeType
  <1>8. \A c \in Cells : b[c] = IF Ahead(p, c) < n THEN data[Ahead(p, c) + 1] ELSE p.buffer[c]
    OBVIOUS
  <1> HIDE DEF q, b
  <1>9. Ring(q)
    BY <1>4, <1>7, Zenon DEF Ring
  <1>10. \A k \in 1 .. N : Cell(p, k) \in Cells /\ Cell(p, k) = Wrapped(p.read_pos + k - 1)
    BY CellInRange
  <1>11. \A k \in 1 .. p.count : b[Cell(p, k)] = p.buffer[Cell(p, k)]
    <2> SUFFICES ASSUME NEW k \in 1 .. p.count  PROVE b[Cell(p, k)] = p.buffer[Cell(p, k)]
      OBVIOUS
    <2>1. k \in 1 .. N
      BY <1>1
    <2>2. ~(Gap(p.write_pos, Cell(p, k)) < n)
      BY <1>1, <1>4, <1>10, <2>1, FreeCellsFollow
    <2>3. ~(Ahead(p, Cell(p, k)) < n)
      BY <1>2, <1>10, <2>1, <2>2
    <2> QED  BY <1>8, <1>10, <2>1, <2>3
  <1>12. \A j \in 1 .. n : b[Cell(p, p.count + j)] = data[j]
    <2> SUFFICES ASSUME NEW j \in 1 .. n  PROVE b[Cell(p, p.count + j)] = data[j]
      OBVIOUS
    <2>1. p.count + j \in 1 .. N
      BY <1>1
    <2>2. /\ Cell(p, p.count + j) \in Cells
          /\ Cell(p, p.count + j) = Wrapped(p.read_pos + (p.count + j) - 1)
      BY <1>10, <2>1
    <2>3. Gap(p.write_pos, Cell(p, p.count + j)) = j - 1
      <3>1. \A i \in 1 .. n :
                Gap(Wrapped(p.read_pos + p.count), Wrapped(p.read_pos + (p.count + i) - 1)) = i - 1
        BY <1>1, FreeCellsFollow, Zenon
      <3> QED  BY <1>4, <2>2, <3>1
    <2>4. Ahead(p, Cell(p, p.count + j)) = j - 1
      BY <1>2, <2>2, <2>3
    <2>5. b[Cell(p, p.count + j)] = data[(j - 1) + 1]
      BY <1>1, <1>8, <2>2, <2>4
    <2>6. (j - 1) + 1 = j
      BY <1>1
    <2> QED  BY <2>5, <2>6
  <1>13. /\ Contents(p) \in Seq(Bytes) /\ Len(Contents(p)) = p.count
         /\ \A k \in 1 .. p.count : Contents(p)[k] = p.buffer[Cell(p, k)]
    <2>1. p.count \in 0 .. p.count
      BY <1>1
    <2> QED  BY <2>1, CopiedIsSeq DEF Contents
  <1>14. /\ Contents(q) \in Seq(Bytes) /\ Len(Contents(q)) = p.count + n
         /\ \A k \in 1 .. p.count + n : Contents(q)[k] = b[Cell(p, k)]
    <2>1. q.count \in 0 .. q.count
      BY <1>5, <1>7
    <2>2. /\ Contents(q) \in Seq(Bytes) /\ Len(Contents(q)) = q.count
          /\ \A k \in 1 .. q.count : Contents(q)[k] = q.buffer[Cell(q, k)]
      BY <1>6, <2>1, CopiedIsSeq DEF Contents
    <2>3. \A k : Cell(q, k) = Cell(p, k)
      BY <1>7, Zenon DEF Cell
    <2> QED  BY <1>7, <2>2, <2>3, Zenon
  <1>15. /\ d \in Seq(Bytes) /\ Len(d) = n /\ \A i \in 1 .. n : d[i] = data[i]
    <2>1. n \in Int /\ \A i \in 1 .. n : data[i] \in Bytes
      BY <1>1
    <2>2. /\ d \in Seq(Bytes) /\ Len(d) = IF 1 <= n THEN n - 1 + 1 ELSE 0
          /\ \A i \in 1 .. n - 1 + 1 : d[i] = data[1 + i - 1]
      BY <2>1, SubSeqProperties
    <2> HIDE DEF d
    <2> QED  BY <2>1, <2>2, <1>1
  <1> HIDE DEF d
  <1>16. /\ Contents(p) \o d \in Seq(Bytes) /\ Len(Contents(p) \o d) = p.count + n
         /\ \A i \in 1 .. p.count + n : (Contents(p) \o d)[i] =
                IF i <= p.count THEN Contents(p)[i] ELSE d[i - p.count]
    <2>1. /\ Contents(p) \o d \in Seq(Bytes)
          /\ Len(Contents(p) \o d) = Len(Contents(p)) + Len(d)
          /\ \A i \in 1 .. Len(Contents(p)) + Len(d) : (Contents(p) \o d)[i] =
                IF i <= Len(Contents(p)) THEN Contents(p)[i] ELSE d[i - Len(Contents(p))]
      BY <1>13, <1>15, ConcatProperties, Zenon
    <2>2. Len(Contents(p)) = p.count /\ Len(d) = n
      BY <1>13, <1>15
    <2> QED  BY <2>1, <2>2, Zenon
  <1>17. \A i \in 1 .. p.count + n : Contents(q)[i] = (Contents(p) \o d)[i]
    <2> SUFFICES ASSUME NEW i \in 1 .. p.count + n  PROVE Contents(q)[i] = (Contents(p) \o d)[i]
      OBVIOUS
    <2>1. Contents(q)[i] = b[Cell(p, i)]
      BY <1>14
    <2>2. CASE i <= p.count
      <3>1. i \in 1 .. p.count
        BY <1>1, <2>2
      <3>2. (Contents(p) \o d)[i] = Contents(p)[i]
        BY <1>16, <2>2
      <3> QED  BY <1>11, <1>13, <2>1, <3>1, <3>2
    <2>3. CASE ~(i <= p.count)
      <3>1. i - p.count \in 1 .. n /\ p.count + (i - p.count) = i
        BY <1>1, <2>3
      <3>2. b[Cell(p, i)] = data[i - p.count]
        <4>1. b[Cell(p, p.count + (i - p.count))] = data[i - p.count]
          BY <1>12, <3>1, Zenon
        <4> QED  BY <3>1, <4>1
      <3>3. (Contents(p) \o d)[i] = d[i - p.count]
        BY <1>16, <2>3
      <3>4. d[i - p.count] = data[i - p.count]
        BY <1>15, <3>1, Zenon
      <3> QED  BY <2>1, <3>2, <3>3, <3>4, Zenon
    <2> QED  BY <2>2, <2>3
  <1>18. Contents(q) = Contents(p) \o d
    <2>1. Len(Contents(q)) = Len(Contents(p) \o d)
      BY <1>14, <1>16
    <2>2. \A i \in 1 .. Len(Contents(q)) : Contents(q)[i] = (Contents(p) \o d)[i]
      BY <1>14, <1>17, Zenon
    <2> QED  BY <1>14, <1>16, <2>1, <2>2, SeqEqual, Zenon
  <1> QED  BY <1>6, <1>9, <1>18 DEF q, d

\* A slot that is new or None holds no bytes.
LEMMA FreshPipes ==
  /\ NewPipe \in PipeType /\ Ring(NewPipe) /\ Contents(NewPipe) = <<>>
  /\ NoPipe \in PipeType /\ Ring(NoPipe) /\ Contents(NoPipe) = <<>>
  <1>1. PIPE_BUF_SIZE \in Nat \ {0} /\ 0 % PIPE_BUF_SIZE = 0 /\ Zero \in Bytes
    BY PipeAssumption
  <1>2. NewPipe \in PipeType /\ NoPipe \in PipeType
    BY <1>1 DEF NewPipe, NoPipe, PipeType, Cells
  <1>3. Ring(NewPipe) /\ Ring(NoPipe)
    BY <1>1 DEF Ring, NewPipe, NoPipe
  <1>4. Contents(NewPipe) = <<>> /\ Contents(NoPipe) = <<>>
    BY <1>1 DEF Contents, Copied, NewPipe, NoPipe
  <1> QED  BY <1>2, <1>3, <1>4

\* Closing an end, and a slot that is None or new.
LEMMA EndsKeepQueue ==
  ASSUME NEW p \in PipeType, Ring(p)
  PROVE  /\ AfterCloseRead(p) \in PipeType /\ Ring(AfterCloseRead(p))
         /\ AfterCloseWrite(p) \in PipeType /\ Ring(AfterCloseWrite(p))
         /\ p.write_open => /\ AfterCloseRead(p).in_use = p.in_use
                            /\ AfterCloseRead(p).read_open = FALSE
                            /\ AfterCloseRead(p).write_open = p.write_open
                            /\ Contents(AfterCloseRead(p)) = Contents(p)
         /\ p.read_open => /\ AfterCloseWrite(p).in_use = p.in_use
                           /\ AfterCloseWrite(p).write_open = FALSE
                           /\ AfterCloseWrite(p).read_open = p.read_open
                           /\ Contents(AfterCloseWrite(p)) = Contents(p)
  <1>1. ASSUME p.write_open
        PROVE  /\ AfterCloseRead(p) \in PipeType /\ Ring(AfterCloseRead(p))
               /\ AfterCloseRead(p).in_use = p.in_use /\ AfterCloseRead(p).read_open = FALSE
               /\ AfterCloseRead(p).write_open = p.write_open
               /\ Contents(AfterCloseRead(p)) = Contents(p)
    <2>1. AfterCloseRead(p) = [p EXCEPT !.read_open = FALSE]
      BY <1>1 DEF AfterCloseRead
    <2>2. /\ AfterCloseRead(p) \in PipeType /\ AfterCloseRead(p).in_use = p.in_use
          /\ AfterCloseRead(p).read_open = FALSE /\ AfterCloseRead(p).write_open = p.write_open
          /\ AfterCloseRead(p).read_pos = p.read_pos /\ AfterCloseRead(p).write_pos = p.write_pos
          /\ AfterCloseRead(p).count = p.count /\ AfterCloseRead(p).buffer = p.buffer
      BY <2>1 DEF PipeType
    <2>3. Contents(AfterCloseRead(p)) = Contents(p)
      BY <2>2, Zenon DEF Contents, Copied
    <2>4. Ring(AfterCloseRead(p))
      BY <1>1, <2>2, Zenon DEF Ring
    <2> QED  BY <2>2, <2>3, <2>4
  <1>2. ASSUME p.read_open
        PROVE  /\ AfterCloseWrite(p) \in PipeType /\ Ring(AfterCloseWrite(p))
               /\ AfterCloseWrite(p).in_use = p.in_use /\ AfterCloseWrite(p).write_open = FALSE
               /\ AfterCloseWrite(p).read_open = p.read_open
               /\ Contents(AfterCloseWrite(p)) = Contents(p)
    <2>1. AfterCloseWrite(p) = [p EXCEPT !.write_open = FALSE]
      BY <1>2 DEF AfterCloseWrite
    <2>2. /\ AfterCloseWrite(p) \in PipeType /\ AfterCloseWrite(p).in_use = p.in_use
          /\ AfterCloseWrite(p).write_open = FALSE /\ AfterCloseWrite(p).read_open = p.read_open
          /\ AfterCloseWrite(p).read_pos = p.read_pos /\ AfterCloseWrite(p).write_pos = p.write_pos
          /\ AfterCloseWrite(p).count = p.count /\ AfterCloseWrite(p).buffer = p.buffer
      BY <2>1 DEF PipeType
    <2>3. Contents(AfterCloseWrite(p)) = Contents(p)
      BY <2>2, Zenon DEF Contents, Copied
    <2>4. Ring(AfterCloseWrite(p))
      BY <1>2, <2>2, Zenon DEF Ring
    <2> QED  BY <2>2, <2>3, <2>4
  <1>3. ~p.write_open => AfterCloseRead(p) = NoPipe
    BY DEF AfterCloseRead
  <1>4. ~p.read_open => AfterCloseWrite(p) = NoPipe
    BY DEF AfterCloseWrite
  <1>5. p.read_open \in BOOLEAN /\ p.write_open \in BOOLEAN
    BY DEF PipeType
  <1> QED  BY <1>1, <1>2, <1>3, <1>4, <1>5, FreshPipes

-----------------------------------------------------------------------------
(* The table *)

PipeInv == PipeTypeOK /\ RingConsistent

LEMMA InvIsPointwise == PipeInv <=> pipes \in [PipeIds -> PipeType] /\ \A i \in PipeIds : Ring(pipes[i])
  BY DEF PipeInv, PipeTypeOK, RingConsistent, Ring

LEMMA SetKeepsTable ==
  ASSUME NEW t \in [PipeIds -> PipeType], \A i \in PipeIds : Ring(t[i]),
         NEW i \in PipeIds, NEW p \in PipeType, Ring(p)
  PROVE  /\ Set(t, i, p) \in [PipeIds -> PipeType]
         /\ \A j \in PipeIds : Set(t, i, p)[j] = IF j = i THEN p ELSE t[j]
         /\ \A j \in PipeIds : Ring(Set(t, i, p)[j])
  <1>1. /\ Set(t, i, p) \in [PipeIds -> PipeType]
        /\ \A j \in PipeIds : Set(t, i, p)[j] = IF j = i THEN p ELSE t[j]
    BY DEF Set
  <1> QED  BY <1>1

\* The table of queues that module FifoPipe sees.
Chans(t) == [j \in PipeIds |-> Chan(t[j])]

\* How a step that replaces the pipe of slot i by p changes that table.
LEMMA ChansOfSet ==
  ASSUME NEW t \in [PipeIds -> PipeType], NEW i \in PipeIds, NEW p
  PROVE  Chans(Set(t, i, p)) = [Chans(t) EXCEPT ![i] = Chan(p)]
  BY DEF Set, Chans

LEMMA LeastPipe ==
  ASSUME NEW S \in SUBSET Nat, S # {}
  PROVE  \E m \in S : \A x \in S : m <= x
  <1> DEFINE R == OpToRel(<, Nat)
  <1>1. \E x \in S : \A y \in S : ~(<<y, x>> \in R)
    <2>1. IsWellFoundedOn(R, Nat)
      BY NatLessThanWellFounded
    <2> HIDE DEF R
    <2> QED  BY <2>1, WFMin
  <1>2. PICK x \in S : \A y \in S : ~(<<y, x>> \in R)
    BY <1>1
  <1>3. \A y \in S : ~(y < x)
    BY <1>2 DEF OpToRel
  <1> QED  BY <1>3

-----------------------------------------------------------------------------
(* The step of each call *)

LEMMA CreateStep ==
  ASSUME PipeInv, create_pipe
  PROVE  PipeInv' /\ \E i \in PipeIds : Fifo!Create(i)
  <1> DEFINE i == FirstFree(pipes)
  <1>1. i \in PipeIds /\ ~pipes[i].in_use
    <2>1. FreeIds(pipes) \subseteq Nat /\ FreeIds(pipes) # {}
      BY PipeAssumption DEF create_pipe, FreeIds, PipeIds
    <2>2. \E k \in FreeIds(pipes) : \A j \in FreeIds(pipes) : k <= j
      BY <2>1, LeastPipe
    <2>3. i \in FreeIds(pipes)
      BY <2>2 DEF FirstFree
    <2> QED  BY <2>3 DEF FreeIds
  <1>2. pipes' = Set(pipes, i, NewPipe) /\ io' = io
    BY DEF create_pipe
  <1> HIDE DEF i
  <1>3. pipes \in [PipeIds -> PipeType] /\ \A j \in PipeIds : Ring(pipes[j])
    BY InvIsPointwise
  <1>4. pipes' \in [PipeIds -> PipeType] /\ \A j \in PipeIds : Ring(pipes'[j])
    BY <1>1, <1>2, <1>3, FreshPipes, SetKeepsTable
  <1>5. PipeInv'
    BY <1>4 DEF PipeInv, PipeTypeOK, RingConsistent, Ring
  <1>6. Chan(NewPipe) = [in_use |-> TRUE, queue |-> <<>>, read_open |-> TRUE, write_open |-> TRUE]
    BY FreshPipes DEF Chan, NewPipe
  <1>7. Chans(pipes') = [Chans(pipes) EXCEPT ![i] = Chan(NewPipe)]
    BY <1>1, <1>2, <1>3, ChansOfSet, Zenon
  <1>8. ~Chans(pipes)[i].in_use
    BY <1>1 DEF Chans, Chan
  <1>9. Fifo!Create(i)
    BY <1>1, <1>2, <1>6, <1>7, <1>8 DEF Fifo!Create, Fifo!NewChan, Chans
  <1> QED  BY <1>1, <1>5, <1>9

\* A step that replaces the pipe of slot i by a well-formed one.
LEMMA ReplaceStep ==
  ASSUME PipeInv, NEW i \in PipeIds, NEW q \in PipeType, Ring(q), pipes' = Set(pipes, i, q)
  PROVE  PipeInv' /\ Chans(pipes') = [Chans(pipes) EXCEPT ![i] = Chan(q)]
  <1>1. pipes \in [PipeIds -> PipeType] /\ \A j \in PipeIds : Ring(pipes[j])
    BY InvIsPointwise
  <1>2. pipes' \in [PipeIds -> PipeType] /\ \A j \in PipeIds : Ring(pipes'[j])
    BY <1>1, SetKeepsTable
  <1>3. PipeInv'
    BY <1>2 DEF PipeInv, PipeTypeOK, RingConsistent, Ring
  <1>4. Chans(pipes') = [Chans(pipes) EXCEPT ![i] = Chan(q)]
    BY <1>1, ChansOfSet, Zenon
  <1> QED  BY <1>3, <1>4

LEMMA SameEnds ==
  ASSUME NEW p, NEW q, NEW s, Contents(q) = s,
         q.in_use = p.in_use, q.read_open = p.read_open, q.write_open = p.write_open
  PROVE  Chan(q) = [Chan(p) EXCEPT !.queue = s]
  BY DEF Chan

LEMMA ReadStep ==
  ASSUME PipeInv, NEW i \in PipeIds, NEW len \in 1 .. MaxLen, pipe_read(i, len)
  PROVE  PipeInv' /\ Fifo!Read(i, len)
  <1> DEFINE p == pipes[i]
             n == to_read(p, len)
             q == AfterRead(p, n)
  <1>1. p \in PipeType /\ Ring(p) /\ p.in_use /\ p.count > 0
    BY InvIsPointwise DEF pipe_read
  <1>2. pipes' = Set(pipes, i, q) /\ io' = Copied(p, n)
    BY DEF pipe_read, AfterPipeRead
  <1>3. p.count \in Nat /\ len \in Nat
    BY <1>1, PipeAssumption DEF PipeType
  <1>4. n \in 0 .. p.count
    BY <1>3 DEF to_read, Shorter
  <1> HIDE DEF p, n
  <1>5. /\ q \in PipeType /\ Ring(q)
        /\ Contents(q) = SubSeq(Contents(p), n + 1, Len(Contents(p)))
        /\ Copied(p, n) = SubSeq(Contents(p), 1, n)
    BY <1>1, <1>4, ReadTakesOldest
  <1>6. q.in_use = p.in_use /\ q.read_open = p.read_open /\ q.write_open = p.write_open
    BY <1>1 DEF AfterRead, PipeType
  <1> HIDE DEF q
  <1>7. PipeInv' /\ Chans(pipes') = [Chans(pipes) EXCEPT ![i] = Chan(q)]
    BY <1>2, <1>5, ReplaceStep
  <1>8. Contents(p) \in Seq(Bytes) /\ Len(Contents(p)) = p.count
    BY <1>1, <1>3, CopiedIsSeq DEF Contents
  <1>9. Chans(pipes)[i] = Chan(p)
    BY DEF Chans, p
  <1>10. Chan(q) = [Chan(p) EXCEPT !.queue = SubSeq(Contents(p), n + 1, Len(Contents(p)))]
    BY <1>5, <1>6, SameEnds, Zenon
  <1>11. Chan(p).queue = Contents(p) /\ Chan(p).in_use = p.in_use
    BY DEF Chan
  <1>12. n = Fifo!Shorter(len, Len(Contents(p)))
    BY <1>8 DEF n, to_read, Shorter, Fifo!Shorter
  <1>13. Contents(p) # <<>>
    BY <1>1, <1>8
  <1>14. Chans(pipes') = [Chans(pipes) EXCEPT ![i].queue = SubSeq(Contents(p), n + 1, Len(Contents(p)))]
    BY <1>7, <1>9, <1>10, Zenon
  <1>15. Fifo!Read(i, len)
    BY <1>1, <1>2, <1>5, <1>9, <1>11, <1>12, <1>13, <1>14 DEF Fifo!Read, Chans
  <1> QED  BY <1>7, <1>15

LEMMA WriteStep ==
  ASSUME PipeInv, NEW i \in PipeIds, NEW data \in Data, pipe_write(i, data)
  PROVE  PipeInv' /\ Fifo!Write(i, data)
  <1> DEFINE p == pipes[i]
             n == to_write(p, data)
             q == AfterWrite(p, data, n)
  <1>1. p \in PipeType /\ Ring(p) /\ p.in_use /\ p.read_open
    BY InvIsPointwise DEF pipe_write
  <1>2. pipes' = Set(pipes, i, q) /\ io' = SubSeq(data, 1, n)
    BY DEF pipe_write, AfterPipeWrite
  <1>3. PICK m \in 1 .. MaxLen : data \in [1 .. m -> Bytes]
    BY DEF Data
  <1>4. m \in Nat /\ Len(data) = m /\ PIPE_BUF_SIZE \in Nat /\ p.count \in 0 .. PIPE_BUF_SIZE
    BY <1>1, <1>3, PipeAssumption DEF PipeType
  <1>5. n \in 0 .. m /\ n <= PIPE_BUF_SIZE - p.count
    BY <1>4 DEF to_write, Shorter
  <1> HIDE DEF p, n
  <1>6. q \in PipeType /\ Ring(q) /\ Contents(q) = Contents(p) \o SubSeq(data, 1, n)
    BY <1>1, <1>3, <1>4, <1>5, WriteAppends
  <1>7. q.in_use = p.in_use /\ q.read_open = p.read_open /\ q.write_open = p.write_open
    BY <1>1 DEF AfterWrite, PipeType
  <1> HIDE DEF q
  <1>8. PipeInv' /\ Chans(pipes') = [Chans(pipes) EXCEPT ![i] = Chan(q)]
    BY <1>2, <1>6, ReplaceStep
  <1>9. Len(Contents(p)) = p.count
    BY <1>1, <1>4, CopiedIsSeq DEF Contents
  <1>10. Chans(pipes)[i] = Chan(p)
    BY DEF Chans, p
  <1>11. Chan(q) = [Chan(p) EXCEPT !.queue = Contents(p) \o SubSeq(data, 1, n)]
    BY <1>6, <1>7, SameEnds, Zenon
  <1>12. Chan(p).queue = Contents(p) /\ Chan(p).in_use = p.in_use /\ Chan(p).read_open = p.read_open
    BY DEF Chan
  <1>13. n = Fifo!Shorter(Len(data), PIPE_BUF_SIZE - Len(Contents(p)))
    BY <1>9 DEF n, to_write, Shorter, Fifo!Shorter
  <1>14. Chans(pipes') = [Chans(pipes) EXCEPT ![i].queue = @ \o SubSeq(data, 1, n)]
    BY <1>8, <1>10, <1>11, <1>12, Zenon
  <1>15. Fifo!Write(i, data)
    BY <1>1, <1>2, <1>10, <1>12, <1>13, <1>14 DEF Fifo!Write, Chans
  <1> QED  BY <1>8, <1>15

\* Closing an end keeps the queue, or turns the slot into None.
LEMMA ReadEndClosed ==
  ASSUME NEW p, NEW q, NEW b, Contents(q) = Contents(p), q.in_use = p.in_use,
         q.read_open = b, q.write_open = p.write_open
  PROVE  Chan(q) = [Chan(p) EXCEPT !.read_open = b]
  BY DEF Chan

LEMMA WriteEndClosed ==
  ASSUME NEW p, NEW q, NEW b, Contents(q) = Contents(p), q.in_use = p.in_use,
         q.write_open = b, q.read_open = p.read_open
  PROVE  Chan(q) = [Chan(p) EXCEPT !.write_open = b]
  BY DEF Chan

LEMMA ChanOfNone == Chan(NoPipe) = Fifo!NoChan
  BY FreshPipes DEF Chan, NoPipe, Fifo!NoChan

LEMMA CloseReadStep ==
  ASSUME PipeInv, NEW i \in PipeIds, pipe_close_read(i)
  PROVE  PipeInv' /\ Fifo!CloseRead(i)
  <1> DEFINE p == pipes[i]
             q == AfterCloseRead(p)
             c == IF Chan(p).write_open THEN [Chan(p) EXCEPT !.read_open = FALSE] ELSE Fifo!NoChan
  <1>1. p \in PipeType /\ Ring(p) /\ p.in_use
    BY InvIsPointwise DEF pipe_close_read
  <1>2. pipes' = Set(pipes, i, q) /\ io' = io
    BY DEF pipe_close_read, ClosedRead
  <1> HIDE DEF p
  <1>3. q \in PipeType /\ Ring(q)
    BY <1>1, EndsKeepQueue
  <1>4. Chan(p).write_open = p.write_open /\ Chan(p).in_use = p.in_use
    BY DEF Chan
  <1>5. Chan(q) = c
    <2>1. CASE p.write_open
      <3>1. /\ q.in_use = p.in_use /\ q.read_open = FALSE /\ q.write_open = p.write_open
            /\ Contents(q) = Contents(p)
        BY <1>1, <2>1, EndsKeepQueue, Zenon
      <3> HIDE DEF q
      <3>2. PICK b : b = FALSE
        OBVIOUS
      <3>3. Chan(q) = [Chan(p) EXCEPT !.read_open = b]
        <4>1. q.read_open = b
          BY <3>1, <3>2
        <4>2. Contents(q) = Contents(p) /\ q.in_use = p.in_use /\ q.write_open = p.write_open
          BY <3>1
        <4> QED  BY <4>1, <4>2, ReadEndClosed
      <3> QED  BY <1>4, <2>1, <3>2, <3>3, Zenon
    <2>2. CASE ~p.write_open
      <3>1. q = NoPipe
        BY <2>2 DEF AfterCloseRead
      <3> QED  BY <1>4, <2>2, <3>1, ChanOfNone, Zenon
    <2> QED  BY <2>1, <2>2
  <1> HIDE DEF q, c
  <1>6. PipeInv' /\ Chans(pipes') = [Chans(pipes) EXCEPT ![i] = Chan(q)]
    BY <1>2, <1>3, ReplaceStep
  <1>7. Chans(pipes)[i] = Chan(p)
    BY DEF Chans, p
  <1>8. Fifo!CloseRead(i)
    BY <1>1, <1>2, <1>4, <1>5, <1>6, <1>7 DEF Fifo!CloseRead, Chans, c
  <1> QED  BY <1>6, <1>8

LEMMA CloseWriteStep ==
  ASSUME PipeInv, NEW i \in PipeIds, pipe_close_write(i)
  PROVE  PipeInv' /\ Fifo!CloseWrite(i)
  <1> DEFINE p == pipes[i]
             q == AfterCloseWrite(p)
             c == IF Chan(p).read_open THEN [Chan(p) EXCEPT !.write_open = FALSE] ELSE Fifo!NoChan
  <1>1. p \in PipeType /\ Ring(p) /\ p.in_use
    BY InvIsPointwise DEF pipe_close_write
  <1>2. pipes' = Set(pipes, i, q) /\ io' = io
    BY DEF pipe_close_write, ClosedWrite
  <1> HIDE DEF p
  <1>3. q \in PipeType /\ Ring(q)
    BY <1>1, EndsKeepQueue
  <1>4. Chan(p).read_open = p.read_open /\ Chan(p).in_use = p.in_use
    BY DEF Chan
  <1>5. Chan(q) = c
    <2>1. CASE p.read_open
      <3>1. /\ q.in_use = p.in_use /\ q.write_open = FALSE /\ q.read_open = p.read_open
            /\ Contents(q) = Contents(p)
        BY <1>1, <2>1, EndsKeepQueue, Zenon
      <3> HIDE DEF q
      <3>2. PICK b : b = FALSE
        OBVIOUS
      <3>3. Chan(q) = [Chan(p) EXCEPT !.write_open = b]
        <4>1. q.write_open = b
          BY <3>1, <3>2
        <4>2. Contents(q) = Contents(p) /\ q.in_use = p.in_use /\ q.read_open = p.read_open
          BY <3>1
        <4> QED  BY <4>1, <4>2, WriteEndClosed
      <3> QED  BY <1>4, <2>1, <3>2, <3>3, Zenon
    <2>2. CASE ~p.read_open
      <3>1. q = NoPipe
        BY <2>2 DEF AfterCloseWrite
      <3> QED  BY <1>4, <2>2, <3>1, ChanOfNone, Zenon
    <2> QED  BY <2>1, <2>2
  <1> HIDE DEF q, c
  <1>6. PipeInv' /\ Chans(pipes') = [Chans(pipes) EXCEPT ![i] = Chan(q)]
    BY <1>2, <1>3, ReplaceStep
  <1>7. Chans(pipes)[i] = Chan(p)
    BY DEF Chans, p
  <1>8. Fifo!CloseWrite(i)
    BY <1>1, <1>2, <1>4, <1>5, <1>6, <1>7 DEF Fifo!CloseWrite, Chans, c
  <1> QED  BY <1>6, <1>8

-----------------------------------------------------------------------------
(* The theorems *)

LEMMA InitialTable == PipeInit => PipeInv /\ Fifo!Init
  <1> SUFFICES ASSUME PipeInit  PROVE PipeInv /\ Fifo!Init
    OBVIOUS
  <1>1. pipes \in [PipeIds -> PipeType] /\ \A i \in PipeIds : Ring(pipes[i])
    BY FreshPipes DEF PipeInit
  <1>2. PipeInv
    BY <1>1, InvIsPointwise
  <1>3. [i \in PipeIds |-> Chan(pipes[i])] = [i \in PipeIds |-> Fifo!NoChan]
    BY ChanOfNone DEF PipeInit
  <1> QED  BY <1>2, <1>3 DEF PipeInit, Fifo!Init

LEMMA PipeStep == PipeInv /\ [PipeNext]_pipe_vars =>
                    PipeInv' /\ [Fifo!Next]_<<Chans(pipes), io>>
  <1> SUFFICES ASSUME PipeInv, [PipeNext]_pipe_vars
               PROVE  PipeInv' /\ [Fifo!Next]_<<Chans(pipes), io>>
    OBVIOUS
  <1>1. CASE create_pipe
    BY <1>1, CreateStep DEF Fifo!Next
  <1>2. ASSUME NEW i \in PipeIds, pipe_close_read(i)  PROVE PipeInv' /\ Fifo!Next
    BY <1>2, CloseReadStep DEF Fifo!Next
  <1>3. ASSUME NEW i \in PipeIds, pipe_close_write(i)  PROVE PipeInv' /\ Fifo!Next
    BY <1>3, CloseWriteStep DEF Fifo!Next
  <1>4. ASSUME NEW i \in PipeIds, NEW len \in 1 .. MaxLen, pipe_read(i, len)
        PROVE  PipeInv' /\ Fifo!Next
    BY <1>4, ReadStep DEF Fifo!Next
  <1>5. ASSUME NEW i \in PipeIds, NEW data \in Data, pipe_write(i, data)
        PROVE  PipeInv' /\ Fifo!Next
    <2>1. data \in Fifo!Data
      BY DEF Data, Fifo!Data
    <2> QED  BY <1>5, <2>1, WriteStep DEF Fifo!Next
  <1>6. CASE UNCHANGED pipe_vars
    <2>1. pipes' = pipes /\ io' = io
      BY <1>6 DEF pipe_vars
    <2>2. PipeInv'
      BY <2>1 DEF PipeInv, PipeTypeOK, RingConsistent
    <2> QED  BY <2>1, <2>2 DEF Chans
  <1> QED  BY <1>1, <1>2, <1>3, <1>4, <1>5, <1>6 DEF PipeNext

\* The positions of every ring agree with its count in every state that calls of
\* pipe.rs can reach, for every buffer size and number of pipes.
THEOREM PipeInvariant == PipeSpec => [](PipeTypeOK /\ RingConsistent)
  <1>1. PipeInit => PipeInv
    BY InitialTable
  <1>2. PipeInv /\ [PipeNext]_pipe_vars => PipeInv'
    BY PipeStep
  <1>3. PipeInv => PipeTypeOK /\ RingConsistent
    BY DEF PipeInv
  <1> QED  BY <1>1, <1>2, <1>3, PTL DEF PipeSpec

\* The ring buffers of pipe.rs implement first-in first-out queues, for every
\* buffer size, number of pipes and length of the calls.
THEOREM RingIsFifo == PipeSpec => FifoSpec
  <1>1. PipeInit => PipeInv /\ Fifo!Init
    BY InitialTable
  <1>2. PipeInv /\ [PipeNext]_pipe_vars => PipeInv'
    BY PipeStep
  <1>3. PipeInv /\ [PipeNext]_pipe_vars => [Fifo!Next]_<<[i \in PipeIds |-> Chan(pipes[i])], io>>
    BY PipeStep DEF Chans
  <1> QED  BY <1>1, <1>2, <1>3, PTL DEF PipeSpec, FifoSpec, Fifo!Spec
=============================================================================
