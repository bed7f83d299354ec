--------------------------- MODULE PmrBufferProofs ---------------------------
(***************************************************************************)
(* PmrBuffer for every size: the indices stay inside the array, and bytes  *)
(* come out as they went in.                                               *)
(***************************************************************************)
EXTENDS PmrBuffer, TLAPS

\* The time a leaf may take.
USE SMTT(60)

\* What the constants have to be: sizes.
Sizes == Prepend \in Nat /\ Capacities \subseteq Nat /\ MaxChunk \in Nat /\ MaxBytes \in Nat

\* The array has the size the buffer says, and the indices lie in it.
IsBuffer(b) ==
    /\ b.size \in Nat /\ b.at \in [0..(b.size - 1) -> Int] /\ b.initial \in Capacities
    /\ b.rd \in Nat /\ b.wr \in Nat /\ Prepend <= b.rd /\ b.rd <= b.wr /\ b.wr <= b.size

\* The readable bytes are those from number first to the one before last.
Holds(b, first, last) ==
    /\ ReadableBytes(b) = last - first
    /\ \A x \in 0..(ReadableBytes(b) - 1) : b.at[b.rd + x] = first + x

\* The facts about the indices alone.
LEMMA Indices ==
    ASSUME Sizes, NEW b, IsBuffer(b)
    PROVE  /\ b.size \in Nat /\ b.rd \in Nat /\ b.wr \in Nat /\ b.initial \in Nat /\ Prepend \in Nat
           /\ Prepend <= b.rd /\ b.rd <= b.wr /\ b.wr <= b.size
           /\ ReadableBytes(b) = b.wr - b.rd /\ ReadableBytes(b) \in Nat
           /\ WritableBytes(b) = b.size - b.wr /\ WritableBytes(b) \in Nat
<1>1. /\ b.size \in Nat /\ b.rd \in Nat /\ b.wr \in Nat /\ b.initial \in Nat /\ Prepend \in Nat
      /\ Prepend <= b.rd /\ b.rd <= b.wr /\ b.wr <= b.size
  BY ZenonT(60) DEF IsBuffer, Sizes
<1>2. ReadableBytes(b) = b.wr - b.rd /\ WritableBytes(b) = b.size - b.wr
  BY DEF ReadableBytes, WritableBytes
<1> QED
  BY <1>1, <1>2

\* resize() keeps the bytes of both the old and the new size.
LEMMA ResizeKeeps ==
    ASSUME Sizes, NEW b, IsBuffer(b), NEW n \in Nat, b.wr <= n,
           NEW first \in Int, NEW last \in Int, Holds(b, first, last)
    PROVE  /\ IsBuffer(Resize(b, n)) /\ Holds(Resize(b, n), first, last)
           /\ Resize(b, n).size = n /\ Resize(b, n).wr = b.wr
<1> DEFINE r == Resize(b, n)
<1>2. r.size = n /\ r.wr = b.wr /\ r.rd = b.rd /\ r.initial = b.initial
  BY DEF Resize, Buffer
<1>3. r.at = [x \in 0..(n - 1) |-> IF x < b.size THEN b.at[x] ELSE Garbage]
  BY DEF Resize, Buffer
<1>4. r.at \in [0..(n - 1) -> Int]
  <2> SUFFICES ASSUME NEW x \in 0..(n - 1)
               PROVE  (IF x < b.size THEN b.at[x] ELSE Garbage) \in Int
    BY <1>3
  <2> QED
    BY DEF IsBuffer, Garbage
<1>5. IsBuffer(r)
  BY <1>2, <1>4 DEF IsBuffer, Sizes
<1>6. ASSUME NEW x \in 0..(ReadableBytes(r) - 1)
      PROVE  r.at[r.rd + x] = first + x
  <2>1. x \in 0..(ReadableBytes(b) - 1)
    BY <1>2 DEF ReadableBytes
  <2>2. b.rd + x \in 0..(n - 1) /\ b.rd + x < b.size
    BY <2>1 DEF IsBuffer, ReadableBytes
  <2>3. r.at[b.rd + x] = b.at[b.rd + x]
    BY <1>3, <2>2
  <2> QED
    BY <1>2, <2>1, <2>3 DEF Holds
<1>7. Holds(r, first, last)
  BY <1>2, <1>6 DEF Holds, ReadableBytes
<1> QED
  BY <1>2, <1>5, <1>7

\* makeSpace()'s move keeps the bytes and gives the room before them to the writer.
LEMMA MoveDownKeeps ==
    ASSUME Sizes, NEW b, IsBuffer(b), NEW first \in Int, NEW last \in Int, Holds(b, first, last)
    PROVE  /\ IsBuffer(MoveDown(b)) /\ Holds(MoveDown(b), first, last)
           /\ MoveDown(b).size = b.size /\ MoveDown(b).wr = Prepend + ReadableBytes(b)
<1> DEFINE r == MoveDown(b)
           m == ReadableBytes(b)
<1>1. m \in Nat /\ Prepend + m <= b.size /\ m = b.wr - b.rd
  BY DEF IsBuffer, ReadableBytes, Sizes
<1>2. r.size = b.size /\ r.rd = Prepend /\ r.wr = Prepend + m /\ r.initial = b.initial
  BY DEF MoveDown, Buffer
<1>3. r.at = [x \in 0..(b.size - 1) |-> IF x >= Prepend /\ x < Prepend + m THEN b.at[x - Prepend + b.rd] ELSE b.at[x]]
  BY DEF MoveDown, Buffer
<1>4. r.at \in [0..(b.size - 1) -> Int]
  <2> SUFFICES ASSUME NEW x \in 0..(b.size - 1)
               PROVE  (IF x >= Prepend /\ x < Prepend + m THEN b.at[x - Prepend + b.rd] ELSE b.at[x]) \in Int
    BY <1>3
  <2> HIDE DEF m
  <2>1. ASSUME x >= Prepend, x < Prepend + m
        PROVE  x - Prepend + b.rd \in 0..(b.size - 1)
    BY <1>1, <2>1, Indices
  <2> QED
    BY <2>1 DEF IsBuffer
<1>5. IsBuffer(r)
  BY <1>1, <1>2, <1>4 DEF IsBuffer, Sizes
<1>6. ReadableBytes(r) = m
  BY <1>1, <1>2 DEF ReadableBytes, Sizes
<1>9. \A y \in 0..(b.size - 1) : y >= Prepend /\ y < Prepend + m => r.at[y] = b.at[y - Prepend + b.rd]
  <2> HIDE DEF r, m
  <2> QED
    BY <1>3
<1>7. ASSUME NEW x \in 0..(m - 1)
      PROVE  r.at[Prepend + x] = first + x
  <2> HIDE DEF m, r
  <2>1. Prepend + x \in 0..(b.size - 1) /\ Prepend + x >= Prepend /\ Prepend + x < Prepend + m
    BY <1>1, Indices
  <2>2. r.at[Prepend + x] = b.at[Prepend + x - Prepend + b.rd]
    <3> DEFINE y == Prepend + x
    <3>1. y \in 0..(b.size - 1) /\ y >= Prepend /\ y < Prepend + m
      BY <2>1
    <3> HIDE DEF y
    <3>2. r.at[y] = b.at[y - Prepend + b.rd]
      BY <1>9, <3>1
    <3> QED
      BY <1>1, <3>2, Indices DEF y
  <2>3. Prepend + x - Prepend + b.rd = b.rd + x
    BY <1>1 DEF Sizes, IsBuffer
  <2> QED
    BY <2>2, <2>3 DEF Holds, m
<1>8. Holds(r, first, last)
  BY <1>2, <1>6, <1>7 DEF Holds
<1> QED
  BY <1>2, <1>5, <1>8

\* ensureWritableBytes(): there is room for n bytes, and nothing is lost.
LEMMA RoomIsMade ==
    ASSUME Sizes, NEW b, IsBuffer(b), NEW n \in Nat, NEW first \in Int, NEW last \in Int, Holds(b, first, last)
    PROVE  /\ IsBuffer(EnsureWritableBytes(b, n)) /\ Holds(EnsureWritableBytes(b, n), first, last)
           /\ WritableBytes(EnsureWritableBytes(b, n)) >= n
<1>1. CASE WritableBytes(b) >= n
  BY <1>1 DEF EnsureWritableBytes, WritableBytes, IsBuffer
<1>2. CASE ~(WritableBytes(b) >= n) /\ WritableBytes(b) + b.rd < n + Prepend
  <2> DEFINE size == IF b.size * 2 > b.wr + n THEN b.size * 2 ELSE b.wr + n
  <2>1. size \in Nat /\ b.wr + n <= size
    BY DEF IsBuffer
  <2>2. EnsureWritableBytes(b, n) = Resize(b, size)
    BY <1>2 DEF EnsureWritableBytes, MakeSpace, Grow, WritableBytes, IsBuffer
  <2> HIDE DEF size
  <2>3. b.wr <= size
    BY <2>1 DEF IsBuffer
  <2>4. /\ IsBuffer(Resize(b, size)) /\ Holds(Resize(b, size), first, last)
        /\ Resize(b, size).size = size /\ Resize(b, size).wr = b.wr
    BY <2>1, <2>3, ResizeKeeps
  <2>5. WritableBytes(Resize(b, size)) >= n
    BY <2>1, <2>4 DEF WritableBytes, IsBuffer
  <2> QED
    BY <2>2, <2>4, <2>5
<1>3. CASE ~(WritableBytes(b) >= n) /\ ~(WritableBytes(b) + b.rd < n + Prepend)
  <2>1. EnsureWritableBytes(b, n) = MoveDown(b)
    BY <1>3 DEF EnsureWritableBytes, MakeSpace, WritableBytes, IsBuffer
  <2>2. WritableBytes(MoveDown(b)) = b.size - (Prepend + ReadableBytes(b))
    BY MoveDownKeeps DEF WritableBytes
  <2>3. b.size - (Prepend + ReadableBytes(b)) >= n
    BY <1>3 DEF WritableBytes, ReadableBytes, IsBuffer, Sizes
  <2> QED
    BY <2>1, <2>2, <2>3, MoveDownKeeps
<1> QED
  BY <1>1, <1>2, <1>3

\* hasWritten(): the new bytes stand behind the old ones.
LEMMA FillAdds ==
    ASSUME Sizes, NEW b, IsBuffer(b), NEW m \in Nat, WritableBytes(b) >= m,
           NEW first \in Int, NEW last \in Int, Holds(b, first, last)
    PROVE  IsBuffer(Fill(b, last, m)) /\ Holds(Fill(b, last, m), first, last + m)
<1> DEFINE r == Fill(b, last, m)
<1>1. r.size = b.size /\ r.rd = b.rd /\ r.wr = b.wr + m /\ r.initial = b.initial
  BY DEF Fill, Buffer
<1>2. r.at = [x \in 0..(b.size - 1) |-> IF x >= b.wr /\ x < b.wr + m THEN last + (x - b.wr) ELSE b.at[x]]
  BY DEF Fill, Buffer
<1>3. r.at \in [0..(b.size - 1) -> Int]
  <2> SUFFICES ASSUME NEW x \in 0..(b.size - 1)
               PROVE  (IF x >= b.wr /\ x < b.wr + m THEN last + (x - b.wr) ELSE b.at[x]) \in Int
    BY <1>2
  <2> QED
    BY DEF IsBuffer
<1>4. IsBuffer(r)
  BY <1>1, <1>3 DEF IsBuffer, WritableBytes
<1> HIDE DEF r
<1>8. ReadableBytes(b) = last - first
  BY DEF Holds
<1>5. ReadableBytes(r) = last + m - first
  BY <1>1, <1>8, Indices DEF ReadableBytes
<1>9. \A y \in 0..(b.size - 1) : r.at[y] = IF y >= b.wr /\ y < b.wr + m THEN last + (y - b.wr) ELSE b.at[y]
  BY <1>2
<1>6. ASSUME NEW x \in 0..(ReadableBytes(r) - 1)
      PROVE  r.at[r.rd + x] = first + x
  <2>1. b.rd + x \in 0..(b.size - 1) /\ b.wr - b.rd = last - first
    BY <1>5, <1>8, Indices
  <2>2. r.at[b.rd + x] = IF b.rd + x >= b.wr /\ b.rd + x < b.wr + m THEN last + (b.rd + x - b.wr) ELSE b.at[b.rd + x]
    <3> DEFINE y == b.rd + x
    <3>1. y \in 0..(b.size - 1)
      BY <2>1
    <3> HIDE DEF y
    <3>2. r.at[y] = IF y >= b.wr /\ y < b.wr + m THEN last + (y - b.wr) ELSE b.at[y]
      BY <1>9, <3>1
    <3> QED
      BY <1>5, <3>2, Indices DEF y
  <2>3. CASE x < b.wr - b.rd
    <3>1. x \in 0..(ReadableBytes(b) - 1) /\ ~(b.rd + x >= b.wr)
      BY <2>3 DEF ReadableBytes, IsBuffer
    <3>2. r.at[b.rd + x] = b.at[b.rd + x]
      BY <2>2, <3>1
    <3> QED
      BY <1>1, <3>1, <3>2 DEF Holds
  <2>4. CASE x >= b.wr - b.rd
    <3>1. b.rd + x >= b.wr /\ b.rd + x < b.wr + m
      BY <1>5, <1>8, <2>4, Indices
    <3>2. last + (b.rd + x - b.wr) = first + x
      BY <2>1, Indices
    <3> QED
      BY <1>1, <2>2, <3>1, <3>2
  <2> QED
    BY <2>3, <2>4 DEF IsBuffer
<1> QED
  BY <1>4, <1>5, <1>6 DEF Holds, r

\* retrieve(): the first n bytes are gone, also when the array shrinks with the last.
LEMMA RetrieveTakes ==
    ASSUME Sizes, NEW b, IsBuffer(b), NEW first \in Int, NEW last \in Int, Holds(b, first, last),
           NEW n \in 0..ReadableBytes(b)
    PROVE  IsBuffer(Retrieve(b, n)) /\ Holds(Retrieve(b, n), first + n, last)
<1> DEFINE r == Retrieve(b, n)
<1>1. CASE n < ReadableBytes(b)
  <2>1. r.size = b.size /\ r.rd = b.rd + n /\ r.wr = b.wr /\ r.initial = b.initial /\ r.at = b.at
    BY <1>1 DEF Retrieve, WithIndices, Buffer
  <2>5. b.rd + n \in Nat /\ Prepend <= b.rd + n /\ b.rd + n <= b.wr
    BY <1>1, Indices
  <2> HIDE DEF r
  <2>2. IsBuffer(r)
    BY <2>1, <2>5 DEF IsBuffer
  <2>3. ReadableBytes(r) = ReadableBytes(b) - n
    BY <2>1 DEF ReadableBytes, IsBuffer
  <2>4. ASSUME NEW x \in 0..(ReadableBytes(r) - 1)
        PROVE  r.at[r.rd + x] = first + n + x
    <3>1. n + x \in 0..(ReadableBytes(b) - 1)
      BY <2>3 DEF ReadableBytes, IsBuffer
    <3>2. b.at[b.rd + (n + x)] = first + (n + x)
      BY <3>1 DEF Holds
    <3>3. r.rd + x = b.rd + (n + x) /\ first + (n + x) = first + n + x
      BY <2>1 DEF IsBuffer
    <3> QED
      BY <2>1, <3>2, <3>3
  <2> QED
    BY <2>2, <2>3, <2>4 DEF Holds, r
<1>2. CASE ~(n < ReadableBytes(b))
  <2> DEFINE c == IF b.size > (b.initial + Prepend) * 2 THEN Resize(b, b.initial + Prepend) ELSE b
  <2>1. r = WithIndices(c, Prepend, Prepend)
    BY <1>2 DEF Retrieve, RetrieveAll
  <2>2. c.initial = b.initial /\ c.size \in Nat /\ Prepend <= c.size /\ c.at \in [0..(c.size - 1) -> Int]
    <3>1. CASE b.size > (b.initial + Prepend) * 2
      <4> DEFINE k == b.initial + Prepend
      <4>1. k \in Nat /\ Prepend <= k /\ k <= b.size
        BY <3>1, Indices
      <4> HIDE DEF k
      <4>2. c = Resize(b, k)
        BY <3>1 DEF k
      <4>3. c.initial = b.initial /\ c.size = k /\ c.at = [x \in 0..(k - 1) |-> IF x < b.size THEN b.at[x] ELSE Garbage]
        <5> HIDE DEF c
        <5> QED
          BY <4>2 DEF Resize, Buffer
      <4>4. \A x \in 0..(k - 1) : (IF x < b.size THEN b.at[x] ELSE Garbage) \in Int
        BY <4>1 DEF IsBuffer, Garbage
      <4> QED
        BY <4>1, <4>3, <4>4
    <3>2. CASE ~(b.size > (b.initial + Prepend) * 2)
      BY <3>2 DEF IsBuffer, Sizes
    <3> QED
      BY <3>1, <3>2
  <2> HIDE DEF c
  <2>3. r.size = c.size /\ r.at = c.at /\ r.initial = c.initial /\ r.rd = Prepend /\ r.wr = Prepend
    BY <2>1 DEF WithIndices, Buffer
  <2>4. IsBuffer(r)
    BY <2>2, <2>3 DEF IsBuffer, Sizes
  <2>5. ReadableBytes(r) = 0 /\ first + n = last
    BY <1>2, <2>3 DEF ReadableBytes, Holds, IsBuffer, Sizes
  <2> QED
    BY <2>4, <2>5 DEF Holds
<1> QED
  BY <1>1, <1>2

-----------------------------------------------------------------------------
\* A slot of the model: a buffer, and the numbers of the bytes in it.
IsSlot(t) ==
    /\ t = [buf |-> t.buf, in |-> t.in, out |-> t.out] /\ t.in \in Int /\ t.out \in Int
    /\ IsBuffer(t.buf) /\ Holds(t.buf, t.out, t.in)

\* The inductive invariant: TypeOK and FirstInFirstOut, and that the values are of the
\* types the arithmetic needs.
BufferInv == i = [k \in {1, 2} |-> i[k]] /\ \A k \in {1, 2} : IsSlot(i[k])

LEMMA SlotOf ==
    ASSUME NEW b, NEW in \in Int, NEW out \in Int, IsBuffer(b), Holds(b, out, in)
    PROVE  IsSlot(Slot(b, in, out))
<1> DEFINE t == Slot(b, in, out)
<1>1. t.buf = b /\ t.in = in /\ t.out = out /\ t = [buf |-> t.buf, in |-> t.in, out |-> t.out]
  BY DEF Slot
<1> HIDE DEF t
<1>2. IsSlot(t)
  BY <1>1 DEF IsSlot
<1> QED
  BY <1>2 DEF t

\* A step that replaces one slot by a good one.
LEMMA OneSlot ==
    ASSUME BufferInv, NEW k \in {1, 2}, NEW t, IsSlot(t), i' = [i EXCEPT ![k] = t]
    PROVE  BufferInv'
<1>1. \A j \in {1, 2} : i'[j] = IF j = k THEN t ELSE i[j]
  BY DEF BufferInv
<1>2. i' = [j \in {1, 2} |-> i'[j]]
  BY ZenonT(60) DEF BufferInv
<1>3. \A j \in {1, 2} : IsSlot(i'[j])
  BY <1>1 DEF BufferInv
<1> QED
  BY ZenonT(60), <1>2, <1>3 DEF BufferInv, IsSlot, IsBuffer, Holds, ReadableBytes

LEMMA NewIsEmpty ==
    ASSUME Sizes, NEW c \in Capacities
    PROVE  IsBuffer(New(c)) /\ Holds(New(c), 1, 1)
<1> DEFINE r == New(c)
<1>1. r.size = Prepend + c /\ r.rd = Prepend /\ r.wr = Prepend /\ r.initial = c
      /\ r.at = [x \in 0..(Prepend + c - 1) |-> Garbage]
  BY DEF New, Buffer
<1>2. c \in Nat /\ Prepend \in Nat
  BY DEF Sizes
<1> HIDE DEF r
<1>3. IsBuffer(r)
  BY <1>1, <1>2 DEF IsBuffer, Garbage
<1>4. Holds(r, 1, 1)
  BY <1>1, <1>2 DEF Holds, ReadableBytes
<1> QED
  BY <1>3, <1>4 DEF r

LEMMA BufferInitially == ASSUME Sizes PROVE Init => BufferInv
<1> SUFFICES ASSUME Init PROVE BufferInv
  OBVIOUS
<1>1. PICK c \in [{1, 2} -> Capacities] : i = [k \in {1, 2} |-> Slot(New(c[k]), 1, 1)]
  BY DEF Init
<1>2. \A k \in {1, 2} : IsSlot(i[k])
  <2> TAKE k \in {1, 2}
  <2>1. i[k] = Slot(New(c[k]), 1, 1) /\ c[k] \in Capacities
    BY <1>1
  <2>2. IsBuffer(New(c[k])) /\ Holds(New(c[k]), 1, 1)
    BY <2>1, NewIsEmpty
  <2> QED
    BY <2>1, <2>2, SlotOf
<1> QED
  BY <1>1, <1>2 DEF BufferInv

LEMMA ReadKeeps == ASSUME Sizes, BufferInv, NEW k \in {1, 2}, Read(k) PROVE BufferInv'
<1> DEFINE b == i[k].buf
<1>0. PICK n \in 1..MaxChunk : \E m \in 0..n :
          i' = [i EXCEPT ![k] = Slot(Fill(EnsureWritableBytes(@.buf, n), @.in, m), @.in + m, @.out)]
  BY ZenonT(60) DEF Read
<1>1. PICK m \in 0..n :
          i' = [i EXCEPT ![k] = Slot(Fill(EnsureWritableBytes(@.buf, n), @.in, m), @.in + m, @.out)]
  BY ZenonT(60), <1>0
<1> DEFINE roomy == EnsureWritableBytes(b, n)
           t == Slot(Fill(roomy, i[k].in, m), i[k].in + m, i[k].out)
<1>2. i' = [i EXCEPT ![k] = t]
  BY <1>1
<1>3. n \in Nat /\ m \in Nat /\ m <= n
  BY DEF Sizes
<1>4. i[k].in \in Int /\ i[k].out \in Int /\ IsBuffer(b) /\ Holds(b, i[k].out, i[k].in)
  BY DEF BufferInv, IsSlot
<1> HIDE DEF b
<1>5. IsBuffer(roomy) /\ Holds(roomy, i[k].out, i[k].in) /\ WritableBytes(roomy) >= n
  BY <1>3, <1>4, RoomIsMade
<1> HIDE DEF roomy
<1>6. WritableBytes(roomy) >= m
  BY <1>3, <1>5, Indices
<1>7. IsBuffer(Fill(roomy, i[k].in, m)) /\ Holds(Fill(roomy, i[k].in, m), i[k].out, i[k].in + m)
  BY <1>3, <1>4, <1>5, <1>6, FillAdds
<1>8. i[k].in + m \in Int
  BY <1>3, <1>4
<1>9. IsSlot(t)
  BY <1>4, <1>7, <1>8, SlotOf
<1> HIDE DEF t
<1> QED
  BY ZenonT(60), <1>2, <1>9, OneSlot

LEMMA TakeKeeps == ASSUME Sizes, BufferInv, NEW k \in {1, 2}, Take(k) PROVE BufferInv'
<1> DEFINE b == i[k].buf
<1>1. PICK n \in 0..ReadableBytes(b) : i' = [i EXCEPT ![k] = Slot(Retrieve(@.buf, n), @.in, @.out + n)]
  BY ZenonT(60) DEF Take
<1> DEFINE t == Slot(Retrieve(b, n), i[k].in, i[k].out + n)
<1>2. i' = [i EXCEPT ![k] = t]
  BY <1>1
<1>3. i[k].in \in Int /\ i[k].out \in Int /\ IsBuffer(b) /\ Holds(b, i[k].out, i[k].in)
  BY DEF BufferInv, IsSlot
<1> HIDE DEF b
<1>4. IsBuffer(Retrieve(b, n)) /\ Holds(Retrieve(b, n), i[k].out + n, i[k].in)
  BY <1>3, RetrieveTakes
<1>5. i[k].out + n \in Int
  BY <1>3, Indices
<1>6. IsSlot(t)
  BY <1>3, <1>4, <1>5, SlotOf
<1> HIDE DEF t
<1> QED
  BY ZenonT(60), <1>2, <1>6, OneSlot

LEMMA SwapKeeps == ASSUME Sizes, BufferInv, Swap PROVE BufferInv'
<1> DEFINE other(k) == i[3 - k]
           b(k) == Buffer(other(k).buf.size, other(k).buf.at, i[k].buf.initial, other(k).buf.rd, other(k).buf.wr)
<1>1. i' = [k \in {1, 2} |-> Slot(b(k), other(k).in, other(k).out)]
  BY DEF Swap
<1>2. ASSUME NEW k \in {1, 2}
      PROVE  IsSlot(Slot(b(k), other(k).in, other(k).out))
  <2>1. 3 - k \in {1, 2}
    OBVIOUS
  <2>2. IsSlot(other(k)) /\ IsSlot(i[k])
    BY <2>1 DEF BufferInv
  <2> DEFINE o == other(k)
             c == b(k)
  <2>3. c.size = o.buf.size /\ c.at = o.buf.at /\ c.initial = i[k].buf.initial /\ c.rd = o.buf.rd /\ c.wr = o.buf.wr
    BY DEF Buffer
  <2> HIDE DEF o, c
  <2>4. IsSlot(o) /\ IsSlot(i[k])
    BY <2>2 DEF o
  <2>5. IsBuffer(c)
    BY <2>3, <2>4 DEF IsSlot, IsBuffer
  <2>6. Holds(c, o.out, o.in) /\ o.in \in Int /\ o.out \in Int
    BY <2>3, <2>4 DEF IsSlot, Holds, ReadableBytes
  <2>7. IsSlot(Slot(c, o.in, o.out))
    BY <2>5, <2>6, SlotOf
  <2> QED
    BY <2>7 DEF c, o
<1>3. \A k \in {1, 2} : i'[k] = Slot(b(k), other(k).in, other(k).out)
  BY <1>1
<1>4. i' = [k \in {1, 2} |-> i'[k]]
  BY <1>1
<1> HIDE DEF b, other
<1>5. \A k \in {1, 2} : IsSlot(i'[k])
  BY <1>2, <1>3
<1> QED
  BY ZenonT(60), <1>4, <1>5 DEF BufferInv, IsSlot, IsBuffer, Holds, ReadableBytes

LEMMA BufferAlways == ASSUME Sizes PROVE Spec => []BufferInv
<1>1. BufferInv /\ [Next]_i => BufferInv'
  <2> SUFFICES ASSUME BufferInv, [Next]_i PROVE BufferInv'
    OBVIOUS
  <2>1. CASE UNCHANGED i
    BY ZenonT(60), <2>1 DEF BufferInv, IsSlot, IsBuffer, Holds, ReadableBytes
  <2>2. CASE Swap
    BY <2>2, SwapKeeps
  <2>3. CASE \E k \in {1, 2} : Read(k) \/ Take(k)
    BY <2>3, ReadKeeps, TakeKeeps
  <2> QED
    BY <2>1, <2>2, <2>3 DEF Next
<1> QED
  BY <1>1, BufferInitially, PTL DEF Spec

\* The indices of a buffer lie in its array, in the order prepend room, data, free room,
\* and swap() leaves each buffer its own initial capacity: for every prepend size, initial
\* capacity and size of a read.
THEOREM IndicesInOrder == ASSUME Sizes PROVE Spec => []TypeOK
<1>1. BufferInv => TypeOK
  BY ZenonT(60) DEF BufferInv, IsSlot, IsBuffer, TypeOK
<1> QED
  BY <1>1, BufferAlways, PTL

\* Bytes leave a buffer in the order they came, none lost, doubled or invented, however
\* often the data is moved down, the array grown or shrunk, or two buffers swapped.
THEOREM BytesInOrder == ASSUME Sizes PROVE Spec => []FirstInFirstOut
<1>1. BufferInv => FirstInFirstOut
  BY DEF BufferInv, IsSlot, Holds, FirstInFirstOut
<1> QED
  BY <1>1, BufferAlways, PTL
=============================================================================
