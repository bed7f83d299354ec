------------------------------ MODULE PmrBuffer ------------------------------
(***************************************************************************)
(* The buffer a connection reads into (core/PmrBuffer.h): an array with a  *)
(* read and a write index, of which the part before the read index is used *)
(* again by moving the data down, and which grows and shrinks.  Two        *)
(* buffers, so that they can be swapped.  Byte number n of what goes       *)
(* through a buffer is n itself.                                           *)
(***************************************************************************)
EXTENDS Integers

CONSTANTS
    Prepend,       \* hPrependSize
    Capacities,    \* initial sizes
    MaxChunk,      \* room one read makes
    MaxBytes       \* bytes that go through a buffer

VARIABLE i

Garbage == 0

Buffer(size, at, initial, rd, wr) == [size |-> size, at |-> at, initial |-> initial, rd |-> rd, wr |-> wr]

New(size) == Buffer(Prepend + size, [x \in 0..(Prepend + size - 1) |-> Garbage], size, Prepend, Prepend)

ReadableBytes(b) == b.wr - b.rd
WritableBytes(b) == b.size - b.wr

Resize(b, n) ==
    Buffer(n, [x \in 0..(n - 1) |-> IF x < b.size THEN b.at[x] ELSE Garbage], b.initial, b.rd, b.wr)

WithIndices(b, rd, wr) == Buffer(b.size, b.at, b.initial, rd, wr)

RetrieveAll(b) ==
    WithIndices(IF b.size > (b.initial + Prepend) * 2 THEN Resize(b, b.initial + Prepend) ELSE b, Prepend, Prepend)

Retrieve(b, n) == IF n < ReadableBytes(b) THEN WithIndices(b, b.rd + n, b.wr) ELSE RetrieveAll(b)

\* std::copy() of the readable bytes to the front.
MoveDown(b) ==
    Buffer(b.size, [x \in 0..(b.size - 1) |-> IF x >= Prepend /\ x < Prepend + ReadableBytes(b)
                                              THEN b.at[x - Prepend + b.rd] ELSE b.at[x]],
           b.initial, Prepend, Prepend + ReadableBytes(b))

Grow(b, n) == Resize(b, IF b.size * 2 > b.wr + n THEN b.size * 2 ELSE b.wr + n)

\* Grow when the free room before and behind the data is too small, else move the data.
MakeSpace(b, n) == IF WritableBytes(b) + b.rd < n + Prepend THEN Grow(b, n) ELSE MoveDown(b)

EnsureWritableBytes(b, n) == IF WritableBytes(b) < n THEN MakeSpace(b, n) ELSE b

\* The bytes first .. first + m - 1 are written behind the data: hasWritten(m).
Fill(b, first, m) ==
    Buffer(b.size, [x \in 0..(b.size - 1) |-> IF x >= b.wr /\ x < b.wr + m THEN first + (x - b.wr) ELSE b.at[x]],
           b.initial, b.rd, b.wr + m)

-----------------------------------------------------------------------------
\* A buffer and, for the properties, what it holds: the bytes out .. in - 1.
Slot(b, in, out) == [buf |-> b, in |-> in, out |-> out]

Init ==
    \E c \in [{1, 2} -> Capacities] :
        i = [k \in {1, 2} |-> Slot(New(c[k]), 1, 1)]

\* append(), and a read of the connection: room for n bytes is made, m of them arrive.
Read(k) ==
    \E n \in 1..MaxChunk : \E m \in 0..n :
        /\ i[k].in + m <= MaxBytes + 1
        /\ i' = [i EXCEPT ![k] = Slot(Fill(EnsureWritableBytes(@.buf, n), @.in, m), @.in + m, @.out)]

\* retrieve(), read() and readAll().
Take(k) ==
    \E n \in 0..ReadableBytes(i[k].buf) :
        i' = [i EXCEPT ![k] = Slot(Retrieve(@.buf, n), @.in, @.out + n)]

\* swap() exchanges arrays and indices, and leaves initialCapacity_ where it is.
Swap ==
    i' = [k \in {1, 2} |->
             LET b == i[3 - k].buf
             IN Slot(Buffer(b.size, b.at, i[k].buf.initial, b.rd, b.wr), i[3 - k].in, i[3 - k].out)]

Next == Swap \/ \E k \in {1, 2} : Read(k) \/ Take(k)

Spec == Init /\ [][Next]_i

-----------------------------------------------------------------------------
TypeOK ==
    \A k \in {1, 2} : LET b == i[k].buf IN Prepend <= b.rd /\ b.rd <= b.wr /\ b.wr <= b.size /\ b.initial \in Capacities

\* What is in a buffer is what was put into it and not yet taken, in order, through every
\* move of the data, growth, shrinking and swap.
FirstInFirstOut ==
    \A k \in {1, 2} : LET b == i[k].buf IN
        /\ ReadableBytes(b) = i[k].in - i[k].out
        /\ \A x \in 0..(ReadableBytes(b) - 1) : b.at[b.rd + x] = i[k].out + x
=============================================================================
