------------------------------- MODULE Buffer -------------------------------
(***************************************************************************)
(* windz::Buffer: bytes in a vector between read_index_ and write_index_,  *)
(* moved to the front or into a larger vector when room is needed.  The    *)
(* operations are operators on the record b; `content' is what a queue of  *)
(* bytes would hold after the same calls.  Copies are done byte by byte in *)
(* the order std::copy and std::copy_backward go, as the regions overlap.  *)
(***************************************************************************)
EXTENDS Naturals, Sequences

CONSTANTS
    kPrependSize,
    InitSize,     \* the constructor's init_size
    ExtraSize,    \* bytes in ReadFd's extra_buf
    Byte,         \* values of bytes written; 0 is the one of fresh memory
    MaxLen,       \* bytes given to one call (a bound)
    MaxReadable   \* bytes in the buffer (a bound)

ASSUME BufferAssumption ==
    /\ {kPrependSize, InitSize, ExtraSize, MaxLen, MaxReadable} \subseteq Nat
    /\ Byte \subseteq Nat

VARIABLES
    b,         \* buffer_, read_index_, write_index_
    content    \* history: the bytes a queue would hold

bufferVars == <<b, content>>

Readable(x) == x.write - x.read
Writable(x) == Len(x.buffer) - x.write
Prependable(x) == x.read

\* The bytes from Peek() on.
Bytes(x) == SubSeq(x.buffer, x.read + 1, x.write)

Resize(s, n) == [i \in 1..n |-> IF i <= Len(s) THEN s[i] ELSE 0]

\* std::copy(d, d + Len(d), &s[at])
Put(s, at, d) ==
    [i \in 1..Len(s) |-> IF i \in (at + 1)..(at + Len(d)) THEN d[i - at] ELSE s[i]]

\* std::copy(&s[from], &s[from + n], &s[to])
Copy(s, from, n, to) ==
    LET step[i \in 0..n] ==
            IF i = 0 THEN s ELSE [step[i - 1] EXCEPT ![to + i] = step[i - 1][from + i]]
    IN  step[n]

\* std::copy_backward(&s[from], &s[from + n], &s[to + n])
CopyBackward(s, from, n, to) ==
    LET step[i \in 0..n] ==
            IF i = 0 THEN s
            ELSE [step[i - 1] EXCEPT ![to + n + 1 - i] = step[i - 1][from + n + 1 - i]]
    IN  step[n]

-----------------------------------------------------------------------------

Release(x, len) ==
    IF len < Readable(x)
    THEN [x EXCEPT !.read = @ + len]
    ELSE [x EXCEPT !.read = kPrependSize, !.write = kPrependSize]

\* A slip: std::copy in both directions.
AlignPrependForward(x) ==
    LET n == Readable(x)
        s == IF Len(x.buffer) < n + kPrependSize
             THEN Resize(x.buffer, n + kPrependSize) ELSE x.buffer
    IN  [buffer |-> Copy(s, x.read, n, kPrependSize),
         read |-> kPrependSize, write |-> kPrependSize + n]

\* Move the bytes to kPrependSize.
AlignPrepend(x) ==
    LET n == Readable(x)
        s == IF Len(x.buffer) < n + kPrependSize
             THEN Resize(x.buffer, n + kPrependSize) ELSE x.buffer
    IN  IF x.read = kPrependSize THEN x
        ELSE [buffer |-> IF x.read < kPrependSize
                         THEN CopyBackward(s, x.read, n, kPrependSize)
                         ELSE Copy(x.buffer, x.read, n, kPrependSize),
              read |-> kPrependSize, write |-> kPrependSize + n]

ExtendSpace(x, len) ==
    LET y == AlignPrepend(x)
    IN  IF Writable(y) < len THEN [y EXCEPT !.buffer = Resize(@, y.write + len)] ELSE y

Write(x, d) ==
    LET y == IF Writable(x) < Len(d) THEN ExtendSpace(x, Len(d)) ELSE x
    IN  [y EXCEPT !.buffer = Put(@, y.write, d), !.write = @ + Len(d)]

UnWrite(x, len) == [x EXCEPT !.write = @ - len]

Prepend(x, d) ==
    [x EXCEPT !.read = @ - Len(d), !.buffer = Put(@, x.read - Len(d), d)]

Shrink(x, reserve) ==
    LET y == AlignPrepend(x)
    IN  [y EXCEPT !.buffer = Resize(@, kPrependSize + Readable(y) + reserve)]

\* readv() got d: into the writable bytes, and the rest through extra_buf.
ReadFd(x, d) ==
    LET room == Writable(x)
        head == SubSeq(d, 1, IF Len(d) <= room THEN Len(d) ELSE room)
        y == [x EXCEPT !.buffer = Put(@, x.write, head), !.write = @ + Len(head)]
    IN  IF Len(d) <= room THEN y ELSE Write(y, SubSeq(d, room + 1, Len(d)))

-----------------------------------------------------------------------------
(* The calls; their asserts are what a caller has to keep to.              *)

Data == UNION {[1..n -> Byte] : n \in 0..MaxLen}

BufferInit ==
    /\ b = [buffer |-> [i \in 1..(kPrependSize + InitSize) |-> 0],
            read |-> kPrependSize, write |-> kPrependSize]
    /\ content = <<>>

\* Read, ReadAll, Release, ReleaseUntil, ReleaseAll: the bytes go.
CallRelease(len) ==
    /\ len <= Readable(b)
    /\ b' = Release(b, len)
    /\ content' = SubSeq(content, len + 1, Len(content))

CallWrite(d) ==
    /\ Readable(b) + Len(d) <= MaxReadable
    /\ b' = Write(b, d)
    /\ content' = content \o d

CallUnWrite(len) ==
    /\ len <= Readable(b)
    /\ b' = UnWrite(b, len)
    /\ content' = SubSeq(content, 1, Len(content) - len)

CallPrepend(d) ==
    /\ Len(d) <= Prependable(b) /\ Readable(b) + Len(d) <= MaxReadable
    /\ b' = Prepend(b, d)
    /\ content' = d \o content

CallShrink(reserve) ==
    /\ b' = Shrink(b, reserve)
    /\ UNCHANGED content

CallReadFd(d) ==
    /\ Len(d) <= Writable(b) + ExtraSize /\ Readable(b) + Len(d) <= MaxReadable
    /\ b' = ReadFd(b, d)
    /\ content' = content \o d

BufferNext ==
    \/ \E len \in 0..MaxReadable : CallRelease(len) \/ CallUnWrite(len)
    \/ \E d \in Data : CallWrite(d) \/ CallPrepend(d) \/ CallReadFd(d)
    \/ \E reserve \in 0..MaxLen : CallShrink(reserve)

BufferSpec == BufferInit /\ [][BufferNext]_bufferVars

-----------------------------------------------------------------------------
(* Properties.                                                             *)

\* The indices are in order and inside the vector, so that no copy and no
\* Peek() leaves it (Buffer.cpp:13-115).
IndicesInBounds ==
    b.read <= b.write /\ b.write <= Len(b.buffer)

\* Whatever the sequence of calls, the buffer holds what a queue of bytes would
\* hold: moving, growing and shrinking the vector loses, doubles or reorders
\* nothing and stays inside it (Buffer.cpp:39-46, 55-60, 64-89, 93-115).
HoldsTheBytes == IndicesInBounds /\ Bytes(b) = content
=============================================================================
