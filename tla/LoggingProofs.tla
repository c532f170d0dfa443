--------------------------- MODULE LoggingProofs ---------------------------
(***************************************************************************)
(* Theorems about the logging back end.                                    *)
(*                                                                         *)
(* AsyncLogging, for every size of a buffer, every number of buffers an    *)
(* overload leaves and every number of lines: the refill finds its         *)
(* buffers, the lines get to the file in order, and a Stop() that finds    *)
(* the background thread waiting loses nothing.                            *)
(*                                                                         *)
(* LogFile, which it writes to, for every roll size, flush interval,       *)
(* number of lines between checks and length of a day, and whatever        *)
(* written_bytes_ happens to start with: names and checks.                 *)
(***************************************************************************)
EXTENDS AsyncLogging, LogFile, FiniteSetTheorems, SequenceTheorems,
        WellFoundedInduction, TLAPS

(* ------------------------------ AsyncLogging ----------------------------- *)

Lines == 1..MaxLines

BuffersTypeOK ==
    /\ lines \in 0..MaxLines
    /\ current_buffer_ \in Seq(Lines)
    /\ buffers_ \in Seq(Seq(Lines))
    /\ buffers_to_write \in Seq(Seq(Lines))
    /\ next_buffer_ \in BOOLEAN
    /\ new_buffer1 \in BOOLEAN
    /\ new_buffer2 \in BOOLEAN

\* Where the spare buffers are: ThreadFunc() has both of its own except between
\* the swap and the refill, and whoever took next_buffer_ left a filled one.
SparesInv ==
    /\ pc \notin {"write", "refill"} => new_buffer1 /\ new_buffer2
    /\ ~next_buffer_ => buffers_ # <<>>
    /\ pc \in {"write", "refill"} => Len(buffers_to_write) >= Missing

BuffersIInv ==
    BuffersTypeOK /\ SparesInv /\ (owner_pc = "new" => pc = "none")

\* The constructor makes all spare buffers.
LEMMA BuffersInit == Init => BuffersIInv
BY AsyncLoggingAssumption DEF Init, BuffersIInv, BuffersTypeOK, SparesInv, Lines

\* An overload leaves two buffers, enough for both spares.
LEMMA KeptBuffers ==
    ASSUME NEW b \in Seq(Seq(Lines))
    PROVE  /\ KeptIfOverloaded(b) \in Seq(Seq(Lines))
           /\ \A n \in 0..2 : Len(b) >= n => Len(KeptIfOverloaded(b)) >= n
<1>1. CASE Len(b) > MaxBuffers
  <2>1. MaxBuffers \in Nat /\ MaxBuffers >= 2 /\ Len(b) \in Nat
    BY AsyncLoggingAssumption
  <2>2. SubSeq(b, 1, 2) \in Seq(Seq(Lines)) /\ Len(SubSeq(b, 1, 2)) = 2
    BY <1>1, <2>1
  <2> QED
    BY <1>1, <2>2 DEF KeptIfOverloaded
<1>2. CASE ~(Len(b) > MaxBuffers)
  BY <1>2 DEF KeptIfOverloaded
<1> QED
  BY <1>1, <1>2

\* A full buffer is queued (AsyncLogging.cpp:37).
LEMMA AppendedBuffer ==
    ASSUME NEW b \in Seq(Seq(Lines)), NEW c \in Seq(Lines)
    PROVE  Append(b, c) \in Seq(Seq(Lines)) /\ Append(b, c) # <<>>
BY AppendProperties

\* Every step keeps count of the spares.
LEMMA BuffersNext ==
    ASSUME BuffersIInv, [Next]_vars
    PROVE  BuffersIInv'
<1> USE DEF BuffersIInv, BuffersTypeOK, SparesInv
<1> USE DEF frontVars, backVars, ownerVars
<1>1. CASE AppendLine
  <2>1. lines' \in Lines /\ lines' \in 0..MaxLines
    BY <1>1, AsyncLoggingAssumption DEF AppendLine, Lines
  <2>2. CASE Len(current_buffer_) < BufferLines
    <3>1. /\ current_buffer_' = Append(current_buffer_, lines')
          /\ UNCHANGED <<next_buffer_, buffers_, pc, new_buffer1, new_buffer2, buffers_to_write,
                         owner_pc>>
      BY <1>1, <2>2 DEF AppendLine
    <3>2. current_buffer_' \in Seq(Lines)
      BY <2>1, <3>1
    <3> QED
      BY <2>1, <3>1, <3>2 DEF Missing
  <2>3. CASE ~(Len(current_buffer_) < BufferLines)
    <3>1. buffers_' = Append(buffers_, current_buffer_) /\ current_buffer_' = <<lines'>>
      BY <1>1, <2>3 DEF AppendLine
    <3>2. pc' = IF pc = "wait" THEN "swap" ELSE pc
      BY <1>1, <2>3 DEF AppendLine, Notify
    <3>3. UNCHANGED <<new_buffer1, new_buffer2, buffers_to_write, owner_pc>> /\ next_buffer_' = FALSE
      BY <1>1, <2>3 DEF AppendLine
    <3>4. /\ buffers_' \in Seq(Seq(Lines)) /\ buffers_' # <<>>
          /\ current_buffer_' \in Seq(Lines)
      <4>1. <<lines'>> \in Seq(Lines)
        BY <2>1
      <4>2. buffers_ \in Seq(Seq(Lines)) /\ current_buffer_ \in Seq(Lines)
        OBVIOUS
      <4>3. /\ Append(buffers_, current_buffer_) \in Seq(Seq(Lines))
            /\ Append(buffers_, current_buffer_) # <<>>
        <5> HIDE DEF BuffersIInv, BuffersTypeOK, SparesInv, frontVars, backVars, ownerVars
        <5> QED
          BY <4>2, AppendedBuffer
      <4> QED
        BY <3>1, <4>1, <4>3
    <3>5. Missing' = Missing
      BY <3>3 DEF Missing
    <3>6. SparesInv'
      BY <3>2, <3>3, <3>4, <3>5
    <3> QED
      BY <2>1, <3>2, <3>3, <3>4, <3>6
  <2> QED
    BY <2>2, <2>3
<1>2. CASE Start \/ StopClearsRunning \/ StopNotifies \/ StopJoins
  <2>1. /\ UNCHANGED <<lines, current_buffer_, buffers_, buffers_to_write, next_buffer_,
                       new_buffer1, new_buffer2>>
        /\ owner_pc' # "new"
        /\ pc' = pc \/ {pc, pc'} \cap {"write", "refill"} = {}
    BY <1>2 DEF Start, StopClearsRunning, StopNotifies, StopJoins, Notify
  <2> QED
    BY <2>1 DEF Missing
<1>3. CASE CheckRunning \/ LockAndWait \/ WaitTimesOut
  <2>1. /\ UNCHANGED <<lines, current_buffer_, buffers_, buffers_to_write, next_buffer_,
                       new_buffer1, new_buffer2>>
        /\ UNCHANGED owner_pc /\ pc # "none"
        /\ {pc, pc'} \cap {"write", "refill"} = {}
    BY <1>3 DEF CheckRunning, LockAndWait, WaitTimesOut
  <2> QED
    BY <2>1 DEF Missing
<1>4. CASE SwapBuffers
  <2>1. /\ Len(buffers_) \in Nat /\ Len(buffers_to_write') = Len(buffers_) + 1
        /\ ~next_buffer_ => Len(buffers_) >= 1
        /\ new_buffer1' = FALSE /\ new_buffer2' = next_buffer_
    BY <1>4 DEF SwapBuffers
  <2>2. Len(buffers_to_write') >= Missing'
    BY <2>1 DEF Missing
  <2>3. /\ buffers_to_write' \in Seq(Seq(Lines)) /\ buffers_' = <<>> /\ current_buffer_' = <<>>
        /\ new_buffer1' = FALSE /\ new_buffer2' = next_buffer_ /\ next_buffer_' = TRUE
        /\ pc' = "write" /\ pc = "swap" /\ UNCHANGED <<lines, owner_pc>>
    BY <1>4, AppendProperties DEF SwapBuffers
  <2>4. SparesInv' /\ (owner_pc' = "new" => pc' = "none")
    BY <2>2, <2>3
  <2>5. buffers_' \in Seq(Seq(Lines)) /\ current_buffer_' \in Seq(Lines) /\ lines' \in 0..MaxLines
    BY <2>3
  <2>6. new_buffer1' \in BOOLEAN /\ new_buffer2' \in BOOLEAN /\ next_buffer_' \in BOOLEAN
    BY <2>3, Zenon
  <2>7. BuffersTypeOK'
    BY <2>3, <2>5, <2>6, Zenon
  <2> QED
    BY <2>4, <2>7, Zenon
<1>5. CASE WriteBuffers
  <2>1. /\ buffers_to_write' = KeptIfOverloaded(buffers_to_write)
        /\ UNCHANGED <<frontVars, new_buffer1, new_buffer2>>
        /\ pc = "write" /\ pc' = "refill"
    BY <1>5 DEF WriteBuffers
  <2>2. Missing \in 0..2 /\ Missing' = Missing
    BY <2>1 DEF Missing
  <2>3. /\ buffers_to_write' \in Seq(Seq(Lines))
        /\ Len(buffers_to_write') >= Missing'
    BY <2>1, <2>2, KeptBuffers
  <2>4. UNCHANGED <<lines, current_buffer_, buffers_, next_buffer_, new_buffer1, new_buffer2, owner_pc>>
    BY <1>5 DEF WriteBuffers
  <2> QED
    BY <2>1, <2>3, <2>4
<1>6. CASE Refill
  BY <1>6 DEF Refill
<1>7. CASE UNCHANGED vars
  BY <1>7 DEF vars, Missing
<1> QED
  BY <1>1, <1>2, <1>3, <1>4, <1>5, <1>6, <1>7 DEF Next, BackThread

\* How many spare and written buffers there are at each step of the thread
\* (AsyncLogging.cpp:42-113).
THEOREM BuffersInvariant == Spec => []BuffersIInv
<1>1. BuffersIInv /\ [Next]_vars => BuffersIInv'
  BY BuffersNext
<1> QED
  BY BuffersInit, <1>1, PTL DEF Spec

\* The asserts of the refill never fail: there are written buffers for all the
\* spares that are missing, also after an overload has dropped all buffers but
\* two (AsyncLogging.cpp:71-72, 80-90, 98-113).
THEOREM RefillNeverFails == Spec => []RefillFindsBuffers
<1>1. BuffersIInv => RefillFindsBuffers
  BY DEF BuffersIInv, SparesInv, RefillFindsBuffers
<1> QED
  BY BuffersInvariant, <1>1, PTL

-----------------------------------------------------------------------------
(* FlattenSeq, by induction over the sequences joined.                     *)

\* The order of the naturals is well-founded, ...
LEMMA NatLess == OpToRel(<, Nat) = {ss \in Nat \X Nat : ss[1] < ss[2]}
BY DEF OpToRel

\* ... so that a set of them that is not empty has a least element.
LEMMA LeastNatural ==
    ASSUME NEW T \in SUBSET Nat, T # {}
    PROVE  \E n \in T : \A m \in T : n <= m
<1> DEFINE R == {ss \in Nat \X Nat : ss[1] < ss[2]}
<1>1. IsWellFoundedOn(R, Nat)
  BY NatLessThanWellFounded, NatLess, Zenon
<1>2. \A i, j \in Nat : i < j => <<i, j>> \in R
  OBVIOUS
<1> HIDE DEF R
<1>3. PICK n \in T : \A m \in T : ~(<<m, n>> \in R)
  BY <1>1, WFMin
<1>4. \A m \in T : n <= m
  <2> TAKE m \in T
  <2>1. m \in Nat /\ n \in Nat /\ ~(<<m, n>> \in R)
    BY <1>3
  <2> QED
    BY <1>2, <2>1
<1> QED
  BY <1>4

\* Joining is associative.
LEMMA JoinAssociative ==
    ASSUME NEW S
    PROVE  \A s, t, u \in Seq(S) : (s \o t) \o u = s \o (t \o u)
BY ConcatAssociative

\* The function that FlattenSeq(b) applies: f[i] joins the first i sequences of b.
Joins(f, b) == f = [i \in 1..Len(b) |-> IF i = 1 THEN b[i] ELSE f[i - 1] \o b[i]]

\* There is one, ...
LEMMA JoinsExists ==
    ASSUME NEW S, NEW b \in Seq(Seq(S))
    PROVE  \E f : Joins(f, b)
<1> DEFINE Step(f, i) == IF i = 1 THEN b[i] ELSE f[i - 1] \o b[i]
           Upto(f, n) == f = [i \in 1..n |-> Step(f, i)]
           T == {n \in Nat : n <= Len(b) /\ ~ \E f : Upto(f, n)}
<1>0. Len(b) \in Nat
  OBVIOUS
<1>1. SUFFICES ASSUME T # {} PROVE FALSE
  <2>1. CASE T = {}
    <3>1. Len(b) \notin T
      BY <2>1
    <3> HIDE DEF Upto
    <3>2. \E f : Upto(f, Len(b))
      BY <1>0, <3>1
    <3> USE DEF Upto
    <3> QED
      BY <3>2 DEF Joins
  <2> QED
    BY <2>1
<1>2. PICK n \in T : \A m \in T : n <= m
  <2>1. T \in SUBSET Nat
    OBVIOUS
  <2> HIDE DEF T
  <2> QED
    BY <1>1, <2>1, LeastNatural
<1>3. n # 0
  <2>1. Upto(<<>>, 0)
    OBVIOUS
  <2> QED
    BY <1>2, <2>1
<1>4. n - 1 \in Nat /\ n - 1 <= Len(b) /\ n - 1 \notin T
  <2>1. n \in Nat /\ n <= Len(b)
    OBVIOUS
  <2>2. ~(n <= n - 1) /\ n - 1 \in Nat /\ n - 1 <= Len(b)
    BY <1>0, <1>3, <2>1
  <2> HIDE DEF T
  <2> QED
    BY <1>2, <2>2
<1>5. PICK f : Upto(f, n - 1)
  BY <1>4
<1> DEFINE g == [i \in 1..n |-> IF i = n THEN Step(f, n) ELSE f[i]]
<1>6. Upto(g, n)
  <2>1. ASSUME NEW i \in 1..n PROVE g[i] = Step(g, i)
    <3>1. CASE i = n
      <4>1. n # 1 => g[n - 1] = f[n - 1]
        BY <1>2, <1>3
      <4> QED
        BY <3>1, <4>1
    <3>2. CASE i # n
      <4>1. i \in 1..(n - 1) /\ g[i] = f[i] /\ (i # 1 => g[i - 1] = f[i - 1])
        BY <1>2, <3>2
      <4>2. f[i] = Step(f, i)
        BY <1>5, <4>1
      <4> QED
        BY <4>1, <4>2
    <3> QED
      BY <3>1, <3>2
  <2> QED
    BY <2>1
<1> QED
  BY <1>2, <1>6

\* ... and the joins of the sequences two lists begin with are the same.
SameStart(b, c, k) ==
    /\ Len(b) \in Nat /\ Len(c) \in Nat
    /\ k \in (1..Len(b)) \cap (1..Len(c))
    /\ \A i \in 1..k : b[i] = c[i]

LEMMA JoinsAgree ==
    ASSUME NEW b, NEW c, NEW k, SameStart(b, c, k), NEW f, NEW g, Joins(f, b), Joins(g, c)
    PROVE  f[k] = g[k]
<1> USE DEF SameStart
<1> DEFINE T == {i \in 1..k : f[i] # g[i]}
<1>0. T \in SUBSET Nat /\ Len(b) \in Nat
  OBVIOUS
<1>1. SUFFICES ASSUME T # {} PROVE FALSE
  <2>1. k \in 1..k
    OBVIOUS
  <2> QED
    BY <2>1
<1>2. PICK n \in T : \A m \in T : n <= m
  <2> HIDE DEF T
  <2> QED
    BY <1>0, <1>1, LeastNatural
<1>3. /\ f[n] = IF n = 1 THEN b[n] ELSE f[n - 1] \o b[n]
      /\ g[n] = IF n = 1 THEN c[n] ELSE g[n - 1] \o c[n]
  <2>1. n \in 1..Len(b) /\ n \in 1..Len(c)
    OBVIOUS
  <2> QED
    BY <2>1 DEF Joins
<1>4. n # 1 => f[n - 1] = g[n - 1]
  BY <1>2
<1>5. b[n] = c[n] /\ f[n] # g[n]
  OBVIOUS
<1> QED
  BY <1>3, <1>4, <1>5

LEMMA FlattenIsLast ==
    ASSUME NEW S, NEW b \in Seq(Seq(S)), b # <<>>
    PROVE  \E f : Joins(f, b) /\ FlattenSeq(b) = f[Len(b)]
<1> DEFINE g == CHOOSE f : Joins(f, b)
<1>1. Len(b) # 0
  OBVIOUS
<1>2. FlattenSeq(b) = g[Len(b)]
  BY <1>1 DEF FlattenSeq, Joins
<1> QED
  BY <1>2, JoinsExists

\* Joined are sequences of the same elements.
LEMMA JoinsType ==
    ASSUME NEW S, NEW b \in Seq(Seq(S)), NEW f, Joins(f, b)
    PROVE  \A i \in 1..Len(b) : f[i] \in Seq(S)
<1> DEFINE T == {i \in 1..Len(b) : f[i] \notin Seq(S)}
<1>0. T \in SUBSET Nat /\ Len(b) \in Nat
  OBVIOUS
<1>1. SUFFICES ASSUME T # {} PROVE FALSE
  OBVIOUS
<1>2. PICK n \in T : \A m \in T : n <= m
  <2> HIDE DEF T
  <2> QED
    BY <1>0, <1>1, LeastNatural
<1>3. f[n] = IF n = 1 THEN b[n] ELSE f[n - 1] \o b[n]
  BY DEF Joins
<1>4. n # 1 => f[n - 1] \in Seq(S)
  BY <1>2
<1>5. b[n] \in Seq(S)
  OBVIOUS
<1> QED
  BY <1>3, <1>4, <1>5, ConcatProperties

LEMMA FlattenType ==
    ASSUME NEW S, NEW b \in Seq(Seq(S))
    PROVE  FlattenSeq(b) \in Seq(S)
<1>1. CASE b = <<>>
  BY <1>1 DEF FlattenSeq
<1>2. CASE b # <<>>
  <2>1. Len(b) \in 1..Len(b)
    BY <1>2
  <2> QED
    BY <1>2, <2>1, FlattenIsLast, JoinsType
<1> QED
  BY <1>1, <1>2

\* A sequence more is joined behind the others.
LEMMA FlattenAppend ==
    ASSUME NEW S, NEW b \in Seq(Seq(S)), NEW s \in Seq(S)
    PROVE  FlattenSeq(Append(b, s)) = FlattenSeq(b) \o s
<1> DEFINE c == Append(b, s)
<1>1. c \in Seq(Seq(S)) /\ Len(c) = Len(b) + 1 /\ c # <<>> /\ c[Len(b) + 1] = s
      /\ \A i \in 1..Len(b) : b[i] = c[i]
  BY AppendProperties
<1> HIDE DEF c
<1>2. PICK g : Joins(g, c) /\ FlattenSeq(c) = g[Len(b) + 1]
  BY <1>1, FlattenIsLast
<1>3. Len(b) \in Nat
  OBVIOUS
<1>4. g[Len(b) + 1] = IF Len(b) + 1 = 1 THEN s ELSE g[Len(b)] \o s
  <2>1. Len(b) + 1 \in 1..Len(c) /\ (Len(b) + 1) - 1 = Len(b)
    BY <1>1, <1>3
  <2> QED
    BY <1>1, <1>2, <2>1 DEF Joins
<1>5. CASE b = <<>>
  <2>1. FlattenSeq(b) = <<>>
    BY <1>5 DEF FlattenSeq
  <2>2. FlattenSeq(c) = s
    BY <1>2, <1>4, <1>5
  <2> QED
    BY <2>1, <2>2, ConcatEmptySeq DEF c
<1>6. CASE b # <<>>
  <2>1. PICK f : Joins(f, b) /\ FlattenSeq(b) = f[Len(b)]
    BY <1>6, FlattenIsLast
  <2>2. Len(b) \in 1..Len(b) /\ Len(b) <= Len(c)
    BY <1>1, <1>3, <1>6
  <2>3. f[Len(b)] = g[Len(b)]
    <3>1. SameStart(b, c, Len(b))
      BY <1>1, <1>3, <2>2 DEF SameStart
    <3> QED
      BY <1>2, <2>1, <3>1, JoinsAgree
  <2>4. Len(b) + 1 # 1
    BY <1>3, <2>2
  <2>5. FlattenSeq(c) = FlattenSeq(b) \o s
    BY <1>2, <1>4, <2>1, <2>2, <2>3, <2>4
  <2> QED
    BY <2>5 DEF c
<1> QED
  BY <1>5, <1>6

\* The join of a list begins with the join of its first sequences.
LEMMA FlattenPrefix ==
    ASSUME NEW S, NEW b \in Seq(Seq(S)), NEW k \in 1..Len(b)
    PROVE  \E x \in Seq(S) : FlattenSeq(b) = FlattenSeq(SubSeq(b, 1, k)) \o x
<1> DEFINE c == SubSeq(b, 1, k)
<1>0. Len(b) \in Nat /\ b # <<>> /\ k \in 1..Len(b)
  OBVIOUS
<1>1. c \in Seq(Seq(S)) /\ Len(c) = k /\ c # <<>> /\ \A i \in 1..k : c[i] = b[i]
  <2>1. c \in Seq(Seq(S)) /\ Len(c) = k
    BY <1>0
  <2>2. \A i \in 1..k : c[i] = b[i]
    BY <1>0
  <2> HIDE DEF c
  <2>3. c # <<>>
    BY <1>0, <2>1
  <2> QED
    BY <2>1, <2>2, <2>3
<1> HIDE DEF c
<1>2. PICK f : Joins(f, b) /\ FlattenSeq(b) = f[Len(b)]
  BY <1>0, FlattenIsLast
<1>3. PICK g : Joins(g, c) /\ FlattenSeq(c) = g[k]
  BY <1>1, FlattenIsLast
<1>4. g[k] = f[k]
  <2>1. SameStart(c, b, k)
    BY <1>0, <1>1 DEF SameStart
  <2> QED
    BY <1>2, <1>3, <2>1, JoinsAgree
<1>5. \A i \in 1..Len(b) : f[i] \in Seq(S)
  BY <1>2, JoinsType
<1> DEFINE T == {i \in k..Len(b) : ~ \E x \in Seq(S) : f[i] = f[k] \o x}
<1>6. T = {}
  <2> SUFFICES ASSUME T # {} PROVE FALSE
    OBVIOUS
  <2>1. PICK n \in T : \A m \in T : n <= m
    <3>1. T \in SUBSET Nat
      BY <1>0
    <3> HIDE DEF T
    <3> QED
      BY <3>1, LeastNatural
  <2>2. n # k
    <3>1. f[k] \o <<>> = f[k] /\ <<>> \in Seq(S)
      BY <1>0, <1>5, ConcatEmptySeq
    <3> QED
      BY <2>1, <3>1
  <2>3. n \in k..Len(b) /\ n - 1 \in k..Len(b) /\ ~(n <= n - 1) /\ n \in 1..Len(b)
    BY <1>0, <2>2
  <2>4. PICK x \in Seq(S) : f[n - 1] = f[k] \o x
    BY <2>1, <2>3
  <2>5. b[n] \in Seq(S) /\ f[k] \in Seq(S)
    BY <1>0, <1>5, <2>3
  <2>6. f[n] = f[n - 1] \o b[n]
    <3>1. n # 1 /\ n \in 1..Len(b)
      BY <1>0, <2>2, <2>3
    <3> HIDE DEF T
    <3> QED
      BY <1>2, <3>1 DEF Joins
  <2>7. (f[k] \o x) \o b[n] = f[k] \o (x \o b[n])
    <3> DEFINE y == f[k]
               z == b[n]
    <3>1. y \in Seq(S) /\ z \in Seq(S) /\ x \in Seq(S)
      BY <2>5
    <3> HIDE DEF T, y, z
    <3>2. \A p, q, r \in Seq(S) : (p \o q) \o r = p \o (q \o r)
      BY JoinAssociative, SMTT(20)
    <3>3. (y \o x) \o z = y \o (x \o z)
      BY <3>1, <3>2
    <3> QED
      BY <3>3 DEF y, z
  <2>8. x \o b[n] \in Seq(S)
    BY <2>5, ConcatProperties
  <2>9. n \notin T
    BY <2>4, <2>6, <2>7, <2>8
  <2> QED
    BY <2>9
<1>7. \E x \in Seq(S) : f[Len(b)] = f[k] \o x
  <2>1. Len(b) \in k..Len(b)
    BY <1>0
  <2> QED
    BY <1>6, <2>1
<1> QED
  BY <1>2, <1>3, <1>4, <1>7 DEF c

-----------------------------------------------------------------------------
(* Increasing sequences.                                                   *)

Increasing(s) == \A i, j \in 1..Len(s) : i < j => s[i] < s[j]

\* Where the elements of two joined sequences are.
LEMMA JoinElements ==
    ASSUME NEW S, NEW s \in Seq(S), NEW t \in Seq(S)
    PROVE  /\ s \o t \in Seq(S) /\ Len(s \o t) = Len(s) + Len(t)
           /\ \A i \in 1..Len(s) : (s \o t)[i] = s[i]
           /\ \A i \in 1..Len(t) : (s \o t)[Len(s) + i] = t[i]
           /\ ToSet(s \o t) = ToSet(s) \cup ToSet(t)
<1>1. Len(s) \in Nat /\ Len(t) \in Nat
  OBVIOUS
<1>2. s \o t \in Seq(S) /\ Len(s \o t) = Len(s) + Len(t)
  BY ConcatProperties
<1>3. \A i \in 1..Len(s) : (s \o t)[i] = s[i]
  BY <1>1
<1>4. \A i \in 1..Len(t) : (s \o t)[Len(s) + i] = t[i]
  BY <1>1
<1>5. \A i \in 1..(Len(s) + Len(t)) : i \in 1..Len(s) \/ i - Len(s) \in 1..Len(t)
  BY <1>1
<1>6. \A i \in 1..Len(t) : Len(s) + i \in 1..(Len(s) + Len(t))
  BY <1>1
<1>7. \A i \in 1..Len(s) : i \in 1..(Len(s) + Len(t))
  BY <1>1
<1>8. \A u \in Seq(S) : ToSet(u) = {u[i] : i \in 1..Len(u)}
  BY DEF ToSet
<1> DEFINE u == s \o t
<1> HIDE DEF u
<1>9. ToSet(u) = ToSet(s) \cup ToSet(t)
  <2>1. ASSUME NEW x \in ToSet(u) PROVE x \in ToSet(s) \cup ToSet(t)
    <3>1. PICK i \in 1..(Len(s) + Len(t)) : x = u[i]
      BY <1>2, <1>8 DEF u
    <3>2. CASE i \in 1..Len(s)
      BY <1>3, <1>8, <3>1, <3>2 DEF u
    <3>3. CASE i - Len(s) \in 1..Len(t)
      <4>1. Len(s) + (i - Len(s)) = i
        BY <1>1
      <4>2. u[i] = t[i - Len(s)]
        BY <1>4, <3>3, <4>1 DEF u
      <4> QED
        BY <1>8, <3>1, <3>3, <4>2
    <3> QED
      BY <1>5, <3>2, <3>3
  <2>2. ASSUME NEW x \in ToSet(s) PROVE x \in ToSet(u)
    <3>1. PICK i \in 1..Len(s) : x = s[i]
      BY <1>8
    <3>2. i \in 1..Len(u) /\ u[i] = x
      BY <1>2, <1>3, <1>7, <3>1 DEF u
    <3> QED
      BY <1>2, <1>8, <3>2 DEF u
  <2>3. ASSUME NEW x \in ToSet(t) PROVE x \in ToSet(u)
    <3>1. PICK i \in 1..Len(t) : x = t[i]
      BY <1>8
    <3>2. Len(s) + i \in 1..Len(u) /\ u[Len(s) + i] = x
      BY <1>2, <1>4, <1>6, <3>1 DEF u
    <3> QED
      BY <1>2, <1>8, <3>2 DEF u
  <2> QED
    BY <2>1, <2>2, <2>3
<1> QED
  BY <1>2, <1>3, <1>4, <1>9 DEF u

\* A greater number behind an increasing sequence.
LEMMA IncreasingAppend ==
    ASSUME NEW s \in Seq(Nat), Increasing(s), NEW n \in Nat, \A x \in ToSet(s) : x < n
    PROVE  /\ Increasing(s \o <<n>>)
           /\ ToSet(s \o <<n>>) = ToSet(s) \cup {n}
<1> DEFINE t == <<n>>
           u == s \o t
<1>1. t \in Seq(Nat) /\ Len(t) = 1 /\ t[1] = n /\ ToSet(t) = {n} /\ Len(s) \in Nat
  BY DEF ToSet
<1>t. t \in Seq(Nat)
  BY <1>1
<1> HIDE DEF t
<1>2. /\ u \in Seq(Nat) /\ Len(u) = Len(s) + 1 /\ u[Len(s) + 1] = n
      /\ \A i \in 1..Len(s) : u[i] = s[i]
      /\ ToSet(u) = ToSet(s) \cup {n}
  <2>1. /\ u \in Seq(Nat) /\ Len(u) = Len(s) + Len(t)
        /\ \A i \in 1..Len(s) : u[i] = s[i]
        /\ \A i \in 1..Len(t) : u[Len(s) + i] = t[i]
        /\ ToSet(u) = ToSet(s) \cup ToSet(t)
    BY <1>t, JoinElements
  <2>2. 1 \in 1..Len(t)
    BY <1>1
  <2> QED
    BY <1>1, <2>1, <2>2
<1> HIDE DEF u
<1>3. \A i \in 1..Len(s) : s[i] \in ToSet(s)
  BY DEF ToSet
<1>4. ASSUME NEW i \in 1..Len(u), NEW j \in 1..Len(u), i < j PROVE u[i] < u[j]
  <2>1. i \in 1..Len(s)
    BY <1>1, <1>2, <1>4
  <2>2. CASE j \in 1..Len(s)
    BY <1>2, <1>4, <2>1, <2>2 DEF Increasing
  <2>3. CASE j \notin 1..Len(s)
    <3>1. j = Len(s) + 1
      BY <1>1, <1>2, <2>3
    <3>2. u[i] = s[i] /\ u[j] = n
      BY <1>2, <2>1, <3>1
    <3> QED
      BY <1>3, <2>1, <3>2
  <2> QED
    BY <2>2, <2>3
<1> QED
  BY <1>2, <1>4 DEF Increasing, u, t

\* An increasing sequence with a piece cut out.
LEMMA IncreasingCut ==
    ASSUME NEW a \in Seq(Nat), NEW x \in Seq(Nat), NEW b \in Seq(Nat), Increasing((a \o x) \o b)
    PROVE  /\ Increasing(a \o b)
           /\ ToSet(a) \cap ToSet(x) = {}
           /\ ToSet(b) \cap ToSet(x) = {}
<1> DEFINE c == a \o x
           u == c \o b
           v == a \o b
           k == Len(a)
           l == Len(x)
           m == Len(b)
<1>1. k \in Nat /\ l \in Nat /\ m \in Nat
  OBVIOUS
<1>2. /\ c \in Seq(Nat) /\ Len(c) = k + l
      /\ \A i \in 1..k : c[i] = a[i]
      /\ \A i \in 1..l : c[k + i] = x[i]
  BY JoinElements
<1>3. Increasing(u)
  OBVIOUS
<1>c. c \in Seq(Nat)
  BY <1>2
<1> HIDE DEF c
<1>4. /\ Len(u) = (k + l) + m
      /\ \A i \in 1..(k + l) : u[i] = c[i]
      /\ \A i \in 1..m : u[(k + l) + i] = b[i]
  <2>1. /\ Len(u) = Len(c) + Len(b)
        /\ \A i \in 1..Len(c) : u[i] = c[i]
        /\ \A i \in 1..Len(b) : u[Len(c) + i] = b[i]
    BY <1>c, JoinElements
  <2> HIDE DEF u, k, l
  <2> QED
    BY <1>2, <2>1
<1>5. /\ Len(v) = k + m
      /\ \A i \in 1..k : v[i] = a[i]
      /\ \A i \in 1..m : v[k + i] = b[i]
  BY JoinElements
<1>6. /\ ToSet(a) = {a[i] : i \in 1..k}
      /\ ToSet(b) = {b[i] : i \in 1..m}
      /\ ToSet(x) = {x[i] : i \in 1..l}
  BY DEF ToSet
<1>7. \A i \in 1..k : a[i] \in Nat
  OBVIOUS
<1>8. \A i \in 1..m : b[i] \in Nat
  OBVIOUS
<1>9. \A i \in 1..l : x[i] \in Nat
  OBVIOUS
<1> HIDE DEF u, v, k, l, m
<1>n. Len(u) = (k + l) + m /\ Len(v) = k + m
  BY <1>4, <1>5
<1>10. \A i \in 1..k : u[i] = a[i]
  BY <1>1, <1>2, <1>4
<1>11. \A i \in 1..l : u[k + i] = x[i]
  BY <1>1, <1>2, <1>4
<1>12. ASSUME NEW i \in 1..k, NEW j \in 1..l PROVE a[i] < x[j]
  <2>1. i \in 1..Len(u) /\ k + j \in 1..Len(u) /\ i < k + j
    BY <1>1, <1>n
  <2> QED
    BY <1>3, <1>10, <1>11, <2>1 DEF Increasing
<1>13. ASSUME NEW i \in 1..m, NEW j \in 1..l PROVE x[j] < b[i]
  <2>1. (k + l) + i \in 1..Len(u) /\ k + j \in 1..Len(u) /\ k + j < (k + l) + i
    BY <1>1, <1>n
  <2>2. u[k + j] < u[(k + l) + i]
    BY <1>3, <2>1 DEF Increasing
  <2> QED
    BY <1>4, <1>11, <2>2
<1>14. ASSUME NEW i \in 1..Len(v), NEW j \in 1..Len(v), i < j PROVE v[i] < v[j]
  <2> DEFINE At(n) == IF n \in 1..k THEN n ELSE l + n
  <2>1. ASSUME NEW n \in 1..Len(v) PROVE At(n) \in 1..Len(u) /\ v[n] = u[At(n)]
    <3>1. CASE n \in 1..k
      BY <1>1, <1>4, <1>5, <1>10, <3>1
    <3>2. CASE n \notin 1..k
      <4>1. n - k \in 1..m /\ k + (n - k) = n /\ (k + l) + (n - k) = l + n
        BY <1>1, <1>5, <3>2
      <4>2. v[n] = b[n - k] /\ u[l + n] = b[n - k]
        BY <1>4, <1>5, <4>1
      <4>3. l + n \in 1..Len(u)
        BY <1>1, <1>4, <1>5
      <4> QED
        BY <3>2, <4>2, <4>3
    <3> QED
      BY <3>1, <3>2
  <2>2. At(i) < At(j)
    BY <1>1, <1>5, <1>14
  <2> HIDE DEF At
  <2> QED
    BY <1>3, <2>1, <2>2 DEF Increasing
<1>15. ToSet(a) \cap ToSet(x) = {}
  <2> SUFFICES ASSUME NEW i \in 1..k, NEW j \in 1..l, a[i] = x[j] PROVE FALSE
    BY <1>6
  <2> QED
    BY <1>7, <1>9, <1>12
<1>16. ToSet(b) \cap ToSet(x) = {}
  <2> SUFFICES ASSUME NEW i \in 1..m, NEW j \in 1..l, b[i] = x[j] PROVE FALSE
    BY <1>6
  <2> QED
    BY <1>8, <1>9, <1>13
<1> QED
  BY <1>14, <1>15, <1>16 DEF Increasing, v

-----------------------------------------------------------------------------
(* The lines on their way.                                                 *)

\* How lines are joined.
LEMMA JoinLines ==
    \A s, t, u \in Seq(Lines) : (s \o t) \o u = s \o (t \o u)
BY ConcatAssociative

LEMMA JoinedLines ==
    \A s, t \in Seq(Lines) : s \o t \in Seq(Lines) /\ ToSet(s \o t) = ToSet(s) \cup ToSet(t)
BY JoinElements

LEMMA JoinNoLines ==
    \A s \in Seq(Lines) : s \o <<>> = s
BY ConcatEmptySeq

-----------------------------------------------------------------------------
(* The invariants of the lines.                                            *)

\* What is to be written: nothing more, once it is in the file.
Unwritten == FlattenSeq(IF pc = "refill" THEN <<>> ELSE buffers_to_write)

\* The buffers are swapped out for a write only, and what was dropped was
\* appended before.
LinesInv ==
    /\ file \in Seq(Lines)
    /\ dropped \subseteq 1..lines
    /\ pc \notin {"write", "refill"} => buffers_to_write = <<>>
    /\ LinesInOrder

\* What was appended before a Stop() in the wait stays where the thread writes
\* it from, and is written when it comes to look at running_ again.
StopInv ==
    /\ before_stop \in 0..lines
    /\ owner_pc \in {"new", "running", "notify", "join", "stopped"}
    /\ owner_pc \in {"new", "running"} => before_stop = 0
    /\ owner_pc \in {"notify", "join", "stopped"} => ~running_
    /\ owner_pc = "stopped" => pc = "exited"
    /\ before_stop > 0 => pc \in {"wait", "swap", "write", "refill", "while", "exited"}
    /\ \A l \in 1..before_stop :
            /\ pc = "write" => l \in ToSet(file) \cup dropped \cup ToSet(Unwritten)
            /\ pc \in {"refill", "while", "exited"} => l \in ToSet(file) \cup dropped

LEMMA FlattenNothing == FlattenSeq(<<>>) = <<>>
BY DEF FlattenSeq

LEMMA InOrder == LinesInOrder <=> Increasing(AllLines) /\ ToSet(AllLines) = (1..lines) \ dropped
BY DEF LinesInOrder, Increasing

LEMMA NumbersOfLines == Seq(Lines) \subseteq Seq(Nat)
BY AsyncLoggingAssumption DEF Lines

LEMMA LinesTypes ==
    ASSUME BuffersTypeOK, LinesInv
    PROVE  /\ Unwritten \in Seq(Lines)
           /\ FlattenSeq(buffers_) \in Seq(Lines)
           /\ AllLines \in Seq(Lines)
           /\ ToSet(AllLines) = ToSet(file) \cup ToSet(Unwritten)
                                  \cup ToSet(FlattenSeq(buffers_)) \cup ToSet(current_buffer_)
<1>1. FlattenSeq(buffers_) \in Seq(Lines) /\ FlattenSeq(buffers_to_write) \in Seq(Lines)
  BY FlattenType DEF BuffersTypeOK
<1>2. Unwritten \in Seq(Lines)
  <2>1. CASE pc = "refill"
    <3>1. Unwritten = <<>>
      BY <2>1, FlattenNothing DEF Unwritten
    <3> QED
      BY <3>1
  <2>2. CASE pc # "refill"
    <3>1. Unwritten = FlattenSeq(buffers_to_write)
      BY <2>2 DEF Unwritten
    <3> QED
      BY <1>1, <3>1
  <2> QED
    BY <2>1, <2>2
<1>3. current_buffer_ \in Seq(Lines) /\ file \in Seq(Lines)
  BY DEF BuffersTypeOK, LinesInv
<1> DEFINE a == file \o Unwritten
           b == a \o FlattenSeq(buffers_)
<1>4. a \in Seq(Lines) /\ ToSet(a) = ToSet(file) \cup ToSet(Unwritten)
  BY <1>2, <1>3, JoinedLines
<1> HIDE DEF a
<1>5. b \in Seq(Lines) /\ ToSet(b) = ToSet(a) \cup ToSet(FlattenSeq(buffers_))
  BY <1>1, <1>4, JoinedLines
<1> HIDE DEF b
<1>6. b \o current_buffer_ \in Seq(Lines)
      /\ ToSet(b \o current_buffer_) = ToSet(b) \cup ToSet(current_buffer_)
  BY <1>3, <1>5, JoinedLines
<1>7. AllLines = b \o current_buffer_
  BY DEF AllLines, Unwritten, a, b
<1> QED
  BY <1>1, <1>2, <1>4, <1>5, <1>6, <1>7

\* An overload keeps the first lines.
LEMMA KeptLines ==
    ASSUME NEW b \in Seq(Seq(Lines))
    PROVE  \E x \in Seq(Lines) : FlattenSeq(b) = FlattenSeq(KeptIfOverloaded(b)) \o x
<1>1. CASE Len(b) > MaxBuffers
  <2>1. 2 \in 1..Len(b)
    BY <1>1, AsyncLoggingAssumption
  <2> QED
    BY <1>1, <2>1, FlattenPrefix DEF KeptIfOverloaded
<1>2. CASE ~(Len(b) > MaxBuffers)
  <2>1. FlattenSeq(b) \in Seq(Lines)
    BY FlattenType
  <2>2. FlattenSeq(b) = FlattenSeq(b) \o <<>> /\ <<>> \in Seq(Lines)
    BY <2>1, JoinNoLines
  <2> QED
    BY <1>2, <2>2 DEF KeptIfOverloaded
<1> QED
  BY <1>1, <1>2

\* A step that moves no line, or moves all of a piece.
LEMMA LinesStay ==
    ASSUME LinesInv, AllLines' = AllLines, file' \in Seq(Lines), lines' = lines, dropped' = dropped,
           pc' \notin {"write", "refill"} => buffers_to_write' = <<>>
    PROVE  LinesInv'
<1>1. LinesInOrder'
  <2>1. LinesInOrder' <=> Increasing(AllLines') /\ ToSet(AllLines') = (1..lines') \ dropped'
    BY DEF LinesInOrder, Increasing
  <2> QED
    BY <2>1, InOrder DEF LinesInv
<1> QED
  BY <1>1 DEF LinesInv

\* A line more, behind all others.
LEMMA AppendKeepsLines ==
    ASSUME BuffersTypeOK, LinesInv, AppendLine
    PROVE  LinesInv'
<1> DEFINE n == lines'
           t == <<n>>
           fb == FlattenSeq(buffers_)
           fb2 == FlattenSeq(buffers_')
           x == file \o Unwritten
           y == x \o fb
<1>1. /\ lines' = lines + 1 /\ lines \in Nat /\ lines' \in Lines /\ t \in Seq(Lines)
      /\ file' = file /\ dropped' = dropped
      /\ buffers_to_write' = buffers_to_write
  BY AsyncLoggingAssumption DEF AppendLine, BuffersTypeOK, Lines
<1>2. /\ Unwritten \in Seq(Lines) /\ fb \in Seq(Lines) /\ AllLines \in Seq(Lines)
      /\ current_buffer_ \in Seq(Lines) /\ file \in Seq(Lines)
  BY LinesTypes DEF BuffersTypeOK, LinesInv
<1>3. x \in Seq(Lines)
  BY <1>2, JoinedLines
<1>4. pc' = pc \/ (pc = "wait" /\ pc' = "swap")
  BY DEF AppendLine, Notify
<1>5. Unwritten' = Unwritten /\ (pc' \notin {"write", "refill"} => buffers_to_write' = <<>>)
  BY <1>1, <1>4 DEF Unwritten, LinesInv
<1>6. AllLines = y \o current_buffer_ /\ AllLines' = (x \o fb2) \o current_buffer_'
  BY <1>1, <1>5 DEF AllLines, Unwritten
<1> HIDE DEF x, fb, fb2
<1>7. y \in Seq(Lines)
  BY <1>2, <1>3, JoinedLines
<1>8. AllLines' = AllLines \o t
  <2>1. CASE Len(current_buffer_) < BufferLines
    <3>1. current_buffer_' = current_buffer_ \o t /\ fb2 = fb
      BY <1>1, <1>2, <2>1 DEF AppendLine, fb, fb2
    <3> DEFINE c == current_buffer_
    <3>2. y \in Seq(Lines) /\ c \in Seq(Lines) /\ t \in Seq(Lines)
      BY <1>1, <1>2, <1>7
    <3> HIDE DEF y, t, c
    <3>3. (y \o c) \o t = y \o (c \o t)
      BY <3>2, JoinLines
    <3> QED
      BY <1>6, <3>1, <3>3 DEF y, c
  <2>2. CASE ~(Len(current_buffer_) < BufferLines)
    <3>1. buffers_' = Append(buffers_, current_buffer_) /\ current_buffer_' = t
      BY <2>2 DEF AppendLine
    <3>2. fb2 = fb \o current_buffer_
      BY <1>2, <3>1, FlattenAppend DEF BuffersTypeOK, fb, fb2
    <3>3. (x \o fb) \o current_buffer_ = x \o (fb \o current_buffer_)
      BY <1>2, <1>3, JoinLines
    <3> QED
      BY <1>6, <3>1, <3>2, <3>3
  <2> QED
    BY <2>1, <2>2
<1>9. Increasing(AllLines') /\ ToSet(AllLines') = ToSet(AllLines) \cup {n}
  <2>1. AllLines \in Seq(Nat) /\ n \in Nat
    BY <1>1, <1>2, NumbersOfLines
  <2>2. \A l \in ToSet(AllLines) : l < n
    BY <1>1, InOrder DEF LinesInv
  <2>3. Increasing(AllLines)
    BY InOrder DEF LinesInv
  <2> HIDE DEF n
  <2> QED
    BY <1>8, <2>1, <2>2, <2>3, IncreasingAppend
<1>10. ToSet(AllLines') = (1..lines') \ dropped'
  BY <1>1, <1>9, InOrder DEF LinesInv
<1>11. LinesInOrder'
  BY <1>9, <1>10 DEF LinesInOrder, Increasing
<1>12. dropped' \subseteq 1..lines'
  BY <1>1 DEF LinesInv
<1> QED
  BY <1>1, <1>2, <1>5, <1>11, <1>12 DEF LinesInv

\* The filled buffers and the one being filled are taken out in their order.
LEMMA SwapKeepsLines ==
    ASSUME BuffersTypeOK, LinesInv, SwapBuffers
    PROVE  LinesInv'
<1> DEFINE fb == FlattenSeq(buffers_)
           u2 == fb \o current_buffer_
<1>1. /\ pc = "swap" /\ pc' = "write"
      /\ file' = file /\ lines' = lines /\ dropped' = dropped
      /\ buffers_to_write' = Append(buffers_, current_buffer_)
      /\ buffers_' = <<>> /\ current_buffer_' = <<>>
  BY DEF SwapBuffers
<1>2. /\ fb \in Seq(Lines) /\ current_buffer_ \in Seq(Lines) /\ file \in Seq(Lines)
  BY LinesTypes DEF BuffersTypeOK, LinesInv
<1>3. Unwritten = <<>>
  BY <1>1, FlattenNothing DEF Unwritten, LinesInv
<1>4. Unwritten' = u2
  BY <1>1, <1>2, FlattenAppend DEF Unwritten, BuffersTypeOK
<1>5. AllLines' = ((file \o u2) \o <<>>) \o <<>>
  BY <1>1, <1>4, FlattenNothing DEF AllLines, Unwritten
<1>6. AllLines = ((file \o <<>>) \o fb) \o current_buffer_
  BY <1>3 DEF AllLines, Unwritten
<1> HIDE DEF fb
<1>7. u2 \in Seq(Lines) /\ (file \o fb) \o current_buffer_ = file \o u2
  BY <1>2, JoinedLines, JoinLines
<1> HIDE DEF u2
<1>8. file \o u2 \in Seq(Lines)
  BY <1>2, <1>7, JoinedLines
<1>9. AllLines' = file \o u2
  BY <1>5, <1>8, JoinNoLines
<1>10. AllLines = (file \o fb) \o current_buffer_
  BY <1>2, <1>6, JoinNoLines
<1> QED
  BY <1>1, <1>2, <1>7, <1>9, <1>10, LinesStay

\* The buffers kept are behind the file, the others are dropped.
LEMMA WriteKeepsLines ==
    ASSUME BuffersTypeOK, LinesInv, WriteBuffers
    PROVE  LinesInv'
<1> DEFINE b == buffers_to_write
           k == FlattenSeq(KeptIfOverloaded(b))
           fb == FlattenSeq(buffers_)
           a == file \o k
           d == fb \o current_buffer_
<1>1. /\ pc = "write" /\ pc' = "refill"
      /\ lines' = lines /\ buffers_' = buffers_ /\ current_buffer_' = current_buffer_
      /\ file' = a
      /\ dropped' = dropped \cup (ToSet(FlattenSeq(b)) \ ToSet(k))
  BY DEF WriteBuffers, frontVars
<1>2. b \in Seq(Seq(Lines))
  BY DEF BuffersTypeOK
<1>3. k \in Seq(Lines)
  BY <1>2, KeptBuffers, FlattenType
<1>4. PICK x \in Seq(Lines) : FlattenSeq(b) = k \o x
  BY <1>2, KeptLines
<1>5. fb \in Seq(Lines) /\ current_buffer_ \in Seq(Lines) /\ file \in Seq(Lines)
  BY LinesTypes DEF BuffersTypeOK, LinesInv
<1>6. AllLines' = ((a \o <<>>) \o fb) \o current_buffer_
  BY <1>1, FlattenNothing DEF AllLines
<1>7. AllLines = ((file \o (k \o x)) \o fb) \o current_buffer_
  BY <1>1, <1>4 DEF AllLines
<1>8. ToSet(FlattenSeq(b)) = ToSet(k) \cup ToSet(x)
  BY <1>3, <1>4, JoinedLines
<1> HIDE DEF b, k, fb
<1>9. /\ a \in Seq(Lines) /\ d \in Seq(Lines)
      /\ ToSet(a) = ToSet(file) \cup ToSet(k)
  BY <1>3, <1>5, JoinedLines
<1>10. file \o (k \o x) = a \o x
  BY <1>3, <1>5, JoinLines
<1> DEFINE c == a \o x
<1> HIDE DEF a
<1>11. c \in Seq(Lines) /\ a \o <<>> = a
  BY <1>9, JoinedLines, JoinNoLines
<1>12. AllLines' = a \o d
  <2>1. (a \o fb) \o current_buffer_ = a \o d
    <3>1. a \in Seq(Lines) /\ fb \in Seq(Lines) /\ current_buffer_ \in Seq(Lines)
      BY <1>5, <1>9
    <3> QED
      BY <3>1, JoinLines, Zenon
  <2> QED
    BY <1>6, <1>11, <2>1
<1> HIDE DEF c
<1>13. AllLines = c \o d
  <2>1. (c \o fb) \o current_buffer_ = c \o d
    BY <1>5, <1>11, JoinLines
  <2> QED
    BY <1>7, <1>10, <2>1 DEF c
<1> HIDE DEF d
<1>14. /\ a \in Seq(Nat) /\ x \in Seq(Nat) /\ d \in Seq(Nat) /\ Increasing((a \o x) \o d)
  BY <1>9, <1>13, NumbersOfLines, InOrder DEF LinesInv, c
<1>15. /\ Increasing(AllLines')
       /\ ToSet(a) \cap ToSet(x) = {} /\ ToSet(d) \cap ToSet(x) = {}
  BY <1>12, <1>14, IncreasingCut
<1>16. /\ ToSet(AllLines') = ToSet(a) \cup ToSet(d)
       /\ ToSet(AllLines) = ToSet(a) \cup ToSet(x) \cup ToSet(d)
  <2>1. ToSet(c) = ToSet(a) \cup ToSet(x)
    BY <1>9, JoinedLines DEF c
  <2>2. ToSet(c \o d) = ToSet(c) \cup ToSet(d)
    BY <1>9, <1>11, JoinedLines
  <2>3. ToSet(a \o d) = ToSet(a) \cup ToSet(d)
    BY <1>9, JoinedLines
  <2> QED
    BY <1>12, <1>13, <2>1, <2>2, <2>3
<1>17. dropped' = dropped \cup ToSet(x)
  BY <1>1, <1>8, <1>9, <1>15
<1>18. ToSet(AllLines) = (1..lines) \ dropped /\ dropped \subseteq 1..lines
  BY InOrder DEF LinesInv
<1>19. ToSet(AllLines') = (1..lines') \ dropped' /\ dropped' \subseteq 1..lines'
  BY <1>1, <1>15, <1>16, <1>17, <1>18
<1>20. LinesInOrder'
  BY <1>15, <1>19 DEF LinesInOrder, Increasing
<1> QED
  BY <1>1, <1>9, <1>19, <1>20 DEF LinesInv

LEMMA LinesNext ==
    ASSUME BuffersIInv, LinesInv, [Next]_vars
    PROVE  LinesInv'
<1> USE DEF frontVars, backVars, ownerVars
<1>0. BuffersTypeOK /\ file \in Seq(Lines)
  BY DEF BuffersIInv, LinesInv
<1>1. CASE Refill
  <2>1. AllLines' = AllLines /\ buffers_to_write' = <<>>
    BY <1>1 DEF Refill, AllLines
  <2>2. file' = file /\ lines' = lines /\ dropped' = dropped
    BY <1>1 DEF Refill
  <2> QED
    BY <1>0, <2>1, <2>2, LinesStay
<1>2. CASE \/ Start \/ StopClearsRunning \/ StopNotifies \/ StopJoins
           \/ CheckRunning \/ LockAndWait \/ WaitTimesOut \/ UNCHANGED vars
  <2>1. /\ UNCHANGED <<lines, current_buffer_, buffers_, buffers_to_write, file, dropped>>
        /\ pc' = pc \/ {pc, pc'} \cap {"write", "refill"} = {}
    <3>1. Start => pc = "none"
      BY DEF Start, BuffersIInv
    <3> QED
      BY <1>2, <3>1 DEF Start, StopClearsRunning, StopNotifies, StopJoins, Notify,
                    CheckRunning, LockAndWait, WaitTimesOut, vars
  <2>2. AllLines' = AllLines
    BY <2>1 DEF AllLines
  <2>3. pc' \notin {"write", "refill"} => buffers_to_write' = <<>>
    BY <2>1 DEF LinesInv
  <2> QED
    BY <1>0, <2>1, <2>2, <2>3, LinesStay
<1> QED
  BY <1>0, <1>1, <1>2, AppendKeepsLines, SwapKeepsLines, WriteKeepsLines DEF Next, BackThread

\* Where the lines appended before Stop() are.
LEMMA StopNext ==
    ASSUME BuffersIInv, LinesInv, StopInv, [Next]_vars
    PROVE  StopInv'
<1> USE DEF frontVars, backVars, ownerVars
<1>0. BuffersTypeOK /\ lines \in Nat /\ before_stop \in Nat
  BY DEF BuffersIInv, BuffersTypeOK, StopInv
<1>1. CASE AppendLine
  <2>1. /\ UNCHANGED <<before_stop, owner_pc, running_, file, dropped, buffers_to_write>>
        /\ lines' = lines + 1
        /\ pc' = pc \/ (pc = "wait" /\ pc' = "swap")
    BY <1>1 DEF AppendLine, Notify
  <2>2. Unwritten' = Unwritten
    BY <2>1 DEF Unwritten
  <2> QED
    BY <1>0, <2>1, <2>2 DEF StopInv
<1>2. CASE Start \/ StopNotifies \/ StopJoins
  <2>1. /\ UNCHANGED <<before_stop, lines, file, dropped, buffers_to_write>>
        /\ \/ owner_pc = "new" /\ owner_pc' = "running"
           \/ owner_pc = "notify" /\ owner_pc' = "join" /\ UNCHANGED running_
              /\ (pc' = pc \/ (pc = "wait" /\ pc' = "swap"))
           \/ owner_pc = "join" /\ owner_pc' = "stopped" /\ UNCHANGED <<running_, pc>>
              /\ pc = "exited"
    BY <1>2 DEF Start, StopNotifies, StopJoins, Notify
  <2>2. pc' = pc => Unwritten' = Unwritten
    BY <2>1 DEF Unwritten
  <2> QED
    BY <1>0, <2>1, <2>2 DEF StopInv
<1>3. CASE StopClearsRunning
  <2>1. /\ UNCHANGED <<lines, file, dropped, buffers_to_write, pc>>
        /\ owner_pc' = "notify" /\ running_' = FALSE
        /\ before_stop' = IF pc = "wait" THEN lines ELSE 0
    BY <1>3 DEF StopClearsRunning
  <2> QED
    BY <1>0, <2>1 DEF StopInv
<1>4. CASE CheckRunning \/ LockAndWait \/ WaitTimesOut \/ UNCHANGED vars
  <2>1. /\ UNCHANGED <<before_stop, owner_pc, running_, lines, file, dropped, buffers_to_write>>
        /\ \/ pc' = pc
           \/ pc = "while" /\ pc' = (IF running_ THEN "lock" ELSE "exited")
           \/ pc = "lock" /\ pc' \in {"wait", "swap"}
           \/ pc = "wait" /\ pc' = "swap"
    BY <1>4 DEF CheckRunning, LockAndWait, WaitTimesOut, vars
  <2>2. pc' = pc => Unwritten' = Unwritten
    BY <2>1 DEF Unwritten
  <2>3. before_stop > 0 => ~running_ /\ pc # "lock" /\ owner_pc \in {"notify", "join", "stopped"}
    BY <1>0, <1>4 DEF StopInv
  <2>4. owner_pc = "stopped" => pc = "exited"
    BY DEF StopInv
  <2> QED
    BY <1>0, <2>1, <2>2, <2>3, <2>4 DEF StopInv
<1>5. CASE SwapBuffers
  <2>1. /\ UNCHANGED <<before_stop, owner_pc, running_, lines, file, dropped>>
        /\ pc = "swap" /\ pc' = "write"
    BY <1>5 DEF SwapBuffers
  <2>2. LinesInv' /\ BuffersTypeOK'
    BY <1>0, <1>5, SwapKeepsLines, BuffersNext DEF Next, BackThread, BuffersIInv
  <2>3. ToSet(AllLines') = ToSet(file') \cup ToSet(Unwritten')
    <3> DEFINE u2 == FlattenSeq(buffers_to_write')
    <3>1. /\ file' \in Seq(Lines) /\ buffers_to_write' \in Seq(Seq(Lines))
          /\ buffers_' = <<>> /\ current_buffer_' = <<>>
      BY <1>5, <2>2 DEF SwapBuffers, LinesInv, BuffersTypeOK
    <3>2. u2 \in Seq(Lines)
      BY <3>1, FlattenType
    <3>3. Unwritten' = u2 /\ AllLines' = ((file' \o u2) \o <<>>) \o <<>>
      BY <2>1, <3>1, FlattenNothing DEF Unwritten, AllLines
    <3> HIDE DEF u2
    <3>4. file' \o u2 \in Seq(Lines) /\ ToSet(file' \o u2) = ToSet(file') \cup ToSet(u2)
      BY <3>1, <3>2, JoinedLines
    <3> QED
      BY <3>3, <3>4, JoinNoLines
  <2>4. \A l \in 1..lines : l \in ToSet(file') \cup dropped' \cup ToSet(Unwritten')
    <3>1. ToSet(AllLines') = (1..lines') \ dropped'
      BY <2>2 DEF LinesInv, LinesInOrder
    <3> QED
      BY <2>1, <2>3, <3>1
  <2> QED
    BY <1>0, <2>1, <2>4 DEF StopInv
<1>6. CASE WriteBuffers
  <2> DEFINE k == FlattenSeq(KeptIfOverloaded(buffers_to_write))
  <2>1. /\ UNCHANGED <<before_stop, owner_pc, running_, lines>>
        /\ pc = "write" /\ pc' = "refill"
        /\ file' = file \o k
        /\ dropped' = dropped \cup (ToSet(Unwritten) \ ToSet(k))
    BY <1>6 DEF WriteBuffers, Unwritten
  <2>2. ToSet(file') = ToSet(file) \cup ToSet(k)
    <3>1. k \in Seq(Lines) /\ file \in Seq(Lines)
      BY KeptBuffers, FlattenType DEF BuffersIInv, BuffersTypeOK, LinesInv
    <3> HIDE DEF k
    <3> QED
      BY <2>1, <3>1, JoinedLines
  <2> HIDE DEF k
  <2>3. \A l \in 1..before_stop : l \in ToSet(file') \cup dropped'
    BY <2>1, <2>2 DEF StopInv
  <2> QED
    BY <1>0, <2>1, <2>3 DEF StopInv
<1>7. CASE Refill
  <2>1. /\ UNCHANGED <<before_stop, owner_pc, running_, lines, file, dropped>>
        /\ pc = "refill" /\ pc' = "while"
    BY <1>7 DEF Refill
  <2> QED
    BY <1>0, <2>1 DEF StopInv
<1> QED
  BY <1>1, <1>2, <1>3, <1>4, <1>5, <1>6, <1>7 DEF Next, BackThread

\* The constructor makes empty buffers and an empty file.
LEMMA LinesInit == Init => LinesInv /\ StopInv
<1> SUFFICES ASSUME Init PROVE LinesInv /\ StopInv
  OBVIOUS
<1> USE DEF Init
<1>1. AllLines = <<>>
  BY FlattenNothing, ConcatEmptySeq DEF AllLines
<1>2. LinesInOrder
  BY <1>1 DEF LinesInOrder, ToSet
<1> QED
  BY <1>2 DEF LinesInv, StopInv

\* Where the lines are at each step of the threads (AsyncLogging.cpp:31-114).
THEOREM LinesInvariant == Spec => [](LinesInv /\ StopInv)
<1>1. BuffersIInv /\ LinesInv /\ StopInv /\ [Next]_vars => (LinesInv /\ StopInv)'
  BY LinesNext, StopNext
<1> QED
  BY LinesInit, BuffersInvariant, <1>1, PTL DEF Spec

\* No line is lost, doubled or overtaken, whatever the buffers hold and whenever
\* they are swapped: what is missing was dropped by an overload
\* (AsyncLogging.cpp:32-46, 74-97).
THEOREM LinesStayInOrder == Spec => []LinesInOrder
<1>1. LinesInv => LinesInOrder
  BY DEF LinesInv
<1> QED
  BY LinesInvariant, <1>1, PTL

\* A Stop() that finds the background thread in its wait loses nothing, whatever
\* ends the wait (AsyncLogging.cpp:54-58, 75-97).
THEOREM StopLosesNothing == Spec => []StopInWaitWritesEverything
<1>1. StopInv => StopInWaitWritesEverything
  BY DEF StopInv, StopInWaitWritesEverything
<1> QED
  BY LinesInvariant, <1>1, PTL

-----------------------------------------------------------------------------
(* -------------------------------- LogFile -------------------------------- *)

LogFiles == [opened : Nat, lines : Seq(Nat)]

Present == files[Len(files)]

\* Lines of a file appended after the day it was opened in.
Late(f) == {k \in 1..Len(f.lines) : Day(f.lines[k]) # Day(f.opened)}

\* Lines in a buffer appended when a flush at `flushed' was long enough ago.
Overdue(b, flushed) == {k \in 1..Len(b) : b[k] >= flushed + flush_interval_}

LogTypeOK ==
    /\ now \in Nat
    /\ files \in Seq(LogFiles) /\ Len(files) > 0
    /\ written_bytes_ \in Int
    /\ buffered \in Seq(Nat)
    /\ count_ \in Nat /\ count_ < check_every_n_
    /\ start_of_day_ = Day(last_roll_)
    /\ last_roll_ \in Nat
    /\ last_flush_ \in Nat

\* The present file is the one of the last roll, and time only goes on.
TimesInv ==
    /\ Present.opened = last_roll_
    /\ last_roll_ <= last_flush_ /\ last_flush_ <= now
    /\ \A k \in 1..Len(Present.lines) : last_roll_ <= Present.lines[k] /\ Present.lines[k] <= now
    /\ \A k \in 1..Len(buffered) : buffered[k] <= now

\* Each file was opened after the ones before it.
OpenedInv ==
    \A i, j \in 1..Len(files) : i < j => files[i].opened < files[j].opened

\* count_ pays for every line that is late, or overdue for a flush.
CountInv ==
    /\ \A i \in 1..Len(files) : Cardinality(Late(files[i])) <= check_every_n_
    /\ Cardinality(Late(Present)) <= count_
    /\ Cardinality(Overdue(buffered, last_flush_)) <= count_

LogIInv == LogTypeOK /\ TimesInv /\ OpenedInv /\ CountInv

-----------------------------------------------------------------------------
(* Days, files and counts.                                                 *)

\* What lies between two seconds of a day is of that day.
LEMMA DayMonotone ==
    ASSUME NEW s \in Nat, NEW t \in Nat, NEW u \in Nat, s <= t, t <= u, Day(s) = Day(u)
    PROVE  Day(t) = Day(s)
<1> DEFINE K == kRollPerSeconds
<1>1. K \in Nat /\ K > 0
  BY LogFileAssumption
<1> HIDE DEF K
<1>2. ASSUME NEW x \in Nat, NEW y \in Nat, x <= y PROVE (x \div K) * K <= (y \div K) * K
  <2>1. x \div K \in Nat /\ y \div K \in Nat /\ x \div K <= y \div K
    BY <1>1, <1>2
  <2> QED
    BY <1>1, <2>1
<1>3. \A x \in Nat : (x \div K) * K \in Nat
  BY <1>1
<1>4. (s \div K) * K <= (t \div K) * K /\ (t \div K) * K <= (u \div K) * K
  BY <1>2
<1>5. (s \div K) * K = (u \div K) * K
  BY DEF Day, K
<1>6. (t \div K) * K = (s \div K) * K
  BY <1>3, <1>4, <1>5
<1> QED
  BY <1>6 DEF Day, K

\* Append() adds one line to the present file and touches no other.
LEMMA LineAdded ==
    ASSUME files \in Seq(LogFiles), Len(files) > 0, now \in Nat
    PROVE  /\ WithLine \in Seq(LogFiles) /\ Len(WithLine) = Len(files)
           /\ \A i \in 1..Len(files) : i # Len(files) => WithLine[i] = files[i]
           /\ WithLine[Len(files)]
                = [opened |-> Present.opened, lines |-> Append(Present.lines, now)]
<1> DEFINE n == Len(files)
<1>1. n \in 1..Len(files) /\ files[n] \in LogFiles /\ DOMAIN files = 1..n
  OBVIOUS
<1>2. [opened |-> files[n].opened, lines |-> Append(files[n].lines, now)] \in LogFiles
  BY <1>1 DEF LogFiles
<1>3. WithLine = [files EXCEPT ![n] =
                    [opened |-> files[n].opened, lines |-> Append(files[n].lines, now)]]
  BY <1>1 DEF WithLine
<1> QED
  BY <1>1, <1>2, <1>3 DEF Present

\* Late lines can be counted ...
LEMMA LateCounted ==
    ASSUME NEW f \in LogFiles
    PROVE  IsFiniteSet(Late(f)) /\ Cardinality(Late(f)) \in Nat
<1>1. Late(f) \in SUBSET (1..Len(f.lines)) /\ Len(f.lines) \in Nat
  BY DEF Late, LogFiles
<1>2. IsFiniteSet(1..Len(f.lines))
  BY <1>1, FS_Interval
<1>3. IsFiniteSet(Late(f))
  BY <1>1, <1>2, FS_Subset
<1> QED
  BY <1>3, FS_CardinalityType

\* One more line is at most one more late line, and none on the file's day.
LEMMA LateAdd ==
    ASSUME NEW f \in LogFiles, NEW x \in Nat
    PROVE  LET g == [opened |-> f.opened, lines |-> Append(f.lines, x)]
           IN  /\ Cardinality(Late(g)) <= Cardinality(Late(f)) + 1
               /\ Day(x) = Day(f.opened) => Cardinality(Late(g)) = Cardinality(Late(f))
<1> DEFINE g == [opened |-> f.opened, lines |-> Append(f.lines, x)]
           n == Len(f.lines) + 1
<1>1. /\ g \in LogFiles /\ Len(g.lines) = n /\ g.opened = f.opened /\ n \in Nat
      /\ g.lines[n] = x /\ \A k \in 1..Len(f.lines) : g.lines[k] = f.lines[k]
  BY DEF LogFiles
<1> HIDE DEF g
<1>2. ASSUME Day(x) = Day(f.opened) PROVE Cardinality(Late(g)) = Cardinality(Late(f))
  <2>1. Late(g) = Late(f)
    BY <1>1, <1>2 DEF Late, LogFiles
  <2> QED
    BY <2>1
<1>3. ASSUME Day(x) # Day(f.opened) PROVE Cardinality(Late(g)) = Cardinality(Late(f)) + 1
  <2>1. Late(g) = Late(f) \cup {n} /\ n \notin Late(f)
    <3>1. Len(f.lines) \in Nat
      BY DEF LogFiles
    <3>2. 1..n = (1..Len(f.lines)) \cup {n} /\ n \notin 1..Len(f.lines)
      BY <3>1
    <3> HIDE DEF n
    <3>3. Late(g) = {k \in 1..n : Day(g.lines[k]) # Day(f.opened)}
      BY <1>1 DEF Late
    <3>4. \A k \in 1..Len(f.lines) : k \in Late(g) <=> k \in Late(f)
      BY <1>1, <3>2, <3>3 DEF Late
    <3>5. n \in Late(g) /\ n \notin Late(f)
      BY <1>1, <1>3, <3>2, <3>3 DEF Late
    <3> QED
      BY <3>2, <3>3, <3>4, <3>5 DEF Late
  <2>2. Cardinality(Late(f) \cup {n}) = Cardinality(Late(f)) + 1
    BY <2>1, LateCounted, FS_AddElement
  <2> QED
    BY <2>1, <2>2
<1>4. Cardinality(Late(f)) \in Nat
  BY LateCounted
<1> QED
  BY <1>2, <1>3, <1>4 DEF g

\* ... and so can overdue ones,
LEMMA OverdueCounted ==
    ASSUME NEW b \in Seq(Nat), NEW t \in Nat
    PROVE  IsFiniteSet(Overdue(b, t)) /\ Cardinality(Overdue(b, t)) \in Nat
<1>1. Overdue(b, t) \in SUBSET (1..Len(b)) /\ Len(b) \in Nat
  BY DEF Overdue
<1>2. IsFiniteSet(1..Len(b))
  BY <1>1, FS_Interval
<1>3. IsFiniteSet(Overdue(b, t))
  BY <1>1, <1>2, FS_Subset
<1> QED
  BY <1>3, FS_CardinalityType

\* One more line is at most one more overdue line, and none soon after a flush.
LEMMA OverdueAdd ==
    ASSUME NEW b \in Seq(Nat), NEW t \in Nat, NEW x \in Nat
    PROVE  /\ Cardinality(Overdue(Append(b, x), t)) <= Cardinality(Overdue(b, t)) + 1
           /\ x < t + flush_interval_
                 => Cardinality(Overdue(Append(b, x), t)) = Cardinality(Overdue(b, t))
<1> DEFINE c == Append(b, x)
           n == Len(b) + 1
<1>0. flush_interval_ \in Nat
  BY LogFileAssumption
<1>1. /\ Len(c) = n /\ n \in Nat /\ c[n] = x /\ \A k \in 1..Len(b) : c[k] = b[k]
  OBVIOUS
<1> HIDE DEF c
<1>2. CASE x < t + flush_interval_
  <2>1. Overdue(c, t) = Overdue(b, t)
    BY <1>0, <1>1, <1>2 DEF Overdue
  <2> QED
    BY <2>1, OverdueCounted DEF c
<1>3. CASE ~(x < t + flush_interval_)
  <2>1. Overdue(c, t) = Overdue(b, t) \cup {n} /\ n \notin Overdue(b, t)
    BY <1>0, <1>1, <1>3 DEF Overdue
  <2>2. Cardinality(Overdue(b, t) \cup {n}) = Cardinality(Overdue(b, t)) + 1
    BY <2>1, OverdueCounted, FS_AddElement
  <2> QED
    BY <1>3, <2>1, <2>2, OverdueCounted DEF c
<1> QED
  BY <1>2, <1>3

\* of which an empty buffer has none.
LEMMA NothingOverdue ==
    ASSUME NEW t
    PROVE  Cardinality(Overdue(<<>>, t)) = 0
<1>1. Overdue(<<>>, t) = {}
  BY DEF Overdue
<1> QED
  BY <1>1, FS_EmptySet

\* What LogFileAssumption says of the parameters used below.
LEMMA Constants ==
    /\ flush_interval_ \in Nat /\ flush_interval_ > 0
    /\ check_every_n_ \in Nat /\ check_every_n_ > 0
BY LogFileAssumption

\* The present file's lines, when the clock is still on the day it was opened
\* in, are all of that day.
LEMMA NoneLateToday ==
    ASSUME LogIInv, Day(now) = start_of_day_
    PROVE  Cardinality(Late(Present)) = 0
<1> USE DEF LogIInv, LogTypeOK, TimesInv
<1>1. Present \in LogFiles
  BY DEF Present
<1>2. Present.lines \in Seq(Nat)
  BY <1>1 DEF LogFiles
<1>3. ASSUME NEW k \in 1..Len(Present.lines) PROVE Day(Present.lines[k]) = Day(last_roll_)
  <2>1. /\ Present.lines[k] \in Nat /\ last_roll_ <= Present.lines[k] /\ Present.lines[k] <= now
    BY <1>2
  <2> QED
    BY <2>1, DayMonotone
<1>4. Late(Present) = {}
  BY <1>3 DEF Late
<1> QED
  BY <1>4, FS_EmptySet

-----------------------------------------------------------------------------
(* What an appended line does to the files.                                *)

\* A line in the present file: at most one more late one.
LEMMA KeptFile ==
    ASSUME LogIInv, files' = WithLine, UNCHANGED <<now, last_roll_>>
    PROVE  /\ files' \in Seq(LogFiles) /\ Len(files') > 0
           /\ Present'.opened = last_roll_
           /\ \A k \in 1..Len(Present'.lines) : last_roll_ <= Present'.lines[k] /\ Present'.lines[k] <= now
           /\ OpenedInv'
           /\ \A i \in 1..Len(files') :
                 i # Len(files') => Cardinality(Late(files'[i])) <= check_every_n_
           /\ Cardinality(Late(Present')) \in Nat /\ Cardinality(Late(Present)) \in Nat
           /\ Cardinality(Late(Present')) <= Cardinality(Late(Present)) + 1
           /\ Day(now) = start_of_day_ => Cardinality(Late(Present')) = Cardinality(Late(Present))
<1> USE DEF LogIInv, LogTypeOK, TimesInv
<1> DEFINE n == Len(files)
           old == Present
           new == [opened |-> old.opened, lines |-> Append(old.lines, now)]
<1>1. /\ n \in Nat /\ n > 0 /\ old = files[n] /\ old \in LogFiles
      /\ old.opened \in Nat /\ old.lines \in Seq(Nat) /\ new \in LogFiles
  <2>1. n \in Nat /\ n > 0 /\ old = files[n] /\ old \in LogFiles
    BY DEF Present
  <2> HIDE DEF old, n
  <2>2. old.opened \in Nat /\ old.lines \in Seq(Nat) /\ new \in LogFiles
    BY <2>1 DEF LogFiles
  <2> QED
    BY <2>1, <2>2
<1>2. /\ files' \in Seq(LogFiles) /\ Len(files') = n /\ files'[n] = new /\ Present' = new
      /\ \A i \in 1..n : i # n => files'[i] = files[i]
  BY LineAdded DEF Present
<1>3. /\ new.opened = old.opened /\ Len(new.lines) = Len(old.lines) + 1
      /\ new.lines[Len(old.lines) + 1] = now
      /\ \A k \in 1..Len(old.lines) : new.lines[k] = old.lines[k]
  BY <1>1
<1>4. /\ old.opened = last_roll_
      /\ \A k \in 1..Len(old.lines) : last_roll_ <= old.lines[k] /\ old.lines[k] <= now
  OBVIOUS
<1>5. /\ Cardinality(Late(new)) \in Nat /\ Cardinality(Late(old)) \in Nat
      /\ Cardinality(Late(new)) <= Cardinality(Late(old)) + 1
      /\ Day(now) = Day(old.opened) => Cardinality(Late(new)) = Cardinality(Late(old))
  BY <1>1, LateAdd, LateCounted
<1> HIDE DEF new, old, n
<1>6. OpenedInv'
  <2>1. \A i \in 1..n : files'[i].opened = files[i].opened
    BY <1>1, <1>2, <1>3
  <2>2. \A i, j \in 1..n : i < j => files[i].opened < files[j].opened
    BY DEF LogIInv, OpenedInv, n
  <2> QED
    BY <1>2, <2>1, <2>2 DEF OpenedInv
<1>7. \A k \in 1..Len(new.lines) : last_roll_ <= new.lines[k] /\ new.lines[k] <= now
  <2>1. last_roll_ <= now /\ Len(old.lines) \in Nat
    BY <1>1
  <2>2. ASSUME NEW k \in 1..Len(new.lines)
        PROVE  last_roll_ <= new.lines[k] /\ new.lines[k] <= now
    <3>1. k \in 1..Len(old.lines) \/ k = Len(old.lines) + 1
      BY <1>3, <2>1
    <3>2. CASE k = Len(old.lines) + 1
      BY <1>3, <2>1, <3>2
    <3>3. CASE k \in 1..Len(old.lines)
      BY <1>3, <1>4, <3>3
    <3> QED
      BY <3>1, <3>2, <3>3
  <2> QED
    BY <2>2
<1>8. \A i \in 1..Len(files') :
         i # Len(files') => Cardinality(Late(files'[i])) <= check_every_n_
  BY <1>2 DEF CountInv, n
<1>9. Day(now) = start_of_day_ => Cardinality(Late(new)) = Cardinality(Late(old))
  BY <1>4, <1>5
<1> QED
  BY <1>1, <1>2, <1>3, <1>4, <1>5, <1>6, <1>7, <1>8, <1>9 DEF old

\* RollFile() in a later second.
LEMMA RolledFile ==
    ASSUME LogIInv, RollFile, now > last_roll_, UNCHANGED now,
           count_' \in Nat, count_' < check_every_n_
    PROVE  LogIInv'
<1> USE DEF LogIInv, LogTypeOK, TimesInv
<1> DEFINE n == Len(files)
           new == [opened |-> now, lines |-> <<>>]
<1>1. /\ last_roll_' = now /\ last_flush_' = now /\ start_of_day_' = Day(now)
      /\ files' = Append(WithLine, new) /\ written_bytes_' \in Garbage /\ buffered' = <<>>
  BY DEF RollFile
<1>2. /\ n \in Nat /\ n > 0 /\ WithLine \in Seq(LogFiles) /\ Len(WithLine) = n
      /\ \A i \in 1..n : i # n => WithLine[i] = files[i]
      /\ WithLine[n] = [opened |-> Present.opened, lines |-> Append(Present.lines, now)]
      /\ files[n] = Present /\ Present \in LogFiles
  <2>1. n \in Nat /\ n > 0 /\ files[n] = Present /\ Present \in LogFiles
    BY DEF Present
  <2> QED
    BY <2>1, LineAdded
<1>3. new \in LogFiles /\ new.opened = now /\ Len(new.lines) = 0
  BY DEF LogFiles
<1> HIDE DEF new, n
<1>4. /\ files' \in Seq(LogFiles) /\ Len(files') = n + 1 /\ files'[n + 1] = new
      /\ Present' = new /\ \A i \in 1..n : files'[i] = WithLine[i]
  BY <1>1, <1>2, <1>3 DEF Present
<1>5. \A i \in 1..n : files'[i].opened = files[i].opened
  <2>1. WithLine[n].opened = files[n].opened
    BY <1>2
  <2> QED
    BY <1>2, <1>4, <2>1
<1>6. LogTypeOK'
  BY <1>1, <1>2, <1>4, LogFileAssumption
<1>7. TimesInv'
  BY <1>1, <1>3, <1>4
<1>8. OpenedInv'
  <2>1. \A i, j \in 1..n : i < j => files[i].opened < files[j].opened
    BY DEF OpenedInv, n
  <2>2. \A i \in 1..n : files[i].opened \in Nat /\ files[i].opened <= last_roll_
    <3> SUFFICES ASSUME NEW i \in 1..n PROVE files[i].opened \in Nat /\ files[i].opened <= last_roll_
      OBVIOUS
    <3>1. files[i] \in LogFiles
      BY DEF n
    <3>2. files[i].opened \in Nat
      BY <3>1 DEF LogFiles
    <3>3. i = n \/ i < n
      BY <1>2
    <3>4. files[n].opened = last_roll_
      BY <1>2
    <3> QED
      BY <1>2, <2>1, <3>2, <3>3, <3>4
  <2>3. ASSUME NEW i \in 1..Len(files'), NEW j \in 1..Len(files'), i < j
        PROVE  files'[i].opened < files'[j].opened
    <3>1. i \in 1..n /\ (j \in 1..n \/ j = n + 1)
      BY <1>2, <1>4, <2>3
    <3>2. CASE j \in 1..n
      BY <1>5, <2>1, <2>3, <3>1, <3>2
    <3>3. CASE j = n + 1
      BY <1>3, <1>4, <1>5, <2>2, <3>1, <3>3
    <3> QED
      BY <3>1, <3>2, <3>3
  <2> QED
    BY <2>3 DEF OpenedInv
<1>9. CountInv'
  <2>1. \A i \in 1..n : i # n => Cardinality(Late(files'[i])) <= check_every_n_
    BY <1>2, <1>4 DEF CountInv, n
  <2>2. Cardinality(Late(files'[n])) <= check_every_n_
    <3>1. /\ Cardinality(Late(Present)) \in Nat
          /\ Cardinality(Late(WithLine[n])) <= Cardinality(Late(Present)) + 1
      BY <1>2, LateAdd, LateCounted
    <3>2. WithLine[n] \in LogFiles
      BY <1>2
    <3>3. Cardinality(Late(WithLine[n])) \in Nat
      BY <3>2, LateCounted
    <3>4. files'[n] = WithLine[n] /\ Cardinality(Late(Present)) <= count_
      BY <1>2, <1>4 DEF CountInv
    <3> QED
      BY <3>1, <3>3, <3>4, Constants
  <2>3. Cardinality(Late(new)) = 0
    <3>1. Late(new) = {}
      BY <1>3 DEF Late
    <3> QED
      BY <3>1, FS_EmptySet
  <2>4. Cardinality(Overdue(buffered', last_flush_')) = 0
    BY <1>1, NothingOverdue
  <2>5. \A i \in 1..Len(files') : Cardinality(Late(files'[i])) <= check_every_n_
    <3> SUFFICES ASSUME NEW i \in 1..(n + 1)
                 PROVE  Cardinality(Late(files'[i])) <= check_every_n_
      BY <1>4
    <3>1. i = n + 1 \/ i \in 1..n
      BY <1>2
    <3> QED
      BY <1>4, <2>1, <2>2, <2>3, <3>1, Constants
  <2> QED
    BY <1>4, <2>3, <2>4, <2>5 DEF CountInv, Present
<1> QED
  BY <1>6, <1>7, <1>8, <1>9

-----------------------------------------------------------------------------
(* The steps.                                                              *)

\* A line that stays in the present file, whatever count_ becomes, as long as
\* that pays for the lines that are late or overdue.
LEMMA KeptLine ==
    ASSUME LogIInv, files' = WithLine, written_bytes_' = written_bytes_ + 1,
           UNCHANGED <<now, last_roll_, start_of_day_>>,
           count_' \in Nat, count_' < check_every_n_,
           last_flush_' \in Nat, last_roll_ <= last_flush_', last_flush_' <= now,
           buffered' \in Seq(Nat), \A k \in 1..Len(buffered') : buffered'[k] <= now,
           Cardinality(Late(Present')) <= count_',
           Cardinality(Overdue(buffered', last_flush_')) <= count_'
    PROVE  LogIInv'
<1> USE DEF LogIInv, LogTypeOK, TimesInv
<1>1. LogTypeOK'
  BY KeptFile
<1>2. TimesInv'
  BY KeptFile
<1>3. OpenedInv'
  BY KeptFile
<1>4. CountInv'
  <2>1. Cardinality(Late(Present')) \in Nat
    BY KeptFile
  <2>2. Cardinality(Late(files'[Len(files')])) <= check_every_n_
    BY <2>1, Constants DEF Present
  <2>3. \A i \in 1..Len(files') : Cardinality(Late(files'[i])) <= check_every_n_
    BY <2>2, KeptFile
  <2> QED
    BY <2>3 DEF CountInv
<1> QED
  BY <1>1, <1>2, <1>3, <1>4

\* Append(), with whatever roll or flush it does.
LEMMA AppendKeeps ==
    ASSUME LogIInv, AppendToFile
    PROVE  LogIInv'
<1> USE DEF LogIInv, LogTypeOK, TimesInv
<1>1. now' = now /\ now \in Nat /\ last_roll_ <= now
  BY DEF AppendToFile
<1>2. /\ Append(buffered, now) \in Seq(Nat)
      /\ \A k \in 1..Len(Append(buffered, now)) : Append(buffered, now)[k] <= now
  BY <1>1
<1>3. CASE TooLarge /\ RollFile /\ UNCHANGED count_
  <2>1. CASE now > last_roll_
    BY <1>1, <1>3, <2>1, RolledFile
  <2>2. CASE ~(now > last_roll_)
    <3>1. now = last_roll_ /\ last_flush_ = now
      BY <1>1, <2>2
    <3>2. /\ files' = WithLine /\ written_bytes_' = written_bytes_ + 1
          /\ buffered' = Append(buffered, now)
          /\ UNCHANGED <<last_roll_, last_flush_, start_of_day_, count_>>
      BY <1>3, <2>2 DEF RollFile
    <3>3. Cardinality(Late(Present')) <= count_
      BY <1>1, <3>1, <3>2, KeptFile DEF CountInv
    <3>4. Cardinality(Overdue(buffered', last_flush_')) <= count_
      <4>1. buffered \in Seq(Nat) /\ last_flush_ \in Nat /\ now \in Nat
        BY <1>1
      <4>2. now < last_flush_ + flush_interval_ /\ Cardinality(Overdue(buffered, last_flush_)) <= count_
        BY <3>1, <4>1, Constants DEF CountInv
      <4> HIDE DEF LogIInv, LogTypeOK, TimesInv
      <4>3. Cardinality(Overdue(Append(buffered, now), last_flush_))
            = Cardinality(Overdue(buffered, last_flush_))
        BY <4>1, <4>2, OverdueAdd
      <4> QED
        BY <3>2, <4>2, <4>3
    <3>5. /\ UNCHANGED now /\ count_' \in Nat /\ count_' < check_every_n_ /\ last_flush_' \in Nat
          /\ last_roll_ <= last_flush_' /\ last_flush_' <= now
          /\ buffered' \in Seq(Nat) /\ \A k \in 1..Len(buffered') : buffered'[k] <= now
          /\ Cardinality(Late(Present')) <= count_'
          /\ Cardinality(Overdue(buffered', last_flush_')) <= count_'
      BY <1>1, <1>2, <3>1, <3>2, <3>3, <3>4
    <3> HIDE DEF LogIInv, LogTypeOK, TimesInv
    <3> QED
      BY <3>2, <3>5, KeptLine
  <2> QED
    BY <2>1, <2>2
<1>4. CASE /\ ~TooLarge /\ ~CheckDue
           /\ count_' = count_ + 1
           /\ KeepFile
           /\ buffered' = Append(buffered, now)
           /\ UNCHANGED last_flush_
  <2>1. /\ files' = WithLine /\ written_bytes_' = written_bytes_ + 1
        /\ UNCHANGED <<last_roll_, start_of_day_>>
    BY <1>4 DEF KeepFile
  <2>2. count_' \in Nat /\ count_' < check_every_n_
    BY <1>4, Constants DEF CheckDue
  <2>3. Cardinality(Late(Present')) <= count_'
    BY <1>1, <1>4, <2>1, KeptFile DEF CountInv
  <2>4. Cardinality(Overdue(buffered', last_flush_')) <= count_'
    <3>1. Cardinality(Overdue(buffered', last_flush_)) <= Cardinality(Overdue(buffered, last_flush_)) + 1
      BY <1>1, <1>4, OverdueAdd
    <3>2. Cardinality(Overdue(buffered', last_flush_)) \in Nat /\ Cardinality(Overdue(buffered, last_flush_)) \in Nat
      BY <1>2, <1>4, OverdueCounted
    <3> QED
      BY <1>4, <3>1, <3>2 DEF CountInv
  <2> QED
    BY <1>1, <1>2, <1>4, <2>1, <2>2, <2>3, <2>4, KeptLine
<1>5. CASE ~TooLarge /\ CheckDue /\ count_' = 0 /\ Day(now) # start_of_day_ /\ RollFile
  <2>1. now > last_roll_
    BY <1>1, <1>5
  <2> QED
    BY <1>1, <1>5, <2>1, RolledFile, Constants
<1>6. ASSUME count_' = 0, Day(now) = start_of_day_, KeepFile
      PROVE  /\ files' = WithLine /\ written_bytes_' = written_bytes_ + 1
             /\ UNCHANGED <<last_roll_, start_of_day_>>
             /\ count_' \in Nat /\ count_' < check_every_n_
             /\ Cardinality(Late(Present')) <= count_'
  <2>1. /\ files' = WithLine /\ written_bytes_' = written_bytes_ + 1
        /\ UNCHANGED <<last_roll_, start_of_day_>>
    BY <1>6 DEF KeepFile
  <2>2. Cardinality(Late(Present')) = Cardinality(Late(Present))
    BY <1>1, <1>6, <2>1, KeptFile
  <2> QED
    BY <1>6, <2>1, <2>2, NoneLateToday, Constants
<1>7. CASE /\ CheckDue /\ count_' = 0 /\ Day(now) = start_of_day_
           /\ KeepFile /\ last_flush_' = now /\ buffered' = <<>>
  <2>1. Cardinality(Overdue(buffered', last_flush_')) <= count_'
    BY <1>7, NothingOverdue
  <2>2. /\ files' = WithLine /\ written_bytes_' = written_bytes_ + 1
        /\ UNCHANGED <<now, last_roll_, start_of_day_>>
        /\ count_' \in Nat /\ count_' < check_every_n_
        /\ Cardinality(Late(Present')) <= count_'
    BY <1>1, <1>6, <1>7
  <2>3. /\ last_flush_' \in Nat /\ last_roll_ <= last_flush_' /\ last_flush_' <= now
        /\ buffered' \in Seq(Nat) /\ Len(buffered') = 0
    BY <1>1, <1>7
  <2>4. \A k \in 1..Len(buffered') : buffered'[k] <= now
    BY <2>3
  <2>5. LogIInv /\ last_flush_' \in Nat /\ buffered' \in Seq(Nat)
    BY <2>3
  <2> HIDE DEF LogIInv, LogTypeOK, TimesInv
  <2> QED
    BY <2>1, <2>2, <2>3, <2>4, <2>5, KeptLine
<1>8. CASE /\ CheckDue /\ count_' = 0 /\ Day(now) = start_of_day_
           /\ now - last_flush_ < flush_interval_ /\ KeepFile
           /\ buffered' = Append(buffered, now) /\ UNCHANGED last_flush_
  <2>1. \A k \in 1..Len(buffered') : buffered'[k] \in Nat /\ buffered'[k] < last_flush_ + flush_interval_
    <3> DEFINE later == buffered'
    <3>1. later \in Seq(Nat) /\ \A k \in 1..Len(later) : later[k] <= now
      BY <1>2, <1>8
    <3>2. now \in Nat /\ last_flush_ \in Nat /\ now < last_flush_ + flush_interval_
      BY <1>1, <1>8, Constants
    <3>3. flush_interval_ \in Nat
      BY Constants
    <3> HIDE DEF later, LogIInv, LogTypeOK, TimesInv
    <3>4. \A k \in 1..Len(later) : later[k] \in Nat
      BY <3>1
    <3> QED
      BY <3>1, <3>2, <3>3, <3>4 DEF later
  <2>2. Overdue(buffered', last_flush_') = {}
    BY <1>8, <2>1, Constants DEF Overdue
  <2>3. Cardinality(Overdue(buffered', last_flush_')) <= count_'
    BY <1>8, <2>2, FS_EmptySet
  <2> QED
    BY <1>1, <1>2, <1>6, <1>8, <2>3, KeptLine
<1> QED
  BY <1>3, <1>4, <1>5, <1>7, <1>8 DEF AppendToFile

\* The first file, opened by the constructor.
LEMMA LogInit == FileInit => LogIInv
<1> SUFFICES ASSUME FileInit PROVE LogIInv
  OBVIOUS
<1>1. kRollPerSeconds \in Nat /\ kRollPerSeconds > 0
  BY LogFileAssumption
<1>2. now \in Nat
  BY <1>1 DEF FileInit
<1> DEFINE first == [opened |-> now, lines |-> <<>>]
<1>3. first \in LogFiles /\ first.opened = now /\ Len(first.lines) = 0
  BY <1>2 DEF LogFiles
<1> HIDE DEF first
<1>4. files = <<first>> /\ Present = first /\ Len(files) = 1 /\ files[1] = first
  BY DEF FileInit, Present, first
<1>5. LogTypeOK
  BY <1>2, <1>3, <1>4, LogFileAssumption, Constants DEF FileInit, LogTypeOK
<1>6. TimesInv /\ OpenedInv
  BY <1>2, <1>3, <1>4 DEF FileInit, TimesInv, OpenedInv
<1>7. CountInv
  <2>1. Late(first) = {}
    BY <1>3 DEF Late
  <2>2. Cardinality(Late(first)) = 0
    BY <2>1, FS_EmptySet
  <2>3. Cardinality(Overdue(buffered, last_flush_)) = 0
    BY NothingOverdue DEF FileInit
  <2> QED
    BY <1>4, <2>2, <2>3, Constants DEF FileInit, CountInv
<1> QED
  BY <1>5, <1>6, <1>7 DEF LogIInv

\* Every step keeps the invariant.
LEMMA LogNext ==
    ASSUME LogIInv, [FileNext]_fileVars
    PROVE  LogIInv'
<1> USE DEF LogIInv, LogTypeOK, TimesInv
<1>1. CASE AppendToFile
  BY <1>1, AppendKeeps
<1>2. CASE Flush
  <2>1. /\ buffered' = <<>>
        /\ UNCHANGED <<now, files, written_bytes_, count_, start_of_day_, last_roll_, last_flush_>>
    BY <1>2 DEF Flush
  <2>2. Cardinality(Overdue(buffered', last_flush_')) = 0
    BY <2>1, NothingOverdue
  <2>3. CountInv'
    BY <2>1, <2>2 DEF CountInv, Present
  <2> QED
    BY <2>1, <2>3 DEF OpenedInv, Present
<1>3. CASE Tick
  <2>1. /\ now' = now + 1
        /\ UNCHANGED <<files, written_bytes_, buffered, count_, start_of_day_, last_roll_, last_flush_>>
    BY <1>3 DEF Tick
  <2>2. TimesInv'
    <3>1. Present.lines \in Seq(Nat)
      <4>1. Present \in LogFiles
        BY DEF Present
      <4> QED
        BY <4>1 DEF LogFiles
    <3>2. Present' = Present
      BY <2>1 DEF Present
    <3> QED
      BY <2>1, <3>1, <3>2
  <2> QED
    BY <2>1, <2>2 DEF CountInv, OpenedInv, Present
<1>4. CASE UNCHANGED fileVars
  BY <1>4 DEF fileVars, CountInv, OpenedInv, Present
<1> QED
  BY <1>1, <1>2, <1>3, <1>4 DEF FileNext

-----------------------------------------------------------------------------
(* The theorems.                                                           *)

\* The times, names and counters that Append() and RollFile() keep
\* (LogFile.cpp:38-107).
THEOREM LogInvariant == FileSpec => []LogIInv
<1>1. LogIInv /\ [FileNext]_fileVars => LogIInv'
  BY LogNext
<1> QED
  BY LogInit, <1>1, PTL DEF FileSpec

\* No two files of a log get the same name, whichever of size and day asks for
\* the roll (LogFile.cpp:17-36, 95-107).
THEOREM NamesUnique == FileSpec => []FileNamesUnique
<1>1. ASSUME LogIInv PROVE FileNamesUnique
  <2> SUFFICES ASSUME NEW i \in 1..Len(files), NEW j \in 1..Len(files),
                      files[i].opened = files[j].opened, i # j
               PROVE  FALSE
    BY DEF FileNamesUnique
  <2>1. files \in Seq(LogFiles) /\ OpenedInv
    BY <1>1 DEF LogIInv, LogTypeOK
  <2>2. files[i] \in LogFiles /\ files[j] \in LogFiles /\ i \in Nat /\ j \in Nat
    BY <2>1
  <2>3. files[i].opened \in Nat /\ files[j].opened \in Nat
    BY <2>2 DEF LogFiles
  <2> QED
    BY <2>1, <2>2, <2>3 DEF OpenedInv
<1>2. LogIInv => FileNamesUnique
  BY <1>1
<1> QED
  BY LogInvariant, <1>2, PTL

\* The checks for a new day and for a flush are not put off by the rolls the
\* size asks for (LogFile.cpp:65-84).
THEOREM ChecksInTime == FileSpec => []CheckNotPutOff
<1>1. ASSUME LogIInv PROVE CheckNotPutOff
  <2> USE <1>1 DEF LogIInv, LogTypeOK
  <2>1. ASSUME NEW i \in 1..Len(files)
        PROVE  Cardinality(Late(files[i])) <= check_every_n_ - (IF i = Len(files) THEN 1 ELSE 0)
    <3>1. files[i] \in LogFiles
      OBVIOUS
    <3>2. Cardinality(Late(files[i])) \in Nat
      BY <3>1, LateCounted
    <3>3. CASE i = Len(files)
      BY <3>2, <3>3, Constants DEF CountInv, Present
    <3>4. CASE i # Len(files)
      BY <3>2, <3>4, Constants DEF CountInv
    <3> QED
      BY <3>3, <3>4
  <2>2. Cardinality(Overdue(buffered, last_flush_)) < check_every_n_
    <3>1. Cardinality(Overdue(buffered, last_flush_)) \in Nat
      BY OverdueCounted
    <3> QED
      BY <3>1, Constants DEF CountInv
  <2> QED
    BY <2>1, <2>2 DEF CheckNotPutOff, Late, Overdue
<1>2. LogIInv => CheckNotPutOff
  BY <1>1
<1> QED
  BY LogInvariant, <1>2, PTL
=============================================================================
