--------------------------- MODULE ChunkerProofs ---------------------------
(***************************************************************************)
(* Proofs about Chunker, for every width of the window, every two sizes of *)
(* chunks, every set of windows that trigger a cut, and all streams and    *)
(* callers.                                                                *)
(***************************************************************************)
EXTENDS Chunker, SequenceTheorems, WellFoundedInduction, TLAPS

\* The sizes of window and chunks.
LEMMA Sizes ==
  /\ Width \in Nat /\ Width > 0 /\ MinChunk \in Nat /\ MaxChunk \in Nat
  /\ Width <= MinChunk /\ MinChunk < MaxChunk
BY ChunkerAssumption

\* A part of a sequence of bytes is one, of the expected length.
LEMMA PartOfBytes ==
  ASSUME NEW s \in Seq(Byte), NEW i \in Nat, i > 0, NEW j \in Nat,
         j <= Len(s), i <= j + 1
  PROVE  /\ SubSeq(s, i, j) \in Seq(Byte)
         /\ Len(SubSeq(s, i, j)) = j + 1 - i
         /\ SubSeq(s, i, j) \in [1 .. j + 1 - i -> Byte]
<1>1. Len(s) \in Nat
  BY LenProperties
<1>2. \A k \in i .. j : s[k] \in Byte
  BY <1>1, ElementOfSeq
<1>3. /\ SubSeq(s, i, j) \in Seq(Byte)
      /\ Len(SubSeq(s, i, j)) = IF i <= j THEN j - i + 1 ELSE 0
  BY <1>2, SubSeqProperties
<1>4. Len(SubSeq(s, i, j)) = j + 1 - i
  BY <1>3
<1>5. SubSeq(s, i, j) \in [1 .. Len(SubSeq(s, i, j)) -> Byte]
  BY <1>3, LenProperties
<1>6. QED
  BY <1>3, <1>4, <1>5

\* Every window that is hashed consists of Width bytes.
LEMMA WindowType ==
  ASSUME NEW b \in Seq(Byte), MinChunk <= Len(b), NEW i \in Nat, i <= Len(b)
  PROVE  WindowAt(b, i) \in [1 .. Width -> Byte]
<1> DEFINE r == ResetWindow(b)
<1>1. Len(b) \in Nat
  BY LenProperties
<1>2. /\ MinChunk - Width + 1 \in Nat /\ MinChunk - Width + 1 > 0
      /\ MinChunk - Width + 1 <= MinChunk + 1
      /\ MinChunk + 1 - (MinChunk - Width + 1) = Width
  BY Sizes
<1>3. r \in Seq(Byte) /\ Len(r) = Width
  BY <1>2, Sizes, PartOfBytes DEF ResetWindow
<1> HIDE DEF r
<1>4. r \o b \in Seq(Byte) /\ Len(r \o b) = Width + Len(b)
  BY <1>3, ConcatProperties
<1>5. /\ i + 1 \in Nat /\ i + 1 > 0 /\ i + Width \in Nat /\ i + Width <= Len(r \o b)
      /\ i + 1 <= (i + Width) + 1 /\ (i + Width) + 1 - (i + 1) = Width
  BY <1>1, <1>4, Sizes
<1>6. SubSeq(r \o b, i + 1, i + Width) \in [1 .. (i + Width) + 1 - (i + 1) -> Byte]
  BY <1>4, <1>5, PartOfBytes
<1>7. QED
  BY <1>5, <1>6 DEF WindowAt, r

\* What is not cut is shorter than the longest chunk.
LEMMA NotFoundIsShort ==
  ASSUME NEW b \in Seq(Byte), NotFound(b)
  PROVE  Len(b) < MaxChunk
<1>1. Len(b) \in Nat
  BY LenProperties
<1>2. QED
  BY <1>1, Sizes DEF NotFound, HashLength

\* A set of naturals that is not empty has a first element.
LEMMA FirstIsIn ==
  ASSUME NEW S \in SUBSET Nat, S # {}
  PROVE  First(S) \in S /\ \A j \in S : First(S) <= j
<1> DEFINE R == OpToRel(<, Nat)
<1>1. \A x, y \in Nat : <<y, x>> \in R <=> y < x
  BY DEF OpToRel
<1>2. IsWellFoundedOn(R, Nat)
  BY NatLessThanWellFounded
<1> HIDE DEF R
<1>3. PICK x \in S : \A y \in S : ~ (<<y, x>> \in R)
  BY <1>2, WFMin
<1>4. ASSUME NEW y \in S PROVE x <= y
  <2>1. x \in Nat /\ y \in Nat
    OBVIOUS
  <2>2. ~ (<<y, x>> \in R)
    BY <1>3
  <2>3. ~ (y < x)
    BY <1>1, <2>1, <2>2
  <2>4. QED
    BY <2>1, <2>3
<1>5. QED
  BY <1>4 DEF First

\* A chunk that is cut lies in the buffer: the hash never runs past its end.
LEMMA FoundIsInside ==
  ASSUME NEW b \in Seq(Byte), NEW n \in MinChunk + 1 .. MaxChunk, Found(b, n)
  PROVE  n <= Len(b) /\ MinChunk <= Len(b)
<1>1. Len(b) \in Nat
  BY LenProperties
<1>2. CASE Hits(b) # {} /\ n = MinChunk + First(Hits(b))
  <2>1. HashLength(b) \in Int /\ HashLength(b) <= Len(b) - MinChunk
    BY <1>1, Sizes DEF HashLength
  <2>2. Hits(b) \in SUBSET Nat
    BY <2>1 DEF Hits
  <2>3. First(Hits(b)) \in Hits(b)
    BY <1>2, <2>2, FirstIsIn
  <2>4. First(Hits(b)) \in 1 .. HashLength(b)
    BY <2>3 DEF Hits
  <2>5. QED
    BY <1>1, <1>2, <2>1, <2>4, Sizes DEF Found
<1>3. CASE Hits(b) = {} /\ HashLength(b) = MaxChunk - MinChunk /\ n = MaxChunk
  BY <1>1, <1>3, Sizes DEF Found, HashLength
<1>4. QED
  BY <1>2, <1>3 DEF Found

-----------------------------------------------------------------------------
(* The inductive invariant                                                 *)

\* A caller that flushes and whose buffer has room for the longest chunk: nothing
\* is retained when a buffer is processed, so neither assertion fails.
Clean ==
  caller.flushes /\ caller.size >= MaxChunk =>
    /\ pc # "aborted"
    /\ pc \in {"read", "chunk"} => retained = <<>>

\* A streamer that is given a stream has nothing retained, and nothing is read.
Idle == pc = "idle" => retained = <<>> /\ read = 0

IInv == TypeOK /\ Clean /\ Idle

\* A new streamer satisfies the invariant.
LEMMA InitIInv == Init => IInv
<1>1. NoWindow \in [1 .. Width -> Byte]
  BY ChunkerAssumption DEF NoWindow
<1>2. Len(<<>>) = 0 /\ <<>> \in Seq(Byte) /\ <<>> \in Seq(Seq(Byte))
  BY EmptySeq
<1>3. QED
  BY <1>1, <1>2, Sizes DEF Init, IInv, TypeOK, Clean, Idle, NoCaller

\* What the type invariant says of the stream and the caller.
LEMMA Inputs ==
  ASSUME TypeOK
  PROVE  /\ stream \in Seq(Byte) /\ Len(stream) \in Nat /\ read \in Nat
         /\ caller.size \in Nat
         /\ Len(base) \in Nat /\ Len(left) \in Nat /\ Len(retained) \in Nat
<1>1. stream \in Seq(Byte)
  BY ChunkerAssumption, EmptySeq DEF TypeOK
<1>2. /\ Len(stream) \in Nat
      /\ Len(base) \in Nat /\ Len(left) \in Nat /\ Len(retained) \in Nat
  BY <1>1, LenProperties DEF TypeOK
<1>3. read \in Nat
  BY <1>2 DEF TypeOK
<1>4. caller.size \in Nat
  <2>1. CASE caller \in Callers
    <3>1. caller \in [size : Nat \ {0}, flushes : BOOLEAN]
      BY <2>1, ChunkerAssumption
    <3>2. QED
      BY <3>1
  <2>2. CASE caller = NoCaller
    BY <2>2 DEF NoCaller
  <2>3. QED
    BY <2>1, <2>2 DEF TypeOK
<1>5. QED
  BY <1>1, <1>2, <1>3, <1>4

\* Every step keeps the invariant.
LEMMA StepIInv == IInv /\ [Next]_vars => IInv'
<1> SUFFICES ASSUME IInv, [Next]_vars
             PROVE  IInv'
  OBVIOUS
<1> USE DEF IInv
<1>0. TypeOK
  OBVIOUS
<1>1. CASE CutChunk
  <2>1. PICK n \in MinChunk + 1 .. MaxChunk :
          /\ Found(left, n)
          /\ chunks' = Append(chunks, ChunkRef(left, n))
          /\ left' = SubSeq(left, n + 1, Len(left))
          /\ window' = WindowAt(left, n - MinChunk)
    BY <1>1 DEF CutChunk
  <2>2. left \in Seq(Byte) /\ n <= Len(left) /\ MinChunk <= Len(left) /\ n \in Nat
    BY <2>1, FoundIsInside, Sizes DEF TypeOK
  <2>3. left' \in Seq(Byte)
    BY <2>1, <2>2, Inputs, PartOfBytes
  <2>4. ChunkRef(left, n) \in Seq(Byte)
    BY <2>2, PartOfBytes DEF ChunkRef
  <2>5. chunks' \in Seq(Seq(Byte))
    BY <2>1, <2>4 DEF TypeOK
  <2>6. n - MinChunk \in Nat /\ n - MinChunk <= Len(left)
    BY <2>2, Inputs, Sizes
  <2>7. window' \in [1 .. Width -> Byte]
    BY <2>1, <2>2, <2>6, WindowType
  <2>8. QED
    BY <1>1, <2>3, <2>5, <2>7 DEF CutChunk, input, TypeOK, Clean, Idle
<1>2. CASE Retain
  <2>1. left \in Seq(Byte) /\ Len(left) < MaxChunk /\ <<>> \in Seq(Byte)
    BY <1>2, NotFoundIsShort DEF Retain, TypeOK
  <2>2. CASE Len(left) < MinChunk
    BY <1>2, <2>1, <2>2 DEF Retain, WindowAfter, input, TypeOK, Clean, Idle
  <2>3. CASE ~ (Len(left) < MinChunk)
    <3>1. MinChunk <= Len(left)
      BY <2>3, Inputs, Sizes
    <3>2. HashLength(left) \in Nat /\ HashLength(left) <= Len(left)
      BY <2>1, <3>1, Inputs, Sizes DEF HashLength
    <3>3. WindowAt(left, HashLength(left)) \in [1 .. Width -> Byte]
      BY <2>1, <3>1, <3>2, WindowType
    <3>4. window' = WindowAt(left, HashLength(left))
      BY <1>2, <2>3 DEF Retain, WindowAfter
    <3>5. QED
      BY <1>2, <2>1, <3>3, <3>4 DEF Retain, input, TypeOK, Clean, Idle
  <2>4. QED
    BY <2>2, <2>3
<1>3. CASE ChunkAborts
  BY <1>3 DEF ChunkAborts, input, TypeOK, Clean, Idle
<1>4. CASE Flush
  <2>1. <<>> \in Seq(Byte) /\ Len(<<>>) = 0
    BY EmptySeq
  <2>2. QED
    BY <1>4, <2>1, Sizes DEF Flush, input, TypeOK, Clean, Idle
<1>5. CASE FlushAborts
  <2>1. caller.size < MaxChunk
    BY <1>5, Inputs, Sizes DEF FlushAborts, TypeOK
  <2>2. ~ (caller.size >= MaxChunk)
    BY <2>1, Inputs, Sizes
  <2>3. QED
    BY <1>5, <2>2 DEF FlushAborts, input, TypeOK, Clean, Idle
<1>6. CASE SkipFlush
  BY <1>6, EmptySeq DEF SkipFlush, input, TypeOK, Clean, Idle
<1>7. CASE ReadPiece
  <2>1. PICK n \in 1 .. caller.size - Len(base) :
          /\ read + n <= Len(stream)
          /\ left' = base \o SubSeq(stream, read + 1, read + n)
          /\ read' = read + n
    BY <1>7 DEF ReadPiece
  <2>2. n \in Nat /\ n > 0
    BY <2>1, Inputs
  <2>3. SubSeq(stream, read + 1, read + n) \in Seq(Byte)
    BY <2>1, <2>2, Inputs, PartOfBytes
  <2>4. left' \in Seq(Byte)
    BY <2>1, <2>3, ConcatProperties DEF TypeOK
  <2>5. read' \in 0 .. Len(stream)
    BY <2>1, <2>2, Inputs
  <2>6. QED
    BY <1>7, <2>4, <2>5 DEF ReadPiece, input, TypeOK, Clean, Idle
<1>8. CASE EndOfStream
  BY <1>8 DEF EndOfStream, input, TypeOK, Clean, Idle
<1>9. CASE Leave
  <2>1. NoWindow \in [1 .. Width -> Byte]
    BY ChunkerAssumption DEF NoWindow
  <2>2. Len(<<>>) = 0 /\ <<>> \in Seq(Byte) /\ <<>> \in Seq(Seq(Byte))
    BY EmptySeq
  <2>3. QED
    BY <1>9, <2>1, <2>2, Sizes DEF Leave, TypeOK, Clean, Idle, NoCaller
<1>10. CASE StartStream
  <2>1. stream' \in Seq(Byte)
    BY <1>10, ChunkerAssumption DEF StartStream
  <2>2. Len(stream') \in Nat
    BY <2>1, LenProperties
  <2>3. read' \in 0 .. Len(stream')
    BY <1>10, <2>2 DEF StartStream, Idle
  <2>4. QED
    BY <1>10, <2>3 DEF StartStream, TypeOK, Clean, Idle
<1>11. CASE UNCHANGED vars
  BY <1>11 DEF vars, TypeOK, Clean, Idle
<1>12. QED
  BY <1>1, <1>2, <1>3, <1>4, <1>5, <1>6, <1>7, <1>8, <1>9, <1>10, <1>11
  DEF Next, Proceed

\* So it always holds.
LEMMA AlwaysIInv == Spec => []IInv
BY InitIInv, StepIInv, PTL DEF Spec

-----------------------------------------------------------------------------
(* The theorems                                                            *)

\* The type invariant: what the chunker retains is shorter than the longest
\* chunk, so it fits the array it is copied to, however a stream is cut into
\* buffers; and every chunk lies in its buffer.
THEOREM ChunkerTypeOK == Spec => []TypeOK
<1>1. IInv => TypeOK
  BY DEF IInv
<1>2. QED
  BY <1>1, AlwaysIInv, PTL

\* Neither assertion of chunker_chunk_buffer and chunk_streamer_flush_retained
\* can fail for a caller that flushes into a buffer of at least the longest
\* chunk, whatever earlier callers did.
THEOREM ChunkerNoAbort == Spec => []NoAbort
<1>1. IInv => NoAbort
  BY DEF IInv, Clean, NoAbort
<1>2. QED
  BY <1>1, AlwaysIInv, PTL


-----------------------------------------------------------------------------
(* Flattening a sequence of chunks                                         *)

\* f[i] is the first i chunks of s, one behind the other.
Flattens(f, s, n) ==
  /\ f \in [1 .. n -> Seq(Byte)]
  /\ \A i \in 1 .. n : f[i] = IF i = 1 THEN s[i] ELSE f[i - 1] \o s[i]

\* What flattens n chunks can be extended to the next.
LEMMA FlattensOneMore ==
  ASSUME NEW s \in Seq(Seq(Byte)), NEW n \in Nat, n + 1 <= Len(s),
         NEW f, n = 0 \/ Flattens(f, s, n)
  PROVE  \E g : Flattens(g, s, n + 1)
<1>1. s[n + 1] \in Seq(Byte) /\ Len(s) \in Nat
  BY LenProperties, ElementOfSeq
<1> DEFINE g == [i \in 1 .. n + 1 |->
                   IF i <= n THEN f[i] ELSE IF i = 1 THEN s[i] ELSE f[n] \o s[i]]
<1>2. CASE n = 0
  <2>1. \A i \in 1 .. n + 1 : i = 1 /\ g[i] = s[1]
    BY <1>2
  <2>2. s[1] \in Seq(Byte)
    BY <1>1, <1>2
  <2>3. g \in [1 .. n + 1 -> Seq(Byte)]
    BY <2>1, <2>2
  <2> HIDE DEF g
  <2>4. Flattens(g, s, n + 1)
    BY <1>2, <2>1, <2>3 DEF Flattens
  <2> QED
    BY <2>4
<1>3. CASE n # 0
  <2>1. /\ f \in [1 .. n -> Seq(Byte)] /\ n \in 1 .. n
        /\ \A i \in 1 .. n : f[i] = IF i = 1 THEN s[i] ELSE f[i - 1] \o s[i]
    BY <1>3 DEF Flattens
  <2>2. f[n] \in Seq(Byte)
    BY <2>1
  <2>3. f[n] \o s[n + 1] \in Seq(Byte)
    BY <1>1, <2>2, ConcatProperties
  <2>4. \A i \in 1 .. n : g[i] = f[i]
    OBVIOUS
  <2>5. g[n + 1] = f[n] \o s[n + 1]
    <3>1. n + 1 \in 1 .. n + 1 /\ ~ (n + 1 <= n) /\ n + 1 # 1
      BY <1>3
    <3> QED
      BY <3>1
  <2>6. g \in [1 .. n + 1 -> Seq(Byte)]
    <3>1. \A i \in 1 .. n + 1 : g[i] \in Seq(Byte)
      <4>1. ASSUME NEW i \in 1 .. n + 1 PROVE g[i] \in Seq(Byte)
        <5>1. i \in 1 .. n \/ i = n + 1
          OBVIOUS
        <5> QED
          BY <2>1, <2>3, <2>4, <2>5, <5>1
      <4> QED
        BY <4>1
    <3> QED
      BY <3>1
  <2> HIDE DEF g
  <2>7. \A i \in 1 .. n + 1 : g[i] = IF i = 1 THEN s[i] ELSE g[i - 1] \o s[i]
    <3>1. ASSUME NEW i \in 1 .. n + 1
          PROVE  g[i] = IF i = 1 THEN s[i] ELSE g[i - 1] \o s[i]
      <4>1. CASE i = n + 1
        <5>1. i # 1 /\ i - 1 = n /\ g[n] = f[n]
          BY <1>3, <2>1, <2>4, <4>1
        <5> QED
          BY <2>5, <4>1, <5>1
      <4>2. CASE i # n + 1
        <5>1. i \in 1 .. n /\ (i # 1 => i - 1 \in 1 .. n)
          BY <4>2
        <5> QED
          BY <2>1, <2>4, <5>1
      <4> QED
        BY <4>1, <4>2
    <3> QED
      BY <3>1
  <2>8. Flattens(g, s, n + 1)
    BY <2>6, <2>7 DEF Flattens
  <2> QED
    BY <2>8
<1> QED
  BY <1>2, <1>3

\* Every sequence of chunks can be flattened.
LEMMA FlattensExists ==
  ASSUME NEW s \in Seq(Seq(Byte)), s # <<>>
  PROVE  \E f : Flattens(f, s, Len(s))
<1> DEFINE Bad == {n \in Nat : n > 0 /\ n <= Len(s) /\ ~ \E f : Flattens(f, s, n)}
<1>1. Len(s) \in Nat /\ Len(s) > 0
  BY EmptySeq
<1>2. SUFFICES ASSUME Bad # {} PROVE FALSE
  BY <1>1
<1>3. First(Bad) \in Bad /\ \A j \in Bad : First(Bad) <= j
  BY <1>2, FirstIsIn
<1> DEFINE m == First(Bad)
<1> HIDE DEF m
<1>4. m \in Nat /\ m > 0 /\ m <= Len(s) /\ ~ \E f : Flattens(f, s, m)
  BY <1>3 DEF m
<1> DEFINE n == m - 1
<1>5. n \in Nat /\ n + 1 = m /\ ~ (m <= n)
  BY <1>4
<1>6. n \notin Bad
  BY <1>3, <1>5 DEF m
<1>7. n = 0 \/ \E f : Flattens(f, s, n)
  BY <1>1, <1>4, <1>5, <1>6
<1> HIDE DEF n
<1>8. \E g : Flattens(g, s, n + 1)
  <2>1. CASE n = 0
    BY <1>4, <1>5, <2>1, FlattensOneMore
  <2>2. CASE n # 0
    <3>1. PICK f : Flattens(f, s, n)
      BY <1>7, <2>2
    <3> QED
      BY <1>4, <1>5, <3>1, FlattensOneMore
  <2> QED
    BY <2>1, <2>2
<1> QED
  BY <1>4, <1>5, <1>8

\* FlattenSeq does so: there is only one way.
LEMMA FlattenIs ==
  ASSUME NEW s \in Seq(Seq(Byte)), s # <<>>, NEW f, Flattens(f, s, Len(s))
  PROVE  FlattenSeq(s) = f[Len(s)]
<1> DEFINE Is(g) == g = [i \in 1 .. Len(s) |->
                          IF i = 1 THEN s[i] ELSE g[i - 1] \o s[i]]
<1>1. Len(s) \in Nat /\ Len(s) > 0 /\ Len(s) # 0
  BY EmptySeq
<1>2. Is(f)
  BY DEF Flattens
<1>3. Is(CHOOSE g : Is(g))
  <2> HIDE DEF Is
  <2> QED
    BY <1>2
<1> DEFINE h == CHOOSE g : Is(g)
<1>4. FlattenSeq(s) = h[Len(s)]
  BY <1>1 DEF FlattenSeq
<1> HIDE DEF h
<1>5. Is(h)
  BY <1>3 DEF h
<1> DEFINE Bad == {i \in 1 .. Len(s) : h[i] # f[i]}
<1>6. ASSUME Bad # {} PROVE FALSE
  <2>1. Bad \in SUBSET Nat
    OBVIOUS
  <2>2. First(Bad) \in Bad /\ \A j \in Bad : First(Bad) <= j
    BY <1>6, <2>1, FirstIsIn
  <2> DEFINE m == First(Bad)
  <2> HIDE DEF m
  <2>3. m \in 1 .. Len(s) /\ h[m] # f[m]
    BY <2>2 DEF m
  <2>4. /\ h[m] = IF m = 1 THEN s[m] ELSE h[m - 1] \o s[m]
        /\ f[m] = IF m = 1 THEN s[m] ELSE f[m - 1] \o s[m]
    BY <1>5, <2>3 DEF Flattens
  <2>5. m # 1
    BY <2>3, <2>4
  <2>6. m - 1 \in 1 .. Len(s) /\ ~ (m <= m - 1)
    BY <1>1, <2>3, <2>5
  <2>7. h[m - 1] = f[m - 1]
    BY <2>2, <2>6 DEF m
  <2> QED
    BY <2>3, <2>4, <2>5, <2>7
<1>7. Len(s) \in 1 .. Len(s)
  BY <1>1
<1> QED
  BY <1>4, <1>6, <1>7


\* No chunks have no bytes.
LEMMA FlattenEmpty == FlattenSeq(<<>>) = <<>>
BY DEF FlattenSeq

\* The bytes of chunks, and how one more chunk adds to them.
LEMMA FlattenAppend ==
  ASSUME NEW s \in Seq(Seq(Byte)), NEW x \in Seq(Byte)
  PROVE  /\ FlattenSeq(s) \in Seq(Byte)
         /\ FlattenSeq(Append(s, x)) = FlattenSeq(s) \o x
<1> DEFINE t == Append(s, x)
           n == Len(s)
<1>1. /\ t \in Seq(Seq(Byte)) /\ t # <<>> /\ Len(t) = n + 1 /\ n \in Nat
      /\ \A i \in 1 .. n : t[i] = s[i]
      /\ t[n + 1] = x
  BY AppendProperties, LenProperties
<1> HIDE DEF t, n
<1>2. PICK g : Flattens(g, t, n + 1)
  BY <1>1, FlattensExists
<1>3. FlattenSeq(t) = g[n + 1]
  BY <1>1, <1>2, FlattenIs
<1>4. n + 1 \in 1 .. n + 1
  BY <1>1
<1>5. g[n + 1] = IF n = 0 THEN x ELSE g[n] \o x
  <2> DEFINE k == n + 1
  <2>1. \A i \in 1 .. k : g[i] = IF i = 1 THEN t[i] ELSE g[i - 1] \o t[i]
    BY <1>2 DEF Flattens
  <2>2. k \in 1 .. k /\ t[k] = x
    BY <1>1, <1>4
  <2> HIDE DEF k
  <2>3. g[k] = IF k = 1 THEN x ELSE g[k - 1] \o x
    BY <2>1, <2>2
  <2>4. k - 1 = n /\ (k = 1 <=> n = 0)
    BY <1>1 DEF k
  <2>5. g[k] = IF n = 0 THEN x ELSE g[n] \o x
    BY <2>3, <2>4
  <2> QED
    BY <2>5 DEF k
<1>6. CASE s = <<>>
  <2>1. n = 0
    BY <1>6, EmptySeq DEF n
  <2>2. FlattenSeq(t) = x
    BY <1>3, <1>5, <2>1
  <2>3. FlattenSeq(s) = <<>> /\ <<>> \in Seq(Byte) /\ <<>> \o x = x
    BY <1>6, FlattenEmpty, EmptySeq, ConcatEmptySeq
  <2> QED
    BY <2>2, <2>3 DEF t
<1>7. CASE s # <<>>
  <2>1. n > 0
    BY <1>7, EmptySeq DEF n
  <2>2. n # 0 /\ n \in 1 .. n + 1
    BY <1>1, <2>1
  <2>3. FlattenSeq(t) = g[n] \o x /\ g[n] \in Seq(Byte)
    BY <1>2, <1>3, <1>5, <2>2 DEF Flattens
  <2> DEFINE f == [i \in 1 .. n |-> g[i]]
  <2>4. Flattens(f, s, n)
    <3>1. \A i \in 1 .. n : i \in 1 .. n + 1 /\ (i # 1 => i - 1 \in 1 .. n)
      BY <1>1
    <3>2. /\ \A i \in 1 .. n : g[i] \in Seq(Byte)
          /\ \A i \in 1 .. n : g[i] = IF i = 1 THEN t[i] ELSE g[i - 1] \o t[i]
      BY <1>2, <3>1 DEF Flattens
    <3>3. \A i \in 1 .. n : f[i] = g[i]
      OBVIOUS
    <3>4. f \in [1 .. n -> Seq(Byte)]
      BY <3>2
    <3> HIDE DEF f
    <3>5. \A i \in 1 .. n : f[i] = IF i = 1 THEN s[i] ELSE f[i - 1] \o s[i]
      BY <1>1, <3>1, <3>2, <3>3
    <3> QED
      BY <3>4, <3>5 DEF Flattens
  <2>5. n \in 1 .. n
    BY <1>1, <2>1
  <2>6. f[n] = g[n]
    BY <2>5
  <2> HIDE DEF f
  <2>7. FlattenSeq(s) = f[n]
    BY <1>7, <2>4, FlattenIs DEF n
  <2> QED
    BY <2>3, <2>6, <2>7 DEF t
<1> QED
  BY <1>6, <1>7

-----------------------------------------------------------------------------
(* Nothing is lost                                                         *)

\* What has been read and is in no chunk.
Held == CASE pc \in {"chunk", "aborted"} -> retained \o left
          [] pc = "flush" -> retained
          [] OTHER -> IF caller.flushes THEN base ELSE retained

\* Where the bytes are not: retained is empty while a caller that flushes reads and
\* cuts, base while one that does not flush reads, and the buffer after it was cut.
Places ==
  /\ pc \in {"read", "chunk"} /\ caller.flushes => retained = <<>>
  /\ pc = "read" /\ ~caller.flushes => base = <<>>
  /\ pc = "flush" => left = <<>>
  /\ pc = "idle" => /\ retained = <<>> /\ base = <<>> /\ left = <<>>
                    /\ chunks = <<>> /\ read = 0

\* A new streamer holds nothing.
LEMMA InitPlaces == Init => Places
BY DEF Init, Places, NoCaller

\* Every step keeps the bytes where they belong.
LEMMA StepPlaces == Places /\ [Next]_vars => Places'
<1> SUFFICES ASSUME Places, [Next]_vars
             PROVE  Places'
  OBVIOUS
<1>1. CASE CutChunk
  BY <1>1 DEF CutChunk, Places, input
<1>2. CASE Retain
  BY <1>2 DEF Retain, Places, input
<1>3. CASE ChunkAborts \/ FlushAborts \/ EndOfStream
  BY <1>3 DEF ChunkAborts, FlushAborts, EndOfStream, Places, input
<1>4. CASE Flush
  BY <1>4 DEF Flush, Places, input
<1>5. CASE SkipFlush
  BY <1>5 DEF SkipFlush, Places, input
<1>6. CASE ReadPiece
  BY <1>6 DEF ReadPiece, Places, input
<1>7. CASE Leave
  BY <1>7 DEF Leave, Places
<1>8. CASE StartStream
  BY <1>8 DEF StartStream, Places
<1>9. CASE UNCHANGED vars
  BY <1>9 DEF vars, Places
<1> QED
  BY <1>1, <1>2, <1>3, <1>4, <1>5, <1>6, <1>7, <1>8, <1>9 DEF Next, Proceed


\* It does not matter which of three pieces are put together first.
LEMMA Regroup ==
  ASSUME NEW s \in Seq(Byte), NEW t \in Seq(Byte), NEW u \in Seq(Byte)
  PROVE  (s \o t) \o u = s \o (t \o u)
BY ConcatAssociative

\* What is held is a sequence of bytes.
LEMMA HeldType ==
  ASSUME TypeOK
  PROVE  Held \in Seq(Byte) /\ FlattenSeq(chunks) \in Seq(Byte)
<1>1. /\ base \in Seq(Byte) /\ left \in Seq(Byte) /\ retained \in Seq(Byte)
      /\ chunks \in Seq(Seq(Byte))
  BY DEF TypeOK
<1>2. retained \o left \in Seq(Byte)
  BY <1>1, ConcatProperties
<1>3. <<>> \in Seq(Byte)
  BY EmptySeq
<1> QED
  BY <1>1, <1>2, <1>3, FlattenAppend DEF Held

\* Every step keeps what has been read in the chunks and in what is held.
LEMMA StepNothingLost ==
  ASSUME IInv, Places, FlattenSeq(chunks) \o Held = SubSeq(stream, 1, read), [Next]_vars
  PROVE  (FlattenSeq(chunks) \o Held = SubSeq(stream, 1, read))'
<1> DEFINE F == FlattenSeq(chunks)
           P == SubSeq(stream, 1, read)
           Goal == FlattenSeq(chunks') \o Held' = SubSeq(stream', 1, read')
<1>0. /\ TypeOK /\ F \o Held = P /\ F \in Seq(Byte) /\ Held \in Seq(Byte)
      /\ base \in Seq(Byte) /\ left \in Seq(Byte) /\ retained \in Seq(Byte)
      /\ chunks \in Seq(Seq(Byte))
  BY HeldType DEF IInv, TypeOK
<1>e. /\ \A s \in Seq(Byte) : s \o <<>> = s /\ <<>> \o s = s
      /\ <<>> \in Seq(Byte)
  BY ConcatEmptySeq, EmptySeq
<1>1. ASSUME UNCHANGED <<chunks, stream, read>>, Held' = Held
      PROVE  Goal
  BY <1>0, <1>1
<1>2. CASE CutChunk
  <2>1. PICK n \in MinChunk + 1 .. MaxChunk :
          /\ Found(left, n)
          /\ chunks' = Append(chunks, SubSeq(left, 1, n))
          /\ left' = SubSeq(left, n + 1, Len(left))
    BY <1>2 DEF CutChunk, ChunkRef
  <2>2. /\ pc = "chunk" /\ pc' = "chunk" /\ retained = <<>> /\ retained' = <<>>
        /\ stream' = stream /\ read' = read
    BY <1>2 DEF CutChunk, input
  <2>3. n \in Nat /\ n <= Len(left) /\ Len(left) \in Nat
    BY <1>0, <2>1, FoundIsInside, Inputs, Sizes
  <2> DEFINE a == SubSeq(left, 1, n)
             r == SubSeq(left, n + 1, Len(left))
  <2>4. a \in Seq(Byte) /\ r \in Seq(Byte)
    BY <1>0, <2>3, PartOfBytes
  <2>5. a \o r = left
    <3>1. 1 \in 1 .. Len(left) + 1 /\ n \in 1 - 1 .. Len(left) /\ Len(left) \in n .. Len(left)
      BY <2>3
    <3>2. a \o r = SubSeq(left, 1, Len(left))
      BY <1>0, <3>1, ConcatAdjacentSubSeq
    <3> QED
      BY <1>0, <3>2, SubSeqFull
  <2>6. FlattenSeq(chunks') = F \o a
    BY <1>0, <2>1, <2>4, FlattenAppend
  <2>7. Held = left /\ Held' = r
    BY <1>0, <1>e, <2>1, <2>2, <2>4 DEF Held
  <2>f. F \in Seq(Byte)
    BY <1>0
  <2> HIDE DEF a, r, F
  <2>8. (F \o a) \o r = F \o (a \o r)
    BY <2>f, <2>4, Regroup, Zenon
  <2> QED
    BY <1>0, <2>2, <2>5, <2>6, <2>7, <2>8
<1>3. CASE Retain
  <2>1. Held' = left /\ Held = left
    BY <1>0, <1>3, <1>e DEF Retain, Held
  <2> QED
    BY <1>1, <1>3, <2>1 DEF Retain, input
<1>4. CASE ChunkAborts
  BY <1>1, <1>4 DEF ChunkAborts, input, Held
<1>5. CASE FlushAborts
  <2>1. Held' = retained \o left /\ left = <<>> /\ Held = retained
    BY <1>5 DEF FlushAborts, Held, Places
  <2>2. Held' = Held
    BY <1>0, <1>e, <2>1
  <2> QED
    BY <1>1, <1>5, <2>2 DEF FlushAborts, input
<1>6. CASE Flush
  BY <1>1, <1>6 DEF Flush, input, Held
<1>7. CASE SkipFlush
  BY <1>1, <1>7 DEF SkipFlush, input, Held
<1>8. CASE EndOfStream
  BY <1>1, <1>8 DEF EndOfStream, input, Held
<1>9. CASE ReadPiece
  <2>1. PICK n \in 1 .. caller.size - Len(base) :
          /\ read + n <= Len(stream)
          /\ left' = base \o SubSeq(stream, read + 1, read + n)
          /\ read' = read + n
    BY <1>9 DEF ReadPiece
  <2>2. /\ pc = "read" /\ pc' = "chunk" /\ retained' = retained
        /\ stream' = stream /\ chunks' = chunks
    BY <1>9 DEF ReadPiece, input
  <2>3. /\ n \in Nat /\ n > 0 /\ read \in Nat /\ read + n <= Len(stream)
        /\ stream \in Seq(Byte) /\ Len(stream) \in Nat
    BY <1>0, <2>1, Inputs
  <2> DEFINE a == SubSeq(stream, read + 1, read + n)
  <2>4. a \in Seq(Byte)
    BY <2>3, PartOfBytes
  <2>5. P \o a = SubSeq(stream, 1, read + n)
    <3>1. /\ 1 \in 1 .. Len(stream) + 1 /\ read \in 1 - 1 .. Len(stream)
          /\ read + n \in read .. Len(stream)
      BY <2>3
    <3> QED
      BY <2>3, <3>1, ConcatAdjacentSubSeq
  <2> HIDE DEF a, F, P
  <2>6. Held' = Held \o a
    <3>1. Held' = retained \o (base \o a)
      BY <2>1, <2>2 DEF Held, a
    <3>2. CASE caller.flushes
      <4>1. Held = base /\ retained = <<>>
        BY <2>2, <3>2 DEF Held, Places
      <4>2. base \o a \in Seq(Byte)
        BY <1>0, <2>4, ConcatProperties
      <4> QED
        BY <1>e, <3>1, <4>1, <4>2
    <3>3. CASE ~caller.flushes
      <4>1. Held = retained /\ base = <<>>
        BY <2>2, <3>3 DEF Held, Places
      <4> QED
        BY <1>e, <2>4, <3>1, <4>1
    <3> QED
      BY <3>2, <3>3
  <2>7. (F \o Held) \o a = F \o (Held \o a)
    BY <1>0, <2>4, Regroup
  <2>8. FlattenSeq(chunks') = F
    BY <2>2 DEF F
  <2> QED
    BY <1>0, <2>1, <2>2, <2>5, <2>6, <2>7, <2>8
<1>10. CASE Leave
  <2>1. /\ stream' = <<>> /\ read' = 0 /\ chunks' = <<>> /\ pc' = "idle"
        /\ base' = <<>> /\ retained' = <<>>
    BY <1>10 DEF Leave
  <2>2. Held' = <<>>
    BY <2>1 DEF Held
  <2>3. SubSeq(<<>>, 1, 0) = <<>>
    BY SubSeqEmpty
  <2> QED
    BY <1>e, <2>1, <2>2, <2>3, FlattenEmpty
<1>11. CASE StartStream
  <2>1. /\ read' = 0 /\ chunks' = <<>> /\ pc' = "read" /\ base' = <<>> /\ retained' = <<>>
    BY <1>11 DEF StartStream, Places
  <2>2. Held' = <<>>
    BY <2>1 DEF Held
  <2>3. SubSeq(stream', 1, 0) = <<>>
    BY SubSeqEmpty
  <2> QED
    BY <1>e, <2>1, <2>2, <2>3, FlattenEmpty
<1>12. CASE UNCHANGED vars
  BY <1>1, <1>12 DEF vars, Held
<1>13. Goal
  BY <1>2, <1>3, <1>4, <1>5, <1>6, <1>7, <1>8, <1>9, <1>10, <1>11, <1>12
     DEF Next, Proceed
<1> QED
  BY <1>13

\* No byte of a stream is lost, repeated or moved between the caller's buffer, the
\* chunker and the cache, whatever each read returned and wherever the stream is cut.
THEOREM ChunkerNothingLost == Spec => []NothingLost
<1> DEFINE Inv == FlattenSeq(chunks) \o Held = SubSeq(stream, 1, read)
<1>1. Init => Inv
  <2> SUFFICES ASSUME Init PROVE Inv
    OBVIOUS
  <2>1. SubSeq(<<>>, 1, 0) = <<>> /\ <<>> \o <<>> = <<>>
    BY SubSeqEmpty, EmptySeq, ConcatEmptySeq
  <2>2. Held = <<>> /\ chunks = <<>> /\ stream = <<>> /\ read = 0
    BY DEF Init, Held, NoCaller
  <2> QED
    BY <2>1, <2>2, FlattenEmpty
<1>2. IInv /\ Places /\ Inv /\ [Next]_vars => Inv'
  BY StepNothingLost
<1>3. Inv => NothingLost
  BY DEF NothingLost, Held
<1> HIDE DEF Inv
<1> QED
  BY <1>1, <1>2, <1>3, InitPlaces, StepPlaces, AlwaysIInv, PTL DEF Spec


-----------------------------------------------------------------------------
(* The cuts depend on the stream alone                                     *)

\* Buffer b is what stream s has from offset k on.
BufferAt(s, k, b) ==
  /\ s \in Seq(Byte) /\ b \in Seq(Byte) /\ k \in Nat
  /\ k + Len(b) <= Len(s)
  /\ \A j \in 1 .. Len(b) : s[k + j] = b[j]

\* What the rolling hash covers in a buffer are the bytes of the stream that
\* HashedAt names.
LEMMA WindowIsHashed ==
  ASSUME NEW s, NEW k, NEW b, BufferAt(s, k, b), MinChunk <= Len(b),
         NEW i \in Nat, i <= Len(b)
  PROVE  HashedAt(s, k, i) = WindowAt(b, i)
<1> DEFINE r == ResetWindow(b)
<1>1. /\ b \in Seq(Byte) /\ Len(b) \in Nat /\ k \in Nat
      /\ \A j \in 1 .. Len(b) : s[k + j] = b[j] /\ b[j] \in Byte
  BY LenProperties, ElementOfSeq DEF BufferAt
<1>2. /\ r \in Seq(Byte) /\ Len(r) = Width
      /\ \A j \in 1 .. Width : r[j] = b[MinChunk - Width + j]
  <2>1. /\ MinChunk - Width + 1 \in Int /\ MinChunk \in Int
        /\ \A j \in MinChunk - Width + 1 .. MinChunk : b[j] \in Byte
    BY <1>1, Sizes
  <2>2. /\ r \in Seq(Byte)
        /\ Len(r) = IF MinChunk - Width + 1 <= MinChunk
                    THEN MinChunk - (MinChunk - Width + 1) + 1 ELSE 0
        /\ \A j \in 1 .. MinChunk - (MinChunk - Width + 1) + 1 :
             r[j] = b[(MinChunk - Width + 1) + j - 1]
    BY <2>1, SubSeqProperties DEF ResetWindow
  <2>3. /\ MinChunk - (MinChunk - Width + 1) + 1 = Width
        /\ MinChunk - Width + 1 <= MinChunk
        /\ \A j \in 1 .. Width : (MinChunk - Width + 1) + j - 1 = MinChunk - Width + j
    BY Sizes
  <2> QED
    BY <2>2, <2>3
<1> HIDE DEF r
<1> DEFINE c == r \o b
<1>3. /\ c \in Seq(Byte) /\ Len(c) = Width + Len(b)
      /\ \A j \in 1 .. Width + Len(b) : c[j] = IF j <= Width THEN r[j] ELSE b[j - Width]
  BY <1>1, <1>2, ConcatProperties
<1> HIDE DEF c
<1>4. /\ WindowAt(b, i) = SubSeq(c, i + 1, i + Width)
      /\ WindowAt(b, i) \in [1 .. Width -> Byte]
  BY <1>1, WindowType DEF WindowAt, c, r
<1>5. \A j \in 1 .. Width : WindowAt(b, i)[j] = c[i + j]
  <2>1. \A j \in i + 1 .. i + Width : j \in 1 .. Len(c)
    BY <1>1, <1>3, Sizes
  <2>2. \A j \in i + 1 .. i + Width : c[j] \in Byte
    BY <1>3, <2>1, ElementOfSeq
  <2>3. i + 1 \in Int /\ i + Width \in Int /\ (i + Width) - (i + 1) + 1 = Width
    BY Sizes
  <2>4. \A j \in 1 .. (i + Width) - (i + 1) + 1 :
          SubSeq(c, i + 1, i + Width)[j] = c[(i + 1) + j - 1]
    BY <2>2, <2>3, SubSeqProperties
  <2>5. \A j \in 1 .. Width : (i + 1) + j - 1 = i + j
    BY Sizes
  <2> QED
    BY <1>4, <2>3, <2>4, <2>5
<1>6. ASSUME NEW j \in 1 .. Width
      PROVE  HashedAt(s, k, i)[j] = WindowAt(b, i)[j]
  <2>1. /\ j \in Nat /\ j > 0 /\ j <= Width /\ i + j \in 1 .. Width + Len(b)
    BY <1>1, Sizes
  <2>2. CASE i + j <= Width
    <3>1. WindowAt(b, i)[j] = b[MinChunk - Width + (i + j)]
      <4>1. i + j \in 1 .. Width
        BY <2>1, <2>2, Sizes
      <4> QED
        BY <1>2, <1>3, <1>5, <2>1, <2>2, <4>1
    <3>2. MinChunk - Width + (i + j) \in 1 .. Len(b)
      BY <1>1, <2>1, <2>2, Sizes
    <3>3. k + (MinChunk - Width + (i + j)) = k + MinChunk - Width + i + j
      BY <1>1, <2>1, Sizes
    <3>4. HashedAt(s, k, i)[j] = s[k + MinChunk - Width + i + j]
      BY <2>2 DEF HashedAt
    <3> QED
      BY <1>1, <3>1, <3>2, <3>3, <3>4
  <2>3. CASE ~ (i + j <= Width)
    <3> DEFINE q == i + j
    <3>1. WindowAt(b, i)[j] = c[q] /\ q \in 1 .. Width + Len(b) /\ ~ (q <= Width)
      BY <1>5, <2>1, <2>3
    <3>2. q - Width \in 1 .. Len(b) /\ k + (q - Width) = k + i + j - Width
      BY <1>1, <2>1, <2>3, Sizes
    <3> HIDE DEF q
    <3>3. c[q] = b[q - Width]
      BY <1>3, <3>1
    <3>4. HashedAt(s, k, i)[j] = s[k + i + j - Width]
      BY <2>3 DEF HashedAt
    <3>5. s[k + (q - Width)] = b[q - Width]
      BY <1>1, <3>2
    <3> QED
      BY <3>1, <3>2, <3>3, <3>4, <3>5
  <2> QED
    BY <2>2, <2>3
<1>7. HashedAt(s, k, i) = [j \in 1 .. Width |-> HashedAt(s, k, i)[j]]
  BY DEF HashedAt
<1>8. WindowAt(b, i) = [j \in 1 .. Width |-> WindowAt(b, i)[j]]
  BY <1>4
<1> QED
  BY <1>6, <1>7, <1>8

\* Where chunker_chunk_buffer cuts a buffer, the chunk of the stream ends.
LEMMA FoundEndsChunk ==
  ASSUME NEW s, NEW k, NEW b, BufferAt(s, k, b),
         NEW n \in MinChunk + 1 .. MaxChunk, Found(b, n)
  PROVE  EndsChunk(s, k, k + n)
<1>1. b \in Seq(Byte) /\ Len(b) \in Nat /\ k \in Nat
  BY LenProperties DEF BufferAt
<1>2. n <= Len(b) /\ MinChunk <= Len(b) /\ n \in Nat
  BY <1>1, FoundIsInside, Sizes
<1>3. HashLength(b) \in Nat /\ HashLength(b) <= Len(b)
  BY <1>1, <1>2, Sizes DEF HashLength
<1>4. (k + n) - k = n
  BY <1>1, <1>2
<1>5. \A i \in 1 .. HashLength(b) : HashedAt(s, k, i) = WindowAt(b, i)
  <2>1. \A i \in 1 .. HashLength(b) : i \in Nat /\ i <= Len(b)
    BY <1>1, <1>3
  <2> QED
    BY <1>2, <2>1, WindowIsHashed
<1>6. CASE Hits(b) # {} /\ n = MinChunk + First(Hits(b))
  <2> DEFINE f == First(Hits(b))
  <2>1. Hits(b) \in SUBSET Nat
    BY <1>3 DEF Hits
  <2>2. f \in Hits(b) /\ \A j \in Hits(b) : f <= j
    BY <1>6, <2>1, FirstIsIn
  <2> HIDE DEF f
  <2>3. /\ f \in 1 .. HashLength(b) /\ WindowAt(b, f) \in Triggers
        /\ \A i \in 1 .. HashLength(b) : WindowAt(b, i) \in Triggers => f <= i
    BY <2>2 DEF Hits
  <2>4. n - MinChunk = f /\ n - MinChunk - 1 = f - 1
    BY <1>3, <1>6, <2>3, Sizes DEF f
  <2>5. HashedAt(s, k, n - MinChunk) \in Triggers
    BY <1>5, <2>3, <2>4
  <2>6. \A i \in 1 .. n - MinChunk - 1 : HashedAt(s, k, i) \notin Triggers
    <3>1. ASSUME NEW i \in 1 .. f - 1 PROVE HashedAt(s, k, i) \notin Triggers
      <4>1. i \in 1 .. HashLength(b) /\ ~ (f <= i)
        BY <1>3, <2>3
      <4> QED
        BY <1>5, <2>3, <4>1
    <3> QED
      BY <2>4, <3>1
  <2> QED
    BY <1>4, <2>5, <2>6 DEF EndsChunk
<1>7. CASE Hits(b) = {} /\ HashLength(b) = MaxChunk - MinChunk /\ n = MaxChunk
  <2>1. \A i \in 1 .. n - MinChunk - 1 : i \in 1 .. HashLength(b)
    BY <1>7, Sizes
  <2>2. \A i \in 1 .. n - MinChunk - 1 : HashedAt(s, k, i) \notin Triggers
    BY <1>5, <1>7, <2>1 DEF Hits
  <2> QED
    BY <1>4, <1>7, <2>2 DEF EndsChunk
<1> QED
  BY <1>6, <1>7 DEF Found

\* Where chunker_chunk_buffer finds nothing to cut, no chunk of the stream ends.
LEMMA NotFoundEndsNone ==
  ASSUME NEW s, NEW k, NEW b, BufferAt(s, k, b), NotFound(b),
         NEW e \in Nat, e <= k + Len(b)
  PROVE  ~EndsChunk(s, k, e)
<1>1. b \in Seq(Byte) /\ Len(b) \in Nat /\ k \in Nat
  BY LenProperties DEF BufferAt
<1> SUFFICES ASSUME EndsChunk(s, k, e)
             PROVE  FALSE
  OBVIOUS
<1> DEFINE n == e - k
<1>2. /\ n \in MinChunk + 1 .. MaxChunk
      /\ n = MaxChunk \/ HashedAt(s, k, n - MinChunk) \in Triggers
  BY DEF EndsChunk
<1>3. n \in Nat /\ n <= Len(b) /\ MinChunk < n /\ MinChunk < Len(b)
  BY <1>1, <1>2, Sizes
<1> HIDE DEF n
<1>4. Hits(b) = {} /\ HashLength(b) < MaxChunk - MinChunk
  BY <1>1, <1>3, Sizes DEF NotFound
<1>5. Len(b) < MaxChunk /\ HashLength(b) = Len(b) - MinChunk
  BY <1>1, <1>4, Sizes DEF HashLength
<1>6. /\ n # MaxChunk /\ n - MinChunk \in 1 .. HashLength(b)
      /\ n - MinChunk \in Nat /\ n - MinChunk <= Len(b)
  BY <1>1, <1>3, <1>5, Sizes
<1>7. HashedAt(s, k, n - MinChunk) = WindowAt(b, n - MinChunk)
  BY <1>1, <1>3, <1>6, Sizes, WindowIsHashed
<1> QED
  BY <1>2, <1>4, <1>6, <1>7 DEF Hits


\* Where the n-th chunk of c ends.
OffsetIn(c, n) == Len(FlattenSeq(SubSeq(c, 1, n)))

\* Every chunk of c ends where a chunk of stream s ends.
Cuts(s, c) == \A n \in 1 .. Len(c) : EndsChunk(s, OffsetIn(c, n - 1), OffsetIn(c, n))

\* After the chunks of c none ends in the first r bytes.
NoMore(s, c, r) == \A e \in 1 .. r : ~EndsChunk(s, OffsetIn(c, Len(c)), e)

\* The offsets of the chunks stay when one more is cut.
LEMMA OffsetAppend ==
  ASSUME NEW c \in Seq(Seq(Byte)), NEW x \in Seq(Byte)
  PROVE  LET a == Append(c, x)
         IN /\ Len(a) = Len(c) + 1
            /\ \A n \in 0 .. Len(c) : OffsetIn(a, n) = OffsetIn(c, n)
            /\ OffsetIn(a, Len(a)) = OffsetIn(c, Len(c)) + Len(x)
            /\ OffsetIn(c, Len(c)) = Len(FlattenSeq(c))
<1> DEFINE a == Append(c, x)
<1>1. /\ a \in Seq(Seq(Byte)) /\ Len(a) = Len(c) + 1 /\ Len(c) \in Nat
      /\ \A i \in 1 .. Len(c) : a[i] = c[i] /\ c[i] \in Seq(Byte)
  BY AppendProperties, LenProperties, ElementOfSeq
<1>2. SubSeq(c, 1, Len(c)) = c
  BY SubSeqFull
<1>3. SubSeq(a, 1, Len(a)) = a
  BY <1>1, SubSeqFull
<1>4. /\ FlattenSeq(a) = FlattenSeq(c) \o x /\ FlattenSeq(c) \in Seq(Byte)
  BY FlattenAppend
<1>5. Len(FlattenSeq(c) \o x) = Len(FlattenSeq(c)) + Len(x)
  BY <1>4, ConcatProperties
<1> HIDE DEF a
<1>6. ASSUME NEW n \in 0 .. Len(c)
      PROVE  SubSeq(a, 1, n) = SubSeq(c, 1, n)
  <2>1. /\ 1 \in Int /\ n \in Int /\ n - 1 + 1 = n
        /\ \A i \in 1 .. n : i \in 1 .. Len(c) /\ 1 + i - 1 = i
    BY <1>1
  <2>2. \A i \in 1 .. n : c[i] \in Seq(Byte) /\ a[i] \in Seq(Byte) /\ a[i] = c[i]
    BY <1>1, <2>1
  <2>3. /\ SubSeq(c, 1, n) \in Seq(Seq(Byte))
        /\ Len(SubSeq(c, 1, n)) = IF 1 <= n THEN n - 1 + 1 ELSE 0
        /\ \A i \in 1 .. n - 1 + 1 : SubSeq(c, 1, n)[i] = c[1 + i - 1]
    BY <2>1, <2>2, SubSeqProperties
  <2>4. /\ SubSeq(a, 1, n) \in Seq(Seq(Byte))
        /\ Len(SubSeq(a, 1, n)) = IF 1 <= n THEN n - 1 + 1 ELSE 0
        /\ \A i \in 1 .. n - 1 + 1 : SubSeq(a, 1, n)[i] = a[1 + i - 1]
    BY <2>1, <2>2, SubSeqProperties
  <2>5. /\ Len(SubSeq(a, 1, n)) = n /\ Len(SubSeq(c, 1, n)) = n
        /\ \A i \in 1 .. n : SubSeq(a, 1, n)[i] = SubSeq(c, 1, n)[i]
    BY <2>1, <2>2, <2>3, <2>4
  <2> QED
    BY <2>3, <2>4, <2>5, SeqEqual
<1>7. \A n \in 0 .. Len(c) : OffsetIn(a, n) = OffsetIn(c, n)
  BY <1>6 DEF OffsetIn
<1>8. OffsetIn(a, Len(a)) = OffsetIn(c, Len(c)) + Len(x)
  BY <1>2, <1>3, <1>4, <1>5 DEF OffsetIn, a
<1> QED
  BY <1>1, <1>2, <1>7, <1>8 DEF OffsetIn, a

\* One more cut at the end of a chunk.
LEMMA CutsAppend ==
  ASSUME NEW s, NEW c \in Seq(Seq(Byte)), NEW x \in Seq(Byte), Cuts(s, c),
         EndsChunk(s, Len(FlattenSeq(c)), Len(FlattenSeq(c)) + Len(x))
  PROVE  Cuts(s, Append(c, x))
<1> DEFINE a == Append(c, x)
           k == OffsetIn(c, Len(c))
<1>1. /\ Len(a) = Len(c) + 1 /\ Len(c) \in Nat
      /\ \A n \in 0 .. Len(c) : OffsetIn(a, n) = OffsetIn(c, n)
      /\ OffsetIn(a, Len(a)) = k + Len(x)
      /\ k = Len(FlattenSeq(c))
  BY OffsetAppend, LenProperties
<1> HIDE DEF a
<1>2. ASSUME NEW n \in 1 .. Len(a)
      PROVE  EndsChunk(s, OffsetIn(a, n - 1), OffsetIn(a, n))
  <2>1. CASE n = Len(a)
    <3>1. n - 1 = Len(c) /\ Len(c) \in 0 .. Len(c)
      BY <1>1, <2>1
    <3>2. OffsetIn(a, n - 1) = k /\ OffsetIn(a, n) = k + Len(x)
      BY <1>1, <2>1, <3>1
    <3> QED
      BY <1>1, <3>2
  <2>2. CASE n # Len(a)
    <3>1. n \in 1 .. Len(c) /\ n \in 0 .. Len(c) /\ n - 1 \in 0 .. Len(c)
      BY <1>1, <2>2
    <3>2. OffsetIn(a, n - 1) = OffsetIn(c, n - 1) /\ OffsetIn(a, n) = OffsetIn(c, n)
      BY <1>1, <3>1
    <3> QED
      BY <3>1, <3>2 DEF Cuts
  <2> QED
    BY <2>1, <2>2
<1> QED
  BY <1>2 DEF Cuts, a

\* The buffer that is being cut is the stream behind the last chunk.
LEMMA LeftIsBehind ==
  ASSUME IInv, FlattenSeq(chunks) \o Held = SubSeq(stream, 1, read),
         pc = "chunk", retained = <<>>
  PROVE  /\ BufferAt(stream, Len(FlattenSeq(chunks)), left)
         /\ Len(FlattenSeq(chunks)) + Len(left) = read
<1> DEFINE F == FlattenSeq(chunks)
           P == SubSeq(stream, 1, read)
<1>0. TypeOK /\ left \in Seq(Byte) /\ read \in 0 .. Len(stream)
  BY DEF IInv, TypeOK
<1>1. /\ F \in Seq(Byte) /\ stream \in Seq(Byte) /\ Len(stream) \in Nat
      /\ read \in Nat /\ read <= Len(stream) /\ Len(left) \in Nat
  BY <1>0, HeldType, Inputs
<1>2. Held = left
  BY <1>0, ConcatEmptySeq DEF Held
<1>3. Len(F) \in Nat
  BY <1>1, LenProperties
<1> HIDE DEF F
<1>4. /\ Len(F \o left) = Len(F) + Len(left)
      /\ \A i \in 1 .. Len(F) + Len(left) :
           (F \o left)[i] = IF i <= Len(F) THEN F[i] ELSE left[i - Len(F)]
  BY <1>0, <1>1, ConcatProperties
<1>5. Len(P) = read /\ \A i \in 1 .. read : P[i] = stream[i]
  <2>1. \A i \in 1 .. read : stream[i] \in Byte /\ 1 + i - 1 = i
    <3>1. \A i \in 1 .. read : i \in 1 .. Len(stream) /\ 1 + i - 1 = i
      BY <1>1
    <3> QED
      BY <1>1, <3>1, ElementOfSeq
  <2>2. /\ Len(P) = IF 1 <= read THEN read - 1 + 1 ELSE 0
        /\ \A i \in 1 .. read - 1 + 1 : P[i] = stream[1 + i - 1]
    BY <1>1, <2>1, SubSeqProperties
  <2>3. read - 1 + 1 = read
    BY <1>1
  <2> QED
    BY <1>1, <2>1, <2>2, <2>3
<1> HIDE DEF P
<1>6. F \o left = P
  BY <1>2 DEF F, P
<1>7. Len(F) + Len(left) = read
  BY <1>4, <1>5, <1>6
<1>8. ASSUME NEW j \in 1 .. Len(left)
      PROVE  stream[Len(F) + j] = left[j]
  <2> DEFINE i == Len(F) + j
  <2>1. /\ i \in 1 .. Len(F) + Len(left) /\ i \in 1 .. read
        /\ ~ (i <= Len(F)) /\ i - Len(F) = j
    BY <1>1, <1>3, <1>7
  <2> HIDE DEF i
  <2>2. P[i] = stream[i] /\ P[i] = left[j]
    BY <1>4, <1>5, <1>6, <2>1
  <2> QED
    BY <2>2 DEF i
<1> QED
  BY <1>0, <1>1, <1>3, <1>7, <1>8 DEF BufferAt, F


\* Every step keeps the cuts where the stream has them.
LEMMA StepCanonical ==
  ASSUME IInv, Places, FlattenSeq(chunks) \o Held = SubSeq(stream, 1, read),
         Cuts(stream, chunks),
         pc \in {"flush", "read"} => NoMore(stream, chunks, read),
         [Next]_vars
  PROVE  /\ Cuts(stream', chunks')
         /\ pc' \in {"flush", "read"} => NoMore(stream', chunks', read')
<1> DEFINE k == Len(FlattenSeq(chunks))
           Goal == /\ Cuts(stream', chunks')
                   /\ pc' \in {"flush", "read"} => NoMore(stream', chunks', read')
<1>0. TypeOK /\ left \in Seq(Byte) /\ chunks \in Seq(Seq(Byte)) /\ read \in Nat
  BY Inputs DEF IInv, TypeOK
<1>1. CASE CutChunk
  <2>1. PICK n \in MinChunk + 1 .. MaxChunk :
          /\ Found(left, n)
          /\ chunks' = Append(chunks, SubSeq(left, 1, n))
    BY <1>1 DEF CutChunk, ChunkRef
  <2>2. pc = "chunk" /\ pc' = "chunk" /\ retained = <<>> /\ stream' = stream
    BY <1>1 DEF CutChunk, input
  <2>3. BufferAt(stream, k, left)
    BY <2>2, LeftIsBehind
  <2>4. n \in Nat /\ n <= Len(left) /\ n > 0
    BY <1>0, <2>1, FoundIsInside, Sizes
  <2>5. SubSeq(left, 1, n) \in Seq(Byte) /\ Len(SubSeq(left, 1, n)) = n
    BY <1>0, <2>4, PartOfBytes
  <2>6. EndsChunk(stream, k, k + n)
    BY <2>1, <2>3, FoundEndsChunk
  <2>7. Cuts(stream, Append(chunks, SubSeq(left, 1, n)))
    BY <1>0, <2>5, <2>6, CutsAppend
  <2> QED
    BY <2>1, <2>2, <2>7
<1>2. CASE Retain
  <2>1. /\ pc = "chunk" /\ retained = <<>> /\ NotFound(left)
        /\ stream' = stream /\ chunks' = chunks /\ read' = read
    BY <1>2 DEF Retain, input
  <2>2. BufferAt(stream, k, left) /\ k + Len(left) = read
    BY <2>1, LeftIsBehind
  <2>3. OffsetIn(chunks, Len(chunks)) = k
    BY <1>0, SubSeqFull DEF OffsetIn
  <2>4. \A e \in 1 .. read : e \in Nat /\ e <= k + Len(left)
    BY <1>0, <2>2
  <2>5. \A e \in 1 .. read : ~EndsChunk(stream, k, e)
    BY <2>1, <2>2, <2>4, NotFoundEndsNone
  <2> QED
    BY <2>1, <2>3, <2>5 DEF NoMore
<1>3. CASE ChunkAborts \/ FlushAborts \/ EndOfStream
  BY <1>3 DEF ChunkAborts, FlushAborts, EndOfStream, input
<1>4. CASE Flush \/ SkipFlush
  BY <1>4 DEF Flush, SkipFlush, input
<1>5. CASE ReadPiece
  BY <1>5 DEF ReadPiece, input
<1>6. CASE Leave
  <2>1. chunks' = <<>> /\ pc' = "idle"
    BY <1>6 DEF Leave
  <2>2. Cuts(stream', <<>>)
    BY EmptySeq DEF Cuts
  <2> QED
    BY <2>1, <2>2
<1>7. CASE StartStream
  <2>1. chunks' = <<>> /\ read' = 0
    BY <1>7 DEF StartStream, Places
  <2>2. Cuts(stream', <<>>)
    BY EmptySeq DEF Cuts
  <2>3. NoMore(stream', <<>>, 0)
    BY DEF NoMore
  <2> QED
    BY <2>1, <2>2, <2>3
<1>8. CASE UNCHANGED vars
  BY <1>8 DEF vars
<1> QED
  BY <1>1, <1>2, <1>3, <1>4, <1>5, <1>6, <1>7, <1>8 DEF Next, Proceed

\* The same stream is cut into the same chunks, however it is read: whatever the
\* buffers, the reads and the streams before it were, each chunk ends where the
\* stream alone says, and process_buffer leaves no chunk uncut.
THEOREM ChunkerChunksAreCanonical == Spec => []ChunksAreCanonical
<1> DEFINE Lost == FlattenSeq(chunks) \o Held = SubSeq(stream, 1, read)
           Inv == /\ Cuts(stream, chunks)
                  /\ pc \in {"flush", "read"} => NoMore(stream, chunks, read)
<1>1. Init => Inv
  <2>1. Cuts(<<>>, <<>>)
    BY EmptySeq DEF Cuts
  <2> QED
    BY <2>1 DEF Init
<1>2. IInv /\ Places /\ Lost /\ Inv /\ [Next]_vars => Inv'
  <2> SUFFICES ASSUME IInv, Places, Lost, Inv, [Next]_vars
               PROVE  Inv'
    OBVIOUS
  <2> QED
    BY StepCanonical
<1>3. Inv => ChunksAreCanonical
  BY DEF ChunksAreCanonical, Cuts, NoMore, Offset, OffsetIn
<1>4. NothingLost => Lost
  BY DEF NothingLost, Held
<1> HIDE DEF Inv, Lost
<1> QED
  BY <1>1, <1>2, <1>3, <1>4, InitPlaces, StepPlaces, AlwaysIInv, ChunkerNothingLost, PTL
     DEF Spec
=============================================================================
