---------------------------- MODULE VideoProofs -----------------------------
(***************************************************************************)
(* The conversion of the video for every frame, header and chunk size.     *)
(*                                                                         *)
(* ngx_custom_copy is said of the bytes of a chain alone (CopySpec).  From *)
(* that follow that the loop of avcc_to_annexb ends, that it never writes  *)
(* beyond the static buffer, and that the chunks a message comes in make   *)
(* no difference to what it is converted to.                               *)
(*                                                                         *)
(* What becomes of a frame is shown unit by unit: a pass of the loop reads *)
(* one, and what it writes weighs no more than what a decoder should find  *)
(* for it (Through).  So a picture that there is room for is converted.    *)
(*                                                                         *)
(* What a decoder reads in the output is shown in the same way.  A unit    *)
(* behind a start code, none of whose bytes is 0, is one unit more that it *)
(* reads, and the others are as before (UnitMore): the invariant of the    *)
(* loop is that the output reads as what is wanted of the units so far     *)
(* (Reading), and the flags tell what was among them (FlagsTell).  It also *)
(* holds of a message whose end is lost; that the loop then gets to the    *)
(* end of the chain without a failure means that whole units are lost.     *)
(***************************************************************************)
EXTENDS VideoPath, SequenceTheorems, WellFoundedInduction, TLAPS

\* A number is a multiple of the divisor and a remainder below it,
LEMMA Division ==
  ASSUME NEW S \in Nat \ {0}, NEW a \in Int
  PROVE  \E q \in Int, r \in 0..(S - 1) :
           a = S * q + r /\ q = a \div S /\ r = a % S
<1>1. a \div S \in Int
  OBVIOUS
<1>2. a % S \in 0..(S - 1)
  OBVIOUS
<1>3. a = S * (a \div S) + (a % S)
  OBVIOUS
<1> QED BY <1>1, <1>2, <1>3

-----------------------------------------------------------------------------
(* Chains of buffers and their bytes.                                      *)

\* The type of a NAL unit is what is left of its first byte.
LEMMA LowBits == \A x \in 0..31 : (96 + x) % 32 = x
OBVIOUS

\* A smaller natural number is below, and there is no way down without an end,
LEMMA BelowWellFounded ==
  IsWellFoundedOn({pair \in Nat \X Nat : pair[1] < pair[2]}, Nat)
BY NatLessThanWellFounded DEF OpToRel
\* so that a set of natural numbers has a least element,
LEMMA LeastElement ==
  ASSUME NEW T, T \subseteq Nat, T # {}
  PROVE  Min(T) \in T /\ \A other \in T : Min(T) <= other
<1> DEFINE R == {pair \in Nat \X Nat : pair[1] < pair[2]}
<1>1. PICK x \in T : \A y \in T : ~(<<y, x>> \in R)
  <2>1. IsWellFoundedOn(R, Nat)
    BY BelowWellFounded
  <2> HIDE DEF R
  <2> QED BY <2>1, WFMin
<1>2. ASSUME NEW y \in T PROVE x <= y
  <2>1. x \in Nat /\ y \in Nat /\ ~(<<y, x>> \in R)
    BY <1>1
  <2>2. ~(y < x)
    BY <2>1
  <2> QED BY <2>1, <2>2
<1> QED BY <1>2 DEF Min
\* and what holds of 0, and of a number's successor with it, holds up to N.
LEMMA UpTo ==
  ASSUME NEW N \in Nat, NEW T, 0 \in T, \A n \in 0..(N - 1) : n \in T => n + 1 \in T
  PROVE  0..N \subseteq T
<1> DEFINE C == 0..N \ T
<1> SUFFICES ASSUME C # {} PROVE FALSE
  OBVIOUS
<1>1. C \subseteq Nat
  OBVIOUS
<1>2. Min(C) \in C /\ \A other \in C : Min(C) <= other
  <2> HIDE DEF C
  <2> QED BY <1>1, LeastElement
<1> DEFINE m == Min(C)
<1>3. m \in 1..N /\ m \notin T
  BY <1>2
<1>4. m - 1 \in T
  <2>1. m - 1 \notin C
    BY <1>2, <1>3
  <2> HIDE DEF m
  <2> QED BY <1>3, <2>1
<1> HIDE DEF m
<1>5. m - 1 \in 0..(N - 1) /\ (m - 1) + 1 = m
  BY <1>3
<1> QED BY <1>3, <1>4, <1>5

\* The function that FlattenSeq computes: what the first i sequences hold,
Flattens(f, in) ==
  f = [i \in 1..Len(in) |-> IF i = 1 THEN in[i] ELSE f[i - 1] \o in[i]]
\* there is one,
LEMMA FlattensExists ==
  ASSUME NEW S, NEW in \in Seq(Seq(S))
  PROVE  \E f : Flattens(f, in)
<1> DEFINE Up(f, n) == f = [i \in 1..n |-> IF i = 1 THEN in[i] ELSE f[i - 1] \o in[i]]
           N == Len(in)
           T == {n \in 0..N : \E f : Up(f, n)}
<1>0. N \in Nat
  OBVIOUS
<1>1. 0 \in T
  <2>1. Up([i \in 1..0 |-> i], 0)
    OBVIOUS
  <2>2. 0 \in 0..N
    BY <1>0
  <2> HIDE DEF Up, N
  <2> QED BY <2>1, <2>2
<1>2. ASSUME NEW n \in 0..(N - 1), n \in T PROVE n + 1 \in T
  <2>1. PICK f : Up(f, n)
    BY <1>2
  <2> DEFINE g == [i \in 1..(n + 1) |-> IF i <= n THEN f[i]
                                        ELSE IF i = 1 THEN in[i] ELSE f[n] \o in[i]]
  <2>2. ASSUME NEW i \in 1..(n + 1)
        PROVE  g[i] = IF i = 1 THEN in[i] ELSE g[i - 1] \o in[i]
    <3>1. CASE i <= n
      <4>0. i \in 1..n
        BY <1>0, <3>1
      <4>1. f[i] = IF i = 1 THEN in[i] ELSE f[i - 1] \o in[i]
        BY <2>1, <4>0
      <4>2. i # 1 => g[i - 1] = f[i - 1]
        BY <3>1
      <4> QED BY <3>1, <4>1, <4>2
    <3>2. CASE i = n + 1
      <4>1. i # 1 => n \in 1..(n + 1) /\ i - 1 = n
        BY <3>2
      <4>2. i # 1 => g[i - 1] = f[n]
        BY <4>1
      <4> QED BY <3>2, <4>2
    <3> QED BY <3>1, <3>2
  <2>3. Up(g, n + 1)
    <3>1. g = [i \in 1..(n + 1) |-> g[i]]
      OBVIOUS
    <3> HIDE DEF g
    <3> QED BY <2>2, <3>1
  <2>4. n + 1 \in 0..N
    BY <1>0
  <2> HIDE DEF g, Up
  <2> QED BY <2>3, <2>4
<1>3. N \in T
  <2> HIDE DEF T
  <2>1. 0..N \subseteq T
    BY <1>0, <1>1, <1>2, UpTo
  <2> QED BY <1>0, <2>1
<1> QED BY <1>3 DEF Flattens
\* and two of them agree as long as the sequences do.
LEMMA FlattensAgree ==
  ASSUME NEW S, NEW in \in Seq(Seq(S)), NEW other \in Seq(Seq(S)), NEW f, NEW g,
         Flattens(f, in), Flattens(g, other),
         NEW k \in Nat, k <= Len(in), k <= Len(other),
         \A i \in 1..k : in[i] = other[i]
  PROVE  \A i \in 1..k : f[i] = g[i] /\ f[i] \in Seq(S)
<1> DEFINE Good(n) == n = 0 \/ (f[n] = g[n] /\ f[n] \in Seq(S))
           T == {n \in 0..k : Good(n)}
<1>1. 0 \in T
  OBVIOUS
<1>2. ASSUME NEW n \in 0..(k - 1), n \in T PROVE n + 1 \in T
  <2>1. /\ f[n + 1] = IF n + 1 = 1 THEN in[n + 1] ELSE f[n] \o in[n + 1]
        /\ g[n + 1] = IF n + 1 = 1 THEN other[n + 1] ELSE g[n] \o other[n + 1]
    <3>1. /\ n + 1 \in 1..Len(in) /\ n + 1 \in 1..Len(other) /\ (n + 1) - 1 = n
      OBVIOUS
    <3> QED BY <3>1 DEF Flattens
  <2>2. in[n + 1] = other[n + 1] /\ in[n + 1] \in Seq(S)
    OBVIOUS
  <2>3. n # 0 => f[n] = g[n] /\ f[n] \in Seq(S)
    BY <1>2
  <2>4. Good(n + 1)
    BY <2>1, <2>2, <2>3, ConcatProperties
  <2> QED BY <2>4
<1>3. 0..k \subseteq T
  <2> HIDE DEF T
  <2> QED BY <1>1, <1>2, UpTo
<1> QED BY <1>3

\* Buffer by buffer, the chain's bytes are those of the first buffers.
LEMMA FirstSteps ==
  ASSUME NEW S, NEW in \in Seq(Seq(S))
  PROVE  /\ First(in, 0) = <<>>
         /\ First(in, Len(in)) = FlattenSeq(in)
         /\ \A k \in 0..Len(in) : First(in, k) \in Seq(S)
         /\ \A k \in 1..Len(in) : First(in, k) = First(in, k - 1) \o in[k]
<1>1. PICK f : Flattens(f, in)
  BY FlattensExists
<1>2. ASSUME NEW k \in 1..Len(in)
      PROVE  First(in, k) = f[k] /\ f[k] \in Seq(S)
  <2> DEFINE some == SubSeq(in, 1, k)
  <2>1. /\ some \in Seq(Seq(S)) /\ Len(some) = k /\ k \in Nat /\ k <= Len(in)
        /\ \A i \in 1..k : in[i] = some[i]
    OBVIOUS
  <2>2. \E g : Flattens(g, some)
    BY <2>1, FlattensExists
  <2>3. FlattenSeq(some) = (CHOOSE h : Flattens(h, some))[k]
    BY <2>1 DEF FlattenSeq, Flattens
  <2>4. Flattens(CHOOSE h : Flattens(h, some), some)
    BY <2>2
  <2> HIDE DEF some
  <2> DEFINE g == CHOOSE h : Flattens(h, some)
  <2>5. \A i \in 1..k : f[i] = g[i] /\ f[i] \in Seq(S)
    <3>1. Flattens(g, some) /\ k <= Len(some)
      BY <2>1, <2>4
    <3> HIDE DEF g
    <3> QED BY <1>1, <2>1, <3>1, FlattensAgree
  <2> QED BY <2>3, <2>5 DEF First, some
<1>3. First(in, 0) = <<>>
  BY DEF First, FlattenSeq
<1>4. SubSeq(in, 1, Len(in)) = in
  OBVIOUS
<1>5. ASSUME NEW k \in 1..Len(in) PROVE First(in, k) = First(in, k - 1) \o in[k]
  <2>1. f[k] = IF k = 1 THEN in[k] ELSE f[k - 1] \o in[k]
    BY <1>1 DEF Flattens
  <2>2. CASE k = 1
    BY <1>2, <1>3, <2>1, <2>2, ConcatEmptySeq
  <2>3. CASE k # 1
    <3>1. First(in, k - 1) = f[k - 1]
      BY <1>2, <2>3
    <3> QED BY <1>2, <2>1, <2>3, <3>1
  <2> QED BY <2>2, <2>3
<1>6. ASSUME NEW k \in 0..Len(in) PROVE First(in, k) \in Seq(S)
  <2>1. CASE k = 0
    BY <1>3, <2>1, EmptySeq
  <2>2. CASE k # 0
    BY <1>2, <2>2
  <2> QED BY <2>1, <2>2
<1>7. First(in, Len(in)) = FlattenSeq(in)
  BY <1>4 DEF First
<1> QED BY <1>3, <1>5, <1>6, <1>7
\* So a chain's bytes are a sequence,
LEMMA FlatType ==
  ASSUME NEW S, NEW in \in Seq(Seq(S))
  PROVE  FlattenSeq(in) \in Seq(S)
<1>1. Len(in) \in 0..Len(in)
  OBVIOUS
<1> QED BY <1>1, FirstSteps
\* those of two chains, one after the other, are theirs one after the other,
LEMMA FlatConcat ==
  ASSUME NEW S, NEW s \in Seq(Seq(S)), NEW t \in Seq(Seq(S))
  PROVE  FlattenSeq(s \o t) = FlattenSeq(s) \o FlattenSeq(t)
<1> DEFINE N == Len(t)
           both == s \o t
           L == Len(s)
           all == FlattenSeq(s)
           T == {n \in 0..N : First(both, L + n) = all \o First(t, n)}
<1>1. /\ both \in Seq(Seq(S)) /\ Len(both) = L + N /\ L \in Nat /\ N \in Nat
      /\ \A i \in 1..N : both[L + i] = t[i]
  BY ConcatProperties
<1>2. First(both, L) = all
  <2>1. SubSeq(both, 1, L) = s
    OBVIOUS
  <2> QED BY <2>1 DEF First
<1>3. all \in Seq(S)
  BY FlatType
<1>4. /\ First(t, 0) = <<>> /\ First(t, N) = FlattenSeq(t)
      /\ \A k \in 0..N : First(t, k) \in Seq(S)
      /\ \A k \in 1..N : First(t, k) = First(t, k - 1) \o t[k]
  BY FirstSteps
<1> HIDE DEF both
<1>5. /\ First(both, Len(both)) = FlattenSeq(both)
      /\ \A k \in 1..Len(both) : First(both, k) = First(both, k - 1) \o both[k]
  BY <1>1, FirstSteps
<1>6. \A k \in 1..N : t[k] \in Seq(S)
  BY ElementOfSeq
<1> HIDE DEF N, L, all
<1>7. 0 \in T
  <2>1. L + 0 = L
    BY <1>1
  <2> QED BY <1>1, <1>2, <1>3, <1>4, <2>1, ConcatEmptySeq
<1>8. ASSUME NEW n \in 0..(N - 1), n \in T PROVE n + 1 \in T
  <2>1. /\ L + (n + 1) \in 1..Len(both) /\ (L + (n + 1)) - 1 = L + n
        /\ n + 1 \in 1..N /\ (n + 1) - 1 = n /\ n \in 0..N /\ n + 1 \in 0..N
    BY <1>1
  <2>2. First(both, L + (n + 1)) = First(both, L + n) \o t[n + 1]
    BY <1>1, <1>5, <2>1
  <2>3. First(t, n + 1) = First(t, n) \o t[n + 1]
    BY <1>4, <2>1
  <2>4. First(t, n) \in Seq(S) /\ t[n + 1] \in Seq(S)
    BY <1>4, <1>6, <2>1
  <2>5. First(both, L + n) = all \o First(t, n)
    BY <1>8
  <2>6. (all \o First(t, n)) \o t[n + 1] = all \o (First(t, n) \o t[n + 1])
    <3>1. \A a, b, c \in Seq(S) : (a \o b) \o c = a \o (b \o c)
      BY ConcatAssociative
    <3> QED BY <1>3, <2>4, <3>1
  <2> QED BY <2>1, <2>2, <2>3, <2>5, <2>6
<1>9. N \in T
  <2> HIDE DEF T
  <2>1. 0..N \subseteq T
    BY <1>1, <1>7, <1>8, UpTo
  <2> QED BY <1>1, <2>1
<1> QED BY <1>1, <1>4, <1>5, <1>9 DEF both, all
\* and a single buffer's are its own.
LEMMA FlatOne ==
  ASSUME NEW S, NEW bytes \in Seq(S)
  PROVE  FlattenSeq(<<bytes>>) = bytes
<1> DEFINE in == <<bytes>>
<1>1. in \in Seq(Seq(S)) /\ Len(in) = 1 /\ in[1] = bytes
  OBVIOUS
<1> HIDE DEF in
<1>2. First(in, 1) = First(in, 0) \o in[1] /\ First(in, 0) = <<>>
      /\ First(in, 1) = FlattenSeq(in)
  <2>1. 1 \in 1..Len(in) /\ 1 - 1 = 0
    BY <1>1
  <2> QED BY <1>1, <2>1, FirstSteps
<1> QED BY <1>1, <1>2, ConcatEmptySeq DEF in

\* A chain is tight if it ends where its bytes do: a reader that is not at
\* NULL has something to read.
Bytes == Seq(Nat)
Chains == Seq(Bytes)
Tight(in) == in \in Chains /\ (FlattenSeq(in) = <<>> => in = <<>>)

\* Bytes before others, and a part of them.
LEMMA Parts ==
  ASSUME NEW read \in Bytes, NEW more \in Bytes, NEW n \in 0..Len(read)
  PROVE  /\ SubSeq(read \o more, 1, n) = SubSeq(read, 1, n)
         /\ SubSeq(read \o more, n + 1, Len(read \o more))
              = SubSeq(read, n + 1, Len(read)) \o more
         /\ Len(read \o more) = Len(read) + Len(more)
         /\ SubSeq(read, 1, n) \in Bytes /\ Len(SubSeq(read, 1, n)) = n
         /\ SubSeq(read, n + 1, Len(read)) \in Bytes
         /\ Len(SubSeq(read, n + 1, Len(read))) = Len(read) - n
<1> DEFINE both == read \o more
           L == Len(read)
           M == Len(more)
<1>1. /\ read \in Seq(Nat) /\ more \in Seq(Nat) /\ both \in Seq(Nat)
      /\ L \in Nat /\ M \in Nat /\ Len(both) = L + M
      /\ \A i \in 1..(L + M) : both[i] = IF i <= L THEN read[i] ELSE more[i - L]
  BY ConcatProperties DEF Bytes
<1>0. n \in Nat /\ n <= L
  OBVIOUS
<1> DEFINE a == SubSeq(both, 1, n)
           b == SubSeq(read, 1, n)
           c == SubSeq(both, n + 1, L + M)
           d == SubSeq(read, n + 1, L)
<1>2. a \in Seq(Nat) /\ Len(a) = n /\ \A i \in 1..n : a[i] = both[i]
  <2> HIDE DEF both
  <2> QED BY <1>1
<1>3. b \in Seq(Nat) /\ Len(b) = n /\ \A i \in 1..n : b[i] = read[i]
  BY <1>1
<1>4. /\ c \in Seq(Nat) /\ Len(c) = (L + M) - n
      /\ \A i \in 1..((L + M) - n) : c[i] = both[n + i]
  <2> DEFINE K == L + M
  <2>1. /\ n + 1 \in Int /\ K \in Int /\ n <= K
        /\ \A i \in (n + 1)..K : both[i] \in Nat
    <3> HIDE DEF both
    <3>1. \A i \in 1..(L + M) : both[i] \in Nat
      BY <1>1
    <3> HIDE DEF L, M
    <3> QED BY <1>0, <1>1, <3>1
  <2> HIDE DEF both, K
  <2>2. /\ SubSeq(both, n + 1, K) \in Seq(Nat)
        /\ Len(SubSeq(both, n + 1, K)) = IF n + 1 <= K THEN K - (n + 1) + 1 ELSE 0
        /\ \A i \in 1..(K - (n + 1) + 1) : SubSeq(both, n + 1, K)[i] = both[(n + 1) + i - 1]
    BY <2>1, SubSeqProperties
  <2>3. K - (n + 1) + 1 = K - n /\ \A i \in Int : (n + 1) + i - 1 = n + i
    BY <1>0, <2>1
  <2>4. n + 1 > K => K - n = 0
    BY <1>0, <2>1
  <2> QED BY <1>0, <2>1, <2>2, <2>3, <2>4 DEF K
<1>5. d \in Seq(Nat) /\ Len(d) = L - n /\ \A i \in 1..(L - n) : d[i] = read[n + i]
  BY <1>1
<1> HIDE DEF both, a, b, c, d, L, M
<1>6. a = b
  <2>1. ASSUME NEW i \in 1..n PROVE a[i] = b[i]
    <3>1. L \in Nat /\ M \in Nat
      BY <1>1
    <3>2. i \in 1..(L + M) /\ i <= L
      BY <1>0, <3>1
    <3>3. both[i] = read[i]
      BY <1>1, <3>2
    <3> QED BY <1>2, <1>3, <3>3
  <2> QED BY <1>2, <1>3, <2>1, SeqEqual
<1>7. c = d \o more
  <2>1. /\ d \o more \in Seq(Nat) /\ Len(d \o more) = (L - n) + M
        /\ \A i \in 1..((L - n) + M) :
             (d \o more)[i] = IF i <= L - n THEN d[i] ELSE more[i - (L - n)]
    <3>1. \A x, y \in Seq(Nat) :
            /\ x \o y \in Seq(Nat) /\ Len(x \o y) = Len(x) + Len(y)
            /\ \A i \in 1..(Len(x) + Len(y)) :
                 (x \o y)[i] = IF i <= Len(x) THEN x[i] ELSE y[i - Len(x)]
      BY ConcatProperties
    <3>2. Len(more) = M
      BY DEF M
    <3>3. d \in Seq(Nat) /\ more \in Seq(Nat) /\ Len(d) = L - n
      BY <1>1, <1>5
    <3>4. /\ d \o more \in Seq(Nat) /\ Len(d \o more) = Len(d) + Len(more)
          /\ \A i \in 1..(Len(d) + Len(more)) :
               (d \o more)[i] = IF i <= Len(d) THEN d[i] ELSE more[i - Len(d)]
      BY <3>1, <3>3
    <3> QED BY Zenon, <3>2, <3>3, <3>4
  <2> DEFINE e == d \o more
  <2> HIDE DEF e
  <2>2. ASSUME NEW i \in 1..((L + M) - n) PROVE c[i] = e[i]
    <3>1. /\ n + i \in 1..(L + M) /\ i \in 1..((L - n) + M)
          /\ (n + i <= L <=> i <= L - n) /\ (n + i) - L = i - (L - n)
          /\ (i <= L - n => i \in 1..(L - n))
      BY <1>0, <1>1
    <3>2. c[i] = IF n + i <= L THEN read[n + i] ELSE more[(n + i) - L]
      BY <1>1, <1>4, <3>1
    <3>3. e[i] = IF i <= L - n THEN d[i] ELSE more[i - (L - n)]
      BY <2>1, <3>1 DEF e
    <3> QED BY <1>5, <3>1, <3>2, <3>3
  <2>3. Len(c) = Len(e) /\ e \in Seq(Nat)
    BY <1>0, <1>1, <1>4, <2>1 DEF e
  <2>4. Len(c) = (L + M) - n
    BY <1>4
  <2> QED BY <1>4, <2>2, <2>3, <2>4, SeqEqual DEF e
<1> QED BY <1>1, <1>2, <1>3, <1>4, <1>5, <1>6, <1>7 DEF Bytes, both, a, b, c, d, L, M

\* The first buffers of a chain, and the others.
LEMMA Halves ==
  ASSUME NEW in \in Chains, NEW k \in 0..Len(in)
  PROVE  /\ SubSeq(in, 1, k) \in Chains /\ SubSeq(in, k + 1, Len(in)) \in Chains
         /\ FlattenSeq(in) = First(in, k) \o FlattenSeq(SubSeq(in, k + 1, Len(in)))
         /\ First(in, k) \in Bytes /\ FlattenSeq(SubSeq(in, k + 1, Len(in))) \in Bytes
<1> DEFINE before == SubSeq(in, 1, k)
           behind == SubSeq(in, k + 1, Len(in))
<1>1. before \in Chains /\ behind \in Chains
  BY DEF Chains
<1>2. in = before \o behind
  <2>1. in \in Seq(Bytes)
    BY DEF Chains
  <2>2. Len(in) \in Nat /\ 1 \in 1..(Len(in) + 1) /\ k \in (1 - 1)..Len(in)
        /\ Len(in) \in k..Len(in)
    BY <2>1
  <2>3. before \o behind = SubSeq(in, 1, Len(in))
    BY <2>1, <2>2, ConcatAdjacentSubSeq
  <2> QED BY <2>1, <2>3, SubSeqFull
<1>3. before \in Seq(Seq(Nat)) /\ behind \in Seq(Seq(Nat))
  BY <1>1 DEF Chains, Bytes
<1> HIDE DEF before, behind
<1>4. FlattenSeq(before \o behind) = FlattenSeq(before) \o FlattenSeq(behind)
  BY <1>3, FlatConcat
<1>5. FlattenSeq(before) \in Bytes /\ FlattenSeq(behind) \in Bytes
  BY <1>3, FlatType DEF Bytes
<1> QED BY <1>1, <1>2, <1>4, <1>5 DEF First, before, behind

\* A buffer and the others.
LEMMA FlatCons ==
  ASSUME NEW bytes \in Bytes, NEW more \in Chains
  PROVE  /\ <<bytes>> \o more \in Chains
         /\ FlattenSeq(<<bytes>> \o more) = bytes \o FlattenSeq(more)
         /\ FlattenSeq(more) \in Bytes
<1>1. <<bytes>> \in Seq(Seq(Nat)) /\ more \in Seq(Seq(Nat))
  BY DEF Bytes, Chains
<1>2. FlattenSeq(<<bytes>> \o more) = FlattenSeq(<<bytes>>) \o FlattenSeq(more)
  BY <1>1, FlatConcat
<1>3. FlattenSeq(<<bytes>>) = bytes
  BY FlatOne DEF Bytes
<1>4. <<bytes>> \o more \in Chains
  BY <1>1, ConcatProperties DEF Bytes, Chains
<1> QED BY <1>1, <1>2, <1>3, <1>4, FlatType DEF Bytes

\* What is left behind is nothing, and what is left is tight.
LEMMA SkipTight ==
  ASSUME NEW in \in Chains
  PROVE  Tight(Skip(in)) /\ FlattenSeq(Skip(in)) = FlattenSeq(in)
<1> DEFINE left == {k \in DOMAIN in : in[k] # <<>>}
           N == Len(in)
<1>1. N \in Nat /\ DOMAIN in = 1..N /\ in \in Seq(Seq(Nat))
      /\ \A k \in 1..N : in[k] \in Bytes
  BY DEF Chains, Bytes
<1>2. /\ First(in, 0) = <<>> /\ First(in, N) = FlattenSeq(in)
      /\ \A k \in 1..N : First(in, k) = First(in, k - 1) \o in[k]
  BY <1>1, FirstSteps
<1> HIDE DEF N
<1>3. ASSUME NEW m \in 0..N, \A k \in 1..m : in[k] = <<>>
      PROVE  First(in, m) = <<>>
  <2> DEFINE T == {k \in 0..m : First(in, k) = <<>>}
  <2>1. 0 \in T
    BY <1>1, <1>2
  <2>2. ASSUME NEW k \in 0..(m - 1), k \in T PROVE k + 1 \in T
    <3>1. k + 1 \in 1..N /\ (k + 1) - 1 = k /\ k + 1 \in 1..m
      BY <1>1
    <3>2. First(in, k + 1) = <<>> \o <<>>
      BY <1>2, <1>3, <2>2, <3>1
    <3> QED BY <3>1, <3>2
  <2>3. m \in T
    <3> HIDE DEF T
    <3>1. m \in Nat /\ m \in 0..m
      BY <1>1
    <3>2. 0..m \subseteq T
      BY <2>1, <2>2, <3>1, UpTo
    <3> QED BY <3>1, <3>2
  <2> QED BY <2>3
<1>4. CASE left = {}
  <2>1. \A k \in 1..N : in[k] = <<>>
    BY <1>1, <1>4
  <2>2. N \in 0..N
    BY <1>1
  <2>3. FlattenSeq(in) = <<>>
    BY <1>2, <1>3, <2>1, <2>2
  <2>4. Skip(in) = <<>> /\ FlattenSeq(<<>>) = <<>>
    BY <1>4 DEF Skip, FlattenSeq
  <2> QED BY <2>3, <2>4 DEF Tight, Chains
<1>5. CASE left # {}
  <2> DEFINE m == Min(left)
  <2>1. m \in left /\ \A other \in left : m <= other
    <3>1. left \subseteq Nat
      BY <1>1
    <3> HIDE DEF left
    <3> QED BY <1>5, <3>1, LeastElement
  <2> HIDE DEF m
  <2>2. m \in 1..N /\ in[m] # <<>> /\ \A k \in 1..(m - 1) : in[k] = <<>>
    <3>1. ASSUME NEW k \in 1..(m - 1), in[k] # <<>> PROVE FALSE
      <4>1. k \in left
        BY <1>1, <2>1, <3>1
      <4>2. m <= k
        BY <2>1, <4>1
      <4> QED BY <1>1, <2>1, <4>2
    <3> QED BY <1>1, <2>1, <3>1
  <2> DEFINE rest == SubSeq(in, m, N)
             more == SubSeq(in, m + 1, N)
  <2>3. Skip(in) = rest
    BY <1>5 DEF Skip, m, N
  <2>4. rest = <<in[m]>> \o more /\ more \in Chains
    <3>1. m \in 1..Len(in) /\ Len(in) \in m..Len(in) /\ in \in Seq(Bytes)
      BY <1>1, <2>2 DEF N, Chains
    <3>2. rest = <<in[m]>> \o more
      BY <3>1, SubSeqRecursiveFirst DEF N
    <3>3. more \in Chains
      BY <3>1 DEF N, Chains
    <3> QED BY <3>2, <3>3
  <2>5. First(in, m - 1) = <<>>
    BY <1>1, <1>3, <2>2
  <2>6. FlattenSeq(in) = First(in, m - 1) \o FlattenSeq(rest)
        /\ rest \in Chains /\ FlattenSeq(rest) \in Bytes
    <3>1. m - 1 \in 0..Len(in) /\ (m - 1) + 1 = m
      BY <1>1, <2>2 DEF N
    <3> QED BY <3>1, Halves DEF N
  <2>7. FlattenSeq(rest) = in[m] \o FlattenSeq(more) /\ FlattenSeq(more) \in Bytes
    BY <1>1, <2>2, <2>4, FlatCons
  <2> HIDE DEF rest, more
  <2>8. FlattenSeq(rest) # <<>>
    <3>1. in[m] \in Seq(Nat) /\ FlattenSeq(more) \in Seq(Nat)
      BY <1>1, <2>2, <2>7 DEF Bytes
    <3> QED BY <2>2, <2>7, <3>1, ConcatEqualIffEmpty
  <2>9. FlattenSeq(in) = FlattenSeq(rest)
    BY <2>5, <2>6, ConcatEmptySeq DEF Bytes
  <2> QED BY <2>3, <2>6, <2>8, <2>9 DEF Tight
<1> QED BY <1>4, <1>5

\* ngx_custom_copy, said of the bytes alone: it yields the next n if there are
\* so many, and leaves a tight chain with the others.
Copied(in, n, copy) ==
  /\ copy.ok \in BOOLEAN /\ copy.bytes \in Bytes /\ Tight(copy.in)
  /\ copy.ok <=> in # <<>> /\ n <= Len(FlattenSeq(in))
  /\ copy.ok => /\ copy.bytes = SubSeq(FlattenSeq(in), 1, n) /\ Len(copy.bytes) = n
                /\ FlattenSeq(copy.in)
                     = SubSeq(FlattenSeq(in), n + 1, Len(FlattenSeq(in)))
                /\ Len(FlattenSeq(copy.in)) = Len(FlattenSeq(in)) - n
  /\ ~copy.ok => copy = Failed
\* It does so whichever buffers the bytes are in.
LEMMA CopySpec ==
  ASSUME NEW in \in Chains, NEW n \in Nat
  PROVE  Copied(in, n, Copy(in, n)) /\ Len(FlattenSeq(in)) \in Nat
<1> DEFINE all  == FlattenSeq(in)
           N    == Len(in)
           some == Enough(in, n)
           last == Min(some)
           read == First(in, last)
           more == SubSeq(in, last + 1, N)
           end  == FlattenSeq(more)
           left == SubSeq(read, n + 1, Len(read))
           copy == Copy(in, n)
<1>1. N \in Nat /\ DOMAIN in = 1..N /\ (in = <<>> <=> N = 0) /\ in \in Seq(Seq(Nat))
  BY DEF Chains, Bytes
<1>2. all \in Bytes /\ Len(all) \in Nat
  BY <1>1, FlatType DEF Bytes
<1>3. some = {k \in 1..N : Len(First(in, k)) >= n}
  BY <1>1 DEF Enough
<1>4. CASE some = {}
  <2>1. copy = Failed
    BY <1>4 DEF Copy
  <2>2. ~(in # <<>> /\ n <= Len(all))
    <3> SUFFICES ASSUME N # 0, n <= Len(all) PROVE FALSE
      BY <1>1
    <3>1. First(in, N) = all
      BY <1>1, FirstSteps
    <3>2. N \in 1..N
      BY <1>1
    <3>3. N \in some
      BY <1>2, <1>3, <3>1, <3>2
    <3> QED BY <1>4, <3>3
  <2>3. Tight(<<>>) /\ <<>> \in Bytes
    BY DEF Tight, Chains, Bytes
  <2> HIDE DEF copy, all
  <2>4. copy.ok = FALSE /\ copy.bytes = <<>> /\ copy.in = <<>>
    BY <2>1 DEF Failed
  <2> QED BY <1>2, <2>1, <2>2, <2>3, <2>4 DEF Copied, copy, all
<1>5. CASE some # {}
  <2>1. last \in some
    <3>1. some \subseteq Nat
      BY <1>1, <1>3
    <3> HIDE DEF some
    <3> QED BY <1>5, <3>1, LeastElement
  <2>2. last \in 1..N /\ Len(read) >= n
    BY <1>3, <2>1
  <2>3. /\ all = read \o end /\ read \in Bytes /\ end \in Bytes /\ more \in Chains
    <3>1. last \in 0..Len(in)
      BY <2>2
    <3> HIDE DEF last
    <3> QED BY <3>1, Halves
  <2>4. copy = [ok |-> TRUE, bytes |-> SubSeq(read, 1, n),
                in |-> Skip(<<left>> \o more)]
    BY <1>5 DEF Copy
  <2> HIDE DEF some, last, read, more, end
  <2>5. n \in 0..Len(read)
    BY <2>2, <2>3 DEF Bytes
  <2>6. /\ SubSeq(all, 1, n) = SubSeq(read, 1, n)
        /\ SubSeq(all, n + 1, Len(all)) = left \o end
        /\ Len(all) = Len(read) + Len(end)
        /\ SubSeq(read, 1, n) \in Bytes /\ Len(SubSeq(read, 1, n)) = n
        /\ left \in Bytes /\ Len(left) = Len(read) - n
    <3> HIDE DEF all
    <3> QED BY <2>3, <2>5, Parts
  <2> HIDE DEF left
  <2>7. <<left>> \o more \in Chains /\ FlattenSeq(<<left>> \o more) = left \o end
    BY <2>3, <2>6, FlatCons DEF end
  <2>8. Tight(copy.in) /\ FlattenSeq(copy.in) = left \o end
    BY <2>4, <2>7, SkipTight
  <2>9. Len(left \o end) = Len(all) - n /\ n <= Len(all)
    <3>1. Len(left) \in Nat /\ Len(end) \in Nat /\ Len(read) \in Nat
          /\ Len(left \o end) = Len(left) + Len(end)
      BY <2>3, <2>6 DEF Bytes
    <3> QED BY <2>2, <2>6, <3>1
  <2>10. in # <<>>
    BY <1>1, <2>2
  <2>11. copy.ok = TRUE /\ copy.bytes = SubSeq(read, 1, n)
    BY <2>4
  <2> HIDE DEF copy, all
  <2>12. Copied(in, n, copy)
    BY <2>6, <2>8, <2>9, <2>10, <2>11 DEF Copied, all
  <2> QED BY <1>2, <2>12 DEF copy, all
<1> QED BY <1>4, <1>5

\* A function that a recursion over the first N numbers computes exists,
Iteration(f, S, G, x, N) ==
  f \in [0..N -> S] /\ f = [k \in 0..N |-> IF k = 0 THEN x ELSE G[f[k - 1]]]
\* It is built up one number after the other,
LEMMA IterationExists ==
  ASSUME NEW S, NEW x \in S, NEW G \in [S -> S], NEW N \in Nat
  PROVE  \E f : Iteration(f, S, G, x, N)
<1> DEFINE Up(f, n) == f = [k \in 0..n |-> IF k = 0 THEN x ELSE G[f[k - 1]]]
           T == {n \in 0..N : \E f \in [0..n -> S] : Up(f, n)}
<1>1. 0 \in T
  <2> DEFINE f == [k \in 0..0 |-> x]
  <2>1. f \in [0..0 -> S] /\ Up(f, 0)
    <3>1. f = [k \in 0..0 |-> IF k = 0 THEN x ELSE G[f[k - 1]]]
      OBVIOUS
    <3> QED BY <3>1
  <2> HIDE DEF f, Up
  <2> QED BY <2>1
<1>2. ASSUME NEW n \in 0..(N - 1), n \in T PROVE n + 1 \in T
  <2>1. PICK f \in [0..n -> S] : Up(f, n)
    BY <1>2
  <2> DEFINE g == [k \in 0..(n + 1) |-> IF k = n + 1 THEN G[f[n]] ELSE f[k]]
  <2>2. f[n] \in S /\ \A k \in 0..n : f[k] \in S
    OBVIOUS
  <2>3. g \in [0..(n + 1) -> S]
    BY <2>2
  <2>4. ASSUME NEW k \in 0..(n + 1)
        PROVE  g[k] = IF k = 0 THEN x ELSE G[g[k - 1]]
    <3>1. CASE k = n + 1
      <4>1. k - 1 = n /\ n \in 0..(n + 1) /\ n # n + 1 /\ k # 0
        BY <3>1
      <4> QED BY <3>1, <4>1
    <3>2. CASE k # n + 1
      <4>1. k \in 0..n
        BY <3>2
      <4>2. f[k] = IF k = 0 THEN x ELSE G[f[k - 1]]
        BY <2>1, <4>1
      <4>3. k # 0 => k - 1 \in 0..(n + 1) /\ k - 1 # n + 1
        BY <4>1
      <4> QED BY <3>2, <4>2, <4>3
    <3> QED BY <3>1, <3>2
  <2>5. g = [k \in 0..(n + 1) |-> g[k]]
    OBVIOUS
  <2> HIDE DEF g
  <2>6. Up(g, n + 1)
    BY <2>4, <2>5
  <2>7. n + 1 \in 0..N
    OBVIOUS
  <2> HIDE DEF Up
  <2> QED BY <2>3, <2>6, <2>7
<1>3. N \in T
  <2> HIDE DEF T
  <2>1. 0..N \subseteq T
    BY <1>1, <1>2, UpTo
  <2> QED BY <2>1
<1> QED BY <1>3 DEF Iteration
\* and has its values where each step has its own.
LEMMA IterationType ==
  ASSUME NEW S, NEW x \in S, NEW G \in [S -> S], NEW N \in Nat, NEW f,
         f[0] = x, \A k \in 1..N : f[k - 1] \in S => f[k] = G[f[k - 1]]
  PROVE  \A k \in 0..N : f[k] \in S
<1> DEFINE T == {k \in 0..N : f[k] \in S}
<1>1. 0 \in T
  OBVIOUS
<1>2. ASSUME NEW n \in 0..(N - 1), n \in T PROVE n + 1 \in T
  <2>1. n + 1 \in 1..N /\ (n + 1) - 1 = n /\ n + 1 \in 0..N
    OBVIOUS
  <2>2. f[n + 1] = G[f[n]]
    BY <1>2, <2>1
  <2> QED BY <1>2, <2>1, <2>2
<1>3. 0..N \subseteq T
  <2> HIDE DEF T
  <2> QED BY <1>1, <1>2, UpTo
<1> QED BY <1>3

-----------------------------------------------------------------------------
(* The output.                                                             *)

\* The output is never longer than the static buffer.
Room(out) == out \in Bytes /\ Len(out) <= Capacity

\* A number in network byte order is one.
LEMMA NumberType == ASSUME NEW bytes \in Bytes PROVE Number(bytes) \in Nat
<1> DEFINE place(i) == IF i < Len(bytes) THEN bytes[Len(bytes) - i] ELSE 0
<1>1. ASSUME NEW i \in 0..3 PROVE place(i) \in Nat
  BY DEF Bytes
<1>2. Number(bytes) = place(0) + 256 * place(1) + 65536 * place(2)
                        + 16777216 * place(3)
  BY DEF Number
<1>3. place(0) \in Nat /\ place(1) \in Nat /\ place(2) \in Nat /\ place(3) \in Nat
  BY <1>1
<1> HIDE DEF place
<1> QED BY <1>2, <1>3

\* What is appended to the output and fits in leaves it so,
LEMMA AppendRoom ==
  ASSUME NEW out \in Bytes, NEW more \in Bytes, Fits(out, Len(more))
  PROVE  Room(out \o more)
BY AnnexBAssumption, ConcatProperties DEF Room, Bytes, Fits
\* the delimiter too,
LEMMA AudRoom == ASSUME NEW out, Room(out) PROVE Room(AppendAud(out))
<1>1. Aud \in Bytes
  BY DEF Aud, Bytes
<1> QED BY <1>1, AppendRoom DEF AppendAud, Room

\* States of append_sps_pps.
SetStates == {state \in [ok : BOOLEAN, out : Bytes, in : Chains] :
                Len(state.out) <= Capacity}
\* and a parameter set.
LEMMA SetRoom ==
  ASSUME NEW state \in SetStates PROVE AppendSet(state) \in SetStates
<1> DEFINE length == Copy(state.in, 2)
           size   == Number(length.bytes)
           body   == Copy(length.in, size)
           start  == state.out \o Prefix
<1>1. /\ state \in [ok : BOOLEAN, out : Bytes, in : Chains]
      /\ state.ok \in BOOLEAN /\ state.out \in Bytes /\ state.in \in Chains
      /\ Len(state.out) <= Capacity
  BY DEF SetStates
<1>2. length.bytes \in Bytes /\ length.in \in Chains
  BY <1>1, CopySpec DEF Copied, Tight
<1> HIDE DEF length
<1>3. size \in Nat
  BY <1>2, NumberType
<1> HIDE DEF size
<1>4. body.bytes \in Bytes /\ body.in \in Chains /\ (body.ok => Len(body.bytes) = size)
  BY <1>2, <1>3, CopySpec DEF Copied, Tight
<1> HIDE DEF body
<1>5. Prefix \in Bytes /\ Len(Prefix) = 4
  BY DEF Prefix, Bytes
<1>6. start \in Bytes
  BY <1>1, <1>5, ConcatProperties DEF Bytes
<1>7. Fits(state.out, 4) => Len(start) <= Capacity
  BY <1>1, <1>5, AppendRoom DEF Room
<1> HIDE DEF start
<1>8. Fits(start, size) /\ body.ok
        => start \o body.bytes \in Bytes /\ Len(start \o body.bytes) <= Capacity
  BY <1>4, <1>6, AppendRoom DEF Room
<1>9. AppendSet(state) =
        IF ~state.ok THEN state
        ELSE IF ~length.ok \/ ~Fits(state.out, 4) THEN [state EXCEPT !.ok = FALSE]
        ELSE IF ~Fits(start, size) \/ ~body.ok
        THEN [state EXCEPT !.ok = FALSE, !.out = start]
        ELSE [state EXCEPT !.out = start \o body.bytes, !.in = body.in]
  BY DEF AppendSet, length, size, body, start
<1>10. CASE ~state.ok
  BY <1>9, <1>10
<1>11. CASE state.ok /\ (~length.ok \/ ~Fits(state.out, 4))
  <2>1. AppendSet(state) = [state EXCEPT !.ok = FALSE]
    BY <1>9, <1>11
  <2> QED BY <1>1, <2>1 DEF SetStates
<1>12. CASE /\ state.ok /\ ~(~length.ok \/ ~Fits(state.out, 4))
            /\ ~Fits(start, size) \/ ~body.ok
  <2>1. AppendSet(state) = [state EXCEPT !.ok = FALSE, !.out = start]
    BY <1>9, <1>12
  <2> QED BY <1>1, <1>6, <1>7, <1>12, <2>1 DEF SetStates
<1>13. CASE /\ state.ok /\ ~(~length.ok \/ ~Fits(state.out, 4))
            /\ ~(~Fits(start, size) \/ ~body.ok)
  <2>1. AppendSet(state) = [state EXCEPT !.out = start \o body.bytes, !.in = body.in]
    BY <1>9, <1>13
  <2> QED BY <1>1, <1>4, <1>8, <1>13, <2>1 DEF SetStates
<1> QED BY <1>10, <1>11, <1>12, <1>13
\* So do any number of them,
LEMMA SetsRoom ==
  ASSUME NEW out, Room(out), NEW in \in Chains, NEW count \in Nat
  PROVE  AppendSets(out, in, count) \in SetStates
<1> DEFINE first == [ok |-> TRUE, out |-> out, in |-> in]
           G == [state \in SetStates |-> AppendSet(state)]
           Is(f) == f = [k \in 0..count |-> IF k = 0 THEN first
                                            ELSE AppendSet(f[k - 1])]
           after == CHOOSE f : Is(f)
<1>1. first \in SetStates
  BY DEF SetStates, Room
<1>2. G \in [SetStates -> SetStates]
  BY SetRoom
<1>3. \A state \in SetStates : G[state] = AppendSet(state)
  OBVIOUS
<1>4. AppendSets(out, in, count) = after[count]
  BY DEF AppendSets
<1> HIDE DEF first, G
<1>5. \E f : Is(f)
  <2>1. PICK f : Iteration(f, SetStates, G, first, count)
    BY <1>1, <1>2, IterationExists
  <2>2. ASSUME NEW k \in 0..count, k # 0 PROVE G[f[k - 1]] = AppendSet(f[k - 1])
    <3>1. k - 1 \in 0..count
      BY <2>2
    <3> QED BY <1>3, <2>1, <3>1 DEF Iteration
  <2>3. Is(f)
    BY <2>1, <2>2 DEF Iteration
  <2> QED BY <2>3
<1>6. Is(after)
  BY <1>5
<1> HIDE DEF after
<1>7. after[0] = first
  BY <1>6
<1>8. \A k \in 1..count : after[k - 1] \in SetStates => after[k] = G[after[k - 1]]
  BY <1>3, <1>6
<1>9. \A k \in 0..count : after[k] \in SetStates
  BY <1>1, <1>2, <1>7, <1>8, IterationType
<1> QED BY <1>4, <1>9
\* those of a codec's header.
LEMMA SpsPpsRoom ==
  ASSUME NEW out, Room(out), NEW header \in Chains
  PROVE  Room(AppendSpsPps(out, header))
<1> DEFINE skipped  == Copy(header, 10)
           spsCount == Copy(skipped.in, 1)
           spsNumber == Number(spsCount.bytes) % 32
           sps      == AppendSets(out, spsCount.in, spsNumber)
           ppsCount == Copy(sps.in, 1)
           ppsNumber == Number(ppsCount.bytes)
           pps      == AppendSets(sps.out, ppsCount.in, ppsNumber)
<1>1. skipped.in \in Chains
  BY CopySpec DEF Copied, Tight
<1>2. AppendSpsPps(out, header) = IF ~spsCount.ok THEN out
                                  ELSE IF ~sps.ok \/ ~ppsCount.ok THEN sps.out
                                  ELSE pps.out
  BY DEF AppendSpsPps
<1> HIDE DEF skipped
<1>3. spsCount.in \in Chains /\ spsCount.bytes \in Bytes
  BY <1>1, CopySpec DEF Copied, Tight
<1> HIDE DEF spsCount
<1>4. spsNumber \in Nat
  BY <1>3, NumberType
<1> HIDE DEF spsNumber
<1>5. sps \in SetStates
  BY <1>3, <1>4, SetsRoom
<1> HIDE DEF sps
<1>6. Room(sps.out) /\ sps.in \in Chains
  BY <1>5 DEF SetStates, Room
<1>7. ppsCount.in \in Chains /\ ppsCount.bytes \in Bytes
  BY <1>6, CopySpec DEF Copied, Tight
<1> HIDE DEF ppsCount
<1>8. ppsNumber \in Nat
  BY <1>7, NumberType
<1> HIDE DEF ppsNumber
<1>9. pps \in SetStates
  BY <1>6, <1>7, <1>8, SetsRoom
<1> HIDE DEF pps
<1>10. Room(pps.out)
  BY <1>9 DEF SetStates, Room
<1> QED BY <1>2, <1>6, <1>10

\* States of the loop of avcc_to_annexb.
LoopStates ==
  {state \in [ok : BOOLEAN, in : Chains, out : Bytes,
              audSent : BOOLEAN, setsSent : BOOLEAN] :
     Tight(state.in) /\ Len(state.out) <= Capacity}

\* What is inserted before a NAL unit leaves the state one of them.
LEMMA AnnounceType ==
  ASSUME NEW state \in LoopStates, NEW type, NEW header \in Chains
  PROVE  /\ Announce(state, type, header) \in LoopStates
         /\ Announce(state, type, header).in = state.in
         /\ Announce(state, type, header).ok = state.ok
<1> DEFINE audDue  == ~state.audSent /\ type \in {Slice, Idr, Sei}
           setsDue == type = Idr /\ ~state.setsSent
           delimited == IF audDue THEN AppendAud(state.out) ELSE state.out
           out  == IF setsDue THEN AppendSpsPps(delimited, header) ELSE delimited
           aud  == state.audSent \/ audDue
           sets == IF type = Slice THEN FALSE ELSE state.setsSent \/ setsDue
<1>1. /\ state \in [ok : BOOLEAN, in : Chains, out : Bytes,
                    audSent : BOOLEAN, setsSent : BOOLEAN]
      /\ state.audSent \in BOOLEAN /\ state.setsSent \in BOOLEAN
      /\ Tight(state.in) /\ Room(state.out)
  BY DEF LoopStates, Room
<1>2. Room(delimited)
  BY <1>1, AudRoom
<1> HIDE DEF delimited
<1>3. Room(out)
  BY <1>2, SpsPpsRoom
<1>4. aud \in BOOLEAN /\ sets \in BOOLEAN
  BY Zenon, <1>1
<1>5. Announce(state, type, header)
        = [state EXCEPT !.audSent = aud, !.setsSent = sets, !.out = out]
  BY DEF Announce, delimited
<1> HIDE DEF aud, sets, out
<1> QED BY <1>1, <1>3, <1>4, <1>5 DEF LoopStates, Room

\* The bytes of the start code and the NAL unit fit.
LEMMA AppendNalType ==
  ASSUME NEW state \in LoopStates, NEW byte \in Nat,
         NEW body, body.bytes \in Bytes, Tight(body.in), body.ok \in BOOLEAN
  PROVE  /\ AppendNal(state, byte, body) \in LoopStates
         /\ AppendNal(state, byte, body).ok
              => /\ body.ok /\ state.ok
                 /\ AppendNal(state, byte, body).in = body.in
<1> DEFINE code == IF state.out = <<>> THEN Prefix ELSE Tail(Prefix)
           out  == state.out \o code \o <<byte>>
<1>1. /\ state \in [ok : BOOLEAN, in : Chains, out : Bytes,
                    audSent : BOOLEAN, setsSent : BOOLEAN]
      /\ state.out \in Bytes /\ Tight(state.in) /\ Len(state.out) <= Capacity
  BY DEF LoopStates
<1>2. out \in Bytes
  BY <1>1 DEF Bytes, Prefix
<1>3. AppendNal(state, byte, body) =
        IF Fits(state.out, 5) /\ Fits(out, Len(body.bytes) + 1) /\ body.ok
        THEN [state EXCEPT !.in = body.in, !.out = out \o body.bytes]
        ELSE [state EXCEPT !.ok = FALSE]
  BY DEF AppendNal
<1> HIDE DEF out
<1>4. CASE Fits(state.out, 5) /\ Fits(out, Len(body.bytes) + 1) /\ body.ok
  <2>1. Fits(out, Len(body.bytes))
    BY <1>2, <1>4, AnnexBAssumption DEF Fits, Bytes
  <2>2. Room(out \o body.bytes)
    BY <1>2, <2>1, AppendRoom
  <2>3. AppendNal(state, byte, body)
          = [state EXCEPT !.in = body.in, !.out = out \o body.bytes]
    BY <1>3, <1>4
  <2> QED BY <1>1, <1>4, <2>2, <2>3 DEF LoopStates, Room, Tight
<1>5. CASE ~(Fits(state.out, 5) /\ Fits(out, Len(body.bytes) + 1) /\ body.ok)
  <2>1. AppendNal(state, byte, body) = [state EXCEPT !.ok = FALSE]
    BY <1>3, <1>5
  <2> QED BY <1>1, <2>1 DEF LoopStates
<1> QED BY <1>4, <1>5

\* A pass leaves a state of the loop, and goes on only with less to read.
LEMMA PassType ==
  ASSUME NEW state \in LoopStates, NEW header \in Chains
  PROVE  /\ Pass(state, header) \in LoopStates
         /\ Len(FlattenSeq(state.in)) \in Nat /\ Len(FlattenSeq(Pass(state, header).in)) \in Nat
         /\ state.ok /\ state.in # <<>> /\ Pass(state, header).ok
              => Len(FlattenSeq(Pass(state, header).in)) < Len(FlattenSeq(state.in))
<1> DEFINE length == Copy(state.in, NalBytes)
           size   == Number(length.bytes)
           byte   == Copy(length.in, 1)
           value  == Number(byte.bytes)
           type   == NalType(value)
           body   == Copy(byte.in, size - 1)
           L      == Len(FlattenSeq(state.in))
           result == Pass(state, header)
           left   == Len(FlattenSeq(result.in))
<1>1. /\ state \in [ok : BOOLEAN, in : Chains, out : Bytes,
                    audSent : BOOLEAN, setsSent : BOOLEAN]
      /\ Tight(state.in) /\ Len(state.out) <= Capacity /\ state.in \in Chains
      /\ state.ok \in BOOLEAN
  BY DEF LoopStates
<1>2. NalBytes \in Nat /\ NalBytes >= 1
  BY AnnexBAssumption
<1>3. /\ length.bytes \in Bytes /\ length.in \in Chains /\ Tight(length.in)
      /\ length.ok \in BOOLEAN /\ L \in Nat
      /\ length.ok => Len(FlattenSeq(length.in)) = L - NalBytes
      /\ ~length.ok => length.in = <<>>
  BY <1>1, <1>2, CopySpec DEF Copied, Tight, Failed
<1>4. result = IF ~state.ok \/ state.in = <<>> THEN state
               ELSE IF length.ok /\ size = 0 THEN [state EXCEPT !.in = length.in]
               ELSE IF ~byte.ok THEN [state EXCEPT !.ok = FALSE]
               ELSE IF type \in 7..9 THEN [state EXCEPT !.ok = body.ok, !.in = body.in]
               ELSE AppendNal(Announce(state, type, header), value, body)
  BY DEF Pass
<1> HIDE DEF length, result
<1>5. size \in Nat
  BY <1>3, NumberType
<1> HIDE DEF size
<1>6. /\ byte.bytes \in Bytes /\ byte.in \in Chains /\ Tight(byte.in)
      /\ byte.ok \in BOOLEAN /\ Len(FlattenSeq(length.in)) \in Nat
      /\ byte.ok => /\ length.in # <<>>
                    /\ Len(FlattenSeq(byte.in)) = Len(FlattenSeq(length.in)) - 1
  BY <1>3, CopySpec DEF Copied, Tight
<1> HIDE DEF byte
<1>7. value \in Nat
  BY <1>6, NumberType
<1> HIDE DEF value, type
<1>8. CASE ~state.ok \/ state.in = <<>>
  <2>1. result = state
    BY <1>4, <1>8
  <2> QED BY <1>3, <1>8, <2>1 DEF result
<1>9. CASE state.ok /\ state.in # <<>> /\ length.ok /\ size = 0
  <2>1. result = [state EXCEPT !.in = length.in]
    BY <1>4, <1>9
  <2>2. result \in LoopStates /\ result.in = length.in
    BY <1>1, <1>3, <2>1 DEF LoopStates
  <2>3. left = L - NalBytes /\ left \in Nat
    BY <1>3, <1>6, <1>9, <2>2
  <2> QED BY <1>2, <1>3, <2>2, <2>3 DEF result
<1>10. CASE state.ok /\ state.in # <<>> /\ ~(length.ok /\ size = 0) /\ ~byte.ok
  <2>1. result = [state EXCEPT !.ok = FALSE]
    BY <1>4, <1>10
  <2>2. result \in LoopStates /\ result.in = state.in /\ ~result.ok
    BY <1>1, <2>1 DEF LoopStates
  <2> QED BY <1>3, <2>2 DEF result
<1>11. CASE state.ok /\ state.in # <<>> /\ ~(length.ok /\ size = 0) /\ byte.ok
  <2>1. length.ok
    BY <1>3, <1>6, <1>11
  <2>2. size - 1 \in Nat
    BY <1>5, <1>11, <2>1
  <2>3. /\ body.bytes \in Bytes /\ body.in \in Chains /\ Tight(body.in)
        /\ body.ok \in BOOLEAN /\ Len(FlattenSeq(byte.in)) \in Nat
        /\ body.ok => Len(FlattenSeq(body.in)) = Len(FlattenSeq(byte.in)) - (size - 1)
    BY <1>6, <2>2, CopySpec DEF Copied, Tight
  <2>4. Len(FlattenSeq(body.in)) \in Nat
    BY <2>3, CopySpec
  <2> HIDE DEF body
  <2>5. body.ok => Len(FlattenSeq(body.in)) < L
    BY <1>2, <1>3, <1>5, <1>6, <1>11, <2>1, <2>2, <2>3, <2>4
  <2>6. CASE type \in 7..9
    <3>1. result = [state EXCEPT !.ok = body.ok, !.in = body.in]
      BY <1>4, <1>11, <2>6
    <3>2. result \in LoopStates /\ result.in = body.in /\ result.ok = body.ok
      BY <1>1, <2>3, <3>1 DEF LoopStates
    <3> QED BY <1>3, <2>4, <2>5, <3>2 DEF result
  <2>7. CASE type \notin 7..9
    <3> DEFINE before == Announce(state, type, header)
    <3>1. before \in LoopStates /\ before.in = state.in /\ before.ok = state.ok
      BY AnnounceType
    <3>2. result = AppendNal(before, value, body)
      BY <1>4, <1>11, <2>7
    <3> HIDE DEF before
    <3>3. result \in LoopStates /\ (result.ok => body.ok /\ result.in = body.in)
      BY <1>5, <1>7, <2>3, <3>1, <3>2, AppendNalType
    <3>4. left \in Nat
      BY <3>3, CopySpec, <1>2 DEF LoopStates
    <3> QED BY <1>3, <2>5, <3>3, <3>4 DEF result
  <2> QED BY <2>6, <2>7
<1> QED BY <1>1, <1>8, <1>9, <1>10, <1>11

\* The states that the loop goes through are the values of a function.
Run(after, most, state, header) ==
  after = [k \in 0..most |-> IF k = 0 THEN state ELSE Pass(after[k - 1], header)]
\* There is such a function, and Passes is its last value.
LEMMA RunExists ==
  ASSUME NEW state \in LoopStates, NEW header \in Chains
  PROVE  \E after :
           /\ Run(after, Len(FlattenSeq(state.in)), state, header)
           /\ Passes(state, header) = after[Len(FlattenSeq(state.in))]
           /\ \A k \in 0..Len(FlattenSeq(state.in)) : after[k] \in LoopStates
<1> DEFINE most == Len(FlattenSeq(state.in))
           G == [s \in LoopStates |-> Pass(s, header)]
           after == CHOOSE f : Run(f, most, state, header)
<1>1. most \in Nat
  BY PassType
<1>2. G \in [LoopStates -> LoopStates] /\ \A s \in LoopStates : G[s] = Pass(s, header)
  BY PassType
<1>3. Passes(state, header) = after[most]
  BY DEF Passes, Run
<1> HIDE DEF most, G
<1>4. \E f : Run(f, most, state, header)
  <2>1. PICK f : Iteration(f, LoopStates, G, state, most)
    BY <1>1, <1>2, IterationExists
  <2>2. ASSUME NEW k \in 0..most, k # 0 PROVE G[f[k - 1]] = Pass(f[k - 1], header)
    <3>1. k - 1 \in 0..most
      BY <1>1, <2>2
    <3> QED BY <1>2, <2>1, <3>1 DEF Iteration
  <2>3. Run(f, most, state, header)
    BY <2>1, <2>2 DEF Run, Iteration
  <2> QED BY <2>3
<1>5. Run(after, most, state, header)
  BY <1>4
<1> HIDE DEF after
<1>6. after[0] = state /\ \A k \in 1..most : after[k] = Pass(after[k - 1], header)
  BY <1>1, <1>5 DEF Run
<1>7. \A k \in 1..most : after[k - 1] \in LoopStates => after[k] = G[after[k - 1]]
  BY <1>2, <1>6
<1>8. \A k \in 0..most : after[k] \in LoopStates
  BY <1>1, <1>2, <1>6, <1>7, IterationType
<1> QED BY <1>3, <1>5, <1>8 DEF most

\* The loop ends: as many passes as the message has bytes leave nothing to read,
\* or end with a failure.  So Passes is the whole loop.
THEOREM LoopEnds ==
  ASSUME NEW state \in LoopStates, NEW header \in Chains
  PROVE  /\ Passes(state, header) \in LoopStates
         /\ ~Passes(state, header).ok \/ Passes(state, header).in = <<>>
<1> DEFINE most == Len(FlattenSeq(state.in))
<1>1. PICK after : /\ Run(after, most, state, header)
                   /\ Passes(state, header) = after[most]
                   /\ \A k \in 0..most : after[k] \in LoopStates
  BY RunExists
<1>2. most \in Nat
  BY PassType
<1> DEFINE left(k) == Len(FlattenSeq(after[k].in))
           Ended(k) == ~after[k].ok \/ after[k].in = <<>>
           T == {k \in 0..most : Ended(k) \/ left(k) <= most - k}
<1>3. 0 \in T
  <2>1. after[0] = state
    BY <1>1, <1>2 DEF Run
  <2> QED BY <1>2, <2>1
<1> HIDE DEF most
<1>4. ASSUME NEW n \in 0..(most - 1), n \in T PROVE n + 1 \in T
  <2>1. n + 1 \in 0..most /\ n \in 0..most /\ (n + 1) - 1 = n /\ n + 1 # 0
    BY <1>2
  <2>2. after[n + 1] = Pass(after[n], header) /\ after[n] \in LoopStates
    BY <1>1, <2>1 DEF Run
  <2>3. /\ left(n) \in Nat /\ left(n + 1) \in Nat
        /\ after[n].ok /\ after[n].in # <<>> /\ after[n + 1].ok => left(n + 1) < left(n)
    BY <2>2, PassType
  <2>4. CASE Ended(n)
    <3>1. after[n + 1] = after[n]
      BY <2>2, <2>4 DEF Pass
    <3> QED BY <2>1, <2>4, <3>1
  <2>5. CASE ~Ended(n)
    <3>1. left(n) <= most - n
      BY <1>4, <2>5
    <3> HIDE DEF left
    <3>2. Ended(n + 1) \/ left(n + 1) <= most - (n + 1)
      BY <1>2, <2>1, <2>3, <2>5, <3>1
    <3> QED BY <2>1, <3>2
  <2> QED BY <2>4, <2>5
<1>5. most \in T
  <2> HIDE DEF T
  <2>1. 0..most \subseteq T
    BY <1>2, <1>3, <1>4, UpTo
  <2> QED BY <1>2, <2>1
<1>6. after[most] \in LoopStates
  BY <1>1, <1>2
<1>7. CASE ~Ended(most)
  <2>1. left(most) <= most - most
    BY <1>5, <1>7
  <2>2. Tight(after[most].in) /\ after[most].in \in Chains
    BY <1>6 DEF LoopStates
  <2>3. FlattenSeq(after[most].in) = <<>>
    <3>1. FlattenSeq(after[most].in) \in Seq(Nat)
      BY <2>2, FlatType DEF Chains, Bytes
    <3> QED BY <1>2, <2>1, <3>1
  <2> QED BY <1>7, <2>2, <2>3 DEF Tight
<1> QED BY <1>1, <1>6, <1>7

\* What is converted fits in the static buffer.
LEMMA ConversionType ==
  ASSUME NEW in \in Chains, NEW header \in Chains
  PROVE  AvccToAnnexB(in, header) \in LoopStates
<1> DEFINE format == Copy(in, 1)
           htype  == Copy(format.in, 1)
           cts    == Copy(htype.in, 3)
           state  == [ok |-> TRUE, in |-> cts.in, out |-> <<>>,
                      audSent |-> FALSE, setsSent |-> FALSE]
<1>1. format.in \in Chains
  BY CopySpec DEF Copied, Tight
<1>2. AvccToAnnexB(in, header) =
        IF header # <<>> /\ cts.ok /\ htype.bytes = <<1>>
        THEN Passes(state, header) ELSE [state EXCEPT !.ok = FALSE]
  BY DEF AvccToAnnexB
<1> HIDE DEF format
<1>3. htype.in \in Chains
  BY <1>1, CopySpec DEF Copied, Tight
<1> HIDE DEF htype
<1>4. cts.in \in Chains /\ Tight(cts.in)
  BY <1>3, CopySpec DEF Copied, Tight
<1> HIDE DEF cts
<1>5. state \in LoopStates /\ [state EXCEPT !.ok = FALSE] \in LoopStates
  <2>1. <<>> \in Bytes /\ Len(<<>>) <= Capacity
    BY AnnexBAssumption DEF Bytes
  <2>2. state \in LoopStates
    BY <1>4, <2>1 DEF LoopStates
  <2> HIDE DEF state
  <2> QED BY <2>2 DEF LoopStates
<1> HIDE DEF state
<1> QED BY <1>2, <1>5, LoopEnds

-----------------------------------------------------------------------------
(* Two chains with the same bytes.                                         *)

\* Chains that differ only in where the bytes are cut.
Alike(a, b) == Tight(a) /\ Tight(b) /\ FlattenSeq(a) = FlattenSeq(b)
\* What is read of them is the same, and what is left differs only so.
CopiesAlike(c, d) == /\ c.ok <=> d.ok
                     /\ c.bytes = d.bytes /\ Alike(c.in, d.in)
\* ngx_custom_copy cannot tell them apart.
LEMMA CopyAlike ==
  ASSUME NEW a, NEW b, Alike(a, b), NEW n \in Nat
  PROVE  CopiesAlike(Copy(a, n), Copy(b, n))
<1> DEFINE c == Copy(a, n)
           d == Copy(b, n)
<1>1. a \in Chains /\ b \in Chains /\ FlattenSeq(a) = FlattenSeq(b)
      /\ Tight(a) /\ Tight(b)
  BY DEF Alike, Tight
<1>2. Copied(a, n, c) /\ Copied(b, n, d)
  BY <1>1, CopySpec
<1>3. a = <<>> <=> b = <<>>
  <2>1. FlattenSeq(<<>>) = <<>>
    BY DEF FlattenSeq
  <2> QED BY <1>1, <2>1 DEF Tight
<1> HIDE DEF c, d
<1>4. c.ok <=> d.ok
  BY <1>1, <1>2, <1>3 DEF Copied
<1>5. CASE c.ok
  <2>1. /\ c.bytes = SubSeq(FlattenSeq(a), 1, n) /\ d.bytes = SubSeq(FlattenSeq(b), 1, n)
        /\ FlattenSeq(c.in) = SubSeq(FlattenSeq(a), n + 1, Len(FlattenSeq(a)))
        /\ FlattenSeq(d.in) = SubSeq(FlattenSeq(b), n + 1, Len(FlattenSeq(b)))
        /\ Tight(c.in) /\ Tight(d.in)
    BY <1>2, <1>4, <1>5 DEF Copied
  <2>2. c.bytes = d.bytes /\ FlattenSeq(c.in) = FlattenSeq(d.in)
    BY Zenon, <1>1, <2>1
  <2>3. CopiesAlike(c, d)
    BY <1>4, <2>1, <2>2 DEF CopiesAlike, Alike
  <2> QED BY <2>3 DEF c, d
<1>6. CASE ~c.ok
  <2>1. c = Failed /\ d = Failed /\ Tight(c.in)
    BY <1>2, <1>4, <1>6 DEF Copied
  <2>2. CopiesAlike(c, d)
    BY <1>4, <2>1 DEF CopiesAlike, Alike
  <2> QED BY <2>2 DEF c, d
<1> QED BY <1>5, <1>6

\* States of the loop that differ only so.
StatesAlike(s, t) ==
  /\ s \in LoopStates /\ t \in LoopStates /\ Alike(s.in, t.in)
  /\ s.ok = t.ok /\ s.out = t.out
  /\ s.audSent = t.audSent /\ s.setsSent = t.setsSent
\* What is inserted is the same,
LEMMA AnnounceAlike ==
  ASSUME NEW s, NEW t, StatesAlike(s, t), NEW type, NEW header \in Chains
  PROVE  StatesAlike(Announce(s, type, header), Announce(t, type, header))
<1> DEFINE audDue(u)  == ~u.audSent /\ type \in {Slice, Idr, Sei}
           setsDue(u) == type = Idr /\ ~u.setsSent
           delimited(u) == IF audDue(u) THEN AppendAud(u.out) ELSE u.out
           out(u)  == IF setsDue(u) THEN AppendSpsPps(delimited(u), header)
                                    ELSE delimited(u)
           aud(u)  == u.audSent \/ audDue(u)
           sets(u) == IF type = Slice THEN FALSE ELSE u.setsSent \/ setsDue(u)
<1>1. /\ s \in LoopStates /\ t \in LoopStates /\ Alike(s.in, t.in)
      /\ s.ok = t.ok /\ s.out = t.out
      /\ s.audSent = t.audSent /\ s.setsSent = t.setsSent
  BY DEF StatesAlike
<1>2. out(s) = out(t) /\ aud(s) = aud(t) /\ sets(s) = sets(t)
  BY Zenon, <1>1
<1>3. /\ Announce(s, type, header)
           = [s EXCEPT !.audSent = aud(s), !.setsSent = sets(s), !.out = out(s)]
      /\ Announce(t, type, header)
           = [t EXCEPT !.audSent = aud(t), !.setsSent = sets(t), !.out = out(t)]
  BY DEF Announce
<1> HIDE DEF aud, sets, out
<1>4. /\ Announce(s, type, header) \in LoopStates
      /\ Announce(t, type, header) \in LoopStates
  BY <1>1, AnnounceType
<1> QED BY <1>1, <1>2, <1>3, <1>4 DEF StatesAlike, LoopStates
\* so is the NAL unit,
LEMMA AppendNalAlike ==
  ASSUME NEW s, NEW t, StatesAlike(s, t), NEW byte \in Nat, NEW c, NEW d,
         CopiesAlike(c, d), c.bytes \in Bytes, c.ok \in BOOLEAN, d.ok \in BOOLEAN
  PROVE  StatesAlike(AppendNal(s, byte, c), AppendNal(t, byte, d))
<1> DEFINE out(u) == u.out \o (IF u.out = <<>> THEN Prefix ELSE Tail(Prefix)) \o <<byte>>
           Fit(u, e) == Fits(u.out, 5) /\ Fits(out(u), Len(e.bytes) + 1) /\ e.ok
           longer == out(s) \o c.bytes
<1>1. /\ s \in LoopStates /\ t \in LoopStates /\ Alike(s.in, t.in)
      /\ s.ok = t.ok /\ s.out = t.out
      /\ s.audSent = t.audSent /\ s.setsSent = t.setsSent
      /\ (c.ok <=> d.ok) /\ c.bytes = d.bytes /\ Alike(c.in, d.in)
      /\ Tight(c.in) /\ Tight(d.in)
  BY DEF StatesAlike, CopiesAlike, Alike
<1>2. (Fit(s, c) <=> Fit(t, d)) /\ out(t) \o d.bytes = longer
  <2>1. out(s) = out(t) /\ (Fits(s.out, 5) <=> Fits(t.out, 5))
    BY Zenon, <1>1
  <2> HIDE DEF out
  <2>2. Fits(out(s), Len(c.bytes) + 1) <=> Fits(out(t), Len(d.bytes) + 1)
    BY Zenon, <1>1, <2>1
  <2> QED BY Zenon, <1>1, <2>1, <2>2
<1>3. /\ AppendNal(s, byte, c) = IF Fit(s, c) THEN [s EXCEPT !.in = c.in, !.out = longer]
                                 ELSE [s EXCEPT !.ok = FALSE]
      /\ AppendNal(t, byte, d) = IF Fit(t, d)
                                 THEN [t EXCEPT !.in = d.in, !.out = out(t) \o d.bytes]
                                 ELSE [t EXCEPT !.ok = FALSE]
  BY DEF AppendNal
<1>4. AppendNal(s, byte, c) \in LoopStates /\ AppendNal(t, byte, d) \in LoopStates
  <2>1. d.bytes \in Bytes
    BY <1>1
  <2> QED BY <1>1, <2>1, AppendNalType
<1> HIDE DEF Fit, longer, out
<1>5. CASE Fit(s, c)
  <2>1. /\ AppendNal(s, byte, c) = [s EXCEPT !.in = c.in, !.out = longer]
        /\ AppendNal(t, byte, d) = [t EXCEPT !.in = d.in, !.out = longer]
    BY <1>2, <1>3, <1>5
  <2> QED BY <1>1, <1>4, <2>1 DEF StatesAlike, LoopStates
<1>6. CASE ~Fit(s, c)
  <2>1. /\ AppendNal(s, byte, c) = [s EXCEPT !.ok = FALSE]
        /\ AppendNal(t, byte, d) = [t EXCEPT !.ok = FALSE]
    BY <1>2, <1>3, <1>6
  <2> QED BY <1>1, <1>4, <2>1 DEF StatesAlike, LoopStates
<1> QED BY <1>5, <1>6
\* so that a pass cannot tell them apart.
LEMMA PassAlike ==
  ASSUME NEW s, NEW t, StatesAlike(s, t), NEW header \in Chains
  PROVE  StatesAlike(Pass(s, header), Pass(t, header))
<1> DEFINE length(u) == Copy(u.in, NalBytes)
           size(u)   == Number(length(u).bytes)
           byte(u)   == Copy(length(u).in, 1)
           value(u)  == Number(byte(u).bytes)
           type(u)   == NalType(value(u))
           body(u)   == Copy(byte(u).in, size(u) - 1)
           result(u) == Pass(u, header)
           zero(u)   == length(u).ok /\ size(u) = 0
<1>1. /\ s \in LoopStates /\ t \in LoopStates /\ Alike(s.in, t.in)
      /\ s.ok = t.ok /\ s.out = t.out
      /\ s.audSent = t.audSent /\ s.setsSent = t.setsSent
      /\ s.ok \in BOOLEAN
  BY DEF StatesAlike, LoopStates
<1>2. \A u \in LoopStates :
        result(u) = IF ~u.ok \/ u.in = <<>> THEN u
                    ELSE IF zero(u) THEN [u EXCEPT !.in = length(u).in]
                    ELSE IF ~byte(u).ok THEN [u EXCEPT !.ok = FALSE]
                    ELSE IF type(u) \in 7..9
                    THEN [u EXCEPT !.ok = body(u).ok, !.in = body(u).in]
                    ELSE AppendNal(Announce(u, type(u), header), value(u), body(u))
  BY DEF Pass
<1>3. result(s) \in LoopStates /\ result(t) \in LoopStates
  BY <1>1, PassType
<1>4. s.in = <<>> <=> t.in = <<>>
  <2>1. FlattenSeq(<<>>) = <<>>
    BY DEF FlattenSeq
  <2> QED BY <1>1, <2>1 DEF Alike, Tight
<1>5. CopiesAlike(length(s), length(t))
  BY <1>1, CopyAlike, AnnexBAssumption
<1>6. /\ Alike(length(s).in, length(t).in) /\ size(s) = size(t) /\ (zero(s) <=> zero(t))
  BY <1>5 DEF CopiesAlike
<1>7. length(s).bytes \in Bytes /\ length(s).in \in Chains /\ length(t).in \in Chains
      /\ (~length(s).ok => length(s) = Failed)
  BY <1>1, CopySpec, AnnexBAssumption DEF Copied, Alike, Tight
<1>8. size(s) \in Nat
  BY <1>7, NumberType
<1> HIDE DEF size, zero, result
<1>9. CopiesAlike(byte(s), byte(t)) /\ byte(s).bytes \in Bytes
      /\ (byte(s).ok => length(s).in # <<>>)
  <2> HIDE DEF length
  <2>1. CopiesAlike(byte(s), byte(t))
    BY <1>6, CopyAlike
  <2>2. Copied(length(s).in, 1, byte(s))
    BY <1>7, CopySpec
  <2> QED BY <2>1, <2>2 DEF Copied
<1>10. /\ Alike(byte(s).in, byte(t).in) /\ (byte(s).ok <=> byte(t).ok)
       /\ value(s) = value(t) /\ type(s) = type(t)
  BY <1>9 DEF CopiesAlike
<1>11. value(s) \in Nat
  BY <1>9, NumberType
<1>12. byte(s).in \in Chains /\ byte(t).in \in Chains
  BY <1>10 DEF Alike, Tight
<1> HIDE DEF byte, value, type
<1>13. CASE ~s.ok \/ s.in = <<>>
  <2>1. result(s) = s /\ result(t) = t
    BY <1>1, <1>2, <1>4, <1>13
  <2> QED BY <2>1 DEF result
<1>14. CASE s.ok /\ s.in # <<>> /\ zero(s)
  <2>1. /\ result(s) = [s EXCEPT !.in = length(s).in]
        /\ result(t) = [t EXCEPT !.in = length(t).in]
    BY <1>1, <1>2, <1>4, <1>6, <1>14
  <2> HIDE DEF length
  <2>2. StatesAlike(result(s), result(t))
    BY <1>1, <1>3, <1>6, <2>1 DEF StatesAlike, LoopStates
  <2> QED BY <2>2 DEF result
<1>15. CASE s.ok /\ s.in # <<>> /\ ~zero(s) /\ ~byte(s).ok
  <2>1. result(s) = [s EXCEPT !.ok = FALSE] /\ result(t) = [t EXCEPT !.ok = FALSE]
    BY <1>1, <1>2, <1>4, <1>6, <1>10, <1>15
  <2>2. StatesAlike(result(s), result(t))
    BY <1>1, <1>3, <2>1 DEF StatesAlike, LoopStates
  <2> QED BY <2>2 DEF result
<1>16. CASE s.ok /\ s.in # <<>> /\ ~zero(s) /\ byte(s).ok
  <2>1. size(s) - 1 \in Nat
    <3>1. length(s).ok
      BY <1>7, <1>9, <1>16 DEF Failed
    <3>2. size(s) # 0
      BY <1>16, <3>1 DEF zero
    <3> QED BY <1>8, <3>2
  <2>2. CopiesAlike(body(s), body(t))
    BY <1>6, <1>10, <2>1, CopyAlike
  <2>3. Copied(byte(s).in, size(s) - 1, body(s)) /\ Copied(byte(t).in, size(s) - 1, body(t))
    BY <1>6, <1>12, <2>1, CopySpec
  <2> HIDE DEF body
  <2>4. /\ body(s).bytes \in Bytes /\ body(s).ok \in BOOLEAN /\ body(t).ok \in BOOLEAN
        /\ (body(s).ok <=> body(t).ok) /\ Alike(body(s).in, body(t).in)
    BY <2>2, <2>3 DEF Copied, CopiesAlike
  <2>5. CASE type(s) \in 7..9
    <3>1. /\ result(s) = [s EXCEPT !.ok = body(s).ok, !.in = body(s).in]
          /\ result(t) = [t EXCEPT !.ok = body(t).ok, !.in = body(t).in]
      BY <1>1, <1>2, <1>4, <1>6, <1>10, <1>16, <2>5
    <3>2. body(s).ok = body(t).ok
      BY <2>4
    <3>3. StatesAlike(result(s), result(t))
      BY <1>1, <1>3, <2>4, <3>1, <3>2 DEF StatesAlike, LoopStates
    <3> QED BY <3>3 DEF result
  <2>6. CASE type(s) \notin 7..9
    <3>1. /\ result(s) = AppendNal(Announce(s, type(s), header), value(s), body(s))
          /\ result(t) = AppendNal(Announce(t, type(s), header), value(s), body(t))
      BY <1>1, <1>2, <1>4, <1>6, <1>10, <1>16, <2>6
    <3>2. StatesAlike(Announce(s, type(s), header), Announce(t, type(s), header))
      BY AnnounceAlike
    <3>3. StatesAlike(result(s), result(t))
      BY <1>11, <2>2, <2>4, <3>1, <3>2, AppendNalAlike
    <3> QED BY <3>3 DEF result
  <2> QED BY <2>5, <2>6
<1> QED BY <1>1, <1>13, <1>14, <1>15, <1>16

\* So the loop cannot either.
LEMMA PassesAlike ==
  ASSUME NEW s, NEW t, StatesAlike(s, t), NEW header \in Chains
  PROVE  StatesAlike(Passes(s, header), Passes(t, header))
<1> DEFINE most == Len(FlattenSeq(s.in))
<1>1. s \in LoopStates /\ t \in LoopStates /\ FlattenSeq(s.in) = FlattenSeq(t.in)
  BY DEF StatesAlike, Alike
<1>2. PICK f : Run(f, most, s, header) /\ Passes(s, header) = f[most]
  BY <1>1, RunExists
<1>3. PICK g : Run(g, most, t, header) /\ Passes(t, header) = g[most]
  BY <1>1, RunExists
<1>4. most \in Nat
  BY <1>1, PassType
<1> HIDE DEF most
<1> DEFINE T == {k \in 0..most : StatesAlike(f[k], g[k])}
<1>5. 0 \in T
  BY <1>2, <1>3, <1>4 DEF Run
<1>6. ASSUME NEW n \in 0..(most - 1), n \in T PROVE n + 1 \in T
  <2>1. n + 1 \in 0..most /\ (n + 1) - 1 = n /\ n + 1 # 0
    BY <1>4
  <2>2. f[n + 1] = Pass(f[n], header) /\ g[n + 1] = Pass(g[n], header)
    BY <1>2, <1>3, <2>1 DEF Run
  <2>3. StatesAlike(Pass(f[n], header), Pass(g[n], header))
    BY <1>6, PassAlike
  <2> QED BY <2>1, <2>2, <2>3
<1>7. most \in T
  <2> HIDE DEF T
  <2>1. 0..most \subseteq T
    BY <1>4, <1>5, <1>6, UpTo
  <2> QED BY <1>4, <2>1
<1> QED BY <1>2, <1>3, <1>7

\* What avcc_to_annexb makes of a message depends on its bytes alone, not on
\* the buffers that they come in.
THEOREM ConversionAlike ==
  ASSUME NEW a, NEW b, Alike(a, b), NEW header \in Chains
  PROVE  StatesAlike(AvccToAnnexB(a, header), AvccToAnnexB(b, header))
<1> DEFINE format(in) == Copy(in, 1)
           htype(in)  == Copy(format(in).in, 1)
           cts(in)    == Copy(htype(in).in, 3)
           state(in)  == [ok |-> TRUE, in |-> cts(in).in, out |-> <<>>,
                          audSent |-> FALSE, setsSent |-> FALSE]
           failed(in) == [state(in) EXCEPT !.ok = FALSE]
           ready(in)  == header # <<>> /\ cts(in).ok /\ htype(in).bytes = <<1>>
<1>1. /\ AvccToAnnexB(a, header)
           = IF ready(a) THEN Passes(state(a), header) ELSE failed(a)
      /\ AvccToAnnexB(b, header)
           = IF ready(b) THEN Passes(state(b), header) ELSE failed(b)
  BY DEF AvccToAnnexB
<1>2. CopiesAlike(format(a), format(b))
  BY CopyAlike
<1> HIDE DEF format
<1>3. CopiesAlike(htype(a), htype(b))
  BY <1>2, CopyAlike DEF CopiesAlike
<1> HIDE DEF htype
<1>4. CopiesAlike(cts(a), cts(b))
  BY <1>3, CopyAlike DEF CopiesAlike
<1> HIDE DEF cts
<1>5. ready(a) <=> ready(b)
  BY <1>3, <1>4 DEF CopiesAlike
<1> HIDE DEF ready
<1>6. Alike(cts(a).in, cts(b).in)
  BY <1>4 DEF CopiesAlike
<1>7. <<>> \in Bytes /\ Len(<<>>) <= Capacity
  BY AnnexBAssumption DEF Bytes
<1>8. StatesAlike(state(a), state(b))
  BY <1>6, <1>7 DEF StatesAlike, LoopStates, Alike, Tight
<1> HIDE DEF state
<1>9. StatesAlike(failed(a), failed(b))
  BY <1>8 DEF StatesAlike, LoopStates
<1> HIDE DEF failed
<1> QED BY <1>1, <1>5, <1>8, <1>9, PassesAlike

-----------------------------------------------------------------------------
(* The messages.                                                           *)

\* Bytes cut into chunks are a tight chain of them,
LEMMA ChainTight ==
  ASSUME NEW bytes \in Bytes, NEW size \in Nat \ {0}
  PROVE  Tight(Chain(bytes, size)) /\ FlattenSeq(Chain(bytes, size)) = bytes
<1> DEFINE L == Len(bytes)
           N == (L + size - 1) \div size
           end(k) == IF k * size < L THEN k * size ELSE L
           chain == Chain(bytes, size)
<1>1. L \in Nat /\ bytes \in Seq(Nat)
  BY DEF Bytes
<1> HIDE DEF L
<1>2. /\ N \in Nat /\ N * size >= L
      /\ \A k \in 0..(N - 1) : k * size < L
  <2>1. L + size - 1 \in Int
    BY <1>1
  <2>2. PICK q \in Int, r \in 0..(size - 1) :
          L + size - 1 = size * q + r /\ q = (L + size - 1) \div size
    BY <2>1, Division
  <2>3. q = N
    BY <2>2
  <2> HIDE DEF N
  <2>4. q >= 0
    <3> SUFFICES ASSUME q <= -1 PROVE FALSE
      OBVIOUS
    <3>1. size * q <= -size
      OBVIOUS
    <3> QED BY <1>1, <2>2, <3>1
  <2>5. q * size >= L
    BY <1>1, <2>2
  <2>6. ASSUME NEW k \in 0..(q - 1) PROVE k * size < L
    <3>1. k * size <= q * size - size
      <4>1. (q - k) * size >= size
        OBVIOUS
      <4>2. (q - k) * size = q * size - k * size
        OBVIOUS
      <4> QED BY <4>1, <4>2
    <3> QED BY <1>1, <2>2, <3>1
  <2> QED BY <2>3, <2>4, <2>5, <2>6
<1>3. \A k \in 0..N : k * size \in Nat /\ end(k) \in 0..L
  BY <1>1, <1>2
<1>4. chain = [i \in 1..N |-> ChunkAt(bytes, size, i)]
  BY DEF Chain, L
<1> HIDE DEF N, chain
<1>5. ASSUME NEW n \in 0..(N - 1)
      PROVE  /\ chain[n + 1] = SubSeq(bytes, end(n) + 1, end(n + 1))
             /\ chain[n + 1] \in Seq(Nat) /\ end(n) <= end(n + 1)
             /\ n + 1 \in 1..N /\ n + 1 \in 0..N /\ n \in 0..N
  <2>1. n + 1 \in 1..N /\ n + 1 \in 0..N /\ (n + 1) - 1 = n /\ n \in 0..N
    BY <1>2
  <2>2. end(n) = n * size /\ (n + 1) * size = n * size + size
    <3>1. n * size < L
      BY <1>2
    <3>2. n \in Nat
      BY <1>2
    <3> QED BY <3>1, <3>2
  <2>3. chain[n + 1] = ChunkAt(bytes, size, n + 1)
    BY <1>4, <2>1
  <2>4. ChunkAt(bytes, size, n + 1) = SubSeq(bytes, n * size + 1, end(n + 1))
    BY <2>1 DEF ChunkAt, L
  <2>5. end(n) <= end(n + 1) /\ end(n) \in 0..L /\ end(n + 1) \in 0..L
    BY <1>1, <1>3, <2>1, <2>2
  <2>6. SubSeq(bytes, end(n) + 1, end(n + 1)) \in Seq(Nat)
    <3> DEFINE from == end(n) + 1
               to   == end(n + 1)
    <3>1. from \in 1..(L + 1) /\ to \in 0..L
      BY <1>1, <2>5
    <3> HIDE DEF from, to
    <3>2. SubSeq(bytes, from, to) \in Seq(Nat)
      BY <1>1, <3>1 DEF L
    <3> QED BY <3>2 DEF from, to
  <2> QED BY <2>1, <2>2, <2>3, <2>4, <2>5, <2>6
<1>6. chain \in Seq(Seq(Nat)) /\ Len(chain) = N
  <2>1. \A i \in 1..N : chain[i] \in Seq(Nat)
    <3> SUFFICES ASSUME NEW i \in 1..N PROVE chain[i] \in Seq(Nat)
      OBVIOUS
    <3>1. i - 1 \in 0..(N - 1) /\ (i - 1) + 1 = i
      BY <1>2
    <3> QED BY <1>5, <3>1
  <2> QED BY <1>2, <1>4, <2>1
<1>7. /\ First(chain, 0) = <<>> /\ First(chain, N) = FlattenSeq(chain)
      /\ \A k \in 1..N : First(chain, k) = First(chain, k - 1) \o chain[k]
  BY <1>6, FirstSteps
<1> DEFINE T == {k \in 0..N : First(chain, k) = SubSeq(bytes, 1, end(k))}
<1>8. 0 \in T
  <2>1. end(0) = 0
    BY <1>1
  <2>2. SubSeq(bytes, 1, 0) = <<>>
    BY <1>1
  <2>3. 0 \in 0..N
    BY <1>2
  <2> HIDE DEF end
  <2> QED BY <1>7, <2>1, <2>2, <2>3
<1>9. ASSUME NEW n \in 0..(N - 1), n \in T PROVE n + 1 \in T
  <2>1. First(chain, n + 1) = SubSeq(bytes, 1, end(n)) \o chain[n + 1]
    <3>1. (n + 1) - 1 = n /\ n + 1 \in 1..N
      BY <1>2
    <3> QED BY <1>7, <1>9, <3>1
  <2> DEFINE k == end(n)
             m == end(n + 1)
  <2>2. /\ chain[n + 1] = SubSeq(bytes, k + 1, m) /\ k <= m
        /\ k \in 0..L /\ m \in 0..L /\ n + 1 \in 0..N
    BY <1>3, <1>5
  <2>3. First(chain, n + 1) = SubSeq(bytes, 1, k) \o SubSeq(bytes, k + 1, m)
    BY <2>1, <2>2
  <2> HIDE DEF k, m
  <2>4. SubSeq(bytes, 1, k) \o SubSeq(bytes, k + 1, m) = SubSeq(bytes, 1, m)
    <3>1. /\ 1 \in 1..(Len(bytes) + 1) /\ k \in (1 - 1)..Len(bytes)
          /\ m \in k..Len(bytes)
      BY <1>1, <2>2 DEF L
    <3> QED BY <1>1, <3>1, ConcatAdjacentSubSeq
  <2> QED BY <2>2, <2>3, <2>4 DEF m
<1>10. N \in T
  <2> HIDE DEF T
  <2>1. 0..N \subseteq T
    BY <1>2, <1>8, <1>9, UpTo
  <2> QED BY <1>2, <2>1
<1>11. end(N) = L
  BY <1>1, <1>2
<1>12. FlattenSeq(chain) = bytes
  <2>1. SubSeq(bytes, 1, L) = bytes
    BY <1>1, SubSeqFull DEF L
  <2> QED BY <1>7, <1>10, <1>11, <2>1
<1>13. bytes = <<>> => chain = <<>>
  <2>1. SUFFICES ASSUME bytes = <<>> PROVE N = 0
    BY <1>6
  <2>2. L = 0
    BY <2>1 DEF L
  <2>3. N # 0 => 0 \in 0..(N - 1) /\ 0 * size = 0
    BY <1>2
  <2> QED BY <1>2, <2>2, <2>3
<1>14. chain \in Chains
  BY <1>6 DEF Chains, Bytes
<1> QED BY <1>12, <1>13, <1>14 DEF Tight, chain

\* The length of a NAL unit reads as the unit's size,
LEMMA LengthReads ==
  ASSUME NEW size \in UnitSizes
  PROVE  /\ size \in Nat
         /\ LengthBytes(size) \in Bytes /\ Len(LengthBytes(size)) = NalBytes
         /\ Number(LengthBytes(size)) = size
<1> DEFINE h == LengthBytes(size)
           byte(p) == (size \div p) % 256
           place(k) == IF k < Len(h) THEN h[Len(h) - k] ELSE 0
<1>1. NalBytes \in 1..4
  BY AnnexBAssumption
<1>2. size \in Nat /\ size \div Places[NalBytes] < 256
  BY DEF UnitSizes
<1>3. /\ Places[1] = 1 /\ Places[2] = 256
      /\ Places[3] = 65536 /\ Places[4] = 16777216
  BY DEF Places
<1>4. \A j \in 1..NalBytes : Places[NalBytes + 1 - j] \in Nat \ {0}
  BY <1>1, <1>3
<1>5. \A p \in Nat \ {0} : byte(p) \in Nat
  BY <1>2
<1>6. h = [j \in 1..NalBytes |-> byte(Places[NalBytes + 1 - j])]
  BY DEF LengthBytes
<1> HIDE DEF byte, h
<1>7. h \in Seq(Nat) /\ Len(h) = NalBytes
  <2> DEFINE digit(j) == byte(Places[NalBytes + 1 - j])
  <2>1. \A j \in 1..NalBytes : digit(j) \in Nat
    BY <1>4, <1>5
  <2>2. h = [j \in 1..NalBytes |-> digit(j)]
    BY <1>6
  <2> HIDE DEF digit
  <2> QED BY <1>1, <2>1, <2>2
<1>8. \A k \in 0..3 : place(k) = IF k < NalBytes THEN byte(Places[k + 1]) ELSE 0
  <2>1. \A k \in 0..3 : k < NalBytes => h[NalBytes - k] = byte(Places[k + 1])
    BY <1>1, <1>6
  <2> QED BY <1>7, <2>1
<1>9. Number(h) = place(0) + 256 * place(1) + 65536 * place(2) + 16777216 * place(3)
  BY DEF Number
<1> HIDE DEF place
<1>10. /\ place(0) = byte(1)
       /\ place(1) = IF 1 < NalBytes THEN byte(256) ELSE 0
       /\ place(2) = IF 2 < NalBytes THEN byte(65536) ELSE 0
       /\ place(3) = IF 3 < NalBytes THEN byte(16777216) ELSE 0
  BY <1>1, <1>3, <1>8
<1>11. /\ size = byte(1) + 256 * (size \div 256)
       /\ size \div 256 = byte(256) + 256 * (size \div 65536)
       /\ size \div 65536 = byte(65536) + 256 * (size \div 16777216)
  <2>1. ASSUME NEW n \in Nat PROVE (n \div 256) \div 256 = n \div 65536
    OBVIOUS
  <2>2. ASSUME NEW n \in Nat PROVE (n \div 65536) \div 256 = n \div 16777216
    OBVIOUS
  <2>3. ASSUME NEW n \in Nat PROVE n = (n % 256) + 256 * (n \div 256)
    OBVIOUS
  <2>4. size \div 256 \in Nat /\ size \div 65536 \in Nat /\ size \div 1 = size
    BY <1>2
  <2> QED BY <1>2, <2>1, <2>2, <2>3, <2>4 DEF byte
<1>12. Number(h) = size
  <2>1. CASE NalBytes = 1
    <3>1. size \div 1 < 256
      BY <1>2, <1>3, <2>1
    <3>2. byte(1) = size \div 1
      BY <1>2, <3>1 DEF byte
    <3> QED BY <1>2, <1>5, <1>9, <1>10, <1>11, <2>1, <3>2
  <2>2. CASE NalBytes = 2
    <3>1. size \div 256 < 256
      BY <1>2, <1>3, <2>2
    <3>2. byte(256) = size \div 256
      BY <1>2, <3>1 DEF byte
    <3> QED BY <1>2, <1>5, <1>9, <1>10, <1>11, <2>2, <3>2
  <2>3. CASE NalBytes = 3
    <3>1. size \div 65536 < 256
      BY <1>2, <1>3, <2>3
    <3>2. byte(65536) = size \div 65536
      BY <1>2, <3>1 DEF byte
    <3> QED BY <1>2, <1>5, <1>9, <1>10, <1>11, <2>3, <3>2
  <2>4. CASE NalBytes = 4
    <3>1. size \div 16777216 < 256
      BY <1>2, <1>3, <2>4
    <3>2. byte(16777216) = size \div 16777216
      BY <1>2, <3>1 DEF byte
    <3> QED BY <1>2, <1>5, <1>9, <1>10, <1>11, <2>4, <3>2
  <2> QED BY <1>1, <2>1, <2>2, <2>3, <2>4
<1> QED BY <1>2, <1>7, <1>12 DEF h, Bytes

\* every message is such a chain,
LEMMA MeasuredBytes ==
  ASSUME NEW frame \in Seq([type : 0..31, size : UnitSizes])
  PROVE  MeasuredUnits(frame) \in Bytes
<1> DEFINE units == [i \in DOMAIN frame |-> Measured(frame, i)]
<1>1. ASSUME NEW i \in DOMAIN frame PROVE Measured(frame, i) \in Seq(Nat)
  <2> DEFINE head == LengthBytes(frame[i].size)
             rest == [j \in 1..(frame[i].size - 1) |-> 128 + 8 * i + j]
  <2>1. i \in Nat /\ frame[i].size \in UnitSizes /\ frame[i].type \in 0..31
    <3>1. i \in 1..Len(frame) /\ Len(frame) \in Nat
      OBVIOUS
    <3>2. frame[i] \in [type : 0..31, size : UnitSizes]
      BY <3>1, ElementOfSeq
    <3> QED BY <3>1, <3>2
  <2>2. frame[i].size \in Nat
    BY <2>1, LengthReads
  <2>3. head \in Seq(Nat)
    BY <2>1, LengthReads DEF Bytes
  <2>4. frame[i].size # 0 => Unit(frame, i) \in Seq(Nat)
    <3> SUFFICES ASSUME frame[i].size # 0 PROVE Unit(frame, i) \in Seq(Nat)
      OBVIOUS
    <3> DEFINE n == frame[i].size - 1
    <3>1. n \in Nat
      BY <2>2
    <3>2. \A j \in 1..n : 128 + 8 * i + j \in Nat
      BY <2>1
    <3>3. rest \in Seq(Nat)
      <4> HIDE DEF n
      <4>1. [j \in 1..n |-> 128 + 8 * i + j] \in Seq(Nat)
        BY <3>1, <3>2
      <4> QED BY <4>1 DEF n
    <3>4. <<96 + frame[i].type>> \in Seq(Nat)
      <4> DEFINE t == frame[i].type
      <4>1. t \in 0..31
        BY <2>1
      <4> HIDE DEF t
      <4>2. 96 + t \in Nat
        BY <4>1
      <4>3. <<96 + t>> \in Seq(Nat)
        BY <4>2
      <4> QED BY <4>3 DEF t
    <3> HIDE DEF rest
    <3>5. <<96 + frame[i].type>> \o rest \in Seq(Nat)
      BY <3>3, <3>4, ConcatProperties
    <3> QED BY <3>5 DEF Unit, rest
  <2> HIDE DEF head
  <2>5. Measured(frame, i) = head \o (IF frame[i].size = 0 THEN <<>> ELSE Unit(frame, i))
    BY DEF Measured, head
  <2>6. CASE frame[i].size = 0
    BY <2>3, <2>5, <2>6, ConcatEmptySeq
  <2>7. CASE frame[i].size # 0
    BY <2>3, <2>4, <2>5, <2>7, ConcatProperties
  <2> QED BY <2>6, <2>7
<1>2. DOMAIN frame = 1..Len(frame) /\ Len(frame) \in Nat
  OBVIOUS
<1>3. units \in Seq(Seq(Nat))
  BY <1>1, <1>2
<1> HIDE DEF units
<1>4. FlattenSeq(units) \in Seq(Nat)
  BY <1>3, FlatType
<1> QED BY <1>4 DEF MeasuredUnits, Bytes, units
\* A message is a frame with a kind, in chunks of a size, cut short,
Received(m) ==
  /\ m.frame \in Seq([type : 0..31, size : UnitSizes]) /\ m.kind \in Nat
  /\ m.chunk \in Nat \ {0} /\ m.cut \in Nat
\* and these are its bytes,
MessageBytes(m) ==
  Shorter(<<23, m.kind, 0, 0, 0>> \o MeasuredUnits(m.frame), m.cut)
\* which are a number less than those of the whole,
LEMMA ShorterBytes ==
  ASSUME NEW bytes \in Bytes, NEW cut \in Nat PROVE Shorter(bytes, cut) \in Bytes
BY DEF Shorter, Bytes
\* and those of its chain.
LEMMA MessageTight ==
  ASSUME NEW m, Received(m)
  PROVE  /\ Tight(MessageChain(m))
         /\ FlattenSeq(MessageChain(m)) = MessageBytes(m)
<1>1. MeasuredUnits(m.frame) \in Bytes
  BY MeasuredBytes DEF Received
<1>2. <<23, m.kind, 0, 0, 0>> \in Bytes
  BY DEF Received, Bytes
<1>3. <<23, m.kind, 0, 0, 0>> \o MeasuredUnits(m.frame) \in Bytes
  BY <1>1, <1>2, ConcatProperties DEF Bytes
<1>4. MessageBytes(m) \in Bytes
  BY <1>3, ShorterBytes DEF Received, MessageBytes
<1>5. MessageChain(m) = Chain(MessageBytes(m), m.chunk)
  BY DEF MessageChain, MessageBytes
<1> QED BY <1>4, <1>5, ChainTight DEF Received
\* and the codec's header too.
LEMMA HeaderType ==
  ASSUME NEW cut \in Nat PROVE HeaderChain(cut) \in Chains
<1>1. HeaderBytes \in Bytes
  BY DEF HeaderBytes, Sps, Pps, Bytes
<1>2. Shorter(HeaderBytes, cut) \in Bytes
  BY <1>1, ShorterBytes
<1>3. Tight(Chain(Shorter(HeaderBytes, cut), 4))
  BY <1>2, ChainTight
<1> QED BY <1>3 DEF HeaderChain, Tight

-----------------------------------------------------------------------------
(* The way of the video.                                                   *)

\* What agora_send_video is handed for a message.
Handed(m, header) ==
  LET converted == AvccToAnnexB(MessageChain(m), header)
  IN  IF converted.ok THEN [ok |-> TRUE, out |-> converted.out] ELSE Nothing

\* The inductive invariant: what was handed on is the message that is still
\* there, converted with the header that is still there, and before and after
\* that nothing is.
VInv == /\ VideoTypeOK
        /\ stage = "sent" => given = Handed(received, avcHeader)
        /\ stage # "sent" => ~given.ok

\* The header is a chain and a message is one too,
LEMMA VideoInputs ==
  ASSUME VideoTypeOK PROVE avcHeader \in Chains /\ Received(received)
<1>1. ASSUME NEW cut \in HeaderCuts PROVE HeaderChain(cut) \in Chains
  BY VideoAssumption, HeaderType
<1>2. <<>> \in Chains
  BY DEF Chains
<1>3. avcHeader \in Chains
  BY <1>1, <1>2 DEF VideoTypeOK
<1>4. /\ received.frame \in Frames \cup {<<>>} /\ received.kind \in Kinds \cup {0}
      /\ received.chunk \in ChunkSizes \cup {1} /\ received.cut \in Cuts \cup {0}
  BY DEF VideoTypeOK
<1>5. received.frame \in Seq([type : 0..31, size : UnitSizes])
  <2> DEFINE U == [type : 0..31, size : UnitSizes]
  <2>1. \A f \in Frames : f \in Seq(U)
    BY VideoAssumption
  <2> HIDE DEF U
  <2>2. <<>> \in Seq(U)
    OBVIOUS
  <2>3. CASE received.frame \in Frames
    BY <2>1, <2>3 DEF U
  <2>4. CASE received.frame = <<>>
    BY <2>2, <2>4 DEF U
  <2> QED BY <1>4, <2>3, <2>4
<1>6. /\ received.kind \in Nat /\ received.chunk \in Nat \ {0}
      /\ received.cut \in Nat
  <2>1. /\ Kinds \cup {0} \subseteq Nat /\ Cuts \cup {0} \subseteq Nat
        /\ ChunkSizes \cup {1} \subseteq Nat \ {0}
    BY VideoAssumption
  <2> QED BY <1>4, <2>1
<1> QED BY <1>3, <1>5, <1>6 DEF Received
\* so that what is handed on fits in the buffer it is written to.
LEMMA HandedType ==
  ASSUME NEW m, Received(m), NEW header \in Chains
  PROVE  /\ Handed(m, header).ok \in BOOLEAN
         /\ Len(Handed(m, header).out) <= Capacity
<1> DEFINE converted == AvccToAnnexB(MessageChain(m), header)
<1>1. MessageChain(m) \in Chains
  BY MessageTight DEF Tight
<1>2. converted \in LoopStates
  BY <1>1, ConversionType
<1>3. Handed(m, header) = IF converted.ok THEN [ok |-> TRUE, out |-> converted.out]
                          ELSE Nothing
  BY DEF Handed
<1> HIDE DEF converted
<1>4. Len(Nothing.out) <= Capacity /\ Nothing.ok \in BOOLEAN
  BY AnnexBAssumption DEF Nothing
<1>5. converted.ok \in BOOLEAN /\ Len(converted.out) <= Capacity
  BY <1>2 DEF LoopStates
<1>6. CASE converted.ok
  <2>1. Handed(m, header) = [ok |-> TRUE, out |-> converted.out]
    BY <1>3, <1>6
  <2> QED BY <1>5, <2>1
<1>7. CASE ~converted.ok
  BY <1>3, <1>4, <1>7
<1> QED BY <1>6, <1>7

\* Initially there is no message.
LEMMA VInvInit == VideoInit => VInv
BY AnnexBAssumption DEF VideoInit, VInv, VideoTypeOK, NoMessage, Nothing

\* No step disturbs the invariant.
LEMMA VInvStep == ASSUME VInv, VideoNext \/ UNCHANGED videoVars PROVE VInv'
<1>1. CASE ReceiveHeader
  BY <1>1 DEF ReceiveHeader, VInv, VideoTypeOK
<1>2. CASE ReceiveVideo
  BY <1>2 DEF ReceiveVideo, VInv, VideoTypeOK
<1>3. CASE SendVideo
  <2>1. /\ given' = Handed(received, avcHeader) /\ stage' = "sent"
        /\ received' = received /\ avcHeader' = avcHeader
    BY <1>3 DEF SendVideo, Handed
  <2>2. given'.ok \in BOOLEAN /\ Len(given'.out) <= Capacity
    BY <2>1, VideoInputs, HandedType DEF VInv
  <2> QED BY <2>1, <2>2 DEF VInv, VideoTypeOK
<1>4. CASE VideoReturns
  BY <1>4, AnnexBAssumption DEF VideoReturns, VInv, VideoTypeOK, NoMessage, Nothing
<1>5. CASE UNCHANGED videoVars
  BY <1>5 DEF videoVars, VInv, VideoTypeOK
<1> QED BY <1>1, <1>2, <1>3, <1>4, <1>5 DEF VideoNext

\* A message in one chunk has the same bytes, and is therefore converted to
\* the same.
LEMMA VInvChunks == VInv => ChunksDoNotMatter
<1> SUFFICES ASSUME VInv, stage = "sent" PROVE ChunksDoNotMatter
  BY DEF ChunksDoNotMatter
<1> DEFINE size == 5 + Len(MeasuredUnits(received.frame))
           once == [received EXCEPT !.chunk = size]
           part  == AvccToAnnexB(MessageChain(received), avcHeader)
           whole == AvccToAnnexB(MessageChain(once), avcHeader)
<1>1. avcHeader \in Chains /\ Received(received)
  BY VideoInputs DEF VInv
<1>2. size \in Nat \ {0}
  <2>1. MeasuredUnits(received.frame) \in Seq(Nat)
    BY <1>1, MeasuredBytes DEF Received, Bytes
  <2> QED BY <2>1
<1>3. ChunksDoNotMatter <=> ((given.ok <=> whole.ok) /\ (given.ok => given.out = whole.out))
  BY DEF ChunksDoNotMatter
<1> HIDE DEF size
<1>4. /\ once.frame = received.frame /\ once.kind = received.kind
      /\ once.cut = received.cut /\ once.chunk = size
  BY DEF VInv, VideoTypeOK
<1> HIDE DEF once
<1>5. Received(once) /\ MessageBytes(once) = MessageBytes(received)
  BY <1>1, <1>2, <1>4 DEF Received, MessageBytes
<1>6. Alike(MessageChain(received), MessageChain(once))
  BY <1>1, <1>5, MessageTight DEF Alike
<1>7. StatesAlike(part, whole)
  BY <1>1, <1>6, ConversionAlike
<1>8. given = IF part.ok THEN [ok |-> TRUE, out |-> part.out] ELSE Nothing
  BY DEF VInv, Handed
<1> HIDE DEF part, whole
<1> QED BY <1>3, <1>7, <1>8 DEF StatesAlike, Nothing

-----------------------------------------------------------------------------
(* The units of a frame.                                                   *)

\* Sequences of bytes behind each other.
LEMMA Joined ==
  ASSUME NEW x \in Bytes, NEW y \in Bytes
  PROVE  /\ x \o y \in Bytes /\ Len(x \o y) = Len(x) + Len(y)
         /\ Len(x) \in Nat /\ Len(y) \in Nat
         /\ x \o y = <<>> => x = <<>> /\ y = <<>>
BY ConcatProperties, ConcatEqualIffEmpty DEF Bytes
\* Three may be joined in either order.
LEMMA JoinedThree ==
  ASSUME NEW x \in Bytes, NEW y \in Bytes, NEW z \in Bytes
  PROVE  (x \o y) \o z = x \o (y \o z)
<1>1. x \in Seq(Nat) /\ y \in Seq(Nat) /\ z \in Seq(Nat)
  BY DEF Bytes
<1>2. \A a, b, c \in Seq(Nat) : (a \o b) \o c = a \o (b \o c)
  BY ConcatAssociative
<1> QED BY <1>1, <1>2, Zenon

\* The next n bytes of a chain are had, and there are more behind them.
Had(in, n, bytes, more) ==
  /\ Copy(in, n).ok /\ Copy(in, n).bytes = bytes
  /\ FlattenSeq(Copy(in, n).in) = more /\ Tight(Copy(in, n).in)
\* So it is with what a chain begins with, unless that is nothing and the
\* chain is at its end.
LEMMA CopyPrefix ==
  ASSUME NEW in \in Chains, in # <<>>, NEW x \in Bytes, NEW y \in Bytes,
         FlattenSeq(in) = x \o y, NEW n, n = Len(x)
  PROVE  Had(in, n, x, y)
<1>1. n \in Nat /\ n \in 0..Len(x) /\ Len(y) \in Nat /\ x \in Seq(Nat) /\ y \in Seq(Nat)
  BY DEF Bytes
<1>2. /\ SubSeq(x \o y, 1, n) = SubSeq(x, 1, n) /\ Len(x \o y) = Len(x) + Len(y)
      /\ SubSeq(x \o y, n + 1, Len(x \o y)) = SubSeq(x, n + 1, Len(x)) \o y
  BY <1>1, Parts
<1>3. SubSeq(x, 1, n) = x
  BY <1>1, SubSeqFull
<1>4. SubSeq(x, n + 1, Len(x)) = <<>>
  BY <1>1, SubSeqEmpty
<1>5. SubSeq(x \o y, n + 1, Len(x \o y)) = y
  BY <1>1, <1>2, <1>4, ConcatEmptySeq
<1>6. Copied(in, n, Copy(in, n))
  BY <1>1, CopySpec
<1>7. Copy(in, n).ok
  BY <1>1, <1>2, <1>6 DEF Copied
<1> QED BY <1>2, <1>3, <1>5, <1>6, <1>7 DEF Copied, Had
\* A chain with bytes is not at its end.
LEMMA NotEnded == ASSUME NEW in, FlattenSeq(in) # <<>> PROVE in # <<>>
BY DEF FlattenSeq

\* The NAL units of a frame, and what a reader that is through with k of them
\* has before it.
FrameType == Seq([type : 0..31, size : UnitSizes])
AllMeasured(frame) == [i \in DOMAIN frame |-> Measured(frame, i)]
Left(frame, k) == FlattenSeq(SubSeq(AllMeasured(frame), k + 1, Len(frame)))
\* A NAL unit is its length, its first byte and its content,
Length(frame, i) == LengthBytes(frame[i].size)
Content(frame, i) == [j \in 1..(frame[i].size - 1) |-> 128 + 8 * i + j]
\* each of the size that the frame says.
LEMMA UnitParts ==
  ASSUME NEW frame \in FrameType, NEW i \in 1..Len(frame)
  PROVE  /\ frame[i].type \in 0..31 /\ frame[i].size \in Nat
         /\ Length(frame, i) \in Bytes /\ Len(Length(frame, i)) = NalBytes
         /\ Number(Length(frame, i)) = frame[i].size
         /\ frame[i].size = 0 => Measured(frame, i) = Length(frame, i)
         /\ frame[i].size # 0 =>
              /\ Content(frame, i) \in Bytes
              /\ Len(Content(frame, i)) = frame[i].size - 1
              /\ <<96 + frame[i].type>> \in Bytes
              /\ Unit(frame, i) = <<96 + frame[i].type>> \o Content(frame, i)
              /\ Unit(frame, i) \in Bytes /\ Len(Unit(frame, i)) = frame[i].size
              /\ Measured(frame, i) = Length(frame, i) \o Unit(frame, i)
         /\ Measured(frame, i) \in Bytes /\ Measured(frame, i) # <<>>
<1> DEFINE s == frame[i].size
           t == frame[i].type
<1>1. i \in Nat /\ s \in UnitSizes /\ s \in Nat /\ t \in 0..31
  <2>1. frame[i] \in [type : 0..31, size : UnitSizes]
    BY ElementOfSeq DEF FrameType
  <2>2. Len(frame) \in Nat
    BY DEF FrameType
  <2>3. s \in UnitSizes /\ t \in 0..31 /\ i \in Nat
    BY <2>1, <2>2
  <2> QED BY <2>3, LengthReads
<1> HIDE DEF s, t
<1> DEFINE h == LengthBytes(s)
           u == <<96 + t>>
           c == [j \in 1..(s - 1) |-> 128 + 8 * i + j]
<1>2. NalBytes \in 1..4
  BY AnnexBAssumption
<1>3. h \in Seq(Nat) /\ Len(h) = NalBytes
  BY <1>1, LengthReads DEF Bytes
<1>4. Number(h) = s
  BY <1>1, LengthReads
<1> HIDE DEF h
<1>5. u \in Seq(Nat) /\ Len(u) = 1
  BY <1>1
<1>6. s # 0 => c \in Seq(Nat) /\ Len(c) = s - 1
  <2> DEFINE n == s - 1
  <2>1. s # 0 => n \in Nat
    BY <1>1
  <2> HIDE DEF n
  <2>2. n \in Nat => [j \in 1..n |-> 128 + 8 * i + j] \in Seq(Nat)
                     /\ Len([j \in 1..n |-> 128 + 8 * i + j]) = n
    BY <1>1
  <2> QED BY <2>1, <2>2 DEF n
<1> HIDE DEF u, c
<1>7. s # 0 => u \o c \in Seq(Nat) /\ Len(u \o c) = s
  <2>1. s # 0 => u \in Bytes /\ c \in Bytes /\ 1 + (s - 1) = s
    BY <1>1, <1>5, <1>6 DEF Bytes
  <2>2. s # 0 => u \o c \in Bytes /\ Len(u \o c) = Len(u) + Len(c)
    BY <2>1, Joined
  <2> QED BY <1>5, <1>6, <2>1, <2>2 DEF Bytes
<1>8. /\ Measured(frame, i) = h \o (IF s = 0 THEN <<>> ELSE Unit(frame, i))
      /\ Unit(frame, i) = u \o c /\ Length(frame, i) = h /\ Content(frame, i) = c
  BY DEF Measured, Unit, Length, Content, h, u, c, s, t
<1>9. h # <<>>
  BY <1>2, <1>3
<1>10. CASE s = 0
  <2>1. Measured(frame, i) = h
    BY <1>3, <1>8, <1>10, ConcatEmptySeq
  <2> QED BY <1>1, <1>3, <1>4, <1>8, <1>9, <1>10, <2>1 DEF Bytes, s, t
<1>11. CASE s # 0
  <2>1. Measured(frame, i) = h \o (u \o c)
    BY <1>8, <1>11
  <2>2. h \o (u \o c) \in Seq(Nat) /\ Len(h \o (u \o c)) = NalBytes + s
    <3>1. h \in Bytes /\ u \o c \in Bytes
      BY <1>3, <1>7, <1>11 DEF Bytes
    <3>2. h \o (u \o c) \in Bytes /\ Len(h \o (u \o c)) = Len(h) + Len(u \o c)
      BY <3>1, Joined
    <3> QED BY <1>3, <1>7, <1>11, <3>2 DEF Bytes
  <2>3. Measured(frame, i) # <<>>
    BY <1>1, <1>2, <2>1, <2>2
  <2> QED BY <1>1, <1>3, <1>4, <1>5, <1>6, <1>7, <1>8, <1>11, <2>1, <2>2, <2>3
          DEF Bytes, s, t, u
<1> QED BY <1>10, <1>11

\* What is left begins with the next unit.
LEMMA LeftSteps ==
  ASSUME NEW frame \in FrameType
  PROVE  /\ Len(frame) \in Nat
         /\ AllMeasured(frame) \in Chains /\ Len(AllMeasured(frame)) = Len(frame)
         /\ Left(frame, 0) = MeasuredUnits(frame) /\ Left(frame, Len(frame)) = <<>>
         /\ \A k \in 0..Len(frame) : Left(frame, k) \in Bytes
         /\ \A k \in 0..(Len(frame) - 1) :
              /\ Left(frame, k) = Measured(frame, k + 1) \o Left(frame, k + 1)
              /\ Left(frame, k) # <<>>
<1> DEFINE N == Len(frame)
           all == AllMeasured(frame)
<1>1. N \in Nat /\ DOMAIN frame = 1..N
  BY DEF FrameType
<1>2. \A i \in 1..N : Measured(frame, i) \in Bytes /\ Measured(frame, i) # <<>>
  BY UnitParts
<1>3. all \in Seq(Bytes) /\ Len(all) = N /\ \A i \in 1..N : all[i] = Measured(frame, i)
  <2>1. all = [i \in 1..N |-> Measured(frame, i)]
    BY <1>1 DEF AllMeasured
  <2> HIDE DEF all, N
  <2> QED BY <1>1, <1>2, <2>1
<1>4. MeasuredUnits(frame) = FlattenSeq(all)
  BY DEF MeasuredUnits, AllMeasured
<1>5. \A k : Left(frame, k) = FlattenSeq(SubSeq(all, k + 1, N))
  BY DEF Left
<1> HIDE DEF all, N
<1>6. all \in Chains
  BY <1>3 DEF Chains
<1>7. \A k \in 0..N : Left(frame, k) \in Bytes
  BY <1>3, <1>5, <1>6, Halves
<1>8. Left(frame, 0) = MeasuredUnits(frame)
  <2>1. SubSeq(all, 0 + 1, N) = all
    BY <1>3, SubSeqFull
  <2> QED BY <1>4, <1>5, <2>1
<1>9. Left(frame, N) = <<>>
  <2>1. SubSeq(all, N + 1, N) = <<>>
    BY <1>1, <1>3, SubSeqEmpty
  <2>2. FlattenSeq(<<>>) = <<>>
    BY DEF FlattenSeq
  <2> QED BY <1>5, <2>1, <2>2
<1>10. ASSUME NEW k \in 0..(N - 1)
       PROVE  /\ Left(frame, k) = Measured(frame, k + 1) \o Left(frame, k + 1)
              /\ Left(frame, k) # <<>>
  <2> DEFINE more == SubSeq(all, (k + 1) + 1, N)
  <2>1. /\ k + 1 \in 1..N /\ k + 1 \in 0..N /\ all[k + 1] = Measured(frame, k + 1)
        /\ Measured(frame, k + 1) \in Bytes /\ Measured(frame, k + 1) # <<>>
    BY <1>1, <1>2, <1>3
  <2>2. more \in Chains
    BY <1>3, <1>6, <2>1, Halves
  <2>3. SubSeq(all, k + 1, N) = <<all[k + 1]>> \o more
    <3>1. SubSeq(all, k + 1, N) = SubSeq(all, k + 1, k + 1) \o SubSeq(all, (k + 1) + 1, N)
      <4>1. k + 1 \in 1..(Len(all) + 1) /\ k + 1 \in ((k + 1) - 1)..Len(all)
            /\ N \in (k + 1)..Len(all)
        BY <1>1, <1>3
      <4> QED BY <1>3, <4>1, ConcatAdjacentSubSeq
    <3>2. SubSeq(all, k + 1, k + 1) = <<all[k + 1]>>
      <4> DEFINE p == k + 1
                 one == SubSeq(all, p, p)
      <4>1. p \in 1..Len(all) /\ Len(all) \in Nat
        BY <1>1, <1>3
      <4> HIDE DEF p
      <4>2. one \in Seq(Bytes) /\ Len(one) = 1 /\ one[1] = all[p]
        BY <1>3, <4>1
      <4>3. one = <<all[p]>>
        <5> HIDE DEF one
        <5>1. one = <<one[1]>>
          BY <4>2
        <5> QED BY <4>2, <5>1
      <4> QED BY <4>3 DEF p
    <3> QED BY <3>1, <3>2
  <2> HIDE DEF more
  <2>4. FlattenSeq(<<all[k + 1]>> \o more) = all[k + 1] \o FlattenSeq(more)
        /\ FlattenSeq(more) \in Bytes
    BY <2>1, <2>2, FlatCons
  <2>5. Left(frame, k + 1) = FlattenSeq(more)
    BY <1>5 DEF more
  <2>6. Left(frame, k) = Measured(frame, k + 1) \o Left(frame, k + 1)
    BY <1>5, <2>1, <2>3, <2>4, <2>5
  <2>7. Left(frame, k) # <<>>
    BY <2>1, <2>4, <2>5, <2>6, ConcatEqualIffEmpty DEF Bytes
  <2> QED BY <2>6, <2>7
<1> QED BY <1>1, <1>3, <1>6, <1>7, <1>8, <1>9, <1>10 DEF all, N

-----------------------------------------------------------------------------
(* What the output for a frame weighs.                                     *)

\* The units that a decoder should find for one of the frame, and the room that
\* units take with a long start code each.
ExpectedAt(frame, i) ==
  IF ~Kept(frame, i) THEN <<>>
  ELSE (IF Opens(frame, i) THEN <<<<9, 240>>>> ELSE <<>>)
         \o (IF NeedsSets(frame, i) THEN <<Sps, Pps>> ELSE <<>>)
         \o <<Unit(frame, i)>>
AllExpected(frame) == [i \in DOMAIN frame |-> ExpectedAt(frame, i)]
RoomOf(units) == Len(FlattenSeq(units)) + 4 * Len(units)
Weight(frame, k) == RoomOf(First(AllExpected(frame), k))

\* Units weigh together what they weigh apart.
LEMMA RoomOfTwo ==
  ASSUME NEW a \in Chains, NEW b \in Chains
  PROVE  /\ a \o b \in Chains /\ RoomOf(a \o b) = RoomOf(a) + RoomOf(b)
         /\ RoomOf(a) \in Nat /\ RoomOf(b) \in Nat
<1>1. a \in Seq(Seq(Nat)) /\ b \in Seq(Seq(Nat))
  BY DEF Chains, Bytes
<1>2. a \o b \in Seq(Seq(Nat)) /\ Len(a \o b) = Len(a) + Len(b)
  BY <1>1, ConcatProperties
<1>3. FlattenSeq(a) \in Seq(Nat) /\ FlattenSeq(b) \in Seq(Nat)
  BY <1>1, FlatType
<1>4. FlattenSeq(a \o b) = FlattenSeq(a) \o FlattenSeq(b)
  BY <1>1, FlatConcat
<1>5. Len(FlattenSeq(a \o b)) = Len(FlattenSeq(a)) + Len(FlattenSeq(b))
  BY <1>3, <1>4, ConcatProperties
<1>6. /\ Len(FlattenSeq(a)) \in Nat /\ Len(FlattenSeq(b)) \in Nat
      /\ Len(a) \in Nat /\ Len(b) \in Nat
  BY <1>1, <1>3
<1> QED BY <1>2, <1>5, <1>6 DEF RoomOf, Chains, Bytes
\* A unit weighs its bytes and a long start code.
LEMMA RoomOfOne ==
  ASSUME NEW unit \in Bytes
  PROVE  /\ <<unit>> \in Chains /\ RoomOf(<<unit>>) = Len(unit) + 4
         /\ <<>> \in Chains /\ RoomOf(<<>>) = 0
<1>1. FlattenSeq(<<unit>>) = unit
  BY FlatOne DEF Bytes
<1>2. FlattenSeq(<<>>) = <<>>
  BY DEF FlattenSeq
<1>3. <<unit>> \in Chains /\ <<>> \in Chains /\ Len(<<unit>>) = 1
  BY DEF Chains
<1>4. Len(unit) \in Nat
  BY DEF Bytes
<1> QED BY <1>1, <1>2, <1>3, <1>4 DEF RoomOf

\* A pair is one behind the other.
LEMMA Pair ==
  ASSUME NEW S, NEW a \in S, NEW b \in S PROVE <<a>> \o <<b>> = <<a, b>>
<1> DEFINE one  == <<a>>
           two  == <<b>>
           both == <<a, b>>
<1>1. /\ one \in Seq(S) /\ Len(one) = 1 /\ one[1] = a
      /\ two \in Seq(S) /\ Len(two) = 1 /\ two[1] = b
      /\ both \in Seq(S) /\ Len(both) = 2 /\ both[1] = a /\ both[2] = b
  OBVIOUS
<1> HIDE DEF one, two, both
<1>2. \A x, y \in Seq(S) :
        /\ x \o y \in Seq(S) /\ Len(x \o y) = Len(x) + Len(y)
        /\ \A j \in 1..(Len(x) + Len(y)) :
             (x \o y)[j] = IF j <= Len(x) THEN x[j] ELSE y[j - Len(x)]
  BY ConcatProperties
<1>3. /\ one \o two \in Seq(S) /\ Len(one \o two) = 2
      /\ \A j \in 1..2 : (one \o two)[j] = IF j <= 1 THEN one[j] ELSE two[j - 1]
  BY <1>1, <1>2
<1>4. (one \o two)[1] = a /\ (one \o two)[2] = b
  BY <1>1, <1>3
<1>5. both = one \o two
  BY <1>1, <1>3, <1>4, SeqEqual
<1> QED BY <1>5 DEF one, two, both

\* A unit that is kept weighs its size and a start code, with what goes before.
LEMMA RoomOfExpected ==
  ASSUME NEW frame \in FrameType, NEW i \in 1..Len(frame)
  PROVE  /\ ExpectedAt(frame, i) \in Chains
         /\ RoomOf(ExpectedAt(frame, i))
              = IF ~Kept(frame, i) THEN 0
                ELSE (IF Opens(frame, i) THEN 6 ELSE 0)
                       + (IF NeedsSets(frame, i) THEN 11 ELSE 0)
                       + frame[i].size + 4
<1>1. CASE ~Kept(frame, i)
  <2>1. ExpectedAt(frame, i) = <<>>
    BY <1>1 DEF ExpectedAt
  <2>2. <<>> \in Bytes
    BY DEF Bytes
  <2> QED BY <1>1, <2>1, <2>2, RoomOfOne
<1>2. CASE Kept(frame, i)
  <2> DEFINE a == IF Opens(frame, i) THEN <<<<9, 240>>>> ELSE <<>>
             b == IF NeedsSets(frame, i) THEN <<Sps, Pps>> ELSE <<>>
             c == <<Unit(frame, i)>>
  <2>1. ExpectedAt(frame, i) = (a \o b) \o c
    BY <1>2 DEF ExpectedAt
  <2>2. /\ frame[i].size \in Nat /\ Unit(frame, i) \in Bytes
        /\ Len(Unit(frame, i)) = frame[i].size
    <3>1. frame[i].size \in Nat
      BY UnitParts
    <3>2. frame[i].size # 0
      BY <1>2, <3>1 DEF Kept
    <3> QED BY <3>1, <3>2, UnitParts
  <2>3. a \in Chains /\ RoomOf(a) = IF Opens(frame, i) THEN 6 ELSE 0
    <3> DEFINE d == <<9, 240>>
    <3>1. d \in Bytes /\ Len(d) = 2
      BY DEF Bytes
    <3>2. a = IF Opens(frame, i) THEN <<d>> ELSE <<>>
      OBVIOUS
    <3> HIDE DEF a, d
    <3>3. /\ <<d>> \in Chains /\ RoomOf(<<d>>) = Len(d) + 4
          /\ <<>> \in Chains /\ RoomOf(<<>>) = 0
      BY <3>1, RoomOfOne
    <3> QED BY <3>1, <3>2, <3>3
  <2>4. b \in Chains /\ RoomOf(b) = IF NeedsSets(frame, i) THEN 11 ELSE 0
    <3> DEFINE sps == Sps
               pps == Pps
               one == <<sps>>
               two == <<pps>>
    <3>1. sps \in Bytes /\ Len(sps) = 2 /\ pps \in Bytes /\ Len(pps) = 1
      BY DEF Bytes, Sps, Pps
    <3> HIDE DEF sps, pps
    <3>2. /\ one \in Chains /\ RoomOf(one) = Len(sps) + 4
          /\ two \in Chains /\ RoomOf(two) = Len(pps) + 4
          /\ <<>> \in Chains /\ RoomOf(<<>>) = 0
      BY <3>1, RoomOfOne
    <3>3. <<sps, pps>> = one \o two
      BY <3>1, Pair
    <3> HIDE DEF one, two
    <3>4. one \o two \in Chains /\ RoomOf(one \o two) = RoomOf(one) + RoomOf(two)
      BY <3>2, RoomOfTwo
    <3>5. b = IF NeedsSets(frame, i) THEN <<sps, pps>> ELSE <<>>
      BY DEF sps, pps
    <3> HIDE DEF b
    <3>6. CASE NeedsSets(frame, i)
      <4>1. b = one \o two
        BY <3>3, <3>5, <3>6
      <4>2. RoomOf(one) + RoomOf(two) = 11
        BY <3>1, <3>2
      <4> QED BY <3>4, <3>6, <4>1, <4>2
    <3>7. CASE ~NeedsSets(frame, i)
      <4>1. b = <<>>
        BY <3>5, <3>7
      <4> QED BY <3>2, <3>7, <4>1
    <3> QED BY <3>6, <3>7
  <2>5. c \in Chains /\ RoomOf(c) = frame[i].size + 4
    BY <2>2, RoomOfOne
  <2> HIDE DEF a, b, c
  <2>6. a \o b \in Chains /\ RoomOf(a \o b) = RoomOf(a) + RoomOf(b)
    BY <2>3, <2>4, RoomOfTwo
  <2>7. (a \o b) \o c \in Chains /\ RoomOf((a \o b) \o c) = RoomOf(a \o b) + RoomOf(c)
    BY <2>5, <2>6, RoomOfTwo
  <2>8. RoomOf(ExpectedAt(frame, i))
          = (IF Opens(frame, i) THEN 6 ELSE 0)
              + (IF NeedsSets(frame, i) THEN 11 ELSE 0) + (frame[i].size + 4)
    BY <2>1, <2>3, <2>4, <2>5, <2>6, <2>7
  <2> QED BY <1>2, <2>1, <2>2, <2>7, <2>8
<1> QED BY <1>1, <1>2

\* The weight grows from unit to unit up to that of the frame.
LEMMA WeightSteps ==
  ASSUME NEW frame \in FrameType
  PROVE  /\ Weight(frame, 0) = 0
         /\ \A k \in 0..Len(frame) : /\ Weight(frame, k) \in Nat
                                     /\ Weight(frame, k) <= Weight(frame, Len(frame))
         /\ \A k \in 0..(Len(frame) - 1) :
              Weight(frame, k + 1) = Weight(frame, k) + RoomOf(ExpectedAt(frame, k + 1))
         /\ HasRoom(frame) => Weight(frame, Len(frame)) + 1 <= Capacity
<1> DEFINE N == Len(frame)
           all == AllExpected(frame)
<1>1. N \in Nat /\ DOMAIN frame = 1..N
  BY DEF FrameType
<1>2. \A i \in 1..N : ExpectedAt(frame, i) \in Chains
  BY RoomOfExpected
<1>3. all \in Seq(Chains) /\ Len(all) = N /\ \A i \in 1..N : all[i] = ExpectedAt(frame, i)
  <2>1. all = [i \in 1..N |-> ExpectedAt(frame, i)]
    BY <1>1 DEF AllExpected
  <2> HIDE DEF all, N
  <2> QED BY <1>1, <1>2, <2>1
<1>4. Expected(frame) = FlattenSeq(all)
  BY DEF Expected, AllExpected, ExpectedAt
<1>5. \A k : Weight(frame, k) = RoomOf(First(all, k))
  BY DEF Weight
<1> HIDE DEF all
<1>6. /\ First(all, 0) = <<>> /\ First(all, N) = FlattenSeq(all)
      /\ \A k \in 0..N : First(all, k) \in Chains
      /\ \A k \in 1..N : First(all, k) = First(all, k - 1) \o all[k]
  <2>1. all \in Seq(Seq(Bytes))
    BY <1>3 DEF Chains
  <2> QED BY <1>3, <2>1, FirstSteps DEF Chains
<1>7. Weight(frame, 0) = 0
  <2>1. <<>> \in Bytes
    BY DEF Bytes
  <2> QED BY <1>5, <1>6, <2>1, RoomOfOne
<1>8. \A k \in 0..N : Weight(frame, k) \in Nat
  BY <1>5, <1>6, RoomOfTwo
<1>9. ASSUME NEW k \in 0..(N - 1)
      PROVE  /\ Weight(frame, k + 1) = Weight(frame, k) + RoomOf(ExpectedAt(frame, k + 1))
             /\ Weight(frame, k) <= Weight(frame, k + 1)
  <2>1. /\ k + 1 \in 1..N /\ (k + 1) - 1 = k /\ k \in 0..N
        /\ First(all, k) \in Chains /\ all[k + 1] = ExpectedAt(frame, k + 1)
        /\ ExpectedAt(frame, k + 1) \in Chains
    BY <1>1, <1>2, <1>3, <1>6
  <2>2. First(all, k + 1) = First(all, k) \o ExpectedAt(frame, k + 1)
    BY <1>6, <2>1
  <2>3. /\ RoomOf(First(all, k + 1))
             = RoomOf(First(all, k)) + RoomOf(ExpectedAt(frame, k + 1))
        /\ RoomOf(First(all, k)) \in Nat /\ RoomOf(ExpectedAt(frame, k + 1)) \in Nat
    BY <2>1, <2>2, RoomOfTwo
  <2> QED BY <1>5, <2>3
<1>10. ASSUME NEW k \in 0..N PROVE Weight(frame, k) <= Weight(frame, N)
  <2> DEFINE T == {n \in 0..(N - k) : Weight(frame, k) <= Weight(frame, k + n)}
  <2>1. 0 \in T
    <3>1. k + 0 = k /\ Weight(frame, k) \in Nat
      BY <1>8
    <3> QED BY <1>1, <3>1
  <2>2. ASSUME NEW n \in 0..((N - k) - 1), n \in T PROVE n + 1 \in T
    <3>1. k + n \in 0..(N - 1) /\ k + (n + 1) = (k + n) + 1 /\ n + 1 \in 0..(N - k)
          /\ k + n \in 0..N /\ (k + n) + 1 \in 0..N
      BY <1>1
    <3>2. Weight(frame, k + n) <= Weight(frame, (k + n) + 1)
      BY <1>9, <3>1
    <3>3. Weight(frame, k) <= Weight(frame, k + n)
      BY <2>2
    <3>4. /\ Weight(frame, k) \in Nat /\ Weight(frame, k + n) \in Nat
          /\ Weight(frame, (k + n) + 1) \in Nat
      BY <1>8, <3>1
    <3> QED BY <3>1, <3>2, <3>3, <3>4
  <2>3. N - k \in T
    <3> HIDE DEF T
    <3>1. N - k \in Nat
      BY <1>1
    <3>2. 0..(N - k) \subseteq T
      BY <2>1, <2>2, <3>1, UpTo
    <3> QED BY <3>1, <3>2
  <2>4. k + (N - k) = N
    BY <1>1
  <2> QED BY <2>3, <2>4
<1>11. HasRoom(frame) => Weight(frame, N) + 1 <= Capacity
  BY <1>4, <1>5, <1>6 DEF HasRoom, RoomOf
<1> QED BY <1>7, <1>8, <1>9, <1>10, <1>11

-----------------------------------------------------------------------------
(* What the parameter sets of the codec's header weigh.                    *)

\* A chain that holds the header from its byte p + 1 to where it is cut short,
\* and n bytes of the header.
AtHeader(in, p, end) ==
  in \in Chains /\ p <= end /\ FlattenSeq(in) = SubSeq(HeaderBytes, p + 1, end)
HeaderPart(p, n) == SubSeq(HeaderBytes, p + 1, p + n)

\* What is read of the header, in whichever buffers and wherever it is cut
\* short, is what it says there.
LEMMA HeaderCopy ==
  ASSUME NEW in, NEW p \in 0..19, NEW end \in 0..19, NEW n \in Nat,
         AtHeader(in, p, end), Copy(in, n).ok, NEW q, q = p + n
  PROVE  Copy(in, n).bytes = HeaderPart(p, n) /\ AtHeader(Copy(in, n).in, q, end)
<1> DEFINE H == HeaderBytes
           x == SubSeq(H, p + 1, q)
           y == SubSeq(H, q + 1, end)
<1>1. H \in Seq(Nat) /\ Len(H) = 19
  BY DEF HeaderBytes, Sps, Pps
<1>2. in \in Chains /\ p <= end /\ FlattenSeq(in) = SubSeq(H, p + 1, end)
  BY DEF AtHeader
<1> HIDE DEF H
<1>3. \A m, k \in Int : 1 <= m /\ k <= 19
        => /\ SubSeq(H, m, k) \in Bytes
           /\ Len(SubSeq(H, m, k)) = IF m <= k THEN k - m + 1 ELSE 0
  <2> TAKE m, k \in Int
  <2> HAVE 1 <= m /\ k <= 19
  <2>1. \A i \in m..k : i \in 1..Len(H)
    BY <1>1
  <2>2. \A i \in 1..Len(H) : H[i] \in Nat
    BY <1>1, ElementOfSeq
  <2> QED BY <2>1, <2>2, SubSeqProperties DEF Bytes
<1>4. in # <<>> /\ n <= end - p
  <2>1. Copied(in, n, Copy(in, n))
    BY <1>2, CopySpec
  <2>2. in # <<>> /\ n <= Len(FlattenSeq(in))
    BY <2>1 DEF Copied
  <2>3. Len(FlattenSeq(in)) = IF p + 1 <= end THEN end - (p + 1) + 1 ELSE 0
    BY <1>2, <1>3
  <2> QED BY <1>2, <2>2, <2>3
<1>5. q \in p..end /\ q \in Nat /\ q <= end
  BY <1>4
<1>6. x \in Bytes /\ y \in Bytes /\ Len(x) = n
  <2>1. x \in Bytes /\ Len(x) = IF p + 1 <= q THEN q - (p + 1) + 1 ELSE 0
    BY <1>3, <1>5
  <2>2. y \in Bytes
    BY <1>3, <1>5
  <2> QED BY <2>1, <2>2
<1>7. SubSeq(H, p + 1, end) = x \o y
  <2>1. p + 1 \in 1..(Len(H) + 1) /\ q \in ((p + 1) - 1)..Len(H) /\ end \in q..Len(H)
    BY <1>1, <1>5
  <2> QED BY <1>1, <2>1, ConcatAdjacentSubSeq
<1> HIDE DEF x, y
<1>8. Had(in, n, x, y)
  BY <1>2, <1>4, <1>6, <1>7, CopyPrefix
<1>9. x = HeaderPart(p, n) /\ y = SubSeq(HeaderBytes, q + 1, end)
  BY DEF x, y, H, HeaderPart
<1> QED BY <1>5, <1>8, <1>9 DEF Had, AtHeader, Tight
\* These are the bytes that matter.
LEMMA HeaderSays ==
  /\ HeaderPart(10, 1) = <<225>> /\ HeaderPart(11, 2) = <<0, 2>>
  /\ HeaderPart(13, 2) = Sps /\ HeaderPart(18, 1) = Pps
  /\ HeaderPart(15, 1) = <<1>> /\ HeaderPart(16, 2) = <<0, 1>>
  /\ Number(<<225>>) % 32 = 1 /\ Number(<<0, 2>>) = 2
  /\ Number(<<1>>) = 1 /\ Number(<<0, 1>>) = 1
<1> DEFINE H == HeaderBytes
<1>1. /\ H \in Seq(Nat) /\ Len(H) = 19 /\ H[11] = 225 /\ H[12] = 0 /\ H[13] = 2
      /\ H[14] = 103 /\ H[15] = 66 /\ H[16] = 1 /\ H[17] = 0 /\ H[18] = 1
      /\ H[19] = 104
  BY DEF HeaderBytes, Sps, Pps
<1>2. \A p, n : HeaderPart(p, n) = SubSeq(H, p + 1, p + n)
  BY DEF HeaderPart
<1> HIDE DEF H
<1>3. \A i \in 1..19 : H[i] \in Nat
  BY <1>1, ElementOfSeq
<1>4. /\ \A i \in 1..19 : SubSeq(H, i, i) = <<H[i]>>
      /\ \A i \in 1..18 : SubSeq(H, i, i + 1) = <<H[i], H[i + 1]>>
  <2>1. ASSUME NEW i \in 1..19 PROVE SubSeq(H, i, i) = <<H[i]>>
    <3> DEFINE x == SubSeq(H, i, i)
    <3>1. \A j \in i..i : H[j] \in Nat
      BY <1>3
    <3>2. /\ x \in Seq(Nat) /\ Len(x) = IF i <= i THEN i - i + 1 ELSE 0
          /\ \A j \in 1..(i - i + 1) : x[j] = H[i + j - 1]
      BY <3>1, SubSeqProperties
    <3> HIDE DEF x
    <3>3. Len(x) = 1 /\ i + 1 - 1 = i /\ 1 \in 1..(i - i + 1)
      BY <3>2
    <3>4. x[1] = H[i]
      BY <3>2, <3>3
    <3>5. x = <<x[1]>>
      BY <3>2, <3>3
    <3> QED BY <3>4, <3>5 DEF x
  <2>2. ASSUME NEW i \in 1..18 PROVE SubSeq(H, i, i + 1) = <<H[i], H[i + 1]>>
    <3> DEFINE k == i + 1
               x == SubSeq(H, i, k)
    <3>1. k \in Int /\ \A j \in i..k : H[j] \in Nat
      BY <1>3
    <3>2. i <= k /\ k - i + 1 = 2 /\ i + 1 - 1 = i /\ i + 2 - 1 = k
      OBVIOUS
    <3> HIDE DEF k
    <3>3. /\ x \in Seq(Nat) /\ Len(x) = IF i <= k THEN k - i + 1 ELSE 0
          /\ \A j \in 1..(k - i + 1) : x[j] = H[i + j - 1]
      BY <3>1, SubSeqProperties
    <3> HIDE DEF x
    <3>4. Len(x) = 2 /\ 1 \in 1..(k - i + 1) /\ 2 \in 1..(k - i + 1)
      BY <3>2, <3>3
    <3>5. x[1] = H[i] /\ x[2] = H[k]
      BY <3>2, <3>3, <3>4
    <3>6. x = <<x[1], x[2]>>
      BY <3>3, <3>4
    <3> QED BY <3>5, <3>6 DEF x, k
  <2> QED BY <2>1, <2>2
<1>5. HeaderPart(10, 1) = <<225>> /\ HeaderPart(15, 1) = <<1>>
  <2>1. 10 + 1 = 11 /\ 15 + 1 = 16 /\ 11 \in 1..19 /\ 16 \in 1..19
    OBVIOUS
  <2>2. HeaderPart(10, 1) = SubSeq(H, 11, 11) /\ HeaderPart(15, 1) = SubSeq(H, 16, 16)
    BY <1>2, <2>1
  <2>3. SubSeq(H, 11, 11) = <<H[11]>> /\ SubSeq(H, 16, 16) = <<H[16]>>
    BY <1>4, <2>1
  <2> QED BY <1>1, <2>2, <2>3
<1>6. HeaderPart(11, 2) = <<0, 2>> /\ HeaderPart(16, 2) = <<0, 1>>
  <2>1. /\ 11 + 1 = 12 /\ 11 + 2 = 13 /\ 16 + 1 = 17 /\ 16 + 2 = 18
        /\ 12 + 1 = 13 /\ 17 + 1 = 18 /\ 12 \in 1..18 /\ 17 \in 1..18
    OBVIOUS
  <2>2. HeaderPart(11, 2) = SubSeq(H, 12, 13) /\ HeaderPart(16, 2) = SubSeq(H, 17, 18)
    BY <1>2, <2>1
  <2>3. SubSeq(H, 12, 13) = <<H[12], H[13]>> /\ SubSeq(H, 17, 18) = <<H[17], H[18]>>
    BY <1>4, <2>1
  <2> QED BY <1>1, <2>2, <2>3
<1>7. /\ Number(<<225>>) = 225 /\ Number(<<0, 2>>) = 2
      /\ Number(<<1>>) = 1 /\ Number(<<0, 1>>) = 1
  BY DEF Number
<1>8. 225 % 32 = 1
  OBVIOUS
<1>9. HeaderPart(13, 2) = <<103, 66>> /\ HeaderPart(18, 1) = <<104>>
  <2>1. /\ 13 + 1 = 14 /\ 13 + 2 = 15 /\ 18 + 1 = 19
        /\ 14 + 1 = 15 /\ 14 \in 1..18 /\ 19 \in 1..19
    OBVIOUS
  <2>2. HeaderPart(13, 2) = SubSeq(H, 14, 15) /\ HeaderPart(18, 1) = SubSeq(H, 19, 19)
    BY <1>2, <2>1
  <2>3. SubSeq(H, 14, 15) = <<H[14], H[15]>> /\ SubSeq(H, 19, 19) = <<H[19]>>
    BY <1>4, <2>1
  <2> QED BY <1>1, <2>2, <2>3
<1>10. HeaderPart(13, 2) = Sps /\ HeaderPart(18, 1) = Pps
  BY <1>9 DEF Sps, Pps
<1> QED BY <1>5, <1>6, <1>7, <1>8, <1>10

\* One parameter set is one.
LEMMA OneSet ==
  ASSUME NEW out, Room(out), NEW in \in Chains
  PROVE  AppendSets(out, in, 1) = AppendSet([ok |-> TRUE, out |-> out, in |-> in])
<1> DEFINE first == [ok |-> TRUE, out |-> out, in |-> in]
           Is(f) == f = [k \in 0..1 |-> IF k = 0 THEN first ELSE AppendSet(f[k - 1])]
           after == CHOOSE f : Is(f)
           g == [k \in 0..1 |-> IF k = 0 THEN first ELSE AppendSet(first)]
<1>1. Is(g)
  <2>1. \A k \in 0..1 : k # 0 => k = 1 /\ k - 1 = 0 /\ 0 \in 0..1
    OBVIOUS
  <2> HIDE DEF first
  <2>2. g[0] = first
    OBVIOUS
  <2>3. \A k \in 0..1 : k # 0 => g[k - 1] = first
    BY <2>1, <2>2
  <2>4. g = [k \in 0..1 |-> IF k = 0 THEN first ELSE AppendSet(g[k - 1])]
    <3> DEFINE h == [k \in 0..1 |-> IF k = 0 THEN first ELSE AppendSet(g[k - 1])]
    <3>1. \A k \in 0..1 : g[k] = h[k]
      BY <2>1, <2>3
    <3> QED BY <3>1
  <2> QED BY <2>4
<1>2. AppendSets(out, in, 1) = after[1]
  BY DEF AppendSets
<1> HIDE DEF first, g
<1>3. Is(after)
  BY <1>1
<1> HIDE DEF after
<1>4. after[1] = AppendSet(after[0]) /\ after[0] = first
  <2>1. 1 \in 0..1 /\ 0 \in 0..1 /\ 1 - 1 = 0 /\ 1 # 0
    OBVIOUS
  <2> QED BY <1>3, <2>1
<1> QED BY <1>2, <1>4 DEF first

-----------------------------------------------------------------------------
(* What a decoder reads.                                                   *)

\* Of sequences that are all empty but one, that one is left.
LEMMA OnlyOne ==
  ASSUME NEW S, NEW in \in Seq(Seq(S)), NEW p \in 1..Len(in),
         \A i \in 1..Len(in) : i # p => in[i] = <<>>
  PROVE  FlattenSeq(in) = in[p]
<1> DEFINE N == Len(in)
           T == {k \in 0..N : First(in, k) = IF k < p THEN <<>> ELSE in[p]}
<1>1. /\ First(in, 0) = <<>> /\ First(in, N) = FlattenSeq(in)
      /\ \A k \in 1..N : First(in, k) = First(in, k - 1) \o in[k]
  BY FirstSteps
<1>2. N \in Nat /\ in[p] \in Seq(S)
  OBVIOUS
<1>3. 0 \in T
  BY <1>1, <1>2
<1>4. ASSUME NEW k \in 0..(N - 1), k \in T PROVE k + 1 \in T
  <2>1. k + 1 \in 1..N /\ (k + 1) - 1 = k /\ k + 1 \in 0..N
    <3>1. N \in Nat
      BY <1>2
    <3> HIDE DEF N, T
    <3> QED BY <3>1
  <2>2. First(in, k + 1) = First(in, k) \o in[k + 1]
    BY <1>1, <2>1
  <2>3. /\ <<>> \o <<>> = <<>> /\ <<>> \o in[p] = in[p] /\ in[p] \o <<>> = in[p]
    BY <1>2, ConcatEmptySeq
  <2>4. /\ First(in, k) = IF k < p THEN <<>> ELSE in[p]
        /\ k + 1 # p => in[k + 1] = <<>>
    BY <1>4, <2>1
  <2> DEFINE x == in[p]
             y == in[k + 1]
  <2>5. y = IF k + 1 = p THEN x ELSE <<>>
    BY <2>4
  <2>6. First(in, k + 1) = IF k + 1 < p THEN <<>> ELSE x
    <3> HIDE DEF x, y
    <3>1. k \in Int /\ p \in Int
      OBVIOUS
    <3>2. CASE k + 1 < p
      <4>1. First(in, k) = <<>> /\ y = <<>>
        BY <2>4, <2>5, <3>1, <3>2
      <4> QED BY <2>2, <2>3, <3>2, <4>1 DEF y
    <3>3. CASE k + 1 = p
      <4>1. First(in, k) = <<>> /\ y = x
        BY <2>4, <2>5, <3>1, <3>3
      <4> QED BY <2>2, <2>3, <3>1, <3>3, <4>1 DEF x, y
    <3>4. CASE k + 1 > p
      <4>1. First(in, k) = in[p] /\ in[k + 1] = <<>>
        BY <2>4, <3>1, <3>4
      <4> QED BY <2>2, <2>3, <3>1, <3>4, <4>1 DEF x
    <3> QED BY <3>1, <3>2, <3>3, <3>4
  <2> QED BY <2>1, <2>6
<1>5. N \in T
  <2> HIDE DEF T, N
  <2>1. 0..N \subseteq T
    BY <1>2, <1>3, <1>4, UpTo
  <2> QED BY <1>2, <2>1
<1> QED BY <1>1, <1>2, <1>5

\* One more behind a sequence.
LEMMA OneMore ==
  ASSUME NEW S, NEW s \in Seq(S), NEW x \in S
  PROVE  /\ s \o <<x>> \in Seq(S) /\ Len(s \o <<x>>) = Len(s) + 1
         /\ (s \o <<x>>)[Len(s) + 1] = x /\ Len(s) \in Nat
         /\ \A i \in 1..Len(s) : (s \o <<x>>)[i] = s[i]
<1> DEFINE more == Append(s, x)
<1>1. more = s \o <<x>>
  BY AppendIsConcat
<1>2. /\ more \in Seq(S) /\ Len(more) = Len(s) + 1 /\ more[Len(s) + 1] = x
      /\ Len(s) \in Nat /\ \A i \in 1..Len(s) : more[i] = s[i]
  OBVIOUS
<1> HIDE DEF more
<1> QED BY <1>1, <1>2

\* A start code is three bytes.
LEMMA StartCodeAt ==
  ASSUME NEW out \in Bytes, NEW i \in Int
  PROVE  StartCode(out, i) <=> /\ i >= 1 /\ i + 2 <= Len(out)
                               /\ out[i] = 0 /\ out[i + 1] = 0 /\ out[i + 2] = 1
<1> SUFFICES ASSUME i >= 1, i + 2 <= Len(out)
             PROVE  SubSeq(out, i, i + 2) = <<0, 0, 1>>
                      <=> out[i] = 0 /\ out[i + 1] = 0 /\ out[i + 2] = 1
  BY DEF StartCode
<1> DEFINE k == i + 2
           some == SubSeq(out, i, k)
<1>1. /\ some \in Seq(Nat) /\ Len(some) = 3
      /\ some[1] = out[i] /\ some[2] = out[i + 1] /\ some[3] = out[i + 2]
  <2>1. out \in Seq(Nat) /\ Len(out) \in Nat
    BY DEF Bytes
  <2>2. k \in Int /\ \A j \in i..k : out[j] \in Nat
    BY <2>1, ElementOfSeq
  <2>3. i \in Int /\ k \in Int /\ i <= k /\ k - i + 1 = 3
    OBVIOUS
  <2> HIDE DEF k
  <2>4. /\ some \in Seq(Nat) /\ Len(some) = IF i <= k THEN k - i + 1 ELSE 0
        /\ \A j \in 1..(k - i + 1) : some[j] = out[i + j - 1]
    BY <2>2, SubSeqProperties
  <2> HIDE DEF some
  <2>5. i + 1 - 1 = i /\ i + 2 - 1 = i + 1 /\ i + 3 - 1 = i + 2
    OBVIOUS
  <2>6. Len(some) = 3 /\ \A j \in 1..3 : some[j] = out[i + j - 1]
    <3>1. Len(some) = k - i + 1
      BY <2>3, <2>4
    <3> QED BY <2>3, <2>4, <3>1
  <2>7. some[1] = out[i + 1 - 1] /\ some[2] = out[i + 2 - 1] /\ some[3] = out[i + 3 - 1]
    BY <2>6
  <2> QED BY <2>4, <2>5, <2>6, <2>7
<1> HIDE DEF some
<1>2. some = <<some[1], some[2], some[3]>>
  BY <1>1
<1> QED BY <1>1, <1>2 DEF some, k

\* The start codes that avcc_to_annexb writes, and what it writes behind them.
Codes == {Prefix, Tail(Prefix)}
Solid(unit) == unit \in Bytes /\ \A j \in 1..Len(unit) : unit[j] # 0
LEMMA CodeBytes ==
  ASSUME NEW code \in Codes
  PROVE  /\ code \in Bytes /\ Len(code) \in {3, 4} /\ code[Len(code)] = 1
         /\ \A j \in 1..(Len(code) - 1) : code[j] = 0
<1>1. ASSUME NEW c, c = <<0, 0, 0, 1>>
      PROVE  /\ c \in Seq(Nat) /\ Len(c) = 4 /\ c[4] = 1
             /\ c[1] = 0 /\ c[2] = 0 /\ c[3] = 0
  BY <1>1
<1>2. ASSUME NEW c, c = <<0, 0, 1>>
      PROVE  c \in Seq(Nat) /\ Len(c) = 3 /\ c[3] = 1 /\ c[1] = 0 /\ c[2] = 0
  BY <1>2
<1>3. Prefix = <<0, 0, 0, 1>> /\ Tail(Prefix) = <<0, 0, 1>>
  BY DEF Prefix
<1>4. CASE code = Prefix
  BY <1>1, <1>3, <1>4 DEF Bytes
<1>5. CASE code = Tail(Prefix)
  BY <1>2, <1>3, <1>5 DEF Bytes
<1> QED BY <1>4, <1>5 DEF Codes

\* An output that ends in a unit, and how far it is from its start codes to its
\* end.
Sound(out) ==
  /\ out \in Bytes /\ (out # <<>> => out[Len(out)] # 0)
  /\ Starts(out) \in Seq(Nat)
  /\ \A k \in 1..Len(Starts(out)) :
       Starts(out)[k] >= 1 /\ Starts(out)[k] + 2 <= Len(out)

\* Three sequences of bytes behind each other, byte by byte.
Behind(x, y, z, all) ==
  /\ all \in Bytes /\ Len(all) = Len(x) + Len(y) + Len(z)
  /\ Len(x) \in Nat /\ Len(y) \in Nat /\ Len(z) \in Nat
  /\ \A i \in 1..Len(x) : all[i] = x[i]
  /\ \A i \in 1..Len(y) : all[Len(x) + i] = y[i]
  /\ \A i \in 1..Len(z) : all[Len(x) + Len(y) + i] = z[i]
\* Three sequences are one behind two others.
LEMMA BehindThree ==
  ASSUME NEW out \in Bytes, NEW code \in Bytes, NEW unit \in Bytes
  PROVE  Behind(out, code, unit, (out \o code) \o unit)
<1> DEFINE L == Len(out)
           C == Len(code)
           U == Len(unit)
           both == out \o code
           more == both \o unit
<1>0. \A x, y \in Seq(Nat) :
        /\ x \o y \in Seq(Nat) /\ Len(x \o y) = Len(x) + Len(y)
        /\ \A i \in 1..(Len(x) + Len(y)) :
             (x \o y)[i] = IF i <= Len(x) THEN x[i] ELSE y[i - Len(x)]
  BY ConcatProperties
<1>1. /\ out \in Seq(Nat) /\ code \in Seq(Nat) /\ unit \in Seq(Nat)
      /\ L \in Nat /\ C \in Nat /\ U \in Nat
  BY DEF Bytes
<1>2. /\ both \in Seq(Nat) /\ Len(both) = L + C
      /\ \A i \in 1..(L + C) : both[i] = IF i <= L THEN out[i] ELSE code[i - L]
  BY <1>0, <1>1
<1> HIDE DEF both
<1>3. /\ more \in Seq(Nat) /\ Len(more) = L + C + U
      /\ \A i \in 1..(L + C + U) :
           more[i] = IF i <= L + C THEN both[i] ELSE unit[i - (L + C)]
  <2>1. /\ more \in Seq(Nat) /\ Len(more) = Len(both) + Len(unit)
        /\ \A i \in 1..(Len(both) + Len(unit)) :
             more[i] = IF i <= Len(both) THEN both[i] ELSE unit[i - Len(both)]
    BY <1>0, <1>1, <1>2
  <2> HIDE DEF more
  <2> QED BY <1>2, <2>1
<1> HIDE DEF more, L, C, U
<1>4. ASSUME NEW i \in 1..L PROVE more[i] = out[i]
  BY <1>1, <1>2, <1>3
<1>5. ASSUME NEW i \in 1..C PROVE more[L + i] = code[i]
  <2>1. L + i \in 1..(L + C) /\ L + i \in 1..(L + C + U) /\ ~(L + i <= L) /\ (L + i) - L = i
    BY <1>1
  <2> QED BY <1>1, <1>2, <1>3, <2>1
<1>6. ASSUME NEW i \in 1..U PROVE more[L + C + i] = unit[i]
  <2>1. L + C + i \in 1..(L + C + U) /\ ~(L + C + i <= L + C) /\ (L + C + i) - (L + C) = i
    BY <1>1
  <2> QED BY <1>1, <1>3, <2>1
<1> QED BY <1>1, <1>3, <1>4, <1>5, <1>6 DEF more, both, L, C, U, Bytes, Behind

\* is one start code more,
Marks(out) == [i \in DOMAIN out |-> IF StartCode(out, i) THEN <<i>> ELSE <<>>]
LEMMA MoreStarts ==
  ASSUME NEW out, Sound(out), NEW code \in Codes, NEW unit, Solid(unit)
  PROVE  Starts((out \o code) \o unit)
           = Starts(out) \o <<Len(out) + Len(code) - 2>>
<1> DEFINE L == Len(out)
           C == Len(code)
           U == Len(unit)
           N == L + C + U
           m == L + C - 2
           more == (out \o code) \o unit
           old == Marks(out)
           all == Marks(more)
           new == [i \in 1..(C + U) |-> all[L + i]]
<1>1. /\ out \in Bytes /\ code \in Bytes /\ unit \in Bytes /\ C \in {3, 4}
      /\ code[C] = 1 /\ \A j \in 1..(C - 1) : code[j] = 0
      /\ out # <<>> => out[L] # 0
      /\ \A j \in 1..U : unit[j] # 0
  BY CodeBytes DEF Sound, Solid
<1>2. /\ more \in Bytes /\ Len(more) = N /\ L \in Nat /\ C \in Nat /\ U \in Nat
      /\ \A i \in 1..L : more[i] = out[i]
      /\ \A i \in 1..C : more[L + i] = code[i]
      /\ \A i \in 1..U : more[L + C + i] = unit[i]
  <2>1. Behind(out, code, unit, more)
    BY <1>1, BehindThree
  <2> HIDE DEF more
  <2> QED BY <2>1 DEF Behind
<1>3. DOMAIN out = 1..L /\ DOMAIN more = 1..N /\ (L # 0 => out # <<>>)
  BY <1>1, <1>2 DEF Bytes
<1> HIDE DEF more
<1>4. /\ old = [i \in 1..L |-> IF StartCode(out, i) THEN <<i>> ELSE <<>>]
      /\ all = [i \in 1..N |-> IF StartCode(more, i) THEN <<i>> ELSE <<>>]
      /\ Starts(out) = FlattenSeq(old) /\ Starts(more) = FlattenSeq(all)
  BY <1>3 DEF Marks, Starts
<1> HIDE DEF old, all
<1>5. old \in Seq(Seq(Nat)) /\ Len(old) = L /\ all \in Seq(Seq(Nat)) /\ Len(all) = N
  <2>1. N \in Nat
    BY <1>2
  <2> HIDE DEF L, N
  <2>2. \A i \in Nat : <<i>> \in Seq(Nat) /\ <<>> \in Seq(Nat)
    OBVIOUS
  <2>3. \A i \in 1..L : old[i] \in Seq(Nat)
    BY <1>2, <1>4, <2>2
  <2>4. \A i \in 1..N : all[i] \in Seq(Nat)
    BY <1>4, <2>1, <2>2
  <2>5. old = [i \in 1..L |-> old[i]]
    BY <1>4
  <2>6. all = [i \in 1..N |-> all[i]]
    BY <1>4
  <2>7. \A f, n : n \in Nat /\ f = [i \in 1..n |-> f[i]]
                 /\ (\A i \in 1..n : f[i] \in Seq(Nat))
                 => f \in Seq(Seq(Nat)) /\ Len(f) = n
    OBVIOUS
  <2>8. old \in Seq(Seq(Nat)) /\ Len(old) = L
    <3>1. L \in Nat
      BY <1>2
    <3> QED BY <2>3, <2>5, <2>7, <3>1
  <2>9. all \in Seq(Seq(Nat)) /\ Len(all) = N
    BY <2>1, <2>4, <2>6, <2>7
  <2> QED BY <2>8, <2>9
<1>6. new \in Seq(Seq(Nat)) /\ Len(new) = C + U /\ \A i \in 1..(C + U) : new[i] = all[L + i]
  <2>1. C + U \in Nat /\ \A i \in 1..(C + U) : L + i \in 1..N
    BY <1>2
  <2> HIDE DEF N
  <2>2. \A i \in 1..(C + U) : all[L + i] \in Seq(Nat)
    BY <1>5, <2>1
  <2> HIDE DEF L, C, U
  <2> QED BY <2>1, <2>2
<1> HIDE DEF new
<1>7. ASSUME NEW i \in 1..L PROVE StartCode(more, i) <=> StartCode(out, i)
  <2>1. CASE i + 2 <= L
    <3>1. i + 1 \in 1..L /\ i + 2 \in 1..L /\ i + 2 <= N
      BY <1>2, <2>1
    <3>2. more[i] = out[i] /\ more[i + 1] = out[i + 1] /\ more[i + 2] = out[i + 2]
      BY <1>2, <3>1
    <3>3. i \in Int /\ i >= 1
      OBVIOUS
    <3>4. StartCode(more, i) <=> /\ i >= 1 /\ i + 2 <= Len(more)
                                 /\ more[i] = 0 /\ more[i + 1] = 0 /\ more[i + 2] = 1
      BY <1>2, <3>3, StartCodeAt
    <3>5. StartCode(out, i) <=> /\ i >= 1 /\ i + 2 <= Len(out)
                                /\ out[i] = 0 /\ out[i + 1] = 0 /\ out[i + 2] = 1
      BY <1>1, <3>3, StartCodeAt
    <3> QED BY <1>2, <2>1, <3>1, <3>2, <3>3, <3>4, <3>5
  <2>2. CASE i + 2 > L
    <3>1. ~StartCode(out, i)
      BY <1>1, <2>2, StartCodeAt
    <3>2. i = L \/ i + 1 = L
      BY <1>2, <2>2
    <3>3. more[L] # 0
      <4>1. L \in 1..L /\ out[L] # 0
        BY <1>1, <1>2, <1>3
      <4> QED BY <1>2, <4>1
    <3>4. ~StartCode(more, i)
      <4>1. CASE i = L
        BY <1>2, <3>3, <4>1, StartCodeAt
      <4>2. CASE i + 1 = L
        <5>1. more[i + 1] # 0
          BY <3>3, <4>2
        <5> QED BY <1>2, <5>1, StartCodeAt
      <4> QED BY <3>2, <4>1, <4>2
    <3> QED BY <3>1, <3>4
  <2> QED BY <1>2, <2>1, <2>2
<1>8. ASSUME NEW i \in 1..(C + U) PROVE StartCode(more, L + i) <=> i = C - 2
  <2>1. L + i \in Int
    BY <1>2
  <2>2. StartCode(more, L + i)
          <=> /\ L + i >= 1 /\ (L + i) + 2 <= N /\ more[L + i] = 0
              /\ more[(L + i) + 1] = 0 /\ more[(L + i) + 2] = 1
    BY <1>2, <2>1, StartCodeAt
  <2>3. CASE i < C - 2
    <3>1. i + 2 \in 1..C /\ i + 2 \in 1..(C - 1) /\ (L + i) + 2 = L + (i + 2)
      BY <1>1, <1>2, <2>3
    <3>2. more[(L + i) + 2] = 0
      BY <1>1, <1>2, <3>1
    <3> QED BY <2>2, <2>3, <3>2
  <2>4. CASE i = C - 2
    <3>1. /\ i \in 1..C /\ i \in 1..(C - 1) /\ i + 1 \in 1..C /\ i + 1 \in 1..(C - 1)
          /\ i + 2 = C /\ C \in 1..C /\ (L + i) + 2 = L + C /\ (L + i) + 1 = L + (i + 1)
          /\ L + i >= 1 /\ (L + i) + 2 <= N
      BY <1>1, <1>2, <2>4
    <3>2. more[L + i] = 0 /\ more[(L + i) + 1] = 0 /\ more[(L + i) + 2] = 1
      BY <1>1, <1>2, <3>1
    <3> QED BY <2>2, <2>4, <3>1, <3>2
  <2>5. CASE i = C - 1
    <3>1. (L + i) + 1 = L + C /\ C \in 1..C
      BY <1>1, <1>2, <2>5
    <3>2. more[(L + i) + 1] = 1
      BY <1>1, <1>2, <3>1
    <3> QED BY <2>2, <2>5, <3>2
  <2>6. CASE i = C
    <3>1. more[L + i] = 1
      BY <1>1, <1>2, <2>6
    <3> QED BY <1>2, <2>2, <2>6, <3>1
  <2>7. CASE i > C
    <3> DEFINE j == i - C
    <3>1. j \in 1..U /\ L + i = L + C + j
      BY <1>2, <2>7
    <3> HIDE DEF j
    <3>2. more[L + i] # 0
      BY <1>1, <1>2, <3>1
    <3> QED BY <1>2, <2>2, <2>7, <3>2
  <2> QED BY <1>2, <2>3, <2>4, <2>5, <2>6, <2>7
<1>9. all = old \o new
  <2> DEFINE both == old \o new
  <2>1. /\ both \in Seq(Seq(Nat)) /\ Len(both) = L + (C + U)
        /\ \A i \in 1..(L + (C + U)) :
             both[i] = IF i <= L THEN old[i] ELSE new[i - L]
    <3>1. \A x, y \in Seq(Seq(Nat)) :
            /\ x \o y \in Seq(Seq(Nat)) /\ Len(x \o y) = Len(x) + Len(y)
            /\ \A i \in 1..(Len(x) + Len(y)) :
                 (x \o y)[i] = IF i <= Len(x) THEN x[i] ELSE y[i - Len(x)]
      BY ConcatProperties
    <3>2. /\ both \in Seq(Seq(Nat)) /\ Len(both) = Len(old) + Len(new)
          /\ \A i \in 1..(Len(old) + Len(new)) :
               both[i] = IF i <= Len(old) THEN old[i] ELSE new[i - Len(old)]
      BY <1>5, <1>6, <3>1
    <3> HIDE DEF both, L, C, U
    <3> QED BY <1>5, <1>6, <3>2
  <2> HIDE DEF both
  <2>2. ASSUME NEW i \in 1..N PROVE all[i] = both[i]
    <3>1. i \in 1..(L + (C + U))
      BY <1>2
    <3>2. CASE i <= L
      <4>1. i \in 1..L
        BY <3>2
      <4>2. all[i] = old[i]
        BY <1>4, <1>7, <4>1
      <4> QED BY <2>1, <3>1, <3>2, <4>2
    <3>3. CASE i > L
      <4>1. i - L \in 1..(C + U) /\ L + (i - L) = i /\ ~(i <= L)
        BY <1>2, <3>3
      <4> QED BY <1>6, <2>1, <3>1, <4>1
    <3> QED BY <1>2, <3>2, <3>3
  <2>3. L + (C + U) = N
    BY <1>2
  <2> HIDE DEF N
  <2>4. all = both
    BY <1>5, <2>1, <2>2, <2>3, SeqEqual
  <2> QED BY <2>4 DEF both
<1>10. FlattenSeq(new) = <<m>>
  <2>1. C - 2 \in 1..(C + U) /\ L + (C - 2) = m
    <3>1. C \in {3, 4} /\ L \in Nat /\ U \in Nat
      BY <1>1, <1>2
    <3> HIDE DEF L, C, U
    <3> QED BY <3>1
  <2>2. \A i \in 1..(C + U) : L + i \in 1..N
    BY <1>2
  <2>3. \A i \in 1..(C + U) : new[i] = IF i = C - 2 THEN <<L + i>> ELSE <<>>
    BY <1>4, <1>6, <1>8, <2>2
  <2> HIDE DEF L, C, U, m
  <2> HIDE DEF new, N
  <2>4. FlattenSeq(new) = new[C - 2]
    <3> DEFINE p == C - 2
    <3>1. new \in Seq(Seq(Nat)) /\ Len(new) = C + U
      BY <1>6
    <3>2. p \in 1..Len(new)
      BY <2>1, <3>1
    <3>3. \A i \in 1..Len(new) : i # p => new[i] = <<>>
      BY <2>3, <3>1
    <3> HIDE DEF p
    <3>4. FlattenSeq(new) = new[p]
      BY <3>1, <3>2, <3>3, OnlyOne
    <3> QED BY <3>4 DEF p
  <2> QED BY <2>1, <2>3, <2>4
<1>11. FlattenSeq(old \o new) = FlattenSeq(old) \o FlattenSeq(new)
  BY <1>5, <1>6, FlatConcat
<1> QED BY <1>4, <1>9, <1>10, <1>11 DEF more

\* and one unit more that is read.  A zero of the long start code is not taken
\* for a part of the unit before.
Reads(out, units) == Sound(out) /\ units \in Chains /\ Units(out) = units
UnitAt(out, starts, k) ==
  WithoutZero(SubSeq(out, starts[k] + 3,
                     IF k = Len(starts) THEN Len(out) ELSE starts[k + 1] - 1))
\* Only a zero at the end is dropped.
LEMMA ZeroDropped ==
  /\ \A bytes \in Bytes : bytes = <<>> \/ bytes[Len(bytes)] # 0
                            => WithoutZero(bytes) = bytes
  /\ \A bytes \in Bytes : WithoutZero(bytes \o <<0>>) = bytes
<1>1. ASSUME NEW bytes \in Bytes, bytes = <<>> \/ bytes[Len(bytes)] # 0
      PROVE  WithoutZero(bytes) = bytes
  BY <1>1 DEF WithoutZero
<1>2. ASSUME NEW bytes \in Bytes PROVE WithoutZero(bytes \o <<0>>) = bytes
  <2> DEFINE zero == <<0>>
             all == bytes \o zero
  <2>1. zero \in Bytes /\ Len(zero) = 1 /\ zero[1] = 0
    BY DEF Bytes
  <2> HIDE DEF zero
  <2>2. /\ all \in Bytes /\ Len(all) = Len(bytes) + 1 /\ Len(bytes) \in Nat
        /\ all[Len(bytes) + 1] = 0 /\ SubSeq(all, 1, Len(bytes)) = SubSeq(bytes, 1, Len(bytes))
    <3>1. Behind(bytes, zero, <<>>, (bytes \o zero) \o <<>>)
      <4>1. <<>> \in Bytes
        BY DEF Bytes
      <4> QED BY <2>1, <4>1, BehindThree
    <3>2. all \in Bytes /\ Len(bytes) \in Nat
      BY <2>1, Joined
    <3>3. all \o <<>> = all
      <4> HIDE DEF all
      <4> QED BY <3>2, ConcatEmptySeq DEF Bytes
    <3>4. Len(bytes) \in 0..Len(bytes)
      BY <3>2
    <3>5. SubSeq(all, 1, Len(bytes)) = SubSeq(bytes, 1, Len(bytes))
      BY <2>1, <3>4, Parts
    <3>6. Behind(bytes, zero, <<>>, all)
      BY <3>1, <3>3
    <3> HIDE DEF all
    <3> QED BY <2>1, <3>2, <3>5, <3>6 DEF Behind
  <2>3. SubSeq(bytes, 1, Len(bytes)) = bytes
    BY SubSeqFull DEF Bytes
  <2>4. all # <<>> /\ Len(all) - 1 = Len(bytes)
    BY <2>2
  <2> HIDE DEF all
  <2>5. WithoutZero(all) = SubSeq(all, 1, Len(all) - 1)
    BY <2>2, <2>4 DEF WithoutZero, Shorter
  <2>6. WithoutZero(all) = bytes
    BY <2>2, <2>3, <2>4, <2>5
  <2> QED BY <2>6 DEF all, zero
<1> QED BY <1>1, <1>2

\* The units are read from start code to start code.
LEMMA UnitsRead ==
  ASSUME NEW out, Starts(out) \in Seq(Nat)
  PROVE  Units(out) = [k \in 1..Len(Starts(out)) |-> UnitAt(out, Starts(out), k)]
<1> DEFINE starts == Starts(out)
<1>1. DOMAIN starts = 1..Len(starts)
  OBVIOUS
<1>2. Units(out) = [k \in DOMAIN starts |-> UnitAt(out, starts, k)]
  BY DEF Units, UnitAt
<1> HIDE DEF starts
<1> QED BY <1>1, <1>2 DEF starts

\* A unit behind a start code is read as one unit more.
LEMMA UnitMore ==
  ASSUME NEW out, NEW units, Reads(out, units), NEW code \in Codes, NEW unit, Solid(unit)
  PROVE  Reads((out \o code) \o unit, units \o <<unit>>)
<1> DEFINE L == Len(out)
           C == Len(code)
           U == Len(unit)
           N == L + C + U
           m == L + C - 2
           more == (out \o code) \o unit
           starts == Starts(out)
           n == Len(starts)
           now == Starts(more)
           longer == units \o <<unit>>
<1>1. /\ out \in Bytes /\ code \in Bytes /\ unit \in Bytes /\ C \in {3, 4}
      /\ code[C] = 1 /\ \A j \in 1..(C - 1) : code[j] = 0
      /\ out # <<>> => out[L] # 0
      /\ \A j \in 1..U : unit[j] # 0
  BY CodeBytes DEF Reads, Sound, Solid
<1>2. /\ more \in Bytes /\ Len(more) = N /\ L \in Nat /\ C \in Nat /\ U \in Nat
      /\ \A i \in 1..L : more[i] = out[i]
      /\ \A i \in 1..C : more[L + i] = code[i]
      /\ \A i \in 1..U : more[L + C + i] = unit[i]
  <2>1. Behind(out, code, unit, more)
    BY <1>1, BehindThree
  <2> HIDE DEF more
  <2> QED BY <2>1 DEF Behind
<1>3. now = starts \o <<m>>
  BY MoreStarts DEF Reads
<1> HIDE DEF more
<1>4. /\ starts \in Seq(Nat) /\ n \in Nat /\ units \in Seq(Bytes)
      /\ units = [k \in 1..n |-> UnitAt(out, starts, k)]
      /\ \A k \in 1..n : starts[k] \in Nat /\ starts[k] >= 1 /\ starts[k] + 2 <= L
  <2>1. starts \in Seq(Nat) /\ units \in Seq(Bytes)
    BY DEF Reads, Sound, Chains
  <2>2. units = [k \in 1..n |-> UnitAt(out, starts, k)]
    BY <2>1, UnitsRead DEF Reads
  <2>3. \A k \in 1..n : starts[k] >= 1 /\ starts[k] + 2 <= L
    BY DEF Reads, Sound
  <2> HIDE DEF starts
  <2> QED BY <2>1, <2>2, <2>3
<1> HIDE DEF starts, now, L, C, U
<1>5. m \in Nat /\ m >= 1 /\ m + 2 = L + C /\ m + 2 <= N
  BY <1>1, <1>2
<1> HIDE DEF m, N
<1>6. /\ now \in Seq(Nat) /\ Len(now) = n + 1 /\ now[n + 1] = m
      /\ \A k \in 1..n : now[k] = starts[k]
  BY <1>3, <1>4, <1>5, OneMore
<1> HIDE DEF n
<1>7. Units(more) = [k \in 1..(n + 1) |-> UnitAt(more, now, k)]
  BY <1>6, UnitsRead DEF now
<1>8. longer \in Seq(Bytes) /\ Len(longer) = n + 1 /\ longer[n + 1] = unit
      /\ \A k \in 1..n : longer[k] = UnitAt(out, starts, k)
  <2>1. Len(units) = n
    BY <1>4
  <2>2. /\ longer \in Seq(Bytes) /\ Len(longer) = Len(units) + 1
        /\ longer[Len(units) + 1] = unit /\ \A k \in 1..Len(units) : longer[k] = units[k]
    BY <1>1, <1>4, OneMore
  <2> HIDE DEF longer
  <2>3. \A k \in 1..n : units[k] = UnitAt(out, starts, k)
    BY <1>4
  <2> QED BY <2>1, <2>2, <2>3
<1> HIDE DEF longer
<1>9. ASSUME NEW a \in Nat, NEW b \in Nat, a >= 1, b <= L
      PROVE  SubSeq(more, a, b) = SubSeq(out, a, b) /\ SubSeq(out, a, b) \in Bytes
  <2>1. \A j \in a..b : more[j] = out[j] /\ out[j] \in Nat /\ j \in 1..L /\ j \in 1..N
    <3> TAKE j \in a..b
    <3>1. j \in 1..L /\ j \in 1..N
      BY <1>2, <1>9 DEF N
    <3>2. out \in Seq(Nat) /\ j \in 1..Len(out)
      BY <1>1, <3>1 DEF L, Bytes
    <3> QED BY <1>2, <3>1, <3>2, ElementOfSeq
  <2> DEFINE x == SubSeq(more, a, b)
             y == SubSeq(out, a, b)
  <2>2. /\ y \in Seq(Nat) /\ Len(y) = IF a <= b THEN b - a + 1 ELSE 0
        /\ \A j \in 1..(b - a + 1) : y[j] = out[a + j - 1]
    BY <2>1, SubSeqProperties
  <2>3. /\ x \in Seq(Nat) /\ Len(x) = IF a <= b THEN b - a + 1 ELSE 0
        /\ \A j \in 1..(b - a + 1) : x[j] = more[a + j - 1]
    <3>1. \A j \in a..b : more[j] \in Nat
      BY <2>1
    <3> QED BY <3>1, SubSeqProperties
  <2> HIDE DEF x, y
  <2>4. \A j \in 1..(b - a + 1) : more[a + j - 1] = out[a + j - 1]
    <3> TAKE j \in 1..(b - a + 1)
    <3>1. a + j - 1 \in a..b
      OBVIOUS
    <3> QED BY <2>1, <3>1
  <2>5. \A j \in 1..Len(x) : x[j] = y[j]
    BY <2>2, <2>3, <2>4
  <2>6. x = y
    BY <2>2, <2>3, <2>5, SeqEqual
  <2> QED BY <2>2, <2>6 DEF x, y, Bytes
<1>10. ASSUME NEW k \in 1..n, k < n PROVE UnitAt(more, now, k) = UnitAt(out, starts, k)
  <2>1. /\ k # n /\ k # n + 1 /\ k + 1 \in 1..n /\ now[k] = starts[k]
        /\ now[k + 1] = starts[k + 1] /\ starts[k] \in Nat /\ starts[k + 1] \in Nat
        /\ starts[k + 1] >= 1 /\ starts[k + 1] + 2 <= L
    <3>1. n \in Nat /\ L \in Nat
      BY <1>2, <1>4
    <3>2. k # n /\ k # n + 1 /\ k + 1 \in 1..n
      BY <1>10, <3>1
    <3>3. now[k] = starts[k] /\ now[k + 1] = starts[k + 1]
      BY <1>6, <3>2
    <3>4. /\ starts[k] \in Nat /\ starts[k + 1] \in Nat
          /\ starts[k + 1] >= 1 /\ starts[k + 1] + 2 <= L
      BY <1>4, <3>2
    <3> QED BY <3>2, <3>3, <3>4
  <2> DEFINE a == starts[k] + 3
             b == starts[k + 1] - 1
  <2>2. a \in Nat /\ b \in Nat /\ a >= 1 /\ b <= L
    <3>1. \A x, y \in Nat : y >= 1 /\ y + 2 <= L
            => x + 3 \in Nat /\ y - 1 \in Nat /\ x + 3 >= 1 /\ y - 1 <= L
      BY <1>2
    <3>2. /\ starts[k] \in Nat /\ starts[k + 1] \in Nat
          /\ starts[k + 1] >= 1 /\ starts[k + 1] + 2 <= L
      BY <2>1
    <3> QED BY <3>1, <3>2
  <2>3. UnitAt(more, now, k) = WithoutZero(SubSeq(more, a, b))
    BY <1>6, <2>1 DEF UnitAt
  <2>4. UnitAt(out, starts, k) = WithoutZero(SubSeq(out, a, b))
    BY <2>1 DEF UnitAt, n
  <2> HIDE DEF a, b
  <2> QED BY <1>9, <2>2, <2>3, <2>4
<1>11. ASSUME NEW k \in 1..n, k = n PROVE UnitAt(more, now, k) = UnitAt(out, starts, k)
  <2> DEFINE a == starts[k] + 3
             z == SubSeq(out, a, L)
  <2>1. /\ k # n + 1 /\ now[k] = starts[k] /\ now[k + 1] = m /\ k + 1 = n + 1
        /\ a \in Nat /\ a >= 1 /\ a <= L + 1 /\ L \in Nat /\ L >= 1
    <3>1. n \in Nat /\ L \in Nat
      BY <1>2, <1>4
    <3>2. starts[k] \in Nat /\ starts[k] >= 1 /\ starts[k] + 2 <= L
      BY <1>4
    <3>3. k # n + 1 /\ k + 1 = n + 1
      BY <1>11, <3>1
    <3>4. now[k] = starts[k] /\ now[k + 1] = m
      BY <1>6, <1>11
    <3>5. a \in Nat /\ a >= 1 /\ a <= L + 1 /\ L >= 1
      BY <3>1, <3>2
    <3> QED BY <3>1, <3>3, <3>4, <3>5
  <2>2. UnitAt(more, now, k) = WithoutZero(SubSeq(more, a, m - 1))
    BY <1>6, <2>1 DEF UnitAt
  <2>3. UnitAt(out, starts, k) = WithoutZero(z)
    BY <1>11 DEF UnitAt, n, L
  <2>4. z \in Bytes /\ SubSeq(more, a, L) = z
    <3>1. a \in Nat /\ L \in Nat /\ a >= 1 /\ L <= L
      BY <2>1
    <3> HIDE DEF a
    <3> QED BY <1>9, <3>1
  <2>5. z = <<>> \/ z[Len(z)] # 0
    <3>1. out[L] # 0
      <4>1. out # <<>>
        BY <1>1, <2>1 DEF L
      <4> QED BY <1>1, <4>1
    <3>2. /\ Len(z) = IF a <= L THEN L - a + 1 ELSE 0
          /\ \A j \in 1..(L - a + 1) : z[j] = out[a + j - 1]
      <4>1. \A j \in a..L : out[j] \in Nat
        <5>1. out \in Seq(Nat) /\ \A j \in a..L : j \in 1..Len(out)
          BY <1>1, <2>1 DEF L, Bytes
        <5> QED BY <5>1, ElementOfSeq
      <4> QED BY <2>1, <4>1, SubSeqProperties
    <3> HIDE DEF a, z
    <3>3. CASE a <= L
      <4>1. Len(z) = L - a + 1 /\ Len(z) \in 1..(L - a + 1) /\ a + Len(z) - 1 = L
        BY <2>1, <3>2, <3>3
      <4> QED BY <3>1, <3>2, <4>1
    <3>4. CASE a > L
      <4>1. Len(z) = 0
        BY <2>1, <3>2, <3>4
      <4> QED BY <2>4, <4>1 DEF Bytes
    <3> QED BY <2>1, <3>3, <3>4
  <2> HIDE DEF z
  <2>6. CASE C = 3
    <3>1. m - 1 = L
      BY <1>2, <2>6 DEF m
    <3> QED BY <2>2, <2>3, <2>4, <3>1
  <2>7. CASE C = 4
    <3>1. m - 1 = L + 1 /\ L + 1 \in Nat /\ 1 \in 1..C /\ 1 \in 1..(C - 1)
      BY <1>2, <2>7 DEF m
    <3>2. more[L + 1] = 0
      BY <1>1, <1>2, <3>1
    <3>3. SubSeq(more, a, L + 1) = z \o <<0>>
      <4>1. /\ more \in Seq(Nat) /\ a \in 1..(Len(more) + 1)
            /\ L \in (a - 1)..Len(more) /\ L + 1 \in L..Len(more) /\ L + 1 \in 1..Len(more)
        <5>1. L + 1 <= N /\ N \in Nat
          BY <1>2, <2>7 DEF N
        <5>2. more \in Seq(Nat) /\ Len(more) = N
          BY <1>2 DEF Bytes
        <5> HIDE DEF a
        <5> QED BY <2>1, <5>1, <5>2
      <4>2. SubSeq(more, a, L) \o SubSeq(more, L + 1, L + 1) = SubSeq(more, a, L + 1)
        BY <4>1, ConcatAdjacentSubSeq
      <4>3. SubSeq(more, L + 1, L + 1) = <<0>>
        <5> DEFINE p == L + 1
                   one == SubSeq(more, p, p)
        <5>1. p \in 1..Len(more) /\ Len(more) \in Nat /\ more[p] = 0
          BY <1>2, <3>2, <4>1 DEF N
        <5> HIDE DEF p
        <5>2. one \in Seq(Nat) /\ Len(one) = 1 /\ one[1] = 0
          BY <4>1, <5>1
        <5>3. one = <<0>>
          <6> HIDE DEF one
          <6>1. one = <<one[1]>>
            BY <5>2
          <6> QED BY <5>2, <6>1
        <5> QED BY <5>3 DEF p
      <4> QED BY <2>4, <4>2, <4>3
    <3>4. WithoutZero(z \o <<0>>) = z /\ WithoutZero(z) = z
      BY <2>4, <2>5, ZeroDropped
    <3> QED BY <2>2, <2>3, <3>1, <3>3, <3>4
  <2> QED BY <1>1, <2>6, <2>7
<1>12. UnitAt(more, now, n + 1) = unit
  <2>1. UnitAt(more, now, n + 1) = WithoutZero(SubSeq(more, m + 3, N))
    BY <1>2, <1>6 DEF UnitAt
  <2>2. m + 3 = (L + C) + 1
    BY <1>5
  <2>3. SubSeq(more, (L + C) + 1, N) = unit
    <3>1. /\ out \o code \in Bytes /\ Len(out \o code) = L + C
      BY <1>1, Joined DEF L, C
    <3> DEFINE both == out \o code
    <3>2. both \in Bytes /\ Len(both) = L + C /\ more = both \o unit
      BY <3>1 DEF more
    <3> HIDE DEF both
    <3>3. L + C \in 0..Len(both) /\ L + C \in Nat
      BY <1>2, <3>2
    <3>4. SubSeq(both \o unit, (L + C) + 1, Len(both \o unit))
            = SubSeq(both, (L + C) + 1, Len(both)) \o unit
      BY <1>1, <3>2, <3>3, Parts
    <3>5. SubSeq(both, (L + C) + 1, Len(both)) = <<>>
      BY <3>2, <3>3, SubSeqEmpty DEF Bytes
    <3>6. <<>> \o unit = unit
      BY <1>1, ConcatEmptySeq DEF Bytes
    <3> QED BY <1>2, <3>2, <3>4, <3>5, <3>6
  <2>4. unit = <<>> \/ unit[Len(unit)] # 0
    <3>1. U # 0 => U \in 1..U
      BY <1>2
    <3>2. U = 0 => unit = <<>>
      BY <1>1 DEF U, Bytes
    <3> QED BY <1>1, <3>1, <3>2 DEF U
  <2> QED BY <1>1, <2>1, <2>2, <2>3, <2>4, ZeroDropped
<1>13. Units(more) = longer
  <2>1. \A k \in 1..(n + 1) : UnitAt(more, now, k) = longer[k]
    <3> TAKE k \in 1..(n + 1)
    <3>1. k = n + 1 \/ (k \in 1..n /\ (k < n \/ k = n))
      BY <1>4
    <3> QED BY <1>8, <1>10, <1>11, <1>12, <3>1
  <2>2. longer = [k \in 1..(n + 1) |-> longer[k]]
    BY <1>8
  <2> QED BY <1>7, <2>1, <2>2
<1>14. Sound(more)
  <2>1. more[N] # 0 /\ N = Len(more)
    <3>1. CASE U = 0
      <4>1. C \in 1..C /\ N = L + C
        BY <1>1, <1>2, <3>1 DEF N
      <4> QED BY <1>1, <1>2, <4>1
    <3>2. CASE U # 0
      <4>1. U \in 1..U /\ N = L + C + U
        BY <1>2, <3>2 DEF N
      <4>2. more[L + C + U] = unit[U] /\ unit[U] # 0
        BY <1>1, <1>2, <4>1
      <4> QED BY <1>2, <4>1, <4>2
    <3> QED BY <3>1, <3>2, <1>2
  <2>2. ASSUME NEW k \in 1..(n + 1) PROVE now[k] >= 1 /\ now[k] + 2 <= N
    <3>1. CASE k = n + 1
      BY <1>5, <1>6, <3>1
    <3>2. CASE k # n + 1
      <4>1. k \in 1..n
        BY <1>4, <3>2
      <4>2. now[k] = starts[k] /\ starts[k] >= 1 /\ starts[k] + 2 <= L /\ starts[k] \in Nat
        BY <1>4, <1>6, <4>1
      <4> QED BY <1>2, <4>2 DEF N
    <3> QED BY <3>1, <3>2
  <2> QED BY <1>2, <1>6, <2>1, <2>2 DEF Sound, now
<1>15. Reads(more, longer)
  BY <1>8, <1>13, <1>14 DEF Reads, Chains
<1> QED BY <1>15 DEF more, longer

\* Nothing is read in nothing.
LEMMA NothingRead == Reads(<<>>, <<>>)
<1>1. Starts(<<>>) = <<>>
  <2>1. [i \in DOMAIN <<>> |-> IF StartCode(<<>>, i) THEN <<i>> ELSE <<>>] = <<>>
    OBVIOUS
  <2>2. FlattenSeq(<<>>) = <<>>
    BY DEF FlattenSeq
  <2> QED BY <2>1, <2>2 DEF Starts
<1>2. Sound(<<>>)
  <2> DEFINE none == <<>>
  <2>1. none \in Bytes /\ none \in Seq(Nat) /\ ~(none # <<>>) /\ ~(\E k \in 1..Len(none) : TRUE)
    BY DEF Bytes
  <2>2. Starts(none) = none
    BY <1>1
  <2> HIDE DEF none
  <2>3. Sound(none)
    BY <2>1, <2>2 DEF Sound, none
  <2> QED BY <2>3 DEF none
<1>3. Units(<<>>) = <<>>
  BY <1>1 DEF Units
<1> QED BY <1>2, <1>3 DEF Reads, Chains

\* What is behind an output is read as these units behind those before.
Adds(out, more, new) ==
  new \in Chains /\ \A units : Reads(out, units) => Reads(more, units \o new)
\* Nothing adds nothing,
LEMMA AddsNone == ASSUME NEW out PROVE Adds(out, out, <<>>)
<1>1. ASSUME NEW units, Reads(out, units) PROVE units \o <<>> = units
  BY <1>1, ConcatEmptySeq DEF Reads, Chains
<1>2. <<>> \in Chains
  BY DEF Chains
<1> QED BY <1>1, <1>2 DEF Adds
\* a start code and a unit add the unit,
LEMMA AddsUnit ==
  ASSUME NEW out, NEW code \in Codes, NEW unit, Solid(unit)
  PROVE  Adds(out, (out \o code) \o unit, <<unit>>)
<1>1. <<unit>> \in Chains
  BY DEF Solid, Chains
<1> QED BY <1>1, UnitMore DEF Adds
\* and what adds to what was added adds both.
LEMMA AddsBoth ==
  ASSUME NEW a, NEW b, NEW c, NEW x, NEW y, Adds(a, b, x), Adds(b, c, y)
  PROVE  Adds(a, c, x \o y)
<1>1. x \in Seq(Bytes) /\ y \in Seq(Bytes)
  BY DEF Adds, Chains
<1>2. x \o y \in Seq(Bytes)
  BY <1>1, ConcatProperties
<1>3. ASSUME NEW units, Reads(a, units) PROVE Reads(c, units \o (x \o y))
  <2>1. units \in Seq(Bytes)
    BY <1>3 DEF Reads, Chains
  <2>2. \A r, s, t \in Seq(Bytes) : (r \o s) \o t = r \o (s \o t)
    BY ConcatAssociative
  <2>3. (units \o x) \o y = units \o (x \o y)
    BY <1>1, <2>1, <2>2, Zenon
  <2>4. Reads(b, units \o x)
    BY <1>3 DEF Adds
  <2>5. Reads(c, (units \o x) \o y)
    BY <2>4 DEF Adds
  <2> QED BY <2>3, <2>5
<1> QED BY <1>2, <1>3 DEF Adds, Chains

\* The publisher's own units among others,
OwnAt(units) ==
  [k \in DOMAIN units |-> IF Own(units[k]) THEN <<units[k]>> ELSE <<>>]
\* They are units,
LEMMA OwnType ==
  ASSUME NEW a \in Chains
  PROVE  /\ OwnAt(a) \in Seq(Seq(Bytes)) /\ Len(OwnAt(a)) = Len(a) /\ Len(a) \in Nat
         /\ \A k \in 1..Len(a) : OwnAt(a)[k] = IF Own(a[k]) THEN <<a[k]>> ELSE <<>>
         /\ OwnUnits(a) = FlattenSeq(OwnAt(a))
         /\ OwnUnits(a) \in Chains
<1> DEFINE n == Len(a)
           f == OwnAt(a)
<1>1. n \in Nat /\ DOMAIN a = 1..n /\ \A k \in 1..n : a[k] \in Bytes
  BY DEF Chains
<1>2. f = [k \in 1..n |-> IF Own(a[k]) THEN <<a[k]>> ELSE <<>>]
  BY <1>1 DEF OwnAt
<1>3. OwnUnits(a) = FlattenSeq(f)
  BY DEF OwnUnits, OwnAt
<1> HIDE DEF n, f
<1>4. \A k \in 1..n : f[k] \in Seq(Bytes)
  BY <1>1, <1>2
<1>5. f \in Seq(Seq(Bytes)) /\ Len(f) = n
  BY <1>1, <1>2, <1>4
<1> QED BY <1>1, <1>2, <1>3, <1>5, FlatType DEF n, f, Chains
\* of two sequences those of the one and of the other,
LEMMA OwnConcat ==
  ASSUME NEW a \in Chains, NEW b \in Chains
  PROVE  /\ a \o b \in Chains
         /\ OwnUnits(a \o b) = OwnUnits(a) \o OwnUnits(b)
<1> DEFINE f == OwnAt(a)
           g == OwnAt(b)
           all == a \o b
           h == OwnAt(all)
           both == f \o g
           n == Len(a)
           m == Len(b)
<1>1. /\ f \in Seq(Seq(Bytes)) /\ Len(f) = n /\ n \in Nat
      /\ \A k \in 1..n : f[k] = IF Own(a[k]) THEN <<a[k]>> ELSE <<>>
      /\ OwnUnits(a) = FlattenSeq(f)
  BY OwnType
<1>2. /\ g \in Seq(Seq(Bytes)) /\ Len(g) = m /\ m \in Nat
      /\ \A k \in 1..m : g[k] = IF Own(b[k]) THEN <<b[k]>> ELSE <<>>
      /\ OwnUnits(b) = FlattenSeq(g)
  BY OwnType
<1>3. /\ all \in Chains /\ Len(all) = n + m
      /\ \A k \in 1..(n + m) : all[k] = IF k <= n THEN a[k] ELSE b[k - n]
  <2>1. \A x, y \in Seq(Bytes) :
          /\ x \o y \in Seq(Bytes) /\ Len(x \o y) = Len(x) + Len(y)
          /\ \A i \in 1..(Len(x) + Len(y)) :
               (x \o y)[i] = IF i <= Len(x) THEN x[i] ELSE y[i - Len(x)]
    BY ConcatProperties
  <2> QED BY <2>1 DEF Chains
<1> HIDE DEF all
<1>4. /\ h \in Seq(Seq(Bytes)) /\ Len(h) = n + m
      /\ \A k \in 1..(n + m) : h[k] = IF Own(all[k]) THEN <<all[k]>> ELSE <<>>
      /\ OwnUnits(all) = FlattenSeq(h)
  BY <1>3, OwnType
<1> HIDE DEF f, g, h, n, m
<1>5. /\ both \in Seq(Seq(Bytes)) /\ Len(both) = n + m
      /\ \A k \in 1..(n + m) : both[k] = IF k <= n THEN f[k] ELSE g[k - n]
  <2>1. \A x, y \in Seq(Seq(Bytes)) :
          /\ x \o y \in Seq(Seq(Bytes)) /\ Len(x \o y) = Len(x) + Len(y)
          /\ \A i \in 1..(Len(x) + Len(y)) :
               (x \o y)[i] = IF i <= Len(x) THEN x[i] ELSE y[i - Len(x)]
    BY ConcatProperties
  <2> QED BY <1>1, <1>2, <2>1
<1> HIDE DEF both
<1>6. ASSUME NEW k \in 1..(n + m) PROVE h[k] = both[k]
  <2>1. CASE k <= n
    <3>1. k \in 1..n
      BY <1>1, <2>1
    <3>2. h[k] = IF Own(a[k]) THEN <<a[k]>> ELSE <<>>
      BY <1>3, <1>4, <2>1
    <3> QED BY <1>1, <1>5, <2>1, <3>1, <3>2
  <2>2. CASE ~(k <= n)
    <3>1. k - n \in 1..m
      BY <1>1, <1>2, <2>2
    <3>2. h[k] = IF Own(b[k - n]) THEN <<b[k - n]>> ELSE <<>>
      BY <1>3, <1>4, <2>2
    <3> QED BY <1>2, <1>5, <2>2, <3>1, <3>2
  <2> QED BY <2>1, <2>2
<1>7. h = both
  BY <1>4, <1>5, <1>6, SeqEqual
<1>8. FlattenSeq(both) = FlattenSeq(f) \o FlattenSeq(g)
  BY <1>1, <1>2, FlatConcat DEF both
<1> QED BY <1>1, <1>2, <1>3, <1>4, <1>7, <1>8 DEF all
\* and of one unit itself or nothing.
LEMMA OwnOne ==
  ASSUME NEW unit \in Bytes
  PROVE  OwnUnits(<<unit>>) = IF Own(unit) THEN <<unit>> ELSE <<>>
<1> DEFINE a == <<unit>>
           f == OwnAt(a)
<1>1. a \in Chains /\ Len(a) = 1 /\ a[1] = unit
  BY DEF Chains
<1> HIDE DEF a
<1>2. /\ f \in Seq(Seq(Bytes)) /\ Len(f) = 1
      /\ f[1] = IF Own(unit) THEN <<unit>> ELSE <<>>
      /\ OwnUnits(a) = FlattenSeq(f)
  <2>1. /\ f \in Seq(Seq(Bytes)) /\ Len(f) = Len(a) /\ OwnUnits(a) = FlattenSeq(f)
        /\ \A k \in 1..Len(a) : f[k] = IF Own(a[k]) THEN <<a[k]>> ELSE <<>>
    BY <1>1, OwnType
  <2> QED BY <1>1, <2>1
<1> HIDE DEF f
<1>3. FlattenSeq(f) = f[1]
  BY <1>2, OnlyOne
<1> QED BY <1>2, <1>3 DEF a

\* and those among which there is none of them: nothing,
Foreign(new) == new \in Chains /\ OwnUnits(new) = <<>>
LEMMA ForeignNone == Foreign(<<>>)
<1>1. <<>> \in Chains
  BY DEF Chains
<1>2. [k \in DOMAIN <<>> |-> IF Own(<<>>[k]) THEN <<(<<>>)[k]>> ELSE <<>>] = <<>>
  OBVIOUS
<1>3. FlattenSeq(<<>>) = <<>>
  BY DEF FlattenSeq
<1> QED BY <1>1, <1>2, <1>3 DEF Foreign, OwnUnits
\* a unit that is not the publisher's own,
LEMMA ForeignOne ==
  ASSUME NEW unit \in Bytes, ~Own(unit) PROVE Foreign(<<unit>>)
BY OwnOne DEF Foreign, Chains
\* and two sequences of such.
LEMMA ForeignBoth ==
  ASSUME NEW a, NEW b, Foreign(a), Foreign(b) PROVE Foreign(a \o b)
<1>1. <<>> \o <<>> = <<>>
  OBVIOUS
<1> QED BY <1>1, OwnConcat DEF Foreign

\* These are the units that are inserted.
Delimiter == <<9, 240>>
LEMMA InsertedUnits ==
  /\ Solid(Delimiter) /\ Solid(Sps) /\ Solid(Pps) /\ Solid(<<>>)
  /\ Len(Delimiter) = 2 /\ Len(Sps) = 2 /\ Len(Pps) = 1
  /\ Foreign(<<Delimiter>>) /\ Foreign(<<Sps>>) /\ Foreign(<<Pps>>) /\ Foreign(<<<<>>>>)
<1>1. /\ Solid(Delimiter) /\ Len(Delimiter) = 2 /\ ~Own(Delimiter)
  <2>1. \A d : d = <<9, 240>> =>
          d \in Seq(Nat) /\ Len(d) = 2 /\ d[1] = 9 /\ d[2] = 240
    OBVIOUS
  <2>2. 9 % 32 \in 7..9
    OBVIOUS
  <2> QED BY <2>1, <2>2 DEF Delimiter, Solid, Own, NalType, Bytes
<1>2. /\ Solid(Sps) /\ Len(Sps) = 2 /\ ~Own(Sps)
  <2>1. \A d : d = <<103, 66>> =>
          d \in Seq(Nat) /\ Len(d) = 2 /\ d[1] = 103 /\ d[2] = 66
    OBVIOUS
  <2>2. 103 % 32 \in 7..9
    OBVIOUS
  <2> QED BY <2>1, <2>2 DEF Sps, Solid, Own, NalType, Bytes
<1>3. /\ Solid(Pps) /\ Len(Pps) = 1 /\ ~Own(Pps)
  <2>1. \A d : d = <<104>> =>
          d \in Seq(Nat) /\ Len(d) = 1 /\ d[1] = 104
    OBVIOUS
  <2>2. 104 % 32 \in 7..9
    OBVIOUS
  <2> QED BY <2>1, <2>2 DEF Pps, Solid, Own, NalType, Bytes
<1>4. Solid(<<>>) /\ ~Own(<<>>)
  BY DEF Solid, Own, Bytes
<1> QED BY <1>1, <1>2, <1>3, <1>4, ForeignOne DEF Solid

\* What is behind an output is foreign units: nothing,
Inserts(out, more) == \E ins : Foreign(ins) /\ Adds(out, more, ins)
LEMMA InsertsNone == ASSUME NEW out PROVE Inserts(out, out)
BY ForeignNone, AddsNone DEF Inserts
\* a start code with a foreign unit,
LEMMA InsertsUnit ==
  ASSUME NEW out, NEW code \in Codes, NEW unit, Solid(unit), Foreign(<<unit>>)
  PROVE  Inserts(out, (out \o code) \o unit)
BY AddsUnit DEF Inserts
\* and one behind the other.
LEMMA InsertsBoth ==
  ASSUME NEW a, NEW b, NEW c, Inserts(a, b), Inserts(b, c) PROVE Inserts(a, c)
<1>1. PICK x : Foreign(x) /\ Adds(a, b, x)
  BY DEF Inserts
<1>2. PICK y : Foreign(y) /\ Adds(b, c, y)
  BY DEF Inserts
<1>3. Foreign(x \o y) /\ Adds(a, c, x \o y)
  BY <1>1, <1>2, ForeignBoth, AddsBoth
<1> QED BY <1>3 DEF Inserts

\* A chain from which a parameter set is read, as far as it is there.
Says(in, set) ==
  Copy(in, 2).ok =>
    /\ Number(Copy(in, 2).bytes) = Len(set)
    /\ Copy(Copy(in, 2).in, Len(set)).ok => Copy(Copy(in, 2).in, Len(set)).bytes = set
There(in, set) == Copy(in, 2).ok /\ Copy(Copy(in, 2).in, Len(set)).ok
Appended(state, set, next) ==
  /\ Len(next.out) <= Len(state.out) + 4 + Len(set)
  /\ Inserts(state.out, next.out)
  /\ next.ok => /\ state.ok /\ There(state.in, set)
                /\ next.in = Copy(Copy(state.in, 2).in, Len(set)).in
  /\ (state.ok /\ There(state.in, set) /\ Len(state.out) + 4 + Len(set) <= Capacity)
       => next.ok /\ Adds(state.out, next.out, <<set>>)
\* That is so, whatever there is of the header and in the output.
LEMMA SetAppended ==
  ASSUME NEW state \in SetStates, NEW set, Solid(set), Foreign(<<set>>),
         Says(state.in, set)
  PROVE  Appended(state, set, AppendSet(state))
<1> DEFINE length == Copy(state.in, 2)
           size   == Number(length.bytes)
           body   == Copy(length.in, size)
           start  == state.out \o Prefix
           next   == AppendSet(state)
           n      == Len(set)
<1>1. /\ state = [ok |-> state.ok, out |-> state.out, in |-> state.in]
      /\ state.ok \in BOOLEAN /\ state.out \in Bytes /\ state.in \in Chains
      /\ Len(state.out) \in Nat
  BY DEF SetStates, Bytes
<1>2. length.in \in Chains
  BY <1>1, CopySpec DEF Copied, Tight
<1>3. set \in Bytes /\ n \in Nat
  BY DEF Solid, Bytes
<1>4. Prefix \in Codes /\ Prefix \in Bytes /\ Len(Prefix) = 4
  <2>1. Prefix \in Bytes /\ Len(Prefix) = 4
    BY DEF Prefix, Bytes
  <2> QED BY <2>1 DEF Codes
<1>5. start \in Bytes /\ Len(start) = Len(state.out) + 4
  <2>1. start \in Bytes /\ Len(start) = Len(state.out) + Len(Prefix)
    BY <1>1, <1>4, Joined
  <2> HIDE DEF start
  <2> QED BY <1>4, <2>1
<1>6. next
        = IF ~state.ok THEN state
          ELSE IF ~length.ok \/ ~Fits(state.out, 4) THEN [state EXCEPT !.ok = FALSE]
          ELSE IF ~Fits(start, size) \/ ~body.ok
          THEN [state EXCEPT !.ok = FALSE, !.out = start]
          ELSE [state EXCEPT !.out = start \o body.bytes, !.in = body.in]
  BY DEF AppendSet
<1>7. /\ length.ok => size = n /\ (body.ok => body.bytes = set)
      /\ There(state.in, set) <=> length.ok /\ Copy(length.in, n).ok
  BY DEF Says, There
<1>8. /\ Inserts(state.out, start) /\ Inserts(state.out, start \o set)
      /\ Adds(state.out, start \o set, <<set>>) /\ Inserts(state.out, state.out)
  <2>1. start \o <<>> = start
    BY <1>5, ConcatEmptySeq DEF Bytes
  <2>2. Inserts(state.out, start \o <<>>)
    BY <1>4, InsertedUnits, InsertsUnit
  <2>3. Inserts(state.out, start \o set)
    BY <1>4, InsertsUnit
  <2>4. Adds(state.out, start \o set, <<set>>)
    BY <1>4, AddsUnit
  <2> QED BY <2>1, <2>2, <2>3, <2>4, InsertsNone
<1>9. Len(start \o set) = Len(state.out) + 4 + n
  <2> HIDE DEF start
  <2>1. Len(start \o set) = Len(start) + n
    BY <1>3, <1>5, Joined
  <2> QED BY <1>5, <2>1
<1>10. /\ Fits(state.out, 4) <=> Len(state.out) + 4 <= Capacity
       /\ Fits(start, n) <=> Len(state.out) + 4 + n <= Capacity
       /\ Len(state.out) + 4 + n <= Capacity => Len(state.out) + 4 <= Capacity
  <2>1. Capacity \in Nat
    BY AnnexBAssumption
  <2>2. /\ Fits(state.out, 4) <=> Len(state.out) + 4 <= Capacity
        /\ Fits(start, n) <=> Len(start) + n <= Capacity
    BY DEF Fits
  <2> HIDE DEF start, n
  <2> QED BY <1>1, <1>3, <1>5, <2>1, <2>2
<1> HIDE DEF start, length, next, n
<1>11. CASE ~state.ok
  <2>1. next = state
    BY <1>6, <1>11
  <2>2. Len(next.out) <= Len(state.out) + 4 + n
    BY <1>1, <1>3, <2>1
  <2> QED BY <1>8, <1>11, <2>1, <2>2 DEF Appended, next, n
<1>12. CASE state.ok /\ (~length.ok \/ ~Fits(state.out, 4))
  <2>1. next = [state EXCEPT !.ok = FALSE]
    BY <1>6, <1>12
  <2>2. next.ok = FALSE /\ next.out = state.out
    BY <1>1, <2>1
  <2>3. Len(next.out) <= Len(state.out) + 4 + n
    BY <1>1, <1>3, <2>2
  <2>4. ~(There(state.in, set) /\ Len(state.out) + 4 + n <= Capacity)
    BY <1>7, <1>10, <1>12
  <2> QED BY <1>8, <2>2, <2>3, <2>4 DEF Appended, next, n
<1>13. CASE state.ok /\ length.ok /\ Fits(state.out, 4) /\ (~Fits(start, size) \/ ~body.ok)
  <2>1. next = [state EXCEPT !.ok = FALSE, !.out = start]
    BY <1>6, <1>13
  <2>2. next.ok = FALSE /\ next.out = start
    BY <1>1, <2>1
  <2>3. Len(next.out) <= Len(state.out) + 4 + n
    BY <1>1, <1>3, <1>5, <2>2
  <2>4. ~(There(state.in, set) /\ Len(state.out) + 4 + n <= Capacity)
    <3>1. size = n
      BY <1>7, <1>13
    <3> QED BY <1>7, <1>10, <1>13, <3>1
  <2> QED BY <1>8, <2>2, <2>3, <2>4 DEF Appended, next, n
<1>14. CASE state.ok /\ length.ok /\ Fits(state.out, 4) /\ Fits(start, size) /\ body.ok
  <2>1. next = [state EXCEPT !.out = start \o body.bytes, !.in = body.in]
    BY <1>6, <1>14
  <2>2. size = n /\ body.bytes = set
    BY <1>7, <1>14
  <2>3. next.ok /\ next.out = start \o set /\ next.in = Copy(length.in, n).in
    BY <1>1, <1>14, <2>1, <2>2
  <2>4. Len(next.out) <= Len(state.out) + 4 + n
    BY <1>1, <1>3, <1>9, <2>3
  <2>5. There(state.in, set)
    BY <1>7, <1>14, <2>2
  <2> QED BY <1>8, <1>14, <2>3, <2>4, <2>5 DEF Appended, next, n, length
<1> QED BY <1>11, <1>12, <1>13, <1>14 DEF next

\* What is there of a header that is not cut short is had.
LEMMA HeaderHad ==
  ASSUME NEW in, NEW p \in 0..18, AtHeader(in, p, 19), NEW n \in 0..(19 - p)
  PROVE  Copy(in, n).ok
<1> DEFINE H == HeaderBytes
           i == p + 1
           k == 19
           x == SubSeq(H, i, k)
<1>1. H \in Seq(Nat) /\ Len(H) = 19
  BY DEF HeaderBytes, Sps, Pps
<1>2. in \in Chains /\ FlattenSeq(in) = x
  BY DEF AtHeader
<1> HIDE DEF H
<1>3. \A j \in i..k : H[j] \in Nat
  <2>1. \A j \in i..k : j \in 1..Len(H)
    BY <1>1
  <2> QED BY <1>1, <2>1, ElementOfSeq
<1>4. i \in Int /\ k \in Int /\ i <= k /\ k - i + 1 = 19 - p
  OBVIOUS
<1> HIDE DEF i, k
<1>5. Len(x) = 19 - p
  <2>1. Len(x) = IF i <= k THEN k - i + 1 ELSE 0
    BY <1>3, <1>4, SubSeqProperties
  <2> QED BY <1>4, <2>1
<1>6. in # <<>>
  <2>1. x # <<>>
    <3>1. 19 - p # 0
      OBVIOUS
    <3> HIDE DEF x
    <3>2. Len(<<>>) = 0
      OBVIOUS
    <3> QED BY <1>5, <3>1, <3>2
  <2> QED BY <1>2, <2>1, NotEnded
<1>7. Copied(in, n, Copy(in, n))
  BY <1>2, CopySpec
<1> QED BY <1>2, <1>5, <1>6, <1>7 DEF Copied

\* The parameter sets of the header, behind an output: nothing else, and all
\* of them if the header is whole and there is room.
SetsAppended(out, cut, next) ==
  /\ next \in Bytes /\ Len(next) <= Len(out) + 11
  /\ Inserts(out, next)
  /\ cut = 0 /\ Len(out) + 11 <= Capacity => Adds(out, next, <<Sps, Pps>>)
\* append_sps_pps appends that, wherever the header breaks off.
LEMMA SpsPpsAppended ==
  ASSUME NEW out, Room(out), NEW cut \in Nat
  PROVE  SetsAppended(out, cut, AppendSpsPps(out, HeaderChain(cut)))
<1> DEFINE header   == HeaderChain(cut)
           skipped  == Copy(header, 10)
           spsCount == Copy(skipped.in, 1)
           spsNumber == Number(spsCount.bytes) % 32
           sps      == AppendSets(out, spsCount.in, spsNumber)
           ppsCount == Copy(sps.in, 1)
           ppsNumber == Number(ppsCount.bytes)
           pps      == AppendSets(sps.out, ppsCount.in, ppsNumber)
           end  == IF cut <= 19 THEN 19 - cut ELSE 0
           full == cut = 0 /\ Len(out) + 11 <= Capacity
           next == AppendSpsPps(out, header)
<1>1. next = IF ~spsCount.ok THEN out
             ELSE IF ~sps.ok \/ ~ppsCount.ok THEN sps.out
             ELSE pps.out
  BY DEF AppendSpsPps
<1>2. Len(out) \in Nat /\ out \in Bytes /\ Len(out) <= Capacity /\ Capacity \in Nat
  BY AnnexBAssumption DEF Room, Bytes
<1>3. AtHeader(header, 0, end)
  <2>1. HeaderBytes \in Seq(Nat) /\ Len(HeaderBytes) = 19
    BY DEF HeaderBytes, Sps, Pps
  <2>2. Shorter(HeaderBytes, cut) \in Bytes
    BY <2>1, ShorterBytes DEF Bytes
  <2>3. Tight(header) /\ FlattenSeq(header) = Shorter(HeaderBytes, cut)
    BY <2>2, ChainTight DEF HeaderChain
  <2>4. Shorter(HeaderBytes, cut) = SubSeq(HeaderBytes, 1, end)
    <3> DEFINE H == HeaderBytes
    <3>1. H \in Seq(Nat) /\ Len(H) = 19
      BY <2>1
    <3> HIDE DEF H
    <3>2. SubSeq(H, 1, 19 - cut) = SubSeq(H, 1, end)
      BY <3>1, SubSeqEmpty
    <3> QED BY <3>1, <3>2 DEF Shorter, H
  <2>5. 0 <= end /\ 0 + 1 = 1
    OBVIOUS
  <2> QED BY <2>3, <2>4, <2>5 DEF Tight, AtHeader
<1>4. end \in 0..19 /\ (full => end = 19)
  OBVIOUS
<1> HIDE DEF end, header, next
<1>5. SetsAppended(out, cut, next) <=>
        /\ next \in Bytes /\ Len(next) <= Len(out) + 11 /\ Inserts(out, next)
        /\ full => Adds(out, next, <<Sps, Pps>>)
  BY DEF SetsAppended
<1> HIDE DEF full
<1>6. full => skipped.ok
  <2>1. 0 \in 0..18 /\ 10 \in 0..(19 - 0)
    OBVIOUS
  <2> QED BY <1>3, <1>4, <2>1, HeaderHad
<1>7. skipped.ok => AtHeader(skipped.in, 10, end)
  <2>1. 10 = 0 + 10 /\ 0 \in 0..19
    OBVIOUS
  <2> QED BY <1>3, <1>4, <2>1, HeaderCopy
<1>8. spsCount.ok => skipped.ok
  <2>1. skipped.ok \/ skipped = Failed
    BY <1>3, CopySpec DEF Copied, AtHeader
  <2>2. skipped = Failed => skipped.in = <<>> /\ <<>> \in Chains
    BY DEF Failed, Chains
  <2>3. ~Copy(<<>>, 1).ok
    <3>1. <<>> \in Chains
      BY DEF Chains
    <3> QED BY <3>1, CopySpec DEF Copied
  <2> QED BY <2>1, <2>2, <2>3
<1> HIDE DEF skipped
<1>9. full => spsCount.ok
  <2>1. 10 \in 0..18 /\ 1 \in 0..(19 - 10)
    OBVIOUS
  <2> QED BY <1>4, <1>6, <1>7, <2>1, HeaderHad
<1>10. CASE ~spsCount.ok
  <2>1. next = out /\ ~full
    BY <1>1, <1>9, <1>10
  <2> QED BY <1>2, <1>5, <2>1, InsertsNone DEF next, header
<1>11. CASE spsCount.ok
  <2>1. /\ spsCount.bytes = <<225>> /\ spsCount.in \in Chains
        /\ AtHeader(spsCount.in, 11, end)
    <3>1. 10 \in 0..19 /\ 11 = 10 + 1
      OBVIOUS
    <3>2. spsCount.bytes = HeaderPart(10, 1) /\ AtHeader(spsCount.in, 11, end)
      BY <1>4, <1>7, <1>8, <1>11, <3>1, HeaderCopy
    <3> QED BY <3>2, HeaderSays DEF AtHeader
  <2>2. spsNumber = 1
    BY <2>1, HeaderSays
  <2> HIDE DEF spsCount, spsNumber
  <2> DEFINE first == [ok |-> TRUE, out |-> out, in |-> spsCount.in]
  <2>3. sps = AppendSet(first) /\ first \in SetStates /\ sps \in SetStates
    <3>1. sps = AppendSet(first)
      BY <2>1, <2>2, OneSet
    <3>2. first \in SetStates
      BY <1>2, <2>1 DEF SetStates
    <3> QED BY <3>1, <3>2, SetRoom
  <2>4. first.ok /\ first.out = out /\ first.in = spsCount.in
    OBVIOUS
  <2> HIDE DEF sps, first
  <2> DEFINE length == Copy(spsCount.in, 2)
             body   == Copy(length.in, 2)
  <2>5. length.ok => length.bytes = <<0, 2>> /\ AtHeader(length.in, 13, end)
    <3>1. 11 \in 0..19 /\ 13 = 11 + 2
      OBVIOUS
    <3>2. length.ok => length.bytes = HeaderPart(11, 2) /\ AtHeader(length.in, 13, end)
      BY <1>4, <2>1, <3>1, HeaderCopy
    <3> QED BY <3>2, HeaderSays
  <2>6. length.ok /\ body.ok => body.bytes = Sps /\ AtHeader(body.in, 15, end)
    <3>1. 13 \in 0..19 /\ 15 = 13 + 2
      OBVIOUS
    <3> HIDE DEF length
    <3>2. length.ok /\ body.ok => body.bytes = HeaderPart(13, 2) /\ AtHeader(body.in, 15, end)
      BY <1>4, <2>5, <3>1, HeaderCopy
    <3> QED BY <3>2, HeaderSays
  <2>7. full => length.ok /\ body.ok
    <3>1. 11 \in 0..18 /\ 2 \in 0..(19 - 11) /\ 13 \in 0..18 /\ 2 \in 0..(19 - 13)
      OBVIOUS
    <3>2. full => length.ok
      BY <1>4, <2>1, <3>1, HeaderHad
    <3> HIDE DEF length
    <3>3. full => body.ok
      BY <1>4, <2>5, <3>1, <3>2, HeaderHad
    <3> QED BY <3>2, <3>3
  <2>8. Appended(first, Sps, sps)
    <3>1. Says(first.in, Sps)
      BY <2>4, <2>5, <2>6, HeaderSays, InsertedUnits DEF Says
    <3> QED BY <2>3, <3>1, InsertedUnits, SetAppended
  <2>9. /\ Len(sps.out) <= Len(out) + 4 + 2 /\ Inserts(out, sps.out)
        /\ sps.ok => length.ok /\ body.ok /\ sps.in = body.in
        /\ full => sps.ok /\ Adds(out, sps.out, <<Sps>>)
    <3>1. full => Len(out) + 4 + 2 <= Capacity
      BY <1>2 DEF full
    <3>2. There(first.in, Sps) <=> length.ok /\ body.ok
      BY <2>4, InsertedUnits DEF There
    <3> HIDE DEF length
    <3>3. Len(Sps) = 2
      BY InsertedUnits
    <3>4. sps.ok => sps.in = body.in
      BY <2>4, <2>8, <3>3 DEF Appended, length
    <3> HIDE DEF body
    <3> QED BY <2>4, <2>7, <2>8, <3>1, <3>2, <3>3, <3>4 DEF Appended
  <2>10. Len(sps.out) \in Nat /\ Room(sps.out) /\ sps.in \in Chains /\ sps.out \in Bytes
    BY <2>3 DEF SetStates, Room, Bytes
  <2>11. sps.ok => AtHeader(sps.in, 15, end)
    BY <2>6, <2>9
  <2> HIDE DEF length, body
  <2>12. full => ppsCount.ok
    <3>1. 15 \in 0..18 /\ 1 \in 0..(19 - 15)
      OBVIOUS
    <3> QED BY <1>4, <2>9, <2>11, <3>1, HeaderHad
  <2>13. CASE ~sps.ok \/ ~ppsCount.ok
    <3>1. next = sps.out /\ ~full
      BY <1>1, <1>11, <2>9, <2>12, <2>13
    <3>2. Len(next) <= Len(out) + 11
      BY <1>2, <2>9, <2>10, <3>1
    <3> QED BY <1>5, <2>9, <2>10, <3>1, <3>2 DEF next, header
  <2>14. CASE sps.ok /\ ppsCount.ok
    <3>1. /\ ppsCount.bytes = <<1>> /\ ppsCount.in \in Chains
          /\ AtHeader(ppsCount.in, 16, end)
      <4>1. 15 \in 0..19 /\ 16 = 15 + 1
        OBVIOUS
      <4>2. ppsCount.bytes = HeaderPart(15, 1) /\ AtHeader(ppsCount.in, 16, end)
        BY <1>4, <2>11, <2>14, <4>1, HeaderCopy
      <4> QED BY <4>2, HeaderSays DEF AtHeader
    <3>2. ppsNumber = 1
      BY <3>1, HeaderSays
    <3> HIDE DEF ppsCount, ppsNumber
    <3> DEFINE second == [ok |-> TRUE, out |-> sps.out, in |-> ppsCount.in]
    <3>3. pps = AppendSet(second) /\ second \in SetStates /\ pps \in SetStates
      <4>1. pps = AppendSet(second)
        BY <2>10, <3>1, <3>2, OneSet
      <4>2. second \in SetStates
        BY <2>10, <3>1 DEF SetStates, Room
      <4> QED BY <4>1, <4>2, SetRoom
    <3>4. second.ok /\ second.out = sps.out /\ second.in = ppsCount.in
      OBVIOUS
    <3> HIDE DEF second, pps
    <3> DEFINE size == Copy(ppsCount.in, 2)
               last == Copy(size.in, 1)
    <3>5. size.ok => size.bytes = <<0, 1>> /\ AtHeader(size.in, 18, end)
      <4>1. 16 \in 0..19 /\ 18 = 16 + 2
        OBVIOUS
      <4>2. size.ok => size.bytes = HeaderPart(16, 2) /\ AtHeader(size.in, 18, end)
        BY <1>4, <3>1, <4>1, HeaderCopy
      <4> QED BY <4>2, HeaderSays
    <3>6. size.ok /\ last.ok => last.bytes = Pps
      <4>1. 18 \in 0..19 /\ 19 = 18 + 1
        OBVIOUS
      <4> HIDE DEF size
      <4>2. size.ok /\ last.ok => last.bytes = HeaderPart(18, 1)
        BY <1>4, <3>5, <4>1, HeaderCopy
      <4> QED BY <4>2, HeaderSays
    <3>7. full => size.ok /\ last.ok
      <4>1. 16 \in 0..18 /\ 2 \in 0..(19 - 16) /\ 18 \in 0..18 /\ 1 \in 0..(19 - 18)
        OBVIOUS
      <4>2. full => size.ok
        BY <1>4, <3>1, <4>1, HeaderHad
      <4> HIDE DEF size
      <4>3. full => last.ok
        BY <1>4, <3>5, <4>1, <4>2, HeaderHad
      <4> QED BY <4>2, <4>3
    <3>8. Appended(second, Pps, pps)
      <4>1. Says(second.in, Pps)
        BY <3>4, <3>5, <3>6, HeaderSays, InsertedUnits DEF Says
      <4> QED BY <3>3, <4>1, InsertedUnits, SetAppended
    <3>9. /\ Len(pps.out) <= Len(sps.out) + 4 + 1 /\ Inserts(sps.out, pps.out)
          /\ full => Adds(sps.out, pps.out, <<Pps>>)
      <4>1. full => Len(sps.out) + 4 + 1 <= Capacity
        BY <1>2, <2>9, <2>10 DEF full
      <4>2. There(second.in, Pps) <=> size.ok /\ last.ok
        BY <3>4, InsertedUnits DEF There
      <4> HIDE DEF size, last
      <4>3. Len(Pps) = 1
        BY InsertedUnits
      <4> QED BY <3>4, <3>7, <3>8, <4>1, <4>2, <4>3 DEF Appended
    <3>10. Len(pps.out) \in Nat /\ pps.out \in Bytes
      BY <3>3 DEF SetStates, Bytes
    <3>11. next = pps.out
      BY <1>1, <1>11, <2>14 DEF pps, ppsNumber, ppsCount
    <3>12. Len(next) <= Len(out) + 11
      BY <1>2, <2>9, <2>10, <3>9, <3>10, <3>11
    <3>13. Inserts(out, next)
      BY <2>9, <3>9, <3>11, InsertsBoth
    <3>14. full => Adds(out, next, <<Sps, Pps>>)
      <4>1. <<Sps>> \o <<Pps>> = <<Sps, Pps>>
        BY InsertedUnits, Pair DEF Solid
      <4>2. full => Adds(out, next, <<Sps>> \o <<Pps>>)
        BY <2>9, <3>9, <3>11, AddsBoth
      <4> QED BY <4>1, <4>2
    <3> QED BY <1>5, <3>10, <3>11, <3>12, <3>13, <3>14 DEF next, header
  <2> QED BY <2>13, <2>14
<1> QED BY <1>10, <1>11

-----------------------------------------------------------------------------
(* The loop over a whole frame.                                            *)

\* Which units open the picture, and which are IDR slices and other slices.
OpensOne(frame, i) == Kept(frame, i) /\ frame[i].type \in {Slice, Idr, Sei}
KeptIdr(frame, i) == Kept(frame, i) /\ frame[i].type = Idr
KeptSlice(frame, i) == Kept(frame, i) /\ frame[i].type = Slice

\* The delimiter is one unit more, if there is room.
LEMMA AudAppended ==
  ASSUME NEW out, Room(out)
  PROVE  /\ Room(AppendAud(out)) /\ Len(AppendAud(out)) <= Len(out) + 6
         /\ Inserts(out, AppendAud(out))
         /\ Len(out) + 6 <= Capacity => Adds(out, AppendAud(out), <<Delimiter>>)
<1>1. out \in Bytes /\ Len(out) \in Nat
  BY DEF Room, Bytes
<1>2. Prefix \in Codes /\ Prefix \in Bytes /\ Delimiter \in Bytes
  BY CodeBytes, InsertedUnits DEF Codes, Solid
<1>3. Aud = Prefix \o Delimiter /\ Len(Aud) = 6 /\ Aud \in Bytes
  <2>1. ASSUME NEW c, c = <<0, 0, 0, 1>>, NEW d, d = <<9, 240>>, NEW a,
               a = <<0, 0, 0, 1, 9, 240>>
        PROVE  a = c \o d /\ Len(a) = 6 /\ a \in Seq(Nat)
    BY <2>1
  <2> QED BY <2>1 DEF Aud, Prefix, Delimiter, Bytes
<1>4. out \o Aud = (out \o Prefix) \o Delimiter
  BY <1>1, <1>2, <1>3, JoinedThree
<1>5. Inserts(out, out \o Aud) /\ Adds(out, out \o Aud, <<Delimiter>>)
  BY <1>2, <1>4, InsertedUnits, InsertsUnit, AddsUnit
<1>6. Len(out \o Aud) = Len(out) + 6
  <2>1. Len(out \o Aud) = Len(out) + Len(Aud)
    BY <1>1, <1>3, Joined
  <2> QED BY <1>3, <2>1
<1>7. Fits(out, 6) <=> Len(out) + 6 <= Capacity
  BY DEF Fits
<1>8. AppendAud(out) = IF Fits(out, 6) THEN out \o Aud ELSE out
  BY <1>3 DEF AppendAud
<1>9. Room(AppendAud(out)) /\ Inserts(out, out)
  BY AudRoom, InsertsNone
<1>10. CASE Fits(out, 6)
  BY <1>1, <1>5, <1>6, <1>8, <1>9, <1>10
<1>11. CASE ~Fits(out, 6)
  BY <1>1, <1>7, <1>8, <1>9, <1>11
<1> QED BY <1>10, <1>11

\* The flags of the loop tell what was before: a slice since the beginning, an
\* IDR slice since the last other one.
FlagsTell(frame, state, k) ==
  /\ state.audSent <=> \E i \in 1..k : OpensOne(frame, i)
  /\ state.setsSent <=> \E i \in 1..k : /\ KeptIdr(frame, i)
                                        /\ \A j \in (i + 1)..k : ~KeptSlice(frame, j)
\* So what they call for is what the decoder wants,
LEMMA FlagsDue ==
  ASSUME NEW frame \in FrameType, NEW k \in 0..(Len(frame) - 1),
         NEW state, FlagsTell(frame, state, k)
  PROVE  /\ (~state.audSent /\ frame[k + 1].type \in {Slice, Idr, Sei}) <=> Opens(frame, k + 1)
         /\ (frame[k + 1].type = Idr /\ ~state.setsSent) <=> NeedsSets(frame, k + 1)
<1>1. k \in Nat /\ (k + 1) - 1 = k
  BY DEF FrameType
<1>2. Opens(frame, k + 1) <=> /\ frame[k + 1].type \in {Slice, Idr, Sei}
                              /\ \A j \in 1..k : ~OpensOne(frame, j)
  BY <1>1 DEF Opens, OpensOne
<1>3. NeedsSets(frame, k + 1)
        <=> /\ frame[k + 1].type = Idr
            /\ \A j \in 1..k : KeptIdr(frame, j)
                 => \E i \in (j + 1)..k : KeptSlice(frame, i)
  BY <1>1 DEF NeedsSets, KeptIdr, KeptSlice
<1> QED BY <1>2, <1>3 DEF FlagsTell
\* a unit that is kept is told of,
LEMMA FlagsMore ==
  ASSUME NEW frame \in FrameType, NEW k \in 0..(Len(frame) - 1), Kept(frame, k + 1),
         NEW state, FlagsTell(frame, state, k), NEW next,
         next.audSent <=> (state.audSent \/ frame[k + 1].type \in {Slice, Idr, Sei}),
         next.setsSent <=> IF frame[k + 1].type = Slice THEN FALSE
                           ELSE state.setsSent \/ frame[k + 1].type = Idr
  PROVE  FlagsTell(frame, next, k + 1)
<1> DEFINE u == k + 1
<1>1. /\ k \in Nat /\ u \in 1..u /\ u \in Nat /\ (u + 1)..u = {}
      /\ \A i \in 1..u : i = u \/ i \in 1..k
      /\ \A i \in 1..k : i \in 1..u /\ i # u
      /\ \A i \in 1..k : (i + 1)..u = ((i + 1)..k) \cup {u}
  BY DEF FrameType
<1>2. /\ OpensOne(frame, u) <=> frame[u].type \in {Slice, Idr, Sei}
      /\ KeptIdr(frame, u) <=> frame[u].type = Idr
      /\ KeptSlice(frame, u) <=> frame[u].type = Slice
  BY DEF OpensOne, KeptIdr, KeptSlice
<1>3. Slice # Idr
  BY DEF Slice, Idr
<1>4. /\ next.audSent <=> (state.audSent \/ OpensOne(frame, u))
      /\ next.setsSent <=> ((~KeptSlice(frame, u) /\ state.setsSent) \/ KeptIdr(frame, u))
  <2>1. KeptIdr(frame, u) => ~KeptSlice(frame, u)
    BY <1>2, <1>3
  <2> QED BY <1>2, <2>1
<1> HIDE DEF u
<1>5. next.audSent <=> \E i \in 1..u : OpensOne(frame, i)
  BY <1>1, <1>4 DEF FlagsTell
<1> DEFINE Sent(n) == \E i \in 1..n : /\ KeptIdr(frame, i)
                                      /\ \A j \in (i + 1)..n : ~KeptSlice(frame, j)
<1>6. Sent(u) <=> ((~KeptSlice(frame, u) /\ Sent(k)) \/ KeptIdr(frame, u))
  <2>1. ASSUME Sent(u) PROVE (~KeptSlice(frame, u) /\ Sent(k)) \/ KeptIdr(frame, u)
    <3>1. PICK i \in 1..u : KeptIdr(frame, i) /\ \A j \in (i + 1)..u : ~KeptSlice(frame, j)
      BY <2>1
    <3>2. CASE i = u
      BY <1>2, <1>3, <3>1, <3>2 DEF u
    <3>3. CASE i # u
      <4>1. i \in 1..k
        BY <1>1, <3>3
      <4>2. (i + 1)..u = ((i + 1)..k) \cup {u}
        BY <1>1, <4>1
      <4>3. ~KeptSlice(frame, u) /\ \A j \in (i + 1)..k : ~KeptSlice(frame, j)
        BY <3>1, <4>2
      <4> QED BY <3>1, <4>1, <4>3
    <3> QED BY <3>2, <3>3
  <2>2. ASSUME ~KeptSlice(frame, u), Sent(k) PROVE Sent(u)
    <3>1. PICK i \in 1..k : KeptIdr(frame, i) /\ \A j \in (i + 1)..k : ~KeptSlice(frame, j)
      BY <2>2
    <3>2. i \in 1..u /\ (i + 1)..u = ((i + 1)..k) \cup {u}
      BY <1>1
    <3>3. \A j \in (i + 1)..u : ~KeptSlice(frame, j)
      BY <2>2, <3>1, <3>2
    <3> QED BY <3>1, <3>2, <3>3
  <2>3. ASSUME KeptIdr(frame, u) PROVE Sent(u)
    BY <1>1, <2>3
  <2> QED BY <2>1, <2>2, <2>3
<1>7. state.setsSent <=> Sent(k)
  BY DEF FlagsTell
<1>8. next.setsSent <=> Sent(u)
  BY <1>4, <1>6, <1>7
<1> QED BY <1>5, <1>8 DEF FlagsTell, u
\* and one that is left out is not.
LEMMA FlagsUnkept ==
  ASSUME NEW frame \in FrameType, NEW k \in 0..(Len(frame) - 1), ~Kept(frame, k + 1),
         NEW state, FlagsTell(frame, state, k), NEW next,
         next.audSent <=> state.audSent, next.setsSent <=> state.setsSent
  PROVE  FlagsTell(frame, next, k + 1)
<1>1. /\ \A i \in 1..(k + 1) : i = k + 1 \/ i \in 1..k
      /\ \A i \in 1..k : i \in 1..(k + 1) /\ (i + 1)..(k + 1) = ((i + 1)..k) \cup {k + 1}
  BY DEF FrameType
<1>2. ~OpensOne(frame, k + 1) /\ ~KeptIdr(frame, k + 1) /\ ~KeptSlice(frame, k + 1)
  BY DEF OpensOne, KeptIdr, KeptSlice
<1>3. (\E i \in 1..(k + 1) : OpensOne(frame, i)) <=> \E i \in 1..k : OpensOne(frame, i)
  BY <1>1, <1>2
<1>4. ASSUME NEW i \in 1..k
      PROVE  (\A j \in (i + 1)..(k + 1) : ~KeptSlice(frame, j))
               <=> \A j \in (i + 1)..k : ~KeptSlice(frame, j)
  <2>1. (i + 1)..(k + 1) = ((i + 1)..k) \cup {k + 1}
    BY <1>1
  <2> QED BY <1>2, <2>1
<1>5. (\E i \in 1..(k + 1) : /\ KeptIdr(frame, i)
                             /\ \A j \in (i + 1)..(k + 1) : ~KeptSlice(frame, j))
        <=> \E i \in 1..k : /\ KeptIdr(frame, i)
                            /\ \A j \in (i + 1)..k : ~KeptSlice(frame, j)
  BY <1>1, <1>2, <1>4
<1> QED BY <1>3, <1>5 DEF FlagsTell

\* What the decoder wants before a unit is what is inserted there, in as much
\* room.
Before(frame, i) ==
  (IF Opens(frame, i) THEN <<Delimiter>> ELSE <<>>)
    \o (IF NeedsSets(frame, i) THEN <<Sps, Pps>> ELSE <<>>)
RoomBefore(frame, i) ==
  (IF Opens(frame, i) THEN 6 ELSE 0) + (IF NeedsSets(frame, i) THEN 11 ELSE 0)
Announced(frame, i, state, cut, next) ==
  /\ FlagsTell(frame, next, i)
  /\ Len(next.out) <= Len(state.out) + RoomBefore(frame, i)
  /\ Inserts(state.out, next.out)
  /\ cut = 0 /\ Len(state.out) + RoomBefore(frame, i) <= Capacity
       => Adds(state.out, next.out, Before(frame, i))
\* The passes insert that.
LEMMA AnnounceAppended ==
  ASSUME NEW frame \in FrameType, NEW k \in 0..(Len(frame) - 1),
         Kept(frame, k + 1), NEW state \in LoopStates, FlagsTell(frame, state, k),
         NEW cut \in Nat
  PROVE  Announced(frame, k + 1, state, cut,
                   Announce(state, frame[k + 1].type, HeaderChain(cut)))
<1> DEFINE u       == k + 1
           type    == frame[u].type
           header  == HeaderChain(cut)
           audDue  == ~state.audSent /\ type \in {Slice, Idr, Sei}
           setsDue == type = Idr /\ ~state.setsSent
           delimited == IF audDue THEN AppendAud(state.out) ELSE state.out
           out  == IF setsDue THEN AppendSpsPps(delimited, header) ELSE delimited
           aud  == state.audSent \/ audDue
           sets == IF type = Slice THEN FALSE ELSE state.setsSent \/ setsDue
           next == Announce(state, type, header)
           o == IF Opens(frame, u) THEN 6 ELSE 0
           p == IF NeedsSets(frame, u) THEN 11 ELSE 0
           a == IF Opens(frame, u) THEN <<Delimiter>> ELSE <<>>
           b == IF NeedsSets(frame, u) THEN <<Sps, Pps>> ELSE <<>>
<1>1. /\ state = [ok |-> state.ok, in |-> state.in, out |-> state.out,
                  audSent |-> state.audSent, setsSent |-> state.setsSent]
      /\ state.audSent \in BOOLEAN /\ state.setsSent \in BOOLEAN
      /\ Room(state.out) /\ Len(state.out) \in Nat
  BY DEF LoopStates, Room, Bytes
<1>2. next = [state EXCEPT !.audSent = aud, !.setsSent = sets, !.out = out]
  BY DEF Announce
<1>3. (audDue <=> Opens(frame, u)) /\ (setsDue <=> NeedsSets(frame, u))
  BY FlagsDue
<1>4. RoomBefore(frame, u) = o + p /\ Before(frame, u) = a \o b
  BY DEF RoomBefore, Before
<1>5. o \in Nat /\ p \in Nat /\ Capacity \in Nat
  BY AnnexBAssumption
<1>6. /\ Room(delimited) /\ Len(delimited) <= Len(state.out) + o
      /\ Inserts(state.out, delimited) /\ Len(delimited) \in Nat
      /\ Len(state.out) + o <= Capacity => Adds(state.out, delimited, a)
  <2> DEFINE longer == AppendAud(state.out)
  <2>1. /\ Room(longer) /\ Len(longer) <= Len(state.out) + 6
        /\ Inserts(state.out, longer)
        /\ Len(state.out) + 6 <= Capacity => Adds(state.out, longer, <<Delimiter>>)
    BY <1>1, AudAppended
  <2>2. Inserts(state.out, state.out) /\ Adds(state.out, state.out, <<>>)
    BY InsertsNone, AddsNone
  <2>3. Len(longer) \in Nat
    BY <2>1 DEF Room, Bytes
  <2> HIDE DEF longer, audDue
  <2>4. CASE Opens(frame, u)
    <3>1. delimited = longer /\ o = 6 /\ a = <<Delimiter>>
      BY <1>3, <2>4 DEF longer
    <3> HIDE DEF delimited, o, a
    <3> QED BY <2>1, <2>3, <3>1
  <2>5. CASE ~Opens(frame, u)
    <3>1. delimited = state.out /\ o = 0 /\ a = <<>>
      BY <1>3, <2>5
    <3> HIDE DEF delimited, o, a
    <3> QED BY <1>1, <2>2, <3>1
  <2> QED BY <2>4, <2>5
<1> HIDE DEF delimited, o, a
<1>7. /\ Len(out) <= Len(delimited) + p /\ Inserts(delimited, out) /\ Len(out) \in Nat
      /\ cut = 0 /\ Len(delimited) + p <= Capacity => Adds(delimited, out, b)
  <2> DEFINE longer == AppendSpsPps(delimited, header)
  <2>1. /\ longer \in Bytes /\ Len(longer) <= Len(delimited) + 11
        /\ Inserts(delimited, longer)
        /\ cut = 0 /\ Len(delimited) + 11 <= Capacity
             => Adds(delimited, longer, <<Sps, Pps>>)
    BY <1>6, SpsPpsAppended DEF SetsAppended
  <2>2. Inserts(delimited, delimited) /\ Adds(delimited, delimited, <<>>)
    BY InsertsNone, AddsNone
  <2>3. Len(longer) \in Nat
    BY <2>1 DEF Bytes
  <2> HIDE DEF longer, setsDue
  <2>4. CASE NeedsSets(frame, u)
    <3>1. out = longer /\ p = 11 /\ b = <<Sps, Pps>>
      BY <1>3, <2>4 DEF longer
    <3> HIDE DEF out, p, b
    <3> QED BY <2>1, <2>3, <3>1
  <2>5. CASE ~NeedsSets(frame, u)
    <3>1. out = delimited /\ p = 0 /\ b = <<>>
      BY <1>3, <2>5
    <3> HIDE DEF out, p, b
    <3> QED BY <1>6, <2>2, <3>1
  <2> QED BY <2>4, <2>5
<1> HIDE DEF out, p, b, next, header
<1>8. next.out = out /\ (next.audSent <=> aud) /\ (next.setsSent <=> sets)
  BY Zenon, <1>1, <1>2
<1>9. FlagsTell(frame, next, u)
  <2>1. aud <=> (state.audSent \/ type \in {Slice, Idr, Sei})
    OBVIOUS
  <2>2. sets <=> IF type = Slice THEN FALSE ELSE state.setsSent \/ type = Idr
    OBVIOUS
  <2> HIDE DEF aud, sets
  <2> QED BY <1>8, <2>1, <2>2, FlagsMore
<1>10. Len(next.out) <= Len(state.out) + RoomBefore(frame, u)
  BY <1>1, <1>4, <1>5, <1>6, <1>7, <1>8
<1>11. Inserts(state.out, next.out)
  BY <1>6, <1>7, <1>8, InsertsBoth
<1>12. ASSUME cut = 0, Len(state.out) + RoomBefore(frame, u) <= Capacity
       PROVE  Adds(state.out, next.out, Before(frame, u))
  <2>1. Len(state.out) + o <= Capacity /\ Len(delimited) + p <= Capacity
    BY <1>1, <1>4, <1>5, <1>6, <1>12
  <2>2. Adds(state.out, delimited, a) /\ Adds(delimited, out, b)
    BY <1>6, <1>7, <1>12, <2>1
  <2> QED BY <1>4, <1>8, <2>2, AddsBoth
<1> QED BY <1>9, <1>10, <1>11, <1>12 DEF Announced, next, header

\* A unit of the frame has no zero in it, and is the publisher's own if it is
\* kept.
LEMMA UnitSolid ==
  ASSUME NEW frame \in FrameType, NEW i \in 1..Len(frame), frame[i].size # 0
  PROVE  Solid(Unit(frame, i)) /\ (Kept(frame, i) => Own(Unit(frame, i)))
<1> DEFINE t == frame[i].type
           s == frame[i].size
           first == <<96 + t>>
           content == Content(frame, i)
           unit == Unit(frame, i)
<1>1. /\ t \in 0..31 /\ s \in Nat /\ content \in Bytes /\ Len(content) = s - 1
      /\ first \in Bytes /\ unit = first \o content /\ unit \in Bytes /\ Len(unit) = s
  BY UnitParts
<1>2. i \in Nat
  BY DEF FrameType
<1>3. Len(first) = 1 /\ first[1] = 96 + t
  OBVIOUS
<1>4. ASSUME NEW j \in 1..(s - 1) PROVE content[j] # 0
  <2>1. content[j] = 128 + 8 * i + j
    BY DEF Content
  <2> HIDE DEF content, s
  <2> QED BY <1>1, <1>2, <2>1
<1> HIDE DEF first, content, unit, t, s
<1>5. \A x, y \in Seq(Nat) :
        /\ x \o y \in Seq(Nat) /\ Len(x \o y) = Len(x) + Len(y)
        /\ \A j \in 1..(Len(x) + Len(y)) :
             (x \o y)[j] = IF j <= Len(x) THEN x[j] ELSE y[j - Len(x)]
  BY ConcatProperties
<1>6. \A j \in 1..s : unit[j] = IF j <= 1 THEN first[j] ELSE content[j - 1]
  BY <1>1, <1>3, <1>5 DEF Bytes
<1>7. s \in Nat \ {0}
  BY <1>1 DEF s
<1>8. unit[1] = 96 + t /\ unit # <<>>
  <2>1. unit[1] = 96 + t
    BY <1>3, <1>6, <1>7
  <2> QED BY <1>1, <1>7, <2>1
<1>9. ASSUME NEW j \in 1..s PROVE unit[j] # 0
  <2>1. CASE j = 1
    BY <1>1, <1>8, <2>1
  <2>2. CASE j # 1
    <3>1. j - 1 \in 1..(s - 1) /\ ~(j <= 1)
      BY <1>7, <2>2
    <3> QED BY <1>4, <1>6, <3>1
  <2> QED BY <2>1, <2>2
<1>10. Solid(unit)
  BY <1>1, <1>9 DEF Solid
<1>11. Kept(frame, i) => Own(unit)
  <2>1. \A x \in 0..31 : (96 + x) % 32 = x
    BY LowBits
  <2>2. NalType(unit[1]) = t
    BY <1>1, <1>8, <2>1 DEF NalType
  <2> QED BY <1>8, <2>2 DEF Kept, Own, t
<1> QED BY <1>10, <1>11 DEF unit

\* What is before it is not.
LEMMA BeforeForeign ==
  ASSUME NEW frame, NEW i PROVE Foreign(Before(frame, i))
<1> DEFINE a == IF Opens(frame, i) THEN <<Delimiter>> ELSE <<>>
           b == IF NeedsSets(frame, i) THEN <<Sps, Pps>> ELSE <<>>
<1>1. Foreign(a)
  BY InsertedUnits, ForeignNone
<1>2. Foreign(b)
  <2>1. <<Sps>> \o <<Pps>> = <<Sps, Pps>>
    BY InsertedUnits, Pair DEF Solid
  <2>2. Foreign(<<Sps>> \o <<Pps>>)
    BY InsertedUnits, ForeignBoth
  <2> QED BY <2>1, <2>2, ForeignNone
<1>3. Before(frame, i) = a \o b
  BY DEF Before
<1> HIDE DEF a, b
<1> QED BY <1>1, <1>2, <1>3, ForeignBoth

\* So the frame is expected unit by unit.
LEMMA ExpectedSteps ==
  ASSUME NEW frame \in FrameType
  PROVE  /\ First(AllExpected(frame), 0) = <<>>
         /\ First(AllExpected(frame), Len(frame)) = Expected(frame)
         /\ \A k \in 0..Len(frame) : First(AllExpected(frame), k) \in Chains
         /\ \A k \in 0..(Len(frame) - 1) :
              First(AllExpected(frame), k + 1)
                = IF Kept(frame, k + 1)
                  THEN First(AllExpected(frame), k)
                         \o (Before(frame, k + 1) \o <<Unit(frame, k + 1)>>)
                  ELSE First(AllExpected(frame), k)
<1> DEFINE N == Len(frame)
           all == AllExpected(frame)
<1>1. N \in Nat /\ DOMAIN frame = 1..N
  BY DEF FrameType
<1>2. \A i \in 1..N : ExpectedAt(frame, i) \in Chains
  BY RoomOfExpected
<1>3. all \in Seq(Chains) /\ Len(all) = N /\ \A i \in 1..N : all[i] = ExpectedAt(frame, i)
  <2>1. all = [i \in 1..N |-> ExpectedAt(frame, i)]
    BY <1>1 DEF AllExpected
  <2> HIDE DEF all, N
  <2> QED BY <1>1, <1>2, <2>1
<1>4. Expected(frame) = FlattenSeq(all)
  BY DEF Expected, AllExpected, ExpectedAt
<1> HIDE DEF all
<1>5. /\ First(all, 0) = <<>> /\ First(all, N) = FlattenSeq(all)
      /\ \A k \in 0..N : First(all, k) \in Chains
      /\ \A k \in 1..N : First(all, k) = First(all, k - 1) \o all[k]
  <2>1. all \in Seq(Seq(Bytes))
    BY <1>3 DEF Chains
  <2> QED BY <1>3, <2>1, FirstSteps DEF Chains
<1>6. ASSUME NEW k \in 0..(N - 1)
      PROVE  First(all, k + 1)
               = IF Kept(frame, k + 1)
                 THEN First(all, k) \o (Before(frame, k + 1) \o <<Unit(frame, k + 1)>>)
                 ELSE First(all, k)
  <2>1. /\ k + 1 \in 1..N /\ (k + 1) - 1 = k /\ k \in 0..N /\ First(all, k) \in Chains
        /\ all[k + 1] = ExpectedAt(frame, k + 1)
    BY <1>1, <1>3, <1>5
  <2>2. First(all, k + 1) = First(all, k) \o ExpectedAt(frame, k + 1)
    BY <1>5, <2>1
  <2>3. CASE Kept(frame, k + 1)
    <3>1. ExpectedAt(frame, k + 1) = Before(frame, k + 1) \o <<Unit(frame, k + 1)>>
      BY <2>3 DEF ExpectedAt, Before, Delimiter
    <3> QED BY <2>2, <2>3, <3>1
  <2>4. CASE ~Kept(frame, k + 1)
    <3>1. ExpectedAt(frame, k + 1) = <<>>
      BY <2>4 DEF ExpectedAt
    <3>2. First(all, k) \o <<>> = First(all, k)
      BY <2>1, ConcatEmptySeq DEF Chains
    <3> QED BY <2>2, <2>4, <3>1, <3>2
  <2> QED BY <2>3, <2>4
<1> QED BY <1>1, <1>4, <1>5, <1>6 DEF all, N

\* What is read of a chain whose end is lost is what was there.
Losing(in, lost, bytes) == in \in Chains /\ FlattenSeq(in) \o lost = bytes
HadLosing(in, lost, n, bytes, more) ==
  /\ Copy(in, n).bytes = bytes /\ Losing(Copy(in, n).in, lost, more)
  /\ Tight(Copy(in, n).in)
\* So much is read as was asked for, and the rest remains.
LEMMA CopyLosing ==
  ASSUME NEW in, NEW lost \in Bytes, NEW x \in Bytes, NEW y \in Bytes,
         Losing(in, lost, x \o y), NEW n, n = Len(x), Copy(in, n).ok
  PROVE  HadLosing(in, lost, n, x, y)
<1> DEFINE all  == FlattenSeq(in)
           copy == Copy(in, n)
           rest == FlattenSeq(copy.in)
           a == copy.bytes
           z == rest \o lost
<1>0. in \in Chains /\ FlattenSeq(in) \o lost = x \o y
  BY DEF Losing
<1>1. n \in Nat /\ Len(y) \in Nat /\ x \in Seq(Nat) /\ y \in Seq(Nat)
  BY DEF Bytes
<1>2. Copied(in, n, copy)
  BY <1>0, <1>1, CopySpec
<1>3. all \in Bytes
  BY <1>0, FlatType DEF Chains, Bytes
<1> HIDE DEF copy, all
<1>4. /\ a \in Bytes /\ Len(a) = n /\ Tight(copy.in) /\ n <= Len(all)
      /\ a = SubSeq(all, 1, n) /\ rest = SubSeq(all, n + 1, Len(all))
  BY <1>2 DEF Copied, copy, all
<1>5. rest \in Bytes
  BY <1>4, FlatType DEF Tight, Chains, Bytes
<1>6. all = a \o rest
  <2>1. all \in Seq(Nat) /\ Len(all) \in Nat
    BY <1>3 DEF Bytes
  <2>2. 1 \in 1..(Len(all) + 1) /\ n \in (1 - 1)..Len(all) /\ Len(all) \in n..Len(all)
    BY <1>1, <1>4, <2>1
  <2>3. SubSeq(all, 1, n) \o SubSeq(all, n + 1, Len(all)) = SubSeq(all, 1, Len(all))
    BY <2>1, <2>2, ConcatAdjacentSubSeq
  <2>4. SubSeq(all, 1, Len(all)) = all
    BY <2>1, SubSeqFull
  <2> QED BY <1>4, <2>3, <2>4
<1> HIDE DEF a, rest
<1>7. z \in Bytes /\ a \o z = x \o y
  <2>1. \A p, q, r \in Bytes : (p \o q) \o r = p \o (q \o r)
    BY JoinedThree
  <2>2. a \in Bytes
    BY <1>4
  <2>3. rest \in Bytes
    BY <1>5
  <2>4. (a \o rest) \o lost = a \o (rest \o lost)
    BY <2>1, <2>2, <2>3, Zenon
  <2>5. z \in Bytes
    BY <1>5, Joined
  <2> QED BY <1>0, <1>6, <2>4, <2>5 DEF all
<1> HIDE DEF z
<1>8. ASSUME NEW p \in Bytes, NEW q \in Bytes, Len(p) = n
      PROVE  SubSeq(p \o q, 1, n) = p /\ SubSeq(p \o q, n + 1, Len(p \o q)) = q
  <2>1. n \in 0..Len(p) /\ p \in Seq(Nat) /\ q \in Seq(Nat)
    BY <1>1, <1>8 DEF Bytes
  <2>2. /\ SubSeq(p \o q, 1, n) = SubSeq(p, 1, n)
        /\ SubSeq(p \o q, n + 1, Len(p \o q)) = SubSeq(p, n + 1, Len(p)) \o q
    BY <2>1, Parts
  <2>3. SubSeq(p, 1, n) = p /\ SubSeq(p, n + 1, Len(p)) = <<>>
    BY <1>8, <2>1, SubSeqFull, SubSeqEmpty
  <2> QED BY <2>1, <2>2, <2>3, ConcatEmptySeq
<1>9. a = x /\ z = y
  <2>1. a \in Bytes /\ Len(a) = n
    BY <1>4
  <2>2. z \in Bytes /\ a \o z = x \o y
    BY <1>7
  <2>3. SubSeq(a \o z, 1, n) = a /\ SubSeq(a \o z, n + 1, Len(a \o z)) = z
    BY <1>8, <2>1, <2>2
  <2>4. SubSeq(x \o y, 1, n) = x /\ SubSeq(x \o y, n + 1, Len(x \o y)) = y
    BY <1>8
  <2> QED BY <2>2, <2>3, <2>4
<1>10. copy.in \in Chains
  BY <1>4 DEF Tight
<1> QED BY <1>4, <1>9, <1>10 DEF a, z, rest, copy, HadLosing, Losing

\* Nothing can be had from the end.
LEMMA NotBehind == ASSUME NEW n \in Nat PROVE ~Copy(Failed.in, n).ok
<1>1. Failed.in = <<>> /\ <<>> \in Chains
  BY DEF Failed, Chains
<1> QED BY <1>1, CopySpec DEF Copied

\* A pass over a frame whose end is lost, if it does not fail, takes one unit,
Took(frame, lost, cut, state, k, result) ==
  /\ k \in 0..(Len(frame) - 1) /\ FlattenSeq(result.in) \o lost = Left(frame, k + 1)
  /\ ~Kept(frame, k + 1) =>
        /\ result.out = state.out /\ (result.audSent <=> state.audSent)
        /\ result.setsSent <=> state.setsSent
  /\ Kept(frame, k + 1) =>
        LET next == Announce(state, frame[k + 1].type, HeaderChain(cut))
        IN  /\ \E code \in Codes :
                 result.out = (next.out \o code) \o Unit(frame, k + 1)
            /\ result.audSent <=> next.audSent
            /\ result.setsSent <=> next.setsSent
\* whichever it is: a length of nothing, a unit that is left out or one that is
\* kept.
LEMMA PassTook ==
  ASSUME NEW frame \in FrameType, NEW lost \in Bytes, NEW cut \in Nat,
         NEW state \in LoopStates, NEW k \in 0..Len(frame),
         state.ok, state.in # <<>>, FlattenSeq(state.in) \o lost = Left(frame, k),
         Pass(state, HeaderChain(cut)).ok
  PROVE  Took(frame, lost, cut, state, k, Pass(state, HeaderChain(cut)))
<1> DEFINE header == HeaderChain(cut)
           length == Copy(state.in, NalBytes)
           size   == Number(length.bytes)
           byte   == Copy(length.in, 1)
           value  == Number(byte.bytes)
           type   == NalType(value)
           body   == Copy(byte.in, size - 1)
           result == Pass(state, header)
           N      == Len(frame)
<1>1. /\ state = [ok |-> state.ok, in |-> state.in, out |-> state.out,
                  audSent |-> state.audSent, setsSent |-> state.setsSent]
      /\ Tight(state.in) /\ Room(state.out) /\ state.in \in Chains
      /\ FlattenSeq(state.in) \in Bytes
  <2>1. Tight(state.in) /\ state.in \in Chains
    BY DEF LoopStates, Tight
  <2>2. FlattenSeq(state.in) \in Bytes
    BY <2>1, FlatType DEF Chains, Bytes
  <2> QED BY <2>1, <2>2 DEF LoopStates, Room
<1>2. result = IF length.ok /\ size = 0 THEN [state EXCEPT !.in = length.in]
               ELSE IF ~byte.ok THEN [state EXCEPT !.ok = FALSE]
               ELSE IF type \in 7..9 THEN [state EXCEPT !.ok = body.ok, !.in = body.in]
               ELSE AppendNal(Announce(state, type, header), value, body)
  BY DEF Pass
<1>3. result.ok
  OBVIOUS
<1> HIDE DEF result, header
<1>4. NalBytes \in 1..4 /\ NalBytes \in Nat
  BY AnnexBAssumption
<1>5. /\ N \in Nat /\ Left(frame, N) = <<>>
      /\ \A j \in 0..N : Left(frame, j) \in Bytes
      /\ \A j \in 0..(N - 1) : Left(frame, j) = Measured(frame, j + 1) \o Left(frame, j + 1)
  BY LeftSteps
<1>6. k \in 0..(N - 1)
  <2>1. FlattenSeq(state.in) # <<>>
    BY <1>1 DEF Tight
  <2>2. FlattenSeq(state.in) \o lost # <<>>
    BY <1>1, <2>1, ConcatEqualIffEmpty DEF Bytes
  <2>3. k # N
    BY <1>5, <2>2
  <2> QED BY <1>5, <2>3
<1> DEFINE u == k + 1
           s == frame[u].size
           t == frame[u].type
           more == Left(frame, u)
<1>7. /\ u \in 1..N /\ more \in Bytes
      /\ FlattenSeq(state.in) \o lost = Measured(frame, u) \o more
  <2>1. u \in 1..N /\ u \in 0..N
    BY <1>5, <1>6
  <2> QED BY <1>5, <1>6, <2>1
<1>8. /\ t \in 0..31 /\ s \in Nat
      /\ Length(frame, u) \in Bytes /\ Len(Length(frame, u)) = NalBytes
      /\ Number(Length(frame, u)) = s
      /\ s = 0 => Measured(frame, u) = Length(frame, u)
      /\ s # 0 =>
            /\ Content(frame, u) \in Bytes /\ Len(Content(frame, u)) = s - 1
            /\ <<96 + t>> \in Bytes
            /\ Unit(frame, u) = <<96 + t>> \o Content(frame, u)
            /\ Unit(frame, u) \in Bytes
            /\ Measured(frame, u) = Length(frame, u) \o Unit(frame, u)
  BY <1>7, UnitParts
<1> DEFINE rest == IF s = 0 THEN more ELSE Unit(frame, u) \o more
<1>9. rest \in Bytes /\ FlattenSeq(state.in) \o lost = Length(frame, u) \o rest
  <2>1. CASE s = 0
    BY <1>7, <1>8, <2>1
  <2>2. CASE s # 0
    <3>1. Unit(frame, u) \o more \in Bytes
      BY <1>7, <1>8, <2>2, Joined
    <3>2. (Length(frame, u) \o Unit(frame, u)) \o more
            = Length(frame, u) \o (Unit(frame, u) \o more)
      BY <1>7, <1>8, <2>2, JoinedThree
    <3> QED BY <1>7, <1>8, <2>2, <3>1, <3>2
  <2> QED BY <2>1, <2>2
<1>10. length.ok
  <2>1. length.ok \/ length = Failed
    BY <1>1, <1>4, CopySpec DEF Copied
  <2>2. SUFFICES ASSUME length = Failed, ~length.ok PROVE FALSE
    BY <2>1
  <2>3. ~byte.ok
    BY <2>2, NotBehind
  <2> HIDE DEF byte, length
  <2>4. result = [state EXCEPT !.ok = FALSE]
    BY <1>2, <2>2, <2>3
  <2> QED BY <1>1, <1>3, <2>4
<1>11. /\ length.bytes = Length(frame, u) /\ Tight(length.in)
       /\ FlattenSeq(length.in) \o lost = rest
  <2> HIDE DEF rest, s, t, more, u
  <2>1. Losing(state.in, lost, Length(frame, u) \o rest)
    BY <1>1, <1>9 DEF Losing
  <2>2. HadLosing(state.in, lost, NalBytes, Length(frame, u), rest)
    BY <1>8, <1>9, <1>10, <2>1, CopyLosing
  <2> QED BY <2>2 DEF HadLosing, Losing
<1>12. size = s /\ length.in \in Chains
  BY <1>8, <1>11 DEF Tight
<1> HIDE DEF length, size
<1>13. CASE s = 0
  <2>1. result = [state EXCEPT !.in = length.in]
    BY <1>2, <1>10, <1>12, <1>13
  <2>2. /\ result.out = state.out /\ result.in = length.in
        /\ (result.audSent <=> state.audSent) /\ (result.setsSent <=> state.setsSent)
    BY <1>1, <2>1
  <2>3. ~Kept(frame, u)
    BY <1>13 DEF Kept
  <2>4. FlattenSeq(result.in) \o lost = Left(frame, k + 1)
    BY <1>11, <1>13, <2>2
  <2> QED BY <1>6, <2>2, <2>3, <2>4 DEF Took, result, header
<1>14. CASE s # 0
  <2>1. /\ Content(frame, u) \o more \in Bytes
        /\ rest = <<96 + t>> \o (Content(frame, u) \o more)
    <3> DEFINE first == <<96 + t>>
    <3>1. first \in Bytes /\ Unit(frame, u) = first \o Content(frame, u)
      BY <1>8, <1>14
    <3>2. rest = Unit(frame, u) \o more
      BY <1>14
    <3> HIDE DEF first, more, rest
    <3>3. Content(frame, u) \o more \in Bytes
      BY <1>7, <1>8, <1>14, Joined
    <3>4. (first \o Content(frame, u)) \o more = first \o (Content(frame, u) \o more)
      BY <1>7, <1>8, <1>14, <3>1, JoinedThree
    <3> QED BY <3>1, <3>2, <3>3, <3>4 DEF first
  <2>2. byte.ok
    <3> SUFFICES ASSUME ~byte.ok PROVE FALSE
      OBVIOUS
    <3> HIDE DEF byte
    <3>1. result = [state EXCEPT !.ok = FALSE]
      BY <1>2, <1>12, <1>14
    <3> QED BY <1>1, <1>3, <3>1
  <2>3. /\ byte.bytes = <<96 + t>> /\ Tight(byte.in)
        /\ FlattenSeq(byte.in) \o lost = Content(frame, u) \o more
    <3> DEFINE x == <<96 + t>>
               y == Content(frame, u) \o more
    <3>1. x \in Bytes /\ Len(x) = 1 /\ y \in Bytes /\ FlattenSeq(length.in) \o lost = x \o y
      BY <1>8, <1>11, <1>14, <2>1
    <3> HIDE DEF x, y
    <3>2. Losing(length.in, lost, x \o y)
      BY <1>12, <3>1 DEF Losing
    <3>3. HadLosing(length.in, lost, 1, x, y)
      BY <2>2, <3>1, <3>2, CopyLosing
    <3> QED BY <3>3 DEF HadLosing, Losing, x, y
  <2>4. value = 96 + t /\ type = t /\ byte.in \in Chains
    <3>1. \A x \in Nat : Number(<<x>>) = x
      BY DEF Number
    <3>2. value = 96 + t
      <4>1. t \in 0..31 /\ byte.bytes = <<96 + t>>
        BY <1>8, <2>3
      <4> HIDE DEF t, byte
      <4>2. 96 + t \in Nat
        BY <4>1
      <4> QED BY <3>1, <4>1, <4>2
    <3>3. \A x \in 0..31 : (96 + x) % 32 = x
      BY LowBits
    <3> QED BY <1>8, <2>3, <3>2, <3>3 DEF NalType, Tight
  <2> HIDE DEF byte, value, type
  <2>5. body.ok => /\ body.bytes = Content(frame, u) /\ Tight(body.in)
                   /\ FlattenSeq(body.in) \o lost = more
    <3>1. /\ FlattenSeq(byte.in) \o lost = Content(frame, u) \o more /\ more \in Bytes
          /\ Content(frame, u) \in Bytes /\ size - 1 = Len(Content(frame, u))
      BY <1>7, <1>8, <1>12, <1>14, <2>3
    <3> HIDE DEF more, s, t
    <3>2. Losing(byte.in, lost, Content(frame, u) \o more)
      BY <2>4, <3>1 DEF Losing
    <3>3. body.ok => HadLosing(byte.in, lost, size - 1, Content(frame, u), more)
      BY <3>1, <3>2, CopyLosing
    <3> QED BY <3>3 DEF HadLosing, Losing
  <2> HIDE DEF body
  <2>6. CASE t \in 7..9
    <3>1. result = [state EXCEPT !.ok = body.ok, !.in = body.in]
      BY <1>2, <1>12, <1>14, <2>2, <2>4, <2>6
    <3>2. /\ result.ok = body.ok /\ result.out = state.out /\ result.in = body.in
          /\ (result.audSent <=> state.audSent) /\ (result.setsSent <=> state.setsSent)
      BY <1>1, <3>1
    <3>3. ~Kept(frame, u)
      BY <2>6 DEF Kept
    <3>4. FlattenSeq(result.in) \o lost = Left(frame, k + 1)
      BY <1>3, <2>5, <3>2
    <3> QED BY <1>6, <3>2, <3>3, <3>4 DEF Took, result, header
  <2>7. CASE t \notin 7..9
    <3> DEFINE next == Announce(state, t, header)
               code == IF next.out = <<>> THEN Prefix ELSE Tail(Prefix)
               out  == next.out \o code \o <<value>>
    <3>1. result = AppendNal(next, value, body)
      BY <1>2, <1>12, <1>14, <2>2, <2>4, <2>7
    <3>2. next \in LoopStates
      BY HeaderType, AnnounceType DEF header
    <3>3. AppendNal(next, value, body)
            = IF Fits(next.out, 5) /\ Fits(out, Len(body.bytes) + 1) /\ body.ok
              THEN [next EXCEPT !.in = body.in, !.out = out \o body.bytes]
              ELSE [next EXCEPT !.ok = FALSE]
      BY DEF AppendNal
    <3> HIDE DEF next
    <3>4. /\ next = [ok |-> next.ok, in |-> next.in, out |-> next.out,
                     audSent |-> next.audSent, setsSent |-> next.setsSent]
          /\ next.out \in Bytes
      BY <3>2 DEF LoopStates
    <3>5. code \in Codes
      BY DEF Codes
    <3> HIDE DEF code
    <3>6. body.ok /\ result = [next EXCEPT !.in = body.in, !.out = out \o body.bytes]
      <4> SUFFICES ASSUME ~(Fits(next.out, 5) /\ Fits(out, Len(body.bytes) + 1) /\ body.ok)
                   PROVE  FALSE
        BY <3>1, <3>3
      <4> HIDE DEF out
      <4>1. result = [next EXCEPT !.ok = FALSE]
        BY <3>1, <3>3
      <4> QED BY <1>3, <3>4, <4>1
    <3>7. out \o body.bytes = (next.out \o code) \o Unit(frame, u)
      <4> DEFINE both == next.out \o code
                 last == <<96 + t>>
      <4>1. code \in Bytes
        BY <3>5, CodeBytes
      <4>2. both \in Bytes
        BY <3>4, <4>1, Joined
      <4>3. out = both \o last
        BY <2>4
      <4>4. last \in Bytes /\ Content(frame, u) \in Bytes
            /\ Unit(frame, u) = last \o Content(frame, u)
        BY <1>8, <1>14
      <4> HIDE DEF both, last, out
      <4>5. (both \o last) \o Content(frame, u) = both \o (last \o Content(frame, u))
        BY <4>2, <4>4, JoinedThree
      <4> QED BY <2>5, <3>6, <4>3, <4>4, <4>5 DEF both
    <3> HIDE DEF out
    <3>8. /\ result.in = body.in /\ result.out = (next.out \o code) \o Unit(frame, u)
          /\ (result.audSent <=> next.audSent) /\ (result.setsSent <=> next.setsSent)
      BY <3>4, <3>6, <3>7
    <3>9. FlattenSeq(result.in) \o lost = Left(frame, k + 1)
      BY <2>5, <3>6, <3>8
    <3>10. Kept(frame, u)
      BY <1>8, <1>14, <2>7 DEF Kept
    <3> QED BY <1>6, <3>5, <3>8, <3>9, <3>10 DEF Took, result, header, next
  <2> QED BY <2>6, <2>7
<1> QED BY <1>13, <1>14

\* The loop is through with k units of the frame: what it has written weighs
\* no more than they do, and the flags tell of them.
Through(frame, state, k) ==
  /\ state.ok /\ FlattenSeq(state.in) = Left(frame, k)
  /\ Len(state.out) <= Weight(frame, k) /\ FlagsTell(frame, state, k)
\* A unit that is left out leaves all that.
LEMMA ThroughUnkept ==
  ASSUME NEW frame \in FrameType, NEW k \in 0..(Len(frame) - 1),
         ~Kept(frame, k + 1), NEW state \in LoopStates, Through(frame, state, k),
         NEW next, next.ok, next.out = state.out,
         next.audSent <=> state.audSent, next.setsSent <=> state.setsSent,
         FlattenSeq(next.in) = Left(frame, k + 1)
  PROVE  Through(frame, next, k + 1)
<1>1. /\ k \in Nat /\ Len(frame) \in Nat /\ k + 1 \in 1..Len(frame)
  BY DEF FrameType
<1>2. Weight(frame, k + 1) = Weight(frame, k) + 0 /\ Weight(frame, k) \in Nat
  <2>1. RoomOf(ExpectedAt(frame, k + 1)) = 0
    BY <1>1, RoomOfExpected
  <2>2. k \in 0..Len(frame)
    BY <1>1
  <2> QED BY <2>1, <2>2, WeightSteps
<1>3. FlagsTell(frame, next, k + 1)
  BY FlagsUnkept DEF Through
<1> QED BY <1>2, <1>3 DEF Through

\* Each pass takes one unit, and cannot fail if there is room for all and the
\* last is more than a byte.
LEMMA PassThrough ==
  ASSUME NEW frame \in FrameType, HasRoom(frame), ~EndsWithByte(frame),
         NEW cut \in Nat, NEW state \in LoopStates,
         NEW k \in 0..Len(frame), Through(frame, state, k)
  PROVE  \E i \in 0..Len(frame) : Through(frame, Pass(state, HeaderChain(cut)), i)
<1> DEFINE header == HeaderChain(cut)
           length == Copy(state.in, NalBytes)
           size   == Number(length.bytes)
           byte   == Copy(length.in, 1)
           value  == Number(byte.bytes)
           type   == NalType(value)
           body   == Copy(byte.in, size - 1)
           result == Pass(state, header)
           N      == Len(frame)
<1>1. /\ state = [ok |-> state.ok, in |-> state.in, out |-> state.out,
                  audSent |-> state.audSent, setsSent |-> state.setsSent]
      /\ Tight(state.in) /\ Room(state.out) /\ state.ok
  BY DEF LoopStates, Room, Through
<1>2. result = IF ~state.ok \/ state.in = <<>> THEN state
               ELSE IF length.ok /\ size = 0 THEN [state EXCEPT !.in = length.in]
               ELSE IF ~byte.ok THEN [state EXCEPT !.ok = FALSE]
               ELSE IF type \in 7..9 THEN [state EXCEPT !.ok = body.ok, !.in = body.in]
               ELSE AppendNal(Announce(state, type, header), value, body)
  BY DEF Pass
<1> HIDE DEF result, header
<1>3. CASE state.in = <<>>
  <2>1. result = state
    BY <1>2, <1>3
  <2> QED BY <2>1 DEF result, header
<1>4. CASE state.in # <<>>
  <2>1. /\ N \in Nat /\ Left(frame, N) = <<>>
        /\ \A j \in 0..N : Left(frame, j) \in Bytes
        /\ \A j \in 0..(N - 1) :
              /\ Left(frame, j) = Measured(frame, j + 1) \o Left(frame, j + 1)
              /\ Left(frame, j) # <<>>
    BY LeftSteps
  <2>2. k \in 0..(N - 1)
    <3>1. FlattenSeq(state.in) # <<>>
      BY <1>1, <1>4 DEF Tight
    <3>2. k # N
      BY <2>1, <3>1 DEF Through
    <3> QED BY <2>1, <3>2
  <2> DEFINE u == k + 1
             s == frame[u].size
             t == frame[u].type
             more == Left(frame, u)
  <2>3. /\ u \in 1..N /\ u \in 0..N /\ k \in Nat
        /\ FlattenSeq(state.in) = Measured(frame, u) \o more /\ more \in Bytes
        /\ u < N => more # <<>>
    <3>1. u \in 1..N /\ u \in 0..N /\ k \in Nat
      BY <2>1, <2>2
    <3>2. u < N => u \in 0..(N - 1)
      BY <2>1, <3>1
    <3> QED BY <2>1, <2>2, <3>1, <3>2 DEF Through
  <2>4. /\ t \in 0..31 /\ s \in Nat
        /\ Length(frame, u) \in Bytes /\ Len(Length(frame, u)) = NalBytes
        /\ Number(Length(frame, u)) = s
        /\ s = 0 => Measured(frame, u) = Length(frame, u)
        /\ s # 0 =>
              /\ Content(frame, u) \in Bytes /\ Len(Content(frame, u)) = s - 1
              /\ <<96 + t>> \in Bytes
              /\ Unit(frame, u) = <<96 + t>> \o Content(frame, u)
              /\ Unit(frame, u) \in Bytes
              /\ Measured(frame, u) = Length(frame, u) \o Unit(frame, u)
    BY <2>3, UnitParts
  <2> DEFINE rest == IF s = 0 THEN more ELSE Unit(frame, u) \o more
  <2>5. rest \in Bytes /\ FlattenSeq(state.in) = Length(frame, u) \o rest
    <3>1. CASE s = 0
      BY <2>3, <2>4, <3>1
    <3>2. CASE s # 0
      <4>1. Unit(frame, u) \o more \in Bytes
        BY <2>3, <2>4, <3>2, Joined
      <4>2. (Length(frame, u) \o Unit(frame, u)) \o more
              = Length(frame, u) \o (Unit(frame, u) \o more)
        BY <2>3, <2>4, <3>2, JoinedThree
      <4> QED BY <2>3, <2>4, <3>2, <4>1, <4>2
    <3> QED BY <3>1, <3>2
  <2>6. /\ length.ok /\ length.bytes = Length(frame, u)
        /\ FlattenSeq(length.in) = rest /\ Tight(length.in)
    <3> HIDE DEF rest, s, t, more
    <3>1. Had(state.in, NalBytes, Length(frame, u), rest)
      BY <1>1, <1>4, <2>4, <2>5, CopyPrefix DEF Tight
    <3> QED BY <3>1 DEF Had
  <2>7. size = s
    BY <2>4, <2>6
  <2> HIDE DEF length, size
  <2>8. CASE s = 0
    <3>1. result = [state EXCEPT !.in = length.in]
      BY <1>1, <1>2, <1>4, <2>6, <2>7, <2>8
    <3>2. /\ result.ok /\ result.out = state.out /\ result.in = length.in
          /\ (result.audSent <=> state.audSent) /\ (result.setsSent <=> state.setsSent)
      BY <1>1, <3>1
    <3>3. ~Kept(frame, u)
      BY <2>8 DEF Kept
    <3>4. FlattenSeq(result.in) = Left(frame, k + 1)
      BY <2>6, <2>8, <3>2
    <3>5. Through(frame, result, k + 1)
      BY <2>2, <3>2, <3>3, <3>4, ThroughUnkept
    <3> QED BY <2>3, <3>5 DEF result, header
  <2>9. CASE s # 0
    <3>1. /\ Content(frame, u) \o more \in Bytes
          /\ rest = <<96 + t>> \o (Content(frame, u) \o more)
      <4> DEFINE first == <<96 + t>>
      <4>1. first \in Bytes /\ Unit(frame, u) = first \o Content(frame, u)
        BY <2>4, <2>9
      <4>2. rest = Unit(frame, u) \o more
        BY <2>9
      <4> HIDE DEF first, more, rest
      <4>3. Content(frame, u) \o more \in Bytes
        BY <2>3, <2>4, <2>9, Joined
      <4>4. (first \o Content(frame, u)) \o more = first \o (Content(frame, u) \o more)
        BY <2>3, <2>4, <2>9, <4>1, JoinedThree
      <4> QED BY <4>1, <4>2, <4>3, <4>4 DEF first
    <3>2. length.in \in Chains /\ length.in # <<>>
      <4>1. rest # <<>>
        <5> DEFINE x == <<96 + t>>
                   y == Content(frame, u) \o more
        <5>1. x \in Seq(Nat) /\ x # <<>> /\ y \in Seq(Nat) /\ rest = x \o y
          BY <2>4, <2>9, <3>1 DEF Bytes
        <5> HIDE DEF x, y, rest
        <5> QED BY <5>1, ConcatEqualIffEmpty
      <4> QED BY <2>6, <4>1, NotEnded DEF Tight
    <3>3. /\ byte.ok /\ byte.bytes = <<96 + t>> /\ Tight(byte.in)
          /\ FlattenSeq(byte.in) = Content(frame, u) \o more
      <4> DEFINE x == <<96 + t>>
                 y == Content(frame, u) \o more
      <4>1. x \in Bytes /\ Len(x) = 1 /\ y \in Bytes /\ FlattenSeq(length.in) = x \o y
        BY <2>4, <2>6, <2>9, <3>1
      <4> HIDE DEF x, y
      <4>2. Had(length.in, 1, x, y)
        BY <3>2, <4>1, CopyPrefix
      <4> QED BY <4>2 DEF Had, x, y
    <3>4. value = 96 + t /\ type = t
      <4>1. \A x \in Nat : Number(<<x>>) = x
        BY DEF Number
      <4>2. value = 96 + t
        <5>1. t \in 0..31 /\ byte.bytes = <<96 + t>>
          BY <2>4, <3>3
        <5> HIDE DEF t, byte
        <5>2. 96 + t \in Nat
          BY <5>1
        <5> QED BY <4>1, <5>1, <5>2
      <4>3. \A x \in 0..31 : (96 + x) % 32 = x
        BY LowBits
      <4> QED BY <2>4, <4>2, <4>3 DEF NalType
    <3> HIDE DEF byte, value, type
    <3>5. byte.in # <<>> /\ byte.in \in Chains
      <4>1. Content(frame, u) \o more # <<>>
        <5>1. s = 1 => u < N
          <6>1. SUFFICES ASSUME s = 1, u = N PROVE FALSE
            BY <2>1, <2>3
          <6>2. frame # <<>>
            BY <2>1, <2>3
          <6> QED BY <6>1, <6>2 DEF EndsWithByte
        <5>2. s # 1 => Content(frame, u) # <<>>
          BY <2>4, <2>9
        <5>3. Content(frame, u) \in Seq(Nat) /\ more \in Seq(Nat)
          BY <2>3, <2>4, <2>9 DEF Bytes
        <5> QED BY <2>3, <5>1, <5>2, <5>3, ConcatEqualIffEmpty
      <4> QED BY <3>3, <4>1, NotEnded DEF Tight
    <3>6. /\ body.ok /\ body.bytes = Content(frame, u)
          /\ FlattenSeq(body.in) = more /\ Tight(body.in)
      <4>1. FlattenSeq(byte.in) = Content(frame, u) \o more /\ more \in Bytes
            /\ Content(frame, u) \in Bytes /\ size - 1 = Len(Content(frame, u))
        BY <2>3, <2>4, <2>7, <2>9, <3>3
      <4> HIDE DEF more, s, t
      <4>2. Had(byte.in, size - 1, Content(frame, u), more)
        BY <3>5, <4>1, CopyPrefix
      <4> QED BY <4>2 DEF Had
    <3> HIDE DEF body
    <3>7. CASE t \in 7..9
      <4>1. result = [state EXCEPT !.ok = body.ok, !.in = body.in]
        BY <1>1, <1>2, <1>4, <2>6, <2>7, <2>9, <3>3, <3>4, <3>7
      <4>2. /\ result.ok /\ result.out = state.out /\ result.in = body.in
            /\ (result.audSent <=> state.audSent) /\ (result.setsSent <=> state.setsSent)
        BY <1>1, <3>6, <4>1
      <4>3. ~Kept(frame, u)
        BY <3>7 DEF Kept
      <4>4. FlattenSeq(result.in) = Left(frame, k + 1)
        BY <3>6, <4>2
      <4>5. Through(frame, result, k + 1)
        BY <2>2, <4>2, <4>3, <4>4, ThroughUnkept
      <4> QED BY <2>3, <4>5 DEF result, header
    <3>8. CASE t \notin 7..9
      <4> DEFINE next == Announce(state, t, header)
                 code == IF next.out = <<>> THEN Prefix ELSE Tail(Prefix)
                 out  == next.out \o code \o <<value>>
      <4>1. result = AppendNal(next, value, body)
        BY <1>1, <1>2, <1>4, <2>6, <2>7, <2>9, <3>3, <3>4, <3>8
      <4>2. Kept(frame, u)
        BY <2>4, <2>9, <3>8 DEF Kept
      <4>3. next \in LoopStates /\ next.in = state.in /\ next.ok = state.ok
        BY HeaderType, AnnounceType DEF header
      <4>4. /\ Len(next.out) <= Len(state.out)
                   + (IF Opens(frame, u) THEN 6 ELSE 0)
                   + (IF NeedsSets(frame, u) THEN 11 ELSE 0)
            /\ FlagsTell(frame, next, u)
        <5>1. Announced(frame, u, state, cut, next)
          BY <2>2, <4>2, AnnounceAppended DEF Through, header
        <5>2. Len(next.out) <= Len(state.out) + RoomBefore(frame, u)
          BY <5>1 DEF Announced
        <5>3. FlagsTell(frame, next, u)
          BY <5>1 DEF Announced
        <5> DEFINE o == IF Opens(frame, u) THEN 6 ELSE 0
                   p == IF NeedsSets(frame, u) THEN 11 ELSE 0
        <5>4. o \in Nat /\ p \in Nat /\ RoomBefore(frame, u) = o + p
          BY DEF RoomBefore
        <5>5. Len(next.out) \in Nat /\ Len(state.out) \in Nat
          BY <1>1, <4>3 DEF LoopStates, Room, Bytes
        <5> HIDE DEF o, p, next, u
        <5>6. \A a, b \in Nat : a <= b + (o + p) => a <= b + o + p
          BY <5>4
        <5>7. Len(next.out) <= Len(state.out) + o + p
          BY <5>2, <5>4, <5>5, <5>6
        <5> QED BY <5>3, <5>7 DEF o, p, u, next
      <4>5. AppendNal(next, value, body)
              = IF Fits(next.out, 5) /\ Fits(out, Len(body.bytes) + 1) /\ body.ok
                THEN [next EXCEPT !.in = body.in, !.out = out \o body.bytes]
                ELSE [next EXCEPT !.ok = FALSE]
        BY DEF AppendNal
      <4> HIDE DEF next
      <4>6. /\ next = [ok |-> next.ok, in |-> next.in, out |-> next.out,
                       audSent |-> next.audSent, setsSent |-> next.setsSent]
            /\ next.out \in Seq(Nat) /\ Len(next.out) \in Nat /\ next.ok
        <5> HIDE DEF s, t, u, more, rest, code, out
        <5>1. next \in [ok : BOOLEAN, in : Chains, out : Bytes,
                        audSent : BOOLEAN, setsSent : BOOLEAN]
          BY <4>3 DEF LoopStates
        <5>2. next.out \in Seq(Nat)
          BY <5>1 DEF Bytes
        <5>3. Len(next.out) \in Nat
          BY <5>2
        <5> QED BY <1>1, <4>3, <5>1, <5>2, <5>3
      <4>7. code \in Seq(Nat) /\ Len(code) \in {3, 4}
        <5>1. Prefix \in Seq(Nat) /\ Len(Prefix) = 4 /\ Tail(Prefix) \in Seq(Nat)
              /\ Len(Tail(Prefix)) = 3
          BY DEF Prefix
        <5> QED BY <5>1
      <4> HIDE DEF code
      <4>8. /\ out \in Seq(Nat) /\ Len(out) = Len(next.out) + Len(code) + 1
        <5>1. value \in Nat
          <6>1. t \in 0..31
            BY <2>4
          <6> HIDE DEF t
          <6> QED BY <3>4, <6>1
        <5> HIDE DEF value
        <5> DEFINE last == <<value>>
                   both == next.out \o code
        <5>2. /\ last \in Bytes /\ Len(last) = 1 /\ next.out \in Bytes
              /\ code \in Bytes
          BY <4>6, <4>7, <5>1 DEF Bytes
        <5>3. out = both \o last
          OBVIOUS
        <5>4. both \in Bytes /\ Len(both) = Len(next.out) + Len(code)
          BY <5>2, Joined
        <5> HIDE DEF last, both, out
        <5>5. both \o last \in Bytes /\ Len(both \o last) = Len(both) + Len(last)
          BY <5>2, <5>4, Joined
        <5> QED BY <5>2, <5>3, <5>4, <5>5 DEF Bytes
      <4> HIDE DEF out
      <4>9. body.bytes \in Seq(Nat) /\ Len(body.bytes) = s - 1
        BY <2>4, <2>9, <3>6 DEF Bytes
      <4>10. /\ Weight(frame, u) = Weight(frame, k)
                  + ((IF Opens(frame, u) THEN 6 ELSE 0)
                       + (IF NeedsSets(frame, u) THEN 11 ELSE 0) + s + 4)
             /\ Weight(frame, u) + 1 <= Capacity
             /\ Weight(frame, u) \in Nat /\ Weight(frame, k) \in Nat
             /\ Len(state.out) <= Weight(frame, k)
        <5>1. RoomOf(ExpectedAt(frame, u))
                = (IF Opens(frame, u) THEN 6 ELSE 0)
                    + (IF NeedsSets(frame, u) THEN 11 ELSE 0) + s + 4
          BY <2>3, <4>2, RoomOfExpected
        <5>2. /\ Weight(frame, u) = Weight(frame, k) + RoomOf(ExpectedAt(frame, u))
              /\ Weight(frame, u) <= Weight(frame, N) /\ Weight(frame, N) + 1 <= Capacity
              /\ Weight(frame, u) \in Nat /\ Weight(frame, k) \in Nat
              /\ Weight(frame, N) \in Nat
          <6>1. N \in 0..N
            BY <2>1
          <6> QED BY <2>2, <2>3, <6>1, WeightSteps
        <5>3. Len(state.out) <= Weight(frame, k) /\ Capacity \in Nat
          BY AnnexBAssumption DEF Through
        <5> QED BY <5>1, <5>2, <5>3
      <4>11. /\ Len(out) + (Len(body.bytes) + 1) <= Capacity /\ Len(next.out) + 5 <= Capacity
             /\ Len(out) + Len(body.bytes) <= Weight(frame, u)
        <5> DEFINE o == IF Opens(frame, u) THEN 6 ELSE 0
                   p == IF NeedsSets(frame, u) THEN 11 ELSE 0
        <5>1. o \in Nat /\ p \in Nat
          OBVIOUS
        <5>2. Len(next.out) <= Len(state.out) + o + p
          BY <4>4
        <5>3. Weight(frame, u) = Weight(frame, k) + (o + p + s + 4)
          BY <4>10
        <5>4. Len(state.out) \in Nat /\ Capacity \in Nat /\ s \in Nat \ {0}
          BY <1>1, <2>4, <2>9, AnnexBAssumption DEF Room, Bytes
        <5>5. /\ Weight(frame, u) + 1 <= Capacity /\ Weight(frame, u) \in Nat
              /\ Weight(frame, k) \in Nat /\ Len(state.out) <= Weight(frame, k)
          BY <4>10
        <5> HIDE DEF o, p, s, u
        <5> DEFINE before == Len(state.out)
                   w == Weight(frame, k)
                   x == Weight(frame, u)
                   n == Len(next.out)
                   c == Len(code)
                   d == Len(out)
                   e == Len(body.bytes)
        <5>6. n \in Nat /\ c \in Nat /\ c <= 4 /\ d = n + c + 1 /\ e = s - 1
          <6>1. /\ Len(next.out) \in Nat /\ Len(code) \in {3, 4}
                /\ Len(out) = Len(next.out) + Len(code) + 1 /\ Len(body.bytes) = s - 1
            BY <4>6, <4>7, <4>8, <4>9
          <6>2. n \in Nat /\ c \in {3, 4} /\ d = n + c + 1 /\ e = s - 1
            BY <6>1
          <6> HIDE DEF n, c, d, e
          <6> QED BY <6>2
        <5>7. /\ n <= before + o + p /\ x = w + (o + p + s + 4) /\ before <= w
              /\ x + 1 <= Capacity /\ before \in Nat /\ w \in Nat /\ x \in Nat
          BY <5>2, <5>3, <5>4, <5>5
        <5> HIDE DEF before, w, x, n, c, d, e
        <5>8. d + (e + 1) <= Capacity /\ n + 5 <= Capacity /\ d + e <= x
          BY <5>1, <5>4, <5>6, <5>7
        <5> QED BY <5>8 DEF d, e, n, x
      <4>12. result = [next EXCEPT !.in = body.in, !.out = out \o body.bytes]
        BY <3>6, <4>1, <4>5, <4>11 DEF Fits
      <4>13. /\ result.ok /\ result.in = body.in /\ result.out = out \o body.bytes
             /\ (result.audSent <=> next.audSent) /\ (result.setsSent <=> next.setsSent)
        BY <4>6, <4>12
      <4>14. Len(result.out) <= Weight(frame, u)
        <5>1. out \in Bytes /\ body.bytes \in Bytes
          BY <4>8, <4>9 DEF Bytes
        <5>2. Len(out \o body.bytes) = Len(out) + Len(body.bytes)
          BY <5>1, Joined
        <5> QED BY <4>11, <4>13, <5>2
      <4>15. Through(frame, result, u)
        <5>1. FlagsTell(frame, result, u)
          BY <4>4, <4>13 DEF FlagsTell
        <5> QED BY <3>6, <4>13, <4>14, <5>1 DEF Through
      <4> QED BY <2>3, <4>15 DEF result, header
    <3> QED BY <3>7, <3>8
  <2> QED BY <2>8, <2>9
<1> QED BY <1>3, <1>4

\* So the loop gets through the frame.
LEMMA PassesThrough ==
  ASSUME NEW frame \in FrameType, HasRoom(frame), ~EndsWithByte(frame),
         NEW cut \in Nat, NEW state \in LoopStates, Through(frame, state, 0)
  PROVE  Passes(state, HeaderChain(cut)).ok
<1> DEFINE most   == Len(FlattenSeq(state.in))
           header == HeaderChain(cut)
<1>1. header \in Chains
  BY HeaderType
<1> HIDE DEF header
<1>2. PICK f : /\ Run(f, most, state, header) /\ Passes(state, header) = f[most]
               /\ \A k \in 0..most : f[k] \in LoopStates
  BY <1>1, RunExists
<1>3. most \in Nat
  BY <1>1, PassType
<1> HIDE DEF most
<1> DEFINE T == {k \in 0..most : \E i \in 0..Len(frame) : Through(frame, f[k], i)}
<1>4. 0 \in T
  <2>1. f[0] = state /\ 0 \in 0..most /\ 0 \in 0..Len(frame)
    BY <1>2, <1>3 DEF Run, FrameType
  <2> QED BY <2>1
<1>5. ASSUME NEW n \in 0..(most - 1), n \in T PROVE n + 1 \in T
  <2>1. n + 1 \in 0..most /\ (n + 1) - 1 = n /\ n + 1 # 0 /\ n \in 0..most
    BY <1>3
  <2>2. f[n + 1] = Pass(f[n], header) /\ f[n] \in LoopStates
    BY <1>2, <2>1 DEF Run
  <2>3. PICK i \in 0..Len(frame) : Through(frame, f[n], i)
    BY <1>5
  <2>4. \E j \in 0..Len(frame) : Through(frame, Pass(f[n], header), j)
    BY <2>2, <2>3, PassThrough DEF header
  <2> QED BY <2>1, <2>2, <2>4
<1>6. most \in T
  <2> HIDE DEF T
  <2>1. 0..most \subseteq T
    BY <1>3, <1>4, <1>5, UpTo
  <2> QED BY <1>3, <2>1
<1> QED BY <1>2, <1>6 DEF Through, header

\* An output with the publisher's units of those that are wanted.
ReadsOwn(out, wanted) ==
  \E units : Reads(out, units) /\ OwnUnits(units) = OwnUnits(wanted)
\* What is inserted before a unit makes no difference to that.
LEMMA OwnMore ==
  ASSUME NEW out, NEW wanted \in Chains, ReadsOwn(out, wanted),
         NEW mid, Inserts(out, mid), NEW before, Foreign(before),
         NEW code \in Codes, NEW unit, Solid(unit)
  PROVE  ReadsOwn((mid \o code) \o unit, wanted \o (before \o <<unit>>))
<1> DEFINE more == (mid \o code) \o unit
           last == <<unit>>
<1>1. PICK units : Reads(out, units) /\ OwnUnits(units) = OwnUnits(wanted)
  BY DEF ReadsOwn
<1>2. PICK ins : Foreign(ins) /\ Adds(out, mid, ins)
  BY DEF Inserts
<1>3. Adds(mid, more, last)
  BY AddsUnit
<1>4. last \in Chains
  BY <1>3 DEF Adds
<1> HIDE DEF more, last
<1>5. Adds(out, more, ins \o last)
  BY <1>2, <1>3, AddsBoth
<1>6. Reads(more, units \o (ins \o last))
  BY <1>1, <1>5 DEF Adds
<1>7. ASSUME NEW a \in Chains, NEW b, Foreign(b)
      PROVE  OwnUnits(a \o (b \o last)) = OwnUnits(a) \o OwnUnits(last)
  <2>1. /\ b \in Chains /\ b \o last \in Chains
        /\ OwnUnits(b \o last) = <<>> \o OwnUnits(last)
    BY <1>4, <1>7, OwnConcat DEF Foreign
  <2>2. OwnUnits(a \o (b \o last)) = OwnUnits(a) \o OwnUnits(b \o last)
    BY <1>7, <2>1, OwnConcat
  <2>3. <<>> \o OwnUnits(last) = OwnUnits(last)
    BY <1>4, OwnType, ConcatEmptySeq DEF Chains
  <2> QED BY <2>1, <2>2, <2>3
<1>8. units \in Chains
  BY <1>1 DEF Reads
<1>9. OwnUnits(units \o (ins \o last)) = OwnUnits(units) \o OwnUnits(last)
  BY <1>2, <1>7, <1>8
<1>10. OwnUnits(wanted \o (before \o last)) = OwnUnits(wanted) \o OwnUnits(last)
  BY <1>7
<1>11. OwnUnits(units \o (ins \o last)) = OwnUnits(wanted \o (before \o last))
  BY <1>1, <1>9, <1>10
<1>12. ReadsOwn(more, wanted \o (before \o last))
  BY <1>6, <1>11 DEF ReadsOwn
<1> QED BY <1>12 DEF more, last

\* The loop has got through k units of a frame whose end is lost: a decoder
\* reads in the output what the publisher's own of them are, and all that is
\* wanted of them if the header is whole and there is room.
Reading(frame, lost, cut, state, k) ==
  /\ state.ok /\ FlattenSeq(state.in) \o lost = Left(frame, k)
  /\ FlagsTell(frame, state, k)
  /\ ReadsOwn(state.out, First(AllExpected(frame), k))
  /\ cut = 0 /\ HasRoom(frame) => /\ Reads(state.out, First(AllExpected(frame), k))
                                  /\ Len(state.out) <= Weight(frame, k)
\* A pass that does not fail gets through one more.
LEMMA PassReads ==
  ASSUME NEW frame \in FrameType, NEW lost \in Bytes, NEW cut \in Nat,
         NEW state \in LoopStates, NEW k \in 0..Len(frame),
         Reading(frame, lost, cut, state, k), state.in # <<>>,
         Pass(state, HeaderChain(cut)).ok
  PROVE  /\ k + 1 \in 0..Len(frame)
         /\ Reading(frame, lost, cut, Pass(state, HeaderChain(cut)), k + 1)
<1> DEFINE result == Pass(state, HeaderChain(cut))
           all == AllExpected(frame)
           u == k + 1
<1>1. Took(frame, lost, cut, state, k, result)
  BY PassTook DEF Reading
<1>2. result.ok
  OBVIOUS
<1> HIDE DEF result
<1>3. /\ k \in 0..(Len(frame) - 1) /\ FlattenSeq(result.in) \o lost = Left(frame, u)
      /\ Len(frame) \in Nat
  BY <1>1 DEF Took, FrameType
<1>4. u \in 1..Len(frame) /\ u \in 0..Len(frame) /\ k \in 0..Len(frame)
  BY <1>3
<1>5. /\ First(all, k) \in Chains
      /\ First(all, u) = IF Kept(frame, u)
                         THEN First(all, k) \o (Before(frame, u) \o <<Unit(frame, u)>>)
                         ELSE First(all, k)
  BY <1>3, <1>4, ExpectedSteps
<1>6. /\ Weight(frame, u) = Weight(frame, k) + RoomOf(ExpectedAt(frame, u))
      /\ Weight(frame, k) \in Nat /\ Weight(frame, u) \in Nat
      /\ HasRoom(frame) => Weight(frame, u) + 1 <= Capacity
  <2>1. /\ Weight(frame, u) = Weight(frame, k) + RoomOf(ExpectedAt(frame, u))
        /\ Weight(frame, k) \in Nat /\ Weight(frame, u) \in Nat
        /\ Weight(frame, u) <= Weight(frame, Len(frame)) /\ Weight(frame, Len(frame)) \in Nat
        /\ HasRoom(frame) => Weight(frame, Len(frame)) + 1 <= Capacity
    <3>1. Len(frame) \in 0..Len(frame)
      BY <1>3
    <3> QED BY <1>3, <1>4, <3>1, WeightSteps
  <2> QED BY <2>1, AnnexBAssumption
<1> HIDE DEF all, u
<1>7. CASE ~Kept(frame, u)
  <2>1. /\ result.out = state.out /\ (result.audSent <=> state.audSent)
        /\ (result.setsSent <=> state.setsSent)
    BY <1>1, <1>7 DEF Took, u
  <2>2. FlagsTell(frame, result, u)
    BY <1>3, <1>7, <2>1, FlagsUnkept DEF Reading, u
  <2>3. RoomOf(ExpectedAt(frame, u)) = 0
    BY <1>4, <1>7, RoomOfExpected
  <2>4. Weight(frame, u) = Weight(frame, k)
    BY <1>6, <2>3
  <2>5. First(all, u) = First(all, k)
    BY <1>5, <1>7
  <2> QED BY <1>2, <1>3, <1>4, <2>1, <2>2, <2>4, <2>5 DEF Reading, all, u, result
<1>8. CASE Kept(frame, u)
  <2> DEFINE next == Announce(state, frame[u].type, HeaderChain(cut))
             unit == Unit(frame, u)
             room == RoomBefore(frame, u)
             s == frame[u].size
  <2>1. /\ \E code \in Codes : result.out = (next.out \o code) \o unit
        /\ (result.audSent <=> next.audSent) /\ (result.setsSent <=> next.setsSent)
    BY <1>1, <1>8 DEF Took, u
  <2>2. PICK code \in Codes : result.out = (next.out \o code) \o unit
    BY <2>1
  <2>3. Announced(frame, u, state, cut, next)
    BY <1>3, <1>8, AnnounceAppended DEF Reading, u
  <2>4. s \in Nat \ {0} /\ Solid(unit) /\ unit \in Bytes /\ Len(unit) = s
    <3>1. frame[u].size \in Nat
      BY <1>4, UnitParts
    <3>2. frame[u].size > 0
      BY <1>8 DEF Kept
    <3>3. frame[u].size # 0
      BY <3>1, <3>2
    <3> QED BY <1>4, <3>1, <3>3, UnitParts, UnitSolid
  <2>5. next.out \in Bytes /\ Len(next.out) \in Nat
    <3>1. next \in LoopStates
      BY HeaderType, AnnounceType
    <3> QED BY <3>1 DEF LoopStates, Bytes
  <2> HIDE DEF next, unit
  <2>6. FlagsTell(frame, result, u)
    BY <2>1, <2>3 DEF Announced, FlagsTell
  <2>7. ReadsOwn(result.out, First(all, u))
    <3>1. ReadsOwn(state.out, First(all, k)) /\ Inserts(state.out, next.out)
      BY <2>3 DEF Reading, Announced, all
    <3>2. Foreign(Before(frame, u))
      BY BeforeForeign
    <3>3. ReadsOwn((next.out \o code) \o unit, First(all, k) \o (Before(frame, u) \o <<unit>>))
      BY <1>5, <2>4, <3>1, <3>2, OwnMore
    <3> QED BY <1>5, <1>8, <2>2, <3>3 DEF unit
  <2>8. ASSUME cut = 0, HasRoom(frame)
        PROVE  Reads(result.out, First(all, u)) /\ Len(result.out) <= Weight(frame, u)
    <3>1. Reads(state.out, First(all, k)) /\ Len(state.out) <= Weight(frame, k)
          /\ Len(state.out) \in Nat
      BY <2>8 DEF Reading, all, LoopStates, Bytes
    <3>2. Weight(frame, u) = Weight(frame, k) + room + s + 4 /\ room \in Nat
      <4>1. RoomOf(ExpectedAt(frame, u))
              = (IF Opens(frame, u) THEN 6 ELSE 0)
                  + (IF NeedsSets(frame, u) THEN 11 ELSE 0) + s + 4
        BY <1>4, <1>8, RoomOfExpected
      <4> DEFINE o == IF Opens(frame, u) THEN 6 ELSE 0
                 p == IF NeedsSets(frame, u) THEN 11 ELSE 0
      <4>2. o \in Nat /\ p \in Nat /\ room = o + p
        BY DEF RoomBefore
      <4>3. RoomOf(ExpectedAt(frame, u)) = o + p + s + 4
        BY <4>1
      <4> HIDE DEF o, p, room, s
      <4> QED BY <1>6, <2>4, <4>2, <4>3
    <3>3. Len(next.out) <= Len(state.out) + room
      BY <2>3 DEF Announced
    <3> HIDE DEF room, s
    <3>4. Weight(frame, u) + 1 <= Capacity /\ Capacity \in Nat
      BY <1>6, <2>8, AnnexBAssumption
    <3>5. Len(state.out) + room <= Capacity
      BY <1>6, <2>4, <3>1, <3>2, <3>4
    <3>6. Adds(state.out, next.out, Before(frame, u))
      BY <2>3, <2>8, <3>5 DEF Announced, room
    <3>7. Adds(state.out, result.out, Before(frame, u) \o <<unit>>)
      BY <2>2, <2>4, <3>6, AddsUnit, AddsBoth
    <3>8. Reads(result.out, First(all, k) \o (Before(frame, u) \o <<unit>>))
      BY <3>1, <3>7 DEF Adds
    <3>9. Reads(result.out, First(all, u))
      BY <1>5, <1>8, <3>8 DEF unit
    <3>10. Len(result.out) <= Len(next.out) + 4 + s
      <4>1. code \in Bytes /\ Len(code) \in {3, 4}
        BY CodeBytes
      <4>2. next.out \o code \in Bytes /\ Len(next.out \o code) = Len(next.out) + Len(code)
        BY <2>5, <4>1, Joined
      <4>3. Len((next.out \o code) \o unit) = Len(next.out \o code) + Len(unit)
        BY <2>4, <4>2, Joined
      <4>4. Len(result.out) = Len(next.out) + Len(code) + s
        BY <2>2, <2>4, <4>2, <4>3
      <4>5. Len(next.out) \in Nat /\ s \in Nat
        BY <2>4, <2>5
      <4>6. ASSUME NEW a \in Nat, NEW b \in {3, 4}, NEW c \in Nat
            PROVE  a + b + c <= a + 4 + c
        BY <4>6
      <4> QED BY <4>1, <4>4, <4>5, <4>6
    <3>11. Len(result.out) <= Weight(frame, u)
      <4>1. Len(result.out) \in Nat /\ Len(next.out) \in Nat
            /\ Len(state.out) \in Nat /\ s \in Nat
        BY <2>4, <2>5, <3>1, <3>8 DEF Reads, Sound, Bytes
      <4>2. ASSUME NEW a \in Nat, NEW b \in Nat, NEW c \in Nat, NEW d \in Nat,
                   NEW e \in Nat, NEW f \in Nat,
                   a <= b + 4 + d, b <= c + e, c <= f
            PROVE  a <= f + e + d + 4
        BY <4>2
      <4>3. Weight(frame, k) \in Nat /\ Len(state.out) <= Weight(frame, k)
        BY <1>6, <3>1
      <4>4. Len(result.out) <= Weight(frame, k) + room + s + 4
        BY <3>2, <3>3, <3>10, <4>1, <4>2, <4>3
      <4> QED BY <3>2, <4>4
    <3> QED BY <3>9, <3>11
  <2> QED BY <1>2, <1>3, <1>4, <2>6, <2>7, <2>8 DEF Reading, all, u, result
<1> QED BY <1>7, <1>8

\* A loop that does not fail reads units until the chain is at its end.
LEMMA LoopReads ==
  ASSUME NEW frame \in FrameType, NEW lost \in Bytes, NEW cut \in Nat,
         NEW state \in LoopStates, Reading(frame, lost, cut, state, 0),
         Passes(state, HeaderChain(cut)).ok
  PROVE  /\ Passes(state, HeaderChain(cut)).in = <<>>
         /\ \E k \in 0..Len(frame) :
              Reading(frame, lost, cut, Passes(state, HeaderChain(cut)), k)
<1> DEFINE most   == Len(FlattenSeq(state.in))
           header == HeaderChain(cut)
<1>1. header \in Chains
  BY HeaderType
<1> HIDE DEF header
<1>2. PICK f : /\ Run(f, most, state, header) /\ Passes(state, header) = f[most]
               /\ \A k \in 0..most : f[k] \in LoopStates
  BY <1>1, RunExists
<1>3. most \in Nat
  BY <1>1, PassType
<1>4. f[most].ok /\ f[most].in = <<>>
  BY <1>1, <1>2, LoopEnds DEF header
<1> HIDE DEF most
<1> DEFINE Done(k) == \E i \in 0..Len(frame) : Reading(frame, lost, cut, f[k], i)
           T == {k \in 0..most : ~f[k].ok \/ Done(k)}
<1>5. 0 \in T
  <2>1. f[0] = state /\ 0 \in 0..most /\ 0 \in 0..Len(frame)
    BY <1>2, <1>3 DEF Run, FrameType
  <2> QED BY <2>1
<1>6. ASSUME NEW n \in 0..(most - 1), n \in T PROVE n + 1 \in T
  <2>1. n + 1 \in 0..most /\ (n + 1) - 1 = n /\ n + 1 # 0 /\ n \in 0..most
    BY <1>3
  <2>2. f[n + 1] = Pass(f[n], header) /\ f[n] \in LoopStates
    BY <1>2, <2>1 DEF Run
  <2>3. CASE ~f[n].ok \/ f[n].in = <<>>
    <3>1. f[n + 1] = f[n]
      BY <2>2, <2>3 DEF Pass
    <3> QED BY <1>6, <2>1, <3>1
  <2>4. CASE f[n].ok /\ f[n].in # <<>>
    <3>1. PICK i \in 0..Len(frame) : Reading(frame, lost, cut, f[n], i)
      BY <1>6, <2>4
    <3>2. f[n + 1].ok => /\ i + 1 \in 0..Len(frame)
                         /\ Reading(frame, lost, cut, f[n + 1], i + 1)
      BY <2>2, <2>4, <3>1, PassReads DEF header
    <3>3. ~f[n + 1].ok \/ Done(n + 1)
      BY <3>2
    <3> QED BY <2>1, <3>3
  <2> QED BY <2>3, <2>4
<1>7. most \in T
  <2> HIDE DEF T
  <2>1. 0..most \subseteq T
    BY <1>3, <1>5, <1>6, UpTo
  <2> QED BY <1>3, <2>1
<1>8. Done(most)
  BY <1>4, <1>7
<1> QED BY <1>2, <1>4, <1>8 DEF header

\* The state before the loop reads nothing yet.
LEMMA ReadingStarts ==
  ASSUME NEW frame \in FrameType, NEW lost \in Bytes, NEW cut \in Nat, NEW state,
         state.ok, ~state.audSent, ~state.setsSent, state.out = <<>>,
         FlattenSeq(state.in) \o lost = MeasuredUnits(frame)
  PROVE  Reading(frame, lost, cut, state, 0)
<1>1. Left(frame, 0) = MeasuredUnits(frame) /\ Weight(frame, 0) = 0
  BY LeftSteps, WeightSteps
<1>2. First(AllExpected(frame), 0) = <<>>
  BY ExpectedSteps
<1>3. FlagsTell(frame, state, 0)
  BY DEF FlagsTell
<1>4. Reads(state.out, First(AllExpected(frame), 0))
  BY <1>2, NothingRead
<1>5. ReadsOwn(state.out, First(AllExpected(frame), 0))
  BY <1>4 DEF ReadsOwn
<1>6. Len(state.out) <= Weight(frame, 0)
  BY <1>1
<1> QED BY <1>1, <1>3, <1>4, <1>5, <1>6 DEF Reading

\* So a message that is converted is a frame of which whole units are lost,
\* whatever the frame and what is lost of it are taken to be.
LEMMA MessageReads ==
  ASSUME NEW m, Received(m), NEW cut \in Nat,
         AvccToAnnexB(MessageChain(m), HeaderChain(cut)).ok,
         NEW frame \in FrameType, NEW lost \in Bytes,
         MessageBytes(m) \o lost = <<23, m.kind, 0, 0, 0>> \o MeasuredUnits(frame)
  PROVE  \E k \in 0..Len(frame) :
           /\ Left(frame, k) = lost
           /\ Reading(frame, lost, cut,
                      AvccToAnnexB(MessageChain(m), HeaderChain(cut)), k)
<1> DEFINE header == HeaderChain(cut)
           in     == MessageChain(m)
           format == Copy(in, 1)
           htype  == Copy(format.in, 1)
           cts    == Copy(htype.in, 3)
           state  == [ok |-> TRUE, in |-> cts.in, out |-> <<>>,
                      audSent |-> FALSE, setsSent |-> FALSE]
           units  == MeasuredUnits(frame)
           result == AvccToAnnexB(in, header)
<1>1. /\ Tight(in) /\ in \in Chains
      /\ FlattenSeq(in) \o lost = <<23, m.kind, 0, 0, 0>> \o units
  BY MessageTight DEF Tight
<1>2. units \in Bytes
  BY MeasuredBytes DEF FrameType
<1>3. result.ok
  OBVIOUS
<1>4. result = IF header # <<>> /\ cts.ok /\ htype.bytes = <<1>>
               THEN Passes(state, header) ELSE [state EXCEPT !.ok = FALSE]
  BY DEF AvccToAnnexB
<1>5. m.kind \in Nat
  BY DEF Received
<1> HIDE DEF units, in, header, result
<1>6. cts.ok /\ result = Passes(state, header)
  <2> DEFINE failed == [state EXCEPT !.ok = FALSE]
  <2>1. ~failed.ok
    OBVIOUS
  <2>2. result # failed
    <3> HIDE DEF failed
    <3> QED BY <1>3, <2>1
  <2> QED BY <1>4, <2>2
<1>7. htype.ok /\ htype.in \in Chains /\ format.ok /\ format.in \in Chains
  <2>1. /\ format.ok \/ format = Failed
        /\ format.in \in Chains
    BY <1>1, CopySpec DEF Copied, Tight
  <2> HIDE DEF format
  <2>2. /\ htype.ok \/ htype = Failed
        /\ htype.in \in Chains
    BY <2>1, CopySpec DEF Copied, Tight
  <2>3. htype = Failed => FALSE
    BY <1>6, NotBehind
  <2>4. htype.ok
    BY <2>2, <2>3
  <2>5. format = Failed => FALSE
    BY <2>4, NotBehind
  <2> QED BY <2>1, <2>2, <2>4, <2>5
<1> DEFINE a == <<23>>
           b == <<m.kind>>
           c == <<0, 0, 0>>
<1>8. /\ a \in Bytes /\ b \in Bytes /\ c \in Bytes /\ Len(a) = 1 /\ Len(b) = 1 /\ Len(c) = 3
      /\ <<23, m.kind, 0, 0, 0>> = a \o (b \o c)
  BY <1>5 DEF Bytes
<1> HIDE DEF a, b, c
<1>9. /\ c \o units \in Bytes /\ b \o (c \o units) \in Bytes
      /\ FlattenSeq(in) \o lost = a \o (b \o (c \o units))
  <2> DEFINE x == c \o units
             y == b \o x
  <2>1. b \o c \in Bytes /\ x \in Bytes
    BY <1>2, <1>8, Joined
  <2>2. (b \o c) \o units = b \o x
    BY <1>2, <1>8, JoinedThree
  <2>3. (a \o (b \o c)) \o units = a \o ((b \o c) \o units)
    <3> DEFINE bc == b \o c
    <3>1. a \in Bytes /\ bc \in Bytes /\ units \in Bytes
      BY <1>2, <1>8, <2>1
    <3> HIDE DEF bc
    <3>2. (a \o bc) \o units = a \o (bc \o units)
      BY <3>1, JoinedThree
    <3> QED BY <3>2 DEF bc
  <2>4. y \in Bytes
    <3> HIDE DEF x
    <3> QED BY <1>8, <2>1, Joined
  <2> QED BY <1>1, <1>8, <2>1, <2>2, <2>3, <2>4
<1> DEFINE afterB == c \o units
           afterA == b \o afterB
<1>10. Losing(format.in, lost, afterA)
  <2>1. Losing(in, lost, a \o afterA) /\ afterA \in Bytes
    BY <1>1, <1>9 DEF Losing
  <2> HIDE DEF afterA
  <2>2. HadLosing(in, lost, 1, a, afterA)
    BY <1>7, <1>8, <2>1, CopyLosing
  <2> QED BY <2>2 DEF HadLosing
<1> HIDE DEF format
<1>11. Losing(htype.in, lost, afterB)
  <2>1. Losing(format.in, lost, b \o afterB) /\ afterB \in Bytes
    BY <1>9, <1>10
  <2> HIDE DEF afterB
  <2>2. HadLosing(format.in, lost, 1, b, afterB)
    BY <1>7, <1>8, <2>1, CopyLosing
  <2> QED BY <2>2 DEF HadLosing
<1> HIDE DEF htype
<1>12. Losing(cts.in, lost, units) /\ Tight(cts.in)
  <2>1. HadLosing(htype.in, lost, 3, c, units)
    BY <1>2, <1>6, <1>8, <1>11, CopyLosing
  <2> QED BY <2>1 DEF HadLosing
<1> HIDE DEF cts
<1>13. state \in LoopStates
  <2>1. <<>> \in Bytes /\ Len(<<>>) <= Capacity
    BY AnnexBAssumption DEF Bytes
  <2> QED BY <1>12, <2>1 DEF LoopStates, Tight
<1>14. /\ state.ok /\ ~state.audSent /\ ~state.setsSent /\ state.out = <<>>
       /\ FlattenSeq(state.in) \o lost = MeasuredUnits(frame)
  BY <1>12 DEF Losing, units
<1> HIDE DEF state
<1>15. Reading(frame, lost, cut, state, 0)
  BY <1>14, ReadingStarts
<1>16. Passes(state, HeaderChain(cut)).ok
  BY <1>3, <1>6 DEF header
<1>17. /\ result.in = <<>>
       /\ \E k \in 0..Len(frame) : Reading(frame, lost, cut, result, k)
  BY <1>6, <1>13, <1>15, <1>16, LoopReads DEF header
<1>18. PICK k \in 0..Len(frame) : Reading(frame, lost, cut, result, k)
  BY <1>17
<1>19. Left(frame, k) = lost
  <2>1. FlattenSeq(<<>>) = <<>>
    BY DEF FlattenSeq
  <2>2. <<>> \o lost = lost
    BY ConcatEmptySeq DEF Bytes
  <2>3. FlattenSeq(result.in) \o lost = Left(frame, k)
    BY <1>18 DEF Reading
  <2> QED BY <1>17, <2>1, <2>2, <2>3
<1> QED BY <1>18, <1>19 DEF result, in, header

\* A frame is what its first units are, and what a reader that is through
\* with those has before it.
LEMMA FrameHalves ==
  ASSUME NEW frame \in FrameType, NEW k \in 0..Len(frame)
  PROVE  /\ SubSeq(frame, 1, k) \in FrameType
         /\ MeasuredUnits(frame) = MeasuredUnits(SubSeq(frame, 1, k)) \o Left(frame, k)
         /\ MeasuredUnits(SubSeq(frame, 1, k)) \in Bytes /\ Left(frame, k) \in Bytes
<1> DEFINE rest  == SubSeq(frame, 1, k)
           all   == AllMeasured(frame)
           N     == Len(frame)
<1>1. N \in Nat
  BY DEF FrameType
<1>2. /\ rest \in FrameType /\ Len(rest) = k /\ DOMAIN rest = 1..k
      /\ DOMAIN frame = 1..N /\ \A i \in 1..k : rest[i] = frame[i]
  <2> DEFINE U == [type : 0..31, size : UnitSizes]
  <2>1. frame \in Seq(U)
    BY DEF FrameType
  <2> HIDE DEF U
  <2>2. rest \in Seq(U) /\ Len(rest) = k /\ \A i \in 1..k : rest[i] = frame[i]
    BY <2>1
  <2> QED BY <2>1, <2>2 DEF U, FrameType
<1>3. AllMeasured(rest) = SubSeq(all, 1, k)
  <2>1. /\ all \in Chains /\ Len(all) = N /\ DOMAIN all = 1..N
        /\ \A i \in 1..N : all[i] = Measured(frame, i)
    <3>1. all \in Chains /\ Len(all) = N
      BY <1>1, LeftSteps
    <3> QED BY <1>2, <3>1 DEF AllMeasured
  <2>2. \A i \in 1..k : Measured(rest, i) = Measured(frame, i)
    BY <1>2 DEF Measured, Unit
  <2>3. AllMeasured(rest) = [i \in 1..k |-> Measured(rest, i)]
    BY <1>2 DEF AllMeasured
  <2> DEFINE some == SubSeq(all, 1, k)
  <2>4. some = [i \in 1..k |-> all[i]]
    <3> HIDE DEF all
    <3> QED BY <2>1 DEF Chains
  <2>5. \A i \in 1..k : all[i] = Measured(rest, i)
    BY <2>1, <2>2
  <2> HIDE DEF some, all, rest
  <2>6. some = [i \in 1..k |-> Measured(rest, i)]
    BY <2>4, <2>5
  <2> QED BY <2>3, <2>6 DEF some
<1> HIDE DEF rest
<1>4. /\ all \in Chains /\ Len(all) = N
  BY <1>1, LeftSteps
<1>5. /\ FlattenSeq(all) = First(all, k) \o FlattenSeq(SubSeq(all, k + 1, Len(all)))
      /\ First(all, k) \in Bytes /\ FlattenSeq(SubSeq(all, k + 1, Len(all))) \in Bytes
  BY <1>4, Halves
<1>6. MeasuredUnits(frame) = FlattenSeq(all) /\ MeasuredUnits(rest) = First(all, k)
  BY <1>3 DEF MeasuredUnits, AllMeasured, First
<1>7. Left(frame, k) = FlattenSeq(SubSeq(all, k + 1, Len(all)))
  BY <1>4 DEF Left
<1> QED BY <1>2, <1>5, <1>6, <1>7 DEF rest

\* A message that lost whole units at its end is that of the others.
LEMMA WholeMessage ==
  ASSUME NEW m, Received(m), Whole(m)
  PROVE  /\ Rest(m) \in FrameType
         /\ MessageBytes(m) = <<23, m.kind, 0, 0, 0>> \o MeasuredUnits(Rest(m))
<1> DEFINE frame == m.frame
           k     == CHOOSE i \in Tails(m) : TRUE
           rest  == SubSeq(frame, 1, k)
           N     == Len(frame)
<1>1. frame \in FrameType /\ m.cut \in Nat /\ m.kind \in Nat /\ N \in Nat
  BY DEF Received, FrameType
<1>2. k \in Tails(m)
  BY DEF Whole
<1>3. k \in 0..N /\ Len(MeasuredUnits(frame)) - m.cut = Len(MeasuredUnits(rest))
  BY <1>2 DEF Tails
<1>4. Rest(m) = rest
  BY DEF Rest
<1> HIDE DEF k
<1>5. rest \in FrameType
  BY <1>1, <1>3, FrameHalves
<1>7. /\ MeasuredUnits(frame) = MeasuredUnits(rest) \o Left(frame, k)
      /\ MeasuredUnits(rest) \in Bytes /\ Left(frame, k) \in Bytes
  BY <1>1, <1>3, FrameHalves
<1> HIDE DEF frame, rest
<1> DEFINE head  == <<23, m.kind, 0, 0, 0>>
           some  == MeasuredUnits(rest)
           more  == Left(frame, k)
<1>8. head \in Bytes /\ Len(head) = 5 /\ some \in Bytes /\ more \in Bytes
  BY <1>1, <1>7 DEF Bytes
<1>9. MessageBytes(m) = Shorter(head \o (some \o more), m.cut)
  BY <1>7 DEF MessageBytes, frame
<1>10. Len(some \o more) - m.cut = Len(some)
  BY <1>3, <1>7
<1> HIDE DEF head, some, more
<1>11. /\ head \o some \in Bytes /\ head \o (some \o more) = (head \o some) \o more
       /\ Len(head \o some) = 5 + Len(some) /\ Len(head \o (some \o more)) = 5 + Len(some \o more)
       /\ Len(some) \in Nat /\ Len(some \o more) \in Nat
  <2>1. /\ some \o more \in Bytes /\ Len(some \o more) \in Nat /\ Len(some) \in Nat
        /\ head \o some \in Bytes /\ Len(head \o some) = Len(head) + Len(some)
    BY <1>8, Joined DEF Bytes
  <2>2. Len(head \o (some \o more)) = Len(head) + Len(some \o more)
    BY <1>8, <2>1, Joined
  <2>3. (head \o some) \o more = head \o (some \o more)
    BY <1>8, JoinedThree
  <2> QED BY <1>8, <2>1, <2>2, <2>3
<1>12. MessageBytes(m) = head \o some
  <2> DEFINE x == head \o some
             L == Len(x)
  <2>1. Len(head \o (some \o more)) - m.cut = L
    BY <1>1, <1>10, <1>11
  <2>2. MessageBytes(m) = SubSeq(x \o more, 1, L)
    BY <1>9, <1>11, <2>1 DEF Shorter
  <2>3. x \in Bytes /\ L \in 0..Len(x) /\ L \in Nat
    BY <1>11 DEF Bytes
  <2> HIDE DEF x
  <2>4. SubSeq(x \o more, 1, L) = SubSeq(x, 1, L)
    BY <1>8, <2>3, Parts
  <2>5. SubSeq(x, 1, L) = x
    BY <2>3, SubSeqFull DEF Bytes
  <2> QED BY <2>2, <2>4, <2>5 DEF x
<1> QED BY <1>4, <1>5, <1>12 DEF head, some, rest, frame

\* What a message lacks at its end.
LEMMA LostBytes ==
  ASSUME NEW bytes \in Bytes, NEW cut \in Nat
  PROVE  \E lost \in Bytes : /\ Shorter(bytes, cut) \o lost = bytes
                             /\ lost = bytes \/ Len(lost) = cut
<1> DEFINE n == Len(bytes)
<1>1. bytes \in Seq(Nat) /\ n \in Nat
  BY DEF Bytes
<1>2. CASE cut <= n
  <2> DEFINE m == n - cut
             lost == SubSeq(bytes, m + 1, n)
  <2>1. m \in 0..n /\ n - m = cut
    BY <1>1, <1>2
  <2>2. lost \in Bytes /\ Len(lost) = cut
    <3> HIDE DEF m
    <3>1. lost \in Seq(Nat) /\ Len(lost) = n - m
      BY <1>1, <2>1
    <3> QED BY <2>1, <3>1 DEF Bytes
  <2>3. SubSeq(bytes, 1, m) \o lost = bytes
    <3> HIDE DEF m
    <3>1. 1 \in 1..(Len(bytes) + 1) /\ m \in (1 - 1)..Len(bytes) /\ n \in m..Len(bytes)
      BY <1>1, <2>1
    <3>2. SubSeq(bytes, 1, m) \o SubSeq(bytes, m + 1, n) = SubSeq(bytes, 1, n)
      BY <1>1, <3>1, ConcatAdjacentSubSeq
    <3>3. SubSeq(bytes, 1, n) = bytes
      BY <1>1, SubSeqFull
    <3> QED BY <3>2, <3>3
  <2> QED BY <2>2, <2>3 DEF Shorter
<1>3. CASE cut > n
  <2>1. n - cut < 1 /\ n - cut \in Int
    BY <1>1, <1>3
  <2>2. SubSeq(bytes, 1, n - cut) = <<>>
    BY <1>1, <2>1, SubSeqEmpty
  <2>3. <<>> \o bytes = bytes
    BY <1>1, ConcatEmptySeq
  <2>4. Shorter(bytes, cut) = <<>>
    BY <2>2 DEF Shorter
  <2>5. Shorter(bytes, cut) \o bytes = bytes
    BY <2>3, <2>4
  <2> QED BY <2>5
<1>4. cut <= n \/ cut > n
  BY <1>1
<1> QED BY <1>2, <1>3, <1>4, Zenon

\* A message that is converted has lost whole units.
LEMMA ConvertedWhole ==
  ASSUME NEW m, Received(m), NEW cut \in Nat,
         AvccToAnnexB(MessageChain(m), HeaderChain(cut)).ok
  PROVE  Whole(m)
<1> DEFINE frame == m.frame
           head  == <<23, m.kind, 0, 0, 0>>
           units == MeasuredUnits(frame)
           all   == head \o units
<1>1. frame \in FrameType /\ m.cut \in Nat /\ m.kind \in Nat
  BY DEF Received, FrameType
<1>2. units \in Bytes
  BY <1>1, MeasuredBytes DEF FrameType
<1>3. head \in Bytes /\ Len(head) = 5
  BY <1>1 DEF Bytes
<1>4. all = <<23, m.kind, 0, 0, 0>> \o MeasuredUnits(frame)
  OBVIOUS
<1>5. MessageBytes(m) = Shorter(all, m.cut)
  BY DEF MessageBytes
<1> HIDE DEF head, units
<1>6. all \in Bytes /\ Len(all) = 5 + Len(units) /\ Len(units) \in Nat
  <2>1. all \in Bytes /\ Len(all) = Len(head) + Len(units)
    BY <1>2, <1>3, Joined
  <2> QED BY <1>2, <1>3, <2>1 DEF Bytes
<1> HIDE DEF all, frame
<1>7. PICK lost \in Bytes : MessageBytes(m) \o lost = all
                            /\ (lost = all \/ Len(lost) = m.cut)
  BY <1>1, <1>5, <1>6, LostBytes
<1>8. PICK k \in 0..Len(frame) : Left(frame, k) = lost
  <2>1. MessageBytes(m) \o lost = <<23, m.kind, 0, 0, 0>> \o MeasuredUnits(frame)
    BY <1>4, <1>7
  <2>2. \E k \in 0..Len(frame) :
          /\ Left(frame, k) = lost
          /\ Reading(frame, lost, cut,
                     AvccToAnnexB(MessageChain(m), HeaderChain(cut)), k)
    BY <1>1, <1>7, <2>1, MessageReads
  <2> QED BY <2>2
<1> DEFINE rest == SubSeq(frame, 1, k)
<1>9. /\ units = MeasuredUnits(rest) \o lost /\ MeasuredUnits(rest) \in Bytes
  BY <1>1, <1>8, FrameHalves DEF units
<1> HIDE DEF rest
<1>10. /\ Len(units) = Len(MeasuredUnits(rest)) + Len(lost)
       /\ Len(MeasuredUnits(rest)) \in Nat /\ Len(lost) \in Nat
  <2>1. Len(units) = Len(MeasuredUnits(rest)) + Len(lost)
    BY <1>7, <1>9, Joined
  <2> QED BY <1>7, <1>9, <2>1 DEF Bytes
<1>11. Len(lost) = m.cut
  <2>1. lost # all
    BY <1>6, <1>10
  <2> QED BY <1>7, <2>1
<1>12. Len(units) - m.cut = Len(MeasuredUnits(rest))
  BY <1>1, <1>10, <1>11
<1>13. k \in Tails(m)
  BY <1>12 DEF Tails, units, rest, frame
<1> QED BY <1>13 DEF Whole

\* A decoder reads what is left of the frame in the result.
LEMMA ConvertedReads ==
  ASSUME NEW m, Received(m), NEW cut \in Nat,
         AvccToAnnexB(MessageChain(m), HeaderChain(cut)).ok
  PROVE  LET units == Units(AvccToAnnexB(MessageChain(m), HeaderChain(cut)).out)
         IN  /\ OwnUnits(units) = OwnUnits(Expected(Rest(m)))
             /\ cut = 0 /\ HasRoom(Rest(m)) => units = Expected(Rest(m))
<1> DEFINE rest   == Rest(m)
           result == AvccToAnnexB(MessageChain(m), HeaderChain(cut))
<1>1. rest \in FrameType /\ MessageBytes(m) = <<23, m.kind, 0, 0, 0>> \o MeasuredUnits(rest)
  BY ConvertedWhole, WholeMessage
<1>2. MessageBytes(m) \o <<>> = MessageBytes(m) /\ <<>> \in Bytes
  <2> DEFINE head  == <<23, m.kind, 0, 0, 0>>
  <2>1. head \in Bytes
    BY DEF Received, Bytes
  <2>2. MeasuredUnits(rest) \in Bytes
    BY <1>1, MeasuredBytes DEF FrameType
  <2> HIDE DEF head, rest
  <2>3. head \o MeasuredUnits(rest) \in Bytes
    BY <2>1, <2>2, Joined
  <2>4. MessageBytes(m) \in Seq(Nat)
    BY <1>1, <2>3 DEF head, Bytes
  <2> QED BY <2>4, ConcatEmptySeq DEF Bytes
<1> HIDE DEF rest, result
<1>3. PICK k \in 0..Len(rest) : Left(rest, k) = <<>> /\ Reading(rest, <<>>, cut, result, k)
  <2>1. MessageBytes(m) \o <<>> = <<23, m.kind, 0, 0, 0>> \o MeasuredUnits(rest)
    BY <1>1, <1>2
  <2> QED BY <1>1, <1>2, <2>1, MessageReads DEF result
<1>4. k = Len(rest)
  <2>1. Len(rest) \in Nat /\ \A i \in 0..(Len(rest) - 1) : Left(rest, i) # <<>>
    BY <1>1, LeftSteps
  <2> QED BY <1>3, <2>1
<1>5. First(AllExpected(rest), k) = Expected(rest)
  BY <1>1, <1>4, ExpectedSteps
<1>6. OwnUnits(Units(result.out)) = OwnUnits(Expected(rest))
  <2>1. PICK units : Reads(result.out, units) /\ OwnUnits(units) = OwnUnits(Expected(rest))
    BY <1>3, <1>5 DEF Reading, ReadsOwn
  <2> QED BY <2>1 DEF Reads
<1>7. cut = 0 /\ HasRoom(rest) => Units(result.out) = Expected(rest)
  BY <1>3, <1>5 DEF Reading, Reads
<1> QED BY <1>6, <1>7 DEF rest, result

\* A picture that there is room for is converted.
LEMMA VInvArrive == VInv => PicturesArrive
<1> SUFFICES ASSUME VInv, stage = "sent", received.kind = 1, avcHeader # <<>>,
                    Whole(received), HasRoom(Rest(received)),
                    ~EndsWithByte(Rest(received))
             PROVE  given.ok
  BY DEF PicturesArrive
<1> DEFINE rest == Rest(received)
           in   == MessageChain(received)
           format == Copy(in, 1)
           htype  == Copy(format.in, 1)
           cts    == Copy(htype.in, 3)
           state  == [ok |-> TRUE, in |-> cts.in, out |-> <<>>,
                      audSent |-> FALSE, setsSent |-> FALSE]
           units  == MeasuredUnits(rest)
<1>1. avcHeader \in Chains /\ Received(received)
  BY VideoInputs DEF VInv
<1>2. PICK cut \in HeaderCuts : avcHeader = HeaderChain(cut)
  BY DEF VInv, VideoTypeOK
<1>3. cut \in Nat
  BY VideoAssumption
<1>4. Tight(in) /\ FlattenSeq(in) = <<23, 1, 0, 0, 0>> \o units /\ rest \in FrameType
  BY <1>1, MessageTight, WholeMessage
<1>5. units \in Bytes
  BY <1>4, MeasuredBytes DEF FrameType
<1> HIDE DEF rest, units, in
<1> DEFINE a == <<23>>
           b == <<1>>
           c == <<0, 0, 0>>
<1>6. /\ a \in Bytes /\ b \in Bytes /\ c \in Bytes /\ Len(a) = 1 /\ Len(b) = 1 /\ Len(c) = 3
      /\ <<23, 1, 0, 0, 0>> = a \o (b \o c)
  BY DEF Bytes
<1>7. b = <<1>> /\ c # <<>>
  OBVIOUS
<1> HIDE DEF a, b, c
<1>8. /\ c \o units \in Bytes /\ b \o (c \o units) \in Bytes
      /\ FlattenSeq(in) = a \o (b \o (c \o units))
      /\ a \o (b \o (c \o units)) # <<>> /\ b \o (c \o units) # <<>> /\ c \o units # <<>>
  <2> DEFINE x == c \o units
             y == b \o x
             z == a \o y
  <2>1. b \o c \in Bytes /\ x \in Bytes
    BY <1>5, <1>6, Joined
  <2>2. y \in Bytes /\ b \o x = (b \o c) \o units
    <3>1. (b \o c) \o units = b \o x
      BY <1>5, <1>6, JoinedThree
    <3> HIDE DEF x
    <3> QED BY <1>6, <2>1, <3>1, Joined
  <2>3. (a \o (b \o c)) \o units = a \o ((b \o c) \o units)
    BY <1>5, <1>6, <2>1, JoinedThree
  <2>4. a # <<>> /\ b # <<>>
    BY <1>6
  <2>5. x # <<>>
    BY <1>5, <1>6, <1>7, Joined
  <2>6. y # <<>>
    <3> HIDE DEF x
    <3> QED BY <1>6, <2>1, <2>4, Joined
  <2>7. z # <<>>
    <3> HIDE DEF y
    <3> QED BY <1>6, <2>2, <2>4, Joined
  <2> QED BY <1>4, <1>6, <2>1, <2>2, <2>3, <2>5, <2>6, <2>7
<1>9. /\ format.ok /\ FlattenSeq(format.in) = b \o (c \o units) /\ Tight(format.in)
  <2>1. in \in Chains /\ in # <<>>
    BY <1>4, <1>8, NotEnded DEF Tight
  <2>2. Had(in, 1, a, b \o (c \o units))
    BY <1>6, <1>8, <2>1, CopyPrefix
  <2> QED BY <2>2 DEF Had
<1> HIDE DEF format
<1>10. /\ htype.bytes = b /\ FlattenSeq(htype.in) = c \o units /\ Tight(htype.in)
  <2>1. format.in \in Chains /\ format.in # <<>>
    BY <1>8, <1>9, NotEnded DEF Tight
  <2>2. Had(format.in, 1, b, c \o units)
    BY <1>6, <1>8, <1>9, <2>1, CopyPrefix
  <2> QED BY <2>2 DEF Had
<1> HIDE DEF htype
<1>11. /\ cts.ok /\ FlattenSeq(cts.in) = units /\ Tight(cts.in)
  <2>1. htype.in \in Chains /\ htype.in # <<>>
    BY <1>8, <1>10, NotEnded DEF Tight
  <2>2. Had(htype.in, 3, c, units)
    BY <1>5, <1>6, <1>10, <2>1, CopyPrefix
  <2> QED BY <2>2 DEF Had
<1>12. AvccToAnnexB(in, avcHeader) = Passes(state, avcHeader)
  <2>1. AvccToAnnexB(in, avcHeader)
          = IF avcHeader # <<>> /\ cts.ok /\ htype.bytes = <<1>>
            THEN Passes(state, avcHeader) ELSE [state EXCEPT !.ok = FALSE]
    BY DEF AvccToAnnexB, htype, format
  <2> HIDE DEF state, cts
  <2> QED BY <1>7, <1>10, <1>11, <2>1
<1> HIDE DEF cts
<1>13. state \in LoopStates /\ Through(rest, state, 0)
  <2>1. <<>> \in Bytes /\ Len(<<>>) <= Capacity
    BY AnnexBAssumption DEF Bytes
  <2>2. state \in LoopStates
    BY <1>11, <2>1 DEF LoopStates, Tight
  <2>3. Left(rest, 0) = units /\ Weight(rest, 0) = 0
    BY <1>4, LeftSteps, WeightSteps DEF units
  <2>4. FlagsTell(rest, state, 0)
    BY DEF FlagsTell
  <2> QED BY <1>11, <2>2, <2>3, <2>4 DEF Through
<1> HIDE DEF state
<1>14. HasRoom(rest) /\ ~EndsWithByte(rest)
  BY DEF rest
<1>15. Passes(state, avcHeader).ok
  BY <1>2, <1>3, <1>4, <1>13, <1>14, PassesThrough
<1>16. AvccToAnnexB(MessageChain(received), avcHeader).ok
  BY <1>12, <1>15 DEF in
<1> QED BY <1>16 DEF VInv, Handed

\* What is handed on is a message that was converted,
LEMMA GivenConverted ==
  ASSUME VInv, given.ok
  PROVE  /\ Received(received) /\ avcHeader # <<>>
         /\ AvccToAnnexB(MessageChain(received), avcHeader).ok
         /\ given.out = AvccToAnnexB(MessageChain(received), avcHeader).out
<1> DEFINE converted == AvccToAnnexB(MessageChain(received), avcHeader)
<1>1. given = IF converted.ok THEN [ok |-> TRUE, out |-> converted.out] ELSE Nothing
  BY DEF VInv, Handed
<1>2. converted.ok
  <2> HIDE DEF converted
  <2> QED BY <1>1 DEF Nothing
<1>3. avcHeader # <<>>
  <2> SUFFICES ASSUME avcHeader = <<>> PROVE ~converted.ok
    BY <1>2
  <2> QED BY DEF AvccToAnnexB
<1> HIDE DEF converted
<1>4. given.out = converted.out
  BY <1>1, <1>2
<1>5. Received(received)
  BY VideoInputs DEF VInv
<1> QED BY <1>2, <1>3, <1>4, <1>5 DEF converted
\* so that a decoder reads in it what is left of the frame,
LEMMA VInvFrames == VInv => FramesConverted
<1> SUFFICES ASSUME VInv, given.ok, avcHeader = HeaderChain(0), HasRoom(Rest(received))
             PROVE  Units(given.out) = Expected(Rest(received))
  BY DEF FramesConverted
<1> DEFINE converted == AvccToAnnexB(MessageChain(received), HeaderChain(0))
<1>1. Received(received) /\ converted.ok /\ given.out = converted.out
  BY GivenConverted
<1> QED BY <1>1, ConvertedReads
\* and the publisher's own units of it whatever header there is.
LEMMA VInvSlices == VInv => SlicesConverted
<1> SUFFICES ASSUME VInv, given.ok
             PROVE  OwnUnits(Units(given.out)) = OwnUnits(Expected(Rest(received)))
  BY DEF SlicesConverted
<1>1. PICK cut \in HeaderCuts : avcHeader = HeaderChain(cut)
  BY GivenConverted DEF VInv, VideoTypeOK
<1>2. cut \in Nat
  BY VideoAssumption
<1> DEFINE converted == AvccToAnnexB(MessageChain(received), HeaderChain(cut))
<1>3. Received(received) /\ converted.ok /\ given.out = converted.out
  BY <1>1, GivenConverted
<1> QED BY <1>2, <1>3, ConvertedReads
=============================================================================
