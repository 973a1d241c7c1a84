---------------------------- MODULE MediaProofs -----------------------------
(***************************************************************************)
(* The media paths for every configuration.                                *)
(*                                                                         *)
(* AudioPath: the samples on their way to the channel are, in order, those *)
(* decoded and not yet sent.  That is so because the excess of an AAC      *)
(* packet over an Opus packet divides an Opus packet (1024 - 960 = 64, and *)
(* 960 is 15 * 64): the remainder then fills a packet exactly when it is   *)
(* flushed, and flush_encode_opus, which forgets whatever else remains,    *)
(* forgets nothing.                                                        *)
(*                                                                         *)
(* LowCodecs: the scaler's context is always for the encoder's idea of the *)
(* source, which encode brings up to date before it scales.                *)
(*                                                                         *)
(* The theorems at the end state that, and what VideoProofs shows of the   *)
(* conversion, of MediaPaths.                                              *)
(***************************************************************************)
EXTENDS MediaPaths, VideoProofs

\* Only one remainder of a division fits.
LEMMA ModUnique ==
  ASSUME NEW S \in Nat \ {0}, NEW q \in Int, NEW r \in 0..(S - 1)
  PROVE  (S * q + r) % S = r
<1> DEFINE x == S * q + r
<1>1. x \in Int
  OBVIOUS
<1>2. PICK p \in Int, m \in 0..(S - 1) : x = S * p + m /\ m = x % S
  BY <1>1, Division
<1>3. S * (q - p) = m - r
  BY <1>2
<1>4. q = p
  <2>1. CASE q - p >= 1
    BY <1>3, <2>1
  <2>2. CASE q - p <= -1
    BY <1>3, <2>2
  <2> QED BY <2>1, <2>2
<1> QED BY <1>2, <1>4
\* A number may be reduced before another is added.
LEMMA ModAdd ==
  ASSUME NEW S \in Nat \ {0}, NEW a \in Int, NEW b \in Int
  PROVE  ((a % S) + b) % S = (a + b) % S
<1>1. PICK q \in Int, r \in 0..(S - 1) : a = S * q + r /\ r = a % S
  BY Division
<1>2. PICK p \in Int, m \in 0..(S - 1) : r + b = S * p + m /\ m = (r + b) % S
  <2>1. r + b \in Int
    OBVIOUS
  <2> QED BY <2>1, Division
<1>3. a + b = S * (q + p) + m
  <2>1. S * (q + p) = S * q + S * p
    OBVIOUS
  <2>2. S * q \in Int /\ S * p \in Int
    OBVIOUS
  <2> QED BY <1>1, <1>2, <2>1, <2>2
<1>4. (S * (q + p) + m) % S = m
  <2>1. q + p \in Int
    OBVIOUS
  <2> QED BY <2>1, ModUnique
<1>5. (a + b) % S = m
  BY <1>3, <1>4
<1> QED BY <1>1, <1>2, <1>5
\* The timestamps of the messages of a period are in the period.
LEMMA StampRange ==
  ASSUME NEW P \in Nat \ {0}, NEW N \in Nat \ {0}, NEW n \in 0..(N - 1)
  PROVE  (n * P) \div N \in 0..(P - 1)
<1>1. n * P \in Nat
  OBVIOUS
<1>2. PICK q \in Int, r \in 0..(N-1) : n * P = N * q + r /\ q = (n * P) \div N
  BY <1>1, Division
<1>3. q >= 0
  <2> SUFFICES ASSUME q <= -1 PROVE FALSE
    OBVIOUS
  <2>1. N * q <= -N
    OBVIOUS
  <2> QED BY <1>1, <1>2, <2>1
<1>4. q < P
  <2> SUFFICES ASSUME q >= P PROVE FALSE
    OBVIOUS
  <2>1. N * q >= N * P
    OBVIOUS
  <2>2. n * P <= N * P - P
    <3>1. (N - n) * P >= P
      OBVIOUS
    <3> QED BY <3>1
  <2> QED BY <1>1, <1>2, <2>1, <2>2
<1> QED BY <1>2, <1>3, <1>4

-----------------------------------------------------------------------------
(* The samples.                                                            *)

\* What an AAC packet has more than an Opus packet divides an Opus packet.
Excess  == Input - Opus
Divides == \E m \in Nat : Opus = m * Excess

\* The remainder is a number of such excesses.
Aligned(n) == \E k \in Nat : n = k * Excess

\* The sizes are numbers, and so is their product.
LEMMA SizesType ==
  /\ Input \in Nat /\ Opus \in Nat /\ Opus > 0 /\ Opus < Input /\ Input < 2 * Opus
  /\ Excess \in Nat /\ Excess > 0 /\ Samples \in Nat \ {0}
<1>1. /\ Input \in Nat \ {0} /\ Opus \in Nat /\ Opus > 0 /\ Opus < Input
      /\ Input < 2 * Opus /\ Messages \in Nat \ {0}
  BY SizesAssumption, PeriodAssumption
<1>2. Messages * Input \in Nat \ {0}
  <2> DEFINE n == Input
  <2>1. n \in Nat \ {0}
    BY <1>1
  <2> HIDE DEF n
  <2>2. Messages * n \in Nat \ {0}
    BY <1>1, <2>1
  <2> QED BY <2>2 DEF n
<1> QED BY <1>1, <1>2 DEF Excess, Samples

\* A remainder below a packet has room for one more excess.
LEMMA RoomForExcess ==
  ASSUME Divides, NEW n \in Nat, n < Opus, Aligned(n)
  PROVE  n + Excess <= Opus /\ Aligned(n + Excess) /\ Aligned(0)
<1> DEFINE d == Excess
<1>1. d \in Nat /\ d > 0
  BY SizesType
<1>2. PICK m \in Nat : Opus = m * d
  BY DEF Divides
<1>3. PICK k \in Nat : n = k * d
  BY DEF Aligned
<1> HIDE DEF d
<1>4. k < m
  <2> SUFFICES ASSUME k >= m PROVE FALSE
    OBVIOUS
  <2>1. k * d >= m * d
    BY <1>1
  <2> QED BY <1>1, <1>2, <1>3, <2>1
<1>5. (k + 1) * d <= m * d
  BY <1>1, <1>4
<1>6. n + d = (k + 1) * d /\ k + 1 \in Nat
  BY <1>1, <1>3
<1>7. 0 = 0 * d
  BY <1>1
<1> QED BY <1>2, <1>5, <1>6, <1>7 DEF Aligned, d

\* What remains and the new samples, one after the other, are cut into packets
\* of the right size and a new remainder, and nothing is left out.
Both(rest, in, i) == IF i <= Len(rest) THEN rest[i] ELSE in[i - Len(rest)]
Cut(T, rest, in, packets, left) ==
  /\ Len(packets) \in {1, 2} /\ DOMAIN packets = 1..Len(packets)
  /\ \A p \in 1..Len(packets) :
       /\ packets[p] \in Seq(T) /\ Len(packets[p]) = Opus
       /\ \A j \in 1..Opus : packets[p][j] = Both(rest, in, (p - 1) * Opus + j)
  /\ left \in Seq(T) /\ Len(left) < Opus /\ Aligned(Len(left))
  /\ Len(rest) + Input = Len(packets) * Opus + Len(left)
  /\ \A j \in 1..Len(left) : left[j] = Both(rest, in, Len(packets) * Opus + j)

\* So does Encode: the remainder that it flushes is a whole packet.
LEMMA EncodeCuts ==
  ASSUME Divides, NEW T, NEW rest \in Seq(T), NEW in \in Seq(T),
         Len(in) = Input, Len(rest) < Opus, Aligned(Len(rest))
  PROVE  Cut(T, rest, in, Encode(rest, in).packets, Encode(rest, in).left)
<1> DEFINE r    == Len(rest)
           free == Opus - r
           new  == SubSeq(in, 1, free)
           out  == rest \o new
           left == SubSeq(in, free + 1, Len(in))
<1>1. /\ r \in Nat /\ r < Opus /\ Input \in Nat /\ Opus \in Nat /\ Opus > 0
      /\ Opus < Input /\ Input < 2 * Opus /\ Excess = Input - Opus
      /\ r + Excess <= Opus /\ Aligned(r + Excess) /\ Aligned(0)
  BY SizesType, RoomForExcess DEF Excess
<1>2. /\ out \in Seq(T) /\ Len(out) = Opus
      /\ \A j \in 1..Opus : out[j] = Both(rest, in, j)
  <2>1. /\ new \in Seq(T) /\ Len(new) = free
        /\ \A j \in 1..free : new[j] = in[j]
    BY <1>1
  <2> HIDE DEF new
  <2>2. out \in Seq(T)
    BY <2>1
  <2>3. Len(out) = r + Len(new)
    <3> HIDE DEF free
    <3> QED BY <2>1
  <2>4. Len(out) = Opus
    <3> HIDE DEF out, r
    <3> QED BY <1>1, <2>1, <2>3
  <2>5. \A j \in 1..(r + Len(new)) :
          out[j] = IF j <= r THEN rest[j] ELSE new[j - r]
    BY <2>1
  <2>6. ASSUME NEW j \in 1..Opus PROVE out[j] = Both(rest, in, j)
    <3> HIDE DEF out, r
    <3>1. CASE j <= r
      BY <1>1, <2>1, <2>5, <2>6, <3>1 DEF Both, r
    <3>2. CASE j > r
      <4>1. j - r \in 1..free /\ j \in 1..(r + Len(new))
        BY <1>1, <2>1, <2>6, <3>2
      <4>2. out[j] = new[j - r]
        BY <1>1, <2>5, <2>6, <3>2, <4>1
      <4>3. Both(rest, in, j) = in[j - r]
        BY <1>1, <2>6, <3>2 DEF Both, r
      <4> QED BY <2>1, <4>1, <4>2, <4>3
    <3> QED BY <1>1, <2>6, <3>1, <3>2
  <2> QED BY <2>2, <2>4, <2>6
<1>3. /\ left \in Seq(T) /\ Len(left) = r + Excess
      /\ \A j \in 1..(r + Excess) : left[j] = Both(rest, in, Opus + j)
  <2>1. /\ left \in Seq(T) /\ Len(left) = Input - free
        /\ \A j \in 1..(Input - free) : left[j] = in[free + j]
    BY <1>1
  <2> HIDE DEF left
  <2> QED BY <1>1, <2>1 DEF Both
<1> DEFINE n == r + Excess
<1>4. Encode(rest, in) = IF Len(left) >= Opus
                         THEN [packets |-> <<out, SubSeq(left, 1, Opus)>>,
                               left    |-> <<>>]
                         ELSE [packets |-> <<out>>, left |-> left]
  BY DEF NextPacket, Encode
<1>5. /\ n \in Nat /\ n <= Opus /\ Aligned(n) /\ Len(left) = n
      /\ r + Input = Opus + n
  BY <1>1, <1>3
<1>6. left \in Seq(T) /\ \A j \in 1..n : left[j] = Both(rest, in, Opus + j)
  BY <1>3
<1> HIDE DEF out, left, n
<1>7. CASE n = Opus
  <2>1. SubSeq(left, 1, Opus) = left
    BY <1>5, <1>6, <1>7
  <2> DEFINE packets == <<out, left>>
  <2>2. Encode(rest, in) = [packets |-> packets, left |-> <<>>]
    <3>1. Len(left) >= Opus
      BY <1>1, <1>5, <1>7
    <3> QED BY <1>4, <2>1, <3>1
  <2>3. Encode(rest, in).packets = packets /\ Encode(rest, in).left = <<>>
    <3> HIDE DEF packets
    <3> QED BY <2>2
  <2>4. /\ Len(packets) = 2 /\ DOMAIN packets = 1..2 /\ packets[1] = out
        /\ packets[2] = left
    OBVIOUS
  <2> HIDE DEF packets
  <2>5. ASSUME NEW p \in 1..2
        PROVE  /\ packets[p] \in Seq(T) /\ Len(packets[p]) = Opus
               /\ \A j \in 1..Opus :
                    packets[p][j] = Both(rest, in, (p - 1) * Opus + j)
    <3>1. CASE p = 1
      <4>1. \A j \in 1..Opus : (p - 1) * Opus + j = j
        BY <1>1, <3>1
      <4> QED BY <1>2, <2>4, <3>1, <4>1
    <3>2. CASE p = 2
      <4>1. \A j \in 1..Opus : (p - 1) * Opus + j = Opus + j
        BY <1>1, <3>2
      <4> QED BY <1>5, <1>6, <1>7, <2>4, <3>2, <4>1
    <3> QED BY <3>1, <3>2
  <2>6. r + Input = 2 * Opus + 0
    <3> HIDE DEF r
    <3> QED BY <1>1, <1>5, <1>7
  <2>7. /\ Len(<<>>) = 0 /\ <<>> \in Seq(T)
        /\ \A j \in 1..0 : <<>>[j] = Both(rest, in, 2 * Opus + j)
    OBVIOUS
  <2>8. Cut(T, rest, in, packets, <<>>)
    <3> HIDE DEF r
    <3>1. r = Len(rest)
      BY DEF r
    <3> QED BY <1>1, <2>4, <2>5, <2>6, <2>7, <3>1 DEF Cut
  <2> QED BY <2>3, <2>8
<1>8. CASE n < Opus
  <2> DEFINE packets == <<out>>
  <2>1. Encode(rest, in) = [packets |-> packets, left |-> left]
    <3>1. ~(Len(left) >= Opus)
      BY <1>1, <1>5, <1>8
    <3> QED BY <1>4, <3>1
  <2>2. Encode(rest, in).packets = packets /\ Encode(rest, in).left = left
    <3> HIDE DEF packets
    <3> QED BY <2>1
  <2>3. Len(packets) = 1 /\ DOMAIN packets = 1..1 /\ packets[1] = out
    OBVIOUS
  <2> HIDE DEF packets
  <2>4. \A p \in 1..1 : \A j \in 1..Opus : (p - 1) * Opus + j = j
    BY <1>1
  <2>5. 1 * Opus = Opus
    BY <1>1
  <2>6. Cut(T, rest, in, packets, left)
    <3> HIDE DEF r
    <3>1. r = Len(rest)
      BY DEF r
    <3>2. \A p \in 1..1 :
            /\ packets[p] \in Seq(T) /\ Len(packets[p]) = Opus
            /\ \A j \in 1..Opus :
                 packets[p][j] = Both(rest, in, (p - 1) * Opus + j)
      BY <1>2, <2>3, <2>4
    <3>3. Len(rest) + Input = 1 * Opus + Len(left)
      BY <1>1, <1>5, <2>5, <3>1
    <3> QED BY <1>1, <1>5, <1>6, <1>8, <2>3, <2>5, <3>2, <3>3 DEF Cut
  <2> QED BY <2>2, <2>6
<1> QED BY <1>1, <1>5, <1>7, <1>8

\* The sample that is x after the last one heard.
After(h, x) == (h + x) % Samples

\* Every packet on its way has its place in the sequence of samples, and so do
\* what remains and the last sample decoded.
PacketsInOrder ==
  \A k \in 1..Len(audioJB) :
    /\ Len(audioJB[k].samples) = Opus
    /\ \A j \in 1..Opus :
         audioJB[k].samples[j] = After(heard, (k - 1) * Opus + j)
RestInOrder ==
  /\ \A i \in 1..Len(remaining) :
       remaining[i] = After(heard, Len(audioJB) * Opus + i)
  /\ decoded = After(heard, Len(audioJB) * Opus + Len(remaining))
  /\ Aligned(Len(remaining))

\* The inductive invariant: SamplesConserved, packet by packet, and that the
\* remainder fills up exactly.
AInv == AudioTypeOK /\ PacketsInOrder /\ RestInOrder

\* Counting on from a sample is counting on from the one before it.
LEMMA AfterAfter ==
  ASSUME NEW h \in Int, NEW x \in Int, NEW y \in Int
  PROVE  /\ After(After(h, x), y) = After(h, x + y)
         /\ After(h, x) \in 0..(Samples - 1)
<1> DEFINE S == Samples
<1>1. S \in Nat \ {0}
  BY SizesType
<1> HIDE DEF S
<1>2. h + x \in Int /\ (h + x) + y = h + (x + y)
  OBVIOUS
<1>3. (((h + x) % S) + y) % S = ((h + x) + y) % S
  BY <1>1, <1>2, ModAdd
<1>4. (h + x) % S \in 0..(S - 1)
  BY <1>1, <1>2
<1> QED BY <1>2, <1>3, <1>4 DEF After, S

\* Initially nothing is on its way.
LEMMA AInvInit == AudioInit => AInv
<1> SUFFICES ASSUME AudioInit PROVE AInv
  OBVIOUS
<1>1. /\ Opus \in Nat /\ Opus > 0 /\ Samples \in Nat \ {0} /\ Excess \in Nat
      /\ Messages \in Nat \ {0} /\ Period \in Nat \ {0} /\ Holds \subseteq Nat
      /\ MaxFailures \in 0..MaxFailures /\ 0 \in 0..MaxFailures
  BY SizesType, PeriodAssumption
<1>2. AudioTypeOK
  <2>1. <<>> \in Seq(Packet) /\ <<>> \in Seq(0..(Samples - 1)) /\ Len(<<>>) = 0
    OBVIOUS
  <2>2. 0 \in 0..(Samples - 1)
    <3> DEFINE S == Samples
    <3>1. S \in Nat \ {0}
      BY <1>1
    <3> HIDE DEF S
    <3>2. 0 \in 0..(S - 1)
      BY <3>1
    <3> QED BY <3>2 DEF S
  <2>3. /\ message \in 0..(Messages - 1) /\ lastTimestamp \in 0..(Period - 1)
        /\ untilMessage \in Nat /\ untilWake \in Nat
        /\ failures \in 0..MaxFailures /\ pending \in BOOLEAN
    <3>1. 0 \in 0..(Messages - 1) /\ 0 \in 0..(Period - 1)
      BY <1>1
    <3>2. /\ message = 0 /\ lastTimestamp = 0 /\ untilMessage = 0 /\ failures = 0
          /\ pending = FALSE /\ untilWake \in Holds
      BY DEF AudioInit
    <3> QED BY <1>1, <3>1, <3>2
  <2>4. /\ remaining \in Seq(0..(Samples - 1)) /\ audioJB \in Seq(Packet)
        /\ decoded \in 0..(Samples - 1) /\ heard \in 0..(Samples - 1)
    BY <2>1, <2>2 DEF AudioInit
  <2>5. Len(remaining) < Opus
    BY <1>1 DEF AudioInit
  <2> QED BY <2>3, <2>4, <2>5 DEF AudioTypeOK
<1>3. PacketsInOrder
  BY DEF AudioInit, PacketsInOrder
<1>4. RestInOrder
  <2>1. /\ remaining = <<>> /\ audioJB = <<>> /\ heard = 0 /\ decoded = 0
        /\ Len(audioJB) = 0 /\ Len(remaining) = 0
    BY DEF AudioInit
  <2>2. Aligned(0)
    <3>1. 0 = 0 * Excess /\ 0 \in Nat
      BY <1>1
    <3> QED BY <3>1 DEF Aligned
  <2>3. 0 * Opus + 0 = 0 /\ 0 + 0 = 0
    BY <1>1
  <2>4. 0 % Samples = 0
    <3> DEFINE S == Samples
    <3>1. S \in Nat \ {0}
      BY <1>1
    <3> HIDE DEF S
    <3>2. (S * 0 + 0) % S = 0
      BY <3>1, ModUnique
    <3>3. S * 0 + 0 = 0
      BY <3>1
    <3> QED BY <3>2, <3>3 DEF S
  <2> QED BY <2>1, <2>2, <2>3, <2>4 DEF RestInOrder, After
<1> QED BY <1>2, <1>3, <1>4 DEF AInv

\* The next message has a number and comes at a time.
LEMMA NextMessageType ==
  ASSUME message \in 0..(Messages - 1), NextMessage
  PROVE  message' \in 0..(Messages - 1) /\ untilMessage' \in Nat
<1>1. Messages \in Nat \ {0} /\ Period \in Nat \ {0}
  BY PeriodAssumption
<1>2. message' \in 0..(Messages - 1)
  BY <1>1 DEF NextMessage
<1>3. Stamp(message) \in 0..(Period - 1) /\ Stamp(message') \in 0..(Period - 1)
  BY <1>1, <1>2, StampRange DEF Stamp
<1>4. (Stamp(message') - Stamp(message)) % Period \in 0..(Period - 1)
  BY <1>1, <1>3
<1> QED BY <1>1, <1>2, <1>4 DEF NextMessage, Since

\* Decoding a packet appends its samples, wherever they are cut.
LEMMA DecodeKeepsOrder ==
  ASSUME Divides, AInv, Decode, UNCHANGED heard
  PROVE  /\ remaining' \in Seq(0..(Samples - 1)) /\ Len(remaining)' < Opus
         /\ decoded' \in 0..(Samples - 1) /\ audioJB' \in Seq(Packet)
         /\ PacketsInOrder' /\ RestInOrder'
<1> DEFINE T     == 0..(Samples - 1)
           frame == [i \in 1..Input |-> (decoded + i) % Samples]
           P     == Encode(remaining, frame).packets
           left  == Encode(remaining, frame).left
           L     == Len(audioJB)
           r     == Len(remaining)
           h     == heard
<1>1. /\ Input \in Nat /\ Opus \in Nat /\ Opus > 0 /\ Samples \in Nat \ {0}
  BY SizesType
<1>2. /\ remaining \in Seq(T) /\ Len(remaining) < Opus /\ decoded \in T
      /\ heard \in T /\ h \in Int /\ L \in Nat /\ r \in Nat /\ L * Opus \in Int
      /\ audioJB \in Seq(Packet) /\ message \in 0..(Messages - 1)
  BY <1>1 DEF AInv, AudioTypeOK
<1>3. frame \in Seq(T) /\ Len(frame) = Input
  <2>1. \A i \in 1..Input : (decoded + i) % Samples \in T
    <3> DEFINE S == Samples
    <3>1. S \in Nat \ {0} /\ decoded \in Int
      BY <1>1, <1>2
    <3> HIDE DEF S
    <3>2. \A i \in 1..Input : (decoded + i) % S \in 0..(S - 1)
      BY <3>1
    <3> QED BY <3>2 DEF S
  <2> HIDE DEF T
  <2> QED BY <1>1, <2>1
<1>4. Cut(T, remaining, frame, P, left)
  <2>1. Aligned(Len(remaining))
    BY DEF AInv, RestInOrder
  <2> HIDE DEF T, frame
  <2> QED BY <1>2, <1>3, <2>1, EncodeCuts
<1>5. ASSUME NEW i \in 1..(r + Input)
      PROVE  Both(remaining, frame, i) = After(h, L * Opus + i)
  <2>1. CASE i <= r
    BY <1>2, <2>1 DEF Both, AInv, RestInOrder
  <2>2. CASE i > r
    <3>1. i - r \in 1..Input /\ i - r \in Int
      BY <1>1, <1>2, <2>2
    <3>2. Both(remaining, frame, i) = After(decoded, i - r)
      BY <1>2, <2>2, <3>1 DEF Both, After
    <3>3. decoded = After(h, L * Opus + r)
      BY DEF AInv, RestInOrder
    <3>4. /\ L * Opus + r \in Int
          /\ (L * Opus + r) + (i - r) = L * Opus + i
      BY <1>2, <3>1
    <3>5. After(After(h, L * Opus + r), i - r) = After(h, (L * Opus + r) + (i - r))
      BY <1>2, <3>1, <3>4, AfterAfter
    <3> QED BY <3>2, <3>3, <3>4, <3>5
  <2> QED BY <1>2, <2>1, <2>2
<1>6. /\ remaining' = left /\ decoded' = (decoded + Input) % Samples
      /\ audioJB' = audioJB \o
           [i \in 1..Len(P) |-> [timestamp |-> Stamp(message), samples |-> P[i]]]
  BY DEF Decode
<1>7. heard' = h
  OBVIOUS
<1> DEFINE new == [i \in 1..Len(P) |->
                     [timestamp |-> Stamp(message), samples |-> P[i]]]
<1> HIDE DEF P, left, frame, T
<1> DEFINE N == Len(P)
           m == Len(left)
<1>8. /\ \A p \in 1..N : P[p] \in Seq(T) /\ Len(P[p]) = Opus
      /\ \A p \in 1..N : \A j \in 1..Opus :
           P[p][j] = Both(remaining, frame, (p - 1) * Opus + j)
      /\ left \in Seq(T) /\ Aligned(m)
      /\ \A j \in 1..m : left[j] = Both(remaining, frame, N * Opus + j)
  BY <1>4 DEF Cut
<1>0. /\ N \in {1, 2} /\ N \in Nat /\ m \in Nat /\ m < Opus
      /\ r + Input = N * Opus + m
  <2>1. N \in {1, 2} /\ m < Opus /\ r + Input = N * Opus + m
    <3> HIDE DEF N, m
    <3> QED BY <1>4 DEF Cut, N, m
  <2>2. m \in Nat
    BY <1>8
  <2> QED BY <2>1, <2>2
<1>a. N * Opus \in Nat /\ (N = 2 => N * Opus = 2 * Opus) /\ (N = 1 => N * Opus = Opus)
  <2> HIDE DEF N
  <2> QED BY <1>0, <1>1
<1>9. new \in Seq(Packet) /\ Len(new) = N
  <2>1. Stamp(message) \in 0..(Period - 1)
    BY <1>2, StampRange, PeriodAssumption DEF Stamp
  <2>2. \A i \in 1..N :
          [timestamp |-> Stamp(message), samples |-> P[i]] \in Packet
    BY <1>8, <2>1 DEF Packet, T
  <2> QED BY <1>8, <2>2
<1>10. /\ audioJB' \in Seq(Packet) /\ Len(audioJB') = L + N
       /\ \A k \in 1..L : audioJB'[k] = audioJB[k]
       /\ \A p \in 1..N : audioJB'[L + p].samples = P[p]
  <2>1. \A p \in 1..N : new[p].samples = P[p]
    OBVIOUS
  <2> HIDE DEF new
  <2> QED BY <1>2, <1>6, <1>8, <1>9, <2>1 DEF new
<1> HIDE DEF T, L, r, h, new, N, m
<1>11. PacketsInOrder'
  <2> SUFFICES ASSUME NEW k \in 1..(L + N)
               PROVE  /\ Len(audioJB'[k].samples) = Opus
                      /\ \A j \in 1..Opus :
                           audioJB'[k].samples[j] = After(h, (k - 1) * Opus + j)
    BY <1>7, <1>10 DEF PacketsInOrder
  <2>1. CASE k <= L
    <3>1. k \in 1..Len(audioJB)
      BY <1>2, <2>1 DEF L
    <3> QED BY <1>2, <1>10, <2>1, <3>1 DEF AInv, PacketsInOrder, L, h
  <2>2. CASE k > L
    <3> DEFINE p == k - L
    <3>1. p \in 1..N /\ k = L + p
      BY <1>0, <1>2, <1>8, <2>2
    <3>2. audioJB'[k].samples = P[p] /\ Len(P[p]) = Opus
      BY <1>8, <1>10, <3>1
    <3>3. ASSUME NEW j \in 1..Opus
          PROVE  P[p][j] = After(h, (k - 1) * Opus + j)
      <4>1. /\ (p - 1) * Opus + j \in 1..(r + Input)
            /\ L * Opus + ((p - 1) * Opus + j) = (k - 1) * Opus + j
        <5>1. CASE p = 1
          BY <1>0, <1>1, <1>2, <1>a, <3>1, <5>1
        <5>2. CASE p = 2
          <6>1. N = 2 /\ r + Input >= 2 * Opus
            BY <1>0, <1>1, <1>a, <3>1, <5>2
          <6>2. (p - 1) * Opus = Opus /\ (k - 1) * Opus = L * Opus + Opus
            BY <1>1, <1>2, <3>1, <5>2
          <6>3. 0 < j /\ j <= Opus /\ r + Input \in Int
            BY <1>1, <1>2
          <6> HIDE DEF p
          <6>4. (p - 1) * Opus + j \in 1..(r + Input)
            BY <1>1, <6>1, <6>2, <6>3
          <6>5. L * Opus + (Opus + j) = (L * Opus + Opus) + j
            BY <1>1, <1>2
          <6>6. L * Opus + ((p - 1) * Opus + j) = L * Opus + (Opus + j)
            BY <6>2
          <6>7. (k - 1) * Opus + j = (L * Opus + Opus) + j
            BY <6>2
          <6> QED BY <6>4, <6>5, <6>6, <6>7
        <5> QED BY <1>0, <3>1, <5>1, <5>2
      <4>2. P[p][j] = Both(remaining, frame, (p - 1) * Opus + j)
        BY <1>8, <3>1
      <4> QED BY <1>5, <4>1, <4>2
    <3> QED BY <3>2, <3>3
  <2> QED BY <1>2, <2>1, <2>2
<1>12. RestInOrder'
  <2>1. Len(audioJB') * Opus = L * Opus + N * Opus
    BY <1>0, <1>1, <1>2, <1>10
  <2>2. N * Opus \in Int /\ N * Opus >= 0
    BY <1>a
  <2>3. \A j \in 1..m :
          /\ N * Opus + j \in 1..(r + Input)
          /\ L * Opus + (N * Opus + j) = Len(audioJB') * Opus + j
    BY <1>0, <1>1, <1>2, <2>1, <2>2
  <2>4. \A j \in 1..m : left[j] = After(h, Len(audioJB') * Opus + j)
    BY <1>5, <1>8, <2>3
  <2>5. decoded' = After(h, Len(audioJB') * Opus + m)
    <3>1. decoded = After(h, L * Opus + r)
      BY DEF AInv, RestInOrder, h, L, r
    <3>2. decoded' = After(decoded, Input)
      BY <1>6 DEF After
    <3>3. L * Opus + r \in Int /\ Input \in Int
      BY <1>1, <1>2
    <3>4. After(After(h, L * Opus + r), Input) = After(h, (L * Opus + r) + Input)
      BY <1>2, <3>3, AfterAfter
    <3>5. (L * Opus + r) + Input = Len(audioJB') * Opus + m
      BY <1>0, <1>1, <1>2, <2>1, <2>2
    <3> QED BY <3>1, <3>2, <3>4, <3>5
  <2> QED BY <1>6, <1>7, <1>8, <2>4, <2>5 DEF RestInOrder, m
<1>13. decoded' \in 0..(Samples - 1)
  <2>1. decoded' = After(decoded, Input) /\ decoded \in Int /\ Input \in Int
    BY <1>1, <1>2, <1>6 DEF After, T
  <2> QED BY <2>1, AfterAfter
<1> QED BY <1>0, <1>6, <1>8, <1>10, <1>11, <1>12, <1>13 DEF T, m

\* How long the audio thread sleeps is a time.
LEMMA SleepTimeType ==
  ASSUME NEW packet \in Packet, NEW rest \in Seq(Packet),
         lastTimestamp \in 0..(Period - 1)
  PROVE  SleepTime(packet, rest) \in Nat
<1> DEFINE nextTs    == IF rest = <<>> THEN packet.timestamp
                                       ELSE Head(rest).timestamp
           currentTs == IF packet.timestamp = nextTs THEN lastTimestamp
                                                     ELSE packet.timestamp
           interval  == Since(nextTs, currentTs)
<1>1. Period \in Nat \ {0}
  BY PeriodAssumption
<1>2. nextTs \in 0..(Period - 1)
  <2>1. CASE rest = <<>>
    BY <2>1 DEF Packet
  <2>2. CASE rest # <<>>
    <3>1. Head(rest) \in Packet
      BY <2>2
    <3> QED BY <2>2, <3>1 DEF Packet
  <2> QED BY <2>1, <2>2
<1> HIDE DEF nextTs
<1>3. currentTs \in 0..(Period - 1)
  BY DEF Packet
<1> HIDE DEF currentTs
<1>4. interval \in Nat
  <2>1. (nextTs - currentTs) % Period \in 0..(Period - 1)
    BY <1>1, <1>2, <1>3
  <2> QED BY <1>1, <2>1 DEF Since
<1> HIDE DEF interval
<1>5. (interval * 95) \div 100 \in Nat
  BY <1>4
<1>6. SleepTime(packet, rest) = interval
        \/ SleepTime(packet, rest) = (interval * 95) \div 100
  BY DEF SleepTime, interval, currentTs, nextTs
<1> QED BY <1>4, <1>5, <1>6

\* Sending a message keeps the invariant.
LEMMA SendKeeps == ASSUME Divides, AInv, SendAudio PROVE AInv'
<1>1. NextMessage /\ UNCHANGED <<lastTimestamp, heard, untilWake>> /\ pending' = TRUE
  BY DEF SendAudio
<1>2. message' \in 0..(Messages - 1) /\ untilMessage' \in Nat
  BY <1>1, NextMessageType DEF AInv, AudioTypeOK
<1>3. CASE Decode
  <2>1. failures' = failures
    BY <1>3 DEF Decode
  <2>2. /\ remaining' \in Seq(0..(Samples - 1)) /\ Len(remaining)' < Opus
        /\ decoded' \in 0..(Samples - 1) /\ audioJB' \in Seq(Packet)
        /\ PacketsInOrder' /\ RestInOrder'
    BY <1>1, <1>3, DecodeKeepsOrder
  <2>3. AudioTypeOK'
    BY <1>1, <1>2, <2>1, <2>2 DEF AInv, AudioTypeOK
  <2> QED BY <2>2, <2>3 DEF AInv
<1>4. CASE UNCHANGED <<remaining, decoded, audioJB>> /\ failures' \in 0..MaxFailures
  BY <1>1, <1>2, <1>4 DEF AInv, AudioTypeOK, PacketsInOrder, RestInOrder
<1>5. CASE DecodeFails
  BY <1>4, <1>5, PeriodAssumption DEF DecodeFails, AInv, AudioTypeOK
<1>6. CASE UNCHANGED <<remaining, decoded, audioJB, failures>>
  BY <1>4, <1>6 DEF AInv, AudioTypeOK
<1> QED BY <1>3, <1>5, <1>6 DEF SendAudio, FlushAudio

\* So does sending a packet to the channel: the others move up by one.
LEMMA PaceKeeps == ASSUME AInv, PacePacket PROVE AInv'
<1> DEFINE L      == Len(audioJB)
           packet == Head(audioJB)
<1>1. /\ Opus \in Nat /\ Opus > 0 /\ Samples \in Nat \ {0}
  BY SizesType
<1>2. /\ audioJB \in Seq(Packet) /\ audioJB # <<>> /\ L \in Nat /\ L >= 1
      /\ packet \in Packet /\ packet = audioJB[1] /\ Tail(audioJB) \in Seq(Packet)
      /\ Len(Tail(audioJB)) = L - 1
      /\ \A k \in 1..(L - 1) : Tail(audioJB)[k] = audioJB[k + 1]
  BY DEF AInv, AudioTypeOK, PacePacket
<1>3. /\ audioJB' = Tail(audioJB) /\ heard' = packet.samples[Len(packet.samples)]
      /\ lastTimestamp' = packet.timestamp
      /\ untilWake' = SleepTime(packet, Tail(audioJB))
      /\ UNCHANGED <<message, pending, remaining, decoded, untilMessage, failures>>
  BY DEF PacePacket
<1>4. heard \in Int
  BY SizesType DEF AInv, AudioTypeOK
<1> HIDE DEF L, packet
<1>5. heard' = After(heard, Opus)
  <2>1. /\ Len(packet.samples) = Opus
        /\ packet.samples[Opus] = After(heard, (1 - 1) * Opus + Opus)
    BY <1>1, <1>2 DEF AInv, PacketsInOrder, L
  <2>2. (1 - 1) * Opus + Opus = Opus
    BY <1>1
  <2> QED BY <1>3, <2>1, <2>2
<1>6. ASSUME NEW x \in Int
      PROVE  After(heard', x) = After(heard, Opus + x)
  BY <1>1, <1>4, <1>5, AfterAfter
<1>7. PacketsInOrder'
  <2> SUFFICES ASSUME NEW k \in 1..(L - 1)
               PROVE  /\ Len(audioJB'[k].samples) = Opus
                      /\ \A j \in 1..Opus : audioJB'[k].samples[j]
                                              = After(heard', (k - 1) * Opus + j)
    BY <1>2, <1>3 DEF PacketsInOrder
  <2>1. k + 1 \in 1..Len(audioJB) /\ audioJB'[k] = audioJB[k + 1]
    BY <1>2, <1>3 DEF L
  <2>2. ASSUME NEW j \in 1..Opus
        PROVE  audioJB'[k].samples[j] = After(heard', (k - 1) * Opus + j)
    <3>1. audioJB[k + 1].samples[j] = After(heard, ((k + 1) - 1) * Opus + j)
      BY <2>1 DEF AInv, PacketsInOrder
    <3>2. /\ (k - 1) * Opus + j \in Int
          /\ Opus + ((k - 1) * Opus + j) = ((k + 1) - 1) * Opus + j
      BY <1>1
    <3> QED BY <1>6, <2>1, <3>1, <3>2
  <2> QED BY <2>1, <2>2 DEF AInv, PacketsInOrder
<1>8. RestInOrder'
  <2>1. Len(audioJB') = L - 1
    BY <1>2, <1>3
  <2>2. ASSUME NEW i \in Nat
        PROVE  After(heard', (L - 1) * Opus + i) = After(heard, L * Opus + i)
    <3>1. /\ (L - 1) * Opus + i \in Int
          /\ Opus + ((L - 1) * Opus + i) = L * Opus + i
      BY <1>1, <1>2
    <3> QED BY <1>6, <3>1
  <2>3. Len(remaining) \in Nat
    BY DEF AInv, AudioTypeOK
  <2>4. \A i \in 1..Len(remaining) :
          remaining[i] = After(heard', (L - 1) * Opus + i)
    BY <2>2, <2>3 DEF AInv, RestInOrder, L
  <2>5. decoded = After(heard', (L - 1) * Opus + Len(remaining))
    BY <2>2, <2>3 DEF AInv, RestInOrder, L
  <2>6. Aligned(Len(remaining))
    BY DEF AInv, RestInOrder
  <2> QED BY <1>3, <2>1, <2>4, <2>5, <2>6 DEF RestInOrder
<1>9. AudioTypeOK'
  <2>1. heard' \in 0..(Samples - 1)
    BY <1>1, <1>4, <1>5, AfterAfter
  <2>2. untilWake' \in Nat
    BY <1>2, <1>3, SleepTimeType DEF AInv, AudioTypeOK
  <2>3. lastTimestamp' \in 0..(Period - 1)
    BY <1>2, <1>3 DEF Packet
  <2>4. audioJB' \in Seq(Packet)
    BY <1>2, <1>3
  <2> QED BY <1>3, <2>1, <2>2, <2>3, <2>4 DEF AInv, AudioTypeOK
<1> QED BY <1>7, <1>8, <1>9 DEF AInv

\* No step disturbs the invariant.
LEMMA AInvStep ==
  ASSUME Divides, AInv,
         \/ SendAudio \/ RefuseAudio \/ PacePacket \/ AudioTick
         \/ UNCHANGED audioVars
  PROVE  AInv'
<1>1. CASE SendAudio
  BY <1>1, SendKeeps
<1>2. CASE RefuseAudio
  <2>1. NextMessage /\ failures' \in 0..MaxFailures
    BY <1>2, PeriodAssumption DEF RefuseAudio, AInv, AudioTypeOK
  <2>2. message' \in 0..(Messages - 1) /\ untilMessage' \in Nat
    BY <2>1, NextMessageType DEF AInv, AudioTypeOK
  <2> QED BY <1>2, <2>1, <2>2
          DEF RefuseAudio, AInv, AudioTypeOK, PacketsInOrder, RestInOrder
<1>3. CASE PacePacket
  BY <1>3, PaceKeeps
<1>4. CASE AudioTick
  <2>1. untilMessage' \in Nat /\ untilWake' \in Nat
    BY <1>4 DEF AudioTick, Less, AInv, AudioTypeOK
  <2> QED BY <1>4, <2>1
          DEF AudioTick, AInv, AudioTypeOK, PacketsInOrder, RestInOrder
<1>5. CASE UNCHANGED audioVars
  BY <1>5 DEF audioVars, AInv, AudioTypeOK, PacketsInOrder, RestInOrder
<1> QED BY <1>1, <1>2, <1>3, <1>4, <1>5

\* Sample by sample, the packets on their way hold what comes after heard.
LEMMA AInvConserves == AInv => SamplesConserved
<1> SUFFICES ASSUME AInv PROVE SamplesConserved
  OBVIOUS
<1> DEFINE L == Len(audioJB)
<1>1. /\ Opus \in Nat \ {0} /\ L \in Nat
      /\ L * Opus \in Nat
  BY SizesType DEF AInv, AudioTypeOK
<1>2. ASSUME NEW i \in 1..(L * Opus)
      PROVE  InPackets(i) = (heard + i) % Samples
  <2>1. PICK q \in Int, m \in 0..(Opus - 1) :
          i - 1 = Opus * q + m /\ q = (i - 1) \div Opus /\ m = (i - 1) % Opus
    <3>1. i - 1 \in Int
      BY <1>1
    <3> QED BY <1>1, <3>1, Division
  <2> HIDE DEF L
  <2>2. q >= 0
    <3> SUFFICES ASSUME q <= -1 PROVE FALSE
      OBVIOUS
    <3>1. Opus * q <= -Opus
      BY <1>1
    <3> QED BY <1>1, <2>1, <3>1
  <2>3. q < L
    <3> SUFFICES ASSUME q >= L PROVE FALSE
      BY <1>1
    <3>1. Opus * q >= L * Opus
      BY <1>1
    <3> QED BY <1>1, <2>1, <3>1
  <2>4. q + 1 \in 1..Len(audioJB) /\ m + 1 \in 1..Opus
    BY <1>1, <2>1, <2>2, <2>3 DEF L
  <2>5. audioJB[q + 1].samples[m + 1] = After(heard, ((q + 1) - 1) * Opus + (m + 1))
    BY <2>4 DEF AInv, PacketsInOrder
  <2>6. ((q + 1) - 1) * Opus + (m + 1) = i
    BY <1>1, <2>1
  <2> QED BY <2>1, <2>5, <2>6 DEF InPackets, After
<1>3. \A i \in 1..Len(audioJB) : Len(audioJB[i].samples) = Opus
  BY DEF AInv, PacketsInOrder
<1>4. /\ \A i \in 1..Len(remaining) : remaining[i] = (heard + (L * Opus + i)) % Samples
      /\ decoded = (heard + (L * Opus + Len(remaining))) % Samples
  BY DEF AInv, RestInOrder, After
<1>5. heard \in Int /\ Len(remaining) \in Int
  BY SizesType DEF AInv, AudioTypeOK
<1> HIDE DEF L
<1>6. \A i \in Int : heard + (L * Opus + i) = heard + L * Opus + i
  BY <1>1, <1>5
<1>7. /\ \A i \in 1..Len(remaining) : remaining[i] = (heard + L * Opus + i) % Samples
      /\ decoded = (heard + L * Opus + Len(remaining)) % Samples
  BY <1>4, <1>5, <1>6
<1> QED BY <1>2, <1>3, <1>7 DEF SamplesConserved, L

-----------------------------------------------------------------------------
(* The picture that the decoder and the encoder of the low stream share.   *)

\* The inductive invariant: the context is always for the size that the
\* encoder takes the source to have, also between two frames.
CInv == /\ CodecsTypeOK
        /\ context = ContextFor(source)
        /\ step = "scaling" => source = picture

\* Initially both are for the target size.
LEMMA CInvInit == CodecsInit => CInv
BY TargetAssumption
   DEF CodecsInit, CInv, CodecsTypeOK, ContextFor, Pictures, Blank, NoContext

\* No step disturbs the invariant: encode makes a new context when the size
\* changes, and nothing else touches either.
LEMMA CInvStep ==
  ASSUME CInv, CodecsNext \/ UNCHANGED lowCodecVars PROVE CInv'
<1>1. CASE DecodeFrame
  BY <1>1 DEF DecodeFrame, CInv, CodecsTypeOK
<1>2. CASE SkipFrame
  BY <1>2 DEF SkipFrame, CInv, CodecsTypeOK
<1>3. CASE ScaleFrame
  <2>1. CASE picture # source
    BY <1>3, <2>1
       DEF ScaleFrame, OnResolutionChange, CInv, CodecsTypeOK, ContextFor
  <2>2. CASE picture = source
    BY <1>3, <2>2 DEF ScaleFrame, CInv, CodecsTypeOK
  <2> QED BY <2>1, <2>2
<1>4. CASE EncodeFrame
  BY <1>4 DEF EncodeFrame, CInv, CodecsTypeOK
<1>5. CASE ScaleWithoutContext
  BY <1>5 DEF ScaleWithoutContext, CInv, CodecsTypeOK
<1>6. CASE Crashed
  BY <1>6 DEF Crashed, lowCodecVars, CInv, CodecsTypeOK
<1>7. CASE LowFrameDone
  BY <1>7 DEF LowFrameDone, CInv, CodecsTypeOK
<1>8. CASE UNCHANGED lowCodecVars
  BY <1>8 DEF lowCodecVars, CInv, CodecsTypeOK
<1> QED BY <1>1, <1>2, <1>3, <1>4, <1>5, <1>6, <1>7, <1>8 DEF CodecsNext

-----------------------------------------------------------------------------
(* The three ways together.                                                *)

\* A step is one of each way, or leaves it alone.
LEMMA StepOfEach ==
  ASSUME [Next]_vars
  PROVE  /\ \/ SendAudio \/ RefuseAudio \/ PacePacket \/ AudioTick
            \/ UNCHANGED audioVars
         /\ VideoNext \/ UNCHANGED videoVars
         /\ CodecsNext \/ UNCHANGED lowCodecVars
         /\ medium' = medium
BY DEF Next, vars, Audio, WriteAudio, RefuseMessage, AudioThread, Time,
       WriteVideo, LowVideo

\* The media paths never leave the states that their declarations describe:
\* what remains after an audio message is less than an Opus packet, so that
\* get_next_packet always has room for it, and what avcc_to_annexb writes is
\* never more than its static buffer holds.
THEOREM MediaTypeCorrect == ASSUME Divides PROVE Spec => []TypeOK
<1> DEFINE Inv == medium \in {"video", "audio", "low"} /\ AInv /\ VInv /\ CInv
<1>1. Init => Inv
  BY AInvInit, VInvInit, CInvInit DEF Init
<1>2. Divides /\ Inv /\ [Next]_vars => Inv'
  <2> SUFFICES ASSUME Divides, Inv, [Next]_vars PROVE Inv'
    OBVIOUS
  <2>1. AInv'
    BY StepOfEach, AInvStep
  <2>2. VInv'
    BY StepOfEach, VInvStep
  <2>3. CInv'
    BY StepOfEach, CInvStep
  <2> QED BY <2>1, <2>2, <2>3, StepOfEach
<1>3. Inv => TypeOK
  BY DEF AInv, VInv, CInv, TypeOK
<1>4. Divides
  OBVIOUS
<1> HIDE DEF Inv
<1> QED BY <1>1, <1>2, <1>3, <1>4, PTL DEF Spec

\* ngx_agora_send_audio loses, repeats and reorders no sample between the AAC
\* decoder and the channel, however its messages and the audio thread
\* interleave and whichever packets are refused.
THEOREM SamplesAreConserved ==
  ASSUME Divides PROVE Spec => []SamplesConserved
<1>1. Init => AInv
  BY AInvInit DEF Init
<1>2. Divides /\ AInv /\ [Next]_vars => AInv'
  BY StepOfEach, AInvStep
<1>3. Divides
  OBVIOUS
<1> QED BY AInvConserves, <1>1, <1>2, <1>3, PTL DEF Spec

\* avcc_to_annexb makes the same of a message whatever the size of its RTMP
\* chunks, and drops it or not whatever that is.
THEOREM MessagesAreConvertedAlike == Spec => []ChunksDoNotMatter
<1>1. Init => VInv
  BY VInvInit DEF Init
<1>2. VInv /\ [Next]_vars => VInv'
  BY StepOfEach, VInvStep
<1> QED BY VInvChunks, <1>1, <1>2, PTL DEF Spec

\* No picture is dropped that came whole, after a header, fits and does not
\* end with a NAL unit of a single byte, whatever its units and the chunks
\* they came in.
THEOREM PicturesAlwaysArrive == Spec => []PicturesArrive
<1>1. Init => VInv
  BY VInvInit DEF Init
<1>2. VInv /\ [Next]_vars => VInv'
  BY StepOfEach, VInvStep
<1> QED BY VInvArrive, <1>1, <1>2, PTL DEF Spec

\* A decoder finds in what agora_send_video is handed the units of the frame,
\* a delimiter before the first slice and the parameter sets before each IDR
\* picture, in that order and nothing else, if the header and the room are
\* there: no start code is lost, and none is read where there is none.
THEOREM FramesAreConverted == Spec => []FramesConverted
<1>1. Init => VInv
  BY VInvInit DEF Init
<1>2. VInv /\ [Next]_vars => VInv'
  BY StepOfEach, VInvStep
<1> QED BY VInvFrames, <1>1, <1>2, PTL DEF Spec

\* A header that breaks off and a buffer that is full cost nothing but what
\* would have been inserted: the publisher's own units are all there, whole
\* and in order, in every message that is handed on.
THEOREM SlicesAreConverted == Spec => []SlicesConverted
<1>1. Init => VInv
  BY VInvInit DEF Init
<1>2. VInv /\ [Next]_vars => VInv'
  BY StepOfEach, VInvStep
<1> QED BY VInvSlices, <1>1, <1>2, PTL DEF Spec

\* Every context that sws_scale is given is for the picture that it is given,
\* whichever frames were decoded, refused or skipped since it was made.
THEOREM ScaleAlwaysFits == Spec => []ScaleFitsPicture
<1>1. Init => CInv
  BY CInvInit DEF Init
<1>2. CInv /\ [Next]_vars => CInv'
  BY StepOfEach, CInvStep
<1>3. CInv => ScaleFitsPicture
  BY DEF CInv, ScaleFitsPicture
<1> QED BY <1>1, <1>2, <1>3, PTL DEF Spec
=============================================================================
