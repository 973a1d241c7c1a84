-------------------------- MODULE JitterBufferProofs ------------------------
(***************************************************************************)
(* JitterBuffer for every configuration: whatever the frame rates, times   *)
(* and sizes, jb_size stays below twice the configured maximum and grows   *)
(* at most once a refill.  This includes the maxima above half the sixteen *)
(* bits, which LocalConfig accepts and for which the doubling wraps.       *)
(***************************************************************************)
EXTENDS JitterBuffer, TLAPS

\* jb_size counts modulo a positive number.
LEMMA WordSizeType == WordSize \in Nat /\ WordSize > 0
BY DEF WordSize

\* A size that fits the word is a natural number below it.
LEMMA SizeType == ASSUME NEW s \in jb_sizes PROVE s \in Nat /\ s < WordSize
BY WordSizeType DEF jb_sizes

\* No step takes a variable out of its type.
LEMMA TypeStep == ASSUME TypeOK, [Next]_vars PROVE TypeOK'
<1> USE SizesAssumption, TimesAssumption DEF TypeOK, sizeVars
<1>1. CASE AddFrame
  BY <1>1 DEF AddFrame
<1>2. CASE StartBuffering \/ GoOn
  BY <1>2 DEF StartBuffering, GoOn
<1>3. CASE Nap
  BY <1>3 DEF Nap
<1>4. CASE EndBuffering
  <2>1. (jb_size * 2) % WordSize \in jb_sizes
    <3>1. jb_size * 2 \in Nat
      BY SizeType
    <3> QED BY <3>1, WordSizeType DEF jb_sizes
  <2>2. CASE jb_size < MaxJbSize
    BY <1>4, <2>1, <2>2 DEF EndBuffering, ResizeBuffer
  <2>3. CASE ~(jb_size < MaxJbSize)
    BY <1>4, <2>3 DEF EndBuffering
  <2> QED BY <2>2, <2>3
<1>5. CASE TakeFrame \/ WakeUp
  BY <1>5 DEF TakeFrame, WakeUp
<1>6. CASE Elapse
  <2>1. \A time \in 0..MaxTime : Later(time) \in 0..MaxTime
    BY DEF Later, NapTime
  <2> QED BY <1>6, <2>1 DEF Elapse
<1>7. CASE UNCHANGED vars
  BY <1>7 DEF vars
<1> QED BY <1>1, <1>2, <1>3, <1>4, <1>5, <1>6, <1>7 DEF Next, Thread

\* Every variable keeps its type.
THEOREM TypeCorrect == Spec => []TypeOK
<1>1. Init => TypeOK
  BY SizesAssumption, TimesAssumption DEF Init, TypeOK
<1>2. TypeOK /\ [Next]_vars => TypeOK'
  BY TypeStep
<1> QED BY <1>1, <1>2, PTL DEF Spec

\* A step changes jb_size only below the maximum, and to no more than twice
\* what it was: to exactly that, unless the doubling wraps.
LEMMA SizeStep ==
  ASSUME TypeOK, [Next]_vars
  PROVE  \/ jb_size' = jb_size
         \/ jb_size < MaxJbSize /\ jb_size' <= 2 * jb_size
<1>1. jb_size \in Nat /\ MaxJbSize \in Nat
  BY SizesAssumption, SizeType DEF TypeOK
<1>2. CASE EndBuffering
  <2>1. \A n \in Nat : n % WordSize <= n
    BY WordSizeType
  <2>2. (jb_size * 2) % WordSize <= 2 * jb_size
    BY <1>1, <2>1
  <2> QED BY <1>2, <2>2 DEF EndBuffering, ResizeBuffer
<1>3. CASE AddFrame \/ StartBuffering \/ GoOn \/ Nap
  BY <1>3 DEF AddFrame, StartBuffering, GoOn, Nap, sizeVars
<1>4. CASE TakeFrame \/ WakeUp \/ Elapse
  BY <1>4 DEF TakeFrame, WakeUp, Elapse, sizeVars
<1>5. CASE UNCHANGED vars
  BY <1>5 DEF vars, sizeVars
<1> QED BY <1>2, <1>3, <1>4, <1>5 DEF Next, Thread

\* The jitter buffer overshoots the configured maximum by less than a factor
\* of two, for every maximum.
THEOREM SizeBounded == Spec => []BelowTwiceMax
<1>1. Init => BelowTwiceMax
  BY DEF Init, BelowTwiceMax
<1>2. TypeOK /\ BelowTwiceMax /\ [Next]_vars => BelowTwiceMax'
  <2> SUFFICES ASSUME TypeOK, BelowTwiceMax, [Next]_vars
               PROVE  BelowTwiceMax'
    OBVIOUS
  <2>1. jb_size \in Nat /\ jb_size' \in Nat /\ MaxJbSize \in Nat
    <3>1. TypeOK'
      BY TypeStep
    <3> QED BY <3>1, SizesAssumption, SizeType DEF TypeOK
  <2> QED BY <2>1, SizeStep DEF BelowTwiceMax
<1> QED BY TypeCorrect, <1>1, <1>2, PTL DEF Spec

\* The first refill does not grow the buffer and each later one doubles it at
\* most once, for every configuration.
THEOREM GrowthBounded == Spec => []GrowsOncePerRefill
<1>1. Init => GrowsOncePerRefill
  BY DEF Init, GrowsOncePerRefill
<1>2. TypeOK /\ GrowsOncePerRefill /\ [Next]_vars => GrowsOncePerRefill'
  <2> SUFFICES ASSUME TypeOK, GrowsOncePerRefill, [Next]_vars
               PROVE  GrowsOncePerRefill'
    OBVIOUS
  <2> USE DEF TypeOK, GrowsOncePerRefill, sizeVars
  <2>1. CASE EndBuffering
    BY <2>1 DEF EndBuffering, ResizeBuffer, Doubles
  <2>2. CASE AddFrame \/ StartBuffering \/ GoOn \/ Nap
    BY <2>2 DEF AddFrame, StartBuffering, GoOn, Nap
  <2>3. CASE TakeFrame \/ WakeUp \/ Elapse
    BY <2>3 DEF TakeFrame, WakeUp, Elapse
  <2>4. CASE UNCHANGED vars
    BY <2>4 DEF vars
  <2> QED BY <2>1, <2>2, <2>3, <2>4 DEF Next, Thread
<1> QED BY TypeCorrect, <1>1, <1>2, PTL DEF Spec
=============================================================================
