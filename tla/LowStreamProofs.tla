-------------------------- MODULE LowStreamProofs --------------------------
(***************************************************************************)
(* The prediction of the frame rate and the decimation of the low stream,  *)
(* for every rate, range of the counters and length of the second.  The    *)
(* three threads share counters without a lock: the ghosts of LowStream    *)
(* say when an increment crossed the reset, and the invariant below says   *)
(* what the counters are worth as long as none did.                        *)
(***************************************************************************)
EXTENDS LowStream, WellFoundedInduction, TLAPS

-----------------------------------------------------------------------------
(* Fractions.                                                              *)

\* The order of the naturals, as a relation, has no infinite descent.
LEMMA BelowWellFounded ==
  IsWellFoundedOn({pair \in Nat \X Nat : pair[1] < pair[2]}, Nat)
BY NatLessThanWellFounded DEF OpToRel

\* A set of naturals with a bound has a greatest element.
LEMMA GreatestElement ==
  ASSUME NEW d \in Nat, NEW C, C \subseteq 0..d, C # {}
  PROVE  \E k \in C : \A other \in C : other <= k
<1> DEFINE R == {pair \in Nat \X Nat : pair[1] < pair[2]}
           T == {d - k : k \in C}
<1>1. T \subseteq Nat /\ T # {}
  <2>1. \A k \in C : d - k \in Nat
    OBVIOUS
  <2>2. T # {}
    OBVIOUS
  <2> QED BY <2>1, <2>2
<1>2. PICK x \in T : \A y \in T : ~(<<y, x>> \in R)
  <2>1. IsWellFoundedOn(R, Nat)
    BY BelowWellFounded
  <2> HIDE DEF R, T
  <2> QED BY <1>1, <2>1, WFMin
<1>3. PICK k \in C : x = d - k
  BY <1>2
<1>4. ASSUME NEW other \in C PROVE other <= k
  <2>1. d - other \in T
    OBVIOUS
  <2>2. ~(<<d - other, x>> \in R)
    BY <1>2, <2>1
  <2>3. d - other \in Nat /\ x \in Nat /\ k \in Int /\ other \in Int
    BY <1>1, <1>3
  <2>4. ~(d - other < x)
    BY <2>2, <2>3
  <2> QED BY <1>3, <2>3, <2>4
<1> QED BY <1>4

\* What divides a number without a remainder divides it exactly.
LEMMA ExactDivision ==
  ASSUME NEW n \in Nat, NEW k \in Nat \ {0}, n % k = 0
  PROVE  n = k * (n \div k) /\ n \div k \in Nat
<1>1. n \div k \in Int
  OBVIOUS
<1>2. n = k * (n \div k) + (n % k)
  OBVIOUS
<1>3. n = k * (n \div k)
  <2> DEFINE q == n \div k
  <2>1. q \in Int /\ n = k * q + (n % k)
    BY <1>1, <1>2
  <2> HIDE DEF q
  <2>2. n = k * q
    BY <2>1
  <2> QED BY <2>2 DEF q
<1>4. n \div k >= 0
  <2> DEFINE q == n \div k
  <2>1. q \in Int /\ n = k * q
    BY <1>1, <1>3
  <2> HIDE DEF q
  <2>2. ASSUME q <= -1 PROVE FALSE
    <3>1. k * q <= -k
      BY <2>1, <2>2
    <3> QED BY <2>1, <3>1
  <2>3. q >= 0
    BY <2>1, <2>2
  <2> QED BY <2>3 DEF q
<1> QED BY <1>1, <1>3, <1>4

\* A fraction in lowest terms is a fraction, and the same number as before.
LEMMA FractionIsRatio ==
  ASSUME NEW n \in Nat, NEW d \in Nat \ {0}
  PROVE  /\ Fraction(n, d) \in Rates
         /\ Fraction(n, d)[1] * d = n * Fraction(n, d)[2]
<1> DEFINE common == {k \in 1..d : n % k = 0 /\ d % k = 0}
           k      == CHOOSE k \in common : \A other \in common : other <= k
           a      == n \div k
           b      == d \div k
<1>1. common \subseteq 0..d /\ 1 \in common
  <2>1. n % 1 = 0 /\ d % 1 = 0 /\ 1 \in 1..d
    OBVIOUS
  <2> QED BY <2>1
<1>2. k \in common
  <2>1. \E g \in common : \A other \in common : other <= g
    <3> HIDE DEF common
    <3> QED BY <1>1, GreatestElement
  <2> HIDE DEF common
  <2> QED BY <2>1
<1>3. k \in Nat \ {0} /\ n % k = 0 /\ d % k = 0
  <2> HIDE DEF k
  <2> QED BY <1>2
<1>4. Fraction(n, d) = <<a, b>>
  BY DEF Fraction
<1> HIDE DEF k, common
<1>5. n = k * a /\ a \in Nat /\ d = k * b /\ b \in Nat
  BY <1>3, ExactDivision
<1> HIDE DEF a, b
<1>6. b > 0
  <2> SUFFICES ASSUME b = 0 PROVE FALSE
    BY <1>5
  <2>1. k * 0 = 0
    BY <1>3
  <2> QED BY <1>5, <2>1
<1>7. a * d = n * b
  <2>1. a * (k * b) = (k * a) * b
    BY <1>3, <1>5
  <2> QED BY <1>5, <2>1
<1>8. <<a, b>> \in Rates /\ <<a, b>>[1] = a /\ <<a, b>>[2] = b
  BY <1>5, <1>6 DEF Rates
<1> QED BY <1>4, <1>7, <1>8

\* A counter that wraps goes on where the number it counts goes on.
LEMMA WrapSucc ==
  ASSUME NEW W \in Nat \ {0}, NEW n \in Nat
  PROVE  /\ ((n % W) + 1) % W = (n + 1) % W
         /\ n % W \in 0..(W - 1) /\ (n + 1) % W \in 0..(W - 1)
         /\ n < W => n % W = n
         /\ 0 % W = 0
<1>1. n % W \in 0..(W - 1) /\ (n + 1) % W \in 0..(W - 1)
  OBVIOUS
<1>2. ASSUME NEW q \in Int, NEW p \in Int, NEW r \in 0..(W - 1),
             NEW t \in 0..(W - 1), W * q + r = W * p + t
      PROVE  r = t
  <2>1. W * (q - p) = t - r
    BY <1>2
  <2>2. CASE q - p >= 1
    BY <2>1, <2>2
  <2>3. CASE q - p <= -1
    BY <2>1, <2>3
  <2> QED BY <1>2, <2>2, <2>3
<1>3. \A x \in Int : /\ x \div W \in Int /\ x % W \in 0..(W - 1)
                     /\ x = W * (x \div W) + (x % W)
  OBVIOUS
<1>4. ((n % W) + 1) % W = (n + 1) % W
  <2> DEFINE r == n % W
             q == n \div W
             t == (r + 1) % W
             p == (r + 1) \div W
             u == (n + 1) % W
             v == (n + 1) \div W
  <2>1. r \in 0..(W - 1) /\ q \in Int /\ n = W * q + r
    BY <1>3
  <2> HIDE DEF r, q
  <2>2. t \in 0..(W - 1) /\ p \in Int /\ r + 1 = W * p + t
    BY <1>3, <2>1
  <2>3. u \in 0..(W - 1) /\ v \in Int /\ n + 1 = W * v + u
    BY <1>3
  <2> HIDE DEF t, p, u, v
  <2>4. q + p \in Int /\ W * (q + p) + t = W * v + u
    BY <2>1, <2>2, <2>3
  <2>5. t = u
    BY <1>2, <2>2, <2>3, <2>4
  <2> QED BY <2>5 DEF t, u, r
<1>5. ASSUME NEW x \in Nat, x < W PROVE x % W = x
  <2>1. x \in 0..(W - 1) /\ x % W \in 0..(W - 1) /\ x \div W \in Int
    BY <1>3, <1>5
  <2>2. W * 0 + x = W * (x \div W) + (x % W)
    <3>1. W * 0 + x = x
      OBVIOUS
    <3> QED BY <1>3, <3>1
  <2> DEFINE u == x % W
             v == x \div W
  <2>3. u \in 0..(W - 1) /\ v \in Int /\ W * 0 + x = W * v + u
    BY <2>1, <2>2
  <2> HIDE DEF u, v
  <2>4. x = u
    BY <1>2, <2>1, <2>3
  <2> QED BY <2>4 DEF u
<1> QED BY <1>1, <1>4, <1>5

-----------------------------------------------------------------------------
(* The types.                                                              *)

\* A prediction is a number: there is a frame in every second that ends, and
\* an average that is zero is not divided by.
LEMMA PredictType ==
  ASSUME NEW sum \in Nat, NEW count \in Nat, predictedFps \in Rates
  PROVE  /\ Predict(sum, count) \in Rates
         /\ count # 0 /\ Predict(sum, count) # predictedFps
              => Predict(sum, count)[1] * sum
                   = Second * count * Predict(sum, count)[2]
<1>1. Second \in Nat \ {0} /\ MaxFps \in Nat \ {0}
  BY LowStreamAssumption
<1>2. CASE count = 0
  <2>1. <<0, 1>> \in Rates
    BY DEF Rates
  <2> QED BY <1>2, <2>1 DEF Predict
<1>3. CASE count # 0 /\ sum * MaxFps > Second * count
  <2>1. sum # 0
    <3> SUFFICES ASSUME sum = 0 PROVE FALSE
      OBVIOUS
    <3>1. sum * MaxFps = 0 /\ Second * count \in Nat
      BY <1>1
    <3> QED BY <1>3, <3>1
  <2>2. Second * count \in Nat
    BY <1>1
  <2> DEFINE n == Second * count
  <2>3. n \in Nat /\ sum \in Nat \ {0} /\ Predict(sum, count) = Fraction(n, sum)
    BY <1>3, <2>1, <2>2 DEF Predict
  <2> HIDE DEF n
  <2>4. /\ Fraction(n, sum) \in Rates
        /\ Fraction(n, sum)[1] * sum = n * Fraction(n, sum)[2]
    BY <2>3, FractionIsRatio
  <2> QED BY <2>3, <2>4 DEF n
<1>4. CASE count # 0 /\ ~(sum * MaxFps > Second * count)
  BY <1>4 DEF Predict
<1> QED BY <1>2, <1>3, <1>4

\* The types of the variables, one by one, grouped as the actions leave them
\* alone.
NginxType == /\ nginx \in {"idle", "check", "predicted", "resetLow"}
             /\ fps \in Counts /\ lastFrameTimestamp \in {"zero", "later"}
             /\ timestampPerSecond \in Nat /\ predictedFps \in Rates
             /\ frames \in Nat /\ span \in Nat /\ straddled \in BOOLEAN
CountType == /\ highVideoFrameCount \in Counts /\ lowVideoFrameCount \in Counts
             /\ sentHigh \in Nat /\ sentLow \in Nat
             /\ highLost \in BOOLEAN /\ lowLost \in BOOLEAN
QueueType == videoJB \in 0..QueueSize /\ videoQueueLow \in 0..QueueSize
HighType  == high \in {"get", "read", "write"} /\ highRead \in Counts
LowType   == /\ low \in {"get", "test", "send", "write"} /\ lowWork \in BOOLEAN
             /\ lowRead \in Counts /\ ratioRead \in Rates
             /\ resetSeen \in BOOLEAN
AllTypes  == /\ age \in 0..Ages /\ NginxType /\ CountType /\ QueueType
             /\ HighType /\ LowType

\* Together they are the type invariant.
LEMMA TypesAreTypeOK == AllTypes <=> TypeOK
BY DEF TypeOK, AllTypes, NginxType, CountType, QueueType, HighType, LowType

\* Constants of the model that are values of its variables.
LEMMA Values == /\ NoRatio \in Rates /\ <<InitialFps, 1>> \in Rates /\ 0 \in Counts
                /\ \A n \in Nat : n % Width \in Counts
<1>1. InitialFps \in Nat /\ Width \in Nat \ {0}
  BY LowStreamAssumption
<1> QED BY <1>1 DEF Rates, Counts, NoRatio

\* The variables have their types at the start,
LEMMA TypesInit == Init => AllTypes
<1> SUFFICES ASSUME Init PROVE AllTypes
  OBVIOUS
<1>1. Ages \in Nat /\ QueueSize \in Nat
  BY LowStreamAssumption
<1>2. NginxType
  BY Values DEF Init, NginxType
<1>3. CountType
  BY Values DEF Init, CountType
<1>4. age \in 0..Ages /\ QueueType
  BY <1>1 DEF Init, QueueType
<1>5. HighType /\ LowType
  BY Values DEF Init, HighType, LowType
<1> QED BY <1>2, <1>3, <1>4, <1>5 DEF AllTypes
\* and keep them.
LEMMA TypesStep == AllTypes /\ [Next]_vars => AllTypes'
<1> SUFFICES ASSUME AllTypes, [Next]_vars PROVE AllTypes'
  OBVIOUS
<1> USE DEF AllTypes
<1>1. /\ Ages \in Nat \ {0} /\ QueueSize \in Nat \ {0} /\ Gaps \subseteq Nat
      /\ Width \in Nat \ {0}
  BY LowStreamAssumption
<1>2. \A n \in Counts : (n + 1) % Width \in Counts
  BY <1>1, Values DEF Counts
<1>3. CASE Tick
  BY <1>1, <1>3 DEF Tick, nginxVars, countVars, highVars, lowVars, NginxType,
                    CountType, QueueType, HighType, LowType
<1>4. ASSUME NEW gap \in Gaps, SendVideo(gap) PROVE AllTypes'
  <2>1. gap \in Nat
    BY <1>1
  <2>2. UNCHANGED <<age, countVars, videoQueueLow, highVars, lowVars, straddled>>
    BY <1>4 DEF SendVideo
  <2>3. CountType' /\ HighType' /\ LowType'
    BY <2>2 DEF countVars, highVars, lowVars, CountType, HighType, LowType
  <2>4. QueueType'
    BY <1>1, <1>4, <2>2 DEF SendVideo, QueueType
  <2> DEFINE sum == timestampPerSecond
                      + (IF lastFrameTimestamp = "zero" THEN 0 ELSE gap)
  <2>5. sum \in Nat
    BY <2>1 DEF NginxType
  <2>6. fps' \in Counts /\ fps' \in Nat
    BY <1>1, <1>2, <1>4 DEF SendVideo, UpdatePredictedFps, NextFps, NginxType,
                            Counts
  <2>7. timestampPerSecond' \in Nat /\ predictedFps' \in Rates
    <3>1. Predict(sum, fps') \in Rates
      <4> HIDE DEF sum
      <4> QED BY <2>5, <2>6, PredictType DEF NginxType
    <3> QED BY <1>4, <2>5, <3>1 DEF SendVideo, UpdatePredictedFps, NginxType
  <2>8. /\ nginx' \in {"idle", "check", "predicted", "resetLow"}
        /\ lastFrameTimestamp' \in {"zero", "later"}
        /\ frames' \in Nat /\ span' \in Nat /\ straddled' \in BOOLEAN
    BY <1>4, <2>1, <2>2 DEF SendVideo, NginxType
  <2> QED BY <2>2, <2>3, <2>4, <2>6, <2>7, <2>8 DEF NginxType
<1>5. CASE CheckSecond
  <2>1. NginxType'
    BY <1>5 DEF CheckSecond, NginxType
  <2>2. CountType'
    <3>1. CASE age = Ages
      <4>1. /\ highVideoFrameCount' = 0 /\ sentHigh' = 0 /\ sentLow' = 0
            /\ lowVideoFrameCount' = lowVideoFrameCount /\ lowLost' = FALSE
        BY <1>5, <3>1 DEF CheckSecond
      <4>2. highLost' \in BOOLEAN
        BY <1>5, <3>1, Zenon DEF CheckSecond
      <4> QED BY <4>1, <4>2, Values DEF CountType
    <3>2. CASE age # Ages
      BY <1>5, <3>2 DEF CheckSecond, CountType
    <3> QED BY <3>1, <3>2
  <2>3. age' \in 0..Ages /\ QueueType' /\ HighType' /\ LowType'
    BY <1>5 DEF CheckSecond, QueueType, HighType, LowType, highVars
  <2> QED BY <2>1, <2>2, <2>3
<1>6. CASE ResetLow
  BY <1>1, <1>6, Values DEF ResetLow, ClearLowCount, NginxType, CountType,
                      QueueType, HighType, LowType, highVars
<1>7. CASE HighHands
  BY <1>1, <1>7 DEF HighHands, nginxVars, countVars, lowVars, NginxType, CountType,
                    QueueType, HighType, LowType
<1>8. CASE HighReads
  BY <1>8 DEF HighReads, nginxVars, countVars, lowVars, NginxType, CountType,
              QueueType, HighType, LowType
<1>9. CASE HighCounts
  BY <1>2, <1>9, Values DEF HighCounts, nginxVars, lowVars, NginxType, CountType,
                            QueueType, HighType, LowType
<1>10. CASE LowTakes
  BY <1>1, <1>10 DEF LowTakes, nginxVars, countVars, highVars, NginxType,
                     CountType, QueueType, HighType, LowType
<1>11. CASE LowTests
  BY <1>11, Values DEF LowTests, nginxVars, countVars, highVars, NginxType,
                       CountType, QueueType, HighType, LowType
<1>12. CASE LowSends
  BY <1>12 DEF LowSends, nginxVars, countVars, highVars, NginxType, CountType,
               QueueType, HighType, LowType
<1>13. CASE LowCounts
  <2>1. CountType'
    BY <1>2, <1>13 DEF LowCounts, CountType, LowType
  <2>2. LowType'
    BY <1>13, Values DEF LowCounts, LowType
  <2>3. age' \in 0..Ages /\ NginxType' /\ QueueType' /\ HighType'
    BY <1>13 DEF LowCounts, nginxVars, highVars, NginxType, QueueType, HighType
  <2> QED BY <2>1, <2>2, <2>3
<1>14. CASE UNCHANGED vars
  BY <1>14 DEF vars, nginxVars, countVars, highVars, lowVars, NginxType,
               CountType, QueueType, HighType, LowType
<1> QED BY <1>3, <1>4, <1>5, <1>6, <1>7, <1>8, <1>9, <1>10, <1>11, <1>12, <1>13,
           <1>14 DEF Next, Nginx, High, Low

\* The three threads never leave the states that the declarations describe;
\* among others, no prediction divides by zero.
THEOREM LowStreamTypeCorrect == Spec => []TypeOK
<1>1. Spec => []AllTypes
  BY TypesInit, TypesStep, PTL DEF Spec
<1> QED BY <1>1, TypesAreTypeOK, PTL

-----------------------------------------------------------------------------
(* The prediction.                                                         *)

\* What the two sums of the nginx thread are worth wherever it is: fps counts
\* the frames of the second, and the sum of the intervals is the time that
\* they span, unless the second before was missed.
RateKept ==
  /\ fps = frames % Width
  /\ lastFrameTimestamp = "zero" => timestampPerSecond = 0
  /\ nginx = "predicted" => timestampPerSecond = 0 /\ age = Ages
  /\ nginx = "resetLow" /\ ~straddled => timestampPerSecond = 0
  /\ nginx \in {"idle", "check"} /\ ~straddled => timestampPerSecond = span

\* It is so at the start,
LEMMA RateInit == Init => RateKept
<1>1. 0 % Width = 0
  BY LowStreamAssumption, WrapSucc
<1> QED BY <1>1 DEF Init, RateKept
\* and stays so.
LEMMA RateStep == AllTypes /\ RateKept /\ [Next]_vars => RateKept'
<1> SUFFICES ASSUME AllTypes, RateKept, [Next]_vars PROVE RateKept'
  OBVIOUS
<1>1. /\ Width \in Nat \ {0} /\ frames \in Nat /\ age \in 0..Ages /\ Ages \in Nat
      /\ nginx \in {"idle", "check", "predicted", "resetLow"}
      /\ straddled \in BOOLEAN /\ timestampPerSecond \in Nat /\ span \in Nat
  BY LowStreamAssumption DEF AllTypes, NginxType
<1>2. CASE Tick
  BY <1>1, <1>2 DEF Tick, nginxVars, RateKept
<1>3. ASSUME NEW gap \in Gaps, SendVideo(gap) PROVE RateKept'
  <2>1. gap \in Nat
    BY LowStreamAssumption
  <2>2. fps' = frames' % Width
    <3>1. fps' = ((frames % Width) + 1) % Width /\ frames' = frames + 1
      BY <1>3 DEF SendVideo, UpdatePredictedFps, NextFps, RateKept
    <3> QED BY <1>1, <3>1, WrapSucc
  <2>3. lastFrameTimestamp' = "zero" => timestampPerSecond' = 0
    BY <1>3, <2>1 DEF SendVideo, UpdatePredictedFps, RateKept
  <2>4. nginx' = "predicted" => timestampPerSecond' = 0 /\ age' = Ages
    BY <1>3 DEF SendVideo, UpdatePredictedFps
  <2>5. nginx' \in {"predicted", "check"} /\ straddled' = straddled
    BY <1>3 DEF SendVideo
  <2>6. nginx' = "check" /\ ~straddled => timestampPerSecond' = span'
    BY <1>1, <1>3, <2>1 DEF SendVideo, UpdatePredictedFps, RateKept
  <2> QED BY <2>2, <2>3, <2>4, <2>5, <2>6 DEF RateKept
<1>4. CASE CheckSecond
  BY <1>1, <1>4 DEF CheckSecond, RateKept
<1>5. CASE ResetLow
  <2>1. 0 % Width = 0
    BY <1>1, WrapSucc
  <2> QED BY <1>5, <2>1 DEF ResetLow, RateKept
<1>6. CASE High \/ Low \/ UNCHANGED vars
  <2>1. UNCHANGED nginxVars /\ UNCHANGED age
    BY <1>6 DEF High, HighHands, HighReads, HighCounts, Low, LowTakes, LowTests,
                LowSends, LowCounts, vars
  <2> QED BY <2>1 DEF nginxVars, RateKept
<1> QED BY <1>2, <1>3, <1>4, <1>5, <1>6 DEF Next, Nginx

\* A new prediction is the rate of the second, of whatever frames.
LEMMA PredictsRate ==
  ASSUME AllTypes, RateKept, [Next]_vars,
         predictedFps' # predictedFps, ~straddled, frames' < Width
  PROVE  predictedFps'[1] * span' = Second * frames' * predictedFps'[2]
<1>1. PICK gap \in Gaps : SendVideo(gap)
  BY DEF Next, Tick, Nginx, CheckSecond, ResetLow, High, HighHands, HighReads,
         HighCounts, Low, LowTakes, LowTests, LowSends, LowCounts, vars, nginxVars
<1>2. /\ Width \in Nat \ {0} /\ frames \in Nat /\ predictedFps \in Rates
      /\ timestampPerSecond \in Nat /\ span \in Nat /\ gap \in Nat
  BY LowStreamAssumption DEF AllTypes, NginxType
<1> DEFINE sum == timestampPerSecond
                    + (IF lastFrameTimestamp = "zero" THEN 0 ELSE gap)
<1>3. predictedFps' = Predict(sum, fps')
  BY <1>1 DEF SendVideo, UpdatePredictedFps
<1>4. sum = span' /\ sum \in Nat
  BY <1>1, <1>2 DEF SendVideo, RateKept
<1>5. fps' = frames' /\ frames' \in Nat /\ frames' # 0
  <2>1. fps' = ((frames % Width) + 1) % Width /\ frames' = frames + 1
    BY <1>1 DEF SendVideo, UpdatePredictedFps, NextFps, RateKept
  <2>2. fps' = frames' % Width /\ frames' \in Nat /\ frames' # 0
    <3>1. frames' \in Nat /\ frames' # 0
      BY <1>2, <2>1
    <3>2. ((frames % Width) + 1) % Width = (frames + 1) % Width
      BY <1>2, WrapSucc
    <3> QED BY <2>1, <3>1, <3>2
  <2>3. frames' % Width = frames'
    BY <1>2, <2>2, WrapSucc
  <2> QED BY <2>2, <2>3
<1> HIDE DEF sum
<1>6. Predict(sum, fps') # predictedFps
  BY <1>3
<1>7. Predict(sum, fps')[1] * sum = Second * fps' * Predict(sum, fps')[2]
  BY <1>2, <1>4, <1>5, <1>6, PredictType
<1> QED BY <1>3, <1>4, <1>5, <1>7

\* UpdatePredictedFps predicts what the frames of the second say, although
\* the sums behind the prediction are reset in two functions that each read
\* the clock.
THEOREM RateIsPredicted == Spec => PredictionIsRate
<1>1. AllTypes /\ RateKept /\ [Next]_vars
        => (predictedFps' # predictedFps /\ ~straddled /\ frames' < Width
              => predictedFps'[1] * span' = Second * frames' * predictedFps'[2])
  BY PredictsRate
<1>2. AllTypes /\ RateKept /\ [Next]_vars
        => [predictedFps' # predictedFps /\ ~straddled /\ frames' < Width
              => predictedFps'[1] * span'
                   = Second * frames' * predictedFps'[2]]_vars
  BY <1>1
<1> QED BY <1>2, TypesInit, TypesStep, RateInit, RateStep, PTL
        DEF Spec, PredictionIsRate

-----------------------------------------------------------------------------
(* The share of the low stream.                                            *)

\* What the counters are worth: the number of frames sent since the reset,
\* unless an increment crossed it; so are the values read for an increment
\* and for the test.
HighCountKept ==
  ~highLost => /\ highVideoFrameCount = sentHigh % Width
               /\ high = "write" => highRead = highVideoFrameCount
LowCountKept ==
  /\ ~lowLost /\ nginx # "resetLow"
       => /\ lowVideoFrameCount = sentLow % Width
          /\ low = "write" => lowRead = lowVideoFrameCount
  /\ low = "test" /\ ~resetSeen => lowRead = lowVideoFrameCount
  /\ low # "test" => ~resetSeen
CountsKept == HighCountKept /\ LowCountKept

\* It is so at the start,
LEMMA CountsInit == Init => CountsKept
<1>1. 0 % Width = 0
  BY LowStreamAssumption, WrapSucc
<1> QED BY <1>1 DEF Init, CountsKept, HighCountKept, LowCountKept
\* and stays so.
LEMMA CountsStep == AllTypes /\ CountsKept /\ [Next]_vars => CountsKept'
<1> SUFFICES ASSUME AllTypes, CountsKept, [Next]_vars PROVE CountsKept'
  OBVIOUS
<1> USE DEF CountsKept
<1>1. /\ Width \in Nat \ {0} /\ sentHigh \in Nat /\ sentLow \in Nat
      /\ highLost \in BOOLEAN /\ lowLost \in BOOLEAN
  BY LowStreamAssumption DEF AllTypes, CountType
<1>2. /\ ((sentHigh % Width) + 1) % Width = (sentHigh + 1) % Width
      /\ ((sentLow % Width) + 1) % Width = (sentLow + 1) % Width
      /\ 0 % Width = 0
  BY <1>1, WrapSucc
<1>3. CASE Tick \/ UNCHANGED vars
  BY <1>3 DEF Tick, vars, nginxVars, countVars, highVars, lowVars, HighCountKept,
              LowCountKept
<1>4. ASSUME NEW gap \in Gaps, SendVideo(gap) PROVE CountsKept'
  BY <1>4 DEF SendVideo, countVars, highVars, lowVars, HighCountKept, LowCountKept
<1>5. CASE CheckSecond
  BY <1>2, <1>5 DEF CheckSecond, highVars, HighCountKept, LowCountKept
<1>6. CASE ResetLow
  <2>1. HighCountKept'
    BY <1>6 DEF ResetLow, highVars, HighCountKept
  <2>2. ~lowLost' => sentLow' = 0 /\ lowVideoFrameCount' = 0 /\ low' # "write"
    <3>1. /\ lowLost' = (low = "write" \/ sentLow > 0) /\ sentLow' = sentLow
          /\ lowVideoFrameCount' = 0 /\ low' = low
      BY <1>6 DEF ResetLow, ClearLowCount
    <3>2. ~(sentLow > 0) => sentLow = 0
      BY <1>1
    <3> QED BY <3>1, <3>2
  <2>3. resetSeen' = (low' = "test")
    BY <1>6 DEF ResetLow
  <2> QED BY <1>2, <2>1, <2>2, <2>3 DEF LowCountKept
<1>7. CASE HighHands \/ HighReads
  BY <1>7 DEF HighHands, HighReads, nginxVars, countVars, lowVars, HighCountKept,
              LowCountKept
<1>8. CASE HighCounts
  <2>1. HighCountKept'
    BY <1>1, <1>2, <1>8 DEF HighCounts, HighCountKept
  <2> QED BY <1>8, <2>1 DEF HighCounts, nginxVars, lowVars, LowCountKept
<1>9. CASE LowTakes \/ LowTests \/ LowSends
  BY <1>9 DEF LowTakes, LowTests, LowSends, nginxVars, countVars, highVars,
              HighCountKept, LowCountKept
<1>10. CASE LowCounts
  <2>1. LowCountKept'
    BY <1>1, <1>2, <1>10 DEF LowCounts, nginxVars, LowCountKept
  <2> QED BY <1>10, <2>1 DEF LowCounts, highVars, HighCountKept
<1> QED BY <1>3, <1>4, <1>5, <1>6, <1>7, <1>8, <1>9, <1>10
        DEF Next, Nginx, High, Low

\* The test compares what was sent.
LEMMA TestsShare ==
  ASSUME AllTypes, CountsKept, [Next]_vars,
         low = "test", low' # "test", Undisturbed, ~lowWork
  PROVE  low' = "send" <=> Behind(sentLow, sentHigh)
<1>1. LowTests
  BY DEF Next, Tick, Nginx, SendVideo, CheckSecond, ResetLow, High, HighHands,
         HighReads, HighCounts, Low, LowTakes, LowSends, LowCounts, vars, highVars,
         lowVars
<1>2. /\ Width \in Nat \ {0} /\ sentHigh \in Nat /\ sentLow \in Nat
      /\ sentHigh < Width /\ sentLow < Width
  BY LowStreamAssumption DEF AllTypes, CountType, Undisturbed
<1>3. sentHigh % Width = sentHigh /\ sentLow % Width = sentLow
  BY <1>2, WrapSucc
<1>4. highVideoFrameCount = sentHigh /\ lowRead = sentLow
  BY <1>3 DEF CountsKept, HighCountKept, LowCountKept, Undisturbed
<1>5. low' = IF Behind(lowRead, highVideoFrameCount) THEN "send" ELSE "get"
  BY <1>1 DEF LowTests
<1> QED BY <1>4, <1>5

\* doSendLowVideo encodes a frame exactly if the low stream is behind its share
\* of what the high thread has sent, although the three threads count and reset
\* without a lock.
THEOREM ShareIsKept == Spec => LowWithinShare
<1>1. AllTypes /\ CountsKept /\ [Next]_vars
        => [low = "test" /\ low' # "test" /\ Undisturbed /\ ~lowWork
              => (low' = "send" <=> Behind(sentLow, sentHigh))]_vars
  BY TestsShare
<1> QED BY <1>1, TypesInit, TypesStep, CountsInit, CountsStep, PTL
        DEF Spec, LowWithinShare
=============================================================================
