----------------------------- MODULE LowStream ------------------------------
(***************************************************************************)
(* Which frames the low stream gets.  The nginx thread predicts the frame  *)
(* rate and once a second sets two counters to zero; the high thread       *)
(* increments one, the low thread the other, and the low thread encodes a  *)
(* frame if the second is behind its share of the first.  No lock guards   *)
(* the counters: an increment is a read and a write here.                  *)
(*                                                                         *)
(* Time is the age of the second that the nginx thread counts in; it may   *)
(* pass between any two steps.                                             *)
(***************************************************************************)
EXTENDS Integers

CONSTANTS
  Second,      \* 1000 ms, in the units of the timestamps
  Ages,        \* bound of the model: the second passes in that many steps
  Gaps,        \* between the timestamps of two frames
  MaxFps,      \* maxFps: 255
  InitialFps,  \* predictedFps at the start: 30
  Dfps,        \* dfps: the frame rate asked for the low stream
  Width,       \* values of fps and the counters: 256 for a uint8_t
  MaxFrames,   \* bound of the model: frames that arrive before a second ends
  QueueSize    \* bound of the model: frames in a queue

ASSUME LowStreamAssumption ==
  /\ Second \in Nat \ {0} /\ Ages \in Nat \ {0} /\ Gaps \subseteq Nat
  /\ MaxFps \in Nat \ {0} /\ InitialFps \in Nat \ {0} /\ Dfps \in Nat \ {0}
  /\ Width \in Nat \ {0} /\ MaxFrames \in Nat
  /\ QueueSize \in Nat \ {0}

VARIABLES
  age,                 \* Now() - lastFpsPrintTime; Ages for a second or more
  nginx,               \* where the nginx thread is in agora_send_video
  fps,
  lastFrameTimestamp,  \* whether it is zero: "zero", or "later"
  timestampPerSecond,
  predictedFps,        \* a fraction
  highVideoFrameCount, lowVideoFrameCount,
  videoJB, videoQueueLow, \* how many frames they hold
  high, highRead,      \* where the high thread is, and the count it has read
  low, lowWork, lowRead, \* the same of the low thread, and its frame
  ratioRead,           \* the predictedFps of its lowHeighRatio
  \* Ghosts: what really happened since the counters were last reset.
  frames, span,        \* frames that arrived, the time between their timestamps
  sentHigh, sentLow,   \* frames that the threads sent
  highLost, lowLost,   \* the reset was overwritten by an increment under way
  straddled,           \* the prediction of the second before was missed
  resetSeen            \* a counter was reset since the low thread read one

nginxVars == <<nginx, fps, lastFrameTimestamp, timestampPerSecond,
               predictedFps, frames, span, straddled>>
countVars == <<highVideoFrameCount, lowVideoFrameCount, sentHigh, sentLow,
               highLost, lowLost>>
highVars == <<high, highRead>>
lowVars == <<low, lowWork, lowRead, ratioRead, resetSeen>>
vars == <<age, nginxVars, countVars, videoJB, videoQueueLow, highVars, lowVars>>

\* The value of ratioRead where the low thread has no use for it.
NoRatio == <<0, 1>>

Init == /\ age = 0
        /\ nginx = "idle"
        /\ fps = 0
        /\ lastFrameTimestamp = "zero"
        /\ timestampPerSecond = 0
        /\ predictedFps = <<InitialFps, 1>>
        /\ highVideoFrameCount = 0 /\ lowVideoFrameCount = 0
        /\ videoJB = 0 /\ videoQueueLow = 0
        /\ high = "get" /\ highRead = 0
        /\ low = "get" /\ lowWork = FALSE /\ lowRead = 0
        /\ ratioRead = NoRatio
        /\ frames = 0 /\ span = 0
        /\ sentHigh = 0 /\ sentLow = 0
        /\ highLost = FALSE /\ lowLost = FALSE
        /\ straddled = FALSE /\ resetSeen = FALSE

\* The second clause is a bound of the model: the prediction is not missed
\* twice in a row.
Tick == /\ age < Ages
        /\ age + 1 = Ages => ~(nginx = "check" /\ straddled)
        /\ age' = age + 1
        /\ UNCHANGED <<nginxVars, countVars, videoJB, videoQueueLow, highVars,
                       lowVars>>

-----------------------------------------------------------------------------
(* The nginx thread: agora_send_video.                                     *)

\* A fraction in lowest terms.
Fraction(n, d) ==
  LET common == {k \in 1..d : n % k = 0 /\ d % k = 0}
      k == CHOOSE k \in common : \A other \in common : other <= k
  IN  <<n \div k, d \div k>>

\* 1000 / (sum / count), unless the average is too small to be true.  A count
\* that wrapped to zero makes the average infinite, or not a number.
Predict(sum, count) ==
  IF count = 0 THEN IF sum > 0 THEN <<0, 1>> ELSE predictedFps
  ELSE IF sum * MaxFps > Second * count THEN Fraction(Second * count, sum)
  ELSE predictedFps

\* Mutant of NextFps: fps is wider than eight bits.
NextFpsWide == fps + 1

NextFps == (fps + 1) % Width

\* Mutant of UpdatePredictedFps: the frame that ends the second is
\* left for the next.
UpdatePredictedFpsLate(gap) ==
  LET sum == timestampPerSecond
               + (IF lastFrameTimestamp = "zero" THEN 0 ELSE gap)
  IN  /\ fps' = NextFps
      /\ IF age = Ages
         THEN /\ predictedFps' = Predict(timestampPerSecond, fps')
              /\ timestampPerSecond' = gap
         ELSE timestampPerSecond' = sum /\ UNCHANGED predictedFps

\* UpdatePredictedFps: the timestamp of the frame before counts as missing if
\* it is zero.
UpdatePredictedFps(gap) ==
  LET sum == timestampPerSecond
               + (IF lastFrameTimestamp = "zero" THEN 0 ELSE gap)
  IN  /\ fps' = NextFps
      /\ IF age = Ages
         THEN predictedFps' = Predict(sum, fps') /\ timestampPerSecond' = 0
         ELSE timestampPerSecond' = sum /\ UNCHANGED predictedFps

\* A first frame may be stamped with zero; later ones are a gap apart.
SendVideo(gap) ==
  /\ nginx = "idle"
  /\ frames < MaxFrames \/ age = Ages
  /\ videoJB < QueueSize
  /\ videoJB' = videoJB + 1
  /\ UpdatePredictedFps(gap)
  /\ lastFrameTimestamp' = IF lastFrameTimestamp = "zero" /\ gap = 0
                           THEN "zero" ELSE "later"
  /\ nginx' = IF age = Ages THEN "predicted" ELSE "check"
  /\ frames' = frames + 1
  /\ span' = IF straddled \/ lastFrameTimestamp = "zero" THEN 0
             ELSE span + gap
  /\ UNCHANGED <<age, straddled, countVars, videoQueueLow, highVars, lowVars>>

\* The clock is read again: it may say that a second has passed when it did
\* not in UpdatePredictedFps.
CheckSecond ==
  /\ nginx \in {"check", "predicted"}
  /\ IF age = Ages
     THEN /\ nginx' = "resetLow"
          /\ highVideoFrameCount' = 0
          /\ sentHigh' = 0 /\ sentLow' = 0
          /\ highLost' = (high = "write") /\ lowLost' = FALSE
          /\ resetSeen' = (low = "test")
          /\ straddled' = (nginx = "check")
     ELSE /\ nginx' = "idle"
          /\ UNCHANGED <<highVideoFrameCount, sentHigh, sentLow, highLost,
                         lowLost, resetSeen, straddled>>
  /\ UNCHANGED <<age, fps, lastFrameTimestamp, timestampPerSecond,
                 predictedFps, frames, span, lowVideoFrameCount, videoJB,
                 videoQueueLow, highVars, low, lowWork, lowRead, ratioRead>>

\* Mutant of ClearLowCount: the low thread's counter is not reset.
KeepLowCount == UNCHANGED lowVideoFrameCount

ClearLowCount == lowVideoFrameCount' = 0

ResetLow ==
  /\ nginx = "resetLow"
  /\ nginx' = "idle"
  /\ ClearLowCount
  /\ age' = 0
  /\ fps' = 0
  /\ frames' = 0 /\ span' = 0
  /\ lowLost' = (low = "write" \/ sentLow > 0)
  /\ resetSeen' = (low = "test")
  /\ UNCHANGED <<lastFrameTimestamp, timestampPerSecond, predictedFps,
                 straddled, highVideoFrameCount, sentHigh, sentLow, highLost,
                 videoJB, videoQueueLow, highVars, low, lowWork, lowRead,
                 ratioRead>>

Nginx == (\E gap \in Gaps : SendVideo(gap)) \/ CheckSecond \/ ResetLow

-----------------------------------------------------------------------------
(* The high thread: it hands the frame on, sends it, and counts it.        *)

HighHands == /\ high = "get"
             /\ videoJB > 0
             /\ videoQueueLow < QueueSize
             /\ videoJB' = videoJB - 1
             /\ videoQueueLow' = videoQueueLow + 1
             /\ high' = "read"
             /\ UNCHANGED <<age, nginxVars, countVars, highRead, lowVars>>

HighReads == /\ high = "read"
             /\ highRead' = highVideoFrameCount
             /\ high' = "write"
             /\ UNCHANGED <<age, nginxVars, countVars, videoJB, videoQueueLow,
                            lowVars>>

HighCounts == /\ high = "write"
              /\ highVideoFrameCount' = (highRead + 1) % Width
              /\ sentHigh' = IF highLost THEN 0 ELSE sentHigh + 1
              /\ high' = "get" /\ highRead' = 0
              /\ UNCHANGED <<age, nginxVars, lowVideoFrameCount, sentLow,
                             highLost, lowLost, videoJB, videoQueueLow,
                             lowVars>>

High == HighHands \/ HighReads \/ HighCounts

-----------------------------------------------------------------------------
(* The low thread: doSendLowVideo.                                         *)

\* A key frame or another; decoded, then the ratio and the own count are read.
LowTakes == /\ low = "get"
            /\ videoQueueLow > 0
            /\ lowWork' \in BOOLEAN
            /\ videoQueueLow' = videoQueueLow - 1
            /\ ratioRead' = predictedFps
            /\ lowRead' = lowVideoFrameCount
            /\ low' = "test"
            /\ UNCHANGED <<age, nginxVars, countVars, videoJB, highVars,
                           resetSeen>>

\* lowVideoFrameCount * (predictedFps / dfps) < highVideoFrameCount
Behind(lowCount, highCount) ==
  lowCount * ratioRead[1] < highCount * Dfps * ratioRead[2]

LowTests == /\ low = "test"
            /\ IF lowWork \/ Behind(lowRead, highVideoFrameCount)
               THEN low' = "send" /\ UNCHANGED lowWork
               ELSE low' = "get" /\ lowWork' = FALSE
            /\ lowRead' = 0 /\ ratioRead' = NoRatio /\ resetSeen' = FALSE
            /\ UNCHANGED <<age, nginxVars, countVars, videoJB, videoQueueLow,
                           highVars>>

\* Whatever the encoder says, the frame is sent; then it is counted.
LowSends == /\ low = "send"
            /\ lowRead' = lowVideoFrameCount
            /\ low' = "write"
            /\ UNCHANGED <<age, nginxVars, countVars, videoJB, videoQueueLow,
                           highVars, lowWork, ratioRead, resetSeen>>

LowCounts == /\ low = "write"
             /\ lowVideoFrameCount' = (lowRead + 1) % Width
             /\ sentLow' = IF lowLost THEN 0 ELSE sentLow + 1
             /\ low' = "get" /\ lowWork' = FALSE /\ lowRead' = 0
             /\ UNCHANGED <<age, nginxVars, highVideoFrameCount, sentHigh,
                            highLost, lowLost, videoJB, videoQueueLow,
                            highVars, ratioRead, resetSeen>>

Low == LowTakes \/ LowTests \/ LowSends \/ LowCounts

Next == Tick \/ Nginx \/ High \/ Low

Spec == Init /\ [][Next]_vars
-----------------------------------------------------------------------------
Counts == 0..(Width - 1)
Rates == {rate \in Nat \X Nat : rate[2] > 0}

\* Every variable has the type its declaration gives it.
TypeOK ==
  /\ age \in 0..Ages
  /\ nginx \in {"idle", "check", "predicted", "resetLow"}
  /\ high \in {"get", "read", "write"}
  /\ low \in {"get", "test", "send", "write"}
  /\ {fps, highVideoFrameCount, lowVideoFrameCount, highRead, lowRead}
       \subseteq Counts
  /\ lastFrameTimestamp \in {"zero", "later"}
  /\ {timestampPerSecond, frames, span, sentHigh, sentLow} \subseteq Nat
  /\ {predictedFps, ratioRead} \subseteq Rates
  /\ {videoJB, videoQueueLow} \subseteq 0..QueueSize
  /\ {lowWork, highLost, lowLost, straddled, resetSeen} \subseteq BOOLEAN

\* The prediction is the number of frames of the second over the time that
\* their timestamps span, although the two sums behind it are reset in two
\* functions that each read the clock; unless the second before was missed by
\* the first of them, or the eight bits of fps wrapped.
PredictionIsRate ==
  [][predictedFps' # predictedFps /\ ~straddled /\ frames' < Width
       => predictedFps'[1] * span' = Second * frames' * predictedFps'[2]]_vars

\* A frame that is no key frame is encoded exactly if the low stream is behind
\* its share of what the high stream has sent in this second; unless an
\* increment or the test crossed the reset, or a counter wrapped.
Undisturbed == /\ ~highLost /\ ~lowLost /\ ~resetSeen
               /\ nginx # "resetLow"
               /\ sentHigh < Width /\ sentLow < Width
LowWithinShare ==
  [][low = "test" /\ low' # "test" /\ Undisturbed /\ ~lowWork
       => (low' = "send" <=> Behind(sentLow, sentHigh))]_vars
=============================================================================
