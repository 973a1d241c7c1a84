---------------------------- MODULE JitterBuffer ----------------------------
(***************************************************************************)
(* When the video jitter buffer refills, and how large it gets: the policy *)
(* of CheckAndFillInVideoJb, WaitForBuffering and ResizeBuffer, in         *)
(* milliseconds and frames, as the high video thread runs it while the     *)
(* nginx thread adds frames and revises predictedFps.                      *)
(*                                                                         *)
(* AgoraSession has the same steps among all the threads, with the time    *)
(* tests left open; here the time tests are exact and jb_size has the      *)
(* sixteen bits the code gives it.                                         *)
(***************************************************************************)
EXTENDS Integers

CONSTANTS
  InitialJbSizes,  \* what jb-initial-size-ms may be
  MaxJbSize,       \* jb-max-size-ms
  IncreaseWindow,  \* 1000 * jb-max-doubles-if-emptied-within-seconds
  MaxIterations,   \* naps after which WaitForBuffering gives up
  Fps,             \* the values predictedFps takes
  MaxFrames,       \* bound of the model: frames in the buffer
  MaxTime,         \* bound of the model: longer times count as this
  MaxRefills       \* bound of the model: bufferings counted

NapTime   == 10      \* waitTimeForBufferToBeFull
WordSize  == 256 * 256   \* jb_size is a uint16_t
jb_sizes  == 0..(WordSize - 1)

ASSUME SizesAssumption == InitialJbSizes \subseteq jb_sizes
                          /\ MaxJbSize \in jb_sizes
ASSUME TimesAssumption == /\ IncreaseWindow \in Nat /\ MaxTime \in Nat
                          /\ MaxIterations \in Nat
\* The bound on times lies above every time the code compares with.
ASSUME MaxTimeAssumption == /\ MaxTime > IncreaseWindow
                            /\ \A fps \in Fps : MaxTime > 3 * fps
ASSUME FramesAssumption == /\ Fps \subseteq Nat /\ Fps # {}
                           /\ MaxFrames \in Nat /\ MaxRefills \in Nat

VARIABLES
  pc,              \* where VideoThreadHandlerHigh is in its loop
  frames,          \* videoJB->size()
  predictedFps,
  bufferingFps,    \* predictedFps when WaitForBuffering computed timePerFrame
  jb_size,
  sinceSend,       \* GetTimeDiff(lastSendTime, Now())
  sinceBuffering,  \* GetTimeDiff(ctx->lastBufferingTime, Now())
  naps,            \* waitForBufferingCount
  refills,         \* reBufferingCount, plus the refills at the maximal size
  doublings        \* ghost: how often ResizeBuffer has doubled jb_size

sizeVars == <<jb_size, sinceBuffering, refills, doublings>>
vars == <<pc, frames, predictedFps, bufferingFps, sinceSend, naps, sizeVars>>

Init == /\ pc = "check"
        /\ frames = 0
        /\ predictedFps \in Fps
        /\ bufferingFps = predictedFps
        /\ jb_size \in InitialJbSizes
        /\ sinceSend = 0
        /\ sinceBuffering = 0
        /\ naps = 0
        /\ refills = 0
        /\ doublings = 0

-----------------------------------------------------------------------------
(* The nginx thread: agora_send_video adds a frame and may revise the      *)
(* frame rate.                                                             *)

AddFrame == /\ frames < MaxFrames
            /\ frames' = frames + 1
            /\ predictedFps' \in Fps
            /\ UNCHANGED <<pc, bufferingFps, sinceSend, naps, sizeVars>>

-----------------------------------------------------------------------------
(* The high video thread.                                                  *)

\* Nothing was taken for a while, and there is nothing to take.
RanDry == sinceSend > 3 * predictedFps /\ frames = 0

StartBuffering == /\ pc = "check"
                  /\ RanDry
                  /\ refills < MaxRefills
                  /\ pc' = "buffering"
                  /\ bufferingFps' = predictedFps
                  /\ naps' = 0
                  /\ UNCHANGED <<frames, predictedFps, sinceSend, sizeVars>>

\* lastSendTime is set before the thread waits for the next frame.
GoOn == /\ pc = "check"
        /\ ~RanDry
        /\ sinceSend' = 0
        /\ pc' = "wait"
        /\ UNCHANGED <<frames, predictedFps, bufferingFps, naps, sizeVars>>

\* frames * (1000 / predictedFps) < jb_size.
Short == frames * 1000 < jb_size * bufferingFps

\* Mutant of Nap: the iterations are not counted.
NapUncounted ==
  /\ pc = "buffering"
  /\ Short
  /\ pc' = "nap"
  /\ UNCHANGED <<frames, predictedFps, bufferingFps, sinceSend, naps, sizeVars>>

Nap == /\ pc = "buffering"
       /\ naps < MaxIterations
       /\ Short
       /\ naps' = naps + 1
       /\ pc' = "nap"
       /\ UNCHANGED <<frames, predictedFps, bufferingFps, sinceSend, sizeVars>>

\* Mutant of Doubles: the first refill counts too.
DoublesAtOnce == sinceBuffering < IncreaseWindow

\* ResizeBuffer: the first refill never doubles the size, a later one does if
\* the refill before ended within the window.
Doubles == refills >= 1 /\ sinceBuffering < IncreaseWindow

ResizeBuffer ==
  /\ jb_size' = IF Doubles THEN (jb_size * 2) % WordSize ELSE jb_size
  /\ doublings' = IF Doubles THEN doublings + 1 ELSE doublings
  /\ sinceBuffering' = 0

\* Mutant of EndBuffering: the maximum is not looked at.
EndBufferingUnlimited ==
  /\ pc = "buffering"
  /\ ~(naps < MaxIterations /\ Short)
  /\ ResizeBuffer
  /\ refills' = refills + 1
  /\ sinceSend' = 0
  /\ naps' = 0
  /\ pc' = "wait"
  /\ UNCHANGED <<frames, predictedFps, bufferingFps>>

EndBuffering ==
  /\ pc = "buffering"
  /\ ~(naps < MaxIterations /\ Short)
  /\ IF jb_size < MaxJbSize THEN ResizeBuffer
                            ELSE UNCHANGED <<jb_size, doublings, sinceBuffering>>
  /\ refills' = refills + 1
  /\ sinceSend' = 0
  /\ naps' = 0
  /\ pc' = "wait"
  /\ UNCHANGED <<frames, predictedFps, bufferingFps>>

\* Mutant of TakeFrame: the thread does not wait for a frame.
TakeAnyway == /\ pc = "wait"
              /\ frames' = frames - 1
              /\ pc' = "pace"
              /\ UNCHANGED <<predictedFps, bufferingFps, sinceSend, naps,
                             sizeVars>>

\* The work is sent at once and the thread sleeps until the next is due.
TakeFrame == /\ pc = "wait"
             /\ frames > 0
             /\ frames' = frames - 1
             /\ pc' = "pace"
             /\ UNCHANGED <<predictedFps, bufferingFps, sinceSend, naps,
                            sizeVars>>

WakeUp == /\ pc = "pace"
          /\ pc' = "check"
          /\ UNCHANGED <<frames, predictedFps, bufferingFps, sinceSend, naps,
                         sizeVars>>

-----------------------------------------------------------------------------
Later(time) == IF time + NapTime > MaxTime THEN MaxTime ELSE time + NapTime

\* Ten milliseconds pass while the thread waits, paces or naps.
Elapse == /\ \/ pc = "wait" /\ frames = 0 /\ pc' = pc
             \/ pc = "pace" /\ pc' = pc
             \/ pc = "nap" /\ pc' = "buffering"
          /\ sinceSend' = Later(sinceSend)
          /\ sinceBuffering' = Later(sinceBuffering)
          /\ UNCHANGED <<frames, predictedFps, bufferingFps, naps, jb_size,
                         refills, doublings>>

Thread == \/ StartBuffering \/ GoOn \/ Nap \/ EndBuffering \/ TakeFrame
          \/ WakeUp

Next == AddFrame \/ Thread \/ Elapse

Spec     == Init /\ [][Next]_vars
FairSpec == Spec /\ WF_vars(Thread) /\ WF_vars(Elapse)
-----------------------------------------------------------------------------
\* Every variable has the type its declaration gives it.
TypeOK == /\ pc \in {"check", "buffering", "nap", "wait", "pace"}
          /\ frames \in Nat
          /\ predictedFps \in Fps
          /\ bufferingFps \in Fps
          /\ jb_size \in jb_sizes
          /\ sinceSend \in 0..MaxTime
          /\ sinceBuffering \in 0..MaxTime
          /\ naps \in 0..MaxIterations
          /\ refills \in Nat
          /\ doublings \in Nat

\* Doubling stops once the maximum is reached, so the size overshoots it by
\* less than a factor of two (or is what the configuration began with), also
\* where the doubling wraps.
BelowTwiceMax == jb_size < 2 * MaxJbSize \/ jb_size \in InitialJbSizes

\* "double JB size if the buffer keeps running out to frquently"
\* (utilities.cpp:122): a buffer that ran dry never comes out smaller.  With
\* the largest maxima that jb-max-size-ms may be set to it does, for the
\* doubling wraps around the sixteen bits.
NeverShrinks == [][jb_size' >= jb_size]_vars

\* The size does not grow at the first refill, and at most once at each later
\* one ("just ignore the first buffering, which might not be real").
GrowsOncePerRefill == doublings <= (IF refills = 0 THEN 0 ELSE refills - 1)

\* "jb-max-size-ms -- max buffer size in ms" (agorac.cpp:416).
WithinMax == jb_size <= MaxJbSize \/ jb_size \in InitialJbSizes

\* Buffering comes to an end, whether frames arrive or not.
BufferingEnds == pc = "buffering" ~> pc = "wait"
=============================================================================
