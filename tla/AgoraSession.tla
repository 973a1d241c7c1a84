---------------------------- MODULE AgoraSession ----------------------------
(***************************************************************************)
(* One running session (agora_context_t in libagorac/agorac.cpp): the      *)
(* nginx thread, which creates the session, hands it frames and tears it   *)
(* down, and the worker threads that send them to the Agora channel:       *)
(*                                                                         *)
(*   "High"   VideoThreadHandlerHigh   paces the video out of videoJB      *)
(*   "Low"    VideoThreadHandlerLow    re-encodes what High passes on, in  *)
(*                                     sessions with enable_dual           *)
(*   "Audio"  AudioThreadHandler       paces the audio out of audioJB      *)
(*                                                                         *)
(* No thread is ever joined.  Tear-down puts a finished work in each queue,*)
(* sleeps for two seconds and frees the context, whatever the workers do:  *)
(* what keeps them off freed memory is only that they end in time.         *)
(*                                                                         *)
(* Operations on the three queues are atomic here (WorkQueue shows they    *)
(* are).  Time passes in ticks of one buffering nap (10 ms) and only while *)
(* no thread can step: a step of a thread is short against a nap.          *)
(***************************************************************************)
EXTENDS Integers, Sequences

CONSTANTS
  MaxVideo, MaxAudio,  \* bounds of the model: frames handed to the session
  Gaps,                \* what a frame's timestamp may be above the previous
  PillTimestamps,      \* what an uninitialised Work::timestamp may hold
  Grace,               \* ticks agora_disconnect sleeps before it tears down
  MaxIterations,       \* naps after which WaitForBuffering gives up
  TimePerFrame,        \* 1000/predictedFps, in ticks
  KeyFrames,           \* the numbers of the publisher's key frames
  InitialJbSize,       \* jb-initial-size-ms, in ticks
  MaxJbSize,           \* jb-max-size-ms, in ticks
  Forever              \* bound of the model: longer sleeps count as this

ASSUME BoundsAssumption ==
         /\ MaxVideo \in Nat /\ MaxAudio \in Nat
         /\ Gaps \subseteq Int /\ PillTimestamps \subseteq Int
         /\ Grace \in Nat /\ Forever \in Nat /\ MaxIterations \in Nat
         /\ TimePerFrame \in Nat /\ KeyFrames \subseteq Nat
         /\ InitialJbSize \in Nat /\ MaxJbSize \in Nat
\* The two seconds of agora_disconnect are more than two naps.
ASSUME GraceAssumption == Grace >= 2

Workers == {"High", "Low", "Audio"}
Paced   == {"High", "Audio"}      \* the workers that sleep between works

Work     == [id : Nat, timestamp : Int, is_finished : BOOLEAN]
NullWork == [id |-> 0, timestamp |-> 0, is_finished |-> FALSE]

VARIABLES
  mainPc,         \* where the nginx thread is in agora_init .. agora_disconnect
  pc,             \* where each worker is in its loop
  ctx,            \* the context: "live", "torn" (members nulled) or "freed"
  enable_dual,
  isRunning,
  isJbBuffering,
  queue,          \* "High": videoJB, "Low": videoQueueLow, "Audio": audioJB
  work,           \* the work each worker took last
  lastTimestamp,  \* lastVideoTimestamp and lastAudioTimestamp
  jb_size,
  reBuffered,     \* reBufferingCount >= MAX_REBUFFERING_COUNT
  naps,           \* waitForBufferingCount of the running WaitForBuffering
  timePerFrameSet, \* its timePerFrame was computed from a predictedFps that
                   \* agora_init had set
  nap,            \* ticks left of a thread's sleep_for
  due,            \* ticks left to a worker's nextSample
  pill,           \* the work agora_disconnect makes
  arrived,        \* the last frame of each stream, in it or about to be added
  handled,        \* ghost: the last frame each worker is through with: it
                  \* has sent it or, if it is Low, left it out
  lowSent,        \* ghost: the last frame sent on the low stream
  slept,          \* ghost: the sleep a worker has computed for its work, in
                  \* ticks, until it goes on to the next
  slipped         \* ghost: audio sent while isJbBuffering, since it became true

threadVars == <<mainPc, pc, naps, nap, due, slept>>
dataVars   == <<queue, work, lastTimestamp, pill, arrived, handled, lowSent>>
flagVars   == <<ctx, enable_dual, isRunning, isJbBuffering, jb_size,
                reBuffered, timePerFrameSet, slipped>>
vars == <<threadVars, dataVars, flagVars>>

-----------------------------------------------------------------------------
(* agora_init has just started the High and Audio threads: the flag, the   *)
(* sizes and the counters that it sets below that are still uninitialised. *)

Init == /\ mainPc = "starting"
        /\ pc = [t \in Workers |-> IF t = "Low" THEN "unborn" ELSE "check"]
        /\ ctx = "live"
        /\ enable_dual \in BOOLEAN
        /\ isRunning = TRUE
        /\ isJbBuffering \in BOOLEAN
        /\ queue = [t \in Workers |-> <<>>]
        /\ work = [t \in Workers |-> NullWork]
        /\ lastTimestamp = [t \in Paced |-> 0]
        /\ jb_size = InitialJbSize
        /\ reBuffered \in BOOLEAN
        /\ naps = 0
        /\ timePerFrameSet = TRUE
        /\ nap = [t \in Workers \cup {"Main"} |-> 0]
        /\ due = [t \in Workers |-> 0]
        /\ slept = due
        /\ pill = NullWork
        /\ arrived = [t \in Paced |-> NullWork]
        /\ handled = [t \in Workers |-> 0]
        /\ lowSent = 0
        /\ slipped = 0

Goto(t, label) == pc' = [pc EXCEPT ![t] = label]

Push(t, w) == queue' = [queue EXCEPT ![t] = Append(@, w)]

\* The labels at which a worker uses no member that tear-down sets to null.
FlagsOnly == {"check", "hold"}

\* A worker at this label would use a context that is no longer there.
Dangling(t) == \/ ctx = "freed" /\ pc[t] # "sleep"
               \/ ctx = "torn" /\ pc[t] \notin FlagsOnly \cup {"sleep"}

\* The worker t is at this label and may execute it.
At(t, label) == pc[t] = label /\ ~Dangling(t)

AnySize == 0..(MaxVideo + MaxAudio + 1)

\* size() reads the std::queue without the lock: while the nginx thread is
\* about to push it may return anything.
SizeSeen(t) == IF \/ t = "High" /\ mainPc \in {"addVideo", "pillHigh"}
                  \/ t = "Audio" /\ mainPc \in {"addAudio", "pillAudio"}
               THEN AnySize
               ELSE {Len(queue[t])}

\* GetNextSamplingPoint: the sleep after work w, if the queue holds n works.
\* It peeks and counts in one step here: a work pushed between the two can
\* only decide whether the sleep is shortened.
SleepTime(t, w, n) ==
  LET nextTs    == IF queue[t] = <<>> THEN w.timestamp
                                      ELSE Head(queue[t]).timestamp
      currentTs == IF w.timestamp = nextTs THEN lastTimestamp[t]
                                           ELSE w.timestamp
      interval  == nextTs - currentTs
  IN  IF n * interval > jb_size THEN (interval * 95) \div 100 ELSE interval

\* Mutant of Ticks: an interval below zero is not cut off.
TicksUncut(sleep) == IF sleep > Forever THEN Forever ELSE sleep

\* sleep_until a point that has passed returns at once.
Ticks(sleep) == IF sleep < 0 THEN 0
                ELSE IF sleep > Forever THEN Forever ELSE sleep

\* nextSample, from the work in the worker's hand.
Sample(t) ==
  \E n \in SizeSeen(t) :
    LET sleep == Ticks(SleepTime(t, work[t], n))
    IN  /\ due' = [due EXCEPT ![t] = sleep]
        /\ slept' = [slept EXCEPT ![t] = sleep]

-----------------------------------------------------------------------------
(* The nginx thread.                                                       *)

StartLow == /\ mainPc = "starting"
            /\ enable_dual
            /\ Goto("Low", "check")
            /\ mainPc' = "fields"
            /\ UNCHANGED <<naps, nap, due, slept, dataVars, flagVars>>

\* A codec of the low stream cannot be opened: agora_init returns NULL.
CodecFails == /\ mainPc = "starting"
              /\ enable_dual
              /\ mainPc' = "abandoned"
              /\ UNCHANGED <<pc, naps, nap, due, slept, dataVars, flagVars>>

StartSingle == /\ mainPc = "starting"
               /\ ~enable_dual
               /\ mainPc' = "fields"
               /\ UNCHANGED <<pc, naps, nap, due, slept, dataVars, flagVars>>

InitFields == /\ mainPc = "fields"
              /\ isJbBuffering' = FALSE
              /\ slipped' = 0
              /\ reBuffered' = FALSE
              /\ lastTimestamp' = [t \in Paced |-> 0]
              /\ mainPc' = "serving"
              /\ UNCHANGED <<pc, naps, nap, due, slept, queue, work, pill,
                             arrived, handled, lowSent, ctx, enable_dual,
                             isRunning, jb_size, timePerFrameSet>>

\* An RTMP message becomes a Work with the message's timestamp ...
Arrive(t, max, label) ==
  /\ mainPc = "serving"
  /\ arrived[t].id < max
  /\ \E gap \in Gaps :
       arrived' = [arrived EXCEPT ![t] =
                     [id          |-> @.id + 1,
                      timestamp   |-> @.timestamp + gap,
                      is_finished |-> FALSE]]
  /\ mainPc' = label
  /\ UNCHANGED <<pc, naps, nap, due, slept, queue, work, lastTimestamp, pill,
                 handled, lowSent, flagVars>>

SendVideo == Arrive("High", MaxVideo, "addVideo")
SendAudio == Arrive("Audio", MaxAudio, "addAudio")

\* ... and is added to its jitter buffer.
Add(t, label) ==
  /\ mainPc = label
  /\ Push(t, arrived[t])
  /\ mainPc' = "serving"
  /\ UNCHANGED <<pc, naps, nap, due, slept, work, lastTimestamp, pill,
                 arrived, handled, lowSent, flagVars>>

AddVideo == Add("High", "addVideo")
AddAudio == Add("Audio", "addAudio")

\* agora_disconnect, one action for each step that a worker can see.  The
\* work that tells the workers to finish is made without a timestamp.
Disconnect ==
  /\ mainPc = "serving"
  /\ isRunning' = FALSE
  /\ \E garbage \in PillTimestamps :
       pill' = [id |-> 0, timestamp |-> garbage, is_finished |-> TRUE]
  /\ mainPc' = "pillHigh"
  /\ UNCHANGED <<pc, naps, nap, due, slept, queue, work, lastTimestamp,
                 arrived, handled, lowSent, ctx, enable_dual, isJbBuffering,
                 jb_size, timePerFrameSet, reBuffered, slipped>>

\* Mutant of PillHigh: videoJB is emptied as the low queue is.
PillHighClears ==
  /\ mainPc = "pillHigh"
  /\ queue' = [queue EXCEPT !["High"] = <<pill>>]
  /\ mainPc' = IF enable_dual THEN "clearLow" ELSE "pillAudio"
  /\ UNCHANGED <<pc, naps, nap, due, slept, work, lastTimestamp, pill,
                 arrived, handled, lowSent, flagVars>>

PillHigh == /\ mainPc = "pillHigh"
            /\ Push("High", pill)
            /\ mainPc' = IF enable_dual THEN "clearLow" ELSE "pillAudio"
            /\ UNCHANGED <<pc, naps, nap, due, slept, work, lastTimestamp,
                           pill, arrived, handled, lowSent, flagVars>>

\* Mutant of ClearLow: both video queues are emptied.
ClearBoth == /\ mainPc = "clearLow"
             /\ queue' = [queue EXCEPT !["Low"] = <<>>, !["High"] = <<>>]
             /\ mainPc' = "pillLow"
             /\ UNCHANGED <<pc, naps, nap, due, slept, work, lastTimestamp,
                            pill, arrived, handled, lowSent, flagVars>>

ClearLow == /\ mainPc = "clearLow"
            /\ queue' = [queue EXCEPT !["Low"] = <<>>]
            /\ mainPc' = "pillLow"
            /\ UNCHANGED <<pc, naps, nap, due, slept, work, lastTimestamp,
                           pill, arrived, handled, lowSent, flagVars>>

\* Mutant of PillLow: the finished work that High passes on has to do.
PillLowLeftToHigh == /\ mainPc = "pillLow"
                     /\ mainPc' = "pillAudio"
                     /\ UNCHANGED <<pc, naps, nap, due, slept, dataVars,
                                    flagVars>>

PillLow == /\ mainPc = "pillLow"
           /\ Push("Low", pill)
           /\ mainPc' = "pillAudio"
           /\ UNCHANGED <<pc, naps, nap, due, slept, work, lastTimestamp,
                          pill, arrived, handled, lowSent, flagVars>>

PillAudio == /\ mainPc = "pillAudio"
             /\ Push("Audio", pill)
             /\ nap' = [nap EXCEPT !["Main"] = Grace]
             /\ mainPc' = "grace"
             /\ UNCHANGED <<pc, naps, due, slept, work, lastTimestamp, pill,
                            arrived, handled, lowSent, flagVars>>

\* The SDK refuses to disconnect: agora_disconnect returns and keeps it all.
DisconnectFails == /\ mainPc = "grace"
                   /\ nap["Main"] = 0
                   /\ mainPc' = "leaked"
                   /\ UNCHANGED <<pc, naps, nap, due, slept, dataVars,
                                  flagVars>>

TearDown == /\ mainPc = "grace"
            /\ nap["Main"] = 0
            /\ ctx' = "torn"
            /\ queue' = [t \in Workers |-> <<>>]
            /\ mainPc' = "torn"
            /\ UNCHANGED <<pc, naps, nap, due, slept, work, lastTimestamp,
                           pill, arrived, handled, lowSent, enable_dual,
                           isRunning, isJbBuffering, jb_size, timePerFrameSet,
                           reBuffered, slipped>>

Free == /\ mainPc = "torn"
        /\ ctx' = "freed"
        /\ mainPc' = "freed"
        /\ UNCHANGED <<pc, naps, nap, due, slept, dataVars, enable_dual,
                       isRunning, isJbBuffering, jb_size, timePerFrameSet,
                       reBuffered, slipped>>

-----------------------------------------------------------------------------
(* What all workers do: test isRunning, wait for a work, take it, sleep.   *)

Check(t) ==
  /\ At(t, "check")
  /\ Goto(t, IF ~isRunning THEN "done"
             ELSE IF t = "High" THEN "fill" ELSE "wait")
  /\ slept' = [slept EXCEPT ![t] = 0]
  /\ UNCHANGED <<mainPc, naps, nap, due, dataVars, flagVars>>

Wait(t) ==
  /\ At(t, "wait")
  /\ queue[t] # <<>>
  /\ Goto(t, "get")
  /\ UNCHANGED <<mainPc, naps, nap, due, slept, dataVars, flagVars>>

\* get returns the front of the queue, or the null work.
Taken(t) == IF queue[t] = <<>> THEN NullWork ELSE Head(queue[t])

Take(t) ==
  /\ work' = [work EXCEPT ![t] = Taken(t)]
  /\ queue' = IF queue[t] = <<>> THEN queue
              ELSE [queue EXCEPT ![t] = Tail(@)]
  /\ UNCHANGED <<mainPc, naps, nap, due, slept, lastTimestamp, pill, arrived,
                 handled, lowSent, flagVars>>

\* The low video and audio threads test what they got before they use it.
Get(t) ==
  /\ t # "High"
  /\ At(t, "get")
  /\ Take(t)
  /\ Goto(t, IF Taken(t) = NullWork THEN "check"
             ELSE IF Taken(t).is_finished THEN "done"
             ELSE IF t = "Low" THEN "send" ELSE "sample")

\* sleep_until(nextSample) returns.
WakeUp(t) ==
  /\ pc[t] = "sleep"
  /\ due[t] = 0
  /\ work' = [work EXCEPT ![t] = NullWork]
  /\ Goto(t, "check")
  /\ UNCHANGED <<mainPc, naps, nap, due, slept, queue, lastTimestamp, pill,
                 arrived, handled, lowSent, flagVars>>

-----------------------------------------------------------------------------
(* VideoThreadHandlerHigh.                                                 *)

\* CheckAndFillInVideoJb: an empty buffer after a long time without a frame
\* starts a WaitForBuffering.  How long that is depends on predictedFps: here
\* the time test may go either way.
Fill == /\ At("High", "fill")
        /\ \/ /\ queue["High"] = <<>>
              /\ timePerFrameSet' = (mainPc \notin {"starting", "fields"})
              /\ Goto("High", "buffer")
           \/ Goto("High", "wait") /\ UNCHANGED timePerFrameSet
        /\ UNCHANGED <<mainPc, naps, nap, due, slept, dataVars, ctx,
                       enable_dual, isRunning, isJbBuffering, jb_size,
                       reBuffered, slipped>>

\* What WaitForBuffering multiplies with its timePerFrame.  It computes that
\* once: if predictedFps was not set then, the product is anything to the end.
BufferedSeen == IF timePerFrameSet THEN SizeSeen("High") ELSE AnySize

\* Mutant of Buffering: the loop does not look at isRunning.
BufferingOn(n) == naps < MaxIterations /\ n * TimePerFrame < jb_size

\* The loop of WaitForBuffering ...
Buffering(n) == isRunning /\ naps < MaxIterations /\ n * TimePerFrame < jb_size

NapInBuffering ==
  /\ At("High", "buffer")
  /\ nap["High"] = 0
  /\ \E n \in BufferedSeen : Buffering(n)
  /\ isJbBuffering' = TRUE
  /\ naps' = naps + 1
  /\ nap' = [nap EXCEPT !["High"] = 1]
  /\ UNCHANGED <<mainPc, pc, due, slept, dataVars, ctx, enable_dual,
                 isRunning, jb_size, timePerFrameSet, reBuffered, slipped>>

\* Mutant of EndBuffering: only a full buffer resets isJbBuffering.
EndBufferingStillSet ==
  /\ At("High", "buffer")
  /\ nap["High"] = 0
  /\ timePerFrameSet' = TRUE
  /\ \E n \in BufferedSeen :
       /\ ~Buffering(n)
       /\ isJbBuffering' = (isJbBuffering /\ n * TimePerFrame < jb_size)
  /\ naps' = 0
  /\ Goto("High", "wait")
  /\ UNCHANGED <<mainPc, nap, due, slept, dataVars, ctx, enable_dual,
                 isRunning, jb_size, reBuffered, slipped>>

\* ... and what follows it, with ResizeBuffer's test of how long ago the last
\* buffering was left open (JitterBuffer has it, and the width of jb_size).
EndBuffering ==
  /\ At("High", "buffer")
  /\ nap["High"] = 0
  /\ \E n \in BufferedSeen : ~Buffering(n)
  /\ timePerFrameSet' = TRUE
  /\ isJbBuffering' = FALSE
  /\ slipped' = 0
  /\ naps' = 0
  /\ IF jb_size < MaxJbSize
     THEN /\ reBuffered' = TRUE
          /\ \/ reBuffered /\ jb_size' = 2 * jb_size
             \/ UNCHANGED jb_size
     ELSE UNCHANGED <<jb_size, reBuffered>>
  /\ Goto("High", "wait")
  /\ UNCHANGED <<mainPc, nap, due, slept, dataVars, ctx, enable_dual,
                 isRunning>>

GetHigh == /\ At("High", "get")
           /\ Take("High")
           /\ Goto("High", IF enable_dual THEN "addLow" ELSE "sample")

\* Mutant of AddLow: a backlog at Low makes High skip the frame.
AddLowIfIdle ==
  /\ At("High", "addLow")
  /\ IF queue["Low"] = <<>> THEN Push("Low", work["High"]) ELSE UNCHANGED queue
  /\ Goto("High", "sample")
  /\ UNCHANGED <<mainPc, naps, nap, due, slept, work, lastTimestamp, pill,
                 arrived, handled, lowSent, flagVars>>

\* What High takes it passes on to Low, a finished work too.
AddLow == /\ At("High", "addLow")
          /\ Push("Low", work["High"])
          /\ Goto("High", "sample")
          /\ UNCHANGED <<mainPc, naps, nap, due, slept, work, lastTimestamp,
                         pill, arrived, handled, lowSent, flagVars>>

\* nextSample is computed from the work before the work is tested: reading
\* the timestamp of a null work would be undefined.
SampleHigh ==
  /\ At("High", "sample")
  /\ Sample("High")
  /\ Goto("High", IF work["High"] = NullWork THEN "ub"
                  ELSE IF work["High"].is_finished THEN "done" ELSE "send")
  /\ UNCHANGED <<mainPc, naps, nap, dataVars, flagVars>>

\* Mutant of SendHighVideo: lastVideoTimestamp is not kept.
SendHighForgets ==
  /\ At("High", "send")
  /\ handled' = [handled EXCEPT !["High"] = work["High"].id]
  /\ Goto("High", "sleep")
  /\ UNCHANGED <<mainPc, naps, nap, due, slept, queue, work, lastTimestamp,
                 pill, arrived, lowSent, flagVars>>

SendHighVideo ==
  /\ At("High", "send")
  /\ handled' = [handled EXCEPT !["High"] = work["High"].id]
  /\ lastTimestamp' = [lastTimestamp EXCEPT !["High"] = work["High"].timestamp]
  /\ Goto("High", "sleep")
  /\ UNCHANGED <<mainPc, naps, nap, due, slept, queue, work, pill, arrived,
                 lowSent, flagVars>>

(* VideoThreadHandlerLow.                                                  *)

\* Mutant of LeaveOut: a key frame is not let through.
LeaveOutAny(w) == TRUE

\* doSendLowVideo need not encode any frame but a key frame: encodeNextFrame
\* follows from counters that two threads count and a third resets, unlocked
\* (LowStream has them).
LeaveOut(w) == w.id \notin KeyFrames

\* It decodes the frame, and encodes and sends it or leaves it out.
SendLowVideo ==
  /\ At("Low", "send")
  /\ handled' = [handled EXCEPT !["Low"] = work["Low"].id]
  /\ \/ lowSent' = work["Low"].id
     \/ LeaveOut(work["Low"]) /\ UNCHANGED lowSent
  /\ work' = [work EXCEPT !["Low"] = NullWork]
  /\ Goto("Low", "check")
  /\ UNCHANGED <<mainPc, naps, nap, due, slept, queue, lastTimestamp, pill,
                 arrived, flagVars>>

(* AudioThreadHandler.                                                     *)

SampleAudio ==
  /\ At("Audio", "sample")
  /\ Sample("Audio")
  /\ Goto("Audio", "hold")
  /\ UNCHANGED <<mainPc, naps, nap, dataVars, flagVars>>

\* While the video buffers, the audio naps; its nextSample stays what it is.
NapInHold == /\ At("Audio", "hold")
             /\ nap["Audio"] = 0
             /\ isJbBuffering /\ isRunning
             /\ nap' = [nap EXCEPT !["Audio"] = 1]
             /\ UNCHANGED <<mainPc, pc, naps, due, slept, dataVars, flagVars>>

\* Mutant of EndHold: the audio does not wait for the video.
EndHoldAtOnce == /\ At("Audio", "hold")
                 /\ nap["Audio"] = 0
                 /\ Goto("Audio", "send")
                 /\ UNCHANGED <<mainPc, naps, nap, due, slept, dataVars,
                                flagVars>>

EndHold == /\ At("Audio", "hold")
           /\ nap["Audio"] = 0
           /\ ~(isJbBuffering /\ isRunning)
           /\ Goto("Audio", "send")
           /\ UNCHANGED <<mainPc, naps, nap, due, slept, dataVars, flagVars>>

SendAudioFrame ==
  /\ At("Audio", "send")
  /\ handled' = [handled EXCEPT !["Audio"] = work["Audio"].id]
  /\ lastTimestamp' =
       [lastTimestamp EXCEPT !["Audio"] = work["Audio"].timestamp]
  /\ slipped' = IF isJbBuffering THEN slipped + 1 ELSE slipped
  /\ Goto("Audio", "sleep")
  /\ UNCHANGED <<mainPc, naps, nap, due, slept, queue, work, pill, arrived,
                 lowSent, ctx, enable_dual, isRunning, isJbBuffering, jb_size,
                 timePerFrameSet, reBuffered>>

-----------------------------------------------------------------------------
(* Time, and what happens to a worker that outlives its context.           *)

Blocked(t) ==
  \/ pc[t] \in {"unborn", "done", "ub"}
  \/ pc[t] = "wait" /\ queue[t] = <<>>
  \/ pc[t] = "sleep" /\ due[t] > 0
  \/ pc[t] \in {"buffer", "hold"} /\ nap[t] > 0

MainBlocked == \/ mainPc \in {"serving", "abandoned", "leaked", "freed"}
               \/ mainPc = "grace" /\ nap["Main"] > 0

UseAfterFree(t) == /\ Dangling(t)
                   /\ ~Blocked(t)
                   /\ Goto(t, "ub")
                   /\ UNCHANGED <<mainPc, naps, nap, due, slept, dataVars,
                                  flagVars>>

Less(timer) == [t \in DOMAIN timer |-> IF timer[t] > 0 THEN timer[t] - 1 ELSE 0]

Tick == /\ MainBlocked
        /\ \A t \in Workers : Blocked(t)
        /\ \/ \E t \in Workers \cup {"Main"} : nap[t] > 0
           \/ \E t \in Workers : due[t] > 0
        /\ nap' = Less(nap)
        /\ due' = Less(due)
        /\ UNCHANGED <<mainPc, pc, naps, slept, dataVars, flagVars>>

\* Where a session may come to rest: the nginx thread is through and each
\* worker has ended or, if agora_init gave up, sits in waitForWork for good.
Ended == /\ mainPc \in {"abandoned", "leaked", "freed"}
         /\ \A t \in Workers : \/ pc[t] \in {"unborn", "done", "ub"}
                               \/ mainPc = "abandoned" /\ pc[t] = "wait"
         /\ UNCHANGED vars

-----------------------------------------------------------------------------
Main == \/ StartLow \/ CodecFails \/ StartSingle \/ InitFields
        \/ AddVideo \/ AddAudio
        \/ PillHigh \/ ClearLow \/ PillLow \/ PillAudio
        \/ DisconnectFails \/ TearDown \/ Free
Environment == SendVideo \/ SendAudio \/ Disconnect
Worker(t) == Check(t) \/ Wait(t) \/ Get(t) \/ WakeUp(t) \/ UseAfterFree(t)
HighThread  == \/ Fill \/ NapInBuffering \/ EndBuffering \/ GetHigh \/ AddLow
               \/ SampleHigh \/ SendHighVideo
LowThread   == SendLowVideo
AudioThread == SampleAudio \/ NapInHold \/ EndHold \/ SendAudioFrame

Next == \/ Main
        \/ Environment
        \/ \E t \in Workers : Worker(t)
        \/ HighThread \/ LowThread \/ AudioThread
        \/ Tick
        \/ Ended

\* The scheduler runs every thread that can run, and time passes.  Nobody is
\* obliged to send a frame or to end the session.
Fairness == /\ WF_vars(Main)
            /\ WF_vars(Worker("High") \/ HighThread)
            /\ WF_vars(Worker("Low") \/ LowThread)
            /\ WF_vars(Worker("Audio") \/ AudioThread)
            /\ WF_vars(Tick)

Spec     == Init /\ [][Next]_vars
FairSpec == Spec /\ Fairness
-----------------------------------------------------------------------------
(* Properties.                                                             *)

MainLabels == {"starting", "fields", "serving", "addVideo", "addAudio",
               "pillHigh", "clearLow", "pillLow", "pillAudio", "grace",
               "torn", "freed", "leaked", "abandoned"}
Labels == {"unborn", "check", "fill", "buffer", "wait", "get", "addLow",
           "sample", "hold", "send", "sleep", "done", "ub"}

\* Every variable has the type its declaration gives it.
TypeOK == /\ mainPc \in MainLabels
          /\ pc \in [Workers -> Labels]
          /\ ctx \in {"live", "torn", "freed"}
          /\ enable_dual \in BOOLEAN
          /\ isRunning \in BOOLEAN
          /\ isJbBuffering \in BOOLEAN
          /\ queue \in [Workers -> Seq(Work)]
          /\ work \in [Workers -> Work]
          /\ lastTimestamp \in [Paced -> Int]
          /\ jb_size \in Nat
          /\ reBuffered \in BOOLEAN
          /\ naps \in Nat
          /\ timePerFrameSet \in BOOLEAN
          /\ nap \in [Workers \cup {"Main"} -> Nat]
          /\ due \in [Workers -> Nat]
          /\ slept \in [Workers -> Nat]
          /\ pill \in Work
          /\ arrived \in [Paced -> Work]
          /\ handled \in [Workers -> Nat]
          /\ lowSent \in Nat
          /\ slipped \in Nat

\* The frames among some works: all but a finished work at the end.
Frames(works) ==
  IF works # <<>> /\ works[Len(works)].is_finished
  THEN SubSeq(works, 1, Len(works) - 1)
  ELSE works

\* A worker at one of these labels has a work it is not through with.
Holding == {"addLow", "sample", "hold", "send"}
InHand(t) == IF pc[t] \in Holding THEN <<work[t]>> ELSE <<>>

\* What is on its way to a worker, the next one it will handle first.
InFlight(t) == Frames(InHand(t) \o queue[t])

\* The last frame that agora_send_video or agora_send_audio has added.
Submitted(t) ==
  IF \/ t = "High" /\ mainPc = "addVideo"
     \/ t = "Audio" /\ mainPc = "addAudio"
  THEN arrived[t].id - 1 ELSE arrived[t].id

\* The frames first..last, each once, in order.
Exactly(frames, first, last) ==
  /\ Len(frames) = last - first + 1
  /\ \A i \in 1..Len(frames) : /\ frames[i].id = first + i - 1
                                /\ ~frames[i].is_finished

\* No paced frame is lost, repeated or overtaken between the two threads that
\* handle it: what was added and not yet sent is in the worker's hand and in
\* its queue, in order.  The finished work, if there, comes last.
NoFrameLost ==
  \A t \in Paced : ctx = "live" /\ pc[t] # "done"
                   => Exactly(InFlight(t), handled[t] + 1, Submitted(t))

\* While the session runs, Low is handed exactly what High has taken, in
\* order; VideoThreadHandlerHigh hands each work on before it sends it.
TakenByHigh == IF pc["High"] \in {"sample", "send"} THEN work["High"].id
                                                   ELSE handled["High"]
LowFollowsHigh ==
  enable_dual /\ isRunning /\ pc["High"] # "ub"
    => Exactly(InFlight("Low"), handled["Low"] + 1, TakenByHigh)

\* The session relays its frames as MediaRelay says, whatever its threads do:
\* none is accepted once it is stopped, each is sent once and in its turn, and
\* the low stream takes them in turn too, leaves no key frame out while the
\* session runs and never goes back, also when agora_disconnect clears its
\* queue while High goes on adding to it.
Relay == INSTANCE MediaRelay WITH
           Streams <- Paced, Source <- "High", Derived <- "Low",
           running <- isRunning, accepted <- [t \in Paced |-> Submitted(t)],
           sent <- [handled EXCEPT !["Low"] = lowSent],
           decided <- handled["Low"]
RelaySpec == Relay!Spec

\* High reads work->timestamp before it tests the work for null: it must
\* never get a null work.
HighWorkNeverNull == pc["High"] # "ub" \/ ctx = "freed"

\* The context is torn down over no worker but one that still sleeps out a
\* frame's interval, or just has: nobody is waiting on a queue, napping or
\* sending, and the low video thread has ended.
Ending(t) == pc[t] \in {"unborn", "done"}
TornDownOverSleepers ==
  [][ctx = "live" /\ ctx' = "torn"
       => \A t \in Workers :
            \/ Ending(t)
            \/ t \in Paced /\ pc[t] \in {"sleep", "check"}]_vars

\* The two seconds are enough: when the context is freed every worker has
\* ended.
WorkersEndWithinGrace == ctx = "freed" => \A t \in Workers : Ending(t)

\* "sleep until our next frame time" (agorac.cpp:499): a worker sleeps no
\* longer than the interval between two frames.
SleepsUntilNextFrame ==
  \A t \in Paced : pc[t] = "sleep" => \E gap \in Gaps : due[t] <= gap

\* Only the last frame may be paced by anything else: a worker sleeps longer
\* than an interval between two frames only once the session is stopped and no
\* frame is left behind the one it has sent, whatever the timestamps are.
PacedByFrames ==
  \A t \in Paced :
    pc[t] = "sleep" /\ due[t] > 0 /\ (isRunning \/ Frames(queue[t]) # <<>>)
      => \E gap \in Gaps : due[t] <= gap

\* Nothing but such a sleep outlives the context: not a buffering, a hold, a
\* wait or a send, in whatever order the grace period met them.  The first
\* tick of it may go to a nap, and the last needs every worker at its end.
OutlivedBySleepOnly ==
  ctx = "freed" =>
    \A t \in Workers : Ending(t) \/ (t \in Paced /\ slept[t] >= Grace - 1)

\* "when video JB is buffering, audio should buffer too" (agorac.cpp:550):
\* the flag is read before the frame is sent, so one frame of each buffering
\* gets through, and one more when the session stops; never two.
AudioHeldWhileBuffering == slipped <= IF isRunning THEN 1 ELSE 2

\* Every frame that was added is sent, unless the session is stopped.
FramesEventuallySent ==
  \A t \in Paced : \A n \in 1..(IF t = "High" THEN MaxVideo ELSE MaxAudio) :
     Submitted(t) >= n ~> (handled[t] >= n \/ ~isRunning)

\* Once the session is stopped every worker ends, or has run into the freed
\* context: none stays in waitForWork.
WorkersStop == ~isRunning ~> \A t \in Workers : Ending(t) \/ pc[t] = "ub"
=============================================================================
