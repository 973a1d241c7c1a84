------------------------- MODULE AgoraTimingProofs -------------------------
(***************************************************************************)
(* AgoraSession for every configuration, continued: what is said of time.  *)
(*                                                                         *)
(* The audio is held while the video buffers.  A worker sleeps no longer   *)
(* than an interval between two frames, except after the session's last    *)
(* frame: that sleep is computed from the finished work's timestamp, which *)
(* nobody sets.  And only such a sleep, or an interval as long, can outlast*)
(* the grace period: whatever else a worker does when it starts is over    *)
(* when the context is freed.                                              *)
(*                                                                         *)
(* Nothing is assumed of timestamps: the frames' may go back or leap, the  *)
(* finished work's is any number.  The argument follows each frame's       *)
(* timestamp from its arrival to the worker's hand (Clocked), so that a    *)
(* sleep is a difference of two neighbours' or was computed with nothing   *)
(* but the finished work left (SleepBound).                                *)
(***************************************************************************)
EXTENDS AgoraSessionProofs

\* How many audio frames have slipped through, and where the thread is that
\* may let one more through: it has read the flags, but not yet sent.
Slipping ==
  /\ slipped > 0 => isJbBuffering
  /\ isRunning => slipped <= 1 /\ (slipped = 1 => pc["Audio"] # "send")
  /\ ~isRunning => \/ slipped <= 1
                   \/ slipped = 2 /\ pc["Audio"] \in {"sleep", "check", "done", "ub"}

\* Slipping is inductive: the flag is set only by the high thread, which resets
\* the count with it; EndHold leaves only if the flag is down or the session
\* is stopped; and a stopped session's audio thread does not come back to send.
LEMMA SlippingStep ==
  ASSUME IInv, Slipping, [Next]_vars PROVE Slipping'
<1> USE DEF IInv, Slipping, dataVars, flagVars
<1>0. slipped \in Nat /\ "Audio" \in Workers /\ "High" \in Workers
  BY DEF TypeOK, Workers
<1>1. CASE Main \/ Environment
  <2>1. pc'["Audio"] = pc["Audio"]
    BY <1>1, MainFrame DEF TypeOK, Workers
  <2>2. CASE Disconnect
    BY <1>0, <2>1, <2>2 DEF Disconnect, Flags, Running
  <2>3. CASE InitFields
    BY <1>0, <2>1, <2>3 DEF InitFields
  <2>4. CASE ~Disconnect /\ ~InitFields
    <3>1. UNCHANGED <<isRunning, isJbBuffering, slipped>>
      BY <1>1, <2>4 DEF Main, StartLow, CodecFails, StartSingle, AddVideo,
         AddAudio, Add, PillHigh, ClearLow, PillLow, PillAudio, DisconnectFails,
         TearDown, Free, Environment, SendVideo, SendAudio, Arrive
    <3> QED BY <2>1, <3>1
  <2> QED BY <2>2, <2>3, <2>4
<1>2. ASSUME NEW t \in Workers, Worker(t)
      PROVE  Slipping'
  <2>1. UNCHANGED <<isRunning, isJbBuffering, slipped>>
    BY <1>2 DEF Worker, Check, Wait, Get, Take, WakeUp, UseAfterFree
  <2>2. \/ pc'["Audio"] = pc["Audio"]
        \/ /\ pc'["Audio"] # "send"
           /\ ~isRunning /\ pc["Audio"] \in {"sleep", "check", "done", "ub"}
                => pc'["Audio"] \in {"sleep", "check", "done", "ub"}
    BY <1>0, <1>2 DEF Worker, Check, Wait, Get, WakeUp, UseAfterFree, Goto, At,
       TypeOK
  <2> QED BY <1>0, <2>1, <2>2
<1>3. CASE HighThread
  <2>1. pc'["Audio"] = pc["Audio"] /\ isRunning' = isRunning
    BY <1>0, <1>3 DEF HighThread, Fill, NapInBuffering, EndBuffering, GetHigh,
       Take, AddLow, SampleHigh, SendHighVideo, Goto, TypeOK
  <2>2. \/ UNCHANGED <<isJbBuffering, slipped>>
        \/ isJbBuffering' = TRUE /\ slipped' = slipped
        \/ slipped' = 0
    BY <1>3 DEF HighThread, Fill, NapInBuffering, EndBuffering, GetHigh,
       Take, AddLow, SampleHigh, SendHighVideo
  <2> QED BY <1>0, <2>1, <2>2
<1>4. CASE LowThread
  BY <1>0, <1>4 DEF LowThread, SendLowVideo, Goto, TypeOK
<1>5. CASE SampleAudio \/ NapInHold
  BY <1>0, <1>5 DEF SampleAudio, NapInHold, Goto, At, TypeOK
<1>6. CASE EndHold
  <2>1. /\ pc["Audio"] = "hold" /\ pc'["Audio"] = "send"
        /\ ~(isJbBuffering /\ isRunning)
        /\ UNCHANGED <<isRunning, isJbBuffering, slipped>>
    BY <1>0, <1>6 DEF EndHold, Goto, At, TypeOK
  <2>2. CASE isRunning
    <3>1. ~isJbBuffering
      BY <2>1, <2>2
    <3>2. ~(slipped > 0)
      BY <3>1
    <3>3. slipped = 0
      BY <1>0, <3>2
    <3> QED BY <2>1, <2>2, <3>3
  <2>3. CASE ~isRunning
    <3>1. slipped <= 1
      BY <2>1, <2>3
    <3> QED BY <2>1, <2>3, <3>1
  <2> QED BY <2>2, <2>3
<1>7. CASE SendAudioFrame
  BY <1>0, <1>7 DEF SendAudioFrame, Goto, At, TypeOK
<1>8. CASE Tick \/ Ended \/ UNCHANGED vars
  BY <1>8, TickFrame
<1> QED BY <1>1, <1>2, <1>3, <1>4, <1>5, <1>6, <1>7, <1>8
        DEF Next, AudioThread

\* "when video JB is buffering, audio should buffer too": one frame at most
\* gets through a buffering, and one more if the session is stopped in it.
THEOREM AudioIsHeld == Spec => []AudioHeldWhileBuffering
<1>1. Init => Slipping
  BY DEF Init, Slipping
<1>2. IInv /\ Slipping => AudioHeldWhileBuffering
  BY DEF IInv, TypeOK, Slipping, AudioHeldWhileBuffering
<1> QED BY <1>1, <1>2, SlippingStep, Invariance, PTL DEF Spec

-----------------------------------------------------------------------------
(* How long a worker sleeps.                                               *)

\* ts[n] is the timestamp of the frame n of the stream t, wherever it is now.
Clocked(t, ts) ==
  /\ \A n \in Nat : n < arrived[t].id => ts[n + 1] - ts[n] \in Gaps
  /\ arrived[t].timestamp = ts[arrived[t].id]
  /\ lastTimestamp[t] = ts[handled[t]]
  /\ ctx = "live" /\ pc[t] # "done" =>
       /\ HoldsFrame(t) => work[t].timestamp = ts[work[t].id]
       /\ \A i \in 1..Len(queue[t]) :
            ~queue[t][i].is_finished
              => queue[t][i].timestamp = ts[queue[t][i].id]
Stamped == \A t \in Paced : \E ts \in [Nat -> Int] : Clocked(t, ts)

\* Before agora_init is through nothing has arrived.
NothingYet == mainPc \in {"starting", "fields"}
                => \A t \in Paced : lastTimestamp[t] = 0 /\ arrived[t].id = 0

\* No frame is behind the one that t sends, nor will there be one.
Over(t)     == PillAdded(t) \/ mainPc \in {"torn", "freed"}
LastSent(t) == Over(t) /\ Frames(queue[t]) = <<>>

\* The sleep a worker has computed ends within one interval, unless the frame
\* it follows is the last; and no timer exceeds what was computed.
Within(t)  == due[t] = 0 \/ \E gap \in Gaps : due[t] <= gap
Computed(t) == pc[t] \in {"hold", "send", "sleep"}
SleepBound == \A t \in Paced : Computed(t) => Within(t) \/ LastSent(t)
DueWithin  == \A t \in Paced : Computed(t) => due[t] <= slept[t]

TInv == Stamped /\ NothingYet /\ SleepBound /\ DueWithin

\* A shortened interval is no longer than the interval, or than nothing.
LEMMA Shortened ==
  ASSUME NEW i \in Int PROVE /\ (i * 95) \div 100 \in Int
                             /\ i >= 0 => (i * 95) \div 100 <= i
                             /\ i <= 0 => (i * 95) \div 100 <= 0
OBVIOUS

\* Nor do the ticks of a sleep outlast what the sleep does not.
LEMMA TicksBound ==
  ASSUME NEW sleep \in Int, NEW gap \in Int, sleep <= gap \/ sleep <= 0
  PROVE  Ticks(sleep) = 0 \/ Ticks(sleep) <= gap
BY BoundsAssumption DEF Ticks

\* If the finished work is next, it is all there is.
LEMMA FinishIsLast ==
  ASSUME TypeOK, NEW t \in Paced, InTurn(t), queue[t] # <<>>,
         Head(queue[t]).is_finished
  PROVE  PillAdded(t) /\ Frames(queue[t]) = <<>>
<1> DEFINE q == queue[t]
           first == LastTaken(t) + 1
<1>1. /\ q \in Seq(Work) /\ first \in Int /\ Submitted(t) \in Int
      /\ Pills(t) \in {0, 1} /\ Queued(q, first, Submitted(t), Pills(t))
  BY NumbersType DEF InTurn, Pills
<1>2. Pills(t) = 1 /\ Submitted(t) = first - 1
  <2> HIDE DEF q, first
  <2>1. q # <<>> /\ Head(q).is_finished
    BY DEF q
  <2> QED BY <1>1, <2>1, QueuedTake
<1>3. Len(q) = 1
  <2> HIDE DEF q, first
  <2>1. Len(q) = Submitted(t) - first + 1 + Pills(t)
    BY <1>1 DEF Queued
  <2> QED BY <1>1, <1>2, <2>1
<1>4. Frames(q) = <<>>
  <2>1. q[1] = Head(q)
    BY <1>1
  <2>2. Frames(q) = SubSeq(q, 1, 0)
    BY <1>3, <2>1 DEF Frames
  <2> HIDE DEF q
  <2> QED BY <1>1, <2>2
<1> QED BY <1>2, <1>4 DEF Pills

\* The sleep that follows a frame is no longer than an interval between frames,
\* if it is not the last frame.
LEMMA SleepInGaps ==
  ASSUME TypeOK, NEW t \in Paced, InTurn(t), HoldsFrame(t),
         ctx = "live", pc[t] # "done", NEW ts \in [Nat -> Int], Clocked(t, ts),
         NEW n \in Nat, ~LastSent(t)
  PROVE  LET sleep == Ticks(SleepTime(t, work[t], n))
         IN  sleep = 0 \/ \E gap \in Gaps : sleep <= gap
<1>q. queue[t] \in Seq(Work)
  BY NumbersType
<1>0. /\ handled[t] \in Nat /\ Submitted(t) \in Int /\ arrived[t].id \in Nat
      /\ jb_size \in Nat /\ \A gap \in Gaps : gap \in Int
  BY NumbersType, BoundsAssumption DEF TypeOK, Work
<1>1. /\ work[t].id = handled[t] + 1 /\ LastTaken(t) = handled[t] + 1
      /\ Queued(queue[t], handled[t] + 1 + 1, Submitted(t), Pills(t))
      /\ Pills(t) \in {0, 1}
  BY DEF InTurn, LastTaken, Pills
<1>2. handled[t] + 1 <= Submitted(t) /\ Submitted(t) <= arrived[t].id
  <2>1. LastTaken(t) <= Submitted(t)
    BY TakenSubmitted DEF Turn
  <2>2. Submitted(t) <= arrived[t].id
    BY <1>0 DEF Submitted
  <2> QED BY <1>1, <2>1, <2>2
<1>c. /\ \A i \in Nat : i < arrived[t].id => ts[i + 1] - ts[i] \in Gaps
      /\ lastTimestamp[t] = ts[handled[t]] /\ work[t].timestamp = ts[handled[t] + 1]
  BY <1>1 DEF Clocked
<1> DEFINE last == ts[handled[t]]
           this == ts[handled[t] + 1]
<1>3. /\ last \in Int /\ this \in Int /\ this - last \in Gaps
      /\ lastTimestamp[t] = last /\ work[t].timestamp = this
  <2>1. handled[t] < arrived[t].id
    BY <1>0, <1>2
  <2>2. this - last \in Gaps
    BY <1>0, <1>c, <2>1
  <2> QED BY <1>0, <1>c, <2>2
<1> DEFINE next    == IF queue[t] = <<>> THEN work[t].timestamp
                                         ELSE Head(queue[t]).timestamp
           current == IF work[t].timestamp = next THEN lastTimestamp[t]
                                                  ELSE work[t].timestamp
           interval == next - current
<1>4. interval \in Int /\ \E gap \in Gaps : interval <= gap
  <2>1. CASE queue[t] = <<>>
    BY <1>0, <1>3, <2>1
  <2>2. CASE queue[t] # <<>> /\ Head(queue[t]).is_finished
    BY <2>2, FinishIsLast DEF LastSent, Over
  <2>3. CASE queue[t] # <<>> /\ ~Head(queue[t]).is_finished
    <3>1. Head(queue[t]) = queue[t][1] /\ 1 \in 1..Len(queue[t])
      BY <1>q, <2>3
    <3>2. Head(queue[t]).id = handled[t] + 1 + 1
      <4>1. handled[t] + 1 + 1 \in Int /\ Submitted(t) \in Int
        BY <1>0
      <4>2. /\ Queued(queue[t], handled[t] + 1 + 1, Submitted(t), Pills(t))
            /\ Pills(t) \in {0, 1} /\ queue[t] # <<>>
        BY <1>1, <2>3
      <4> QED BY <1>q, <2>3, <4>1, <4>2, QueuedTake
    <3>3. handled[t] + 2 <= Submitted(t)
      <4>1. ~(1 > Submitted(t) - (handled[t] + 1 + 1) + 1)
        BY <1>1, <2>3, <3>1 DEF Queued
      <4> QED BY <1>0, <4>1
    <3>4. Head(queue[t]).timestamp = ts[handled[t] + 2]
      <4>1. handled[t] + 1 + 1 = handled[t] + 2
        BY <1>0
      <4> QED BY <2>3, <3>1, <3>2, <4>1 DEF Clocked
    <3>5. ts[handled[t] + 2] \in Int /\ ts[handled[t] + 2] - this \in Gaps
      <4>1. /\ handled[t] + 1 < arrived[t].id /\ handled[t] + 1 + 1 = handled[t] + 2
            /\ handled[t] + 1 \in Nat
        BY <1>0, <1>2, <3>3
      <4>2. ts[handled[t] + 1 + 1] - ts[handled[t] + 1] \in Gaps
        BY <1>c, <4>1
      <4> QED BY <1>0, <4>1, <4>2
    <3>6. next = ts[handled[t] + 2]
      BY <2>3, <3>4
    <3> HIDE DEF next, last, this
    <3> QED BY <1>0, <1>3, <3>5, <3>6
  <2> QED BY <2>1, <2>2, <2>3
<1>5. SleepTime(t, work[t], n)
        = IF n * interval > jb_size THEN (interval * 95) \div 100 ELSE interval
  BY DEF SleepTime
<1> HIDE DEF interval
<1>6. PICK gap \in Gaps : interval <= gap
  BY <1>4
<1>7. /\ SleepTime(t, work[t], n) \in Int
      /\ SleepTime(t, work[t], n) <= gap \/ SleepTime(t, work[t], n) <= 0
  <2>1. gap \in Int
    BY <1>0
  <2>2. /\ (interval * 95) \div 100 \in Int
        /\ (interval * 95) \div 100 <= interval \/ (interval * 95) \div 100 <= 0
    BY <1>4, Shortened
  <2> DEFINE short == (interval * 95) \div 100
  <2> HIDE DEF short
  <2>3. /\ short \in Int
        /\ short <= interval \/ short <= 0
        /\ SleepTime(t, work[t], n) = short \/ SleepTime(t, work[t], n) = interval
    BY <1>5, <2>2 DEF short
  <2> QED BY <1>4, <1>6, <2>1, <2>3
<1>8. gap \in Int
  BY <1>0
<1> QED BY <1>7, <1>8, TicksBound

\* A step that moves none of a stream's frames.
LEMMA ClockKept ==
  ASSUME NEW t \in Paced, NEW ts, Clocked(t, ts), arrived'[t] = arrived[t],
         lastTimestamp'[t] = lastTimestamp[t], handled'[t] = handled[t],
         queue'[t] = queue[t], ctx' = "live" => ctx = "live",
         pc[t] = "done" => pc'[t] = "done",
         \/ pc'[t] \notin Holding
         \/ pc[t] \in Holding /\ work'[t] = work[t]
  PROVE  Clocked(t, ts)'
BY DEF Clocked, HoldsFrame

\* A frame, or the finished work, is added.
LEMMA ClockPush ==
  ASSUME TypeOK, NEW t \in Paced, NEW ts, Clocked(t, ts), NEW w \in Work,
         Push(t, w), w.is_finished \/ w.timestamp = ts[w.id],
         UNCHANGED <<arrived, lastTimestamp, handled, work, pc, ctx>>
  PROVE  Clocked(t, ts)'
<1>1. queue[t] \in Seq(Work) /\ t \in Workers
  BY NumbersType
<1>2. queue'[t] = Append(queue[t], w)
  BY <1>1 DEF Push, TypeOK
<1>3. \A i \in 1..Len(queue'[t]) :
        queue'[t][i] = w \/ (i \in 1..Len(queue[t]) /\ queue'[t][i] = queue[t][i])
  BY <1>1, <1>2
<1> QED BY <1>3 DEF Clocked, HoldsFrame

\* No frame in a queue is later than the last.
LEMMA QueuedBound ==
  ASSUME NEW q \in Seq(Work), NEW first \in Int, NEW last \in Int,
         NEW pills \in {0, 1}, Queued(q, first, last, pills),
         NEW i \in 1..Len(q), ~q[i].is_finished
  PROVE  q[i].id <= last
<1>1. Len(q) \in Nat
  OBVIOUS
<1>2. ~(i > last - first + 1) /\ q[i].id = first + i - 1
  BY DEF Queued
<1> QED BY <1>1, <1>2

\* The next frame arrives.
LEMMA ClockArrive ==
  ASSUME TypeOK, SentSubmitted, NEW t \in Paced, Turn(t),
         NEW ts \in [Nat -> Int], Clocked(t, ts), NEW gap \in Gaps,
         arrived'[t].id = arrived[t].id + 1,
         arrived'[t].timestamp = arrived[t].timestamp + gap,
         UNCHANGED <<queue, lastTimestamp, handled, work, pc, ctx>>
  PROVE  \E ts2 \in [Nat -> Int] : Clocked(t, ts2)'
<1>1. /\ arrived[t].id \in Nat /\ gap \in Int /\ handled[t] \in Nat
      /\ Submitted(t) \in Int /\ LastTaken(t) \in Nat
  BY NumbersType, BoundsAssumption DEF TypeOK, Work
<1>2. Submitted(t) <= arrived[t].id
  BY <1>1 DEF Submitted
<1> DEFINE next == arrived[t].id + 1
<1>3. next \in Nat /\ ts[arrived[t].id] \in Int
  BY <1>1
<1>4. PICK ts2 \in [Nat -> Int] :
        /\ ts2[next] = ts[arrived[t].id] + gap
        /\ \A n \in Nat : n <= arrived[t].id => ts2[n] = ts[n]
  <2> DEFINE later == [ts EXCEPT ![next] = ts[arrived[t].id] + gap]
  <2>1. /\ later \in [Nat -> Int] /\ later[next] = ts[arrived[t].id] + gap
        /\ \A n \in Nat : n <= arrived[t].id => later[n] = ts[n]
    BY <1>1, <1>3
  <2> HIDE DEF later
  <2> QED BY <2>1
<1>5. \A n \in Nat : n < arrived'[t].id => ts2[n + 1] - ts2[n] \in Gaps
  <2> SUFFICES ASSUME NEW n \in Nat, n < arrived[t].id + 1
               PROVE  ts2[n + 1] - ts2[n] \in Gaps
    OBVIOUS
  <2>1. CASE n < arrived[t].id
    <3>1. n + 1 \in Nat /\ n + 1 <= arrived[t].id /\ n <= arrived[t].id
      BY <1>1, <2>1
    <3>2. ts2[n + 1] = ts[n + 1] /\ ts2[n] = ts[n]
      BY <1>4, <3>1
    <3> QED BY <2>1, <3>2 DEF Clocked
  <2>2. CASE n = arrived[t].id
    <3>1. n + 1 = next /\ ts2[n] = ts[n] /\ ts[n] \in Int
      BY <1>1, <1>4, <2>2
    <3>2. ts2[n + 1] - ts2[n] = gap
      BY <1>1, <1>4, <2>2, <3>1
    <3> QED BY <3>2
  <2> QED BY <1>1, <2>1, <2>2
<1>6. arrived'[t].timestamp = ts2[arrived'[t].id]
  BY <1>4 DEF Clocked
<1>7. lastTimestamp'[t] = ts2[handled'[t]]
  <2>1. handled[t] <= arrived[t].id
    BY <1>1, <1>2 DEF SentSubmitted
  <2> QED BY <1>1, <1>4, <2>1 DEF Clocked
<1>8. ASSUME ctx = "live", pc[t] # "done"
      PROVE  /\ HoldsFrame(t)' => work'[t].timestamp = ts2[work'[t].id]
             /\ \A i \in 1..Len(queue'[t]) :
                  ~queue'[t][i].is_finished
                    => queue'[t][i].timestamp = ts2[queue'[t][i].id]
  <2>1. LastTaken(t) <= Submitted(t)
    BY <1>8, TakenSubmitted
  <2>2. HoldsFrame(t) => work[t].timestamp = ts2[work[t].id]
    <3>1. HoldsFrame(t) => work[t].id = LastTaken(t)
      BY DEF LastTaken
    <3>2. LastTaken(t) <= arrived[t].id
      BY <1>1, <1>2, <2>1
    <3>3. ts2[LastTaken(t)] = ts[LastTaken(t)]
      BY <1>1, <1>4, <3>2
    <3>4. HoldsFrame(t) => work[t].timestamp = ts[work[t].id]
      BY <1>8 DEF Clocked
    <3> QED BY <3>1, <3>3, <3>4
  <2>3. Queued(queue[t], LastTaken(t) + 1, Submitted(t), Pills(t))
    BY <1>8 DEF Turn, InTurn
  <2>4. ASSUME NEW i \in 1..Len(queue[t]), ~queue[t][i].is_finished
        PROVE  queue[t][i].timestamp = ts2[queue[t][i].id]
    <3>1. queue[t][i].id \in Nat
      <4>1. queue[t] \in Seq(Work)
        BY NumbersType
      <4>2. queue[t][i] \in Work
        BY <4>1
      <4> QED BY <4>2 DEF Work
    <3>2. queue[t][i].id <= arrived[t].id
      <4>1. LastTaken(t) + 1 \in Int /\ Pills(t) \in {0, 1}
        BY <1>1 DEF Pills
      <4>2. queue[t][i].id <= Submitted(t)
        BY <1>1, <2>3, <2>4, <4>1, NumbersType, QueuedBound
      <4> DEFINE n == queue[t][i].id
                 m == arrived[t].id
      <4>3. n \in Nat /\ m \in Nat /\ n <= Submitted(t) /\ Submitted(t) <= m
        BY <1>1, <1>2, <3>1, <4>2
      <4> HIDE DEF n, m
      <4>4. n <= m
        BY <1>1, <4>3
      <4> QED BY <4>4 DEF n, m
    <3>3. ts2[queue[t][i].id] = ts[queue[t][i].id]
      BY <1>4, <3>1, <3>2
    <3> QED BY <1>8, <2>4, <3>3 DEF Clocked
  <2> QED BY <2>2, <2>4 DEF HoldsFrame
<1>9. Clocked(t, ts2)'
  BY <1>5, <1>6, <1>7, <1>8 DEF Clocked
<1> QED BY <1>4, <1>9

\* A worker takes the next work.
LEMMA ClockTake ==
  ASSUME TypeOK, NEW t \in Paced, NEW ts, Clocked(t, ts), Take(t),
         pc[t] # "done", queue[t] # <<>>
  PROVE  Clocked(t, ts)'
<1>1. t \in Workers
  BY NumbersType
<1>2. /\ work'[t] = queue[t][1] /\ Len(queue[t]) > 0
      /\ Len(queue'[t]) = Len(queue[t]) - 1
      /\ \A i \in 1..Len(queue'[t]) : queue'[t][i] = queue[t][i + 1]
  BY <1>1, TakeMoves
<1>3. Len(queue[t]) \in Nat
  <2>1. queue[t] \in Seq(Work)
    BY NumbersType
  <2> QED BY <2>1
<1>4. /\ 1 \in 1..Len(queue[t])
      /\ \A i \in 1..Len(queue'[t]) : i + 1 \in 1..Len(queue[t])
  BY <1>2, <1>3
<1>5. UNCHANGED <<arrived, lastTimestamp, handled, ctx>>
  BY DEF Take, flagVars
<1> QED BY <1>2, <1>4, <1>5 DEF Clocked, HoldsFrame

\* A worker sends the frame in its hand.
LEMMA ClockSend ==
  ASSUME NEW t \in Paced, NEW ts, Clocked(t, ts), ctx = "live", ctx' = ctx,
         HoldsFrame(t), pc'[t] = "sleep", pc[t] # "done", queue' = queue,
         arrived' = arrived, handled'[t] = work[t].id,
         lastTimestamp'[t] = work[t].timestamp
  PROVE  Clocked(t, ts)'
BY DEF Clocked, HoldsFrame, Holding

\* The timestamps of the frames stay what they are wherever the frames go: in
\* the steps of the nginx thread ...
LEMMA StampedMain ==
  ASSUME IInv, RInv, TInv, Main \/ Environment PROVE Stamped'
<1> USE DEF dataVars, flagVars
<1> SUFFICES ASSUME NEW t \in Paced PROVE \E ts \in [Nat -> Int] : Clocked(t, ts)'
  BY DEF Stamped
<1>0. /\ TypeOK /\ Turn(t) /\ t \in Workers /\ t # "Low" /\ t \in {"High", "Audio"}
      /\ work' = work /\ pc'[t] = pc[t]
  BY MainFrame DEF IInv, RInv, PacedInTurn, Paced, Workers, TypeOK
<1>1. PICK ts \in [Nat -> Int] : Clocked(t, ts)
  BY DEF TInv, Stamped
<1>2. ASSUME arrived'[t] = arrived[t], lastTimestamp'[t] = lastTimestamp[t],
             handled'[t] = handled[t], queue'[t] = queue[t],
             ctx' = "live" => ctx = "live"
      PROVE  Clocked(t, ts)'
  BY <1>0, <1>1, <1>2, ClockKept
<1>3. ASSUME NEW w \in Work, Push(t, w),
             w.is_finished \/ w.timestamp = ts[w.id],
             UNCHANGED <<arrived, lastTimestamp, handled, pc, ctx>>
      PROVE  Clocked(t, ts)'
  BY <1>0, <1>1, <1>3, ClockPush
<1>4. /\ arrived[t] \in Work /\ pill \in Work
      /\ ~arrived[t].is_finished /\ arrived[t].timestamp = ts[arrived[t].id]
  BY <1>0, <1>1 DEF Clocked, RInv, FramesArrive, TypeOK
<1>5. CASE AddVideo \/ AddAudio
  <2>1. PICK u \in Paced : Push(u, arrived[u])
    BY <1>5 DEF AddVideo, AddAudio, Add, Paced
  <2>2. UNCHANGED <<arrived, lastTimestamp, handled, pc, ctx>>
    BY <1>5 DEF AddVideo, AddAudio, Add
  <2>3. CASE u = t
    BY <1>3, <1>4, <2>1, <2>2, <2>3
  <2>4. CASE u # t
    <3>1. queue'[t] = queue[t]
      BY <1>0, <2>1, <2>4 DEF Push, TypeOK
    <3> QED BY <1>2, <2>2, <3>1
  <2> QED BY <2>3, <2>4
<1>6. CASE PillHigh \/ PillLow \/ PillAudio
  <2>1. PICK u \in Workers : Push(u, pill)
    BY <1>6 DEF PillHigh, PillLow, PillAudio, Workers
  <2>2. /\ UNCHANGED <<arrived, lastTimestamp, handled, pc, ctx>>
        /\ u = t => pill.is_finished
    <3>1. UNCHANGED <<arrived, lastTimestamp, handled, pc, ctx>>
      BY <1>6 DEF PillHigh, PillLow, PillAudio
    <3>2. pill.is_finished
      BY <1>6 DEF PillHigh, PillLow, PillAudio, IInv, Inputs
    <3> QED BY <3>1, <3>2
  <2>3. CASE u = t
    BY <1>3, <1>4, <2>1, <2>2, <2>3
  <2>4. CASE u # t
    <3>1. queue'[t] = queue[t]
      BY <1>0, <2>1, <2>4 DEF Push, TypeOK
    <3> QED BY <1>2, <2>2, <3>1
  <2> QED BY <2>3, <2>4
<1>7. CASE InitFields
  <2>1. lastTimestamp[t] = 0 /\ lastTimestamp'[t] = 0
    BY <1>7 DEF InitFields, TInv, NothingYet
  <2> QED BY <1>2, <1>7, <2>1 DEF InitFields
<1>8. CASE ClearLow
  <2>1. queue'[t] = queue[t]
    BY <1>0, <1>8 DEF ClearLow, TypeOK
  <2> QED BY <1>2, <1>8, <2>1 DEF ClearLow
<1>9. CASE TearDown
  <2>1. /\ ctx' # "live" /\ UNCHANGED <<arrived, lastTimestamp, handled>>
    BY <1>9 DEF TearDown
  <2>2. Clocked(t, ts)'
    BY <1>1, <2>1 DEF Clocked
  <2> QED BY <2>2
<1>10. CASE \/ StartLow \/ CodecFails \/ StartSingle \/ DisconnectFails \/ Free
            \/ Disconnect
  BY <1>2, <1>10 DEF StartLow, CodecFails, StartSingle, DisconnectFails, Free,
     Disconnect
<1>11. CASE SendVideo \/ SendAudio
  <2>1. PICK u \in Paced : \E max, label : Arrive(u, max, label)
    BY <1>11 DEF SendVideo, SendAudio, Paced
  <2>2. PICK gap \in Gaps :
          arrived' = [arrived EXCEPT ![u] = [id          |-> @.id + 1,
                                             timestamp   |-> @.timestamp + gap,
                                             is_finished |-> FALSE]]
    BY <2>1 DEF Arrive
  <2>3. UNCHANGED <<queue, lastTimestamp, handled, work, pc, ctx>>
    BY <2>1 DEF Arrive
  <2>4. CASE u = t
    <3>1. /\ arrived'[t].id = arrived[t].id + 1
          /\ arrived'[t].timestamp = arrived[t].timestamp + gap
      BY <1>0, <2>2, <2>4 DEF TypeOK
    <3> QED BY <1>0, <1>1, <2>3, <3>1, ClockArrive DEF RInv
  <2>5. CASE u # t
    <3>1. arrived'[t] = arrived[t]
      BY <1>0, <2>2, <2>5 DEF TypeOK
    <3> QED BY <1>2, <2>3, <3>1
  <2> QED BY <2>4, <2>5
<1> QED BY <1>5, <1>6, <1>7, <1>8, <1>9, <1>10, <1>11 DEF Main, Environment

\* ... and of the workers.
LEMMA StampedWorker ==
  ASSUME IInv, RInv, TInv, WorkerStep PROVE Stamped'
<1> USE DEF dataVars, flagVars
<1> SUFFICES ASSUME NEW t \in Paced PROVE \E ts \in [Nat -> Int] : Clocked(t, ts)'
  BY DEF Stamped
<1>0. /\ TypeOK /\ Turn(t) /\ t \in Workers /\ t # "Low" /\ t \in {"High", "Audio"}
      /\ "High" \in Workers /\ "Low" \in Workers /\ "Audio" \in Workers
      /\ arrived' = arrived /\ ctx' = ctx
  BY WorkerFrame DEF IInv, RInv, PacedInTurn, Paced, Workers
<1>1. PICK ts \in [Nat -> Int] : Clocked(t, ts)
  BY DEF TInv, Stamped
<1>2. ASSUME lastTimestamp'[t] = lastTimestamp[t], handled'[t] = handled[t],
             queue'[t] = queue[t], pc[t] = "done" => pc'[t] = "done",
             \/ pc'[t] \notin Holding
             \/ pc[t] \in Holding /\ work'[t] = work[t]
      PROVE  Clocked(t, ts)'
  BY <1>0, <1>1, <1>2, ClockKept
<1>3. ASSUME lastTimestamp'[t] = lastTimestamp[t], handled'[t] = handled[t],
             queue'[t] = queue[t], pc'[t] = pc[t], work'[t] = work[t]
      PROVE  Clocked(t, ts)'
  BY <1>2, <1>3
<1>4. ASSUME Take(t), pc[t] = "get", pc'[t] \in Labels,
             queue[t] = <<>> => pc'[t] \notin Holding \/ ctx # "live"
      PROVE  Clocked(t, ts)'
  <2>1. CASE queue[t] # <<>>
    BY <1>0, <1>1, <1>4, <2>1, ClockTake
  <2>2. CASE queue[t] = <<>> /\ ctx = "live"
    BY <1>2, <1>4, <2>2 DEF Take
  <2>3. CASE ctx # "live"
    <3>1. UNCHANGED <<lastTimestamp, handled>>
      BY <1>4 DEF Take
    <3>2. Clocked(t, ts)'
      BY <1>0, <1>1, <2>3, <3>1 DEF Clocked
    <3> QED BY <3>2
  <2> QED BY <2>1, <2>2, <2>3
<1>5. ASSUME ctx = "live", pc[t] = "send", pc'[t] = "sleep", queue' = queue,
             handled'[t] = work[t].id, lastTimestamp'[t] = work[t].timestamp
      PROVE  Clocked(t, ts)'
  <2>1. HoldsFrame(t)
    BY <1>0, <1>5 DEF Turn, InTurn, HoldsFrame, HoldsFinish, Holding
  <2> QED BY <1>0, <1>1, <1>5, <2>1, ClockSend
<1>6. ASSUME NEW u \in Workers, Worker(u)
      PROVE  Clocked(t, ts)'
  <2>1. CASE Check(u) \/ Wait(u) \/ WakeUp(u)
    <3>1. UNCHANGED <<queue, handled, lastTimestamp>>
      BY <2>1 DEF Check, Wait, WakeUp
    <3>2. u = t => pc'[t] \notin Holding /\ pc[t] # "done"
      BY <1>0, <2>1 DEF Check, Wait, WakeUp, Goto, At, TypeOK, Holding
    <3>3. u # t => pc'[t] = pc[t] /\ work'[t] = work[t]
      BY <1>0, <2>1 DEF Check, Wait, WakeUp, Goto, TypeOK
    <3> QED BY <1>2, <1>3, <3>1, <3>2, <3>3
  <2>2. CASE Get(u)
    <3>1. CASE u = t
      <4>1. Take(t) /\ pc[t] = "get" /\ pc'[t] \in Labels
        BY <1>0, <2>2, <3>1 DEF Get, At, Goto, TypeOK, Labels
      <4>2. queue[t] = <<>> => pc'[t] \notin Holding
        BY <1>0, <2>2, <3>1 DEF Get, Taken, Goto, TypeOK, Holding, NullWork
      <4> QED BY <1>4, <4>1, <4>2
    <3>2. CASE u # t
      BY <1>0, <1>3, <2>2, <3>2, TakeFrame DEF Get, Take, Goto, TypeOK
    <3> QED BY <3>1, <3>2
  <2>3. CASE UseAfterFree(u)
    <3>1. UNCHANGED <<lastTimestamp, handled>> /\ ctx # "live"
      BY <2>3 DEF UseAfterFree, Dangling
    <3> QED BY <1>0, <1>1, <3>1 DEF Clocked
  <2> QED BY <1>6, <2>1, <2>2, <2>3 DEF Worker
<1>7. CASE Fill \/ NapInBuffering \/ EndBuffering \/ AddLow \/ SampleHigh
  <2>1. UNCHANGED <<handled, lastTimestamp, work>> /\ queue'[t] = queue[t]
    BY <1>0, <1>7 DEF Fill, NapInBuffering, EndBuffering, AddLow, SampleHigh,
       Push, TypeOK
  <2>2. t = "High" => pc[t] # "done" /\ (pc'[t] \in Holding => pc[t] \in Holding)
    BY <1>0, <1>7 DEF Fill, NapInBuffering, EndBuffering, AddLow, SampleHigh, Goto,
       At, TypeOK, Holding
  <2>3. t # "High" => pc'[t] = pc[t]
    BY <1>0, <1>7 DEF Fill, NapInBuffering, EndBuffering, AddLow, SampleHigh, Goto,
       TypeOK
  <2> QED BY <1>2, <1>3, <2>1, <2>2, <2>3
<1>8. CASE GetHigh
  <2>1. CASE t = "High"
    <3>1. Take(t) /\ pc[t] = "get" /\ pc'[t] \in Labels
      BY <1>0, <1>8, <2>1 DEF GetHigh, At, Goto, TypeOK, Labels
    <3>2. queue[t] = <<>> => ctx # "live"
      BY <2>1, <3>1 DEF IInv, NoNullWork
    <3> QED BY <1>4, <3>1, <3>2
  <2>2. CASE t # "High"
    BY <1>0, <1>3, <1>8, <2>2, TakeFrame DEF GetHigh, Take, Goto, TypeOK
  <2> QED BY <2>1, <2>2
<1>9. CASE SendHighVideo
  <2>1. CASE t = "High"
    <3>1. ctx = "live"
      BY <1>9 DEF SendHighVideo, At, Dangling, FlagsOnly, IInv, Flags
    <3> QED BY <1>0, <1>5, <1>9, <2>1, <3>1
            DEF SendHighVideo, At, Goto, TypeOK
  <2>2. CASE t # "High"
    BY <1>0, <1>3, <1>9, <2>2 DEF SendHighVideo, Goto, TypeOK
  <2> QED BY <2>1, <2>2
<1>10. CASE LowThread
  BY <1>0, <1>3, <1>10 DEF LowThread, SendLowVideo, Goto, TypeOK
<1>11. CASE SampleAudio \/ NapInHold \/ EndHold
  <2>1. UNCHANGED <<queue, handled, lastTimestamp, work>>
    BY <1>11 DEF SampleAudio, NapInHold, EndHold
  <2>2. t = "Audio" => pc[t] # "done" /\ pc[t] \in Holding
    BY <1>0, <1>11 DEF SampleAudio, NapInHold, EndHold, At, Holding
  <2>3. t # "Audio" => pc'[t] = pc[t]
    BY <1>0, <1>11 DEF SampleAudio, NapInHold, EndHold, Goto, TypeOK
  <2> QED BY <1>2, <1>3, <2>1, <2>2, <2>3
<1>12. CASE SendAudioFrame
  <2>1. CASE t = "Audio"
    <3>1. ctx = "live"
      BY <1>12 DEF SendAudioFrame, At, Dangling, FlagsOnly, IInv, Flags
    <3> QED BY <1>0, <1>5, <1>12, <2>1, <3>1
            DEF SendAudioFrame, At, Goto, TypeOK
  <2>2. CASE t # "Audio"
    BY <1>0, <1>3, <1>12, <2>2 DEF SendAudioFrame, Goto, TypeOK
  <2> QED BY <2>1, <2>2
<1> QED BY <1>6, <1>7, <1>8, <1>9, <1>10, <1>11, <1>12
        DEF WorkerStep, HighThread, AudioThread

\* A worker that is about to send holds the next frame, and that has arrived.
LEMMA SenderHolds ==
  ASSUME IInv, RInv, NEW t \in Paced, pc[t] = "send", ~Dangling(t)
  PROVE  /\ ctx = "live" /\ HoldsFrame(t) /\ InTurn(t)
         /\ handled[t] + 1 <= arrived[t].id
<1>1. ctx = "live"
  BY DEF Dangling, FlagsOnly, IInv, Flags
<1>2. Turn(t) /\ pc[t] # "done"
  BY DEF RInv, PacedInTurn
<1>3. InTurn(t) /\ HoldsFrame(t)
  BY <1>1, <1>2 DEF Turn, InTurn, HoldsFrame, HoldsFinish, Holding
<1>4. LastTaken(t) = handled[t] + 1
  BY <1>3 DEF InTurn, LastTaken
<1>5. LastTaken(t) <= Submitted(t)
  BY <1>1, <1>2, TakenSubmitted DEF IInv
<1>6. Submitted(t) <= arrived[t].id
  <2>1. arrived[t].id \in Nat
    BY DEF IInv, TypeOK, Work
  <2> QED BY <2>1 DEF Submitted
<1>7. handled[t] \in Nat /\ Submitted(t) \in Int /\ arrived[t].id \in Nat
  BY NumbersType DEF IInv, TypeOK, Work
<1> QED BY <1>1, <1>3, <1>4, <1>5, <1>6, <1>7

\* A worker's step changes a stream's last timestamp only by sending.
LEMMA WorkerStamps ==
  ASSUME TypeOK, WorkerStep, NEW t \in Paced
  PROVE  lastTimestamp'[t] = lastTimestamp[t] \/ (pc[t] = "send" /\ ~Dangling(t))
<1>1. ASSUME NEW u \in Workers, Worker(u)
      PROVE  lastTimestamp' = lastTimestamp
  BY <1>1 DEF Worker, Check, Wait, Get, Take, WakeUp, UseAfterFree, dataVars
<1>2. CASE HighThread /\ ~SendHighVideo
  BY <1>2 DEF HighThread, Fill, NapInBuffering, EndBuffering, GetHigh, Take,
     AddLow, SampleHigh, dataVars
<1>3. CASE SendHighVideo
  BY <1>3 DEF SendHighVideo, At, TypeOK
<1>4. CASE LowThread \/ (AudioThread /\ ~SendAudioFrame)
  BY <1>4 DEF LowThread, SendLowVideo, AudioThread, SampleAudio, NapInHold,
     EndHold, dataVars
<1>5. CASE SendAudioFrame
  BY <1>5 DEF SendAudioFrame, At, TypeOK
<1> QED BY <1>1, <1>2, <1>3, <1>4, <1>5 DEF WorkerStep

\* Before agora_init is through nothing arrives, so nothing is sent.
LEMMA NothingYetStep ==
  ASSUME IInv, RInv, NothingYet, [Next]_vars PROVE NothingYet'
<1> SUFFICES ASSUME mainPc' \in {"starting", "fields"}, NEW t \in Paced
             PROVE  lastTimestamp'[t] = 0 /\ arrived'[t].id = 0
  BY DEF NothingYet
<1>1. CASE Main \/ Environment
  <2>1. CASE StartLow \/ StartSingle
    BY <2>1 DEF StartLow, StartSingle, dataVars, NothingYet
  <2>2. CASE ~StartLow /\ ~StartSingle
    BY <1>1, <2>2 DEF Main, CodecFails, InitFields, AddVideo,
       AddAudio, Add, PillHigh, ClearLow, PillLow, PillAudio, DisconnectFails,
       TearDown, Free, Environment, SendVideo, SendAudio, Arrive, Disconnect
  <2> QED BY <2>1, <2>2
<1>2. CASE WorkerStep
  <2>1. lastTimestamp[t] = 0 /\ arrived[t].id = 0 /\ arrived' = arrived
    BY <1>2, WorkerFrame DEF NothingYet
  <2>2. ~(pc[t] = "send" /\ ~Dangling(t))
    <3>1. handled[t] \in Nat
      BY NumbersType DEF IInv
    <3> QED BY <2>1, <3>1, SenderHolds
  <2> QED BY <1>2, <2>1, <2>2, WorkerStamps DEF IInv
<1>3. CASE Tick \/ Ended \/ UNCHANGED vars
  BY <1>3, TickFrame DEF dataVars, NothingYet
<1> QED BY <1>1, <1>2, <1>3 DEF Next, WorkerStep

\* A tick takes one off every timer that runs.
LEMMA TickCounts ==
  ASSUME IInv, Tick
  PROVE  /\ \A t \in Workers : due'[t] = IF due[t] > 0 THEN due[t] - 1 ELSE 0
         /\ nap'["Main"] = IF nap["Main"] > 0 THEN nap["Main"] - 1 ELSE 0
<1>1. DOMAIN due = Workers /\ DOMAIN nap = Workers \cup {"Main"}
  BY DEF IInv, TypeOK
<1> QED BY <1>1 DEF Tick, Less

\* What the nginx thread does leaves every timer of a worker alone, and adds
\* nothing behind the last frame.
LEMMA TimersMain ==
  ASSUME IInv, Main \/ Environment, NEW t \in Paced
  PROVE  /\ pc'[t] = pc[t] /\ due' = due /\ slept' = slept
         /\ LastSent(t) => LastSent(t)'
<1> USE DEF dataVars, flagVars
<1>0. TypeOK /\ t \in Workers /\ t # "Low" /\ t \in {"High", "Audio"}
  BY DEF IInv, Paced, Workers
<1>1. pc'[t] = pc[t]
  BY <1>0, MainFrame DEF TypeOK, Workers
<1>2. due' = due /\ slept' = slept
  BY DEF Main, StartLow, CodecFails, StartSingle, InitFields, AddVideo,
     AddAudio, Add, PillHigh, ClearLow, PillLow, PillAudio, DisconnectFails,
     TearDown, Free, Environment, SendVideo, SendAudio, Arrive, Disconnect
<1>3. ASSUME Over(t)
      PROVE  Over(t)' /\ (queue'[t] = queue[t] \/ queue'[t] = <<>>)
  <2> USE DEF Over, PillAdded, Told
  <2>1. CASE TearDown
    BY <1>0, <2>1 DEF TearDown
  <2>2. CASE ClearLow
    BY <1>0, <1>3, <2>2 DEF ClearLow, TypeOK
  <2>3. CASE PillLow
    BY <1>0, <1>3, <2>3 DEF PillLow, Push, TypeOK
  <2>4. CASE PillAudio
    BY <1>0, <1>3, <2>4 DEF PillAudio, Push, TypeOK
  <2>5. CASE DisconnectFails \/ Free
    BY <1>0, <1>3, <2>5 DEF DisconnectFails, Free
  <2>6. CASE ~TearDown /\ ~ClearLow /\ ~PillLow /\ ~PillAudio
             /\ ~DisconnectFails /\ ~Free
    <3>1. mainPc \in {"starting", "fields", "serving", "addVideo", "addAudio",
                      "pillHigh"}
      BY <2>6 DEF Main, StartLow, CodecFails, StartSingle, InitFields, AddVideo,
         AddAudio, Add, PillHigh, Environment, SendVideo, SendAudio, Arrive,
         Disconnect
    <3> QED BY <1>0, <1>3, <3>1
  <2> QED BY <2>1, <2>2, <2>3, <2>4, <2>5, <2>6
<1>4. Frames(<<>>) = <<>>
  BY DEF Frames
<1> QED BY <1>1, <1>2, <1>3, <1>4 DEF LastSent

\* A worker's sleep is computed from the work in its hand; no other step of a
\* worker moves a timer up, or takes anything behind its back.
LEMMA TimersWorker ==
  ASSUME IInv, RInv, WorkerStep, NEW t \in Paced, Computed(t)'
  PROVE  \/ /\ pc[t] = "sample" /\ Sample(t) /\ HoldsFrame(t) /\ ctx = "live"
            /\ queue'[t] = queue[t] /\ mainPc' = mainPc
         \/ /\ Computed(t) /\ due'[t] = due[t] /\ slept'[t] = slept[t]
            /\ queue'[t] = queue[t] /\ mainPc' = mainPc
<1> USE DEF dataVars, flagVars
<1>0. /\ TypeOK /\ t \in Workers /\ t # "Low" /\ t \in {"High", "Audio"}
      /\ "High" \in Workers /\ "Low" \in Workers /\ "Audio" \in Workers
      /\ mainPc' = mainPc
  BY WorkerFrame DEF IInv, Paced, Workers
<1>1. ASSUME NEW u \in Workers, Worker(u)
      PROVE  /\ Computed(t) /\ due'[t] = due[t] /\ slept'[t] = slept[t]
             /\ queue'[t] = queue[t]
  <2>1. due' = due /\ (u # t => slept'[t] = slept[t] /\ queue'[t] = queue[t])
    BY <1>0, <1>1 DEF Worker, Check, Wait, Get, Take, WakeUp, UseAfterFree, TypeOK
  <2>2. pc'[t] = pc[t] \/ u = t
    BY <1>0, <1>1 DEF Worker, Check, Wait, Get, WakeUp, UseAfterFree, Goto, TypeOK
  <2>3. u # t
    BY <1>0, <1>1 DEF Worker, Check, Wait, Get, WakeUp, UseAfterFree,
       Goto, At, TypeOK, Computed
  <2> QED BY <2>1, <2>2, <2>3 DEF Computed
<1>2. CASE HighThread /\ ~SampleHigh
  <2>1. due' = due /\ slept' = slept
    BY <1>2 DEF HighThread, Fill, NapInBuffering, EndBuffering, GetHigh,
       Take, AddLow, SendHighVideo
  <2>2. CASE t = "High"
    BY <1>0, <1>2, <2>1, <2>2 DEF HighThread, Fill, NapInBuffering, EndBuffering,
       GetHigh, Take, AddLow, SendHighVideo, Goto, At, TypeOK, Computed
  <2>3. CASE t # "High"
    <3>1. pc'[t] = pc[t]
      BY <1>0, <1>2, <2>3 DEF HighThread, Fill, NapInBuffering, EndBuffering,
         GetHigh, Take, AddLow, SendHighVideo, Goto, TypeOK
    <3>2. queue'[t] = queue[t]
      BY <1>0, <1>2, <2>3 DEF HighThread, Fill, NapInBuffering, EndBuffering,
         GetHigh, Take, AddLow, Push, SendHighVideo, TypeOK
    <3> QED BY <1>0, <2>1, <3>1, <3>2 DEF Computed
  <2> QED BY <2>2, <2>3
<1>3. ASSUME NEW u \in Paced, Sample(u)
      PROVE  u # t => due'[t] = due[t] /\ slept'[t] = slept[t]
  BY <1>0, <1>3 DEF Sample, TypeOK
<1>4. CASE SampleHigh
  <2>1. CASE t = "High"
    <3>1. pc[t] = "sample" /\ ~Dangling(t) /\ Sample(t) /\ queue' = queue
      BY <1>4, <2>1 DEF SampleHigh, At
    <3>2. ctx = "live"
      BY <3>1 DEF Dangling, FlagsOnly, IInv, Flags
    <3>3. ~work[t].is_finished
      BY <1>0, <1>4, <2>1 DEF SampleHigh, Goto, TypeOK, Computed
    <3> QED BY <1>0, <3>1, <3>2, <3>3 DEF HoldsFrame, Holding
  <2>2. CASE t # "High"
    <3>1. pc'[t] = pc[t] /\ queue' = queue /\ Sample("High") /\ "High" \in Paced
      BY <1>0, <1>4, <2>2 DEF SampleHigh, Goto, TypeOK, Paced
    <3> QED BY <1>0, <1>3, <2>2, <3>1 DEF Computed
  <2> QED BY <2>1, <2>2
<1>5. CASE LowThread
  BY <1>0, <1>5 DEF LowThread, SendLowVideo, Goto, TypeOK, Computed
<1>6. CASE SampleAudio
  <2>1. CASE t = "Audio"
    <3>1. pc[t] = "sample" /\ ~Dangling(t) /\ Sample(t) /\ queue' = queue
      BY <1>6, <2>1 DEF SampleAudio, At
    <3>2. ctx = "live"
      BY <3>1 DEF Dangling, FlagsOnly, IInv, Flags
    <3>3. HoldsFrame(t)
      <4>1. Turn(t) /\ pc[t] # "done"
        BY <3>1 DEF RInv, PacedInTurn
      <4> QED BY <2>1, <3>1, <3>2, <4>1
              DEF Turn, InTurn, HoldsFrame, HoldsFinish, Holding
    <3> QED BY <1>0, <3>1, <3>2, <3>3
  <2>2. CASE t # "Audio"
    <3>1. pc'[t] = pc[t] /\ queue' = queue /\ Sample("Audio") /\ "Audio" \in Paced
      BY <1>0, <1>6, <2>2 DEF SampleAudio, Goto, TypeOK, Paced
    <3> QED BY <1>0, <1>3, <2>2, <3>1 DEF Computed
  <2> QED BY <2>1, <2>2
<1>7. CASE NapInHold \/ EndHold \/ SendAudioFrame
  BY <1>0, <1>7 DEF NapInHold, EndHold, SendAudioFrame, Goto, At, TypeOK, Computed
<1> QED BY <1>0, <1>1, <1>2, <1>4, <1>5, <1>6, <1>7
        DEF WorkerStep, AudioThread

\* The bounds on a worker's sleep hold when it computes it, and go on to hold
\* while the sleep runs down.
LEMMA SleepStep ==
  ASSUME IInv, RInv, TInv, [Next]_vars PROVE SleepBound' /\ DueWithin'
<1> SUFFICES ASSUME NEW t \in Paced, Computed(t)'
             PROVE  (Within(t) \/ LastSent(t))' /\ due'[t] <= slept'[t]
  BY DEF SleepBound, DueWithin
<1>0. TypeOK /\ t \in Workers
  BY DEF IInv, Paced, Workers
<1>1. ASSUME Computed(t)
      PROVE  (Within(t) \/ LastSent(t)) /\ due[t] <= slept[t]
  BY <1>1 DEF TInv, SleepBound, DueWithin
<1>2. CASE Main \/ Environment
  <2>1. /\ pc'[t] = pc[t] /\ due' = due /\ slept' = slept
        /\ LastSent(t) => LastSent(t)'
    BY <1>2, TimersMain
  <2> QED BY <1>1, <2>1 DEF Computed, Within
<1>3. CASE WorkerStep
  <2>1. CASE /\ Computed(t) /\ due'[t] = due[t] /\ slept'[t] = slept[t]
             /\ queue'[t] = queue[t] /\ mainPc' = mainPc
    BY <1>1, <2>1 DEF Within, LastSent, Over, PillAdded, Told
  <2>2. CASE /\ pc[t] = "sample" /\ Sample(t) /\ HoldsFrame(t) /\ ctx = "live"
             /\ queue'[t] = queue[t] /\ mainPc' = mainPc
    <3>1. PICK n \in SizeSeen(t) :
            /\ due' = [due EXCEPT ![t] = Ticks(SleepTime(t, work[t], n))]
            /\ slept' = [slept EXCEPT ![t] = Ticks(SleepTime(t, work[t], n))]
      BY <2>2 DEF Sample
    <3>2. n \in Nat
      BY <1>0, SizeSeenType
    <3> DEFINE sleep == Ticks(SleepTime(t, work[t], n))
    <3>3. sleep \in Nat
      BY <1>0, <3>2, SleepTimeType, TicksType
    <3>4. due'[t] = sleep /\ slept'[t] = sleep
      BY <1>0, <3>1 DEF TypeOK
    <3>5. CASE LastSent(t)
      BY <2>2, <3>3, <3>4, <3>5 DEF LastSent, Over, PillAdded, Told
    <3>6. CASE ~LastSent(t)
      <4>1. InTurn(t) /\ pc[t] # "done"
        BY <2>2 DEF RInv, PacedInTurn, Turn
      <4>2. PICK ts \in [Nat -> Int] : Clocked(t, ts)
        BY DEF TInv, Stamped
      <4>3. sleep = 0 \/ \E gap \in Gaps : sleep <= gap
        BY <1>0, <2>2, <3>2, <3>6, <4>1, <4>2, SleepInGaps
      <4> HIDE DEF sleep
      <4> QED BY <3>3, <3>4, <4>3 DEF Within
    <3> QED BY <3>5, <3>6
  <2> QED BY <1>3, <2>1, <2>2, TimersWorker
<1>4. CASE Tick
  <2>1. /\ pc' = pc /\ slept' = slept /\ UNCHANGED <<queue, mainPc>>
        /\ due[t] \in Nat /\ slept[t] \in Nat
    BY <1>0, <1>4 DEF Tick, TypeOK, dataVars
  <2>2. due'[t] = IF due[t] > 0 THEN due[t] - 1 ELSE 0
    BY <1>0, <1>4, TickCounts
  <2>3. Computed(t) /\ (LastSent(t) => LastSent(t)')
    BY <2>1 DEF Computed, LastSent, Over, PillAdded, Told
  <2>4. due'[t] <= slept'[t]
    BY <1>1, <2>1, <2>2, <2>3
  <2>5. ASSUME Within(t)
        PROVE  Within(t)'
    <3>1. CASE due[t] = 0
      BY <2>1, <2>2, <3>1 DEF Within
    <3>2. CASE \E gap \in Gaps : due[t] <= gap
      <4>1. PICK gap \in Gaps : due[t] <= gap
        BY <3>2
      <4>2. gap \in Int
        BY BoundsAssumption
      <4>3. due'[t] <= gap
        BY <2>1, <2>2, <4>1, <4>2
      <4> QED BY <4>3 DEF Within
    <3> QED BY <2>5, <3>1, <3>2 DEF Within
  <2> QED BY <1>1, <2>3, <2>4, <2>5
<1>5. CASE Ended \/ UNCHANGED vars
  <2>1. UNCHANGED <<pc, due, slept, queue, mainPc>>
    BY <1>5 DEF Ended, vars, threadVars, dataVars
  <2> QED BY <1>1, <2>1 DEF Computed, Within, LastSent, Over, PillAdded, Told
<1> QED BY <1>2, <1>3, <1>4, <1>5 DEF Next, WorkerStep

\* What is said of time holds in every state of every behaviour.
LEMMA TimelyInvariance == Spec => [](IInv /\ RInv /\ TInv)
<1>1. Init => TInv
  <2> SUFFICES ASSUME Init PROVE TInv
    OBVIOUS
  <2>1. NothingYet
    BY DEF Init, NothingYet, NullWork, Paced, Workers
  <2>3. SleepBound /\ DueWithin
    BY DEF Init, SleepBound, DueWithin, Computed, Paced, Workers
  <2>2. Stamped
    <3> DEFINE zero == [n \in Nat |-> 0]
    <3>1. zero \in [Nat -> Int] /\ zero[0] = 0
      OBVIOUS
    <3> SUFFICES ASSUME NEW t \in Paced PROVE Clocked(t, zero)
      BY <3>1 DEF Stamped
    <3>2. /\ arrived[t].id = 0 /\ arrived[t].timestamp = 0 /\ lastTimestamp[t] = 0
          /\ handled[t] = 0 /\ pc[t] \notin Holding /\ queue[t] = <<>>
      BY DEF Init, Paced, Workers, NullWork, Holding
    <3>3. \A n \in Nat : ~(n < 0)
      OBVIOUS
    <3> HIDE DEF zero
    <3> QED BY <3>1, <3>2, <3>3 DEF Clocked, HoldsFrame
  <2> QED BY <2>1, <2>2, <2>3 DEF TInv
<1>2. IInv /\ RInv /\ TInv /\ [Next]_vars => (IInv /\ RInv /\ TInv)'
  <2> SUFFICES ASSUME IInv, RInv, TInv, [Next]_vars PROVE IInv' /\ RInv' /\ TInv'
    OBVIOUS
  <2>1. IInv'
    BY TypeStep, FlagsStep, LoopsStep, InputsStep, NoNullWorkStep, ToldStep,
       SettlingStep, NoneStrayStep DEF IInv
  <2>2. Stamped'
    <3>1. CASE Tick \/ Ended \/ UNCHANGED vars
      <4> SUFFICES ASSUME NEW t \in Paced
                   PROVE  \E ts \in [Nat -> Int] : Clocked(t, ts)'
        BY DEF Stamped
      <4>1. PICK ts \in [Nat -> Int] : Clocked(t, ts)
        BY DEF TInv, Stamped
      <4>2. UNCHANGED <<arrived, lastTimestamp, handled, queue, work, pc, ctx>>
        BY <3>1, TickFrame DEF dataVars, flagVars
      <4>3. Clocked(t, ts)'
        BY <4>1, <4>2, ClockKept
      <4> QED BY <4>1, <4>3
    <3> QED BY <3>1, StampedMain, StampedWorker DEF Next, WorkerStep
  <2>3. NothingYet' /\ SleepBound' /\ DueWithin'
    BY NothingYetStep, SleepStep DEF TInv
  <2> QED BY <2>1, <2>2, <2>3, RelayStep DEF TInv
<1> QED BY <1>1, <1>2, InitEstablishes, RelayInit, PTL DEF Spec

\* "sleep until our next frame time": no worker sleeps longer than one interval
\* between two frames of the session, unless the session is stopped and the
\* frame it has sent is the last of its stream.  Nothing is assumed of the
\* timestamps, the finished work's among them.
THEOREM PacedByFramesAlways == Spec => []PacedByFrames
<1>1. IInv /\ TInv => PacedByFrames
  <2> SUFFICES ASSUME IInv, TInv, NEW t \in Paced, pc[t] = "sleep", due[t] > 0,
                      isRunning \/ Frames(queue[t]) # <<>>
               PROVE  \E gap \in Gaps : due[t] <= gap
    BY DEF PacedByFrames
  <2>1. Within(t) \/ LastSent(t)
    BY DEF TInv, SleepBound, Computed
  <2>2. ~LastSent(t)
    <3>1. Over(t) => ~isRunning
      BY DEF Over, PillAdded, Told, IInv, Flags, Running, Paced
    <3> QED BY <3>1 DEF LastSent
  <2>3. due[t] # 0
    BY DEF IInv, TypeOK, Paced, Workers
  <2> QED BY <2>1, <2>2, <2>3 DEF Within
<1> QED BY <1>1, TimelyInvariance, PTL

-----------------------------------------------------------------------------
(* How long the workers take to end.                                       *)

\* The worker has ended, or wakes up in time to do so before tear-down.
InTime(t) ==
  \/ Ending(t)
  \/ /\ t \in Paced /\ pc[t] \in {"sleep", "check"}
     /\ nap["Main"] >= 1
     /\ pc[t] = "sleep" => due[t] <= nap["Main"] - 1

\* Or it is in a sleep that was computed as long as the grace period, but for
\* a tick, or has woken up from one.
Long(t) == t \in Paced /\ pc[t] \in {"sleep", "check", "ub"} /\ slept[t] >= Grace - 1

\* After two ticks of the grace period every worker is in time or in such a
\* sleep, and when the context is torn down every worker has ended or is.
Closing ==
  /\ mainPc = "grace" /\ nap["Main"] < Grace - 1
       => \A t \in Workers : InTime(t) \/ Long(t)
  /\ mainPc \in {"torn", "freed"} => \A t \in Workers : Ending(t) \/ Long(t)

\* A stopped session's worker that is in time wakes up and ends, and does
\* nothing else; one in a long sleep wakes up and ends, or finds no context.
LEMMA ClosingWorker ==
  ASSUME TypeOK, WorkerStep, ~isRunning,
         \A t \in Workers : InTime(t) \/ Long(t), NEW t \in Workers
  PROVE  /\ InTime(t) /\ ctx # "freed" => InTime(t)'
         /\ Ending(t) => Ending(t)'
         /\ Long(t) => Ending(t)' \/ Long(t)'
<1> USE DEF Ending, Goto
<1>0. /\ "High" \in Workers /\ "Low" \in Workers /\ "Audio" \in Workers
      /\ \A u \in Workers : /\ pc[u] \in {"unborn", "done", "sleep", "check", "ub"}
                            /\ u \notin Paced => Ending(u)
  BY DEF Workers, Paced, InTime, Long
<1>1. ~HighThread /\ ~LowThread /\ ~AudioThread
  BY <1>0 DEF HighThread, Fill, NapInBuffering, EndBuffering, GetHigh, AddLow,
     SampleHigh, SendHighVideo, LowThread, SendLowVideo, AudioThread, SampleAudio,
     NapInHold, EndHold, SendAudioFrame, At
<1>2. PICK u \in Workers : Worker(u)
  BY <1>1 DEF WorkerStep
<1>3. ~Wait(u) /\ ~Get(u)
  BY <1>0 DEF Wait, Get, At
<1>4. CASE u # t
  <2>1. pc'[t] = pc[t] /\ slept'[t] = slept[t] /\ UNCHANGED <<due, nap>>
    BY <1>2, <1>3, <1>4 DEF Worker, Check, WakeUp, UseAfterFree, TypeOK
  <2> QED BY <2>1 DEF InTime, Long
<1>5. CASE u = t /\ Check(t)
  <2>1. pc'[t] = "done"
    BY <1>5 DEF Check, TypeOK
  <2> QED BY <2>1 DEF InTime
<1>6. CASE u = t /\ WakeUp(t)
  <2>1. pc[t] = "sleep" /\ pc'[t] = "check" /\ UNCHANGED <<due, nap, slept>>
    BY <1>6 DEF WakeUp, TypeOK
  <2> QED BY <2>1 DEF InTime, Long
<1>7. CASE u = t /\ UseAfterFree(t)
  <2>1. ~Blocked(t) /\ Dangling(t) /\ pc'[t] = "ub" /\ slept' = slept
    BY <1>7 DEF UseAfterFree, TypeOK
  <2>2. pc[t] = "check" /\ ctx = "freed"
    BY <1>0, <2>1 DEF Blocked, Dangling, FlagsOnly
  <2> QED BY <2>1, <2>2 DEF Long
<1> QED BY <1>2, <1>3, <1>4, <1>5, <1>6, <1>7 DEF Worker

\* A tick of the grace period after the first: a worker still blocked has
\* ended or sleeps, and what is left of its sleep fits what is left of the
\* grace period, unless the sleep was computed a long one.
LEMMA ClosingTick ==
  ASSUME IInv, TInv, Closing, Tick, mainPc = "grace",
         nap'["Main"] < Grace - 1, NEW t \in Workers
  PROVE  InTime(t)' \/ Long(t)'
<1> DEFINE left == nap["Main"]
<1>0. /\ Grace \in Nat /\ left \in Nat /\ due[t] \in Nat /\ slept[t] \in Nat
      /\ left > 0 /\ left < Grace
  <2>1. Grace \in Nat /\ left \in Nat /\ due[t] \in Nat /\ slept[t] \in Nat
    BY BoundsAssumption DEF IInv, TypeOK
  <2>2. left > 0
    BY DEF Tick, MainBlocked
  <2> QED BY <2>1, <2>2, TickCounts
<1>1. /\ pc' = pc /\ slept' = slept /\ nap'["Main"] = left - 1
      /\ due'[t] = IF due[t] > 0 THEN due[t] - 1 ELSE 0
  BY <1>0, TickCounts DEF Tick
<1>2. Harmless(t)
  <2>1. ctx = "live" /\ SeesFinish(t) /\ Blocked(t) /\ nap[t] = 0
    BY <1>0 DEF IInv, Flags, ToldSeesFinish, Told, Tick, Settling
  <2> QED BY <2>1, BlockedIsHarmless DEF IInv
<1>3. CASE Ending(t)
  BY <1>1, <1>3 DEF InTime, Ending
<1>4. CASE ~Ending(t)
  <2>1. t \in Paced /\ pc[t] = "sleep" /\ due[t] > 0
    BY <1>2, <1>4 DEF Harmless, Ending, Tick, Blocked
  <2>2. CASE Long(t)
    BY <1>1, <2>2 DEF Long
  <2>3. CASE ~Long(t)
    <3>1. due[t] <= left - 1
      <4>1. CASE left < Grace - 1
        BY <1>4, <2>1, <2>3, <4>1 DEF Closing, InTime
      <4>2. CASE left = Grace - 1
        <5>1. ~(slept[t] >= Grace - 1)
          BY <2>1, <2>3 DEF Long
        <5>2. due[t] <= slept[t]
          BY <2>1 DEF TInv, DueWithin, Computed
        <5> QED BY <1>0, <4>2, <5>1, <5>2
      <4> QED BY <1>0, <4>1, <4>2
    <3>2. due'[t] <= nap'["Main"] - 1 /\ nap'["Main"] >= 1
      <4> HIDE DEF left
      <4> QED BY <1>0, <1>1, <2>1, <3>1
    <3> QED BY <1>1, <2>1, <3>2 DEF InTime
  <2> QED BY <2>2, <2>3
<1> QED BY <1>3, <1>4

\* Closing is inductive.
LEMMA ClosingStep ==
  ASSUME IInv, TInv, Closing, [Next]_vars PROVE Closing'
<1>0. Grace \in Nat /\ nap["Main"] \in Nat /\ Grace >= 2
  BY BoundsAssumption, GraceAssumption DEF IInv, TypeOK
<1>1. CASE PillAudio
  <2>1. mainPc' = "grace" /\ nap'["Main"] = Grace
    BY <1>1 DEF PillAudio, IInv, TypeOK
  <2> QED BY <1>0, <2>1 DEF Closing
<1>2. CASE TearDown
  <2>1. mainPc = "grace" /\ nap["Main"] < Grace - 1 /\ ~(nap["Main"] >= 1)
    BY <1>0, <1>2 DEF TearDown
  <2>2. pc' = pc /\ slept' = slept /\ mainPc' = "torn"
    BY <1>2 DEF TearDown
  <2> QED BY <2>1, <2>2 DEF Closing, InTime, Ending, Long
<1>3. CASE Free
  BY <1>3 DEF Free, Closing, Ending, Long
<1>4. CASE \/ StartLow \/ CodecFails \/ StartSingle \/ InitFields \/ AddVideo
           \/ AddAudio \/ PillHigh \/ ClearLow \/ PillLow \/ DisconnectFails
           \/ Environment
  BY <1>4 DEF StartLow, CodecFails, StartSingle, InitFields, AddVideo, AddAudio,
     Add, PillHigh, ClearLow, PillLow, DisconnectFails, Environment,
     SendVideo, SendAudio, Arrive, Disconnect, Closing
<1>5. CASE WorkerStep
  <2>0. mainPc' = mainPc /\ TypeOK
    BY <1>5, WorkerFrame DEF IInv
  <2>1. CASE mainPc = "grace"
    <3>1. ~isRunning /\ ctx # "freed"
      BY <2>1 DEF IInv, Flags, Running
    <3>2. nap' = nap
      BY <1>5, <3>1, NoNewNap
    <3>3. (\A t \in Workers : InTime(t) \/ Long(t))
            => \A t \in Workers : (InTime(t) \/ Long(t))'
      BY <1>5, <2>0, <3>1, ClosingWorker DEF InTime
    <3> QED BY <2>0, <2>1, <3>2, <3>3 DEF Closing
  <2>2. CASE mainPc \in {"torn", "freed"}
    <3>1. ~isRunning
      BY <2>2 DEF IInv, Flags, Running
    <3>2. \A t \in Workers : (Ending(t) \/ Long(t)) /\ (InTime(t) \/ Long(t))
      BY <2>2 DEF Closing, InTime
    <3>3. \A t \in Workers : (Ending(t) \/ Long(t))'
      BY <1>5, <2>0, <3>1, <3>2, ClosingWorker
    <3> QED BY <2>0, <2>2, <3>3 DEF Closing
  <2>3. CASE mainPc \notin {"grace", "torn", "freed"}
    BY <2>0, <2>3 DEF Closing
  <2> QED BY <2>1, <2>2, <2>3
<1>6. CASE Tick
  <2>1. mainPc' = mainPc /\ pc' = pc /\ slept' = slept
    BY <1>6 DEF Tick
  <2> QED BY <1>6, <2>1, ClosingTick DEF Closing, Ending, Long
<1>7. CASE Ended \/ UNCHANGED vars
  BY <1>7 DEF Ended, vars, threadVars, Closing, InTime, Ending, Long
<1> QED BY <1>1, <1>2, <1>3, <1>4, <1>5, <1>6, <1>7 DEF Next, Main, WorkerStep

\* Only a worker that has computed a sleep as long as the grace period, but for
\* a tick, may not have ended when the context is freed, whatever the frames'
\* timestamps and the finished work's: agora_disconnect's two seconds cover the
\* rest of what a worker may be at.
THEOREM OnlySleepersOutlive == Spec => []OutlivedBySleepOnly
<1>1. Init => Closing
  BY DEF Init, Closing
<1>2. IInv /\ TInv /\ Closing /\ [Next]_vars => Closing'
  BY ClosingStep
<1>3. IInv /\ Closing => OutlivedBySleepOnly
  BY DEF IInv, Flags, Closing, Long, OutlivedBySleepOnly
<1> QED BY <1>1, <1>2, <1>3, TimelyInvariance, PTL DEF Spec
=============================================================================
