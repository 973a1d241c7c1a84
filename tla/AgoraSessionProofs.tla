------------------------- MODULE AgoraSessionProofs -------------------------
(***************************************************************************)
(* AgoraSession for every configuration, whatever the number of frames,    *)
(* their timestamps, the sizes and the pill's timestamp, and whatever the  *)
(* interleaving.                                                           *)
(*                                                                         *)
(* The context is torn down over sleeping or ended workers only, and the   *)
(* high video thread never gets a null work.  Neither is inductive.  The   *)
(* invariant adds what the argument needs: a worker that has been sent its *)
(* finished work cannot block in waitForWork again; a nap lasts one tick;  *)
(* so after one tick of the grace period no worker naps, and after two     *)
(* every worker sleeps, has just woken up or has ended.  That is why the   *)
(* grace period must last two naps.                                        *)
(*                                                                         *)
(* No frame is lost, repeated or overtaken on its way, and the session     *)
(* implements MediaRelay.  The invariant says of each queue which works    *)
(* are in it: of a paced one the frames from the last one taken to the     *)
(* last one submitted, with the finished work behind them or in the        *)
(* worker's hand once agora_disconnect has added it; of the low one the    *)
(* same up to what High has passed on, while the session runs, and         *)
(* increasing frames after that.                                           *)
(***************************************************************************)
EXTENDS AgoraSession, TLAPS

\* Where the nginx thread is while the session runs.
Running == {"starting", "fields", "serving", "addVideo", "addAudio",
            "abandoned"}

\* The labels of each worker's own loop.
LabelsOf(t) ==
  IF t = "High" THEN Labels \ {"unborn", "hold"}
  ELSE IF t = "Low" THEN {"unborn", "check", "wait", "get", "send", "done", "ub"}
  ELSE {"check", "wait", "get", "sample", "hold", "send", "sleep", "done", "ub"}

\* The flags go with the nginx thread's progress.
Flags == /\ isRunning <=> mainPc \in Running
         /\ ctx = IF mainPc \in {"torn", "freed"} THEN mainPc ELSE "live"

\* Each worker stays in its own loop and naps for one tick at a time.
Loops == /\ \A t \in Workers : pc[t] \in LabelsOf(t) /\ nap[t] <= 1
         /\ ~enable_dual => pc["Low"] = "unborn"

\* What goes into videoJB is no null work.
Inputs ==
  /\ mainPc = "addVideo" => arrived["High"].id > 0
  /\ mainPc \in {"pillHigh", "clearLow", "pillLow", "pillAudio"}
       => pill.is_finished

\* Nor is what comes out of it: no other thread takes what High waited for.
NoNullWork ==
  /\ \A i \in 1..Len(queue["High"]) : queue["High"][i] # NullWork
  /\ ctx = "live" /\ pc["High"] = "get" => queue["High"] # <<>>
  /\ ctx = "live" /\ pc["High"] \in {"addLow", "sample"}
       => work["High"] # NullWork

\* agora_disconnect has told the worker t to finish.
Told(t) == \/ mainPc = "grace"
           \/ t = "Low" /\ mainPc = "pillAudio"
           \/ t = "High" /\ mainPc \in {"clearLow", "pillLow", "pillAudio"}

\* The worker will come across a finished work before an empty queue.
FinishQueued(t) == \E i \in 1..Len(queue[t]) : queue[t][i].is_finished
SeesFinish(t) ==
  \/ Ending(t)
  \/ t = "High" /\ pc[t] \in {"addLow", "sample"} /\ work[t].is_finished
  \/ FinishQueued(t)

ToldSeesFinish == \A t \in Workers : Told(t) => SeesFinish(t)

\* A worker that tear-down may meet.
Harmless(t) == \/ Ending(t)
               \/ t \in Paced /\ pc[t] \in {"sleep", "check"}

\* What a tick of the grace period, and a second one, leave.
Settling ==
  /\ mainPc = "grace" /\ nap["Main"] < Grace
       => \A t \in Workers : nap[t] = 0
  /\ mainPc = "grace" /\ nap["Main"] < Grace - 1
       => \A t \in Workers : Harmless(t)
  /\ mainPc = "torn" => \A t \in Workers : Harmless(t)

\* Nobody has run into a context that is not there, or a null work.
NoneStray == ctx # "freed" => \A t \in Workers : pc[t] # "ub"

IInv == /\ TypeOK /\ Flags /\ Loops /\ Inputs /\ NoNullWork
        /\ ToldSeesFinish /\ Settling /\ NoneStray

-----------------------------------------------------------------------------
\* A sleep is a number of ticks.
LEMMA TicksType == ASSUME NEW sleep \in Int PROVE Ticks(sleep) \in Nat
BY BoundsAssumption DEF Ticks

\* A worker's next interval is a difference of timestamps, perhaps shortened.
LEMMA SleepTimeType ==
  ASSUME TypeOK, NEW t \in Paced, NEW n \in Nat
  PROVE  SleepTime(t, work[t], n) \in Int
<1>1. t \in Workers
  BY DEF Paced, Workers
<1>2. work[t].timestamp \in Int /\ lastTimestamp[t] \in Int
  <2>1. work[t] \in Work /\ lastTimestamp[t] \in Int
    BY <1>1 DEF TypeOK
  <2> QED BY <2>1 DEF Work
<1>3. queue[t] # <<>> => Head(queue[t]).timestamp \in Int
  <2>1. queue[t] \in Seq(Work)
    BY <1>1 DEF TypeOK
  <2>2. queue[t] # <<>> => Head(queue[t]) \in Work
    BY <2>1
  <2> QED BY <2>2 DEF Work
<1> DEFINE nextTs    == IF queue[t] = <<>> THEN work[t].timestamp
                                           ELSE Head(queue[t]).timestamp
           currentTs == IF work[t].timestamp = nextTs THEN lastTimestamp[t]
                                                      ELSE work[t].timestamp
           interval  == nextTs - currentTs
<1>4. interval \in Int
  BY <1>2, <1>3
<1>5. (interval * 95) \div 100 \in Int
  <2> HIDE DEF interval
  <2> QED BY <1>4
<1>6. SleepTime(t, work[t], n)
        = IF n * interval > jb_size THEN (interval * 95) \div 100 ELSE interval
  BY DEF SleepTime
<1> HIDE DEF interval
<1> QED BY <1>4, <1>5, <1>6

\* What size() returns is a number, right or wrong.
LEMMA SizeSeenType ==
  ASSUME TypeOK, NEW t \in Paced PROVE SizeSeen(t) \subseteq Nat
<1>1. queue[t] \in Seq(Work)
  BY DEF TypeOK, Paced, Workers
<1> QED BY <1>1, BoundsAssumption DEF SizeSeen, AnySize

\* nextSample is a number of ticks from now, and so is what it was.
LEMMA SampleType ==
  ASSUME TypeOK, NEW t \in Paced, Sample(t)
  PROVE  due' \in [Workers -> Nat] /\ slept' \in [Workers -> Nat]
<1>1. PICK n \in SizeSeen(t) :
        /\ due' = [due EXCEPT ![t] = Ticks(SleepTime(t, work[t], n))]
        /\ slept' = [slept EXCEPT ![t] = Ticks(SleepTime(t, work[t], n))]
  BY DEF Sample
<1>2. Ticks(SleepTime(t, work[t], n)) \in Nat
  BY SizeSeenType, SleepTimeType, TicksType
<1> QED BY <1>1, <1>2 DEF TypeOK

\* The type invariant holds at the start.
LEMMA TypeInit == Init => TypeOK
BY BoundsAssumption DEF Init, TypeOK, Workers, Paced, Work, NullWork,
   MainLabels, Labels

\* A queue to which a work is added is a queue of works.
LEMMA PushType ==
  ASSUME TypeOK, NEW t \in Workers, NEW w \in Work, Push(t, w)
  PROVE  queue' \in [Workers -> Seq(Work)]
BY DEF Push, TypeOK

\* Every action of the nginx thread preserves the type invariant.
LEMMA TypeMain == ASSUME TypeOK, Main PROVE TypeOK'
<1> USE DEF TypeOK, threadVars, dataVars, flagVars, MainLabels
<1>1. CASE StartLow
  BY <1>1 DEF StartLow, Goto, Workers, Labels
<1>2. CASE CodecFails \/ StartSingle
  BY <1>2 DEF CodecFails, StartSingle
<1>3. CASE InitFields
  <2>1. lastTimestamp' \in [Paced -> Int]
    BY <1>3 DEF InitFields
  <2> QED BY <1>3, <2>1 DEF InitFields
<1>4. CASE AddVideo \/ AddAudio
  <2>1. arrived["High"] \in Work /\ arrived["Audio"] \in Work
    BY DEF Paced
  <2>2. queue' \in [Workers -> Seq(Work)]
    BY <1>4, <2>1, PushType DEF AddVideo, AddAudio, Add, Workers
  <2> QED BY <1>4, <2>2 DEF AddVideo, AddAudio, Add
<1>5. CASE PillHigh
  <2>1. queue' \in [Workers -> Seq(Work)]
    BY <1>5, PushType DEF PillHigh, Workers
  <2> QED BY <1>5, <2>1 DEF PillHigh
<1>6. CASE ClearLow
  BY <1>6 DEF ClearLow, Workers
<1>7. CASE PillLow
  <2>1. queue' \in [Workers -> Seq(Work)]
    BY <1>7, PushType DEF PillLow, Workers
  <2> QED BY <1>7, <2>1 DEF PillLow
<1>8. CASE PillAudio
  <2>1. queue' \in [Workers -> Seq(Work)]
    BY <1>8, PushType DEF PillAudio, Workers
  <2>2. nap' \in [Workers \cup {"Main"} -> Nat]
    BY <1>8, BoundsAssumption DEF PillAudio
  <2> QED BY <1>8, <2>1, <2>2 DEF PillAudio
<1>9. CASE DisconnectFails \/ Free
  BY <1>9 DEF DisconnectFails, Free
<1>10. CASE TearDown
  BY <1>10 DEF TearDown
<1> QED BY <1>1, <1>2, <1>3, <1>4, <1>5, <1>6, <1>7, <1>8, <1>9, <1>10
        DEF Main

\* So does every call made from outside.
LEMMA TypeEnvironment == ASSUME TypeOK, Environment PROVE TypeOK'
<1> USE DEF TypeOK, threadVars, dataVars, flagVars, MainLabels
<1>1. ASSUME NEW t \in Paced, NEW max, NEW label \in MainLabels,
             Arrive(t, max, label)
      PROVE  TypeOK'
  <2>1. PICK gap \in Gaps :
          arrived' = [arrived EXCEPT ![t] = [id          |-> @.id + 1,
                                             timestamp   |-> @.timestamp + gap,
                                             is_finished |-> FALSE]]
    BY <1>1 DEF Arrive
  <2>2. arrived[t].id + 1 \in Nat /\ arrived[t].timestamp + gap \in Int
    <3>1. gap \in Int /\ arrived[t] \in Work
      BY BoundsAssumption
    <3> QED BY <3>1 DEF Work
  <2>3. [id |-> arrived[t].id + 1, timestamp |-> arrived[t].timestamp + gap,
         is_finished |-> FALSE] \in Work
    BY <2>2 DEF Work
  <2>4. arrived' \in [Paced -> Work]
    BY <2>1, <2>3
  <2> QED BY <1>1, <2>4 DEF Arrive
<1>2. CASE SendVideo \/ SendAudio
  BY <1>1, <1>2 DEF SendVideo, SendAudio, Paced
<1>3. CASE Disconnect
  <2>1. pill' \in Work
    BY <1>3, BoundsAssumption DEF Disconnect, Work
  <2> QED BY <1>3, <2>1 DEF Disconnect
<1> QED BY <1>2, <1>3 DEF Environment

\* So does every step of a worker.
LEMMA TypeWorker ==
  ASSUME TypeOK, \/ \E t \in Workers : Worker(t)
                 \/ HighThread \/ LowThread \/ AudioThread
  PROVE  TypeOK'
<1> USE DEF TypeOK, threadVars, dataVars, flagVars, Goto, Labels
<1>1. ASSUME NEW t \in Workers, Check(t) \/ Wait(t) \/ UseAfterFree(t)
      PROVE  TypeOK'
  <2>1. CASE Check(t)
    <3>1. slept' \in [Workers -> Nat] /\ pc' \in [Workers -> Labels]
      BY <2>1 DEF Check
    <3> QED BY <2>1, <3>1 DEF Check
  <2>2. CASE Wait(t) \/ UseAfterFree(t)
    BY <2>2 DEF Wait, UseAfterFree
  <2> QED BY <1>1, <2>1, <2>2
<1>2. NullWork \in Work
  BY DEF NullWork, Work
<1>3. ASSUME NEW t \in Workers, Get(t)
      PROVE  TypeOK'
  <2>1. Taken(t) \in Work
    BY <1>2 DEF Taken
  <2> QED BY <1>3, <2>1 DEF Get, Take
<1>4. ASSUME NEW t \in Workers, WakeUp(t)
      PROVE  TypeOK'
  BY <1>2, <1>4 DEF WakeUp
<1>5. CASE Fill
  <2>1. pc' \in [Workers -> Labels]
    BY <1>5 DEF Fill, Workers
  <2>2. timePerFrameSet' = (mainPc \notin {"starting", "fields"})
          \/ timePerFrameSet' = timePerFrameSet
    BY <1>5 DEF Fill
  <2>3. timePerFrameSet' \in BOOLEAN
    BY <2>2
  <2> QED BY <1>5, <2>1, <2>3 DEF Fill
<1>6. CASE NapInBuffering
  BY <1>6 DEF NapInBuffering, Workers
<1>7. CASE EndBuffering
  <2>1. jb_size' \in {jb_size, 2 * jb_size} /\ reBuffered' \in {TRUE, reBuffered}
    BY <1>7 DEF EndBuffering
  <2>2. jb_size' \in Nat
    BY <2>1
  <2>4. reBuffered' \in BOOLEAN
    BY <2>1
  <2>3. pc' \in [Workers -> Labels]
    BY <1>7 DEF EndBuffering
  <2> QED BY <1>7, <2>2, <2>3, <2>4 DEF EndBuffering
<1>8. CASE GetHigh
  <2>1. Taken("High") \in Work
    BY <1>2 DEF Taken, Workers
  <2>2. work' \in [Workers -> Work] /\ queue' \in [Workers -> Seq(Work)]
    BY <1>8, <2>1 DEF GetHigh, Take, Workers
  <2>3. pc' \in [Workers -> Labels]
    BY <1>8 DEF GetHigh
  <2> QED BY <1>8, <2>2, <2>3 DEF GetHigh, Take
<1>9. CASE AddLow
  <2>1. queue' \in [Workers -> Seq(Work)]
    BY <1>9, PushType DEF AddLow, Workers
  <2>2. pc' \in [Workers -> Labels]
    BY <1>9 DEF AddLow
  <2> QED BY <1>9, <2>1, <2>2 DEF AddLow
<1>10. CASE SampleHigh
  <2>1. due' \in [Workers -> Nat] /\ slept' \in [Workers -> Nat]
    BY <1>10, SampleType DEF SampleHigh, Paced
  <2>2. pc' \in [Workers -> Labels]
    BY <1>10 DEF SampleHigh
  <2> QED BY <1>10, <2>1, <2>2 DEF SampleHigh
<1>11. CASE SendHighVideo
  BY <1>11 DEF SendHighVideo, Workers, Paced, Work
<1>12. CASE LowThread
  <2>1. work["Low"].id \in Nat
    BY DEF Workers, Work
  <2>2. handled' \in [Workers -> Nat] /\ lowSent' \in Nat
    BY <1>12, <2>1 DEF LowThread, SendLowVideo
  <2>3. work' \in [Workers -> Work] /\ pc' \in [Workers -> Labels]
    BY <1>2, <1>12 DEF LowThread, SendLowVideo
  <2> QED BY <1>12, <2>2, <2>3 DEF LowThread, SendLowVideo
<1>13. CASE SampleAudio
  <2>1. due' \in [Workers -> Nat] /\ slept' \in [Workers -> Nat]
    BY <1>13, SampleType DEF SampleAudio, Paced
  <2>2. pc' \in [Workers -> Labels]
    BY <1>13 DEF SampleAudio
  <2> QED BY <1>13, <2>1, <2>2 DEF SampleAudio
<1>14. CASE NapInHold
  BY <1>14 DEF NapInHold, Workers
<1>15. CASE EndHold
  BY <1>15 DEF EndHold, Workers
<1>16. CASE SendAudioFrame
  <2>1. work["Audio"] \in Work
    BY DEF Workers
  <2>2. handled' \in [Workers -> Nat] /\ lastTimestamp' \in [Paced -> Int]
    BY <1>16, <2>1 DEF SendAudioFrame, Work
  <2>3. slipped' \in Nat
    BY <1>16 DEF SendAudioFrame
  <2> QED BY <1>16, <2>2, <2>3 DEF SendAudioFrame, Workers
<1> QED BY <1>1, <1>3, <1>4, <1>5, <1>6, <1>7, <1>8, <1>9, <1>10, <1>11, <1>12,
           <1>13, <1>14, <1>15, <1>16 DEF Worker, HighThread, AudioThread

\* Every variable keeps its type.
LEMMA TypeStep == ASSUME TypeOK, [Next]_vars PROVE TypeOK'
<1>1. CASE Tick
  <2>1. \A i \in Nat : (IF i > 0 THEN i - 1 ELSE 0) \in Nat
    OBVIOUS
  <2>2. Less(nap) \in [Workers \cup {"Main"} -> Nat] /\ Less(due) \in [Workers -> Nat]
    BY <2>1 DEF TypeOK, Less
  <2> QED BY <1>1, <2>2 DEF Tick, TypeOK, dataVars, flagVars
<1>2. CASE UNCHANGED vars \/ Ended
  BY <1>2 DEF Ended, vars, threadVars, dataVars, flagVars, TypeOK
<1> QED BY <1>1, <1>2, TypeMain, TypeEnvironment, TypeWorker DEF Next

\* Every variable keeps the type its declaration in the code gives it.
THEOREM TypeCorrect == Spec => []TypeOK
BY TypeInit, TypeStep, PTL DEF Spec
-----------------------------------------------------------------------------
\* Where a worker goes with the work that it takes.
LEMMA GetGoes ==
  ASSUME TypeOK, NEW t \in Workers, Get(t)
  PROVE  /\ Taken(t).is_finished => pc'[t] = "done"
         /\ ~Taken(t).is_finished /\ Taken(t).id > 0
              => pc'[t] = IF t = "Low" THEN "send" ELSE "sample"
<1>1. ~NullWork.is_finished /\ ~(NullWork.id > 0)
  BY DEF NullWork
<1>2. pc' = [pc EXCEPT ![t] = IF Taken(t) = NullWork THEN "check"
                              ELSE IF Taken(t).is_finished THEN "done"
                              ELSE IF t = "Low" THEN "send" ELSE "sample"]
  BY DEF Get, Goto
<1>3. pc'[t] = IF Taken(t) = NullWork THEN "check"
               ELSE IF Taken(t).is_finished THEN "done"
               ELSE IF t = "Low" THEN "send" ELSE "sample"
  BY <1>2 DEF TypeOK
<1>4. ASSUME Taken(t).is_finished
      PROVE  pc'[t] = "done"
  <2>1. Taken(t) # NullWork
    BY <1>1, <1>4
  <2> QED BY <1>3, <1>4, <2>1
<1>5. ASSUME ~Taken(t).is_finished, Taken(t).id > 0
      PROVE  pc'[t] = IF t = "Low" THEN "send" ELSE "sample"
  <2>1. Taken(t) # NullWork
    BY <1>1, <1>5
  <2> QED BY <1>3, <1>5, <2>1
<1> QED BY <1>4, <1>5

\* The steps that are not the nginx thread's nor a call from outside.
WorkerStep == \/ \E t \in Workers : Worker(t)
              \/ HighThread \/ LowThread \/ AudioThread

\* A worker's step leaves the nginx thread and the flags it sets alone.
LEMMA WorkerFrame ==
  ASSUME WorkerStep
  PROVE  UNCHANGED <<mainPc, ctx, enable_dual, isRunning, pill, arrived>>
<1> USE DEF dataVars, flagVars
<1>1. ASSUME NEW t \in Workers, Worker(t)
      PROVE  UNCHANGED <<mainPc, ctx, enable_dual, isRunning, pill, arrived>>
  BY <1>1 DEF Worker, Check, Wait, Get, Take, WakeUp, UseAfterFree
<1>2. CASE HighThread
  BY <1>2 DEF HighThread, Fill, NapInBuffering, EndBuffering, GetHigh, Take,
     AddLow, SampleHigh, SendHighVideo
<1>3. CASE LowThread \/ AudioThread
  BY <1>3 DEF LowThread, SendLowVideo, AudioThread, SampleAudio, NapInHold,
     EndHold, SendAudioFrame
<1> QED BY <1>1, <1>2, <1>3 DEF WorkerStep

\* Time changes the timers and nothing else.
LEMMA TickFrame ==
  ASSUME Tick \/ Ended \/ UNCHANGED vars
  PROVE  UNCHANGED <<mainPc, pc, dataVars, flagVars>>
BY DEF Tick, Ended, vars, threadVars

\* The nginx thread starts the low thread and otherwise moves no worker, and
\* it takes nothing out of a worker's hand.
LEMMA MainFrame ==
  ASSUME Main \/ Environment
  PROVE  /\ pc' = pc \/ (StartLow /\ pc' = [pc EXCEPT !["Low"] = "check"])
         /\ UNCHANGED <<work, lowSent>>
         /\ nap' = nap \/ (PillAudio /\ nap' = [nap EXCEPT !["Main"] = Grace])
         /\ UNCHANGED enable_dual
<1> USE DEF dataVars, flagVars, Goto
<1>1. CASE Main
  BY <1>1 DEF Main, StartLow, CodecFails, StartSingle, InitFields, AddVideo,
     AddAudio, Add, PillHigh, ClearLow, PillLow, PillAudio, DisconnectFails,
     TearDown, Free
<1>2. CASE Environment
  BY <1>2 DEF Environment, SendVideo, SendAudio, Arrive, Disconnect
<1> QED BY <1>1, <1>2

\* isRunning and ctx keep up with the nginx thread.
LEMMA FlagsStep ==
  ASSUME TypeOK, Flags, [Next]_vars PROVE Flags'
<1> USE DEF Flags, Running, flagVars
<1>1. CASE Main
  BY <1>1 DEF Main, StartLow, CodecFails, StartSingle, InitFields, AddVideo,
     AddAudio, Add, PillHigh, ClearLow, PillLow, PillAudio, DisconnectFails,
     TearDown, Free
<1>2. CASE Environment
  BY <1>2 DEF Environment, SendVideo, SendAudio, Arrive, Disconnect
<1>3. CASE WorkerStep
  BY <1>3, WorkerFrame
<1>4. CASE Tick \/ Ended \/ UNCHANGED vars
  BY <1>4, TickFrame
<1> QED BY <1>1, <1>2, <1>3, <1>4 DEF Next, WorkerStep

\* Each worker stays in its loop.
LEMMA LoopsStep ==
  ASSUME TypeOK, Loops, [Next]_vars PROVE Loops'
<1> USE DEF Loops, LabelsOf, Labels, Workers
<1>1. CASE Main \/ Environment
  <2>1. StartLow => enable_dual
    BY DEF StartLow
  <2> QED BY <1>1, <2>1, MainFrame DEF TypeOK
<1>2. ASSUME NEW t \in Workers, Worker(t)
      PROVE  Loops'
  <2> USE DEF flagVars, TypeOK, Goto, At
  <2>1. CASE Check(t) \/ Wait(t) \/ WakeUp(t)
    BY <2>1 DEF Check, Wait, WakeUp
  <2>2. CASE Get(t)
    BY <2>2 DEF Get, Take
  <2>3. CASE UseAfterFree(t)
    BY <2>3 DEF UseAfterFree, Blocked
  <2> QED BY <1>2, <2>1, <2>2, <2>3 DEF Worker
<1>3. CASE HighThread
  <2> USE DEF flagVars, TypeOK, Goto, At
  <2>1. CASE NapInBuffering
    BY <2>1 DEF NapInBuffering
  <2>2. CASE EndBuffering \/ Fill
    BY <2>2 DEF EndBuffering, Fill
  <2>3. CASE GetHigh \/ AddLow \/ SampleHigh
    BY <2>3 DEF GetHigh, Take, AddLow, SampleHigh
  <2>4. CASE SendHighVideo
    BY <2>4 DEF SendHighVideo
  <2> QED BY <1>3, <2>1, <2>2, <2>3, <2>4 DEF HighThread
<1>4. CASE LowThread \/ AudioThread
  <2> USE DEF flagVars, TypeOK, Goto, At
  <2>1. CASE LowThread
    BY <2>1 DEF LowThread, SendLowVideo
  <2>2. CASE NapInHold
    BY <2>2 DEF NapInHold
  <2>3. CASE SampleAudio \/ EndHold \/ SendAudioFrame
    BY <2>3 DEF SampleAudio, EndHold, SendAudioFrame
  <2> QED BY <1>4, <2>1, <2>2, <2>3 DEF AudioThread
<1>5. CASE Tick
  <2>1. UNCHANGED <<pc, enable_dual>>
    BY <1>5, TickFrame DEF flagVars
  <2>2. DOMAIN nap = Workers \cup {"Main"} /\ \A t \in Workers : nap[t] \in Nat
    BY DEF TypeOK
  <2>3. \A t \in Workers : nap'[t] = IF nap[t] > 0 THEN nap[t] - 1 ELSE 0
    BY <1>5, <2>2 DEF Tick, Less
  <2>4. \A t \in Workers : nap'[t] <= 1
    BY <2>2, <2>3
  <2> QED BY <2>1, <2>4
<1>6. CASE Ended \/ UNCHANGED vars
  BY <1>6 DEF Ended, vars, threadVars, flagVars
<1> QED BY <1>1, <1>2, <1>3, <1>4, <1>5, <1>6 DEF Next

\* Only frames and the finished work are about to be added.
LEMMA InputsStep ==
  ASSUME TypeOK, Inputs, [Next]_vars PROVE Inputs'
<1> USE DEF Inputs, dataVars
<1>1. CASE Main
  BY <1>1 DEF Main, StartLow, CodecFails, StartSingle, InitFields, AddVideo,
     AddAudio, Add, PillHigh, ClearLow, PillLow, PillAudio, DisconnectFails,
     TearDown, Free
<1>2. CASE SendVideo
  <2>1. arrived["High"].id \in Nat
    BY DEF TypeOK, Paced, Work
  <2>2. arrived'["High"].id = arrived["High"].id + 1
    BY <1>2 DEF SendVideo, Arrive, TypeOK, Paced
  <2> QED BY <1>2, <2>1, <2>2 DEF SendVideo, Arrive
<1>3. CASE SendAudio \/ Disconnect
  BY <1>3 DEF SendAudio, Arrive, Disconnect
<1>4. CASE WorkerStep
  BY <1>4, WorkerFrame
<1>5. CASE Tick \/ Ended \/ UNCHANGED vars
  BY <1>5, TickFrame
<1> QED BY <1>1, <1>2, <1>3, <1>4, <1>5 DEF Next, Environment, WorkerStep

\* A push leaves what was in the queue in its place and adds one work.
LEMMA PushAdds ==
  ASSUME TypeOK, NEW t \in Workers, NEW w \in Work, Push(t, w)
  PROVE  /\ Len(queue'[t]) = Len(queue[t]) + 1
         /\ \A i \in 1..Len(queue[t]) : queue'[t][i] = queue[t][i]
         /\ queue'[t][Len(queue[t]) + 1] = w
         /\ \A u \in Workers \ {t} : queue'[u] = queue[u]
<1>1. queue[t] \in Seq(Work) /\ queue'[t] = Append(queue[t], w)
  BY DEF Push, TypeOK
<1>2. \A u \in Workers \ {t} : queue'[u] = queue[u]
  BY DEF Push, TypeOK
<1> QED BY <1>1, <1>2

\* A get takes the first work and moves the others up.
LEMMA TakeMoves ==
  ASSUME TypeOK, NEW t \in Workers, Take(t), queue[t] # <<>>
  PROVE  /\ work'[t] = queue[t][1]
         /\ Len(queue[t]) > 0
         /\ Len(queue'[t]) = Len(queue[t]) - 1
         /\ \A i \in 1..Len(queue'[t]) : queue'[t][i] = queue[t][i + 1]
<1>1. queue[t] \in Seq(Work) /\ queue'[t] = Tail(queue[t])
  BY DEF Take, TypeOK
<1>2. work'[t] = Head(queue[t])
  BY DEF Take, Taken, TypeOK
<1> QED BY <1>1, <1>2

\* A get by one worker leaves the other queues and hands alone.
LEMMA TakeFrame ==
  ASSUME TypeOK, NEW t \in Workers, Take(t), NEW u \in Workers \ {t}
  PROVE  queue'[u] = queue[u] /\ work'[u] = work[u]
BY DEF Take, TypeOK

\* The high thread is the only one to take from videoJB, between its wait and
\* its get too, and only works are added to it.
LEMMA NoNullWorkStep ==
  ASSUME TypeOK, Flags, Loops, Inputs, NoNullWork, [Next]_vars
  PROVE  NoNullWork'
<1> USE DEF dataVars, flagVars
<1> DEFINE Real(q) == \A i \in 1..Len(q) : q[i] # NullWork
<1>0. /\ queue["High"] \in Seq(Work) /\ "High" \in Workers
      /\ NullWork \in Work /\ ~NullWork.is_finished /\ NullWork.id = 0
  BY DEF TypeOK, Workers, NullWork, Work
<1>1. ASSUME NEW w \in Work, w # NullWork, Push("High", w), ctx' = ctx,
             UNCHANGED <<pc, work>>
      PROVE  NoNullWork'
  <2>1. Real(queue'["High"])
    BY <1>0, <1>1, PushAdds DEF NoNullWork
  <2>2. queue'["High"] # <<>>
    BY <1>0, <1>1, PushAdds
  <2> QED BY <1>1, <2>1, <2>2 DEF NoNullWork
<1>2. ASSUME queue'["High"] = queue["High"], ctx' = ctx,
             pc'["High"] = "get" => pc["High"] = "get" \/ queue["High"] # <<>>,
             pc'["High"] \in {"addLow", "sample"}
               => /\ pc["High"] \in {"addLow", "sample"}
                  /\ work'["High"] = work["High"]
      PROVE  NoNullWork'
  BY <1>2 DEF NoNullWork
<1>3. CASE AddVideo
  BY <1>0, <1>1, <1>3 DEF AddVideo, Add, Inputs, TypeOK, Paced
<1>4. CASE PillHigh
  BY <1>0, <1>1, <1>4 DEF PillHigh, Inputs, TypeOK
<1>5. CASE TearDown \/ Free
  <2>1. ctx' # "live"
    BY <1>5 DEF TearDown, Free
  <2>2. queue' = queue \/ queue'["High"] = <<>>
    BY <1>5 DEF TearDown, Free, Workers
  <2> QED BY <2>1, <2>2 DEF NoNullWork
<1>6. CASE StartLow
  BY <1>2, <1>6 DEF StartLow, Goto, TypeOK, Workers
<1>7. CASE CodecFails \/ StartSingle \/ InitFields \/ DisconnectFails
  BY <1>2, <1>7 DEF CodecFails, StartSingle, InitFields, DisconnectFails
<1>8. CASE AddAudio \/ ClearLow \/ PillLow \/ PillAudio
  BY <1>2, <1>8 DEF AddAudio, Add, ClearLow, PillLow, PillAudio, Push, TypeOK,
     Workers
<1>9. CASE Environment
  BY <1>2, <1>9 DEF Environment, SendVideo, SendAudio, Arrive, Disconnect
<1>10. ASSUME NEW t \in Workers, Worker(t)
       PROVE  NoNullWork'
  <2>1. CASE Check(t) \/ UseAfterFree(t)
    BY <1>2, <2>1 DEF Check, UseAfterFree, Goto, TypeOK, Workers
  <2>2. CASE Wait(t)
    BY <1>2, <2>2 DEF Wait, Goto, TypeOK, Workers
  <2>3. CASE WakeUp(t)
    BY <1>2, <2>3 DEF WakeUp, Goto, TypeOK, Workers
  <2>4. CASE Get(t)
    <3>1. t # "High" /\ pc'["High"] = pc["High"] /\ ctx' = ctx
      BY <2>4 DEF Get, Take, Goto, TypeOK, Workers
    <3>2. queue'["High"] = queue["High"] /\ work'["High"] = work["High"]
      BY <1>0, <2>4, <3>1, TakeFrame DEF Get
    <3> QED BY <1>2, <3>1, <3>2
  <2> QED BY <1>10, <2>1, <2>2, <2>3, <2>4 DEF Worker
<1>11. CASE GetHigh
  <2>1. ctx' = ctx /\ pc'["High"] \in {"addLow", "sample"} /\ pc["High"] = "get"
    BY <1>0, <1>11 DEF GetHigh, Take, Goto, TypeOK, At
  <2>2. CASE queue["High"] = <<>>
    <3>1. ctx # "live" /\ queue' = queue
      BY <1>11, <2>1, <2>2 DEF NoNullWork, GetHigh, Take
    <3> QED BY <2>1, <3>1 DEF NoNullWork
  <2>3. CASE queue["High"] # <<>>
    <3>1. Take("High")
      BY <1>11 DEF GetHigh
    <3>2. work'["High"] # NullWork
      BY <1>0, <2>3, <3>1, TakeMoves DEF NoNullWork
    <3>3. Real(queue'["High"])
      BY <1>0, <2>3, <3>1, TakeMoves DEF NoNullWork
    <3> QED BY <2>1, <3>2, <3>3 DEF NoNullWork
  <2> QED BY <2>2, <2>3
<1>12. CASE Fill \/ NapInBuffering \/ EndBuffering
  BY <1>2, <1>12 DEF Fill, NapInBuffering, EndBuffering, Goto, TypeOK, Workers
<1>13. CASE AddLow
  BY <1>2, <1>13 DEF AddLow, Push, Goto, TypeOK, Workers, At
<1>14. CASE SampleHigh \/ SendHighVideo
  BY <1>2, <1>14 DEF SampleHigh, SendHighVideo, Goto, TypeOK, Workers
<1>15. CASE LowThread \/ AudioThread
  BY <1>2, <1>15 DEF LowThread, SendLowVideo, AudioThread, SampleAudio,
     NapInHold, EndHold, SendAudioFrame, Goto, TypeOK, Workers
<1>16. CASE Tick \/ Ended \/ UNCHANGED vars
  BY <1>2, <1>16, TickFrame
<1> QED BY <1>3, <1>4, <1>5, <1>6, <1>7, <1>8, <1>9, <1>10, <1>11, <1>12,
           <1>13, <1>14, <1>15, <1>16 DEF Next, Main, HighThread

\* A queued finished work stays queued when another work is added ...
LEMMA QueuedAfterPush ==
  ASSUME TypeOK, NEW t \in Workers, NEW w \in Work, Push(t, w),
         FinishQueued(t) \/ w.is_finished
  PROVE  FinishQueued(t)'
<1>1. Len(queue[t]) \in Nat
  BY DEF TypeOK
<1>2. CASE FinishQueued(t)
  <2>1. PICK i \in 1..Len(queue[t]) : queue[t][i].is_finished
    BY <1>2 DEF FinishQueued
  <2>2. i \in 1..Len(queue'[t]) /\ queue'[t][i].is_finished
    BY <1>1, <2>1, PushAdds
  <2> QED BY <2>2 DEF FinishQueued
<1>3. CASE w.is_finished
  <2>1. Len(queue[t]) + 1 \in 1..Len(queue'[t])
    BY <1>1, PushAdds
  <2>2. queue'[t][Len(queue[t]) + 1].is_finished
    BY <1>3, PushAdds
  <2> QED BY <2>1, <2>2 DEF FinishQueued
<1> QED BY <1>2, <1>3

\* ... and until the worker takes it.
LEMMA QueuedAfterTake ==
  ASSUME TypeOK, NEW t \in Workers, Take(t), FinishQueued(t)
  PROVE  FinishQueued(t)' \/ (queue[t] # <<>> /\ work'[t].is_finished)
<1>1. PICK i \in 1..Len(queue[t]) : queue[t][i].is_finished
  BY DEF FinishQueued
<1>2. Len(queue[t]) \in Nat /\ queue[t] # <<>>
  BY <1>1 DEF TypeOK
<1>3. CASE i = 1
  BY <1>1, <1>2, <1>3, TakeMoves
<1>4. CASE i # 1
  <2>1. i - 1 \in 1..Len(queue'[t])
    BY <1>1, <1>2, <1>4, TakeMoves
  <2>2. queue'[t][i - 1].is_finished
    BY <1>1, <1>2, <2>1, TakeMoves
  <2> QED BY <2>1, <2>2 DEF FinishQueued
<1> QED BY <1>3, <1>4

\* A worker that will come across a finished work still will after any step of
\* a worker, as long as the context is there.
LEMMA SeesFinishStep ==
  ASSUME TypeOK, Loops, ctx = "live", WorkerStep,
         NEW t \in Workers, SeesFinish(t)
  PROVE  SeesFinish(t)'
<1> USE DEF dataVars, flagVars
<1>0. "High" \in Workers /\ "Low" \in Workers /\ "Audio" \in Workers
  BY DEF Workers
<1>1. ASSUME queue'[t] = queue[t], pc'[t] = pc[t], work'[t] = work[t]
      PROVE  SeesFinish(t)'
  BY <1>1 DEF SeesFinish, FinishQueued, Ending
<1>2. ASSUME queue'[t] = queue[t], ~Ending(t),
             ~(t = "High" /\ pc[t] \in {"addLow", "sample"})
      PROVE  SeesFinish(t)'
  BY <1>2 DEF SeesFinish, FinishQueued
<1>3. ASSUME NEW u \in Workers, Worker(u)
      PROVE  SeesFinish(t)'
  <2>1. CASE Check(u) \/ Wait(u) \/ WakeUp(u)
    BY <1>1, <1>2, <2>1 DEF Check, Wait, WakeUp, Goto, At, TypeOK, Ending
  <2>2. CASE Get(u) /\ u # t
    BY <1>1, <2>2, TakeFrame DEF Get, Goto, TypeOK
  <2>3. CASE Get(u) /\ u = t
    <3>1. FinishQueued(t)
      BY <2>3 DEF SeesFinish, Ending, Get, At
    <3>2. CASE FinishQueued(t)'
      BY <3>2 DEF SeesFinish
    <3>3. CASE queue[t] # <<>> /\ work'[t].is_finished
      <4>1. Taken(t).is_finished
        BY <2>3, <3>3 DEF Get, Take, TypeOK
      <4>2. Taken(t) # NullWork
        BY <4>1 DEF NullWork
      <4>3. pc'[t] = "done"
        BY <2>3, <4>1, <4>2 DEF Get, Goto, TypeOK
      <4> QED BY <4>3 DEF SeesFinish, Ending
    <3> QED BY <2>3, <3>1, <3>2, <3>3, QueuedAfterTake DEF Get
  <2>4. CASE UseAfterFree(u)
    BY <2>4 DEF UseAfterFree, Dangling
  <2> QED BY <1>3, <2>1, <2>2, <2>3, <2>4 DEF Worker
<1>4. CASE Fill \/ NapInBuffering \/ EndBuffering \/ SendHighVideo
  BY <1>1, <1>2, <1>4 DEF Fill, NapInBuffering, EndBuffering, SendHighVideo,
     Goto, At, TypeOK, Ending
<1>5. CASE GetHigh
  <2>1. CASE t # "High"
    BY <1>0, <1>1, <1>5, <2>1, TakeFrame DEF GetHigh, Goto, TypeOK
  <2>2. CASE t = "High"
    <3>1. FinishQueued(t)
      BY <1>5, <2>2 DEF SeesFinish, Ending, GetHigh, At
    <3>2. pc'[t] \in {"addLow", "sample"}
      BY <1>5, <2>2 DEF GetHigh, Goto, TypeOK
    <3>3. FinishQueued(t)' \/ work'[t].is_finished
      BY <1>5, <2>2, <3>1, QueuedAfterTake DEF GetHigh
    <3> QED BY <2>2, <3>2, <3>3 DEF SeesFinish
  <2> QED BY <2>1, <2>2
<1>6. CASE AddLow
  <2>1. work["High"] \in Work /\ Push("Low", work["High"])
    BY <1>0, <1>6 DEF AddLow, TypeOK
  <2>2. CASE t = "Low"
    <3>1. pc'[t] = pc[t]
      BY <1>6, <2>2 DEF AddLow, Goto, TypeOK
    <3>2. FinishQueued(t) => FinishQueued(t)'
      BY <1>0, <2>1, <2>2, QueuedAfterPush
    <3> QED BY <2>2, <3>1, <3>2 DEF SeesFinish, Ending
  <2>3. CASE t = "High"
    <3>1. pc[t] = "addLow" /\ pc'[t] = "sample" /\ work' = work
      BY <1>6, <2>3 DEF AddLow, Goto, TypeOK, At
    <3>2. queue'[t] = queue[t]
      BY <1>0, <2>1, <2>3, PushAdds
    <3> QED BY <2>3, <3>1, <3>2 DEF SeesFinish, FinishQueued, Ending
  <2>4. CASE t = "Audio"
    BY <1>0, <1>1, <1>6, <2>1, <2>4, PushAdds DEF AddLow, Goto, TypeOK
  <2> QED BY <2>2, <2>3, <2>4 DEF Workers
<1>7. CASE SampleHigh
  <2>1. queue' = queue /\ work' = work /\ pc["High"] = "sample"
    BY <1>7 DEF SampleHigh, At
  <2>2. CASE t # "High"
    BY <1>1, <1>7, <2>1, <2>2 DEF SampleHigh, Goto, TypeOK
  <2>3. CASE t = "High" /\ work[t].is_finished
    <3>1. work[t] # NullWork
      BY <2>3 DEF NullWork
    <3>2. pc'[t] = "done"
      BY <1>7, <2>3, <3>1 DEF SampleHigh, Goto, TypeOK
    <3> QED BY <3>2 DEF SeesFinish, Ending
  <2>4. CASE t = "High" /\ ~work[t].is_finished
    BY <2>1, <2>4 DEF SeesFinish, FinishQueued, Ending
  <2> QED BY <2>2, <2>3, <2>4
<1>8. CASE LowThread \/ AudioThread
  BY <1>1, <1>2, <1>8 DEF LowThread, SendLowVideo, AudioThread, SampleAudio,
     NapInHold, EndHold, SendAudioFrame, Goto, At, TypeOK, Ending
<1> QED BY <1>3, <1>4, <1>5, <1>6, <1>7, <1>8 DEF WorkerStep, HighThread

\* Each worker that agora_disconnect has told to finish will find out.
LEMMA ToldStep ==
  ASSUME TypeOK, Flags, Loops, Inputs, ToldSeesFinish, [Next]_vars
  PROVE  ToldSeesFinish'
<1> USE DEF dataVars, flagVars
<1>0. "High" \in Workers /\ "Low" \in Workers /\ "Audio" \in Workers
  BY DEF Workers
<1>1. ASSUME NEW t \in Workers, Push(t, pill), pill.is_finished, pc' = pc,
             work' = work, \A u \in Workers : Told(u)' => Told(u) \/ u = t \/ Ending(u)
      PROVE  ToldSeesFinish'
  <2>1. FinishQueued(t)'
    BY <1>1, QueuedAfterPush DEF TypeOK
  <2>2. ASSUME NEW u \in Workers \ {t}, Told(u) \/ Ending(u)
        PROVE  SeesFinish(u)'
    <3>1. SeesFinish(u)
      BY <2>2 DEF ToldSeesFinish, SeesFinish
    <3>2. queue'[u] = queue[u]
      BY <1>1, <2>2, PushAdds DEF TypeOK
    <3> QED BY <1>1, <3>1, <3>2 DEF SeesFinish, FinishQueued, Ending
  <2> QED BY <1>1, <2>1, <2>2 DEF ToldSeesFinish, SeesFinish
<1>2. CASE PillHigh
  <2>1. \A u \in Workers : Told(u)' => u = "High" \/ Ending(u)
    BY <1>2 DEF PillHigh, Told, Loops, Ending
  <2> QED BY <1>0, <1>1, <1>2, <2>1 DEF PillHigh, Inputs
<1>3. CASE ClearLow
  <2>1. queue'["High"] = queue["High"]
    BY <1>0, <1>3 DEF ClearLow, TypeOK
  <2>2. SeesFinish("High")
    BY <1>0, <1>3 DEF ClearLow, ToldSeesFinish, Told
  <2> QED BY <1>3, <2>1, <2>2 DEF ClearLow, ToldSeesFinish, Told, SeesFinish,
          FinishQueued, Ending
<1>4. CASE PillLow
  <2>1. \A u \in Workers : Told(u)' => Told(u) \/ u = "Low"
    BY <1>4 DEF PillLow, Told
  <2> QED BY <1>0, <1>1, <1>4, <2>1 DEF PillLow, Inputs
<1>5. CASE PillAudio
  <2>1. \A u \in Workers : Told(u)' => Told(u) \/ u = "Audio"
    BY <1>5 DEF PillAudio, Told, Workers
  <2> QED BY <1>0, <1>1, <1>5, <2>1 DEF PillAudio, Inputs
<1>6. CASE DisconnectFails \/ TearDown \/ Free
  BY <1>6 DEF DisconnectFails, TearDown, Free, ToldSeesFinish, Told
<1>7. CASE \/ StartLow \/ CodecFails \/ StartSingle \/ InitFields \/ AddVideo
           \/ AddAudio \/ Environment
  BY <1>7 DEF StartLow, CodecFails, StartSingle, InitFields, AddVideo, AddAudio,
     Add, Environment, SendVideo, SendAudio, Arrive, Disconnect,
     ToldSeesFinish, Told
<1>8. CASE WorkerStep
  <2> SUFFICES ASSUME NEW t \in Workers, Told(t)' PROVE SeesFinish(t)'
    BY DEF ToldSeesFinish
  <2>1. Told(t) /\ ctx = "live"
    BY <1>8, WorkerFrame DEF Told, Flags
  <2> QED BY <1>8, <2>1, SeesFinishStep DEF ToldSeesFinish
<1>9. CASE Tick \/ Ended \/ UNCHANGED vars
  BY <1>9, TickFrame DEF ToldSeesFinish, Told, SeesFinish, FinishQueued, Ending
<1> QED BY <1>2, <1>3, <1>4, <1>5, <1>6, <1>7, <1>8, <1>9 DEF Next, Main,
        WorkerStep

\* Once isRunning is false a worker that sleeps, or just has, goes on to end,
\* even if the members are gone; and a worker that has ended does nothing.
LEMMA HarmlessStep ==
  ASSUME TypeOK, Loops, WorkerStep, ~isRunning, ctx # "freed",
         \A t \in Workers : Harmless(t)
  PROVE  \A t \in Workers : Harmless(t)'
<1> USE DEF Harmless, Ending, Goto
<1>0. /\ "High" \in Workers /\ "Low" \in Workers /\ "Audio" \in Workers
      /\ "Low" \notin Paced
  BY DEF Workers, Paced
<1>1. ASSUME NEW t \in Workers, Worker(t)
      PROVE  \A u \in Workers : Harmless(u)'
  <2>1. ~Wait(t) /\ ~Get(t)
    BY <1>1 DEF Wait, Get, At
  <2>2. ~UseAfterFree(t)
    BY <1>1 DEF UseAfterFree, Dangling, Blocked, FlagsOnly
  <2>3. CASE Check(t)
    BY <2>3 DEF Check, At, TypeOK
  <2>4. CASE WakeUp(t)
    BY <2>4 DEF WakeUp, TypeOK
  <2> QED BY <1>1, <2>1, <2>2, <2>3, <2>4 DEF Worker
<1>2. ~HighThread
  BY <1>0 DEF HighThread, Fill, NapInBuffering, EndBuffering, GetHigh, AddLow,
     SampleHigh, SendHighVideo, At
<1>3. ~LowThread /\ ~AudioThread
  BY <1>0 DEF LowThread, SendLowVideo, AudioThread, SampleAudio, NapInHold,
     EndHold, SendAudioFrame, At
<1> QED BY <1>1, <1>2, <1>3 DEF WorkerStep

\* A stopped session's workers start no new nap.
LEMMA NoNewNap ==
  ASSUME WorkerStep, ~isRunning PROVE nap' = nap
<1>1. ASSUME NEW t \in Workers, Worker(t)
      PROVE  nap' = nap
  BY <1>1 DEF Worker, Check, Wait, Get, Take, WakeUp, UseAfterFree
<1>2. ~NapInBuffering /\ ~NapInHold
  BY DEF NapInBuffering, NapInHold, Buffering
<1> QED BY <1>1, <1>2 DEF WorkerStep, HighThread, Fill, EndBuffering, GetHigh,
        Take, AddLow, SampleHigh, SendHighVideo, LowThread,
        SendLowVideo, AudioThread, SampleAudio, EndHold, SendAudioFrame

\* A tick passes only when every worker is blocked; once none naps, the only
\* place left to a worker that sees a finished work coming is its sleep.
LEMMA BlockedIsHarmless ==
  ASSUME TypeOK, Loops, NoneStray, ctx = "live", NEW t \in Workers,
         SeesFinish(t), Blocked(t), nap[t] = 0
  PROVE  Harmless(t)
<1>1. CASE Ending(t)
  BY <1>1 DEF Harmless
<1>2. CASE pc[t] = "sleep"
  BY <1>2 DEF Harmless, Loops, LabelsOf, Workers, Paced
<1>3. CASE ~Ending(t) /\ pc[t] # "sleep"
  <2>1. pc[t] = "wait" /\ queue[t] = <<>>
    BY <1>3 DEF Blocked, Ending, NoneStray
  <2>2. ~SeesFinish(t)
    BY <2>1 DEF SeesFinish, FinishQueued, Ending
  <2> QED BY <2>2
<1> QED BY <1>1, <1>2, <1>3

\* Two ticks of the grace period, and tear-down comes over sleepers only.
LEMMA SettlingStep ==
  ASSUME IInv, [Next]_vars PROVE Settling'
<1> USE DEF IInv
<1>0. Grace \in Nat /\ nap \in [Workers \cup {"Main"} -> Nat] /\ "Main" \notin Workers
  BY BoundsAssumption DEF TypeOK, Workers
<1>1. CASE PillAudio
  BY <1>0, <1>1 DEF PillAudio, Settling
<1>2. CASE TearDown
  <2>1. nap["Main"] < Grace - 1 /\ mainPc = "grace"
    BY <1>0, <1>2, GraceAssumption DEF TearDown
  <2>2. pc' = pc /\ mainPc' = "torn"
    BY <1>2 DEF TearDown
  <2> QED BY <2>1, <2>2 DEF Settling, Harmless, Ending
<1>3. CASE \/ StartLow \/ CodecFails \/ StartSingle \/ InitFields \/ AddVideo
           \/ AddAudio \/ PillHigh \/ ClearLow \/ PillLow \/ DisconnectFails
           \/ Free \/ Environment
  BY <1>3 DEF StartLow, CodecFails, StartSingle, InitFields, AddVideo, AddAudio,
     Add, PillHigh, ClearLow, PillLow, DisconnectFails, Free, Environment,
     SendVideo, SendAudio, Arrive, Disconnect, Settling
<1>4. CASE WorkerStep
  <2>1. mainPc' = mainPc
    BY <1>4, WorkerFrame
  <2>2. CASE mainPc \in {"grace", "torn"}
    <3>1. ~isRunning /\ ctx # "freed"
      BY <2>2 DEF Flags, Running
    <3>2. nap' = nap
      BY <1>4, <3>1, NoNewNap
    <3>3. (\A t \in Workers : Harmless(t)) => \A t \in Workers : Harmless(t)'
      BY <1>4, <3>1, HarmlessStep
    <3> QED BY <2>1, <3>2, <3>3 DEF Settling
  <2>3. CASE mainPc \notin {"grace", "torn"}
    BY <2>1, <2>3 DEF Settling
  <2> QED BY <2>2, <2>3
<1>5. CASE Tick
  <2>1. mainPc' = mainPc /\ pc' = pc /\ mainPc # "torn"
    BY <1>5 DEF Tick, MainBlocked
  <2>2. \A t \in Workers \cup {"Main"} :
          nap'[t] = IF nap[t] > 0 THEN nap[t] - 1 ELSE 0
    BY <1>0, <1>5 DEF Tick, Less
  <2>3. \A t \in Workers : nap'[t] = 0
    BY <1>0, <2>2 DEF Loops
  <2>4. ASSUME mainPc = "grace", nap'["Main"] < Grace - 1
        PROVE  \A t \in Workers : Harmless(t)'
    <3>1. nap["Main"] < Grace
      BY <1>0, <1>5, <2>2, <2>4, GraceAssumption
    <3>2. \A t \in Workers : nap[t] = 0 /\ Blocked(t) /\ SeesFinish(t)
      BY <1>5, <2>4, <3>1 DEF Settling, Tick, ToldSeesFinish, Told
    <3>3. ctx = "live"
      BY <2>4 DEF Flags
    <3>4. \A t \in Workers : Harmless(t)
      BY <3>2, <3>3, BlockedIsHarmless
    <3> QED BY <2>1, <3>4 DEF Harmless, Ending
  <2> QED BY <2>1, <2>3, <2>4 DEF Settling
<1>6. CASE Ended \/ UNCHANGED vars
  BY <1>6 DEF Ended, vars, threadVars, Settling, Harmless, Ending
<1> QED BY <1>1, <1>2, <1>3, <1>4, <1>5, <1>6 DEF Next, Main, WorkerStep

\* Before the context is freed no worker meets a null work or a missing member.
LEMMA NoneStrayStep ==
  ASSUME IInv, [Next]_vars PROVE NoneStray'
<1> USE DEF IInv
<1>1. CASE Main \/ Environment
  <2>1. ctx = "freed" => ctx' = "freed"
    BY <1>1 DEF Main, StartLow, CodecFails, StartSingle, InitFields, AddVideo,
       AddAudio, Add, PillHigh, ClearLow, PillLow, PillAudio, DisconnectFails,
       TearDown, Free, Environment, SendVideo, SendAudio, Arrive, Disconnect,
       Flags, flagVars
  <2>2. \A t \in Workers : pc[t] # "ub" => pc'[t] # "ub"
    BY <1>1, MainFrame DEF TypeOK
  <2> QED BY <2>1, <2>2 DEF NoneStray
<1>2. CASE WorkerStep
  <2> SUFFICES ASSUME ctx # "freed" PROVE \A t \in Workers : pc'[t] # "ub"
    BY <1>2, WorkerFrame DEF NoneStray
  <2>1. ctx = "torn" => \A t \in Workers : Harmless(t)
    BY DEF Flags, Settling
  <2>2. ASSUME NEW t \in Workers PROVE ~UseAfterFree(t)
    BY <2>1 DEF UseAfterFree, Dangling, Blocked, FlagsOnly, Harmless, Ending
  <2>3. SampleHigh => work["High"] # NullWork
    <3>1. CASE ctx = "torn"
      BY <2>1, <3>1 DEF SampleHigh, At, Harmless, Ending, Workers
    <3>2. CASE ctx = "live"
      BY <3>2 DEF SampleHigh, At, NoNullWork
    <3> QED BY <3>1, <3>2 DEF Flags
  <2>4. ASSUME NEW t \in Workers, Worker(t)
        PROVE  \A u \in Workers : pc'[u] # "ub"
    <3>1. CASE Check(t) \/ Wait(t) \/ WakeUp(t)
      BY <3>1 DEF Check, Wait, WakeUp, Goto, TypeOK, NoneStray
    <3>2. CASE Get(t)
      BY <3>2 DEF Get, Goto, TypeOK, NoneStray
    <3> QED BY <2>2, <2>4, <3>1, <3>2 DEF Worker
  <2>5. CASE HighThread
    BY <2>3, <2>5 DEF HighThread, Fill, NapInBuffering, EndBuffering, GetHigh,
       AddLow, SampleHigh, SendHighVideo, Goto, TypeOK, NoneStray
  <2>6. CASE LowThread \/ AudioThread
    BY <2>6 DEF LowThread, SendLowVideo, AudioThread, SampleAudio, NapInHold,
       EndHold, SendAudioFrame, Goto, TypeOK, NoneStray
  <2> QED BY <1>2, <2>4, <2>5, <2>6 DEF WorkerStep
<1>3. CASE Tick \/ Ended \/ UNCHANGED vars
  BY <1>3, TickFrame DEF flagVars, NoneStray
<1> QED BY <1>1, <1>2, <1>3 DEF Next, WorkerStep

\* The invariant holds at the start.
LEMMA InitEstablishes == Init => IInv
<1> SUFFICES ASSUME Init PROVE IInv
  OBVIOUS
<1> USE DEF Init
<1>1. Flags /\ Inputs /\ Settling
  BY DEF Flags, Running, Inputs, Settling
<1>2. Loops
  BY DEF Loops, LabelsOf, Labels, Workers
<1>3. NoNullWork
  BY DEF NoNullWork, Workers
<1>4. ToldSeesFinish /\ NoneStray
  BY DEF ToldSeesFinish, Told, NoneStray
<1> QED BY <1>1, <1>2, <1>3, <1>4, TypeInit DEF IInv

\* And in every state of every behaviour.
LEMMA Invariance == Spec => []IInv
<1>1. IInv /\ [Next]_vars => IInv'
  BY TypeStep, FlagsStep, LoopsStep, InputsStep, NoNullWorkStep, ToldStep,
     SettlingStep, NoneStrayStep DEF IInv
<1> QED BY <1>1, InitEstablishes, PTL DEF Spec

\* The high video thread never gets a null work, and no thread runs into the
\* members that tear-down has nulled before the context is freed.
THEOREM HighNeverGetsNull == Spec => []HighWorkNeverNull
<1>1. IInv => HighWorkNeverNull
  BY DEF IInv, NoneStray, HighWorkNeverNull, Workers
<1> QED BY <1>1, Invariance, PTL

\* For any grace period of two naps or more, any frames and any timestamps,
\* the context is torn down over sleeping or ended workers only.
THEOREM TearDownMeetsSleepers == Spec => TornDownOverSleepers
<1> DEFINE Meets == ctx = "live" /\ ctx' = "torn" => \A t \in Workers : Harmless(t)
<1>1. IInv /\ [Next]_vars => Meets
  <2> SUFFICES ASSUME IInv, [Next]_vars, ctx = "live", ctx' = "torn"
               PROVE  \A t \in Workers : Harmless(t)
    OBVIOUS
  <2>1. mainPc # "torn" /\ mainPc' = "torn"
    <3>1. Flags'
      BY FlagsStep DEF IInv
    <3> QED BY <3>1 DEF IInv, Flags
  <2>2. TearDown
    <3>1. ~WorkerStep /\ ~(Tick \/ Ended \/ UNCHANGED vars)
      BY <2>1, WorkerFrame, TickFrame
    <3> QED BY <2>1, <3>1 DEF Next, WorkerStep, Main, StartLow, CodecFails,
            StartSingle, InitFields, AddVideo, AddAudio, Add, PillHigh,
            ClearLow, PillLow, PillAudio, DisconnectFails, Free, Environment,
            SendVideo, SendAudio, Arrive, Disconnect
  <2>3. mainPc = "grace" /\ nap["Main"] = 0
    BY <2>2 DEF TearDown
  <2>4. nap["Main"] < Grace - 1
    BY <2>3, BoundsAssumption, GraceAssumption
  <2> QED BY <2>3, <2>4 DEF IInv, Settling
<1>2. Meets => [ctx = "live" /\ ctx' = "torn"
                  => \A t \in Workers :
                       \/ Ending(t)
                       \/ t \in Paced /\ pc[t] \in {"sleep", "check"}]_vars
  BY DEF Harmless
<1> QED BY <1>1, <1>2, Invariance, PTL DEF Spec, TornDownOverSleepers

-----------------------------------------------------------------------------
(* The frames on their way.                                                *)

\* q holds the frames first..last, and behind them the finished work if
\* pills is 1.
Queued(q, first, last, pills) ==
  /\ last >= first - 1
  /\ Len(q) = last - first + 1 + pills
  /\ \A i \in 1..Len(q) :
       IF i > last - first + 1 THEN q[i].is_finished
       ELSE q[i].id = first + i - 1 /\ ~q[i].is_finished

\* The frames in q are increasing and above low, up to high.
Ascending(q, low, high) ==
  \A i \in 1..Len(q) : ~q[i].is_finished =>
    /\ low < q[i].id /\ q[i].id <= high
    /\ \A j \in 1..(i - 1) : ~q[j].is_finished => q[j].id < q[i].id

HoldsFrame(t)  == pc[t] \in Holding /\ ~work[t].is_finished
HoldsFinish(t) == pc[t] \in Holding /\ work[t].is_finished

\* The last frame that the worker t has taken.
LastTaken(t) == IF HoldsFrame(t) THEN work[t].id ELSE handled[t]

\* agora_disconnect has added the finished work to the queue of t.
PillAdded(t) == Told(t) \/ mainPc = "leaked"

\* How often it is in that queue.
Pills(t) == IF PillAdded(t) /\ ~HoldsFinish(t) THEN 1 ELSE 0

\* What is on its way to a paced worker that has not ended.
InTurn(t) ==
  /\ HoldsFrame(t) => work[t].id = handled[t] + 1
  /\ HoldsFinish(t) => /\ PillAdded(t)
                       /\ t = "High" /\ pc[t] \in {"addLow", "sample"}
                       /\ handled[t] = Submitted(t)
  /\ Queued(queue[t], LastTaken(t) + 1, Submitted(t), Pills(t))
Turn(t) == ctx = "live" /\ pc[t] # "done" => InTurn(t)
PacedInTurn == \A t \in Paced : Turn(t)

\* No paced frame is sent that was not submitted, and only frames are
\* submitted.
SentSubmitted == \A t \in Paced : handled[t] <= Submitted(t)
FramesArrive == /\ \A t \in Paced : ~arrived[t].is_finished
                /\ mainPc = "addVideo" => arrived["High"].id > 0
                /\ mainPc = "addAudio" => arrived["Audio"].id > 0

\* The last frame that High has passed on to Low.
Passed == IF pc["High"] \in {"sample", "send"} /\ ~work["High"].is_finished
          THEN work["High"].id ELSE handled["High"]

\* What is on its way to the low worker.
LowBehind ==
  enable_dual /\ ctx = "live" =>
    /\ LastTaken("Low") <= Passed
    /\ pc["Low"] = "send" => /\ ~work["Low"].is_finished
                             /\ work["Low"].id > handled["Low"]
    /\ Ascending(queue["Low"], LastTaken("Low"), Passed)
    /\ isRunning => /\ Queued(queue["Low"], LastTaken("Low") + 1, Passed, 0)
                    /\ pc["Low"] = "send" => work["Low"].id = handled["Low"] + 1

\* The low thread is started once.
LowUnborn == mainPc = "starting" => pc["Low"] = "unborn"

RInv == LowUnborn /\ SentSubmitted /\ FramesArrive /\ PacedInTurn /\ LowBehind

-----------------------------------------------------------------------------
(* Sequences of works.                                                     *)

\* One more frame is queued ...
LEMMA QueuedFrame ==
  ASSUME NEW q \in Seq(Work), NEW w \in Work, NEW first \in Int, NEW last \in Int,
         Queued(q, first, last, 0), w.id = last + 1, ~w.is_finished
  PROVE  Queued(Append(q, w), first, last + 1, 0)
<1> DEFINE longer == Append(q, w)
<1>1. /\ Len(q) \in Nat /\ Len(q) = last - first + 1 /\ last >= first - 1
      /\ \A i \in 1..Len(q) : q[i].id = first + i - 1 /\ ~q[i].is_finished
  BY DEF Queued
<1>2. /\ Len(longer) = Len(q) + 1 /\ longer[Len(q) + 1] = w
      /\ \A i \in 1..Len(q) : longer[i] = q[i]
  OBVIOUS
<1> HIDE DEF longer
<1>3. \A i \in 1..Len(longer) : longer[i].id = first + i - 1 /\ ~longer[i].is_finished
  <2> TAKE i \in 1..Len(longer)
  <2>1. CASE i \in 1..Len(q)
    BY <1>1, <1>2, <2>1
  <2>2. CASE i = Len(q) + 1
    <3>1. longer[i] = w /\ first + i - 1 = last + 1
      BY <1>1, <1>2, <2>2
    <3> QED BY <3>1
  <2>3. i \in 1..Len(q) \/ i = Len(q) + 1
    BY <1>1, <1>2
  <2> QED BY <2>1, <2>2, <2>3
<1>4. Queued(longer, first, last + 1, 0)
  <2>1. /\ last + 1 >= first - 1
        /\ Len(longer) = (last + 1) - first + 1 + 0
    BY <1>1, <1>2
  <2>2. \A i \in 1..Len(longer) : ~(i > (last + 1) - first + 1)
    BY <2>1
  <2> QED BY <1>3, <2>1, <2>2 DEF Queued
<1> QED BY <1>4 DEF longer

\* ... or the finished work ...
LEMMA QueuedFinish ==
  ASSUME NEW q \in Seq(Work), NEW w \in Work, NEW first \in Int, NEW last \in Int,
         Queued(q, first, last, 0), w.is_finished
  PROVE  Queued(Append(q, w), first, last, 1)
BY DEF Queued

\* ... and taken: first the frames, then the finished work.
LEMMA QueuedTake ==
  ASSUME NEW q \in Seq(Work), NEW first \in Int, NEW last \in Int,
         NEW pills \in {0, 1}, Queued(q, first, last, pills), q # <<>>
  PROVE  \/ /\ ~Head(q).is_finished /\ Head(q).id = first
            /\ Queued(Tail(q), first + 1, last, pills)
         \/ /\ Head(q).is_finished /\ pills = 1 /\ last = first - 1
            /\ Queued(Tail(q), first, last, 0)
<1>1. /\ Head(q) = q[1] /\ Len(q) \in Nat \ {0}
      /\ Tail(q) \in Seq(Work) /\ Len(Tail(q)) = Len(q) - 1
      /\ \A i \in 1..Len(Tail(q)) : Tail(q)[i] = q[i + 1]
  OBVIOUS
<1>2. CASE last > first - 1
  <2>1. ~Head(q).is_finished /\ Head(q).id = first
    BY <1>1, <1>2 DEF Queued
  <2>2. Queued(Tail(q), first + 1, last, pills)
    <3> DEFINE less == Tail(q)
    <3>1. /\ Len(q) = last - first + 1 + pills
          /\ \A i \in 1..Len(q) :
               IF i > last - first + 1 THEN q[i].is_finished
               ELSE q[i].id = first + i - 1 /\ ~q[i].is_finished
      BY DEF Queued
    <3>2. Len(less) = Len(q) - 1 /\ \A i \in 1..Len(less) : less[i] = q[i + 1]
      BY <1>1
    <3> HIDE DEF less
    <3>3. \A i \in 1..Len(less) :
            IF i > last - (first + 1) + 1 THEN less[i].is_finished
            ELSE less[i].id = (first + 1) + i - 1 /\ ~less[i].is_finished
      <4> TAKE i \in 1..Len(less)
      <4>1. i + 1 \in 1..Len(q) /\ less[i] = q[i + 1]
        BY <1>1, <3>2
      <4>2. IF i + 1 > last - first + 1 THEN q[i + 1].is_finished
            ELSE q[i + 1].id = first + (i + 1) - 1 /\ ~q[i + 1].is_finished
        BY <3>1, <4>1
      <4> QED BY <4>1, <4>2
    <3>4. Queued(less, first + 1, last, pills)
      BY <1>1, <1>2, <3>1, <3>2, <3>3 DEF Queued
    <3> QED BY <3>4 DEF less
  <2> QED BY <2>1, <2>2
<1>3. CASE last = first - 1
  <2>1. pills = 1 /\ Len(q) = 1 /\ q[1].is_finished
    BY <1>1, <1>3 DEF Queued
  <2>2. Len(Tail(q)) = 0 /\ last - first + 1 = 0
    BY <1>1, <1>3, <2>1
  <2>3. Queued(Tail(q), first, last, 0)
    <3> DEFINE r == Tail(q)
    <3>1. Len(r) = 0 /\ last >= first - 1 /\ last - first + 1 = 0
      BY <1>3, <2>2
    <3> HIDE DEF r
    <3>2. Queued(r, first, last, 0)
      BY <3>1 DEF Queued
    <3> QED BY <3>2 DEF r
  <2> QED BY <1>1, <1>3, <2>1, <2>3
<1> QED BY <1>2, <1>3 DEF Queued

\* A queue that is all taken up to the last frame holds the finished work or
\* nothing.
LEMMA QueuedEmpty ==
  ASSUME NEW first \in Int, NEW pills \in {0, 1}
  PROVE  Queued(<<>>, first, first - 1, pills) <=> pills = 0
BY DEF Queued

\* Frames stay in their order when a later one is added ...
LEMMA AscendingFrame ==
  ASSUME NEW q \in Seq(Work), NEW w \in Work, NEW low \in Int, NEW high \in Int,
         low <= high, Ascending(q, low, high), ~w.is_finished => w.id = high + 1
  PROVE  Ascending(Append(q, w), low, IF w.is_finished THEN high ELSE high + 1)
<1>1. \A i \in 1..Len(q) : q[i].id \in Nat
  <2>1. \A i \in 1..Len(q) : q[i] \in Work
    OBVIOUS
  <2> QED BY <2>1 DEF Work
<1>2. /\ Len(Append(q, w)) = Len(q) + 1 /\ Append(q, w)[Len(q) + 1] = w
      /\ \A i \in 1..Len(q) : Append(q, w)[i] = q[i]
  OBVIOUS
<1> DEFINE r   == Append(q, w)
           top == IF w.is_finished THEN high ELSE high + 1
<1>3. top \in Int /\ high <= top /\ Len(q) \in Nat
  OBVIOUS
<1> SUFFICES ASSUME NEW i \in 1..Len(r), ~r[i].is_finished
             PROVE  /\ low < r[i].id /\ r[i].id <= top
                    /\ \A j \in 1..(i - 1) :
                         ~r[j].is_finished => r[j].id < r[i].id
  BY DEF Ascending
<1>4. CASE i \in 1..Len(q)
  <2>1. low < q[i].id /\ q[i].id <= high /\ q[i].id \in Nat
    BY <1>1, <1>2, <1>4 DEF Ascending
  <2>2. \A j \in 1..(i - 1) : j \in 1..Len(q) /\ r[j] = q[j]
    BY <1>2, <1>3, <1>4
  <2>3. r[i] = q[i]
    BY <1>2, <1>4
  <2> HIDE DEF r, top
  <2>4. low < r[i].id /\ r[i].id <= top
    BY <1>3, <2>1, <2>3
  <2> QED BY <1>4, <2>2, <2>3, <2>4 DEF Ascending
<1>5. CASE i = Len(q) + 1
  <2>1. r[i] = w /\ w.id = high + 1 /\ top = high + 1
    BY <1>2, <1>5
  <2>2. ASSUME NEW j \in 1..(i - 1), ~r[j].is_finished
        PROVE  r[j].id <= high /\ r[j].id \in Nat
    <3>1. j \in 1..Len(q)
      BY <1>3, <1>5
    <3>2. r[j] = q[j]
      BY <1>2, <3>1
    <3> QED BY <1>1, <2>2, <3>1, <3>2 DEF Ascending
  <2> HIDE DEF r, top
  <2> QED BY <2>1, <2>2
<1> QED BY <1>2, <1>3, <1>4, <1>5

\* ... and when the first is taken.
LEMMA AscendingTake ==
  ASSUME NEW q \in Seq(Work), NEW low \in Int, NEW high \in Int,
         Ascending(q, low, high), q # <<>>
  PROVE  /\ Head(q).is_finished => Ascending(Tail(q), low, high)
         /\ ~Head(q).is_finished =>
              /\ low < Head(q).id /\ Head(q).id <= high
              /\ Ascending(Tail(q), Head(q).id, high)
<1>1. \A i \in 1..Len(q) : q[i].id \in Nat
  <2>1. \A i \in 1..Len(q) : q[i] \in Work
    OBVIOUS
  <2> QED BY <2>1 DEF Work
<1>2. /\ Head(q) = q[1] /\ Len(q) \in Nat \ {0}
      /\ Tail(q) \in Seq(Work) /\ Len(Tail(q)) = Len(q) - 1
      /\ \A i \in 1..Len(Tail(q)) : Tail(q)[i] = q[i + 1]
  OBVIOUS
<1> DEFINE r == Tail(q)
<1>3. \A i \in 1..Len(r) : r[i] = q[i + 1] /\ i + 1 \in 1..Len(q)
  BY <1>2
<1>4. ASSUME NEW i \in 1..Len(r), ~r[i].is_finished
      PROVE  /\ low < r[i].id /\ r[i].id <= high
             /\ \A j \in 1..i : ~q[j].is_finished => q[j].id < r[i].id
  <2>1. \A j \in 1..i : j \in 1..(i + 1 - 1)
    OBVIOUS
  <2> HIDE DEF r
  <2> QED BY <1>3, <1>4, <2>1 DEF Ascending
<1>5. ASSUME NEW i \in 1..Len(r), ~r[i].is_finished,
             NEW j \in 1..(i - 1), ~r[j].is_finished
      PROVE  r[j].id < r[i].id
  <2>1. j + 1 \in 1..i /\ j \in 1..Len(r) /\ r[j] = q[j + 1]
    BY <1>2
  <2> HIDE DEF r
  <2> QED BY <1>4, <1>5, <2>1
<1>6. CASE Head(q).is_finished
  <2> HIDE DEF r
  <2> QED BY <1>4, <1>5, <1>6 DEF r, Ascending
<1>7. CASE ~Head(q).is_finished
  <2>1. low < q[1].id /\ q[1].id <= high
    BY <1>2, <1>7 DEF Ascending
  <2>2. \A i \in 1..Len(r) : 1 \in 1..i
    BY <1>2
  <2> HIDE DEF r
  <2>3. Ascending(r, q[1].id, high)
    BY <1>2, <1>4, <1>5, <1>7, <2>2 DEF Ascending
  <2> QED BY <1>2, <1>7, <2>1, <2>3 DEF r
<1> QED BY <1>6, <1>7

-----------------------------------------------------------------------------
(* The paced workers.                                                      *)

\* A step that leaves a worker's queue, hand and finished work alone.
LEMMA TurnKept ==
  ASSUME NEW t \in Paced, Turn(t),
         ctx' = "live" => ctx = "live",
         pc[t] = "done" => pc'[t] = "done",
         queue'[t] = queue[t], handled'[t] = handled[t],
         Submitted(t)' = Submitted(t), PillAdded(t)' = PillAdded(t),
         \/ pc[t] \notin Holding /\ pc'[t] \notin Holding
         \/ /\ pc[t] \in Holding /\ pc'[t] \in Holding
            /\ work'[t] = work[t]
            /\ work[t].is_finished => pc'[t] \in {"addLow", "sample"}
  PROVE  Turn(t)'
BY DEF Turn, InTurn, HoldsFrame, HoldsFinish, LastTaken, Pills

\* A step of another thread.
LEMMA TurnOthers ==
  ASSUME NEW t \in Paced, Turn(t), ctx' = ctx, pc'[t] = pc[t],
         queue'[t] = queue[t], handled'[t] = handled[t], work'[t] = work[t],
         Submitted(t)' = Submitted(t), PillAdded(t)' = PillAdded(t)
  PROVE  Turn(t)'
BY DEF Turn, InTurn, HoldsFrame, HoldsFinish, LastTaken, Pills

\* The numbers of a paced worker are numbers.
LEMMA NumbersType ==
  ASSUME TypeOK, NEW t \in Paced
  PROVE  /\ t \in Workers /\ queue[t] \in Seq(Work) /\ work[t] \in Work
         /\ Submitted(t) \in Int /\ LastTaken(t) \in Nat /\ handled[t] \in Nat
<1>1. arrived[t] \in Work /\ t \in Workers
  BY DEF TypeOK, Paced, Workers
<1>2. work[t] \in Work /\ handled[t] \in Nat /\ queue[t] \in Seq(Work)
  BY <1>1 DEF TypeOK
<1>3. arrived[t].id \in Nat /\ work[t].id \in Nat
  BY <1>1, <1>2 DEF Work
<1> QED BY <1>1, <1>2, <1>3 DEF Submitted, LastTaken

\* agora_send_video adds a frame, or agora_disconnect the finished work.
LEMMA TurnPush ==
  ASSUME TypeOK, NEW t \in Paced, Turn(t), NEW w \in Work, Push(t, w),
         UNCHANGED <<pc, work, handled, ctx>>, ~PillAdded(t),
         \/ /\ ~w.is_finished /\ w.id = Submitted(t) + 1
            /\ Submitted(t)' = Submitted(t) + 1 /\ ~PillAdded(t)'
         \/ /\ w.is_finished /\ PillAdded(t)'
            /\ Submitted(t)' = Submitted(t)
  PROVE  Turn(t)'
<1> SUFFICES ASSUME ctx = "live", pc[t] # "done" PROVE InTurn(t)'
  BY DEF Turn
<1>1. ~HoldsFinish(t) /\ ~HoldsFinish(t)'
  BY DEF Turn, InTurn, HoldsFinish
<1>2. Queued(queue[t], LastTaken(t) + 1, Submitted(t), 0)
  BY <1>1 DEF Turn, InTurn, Pills
<1>3. queue'[t] = Append(queue[t], w) /\ queue[t] \in Seq(Work)
  BY NumbersType DEF Push, TypeOK
<1>4. LastTaken(t)' = LastTaken(t) /\ handled'[t] = handled[t]
  BY DEF LastTaken, HoldsFrame
<1>5. Queued(queue'[t], LastTaken(t) + 1, Submitted(t)', Pills(t)')
  <2>0. LastTaken(t) + 1 \in Int /\ Submitted(t) \in Int
    BY NumbersType
  <2>1. CASE w.is_finished
    <3>1. Submitted(t)' = Submitted(t) /\ Pills(t)' = 1
      BY <1>1, <2>1 DEF Pills
    <3>2. Queued(Append(queue[t], w), LastTaken(t) + 1, Submitted(t), 1)
      BY <1>2, <1>3, <2>0, <2>1, QueuedFinish
    <3> QED BY <1>3, <3>1, <3>2
  <2>2. CASE ~w.is_finished
    <3>1. Submitted(t)' = Submitted(t) + 1 /\ Pills(t)' = 0
      BY <1>1, <2>2 DEF Pills
    <3>2. Queued(Append(queue[t], w), LastTaken(t) + 1, Submitted(t) + 1, 0)
      BY <1>2, <1>3, <2>0, <2>2, QueuedFrame
    <3> QED BY <1>3, <3>1, <3>2
  <2> QED BY <2>1, <2>2
<1> QED BY <1>1, <1>4, <1>5 DEF Turn, InTurn, HoldsFrame

\* A worker takes the next work.
LEMMA TurnTake ==
  ASSUME TypeOK, NEW t \in Paced, Turn(t), Take(t), queue[t] # <<>>,
         ctx = "live", pc[t] = "get",
         Submitted(t)' = Submitted(t), PillAdded(t)' = PillAdded(t),
         IF Head(queue[t]).is_finished
         THEN pc'[t] = "done" \/ (t = "High" /\ pc'[t] \in {"addLow", "sample"})
         ELSE pc'[t] \in Holding
  PROVE  Turn(t)'
<1> SUFFICES ASSUME pc'[t] # "done" PROVE InTurn(t)'
  BY DEF Turn
<1>1. /\ work'[t] = Head(queue[t]) /\ queue'[t] = Tail(queue[t])
      /\ handled'[t] = handled[t] /\ handled[t] \in Nat /\ Submitted(t) \in Int
      /\ queue[t] \in Seq(Work)
  BY NumbersType DEF Take, Taken, TypeOK
<1>2. ~HoldsFinish(t) /\ ~HoldsFrame(t) /\ LastTaken(t) = handled[t]
  BY DEF HoldsFinish, HoldsFrame, LastTaken, Holding
<1> DEFINE q == queue[t]
           r == Tail(queue[t])
<1>3. Pills(t) \in {0, 1} /\ (Pills(t) = 1 <=> PillAdded(t))
  BY <1>2 DEF Pills
<1>4. Queued(q, handled[t] + 1, Submitted(t), Pills(t))
  BY <1>2 DEF Turn, InTurn
<1>5. \/ /\ ~Head(q).is_finished /\ Head(q).id = handled[t] + 1
         /\ Queued(r, handled[t] + 1 + 1, Submitted(t), Pills(t))
      \/ /\ Head(q).is_finished /\ Pills(t) = 1
         /\ Submitted(t) = handled[t] + 1 - 1
         /\ Queued(r, handled[t] + 1, Submitted(t), 0)
  BY <1>1, <1>3, <1>4, QueuedTake
<1>6. CASE ~Head(q).is_finished
  <2>1. work'[t].id = handled[t] + 1 /\ ~work'[t].is_finished /\ pc'[t] \in Holding
    BY <1>1, <1>5, <1>6
  <2>2. HoldsFrame(t)' /\ ~HoldsFinish(t)' /\ LastTaken(t)' = handled[t] + 1
    BY <2>1 DEF HoldsFrame, HoldsFinish, LastTaken
  <2>3. Pills(t)' = Pills(t)
    BY <1>2, <2>2 DEF Pills
  <2>4. Queued(r, handled[t] + 1 + 1, Submitted(t), Pills(t))
    BY <1>5, <1>6
  <2> HIDE DEF r
  <2>5. Queued(queue'[t], LastTaken(t)' + 1, Submitted(t)', Pills(t)')
    BY <1>1, <2>2, <2>3, <2>4 DEF r
  <2> QED BY <1>1, <2>1, <2>2, <2>5 DEF InTurn
<1>7. CASE Head(q).is_finished
  <2>1. t = "High" /\ pc'[t] \in {"addLow", "sample"} /\ work'[t].is_finished
    BY <1>1, <1>7
  <2>2. ~HoldsFrame(t)' /\ HoldsFinish(t)' /\ LastTaken(t)' = handled[t]
    BY <1>1, <2>1 DEF HoldsFrame, HoldsFinish, LastTaken, Holding
  <2>3. Pills(t)' = 0
    BY <2>2 DEF Pills
  <2>4. PillAdded(t)' /\ Queued(r, handled[t] + 1, Submitted(t), 0)
    BY <1>3, <1>5, <1>7
  <2>5. handled'[t] = Submitted(t)'
    BY <1>1, <1>5, <1>7
  <2> HIDE DEF r
  <2>6. Queued(queue'[t], LastTaken(t)' + 1, Submitted(t)', Pills(t)')
    BY <1>1, <2>2, <2>3, <2>4 DEF r
  <2> QED BY <2>1, <2>2, <2>4, <2>5, <2>6 DEF InTurn
<1> QED BY <1>6, <1>7

\* A worker sends what it has in its hand.
LEMMA TurnSend ==
  ASSUME TypeOK, NEW t \in Paced, Turn(t), ctx = "live", pc[t] = "send",
         pc'[t] = "sleep", queue' = queue, handled'[t] = work[t].id,
         UNCHANGED <<Submitted(t), PillAdded(t)>>
  PROVE  Turn(t)'
<1>1. HoldsFrame(t) /\ ~HoldsFinish(t) /\ LastTaken(t) = work[t].id
  BY DEF Turn, InTurn, HoldsFrame, HoldsFinish, LastTaken, Holding
<1>2. ~HoldsFrame(t)' /\ ~HoldsFinish(t)' /\ LastTaken(t)' = work[t].id
  BY DEF HoldsFrame, HoldsFinish, LastTaken, Holding
<1>3. Pills(t)' = Pills(t)
  BY <1>1, <1>2 DEF Pills
<1>4. Queued(queue[t], work[t].id + 1, Submitted(t), Pills(t))
  BY <1>1 DEF Turn, InTurn
<1> QED BY <1>2, <1>3, <1>4 DEF Turn, InTurn

\* What a step of the nginx thread does to the queue and the hand of a paced
\* worker, when it does not add to that queue.
LEMMA TurnMain ==
  ASSUME TypeOK, NEW t \in Paced, Turn(t), Main \/ Environment,
         t = "High" => ~AddVideo /\ ~PillHigh,
         t = "Audio" => ~AddAudio /\ ~PillAudio
  PROVE  Turn(t)'
<1> USE DEF dataVars, flagVars
<1>0. /\ t \in {"High", "Audio"} /\ t \in Workers /\ t # "Low"
      /\ arrived[t].id \in Nat
  BY NumbersType DEF Paced, Workers, TypeOK, Work
<1>1. ASSUME queue'[t] = queue[t], UNCHANGED <<handled, ctx>>,
             Submitted(t)' = Submitted(t), PillAdded(t)' = PillAdded(t)
      PROVE  Turn(t)'
  <2>1. pc'[t] = pc[t] /\ work' = work
    BY <1>0, MainFrame DEF TypeOK
  <2> QED BY <1>1, <2>1, TurnOthers
<1>2. CASE StartLow \/ CodecFails \/ StartSingle \/ InitFields
  BY <1>1, <1>2 DEF StartLow, CodecFails, StartSingle, InitFields, Submitted,
     PillAdded, Told
<1>3. CASE AddVideo \/ AddAudio
  BY <1>0, <1>1, <1>3 DEF AddVideo, AddAudio, Add, Push, TypeOK, Submitted,
     PillAdded, Told
<1>4. CASE PillHigh \/ PillLow \/ PillAudio
  BY <1>0, <1>1, <1>4 DEF PillHigh, PillLow, PillAudio, Push, TypeOK, Submitted,
     PillAdded, Told
<1>5. CASE ClearLow
  BY <1>0, <1>1, <1>5 DEF ClearLow, TypeOK, Submitted, PillAdded, Told
<1>6. CASE DisconnectFails
  BY <1>1, <1>6 DEF DisconnectFails, Submitted, PillAdded, Told
<1>7. CASE TearDown \/ Free
  <2>1. ctx' # "live"
    BY <1>7 DEF TearDown, Free
  <2> QED BY <2>1 DEF Turn
<1>8. CASE SendVideo \/ SendAudio
  <2>1. UNCHANGED <<queue, handled, ctx>> /\ PillAdded(t)' = PillAdded(t)
    BY <1>8 DEF SendVideo, SendAudio, Arrive, PillAdded, Told
  <2>2. Submitted(t)' = Submitted(t)
    BY <1>0, <1>8 DEF SendVideo, SendAudio, Arrive, Submitted, TypeOK
  <2> QED BY <1>1, <2>1, <2>2
<1>9. CASE Disconnect
  BY <1>1, <1>9 DEF Disconnect, Submitted, PillAdded, Told
<1> QED BY <1>2, <1>3, <1>4, <1>5, <1>6, <1>7, <1>8, <1>9 DEF Main, Environment

\* The steps of the nginx thread keep the paced queues in turn.
LEMMA PacedMain ==
  ASSUME TypeOK, Inputs, FramesArrive, PacedInTurn, Main \/ Environment
  PROVE  PacedInTurn'
<1> SUFFICES ASSUME NEW t \in Paced PROVE Turn(t)'
  BY DEF PacedInTurn
<1>0. Turn(t)
  BY DEF PacedInTurn
<1>1. arrived[t] \in Work /\ arrived[t].id \in Nat /\ pill \in Work
  BY DEF TypeOK, Work
<1>2. CASE t = "High" /\ AddVideo
  <2>1. Push(t, arrived[t]) /\ UNCHANGED <<pc, work, handled, ctx>>
    BY <1>2 DEF AddVideo, Add, flagVars
  <2>2. /\ ~arrived[t].is_finished /\ arrived[t].id = Submitted(t) + 1
        /\ Submitted(t)' = Submitted(t) + 1
    BY <1>1, <1>2 DEF FramesArrive, AddVideo, Add, Submitted
  <2>3. ~PillAdded(t) /\ ~PillAdded(t)'
    BY <1>2 DEF AddVideo, Add, PillAdded, Told
  <2> QED BY <1>0, <1>1, <2>1, <2>2, <2>3, TurnPush
<1>3. CASE t = "Audio" /\ AddAudio
  <2>1. Push(t, arrived[t]) /\ UNCHANGED <<pc, work, handled, ctx>>
    BY <1>3 DEF AddAudio, Add, flagVars
  <2>2. /\ ~arrived[t].is_finished /\ arrived[t].id = Submitted(t) + 1
        /\ Submitted(t)' = Submitted(t) + 1
    BY <1>1, <1>3 DEF FramesArrive, AddAudio, Add, Submitted
  <2>3. ~PillAdded(t) /\ ~PillAdded(t)'
    BY <1>3 DEF AddAudio, Add, PillAdded, Told
  <2> QED BY <1>0, <1>1, <2>1, <2>2, <2>3, TurnPush
<1>4. CASE t = "High" /\ PillHigh
  <2>1. Push(t, pill) /\ UNCHANGED <<pc, work, handled, ctx>>
    BY <1>4 DEF PillHigh, flagVars
  <2>2. pill.is_finished /\ Submitted(t)' = Submitted(t)
    BY <1>4 DEF Inputs, PillHigh, Submitted
  <2>3. ~PillAdded(t) /\ PillAdded(t)'
    BY <1>4 DEF PillHigh, PillAdded, Told
  <2> QED BY <1>0, <1>1, <2>1, <2>2, <2>3, TurnPush
<1>5. CASE t = "Audio" /\ PillAudio
  <2>1. Push(t, pill) /\ UNCHANGED <<pc, work, handled, ctx>>
    BY <1>5 DEF PillAudio, flagVars
  <2>2. pill.is_finished /\ Submitted(t)' = Submitted(t)
    BY <1>5 DEF Inputs, PillAudio, Submitted
  <2>3. ~PillAdded(t) /\ PillAdded(t)'
    BY <1>5 DEF PillAudio, PillAdded, Told
  <2> QED BY <1>0, <1>1, <2>1, <2>2, <2>3, TurnPush
<1> QED BY <1>0, <1>2, <1>3, <1>4, <1>5, TurnMain

\* So do those of the workers.
LEMMA PacedWorker ==
  ASSUME TypeOK, Flags, Loops, NoNullWork, PacedInTurn, WorkerStep
  PROVE  PacedInTurn'
<1> SUFFICES ASSUME NEW t \in Paced PROVE Turn(t)'
  BY DEF PacedInTurn
<1> USE DEF dataVars, flagVars
<1>0. /\ Turn(t) /\ t \in Workers /\ t # "Low" /\ t \in {"High", "Audio"}
      /\ "High" \in Workers /\ "Low" \in Workers /\ "Audio" \in Workers
  BY DEF PacedInTurn, Paced, Workers
<1>1. /\ Submitted(t)' = Submitted(t) /\ PillAdded(t)' = PillAdded(t)
      /\ ctx' = ctx
  BY WorkerFrame DEF Submitted, PillAdded, Told
<1>2. ASSUME pc[t] = "done" => pc'[t] = "done",
             queue'[t] = queue[t], handled'[t] = handled[t],
             \/ pc[t] \notin Holding /\ pc'[t] \notin Holding
             \/ /\ pc[t] \in Holding /\ pc'[t] \in Holding
                /\ work'[t] = work[t]
                /\ work[t].is_finished => pc'[t] \in {"addLow", "sample"}
      PROVE  Turn(t)'
  BY <1>0, <1>1, <1>2, TurnKept
<1>3. ASSUME pc'[t] = pc[t], queue'[t] = queue[t], handled'[t] = handled[t],
             work'[t] = work[t]
      PROVE  Turn(t)'
  BY <1>0, <1>1, <1>3, TurnOthers
<1> SUFFICES ASSUME ctx = "live" PROVE Turn(t)'
  BY <1>1 DEF Turn
<1>4. ASSUME NEW u \in Workers, Worker(u)
      PROVE  Turn(t)'
  <2>1. CASE Check(u) \/ Wait(u)
    <3>1. UNCHANGED <<queue, handled, work>>
      BY <2>1 DEF Check, Wait
    <3>2. u # t => pc'[t] = pc[t]
      BY <1>0, <2>1 DEF Check, Wait, Goto, TypeOK
    <3>3. u = t => /\ pc[t] # "done" /\ pc[t] \notin Holding
                   /\ pc'[t] \notin Holding
      BY <1>0, <2>1 DEF Check, Wait, Goto, At, TypeOK, Holding
    <3>4. queue'[t] = queue[t] /\ handled'[t] = handled[t] /\ work'[t] = work[t]
      BY <3>1
    <3>5. CASE u = t
      BY <1>2, <3>3, <3>4, <3>5
    <3>6. CASE u # t
      BY <1>3, <3>2, <3>4, <3>6
    <3> QED BY <3>5, <3>6
  <2>2. CASE WakeUp(u)
    BY <1>2, <1>3, <2>2 DEF WakeUp, Goto, TypeOK, Holding
  <2>3. CASE Get(u) /\ u # t
    BY <1>3, <2>3, TakeFrame DEF Get, Take, Goto, TypeOK
  <2>4. CASE Get(u) /\ u = t /\ queue[t] # <<>>
    <3>1. Take(t) /\ pc[t] = "get" /\ Taken(t) = Head(queue[t]) /\ t = "Audio"
      BY <1>0, <2>4 DEF Get, At, Taken
    <3>2. Head(queue[t]).is_finished => pc'[t] = "done"
      BY <1>0, <2>4, <3>1, GetGoes
    <3>3. ~Head(queue[t]).is_finished => Head(queue[t]).id > 0
      <4>1. Queued(queue[t], handled[t] + 1, Submitted(t), Pills(t))
        BY <1>0, <3>1 DEF Turn, InTurn, LastTaken, HoldsFrame, Holding
      <4>2. Pills(t) \in {0, 1}
        BY DEF Pills
      <4>3. /\ queue[t] \in Seq(Work) /\ queue[t] # <<>>
            /\ handled[t] + 1 \in Int /\ Submitted(t) \in Int
        BY <2>4, NumbersType
      <4>4. ~Head(queue[t]).is_finished => Head(queue[t]).id = handled[t] + 1
        BY <4>1, <4>2, <4>3, QueuedTake
      <4> QED BY <4>4, NumbersType
    <3>4. ~Head(queue[t]).is_finished => pc'[t] = "sample"
      BY <1>0, <2>4, <3>1, <3>3, GetGoes
    <3> QED BY <1>0, <1>1, <2>4, <3>1, <3>2, <3>4, TurnTake DEF Holding
  <2>5. CASE Get(u) /\ u = t /\ queue[t] = <<>>
    <3>1. pc[t] = "get" /\ pc'[t] = "check" /\ UNCHANGED <<queue, handled>>
      BY <1>0, <2>5 DEF Get, Goto, TypeOK, At, Taken, Take, NullWork
    <3> QED BY <1>2, <3>1 DEF Holding
  <2>6. ~UseAfterFree(u)
    BY DEF UseAfterFree, Dangling
  <2> QED BY <1>4, <2>1, <2>2, <2>3, <2>4, <2>5, <2>6 DEF Worker
<1>5. CASE Fill \/ NapInBuffering \/ EndBuffering
  BY <1>0, <1>2, <1>3, <1>5 DEF Fill, NapInBuffering, EndBuffering, Goto, At,
     TypeOK, Holding
<1>6. CASE GetHigh
  <2>1. CASE t = "Audio"
    BY <1>0, <1>3, <1>6, <2>1, TakeFrame DEF GetHigh, Take, Goto, TypeOK
  <2>2. CASE t = "High"
    <3>1. /\ Take(t) /\ pc[t] = "get" /\ queue[t] # <<>>
          /\ pc'[t] \in {"addLow", "sample"}
      BY <1>0, <1>6, <2>2 DEF GetHigh, Goto, At, TypeOK, NoNullWork
    <3> QED BY <1>0, <1>1, <2>2, <3>1, TurnTake DEF Holding
  <2> QED BY <1>0, <2>1, <2>2
<1>7. CASE AddLow
  <2>1. queue'[t] = queue[t] /\ handled' = handled /\ work' = work
    BY <1>0, <1>7 DEF AddLow, Push, TypeOK
  <2>2. t = "High" => pc[t] = "addLow" /\ pc'[t] = "sample"
    BY <1>0, <1>7 DEF AddLow, Goto, At, TypeOK
  <2>3. t # "High" => pc'[t] = pc[t]
    BY <1>0, <1>7 DEF AddLow, Goto, TypeOK
  <2> QED BY <1>2, <1>3, <2>1, <2>2, <2>3 DEF Holding
<1>8. CASE SampleHigh
  <2>1. UNCHANGED <<queue, handled, work>>
    BY <1>8 DEF SampleHigh
  <2>2. t # "High" => pc'[t] = pc[t]
    BY <1>0, <1>8 DEF SampleHigh, Goto, TypeOK
  <2>3. CASE t = "High"
    <3>1. pc[t] = "sample" /\ work[t] # NullWork
      BY <1>8, <2>3 DEF SampleHigh, At, NoNullWork
    <3>2. pc'[t] = IF work[t].is_finished THEN "done" ELSE "send"
      BY <1>0, <1>8, <2>3, <3>1 DEF SampleHigh, Goto, TypeOK
    <3>3. CASE work[t].is_finished
      BY <3>2, <3>3 DEF Turn
    <3>4. CASE ~work[t].is_finished
      BY <1>2, <2>1, <3>1, <3>2, <3>4 DEF Holding
    <3> QED BY <3>3, <3>4
  <2> QED BY <1>3, <2>1, <2>2, <2>3
<1>9. CASE SendHighVideo
  <2>1. CASE t = "High"
    BY <1>0, <1>1, <1>9, <2>1, TurnSend DEF SendHighVideo, At, Goto, TypeOK
  <2>2. CASE t # "High"
    BY <1>0, <1>3, <1>9, <2>2 DEF SendHighVideo, Goto, TypeOK
  <2> QED BY <2>1, <2>2
<1>10. CASE LowThread
  BY <1>0, <1>3, <1>10 DEF LowThread, SendLowVideo, Goto, TypeOK
<1>11. CASE SampleAudio \/ NapInHold \/ EndHold
  <2>1. UNCHANGED <<queue, handled, work>>
    BY <1>11 DEF SampleAudio, NapInHold, EndHold
  <2>2. CASE t = "Audio"
    <3>1. pc[t] \in {"sample", "hold"} /\ pc'[t] \in {"hold", "send"}
      BY <1>0, <1>11, <2>2 DEF SampleAudio, NapInHold, EndHold, At, Goto, TypeOK
    <3>2. ~work[t].is_finished
      BY <1>0, <2>2, <3>1 DEF Turn, InTurn, HoldsFinish, Holding
    <3> QED BY <1>2, <2>1, <3>1, <3>2 DEF Holding
  <2>3. CASE t # "Audio"
    BY <1>0, <1>3, <1>11, <2>1, <2>3
       DEF SampleAudio, NapInHold, EndHold, Goto, TypeOK
  <2> QED BY <2>2, <2>3
<1>12. CASE SendAudioFrame
  <2>1. CASE t = "Audio"
    BY <1>0, <1>1, <1>12, <2>1, TurnSend DEF SendAudioFrame, At, Goto, TypeOK
  <2>2. CASE t # "Audio"
    BY <1>0, <1>3, <1>12, <2>2 DEF SendAudioFrame, Goto, TypeOK
  <2> QED BY <2>1, <2>2
<1> QED BY <1>4, <1>5, <1>6, <1>7, <1>8, <1>9, <1>10, <1>11, <1>12
        DEF WorkerStep, HighThread, AudioThread

\* No worker has taken more than was submitted.
LEMMA TakenSubmitted ==
  ASSUME TypeOK, NEW t \in Paced, Turn(t), ctx = "live", pc[t] # "done"
  PROVE  LastTaken(t) <= Submitted(t)
<1>1. Queued(queue[t], LastTaken(t) + 1, Submitted(t), Pills(t))
  BY DEF Turn, InTurn
<1>2. Submitted(t) \in Int /\ LastTaken(t) \in Int
  BY NumbersType
<1> QED BY <1>1, <1>2 DEF Queued

\* Only frames are submitted.
LEMMA FramesArriveStep ==
  ASSUME TypeOK, FramesArrive, [Next]_vars PROVE FramesArrive'
<1> USE DEF FramesArrive, dataVars
<1>1. CASE Main \/ Disconnect
  BY <1>1 DEF Main, StartLow, CodecFails, StartSingle, InitFields, AddVideo,
     AddAudio, Add, PillHigh, ClearLow, PillLow, PillAudio, DisconnectFails,
     TearDown, Free, Disconnect
<1>2. ASSUME NEW t \in Paced, NEW max, NEW label, Arrive(t, max, label)
      PROVE  /\ \A u \in Paced : ~arrived'[u].is_finished
             /\ arrived'[t].id > 0 /\ mainPc' = label
  <2>1. arrived[t].id \in Nat
    BY DEF TypeOK, Work
  <2>2. PICK gap \in Gaps :
          arrived' = [arrived EXCEPT ![t] = [id          |-> @.id + 1,
                                             timestamp   |-> @.timestamp + gap,
                                             is_finished |-> FALSE]]
    BY <1>2 DEF Arrive
  <2>3. arrived'[t].id = arrived[t].id + 1 /\ ~arrived'[t].is_finished
    BY <2>2 DEF TypeOK
  <2>4. \A u \in Paced \ {t} : arrived'[u] = arrived[u]
    BY <2>2 DEF TypeOK
  <2> QED BY <1>2, <2>1, <2>3, <2>4 DEF Arrive
<1>3. CASE SendVideo \/ SendAudio
  BY <1>2, <1>3 DEF SendVideo, SendAudio, Paced
<1>4. CASE WorkerStep
  BY <1>4, WorkerFrame
<1>5. CASE Tick \/ Ended \/ UNCHANGED vars
  BY <1>5, TickFrame
<1> QED BY <1>1, <1>3, <1>4, <1>5 DEF Next, Environment, WorkerStep

\* What a step of a worker sends: the next frame of its stream.
LEMMA WorkerSends ==
  ASSUME TypeOK, Flags, Loops, PacedInTurn, WorkerStep
  PROVE  \/ handled' = handled
         \/ \E t \in Paced :
              /\ handled' = [handled EXCEPT ![t] = @ + 1]
              /\ handled[t] + 1 <= Submitted(t)
         \/ SendLowVideo
<1> USE DEF dataVars, flagVars
<1>1. ASSUME NEW t \in Paced, ctx = "live", pc[t] = "send",
             handled' = [handled EXCEPT ![t] = work[t].id]
      PROVE  handled' = [handled EXCEPT ![t] = @ + 1] /\ handled[t] + 1 <= Submitted(t)
  <2>1. Turn(t)
    BY DEF PacedInTurn
  <2>2. ~HoldsFinish(t) /\ HoldsFrame(t) /\ work[t].id = handled[t] + 1
    BY <1>1, <2>1 DEF Turn, InTurn, HoldsFrame, HoldsFinish, Holding
  <2>3. LastTaken(t) = handled[t] + 1
    BY <2>2 DEF LastTaken
  <2> QED BY <1>1, <2>1, <2>2, <2>3, TakenSubmitted
<1>2. ASSUME NEW t \in Workers, Worker(t)
      PROVE  handled' = handled
  BY <1>2 DEF Worker, Check, Wait, Get, Take, WakeUp, UseAfterFree
<1>3. CASE HighThread
  <2>1. CASE SendHighVideo
    <3>1. ctx = "live" /\ pc["High"] = "send"
      BY <2>1 DEF SendHighVideo, At, Dangling, FlagsOnly, Flags
    <3> QED BY <1>1, <2>1, <3>1 DEF SendHighVideo, Paced
  <2>2. CASE ~SendHighVideo
    BY <1>3, <2>2 DEF HighThread, Fill, NapInBuffering, EndBuffering, GetHigh,
       Take, AddLow, SampleHigh
  <2> QED BY <2>1, <2>2
<1>4. CASE AudioThread
  <2>1. CASE SendAudioFrame
    <3>1. ctx = "live" /\ pc["Audio"] = "send"
      BY <2>1 DEF SendAudioFrame, At, Dangling, FlagsOnly, Flags
    <3> QED BY <1>1, <2>1, <3>1 DEF SendAudioFrame, Paced
  <2>2. CASE ~SendAudioFrame
    BY <1>4, <2>2 DEF AudioThread, SampleAudio, NapInHold, EndHold
  <2> QED BY <2>1, <2>2
<1> QED BY <1>2, <1>3, <1>4 DEF WorkerStep, LowThread

\* No step but Low's own sends anything on the low stream.
LEMMA LowSentKept ==
  ASSUME [Next]_vars, ~SendLowVideo
  PROVE  lowSent' = lowSent
<1> USE DEF dataVars
<1>1. CASE Main \/ Environment
  BY <1>1, MainFrame
<1>2. ASSUME NEW t \in Workers, Worker(t)
      PROVE  lowSent' = lowSent
  BY <1>2 DEF Worker, Check, Wait, Get, Take, WakeUp, UseAfterFree
<1>3. CASE HighThread
  BY <1>3 DEF HighThread, Fill, NapInBuffering, EndBuffering, GetHigh, Take,
     AddLow, SampleHigh, SendHighVideo
<1>4. CASE AudioThread
  BY <1>4 DEF AudioThread, SampleAudio, NapInHold, EndHold, SendAudioFrame
<1>5. CASE Tick \/ Ended \/ UNCHANGED vars
  BY <1>5, TickFrame
<1> QED BY <1>1, <1>2, <1>3, <1>4, <1>5 DEF Next, LowThread

\* What the nginx thread does to what was accepted: nothing, or it adds one
\* frame to one stream.
LEMMA MainAccepts ==
  ASSUME TypeOK, Main \/ Environment
  PROVE  /\ handled' = handled
         /\ AddVideo => /\ Submitted("High")' = Submitted("High") + 1
                        /\ Submitted("Audio")' = Submitted("Audio")
         /\ AddAudio => /\ Submitted("Audio")' = Submitted("Audio") + 1
                        /\ Submitted("High")' = Submitted("High")
         /\ ~AddVideo /\ ~AddAudio
              => \A t \in Paced : Submitted(t)' = Submitted(t)
<1>0. arrived["High"].id \in Nat /\ arrived["Audio"].id \in Nat
  BY DEF TypeOK, Paced, Work
<1>1. CASE Main
  BY <1>0, <1>1 DEF Main, StartLow, CodecFails, StartSingle, InitFields, AddVideo,
     AddAudio, Add, PillHigh, ClearLow, PillLow, PillAudio, DisconnectFails,
     TearDown, Free, Submitted, Paced, dataVars
<1>2. CASE Environment
  <2>1. ~AddVideo /\ ~AddAudio /\ handled' = handled
    BY <1>2 DEF Environment, SendVideo, SendAudio, Arrive, Disconnect,
       AddVideo, AddAudio, Add
  <2>2. CASE SendVideo
    <3>1. /\ arrived'["High"].id = arrived["High"].id + 1
          /\ arrived'["Audio"] = arrived["Audio"]
      BY <2>2 DEF SendVideo, Arrive, TypeOK, Paced
    <3> QED BY <1>0, <2>1, <2>2, <3>1 DEF SendVideo, Arrive, Submitted, Paced
  <2>3. CASE SendAudio
    <3>1. /\ arrived'["Audio"].id = arrived["Audio"].id + 1
          /\ arrived'["High"] = arrived["High"]
      BY <2>3 DEF SendAudio, Arrive, TypeOK, Paced
    <3> QED BY <1>0, <2>1, <2>3, <3>1 DEF SendAudio, Arrive, Submitted, Paced
  <2>4. CASE Disconnect
    BY <2>1, <2>4 DEF Disconnect, Submitted
  <2> QED BY <1>2, <2>1, <2>2, <2>3, <2>4 DEF Environment
<1> QED BY <1>1, <1>2

\* No paced frame is sent that was not submitted.
LEMMA SentSubmittedStep ==
  ASSUME TypeOK, Flags, Loops, PacedInTurn, SentSubmitted, [Next]_vars
  PROVE  SentSubmitted'
<1>0. \A t \in Paced : handled[t] \in Nat /\ Submitted(t) \in Int /\ t \in Workers
  BY NumbersType
<1>1. CASE Main \/ Environment
  BY <1>0, <1>1, MainAccepts DEF SentSubmitted, Paced
<1>2. CASE WorkerStep
  <2>1. \A t \in Paced : Submitted(t)' = Submitted(t)
    BY <1>2, WorkerFrame DEF Submitted
  <2>2. CASE SendLowVideo
    BY <1>0, <2>1, <2>2 DEF SendLowVideo, SentSubmitted, Paced, TypeOK
  <2>3. CASE ~SendLowVideo
    BY <1>0, <1>2, <2>1, <2>3, WorkerSends DEF SentSubmitted, TypeOK
  <2> QED BY <2>2, <2>3
<1>3. CASE Tick \/ Ended \/ UNCHANGED vars
  BY <1>3, TickFrame DEF SentSubmitted, Submitted, dataVars
<1> QED BY <1>1, <1>2, <1>3 DEF Next, WorkerStep

-----------------------------------------------------------------------------
(* The low worker.                                                         *)

\* The low worker's numbers are numbers, and it holds a work while it sends.
LEMMA LowNumbers ==
  ASSUME TypeOK, Loops
  PROVE  /\ "Low" \in Workers /\ "High" \in Workers /\ "High" \in Paced
         /\ queue["Low"] \in Seq(Work) /\ LastTaken("Low") \in Nat
         /\ Passed \in Nat /\ work["Low"].id \in Nat /\ handled["Low"] \in Nat
         /\ pc["Low"] \in Holding <=> pc["Low"] = "send"
<1>1. work["Low"] \in Work /\ work["High"] \in Work
  BY DEF TypeOK, Workers
<1>2. work["Low"].id \in Nat /\ work["High"].id \in Nat
  BY <1>1 DEF Work
<1>3. pc["Low"] \in Holding <=> pc["Low"] = "send"
  BY DEF Loops, LabelsOf, Holding, Workers
<1> QED BY <1>1, <1>2, <1>3 DEF TypeOK, Workers, Paced, LastTaken, Passed

\* A step that changes nothing for the low worker.
LEMMA LowKept ==
  ASSUME LowBehind, enable_dual' = enable_dual,
         ctx' = "live" => ctx = "live", isRunning' => isRunning,
         queue'["Low"] = queue["Low"], handled'["Low"] = handled["Low"],
         \/ pc'["Low"] = pc["Low"] /\ work'["Low"] = work["Low"]
         \/ pc["Low"] \notin Holding /\ pc'["Low"] \notin Holding,
         Passed' = Passed
  PROVE  LowBehind'
BY DEF LowBehind, LastTaken, HoldsFrame, Holding

\* While the session runs no finished work has been added.
LEMMA RunningHoldsFrames ==
  ASSUME Flags, PacedInTurn, ctx = "live", isRunning, NEW t \in Paced,
         pc[t] # "done"
  PROVE  ~HoldsFinish(t)
BY DEF PacedInTurn, Turn, InTurn, PillAdded, Told, Flags, Running, Paced

\* High passes on what it has taken.
LEMMA LowAdd ==
  ASSUME TypeOK, Flags, Loops, PacedInTurn, LowBehind, AddLow PROVE LowBehind'
<1> SUFFICES ASSUME enable_dual, ctx = "live" PROVE LowBehind'
  BY DEF LowBehind, AddLow, flagVars
<1> DEFINE w == work["High"]
           q == queue["Low"]
           first == LastTaken("Low") + 1
<1>0. /\ w \in Work /\ q \in Seq(Work) /\ Passed \in Int /\ first \in Int
      /\ LastTaken("Low") \in Nat /\ Passed = handled["High"]
  BY LowNumbers DEF TypeOK, AddLow, At, Passed
<1>1. queue'["Low"] = Append(q, w) /\ UNCHANGED <<ctx, enable_dual, isRunning>>
  BY LowNumbers DEF AddLow, Push, TypeOK, flagVars
<1>2. LastTaken("Low")' = LastTaken("Low") /\ handled' = handled /\ work' = work
  BY LowNumbers DEF AddLow, Goto, TypeOK, LastTaken, HoldsFrame
<1>3. pc'["Low"] = pc["Low"] /\ pc["High"] = "addLow" /\ pc'["High"] = "sample"
  BY LowNumbers DEF AddLow, Goto, At, TypeOK
<1>4. Turn("High")
  BY LowNumbers DEF PacedInTurn
<1>5. ~w.is_finished => w.id = Passed + 1
  BY <1>0, <1>3, <1>4 DEF Turn, InTurn, HoldsFrame, Holding
<1>6. Passed' = IF w.is_finished THEN Passed ELSE Passed + 1
  BY <1>0, <1>2, <1>3, <1>5 DEF Passed
<1>7. isRunning => ~w.is_finished
  BY <1>3, LowNumbers, RunningHoldsFrames DEF HoldsFinish, Holding
<1>8. Ascending(Append(q, w), LastTaken("Low"),
                IF w.is_finished THEN Passed ELSE Passed + 1)
  BY <1>0, <1>5, AscendingFrame DEF LowBehind
<1>9. isRunning => Queued(Append(q, w), first, Passed + 1, 0)
  BY <1>0, <1>5, <1>7, QueuedFrame DEF LowBehind
<1>10. Ascending(queue["Low"]', LastTaken("Low")', Passed')
  BY <1>1, <1>2, <1>6, <1>8
<1>11. isRunning => Queued(queue["Low"]', LastTaken("Low")' + 1, Passed', 0)
  BY <1>1, <1>2, <1>6, <1>7, <1>9
<1>12. LastTaken("Low")' <= Passed'
  BY <1>0, <1>2, <1>6 DEF LowBehind
<1> QED BY <1>1, <1>2, <1>3, <1>10, <1>11, <1>12 DEF LowBehind

\* Low takes the next work.
LEMMA LowTake ==
  ASSUME TypeOK, Loops, LowBehind, Get("Low") PROVE LowBehind'
<1> SUFFICES ASSUME enable_dual, ctx = "live" PROVE LowBehind'
  BY DEF LowBehind, Get, Take, flagVars
<1> DEFINE q == queue["Low"]
           r == Tail(queue["Low"])
<1>0. /\ q \in Seq(Work) /\ Passed \in Nat /\ LastTaken("Low") \in Nat
      /\ LastTaken("Low") = handled["Low"]
  BY LowNumbers DEF Get, At, LastTaken, HoldsFrame, Holding
<1>1. /\ pc["Low"] = "get" /\ handled' = handled /\ Passed' = Passed
      /\ UNCHANGED <<ctx, enable_dual, isRunning>>
  BY LowNumbers DEF Get, Take, Goto, At, TypeOK, flagVars, Passed
<1>2. CASE q = <<>>
  <2>1. pc'["Low"] = "check" /\ queue' = queue
    BY <1>2, LowNumbers DEF Get, Take, Taken, Goto, TypeOK, NullWork
  <2> QED BY <1>1, <2>1, LowKept DEF Holding
<1>3. CASE q # <<>>
  <2>1. /\ queue'["Low"] = r /\ work'["Low"] = Head(q)
        /\ Taken("Low") = Head(q)
    BY <1>3, LowNumbers DEF Get, Take, Taken, TypeOK
  <2>2. /\ Head(q).is_finished => Ascending(r, handled["Low"], Passed)
        /\ ~Head(q).is_finished =>
             /\ handled["Low"] < Head(q).id /\ Head(q).id <= Passed
             /\ Ascending(r, Head(q).id, Passed)
    BY <1>0, <1>3, AscendingTake DEF LowBehind
  <2>3. isRunning => /\ ~Head(q).is_finished /\ Head(q).id = handled["Low"] + 1
                     /\ Queued(r, handled["Low"] + 1 + 1, Passed, 0)
    <3> SUFFICES ASSUME isRunning
                 PROVE  /\ ~Head(q).is_finished /\ Head(q).id = handled["Low"] + 1
                        /\ Queued(r, handled["Low"] + 1 + 1, Passed, 0)
      OBVIOUS
    <3>1. Queued(q, handled["Low"] + 1, Passed, 0)
      BY <1>0 DEF LowBehind
    <3>2. handled["Low"] + 1 \in Int /\ Passed \in Int /\ 0 \in {0, 1}
      BY <1>0
    <3>3. \/ /\ ~Head(q).is_finished /\ Head(q).id = handled["Low"] + 1
             /\ Queued(r, handled["Low"] + 1 + 1, Passed, 0)
          \/ 0 = 1
      BY <1>0, <1>3, <3>1, <3>2, QueuedTake
    <3> QED BY <3>3
  <2>4. CASE Head(q).is_finished
    <3>1. pc'["Low"] = "done"
      BY <2>1, <2>4, LowNumbers, GetGoes
    <3>2. LastTaken("Low")' = handled["Low"]
      BY <1>1, <3>1 DEF LastTaken, HoldsFrame, Holding
    <3>3. ~isRunning
      BY <2>3, <2>4
    <3>4. Ascending(queue["Low"]', LastTaken("Low")', Passed')
      BY <1>1, <2>1, <2>2, <2>4, <3>2
    <3>5. LastTaken("Low")' <= Passed'
      BY <1>0, <1>1, <3>2 DEF LowBehind
    <3> QED BY <1>1, <3>1, <3>3, <3>4, <3>5 DEF LowBehind
  <2>5. CASE ~Head(q).is_finished
    <3>1. Head(q) # NullWork
      BY <1>0, <2>2, <2>5, LowNumbers DEF NullWork
    <3>2. pc'["Low"] = "send"
      BY <2>1, <2>5, <3>1, LowNumbers DEF Get, Goto, TypeOK
    <3>3. LastTaken("Low")' = Head(q).id
      BY <2>1, <2>5, <3>2 DEF LastTaken, HoldsFrame, Holding
    <3>4. Ascending(queue["Low"]', LastTaken("Low")', Passed')
      BY <1>1, <2>1, <2>2, <2>5, <3>3
    <3>5. LastTaken("Low")' <= Passed'
      BY <1>1, <2>2, <2>5, <3>3
    <3>6. isRunning => Queued(queue["Low"]', LastTaken("Low")' + 1, Passed', 0)
      BY <1>1, <2>1, <2>3, <3>3
    <3>7. ~work'["Low"].is_finished /\ work'["Low"].id > handled'["Low"]
      <4>1. Head(q) \in Work
        BY <1>0, <1>3
      <4>2. Head(q).id \in Nat
        BY <4>1 DEF Work
      <4> QED BY <1>1, <2>1, <2>2, <2>5, <4>2, LowNumbers
    <3>8. isRunning => work'["Low"].id = handled'["Low"] + 1
      BY <1>1, <2>1, <2>3
    <3> QED BY <1>1, <3>4, <3>5, <3>6, <3>7, <3>8 DEF LowBehind
  <2> QED BY <2>4, <2>5
<1> QED BY <1>2, <1>3

\* Only agora_init starts the low thread.
LEMMA LowUnbornStep ==
  ASSUME TypeOK, Loops, LowUnborn, [Next]_vars PROVE LowUnborn'
<1> SUFFICES ASSUME mainPc' = "starting" PROVE pc'["Low"] = "unborn"
  BY DEF LowUnborn
<1>1. ~Main /\ ~Environment
  BY DEF Main, StartLow, CodecFails, StartSingle, InitFields, AddVideo, AddAudio,
     Add, PillHigh, ClearLow, PillLow, PillAudio, DisconnectFails, TearDown, Free,
     Environment, SendVideo, SendAudio, Arrive, Disconnect
<1>2. CASE WorkerStep
  <2>1. pc["Low"] = "unborn"
    BY <1>2, WorkerFrame DEF LowUnborn
  <2>2. ASSUME NEW t \in Workers, Worker(t)
        PROVE  pc'["Low"] = "unborn"
    BY <2>1, <2>2, LowNumbers DEF Worker, Check, Wait, Get, WakeUp, UseAfterFree,
       Blocked, Goto, At, TypeOK
  <2>3. CASE HighThread
    BY <2>1, <2>3, LowNumbers DEF HighThread, Fill, NapInBuffering, EndBuffering,
       GetHigh, AddLow, SampleHigh, SendHighVideo, Goto, TypeOK
  <2>4. CASE LowThread \/ AudioThread
    BY <2>1, <2>4, LowNumbers DEF LowThread, SendLowVideo, AudioThread,
       SampleAudio, NapInHold, EndHold, SendAudioFrame, Goto, At, TypeOK
  <2> QED BY <1>2, <2>2, <2>3, <2>4 DEF WorkerStep
<1>3. CASE Tick \/ Ended \/ UNCHANGED vars
  BY <1>3, TickFrame DEF LowUnborn
<1> QED BY <1>1, <1>2, <1>3 DEF Next, WorkerStep

\* The steps of the nginx thread keep the low queue in order: agora_disconnect
\* clears it, and ends it, only once the session is stopped.
LEMMA LowMain ==
  ASSUME TypeOK, Flags, Loops, Inputs, LowUnborn, LowBehind,
         Main \/ Environment
  PROVE  LowBehind'
<1> USE DEF dataVars, flagVars
<1>1. /\ work' = work /\ handled' = handled /\ enable_dual' = enable_dual
      /\ pc' = pc \/ (StartLow /\ pc' = [pc EXCEPT !["Low"] = "check"])
  BY MainFrame, MainAccepts
<1>3. Passed' = Passed /\ pc'["High"] = pc["High"]
  BY <1>1, LowNumbers DEF Passed, TypeOK
<1>4. ASSUME pc' = pc, queue'["Low"] = queue["Low"],
             ctx' = "live" => ctx = "live", isRunning' => isRunning
      PROVE  LowBehind'
  BY <1>1, <1>3, <1>4, LowKept
<1>5. CASE CodecFails \/ StartSingle \/ InitFields \/ DisconnectFails
  BY <1>4, <1>5 DEF CodecFails, StartSingle, InitFields, DisconnectFails
<1>6. CASE AddVideo \/ AddAudio \/ PillHigh \/ PillAudio
  <2>1. queue'["Low"] = queue["Low"]
    BY <1>6 DEF AddVideo, AddAudio, Add, PillHigh, PillAudio, Push, TypeOK, Workers
  <2> QED BY <1>4, <1>6, <2>1 DEF AddVideo, AddAudio, Add, PillHigh, PillAudio
<1>7. CASE Environment
  BY <1>4, <1>7 DEF Environment, SendVideo, SendAudio, Arrive, Disconnect
<1>8. CASE StartLow
  <2>1. mainPc = "starting" /\ UNCHANGED <<queue, ctx, isRunning>>
    BY <1>8 DEF StartLow
  <2>2. pc["Low"] = "unborn" /\ pc'["Low"] = "check"
    BY <1>8, <2>1, LowNumbers DEF LowUnborn, StartLow, Goto, TypeOK
  <2> QED BY <1>1, <1>3, <2>1, <2>2, LowKept DEF Holding
<1>9. CASE TearDown \/ Free
  BY <1>9 DEF TearDown, Free, LowBehind
<1>10. CASE ClearLow
  <2>1. ~isRunning' /\ queue'["Low"] = <<>> /\ ctx' = ctx /\ pc' = pc
    BY <1>10, LowNumbers DEF ClearLow, Flags, Running, TypeOK
  <2>2. LastTaken("Low")' = LastTaken("Low")
    BY <1>1, <2>1 DEF LastTaken, HoldsFrame
  <2>3. Ascending(queue["Low"]', LastTaken("Low")', Passed')
    BY <2>1 DEF Ascending
  <2> QED BY <1>1, <1>3, <2>1, <2>2, <2>3 DEF LowBehind
<1>11. CASE PillLow
  <2> SUFFICES ASSUME enable_dual, ctx = "live" PROVE LowBehind'
    BY <1>1, <1>11 DEF LowBehind, PillLow
  <2>1. /\ ~isRunning' /\ queue'["Low"] = Append(queue["Low"], pill)
        /\ ctx' = ctx /\ pc' = pc /\ pill.is_finished /\ pill \in Work
    BY <1>11, LowNumbers DEF PillLow, Push, Flags, Running, TypeOK, Inputs
  <2>2. LastTaken("Low")' = LastTaken("Low")
    BY <1>1, <2>1 DEF LastTaken, HoldsFrame
  <2>3. Ascending(Append(queue["Low"], pill), LastTaken("Low"), Passed)
    <3>1. Ascending(Append(queue["Low"], pill), LastTaken("Low"),
                    IF pill.is_finished THEN Passed ELSE Passed + 1)
      BY <2>1, LowNumbers, AscendingFrame DEF LowBehind
    <3> QED BY <2>1, <3>1
  <2>4. Ascending(queue["Low"]', LastTaken("Low")', Passed')
    BY <1>3, <2>1, <2>2, <2>3
  <2> QED BY <1>1, <1>3, <2>1, <2>2, <2>4 DEF LowBehind
<1> QED BY <1>5, <1>6, <1>7, <1>8, <1>9, <1>10, <1>11 DEF Main

\* So do those of the workers.
LEMMA LowWorker ==
  ASSUME TypeOK, Flags, Loops, NoNullWork, NoneStray, PacedInTurn, LowBehind,
         WorkerStep
  PROVE  LowBehind'
<1> USE DEF dataVars, flagVars
<1>0. UNCHANGED <<ctx, enable_dual, isRunning>>
  BY WorkerFrame
<1> SUFFICES ASSUME ctx = "live" PROVE LowBehind'
  BY <1>0 DEF LowBehind
<1>1. ASSUME queue'["Low"] = queue["Low"], handled'["Low"] = handled["Low"],
             \/ pc'["Low"] = pc["Low"] /\ work'["Low"] = work["Low"]
             \/ pc["Low"] \notin Holding /\ pc'["Low"] \notin Holding,
             \/ Passed' = Passed
             \/ ~enable_dual
      PROVE  LowBehind'
  BY <1>0, <1>1, LowKept DEF LowBehind
<1>2. ASSUME work'["High"] = work["High"], handled'["High"] = handled["High"],
             pc'["High"] = pc["High"]
      PROVE  Passed' = Passed
  BY <1>2 DEF Passed
<1>3. ASSUME handled'["High"] = handled["High"],
             pc["High"] \notin {"sample", "send"},
             pc'["High"] \notin {"sample", "send"}
      PROVE  Passed' = Passed
  BY <1>3 DEF Passed
<1>4. ASSUME NEW t \in Workers, Worker(t)
      PROVE  LowBehind'
  <2>1. CASE Check(t) \/ Wait(t)
    <3>1. UNCHANGED <<queue, handled, work>>
      BY <2>1 DEF Check, Wait
    <3>2. Passed' = Passed
      BY <1>2, <1>3, <2>1, <3>1, LowNumbers DEF Check, Wait, Goto, At, TypeOK
    <3>3. \/ pc'["Low"] = pc["Low"]
          \/ pc["Low"] \notin Holding /\ pc'["Low"] \notin Holding
      BY <2>1, LowNumbers DEF Check, Wait, Goto, At, TypeOK, Holding
    <3> QED BY <1>1, <3>1, <3>2, <3>3
  <2>2. CASE WakeUp(t)
    <3>1. t # "Low" /\ UNCHANGED <<queue, handled>>
      BY <2>2 DEF WakeUp, Loops, LabelsOf
    <3>2. pc'["Low"] = pc["Low"] /\ work'["Low"] = work["Low"]
      BY <2>2, <3>1, LowNumbers DEF WakeUp, Goto, TypeOK
    <3>3. Passed' = Passed
      BY <1>2, <1>3, <2>2, <3>1, LowNumbers DEF WakeUp, Goto, TypeOK
    <3> QED BY <1>1, <3>1, <3>2, <3>3
  <2>3. CASE Get(t)
    <3>1. CASE t = "Low"
      BY <2>3, <3>1, LowTake
    <3>2. CASE t = "Audio"
      <4>1. /\ queue'["Low"] = queue["Low"] /\ work'["Low"] = work["Low"]
            /\ work'["High"] = work["High"]
        BY <2>3, <3>2, LowNumbers, TakeFrame DEF Get, Workers
      <4>2. pc'["Low"] = pc["Low"] /\ pc'["High"] = pc["High"] /\ handled' = handled
        BY <2>3, <3>2, LowNumbers DEF Get, Take, Goto, TypeOK
      <4> QED BY <1>1, <1>2, <4>1, <4>2
    <3> QED BY <2>3, <3>1, <3>2 DEF Get, Workers
  <2>4. ~UseAfterFree(t)
    BY DEF UseAfterFree, Dangling
  <2> QED BY <1>4, <2>1, <2>2, <2>3, <2>4 DEF Worker
<1>5. CASE Fill \/ NapInBuffering \/ EndBuffering
  <2>1. UNCHANGED <<queue, handled, work>> /\ pc'["Low"] = pc["Low"]
    BY <1>5, LowNumbers DEF Fill, NapInBuffering, EndBuffering, Goto, TypeOK
  <2>2. Passed' = Passed
    BY <1>2, <1>3, <1>5, <2>1, LowNumbers DEF Fill, NapInBuffering,
       EndBuffering, Goto, At, TypeOK
  <2> QED BY <1>1, <2>1, <2>2
<1>6. CASE GetHigh
  <2>1. /\ queue'["Low"] = queue["Low"] /\ work'["Low"] = work["Low"]
        /\ pc'["Low"] = pc["Low"] /\ handled' = handled
    BY <1>6, LowNumbers, TakeFrame DEF GetHigh, Take, Goto, TypeOK
  <2>2. enable_dual => pc["High"] = "get" /\ pc'["High"] = "addLow"
    BY <1>6, LowNumbers DEF GetHigh, Goto, At, TypeOK
  <2> QED BY <1>1, <1>3, <2>1, <2>2
<1>7. CASE AddLow
  BY <1>7, LowAdd
<1>8. CASE SampleHigh
  <2>1. UNCHANGED <<queue, handled, work>> /\ pc'["Low"] = pc["Low"]
    BY <1>8, LowNumbers DEF SampleHigh, Goto, TypeOK
  <2>2. work["High"] # NullWork /\ pc["High"] = "sample"
    BY <1>8 DEF SampleHigh, At, NoNullWork
  <2>3. pc'["High"] = IF work["High"].is_finished THEN "done" ELSE "send"
    BY <1>8, <2>2, LowNumbers DEF SampleHigh, Goto, TypeOK
  <2>4. Passed' = Passed
    BY <2>1, <2>2, <2>3 DEF Passed
  <2> QED BY <1>1, <2>1, <2>4
<1>9. CASE SendHighVideo
  <2>1. /\ UNCHANGED <<queue, work>> /\ pc'["Low"] = pc["Low"]
        /\ handled'["Low"] = handled["Low"] /\ handled'["High"] = work["High"].id
        /\ pc["High"] = "send" /\ pc'["High"] = "sleep"
    BY <1>9, LowNumbers DEF SendHighVideo, Goto, At, TypeOK
  <2>2. ~work["High"].is_finished
    BY <2>1, LowNumbers DEF PacedInTurn, Turn, InTurn, HoldsFinish, Holding
  <2>3. Passed' = Passed
    BY <2>1, <2>2 DEF Passed
  <2> QED BY <1>1, <2>1, <2>3
<1>10. CASE SendLowVideo
  <2>1. /\ queue' = queue /\ handled'["Low"] = work["Low"].id
        /\ pc["Low"] = "send" /\ pc'["Low"] = "check"
        /\ Passed' = Passed
    BY <1>10, LowNumbers DEF SendLowVideo, Goto, At, TypeOK, Passed
  <2>2. enable_dual => LastTaken("Low")' = LastTaken("Low")
    BY <2>1 DEF LastTaken, HoldsFrame, Holding, LowBehind
  <2> QED BY <1>0, <2>1, <2>2 DEF LowBehind
<1>11. CASE AudioThread
  <2>1. UNCHANGED <<queue, work>>
    BY <1>11 DEF AudioThread, SampleAudio, NapInHold, EndHold, SendAudioFrame
  <2>2. pc'["Low"] = pc["Low"] /\ pc'["High"] = pc["High"]
    BY <1>11, LowNumbers DEF AudioThread, SampleAudio, NapInHold, EndHold,
       SendAudioFrame, Goto, TypeOK
  <2>3. handled'["Low"] = handled["Low"] /\ handled'["High"] = handled["High"]
    BY <1>11, LowNumbers DEF AudioThread, SampleAudio, NapInHold, EndHold,
       SendAudioFrame, TypeOK
  <2> QED BY <1>1, <1>2, <2>1, <2>2, <2>3
<1> QED BY <1>4, <1>5, <1>6, <1>7, <1>8, <1>9, <1>10, <1>11
        DEF WorkerStep, HighThread, LowThread

-----------------------------------------------------------------------------
(* The invariant.                                                          *)

\* It holds at the start ...
LEMMA RelayInit == Init => RInv
<1> SUFFICES ASSUME Init PROVE RInv
  OBVIOUS
<1> USE DEF Init
<1>1. LowUnborn /\ SentSubmitted /\ FramesArrive
  BY DEF LowUnborn, SentSubmitted, Submitted, FramesArrive, Paced, Workers, NullWork
<1>2. /\ \A t \in Workers : queue[t] = <<>> /\ handled[t] = 0 /\ pc[t] \notin Holding
      /\ \A t \in Paced : t \in Workers /\ Submitted(t) = 0 /\ ~PillAdded(t)
  BY DEF Workers, Paced, Submitted, NullWork, Holding, PillAdded, Told
<1>3. \A t \in Workers : LastTaken(t) = 0 /\ ~HoldsFrame(t) /\ ~HoldsFinish(t)
  BY <1>2 DEF LastTaken, HoldsFrame, HoldsFinish
<1>4. Queued(<<>>, 1, 0, 0)
  BY DEF Queued
<1>5. PacedInTurn
  <2> SUFFICES ASSUME NEW t \in Paced PROVE InTurn(t)
    BY DEF PacedInTurn, Turn
  <2>1. LastTaken(t) + 1 = 1 /\ Submitted(t) = 0 /\ Pills(t) = 0
    BY <1>2, <1>3 DEF Pills
  <2> QED BY <1>2, <1>3, <1>4, <2>1 DEF InTurn
<1>6. LowBehind
  <2>1. Passed = 0 /\ "Low" \in Workers /\ pc["Low"] # "send"
    BY DEF Passed, Workers
  <2>2. Ascending(<<>>, 0, 0) /\ 0 + 1 = 1
    BY DEF Ascending
  <2> QED BY <1>2, <1>3, <1>4, <2>1, <2>2 DEF LowBehind
<1> QED BY <1>1, <1>5, <1>6 DEF RInv

\* ... and every step keeps it.
LEMMA RelayStep ==
  ASSUME IInv, RInv, [Next]_vars PROVE RInv'
<1> USE DEF IInv, RInv
<1>1. LowUnborn' /\ SentSubmitted' /\ FramesArrive'
  BY LowUnbornStep, SentSubmittedStep, FramesArriveStep
<1>2. CASE Main \/ Environment
  BY <1>1, <1>2, PacedMain, LowMain
<1>3. CASE WorkerStep
  BY <1>1, <1>3, PacedWorker, LowWorker
<1>4. CASE Tick \/ Ended \/ UNCHANGED vars
  <2>1. UNCHANGED <<mainPc, pc, queue, work, handled, arrived, ctx, enable_dual,
                    isRunning>>
    BY <1>4, TickFrame DEF dataVars, flagVars
  <2>2. PacedInTurn'
    <3> SUFFICES ASSUME NEW t \in Paced PROVE Turn(t)'
      BY DEF PacedInTurn
    <3>1. Turn(t)
      BY DEF PacedInTurn
    <3>2. Submitted(t)' = Submitted(t) /\ PillAdded(t)' = PillAdded(t)
      BY <2>1 DEF Submitted, PillAdded, Told
    <3> QED BY <2>1, <3>1, <3>2, TurnOthers
  <2>3. LowBehind'
    <3>1. Passed' = Passed
      BY <2>1 DEF Passed
    <3> QED BY <2>1, <3>1, LowKept
  <2> QED BY <1>1, <2>2, <2>3
<1> QED BY <1>2, <1>3, <1>4 DEF Next, WorkerStep

\* So it holds in every state of every behaviour.
LEMMA RelayInvariance == Spec => [](IInv /\ RInv)
<1>1. IInv /\ RInv /\ [Next]_vars => (IInv /\ RInv)'
  <2> SUFFICES ASSUME IInv, RInv, [Next]_vars PROVE IInv' /\ RInv'
    OBVIOUS
  <2>1. IInv'
    BY TypeStep, FlagsStep, LoopsStep, InputsStep, NoNullWorkStep, ToldStep,
       SettlingStep, NoneStrayStep DEF IInv
  <2> QED BY <2>1, RelayStep
<1> QED BY <1>1, InitEstablishes, RelayInit, PTL DEF Spec

-----------------------------------------------------------------------------
(* What a user of the session sees.                                        *)

\* What is queued, without the finished work, is exactly its frames.
LEMMA FramesOfQueued ==
  ASSUME NEW q \in Seq(Work), NEW first \in Int, NEW last \in Int,
         NEW pills \in {0, 1}, Queued(q, first, last, pills)
  PROVE  Exactly(Frames(q), first, last)
<1>0. Len(q) \in Nat /\ last >= first - 1 /\ Len(q) = last - first + 1 + pills
  BY DEF Queued
<1>1. CASE pills = 0
  <2>1. q # <<>> => ~q[Len(q)].is_finished
    BY <1>0, <1>1 DEF Queued
  <2>2. Frames(q) = q
    BY <2>1 DEF Frames
  <2>3. Exactly(q, first, last)
    BY <1>0, <1>1 DEF Queued, Exactly
  <2> QED BY <2>2, <2>3
<1>2. CASE pills = 1
  <2>1. q # <<>> /\ q[Len(q)].is_finished
    BY <1>0, <1>2 DEF Queued
  <2>2. Frames(q) = SubSeq(q, 1, Len(q) - 1)
    BY <2>1 DEF Frames
  <2> DEFINE r == SubSeq(q, 1, Len(q) - 1)
  <2>3. Len(r) = Len(q) - 1 /\ \A i \in 1..Len(r) : r[i] = q[i]
    BY <1>0, <1>2
  <2> HIDE DEF r
  <2>4. Exactly(r, first, last)
    BY <1>0, <1>2, <2>3 DEF Queued, Exactly
  <2> QED BY <2>2, <2>4 DEF r
<1> QED BY <1>1, <1>2

\* The frame in the worker's hand comes before those in its queue.
LEMMA QueuedHand ==
  ASSUME NEW q \in Seq(Work), NEW w \in Work, NEW first \in Int, NEW last \in Int,
         NEW pills \in {0, 1}, Queued(q, first + 1, last, pills),
         w.id = first, ~w.is_finished
  PROVE  Queued(<<w>> \o q, first, last, pills) /\ <<w>> \o q \in Seq(Work)
<1> DEFINE r == <<w>> \o q
<1>1. /\ r \in Seq(Work) /\ Len(r) = Len(q) + 1 /\ r[1] = w /\ Len(q) \in Nat
      /\ \A i \in 1..Len(q) : r[i + 1] = q[i]
  OBVIOUS
<1>2. \A i \in 1..Len(r) : i = 1 \/ (i - 1 \in 1..Len(q) /\ r[i] = q[i - 1])
  BY <1>1
<1>3. last >= first - 1 /\ Len(r) = last - first + 1 + pills
  BY <1>1 DEF Queued
<1>4. ASSUME NEW i \in 1..Len(r)
      PROVE  IF i > last - first + 1 THEN r[i].is_finished
             ELSE r[i].id = first + i - 1 /\ ~r[i].is_finished
  <2> HIDE DEF r
  <2>1. CASE i = 1
    <3>1. last >= first
      BY DEF Queued
    <3> QED BY <1>1, <2>1, <3>1
  <2>2. CASE i # 1
    <3>1. i - 1 \in 1..Len(q) /\ r[i] = q[i - 1] /\ i \in Int
      BY <1>1, <1>2, <2>2
    <3>2. IF i - 1 > last - (first + 1) + 1 THEN q[i - 1].is_finished
          ELSE q[i - 1].id = (first + 1) + (i - 1) - 1 /\ ~q[i - 1].is_finished
      BY <3>1 DEF Queued
    <3>3. /\ i - 1 > last - (first + 1) + 1 <=> i > last - first + 1
          /\ (first + 1) + (i - 1) - 1 = first + i - 1
      BY <3>1
    <3> QED BY <3>1, <3>2, <3>3
  <2> QED BY <2>1, <2>2
<1> HIDE DEF r
<1> QED BY <1>1, <1>3, <1>4 DEF r, Queued

\* What is in flight to a worker that holds nothing, or a frame.
LEMMA InFlightExactly ==
  ASSUME TypeOK, NEW t \in Workers, NEW last \in Int, NEW pills \in {0, 1},
         ~HoldsFinish(t), Queued(queue[t], LastTaken(t) + 1, last, pills),
         HoldsFrame(t) => work[t].id = handled[t] + 1
  PROVE  Exactly(InFlight(t), handled[t] + 1, last)
<1>0. queue[t] \in Seq(Work) /\ work[t] \in Work /\ handled[t] \in Nat
  BY DEF TypeOK
<1>1. CASE HoldsFrame(t)
  <2>1. LastTaken(t) = handled[t] + 1 /\ InHand(t) = <<work[t]>>
    BY <1>1 DEF LastTaken, InHand, HoldsFrame
  <2>2. Queued(queue[t], (handled[t] + 1) + 1, last, pills)
    BY <2>1
  <2>3. handled[t] + 1 \in Int /\ work[t].id = handled[t] + 1 /\ ~work[t].is_finished
    BY <1>0, <1>1 DEF HoldsFrame
  <2>4. /\ Queued(<<work[t]>> \o queue[t], handled[t] + 1, last, pills)
        /\ <<work[t]>> \o queue[t] \in Seq(Work)
    BY <1>0, <2>2, <2>3, QueuedHand
  <2>5. Exactly(Frames(<<work[t]>> \o queue[t]), handled[t] + 1, last)
    BY <2>3, <2>4, FramesOfQueued
  <2> QED BY <2>1, <2>5 DEF InFlight
<1>2. CASE ~HoldsFrame(t)
  <2>1. LastTaken(t) = handled[t] /\ InHand(t) = <<>>
    BY <1>2 DEF LastTaken, InHand, HoldsFrame, HoldsFinish
  <2>2. InHand(t) \o queue[t] = queue[t]
    BY <1>0, <2>1
  <2>3. Exactly(Frames(queue[t]), handled[t] + 1, last)
    BY <1>0, <2>1, FramesOfQueued
  <2> QED BY <2>2, <2>3 DEF InFlight
<1> QED BY <1>1, <1>2

\* No paced frame is lost, repeated or overtaken between agora_send_video or
\* agora_send_audio and the send that a worker makes of it, in a session of any
\* length, with any timestamps and however the threads interleave.
THEOREM NothingLost == Spec => []NoFrameLost
<1>1. IInv /\ RInv => NoFrameLost
  <2> SUFFICES ASSUME IInv, RInv, NEW t \in Paced, ctx = "live", pc[t] # "done"
               PROVE  Exactly(InFlight(t), handled[t] + 1, Submitted(t))
    BY DEF NoFrameLost
  <2>0. /\ t \in Workers /\ queue[t] \in Seq(Work) /\ work[t] \in Work
        /\ handled[t] \in Nat /\ Submitted(t) \in Int /\ TypeOK
    BY NumbersType DEF IInv
  <2>1. InTurn(t)
    BY DEF RInv, PacedInTurn, Turn
  <2>2. CASE ~HoldsFinish(t)
    <3>1. Pills(t) \in {0, 1}
      BY DEF Pills
    <3> QED BY <2>0, <2>1, <2>2, <3>1, InFlightExactly DEF InTurn
  <2>3. CASE HoldsFinish(t)
    <3>1. /\ Pills(t) = 0 /\ LastTaken(t) = handled[t] /\ handled[t] = Submitted(t)
          /\ InHand(t) = <<work[t]>> /\ work[t].is_finished
      BY <2>1, <2>3 DEF Pills, LastTaken, HoldsFrame, HoldsFinish, InTurn, InHand
    <3>2. Queued(queue[t], handled[t] + 1, handled[t], 0)
      BY <2>1, <3>1 DEF InTurn
    <3>3. Len(queue[t]) = 0
      BY <2>0, <3>2 DEF Queued
    <3>4. queue[t] = <<>>
      BY <2>0, <3>3
    <3>5. InHand(t) \o queue[t] = <<work[t]>>
      BY <2>0, <3>1, <3>4
    <3>6. Queued(<<work[t]>>, handled[t] + 1, handled[t], 1) /\ <<work[t]>> \in Seq(Work)
      BY <2>0, <3>1 DEF Queued
    <3>7. Exactly(Frames(<<work[t]>>), handled[t] + 1, handled[t])
      <4>1. handled[t] + 1 \in Int /\ handled[t] \in Int /\ 1 \in {0, 1}
        BY <2>0
      <4> QED BY <3>6, <4>1, FramesOfQueued
    <3> QED BY <3>1, <3>5, <3>7 DEF InFlight
  <2> QED BY <2>2, <2>3
<1> QED BY <1>1, RelayInvariance, PTL

\* While a dual session runs, Low is handed exactly what High has taken, in
\* order.
THEOREM LowGetsWhatHighTakes == Spec => []LowFollowsHigh
<1>1. IInv /\ RInv => LowFollowsHigh
  <2> SUFFICES ASSUME IInv, RInv, enable_dual, isRunning
               PROVE  Exactly(InFlight("Low"), handled["Low"] + 1, TakenByHigh)
    BY DEF LowFollowsHigh
  <2>0. /\ ctx = "live" /\ TypeOK /\ Loops /\ Flags /\ PacedInTurn
        /\ "High" \in Paced /\ "Low" \in Workers /\ Passed \in Int
    BY LowNumbers DEF IInv, RInv, Flags, Running
  <2>1. TakenByHigh = Passed
    <3>1. pc["High"] \in {"sample", "send"} => ~work["High"].is_finished
      BY <2>0, RunningHoldsFrames DEF HoldsFinish, Holding
    <3> QED BY <3>1 DEF TakenByHigh, Passed
  <2>2. /\ Queued(queue["Low"], LastTaken("Low") + 1, Passed, 0)
        /\ pc["Low"] = "send" => /\ ~work["Low"].is_finished
                                 /\ work["Low"].id = handled["Low"] + 1
    BY <2>0 DEF RInv, LowBehind
  <2>3. /\ ~HoldsFinish("Low")
        /\ HoldsFrame("Low") => work["Low"].id = handled["Low"] + 1
    BY <2>0, <2>2, LowNumbers DEF HoldsFinish, HoldsFrame
  <2>4. 0 \in {0, 1}
    OBVIOUS
  <2>5. Exactly(InFlight("Low"), handled["Low"] + 1, Passed)
    BY <2>0, <2>2, <2>3, <2>4, InFlightExactly
  <2> QED BY <2>1, <2>5
<1> QED BY <1>1, RelayInvariance, PTL

\* The frame that Low sends or leaves out is one that High has passed on,
\* later than those before, and the next one while the session runs.
LEMMA LowSends ==
  ASSUME IInv, RInv, SendLowVideo
  PROVE  LET n == work["Low"].id IN
         /\ n \in (handled["Low"] + 1)..(handled["High"] + 1)
         /\ n <= Submitted("High")
         /\ isRunning => n = handled["Low"] + 1
         /\ handled' = [handled EXCEPT !["Low"] = n]
         /\ lowSent' = n \/ (n \notin KeyFrames /\ lowSent' = lowSent)
<1>0. /\ TypeOK /\ Loops /\ PacedInTurn /\ SentSubmitted /\ LowBehind
      /\ "High" \in Paced /\ handled["High"] \in Nat /\ handled["Low"] \in Nat
      /\ work["Low"].id \in Nat /\ Passed \in Nat /\ Submitted("High") \in Int
  BY LowNumbers, NumbersType DEF IInv, RInv, TypeOK
<1>1. /\ pc["Low"] = "send" /\ ctx = "live"
      /\ handled' = [handled EXCEPT !["Low"] = work["Low"].id]
      /\ \/ lowSent' = work["Low"].id
         \/ work["Low"].id \notin KeyFrames /\ lowSent' = lowSent
  BY DEF SendLowVideo, LeaveOut, At, Dangling, FlagsOnly, IInv, Flags
<1>2. enable_dual
  BY <1>0, <1>1 DEF Loops
<1>3. /\ work["Low"].id > handled["Low"] /\ LastTaken("Low") = work["Low"].id
      /\ LastTaken("Low") <= Passed
      /\ isRunning => work["Low"].id = handled["Low"] + 1
  BY <1>0, <1>1, <1>2 DEF LowBehind, LastTaken, HoldsFrame, Holding
<1>4. Passed <= handled["High"] + 1 /\ Passed <= Submitted("High")
  <2>1. CASE pc["High"] \in {"sample", "send"} /\ ~work["High"].is_finished
    <3>1. /\ Turn("High") /\ HoldsFrame("High") /\ pc["High"] # "done"
          /\ Passed = work["High"].id /\ LastTaken("High") = work["High"].id
      BY <1>0, <2>1 DEF PacedInTurn, HoldsFrame, Holding, Passed, LastTaken
    <3>2. work["High"].id = handled["High"] + 1
      BY <1>1, <3>1 DEF Turn, InTurn
    <3> QED BY <1>0, <1>1, <3>1, <3>2, TakenSubmitted
  <2>2. CASE ~(pc["High"] \in {"sample", "send"} /\ ~work["High"].is_finished)
    <3>1. Passed = handled["High"]
      BY <2>2 DEF Passed
    <3> QED BY <1>0, <3>1 DEF SentSubmitted
  <2> QED BY <2>1, <2>2
<1> QED BY <1>0, <1>1, <1>3, <1>4

\* The session implements MediaRelay: each step of its threads accepts a frame,
\* sends the next one of a stream, sends or leaves out the next one of the low
\* stream, stops the session, or is not seen from outside.
THEOREM ImplementsRelay == Spec => RelaySpec
<1> DEFINE accepted == [t \in Paced |-> Submitted(t)]
           sent     == [handled EXCEPT !["Low"] = lowSent]
           decided  == handled["Low"]
<1>1. Init => Relay!Init
  <2> SUFFICES ASSUME Init PROVE Relay!Init
    OBVIOUS
  <2>1. \A t \in Paced : Submitted(t) = 0
    BY DEF Init, Submitted, NullWork, Paced
  <2>2. Workers = Paced \cup {"Low"}
    BY DEF Workers, Paced
  <2> QED BY <2>1, <2>2 DEF Init, Relay!Init
<1>2. ASSUME IInv, RInv, [Next]_vars
      PROVE  Relay!Next \/ UNCHANGED <<isRunning, accepted, sent, decided>>
  <2>0. /\ TypeOK /\ Flags /\ Loops /\ PacedInTurn
        /\ "High" \in Paced /\ "Audio" \in Paced
    BY <1>2 DEF IInv, RInv, Paced
  <2>1. ASSUME UNCHANGED <<isRunning, handled, lowSent>>,
               \A t \in Paced : Submitted(t)' = Submitted(t)
        PROVE  UNCHANGED <<isRunning, accepted, sent, decided>>
    BY <2>1
  <2>2. ASSUME NEW t \in Paced, isRunning, UNCHANGED <<isRunning, handled, lowSent>>,
               Submitted(t)' = Submitted(t) + 1,
               \A u \in Paced \ {t} : Submitted(u)' = Submitted(u)
        PROVE  Relay!Next
    <3>1. accepted' = [accepted EXCEPT ![t] = @ + 1]
      BY <2>2
    <3>2. Relay!Accept(t)
      BY <2>2, <3>1 DEF Relay!Accept
    <3> QED BY <3>2 DEF Relay!Next
  <2>9. Main \/ Environment => lowSent' = lowSent
    BY MainFrame
  <2>3. CASE AddVideo
    <3>1. isRunning /\ isRunning' = isRunning
      BY <2>0, <2>3 DEF AddVideo, Add, flagVars, Flags, Running
    <3> QED BY <2>0, <2>2, <2>3, <2>9, <3>1, MainAccepts DEF Main, Paced
  <2>4. CASE AddAudio
    <3>1. isRunning /\ isRunning' = isRunning
      BY <2>0, <2>4 DEF AddAudio, Add, flagVars, Flags, Running
    <3> QED BY <2>0, <2>2, <2>4, <2>9, <3>1, MainAccepts DEF Main, Paced
  <2>5. CASE Disconnect
    <3>1. isRunning /\ ~isRunning'
      BY <2>0, <2>5 DEF Disconnect, Flags, Running
    <3>2. /\ UNCHANGED <<handled, lowSent>>
          /\ \A t \in Paced : Submitted(t)' = Submitted(t)
      BY <2>5 DEF Disconnect, Submitted
    <3>3. Relay!Stop
      BY <2>0, <3>1, <3>2 DEF Relay!Stop, Disconnect, TypeOK
    <3> QED BY <3>3 DEF Relay!Next
  <2>6. CASE (Main \/ Environment) /\ ~AddVideo /\ ~AddAudio /\ ~Disconnect
    <3>1. isRunning' = isRunning
      BY <2>6 DEF Main, StartLow, CodecFails, StartSingle, InitFields, PillHigh,
         ClearLow, PillLow, PillAudio, DisconnectFails, TearDown, Free,
         Environment, SendVideo, SendAudio, Arrive, flagVars
    <3> QED BY <2>0, <2>1, <2>6, <2>9, <3>1, MainAccepts
  <2>7. CASE WorkerStep
    <3>1. isRunning' = isRunning /\ \A t \in Paced : Submitted(t)' = Submitted(t)
      BY <2>7, WorkerFrame DEF Submitted
    <3>2. accepted' = accepted
      BY <3>1
    <3>3. CASE handled' = handled /\ ~SendLowVideo
      BY <1>2, <2>1, <3>1, <3>3, LowSentKept
    <3>4. ASSUME NEW t \in Paced, handled' = [handled EXCEPT ![t] = @ + 1],
                 handled[t] + 1 <= Submitted(t), ~SendLowVideo
          PROVE  Relay!Next
      <4>1. sent[t] = handled[t] /\ sent[t] < accepted[t]
        BY <2>0, <3>4, NumbersType DEF Paced
      <4>2. decided' = decided /\ sent' = [sent EXCEPT ![t] = @ + 1]
        <5>1. lowSent' = lowSent /\ t # "Low" /\ handled \in [Workers -> Nat]
          BY <1>2, <2>0, <3>4, LowSentKept DEF TypeOK, Paced
        <5> QED BY <3>4, <5>1 DEF Workers, Paced
      <4>3. Relay!Send(t)
        BY <3>1, <3>2, <4>1, <4>2 DEF Relay!Send
      <4> QED BY <4>3 DEF Relay!Next
    <3>5. CASE SendLowVideo
      <4> DEFINE n == work["Low"].id
      <4>1. /\ n \in (handled["Low"] + 1)..(handled["High"] + 1)
            /\ n <= Submitted("High")
            /\ isRunning => n = handled["Low"] + 1
            /\ handled' = [handled EXCEPT !["Low"] = n]
            /\ lowSent' = n \/ (n \notin KeyFrames /\ lowSent' = lowSent)
        BY <1>2, <3>5, LowSends
      <4>2. /\ accepted["High"] = Submitted("High") /\ sent["High"] = handled["High"]
            /\ "Low" \in Workers /\ handled \in [Workers -> Nat]
        BY <2>0 DEF TypeOK, Workers, Paced
      <4>3. n \in Relay!Ahead /\ Relay!Decide(n)
        BY <3>1, <3>2, <4>1, <4>2 DEF Relay!Ahead, Relay!Decide
      <4>4. sent' = [sent EXCEPT !["Low"] = n] \/ (n \notin KeyFrames /\ sent' = sent)
        BY <4>1, <4>2
      <4>5. Relay!Derive \/ Relay!LeaveOut
        BY <4>3, <4>4 DEF Relay!Derive, Relay!LeaveOut
      <4> QED BY <4>5 DEF Relay!Next
    <3> QED BY <2>0, <2>7, <3>3, <3>4, <3>5, WorkerSends
  <2>8. CASE Tick \/ Ended \/ UNCHANGED vars
    BY <2>1, <2>8, TickFrame DEF Submitted, dataVars, flagVars
  <2> QED BY <1>2, <2>3, <2>4, <2>5, <2>6, <2>7, <2>8
          DEF Next, Main, Environment, WorkerStep
<1>3. IInv /\ RInv /\ [Next]_vars
        => [Relay!Next]_<<isRunning, accepted, sent, decided>>
  BY <1>2
<1> QED BY <1>1, <1>3, RelayInvariance, PTL DEF Spec, RelaySpec, Relay!Spec,
        Relay!vars
=============================================================================
