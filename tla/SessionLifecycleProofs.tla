----------------------- MODULE SessionLifecycleProofs -----------------------
(***************************************************************************)
(* SessionLifecycle for any number of streams, any arguments and any       *)
(* configuration files: a handle is always a whole session, no context is  *)
(* deleted over a joinable thread, and what a stream fails to give back is *)
(* decided by the call that failed.                                        *)
(*                                                                         *)
(* The argument is a table of where in the opening each thing is acquired. *)
(* While a session opens it holds what the stages before the present one   *)
(* acquire, and nothing else; while it closes what each step has left; and *)
(* the ledger has no entry for a stream that is still open.                *)
(*                                                                         *)
(* Then the texts: loadConfig and ngx_agora_init go over them piece by     *)
(* piece, and what they end with is said without the pieces before it: the *)
(* last line of a setting, the first place of a name.                      *)
(***************************************************************************)
EXTENDS SessionLifecycle, WellFoundedInduction, TLAPS

\* The number of the stage, with or without the two of the low stream.
AfterLow(n) == IF enable_dual THEN n + 2 ELSE n

\* The stage that acquires a thing; a single stream never gets the last two.
From(r) ==
  CASE r = "ngxContext"  -> 2
    [] r = "context"     -> 3
    [] r = "service"     -> 4
    [] r = "connection"  -> 5
    [] r = "channel"     -> 7
    [] r = "audioSender" -> 9
    [] r = "audioTrack"  -> 10
    [] r = "videoSender" -> 11
    [] r = "videoTrack"  -> 12
    [] r \in {"queues", "highThread", "audioThread"} -> 13
    [] r = "aac"         -> AfterLow(15)
    [] r \in {"opus", "audioContext"} -> AfterLow(16)
    [] r = "codecs"      -> IF enable_dual THEN 14 ELSE 100
    [] r = "lowThread"   -> IF enable_dual THEN 15 ELSE 100

\* What a session holds when it comes to the stage n.
Acquired(n) == {r \in Resources : From(r) < n}

\* What a session that is open holds.
Whole == Resources \ (IF enable_dual THEN {} ELSE {"lowThread", "codecs"})

-----------------------------------------------------------------------------
\* The stages before the codecs are the same for all streams.
LEMMA CommonStages ==
  /\ Len(Stages) >= 13
  /\ Stages[1]  = Stage("arguments", {}, {}, {})
  /\ Stages[2]  = Stage("ngxContext", {"ngxContext"}, {}, {})
  /\ Stages[3]  = Stage("config", {"context"}, {}, {})
  /\ Stages[4]  = Stage("service", {"service"}, {"service"}, {"context"})
  /\ Stages[5]  = Stage("connection", {"connection"}, {}, {"context"})
  /\ Stages[6]  = Stage("encryption", {}, {}, {"context", "connection"})
  /\ Stages[7]  = Stage("connect", {"channel"}, {}, {"context", "connection"})
  /\ Stages[8]  = Stage("factory", {}, {}, {})
  /\ Stages[9]  = Stage("audioSender", {"audioSender"}, {}, {})
  /\ Stages[10] = Stage("audioTrack", {"audioTrack"}, {}, {})
  /\ Stages[11] = Stage("videoSender", {"videoSender"}, {}, {})
  /\ Stages[12] = Stage("videoTrack", {"videoTrack"}, {}, {})
  /\ Stages[13] = Stage("threads", {"queues", "highThread", "audioThread"}, {}, {})
BY DEF Stages, Arguments, OpenService, AgoraInit, StartThreads, OpenLow, AudioInit

\* The stages after them: the codecs of the low stream, if any, and the audio.
LEMMA LastStages ==
  /\ Len(Stages) = AfterLow(17)
  /\ enable_dual => /\ Stages[14] = Stage("codecs", {"codecs"}, {"codecs"}, {})
                    /\ Stages[15] = Stage("lowThread", {"lowThread"}, {}, {})
  /\ Stages[AfterLow(14)] = Stage("decoder", {}, {}, {})
  /\ Stages[AfterLow(15)] = Stage("aac", {"aac"}, {"aac"}, {})
  /\ Stages[AfterLow(16)]
       = Stage("opus", {"audioContext", "opus"}, {"audioContext"}, {})
  /\ Stages[AfterLow(17)] = Stage("bitrate", {}, {}, {})
BY DEF Stages, Arguments, OpenService, AgoraInit, StartThreads, OpenLow,
   AudioInit, AfterLow

\* Each stage acquires what the table says.
Row(i) == Stages[i].gets = {r \in Resources : From(r) = i}
\* The rows that do not depend on the low stream,
LEMMA CommonRows ==
  /\ Row(1) /\ Row(2) /\ Row(3) /\ Row(4) /\ Row(5) /\ Row(6) /\ Row(7)
  /\ Row(8) /\ Row(9) /\ Row(10) /\ Row(11) /\ Row(12) /\ Row(13)
<1> USE CommonStages DEF Row, Stage, From, Resources, Members, Tracks, Threads,
        NgxSide, AfterLow
<1>1. Row(1) /\ Row(2) /\ Row(3) /\ Row(4)
  OBVIOUS
<1>2. Row(5) /\ Row(6) /\ Row(7) /\ Row(8)
  OBVIOUS
<1>3. Row(9) /\ Row(10) /\ Row(11)
  OBVIOUS
<1>4. Row(12) /\ Row(13)
  OBVIOUS
<1> QED BY <1>1, <1>2, <1>3, <1>4

\* And so do the last stages, of either kind of stream.
LEMMA LastRows ==
  /\ enable_dual => Row(14) /\ Row(15)
  /\ Row(AfterLow(14)) /\ Row(AfterLow(15)) /\ Row(AfterLow(16))
  /\ Row(AfterLow(17))
<1> USE DEF Row, Stage, From, Resources, Members, Tracks, Threads, NgxSide,
        AfterLow
<1>1. CASE enable_dual
  BY <1>1, LastStages
<1>2. CASE ~enable_dual
  BY <1>2, LastStages
<1> QED BY <1>1, <1>2

\* There are no other stages.
LEMMA StageGets == ASSUME NEW i \in 1..Len(Stages) PROVE Row(i)
<1>1. Len(Stages) = AfterLow(17)
  BY LastStages
<1> HIDE DEF Row
<1>2. CASE i \in 1..13
  BY <1>2, CommonRows
<1>3. CASE i \notin 1..13
  BY <1>1, <1>3, LastRows DEF AfterLow
<1> QED BY <1>2, <1>3

\* Which group of calls the stage i belongs to, and what its failure leaves
\* behind and gives back.
Named(i) ==
  LET stage_i == Stages[i]
  IN  /\ stage_i.name \in Calls \cup Sure /\ stage_i.name # "disconnect"
      /\ stage_i.name = "arguments" <=> i = 1
      /\ stage_i.name = "config" <=> i = 3
      /\ stage_i.name = "threads" <=> i = 13
      /\ stage_i.name \in BeforeService <=> i \in {1, 2}
      /\ stage_i.name \in BeforeChannel <=> i \in 4..7
      /\ stage_i.name \in BeforeThreads <=> i \in 8..12
      /\ stage_i.name \in WithThreads => i \in 14..19
Leaves(i) ==
  /\ Stages[i].leaves \subseteq Resources \ (Threads \cup {"context"})
  /\ i <= 3 => Stages[i].leaves = {} /\ Stages[i].frees = {}
  /\ i = 4 => Stages[i].leaves = {"service"} /\ Stages[i].frees = {"context"}
  /\ i \in 5..7 => Stages[i].leaves = {}
  /\ i = 5 => Stages[i].frees = {"context"}
  /\ i \in 6..7 => Stages[i].frees = {"context", "connection"}
  /\ i >= 8 => Stages[i].frees = {}
\* For the stages that all streams have, what they are called ...
LEMMA CommonNames ==
  /\ Named(1) /\ Named(2) /\ Named(3) /\ Named(4) /\ Named(5) /\ Named(6)
  /\ Named(7) /\ Named(8) /\ Named(9) /\ Named(10) /\ Named(11) /\ Named(12)
  /\ Named(13)
BY CommonStages DEF Named, Stage, Calls, Sure, BeforeService, BeforeChannel,
   BeforeThreads, Tracks, WithThreads
\* ... and what their failure leaves behind;
LEMMA CommonLeaves ==
  /\ Leaves(1) /\ Leaves(2) /\ Leaves(3) /\ Leaves(4) /\ Leaves(5) /\ Leaves(6)
  /\ Leaves(7) /\ Leaves(8) /\ Leaves(9) /\ Leaves(10) /\ Leaves(11)
  /\ Leaves(12) /\ Leaves(13)
BY CommonStages DEF Leaves, Stage, Resources, Threads, Members, Tracks, NgxSide
\* for the last stages, of either kind of stream, both;
LEMMA LastNames ==
  /\ enable_dual => Named(14) /\ Named(15) /\ Leaves(14) /\ Leaves(15)
  /\ Named(AfterLow(14)) /\ Named(AfterLow(15)) /\ Named(AfterLow(16))
  /\ Named(AfterLow(17))
  /\ Leaves(AfterLow(14)) /\ Leaves(AfterLow(15)) /\ Leaves(AfterLow(16))
  /\ Leaves(AfterLow(17))
<1> USE DEF Named, Leaves, Stage, Calls, Sure, BeforeService, BeforeChannel,
        BeforeThreads, Tracks, WithThreads, Resources, Threads, Members,
        NgxSide, AfterLow
<1>1. CASE enable_dual
  BY <1>1, LastStages
<1>2. CASE ~enable_dual
  BY <1>2, LastStages
<1> QED BY <1>1, <1>2
\* and so for every stage.
LEMMA StageNames == ASSUME NEW i \in 1..Len(Stages) PROVE Named(i) /\ Leaves(i)
<1>1. Len(Stages) = AfterLow(17)
  BY LastStages
<1>2. CASE i \in 1..13
  BY <1>2, CommonNames, CommonLeaves
<1>3. CASE i \notin 1..13
  BY <1>1, <1>3, LastNames DEF AfterLow
<1> QED BY <1>2, <1>3

-----------------------------------------------------------------------------
(* What a session holds while it opens.                                    *)

\* Each thing is acquired at a stage.
LEMMA FromType ==
  ASSUME NEW r \in Resources PROVE From(r) \in Int /\ From(r) >= 2
<1>1. From(r) \in 2..100
  BY DEF From, AfterLow, Resources, Members, Tracks, Threads, NgxSide
<1> QED BY <1>1

\* A stage adds what it acquires.
LEMMA AcquiredNext ==
  ASSUME NEW i \in 1..Len(Stages)
  PROVE  Acquired(i + 1) = Acquired(i) \cup Stages[i].gets
<1>1. i \in Int
  BY LastStages DEF AfterLow
<1>2. ASSUME NEW r \in Resources
      PROVE  From(r) < i + 1 <=> From(r) < i \/ From(r) = i
  <2>1. From(r) \in Int
    BY FromType
  <2> QED BY <1>1, <2>1
<1> QED BY <1>2, StageGets DEF Acquired, Row

\* At the first two stages there is nothing; after the last there is all that
\* the stream needs.
LEMMA AcquiredEnds ==
  /\ Acquired(1) = {} /\ Acquired(2) = {}
  /\ Acquired(Len(Stages) + 1) = Whole
<1>1. Acquired(1) = {} /\ Acquired(2) = {}
  BY FromType DEF Acquired
<1>2. Len(Stages) + 1 = AfterLow(18)
  BY LastStages DEF AfterLow
<1>3. ASSUME NEW r \in Resources
      PROVE  From(r) < AfterLow(18) <=> r \in Whole
  <2>1. CASE r \in {"lowThread", "codecs"}
    BY <2>1 DEF Whole, From, AfterLow, Resources
  <2>2. CASE r \notin {"lowThread", "codecs"}
    <3>1. r \in Whole
      BY <2>2 DEF Whole
    <3>2. From(r) < AfterLow(18)
      BY <2>2 DEF From, AfterLow, Resources, Members, Tracks, Threads, NgxSide
    <3> QED BY <3>1, <3>2
  <2> QED BY <2>1, <2>2
<1>4. Acquired(AfterLow(18)) = Whole
  BY <1>3 DEF Acquired, Whole
<1> QED BY <1>1, <1>2, <1>4

\* At the first two stages there is nothing,
LEMMA AcquiredFirst == Acquired(1) = {} /\ Acquired(2) = {}
BY AcquiredEnds
\* also after a step.
LEMMA AcquiredFirstNext == (Acquired(1) = {} /\ Acquired(2) = {})'
BY AcquiredFirst, PTL

\* What is left of a session when its stage i fails.
Left(i) == (Acquired(i) \cup Stages[i].leaves) \ (Stages[i].frees \cup {"ngxContext"})
\* By where the opening failed: nothing, the service, or no thread.
LEMMA LeftBehind ==
  ASSUME NEW i \in 1..Len(Stages)
  PROVE  /\ Left(i) \subseteq Resources
         /\ i \in {1, 2} => Left(i) = {}
         /\ i \in 4..7 => Left(i) = {"service"}
         /\ i <= 13 => Left(i) \cap Threads = {} /\ Acquired(i) \cap Threads = {}
         /\ i >= 14 => "highThread" \in Left(i)
         /\ i >= 8 => "context" \in Left(i)
<1>0. Leaves(i)
  BY StageNames
<1>1. i \in Nat
  BY LastStages DEF AfterLow
<1>2. Left(i) \subseteq Resources
  BY <1>0 DEF Left, Leaves, Acquired
<1>3. i <= 13 => Acquired(i) \cap Threads = {}
  BY <1>1 DEF Acquired, From, AfterLow, Threads
<1>4. i <= 13 => Left(i) \cap Threads = {}
  BY <1>0, <1>3 DEF Left, Leaves
<1>5. i >= 14 => "highThread" \in Acquired(i)
  BY <1>1 DEF Acquired, From, Resources, Threads
<1>6. i >= 8 => "context" \in Acquired(i)
  BY <1>1 DEF Acquired, From, Resources, Members
<1>7. i >= 8 => Stages[i].frees = {}
  BY <1>0 DEF Leaves
<1>8. i \in {1, 2} => Left(i) = {}
  BY <1>0, AcquiredEnds DEF Left, Leaves
<1>9. i \in 4..7 => Left(i) = {"service"}
  <2>1. /\ Acquired(4) = {"ngxContext", "context"}
        /\ Acquired(5) = {"ngxContext", "context", "service"}
        /\ Acquired(6) = {"ngxContext", "context", "service", "connection"}
        /\ Acquired(7) = {"ngxContext", "context", "service", "connection"}
    BY DEF Acquired, From, AfterLow, Resources, Members, Tracks, Threads, NgxSide
  <2>2. i \in 4..7 => i = 4 \/ i = 5 \/ i = 6 \/ i = 7
    OBVIOUS
  <2> QED BY <1>0, <2>1, <2>2 DEF Left, Leaves
<1> QED BY <1>2, <1>3, <1>4, <1>5, <1>6, <1>7, <1>8, <1>9 DEF Left
-----------------------------------------------------------------------------
(* The invariant.                                                          *)

\* What the session holds, by where it is.
Released == Tracks \cup {"queues", "connection", "channel", "service"}
Holds ==
  /\ phase = "closed" => held = {} /\ joinable = {} /\ ~isRunning
  /\ phase = "opening" =>
       /\ held = Acquired(stage) /\ joinable = held \cap Threads
       /\ isRunning <=> stage > 13
  /\ phase \in {"open", "disconnecting"} =>
       /\ held = Whole /\ joinable = held \cap Threads
       /\ isRunning <=> phase = "open"
  /\ phase = "detach" =>
       held = Whole \ Released /\ joinable = Whole \cap Threads /\ ~isRunning
  /\ phase = "delete" =>
       held = Whole \ (Released \cup Threads) /\ joinable = {} /\ ~isRunning
  /\ phase = "closeAudio" => held = NgxSide /\ ~isRunning

\* The ledger has no entry for a stream that is open or yet to come.
Clean(n) == /\ LostBy(n) = {} /\ FailedIn(n) = {}
            /\ \A t \in Threads : <<n, t>> \notin orphans
LedgerOfClosed ==
  /\ phase # "closed" => published \in Streams
  /\ \A n \in Streams :
       \/ n > published
       \/ n = published /\ phase \notin {"closed", "closeAudio"}
       => Clean(n)

\* The inductive invariant: all of it, with what the ledger says.
LInv == /\ TypeOK /\ Holds /\ LedgerOfClosed
        /\ LossesByFailure /\ OrphansOnlyAfterStart

\* The arguments and the configuration always have their fields.
LEMMA Fields ==
  /\ \A text : DOMAIN Parse(text) = Names
  /\ DOMAIN Default = Numeric \cup Flags
  /\ \A lines : DOMAIN ReadConfig(lines) = Numeric \cup Flags
<1>1. \A text : DOMAIN Parse(text) = Names
  BY DEF Parse
<1>2. DOMAIN Default = Numeric \cup Flags
  BY DEF Default
<1>3. ASSUME NEW lines
      PROVE  DOMAIN ReadConfig(lines) = Numeric \cup Flags
  <2> DEFINE settings == [key \in Numeric \cup Flags |-> Setting(key, lines)]
  <2>1. ReadConfig(lines) \in {Validate(settings), settings}
    BY DEF ReadConfig
  <2>2. DOMAIN settings = Numeric \cup Flags
    OBVIOUS
  <2> HIDE DEF settings
  <2> QED BY <2>1, <2>2 DEF Validate
<1> QED BY <1>1, <1>2, <1>3

\* There are thirteen stages at least,
LEMMA StageCount == Len(Stages) \in Nat /\ Len(Stages) >= 13
BY LastStages DEF AfterLow
\* also after a step.
LEMMA StageCountNext == (Len(Stages) \in Nat /\ Len(Stages) >= 13)'
BY StageCount, PTL

\* The invariant holds at the start.
LEMMA LifecycleInit == Init => LInv
<1> SUFFICES ASSUME Init PROVE LInv
  OBVIOUS
<1> USE DEF Init
<1>1. TypeOK
  <2>1. phase \in Phases /\ stage \in 1..(Len(Stages) + 1) /\ published \in 0..MaxPublish
    BY StageCount, PublishAssumption DEF Phases
  <2>2. DOMAIN arguments = Names /\ DOMAIN callConfig = Numeric \cup Flags
    BY Fields
  <2> QED BY <2>1, <2>2 DEF TypeOK
<1>2. Holds /\ LedgerOfClosed
  BY DEF Holds, LedgerOfClosed, Clean, LostBy, FailedIn
<1>3. LossesByFailure /\ OrphansOnlyAfterStart
  BY DEF LossesByFailure, OrphansOnlyAfterStart, LostBy, FailedIn
<1> QED BY <1>1, <1>2, <1>3 DEF LInv

\* Every variable keeps its type.
LEMMA LifecycleType == ASSUME LInv, [Next]_vars PROVE TypeOK'
<1> USE DEF LInv, TypeOK, input, config
<1> DEFINE Opening == ParseArguments \/ LoadConfig \/ Advance \/ Fail \/ Opened
           Closing == \/ Stop \/ DisconnectFails \/ ReleaseMedia \/ Detach
                      \/ DeleteContext \/ CloseAudio
<1>0. \/ Publish \/ Opening \/ Closing \/ UNCHANGED vars
  BY DEF Next, StopWithoutContext
<1>1. /\ phase' \in Phases /\ query' \in Queries \cup {<<>>}
      /\ enable_dual' \in BOOLEAN /\ isRunning' \in BOOLEAN /\ agora_ctx' \in BOOLEAN
      /\ file' \in Files \cup {<<>>}
  BY <1>0 DEF vars, Phases, Publish, ParseArguments, LoadConfig, Advance, Fail,
     Opened, Stop, DisconnectFails, ReleaseMedia, Detach, DeleteContext,
     CloseAudio, DualOn
<1>2. DOMAIN arguments' = Names /\ DOMAIN callConfig' = Numeric \cup Flags
  BY <1>0, Fields DEF vars, Publish, ParseArguments, LoadConfig, Advance, Fail,
     Opened, Stop, DisconnectFails, ReleaseMedia, Detach, DeleteContext,
     CloseAudio
<1>3. stage' \in 1..(Len(Stages)' + 1) /\ published' \in 0..MaxPublish
  <2>1. CASE Publish
    BY <2>1, StageCountNext, PublishAssumption DEF Publish
  <2>2. CASE ParseArguments
    <3>1. stage = 1
      BY <2>2, StageCount, StageNames DEF ParseArguments, At, Named
    <3> QED BY <2>2, <3>1, StageCountNext DEF ParseArguments
  <2>3. CASE (Opening /\ ~ParseArguments) \/ Closing \/ UNCHANGED vars
    <3>1. enable_dual' = enable_dual /\ published' = published
      BY <2>3 DEF vars, LoadConfig, Advance, Fail, Opened, Stop,
         DisconnectFails, ReleaseMedia, Detach, DeleteContext, CloseAudio
    <3>2. Stages' = Stages
      BY <3>1 DEF Stages
    <3>3. stage' = stage \/ (stage <= Len(Stages) /\ stage' = stage + 1)
      <4>1. LoadConfig \/ Advance => stage <= Len(Stages) /\ stage' = stage + 1
        BY DEF LoadConfig, Advance, At
      <4>2. ~LoadConfig /\ ~Advance => stage' = stage
        BY <2>3 DEF vars, Fail, Opened, Stop, DisconnectFails, ReleaseMedia,
           Detach, DeleteContext, CloseAudio
      <4> QED BY <4>1, <4>2
    <3>4. stage \in 1..(Len(Stages) + 1) /\ published \in 0..MaxPublish
      OBVIOUS
    <3>5. stage' \in 1..(Len(Stages) + 1)
      BY <3>3, <3>4, StageCount
    <3> QED BY <3>1, <3>2, <3>4, <3>5
  <2> QED BY <1>0, <2>1, <2>2, <2>3
<1>4. /\ held' \subseteq Resources /\ joinable' \subseteq Threads
      /\ lost' \subseteq Streams \X Resources
      /\ orphans' \subseteq Streams \X Threads
      /\ failures' \subseteq Streams \X Calls
  <2>1. phase # "closed" => published \in Streams
    BY DEF LedgerOfClosed
  <2>2. CASE LoadConfig \/ Advance
    <3>1. stage \in 1..Len(Stages) /\ Stages[stage].gets \subseteq Resources
      BY <2>2, StageCount, StageGets DEF LoadConfig, Advance, At, Row
    <3> QED BY <2>2, <3>1 DEF LoadConfig, Advance
  <2>3. CASE Fail
    <3>1. stage \in 1..Len(Stages)
      BY <2>3, StageCount DEF Fail
    <3>2. Stages[stage].leaves \subseteq Resources /\ Stages[stage].name \in Calls
      BY <2>3, <3>1, StageNames DEF Named, Leaves, Fail
    <3> DEFINE left == (held \cup Stages[stage].leaves)
                         \ (Stages[stage].frees \cup {"ngxContext"})
    <3>3. left \subseteq Resources
      BY <3>2
    <3>4. /\ held' = {} /\ joinable' = {}
          /\ lost' = lost \cup Entries(left)
          /\ orphans' = orphans \cup Entries(left \cap Threads)
          /\ failures' = failures \cup Entries({Stages[stage].name})
          /\ phase # "closed"
      BY <2>3 DEF Fail
    <3> HIDE DEF left
    <3> QED BY <2>1, <3>2, <3>3, <3>4 DEF Entries
  <2>4. CASE DisconnectFails \/ CloseAudio
    <3>1. phase # "closed"
      BY <2>4 DEF DisconnectFails, CloseAudio
    <3> QED BY <2>1, <2>4, <3>1 DEF DisconnectFails, CloseAudio, Entries, Calls
  <2>5. CASE \/ Publish \/ ParseArguments \/ Opened \/ Stop \/ ReleaseMedia
             \/ Detach \/ DeleteContext \/ UNCHANGED vars
    BY <2>5 DEF vars, Publish, ParseArguments, Opened, Stop, ReleaseMedia,
       Detach, DeleteContext
  <2> QED BY <1>0, <2>2, <2>3, <2>4, <2>5
<1> QED BY <1>1, <1>2, <1>3, <1>4

\* The session goes on holding what the table says.
LEMMA HoldsStep == ASSUME LInv, [Next]_vars PROVE Holds'
<1> USE DEF input, config
<1>0. TypeOK /\ Holds
  BY DEF LInv
<1>1. ASSUME enable_dual' = enable_dual
      PROVE  /\ Stages' = Stages /\ Whole' = Whole
             /\ Acquired(stage)' = Acquired(stage')
  BY <1>1 DEF Stages, Whole, Acquired, From, AfterLow
<1>2. CASE Publish
  <2>1. Acquired(1)' = {}
    BY AcquiredFirstNext
  <2>2. /\ phase' = "opening" /\ held' = {} /\ joinable' = {} /\ ~isRunning'
        /\ stage' = 1
    BY <1>0, <1>2 DEF Publish, Holds
  <2> QED BY <2>1, <2>2 DEF Holds
<1>3. CASE ParseArguments
  <2>1. Acquired(2)' = {}
    BY AcquiredFirstNext
  <2>2. stage = 1
    BY <1>0, <1>3, StageCount, StageNames DEF TypeOK, ParseArguments, At, Named
  <2>3. /\ phase' = "opening" /\ held' = {} /\ joinable' = {} /\ ~isRunning'
        /\ stage' = 2
    BY <1>0, <1>3, <2>2, AcquiredEnds DEF ParseArguments, At, Holds
  <2> QED BY <2>1, <2>3 DEF Holds
<1>4. CASE LoadConfig \/ Advance
  <2>1. /\ phase = "opening" /\ phase' = "opening" /\ stage \in 1..Len(Stages)
        /\ stage' = stage + 1 /\ enable_dual' = enable_dual
        /\ held' = held \cup Stages[stage].gets
    BY <1>0, <1>4, StageCount DEF LoadConfig, Advance, At, TypeOK
  <2>2. held' = Acquired(stage)'
    BY <1>0, <1>1, <2>1, AcquiredNext DEF Holds
  <2>3. CASE LoadConfig
    <3>1. stage = 3
      BY <2>1, <2>3, StageNames DEF LoadConfig, At, Named
    <3>2. Stages[stage].gets \cap Threads = {}
      BY <3>1, CommonStages DEF Stage, Threads
    <3> QED BY <1>0, <2>1, <2>2, <2>3, <3>1, <3>2 DEF LoadConfig, Holds
  <2>4. CASE Advance
    <3>1. isRunning' <=> isRunning \/ stage = 13
      BY <2>1, <2>4, StageNames DEF Advance, Named
    <3>2. joinable' = held' \cap Threads
      BY <1>0, <2>1, <2>4 DEF Advance, Holds
    <3>3. stage \in Int
      BY <2>1, StageCount
    <3> QED BY <1>0, <2>1, <2>2, <3>1, <3>2, <3>3 DEF Holds
  <2> QED BY <1>4, <2>3, <2>4
<1>5. CASE Opened
  <2>1. /\ phase = "opening" /\ phase' = "open" /\ stage = Len(Stages) + 1
        /\ UNCHANGED <<held, joinable, isRunning, enable_dual>>
    BY <1>0, <1>5, StageCount DEF Opened, TypeOK
  <2>2. held = Whole /\ isRunning
    BY <1>0, <2>1, StageCount, AcquiredEnds DEF Holds
  <2> QED BY <1>0, <1>1, <2>1, <2>2 DEF Holds
<1>6. CASE \/ Fail \/ Stop \/ DisconnectFails \/ ReleaseMedia \/ Detach
           \/ DeleteContext \/ CloseAudio
  <2>1. enable_dual' = enable_dual
    BY <1>6 DEF Fail, Stop, DisconnectFails, ReleaseMedia, Detach, DeleteContext,
       CloseAudio
  <2>2. CASE Fail
    BY <2>2 DEF Fail, Holds
  <2>3. CASE Stop
    BY <1>0, <1>1, <2>1, <2>3 DEF Stop, Holds
  <2>4. NgxSide \subseteq Whole
    BY DEF Whole, NgxSide, Resources
  <2>5. CASE DisconnectFails
    BY <1>0, <2>4, <2>5 DEF DisconnectFails, Holds
  <2>6. CASE ReleaseMedia
    BY <1>0, <1>1, <2>1, <2>6 DEF ReleaseMedia, Holds, Released
  <2>7. CASE Detach
    BY <1>0, <1>1, <2>1, <2>7 DEF Detach, Holds, Whole, Resources, Threads
  <2>8. CASE DeleteContext
    BY <1>0, <2>8 DEF DeleteContext, Holds, Whole, Released, Resources, Members,
       Tracks, Threads, NgxSide
  <2>9. CASE CloseAudio
    BY <1>0, <2>9 DEF CloseAudio, Holds
  <2> QED BY <1>6, <2>2, <2>3, <2>5, <2>6, <2>7, <2>8, <2>9
<1>7. CASE StopWithoutContext \/ UNCHANGED vars
  <2>1. UNCHANGED vars
    BY <1>7 DEF StopWithoutContext
  <2> QED BY <1>0, <1>1, <2>1 DEF vars, Holds
<1> QED BY <1>2, <1>3, <1>4, <1>5, <1>6, <1>7 DEF Next

\* A session that opens, or closes, has no entry in the ledger before it is
\* closed; until then the ledger is left alone but by a call that fails.
LEMMA LedgerStep ==
  ASSUME LInv, [Next]_vars
  PROVE  LedgerOfClosed' /\ LossesByFailure' /\ OrphansOnlyAfterStart'
<1> USE DEF input, config
<1>0. /\ TypeOK /\ Holds /\ LedgerOfClosed /\ LossesByFailure
      /\ OrphansOnlyAfterStart /\ published \in Nat /\ Streams \subseteq Nat
  BY PublishAssumption DEF LInv, TypeOK, Streams
<1>1. ASSUME lost' = lost, orphans' = orphans, failures' = failures
      PROVE  /\ LossesByFailure' /\ OrphansOnlyAfterStart'
             /\ \A n : Clean(n)' <=> Clean(n)
  BY <1>0, <1>1 DEF LossesByFailure, OrphansOnlyAfterStart, Clean, LostBy, FailedIn
<1>n. ASSUME NEW n \in Streams, n > published PROVE n # published
  BY <1>0, <1>n
<1>2. CASE Publish
  <2>1. /\ phase = "closed" /\ phase' = "opening" /\ published' = published + 1
        /\ UNCHANGED <<lost, orphans, failures>> /\ published' \in Streams
    BY <1>0, <1>2, PublishAssumption DEF Publish, Streams
  <2>2. \A n \in Streams : n >= published' => n > published
    BY <1>0, <2>1
  <2> QED BY <1>0, <1>1, <2>1, <2>2 DEF LedgerOfClosed
<1>3. CASE \/ ParseArguments \/ LoadConfig \/ Advance \/ Opened \/ Stop
           \/ ReleaseMedia \/ Detach \/ DeleteContext \/ StopWithoutContext
           \/ UNCHANGED vars
  <2>1. /\ UNCHANGED <<lost, orphans, failures, published>>
        /\ \/ phase' = phase
           \/ phase \notin {"closed", "closeAudio"}
    BY <1>3 DEF vars, ParseArguments, LoadConfig, Advance, Opened, Stop,
       ReleaseMedia, Detach, DeleteContext, StopWithoutContext, At
  <2> QED BY <1>0, <1>1, <2>1 DEF LedgerOfClosed
<1>4. CASE Fail
  <2>1. /\ phase = "opening" /\ stage \in 1..Len(Stages) /\ published \in Streams
        /\ Stages[stage].name \notin Sure /\ Clean(published)
    BY <1>0, <1>4, StageCount DEF Fail, TypeOK, LedgerOfClosed
  <2>2. /\ lost' = lost \cup Entries(Left(stage)) /\ phase' = "closed"
        /\ orphans' = orphans \cup Entries(Left(stage) \cap Threads)
        /\ failures' = failures \cup Entries({Stages[stage].name})
        /\ published' = published
    BY <1>0, <1>4, <2>1 DEF Fail, Holds, Left
  <2>3. ASSUME NEW n \in Streams, n # published
        PROVE  /\ LostBy(n)' = LostBy(n) /\ FailedIn(n)' = FailedIn(n)
               /\ \A t \in Threads : <<n, t>> \in orphans' <=> <<n, t>> \in orphans
    BY <2>2, <2>3 DEF Entries, LostBy, FailedIn
  <2>4. /\ Left(stage) \subseteq Resources /\ Stages[stage].name \in Calls
        /\ Stages[stage].name # "disconnect"
    BY <2>1, LeftBehind, StageNames DEF Named
  <2>5. ASSUME NEW n \in Streams, n = published
        PROVE  /\ LostBy(n)' = Left(stage)
               /\ FailedIn(n)' = {Stages[stage].name}
               /\ \A t \in Threads : <<n, t>> \in orphans' <=> t \in Left(stage)
    BY <2>1, <2>2, <2>4, <2>5 DEF Entries, Clean, LostBy, FailedIn
  <2>6. LedgerOfClosed'
    <3> SUFFICES ASSUME NEW n \in Streams, n > published PROVE Clean(n)'
      BY <2>2 DEF LedgerOfClosed
    <3>1. Clean(n) /\ n # published
      BY <1>0, <1>n DEF LedgerOfClosed
    <3> QED BY <2>3, <3>1 DEF Clean
  <2>7. LossesByFailure'
    <3>1. /\ Stages[stage].name \in BeforeService => Left(stage) = {}
          /\ Stages[stage].name \in BeforeChannel => Left(stage) = {"service"}
          /\ Stages[stage].name \in BeforeThreads => Left(stage) \cap Threads = {}
      BY <2>1, StageNames, LeftBehind DEF Named
    <3>2. ASSUME NEW n \in Streams, n = published
          PROVE  /\ (FailedIn(n)' \subseteq BeforeService => LostBy(n)' = {})
                 /\ (FailedIn(n)' \cap BeforeChannel # {} => LostBy(n)' = {"service"})
                 /\ (FailedIn(n)' \cap BeforeThreads # {}
                       => LostBy(n)' \cap Threads = {})
      BY <2>5, <3>1, <3>2
    <3> QED BY <1>0, <2>3, <3>2 DEF LossesByFailure
  <2>8. OrphansOnlyAfterStart'
    <3>1. Stages[stage].name \in WithThreads <=> stage >= 14
      <4>1. stage \in Nat /\ stage >= 1
        BY <2>1, StageCount
      <4>2. Named(stage)
        BY <2>1, StageNames
      <4>3. Stages[stage].name \in BeforeService \cup BeforeChannel
                                     \cup BeforeThreads \cup WithThreads
        BY <2>4 DEF Calls
      <4> QED BY <2>1, <4>1, <4>2, <4>3 DEF Named, Sure
    <3>2. stage >= 14 <=> \E t \in Threads : t \in Left(stage)
      <4>1. stage \in Nat /\ "highThread" \in Threads
        BY <2>1, StageCount DEF Threads
      <4> QED BY <2>1, <4>1, LeftBehind
    <3>3. ASSUME NEW n \in Streams, n = published
          PROVE  (\E t \in Threads : <<n, t>> \in orphans')
                   <=> FailedIn(n)' \cap WithThreads # {}
      BY <2>5, <3>1, <3>2, <3>3
    <3> QED BY <1>0, <2>3, <3>3 DEF OrphansOnlyAfterStart
  <2> QED BY <2>6, <2>7, <2>8
<1>5. CASE DisconnectFails
  <2>1. /\ phase = "disconnecting" /\ phase' = "closeAudio" /\ published \in Streams
        /\ Clean(published) /\ UNCHANGED <<orphans, published>>
        /\ lost' = lost \cup Entries(held \ NgxSide)
        /\ failures' = failures \cup Entries({"disconnect"})
    BY <1>0, <1>5 DEF DisconnectFails, LedgerOfClosed
  <2>2. ASSUME NEW n \in Streams, n # published
        PROVE  LostBy(n)' = LostBy(n) /\ FailedIn(n)' = FailedIn(n)
    BY <2>1, <2>2 DEF Entries, LostBy, FailedIn
  <2>3. ASSUME NEW n \in Streams, n = published
        PROVE  FailedIn(n)' = {"disconnect"}
    BY <2>1, <2>3 DEF Entries, Clean, Calls, FailedIn
  <2>4. "disconnect" \notin BeforeService \cup BeforeChannel \cup BeforeThreads
                             \cup WithThreads
    BY DEF BeforeService, BeforeChannel, BeforeThreads, Tracks, WithThreads
  <2>5. LedgerOfClosed'
    <3> SUFFICES ASSUME NEW n \in Streams, n > published PROVE Clean(n)'
      BY <2>1 DEF LedgerOfClosed
    <3>1. Clean(n) /\ n # published
      BY <1>0, <1>n DEF LedgerOfClosed
    <3> QED BY <2>1, <2>2, <3>1 DEF Clean
  <2>6. LossesByFailure'
    BY <1>0, <2>2, <2>3, <2>4 DEF LossesByFailure
  <2>7. OrphansOnlyAfterStart'
    BY <1>0, <2>1, <2>2, <2>3, <2>4 DEF OrphansOnlyAfterStart, Clean
  <2> QED BY <2>5, <2>6, <2>7
<1>6. CASE CloseAudio
  <2>1. /\ phase = "closeAudio" /\ phase' = "closed" /\ held = NgxSide
        /\ lost' = lost \cup Entries(held \ NgxSide)
        /\ UNCHANGED <<orphans, failures, published>>
    BY <1>0, <1>6 DEF CloseAudio, Holds
  <2>2. lost' = lost
    BY <2>1 DEF Entries
  <2> QED BY <1>0, <1>1, <2>1, <2>2 DEF LedgerOfClosed
<1> QED BY <1>2, <1>3, <1>4, <1>5, <1>6 DEF Next

\* The invariant holds in every state of every behaviour.
LEMMA LifecycleInvariance == Spec => []LInv
<1>1. LInv /\ [Next]_vars => LInv'
  BY LifecycleType, HoldsStep, LedgerStep DEF LInv
<1> QED BY <1>1, LifecycleInit, PTL DEF Spec

-----------------------------------------------------------------------------
\* Every variable has the type its declaration gives it.
THEOREM LifecycleTypeCorrect == Spec => []TypeOK
BY LifecycleInvariance, PTL DEF LInv

\* Whoever has s->agora_ctx has a whole session, threads and all: agora_init
\* hands none out that stopped half-way.
THEOREM HandlesAreWhole == Spec => []HandleIsWhole
<1>1. LInv => HandleIsWhole
  BY DEF LInv, Holds, HandleIsWhole, Whole
<1> QED BY <1>1, LifecycleInvariance, PTL

\* However many streams come and go, and wherever their opening fails, the
\* ledger shows which calls lose what,
\* and threads are stranded by the codecs of the low stream and by the audio
\* only.
THEOREM LedgerFollowsFailures == Spec => []LedgerByFailure
BY LifecycleInvariance, PTL DEF LInv, LedgerByFailure

\* No context is deleted while one of its std::threads is joinable: agora_init
\* deletes it before it starts the threads only, and agora_disconnect after it
\* has detached them.
THEOREM NoTerminate == Spec => NoJoinableThreadDestroyed
<1>1. LInv /\ [Next]_vars => (ContextDeleted => joinable = {})
  <2> SUFFICES ASSUME LInv, [Next]_vars, ContextDeleted PROVE joinable = {}
    OBVIOUS
  <2> USE DEF ContextDeleted
  <2>0. TypeOK /\ Holds
    BY DEF LInv
  <2>1. CASE Fail
    <3>1. stage \in 1..Len(Stages) /\ phase = "opening"
      BY <2>0, <2>1, StageCount DEF Fail, TypeOK
    <3>2. lost' = lost \cup Entries(Left(stage))
      BY <2>0, <2>1, <3>1 DEF Fail, Holds, Left
    <3>3. "context" \notin Left(stage)
      BY <3>2 DEF Entries
    <3>4. stage <= 13
      BY <3>1, <3>3, LeftBehind, StageCount
    <3> QED BY <2>0, <3>1, <3>4, LeftBehind DEF Holds
  <2>2. CASE DeleteContext
    BY <2>0, <2>2 DEF DeleteContext, Holds
  <2>3. CASE DisconnectFails
    BY <2>3 DEF DisconnectFails, Entries, NgxSide
  <2>4. CASE CloseAudio
    BY <2>0, <2>4 DEF CloseAudio, Holds, NgxSide
  <2>5. ~(ReleaseMedia \/ Detach)
    BY DEF ReleaseMedia, Detach, Tracks, Threads
  <2>6. ~( \/ Publish \/ ParseArguments \/ LoadConfig \/ Advance \/ Opened
           \/ StopWithoutContext \/ Stop \/ UNCHANGED vars)
    BY DEF vars, Publish, ParseArguments, LoadConfig, Advance, Opened,
       StopWithoutContext, Stop
  <2> QED BY <2>1, <2>2, <2>3, <2>4, <2>5, <2>6 DEF Next
<1> QED BY <1>1, LifecycleInvariance, PTL DEF Spec, NoJoinableThreadDestroyed
-----------------------------------------------------------------------------
(* What the proofs about folds over sequences need: induction over the     *)
(* places of a sequence, from the natural numbers being well-founded.      *)

\* The natural numbers are well-founded.
LEMMA BelowWellFounded ==
  IsWellFoundedOn({pair \in Nat \X Nat : pair[1] < pair[2]}, Nat)
BY NatLessThanWellFounded DEF OpToRel

\* A set of natural numbers has a least element,
LEMMA LeastElement ==
  ASSUME NEW T, T \subseteq Nat, T # {}
  PROVE  Min(T) \in T /\ \A other \in T : Min(T) <= other
<1> DEFINE R == {pair \in Nat \X Nat : pair[1] < pair[2]}
<1>1. PICK x \in T : \A y \in T : ~(<<y, x>> \in R)
  <2>1. IsWellFoundedOn(R, Nat)
    BY BelowWellFounded
  <2> HIDE DEF R
  <2> QED BY <2>1, WFMin
<1>2. ASSUME NEW y \in T PROVE x <= y
  <2>1. x \in Nat /\ y \in Nat /\ ~(<<y, x>> \in R)
    BY <1>1
  <2>2. ~(y < x)
    BY <2>1
  <2> QED BY <2>1, <2>2
<1> QED BY <1>2 DEF Min
\* so that what holds of 0, and of a number's successor with it, holds up to N.
LEMMA UpTo ==
  ASSUME NEW N \in Nat, NEW T, 0 \in T, \A n \in 0..(N - 1) : n \in T => n + 1 \in T
  PROVE  0..N \subseteq T
<1> DEFINE C == 0..N \ T
<1> SUFFICES ASSUME C # {} PROVE FALSE
  OBVIOUS
<1>1. C \subseteq Nat
  OBVIOUS
<1>2. Min(C) \in C /\ \A other \in C : Min(C) <= other
  <2> HIDE DEF C
  <2> QED BY <1>1, LeastElement
<1> DEFINE m == Min(C)
<1>3. m \in 1..N /\ m \notin T
  BY <1>2
<1>4. m - 1 \in T
  <2>1. m - 1 \notin C
    BY <1>2, <1>3
  <2> HIDE DEF m
  <2> QED BY <1>3, <2>1
<1> HIDE DEF m
<1>5. m - 1 \in 0..(N - 1) /\ (m - 1) + 1 = m
  BY <1>3
<1> QED BY <1>3, <1>4, <1>5

\* The greatest of the first n numbers is n.
LEMMA MaxUpTo ==
  ASSUME NEW n \in Nat \ {0}
  PROVE  Max(1..n) = n /\ 1..n \ {n} = 1..(n - 1) /\ 1..n # {}
<1>1. \A x \in 1..n : (\A y \in 1..n : x >= y) <=> x = n
  OBVIOUS
<1>2. n \in 1..n
  OBVIOUS
<1>3. Max(1..n) = n
  BY <1>1, <1>2 DEF Max
<1> QED BY <1>2, <1>3

\* A set of places has a greatest.
LEMMA GreatestOfSome ==
  ASSUME NEW N \in Nat, NEW s \in SUBSET (1..N), s # {}
  PROVE  Max(s) \in s /\ \A other \in s : other <= Max(s)
<1> DEFINE T == {N - k : k \in s}
<1>1. T \subseteq Nat /\ T # {}
  <2>1. \A k \in s : N - k \in Nat
    OBVIOUS
  <2>2. T # {}
    OBVIOUS
  <2> QED BY <2>1, <2>2
<1>2. Min(T) \in T /\ \A other \in T : Min(T) <= other
  <2> HIDE DEF T
  <2> QED BY <1>1, LeastElement
<1>3. PICK k \in s : Min(T) = N - k
  BY <1>2
<1>4. ASSUME NEW other \in s PROVE k >= other
  <2>1. N - k <= N - other
    BY <1>2, <1>3
  <2> QED BY <2>1
<1>5. \E x \in s : \A y \in s : x >= y
  BY <1>4
<1>6. Max(s) \in s /\ \A y \in s : Max(s) >= y
  BY <1>5 DEF Max
<1> QED BY <1>6

\* A fold over the places of a sequence is well defined: there is the function
\* on the sets of places that MapThenFoldSet speaks of.
FoldRule(N, base, F, iter) ==
  iter = [s \in SUBSET (1..N) |-> IF s = {} THEN base
                                  ELSE F[<<Max(s), iter[s \ {Max(s)}]>>]]
\* It is built up one place after the other.
LEMMA FoldExists ==
  ASSUME NEW N \in Nat, NEW V, NEW base \in V, NEW F \in [(1..N) \X V -> V]
  PROVE  \E iter \in [SUBSET (1..N) -> V] : FoldRule(N, base, F, iter)
<1> DEFINE T == {n \in 0..N : \E iter \in [SUBSET (1..n) -> V] : FoldRule(n, base, F, iter)}
<1>1. 0 \in T
  <2> DEFINE iter == [s \in SUBSET (1..0) |-> base]
  <2>1. iter \in [SUBSET (1..0) -> V] /\ FoldRule(0, base, F, iter)
    BY DEF FoldRule
  <2> QED BY <2>1
<1>2. ASSUME NEW n \in 0..(N - 1), n \in T PROVE n + 1 \in T
  <2>1. PICK g \in [SUBSET (1..n) -> V] : FoldRule(n, base, F, g)
    BY <1>2
  <2> DEFINE m == n + 1
             iter == [s \in SUBSET (1..m) |->
                        IF m \in s THEN F[<<m, g[s \ {m}]>>] ELSE g[s]]
  <2>2. m \in 1..N /\ n \in Nat
    OBVIOUS
  <2>3. \A s \in SUBSET (1..m) : s \ {m} \in SUBSET (1..n)
    BY <2>2
  <2>4. iter \in [SUBSET (1..m) -> V]
    BY <2>2, <2>3
  <2>5. ASSUME NEW s \in SUBSET (1..m), m \in s
        PROVE  Max(s) = m
    <3>1. \A y \in s : m >= y
      BY <2>2
    <3>2. \A x \in s : x >= m => x = m
      BY <2>2
    <3> QED BY <2>5, <3>1, <3>2 DEF Max
  <2>6. ASSUME NEW s \in SUBSET (1..m)
        PROVE  iter[s] = IF s = {} THEN base ELSE F[<<Max(s), iter[s \ {Max(s)}]>>]
    <3>1. CASE m \in s
      <4>1. iter[s] = F[<<m, g[s \ {m}]>>] /\ iter[s \ {m}] = g[s \ {m}]
        BY <2>3, <3>1
      <4> QED BY <2>5, <3>1, <4>1
    <3>2. CASE m \notin s /\ s # {}
      <4>1. s \in SUBSET (1..n)
        BY <2>3, <3>2
      <4>2. g[s] = F[<<Max(s), g[s \ {Max(s)}]>>]
        BY <2>1, <3>2, <4>1 DEF FoldRule
      <4>3. iter[s] = g[s] /\ iter[s \ {Max(s)}] = g[s \ {Max(s)}]
        BY <3>2
      <4> QED BY <3>2, <4>2, <4>3
    <3>3. CASE s = {}
      BY <2>1, <3>3 DEF FoldRule
    <3> QED BY <3>1, <3>2, <3>3
  <2>7. FoldRule(m, base, F, iter)
    BY <2>6 DEF FoldRule
  <2> HIDE DEF iter
  <2> QED BY <2>2, <2>4, <2>7
<1> HIDE DEF T
<1>3. 0..N \subseteq T
  BY <1>1, <1>2, UpTo
<1> QED BY <1>3 DEF T

-----------------------------------------------------------------------------
(* The configuration file.                                                 *)

\* The value of a setting after each of the lines read.
Closed(key, lines, N, V) ==
  \A v \in V, i \in 1..N : ApplyLine(key, v, Readable(lines)[i]) \in V
\* It starts with the default and ends with what loadConfig leaves.
After(key, lines, N, after) ==
  /\ after[0] = Default[key] /\ after[N] = Setting(key, lines)
  /\ \A n \in 1..N :
       after[n] = ApplyLine(key, after[n - 1], Readable(lines)[n])
\* So the values are a sequence.
LEMMA SettingFold ==
  ASSUME NEW key, NEW lines, NEW N \in Nat, DOMAIN Readable(lines) = 1..N,
         NEW V, Default[key] \in V, Closed(key, lines, N, V)
  PROVE  \E after \in [0..N -> V] : After(key, lines, N, after)
<1> USE DEF Closed, After
<1> DEFINE F == [p \in (1..N) \X V |-> ApplyLine(key, p[2], Readable(lines)[p[1]])]
           Rule(it) == it = [s \in SUBSET (1..N) |->
              IF s = {} THEN Default[key]
              ELSE ApplyLine(key, it[s \ {Max(s)}], Readable(lines)[Max(s)])]
           iter == CHOOSE it : Rule(it)
<1>1. Setting(key, lines) = iter[1..N]
  BY DEF Setting, FoldLeft, MapThenFoldSet
<1>2. PICK g \in [SUBSET (1..N) -> V] : FoldRule(N, Default[key], F, g)
  <2>1. F \in [(1..N) \X V -> V]
    OBVIOUS
  <2> HIDE DEF F
  <2> QED BY <2>1, FoldExists
<1>3. Rule(g)
  <2>1. ASSUME NEW s \in SUBSET (1..N), s # {}
        PROVE  F[<<Max(s), g[s \ {Max(s)}]>>]
                 = ApplyLine(key, g[s \ {Max(s)}], Readable(lines)[Max(s)])
    <3>1. Max(s) \in 1..N /\ g[s \ {Max(s)}] \in V
      BY <2>1, GreatestOfSome
    <3> QED BY <3>1
  <2> HIDE DEF F
  <2> QED BY <1>2, <2>1 DEF FoldRule
<1>4. Rule(iter)
  <2> HIDE DEF Rule
  <2> QED BY <1>3
<1>5. iter[{}] = Default[key] /\ iter[1..0] = Default[key]
  <2> HIDE DEF iter
  <2> QED BY <1>4
<1>6. ASSUME NEW n \in 1..N
      PROVE  iter[1..n] = ApplyLine(key, iter[1..(n - 1)], Readable(lines)[n])
  <2>1. 1..n \in SUBSET (1..N) /\ n \in Nat \ {0}
    OBVIOUS
  <2>2. Max(1..n) = n /\ 1..n \ {n} = 1..(n - 1) /\ 1..n # {}
    BY <2>1, MaxUpTo
  <2> HIDE DEF iter
  <2>3. iter[1..n] = ApplyLine(key, iter[1..n \ {Max(1..n)}],
                               Readable(lines)[Max(1..n)])
    BY <1>4, <2>1, <2>2
  <2> QED BY <2>2, <2>3
<1> DEFINE after == [n \in 0..N |-> iter[1..n]]
<1>7. after[0] = Default[key] /\ after[N] = Setting(key, lines)
  BY <1>1, <1>5
<1>8. ASSUME NEW n \in 1..N
      PROVE  after[n] = ApplyLine(key, after[n - 1], Readable(lines)[n])
  <2>1. after[n] = iter[1..n] /\ after[n - 1] = iter[1..(n - 1)]
    OBVIOUS
  <2> QED BY <1>6, <2>1
<1>9. after \in [0..N -> V]
  <2> DEFINE T == {n \in 0..N : iter[1..n] \in V}
  <2>1. 0 \in T
    BY <1>5
  <2>2. ASSUME NEW n \in 0..(N - 1), n \in T PROVE n + 1 \in T
    <3>1. n + 1 \in 1..N /\ (n + 1) - 1 = n
      OBVIOUS
    <3>2. iter[1..(n + 1)] = ApplyLine(key, iter[1..n], Readable(lines)[n + 1])
      BY <1>6, <3>1
    <3> QED BY <2>2, <3>1, <3>2
  <2>3. 0..N \subseteq T
    <3> HIDE DEF T
    <3> QED BY <2>1, <2>2, UpTo
  <2> QED BY <2>3
<1> HIDE DEF after
<1> QED BY <1>7, <1>8, <1>9

\* The lines read are those before the first malformed one.
LEMMA ReadableLines ==
  ASSUME NEW L, NEW lines \in Seq(L)
  PROVE  \E N \in 0..Len(lines) :
           /\ DOMAIN Readable(lines) = 1..N
           /\ \A i \in 1..N : Readable(lines)[i] = lines[i]
           /\ {i \in DOMAIN lines : \A j \in 1..i : ~Malformed(lines[j])} = 1..N
           /\ Readable(lines) = lines <=> N = Len(lines)
<1> DEFINE I == {i \in 1..Len(lines) : Malformed(lines[i])}
           at == IF I # {} THEN Min(I) ELSE 0
           N == IF at = 0 THEN Len(lines) ELSE at - 1
<1>1. Readable(lines) = IF at = 0 THEN lines ELSE SubSeq(lines, 1, at - 1)
  BY DEF Readable, SelectInSeq
<1>2. at \in 0..Len(lines) /\ (at # 0 => at \in I) /\ (at = 0 => I = {})
      /\ \A other \in I : at <= other
  <2>1. I # {} => Min(I) \in I /\ \A other \in I : Min(I) <= other
    <3>1. I \subseteq Nat
      OBVIOUS
    <3> HIDE DEF I
    <3> QED BY <3>1, LeastElement
  <2>2. \A i \in I : i \in 1..Len(lines)
    OBVIOUS
  <2> HIDE DEF I
  <2> QED BY <2>1, <2>2
<1> HIDE DEF at
<1>3. N \in 0..Len(lines)
  BY <1>2
<1>4. DOMAIN Readable(lines) = 1..N /\ Len(Readable(lines)) = N
      /\ \A i \in 1..N : Readable(lines)[i] = lines[i]
  BY <1>1, <1>2
<1>5. {i \in DOMAIN lines : \A j \in 1..i : ~Malformed(lines[j])} = 1..N
  <2>1. ASSUME NEW i \in 1..Len(lines)
        PROVE  (\A j \in 1..i : ~Malformed(lines[j])) <=> i \in 1..N
    <3>1. CASE at = 0
      BY <1>2, <3>1
    <3>2. CASE at # 0
      <4>1. \A j \in 1..Len(lines) : Malformed(lines[j]) => at <= j
        BY <1>2
      <4>2. Malformed(lines[at])
        BY <1>2, <3>2
      <4>3. \A j \in 1..i : j \in 1..Len(lines)
        OBVIOUS
      <4> QED BY <1>2, <3>2, <4>1, <4>2, <4>3
    <3> QED BY <3>1, <3>2
  <2> HIDE DEF N
  <2> QED BY <1>3, <2>1
<1>6. Readable(lines) = lines <=> N = Len(lines)
  <2>1. CASE at = 0
    BY <1>1, <2>1
  <2>2. CASE at # 0
    <3>1. N # Len(lines)
      BY <1>2, <2>2
    <3> QED BY <1>4, <3>1
  <2> QED BY <2>1, <2>2
<1> HIDE DEF N
<1> QED BY <1>3, <1>4, <1>5, <1>6

\* A number is what the last line that sets it says, a flag is up if a line
\* raises it.
LEMMA SettingOfLines ==
  ASSUME NEW key \in Numeric \cup Flags, NEW lines, NEW N \in Nat,
         DOMAIN Readable(lines) = 1..N,
         \A i \in 1..N : Readable(lines)[i] = lines[i]
  PROVE  /\ (\A i \in 1..N : ~Sets(lines[i], key)) => Setting(key, lines) = Default[key]
         /\ \A i \in 1..N :
              /\ key \in Numeric /\ Sets(lines[i], key)
              /\ \A j \in (i + 1)..N : ~Sets(lines[j], key)
              => Setting(key, lines) = Stored(key, Atoi(ValueOf(lines[i])))
         /\ key \in Flags =>
              (Setting(key, lines) <=>
                \E i \in 1..N : Sets(lines[i], key) /\ ValueOf(lines[i]) = <<"yes">>)
<1> DEFINE S(i) == Sets(lines[i], key)
           Value(i) == Stored(key, Atoi(ValueOf(lines[i])))
           Yes(i) == ValueOf(lines[i]) = <<"yes">>
<1>0. Numeric \cap Flags = {}
  BY DEF Numeric, Flags
<1>1. CASE key \in Numeric
  <2> DEFINE V == {Default[key]} \cup {Value(i) : i \in 1..N}
  <2>1. \A v : \A i \in 1..N : ApplyLine(key, v, Readable(lines)[i])
                             = IF S(i) THEN Value(i) ELSE v
    BY <1>0, <1>1 DEF ApplyLine
  <2>2. PICK after \in [0..N -> V] :
          /\ after[0] = Default[key] /\ after[N] = Setting(key, lines)
          /\ \A n \in 1..N : after[n] = IF S(n) THEN Value(n) ELSE after[n - 1]
    <3>1. Closed(key, lines, N, V)
      BY <2>1 DEF Closed
    <3>2. Default[key] \in V
      OBVIOUS
    <3> HIDE DEF V, S, Value
    <3>3. PICK f \in [0..N -> V] : After(key, lines, N, f)
      BY <3>1, <3>2, SettingFold
    <3>4. \A n \in 1..N : f[n] = IF S(n) THEN Value(n) ELSE f[n - 1]
      BY <2>1, <3>3 DEF After
    <3> QED BY <3>3, <3>4 DEF After
  <2> HIDE DEF V, S, Value
  <2> DEFINE P(n) ==
        /\ (\A i \in 1..n : ~S(i)) => after[n] = Default[key]
        /\ \A i \in 1..n : S(i) /\ (\A j \in (i + 1)..n : ~S(j)) => after[n] = Value(i)
      T == {n \in 0..N : P(n)}
  <2>3. 0 \in T
    BY <2>2
  <2>4. ASSUME NEW n \in 0..(N - 1), n \in T PROVE n + 1 \in T
    <3>1. n + 1 \in 1..N /\ (n + 1) - 1 = n
      OBVIOUS
    <3>2. after[n + 1] = IF S(n + 1) THEN Value(n + 1) ELSE after[n]
      BY <2>2, <3>1
    <3>3. P(n)
      BY <2>4
    <3>4. P(n + 1)
      <4>1. CASE S(n + 1)
        <5>1. \A i \in 1..n : n + 1 \in (i + 1)..(n + 1)
          OBVIOUS
        <5> QED BY <3>2, <4>1, <5>1
      <4>2. CASE ~S(n + 1)
        <5>1. \A i \in 1..(n + 1) : S(i) => i \in 1..n
          BY <4>2
        <5>2. \A i \in 1..n : (\A j \in (i + 1)..n : j \in (i + 1)..(n + 1))
          OBVIOUS
        <5>3. \A i \in 1..n : i \in 1..(n + 1)
          OBVIOUS
        <5>4. after[n + 1] = after[n]
          BY <3>2, <4>2
        <5>5. (\A i \in 1..(n + 1) : ~S(i)) => after[n + 1] = Default[key]
          BY <3>3, <5>3, <5>4
        <5>6. ASSUME NEW i \in 1..(n + 1), S(i), \A j \in (i + 1)..(n + 1) : ~S(j)
              PROVE  after[n + 1] = Value(i)
          BY <3>3, <5>1, <5>2, <5>4, <5>6
        <5> QED BY <5>5, <5>6
      <4> QED BY <4>1, <4>2
    <3> QED BY <3>1, <3>4
  <2>5. N \in T
    <3>1. 0..N \subseteq T
      <4> HIDE DEF T
      <4> QED BY <2>3, <2>4, UpTo
    <3>2. N \in 0..N
      OBVIOUS
    <3> QED BY <3>1, <3>2
  <2> QED BY <1>0, <1>1, <2>2, <2>5 DEF S, Value
<1>2. CASE key \in Flags
  <2>1. \A v : \A i \in 1..N : ApplyLine(key, v, Readable(lines)[i])
                             = IF S(i) THEN v \/ Yes(i) ELSE v
    BY <1>2 DEF ApplyLine
  <2>2. Default[key] = FALSE
    BY <1>2 DEF Default, Flags, Numeric
  <2>3. PICK after \in [0..N -> BOOLEAN] :
          /\ after[0] = FALSE /\ after[N] = Setting(key, lines)
          /\ \A n \in 1..N : after[n] = IF S(n) THEN after[n - 1] \/ Yes(n)
                                        ELSE after[n - 1]
    <3>1. Closed(key, lines, N, BOOLEAN)
      BY <2>1 DEF Closed
    <3> HIDE DEF S, Yes
    <3>2. PICK f \in [0..N -> BOOLEAN] : After(key, lines, N, f)
      BY <2>2, <3>1, SettingFold
    <3>3. \A n \in 1..N : f[n] = IF S(n) THEN f[n - 1] \/ Yes(n) ELSE f[n - 1]
      BY <2>1, <3>2 DEF After
    <3> QED BY <2>2, <3>2, <3>3 DEF After
  <2> HIDE DEF S, Yes
  <2> DEFINE T == {n \in 0..N : after[n] <=> \E i \in 1..n : S(i) /\ Yes(i)}
  <2>4. 0 \in T
    <3>1. 1..0 = {} /\ 0 \in 0..N
      OBVIOUS
    <3> QED BY <2>3, <3>1
  <2>5. ASSUME NEW n \in 0..(N - 1), n \in T PROVE n + 1 \in T
    <3>1. n + 1 \in 1..N /\ (n + 1) - 1 = n
      OBVIOUS
    <3>2. after[n + 1] = IF S(n + 1) THEN after[n] \/ Yes(n + 1) ELSE after[n]
      BY <2>3, <3>1
    <3>3. after[n] <=> (\E i \in 1..n : S(i) /\ Yes(i))
      BY <2>5
    <3>4. (\E i \in 1..(n + 1) : S(i) /\ Yes(i))
            <=> (\E i \in 1..n : S(i) /\ Yes(i)) \/ (S(n + 1) /\ Yes(n + 1))
      <4>1. 1..(n + 1) = 1..n \cup {n + 1}
        OBVIOUS
      <4> QED BY <4>1, Zenon
    <3>6. after[n + 1] <=> (\E i \in 1..(n + 1) : S(i) /\ Yes(i))
      BY <3>2, <3>3, <3>4, Zenon
    <3> QED BY <3>1, <3>6
  <2>6. N \in T
    <3>1. 0..N \subseteq T
      <4> HIDE DEF T
      <4> QED BY <2>4, <2>5, UpTo
    <3>2. N \in 0..N
      OBVIOUS
    <3> QED BY <3>1, <3>2
  <2>7. (\A i \in 1..N : ~S(i)) => Setting(key, lines) = FALSE
    BY <2>3, <2>6
  <2>8. Setting(key, lines) <=> \E i \in 1..N : S(i) /\ Yes(i)
    BY <2>3, <2>6
  <2> QED BY <1>0, <1>2, <2>2, <2>7, <2>8 DEF S, Yes
<1> QED BY <1>1, <1>2

\* What ReadConfig makes of a file is what its lines say,
LEMMA ConfigAsWritten ==
  file \in Seq(Seq(STRING)) /\ callConfig = ReadConfig(file) => SettingsAsWritten
<1> SUFFICES ASSUME file \in Seq(Seq(STRING)), callConfig = ReadConfig(file)
             PROVE  SettingsAsWritten
  OBVIOUS
<1> DEFINE read == {i \in DOMAIN file : \A j \in 1..i : ~Malformed(file[j])}
           Lines(key) == {i \in read : Sets(file[i], key)}
           Latest(key) == CHOOSE i \in Lines(key) : \A j \in Lines(key) : j <= i
           Written(key) == IF Lines(key) = {} THEN Default[key]
                           ELSE Stored(key, Atoi(ValueOf(file[Latest(key)])))
           settings == [key \in Numeric \cup Flags |-> Setting(key, file)]
           first == "jb-initial-size-ms"
<1>1. PICK N \in 0..Len(file) :
        /\ DOMAIN Readable(file) = 1..N
        /\ \A i \in 1..N : Readable(file)[i] = file[i]
        /\ read = 1..N
        /\ Readable(file) = file <=> N = Len(file)
  BY ReadableLines
<1>2. Readable(file) = file <=> read = DOMAIN file
  <2>1. 1..N = 1..Len(file) <=> N = Len(file)
    <3>1. N # Len(file) => Len(file) \in 1..Len(file) /\ Len(file) \notin 1..N
      BY <1>1
    <3> QED BY <3>1
  <2> HIDE DEF read
  <2> QED BY <1>1, <2>1
<1> HIDE DEF read
<1>3. ASSUME NEW key \in Numeric PROVE Setting(key, file) = Written(key)
  <2>1. CASE Lines(key) = {}
    <3>1. \A i \in 1..N : ~Sets(file[i], key)
      BY <1>1, <2>1
    <3>2. Setting(key, file) = Default[key]
      BY <1>1, <3>1, SettingOfLines
    <3> QED BY <2>1, <3>2
  <2>2. CASE Lines(key) # {}
    <3>1. Lines(key) \in SUBSET (1..N) /\ N \in Nat
      BY <1>1
    <3>2. Max(Lines(key)) \in Lines(key)
          /\ \A j \in Lines(key) : j <= Max(Lines(key))
      <4> HIDE DEF Lines
      <4> QED BY <2>2, <3>1, GreatestOfSome
    <3>3. Latest(key) \in Lines(key) /\ \A j \in Lines(key) : j <= Latest(key)
      <4> HIDE DEF Lines
      <4> QED BY <3>2
    <3> DEFINE last == Latest(key)
    <3>4. last \in 1..N /\ Sets(file[last], key)
      <4>1. last \in Lines(key)
        BY <3>3
      <4> HIDE DEF last
      <4> QED BY <1>1, <4>1
    <3>5. \A j \in (last + 1)..N : ~Sets(file[j], key)
      <4> HIDE DEF last
      <4>1. ASSUME NEW j \in (last + 1)..N, Sets(file[j], key) PROVE FALSE
        <5>1. j \in Lines(key)
          BY <1>1, <3>4, <4>1
        <5>2. j <= last
          BY <3>3, <5>1 DEF last
        <5> QED BY <3>4, <5>2
      <4> QED BY <4>1
    <3> HIDE DEF last
    <3>6. Setting(key, file) = Stored(key, Atoi(ValueOf(file[last])))
      <4>1. \A i \in 1..N :
              /\ key \in Numeric /\ Sets(file[i], key)
              /\ \A j \in (i + 1)..N : ~Sets(file[j], key)
              => Setting(key, file) = Stored(key, Atoi(ValueOf(file[i])))
        <5>1. key \in Numeric \cup Flags /\ N \in Nat
          BY <1>1
        <5> QED BY <1>1, <5>1, SettingOfLines
      <4> QED BY <3>4, <3>5, <4>1
    <3> QED BY <2>2, <3>6 DEF last
  <2> QED BY <2>1, <2>2
<1>4. ASSUME NEW key \in Flags
      PROVE  Setting(key, file) <=> \E i \in Lines(key) : ValueOf(file[i]) = <<"yes">>
  BY <1>1, SettingOfLines
<1> HIDE DEF Written, Lines
<1>5. first \in Numeric /\ first \notin Flags
  BY DEF Numeric, Flags
<1>6. DOMAIN settings = Numeric \cup Flags
      /\ \A key \in Numeric \cup Flags : settings[key] = Setting(key, file)
  OBVIOUS
<1>7. callConfig = IF read = DOMAIN file THEN Validate(settings) ELSE settings
  BY <1>2 DEF ReadConfig
<1> HIDE DEF settings
<1>8. \A key \in (Numeric \cup Flags) \ {first} : callConfig[key] = Setting(key, file)
  BY <1>5, <1>6, <1>7 DEF Validate
<1>9. callConfig[first] = IF read = DOMAIN file /\ Setting(first, file) > 8000
                          THEN 120 ELSE Setting(first, file)
  BY <1>5, <1>6, <1>7 DEF Validate, InitialLargest, InitialDefault
<1>10. callConfig[first] = IF read = DOMAIN file /\ Written(first) > 8000
                           THEN 120 ELSE Written(first)
  BY <1>3, <1>5, <1>9
<1>11. \A key \in Numeric \ {first} : callConfig[key] = Written(key)
  BY <1>3, <1>8
<1>12. \A key \in Flags :
         callConfig[key] <=> \E i \in Lines(key) : ValueOf(file[i]) = <<"yes">>
  BY <1>4, <1>5, <1>8
<1>13. SettingsAsWritten <=>
         /\ \A key \in Numeric \ {first} : callConfig[key] = Written(key)
         /\ callConfig[first] = IF read = DOMAIN file /\ Written(first) > 8000
                                THEN 120 ELSE Written(first)
         /\ \A key \in Flags :
              callConfig[key] <=> \E i \in Lines(key) : ValueOf(file[i]) = <<"yes">>
  BY Zenon DEF SettingsAsWritten, Written, Lines, read
<1> QED BY <1>10, <1>11, <1>12, <1>13
\* also after a step.
LEMMA ConfigAsWrittenNext ==
  (file \in Seq(Seq(STRING)) /\ callConfig = ReadConfig(file) => SettingsAsWritten)'
BY ConfigAsWritten, PTL

\* The session has the settings of the file that it was opened with: of each
\* number the last line that sets it, of each flag any line that raises it,
\* none after the first malformed line, and of an initial size that is too
\* large the default, but only if the file was read to its end.
THEOREM SettingsAreAsWritten == Spec => []SettingsAsWritten
<1>1. Init => SettingsAsWritten
  <2> SUFFICES ASSUME Init PROVE SettingsAsWritten
    OBVIOUS
  <2>1. file = <<>> /\ callConfig = Default /\ DOMAIN file = {}
    BY DEF Init
  <2>2. callConfig["jb-initial-size-ms"] = 120
    BY <2>1 DEF Default, Numeric, InitialDefault
  <2>3. \A key \in Flags : callConfig[key] = FALSE
    BY <2>1 DEF Default, Flags, Numeric
  <2> HIDE DEF Default
  <2> QED BY <2>1, <2>2, <2>3 DEF SettingsAsWritten
<1>2. ASSUME SettingsAsWritten, [Next]_vars PROVE SettingsAsWritten'
  <2>1. CASE LoadConfig
    <3>1. file' \in Seq(Seq(STRING)) /\ callConfig' = ReadConfig(file')
      BY <2>1, InputAssumption DEF LoadConfig
    <3> QED BY <3>1, ConfigAsWrittenNext
  <2>2. CASE UNCHANGED config
    BY <1>2, <2>2 DEF SettingsAsWritten, config
  <2>3. LoadConfig \/ UNCHANGED config
    BY <1>2 DEF Next, vars, Publish, ParseArguments, Advance, Fail, Opened,
       StopWithoutContext, Stop, DisconnectFails, ReleaseMedia, Detach,
       DeleteContext, CloseAudio
  <2> QED BY <2>1, <2>2, <2>3
<1> QED BY <1>1, <1>2, PTL DEF Spec

-----------------------------------------------------------------------------
(* The arguments of the stream.                                            *)

\* The pieces of a text.
Pieces == STRING \cup Names \cup {"=", "&"}

\* A text with one more argument.
Longer(text, given, i) ==
  text \o (IF i = 1 THEN <<>> ELSE << "&" >>)
       \o << given[i].name, "=" >> \o given[i].value
\* The texts of the first n arguments, for each n up to N.
Texts(given, N, text) ==
  /\ text[0] = <<>> /\ text[N] = Text(given)
  /\ \A n \in 1..N : text[n] = Longer(text[n - 1], given, n)
\* The texts of the first arguments, one after the other.
LEMMA TextFold ==
  ASSUME NEW given \in Seq(Argument), NEW N \in Nat, N = Len(given)
  PROVE  \E text \in [0..N -> Seq(Pieces)] : Texts(given, N, text)
<1> DEFINE V == Seq(Pieces)
           F == [p \in (1..N) \X V |-> Longer(p[2], given, p[1])]
           places == [i \in DOMAIN given |-> i]
           Rule(it) == it = [s \in SUBSET DOMAIN places |->
              IF s = {} THEN <<>>
              ELSE Longer(it[s \ {Max(s)}], given, places[Max(s)])]
           iter == CHOOSE it : Rule(it)
<1>1. Text(given) = iter[DOMAIN places]
  BY DEF Text, FoldLeftDomain, FoldLeft, MapThenFoldSet, Longer
<1>2. DOMAIN places = 1..N /\ \A i \in 1..N : places[i] = i
  OBVIOUS
<1>3. ASSUME NEW v \in V, NEW i \in 1..N PROVE Longer(v, given, i) \in V
  <2>1. given[i] \in Argument
    OBVIOUS
  <2>2. given[i].name \in Names /\ given[i].value \in Seq(STRING \ {"&"})
    BY <2>1 DEF Argument
  <2>3. given[i].name \in Pieces /\ given[i].value \in Seq(Pieces)
        /\ "=" \in Pieces /\ "&" \in Pieces
    BY <2>2 DEF Pieces
  <2>4. v \in Seq(Pieces)
    OBVIOUS
  <2>5. (IF i = 1 THEN <<>> ELSE << "&" >>) \in Seq(Pieces)
        /\ << given[i].name, "=" >> \in Seq(Pieces)
    BY <2>3
  <2> QED BY <2>3, <2>4, <2>5 DEF Longer
<1> HIDE DEF V
<1>4. PICK g \in [SUBSET (1..N) -> V] : FoldRule(N, <<>>, F, g)
  <2>1. F \in [(1..N) \X V -> V] /\ <<>> \in V
    BY <1>3 DEF V
  <2> HIDE DEF F
  <2> QED BY <2>1, FoldExists
<1> HIDE DEF places
<1>5. Rule(g)
  <2>1. ASSUME NEW s \in SUBSET (1..N), s # {}
        PROVE  F[<<Max(s), g[s \ {Max(s)}]>>]
                 = Longer(g[s \ {Max(s)}], given, places[Max(s)])
    <3>1. Max(s) \in 1..N /\ g[s \ {Max(s)}] \in V
      BY <2>1, GreatestOfSome
    <3> QED BY <1>2, <3>1
  <2> HIDE DEF F
  <2> QED BY <1>2, <1>4, <2>1 DEF FoldRule
<1>6. Rule(iter)
  <2> HIDE DEF Rule
  <2> QED BY <1>5
<1>7. iter[{}] = <<>> /\ iter[1..0] = <<>>
  <2> HIDE DEF iter
  <2> QED BY <1>6
<1>8. ASSUME NEW n \in 1..N
      PROVE  iter[1..n] = Longer(iter[1..(n - 1)], given, n)
  <2>1. 1..n \in SUBSET (1..N) /\ n \in Nat \ {0}
    OBVIOUS
  <2>2. Max(1..n) = n /\ 1..n \ {n} = 1..(n - 1) /\ 1..n # {}
    BY <2>1, MaxUpTo
  <2> HIDE DEF iter
  <2>3. iter[1..n] = Longer(iter[1..n \ {Max(1..n)}], given, places[Max(1..n)])
    BY <1>2, <1>6, <2>1, <2>2
  <2> QED BY <1>2, <2>2, <2>3
<1> DEFINE text == [n \in 0..N |-> iter[1..n]]
<1>9. text[0] = <<>> /\ text[N] = Text(given)
  <2> HIDE DEF iter
  <2>1. text[0] = iter[1..0] /\ text[N] = iter[1..N]
    OBVIOUS
  <2>2. Text(given) = iter[1..N]
    BY <1>1, <1>2
  <2> HIDE DEF text
  <2> QED BY <1>7, <2>1, <2>2
<1>10. ASSUME NEW n \in 1..N PROVE text[n] = Longer(text[n - 1], given, n)
  <2> HIDE DEF iter
  <2>1. text[n] = iter[1..n] /\ text[n - 1] = iter[1..(n - 1)]
    OBVIOUS
  <2> QED BY <1>8, <2>1
<1>11. text \in [0..N -> Seq(Pieces)]
  <2> HIDE DEF iter
  <2> DEFINE T == {n \in 0..N : iter[1..n] \in V}
  <2>1. 0 \in T
    <3>1. iter[1..0] \in V
      BY <1>7 DEF V
    <3> QED BY <3>1
  <2>2. ASSUME NEW n \in 0..(N - 1), n \in T PROVE n + 1 \in T
    <3>1. n + 1 \in 1..N /\ (n + 1) - 1 = n
      OBVIOUS
    <3>2. iter[1..(n + 1)] = Longer(iter[1..n], given, n + 1)
      BY <1>8, <3>1
    <3> QED BY <1>3, <2>2, <3>1, <3>2
  <2>3. 0..N \subseteq T
    <3> HIDE DEF T
    <3> QED BY <2>1, <2>2, UpTo
  <2> QED BY <2>3 DEF V
<1> HIDE DEF text
<1> QED BY <1>9, <1>10, <1>11 DEF Texts

\* The first arguments' text is a prefix of the text.
LEMMA TextOfFirst ==
  ASSUME NEW given \in Seq(Argument), NEW N \in Nat, N = Len(given),
         NEW text \in [0..N -> Seq(Pieces)], Texts(given, N, text),
         NEW m \in 0..N
  PROVE  Text(SubSeq(given, 1, m)) = text[m]
<1> DEFINE first == SubSeq(given, 1, m)
<1>1. first \in Seq(Argument) /\ Len(first) = m /\ \A i \in 1..m : first[i] = given[i]
  OBVIOUS
<1>2. PICK head \in [0..m -> Seq(Pieces)] : Texts(first, m, head)
  <2> HIDE DEF first
  <2> QED BY <1>1, TextFold
<1> HIDE DEF first
<1> DEFINE T == {n \in 0..m : head[n] = text[n]}
<1>3. 0 \in T
  BY <1>2 DEF Texts
<1>4. ASSUME NEW n \in 0..(m - 1), n \in T PROVE n + 1 \in T
  <2>1. n + 1 \in 1..m /\ (n + 1) - 1 = n /\ n + 1 \in 1..N
    OBVIOUS
  <2>2. head[n + 1] = Longer(head[n], first, n + 1)
    BY <1>2, <2>1 DEF Texts
  <2>3. text[n + 1] = Longer(text[n], given, n + 1)
    BY <2>1 DEF Texts
  <2>4. first[n + 1] = given[n + 1]
    BY <1>1, <2>1
  <2>5. head[n] = text[n]
    BY <1>4
  <2>6. Longer(head[n], first, n + 1) = Longer(text[n], given, n + 1)
    BY <2>4, <2>5 DEF Longer
  <2> QED BY <2>1, <2>2, <2>3, <2>6
<1>5. m \in T
  <2>1. 0..m \subseteq T
    <3>1. m \in Nat
      OBVIOUS
    <3> HIDE DEF T
    <3> QED BY <1>3, <1>4, <3>1, UpTo
  <2>2. m \in 0..m
    OBVIOUS
  <2> QED BY <2>1, <2>2
<1> QED BY <1>2, <1>5 DEF Texts, first

\* What two sequences make one after the other.
Joins(S, a, b, c) ==
  /\ c \in Seq(S) /\ Len(c) = Len(a) + Len(b)
  /\ Len(a) \in Nat /\ Len(b) \in Nat
  /\ \A k \in 1..Len(a) : c[k] = a[k]
  /\ \A j \in 1..Len(b) : c[Len(a) + j] = b[j]
\* That is what a concatenation does.
LEMMA Concat ==
  ASSUME NEW S, NEW a \in Seq(S), NEW b \in Seq(S)
  PROVE  Joins(S, a, b, a \o b)
BY DEF Joins

\* Where one more argument puts its pieces.
Adds(longer, text, given, i) ==
  LET L    == Len(text) + (IF i = 1 THEN 0 ELSE 1)
      size == Len(given[i].value)
  IN  /\ size \in Nat /\ Len(longer) = L + 2 + size
      /\ \A k \in 1..Len(text) : longer[k] = text[k]
      /\ i # 1 => longer[Len(text) + 1] = "&"
      /\ longer[L + 1] = given[i].name /\ longer[L + 2] = "="
      /\ \A j \in 1..size : longer[L + 2 + j] = given[i].value[j]
\* An argument adds its name, an equality sign and its value.
LEMMA LongerText ==
  ASSUME NEW text \in Seq(Pieces), NEW given \in Seq(Argument),
         NEW i \in 1..Len(given)
  PROVE  Adds(Longer(text, given, i), text, given, i)
<1> DEFINE separator == IF i = 1 THEN <<>> ELSE << "&" >>
           named == << given[i].name, "=" >>
           value == given[i].value
           head  == text \o separator
           next  == head \o named
           longer == next \o value
<1>1. given[i] \in Argument
  OBVIOUS
<1>2. given[i].name \in Pieces /\ value \in Seq(Pieces)
      /\ "=" \in Pieces /\ "&" \in Pieces
  BY <1>1 DEF Pieces, Argument
<1>3. /\ separator \in Seq(Pieces) /\ Len(separator) = IF i = 1 THEN 0 ELSE 1
      /\ i # 1 => separator[1] = "&"
      /\ named \in Seq(Pieces) /\ Len(named) = 2
      /\ named[1] = given[i].name /\ named[2] = "="
  BY <1>2
<1> HIDE DEF separator, named, value
<1>4. /\ head \in Seq(Pieces) /\ Len(head) = Len(text) + Len(separator)
      /\ \A k \in 1..Len(text) : head[k] = text[k]
      /\ i # 1 => head[Len(text) + 1] = "&"
  <2>1. Joins(Pieces, text, separator, head)
    BY <1>3, Concat
  <2> HIDE DEF head
  <2> QED BY <1>3, <2>1 DEF Joins
<1> HIDE DEF head
<1>5. /\ next \in Seq(Pieces) /\ Len(next) = Len(head) + 2
      /\ \A k \in 1..Len(head) : next[k] = head[k]
      /\ next[Len(head) + 1] = given[i].name /\ next[Len(head) + 2] = "="
  <2>1. Joins(Pieces, head, named, next)
    BY <1>3, <1>4, Concat
  <2> HIDE DEF next
  <2>2. 1 \in 1..Len(named) /\ 2 \in 1..Len(named)
    BY <1>3
  <2> QED BY <1>3, <2>1, <2>2 DEF Joins
<1> HIDE DEF next
<1>6. /\ longer \in Seq(Pieces) /\ Len(longer) = Len(next) + Len(value)
      /\ \A k \in 1..Len(next) : longer[k] = next[k]
      /\ \A j \in 1..Len(value) : longer[Len(next) + j] = value[j]
  <2>1. Joins(Pieces, next, value, longer)
    BY <1>2, <1>5, Concat
  <2> HIDE DEF longer
  <2> QED BY <2>1 DEF Joins
<1>7. Longer(text, given, i) = longer
  BY DEF Longer, longer, next, head, named, separator, value
<1> HIDE DEF longer
<1> DEFINE L == Len(text) + (IF i = 1 THEN 0 ELSE 1)
<1>8. Len(value) \in Nat /\ Len(text) \in Nat
  BY <1>2
<1>9. Len(head) = L /\ L \in Nat
  BY <1>3, <1>4, <1>8
<1> HIDE DEF L
<1>10. Len(longer) = L + 2 + Len(value) /\ Len(next) = L + 2
  BY <1>5, <1>6, <1>9
<1>11. \A k \in 1..Len(text) : longer[k] = text[k]
  <2>1. \A k \in 1..Len(text) : k \in 1..Len(head) /\ k \in 1..Len(next)
    BY <1>3, <1>4, <1>5, <1>8, <1>9
  <2> QED BY <1>4, <1>5, <1>6, <2>1
<1>12. i # 1 => longer[Len(text) + 1] = "&"
  <2> SUFFICES ASSUME i # 1 PROVE longer[Len(text) + 1] = "&"
    OBVIOUS
  <2>1. Len(text) + 1 \in 1..Len(head) /\ Len(text) + 1 \in 1..Len(next)
    BY <1>3, <1>4, <1>5, <1>8, <1>9
  <2> QED BY <1>4, <1>5, <1>6, <2>1
<1>13. longer[L + 1] = given[i].name /\ longer[L + 2] = "="
  <2>1. L + 1 \in 1..Len(next) /\ L + 2 \in 1..Len(next)
    BY <1>9, <1>10
  <2> QED BY <1>5, <1>6, <1>9, <2>1
<1>14. \A j \in 1..Len(value) : longer[L + 2 + j] = value[j]
  BY <1>6, <1>10
<1> QED BY <1>7, <1>8, <1>10, <1>11, <1>12, <1>13, <1>14 DEF Adds, value, L

\* A text goes on as it began, with "&" after each argument but the last.
Continues(longer, text) ==
  /\ Len(longer) >= Len(text)
  /\ \A k \in 1..Len(text) : longer[k] = text[k]
  /\ Len(longer) > Len(text) => longer[Len(text) + 1] = "&"
\* So does the whole text after that of its first arguments.
LEMMA TextContinues ==
  ASSUME NEW given \in Seq(Argument), NEW N \in Nat, N = Len(given),
         NEW text \in [0..N -> Seq(Pieces)], Texts(given, N, text),
         NEW i \in 1..N
  PROVE  Continues(text[N], text[i])
<1> DEFINE T == {n \in 0..N : n < i \/ Continues(text[n], text[i])}
<1>0. \A n \in 0..N : text[n] \in Seq(Pieces) /\ Len(text[n]) \in Nat
  OBVIOUS
<1>1. 0 \in T
  OBVIOUS
<1>2. ASSUME NEW n \in 0..(N - 1), n \in T PROVE n + 1 \in T
  <2>1. n + 1 \in 1..N /\ (n + 1) - 1 = n /\ n \in 0..N
    OBVIOUS
  <2>2. CASE n + 1 < i
    BY <2>1, <2>2
  <2>3. CASE n + 1 = i
    <3>1. Continues(text[n + 1], text[i])
      BY <1>0, <2>1, <2>3 DEF Continues
    <3> QED BY <2>1, <3>1
  <2>4. CASE n + 1 > i
    <3>1. Continues(text[n], text[i])
      BY <1>2, <2>4
    <3>2. text[n + 1] = Longer(text[n], given, n + 1) /\ n + 1 # 1
      BY <2>1, <2>4 DEF Texts
    <3>3. Adds(text[n + 1], text[n], given, n + 1)
      BY <1>0, <2>1, <3>2, LongerText
    <3> DEFINE a == text[i]  b == text[n]  c == text[n + 1]
    <3>4. Len(a) \in Nat /\ Len(b) \in Nat /\ Len(c) \in Nat
      BY <1>0, <2>1
    <3> HIDE DEF a, b, c
    <3>5. Continues(b, a)
      BY <3>1 DEF a, b
    <3>6. /\ Len(c) > Len(b) /\ c[Len(b) + 1] = "&"
          /\ \A k \in 1..Len(b) : c[k] = b[k]
      <4>1. /\ Len(c) = Len(b) + 1 + 2 + Len(given[n + 1].value)
            /\ Len(given[n + 1].value) \in Nat
            /\ \A k \in 1..Len(b) : c[k] = b[k]
            /\ c[Len(b) + 1] = "&"
        <5>1. Adds(c, b, given, n + 1)
          BY <3>3 DEF b, c
        <5>2. (IF n + 1 = 1 THEN 0 ELSE 1) = 1 /\ n + 1 # 1
          BY <3>2
        <5>3. /\ Len(c) = (Len(b) + (IF n + 1 = 1 THEN 0 ELSE 1)) + 2
                             + Len(given[n + 1].value)
              /\ Len(given[n + 1].value) \in Nat
          BY <5>1 DEF Adds
        <5>4. (\A k \in 1..Len(b) : c[k] = b[k]) /\ c[Len(b) + 1] = "&"
          BY <5>1, <5>2 DEF Adds
        <5> QED BY <5>2, <5>3, <5>4
      <4> DEFINE size == Len(given[n + 1].value)
      <4>2. Len(c) = Len(b) + 1 + 2 + size /\ size \in Nat
        BY <4>1
      <4> HIDE DEF size
      <4>3. Len(c) > Len(b)
        BY <3>4, <4>2
      <4> QED BY <4>1, <4>3
    <3>7. Continues(c, a)
      <4>1. CASE Len(b) = Len(a)
        BY <3>4, <3>5, <3>6, <4>1 DEF Continues
      <4>2. CASE Len(b) > Len(a)
        <5>1. Len(a) + 1 \in 1..Len(b) /\ \A k \in 1..Len(a) : k \in 1..Len(b)
          BY <3>4, <4>2
        <5> QED BY <3>4, <3>5, <3>6, <4>2, <5>1 DEF Continues
      <4> QED BY <3>4, <3>5, <4>1, <4>2 DEF Continues
    <3> QED BY <2>1, <3>7 DEF a, c
  <2> QED BY <2>1, <2>2, <2>3, <2>4
<1>3. N \in T
  <2>1. 0..N \subseteq T
    <3> HIDE DEF T
    <3> QED BY <1>1, <1>2, UpTo
  <2>2. N \in 0..N
    OBVIOUS
  <2> QED BY <2>1, <2>2
<1> QED BY <1>3

\* Where an argument is in the text.
LEMMA ArgumentInText ==
  ASSUME NEW given \in Seq(Argument), NEW i \in 1..Len(given)
  PROVE  LET before == Text(SubSeq(given, 1, i - 1))
             all    == Text(given)
             L      == Len(before) + (IF i = 1 THEN 0 ELSE 1)
             size   == Len(given[i].value)
         IN  /\ all \in Seq(Pieces) /\ before \in Seq(Pieces)
             /\ size \in Nat /\ L + 2 + size <= Len(all)
             /\ \A k \in 1..Len(before) : all[k] = before[k]
             /\ i # 1 => all[Len(before) + 1] = "&"
             /\ all[L + 1] = given[i].name /\ all[L + 2] = "="
             /\ \A j \in 1..size : all[L + 2 + j] = given[i].value[j]
             /\ L + 2 + size < Len(all) => all[L + 3 + size] = "&"
<1> DEFINE N == Len(given)
<1>0. N \in Nat
  OBVIOUS
<1>1. PICK text \in [0..N -> Seq(Pieces)] : Texts(given, N, text)
  <2> HIDE DEF N
  <2> QED BY <1>0, TextFold DEF N
<1>2. Text(SubSeq(given, 1, i - 1)) = text[i - 1] /\ i - 1 \in 0..N
  <2>1. i - 1 \in 0..N
    OBVIOUS
  <2> QED BY <1>0, <1>1, <2>1, TextOfFirst
<1>3. Text(given) = text[N] /\ text[i] = Longer(text[i - 1], given, i)
  BY <1>1 DEF Texts
<1>4. Continues(text[N], text[i])
  BY <1>0, <1>1, TextContinues
<1> DEFINE before == text[i - 1]
           all    == text[N]
           here   == text[i]
           L      == Len(before) + (IF i = 1 THEN 0 ELSE 1)
           size   == Len(given[i].value)
<1>5. all \in Seq(Pieces) /\ before \in Seq(Pieces) /\ here \in Seq(Pieces)
  <2>1. i - 1 \in 0..N /\ i \in 0..N /\ N \in 0..N
    BY <1>0, <1>2
  <2> HIDE DEF N
  <2> QED BY <2>1
<1>a. Adds(here, before, given, i)
  <2> HIDE DEF before
  <2> QED BY <1>3, <1>5, LongerText DEF before
<1>6. /\ size \in Nat /\ Len(here) = L + 2 + size
      /\ \A k \in 1..Len(before) : here[k] = before[k]
      /\ i # 1 => here[Len(before) + 1] = "&"
      /\ here[L + 1] = given[i].name /\ here[L + 2] = "="
      /\ \A j \in 1..size : here[L + 2 + j] = given[i].value[j]
  BY <1>a DEF Adds
<1>7. Len(before) \in Nat /\ Len(all) \in Nat /\ Len(here) \in Nat /\ L \in Nat
  <2> HIDE DEF before, all, here
  <2> QED BY <1>5
<1> DEFINE B == Len(before)  H == Len(here)
<1> HIDE DEF size, N
<1>8. /\ \A k \in 1..B : k \in 1..H
      /\ i # 1 => B + 1 \in 1..H
      /\ L + 1 \in 1..H /\ L + 2 \in 1..H
      /\ \A j \in 1..size : L + 2 + j \in 1..H
  <2> HIDE DEF B, H
  <2>1. B \in Nat /\ L = B + (IF i = 1 THEN 0 ELSE 1) /\ H = L + 2 + size /\ size \in Nat
    BY <1>6, <1>7 DEF B, H
  <2> HIDE DEF L
  <2> QED BY <1>7, <2>1
<1>9. \A k \in 1..H : all[k] = here[k]
  BY <1>4 DEF Continues
<1>10. L + 2 + size <= Len(all)
       /\ (L + 2 + size < Len(all) => all[L + 3 + size] = "&")
  <2>1. Len(all) >= Len(here) /\ (Len(all) > Len(here) => all[Len(here) + 1] = "&")
    BY <1>4 DEF Continues
  <2> HIDE DEF L, all, here
  <2>2. L + 3 + size = Len(here) + 1
    BY <1>6, <1>7
  <2> QED BY <1>6, <1>7, <2>1, <2>2
<1> HIDE DEF L, all, here, before
<1>11. /\ \A k \in 1..B : all[k] = before[k]
       /\ i # 1 => all[B + 1] = "&"
       /\ all[L + 1] = given[i].name /\ all[L + 2] = "="
       /\ \A j \in 1..size : all[L + 2 + j] = given[i].value[j]
  BY <1>6, <1>8, <1>9
<1> QED BY <1>2, <1>3, <1>5, <1>6, <1>10, <1>11 DEF L, all, before, size

\* The first of a kind of piece is where none is before it.
LEMMA PlaceIs ==
  ASSUME NEW text \in Seq(Pieces), NEW from \in Nat \ {0}, NEW piece,
         NEW p \in from..(Len(text) + 1),
         p <= Len(text) => text[p] = piece,
         \A k \in from..(p - 1) : text[k] # piece
  PROVE  PlaceFrom(text, from, piece) = p
<1> DEFINE I == {k \in from..Len(text) : text[k] = piece}
           at == IF I # {} THEN Min(I) ELSE 0
<1>1. PlaceFrom(text, from, piece) = IF at = 0 THEN Len(text) + 1 ELSE at
  BY DEF PlaceFrom, SelectInSubSeq
<1>2. Len(text) \in Nat /\ p \in Nat
  OBVIOUS
<1>3. CASE p = Len(text) + 1
  <2>1. I = {}
    BY <1>2, <1>3
  <2> QED BY <1>1, <1>3, <2>1
<1>4. CASE p <= Len(text)
  <2>1. p \in I
    BY <1>2, <1>4
  <2>2. I \subseteq Nat /\ \A k \in I : p <= k
    <3>1. ASSUME NEW k \in I, k < p PROVE FALSE
      <4>1. k \in from..(p - 1) /\ text[k] = piece
        BY <1>2, <3>1
      <4> QED BY <4>1
    <3>2. I \subseteq Nat
      OBVIOUS
    <3> QED BY <1>2, <3>1, <3>2
  <2>3. Min(I) \in I /\ \A other \in I : Min(I) <= other
    <3> HIDE DEF I
    <3> QED BY <2>1, <2>2, LeastElement
  <2>4. Min(I) = p
    <3>1. Min(I) \in Nat /\ Min(I) <= p /\ p <= Min(I)
      BY <2>1, <2>2, <2>3
    <3> HIDE DEF I
    <3> QED BY <1>2, <3>1
  <2>5. at = p /\ p # 0
    BY <2>1, <2>4
  <2> HIDE DEF at
  <2> QED BY <1>1, <2>5
<1> QED BY <1>2, <1>3, <1>4

\* An argument whose name is not in the text before it is found, from the
\* name to the next "&"; a name that is nowhere in the text is not.
LEMMA ValueFound ==
  ASSUME NEW given \in Seq(Argument), NEW i \in 1..Len(given),
         given[i].name \notin Range(Text(SubSeq(given, 1, i - 1)))
  PROVE  LET found == get_arg_value(Text(given), given[i].name)
         IN  /\ Len(found) = Len(given[i].value)
             /\ found \in Seq(Pieces)
             /\ \A j \in DOMAIN given[i].value : found[j] = given[i].value[j]
<1> DEFINE before == Text(SubSeq(given, 1, i - 1))
           all    == Text(given)
           name   == given[i].name
           value  == given[i].value
           L      == Len(before) + (IF i = 1 THEN 0 ELSE 1)
           size   == Len(value)
<1>1. /\ all \in Seq(Pieces) /\ before \in Seq(Pieces)
      /\ size \in Nat /\ L + 2 + size <= Len(all)
      /\ \A k \in 1..Len(before) : all[k] = before[k]
      /\ i # 1 => all[Len(before) + 1] = "&"
      /\ all[L + 1] = name /\ all[L + 2] = "="
      /\ \A j \in 1..size : all[L + 2 + j] = value[j]
      /\ L + 2 + size < Len(all) => all[L + 3 + size] = "&"
  BY ArgumentInText
<1>2. /\ name \in Names /\ value \in Seq(STRING \ {"&"})
      /\ DOMAIN value = 1..size /\ i \in Nat
  <2>1. given[i] \in Argument
    OBVIOUS
  <2> QED BY <2>1 DEF Argument
<1>3. name # "&"
  BY <1>2 DEF Names
<1>4. \A j \in 1..size : value[j] # "&"
  BY <1>2
<1>5. \A k \in 1..Len(before) : before[k] # name
  <2>1. name \notin Range(before)
    OBVIOUS
  <2>2. DOMAIN before = 1..Len(before)
    BY <1>1
  <2> HIDE DEF before, name
  <2> QED BY <2>1, <2>2 DEF Range
<1>6. Len(before) \in Nat /\ Len(all) \in Nat /\ L \in Nat
  <2> HIDE DEF before, all
  <2> QED BY <1>1
<1> DEFINE E == L + 3 + size
<1> HIDE DEF all, before, name, value, size
<1>7. \A k \in 1..L : all[k] # name
  <2>1. ASSUME NEW k \in 1..L PROVE all[k] # name
    <3>1. CASE k <= Len(before)
      <4>1. k \in 1..Len(before)
        BY <1>6, <3>1
      <4> QED BY <1>1, <1>5, <4>1
    <3>2. CASE k > Len(before)
      <4>1. i # 1 /\ k = Len(before) + 1
        BY <1>6, <3>2
      <4> QED BY <1>1, <1>3, <4>1
    <3> QED BY <1>6, <3>1, <3>2
  <2> QED BY <2>1
<1> HIDE DEF L
<1>8. PlaceFrom(all, 1, name) = L + 1
  <2>1. L + 1 \in 1..(Len(all) + 1) /\ (L + 1) - 1 = L /\ 1 \in Nat \ {0}
    BY <1>1, <1>6
  <2>2. \A k \in 1..((L + 1) - 1) : all[k] # name
    BY <1>7, <2>1
  <2> QED BY <1>1, <2>1, <2>2, PlaceIs
<1>9. PlaceFrom(all, L + 1, "&") = E
  <2>1. E \in (L + 1)..(Len(all) + 1) /\ L + 1 \in Nat \ {0}
    BY <1>1, <1>6
  <2>2. E <= Len(all) => all[E] = "&"
    BY <1>1, <1>6
  <2>3. ASSUME NEW k \in (L + 1)..(E - 1) PROVE all[k] # "&"
    <3>1. CASE k = L + 1
      BY <1>1, <1>3, <3>1
    <3>2. CASE k = L + 2
      BY <1>1, <3>2
    <3>3. CASE k > L + 2
      <4>1. k - (L + 2) \in 1..size /\ L + 2 + (k - (L + 2)) = k
        BY <1>1, <1>6, <3>3
      <4> QED BY <1>1, <1>4, <4>1
    <3> QED BY <1>6, <3>1, <3>2, <3>3
  <2> HIDE DEF E
  <2> QED BY <1>1, <2>1, <2>2, <2>3, PlaceIs
<1> DEFINE found == get_arg_value(all, name)
<1>10. found = IF E <= (L + 1) + 2 THEN <<>> ELSE SubSeq(all, (L + 1) + 2, E - 1)
  BY <1>8, <1>9 DEF get_arg_value, find_arg_end, NotGiven
<1> HIDE DEF found
<1>11. CASE size = 0
  <2>1. found = <<>>
    BY <1>6, <1>10, <1>11
  <2> QED BY <1>2, <1>11, <2>1 DEF found, all, name, value, size
<1>12. CASE size > 0
  <2>1. found = SubSeq(all, L + 3, L + 2 + size)
    <3>1. ~(E <= (L + 1) + 2) /\ (L + 1) + 2 = L + 3 /\ E - 1 = L + 2 + size
      BY <1>1, <1>6, <1>12
    <3> QED BY <1>10, <3>1
  <2>2. L + 3 \in 1..Len(all) /\ L + 2 + size \in 1..Len(all)
    BY <1>1, <1>6, <1>12
  <2>3. /\ found \in Seq(Pieces) /\ Len(found) = (L + 2 + size) - (L + 3) + 1
        /\ \A j \in 1..((L + 2 + size) - (L + 3) + 1) : found[j] = all[(L + 3) + j - 1]
    BY <1>1, <1>6, <2>1, <2>2
  <2>4. (L + 2 + size) - (L + 3) + 1 = size
    BY <1>1, <1>6
  <2>5. ASSUME NEW j \in 1..size PROVE found[j] = value[j]
    <3>1. (L + 3) + j - 1 = L + 2 + j
      BY <1>6
    <3> QED BY <1>1, <2>3, <2>4, <3>1
  <2> QED BY <1>2, <2>3, <2>4, <2>5 DEF found, all, name, value, size
<1> QED BY <1>1, <1>11, <1>12
\* A name that stands nowhere in the text has no value.
LEMMA ValueNotFound ==
  ASSUME NEW given \in Seq(Argument), NEW name, name \notin Range(Text(given))
  PROVE  get_arg_value(Text(given), name) = NotGiven
<1> DEFINE all == Text(given)
           N   == Len(given)
           E   == Len(all) + 1
<1>1. all \in Seq(Pieces) /\ Len(all) \in Nat
  <2>1. N \in Nat
    OBVIOUS
  <2>2. PICK text \in [0..N -> Seq(Pieces)] : Texts(given, N, text)
    <3> HIDE DEF N
    <3> QED BY <2>1, TextFold DEF N
  <2>3. N \in 0..N
    BY <2>1
  <2> HIDE DEF N
  <2>4. Text(given) \in Seq(Pieces)
    BY <2>2, <2>3 DEF Texts
  <2> QED BY <2>4
<1>2. \A k \in 1..Len(all) : all[k] # name
  <2>1. DOMAIN all = 1..Len(all) /\ name \notin Range(all)
    BY <1>1
  <2> HIDE DEF all
  <2> QED BY <2>1 DEF Range
<1> HIDE DEF all
<1>3. E \in 1..(Len(all) + 1) /\ E \in E..(Len(all) + 1) /\ E \in Nat \ {0}
      /\ 1 \in Nat \ {0} /\ ~(E <= Len(all)) /\ E - 1 = Len(all)
  BY <1>1
<1>4. PlaceFrom(all, 1, name) = E
  <2>1. \A k \in 1..(E - 1) : all[k] # name
    BY <1>2, <1>3
  <2> HIDE DEF E
  <2> QED BY <1>1, <1>3, <2>1, PlaceIs
<1>5. PlaceFrom(all, E, "&") = E
  <2>1. \A k \in E..(E - 1) : all[k] # "&"
    BY <1>1
  <2> HIDE DEF E
  <2> QED BY <1>1, <1>3, <2>1, PlaceIs
<1>6. E <= E + 2
  BY <1>3
<1> HIDE DEF E
<1> QED BY <1>4, <1>5, <1>6 DEF get_arg_value, find_arg_end, all

\* The first element, as a sequence.
LEMMA FirstElement ==
  ASSUME NEW S, NEW s \in Seq(S), Len(s) >= 1
  PROVE  SubSeq(s, 1, 1) = <<s[1]>>
<1> DEFINE sub == SubSeq(s, 1, 1)
           one == <<s[1]>>
<1>1. Len(s) \in Nat /\ s[1] \in S
  OBVIOUS
<1>2. sub \in Seq(S) /\ Len(sub) = 1 /\ sub[1] = s[1]
  BY <1>1
<1>3. one \in Seq(S) /\ Len(one) = 1 /\ one[1] = s[1]
  BY <1>1
<1> HIDE DEF sub, one
<1>4. DOMAIN sub = 1..1 /\ DOMAIN one = 1..1
  BY <1>2, <1>3
<1>5. sub = [k \in 1..1 |-> sub[k]] /\ one = [k \in 1..1 |-> one[k]]
  BY <1>2, <1>3, <1>4
<1>6. \A k \in 1..1 : sub[k] = one[k]
  BY <1>2, <1>3
<1>7. sub = one
  BY <1>5, <1>6
<1> QED BY <1>7 DEF sub, one

\* What Parse makes of the text is what was given,
LEMMA ParsedAsGiven ==
  query \in Seq(Argument) /\ arguments = Parse(Text(query))
    /\ enable_dual = DualOn(arguments) => ArgumentsAsGiven
<1> SUFFICES ASSUME query \in Seq(Argument), arguments = Parse(Text(query)),
                    enable_dual = DualOn(arguments)
             PROVE  ArgumentsAsGiven
  OBVIOUS
<1> DEFINE Got(name) == get_arg_value(Text(query), name)
<1>1. \A name \in Names :
        arguments[name] = IF name = "appid" THEN ReplaceSlash(Got(name)) ELSE Got(name)
  BY DEF Parse
<1>2. "dual" \in Names /\ "dual" # "appid"
  BY DEF Names
<1>3. ASSUME NEW i \in DOMAIN query,
             query[i].name \notin Range(Text(SubSeq(query, 1, i - 1)))
      PROVE  LET name  == query[i].name
                 value == query[i].value
             IN  /\ Len(arguments[name]) = Len(value)
                 /\ \A j \in DOMAIN value :
                      arguments[name][j] =
                        IF name = "appid" /\ value[j] = "%2F" THEN "/" ELSE value[j]
                 /\ name = "dual" => (enable_dual <=> IsPrefix(<<"true">>, value))
  <2> DEFINE name  == query[i].name
             value == query[i].value
             found == Got(name)
  <2>1. /\ Len(found) = Len(value) /\ found \in Seq(Pieces)
        /\ \A j \in DOMAIN value : found[j] = value[j]
    BY <1>3, ValueFound
  <2>2. /\ name \in Names /\ value \in Seq(STRING \ {"&"})
        /\ DOMAIN value = 1..Len(value) /\ Len(value) \in Nat
    <3>1. query[i] \in Argument
      BY <1>3
    <3> QED BY <3>1 DEF Argument
  <2> HIDE DEF name, value
  <2>3. CASE name = "appid"
    <3>1. arguments[name] = [j \in 1..Len(found) |->
                               IF found[j] = "%2F" THEN "/" ELSE found[j]]
      BY <1>1, <2>2, <2>3 DEF ReplaceSlash, ReplaceAll
    <3> HIDE DEF found
    <3>2. Len(arguments[name]) = Len(value)
      BY <2>1, <2>2, <3>1
    <3>3. \A j \in DOMAIN value :
            arguments[name][j] = IF value[j] = "%2F" THEN "/" ELSE value[j]
      BY <2>1, <2>2, <3>1
    <3> QED BY <1>2, <2>3, <3>2, <3>3 DEF name, value
  <2>4. CASE name # "appid"
    <3>1. arguments[name] = found
      BY <1>1, <2>2, <2>4
    <3> HIDE DEF found
    <3>2. name = "dual" => (enable_dual <=> IsPrefix(<<"true">>, value))
      <4> SUFFICES ASSUME name = "dual"
                   PROVE  enable_dual <=> IsPrefix(<<"true">>, value)
        OBVIOUS
      <4>1. enable_dual <=> found # <<>> /\ Head(found) = "true"
        BY <3>1 DEF DualOn, NotGiven
      <4>2. IsPrefix(<<"true">>, value) <=> Len(value) >= 1 /\ value[1] = "true"
        <5>1. Len(value) >= 1 => SubSeq(value, 1, 1) = <<value[1]>>
          BY <2>2, FirstElement
        <5>2. SubSeq(<<"true">>, 1, 1) = <<"true">> /\ Len(<<"true">>) = 1
          <6> DEFINE one == <<"true">>
          <6>1. one \in Seq({"true"}) /\ Len(one) = 1 /\ one[1] = "true"
            OBVIOUS
          <6>2. SubSeq(one, 1, 1) = <<one[1]>>
            <7> HIDE DEF one
            <7> QED BY <6>1, FirstElement
          <6> QED BY <6>1, <6>2
        <5>3. IsPrefix(<<"true">>, value)
                <=> 1 <= Len(value) /\ <<"true">> = SubSeq(value, 1, 1)
          BY <5>2 DEF IsPrefix
        <5>4. <<"true">> = <<value[1]>> <=> value[1] = "true"
          OBVIOUS
        <5> QED BY <2>2, <5>1, <5>3, <5>4
      <4>3. found # <<>> <=> Len(value) >= 1
        BY <2>1, <2>2
      <4>4. Len(value) >= 1 => Head(found) = value[1]
        BY <2>1, <2>2
      <4> QED BY <4>1, <4>2, <4>3, <4>4
    <3> QED BY <2>1, <2>4, <3>1, <3>2 DEF name, value
  <2> QED BY <2>3, <2>4
<1>4. ASSUME NEW name \in Names \ Range(Text(query))
      PROVE  /\ arguments[name] = NotGiven
             /\ name = "dual" => ~enable_dual
  <2>1. Got(name) = NotGiven
    BY ValueNotFound
  <2> HIDE DEF Got
  <2>2. ReplaceSlash(NotGiven) = NotGiven
    BY DEF ReplaceSlash, ReplaceAll, NotGiven
  <2>3. arguments[name] = NotGiven
    BY <1>1, <2>1, <2>2
  <2> QED BY <2>3 DEF DualOn
<1> QED BY <1>3, <1>4 DEF ArgumentsAsGiven
\* also after a step.
LEMMA ParsedAsGivenNext ==
  (query \in Seq(Argument) /\ arguments = Parse(Text(query))
     /\ enable_dual = DualOn(arguments) => ArgumentsAsGiven)'
BY ParsedAsGiven, PTL


\* From when they are parsed until the stream is closed the arguments are what
\* its publisher's text was parsed to.
Parsed == /\ query \in Seq(Argument)
          /\ arguments = Parse(Text(query))
          /\ enable_dual = DualOn(arguments)
\* The inductive invariant: they are so in every phase that reads them.
PInv == /\ phase = "opening" => query \in Seq(Argument)
        /\ phase = "opening" /\ stage # 1 => Parsed
        /\ phase = "open" => Parsed

\* A stream is opened with the arguments that its publisher gave: each has the
\* value given for it unless its name stood in an earlier argument, and those
\* that are not named have none.
THEOREM ArgumentsAreAsGiven == Spec => []ArgumentsAsGiven
<1>1. Init => PInv
  BY DEF Init, PInv
<1>2. ASSUME LInv, PInv, [Next]_vars PROVE PInv'
  <2> USE DEF input
  <2>1. CASE Publish
    BY <2>1, InputAssumption DEF Publish, PInv
  <2>2. CASE ParseArguments
    BY <1>2, <2>2 DEF ParseArguments, At, PInv, Parsed
  <2>3. CASE LoadConfig \/ Advance
    <3>1. /\ phase = "opening" /\ stage \in 1..Len(Stages)
          /\ Stages[stage].name # "arguments"
      BY <1>2, <2>3, StageCount DEF LoadConfig, Advance, At, LInv, TypeOK
    <3>2. stage # 1
      BY <3>1, StageNames DEF Named
    <3>3. Parsed
      BY <1>2, <3>1, <3>2 DEF PInv
    <3> QED BY <2>3, <3>1, <3>3 DEF LoadConfig, Advance, PInv, Parsed
  <2>4. CASE Opened
    <3>1. phase = "opening" /\ stage # 1
      BY <2>4, StageCount DEF Opened
    <3> QED BY <1>2, <2>4, <3>1 DEF Opened, PInv, Parsed
  <2>5. CASE \/ Fail \/ Stop \/ DisconnectFails \/ ReleaseMedia \/ Detach
             \/ DeleteContext \/ CloseAudio
    BY <2>5 DEF Fail, Stop, DisconnectFails, ReleaseMedia, Detach,
       DeleteContext, CloseAudio, PInv
  <2>6. CASE StopWithoutContext \/ UNCHANGED vars
    <3>1. UNCHANGED <<phase, query, arguments, enable_dual, stage>>
      BY <2>6 DEF StopWithoutContext, vars
    <3> QED BY <1>2, <3>1 DEF PInv, Parsed
  <2> QED BY <1>2, <2>1, <2>2, <2>3, <2>4, <2>5, <2>6 DEF Next
<1>3. PInv => ArgumentsAsGiven
  <2>1. PInv /\ phase = "open" => ArgumentsAsGiven
    BY ParsedAsGiven DEF PInv, Parsed
  <2> QED BY <2>1 DEF ArgumentsAsGiven
<1> QED BY <1>1, <1>2, <1>3, LifecycleInvariance, PTL DEF Spec
=============================================================================
