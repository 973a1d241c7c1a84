-------------------------- MODULE SessionLifecycle --------------------------
(***************************************************************************)
(* What a publishing RTMP session acquires and gives back: record_init     *)
(* calls ngx_agora_init, which calls agora_init and agora_init_audio;      *)
(* record_stop calls ngx_agora_disconnect, which calls agora_disconnect.   *)
(* All of it runs on the nginx thread.                                     *)
(*                                                                         *)
(* agora_init fails in a dozen places and each leaves something else       *)
(* behind.  The stages of opening a session are a table: what a stage      *)
(* acquires, what it leaves behind if it fails, and what the code gives    *)
(* back then.  The module keeps the ledger.                                *)
(***************************************************************************)
EXTENDS StreamArguments, LocalConfig

CONSTANTS
  Queries,     \* the arguments a stream may be published with
  Files,       \* what rtmpg.conf may hold when it is read; <<>> for no file
  MaxPublish   \* bound of the model: times the stream is published

ASSUME PublishAssumption == MaxPublish \in Nat
ASSUME InputAssumption == /\ Queries \subseteq Seq(Argument)
                          /\ Files \subseteq Seq(Seq(STRING))

VARIABLES
  phase,        \* "closed", "opening", "open" or the step of closing
  query,        \* the arguments of the stream being published
  arguments,    \* what ngx_agora_init found in their text, s->args
  enable_dual,
  file,         \* what rtmpg.conf held when it was last read
  callConfig,   \* and what agora_init made of it
  stage,        \* the stage that opening is at
  held,         \* what the session holds and can still give back
  joinable,     \* the started threads that a std::thread object stands for
  isRunning,
  agora_ctx,    \* s->agora_ctx # NULL
  lost,         \* <<n, r>>: the n-th stream never gave back the resource r
  orphans,      \* <<n, t>>: nobody is left to tell its thread t to finish
  failures,     \* <<n, c>>: the call c failed for the n-th stream
  published     \* how often the stream was published

input  == <<query, arguments, enable_dual>>
config == <<file, callConfig>>
vars   == <<phase, input, config, stage, held, joinable, isRunning, agora_ctx,
            lost, orphans, failures, published>>

Threads == {"highThread", "audioThread", "lowThread"}
Tracks  == {"audioSender", "audioTrack", "videoSender", "videoTrack"}

\* What ngx_agora_disconnect frees itself.
NgxSide == {"opus", "aac", "audioContext", "ngxContext"}

\* What deleting the context gives back with it: its refcounted members.
Members == {"context", "connection", "channel", "queues", "codecs"} \cup Tracks

-----------------------------------------------------------------------------
(* The stages of ngx_agora_init, in order.  gets: what the stage acquires. *)
(* leaves: what it has acquired even if it fails.  frees: what is given    *)
(* back if it fails.                                                       *)

Stage(name, gets, leaves, frees) ==
  [name |-> name, gets |-> gets, leaves |-> leaves, frees |-> frees]

\* The local configuration is read first, and is there even if it fails.  A
\* service that cannot be initialised is dropped, not released.
OpenService ==
  << Stage("config", {"context"}, {}, {}),
     Stage("service", {"service"}, {"service"}, {"context"}) >>

\* Until it has connected agora_init deletes the context when a call fails,
\* but not the service; after that it just returns.
AgoraInit ==
  << Stage("connection", {"connection"},  {}, {"context"}),
     Stage("encryption", {},              {}, {"context", "connection"}),
     Stage("connect",    {"channel"},     {}, {"context", "connection"}),
     Stage("factory",     {},              {}, {}),
     Stage("audioSender", {"audioSender"}, {}, {}),
     Stage("audioTrack",  {"audioTrack"},  {}, {}),
     Stage("videoSender", {"videoSender"}, {}, {}),
     Stage("videoTrack",  {"videoTrack"},  {}, {}) >>

\* agora_init starts its threads before it opens the codecs of the low stream.
StartThreads ==
  << Stage("threads", {"queues", "highThread", "audioThread"}, {}, {}) >>
\* Mutant of OpenLow: the low queue gets no thread.
OpenLowUnserved == << Stage("codecs", {"codecs"}, {"codecs"}, {}) >>

\* Mutant of OpenLow: the context is deleted when the codecs fail.
OpenLowDeletes ==
  << Stage("codecs",    {"codecs"},    {"codecs"}, Members),
     Stage("lowThread", {"lowThread"}, {},         {}) >>

OpenLow ==
  << Stage("codecs",    {"codecs"},    {"codecs"}, {}),
     Stage("lowThread", {"lowThread"}, {},         {}) >>

\* agora_init_audio gives nothing back.
AudioInit ==
  << Stage("decoder", {},                       {},               {}),
     Stage("aac",     {"aac"},                  {"aac"},          {}),
     Stage("opus",    {"audioContext", "opus"}, {"audioContext"}, {}),
     Stage("bitrate", {},                       {},               {}) >>

\* The arguments of the stream and the nginx context come first.
Arguments ==
  << Stage("arguments",  {},             {}, {}),
     Stage("ngxContext", {"ngxContext"}, {}, {}) >>

\* Mutant of Stages: the threads are started before there is a channel.
StagesThreadsFirst ==
  Arguments \o OpenService \o StartThreads \o AgoraInit
    \o (IF enable_dual THEN OpenLow ELSE <<>>) \o AudioInit

Stages == Arguments \o OpenService \o AgoraInit \o StartThreads
            \o (IF enable_dual THEN OpenLow ELSE <<>>) \o AudioInit

\* Something of the stream being published, as an entry of the ledger.
Entries(things) == {published} \X things

\* The stages that cannot fail.
Sure == {"config", "threads", "lowThread"}

-----------------------------------------------------------------------------
Init == /\ phase = "closed"
        /\ query = <<>>
        /\ arguments = Parse(<<>>)
        /\ enable_dual = FALSE
        /\ file = <<>>
        /\ callConfig = Default
        /\ stage = 1
        /\ held = {}
        /\ joinable = {}
        /\ isRunning = FALSE
        /\ agora_ctx = FALSE
        /\ lost = {}
        /\ orphans = {}
        /\ failures = {}
        /\ published = 0

\* Mutant of Publish: opening goes on where it stopped the last time.
PublishGoesOn == /\ phase = "closed"
                 /\ published < MaxPublish
                 /\ published' = published + 1
                 /\ query' \in Queries
                 /\ arguments' = Parse(<<>>)
                 /\ enable_dual' = FALSE
                 /\ phase' = "opening"
                 /\ UNCHANGED <<config, stage, held, joinable, isRunning,
                                agora_ctx, lost, orphans, failures>>

\* The publisher starts a stream: ngx_agora_init has empty buffers.
Publish == /\ phase = "closed"
           /\ published < MaxPublish
           /\ published' = published + 1
           /\ query' \in Queries
           /\ arguments' = Parse(<<>>)
           /\ enable_dual' = FALSE
           /\ phase' = "opening"
           /\ stage' = 1
           /\ UNCHANGED <<config, held, joinable, isRunning, agora_ctx, lost,
                          orphans, failures>>

At(name) == /\ phase = "opening"
            /\ stage <= Len(Stages)
            /\ Stages[stage].name = name

ParseArguments == /\ At("arguments")
                  /\ Complete(Parse(Text(query)))
                  /\ arguments' = Parse(Text(query))
                  /\ enable_dual' = DualOn(arguments')
                  /\ stage' = stage + 1
                  /\ UNCHANGED <<phase, query, config, held, joinable,
                                 isRunning, agora_ctx, lost, orphans, failures,
                                 published>>

\* agora_init makes its context and reads the configuration.
LoadConfig == /\ At("config")
              /\ file' \in Files
              /\ callConfig' = ReadConfig(file')
              /\ held' = held \cup Stages[stage].gets
              /\ stage' = stage + 1
              /\ UNCHANGED <<phase, input, joinable, isRunning, agora_ctx,
                             lost, orphans, failures, published>>

Advance == /\ phase = "opening"
           /\ stage <= Len(Stages)
           /\ Stages[stage].name \notin {"arguments", "config"}
           /\ held' = held \cup Stages[stage].gets
           /\ joinable' = joinable \cup (Stages[stage].gets \cap Threads)
           /\ isRunning' = (isRunning \/ Stages[stage].name = "threads")
           /\ stage' = stage + 1
           /\ UNCHANGED <<phase, input, config, agora_ctx, lost, orphans,
                          failures, published>>

\* A stage fails.  ngx_agora_init frees its own context and returns NULL, so
\* that what the failed call did not give back is out of reach.
Fail == /\ phase = "opening"
        /\ stage <= Len(Stages)
        /\ Stages[stage].name \notin Sure
        /\ At("arguments") => ~Complete(Parse(Text(query)))
        /\ LET left == (held \cup Stages[stage].leaves)
                         \ (Stages[stage].frees \cup {"ngxContext"})
           IN  /\ lost' = lost \cup Entries(left)
               /\ orphans' = orphans \cup Entries(left \cap Threads)
        /\ failures' = failures \cup Entries({Stages[stage].name})
        /\ held' = {}
        /\ joinable' = {}
        /\ isRunning' = FALSE
        /\ phase' = "closed"
        /\ UNCHANGED <<input, config, stage, agora_ctx, published>>

Opened == /\ phase = "opening"
          /\ stage > Len(Stages)
          /\ agora_ctx' = TRUE
          /\ phase' = "open"
          /\ UNCHANGED <<input, config, stage, held, joinable, isRunning, lost,
                         orphans, failures, published>>

-----------------------------------------------------------------------------
(* record_stop, also for a stream whose opening failed.                    *)

StopWithoutContext == /\ phase = "closed"
                      /\ ~agora_ctx
                      /\ UNCHANGED vars

\* isRunning, the finished works, two seconds: AgoraSession has the details.
Stop == /\ phase = "open"
        /\ isRunning' = FALSE
        /\ phase' = "disconnecting"
        /\ UNCHANGED <<input, config, stage, held, joinable, agora_ctx, lost,
                       orphans, failures, published>>

\* The SDK refuses: agora_disconnect returns before it gives anything back.
DisconnectFails ==
  /\ phase = "disconnecting"
  /\ failures' = failures \cup Entries({"disconnect"})
  /\ lost' = lost \cup Entries(held \ NgxSide)
  /\ held' = held \cap NgxSide
  /\ phase' = "closeAudio"
  /\ UNCHANGED <<input, config, stage, joinable, isRunning, agora_ctx, orphans,
                 published>>

\* Senders, tracks, queues and the connection are dropped, the service
\* released.
ReleaseMedia ==
  /\ phase = "disconnecting"
  /\ held' = held \ (Tracks \cup {"queues", "connection", "channel", "service"})
  /\ phase' = "detach"
  /\ UNCHANGED <<input, config, stage, joinable, isRunning, agora_ctx, lost,
                 orphans, failures, published>>

Detach == /\ phase = "detach"
          /\ joinable' = joinable \
               (IF enable_dual THEN Threads ELSE {"highThread", "audioThread"})
          /\ held' = held \ Threads
          /\ phase' = "delete"
          /\ UNCHANGED <<input, config, stage, isRunning, agora_ctx, lost,
                         orphans, failures, published>>

DeleteContext == /\ phase = "delete"
                 /\ held' = held \ Members
                 /\ phase' = "closeAudio"
                 /\ UNCHANGED <<input, config, stage, joinable, isRunning,
                                agora_ctx, lost, orphans, failures, published>>

\* ngx_agora_disconnect goes on the same way whether agora_disconnect got
\* through or not, and sets s->agora_ctx to NULL: what is still held is lost.
CloseAudio ==
  /\ phase = "closeAudio"
  /\ lost' = lost \cup Entries(held \ NgxSide)
  /\ held' = {}
  /\ joinable' = {}
  /\ agora_ctx' = FALSE
  /\ phase' = "closed"
  /\ UNCHANGED <<input, config, stage, isRunning, orphans, failures, published>>

Next == \/ Publish \/ ParseArguments \/ LoadConfig \/ Advance \/ Fail \/ Opened
        \/ StopWithoutContext \/ Stop \/ DisconnectFails \/ ReleaseMedia
        \/ Detach \/ DeleteContext \/ CloseAudio

Spec == Init /\ [][Next]_vars
-----------------------------------------------------------------------------
Resources == Members \cup Threads \cup NgxSide \cup {"service"}
Phases == {"closed", "opening", "open", "disconnecting", "detach", "delete",
           "closeAudio"}
BeforeService  == {"arguments", "ngxContext"}
BeforeChannel  == {"service", "connection", "encryption", "connect"}
BeforeThreads  == {"factory"} \cup Tracks
WithThreads    == {"codecs", "decoder", "aac", "opus", "bitrate"}
Calls == BeforeService \cup BeforeChannel \cup BeforeThreads \cup WithThreads
           \cup {"disconnect"}
Streams == 1..MaxPublish

\* Every variable has the type its declaration gives it.
TypeOK == /\ phase \in Phases
          /\ query \in Queries \cup {<<>>}
          /\ DOMAIN arguments = Names
          /\ enable_dual \in BOOLEAN
          /\ file \in Files \cup {<<>>}
          /\ DOMAIN callConfig = Numeric \cup Flags
          /\ stage \in 1..(Len(Stages) + 1)
          /\ held \subseteq Resources
          /\ joinable \subseteq Threads
          /\ isRunning \in BOOLEAN
          /\ agora_ctx \in BOOLEAN
          /\ lost \subseteq Streams \X Resources
          /\ orphans \subseteq Streams \X Threads
          /\ failures \subseteq Streams \X Calls
          /\ published \in 0..MaxPublish

\* A stream is published with the arguments its publisher gave, although
\* get_arg_value finds a name wherever it is: an argument whose name is in no
\* earlier argument has its value, %2F in the appid read as a slash, and dual
\* is on if it is true; an argument that is named nowhere has none.
ArgumentsAsGiven ==
  phase = "open" =>
    /\ \A i \in DOMAIN query :
         LET name  == query[i].name
             value == query[i].value
         IN  name \notin Range(Text(SubSeq(query, 1, i - 1)))
               => /\ Len(arguments[name]) = Len(value)
                  /\ \A j \in DOMAIN value :
                       arguments[name][j] =
                         IF name = "appid" /\ value[j] = "%2F" THEN "/"
                                                               ELSE value[j]
                  /\ name = "dual" => (enable_dual <=> IsPrefix(<<"true">>, value))
    /\ \A name \in Names \ Range(Text(query)) :
         /\ arguments[name] = NotGiven
         /\ name = "dual" => ~enable_dual

\* The jitter buffer starts with the initial size of the last line that sets
\* it, or with 120 if that is above 8000 - but with whatever was read when a
\* line that is no setting ended the reading before the check; every other
\* number is that of the last line read, and a flag stays raised.
SettingsAsWritten ==
  LET read == {i \in DOMAIN file : \A j \in 1..i : ~Malformed(file[j])}
      Lines(key) == {i \in read : Sets(file[i], key)}
      Latest(key) == CHOOSE i \in Lines(key) : \A j \in Lines(key) : j <= i
      Written(key) == IF Lines(key) = {} THEN Default[key]
                      ELSE Stored(key, Atoi(ValueOf(file[Latest(key)])))
      initial == callConfig["jb-initial-size-ms"]
  IN  /\ initial = IF read = DOMAIN file /\ Written("jb-initial-size-ms") > 8000
                   THEN 120 ELSE Written("jb-initial-size-ms")
      /\ \A key \in Numeric \ {"jb-initial-size-ms"} :
           callConfig[key] = Written(key)
      /\ \A key \in Flags :
           callConfig[key] <=> \E i \in Lines(key) : ValueOf(file[i]) = <<"yes">>

\* Whoever has s->agora_ctx has a whole session: what the frame handlers and
\* the threads use is there, for a dual stream the low thread and its codecs.
HandleIsWhole ==
  phase = "open" /\ agora_ctx
    => /\ held = Resources \ (IF enable_dual THEN {} ELSE {"lowThread", "codecs"})
       /\ joinable = held \cap Threads
       /\ isRunning

\* No context is deleted while one of its std::threads is joinable, which
\* would end the process (std::terminate): neither by an early return of
\* agora_init nor by agora_disconnect.
ContextDeleted == /\ "context" \in held
                  /\ "context" \notin held'
                  /\ <<published, "context">> \notin lost'
NoJoinableThreadDestroyed == [][ContextDeleted => joinable = {}]_vars

\* What a stream may fail to give back depends on what failed: nothing if
\* nothing did or no service was asked for, the service alone if the channel
\* was never joined, no thread if the threads were not yet started.
LostBy(n)   == {r \in Resources : <<n, r>> \in lost}
FailedIn(n) == {c \in Calls : <<n, c>> \in failures}
LossesByFailure ==
  \A n \in Streams :
    /\ (FailedIn(n) \subseteq BeforeService => LostBy(n) = {})
    /\ (FailedIn(n) \cap BeforeChannel # {} => LostBy(n) = {"service"})
    /\ (FailedIn(n) \cap BeforeThreads # {} => LostBy(n) \cap Threads = {})

\* Threads run on for a stream that could not be opened only if the codecs of
\* its low stream or its audio failed, and nothing else strands them.
OrphansOnlyAfterStart ==
  \A n \in Streams : (\E t \in Threads : <<n, t>> \in orphans)
                       <=> FailedIn(n) \cap WithThreads # {}

\* The call that failed decides all that a stream leaves behind.
LedgerByFailure == LossesByFailure /\ OrphansOnlyAfterStart

\* "disconnect from agora. Deallocate agora context" (ngx_agora_helper.h:16):
\* a session that ngx_agora_disconnect closes has its context deleted.
DisconnectDeallocates ==
  [][phase = "closeAudio" /\ phase' = "closed"
       => <<published, "context">> \notin lost']_vars
=============================================================================
