# A TLA+ model of the RTMP Gateway

The RTMP Gateway is nginx with nginx-rtmp-module, patched so that the record
module, instead of writing a file, hands every published stream to the Agora
SDK. This directory models its own code: `ngx_agora_helper.c` (on the nginx side)
and `libagorac/` (a C++ library around the SDK). The modules are checked with TLC
and the core ones are proved about with TLAPS.

1. [The system](#the-system)  2. [Modules](#modules)  3. [Runs](#runs)
4. [Proofs](#proofs)  5. [What disagrees](#what-disagrees)
6. [Limits](#limits)  7. [Plan](#plan)

## The system

A publisher's stream is a *session*. nginx is single threaded: everything it does
for all sessions happens on one event loop. Each session has two or three worker
threads of its own.

| component | state | operations | talks to |
|---|---|---|---|
| glue in the record module (`patches/nginx-rtmp-module.patch`) | `s->agora_ctx` | record_init, record_write_frame, record_stop | nginx side |
| lifecycle (`ngx_agora_init`, `agora_init`, `agora_init_audio`, `ngx_agora_disconnect`, `agora_disconnect`) | what is allocated, started and connected | open in a dozen stages, close | SDK, codecs, threads |
| running session (`agorac.cpp`) | `agora_context_t`: flags, sizes, timestamps, three queues | agora_send_video, agora_send_audio, agora_disconnect; VideoThreadHandlerHigh, VideoThreadHandlerLow, AudioThreadHandler | shared memory, unlocked but for the queues |
| work queues (`workqueue.h`) | std::queue, mutex, condition variable | add, get, top, clear, waitForWork, size | all threads of a session |
| jitter-buffer policy (`utilities.cpp`, `agorac.cpp:413-452`) | jb_size, reBufferingCount, lastBufferingTime | CheckAndFillInVideoJb, WaitForBuffering, ResizeBuffer | high thread |
| frame rate and low-stream decimation (`agorac.cpp:337-398`, `273-300`) | fps, predictedFps, two 8-bit counters | UpdatePredictedFps, doSendLowVideo | nginx, high and low threads |
| audio transcoder (`ngx_agora_helper.c:432-861`) | AAC header, pending buffer, remaining bytes | ngx_agora_send_audio, get_next_packet, flush | agora_send_audio |
| AVCC to Annex B (`ngx_agora_helper.c:62-428`) | none (walks a buffer chain) | avcc_to_annexb, append_sps_pps | agora_send_video |
| stream arguments (`ngx_agora_helper.c:863-1076, 1131-1163`) | none | get_arg_value | lifecycle |
| configuration (`localconfig.cpp`) | ten values | loadConfig | lifecycle, jitter buffer |
| log (`agoralog.cpp`) | a file, a mutex | logMessage, CheckAndRollLogFile | all sessions |
| low-stream codecs (`agoraencoder.cpp`, `agoradecoder.cpp`) | libav contexts | decode, encode | low thread |
| `userobserver.cpp` | none | none: it is never constructed | none |

What is hard here:

- **Unlocked sharing.** isRunning, isJbBuffering, the sizes and timestamps are plain
  members read and written by two or three threads; only the queues have a lock,
  and their `size()` does not take it.
- **Tear-down without join.** agora_disconnect puts a *finished work* ("pill") in
  each queue, sleeps two seconds and frees the context, whatever the workers do.
- **Threads that start early.** They run before agora_init has initialised what
  they read.
- **Failure half-way.** agora_init can fail in a dozen places, after some of which
  threads are running and a channel is joined.
- **Time.** When a buffer refills and how long a worker sleeps depend on
  timestamps, queue length, frame rate and clock together.

`PROJECT.json` lists these as hazards, each at its line, with the property that
covers it or the reason why none does yet. What makes each component correct:
queues lose, duplicate and reorder nothing and leave nobody asleep beside a work;
a session sends each frame once and in order until it is stopped, its threads end,
and none of them meets memory that is gone; the buffer size grows by its rules
only; a handle always stands for a whole session that runs with what its publisher
and the configuration say, and what a failure costs is known; a frame comes out
of its conversion as the decoder needs it; samples are neither lost nor repeated,
and no backlog of them builds up; the low stream gets its share of the frames.

## Modules

| module | models | state and actions |
|---|---|---|
| `WorkFifo` | the interface of a queue | atomic Add, Take, Clear on a sequence |
| `WorkQueue` | `workqueue.h` at the grain of the mutex and the condition variable | one action per lock, read, write, notification and release of add, clear, waitForWork, get and top. A push or a pop is a read of the queue and a write of it, so that an update lost for want of the lock would show. Refines `WorkFifo` |
| `MediaRelay` | what a session promises | frames accepted and sent of each stream, and a derived stream that takes the source's frames in turn and sends each or leaves it out, but no key frame while the session runs; Accept, Send, Derive, LeaveOut, Stop. No threads, queues or time |
| `AgoraSession` | one session from the start of its threads to the `delete` | `mainPc` is the nginx thread's place from agora_init to agora_disconnect, `pc[t]` each worker's place in its loop. `ctx` is *live*, *torn* (tear-down has set members to null) or *freed*; a worker that steps where its context is missing goes to `"ub"`. Queue operations are atomic, as `WorkQueue` shows they may be. Refines `MediaRelay` |
| `JitterBuffer` | the policy, with exact milliseconds, frames and 16-bit jb_size | one action per branch of CheckAndFillInVideoJb, WaitForBuffering and ResizeBuffer, and the time between |
| `LowStream` | frame counting, UpdatePredictedFps, the decimation test | the nginx, high and low threads on the shared counters; every increment is a read and a write, the two tests of the clock are two steps |
| `AnnexB` | avcc_to_annexb and what it calls | operators on chains of buffers and bytes, with the output's capacity. A chain is the sequence of what is not read of each buffer; the loops are recursive functions |
| `VideoPath` | ngx_agora_send_video around it | receive a header or a message cut into chunks, convert, hand over; what a decoder reads in the output, as the reference |
| `AudioPath` | ngx_agora_send_audio, flush, repacketiser, the audio thread's pacing | samples by number, in units of 64; milliseconds until the next message and the thread's next awakening |
| `LowCodecs` | decode, encode, onResolutionChange, scaleFrame | the picture, the source size the encoder believes in, the size of the scale context |
| `MediaPaths` | record_write_frame's choice | composes the three ways above; a behaviour follows one of them, as they share no state |
| `StreamArguments` | get_arg_value and what ngx_agora_init does with values | operators on texts of pieces |
| `LocalConfig` | loadConfig | operators on lines of pieces, with the width of each setting |
| `SessionLifecycle` | opening and closing | first the arguments and the configuration, then the stages of opening as a table (what each acquires, leaves behind and gives back if it fails), and a ledger: held, lost, orphaned threads |
| `MC*` | instances for TLC | constants only |
| `WorkQueueProofs`, `JitterBufferProofs`, `SessionLifecycleProofs`, `LowStreamProofs` | theorems about the module of that name | see [Proofs](#proofs) |
| `AgoraSessionProofs`, `AgoraTimingProofs` | theorems about `AgoraSession`: tear-down and frames; time | |
| `VideoProofs` | theorems about `VideoPath` and the operators of `AnnexB` | |
| `MediaProofs` | theorems about `MediaPaths`, with those of `VideoProofs` | |

`AgoraSession` and `JitterBuffer` model the same buffering from two sides. The
first has all the threads and leaves the time tests of the policy open (they may
go either way); the second has exact times and one thread, with the nginx thread
reduced to "a frame arrives". `LowStream` is a third: it has the frame rate and the
counters, which the other two leave open, and no pacing. `SessionLifecycle` treats the running session as one
stage, `AgoraSession` treats opening as done.

Abstractions in `AgoraSession`: a frame is its number and timestamp; what it
contains, and the SDK, codecs and counters, are left out. A tick is one nap
(10 ms), and time passes only when no thread can step, that is, a thread's step
is short against a nap. The mistakes a slow thread could make in two seconds of
not being scheduled are outside the model. `size()` without the lock returns any
number while the nginx thread is about to push. A timestamp difference counts in
ticks; `Forever` caps sleeps longer than anything the properties tell apart. The
negative products in GetNextSamplingPoint, which the code computes unsigned, end
in a sleep that returns at once either way. Which frames the low thread encodes depends
on counters that three threads share without a lock (`LowStream` has them); here it
may leave out any frame but those in `KeyFrames`, as `doSendLowVideo` does
(`agorac.cpp:273-280`). A WaitForBuffering that begins before agora_init has set
predictedFps may see its buffer as full or as empty until it ends
(`timePerFrameSet`). `handled` counts the frames that a worker is through with, `lowSent`
those of the low stream that were sent.

In `AnnexB` a NAL unit has a header byte and a byte or two of content, so that
every position of a chunk's end, of a lost byte and of the output's end against
the unit's parts occurs. In `StreamArguments` and `LocalConfig` a text is a
sequence of pieces: a name, a separator, or any run of characters without one.

## Runs

All constants named as bounds of the model in the modules are bounds on how often
or how long, not on what may happen.

| run | shows | instance |
|---|---|---|
| `work_queue` | type, NoLostUpdate, NoLostWakeup, NullOnlyAfterClear, PeekedIsNext, refinement of `WorkFifo`, EventuallyDrained | 2 producers, one of which clears, 3 works, spurious wake-ups: two works queued while a third is pushed, taken or cleared |
| `session` | NoFrameLost, LowFollowsHigh, HighWorkNeverNull, PacedByFrames, OutlivedBySleepOnly, TornDownOverSleepers, refinement of `MediaRelay` (RelaySpec) | 2 video frames, the first a key frame, 1 audio frame, with and without the low stream, gaps shorter than and as long as the grace period of 3, pill timestamp 0 or far away, a buffer size from 3 to 6, which the two frames and the pill just fill and an unlocked `size()` may exceed |
| `session_grace` | WorkersEndWithinGrace, AudioHeldWhileBuffering | 2 audio frames so that two could slip through one buffering; gaps of 0 and 1, two naps shorter than the grace period of 3; pill timestamp 0; a buffer size from 4 to 8, so that sleeps come at full length and five per cent shorter |
| `session_live` | FramesEventuallySent, WorkersStop | fair scheduling, short gaps, pill timestamp far away |
| `session_pill` | *violation* of SleepsUntilNextFrame | gaps of 1, a grace period of 2, pill timestamp 0 or far away |
| `jitter_buffer` | BelowTwiceMax, GrowsOncePerRefill, BufferingEnds | sizes 20 and 30 to a maximum of 100, which is hit exactly by neither; 5 refills |
| `jb_max` | *violation* of WithinMax | the shipped sizes (rtmpg.conf and LocalConfig's defaults) with 200 iterations shortened to 2 |
| `jb_wraps` | *violation* of NeverShrinks | the largest jb-max-size-ms that sixteen bits hold and the largest initial size that LocalConfig admits (8000), otherwise as jb_max |
| `lifecycle` | ArgumentsAsGiven, SettingsAsWritten, HandleIsWhole, LedgerByFailure, NoJoinableThreadDestroyed | two streams one after the other, any call failing; 6 queries (other orders, empty values, names inside values) and 7 files (sizes too large, negative, beyond sixteen bits, malformed lines before and after a size) |
| `disconnect_fails` | *violation* of DisconnectDeallocates | as lifecycle |
| `media_paths` | SamplesConserved, BacklogSettles, ChunksDoNotMatter, FramesConverted, SlicesConverted, PicturesArrive, ScaleFitsPicture | audio: the code's sizes (16 and 15 units of 64 samples), 75 messages in 1600 ms, that is 48 kHz, a buffer of 60 ms, audio held 0 or 200 ms at the start, one packet refused or undecodable. Video: every frame of up to 3 of the NAL units that the conversion tells apart, chunks of 1, 3 and 100 bytes, up to two bytes missing, the header whole or cut, an output of 28 bytes. Pictures of three sizes, one the encoder's own |
| `low_stream` | PredictionIsRate, LowWithinShare | gaps of 0 and half a second, at most 2 frames before the second ends and 1 in a queue, counters that wrap after 3 |

Two frames are enough for the session: pacing looks one frame ahead, and each
queue can be empty, hold one work, or hold a frame and the pill. The grace period is
three naps in `session` and `session_grace`, as a worker may need one tick to end a nap and the
tick of its gap to wake up, and has to be through before the last tick is over: with a gap
one nap shorter than the period TLC finds the context freed over a worker about
to step.

Fifteen messages are exactly sixteen Opus packets and 320 ms, so the audio's
behaviour is a cycle; 75 messages are five of these, more than any backlog holds,
so that no two samples or packets on their way have one number. An output of 28 bytes is less than
some frames need and more than others, so that each place where the code tests
the room is met with and without it. A counter that wraps after 3 wraps and is reset
in the same behaviours. The two properties leave the second in which it wraps out:
the code's eight bits hold up to 255 frames.

Fairness. A thread that can step eventually does (the operating system schedules
every thread), and time passes; nobody has to publish, send or disconnect. In
`WorkQueue` an operation once called finishes and the consumer's loop goes on;
producers need not add. In `JitterBuffer` the thread and the clock go on, frames
need not arrive: BufferingEnds holds because the iterations are counted. In
`MediaPaths` audio messages come as their timestamps say, the audio thread runs and the clock
goes on: BacklogSettles is about a publisher that does not stop. `LowStream` and
`SessionLifecycle` claim no liveness and state no fairness.
Deadlock is checked in every run; `Ended` and `StopWithoutContext` say where the
system may rest.

## Proofs

Everything below is checked by `tlapm` for every value of the constants that the
modules' named assumptions admit; a theorem with a further hypothesis states it.
The inductive invariants named here (IInv, RInv, Slipping, TInv, Closing, LInv,
AInv, VInv, CInv, PInv, RateKept, CountsKept) hold in TLC's instances of the runs, too; all but
TInv's *Stamped*, which speaks of an infinite sequence of timestamps. None of the theorems
about `AgoraSession` and `JitterBuffer` has a further hypothesis.

`WorkQueueProofs`: the type invariant, NoLostUpdate, NoLostWakeup,
NullOnlyAfterClear, PeekedIsNext and the refinement of `WorkFifo`, for any set of
producers and clearers. The argument: the mutex's owner is the one thread at a
critical label (OneInside), hence what a thread has read is still there when it
writes it back; a consumer that blocks found the queue empty in the same step, so
a later work has a producer that has yet to notify; works are in increasing order
in the queue and above the one taken last, which is what the refinement needs.

`AgoraSessionProofs`: type correctness, HighWorkNeverNull and
TornDownOverSleepers, for any number of frames, any gaps, sizes and pill
timestamps, and any grace period of at least two naps (`GraceAssumption`; the
code's two seconds are two hundred). Neither safety property is inductive. IInv
adds:

- *Flags*, *Loops*: isRunning and ctx follow the nginx thread; each worker stays
  among its own labels; a nap lasts at most one tick.
- *Inputs*, *NoNullWork*: nothing null is put into videoJB, and only the high
  thread takes from it, so what waitForWork promised get still finds.
- *ToldSeesFinish*: a worker that has been sent the pill has ended, holds it or
  has it in its queue. So it cannot block in waitForWork again. For the low thread
  this survives the high thread's further additions behind the pill.
- *Settling*: isRunning is false in the grace period, so naps end and none begins.
  After one tick no worker naps; a second tick passes only when all are blocked,
  and the only place left to block is the sleep between two frames (or the end).
- *NoneStray*: hence no worker uses a null work or a nulled member before the
  context is freed.

The one thing this leaves open is a worker that sleeps past the grace period. It
can: see session_pill. `AgoraTimingProofs` says which sleeps do.

In the same module: NoFrameLost, LowFollowsHigh and the refinement of `MediaRelay`
(RelaySpec). NoFrameLost says what is in flight;
to keep it, RInv says where: in the queue of a paced worker are the frames
from the last one it has taken to the last one submitted (*PacedInTurn*), and the
pill is behind them exactly from when agora_disconnect has added it until the
worker has taken it. *LowBehind* says the same of the low queue up to what the high
thread has passed on, while the session runs; once it is stopped the queue may be
cleared with the high thread still adding, and what is left is that frames increase
and are above the last one the low thread is through with. That is what makes each frame
that it sends or leaves out a step of the derived stream.

`AgoraTimingProofs`:

- AudioHeldWhileBuffering. *Slipping* adds where the audio thread
  is when a frame has slipped through: past the send, unless the flag has been
  reset since.
- PacedByFrames: a worker sleeps longer than an interval between two frames only once
  the session is stopped and the frame it has sent is the last. Nothing is assumed of
  timestamps: the frames' may go back or leap, the pill's is any number. The sleep is
  computed from two timestamps of different age, so TInv follows each of them: there is
  one sequence of timestamps, each a gap from the one before, that the frames in
  the queue, the one in hand and the one sent last are all stamped from (*Stamped*). If
  the pill is next, it is all that is in the queue (FinishIsLast), so whoever reads its
  timestamp has the last frame in hand (*SleepBound*).
- OutlivedBySleepOnly: a worker that outlives its context had computed a sleep as long
  as the grace period, but for a tick. *Closing*: a stopped session's naps are over
  after the first tick; from the second on every worker has ended, wakes up a tick
  before the nginx thread does, or is in such a sleep, because no timer exceeds what was
  computed (*DueWithin*).

Together: with intervals at least two naps shorter than the grace period, only a worker
that paces its last frame by the pill's timestamp can outlive the context.

WorkersEndWithinGrace is stronger: it says that none does. It holds only if that timestamp
happens to be zero, which nothing in the code makes it. It stays with TLC, with this
premise in session_grace's instance. SleepsUntilNextFrame, PacedByFrames without the
exception for the last frame, fails without the premise, as session_pill shows.

`SessionLifecycleProofs`: type correctness, HandleIsWhole, LedgerByFailure,
NoJoinableThreadDestroyed, ArgumentsAsGiven and SettingsAsWritten, for any number of streams,
any queries and any configuration files. LInv says what is held at each stage of
opening as a table (`From`: the stage that acquires a thing; `Holds`: a stream at
stage n holds what the stages before n acquire) and that the ledger speaks of
closed streams only. The table is proved against the stages row by row.

ArgumentsAsGiven and SettingsAsWritten are about loops over texts: a fold over the
lines of the file, a search for a name in the query. Neither yields to an induction
theorem (those take operators), so the induction is done by hand: a set of numbers
has a least element, from the well-foundedness of the naturals (NatLessThanWellFounded,
WFMin), and the function that a fold or a recursive definition chooses exists
because it can be built up one place at a time (FoldExists). Then for each setting
the value after a line is that of the last line before that sets it; and
the first place of a name in the text is that of its argument, if no earlier
argument holds it. `InputAssumption` says what texts are made of: an argument's
value has no "&", a line is a sequence of pieces. PInv keeps what was parsed until the
stream closes.

`LowStreamProofs`: type correctness, PredictionIsRate and LowWithinShare, for any
length of the second, range of the counters and gaps. *RateKept*: fps is the
number of frames modulo the counter's range, and the sum of intervals is their
span, wherever the nginx thread is between its two looks at the clock. *CountsKept*:
a counter, and what a thread has read of it, is the number of frames sent, unless
the ghost says that the reset was crossed. The fraction is in lowest terms, which
needs that a bounded set of numbers has a greatest element (GreatestElement, from
the well-foundedness of the naturals).

`MediaProofs` and `VideoProofs`, of `MediaPaths`: the type invariant, SamplesConserved,
ChunksDoNotMatter, PicturesArrive, FramesConverted, SlicesConverted and
ScaleFitsPicture.

- Audio. SamplesConserved (and with it the type invariant) needs `Divides`: what an
  AAC packet has more than an Opus packet divides an Opus packet. 1024 - 960 = 64
  does, 960 being 15 * 64. The remainder then fills a packet exactly when it is
  flushed (*Aligned*, RoomForExcess, EncodeCuts); flush_encode_opus sets
  remaining_bytes to zero whatever it is, so that for sizes that do not divide
  samples would be lost. *AInv* counts packet by packet what comes after the last
  sample heard.
- Video. ngx_custom_copy walks over two cursors; CopySpec says what it does of the
  chain's bytes alone: it yields the next n and leaves the others, if there are so many
  and the chain is not at its end, and it never rests at a buffer's end (*Tight*). From
  that: LoopEnds, each pass of avcc_to_annexb's loop takes a byte or fails, whatever
  lengths a message claims; the output stays within the static buffer (*Room*,
  ConversionType), whatever a header or a message contains, which is what the type
  invariant says of it; and ConversionAlike, chains of the same bytes are converted to
  the same. For ChunksDoNotMatter a message is shown to be such a chain, in one
  chunk or in many (ChainTight, MessageTight), and VInv adds that what was handed on
  belongs to the message and the header that are still there.
- PicturesArrive is shown unit by unit. After k units of a frame the loop has left the
  bytes of the others, has written no more than what a decoder should find for the k
  weighs with a long start code each, and its flags tell what was among the k
  (*Through*, *FlagsTell*). An insertion, whole, partial or none, weighs no more than the
  sets do (AnnounceAppended, for a header cut short anywhere), so that AppendNal always
  finds room (PassThrough); and a unit of one byte fails only at the message's end.
  `VideoAssumption` says
  that a NAL unit's type has five bits, sizes fit their length field and a chunk is not empty.
- FramesConverted and SlicesConverted. What a decoder reads is first described by what
  is added at the end: behind an output that ends in a unit (*Sound*), a start code and a
  unit without a zero byte (*Solid*) are one start code more, wherever the long code's
  first zero goes, and one unit more (StartCodeAt, MoreStarts, UnitMore). The delimiter
  and each parameter set are such units, also in a partial insertion (AudAppended,
  SpsPpsAppended), and they are not the publisher's own (*Foreign*); what is inserted is
  what the decoder wants because the flags tell of the units before (FlagsDue). The
  loop's invariant is then *Reading*: the output reads as what is wanted of the first k
  units, in full if the header is whole and there is room, else as the publisher's own of
  them. It is stated with the bytes that the message lost behind those that are left, so
  that it also shows that only a message that lost whole units is converted at all
  (CopyLosing, ConvertedWhole), and what of the frame that is (ConvertedReads). That a
  unit holds no zero is how the model spells a unit's bytes (`Unit`); what matters
  of it is that no unit holds a start code or ends in a zero, which H.264 guarantees.
- The low stream. CInv adds to ScaleFitsPicture that the context is for what the encoder
  takes the source to be between two frames, too.

`JitterBufferProofs`: type correctness, BelowTwiceMax and GrowsOncePerRefill for all
configurations. A size is doubled only below the maximum, so the double is below twice
the maximum, and the sixteen bits can only make it less.

Model-checked only: WorkersEndWithinGrace, for the premise above; the liveness properties (EventuallyDrained, FramesEventuallySent,
WorkersStop, BufferingEnds, BacklogSettles), as fairness and ENABLED are beyond
the prover.

## What disagrees

- `session_pill`. The pill is a Work with a null buffer, and Work's constructor
  then returns early, leaving its timestamp uninitialised (`context.h:89`). A
  worker that has the last frame in hand when the pill is next in its queue
  computes its sleep from it. If the garbage is large the worker sleeps past the
  two seconds and wakes up in a freed context.
- `jb_max`. jb_size is compared with the maximum before it is doubled
  (`agorac.cpp:448`), so it passes "max buffer size in ms". BelowTwiceMax says by
  how much.
- `jb_wraps`. jb_size has sixteen bits and loadConfig does not check
  jb-max-size-ms. With a maximum of 65535 a size of 64000 "doubles" to 62464
  (`utilities.cpp:127`), and the log says that it increased.
- `disconnect_fails`. If the SDK's disconnect() reports an error agora_disconnect
  returns before it deallocates anything (`agorac.cpp:588`), and its caller frees
  the only pointer to the context.

One more is too plain for a run: the comment says that the buffer is refilled after "3
seconds" without a frame (`agorac.cpp:436`), the code tests 3 * predictedFps milliseconds
(`agorac.cpp:438`), that is 45 ms at 15 fps. `JitterBuffer` has the code's threshold.

`LedgerByFailure` holds, and says what the code does
lose: the service whenever joining fails, the whole connection if a sender or
track cannot be made, running threads if a codec or the audio fails.

Some properties hold under a premise that says where the code's reading stops being
the obvious one:

- ArgumentsAsGiven: an argument is found by its name anywhere in the text, so a name
  inside an earlier value hides the argument or invents one. The property says nothing
  of such a query.
- SettingsAsWritten: a line that is no setting ends the reading, and with it the
  check of the initial size; numbers wrap at sixteen bits.
- PicturesArrive: a frame that ends with a NAL unit of a single byte is dropped, as
  ngx_custom_copy cannot tell it from a truncated one.
- ScaleFitsPicture: of a blank picture it says only that there is no context; scaleFrame
  passes the null pointer on all the same.
- LowWithinShare, PredictionIsRate: a counter of eight bits wraps, and that second is left
  out; an increment that straddles the reset undoes it
  for a second; UpdatePredictedFps misses a second that ends between its look at
  the clock and its caller's.

## Limits

Not modelled, or not as the code has it:

- The SDK, libav and opus are external: a call succeeds or fails, without state.
- The record module calls record_init once per publish; that is guarded in
  nginx-rtmp-module, outside this repository, and taken from there.
- One session at a time. Sessions share the log and the event loop only; that the
  two seconds of one stop all the others is listed as a hazard.
- A torn or cached read of a plain bool or integer: these are single words, the
  loops that test them call functions the compiler cannot see through, so each
  unlocked access is one step that reads memory. The unlocked `size()` is the
  exception, as a read of a container being changed. GetNextSamplingPoint's top()
  and size() are one step; a push between them can only decide whether the sleep is
  five per cent shorter.
- A first frame that starts at a large timestamp: gaps are drawn from `Gaps`.
- Audio: an AAC packet always has 1024 samples (not HE-AAC's 2048), at 48 kHz. The
  packet pending and the samples remaining when the stream ends are never sent; the
  model, like the code, has no flush there. The ADTS header, the sample format
  conversion, the volume and the dump file are left out.
- opus_encode does not fail. Its arguments are constants of the code (960 samples of 16
  bits at 48 kHz, 1000 bytes for the output), and it refuses only bad ones; as called the
  branch cannot be reached. If it were, encode_opus would hand a negative length to
  agora_send_audio.
- SamplesConserved says nothing of timestamps. A packet is stamped with the message that
  pushes it out, one message after its own; `AudioPath` paces by that stamp.
- The audio backlog rises to jb_size and is held there by the five per cent that a
  full buffer speeds the thread up; BacklogSettles is about that height, not about
  zero.
- Video: an AVFrame that leaks when the decoder fails (memory is not modelled). A
  frame of delimiters and parameter sets only gives an empty output that is sent all
  the same. sws_scale without a context may refuse or take the process down: after
  the latter `LowCodecs` rests (*Crashed*).
- The low stream: no liveness is claimed, because there is none. A low thread that
  meets each reset just so, or a rate below a frame in a second, leaves it with key
  frames only. `Tick` excludes that the prediction is missed twice in a row.
- Arguments: values longer than their buffers and the parsing of their numbers; `jb` is
  read and never used. Configuration: lines of 1024 characters or more (see the
  hazards); a file that cannot be opened is an empty one.
- The log: one mutex and one worker process order its steps, what is left is the
  exit code of cp, which the code ignores. The connection observer is never
  constructed. Build and packaging are no behaviour. These are the components
  marked not_modelled in `PROJECT.json`.

## Plan

Done: the queues, the running session with its tear-down proof and its refinement of
`MediaRelay`, the jitter buffer, the lifecycle with arguments and configuration, the
frame rate and the low stream, the ways of audio and video; and the theorems on
every component. Left, in this order:

1. `Gateway`: several sessions on one event loop, composed from `MediaRelay`, with
   the log they share; what the two seconds of one tear-down do to the others.
2. A first frame with a large timestamp, which is paced against zero
   (`utilities.cpp:38`): a constant of its own in `AgoraSession`.
