----------------------------- MODULE AudioPath ------------------------------
(***************************************************************************)
(* The way of the audio: ngx_agora_send_audio decodes the AAC packets of   *)
(* the publisher and cuts the samples into Opus packets, and the audio     *)
(* thread of the session paces these into the channel.                     *)
(*                                                                         *)
(* An AAC packet holds 1024 samples and an Opus packet 960.  So every now  *)
(* and then one message yields two packets, with one timestamp; and the    *)
(* thread paces by timestamps.  Whether it keeps up with the publisher is  *)
(* decided by the two together, which is why they are in one module.       *)
(*                                                                         *)
(* Samples are counted in units of 64, the largest that both sizes are     *)
(* multiples of.  Timestamps and samples are numbered modulo a period.     *)
(***************************************************************************)
EXTENDS Integers, Sequences

CONSTANTS
  Input,        \* INPUT_SAMPLE_COUNT: samples of an AAC packet
  Opus,         \* OPUS_SAMPLE_COUNT: samples of an Opus packet
  Messages,     \* bound of the model: messages are numbered modulo this ...
  Period,       \* ... and that many take this long, in milliseconds
  JbSize,       \* jb_size, in milliseconds
  Holds,        \* how long the video may hold the audio at the start
  MaxBacklog,   \* bound of the model: audioJB takes this many packets
  MaxFailures   \* bound of the model: packets that cannot be used

ASSUME SizesAssumption == /\ Opus \in Nat \ {0}
                          /\ Input \in (Opus + 1)..(2 * Opus - 1)
ASSUME PeriodAssumption == /\ Messages \in Nat \ {0} /\ Period \in Nat \ {0}
                           /\ JbSize \in Nat /\ Holds \subseteq Nat
                           /\ MaxBacklog \in Nat /\ MaxFailures \in Nat

VARIABLES
  message,        \* the number of the message to arrive next
  pending,        \* audio_ctx->b holds the packet of the message before it
  remaining,      \* remaining_bytes: samples decoded and not yet encoded
  decoded,        \* ghost: the last sample decoded
  audioJB,        \* Opus packets on the way to the audio thread
  lastTimestamp,  \* lastAudioTimestamp
  heard,          \* ghost: the last sample sent to the channel
  untilMessage,   \* milliseconds until the message arrives
  untilWake,      \* milliseconds until the audio thread wakes up
  failures        \* packets that could not be decoded or were refused

audioVars == <<message, pending, remaining, decoded, audioJB, lastTimestamp,
               heard, untilMessage, untilWake, failures>>

Samples == Messages * Input
Stamp(n) == (n * Period) \div Messages
Since(later, earlier) == (later - earlier) % Period

Packet == [timestamp : 0..(Period - 1), samples : Seq(0..(Samples - 1))]

AudioInit == /\ message = 0
             /\ pending = FALSE
             /\ remaining = <<>>
             /\ decoded = 0
             /\ audioJB = <<>>
             /\ lastTimestamp = 0
             /\ heard = 0
             /\ untilMessage = 0
             /\ untilWake \in Holds
             /\ failures = 0

-----------------------------------------------------------------------------
(* The nginx thread: ngx_agora_send_audio.                                 *)

\* get_next_packet: what remains and as much of the input as is missing.
NextPacket(rest, in) ==
  LET free == Opus - Len(rest)
  IN  [out  |-> rest \o SubSeq(in, 1, free),
       left |-> SubSeq(in, free + 1, Len(in))]

\* Mutant of Encode: what remains is never flushed.
EncodeUnflushed(rest, in) ==
  LET next == NextPacket(rest, in)
  IN  [packets |-> <<next.out>>, left |-> next.left]

\* Mutant of Encode: the remainder is flushed one unit too late.
EncodeFlushedLate(rest, in) ==
  LET next == NextPacket(rest, in)
  IN  IF Len(next.left) > Opus
      THEN [packets |-> <<next.out, SubSeq(next.left, 1, Opus)>>,
            left    |-> <<>>]
      ELSE [packets |-> <<next.out>>, left |-> next.left]

\* encode_opus and flush_encode_opus: a remainder that fills a packet goes
\* out with it, and the count of what remains is set to zero.
Encode(rest, in) ==
  LET next == NextPacket(rest, in)
  IN  IF Len(next.left) >= Opus
      THEN [packets |-> <<next.out, SubSeq(next.left, 1, Opus)>>,
            left    |-> <<>>]
      ELSE [packets |-> <<next.out>>, left |-> next.left]

\* decode_acc_audio, for the packet that the previous message left in b: all
\* that it yields is stamped with the timestamp of the current message.
Decode ==
  LET frame == [i \in 1..Input |-> (decoded + i) % Samples]
      coded == Encode(remaining, frame)
  IN  /\ remaining' = coded.left
      /\ decoded' = (decoded + Input) % Samples
      /\ audioJB' = audioJB \o
           [i \in 1..Len(coded.packets) |->
              [timestamp |-> Stamp(message), samples |-> coded.packets[i]]]
      /\ UNCHANGED failures

\* The decoder rejects the packet: it is dropped and the remainder kept.
DecodeFails == /\ failures < MaxFailures
               /\ failures' = failures + 1
               /\ UNCHANGED <<remaining, decoded, audioJB>>

NextMessage == /\ message' = (message + 1) % Messages
               /\ untilMessage' = Since(Stamp(message'), Stamp(message))

\* ngx_flush_audio: b is empty again, whether its packet could be decoded or
\* not.
FlushAudio == IF pending THEN Decode \/ DecodeFails
                         ELSE UNCHANGED <<remaining, decoded, audioJB, failures>>

\* ngx_agora_send_audio: what b holds is decoded, then b takes the packet.
SendAudio ==
  /\ untilMessage = 0
  /\ Len(audioJB) + 1 < MaxBacklog
  /\ FlushAudio
  /\ pending' = TRUE
  /\ NextMessage
  /\ UNCHANGED <<lastTimestamp, heard, untilWake>>

\* A message that is no AAC packet, or too long for b: what b holds stays.
RefuseAudio ==
  /\ untilMessage = 0
  /\ failures < MaxFailures
  /\ failures' = failures + 1
  /\ NextMessage
  /\ UNCHANGED <<pending, remaining, decoded, audioJB, lastTimestamp, heard,
                 untilWake>>

-----------------------------------------------------------------------------
(* The audio thread: AudioThreadHandler and GetNextSamplingPoint.          *)

\* Mutant of SleepTime: a full buffer does not speed the thread up.
SleepTimeSteady(packet, rest) ==
  LET nextTs    == IF rest = <<>> THEN packet.timestamp
                                  ELSE Head(rest).timestamp
      currentTs == IF packet.timestamp = nextTs THEN lastTimestamp
                                                ELSE packet.timestamp
  IN  Since(nextTs, currentTs)

\* The interval to the next packet, or from the last if the next is missing
\* or has the same timestamp; with a full buffer five per cent less.
SleepTime(packet, rest) ==
  LET nextTs    == IF rest = <<>> THEN packet.timestamp
                                  ELSE Head(rest).timestamp
      currentTs == IF packet.timestamp = nextTs THEN lastTimestamp
                                                ELSE packet.timestamp
      interval  == Since(nextTs, currentTs)
  IN  IF Len(rest) * interval > JbSize THEN (interval * 95) \div 100
                                       ELSE interval

PacePacket ==
  /\ untilWake = 0
  /\ audioJB # <<>>
  /\ untilWake' = SleepTime(Head(audioJB), Tail(audioJB))
  /\ lastTimestamp' = Head(audioJB).timestamp
  /\ heard' = Head(audioJB).samples[Len(Head(audioJB).samples)]
  /\ audioJB' = Tail(audioJB)
  /\ UNCHANGED <<message, pending, remaining, decoded, untilMessage, failures>>

\* Time passes up to the next message or the next awakening, whichever is
\* first; a thread without a packet waits for the message.
Less(time, step) == IF time > step THEN time - step ELSE 0
AudioTick ==
  /\ untilMessage > 0 \/ Len(audioJB) + 1 >= MaxBacklog
  /\ untilWake > 0 \/ audioJB = <<>>
  /\ \E step \in {untilMessage, untilWake} \ {0} :
       /\ \A time \in {untilMessage, untilWake} \ {0} : step <= time
       /\ untilMessage' = Less(untilMessage, step)
       /\ untilWake' = Less(untilWake, step)
  /\ UNCHANGED <<message, pending, remaining, decoded, audioJB, lastTimestamp,
                 heard, failures>>
-----------------------------------------------------------------------------
\* Every variable has the type its declaration gives it.  What remains after
\* a message is less than a packet, so that get_next_packet always has room
\* for it and copies a positive number of new samples.
AudioTypeOK ==
  /\ message \in 0..(Messages - 1)
  /\ pending \in BOOLEAN
  /\ remaining \in Seq(0..(Samples - 1))
  /\ Len(remaining) < Opus
  /\ decoded \in 0..(Samples - 1)
  /\ audioJB \in Seq(Packet)
  /\ lastTimestamp \in 0..(Period - 1)
  /\ heard \in 0..(Samples - 1)
  /\ untilMessage \in Nat
  /\ untilWake \in Nat
  /\ failures \in 0..MaxFailures

\* No sample is lost, repeated or reordered between the AAC decoder and the
\* channel: the packets on their way and the remainder are, in order, exactly
\* the samples decoded and not yet sent.
InPackets(i) == audioJB[((i - 1) \div Opus) + 1].samples[((i - 1) % Opus) + 1]
SamplesConserved ==
  LET packed == Len(audioJB) * Opus
  IN  /\ \A i \in 1..Len(audioJB) : Len(audioJB[i].samples) = Opus
      /\ \A i \in 1..packed : InPackets(i) = (heard + i) % Samples
      /\ \A i \in 1..Len(remaining) :
           remaining[i] = (heard + packed + i) % Samples
      /\ decoded = (heard + packed + Len(remaining)) % Samples

\* Packets outnumber messages, and one that shares its timestamp is slept for
\* like the others: only the five per cent let the thread catch up.  It does:
\* whatever held it before, in the end its backlog stays within three packets
\* of the buffer.
BacklogFits == Len(audioJB) <= (JbSize \div (Period \div Messages)) + 3
BacklogSettles == <>[](BacklogFits)
=============================================================================
