----------------------------- MODULE VideoPath ------------------------------
(***************************************************************************)
(* The way of the video from the RTMP chunks to the session:               *)
(* ngx_agora_send_video converts a message (AnnexB) and hands the result   *)
(* to agora_send_video.  The conversion is a loop over two cursors, the    *)
(* buffers of the chain and the NAL units in them, with flags for what it  *)
(* has inserted; the properties say what a decoder finds in the result,    *)
(* without the cursors and the flags.                                      *)
(***************************************************************************)
EXTENDS AnnexB, SequencesExt

CONSTANTS
  Frames,      \* the frames of the publisher: sequences of [type, size]
  HeaderCuts,  \* bytes that may be missing at the end of the codec's header
  Kinds,       \* the kinds of a video message: 1 is a picture
  ChunkSizes,  \* the sizes of the RTMP chunks
  Cuts         \* bytes that may be missing at the end of a message

\* A NAL unit's length is a big-endian number of NalBytes bytes.
Places == <<1, 256, 65536, 16777216>>
UnitSizes == {size \in Nat : size \div Places[NalBytes] < 256}
LengthBytes(size) ==
  [j \in 1..NalBytes |-> (size \div Places[NalBytes + 1 - j]) % 256]

\* The type of a NAL unit has five bits, and the kind of a message is a byte.
ASSUME VideoAssumption ==
  /\ Frames \subseteq Seq([type : 0..31, size : UnitSizes])
  /\ Kinds \subseteq 0..255 /\ ChunkSizes \subseteq Nat \ {0}
  /\ HeaderCuts \subseteq Nat /\ Cuts \subseteq Nat

VARIABLES
  stage,      \* where the nginx worker is with a video message
  received,   \* the video message
  avcHeader,  \* codec_ctx->avc_header, <<>> for NULL
  given       \* what is handed to agora_send_video, if anything is

videoVars == <<stage, received, avcHeader, given>>

NoMessage == [frame |-> <<>>, kind |-> 0, chunk |-> 1, cut |-> 0]
Nothing == [ok |-> FALSE, out |-> <<>>]

\* The bytes of a NAL unit, different for each place in the frame.
Unit(frame, i) == <<96 + frame[i].type>>
                    \o [j \in 1..(frame[i].size - 1) |-> 128 + 8 * i + j]
Measured(frame, i) ==
  LengthBytes(frame[i].size)
    \o (IF frame[i].size = 0 THEN <<>> ELSE Unit(frame, i))
MeasuredUnits(frame) == FlattenSeq([i \in DOMAIN frame |-> Measured(frame, i)])

Shorter(bytes, cut) == SubSeq(bytes, 1, Len(bytes) - cut)
ChunkAt(bytes, size, i) ==
  SubSeq(bytes, (i - 1) * size + 1,
         IF i * size < Len(bytes) THEN i * size ELSE Len(bytes))
Chain(bytes, size) == [i \in 1..((Len(bytes) + size - 1) \div size) |->
                         ChunkAt(bytes, size, i)]

MessageChain(message) ==
  Chain(Shorter(<<23, message.kind, 0, 0, 0>> \o MeasuredUnits(message.frame),
                message.cut),
        message.chunk)

Sps == <<103, 66>>
Pps == <<104>>
HeaderBytes == <<23, 0, 0, 0, 0, 1, 66, 0, 30, 255, 225, 0, 2>> \o Sps
                 \o <<1, 0, 1>> \o Pps
HeaderChain(cut) == Chain(Shorter(HeaderBytes, cut), 4)

VideoInit == /\ stage = "idle"
             /\ received = NoMessage
             /\ avcHeader = <<>>
             /\ given = Nothing

\* The codec module keeps the header that the publisher sends.
ReceiveHeader == /\ stage = "idle"
                 /\ \E cut \in HeaderCuts : avcHeader' = HeaderChain(cut)
                 /\ UNCHANGED <<stage, received, given>>

\* nginx-rtmp has put a message together.
ReceiveVideo ==
  /\ stage = "idle"
  /\ stage' = "received"
  /\ received' \in [frame : Frames, kind : Kinds, chunk : ChunkSizes,
                    cut : Cuts]
  /\ UNCHANGED <<avcHeader, given>>

\* ngx_agora_send_video: the conversion and, if it set out_buffer, the call
\* of agora_send_video.
SendVideo ==
  LET converted == AvccToAnnexB(MessageChain(received), avcHeader)
  IN  /\ stage = "received"
      /\ stage' = "sent"
      /\ given' = IF converted.ok THEN [ok |-> TRUE, out |-> converted.out]
                                  ELSE Nothing
      /\ UNCHANGED <<received, avcHeader>>

\* The handler returns; the chain and the buffer are freed.
VideoReturns == /\ stage = "sent"
                /\ stage' = "idle"
                /\ received' = NoMessage
                /\ given' = Nothing
                /\ UNCHANGED avcHeader

VideoNext == ReceiveHeader \/ ReceiveVideo \/ SendVideo \/ VideoReturns
-----------------------------------------------------------------------------
(* What a decoder reads in the output, and what it should.                 *)

StartCode(out, i) == /\ i >= 1 /\ i + 2 <= Len(out)
                     /\ SubSeq(out, i, i + 2) = <<0, 0, 1>>
Starts(out) ==
  FlattenSeq([i \in DOMAIN out |-> IF StartCode(out, i) THEN <<i>> ELSE <<>>])

\* Zeros before a start code belong to it.
WithoutZero(bytes) == IF bytes # <<>> /\ bytes[Len(bytes)] = 0
                      THEN Shorter(bytes, 1) ELSE bytes
Units(out) ==
  LET starts == Starts(out)
      end(k) == IF k = Len(starts) THEN Len(out) ELSE starts[k + 1] - 1
  IN  [k \in DOMAIN starts |-> WithoutZero(SubSeq(out, starts[k] + 3, end(k)))]

\* What is left of a frame when bytes are missing: whole units, if the loss
\* is of whole units.
Tails(message) == {k \in 0..Len(message.frame) :
  Len(MeasuredUnits(message.frame)) - message.cut
    = Len(MeasuredUnits(SubSeq(message.frame, 1, k)))}
Whole(message) == Tails(message) # {}
Rest(message) == SubSeq(message.frame, 1, CHOOSE k \in Tails(message) : TRUE)

Kept(frame, i) == frame[i].size > 0 /\ frame[i].type \notin 7..9
Opens(frame, i) ==
  /\ frame[i].type \in {Slice, Idr, Sei}
  /\ \A j \in 1..(i - 1) :
       ~(Kept(frame, j) /\ frame[j].type \in {Slice, Idr, Sei})
NeedsSets(frame, i) ==
  /\ frame[i].type = Idr
  /\ \A j \in 1..(i - 1) : Kept(frame, j) /\ frame[j].type = Idr
       => \E k \in (j + 1)..(i - 1) : Kept(frame, k) /\ frame[k].type = Slice

Expected(frame) ==
  LET at(i) == IF ~Kept(frame, i) THEN <<>>
               ELSE (IF Opens(frame, i) THEN <<<<9, 240>>>> ELSE <<>>)
                      \o (IF NeedsSets(frame, i) THEN <<Sps, Pps>> ELSE <<>>)
                      \o <<Unit(frame, i)>>
  IN  FlattenSeq([i \in DOMAIN frame |-> at(i)])

\* There is room for the units with a long start code each, and one byte.
HasRoom(frame) == LET units == Expected(frame)
                  IN  Len(FlattenSeq(units)) + 4 * Len(units) + 1 <= Capacity
-----------------------------------------------------------------------------
VideoTypeOK ==
  /\ stage \in {"idle", "received", "sent"}
  /\ received \in [frame : Frames \cup {<<>>}, kind : Kinds \cup {0},
                   chunk : ChunkSizes \cup {1}, cut : Cuts \cup {0}]
  /\ avcHeader \in {<<>>} \cup {HeaderChain(cut) : cut \in HeaderCuts}
  /\ given.ok \in BOOLEAN
  /\ Len(given.out) <= Capacity

\* A message is converted as if its bytes had come in one chunk: neither the
\* read of a number or a unit that two buffers share nor the end of a buffer
\* makes a difference.
ChunksDoNotMatter ==
  LET once  == [received EXCEPT !.chunk = 5 + Len(MeasuredUnits(received.frame))]
      whole == AvccToAnnexB(MessageChain(once), avcHeader)
  IN  stage = "sent" => /\ given.ok <=> whole.ok
                        /\ given.ok => given.out = whole.out

\* However the message is cut into chunks, the decoder finds what the frame
\* holds, in order: a delimiter before the first slice, the parameter sets
\* before each IDR picture, the publisher's own delimiters and sets left out.
FramesConverted ==
  (given.ok /\ avcHeader = HeaderChain(0) /\ HasRoom(Rest(received)))
    => Units(given.out) = Expected(Rest(received))

\* The publisher's own units: neither parameter sets nor a delimiter.
Own(unit) == unit # <<>> /\ NalType(unit[1]) \notin 7..9
OwnUnits(units) ==
  FlattenSeq([k \in DOMAIN units |-> IF Own(units[k]) THEN <<units[k]>> ELSE <<>>])

\* With a header that breaks off only the parameter sets can be missing, and
\* with a frame that does not fit only what was inserted.
SlicesConverted ==
  given.ok => OwnUnits(Units(given.out)) = OwnUnits(Expected(Rest(received)))

\* A picture is dropped only if no header came before it, bytes are missing,
\* there is no room, or it ends with a NAL unit of a single byte, which
\* ngx_custom_copy cannot tell from a truncated one.
EndsWithByte(frame) == frame # <<>> /\ frame[Len(frame)].size = 1
PicturesArrive ==
  (/\ stage = "sent" /\ received.kind = 1 /\ avcHeader # <<>>
   /\ Whole(received) /\ HasRoom(Rest(received))
   /\ ~EndsWithByte(Rest(received)))
    => given.ok
=============================================================================
