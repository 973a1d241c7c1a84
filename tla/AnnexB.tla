------------------------------- MODULE AnnexB -------------------------------
(***************************************************************************)
(* avcc_to_annexb of ngx_agora_helper.c as an operator: the H.264 of an    *)
(* RTMP message, NAL units behind their lengths, is written as an Annex B  *)
(* stream, NAL units behind start codes, with an access unit delimiter and *)
(* the parameter sets where a decoder wants them.                          *)
(*                                                                         *)
(* The message comes as a chain of buffers, here the sequence of what is   *)
(* not read of each: the pair of *in and *src of the code, <<>> for NULL.  *)
(***************************************************************************)
EXTENDS Integers, SequencesExt

CONSTANTS NalBytes,   \* avc_nal_bytes: size of a NAL unit's length
          Capacity    \* NGX_RTMP_HLS_BUFSIZE: size of the static buffer

ASSUME AnnexBAssumption == NalBytes \in 1..4 /\ Capacity \in Nat

\* A number in network byte order, of at most four bytes.
Number(bytes) ==
  LET place(i) == IF i < Len(bytes) THEN bytes[Len(bytes) - i] ELSE 0
  IN  place(0) + 256 * place(1) + 65536 * place(2) + 16777216 * place(3)
-----------------------------------------------------------------------------
(* ngx_custom_copy.                                                        *)

\* Buffers that are read to their end are left behind.
Skip(in) == LET left == {k \in DOMAIN in : in[k] # <<>>}
            IN  IF left = {} THEN <<>> ELSE SubSeq(in, Min(left), Len(in))

Failed == [ok |-> FALSE, bytes |-> <<>>, in |-> <<>>]

\* The first k buffers, and how many of them hold the next n bytes.
First(in, k) == FlattenSeq(SubSeq(in, 1, k))
Enough(in, n) == {k \in DOMAIN in : Len(First(in, k)) >= n}

\* Mutant of Copy: the chain stays at a buffer that is read to its end.
CopyStaying(in, n) ==
  LET last == Min(Enough(in, n))
      read == First(in, last)
  IN  IF Enough(in, n) = {} THEN Failed
      ELSE [ok    |-> TRUE,
            bytes |-> SubSeq(read, 1, n),
            in    |-> <<SubSeq(read, n + 1, Len(read))>>
                        \o SubSeq(in, last + 1, Len(in))]

\* Mutant of Copy: what begins in one buffer and ends in another is not had.
CopyWithin(in, n) ==
  IF in = <<>> \/ Len(Head(in)) < n THEN Failed
  ELSE [ok    |-> TRUE,
        bytes |-> SubSeq(Head(in), 1, n),
        in    |-> Skip(<<SubSeq(Head(in), n + 1, Len(Head(in)))>> \o Tail(in))]

\* The next n bytes.  Even no byte at all cannot be had from the end.
Copy(in, n) ==
  LET last == Min(Enough(in, n))
      read == First(in, last)
  IN  IF Enough(in, n) = {} THEN Failed
      ELSE [ok    |-> TRUE,
            bytes |-> SubSeq(read, 1, n),
            in    |-> Skip(<<SubSeq(read, n + 1, Len(read))>>
                             \o SubSeq(in, last + 1, Len(in)))]
-----------------------------------------------------------------------------
(* append_aud and append_sps_pps: the output, with what could be appended. *)

Aud == <<0, 0, 0, 1, 9, 240>>
Prefix == <<0, 0, 0, 1>>
Fits(out, n) == Len(out) + n <= Capacity

AppendAud(out) == IF Fits(out, Len(Aud)) THEN out \o Aud ELSE out

\* A NAL unit behind two bytes of length.
AppendSet(state) ==
  LET length == Copy(state.in, 2)
      size   == Number(length.bytes)
      body   == Copy(length.in, size)
      start  == state.out \o Prefix
  IN  IF ~state.ok THEN state
      ELSE IF ~length.ok \/ ~Fits(state.out, 4) THEN [state EXCEPT !.ok = FALSE]
      ELSE IF ~Fits(start, size) \/ ~body.ok
      THEN [state EXCEPT !.ok = FALSE, !.out = start]
      ELSE [state EXCEPT !.out = start \o body.bytes, !.in = body.in]

AppendSets(out, in, count) ==
  LET after[k \in 0..count] == IF k = 0 THEN [ok |-> TRUE, out |-> out, in |-> in]
                               ELSE AppendSet(after[k - 1])
  IN  after[count]

\* Ten bytes are skipped; then the SPS, their number in five bits, and the
\* PPS.  A failure is only logged: what was appended before it stays.
AppendSpsPps(out, avcHeader) ==
  LET skipped  == Copy(avcHeader, 10)
      spsCount == Copy(skipped.in, 1)
      sps      == AppendSets(out, spsCount.in, Number(spsCount.bytes) % 32)
      ppsCount == Copy(sps.in, 1)
  IN  IF ~spsCount.ok THEN out
      ELSE IF ~sps.ok \/ ~ppsCount.ok THEN sps.out
      ELSE AppendSets(sps.out, ppsCount.in, Number(ppsCount.bytes)).out
-----------------------------------------------------------------------------
(* avcc_to_annexb.                                                         *)

NalType(byte) == byte % 32
Slice == 1
Idr == 5
Sei == 6

\* Mutant of Announce: the parameter sets come before the delimiter.
AnnounceSetsFirst(state, type, avcHeader) ==
  LET audDue  == ~state.audSent /\ type \in {Slice, Idr, Sei}
      setsDue == type = Idr /\ ~state.setsSent
      announced == IF setsDue THEN AppendSpsPps(state.out, avcHeader)
                              ELSE state.out
  IN  [state EXCEPT
         !.audSent = @ \/ audDue,
         !.setsSent = IF type = Slice THEN FALSE ELSE @ \/ setsDue,
         !.out = IF audDue THEN AppendAud(announced) ELSE announced]

\* The output before the NAL unit itself: a delimiter before the first slice
\* or SEI of the frame, the parameter sets before the first IDR slice after
\* a slice of another type.
Announce(state, type, avcHeader) ==
  LET audDue  == ~state.audSent /\ type \in {Slice, Idr, Sei}
      setsDue == type = Idr /\ ~state.setsSent
      delimited == IF audDue THEN AppendAud(state.out) ELSE state.out
  IN  [state EXCEPT
         !.audSent = @ \/ audDue,
         !.setsSent = IF type = Slice THEN FALSE ELSE @ \/ setsDue,
         !.out = IF setsDue THEN AppendSpsPps(delimited, avcHeader)
                            ELSE delimited]

\* Mutant of AppendNal: the reference indicator of the NAL unit is lost.
AppendNalMasked(state, byte, body) ==
  LET out == state.out
             \o (IF state.out = <<>> THEN Prefix ELSE Tail(Prefix))
             \o <<NalType(byte)>>
  IN  IF Fits(state.out, 5) /\ Fits(out, Len(body.bytes) + 1) /\ body.ok
      THEN [state EXCEPT !.in = body.in, !.out = out \o body.bytes]
      ELSE [state EXCEPT !.ok = FALSE]

\* The start code, long at the start of the output, and the NAL unit.
AppendNal(state, byte, body) ==
  LET out == state.out
             \o (IF state.out = <<>> THEN Prefix ELSE Tail(Prefix)) \o <<byte>>
  IN  IF Fits(state.out, 5) /\ Fits(out, Len(body.bytes) + 1) /\ body.ok
      THEN [state EXCEPT !.in = body.in, !.out = out \o body.bytes]
      ELSE [state EXCEPT !.ok = FALSE]

\* One pass of the loop: a NAL unit of type 7, 8 or 9 is left out, one
\* without a length does not exist.  There is none after the message's end.
Pass(state, avcHeader) ==
  LET length == Copy(state.in, NalBytes)
      size   == Number(length.bytes)
      byte   == Copy(length.in, 1)
      type   == NalType(Number(byte.bytes))
      body   == Copy(byte.in, size - 1)
  IN  IF ~state.ok \/ state.in = <<>> THEN state
      ELSE IF length.ok /\ size = 0 THEN [state EXCEPT !.in = length.in]
      ELSE IF ~byte.ok THEN [state EXCEPT !.ok = FALSE]
      ELSE IF type \in 7..9 THEN [state EXCEPT !.ok = body.ok, !.in = body.in]
      ELSE AppendNal(Announce(state, type, avcHeader), Number(byte.bytes), body)

\* Each pass takes a byte at least.
Passes(state, avcHeader) ==
  LET most == Len(FlattenSeq(state.in))
      after[k \in 0..most] == IF k = 0 THEN state
                              ELSE Pass(after[k - 1], avcHeader)
  IN  after[most]

\* The result's ok says whether *out_buffer was set.  Only pictures of H.264
\* are converted, and only once the codec's header is known.
AvccToAnnexB(in, avcHeader) ==
  LET format == Copy(in, 1)
      htype  == Copy(format.in, 1)
      cts    == Copy(htype.in, 3)
      state  == [ok |-> TRUE, in |-> cts.in, out |-> <<>>,
                 audSent |-> FALSE, setsSent |-> FALSE]
  IN  IF avcHeader # <<>> /\ cts.ok /\ htype.bytes = <<1>>
      THEN Passes(state, avcHeader)
      ELSE [state EXCEPT !.ok = FALSE]
=============================================================================
