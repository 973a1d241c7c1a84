----------------------------- MODULE LowCodecs ------------------------------
(***************************************************************************)
(* The decoder and the encoder of the low stream as they share a picture:  *)
(* AgoraDecoder decodes into one AVFrame for the whole session, and        *)
(* AgoraEncoder scales what is in it, whether the decoding succeeded or    *)
(* not.  Pictures are their sizes; the libraries are external.             *)
(***************************************************************************)

CONSTANTS Sizes,   \* the sizes of the publisher's pictures
          Target   \* the size of the low stream

VARIABLES
  step,      \* where doSendLowVideo is
  picture,   \* the size of m_avOutFrame
  source,    \* m_srcWidth and m_srcHeight
  context,   \* the size that m_scaleContext is made for
  outSize    \* outBufferSize: what encode has written, if anything

lowCodecVars == <<step, picture, source, context, outSize>>

Blank == "blank"         \* an AVFrame without a picture is 0 x 0
NoContext == "nullptr"
Pictures == Sizes \cup {Blank}

\* The low stream has a size: without one its codecs could not be opened.
ASSUME TargetAssumption == Target \notin {Blank, NoContext}

\* The constructors and init: a context from the target size to itself.
CodecsInit == /\ step = "idle"
              /\ picture = Blank
              /\ source = Target
              /\ context = Target
              /\ outSize = "none"

\* AgoraDecoder::decode: avcodec_send_packet may refuse the packet, which
\* leaves the picture before it; avcodec_receive_frame may have none yet,
\* which leaves the frame blank.
DecodeFrame == /\ step = "idle"
               /\ picture' \in Pictures
               /\ step' = "decoded"
               /\ UNCHANGED <<source, context, outSize>>

\* doSendLowVideo: the frame is not encoded.
SkipFrame == /\ step = "decoded"
             /\ step' = "idle"
             /\ UNCHANGED <<picture, source, context, outSize>>

\* createVideoScaleContext: a blank picture has none.
ContextFor(size) == IF size = Blank THEN NoContext ELSE size

\* Mutant of OnResolutionChange: a context that exists is kept.
OnResolutionChangeKept ==
  /\ source' = picture
  /\ context' = IF context \in {NoContext, Target} THEN ContextFor(picture)
                ELSE context

OnResolutionChange == /\ source' = picture
                      /\ context' = ContextFor(picture)

\* AgoraEncoder::encode up to sws_scale.
ScaleFrame == /\ step = "decoded"
              /\ step' = "scaling"
              /\ IF picture # source THEN OnResolutionChange
                                     ELSE UNCHANGED <<source, context>>
              /\ UNCHANGED <<picture, outSize>>

\* The rest of encode.  scaleFrame may fail for any picture: then nothing is
\* written.  doSendLowVideo sends outBufferSize bytes in any case.
EncodeFrame == /\ step = "scaling"
               /\ context # NoContext
               /\ outSize' \in {"none", "some"}
               /\ step' = "sent"
               /\ UNCHANGED <<picture, source, context>>

\* scaleFrame does not look whether there is a context: sws_scale may refuse
\* the null pointer, or follow it and take the process down.
ScaleWithoutContext == /\ step = "scaling"
                       /\ context = NoContext
                       /\ step' \in {"sent", "crashed"}
                       /\ UNCHANGED <<picture, source, context, outSize>>
Crashed == step = "crashed" /\ UNCHANGED lowCodecVars

LowFrameDone == /\ step = "sent"
                /\ step' = "idle"
                /\ outSize' = "none"
                /\ UNCHANGED <<picture, source, context>>

CodecsNext == DecodeFrame \/ SkipFrame \/ ScaleFrame \/ EncodeFrame
                \/ ScaleWithoutContext \/ Crashed \/ LowFrameDone
-----------------------------------------------------------------------------
CodecsTypeOK == /\ step \in {"idle", "decoded", "scaling", "sent", "crashed"}
                /\ picture \in Pictures
                /\ source \in Pictures \cup {Target}
                /\ context \in Pictures \cup {Target, NoContext}
                /\ outSize \in {"none", "some"}

\* sws_scale is given a context for the size of the picture, whichever
\* frames were decoded, refused or skipped since the context was made.  Only
\* for a blank picture there is none: if sws_scale survives that, the next
\* picture brings it back.
ScaleFitsPicture == step = "scaling" => /\ source = picture
                                        /\ context = ContextFor(picture)
=============================================================================
