----------------------------- MODULE MediaPaths -----------------------------
(***************************************************************************)
(* What happens to the media themselves: ngx_rtmp_record_write_frame       *)
(* passes video to ngx_agora_send_video (VideoPath) and everything else to *)
(* ngx_agora_send_audio (AudioPath); a frame of the low stream is decoded  *)
(* and encoded again (LowCodecs).                                          *)
(*                                                                         *)
(* The three ways share no state; how their threads meet is the matter of  *)
(* AgoraSession and LowStream.  So each behaviour here follows one medium, *)
(* and all of them are checked without the product of their states.        *)
(***************************************************************************)
EXTENDS AudioPath, VideoPath, LowCodecs

VARIABLE medium

vars == <<medium, audioVars, videoVars, lowCodecVars>>

Init == /\ medium \in {"video", "audio", "low"}
        /\ AudioInit /\ VideoInit /\ CodecsInit

Audio(action) == /\ medium = "audio" /\ action
                 /\ UNCHANGED <<medium, videoVars, lowCodecVars>>
WriteAudio == Audio(SendAudio)
RefuseMessage == Audio(RefuseAudio)
AudioThread == Audio(PacePacket)
Time == Audio(AudioTick)
WriteVideo == /\ medium = "video" /\ VideoNext
              /\ UNCHANGED <<medium, audioVars, lowCodecVars>>
LowVideo == /\ medium = "low" /\ CodecsNext
            /\ UNCHANGED <<medium, audioVars, videoVars>>

Next == WriteAudio \/ RefuseMessage \/ AudioThread \/ Time
          \/ WriteVideo \/ LowVideo

\* Messages come as their timestamps say, and the audio thread runs.
Fairness == WF_vars(WriteAudio) /\ WF_vars(AudioThread) /\ WF_vars(Time)

Spec == Init /\ [][Next]_vars /\ Fairness

\* Every variable of the three ways has its type, and what remains of an
\* audio message is less than a packet.
TypeOK == /\ medium \in {"video", "audio", "low"}
          /\ AudioTypeOK /\ VideoTypeOK /\ CodecsTypeOK
=============================================================================
