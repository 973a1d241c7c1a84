---------------------------- MODULE MCMediaPaths ----------------------------
(* An instance of MediaPaths.  Audio has the sizes of the code, 75 messages *)
(* in 1600 ms; frames have up to three NAL units of all the kinds that the  *)
(* conversion tells apart, with a byte or two that may be missing; pictures *)
(* of the low stream come in the size it is encoded in and in two others.   *)
EXTENDS MediaPaths

MCHolds == {0, 200}

MCUnits == [type : {1, 5}, size : {1, 2}]
             \cup {[type |-> 1, size |-> 0], [type |-> 6, size |-> 1],
                   [type |-> 7, size |-> 2], [type |-> 10, size |-> 1]}
MCFrames == UNION {[1..n -> MCUnits] : n \in 0..3}
MCHeaderCuts == {0, 4}
MCKinds == {0, 1}
MCChunkSizes == {1, 3, 100}
MCCuts == {0, 1, 2}

MCSizes == {"target", "small", "large"}
=============================================================================
