--------------------------- MODULE MCAgoraSession ---------------------------
(* Instances of AgoraSession.  A tick is one nap; the numbers keep the      *)
(* order the code has: a nap is shorter than the grace period, a buffering  *)
(* takes several naps, a long gap outlasts the grace period.                *)
EXTENDS AgoraSession

\* A frame interval below the grace period, and one that is not.
MCGaps      == {1, 3}
MCShortGaps == {1}

\* The intervals that end before a grace period of three naps does: the first
\* tick of it may go to a nap, and the last needs every worker at its end.
MCGraceGaps == {0, 1}

\* A publisher's first frame is a key frame, its second is not.
MCKeyFrames == {1}

\* The uninitialised timestamp happens to be zero, or far in the future.
MCPillTimestamps == {0, 99}
MCZeroTimestamp  == {0}
MCFarTimestamp   == {99}
=============================================================================
