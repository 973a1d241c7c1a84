--------------------------- MODULE MCJitterBuffer ---------------------------
(* Instances of JitterBuffer: a policy small enough to explore, and the     *)
(* sizes the gateway ships with (rtmpg.conf and the defaults of             *)
(* LocalConfig).                                                            *)
EXTENDS JitterBuffer

MCInitialJbSizes == {20, 30}
MCFps            == {5, 10}

ShippedInitialJbSizes == {60, 120}
ShippedFps            == {15, 30}

\* The largest initial size that LocalConfig lets pass.
WidestInitialJbSizes == {8000}
=============================================================================
