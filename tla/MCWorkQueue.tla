---------------------------- MODULE MCWorkQueue -----------------------------
(* The low video queue's instance: the high video thread only adds, the    *)
(* thread of agora_disconnect adds and clears, one consumer.               *)
EXTENDS WorkQueue

CONSTANTS High, Main

MCProducers == {High, Main}
MCClearers  == {Main}
=============================================================================
