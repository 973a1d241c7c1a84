----------------------------- MODULE MediaRelay -----------------------------
(***************************************************************************)
(* What a session promises those who use it: it relays two streams, each   *)
(* frame once and in order, and a third that is made of the first; and it  *)
(* can be stopped.  Nothing is said of threads, queues, times or of the    *)
(* context; AgoraSession implements this with them.                        *)
(*                                                                         *)
(* A frame is known by the order in which it was accepted.                 *)
(***************************************************************************)
EXTENDS Naturals

CONSTANTS Streams,   \* the streams that frames are accepted for
          Source,    \* the one of them ...
          Derived,   \* ... that this stream is made of
          KeyFrames  \* the frames of the source that it may not leave out

VARIABLES
  running,
  accepted,  \* how many frames of each stream were accepted
  sent,      \* the last frame of each stream, and of the derived one, sent
  decided    \* the last frame of the source sent or left out there

vars == <<running, accepted, sent, decided>>

Init == /\ running = TRUE
        /\ accepted = [s \in Streams |-> 0]
        /\ sent = [s \in Streams \cup {Derived} |-> 0]
        /\ decided = 0

\* A stopped session accepts nothing.
Accept(s) == /\ running
             /\ accepted' = [accepted EXCEPT ![s] = @ + 1]
             /\ UNCHANGED <<running, sent, decided>>

\* The next frame is sent, also after the stop.
Send(s) == /\ sent[s] < accepted[s]
           /\ sent' = [sent EXCEPT ![s] = @ + 1]
           /\ UNCHANGED <<running, accepted, decided>>

\* The frames of the source are taken in turn for the derived stream, which
\* may be a frame ahead, for the source sends its frame last.  After the stop
\* some may be passed over.
Ahead == (decided + 1)..(sent[Source] + 1)
Decide(n) == /\ n <= accepted[Source]
             /\ running => n = decided + 1
             /\ decided' = n
             /\ UNCHANGED <<running, accepted>>

\* The frame is sent on the derived stream, or left out: never a key frame.
Derive   == \E n \in Ahead : /\ Decide(n)
                             /\ sent' = [sent EXCEPT ![Derived] = n]
LeaveOut == \E n \in Ahead : /\ Decide(n)
                             /\ n \notin KeyFrames
                             /\ UNCHANGED sent

Stop == /\ running
        /\ running' = FALSE
        /\ UNCHANGED <<accepted, sent, decided>>

Next == \/ \E s \in Streams : Accept(s) \/ Send(s)
        \/ Derive \/ LeaveOut
        \/ Stop

Spec == Init /\ [][Next]_vars
=============================================================================
