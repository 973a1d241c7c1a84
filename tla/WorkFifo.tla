------------------------------ MODULE WorkFifo ------------------------------
(***************************************************************************)
(* What a WorkQueue promises the rest of the program: a first-in first-out *)
(* queue whose operations each happen at one instant.  AgoraSession uses   *)
(* its three queues through exactly this interface; the module WorkQueue   *)
(* implements it with a mutex and a condition variable.                    *)
(*                                                                         *)
(* A work is known by the order in which it was added: the n-th work added *)
(* is the number n.                                                        *)
(***************************************************************************)
EXTENDS Naturals, Sequences

VARIABLES
  queue,   \* the works in the queue, oldest first
  added,   \* how many works have been added
  taken    \* the last work handed to the consumer, 0 before the first

vars == <<queue, added, taken>>

Init == /\ queue = <<>>
        /\ added = 0
        /\ taken = 0

Add == /\ added' = added + 1
       /\ queue' = Append(queue, added')
       /\ UNCHANGED taken

\* A work is handed out once, and never after one that was added later.
Take == /\ queue # <<>>
        /\ taken' = Head(queue)
        /\ taken' > taken
        /\ queue' = Tail(queue)
        /\ UNCHANGED added

Clear == /\ queue' = <<>>
         /\ UNCHANGED <<added, taken>>

Next == Add \/ Take \/ Clear

Spec == Init /\ [][Next]_vars
=============================================================================
