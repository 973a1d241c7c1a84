------------------------------ MODULE WorkQueue -----------------------------
(***************************************************************************)
(* One WorkQueue object (libagorac/workqueue.h) at the grain of its mutex  *)
(* and condition variable, used the way agorac.cpp uses it: any number of  *)
(* producers that add, some of which also clear, and one consumer thread   *)
(* that loops over waitForWork, get and, on the queues that pace by        *)
(* timestamp, top.                                                         *)
(*                                                                         *)
(* A push or a pop of the std::queue is a read of the queue followed by a  *)
(* write of it: what keeps one thread's update from being lost under       *)
(* another's is the mutex alone.  The unlocked size() and isEmpty() change *)
(* nothing and are left to the modules that depend on what they return.    *)
(***************************************************************************)
EXTENDS Naturals, Sequences

CONSTANTS
  Producers,   \* threads that call add
  Clearers,    \* the producers that also call clear (agora_disconnect)
  Consumer,    \* the one thread that waits and takes
  NoThread,    \* the owner of an unlocked mutex
  MaxAdds      \* bound of the model: works added over the queue's life

ASSUME ConsumerAssumption == Consumer \notin Producers
ASSUME ClearersAssumption == Clearers \subseteq Producers
ASSUME NoThreadAssumption == NoThread \notin Producers \cup {Consumer}
ASSUME MaxAddsAssumption  == MaxAdds \in Nat

Threads  == Producers \cup {Consumer}
Works    == Nat \ {0}
NullWork == 0     \* the nullptr that get and top return on an empty queue

VARIABLES
  workQueue,   \* _workQueue, oldest work first; works are numbered by push
  qMutex,      \* the thread that owns _qMutex, or NoThread
  condition,   \* the threads blocked on _condition
  pc,          \* where each thread is in the operation it runs
  snap,        \* the queue as a thread read it, before it writes it back
  added,       \* ghost: how many works have been pushed
  work,        \* what the consumer's last get returned
  taken,       \* ghost: the last work a get took off the queue
  peeked,      \* what the consumer's last top returned
  cleared      \* ghost: a clear since the consumer last saw the queue's front

vars == <<workQueue, qMutex, condition, pc, snap, added, work, taken, peeked,
          cleared>>

Init == /\ workQueue = <<>>
        /\ qMutex = NoThread
        /\ condition = {}
        /\ pc = [t \in Threads |-> "idle"]
        /\ snap = [t \in Threads |-> <<>>]
        /\ added = 0
        /\ work = NullWork
        /\ taken = 0
        /\ peeked = NullWork
        /\ cleared = FALSE

Goto(t, label) == pc' = [pc EXCEPT ![t] = label]
Lock(t)   == qMutex = NoThread /\ qMutex' = t
Unlock(t) == qMutex' = NoThread

-----------------------------------------------------------------------------
(* add: lock, push, notify_one while still holding the lock, unlock.       *)

\* Mutant of AddLock: push and notify without the lock_guard.
AddUnlocked(p) == /\ pc[p] = "idle"
                  /\ added < MaxAdds
                  /\ Goto(p, "addRead")
                  /\ UNCHANGED <<workQueue, qMutex, condition, snap, added, work,
                                 taken, peeked, cleared>>

AddLock(p) == /\ pc[p] = "idle"
              /\ added < MaxAdds
              /\ Lock(p)
              /\ Goto(p, "addRead")
              /\ UNCHANGED <<workQueue, condition, snap, added, work, taken,
                             peeked, cleared>>

AddRead(p) == /\ pc[p] = "addRead"
              /\ snap' = [snap EXCEPT ![p] = workQueue]
              /\ Goto(p, "addWrite")
              /\ UNCHANGED <<workQueue, qMutex, condition, added, work, taken,
                             peeked, cleared>>

\* Mutant of AddWrite: a null work is pushed.
AddWriteNull(p) == /\ pc[p] = "addWrite"
                   /\ added' = added + 1
                   /\ workQueue' = Append(snap[p], NullWork)
                   /\ Goto(p, "addNotify")
                   /\ UNCHANGED <<qMutex, condition, snap, work, taken, peeked,
                                  cleared>>

AddWrite(p) == /\ pc[p] = "addWrite"
               /\ added' = added + 1
               /\ workQueue' = Append(snap[p], added')
               /\ Goto(p, "addNotify")
               /\ UNCHANGED <<qMutex, condition, snap, work, taken, peeked,
                              cleared>>

\* Mutant of AddNotify: nobody is notified.
AddSilently(p) == /\ pc[p] = "addNotify"
                  /\ Goto(p, "unlock")
                  /\ UNCHANGED <<workQueue, qMutex, condition, snap, added, work,
                                 taken, peeked, cleared>>

AddNotify(p) == /\ pc[p] = "addNotify"
                /\ \/ condition = {} /\ UNCHANGED condition
                   \/ \E t \in condition : condition' = condition \ {t}
                /\ Goto(p, "unlock")
                /\ UNCHANGED <<workQueue, qMutex, snap, added, work, taken,
                               peeked, cleared>>

(* clear: lock, pop until empty, unlock.  It notifies nobody.              *)

ClearLock(p) == /\ pc[p] = "idle"
                /\ Lock(p)
                /\ Goto(p, "clear")
                /\ UNCHANGED <<workQueue, condition, snap, added, work, taken,
                               peeked, cleared>>

ClearPop(p) == /\ pc[p] = "clear"
               /\ workQueue' = <<>>
               /\ cleared' = TRUE
               /\ Goto(p, "unlock")
               /\ UNCHANGED <<qMutex, condition, snap, added, work, taken,
                              peeked>>

Release(p) == /\ pc[p] = "unlock"
              /\ Unlock(p)
              /\ Goto(p, "idle")
              /\ UNCHANGED <<workQueue, condition, snap, added, work, taken,
                             peeked, cleared>>

-----------------------------------------------------------------------------
(* waitForWork: condition.wait with a predicate, that is, a loop that      *)
(* tests under the lock and releases it and blocks in one step.            *)

WaitLock == /\ pc[Consumer] = "idle"
            /\ Lock(Consumer)
            /\ Goto(Consumer, "waitTest")
            /\ UNCHANGED <<workQueue, condition, snap, added, work, taken,
                           peeked, cleared>>

WaitTest == /\ pc[Consumer] = "waitTest"
            /\ Unlock(Consumer)
            /\ \/ /\ workQueue = <<>>
                  /\ condition' = condition \cup {Consumer}
                  /\ Goto(Consumer, "asleep")
                  /\ UNCHANGED cleared
               \/ /\ workQueue # <<>>
                  /\ Goto(Consumer, "get")
                  /\ cleared' = FALSE
                  /\ UNCHANGED condition
            /\ UNCHANGED <<workQueue, snap, added, work, taken, peeked>>

SpuriousWakeup == /\ Consumer \in condition
                  /\ condition' = condition \ {Consumer}
                  /\ UNCHANGED <<workQueue, qMutex, pc, snap, added, work,
                                 taken, peeked, cleared>>

\* Mutant of WaitRelock: wait without its predicate, no test after waking up.
WaitOnce == /\ pc[Consumer] = "asleep"
            /\ Consumer \notin condition
            /\ Goto(Consumer, "get")
            /\ cleared' = FALSE
            /\ UNCHANGED <<workQueue, qMutex, condition, snap, added, work,
                           taken, peeked>>

WaitRelock == /\ pc[Consumer] = "asleep"
              /\ Consumer \notin condition
              /\ Lock(Consumer)
              /\ Goto(Consumer, "waitTest")
              /\ UNCHANGED <<workQueue, condition, snap, added, work, taken,
                             peeked, cleared>>

(* get: lock, return nullptr if empty, otherwise copy the front and pop.   *)

GetLock == /\ pc[Consumer] = "get"
           /\ Lock(Consumer)
           /\ Goto(Consumer, "getRead")
           /\ UNCHANGED <<workQueue, condition, snap, added, work, taken,
                          peeked, cleared>>

GetEmpty == /\ pc[Consumer] = "getRead"
            /\ workQueue = <<>>
            /\ work' = NullWork
            /\ Goto(Consumer, "getUnlock")
            /\ UNCHANGED <<workQueue, qMutex, condition, snap, added, taken,
                           peeked, cleared>>

GetRead == /\ pc[Consumer] = "getRead"
           /\ workQueue # <<>>
           /\ snap' = [snap EXCEPT ![Consumer] = workQueue]
           /\ Goto(Consumer, "getWrite")
           /\ UNCHANGED <<workQueue, qMutex, condition, added, work, taken,
                          peeked, cleared>>

\* Mutant of GetWrite: the newest work is taken, as from a stack.
GetNewest ==
  /\ pc[Consumer] = "getWrite"
  /\ work' = snap[Consumer][Len(snap[Consumer])]
  /\ taken' = work'
  /\ workQueue' = SubSeq(snap[Consumer], 1, Len(snap[Consumer]) - 1)
  /\ Goto(Consumer, "getUnlock")
  /\ UNCHANGED <<qMutex, condition, snap, added, peeked, cleared>>

GetWrite == /\ pc[Consumer] = "getWrite"
            /\ work' = Head(snap[Consumer])
            /\ taken' = work'
            /\ workQueue' = Tail(snap[Consumer])
            /\ Goto(Consumer, "getUnlock")
            /\ UNCHANGED <<qMutex, condition, snap, added, peeked, cleared>>

\* The low video thread goes straight round its loop; the other two look at
\* the next work first, if they got one.
GetUnlock == /\ pc[Consumer] = "getUnlock"
             /\ Unlock(Consumer)
             /\ \/ Goto(Consumer, "idle")
                \/ work # NullWork /\ Goto(Consumer, "top")
             /\ peeked' = NullWork
             /\ UNCHANGED <<workQueue, condition, snap, added, work, taken,
                            cleared>>

(* top: lock, return the front without popping it, unlock.                 *)

TopLock == /\ pc[Consumer] = "top"
           /\ Lock(Consumer)
           /\ Goto(Consumer, "topRead")
           /\ UNCHANGED <<workQueue, condition, snap, added, work, taken,
                          peeked, cleared>>

\* Mutant of TopRead: back() for front().
TopReadBack ==
  /\ pc[Consumer] = "topRead"
  /\ peeked' = IF workQueue = <<>> THEN NullWork ELSE workQueue[Len(workQueue)]
  /\ cleared' = FALSE
  /\ Unlock(Consumer)
  /\ Goto(Consumer, "idle")
  /\ UNCHANGED <<workQueue, condition, snap, added, work, taken>>

TopRead == /\ pc[Consumer] = "topRead"
           /\ peeked' = IF workQueue = <<>> THEN NullWork ELSE Head(workQueue)
           /\ cleared' = FALSE
           /\ Unlock(Consumer)
           /\ Goto(Consumer, "idle")
           /\ UNCHANGED <<workQueue, condition, snap, added, work, taken>>

-----------------------------------------------------------------------------
Produce(p) == \/ AddLock(p) \/ AddRead(p) \/ AddWrite(p) \/ AddNotify(p)
              \/ Release(p)
EmptyOut(p) == ClearLock(p) \/ ClearPop(p)
Consume == \/ WaitLock \/ WaitTest \/ WaitRelock
           \/ GetLock \/ GetEmpty \/ GetRead \/ GetWrite \/ GetUnlock
           \/ TopLock \/ TopRead

Next == \/ \E p \in Producers : Produce(p)
        \/ \E p \in Clearers : EmptyOut(p)
        \/ Consume
        \/ SpuriousWakeup

\* An operation that was called finishes, and the consumer's loop goes round.
\* Nobody is obliged to call add or clear, or to wake up for no reason.
Fairness ==
  /\ WF_vars(Consume)
  /\ \A p \in Producers : WF_vars(AddRead(p) \/ AddWrite(p) \/ AddNotify(p)
                                  \/ ClearPop(p) \/ Release(p))

Spec     == Init /\ [][Next]_vars
FairSpec == Spec /\ Fairness
-----------------------------------------------------------------------------
Labels == {"idle", "addRead", "addWrite", "addNotify", "clear", "unlock",
           "waitTest", "asleep", "get", "getRead", "getWrite", "getUnlock",
           "top", "topRead"}

\* The labels between a lock and its unlock.
Critical == {"addRead", "addWrite", "addNotify", "clear", "unlock",
             "waitTest", "getRead", "getWrite", "getUnlock", "topRead"}

\* Every variable has the type its declaration gives it.
TypeOK == /\ workQueue \in Seq(Works)
          /\ qMutex \in Threads \cup {NoThread}
          /\ condition \subseteq {Consumer}
          /\ pc \in [Threads -> Labels]
          /\ snap \in [Threads -> Seq(Works)]
          /\ added \in Nat
          /\ work \in Nat
          /\ taken \in Nat
          /\ peeked \in Nat
          /\ cleared \in BOOLEAN

\* A thread about to write the queue back has the queue as it is now, so no
\* push or pop of another thread is overwritten (the lock_guard of add and
\* get).
NoLostUpdate == \A t \in Threads :
                  pc[t] \in {"addWrite", "getWrite"} => snap[t] = workQueue

\* The consumer is never blocked beside a work that nobody is about to
\* announce: add notifies after it pushed and before it unlocks.
NoLostWakeup == Consumer \in condition /\ workQueue # <<>>
                  => \E p \in Producers : pc[p] = "addNotify"

\* After waitForWork a get finds nothing only if a clear came in between: the
\* threads that nobody clears never see the nullptr (agorac.cpp reads
\* work->timestamp of the high video thread's work before it tests it).
NullOnlyAfterClear == pc[Consumer] = "getUnlock" /\ work = NullWork => cleared

\* The work top showed stays the next one get returns, whatever is added
\* meanwhile: pacing by the next work's timestamp is pacing by the right one.
PeekedIsNext == pc[Consumer] \in {"idle", "waitTest", "asleep"}
                  /\ peeked # NullWork /\ ~cleared
                  => workQueue # <<>> /\ Head(workQueue) = peeked

\* Every work is taken or cleared: the consumer cannot stay blocked, whatever
\* the interleaving of adds, clears and waits.
EventuallyDrained == workQueue # <<>> ~> workQueue = <<>>

\* The lock-level queue implements the atomic one.
Fifo == INSTANCE WorkFifo WITH queue <- workQueue
FifoSpec == Fifo!Spec
=============================================================================
