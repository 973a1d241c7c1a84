--------------------------- MODULE WorkQueueProofs --------------------------
(***************************************************************************)
(* WorkQueue for any number of threads and works: its type, the facts that *)
(* the mutex and the notification give, and that it implements WorkFifo.   *)
(*                                                                         *)
(* The invariant that carries all of them says who owns the mutex (Owner), *)
(* that a thread about to write the queue back read it as it is            *)
(* (NoLostUpdate), what a consumer may rely on between waitForWork and get *)
(* (FrontKept), and that works are numbered in order (Ordered).            *)
(***************************************************************************)
EXTENDS WorkQueue, TLAPS

\* A thread is between a lock and its unlock iff it owns the mutex.
Owner == \A t \in Threads : pc[t] \in Critical <=> qMutex = t

\* Only a consumer that went to sleep is in the condition's wait set.
SleeperAsleep == Consumer \in condition => pc[Consumer] = "asleep"

\* Roles keep to their operations.
Roles == /\ pc[Consumer] \in {"idle", "waitTest", "asleep", "get", "getRead",
                              "getWrite", "getUnlock", "top", "topRead"}
         /\ \A p \in Producers : pc[p] \in {"idle", "addRead", "addWrite",
                                            "addNotify", "clear", "unlock"}

\* Between waitForWork and the pop the queue has a front unless a clear came.
FrontKept ==
  /\ pc[Consumer] \in {"get", "getRead"} /\ ~cleared => workQueue # <<>>
  /\ pc[Consumer] = "getWrite" => workQueue # <<>>

\* The works in the queue are numbered upwards, above those taken and up to
\* the number of works added.
Ordered ==
  /\ taken <= added
  /\ \A i \in 1..Len(workQueue) : taken < workQueue[i] /\ workQueue[i] <= added
  /\ \A i, j \in 1..Len(workQueue) : i < j => workQueue[i] < workQueue[j]

IInv == /\ TypeOK
        /\ Owner
        /\ SleeperAsleep
        /\ Roles
        /\ NoLostUpdate
        /\ NoLostWakeup
        /\ FrontKept
        /\ NullOnlyAfterClear
        /\ PeekedIsNext
        /\ Ordered

-----------------------------------------------------------------------------
(* The type, and who is where.                                             *)

\* The initial state has every part of the invariant.
LEMMA InitEstablishes == Init => IInv
<1> SUFFICES ASSUME Init PROVE IInv
  OBVIOUS
<1>1. TypeOK
  <2>1. <<>> \in Seq(Works)
    OBVIOUS
  <2>2. pc \in [Threads -> Labels]
    BY DEF Init, Labels
  <2> QED BY <2>1, <2>2 DEF Init, TypeOK, NullWork
<1>2. Owner /\ SleeperAsleep /\ Roles
  BY NoThreadAssumption
     DEF Init, Owner, SleeperAsleep, Roles, Critical, Threads
<1>3. NoLostUpdate /\ NoLostWakeup /\ FrontKept
  BY DEF Init, NoLostUpdate, NoLostWakeup, FrontKept, Threads
<1>4. NullOnlyAfterClear /\ PeekedIsNext /\ Ordered
  BY DEF Init, NullOnlyAfterClear, PeekedIsNext, Ordered, Threads, NullWork
<1> QED BY <1>1, <1>2, <1>3, <1>4 DEF IInv

\* Every step keeps the variables in their types.
LEMMA TypeStep == IInv /\ [Next]_vars => TypeOK'
<1> SUFFICES ASSUME IInv, [Next]_vars PROVE TypeOK'
  OBVIOUS
<1> TypeOK
  BY DEF IInv
<1> USE DEF TypeOK, Goto, Lock, Unlock, Threads, Labels
<1>1. ASSUME NEW p \in Producers, Produce(p) PROVE TypeOK'
  <2>1. CASE AddLock(p) \/ AddRead(p) \/ AddNotify(p) \/ Release(p)
    BY <2>1 DEF AddLock, AddRead, AddNotify, Release
  <2>2. CASE AddWrite(p)
    <3>1. snap[p] \in Seq(Works) /\ added' \in Works
      BY <2>2 DEF AddWrite, Works
    <3>2. workQueue' \in Seq(Works)
      BY <3>1, <2>2 DEF AddWrite
    <3> QED BY <2>2, <3>2 DEF AddWrite
  <2> QED BY <1>1, <2>1, <2>2 DEF Produce
<1>2. ASSUME NEW p \in Clearers, EmptyOut(p) PROVE TypeOK'
  <2>1. <<>> \in Seq(Works)
    OBVIOUS
  <2> QED BY <1>2, <2>1, ClearersAssumption DEF EmptyOut, ClearLock, ClearPop
<1>3. CASE Consume
  <2>1. CASE WaitLock \/ WaitTest \/ WaitRelock
    BY <2>1 DEF WaitLock, WaitTest, WaitRelock
  <2>2. CASE GetLock \/ GetEmpty \/ GetRead \/ GetUnlock \/ TopLock
    BY <2>2 DEF GetLock, GetEmpty, GetRead, GetUnlock, TopLock, NullWork
  <2>3. CASE TopRead
    <3>1. peeked' \in Nat
      BY <2>3 DEF TopRead, NullWork, Works
    <3> QED BY <2>3, <3>1 DEF TopRead
  <2>4. CASE GetWrite
    <3>1. snap[Consumer] = workQueue /\ workQueue # <<>>
      BY <2>4 DEF GetWrite, IInv, NoLostUpdate, FrontKept
    <3>2. Head(workQueue) \in Works /\ Tail(workQueue) \in Seq(Works)
      BY <3>1
    <3> QED BY <2>4, <3>1, <3>2 DEF GetWrite, Works
  <2> QED BY <1>3, <2>1, <2>2, <2>3, <2>4 DEF Consume
<1>4. CASE SpuriousWakeup
  BY <1>4 DEF SpuriousWakeup
<1>5. CASE UNCHANGED vars
  BY <1>5 DEF vars
<1> QED BY <1>1, <1>2, <1>3, <1>4, <1>5 DEF Next

\* Every step keeps the mutex with the one thread that is in a critical
\* section, sleepers asleep and the roles apart.
LEMMA OwnerStep ==
  TypeOK /\ Owner /\ SleeperAsleep /\ Roles /\ [Next]_vars
    => Owner' /\ SleeperAsleep' /\ Roles'
<1> SUFFICES ASSUME TypeOK, Owner, SleeperAsleep, Roles, [Next]_vars
             PROVE  Owner' /\ SleeperAsleep' /\ Roles'
  OBVIOUS
<1> USE ConsumerAssumption, NoThreadAssumption
    DEF TypeOK, Owner, SleeperAsleep, Roles, Goto, Lock, Unlock, Threads,
        Critical
<1>1. ASSUME NEW p \in Producers, Produce(p)
      PROVE  Owner' /\ SleeperAsleep' /\ Roles'
  BY <1>1 DEF Produce, AddLock, AddRead, AddWrite, AddNotify, Release
<1>2. ASSUME NEW p \in Clearers, EmptyOut(p)
      PROVE  Owner' /\ SleeperAsleep' /\ Roles'
  BY <1>2, ClearersAssumption DEF EmptyOut, ClearLock, ClearPop
<1>3. CASE Consume
  <2>1. CASE WaitLock \/ WaitTest \/ WaitRelock
    BY <2>1 DEF WaitLock, WaitTest, WaitRelock
  <2>2. CASE GetLock \/ GetEmpty \/ GetUnlock \/ TopLock
    BY <2>2 DEF GetLock, GetEmpty, GetUnlock, TopLock
  <2>3. CASE GetRead \/ GetWrite \/ TopRead
    BY <2>3 DEF GetRead, GetWrite, TopRead
  <2> QED BY <1>3, <2>1, <2>2, <2>3 DEF Consume
<1>4. CASE SpuriousWakeup
  BY <1>4 DEF SpuriousWakeup
<1>5. CASE UNCHANGED vars
  BY <1>5 DEF vars
<1> QED BY <1>1, <1>2, <1>3, <1>4, <1>5 DEF Next

-----------------------------------------------------------------------------
(* What the mutex gives: nobody changes the queue under a thread that is   *)
(* in a critical section.                                                  *)

\* Two threads in a critical section are the same thread.
LEMMA OneInside ==
  ASSUME Owner, NEW s \in Threads, NEW t \in Threads,
         pc[s] \in Critical, pc[t] \in Critical
  PROVE  s = t
BY DEF Owner

\* A step after which a thread is about to write, or that changes the queue,
\* leaves every thread's snapshot as fresh as it was.
LEMMA UpdateStep == IInv /\ [Next]_vars => NoLostUpdate'
<1> SUFFICES ASSUME IInv, [Next]_vars PROVE NoLostUpdate'
  OBVIOUS
<1> USE OneInside, ConsumerAssumption
    DEF IInv, TypeOK, Roles, NoLostUpdate, Goto, Threads, Critical
<1>1. ASSUME NEW p \in Producers, Produce(p) PROVE NoLostUpdate'
  BY <1>1 DEF Produce, AddLock, AddRead, AddWrite, AddNotify, Release
<1>2. ASSUME NEW p \in Clearers, EmptyOut(p) PROVE NoLostUpdate'
  BY <1>2, ClearersAssumption DEF EmptyOut, ClearLock, ClearPop
<1>3. CASE Consume
  <2>1. CASE WaitLock \/ WaitTest \/ WaitRelock
    BY <2>1 DEF WaitLock, WaitTest, WaitRelock
  <2>2. CASE GetLock \/ GetEmpty \/ GetUnlock \/ TopLock
    BY <2>2 DEF GetLock, GetEmpty, GetUnlock, TopLock
  <2>3. CASE GetRead \/ GetWrite \/ TopRead
    BY <2>3 DEF GetRead, GetWrite, TopRead
  <2> QED BY <1>3, <2>1, <2>2, <2>3 DEF Consume
<1>4. CASE SpuriousWakeup
  BY <1>4 DEF SpuriousWakeup
<1>5. CASE UNCHANGED vars
  BY <1>5 DEF vars
<1> QED BY <1>1, <1>2, <1>3, <1>4, <1>5 DEF Next

\* Only AddWrite makes a work appear beside a sleeper, and then its thread is
\* about to notify; only AddNotify stops being so, and it wakes the sleeper.
LEMMA WakeupStep == IInv /\ [Next]_vars => NoLostWakeup'
<1> SUFFICES ASSUME IInv, [Next]_vars PROVE NoLostWakeup'
  OBVIOUS
<1> USE OneInside, ConsumerAssumption
    DEF IInv, TypeOK, Roles, SleeperAsleep, NoLostWakeup, Goto, Threads,
        Critical
<1>1. ASSUME NEW p \in Producers, Produce(p) PROVE NoLostWakeup'
  <2>1. CASE AddLock(p) \/ AddRead(p) \/ Release(p)
    BY <2>1 DEF AddLock, AddRead, Release
  <2>2. CASE AddWrite(p)
    BY <2>2 DEF AddWrite
  <2>3. CASE AddNotify(p)
    BY <2>3 DEF AddNotify
  <2> QED BY <1>1, <2>1, <2>2, <2>3 DEF Produce
<1>2. ASSUME NEW p \in Clearers, EmptyOut(p) PROVE NoLostWakeup'
  BY <1>2, ClearersAssumption DEF EmptyOut, ClearLock, ClearPop
<1>3. CASE Consume
  <2>1. CASE WaitTest
    BY <2>1 DEF WaitTest
  <2>2. CASE WaitLock \/ WaitRelock
    BY <2>2 DEF WaitLock, WaitRelock
  <2>3. CASE GetLock \/ GetEmpty \/ GetUnlock \/ TopLock
    BY <2>3 DEF GetLock, GetEmpty, GetUnlock, TopLock
  <2>4. CASE GetRead \/ GetWrite \/ TopRead
    BY <2>4 DEF GetRead, GetWrite, TopRead
  <2> QED BY <1>3, <2>1, <2>2, <2>3, <2>4 DEF Consume
<1>4. CASE SpuriousWakeup
  BY <1>4 DEF SpuriousWakeup
<1>5. CASE UNCHANGED vars
  BY <1>5 DEF vars
<1> QED BY <1>1, <1>2, <1>3, <1>4, <1>5 DEF Next

-----------------------------------------------------------------------------
(* What the consumer may rely on.                                          *)

\* A front that waitForWork saw stays until the consumer pops it or a clear
\* takes it away.
LEMMA FrontStep == IInv /\ [Next]_vars => FrontKept' /\ NullOnlyAfterClear'
<1> SUFFICES ASSUME IInv, [Next]_vars
             PROVE  FrontKept' /\ NullOnlyAfterClear'
  OBVIOUS
<1> USE OneInside, ConsumerAssumption
    DEF IInv, TypeOK, Roles, FrontKept, NullOnlyAfterClear, NoLostUpdate,
        Goto, Threads, Critical
<1>1. ASSUME NEW p \in Producers, Produce(p)
      PROVE  FrontKept' /\ NullOnlyAfterClear'
  <2>1. CASE AddLock(p) \/ AddRead(p) \/ AddNotify(p) \/ Release(p)
    BY <2>1 DEF AddLock, AddRead, AddNotify, Release
  <2>2. CASE AddWrite(p)
    <3>1. workQueue' # <<>>
      BY <2>2 DEF AddWrite
    <3> QED BY <2>2, <3>1 DEF AddWrite
  <2> QED BY <1>1, <2>1, <2>2 DEF Produce
<1>2. ASSUME NEW p \in Clearers, EmptyOut(p)
      PROVE  FrontKept' /\ NullOnlyAfterClear'
  BY <1>2, ClearersAssumption DEF EmptyOut, ClearLock, ClearPop
<1>3. CASE Consume
  <2>1. CASE WaitLock \/ WaitTest \/ WaitRelock
    BY <2>1 DEF WaitLock, WaitTest, WaitRelock
  <2>2. CASE GetLock \/ GetEmpty \/ GetRead \/ GetUnlock \/ TopLock
    BY <2>2 DEF GetLock, GetEmpty, GetRead, GetUnlock, TopLock
  <2>3. CASE TopRead
    BY <2>3 DEF TopRead
  <2>4. CASE GetWrite
    <3>1. snap[Consumer] \in Seq(Works) /\ snap[Consumer] # <<>>
      BY <2>4 DEF GetWrite
    <3>2. work' # NullWork
      BY <2>4, <3>1 DEF GetWrite, Works, NullWork
    <3> QED BY <2>4, <3>2 DEF GetWrite
  <2> QED BY <1>3, <2>1, <2>2, <2>3, <2>4 DEF Consume
<1>4. CASE SpuriousWakeup
  BY <1>4 DEF SpuriousWakeup
<1>5. CASE UNCHANGED vars
  BY <1>5 DEF vars
<1> QED BY <1>1, <1>2, <1>3, <1>4, <1>5 DEF Next

\* An add leaves the front of a queue that has one where it is.
LEMMA PeekStep == IInv /\ [Next]_vars => PeekedIsNext'
<1> SUFFICES ASSUME IInv, [Next]_vars PROVE PeekedIsNext'
  OBVIOUS
<1> USE ConsumerAssumption
    DEF IInv, TypeOK, Roles, PeekedIsNext, NoLostUpdate, Goto, Threads
<1>1. ASSUME NEW p \in Producers, Produce(p) PROVE PeekedIsNext'
  <2>1. CASE AddLock(p) \/ AddRead(p) \/ AddNotify(p) \/ Release(p)
    BY <2>1 DEF AddLock, AddRead, AddNotify, Release
  <2>2. CASE AddWrite(p)
    <3>1. workQueue' = Append(workQueue, added') /\ added' \in Works
      BY <2>2 DEF AddWrite, Works
    <3>2. workQueue # <<>> => Head(workQueue') = Head(workQueue)
      BY <3>1
    <3>3. workQueue' # <<>>
      BY <2>2 DEF AddWrite
    <3> QED BY <2>2, <3>2, <3>3 DEF AddWrite
  <2> QED BY <1>1, <2>1, <2>2 DEF Produce
<1>2. ASSUME NEW p \in Clearers, EmptyOut(p) PROVE PeekedIsNext'
  BY <1>2, ClearersAssumption DEF EmptyOut, ClearLock, ClearPop
<1>3. CASE Consume
  <2>1. CASE WaitLock \/ WaitTest \/ WaitRelock
    BY <2>1 DEF WaitLock, WaitTest, WaitRelock
  <2>2. CASE GetLock \/ GetEmpty \/ GetRead \/ GetUnlock \/ TopLock
    BY <2>2 DEF GetLock, GetEmpty, GetRead, GetUnlock, TopLock
  <2>3. CASE TopRead
    BY <2>3 DEF TopRead
  <2>4. CASE GetWrite
    BY <2>4 DEF GetWrite
  <2> QED BY <1>3, <2>1, <2>2, <2>3, <2>4 DEF Consume
<1>4. CASE SpuriousWakeup
  BY <1>4 DEF SpuriousWakeup
<1>5. CASE UNCHANGED vars
  BY <1>5 DEF vars
<1> QED BY <1>1, <1>2, <1>3, <1>4, <1>5 DEF Next

\* Works leave the queue in the order of their numbers.
LEMMA OrderedStep == IInv /\ [Next]_vars => Ordered'
<1> SUFFICES ASSUME IInv, [Next]_vars PROVE Ordered'
  OBVIOUS
<1> USE ConsumerAssumption
    DEF IInv, TypeOK, Roles, Ordered, NoLostUpdate, Goto, Threads
<1>1. ASSUME NEW p \in Producers, Produce(p) PROVE Ordered'
  <2>1. CASE AddLock(p) \/ AddRead(p) \/ AddNotify(p) \/ Release(p)
    BY <2>1 DEF AddLock, AddRead, AddNotify, Release
  <2>2. CASE AddWrite(p)
    <3>1. workQueue' = Append(workQueue, added + 1) /\ added' = added + 1
      BY <2>2 DEF AddWrite
    <3>2. /\ Len(workQueue') = Len(workQueue) + 1
          /\ workQueue'[Len(workQueue')] = added + 1
          /\ \A i \in 1..Len(workQueue) : workQueue'[i] = workQueue[i]
      BY <3>1
    <3>3. \A i \in 1..Len(workQueue) : workQueue[i] \in Nat
      BY DEF Works
    <3> QED BY <2>2, <3>1, <3>2, <3>3 DEF AddWrite
  <2> QED BY <1>1, <2>1, <2>2 DEF Produce
<1>2. ASSUME NEW p \in Clearers, EmptyOut(p) PROVE Ordered'
  BY <1>2, ClearersAssumption DEF EmptyOut, ClearLock, ClearPop
<1>3. CASE Consume
  <2>1. CASE WaitLock \/ WaitTest \/ WaitRelock
    BY <2>1 DEF WaitLock, WaitTest, WaitRelock
  <2>2. CASE GetLock \/ GetEmpty \/ GetRead \/ GetUnlock \/ TopLock
    BY <2>2 DEF GetLock, GetEmpty, GetRead, GetUnlock, TopLock
  <2>3. CASE TopRead
    BY <2>3 DEF TopRead
  <2>4. CASE GetWrite
    <3>1. snap[Consumer] = workQueue /\ workQueue # <<>>
      BY <2>4 DEF GetWrite, FrontKept
    <3>2. taken' = workQueue[1] /\ workQueue' = Tail(workQueue)
      BY <2>4, <3>1 DEF GetWrite
    <3>3. /\ Len(workQueue') = Len(workQueue) - 1
          /\ \A i \in 1..Len(workQueue') : workQueue'[i] = workQueue[i + 1]
      BY <3>1, <3>2
    <3>4. added' = added
      BY <2>4 DEF GetWrite
    <3> QED BY <3>1, <3>2, <3>3, <3>4
  <2> QED BY <1>3, <2>1, <2>2, <2>3, <2>4 DEF Consume
<1>4. CASE SpuriousWakeup
  BY <1>4 DEF SpuriousWakeup
<1>5. CASE UNCHANGED vars
  BY <1>5 DEF vars
<1> QED BY <1>1, <1>2, <1>3, <1>4, <1>5 DEF Next

-----------------------------------------------------------------------------
\* The invariant holds in every state of every run of the queue.
LEMMA Invariance == Spec => []IInv
<1>1. IInv /\ [Next]_vars => IInv'
  BY TypeStep, OwnerStep, UpdateStep, WakeupStep, FrontStep, PeekStep,
     OrderedStep DEF IInv
<1> QED BY InitEstablishes, <1>1, PTL DEF Spec

\* Every variable keeps its type, for any set of producers.
THEOREM TypeCorrect == Spec => []TypeOK
BY Invariance, PTL DEF IInv

\* No push or pop overwrites another thread's: the mutex of add, get and clear
\* is enough however many threads use the queue.
THEOREM NoUpdateIsLost == Spec => []NoLostUpdate
BY Invariance, PTL DEF IInv

\* The consumer never sleeps on a queue that has a work, unless the producer
\* that put it there is still on its way to notify_one.
THEOREM NoWakeupIsLost == Spec => []NoLostWakeup
BY Invariance, PTL DEF IInv

\* A get after waitForWork returns null only if the queue was cleared.
THEOREM NullMeansCleared == Spec => []NullOnlyAfterClear
BY Invariance, PTL DEF IInv

\* What top showed is what the next get returns, unless the queue was cleared.
THEOREM PeekedComesNext == Spec => []PeekedIsNext
BY Invariance, PTL DEF IInv

\* The queue of mutex, condition variable and non-atomic pushes and pops
\* implements the atomic first-in first-out queue of WorkFifo.
THEOREM ImplementsFifo == Spec => FifoSpec
<1>1. Init => Fifo!Init
  BY DEF Init, Fifo!Init
<1>2. IInv /\ [Next]_vars => [Fifo!Next]_Fifo!vars
  <2> SUFFICES ASSUME IInv, [Next]_vars PROVE [Fifo!Next]_Fifo!vars
    OBVIOUS
  <2> USE DEF Fifo!Next, Fifo!vars
  <2>1. ASSUME NEW p \in Producers, Produce(p) PROVE [Fifo!Next]_Fifo!vars
    <3>1. CASE AddWrite(p)
      BY <3>1 DEF AddWrite, Fifo!Add, IInv, TypeOK, NoLostUpdate, Threads
    <3>2. CASE AddLock(p) \/ AddRead(p) \/ AddNotify(p) \/ Release(p)
      BY <3>2 DEF AddLock, AddRead, AddNotify, Release
    <3> QED BY <2>1, <3>1, <3>2 DEF Produce
  <2>2. ASSUME NEW p \in Clearers, EmptyOut(p) PROVE [Fifo!Next]_Fifo!vars
    BY <2>2 DEF EmptyOut, ClearLock, ClearPop, Fifo!Clear
  <2>3. CASE Consume
    <3>1. CASE GetWrite
      <4>1. snap[Consumer] = workQueue /\ workQueue # <<>>
        BY <3>1 DEF GetWrite, IInv, NoLostUpdate, FrontKept, Threads
      <4>2. Head(workQueue) > taken
        BY <4>1 DEF IInv, TypeOK, Ordered, Works
      <4> QED BY <3>1, <4>1, <4>2 DEF GetWrite, Fifo!Take
    <3>2. CASE WaitLock \/ WaitTest \/ WaitRelock \/ GetLock \/ GetEmpty
      BY <3>2 DEF WaitLock, WaitTest, WaitRelock, GetLock, GetEmpty
    <3>3. CASE GetRead \/ GetUnlock \/ TopLock \/ TopRead
      BY <3>3 DEF GetRead, GetUnlock, TopLock, TopRead
    <3> QED BY <2>3, <3>1, <3>2, <3>3 DEF Consume
  <2>4. CASE SpuriousWakeup
    BY <2>4 DEF SpuriousWakeup
  <2>5. CASE UNCHANGED vars
    BY <2>5 DEF vars
  <2> QED BY <2>1, <2>2, <2>3, <2>4, <2>5 DEF Next
<1> QED BY Invariance, <1>1, <1>2, PTL DEF Spec, FifoSpec, Fifo!Spec
=============================================================================
