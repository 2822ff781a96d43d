---------------------------- MODULE ThreadPoolProofs ----------------------------
(***************************************************************************)
(* The thread pool of src/runtime/thread_pool.cc.  SpscTaskQueue is        *)
(* correct for every size of the ring that an int8_t can count: its safety *)
(* invariants, and that it implements TaskQueue.  Over such queues Launch  *)
(* joins its tasks and the barrier holds for every number of workers.      *)
(***************************************************************************)
EXTENDS SpscTaskQueue, ThreadPool, TLAPS
-----------------------------------------------------------------------------
(* The queue of a worker. *)

(* Wrapping around, without the modulus. *)
LEMMA AdvanceWraps ==
  ASSUME NEW i \in Slots
  PROVE  Advance(i) = IF i + 1 = kRingSize THEN 0 ELSE i + 1
<1>1. kRingSize \in Nat /\ kRingSize > 0 /\ i \in Nat /\ i < kRingSize
  BY QueueAssumption, SMT, SMTT(20) DEF Slots
<1>2. CASE i + 1 = kRingSize
  <2>1. kRingSize % kRingSize = 0
    BY <1>1, Z3
  <2> QED  BY <1>1, <1>2, <2>1, Zenon DEF Advance
<1>3. CASE i + 1 # kRingSize
  <2>1. i + 1 < kRingSize
    BY <1>1, <1>3, SMT, SMTT(20)
  <2>2. (i + 1) % kRingSize = i + 1
    BY <1>1, <2>1, Z3
  <2> QED  BY <1>3, <2>2, Zenon DEF Advance
<1> QED  BY <1>2, <1>3, Zenon

(* The counter does not wrap around. *)
LEMMA Int8Exact == \A n \in -128 .. 127 : Int8(n) = n
BY SMT, SMTT(20) DEF Int8

(* How many tasks there are, and what advancing tail_ and head_ does. *)
LEMMA CountRange ==
  ASSUME NEW h \in Slots, NEW t \in Slots
  PROVE  Count(h, t) \in 0 .. kRingSize - 1 /\ (Count(h, t) = 0 <=> h = t)
BY QueueAssumption, SMT, SMTT(20) DEF Slots, Count

(* A slot taken at the tail is one element more. *)
LEMMA CountPush ==
  ASSUME NEW h \in Slots, NEW t \in Slots, Advance(t) # h
  PROVE  /\ Advance(t) \in Slots /\ Count(h, t) < kRingSize - 1
         /\ Count(h, Advance(t)) = Count(h, t) + 1
BY QueueAssumption, AdvanceWraps, SMT, SMTT(20) DEF Slots, Count

(* A slot freed at the head is one element less. *)
LEMMA CountPop ==
  ASSUME NEW h \in Slots, NEW t \in Slots, h # t
  PROVE  Advance(h) \in Slots /\ Count(Advance(h), t) = Count(h, t) - 1
BY QueueAssumption, AdvanceWraps, SMT, SMTT(20) DEF Slots, Count

(* A ring that is not full has a slot at the tail. *)
LEMMA CountFull ==
  ASSUME NEW h \in Slots, NEW t \in Slots, Count(h, t) < kRingSize - 1
  PROVE  Advance(t) # h
BY QueueAssumption, AdvanceWraps, SMT, SMTT(20) DEF Slots, Count
-----------------------------------------------------------------------------

(* The invariant holds of a new queue. *)
LEMMA InitIInv == Init => IInv
<1> SUFFICES ASSUME Init PROVE IInv
  BY Zenon
<1>1. 0 \in Slots /\ Count(0, 0) = 0
  BY QueueAssumption, SMT, SMTT(20) DEF Slots, Count
<1>2. TypeOK
  <2>1. \A n \in Nat : n < kRingSize => n \in -1 .. kRingSize - 1
    BY QueueAssumption, SMT, SMTT(20)
  <2>2. pending_ \in -1 .. kRingSize - 1
    BY <2>1, QueueAssumption, SMT, SMTT(20) DEF Init
  <2> QED  BY <1>1, <2>2, Zenon DEF Init, TypeOK
<1>3. pending_ = Count(head_, tail_) - First - Uncounted - Reserved
  BY <1>1, SMT, SMTT(20) DEF Init, First, Uncounted, Reserved
<1> QED  BY <1>2, <1>3, SMT, SMTT(20) DEF Init, IInv

(* Every step of the launching thread preserves the invariant. *)
LEMMA PushIInv == IInv /\ (PushStep \/ \E t \in Task : Push(t)) => IInv'
<1> SUFFICES ASSUME IInv, PushStep \/ \E t \in Task : Push(t) PROVE IInv'
  BY Zenon
<1>0. Count(head_, tail_) \in 0 .. kRingSize - 1
  BY CountRange, Zenon DEF IInv, TypeOK
<1> USE DEF IInv, TypeOK, Uncounted, Reserved, First, Full, ring, pusher, popper
<1>1. CASE \E t \in Task : Push(t)
  BY <1>1, SMT, SMTT(20) DEF Push
<1>2. CASE EnqueueStart
  BY <1>2, Zenon DEF EnqueueStart
<1>3. CASE EnqueueWrite
  BY <1>3, Zenon DEF EnqueueWrite
<1>4. CASE EnqueuePublish
  <2>1. tail_' \in Slots /\ Count(head_', tail_') = Count(head_, tail_) + 1
    BY <1>4, CountPush, Zenon DEF EnqueuePublish
  <2> QED  BY <1>0, <1>4, <2>1, SMT, SMTT(20) DEF EnqueuePublish
<1>5. CASE PushCount
  <2>2. pending_ + 1 \in 0 .. kRingSize - 1
    BY <1>0, <1>5, QueueAssumption, SMT, SMTT(20) DEF PushCount
  <2>3. pending_' = pending_ + 1
    BY <1>5, <2>2, Int8Exact, QueueAssumption, SMT, SMTT(20) DEF PushCount
  <2> QED  BY <1>0, <1>5, <2>2, <2>3, QueueAssumption, SMT, SMTT(20) DEF PushCount, WakeUp
<1>6. CASE PushNotify
  BY <1>6, Zenon DEF PushNotify
<1> QED  BY <1>1, <1>2, <1>3, <1>4, <1>5, <1>6, Zenon DEF PushStep

(* Every step of the worker preserves the invariant. *)
LEMMA PopIInv == IInv /\ (PopStep \/ SpuriousWakeUp \/ SignalForKill) => IInv'
<1> SUFFICES ASSUME IInv, PopStep \/ SpuriousWakeUp \/ SignalForKill PROVE IInv'
  BY Zenon
<1>0. Count(head_, tail_) \in 0 .. kRingSize - 1
  BY CountRange, Zenon DEF IInv, TypeOK
<1> USE DEF IInv, TypeOK, Uncounted, Reserved, First, Full, ring, pusher, popper
<1>1. CASE Pop
  BY <1>1, Zenon DEF Pop
<1>2. CASE PopCount
  <2>1. pending_' = pending_ - 1
    BY <1>2, Int8Exact, QueueAssumption, SMT, SMTT(20) DEF PopCount
  <2>2. pending_' \in -1 .. kRingSize - 1
    BY <1>2, <2>1, QueueAssumption, SMT, SMTT(20) DEF PopCount
  <2>3. pop' \in {"lock", "exit?"} /\ (pop' = "exit?" => pending_' >= 0)
    <3>1. pending_ \in Nat
      BY <1>2, SMT, SMTT(20) DEF PopCount
    <3>2. pending_ # 0 => pending_ - 1 >= 0
      BY <3>1, SMT, SMTT(20)
    <3>3. /\ pending_ = 0 => pop' = "lock"
          /\ pending_ # 0 => pop' = "exit?"
      BY <1>2, Zenon DEF PopCount
    <3> QED  BY <2>1, <3>2, <3>3, Zenon
  <2>4. /\ pop = "spin"
        /\ UNCHANGED <<buffer_, head_, tail_, push, input, exit_now_, output, mutex_>>
    BY <1>2, Zenon DEF PopCount
  <2> QED  BY <1>0, <2>1, <2>2, <2>3, <2>4, SMT, SMTT(20)
<1>3. CASE PopLock
  BY <1>3, Zenon DEF PopLock
<1>4. CASE PopTest
  BY <1>4, Zenon DEF PopTest, Ready
<1>5. CASE PopSleep
  BY <1>5, Zenon DEF PopSleep
<1>6. CASE PopExit
  BY <1>6, Zenon DEF PopExit
<1>7. CASE PopTake
  <2>1. output' \in Task
    BY <1>7, Zenon DEF PopTake
  <2> QED  BY <1>0, <1>7, <2>1, SMT, SMTT(20) DEF PopTake
<1>8. CASE PopAdvance
  <2>1. Count(head_, tail_) \in 1 .. kRingSize - 1 /\ head_ # tail_
    BY <1>0, <1>8, CountRange, QueueAssumption, SMT, SMTT(20) DEF PopAdvance
  <2>2. head_' \in Slots /\ Count(head_', tail_') = Count(head_, tail_) - 1
    BY <1>8, <2>1, CountPop, Zenon DEF PopAdvance
  <2>3. Count(head_', tail_') < kRingSize - 1
    BY <2>1, <2>2, QueueAssumption, SMT, SMTT(20)
  <2>4. Advance(tail_') # head_'
    BY <1>8, <2>2, <2>3, CountFull, Zenon DEF PopAdvance
  <2> QED  BY <1>8, <2>1, <2>2, <2>4, SMT, SMTT(20) DEF PopAdvance
<1>9. CASE SpuriousWakeUp
  BY <1>9, Zenon DEF SpuriousWakeUp
<1>10. CASE SignalForKill
  BY <1>10, Zenon DEF SignalForKill
<1> QED  BY <1>1, <1>2, <1>3, <1>4, <1>5, <1>6, <1>7, <1>8, <1>9, <1>10, Zenon DEF PopStep

(* A stutter preserves it. *)
LEMMA StutterIInv == IInv /\ UNCHANGED vars => IInv'
BY SMT, SMTT(20) DEF IInv, TypeOK, Uncounted, Reserved, First, Full, vars

(* The invariant holds in every reachable state of the queue. *)
LEMMA Inductive == Spec => []IInv
<1>1. IInv /\ [Next]_vars => IInv'
  BY PushIInv, PopIInv, StutterIInv, Zenon DEF Next
<1> QED  BY <1>1, InitIInv, PTL DEF Spec

(* The sanity check of Pop never fails, for any ring. *)
THEOREM PopChecked == Spec => []PopFindsTask
<1>1. IInv => PopFindsTask
  <2> SUFFICES ASSUME IInv, pop = "take" PROVE tail_ # head_
    BY Zenon DEF PopFindsTask
  <2>1. Count(head_, tail_) \in 0 .. kRingSize - 1 /\ (Count(head_, tail_) = 0 <=> head_ = tail_)
    BY CountRange, Zenon DEF IInv, TypeOK
  <2> QED  BY <2>1, QueueAssumption, SMT, SMTT(20) DEF IInv, TypeOK, First, Uncounted, Reserved
<1> QED  BY <1>1, Inductive, PTL

(* A sleeping worker has nothing to do or is about to be notified. *)
THEOREM WakeUpsArrive == Spec => []NoLostWakeUp
<1>1. IInv => NoLostWakeUp
  BY Zenon DEF IInv, NoLostWakeUp
<1> QED  BY <1>1, Inductive, PTL
-----------------------------------------------------------------------------
(* The ring implements the queue. *)

(* Slots stay in the ring. *)
LEMMA SlotRange ==
  ASSUME NEW h \in Slots, NEW i \in Slots
  PROVE  Slot(h, i) \in Slots
BY QueueAssumption, SMT, SMTT(20) DEF Slots, Slot

(* The slot behind the last element is the tail, and no element's. *)
LEMMA SlotLast ==
  ASSUME NEW h \in Slots, NEW t \in Slots
  PROVE  Slot(h, Count(h, t)) = t /\ \A i \in 0 .. Count(h, t) - 1 : Slot(h, i) # t
BY QueueAssumption, SMT, SMTT(20) DEF Slots, Slot, Count

(* Moving the head renumbers the elements. *)
LEMMA SlotAdvance ==
  ASSUME NEW h \in Slots, NEW i \in 0 .. kRingSize - 2
  PROVE  Slot(Advance(h), i) = Slot(h, i + 1)
BY QueueAssumption, AdvanceWraps, SMT, SMTT(20) DEF Slots, Slot

(* The tasks in the ring, as far as the worker has not read them. *)
LEMMA ContentsLen ==
  ASSUME IInv
  PROVE  /\ Count(head_, tail_) - First \in 0 .. kRingSize - 1
         /\ Contents \in Seq(Task) /\ Len(Contents) = Count(head_, tail_) - First
<1>1. Count(head_, tail_) \in 0 .. kRingSize - 1 /\ head_ \in Slots /\ tail_ \in Slots
  BY CountRange, Zenon DEF IInv, TypeOK
<1>2. Count(head_, tail_) - First \in 0 .. kRingSize - 1
  BY <1>1, QueueAssumption, SMT, SMTT(20) DEF IInv, TypeOK, First, Uncounted, Reserved
<1>3. \A i \in 1 .. Count(head_, tail_) - First : i - 1 + First \in Slots
  BY <1>1, <1>2, QueueAssumption, SMT, SMTT(20) DEF First, Slots
<1>4. \A i \in 1 .. Count(head_, tail_) - First : buffer_[Slot(head_, i - 1 + First)] \in Task
  BY <1>1, <1>3, SlotRange, Zenon DEF IInv, TypeOK
<1>5. Contents \in [1 .. Count(head_, tail_) - First -> Task]
  BY <1>4, Zenon DEF Contents
<1> QED  BY <1>2, <1>5, SMT, SMTT(20)

(* Publishing the tail in SpscTaskQueue::Enqueue is the queue's Put. *)
LEMMA PublishPuts == IInv /\ EnqueuePublish => Queue!Put(input)
<1> SUFFICES ASSUME IInv, EnqueuePublish PROVE Queue!Put(input)
  BY Zenon
<1> DEFINE n == Count(head_, tail_) - First
<1>1. n \in 0 .. kRingSize - 1 /\ Contents \in Seq(Task) /\ Len(Contents) = n
  BY ContentsLen, Zenon
<1>2. /\ head_ \in Slots /\ tail_ \in Slots /\ Advance(tail_) # head_ /\ buffer_[tail_] = input
      /\ UNCHANGED <<buffer_, head_, pop, output, exit_now_>> /\ tail_' = Advance(tail_)
      /\ input \in Task
  BY Zenon DEF IInv, TypeOK, EnqueuePublish, Full, popper
<1>3. /\ Count(head_, tail_) \in 0 .. kRingSize - 1 /\ Count(head_, tail_) < kRingSize - 1
      /\ Count(head_, tail_)' = Count(head_, tail_) + 1
  BY <1>2, CountPush, CountRange, Zenon
<1>4. n < kRingSize - 1 /\ First' = First /\ First \in {0, 1}
  BY <1>2, <1>3, QueueAssumption, SMT, SMTT(20) DEF First
<1>5. Contents' = [i \in 1 .. n + 1 |-> buffer_[Slot(head_, i - 1 + First)]]
  BY <1>1, <1>2, <1>3, <1>4, SMT, SMTT(20) DEF Contents
<1>6. buffer_[Slot(head_, (n + 1) - 1 + First)] = input
  <2>1. (n + 1) - 1 + First = Count(head_, tail_)
    BY <1>1, <1>3, <1>4, SMT, SMTT(20)
  <2> QED  BY <1>2, <2>1, SlotLast, Zenon
<1>7. Contents' = Append(Contents, input)
  <2> DEFINE longer == Append(Contents, input)
  <2>1. /\ longer \in [1 .. n + 1 -> Task] /\ longer[n + 1] = input
        /\ \A i \in 1 .. n : longer[i] = Contents[i]
    <3>1. longer \in Seq(Task) /\ Len(longer) = n + 1
      BY <1>1, <1>2, SMT, SMTT(20)
    <3>2. longer[Len(Contents) + 1] = input /\ \A i \in 1 .. Len(Contents) : longer[i] = Contents[i]
      BY <1>1, <1>2, SMT, SMTT(20)
    <3> HIDE DEF longer
    <3>3. longer \in [1 .. Len(longer) -> Task]
      BY <3>1, SMT, SMTT(20)
    <3> HIDE DEF n
    <3> QED  BY <1>1, <3>1, <3>2, <3>3, Zenon
  <2>2. \A i \in 1 .. n : Contents[i] = buffer_[Slot(head_, i - 1 + First)]
    BY Zenon DEF Contents
  <2>3. \A i \in 1 .. n + 1 : longer[i] = buffer_[Slot(head_, i - 1 + First)]
    <3> HIDE DEF longer, n
    <3>1. ASSUME NEW i \in 1 .. n + 1, i # n + 1 PROVE i \in 1 .. n
      BY <1>1, <3>1, SMT, SMTT(20)
    <3> QED  BY <1>6, <2>1, <2>2, <3>1, Zenon
  <2> QED  BY <1>5, <2>1, <2>3, Zenon
<1> QED  BY <1>1, <1>2, <1>4, <1>7, Zenon DEF Queue!Put

(* Reading the slot in SpscTaskQueue::Pop, still before the head moves, is *)
(* the queue's Take.                                                       *)
LEMMA TakeTakes == IInv /\ PopTake => Queue!Take
<1> SUFFICES ASSUME IInv, PopTake PROVE Queue!Take
  BY Zenon
<1> DEFINE n == Count(head_, tail_)
<1>1. pop = "take" /\ pop' = "advance" /\ First = 0 /\ First' = 1
  BY Zenon DEF PopTake, First
<1>2. Contents \in Seq(Task) /\ Len(Contents) = n /\ n \in 1 .. kRingSize - 1
  <2>1. n \in 0 .. kRingSize - 1 /\ Contents \in Seq(Task) /\ Len(Contents) = n
    BY <1>1, ContentsLen, CountRange, SMT, SMTT(20) DEF IInv, TypeOK
  <2> QED  BY <1>1, <2>1, QueueAssumption, SMT, SMTT(20)
              DEF IInv, TypeOK, First, Uncounted, Reserved
<1>3. UNCHANGED <<buffer_, head_, tail_, exit_now_>> /\ output' = buffer_[head_] /\ head_ \in Slots
  BY Zenon DEF PopTake, IInv, TypeOK, ring
<1>4. \A i \in 1 .. n : Contents[i] = buffer_[Slot(head_, i - 1)]
  BY <1>1, <1>2, SMT, SMTT(20) DEF Contents
<1>5. Head(Contents) = buffer_[head_]
  <2>1. Slot(head_, 1 - 1) = head_
    BY <1>3, QueueAssumption, SMT, SMTT(20) DEF Slot, Slots
  <2>2. Contents[1] = buffer_[head_]
    BY <1>2, <1>4, <2>1, SMT, SMTT(20)
  <2> QED  BY <1>2, <2>2, SMT, SMTT(20)
<1>6. Contents' = [i \in 1 .. n - 1 |-> buffer_[Slot(head_, i)]]
  <2>1. Contents' = [i \in 1 .. n - 1 |-> buffer_[Slot(head_, i - 1 + 1)]]
    BY <1>1, <1>3, Zenon DEF Contents
  <2>2. \A i \in 1 .. n - 1 : i - 1 + 1 = i
    BY <1>2, SMT, SMTT(20)
  <2> QED  BY <2>1, <2>2, Zenon
<1>7. Tail(Contents) = [i \in 1 .. n - 1 |-> buffer_[Slot(head_, i)]]
  <2>1. /\ Tail(Contents) \in [1 .. n - 1 -> Task]
        /\ \A i \in 1 .. n - 1 : Tail(Contents)[i] = Contents[i + 1]
    <3>1. Contents # <<>>
      BY <1>2, SMT, SMTT(20)
    <3>2. Tail(Contents) \in Seq(Task) /\ Len(Tail(Contents)) = n - 1
      BY <1>2, <3>1, SMT, SMTT(20)
    <3>3. ASSUME NEW q \in Seq(Task) PROVE q \in [1 .. Len(q) -> Task]
      BY SMT, SMTT(20)
    <3>4. \A i \in 1 .. n - 1 : Tail(Contents)[i] = Contents[i + 1]
      BY <1>2, <3>1, SMT, SMTT(20)
    <3>5. Tail(Contents) \in [1 .. Len(Tail(Contents)) -> Task]
      BY <3>2, <3>3, Zenon
    <3> QED  BY <3>2, <3>4, <3>5, Zenon
  <2>2. \A i \in 1 .. n - 1 : i + 1 \in 1 .. n /\ (i + 1) - 1 = i
    BY <1>2, SMT, SMTT(20)
  <2>3. \A i \in 1 .. n - 1 : Contents[i + 1] = buffer_[Slot(head_, i)]
    BY <1>4, <2>2, Zenon
  <2> QED  BY <2>1, <2>3, Zenon
<1>8. Contents # <<>>
  BY <1>2, SMT, SMTT(20)
<1> QED  BY <1>3, <1>5, <1>6, <1>7, <1>8, Zenon DEF Queue!Take

(* Writing the free slot, and advancing head_ past what was read, leave    *)
(* the contents alone.                                                     *)
LEMMA WriteStutters == IInv /\ EnqueueWrite => Contents' = Contents
<1> SUFFICES ASSUME IInv, EnqueueWrite PROVE Contents' = Contents
  BY Zenon
<1> DEFINE n == Count(head_, tail_) - First
<1>1. n \in 0 .. kRingSize - 1
  BY ContentsLen, Zenon
<1>2. /\ head_ \in Slots /\ tail_ \in Slots /\ UNCHANGED <<head_, tail_, pop>>
      /\ buffer_ \in [Slots -> Task] /\ buffer_' = [buffer_ EXCEPT ![tail_] = input]
  BY Zenon DEF IInv, TypeOK, EnqueueWrite, popper
<1>3. First' = First /\ First \in {0, 1} /\ n' = n /\ Count(head_, tail_) \in 0 .. kRingSize - 1
  BY <1>2, CountRange, Zenon DEF First
<1>4. \A i \in 1 .. n : buffer_'[Slot(head_, i - 1 + First)] = buffer_[Slot(head_, i - 1 + First)]
  <2> TAKE i \in 1 .. n
  <2>1. i - 1 + First \in 0 .. Count(head_, tail_) - 1 /\ i - 1 + First \in Slots
    BY <1>1, <1>3, QueueAssumption, SMT, SMTT(20) DEF Slots
  <2>2. Slot(head_, i - 1 + First) # tail_ /\ Slot(head_, i - 1 + First) \in Slots
    BY <1>2, <2>1, SlotLast, SlotRange, Zenon
  <2> QED  BY <1>2, <2>2, Zenon
<1> QED  BY <1>2, <1>3, <1>4, Zenon DEF Contents

(* Moving the head afterwards changes no content. *)
LEMMA AdvanceStutters == IInv /\ PopAdvance => Contents' = Contents
<1> SUFFICES ASSUME IInv, PopAdvance PROVE Contents' = Contents
  BY Zenon
<1> DEFINE n == Count(head_, tail_) - 1
<1>1. pop = "advance" /\ First = 1 /\ First' = 0
  BY Zenon DEF PopAdvance, First
<1>2. /\ head_ \in Slots /\ tail_ \in Slots /\ UNCHANGED <<buffer_, tail_>>
      /\ head_' = Advance(head_)
  BY Zenon DEF IInv, TypeOK, PopAdvance
<1>3. n \in 0 .. kRingSize - 2 /\ Count(head_, tail_) \in Nat
  <2>1. Count(head_, tail_) \in 0 .. kRingSize - 1 /\ Count(head_, tail_) - First \in Nat
    BY <1>2, ContentsLen, CountRange, SMT, SMTT(20)
  <2> QED  BY <1>1, <2>1, QueueAssumption, SMT, SMTT(20)
<1>4. Count(head_, tail_)' = n
  <2>1. head_ # tail_
    BY <1>2, <1>3, CountRange, SMT, SMTT(20)
  <2> QED  BY <1>2, <2>1, CountPop, Zenon
<1>5. Contents = [i \in 1 .. n |-> buffer_[Slot(head_, i - 1 + 1)]]
  BY <1>1, Zenon DEF Contents
<1>6. Contents' = [i \in 1 .. n |-> buffer_[Slot(head_', i - 1)]]
  <2>1. Contents' = [i \in 1 .. n - 0 |-> buffer_[Slot(head_', i - 1 + 0)]]
    BY <1>1, <1>2, <1>4, Zenon DEF Contents
  <2>2. n - 0 = n /\ \A i \in 1 .. n : i - 1 + 0 = i - 1
    BY <1>3, SMT, SMTT(20)
  <2> QED  BY <2>1, <2>2, Zenon
<1>7. \A i \in 1 .. n : Slot(head_', i - 1) = Slot(head_, i - 1 + 1)
  <2> TAKE i \in 1 .. n
  <2>1. i - 1 \in 0 .. kRingSize - 2
    BY <1>3, QueueAssumption, SMT, SMTT(20)
  <2> QED  BY <1>2, <2>1, SlotAdvance, Zenon
<1> QED  BY <1>5, <1>6, <1>7, Zenon

(* The queue implements TaskQueue with capacity kRingSize - 1. *)
THEOREM RingIsQueue == Spec => IsQueue
<1>1. Init => Queue!Init
  <2> SUFFICES ASSUME Init PROVE Queue!Init
    BY Zenon
  <2>1. Len(Contents) = 0 /\ Contents \in Seq(Task)
    <3>1. Count(head_, tail_) = 0 /\ First = 0
      BY SMT, SMTT(20) DEF Init, Count, First
    <3> QED  BY <3>1, InitIInv, ContentsLen, SMT, SMTT(20)
  <2> QED  BY <2>1, SMT, SMTT(20) DEF Init, Queue!Init
<1>2. IInv /\ [Next]_vars => [Queue!Next]_<<Contents, output, exit_now_>>
  <2> SUFFICES ASSUME IInv, [Next]_vars
               PROVE  Queue!Next \/ UNCHANGED <<Contents, output, exit_now_>>
    BY Zenon
  <2>1. CASE EnqueuePublish
    BY <2>1, PublishPuts, Zenon DEF Queue!Next, IInv, TypeOK
  <2>2. CASE PopTake
    BY <2>2, TakeTakes, Zenon DEF Queue!Next
  <2>3. CASE EnqueueWrite
    BY <2>3, WriteStutters, Zenon DEF EnqueueWrite, popper
  <2>4. CASE PopAdvance
    BY <2>4, AdvanceStutters, Zenon DEF PopAdvance
  <2>5. CASE SignalForKill
    <3>1. First' = First /\ UNCHANGED <<buffer_, head_, tail_, output>> /\ exit_now_' = TRUE
      BY <2>5, Zenon DEF SignalForKill, First, ring
    <3> QED  BY <3>1, Zenon DEF Queue!Next, Queue!Close, Contents
  <2>6. CASE \/ EnqueueStart \/ PushCount \/ PushNotify \/ \E t \in Task : Push(t)
            \/ Pop \/ PopCount \/ PopLock \/ PopTest \/ PopSleep \/ SpuriousWakeUp \/ PopExit
            \/ UNCHANGED vars
    <3>1. First' = First /\ UNCHANGED <<buffer_, head_, tail_, output, exit_now_>>
      BY <2>6, Zenon
         DEF EnqueueStart, PushCount, PushNotify, Push, Pop, PopCount, PopLock, PopTest,
                  PopSleep, SpuriousWakeUp, PopExit, First, ring, popper, vars
    <3> QED  BY <3>1, Zenon DEF Contents
  <2> QED  BY <2>1, <2>2, <2>3, <2>4, <2>5, <2>6, Zenon DEF Next, PushStep, PopStep
<1> QED  BY <1>1, <1>2, Inductive, PTL DEF Spec, IsQueue, Queue!Spec
-----------------------------------------------------------------------------
(* The launcher and the workers. *)

(* What the proofs take from the library: how many members a set has.  The *)
(* lemmas that need it have it as a hypothesis, which LibraryHolds         *)
(* discharges: the provers read every fact in sight, and the library has   *)
(* many.                                                                   *)
Library ==
  /\ \A n \in Nat : IsFiniteSet(0 .. n - 1) /\ Cardinality(0 .. n - 1) = n
  /\ \A S : IsFiniteSet(S) => Cardinality(S) \in Nat /\ (Cardinality(S) = 0 <=> S = {})
  /\ \A S, T : IsFiniteSet(T) /\ S \subseteq T =>
       IsFiniteSet(S) /\ Cardinality(S) <= Cardinality(T)
  /\ \A S, x : IsFiniteSet(S) /\ x \in S => Cardinality(S \ {x}) = Cardinality(S) - 1

(* The tasks that have not signalled are finitely many. *)
LEMMA UnsignalledFinite ==
  ASSUME Library, PoolTypeOK
  PROVE  /\ Unsignalled \subseteq Tasks /\ IsFiniteSet(Unsignalled)
         /\ Cardinality(Unsignalled) \in Nat /\ Cardinality(Unsignalled) <= num_task
         /\ Cardinality(Unsignalled) = 0 <=> Unsignalled = {}
<1>1. num_task \in Nat
  BY SMT, SMTT(20) DEF PoolTypeOK
<1>2. IsFiniteSet(Tasks) /\ Cardinality(Tasks) = num_task
  BY <1>1, Zenon DEF Library, Tasks
<1>3. Unsignalled \subseteq Tasks
  BY Zenon DEF Unsignalled
<1>4. IsFiniteSet(Unsignalled) /\ Cardinality(Unsignalled) <= Cardinality(Tasks)
  BY <1>2, <1>3, Zenon DEF Library
<1>5. /\ Cardinality(Unsignalled) \in Nat
      /\ Cardinality(Unsignalled) = 0 <=> Unsignalled = {}
  BY <1>4, Zenon DEF Library
<1> QED  BY <1>2, <1>3, <1>4, <1>5, Zenon

(* Worker 0 is the caller's thread, the others have threads of their own. *)
LEMMA WorkersFacts == 0 \in Workers /\ Threads = 1 .. num_workers_used_ - 1
BY PoolAssumption, SMT, SMTT(20) DEF Workers, Threads

(* The tasks of a launch run on workers of the pool. *)
LEMMA TasksAreWorkers ==
  ASSUME PoolTypeOK
  PROVE  Tasks \subseteq Workers /\ \A t \in Tasks : t = 0 \/ t \in Threads
<1>1. num_task \in Nat /\ num_task <= num_workers_used_
  BY PoolAssumption, SMT, SMTT(20) DEF PoolTypeOK
<1>2. Tasks \subseteq Workers
  BY <1>1, PoolAssumption, SMT, SMTT(20) DEF Tasks, Workers
<1> QED  BY <1>2, Zenon DEF Threads

(* The launching thread. *)
LEMMA InitPoolInv == Library /\ InitPool => PoolInv
<1> SUFFICES ASSUME Library, InitPool PROVE PoolInv
  BY Zenon
<1>1. NoTask \in [Workers -> {0}]
  BY Zenon DEF NoTask
<1>2. PoolTypeOK
  <2>1. queues_ \in [Threads -> Seq(Workers)] /\ \A t \in Threads : Len(queues_[t]) <= Capacity
    BY PoolAssumption, SMT, SMTT(20) DEF InitPool
  <2>2. /\ sync_counter_ \in [Workers -> 0 .. MaxBarriers] /\ entered \in [Workers -> 0 .. MaxBarriers]
        /\ passed \in [Workers -> 0 .. MaxBarriers] /\ ran \in [Workers -> Nat]
    BY <1>1, PoolAssumption, SMT, SMTT(20) DEF InitPool
  <2>3. phase \in [Workers -> {"idle", "run", "barrier", "finish", "error", "flag", "exited"}]
    BY Zenon DEF InitPool
  <2>4. /\ num_task \in 0 .. num_workers_used_ /\ num_pending_ \in 0 .. num_workers_used_
        /\ barriers \in 0 .. MaxBarriers /\ next \in 0 .. num_workers_used_
        /\ launches \in 0 .. MaxLaunches
    BY PoolAssumption, SMT, SMTT(20) DEF InitPool
  <2> QED  BY <2>1, <2>2, <2>3, <2>4, Zenon DEF InitPool, PoolTypeOK
<1>3. Unsignalled = {} /\ num_pending_ = Cardinality(Unsignalled)
  BY <1>2, UnsignalledFinite, SMT, SMTT(20) DEF InitPool, Unsignalled, Tasks
<1>4. MainInv
  BY <1>1, WorkersFacts, SMT, SMTT(20) DEF InitPool, MainInv
<1>5. \A t \in Threads : ThreadInv(t)
  BY <1>1, SMT, SMTT(20) DEF InitPool, ThreadInv, Rest, Tasks, Threads
<1>6. (\A t \in Tasks : SyncInv(t)) /\ BarrierHolds
  BY SMT, SMTT(20) DEF InitPool, Tasks, BarrierHolds
<1> QED  BY <1>2, <1>3, <1>4, <1>5, <1>6, Zenon DEF PoolInv

(* Launch pushes a task to a worker's queue. *)
LEMMA PushPoolInv == PoolInv /\ PushTask => PoolInv'
<1> SUFFICES ASSUME PoolInv, PushTask PROVE PoolInv'
  BY Zenon
<1>1. /\ PoolTypeOK /\ main = "push" /\ next \in 1 .. num_task - 1 /\ next \in Threads /\ next \in Workers
      /\ next' = next + 1 /\ queues_' = [queues_ EXCEPT ![next] = Append(@, next)]
      /\ UNCHANGED <<killed, launcher, main, result, phase, launches, history>>
  <2>1. PoolTypeOK /\ main = "push" /\ next >= 1 /\ next < num_task
    BY Zenon DEF PoolInv, MainInv, PushTask
  <2>2. next \in Nat /\ num_task \in Nat /\ num_task <= num_workers_used_
    BY <2>1, SMT, SMTT(20) DEF PoolTypeOK
  <2>3. next \in 1 .. num_task - 1 /\ next \in 1 .. num_workers_used_ - 1
    BY <2>1, <2>2, PoolAssumption, SMT, SMTT(20)
  <2> QED  BY <2>1, <2>3, WorkersFacts, Zenon DEF PushTask, Threads
<1>2. queues_[next] = <<>> /\ queues_'[next] = <<next>>
  <2>1. ThreadInv(next) /\ ~Pushed(next) /\ next \in Tasks
    BY <1>1, SMT, SMTT(20) DEF PoolInv, Pushed, Tasks, PoolTypeOK
  <2>2. queues_[next] = <<>>
    BY <2>1, Zenon DEF ThreadInv
  <2>3. queues_'[next] = Append(<<>>, next)
    BY <1>1, <2>2, Zenon DEF PoolTypeOK
  <2> QED  BY <2>2, <2>3, SMT, SMTT(20)
<1>3. PoolTypeOK'
  <2>2. next' \in 0 .. num_workers_used_
    BY <1>1, PoolAssumption, SMT, SMTT(20) DEF PoolTypeOK
  <2>1. queues_' \in [Threads -> Seq(Workers)] /\ \A t \in Threads : Len(queues_'[t]) <= Capacity
    BY <1>1, <1>2, PoolAssumption, SMT, SMTT(20) DEF PoolTypeOK
  <2> QED  BY <1>1, <2>1, <2>2, Zenon DEF PoolTypeOK, launcher, history
<1>4. Unsignalled' = Unsignalled /\ num_pending_' = num_pending_
  BY <1>1, Zenon DEF Unsignalled, Tasks, Rest, launcher, history
<1>5. MainInv'
  BY <1>1, SMT, SMTT(20) DEF PoolInv, PoolTypeOK, MainInv, launcher, history
<1>6. \A t \in Threads : ThreadInv(t)'
  <2> TAKE t \in Threads
  <2>1. CASE t = next
    <3>1. ran[next] = 0 /\ phase[next] \in {"idle", "flag"} /\ (phase[next] = "exited" => killed)
      <4>1. ThreadInv(next) /\ ~Pushed(next) /\ ~killed
        BY <1>1, SMT, SMTT(20) DEF PoolInv, Pushed, Tasks, PoolTypeOK, MainInv
      <4> QED  BY <4>1, Zenon DEF ThreadInv, Rest
    <3>2. next \in Tasks /\ next < next + 1
      BY <1>1, SMT, SMTT(20) DEF Tasks, PoolTypeOK
    <3> QED  BY <1>1, <1>2, <2>1, <3>1, <3>2, Zenon
                DEF ThreadInv, Pushed, Tasks, launcher, history
  <2>2. CASE t # next
    <3>1. ThreadInv(t) /\ queues_'[t] = queues_[t]
      BY <1>1, <2>2, Zenon DEF PoolInv, PoolTypeOK
    <3>2. (t >= next' <=> t >= next) /\ (t < next' <=> t < next)
      <4>1. t \in Int /\ next \in Int
        BY <1>1, WorkersFacts, SMT, SMTT(20)
      <4> QED  BY <1>1, <2>2, <4>1, SMT, SMTT(20)
    <3> QED  BY <1>1, <3>1, <3>2, Zenon DEF ThreadInv, Pushed, Tasks, launcher, history
  <2> QED  BY <2>1, <2>2, Zenon
<1>7. (\A t \in Tasks' : SyncInv(t)') /\ BarrierHolds'
  BY <1>1, Zenon DEF PoolInv, SyncInv, BarrierHolds, Tasks, launcher, history
<1> QED  BY <1>3, <1>4, <1>5, <1>6, <1>7, Zenon DEF PoolInv

(* The caller starts on task 0 itself. *)
LEMMA RunFirstPoolInv == PoolInv /\ RunFirst => PoolInv'
<1> SUFFICES ASSUME PoolInv, RunFirst PROVE PoolInv'
  BY Zenon
<1>1. /\ PoolTypeOK /\ main = "push" /\ next >= num_task /\ main' = "run" /\ num_task >= 1
      /\ phase[0] = "idle" /\ ran[0] = 0 /\ phase' = [phase EXCEPT ![0] = "run"]
      /\ UNCHANGED <<queues_, killed, launcher, next, result, launches, history>>
  BY Zenon DEF PoolInv, MainInv, RunFirst
<1>2. 0 \in Workers /\ \A t \in Threads : phase'[t] = phase[t] /\ t \in Nat
  <2>1. 0 \in Workers /\ \A t \in Threads : t \in Workers /\ t # 0 /\ t \in Nat
    BY WorkersFacts, SMT, SMTT(20) DEF Threads
  <2> QED  BY <1>1, <2>1, Zenon DEF PoolTypeOK
<1>3. PoolTypeOK'
  BY <1>1, <1>2, Zenon DEF PoolTypeOK, launcher, history
<1>4. Unsignalled' = Unsignalled /\ num_pending_' = num_pending_
  <2>1. \A t \in Tasks : t = 0 \/ t \in Threads
    BY <1>1, TasksAreWorkers, Zenon
  <2> QED  BY <1>1, <1>2, <2>1, SMT, SMTT(20) DEF Unsignalled, Tasks, launcher, history
<1>5. MainInv'
  BY <1>1, <1>2, Zenon DEF PoolInv, PoolTypeOK, MainInv, launcher, history
<1>6. \A t \in Threads : ThreadInv(t)'
  <2> TAKE t \in Threads
  <2>1. t \in Tasks => ~(t >= next)
    BY <1>1, <1>2, SMT, SMTT(20) DEF PoolTypeOK, Tasks
  <2>2. phase'[t] = phase[t] /\ ThreadInv(t)
    BY <1>2, Zenon DEF PoolInv
  <2> QED  BY <1>1, <2>1, <2>2, Zenon DEF ThreadInv, Pushed, Tasks, launcher, history
<1>7. (\A t \in Tasks' : SyncInv(t)') /\ BarrierHolds'
  BY <1>1, <1>2, SMT, SMTT(20)
     DEF PoolInv, SyncInv, BarrierHolds, Tasks, launcher, history, PoolTypeOK
<1> QED  BY <1>3, <1>4, <1>5, <1>6, <1>7, Zenon DEF PoolInv

(* The caller waits for the job, returns its result, or ends the pool. *)
LEMMA WaitPoolInv == PoolInv /\ (WaitForJobs \/ ReturnResult \/ Destroy) => PoolInv'
<1> SUFFICES ASSUME PoolInv, WaitForJobs \/ ReturnResult \/ Destroy PROVE PoolInv'
  BY Zenon
<1>1. /\ PoolTypeOK /\ main # "push" /\ main' # "push"
      /\ main \in {"wait", "check", "idle"} /\ main' \in {"check", "idle"}
      /\ UNCHANGED <<queues_, launcher, next, phase, launches, history>>
  BY Zenon DEF PoolInv, WaitForJobs, ReturnResult, Destroy
<1>2. num_pending_ = 0 /\ (killed => killed') /\ (killed' => main' = "idle")
  BY SMT, SMTT(20) DEF PoolInv, MainInv, WaitForJobs, ReturnResult, Destroy, Done
<1>3. PoolTypeOK'
  <2>1. main' \in {"check", "idle"} /\ killed' \in BOOLEAN /\ result' \in {0, -1}
    BY <1>1, Zenon DEF PoolTypeOK, WaitForJobs, ReturnResult, Destroy
  <2> QED  BY <1>1, <2>1, Zenon DEF PoolTypeOK, launcher, history
<1>4. Unsignalled' = Unsignalled /\ num_pending_' = num_pending_
  BY <1>1, Zenon DEF Unsignalled, Tasks, launcher, history
<1>5. MainInv'
  BY <1>1, <1>2, Zenon
     DEF PoolInv, PoolTypeOK, MainInv, launcher, history, WaitForJobs, ReturnResult, Destroy
<1>6. \A t \in Threads : ThreadInv(t)'
  BY <1>1, <1>2, Zenon DEF PoolInv, ThreadInv, Pushed, Tasks, Rest, launcher, history
<1>7. (\A t \in Tasks' : SyncInv(t)') /\ BarrierHolds'
  BY <1>1, Zenon DEF PoolInv, SyncInv, BarrierHolds, Tasks, launcher, history
<1> QED  BY <1>3, <1>4, <1>5, <1>6, <1>7, Zenon DEF PoolInv
-----------------------------------------------------------------------------
(* The workers.  A worker with a task belongs to the launch. *)
LEMMA Busy ==
  ASSUME Library, PoolInv, NEW t \in Workers, phase[t] \notin Rest
  PROVE  /\ t \in Tasks /\ t \in Unsignalled /\ (t = 0 => main = "run")
         /\ t \in Threads => Pushed(t) /\ queues_[t] = <<>>
         /\ ran[t] = IF phase[t] \in {"run", "barrier"} THEN 0 ELSE 1
         /\ main \in {"push", "run", "wait"} /\ ~killed /\ num_pending_ >= 1
<1>1. t = 0 \/ t \in Threads
  BY Zenon DEF Threads
<1>2. CASE t = 0
  <2>1. /\ main = "run" /\ num_task >= 1 /\ ~killed
        /\ ran[0] = IF phase[0] \in {"run", "barrier"} THEN 0 ELSE 1
    BY <1>2, Zenon DEF PoolInv, MainInv, PoolTypeOK, Rest
  <2>2. 0 \in Tasks
    BY <2>1, SMT, SMTT(20) DEF Tasks, PoolInv, PoolTypeOK
  <2>3. 0 \in Unsignalled
    BY <1>2, <2>2, Zenon DEF Unsignalled
  <2>4. num_pending_ >= 1
    BY <2>3, UnsignalledFinite, SMT, SMTT(20) DEF PoolInv
  <2> QED  BY <1>2, <2>1, <2>2, <2>3, <2>4, Zenon DEF Threads
<1>3. CASE t \in Threads
  <2>1. /\ Pushed(t) /\ queues_[t] = <<>>
        /\ ran[t] = IF phase[t] \in {"run", "barrier"} THEN 0 ELSE 1
    BY <1>3, Zenon DEF PoolInv, ThreadInv, Rest
  <2>2. t \in Unsignalled
    BY <2>1, Zenon DEF Pushed, Unsignalled
  <2>3. num_pending_ >= 1
    BY <2>2, UnsignalledFinite, SMT, SMTT(20) DEF PoolInv
  <2>4. main \in {"push", "run", "wait"} /\ ~killed
    BY <2>3, SMT, SMTT(20) DEF PoolInv, MainInv, PoolTypeOK
  <2> QED  BY <1>3, <2>1, <2>2, <2>3, <2>4, Zenon DEF Pushed, Threads
<1> QED  BY <1>1, <1>2, <1>3, Zenon

(* A worker pops its task. *)
LEMMA PopPoolInv == ASSUME NEW t \in Threads PROVE Library /\ PoolInv /\ PopTask(t) => PoolInv'
<1> SUFFICES ASSUME Library, PoolInv, PopTask(t) PROVE PoolInv'
  BY Zenon
<1> DEFINE ph == IF killed THEN "exited" ELSE "run"
<1>1. /\ PoolTypeOK /\ t \in Workers /\ t # 0 /\ phase[t] = "idle" /\ phase' = [phase EXCEPT ![t] = ph]
      /\ UNCHANGED <<killed, launcher, main, next, result, launches, history>>
      /\ ThreadInv(t)
  BY Zenon DEF PoolInv, PopTask, Threads
<1>2. /\ \A u \in Workers \ {t} : phase'[u] = phase[u]
      /\ phase'[t] = ph /\ ph \in {"exited", "run"}
  BY <1>1, Zenon DEF PoolTypeOK
<1>3. \A u \in Threads \ {t} : queues_'[u] = queues_[u]
  BY Zenon DEF PopTask, PoolInv, PoolTypeOK
<1>4. /\ ~killed => ran[t] = 0 /\ queues_'[t] = <<>> /\ Pushed(t)
      /\ killed => queues_' = queues_
  <2>1. CASE ~killed
    <3>1. queues_[t] # <<>> /\ queues_' = [queues_ EXCEPT ![t] = Tail(@)]
      BY <2>1, Zenon DEF PopTask
    <3>2. queues_[t] = <<t>> /\ ran[t] = 0 /\ Pushed(t)
      BY <1>1, <3>1, Zenon DEF ThreadInv
    <3>3. queues_'[t] = Tail(<<t>>)
      BY <1>1, <3>1, <3>2, Zenon DEF PoolTypeOK
    <3> QED  BY <2>1, <3>2, <3>3, SMT, SMTT(20)
  <2>2. CASE killed
    BY <2>2, Zenon DEF PopTask
  <2> QED  BY <2>1, <2>2, Zenon
<1>5. PoolTypeOK'
  <2>1. queues_' \in [Threads -> Seq(Workers)] /\ \A u \in Threads : Len(queues_'[u]) <= Capacity
    <3>1. CASE killed
      BY <1>1, <1>4, <3>1, Zenon DEF PoolTypeOK
    <3>2. CASE ~killed
      <4>1. queues_' = [queues_ EXCEPT ![t] = <<>>]
        BY <1>4, <3>2, Zenon DEF PopTask, PoolInv, PoolTypeOK
      <4> QED  BY <1>1, <4>1, PoolAssumption, SMT, SMTT(20) DEF PoolTypeOK
    <3> QED  BY <3>1, <3>2, Zenon
  <2>2. phase' \in [Workers -> {"idle", "run", "barrier", "finish", "error", "flag", "exited"}]
    BY <1>1, <1>2, Zenon DEF PoolTypeOK
  <2> QED  BY <1>1, <2>1, <2>2, Zenon DEF PoolTypeOK, launcher, history
<1>6. Unsignalled' = Unsignalled /\ num_pending_' = num_pending_
  <2>1. \A u \in Tasks : (ran[u] = 1 /\ phase'[u] \in Rest) <=> (ran[u] = 1 /\ phase[u] \in Rest)
    <3> TAKE u \in Tasks
    <3>1. CASE u = t
      BY <1>1, <1>2, <1>4, <3>1, SMT, SMTT(20) DEF Rest
    <3>2. CASE u # t
      BY <1>1, <1>2, <3>2, TasksAreWorkers, Zenon
    <3> QED  BY <3>1, <3>2, Zenon
  <2> QED  BY <1>1, <2>1, Zenon DEF Unsignalled, Tasks, Rest, launcher, history
<1>7. MainInv'
  BY <1>1, <1>2, WorkersFacts, Zenon DEF PoolInv, MainInv, launcher, history
<1>8. \A u \in Threads : ThreadInv(u)'
  <2> TAKE u \in Threads
  <2>1. CASE u = t /\ killed
    <3>1. Unsignalled = {} /\ main = "idle"
      BY <2>1, UnsignalledFinite, Zenon DEF PoolInv, MainInv
    <3>2. ~(ran[t] = 0 /\ Pushed(t))
      BY <3>1, SMT, SMTT(20) DEF Unsignalled, Pushed
    <3>3. /\ queues_[t] = <<>>
          /\ (ran[t] = 0 /\ (t \in Tasks => main = "push" /\ t >= next)) \/ (ran[t] = 1 /\ Pushed(t))
      BY <1>1, <3>2, Zenon DEF ThreadInv
    <3>4. phase'[t] = "exited" /\ queues_'[t] = <<>>
      BY <1>2, <1>4, <2>1, <3>3, Zenon
    <3> QED  BY <1>1, <2>1, <3>3, <3>4, Zenon
                DEF ThreadInv, Pushed, Tasks, Rest, launcher, history
  <2>2. CASE u = t /\ ~killed
    BY <1>1, <1>2, <1>4, <2>2, Zenon DEF ThreadInv, Pushed, Tasks, Rest, launcher, history
  <2>3. CASE u # t
    BY <1>1, <1>2, <1>3, <2>3, Zenon
       DEF PoolInv, ThreadInv, Pushed, Tasks, Rest, Threads, launcher, history
  <2> QED  BY <2>1, <2>2, <2>3, Zenon
<1>9. (\A u \in Tasks' : SyncInv(u)') /\ BarrierHolds'
  <2>1. \A u \in Tasks : (phase'[u] = "barrier" <=> phase[u] = "barrier")
    BY <1>1, <1>2, TasksAreWorkers, Zenon
  <2> QED  BY <1>1, <2>1, Zenon DEF PoolInv, SyncInv, BarrierHolds, Tasks, launcher, history
<1> QED  BY <1>5, <1>6, <1>7, <1>8, <1>9, Zenon DEF PoolInv

(* What a step of worker t with its task has to keep: the other workers do *)
(* not notice it.                                                          *)
LEMMA TaskStep ==
  ASSUME Library, PoolInv, NEW t \in Workers, phase[t] \notin {"idle", "exited"}, PoolTypeOK',
         UNCHANGED <<queues_, killed, num_task, barriers, next>>,
         \A u \in Workers \ {t} : phase'[u] = phase[u] /\ ran'[u] = ran[u],
         main' = main \/ (t = 0 /\ main = "run" /\ main' = "wait"),
         t = 0 => main = "run", phase'[t] # "exited",
         num_pending_' = num_pending_ \/ phase[t] # "flag",
         t = 0 => \/ main' = "run" /\ ran'[0] = 0 /\ phase'[0] \in {"run", "barrier"}
                  \/ main' = "run" /\ ran'[0] = 1 /\ phase'[0] \in {"finish", "error", "flag"}
                  \/ main' = "wait" /\ ran'[0] = 1 /\ phase'[0] = "idle",
         t \in Threads => ThreadInv(t)'
  PROVE  MainInv' /\ \A u \in Threads : ThreadInv(u)'
<1>1. \A u \in Threads : ThreadInv(u)'
  <2> TAKE u \in Threads
  <2>1. CASE u = t
    BY <2>1, Zenon
  <2>2. CASE u # t
    <3>1. ThreadInv(u) /\ phase'[u] = phase[u] /\ ran'[u] = ran[u]
      BY <2>2, Zenon DEF PoolInv, Threads
    <3>2. main' = "push" <=> main = "push"
      BY Zenon
    <3> QED  BY <3>1, <3>2, Zenon DEF ThreadInv, Pushed, Tasks
  <2> QED  BY <2>1, <2>2, Zenon
<1>2. main \in {"check", "idle"} => num_pending_' = num_pending_
  BY Busy, Zenon DEF Rest
<1>3. MainInv'
  <2>1. CASE t = 0
    <3>1. num_task >= 1 /\ ~killed /\ main' \in {"run", "wait"}
      BY <2>1, Zenon DEF PoolInv, MainInv
    <3> QED  BY <2>1, <3>1, Zenon DEF MainInv
  <2>2. CASE t # 0
    <3>1. main' = main /\ phase'[0] = phase[0] /\ ran'[0] = ran[0]
      BY <2>2, WorkersFacts, Zenon
    <3> QED  BY <1>2, <3>1, Zenon DEF PoolInv, MainInv
  <2> QED  BY <2>1, <2>2, Zenon
<1> QED  BY <1>1, <1>3, Zenon

(* A task enters and leaves the barrier. *)
LEMMA BarrierPoolInv ==
  ASSUME NEW t \in Workers PROVE Library /\ PoolInv /\ (EnterBarrier(t) \/ LeaveBarrier(t)) => PoolInv'
<1> SUFFICES ASSUME Library, PoolInv, EnterBarrier(t) \/ LeaveBarrier(t) PROVE PoolInv'
  BY Zenon
<1>1. /\ PoolTypeOK /\ phase[t] \in {"run", "barrier"}
      /\ UNCHANGED <<queues_, killed, num_task, num_pending_, has_error_, barriers, main, next,
                     result, launches, ran, failed>>
      /\ phase' = [phase EXCEPT ![t] = IF phase[t] = "run" THEN "barrier" ELSE "run"]
  BY Zenon DEF PoolInv, EnterBarrier, LeaveBarrier, launcher
<1>2. /\ t \in Tasks /\ t \in Unsignalled /\ (t = 0 => main = "run") /\ ran[t] = 0
      /\ t \in Threads => Pushed(t) /\ queues_[t] = <<>>
  BY <1>1, Busy, Zenon DEF Rest
<1>3. /\ \A u \in Workers \ {t} : phase'[u] = phase[u]
      /\ phase'[t] = (IF phase[t] = "run" THEN "barrier" ELSE "run")
      /\ phase'[t] \in {"run", "barrier"}
  BY <1>1, Zenon DEF PoolTypeOK
<1>4. Tasks' = Tasks /\ Tasks \subseteq Workers /\ barriers \in Nat /\ barriers <= MaxBarriers
  BY <1>1, TasksAreWorkers, SMT, SMTT(20) DEF Tasks, PoolTypeOK
<1>5. \A u \in Tasks : /\ SyncInv(u) /\ passed[u] \in Nat /\ entered[u] \in Nat
                        /\ sync_counter_[u] \in Nat
  BY <1>1, <1>4, SMT, SMTT(20) DEF PoolInv, PoolTypeOK
<1>6. /\ sync_counter_' \in [Workers -> 0 .. MaxBarriers] /\ entered' \in [Workers -> 0 .. MaxBarriers]
      /\ passed' \in [Workers -> 0 .. MaxBarriers]
      /\ \A u \in Tasks' : SyncInv(u)'
      /\ BarrierHolds'
  <2>1. CASE EnterBarrier(t)
    <3>1. /\ phase[t] = "run" /\ phase'[t] = "barrier" /\ passed' = passed
          /\ sync_counter_' = [sync_counter_ EXCEPT ![t] = @ + 1]
          /\ entered' = [entered EXCEPT ![t] = @ + 1] /\ passed[t] < barriers
      BY <1>3, <2>1, Zenon DEF EnterBarrier
    <3>2. entered[t] = passed[t] /\ sync_counter_[t] = entered[t] /\ entered[t] + 1 <= barriers
      <4>1. SyncInv(t) /\ passed[t] \in Nat /\ entered[t] \in Nat
        BY <1>2, <1>5, Zenon
      <4> QED  BY <1>4, <3>1, <4>1, SMT, SMTT(20) DEF SyncInv
    <3>3. /\ sync_counter_' \in [Workers -> 0 .. MaxBarriers] /\ entered' \in [Workers -> 0 .. MaxBarriers]
          /\ passed' \in [Workers -> 0 .. MaxBarriers]
      <4>1. entered[t] + 1 \in 0 .. MaxBarriers /\ sync_counter_[t] + 1 \in 0 .. MaxBarriers
        BY <1>2, <1>4, <1>5, <3>2, PoolAssumption, SMT, SMTT(20)
      <4> QED  BY <1>1, <3>1, <4>1, Zenon DEF PoolTypeOK
    <3>4. \A u \in Tasks : entered'[u] = IF u = t THEN entered[u] + 1 ELSE entered[u]
      BY <1>1, <1>4, <3>1, Zenon DEF PoolTypeOK
    <3>5. \A u \in Tasks' : SyncInv(u)'
      <4> SUFFICES ASSUME NEW u \in Tasks PROVE SyncInv(u)'
        BY <1>4, Zenon
      <4>1. CASE u = t
        <5>1. sync_counter_'[t] = sync_counter_[t] + 1
          BY <1>1, <3>1, Zenon DEF PoolTypeOK
        <5> QED  BY <1>1, <3>1, <3>2, <3>4, <4>1, <5>1, Zenon DEF SyncInv
      <4>2. CASE u # t
        <5>1. sync_counter_'[u] = sync_counter_[u] /\ phase'[u] = phase[u]
          BY <1>1, <1>3, <1>4, <3>1, <4>2, Zenon DEF PoolTypeOK
        <5> QED  BY <1>1, <1>5, <3>1, <3>4, <4>2, <5>1, Zenon DEF SyncInv
      <4> QED  BY <4>1, <4>2, Zenon
    <3>6. BarrierHolds'
      <4> SUFFICES ASSUME NEW u \in Tasks, NEW v \in Tasks PROVE passed'[u] <= entered'[v]
        BY <1>4, Zenon DEF BarrierHolds
      <4>1. passed[u] <= entered[v]
        BY Zenon DEF PoolInv, BarrierHolds
      <4> QED  BY <1>5, <3>1, <3>4, <4>1, SMT, SMTT(20)
    <3> QED  BY <3>3, <3>5, <3>6, Zenon
  <2>2. CASE LeaveBarrier(t)
    <3>1. /\ phase[t] = "barrier" /\ phase'[t] = "run" /\ Met(t)
          /\ passed' = [passed EXCEPT ![t] = @ + 1] /\ UNCHANGED <<sync_counter_, entered>>
      BY <1>3, <2>2, Zenon DEF LeaveBarrier, launcher
    <3>2. entered[t] = passed[t] + 1 /\ entered[t] <= barriers
      BY <1>2, <1>5, <3>1, Zenon DEF SyncInv
    <3>3. /\ sync_counter_' \in [Workers -> 0 .. MaxBarriers] /\ entered' \in [Workers -> 0 .. MaxBarriers]
          /\ passed' \in [Workers -> 0 .. MaxBarriers]
      <4>1. passed[t] + 1 \in 0 .. MaxBarriers
        BY <1>2, <1>4, <1>5, <3>2, PoolAssumption, SMT, SMTT(20)
      <4> QED  BY <1>1, <3>1, <4>1, Zenon DEF PoolTypeOK
    <3>4. \A u \in Tasks : passed'[u] = IF u = t THEN passed[u] + 1 ELSE passed[u]
      BY <1>1, <1>4, <3>1, Zenon DEF PoolTypeOK
    <3>5. \A u \in Tasks' : SyncInv(u)'
      <4> SUFFICES ASSUME NEW u \in Tasks PROVE SyncInv(u)'
        BY <1>4, Zenon
      <4>1. CASE u = t
        BY <1>1, <1>5, <3>1, <3>2, <3>4, <4>1, Zenon DEF SyncInv
      <4>2. CASE u # t
        <5>1. phase'[u] = phase[u]
          BY <1>3, <1>4, <4>2, Zenon
        <5> QED  BY <1>1, <1>5, <3>1, <3>4, <4>2, <5>1, Zenon DEF SyncInv
      <4> QED  BY <4>1, <4>2, Zenon
    <3>6. BarrierHolds'
      <4> SUFFICES ASSUME NEW u \in Tasks, NEW v \in Tasks PROVE passed'[u] <= entered'[v]
        BY <1>4, Zenon DEF BarrierHolds
      <4>1. passed[u] <= entered[v]
        BY Zenon DEF PoolInv, BarrierHolds
      <4>2. CASE u = t
        <5>1. entered[v] >= entered[t]
          BY <1>2, <1>5, <3>1, SMT, SMTT(20) DEF Met, SyncInv
        <5> QED  BY <1>5, <3>1, <3>2, <3>4, <4>2, <5>1, Zenon
      <4>3. CASE u # t
        BY <3>1, <3>4, <4>1, <4>3, Zenon
      <4> QED  BY <4>2, <4>3, Zenon
    <3> QED  BY <3>3, <3>5, <3>6, Zenon
  <2> QED  BY <2>1, <2>2, Zenon
<1>7. PoolTypeOK'
  <2>1. phase' \in [Workers -> {"idle", "run", "barrier", "finish", "error", "flag", "exited"}]
    BY <1>1, Zenon DEF PoolTypeOK
  <2> QED  BY <1>1, <1>6, <2>1, Zenon DEF PoolTypeOK
<1>8. Unsignalled' = Unsignalled
  BY <1>1, <1>2, <1>3, <1>4, Zenon DEF Unsignalled, Rest
<1>9. MainInv' /\ \A u \in Threads : ThreadInv(u)'
  <2>1. t \in Threads => ThreadInv(t)'
    BY <1>1, <1>2, <1>3, <1>4, Zenon DEF ThreadInv, Pushed
  <2>2. phase[t] \notin {"idle", "exited"} /\ phase'[t] # "exited"
    BY <1>1, <1>3, Zenon
  <2>3. t = 0 => main' = "run" /\ ran'[0] = 0 /\ phase'[0] \in {"run", "barrier"}
    BY <1>1, <1>2, <1>3, Zenon
  <2>4. \A u \in Workers \ {t} : phase'[u] = phase[u] /\ ran'[u] = ran[u]
    BY <1>1, <1>3, Zenon
  <2> QED  BY <1>1, <1>2, <1>7, <2>1, <2>2, <2>3, <2>4, TaskStep, Zenon
<1> QED  BY <1>1, <1>6, <1>7, <1>8, <1>9, Zenon DEF PoolInv

(* The barriers of a launch do not depend on what else changes. *)
LEMMA SyncKept ==
  ASSUME PoolInv, UNCHANGED <<num_task, barriers, sync_counter_, entered, passed>>,
         \A u \in Tasks : phase'[u] = "barrier" <=> phase[u] = "barrier"
  PROVE  (\A u \in Tasks' : SyncInv(u)') /\ BarrierHolds'
BY Zenon DEF PoolInv, SyncInv, BarrierHolds, Tasks

(* A task ends, and is counted. *)
LEMMA ReturnPoolInv == ASSUME NEW t \in Workers PROVE Library /\ PoolInv /\ Return(t) => PoolInv'
<1> SUFFICES ASSUME Library, PoolInv, Return(t) PROVE PoolInv'
  BY Zenon
<1>1. /\ PoolTypeOK /\ phase[t] = "run" /\ ran' = [ran EXCEPT ![t] = @ + 1]
      /\ UNCHANGED <<queues_, killed, launcher, main, next, result, launches, entered, passed>>
  BY Zenon DEF PoolInv, Return
<1>2. /\ t \in Tasks /\ t \in Unsignalled /\ (t = 0 => main = "run") /\ ran[t] = 0
      /\ t \in Threads => Pushed(t) /\ queues_[t] = <<>>
  BY <1>1, Busy, Zenon DEF Rest
<1>3. /\ \A u \in Workers \ {t} : phase'[u] = phase[u] /\ ran'[u] = ran[u]
      /\ phase'[t] \in {"finish", "error"} /\ ran'[t] = 1
  BY <1>1, <1>2, SMT, SMTT(20) DEF PoolTypeOK, Return
<1>4. PoolTypeOK'
  <2>1. /\ phase' \in [Workers -> {"idle", "run", "barrier", "finish", "error", "flag", "exited"}]
        /\ failed' \subseteq Workers
    BY <1>1, Zenon DEF PoolTypeOK, Return
  <2>2. ran' \in [Workers -> Nat]
    BY <1>1, SMT, SMTT(20) DEF PoolTypeOK
  <2> QED  BY <1>1, <2>1, <2>2, Zenon DEF PoolTypeOK, launcher
<1>5. Unsignalled' = Unsignalled /\ num_pending_' = num_pending_
  <2>1. Tasks' = Tasks /\ Tasks \subseteq Workers
    BY <1>1, TasksAreWorkers, Zenon DEF Tasks, launcher
  <2> QED  BY <1>1, <1>2, <1>3, <2>1, Zenon DEF Unsignalled, Rest, launcher
<1>6. MainInv' /\ \A u \in Threads : ThreadInv(u)'
  <2>1. t \in Threads => ThreadInv(t)'
    BY <1>1, <1>2, <1>3, Zenon DEF ThreadInv, Pushed, Tasks, launcher
  <2>2. t = 0 => main' = "run" /\ ran'[0] = 1 /\ phase'[0] \in {"finish", "error", "flag"}
    BY <1>1, <1>2, <1>3, Zenon
  <2>3. phase[t] \notin {"idle", "exited"} /\ phase'[t] # "exited"
    BY <1>1, <1>3, Zenon
  <2> QED  BY <1>1, <1>2, <1>3, <1>4, <2>1, <2>2, <2>3, TaskStep, Zenon DEF launcher
<1>7. (\A u \in Tasks' : SyncInv(u)') /\ BarrierHolds'
  <2>1. \A u \in Tasks : phase'[u] = "barrier" <=> phase[u] = "barrier"
    BY <1>1, <1>3, TasksAreWorkers, Zenon
  <2> QED  BY <1>1, <2>1, SyncKept, Zenon DEF launcher
<1> QED  BY <1>4, <1>5, <1>6, <1>7, Zenon DEF PoolInv

(* A worker counts its task as done. *)
LEMMA SignalPoolInv ==
  ASSUME NEW t \in Workers
  PROVE  Library /\ PoolInv /\ (SignalJobFinish(t) \/ (phase[t] = "error" /\ SignalJobError(t)))
           => PoolInv'
<1> SUFFICES ASSUME Library, PoolInv, SignalJobFinish(t) \/ (phase[t] = "error" /\ SignalJobError(t))
             PROVE  PoolInv'
  BY Zenon
<1> DEFINE ph == IF phase[t] = "finish" THEN "idle" ELSE "flag"
<1>1. /\ PoolTypeOK /\ phase[t] \in {"finish", "error"} /\ num_pending_' = num_pending_ - 1
      /\ phase' = [phase EXCEPT ![t] = ph]
      /\ main' = IF t = 0 /\ phase[t] = "finish" THEN "wait" ELSE main
      /\ UNCHANGED <<queues_, killed, num_task, has_error_, sync_counter_, barriers, next,
                     result, launches, history>>
  BY Zenon DEF PoolInv, SignalJobFinish, SignalJobError, Signal, Through
<1>2. /\ t \in Tasks /\ t \in Unsignalled /\ (t = 0 => main = "run") /\ ran[t] = 1
      /\ t \in Threads => Pushed(t) /\ queues_[t] = <<>>
      /\ num_pending_ >= 1
  BY <1>1, Busy, Zenon DEF Rest
<1>3. /\ \A u \in Workers \ {t} : phase'[u] = phase[u] /\ ran'[u] = ran[u]
      /\ phase'[t] = ph /\ ph \in {"idle", "flag"} /\ ran'[t] = 1
  BY <1>1, <1>2, Zenon DEF PoolTypeOK, history
<1>4. PoolTypeOK'
  <2>1. num_pending_' \in 0 .. num_workers_used_
    BY <1>1, <1>2, PoolAssumption, SMT, SMTT(20) DEF PoolTypeOK
  <2>2. phase' \in [Workers -> {"idle", "run", "barrier", "finish", "error", "flag", "exited"}]
    BY <1>1, <1>3, Zenon DEF PoolTypeOK
  <2>3. main' \in {"idle", "push", "run", "wait", "check"}
    BY <1>1, Zenon DEF PoolTypeOK
  <2> QED  BY <1>1, <2>1, <2>2, <2>3, Zenon DEF PoolTypeOK, history
<1>5. num_pending_' = Cardinality(Unsignalled')
  <2>1. Tasks' = Tasks /\ Tasks \subseteq Workers
    BY <1>1, TasksAreWorkers, Zenon DEF Tasks
  <2>2. Unsignalled' = Unsignalled \ {t}
    BY <1>2, <1>3, <2>1, Zenon DEF Unsignalled, Rest
  <2>3. Cardinality(Unsignalled \ {t}) = Cardinality(Unsignalled) - 1
    BY <1>1, <1>2, UnsignalledFinite, Zenon DEF Library
  <2> QED  BY <1>1, <2>2, <2>3, Zenon DEF PoolInv
<1>6. MainInv' /\ \A u \in Threads : ThreadInv(u)'
  <2>1. t \in Threads => ThreadInv(t)'
    <3>1. main' = "push" => main = "push"
      BY <1>1, Zenon
    <3> QED  BY <1>1, <1>2, <1>3, <3>1, Zenon DEF ThreadInv, Pushed, Tasks, Rest
  <2>2. t = 0 => \/ main' = "run" /\ ran'[0] = 1 /\ phase'[0] \in {"finish", "error", "flag"}
                 \/ main' = "wait" /\ ran'[0] = 1 /\ phase'[0] = "idle"
    BY <1>1, <1>2, <1>3, Zenon
  <2>3. phase[t] \notin {"idle", "exited", "flag"} /\ phase'[t] # "exited"
    BY <1>1, <1>3, Zenon
  <2>4. main' = main \/ (t = 0 /\ main = "run" /\ main' = "wait")
    BY <1>1, <1>2, Zenon
  <2> QED  BY <1>1, <1>2, <1>3, <1>4, <2>1, <2>2, <2>3, <2>4, TaskStep, Zenon
<1>7. (\A u \in Tasks' : SyncInv(u)') /\ BarrierHolds'
  <2>1. \A u \in Tasks : phase'[u] = "barrier" <=> phase[u] = "barrier"
    BY <1>1, <1>3, TasksAreWorkers, Zenon
  <2> QED  BY <1>1, <2>1, SyncKept, Zenon DEF history
<1> QED  BY <1>4, <1>5, <1>6, <1>7, Zenon DEF PoolInv

(* It stores has_error_, perhaps when the next launch has begun. *)
LEMMA FlagPoolInv ==
  ASSUME NEW t \in Workers
  PROVE  Library /\ PoolInv /\ phase[t] = "flag" /\ SignalJobError(t) => PoolInv'
<1> SUFFICES ASSUME Library, PoolInv, phase[t] = "flag", SignalJobError(t) PROVE PoolInv'
  BY Zenon
<1>1. /\ PoolTypeOK /\ has_error_' = TRUE /\ phase' = [phase EXCEPT ![t] = "idle"]
      /\ main' = IF t = 0 THEN "wait" ELSE main
      /\ UNCHANGED <<queues_, killed, num_task, num_pending_, sync_counter_, barriers, next,
                     result, launches, history>>
  BY Zenon DEF PoolInv, SignalJobError, Through
<1>2. /\ \A u \in Workers \ {t} : phase'[u] = phase[u] /\ ran'[u] = ran[u]
      /\ phase'[t] = "idle" /\ ran'[t] = ran[t]
  BY <1>1, Zenon DEF PoolTypeOK, history
<1>3. t = 0 => main = "run" /\ ran[0] = 1
  BY Zenon DEF PoolInv, MainInv, PoolTypeOK
<1>4. PoolTypeOK'
  <2>1. phase' \in [Workers -> {"idle", "run", "barrier", "finish", "error", "flag", "exited"}]
    BY <1>1, Zenon DEF PoolTypeOK
  <2>2. main' \in {"idle", "push", "run", "wait", "check"} /\ has_error_' \in BOOLEAN
    BY <1>1, Zenon DEF PoolTypeOK
  <2> QED  BY <1>1, <2>1, <2>2, Zenon DEF PoolTypeOK, history
<1>5. Unsignalled' = Unsignalled
  <2>1. Tasks' = Tasks /\ Tasks \subseteq Workers
    BY <1>1, TasksAreWorkers, Zenon DEF Tasks
  <2>2. \A u \in Tasks : ran'[u] = ran[u] /\ (phase'[u] \in Rest <=> phase[u] \in Rest)
    <3> TAKE u \in Tasks
    <3>1. CASE u = t
      BY <1>2, <3>1, Zenon DEF Rest
    <3>2. CASE u # t
      BY <1>2, <2>1, <3>2, Zenon
    <3> QED  BY <3>1, <3>2, Zenon
  <2> QED  BY <2>1, <2>2, Zenon DEF Unsignalled, Rest
<1>6. MainInv' /\ \A u \in Threads : ThreadInv(u)'
  <2>1. t \in Threads => ThreadInv(t)'
    <3> SUFFICES ASSUME t \in Threads PROVE ThreadInv(t)'
      BY Zenon
    <3>1. ThreadInv(t) /\ main' = main
      BY <1>1, Zenon DEF PoolInv, Threads
    <3> QED  BY <1>1, <1>2, <3>1, Zenon DEF ThreadInv, Pushed, Tasks, Rest
  <2>2. t = 0 => main' = "wait" /\ ran'[0] = 1 /\ phase'[0] = "idle"
    BY <1>1, <1>2, <1>3, Zenon
  <2>3. phase[t] \notin {"idle", "exited"} /\ phase'[t] # "exited"
    BY <1>2, Zenon
  <2>4. main' = main \/ (t = 0 /\ main = "run" /\ main' = "wait")
    BY <1>1, <1>3, Zenon
  <2> QED  BY <1>1, <1>2, <1>3, <1>4, <2>1, <2>2, <2>3, <2>4, TaskStep, Zenon
<1>7. (\A u \in Tasks' : SyncInv(u)') /\ BarrierHolds'
  <2>1. \A u \in Tasks : phase'[u] = "barrier" <=> phase[u] = "barrier"
    BY <1>2, TasksAreWorkers, <1>1, Zenon
  <2> QED  BY <1>1, <2>1, SyncKept, Zenon DEF history
<1> QED  BY <1>1, <1>4, <1>5, <1>6, <1>7, Zenon DEF PoolInv

(* When Launch has returned, every task has run and no worker has one. *)
LEMMA Joins == Library /\ PoolInv => LaunchJoins
<1> SUFFICES ASSUME Library, PoolInv, main \in {"idle", "check"}, NEW t \in Workers
             PROVE  /\ ran[t] = IF t \in Tasks THEN 1 ELSE 0
                    /\ phase[t] \in Rest
  BY Zenon DEF LaunchJoins, Rest
<1>1. Unsignalled = {}
  BY UnsignalledFinite, Zenon DEF PoolInv, MainInv
<1>2. t \in Tasks => ran[t] = 1 /\ phase[t] \in Rest
  BY <1>1, Zenon DEF Unsignalled
<1>3. CASE t = 0
  <2>1. phase[0] = "idle" /\ ran[0] = (IF num_task >= 1 THEN 1 ELSE 0)
    BY Zenon DEF PoolInv, MainInv
  <2>2. 0 \in Tasks <=> num_task >= 1
    BY SMT, SMTT(20) DEF PoolInv, PoolTypeOK, Tasks
  <2> QED  BY <1>3, <2>1, <2>2, Zenon DEF Rest
<1>4. CASE t \in Threads /\ t \notin Tasks
  BY <1>4, Zenon DEF PoolInv, ThreadInv, Pushed
<1> QED  BY <1>2, <1>3, <1>4, Zenon DEF Threads

(* A new launch. *)
LEMMA LaunchPoolInv ==
  ASSUME NEW n \in 1 .. num_workers_used_, NEW b \in 0 .. MaxBarriers
  PROVE  Library /\ PoolInv /\ Launch(n, b) => PoolInv'
<1> SUFFICES ASSUME Library, PoolInv, Launch(n, b) PROVE PoolInv'
  BY Zenon
<1> HIDE DEF NoTask
<1>1. /\ PoolTypeOK /\ main = "idle" /\ ~killed /\ num_task' = n /\ num_pending_' = n
      /\ has_error_' = FALSE /\ sync_counter_' = Reset(n) /\ barriers' = b
      /\ entered' = NoTask /\ passed' = NoTask /\ ran' = NoTask /\ failed' = {}
      /\ main' = "push" /\ next' = 1 /\ launches < MaxLaunches /\ launches' = launches + 1
      /\ UNCHANGED <<queues_, killed, result, phase>>
  BY Zenon DEF PoolInv, Launch
<1>2. \A t \in Workers : NoTask[t] = 0
  BY Zenon DEF NoTask
<1>3. n \in Nat /\ n >= 1 /\ n <= num_workers_used_ /\ Tasks' = 0 .. n - 1 /\ Tasks' \subseteq Workers
  BY <1>1, PoolAssumption, SMT, SMTT(20) DEF Tasks, Workers
<1>4. phase[0] = "idle" /\ \A t \in Threads : phase[t] \in Rest /\ queues_[t] = <<>>
                                             /\ (phase[t] = "exited" => killed)
  <2>1. phase[0] = "idle"
    BY <1>1, Zenon DEF PoolInv, MainInv
  <2>2. \A t \in Threads : ThreadInv(t) /\ phase[t] \in Rest /\ ran[t] = (IF t \in Tasks THEN 1 ELSE 0)
    BY <1>1, Joins, Zenon DEF LaunchJoins, Rest, Threads, PoolInv
  <2> QED  BY <2>1, <2>2, SMT, SMTT(20) DEF ThreadInv, Pushed
<1>5. PoolTypeOK'
  <2>1. NoTask \in [Workers -> 0 .. MaxBarriers] /\ NoTask \in [Workers -> Nat]
    BY PoolAssumption, SMT, SMTT(20) DEF NoTask
  <2>2. sync_counter_' \in [Workers -> 0 .. MaxBarriers]
    BY <1>1, PoolAssumption, SMT, SMTT(20) DEF PoolTypeOK, Reset
  <2>3. /\ num_task' \in 0 .. num_workers_used_ /\ num_pending_' \in 0 .. num_workers_used_
        /\ next' \in 0 .. num_workers_used_ /\ launches' \in 0 .. MaxLaunches
    BY <1>1, PoolAssumption, SMT, SMTT(20) DEF PoolTypeOK
  <2> QED  BY <1>1, <2>1, <2>2, <2>3, Zenon DEF PoolTypeOK
<1>6. num_pending_' = Cardinality(Unsignalled')
  <2>1. \A t \in Tasks' : ran'[t] = 0
    BY <1>1, <1>2, <1>3, Zenon
  <2>2. Unsignalled' = 0 .. n - 1
    BY <1>3, <2>1, SMT, SMTT(20) DEF Unsignalled
  <2>3. Cardinality(0 .. n - 1) = n
    BY <1>3, Zenon DEF Library
  <2> QED  BY <1>1, <2>2, <2>3, Zenon
<1>7. MainInv'
  BY <1>1, <1>2, <1>3, <1>4, WorkersFacts, SMT, SMTT(20) DEF MainInv
<1>8. \A t \in Threads : ThreadInv(t)'
  <2> TAKE t \in Threads
  <2>1. ran'[t] = 0 /\ t >= 1
    BY <1>1, <1>2, WorkersFacts, PoolAssumption, SMT, SMTT(20) DEF Threads
  <2> QED  BY <1>1, <1>4, <2>1, Zenon DEF ThreadInv, Rest
<1>9. (\A t \in Tasks' : SyncInv(t)') /\ BarrierHolds'
  <2>1. \A t \in Tasks' : entered'[t] = 0 /\ passed'[t] = 0 /\ sync_counter_'[t] = 0
    BY <1>1, <1>2, <1>3, SMT, SMTT(20) DEF Reset
  <2>2. \A t \in Tasks' : phase'[t] # "barrier"
    BY <1>1, <1>3, <1>4, Zenon DEF Rest, Threads
  <2>3. \A t \in Tasks' : SyncInv(t)'
    BY <1>1, <2>1, <2>2, SMT, SMTT(20) DEF SyncInv
  <2>4. BarrierHolds'
    BY <2>1, SMT, SMTT(20) DEF BarrierHolds
  <2> QED  BY <2>3, <2>4, Zenon
<1> QED  BY <1>5, <1>6, <1>7, <1>8, <1>9, Zenon DEF PoolInv
-----------------------------------------------------------------------------

(* A stutter preserves the invariant. *)
LEMMA StutterPoolInv == PoolInv /\ UNCHANGED poolVars => PoolInv'
<1> SUFFICES ASSUME PoolInv, UNCHANGED poolVars PROVE PoolInv'
  BY Zenon
<1>1. PoolTypeOK' /\ Unsignalled' = Unsignalled /\ num_pending_' = num_pending_
  BY Zenon DEF PoolInv, PoolTypeOK, Unsignalled, Tasks, Rest, poolVars, launcher, history
<1>2. MainInv' /\ \A t \in Threads : ThreadInv(t)'
  BY Zenon DEF PoolInv, MainInv, ThreadInv, Pushed, Tasks, Rest, poolVars, launcher, history
<1>3. (\A u \in Tasks' : SyncInv(u)') /\ BarrierHolds'
  BY SyncKept, Zenon DEF poolVars, launcher, history
<1> QED  BY <1>1, <1>2, <1>3, Zenon DEF PoolInv

INSTANCE FiniteSetTheorems

(* The library facts taken as a hypothesis hold. *)
LEMMA LibraryHolds == Library
<1>1. ASSUME NEW n \in Nat PROVE IsFiniteSet(0 .. n - 1) /\ Cardinality(0 .. n - 1) = n
  BY FS_Interval, SMT, SMTT(20)
<1>2. ASSUME NEW S, IsFiniteSet(S) PROVE Cardinality(S) \in Nat /\ (Cardinality(S) = 0 <=> S = {})
  BY <1>2, FS_CardinalityType, FS_EmptySet, Zenon
<1>3. ASSUME NEW T, IsFiniteSet(T), NEW S, S \subseteq T
      PROVE  IsFiniteSet(S) /\ Cardinality(S) <= Cardinality(T)
  BY <1>3, FS_Subset, Zenon
<1>4. ASSUME NEW S, IsFiniteSet(S), NEW x \in S PROVE Cardinality(S \ {x}) = Cardinality(S) - 1
  BY <1>4, FS_RemoveElement, Zenon
<1> QED  BY <1>1, <1>2, <1>3, <1>4, Zenon DEF Library

(* The invariant holds in every reachable state of the pool. *)
LEMMA PoolInductive == PoolSpec => []PoolInv
<1>1. PoolInv /\ [PoolNext]_poolVars => PoolInv'
  <2> SUFFICES ASSUME PoolInv, [PoolNext]_poolVars PROVE PoolInv'
    BY Zenon
  <2>1. ASSUME NEW t \in Workers, RunTask(t) PROVE PoolInv'
    <3>1. SignalJobError(t) => phase[t] \in {"error", "flag"}
      BY Zenon DEF SignalJobError
    <3> QED  BY <2>1, <3>1, LibraryHolds, BarrierPoolInv, ReturnPoolInv, SignalPoolInv,
                FlagPoolInv, Zenon
             DEF RunTask
  <2>2. LaunchStep \/ Destroy => PoolInv'
    BY LibraryHolds, PushPoolInv, RunFirstPoolInv, WaitPoolInv, Zenon DEF LaunchStep
  <2>3. Yield \/ Joined \/ UNCHANGED poolVars => PoolInv'
    BY LibraryHolds, StutterPoolInv, Zenon DEF Yield, Joined
  <2> QED  BY <2>1, <2>2, <2>3, LibraryHolds, PopPoolInv, LaunchPoolInv, Zenon DEF PoolNext
<1>2. InitPool => PoolInv
  BY LibraryHolds, InitPoolInv, Zenon
<1> QED  BY <1>1, <1>2, PTL DEF PoolSpec

(* For every number of workers, every launch and every interleaving,       *)
(* Launch returns only when each task has run exactly once.                *)
THEOREM EveryLaunchJoins == PoolSpec => []LaunchJoins
<1>1. PoolInv => LaunchJoins
  BY LibraryHolds, Joins, Zenon
<1> QED  BY <1>1, PoolInductive, PTL

(* For every number of workers and barriers, no task gets ahead of another *)
(* at a barrier.                                                           *)
THEOREM EveryBarrierHolds == PoolSpec => []BarrierHolds
<1>1. PoolInv => BarrierHolds
  BY Zenon DEF PoolInv
<1> QED  BY <1>1, PoolInductive, PTL
=============================================================================
