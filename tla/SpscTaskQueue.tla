----------------------------- MODULE SpscTaskQueue -----------------------------
(***************************************************************************)
(* SpscTaskQueue of the runtime's thread pool (src/runtime/thread_pool.cc):*)
(* the queue between the thread that launches parallel tasks and one       *)
(* worker.  A ring buffer without lock for the tasks, and beside it a      *)
(* counter on which the worker decides to sleep and the launching thread   *)
(* to wake it.  A step is one access to a shared variable.  Memory is      *)
(* taken to be sequentially consistent.  SignalForKill may come at any     *)
(* time.                                                                   *)
(***************************************************************************)
EXTENDS Integers, Sequences

CONSTANTS Task, kRingSize

(* pending_ is an int8_t. *)
ASSUME QueueAssumption == kRingSize \in 2 .. 128 /\ Task # {}

VARIABLES
  buffer_, head_, tail_, pending_, exit_now_,
  mutex_,       \* TRUE while the worker holds it; others hold it within a step
  push,         \* where Push is: "idle", "enqueue", "write", "publish", "count", "notify"
  input,        \* its argument
  pop,          \* where Pop is: "idle", "spin", "lock", "test", "sleep", "asleep",
                \* "exit?", "take", "advance", "exited"
  output        \* its result

vars == <<buffer_, head_, tail_, pending_, exit_now_, mutex_, push, input, pop, output>>
ring == <<buffer_, head_, tail_>>
pusher == <<push, input>>
popper == <<pop, output, mutex_>>

Slots == 0 .. kRingSize - 1

(* A fresh ring; the buffer and the worker's task are not initialised. *)
Init ==
  /\ buffer_ \in [Slots -> Task] /\ head_ = 0 /\ tail_ = 0 /\ pending_ = 0 /\ exit_now_ = FALSE
  /\ mutex_ = FALSE /\ push = "idle" /\ pop = "idle"
  /\ input \in Task /\ output \in Task

Int8(n) == ((n + 128) % 256) - 128

Advance(i) == (i + 1) % kRingSize
-----------------------------------------------------------------------------
(* The launching thread. *)

Push(t) ==
  /\ push = "idle"
  /\ push' = "enqueue" /\ input' = t
  /\ UNCHANGED <<ring, pending_, exit_now_, popper>>

(* Enqueue fails when the queue is closed or full, and Push tries again. *)
Full_Overrun == FALSE
Full == Advance(tail_) = head_

EnqueueStart ==
  /\ push = "enqueue" /\ ~exit_now_ /\ ~Full
  /\ push' = "write"
  /\ UNCHANGED <<ring, input, pending_, exit_now_, popper>>

EnqueueWrite ==
  /\ push = "write"
  /\ buffer_' = [buffer_ EXCEPT ![tail_] = input]
  /\ push' = "publish"
  /\ UNCHANGED <<head_, tail_, input, pending_, exit_now_, popper>>

EnqueuePublish ==
  /\ push = "publish"
  /\ tail_' = Advance(tail_)
  /\ push' = "count"
  /\ UNCHANGED <<buffer_, head_, input, pending_, exit_now_, popper>>

(* pending_.fetch_add(1): -1 says that the worker sleeps, or is about to. *)
WakeUp_IfEmpty == pending_ = 0
WakeUp == pending_ = -1

PushCount ==
  /\ push = "count"
  /\ pending_' = Int8(pending_ + 1)
  /\ push' = IF WakeUp THEN "notify" ELSE "idle"
  /\ UNCHANGED <<ring, input, exit_now_, popper>>

(* notify_one under the mutex. *)
PushNotify ==
  /\ push = "notify" /\ ~mutex_
  /\ push' = "idle"
  /\ pop' = IF pop = "asleep" THEN "lock" ELSE pop
  /\ UNCHANGED <<ring, input, pending_, exit_now_, output, mutex_>>

SignalForKill ==
  /\ ~mutex_
  /\ exit_now_' = TRUE
  /\ pop' = IF pop = "asleep" THEN "lock" ELSE pop
  /\ UNCHANGED <<ring, pusher, pending_, output, mutex_>>
-----------------------------------------------------------------------------
(* The worker. *)

Pop ==
  /\ pop = "idle"
  /\ pop' = "spin"
  /\ UNCHANGED <<ring, pusher, pending_, exit_now_, output, mutex_>>

(* pending_.fetch_sub(1).  How long the worker spins before, and whether   *)
(* it sees a task in that time, is a matter of timing.                     *)
PopCount ==
  /\ pop = "spin"
  /\ pending_' = Int8(pending_ - 1)
  /\ pop' = IF pending_ = 0 THEN "lock" ELSE "exit?"
  /\ UNCHANGED <<ring, pusher, exit_now_, output, mutex_>>

(* The lock, and cv_.wait: test the condition, and sleep with the mutex    *)
(* released in the same moment.                                            *)
PopLock ==
  /\ pop = "lock" /\ ~mutex_
  /\ mutex_' = TRUE /\ pop' = "test"
  /\ UNCHANGED <<ring, pusher, pending_, exit_now_, output>>

Ready_Any == TRUE
Ready_TaskOnly == pending_ >= 0
Ready == pending_ >= 0 \/ exit_now_

PopTest ==
  /\ pop = "test"
  /\ pop' = IF Ready THEN "exit?" ELSE "sleep"
  /\ mutex_' = ~Ready
  /\ UNCHANGED <<ring, pusher, pending_, exit_now_, output>>

PopSleep ==
  /\ pop = "sleep"
  /\ pop' = "asleep" /\ mutex_' = FALSE
  /\ UNCHANGED <<ring, pusher, pending_, exit_now_, output>>

SpuriousWakeUp ==
  /\ pop = "asleep"
  /\ pop' = "lock"
  /\ UNCHANGED <<ring, pusher, pending_, exit_now_, output, mutex_>>

PopExit ==
  /\ pop = "exit?"
  /\ pop' = IF exit_now_ THEN "exited" ELSE "take"
  /\ UNCHANGED <<ring, pusher, pending_, exit_now_, output, mutex_>>

PopTake ==
  /\ pop = "take"
  /\ output' = buffer_[head_]
  /\ pop' = "advance"
  /\ UNCHANGED <<ring, pusher, pending_, exit_now_, mutex_>>

PopAdvance ==
  /\ pop = "advance"
  /\ head_' = Advance(head_)
  /\ pop' = "idle"
  /\ UNCHANGED <<buffer_, tail_, pusher, pending_, exit_now_, output, mutex_>>

PushStep == EnqueueStart \/ EnqueueWrite \/ EnqueuePublish \/ PushCount \/ PushNotify
PopStep ==
  \/ Pop \/ PopCount \/ PopLock \/ PopTest \/ PopSleep \/ PopExit \/ PopTake \/ PopAdvance

Next == PushStep \/ PopStep \/ SpuriousWakeUp \/ SignalForKill \/ \E t \in Task : Push(t)

Spec == Init /\ [][Next]_vars

(* Both threads run; the mutex is not kept from a thread that waits for it.*)
FairSpec == Spec /\ WF_vars(PushStep) /\ WF_vars(PopStep)
-----------------------------------------------------------------------------
(* The types of the variables. *)
TypeOK ==
  /\ buffer_ \in [Slots -> Task] /\ head_ \in Slots /\ tail_ \in Slots
  /\ pending_ \in -1 .. kRingSize - 1 /\ exit_now_ \in BOOLEAN /\ mutex_ \in BOOLEAN
  /\ push \in {"idle", "enqueue", "write", "publish", "count", "notify"} /\ input \in Task
  /\ pop \in {"idle", "spin", "lock", "test", "sleep", "asleep", "exit?", "take", "advance",
              "exited"}
  /\ output \in Task

(* The sanity check of Pop, ICHECK(tail_ != head_): the worker that got    *)
(* through the counter finds a task in the ring.                           *)
PopFindsTask == pop = "take" => tail_ # head_

(* No wake-up is lost: a worker that sleeps has nothing to do, or the      *)
(* launching thread is on its way to notify it.                            *)
NoLostWakeUp == pop = "asleep" => ~exit_now_ /\ (pending_ >= 0 => push = "notify")

(* The ring is the queue of TaskQueue: nothing is lost, duplicated,        *)
(* overwritten or taken out of order.  A task is in from the moment tail_  *)
(* is stored and out when the worker has read it.                          *)
Count(h, t) == IF t >= h THEN t - h ELSE t - h + kRingSize
Slot(h, i) == IF h + i < kRingSize THEN h + i ELSE h + i - kRingSize
First == IF pop = "advance" THEN 1 ELSE 0
Contents == [i \in 1 .. Count(head_, tail_) - First |-> buffer_[Slot(head_, i - 1 + First)]]
Queue == INSTANCE TaskQueue WITH Capacity <- kRingSize - 1, queue <- Contents, closed <- exit_now_
IsQueue == Queue!Spec

(* The inductive invariant.  pending_ is the number of tasks in the ring,  *)
(* less the one that is not counted yet and the one the worker has put in  *)
(* for; a worker past the counter has a task or must exit; the slot that   *)
(* is written is free; the mutex is held around the test; and between the  *)
(* test and the sleep no wake-up gets lost.                                *)
Reserved == IF pop \in {"idle", "spin", "advance"} THEN 0 ELSE 1
Uncounted == IF push = "count" THEN 1 ELSE 0
IInv ==
  /\ TypeOK
  /\ pending_ = Count(head_, tail_) - First - Uncounted - Reserved
  /\ pop \in {"idle", "spin", "take", "advance"} => pending_ >= 0
  /\ pop = "exit?" => pending_ >= 0 \/ exit_now_
  /\ push \in {"write", "publish"} => ~Full
  /\ push = "publish" => buffer_[tail_] = input
  /\ mutex_ <=> pop \in {"test", "sleep"}
  /\ pop \in {"sleep", "asleep"} => ~exit_now_ /\ (pending_ >= 0 => push = "notify")

(* A task in the ring is popped, unless the worker is told to exit. *)
TaskArrives == tail_ # head_ ~> (pop = "advance" \/ exit_now_)

(* A worker that is told to exit does so, wherever the signal finds it:    *)
(* the destructor of the pool joins it.                                    *)
WorkerExits == exit_now_ ~> pop = "exited"
=============================================================================
