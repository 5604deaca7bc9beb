------------------------------ MODULE BufferQueue ------------------------------
(***************************************************************************)
(* One bqueue_t of bufferqueue.c with the two threads that use it.  The    *)
(* queue is the doubly linked list in memory; every section that runs      *)
(* between pthread_mutex_lock and pthread_mutex_unlock is one action, and  *)
(* pthread_cond_signal, which bqueue_push calls after the unlock, is an    *)
(* action of its own.  One thread pushes and one pops, as for each of the  *)
(* four queues of stcollectd: the writer gives to a free queue and the     *)
(* collector takes from it, the collector gives to a flush queue and the   *)
(* writer takes from it.                                                   *)
(***************************************************************************)
EXTENDS Naturals, Sequences, FiniteSets, Functions

CONSTANTS Buffers,      \* the addresses malloc can return
          NULL,
          BufferNum,    \* stcollectd_config.buffer_num
          InitialNum,   \* the num argument of bqueue_init
          Elastic       \* TRUE: popped with bqueue_pop; FALSE: with bqueue_pop_wait

ASSUME QueueAssumption ==
  /\ IsFiniteSet(Buffers)
  /\ BufferNum \in Nat \ {0}
  /\ InitialNum \in 0..BufferNum
  /\ Elastic \in BOOLEAN
  /\ NULL \notin Buffers

VARIABLES
  q,         \* the bqueue_t, and the next and prev fields of every buffer_t
  heap,      \* the buffers malloc has handed out and free has not taken back
  out,       \* the buffers the callers hold
  producer,  \* "idle", or "signal" between the unlock and the signal of a push
  consumer   \* "init" during bqueue_init, "idle" outside the pop, "waiting" in
             \* the condition variable, "woken" or "timedout" on its way out

vars == <<q, heap, out, producer, consumer>>

Pointers == Buffers \cup {NULL}

EmptyQueue ==
  [num |-> 0, start |-> NULL, end |-> NULL,
   next |-> [b \in Buffers |-> NULL], prev |-> [b \in Buffers |-> NULL]]

Init ==
  /\ q = EmptyQueue
  /\ heap = IF Elastic THEN {} ELSE Buffers
  /\ out = heap
  /\ producer = "idle"
  /\ consumer = "init"

-----------------------------------------------------------------------------
(* The list operations, each on a bqueue_t Q.  next points to the buffer   *)
(* inserted before, prev to the one inserted after; pops take the end.     *)

\* The two links of b as its previous user left them.
Linked(Q, b, n, p) ==
  [Q EXCEPT !.next = [@ EXCEPT ![b] = n], !.prev = [@ EXCEPT ![b] = p]]

\* The buffer goes to the end that pops take from.
BugInsertEnd(Q, b) ==
  IF Q.num = 0
  THEN [Q EXCEPT !.num = 1, !.start = b, !.end = b]
  ELSE [Q EXCEPT !.num = @ + 1, !.end = b,
                 !.next = [@ EXCEPT ![Q.end] = b, ![b] = NULL],
                 !.prev = [@ EXCEPT ![b] = Q.end]]

\* An empty queue leaves the links of b as they are.
InsertFront(Q, b) ==
  IF Q.num = 0
  THEN [Q EXCEPT !.num = 1, !.start = b, !.end = b]
  ELSE [Q EXCEPT !.num = @ + 1, !.start = b,
                 !.prev = [@ EXCEPT ![Q.start] = b, ![b] = NULL],
                 !.next = [@ EXCEPT ![b] = Q.start]]

\* bqueue_free: the newest buffer is released.
BugFreeFront(Q) ==
  [Q EXCEPT !.num = @ - 1, !.end = Q.prev[Q.end]]

FreeFront(Q) ==
  [Q EXCEPT !.num = @ - 1, !.start = Q.next[Q.start],
            !.prev = [@ EXCEPT ![Q.next[Q.start]] = NULL]]

RemoveEnd(Q) ==
  IF Q.num = 1
  THEN [Q EXCEPT !.num = 0, !.start = NULL, !.end = NULL]
  ELSE [Q EXCEPT !.num = @ - 1, !.end = Q.prev[Q.end],
                 !.next = [@ EXCEPT ![Q.prev[Q.end]] = NULL]]

\* The end is read after it has moved.
BugOldest(Q) == RemoveEnd(Q).end

Oldest(Q) == IF Q.num = 1 THEN Q.start ELSE Q.end

-----------------------------------------------------------------------------
(* bqueue_init, before the threads start.                                  *)

\* bqueue_push_new: the buffer comes zeroed from malloc.
PushNew(f) ==
  /\ consumer = "init"
  /\ q.num < InitialNum
  /\ f \notin heap
  /\ q' = InsertFront(Linked(q, f, NULL, NULL), f)
  /\ heap' = heap \cup {f}
  /\ UNCHANGED <<out, producer, consumer>>

InitDone ==
  /\ consumer = "init"
  /\ q.num = InitialNum
  /\ consumer' = "idle"
  /\ UNCHANGED <<q, heap, out, producer>>

(* The producer: bqueue_push. *)

\* While b was away it was linked into other queues: its next and prev are
\* whatever they left there.
Push(b) ==
  /\ consumer # "init"
  /\ producer = "idle"
  /\ b \in out
  /\ \E n, p \in Pointers : q' = InsertFront(Linked(q, b, n, p), b)
  /\ out' = out \ {b}
  /\ producer' = "signal"
  /\ UNCHANGED <<heap, consumer>>

\* The signal is sent only when the queue holds a single buffer, after the unlock.
BugSignal ==
  /\ producer = "signal"
  /\ producer' = "idle"
  /\ consumer' = IF consumer = "waiting" /\ q.num > 1 THEN "woken" ELSE consumer
  /\ UNCHANGED <<q, heap, out>>

Signal ==
  /\ producer = "signal"
  /\ producer' = "idle"
  /\ consumer' = IF consumer = "waiting" THEN "woken" ELSE consumer
  /\ UNCHANGED <<q, heap, out>>

(* The consumer: bqueue_pop when the queue is elastic, bqueue_pop_wait     *)
(* when it is not.                                                         *)

\* Taking the end, the unlock and the return.  The links of the buffer are its
\* holder's from now on; what they hold when it comes back is chosen in Push.
Return(Q) ==
  /\ q' = Linked(RemoveEnd(Q), Oldest(Q), NULL, NULL)
  /\ out' = out \cup {Oldest(Q)}
  /\ consumer' = "idle"
  /\ UNCHANGED producer

\* malloc succeeded.
Grow(f) ==
  /\ f \notin heap
  /\ heap' = heap \cup {f}
  /\ Return(InsertFront(Linked(q, f, NULL, NULL), f))

\* Trims although there is no buffer to spare.
BugShrink ==
  /\ q.num > 1
  /\ heap' = heap \ {q.start}
  /\ Return(Linked(FreeFront(q), q.start, NULL, NULL))

Shrink ==
  /\ q.num > BufferNum
  /\ heap' = heap \ {q.start}
  /\ Return(Linked(FreeFront(q), q.start, NULL, NULL))

\* No allocation is tried, malloc failed with num > 0, or there is nothing to trim.
Plain ==
  /\ heap' = heap
  /\ Return(q)

\* What the code after the wait loop does; timedout says whether the last
\* pthread_cond_timedwait of this call returned ETIMEDOUT.
Serve(timedout) ==
  IF Elastic
  THEN IF timedout
       THEN Plain \/ \E f \in Buffers : Grow(f)
       ELSE Shrink \/ (q.num <= BufferNum /\ Plain)
  ELSE Plain

PopNow ==
  /\ consumer = "idle"
  /\ q.num > 0
  /\ Serve(FALSE)

\* The queue was looked at before the lock was taken.
BugWait ==
  /\ consumer = "idle"
  /\ consumer' = "waiting"
  /\ UNCHANGED <<q, heap, out, producer>>

Wait ==
  /\ consumer = "idle"
  /\ q.num = 0
  /\ consumer' = "waiting"
  /\ UNCHANGED <<q, heap, out, producer>>

\* The absolute deadline of bqueue_pop is one second after the epoch: it has
\* passed already, so the wait may time out at once.
TimeOut ==
  /\ Elastic
  /\ consumer = "waiting"
  /\ consumer' = "timedout"
  /\ UNCHANGED <<q, heap, out, producer>>

SpuriousWakeup ==
  /\ consumer = "waiting"
  /\ consumer' = "woken"
  /\ UNCHANGED <<q, heap, out, producer>>

\* The lock is taken again and the loop condition tested.
WaitAgain ==
  /\ consumer \in {"woken", "timedout"}
  /\ q.num = 0
  /\ consumer' = "waiting"
  /\ UNCHANGED <<q, heap, out, producer>>

PopAfterWait ==
  /\ consumer \in {"woken", "timedout"}
  /\ q.num > 0
  /\ Serve(consumer = "timedout")

Next ==
  \/ \E b \in Buffers : PushNew(b) \/ Push(b)
  \/ InitDone
  \/ Signal
  \/ PopNow
  \/ Wait
  \/ TimeOut
  \/ SpuriousWakeup
  \/ WaitAgain
  \/ PopAfterWait

Spec == Init /\ [][Next]_vars

\* A thread that is on its way out of the condition variable gets the lock,
\* a timed wait ends, and a push that has unlocked goes on to signal.  No
\* thread is obliged to start a push or a pop.
ThreadFairness ==
  /\ WF_vars(WaitAgain \/ PopAfterWait)
  /\ WF_vars(TimeOut)
  /\ WF_vars(Signal)

FairSpec == Spec /\ ThreadFairness

-----------------------------------------------------------------------------

\* c lists the buffers of Q from the oldest, at end, to the newest, at start.
\* Nothing is asked of prev[start] and next[end].
IsChain(Q, c) ==
  /\ IsInjective(c)
  /\ Q.num = 0 => Q.start = NULL /\ Q.end = NULL
  /\ Q.num > 0 => Q.end = c[1] /\ Q.start = c[Q.num]
  /\ \A i \in 1..(Q.num - 1) : /\ Q.prev[c[i]] = c[i + 1]
                               /\ Q.next[c[i + 1]] = c[i]

Chains == [1..q.num -> Buffers]

TypeOK ==
  /\ q \in [num : Nat, start : Pointers, end : Pointers,
            next : [Buffers -> Pointers], prev : [Buffers -> Pointers]]
  /\ heap \in SUBSET Buffers
  /\ out \in SUBSET Buffers
  /\ producer \in {"idle", "signal"}
  /\ consumer \in {"init", "idle", "waiting", "woken", "timedout"}

\* Whatever the order of pushes, pops, allocations and releases, and whatever
\* stale links a buffer brings back, num, start, end and the links in both
\* directions describe one list, and its buffers are exactly the allocated
\* ones no caller holds: none is lost, none is released or handed out twice.
ListIntact ==
  \E c \in Chains :
    /\ IsChain(q, c)
    /\ Range(c) \cap out = {}
    /\ Range(c) \cup out = heap

\* A consumer asleep on a queue that holds a buffer still has the signal of
\* bqueue_push coming, although that signal is sent after the unlock.
NoLostWakeup ==
  consumer = "waiting" /\ q.num > 0 => producer = "signal"

\* However often a timed-out pop allocates and a pop of a long queue releases, the
\* buffers of a queue never become fewer than bqueue_init was asked for.
NeverBelowMinimum ==
  consumer # "init" => Cardinality(heap) >= InitialNum

\* A consumer in the wait loop of either pop returns with a buffer once there is one.
PopReturns ==
  consumer \in {"waiting", "woken", "timedout"} /\ q.num > 0 ~> consumer = "idle"

\* bufferqueue.c:84 and stcollectd.c:185 say that a pop of a free queue
\* allocates a buffer when none is free, so that it returns in any case.
PopAllocates ==
  consumer \in {"waiting", "woken", "timedout"} ~> consumer = "idle"

\* The list, read from end to start through prev, is the pool of BufferPool.
Contents == CHOOSE c \in Chains : IsChain(q, c)

Pool == INSTANCE BufferPool WITH items <- Contents, ready <- consumer # "init"

PoolSpec == Pool!Spec
=============================================================================
