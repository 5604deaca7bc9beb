------------------------------ MODULE BufferPool ------------------------------
(***************************************************************************)
(* What a bqueue_t of bufferqueue.c promises to the threads that share it: *)
(* a first-in first-out pool of sample buffers.  A push gives a buffer     *)
(* back, a pop takes the one that has been in the pool longest.  A pop of  *)
(* an elastic pool (bqueue_pop, the free queues) may also allocate one new *)
(* buffer or release the newest one; a pop of a fixed pool                 *)
(* (bqueue_pop_wait, the flush queues) does neither.                       *)
(*                                                                         *)
(* BufferQueue implements this specification with a doubly linked list, a  *)
(* mutex and a condition variable; Collector uses four of them.            *)
(***************************************************************************)
EXTENDS Naturals, Sequences, FiniteSets, Functions

CONSTANTS Buffers,      \* the buffers malloc can hand out
          BufferNum,    \* stcollectd_config.buffer_num
          InitialNum,   \* the num argument of bqueue_init
          Elastic       \* TRUE: popped with bqueue_pop; FALSE: with bqueue_pop_wait

\* The free queues start with buffer_num buffers, the flush queues with none.
\* With buffer_num = 0 bqueue_free would follow the NULL next of the only buffer.
PoolAssumption ==
  /\ IsFiniteSet(Buffers)
  /\ BufferNum \in Nat \ {0}
  /\ InitialNum \in 0..BufferNum
  /\ Elastic \in BOOLEAN

VARIABLES items,   \* the buffers of the pool, the oldest first
          out,     \* the buffers its users hold
          ready    \* FALSE while bqueue_init still fills the pool

vars == <<items, out, ready>>

Allocated == Range(items) \cup out

\* A flush queue is pushed buffers that were popped from a free queue.
Init ==
  /\ items = <<>>
  /\ out = IF Elastic THEN {} ELSE Buffers
  /\ ready = FALSE

Fill(f) ==
  /\ ~ready
  /\ Len(items) < InitialNum
  /\ f \notin Allocated
  /\ items' = Append(items, f)
  /\ UNCHANGED <<out, ready>>

Open ==
  /\ ~ready
  /\ Len(items) = InitialNum
  /\ ready' = TRUE
  /\ UNCHANGED <<items, out>>

Put(b) ==
  /\ ready
  /\ b \in out
  /\ items' = Append(items, b)
  /\ out' = out \ {b}
  /\ UNCHANGED ready

\* The pop proper: the oldest buffer leaves the pool.
TakeFrom(s) ==
  /\ items' = Tail(s)
  /\ out' = out \cup {Head(s)}
  /\ UNCHANGED ready

Take ==
  /\ ready
  /\ items # <<>>
  /\ TakeFrom(items)

TakeAndGrow(f) ==
  /\ ready
  /\ Elastic
  /\ items # <<>>
  /\ f \notin Allocated
  /\ TakeFrom(Append(items, f))

TakeAndShrink ==
  /\ ready
  /\ Elastic
  /\ Len(items) > BufferNum
  /\ TakeFrom(SubSeq(items, 1, Len(items) - 1))

Next ==
  \/ \E b \in Buffers : Fill(b) \/ Put(b) \/ TakeAndGrow(b)
  \/ Open
  \/ Take
  \/ TakeAndShrink

Spec == Init /\ [][Next]_vars

-----------------------------------------------------------------------------

\* The pool is handed over with the InitialNum buffers it is asked for and no more.
TypeOK ==
  /\ items \in Seq(Buffers)
  /\ out \in SUBSET Buffers
  /\ ready \in BOOLEAN
  /\ ~ready => Len(items) <= InitialNum

\* No buffer is twice in the pool, and none is both in the pool and in the
\* hands of a thread: what the two sample-moving threads rely on to write a
\* buffer without a lock once they have popped it.
OneOwner ==
  /\ IsInjective(items)
  /\ Range(items) \cap out = {}

\* Once bqueue_init has filled the pool, trimming in bqueue_pop never brings
\* the number of allocated buffers below the number configured
\* (man/sflow-toolkit.conf.5:91: "the minimum number of buffers to have
\* allocated at any time").
NeverBelowMinimum ==
  ready => Cardinality(Allocated) >= InitialNum
=============================================================================
