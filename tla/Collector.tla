------------------------------- MODULE Collector -------------------------------
(***************************************************************************)
(* The two working threads of stcollectd and the sample buffers that pass  *)
(* between them.  The collector thread (collect) fills one buffer of flow  *)
(* samples and one of counter samples and hands both over (flushLists);    *)
(* the writer thread (writeBufferToDisk) writes them and gives them back.  *)
(* The four queues between the threads are pools in the sense of           *)
(* BufferPool, one free and one flush queue for each type of sample; that  *)
(* bufferqueue.c implements such a pool is the subject of BufferQueue.     *)
(***************************************************************************)
EXTENDS Naturals, Sequences, FiniteSets, Functions, SequencesExt

CONSTANTS Buffers,              \* what malloc can return
          NULL,
          BufferNum,            \* stcollectd_config.buffer_num
          BufferSize,           \* stcollectd_config.buffer_size
          MaxDatagramSamples,   \* MAX_DATAGRAM_SAMPLES
          MaxSamples            \* bound on the samples of each type received

\* The flush threshold buffer_size - MAX_DATAGRAM_SAMPLES is not to wrap around.
ASSUME CollectorAssumption ==
  /\ IsFiniteSet(Buffers)
  /\ NULL \notin Buffers
  /\ BufferNum \in Nat \ {0}
  /\ MaxDatagramSamples \in Nat
  /\ BufferSize \in Nat /\ BufferSize >= MaxDatagramSamples
  /\ MaxSamples \in Nat

Types == {"flow", "cntr"}

VARIABLES
  free, flush,   \* the four queues: for each type a sequence, oldest buffer first
  heap,          \* for each type, the buffers malloc has handed out
  data,          \* the samples counted by each buffer
  cc, cw,        \* buffer_cc_* and buffer_cw_*
  collector,     \* where the collector thread is
  waited,        \* whether the collector's current bqueue_pop found the queue empty
  writer,        \* where the writer thread is
  written,       \* how many samples of its current buffer it has written
  collected,     \* for each type, how many samples were received
  disk           \* for each type, the samples given to addSampleToFile

queues == <<free, flush, heap>>
vars == <<free, flush, heap, data, cc, cw, collector, waited, writer, written, collected, disk>>

\* A sample is its number among the samples of its type, in order of arrival.
Sample == Nat \ {0}

\* The order of the calls in flushLists, and of the two pops of allocateMemory.
PushAt    == [flow |-> "pushFlow", cntr |-> "pushCntr"]
PopAt     == [flow |-> "popFlow",  cntr |-> "popCntr"]
BugAfterPush == [flow |-> "popFlow", cntr |-> "popFlow"]
BugAfterPushBoth == [flow |-> "pushCntr", cntr |-> "recv"]
AfterPush == [flow |-> "pushCntr", cntr |-> "popFlow"]
BugAfterPop == [flow |-> "recv", cntr |-> "recv"]
AfterPop  == [flow |-> "popCntr",  cntr |-> "recv"]

\* The order of the calls in writeBufferToDisk.
TakeAt     == [flow |-> "takeFlow",  cntr |-> "takeCntr"]
WriteAt    == [flow |-> "writeFlow", cntr |-> "writeCntr"]
GiveAt     == [flow |-> "giveFlow",  cntr |-> "giveCntr"]
AfterTake  == [flow |-> "takeCntr",  cntr |-> "writeFlow"]
AfterWrite == [flow |-> "writeCntr", cntr |-> "giveFlow"]
BugAfterGive == [flow |-> "clear", cntr |-> "clear"]
AfterGive  == [flow |-> "giveCntr",  cntr |-> "clear"]

Init ==
  /\ free = [t \in Types |-> <<>>]
  /\ flush = [t \in Types |-> <<>>]
  /\ heap = [t \in Types |-> {}]
  /\ data = [b \in Buffers |-> <<>>]
  /\ cc = [t \in Types |-> NULL]
  /\ cw = [t \in Types |-> NULL]
  /\ collector = "alloc"
  /\ waited = FALSE
  /\ writer = "takeFlow"
  /\ written = 0
  /\ collected = [t \in Types |-> 0]
  /\ disk = [t \in Types |-> <<>>]

-----------------------------------------------------------------------------
(* allocateMemory: main fills the free queues, then takes the first two    *)
(* buffers with the pops the collector uses later.                         *)

Fresh(b) == \A t \in Types : b \notin heap[t]

Allocate(t, b) ==
  /\ collector = "alloc"
  /\ Len(free[t]) < BufferNum
  /\ Fresh(b)
  /\ free' = [free EXCEPT ![t] = Append(@, b)]
  /\ heap' = [heap EXCEPT ![t] = @ \cup {b}]
  /\ data' = [data EXCEPT ![b] = <<>>]
  /\ UNCHANGED <<flush, cc, cw, collector, waited, writer, written, collected, disk>>

Allocated ==
  /\ collector = "alloc"
  /\ \A t \in Types : Len(free[t]) = BufferNum
  /\ collector' = "popFlow"
  /\ UNCHANGED <<queues, data, cc, cw, waited, writer, written, collected, disk>>

(* The collector thread.                                                   *)

BugFull(d, t) == Len(d[cc[t]]) >= BufferSize

Full(d, t) == Len(d[cc[t]]) >= BufferSize - MaxDatagramSamples

\* One datagram with nf flow and nc counter samples, parsed and counted.  The
\* flush condition is tested only here, after recvfrom has returned; expired
\* says whether d_t, taken before recvfrom, has reached flush_interval.
Receive(nf, nc, expired) ==
  LET n == [flow |-> nf, cntr |-> nc]
      arrived(t) == [i \in 1..n[t] |-> collected[t] + i]
      filled == [b \in Buffers |->
                   IF b = cc["flow"] THEN data[b] \o arrived("flow")
                   ELSE IF b = cc["cntr"] THEN data[b] \o arrived("cntr")
                   ELSE data[b]]
  IN /\ collector = "recv"
     /\ nf + nc <= MaxDatagramSamples
     /\ \A t \in Types : collected[t] + n[t] <= MaxSamples
     /\ data' = filled
     /\ collected' = [t \in Types |-> collected[t] + n[t]]
     /\ collector' = IF expired \/ Full(filled, "flow") \/ Full(filled, "cntr")
                     THEN "pushFlow" ELSE "recv"
     /\ UNCHANGED <<queues, cc, cw, waited, writer, written, disk>>

\* The new buffer goes to the wrong end.
BugPush(t) ==
  /\ collector = PushAt[t]
  /\ flush' = [flush EXCEPT ![t] = <<cc[t]>> \o @]
  /\ collector' = AfterPush[t]
  /\ UNCHANGED <<free, heap, data, cc, cw, waited, writer, written, collected, disk>>

\* flushLists hands a buffer to the writer; buffer_cc_* still points to it.
Push(t) ==
  /\ collector = PushAt[t]
  /\ flush' = [flush EXCEPT ![t] = Append(@, cc[t])]
  /\ collector' = AfterPush[t]
  /\ UNCHANGED <<free, heap, data, cc, cw, waited, writer, written, collected, disk>>

\* bqueue_pop finds no free buffer and enters its wait loop.
Wait(t) ==
  /\ collector = PopAt[t]
  /\ free[t] = <<>>
  /\ ~waited
  /\ waited' = TRUE
  /\ UNCHANGED <<queues, data, cc, cw, collector, writer, written, collected, disk>>

\* bqueue_pop returns the oldest buffer of s.
PopFrom(t, s) ==
  /\ collector = PopAt[t]
  /\ free[t] # <<>>
  /\ free' = [free EXCEPT ![t] = Tail(s)]
  /\ cc' = [cc EXCEPT ![t] = Head(s)]
  /\ collector' = AfterPop[t]
  /\ waited' = FALSE
  /\ UNCHANGED <<flush, cw, writer, written, collected, disk>>

\* After a wait that timed out: bqueue_push_new adds a zeroed buffer.
PopGrow(t, b) ==
  /\ waited
  /\ Fresh(b)
  /\ PopFrom(t, Append(free[t], b))
  /\ heap' = [heap EXCEPT ![t] = @ \cup {b}]
  /\ data' = [data EXCEPT ![b] = <<>>]

\* No wait, or one that ended with the signal: bqueue_free drops the newest buffer.
PopShrink(t) ==
  /\ Len(free[t]) > BufferNum
  /\ PopFrom(t, SubSeq(free[t], 1, Len(free[t]) - 1))
  /\ heap' = [heap EXCEPT ![t] = @ \ {free[t][Len(free[t])]}]
  /\ UNCHANGED data

\* There is nothing to trim, or the wait timed out and malloc failed.
PopPlain(t) ==
  /\ waited \/ Len(free[t]) <= BufferNum
  /\ PopFrom(t, free[t])
  /\ UNCHANGED <<heap, data>>

(* The writer thread. *)

\* The loop condition of bqueue_pop_wait is off by one.
BugTake(t) ==
  /\ writer = TakeAt[t]
  /\ Len(flush[t]) > 1
  /\ cw' = [cw EXCEPT ![t] = Head(flush[t])]
  /\ flush' = [flush EXCEPT ![t] = Tail(@)]
  /\ writer' = AfterTake[t]
  /\ UNCHANGED <<free, heap, data, cc, collector, waited, written, collected, disk>>

\* bqueue_pop_wait on a flush queue.
Take(t) ==
  /\ writer = TakeAt[t]
  /\ flush[t] # <<>>
  /\ cw' = [cw EXCEPT ![t] = Head(flush[t])]
  /\ flush' = [flush EXCEPT ![t] = Tail(@)]
  /\ writer' = AfterTake[t]
  /\ UNCHANGED <<free, heap, data, cc, collector, waited, written, collected, disk>>

WriteSample(t) ==
  /\ writer = WriteAt[t]
  /\ written < Len(data[cw[t]])
  /\ disk' = [disk EXCEPT ![t] = Append(@, data[cw[t]][written + 1])]
  /\ written' = written + 1
  /\ UNCHANGED <<queues, data, cc, cw, collector, waited, writer, collected>>

\* The count is not reset.
BugWriteDone(t) ==
  /\ writer = WriteAt[t]
  /\ written = Len(data[cw[t]])
  /\ written' = 0
  /\ writer' = AfterWrite[t]
  /\ UNCHANGED <<queues, data, cc, cw, collector, waited, collected, disk>>

\* The end of the loop over the samples, and count = 0.
WriteDone(t) ==
  /\ writer = WriteAt[t]
  /\ written = Len(data[cw[t]])
  /\ data' = [data EXCEPT ![cw[t]] = <<>>]
  /\ written' = 0
  /\ writer' = AfterWrite[t]
  /\ UNCHANGED <<queues, cc, cw, collector, waited, collected, disk>>

\* The used buffer is put where the next pop takes it.
BugGive(t) ==
  /\ writer = GiveAt[t]
  /\ free' = [free EXCEPT ![t] = <<cw[t]>> \o @]
  /\ writer' = AfterGive[t]
  /\ UNCHANGED <<flush, heap, data, cc, cw, collector, waited, written, collected, disk>>

\* bqueue_push on a free queue.
Give(t) ==
  /\ writer = GiveAt[t]
  /\ free' = [free EXCEPT ![t] = Append(@, cw[t])]
  /\ writer' = AfterGive[t]
  /\ UNCHANGED <<flush, heap, data, cc, cw, collector, waited, written, collected, disk>>

Clear ==
  /\ writer = "clear"
  /\ cw' = [t \in Types |-> NULL]
  /\ writer' = "takeFlow"
  /\ UNCHANGED <<queues, data, cc, collector, waited, written, collected, disk>>

-----------------------------------------------------------------------------

Setup == Allocated \/ \E t \in Types, b \in Buffers : Allocate(t, b)

Datagram ==
  \E nf, nc \in 0..MaxDatagramSamples, expired \in BOOLEAN : Receive(nf, nc, expired)

Flushing ==
  \E t \in Types :
    \/ Push(t)
    \/ Wait(t)
    \/ PopShrink(t)
    \/ PopPlain(t)
    \/ \E b \in Buffers : PopGrow(t, b)

Writing ==
  \/ \E t \in Types : Take(t) \/ WriteSample(t) \/ WriteDone(t) \/ Give(t)
  \/ Clear

Next == Setup \/ Datagram \/ Flushing \/ Writing

Spec == Init /\ [][Next]_vars

\* Both threads run; nothing makes a datagram arrive.
FairSpec == Spec /\ WF_vars(Setup) /\ WF_vars(Flushing) /\ WF_vars(Writing)

-----------------------------------------------------------------------------
(* Who has which buffer.                                                   *)

\* Where the collector has a buffer of type t that no queue and no other thread has.
CollectorHolds(t) ==
  \/ collector \in {"recv", "pushFlow"}
  \/ t = "cntr" /\ collector = "pushCntr"
  \/ t = "flow" /\ collector = "popCntr"

WriterHolds(t) ==
  \/ writer \in {"writeFlow", "writeCntr", "giveFlow"}
  \/ t = "flow" /\ writer = "takeCntr"
  \/ t = "cntr" /\ writer = "giveCntr"

Places == {"free", "flush", "collector", "writer"}

At(t, p) ==
  CASE p = "free"      -> Range(free[t])
    [] p = "flush"     -> Range(flush[t])
    [] p = "collector" -> IF CollectorHolds(t) THEN {cc[t]} ELSE {}
    [] p = "writer"    -> IF WriterHolds(t) THEN {cw[t]} ELSE {}

CollectorPcs == {"alloc", "recv", "pushFlow", "pushCntr", "popFlow", "popCntr"}
WriterPcs == {"takeFlow", "takeCntr", "writeFlow", "writeCntr", "giveFlow", "giveCntr", "clear"}

TypeOK ==
  /\ free \in [Types -> Seq(Buffers)]
  /\ flush \in [Types -> Seq(Buffers)]
  /\ heap \in [Types -> SUBSET Buffers]
  /\ data \in [Buffers -> Seq(Sample)]
  /\ cc \in [Types -> Buffers \cup {NULL}]
  /\ cw \in [Types -> Buffers \cup {NULL}]
  /\ collector \in CollectorPcs
  /\ waited \in BOOLEAN
  /\ writer \in WriterPcs
  /\ written \in Nat
  /\ collected \in [Types -> Nat]
  /\ disk \in [Types -> Seq(Sample)]
  /\ \A t \in Types : /\ CollectorHolds(t) => cc[t] \in Buffers
                      /\ WriterHolds(t) => cw[t] \in Buffers

\* Each allocated buffer of a type is in exactly one queue of that type or with
\* exactly one thread, and once in it: the threads touch the samples of a
\* buffer without a lock, so a shared buffer is a data race, a repeated one is
\* written twice, a missing one is leaked and one outside heap was freed.
OneOwner ==
  /\ heap["flow"] \cap heap["cntr"] = {}
  /\ \A t \in Types :
       /\ heap[t] = UNION {At(t, p) : p \in Places}
       /\ IsInjective(free[t]) /\ IsInjective(flush[t])
       /\ \A p1, p2 \in Places : p1 # p2 => At(t, p1) \cap At(t, p2) = {}

\* No buffer ever holds more samples than it was allocated for, although its
\* fill is tested only between datagrams and for both types together.
NoOverflow == \A b \in Buffers : Len(data[b]) <= BufferSize

-----------------------------------------------------------------------------
(* Where the samples are.                                                  *)

\* What is left to write of the writer's buffer of type t.
Unwritten(t) ==
  IF ~WriterHolds(t) THEN <<>>
  ELSE IF writer = WriteAt[t]
       THEN SubSeq(data[cw[t]], written + 1, Len(data[cw[t]]))
       ELSE data[cw[t]]

Waiting(t) == FlattenSeq([i \in 1..Len(flush[t]) |-> data[flush[t][i]]])

Filling(t) == IF CollectorHolds(t) THEN data[cc[t]] ELSE <<>>

\* The samples on disk, in the writer's buffer, in the flush queue and in the
\* collector's buffer are, in this order, all the samples received: none is
\* lost, repeated or overtaken anywhere on the way, however the threads interleave.
SamplesInOrder ==
  \A t \in Types :
    disk[t] \o Unwritten(t) \o Waiting(t) \o Filling(t) = [i \in 1..collected[t] |-> i]

\* The writer takes flow and counter buffers in turn and never from different
\* flushes: the two flush queues differ by the step a thread is in the middle of.
FlushInLockstep ==
  Len(flush["flow"]) + (IF writer = "takeCntr" THEN 1 ELSE 0)
    = Len(flush["cntr"]) + (IF collector = "pushCntr" THEN 1 ELSE 0)

\* Free buffers carry no old samples: a flush starts from zero.
FreeIsEmpty ==
  \A t \in Types : \A b \in Range(free[t]) : data[b] = <<>>

-----------------------------------------------------------------------------
(* Progress.                                                               *)

\* The collector returns to its socket after every flush: with both threads
\* running it never waits for a buffer for ever, even with one buffer per type.
FlushReturns == collector # "recv" ~> collector = "recv"

HandedOver(t) == collected[t] - Len(Filling(t))

\* Every sample handed over by a flush is written in the end.
FlushedIsWritten ==
  \A t \in Types : \A n \in 1..MaxSamples :
    HandedOver(t) >= n ~> Len(disk[t]) >= n

\* man/sflow-toolkit.conf.5:78-80: flush interval "is the maximum time to wait
\* for a buffer to fill up before writing it's contents to disk", so that every
\* sample received is written some time.
ReceivedIsWritten ==
  \A t \in Types : \A n \in 1..MaxSamples :
    collected[t] >= n ~> Len(disk[t]) >= n

-----------------------------------------------------------------------------
(* The four queues as pools.                                               *)

FreeFlow == INSTANCE BufferPool WITH
  InitialNum <- BufferNum, Elastic <- TRUE, ready <- collector # "alloc",
  items <- free["flow"], out <- heap["flow"] \ Range(free["flow"])

FreeCntr == INSTANCE BufferPool WITH
  InitialNum <- BufferNum, Elastic <- TRUE, ready <- collector # "alloc",
  items <- free["cntr"], out <- heap["cntr"] \ Range(free["cntr"])

FlushFlow == INSTANCE BufferPool WITH
  InitialNum <- 0, Elastic <- FALSE, ready <- collector # "alloc",
  items <- flush["flow"], out <- Buffers \ Range(flush["flow"])

FlushCntr == INSTANCE BufferPool WITH
  InitialNum <- 0, Elastic <- FALSE, ready <- collector # "alloc",
  items <- flush["cntr"], out <- Buffers \ Range(flush["cntr"])

\* What the threads do to the free queues is what the callers of bqueue_push
\* and bqueue_pop may do to an elastic pool.
FreePoolSpec == FreeFlow!Spec /\ FreeCntr!Spec

\* What they do to the flush queues is what the callers of bqueue_push and
\* bqueue_pop_wait may do to a fixed pool.
FlushPoolSpec == FlushFlow!Spec /\ FlushCntr!Spec
=============================================================================
