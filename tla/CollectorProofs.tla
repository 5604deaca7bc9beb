---------------------------- MODULE CollectorProofs ----------------------------
(***************************************************************************)
(* The safety of the buffer hand-over between the collector and the writer *)
(* thread, for every number and size of buffers.                           *)
(***************************************************************************)
EXTENDS Collector, SeqLemmas

\* The program counters of the hand-over, written out.
LEMMA Counters ==
  /\ Types = {"flow", "cntr"}
  /\ PushAt["flow"] = "pushFlow" /\ PushAt["cntr"] = "pushCntr"
  /\ PopAt["flow"] = "popFlow" /\ PopAt["cntr"] = "popCntr"
  /\ AfterPush["flow"] = "pushCntr" /\ AfterPush["cntr"] = "popFlow"
  /\ AfterPop["flow"] = "popCntr" /\ AfterPop["cntr"] = "recv"
  /\ TakeAt["flow"] = "takeFlow" /\ TakeAt["cntr"] = "takeCntr"
  /\ WriteAt["flow"] = "writeFlow" /\ WriteAt["cntr"] = "writeCntr"
  /\ GiveAt["flow"] = "giveFlow" /\ GiveAt["cntr"] = "giveCntr"
  /\ AfterTake["flow"] = "takeCntr" /\ AfterTake["cntr"] = "writeFlow"
  /\ AfterWrite["flow"] = "writeCntr" /\ AfterWrite["cntr"] = "giveFlow"
  /\ AfterGive["flow"] = "giveCntr" /\ AfterGive["cntr"] = "clear"
BY DEF Types, PushAt, PopAt, AfterPush, AfterPop, TakeAt, WriteAt, GiveAt,
       AfterTake, AfterWrite, AfterGive

-----------------------------------------------------------------------------
(* Types.                                                                  *)

\* What one datagram does to the buffers: the two current ones grow by the
\* samples of their type, the others stay.
Arrived(c, n) == [i \in 1..n |-> c + i]

Filled(nf, nc) ==
  [b \in Buffers |-> IF b = cc["flow"] THEN data[b] \o Arrived(collected["flow"], nf)
                     ELSE IF b = cc["cntr"] THEN data[b] \o Arrived(collected["cntr"], nc)
                     ELSE data[b]]

LEMMA ReceiveFills ==
  ASSUME NEW nf, NEW nc, NEW expired, Receive(nf, nc, expired)
  PROVE  /\ collector = "recv" /\ nf + nc <= MaxDatagramSamples
         /\ data' = Filled(nf, nc)
         /\ collected' = [t \in Types |-> collected[t] + [flow |-> nf, cntr |-> nc][t]]
         /\ collector' \in {"pushFlow", "recv"}
         /\ collector' = "recv" => ~Full(data', "flow") /\ ~Full(data', "cntr")
         /\ UNCHANGED <<queues, cc, cw, waited, writer, written, disk>>
BY DEF Receive, Filled, Arrived

LEMMA ArrivedType ==
  ASSUME NEW c \in Nat, NEW n \in Nat, NEW s \in Seq(Sample)
  PROVE  /\ Arrived(c, n) \in Seq(Sample) /\ Len(Arrived(c, n)) = n
         /\ s \o Arrived(c, n) \in Seq(Sample)
         /\ Len(s \o Arrived(c, n)) = Len(s) + n
<1>1. Arrived(c, n) \in [1..n -> Sample]
  BY DEF Arrived, Sample
<1>2. Arrived(c, n) \in Seq(Sample) /\ Len(Arrived(c, n)) = n
  BY <1>1
<1> QED BY <1>2

\* The collector's pops, whichever of the three ways they end: they return the
\* head of a sequence s that is free[t], its front, or free[t] with a fresh buffer.
LEMMA PopSource ==
  ASSUME TypeOK, NEW t \in Types,
         PopShrink(t) \/ PopPlain(t) \/ \E b \in Buffers : PopGrow(t, b)
  PROVE  \E s \in Seq(Buffers) :
           /\ s # <<>> /\ PopFrom(t, s)
           /\ \/ /\ s = free[t] /\ UNCHANGED <<heap, data>>
              \/ \E b \in Buffers :
                   /\ Fresh(b) /\ s = Append(free[t], b)
                   /\ heap' = [heap EXCEPT ![t] = @ \cup {b}]
                   /\ data' = [data EXCEPT ![b] = <<>>]
              \/ /\ s = SubSeq(free[t], 1, Len(free[t]) - 1) /\ free[t] # <<>>
                 /\ heap' = [heap EXCEPT ![t] = @ \ {free[t][Len(free[t])]}]
                 /\ UNCHANGED data
<1>1. free[t] \in Seq(Buffers)
  BY DEF TypeOK
<1>2. CASE PopPlain(t)
  BY <1>1, <1>2 DEF PopPlain, PopFrom
<1>3. ASSUME NEW b \in Buffers, PopGrow(t, b)
      PROVE  /\ Append(free[t], b) \in Seq(Buffers) /\ Append(free[t], b) # <<>>
             /\ PopFrom(t, Append(free[t], b)) /\ Fresh(b)
             /\ heap' = [heap EXCEPT ![t] = @ \cup {b}]
             /\ data' = [data EXCEPT ![b] = <<>>]
  <2>1. Append(free[t], b) \in Seq(Buffers) /\ Append(free[t], b) # <<>>
    BY <1>1
  <2> QED BY <1>3, <2>1 DEF PopGrow
<1>4. CASE PopShrink(t)
  <2> DEFINE f == SubSeq(free[t], 1, Len(free[t]) - 1)
  <2>1. /\ free[t] # <<>> /\ Len(free[t]) > 1 /\ PopFrom(t, f)
        /\ heap' = [heap EXCEPT ![t] = @ \ {free[t][Len(free[t])]}] /\ UNCHANGED data
    <3>1. Len(free[t]) \in Nat
      BY <1>1
    <3> QED BY <1>4, <3>1, CollectorAssumption DEF PopShrink, PopFrom
  <2>2. f \in Seq(Buffers) /\ Len(f) = Len(free[t]) - 1
    BY <1>1, <2>1, FrontElements
  <2>3. f # <<>>
    <3> HIDE DEF f
    <3> QED BY <2>1, <2>2, PositiveLength, Len(f) > 0
  <2> QED BY <2>1, <2>2, <2>3
<1> QED BY <1>2, <1>3, <1>4

LEMMA InitType == Init => TypeOK
<1> SUFFICES ASSUME Init PROVE TypeOK
  OBVIOUS
<1>1. <<>> \in Seq(Buffers) /\ <<>> \in Seq(Sample)
  OBVIOUS
<1>2. \A t \in Types : ~CollectorHolds(t) /\ ~WriterHolds(t)
  BY DEF Init, CollectorHolds, WriterHolds
<1>3. collector \in CollectorPcs /\ writer \in WriterPcs /\ waited \in BOOLEAN /\ written \in Nat
  BY DEF Init, CollectorPcs, WriterPcs
<1>4. /\ free \in [Types -> Seq(Buffers)] /\ flush \in [Types -> Seq(Buffers)]
      /\ heap \in [Types -> SUBSET Buffers] /\ data \in [Buffers -> Seq(Sample)]
      /\ disk \in [Types -> Seq(Sample)] /\ collected \in [Types -> Nat]
      /\ cc \in [Types -> Buffers \cup {NULL}] /\ cw \in [Types -> Buffers \cup {NULL}]
  BY <1>1 DEF Init
<1> QED BY <1>2, <1>3, <1>4 DEF TypeOK

LEMMA StepType == TypeOK /\ [Next]_vars => TypeOK'
<1> SUFFICES ASSUME TypeOK, [Next]_vars PROVE TypeOK'
  OBVIOUS
<1> USE DEF TypeOK
<1>1. ASSUME NEW t \in Types, NEW b \in Buffers, Allocate(t, b) PROVE TypeOK'
  <2>1. Append(free[t], b) \in Seq(Buffers) /\ <<>> \in Seq(Sample)
    OBVIOUS
  <2> QED BY <1>1, <2>1 DEF Allocate, CollectorHolds, WriterHolds
<1>2. CASE Allocated
  BY <1>2 DEF Allocated, CollectorHolds, WriterHolds, CollectorPcs, queues
<1>3. ASSUME NEW nf \in Nat, NEW nc \in Nat, NEW expired, Receive(nf, nc, expired) PROVE TypeOK'
  <2>1. Filled(nf, nc) \in [Buffers -> Seq(Sample)]
    BY ArrivedType, Counters DEF Filled
  <2>2. [t \in Types |-> collected[t] + [flow |-> nf, cntr |-> nc][t]] \in [Types -> Nat]
    BY Counters
  <2>3. collector' \in CollectorPcs /\ \A t \in Types : CollectorHolds(t)
    BY <1>3, ReceiveFills DEF CollectorPcs, CollectorHolds
  <2> QED BY <1>3, <2>1, <2>2, <2>3, ReceiveFills DEF queues, WriterHolds
<1>4. ASSUME NEW t \in Types, Push(t) PROVE TypeOK'
  <2>1. cc[t] \in Buffers /\ collector' \in CollectorPcs
        /\ \A u \in Types : CollectorHolds(u)' => CollectorHolds(u)
    BY <1>4, Counters DEF Push, CollectorHolds, CollectorPcs
  <2>2. Append(flush[t], cc[t]) \in Seq(Buffers)
    BY <2>1
  <2> QED BY <1>4, <2>1, <2>2 DEF Push, WriterHolds
<1>5. ASSUME NEW t \in Types, Wait(t) PROVE TypeOK'
  BY <1>5 DEF Wait, queues, CollectorHolds, WriterHolds
<1>6. ASSUME NEW t \in Types, PopShrink(t) \/ PopPlain(t) \/ \E b \in Buffers : PopGrow(t, b)
      PROVE  TypeOK'
  <2>1. PICK s \in Seq(Buffers) :
          /\ s # <<>> /\ PopFrom(t, s)
          /\ \/ UNCHANGED <<heap, data>>
             \/ \E b \in Buffers :
                   /\ heap' = [heap EXCEPT ![t] = @ \cup {b}]
                   /\ data' = [data EXCEPT ![b] = <<>>]
             \/ /\ heap' = [heap EXCEPT ![t] = @ \ {free[t][Len(free[t])]}]
                /\ UNCHANGED data
    BY <1>6, PopSource
  <2>2. Tail(s) \in Seq(Buffers) /\ Head(s) \in Buffers /\ <<>> \in Seq(Sample)
    BY <2>1
  <2>3. heap' \in [Types -> SUBSET Buffers] /\ data' \in [Buffers -> Seq(Sample)]
    <3>1. CASE UNCHANGED <<heap, data>>
      BY <3>1
    <3>2. ASSUME NEW b \in Buffers, heap' = [heap EXCEPT ![t] = @ \cup {b}],
                 data' = [data EXCEPT ![b] = <<>>]
          PROVE  heap' \in [Types -> SUBSET Buffers] /\ data' \in [Buffers -> Seq(Sample)]
      BY <2>2, <3>2
    <3>3. CASE heap' = [heap EXCEPT ![t] = @ \ {free[t][Len(free[t])]}] /\ UNCHANGED data
      BY <3>3
    <3> QED BY <2>1, <3>1, <3>2, <3>3
  <2>4. collector' \in CollectorPcs /\ \A u \in Types : CollectorHolds(u)' => u = t \/ CollectorHolds(u)
    BY <2>1, Counters DEF PopFrom, CollectorHolds, CollectorPcs
  <2> QED BY <2>1, <2>2, <2>3, <2>4 DEF PopFrom, WriterHolds
<1>7. ASSUME NEW t \in Types, Take(t) PROVE TypeOK'
  <2>1. flush[t] \in Seq(Buffers) /\ flush[t] # <<>>
    BY <1>7 DEF Take
  <2>2. Head(flush[t]) \in Buffers /\ Tail(flush[t]) \in Seq(Buffers)
    BY <2>1
  <2>3. writer' \in WriterPcs /\ \A u \in Types : WriterHolds(u)' => u = t \/ WriterHolds(u)
    BY <1>7, Counters DEF Take, WriterHolds, WriterPcs
  <2> QED BY <1>7, <2>2, <2>3 DEF Take, CollectorHolds
<1>8. ASSUME NEW t \in Types, WriteSample(t) PROVE TypeOK'
  <2>1. cw[t] \in Buffers
    BY <1>8, Counters DEF WriteSample, WriterHolds
  <2>2. data[cw[t]] \in Seq(Sample) /\ written + 1 \in 1..Len(data[cw[t]])
    BY <1>8, <2>1 DEF WriteSample
  <2>3. data[cw[t]][written + 1] \in Sample
    BY <2>2, ElementOfSeq
  <2>4. Append(disk[t], data[cw[t]][written + 1]) \in Seq(Sample)
    BY <2>3
  <2> QED BY <1>8, <2>4 DEF WriteSample, queues, CollectorHolds, WriterHolds
<1>9. ASSUME NEW t \in Types, WriteDone(t) PROVE TypeOK'
  <2>1. writer' \in WriterPcs /\ \A u \in Types : WriterHolds(u)' => WriterHolds(u)
    BY <1>9, Counters DEF WriteDone, WriterHolds, WriterPcs
  <2>2. <<>> \in Seq(Sample)
    OBVIOUS
  <2> QED BY <1>9, <2>1, <2>2 DEF WriteDone, queues, CollectorHolds
<1>10. ASSUME NEW t \in Types, Give(t) PROVE TypeOK'
  <2>1. cw[t] \in Buffers /\ writer' \in WriterPcs
        /\ \A u \in Types : WriterHolds(u)' => WriterHolds(u)
    BY <1>10, Counters DEF Give, WriterHolds, WriterPcs
  <2>2. Append(free[t], cw[t]) \in Seq(Buffers)
    BY <2>1
  <2> QED BY <1>10, <2>1, <2>2 DEF Give, CollectorHolds
<1>11. CASE Clear
  <2>1. \A u \in Types : ~WriterHolds(u)'
    BY <1>11 DEF Clear, WriterHolds
  <2> QED BY <1>11, <2>1 DEF Clear, queues, CollectorHolds, WriterPcs
<1>12. CASE UNCHANGED vars
  BY <1>12 DEF vars, CollectorHolds, WriterHolds
<1>13. CASE Setup
  BY <1>1, <1>2, <1>13 DEF Setup
<1>14. CASE Datagram
  BY <1>3, <1>14, CollectorAssumption DEF Datagram
<1>15. CASE Flushing
  BY <1>4, <1>5, <1>6, <1>15 DEF Flushing
<1>16. CASE Writing
  BY <1>7, <1>8, <1>9, <1>10, <1>11, <1>16 DEF Writing
<1> QED BY <1>12, <1>13, <1>14, <1>15, <1>16 DEF Next

\* In every reachable state the queues hold buffers, the buffers hold samples,
\* and a thread that uses a buffer pointer has a buffer behind it, not NULL.
THEOREM CollectorType == Spec => []TypeOK
BY InitType, StepType, PTL DEF Spec

-----------------------------------------------------------------------------
(* Ownership.                                                              *)

CollectorSet(t) == IF CollectorHolds(t) THEN {cc[t]} ELSE {}
WriterSet(t) == IF WriterHolds(t) THEN {cw[t]} ELSE {}

\* H is split into the four other sets.
Split(H, F, U, C, W) ==
  /\ H = F \cup U \cup C \cup W
  /\ F \cap U = {} /\ F \cap C = {} /\ F \cap W = {}
  /\ U \cap C = {} /\ U \cap W = {} /\ C \cap W = {}

\* OneOwner for one type, with its four places by name.
Owned(t) ==
  /\ IsInjective(free[t]) /\ IsInjective(flush[t])
  /\ Split(heap[t], Range(free[t]), Range(flush[t]), CollectorSet(t), WriterSet(t))

OwnerInv ==
  /\ \A t, u \in Types : t # u => heap[t] \cap heap[u] = {}
  /\ \A t \in Types : Owned(t)

LEMMA OwnerInvImpliesOneOwner == OwnerInv => OneOwner
<1> SUFFICES ASSUME OwnerInv PROVE OneOwner
  OBVIOUS
<1>1. heap["flow"] \cap heap["cntr"] = {}
  BY Counters DEF OwnerInv
<1>2. ASSUME NEW t \in Types
      PROVE  /\ heap[t] = UNION {At(t, p) : p \in Places}
             /\ IsInjective(free[t]) /\ IsInjective(flush[t])
             /\ \A p1, p2 \in Places : p1 # p2 => At(t, p1) \cap At(t, p2) = {}
  <2>1. /\ At(t, "free") = Range(free[t]) /\ At(t, "flush") = Range(flush[t])
        /\ At(t, "collector") = CollectorSet(t) /\ At(t, "writer") = WriterSet(t)
    BY DEF At, CollectorSet, WriterSet
  <2>2. Owned(t)
    BY DEF OwnerInv
  <2> HIDE DEF At
  <2>3. UNION {At(t, p) : p \in Places}
          = At(t, "free") \cup At(t, "flush") \cup At(t, "collector") \cup At(t, "writer")
    BY DEF Places
  <2>4. \A p1, p2 \in Places : p1 # p2 => At(t, p1) \cap At(t, p2) = {}
    BY <2>1, <2>2 DEF Owned, Split, Places
  <2>5. heap[t] = UNION {At(t, p) : p \in Places}
    BY <2>1, <2>2, <2>3 DEF Owned, Split
  <2> QED BY <2>2, <2>4, <2>5 DEF Owned
<1> QED BY <1>1, <1>2 DEF OneOwner

\* A step that is about one type leaves the places of the other alone.
LEMMA OtherType ==
  ASSUME OwnerInv, NEW t \in Types, Owned(t)',
         \A u \in Types : u # t =>
            /\ free'[u] = free[u] /\ flush'[u] = flush[u] /\ heap'[u] = heap[u]
            /\ CollectorSet(u)' = CollectorSet(u) /\ WriterSet(u)' = WriterSet(u)
            /\ heap'[t] \cap heap[u] = {}
  PROVE  OwnerInv'
<1>1. \A u \in Types : u # t => Owned(u)'
  BY DEF OwnerInv, Owned
<1>2. \A u, v \in Types : u # v => heap'[u] \cap heap'[v] = {}
  BY DEF OwnerInv
<1> QED BY <1>1, <1>2 DEF OwnerInv

\* The collector's pop puts the head of s where the collector has it.
LEMMA PopOwned ==
  ASSUME TypeOK, OwnerInv, NEW t \in Types, NEW s \in Seq(Buffers), s # <<>>,
         PopFrom(t, s), IsInjective(s), IsInjective(flush[t]),
         Split(heap'[t], Range(s), Range(flush[t]), {}, WriterSet(t)),
         \A u \in Types : u # t => heap'[u] = heap[u] /\ heap'[t] \cap heap[u] = {}
  PROVE  OwnerInv'
<1>1. /\ free' = [free EXCEPT ![t] = Tail(s)] /\ cc' = [cc EXCEPT ![t] = Head(s)]
      /\ collector = PopAt[t] /\ collector' = AfterPop[t]
      /\ UNCHANGED <<flush, cw, writer>>
  BY DEF PopFrom
<1>2. free \in [Types -> Seq(Buffers)] /\ cc \in [Types -> Buffers \cup {NULL}]
  BY DEF TypeOK
<1>3. CollectorHolds(t)' /\ \A u \in Types : u # t => (CollectorHolds(u)' <=> CollectorHolds(u))
  BY <1>1, Counters DEF CollectorHolds
<1>4. /\ Range(s) = Range(Tail(s)) \cup {Head(s)} /\ Head(s) \notin Range(Tail(s))
      /\ IsInjective(Tail(s))
  BY TailElements
<1>5. CollectorSet(t)' = {Head(s)} /\ (\A u \in Types : WriterSet(u)' = WriterSet(u))
  BY <1>1, <1>2, <1>3 DEF CollectorSet, WriterSet, WriterHolds
<1>6. free'[t] = Tail(s) /\ flush'[t] = flush[t]
  BY <1>1, <1>2
<1>7. Split(heap'[t], Range(Tail(s)), Range(flush[t]), {Head(s)}, WriterSet(t))
  BY <1>4 DEF Split
<1>8. Owned(t)'
  BY <1>4, <1>5, <1>6, <1>7 DEF Owned
<1>9. \A u \in Types : u # t =>
         free'[u] = free[u] /\ flush'[u] = flush[u] /\ CollectorSet(u)' = CollectorSet(u)
  BY <1>1, <1>2, <1>3 DEF CollectorSet
<1> QED BY <1>5, <1>8, <1>9, OtherType

LEMMA InitOwner == Init => OwnerInv
BY DEF Init, OwnerInv, Owned, Split, CollectorSet, WriterSet, CollectorHolds,
       WriterHolds, IsInjective, Range

LEMMA StepOwner == TypeOK /\ OwnerInv /\ [Next]_vars => OwnerInv'
<1> SUFFICES ASSUME TypeOK, OwnerInv, [Next]_vars PROVE OwnerInv'
  OBVIOUS
<1>0. /\ free \in [Types -> Seq(Buffers)] /\ flush \in [Types -> Seq(Buffers)]
      /\ heap \in [Types -> SUBSET Buffers]
      /\ cc \in [Types -> Buffers \cup {NULL}] /\ cw \in [Types -> Buffers \cup {NULL}]
      /\ \A t \in Types : CollectorHolds(t) => cc[t] \in Buffers
      /\ \A t \in Types : WriterHolds(t) => cw[t] \in Buffers
  BY DEF TypeOK
<1>1. ASSUME NEW t \in Types, NEW b \in Buffers, Allocate(t, b) PROVE OwnerInv'
  <2>1. /\ free'[t] = Append(free[t], b) /\ heap'[t] = heap[t] \cup {b}
        /\ flush'[t] = flush[t] /\ \A u \in Types : b \notin heap[u]
    BY <1>0, <1>1 DEF Allocate, Fresh
  <2>2. \A u \in Types : CollectorSet(u)' = CollectorSet(u) /\ WriterSet(u)' = WriterSet(u)
    BY <1>1 DEF Allocate, CollectorSet, WriterSet, CollectorHolds, WriterHolds
  <2>3. Owned(t)
    BY DEF OwnerInv
  <2>4. Range(Append(free[t], b)) = Range(free[t]) \cup {b} /\ IsInjective(Append(free[t], b))
    BY <1>0, <2>1, <2>3, AppendElements DEF Owned, Split
  <2>5. Split(heap[t] \cup {b}, Range(free[t]) \cup {b}, Range(flush[t]), CollectorSet(t), WriterSet(t))
    BY <2>1, <2>3 DEF Owned, Split
  <2>6. Owned(t)'
    BY <2>1, <2>2, <2>3, <2>4, <2>5 DEF Owned
  <2>7. \A u \in Types : u # t =>
           /\ free'[u] = free[u] /\ flush'[u] = flush[u] /\ heap'[u] = heap[u]
           /\ heap'[t] \cap heap[u] = {}
    BY <1>0, <1>1, <2>1 DEF Allocate, OwnerInv
  <2> QED BY <2>2, <2>6, <2>7, OtherType
<1>2. ASSUME UNCHANGED <<free, flush, heap, cc>>,
             \A t \in Types : CollectorHolds(t)' <=> CollectorHolds(t),
             \A t \in Types : WriterSet(t)' = WriterSet(t)
      PROVE  OwnerInv'
  <2>1. \A t \in Types : CollectorSet(t)' = CollectorSet(t)
    BY <1>2 DEF CollectorSet
  <2> QED BY <1>2, <2>1 DEF OwnerInv, Owned
<1>3. CASE Allocated
  BY <1>2, <1>3 DEF Allocated, queues, CollectorHolds, WriterSet, WriterHolds
<1>4. ASSUME NEW nf, NEW nc, NEW expired, Receive(nf, nc, expired) PROVE OwnerInv'
  BY <1>2, <1>4, ReceiveFills DEF queues, CollectorHolds, WriterSet, WriterHolds
<1>5. ASSUME NEW t \in Types, Push(t) PROVE OwnerInv'
  <2>1. /\ flush'[t] = Append(flush[t], cc[t])
        /\ UNCHANGED <<free, heap, cc, cw, writer>>
        /\ \A u \in Types : u # t => flush'[u] = flush[u]
    BY <1>0, <1>5 DEF Push
  <2>2. /\ CollectorHolds(t) /\ ~CollectorHolds(t)'
        /\ \A u \in Types : u # t => (CollectorHolds(u)' <=> CollectorHolds(u))
    BY <1>5, Counters DEF Push, CollectorHolds
  <2>3. Owned(t) /\ cc[t] \in Buffers /\ CollectorSet(t) = {cc[t]} /\ CollectorSet(t)' = {}
    BY <1>0, <2>2 DEF OwnerInv, CollectorSet
  <2>4. /\ Range(Append(flush[t], cc[t])) = Range(flush[t]) \cup {cc[t]}
        /\ IsInjective(Append(flush[t], cc[t]))
    BY <1>0, <2>3, AppendElements DEF Owned, Split
  <2>5. Split(heap[t], Range(free[t]), Range(flush[t]) \cup {cc[t]}, {}, WriterSet(t))
    BY <2>3 DEF Owned, Split
  <2>6. \A u \in Types : WriterSet(u)' = WriterSet(u)
    BY <2>1 DEF WriterSet, WriterHolds
  <2>7. Owned(t)'
    BY <2>1, <2>3, <2>4, <2>5, <2>6 DEF Owned
  <2>8. \A u \in Types : u # t => CollectorSet(u)' = CollectorSet(u) /\ heap'[t] \cap heap[u] = {}
    BY <2>1, <2>2 DEF CollectorSet, OwnerInv
  <2> QED BY <2>1, <2>6, <2>7, <2>8, OtherType
<1>6. ASSUME NEW t \in Types, Wait(t) PROVE OwnerInv'
  BY <1>2, <1>6 DEF Wait, queues, CollectorHolds, WriterSet, WriterHolds
<1>7. ASSUME NEW t \in Types, PopShrink(t) \/ PopPlain(t) \/ \E b \in Buffers : PopGrow(t, b)
      PROVE  OwnerInv'
  <2>1. PICK s \in Seq(Buffers) :
           /\ s # <<>> /\ PopFrom(t, s)
           /\ \/ s = free[t] /\ heap' = heap
              \/ \E b \in Buffers :
                   /\ Fresh(b) /\ s = Append(free[t], b)
                   /\ heap' = [heap EXCEPT ![t] = @ \cup {b}]
              \/ /\ s = SubSeq(free[t], 1, Len(free[t]) - 1) /\ free[t] # <<>>
                 /\ heap' = [heap EXCEPT ![t] = @ \ {free[t][Len(free[t])]}]
    BY <1>7, PopSource
  <2>2. Owned(t) /\ ~CollectorHolds(t) /\ CollectorSet(t) = {}
    BY <2>1, Counters DEF OwnerInv, PopFrom, CollectorHolds, CollectorSet
  <2>3. CASE s = free[t] /\ heap' = heap
    <3>1. Split(heap'[t], Range(s), Range(flush[t]), {}, WriterSet(t)) /\ IsInjective(s)
      BY <2>2, <2>3 DEF Owned
    <3> QED BY <2>1, <2>2, <2>3, <3>1, PopOwned DEF Owned, OwnerInv
  <2>4. ASSUME NEW b \in Buffers, Fresh(b), s = Append(free[t], b),
               heap' = [heap EXCEPT ![t] = @ \cup {b}]
        PROVE  OwnerInv'
    <3>1. \A u \in Types : b \notin heap[u]
      BY <2>4 DEF Fresh
    <3>2. heap'[t] = heap[t] \cup {b} /\ \A u \in Types : u # t => heap'[u] = heap[u]
      BY <1>0, <2>4
    <3>3. Range(s) = Range(free[t]) \cup {b} /\ IsInjective(s)
      BY <1>0, <2>2, <2>4, <3>1, AppendElements DEF Owned, Split
    <3>4. Split(heap'[t], Range(s), Range(flush[t]), {}, WriterSet(t))
      BY <2>2, <3>1, <3>2, <3>3 DEF Owned, Split
    <3>5. \A u \in Types : u # t => heap'[t] \cap heap[u] = {}
      BY <3>1, <3>2 DEF OwnerInv
    <3> QED BY <2>1, <2>2, <3>2, <3>3, <3>4, <3>5, PopOwned DEF Owned
  <2>5. CASE /\ s = SubSeq(free[t], 1, Len(free[t]) - 1) /\ free[t] # <<>>
             /\ heap' = [heap EXCEPT ![t] = @ \ {free[t][Len(free[t])]}]
    <3> DEFINE x == free[t][Len(free[t])]
    <3>1. heap'[t] = heap[t] \ {x} /\ \A u \in Types : u # t => heap'[u] = heap[u]
      BY <1>0, <2>5
    <3>2. Range(free[t]) = Range(s) \cup {x} /\ IsInjective(s) /\ x \notin Range(s)
      BY <1>0, <2>2, <2>5, FrontElements DEF Owned
    <3>3. Split(heap'[t], Range(s), Range(flush[t]), {}, WriterSet(t))
      BY <2>2, <3>1, <3>2 DEF Owned, Split
    <3>4. \A u \in Types : u # t => heap'[t] \cap heap[u] = {}
      BY <3>1 DEF OwnerInv
    <3> QED BY <2>1, <2>2, <3>1, <3>2, <3>3, <3>4, PopOwned DEF Owned
  <2> QED BY <2>1, <2>3, <2>4, <2>5
<1>8. ASSUME NEW t \in Types, Take(t) PROVE OwnerInv'
  <2>1. /\ flush[t] # <<>> /\ flush'[t] = Tail(flush[t]) /\ cw'[t] = Head(flush[t])
        /\ UNCHANGED <<free, heap, cc, collector>>
        /\ \A u \in Types : u # t => flush'[u] = flush[u] /\ cw'[u] = cw[u]
    BY <1>0, <1>8 DEF Take
  <2>2. /\ ~WriterHolds(t) /\ WriterHolds(t)'
        /\ \A u \in Types : u # t => (WriterHolds(u)' <=> WriterHolds(u))
    BY <1>8, Counters DEF Take, WriterHolds
  <2>3. Owned(t) /\ WriterSet(t) = {} /\ WriterSet(t)' = {Head(flush[t])}
    BY <2>1, <2>2 DEF OwnerInv, WriterSet
  <2>4. /\ Range(flush[t]) = Range(Tail(flush[t])) \cup {Head(flush[t])}
        /\ Head(flush[t]) \notin Range(Tail(flush[t])) /\ IsInjective(Tail(flush[t]))
    BY <1>0, <2>1, <2>3, TailElements DEF Owned
  <2>5. Split(heap[t], Range(free[t]), Range(Tail(flush[t])), CollectorSet(t), {Head(flush[t])})
    BY <2>3, <2>4 DEF Owned, Split
  <2>6. \A u \in Types : CollectorSet(u)' = CollectorSet(u)
    BY <2>1 DEF CollectorSet, CollectorHolds
  <2>7. Owned(t)'
    BY <2>1, <2>3, <2>4, <2>5, <2>6 DEF Owned
  <2>8. \A u \in Types : u # t => WriterSet(u)' = WriterSet(u) /\ heap'[t] \cap heap[u] = {}
    BY <2>1, <2>2 DEF WriterSet, OwnerInv
  <2> QED BY <2>1, <2>6, <2>7, <2>8, OtherType
<1>9. ASSUME NEW t \in Types, WriteSample(t) \/ WriteDone(t) PROVE OwnerInv'
  <2>1. /\ UNCHANGED <<free, flush, heap, cc, cw, collector>>
        /\ \A u \in Types : WriterHolds(u)' <=> WriterHolds(u)
    BY <1>9, Counters DEF WriteSample, WriteDone, queues, WriterHolds
  <2> QED BY <1>2, <2>1 DEF CollectorHolds, WriterSet
<1>10. ASSUME NEW t \in Types, Give(t) PROVE OwnerInv'
  <2>1. /\ free'[t] = Append(free[t], cw[t])
        /\ UNCHANGED <<flush, heap, cc, cw, collector>>
        /\ \A u \in Types : u # t => free'[u] = free[u]
    BY <1>0, <1>10 DEF Give
  <2>2. /\ WriterHolds(t) /\ ~WriterHolds(t)'
        /\ \A u \in Types : u # t => (WriterHolds(u)' <=> WriterHolds(u))
    BY <1>10, Counters DEF Give, WriterHolds
  <2>3. Owned(t) /\ cw[t] \in Buffers /\ WriterSet(t) = {cw[t]} /\ WriterSet(t)' = {}
    BY <1>0, <2>2 DEF OwnerInv, WriterSet
  <2>4. /\ Range(Append(free[t], cw[t])) = Range(free[t]) \cup {cw[t]}
        /\ IsInjective(Append(free[t], cw[t]))
    BY <1>0, <2>3, AppendElements DEF Owned, Split
  <2>5. Split(heap[t], Range(free[t]) \cup {cw[t]}, Range(flush[t]), CollectorSet(t), {})
    BY <2>3 DEF Owned, Split
  <2>6. \A u \in Types : CollectorSet(u)' = CollectorSet(u)
    BY <2>1 DEF CollectorSet, CollectorHolds
  <2>7. Owned(t)'
    BY <2>1, <2>3, <2>4, <2>5, <2>6 DEF Owned
  <2>8. \A u \in Types : u # t => WriterSet(u)' = WriterSet(u) /\ heap'[t] \cap heap[u] = {}
    BY <2>1, <2>2 DEF WriterSet, OwnerInv
  <2> QED BY <2>1, <2>6, <2>7, <2>8, OtherType
<1>11. CASE Clear
  BY <1>2, <1>11 DEF Clear, queues, CollectorHolds, WriterSet, WriterHolds
<1>12. CASE UNCHANGED vars
  BY <1>2, <1>12 DEF vars, CollectorHolds, WriterSet, WriterHolds
<1>13. CASE Setup
  BY <1>1, <1>3, <1>13 DEF Setup
<1>14. CASE Datagram
  BY <1>4, <1>14 DEF Datagram
<1>15. CASE Flushing
  BY <1>5, <1>6, <1>7, <1>15 DEF Flushing
<1>16. CASE Writing
  BY <1>8, <1>9, <1>10, <1>11, <1>16 DEF Writing
<1> QED BY <1>12, <1>13, <1>14, <1>15, <1>16 DEF Next

\* The two threads never share, repeat, leak or use after free a buffer: the
\* justification for filling and writing buffers without a lock.
THEOREM CollectorOneOwner == Spec => []OneOwner
<1>1. Init => OwnerInv
  BY InitOwner
<1>2. OwnerInv => OneOwner
  BY OwnerInvImpliesOneOwner
<1> QED BY <1>1, <1>2, CollectorType, StepOwner, PTL DEF Spec

-----------------------------------------------------------------------------
(* What the buffers hold.                                                  *)

\* A flow buffer and the counter buffer taken after it come from one flush.
THEOREM CollectorLockstep == Spec => []FlushInLockstep
<1>1. Init => FlushInLockstep
  BY DEF Init, FlushInLockstep, Types
<1>2. TypeOK /\ FlushInLockstep /\ [Next]_vars => FlushInLockstep'
  <2> SUFFICES ASSUME TypeOK, FlushInLockstep, [Next]_vars PROVE FlushInLockstep'
    OBVIOUS
  <2>0. flush \in [Types -> Seq(Buffers)] /\ \A t \in Types : Len(flush[t]) \in Nat
    BY DEF TypeOK
  <2>1. CASE UNCHANGED flush /\ (collector' = "pushCntr" <=> collector = "pushCntr")
                /\ (writer' = "takeCntr" <=> writer = "takeCntr")
    BY <2>1 DEF FlushInLockstep
  <2>2. ASSUME NEW t \in Types, Push(t) PROVE FlushInLockstep'
    <3>1. /\ flush' = [flush EXCEPT ![t] = Append(@, cc[t])] /\ writer' = writer
          /\ collector = PushAt[t] /\ collector' = AfterPush[t]
      BY <2>2 DEF Push
    <3>2. Len(Append(flush[t], cc[t])) = Len(flush[t]) + 1
      <4>1. flush[t] \in Seq(Buffers)
        BY <2>0
      <4>2. cc[t] \in Buffers
        BY <3>1, Counters DEF TypeOK, CollectorHolds
      <4> QED BY <4>1, <4>2
    <3>3. CASE t = "flow"
      BY <2>0, <3>1, <3>2, <3>3, Counters DEF FlushInLockstep
    <3>4. CASE t = "cntr"
      BY <2>0, <3>1, <3>2, <3>4, Counters DEF FlushInLockstep
    <3> QED BY <3>3, <3>4, Counters
  <2>3. ASSUME NEW t \in Types, Take(t) PROVE FlushInLockstep'
    <3>1. /\ flush' = [flush EXCEPT ![t] = Tail(@)] /\ collector' = collector
          /\ writer = TakeAt[t] /\ writer' = AfterTake[t] /\ flush[t] # <<>>
      BY <2>3 DEF Take
    <3>2. Len(Tail(flush[t])) = Len(flush[t]) - 1
      BY <2>0, <3>1, TailElements
    <3>3. CASE t = "flow"
      BY <2>0, <3>1, <3>2, <3>3, Counters DEF FlushInLockstep
    <3>4. CASE t = "cntr"
      BY <2>0, <3>1, <3>2, <3>4, Counters DEF FlushInLockstep
    <3> QED BY <3>3, <3>4, Counters
  <2>4. CASE Setup \/ UNCHANGED vars
    BY <2>1, <2>4 DEF Setup, Allocate, Allocated, queues, vars
  <2>5. CASE Datagram
    BY <2>1, <2>5, ReceiveFills DEF Datagram, queues
  <2>6. ASSUME NEW t \in Types, Wait(t) PROVE FlushInLockstep'
    BY <2>1, <2>6 DEF Wait, queues
  <2>7. ASSUME NEW t \in Types, PopShrink(t) \/ PopPlain(t) \/ \E b \in Buffers : PopGrow(t, b)
        PROVE  FlushInLockstep'
    BY <2>1, <2>7, Counters DEF PopShrink, PopPlain, PopGrow, PopFrom
  <2>8. ASSUME NEW t \in Types, WriteSample(t) \/ WriteDone(t) \/ Give(t) PROVE FlushInLockstep'
    BY <2>1, <2>8, Counters DEF WriteSample, WriteDone, Give, queues
  <2>9. CASE Clear
    BY <2>1, <2>9 DEF Clear, queues
  <2> QED BY <2>2, <2>3, <2>4, <2>5, <2>6, <2>7, <2>8, <2>9 DEF Next, Flushing, Writing
<1> QED BY <1>1, <1>2, CollectorType, PTL DEF Spec

\* What ownership says of the buffers the threads point to.
LEMMA Apart ==
  ASSUME TypeOK, OwnerInv, NEW t \in Types
  PROVE  /\ \A u \in Types : CollectorHolds(t) => cc[t] \notin Range(free[u])
         /\ \A u \in Types : WriterHolds(t) => cw[t] \notin Range(free[u])
         /\ \A u \in Types : CollectorHolds(t) /\ WriterHolds(u) => cc[t] # cw[u]
         /\ \A u \in Types : CollectorHolds(t) /\ CollectorHolds(u) /\ t # u => cc[t] # cc[u]
         /\ \A b : Fresh(b) => b \notin Range(free[t]) /\ (CollectorHolds(t) => cc[t] # b)
                               /\ (WriterHolds(t) => cw[t] # b)
         /\ \A u \in Types : WriterHolds(t) /\ WriterHolds(u) /\ t # u => cw[t] # cw[u]
<1>1. \A u \in Types : /\ Range(free[u]) \subseteq heap[u]
                       /\ CollectorHolds(u) => cc[u] \in heap[u] /\ cc[u] \notin Range(free[u])
                       /\ WriterHolds(u) => cw[u] \in heap[u] /\ cw[u] \notin Range(free[u])
                       /\ CollectorHolds(u) /\ WriterHolds(u) => cc[u] # cw[u]
  BY DEF OwnerInv, Owned, Split, CollectorSet, WriterSet
<1>2. \A u \in Types : u # t => heap[t] \cap heap[u] = {}
  BY DEF OwnerInv
<1> QED BY <1>1, <1>2 DEF Fresh

\* The strengthening of NoOverflow: a current buffer has room for one more
\* datagram whenever the collector is at its socket, because the buffers that
\* come back from the writer are empty.
DataInv ==
  /\ NoOverflow
  /\ FreeIsEmpty
  /\ \A t \in Types :
       collector = "recv" \/ (t = "flow" /\ collector = "popCntr")
         => Len(data[cc[t]]) + MaxDatagramSamples <= BufferSize
  /\ \A t \in Types :
       (t = "flow" /\ writer \in {"writeCntr", "giveFlow"}) \/ writer = GiveAt[t]
                                                      \/ (t = "cntr" /\ writer = "giveFlow")
         => data[cw[t]] = <<>>

\* Steps that change neither the samples nor a pointer nor, but to fewer
\* obligations, a program counter.
LEMMA DataKept ==
  ASSUME DataInv, UNCHANGED data,
         \A t \in Types : Range(free[t])' \subseteq Range(free[t]),
         \A t \in Types :
            (collector = "recv" \/ (t = "flow" /\ collector = "popCntr"))'
              => /\ collector = "recv" \/ (t = "flow" /\ collector = "popCntr")
                 /\ cc'[t] = cc[t],
         \A t \in Types :
            ((t = "flow" /\ writer \in {"writeCntr", "giveFlow"}) \/ writer = GiveAt[t]
                                                      \/ (t = "cntr" /\ writer = "giveFlow"))'
              => /\ \/ t = "flow" /\ writer \in {"writeCntr", "giveFlow"}
                    \/ writer = GiveAt[t]
                    \/ t = "cntr" /\ writer = "giveFlow"
                 /\ cw'[t] = cw[t]
  PROVE  DataInv'
BY DEF DataInv, NoOverflow, FreeIsEmpty

LEMMA InitData == Init => DataInv
<1> SUFFICES ASSUME Init PROVE DataInv
  OBVIOUS
<1>1. Len(<<>>) = 0 /\ BufferSize \in Nat
  BY CollectorAssumption
<1> QED BY <1>1, Counters DEF Init, DataInv, NoOverflow, FreeIsEmpty, Range

LEMMA StepData == TypeOK /\ OwnerInv /\ DataInv /\ TypeOK' /\ [Next]_vars => DataInv'
<1> SUFFICES ASSUME TypeOK, OwnerInv, DataInv, TypeOK', [Next]_vars PROVE DataInv'
  OBVIOUS
<1>0. /\ BufferSize \in Nat /\ MaxDatagramSamples \in Nat /\ MaxDatagramSamples <= BufferSize
      /\ data \in [Buffers -> Seq(Sample)] /\ \A b \in Buffers : Len(data[b]) \in Nat
      /\ free \in [Types -> Seq(Buffers)] /\ \A t \in Types : Range(free[t]) \subseteq Buffers
      /\ \A t \in Types : (CollectorHolds(t) => cc[t] \in Buffers) /\ (WriterHolds(t) => cw[t] \in Buffers)
      /\ Len(<<>>) = 0
  BY CollectorAssumption, LenProperties DEF TypeOK, Range
<1>r. ASSUME NEW b \in Buffers, data' = [data EXCEPT ![b] = <<>>]
      PROVE  /\ data'[b] = <<>>
             /\ \A x \in Buffers : /\ data[x] = <<>> => data'[x] = <<>>
                                  /\ Len(data'[x]) \in Nat /\ Len(data'[x]) <= Len(data[x])
             /\ NoOverflow'
  <2>1. \A x \in Buffers : data'[x] = data[x] \/ data'[x] = <<>>
    BY <1>0, <1>r
  <2>2. data'[b] = <<>>
    BY <1>0, <1>r
  <2>3. \A x \in Buffers : Len(data'[x]) \in Nat /\ Len(data'[x]) <= Len(data[x])
    BY <1>0, <2>1
  <2>4. NoOverflow'
    BY <1>0, <2>3 DEF DataInv, NoOverflow
  <2> QED BY <2>1, <2>2, <2>3, <2>4
<1>w. \A t \in Types :
        (t = "flow" /\ writer \in {"writeCntr", "giveFlow"}) \/ writer = GiveAt[t]
                                                       \/ (t = "cntr" /\ writer = "giveFlow")
          => cw[t] \in Buffers /\ data[cw[t]] = <<>>
  BY <1>0, Counters DEF DataInv, WriterHolds
<1>c. \A t \in Types :
        collector = "recv" \/ (t = "flow" /\ collector = "popCntr")
          => cc[t] \in Buffers /\ Len(data[cc[t]]) + MaxDatagramSamples <= BufferSize
  BY <1>0, Counters DEF DataInv, CollectorHolds
<1>1. ASSUME NEW t \in Types, NEW b \in Buffers, Allocate(t, b) PROVE DataInv'
  <2>1. /\ collector = "alloc" /\ free' = [free EXCEPT ![t] = Append(@, b)]
        /\ data' = [data EXCEPT ![b] = <<>>]
        /\ UNCHANGED <<cc, cw, collector, writer>>
    BY <1>1 DEF Allocate
  <2>2. Range(Append(free[t], b)) = Range(free[t]) \cup {b}
    BY <1>0, AppendElements
  <2>3. \A u \in Types : Range(free'[u]) \subseteq Range(free[u]) \cup {b}
    BY <1>0, <2>1, <2>2
  <2>4. FreeIsEmpty'
    <3> SUFFICES ASSUME NEW u \in Types, NEW x \in Range(free'[u]) PROVE data'[x] = <<>>
      BY DEF FreeIsEmpty
    <3>1. x = b \/ (x \in Buffers /\ data[x] = <<>>)
      BY <1>0, <2>3 DEF DataInv, FreeIsEmpty
    <3> QED BY <1>r, <2>1, <3>1
  <2>5. NoOverflow'
    BY <1>r, <2>1
  <2> QED BY <1>r, <1>w, <2>1, <2>4, <2>5 DEF DataInv
<1>2. CASE Allocated
  BY <1>2, DataKept DEF Allocated, queues
<1>3. ASSUME NEW nf \in Nat, NEW nc \in Nat, NEW expired, Receive(nf, nc, expired) PROVE DataInv'
  <2>1. /\ collector = "recv" /\ nf + nc <= MaxDatagramSamples
        /\ data' = Filled(nf, nc)
        /\ collector' \in {"pushFlow", "recv"}
        /\ collector' = "recv" => ~Full(data', "flow") /\ ~Full(data', "cntr")
        /\ UNCHANGED <<free, cc, cw, writer>>
    BY <1>3, ReceiveFills DEF queues
  <2>2. CollectorHolds("flow") /\ CollectorHolds("cntr")
    BY <2>1 DEF CollectorHolds
  <2>3. /\ cc["flow"] \in Buffers /\ cc["cntr"] \in Buffers
        /\ Len(data[cc["flow"]]) + MaxDatagramSamples <= BufferSize
        /\ Len(data[cc["cntr"]]) + MaxDatagramSamples <= BufferSize
    BY <1>0, <2>1, <2>2, Counters DEF DataInv
  <2>4. ASSUME NEW b \in Buffers
        PROVE  /\ b # cc["flow"] /\ b # cc["cntr"] => data'[b] = data[b]
               /\ b = cc["flow"] => Len(data'[b]) = Len(data[b]) + nf
               /\ b # cc["flow"] /\ b = cc["cntr"] => Len(data'[b]) = Len(data[b]) + nc
    <3>1. data[b] \in Seq(Sample) /\ collected["flow"] \in Nat /\ collected["cntr"] \in Nat
      BY Counters DEF TypeOK
    <3>2. /\ Len(data[b] \o Arrived(collected["flow"], nf)) = Len(data[b]) + nf
          /\ Len(data[b] \o Arrived(collected["cntr"], nc)) = Len(data[b]) + nc
      BY <3>1, ArrivedType
    <3> QED BY <2>1, <3>2 DEF Filled
  <2>5. NoOverflow'
    <3> SUFFICES ASSUME NEW b \in Buffers PROVE Len(data'[b]) <= BufferSize
      BY DEF NoOverflow
    <3>1. Len(data[b]) <= BufferSize /\ Len(data[b]) \in Nat
      BY <1>0 DEF DataInv, NoOverflow
    <3>2. CASE b = cc["flow"]
      BY <1>0, <2>1, <2>3, <2>4, <3>1, <3>2
    <3>3. CASE b # cc["flow"] /\ b = cc["cntr"]
      BY <1>0, <2>1, <2>3, <2>4, <3>1, <3>3
    <3>4. CASE b # cc["flow"] /\ b # cc["cntr"]
      BY <2>4, <3>1, <3>4
    <3> QED BY <3>2, <3>3, <3>4
  <2>6. FreeIsEmpty'
    <3> SUFFICES ASSUME NEW t \in Types, NEW b \in Range(free[t]) PROVE data'[b] = <<>>
      BY <2>1 DEF FreeIsEmpty
    <3>1. b \in Buffers /\ data[b] = <<>>
      BY <1>0 DEF DataInv, FreeIsEmpty
    <3>2. b # cc["flow"] /\ b # cc["cntr"]
      BY <2>2, Apart, Counters
    <3> QED BY <2>4, <3>1, <3>2
  <2>7. collector' = "recv" => \A t \in Types : Len(data'[cc[t]]) + MaxDatagramSamples <= BufferSize
    <3> SUFFICES ASSUME collector' = "recv", NEW t \in Types
                 PROVE  Len(data'[cc[t]]) + MaxDatagramSamples <= BufferSize
      OBVIOUS
    <3>1. cc[t] \in Buffers /\ data' \in [Buffers -> Seq(Sample)]
      BY <2>3, Counters DEF TypeOK
    <3>2. Len(data'[cc[t]]) \in Nat
      BY <3>1, LenProperties
    <3>3. ~(Len(data'[cc[t]]) >= BufferSize - MaxDatagramSamples)
      BY <2>1, Counters DEF Full
    <3> QED BY <1>0, <3>2, <3>3
  <2>8. \A t \in Types : WriterHolds(t) => data'[cw[t]] = data[cw[t]]
    BY <1>0, <2>2, <2>4, Apart, Counters
  <2>9. collector' # "popCntr"
    BY <2>1
  <2> QED BY <2>1, <2>5, <2>6, <2>7, <2>8, <2>9, Counters DEF DataInv, WriterHolds
<1>4. ASSUME NEW t \in Types, Push(t) PROVE DataInv'
  BY <1>4, DataKept, Counters DEF Push
<1>5. ASSUME NEW t \in Types, Wait(t) PROVE DataInv'
  BY <1>5, DataKept DEF Wait, queues
<1>6. ASSUME NEW t \in Types, PopShrink(t) \/ PopPlain(t) \/ \E b \in Buffers : PopGrow(t, b)
      PROVE  DataInv'
  <2>1. PICK s \in Seq(Buffers) :
           /\ s # <<>> /\ PopFrom(t, s)
           /\ \/ s = free[t] /\ data' = data
              \/ \E b \in Buffers : /\ s = Append(free[t], b)
                                   /\ data' = [data EXCEPT ![b] = <<>>]
              \/ /\ s = SubSeq(free[t], 1, Len(free[t]) - 1) /\ free[t] # <<>>
                 /\ data' = data
    BY <1>6, PopSource
  <2>2. /\ \A x \in Range(s) : x \in Buffers /\ data'[x] = <<>>
        /\ \A x \in Buffers : /\ data[x] = <<>> => data'[x] = <<>>
                             /\ Len(data'[x]) \in Nat /\ Len(data'[x]) <= Len(data[x])
        /\ NoOverflow'
    <3>0. \A x \in Range(free[t]) : x \in Buffers /\ data[x] = <<>>
      BY <1>0 DEF DataInv, FreeIsEmpty
    <3>1. ASSUME data' = data
          PROVE  NoOverflow' /\ \A x \in Buffers : Len(data'[x]) \in Nat /\ Len(data'[x]) <= Len(data[x])
      BY <1>0, <3>1 DEF DataInv, NoOverflow
    <3>2. CASE s = free[t] /\ data' = data
      BY <3>0, <3>1, <3>2
    <3>3. ASSUME NEW b \in Buffers, s = Append(free[t], b), data' = [data EXCEPT ![b] = <<>>]
          PROVE  /\ \A x \in Range(s) : x \in Buffers /\ data'[x] = <<>>
                 /\ \A x \in Buffers : /\ data[x] = <<>> => data'[x] = <<>>
                                      /\ Len(data'[x]) \in Nat /\ Len(data'[x]) <= Len(data[x])
                 /\ NoOverflow'
      <4>1. Range(s) = Range(free[t]) \cup {b}
        BY <1>0, <3>3, AppendElements
      <4> QED BY <1>r, <3>0, <3>3, <4>1
    <3>4. CASE s = SubSeq(free[t], 1, Len(free[t]) - 1) /\ free[t] # <<>> /\ data' = data
      <4>1. Range(s) \subseteq Range(free[t])
        BY <1>0, <3>4, FrontElements
      <4> QED BY <3>0, <3>1, <3>4, <4>1
    <3> QED BY <2>1, <3>2, <3>3, <3>4
  <2>3. /\ free' = [free EXCEPT ![t] = Tail(s)] /\ cc' = [cc EXCEPT ![t] = Head(s)]
        /\ collector = PopAt[t] /\ collector' = AfterPop[t] /\ UNCHANGED <<cw, writer>>
    BY <2>1 DEF PopFrom
  <2>4. Head(s) \in Range(s) /\ Range(Tail(s)) \subseteq Range(s)
    BY <2>1, TailElements
  <2>5. FreeIsEmpty'
    <3> SUFFICES ASSUME NEW u \in Types, NEW x \in Range(free'[u]) PROVE data'[x] = <<>>
      BY DEF FreeIsEmpty
    <3>1. CASE u = t
      BY <1>0, <2>2, <2>3, <2>4, <3>1
    <3>2. CASE u # t
      <4>1. x \in Buffers /\ data[x] = <<>>
        BY <1>0, <2>3, <3>2 DEF DataInv, FreeIsEmpty
      <4> QED BY <2>2, <4>1
    <3> QED BY <3>1, <3>2
  <2>6. cc'[t] = Head(s) /\ (\A u \in Types : u # t => cc'[u] = cc[u]) /\ Len(data'[Head(s)]) = 0
    <3>1. data'[Head(s)] = <<>>
      BY <2>2, <2>4
    <3> QED BY <1>0, <2>3, <3>1 DEF TypeOK
  <2>7. ASSUME NEW u \in Types, (collector = "recv" \/ (u = "flow" /\ collector = "popCntr"))'
        PROVE  Len(data'[cc'[u]]) + MaxDatagramSamples <= BufferSize
    <3>1. CASE u = t
      BY <1>0, <2>6, <3>1
    <3>2. CASE u # t
      <4>1. u = "flow" /\ collector = "popCntr" /\ cc'[u] = cc[u]
        BY <2>3, <2>6, <2>7, <3>2, Counters
      <4>2. cc[u] \in Buffers /\ Len(data[cc[u]]) + MaxDatagramSamples <= BufferSize
        BY <1>c, <4>1
      <4> QED BY <1>0, <2>2, <4>1, <4>2
    <3> QED BY <3>1, <3>2
  <2> QED BY <1>w, <2>2, <2>3, <2>5, <2>7 DEF DataInv
<1>7. ASSUME NEW t \in Types, Take(t) PROVE DataInv'
  BY <1>7, DataKept, Counters DEF Take
<1>8. ASSUME NEW t \in Types, WriteSample(t) PROVE DataInv'
  BY <1>8, DataKept DEF WriteSample, queues
<1>9. ASSUME NEW t \in Types, WriteDone(t) PROVE DataInv'
  <2>1. /\ writer = WriteAt[t] /\ writer' = AfterWrite[t] /\ data' = [data EXCEPT ![cw[t]] = <<>>]
        /\ UNCHANGED <<free, cc, cw, collector>>
    BY <1>9 DEF WriteDone, queues
  <2>2. cw[t] \in Buffers
    BY <1>0, <2>1, Counters DEF WriterHolds
  <2>3. /\ data'[cw[t]] = <<>>
        /\ \A x \in Buffers : /\ data[x] = <<>> => data'[x] = <<>>
                             /\ Len(data'[x]) \in Nat /\ Len(data'[x]) <= Len(data[x])
        /\ NoOverflow'
    BY <1>r, <2>1, <2>2
  <2>4. FreeIsEmpty'
    <3> SUFFICES ASSUME NEW u \in Types, NEW x \in Range(free[u]) PROVE data'[x] = <<>>
      BY <2>1 DEF FreeIsEmpty
    <3> QED BY <1>0, <2>3 DEF DataInv, FreeIsEmpty
  <2>5. ASSUME NEW u \in Types, collector = "recv" \/ (u = "flow" /\ collector = "popCntr")
        PROVE  Len(data'[cc[u]]) + MaxDatagramSamples <= BufferSize
    <3>1. cc[u] \in Buffers /\ Len(data[cc[u]]) + MaxDatagramSamples <= BufferSize
      BY <1>c, <2>5
    <3> QED BY <1>0, <2>3, <3>1
  <2>6. ASSUME NEW u \in Types,
               ((u = "flow" /\ writer \in {"writeCntr", "giveFlow"}) \/ writer = GiveAt[u]
                                                      \/ (u = "cntr" /\ writer = "giveFlow"))'
        PROVE  data'[cw[u]] = <<>>
    <3>1. u = t \/ (u = "flow" /\ writer = "writeCntr")
      BY <2>1, <2>6, Counters
    <3> QED BY <1>w, <2>3, <3>1
  <2> QED BY <2>1, <2>3, <2>4, <2>5, <2>6 DEF DataInv
<1>10. ASSUME NEW t \in Types, Give(t) PROVE DataInv'
  <2>1. /\ writer = GiveAt[t] /\ writer' = AfterGive[t]
        /\ free' = [free EXCEPT ![t] = Append(@, cw[t])]
        /\ UNCHANGED <<data, cc, cw, collector>>
    BY <1>10 DEF Give
  <2>2. cw[t] \in Buffers /\ data[cw[t]] = <<>>
    BY <1>w, <2>1
  <2>3. Range(Append(free[t], cw[t])) = Range(free[t]) \cup {cw[t]}
    BY <1>0, <2>2, AppendElements
  <2>4. FreeIsEmpty'
    <3>1. \A u \in Types : \A x \in Range(free'[u]) : x \in Range(free[u]) \/ x = cw[t]
      BY <1>0, <2>1, <2>3
    <3> QED BY <2>1, <2>2, <3>1 DEF DataInv, FreeIsEmpty
  <2>5. ASSUME NEW u \in Types,
               ((u = "flow" /\ writer \in {"writeCntr", "giveFlow"}) \/ writer = GiveAt[u]
                                                      \/ (u = "cntr" /\ writer = "giveFlow"))'
        PROVE  data[cw[u]] = <<>>
    <3>1. u = "cntr" /\ writer = "giveFlow"
      BY <2>1, <2>5, Counters
    <3> QED BY <1>w, <3>1
  <2> QED BY <2>1, <2>4, <2>5 DEF DataInv, NoOverflow
<1>11. CASE Clear
  BY <1>11, DataKept, Counters DEF Clear, queues
<1>12. CASE UNCHANGED vars
  BY <1>12, DataKept DEF vars
<1>13. CASE Setup
  BY <1>1, <1>2, <1>13 DEF Setup
<1>14. CASE Datagram
  BY <1>3, <1>14, CollectorAssumption DEF Datagram
<1>15. CASE Flushing
  BY <1>4, <1>5, <1>6, <1>15 DEF Flushing
<1>16. CASE Writing
  BY <1>7, <1>8, <1>9, <1>10, <1>11, <1>16 DEF Writing
<1> QED BY <1>12, <1>13, <1>14, <1>15, <1>16 DEF Next

\* The threshold buffer_size - MAX_DATAGRAM_SAMPLES keeps every buffer within
\* its allocation, as long as no datagram has more samples than that.
THEOREM CollectorNoOverflow == Spec => []NoOverflow
<1>1. DataInv => NoOverflow
  BY DEF DataInv
<1> QED BY <1>1, CollectorType, InitOwner, StepOwner, InitData, StepData, PTL DEF Spec

\* A buffer that comes from a free queue counts no samples.
THEOREM CollectorFreeIsEmpty == Spec => []FreeIsEmpty
<1>1. DataInv => FreeIsEmpty
  BY DEF DataInv
<1> QED BY <1>1, CollectorType, InitOwner, StepOwner, InitData, StepData, PTL DEF Spec

-----------------------------------------------------------------------------
(* The queues as pools.                                                    *)

\* While main allocates, nothing has been handed to the writer.
NothingHanded ==
  collector = "alloc" => writer = "takeFlow" /\ \A t \in Types : flush[t] = <<>>

LEMMA InitHanded == Init => NothingHanded
BY DEF Init, NothingHanded

LEMMA StepHanded == TypeOK /\ NothingHanded /\ [Next]_vars => NothingHanded'
<1> SUFFICES ASSUME TypeOK, NothingHanded, [Next]_vars PROVE NothingHanded'
  OBVIOUS
<1>1. CASE UNCHANGED <<collector, writer, flush>>
  BY <1>1 DEF NothingHanded
<1>2. CASE Setup
  BY <1>2 DEF Setup, Allocated, Allocate, queues, NothingHanded
<1>3. ASSUME collector' # "alloc" PROVE NothingHanded'
  BY <1>3 DEF NothingHanded
<1>4. CASE Datagram
  BY <1>3, <1>4 DEF Datagram, Receive
<1>5. ASSUME NEW t \in Types, Push(t) PROVE NothingHanded'
  BY <1>3, <1>5, Counters DEF Push
<1>6. ASSUME NEW t \in Types, NEW s, PopFrom(t, s) PROVE NothingHanded'
  BY <1>3, <1>6, Counters DEF PopFrom
<1>7. CASE Flushing
  <2>1. ASSUME NEW t \in Types, Wait(t) PROVE NothingHanded'
    BY <1>1, <2>1 DEF Wait, queues
  <2> QED BY <1>5, <1>6, <1>7, <2>1 DEF Flushing, PopShrink, PopPlain, PopGrow
<1>8. ASSUME NEW t \in Types, Take(t) \/ WriteSample(t) \/ WriteDone(t) \/ Give(t)
      PROVE  NothingHanded'
  <2>1. collector # "alloc"
    BY <1>8, Counters DEF NothingHanded, Take, WriteSample, WriteDone, Give
  <2>2. UNCHANGED collector
    BY <1>8 DEF Take, WriteSample, WriteDone, Give
  <2> QED BY <1>3, <2>1, <2>2
<1>9. CASE Clear
  BY <1>3, <1>9 DEF Clear, NothingHanded
<1>10. CASE Writing
  BY <1>8, <1>9, <1>10 DEF Writing
<1>11. CASE UNCHANGED vars
  BY <1>1, <1>11 DEF vars
<1> QED BY <1>2, <1>4, <1>7, <1>10, <1>11 DEF Next

\* The buffers of type t that its free queue has given out.
FreeOut(t) == heap[t] \ Range(free[t])

\* A step on the free queue of type t, as the pool has it.
FreeTaken(t, s) ==
  /\ collector # "alloc" /\ collector' # "alloc"
  /\ free[t] # <<>>
  /\ free'[t] = Tail(s)
  /\ FreeOut(t)' = FreeOut(t) \cup {Head(s)}

FreeStep(t) ==
  \/ UNCHANGED <<free[t], FreeOut(t), collector # "alloc">>
  \/ \E b \in Buffers :
       /\ collector = "alloc" /\ collector' = "alloc"
       /\ Len(free[t]) < BufferNum /\ b \notin heap[t]
       /\ free'[t] = Append(free[t], b) /\ FreeOut(t)' = FreeOut(t)
  \/ /\ collector = "alloc" /\ collector' # "alloc"
     /\ Len(free[t]) = BufferNum /\ UNCHANGED <<free[t], FreeOut(t)>>
  \/ \E b \in FreeOut(t) :
       /\ collector # "alloc" /\ collector' # "alloc"
       /\ free'[t] = Append(free[t], b) /\ FreeOut(t)' = FreeOut(t) \ {b}
  \/ FreeTaken(t, free[t])
  \/ \E b \in Buffers : b \notin heap[t] /\ FreeTaken(t, Append(free[t], b))
  \/ Len(free[t]) > BufferNum /\ FreeTaken(t, SubSeq(free[t], 1, Len(free[t]) - 1))

LEMMA FreeSteps ==
  ASSUME TypeOK, OwnerInv, NothingHanded, [Next]_vars, NEW u \in Types
  PROVE  FreeStep(u)
<1>0. /\ free \in [Types -> Seq(Buffers)] /\ heap \in [Types -> SUBSET Buffers]
      /\ \A t \in Types : Owned(t) /\ Range(free[t]) \subseteq heap[t]
  BY DEF TypeOK, OwnerInv, Owned, Split
<1>1. CASE UNCHANGED <<free, heap>> /\ (collector' # "alloc" <=> collector # "alloc")
  BY <1>1 DEF FreeStep, FreeOut
<1>2. ASSUME NEW t \in Types, u # t, collector' = "alloc" <=> collector = "alloc",
             free'[u] = free[u], heap'[u] = heap[u]
      PROVE  FreeStep(u)
  BY <1>2 DEF FreeStep, FreeOut
<1>3. ASSUME NEW t \in Types, NEW b \in Buffers, Allocate(t, b) PROVE FreeStep(u)
  <2>1. CASE u = t
    <3>1. /\ collector = "alloc" /\ collector' = "alloc" /\ Len(free[u]) < BufferNum
          /\ b \notin heap[u] /\ free'[u] = Append(free[u], b) /\ heap'[u] = heap[u] \cup {b}
      BY <1>0, <1>3, <2>1 DEF Allocate, Fresh
    <3>2. Range(Append(free[u], b)) = Range(free[u]) \cup {b}
      BY <1>0, AppendElements
    <3>3. FreeOut(u)' = FreeOut(u)
      BY <1>0, <3>1, <3>2 DEF FreeOut
    <3> QED BY <3>1, <3>3 DEF FreeStep
  <2>2. CASE u # t
    BY <1>0, <1>2, <1>3, <2>2 DEF Allocate
  <2> QED BY <2>1, <2>2
<1>4. CASE Allocated
  BY <1>4 DEF Allocated, queues, FreeStep, FreeOut
<1>5. CASE Datagram
  BY <1>1, <1>5 DEF Datagram, Receive, queues
<1>6. ASSUME NEW t \in Types, Push(t) \/ Wait(t) PROVE FreeStep(u)
  BY <1>1, <1>6, Counters DEF Push, Wait, queues
<1>7. ASSUME NEW t \in Types, PopShrink(t) \/ PopPlain(t) \/ \E b \in Buffers : PopGrow(t, b)
      PROVE  FreeStep(u)
  <2>1. PICK s \in Seq(Buffers) :
           /\ s # <<>> /\ PopFrom(t, s)
           /\ \/ s = free[t] /\ heap' = heap
              \/ \E b \in Buffers :
                   /\ Fresh(b) /\ s = Append(free[t], b)
                   /\ heap' = [heap EXCEPT ![t] = @ \cup {b}]
              \/ /\ s = SubSeq(free[t], 1, Len(free[t]) - 1) /\ Len(free[t]) > BufferNum
                 /\ heap' = [heap EXCEPT ![t] = @ \ {free[t][Len(free[t])]}]
    <3>1. CASE PopShrink(t)
      <4>1. PopFrom(t, SubSeq(free[t], 1, Len(free[t]) - 1)) /\ Len(free[t]) > BufferNum
            /\ heap' = [heap EXCEPT ![t] = @ \ {free[t][Len(free[t])]}] /\ free[t] # <<>>
        BY <3>1 DEF PopShrink, PopFrom
      <4>2. /\ SubSeq(free[t], 1, Len(free[t]) - 1) \in Seq(Buffers)
            /\ Len(SubSeq(free[t], 1, Len(free[t]) - 1)) = Len(free[t]) - 1
            /\ Len(free[t]) \in Nat
        BY <1>0, <4>1, FrontElements
      <4>3. Len(free[t]) - 1 > 0
        BY <4>1, <4>2, CollectorAssumption
      <4> QED BY <4>1, <4>2, <4>3, PositiveLength
    <3>2. CASE PopPlain(t)
      BY <1>0, <3>2 DEF PopPlain, PopFrom
    <3>3. ASSUME NEW b \in Buffers, PopGrow(t, b)
          PROVE  /\ Append(free[t], b) \in Seq(Buffers) /\ Append(free[t], b) # <<>>
                 /\ PopFrom(t, Append(free[t], b)) /\ Fresh(b)
                 /\ heap' = [heap EXCEPT ![t] = @ \cup {b}]
      <4>1. Append(free[t], b) \in Seq(Buffers) /\ Append(free[t], b) # <<>>
        BY <1>0
      <4> QED BY <3>3, <4>1 DEF PopGrow
    <3> QED BY <1>7, <3>1, <3>2, <3>3
  <2>2. /\ collector # "alloc" /\ collector' # "alloc" /\ free[t] # <<>>
        /\ free'[t] = Tail(s) /\ \A v \in Types : v # t => free'[v] = free[v]
    BY <1>0, <2>1, Counters DEF PopFrom
  <2>3. \A v \in Types : v # t => heap'[v] = heap[v]
    BY <1>0, <2>1
  <2>4. CASE u # t
    BY <1>2, <2>2, <2>3, <2>4
  <2>5. CASE u = t
    <3>1. Owned(u) /\ IsInjective(free[u])
      BY <1>0 DEF Owned
    <3>2. CASE s = free[u] /\ heap' = heap
      <4>1. /\ Range(free[u]) = Range(Tail(s)) \cup {Head(s)}
            /\ Head(s) \notin Range(Tail(s)) /\ Head(s) \in heap[u]
        BY <1>0, <2>1, <3>1, <3>2, TailElements
      <4>2. FreeTaken(u, free[u])
        BY <2>2, <2>5, <3>2, <4>1 DEF FreeTaken, FreeOut
      <4> QED BY <4>2 DEF FreeStep
    <3>3. ASSUME NEW b \in Buffers, Fresh(b), s = Append(free[u], b),
                 heap' = [heap EXCEPT ![u] = @ \cup {b}]
          PROVE  FreeStep(u)
      <4>1. b \notin heap[u] /\ heap'[u] = heap[u] \cup {b}
        BY <1>0, <3>3 DEF Fresh
      <4>2. Range(s) = Range(free[u]) \cup {b} /\ IsInjective(s)
        BY <1>0, <3>1, <3>3, <4>1, AppendElements
      <4>3. Range(s) = Range(Tail(s)) \cup {Head(s)} /\ Head(s) \notin Range(Tail(s))
        BY <2>1, <4>2, TailElements
      <4>4. FreeOut(u)' = FreeOut(u) \cup {Head(s)}
        BY <1>0, <2>2, <2>5, <4>1, <4>2, <4>3 DEF FreeOut
      <4>5. FreeTaken(u, Append(free[u], b))
        BY <2>2, <2>5, <3>3, <4>4 DEF FreeTaken
      <4> QED BY <4>1, <4>5 DEF FreeStep
    <3>4. CASE /\ s = SubSeq(free[u], 1, Len(free[u]) - 1) /\ Len(free[u]) > BufferNum
               /\ heap' = [heap EXCEPT ![u] = @ \ {free[u][Len(free[u])]}]
      <4> DEFINE x == free[u][Len(free[u])]
      <4>1. heap'[u] = heap[u] \ {x}
        BY <1>0, <3>4
      <4>2. Range(free[u]) = Range(s) \cup {x} /\ IsInjective(s) /\ x \notin Range(s)
        BY <1>0, <2>2, <2>5, <3>1, <3>4, FrontElements
      <4>3. Range(s) = Range(Tail(s)) \cup {Head(s)} /\ Head(s) \notin Range(Tail(s))
        BY <2>1, <4>2, TailElements
      <4> HIDE DEF x
      <4>4. FreeOut(u)' = FreeOut(u) \cup {Head(s)}
        BY <1>0, <2>2, <2>5, <4>1, <4>2, <4>3 DEF FreeOut
      <4>5. FreeTaken(u, SubSeq(free[u], 1, Len(free[u]) - 1))
        BY <2>2, <2>5, <3>4, <4>4 DEF FreeTaken
      <4> QED BY <3>4, <4>5 DEF FreeStep
    <3> QED BY <2>1, <2>5, <3>2, <3>3, <3>4
  <2> QED BY <2>4, <2>5
<1>8. ASSUME NEW t \in Types, Take(t) \/ WriteSample(t) \/ WriteDone(t) PROVE FreeStep(u)
  BY <1>1, <1>8 DEF Take, WriteSample, WriteDone, queues
<1>9. ASSUME NEW t \in Types, Give(t) PROVE FreeStep(u)
  <2>1. /\ collector # "alloc" /\ collector' = collector /\ heap' = heap
        /\ free' = [free EXCEPT ![t] = Append(@, cw[t])] /\ WriterHolds(t)
    BY <1>9, Counters DEF Give, NothingHanded, WriterHolds
  <2>2. cw[t] \in Buffers /\ cw[t] \in FreeOut(t)
    BY <1>0, <2>1 DEF TypeOK, Owned, Split, WriterSet, FreeOut
  <2>3. CASE u = t
    <3>1. free'[u] = Append(free[u], cw[u])
      BY <1>0, <2>1, <2>3
    <3>2. Range(Append(free[u], cw[u])) = Range(free[u]) \cup {cw[u]}
      BY <1>0, <2>2, <2>3, AppendElements
    <3>3. FreeOut(u)' = FreeOut(u) \ {cw[u]}
      BY <2>1, <3>1, <3>2 DEF FreeOut
    <3> QED BY <2>1, <2>2, <2>3, <3>1, <3>3 DEF FreeStep
  <2>4. CASE u # t
    BY <1>0, <1>2, <2>1, <2>4
  <2> QED BY <2>3, <2>4
<1>10. CASE Clear
  BY <1>1, <1>10 DEF Clear, queues
<1>11. CASE UNCHANGED vars
  BY <1>1, <1>11 DEF vars
<1>12. CASE Setup
  BY <1>3, <1>4, <1>12 DEF Setup
<1>13. CASE Flushing
  BY <1>6, <1>7, <1>13 DEF Flushing
<1>14. CASE Writing
  BY <1>8, <1>9, <1>10, <1>14 DEF Writing
<1> QED BY <1>5, <1>11, <1>12, <1>13, <1>14 DEF Next

LEMMA FreeStepsRefine ==
  ASSUME TypeOK, OwnerInv
  PROVE  /\ FreeStep("flow") => [FreeFlow!Next]_(FreeFlow!vars)
         /\ FreeStep("cntr") => [FreeCntr!Next]_(FreeCntr!vars)
<1>1. ASSUME NEW t \in Types
      PROVE  Range(free[t]) \cup (heap[t] \ Range(free[t])) = heap[t] /\ heap[t] \subseteq Buffers
  BY <1>1 DEF TypeOK, OwnerInv, Owned, Split
<1>2. ASSUME FreeStep("flow") PROVE [FreeFlow!Next]_(FreeFlow!vars)
  <2>1. FreeFlow!Allocated = heap["flow"] /\ FreeOut("flow") \subseteq Buffers
    BY <1>1, Counters DEF FreeFlow!Allocated, FreeFlow!Range, Range, FreeOut
  <2>2. CASE UNCHANGED <<free["flow"], FreeOut("flow"), collector # "alloc">>
    BY <2>2 DEF FreeFlow!vars, FreeOut
  <2>3. ASSUME NEW b \in Buffers, collector = "alloc", collector' = "alloc",
               Len(free["flow"]) < BufferNum, b \notin heap["flow"],
               free'["flow"] = Append(free["flow"], b), FreeOut("flow")' = FreeOut("flow")
        PROVE  FreeFlow!Fill(b)
    BY <2>1, <2>3 DEF FreeFlow!Fill, FreeOut
  <2>4. CASE /\ collector = "alloc" /\ collector' # "alloc"
             /\ Len(free["flow"]) = BufferNum /\ UNCHANGED <<free["flow"], FreeOut("flow")>>
    BY <2>4 DEF FreeFlow!Next, FreeFlow!Open, FreeOut
  <2>5. ASSUME NEW b \in FreeOut("flow"), collector # "alloc", collector' # "alloc",
               free'["flow"] = Append(free["flow"], b), FreeOut("flow")' = FreeOut("flow") \ {b}
        PROVE  b \in Buffers /\ FreeFlow!Put(b)
    BY <2>1, <2>5 DEF FreeFlow!Put, FreeOut
  <2>6. ASSUME NEW s, FreeTaken("flow", s)
        PROVE  FreeFlow!TakeFrom(s) /\ collector # "alloc" /\ free["flow"] # <<>>
    BY <2>6 DEF FreeTaken, FreeFlow!TakeFrom, FreeOut
  <2>7. CASE FreeTaken("flow", free["flow"])
    BY <2>6, <2>7 DEF FreeFlow!Next, FreeFlow!Take
  <2>8. ASSUME NEW b \in Buffers, b \notin heap["flow"], FreeTaken("flow", Append(free["flow"], b))
        PROVE  FreeFlow!TakeAndGrow(b)
    BY <2>1, <2>6, <2>8 DEF FreeFlow!TakeAndGrow
  <2>9. CASE /\ Len(free["flow"]) > BufferNum
             /\ FreeTaken("flow", SubSeq(free["flow"], 1, Len(free["flow"]) - 1))
    BY <2>6, <2>9 DEF FreeFlow!Next, FreeFlow!TakeAndShrink
  <2> QED BY <1>2, <2>2, <2>3, <2>4, <2>5, <2>7, <2>8, <2>9 DEF FreeStep, FreeFlow!Next
<1>3. ASSUME FreeStep("cntr") PROVE [FreeCntr!Next]_(FreeCntr!vars)
  <2>1. FreeCntr!Allocated = heap["cntr"] /\ FreeOut("cntr") \subseteq Buffers
    BY <1>1, Counters DEF FreeCntr!Allocated, FreeCntr!Range, Range, FreeOut
  <2>2. CASE UNCHANGED <<free["cntr"], FreeOut("cntr"), collector # "alloc">>
    BY <2>2 DEF FreeCntr!vars, FreeOut
  <2>3. ASSUME NEW b \in Buffers, collector = "alloc", collector' = "alloc",
               Len(free["cntr"]) < BufferNum, b \notin heap["cntr"],
               free'["cntr"] = Append(free["cntr"], b), FreeOut("cntr")' = FreeOut("cntr")
        PROVE  FreeCntr!Fill(b)
    BY <2>1, <2>3 DEF FreeCntr!Fill, FreeOut
  <2>4. CASE /\ collector = "alloc" /\ collector' # "alloc"
             /\ Len(free["cntr"]) = BufferNum /\ UNCHANGED <<free["cntr"], FreeOut("cntr")>>
    BY <2>4 DEF FreeCntr!Next, FreeCntr!Open, FreeOut
  <2>5. ASSUME NEW b \in FreeOut("cntr"), collector # "alloc", collector' # "alloc",
               free'["cntr"] = Append(free["cntr"], b), FreeOut("cntr")' = FreeOut("cntr") \ {b}
        PROVE  b \in Buffers /\ FreeCntr!Put(b)
    BY <2>1, <2>5 DEF FreeCntr!Put, FreeOut
  <2>6. ASSUME NEW s, FreeTaken("cntr", s)
        PROVE  FreeCntr!TakeFrom(s) /\ collector # "alloc" /\ free["cntr"] # <<>>
    BY <2>6 DEF FreeTaken, FreeCntr!TakeFrom, FreeOut
  <2>7. CASE FreeTaken("cntr", free["cntr"])
    BY <2>6, <2>7 DEF FreeCntr!Next, FreeCntr!Take
  <2>8. ASSUME NEW b \in Buffers, b \notin heap["cntr"], FreeTaken("cntr", Append(free["cntr"], b))
        PROVE  FreeCntr!TakeAndGrow(b)
    BY <2>1, <2>6, <2>8 DEF FreeCntr!TakeAndGrow
  <2>9. CASE /\ Len(free["cntr"]) > BufferNum
             /\ FreeTaken("cntr", SubSeq(free["cntr"], 1, Len(free["cntr"]) - 1))
    BY <2>6, <2>9 DEF FreeCntr!Next, FreeCntr!TakeAndShrink
  <2> QED BY <1>3, <2>2, <2>3, <2>4, <2>5, <2>7, <2>8, <2>9 DEF FreeStep, FreeCntr!Next
<1> QED BY <1>2, <1>3

\* Every pop and push of the threads on the two free queues is one that an
\* elastic pool allows: the collector's bqueue_pop takes the oldest buffer,
\* grows by a buffer nobody has or drops the newest, and the writer's
\* bqueue_push returns a buffer that came from the same queue.
THEOREM CollectorFreePools == Spec => FreePoolSpec
<1>1. Init => FreeFlow!Init /\ FreeCntr!Init
  BY Counters DEF Init, FreeFlow!Init, FreeCntr!Init, Range
<1>2. TypeOK /\ OwnerInv /\ NothingHanded /\ [Next]_vars
        => [FreeFlow!Next]_(FreeFlow!vars) /\ [FreeCntr!Next]_(FreeCntr!vars)
  BY FreeSteps, FreeStepsRefine, Counters
<1>3. Spec => FreeFlow!Spec /\ FreeCntr!Spec
  BY <1>1, <1>2, CollectorType, InitOwner, StepOwner, InitHanded, StepHanded, PTL
     DEF Spec, FreeFlow!Spec, FreeCntr!Spec
<1> QED BY <1>3 DEF FreePoolSpec

\* A step on the flush queue of type t, as the pool has it.
FlushStep(t) ==
  \/ UNCHANGED <<flush[t], collector # "alloc">>
  \/ collector = "alloc" /\ collector' # "alloc" /\ flush[t] = <<>> /\ UNCHANGED flush[t]
  \/ \E b \in Buffers \ Range(flush[t]) :
       /\ collector # "alloc" /\ collector' # "alloc"
       /\ flush'[t] = Append(flush[t], b)
       /\ Range(flush'[t]) = Range(flush[t]) \cup {b}
  \/ /\ collector # "alloc" /\ collector' # "alloc" /\ flush[t] # <<>>
     /\ flush'[t] = Tail(flush[t])
     /\ Range(flush[t]) = Range(flush'[t]) \cup {Head(flush[t])}
     /\ Head(flush[t]) \in Buffers /\ Head(flush[t]) \notin Range(flush'[t])

LEMMA FlushSteps ==
  ASSUME TypeOK, OwnerInv, NothingHanded, [Next]_vars, NEW u \in Types
  PROVE  FlushStep(u)
<1>0. flush \in [Types -> Seq(Buffers)] /\ \A t \in Types : Owned(t)
  BY DEF TypeOK, OwnerInv
<1>1. CASE UNCHANGED flush /\ (collector' # "alloc" <=> collector # "alloc")
  BY <1>1 DEF FlushStep
<1>2. CASE Setup
  <2>1. UNCHANGED flush
    BY <1>2 DEF Setup, Allocate, Allocated, queues
  <2>2. CASE Allocated
    BY <2>1, <2>2 DEF Allocated, NothingHanded, FlushStep
  <2>3. ASSUME NEW t \in Types, NEW b \in Buffers, Allocate(t, b) PROVE FlushStep(u)
    BY <1>1, <2>1, <2>3 DEF Allocate
  <2> QED BY <1>2, <2>2, <2>3 DEF Setup
<1>3. CASE Datagram
  BY <1>1, <1>3 DEF Datagram, Receive, queues
<1>4. ASSUME NEW t \in Types, Push(t) PROVE FlushStep(u)
  <2>1. /\ collector # "alloc" /\ collector' # "alloc" /\ CollectorHolds(t)
        /\ flush' = [flush EXCEPT ![t] = Append(@, cc[t])]
    BY <1>4, Counters DEF Push, CollectorHolds
  <2>2. CASE u # t
    BY <1>0, <2>1, <2>2 DEF FlushStep
  <2>3. CASE u = t
    <3>1. cc[u] \in Buffers /\ cc[u] \notin Range(flush[u]) /\ flush'[u] = Append(flush[u], cc[u])
      BY <1>0, <2>1, <2>3 DEF TypeOK, Owned, Split, CollectorSet
    <3>2. Range(flush'[u]) = Range(flush[u]) \cup {cc[u]}
      BY <1>0, <3>1, AppendElements
    <3> QED BY <2>1, <3>1, <3>2 DEF FlushStep
  <2> QED BY <2>2, <2>3
<1>5. ASSUME NEW t \in Types, Wait(t) PROVE FlushStep(u)
  BY <1>1, <1>5 DEF Wait, queues
<1>6. ASSUME NEW t \in Types, NEW s, PopFrom(t, s) PROVE FlushStep(u)
  BY <1>1, <1>6, Counters DEF PopFrom
<1>7. CASE Flushing
  BY <1>4, <1>5, <1>6, <1>7 DEF Flushing, PopShrink, PopPlain, PopGrow
<1>8. ASSUME NEW t \in Types, Take(t) PROVE FlushStep(u)
  <2>1. /\ flush[t] # <<>> /\ flush' = [flush EXCEPT ![t] = Tail(@)]
        /\ collector # "alloc" /\ collector' = collector
    BY <1>8 DEF Take, NothingHanded
  <2>2. CASE u # t
    BY <1>0, <2>1, <2>2 DEF FlushStep
  <2>3. CASE u = t
    <3>1. /\ Range(flush[u]) = Range(Tail(flush[u])) \cup {Head(flush[u])}
          /\ Head(flush[u]) \notin Range(Tail(flush[u])) /\ Head(flush[u]) \in Buffers
      BY <1>0, <2>1, <2>3, TailElements DEF Owned
    <3>2. flush'[u] = Tail(flush[u])
      BY <1>0, <2>1, <2>3
    <3> QED BY <2>1, <2>3, <3>1, <3>2 DEF FlushStep
  <2> QED BY <2>2, <2>3
<1>9. ASSUME NEW t \in Types, WriteSample(t) \/ WriteDone(t) \/ Give(t) PROVE FlushStep(u)
  BY <1>1, <1>9 DEF WriteSample, WriteDone, Give, queues
<1>10. CASE Clear
  BY <1>1, <1>10 DEF Clear, queues
<1>11. CASE UNCHANGED vars
  BY <1>1, <1>11 DEF vars
<1>12. CASE Writing
  BY <1>8, <1>9, <1>10, <1>12 DEF Writing
<1> QED BY <1>2, <1>3, <1>7, <1>11, <1>12 DEF Next

LEMMA FlushStepsRefine ==
  /\ FlushStep("flow") => [FlushFlow!Next]_(FlushFlow!vars)
  /\ FlushStep("cntr") => [FlushCntr!Next]_(FlushCntr!vars)
<1>1. Len(<<>>) = 0
  OBVIOUS
<1>2. ASSUME FlushStep("flow") PROVE [FlushFlow!Next]_(FlushFlow!vars)
  <2>1. CASE UNCHANGED <<flush["flow"], collector # "alloc">>
    BY <2>1 DEF FlushFlow!vars, Range
  <2>2. CASE collector = "alloc" /\ collector' # "alloc" /\ flush["flow"] = <<>> /\ UNCHANGED flush["flow"]
    BY <1>1, <2>2 DEF FlushFlow!Next, FlushFlow!Open, Range
  <2>3. ASSUME NEW b \in Buffers \ Range(flush["flow"]), collector # "alloc", collector' # "alloc",
               flush'["flow"] = Append(flush["flow"], b),
               Range(flush'["flow"]) = Range(flush["flow"]) \cup {b}
        PROVE  FlushFlow!Put(b)
    BY <2>3 DEF FlushFlow!Put
  <2>4. ASSUME collector # "alloc", collector' # "alloc", flush["flow"] # <<>>,
               flush'["flow"] = Tail(flush["flow"]),
               Range(flush["flow"]) = Range(flush'["flow"]) \cup {Head(flush["flow"])},
               Head(flush["flow"]) \in Buffers, Head(flush["flow"]) \notin Range(flush'["flow"])
        PROVE  FlushFlow!Take
    BY <2>4 DEF FlushFlow!Take, FlushFlow!TakeFrom
  <2> QED BY <1>2, <2>1, <2>2, <2>3, <2>4 DEF FlushStep, FlushFlow!Next
<1>3. ASSUME FlushStep("cntr") PROVE [FlushCntr!Next]_(FlushCntr!vars)
  <2>1. CASE UNCHANGED <<flush["cntr"], collector # "alloc">>
    BY <2>1 DEF FlushCntr!vars, Range
  <2>2. CASE collector = "alloc" /\ collector' # "alloc" /\ flush["cntr"] = <<>> /\ UNCHANGED flush["cntr"]
    BY <1>1, <2>2 DEF FlushCntr!Next, FlushCntr!Open, Range
  <2>3. ASSUME NEW b \in Buffers \ Range(flush["cntr"]), collector # "alloc", collector' # "alloc",
               flush'["cntr"] = Append(flush["cntr"], b),
               Range(flush'["cntr"]) = Range(flush["cntr"]) \cup {b}
        PROVE  FlushCntr!Put(b)
    BY <2>3 DEF FlushCntr!Put
  <2>4. ASSUME collector # "alloc", collector' # "alloc", flush["cntr"] # <<>>,
               flush'["cntr"] = Tail(flush["cntr"]),
               Range(flush["cntr"]) = Range(flush'["cntr"]) \cup {Head(flush["cntr"])},
               Head(flush["cntr"]) \in Buffers, Head(flush["cntr"]) \notin Range(flush'["cntr"])
        PROVE  FlushCntr!Take
    BY <2>4 DEF FlushCntr!Take, FlushCntr!TakeFrom
  <2> QED BY <1>3, <2>1, <2>2, <2>3, <2>4 DEF FlushStep, FlushCntr!Next
<1> QED BY <1>2, <1>3

\* Every push and pop of the threads on the two flush queues is one that a
\* fixed pool allows: the collector's bqueue_push never puts in a buffer that
\* is still queued, and the writer's bqueue_pop_wait takes the oldest.
THEOREM CollectorFlushPools == Spec => FlushPoolSpec
<1>1. Init => FlushFlow!Init /\ FlushCntr!Init
  BY Counters DEF Init, FlushFlow!Init, FlushCntr!Init, Range
<1>2. TypeOK /\ OwnerInv /\ NothingHanded /\ [Next]_vars
        => [FlushFlow!Next]_(FlushFlow!vars) /\ [FlushCntr!Next]_(FlushCntr!vars)
  BY FlushSteps, FlushStepsRefine, Counters
<1>3. Spec => FlushFlow!Spec /\ FlushCntr!Spec
  BY <1>1, <1>2, CollectorType, InitOwner, StepOwner, InitHanded, StepHanded, PTL
     DEF Spec, FlushFlow!Spec, FlushCntr!Spec
<1> QED BY <1>3 DEF FlushPoolSpec

-----------------------------------------------------------------------------
(* The order of the samples.                                               *)

\* What the buffers in the flush queue hold, one sequence per buffer.
Queued(t) == [i \in 1..Len(flush[t]) |-> data[flush[t][i]]]

InOrder(t) ==
  Joined(disk[t], Unwritten(t), Waiting(t), Filling(t)) = [i \in 1..collected[t] |-> i]

\* Where the writer is in its buffer.
WritingInv ==
  /\ writer \notin {"writeFlow", "writeCntr"} => written = 0
  /\ \A t \in Types : writer = WriteAt[t] => written <= Len(data[cw[t]])

LEMMA QueuedType ==
  ASSUME TypeOK, NEW t \in Types
  PROVE  /\ Queued(t) \in Seq(Seq(Sample)) /\ Len(Queued(t)) = Len(flush[t])
         /\ \A i \in 1..Len(flush[t]) : flush[t][i] \in Buffers /\ flush[t][i] \in Range(flush[t])
<1>1. Len(flush[t]) \in Nat /\ flush[t] \in Seq(Buffers) /\ DOMAIN flush[t] = 1..Len(flush[t])
  BY LenProperties DEF TypeOK
<1>2. \A i \in 1..Len(flush[t]) : flush[t][i] \in Buffers
  BY <1>1, ElementOfSeq
<1>3. Queued(t) \in [1..Len(flush[t]) -> Seq(Sample)]
  BY <1>2 DEF Queued, TypeOK
<1>4. Queued(t) \in Seq(Seq(Sample)) /\ Len(Queued(t)) = Len(flush[t])
  BY <1>1, <1>3
<1> QED BY <1>1, <1>2, <1>4 DEF Range

LEMMA PartsType ==
  ASSUME TypeOK, NEW t \in Types
  PROVE  disk[t] \in Seq(Sample) /\ Waiting(t) \in Seq(Sample) /\ Filling(t) \in Seq(Sample)
<1>1. <<>> \in Seq(Sample) /\ Waiting(t) = FlattenSeq(Queued(t))
  BY DEF Waiting, Queued
<1>2. Waiting(t) \in Seq(Sample)
  BY <1>1, QueuedType, FlattenAppend
<1> QED BY <1>1, <1>2 DEF TypeOK, Filling

\* A queue whose buffers keep their samples holds the same samples.
LEMMA WaitingKept ==
  ASSUME TypeOK, NEW t \in Types, flush'[t] = flush[t],
         \A b \in Range(flush[t]) : data'[b] = data[b]
  PROVE  Waiting(t)' = Waiting(t)
<1>1. \A i \in 1..Len(flush[t]) : data'[flush[t][i]] = data[flush[t][i]]
  BY QueuedType
<1>2. [i \in 1..Len(flush'[t]) |-> data'[flush'[t][i]]] = [i \in 1..Len(flush[t]) |-> data[flush[t][i]]]
  BY <1>1
<1> QED BY <1>2 DEF Waiting

\* A pushed buffer comes after those that wait.
LEMMA WaitingPush ==
  ASSUME TypeOK, NEW t \in Types, NEW b \in Buffers, UNCHANGED data,
         flush'[t] = Append(flush[t], b)
  PROVE  Waiting(t)' = Waiting(t) \o data[b]
<1> DEFINE q == [i \in 1..Len(flush'[t]) |-> data'[flush'[t][i]]]
<1>1. /\ flush[t] \in Seq(Buffers) /\ Len(flush[t]) \in Nat
      /\ data[b] \in Seq(Sample) /\ Queued(t) \in Seq(Seq(Sample)) /\ Len(Queued(t)) = Len(flush[t])
  BY LenProperties, QueuedType DEF TypeOK
<1>2. /\ Len(flush'[t]) = Len(flush[t]) + 1 /\ flush'[t][Len(flush[t]) + 1] = b
      /\ \A i \in 1..Len(flush[t]) : flush'[t][i] = flush[t][i]
  BY <1>1, AppendProperties
<1>3. /\ Append(Queued(t), data[b]) \in Seq(Seq(Sample))
      /\ Len(Append(Queued(t), data[b])) = Len(flush[t]) + 1
      /\ \A i \in 1..Len(flush[t]) : Append(Queued(t), data[b])[i] = Queued(t)[i]
      /\ Append(Queued(t), data[b])[Len(flush[t]) + 1] = data[b]
  BY <1>1, AppendProperties
<1>4. \A i \in 1..(Len(flush[t]) + 1) : q[i] = Append(Queued(t), data[b])[i]
  <2> SUFFICES ASSUME NEW i \in 1..(Len(flush[t]) + 1)
               PROVE  data[flush'[t][i]] = Append(Queued(t), data[b])[i]
    BY <1>2
  <2>1. CASE i = Len(flush[t]) + 1
    BY <1>2, <1>3, <2>1
  <2>2. CASE i # Len(flush[t]) + 1
    <3>1. i \in 1..Len(flush[t])
      BY <1>1, <2>2
    <3> QED BY <1>2, <1>3, <3>1 DEF Queued
  <2> QED BY <2>1, <2>2
<1>5. q \in Seq(Seq(Sample)) /\ Len(q) = Len(flush[t]) + 1
  <2>1. \A i \in 1..(Len(flush[t]) + 1) : q[i] \in Seq(Sample)
    BY <1>1, <1>3, <1>4, ElementOfSeq
  <2>2. DOMAIN q = 1..(Len(flush[t]) + 1) /\ q = [i \in DOMAIN q |-> q[i]]
    BY <1>2
  <2> HIDE DEF q
  <2>3. q \in [1..(Len(flush[t]) + 1) -> Seq(Sample)] /\ Len(flush[t]) + 1 \in Nat
    BY <1>1, <2>1, <2>2
  <2> QED BY <2>3
<1>6. q = Append(Queued(t), data[b])
  <2> HIDE DEF q
  <2> QED BY <1>3, <1>4, <1>5, SeqEqual
<1>7. FlattenSeq(q) = FlattenSeq(Queued(t)) \o data[b]
  BY <1>1, <1>6, FlattenAppend
<1> QED BY <1>7 DEF Waiting, Queued

\* The buffer that is taken held the first of the samples that waited.
LEMMA WaitingTake ==
  ASSUME TypeOK, NEW t \in Types, UNCHANGED data,
         flush[t] # <<>>, flush'[t] = Tail(flush[t])
  PROVE  Waiting(t) = data[Head(flush[t])] \o Waiting(t)'
<1> DEFINE q == [i \in 1..Len(flush'[t]) |-> data'[flush'[t][i]]]
           n == Len(flush[t])
<1>1. /\ flush[t] \in Seq(Buffers) /\ n \in Nat \ {0}
      /\ Queued(t) \in Seq(Seq(Sample)) /\ Len(Queued(t)) = n
  BY EmptySeq, QueuedType DEF TypeOK
<1>2. /\ Len(flush'[t]) = n - 1
      /\ \A i \in 1..(n - 1) : flush'[t][i] = flush[t][i + 1]
      /\ Head(flush[t]) = flush[t][1]
  BY <1>1, HeadTailProperties
<1>3. Queued(t) # <<>>
  BY <1>1, PositiveLength
<1>4. /\ Tail(Queued(t)) \in Seq(Seq(Sample)) /\ Len(Tail(Queued(t))) = n - 1
      /\ \A i \in 1..(n - 1) : Tail(Queued(t))[i] = Queued(t)[i + 1]
  BY <1>1, <1>3, HeadTailProperties
<1>5. Head(Queued(t)) = data[Head(flush[t])]
  BY <1>1, <1>2 DEF Queued
<1>6. \A i \in 1..(n - 1) : q[i] = Tail(Queued(t))[i]
  <2> SUFFICES ASSUME NEW i \in 1..(n - 1) PROVE data[flush'[t][i]] = Tail(Queued(t))[i]
    BY <1>2
  <2>1. i + 1 \in 1..n
    BY <1>1
  <2> QED BY <1>2, <1>4, <2>1 DEF Queued
<1>7. q \in Seq(Seq(Sample)) /\ Len(q) = n - 1
  <2>1. \A i \in 1..(n - 1) : q[i] \in Seq(Sample)
    BY <1>4, <1>6, ElementOfSeq
  <2>2. DOMAIN q = 1..(n - 1) /\ q = [i \in DOMAIN q |-> q[i]]
    BY <1>2
  <2> HIDE DEF q, n
  <2>3. q \in [1..(n - 1) -> Seq(Sample)] /\ n - 1 \in Nat
    BY <1>1, <2>1, <2>2
  <2> QED BY <2>3
<1>8. q = Tail(Queued(t))
  <2> HIDE DEF q
  <2> QED BY <1>4, <1>6, <1>7, SeqEqual
<1>9. FlattenSeq(Queued(t)) = data[Head(flush[t])] \o FlattenSeq(q)
  BY <1>1, <1>3, <1>5, <1>8, FlattenTail
<1> QED BY <1>9 DEF Waiting, Queued

\* A buffer that is filled, emptied or allocated is not in a flush queue and
\* not one the threads use otherwise.
LEMMA HeldApart ==
  ASSUME TypeOK, OwnerInv, NEW u \in Types
  PROVE  /\ \A b : Fresh(b) => /\ b \notin Range(flush[u])
                               /\ CollectorHolds(u) => cc[u] # b
                               /\ WriterHolds(u) => cw[u] # b
         /\ \A v \in Types : CollectorHolds(v) =>
               /\ cc[v] \notin Range(flush[u])
               /\ WriterHolds(u) => cw[u] # cc[v]
         /\ \A v \in Types : WriterHolds(v) =>
               /\ cw[v] \notin Range(flush[u])
               /\ CollectorHolds(u) => cc[u] # cw[v]
<1>1. \A v \in Types : /\ Range(flush[v]) \subseteq heap[v]
                       /\ CollectorHolds(v) => cc[v] \in heap[v] /\ cc[v] \notin Range(flush[v])
                       /\ WriterHolds(v) => cw[v] \in heap[v] /\ cw[v] \notin Range(flush[v])
  BY DEF OwnerInv, Owned, Split, CollectorSet, WriterSet
<1>2. \A v \in Types : u # v => heap[u] \cap heap[v] = {}
  BY DEF OwnerInv
<1>3. \A v \in Types : CollectorHolds(v) => cc[v] \notin Range(flush[u])
  BY <1>1, <1>2
<1>4. \A v \in Types : WriterHolds(v) => cw[v] \notin Range(flush[u])
  BY <1>1, <1>2
<1>5. \A b : Fresh(b) => b \notin Range(flush[u])
  BY <1>1 DEF Fresh
<1> QED BY <1>3, <1>4, <1>5, Apart

\* What is waiting or held keeps its samples while a fresh buffer is zeroed.
LEMMA FreshApart ==
  ASSUME TypeOK, OwnerInv, NEW b \in Buffers, Fresh(b), data' = [data EXCEPT ![b] = <<>>],
         NEW u \in Types
  PROVE  /\ \A x \in Range(flush[u]) : data'[x] = data[x]
         /\ CollectorHolds(u) => data'[cc[u]] = data[cc[u]]
         /\ WriterHolds(u) => data'[cw[u]] = data[cw[u]]
<1>1. Range(flush[u]) \subseteq Buffers
  BY LenProperties DEF TypeOK, Range
<1> QED BY <1>1, HeldApart DEF TypeOK

\* The writer's part and the collector's part stay when their buffers do.
LEMMA UnwrittenKept ==
  ASSUME NEW u \in Types, WriterHolds(u)' <=> WriterHolds(u),
         (writer' = WriteAt[u]) <=> (writer = WriteAt[u]), written' = written,
         WriterHolds(u) => cw'[u] = cw[u] /\ data'[cw[u]] = data[cw[u]]
  PROVE  Unwritten(u)' = Unwritten(u)
BY DEF Unwritten

LEMMA FillingKept ==
  ASSUME NEW u \in Types, CollectorHolds(u)' <=> CollectorHolds(u),
         CollectorHolds(u) => cc'[u] = cc[u] /\ data'[cc[u]] = data[cc[u]]
  PROVE  Filling(u)' = Filling(u)
BY DEF Filling

\* A buffer of which nothing is written yet is unwritten as a whole.
LEMMA UnwrittenWhole ==
  ASSUME NEW s \in Seq(Sample), NEW k, k = 0
  PROVE  SubSeq(s, k + 1, Len(s)) = s
<1>1. SubSeq(s, 1, Len(s)) = s /\ k + 1 = 1
  BY SubSeqFull
<1> QED BY <1>1, Zenon

LEMMA StepWriting ==
  ASSUME TypeOK, OwnerInv, WritingInv, TypeOK', [Next]_vars
  PROVE  WritingInv'
<1>1. ASSUME UNCHANGED <<writer, written, cw>>,
             \A u \in Types : WriterHolds(u) => data'[cw[u]] = data[cw[u]]
      PROVE  WritingInv'
  BY <1>1, Counters DEF WritingInv, WriterHolds
<1>2. ASSUME written' = 0 PROVE WritingInv'
  <2>1. \A u \in Types : writer' = WriteAt[u] => Len(data'[cw'[u]]) \in Nat
    <3>1. ASSUME NEW u \in Types, writer' = WriteAt[u] PROVE Len(data'[cw'[u]]) \in Nat
      <4>1. WriterHolds(u)'
        BY <3>1, Counters DEF WriterHolds
      <4>2. data'[cw'[u]] \in Seq(Sample)
        BY <4>1 DEF TypeOK
      <4> QED BY <4>2, LenProperties
    <3> QED BY <3>1
  <2> QED BY <1>2, <2>1 DEF WritingInv
<1>3. ASSUME NEW t \in Types, NEW b \in Buffers, Allocate(t, b) PROVE WritingInv'
  BY <1>1, <1>3, FreshApart DEF Allocate
<1>4. CASE Allocated
  BY <1>1, <1>4 DEF Allocated
<1>5. ASSUME NEW nf, NEW nc, NEW expired, Receive(nf, nc, expired) PROVE WritingInv'
  <2>1. /\ CollectorHolds("flow") /\ CollectorHolds("cntr") /\ data' = Filled(nf, nc)
        /\ UNCHANGED <<writer, written, cw>>
    BY <1>5, ReceiveFills DEF CollectorHolds
  <2>2. \A u \in Types : WriterHolds(u) => cw[u] \in Buffers /\ cw[u] # cc["flow"] /\ cw[u] # cc["cntr"]
    BY <2>1, HeldApart, Counters DEF TypeOK
  <2> QED BY <1>1, <2>1, <2>2 DEF Filled
<1>6. ASSUME NEW t \in Types, Push(t) \/ Wait(t) PROVE WritingInv'
  BY <1>1, <1>6 DEF Push, Wait, queues
<1>7. ASSUME NEW t \in Types, PopShrink(t) \/ PopPlain(t) PROVE WritingInv'
  BY <1>1, <1>7 DEF PopShrink, PopPlain, PopFrom
<1>8. ASSUME NEW t \in Types, NEW b \in Buffers, PopGrow(t, b) PROVE WritingInv'
  BY <1>1, <1>8, FreshApart DEF PopGrow, PopFrom
<1>9. ASSUME NEW t \in Types, Take(t) PROVE WritingInv'
  <2>1. written' = 0
    BY <1>9, Counters DEF Take, WritingInv
  <2> QED BY <1>2, <2>1
<1>10. ASSUME NEW t \in Types, WriteSample(t) PROVE WritingInv'
  <2>1. /\ written < Len(data[cw[t]]) /\ written' = written + 1
        /\ writer = WriteAt[t] /\ UNCHANGED <<writer, data, cw>>
    BY <1>10 DEF WriteSample
  <2>2. WriterHolds(t)
    BY <2>1, Counters DEF WriterHolds
  <2>3. Len(data[cw[t]]) \in Nat /\ written \in Nat
    BY <2>2, LenProperties DEF TypeOK
  <2>4. \A u \in Types : writer = WriteAt[u] => u = t
    BY <2>1, Counters
  <2> QED BY <2>1, <2>3, <2>4, Counters DEF WritingInv
<1>11. ASSUME NEW t \in Types, WriteDone(t) PROVE WritingInv'
  BY <1>2, <1>11 DEF WriteDone
<1>12. ASSUME NEW t \in Types, Give(t) PROVE WritingInv'
  <2>1. written' = 0
    BY <1>12, Counters DEF Give, WritingInv
  <2> QED BY <1>2, <2>1
<1>13. CASE Clear
  BY <1>2, <1>13 DEF Clear, WritingInv
<1>14. CASE UNCHANGED vars
  BY <1>1, <1>14 DEF vars
<1> QED BY <1>3, <1>4, <1>5, <1>6, <1>7, <1>8, <1>9, <1>10, <1>11, <1>12, <1>13, <1>14
        DEF Next, Setup, Datagram, Flushing, Writing

LEMMA OrderKept ==
  ASSUME NEW u \in Types, InOrder(u), disk'[u] = disk[u], collected'[u] = collected[u],
         Unwritten(u)' = Unwritten(u), Waiting(u)' = Waiting(u), Filling(u)' = Filling(u)
  PROVE  InOrder(u)'
BY DEF InOrder

\* The received samples go to the end of the buffer that is filled.
LEMMA ReceiveOrder ==
  ASSUME TypeOK, OwnerInv, NEW nf \in Nat, NEW nc \in Nat, NEW expired,
         Receive(nf, nc, expired), NEW u \in Types, InOrder(u), Unwritten(u) \in Seq(Sample)
  PROVE  InOrder(u)'
<1> DEFINE n == [flow |-> nf, cntr |-> nc][u]
<1>1. /\ CollectorHolds("flow") /\ CollectorHolds("cntr") /\ CollectorHolds(u) /\ CollectorHolds(u)'
      /\ data' = Filled(nf, nc)
      /\ collected' = [t \in Types |-> collected[t] + [flow |-> nf, cntr |-> nc][t]]
      /\ UNCHANGED <<writer, written, cw, cc, flush, disk>>
  BY ReceiveFills DEF CollectorHolds, queues
<1>2. n \in Nat /\ collected[u] \in Nat /\ collected'[u] = collected[u] + n
  BY <1>1, Counters, SMTT(30) DEF TypeOK
<1>3. \A x \in Buffers : x # cc["flow"] /\ x # cc["cntr"] => data'[x] = data[x]
  BY <1>1 DEF Filled
<1>4. Waiting(u)' = Waiting(u)
  <2>1. Range(flush[u]) \subseteq Buffers
    BY LenProperties DEF TypeOK, Range
  <2>2. \A x \in Range(flush[u]) : data'[x] = data[x]
    BY <1>1, <1>3, <2>1, HeldApart, Counters
  <2> QED BY <1>1, <2>2, WaitingKept
<1>5. Unwritten(u)' = Unwritten(u)
  <2>1. WriterHolds(u) => data'[cw[u]] = data[cw[u]]
    BY <1>1, <1>3, HeldApart, Counters DEF TypeOK
  <2> QED BY <1>1, <2>1, UnwrittenKept DEF WriterHolds
<1>6. /\ Filling(u)' = Filling(u) \o Arrived(collected[u], n)
      /\ Arrived(collected[u], n) \in Seq(Sample)
  <2>1. data'[cc[u]] = data[cc[u]] \o Arrived(collected[u], n)
    <3>1. cc["flow"] \in Buffers /\ cc["cntr"] \in Buffers /\ cc["flow"] # cc["cntr"]
      BY <1>1, Apart, Counters DEF TypeOK
    <3>2. CASE u = "flow"
      BY <1>1, <3>1, <3>2 DEF Filled
    <3>3. CASE u = "cntr"
      BY <1>1, <3>1, <3>3 DEF Filled
    <3> QED BY <3>2, <3>3, Counters
  <2>2. Arrived(collected[u], n) \in Seq(Sample)
    BY <1>2, ArrivedType, EmptySeq
  <2> QED BY <1>1, <2>1, <2>2 DEF Filling
<1> HIDE DEF n
<1>7. Joined(disk[u], Unwritten(u), Waiting(u), Filling(u) \o Arrived(collected[u], n))
        = Joined(disk[u], Unwritten(u), Waiting(u), Filling(u)) \o Arrived(collected[u], n)
  <2> DEFINE w == disk[u] \o Unwritten(u) \o Waiting(u)
  <2>1. w \in Seq(Sample) /\ Filling(u) \in Seq(Sample)
    BY PartsType, ConcatProperties
  <2>2. Arrived(collected[u], n) \in Seq(Sample)
    BY <1>6
  <2> HIDE DEF w
  <2>3. (w \o Filling(u)) \o Arrived(collected[u], n) = w \o (Filling(u) \o Arrived(collected[u], n))
    BY <2>1, <2>2, ConcatAssociative, SMTT(30)
  <2> QED BY <2>3 DEF Joined, w
<1>8. [i \in 1..collected[u] |-> i] \o Arrived(collected[u], n) = [i \in 1..collected'[u] |-> i]
  BY <1>2, NumbersConcat DEF Arrived
<1> QED BY <1>1, <1>4, <1>5, <1>6, <1>7, <1>8 DEF InOrder

\* The buffer that is filled becomes the last that waits.
LEMMA PushOrder ==
  ASSUME TypeOK, NEW t \in Types, Push(t), NEW u \in Types, InOrder(u),
         Unwritten(u) \in Seq(Sample)
  PROVE  InOrder(u)'
<1>1. /\ CollectorHolds(t) /\ ~CollectorHolds(t)'
      /\ \A v \in Types : v # t => (CollectorHolds(v)' <=> CollectorHolds(v))
      /\ flush' = [flush EXCEPT ![t] = Append(@, cc[t])]
      /\ UNCHANGED <<data, cc, cw, writer, written, collected, disk>>
  BY Counters DEF Push, CollectorHolds
<1>2. Unwritten(u)' = Unwritten(u)
  BY <1>1, UnwrittenKept DEF WriterHolds
<1>3. CASE u # t
  <2>1. flush'[u] = flush[u]
    BY <1>1, <1>3 DEF TypeOK
  <2>2. Waiting(u)' = Waiting(u) /\ Filling(u)' = Filling(u)
    BY <1>1, <1>3, <2>1, WaitingKept, FillingKept
  <2> QED BY <1>1, <1>2, <2>2, OrderKept
<1>4. CASE u = t
  <2>1. cc[u] \in Buffers /\ flush'[u] = Append(flush[u], cc[u])
    BY <1>1, <1>4 DEF TypeOK
  <2>2. Waiting(u)' = Waiting(u) \o Filling(u) /\ Filling(u)' = <<>>
    BY <1>1, <1>4, <2>1, WaitingPush DEF Filling
  <2>3. Joined(disk[u], Unwritten(u), Waiting(u) \o Filling(u), <<>>)
          = Joined(disk[u], Unwritten(u), Waiting(u), Filling(u))
    <3>1. disk[u] \in Seq(Sample) /\ Waiting(u) \in Seq(Sample) /\ Filling(u) \in Seq(Sample)
      BY PartsType
    <3> QED BY <3>1, JoinedThird
  <2> QED BY <1>1, <1>2, <2>2, <2>3 DEF InOrder
<1> QED BY <1>3, <1>4

\* The first buffer that waits becomes the one that is written.
LEMMA TakeOrder ==
  ASSUME TypeOK, WritingInv, TypeOK', NEW t \in Types, Take(t), NEW u \in Types, InOrder(u),
         Unwritten(u)' \in Seq(Sample), Waiting(u)' \in Seq(Sample)
  PROVE  InOrder(u)'
<1>1. /\ ~WriterHolds(t) /\ WriterHolds(t)' /\ flush[t] # <<>>
      /\ \A v \in Types : v # t => (WriterHolds(v)' <=> WriterHolds(v))
      /\ flush' = [flush EXCEPT ![t] = Tail(@)] /\ cw' = [cw EXCEPT ![t] = Head(flush[t])]
      /\ written = 0 /\ written' = 0
      /\ UNCHANGED <<data, cc, collector, collected, disk>>
  BY Counters DEF Take, WriterHolds, WritingInv
<1>2. Filling(u)' = Filling(u)
  BY <1>1, FillingKept DEF CollectorHolds
<1>3. CASE u # t
  <2>1. flush'[u] = flush[u] /\ cw'[u] = cw[u] /\ (WriterHolds(u)' <=> WriterHolds(u))
    BY <1>1, <1>3 DEF TypeOK
  <2>2. Waiting(u)' = Waiting(u)
    BY <1>1, <2>1, WaitingKept
  <2>3. Unwritten(u)' = Unwritten(u)
    <3>1. CASE WriterHolds(u)
      <4>1. data[cw[u]] \in Seq(Sample)
        BY <3>1 DEF TypeOK
      <4>2. SubSeq(data[cw[u]], written + 1, Len(data[cw[u]])) = data[cw[u]] /\ written' = written
        BY <1>1, <4>1, UnwrittenWhole
      <4> QED BY <1>1, <2>1, <4>2 DEF Unwritten
    <3>2. CASE ~WriterHolds(u)
      BY <2>1, <3>2 DEF Unwritten
    <3> QED BY <3>1, <3>2
  <2> QED BY <1>1, <1>2, <2>2, <2>3, OrderKept
<1>4. CASE u = t
  <2>1. flush'[u] = Tail(flush[u]) /\ cw'[u] = Head(flush[u])
    BY <1>1, <1>4 DEF TypeOK
  <2>2. Waiting(u) = data[Head(flush[u])] \o Waiting(u)'
    BY <1>1, <1>4, <2>1, WaitingTake
  <2>3. Unwritten(u) = <<>>
    BY <1>1, <1>4 DEF Unwritten
  <2>4. Unwritten(u)' = data[Head(flush[u])]
    <3>1. data'[cw'[u]] \in Seq(Sample)
      BY <1>1, <1>4 DEF TypeOK
    <3>2. SubSeq(data'[cw'[u]], written' + 1, Len(data'[cw'[u]])) = data'[cw'[u]]
      BY <1>1, <3>1, UnwrittenWhole
    <3> QED BY <1>1, <1>4, <2>1, <3>2 DEF Unwritten
  <2>5. Joined(disk[u], <<>>, Unwritten(u)' \o Waiting(u)', Filling(u))
          = Joined(disk[u], Unwritten(u)', Waiting(u)', Filling(u))
    <3>1. disk[u] \in Seq(Sample) /\ Filling(u) \in Seq(Sample)
      BY PartsType
    <3> QED BY <3>1, JoinedSecond
  <2> QED BY <1>1, <1>2, <2>2, <2>3, <2>4, <2>5 DEF InOrder
<1> QED BY <1>3, <1>4

\* The sample that is written is the first of the unwritten.
LEMMA WriteOrder ==
  ASSUME TypeOK, WritingInv, NEW t \in Types, WriteSample(t), NEW u \in Types, InOrder(u),
         Unwritten(u)' \in Seq(Sample)
  PROVE  InOrder(u)'
<1>1. /\ WriterHolds(t) /\ writer = WriteAt[t] /\ written < Len(data[cw[t]])
      /\ disk' = [disk EXCEPT ![t] = Append(@, data[cw[t]][written + 1])]
      /\ written' = written + 1
      /\ UNCHANGED <<data, cc, cw, flush, collector, writer, collected>>
  BY Counters DEF WriteSample, WriterHolds, queues
<1>2. Filling(u)' = Filling(u) /\ Waiting(u)' = Waiting(u)
  BY <1>1, FillingKept, WaitingKept DEF CollectorHolds
<1>3. CASE u # t
  <2>1. disk'[u] = disk[u] /\ writer # WriteAt[u]
    BY <1>1, <1>3, Counters DEF TypeOK
  <2>2. Unwritten(u)' = Unwritten(u)
    BY <1>1, <2>1 DEF Unwritten, WriterHolds
  <2> QED BY <1>1, <1>2, <2>1, <2>2, OrderKept
<1>4. CASE u = t
  <2> DEFINE s == data[cw[u]]
             x == s[written + 1]
  <2>1. s \in Seq(Sample) /\ written \in Nat /\ disk[u] \in Seq(Sample) /\ Len(s) \in Nat
    BY <1>1, <1>4, LenProperties DEF TypeOK
  <2>2. written + 1 \in 1..Len(s)
    BY <1>1, <1>4, <2>1
  <2>3. x \in Sample /\ disk'[u] = Append(disk[u], x)
    BY <1>1, <1>4, <2>1, <2>2, ElementOfSeq DEF TypeOK
  <2>4. /\ Unwritten(u) = SubSeq(s, written + 1, Len(s))
        /\ Unwritten(u)' = SubSeq(s, (written + 1) + 1, Len(s))
    BY <1>1, <1>4 DEF Unwritten, WriterHolds
  <2> HIDE DEF x, s
  <2>5. SubSeq(s, written + 1, Len(s)) = <<s[written + 1]>> \o SubSeq(s, (written + 1) + 1, Len(s))
    <3>1. Len(s) \in (written + 1)..Len(s)
      BY <2>1, <2>2
    <3> QED BY <2>1, <2>2, <3>1, SubSeqRecursiveFirst
  <2>6. Unwritten(u) = <<x>> \o Unwritten(u)'
    BY <2>4, <2>5 DEF x
  <2>7. Joined(Append(disk[u], x), Unwritten(u)', Waiting(u), Filling(u))
          = Joined(disk[u], <<x>> \o Unwritten(u)', Waiting(u), Filling(u))
    <3>1. disk[u] \in Seq(Sample) /\ Waiting(u) \in Seq(Sample) /\ Filling(u) \in Seq(Sample)
      BY PartsType
    <3> QED BY <2>3, <3>1, JoinedFirst
  <2> QED BY <1>1, <1>2, <2>3, <2>6, <2>7 DEF InOrder
<1> QED BY <1>3, <1>4

LEMMA UnwrittenType ==
  ASSUME TypeOK, NEW u \in Types
  PROVE  Unwritten(u) \in Seq(Sample)
<1>1. CASE WriterHolds(u)
  <2>1. data[cw[u]] \in Seq(Sample) /\ written \in Nat
    BY <1>1 DEF TypeOK
  <2>2. \A i \in (written + 1)..Len(data[cw[u]]) : data[cw[u]][i] \in Sample
    BY <2>1, ElementOfSeq
  <2>3. SubSeq(data[cw[u]], written + 1, Len(data[cw[u]])) \in Seq(Sample)
    BY <2>1, <2>2, LenProperties, SubSeqProperties
  <2> QED BY <1>1, <2>1, <2>3 DEF Unwritten
<1>2. CASE ~WriterHolds(u)
  BY <1>2, EmptySeq DEF Unwritten
<1> QED BY <1>1, <1>2

\* The buffer that is done with had nothing unwritten and keeps nothing.
LEMMA DoneOrder ==
  ASSUME TypeOK, OwnerInv, WritingInv, NEW t \in Types, WriteDone(t), NEW u \in Types, InOrder(u)
  PROVE  InOrder(u)'
<1>1. /\ WriterHolds(t) /\ writer = WriteAt[t] /\ written = Len(data[cw[t]])
      /\ writer' = AfterWrite[t] /\ written' = 0
      /\ data' = [data EXCEPT ![cw[t]] = <<>>] /\ cw[t] \in Buffers
      /\ \A v \in Types : WriterHolds(v)' <=> WriterHolds(v)
      /\ UNCHANGED <<cc, cw, flush, collector, collected, disk>>
  BY Counters DEF WriteDone, WriterHolds, queues, TypeOK
<1>2. \A x \in Buffers : x # cw[t] => data'[x] = data[x]
  BY <1>1
<1>3. Filling(u)' = Filling(u)
  <2>1. CollectorHolds(u) => data'[cc[u]] = data[cc[u]]
    BY <1>1, <1>2, HeldApart DEF TypeOK
  <2> QED BY <1>1, <2>1, FillingKept DEF CollectorHolds
<1>4. Waiting(u)' = Waiting(u)
  <2>1. Range(flush[u]) \subseteq Buffers
    BY LenProperties DEF TypeOK, Range
  <2>2. \A x \in Range(flush[u]) : data'[x] = data[x]
    BY <1>1, <1>2, <2>1, HeldApart
  <2> QED BY <1>1, <2>2, WaitingKept
<1>5. Unwritten(u)' = Unwritten(u)
  <2>1. CASE u = t
    <3>1. Unwritten(u) = <<>>
      <4>1. Len(data[cw[t]]) < written + 1 /\ written + 1 \in Int /\ Len(data[cw[t]]) \in Int
        BY <1>1 DEF TypeOK
      <4>2. SubSeq(data[cw[t]], written + 1, Len(data[cw[t]])) = <<>>
        BY <4>1, SubSeqEmpty
      <4> QED BY <1>1, <2>1, <4>2 DEF Unwritten
    <3>2. Unwritten(u)' = <<>>
      <4>1. writer' # WriteAt[t] /\ data'[cw[t]] = <<>>
        BY <1>1, Counters DEF TypeOK
      <4> QED BY <1>1, <2>1, <4>1 DEF Unwritten
    <3> QED BY <3>1, <3>2
  <2>2. CASE u # t /\ WriterHolds(u)
    <3>1. data'[cw[u]] = data[cw[u]] /\ data[cw[u]] \in Seq(Sample)
      BY <1>1, <1>2, <2>2, Apart DEF TypeOK
    <3>2. SubSeq(data[cw[u]], written' + 1, Len(data[cw[u]])) = data[cw[u]]
      BY <1>1, <3>1, UnwrittenWhole
    <3>3. writer # WriteAt[u]
      BY <1>1, <2>2, Counters
    <3>4. Unwritten(u) = data[cw[u]]
      BY <2>2, <3>3 DEF Unwritten
    <3>5. Unwritten(u)' = data[cw[u]]
      BY <1>1, <2>2, <3>1, <3>2 DEF Unwritten
    <3> QED BY <3>4, <3>5
  <2>3. CASE ~WriterHolds(u)
    BY <1>1, <2>3 DEF Unwritten
  <2> QED BY <2>1, <2>2, <2>3
<1> QED BY <1>1, <1>3, <1>4, <1>5, OrderKept

\* The buffer the collector takes, and the one the writer gives, hold nothing.
LEMMA PopOrder ==
  ASSUME TypeOK, OwnerInv, DataInv, TypeOK', DataInv', NEW t \in Types,
         PopShrink(t) \/ PopPlain(t) \/ (\E b \in Buffers : PopGrow(t, b)),
         NEW u \in Types, InOrder(u)
  PROVE  InOrder(u)'
<1>1. PICK s \in Seq(Buffers) :
        /\ s # <<>> /\ PopFrom(t, s)
        /\ \/ s = free[t] /\ data' = data
           \/ \E b \in Buffers : Fresh(b) /\ s = Append(free[t], b) /\ data' = [data EXCEPT ![b] = <<>>]
           \/ s = SubSeq(free[t], 1, Len(free[t]) - 1) /\ free[t] # <<>> /\ data' = data
  BY PopSource
<1>2. /\ cc' = [cc EXCEPT ![t] = Head(s)]
      /\ ~CollectorHolds(t) /\ CollectorHolds(t)'
      /\ \A v \in Types : v # t => (CollectorHolds(v)' <=> CollectorHolds(v))
      /\ UNCHANGED <<cw, flush, writer, written, collected, disk>>
  BY <1>1, Counters DEF PopFrom, CollectorHolds
<1>3. /\ \A x \in Range(flush[u]) : data'[x] = data[x]
      /\ CollectorHolds(u) => data'[cc[u]] = data[cc[u]]
      /\ WriterHolds(u) => data'[cw[u]] = data[cw[u]]
  BY <1>1, FreshApart
<1>4. Waiting(u)' = Waiting(u) /\ Unwritten(u)' = Unwritten(u)
  BY <1>2, <1>3, WaitingKept, UnwrittenKept DEF WriterHolds
<1>5. Filling(u)' = Filling(u)
  <2>1. CASE u # t
    BY <1>2, <1>3, <2>1, FillingKept DEF TypeOK
  <2>2. CASE u = t
    <3>1. data'[Head(s)] = <<>>
      <4>1. Head(s) \in Range(s) /\ Head(s) \in Buffers
        BY <1>1, TailElements
      <4>2. free[t] \in Seq(Buffers) /\ \A x \in Range(free[t]) : data[x] = <<>>
        BY DEF TypeOK, DataInv, FreeIsEmpty
      <4>3. ASSUME NEW b \in Buffers, s = Append(free[t], b), data' = [data EXCEPT ![b] = <<>>]
            PROVE  data'[Head(s)] = <<>>
        <5>1. Range(s) = Range(free[t]) \cup {b}
          BY <4>2, <4>3, AppendElements
        <5> QED BY <4>1, <4>2, <4>3, <5>1 DEF TypeOK
      <4>4. ASSUME s = SubSeq(free[t], 1, Len(free[t]) - 1), free[t] # <<>>, data' = data
            PROVE  data'[Head(s)] = <<>>
        <5>1. Range(s) \subseteq Range(free[t])
          BY <4>2, <4>4, FrontElements
        <5> QED BY <4>1, <4>2, <4>4, <5>1
      <4> QED BY <1>1, <4>1, <4>2, <4>3, <4>4
    <3> QED BY <1>2, <2>2, <3>1 DEF Filling, TypeOK
  <2> QED BY <2>1, <2>2
<1> QED BY <1>2, <1>4, <1>5, OrderKept

LEMMA GiveOrder ==
  ASSUME TypeOK, DataInv, WritingInv, NEW t \in Types, Give(t), NEW u \in Types, InOrder(u)
  PROVE  InOrder(u)'
<1>1. /\ WriterHolds(t) /\ ~WriterHolds(t)' /\ data[cw[t]] = <<>> /\ writer = GiveAt[t]
      /\ writer' = AfterGive[t]
      /\ \A v \in Types : v # t => (WriterHolds(v)' <=> WriterHolds(v))
      /\ UNCHANGED <<data, cc, cw, flush, collector, written, collected, disk>>
  BY Counters DEF Give, WriterHolds, DataInv
<1>2. Filling(u)' = Filling(u) /\ Waiting(u)' = Waiting(u)
  BY <1>1, FillingKept, WaitingKept DEF CollectorHolds
<1>3. writer # WriteAt[u] /\ writer' # WriteAt[u]
  BY <1>1, Counters
<1>4. Unwritten(u)' = Unwritten(u)
  <2>1. CASE u = t
    BY <1>1, <1>3, <2>1 DEF Unwritten
  <2>2. CASE u # t
    BY <1>1, <1>3, <2>2 DEF Unwritten
  <2> QED BY <2>1, <2>2
<1> QED BY <1>1, <1>2, <1>4, OrderKept

LEMMA StepOrder ==
  ASSUME TypeOK, OwnerInv, DataInv, WritingInv, TypeOK', DataInv', [Next]_vars,
         \A u \in Types : Unwritten(u)' \in Seq(Sample),
         \A u \in Types : Waiting(u)' \in Seq(Sample),
         NEW u \in Types, InOrder(u)
  PROVE  InOrder(u)'
<1>1. ASSUME UNCHANGED <<cc, cw, flush, writer, written, collected, disk>>,
             CollectorHolds(u)' <=> CollectorHolds(u),
             \A x \in Range(flush[u]) : data'[x] = data[x],
             CollectorHolds(u) => data'[cc[u]] = data[cc[u]],
             WriterHolds(u) => data'[cw[u]] = data[cw[u]]
      PROVE  InOrder(u)'
  <2>1. WriterHolds(u)' <=> WriterHolds(u)
    BY <1>1 DEF WriterHolds
  <2>2. Unwritten(u)' = Unwritten(u) /\ Filling(u)' = Filling(u) /\ Waiting(u)' = Waiting(u)
    BY <1>1, <2>1, UnwrittenKept, FillingKept, WaitingKept
  <2> QED BY <1>1, <2>2, OrderKept
<1>2. ASSUME NEW t \in Types, NEW b \in Buffers, Allocate(t, b) PROVE InOrder(u)'
  BY <1>1, <1>2, FreshApart DEF Allocate, CollectorHolds
<1>3. CASE Allocated
  BY <1>1, <1>3 DEF Allocated, queues, CollectorHolds
<1>4. CASE Datagram
  BY <1>4, ReceiveOrder, UnwrittenType, CollectorAssumption DEF Datagram
<1>5. ASSUME NEW t \in Types, Push(t) PROVE InOrder(u)'
  BY <1>5, PushOrder, UnwrittenType
<1>6. ASSUME NEW t \in Types, Wait(t) PROVE InOrder(u)'
  BY <1>1, <1>6 DEF Wait, queues, CollectorHolds
<1>7. ASSUME NEW t \in Types, PopShrink(t) \/ PopPlain(t) \/ (\E b \in Buffers : PopGrow(t, b))
      PROVE  InOrder(u)'
  BY <1>7, PopOrder
<1>8. ASSUME NEW t \in Types, Take(t) PROVE InOrder(u)'
  BY <1>8, TakeOrder
<1>9. ASSUME NEW t \in Types, WriteSample(t) PROVE InOrder(u)'
  BY <1>9, WriteOrder
<1>10. ASSUME NEW t \in Types, WriteDone(t) PROVE InOrder(u)'
  BY <1>10, DoneOrder
<1>11. ASSUME NEW t \in Types, Give(t) PROVE InOrder(u)'
  BY <1>11, GiveOrder
<1>12. CASE Clear
  <2>1. ~WriterHolds(u) /\ ~WriterHolds(u)'
        /\ UNCHANGED <<data, cc, flush, collector, collected, disk>>
    BY <1>12, Counters DEF Clear, queues, WriterHolds
  <2>2. Unwritten(u)' = Unwritten(u) /\ Filling(u)' = Filling(u) /\ Waiting(u)' = Waiting(u)
    BY <2>1, FillingKept, WaitingKept DEF Unwritten, CollectorHolds
  <2> QED BY <2>1, <2>2, OrderKept
<1>13. CASE UNCHANGED vars
  BY <1>1, <1>13 DEF vars, CollectorHolds
<1> QED BY <1>2, <1>3, <1>4, <1>5, <1>6, <1>7, <1>8, <1>9, <1>10, <1>11, <1>12, <1>13
        DEF Next, Setup, Flushing, Writing

LEMMA InitOrder == Init => WritingInv /\ \A t \in Types : InOrder(t)
<1> SUFFICES ASSUME Init, NEW t \in Types PROVE WritingInv /\ InOrder(t)
  BY DEF Types
<1>1. WritingInv
  BY Counters DEF Init, WritingInv
<1>2. Unwritten(t) = <<>> /\ Filling(t) = <<>> /\ disk[t] = <<>> /\ collected[t] = 0
  BY DEF Init, Unwritten, Filling, WriterHolds, CollectorHolds
<1>3. Waiting(t) = <<>>
  <2>1. Len(flush[t]) = 0
    BY DEF Init
  <2>2. [i \in 1..Len(flush[t]) |-> data[flush[t][i]]] = <<>>
    BY <2>1
  <2> QED BY <2>2, FlattenEmpty DEF Waiting
<1>4. <<>> \o <<>> = <<>> /\ [i \in 1..0 |-> i] = <<>>
  OBVIOUS
<1> QED BY <1>1, <1>2, <1>3, <1>4 DEF InOrder, Joined

\* What is on disk, with the writer, in the flush queue and with the collector
\* is in this order all that was received: no sample is lost, doubled or
\* overtaken between recvfrom and addSampleToFile, whichever thread runs when.
THEOREM CollectorInOrder == Spec => []SamplesInOrder
<1> DEFINE Order == WritingInv /\ \A u \in Types : InOrder(u)
           Parts == \A u \in Types : Unwritten(u) \in Seq(Sample) /\ Waiting(u) \in Seq(Sample)
<1>1. Init => Order
  BY InitOrder
<1>2. TypeOK => Parts
  BY UnwrittenType, PartsType
<1>3. TypeOK /\ OwnerInv /\ DataInv /\ Order /\ TypeOK' /\ DataInv' /\ Parts' /\ [Next]_vars => Order'
  BY StepWriting, StepOrder
<1>4. Order => SamplesInOrder
  BY DEF InOrder, Joined, SamplesInOrder
<1> HIDE DEF Order, Parts
<1> QED BY <1>1, <1>2, <1>3, <1>4, CollectorType, InitOwner, StepOwner, InitData, StepData, PTL
        DEF Spec
=============================================================================
