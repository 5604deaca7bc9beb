--------------------------- MODULE BufferPoolProofs ---------------------------
(***************************************************************************)
(* The invariants of BufferPool for every set of buffers and every         *)
(* configuration of the pool.                                              *)
(***************************************************************************)
EXTENDS BufferPool, SeqLemmas

\* Every buffer in the pool or in a thread's hands is one malloc can hand out.
THEOREM PoolType == ASSUME PoolAssumption PROVE Spec => []TypeOK
<1>1. Init => TypeOK
  <2>1. /\ <<>> \in Seq(Buffers) /\ Len(<<>>) <= InitialNum
        /\ {} \in SUBSET Buffers /\ Buffers \in SUBSET Buffers
    BY EmptySeq, PoolAssumption DEF PoolAssumption
  <2> QED BY <2>1 DEF Init, TypeOK
<1>2. TypeOK /\ [Next]_vars => TypeOK'
  <2> SUFFICES ASSUME TypeOK, [Next]_vars PROVE TypeOK'
    OBVIOUS
  <2> USE DEF TypeOK
  <2>1. ASSUME NEW b \in Buffers, Fill(b) PROVE TypeOK'
    <3>1. /\ Append(items, b) \in Seq(Buffers)
          /\ Len(Append(items, b)) = Len(items) + 1 /\ Len(items) \in Nat
      OBVIOUS
    <3> QED BY <2>1, <3>1, PoolAssumption DEF Fill, PoolAssumption
  <2>2. ASSUME NEW b \in Buffers, Put(b) PROVE TypeOK'
    BY <2>2, AppendElements DEF Put
  <2>3. ASSUME NEW b \in Buffers, TakeAndGrow(b) PROVE TypeOK'
    <3>1. Append(items, b) \in Seq(Buffers)
      BY AppendElements
    <3>2. Append(items, b) # <<>>
      <4>1. items \in Seq(Buffers)
        OBVIOUS
      <4> HIDE DEF TypeOK
      <4> QED BY <4>1, AppendProperties
    <3> QED BY <2>3, <3>1, <3>2, TailElements DEF TakeAndGrow, TakeFrom
  <2>4. CASE Open
    BY <2>4 DEF Open
  <2>5. CASE Take
    BY <2>5, TailElements DEF Take, TakeFrom
  <2>6. CASE TakeAndShrink
    <3> DEFINE f == SubSeq(items, 1, Len(items) - 1)
    <3>1. items # <<>> /\ Len(items) > 1
      BY <2>6, PoolAssumption DEF TakeAndShrink, PoolAssumption
    <3>2. f \in Seq(Buffers) /\ Len(f) = Len(items) - 1
      BY <3>1, FrontElements
    <3>3. f # <<>>
      BY <3>1, <3>2, PositiveLength, Len(f) > 0
    <3> QED BY <2>6, <3>2, <3>3, TailElements DEF TakeAndShrink, TakeFrom
  <2>7. CASE UNCHANGED vars
    BY <2>7 DEF vars
  <2> QED BY <2>1, <2>2, <2>3, <2>4, <2>5, <2>6, <2>7 DEF Next
<1> QED BY <1>1, <1>2, PTL DEF Spec

-----------------------------------------------------------------------------
(* Where the buffers go in each step.                                      *)

\* A pop that takes its buffer from s leaves the buffers of s and out as they
\* are, each in one place.
LEMMA TakeFromElements ==
  ASSUME TypeOK, NEW s \in Seq(Buffers), s # <<>>, TakeFrom(s)
  PROVE  /\ Allocated' = Range(s) \cup out
         /\ IsInjective(s) /\ Range(s) \cap out = {} => OneOwner'
BY TailElements DEF TakeFrom, Allocated, OneOwner, TypeOK

\* Trimming releases the newest buffer and moves the oldest.
LEMMA ShrinkElements ==
  ASSUME PoolAssumption, TypeOK, TakeAndShrink
  PROVE  /\ Len(items) > BufferNum
         /\ Allocated' \cup {items[Len(items)]} = Allocated
         /\ OneOwner => OneOwner'
<1> DEFINE f == SubSeq(items, 1, Len(items) - 1)
<1>1. items \in Seq(Buffers) /\ items # <<>> /\ Len(items) > 1
  BY PoolAssumption DEF TakeAndShrink, TypeOK, PoolAssumption
<1>2. /\ f \in Seq(Buffers)
      /\ Len(f) = Len(items) - 1
      /\ Range(items) = Range(f) \cup {items[Len(items)]}
      /\ IsInjective(items) => IsInjective(f) /\ items[Len(items)] \notin Range(f)
  BY <1>1, FrontElements
<1>3. f # <<>> /\ TakeFrom(f)
  BY <1>1, <1>2, PositiveLength, Len(f) > 0 DEF TakeAndShrink
<1>4. /\ Allocated' = Range(f) \cup out
      /\ IsInjective(f) /\ Range(f) \cap out = {} => OneOwner'
  BY <1>2, <1>3, TakeFromElements
<1>5. OneOwner => OneOwner'
  BY <1>2, <1>4 DEF OneOwner
<1> QED BY <1>2, <1>4, <1>5 DEF TakeAndShrink, Allocated

\* In every reachable state of the pool each buffer has one owner.
THEOREM PoolOneOwner == ASSUME PoolAssumption PROVE Spec => []OneOwner
<1>1. Init => OneOwner
  BY DEF Init, OneOwner, IsInjective, Range
<1>2. TypeOK /\ OneOwner /\ [Next]_vars => OneOwner'
  <2> SUFFICES ASSUME TypeOK, OneOwner, [Next]_vars PROVE OneOwner'
    OBVIOUS
  <2>1. ASSUME NEW b \in Buffers, Fill(b) PROVE OneOwner'
    BY <2>1, AppendElements DEF Fill, OneOwner, TypeOK, Allocated
  <2>2. ASSUME NEW b \in Buffers, Put(b) PROVE OneOwner'
    BY <2>2, AppendElements DEF Put, OneOwner, TypeOK
  <2>3. ASSUME NEW b \in Buffers, TakeAndGrow(b) PROVE OneOwner'
    <3> DEFINE s == Append(items, b)
    <3>1. s \in Seq(Buffers) /\ s # <<>>
      <4>1. items \in Seq(Buffers)
        BY DEF TypeOK
      <4> QED BY <4>1, AppendElements
    <3>2. IsInjective(s) /\ Range(s) \cap out = {}
      BY <2>3, AppendElements DEF TakeAndGrow, OneOwner, TypeOK, Allocated
    <3> QED BY <2>3, <3>1, <3>2, TakeFromElements DEF TakeAndGrow
  <2>4. CASE Open
    BY <2>4 DEF Open, OneOwner
  <2>5. CASE Take
    BY <2>5, TakeFromElements DEF Take, OneOwner, TypeOK
  <2>6. CASE TakeAndShrink
    BY <2>6, ShrinkElements
  <2>7. CASE UNCHANGED vars
    BY <2>7 DEF vars, OneOwner
  <2> QED BY <2>1, <2>2, <2>3, <2>4, <2>5, <2>6, <2>7 DEF Next
<1> QED BY <1>1, <1>2, PoolType, PTL DEF Spec

-----------------------------------------------------------------------------

\* A pool of more than BufferNum buffers is trimmed by one at a time, so the
\* number allocated stays at or above the number bqueue_init was asked for.
THEOREM PoolNeverBelowMinimum == ASSUME PoolAssumption PROVE Spec => []NeverBelowMinimum
<1>1. Init => NeverBelowMinimum
  BY DEF Init, NeverBelowMinimum
<1>2. TypeOK /\ OneOwner /\ NeverBelowMinimum /\ TypeOK' /\ [Next]_vars => NeverBelowMinimum'
  <2> SUFFICES ASSUME TypeOK, OneOwner, NeverBelowMinimum, TypeOK', [Next]_vars
               PROVE  NeverBelowMinimum'
    OBVIOUS
  <2>1. /\ IsFiniteSet(Allocated) /\ IsFiniteSet(Allocated')
        /\ Cardinality(Allocated) \in Nat /\ Cardinality(Allocated') \in Nat
        /\ InitialNum \in Nat
    <3>1. Range(items) \subseteq Buffers /\ (Range(items))' \subseteq Buffers
      BY LenProperties DEF TypeOK, Range
    <3>2. Allocated \in SUBSET Buffers /\ Allocated' \in SUBSET Buffers
      BY <3>1 DEF Allocated, TypeOK
    <3> QED BY <3>2, FS_Subset, FS_CardinalityType, PoolAssumption DEF PoolAssumption
  <2>2. Len(items) <= Cardinality(Allocated)
    <3>1. IsFiniteSet(Range(items)) /\ Cardinality(Range(items)) = Len(items)
      BY InjectiveCardinality DEF TypeOK, OneOwner
    <3>2. Range(items) \in SUBSET Allocated
      BY DEF Allocated
    <3> QED BY <2>1, <3>1, <3>2, FS_Subset
  <2>3. ASSUME Allocated \subseteq Allocated', ready' = ready PROVE NeverBelowMinimum'
    <3>1. Cardinality(Allocated) <= Cardinality(Allocated')
      BY <2>1, <2>3, FS_Subset
    <3> QED BY <2>1, <2>3, <3>1 DEF NeverBelowMinimum
  <2>4. ASSUME NEW b \in Buffers, Fill(b) PROVE NeverBelowMinimum'
    BY <2>4 DEF Fill, NeverBelowMinimum
  <2>5. ASSUME NEW b \in Buffers, Put(b) PROVE NeverBelowMinimum'
    <3>1. (Range(items))' = Range(items) \cup {b}
      BY <2>5, AppendElements DEF Put, TypeOK
    <3>2. Allocated \subseteq Allocated' /\ ready' = ready
      BY <2>5, <3>1 DEF Put, Allocated
    <3> QED BY <2>3, <3>2
  <2>6. ASSUME NEW b \in Buffers, TakeAndGrow(b) PROVE NeverBelowMinimum'
    <3> DEFINE s == Append(items, b)
    <3>1. s \in Seq(Buffers) /\ s # <<>> /\ Range(s) = Range(items) \cup {b}
      BY AppendElements DEF TypeOK
    <3>2. Allocated' = Range(s) \cup out
      BY <2>6, <3>1, TakeFromElements DEF TakeAndGrow
    <3> QED BY <2>3, <2>6, <3>1, <3>2 DEF TakeAndGrow, TakeFrom, Allocated
  <2>7. CASE Open
    BY <2>1, <2>2, <2>7 DEF Open, NeverBelowMinimum, Allocated
  <2>8. CASE Take
    <3>1. Allocated' = Allocated
      BY <2>8, TakeFromElements DEF Take, TypeOK, Allocated
    <3> QED BY <2>3, <2>8, <3>1 DEF Take, TakeFrom
  <2>9. CASE TakeAndShrink
    <3>1. /\ Len(items) > BufferNum
          /\ Allocated' \cup {items[Len(items)]} = Allocated
      BY <2>9, ShrinkElements
    <3>2. Cardinality(Allocated) <= Cardinality(Allocated') + 1
      BY <2>1, <3>1, FS_AddElement
    <3>3. Len(items) \in Nat /\ BufferNum \in Nat /\ InitialNum <= BufferNum
      BY PoolAssumption, LenProperties DEF TypeOK, PoolAssumption
    <3>4. Cardinality(Allocated') >= InitialNum
      BY <2>1, <2>2, <3>1, <3>2, <3>3
    <3> QED BY <3>4 DEF NeverBelowMinimum
  <2>10. CASE UNCHANGED vars
    BY <2>10 DEF vars, NeverBelowMinimum, Allocated
  <2> QED BY <2>4, <2>5, <2>6, <2>7, <2>8, <2>9, <2>10 DEF Next
<1> QED BY <1>1, <1>2, PoolType, PoolOneOwner, PTL DEF Spec
=============================================================================
