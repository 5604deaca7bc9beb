--------------------------- MODULE BufferQueueProofs ---------------------------
(***************************************************************************)
(* The invariants of BufferQueue for every set of buffers and every        *)
(* configuration of the queue.  The inductive invariant is TypeOK and      *)
(* ListIntact: ListIntact names the list in memory, and each operation is  *)
(* shown to turn that list into the one a reader expects.                  *)
(***************************************************************************)
EXTENDS BufferQueue, SeqLemmas

QueueType ==
  [num : Nat, start : Pointers, end : Pointers,
   next : [Buffers -> Pointers], prev : [Buffers -> Pointers]]

\* c is the list of Q, from end to start.
ListOf(Q, c) == c \in Seq(Buffers) /\ Len(c) = Q.num /\ IsChain(Q, c)

\* The list of a queue has its ends and its size as the fields say.
LEMMA ListEnds ==
  ASSUME NEW Q \in QueueType, NEW c, ListOf(Q, c), Q.num > 0
  PROVE  /\ c # <<>>
         /\ Q.end = c[1] /\ Q.start = c[Q.num] /\ Oldest(Q) = c[1]
         /\ Q.end \in Range(c) /\ Q.start \in Range(c)
         /\ Range(c) \subseteq Buffers
<1>1. c \in Seq(Buffers) /\ Len(c) = Q.num /\ Q.num \in Nat \ {0}
  BY DEF ListOf, QueueType
<1>2. DOMAIN c = 1..Q.num /\ Range(c) \subseteq Buffers
  BY <1>1, LenProperties DEF Range
<1>3. Q.end = c[1] /\ Q.start = c[Q.num] /\ Oldest(Q) = c[1]
  BY <1>1 DEF ListOf, IsChain, Oldest
<1>4. 1 \in DOMAIN c /\ Q.num \in DOMAIN c
  BY <1>1, <1>2
<1> QED BY <1>1, <1>2, <1>3, <1>4, PositiveLength DEF Range

\* Changing num, one end and the links to values of their types keeps the type.
LEMMA UpdateType ==
  ASSUME NEW L \in QueueType, NEW num \in Nat, NEW b \in Pointers,
         NEW nx \in [Buffers -> Pointers], NEW pv \in [Buffers -> Pointers]
  PROVE  /\ [L EXCEPT !.num = num, !.start = b, !.prev = pv, !.next = nx] \in QueueType
         /\ [L EXCEPT !.num = num, !.start = b, !.prev = pv] \in QueueType
         /\ [L EXCEPT !.num = num, !.end = b, !.next = nx] \in QueueType
BY DEF QueueType

\* Inserting a buffer that is not in the list appends it, whatever its links were.
LEMMA InsertList ==
  ASSUME NEW Q \in QueueType, NEW c, ListOf(Q, c),
         NEW b \in Buffers, b \notin Range(c), NEW n \in Pointers, NEW p \in Pointers
  PROVE  LET R == InsertFront(Linked(Q, b, n, p), b)
         IN  R \in QueueType /\ R.num = Q.num + 1 /\ ListOf(R, Append(c, b))
<1> DEFINE R == InsertFront(Linked(Q, b, n, p), b)
           d == Append(c, b)
<1>1. c \in Seq(Buffers) /\ Len(c) = Q.num /\ Q.num \in Nat /\ IsChain(Q, c)
  BY DEF ListOf, QueueType
<1>2. /\ d \in Seq(Buffers) /\ Len(d) = Q.num + 1 /\ IsInjective(d)
      /\ \A i \in 1..Q.num : d[i] = c[i] /\ c[i] \in Buffers /\ c[i] # b
      /\ d[Q.num + 1] = b
  BY <1>1, AppendElements, LenProperties DEF IsChain, Range
<1>3. R \in QueueType /\ R.num = Q.num + 1 /\ R.start = b
  <2>1. Linked(Q, b, n, p) \in QueueType /\ Linked(Q, b, n, p).num = Q.num
    BY DEF Linked, QueueType
  <2>2. \A L \in QueueType : L.num = 0 =>
          InsertFront(L, b) \in QueueType /\ InsertFront(L, b).num = 1 /\ InsertFront(L, b).start = b
    BY DEF InsertFront, QueueType, Pointers
  <2>3. \A L \in QueueType : L.num # 0 =>
          InsertFront(L, b) \in QueueType /\ InsertFront(L, b).num = L.num + 1 /\ InsertFront(L, b).start = b
    <3> SUFFICES ASSUME NEW L \in QueueType, L.num # 0
                 PROVE  /\ InsertFront(L, b) \in QueueType
                        /\ InsertFront(L, b).num = L.num + 1 /\ InsertFront(L, b).start = b
      OBVIOUS
    <3>1. /\ L.num + 1 \in Nat /\ b \in Pointers
          /\ [L.prev EXCEPT ![L.start] = b, ![b] = NULL] \in [Buffers -> Pointers]
          /\ [L.next EXCEPT ![b] = L.start] \in [Buffers -> Pointers]
      BY DEF QueueType, Pointers
    <3>2. InsertFront(L, b) \in QueueType
      BY <3>1, UpdateType DEF InsertFront
    <3> QED BY <3>2 DEF InsertFront, QueueType
  <2> QED BY <1>1, <2>1, <2>2, <2>3
<1>4. R.end = d[1]
  BY <1>1, <1>2 DEF InsertFront, Linked, IsChain, QueueType
<1>5. ASSUME NEW i \in 1..Q.num PROVE R.prev[d[i]] = d[i + 1] /\ R.next[d[i + 1]] = d[i]
  <2>1. /\ Q.num > 0 /\ Q.start = c[Q.num] /\ IsInjective(c) /\ DOMAIN c = 1..Q.num
        /\ c[i] \in Buffers /\ c[i] # b /\ Q.start \in Buffers /\ Q.start # b
    BY <1>1, <1>2, <1>5, LenProperties DEF IsChain
  <2>2. /\ R.prev = [[Q.prev EXCEPT ![b] = p] EXCEPT ![Q.start] = b, ![b] = NULL]
        /\ R.next = [[Q.next EXCEPT ![b] = n] EXCEPT ![b] = Q.start]
    BY <2>1 DEF InsertFront, Linked, QueueType
  <2>3. Q.prev \in [Buffers -> Pointers] /\ Q.next \in [Buffers -> Pointers]
    BY DEF QueueType
  <2>4. CASE i = Q.num
    BY <1>1, <1>2, <2>1, <2>2, <2>3, <2>4
  <2>5. CASE i # Q.num
    <3>1. /\ i \in 1..(Q.num - 1) /\ i + 1 \in 1..Q.num
          /\ d[i] = c[i] /\ d[i + 1] = c[i + 1]
          /\ c[i + 1] \in Buffers /\ c[i + 1] # b
      BY <1>1, <1>2, <2>5
    <3>2. c[i] # Q.start
      BY <1>1, <2>1, <2>5 DEF IsInjective
    <3>3. Q.prev[c[i]] = c[i + 1] /\ Q.next[c[i + 1]] = c[i]
      BY <1>1, <3>1 DEF IsChain
    <3> QED BY <2>1, <2>2, <2>3, <3>1, <3>2, <3>3
  <2> QED BY <2>4, <2>5
<1>6. IsChain(R, d)
  <2>1. R.num # 0 /\ R.num - 1 = Q.num /\ R.start = d[R.num]
    BY <1>1, <1>2, <1>3
  <2> HIDE DEF R, d
  <2> QED BY <1>2, <1>4, <1>5, <2>1 DEF IsChain
<1> QED BY <1>2, <1>3, <1>6 DEF ListOf

\* bqueue_free drops the newest buffer of a list of at least two.
LEMMA FreeList ==
  ASSUME NEW Q \in QueueType, NEW c, ListOf(Q, c), Q.num > 1
  PROVE  LET R == Linked(FreeFront(Q), Q.start, NULL, NULL)
         IN  /\ R \in QueueType /\ R.num = Q.num - 1
             /\ ListOf(R, SubSeq(c, 1, Q.num - 1))
<1> DEFINE R == Linked(FreeFront(Q), Q.start, NULL, NULL)
           d == SubSeq(c, 1, Q.num - 1)
<1> HIDE DEF d
<1>1. c \in Seq(Buffers) /\ Len(c) = Q.num /\ Q.num \in Nat /\ IsChain(Q, c)
  BY DEF ListOf, QueueType
<1>2. c # <<>> /\ DOMAIN c = 1..Q.num /\ \A i \in 1..Q.num : c[i] \in Buffers
  BY <1>1, PositiveLength, LenProperties
<1>3. d \in Seq(Buffers) /\ Len(d) = Q.num - 1 /\ IsInjective(d)
  BY <1>1, <1>2, FrontElements DEF d, IsChain
<1>4. \A i \in 1..(Q.num - 1) : d[i] = c[i]
  BY <1>1, <1>2, SubSeqProperties DEF d
<1>5. Q.start = c[Q.num] /\ Q.end = c[1] /\ Q.next[Q.start] = c[Q.num - 1]
  <2>1. Q.num - 1 \in 1..(Q.num - 1) /\ (Q.num - 1) + 1 = Q.num
    BY <1>1
  <2>2. Q.start = c[Q.num] /\ Q.end = c[1]
    BY <1>1, ListEnds
  <2> QED BY <1>1, <2>1, <2>2 DEF IsChain
<1>6. Q.num \in 1..Q.num /\ Q.num - 1 \in 1..Q.num
  BY <1>1
<1>7. Q.start \in Buffers /\ c[Q.num - 1] \in Buffers
  BY <1>2, <1>5, <1>6
<1>8. /\ R.num = Q.num - 1 /\ R.start = c[Q.num - 1] /\ R.end = c[1]
      /\ R.prev = [[Q.prev EXCEPT ![c[Q.num - 1]] = NULL] EXCEPT ![Q.start] = NULL]
      /\ R.next = [Q.next EXCEPT ![Q.start] = NULL]
  BY <1>5 DEF FreeFront, Linked, QueueType
<1>9. R \in QueueType
  <2>1. FreeFront(Q) \in QueueType
    <3>1. /\ Q.num - 1 \in Nat /\ c[Q.num - 1] \in Pointers
          /\ [Q.prev EXCEPT ![c[Q.num - 1]] = NULL] \in [Buffers -> Pointers]
          /\ [Q.next EXCEPT ![Q.start] = NULL] \in [Buffers -> Pointers]
      BY <1>1, <1>7 DEF QueueType, Pointers
    <3> QED BY <1>5, <3>1, UpdateType DEF FreeFront
  <2>2. \A L \in QueueType : Linked(L, Q.start, NULL, NULL) \in QueueType
    BY <1>7 DEF Linked, QueueType, Pointers
  <2> QED BY <2>1, <2>2
<1>10. ASSUME NEW i \in 1..(Q.num - 2) PROVE R.prev[d[i]] = d[i + 1] /\ R.next[d[i + 1]] = d[i]
  <2>1. /\ i \in 1..(Q.num - 1) /\ i + 1 \in 1..(Q.num - 1)
        /\ i \in 1..Q.num /\ i + 1 \in 1..Q.num /\ i # Q.num - 1 /\ i # Q.num /\ i + 1 # Q.num
    BY <1>1
  <2>2. d[i] = c[i] /\ d[i + 1] = c[i + 1] /\ c[i] \in Buffers /\ c[i + 1] \in Buffers
    BY <1>2, <1>4, <2>1
  <2>3. c[i] # c[Q.num - 1] /\ c[i] # Q.start /\ c[i + 1] # Q.start
    BY <1>1, <1>2, <1>5, <1>6, <2>1 DEF IsChain, IsInjective
  <2>4. Q.prev[c[i]] = c[i + 1] /\ Q.next[c[i + 1]] = c[i]
    BY <1>1, <2>1 DEF IsChain
  <2> QED BY <1>8, <2>2, <2>3, <2>4 DEF QueueType
<1>11. R.start = d[R.num] /\ R.end = d[1]
  <2>1. 1 \in 1..(Q.num - 1) /\ Q.num - 1 \in 1..(Q.num - 1)
    BY <1>1
  <2> QED BY <1>4, <1>8, <2>1
<1>12. IsChain(R, d)
  <2>1. R.num > 0 /\ R.num - 1 = Q.num - 2
    BY <1>1, <1>8
  <2> QED BY <1>3, <1>10, <1>11, <2>1 DEF IsChain
<1> QED BY <1>3, <1>8, <1>9, <1>12 DEF ListOf, d

\* Both pops take the oldest buffer of the list.
LEMMA RemoveList ==
  ASSUME NEW Q \in QueueType, NEW c, ListOf(Q, c), Q.num > 0
  PROVE  LET R == Linked(RemoveEnd(Q), Oldest(Q), NULL, NULL)
         IN  R \in QueueType /\ R.num = Q.num - 1 /\ ListOf(R, Tail(c))
<1> DEFINE R == Linked(RemoveEnd(Q), Oldest(Q), NULL, NULL)
           d == Tail(c)
<1>1. c \in Seq(Buffers) /\ Len(c) = Q.num /\ Q.num \in Nat /\ IsChain(Q, c)
  BY DEF ListOf, QueueType
<1>2. /\ c # <<>> /\ DOMAIN c = 1..Q.num /\ \A i \in 1..Q.num : c[i] \in Buffers
      /\ Oldest(Q) = c[1] /\ Q.end = c[1] /\ Q.start = c[Q.num] /\ c[1] \in Buffers
  BY <1>1, ListEnds, LenProperties
<1>3. d \in Seq(Buffers) /\ Len(d) = Q.num - 1 /\ IsInjective(d)
  BY <1>1, <1>2, TailElements DEF IsChain
<1>4. \A i \in 1..(Q.num - 1) : d[i] = c[i + 1]
  BY <1>1, <1>2
<1> HIDE DEF d
<1>5. CASE Q.num = 1
  <2>1. R.num = 0 /\ R.start = NULL /\ R.end = NULL /\ R \in QueueType
    BY <1>2, <1>5 DEF RemoveEnd, Linked, QueueType, Pointers
  <2>2. IsChain(R, d)
    BY <1>3, <2>1 DEF IsChain
  <2> QED BY <1>3, <1>5, <2>1, <2>2 DEF ListOf, d
<1>6. CASE Q.num > 1
  <2>1. 1 \in 1..(Q.num - 1) /\ 2 \in 1..Q.num /\ 1 \in 1..Q.num
    BY <1>1, <1>6
  <2>2. Q.prev[Q.end] = c[2] /\ c[2] \in Buffers
    BY <1>1, <1>2, <2>1 DEF IsChain
  <2>3. /\ R.num = Q.num - 1 /\ R.end = c[2] /\ R.start = c[Q.num]
        /\ R.prev = [Q.prev EXCEPT ![c[1]] = NULL]
        /\ R.next = [[Q.next EXCEPT ![c[2]] = NULL] EXCEPT ![c[1]] = NULL]
    BY <1>1, <1>2, <1>6, <2>2 DEF RemoveEnd, Linked, QueueType
  <2>4. R \in QueueType
    <3>1. RemoveEnd(Q) \in QueueType
      <4>1. /\ Q.num - 1 \in Nat /\ c[2] \in Pointers /\ Q.num # 1
            /\ [Q.next EXCEPT ![c[2]] = NULL] \in [Buffers -> Pointers]
            /\ [Q.prev EXCEPT ![c[2]] = NULL] \in [Buffers -> Pointers]
        BY <1>1, <1>6, <2>2 DEF QueueType, Pointers
      <4> QED BY <2>2, <4>1, UpdateType DEF RemoveEnd
    <3>2. \A L \in QueueType : Linked(L, c[1], NULL, NULL) \in QueueType
      BY <1>2 DEF Linked, QueueType, Pointers
    <3> QED BY <1>2, <3>1, <3>2
  <2>5. ASSUME NEW i \in 1..(Q.num - 2) PROVE R.prev[d[i]] = d[i + 1] /\ R.next[d[i + 1]] = d[i]
    <3>1. /\ i \in 1..(Q.num - 1) /\ i + 1 \in 1..(Q.num - 1)
          /\ i + 1 \in 1..Q.num /\ (i + 1) + 1 \in 1..Q.num
          /\ i + 1 # 1 /\ (i + 1) + 1 # 1 /\ (i + 1) + 1 # 2
      BY <1>1
    <3>2. /\ d[i] = c[i + 1] /\ d[i + 1] = c[(i + 1) + 1]
          /\ c[i + 1] \in Buffers /\ c[(i + 1) + 1] \in Buffers
      BY <1>2, <1>4, <3>1
    <3>3. c[i + 1] # c[1] /\ c[(i + 1) + 1] # c[1] /\ c[(i + 1) + 1] # c[2]
      BY <1>1, <1>2, <2>1, <3>1 DEF IsChain, IsInjective
    <3>4. Q.prev[c[i + 1]] = c[(i + 1) + 1] /\ Q.next[c[(i + 1) + 1]] = c[i + 1]
      BY <1>1, <3>1 DEF IsChain
    <3> QED BY <2>3, <3>2, <3>3, <3>4 DEF QueueType
  <2>6. R.start = d[R.num] /\ R.end = d[1]
    <3>1. Q.num - 1 \in 1..(Q.num - 1) /\ (Q.num - 1) + 1 = Q.num /\ 1 + 1 = 2
      BY <1>1, <1>6
    <3> QED BY <1>4, <2>1, <2>3, <3>1
  <2>7. IsChain(R, d)
    <3>1. R.num > 0 /\ R.num - 1 = Q.num - 2
      BY <1>1, <1>6, <2>3
    <3> QED BY <1>3, <2>5, <2>6, <3>1 DEF IsChain
  <2> QED BY <1>3, <2>3, <2>4, <2>7 DEF ListOf, d
<1> QED BY <1>1, <1>5, <1>6

-----------------------------------------------------------------------------
(* The operations as steps.                                                *)

\* The chain ListIntact speaks of, as a sequence.
LEMMA ChainsAreLists ==
  ASSUME NEW Q \in QueueType, NEW c
  PROVE  ListOf(Q, c) <=> c \in [1..Q.num -> Buffers] /\ IsChain(Q, c)
<1>1. c \in [1..Q.num -> Buffers] => c \in Seq(Buffers) /\ Len(c) = Q.num
  BY DEF QueueType
<1>2. ListOf(Q, c) => c \in [1..Q.num -> Buffers]
  BY LenProperties DEF ListOf
<1> QED BY <1>1, <1>2 DEF ListOf

\* What a pop that returns does to the list c: it takes the head of c, of c
\* with a fresh buffer behind it, or of c without its newest buffer.
Served(c) ==
  \/ /\ heap' = heap
     /\ ListOf(q', Tail(c)) /\ out' = out \cup {Head(c)}
  \/ \E f \in Buffers :
       /\ Elastic /\ f \notin heap /\ heap' = heap \cup {f}
       /\ ListOf(q', Tail(Append(c, f))) /\ out' = out \cup {Head(Append(c, f))}
  \/ /\ Elastic /\ Len(c) > BufferNum /\ heap' = heap \ {c[Len(c)]}
     /\ ListOf(q', Tail(SubSeq(c, 1, Len(c) - 1)))
     /\ out' = out \cup {Head(SubSeq(c, 1, Len(c) - 1))}

\* The code after the wait loop of bqueue_pop and bqueue_pop_wait.
LEMMA ServeResult ==
  ASSUME TypeOK, q.num > 0, NEW c, ListOf(q, c), Range(c) \cup out = heap,
         NEW t \in BOOLEAN, Serve(t)
  PROVE  q' \in QueueType /\ Served(c) /\ consumer' = "idle" /\ UNCHANGED producer
<1>1. q \in QueueType /\ c \in Seq(Buffers) /\ Len(c) = q.num /\ c # <<>>
  BY PositiveLength DEF TypeOK, QueueType, ListOf
<1>2. ASSUME NEW Q \in QueueType, NEW d, ListOf(Q, d), Q.num > 0, Return(Q)
      PROVE  /\ q' \in QueueType /\ ListOf(q', Tail(d)) /\ out' = out \cup {Head(d)}
             /\ consumer' = "idle" /\ UNCHANGED producer
  <2>1. q' = Linked(RemoveEnd(Q), Oldest(Q), NULL, NULL) /\ out' = out \cup {Oldest(Q)}
    BY <1>2 DEF Return
  <2>2. Oldest(Q) = Head(d)
    <3>1. d \in Seq(Buffers) /\ Oldest(Q) = d[1] /\ d # <<>>
      BY <1>2, ListEnds DEF ListOf
    <3> QED BY <3>1
  <2>3. q' \in QueueType /\ ListOf(q', Tail(d))
    BY <1>2, <2>1, RemoveList
  <2> QED BY <1>2, <2>1, <2>2, <2>3 DEF Return
<1>3. ASSUME Plain PROVE q' \in QueueType /\ Served(c) /\ consumer' = "idle" /\ UNCHANGED producer
  BY <1>1, <1>2, <1>3 DEF Plain, Served
<1>4. ASSUME Elastic, NEW f \in Buffers, Grow(f)
      PROVE  q' \in QueueType /\ Served(c) /\ consumer' = "idle" /\ UNCHANGED producer
  <2> DEFINE Q == InsertFront(Linked(q, f, NULL, NULL), f)
  <2>1. f \notin heap /\ heap' = heap \cup {f} /\ Return(Q) /\ f \notin Range(c)
    BY <1>4 DEF Grow
  <2>2. Q \in QueueType /\ Q.num = q.num + 1 /\ ListOf(Q, Append(c, f))
    BY <1>1, <2>1, InsertList DEF Pointers
  <2>3. q.num \in Nat
    BY DEF TypeOK
  <2>4. Q.num > 0
    BY <2>2, <2>3
  <2>5. /\ q' \in QueueType /\ ListOf(q', Tail(Append(c, f)))
        /\ out' = out \cup {Head(Append(c, f))}
        /\ consumer' = "idle" /\ UNCHANGED producer
    <3> HIDE DEF Q
    <3> QED BY <1>2, <2>1, <2>2, <2>4
  <2> QED BY <1>4, <2>1, <2>5 DEF Served
<1>5. ASSUME Elastic, Shrink
      PROVE  q' \in QueueType /\ Served(c) /\ consumer' = "idle" /\ UNCHANGED producer
  <2> DEFINE Q == Linked(FreeFront(q), q.start, NULL, NULL)
  <2>1. /\ q.num > BufferNum /\ q.num \in Nat /\ BufferNum \in Nat \ {0}
        /\ heap' = heap \ {q.start} /\ Return(Q)
    BY <1>5, QueueAssumption DEF Shrink, TypeOK
  <2>2. q.num > 1
    BY <2>1
  <2>3. Q \in QueueType /\ Q.num = q.num - 1 /\ ListOf(Q, SubSeq(c, 1, Len(c) - 1))
    BY <1>1, <2>2, FreeList
  <2>4. q.start = c[Len(c)] /\ Q.num > 0
    BY <1>1, <2>1, <2>2, <2>3, ListEnds
  <2>5. /\ q' \in QueueType /\ ListOf(q', Tail(SubSeq(c, 1, Len(c) - 1)))
        /\ out' = out \cup {Head(SubSeq(c, 1, Len(c) - 1))}
        /\ consumer' = "idle" /\ UNCHANGED producer
    <3> HIDE DEF Q
    <3> QED BY <1>2, <2>1, <2>3, <2>4
  <2> QED BY <1>1, <1>5, <2>1, <2>4, <2>5 DEF Served
<1> QED BY <1>3, <1>4, <1>5 DEF Serve

\* Every outcome of a pop leaves each allocated buffer in one place.
LEMMA ServedIntact ==
  ASSUME TypeOK, NEW c, ListOf(q, c), c # <<>>,
         Range(c) \cap out = {}, Range(c) \cup out = heap,
         q' \in QueueType, Served(c)
  PROVE  ListIntact' /\ out' \in SUBSET Buffers /\ heap' \in SUBSET Buffers
<1>1. /\ c \in Seq(Buffers) /\ IsInjective(c) /\ Len(c) \in Nat \ {0}
      /\ Range(c) \subseteq Buffers /\ out \subseteq Buffers
  BY LenProperties, EmptySeq DEF ListOf, IsChain, TypeOK, Range
<1>2. ASSUME NEW d \in Seq(Buffers), d # <<>>, IsInjective(d),
             Range(d) \cap out = {}, Range(d) \cup out = heap',
             ListOf(q', Tail(d)), out' = out \cup {Head(d)}
      PROVE  ListIntact' /\ out' \in SUBSET Buffers /\ heap' \in SUBSET Buffers
  <2>1. /\ Head(d) \in Buffers /\ Range(d) = Range(Tail(d)) \cup {Head(d)}
        /\ Head(d) \notin Range(Tail(d)) /\ Range(d) \subseteq Buffers
    <3>1. Range(d) \subseteq Buffers
      BY <1>2, LenProperties DEF Range
    <3> QED BY <1>2, <3>1, TailElements
  <2>2. Range(Tail(d)) \cap out' = {} /\ Range(Tail(d)) \cup out' = heap'
    BY <1>2, <2>1
  <2>3. ListIntact'
    <3>1. Tail(d) \in Chains' /\ IsChain(q', Tail(d))
      BY <1>2, ChainsAreLists DEF Chains
    <3> QED BY <2>2, <3>1 DEF ListIntact
  <2> QED BY <1>1, <1>2, <2>1, <2>3
<1>3. ASSUME heap' = heap, ListOf(q', Tail(c)), out' = out \cup {Head(c)}
      PROVE  ListIntact' /\ out' \in SUBSET Buffers /\ heap' \in SUBSET Buffers
  BY <1>1, <1>2, <1>3
<1>4. ASSUME NEW f \in Buffers, f \notin heap, heap' = heap \cup {f},
             ListOf(q', Tail(Append(c, f))), out' = out \cup {Head(Append(c, f))}
      PROVE  ListIntact' /\ out' \in SUBSET Buffers /\ heap' \in SUBSET Buffers
  <2> DEFINE d == Append(c, f)
  <2>1. /\ d \in Seq(Buffers) /\ d # <<>> /\ IsInjective(d)
        /\ Range(d) = Range(c) \cup {f}
    BY <1>1, <1>4, AppendElements
  <2>2. Range(d) \cap out = {} /\ Range(d) \cup out = heap'
    BY <1>4, <2>1
  <2> HIDE DEF d
  <2> QED BY <1>2, <1>4, <2>1, <2>2 DEF d
<1>5. ASSUME Len(c) > BufferNum, heap' = heap \ {c[Len(c)]},
             ListOf(q', Tail(SubSeq(c, 1, Len(c) - 1))),
             out' = out \cup {Head(SubSeq(c, 1, Len(c) - 1))}
      PROVE  ListIntact' /\ out' \in SUBSET Buffers /\ heap' \in SUBSET Buffers
  <2> DEFINE d == SubSeq(c, 1, Len(c) - 1)
  <2>1. /\ d \in Seq(Buffers) /\ Len(d) = Len(c) - 1 /\ IsInjective(d)
        /\ Range(c) = Range(d) \cup {c[Len(c)]} /\ c[Len(c)] \notin Range(d)
    BY <1>1, FrontElements
  <2>2. c[Len(c)] \in Range(c)
    BY <2>1
  <2> HIDE DEF d
  <2>3. Len(d) > 0
    BY <1>1, <1>5, <2>1, QueueAssumption
  <2>4. d # <<>> /\ Range(d) \cap out = {} /\ Range(d) \cup out = heap'
    BY <1>5, <2>1, <2>2, <2>3, PositiveLength
  <2> QED BY <1>2, <1>5, <2>1, <2>4 DEF d
<1> QED BY <1>3, <1>4, <1>5 DEF Served

\* Both constructors of the list append a buffer that is in no other place.
LEMMA InsertIntact ==
  ASSUME TypeOK, ListIntact, NEW b \in Buffers, b \in out \/ b \notin heap,
         NEW n \in Pointers, NEW p \in Pointers,
         q' = InsertFront(Linked(q, b, n, p), b),
         out' = out \ {b}, heap' = heap \cup {b}
  PROVE  q' \in QueueType /\ ListIntact'
<1>1. q \in QueueType
  BY DEF TypeOK, QueueType
<1>2. PICK c : ListOf(q, c) /\ Range(c) \cap out = {} /\ Range(c) \cup out = heap
  BY <1>1, ChainsAreLists DEF ListIntact, Chains
<1>3. q' \in QueueType /\ ListOf(q', Append(c, b))
  BY <1>1, <1>2, InsertList
<1>4. Range(Append(c, b)) = Range(c) \cup {b}
  BY <1>2, AppendElements DEF ListOf
<1>5. Range(Append(c, b)) \cap out' = {} /\ Range(Append(c, b)) \cup out' = heap'
  BY <1>2, <1>4
<1>6. ListIntact'
  <2>1. Append(c, b) \in Chains' /\ IsChain(q', Append(c, b))
    BY <1>3, ChainsAreLists DEF Chains
  <2> QED BY <1>5, <2>1 DEF ListIntact
<1> QED BY <1>3, <1>6

-----------------------------------------------------------------------------
(* The invariants.                                                         *)

QueueInv == TypeOK /\ ListIntact

LEMMA InitQueueInv == Init => QueueInv
<1> SUFFICES ASSUME Init PROVE QueueInv
  OBVIOUS
<1>1. EmptyQueue \in QueueType /\ EmptyQueue.num = 0 /\ EmptyQueue.start = NULL /\ EmptyQueue.end = NULL
  BY DEF EmptyQueue, QueueType, Pointers
<1>2. TypeOK
  BY <1>1 DEF Init, TypeOK, QueueType
<1>3. <<>> \in Seq(Buffers) /\ Len(<<>>) = 0 /\ IsInjective(<<>>) /\ Range(<<>>) = {}
  BY DEF IsInjective, Range
<1>4. ListOf(q, <<>>)
  BY <1>1, <1>3 DEF Init, ListOf, IsChain
<1>5. ListIntact
  <2>1. <<>> \in Chains /\ IsChain(q, <<>>)
    BY <1>1, <1>4, ChainsAreLists DEF Init, Chains
  <2> QED BY <1>3, <2>1 DEF Init, ListIntact
<1> QED BY <1>2, <1>5 DEF QueueInv

LEMMA StepQueueInv == QueueInv /\ [Next]_vars => QueueInv'
<1> SUFFICES ASSUME QueueInv, [Next]_vars PROVE QueueInv'
  OBVIOUS
<1> USE DEF QueueInv
<1>1. ASSUME NEW b \in Buffers, PushNew(b) PROVE QueueInv'
  <2>1. /\ q' = InsertFront(Linked(q, b, NULL, NULL), b) /\ b \notin heap
        /\ heap' = heap \cup {b} /\ UNCHANGED <<out, producer, consumer>>
    BY <1>1 DEF PushNew
  <2>2. out \subseteq heap /\ NULL \in Pointers
    BY DEF ListIntact, Pointers
  <2>3. out' = out \ {b}
    BY <2>1, <2>2
  <2>4. q' \in QueueType /\ ListIntact'
    BY <2>1, <2>2, <2>3, InsertIntact
  <2> QED BY <2>1, <2>4 DEF TypeOK, QueueType
<1>2. ASSUME NEW b \in Buffers, Push(b) PROVE QueueInv'
  <2>1. PICK n \in Pointers, p \in Pointers : q' = InsertFront(Linked(q, b, n, p), b)
    BY <1>2 DEF Push
  <2>2. /\ b \in out /\ out' = out \ {b} /\ heap' = heap
        /\ producer' = "signal" /\ consumer' = consumer
    BY <1>2 DEF Push
  <2>3. heap' = heap \cup {b}
    BY <2>2 DEF ListIntact
  <2>4. q' \in QueueType /\ ListIntact'
    BY <2>1, <2>2, <2>3, InsertIntact
  <2> QED BY <2>2, <2>4 DEF TypeOK, QueueType
<1>3. ASSUME q.num > 0, NEW t \in BOOLEAN, Serve(t) PROVE QueueInv'
  <2>1. q \in QueueType
    BY DEF TypeOK, QueueType
  <2>2. PICK c : ListOf(q, c) /\ Range(c) \cap out = {} /\ Range(c) \cup out = heap
    BY <2>1, ChainsAreLists DEF ListIntact, Chains
  <2>3. q' \in QueueType /\ Served(c) /\ consumer' = "idle" /\ UNCHANGED producer
    BY <1>3, <2>2, ServeResult
  <2>4. c # <<>>
    BY <1>3, <2>1, <2>2, ListEnds
  <2>5. ListIntact' /\ out' \in SUBSET Buffers /\ heap' \in SUBSET Buffers
    BY <2>2, <2>3, <2>4, ServedIntact
  <2> QED BY <2>3, <2>5 DEF TypeOK, QueueType
<1>4. CASE UNCHANGED <<q, heap, out>> /\ consumer' \in {"idle", "waiting", "woken", "timedout", consumer}
             /\ producer' \in {"idle", producer}
  BY <1>4 DEF TypeOK, ListIntact, Chains
<1>5. CASE PopNow
  BY <1>3, <1>5 DEF PopNow
<1>6. CASE PopAfterWait
  BY <1>3, <1>6 DEF PopAfterWait
<1>7. CASE InitDone \/ Signal \/ Wait \/ TimeOut \/ SpuriousWakeup \/ WaitAgain \/ UNCHANGED vars
  BY <1>4, <1>7 DEF InitDone, Signal, Wait, TimeOut, SpuriousWakeup, WaitAgain, vars
<1> QED BY <1>1, <1>2, <1>5, <1>6, <1>7 DEF Next

\* Every pointer of the queue is NULL or the address of a buffer, in every reachable state.
THEOREM QueueTypeCorrect == Spec => []TypeOK
<1>1. QueueInv => TypeOK
  BY DEF QueueInv
<1> QED BY <1>1, InitQueueInv, StepQueueInv, PTL DEF Spec

\* The doubly linked list survives every interleaving of pushes, pops,
\* allocations and releases, and no buffer is lost or has two owners.
THEOREM QueueListIntact == Spec => []ListIntact
<1>1. QueueInv => ListIntact
  BY DEF QueueInv
<1> QED BY <1>1, InitQueueInv, StepQueueInv, PTL DEF Spec

\* Signalling after the unlock loses no wake-up: a buffer arrives only with a
\* push, and a push leaves its signal pending.
THEOREM QueueNoLostWakeup == Spec => []NoLostWakeup
<1>1. Init => NoLostWakeup
  BY DEF Init, NoLostWakeup
<1>2. QueueInv /\ NoLostWakeup /\ [Next]_vars => NoLostWakeup'
  <2> SUFFICES ASSUME QueueInv, NoLostWakeup, [Next]_vars PROVE NoLostWakeup'
    OBVIOUS
  <2>1. ASSUME NEW b \in Buffers, PushNew(b) \/ Push(b) PROVE NoLostWakeup'
    BY <2>1 DEF PushNew, Push, NoLostWakeup
  <2>2. ASSUME NEW t, Serve(t) PROVE NoLostWakeup'
    BY <2>2 DEF Serve, Shrink, Plain, Grow, Return, NoLostWakeup
  <2>3. CASE PopNow \/ PopAfterWait
    BY <2>2, <2>3 DEF PopNow, PopAfterWait
  <2>4. CASE InitDone \/ Signal \/ Wait \/ TimeOut \/ SpuriousWakeup \/ WaitAgain \/ UNCHANGED vars
    BY <2>4 DEF InitDone, Signal, Wait, TimeOut, SpuriousWakeup, WaitAgain, vars, NoLostWakeup
  <2> QED BY <2>1, <2>3, <2>4 DEF Next
<1> QED BY <1>1, <1>2, InitQueueInv, StepQueueInv, PTL DEF Spec

\* Trimming a queue that holds more than BufferNum buffers leaves BufferNum, so
\* the number allocated stays at or above the number bqueue_init was asked for,
\* whichever pops allocate and whichever release.
THEOREM QueueNeverBelowMinimum == Spec => []NeverBelowMinimum
<1>1. Init => NeverBelowMinimum
  BY DEF Init, NeverBelowMinimum
<1>2. QueueInv /\ NeverBelowMinimum /\ [Next]_vars => NeverBelowMinimum'
  <2> SUFFICES ASSUME QueueInv, NeverBelowMinimum, [Next]_vars PROVE NeverBelowMinimum'
    OBVIOUS
  <2>1. q \in QueueType /\ heap \subseteq Buffers
    BY DEF QueueInv, TypeOK, QueueType
  <2>2. PICK c : ListOf(q, c) /\ Range(c) \cup out = heap
    BY <2>1, ChainsAreLists DEF QueueInv, ListIntact, Chains
  <2>3. /\ IsFiniteSet(heap) /\ Cardinality(heap) \in Nat
        /\ q.num \in Nat /\ q.num <= Cardinality(heap)
        /\ InitialNum \in Nat /\ BufferNum \in Nat \ {0} /\ InitialNum <= BufferNum
    <3>1. IsFiniteSet(heap) /\ Cardinality(heap) \in Nat
      BY <2>1, QueueAssumption, FS_Subset, FS_CardinalityType
    <3>2. c \in Seq(Buffers) /\ IsInjective(c) /\ Len(c) = q.num
      BY <2>2 DEF ListOf, IsChain
    <3>3. Cardinality(Range(c)) = q.num /\ Cardinality(Range(c)) <= Cardinality(heap)
      BY <2>2, <3>1, <3>2, InjectiveCardinality, FS_Subset
    <3> QED BY <2>1, <3>1, <3>3, QueueAssumption DEF QueueType
  <2>4. CASE heap' = heap /\ (consumer' # "init" => consumer # "init")
    BY <2>4 DEF NeverBelowMinimum
  <2>5. ASSUME NEW b \in Buffers, PushNew(b) PROVE NeverBelowMinimum'
    BY <2>5 DEF PushNew, NeverBelowMinimum
  <2>6. CASE InitDone
    BY <2>3, <2>6 DEF InitDone, NeverBelowMinimum
  <2>7. ASSUME NEW t \in BOOLEAN, q.num > 0, Serve(t), consumer # "init"
        PROVE  NeverBelowMinimum'
    <3>1. CASE heap' = heap
      BY <2>7, <3>1 DEF NeverBelowMinimum
    <3>2. ASSUME NEW f \in Buffers, f \notin heap, heap' = heap \cup {f} PROVE NeverBelowMinimum'
      <4>1. Cardinality(heap') = Cardinality(heap) + 1
        BY <2>3, <3>2, FS_AddElement
      <4> QED BY <2>3, <2>7, <4>1 DEF NeverBelowMinimum
    <3>3. CASE heap' = heap \ {q.start} /\ q.num > BufferNum
      <4>1. q.start \in heap
        BY <2>1, <2>2, <2>7, ListEnds
      <4>2. Cardinality(heap') = Cardinality(heap) - 1
        BY <2>3, <3>3, <4>1, FS_RemoveElement
      <4> QED BY <2>3, <3>3, <4>2 DEF NeverBelowMinimum
    <3> QED BY <2>7, <3>1, <3>2, <3>3 DEF Serve, Plain, Grow, Shrink
  <2>8. CASE PopNow
    BY <2>7, <2>8 DEF PopNow
  <2>9. CASE PopAfterWait
    BY <2>7, <2>9 DEF PopAfterWait
  <2>10. ASSUME NEW b \in Buffers, Push(b) PROVE NeverBelowMinimum'
    BY <2>4, <2>10 DEF Push
  <2>11. CASE Signal \/ Wait \/ TimeOut \/ SpuriousWakeup \/ WaitAgain \/ UNCHANGED vars
    BY <2>4, <2>11 DEF Signal, Wait, TimeOut, SpuriousWakeup, WaitAgain, vars
  <2> QED BY <2>5, <2>6, <2>8, <2>9, <2>10, <2>11 DEF Next
<1> QED BY <1>1, <1>2, InitQueueInv, StepQueueInv, PTL DEF Spec

-----------------------------------------------------------------------------
(* The queue is a first-in first-out pool.                                 *)

\* The links determine the list: two readings of one queue are equal.
LEMMA ListUnique ==
  ASSUME NEW Q \in QueueType, NEW c, NEW d, ListOf(Q, c), ListOf(Q, d)
  PROVE  c = d
<1>1. /\ c \in Seq(Buffers) /\ d \in Seq(Buffers) /\ Q.num \in Nat
      /\ Len(c) = Q.num /\ Len(d) = Q.num
  BY DEF ListOf, QueueType
<1> DEFINE T == {i \in 1..Q.num : c[i] # d[i]}
<1>2. ASSUME T # {} PROVE FALSE
  <2>1. PICK i \in T : \A j \in T : i <= j
    <3>1. T \in SUBSET Nat
      BY <1>1
    <3> HIDE DEF T
    <3> QED BY <1>2, <3>1, LeastNatural
  <2>2. i \in 1..Q.num /\ c[i] # d[i] /\ Q.num > 0
    BY <1>1, <2>1
  <2>3. i # 1
    BY <2>2, ListEnds
  <2>4. i - 1 \in 1..(Q.num - 1) /\ i - 1 \in 1..Q.num /\ (i - 1) + 1 = i /\ ~(i <= i - 1)
    BY <1>1, <2>2, <2>3
  <2>5. c[i - 1] = d[i - 1]
    BY <2>1, <2>4
  <2>6. Q.prev[c[i - 1]] = c[i] /\ Q.prev[d[i - 1]] = d[i]
    BY <2>4 DEF ListOf, IsChain
  <2> QED BY <2>2, <2>5, <2>6
<1>3. \A i \in 1..Q.num : c[i] = d[i]
  BY <1>2
<1> QED BY <1>1, <1>3, SeqEqual

\* What Contents chooses is the list of the queue.
LEMMA ContentsIsList ==
  ASSUME NEW Q \in QueueType, NEW c, ListOf(Q, c)
  PROVE  (CHOOSE d \in [1..Q.num -> Buffers] : IsChain(Q, d)) = c
<1>1. c \in [1..Q.num -> Buffers] /\ IsChain(Q, c)
  BY ChainsAreLists
<1>2. \A d \in [1..Q.num -> Buffers] : IsChain(Q, d) => d = c
  BY ChainsAreLists, ListUnique
<1> QED BY <1>1, <1>2

\* The linked list with its lock, its wait loops and its signals does to the
\* buffers what the abstract pool does, in the same order, in every step.
THEOREM QueueImplementsPool == Spec => PoolSpec
<1>1. Init => Pool!Init
  <2> SUFFICES ASSUME Init PROVE Pool!Init
    OBVIOUS
  <2>1. q \in QueueType /\ q.num = 0
    <3>1. TypeOK
      BY InitQueueInv DEF QueueInv
    <3> QED BY <3>1 DEF Init, EmptyQueue, TypeOK, QueueType
  <2>2. <<>> \in [1..q.num -> Buffers] /\ IsChain(q, <<>>)
    BY <2>1 DEF Init, EmptyQueue, IsChain, IsInjective
  <2>3. Contents = <<>>
    BY <2>1, <2>2, ChainsAreLists, ContentsIsList DEF Contents, Chains
  <2> QED BY <2>3 DEF Init, Pool!Init
<1>2. QueueInv /\ QueueInv' /\ [Next]_vars => [Pool!Next]_(Pool!vars)
  <2> SUFFICES ASSUME QueueInv, QueueInv', [Next]_vars PROVE [Pool!Next]_(Pool!vars)
    OBVIOUS
  <2>1. q \in QueueType /\ q' \in QueueType
    BY DEF QueueInv, TypeOK, QueueType
  <2>2. PICK c : ListOf(q, c) /\ Range(c) \cap out = {} /\ Range(c) \cup out = heap
    BY <2>1, ChainsAreLists DEF QueueInv, ListIntact, Chains
  <2>3. Contents = c /\ c \in Seq(Buffers) /\ Len(c) = q.num
    BY <2>1, <2>2, ContentsIsList DEF Contents, Chains, ListOf
  <2>4. \A d : ListOf(q', d) => Contents' = d
    BY <2>1, ContentsIsList DEF Contents, Chains
  <2>5. Pool!Allocated = heap
    BY <2>2, <2>3 DEF Pool!Allocated, Pool!Range, Range
  <2>6. ASSUME NEW b \in Buffers, PushNew(b) PROVE [Pool!Next]_(Pool!vars)
    <3>1. b \notin heap /\ b \notin Range(c) /\ NULL \in Pointers
      BY <2>2, <2>6 DEF PushNew, Pointers
    <3>2. ListOf(q', Append(c, b))
      BY <2>1, <2>2, <2>6, <3>1, InsertList DEF PushNew
    <3>3. Contents' = Append(c, b)
      BY <2>4, <3>2
    <3>4. Pool!Fill(b)
      BY <2>3, <2>5, <2>6, <3>1, <3>3 DEF Pool!Fill, PushNew
    <3> QED BY <3>4 DEF Pool!Next
  <2>7. ASSUME NEW b \in Buffers, Push(b) PROVE [Pool!Next]_(Pool!vars)
    <3>1. b \in out /\ b \notin Range(c)
      BY <2>2, <2>7 DEF Push
    <3>2. ListOf(q', Append(c, b))
      BY <2>1, <2>2, <2>7, <3>1, InsertList DEF Push
    <3>3. Contents' = Append(c, b)
      BY <2>4, <3>2
    <3>4. Pool!Put(b)
      BY <2>3, <2>7, <3>1, <3>3 DEF Pool!Put, Push
    <3> QED BY <3>4 DEF Pool!Next
  <2>8. ASSUME q.num > 0, NEW t \in BOOLEAN, Serve(t), consumer # "init"
        PROVE  [Pool!Next]_(Pool!vars)
    <3>1. Served(c) /\ consumer' # "init"
      BY <2>2, <2>8, ServeResult DEF QueueInv
    <3>2. c # <<>>
      BY <2>1, <2>2, <2>8, ListEnds
    <3>3. \A d : ListOf(q', Tail(d)) /\ out' = out \cup {Head(d)} => Pool!TakeFrom(d)
      BY <2>4, <2>8, <3>1 DEF Pool!TakeFrom
    <3>4. CASE ListOf(q', Tail(c)) /\ out' = out \cup {Head(c)}
      BY <2>3, <2>8, <3>2, <3>3, <3>4 DEF Pool!Take, Pool!Next
    <3>5. ASSUME NEW f \in Buffers, Elastic, f \notin heap,
                 ListOf(q', Tail(Append(c, f))), out' = out \cup {Head(Append(c, f))}
          PROVE  [Pool!Next]_(Pool!vars)
      BY <2>3, <2>5, <2>8, <3>2, <3>3, <3>5 DEF Pool!TakeAndGrow, Pool!Next
    <3>6. CASE /\ Elastic /\ Len(c) > BufferNum
               /\ ListOf(q', Tail(SubSeq(c, 1, Len(c) - 1)))
               /\ out' = out \cup {Head(SubSeq(c, 1, Len(c) - 1))}
      BY <2>3, <2>8, <3>3, <3>6 DEF Pool!TakeAndShrink, Pool!Next
    <3> QED BY <3>1, <3>4, <3>5, <3>6 DEF Served
  <2>9. CASE PopNow
    BY <2>8, <2>9 DEF PopNow
  <2>10. CASE PopAfterWait
    BY <2>8, <2>10 DEF PopAfterWait
  <2>11. CASE InitDone
    <3>1. Contents' = Contents /\ out' = out /\ consumer = "init" /\ consumer' = "idle"
      BY <2>11 DEF InitDone, Contents, Chains
    <3> QED BY <2>3, <2>11, <3>1 DEF InitDone, Pool!Open, Pool!Next
  <2>12. CASE Signal \/ Wait \/ TimeOut \/ SpuriousWakeup \/ WaitAgain \/ UNCHANGED vars
    <3>1. q' = q /\ out' = out /\ (consumer' # "init" <=> consumer # "init")
      BY <2>12 DEF Signal, Wait, TimeOut, SpuriousWakeup, WaitAgain, vars
    <3>2. Contents' = Contents
      BY <3>1 DEF Contents, Chains
    <3> QED BY <3>1, <3>2 DEF Pool!vars
  <2> QED BY <2>6, <2>7, <2>9, <2>10, <2>11, <2>12 DEF Next
<1> QED BY <1>1, <1>2, InitQueueInv, StepQueueInv, PTL DEF Spec, PoolSpec, Pool!Spec
=============================================================================
