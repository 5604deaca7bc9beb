------------------------------- MODULE SeqLemmas -------------------------------
(***************************************************************************)
(* What the sequence operations of the models do to the elements of a      *)
(* sequence, to its injectivity and to a concatenation of sequences, and   *)
(* what the sum of a function over a finite set is.                        *)
(***************************************************************************)
EXTENDS Integers, Sequences, FiniteSets, Functions, SequencesExt, SequenceTheorems,
        FiniteSetTheorems, WellFoundedInduction, TLAPS

\* A non-empty set of naturals has a least element.
LEMMA LeastNatural ==
  ASSUME NEW T \in SUBSET Nat, T # {}
  PROVE  \E n \in T : \A m \in T : n <= m
<1>1. IsWellFoundedOn(OpToRel(<, Nat), Nat)
  BY NatLessThanWellFounded
<1>2. PICK n \in T : \A m \in T : ~(<<m, n>> \in OpToRel(<, Nat))
  BY <1>1, WFMin
<1>3. \A m \in T : ~(m < n)
  BY <1>2 DEF OpToRel
<1> QED BY <1>3

\* A sequence with a positive length has a head to pop.
LEMMA PositiveLength ==
  ASSUME NEW S, NEW s \in Seq(S), Len(s) > 0
  PROVE  s # <<>>
OBVIOUS

\* Pushing x puts x, and nothing else, among the elements, and keeps them distinct if x is new.
LEMMA AppendElements ==
  ASSUME NEW S, NEW s \in Seq(S), NEW x \in S
  PROVE  /\ Append(s, x) \in Seq(S)
         /\ Range(Append(s, x)) = Range(s) \cup {x}
         /\ IsInjective(s) /\ x \notin Range(s) => IsInjective(Append(s, x))
<1>1. Append(s, x) \in Seq(S) /\ Len(Append(s, x)) = Len(s) + 1
  OBVIOUS
<1>2. \A i \in 1..Len(s) : Append(s, x)[i] = s[i]
  OBVIOUS
<1>3. Append(s, x)[Len(s) + 1] = x
  OBVIOUS
<1>4. DOMAIN s = 1..Len(s) /\ DOMAIN Append(s, x) = 1..(Len(s) + 1) /\ Len(s) \in Nat
  BY <1>1
<1>5. Range(Append(s, x)) = Range(s) \cup {x}
  BY <1>2, <1>3, <1>4 DEF Range
<1>6. IsInjective(s) /\ x \notin Range(s) => IsInjective(Append(s, x))
  BY <1>2, <1>3, <1>4 DEF Range, IsInjective
<1> QED BY <1>1, <1>5, <1>6

\* Popping the head takes the head, and nothing else, from the elements of a
\* sequence without repetitions.
LEMMA TailElements ==
  ASSUME NEW S, NEW s \in Seq(S), s # <<>>
  PROVE  /\ Tail(s) \in Seq(S)
         /\ Len(Tail(s)) = Len(s) - 1
         /\ Head(s) \in S /\ Head(s) \in Range(s)
         /\ Range(s) = Range(Tail(s)) \cup {Head(s)}
         /\ IsInjective(s) => IsInjective(Tail(s)) /\ Head(s) \notin Range(Tail(s))
<1>1. Tail(s) \in Seq(S) /\ Len(Tail(s)) = Len(s) - 1 /\ Len(s) \in Nat \ {0}
  OBVIOUS
<1>2. \A i \in 1..(Len(s) - 1) : Tail(s)[i] = s[i + 1]
  OBVIOUS
<1>3. Head(s) = s[1] /\ s[1] \in S
  OBVIOUS
<1>4. DOMAIN s = 1..Len(s) /\ DOMAIN Tail(s) = 1..(Len(s) - 1)
  BY <1>1
<1>5. Range(s) = Range(Tail(s)) \cup {Head(s)}
  <2>1. \A i \in 2..Len(s) : i - 1 \in 1..(Len(s) - 1) /\ Tail(s)[i - 1] = s[i]
    BY <1>1, <1>2
  <2>2. Range(s) \subseteq Range(Tail(s)) \cup {Head(s)}
    <3> SUFFICES ASSUME NEW i \in 1..Len(s)
                 PROVE  s[i] \in Range(Tail(s)) \cup {Head(s)}
      BY <1>4 DEF Range
    <3>1. CASE i = 1
      BY <3>1, <1>3
    <3>2. CASE i \in 2..Len(s)
      BY <3>2, <2>1, <1>4 DEF Range
    <3> QED BY <3>1, <3>2, <1>1
  <2>3. Range(Tail(s)) \cup {Head(s)} \subseteq Range(s)
    BY <1>1, <1>2, <1>3, <1>4 DEF Range
  <2> QED BY <2>2, <2>3
<1>6. IsInjective(s) => IsInjective(Tail(s)) /\ Head(s) \notin Range(Tail(s))
  BY <1>1, <1>2, <1>3, <1>4 DEF Range, IsInjective
<1> QED BY <1>1, <1>3, <1>5, <1>6

\* Dropping the last element takes it, and nothing else, from the elements.
LEMMA FrontElements ==
  ASSUME NEW S, NEW s \in Seq(S), s # <<>>
  PROVE  LET f == SubSeq(s, 1, Len(s) - 1)
         IN  /\ f \in Seq(S)
             /\ Len(f) = Len(s) - 1
             /\ Range(s) = Range(f) \cup {s[Len(s)]}
             /\ IsInjective(s) => IsInjective(f) /\ s[Len(s)] \notin Range(f)
<1> DEFINE f == SubSeq(s, 1, Len(s) - 1)
<1> HIDE DEF f
<1>1. Len(s) \in Nat \ {0} /\ DOMAIN s = 1..Len(s) /\ 1 \in 1..(Len(s) + 1)
  BY EmptySeq, LenProperties
<1>2. /\ f \in Seq(S)
      /\ Len(f) = Len(s) - 1
      /\ \A i \in 1..(Len(s) - 1) : f[i] = s[i]
  BY <1>1, SubSeqProperties DEF f
<1>3. DOMAIN f = 1..(Len(s) - 1)
  BY <1>2, LenProperties
<1>4. Range(s) = Range(f) \cup {s[Len(s)]}
  <2>1. \A i \in 1..Len(s) : i = Len(s) \/ i \in 1..(Len(s) - 1)
    <3>1. \A n \in Nat : \A i \in 1..n : i = n \/ i \in 1..(n - 1)
      OBVIOUS
    <3> QED BY <3>1, <1>1
  <2>2. Range(s) \subseteq Range(f) \cup {s[Len(s)]}
    BY <1>1, <1>2, <1>3, <2>1 DEF Range
  <2>3. \A i \in 1..(Len(s) - 1) : i \in 1..Len(s)
    BY <1>1
  <2>4. Len(s) \in 1..Len(s)
    BY <1>1
  <2>5. Range(f) \cup {s[Len(s)]} \subseteq Range(s)
    BY <1>1, <1>2, <1>3, <2>3, <2>4 DEF Range
  <2> QED BY <2>2, <2>5
<1>5. IsInjective(s) => IsInjective(f) /\ s[Len(s)] \notin Range(f)
  BY <1>1, <1>2, <1>3 DEF Range, IsInjective
<1> QED BY <1>2, <1>4, <1>5 DEF f

\* A sequence without repetitions has as many elements as its length.
LEMMA InjectiveCardinality ==
  ASSUME NEW S, NEW s \in Seq(S), IsInjective(s)
  PROVE  IsFiniteSet(Range(s)) /\ Cardinality(Range(s)) = Len(s)
<1>1. Len(s) \in Nat /\ DOMAIN s = 1..Len(s)
  OBVIOUS
<1>2. s \in [1..Len(s) -> Range(s)] 
  BY <1>1 DEF Range
<1>3. s \in Bijection(1..Len(s), Range(s))
  BY <1>1, <1>2 DEF Bijection, Injection, Surjection, Range, IsInjective
<1>4. ExistsBijection(1..Len(s), Range(s))
  BY <1>3 DEF ExistsBijection
<1>5. IsFiniteSet(1..Len(s)) /\ Cardinality(1..Len(s)) = Len(s)
  BY <1>1, FS_Interval
<1> QED BY <1>4, <1>5, FS_Bijection, Zenon
-----------------------------------------------------------------------------
(* FlattenSeq, the concatenation of a sequence of sequences.               *)

\* f holds the concatenations of the first sequences of ss.
Flattens(S, ss, f) ==
  /\ f \in [1..Len(ss) -> Seq(S)]
  /\ \A i \in 1..Len(ss) : f[i] = IF i = 1 THEN ss[i] ELSE f[i - 1] \o ss[i]

\* The recursive function of FlattenSeq exists.
LEMMA FlattensExists ==
  ASSUME NEW S, NEW ss \in Seq(Seq(S))
  PROVE  \E f : Flattens(S, ss, f)
<1> DEFINE Has(n) == \E f : /\ f \in [1..n -> Seq(S)]
                            /\ \A i \in 1..n : f[i] = IF i = 1 THEN ss[i] ELSE f[i - 1] \o ss[i]
           T == {n \in 0..Len(ss) : ~Has(n)}
<1>1. Len(ss) \in Nat /\ \A i \in 1..Len(ss) : ss[i] \in Seq(S)
  OBVIOUS
<1>2. ASSUME T # {} PROVE FALSE
  <2>1. PICK n \in T : \A m \in T : n <= m
    <3>1. T \in SUBSET Nat
      BY <1>1
    <3> HIDE DEF T
    <3> QED BY <1>2, <3>1, LeastNatural
  <2>2. n \in 0..Len(ss) /\ ~Has(n)
    BY <2>1
  <2>3. Has(0)
    <3> DEFINE e == [i \in 1..0 |-> <<>>]
    <3>1. e \in [1..0 -> Seq(S)] /\ \A i \in 1..0 : e[i] = IF i = 1 THEN ss[i] ELSE e[i - 1] \o ss[i]
      OBVIOUS
    <3> HIDE DEF e
    <3> QED BY <3>1
  <2>4. n # 0
    BY <2>2, <2>3
  <2>5. n - 1 \in 0..Len(ss) /\ ~(n <= n - 1) /\ n \in 1..Len(ss) /\ n \in Nat
    BY <1>1, <2>2, <2>4
  <2>6. Has(n - 1)
    BY <2>1, <2>5
  <2>7. PICK f : /\ f \in [1..(n - 1) -> Seq(S)]
                 /\ \A i \in 1..(n - 1) : f[i] = IF i = 1 THEN ss[i] ELSE f[i - 1] \o ss[i]
    BY <2>6
  <2> DEFINE last == IF n = 1 THEN ss[n] ELSE f[n - 1] \o ss[n]
             g == [i \in 1..n |-> IF i = n THEN last ELSE f[i]]
  <2>8. last \in Seq(S)
    <3>1. CASE n = 1
      BY <1>1, <2>5, <3>1
    <3>2. CASE n # 1
      <4>1. n - 1 \in 1..(n - 1)
        BY <2>5, <3>2
      <4>2. f[n - 1] \in Seq(S) /\ ss[n] \in Seq(S)
        BY <1>1, <2>5, <2>7, <4>1
      <4> QED BY <3>2, <4>2
    <3> QED BY <3>1, <3>2
  <2> HIDE DEF last
  <2>9. g \in [1..n -> Seq(S)]
    BY <2>5, <2>7, <2>8
  <2>10. ASSUME NEW i \in 1..n PROVE g[i] = IF i = 1 THEN ss[i] ELSE g[i - 1] \o ss[i]
    <3>1. CASE i = n
      <4>1. n # 1 => n - 1 \in 1..n /\ n - 1 # n
        BY <2>5
      <4> QED BY <3>1, <4>1 DEF last
    <3>2. CASE i # n
      <4>1. i \in 1..(n - 1) /\ (i # 1 => i - 1 \in 1..n /\ i - 1 # n)
        BY <2>5, <3>2
      <4> QED BY <2>7, <3>2, <4>1
    <3> QED BY <3>1, <3>2
  <2> HIDE DEF g
  <2>11. Has(n)
    BY <2>9, <2>10
  <2> QED BY <2>2, <2>11
<1>3. Has(Len(ss))
  <2>1. Len(ss) \in 0..Len(ss)
    BY <1>1
  <2> HIDE DEF Has
  <2> QED BY <1>2, <2>1
<1> QED BY <1>3 DEF Flattens

\* h is as FlattenSeq defines it.
Recurs(ss, h) == h = [i \in 1..Len(ss) |-> IF i = 1 THEN ss[i] ELSE h[i - 1] \o ss[i]]

\* It is the only one with its recursion.
LEMMA RecursUnique ==
  ASSUME NEW S, NEW ss \in Seq(S), NEW f, NEW g, Recurs(ss, f), Recurs(ss, g)
  PROVE  f = g
<1> DEFINE n == Len(ss)
<1>0. /\ f = [i \in 1..n |-> IF i = 1 THEN ss[i] ELSE f[i - 1] \o ss[i]]
      /\ g = [i \in 1..n |-> IF i = 1 THEN ss[i] ELSE g[i - 1] \o ss[i]]
      /\ n \in Nat
  <2>1. n \in Nat
    OBVIOUS
  <2>2. f = [i \in 1..n |-> IF i = 1 THEN ss[i] ELSE f[i - 1] \o ss[i]]
    BY Zenon DEF Recurs
  <2>3. g = [i \in 1..n |-> IF i = 1 THEN ss[i] ELSE g[i - 1] \o ss[i]]
    BY Zenon DEF Recurs
  <2> HIDE DEF n
  <2> QED BY <2>1, <2>2, <2>3, Zenon
<1> HIDE DEF n
<1> DEFINE T == {i \in 1..n : f[i] # g[i]}
<1>1. ASSUME T # {} PROVE FALSE
  <2>1. PICK i \in T : \A m \in T : i <= m
    <3>1. T \in SUBSET Nat
      BY <1>0
    <3> HIDE DEF T
    <3> QED BY <1>1, <3>1, LeastNatural
  <2>2. i \in 1..n /\ f[i] # g[i]
    BY <2>1
  <2>3. /\ f[i] = IF i = 1 THEN ss[i] ELSE f[i - 1] \o ss[i]
        /\ g[i] = IF i = 1 THEN ss[i] ELSE g[i - 1] \o ss[i]
    BY <1>0, <2>2, Zenon
  <2>4. i # 1
    BY <2>2, <2>3
  <2>5. i - 1 \in 1..n /\ ~(i <= i - 1)
    BY <1>0, <2>2, <2>4
  <2>6. f[i - 1] = g[i - 1]
    BY <2>1, <2>5
  <2> QED BY <2>2, <2>3, <2>4, <2>6
<1>2. \A i \in 1..n : f[i] = g[i]
  BY <1>1
<1>3. DOMAIN f = 1..n /\ DOMAIN g = 1..n /\ f = [i \in DOMAIN f |-> f[i]] /\ g = [i \in DOMAIN g |-> g[i]]
  BY <1>0
<1> QED BY <1>2, <1>3

\* FlattenSeq of a sequence that is not empty is the last of the concatenations.
LEMMA FlattenSeqDef ==
  ASSUME NEW S, NEW ss \in Seq(Seq(S)), ss # <<>>, NEW f, Flattens(S, ss, f)
  PROVE  FlattenSeq(ss) = f[Len(ss)]
<1>1. Len(ss) \in Nat \ {0} /\ Len(ss) # 0
  OBVIOUS
<1>2. Recurs(ss, f)
  BY DEF Flattens, Recurs
<1>3. \A h : Recurs(ss, h) => h = f
  BY <1>2, RecursUnique
<1>4. (CHOOSE h : Recurs(ss, h)) = f
  BY <1>2, <1>3
<1>5. FlattenSeq(ss) = (CHOOSE h : Recurs(ss, h))[Len(ss)]
  BY <1>1 DEF FlattenSeq, Recurs
<1> QED BY <1>4, <1>5

\* Nothing flattens to nothing.
LEMMA FlattenEmpty == FlattenSeq(<<>>) = <<>>
BY DEF FlattenSeq

\* The concatenation is a sequence of the elements; one more sequence comes last.
LEMMA FlattenAppend ==
  ASSUME NEW S, NEW ss \in Seq(Seq(S)), NEW x \in Seq(S)
  PROVE  /\ FlattenSeq(ss) \in Seq(S)
         /\ FlattenSeq(Append(ss, x)) = FlattenSeq(ss) \o x
<1> DEFINE tt == Append(ss, x)
           n == Len(ss)
<1>1. tt \in Seq(Seq(S)) /\ tt # <<>> /\ Len(tt) = n + 1 /\ n \in Nat
  <2>1. n \in Nat /\ tt \in Seq(Seq(S)) /\ Len(tt) = n + 1
    BY AppendProperties
  <2> QED BY <2>1, AppendProperties
<1>2. tt[n + 1] = x /\ \A i \in 1..n : tt[i] = ss[i]
  OBVIOUS
<1>3. PICK f : Flattens(S, tt, f)
  BY <1>1, FlattensExists
<1> HIDE DEF tt
<1>4. FlattenSeq(tt) = f[n + 1] /\ f \in [1..(n + 1) -> Seq(S)]
  BY <1>1, <1>3, FlattenSeqDef DEF Flattens
<1>5. CASE ss = <<>>
  <2>1. n = 0
    BY <1>5
  <2>2. f[1] = tt[1]
    BY <1>1, <1>3, <2>1 DEF Flattens
  <2>3. FlattenSeq(tt) = x
    BY <1>2, <1>4, <2>1, <2>2
  <2>4. FlattenSeq(ss) = <<>> /\ <<>> \o x = x
    BY <1>5, FlattenEmpty
  <2> QED BY <2>3, <2>4 DEF tt
<1>6. CASE ss # <<>>
  <2> DEFINE g == [i \in 1..n |-> f[i]]
  <2>1. n > 0
    BY <1>6
  <2>2. g \in [1..n -> Seq(S)]
    BY <1>1, <1>4
  <2>3. ASSUME NEW i \in 1..n PROVE g[i] = IF i = 1 THEN ss[i] ELSE g[i - 1] \o ss[i]
    <3>1. i \in 1..(n + 1) /\ (i # 1 => i - 1 \in 1..n)
      BY <1>1
    <3>2. f[i] = IF i = 1 THEN tt[i] ELSE f[i - 1] \o tt[i]
      BY <1>1, <1>3, <3>1 DEF Flattens
    <3> QED BY <1>2, <3>1, <3>2
  <2>4. Flattens(S, ss, g)
    <3> HIDE DEF g
    <3> QED BY <2>2, <2>3 DEF Flattens
  <2>5. FlattenSeq(ss) = g[n]
    BY <1>6, <2>4, FlattenSeqDef
  <2>6. g[n] = f[n] /\ f[n] \in Seq(S)
    BY <1>1, <1>4, <2>1
  <2>7. f[n + 1] = f[n] \o tt[n + 1]
    <3>1. n + 1 \in 1..(n + 1) /\ n + 1 # 1 /\ (n + 1) - 1 = n
      BY <1>1, <2>1
    <3>2. f[n + 1] = IF n + 1 = 1 THEN tt[n + 1] ELSE f[(n + 1) - 1] \o tt[n + 1]
      BY <1>1, <1>3, <3>1 DEF Flattens
    <3> QED BY <3>1, <3>2
  <2> QED BY <1>2, <1>4, <2>5, <2>6, <2>7 DEF tt
<1> QED BY <1>5, <1>6

\* The first sequence comes first.
LEMMA FlattenTail ==
  ASSUME NEW S, NEW ss \in Seq(Seq(S)), ss # <<>>
  PROVE  FlattenSeq(ss) = Head(ss) \o FlattenSeq(Tail(ss))
<1> DEFINE tt == Tail(ss)
           n == Len(ss)
<1>1. tt \in Seq(Seq(S)) /\ Len(tt) = n - 1 /\ n \in Nat \ {0} /\ Head(ss) = ss[1] /\ ss[1] \in Seq(S)
  OBVIOUS
<1>2. \A i \in 1..(n - 1) : tt[i] = ss[i + 1] /\ ss[i + 1] \in Seq(S)
  OBVIOUS
<1>3. PICK f : Flattens(S, ss, f)
  BY FlattensExists
<1>4. PICK g : Flattens(S, tt, g)
  BY <1>1, FlattensExists
<1> HIDE DEF tt, n
<1>5. FlattenSeq(ss) = f[n]
  BY <1>3, FlattenSeqDef DEF n
<1>6. /\ f \in [1..n -> Seq(S)] /\ g \in [1..(n - 1) -> Seq(S)]
      /\ \A i \in 1..n : f[i] = IF i = 1 THEN ss[i] ELSE f[i - 1] \o ss[i]
      /\ \A i \in 1..(n - 1) : g[i] = IF i = 1 THEN tt[i] ELSE g[i - 1] \o tt[i]
  BY <1>1, <1>3, <1>4 DEF Flattens, n
<1> DEFINE T == {i \in 1..(n - 1) : f[i + 1] # ss[1] \o g[i]}
<1>7. ASSUME T # {} PROVE FALSE
  <2>1. PICK i \in T : \A m \in T : i <= m
    <3>1. \A m \in 1..(n - 1) : m \in Nat
      BY <1>1
    <3>2. T \in SUBSET Nat
      BY <3>1
    <3> HIDE DEF T
    <3> QED BY <1>7, <3>2, LeastNatural
  <2>2. i \in 1..(n - 1) /\ f[i + 1] # ss[1] \o g[i]
    BY <2>1
  <2>3. /\ i + 1 \in 1..n /\ i + 1 # 1 /\ (i + 1) - 1 = i /\ i \in 1..n
        /\ i # 1 => i - 1 \in 1..(n - 1) /\ ~(i <= i - 1)
    BY <1>1, <2>2
  <2>4. f[i + 1] = f[i] \o ss[i + 1]
    BY <1>6, <2>3
  <2>5. CASE i = 1
    <3>1. f[i] = ss[1]
      BY <1>6, <2>3, <2>5
    <3>2. g[i] = tt[i] /\ tt[i] = ss[i + 1]
      BY <1>2, <1>6, <2>2, <2>5
    <3> QED BY <2>2, <2>4, <3>1, <3>2
  <2>6. CASE i # 1
    <3>1. i - 1 \in 1..(n - 1) /\ (i - 1) + 1 = i
      BY <2>3, <2>6
    <3>2. f[i] = ss[1] \o g[i - 1]
      BY <2>1, <2>3, <2>6, <3>1
    <3>3. g[i] = g[i - 1] \o ss[i + 1]
      BY <1>2, <1>6, <2>2, <2>6
    <3>4. g[i - 1] \in Seq(S) /\ ss[i + 1] \in Seq(S)
      BY <1>2, <1>6, <2>2, <3>1
    <3>5. (ss[1] \o g[i - 1]) \o ss[i + 1] = ss[1] \o (g[i - 1] \o ss[i + 1])
      <4>1. \A a, b, c \in Seq(S) : (a \o b) \o c = a \o (b \o c)
        BY ConcatAssociative, SMTT(30)
      <4>2. ss[1] \in Seq(S)
        BY <1>1
      <4> QED BY <3>4, <4>1, <4>2, Zenon
    <3> QED BY <2>2, <2>4, <3>2, <3>3, <3>5
  <2> QED BY <2>5, <2>6
<1>8. CASE n = 1
  <2>1. tt = <<>>
    BY <1>1, <1>8
  <2>2. f[1] = ss[1]
    BY <1>1, <1>6, <1>8
  <2>3. ss[1] \o <<>> = ss[1]
    BY <1>1
  <2> QED BY <1>1, <1>5, <1>8, <2>1, <2>2, <2>3, FlattenEmpty DEF tt
<1>9. CASE n # 1
  <2>1. n - 1 \in 1..(n - 1) /\ (n - 1) + 1 = n /\ tt # <<>>
    BY <1>1, <1>9
  <2>2. FlattenSeq(tt) = g[n - 1]
    BY <1>1, <1>4, <2>1, FlattenSeqDef
  <2>3. f[n] = ss[1] \o g[n - 1]
    BY <1>7, <2>1
  <2> QED BY <1>1, <1>5, <2>2, <2>3 DEF tt
<1> QED BY <1>8, <1>9

-----------------------------------------------------------------------------
(* A sequence in four parts.                                               *)

Joined(a, b, c, d) == a \o b \o c \o d

\* The whole stays as it is when the first of the second part goes to the first.
LEMMA JoinedFirst ==
  ASSUME NEW S, NEW a \in Seq(S), NEW b \in Seq(S), NEW c \in Seq(S), NEW d \in Seq(S), NEW x \in S
  PROVE  Joined(Append(a, x), b, c, d) = Joined(a, <<x>> \o b, c, d)
<1>1. Append(a, x) \o b = a \o (<<x>> \o b)
  BY AppendIsConcat, ConcatAssociative, SMTT(30)
<1> QED BY <1>1 DEF Joined

\* When the first of the third part makes a new second part.
LEMMA JoinedSecond ==
  ASSUME NEW S, NEW a \in Seq(S), NEW b \in Seq(S), NEW c \in Seq(S), NEW d \in Seq(S)
  PROVE  Joined(a, <<>>, b \o c, d) = Joined(a, b, c, d)
<1>1. a \o (b \o c) = (a \o b) \o c
  BY ConcatAssociative, SMTT(30)
<1>2. a \o <<>> = a
  BY ConcatEmptySeq
<1> QED BY <1>1, <1>2 DEF Joined

\* When the last part goes to the end of the third.
LEMMA JoinedThird ==
  ASSUME NEW S, NEW a \in Seq(S), NEW b \in Seq(S), NEW c \in Seq(S), NEW d \in Seq(S)
  PROVE  Joined(a, b, c \o d, <<>>) = Joined(a, b, c, d)
<1>1. a \o b \in Seq(S) /\ c \o d \in Seq(S)
  BY ConcatProperties
<1>2. (a \o b) \o (c \o d) = ((a \o b) \o c) \o d
  BY <1>1, ConcatAssociative, SMTT(30)
<1>3. (a \o b) \o (c \o d) \in Seq(S)
  BY <1>1, ConcatProperties
<1>4. ((a \o b) \o (c \o d)) \o <<>> = (a \o b) \o (c \o d)
  BY <1>3, ConcatEmptySeq
<1> QED BY <1>2, <1>4 DEF Joined

\* The numbers from 1 to m + n are those to m followed by the next n.
LEMMA NumbersConcat ==
  ASSUME NEW m \in Nat, NEW n \in Nat
  PROVE  [i \in 1..m |-> i] \o [i \in 1..n |-> m + i] = [i \in 1..(m + n) |-> i]
<1> DEFINE f == [i \in 1..m |-> i]
           g == [i \in 1..n |-> m + i]
           h == [i \in 1..(m + n) |-> i]
<1>1. f \in Seq(Nat) /\ Len(f) = m /\ \A i \in 1..m : f[i] = i
  <2>1. f \in [1..m -> Nat]
    OBVIOUS
  <2> QED BY <2>1
<1>2. g \in Seq(Nat) /\ Len(g) = n /\ \A i \in 1..n : g[i] = m + i
  <2>1. g \in [1..n -> Nat]
    OBVIOUS
  <2> QED BY <2>1
<1>3. h \in Seq(Nat) /\ Len(h) = m + n /\ \A i \in 1..(m + n) : h[i] = i
  <2>1. h \in [1..(m + n) -> Nat] /\ m + n \in Nat
    OBVIOUS
  <2> QED BY <2>1
<1> HIDE DEF f, g, h
<1>4. /\ f \o g \in Seq(Nat) /\ Len(f \o g) = m + n
      /\ \A i \in 1..(m + n) : (f \o g)[i] = IF i <= m THEN f[i] ELSE g[i - m]
  BY <1>1, <1>2, ConcatProperties
<1>5. ASSUME NEW i \in 1..(m + n) PROVE (f \o g)[i] = h[i]
  <2>1. CASE i <= m
    BY <1>1, <1>3, <1>4, <2>1
  <2>2. CASE ~(i <= m)
    <3>1. i - m \in 1..n /\ m + (i - m) = i
      BY <2>2
    <3> QED BY <1>2, <1>3, <1>4, <2>2, <3>1
  <2> QED BY <2>1, <2>2
<1>6. f \o g = h
  BY <1>3, <1>4, <1>5, SeqEqual
<1> QED BY <1>6 DEF f, g, h

-----------------------------------------------------------------------------
(* The elements of a concatenation.                                        *)

LEMMA ConcatElements ==
  ASSUME NEW S, NEW a \in Seq(S), NEW b \in Seq(S)
  PROVE  /\ a \o b \in Seq(S)
         /\ Range(a \o b) = Range(a) \cup Range(b)
         /\ IsInjective(a) /\ IsInjective(b) /\ Range(a) \cap Range(b) = {}
              => IsInjective(a \o b)
<1> DEFINE c == a \o b
<1>1. /\ c \in Seq(S) /\ Len(c) = Len(a) + Len(b)
      /\ \A i \in 1..Len(c) : c[i] = IF i <= Len(a) THEN a[i] ELSE b[i - Len(a)]
  BY ConcatProperties
<1>2. /\ Len(a) \in Nat /\ Len(b) \in Nat
      /\ DOMAIN a = 1..Len(a) /\ DOMAIN b = 1..Len(b) /\ DOMAIN c = 1..Len(c)
  BY <1>1, LenProperties
<1> HIDE DEF c
<1>3. \A i \in DOMAIN a : i \in DOMAIN c /\ c[i] = a[i]
  BY <1>1, <1>2
<1>4. \A i \in DOMAIN b : Len(a) + i \in DOMAIN c /\ c[Len(a) + i] = b[i]
  BY <1>1, <1>2
<1>5. \A i \in DOMAIN c : \/ i \in DOMAIN a /\ c[i] = a[i]
                          \/ i - Len(a) \in DOMAIN b /\ c[i] = b[i - Len(a)]
  BY <1>1, <1>2
<1>6. Range(c) = Range(a) \cup Range(b)
  BY <1>3, <1>4, <1>5 DEF Range
<1>7. ASSUME IsInjective(a), IsInjective(b), Range(a) \cap Range(b) = {},
             NEW i \in DOMAIN c, NEW j \in DOMAIN c, c[i] = c[j]
      PROVE  i = j
  <2>1. CASE i \in DOMAIN a /\ j \in DOMAIN a
    BY <1>3, <1>7, <2>1 DEF IsInjective
  <2>2. CASE i \notin DOMAIN a /\ j \notin DOMAIN a
    <3>1. i - Len(a) = j - Len(a)
      BY <1>5, <1>7, <2>2 DEF IsInjective
    <3> QED BY <1>2, <3>1
  <2>3. CASE i \in DOMAIN a /\ j \notin DOMAIN a
    BY <1>3, <1>5, <1>7, <2>3 DEF Range
  <2>4. CASE i \notin DOMAIN a /\ j \in DOMAIN a
    BY <1>3, <1>5, <1>7, <2>4 DEF Range
  <2> QED BY <2>1, <2>2, <2>3, <2>4
<1>8. IsInjective(a) /\ IsInjective(b) /\ Range(a) \cap Range(b) = {} => IsInjective(c)
  BY <1>7 DEF IsInjective
<1> QED BY <1>1, <1>6, <1>8 DEF c

\* A concatenation of n sequences has the elements of each of them, and has none
\* twice if no sequence and no two sequences have.
LEMMA FlattenElements ==
  ASSUME NEW S, NEW n \in Nat, NEW p \in [1..n -> Seq(S)]
  PROVE  /\ FlattenSeq(p) \in Seq(S)
         /\ \A x : x \in Range(FlattenSeq(p)) <=> \E i \in 1..n : x \in Range(p[i])
         /\ /\ \A i \in 1..n : IsInjective(p[i])
            /\ \A i, j \in 1..n : i # j => Range(p[i]) \cap Range(p[j]) = {}
            => IsInjective(FlattenSeq(p))
<1> DEFINE First(k) == [i \in 1..k |-> p[i]]
           Good(k, s) ==
             /\ s \in Seq(S)
             /\ \A x : x \in Range(s) <=> \E i \in 1..k : x \in Range(p[i])
             /\ /\ \A i \in 1..n : IsInjective(p[i])
                /\ \A i, j \in 1..n : i # j => Range(p[i]) \cap Range(p[j]) = {}
                => IsInjective(s)
           T == {k \in 0..n : ~Good(k, FlattenSeq(First(k)))}
<1>1. \A k \in 0..n : First(k) \in Seq(Seq(S)) /\ Len(First(k)) = k
  <2>1. \A k \in 0..n : k \in Nat /\ First(k) \in [1..k -> Seq(S)]
    OBVIOUS
  <2> HIDE DEF First
  <2> QED BY <2>1
<1>2. ASSUME T # {} PROVE FALSE
  <2>1. PICK k \in T : \A m \in T : k <= m
    <3>1. T \in SUBSET Nat
      OBVIOUS
    <3> HIDE DEF T
    <3> QED BY <1>2, <3>1, LeastNatural
  <2>2. k \in 0..n /\ ~Good(k, FlattenSeq(First(k)))
    BY <2>1
  <2>3. k # 0
    <3>1. First(0) = <<>>
      OBVIOUS
    <3>2. FlattenSeq(First(0)) = <<>>
      <4> HIDE DEF First
      <4> QED BY <3>1, FlattenEmpty
    <3>3. Good(0, <<>>)
      <4>1. <<>> \in Seq(S) /\ DOMAIN <<>> = {} /\ 1..0 = {}
        OBVIOUS
      <4> QED BY <4>1 DEF Range, IsInjective
    <3> HIDE DEF First, Good
    <3> QED BY <2>2, <3>2, <3>3
  <2> DEFINE l == k - 1
             s == FlattenSeq(First(l))
  <2>4. l \in 0..n /\ ~(k <= l) /\ l + 1 = k /\ k \in 1..n
    BY <2>2, <2>3
  <2>5. Good(l, s)
    <3> HIDE DEF Good, s, l
    <3> QED BY <2>1, <2>4 DEF s
  <2>6. First(k) = Append(First(l), p[k])
    <3> DEFINE a == First(l)
               b == First(k)
    <3>1. /\ a \in Seq(Seq(S)) /\ Len(a) = l /\ b \in Seq(Seq(S)) /\ Len(b) = k
          /\ p[k] \in Seq(S)
      BY <1>1, <2>4
    <3>2. \A i \in 1..l : a[i] = p[i]
      OBVIOUS
    <3>3. \A i \in 1..k : b[i] = p[i]
      OBVIOUS
    <3> HIDE DEF a, b, l
    <3>4. /\ Append(a, p[k]) \in Seq(Seq(S)) /\ Len(Append(a, p[k])) = k
          /\ \A i \in 1..l : Append(a, p[k])[i] = a[i]
          /\ Append(a, p[k])[k] = p[k]
      BY <2>4, <3>1, AppendProperties
    <3>5. \A i \in 1..k : Append(a, p[k])[i] = b[i]
      BY <2>4, <3>2, <3>3, <3>4
    <3>6. Append(a, p[k]) = b
      BY <3>1, <3>4, <3>5, SeqEqual
    <3> QED BY <3>6 DEF a, b
  <2>7. First(l) \in Seq(Seq(S)) /\ p[k] \in Seq(S)
    BY <1>1, <2>4
  <2>8. FlattenSeq(First(k)) = s \o p[k] /\ s \in Seq(S)
    <3> HIDE DEF First, l
    <3> QED BY <2>6, <2>7, FlattenAppend
  <2> HIDE DEF s, First
  <2>9. /\ s \o p[k] \in Seq(S)
        /\ Range(s \o p[k]) = Range(s) \cup Range(p[k])
        /\ IsInjective(s) /\ IsInjective(p[k]) /\ Range(s) \cap Range(p[k]) = {}
             => IsInjective(s \o p[k])
    BY <2>7, <2>8, ConcatElements
  <2>10. \A i \in 1..k : i = k \/ i \in 1..l
    BY <2>4
  <2>11. \A i \in 1..l : i \in 1..k /\ i \in 1..n /\ i # k
    BY <2>4
  <2>12. Good(k, s \o p[k])
    <3> DEFINE t == s \o p[k]
    <3> HIDE DEF t, l
    <3>1. \A x : x \in Range(t) <=> \E i \in 1..k : x \in Range(p[i])
      <4>1. \A x : x \in Range(s) <=> \E i \in 1..l : x \in Range(p[i])
        BY <2>5
      <4>2. \A x : x \in Range(t) <=> x \in Range(s) \/ x \in Range(p[k])
        BY <2>9 DEF t
      <4> HIDE DEF Good
      <4> QED BY <2>4, <2>10, <2>11, <4>1, <4>2
    <3>2. ASSUME /\ \A i \in 1..n : IsInjective(p[i])
                 /\ \A i, j \in 1..n : i # j => Range(p[i]) \cap Range(p[j]) = {}
          PROVE  IsInjective(t)
      <4>1. IsInjective(s) /\ IsInjective(p[k])
        BY <2>4, <2>5, <3>2
      <4>2. Range(s) \cap Range(p[k]) = {}
        BY <2>4, <2>5, <2>11, <3>2
      <4> QED BY <2>9, <4>1, <4>2 DEF t
    <3> QED BY <2>9, <3>1, <3>2 DEF t
  <2> HIDE DEF Good
  <2> QED BY <2>2, <2>8, <2>12
<1>3. Good(n, FlattenSeq(First(n)))
  <2>1. n \in 0..n
    OBVIOUS
  <2> HIDE DEF Good, First
  <2> QED BY <1>2, <2>1
<1>4. First(n) = p
  OBVIOUS
<1> QED BY <1>3, <1>4

-----------------------------------------------------------------------------
(* Taking sequences apart from the front.                                  *)

\* The first of the sequences that are concatenated comes first.
LEMMA FlattenFirst ==
  ASSUME NEW S, NEW n \in Nat \ {0}, NEW p \in [1..n -> Seq(S)],
         NEW rest \in [1..n - 1 -> Seq(S)], \A i \in 1..n - 1 : rest[i] = p[i + 1]
  PROVE  FlattenSeq(p) = p[1] \o FlattenSeq(rest)
<1> DEFINE T == Seq(S)
<1>1. p \in Seq(T) /\ Len(p) = n
  <2> HIDE DEF T
  <2>1. p \in [1..n -> T]
    BY DEF T
  <2> QED BY <2>1
<1>2. p # <<>> /\ Head(p) = p[1]
  <2> HIDE DEF T
  <2> QED BY <1>1
<1>3. rest \in [1..n - 1 -> T] /\ n - 1 \in Nat
  OBVIOUS
<1>4. rest \in Seq(T) /\ Len(rest) = n - 1 /\ \A i \in 1..n - 1 : rest[i] = p[i + 1]
  <2> HIDE DEF T
  <2> QED BY <1>3
<1>5. Tail(p) \in Seq(T) /\ Len(Tail(p)) = n - 1 /\ \A i \in 1..n - 1 : Tail(p)[i] = p[i + 1]
  <2> HIDE DEF T
  <2> QED BY <1>1, <1>2, HeadTailProperties
<1>6. Tail(p) = rest
  <2> HIDE DEF T
  <2> QED BY <1>4, <1>5, SeqEqual
<1>7. FlattenSeq(p) = Head(p) \o FlattenSeq(Tail(p))
  BY <1>1, <1>2, FlattenTail
<1> QED BY <1>2, <1>6, <1>7

\* What is left of a concatenation when a part of its first sequence is gone.
LEMMA SuffixOfConcat ==
  ASSUME NEW S, NEW a \in Seq(S), NEW b \in Seq(S), NEW k \in 0..Len(a)
  PROVE  /\ SubSeq(a \o b, k + 1, Len(a \o b)) = SubSeq(a, k + 1, Len(a)) \o b
         /\ SubSeq(a, k + 1, Len(a)) \in Seq(S)
         /\ Len(SubSeq(a, k + 1, Len(a))) = Len(a) - k
         /\ \A i \in 1..Len(a) - k : SubSeq(a, k + 1, Len(a))[i] = a[k + i]
<1> DEFINE c == a \o b
           s == SubSeq(c, k + 1, Len(c))
           f == SubSeq(a, k + 1, Len(a))
<1>1. /\ c \in Seq(S) /\ Len(c) = Len(a) + Len(b)
      /\ \A i \in 1..Len(c) : c[i] = IF i <= Len(a) THEN a[i] ELSE b[i - Len(a)]
  BY ConcatProperties
<1>2. Len(a) \in Nat /\ Len(b) \in Nat
  OBVIOUS
<1> HIDE DEF c
<1>3. \A i \in k + 1..Len(c) : c[i] \in S
  BY <1>1, <1>2
<1>4. /\ s \in Seq(S) /\ Len(s) = Len(c) - k
      /\ \A i \in 1..Len(c) - k : s[i] = c[k + i]
  <2>1. /\ s \in Seq(S)
        /\ Len(s) = IF k + 1 <= Len(c) THEN Len(c) - (k + 1) + 1 ELSE 0
        /\ \A i \in 1..Len(c) - (k + 1) + 1 : s[i] = c[k + 1 + i - 1]
    BY <1>1, <1>2, <1>3, SubSeqProperties
  <2> HIDE DEF s
  <2> QED BY <1>1, <1>2, <2>1
<1>5. /\ f \in Seq(S) /\ Len(f) = Len(a) - k
      /\ \A i \in 1..Len(a) - k : f[i] = a[k + i]
  <2>1. \A i \in k + 1..Len(a) : a[i] \in S
    BY <1>2
  <2>2. /\ f \in Seq(S)
        /\ Len(f) = IF k + 1 <= Len(a) THEN Len(a) - (k + 1) + 1 ELSE 0
        /\ \A i \in 1..Len(a) - (k + 1) + 1 : f[i] = a[k + 1 + i - 1]
    BY <1>2, <2>1, SubSeqProperties
  <2>3. k \in Nat /\ k <= Len(a)
    BY <1>2
  <2> HIDE DEF f, s
  <2>4. Len(a) - (k + 1) + 1 = Len(a) - k /\ Len(f) = Len(a) - k
    BY <1>2, <2>2, <2>3
  <2>5. \A i \in 1..Len(a) - k : f[i] = a[k + i]
    <3> TAKE i \in 1..Len(a) - k
    <3>1. k + 1 + i - 1 = k + i
      BY <1>2, <2>3
    <3> QED BY <2>2, <2>4, <3>1
  <2> QED BY <2>2, <2>4, <2>5
<1> HIDE DEF s, f
<1>6. /\ f \o b \in Seq(S) /\ Len(f \o b) = Len(f) + Len(b)
      /\ \A i \in 1..Len(f) + Len(b) : (f \o b)[i] = IF i <= Len(f) THEN f[i] ELSE b[i - Len(f)]
  BY <1>5, ConcatProperties
<1>7. Len(s) = Len(f \o b)
  BY <1>1, <1>2, <1>4, <1>5, <1>6
<1>8. ASSUME NEW i \in 1..Len(s)
      PROVE  s[i] = (f \o b)[i]
  <2>1. s[i] = c[k + i] /\ k + i \in 1..Len(c)
    BY <1>1, <1>2, <1>4
  <2>2. CASE i <= Len(f)
    <3>1. k + i <= Len(a) /\ c[k + i] = a[k + i]
      BY <1>1, <1>2, <1>5, <2>1, <2>2
    <3>2. (f \o b)[i] = f[i] /\ f[i] = a[k + i]
      BY <1>2, <1>4, <1>5, <1>6, <1>7, <2>2
    <3> QED BY <2>1, <3>1, <3>2
  <2>3. CASE ~(i <= Len(f))
    <3>1. ~(k + i <= Len(a)) /\ c[k + i] = b[k + i - Len(a)]
      BY <1>1, <1>2, <1>5, <2>1, <2>3
    <3>2. (f \o b)[i] = b[i - Len(f)] /\ i - Len(f) = k + i - Len(a)
      <4>1. i \in 1..Len(f) + Len(b)
        BY <1>6, <1>7
      <4>2. (f \o b)[i] = b[i - Len(f)]
        BY <1>6, <2>3, <4>1
      <4>3. i - Len(f) = k + i - Len(a)
        BY <1>2, <1>4, <1>5
      <4> QED BY <4>2, <4>3
    <3> QED BY <2>1, <3>1, <3>2
  <2> QED BY <2>2, <2>3
<1>9. s = f \o b
  BY <1>4, <1>6, <1>7, <1>8, SeqEqual
<1> QED BY <1>5, <1>9 DEF s, f, c

\* Where the first sequence has one element, the second is the tail of the concatenation.
LEMMA TailOfConcat ==
  ASSUME NEW S, NEW a \in Seq(S), NEW b \in Seq(S), Len(a) = 1
  PROVE  Tail(a \o b) = b
<1> DEFINE c == a \o b
<1>1. /\ c \in Seq(S) /\ Len(c) = Len(b) + 1 /\ Len(b) \in Nat
      /\ \A i \in 1..Len(b) : i + 1 \in 1..Len(c) /\ c[i + 1] = b[i]
  <2>1. /\ c \in Seq(S) /\ Len(c) = 1 + Len(b)
        /\ \A i \in 1..Len(c) : c[i] = IF i <= 1 THEN a[i] ELSE b[i - 1]
    <3>1. /\ c \in Seq(S) /\ Len(c) = Len(a) + Len(b)
          /\ \A i \in 1..Len(a) + Len(b) : c[i] = IF i <= Len(a) THEN a[i] ELSE b[i - Len(a)]
      BY ConcatProperties
    <3> HIDE DEF c
    <3> QED BY <3>1
  <2>2. Len(b) \in Nat
    OBVIOUS
  <2> HIDE DEF c
  <2>3. ASSUME NEW i \in 1..Len(b) PROVE i + 1 \in 1..Len(c) /\ c[i + 1] = b[i]
    <3>1. i + 1 \in 1..Len(c) /\ ~(i + 1 <= 1) /\ (i + 1) - 1 = i
      BY <2>1, <2>2
    <3> QED BY <2>1, <3>1
  <2> QED BY <2>1, <2>2, <2>3
<1> HIDE DEF c
<1>2. c # <<>>
  BY <1>1
<1>3. Tail(c) \in Seq(S) /\ Len(Tail(c)) = Len(c) - 1 /\ \A i \in 1..Len(c) - 1 : Tail(c)[i] = c[i + 1]
  BY <1>1, <1>2, HeadTailProperties
<1>4. Len(Tail(c)) = Len(b) /\ \A i \in 1..Len(b) : Tail(c)[i] = b[i]
  BY <1>1, <1>3
<1>5. Tail(c) = b
  BY <1>3, <1>4, SeqEqual
<1> QED BY <1>5 DEF c

-----------------------------------------------------------------------------
(* Where the sequences lie that are concatenated.                          *)

\* The last of the sequences that are concatenated comes last.
LEMMA FlattenLast ==
  ASSUME NEW S, NEW n \in Nat \ {0}, NEW p \in [1..n -> Seq(S)]
  PROVE  /\ [i \in 1..n - 1 |-> p[i]] \in [1..n - 1 -> Seq(S)]
         /\ FlattenSeq([i \in 1..n - 1 |-> p[i]]) \in Seq(S)
         /\ FlattenSeq(p) = FlattenSeq([i \in 1..n - 1 |-> p[i]]) \o p[n]
<1> DEFINE q == [i \in 1..n - 1 |-> p[i]]
<1>1. q \in [1..n - 1 -> Seq(S)] /\ n - 1 \in Nat /\ p[n] \in Seq(S)
  OBVIOUS
<1>2. q \in Seq(Seq(S)) /\ Len(q) = n - 1 /\ p \in Seq(Seq(S)) /\ Len(p) = n
  <2> HIDE DEF q
  <2> QED BY <1>1
<1>3. \A i \in 1..n - 1 : q[i] = p[i]
  OBVIOUS
<1> HIDE DEF q
<1>4. Append(q, p[n]) = p
  <2>1. /\ Append(q, p[n]) \in Seq(Seq(S)) /\ Len(Append(q, p[n])) = n
        /\ \A i \in 1..n - 1 : Append(q, p[n])[i] = q[i]
        /\ Append(q, p[n])[n] = p[n]
    BY <1>1, <1>2, AppendProperties
  <2>2. \A i \in 1..n : Append(q, p[n])[i] = p[i]
    BY <1>3, <2>1
  <2> QED BY <1>2, <2>1, <2>2, SeqEqual
<1>5. FlattenSeq(q) \in Seq(S) /\ FlattenSeq(Append(q, p[n])) = FlattenSeq(q) \o p[n]
  BY <1>1, <1>2, FlattenAppend
<1> QED BY <1>1, <1>4, <1>5 DEF q

\* Sequence e lies in t behind the first m, and all else in t is from the sequences of R.
Around(t, e, m, R) ==
  /\ \A i \in DOMAIN e : m + i \in DOMAIN t /\ t[m + i] = e[i]
  /\ \A x \in DOMAIN t : \/ \E i \in DOMAIN e : x = m + i
                         \/ \E r \in R : t[x] \in Range(r)

LEMMA AroundAppended ==
  ASSUME NEW S, NEW t \in Seq(S), NEW e \in Seq(S), NEW m \in Nat, NEW R, NEW u \in Seq(S), Around(t, e, m, R)
  PROVE  Around(t \o u, e, m, R \cup {u})
<1> DEFINE c == t \o u
<1>1. /\ \A i \in DOMAIN t : i \in DOMAIN c /\ c[i] = t[i]
      /\ \A i \in DOMAIN c : i \in DOMAIN t \/ (i - Len(t) \in DOMAIN u /\ c[i] = u[i - Len(t)])
  OBVIOUS
<1> HIDE DEF c
<1>2. \A i \in DOMAIN e : m + i \in DOMAIN c /\ c[m + i] = e[i]
  BY <1>1 DEF Around
<1>3. ASSUME NEW x \in DOMAIN c
      PROVE  (\E i \in DOMAIN e : x = m + i) \/ \E r \in R \cup {u} : c[x] \in Range(r)
  <2>1. CASE x \in DOMAIN t
    BY <1>1, <2>1 DEF Around
  <2>2. CASE x \notin DOMAIN t
    BY <1>1, <1>3, <2>2 DEF Range
  <2> QED BY <2>1, <2>2
<1> QED BY <1>2, <1>3 DEF Around, c

LEMMA AroundLast ==
  ASSUME NEW S, NEW t \in Seq(S), NEW e \in Seq(S), NEW R, \A x \in Range(t) : \E r \in R : x \in Range(r)
  PROVE  Around(t \o e, e, Len(t), R)
<1> DEFINE c == t \o e
           m == Len(t)
<1>1. /\ m \in Nat
      /\ \A i \in DOMAIN t : c[i] = t[i]
      /\ \A i \in DOMAIN c : i \in DOMAIN t \/ (i - m \in DOMAIN e /\ i = m + (i - m))
      /\ \A i \in DOMAIN e : m + i \in DOMAIN c /\ c[m + i] = e[i]
  OBVIOUS
<1> HIDE DEF c, m
<1>2. \A x \in DOMAIN c : (\E i \in DOMAIN e : x = m + i) \/ \E r \in R : c[x] \in Range(r)
  BY <1>1 DEF Range
<1> QED BY <1>1, <1>2 DEF Around, c, m

\* The first n sequences of p but number j.
Beside(p, n, j) == {p[k] : k \in 1..n \ {j}}

\* Each of the sequences that are concatenated lies in one piece between the others.
LEMMA FlattenAround ==
  ASSUME NEW S, NEW n \in Nat, NEW p \in [1..n -> Seq(S)], NEW j \in 1..n
  PROVE  \E m \in Nat : Around(FlattenSeq(p), p[j], m, Beside(p, n, j))
<1> DEFINE Others(p1, n1, j1) == {p1[k] : k \in 1..n1 \ {j1}}
           Good(n1) == \A p1 \in [1..n1 -> Seq(S)] : \A j1 \in 1..n1 :
                         \E m \in Nat : Around(FlattenSeq(p1), p1[j1], m, Others(p1, n1, j1))
           T == {n1 \in Nat : ~Good(n1)}
<1>1. ASSUME T # {} PROVE FALSE
  <2>1. PICK n1 \in T : \A m \in T : n1 <= m
    <3>1. T \in SUBSET Nat
      OBVIOUS
    <3> HIDE DEF T
    <3> QED BY <1>1, <3>1, LeastNatural
  <2>2. n1 \in Nat /\ ~Good(n1)
    BY <2>1
  <2>3. PICK p1 \in [1..n1 -> Seq(S)], j1 \in 1..n1 :
          ~\E m \in Nat : Around(FlattenSeq(p1), p1[j1], m, Others(p1, n1, j1))
    BY <2>2
  <2>4. n1 \in Nat \ {0} /\ n1 - 1 \in Nat /\ ~(n1 <= n1 - 1)
    BY <2>2, <2>3
  <2>5. Good(n1 - 1)
    <3> HIDE DEF Good
    <3> QED BY <2>1, <2>4
  <2> DEFINE q == [i \in 1..n1 - 1 |-> p1[i]]
             s == FlattenSeq(q)
             u == p1[n1]
  <2>6. q \in [1..n1 - 1 -> Seq(S)] /\ s \in Seq(S) /\ FlattenSeq(p1) = s \o u /\ u \in Seq(S)
    <3>1. u \in Seq(S)
      BY <2>4
    <3> QED BY <2>4, <3>1, FlattenLast
  <2>7. \A i \in 1..n1 - 1 : q[i] = p1[i] /\ i \in 1..n1 /\ i # n1
    BY <2>2
  <2> HIDE DEF q, s, u
  <2>8. CASE j1 = n1
    <3>1. \A x \in Range(s) : \E r \in Others(p1, n1, j1) : x \in Range(r)
      <4>1. \A x \in Range(s) : \E i \in 1..n1 - 1 : x \in Range(q[i])
        BY <2>4, <2>6, FlattenElements DEF s
      <4> QED BY <2>7, <2>8, <4>1
    <3> HIDE DEF Others
    <3>2. Around(s \o u, u, Len(s), Others(p1, n1, j1))
      BY <2>6, <3>1, AroundLast
    <3> QED BY <2>3, <2>6, <2>8, <3>2 DEF u
  <2>9. CASE j1 # n1
    <3>1. j1 \in 1..n1 - 1
      BY <2>2, <2>9
    <3>2. PICK m \in Nat : Around(s, q[j1], m, Others(q, n1 - 1, j1))
      BY <2>5, <2>6, <3>1 DEF s
    <3>3. q[j1] \in Seq(S) /\ q[j1] = p1[j1]
      BY <2>6, <2>7, <3>1
    <3>4. Others(q, n1 - 1, j1) \cup {u} = Others(p1, n1, j1)
      <4>1. \A k \in 1..n1 : k = n1 \/ k \in 1..n1 - 1
        BY <2>2
      <4>2. \A r \in Others(q, n1 - 1, j1) \cup {u} : r \in Others(p1, n1, j1)
        <5>1. n1 \in 1..n1 \ {j1}
          BY <2>4, <2>9
        <5>2. \A k \in 1..n1 - 1 \ {j1} : q[k] = p1[k] /\ k \in 1..n1 \ {j1}
          BY <2>7
        <5> QED BY <5>1, <5>2 DEF u
      <4>3. \A r \in Others(p1, n1, j1) : r \in Others(q, n1 - 1, j1) \cup {u}
        <5>1. \A k \in 1..n1 \ {j1} : k = n1 \/ (k \in 1..n1 - 1 \ {j1} /\ q[k] = p1[k])
          BY <2>7, <4>1
        <5> QED BY <5>1 DEF u
      <4> QED BY <4>2, <4>3
    <3> HIDE DEF Others
    <3>5. Around(s \o u, q[j1], m, Others(q, n1 - 1, j1) \cup {u})
      BY <2>6, <3>2, <3>3, AroundAppended
    <3> QED BY <2>3, <2>6, <3>3, <3>4, <3>5
  <2> QED BY <2>8, <2>9
<1>2. Good(n)
  <2> HIDE DEF Good
  <2> QED BY <1>1
<1> QED BY <1>2 DEF Beside
-----------------------------------------------------------------------------
(* SumFunctionOnSet, the sum of a function over a finite set.              *)

\* it holds the sums of f over the subsets of S, as the library computes them.
Sums(f, S, it) ==
  it = [s \in SUBSET S |-> IF s = {} THEN 0
                           ELSE LET x == CHOOSE x \in s : TRUE IN f[x] + it[s \ {x}]]

\* A family of finite sets that is not empty has a smallest member.
LEMMA SmallestSet ==
  ASSUME NEW F, F # {}, \A s \in F : IsFiniteSet(s)
  PROVE  \E s \in F : \A t \in F : Cardinality(s) <= Cardinality(t)
<1> DEFINE N == {Cardinality(s) : s \in F}
<1>1. N \in SUBSET Nat /\ N # {}
  BY FS_CardinalityType
<1>2. PICK n \in N : \A m \in N : n <= m
  <2> HIDE DEF N
  <2> QED BY <1>1, LeastNatural
<1>3. PICK s \in F : n = Cardinality(s)
  OBVIOUS
<1>4. \A t \in F : Cardinality(t) \in N
  OBVIOUS
<1> HIDE DEF N
<1> QED BY <1>2, <1>3, <1>4

\* Without one of its elements a finite set is smaller.
LEMMA SmallerSet ==
  ASSUME NEW s, IsFiniteSet(s), NEW x \in s
  PROVE  /\ IsFiniteSet(s \ {x}) /\ Cardinality(s \ {x}) \in Nat /\ Cardinality(s) \in Nat
         /\ Cardinality(s) = Cardinality(s \ {x}) + 1
         /\ ~(Cardinality(s) <= Cardinality(s \ {x}))
<1>1. IsFiniteSet(s \ {x}) /\ Cardinality(s \ {x}) = Cardinality(s) - 1
  BY FS_RemoveElement
<1>2. Cardinality(s \ {x}) \in Nat /\ Cardinality(s) \in Nat
  BY <1>1, FS_CardinalityType
<1> QED BY <1>1, <1>2

LEMMA SumsStep ==
  ASSUME NEW f, NEW S, NEW it, Sums(f, S, it), NEW s \in SUBSET S
  PROVE  /\ s = {} => it[s] = 0
         /\ s # {} => LET x == CHOOSE x \in s : TRUE IN x \in s /\ it[s] = f[x] + it[s \ {x}]
<1> DEFINE step(h, u) == IF u = {} THEN 0 ELSE LET x == CHOOSE x \in u : TRUE IN f[x] + h[u \ {x}]
<1>1. it = [u \in SUBSET S |-> step(it, u)]
  BY Zenon DEF Sums
<1>2. it[s] = step(it, s)
  <2> HIDE DEF step
  <2> QED BY <1>1, Zenon
<1>3. s # {} => (CHOOSE x \in s : TRUE) \in s
  OBVIOUS
<1> QED BY <1>2, <1>3

\* The sums over a set depend on the values on that set only.
LEMMA SumsAgree ==
  ASSUME NEW f, NEW S, NEW a, Sums(f, S, a), NEW g, NEW T, NEW b, Sums(g, T, b),
         NEW U \in SUBSET S, U \subseteq T, IsFiniteSet(U), \A x \in U : f[x] = g[x]
  PROVE  a[U] = b[U]
<1> DEFINE F == {s \in SUBSET U : a[s] # b[s]}
<1>1. ASSUME F # {} PROVE FALSE
  <2>1. PICK s \in F : \A t \in F : Cardinality(s) <= Cardinality(t)
    <3>1. \A t \in F : IsFiniteSet(t)
      BY FS_Subset
    <3> HIDE DEF F
    <3> QED BY <1>1, <3>1, SmallestSet
  <2>2. s \in SUBSET S /\ s \in SUBSET T /\ IsFiniteSet(s) /\ a[s] # b[s]
    BY <2>1, FS_Subset
  <2>3. s # {}
    BY <2>2, SumsStep
  <2> DEFINE x == CHOOSE x \in s : TRUE
  <2>4. x \in s /\ a[s] = f[x] + a[s \ {x}] /\ b[s] = g[x] + b[s \ {x}]
    BY <2>2, <2>3, SumsStep
  <2> HIDE DEF x
  <2>5. a[s \ {x}] = b[s \ {x}]
    BY <2>1, <2>2, <2>4, SmallerSet
  <2> QED BY <2>1, <2>2, <2>4, <2>5
<1> QED BY <1>1

LEMMA SumsExist ==
  ASSUME NEW S, IsFiniteSet(S), NEW f, \A x \in S : f[x] \in Nat
  PROVE  \E it \in [SUBSET S -> Nat] : Sums(f, S, it)
<1> DEFINE Upto(n) == {s \in SUBSET S : Cardinality(s) <= n}
           step(h, u) == IF u = {} THEN 0 ELSE LET x == CHOOSE x \in u : TRUE IN f[x] + h[u \ {x}]
           Has(n) == \E h \in [Upto(n) -> Nat] : \A s \in Upto(n) : h[s] = step(h, s)
           N == Cardinality(S)
           Bad == {n \in Nat : ~Has(n)}
<1>1. \A s \in SUBSET S : IsFiniteSet(s) /\ Cardinality(s) \in Nat /\ Cardinality(s) <= N
  BY FS_Subset, FS_CardinalityType
<1>2. N \in Nat
  BY FS_CardinalityType
<1>3. ASSUME Bad # {} PROVE FALSE
  <2>1. PICK n \in Bad : \A m \in Bad : n <= m
    <3>1. Bad \in SUBSET Nat
      OBVIOUS
    <3> HIDE DEF Bad
    <3> QED BY <1>3, <3>1, LeastNatural
  <2>2. n \in Nat /\ ~Has(n)
    BY <2>1
  <2>3. Has(0)
    <3> DEFINE h == [s \in Upto(0) |-> 0]
    <3>1. \A s \in Upto(0) : s = {}
      BY <1>1, FS_EmptySet
    <3>2. h \in [Upto(0) -> Nat] /\ \A s \in Upto(0) : h[s] = step(h, s)
      BY <3>1
    <3> QED BY <3>2
  <2>4. n # 0
    <3> HIDE DEF Has
    <3> QED BY <2>2, <2>3
  <2>5. n - 1 \in Nat /\ ~(n <= n - 1)
    BY <2>2, <2>4
  <2>6. Has(n - 1)
    <3> HIDE DEF Has
    <3> QED BY <2>1, <2>5
  <2>7. PICK h \in [Upto(n - 1) -> Nat] : \A s \in Upto(n - 1) : h[s] = step(h, s)
    BY <2>6
  <2> DEFINE k == [s \in Upto(n) |-> step(h, s)]
  <2>8. \A s \in Upto(n) : s # {} => LET x == CHOOSE x \in s : TRUE IN x \in s /\ s \ {x} \in Upto(n - 1)
    <3> SUFFICES ASSUME NEW s \in Upto(n), s # {}
                 PROVE  LET x == CHOOSE x \in s : TRUE IN x \in s /\ s \ {x} \in Upto(n - 1)
      OBVIOUS
    <3> DEFINE x == CHOOSE x \in s : TRUE
    <3>1. x \in s /\ s \in SUBSET S /\ Cardinality(s) <= n
      OBVIOUS
    <3> HIDE DEF x
    <3>2. Cardinality(s \ {x}) \in Nat /\ Cardinality(s) \in Nat /\ Cardinality(s) = Cardinality(s \ {x}) + 1
      BY <1>1, <3>1, SmallerSet
    <3>3. Cardinality(s \ {x}) <= n - 1
      BY <2>2, <3>1, <3>2
    <3> QED BY <3>1, <3>3 DEF x
  <2>9. k \in [Upto(n) -> Nat]
    <3> SUFFICES ASSUME NEW s \in Upto(n) PROVE step(h, s) \in Nat
      OBVIOUS
    <3>1. CASE s = {}
      BY <3>1
    <3>2. CASE s # {}
      <4> DEFINE x == CHOOSE x \in s : TRUE
      <4>1. x \in s /\ s \ {x} \in Upto(n - 1) /\ x \in S
        BY <2>8, <3>2
      <4>2. step(h, s) = f[x] + h[s \ {x}]
        BY <3>2
      <4> HIDE DEF x, step, Upto
      <4>3. f[x] \in Nat /\ h[s \ {x}] \in Nat
        BY <2>7, <4>1
      <4> QED BY <4>2, <4>3
    <3> QED BY <3>1, <3>2
  <2>10. \A s \in Upto(n - 1) : s \in Upto(n) /\ k[s] = h[s]
    <3>1. \A s \in Upto(n - 1) : s \in Upto(n)
      BY <1>1, <2>2
    <3> HIDE DEF Upto, step
    <3> QED BY <2>7, <3>1
  <2>11. \A s \in Upto(n) : k[s] = step(k, s)
    <3> SUFFICES ASSUME NEW s \in Upto(n) PROVE step(h, s) = step(k, s)
      OBVIOUS
    <3>1. CASE s = {}
      BY <3>1
    <3>2. CASE s # {}
      <4> DEFINE x == CHOOSE x \in s : TRUE
      <4>1. s \ {x} \in Upto(n - 1)
        BY <2>8, <3>2
      <4>2. step(h, s) = f[x] + h[s \ {x}] /\ step(k, s) = f[x] + k[s \ {x}]
        BY <3>2
      <4> HIDE DEF x, step, Upto, k
      <4> QED BY <2>10, <4>1, <4>2
    <3> QED BY <3>1, <3>2
  <2>12. Has(n)
    <3> HIDE DEF k, step, Upto
    <3> QED BY <2>9, <2>11
  <2> QED BY <2>2, <2>12
<1>4. Has(N)
  <2> HIDE DEF Has, N
  <2> QED BY <1>2, <1>3
<1>5. Upto(N) = SUBSET S
  BY <1>1
<1>6. PICK h \in [Upto(N) -> Nat] : \A s \in Upto(N) : h[s] = step(h, s)
  BY <1>4
<1>7. h \in [SUBSET S -> Nat] /\ h = [s \in SUBSET S |-> step(h, s)]
  <2> HIDE DEF step, Upto
  <2> QED BY <1>5, <1>6
<1>8. Sums(f, S, h)
  BY <1>7, Zenon DEF Sums
<1> QED BY <1>7, <1>8

\* Any element can be the one that is taken first.
LEMMA SumsAny ==
  ASSUME NEW S, IsFiniteSet(S), NEW f, \A x \in S : f[x] \in Nat, NEW it \in [SUBSET S -> Nat],
         Sums(f, S, it), NEW s \in SUBSET S, NEW y \in s
  PROVE  it[s] = f[y] + it[s \ {y}]
<1> DEFINE F == {u \in SUBSET S : \E z \in u : it[u] # f[z] + it[u \ {z}]}
<1>1. ASSUME F # {} PROVE FALSE
  <2>1. PICK u \in F : \A t \in F : Cardinality(u) <= Cardinality(t)
    <3>1. \A t \in F : IsFiniteSet(t)
      BY FS_Subset
    <3> HIDE DEF F
    <3> QED BY <1>1, <3>1, SmallestSet
  <2>2. u \in SUBSET S /\ IsFiniteSet(u)
    BY <2>1, FS_Subset
  <2>3. PICK z \in u : it[u] # f[z] + it[u \ {z}]
    BY <2>1
  <2> DEFINE x == CHOOSE x \in u : TRUE
  <2>4. x \in u /\ it[u] = f[x] + it[u \ {x}]
    BY <2>2, <2>3, SumsStep
  <2> HIDE DEF x
  <2>5. x # z
    BY <2>3, <2>4
  <2>6. u \ {x} \notin F /\ u \ {z} \notin F
    BY <2>1, <2>2, <2>3, <2>4, SmallerSet
  <2> DEFINE rest == u \ {x, z}
  <2>7. (u \ {x}) \ {z} = rest /\ (u \ {z}) \ {x} = rest
    OBVIOUS
  <2>8. it[u \ {x}] = f[z] + it[rest] /\ it[u \ {z}] = f[x] + it[rest]
    BY <2>2, <2>3, <2>4, <2>5, <2>6, <2>7
  <2>9. f[x] \in Nat /\ f[z] \in Nat /\ it[rest] \in Nat
    BY <2>2, <2>3, <2>4
  <2> HIDE DEF rest
  <2> QED BY <2>3, <2>4, <2>8, <2>9
<1> QED BY <1>1

LEMMA SumDef ==
  ASSUME NEW f, NEW S, IsFiniteSet(S), NEW it, Sums(f, S, it)
  PROVE  SumFunctionOnSet(f, S) = it[S]
<1>1. SumFunctionOnSet(f, S) = (CHOOSE h : Sums(f, S, h))[S]
  BY DEF SumFunctionOnSet, FoldFunctionOnSet, MapThenFoldSet, Sums
<1> DEFINE h == CHOOSE h : Sums(f, S, h)
<1>2. Sums(f, S, h)
  BY Zenon
<1> HIDE DEF h
<1>3. h[S] = it[S]
  BY <1>2, SumsAgree
<1> QED BY <1>1, <1>3 DEF h

\* The sum over a set is a number, that over no elements is zero, and a new element
\* adds its value.
LEMMA SumType ==
  ASSUME NEW S, IsFiniteSet(S), NEW f, \A x \in S : f[x] \in Nat
  PROVE  SumFunctionOnSet(f, S) \in Nat
<1>1. PICK it \in [SUBSET S -> Nat] : Sums(f, S, it)
  BY SumsExist
<1>2. it[S] \in Nat
  OBVIOUS
<1> QED BY <1>1, <1>2, SumDef

LEMMA SumEmpty ==
  ASSUME NEW f
  PROVE  SumFunctionOnSet(f, {}) = 0
<1>1. IsFiniteSet({})
  BY FS_EmptySet
<1>2. PICK it \in [SUBSET {} -> Nat] : Sums(f, {}, it)
  BY <1>1, SumsExist
<1>3. it[{}] = 0
  BY <1>2, SumsStep
<1> QED BY <1>1, <1>2, <1>3, SumDef

\* The sum depends on the values on the set only.
LEMMA SumSame ==
  ASSUME NEW S, IsFiniteSet(S), NEW f, NEW g, \A x \in S : f[x] \in Nat /\ f[x] = g[x]
  PROVE  SumFunctionOnSet(f, S) = SumFunctionOnSet(g, S)
<1>1. PICK a \in [SUBSET S -> Nat] : Sums(f, S, a)
  BY SumsExist
<1>2. PICK b \in [SUBSET S -> Nat] : Sums(g, S, b)
  BY SumsExist
<1>3. a[S] = b[S]
  BY <1>1, <1>2, SumsAgree
<1> QED BY <1>1, <1>2, <1>3, SumDef

LEMMA SumAdd ==
  ASSUME NEW S, IsFiniteSet(S), NEW x, x \notin S, NEW f, \A y \in S \cup {x} : f[y] \in Nat
  PROVE  SumFunctionOnSet(f, S \cup {x}) = f[x] + SumFunctionOnSet(f, S)
<1> DEFINE T == S \cup {x}
<1>1. IsFiniteSet(T) /\ x \in T /\ T \ {x} = S /\ S \in SUBSET T
  BY FS_AddElement
<1>2. \A y \in T : f[y] \in Nat
  OBVIOUS
<1> HIDE DEF T
<1>3. PICK a \in [SUBSET T -> Nat] : Sums(f, T, a)
  BY <1>1, <1>2, SumsExist
<1>4. PICK b \in [SUBSET S -> Nat] : Sums(f, S, b)
  BY <1>1, <1>2, SumsExist
<1>5. a[T] = f[x] + a[S]
  <2>1. T \in SUBSET T
    OBVIOUS
  <2>2. a[T] = f[x] + a[T \ {x}]
    BY <1>1, <1>2, <1>3, <2>1, SumsAny
  <2> QED BY <1>1, <2>2
<1>6. a[S] = b[S]
  BY <1>1, <1>3, <1>4, SumsAgree
<1>7. SumFunctionOnSet(f, T) = a[T] /\ SumFunctionOnSet(f, S) = b[S]
  BY <1>1, <1>3, <1>4, SumDef
<1> QED BY <1>5, <1>6, <1>7 DEF T

\* When one value changes, so does the sum.
LEMMA SumChanged ==
  ASSUME NEW S, IsFiniteSet(S), NEW x \in S, NEW f, NEW g,
         \A y \in S : f[y] \in Nat /\ g[y] \in Nat /\ (y # x => f[y] = g[y])
  PROVE  \E rest \in Nat : /\ SumFunctionOnSet(f, S) = f[x] + rest
                           /\ SumFunctionOnSet(g, S) = g[x] + rest
<1> DEFINE T == S \ {x}
<1>1. IsFiniteSet(T) /\ T \cup {x} = S /\ x \notin T
  BY FS_RemoveElement
<1>2. \A y \in T : f[y] \in Nat /\ f[y] = g[y]
  OBVIOUS
<1> HIDE DEF T
<1>3. SumFunctionOnSet(f, S) = f[x] + SumFunctionOnSet(f, T)
  BY <1>1, SumAdd
<1>4. SumFunctionOnSet(g, S) = g[x] + SumFunctionOnSet(g, T)
  BY <1>1, SumAdd
<1>5. SumFunctionOnSet(f, T) = SumFunctionOnSet(g, T) /\ SumFunctionOnSet(f, T) \in Nat
  BY <1>1, <1>2, SumSame, SumType
<1> QED BY <1>3, <1>4, <1>5

\* It is the same when the elements are renamed.
LEMMA SumRenamed ==
  ASSUME NEW S, IsFiniteSet(S), NEW T, NEW h \in Bijection(S, T), NEW f, NEW g,
         \A x \in S : f[x] \in Nat /\ g[h[x]] = f[x]
  PROVE  SumFunctionOnSet(f, S) = SumFunctionOnSet(g, T)
<1> DEFINE Image(s) == {h[x] : x \in s}
           F == {s \in SUBSET S : SumFunctionOnSet(f, s) # SumFunctionOnSet(g, Image(s))}
<1>1. h \in [S -> T] /\ (\A x, y \in S : h[x] = h[y] => x = y) /\ (\A t \in T : \E x \in S : h[x] = t)
  BY DEF Bijection, Injection, Surjection, IsInjective
<1>2. ASSUME F # {} PROVE FALSE
  <2>1. PICK s \in F : \A t \in F : Cardinality(s) <= Cardinality(t)
    <3>1. \A t \in F : IsFiniteSet(t)
      BY FS_Subset
    <3> HIDE DEF F
    <3> QED BY <1>2, <3>1, SmallestSet
  <2>2. s \in SUBSET S /\ IsFiniteSet(s) /\ SumFunctionOnSet(f, s) # SumFunctionOnSet(g, Image(s))
    BY <2>1, FS_Subset
  <2>3. s # {}
    <3>1. s = {} => Image(s) = {}
      OBVIOUS
    <3> HIDE DEF Image
    <3> QED BY <2>2, <3>1, SumEmpty
  <2>4. PICK x \in s : TRUE
    BY <2>3
  <2> DEFINE u == s \ {x}
  <2>5. u \in SUBSET S /\ u \notin F /\ IsFiniteSet(u) /\ x \notin u /\ s = u \cup {x}
    BY <2>1, <2>2, <2>4, SmallerSet
  <2> HIDE DEF u
  <2>6. SumFunctionOnSet(f, u) = SumFunctionOnSet(g, Image(u))
    BY <2>5
  <2>7. Image(s) = Image(u) \cup {h[x]} /\ h[x] \notin Image(u)
    BY <1>1, <2>2, <2>4, <2>5
  <2>8. IsFiniteSet(Image(u))
    <3> DEFINE k == [y \in u |-> h[y]]
    <3>1. k \in Surjection(u, Image(u))
      BY DEF Surjection
    <3> HIDE DEF k, Image
    <3> QED BY <2>5, <3>1, FS_Surjection
  <2>9. \A y \in Image(u) \cup {h[x]} : g[y] \in Nat
    BY <2>2, <2>4, <2>5
  <2>10. \A y \in u \cup {x} : f[y] \in Nat
    BY <2>2, <2>4, <2>5
  <2>11. g[h[x]] = f[x]
    BY <2>2, <2>4
  <2> HIDE DEF Image, F
  <2>12. SumFunctionOnSet(g, Image(s)) = g[h[x]] + SumFunctionOnSet(g, Image(u))
    BY <2>7, <2>8, <2>9, SumAdd
  <2>13. SumFunctionOnSet(f, s) = f[x] + SumFunctionOnSet(f, u)
    BY <2>5, <2>10, SumAdd
  <2> QED BY <2>2, <2>6, <2>11, <2>12, <2>13
<1>3. Image(S) = T
  BY <1>1
<1>4. S \notin F
  BY <1>2
<1> QED BY <1>3, <1>4
-----------------------------------------------------------------------------
(* Remainders of sums.                                                     *)

\* Numbers that differ by a multiple of w have the same remainder.
LEMMA SameRemainder ==
  ASSUME NEW w \in Nat \ {0}, NEW x \in Nat, NEW y \in Nat, NEW k \in Int, x = y + w * k
  PROVE  x % w = y % w
<1> DEFINE q == x \div w
           r == x % w
           p == y \div w
           s == y % w
           m == (p + k) - q
<1>1. q \in Int /\ r \in 0..w - 1 /\ x = w * q + r /\ p \in Int /\ s \in 0..w - 1 /\ y = w * p + s
  OBVIOUS
<1> HIDE DEF q, r, p, s
<1>2. m \in Int /\ w * m = (w * p + w * k) - w * q
  BY <1>1
<1>3. w * p \in Int /\ w * k \in Int /\ w * q \in Int
  BY <1>1
<1>4. r - s = w * m
  BY <1>1, <1>2, <1>3
<1> HIDE DEF m
<1>5. m <= -1 => w * m <= w * (-1)
  BY <1>2
<1>6. m >= 1 => w * m >= w * 1
  BY <1>2
<1>7. r - s > -w /\ r - s < w /\ w * (-1) = -w /\ w * 1 = w /\ r - s \in Int
  BY <1>1
<1>8. m = 0
  BY <1>2, <1>4, <1>5, <1>6, <1>7
<1>9. r = s
  BY <1>1, <1>4, <1>8
<1> QED BY <1>9 DEF r, s

\* It makes no difference whether a part of a sum, or the whole, is reduced.
LEMMA SumOfRemainder ==
  ASSUME NEW w \in Nat \ {0}, NEW x \in Nat, NEW y \in Nat
  PROVE  (x + (y % w)) % w = (x + y) % w
<1> DEFINE q == y \div w
           r == y % w
<1>1. q \in Int /\ r \in Nat /\ y = w * q + r
  OBVIOUS
<1> HIDE DEF q, r
<1>2. x + y = (x + r) + w * q /\ x + r \in Nat /\ x + y \in Nat
  <2>1. w * q \in Int
    BY <1>1
  <2> QED BY <1>1, <2>1
<1>3. (x + y) % w = (x + r) % w
  BY <1>1, <1>2, SameRemainder
<1> QED BY <1>3 DEF r

\* a and b are the same but for multiples of w.
Alike(w, a, b) == a % w = b % w

\* Sum b is sum a with a number added to one of its terms, which wraps around at w.
Turned(w, a, b, add) ==
  \E rest \in Nat, x \in Nat : a = rest + x /\ b = rest + ((x + add) % w)

\* Such a counter keeps a sum that is right but for multiples of w so.
LEMMA TurnedEqual ==
  ASSUME NEW w \in Nat \ {0}, NEW a, NEW b, NEW add \in Nat, Turned(w, a, b, add),
         NEW m \in Nat, Alike(w, a, m)
  PROVE  Alike(w, b, m + add)
<1>1. PICK rest \in Nat, x \in Nat : a = rest + x /\ b = rest + ((x + add) % w)
  BY DEF Turned
<1>2. x + add \in Nat /\ rest + x \in Nat /\ (rest + x) % w = m % w
  <2>1. (rest + x) % w = m % w
    BY <1>1, Zenon DEF Alike
  <2> QED BY <2>1
<1>3. (rest + ((x + add) % w)) % w = (rest + (x + add)) % w
  BY <1>2, SumOfRemainder
<1>4. (add + ((rest + x) % w)) % w = (add + (rest + x)) % w
  BY <1>2, SumOfRemainder
<1>5. (add + (m % w)) % w = (add + m) % w
  BY SumOfRemainder
<1>6. rest + (x + add) = add + (rest + x) /\ add + m = m + add
  OBVIOUS
<1>7. (rest + (x + add)) % w = (add + ((rest + x) % w)) % w
  BY <1>4, <1>6, Zenon
<1>8. (add + (m % w)) % w = (m + add) % w
  BY <1>5, <1>6, Zenon
<1>9. (add + ((rest + x) % w)) % w = (add + (m % w)) % w
  BY <1>2, Zenon
<1> QED BY <1>1, <1>3, <1>7, <1>8, <1>9, Zenon DEF Alike
=============================================================================
