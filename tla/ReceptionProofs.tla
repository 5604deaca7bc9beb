---------------------------- MODULE ReceptionProofs ----------------------------
(***************************************************************************)
(* The agent table and what the collector thread does with it, for every   *)
(* configuration, size of the table and number of datagrams.               *)
(***************************************************************************)
EXTENDS Reception, SeqLemmas, TLAPS

\* A sequence, of whatever elements.
IsList(s) == s \in Seq(Range(s))

LEMMA ListFacts ==
  ASSUME NEW s, IsList(s)
  PROVE  Len(s) \in Nat /\ DOMAIN s = 1..Len(s)
BY DEF IsList

LEMMA FunctionIsList ==
  ASSUME NEW n \in Nat, NEW s, s = [i \in 1..n |-> s[i]]
  PROVE  IsList(s) /\ Len(s) = n
<1>1. s \in [1..n -> Range(s)]
  BY DEF Range
<1>2. s \in Seq(Range(s)) /\ Len(s) = n
  BY <1>1
<1> QED BY <1>2 DEF IsList

LEMMA Grown ==
  ASSUME NEW s, IsList(s), NEW x
  PROVE  /\ IsList(Append(s, x))
         /\ Len(Append(s, x)) = Len(s) + 1
         /\ \A i \in 1..Len(s) : Append(s, x)[i] = s[i]
         /\ Append(s, x)[Len(s) + 1] = x
<1> DEFINE R == Range(s) \cup {x}
<1>1. s \in Seq(R) /\ x \in R
  <2>1. s \in Seq(Range(s)) /\ Range(s) \subseteq R
    BY DEF IsList
  <2> HIDE DEF R
  <2>2. s \in Seq(R)
    BY <2>1
  <2> QED BY <2>2 DEF R
<1> HIDE DEF R
<1>2. /\ Append(s, x) \in Seq(R)
      /\ Len(Append(s, x)) = Len(s) + 1
      /\ \A i \in 1..Len(s) : Append(s, x)[i] = s[i]
      /\ Append(s, x)[Len(s) + 1] = x
  BY <1>1
<1>3. Append(s, x) = [i \in 1..Len(Append(s, x)) |-> Append(s, x)[i]]
  <2> DEFINE r == Append(s, x)
  <2>1. r \in Seq(R)
    BY <1>2
  <2> HIDE DEF r
  <2>2. r = [i \in 1..Len(r) |-> r[i]]
    BY <2>1
  <2> QED BY <2>2 DEF r
<1>4. Len(Append(s, x)) \in Nat
  BY <1>2
<1>5. IsList(Append(s, x))
  BY <1>3, <1>4, FunctionIsList
<1> QED BY <1>2, <1>5

-----------------------------------------------------------------------------
(* The table.                                                              *)

AgentRecord(g) ==
  g = [name |-> g.name, address |-> g.address, sequence |-> g.sequence,
       datagrams |-> g.datagrams, drops |-> g.drops]

NodeRecord(x) == x = [address |-> x.address, agent |-> x.agent, next |-> x.next]

\* A bucket leads to the newest node of the addresses that belong to it.
NewestFirst ==
  /\ \A k \in Buckets : hash[k] # 0 => BucketOf(nodes[hash[k]].address) = k
  /\ \A i \in DOMAIN nodes : i <= hash[BucketOf(nodes[i].address)]

TableInv ==
  /\ IsList(agents) /\ \A x \in DOMAIN agents : AgentRecord(agents[x])
  /\ IsList(nodes)
  /\ \A i \in DOMAIN nodes :
       NodeRecord(nodes[i]) /\ nodes[i].address \in Addresses /\ nodes[i].agent \in 1..Len(agents)
  /\ hash \in [Buckets -> 0..Len(nodes)]
  /\ agent \in 0..Len(agents)
  /\ NewestFirst

LEMMA BucketType ==
  ASSUME NEW a \in Addresses
  PROVE  BucketOf(a) \in Buckets
<1>1. a \in Nat /\ HashSize \in Nat /\ HashSize > 0
  BY AgentListAssumption
<1>2. a % HashSize \in 0..HashSize - 1
  BY <1>1
<1> QED BY <1>2 DEF BucketOf, Buckets

\* What an insertion does to the nodes, their chains apart.
LEMMA AddressAdded ==
  ASSUME TableInv, NEW a \in Addresses, NEW g, AddAddress(a, g)
  PROVE  /\ IsList(nodes')
         /\ Len(nodes') = Len(nodes) + 1
         /\ \A i \in 1..Len(nodes) :
              /\ NodeRecord(nodes'[i])
              /\ nodes'[i].address = nodes[i].address
              /\ nodes'[i].agent = nodes[i].agent
         /\ nodes'[Len(nodes) + 1] = [address |-> a, agent |-> g, next |-> 0]
<1> DEFINE new  == Len(nodes) + 1
           head == hash[BucketOf(a)]
           link(i) == [nodes[i] EXCEPT !.next = IF i = head THEN new ELSE @]
           old  == [i \in DOMAIN nodes |-> link(i)]
           node == [address |-> a, agent |-> g, next |-> 0]
<1>1. nodes' = Append(old, node)
  BY DEF AddAddress
<1>2. Len(nodes) \in Nat /\ DOMAIN nodes = 1..Len(nodes)
  BY ListFacts DEF TableInv
<1>3. \A i \in 1..Len(nodes) :
        /\ NodeRecord(link(i))
        /\ link(i).address = nodes[i].address
        /\ link(i).agent = nodes[i].agent
  BY <1>2 DEF TableInv, NodeRecord
<1>4. \A i \in 1..Len(nodes) : old[i] = link(i)
  BY <1>2
<1>5. old = [i \in 1..Len(nodes) |-> old[i]]
  BY <1>2
<1> HIDE DEF old, node, link
<1>6. IsList(old) /\ Len(old) = Len(nodes)
  BY <1>2, <1>5, FunctionIsList
<1>7. /\ IsList(Append(old, node))
      /\ Len(Append(old, node)) = Len(old) + 1
      /\ \A i \in 1..Len(old) : Append(old, node)[i] = old[i]
      /\ Append(old, node)[Len(old) + 1] = node
  BY <1>6, Grown
<1> QED BY <1>1, <1>3, <1>4, <1>6, <1>7 DEF node

\* A datagram changes an agent's counters, and its sequence number to n.
LEMMA CountedFields ==
  ASSUME NEW g, AgentRecord(g), NEW n
  PROVE  /\ AgentRecord(Counted(g, n))
         /\ Counted(g, n).name = g.name
         /\ Counted(g, n).address = g.address
         /\ Counted(g, n).sequence = n
         /\ Counted(g, n).drops =
              g.drops + (IF g.sequence # 0 THEN Distance(g.sequence, n) ELSE 0)
<1>1. ASSUME NEW nm, NEW ad, NEW sq, NEW da, NEW dr,
             g = [name |-> nm, address |-> ad, sequence |-> sq, datagrams |-> da, drops |-> dr]
      PROVE  Counted(g, n) =
               [name |-> nm, address |-> ad, sequence |-> n, datagrams |-> da + 1,
                drops |-> dr + (IF sq # 0 THEN Distance(sq, n) ELSE 0)]
  <2> DEFINE d == IF sq # 0 THEN Distance(sq, n) ELSE 0
  <2>1. g.drops = dr /\ g.datagrams = da /\ g.sequence = sq
    BY <1>1
  <2>2. Counted(g, n) = [g EXCEPT !.datagrams = da + 1, !.drops = dr + d, !.sequence = n]
    BY <2>1 DEF Counted
  <2> HIDE DEF d
  <2>3. ASSUME NEW p, NEW q
        PROVE  [g EXCEPT !.datagrams = p, !.drops = q, !.sequence = n]
                 \in [name : {nm}, address : {ad}, sequence : {n}, datagrams : {p}, drops : {q}]
    BY <1>1
  <2>4. Counted(g, n)
          \in [name : {nm}, address : {ad}, sequence : {n}, datagrams : {da + 1}, drops : {dr + d}]
    BY <2>2, <2>3
  <2>5. ASSUME NEW r, NEW p, NEW q,
               r \in [name : {nm}, address : {ad}, sequence : {n}, datagrams : {p}, drops : {q}]
        PROVE  r = [name |-> nm, address |-> ad, sequence |-> n, datagrams |-> p, drops |-> q]
    BY <2>5
  <2> QED BY <2>4, <2>5 DEF d
<1>2. Counted(g, n) =
        [name |-> g.name, address |-> g.address, sequence |-> n, datagrams |-> g.datagrams + 1,
         drops |-> g.drops + (IF g.sequence # 0 THEN Distance(g.sequence, n) ELSE 0)]
  <2>1. g = [name |-> g.name, address |-> g.address, sequence |-> g.sequence,
             datagrams |-> g.datagrams, drops |-> g.drops]
    BY DEF AgentRecord
  <2> QED BY <1>1, <2>1
<1> QED BY <1>2 DEF AgentRecord

LEMMA InitTable == Init => TableInv
<1> SUFFICES ASSUME Init PROVE TableInv
  OBVIOUS
<1>1. agents = <<>> /\ nodes = <<>> /\ hash = [k \in Buckets |-> 0] /\ agent = 0
  BY DEF Init, ConfigInit, AgentsInit
<1>2. IsList(<<>>) /\ Len(<<>>) = 0 /\ DOMAIN <<>> = {}
  BY DEF IsList
<1> QED BY <1>1, <1>2 DEF TableInv, NewestFirst

\* Every step leaves the table alone, adds an address, or counts a datagram.
LEMMA TableSteps ==
  ASSUME [Next]_vars
  PROVE  \/ UNCHANGED <<agentVars, parserVars>> /\ agent' \in {agent, 0}
         \/ \E a \in Addresses : AgentAddress(a) /\ UNCHANGED parserVars
         \/ /\ UNCHANGED <<nodes, hash, agent>>
            /\ \E a \in Addresses, own \in Addresses, n \in 0..Modulus - 1, samples \in Payloads :
                 Datagram(a, own, n, samples)
         \/ /\ UNCHANGED <<agentVars, agent>>
            /\ (\E t \in Types : ParseSample(t)) \/ SkipSample \/ DatagramDone \/ Flush
<1>1. CASE UNCHANGED vars
  BY <1>1 DEF vars, configVars
<1>2. CASE ParseEvent /\ UNCHANGED parserVars
  <2>1. CASE \E a \in Addresses : AgentAddress(a)
    BY <1>2, <2>1
  <2>2. CASE EnterSection \/ EnterStorage \/ AgentName
    BY <1>2, <2>2 DEF EnterSection, EnterStorage, AgentName
  <2>3. CASE Key \/ Value \/ ListStart
    BY <1>2, <2>3 DEF Key, Value, ListStart
  <2>4. CASE AgentEnd \/ ListEnd
    BY <1>2, <2>4 DEF AgentEnd, ListEnd
  <2> QED BY <1>2, <2>1, <2>2, <2>3, <2>4 DEF ParseEvent
<1>3. CASE Collecting /\ UNCHANGED configVars
  <2>1. CASE \E a \in Addresses, own \in Addresses, n \in 0..Modulus - 1, samples \in Payloads :
               Datagram(a, own, n, samples)
    <3>1. UNCHANGED agent
      BY <1>3 DEF configVars
    <3>2. UNCHANGED <<nodes, hash>>
      BY <2>1 DEF Datagram
    <3> QED BY <2>1, <3>1, <3>2
  <2>2. CASE (\E t \in Types : ParseSample(t)) \/ SkipSample \/ DatagramDone \/ Flush
    BY <1>3, <2>2 DEF ParseSample, SkipSample, DatagramDone, Flush, configVars
  <2> QED BY <1>3, <2>1, <2>2 DEF Collecting
<1> QED BY <1>1, <1>2, <1>3 DEF Next

\* A first address makes an agent with number agent', a later one has it already.
LEMMA AgentAdded ==
  ASSUME TableInv, NEW a \in Addresses, AgentAddress(a)
  PROVE  /\ IsList(agents') /\ Len(agents') >= Len(agents)
         /\ \A x \in DOMAIN agents' :
              /\ AgentRecord(agents'[x])
              /\ \/ x \in DOMAIN agents /\ agents'[x] = agents[x]
                 \/ x = agent' /\ agents'[x].address = a
                    /\ agents'[x].sequence = 0 /\ agents'[x].drops = 0
                    /\ x \notin DOMAIN agents
         /\ DOMAIN agents \subseteq DOMAIN agents'
         /\ agent' \in 1..Len(agents')
<1>1. Len(agents) \in Nat /\ DOMAIN agents = 1..Len(agents)
  BY ListFacts DEF TableInv
<1>2. CASE agent # 0
  <2>1. UNCHANGED <<agents, agent>>
    BY <1>2 DEF AgentAddress
  <2> QED BY <1>1, <1>2, <2>1 DEF TableInv
<1>3. CASE agent = 0
  <2> DEFINE g == [name |-> key, address |-> a, sequence |-> 0, datagrams |-> 0, drops |-> 0]
  <2>1. agents' = Append(agents, g) /\ agent' = Len(agents) + 1
    BY <1>3 DEF AgentAddress, AddAgent
  <2>2. AgentRecord(g) /\ g.address = a /\ g.sequence = 0 /\ g.drops = 0
    BY DEF AgentRecord
  <2> HIDE DEF g
  <2>3. /\ IsList(agents') /\ Len(agents') = Len(agents) + 1
        /\ \A i \in 1..Len(agents) : agents'[i] = agents[i]
        /\ agents'[Len(agents) + 1] = g
    BY <2>1, Grown DEF TableInv
  <2>4. DOMAIN agents' = 1..Len(agents) + 1
    BY <2>3, ListFacts
  <2> QED BY <1>1, <2>1, <2>2, <2>3, <2>4 DEF TableInv
<1> QED BY <1>2, <1>3

LEMMA StepTable ==
  ASSUME TableInv, [Next]_vars
  PROVE  TableInv'
<1>0. /\ Len(agents) \in Nat /\ DOMAIN agents = 1..Len(agents)
      /\ Len(nodes) \in Nat /\ DOMAIN nodes = 1..Len(nodes)
  BY ListFacts DEF TableInv
<1>1. ASSUME NEW a \in Addresses, AgentAddress(a)
      PROVE  TableInv'
  <2> DEFINE new == Len(nodes) + 1
  <2>1. /\ IsList(agents') /\ Len(agents') \in Nat /\ Len(agents') >= Len(agents)
        /\ \A x \in DOMAIN agents' : AgentRecord(agents'[x])
        /\ agent' \in 1..Len(agents')
    BY <1>1, AgentAdded, ListFacts
  <2>2. AddAddress(a, agent')
    BY <1>1 DEF AgentAddress
  <2>3. /\ IsList(nodes') /\ Len(nodes') = new /\ DOMAIN nodes' = 1..new
        /\ \A i \in 1..Len(nodes) :
             /\ NodeRecord(nodes'[i])
             /\ nodes'[i].address = nodes[i].address
             /\ nodes'[i].agent = nodes[i].agent
        /\ nodes'[new] = [address |-> a, agent |-> agent', next |-> 0]
    BY <2>2, AddressAdded, ListFacts
  <2>4. BucketOf(a) \in Buckets
    BY BucketType
  <2>5. hash' = [hash EXCEPT ![BucketOf(a)] = new]
    BY <2>2 DEF AddAddress
  <2>6. hash' \in [Buckets -> 0..new]
    BY <1>0, <2>4, <2>5 DEF TableInv
  <2>7. NodeRecord(nodes'[new]) /\ nodes'[new].address = a /\ nodes'[new].agent = agent'
    BY <2>3 DEF NodeRecord
  <2>8. \A i \in 1..new :
          /\ NodeRecord(nodes'[i]) /\ nodes'[i].address \in Addresses
          /\ nodes'[i].agent \in 1..Len(agents')
    <3> TAKE i \in 1..new
    <3>1. CASE i = new
      BY <3>1, <2>1, <2>7
    <3>2. CASE i \in 1..Len(nodes)
      <4>1. nodes[i].address \in Addresses /\ nodes[i].agent \in 1..Len(agents)
        BY <3>2, <1>0 DEF TableInv
      <4> QED BY <3>2, <4>1, <1>0, <2>1, <2>3
    <3> QED BY <1>0, <3>1, <3>2
  <2>9. \A k \in Buckets : hash'[k] # 0 => BucketOf(nodes'[hash'[k]].address) = k
    <3> SUFFICES ASSUME NEW k \in Buckets, hash'[k] # 0
                 PROVE  BucketOf(nodes'[hash'[k]].address) = k
      OBVIOUS
    <3>1. CASE k = BucketOf(a)
      BY <3>1, <2>4, <2>5, <2>7 DEF TableInv
    <3>2. CASE k # BucketOf(a)
      <4>1. hash'[k] = hash[k] /\ hash[k] \in 1..Len(nodes)
        BY <3>2, <2>5, <1>0 DEF TableInv
      <4>2. BucketOf(nodes[hash[k]].address) = k
        BY <4>1 DEF TableInv, NewestFirst
      <4> QED BY <4>1, <4>2, <2>3
    <3> QED BY <3>1, <3>2
  <2>10. \A i \in 1..new : i <= hash'[BucketOf(nodes'[i].address)]
    <3> TAKE i \in 1..new
    <3>1. CASE i = new
      BY <3>1, <2>4, <2>5, <2>7, <1>0 DEF TableInv
    <3>2. CASE i \in 1..Len(nodes)
      <4> DEFINE k == BucketOf(nodes[i].address)
      <4>1. k \in Buckets /\ i <= hash[k] /\ hash[k] \in 0..Len(nodes)
        BY <3>2, <1>0, BucketType DEF TableInv, NewestFirst
      <4>2. BucketOf(nodes'[i].address) = k
        BY <3>2, <2>3
      <4> HIDE DEF k
      <4>3. hash'[k] = IF k = BucketOf(a) THEN new ELSE hash[k]
        BY <4>1, <2>5 DEF TableInv
      <4> QED BY <4>1, <4>2, <4>3, <3>2, <1>0
    <3> QED BY <1>0, <3>1, <3>2
  <2> QED BY <2>1, <2>3, <2>6, <2>8, <2>9, <2>10 DEF TableInv, NewestFirst
<1>2. ASSUME NEW a \in Addresses, NEW own \in Addresses, NEW n, NEW samples,
             Datagram(a, own, n, samples), UNCHANGED <<nodes, hash, agent>>
      PROVE  TableInv'
  <2> DEFINE g == Search(IF own = Loopback THEN a ELSE own)
  <2>1. CASE UNCHANGED agents
    BY <1>2, <2>1 DEF TableInv, NewestFirst
  <2>2. CASE agents' = [agents EXCEPT ![g] = Counted(@, n)]
    <3> HIDE DEF g
    <3>1. \A x \in DOMAIN agents :
            agents'[x] = IF x = g THEN Counted(agents[g], n) ELSE agents[x]
      BY <2>2
    <3>2. agents' = [x \in 1..Len(agents) |-> agents'[x]]
      BY <1>0, <2>2
    <3>3. IsList(agents') /\ Len(agents') = Len(agents)
      BY <1>0, <3>2, FunctionIsList
    <3>4. DOMAIN agents' = DOMAIN agents
      BY <1>0, <3>2
    <3>5. \A x \in DOMAIN agents : AgentRecord(Counted(agents[x], n))
      BY CountedFields DEF TableInv
    <3>6. \A x \in DOMAIN agents' : AgentRecord(agents'[x])
      BY <3>1, <3>4, <3>5 DEF TableInv
    <3> QED BY <1>2, <3>3, <3>6 DEF TableInv, NewestFirst
  <2> QED BY <1>2, <2>1, <2>2 DEF Datagram
<1>3. CASE UNCHANGED agentVars /\ agent' \in {agent, 0}
  BY <1>0, <1>3 DEF TableInv, NewestFirst, agentVars
<1> QED BY <1>1, <1>2, <1>3, TableSteps

\* What was configured last for a bucket is found, nothing under a wrong address.
LEMMA TableLookup == TableInv => LookupCorrect
<1> SUFFICES ASSUME TableInv, NEW a \in Addresses
             PROVE  /\ Search(a) # 0 =>
                         \E i \in DOMAIN nodes :
                           nodes[i].address = a /\ nodes[i].agent = Search(a)
                    /\ \A i \in DOMAIN nodes :
                         /\ nodes[i].address = a
                         /\ \A j \in i + 1..Len(nodes) :
                              BucketOf(nodes[j].address) # BucketOf(a)
                         => Search(a) = nodes[i].agent
  BY DEF LookupCorrect
<1> DEFINE h == hash[BucketOf(a)]
<1>1. Len(nodes) \in Nat /\ DOMAIN nodes = 1..Len(nodes)
  BY ListFacts DEF TableInv
<1>2. BucketOf(a) \in Buckets
  BY BucketType
<1>3. h \in 0..Len(nodes) /\ (h # 0 => BucketOf(nodes[h].address) = BucketOf(a))
  BY <1>2 DEF TableInv, NewestFirst
<1>4. Search(a) = IF h # 0 /\ nodes[h].address = a THEN nodes[h].agent ELSE 0
  BY DEF Search
<1>5. \A i \in DOMAIN nodes : i <= hash[BucketOf(nodes[i].address)]
  BY DEF TableInv, NewestFirst
<1> HIDE DEF h
<1>6. Search(a) # 0 => h \in DOMAIN nodes /\ nodes[h].address = a /\ nodes[h].agent = Search(a)
  BY <1>1, <1>3, <1>4
<1>7. ASSUME NEW i \in DOMAIN nodes, nodes[i].address = a,
             \A j \in i + 1..Len(nodes) : BucketOf(nodes[j].address) # BucketOf(a)
      PROVE  Search(a) = nodes[i].agent
  <2>1. i <= h
    BY <1>5, <1>7 DEF h
  <2>2. h = i
    BY <1>1, <1>3, <1>7, <2>1
  <2> QED BY <1>1, <1>4, <1>7, <2>2
<1> QED BY <1>6, <1>7

\* A configured address is found with its agent unless a later address went to
\* the same bucket; nothing is found under a wrong address (agentlist_search).
THEOREM ReceptionLookup == Spec => []LookupCorrect
<1>1. Spec => []TableInv
  BY InitTable, StepTable, PTL DEF Spec
<1> QED BY <1>1, TableLookup, PTL

-----------------------------------------------------------------------------
(* The drops.                                                              *)

DropsInv ==
  /\ DOMAIN uncounted = DOMAIN late /\ DOMAIN late \subseteq DOMAIN agents
  /\ \A x \in DOMAIN agents :
       /\ agents[x].sequence \in 0..Modulus - 1 /\ agents[x].drops \in Nat
       /\ x \notin DOMAIN late => agents[x].sequence = 0 /\ agents[x].drops = 0
  /\ \A x \in DOMAIN late : uncounted[x] \in Nat /\ late[x] \in Nat
  /\ DropsAreDistance

LEMMA RaisedOthers ==
  ASSUME NEW sums, NEW g, NEW n, NEW x \in DOMAIN sums, x # g, sums[x] \in Nat
  PROVE  Raised(sums, g, n)[x] = sums[x]
BY DEF Raised

\* A later number is that much further, an earlier one a whole turn less.
LEMMA DistanceValue ==
  ASSUME NEW s \in 0..Modulus - 1, NEW n \in 0..Modulus - 1
  PROVE  Distance(s, n) = IF n < s THEN n + Modulus - s ELSE n - s
<1>1. Modulus \in Nat \ {0}
  BY ParserAssumption
<1>2. CASE n < s
  <2>1. n + Modulus - s \in 0..Modulus - 1
    BY <1>1, <1>2
  <2> QED BY <1>1, <1>2, <2>1 DEF Distance
<1>3. CASE ~(n < s)
  <2> DEFINE y == n + Modulus - s
             q == y \div Modulus
  <2>1. y \in Nat /\ n - s \in 0..Modulus - 1 /\ y = n - s + Modulus
    BY <1>1, <1>3
  <2> HIDE DEF y
  <2>2. y % Modulus \in 0..Modulus - 1 /\ y = Modulus * q + (y % Modulus) /\ q \in Nat
    BY <1>1, <2>1
  <2> HIDE DEF q
  <2>3. q = 1
    BY <1>1, <2>1, <2>2
  <2>4. y % Modulus = n - s
    BY <1>1, <2>1, <2>2, <2>3
  <2> QED BY <1>3, <2>4 DEF Distance, y
<1> QED BY <1>2, <1>3

\* An agent is only found where there is one.
LEMMA SearchType ==
  ASSUME TableInv, NEW a \in Addresses
  PROVE  Search(a) # 0 => Search(a) \in DOMAIN agents
<1>1. /\ Len(nodes) \in Nat /\ DOMAIN nodes = 1..Len(nodes)
      /\ DOMAIN agents = 1..Len(agents)
  BY ListFacts DEF TableInv
<1>2. BucketOf(a) \in Buckets
  BY BucketType
<1> DEFINE h == hash[BucketOf(a)]
<1>3. h \in 0..Len(nodes)
  BY <1>2 DEF TableInv
<1>4. Search(a) = IF h # 0 /\ nodes[h].address = a THEN nodes[h].agent ELSE 0
  BY DEF Search
<1> HIDE DEF h
<1> QED BY <1>1, <1>3, <1>4 DEF TableInv

\* What a datagram of an agent that is found does to it, and to nobody else.
LEMMA DatagramCounts ==
  ASSUME TableInv, NEW a \in Addresses, NEW own \in Addresses, NEW n, NEW samples,
         Datagram(a, own, n, samples), UNCHANGED <<nodes, hash>>
  PROVE  \/ UNCHANGED <<agents, uncounted, late>> /\ collector' = "crashed"
            /\ UNCHANGED <<left, source>> /\ Search(IF own = Loopback THEN a ELSE own) = 0
         \/ \E g \in DOMAIN agents :
              /\ agents' = [agents EXCEPT ![g] = Counted(@, n)]
              /\ DOMAIN agents' = DOMAIN agents
              /\ \A x \in DOMAIN agents :
                   agents'[x] = IF x = g THEN Counted(agents[g], n) ELSE agents[x]
              /\ source' = agents[g].address
              /\ left' = Len(samples) /\ collector' = "parse"
              /\ uncounted' = Raised(uncounted, g, IF agents[g].sequence = 0 THEN n ELSE 0)
              /\ late' = Raised(late, g, IF n < agents[g].sequence THEN 1 ELSE 0)
<1> DEFINE sender == IF own = Loopback THEN a ELSE own
           g == Search(sender)
<1>1. sender \in Addresses
  OBVIOUS
<1>2. g # 0 => g \in DOMAIN agents
  BY <1>1, SearchType
<1>3. CASE g = 0
  <2>1. UNCHANGED <<agents, uncounted, late, left, source>> /\ collector' = "crashed"
    BY <1>3 DEF Datagram
  <2> QED BY <1>3, <2>1
<1>4. CASE g # 0
  <2>1. /\ agents' = [agents EXCEPT ![g] = Counted(@, n)]
        /\ source' = Attributed(g, a)
        /\ left' = Len(samples) /\ collector' = "parse"
        /\ uncounted' = Raised(uncounted, g, IF agents[g].sequence = 0 THEN n ELSE 0)
        /\ late' = Raised(late, g, IF n < agents[g].sequence THEN 1 ELSE 0)
    BY <1>4 DEF Datagram
  <2> HIDE DEF g
  <2>2. /\ DOMAIN agents' = DOMAIN agents
        /\ \A x \in DOMAIN agents :
             agents'[x] = IF x = g THEN Counted(agents[g], n) ELSE agents[x]
    BY <2>1
  <2> QED BY <1>2, <1>4, <2>1, <2>2 DEF Attributed
<1> QED BY <1>3, <1>4

LEMMA InitDrops == Init => DropsInv
<1> SUFFICES ASSUME Init PROVE DropsInv
  OBVIOUS
<1>1. agents = <<>> /\ uncounted = <<>> /\ late = <<>>
  BY DEF Init, ConfigInit, AgentsInit, ParserInit
<1> QED BY <1>1 DEF DropsInv, DropsAreDistance

LEMMA StepDrops ==
  ASSUME TableInv, DropsInv, [Next]_vars
  PROVE  DropsInv'
<1>1. ASSUME NEW a \in Addresses, AgentAddress(a), UNCHANGED parserVars
      PROVE  DropsInv'
  <2>1. UNCHANGED <<uncounted, late>>
    BY <1>1 DEF parserVars
  <2>2. /\ \A x \in DOMAIN agents' :
             \/ x \in DOMAIN agents /\ agents'[x] = agents[x]
             \/ /\ agents'[x].sequence = 0 /\ agents'[x].drops = 0
                /\ x \notin DOMAIN agents
        /\ DOMAIN agents \subseteq DOMAIN agents'
    BY <1>1, AgentAdded
  <2>3. 0 \in 0..Modulus - 1
    BY ParserAssumption
  <2> QED BY <2>1, <2>2, <2>3 DEF DropsInv, DropsAreDistance
<1>2. ASSUME NEW a \in Addresses, NEW own \in Addresses, NEW n \in 0..Modulus - 1, NEW samples,
             Datagram(a, own, n, samples), UNCHANGED <<nodes, hash, agent>>
      PROVE  DropsInv'
  <2>1. CASE UNCHANGED <<agents, uncounted, late>>
    BY <2>1 DEF DropsInv, DropsAreDistance
  <2>2. ASSUME NEW g \in DOMAIN agents,
               DOMAIN agents' = DOMAIN agents,
               \A x \in DOMAIN agents :
                 agents'[x] = IF x = g THEN Counted(agents[g], n) ELSE agents[x],
               uncounted' = Raised(uncounted, g, IF agents[g].sequence = 0 THEN n ELSE 0),
               late' = Raised(late, g, IF n < agents[g].sequence THEN 1 ELSE 0)
        PROVE  DropsInv'
    <3> DEFINE s == agents[g].sequence
               u == IF g \in DOMAIN late THEN uncounted[g] ELSE 0
               l == IF g \in DOMAIN late THEN late[g] ELSE 0
    <3>1. /\ s \in 0..Modulus - 1 /\ agents[g].drops \in Nat
          /\ u \in Nat /\ l \in Nat
          /\ agents[g].drops + u = s + Modulus * l
      <4>1. Modulus \in Nat /\ Modulus * 0 = 0
        BY ParserAssumption
      <4>2. s \in 0..Modulus - 1 /\ agents[g].drops \in Nat
        BY DEF DropsInv
      <4>3. CASE g \in DOMAIN late
        <5>1. u = uncounted[g] /\ l = late[g]
          BY <4>3
        <5>2. agents[g].drops + uncounted[g] = s + Modulus * late[g]
          BY <4>3 DEF DropsInv, DropsAreDistance
        <5> QED BY <4>2, <4>3, <5>1, <5>2 DEF DropsInv
      <4>4. CASE g \notin DOMAIN late
        <5>1. u = 0 /\ l = 0
          BY <4>4
        <5>2. s = 0 /\ agents[g].drops = 0
          BY <4>4 DEF DropsInv
        <5> QED BY <4>1, <4>2, <5>1, <5>2
      <4> QED BY <4>3, <4>4
    <3>2. /\ agents'[g].sequence = n
          /\ agents'[g].drops = agents[g].drops + (IF s # 0 THEN Distance(s, n) ELSE 0)
      BY <2>2, CountedFields DEF TableInv
    <3>3. /\ DOMAIN uncounted' = DOMAIN late' /\ DOMAIN late' = DOMAIN late \cup {g}
          /\ uncounted'[g] = u + (IF s = 0 THEN n ELSE 0)
          /\ late'[g] = l + (IF n < s THEN 1 ELSE 0)
      <4>1. DOMAIN uncounted = DOMAIN late
        BY DEF DropsInv
      <4> DEFINE p == IF agents[g].sequence = 0 THEN n ELSE 0
                 q == IF n < agents[g].sequence THEN 1 ELSE 0
      <4>2. uncounted' = Raised(uncounted, g, p) /\ late' = Raised(late, g, q)
        BY <2>2
      <4> HIDE DEF p, q
      <4>3. /\ DOMAIN uncounted' = DOMAIN uncounted \cup {g}
            /\ DOMAIN late' = DOMAIN late \cup {g}
            /\ uncounted'[g] = (IF g \in DOMAIN uncounted THEN uncounted[g] ELSE 0) + p
            /\ late'[g] = (IF g \in DOMAIN late THEN late[g] ELSE 0) + q
        <5>1. /\ DOMAIN Raised(uncounted, g, p) = DOMAIN uncounted \cup {g}
              /\ Raised(uncounted, g, p)[g] =
                   (IF g \in DOMAIN uncounted THEN uncounted[g] ELSE 0) + p
          BY DEF Raised
        <5>2. /\ DOMAIN Raised(late, g, q) = DOMAIN late \cup {g}
              /\ Raised(late, g, q)[g] = (IF g \in DOMAIN late THEN late[g] ELSE 0) + q
          BY DEF Raised
        <5> QED BY <4>2, <5>1, <5>2
      <4> QED BY <4>1, <4>3 DEF p, q
    <3> HIDE DEF s, u, l
    <3>4. Distance(s, n) = IF n < s THEN n + Modulus - s ELSE n - s
      BY <3>1, DistanceValue
    <3>5. /\ agents'[g].drops \in Nat /\ uncounted'[g] \in Nat /\ late'[g] \in Nat
          /\ agents'[g].drops + uncounted'[g] = n + Modulus * late'[g]
      <4>1. Modulus \in Nat /\ Modulus * (l + 1) = Modulus * l + Modulus
        BY <3>1, ParserAssumption
      <4>2. CASE s = 0
        BY <4>1, <4>2, <3>1, <3>2, <3>3
      <4>3. CASE s # 0 /\ n < s
        BY <4>1, <4>3, <3>1, <3>2, <3>3, <3>4
      <4>4. CASE s # 0 /\ ~(n < s)
        BY <4>1, <4>4, <3>1, <3>2, <3>3, <3>4
      <4> QED BY <4>2, <4>3, <4>4
    <3>6. \A x \in DOMAIN late \ {g} :
            uncounted'[x] = uncounted[x] /\ late'[x] = late[x] /\ agents'[x] = agents[x]
      BY <2>2, RaisedOthers DEF DropsInv
    <3> QED BY <2>2, <3>2, <3>3, <3>5, <3>6 DEF DropsInv, DropsAreDistance
  <2> QED BY <1>2, <2>1, <2>2, DatagramCounts
<1>3. ASSUME UNCHANGED <<agents, uncounted, late>>
      PROVE  DropsInv'
  BY <1>3 DEF DropsInv, DropsAreDistance
<1>4. CASE UNCHANGED <<agentVars, parserVars>>
  BY <1>3, <1>4 DEF agentVars, parserVars
<1>5. CASE UNCHANGED agentVars /\ ((\E t \in Types : ParseSample(t)) \/ SkipSample \/ DatagramDone \/ Flush)
  BY <1>3, <1>5 DEF agentVars, ParseSample, SkipSample, DatagramDone, Flush
<1> QED BY <1>1, <1>2, <1>4, <1>5, TableSteps

\* However many numbers there are and however they come, the drops counted for an
\* agent are the way its sequence number has come (parseDatagram).
THEOREM ReceptionDrops == Spec => []DropsAreDistance
<1>1. DropsInv => DropsAreDistance
  BY DEF DropsInv
<1> QED BY <1>1, InitTable, StepTable, InitDrops, StepDrops, PTL DEF Spec

-----------------------------------------------------------------------------
(* The use of agents that are looked up.                                   *)

OneBucketEach ==
  \A i, j \in DOMAIN nodes : i # j => BucketOf(nodes[i].address) # BucketOf(nodes[j].address)

Configured == {nodes[i].address : i \in DOMAIN nodes}

SafeInv ==
  /\ \A x \in DOMAIN agents : agents[x].address \in Configured
  /\ count \in [Types -> Nat] /\ left \in Nat
  /\ \A t \in Types : count[t] + left <= BufferSize
  /\ DOMAIN slots = Types /\ \A t \in Types : slots[t] = [i \in 1..BufferSize |-> slots[t][i]]
  /\ \A t \in Types : \A i \in 1..count[t] : slots[t][i].address \in Configured
  /\ collector = "parse" => source \in Configured
  /\ ConfiguredAgentsAreSafe

\* A configured address is found as long as it has its bucket to itself.
LEMMA ConfiguredFound ==
  ASSUME TableInv, OneBucketEach, NEW a \in Configured
  PROVE  Search(a) # 0
<1>1. PICK i \in DOMAIN nodes : nodes[i].address = a
  BY DEF Configured
<1>2. DOMAIN nodes = 1..Len(nodes) /\ Len(nodes) \in Nat
  BY ListFacts DEF TableInv
<1>3. a \in Addresses
  BY <1>1 DEF TableInv
<1>4. \A j \in i + 1..Len(nodes) : BucketOf(nodes[j].address) # BucketOf(a)
  BY <1>1, <1>2 DEF OneBucketEach
<1>5. Search(a) = nodes[i].agent
  BY <1>1, <1>3, <1>4, TableLookup DEF LookupCorrect
<1>6. Len(agents) \in Nat /\ nodes[i].agent \in 1..Len(agents)
  BY ListFacts DEF TableInv
<1> QED BY <1>5, <1>6

LEMMA InitSafe == Init => SafeInv
<1> SUFFICES ASSUME Init PROVE SafeInv
  OBVIOUS
<1>1. /\ agents = <<>> /\ count = [t \in Types |-> 0] /\ left = 0
      /\ slots = ZeroedSlots /\ collector = "recv"
  BY DEF Init, ConfigInit, AgentsInit, ParserInit
<1>2. BufferSize \in Nat
  BY ParserAssumption
<1>3. DOMAIN slots = Types /\ \A t \in Types : slots[t] = [i \in 1..BufferSize |-> slots[t][i]]
  BY <1>1 DEF ZeroedSlots
<1>4. \A t \in Types : 1..count[t] = {}
  BY <1>1
<1> QED BY <1>1, <1>2, <1>3, <1>4 DEF SafeInv, ConfiguredAgentsAreSafe

\* A new address takes nothing away, neither addresses nor shared buckets.
LEMMA StaysConfigured ==
  ASSUME TableInv, NEW a \in Addresses, AgentAddress(a)
  PROVE  /\ Configured \subseteq Configured'
         /\ a \in Configured'
         /\ OneBucketEach' => OneBucketEach
<1>1. Len(nodes) \in Nat /\ DOMAIN nodes = 1..Len(nodes)
  BY ListFacts DEF TableInv
<1>2. AddAddress(a, agent')
  BY DEF AgentAddress
<1>3. /\ IsList(nodes') /\ Len(nodes') = Len(nodes) + 1
      /\ \A i \in 1..Len(nodes) : nodes'[i].address = nodes[i].address
      /\ nodes'[Len(nodes) + 1] = [address |-> a, agent |-> agent', next |-> 0]
  BY <1>2, AddressAdded
<1>4. DOMAIN nodes' = 1..Len(nodes) + 1
  BY <1>3, ListFacts
<1>5. nodes'[Len(nodes) + 1].address = a
  BY <1>3
<1> QED BY <1>1, <1>3, <1>4, <1>5 DEF Configured, OneBucketEach

LEMMA SafeAddress ==
  ASSUME TableInv, SafeInv, NEW a \in Addresses, AgentAddress(a), UNCHANGED parserVars
  PROVE  SafeInv'
<1>1. /\ Configured \subseteq Configured'
      /\ a \in Configured'
      /\ OneBucketEach' => OneBucketEach
  BY StaysConfigured
<1>2. UNCHANGED <<count, left, slots, collector, source, strangers>>
  BY DEF parserVars
<1>3. \A x \in DOMAIN agents' : agents'[x].address \in Configured'
  <2> TAKE x \in DOMAIN agents'
  <2>1. (x \in DOMAIN agents /\ agents'[x] = agents[x]) \/ agents'[x].address = a
    BY AgentAdded
  <2>2. CASE x \in DOMAIN agents /\ agents'[x] = agents[x]
    BY <2>2, <1>1 DEF SafeInv
  <2>3. CASE agents'[x].address = a
    BY <2>3, <1>1
  <2> QED BY <2>1, <2>2, <2>3
<1>4. ConfiguredAgentsAreSafe'
  BY <1>1, <1>2 DEF SafeInv, ConfiguredAgentsAreSafe, OneBucketEach
<1> QED BY <1>1, <1>2, <1>3, <1>4 DEF SafeInv

LEMMA SafeDatagram ==
  ASSUME TableInv, SafeInv, UNCHANGED <<nodes, hash>>,
         NEW a \in Addresses, NEW own \in Addresses, NEW n, NEW samples \in Payloads,
         Datagram(a, own, n, samples)
  PROVE  SafeInv'
<1> DEFINE sender == IF own = Loopback THEN a ELSE own
<1>1. /\ UNCHANGED <<count, slots>>
      /\ \A t \in Types : count[t] + Len(samples) <= BufferSize
      /\ strangers' = (strangers \/ \A i \in DOMAIN nodes : nodes[i].address # sender)
  BY DEF Datagram
<1>2. Configured' = Configured
  BY DEF Configured
<1>3. Len(samples) \in Nat
  BY ParserAssumption
<1>4. CASE /\ UNCHANGED agents /\ collector' = "crashed"
           /\ UNCHANGED <<left, source>> /\ Search(sender) = 0
  <2>1. ConfiguredAgentsAreSafe'
    <3> SUFFICES ASSUME ~strangers', OneBucketEach
                 PROVE  FALSE
      BY DEF ConfiguredAgentsAreSafe, OneBucketEach
    <3>1. sender \in Configured
      BY <1>1 DEF Configured
    <3> HIDE DEF sender
    <3> QED BY <3>1, <1>4, ConfiguredFound
  <2> QED BY <1>1, <1>2, <1>4, <2>1 DEF SafeInv
<1>5. ASSUME NEW g \in DOMAIN agents,
             DOMAIN agents' = DOMAIN agents,
             \A x \in DOMAIN agents :
               agents'[x] = IF x = g THEN Counted(agents[g], n) ELSE agents[x],
             source' = agents[g].address,
             left' = Len(samples), collector' = "parse"
      PROVE  SafeInv'
  <2>1. \A x \in DOMAIN agents' : agents'[x].address = agents[x].address
    BY <1>5, CountedFields DEF TableInv
  <2>2. \A x \in DOMAIN agents' : agents'[x].address \in Configured'
    BY <1>2, <1>5, <2>1 DEF SafeInv
  <2>3. source' \in Configured'
    BY <1>2, <1>5 DEF SafeInv
  <2>4. ConfiguredAgentsAreSafe'
    BY <1>5 DEF ConfiguredAgentsAreSafe
  <2> QED BY <1>1, <1>2, <1>3, <1>5, <2>2, <2>3, <2>4 DEF SafeInv
<1> HIDE DEF sender
<1>6. \/ UNCHANGED <<agents, uncounted, late>> /\ collector' = "crashed"
         /\ UNCHANGED <<left, source>> /\ Search(sender) = 0
      \/ \E g \in DOMAIN agents :
           /\ DOMAIN agents' = DOMAIN agents
           /\ \A x \in DOMAIN agents :
                agents'[x] = IF x = g THEN Counted(agents[g], n) ELSE agents[x]
           /\ source' = agents[g].address
           /\ left' = Len(samples) /\ collector' = "parse"
  BY DatagramCounts DEF sender
<1> QED BY <1>4, <1>5, <1>6

LEMMA SafeSample ==
  ASSUME SafeInv, UNCHANGED agentVars, NEW t \in Types, ParseSample(t)
  PROVE  SafeInv'
<1> DEFINE n == count[t] + 1
           new == [id |-> Head(rest).id, address |-> source,
                   data |-> Overwritten(slots[t][n].data, SubSeq(rest, 2, RecordsRead[t] + 1))]
<1>1. /\ collector = "parse" /\ left > 0
      /\ slots' = [slots EXCEPT ![t][n] = new]
      /\ count' = [count EXCEPT ![t] = n]
      /\ left' = left - 1
      /\ UNCHANGED <<collector, source, strangers>>
  BY DEF ParseSample
<1>2. new.address = source /\ source \in Configured
  BY <1>1 DEF SafeInv
<1> HIDE DEF new
<1>3. BufferSize \in Nat /\ count[t] \in Nat /\ left \in Nat /\ count[t] + left <= BufferSize
  BY ParserAssumption DEF SafeInv
<1>4. n \in 1..BufferSize
  BY <1>1, <1>3
<1>5. Configured' = Configured
  BY DEF Configured, agentVars
<1>6. /\ DOMAIN slots' = Types
      /\ \A u \in Types : slots'[u] = IF u = t THEN [slots[t] EXCEPT ![n] = new] ELSE slots[u]
  BY <1>1 DEF SafeInv
<1>7. /\ DOMAIN slots[t] = 1..BufferSize
      /\ slots'[t] = [i \in 1..BufferSize |-> IF i = n THEN new ELSE slots[t][i]]
  <2>1. slots[t] = [i \in 1..BufferSize |-> slots[t][i]]
    BY DEF SafeInv
  <2> QED BY <1>6, <2>1
<1>8. \A u \in Types : slots'[u] = [i \in 1..BufferSize |-> slots'[u][i]]
  BY <1>6, <1>7 DEF SafeInv
<1>9. \A u \in Types : \A i \in 1..count'[u] : slots'[u][i].address \in Configured'
  <2> TAKE u \in Types
  <2> TAKE i \in 1..count'[u]
  <2>1. CASE u # t
    BY <2>1, <1>1, <1>5, <1>6 DEF SafeInv
  <2>2. CASE u = t /\ i = n
    BY <2>2, <1>2, <1>4, <1>5, <1>7
  <2>3. CASE u = t /\ i # n
    <3>1. i \in 1..count[t] /\ i \in 1..BufferSize
      BY <2>3, <1>1, <1>3, <1>4 DEF SafeInv
    <3>2. slots'[u][i] = slots[t][i]
      BY <2>3, <3>1, <1>7
    <3> QED BY <3>1, <3>2, <1>5 DEF SafeInv
  <2> QED BY <2>1, <2>2, <2>3
<1>10. /\ count' \in [Types -> Nat] /\ left' \in Nat
       /\ \A u \in Types : count'[u] + left' <= BufferSize
  BY <1>1, <1>3 DEF SafeInv
<1>11. ConfiguredAgentsAreSafe'
  BY <1>1 DEF ConfiguredAgentsAreSafe
<1>12. \A x \in DOMAIN agents' : agents'[x].address \in Configured'
  BY <1>5 DEF SafeInv, agentVars
<1> QED BY <1>1, <1>2, <1>5, <1>6, <1>8, <1>9, <1>10, <1>11, <1>12 DEF SafeInv

\* The samples of a configured agent lead the writer thread to it as well.
LEMMA SafeFlush ==
  ASSUME TableInv, SafeInv, UNCHANGED agentVars, Flush
  PROVE  SafeInv'
<1>1. /\ count' = [t \in Types |-> 0]
      /\ slots' \in {slots, ZeroedSlots}
      /\ UNCHANGED <<left, source, strangers>>
      /\ collector' =
           IF \E t \in Types : \E i \in 1..count[t] : Search(slots[t][i].address) = 0
           THEN "crashed" ELSE "recv"
  BY DEF Flush
<1>2. Configured' = Configured
  BY DEF Configured, agentVars
<1>3. OneBucketEach => collector' = "recv"
  BY <1>1, ConfiguredFound DEF SafeInv
<1>4. ConfiguredAgentsAreSafe'
  <2>1. OneBucketEach' <=> OneBucketEach
    BY DEF OneBucketEach, agentVars
  <2> QED BY <1>3, <2>1 DEF ConfiguredAgentsAreSafe, OneBucketEach
<1>5. DOMAIN slots' = Types /\ \A t \in Types : slots'[t] = [i \in 1..BufferSize |-> slots'[t][i]]
  BY <1>1 DEF SafeInv, ZeroedSlots
<1>6. /\ count' \in [Types -> Nat] /\ left' \in Nat
      /\ \A t \in Types : count'[t] + left' <= BufferSize
  <2>1. BufferSize \in Nat /\ left \in Nat
    BY ParserAssumption DEF SafeInv
  <2>2. \A t \in Types : count[t] \in Nat /\ count[t] + left <= BufferSize
    BY DEF SafeInv
  <2>3. \A t \in Types : left <= BufferSize
    BY <2>1, <2>2
  <2> QED BY <1>1, <2>1, <2>3
<1>7. \A t \in Types : 1..count'[t] = {}
  BY <1>1
<1>8. \A x \in DOMAIN agents' : agents'[x].address \in Configured'
  BY <1>2 DEF SafeInv, agentVars
<1>9. collector' # "parse"
  BY <1>1
<1> QED BY <1>4, <1>5, <1>6, <1>7, <1>8, <1>9 DEF SafeInv

\* The other steps of parseDatagram change neither the buffers nor the source.
LEMMA SafeOther ==
  ASSUME SafeInv, UNCHANGED <<agentVars, count, slots, source, strangers>>,
         left' = left \/ (left > 0 /\ left' = left - 1),
         collector' = collector \/ collector' = "recv"
  PROVE  SafeInv'
<1>1. Configured' = Configured
  BY DEF Configured, agentVars
<1>2. left' \in Nat /\ \A t \in Types : count'[t] + left' <= BufferSize
  <2>1. left \in Nat /\ BufferSize \in Nat
    BY ParserAssumption DEF SafeInv
  <2>2. ASSUME NEW t \in Types
        PROVE  count'[t] + left' <= BufferSize
    <3>1. count[t] \in Nat /\ count[t] + left <= BufferSize
      BY DEF SafeInv
    <3> QED BY <2>1, <3>1
  <2> QED BY <2>1, <2>2
<1>3. ConfiguredAgentsAreSafe'
  BY DEF SafeInv, ConfiguredAgentsAreSafe, agentVars
<1>4. \A x \in DOMAIN agents' : agents'[x].address \in Configured'
  BY <1>1 DEF SafeInv, agentVars
<1>5. collector' = "parse" => source' \in Configured'
  BY <1>1 DEF SafeInv
<1>6. \A t \in Types : \A i \in 1..count'[t] : slots'[t][i].address \in Configured'
  BY <1>1 DEF SafeInv
<1> QED BY <1>2, <1>3, <1>4, <1>5, <1>6 DEF SafeInv

LEMMA StepSafe ==
  ASSUME TableInv, SafeInv, [Next]_vars
  PROVE  SafeInv'
<1>1. CASE \E a \in Addresses : AgentAddress(a) /\ UNCHANGED parserVars
  BY <1>1, SafeAddress
<1>2. CASE /\ UNCHANGED <<nodes, hash, agent>>
           /\ \E a \in Addresses, own \in Addresses, n \in 0..Modulus - 1, samples \in Payloads :
                Datagram(a, own, n, samples)
  BY <1>2, SafeDatagram
<1>3. CASE UNCHANGED agentVars /\ \E t \in Types : ParseSample(t)
  BY <1>3, SafeSample
<1>4. CASE UNCHANGED agentVars /\ Flush
  BY <1>4, SafeFlush
<1>5. CASE UNCHANGED agentVars /\ (SkipSample \/ DatagramDone)
  <2>1. /\ UNCHANGED <<count, slots, source, strangers>>
        /\ left' = left \/ (left > 0 /\ left' = left - 1)
        /\ collector' = collector \/ collector' = "recv"
    BY <1>5 DEF SkipSample, DatagramDone
  <2> QED BY <1>5, <2>1, SafeOther
<1>6. CASE UNCHANGED <<agentVars, parserVars>>
  BY <1>6, SafeOther DEF parserVars
<1> QED BY <1>1, <1>2, <1>3, <1>4, <1>5, <1>6, TableSteps

\* As long as no two addresses share a bucket and only configured agents send,
\* neither thread of stcollectd uses an agent that was not found.
THEOREM ReceptionSafe == Spec => []ConfiguredAgentsAreSafe
<1>1. SafeInv => ConfiguredAgentsAreSafe
  BY DEF SafeInv
<1> QED BY <1>1, InitTable, StepTable, InitSafe, StepSafe, PTL DEF Spec

-----------------------------------------------------------------------------
(* The samples of a datagram.                                              *)

\* What ParserAssumption says of a sample.
Legal(s) ==
  /\ s.tag = "flow" => s.records # <<>>
  /\ s.tag \notin Types => s.records = <<>>
  /\ Range(s.records) \cap Types = {}

\* A sample's own item comes first, those of its records follow.
LEMMA ItemsOfSample ==
  ASSUME NEW s \in Sample, NEW n \in Nat
  PROVE  LET c == ItemsOf(s, n)
         IN  /\ c \in Seq(Item) /\ Len(s.records) \in Nat /\ Len(c) = Len(s.records) + 1
             /\ c[1] = [tag |-> s.tag, id |-> n, num |-> Len(s.records)]
             /\ \A i \in 1..Len(s.records) : c[i + 1] = [tag |-> s.records[i], id |-> n, num |-> 0]
<1> DEFINE first == [tag |-> s.tag, id |-> n, num |-> Len(s.records)]
           recs == [i \in 1..Len(s.records) |-> [tag |-> s.records[i], id |-> n, num |-> 0]]
           c == <<first>> \o recs
<1>1. s.tag \in STRING /\ s.records \in Seq(STRING) /\ Len(s.records) \in Nat
  BY DEF Sample
<1>2. first \in Item
  BY <1>1 DEF Item
<1>3. \A i \in 1..Len(s.records) : [tag |-> s.records[i], id |-> n, num |-> 0] \in Item
  BY <1>1 DEF Item
<1>4. recs \in Seq(Item) /\ Len(recs) = Len(s.records)
  <2>1. recs \in [1..Len(s.records) -> Item]
    BY <1>3
  <2> HIDE DEF recs
  <2> QED BY <1>1, <2>1
<1>5. \A i \in 1..Len(s.records) : recs[i] = [tag |-> s.records[i], id |-> n, num |-> 0]
  OBVIOUS
<1> HIDE DEF first, recs
<1>6. <<first>> \in Seq(Item) /\ Len(<<first>>) = 1 /\ <<first>>[1] = first
  BY <1>2
<1>7. /\ c \in Seq(Item) /\ Len(c) = 1 + Len(recs)
      /\ \A i \in 1..1 + Len(recs) : c[i] = IF i <= 1 THEN <<first>>[i] ELSE recs[i - 1]
  BY <1>4, <1>6, ConcatProperties
<1> HIDE DEF c
<1>8. c[1] = first
  BY <1>1, <1>4, <1>6, <1>7
<1>10. ASSUME NEW i \in 1..Len(s.records)
       PROVE  c[i + 1] = recs[i]
  <2>1. i + 1 \in 1..1 + Len(recs) /\ ~(i + 1 <= 1) /\ i + 1 - 1 = i
    BY <1>1, <1>4
  <2>2. c[i + 1] = recs[i + 1 - 1]
    BY <1>7, <2>1
  <2> QED BY <2>1, <2>2
<1>9. ItemsOf(s, n) = c
  BY DEF ItemsOf, c, first, recs
<1> QED BY <1>1, <1>4, <1>5, <1>7, <1>8, <1>9, <1>10 DEF first

\* The items of the first sample are followed by those of the others.
LEMMA ItemsFirst ==
  ASSUME NEW q \in Seq(Sample), q # <<>>, NEW n \in Nat
  PROVE  /\ Items(q, n) = ItemsOf(Head(q), n + 1) \o Items(Tail(q), n + 1)
         /\ Items(q, n) \in Seq(Item) /\ Items(Tail(q), n + 1) \in Seq(Item)
         /\ Head(q) \in Sample
<1> DEFINE p == [i \in 1..Len(q) |-> ItemsOf(q[i], n + i)]
           r == [i \in 1..Len(Tail(q)) |-> ItemsOf(Tail(q)[i], n + 1 + i)]
<1>1. /\ Len(q) \in Nat \ {0} /\ \A i \in 1..Len(q) : q[i] \in Sample
      /\ Head(q) = q[1] /\ Head(q) \in Sample
      /\ Len(Tail(q)) = Len(q) - 1 /\ \A i \in 1..Len(q) - 1 : Tail(q)[i] = q[i + 1]
  BY HeadTailProperties
<1>2. \A i \in 1..Len(q) : ItemsOf(q[i], n + i) \in Seq(Item)
  <2>1. \A i \in 1..Len(q) : n + i \in Nat /\ q[i] \in Sample
    BY <1>1
  <2>2. \A s \in Sample, m \in Nat : ItemsOf(s, m) \in Seq(Item)
    BY ItemsOfSample
  <2> QED BY <2>1, <2>2
<1>3. p \in [1..Len(q) -> Seq(Item)] /\ \A i \in 1..Len(q) : p[i] = ItemsOf(q[i], n + i)
  BY <1>2
<1>4. r = [i \in 1..Len(q) - 1 |-> p[i + 1]]
  <2>1. \A i \in 1..Len(q) - 1 : n + 1 + i = n + (i + 1) /\ i + 1 \in 1..Len(q)
    BY <1>1
  <2>2. \A i \in 1..Len(q) - 1 : ItemsOf(Tail(q)[i], n + 1 + i) = p[i + 1]
    BY <1>1, <1>3, <2>1
  <2> HIDE DEF p
  <2> QED BY <1>1, <2>2
<1>5. p[1] = ItemsOf(Head(q), n + 1)
  BY <1>1, <1>3
<1>6. Items(q, n) = FlattenSeq(p) /\ Items(Tail(q), n + 1) = FlattenSeq(r)
  BY DEF Items
<1> HIDE DEF p, r
<1>7. FlattenSeq(p) = p[1] \o FlattenSeq(r)
  <2>1. Len(q) \in Nat \ {0} /\ p \in [1..Len(q) -> Seq(Item)]
    BY <1>1, <1>3
  <2>2. r \in [1..Len(q) - 1 -> Seq(Item)] /\ \A i \in 1..Len(q) - 1 : r[i] = p[i + 1]
    BY <1>4, <2>1
  <2> QED BY <2>1, <2>2, FlattenFirst
<1>8. FlattenSeq(p) \in Seq(Item)
  BY <1>1, <1>3, FlattenElements
<1>9. FlattenSeq(r) \in Seq(Item)
  <2>1. Len(q) - 1 \in Nat /\ \A i \in 1..Len(q) - 1 : i + 1 \in 1..Len(q)
    BY <1>1
  <2>2. r \in [1..Len(q) - 1 -> Seq(Item)]
    BY <1>3, <1>4, <2>1
  <2> QED BY <2>1, <2>2, FlattenElements
<1> QED BY <1>1, <1>5, <1>6, <1>7, <1>8, <1>9

\* No samples, no items; and nothing meant.
LEMMA NoSamples ==
  ASSUME NEW n, NEW t, NEW a
  PROVE  Items(<<>>, n) = <<>> /\ MeantOf(t, <<>>, n, a) = <<>>
<1>1. Len(<<>>) = 0 /\ 1..0 = {}
  OBVIOUS
<1>2. [i \in 1..Len(<<>>) |-> ItemsOf(<<>>[i], n + i)] = <<>>
  BY <1>1
<1>3. [i \in 1..Len(<<>>) |->
         IF <<>>[i].tag = t THEN <<Meant(t, <<>>[i], n + i, a)>> ELSE <<>>] = <<>>
  BY <1>1
<1> QED BY <1>2, <1>3, FlattenEmpty DEF Items, MeantOf

LEMMA ItemsType ==
  ASSUME NEW q \in Seq(Sample), NEW n \in Nat
  PROVE  Items(q, n) \in Seq(Item)
<1>1. CASE q = <<>>
  <2>1. Items(<<>>, n) = <<>>
    BY NoSamples
  <2>2. <<>> \in Seq(Item)
    OBVIOUS
  <2> QED BY <1>1, <2>1, <2>2
<1>2. CASE q # <<>>
  BY <1>2, ItemsFirst
<1> QED BY <1>1, <1>2

LEMMA MeantType ==
  ASSUME NEW t \in Types, NEW s, NEW n \in Nat, NEW a \in Addresses \cup {0}
  PROVE  Meant(t, s, n, a) \in Slot(t)
BY DEF Meant, Slot

\* What is meant by the samples is sequence of slots, one for each of the type.
LEMMA MeantElements ==
  ASSUME NEW q \in Seq(Sample), NEW n \in Nat, NEW t \in Types, NEW a \in Addresses \cup {0}
  PROVE  /\ MeantOf(t, q, n, a) \in Seq(Slot(t))
         /\ \A i \in DOMAIN q :
              q[i].tag = t => Meant(t, q[i], n + i, a) \in Range(MeantOf(t, q, n, a))
<1> DEFINE p == [i \in 1..Len(q) |->
                   IF q[i].tag = t THEN <<Meant(t, q[i], n + i, a)>> ELSE <<>>]
<1>1. Len(q) \in Nat /\ DOMAIN q = 1..Len(q)
  OBVIOUS
<1>2. \A i \in 1..Len(q) : n + i \in Nat
  BY <1>1
<1>3. \A i \in 1..Len(q) :
        (IF q[i].tag = t THEN <<Meant(t, q[i], n + i, a)>> ELSE <<>>) \in Seq(Slot(t))
  <2> TAKE i \in 1..Len(q)
  <2>1. Meant(t, q[i], n + i, a) \in Slot(t)
    BY <1>2, MeantType
  <2> QED BY <2>1
<1>4. p \in [1..Len(q) -> Seq(Slot(t))]
  BY <1>3
<1>5. \A i \in 1..Len(q) : q[i].tag = t => p[i] = <<Meant(t, q[i], n + i, a)>>
  OBVIOUS
<1>6. MeantOf(t, q, n, a) = FlattenSeq(p)
  BY DEF MeantOf
<1> HIDE DEF p
<1>7. /\ FlattenSeq(p) \in Seq(Slot(t))
      /\ \A x : x \in Range(FlattenSeq(p)) <=> \E i \in 1..Len(q) : x \in Range(p[i])
  BY <1>1, <1>4, FlattenElements
<1>8. \A x : x \in Range(<<x>>)
  BY DEF Range
<1>9. ASSUME NEW i \in DOMAIN q, q[i].tag = t
      PROVE  Meant(t, q[i], n + i, a) \in Range(FlattenSeq(p))
  BY <1>1, <1>5, <1>7, <1>8, <1>9
<1> QED BY <1>6, <1>7, <1>9

\* What is meant by the first sample comes first.
LEMMA MeantFirst ==
  ASSUME NEW q \in Seq(Sample), q # <<>>, NEW n \in Nat, NEW t \in Types, NEW a \in Addresses \cup {0}
  PROVE  MeantOf(t, q, n, a) =
           (IF Head(q).tag = t THEN <<Meant(t, Head(q), n + 1, a)>> ELSE <<>>)
             \o MeantOf(t, Tail(q), n + 1, a)
<1> DEFINE M(s, m) == IF s.tag = t THEN <<Meant(t, s, m, a)>> ELSE <<>>
           p == [i \in 1..Len(q) |-> M(q[i], n + i)]
           r == [i \in 1..Len(Tail(q)) |-> M(Tail(q)[i], n + 1 + i)]
<1>1. /\ Len(q) \in Nat \ {0} /\ \A i \in 1..Len(q) : q[i] \in Sample
      /\ Head(q) = q[1]
      /\ Len(Tail(q)) = Len(q) - 1 /\ \A i \in 1..Len(q) - 1 : Tail(q)[i] = q[i + 1]
  BY HeadTailProperties
<1>2. \A s, m : m \in Nat => M(s, m) \in Seq(Slot(t))
  BY MeantType
<1>3. MeantOf(t, q, n, a) = FlattenSeq(p) /\ MeantOf(t, Tail(q), n + 1, a) = FlattenSeq(r)
  BY DEF MeantOf
<1> SUFFICES FlattenSeq(p) = M(Head(q), n + 1) \o FlattenSeq(r)
  BY <1>3
<1> HIDE DEF M
<1>4. \A i \in 1..Len(q) : n + i \in Nat
  BY <1>1
<1>5. p \in [1..Len(q) -> Seq(Slot(t))] /\ \A i \in 1..Len(q) : p[i] = M(q[i], n + i)
  BY <1>2, <1>4
<1>6. r = [i \in 1..Len(q) - 1 |-> p[i + 1]]
  <2>1. \A i \in 1..Len(q) - 1 : n + 1 + i = n + (i + 1) /\ i + 1 \in 1..Len(q)
    BY <1>1
  <2>2. \A i \in 1..Len(q) - 1 : M(Tail(q)[i], n + 1 + i) = p[i + 1]
    BY <1>1, <1>5, <2>1
  <2> HIDE DEF p
  <2> QED BY <1>1, <2>2
<1>7. p[1] = M(Head(q), n + 1)
  BY <1>1, <1>5
<1> HIDE DEF p, r
<1>8. FlattenSeq(p) = p[1] \o FlattenSeq(r)
  <2>1. Len(q) \in Nat \ {0} /\ p \in [1..Len(q) -> Seq(Slot(t))]
    BY <1>1, <1>5
  <2>2. r \in [1..Len(q) - 1 -> Seq(Slot(t))] /\ \A i \in 1..Len(q) - 1 : r[i] = p[i + 1]
    BY <1>6, <2>1
  <2> QED BY <2>1, <2>2, FlattenFirst
<1> QED BY <1>7, <1>8

\* The types that the samples' proof needs; SafeInv says where count may be.
ReadTyped ==
  /\ collector \in {"recv", "parse", "crashed"}
  /\ taken \in Nat
  /\ source \in Addresses \cup {0}
  /\ plain \in BOOLEAN
  /\ DOMAIN slots = Types /\ \A t \in Types : slots[t] \in [1..BufferSize -> Slot(t)]
  /\ DOMAIN expected = Types /\ \A t \in Types : expected[t] \in Seq(Slot(t))

\* The datagram from the cursor on: records r of a sample that was read in part,
\* then samples q, the ones behind number m.
Unread(m, r, q) ==
  /\ taken = m + Len(q)
  /\ rest = r \o Items(q, m)
  /\ left <= Len(r) + Len(q)
  /\ \A i \in DOMAIN r : r[i].tag \notin Types
  /\ \A i \in DOMAIN q : Legal(q[i])
  /\ collector # "parse" => r = <<>> /\ q = <<>> /\ left = 0
  /\ \A t \in Types : \A i \in 1..count[t] : slots[t][i].id <= m
  /\ \A t \in Types : \A i \in DOMAIN q :
       q[i].tag = t => \E j \in DOMAIN expected[t] :
                         expected[t][j].id = m + i /\ expected[t][j].address = source
  /\ plain => /\ r = <<>> /\ left = Len(q)
              /\ \A i \in DOMAIN q : Plain(q[i])
              /\ \A t \in Types : expected[t] = Buffered(t) \o MeantOf(t, q, m, source)

\* Every sample in a buffer is one that was sent, in the order they were sent.
SlotsMatch ==
  \A t \in Types : \A i \in 1..count[t] :
    /\ \E j \in DOMAIN expected[t] :
         expected[t][j].id = slots[t][i].id /\ expected[t][j].address = slots[t][i].address
    /\ i < count[t] => slots[t][i].id < slots[t][i + 1].id

ReadInv ==
  /\ ReadTyped
  /\ \E m \in Nat, r \in Seq(Item), q \in Seq(Sample) : Unread(m, r, q)
  /\ SlotsMatch

LEMMA BufferedType ==
  ASSUME ReadTyped, SafeInv, NEW t \in Types
  PROVE  Buffered(t) \in Seq(Slot(t)) /\ Len(Buffered(t)) = count[t]
<1>1. count[t] \in Nat /\ count[t] <= BufferSize /\ BufferSize \in Nat
  BY ParserAssumption DEF SafeInv
<1>2. \A i \in 1..count[t] : slots[t][i] \in Slot(t)
  BY <1>1 DEF ReadTyped
<1>3. Buffered(t) \in [1..count[t] -> Slot(t)]
  BY <1>2 DEF Buffered
<1> QED BY <1>1, <1>3

LEMMA ReadInvSays == ReadInv /\ SafeInv => SamplesAreRead
<1> SUFFICES ASSUME ReadInv, SafeInv PROVE SamplesAreRead
  OBVIOUS
<1>1. \A t \in Types : \A i \in 1..count[t] :
        \E j \in DOMAIN expected[t] :
          /\ expected[t][j].id = slots[t][i].id
          /\ expected[t][j].address = slots[t][i].address
          /\ i < count[t] => slots[t][i].id < slots[t][i + 1].id
  BY DEF ReadInv, SlotsMatch
<1>2. ASSUME collector = "recv", plain, NEW t \in Types
      PROVE  Buffered(t) = expected[t]
  <2>1. PICK m \in Nat, r \in Seq(Item), q \in Seq(Sample) : Unread(m, r, q)
    BY DEF ReadInv
  <2>2. q = <<>> /\ expected[t] = Buffered(t) \o MeantOf(t, q, m, source)
    BY <1>2, <2>1 DEF Unread
  <2>3. expected[t] = Buffered(t) \o <<>>
    BY <2>2, NoSamples
  <2>4. Buffered(t) \in Seq(Slot(t))
    BY BufferedType DEF ReadInv
  <2> QED BY <2>3, <2>4, ConcatEmptySeq
<1> QED BY <1>1, <1>2 DEF SamplesAreRead

LEMMA InitRead == Init => ReadInv
<1> SUFFICES ASSUME Init PROVE ReadInv
  OBVIOUS
<1>1. ParserInit
  BY DEF Init
<1>2. BufferSize \in Nat
  BY ParserAssumption
<1>3. \A t \in Types : slots[t] \in [1..BufferSize -> Slot(t)] /\ DOMAIN slots = Types
  <2>1. \A t \in Types : EmptySlot(t) \in Slot(t)
    BY DEF EmptySlot, Slot
  <2> QED BY <1>1, <2>1 DEF ParserInit, ZeroedSlots
<1>4. /\ collector = "recv" /\ rest = <<>> /\ left = 0 /\ source = 0 /\ taken = 0 /\ plain = TRUE
      /\ count = [t \in Types |-> 0] /\ expected = [t \in Types |-> <<>>]
  BY <1>1 DEF ParserInit
<1>5. ReadTyped
  BY <1>3, <1>4 DEF ReadTyped, Types
<1>6. \A t \in Types : Buffered(t) = <<>>
  BY <1>4 DEF Buffered
<1>7. <<>> \in Seq(Item) /\ <<>> \in Seq(Sample) /\ Len(<<>>) = 0 /\ DOMAIN <<>> = {}
  OBVIOUS
<1>8. Unread(0, <<>>, <<>>)
  <2>1. taken = 0 + Len(<<>>) /\ 0 \in Nat
    <3>1. taken = 0
      BY <1>4
    <3> QED BY <1>7, <3>1
  <2>2. rest = <<>> \o Items(<<>>, 0)
    BY <1>4, NoSamples
  <2>3. \A t \in Types : expected[t] = Buffered(t) \o MeantOf(t, <<>>, 0, source)
    BY <1>4, <1>6, NoSamples
  <2>4. \A t \in Types : 1..count[t] = {}
    BY <1>4
  <2>5. left <= Len(<<>>) + Len(<<>>) /\ left = Len(<<>>)
    BY <1>4
  <2> QED BY <1>4, <1>7, <2>1, <2>2, <2>3, <2>4, <2>5 DEF Unread
<1>9. SlotsMatch
  BY <1>4 DEF SlotsMatch
<1> QED BY <1>5, <1>7, <1>8, <1>9 DEF ReadInv

\* A datagram brings its samples, and what is expected with them.
LEMMA ReadDatagram ==
  ASSUME TableInv, SafeInv, ReadInv, UNCHANGED <<nodes, hash>>,
         NEW a \in Addresses, NEW own \in Addresses, NEW n, NEW samples \in Payloads,
         Datagram(a, own, n, samples)
  PROVE  ReadInv'
<1> DEFINE sender == IF own = Loopback THEN a ELSE own
           g == Search(sender)
<1>1. PICK m \in Nat, r \in Seq(Item), q \in Seq(Sample) : Unread(m, r, q)
  BY DEF ReadInv
<1>2. collector = "recv" /\ UNCHANGED <<count, slots>>
  BY DEF Datagram
<1>3. /\ r = <<>> /\ q = <<>> /\ Len(q) = 0 /\ left = 0
      /\ taken \in Nat /\ taken = m
  BY <1>1, <1>2 DEF Unread, ReadInv, ReadTyped
<1>4. samples \in Seq(Sample) /\ Len(samples) \in Nat /\ DOMAIN samples = 1..Len(samples)
      /\ \A i \in DOMAIN samples : Legal(samples[i])
  BY ParserAssumption DEF Legal
<1>5. CASE g = 0
  <2>1. /\ collector' = "crashed"
        /\ UNCHANGED <<rest, left, source, taken, expected, plain>>
    BY <1>5 DEF Datagram
  <2>2. Unread(m, r, q)'
    BY <1>1, <1>2, <1>3, <2>1 DEF Unread, Buffered
  <2>3. ReadTyped' /\ SlotsMatch'
    BY <1>2, <2>1 DEF ReadInv, ReadTyped, SlotsMatch
  <2> QED BY <2>2, <2>3 DEF ReadInv
<1>6. CASE g # 0
  <2> DEFINE b == agents[g].address
             E(t) == MeantOf(t, samples, taken, b)
  <2>1. /\ collector' = "parse"
        /\ source' = b
        /\ rest' = Items(samples, taken)
        /\ left' = Len(samples)
        /\ taken' = taken + Len(samples)
        /\ expected' = [t \in Types |-> expected[t] \o E(t)]
        /\ plain' = (plain /\ \A i \in DOMAIN samples : Plain(samples[i]))
    BY <1>6 DEF Datagram, Attributed
  <2>2. b \in Addresses
    <3>1. sender \in Addresses
      OBVIOUS
    <3> HIDE DEF sender
    <3>2. g \in DOMAIN agents
      BY <1>6, <3>1, SearchType
    <3>3. Configured \subseteq Addresses
      BY DEF Configured, TableInv
    <3> QED BY <3>2, <3>3 DEF SafeInv
  <2> HIDE DEF b, g, sender
  <2>3. ASSUME NEW t \in Types
        PROVE  /\ E(t) \in Seq(Slot(t)) /\ expected[t] \in Seq(Slot(t))
               /\ \A i \in DOMAIN samples :
                    samples[i].tag = t => Meant(t, samples[i], taken + i, b) \in Range(E(t))
    <3>1. expected[t] \in Seq(Slot(t))
      BY DEF ReadInv, ReadTyped
    <3> QED BY <1>3, <1>4, <2>2, <3>1, MeantElements
  <2> HIDE DEF E
  <2>4. \A t \in Types : expected'[t] = expected[t] \o E(t)
    BY <2>1
  <2>5. ASSUME NEW t \in Types
        PROVE  /\ expected'[t] \in Seq(Slot(t))
               /\ Range(expected'[t]) = Range(expected[t]) \cup Range(E(t))
    <3>1. E(t) \in Seq(Slot(t)) /\ expected[t] \in Seq(Slot(t))
      BY <2>3
    <3>2. \A x, y \in Seq(Slot(t)) : x \o y \in Seq(Slot(t)) /\ Range(x \o y) = Range(x) \cup Range(y)
      BY ConcatElements
    <3> QED BY <2>4, <3>1, <3>2
  <2>6. ReadTyped'
    <3>1. taken' \in Nat /\ plain' \in BOOLEAN /\ source' \in Addresses \cup {0}
      BY <1>3, <1>4, <2>1, <2>2
    <3>2. DOMAIN slots' = Types /\ \A t \in Types : slots'[t] \in [1..BufferSize -> Slot(t)]
      BY <1>2 DEF ReadInv, ReadTyped
    <3> QED BY <2>1, <2>5, <3>1, <3>2 DEF ReadTyped
  <2>7. SlotsMatch'
    <3> SUFFICES ASSUME NEW t \in Types, NEW i \in 1..count[t]
                 PROVE  /\ \E j \in DOMAIN expected'[t] :
                             /\ expected'[t][j].id = slots[t][i].id
                             /\ expected'[t][j].address = slots[t][i].address
                        /\ i < count[t] => slots[t][i].id < slots[t][i + 1].id
      BY <1>2 DEF SlotsMatch
    <3>1. PICK j \in DOMAIN expected[t] :
            expected[t][j].id = slots[t][i].id /\ expected[t][j].address = slots[t][i].address
      BY DEF ReadInv, SlotsMatch
    <3>2. expected[t][j] \in Range(expected'[t])
      BY <2>5 DEF Range
    <3>3. PICK k \in DOMAIN expected'[t] : expected'[t][k] = expected[t][j]
      BY <3>2 DEF Range
    <3> QED BY <3>1, <3>3 DEF ReadInv, SlotsMatch
  <2>8. Unread(m, <<>>, samples)'
    <3>1. taken' = m + Len(samples)
      BY <1>3, <1>4, <2>1
    <3>2. Len(<<>>) = 0 /\ DOMAIN <<>> = {} /\ <<>> \in Seq(Item)
      OBVIOUS
    <3>3. rest' = <<>> \o Items(samples, m)
      <4>1. Items(samples, taken) \in Seq(Item)
        BY <1>3, <1>4, ItemsType
      <4> QED BY <1>3, <2>1, <4>1, ConcatEmptySeq
    <3>4. \A t \in Types : \A i \in 1..count'[t] : slots'[t][i].id <= m
      BY <1>1, <1>2, <1>3 DEF Unread
    <3>5. \A t \in Types : \A i \in DOMAIN samples :
            samples[i].tag = t => \E j \in DOMAIN expected'[t] :
                                    expected'[t][j].id = m + i /\ expected'[t][j].address = source'
      <4> SUFFICES ASSUME NEW t \in Types, NEW i \in DOMAIN samples, samples[i].tag = t
                   PROVE  \E j \in DOMAIN expected'[t] :
                            expected'[t][j].id = m + i /\ expected'[t][j].address = source'
        OBVIOUS
      <4>1. Meant(t, samples[i], taken + i, b) \in Range(expected'[t])
        BY <2>3, <2>5
      <4>2. PICK j \in DOMAIN expected'[t] : expected'[t][j] = Meant(t, samples[i], taken + i, b)
        BY <4>1 DEF Range
      <4>3. expected'[t][j].id = m + i /\ expected'[t][j].address = b
        BY <1>3, <4>2 DEF Meant
      <4> QED BY <2>1, <4>3
    <3>6. ASSUME plain', NEW t \in Types
          PROVE  expected'[t] = Buffered(t)' \o MeantOf(t, samples, m, source')
      <4>1. plain
        BY <2>1, <3>6
      <4>2. expected[t] = Buffered(t) \o MeantOf(t, q, m, source)
        BY <1>1, <4>1 DEF Unread
      <4>3. Buffered(t) \in Seq(Slot(t))
        BY BufferedType DEF ReadInv
      <4>4. expected[t] = Buffered(t)
        <5>1. expected[t] = Buffered(t) \o <<>>
          BY <1>3, <4>2, NoSamples
        <5> QED BY <4>3, <5>1, ConcatEmptySeq
      <4>5. Buffered(t)' = Buffered(t)
        BY <1>2 DEF Buffered
      <4> QED BY <1>3, <2>1, <2>4, <4>4, <4>5 DEF E
    <3>7. left' <= Len(<<>>) + Len(samples) /\ left' = Len(samples)
      BY <1>4, <2>1, <3>2
    <3>8. plain' => \A i \in DOMAIN samples : Plain(samples[i])
      BY <2>1
    <3> QED BY <1>3, <1>4, <2>1, <3>1, <3>2, <3>3, <3>4, <3>5, <3>6, <3>7, <3>8 DEF Unread
  <2>9. <<>> \in Seq(Item)
    OBVIOUS
  <2> QED BY <1>4, <2>6, <2>7, <2>8, <2>9 DEF ReadInv
<1> QED BY <1>5, <1>6

\* The cursor is at a record that was left over, or at a sample.
LEMMA AtCursor ==
  ASSUME NEW m \in Nat, NEW r \in Seq(Item), NEW q \in Seq(Sample), Unread(m, r, q),
         left \in Nat, left > 0
  PROVE  \/ /\ r # <<>> /\ Head(rest).tag \notin Types
            /\ Tail(rest) = Tail(r) \o Items(q, m)
         \/ /\ r = <<>> /\ q # <<>>
            /\ rest = ItemsOf(Head(q), m + 1) \o Items(Tail(q), m + 1)
            /\ Head(rest) = [tag |-> Head(q).tag, id |-> m + 1, num |-> Len(Head(q).records)]
            /\ rest # <<>>
<1>1. rest = r \o Items(q, m) /\ left <= Len(r) + Len(q)
  BY DEF Unread
<1>2. Len(r) \in Nat /\ Len(q) \in Nat
  OBVIOUS
<1>3. CASE r # <<>>
  <2> DEFINE I == Items(q, m)
             x == r \o I
  <2>1. I \in Seq(Item)
    BY ItemsType
  <2>2. 1 \in DOMAIN r /\ r[1].tag \notin Types /\ Len(r) >= 1
    BY <1>2, <1>3 DEF Unread
  <2> HIDE DEF I
  <2>3. /\ x \in Seq(Item) /\ Len(x) = Len(r) + Len(I)
        /\ \A i \in 1..Len(r) + Len(I) : x[i] = IF i <= Len(r) THEN r[i] ELSE I[i - Len(r)]
    BY <2>1, ConcatProperties
  <2>4. SubSeq(x, 2, Len(x)) = SubSeq(r, 2, Len(r)) \o I
    <3>1. 1 \in 0..Len(r) /\ 1 + 1 = 2
      BY <1>2, <2>2
    <3>2. SubSeq(x, 1 + 1, Len(x)) = SubSeq(r, 1 + 1, Len(r)) \o I
      BY <2>1, <3>1, SuffixOfConcat
    <3> QED BY <3>1, <3>2
  <2>5. Len(I) \in Nat
    BY <2>1
  <2> HIDE DEF x
  <2>6. x # <<>> /\ x[1] = r[1]
    BY <1>2, <2>2, <2>3, <2>5
  <2>7. Head(x) = x[1] /\ Tail(x) = SubSeq(x, 2, Len(x)) /\ Tail(r) = SubSeq(r, 2, Len(r))
    BY <1>3, <2>3, <2>6, TailIsSubSeq
  <2>8. rest = x
    BY <1>1 DEF x, I
  <2> QED BY <1>3, <2>2, <2>4, <2>6, <2>7, <2>8 DEF I
<1>4. CASE r = <<>>
  <2>1. q # <<>>
    BY <1>1, <1>2, <1>4
  <2> DEFINE c == ItemsOf(Head(q), m + 1)
             d == Items(Tail(q), m + 1)
  <2>2. Items(q, m) = c \o d /\ Items(q, m) \in Seq(Item) /\ d \in Seq(Item) /\ Head(q) \in Sample
    BY <2>1, ItemsFirst
  <2>3. rest = c \o d
    BY <1>1, <1>4, <2>2, ConcatEmptySeq
  <2>4. /\ c \in Seq(Item) /\ Len(Head(q).records) \in Nat /\ Len(c) = Len(Head(q).records) + 1
        /\ c[1] = [tag |-> Head(q).tag, id |-> m + 1, num |-> Len(Head(q).records)]
    BY <2>2, ItemsOfSample
  <2> HIDE DEF c, d
  <2>5. /\ c \o d \in Seq(Item) /\ Len(c \o d) = Len(c) + Len(d)
        /\ \A i \in 1..Len(c) + Len(d) : (c \o d)[i] = IF i <= Len(c) THEN c[i] ELSE d[i - Len(c)]
    BY <2>2, <2>4, ConcatProperties
  <2>6. Len(d) \in Nat
    BY <2>2
  <2>7. (c \o d)[1] = c[1] /\ Len(c \o d) >= 1
    BY <2>4, <2>5, <2>6
  <2>8. c \o d # <<>> /\ Head(c \o d) = (c \o d)[1]
    BY <2>5, <2>7
  <2> QED BY <1>4, <2>1, <2>3, <2>4, <2>7, <2>8 DEF c, d
<1> QED BY <1>3, <1>4

\* The samples behind the first, and their numbers.
LEMMA LaterSamples ==
  ASSUME NEW m \in Nat, NEW r \in Seq(Item), NEW q \in Seq(Sample), q # <<>>, Unread(m, r, q)
  PROVE  /\ Tail(q) \in Seq(Sample) /\ Len(Tail(q)) = Len(q) - 1 /\ Len(q) \in Nat
         /\ taken = m + 1 + Len(Tail(q))
         /\ Head(q) \in Sample /\ Legal(Head(q)) /\ 1 \in DOMAIN q /\ Head(q) = q[1]
         /\ \A i \in DOMAIN Tail(q) : Legal(Tail(q)[i])
         /\ plain => Plain(Head(q)) /\ \A i \in DOMAIN Tail(q) : Plain(Tail(q)[i])
         /\ \A t \in Types : \A i \in DOMAIN Tail(q) :
              Tail(q)[i].tag = t => \E j \in DOMAIN expected[t] :
                                      expected[t][j].id = m + 1 + i /\ expected[t][j].address = source
<1>1. /\ Head(q) \in Sample /\ Tail(q) \in Seq(Sample) /\ Len(Tail(q)) = Len(q) - 1
      /\ \A i \in 1..Len(Tail(q)) : Tail(q)[i] = q[i + 1]
  BY HeadTailProperties
<1>2. Len(q) \in Nat /\ Len(q) >= 1 /\ DOMAIN q = 1..Len(q) /\ Head(q) = q[1]
  OBVIOUS
<1>3. DOMAIN Tail(q) = 1..Len(Tail(q))
  BY <1>1
<1>4. taken = m + Len(q)
  BY DEF Unread
<1>5. \A i \in DOMAIN Tail(q) : Tail(q)[i] = q[i + 1] /\ i + 1 \in DOMAIN q /\ m + (i + 1) = m + 1 + i
  BY <1>1, <1>2, <1>3
<1>6. taken = m + 1 + Len(Tail(q)) /\ 1 \in DOMAIN q
  BY <1>1, <1>2, <1>4
<1>7. \A i \in DOMAIN q : Legal(q[i]) /\ (plain => Plain(q[i]))
  BY DEF Unread
<1>8. \A t \in Types : \A i \in DOMAIN Tail(q) :
        Tail(q)[i].tag = t => \E j \in DOMAIN expected[t] :
                                expected[t][j].id = m + 1 + i /\ expected[t][j].address = source
  <2> TAKE t \in Types
  <2> TAKE i \in DOMAIN Tail(q)
  <2>1. \A k \in DOMAIN q : q[k].tag = t => \E j \in DOMAIN expected[t] :
          expected[t][j].id = m + k /\ expected[t][j].address = source
    BY DEF Unread
  <2>2. q[i + 1].tag = t => \E j \in DOMAIN expected[t] :
          expected[t][j].id = m + (i + 1) /\ expected[t][j].address = source
    BY <1>5, <2>1
  <2> QED BY <1>5, <2>2
<1> QED BY <1>1, <1>2, <1>5, <1>6, <1>7, <1>8

\* What parseSample reads of the first sample, and what it leaves of its records.
LEMMA SampleParsed ==
  ASSUME NEW m \in Nat, NEW r \in Seq(Item), NEW q \in Seq(Sample), Unread(m, r, q),
         left \in Nat, NEW t \in Types, ParseSample(t)
  PROVE  /\ r = <<>> /\ q # <<>> /\ Head(q).tag = t /\ Head(rest).id = m + 1
         /\ \E o \in Seq(Item) :
              /\ rest' = o \o Items(Tail(q), m + 1)
              /\ \A i \in DOMAIN o : o[i].tag \notin Types
              /\ Plain(Head(q)) => o = <<>>
         /\ Plain(Head(q)) =>
              \A p \in Parts[t] :
                (p \in Range(Head(q).records)) <=>
                \E i \in DOMAIN SubSeq(rest, 2, RecordsRead[t] + 1) :
                  SubSeq(rest, 2, RecordsRead[t] + 1)[i].tag = p
<1> DEFINE s == Head(q)
           l == Len(s.records)
           c == ItemsOf(s, m + 1)
           d == Items(Tail(q), m + 1)
           k == RecordsRead[t]
           o == SubSeq(c, k + 1 + 1, Len(c))
           e == SubSeq(rest, 2, k + 1)
<1>1. /\ left > 0 /\ Head(rest).tag = t
      /\ rest' = SubSeq(rest, k + 2, Len(rest))
  BY DEF ParseSample
<1>2. /\ r = <<>> /\ q # <<>> /\ rest = c \o d
      /\ Head(rest) = [tag |-> s.tag, id |-> m + 1, num |-> l]
  BY <1>1, AtCursor
<1>3. s \in Sample /\ Legal(s) /\ Tail(q) \in Seq(Sample) /\ s.tag = t
      /\ Head(rest).id = m + 1 /\ Head(rest).num = l
  <2>1. s \in Sample /\ Legal(s) /\ Tail(q) \in Seq(Sample)
    BY <1>2, LaterSamples
  <2> HIDE DEF s, l, c, d, k, o, e
  <2>2. Head(rest).tag = s.tag /\ Head(rest).id = m + 1 /\ Head(rest).num = l
    <3>1. Head(rest) = [tag |-> s.tag, id |-> m + 1, num |-> l]
      BY <1>2
    <3> QED BY <3>1
  <2> QED BY <1>1, <2>1, <2>2
<1>4. l \in Nat /\ s.records \in Seq(STRING) /\ DOMAIN s.records = 1..l
  BY <1>3 DEF Sample
<1>5. k = (IF t = "flow" THEN 1 ELSE l) /\ k \in 0..l /\ k + 1 + 1 = k + 2
  <2>1. k = IF t = "flow" THEN 1 ELSE l
    <3>1. RecordsRead["flow"] = 1 /\ RecordsRead["cntr"] = l
      BY <1>3 DEF RecordsRead
    <3> HIDE DEF l
    <3> QED BY <3>1 DEF Types
  <2>2. t = "flow" => l >= 1
    <3>1. t = "flow" => s.records # <<>>
      BY <1>3 DEF Legal
    <3> QED BY <1>4, <3>1
  <2> HIDE DEF k, l
  <2> QED BY <1>4, <2>1, <2>2
<1>6. /\ c \in Seq(Item) /\ Len(c) = l + 1 /\ d \in Seq(Item)
      /\ \A i \in 1..l : c[i + 1] = [tag |-> s.records[i], id |-> m + 1, num |-> 0]
  <2>1. m + 1 \in Nat
    OBVIOUS
  <2> QED BY <1>3, <2>1, ItemsOfSample, ItemsType
<1> HIDE DEF c, d, k, s, l
<1>7. /\ SubSeq(c \o d, k + 1 + 1, Len(c \o d)) = o \o d
      /\ o \in Seq(Item) /\ Len(o) = Len(c) - (k + 1)
      /\ \A i \in 1..Len(c) - (k + 1) : o[i] = c[k + 1 + i]
  <2>1. k + 1 \in 0..Len(c)
    BY <1>4, <1>5, <1>6
  <2>2. \A j \in 0..Len(c) :
          /\ SubSeq(c \o d, j + 1, Len(c \o d)) = SubSeq(c, j + 1, Len(c)) \o d
          /\ SubSeq(c, j + 1, Len(c)) \in Seq(Item)
          /\ Len(SubSeq(c, j + 1, Len(c))) = Len(c) - j
          /\ \A i \in 1..Len(c) - j : SubSeq(c, j + 1, Len(c))[i] = c[j + i]
    BY <1>6, SuffixOfConcat
  <2> QED BY <2>1, <2>2
<1> HIDE DEF o
<1>8. rest' = o \o d
  BY <1>1, <1>2, <1>5, <1>7
<1>9. \A i \in 1..l : s.records[i] \notin Types
  BY <1>3, <1>4 DEF Legal, Range
<1>10. ASSUME NEW i \in DOMAIN o
       PROVE  o[i].tag \notin Types
  <2>1. i \in 1..l - k /\ Len(o) = l - k
    BY <1>4, <1>5, <1>6, <1>7
  <2>2. k + i \in 1..l /\ k + 1 + i = k + i + 1 /\ i \in 1..Len(c) - (k + 1)
    BY <1>4, <1>5, <1>6, <2>1
  <2>3. o[i] = c[k + i + 1]
    BY <1>7, <2>2
  <2>4. o[i].tag = s.records[k + i]
    <3>1. c[k + i + 1] = [tag |-> s.records[k + i], id |-> m + 1, num |-> 0]
      BY <1>6, <2>2
    <3> HIDE DEF e
    <3> QED BY <2>3, <3>1
  <2> QED BY <1>9, <2>2, <2>4
<1>11. Plain(s) => k = l
  <2>1. CASE t = "flow"
    <3>1. Plain(s) => s.records = <<"header">>
      BY <1>3, <2>1 DEF Plain
    <3>2. Len(<<"header">>) = 1
      OBVIOUS
    <3> QED BY <1>5, <2>1, <3>1, <3>2 DEF l
  <2>2. CASE t # "flow"
    BY <1>5, <2>2
  <2> QED BY <2>1, <2>2
<1>12. Plain(s) => o = <<>>
  <2>1. Plain(s) => Len(o) = 0
    BY <1>4, <1>6, <1>7, <1>11
  <2> QED BY <1>7, <2>1
<1>13. ASSUME Plain(s)
       PROVE  DOMAIN e = DOMAIN s.records /\ \A i \in DOMAIN s.records : e[i].tag = s.records[i]
  <2>1. \A i \in 2..l + 1 : rest[i] = c[i] /\ c[i] \in Item
    <3>1. \A i \in 1..Len(c) : (c \o d)[i] = c[i] /\ c[i] \in Item
      BY <1>6, ConcatProperties
    <3>2. \A i \in 2..l + 1 : i \in 1..Len(c)
      BY <1>4, <1>6
    <3> QED BY <1>2, <3>1, <3>2
  <2> DEFINE y == l + 1
  <2>2. y \in Int /\ y - 2 + 1 = l /\ k + 1 = y /\ (2 <= y \/ l = 0) /\ \A i \in 2..y : rest[i] \in Item
    BY <1>4, <1>11, <1>13, <2>1
  <2> HIDE DEF y
  <2>3. e \in Seq(Item) /\ Len(e) = l /\ \A i \in 1..l : e[i] = rest[2 + i - 1]
    <3>1. /\ SubSeq(rest, 2, y) \in Seq(Item)
          /\ Len(SubSeq(rest, 2, y)) = IF 2 <= y THEN y - 2 + 1 ELSE 0
          /\ \A i \in 1..y - 2 + 1 : SubSeq(rest, 2, y)[i] = rest[2 + i - 1]
      BY <2>2, SubSeqProperties
    <3>2. e = SubSeq(rest, 2, y)
      BY <2>2
    <3> HIDE DEF e
    <3> QED BY <2>2, <3>1, <3>2
  <2> HIDE DEF e
  <2>4. ASSUME NEW i \in 1..l
        PROVE  e[i].tag = s.records[i]
    <3>1. 2 + i - 1 = i + 1 /\ i + 1 \in 2..l + 1
      BY <1>4
    <3>2. e[i] = c[i + 1]
      BY <2>1, <2>3, <3>1
    <3>3. c[i + 1] = [tag |-> s.records[i], id |-> m + 1, num |-> 0]
      BY <1>6
    <3> QED BY <3>2, <3>3
  <2> QED BY <1>4, <2>3, <2>4
<1>14. Plain(s) => \A p \in Parts[t] : p \in Range(s.records) <=> \E i \in DOMAIN e : e[i].tag = p
  BY <1>13 DEF Range
<1> QED BY <1>2, <1>3, <1>7, <1>8, <1>10, <1>12, <1>14 DEF d, e, s, k

\* The slot that parseSample fills.
LEMMA SlotFilled ==
  ASSUME ReadTyped, SafeInv, NEW t \in Types, ParseSample(t), Head(rest).id \in Nat
  PROVE  LET n == count[t] + 1
             new == [id |-> Head(rest).id, address |-> source,
                     data |-> Overwritten(slots[t][n].data, SubSeq(rest, 2, RecordsRead[t] + 1))]
         IN  /\ n \in 1..BufferSize /\ count[t] \in Nat /\ new \in Slot(t)
             /\ DOMAIN slots[t][n].data = Parts[t]
             /\ DOMAIN slots' = Types
             /\ \A u \in Types : slots'[u] \in [1..BufferSize -> Slot(u)]
             /\ \A u \in Types : count'[u] = IF u = t THEN n ELSE count[u]
             /\ \A u \in Types : \A i \in 1..BufferSize :
                  slots'[u][i] = IF u = t /\ i = n THEN new ELSE slots[u][i]
             /\ Buffered(t)' = Append(Buffered(t), new)
             /\ \A u \in Types \ {t} : Buffered(u)' = Buffered(u)
<1> DEFINE n == count[t] + 1
           data == Overwritten(slots[t][n].data, SubSeq(rest, 2, RecordsRead[t] + 1))
           new == [id |-> Head(rest).id, address |-> source, data |-> data]
<1>1. /\ left > 0
      /\ slots' = [slots EXCEPT ![t][n] = new]
      /\ count' = [count EXCEPT ![t] = n]
  BY DEF ParseSample
<1>2. /\ BufferSize \in Nat /\ count[t] \in Nat /\ left \in Nat /\ count[t] + left <= BufferSize
      /\ \A u \in Types : count[u] \in Nat /\ count[u] <= BufferSize
  <2>1. BufferSize \in Nat /\ left \in Nat
    BY ParserAssumption DEF SafeInv
  <2>2. \A u \in Types : count[u] \in Nat /\ count[u] + left <= BufferSize
    BY DEF SafeInv
  <2> QED BY <2>1, <2>2
<1>3. n \in 1..BufferSize
  BY <1>1, <1>2
<1>4. slots[t][n] \in Slot(t)
  BY <1>3 DEF ReadTyped
<1>5. data \in [Parts[t] -> Nat] /\ DOMAIN slots[t][n].data = Parts[t]
  <2>1. slots[t][n].data \in [Parts[t] -> Nat]
    BY <1>4 DEF Slot
  <2> HIDE DEF n
  <2> QED BY <2>1 DEF Overwritten
<1> HIDE DEF data
<1>6. new \in Slot(t)
  BY <1>5 DEF ReadTyped, Slot
<1> HIDE DEF new
<1>7. \A u \in Types : count'[u] = IF u = t THEN n ELSE count[u]
  BY <1>1 DEF SafeInv
<1>8. DOMAIN slots' = Types /\ \A u \in Types : slots'[u] = IF u = t THEN [slots[t] EXCEPT ![n] = new] ELSE slots[u]
  BY <1>1 DEF ReadTyped
<1>9. \A u \in Types : slots'[u] \in [1..BufferSize -> Slot(u)]
  <2>1. t \in Types /\ \A u \in Types : slots[u] \in [1..BufferSize -> Slot(u)]
    BY DEF ReadTyped
  <2>2. [slots[t] EXCEPT ![n] = new] \in [1..BufferSize -> Slot(t)]
    BY <1>3, <1>6, <2>1
  <2> QED BY <1>8, <2>1, <2>2
<1>10. ASSUME NEW u \in Types, NEW i \in 1..BufferSize
       PROVE  slots'[u][i] = IF u = t /\ i = n THEN new ELSE slots[u][i]
  <2>1. slots[t] \in [1..BufferSize -> Slot(t)]
    BY DEF ReadTyped
  <2>2. slots'[u] = IF u = t THEN [slots[t] EXCEPT ![n] = new] ELSE slots[u]
    BY <1>8
  <2> HIDE DEF n
  <2> QED BY <2>1, <2>2
<1>11. Buffered(t)' = Append(Buffered(t), new)
  <2>1. /\ Buffered(t) \in Seq(Slot(t)) /\ Len(Buffered(t)) = count[t]
    BY BufferedType
  <2>2. \A i \in 1..count[t] : Buffered(t)[i] = slots[t][i]
    BY DEF Buffered
  <2>3. Buffered(t)' = [i \in 1..n |-> slots'[t][i]]
    BY <1>7 DEF Buffered
  <2>4. \A i \in 1..n : slots'[t][i] \in Slot(t) /\ i \in 1..BufferSize
    <3>1. \A i \in 1..n : i \in 1..BufferSize
      BY <1>2, <1>3
    <3> QED BY <1>9, <3>1
  <2>5. Buffered(t)' \in Seq(Slot(t)) /\ Len(Buffered(t)') = n
        /\ \A i \in 1..n : Buffered(t)'[i] = slots'[t][i]
    <3> DEFINE f == [i \in 1..n |-> slots'[t][i]]
    <3>1. f \in [1..n -> Slot(t)] /\ n \in Nat /\ \A i \in 1..n : f[i] = slots'[t][i]
      BY <1>2, <2>4
    <3> HIDE DEF f, n
    <3>2. f \in Seq(Slot(t)) /\ Len(f) = n
      BY <3>1
    <3>3. Buffered(t)' = f
      BY <2>3 DEF f
    <3> QED BY <3>1, <3>2, <3>3
  <2> DEFINE x == Append(Buffered(t), new)
  <2>6. /\ x \in Seq(Slot(t)) /\ Len(x) = count[t] + 1
        /\ \A i \in 1..count[t] : x[i] = Buffered(t)[i]
        /\ x[count[t] + 1] = new
    BY <1>6, <2>1, AppendProperties
  <2> HIDE DEF x
  <2>7. \A i \in 1..n : Buffered(t)'[i] = x[i]
    <3> TAKE i \in 1..n
    <3>1. CASE i = n
      BY <1>3, <1>10, <2>5, <2>6, <3>1
    <3>2. CASE i # n
      <4>1. i \in 1..count[t] /\ i \in 1..BufferSize
        BY <1>2, <3>2
      <4>2. Buffered(t)'[i] = slots'[t][i] /\ slots'[t][i] = slots[t][i]
        BY <1>10, <2>5, <3>2, <4>1
      <4>3. x[i] = slots[t][i]
        BY <2>2, <2>6, <4>1
      <4> QED BY <4>2, <4>3
    <3> QED BY <3>1, <3>2
  <2>8. Len(x) = Len(Buffered(t)')
    BY <2>5, <2>6
  <2>9. Buffered(t)' = x
    BY <2>5, <2>6, <2>7, <2>8, SeqEqual
  <2> QED BY <2>9 DEF x
<1>12. ASSUME NEW u \in Types \ {t} PROVE Buffered(u)' = Buffered(u)
  BY <1>7, <1>8 DEF Buffered
<1> QED BY <1>2, <1>3, <1>5, <1>6, <1>7, <1>8, <1>9, <1>10, <1>11, <1>12 DEF new, data

LEMMA ReadSample ==
  ASSUME SafeInv, ReadInv, NEW t \in Types, ParseSample(t)
  PROVE  ReadInv'
<1>1. PICK m \in Nat, r \in Seq(Item), q \in Seq(Sample) : Unread(m, r, q)
  BY DEF ReadInv
<1> DEFINE s == Head(q)
           z == Tail(q)
           n == count[t] + 1
           e == SubSeq(rest, 2, RecordsRead[t] + 1)
           new == [id |-> Head(rest).id, address |-> source, data |-> Overwritten(slots[t][n].data, e)]
<1>2. left \in Nat /\ left > 0 /\ left' = left - 1 /\ ReadTyped /\ collector = "parse"
      /\ UNCHANGED <<collector, source, taken, expected, plain>>
  BY DEF ParseSample, SafeInv, ReadInv
<1>3. r = <<>> /\ q # <<>> /\ s.tag = t /\ Head(rest).id = m + 1
  BY <1>1, <1>2, SampleParsed
<1>4. PICK o \in Seq(Item) :
        /\ rest' = o \o Items(z, m + 1)
        /\ \A i \in DOMAIN o : o[i].tag \notin Types
        /\ Plain(s) => o = <<>>
  BY <1>1, <1>2, SampleParsed
<1>5. Plain(s) => \A p \in Parts[t] : p \in Range(s.records) <=> \E i \in DOMAIN e : e[i].tag = p
  BY <1>1, <1>2, SampleParsed
<1>6. /\ z \in Seq(Sample) /\ Len(z) = Len(q) - 1 /\ Len(q) \in Nat
      /\ taken = m + 1 + Len(z)
      /\ 1 \in DOMAIN q /\ q[1].tag = t
      /\ \A i \in DOMAIN z : Legal(z[i])
      /\ plain => Plain(s) /\ \A i \in DOMAIN z : Plain(z[i])
      /\ \A u \in Types : \A i \in DOMAIN z :
           z[i].tag = u => \E j \in DOMAIN expected[u] :
                             expected[u][j].id = m + 1 + i /\ expected[u][j].address = source
  BY <1>1, <1>3, LaterSamples
<1>7. /\ n \in 1..BufferSize /\ count[t] \in Nat /\ new \in Slot(t)
      /\ DOMAIN slots[t][n].data = Parts[t]
      /\ DOMAIN slots' = Types
      /\ \A u \in Types : slots'[u] \in [1..BufferSize -> Slot(u)]
      /\ \A u \in Types : count'[u] = IF u = t THEN n ELSE count[u]
      /\ \A u \in Types : \A i \in 1..BufferSize :
           slots'[u][i] = IF u = t /\ i = n THEN new ELSE slots[u][i]
      /\ Buffered(t)' = Append(Buffered(t), new)
      /\ \A u \in Types \ {t} : Buffered(u)' = Buffered(u)
  <2>1. Head(rest).id \in Nat
    BY <1>3
  <2> QED BY <1>2, <2>1, SlotFilled
<1>8. new.id = m + 1 /\ new.address = source
  BY <1>3
\* The slot is what the datagram says, whatever was in it.
<1>9. ASSUME Plain(s)
      PROVE  new = Meant(t, s, m + 1, source)
  <2>1. \A p \in Parts[t] : p \in Range(s.records)
    <3>1. CASE t = "flow"
      <4>1. s.records = <<"header">>
        BY <1>3, <1>9, <3>1 DEF Plain
      <4>2. "header" \in Range(<<"header">>)
        BY DEF Range
      <4>3. Parts[t] = {"header"}
        BY <3>1 DEF Parts
      <4> QED BY <4>1, <4>2, <4>3
    <3>2. CASE t = "cntr"
      <4>1. {"generic", "ethernet"} \subseteq Range(s.records)
        BY <1>3, <1>9, <3>2 DEF Plain
      <4>2. Parts[t] = {"generic", "ethernet"}
        BY <3>2 DEF Parts
      <4> QED BY <4>1, <4>2
    <3> QED BY <3>1, <3>2 DEF Types
  <2>2. Overwritten(slots[t][n].data, e) = [p \in Parts[t] |-> m + 1]
    <3> DEFINE data == slots[t][n].data
    <3>1. DOMAIN data = Parts[t]
      BY <1>7
    <3>2. \A p \in Parts[t] : \E i \in DOMAIN e : e[i].tag = p
      BY <1>5, <1>9, <2>1
    <3> HIDE DEF data, e, s
    <3>3. Overwritten(data, e) = [p \in Parts[t] |-> m + 1]
      BY <1>3, <3>1, <3>2 DEF Overwritten
    <3> QED BY <3>3 DEF data
  <2>3. [p \in Parts[t] |-> IF p \in Range(s.records) THEN m + 1 ELSE 0] = [p \in Parts[t] |-> m + 1]
    BY <2>1
  <2> HIDE DEF e, s, n
  <2> QED BY <1>3, <2>2, <2>3 DEF Meant
<1> HIDE DEF new, e
<1>10. m + 1 \in Nat /\ \A u \in Types : count[u] <= BufferSize /\ count[u] \in Nat /\ BufferSize \in Nat
  <2>1. BufferSize \in Nat /\ left \in Nat
    BY <1>2, ParserAssumption
  <2>2. \A u \in Types : count[u] \in Nat /\ count[u] + left <= BufferSize
    BY DEF SafeInv
  <2> QED BY <2>1, <2>2
\* The slots that were filled before.
<1>11. \A u \in Types : \A i \in 1..count'[u] :
         \/ u = t /\ i = n /\ slots'[u][i] = new
         \/ i \in 1..count[u] /\ slots'[u][i] = slots[u][i]
  <2> TAKE u \in Types
  <2> TAKE i \in 1..count'[u]
  <2>1. CASE u = t /\ i = n
    BY <1>7, <2>1
  <2>2. CASE ~(u = t /\ i = n)
    <3>1. i \in 1..count[u] /\ i \in 1..BufferSize
      BY <1>7, <1>10, <2>2
    <3> QED BY <1>7, <2>2, <3>1
  <2> QED BY <2>1, <2>2
<1>12. \A u \in Types : \A i \in 1..count[u] : slots[u][i].id \in Nat /\ slots[u][i].id <= m
  <2> SUFFICES ASSUME NEW u \in Types, NEW i \in 1..count[u]
               PROVE  slots[u][i].id \in Nat /\ slots[u][i].id <= m
    OBVIOUS
  <2>1. slots[u][i] \in Slot(u)
    <3>1. i \in 1..BufferSize
      BY <1>10
    <3> QED BY <1>2, <3>1 DEF ReadTyped
  <2> QED BY <1>1, <2>1 DEF Slot, Unread
<1>13. Unread(m + 1, o, z)'
  <2>1. left' <= Len(o) + Len(z)
    <3>1. left <= Len(q) /\ Len(o) \in Nat
      BY <1>1, <1>3, <1>6 DEF Unread
    <3> QED BY <1>2, <1>6, <3>1
  <2>2. \A u \in Types : \A i \in 1..count'[u] : slots'[u][i].id <= m + 1
    BY <1>8, <1>11, <1>12
  <2>3. ASSUME plain
        PROVE  /\ o = <<>> /\ left' = Len(z)
               /\ \A i \in DOMAIN z : Plain(z[i])
               /\ \A u \in Types : expected[u] = Buffered(u)' \o MeantOf(u, z, m + 1, source)
    <3>1. /\ left = Len(q) /\ Plain(s) /\ \A i \in DOMAIN z : Plain(z[i])
          /\ \A u \in Types : expected[u] = Buffered(u) \o MeantOf(u, q, m, source)
      BY <1>1, <1>6, <2>3 DEF Unread
    <3>2. o = <<>> /\ left' = Len(z)
      BY <1>2, <1>4, <1>6, <3>1
    <3>3. source \in Addresses \cup {0}
      BY <1>2 DEF ReadTyped
    <3>4. ASSUME NEW u \in Types
          PROVE  expected[u] = Buffered(u)' \o MeantOf(u, z, m + 1, source)
      <4> DEFINE M == MeantOf(u, z, m + 1, source)
                 B == Buffered(u)
      <4>1. M \in Seq(Slot(u)) /\ B \in Seq(Slot(u))
        <5>1. M \in Seq(Slot(u))
          BY <1>6, <1>10, <3>3, MeantElements
        <5>2. B \in Seq(Slot(u))
          BY <1>2, BufferedType
        <5> QED BY <5>1, <5>2
      <4>2. expected[u] = B \o ((IF s.tag = u THEN <<Meant(u, s, m + 1, source)>> ELSE <<>>) \o M)
        <5>1. MeantOf(u, q, m, source) =
                (IF s.tag = u THEN <<Meant(u, s, m + 1, source)>> ELSE <<>>) \o M
          BY <1>3, <3>3, MeantFirst
        <5> QED BY <3>1, <5>1
      <4> HIDE DEF M, B, s
      <4>3. CASE u = t
        <5>1. expected[u] = B \o (<<new>> \o M)
          BY <1>3, <1>9, <3>1, <4>2, <4>3
        <5>2. new \in Slot(u)
          BY <1>7, <4>3
        <5>3. B \o (<<new>> \o M) = Append(B, new) \o M
          <6>1. <<new>> \in Seq(Slot(u))
            BY <5>2
          <6>2. B \o (<<new>> \o M) = (B \o <<new>>) \o M
            BY <4>1, <6>1, ConcatAssociative, SMTT(30)
          <6>3. Append(B, new) = B \o <<new>>
            BY <4>1, <5>2, AppendIsConcat
          <6> QED BY <6>2, <6>3
        <5>4. Buffered(u)' = Append(B, new)
          BY <1>7, <4>3 DEF B
        <5> QED BY <5>1, <5>3, <5>4 DEF M
      <4>4. CASE u # t
        <5>1. expected[u] = B \o (<<>> \o M)
          BY <1>3, <4>2, <4>4
        <5>2. <<>> \o M = M
          BY <4>1, ConcatEmptySeq
        <5>3. Buffered(u)' = B
          BY <1>7, <4>4 DEF B
        <5> QED BY <5>1, <5>2, <5>3 DEF M
      <4> QED BY <4>3, <4>4
    <3> QED BY <3>1, <3>2, <3>4
  <2> HIDE DEF s, z
  <2> QED BY <1>2, <1>4, <1>6, <2>1, <2>2, <2>3 DEF Unread
<1>14. SlotsMatch'
  <2>1. ASSUME NEW u \in Types, NEW i \in 1..count'[u]
        PROVE  \E j \in DOMAIN expected[u] :
                 expected[u][j].id = slots'[u][i].id /\ expected[u][j].address = slots'[u][i].address
    <3>1. CASE u = t /\ i = n /\ slots'[u][i] = new
      <4>1. \E j \in DOMAIN expected[t] :
              expected[t][j].id = m + 1 /\ expected[t][j].address = source
        BY <1>1, <1>6 DEF Unread
      <4> QED BY <1>8, <3>1, <4>1
    <3>2. CASE i \in 1..count[u] /\ slots'[u][i] = slots[u][i]
      BY <3>2 DEF ReadInv, SlotsMatch
    <3> QED BY <1>11, <3>1, <3>2
  <2>2. ASSUME NEW u \in Types, NEW i \in 1..count'[u], i < count'[u]
        PROVE  slots'[u][i].id < slots'[u][i + 1].id
    <3>1. i + 1 \in 1..count'[u] /\ i \in 1..count[u] /\ ~(u = t /\ i = n)
      <4>1. count'[u] = IF u = t THEN n ELSE count[u]
        BY <1>7
      <4>2. count'[u] \in Nat /\ count[u] \in Nat
        BY <1>7, <1>10, <4>1
      <4> QED BY <1>7, <2>2, <4>1, <4>2
    <3>2. slots'[u][i] = slots[u][i] /\ slots[u][i].id \in Nat /\ slots[u][i].id <= m
      BY <1>11, <1>12, <3>1
    <3>3. CASE u = t /\ i + 1 = n /\ slots'[u][i + 1] = new
      BY <1>8, <3>2, <3>3
    <3>4. CASE i + 1 \in 1..count[u] /\ slots'[u][i + 1] = slots[u][i + 1]
      <4>1. i < count[u]
        BY <1>10, <3>1, <3>4
      <4> QED BY <3>1, <3>2, <3>4, <4>1 DEF ReadInv, SlotsMatch
    <3> QED BY <1>11, <3>1, <3>3, <3>4
  <2> QED BY <1>2, <2>1, <2>2 DEF SlotsMatch
<1>15. ReadTyped'
  BY <1>2, <1>7 DEF ReadTyped
<1> QED BY <1>6, <1>10, <1>13, <1>14, <1>15 DEF ReadInv

\* An item that is no known sample is either a record that was left over, or a
\* sample without records, for which nothing is expected.
LEMMA ReadSkip ==
  ASSUME SafeInv, ReadInv, SkipSample
  PROVE  ReadInv'
<1>1. PICK m \in Nat, r \in Seq(Item), q \in Seq(Sample) : Unread(m, r, q)
  BY DEF ReadInv
<1>2. /\ left \in Nat /\ left > 0 /\ left' = left - 1 /\ ReadTyped /\ collector = "parse"
      /\ Head(rest).tag \notin Types /\ rest' = Tail(rest)
      /\ UNCHANGED <<collector, source, count, slots, taken, expected, plain>>
  BY DEF SkipSample, SafeInv, ReadInv
<1>3. \A t \in Types : Buffered(t)' = Buffered(t)
  BY <1>2 DEF Buffered
<1>4. ReadTyped' /\ SlotsMatch'
  BY <1>2 DEF ReadTyped, ReadInv, SlotsMatch
<1>5. CASE r # <<>> /\ Tail(rest) = Tail(r) \o Items(q, m)
  <2>1. /\ Tail(r) \in Seq(Item) /\ Len(Tail(r)) = Len(r) - 1 /\ Len(r) \in Nat
        /\ \A i \in 1..Len(Tail(r)) : Tail(r)[i] = r[i + 1]
    BY <1>5, HeadTailProperties
  <2>2. \A i \in DOMAIN Tail(r) : Tail(r)[i].tag \notin Types
    <3>1. DOMAIN Tail(r) = 1..Len(Tail(r)) /\ \A i \in 1..Len(Tail(r)) : i + 1 \in DOMAIN r
      BY <2>1
    <3> QED BY <1>1, <2>1, <3>1 DEF Unread
  <2>3. left' <= Len(Tail(r)) + Len(q)
    <3>1. left <= Len(r) + Len(q) /\ Len(q) \in Nat
      BY <1>1 DEF Unread
    <3> QED BY <1>2, <2>1, <3>1
  <2>4. ~plain
    BY <1>1, <1>5 DEF Unread
  <2> DEFINE o == Tail(r)
  <2> HIDE DEF o
  <2>5. rest' = o \o Items(q, m)
    BY <1>2, <1>5 DEF o
  <2>6. o \in Seq(Item) /\ left' <= Len(o) + Len(q) /\ \A i \in DOMAIN o : o[i].tag \notin Types
    BY <2>1, <2>2, <2>3 DEF o
  <2>7. Unread(m, o, q)'
    BY <1>1, <1>2, <2>4, <2>5, <2>6 DEF Unread
  <2> QED BY <1>4, <2>6, <2>7 DEF ReadInv
<1>6. CASE /\ r = <<>> /\ q # <<>>
           /\ rest = ItemsOf(Head(q), m + 1) \o Items(Tail(q), m + 1)
           /\ Head(rest) = [tag |-> Head(q).tag, id |-> m + 1, num |-> Len(Head(q).records)]
           /\ rest # <<>>
  <2> DEFINE s == Head(q)
             z == Tail(q)
             c == ItemsOf(s, m + 1)
             d == Items(z, m + 1)
  <2>1. /\ z \in Seq(Sample) /\ Len(z) = Len(q) - 1 /\ Len(q) \in Nat
        /\ taken = m + 1 + Len(z)
        /\ s \in Sample /\ Legal(s)
        /\ \A i \in DOMAIN z : Legal(z[i])
        /\ plain => \A i \in DOMAIN z : Plain(z[i])
        /\ \A u \in Types : \A i \in DOMAIN z :
             z[i].tag = u => \E j \in DOMAIN expected[u] :
                               expected[u][j].id = m + 1 + i /\ expected[u][j].address = source
    BY <1>1, <1>6, LaterSamples
  <2>2. s.tag \notin Types
    <3> HIDE DEF s
    <3>1. Head(rest).tag = s.tag
      <4>1. Head(rest) = [tag |-> s.tag, id |-> m + 1, num |-> Len(s.records)]
        BY <1>6 DEF s
      <4> QED BY <4>1
    <3> QED BY <1>2, <3>1
  <2>3. s.records = <<>>
    BY <2>1, <2>2 DEF Legal
  <2>4. c \in Seq(Item) /\ d \in Seq(Item) /\ Len(c) = 1
    <3>1. m + 1 \in Nat /\ Len(<<>>) = 0
      OBVIOUS
    <3>2. c \in Seq(Item) /\ Len(c) = Len(s.records) + 1
      BY <2>1, <3>1, ItemsOfSample
    <3>3. d \in Seq(Item)
      BY <2>1, <3>1, ItemsType
    <3> HIDE DEF c, d, s, z
    <3>4. Len(s.records) = 0
      BY <2>3, <3>1
    <3> QED BY <3>2, <3>3, <3>4
  <2>5. rest = c \o d
    BY <1>6
  <2> HIDE DEF c, d, s, z
  <2>6. rest' = d
    <3>1. Tail(c \o d) = d
      BY <2>4, TailOfConcat
    <3> QED BY <1>2, <2>5, <3>1
  <2>7. m + 1 \in Nat /\ <<>> \in Seq(Item) /\ Len(<<>>) = 0 /\ DOMAIN <<>> = {}
    OBVIOUS
  <2>8. rest' = <<>> \o Items(z, m + 1)
    BY <2>4, <2>6, ConcatEmptySeq DEF d
  <2>9. left' <= Len(<<>>) + Len(z) /\ (plain => left' = Len(z))
    <3>1. left <= Len(r) + Len(q) /\ Len(r) = 0 /\ (plain => left = Len(q))
      BY <1>1, <1>6, <2>7 DEF Unread
    <3> QED BY <1>2, <2>1, <2>7, <3>1
  <2>10. \A u \in Types : \A i \in 1..count[u] : slots[u][i].id <= m + 1
    <3> SUFFICES ASSUME NEW u \in Types, NEW i \in 1..count[u]
                 PROVE  slots[u][i].id <= m + 1
      OBVIOUS
    <3>1. slots[u][i].id <= m
      BY <1>1 DEF Unread
    <3>2. slots[u][i].id \in Nat
      <4>1. BufferSize \in Nat /\ count[u] \in Nat /\ count[u] + left <= BufferSize
        BY ParserAssumption DEF SafeInv
      <4>2. i \in 1..BufferSize
        BY <1>2, <4>1
      <4> QED BY <1>2, <4>2 DEF ReadTyped, Slot
    <3> QED BY <3>1, <3>2
  <2>11. ASSUME plain, NEW u \in Types
         PROVE  expected[u] = Buffered(u) \o MeantOf(u, z, m + 1, source)
    <3>1. expected[u] = Buffered(u) \o MeantOf(u, q, m, source)
      BY <1>1, <2>11 DEF Unread
    <3>2. source \in Addresses \cup {0}
      BY <1>2 DEF ReadTyped
    <3>3. MeantOf(u, q, m, source) =
            (IF s.tag = u THEN <<Meant(u, s, m + 1, source)>> ELSE <<>>) \o MeantOf(u, z, m + 1, source)
      BY <1>6, <3>2, MeantFirst DEF s, z
    <3>4. MeantOf(u, q, m, source) = <<>> \o MeantOf(u, z, m + 1, source)
      BY <2>2, <3>3
    <3>5. MeantOf(u, z, m + 1, source) \in Seq(Slot(u))
      BY <2>1, <2>7, <3>2, MeantElements
    <3>6. MeantOf(u, q, m, source) = MeantOf(u, z, m + 1, source)
      BY <3>4, <3>5, ConcatEmptySeq
    <3> QED BY <3>1, <3>6
  <2>12. Unread(m + 1, <<>>, z)'
    BY <1>2, <1>3, <2>1, <2>7, <2>8, <2>9, <2>10, <2>11 DEF Unread
  <2> QED BY <1>4, <2>1, <2>7, <2>12 DEF ReadInv
<1> QED BY <1>1, <1>2, <1>5, <1>6, AtCursor

\* At the end of a datagram whatever is left is dropped; if all samples were
\* plain, nothing is.
LEMMA ReadDone ==
  ASSUME SafeInv, ReadInv, DatagramDone
  PROVE  ReadInv'
<1>1. PICK m \in Nat, r \in Seq(Item), q \in Seq(Sample) : Unread(m, r, q)
  BY DEF ReadInv
<1>2. /\ left = 0 /\ collector' = "recv" /\ rest' = <<>> /\ ReadTyped
      /\ UNCHANGED <<left, source, count, slots, taken, expected, plain>>
  BY DEF DatagramDone, ReadInv
<1>3. <<>> \in Seq(Item) /\ <<>> \in Seq(Sample) /\ Len(<<>>) = 0 /\ DOMAIN <<>> = {}
  OBVIOUS
<1>4. PICK k \in Nat : taken = k /\ k = m + Len(q) /\ Len(q) \in Nat
  BY <1>1, <1>2 DEF ReadTyped, Unread
<1>5. taken' = k + Len(<<>>) /\ rest' = <<>> \o Items(<<>>, k)
  BY <1>2, <1>3, <1>4, NoSamples
<1>6. \A t \in Types : \A i \in 1..count[t] : slots[t][i].id <= k
  <2> SUFFICES ASSUME NEW t \in Types, NEW i \in 1..count[t]
               PROVE  slots[t][i].id <= k
    OBVIOUS
  <2>1. slots[t][i].id <= m
    BY <1>1 DEF Unread
  <2>2. slots[t][i].id \in Nat
    <3>1. BufferSize \in Nat /\ count[t] \in Nat /\ count[t] + left <= BufferSize
      BY ParserAssumption DEF SafeInv
    <3>2. i \in 1..BufferSize
      BY <1>2, <3>1
    <3> QED BY <1>2, <3>2 DEF ReadTyped, Slot
  <2> QED BY <1>4, <2>1, <2>2
<1>7. ASSUME plain, NEW t \in Types
      PROVE  expected[t] = Buffered(t)' \o MeantOf(t, <<>>, k, source)
  <2>1. left = Len(q) /\ expected[t] = Buffered(t) \o MeantOf(t, q, m, source)
    BY <1>1, <1>7 DEF Unread
  <2>2. q = <<>>
    BY <1>2, <2>1
  <2>3. Buffered(t)' = Buffered(t)
    BY <1>2 DEF Buffered
  <2> QED BY <2>1, <2>2, <2>3, NoSamples
<1>8. left' = 0 /\ left' <= Len(<<>>) + Len(<<>>) /\ left' = Len(<<>>)
  BY <1>2, <1>3
<1>9. Unread(k, <<>>, <<>>)'
  BY <1>2, <1>3, <1>5, <1>6, <1>7, <1>8 DEF Unread
<1>10. ReadTyped' /\ SlotsMatch'
  BY <1>2 DEF ReadTyped, ReadInv, SlotsMatch
<1> QED BY <1>3, <1>4, <1>9, <1>10 DEF ReadInv

\* Empty buffers, used before or not, hold none of the old samples.
LEMMA ReadFlush ==
  ASSUME ReadInv, Flush
  PROVE  ReadInv'
<1>1. PICK m \in Nat, r \in Seq(Item), q \in Seq(Sample) : Unread(m, r, q)
  BY DEF ReadInv
<1>2. /\ collector = "recv" /\ collector' \in {"recv", "crashed"}
      /\ count' = [t \in Types |-> 0]
      /\ slots' \in {slots, ZeroedSlots}
      /\ expected' = [t \in Types |-> <<>>]
      /\ plain' = TRUE
      /\ UNCHANGED <<rest, left, source, taken>>
      /\ ReadTyped
  BY DEF Flush, ReadInv
<1>3. r = <<>> /\ q = <<>> /\ left = 0 /\ taken = m + Len(q) /\ rest = r \o Items(q, m)
  BY <1>1, <1>2 DEF Unread
<1>4. /\ \A t \in Types : 1..count'[t] = {} /\ Buffered(t)' = <<>> /\ expected'[t] = <<>>
      /\ Len(<<>>) = 0 /\ DOMAIN <<>> = {}
  BY <1>2 DEF Buffered
<1>5. \A t \in Types : expected'[t] = Buffered(t)' \o MeantOf(t, <<>>, m, source)
  <2> TAKE t \in Types
  <2>1. MeantOf(t, <<>>, m, source) = <<>>
    BY NoSamples
  <2>2. <<>> \o <<>> = <<>>
    OBVIOUS
  <2> QED BY <1>4, <2>1, <2>2
<1>6. left' <= Len(r) + Len(q) /\ left' = Len(q) /\ left' = 0
  BY <1>2, <1>3, <1>4
<1>7. Unread(m, r, q)'
  BY <1>2, <1>3, <1>4, <1>5, <1>6 DEF Unread
<1>8. SlotsMatch'
  BY <1>4 DEF SlotsMatch
<1>9. ReadTyped'
  <2>1. DOMAIN slots' = Types /\ \A t \in Types : slots'[t] \in [1..BufferSize -> Slot(t)]
    <3>1. \A t \in Types : EmptySlot(t) \in Slot(t)
      BY DEF EmptySlot, Slot
    <3>2. DOMAIN ZeroedSlots = Types /\ \A t \in Types : ZeroedSlots[t] \in [1..BufferSize -> Slot(t)]
      BY <3>1 DEF ZeroedSlots
    <3> QED BY <1>2, <3>2 DEF ReadTyped
  <2>2. DOMAIN expected' = Types /\ \A t \in Types : expected'[t] \in Seq(Slot(t))
    BY <1>2
  <2>3. collector' \in {"recv", "parse", "crashed"} /\ plain' \in BOOLEAN
    BY <1>2
  <2> QED BY <1>2, <2>1, <2>2, <2>3 DEF ReadTyped
<1> QED BY <1>7, <1>8, <1>9 DEF ReadInv

LEMMA StepRead ==
  ASSUME TableInv, SafeInv, ReadInv, [Next]_vars
  PROVE  ReadInv'
<1>1. CASE UNCHANGED parserVars
  <2>1. UNCHANGED <<collector, rest, left, source, count, slots, taken, expected, plain>>
    BY <1>1 DEF parserVars
  <2>2. \A t \in Types : Buffered(t)' = Buffered(t)
    BY <2>1 DEF Buffered
  <2>3. PICK m \in Nat, r \in Seq(Item), q \in Seq(Sample) : Unread(m, r, q)
    BY DEF ReadInv
  <2>4. Unread(m, r, q)'
    BY <2>1, <2>2, <2>3 DEF Unread
  <2>5. ReadTyped' /\ SlotsMatch'
    BY <2>1 DEF ReadInv, ReadTyped, SlotsMatch
  <2> QED BY <2>4, <2>5 DEF ReadInv
<1>2. CASE /\ UNCHANGED <<nodes, hash, agent>>
           /\ \E a \in Addresses, own \in Addresses, n \in 0..Modulus - 1, samples \in Payloads :
                Datagram(a, own, n, samples)
  BY <1>2, ReadDatagram
<1>3. CASE (\E t \in Types : ParseSample(t)) \/ SkipSample \/ DatagramDone \/ Flush
  BY <1>3, ReadSample, ReadSkip, ReadDone, ReadFlush
<1> QED BY <1>1, <1>2, <1>3, TableSteps

\* Whatever datagrams come and whatever was in the slots before, a buffer holds
\* samples that were sent, in their order and under the primary address of their
\* agent, and all of them with just their own records if all were plain
\* (parseDatagram, parseSample, flushLists).
THEOREM ReceptionSamples == Spec => []SamplesAreRead
<1>1. ReadInv /\ SafeInv => SamplesAreRead
  BY ReadInvSays
<1> QED BY <1>1, InitTable, StepTable, InitSafe, StepSafe, InitRead, StepRead, PTL DEF Spec

-----------------------------------------------------------------------------
(* The types of the parser's variables.                                    *)

\* A datagram has at least one item for each of its samples.
LEMMA ItemsLength ==
  ASSUME NEW q \in Seq(Sample), NEW n \in Nat
  PROVE  Len(Items(q, n)) >= Len(q)
<1> DEFINE Short(k) == \E p \in Seq(Sample), m \in Nat : Len(p) = k /\ ~(Len(Items(p, m)) >= k)
           T == {k \in Nat : Short(k)}
<1>1. SUFFICES ASSUME T # {} PROVE FALSE
  <2>1. Len(q) \in Nat
    OBVIOUS
  <2> QED BY <1>1, <2>1
<1>2. PICK k \in T : \A j \in T : k <= j
  BY <1>1, LeastNatural
<1>3. PICK p \in Seq(Sample), m \in Nat : Len(p) = k /\ ~(Len(Items(p, m)) >= k)
  BY <1>2
<1>4. CASE p = <<>>
  <2>1. Items(<<>>, m) = <<>> /\ Len(<<>>) = 0
    BY NoSamples
  <2> QED BY <1>3, <1>4, <2>1
<1>5. CASE p # <<>>
  <2> DEFINE b == Items(Tail(p), m + 1)
  <2>1. /\ Items(p, m) = ItemsOf(Head(p), m + 1) \o b
        /\ b \in Seq(Item) /\ Head(p) \in Sample
    BY <1>5, ItemsFirst
  <2>2. Tail(p) \in Seq(Sample) /\ Len(Tail(p)) = k - 1 /\ k - 1 \in Nat /\ m + 1 \in Nat
    BY <1>3, <1>5, HeadTailProperties
  <2>3. Len(b) >= k - 1
    <3>1. k - 1 \notin T
      BY <1>2, <2>2
    <3> QED BY <2>2, <3>1
  <2>4. /\ ItemsOf(Head(p), m + 1) \in Seq(Item)
        /\ Len(Head(p).records) \in Nat
        /\ Len(ItemsOf(Head(p), m + 1)) = Len(Head(p).records) + 1
    BY <2>1, <2>2, ItemsOfSample
  <2> HIDE DEF b
  <2>5. Len(Items(p, m)) = Len(ItemsOf(Head(p), m + 1)) + Len(b) /\ Len(b) \in Nat
    BY <2>1, <2>4, ConcatProperties
  <2> QED BY <1>3, <2>2, <2>3, <2>4, <2>5
<1> QED BY <1>4, <1>5

LEMMA CursorType ==
  ASSUME SafeInv, ReadInv
  PROVE  rest \in Seq(Item) /\ left \in 0..Len(rest)
<1>1. PICK m \in Nat, r \in Seq(Item), q \in Seq(Sample) : Unread(m, r, q)
  BY DEF ReadInv
<1>2. Items(q, m) \in Seq(Item) /\ Len(Items(q, m)) >= Len(q)
  BY ItemsType, ItemsLength
<1>3. rest = r \o Items(q, m) /\ left <= Len(r) + Len(q)
  BY <1>1 DEF Unread
<1> DEFINE b == Items(q, m)
<1> HIDE DEF b
<1>4. b \in Seq(Item) /\ Len(b) >= Len(q) /\ rest = r \o b
  BY <1>2, <1>3 DEF b
<1>5. rest \in Seq(Item) /\ Len(rest) = Len(r) + Len(b)
  BY <1>4, ConcatProperties
<1>6. Len(r) \in Nat /\ Len(b) \in Nat /\ Len(q) \in Nat /\ left \in Nat
  BY <1>4 DEF SafeInv
<1> QED BY <1>3, <1>4, <1>5, <1>6

\* What no other invariant says of the variables of the parser.
CountsInv ==
  /\ arrived \in 0..MaxDatagrams
  /\ strangers \in BOOLEAN

LEMMA InitCounts == Init => CountsInv
<1>1. MaxDatagrams \in Nat
  BY ParserAssumption
<1>2. Init => arrived = 0 /\ strangers = FALSE
  BY DEF Init, ParserInit
<1>3. 0 \in 0..MaxDatagrams
  BY <1>1
<1> QED BY <1>2, <1>3 DEF CountsInv

LEMMA StepCounts ==
  ASSUME CountsInv, [Next]_vars
  PROVE  CountsInv'
<1>1. CASE UNCHANGED <<arrived, strangers>>
  BY <1>1 DEF CountsInv
<1>2. ASSUME NEW a \in Addresses, NEW own \in Addresses, NEW n, NEW samples, Datagram(a, own, n, samples)
      PROVE  CountsInv'
  <2>1. arrived < MaxDatagrams /\ arrived' = arrived + 1 /\ MaxDatagrams \in Nat
    BY <1>2, ParserAssumption DEF Datagram
  <2>2. strangers' \in BOOLEAN
    BY <1>2 DEF Datagram, CountsInv
  <2> QED BY <2>1, <2>2 DEF CountsInv
<1>3. ASSUME NEW t, ParseSample(t)
      PROVE  UNCHANGED <<arrived, strangers>>
  BY <1>3 DEF ParseSample
<1>4. CASE SkipSample \/ DatagramDone \/ Flush
  BY <1>1, <1>4 DEF SkipSample, DatagramDone, Flush
<1>5. CASE UNCHANGED parserVars
  BY <1>1, <1>5 DEF parserVars
<1> QED BY <1>1, <1>2, <1>3, <1>4, <1>5 DEF Next, Collecting, vars

LEMMA ParserTyped ==
  ASSUME SafeInv, ReadInv, DropsInv, CountsInv
  PROVE  ParserTypeOK
<1>1. count \in [Types -> 0..BufferSize]
  <2>1. \A t \in Types : count[t] \in 0..BufferSize
    <3> TAKE t \in Types
    <3>1. count[t] \in Nat /\ left \in Nat /\ BufferSize \in Nat /\ count[t] + left <= BufferSize
      BY ParserAssumption DEF SafeInv
    <3> QED BY <3>1
  <2> QED BY <2>1 DEF SafeInv
<1>2. DOMAIN uncounted = DOMAIN late
  BY DEF DropsInv
<1> QED BY <1>1, <1>2, CursorType DEF ReadInv, ReadTyped, CountsInv, ParserTypeOK

-----------------------------------------------------------------------------
(* The types of the configuration.                                         *)

Events == Scalar \cup Marker

LEMMA EventTypes ==
  /\ \A t \in Texts : Name(t) \in Events
  /\ \A n \in Nat : Number(n) \in Events
  /\ \A a \in Addresses : Address(a) \in Events
  /\ SequenceStart \in Events /\ SequenceEnd \in Events
<1>1. Addresses \subseteq Nat
  BY AgentListAssumption
<1>2. \A t \in Texts : Name(t) \in Scalar
  BY DEF Name, Scalar
<1>3. \A n \in Nat : Number(n) \in Scalar
  BY ConfigAssumption DEF Number, Scalar
<1>4. \A a \in Addresses : Address(a) \in Scalar
  BY <1>1, ConfigAssumption DEF Address, Scalar
<1>5. SequenceStart \in Marker /\ SequenceEnd \in Marker
  BY DEF SequenceStart, SequenceEnd, Marker
<1> QED BY <1>2, <1>3, <1>4, <1>5 DEF Events

LEMMA AgentEventsType ==
  ASSUME NEW g \in Entry
  PROVE  AgentEvents(g) \in Seq(Events)
<1> DEFINE as == [i \in 1..Len(g.addresses) |-> Address(g.addresses[i])]
<1>1. g.name \in Texts /\ g.addresses \in Seq(Addresses)
  BY DEF Entry
<1>2. Len(g.addresses) \in Nat /\ \A i \in 1..Len(g.addresses) : g.addresses[i] \in Addresses
  BY <1>1
<1>3. \A i \in 1..Len(g.addresses) : Address(g.addresses[i]) \in Events
  BY <1>2, EventTypes
<1>4. as \in Seq(Events)
  BY <1>2, <1>3
<1>5. Name(g.name) \in Events /\ SequenceStart \in Events /\ SequenceEnd \in Events
  BY <1>1, EventTypes
<1> HIDE DEF as
<1>6. <<Name(g.name), SequenceStart>> \o as \o <<SequenceEnd>> \in Seq(Events)
  <2> DEFINE E == Events
             x == Name(g.name)
             y == SequenceStart
             z == SequenceEnd
  <2>1. as \in Seq(E) /\ x \in E /\ y \in E /\ z \in E
    BY <1>4, <1>5
  <2> HIDE DEF E, x, y, z
  <2>2. <<x, y>> \in Seq(E) /\ <<z>> \in Seq(E)
    BY <2>1
  <2>3. <<x, y>> \o as \in Seq(E)
    BY <2>1, <2>2, ConcatProperties
  <2>4. (<<x, y>> \o as) \o <<z>> \in Seq(E)
    BY <2>2, <2>3, ConcatProperties
  <2> QED BY <2>4 DEF E, x, y, z
<1> QED BY <1>6 DEF AgentEvents, as

LEMMA EventsOfType ==
  ASSUME NEW x \in FileItem
  PROVE  EventsOf(x) \in Seq(Events)
<1>1. CASE x \in [kind : {"section"}, name : SectionNames]
  <2>1. x.kind = "section" /\ Name(x.name) \in Events
    BY <1>1, EventTypes, ConfigAssumption
  <2>2. EventsOf(x) = <<Name(x.name)>>
    BY <2>1 DEF EventsOf
  <2> QED BY <2>1, <2>2
<1>2. CASE x \in [kind : {"outer"}]
  <2>1. EventsOf(x) = <<>>
    BY <1>2 DEF EventsOf
  <2> QED BY <2>1
<1>3. CASE x \in [kind : {"setting"}, key : Texts \ (SectionNames \cup {"agents"}), num : Nat]
  <2>1. x.kind = "setting" /\ Name(x.key) \in Events /\ Number(x.num) \in Events
    BY <1>3, EventTypes
  <2>2. EventsOf(x) = <<Name(x.key), Number(x.num)>>
    BY <2>1 DEF EventsOf
  <2> QED BY <2>1, <2>2
<1>4. CASE x \in [kind : {"agents"}, list : Seq(Entry)]
  <2> DEFINE p == [i \in 1..Len(x.list) |-> AgentEvents(x.list[i])]
             b == FlattenSeq(p)
  <2>1. x.kind = "agents" /\ x.list \in Seq(Entry) /\ Len(x.list) \in Nat
        /\ \A i \in 1..Len(x.list) : x.list[i] \in Entry
    BY <1>4
  <2>2. p \in [1..Len(x.list) -> Seq(Events)]
    BY <2>1, AgentEventsType
  <2> HIDE DEF p
  <2>3. b \in Seq(Events)
    BY <2>1, <2>2, FlattenElements
  <2>4. EventsOf(x) = <<Name("agents"), SequenceStart>> \o b \o <<SequenceEnd>>
    BY <2>1 DEF EventsOf, p
  <2>5. Name("agents") \in Events /\ SequenceStart \in Events /\ SequenceEnd \in Events
    <3>1. "agents" \in Texts
      BY ConfigAssumption
    <3> QED BY <3>1, EventTypes
  <2> HIDE DEF b
  <2>6. <<Name("agents"), SequenceStart>> \o b \o <<SequenceEnd>> \in Seq(Events)
    <3> DEFINE E == Events
               u == Name("agents")
               y == SequenceStart
               z == SequenceEnd
    <3>1. b \in Seq(E) /\ u \in E /\ y \in E /\ z \in E
      BY <2>3, <2>5
    <3> HIDE DEF E, u, y, z
    <3>2. <<u, y>> \in Seq(E) /\ <<z>> \in Seq(E)
      BY <3>1
    <3>3. <<u, y>> \o b \in Seq(E)
      BY <3>1, <3>2, ConcatProperties
    <3>4. (<<u, y>> \o b) \o <<z>> \in Seq(E)
      BY <3>2, <3>3, ConcatProperties
    <3> QED BY <3>4 DEF E, u, y, z
  <2> QED BY <2>4, <2>6
<1> QED BY <1>1, <1>2, <1>3, <1>4 DEF FileItem

\* The flags and the settings; the agents are typed with the table.
FlagsInv ==
  /\ file \in Files /\ daemon \in Daemons
  /\ events \in Seq(Events)
  /\ section \in Daemons \cup {"none"}
  /\ storage \in {"none", "mysql", "spectrum"}
  /\ key \in Texts
  /\ inAgentList \in BOOLEAN /\ inAgent \in BOOLEAN
  /\ isValue \in BOOLEAN /\ isList \in BOOLEAN
  /\ \A sk \in DOMAIN config : sk[2] \in Keys[sk[1]]

LEMMA InitFlags == Init => FlagsInv
<1> SUFFICES ASSUME Init PROVE FlagsInv
  OBVIOUS
<1> DEFINE p == [i \in 1..Len(file) |-> EventsOf(file[i])]
<1>1. file \in Files /\ events = FlattenSeq(p)
  BY DEF Init, ConfigInit
<1>2. file \in Seq(FileItem) /\ Len(file) \in Nat /\ \A i \in 1..Len(file) : file[i] \in FileItem
  <2>1. Files \subseteq Seq(FileItem)
    BY ConfigAssumption
  <2> HIDE DEF FileItem
  <2>2. file \in Seq(FileItem)
    BY <1>1, <2>1
  <2> QED BY <2>2
<1>3. p \in [1..Len(file) -> Seq(Events)]
  BY <1>2, EventsOfType
<1> HIDE DEF p
<1>4. events \in Seq(Events)
  BY <1>1, <1>2, <1>3, FlattenElements
<1>5. /\ daemon \in Daemons /\ section = "none" /\ storage = "none" /\ key = ""
      /\ inAgentList = FALSE /\ inAgent = FALSE /\ isValue = FALSE /\ isList = FALSE
      /\ config = <<>>
  BY DEF Init, ConfigInit
<1>6. DOMAIN config = {}
  <2>1. DOMAIN <<>> = {}
    OBVIOUS
  <2> QED BY <1>5, <2>1
<1>7. key \in Texts
  BY <1>5, ConfigAssumption
<1> QED BY <1>1, <1>4, <1>5, <1>6, <1>7 DEF FlagsInv

\* A step of the parser takes one event.
LEMMA ScalarTyped ==
  ASSUME events \in Seq(Events), ScalarEvent
  PROVE  Text \in Texts /\ Num \in Nat
<1>1. events # <<>> /\ Head(events).type = "scalar"
  BY DEF ScalarEvent, Event
<1>2. Head(events) \in Events
  BY <1>1
<1>3. Head(events) \in Scalar
  BY <1>1, <1>2 DEF Events, Marker
<1> QED BY <1>3 DEF Scalar, Text, Num

LEMMA StepFlags ==
  ASSUME FlagsInv, [Next]_vars
  PROVE  FlagsInv'
<1>1. CASE UNCHANGED configVars
  BY <1>1 DEF configVars, flags, FlagsInv
<1>2. ASSUME ParseEvent
      PROVE  /\ events' \in Seq(Events)
             /\ UNCHANGED <<file, daemon>>
  <2>1. NextEvent /\ events # <<>>
    BY <1>2 DEF ParseEvent, EnterSection, EnterStorage, AgentName, AgentAddress, Key, Value,
                ListStart, AgentEnd, ListEnd, InList, InMapping, ScalarEvent, Event
  <2>2. events \in Seq(Events)
    BY DEF FlagsInv
  <2> HIDE DEF Events
  <2> QED BY <2>1, <2>2 DEF NextEvent
<1>3. ASSUME ScalarEvent
      PROVE  Text \in Texts /\ Num \in Nat
  BY <1>3, ScalarTyped DEF FlagsInv
<1>4. CASE EnterSection
  <2>1. Text \in Daemons /\ section' = Text
        /\ UNCHANGED <<storage, inAgentList, inAgent, isValue, isList, key, config>>
    BY <1>4 DEF EnterSection
  <2> QED BY <1>2, <1>4, <2>1 DEF FlagsInv, ParseEvent
<1>5. CASE EnterStorage
  <2>1. storage' \in {"mysql", "spectrum"}
        /\ UNCHANGED <<section, inAgentList, inAgent, isValue, isList, key, config>>
    BY <1>5 DEF EnterStorage, Storages
  <2> QED BY <1>2, <1>5, <2>1 DEF FlagsInv, ParseEvent
<1>6. CASE AgentName
  <2>1. /\ inAgentList' \in BOOLEAN /\ inAgent' = TRUE /\ key' = Text
        /\ UNCHANGED <<section, storage, isValue, isList, config>>
    BY <1>6 DEF AgentName, ListBegins, FlagsInv
  <2>2. Text \in Texts
    BY <1>3, <1>6 DEF AgentName, InList
  <2> QED BY <1>2, <1>6, <2>1, <2>2 DEF FlagsInv, ParseEvent
<1>7. CASE \E a \in Addresses : AgentAddress(a)
  <2>1. /\ inAgentList' \in BOOLEAN
        /\ UNCHANGED <<section, storage, inAgent, isValue, isList, key, config>>
    BY <1>7 DEF AgentAddress, ListBegins, FlagsInv
  <2> QED BY <1>2, <1>7, <2>1 DEF FlagsInv, ParseEvent
<1>8. CASE Key
  <2>1. /\ key' = Text /\ isValue' = TRUE
        /\ UNCHANGED <<section, storage, inAgentList, inAgent, isList, config>>
    BY <1>8 DEF Key
  <2>2. Text \in Texts
    BY <1>3, <1>8 DEF Key, InMapping
  <2> QED BY <1>2, <1>8, <2>1, <2>2 DEF FlagsInv, ParseEvent
<1>9. CASE Value
  <2>1. /\ config' = IF key \in Keys[Target] THEN Assigned(<<Target, key>>, Num) ELSE config
        /\ isValue' = FALSE
        /\ UNCHANGED <<section, storage, inAgentList, inAgent, isList, key>>
    BY <1>9 DEF Value
  <2>2. ASSUME NEW sk \in DOMAIN config'
        PROVE  sk[2] \in Keys[sk[1]]
    <3>1. CASE sk \in DOMAIN config
      BY <3>1 DEF FlagsInv
    <3>2. CASE sk \notin DOMAIN config
      <4>1. CASE key \notin Keys[Target]
        BY <2>1, <2>2, <3>2, <4>1
      <4>2. CASE key \in Keys[Target]
        <5>3. DOMAIN config' = DOMAIN config \cup {<<Target, key>>}
          BY <2>1, <4>2 DEF Assigned
        <5>4. sk = <<Target, key>>
          BY <2>2, <3>2, <5>3
        <5>5. sk[1] = Target /\ sk[2] = key
          BY <5>4
        <5> QED BY <4>2, <5>5
      <4> QED BY <4>1, <4>2
    <3> QED BY <3>1, <3>2
  <2> QED BY <1>2, <1>9, <2>1, <2>2 DEF FlagsInv, ParseEvent
<1>10. CASE ListStart
  <2>1. isList' = TRUE /\ UNCHANGED <<section, storage, inAgentList, inAgent, isValue, key, config>>
    BY <1>10 DEF ListStart
  <2> QED BY <1>2, <1>10, <2>1 DEF FlagsInv, ParseEvent
<1>11. CASE AgentEnd
  <2>1. inAgent' = FALSE /\ isValue' = FALSE
        /\ UNCHANGED <<section, storage, inAgentList, isList, key, config>>
    BY <1>11 DEF AgentEnd
  <2> QED BY <1>2, <1>11, <2>1 DEF FlagsInv, ParseEvent
<1>12. CASE ListEnd
  <2>1. /\ inAgentList' \in BOOLEAN /\ isList' \in BOOLEAN /\ isValue' \in BOOLEAN
        /\ UNCHANGED <<section, storage, inAgent, key, config>>
    BY <1>12 DEF ListEnd, FlagsInv
  <2> QED BY <1>2, <1>12, <2>1 DEF FlagsInv, ParseEvent
<1> QED BY <1>1, <1>4, <1>5, <1>6, <1>7, <1>8, <1>9, <1>10, <1>11, <1>12
        DEF Next, ParseEvent, vars

-----------------------------------------------------------------------------
(* The types of the agents and their table.                                *)

LEMMA SequenceOf ==
  ASSUME NEW S, NEW s, IsList(s), \A i \in 1..Len(s) : s[i] \in S
  PROVE  s \in Seq(S)
<1> DEFINE R == Range(s)
<1>1. s \in Seq(R)
  BY DEF IsList
<1> HIDE DEF R
<1>2. s \in [1..Len(s) -> S] /\ Len(s) \in Nat
  BY <1>1
<1> QED BY <1>2

\* What no other invariant says of the agents and the nodes.
EntriesInv ==
  /\ \A x \in DOMAIN agents :
       agents[x].name \in Texts /\ agents[x].address \in Addresses /\ agents[x].datagrams \in Nat
  /\ \A i \in DOMAIN nodes : nodes[i].next \in Nat

LEMMA EntriesTyped ==
  ASSUME TableInv, DropsInv, EntriesInv
  PROVE  AgentsTypeOK
<1>1. /\ DOMAIN agents = 1..Len(agents) /\ IsList(agents)
      /\ DOMAIN nodes = 1..Len(nodes) /\ IsList(nodes)
  BY ListFacts DEF TableInv
<1>2. ASSUME NEW x \in 1..Len(agents)
      PROVE  agents[x] \in Agent
  <2> DEFINE g == agents[x]
  <2>1. /\ AgentRecord(g)
        /\ g.name \in Texts /\ g.address \in Addresses /\ g.datagrams \in Nat
        /\ g.sequence \in Nat /\ g.drops \in Nat
    <3>1. g.sequence \in 0..Modulus - 1 /\ g.drops \in Nat
      BY <1>1 DEF DropsInv
    <3>2. g.sequence \in Nat
      BY <3>1, ParserAssumption
    <3> QED BY <1>1, <3>1, <3>2 DEF TableInv, EntriesInv
  <2> HIDE DEF g
  <2>2. g \in Agent
    <3>1. ASSUME NEW nm \in Texts, NEW ad \in Addresses, NEW sq \in Nat, NEW da \in Nat, NEW dr \in Nat
          PROVE  [name |-> nm, address |-> ad, sequence |-> sq, datagrams |-> da, drops |-> dr] \in Agent
      BY DEF Agent
    <3> QED BY <2>1, <3>1 DEF AgentRecord
  <2> QED BY <2>2 DEF g
<1>3. ASSUME NEW i \in 1..Len(nodes)
      PROVE  nodes[i] \in Node(Len(agents))
  <2> DEFINE x == nodes[i]
  <2>1. /\ NodeRecord(x) /\ x.address \in Addresses
        /\ x.agent \in 1..Len(agents) /\ x.next \in Nat
    BY <1>1 DEF TableInv, EntriesInv
  <2> HIDE DEF x
  <2>2. x \in Node(Len(agents))
    <3>1. ASSUME NEW ad \in Addresses, NEW g \in 1..Len(agents), NEW n \in Nat
          PROVE  [address |-> ad, agent |-> g, next |-> n] \in Node(Len(agents))
      BY DEF Node
    <3> QED BY <2>1, <3>1 DEF NodeRecord
  <2> QED BY <2>2 DEF x
<1>4. agents \in Seq(Agent) /\ nodes \in Seq(Node(Len(agents)))
  BY <1>1, <1>2, <1>3, SequenceOf
<1>5. hash \in [Buckets -> 0..Len(nodes)]
  BY DEF TableInv
<1> QED BY <1>4, <1>5 DEF AgentsTypeOK

LEMMA InitEntries == Init => EntriesInv
<1> SUFFICES ASSUME Init PROVE EntriesInv
  OBVIOUS
<1>1. agents = <<>> /\ nodes = <<>>
  BY DEF Init, ConfigInit, AgentsInit
<1>2. DOMAIN <<>> = {}
  OBVIOUS
<1> QED BY <1>1, <1>2 DEF EntriesInv

LEMMA StepEntries ==
  ASSUME TableInv, EntriesInv, FlagsInv, [Next]_vars
  PROVE  EntriesInv'
<1>0. /\ Len(agents) \in Nat /\ DOMAIN agents = 1..Len(agents)
      /\ Len(nodes) \in Nat /\ DOMAIN nodes = 1..Len(nodes)
  BY ListFacts DEF TableInv
<1>1. CASE UNCHANGED agentVars
  BY <1>1 DEF EntriesInv, agentVars
<1>2. ASSUME NEW a \in Addresses, AgentAddress(a)
      PROVE  EntriesInv'
  <2>1. ASSUME NEW x \in DOMAIN agents'
        PROVE  /\ agents'[x].name \in Texts /\ agents'[x].address \in Addresses
               /\ agents'[x].datagrams \in Nat
    <3>1. CASE agent # 0
      <4>1. UNCHANGED agents
        BY <1>2, <3>1 DEF AgentAddress
      <4> QED BY <4>1, <2>1 DEF EntriesInv
    <3>2. CASE agent = 0
      <4> DEFINE new == [name |-> key, address |-> a, sequence |-> 0, datagrams |-> 0, drops |-> 0]
      <4>1. agents' = Append(agents, new)
        BY <1>2, <3>2 DEF AgentAddress, AddAgent
      <4>2. new.name \in Texts /\ new.address \in Addresses /\ new.datagrams \in Nat
        BY DEF FlagsInv
      <4> HIDE DEF new
      <4>3. /\ IsList(agents') /\ Len(agents') = Len(agents) + 1
            /\ \A i \in 1..Len(agents) : agents'[i] = agents[i]
            /\ agents'[Len(agents) + 1] = new
        BY <4>1, Grown DEF TableInv
      <4>4. DOMAIN agents' = 1..Len(agents) + 1
        BY <4>3, ListFacts
      <4>5. x \in DOMAIN agents \/ x = Len(agents) + 1
        BY <1>0, <2>1, <4>4
      <4> QED BY <1>0, <4>2, <4>3, <4>5 DEF EntriesInv
    <3> QED BY <3>1, <3>2
  <2>2. ASSUME NEW i \in DOMAIN nodes'
        PROVE  nodes'[i].next \in Nat
    <3> DEFINE new  == Len(nodes) + 1
               head == hash[BucketOf(a)]
               link(j) == [nodes[j] EXCEPT !.next = IF j = head THEN new ELSE @]
               old  == [j \in DOMAIN nodes |-> link(j)]
               node == [address |-> a, agent |-> agent', next |-> 0]
    <3>1. nodes' = Append(old, node)
      BY <1>2 DEF AgentAddress, AddAddress
    <3>2. \A j \in 1..Len(nodes) : link(j).next \in Nat
      <4> TAKE j \in 1..Len(nodes)
      <4>1. NodeRecord(nodes[j]) /\ nodes[j].next \in Nat /\ new \in Nat
        BY <1>0 DEF TableInv, EntriesInv
      <4> HIDE DEF new, head
      <4> QED BY <4>1 DEF NodeRecord
    <3>3. \A j \in 1..Len(nodes) : old[j].next \in Nat
      BY <1>0, <3>2
    <3>4. old = [j \in 1..Len(nodes) |-> old[j]] /\ node.next \in Nat
      BY <1>0
    <3> HIDE DEF old, node, link
    <3>5. IsList(old) /\ Len(old) = Len(nodes)
      BY <1>0, <3>4, FunctionIsList
    <3>6. /\ IsList(nodes') /\ Len(nodes') = Len(nodes) + 1
          /\ \A j \in 1..Len(nodes) : nodes'[j] = old[j]
          /\ nodes'[Len(nodes) + 1] = node
      BY <3>1, <3>5, Grown
    <3>7. i \in 1..Len(nodes) \/ i = Len(nodes) + 1
      BY <1>0, <2>2, <3>6, ListFacts
    <3> QED BY <3>3, <3>4, <3>6, <3>7
  <2> QED BY <2>1, <2>2 DEF EntriesInv
<1>3. ASSUME NEW a \in Addresses, NEW own \in Addresses, NEW n, NEW samples,
             Datagram(a, own, n, samples), UNCHANGED <<nodes, hash>>
      PROVE  EntriesInv'
  <2>1. CASE UNCHANGED agents
    BY <1>3, <2>1 DEF EntriesInv
  <2>2. ASSUME NEW g \in DOMAIN agents, DOMAIN agents' = DOMAIN agents,
               \A x \in DOMAIN agents :
                 agents'[x] = IF x = g THEN Counted(agents[g], n) ELSE agents[x]
        PROVE  EntriesInv'
    <3> DEFINE b == agents[g]
    <3>1. AgentRecord(b) /\ b.name \in Texts /\ b.address \in Addresses /\ b.datagrams \in Nat
      BY DEF TableInv, EntriesInv
    <3> HIDE DEF b
    <3>2. /\ Counted(b, n).name = b.name /\ Counted(b, n).address = b.address
          /\ Counted(b, n).datagrams = b.datagrams + 1
      <4> DEFINE d == b.drops + (IF b.sequence # 0 THEN Distance(b.sequence, n) ELSE 0)
      <4>1. Counted(b, n) = [b EXCEPT !.datagrams = b.datagrams + 1, !.drops = d, !.sequence = n]
        BY DEF Counted
      <4> HIDE DEF d
      <4>2. ASSUME NEW nm, NEW ad, NEW sq, NEW da, NEW dr, NEW p,
                   b = [name |-> nm, address |-> ad, sequence |-> sq, datagrams |-> da, drops |-> dr]
            PROVE  LET c == [b EXCEPT !.datagrams = p, !.drops = d, !.sequence = n]
                   IN  c.name = nm /\ c.address = ad /\ c.datagrams = p
        BY <4>2
      <4> QED BY <3>1, <4>1, <4>2 DEF AgentRecord
    <3>3. /\ Counted(b, n).name \in Texts /\ Counted(b, n).address \in Addresses
          /\ Counted(b, n).datagrams \in Nat
      BY <3>1, <3>2
    <3> QED BY <1>3, <2>2, <3>3 DEF EntriesInv, b
  <2> QED BY <1>3, <2>1, <2>2, DatagramCounts
<1> QED BY <1>1, <1>2, <1>3, TableSteps DEF agentVars

\* Every variable of stcollectd keeps its type while a configuration is read and
\* datagrams come, whatever the files and the samples: no agent is half made, the
\* parser never asks for more samples than there are items, and no buffer takes
\* more than it has places for (parse_event, add_agent, add_address, parseDatagram).
THEOREM ReceptionType == Spec => []TypeOK
<1>1. TableInv /\ DropsInv /\ SafeInv /\ ReadInv /\ CountsInv /\ FlagsInv /\ EntriesInv => TypeOK
  <2> SUFFICES ASSUME TableInv, DropsInv, SafeInv, ReadInv, CountsInv, FlagsInv, EntriesInv
               PROVE  TypeOK
    OBVIOUS
  <2>1. ParserTypeOK
    BY ParserTyped
  <2>2. AgentsTypeOK /\ agent \in 0..Len(agents)
    BY EntriesTyped DEF TableInv
  <2>3. ConfigTypeOK
    BY <2>2 DEF ConfigTypeOK, FlagsInv, Events
  <2> QED BY <2>1, <2>3 DEF TypeOK
<1> QED BY <1>1, InitTable, StepTable, InitDrops, StepDrops, InitSafe, StepSafe, InitRead, StepRead,
           InitCounts, StepCounts, InitFlags, StepFlags, InitEntries, StepEntries, PTL DEF Spec

-----------------------------------------------------------------------------
(* Sequences of events.                                                     *)

\* An element in front of a sequence is its head.
LEMMA InFront ==
  ASSUME NEW S, NEW x \in S, NEW z \in Seq(S)
  PROVE  /\ <<x>> \o z \in Seq(S) /\ <<x>> \o z # <<>>
         /\ Head(<<x>> \o z) = x /\ Tail(<<x>> \o z) = z
<1> DEFINE c == <<x>> \o z
<1>1. <<x>> \in Seq(S) /\ Len(<<x>>) = 1 /\ <<x>>[1] = x /\ Len(z) \in Nat
  OBVIOUS
<1>2. /\ c \in Seq(S) /\ Len(c) = 1 + Len(z)
      /\ \A i \in 1..1 + Len(z) : c[i] = IF i <= 1 THEN <<x>>[i] ELSE z[i - 1]
  BY <1>1, ConcatProperties
<1> HIDE DEF c
<1>3. c # <<>> /\ Head(c) = x
  BY <1>1, <1>2
<1>4. Tail(c) \in Seq(S) /\ Len(Tail(c)) = Len(z) /\ \A i \in 1..Len(z) : Tail(c)[i] = c[i + 1]
  BY <1>1, <1>2, <1>3, HeadTailProperties
<1>5. \A i \in 1..Len(z) : Tail(c)[i] = z[i]
  <2> TAKE i \in 1..Len(z)
  <2>1. i + 1 \in 1..1 + Len(z) /\ ~(i + 1 <= 1) /\ i + 1 - 1 = i
    BY <1>1
  <2> QED BY <1>2, <1>4, <2>1
<1>6. Tail(c) = z
  <2> DEFINE t == Tail(c)
  <2>1. t \in Seq(S) /\ Len(t) = Len(z) /\ \A i \in 1..Len(z) : t[i] = z[i]
    BY <1>4, <1>5
  <2> HIDE DEF t
  <2>2. t = z
    BY <2>1
  <2> QED BY <2>2 DEF t
<1> QED BY <1>2, <1>3, <1>6 DEF c

\* The first of the elements to come becomes the last of those that went by.
LEMMA MovesOver ==
  ASSUME NEW S, NEW a \in Seq(S), NEW b \in Seq(S), b # <<>>
  PROVE  /\ a \o b = Append(a, Head(b)) \o Tail(b)
         /\ Append(a, Head(b)) \in Seq(S) /\ Append(a, Head(b)) # <<>>
         /\ Tail(b) \in Seq(S) /\ Head(b) \in S
         /\ Len(a) \in Nat /\ Len(Append(a, Head(b))) = Len(a) + 1
         /\ Len(a) + 1 \in 1..Len(a \o b) /\ (a \o b)[Len(a) + 1] = Head(b)
<1>1. /\ Head(b) \in S /\ Tail(b) \in Seq(S) /\ Len(a) \in Nat /\ Len(b) \in Nat \ {0}
      /\ Head(b) = b[1]
  BY HeadTailProperties
<1>2. b = <<Head(b)>> \o Tail(b)
  <2> DEFINE h == Head(b)
             t == Tail(b)
  <2>1. <<h>> \in Seq(S) /\ Len(<<h>>) = 1 /\ <<h>>[1] = b[1] /\ t \in Seq(S) /\ Len(t) = Len(b) - 1
        /\ \A i \in 1..Len(b) - 1 : t[i] = b[i + 1]
    BY <1>1, HeadTailProperties
  <2> HIDE DEF h, t
  <2>2. /\ <<h>> \o t \in Seq(S) /\ Len(<<h>> \o t) = Len(b)
        /\ \A i \in 1..Len(b) : (<<h>> \o t)[i] = IF i <= 1 THEN <<h>>[i] ELSE t[i - 1]
    BY <1>1, <2>1, ConcatProperties
  <2>3. \A i \in 1..Len(b) : (<<h>> \o t)[i] = b[i]
    <3> TAKE i \in 1..Len(b)
    <3>1. CASE i = 1
      BY <2>1, <2>2, <3>1
    <3>2. CASE i # 1
      <4>1. i - 1 \in 1..Len(b) - 1 /\ ~(i <= 1) /\ i - 1 + 1 = i
        BY <1>1, <3>2
      <4> QED BY <2>1, <2>2, <4>1
    <3> QED BY <3>1, <3>2
  <2> DEFINE c == <<h>> \o t
  <2>4. c \in Seq(S) /\ Len(c) = Len(b) /\ \A i \in 1..Len(b) : c[i] = b[i]
    BY <2>2, <2>3
  <2> HIDE DEF c
  <2>5. c = b
    BY <2>4
  <2> QED BY <2>5 DEF c, h, t
<1>3. Append(a, Head(b)) = a \o <<Head(b)>> /\ <<Head(b)>> \in Seq(S)
  BY <1>1, AppendIsConcat
<1>4. (a \o <<Head(b)>>) \o Tail(b) = a \o (<<Head(b)>> \o Tail(b))
  BY <1>1, <1>3, ConcatAssociative, SMTT(30)
<1>5. Append(a, Head(b)) \in Seq(S) /\ Append(a, Head(b)) # <<>> /\ Len(Append(a, Head(b))) = Len(a) + 1
  BY <1>1, AppendProperties
<1>6. Len(a) + 1 \in 1..Len(a \o b) /\ (a \o b)[Len(a) + 1] = Head(b)
  <2>1. /\ Len(a \o b) = Len(a) + Len(b)
        /\ \A i \in 1..Len(a) + Len(b) : (a \o b)[i] = IF i <= Len(a) THEN a[i] ELSE b[i - Len(a)]
    BY ConcatProperties
  <2>2. Len(a) + 1 \in 1..Len(a) + Len(b) /\ ~(Len(a) + 1 <= Len(a)) /\ Len(a) + 1 - Len(a) = 1
    BY <1>1
  <2> QED BY <1>1, <2>1, <2>2
<1> QED BY <1>1, <1>2, <1>3, <1>4, <1>5, <1>6

-----------------------------------------------------------------------------
(* The events of the items to come.                                        *)

AllEvents(q) == FlattenSeq([i \in 1..Len(q) |-> EventsOf(q[i])])
EntryEvents(l) == FlattenSeq([i \in 1..Len(l) |-> AgentEvents(l[i])])
AddressEvents(ads) == [i \in 1..Len(ads) |-> Address(ads[i])]

LEMMA AllEventsFirst ==
  ASSUME NEW q \in Seq(FileItem), q # <<>>
  PROVE  /\ AllEvents(q) = EventsOf(Head(q)) \o AllEvents(Tail(q))
         /\ AllEvents(q) \in Seq(Events) /\ AllEvents(Tail(q)) \in Seq(Events)
         /\ EventsOf(Head(q)) \in Seq(Events)
         /\ Head(q) \in FileItem
<1> DEFINE S == FileItem
           E == Events
           p == [i \in 1..Len(q) |-> EventsOf(q[i])]
           r == [i \in 1..Len(Tail(q)) |-> EventsOf(Tail(q)[i])]
<1>0. \A x \in S : EventsOf(x) \in Seq(E)
  BY EventsOfType
<1>1. q \in Seq(S)
  OBVIOUS
<1> HIDE DEF S, E
<1>2. /\ Len(q) \in Nat \ {0} /\ \A i \in 1..Len(q) : q[i] \in S
      /\ Head(q) = q[1] /\ Head(q) \in S
      /\ Len(Tail(q)) = Len(q) - 1 /\ \A i \in 1..Len(q) - 1 : Tail(q)[i] = q[i + 1]
  BY <1>1, HeadTailProperties
<1>3. p \in [1..Len(q) -> Seq(E)] /\ p[1] = EventsOf(Head(q))
  BY <1>0, <1>2
<1>4. r = [i \in 1..Len(q) - 1 |-> p[i + 1]]
  BY <1>2
<1>5. AllEvents(q) = FlattenSeq(p) /\ AllEvents(Tail(q)) = FlattenSeq(r)
  BY DEF AllEvents
<1> HIDE DEF p, r
<1>6. FlattenSeq(p) = p[1] \o FlattenSeq(r)
  <2>1. Len(q) \in Nat \ {0} /\ p \in [1..Len(q) -> Seq(E)]
    BY <1>2, <1>3
  <2>2. r \in [1..Len(q) - 1 -> Seq(E)] /\ \A i \in 1..Len(q) - 1 : r[i] = p[i + 1]
    BY <1>4, <2>1
  <2> QED BY <2>1, <2>2, FlattenFirst
<1>7. FlattenSeq(p) \in Seq(E)
  BY <1>2, <1>3, FlattenElements
<1>8. FlattenSeq(r) \in Seq(E)
  <2>1. Len(q) - 1 \in Nat /\ r \in [1..Len(q) - 1 -> Seq(E)]
    BY <1>2, <1>3, <1>4
  <2> QED BY <2>1, FlattenElements
<1> QED BY <1>0, <1>2, <1>3, <1>5, <1>6, <1>7, <1>8 DEF S, E

LEMMA NoEvents ==
  AllEvents(<<>>) = <<>> /\ EntryEvents(<<>>) = <<>> /\ AddressEvents(<<>>) = <<>>
<1>1. Len(<<>>) = 0 /\ 1..0 = {}
  OBVIOUS
<1>2. [i \in 1..Len(<<>>) |-> EventsOf(<<>>[i])] = <<>>
  BY <1>1
<1>3. [i \in 1..Len(<<>>) |-> AgentEvents(<<>>[i])] = <<>>
  BY <1>1
<1>4. [i \in 1..Len(<<>>) |-> Address(<<>>[i])] = <<>>
  BY <1>1
<1> QED BY <1>2, <1>3, <1>4, FlattenEmpty DEF AllEvents, EntryEvents, AddressEvents

LEMMA AllEventsType ==
  ASSUME NEW q \in Seq(FileItem)
  PROVE  AllEvents(q) \in Seq(Events)
<1>1. CASE q = <<>>
  <2>1. AllEvents(<<>>) = <<>>
    BY NoEvents
  <2> HIDE DEF Events
  <2>2. <<>> \in Seq(Events)
    OBVIOUS
  <2> QED BY <1>1, <2>1, <2>2
<1>2. CASE q # <<>>
  BY <1>2, AllEventsFirst
<1> QED BY <1>1, <1>2

\* The events of an agent, one for each of its addresses.
LEMMA AddressEventsFirst ==
  ASSUME NEW ads \in Seq(Addresses)
  PROVE  /\ AddressEvents(ads) \in Seq(Events)
         /\ ads # <<>> => /\ AddressEvents(ads) # <<>>
                         /\ Head(AddressEvents(ads)) = Address(Head(ads))
                         /\ Tail(AddressEvents(ads)) = AddressEvents(Tail(ads))
<1> DEFINE E == Events
           n == Len(ads)
           c == [i \in 1..n |-> Address(ads[i])]
<1>1. n \in Nat /\ \A i \in 1..n : ads[i] \in Addresses
  OBVIOUS
<1>2. \A a \in Addresses : Address(a) \in E
  BY EventTypes
<1>3. c = AddressEvents(ads)
  BY DEF AddressEvents
<1>4. ASSUME ads # <<>>
      PROVE  /\ n # 0 /\ Head(ads) = ads[1] /\ Len(Tail(ads)) = n - 1
             /\ \A i \in 1..n - 1 : Tail(ads)[i] = ads[i + 1]
  BY <1>4, HeadTailProperties
<1> HIDE DEF E
<1>5. c \in [1..n -> E]
  BY <1>1, <1>2
<1>6. ASSUME n # 0
      PROVE  c[1] = Address(ads[1]) /\ \A i \in 1..n - 1 : c[i + 1] = Address(ads[i + 1])
  BY <1>1, <1>6
<1>7. AddressEvents(Tail(ads)) = [i \in 1..Len(Tail(ads)) |-> Address(Tail(ads)[i])]
  BY DEF AddressEvents
<1> HIDE DEF c, n
<1>8. c \in Seq(E) /\ Len(c) = n
  BY <1>1, <1>5
<1>9. ASSUME n # 0
      PROVE  /\ c # <<>> /\ Head(c) = c[1]
             /\ Tail(c) = [i \in 1..n - 1 |-> c[i + 1]]
  <2>1. c # <<>> /\ Head(c) = c[1]
    BY <1>1, <1>8, <1>9
  <2> DEFINE t == Tail(c)
  <2>2. t \in Seq(E) /\ Len(t) = n - 1 /\ \A i \in 1..n - 1 : t[i] = c[i + 1]
    BY <1>1, <1>8, <2>1, HeadTailProperties
  <2> HIDE DEF t
  <2>3. t = [i \in 1..n - 1 |-> c[i + 1]]
    BY <2>2
  <2> QED BY <2>1, <2>3 DEF t
<1>10. ASSUME ads # <<>>
       PROVE  c # <<>> /\ Head(c) = Address(Head(ads)) /\ Tail(c) = AddressEvents(Tail(ads))
  <2>1. Tail(c) = [i \in 1..n - 1 |-> Address(Tail(ads)[i])]
    BY <1>4, <1>6, <1>9, <1>10
  <2> QED BY <1>4, <1>6, <1>7, <1>9, <1>10, <2>1
<1> QED BY <1>3, <1>8, <1>10 DEF E

LEMMA EntryEventsFirst ==
  ASSUME NEW l \in Seq(Entry)
  PROVE  /\ EntryEvents(l) \in Seq(Events)
         /\ l # <<>> => /\ EntryEvents(l) = AgentEvents(Head(l)) \o EntryEvents(Tail(l))
                        /\ EntryEvents(Tail(l)) \in Seq(Events)
                        /\ AgentEvents(Head(l)) \in Seq(Events)
                        /\ Head(l) \in Entry
<1> DEFINE S == Entry
           E == Events
           p == [i \in 1..Len(l) |-> AgentEvents(l[i])]
           r == [i \in 1..Len(Tail(l)) |-> AgentEvents(Tail(l)[i])]
<1>0. \A x \in S : AgentEvents(x) \in Seq(E)
  BY AgentEventsType
<1>1. l \in Seq(S)
  OBVIOUS
<1> HIDE DEF S, E
<1>2. Len(l) \in Nat /\ \A i \in 1..Len(l) : l[i] \in S
  BY <1>1
<1>3. p \in [1..Len(l) -> Seq(E)]
  BY <1>0, <1>2
<1>4. EntryEvents(l) = FlattenSeq(p) /\ EntryEvents(Tail(l)) = FlattenSeq(r)
  BY DEF EntryEvents
<1>5. FlattenSeq(p) \in Seq(E)
  <2> HIDE DEF p
  <2> QED BY <1>2, <1>3, FlattenElements
<1>6. ASSUME l # <<>>
      PROVE  /\ FlattenSeq(p) = AgentEvents(Head(l)) \o FlattenSeq(r)
             /\ FlattenSeq(r) \in Seq(E) /\ AgentEvents(Head(l)) \in Seq(E) /\ Head(l) \in S
  <2>1. /\ Len(l) \in Nat \ {0}
        /\ Head(l) = l[1] /\ Head(l) \in S
        /\ Len(Tail(l)) = Len(l) - 1 /\ \A i \in 1..Len(l) - 1 : Tail(l)[i] = l[i + 1]
    BY <1>1, <1>6, HeadTailProperties
  <2>2. r = [i \in 1..Len(l) - 1 |-> p[i + 1]] /\ p[1] = AgentEvents(Head(l))
    BY <2>1
  <2> HIDE DEF p, r
  <2>3. FlattenSeq(p) = p[1] \o FlattenSeq(r)
    <3>1. Len(l) \in Nat \ {0} /\ p \in [1..Len(l) -> Seq(E)]
      BY <1>3, <2>1
    <3>2. r \in [1..Len(l) - 1 -> Seq(E)] /\ \A i \in 1..Len(l) - 1 : r[i] = p[i + 1]
      BY <2>2, <3>1
    <3> QED BY <3>1, <3>2, FlattenFirst
  <2>4. FlattenSeq(r) \in Seq(E)
    <3>1. Len(l) - 1 \in Nat /\ r \in [1..Len(l) - 1 -> Seq(E)]
      BY <1>3, <2>1, <2>2
    <3> QED BY <3>1, FlattenElements
  <2> QED BY <1>0, <2>1, <2>2, <2>3, <2>4
<1> QED BY <1>4, <1>5, <1>6 DEF S, E

-----------------------------------------------------------------------------
(* What one event does.                                                    *)

LEMMA EventFields ==
  /\ \A t : Name(t).type = "scalar" /\ Name(t).text = t
  /\ \A n : Number(n).type = "scalar" /\ Number(n).text = "" /\ Number(n).num = n
  /\ \A a : Address(a).type = "scalar" /\ Address(a).text = "" /\ Address(a).num = a /\ Address(a).ip = TRUE
  /\ SequenceStart.type = "start" /\ SequenceEnd.type = "end"
BY DEF Name, Number, Address, SequenceStart, SequenceEnd

LEMMA TextsApart ==
  /\ Daemons \cap DOMAIN Storages = {}
  /\ "" \notin SectionNames /\ "agents" \notin SectionNames
  /\ "" \notin KnownKeys /\ "agents" \notin KnownKeys
<1>1. DOMAIN Storages = {"storage_mysql", "storage_spectrum"}
  BY DEF Storages
<1>2. DOMAIN Keys = {"none", "stcollectd", "stprocessd", "mysql", "spectrum"}
  BY DEF Keys
<1>3. \A s \in DOMAIN Keys : "" \notin Keys[s] /\ "agents" \notin Keys[s]
  <2> TAKE s \in DOMAIN Keys
  <2>1. CASE s = "none"
    BY <2>1 DEF Keys
  <2>2. CASE s = "stcollectd"
    BY <2>2 DEF Keys
  <2>3. CASE s = "stprocessd"
    BY <2>3 DEF Keys
  <2>4. CASE s = "mysql"
    BY <2>4 DEF Keys
  <2>5. CASE s = "spectrum"
    BY <2>5 DEF Keys
  <2> QED BY <1>2, <2>1, <2>2, <2>3, <2>4, <2>5
<1> QED BY <1>1, <1>3 DEF Daemons, SectionNames, KnownKeys

\* The name of a daemon enters its section.
LEMMA SectionStep ==
  ASSUME ParseEvent, ScalarEvent, Text \in Daemons
  PROVE  /\ NextEvent /\ section' = Text
         /\ UNCHANGED <<agentVars, storage, inAgentList, inAgent, isValue, isList, key, agent, config>>
<1>1. Head(events).type = "scalar" /\ NamesSection /\ Text \notin DOMAIN Storages
  BY TextsApart DEF ScalarEvent, Event, NamesSection
<1>2. EnterSection
  BY <1>1 DEF ParseEvent, EnterStorage, AgentName, AgentAddress, Key, Value, ListStart, AgentEnd, ListEnd,
              InList, InMapping, Event
<1> QED BY <1>2 DEF EnterSection

LEMMA StorageStep ==
  ASSUME ParseEvent, ScalarEvent, section = "stprocessd", Text \in DOMAIN Storages
  PROVE  /\ NextEvent /\ storage' = Storages[Text]
         /\ UNCHANGED <<agentVars, section, inAgentList, inAgent, isValue, isList, key, agent, config>>
<1>1. Head(events).type = "scalar" /\ NamesSection /\ Text \notin Daemons
  BY TextsApart DEF ScalarEvent, Event, NamesSection
<1>2. EnterStorage
  BY <1>1 DEF ParseEvent, EnterSection, AgentName, AgentAddress, Key, Value, ListStart, AgentEnd, ListEnd,
              InList, InMapping, Event
<1> QED BY <1>2 DEF EnterStorage

\* A scalar of a mapping is a key, or the value that belongs to the last key.
LEMMA MappingStep ==
  ASSUME ParseEvent, ScalarEvent, Text \notin SectionNames, ~isList \/ daemon # "stcollectd"
  PROVE  /\ NextEvent
         /\ UNCHANGED <<agentVars, section, storage, inAgentList, inAgent, isList, agent>>
         /\ isValue \in BOOLEAN => isValue' = ~isValue
         /\ ~isValue => key' = Text /\ config' = config
         /\ isValue => /\ key' = key
                       /\ config' = IF key \in Keys[Target] THEN Assigned(<<Target, key>>, Num) ELSE config
<1>1. Head(events).type = "scalar" /\ ~NamesSection /\ Text \notin Daemons /\ Text \notin DOMAIN Storages
  BY DEF ScalarEvent, Event, NamesSection, SectionNames
<1>2. Key \/ Value
  BY <1>1 DEF ParseEvent, EnterSection, EnterStorage, AgentName, AgentAddress, ListStart, AgentEnd, ListEnd,
              InList, Event
<1>3. CASE Key
  BY <1>3 DEF Key
<1>4. CASE Value
  BY <1>4 DEF Value
<1> QED BY <1>2, <1>3, <1>4

\* A scalar of the list of agents is a name, or an address of the last name.
LEMMA NameStep ==
  ASSUME ParseEvent, ScalarEvent, Text \notin SectionNames, isList, daemon = "stcollectd", ~inAgent
  PROVE  /\ NextEvent
         /\ inAgentList' = (inAgentList \/ key = "agents") /\ inAgent' = TRUE /\ key' = Text
         /\ UNCHANGED <<agentVars, section, storage, isValue, isList, agent, config>>
<1>1. Head(events).type = "scalar" /\ ~NamesSection /\ Text \notin Daemons /\ Text \notin DOMAIN Storages
  BY DEF ScalarEvent, Event, NamesSection, SectionNames
<1>2. AgentName
  BY <1>1 DEF ParseEvent, EnterSection, EnterStorage, AgentAddress, Key, Value, ListStart, AgentEnd, ListEnd,
              InList, InMapping, Event
<1> QED BY <1>2 DEF AgentName, ListBegins

LEMMA AddressStep ==
  ASSUME ParseEvent, ScalarEvent, Text \notin SectionNames, isList, daemon = "stcollectd", inAgent
  PROVE  /\ NextEvent
         /\ inAgentList' = (inAgentList \/ key = "agents")
         /\ UNCHANGED <<section, storage, inAgent, isValue, isList, key, config>>
         /\ \E a \in Addresses : AgentAddress(a) /\ a \in IpToNum
<1>1. Head(events).type = "scalar" /\ ~NamesSection /\ Text \notin Daemons /\ Text \notin DOMAIN Storages
  BY DEF ScalarEvent, Event, NamesSection, SectionNames
<1>2. \E a \in Addresses : AgentAddress(a)
  BY <1>1 DEF ParseEvent, EnterSection, EnterStorage, AgentName, Key, Value, ListStart, AgentEnd, ListEnd,
              InList, InMapping, Event
<1> QED BY <1>2 DEF AgentAddress, ListBegins

LEMMA StartStep ==
  ASSUME ParseEvent, Event("start")
  PROVE  /\ NextEvent /\ isList' = TRUE
         /\ UNCHANGED <<agentVars, section, storage, inAgentList, inAgent, isValue, key, agent, config>>
<1>1. Head(events).type = "start"
  BY DEF Event
<1>2. ListStart
  BY <1>1 DEF ParseEvent, EnterSection, EnterStorage, AgentName, AgentAddress, Key, Value, AgentEnd, ListEnd,
              InList, InMapping, ScalarEvent, Event
<1> QED BY <1>2 DEF ListStart

LEMMA EndStep ==
  ASSUME ParseEvent, Event("end")
  PROVE  /\ NextEvent
         /\ UNCHANGED <<agentVars, section, storage, key, config>>
         /\ inAgent => /\ agent' = 0 /\ inAgent' = FALSE /\ isValue' = FALSE
                       /\ UNCHANGED <<inAgentList, isList>>
         /\ ~inAgent => /\ UNCHANGED <<inAgent, agent>>
                        /\ IF inAgentList
                           THEN inAgentList' = FALSE /\ isList' = FALSE /\ UNCHANGED isValue
                           ELSE isValue' = FALSE /\ UNCHANGED <<inAgentList, isList>>
<1>1. Head(events).type = "end"
  BY DEF Event
<1>2. AgentEnd \/ ListEnd
  BY <1>1 DEF ParseEvent, EnterSection, EnterStorage, AgentName, AgentAddress, Key, Value, ListStart,
              InList, InMapping, ScalarEvent, Event
<1>3. CASE AgentEnd
  BY <1>3 DEF AgentEnd
<1>4. CASE ListEnd
  BY <1>4 DEF ListEnd
<1> QED BY <1>2, <1>3, <1>4

-----------------------------------------------------------------------------
(* The sections.                                                           *)

IsMark(x) == x.kind \in {"section", "outer"}

LEMMA SectionAtMark ==
  ASSUME NEW f, NEW i \in Nat \ {0}, IsMark(f[i])
  PROVE  SectionAt(f, i) = Opens(f[i])
<1> DEFINE marks == {j \in 1..i : f[j].kind \in {"section", "outer"}}
<1>1. i \in marks /\ \A j \in marks : j \in Nat /\ i >= j
  BY DEF IsMark
<1>2. SectionAt(f, i) = Opens(f[Max(marks)])
  BY <1>1 DEF SectionAt
<1> HIDE DEF marks
<1>3. Max(marks) = i
  <2>1. Max(marks) = CHOOSE x \in marks : \A y \in marks : x >= y
    BY DEF Max
  <2>2. \A x \in marks : (\A y \in marks : x >= y) => x = i
    BY <1>1
  <2> QED BY <1>1, <2>1, <2>2
<1> QED BY <1>2, <1>3

LEMMA SectionAtOther ==
  ASSUME NEW f, NEW i \in Nat \ {0}, ~IsMark(f[i])
  PROVE  SectionAt(f, i) = SectionAt(f, i - 1)
<1>1. {j \in 1..i : f[j].kind \in {"section", "outer"}} = {j \in 1..i - 1 : f[j].kind \in {"section", "outer"}}
  BY DEF IsMark
<1> QED BY <1>1 DEF SectionAt

LEMMA SectionAtStart ==
  ASSUME NEW f
  PROVE  SectionAt(f, 0) = "none"
<1>1. {j \in 1..0 : f[j].kind \in {"section", "outer"}} = {}
  OBVIOUS
<1> QED BY <1>1 DEF SectionAt

LEMMA StorageNames ==
  /\ DOMAIN Storages = {"storage_mysql", "storage_spectrum"}
  /\ Range(Storages) = {"mysql", "spectrum"}
  /\ \A n \in DOMAIN Storages : Storages[n] \in {"mysql", "spectrum"}
  /\ DOMAIN Keys = {"none", "stcollectd", "stprocessd", "mysql", "spectrum"}
<1>1. DOMAIN Storages = {"storage_mysql", "storage_spectrum"}
  BY DEF Storages
<1>2. Storages["storage_mysql"] = "mysql" /\ Storages["storage_spectrum"] = "spectrum"
  BY DEF Storages
<1>3. DOMAIN Keys = {"none", "stcollectd", "stprocessd", "mysql", "spectrum"}
  BY DEF Keys
<1> QED BY <1>1, <1>2, <1>3 DEF Range

\* What kind of item may stand where.
LEMMA ItemFacts ==
  ASSUME file \in Files, NEW k \in Nat, k + 1 \in DOMAIN file
  PROVE  LET x == file[k + 1]
         IN  /\ x \in FileItem
             /\ \/ x.kind = "section" /\ x.name \in Daemons
                   /\ SectionAt(file, k) \in Daemons \cup {"none"}
                \/ x.kind = "section" /\ x.name \in DOMAIN Storages /\ x.name \notin Daemons
                   /\ SectionAt(file, k) = "stprocessd"
                \/ x.kind = "outer" /\ SectionAt(file, k) \in {"mysql", "spectrum"}
                \/ x.kind = "setting" /\ SectionAt(file, k) # "none"
                   /\ x.key \in Texts \ (SectionNames \cup {"agents"}) /\ x.num \in Nat
                \/ x.kind = "agents" /\ SectionAt(file, k) # "none" /\ x.list \in Seq(Entry)
<1> DEFINE x == file[k + 1]
<1>1. x \in FileItem
  <2>1. Files \subseteq Seq(FileItem)
    BY ConfigAssumption
  <2> HIDE DEF FileItem
  <2>2. file \in Seq(FileItem)
    BY <2>1
  <2> QED BY <2>2
<1>2. WellNested(file)
  BY ConfigAssumption
<1>3. k + 1 - 1 = k
  OBVIOUS
<1>4. (CASE x.kind = "section" /\ x.name \in Daemons -> SectionAt(file, k) \in Daemons \cup {"none"}
         [] x.kind = "section" /\ x.name \notin Daemons -> SectionAt(file, k) = "stprocessd"
         [] x.kind = "outer" -> SectionAt(file, k) \in Range(Storages)
         [] OTHER -> SectionAt(file, k) # "none")
  BY <1>2, <1>3 DEF WellNested
<1> HIDE DEF x
<1>5. CASE x \in [kind : {"section"}, name : SectionNames]
  <2>1. x.kind = "section" /\ x.name \in SectionNames
    BY <1>5
  <2>2. CASE x.name \in Daemons
    <3>1. SectionAt(file, k) \in Daemons \cup {"none"}
      BY <1>4, <2>1, <2>2
    <3> QED BY <1>1, <2>1, <2>2, <3>1 DEF x
  <2>3. CASE x.name \notin Daemons
    <3>1. SectionAt(file, k) = "stprocessd"
      BY <1>4, <2>1, <2>3
    <3> QED BY <1>1, <2>1, <2>3, <3>1 DEF x, SectionNames
  <2> QED BY <2>2, <2>3
<1>6. CASE x \in [kind : {"outer"}]
  <2>1. x.kind = "outer"
    BY <1>6
  <2>2. SectionAt(file, k) \in {"mysql", "spectrum"}
    BY <1>4, <2>1, StorageNames
  <2> QED BY <1>1, <2>1, <2>2 DEF x
<1>7. CASE x \in [kind : {"setting"}, key : Texts \ (SectionNames \cup {"agents"}), num : Nat]
  <2>1. x.kind = "setting" /\ x.key \in Texts \ (SectionNames \cup {"agents"}) /\ x.num \in Nat
    BY <1>7
  <2>2. SectionAt(file, k) # "none"
    BY <1>4, <2>1
  <2> QED BY <1>1, <2>1, <2>2 DEF x
<1>8. CASE x \in [kind : {"agents"}, list : Seq(Entry)]
  <2>1. x.kind = "agents" /\ x.list \in Seq(Entry)
    BY <1>8
  <2>2. SectionAt(file, k) # "none"
    BY <1>4, <2>1
  <2> QED BY <1>1, <2>1, <2>2 DEF x
<1> QED BY <1>1, <1>5, <1>6, <1>7, <1>8 DEF FileItem, x

\* Behind k items the parser is in the section the file says it is; the storage
\* flags alone may be older than that, and then a storage section has ended.
SectionsInv(k) ==
  LET s == SectionAt(file, k)
  IN  /\ s \in {"none"} \cup Daemons \cup {"mysql", "spectrum"}
      /\ s = "none" => section = "none" /\ storage = "none"
      /\ s \in Daemons =>
           section = s /\ (storage # "none" => \E j \in 1..k : file[j].kind = "outer")
      /\ s \in {"mysql", "spectrum"} => section = "stprocessd" /\ storage = s

LEMMA SectionsMark ==
  ASSUME NEW k \in Nat, file' = file, SectionsInv(k), SectionAt(file, k) \in Daemons \cup {"none"},
         file[k + 1].kind = "section", file[k + 1].name \in Daemons,
         section' = file[k + 1].name, storage' = storage
  PROVE  SectionsInv(k + 1)'
<1>1. SectionAt(file, k + 1) = file[k + 1].name
  BY SectionAtMark DEF IsMark, Opens
<1>2. \A j \in 1..k : j \in 1..k + 1
  OBVIOUS
<1>3. storage # "none" => \E j \in 1..k + 1 : file[j].kind = "outer"
  BY <1>2 DEF SectionsInv
<1>4. "mysql" \notin Daemons /\ "spectrum" \notin Daemons /\ "none" \notin Daemons
  BY DEF Daemons
<1> QED BY <1>1, <1>3, <1>4 DEF SectionsInv

LEMMA SectionsStorage ==
  ASSUME NEW k \in Nat, file' = file, SectionsInv(k), SectionAt(file, k) = "stprocessd",
         file[k + 1].kind = "section", file[k + 1].name \in DOMAIN Storages,
         section' = section, storage' = Storages[file[k + 1].name]
  PROVE  SectionsInv(k + 1)'
<1>1. SectionAt(file, k + 1) = Storages[file[k + 1].name]
  <2>1. file[k + 1].name \notin Daemons
    BY TextsApart
  <2>2. Opens(file[k + 1]) = Storages[file[k + 1].name]
    BY <2>1 DEF Opens
  <2> QED BY <2>2, SectionAtMark DEF IsMark
<1>2. section = "stprocessd"
  BY DEF SectionsInv, Daemons
<1>3. "mysql" \notin Daemons /\ "spectrum" \notin Daemons
  BY DEF Daemons
<1> QED BY <1>1, <1>2, <1>3, StorageNames DEF SectionsInv

LEMMA SectionsOuter ==
  ASSUME NEW k \in Nat, SectionsInv(k), SectionAt(file, k) \in {"mysql", "spectrum"},
         file[k + 1].kind = "outer"
  PROVE  SectionsInv(k + 1) /\ SectionAt(file, k + 1) = "stprocessd"
<1>1. SectionAt(file, k + 1) = "stprocessd"
  BY SectionAtMark DEF IsMark, Opens
<1>2. section = "stprocessd" /\ k + 1 \in 1..k + 1
  BY DEF SectionsInv
<1> QED BY <1>1, <1>2 DEF SectionsInv, Daemons

LEMMA SectionsOther ==
  ASSUME NEW k \in Nat, SectionsInv(k), file[k + 1].kind \notin {"section", "outer"}
  PROVE  SectionsInv(k + 1) /\ SectionAt(file, k + 1) = SectionAt(file, k)
<1>1. SectionAt(file, k + 1) = SectionAt(file, k)
  BY SectionAtOther DEF IsMark
<1>2. \A j \in 1..k : j \in 1..k + 1
  OBVIOUS
<1> QED BY <1>1, <1>2 DEF SectionsInv

LEMMA SectionsStay ==
  ASSUME UNCHANGED <<file, section, storage>>, NEW k, SectionsInv(k)
  PROVE  SectionsInv(k)'
BY DEF SectionsInv

\* A setting that is not misread is assigned in its section.
LEMMA TargetRight ==
  ASSUME FlagsInv, NEW k \in Nat, SectionsInv(k), file[k + 1].kind = "setting",
         SectionAt(file, k) # "none"
  PROVE  /\ Target \in DOMAIN Keys
         /\ ~Misread(k + 1) => Target = SectionAt(file, k + 1)
<1>1. SectionAt(file, k + 1) = SectionAt(file, k)
  BY SectionsOther
<1> DEFINE s == SectionAt(file, k)
<1>2. CASE s \in {"mysql", "spectrum"}
  <2>1. section = "stprocessd" /\ storage = s
    BY <1>2 DEF SectionsInv
  <2>2. Target = s
    BY <1>2, <2>1 DEF Target
  <2>3. s \in DOMAIN Keys
    BY <1>2, StorageNames
  <2> QED BY <1>1, <2>2, <2>3
<1>3. CASE s = "stcollectd"
  <2>1. section = "stcollectd"
    BY <1>3 DEF SectionsInv, Daemons
  <2>2. Target = s
    BY <1>3, <2>1 DEF Target
  <2>3. s \in DOMAIN Keys
    BY <1>3, StorageNames
  <2> QED BY <1>1, <2>2, <2>3
<1>4. CASE s = "stprocessd"
  <2>1. section = "stprocessd"
    BY <1>4 DEF SectionsInv, Daemons
  <2>2. storage # "none" => Misread(k + 1)
    <3>1. storage # "none" => \E j \in 1..k : file[j].kind = "outer"
      BY <1>4 DEF SectionsInv, Daemons
    <3>2. k + 1 - 1 = k
      OBVIOUS
    <3> QED BY <1>1, <1>4, <3>1, <3>2 DEF Misread, BehindStorage
  <2>3. storage = "none" => Target = s
    BY <1>4, <2>1 DEF Target
  <2>4. Target \in {"stprocessd", "mysql", "spectrum"}
    <3>1. storage \in {"none", "mysql", "spectrum"}
      BY DEF FlagsInv
    <3> QED BY <2>1, <3>1 DEF Target
  <2>5. Target \in DOMAIN Keys
    BY <2>4, StorageNames
  <2> QED BY <1>1, <2>2, <2>3, <2>5
<1> QED BY <1>2, <1>3, <1>4 DEF SectionsInv, Daemons

-----------------------------------------------------------------------------
(* The settings.                                                           *)

Good(i) ==
  i \in Settings /\ ~Misread(i) /\ file[i].key \in Keys[SectionAt(file, i)] /\ Only(i)

NothingElse ==
  \A sk \in DOMAIN config : \E i \in Settings : sk[2] = file[i].key /\ config[sk] = file[i].num

\* What the first k items set.
SettingsInv(k) ==
  /\ \A i \in Settings : i <= k /\ Good(i) => Arrived(i) /\ file[i].key \in KnownKeys
  /\ NothingElse

LEMMA GoodStays ==
  ASSUME UNCHANGED <<file, daemon>>
  PROVE  /\ Settings' = Settings
         /\ \A i : BehindEmptyList(i)' = BehindEmptyList(i)
         /\ \A i : Good(i)' = Good(i)
<1>1. Settings' = Settings
  BY DEF Settings
<1>2. \A i : BehindEmptyList(i)' = BehindEmptyList(i)
  BY DEF BehindEmptyList
<1>3. \A i : Misread(i)' = Misread(i)
  BY <1>2 DEF Misread, BehindStorage
<1>4. \A i : Only(i)' = Only(i)
  BY <1>1, <1>3 DEF Only
<1> QED BY <1>1, <1>2, <1>3, <1>4 DEF Good

LEMMA SettingsStay ==
  ASSUME UNCHANGED <<file, daemon, config>>, NEW k, SettingsInv(k)
  PROVE  SettingsInv(k)'
<1>1. \A i : Arrived(i)' = Arrived(i)
  BY DEF Arrived
<1>2. NothingElse'
  BY GoodStays DEF SettingsInv, NothingElse
<1> QED BY <1>1, <1>2, GoodStays DEF SettingsInv

LEMMA SettingsOther ==
  ASSUME NEW k \in Nat, SettingsInv(k), file[k + 1].kind # "setting", DOMAIN file \subseteq Nat
  PROVE  SettingsInv(k + 1)
<1>1. ASSUME NEW i \in Settings, i <= k + 1
      PROVE  i <= k
  <2>1. i \in Nat /\ i # k + 1
    BY DEF Settings
  <2> QED BY <1>1, <2>1
<1> QED BY <1>1 DEF SettingsInv

\* An assignment changes no good setting of another key or another section.
LEMMA Assigns ==
  ASSUME NEW name, NEW n, config' = Assigned(name, n), UNCHANGED <<file, daemon>>
  PROVE  /\ name \in DOMAIN config' /\ config'[name] = n
         /\ \A i \in Settings :
              /\ Arrived(i) /\ <<SectionAt(file, i), file[i].key>> # name => Arrived(i)'
              /\ <<SectionAt(file, i), file[i].key>> = name /\ file[i].num = n => Arrived(i)'
         /\ DOMAIN config' = DOMAIN config \cup {name}
         /\ \A sk \in DOMAIN config : sk # name => config'[sk] = config[sk]
<1>1. DOMAIN config' = DOMAIN config \cup {name}
  BY DEF Assigned
<1>2. config'[name] = n /\ \A sk \in DOMAIN config : sk # name => config'[sk] = config[sk]
  BY DEF Assigned
<1> QED BY <1>1, <1>2 DEF Arrived

LEMMA SettingsValue ==
  ASSUME FlagsInv, NEW k \in Nat, SectionsInv(k), SettingsInv(k), UNCHANGED <<file, daemon>>,
         k + 1 \in Settings, SectionAt(file, k) # "none", key = file[k + 1].key, DOMAIN file \subseteq Nat,
         config' = IF key \in Keys[Target] THEN Assigned(<<Target, key>>, file[k + 1].num) ELSE config
  PROVE  SettingsInv(k + 1)'
<1> DEFINE x == file[k + 1]
<1>1. x.kind = "setting" /\ k + 1 \in DOMAIN file
  BY DEF Settings
<1>2. ~Misread(k + 1) => Target = SectionAt(file, k + 1)
  BY <1>1, TargetRight
<1>3. ASSUME NEW i \in Settings, i <= k + 1, Good(i)
      PROVE  Arrived(i)' /\ file[i].key \in KnownKeys
  <2>1. CASE i = k + 1
    <3>1. Target = SectionAt(file, i) /\ key \in Keys[Target]
      BY <1>2, <1>3, <2>1 DEF Good
    <3>2. config' = Assigned(<<Target, key>>, x.num)
      BY <3>1
    <3>3. key \in KnownKeys
      BY <1>1, <3>1, TargetRight DEF KnownKeys
    <3> QED BY <2>1, <3>1, <3>2, <3>3, Assigns
  <2>2. CASE i # k + 1
    <3>1. i <= k
      <4>1. i \in Nat
        BY DEF Settings
      <4> QED BY <1>3, <2>2, <4>1
    <3>2. Arrived(i) /\ file[i].key \in KnownKeys
      BY <1>3, <3>1 DEF SettingsInv
    <3>3. CASE key \notin Keys[Target]
      BY <3>2, <3>3 DEF Arrived
    <3>4. CASE key \in Keys[Target]
      <4>1. config' = Assigned(<<Target, key>>, x.num)
        BY <3>4
      <4>2. x.key = file[i].key => SectionAt(file, k + 1) # SectionAt(file, i) /\ ~Misread(k + 1)
        <5>1. k + 1 \in Settings \ {i}
          BY <2>2
        <5> QED BY <1>3, <5>1 DEF Good, Only
      <4>3. <<SectionAt(file, i), file[i].key>> # <<Target, key>>
        BY <1>2, <4>2
      <4> QED BY <3>2, <4>1, <4>3, Assigns
    <3> QED BY <3>3, <3>4
  <2> QED BY <2>1, <2>2
<1>4. NothingElse'
  <2>1. CASE key \notin Keys[Target]
    BY <2>1, GoodStays DEF SettingsInv, NothingElse
  <2>2. CASE key \in Keys[Target]
    <3> DEFINE name == <<Target, key>>
    <3>1. config' = Assigned(name, x.num) /\ name[2] = key
      BY <2>2
    <3> HIDE DEF name
    <3>2. /\ DOMAIN config' = DOMAIN config \cup {name} /\ config'[name] = x.num
          /\ \A sk \in DOMAIN config : sk # name => config'[sk] = config[sk]
      BY <3>1, Assigns
    <3>3. ASSUME NEW sk \in DOMAIN config'
          PROVE  \E i \in Settings : sk[2] = file[i].key /\ config'[sk] = file[i].num
      <4>1. CASE sk = name
        BY <3>1, <3>2, <4>1
      <4>2. CASE sk # name
        BY <3>2, <3>3, <4>2 DEF SettingsInv, NothingElse
      <4> QED BY <4>1, <4>2
    <3> QED BY <3>3, GoodStays DEF NothingElse
  <2> QED BY <2>1, <2>2
<1> QED BY <1>3, <1>4, GoodStays DEF SettingsInv

-----------------------------------------------------------------------------
(* The agents of the list.                                                 *)

\* The next address and the agent it belongs to are one entry more in the table.
LEMMA PairsAdded ==
  ASSUME TableInv, NEW a \in Addresses, AgentAddress(a)
  PROVE  {<<nodes'[i].address, nodes'[i].agent>> : i \in DOMAIN nodes'}
           = {<<nodes[i].address, nodes[i].agent>> : i \in DOMAIN nodes} \cup {<<a, agent'>>}
<1>1. AddAddress(a, agent')
  BY DEF AgentAddress
<1> DEFINE n == [address |-> a, agent |-> agent', next |-> 0]
<1>2. /\ IsList(nodes') /\ Len(nodes') = Len(nodes) + 1
      /\ \A i \in 1..Len(nodes) :
           nodes'[i].address = nodes[i].address /\ nodes'[i].agent = nodes[i].agent
      /\ nodes'[Len(nodes) + 1] = n
  BY <1>1, AddressAdded
<1>3. n.address = a /\ n.agent = agent'
  OBVIOUS
<1> HIDE DEF n
<1>4. DOMAIN nodes = 1..Len(nodes) /\ Len(nodes) \in Nat
  BY ListFacts DEF TableInv
<1>5. DOMAIN nodes' = 1..Len(nodes) + 1
  BY <1>2, ListFacts
<1>6. DOMAIN nodes' = DOMAIN nodes \cup {Len(nodes) + 1}
  BY <1>4, <1>5
<1> QED BY <1>2, <1>3, <1>4, <1>6

\* The pairs of address and agent that a list stands for.
Pairs(l) == UNION {Range(l[x].addresses) \X {x} : x \in DOMAIN l}

LEMMA PairsAppend ==
  ASSUME NEW l \in Seq(Entry), NEW g \in Entry
  PROVE  /\ Pairs(Append(l, g)) = Pairs(l) \cup (Range(g.addresses) \X {Len(l) + 1})
         /\ Append(l, g) \in Seq(Entry) /\ Len(Append(l, g)) = Len(l) + 1
         /\ \A x \in 1..Len(l) : Append(l, g)[x] = l[x]
         /\ Append(l, g)[Len(l) + 1] = g
<1> DEFINE S == Entry
           m == Append(l, g)
<1>1. l \in Seq(S) /\ g \in S
  OBVIOUS
<1> HIDE DEF S
<1>2. /\ m \in Seq(S) /\ Len(m) = Len(l) + 1 /\ \A x \in 1..Len(l) : m[x] = l[x]
      /\ m[Len(l) + 1] = g
      /\ DOMAIN l = 1..Len(l) /\ Len(l) \in Nat
  BY <1>1, AppendProperties
<1> HIDE DEF m
<1>3. DOMAIN m = DOMAIN l \cup {Len(l) + 1}
  BY <1>2
<1>4. Pairs(m) = Pairs(l) \cup (Range(g.addresses) \X {Len(l) + 1})
  BY <1>2, <1>3 DEF Pairs
<1> QED BY <1>2, <1>4 DEF m, S

\* The first address makes an agent of that name.
LEMMA FirstAddress ==
  ASSUME TableInv, NEW a \in Addresses, AgentAddress(a), agent = 0,
         NEW l \in Seq(Entry), AgentsAre(l), NEW g \in Entry, g.name = key, g.addresses = <<a>>
  PROVE  AgentsAre(Append(l, g))' /\ agent' = Len(agents') /\ agent' # 0
<1> DEFINE m == Append(l, g)
           new == [name |-> key, address |-> a, sequence |-> 0, datagrams |-> 0, drops |-> 0]
<1>1. agents' = Append(agents, new) /\ agent' = Len(agents) + 1
  BY DEF AgentAddress, AddAgent
<1>2. new.name = key /\ new.address = a
  OBVIOUS
<1> HIDE DEF new
<1>3. /\ IsList(agents') /\ Len(agents') = Len(agents) + 1
      /\ \A i \in 1..Len(agents) : agents'[i] = agents[i]
      /\ agents'[Len(agents) + 1] = new
  BY <1>1, Grown DEF TableInv
<1>4. /\ DOMAIN agents = 1..Len(agents) /\ Len(agents) \in Nat
      /\ DOMAIN agents' = 1..Len(agents) + 1 /\ Len(l) = Len(agents)
  BY <1>3, ListFacts DEF TableInv, AgentsAre
<1>5. /\ Pairs(m) = Pairs(l) \cup (Range(g.addresses) \X {Len(l) + 1})
      /\ m \in Seq(Entry) /\ Len(m) = Len(l) + 1
      /\ \A x \in 1..Len(l) : m[x] = l[x]
      /\ m[Len(l) + 1] = g
  BY PairsAppend
<1> HIDE DEF m
<1>6. ASSUME NEW x \in DOMAIN agents'
      PROVE  agents'[x].name = m[x].name /\ agents'[x].address = m[x].addresses[1]
  <2>1. CASE x \in DOMAIN agents
    <3>1. agents[x].name = l[x].name /\ agents[x].address = l[x].addresses[1]
      BY <2>1 DEF AgentsAre
    <3>2. agents'[x] = agents[x] /\ m[x] = l[x]
      BY <1>3, <1>4, <1>5, <2>1
    <3> QED BY <3>1, <3>2
  <2>2. CASE x = Len(agents) + 1
    <3>1. agents'[x] = new /\ m[x] = g /\ g.addresses[1] = a
      BY <1>3, <1>4, <1>5, <2>2
    <3> QED BY <1>2, <3>1
  <2> QED BY <1>4, <2>1, <2>2
<1>7. {<<nodes'[i].address, nodes'[i].agent>> : i \in DOMAIN nodes'} = Pairs(m)
  <2>1. {<<nodes[i].address, nodes[i].agent>> : i \in DOMAIN nodes} = Pairs(l)
    BY DEF AgentsAre, Pairs
  <2>2. Range(g.addresses) \X {Len(l) + 1} = {<<a, agent'>>}
    <3>1. Range(g.addresses) = {a}
      <4>1. Range(<<a>>) = {a}
        BY DEF Range
      <4> QED BY <4>1
    <3>2. {a} \X {Len(l) + 1} = {<<a, Len(l) + 1>>}
      OBVIOUS
    <3> QED BY <1>1, <1>4, <3>1, <3>2
  <2> QED BY <1>5, <2>1, <2>2, PairsAdded
<1>8. Len(agents') = Len(m)
  BY <1>3, <1>4, <1>5
<1>9. AgentsAre(m)'
  BY <1>6, <1>7, <1>8 DEF AgentsAre, Pairs
<1> QED BY <1>1, <1>3, <1>4, <1>9 DEF m

\* Every other address of the entry adds to the last agent.
LEMMA NextAddress ==
  ASSUME TableInv, NEW a \in Addresses, AgentAddress(a), agent # 0, agent = Len(agents),
         NEW l \in Seq(Entry), NEW g \in Entry, NEW h \in Entry, AgentsAre(Append(l, g)),
         h.name = g.name, h.addresses = Append(g.addresses, a)
  PROVE  AgentsAre(Append(l, h))' /\ UNCHANGED <<agents, agent>>
<1> DEFINE m == Append(l, g)
           o == Append(l, h)
<1>1. UNCHANGED <<agents, agent>>
  BY DEF AgentAddress
<1>2. /\ Pairs(m) = Pairs(l) \cup (Range(g.addresses) \X {Len(l) + 1})
      /\ Len(m) = Len(l) + 1 /\ \A x \in 1..Len(l) : m[x] = l[x]
      /\ m[Len(l) + 1] = g
      /\ Pairs(o) = Pairs(l) \cup (Range(h.addresses) \X {Len(l) + 1})
      /\ Len(o) = Len(l) + 1 /\ \A x \in 1..Len(l) : o[x] = l[x]
      /\ o[Len(l) + 1] = h
  BY PairsAppend
<1>3. AgentsAre(m)
  OBVIOUS
<1> HIDE DEF m, o
<1>4. Len(l) \in Nat /\ DOMAIN agents = 1..Len(l) + 1 /\ Len(agents) = Len(l) + 1
  BY <1>2, <1>3, ListFacts DEF TableInv, AgentsAre
<1>5. g.addresses \in Seq(Addresses) /\ g.addresses # <<>>
  BY DEF Entry
<1>6. h.addresses[1] = g.addresses[1] /\ Range(h.addresses) = Range(g.addresses) \cup {a}
  <2>1. Range(h.addresses) = Range(g.addresses) \cup {a}
    BY <1>5, AppendElements
  <2>2. h.addresses[1] = g.addresses[1]
    BY <1>5
  <2> QED BY <2>1, <2>2
<1>7. ASSUME NEW x \in DOMAIN agents
      PROVE  agents[x].name = o[x].name /\ agents[x].address = o[x].addresses[1]
  <2>1. agents[x].name = m[x].name /\ agents[x].address = m[x].addresses[1]
    BY <1>3 DEF AgentsAre
  <2>2. x \in 1..Len(l) \/ x = Len(l) + 1
    BY <1>4
  <2>3. CASE x \in 1..Len(l)
    BY <1>2, <2>1, <2>3
  <2>4. CASE x = Len(l) + 1
    BY <1>2, <1>6, <2>1, <2>4
  <2> QED BY <2>2, <2>3, <2>4
<1>8. {<<nodes'[i].address, nodes'[i].agent>> : i \in DOMAIN nodes'} = Pairs(o)
  <2>1. {<<nodes[i].address, nodes[i].agent>> : i \in DOMAIN nodes} = Pairs(m)
    BY <1>3 DEF AgentsAre, Pairs
  <2>2. (Range(g.addresses) \cup {a}) \X {Len(l) + 1}
          = (Range(g.addresses) \X {Len(l) + 1}) \cup {<<a, Len(l) + 1>>}
    OBVIOUS
  <2>3. agent' = Len(l) + 1
    BY <1>1, <1>4
  <2> QED BY <1>2, <1>6, <2>1, <2>2, <2>3, PairsAdded
<1>9. AgentsAre(o)'
  BY <1>1, <1>2, <1>4, <1>7, <1>8 DEF AgentsAre, Pairs
<1> QED BY <1>1, <1>9 DEF o

-----------------------------------------------------------------------------
(* The events of an item, one in front of the other.                       *)

IsPair(p, x, y) == Len(p) = 2 /\ p[1] = x /\ p[2] = y

LEMMA TwoInFront ==
  ASSUME NEW S, NEW x \in S, NEW y \in S, NEW z \in Seq(S), NEW p \in Seq(S),
         IsPair(p, x, y)
  PROVE  p \o z = Cons(x, Cons(y, z)) /\ Cons(y, z) \in Seq(S)
<1>1. <<x>> \in Seq(S) /\ <<y>> \in Seq(S)
  OBVIOUS
<1>2. p = <<x>> \o <<y>>
  <2>1. Append(<<x>>, y) = <<x>> \o <<y>>
    BY <1>1, AppendIsConcat
  <2> DEFINE a == Append(<<x>>, y)
  <2>2. a \in Seq(S) /\ Len(a) = 2 /\ a[1] = x /\ a[2] = y
    OBVIOUS
  <2> HIDE DEF a
  <2>3. a = p
    BY <2>2 DEF IsPair
  <2> QED BY <2>1, <2>3 DEF a
<1>3. (<<x>> \o <<y>>) \o z = <<x>> \o (<<y>> \o z)
  BY <1>1, ConcatAssociative, SMTT(30)
<1>4. <<y>> \o z \in Seq(S)
  BY <1>1, ConcatProperties
<1> QED BY <1>2, <1>3, <1>4 DEF Cons

LEMMA ConsFacts ==
  ASSUME NEW S, NEW x \in S, NEW z \in Seq(S)
  PROVE  Cons(x, z) \in Seq(S) /\ Cons(x, z) # <<>> /\ Head(Cons(x, z)) = x /\ Tail(Cons(x, z)) = z
BY InFront DEF Cons

\* Sequence b between the pair p of x and y and the single o of w.
Enclosed(S, x, y, b, w, z, p, o) ==
  /\ x \in S /\ y \in S /\ b \in Seq(S) /\ w \in S /\ z \in Seq(S)
  /\ p \in Seq(S) /\ IsPair(p, x, y) /\ o \in Seq(S) /\ o = <<w>>

LEMMA OneByOne ==
  ASSUME NEW S, NEW x, NEW y, NEW b, NEW w, NEW z, NEW p, NEW o, Enclosed(S, x, y, b, w, z, p, o)
  PROVE  /\ (p \o b \o o) \o z = Cons(x, Cons(y, b \o Cons(w, z)))
         /\ Cons(w, z) \in Seq(S) /\ b \o Cons(w, z) \in Seq(S)
         /\ Cons(y, b \o Cons(w, z)) \in Seq(S)
<1>1. /\ x \in S /\ y \in S /\ b \in Seq(S) /\ w \in S /\ z \in Seq(S)
      /\ p \in Seq(S) /\ IsPair(p, x, y) /\ o \in Seq(S) /\ o = <<w>>
  BY DEF Enclosed
<1>2. p \o b \in Seq(S)
  BY <1>1, ConcatProperties
<1>3. Cons(w, z) \in Seq(S)
  BY <1>1, ConsFacts
<1>4. b \o Cons(w, z) \in Seq(S)
  BY <1>1, <1>3, ConcatProperties
<1>5. ((p \o b) \o o) \o z = (p \o b) \o Cons(w, z)
  <2>1. ((p \o b) \o o) \o z = (p \o b) \o (o \o z)
    BY <1>1, <1>2, ConcatAssociative, SMTT(30)
  <2> QED BY <1>1, <2>1 DEF Cons
<1>6. (p \o b) \o Cons(w, z) = p \o (b \o Cons(w, z))
  BY <1>1, <1>3, ConcatAssociative, SMTT(30)
<1>7. /\ p \o (b \o Cons(w, z)) = Cons(x, Cons(y, b \o Cons(w, z)))
      /\ Cons(y, b \o Cons(w, z)) \in Seq(S)
  BY <1>1, <1>4, TwoInFront
<1> QED BY <1>3, <1>4, <1>5, <1>6, <1>7

\* The events of the items that are not outer, with the first one in front.
LEMMA SectionEvents ==
  ASSUME NEW q \in Seq(FileItem), q # <<>>, Head(q).kind = "section"
  PROVE  AllEvents(q) = Cons(Name(Head(q).name), AllEvents(Tail(q)))
BY AllEventsFirst DEF EventsOf, Cons

LEMMA SettingEvents ==
  ASSUME NEW q \in Seq(FileItem), q # <<>>, Head(q).kind = "setting", Head(q).key \in Texts, Head(q).num \in Nat
  PROVE  /\ AllEvents(q) = Cons(Name(Head(q).key), Cons(Number(Head(q).num), AllEvents(Tail(q))))
         /\ Cons(Number(Head(q).num), AllEvents(Tail(q))) \in Seq(Events)
<1> DEFINE E == Events
           x == Name(Head(q).key)
           y == Number(Head(q).num)
           z == AllEvents(Tail(q))
           p == <<x, y>>
<1>1. AllEvents(q) = p \o z /\ z \in Seq(E)
  BY AllEventsFirst DEF EventsOf
<1>2. x \in E /\ y \in E
  BY EventTypes
<1> HIDE DEF E, x, y, z
<1>4. p \in Seq(E) /\ IsPair(p, x, y)
  BY <1>2 DEF IsPair
<1> HIDE DEF p
<1>3. p \o z = Cons(x, Cons(y, z)) /\ Cons(y, z) \in Seq(E)
  BY <1>1, <1>2, <1>4, TwoInFront
<1> QED BY <1>1, <1>3 DEF E, x, y, z

LEMMA OuterEvents ==
  ASSUME NEW q \in Seq(FileItem), q # <<>>, Head(q).kind = "outer"
  PROVE  AllEvents(q) = AllEvents(Tail(q))
<1> DEFINE z == AllEvents(Tail(q))
           E == Events
<1>1. AllEvents(q) = <<>> \o z /\ z \in Seq(E)
  BY AllEventsFirst DEF EventsOf
<1> HIDE DEF z, E
<1>2. <<>> \o z = z
  BY <1>1
<1> QED BY <1>1, <1>2 DEF z

\* What follows the entries ms of a list that is followed by z.
ListTail(ms, z) == EntryEvents(ms) \o Cons(SequenceEnd, z)

LEMMA ListEvents ==
  ASSUME NEW q \in Seq(FileItem), q # <<>>, Head(q).kind = "agents", Head(q).list \in Seq(Entry)
  PROVE  /\ AllEvents(q) = Cons(Name("agents"), Cons(SequenceStart, ListTail(Head(q).list, AllEvents(Tail(q)))))
         /\ ListTail(Head(q).list, AllEvents(Tail(q))) \in Seq(Events)
         /\ Cons(SequenceStart, ListTail(Head(q).list, AllEvents(Tail(q)))) \in Seq(Events)
<1> DEFINE E == Events
           x == Name("agents")
           y == SequenceStart
           w == SequenceEnd
           b == EntryEvents(Head(q).list)
           z == AllEvents(Tail(q))
           p == <<x, y>>
           o == <<w>>
<1>1. AllEvents(q) = (p \o b \o o) \o z /\ z \in Seq(E)
  BY AllEventsFirst DEF EventsOf, EntryEvents
<1>2. x \in E /\ y \in E /\ w \in E
  BY EventTypes, ConfigAssumption
<1>3. b \in Seq(E)
  BY EntryEventsFirst
<1>4. ListTail(Head(q).list, AllEvents(Tail(q))) = b \o Cons(w, z)
  BY DEF ListTail
<1> HIDE DEF E, x, y, w, b, z
<1>6. p \in Seq(E) /\ IsPair(p, x, y) /\ o \in Seq(E) /\ o = <<w>>
  BY <1>2 DEF IsPair
<1> HIDE DEF p, o
<1>7. Enclosed(E, x, y, b, w, z, p, o)
  BY <1>1, <1>2, <1>3, <1>6 DEF Enclosed
<1>5. /\ (p \o b \o o) \o z = Cons(x, Cons(y, b \o Cons(w, z)))
      /\ b \o Cons(w, z) \in Seq(E)
      /\ Cons(y, b \o Cons(w, z)) \in Seq(E)
  BY <1>7, OneByOne
<1> QED BY <1>1, <1>4, <1>5 DEF E, x, y

\* What follows the addresses of an entry in front of the entries ms.
AddressTail(ads, ms, z) == AddressEvents(ads) \o Cons(SequenceEnd, ListTail(ms, z))

LEMMA ListTailFirst ==
  ASSUME NEW ms \in Seq(Entry), ms # <<>>, NEW z \in Seq(Events)
  PROVE  /\ ListTail(ms, z) = Cons(Name(Head(ms).name),
                                     Cons(SequenceStart, AddressTail(Head(ms).addresses, Tail(ms), z)))
         /\ AddressTail(Head(ms).addresses, Tail(ms), z) \in Seq(Events)
         /\ Cons(SequenceStart, AddressTail(Head(ms).addresses, Tail(ms), z)) \in Seq(Events)
         /\ ListTail(Tail(ms), z) \in Seq(Events)
<1> DEFINE E == Events
           x == Name(Head(ms).name)
           y == SequenceStart
           w == SequenceEnd
           b == AddressEvents(Head(ms).addresses)
           r == EntryEvents(Tail(ms))
           t == Cons(w, z)
           p == <<x, y>>
           o == <<w>>
<1>1. /\ EntryEvents(ms) = AgentEvents(Head(ms)) \o r
      /\ r \in Seq(E) /\ AgentEvents(Head(ms)) \in Seq(E)
      /\ Head(ms) \in Entry
  BY EntryEventsFirst
<1>2. Head(ms).name \in Texts /\ Head(ms).addresses \in Seq(Addresses)
  BY <1>1 DEF Entry
<1>3. x \in E /\ y \in E /\ w \in E /\ b \in Seq(E) /\ z \in Seq(E)
  BY <1>2, EventTypes, AddressEventsFirst
<1>4. AgentEvents(Head(ms)) = <<x, y>> \o b \o <<w>>
  BY DEF AgentEvents, AddressEvents
<1>5. /\ ListTail(ms, z) = EntryEvents(ms) \o t
      /\ ListTail(Tail(ms), z) = r \o t
      /\ AddressTail(Head(ms).addresses, Tail(ms), z) = b \o Cons(w, r \o t)
  BY DEF ListTail, AddressTail
<1> DEFINE g == AgentEvents(Head(ms))
<1>6. g \in Seq(E) /\ g = p \o b \o o /\ EntryEvents(ms) = g \o r
  BY <1>1, <1>4
<1>12. r \in Seq(E)
  BY <1>1
<1> HIDE DEF E, x, y, w, b, r, g
<1>13. p \in Seq(E) /\ IsPair(p, x, y) /\ o \in Seq(E) /\ o = <<w>>
  BY <1>3 DEF IsPair
<1> HIDE DEF p, o
<1>7. t \in Seq(E) /\ r \o t \in Seq(E)
  <2>2. t \in Seq(E)
    BY <1>3, ConsFacts
  <2> HIDE DEF t
  <2>3. r \o t \in Seq(E)
    BY <1>1, <2>2, ConcatProperties
  <2> QED BY <2>2, <2>3
<1> HIDE DEF t
<1>8. (g \o r) \o t = g \o (r \o t)
  <2>1. g \in Seq(E) /\ r \in Seq(E) /\ t \in Seq(E)
    BY <1>6, <1>7, <1>12
  <2> QED BY <2>1, ConcatAssociative, SMTT(30)
<1> DEFINE u == r \o t
<1>9. u \in Seq(E)
  BY <1>7
<1> HIDE DEF u
<1>14. Enclosed(E, x, y, b, w, u, p, o)
  BY <1>3, <1>9, <1>13 DEF Enclosed
<1>10. /\ (p \o b \o o) \o u = Cons(x, Cons(y, b \o Cons(w, u)))
       /\ b \o Cons(w, u) \in Seq(E)
       /\ Cons(y, b \o Cons(w, u)) \in Seq(E)
  BY <1>14, OneByOne
<1>11. ListTail(ms, z) = Cons(x, Cons(y, b \o Cons(w, u)))
  BY <1>5, <1>6, <1>8, <1>10 DEF u
<1> QED BY <1>5, <1>7, <1>10, <1>11 DEF E, x, y, u

LEMMA ListTailEnd ==
  ASSUME NEW z \in Seq(Events)
  PROVE  ListTail(<<>>, z) = Cons(SequenceEnd, z) /\ Cons(SequenceEnd, z) \in Seq(Events)
<1> DEFINE t == Cons(SequenceEnd, z)
<1>1. SequenceEnd \in Events
  BY EventTypes
<1>2. t \in Seq(Events)
  BY <1>1, ConsFacts
<1>3. ListTail(<<>>, z) = <<>> \o t
  BY NoEvents DEF ListTail
<1> HIDE DEF t, Events
<1>4. <<>> \o t = t
  BY <1>2
<1> QED BY <1>2, <1>3, <1>4 DEF t

LEMMA AddressTailFirst ==
  ASSUME NEW ads \in Seq(Addresses), NEW ms \in Seq(Entry), NEW z \in Seq(Events)
  PROVE  /\ ads # <<>> => /\ AddressTail(ads, ms, z) = Cons(Address(Head(ads)), AddressTail(Tail(ads), ms, z))
                         /\ AddressTail(Tail(ads), ms, z) \in Seq(Events)
         /\ ads = <<>> => AddressTail(ads, ms, z) = Cons(SequenceEnd, ListTail(ms, z))
         /\ ListTail(ms, z) \in Seq(Events)
<1> DEFINE E == Events
           w == SequenceEnd
           l == ListTail(ms, z)
           t == Cons(w, l)
<1>1. w \in E /\ z \in Seq(E)
  BY EventTypes
<1>2. l \in Seq(E)
  <2> DEFINE r == EntryEvents(ms)
  <2>1. r \in Seq(E)
    BY EntryEventsFirst
  <2>2. l = r \o Cons(w, z)
    BY DEF ListTail
  <2> HIDE DEF E, w, l, r
  <2>3. Cons(w, z) \in Seq(E)
    BY <1>1, ConsFacts
  <2> QED BY <2>1, <2>2, <2>3, ConcatProperties
<1>3. t \in Seq(E)
  <2> HIDE DEF E, w, l
  <2> QED BY <1>1, <1>2, ConsFacts
<1>4. AddressTail(ads, ms, z) = AddressEvents(ads) \o t
  BY DEF AddressTail
<1>5. ASSUME ads = <<>>
      PROVE  AddressTail(ads, ms, z) = t
  <2>1. AddressEvents(ads) = <<>>
    BY <1>5, NoEvents
  <2> HIDE DEF t, E
  <2>2. <<>> \o t = t
    BY <1>3
  <2> QED BY <1>4, <2>1, <2>2
<1>6. ASSUME ads # <<>>
      PROVE  /\ AddressTail(ads, ms, z) = Cons(Address(Head(ads)), AddressTail(Tail(ads), ms, z))
             /\ AddressTail(Tail(ads), ms, z) \in Seq(E)
  <2> DEFINE c == AddressEvents(ads)
             d == AddressEvents(Tail(ads))
             x == Address(Head(ads))
  <2>1. Tail(ads) \in Seq(Addresses)
    BY <1>6, HeadTailProperties
  <2>2. c \in Seq(E) /\ c # <<>> /\ Head(c) = x /\ Tail(c) = d /\ d \in Seq(E)
    BY <1>6, <2>1, AddressEventsFirst
  <2>3. AddressTail(Tail(ads), ms, z) = d \o t
    BY DEF AddressTail
  <2>4. AddressTail(ads, ms, z) = c \o t
    BY <1>4
  <2> HIDE DEF E, t, c, d, x
  <2>5. <<>> \in Seq(E)
    OBVIOUS
  <2>6. <<>> \o c = Append(<<>>, Head(c)) \o Tail(c) /\ Head(c) \in E
    BY <2>2, <2>5, MovesOver
  <2>7. <<>> \o c = c /\ Append(<<>>, x) = <<x>> /\ <<x>> \in Seq(E)
    BY <2>2, <2>6
  <2>8. c = <<x>> \o d
    BY <2>2, <2>6, <2>7
  <2>9. (<<x>> \o d) \o t = <<x>> \o (d \o t)
    BY <1>3, <2>2, <2>7, ConcatAssociative, SMTT(30)
  <2>10. d \o t \in Seq(E)
    BY <1>3, <2>2, ConcatProperties
  <2> QED BY <2>3, <2>4, <2>8, <2>9, <2>10 DEF x, Cons
<1> QED BY <1>2, <1>5, <1>6

-----------------------------------------------------------------------------
(* What the texts of the events may be.                                    *)

LEMMA NamesApart == SectionNames \cap KnownKeys = {}
<1>1. DOMAIN Storages = {"storage_mysql", "storage_spectrum"}
  BY DEF Storages
<1>2. SectionNames = {"stcollectd", "stprocessd", "storage_mysql", "storage_spectrum"}
  BY <1>1 DEF SectionNames, Daemons
<1>3. DOMAIN Keys = {"none", "stcollectd", "stprocessd", "mysql", "spectrum"}
  BY DEF Keys
<1>4. \A s \in DOMAIN Keys : SectionNames \cap Keys[s] = {}
  <2> TAKE s \in DOMAIN Keys
  <2>1. CASE s = "none"
    BY <2>1 DEF Keys
  <2>2. CASE s = "stcollectd"
    BY <1>2, <2>2 DEF Keys
  <2>3. CASE s = "stprocessd"
    BY <1>2, <2>3 DEF Keys
  <2>4. CASE s = "mysql"
    BY <1>2, <2>4 DEF Keys
  <2>5. CASE s = "spectrum"
    BY <1>2, <2>5 DEF Keys
  <2> QED BY <1>3, <2>1, <2>2, <2>3, <2>4, <2>5
<1> QED BY <1>4 DEF KnownKeys

\* No scalar among the events is the name of a section or a key.
Quiet(s) == \A e \in Range(s) : e.type = "scalar" => e.text \notin SectionNames \cup KnownKeys

LEMMA EnclosedElements ==
  ASSUME NEW S, NEW x, NEW y, NEW b, NEW w, NEW z, NEW p, NEW o, Enclosed(S, x, y, b, w, z, p, o)
  PROVE  Range(p \o b \o o) = {x, y} \cup Range(b) \cup {w}
<1>1. /\ x \in S /\ y \in S /\ b \in Seq(S) /\ w \in S
      /\ p \in Seq(S) /\ Len(p) = 2 /\ p[1] = x /\ p[2] = y /\ o \in Seq(S) /\ o = <<w>>
  BY DEF Enclosed, IsPair
<1>2. Range(p) = {x, y}
  <2>1. DOMAIN p = {1, 2}
    BY <1>1
  <2> QED BY <1>1, <2>1 DEF Range
<1>3. Range(o) = {w}
  BY <1>1 DEF Range
<1>4. p \o b \in Seq(S) /\ Range(p \o b) = Range(p) \cup Range(b)
  BY <1>1, ConcatElements
<1>5. Range((p \o b) \o o) = Range(p \o b) \cup Range(o)
  <2> DEFINE c == p \o b
  <2>1. c \in Seq(S) /\ o \in Seq(S)
    BY <1>1, <1>4
  <2> HIDE DEF c
  <2>2. Range(c \o o) = Range(c) \cup Range(o)
    BY <2>1, ConcatElements
  <2> QED BY <2>2 DEF c
<1> QED BY <1>2, <1>3, <1>4, <1>5

LEMMA AgentQuiet ==
  ASSUME NEW g \in Entry
  PROVE  Quiet(AgentEvents(g))
<1> DEFINE E == Events
           x == Name(g.name)
           y == SequenceStart
           w == SequenceEnd
           b == AddressEvents(g.addresses)
           p == <<x, y>>
           o == <<w>>
<1>1. g.name \in Texts \ (SectionNames \cup KnownKeys) /\ g.addresses \in Seq(Addresses)
  BY DEF Entry
<1>2. x \in E /\ y \in E /\ w \in E /\ b \in Seq(E)
  BY <1>1, EventTypes, AddressEventsFirst
<1>3. AgentEvents(g) = p \o b \o o
  BY DEF AgentEvents, AddressEvents
<1>4. \A e \in Range(b) : e.text = ""
  <2> TAKE e \in Range(b)
  <2>1. PICK i \in DOMAIN b : e = b[i]
    BY DEF Range
  <2>2. e = Address(g.addresses[i])
    BY <2>1 DEF AddressEvents
  <2> QED BY <2>2, EventFields
<1>5. x.text = g.name /\ y.type = "start" /\ w.type = "end"
  BY EventFields
<1> HIDE DEF E, x, y, w, b
<1>6. Enclosed(E, x, y, b, w, b, p, o)
  BY <1>2 DEF Enclosed, IsPair
<1> HIDE DEF p, o
<1>7. Range(p \o b \o o) = {x, y} \cup Range(b) \cup {w}
  BY <1>6, EnclosedElements
<1> QED BY <1>1, <1>3, <1>4, <1>5, <1>7, TextsApart DEF Quiet

LEMMA EntriesQuiet ==
  ASSUME NEW l \in Seq(Entry)
  PROVE  Quiet(EntryEvents(l))
<1> DEFINE S == Entry
           E == Events
           p == [i \in 1..Len(l) |-> AgentEvents(l[i])]
<1>1. l \in Seq(S) /\ \A x \in S : AgentEvents(x) \in Seq(E) /\ Quiet(AgentEvents(x))
  BY AgentEventsType, AgentQuiet
<1> HIDE DEF S, E
<1>2. Len(l) \in Nat /\ p \in [1..Len(l) -> Seq(E)] /\ \A i \in 1..Len(l) : Quiet(p[i])
  BY <1>1
<1>3. EntryEvents(l) = FlattenSeq(p)
  BY DEF EntryEvents
<1> HIDE DEF p
<1>4. \A e : e \in Range(FlattenSeq(p)) <=> \E i \in 1..Len(l) : e \in Range(p[i])
  BY <1>2, FlattenElements
<1> QED BY <1>2, <1>3, <1>4 DEF Quiet

\* A key among the events of an item is the one the item sets.
KeysOf(s, x) ==
  \A e \in Range(s) : e.type = "scalar" /\ e.text \in KnownKeys => x.kind = "setting" /\ e.text = x.key

LEMMA ItemKeys ==
  ASSUME NEW x \in FileItem
  PROVE  KeysOf(EventsOf(x), x)
<1>1. CASE x \in [kind : {"section"}, name : SectionNames]
  <2>1. EventsOf(x) = <<Name(x.name)>> /\ x.name \in SectionNames
    BY <1>1 DEF EventsOf
  <2>2. Range(<<Name(x.name)>>) = {Name(x.name)}
    BY DEF Range
  <2>3. Name(x.name).text = x.name
    BY EventFields
  <2>4. ASSUME NEW e \in Range(EventsOf(x))
        PROVE  e.text \notin KnownKeys
    BY <2>1, <2>2, <2>3, <2>4, NamesApart
  <2> QED BY <2>4 DEF KeysOf
<1>2. CASE x \in [kind : {"outer"}]
  <2>1. EventsOf(x) = <<>>
    BY <1>2 DEF EventsOf
  <2>2. Range(<<>>) = {}
    BY DEF Range
  <2> QED BY <2>1, <2>2 DEF KeysOf
<1>3. CASE x \in [kind : {"setting"}, key : Texts \ (SectionNames \cup {"agents"}), num : Nat]
  <2>1. x.kind = "setting" /\ EventsOf(x) = <<Name(x.key), Number(x.num)>>
    BY <1>3 DEF EventsOf
  <2>2. Range(<<Name(x.key), Number(x.num)>>) = {Name(x.key), Number(x.num)}
    BY DEF Range
  <2>3. Name(x.key).text = x.key /\ Number(x.num).text = ""
    BY EventFields
  <2> QED BY <2>1, <2>2, <2>3, TextsApart DEF KeysOf
<1>4. CASE x \in [kind : {"agents"}, list : Seq(Entry)]
  <2> DEFINE E == Events
             u == Name("agents")
             y == SequenceStart
             w == SequenceEnd
             b == EntryEvents(x.list)
             p == <<u, y>>
             o == <<w>>
  <2>1. EventsOf(x) = p \o b \o o /\ x.list \in Seq(Entry)
    BY <1>4 DEF EventsOf, EntryEvents
  <2>2. u \in E /\ y \in E /\ w \in E /\ b \in Seq(E)
    BY <2>1, EventTypes, EntryEventsFirst, ConfigAssumption
  <2>3. u.text = "agents" /\ y.type = "start" /\ w.type = "end"
    BY EventFields
  <2>4. Quiet(b)
    BY <2>1, EntriesQuiet
  <2> HIDE DEF E, u, y, w, b
  <2>5. Enclosed(E, u, y, b, w, b, p, o)
    BY <2>2 DEF Enclosed, IsPair
  <2> HIDE DEF p, o
  <2>6. Range(p \o b \o o) = {u, y} \cup Range(b) \cup {w}
    BY <2>5, EnclosedElements
  <2> QED BY <2>1, <2>3, <2>4, <2>6, TextsApart DEF Quiet, KeysOf
<1> QED BY <1>1, <1>2, <1>3, <1>4 DEF FileItem

LEMMA AllKeys ==
  ASSUME NEW q \in Seq(FileItem), NEW e \in Range(AllEvents(q)), e.type = "scalar", e.text \in KnownKeys
  PROVE  \E i \in 1..Len(q) : q[i].kind = "setting" /\ e.text = q[i].key
<1> DEFINE S == FileItem
           E == Events
           p == [i \in 1..Len(q) |-> EventsOf(q[i])]
<1>1. q \in Seq(S) /\ \A x \in S : EventsOf(x) \in Seq(E) /\ KeysOf(EventsOf(x), x)
  BY EventsOfType, ItemKeys
<1> HIDE DEF S, E
<1>2. Len(q) \in Nat /\ p \in [1..Len(q) -> Seq(E)] /\ \A i \in 1..Len(q) : KeysOf(p[i], q[i])
  BY <1>1
<1>3. AllEvents(q) = FlattenSeq(p)
  BY DEF AllEvents
<1> HIDE DEF p
<1>4. \A d : d \in Range(FlattenSeq(p)) <=> \E i \in 1..Len(q) : d \in Range(p[i])
  BY <1>2, FlattenElements
<1> QED BY <1>2, <1>3, <1>4 DEF KeysOf

-----------------------------------------------------------------------------
(* The agents that are listed.                                             *)

ListOf(x) == IF x.kind = "agents" THEN x.list ELSE <<>>

LEMMA ListOfType ==
  ASSUME NEW x \in FileItem
  PROVE  ListOf(x) \in Seq(Entry)
<1>1. CASE x \in [kind : {"agents"}, list : Seq(Entry)]
  BY <1>1 DEF ListOf
<1>2. CASE x.kind # "agents"
  <2> DEFINE S == Entry
  <2>1. <<>> \in Seq(S)
    OBVIOUS
  <2> QED BY <1>2, <2>1 DEF ListOf
<1> QED BY <1>1, <1>2 DEF FileItem

LEMMA ListedAppend ==
  ASSUME NEW q \in Seq(FileItem), NEW x \in FileItem
  PROVE  /\ Listed(q) \in Seq(Entry) /\ ListOf(x) \in Seq(Entry)
         /\ Listed(Append(q, x)) = Listed(q) \o ListOf(x)
<1> DEFINE S == FileItem
           E == Entry
           p == [i \in 1..Len(q) |-> ListOf(q[i])]
           r == [i \in 1..Len(Append(q, x)) |-> ListOf(Append(q, x)[i])]
<1>1. q \in Seq(S) /\ x \in S /\ \A y \in S : ListOf(y) \in Seq(E)
  BY ListOfType
<1>2. Listed(q) = FlattenSeq(p) /\ Listed(Append(q, x)) = FlattenSeq(r)
  BY DEF Listed, ListOf
<1> HIDE DEF S, E
<1> DEFINE T == Seq(E)
<1>3. Len(q) \in Nat /\ p \in [1..Len(q) -> T] /\ ListOf(x) \in T
  BY <1>1
<1>4. r = Append(p, ListOf(x))
  <2> DEFINE n == Len(q)
  <2>1. n \in Nat /\ Len(Append(q, x)) = n + 1 /\ Append(q, x)[n + 1] = x
        /\ \A i \in 1..n : Append(q, x)[i] = q[i]
    BY <1>1, AppendProperties
  <2>2. r = [i \in 1..n + 1 |-> ListOf(Append(q, x)[i])]
    BY <2>1
  <2>3. /\ \A i \in 1..n : r[i] = p[i]
        /\ r[n + 1] = ListOf(x)
    BY <2>1, <2>2
  <2>4. DOMAIN r = 1..n + 1
    BY <2>2
  <2>5. \A i \in 1..n + 1 : r[i] \in T
    BY <1>3, <2>1, <2>3
  <2>6. r \in Seq(T) /\ Len(r) = n + 1
    <3>1. r = [i \in 1..n + 1 |-> r[i]]
      BY <2>2, <2>4
    <3> HIDE DEF T, r
    <3> QED BY <2>1, <2>5, <3>1
  <2>7. p \in Seq(T) /\ Len(p) = n
    <3> HIDE DEF T, p
    <3> QED BY <1>3
  <2> HIDE DEF T, r, p
  <2>8. /\ Append(p, ListOf(x)) \in Seq(T) /\ Len(Append(p, ListOf(x))) = n + 1
        /\ \A i \in 1..n : Append(p, ListOf(x))[i] = p[i]
        /\ Append(p, ListOf(x))[n + 1] = ListOf(x)
    BY <1>3, <2>7, AppendProperties
  <2> DEFINE a == Append(p, ListOf(x))
  <2>9. a \in Seq(T) /\ Len(a) = n + 1 /\ \A i \in 1..n + 1 : a[i] = r[i]
    BY <2>1, <2>3, <2>8
  <2> HIDE DEF a
  <2>10. a = r
    BY <2>6, <2>9
  <2> QED BY <2>10 DEF a
<1>5. p \in Seq(Seq(E))
  <2>1. p \in Seq(T)
    <3> HIDE DEF T, p
    <3> QED BY <1>3
  <2> QED BY <2>1
<1> HIDE DEF p, r
<1>6. FlattenSeq(p) \in Seq(E) /\ FlattenSeq(Append(p, ListOf(x))) = FlattenSeq(p) \o ListOf(x)
  BY <1>3, <1>5, FlattenAppend
<1> QED BY <1>2, <1>3, <1>4, <1>6 DEF E

-----------------------------------------------------------------------------
(* Where the parser is: items fs are read, items gs are still to come.     *)

Base(fs, gs) ==
  /\ fs \in Seq(FileItem) /\ gs \in Seq(FileItem) /\ file = fs \o gs
  /\ SectionsInv(Len(fs)) /\ SettingsInv(Len(fs))
  /\ ~BehindEmptyList(Len(fs) + 1)
  /\ daemon # "stcollectd" => ~inAgent /\ ~inAgentList

LEMMA AtItem ==
  ASSUME NEW fs, NEW gs, fs \in Seq(FileItem), gs \in Seq(FileItem), file = fs \o gs, gs # <<>>
  PROVE  /\ Head(gs) = file[Len(fs) + 1] /\ Head(gs) \in FileItem
         /\ Len(fs) \in Nat /\ Len(fs) + 1 \in DOMAIN file /\ DOMAIN file \subseteq Nat
         /\ Append(fs, Head(gs)) \in Seq(FileItem) /\ Tail(gs) \in Seq(FileItem)
         /\ file = Append(fs, Head(gs)) \o Tail(gs)
         /\ Len(Append(fs, Head(gs))) = Len(fs) + 1
<1> DEFINE S == FileItem
<1>1. fs \in Seq(S) /\ gs \in Seq(S)
  OBVIOUS
<1> HIDE DEF S
<1>2. file \in Seq(S)
  BY <1>1, ConcatProperties
<1>3. DOMAIN file = 1..Len(file) /\ Len(file) \in Nat
  BY <1>2
<1>4. /\ fs \o gs = Append(fs, Head(gs)) \o Tail(gs)
      /\ Append(fs, Head(gs)) \in Seq(S)
      /\ Tail(gs) \in Seq(S) /\ Head(gs) \in S
      /\ Len(fs) \in Nat /\ Len(Append(fs, Head(gs))) = Len(fs) + 1
      /\ Len(fs) + 1 \in 1..Len(fs \o gs) /\ (fs \o gs)[Len(fs) + 1] = Head(gs)
  BY <1>1, MovesOver
<1> QED BY <1>3, <1>4 DEF S

\* An empty list of agents stays the last thing that is read well.
LEMMA StillFull ==
  ASSUME NEW n \in Nat, ~BehindEmptyList(n + 1),
         daemon = "stcollectd" /\ file[n + 1].kind = "agents" => file[n + 1].list # <<>>
  PROVE  ~BehindEmptyList(n + 2)
<1>1. \A j \in 1..n + 1 : j \in 1..n \/ j = n + 1
  OBVIOUS
<1>2. n + 1 - 1 = n /\ n + 2 - 1 = n + 1
  OBVIOUS
<1> QED BY <1>1, <1>2 DEF BehindEmptyList

LEMMA BaseMoves ==
  ASSUME NEW fs, NEW gs, NEW ff, NEW tt, Base(fs, gs), gs # <<>>,
         ff = Append(fs, Head(gs)), tt = Tail(gs), NEW n \in Nat, n = Len(fs),
         UNCHANGED <<file, daemon>>, SectionsInv(n + 1)', SettingsInv(n + 1)',
         daemon = "stcollectd" /\ Head(gs).kind = "agents" => Head(gs).list # <<>>,
         daemon # "stcollectd" => ~inAgent' /\ ~inAgentList'
  PROVE  Base(ff, tt)'
<1>1. /\ Head(gs) = file[n + 1]
      /\ ff \in Seq(FileItem) /\ tt \in Seq(FileItem) /\ file = ff \o tt
      /\ Len(ff) = n + 1
  BY AtItem DEF Base
<1>2. ~BehindEmptyList(n + 2)
  BY <1>1, StillFull DEF Base
<1>3. ~BehindEmptyList(n + 2)'
  BY <1>2 DEF BehindEmptyList
<1>4. Len(ff) + 1 = n + 2
  BY <1>1
<1> HIDE DEF FileItem
<1> QED BY <1>1, <1>3, <1>4 DEF Base

LEMMA BaseStays ==
  ASSUME NEW fs, NEW gs, Base(fs, gs), UNCHANGED <<file, daemon, section, storage, config>>,
         daemon # "stcollectd" => UNCHANGED <<inAgent, inAgentList>>
  PROVE  Base(fs, gs)'
<1> DEFINE n == Len(fs)
<1> HIDE DEF n
<1>1. n = Len(fs)
  BY DEF n
<1>2. SectionsInv(n)' /\ SettingsInv(n)' /\ ~BehindEmptyList(n + 1)'
  BY <1>1, SectionsStay, SettingsStay DEF Base, BehindEmptyList
<1> QED BY <1>1, <1>2 DEF Base

\* No list of agents is open, and stcollectd has the agents of list l.
Clean(l) ==
  daemon = "stcollectd" => ~isList /\ ~inAgent /\ ~inAgentList /\ agent = 0 /\ AgentsAre(l)

LEMMA CleanStays ==
  ASSUME NEW l, Clean(l), UNCHANGED <<agentVars, daemon, isList, inAgent, inAgentList, agent>>
  PROVE  Clean(l)'
BY DEF Clean, AgentsAre, agentVars

Between(fs, gs) ==
  Base(fs, gs) /\ events = AllEvents(gs) /\ ~isValue /\ Clean(Listed(fs))

InSetting(fs, gs) ==
  /\ Base(fs, gs) /\ gs # <<>> /\ Head(gs).kind = "setting"
  /\ events = Cons(Number(Head(gs).num), AllEvents(Tail(gs)))
  /\ isValue /\ key = Head(gs).key /\ Clean(Listed(fs))

\* stprocessd in the list of agents, where s comes before the end of the list.
AsKeys(fs, gs, s) ==
  /\ Base(fs, gs) /\ gs # <<>> /\ Head(gs).kind = "agents" /\ daemon # "stcollectd"
  /\ s \in Seq(Events) /\ Quiet(s)
  /\ events = s \o Cons(SequenceEnd, AllEvents(Tail(gs)))
  /\ key \notin KnownKeys

\* stcollectd in the list of agents.
InAgents(fs, gs) ==
  Base(fs, gs) /\ gs # <<>> /\ Head(gs).kind = "agents" /\ daemon = "stcollectd"

Opening(fs, gs) ==
  /\ InAgents(fs, gs) /\ key = "agents" /\ Clean(Listed(fs))
  /\ events = Cons(SequenceStart, ListTail(Head(gs).list, AllEvents(Tail(gs))))

\* The entries ls of the list are read, the entries ms follow.
Listing(fs, gs, ls, ms) ==
  /\ InAgents(fs, gs) /\ isList
  /\ ls \in Seq(Entry) /\ ms \in Seq(Entry) /\ Head(gs).list = ls \o ms

Entries(fs, gs, ls, ms) ==
  /\ Listing(fs, gs, ls, ms) /\ ~inAgent /\ agent = 0
  /\ IF ls = <<>> THEN key = "agents" /\ ~inAgentList ELSE inAgentList /\ ~isValue
  /\ AgentsAre(Listed(fs) \o ls)
  /\ events = ListTail(ms, AllEvents(Tail(gs)))

Named(fs, gs, ls, ms) ==
  /\ Listing(fs, gs, ls, ms) /\ inAgent /\ inAgentList /\ agent = 0
  /\ ms # <<>> /\ key = Head(ms).name
  /\ AgentsAre(Listed(fs) \o ls)
  /\ events = Cons(SequenceStart, AddressTail(Head(ms).addresses, Tail(ms), AllEvents(Tail(gs))))

\* The addresses ads of the entry are read, the addresses bs follow.
Addressed(fs, gs, ls, ms, ads, bs) ==
  /\ Listing(fs, gs, ls, ms) /\ inAgent /\ inAgentList
  /\ ms # <<>> /\ key = Head(ms).name
  /\ ads \in Seq(Addresses) /\ bs \in Seq(Addresses) /\ Head(ms).addresses = ads \o bs
  /\ IF ads = <<>> THEN agent = 0 /\ AgentsAre(Listed(fs) \o ls)
     ELSE /\ agent # 0 /\ agent = Len(agents)
          /\ AgentsAre(Append(Listed(fs) \o ls, [name |-> Head(ms).name, addresses |-> ads]))
  /\ events = AddressTail(bs, Tail(ms), AllEvents(Tail(gs)))

\* Behind an empty list stcollectd takes the scalars for agents and addresses, and
\* for keys and values again once it has taken a list for one of agents.
Lost ==
  /\ daemon = "stcollectd"
  /\ \A i : Good(i) =>
       /\ Arrived(i) /\ key # file[i].key
       /\ \A e \in Range(events) : e.type = "scalar" => e.text # file[i].key
  /\ \/ \E i \in DOMAIN file : BehindEmptyList(i)
     \/ events = <<>> /\ NothingElse /\ AgentsAre(Listed(file))

PlaceInv ==
  \/ \E fs, gs :
       \/ Between(fs, gs)
       \/ InSetting(fs, gs)
       \/ \E s : AsKeys(fs, gs, s)
       \/ Opening(fs, gs)
       \/ \E ls, ms : \/ Entries(fs, gs, ls, ms)
                      \/ Named(fs, gs, ls, ms)
                      \/ \E ads, bs : Addressed(fs, gs, ls, ms, ads, bs)
  \/ Lost

\* What comes next, when it is Head(c) and rest z follows.
LEMMA FirstEvent ==
  ASSUME NEW c, NEW z, c \in Events, z \in Seq(Events), events = Cons(c, z), NextEvent
  PROVE  /\ events # <<>> /\ Head(events) = c /\ events' = z /\ UNCHANGED <<file, daemon>>
         /\ \A t : Event(t) <=> c.type = t
         /\ ScalarEvent <=> c.type = "scalar"
<1> HIDE DEF Events
<1>1. Cons(c, z) # <<>> /\ Head(Cons(c, z)) = c /\ Tail(Cons(c, z)) = z
  BY ConsFacts
<1> QED BY <1>1 DEF NextEvent, Event, ScalarEvent

LEMMA ParsesNext ==
  ASSUME ParseEvent
  PROVE  NextEvent /\ events # <<>>
BY DEF ParseEvent, EnterSection, EnterStorage, AgentName, AgentAddress, Key, Value,
       ListStart, AgentEnd, ListEnd, InList, InMapping, ScalarEvent, Event

LEMMA SameListed ==
  ASSUME NEW fs, NEW gs, Base(fs, gs), gs # <<>>, Head(gs).kind # "agents"
  PROVE  Listed(Append(fs, Head(gs))) = Listed(fs)
<1> DEFINE E == Entry
           a == Listed(fs)
<1>1. Head(gs) \in FileItem /\ fs \in Seq(FileItem)
  BY AtItem DEF Base
<1>2. ListOf(Head(gs)) = <<>>
  BY DEF ListOf
<1>3. Listed(Append(fs, Head(gs))) = a \o <<>> /\ a \in Seq(E)
  BY <1>1, <1>2, ListedAppend
<1> HIDE DEF E, a
<1>4. a \o <<>> = a
  BY <1>3
<1> QED BY <1>3, <1>4 DEF a

-----------------------------------------------------------------------------
(* From item to item.                                                      *)

LEMMA SectionEntered ==
  ASSUME FlagsInv, NEW fs, NEW gs, Between(fs, gs), gs # <<>>, Head(gs).kind = "section", ParseEvent,
         NEW ff, NEW tt, ff = Append(fs, Head(gs)), tt = Tail(gs)
  PROVE  Between(ff, tt)'
<1> DEFINE x == Head(gs)
           z == AllEvents(tt)
<1>1. PICK n \in Nat : n = Len(fs)
  BY AtItem DEF Between, Base
<1>2. /\ x = file[n + 1] /\ n + 1 \in DOMAIN file /\ DOMAIN file \subseteq Nat
      /\ tt \in Seq(FileItem) /\ gs \in Seq(FileItem)
  BY <1>1, AtItem DEF Between, Base
<1>3. \/ x.name \in Daemons /\ SectionAt(file, n) \in Daemons \cup {"none"}
      \/ x.name \in DOMAIN Storages /\ SectionAt(file, n) = "stprocessd"
  BY <1>2, ItemFacts DEF FlagsInv
<1>4. x.name \in Texts
  BY <1>3, ConfigAssumption DEF SectionNames
<1>5. events = Cons(Name(x.name), z) /\ z \in Seq(Events) /\ Name(x.name) \in Events
  BY <1>2, <1>4, SectionEvents, AllEventsType, EventTypes DEF Between
<1>6. NextEvent
  BY ParsesNext
<1>7. /\ Head(events) = Name(x.name) /\ events' = z /\ UNCHANGED <<file, daemon>>
      /\ ScalarEvent
  BY <1>5, <1>6, FirstEvent, EventFields
<1>8. Text = x.name
  BY <1>7, EventFields DEF Text
<1>9. SectionsInv(n) /\ SettingsInv(n)
  BY <1>1 DEF Between, Base
<1>10. /\ SectionsInv(n + 1)'
       /\ UNCHANGED <<agentVars, inAgentList, inAgent, isValue, isList, key, agent, config>>
  <2>1. CASE x.name \in Daemons /\ SectionAt(file, n) \in Daemons \cup {"none"}
    <3>1. /\ section' = Text /\ storage' = storage
          /\ UNCHANGED <<agentVars, inAgentList, inAgent, isValue, isList, key, agent, config>>
      BY <1>7, <1>8, <2>1, SectionStep
    <3>2. SectionsInv(n + 1)'
      BY <1>2, <1>7, <1>8, <1>9, <2>1, <3>1, SectionsMark
    <3> QED BY <3>1, <3>2
  <2>2. CASE x.name \in DOMAIN Storages /\ SectionAt(file, n) = "stprocessd"
    <3>1. section = "stprocessd"
      BY <1>9, <2>2 DEF SectionsInv, Daemons
    <3>2. /\ section' = section /\ storage' = Storages[Text]
          /\ UNCHANGED <<agentVars, inAgentList, inAgent, isValue, isList, key, agent, config>>
      BY <1>7, <1>8, <2>2, <3>1, StorageStep
    <3>3. SectionsInv(n + 1)'
      BY <1>2, <1>7, <1>8, <1>9, <2>2, <3>2, SectionsStorage
    <3> QED BY <3>2, <3>3
  <2> QED BY <1>3, <2>1, <2>2
<1>11. SettingsInv(n + 1)'
  <2>1. SettingsInv(n + 1)
    BY <1>2, <1>9, SettingsOther
  <2> QED BY <1>7, <1>10, <2>1, SettingsStay
<1>12. Base(ff, tt)'
  <2>1. daemon # "stcollectd" => ~inAgent' /\ ~inAgentList'
    BY <1>10 DEF Between, Base
  <2>2. Base(fs, gs) /\ UNCHANGED <<file, daemon>> /\ SectionsInv(n + 1)'
    BY <1>7, <1>10 DEF Between
  <2>3. daemon = "stcollectd" /\ Head(gs).kind = "agents" => Head(gs).list # <<>>
    OBVIOUS
  <2> QED BY <1>1, <1>11, <2>1, <2>2, <2>3, BaseMoves
<1>13. Clean(Listed(ff))'
  <2>1. PICK l : l = Listed(fs)
    OBVIOUS
  <2>2. l = Listed(ff)
    BY <2>1, SameListed DEF Between
  <2>3. Clean(l)'
    BY <1>7, <1>10, <2>1, CleanStays DEF Between
  <2> QED BY <2>2, <2>3 DEF Clean
<1> QED BY <1>7, <1>10, <1>12, <1>13 DEF Between

LEMMA KeyRead ==
  ASSUME FlagsInv, NEW fs, NEW gs, Between(fs, gs), gs # <<>>, Head(gs).kind = "setting", ParseEvent
  PROVE  InSetting(fs, gs)'
<1> DEFINE x == Head(gs)
           z == Cons(Number(x.num), AllEvents(Tail(gs)))
<1>1. PICK n \in Nat : n = Len(fs)
  BY AtItem DEF Between, Base
<1>2. x = file[n + 1] /\ n + 1 \in DOMAIN file /\ gs \in Seq(FileItem)
  BY <1>1, AtItem DEF Between, Base
<1>3. x.key \in Texts \ (SectionNames \cup {"agents"}) /\ x.num \in Nat
  BY <1>2, ItemFacts DEF FlagsInv
<1>4. events = Cons(Name(x.key), z) /\ z \in Seq(Events) /\ Name(x.key) \in Events
  BY <1>2, <1>3, SettingEvents, EventTypes DEF Between
<1>5. /\ Head(events) = Name(x.key) /\ events' = z /\ UNCHANGED <<file, daemon>>
      /\ ScalarEvent
  BY <1>4, ParsesNext, FirstEvent, EventFields
<1>6. Text = x.key
  BY <1>5, EventFields DEF Text
<1>7. ~isList \/ daemon # "stcollectd"
  BY DEF Between, Clean
<1>8. /\ UNCHANGED <<agentVars, section, storage, inAgentList, inAgent, isList, agent, config>>
      /\ isValue' /\ key' = x.key
  BY <1>3, <1>5, <1>6, <1>7, MappingStep DEF Between, FlagsInv
<1>9. Base(fs, gs)'
  BY <1>5, <1>8, BaseStays DEF Between
<1>10. Clean(Listed(fs))'
  <2>1. PICK l : l = Listed(fs)
    OBVIOUS
  <2>2. Clean(l)'
    BY <1>5, <1>8, <2>1, CleanStays DEF Between
  <2> QED BY <2>1, <2>2 DEF Clean
<1> QED BY <1>5, <1>8, <1>9, <1>10 DEF InSetting, Between

LEMMA ValueRead ==
  ASSUME FlagsInv, NEW fs, NEW gs, InSetting(fs, gs), ParseEvent,
         NEW ff, NEW tt, ff = Append(fs, Head(gs)), tt = Tail(gs)
  PROVE  Between(ff, tt)'
<1> DEFINE x == Head(gs)
           z == AllEvents(tt)
<1>1. PICK n \in Nat : n = Len(fs)
  BY AtItem DEF InSetting, Base
<1>2. /\ x = file[n + 1] /\ n + 1 \in DOMAIN file /\ DOMAIN file \subseteq Nat
      /\ tt \in Seq(FileItem) /\ x.kind = "setting"
  BY <1>1, AtItem DEF InSetting, Base
<1>3. x.num \in Nat /\ SectionAt(file, n) # "none"
  BY <1>2, ItemFacts DEF FlagsInv
<1>4. events = Cons(Number(x.num), z) /\ z \in Seq(Events) /\ Number(x.num) \in Events
  BY <1>2, <1>3, AllEventsType, EventTypes DEF InSetting
<1>5. /\ Head(events) = Number(x.num) /\ events' = z /\ UNCHANGED <<file, daemon>>
      /\ ScalarEvent
  BY <1>4, ParsesNext, FirstEvent, EventFields
<1>6. Text \notin SectionNames /\ Num = x.num
  <2>1. Number(x.num).text = "" /\ Number(x.num).num = x.num
    BY EventFields
  <2>2. Text = "" /\ Num = x.num
    BY <1>5, <2>1 DEF Text, Num
  <2> QED BY <2>2, TextsApart
<1>7. ~isList \/ daemon # "stcollectd"
  BY DEF InSetting, Clean
<1>8. /\ UNCHANGED <<agentVars, section, storage, inAgentList, inAgent, isList, agent>>
      /\ ~isValue'
      /\ config' = IF key \in Keys[Target] THEN Assigned(<<Target, key>>, x.num) ELSE config
  BY <1>5, <1>6, <1>7, MappingStep DEF InSetting, FlagsInv
<1>9. SectionsInv(n) /\ SettingsInv(n) /\ key = file[n + 1].key
  BY <1>1, <1>2 DEF InSetting, Base
<1>10. SectionsInv(n + 1)'
  <2>1. SectionsInv(n + 1)
    BY <1>2, <1>9, SectionsOther
  <2> QED BY <1>5, <1>8, <2>1, SectionsStay
<1>11. SettingsInv(n + 1)'
  <2>1. n + 1 \in Settings
    BY <1>2 DEF Settings
  <2> QED BY <1>2, <1>3, <1>5, <1>8, <1>9, <2>1, SettingsValue
<1>12. Base(ff, tt)'
  <2>1. Base(fs, gs) /\ gs # <<>> /\ (daemon # "stcollectd" => ~inAgent /\ ~inAgentList)
    BY DEF InSetting, Base
  <2>2. UNCHANGED <<file, daemon, inAgent, inAgentList>>
    BY <1>5, <1>8
  <2>3. daemon = "stcollectd" /\ Head(gs).kind = "agents" => Head(gs).list # <<>>
    BY <1>2
  <2>4. daemon # "stcollectd" => ~inAgent' /\ ~inAgentList'
    BY <2>1, <2>2
  <2> QED BY <1>1, <1>10, <1>11, <2>1, <2>2, <2>3, <2>4, BaseMoves
<1>13. Clean(Listed(ff))'
  <2>1. PICK l : l = Listed(fs)
    OBVIOUS
  <2>2. l = Listed(ff)
    BY <1>2, <2>1, SameListed DEF InSetting
  <2>3. Clean(l)'
    BY <1>5, <1>8, <2>1, CleanStays DEF InSetting
  <2> QED BY <2>2, <2>3 DEF Clean
<1> QED BY <1>5, <1>8, <1>12, <1>13 DEF Between

-----------------------------------------------------------------------------
(* stprocessd reads the list of agents as keys and values.                 *)

LEMMA HeadInFront ==
  ASSUME NEW S, NEW s \in Seq(S), NEW c \in Seq(S), s # <<>>
  PROVE  /\ s \o c = Cons(Head(s), Tail(s) \o c)
         /\ Head(s) \in S /\ Tail(s) \in Seq(S) /\ Tail(s) \o c \in Seq(S)
         /\ Head(s) \in Range(s) /\ Range(Tail(s)) \subseteq Range(s)
<1>1. <<>> \in Seq(S)
  OBVIOUS
<1>2. <<>> \o s = Append(<<>>, Head(s)) \o Tail(s) /\ Head(s) \in S /\ Tail(s) \in Seq(S)
  BY <1>1, MovesOver
<1> DEFINE h == Head(s)
           t == Tail(s)
<1>3. <<>> \o s = s /\ Append(<<>>, h) = <<h>> /\ <<h>> \in Seq(S)
  BY <1>2
<1>4. s = <<h>> \o t
  BY <1>2, <1>3
<1>5. Range(s) = Range(<<h>>) \cup Range(t) /\ Range(<<h>>) = {h}
  <2>1. h \in S /\ t \in Seq(S) /\ <<h>> \in Seq(S)
    BY <1>2, <1>3
  <2> HIDE DEF h, t
  <2>2. Range(<<h>> \o t) = Range(<<h>>) \cup Range(t)
    BY <2>1, ConcatElements
  <2>3. Range(<<h>>) = {h}
    BY DEF Range
  <2> QED BY <1>4, <2>2, <2>3
<1>6. h \in S /\ t \in Seq(S)
  BY <1>2
<1> HIDE DEF h, t
<1>7. (<<h>> \o t) \o c = <<h>> \o (t \o c)
  BY <1>3, <1>6, ConcatAssociative, SMTT(30)
<1>8. t \o c \in Seq(S)
  BY <1>6, ConcatProperties
<1>9. s \o c = Cons(h, t \o c)
  BY <1>4, <1>7 DEF Cons
<1> QED BY <1>5, <1>6, <1>8, <1>9 DEF h, t

LEMMA ConsConcat ==
  ASSUME NEW S, NEW x \in S, NEW b \in Seq(S), NEW c \in Seq(S)
  PROVE  /\ Cons(x, b) \o c = Cons(x, b \o c)
         /\ Cons(x, b) \in Seq(S) /\ Range(Cons(x, b)) = {x} \cup Range(b)
<1>1. <<x>> \in Seq(S) /\ Range(<<x>>) = {x}
  BY DEF Range
<1>2. (<<x>> \o b) \o c = <<x>> \o (b \o c)
  BY <1>1, ConcatAssociative, SMTT(30)
<1> DEFINE o == <<x>>
<1>3. o \in Seq(S)
  BY <1>1
<1> HIDE DEF o
<1>4. o \o b \in Seq(S) /\ Range(o \o b) = Range(o) \cup Range(b)
  BY <1>3, ConcatElements
<1> QED BY <1>1, <1>2, <1>4 DEF o, Cons

LEMMA ListBegun ==
  ASSUME FlagsInv, NEW fs, NEW gs, Between(fs, gs), gs # <<>>, Head(gs).kind = "agents", ParseEvent,
         NEW s, s = Cons(SequenceStart, EntryEvents(Head(gs).list))
  PROVE  IF daemon = "stcollectd" THEN Opening(fs, gs)' ELSE AsKeys(fs, gs, s)'
<1> DEFINE x == Head(gs)
           z == AllEvents(Tail(gs))
           c == Cons(SequenceStart, ListTail(x.list, z))
<1>1. PICK n \in Nat : n = Len(fs)
  BY AtItem DEF Between, Base
<1>2. x = file[n + 1] /\ n + 1 \in DOMAIN file /\ gs \in Seq(FileItem) /\ Tail(gs) \in Seq(FileItem)
  BY <1>1, AtItem DEF Between, Base
<1>3. x.list \in Seq(Entry)
  BY <1>2, ItemFacts DEF FlagsInv
<1>4. Name("agents") \in Events
  BY EventTypes, ConfigAssumption
<1>5. events = Cons(Name("agents"), c) /\ c \in Seq(Events)
  BY <1>2, <1>3, ListEvents DEF Between
<1>6. /\ Head(events) = Name("agents") /\ events' = c /\ UNCHANGED <<file, daemon>>
      /\ ScalarEvent
  BY <1>4, <1>5, ParsesNext, FirstEvent, EventFields
<1>7. Text = "agents" /\ Text \notin SectionNames
  <2>1. Name("agents").text = "agents"
    BY EventFields
  <2>2. Text = "agents"
    BY <1>6, <2>1 DEF Text
  <2> QED BY <2>2, TextsApart
<1>8. ~isList \/ daemon # "stcollectd"
  BY DEF Between, Clean
<1>9. /\ UNCHANGED <<agentVars, section, storage, inAgentList, inAgent, isList, agent, config>>
      /\ isValue' /\ key' = "agents"
  BY <1>6, <1>7, <1>8, MappingStep DEF Between, FlagsInv
<1>10. Base(fs, gs)'
  BY <1>6, <1>9, BaseStays DEF Between
<1>11. CASE daemon = "stcollectd"
  <2>1. Clean(Listed(fs))'
    <3>1. PICK l : l = Listed(fs)
      OBVIOUS
    <3>2. Clean(l)'
      BY <1>6, <1>9, <3>1, CleanStays DEF Between
    <3> QED BY <3>1, <3>2 DEF Clean
  <2> QED BY <1>6, <1>9, <1>10, <1>11, <2>1 DEF Opening, InAgents
<1>12. CASE daemon # "stcollectd"
  <2> DEFINE E == Events
             b == EntryEvents(x.list)
             y == SequenceStart
             d == Cons(SequenceEnd, z)
  <2>1. b \in Seq(E) /\ y \in E /\ d \in Seq(E) /\ Quiet(b)
    <3>1. d \in Seq(E)
      BY <1>2, AllEventsType, EventTypes, ConsFacts
    <3> QED BY <1>3, <3>1, EntryEventsFirst, EntriesQuiet, EventTypes
  <2>2. c = Cons(y, b \o d) /\ s = Cons(y, b)
    BY DEF ListTail
  <2>7. y.type = "start"
    BY EventFields
  <2> HIDE DEF E, b, y, d, c
  <2>3. s \o d = c /\ s \in Seq(E) /\ Range(s) = {y} \cup Range(b)
    <3>1. Cons(y, b) \o d = Cons(y, b \o d) /\ Cons(y, b) \in Seq(E) /\ Range(Cons(y, b)) = {y} \cup Range(b)
      BY <2>1, ConsConcat
    <3> QED BY <2>2, <3>1
  <2>4. Quiet(s)
    BY <2>1, <2>3, <2>7 DEF Quiet
  <2>5. events' = s \o d
    BY <1>6, <2>3
  <2>6. key' \notin KnownKeys
    BY <1>9, TextsApart
  <2> QED BY <1>6, <1>10, <1>12, <2>3, <2>4, <2>5, <2>6 DEF AsKeys, E, d
<1> QED BY <1>11, <1>12

LEMMA KeysRead ==
  ASSUME FlagsInv, NEW fs, NEW gs, NEW s, AsKeys(fs, gs, s), s # <<>>, ParseEvent, NEW t, t = Tail(s)
  PROVE  AsKeys(fs, gs, t)'
<1> DEFINE E == Events
           d == Cons(SequenceEnd, AllEvents(Tail(gs)))
           h == Head(s)
           c == t \o d
<1>1. d \in Seq(E)
  <2>1. Tail(gs) \in Seq(FileItem)
    BY AtItem DEF AsKeys, Base
  <2> QED BY <2>1, AllEventsType, EventTypes, ConsFacts
<1>2. s \in Seq(E) /\ events = s \o d
  BY DEF AsKeys
<1> HIDE DEF d
<1>3. /\ events = Cons(h, c) /\ h \in E /\ t \in Seq(E) /\ c \in Seq(E)
      /\ h \in Range(s) /\ Range(t) \subseteq Range(s)
  <2> HIDE DEF E
  <2> QED BY <1>1, <1>2, HeadInFront
<1>4. Quiet(t) /\ (h.type = "scalar" => h.text \notin SectionNames \cup KnownKeys)
  BY <1>3 DEF Quiet, AsKeys
<1> HIDE DEF c, h
<1>5. /\ Head(events) = h /\ events' = c /\ UNCHANGED <<file, daemon>>
      /\ \A u : Event(u) <=> h.type = u
      /\ ScalarEvent <=> h.type = "scalar"
  BY <1>3, ParsesNext, FirstEvent
<1>6. daemon # "stcollectd" /\ ~inAgent /\ ~inAgentList /\ key \notin KnownKeys
  BY DEF AsKeys, Base
<1>7. h.type \in {"scalar", "start", "end"}
  BY <1>3 DEF Events, Scalar, Marker
<1>8. /\ UNCHANGED <<section, storage, config, inAgent, inAgentList>>
      /\ key' \notin KnownKeys
  <2>1. CASE h.type = "scalar"
    <3>1. ScalarEvent /\ Text \notin SectionNames /\ Text \notin KnownKeys
      BY <1>4, <1>5, <2>1 DEF Text
    <3>2. /\ UNCHANGED <<section, storage, inAgentList, inAgent>>
          /\ ~isValue => key' = Text /\ config' = config
          /\ isValue => /\ key' = key
                        /\ config' = IF key \in Keys[Target] THEN Assigned(<<Target, key>>, Num) ELSE config
      BY <1>6, <3>1, MappingStep
    <3>3. key \notin Keys[Target]
      <4>1. Target \in DOMAIN Keys
        BY StorageNames DEF Target, FlagsInv, Daemons
      <4> QED BY <1>6, <4>1 DEF KnownKeys
    <3> QED BY <1>6, <3>1, <3>2, <3>3
  <2>2. CASE h.type = "start"
    BY <1>5, <1>6, <2>2, StartStep
  <2>3. CASE h.type = "end"
    BY <1>5, <1>6, <2>3, EndStep
  <2> QED BY <1>7, <2>1, <2>2, <2>3
<1>9. Base(fs, gs)'
  BY <1>5, <1>8, BaseStays DEF AsKeys
<1> QED BY <1>3, <1>4, <1>5, <1>6, <1>8, <1>9 DEF AsKeys, c, d

LEMMA KeysOver ==
  ASSUME FlagsInv, NEW fs, NEW gs, NEW s, AsKeys(fs, gs, s), s = <<>>, ParseEvent,
         NEW ff, NEW tt, ff = Append(fs, Head(gs)), tt = Tail(gs)
  PROVE  Between(ff, tt)'
<1> DEFINE z == AllEvents(tt)
           c == Cons(SequenceEnd, z)
<1>1. PICK n \in Nat : n = Len(fs)
  BY AtItem DEF AsKeys, Base
<1>2. /\ Head(gs) = file[n + 1] /\ DOMAIN file \subseteq Nat
      /\ tt \in Seq(FileItem) /\ Head(gs).kind = "agents"
  BY <1>1, AtItem DEF AsKeys, Base
<1>3. events = c /\ z \in Seq(Events) /\ SequenceEnd \in Events
  <2>1. z \in Seq(Events) /\ SequenceEnd \in Events
    BY <1>2, AllEventsType, EventTypes
  <2>2. c \in Seq(Events)
    BY <2>1, ConsFacts
  <2>3. events = <<>> \o c
    BY DEF AsKeys
  <2> DEFINE E == Events
  <2>4. c \in Seq(E)
    BY <2>2
  <2> HIDE DEF E, c
  <2>5. <<>> \o c = c
    BY <2>4
  <2> QED BY <2>1, <2>3, <2>5
<1>4. events' = z /\ UNCHANGED <<file, daemon>> /\ Event("end")
  BY <1>3, ParsesNext, FirstEvent, EventFields
<1>5. daemon # "stcollectd" /\ ~inAgent /\ ~inAgentList
  BY DEF AsKeys, Base
<1>6. UNCHANGED <<section, storage, config, inAgent, inAgentList>> /\ ~isValue'
  BY <1>4, <1>5, EndStep
<1>7. SectionsInv(n) /\ SettingsInv(n)
  BY <1>1 DEF AsKeys, Base
<1>8. SectionsInv(n + 1)' /\ SettingsInv(n + 1)'
  <2>1. SectionsInv(n + 1) /\ SettingsInv(n + 1)
    BY <1>2, <1>7, SectionsOther, SettingsOther
  <2> QED BY <1>4, <1>6, <2>1, SectionsStay, SettingsStay
<1>9. Base(ff, tt)'
  <2>1. daemon # "stcollectd" => ~inAgent' /\ ~inAgentList'
    BY <1>5, <1>6
  <2>2. Base(fs, gs) /\ gs # <<>>
    BY DEF AsKeys
  <2> QED BY <1>1, <1>4, <1>5, <1>8, <2>1, <2>2, BaseMoves
<1> QED BY <1>4, <1>5, <1>6, <1>9 DEF Between, Clean

-----------------------------------------------------------------------------
(* stcollectd reads the list of agents.                                    *)

LEMMA InAgentsStays ==
  ASSUME NEW fs, NEW gs, InAgents(fs, gs), UNCHANGED <<file, daemon, section, storage, config>>
  PROVE  InAgents(fs, gs)'
<1>1. Base(fs, gs) /\ daemon = "stcollectd"
  BY DEF InAgents
<1>2. Base(fs, gs)'
  BY <1>1, BaseStays
<1> QED BY <1>2 DEF InAgents

LEMMA ListingStays ==
  ASSUME NEW fs, NEW gs, NEW ls, NEW ms, Listing(fs, gs, ls, ms),
         UNCHANGED <<file, daemon, section, storage, config, isList>>
  PROVE  Listing(fs, gs, ls, ms)'
<1>1. InAgents(fs, gs)'
  BY InAgentsStays DEF Listing
<1> QED BY <1>1 DEF Listing

\* What is known of the place in the list.
LEMMA AtEntry ==
  ASSUME FlagsInv, NEW fs, NEW gs, InAgents(fs, gs)
  PROVE  /\ fs \in Seq(FileItem) /\ gs \in Seq(FileItem) /\ Tail(gs) \in Seq(FileItem)
         /\ AllEvents(Tail(gs)) \in Seq(Events)
         /\ Head(gs) \in FileItem /\ Head(gs).list \in Seq(Entry)
         /\ Listed(fs) \in Seq(Entry)
         /\ daemon = "stcollectd" /\ Base(fs, gs) /\ gs # <<>> /\ Head(gs).kind = "agents"
<1>1. /\ Base(fs, gs) /\ gs # <<>> /\ Head(gs).kind = "agents" /\ daemon = "stcollectd"
      /\ fs \in Seq(FileItem) /\ gs \in Seq(FileItem)
  BY DEF InAgents, Base
<1>2. PICK n \in Nat : n = Len(fs)
  BY <1>1, AtItem DEF Base
<1>3. Head(gs) = file[n + 1] /\ n + 1 \in DOMAIN file /\ Head(gs) \in FileItem /\ Tail(gs) \in Seq(FileItem)
  BY <1>1, <1>2, AtItem DEF Base
<1>4. Head(gs).list \in Seq(Entry)
  BY <1>1, <1>3, ItemFacts DEF FlagsInv
<1>5. AllEvents(Tail(gs)) \in Seq(Events)
  BY <1>3, AllEventsType
<1>6. Listed(fs) \in Seq(Entry)
  BY <1>1, <1>3, ListedAppend
<1> QED BY <1>1, <1>3, <1>4, <1>5, <1>6

LEMMA AgentsStay ==
  ASSUME NEW l, AgentsAre(l), UNCHANGED agentVars
  PROVE  AgentsAre(l)'
BY DEF AgentsAre, agentVars

LEMMA NothingConcat ==
  ASSUME NEW S, NEW s \in Seq(S)
  PROVE  s \o <<>> = s /\ <<>> \o s = s
OBVIOUS

LEMMA ListOpened ==
  ASSUME FlagsInv, NEW fs, NEW gs, Opening(fs, gs), ParseEvent, NEW ms, ms = Head(gs).list
  PROVE  Entries(fs, gs, <<>>, ms)'
<1> DEFINE z == AllEvents(Tail(gs))
           c == ListTail(ms, z)
<1>1. InAgents(fs, gs) /\ key = "agents" /\ Clean(Listed(fs)) /\ events = Cons(SequenceStart, c)
  BY DEF Opening
<1>2. /\ z \in Seq(Events) /\ ms \in Seq(Entry) /\ Listed(fs) \in Seq(Entry) /\ daemon = "stcollectd"
  BY <1>1, AtEntry
<1>3. c \in Seq(Events) /\ SequenceStart \in Events
  <2>1. <<>> \in Seq(Addresses)
    OBVIOUS
  <2> QED BY <1>2, <2>1, AddressTailFirst, EventTypes
<1>4. events' = c /\ UNCHANGED <<file, daemon>> /\ Event("start")
  BY <1>1, <1>3, ParsesNext, FirstEvent, EventFields
<1>5. /\ isList' = TRUE
      /\ UNCHANGED <<agentVars, section, storage, inAgentList, inAgent, isValue, key, agent, config>>
  BY <1>4, StartStep
<1>6. InAgents(fs, gs)'
  BY <1>1, <1>4, <1>5, InAgentsStays
<1>7. Listing(fs, gs, <<>>, ms)'
  <2> DEFINE S == Entry
  <2>1. ms \in Seq(S)
    BY <1>2
  <2> HIDE DEF S
  <2>2. <<>> \in Seq(S) /\ ms = <<>> \o ms
    BY <2>1
  <2> QED BY <1>2, <1>5, <1>6, <2>2 DEF Listing, S
<1>8. AgentsAre(Listed(fs) \o <<>>)'
  <2>1. PICK l : l = Listed(fs)
    OBVIOUS
  <2>2. AgentsAre(l)'
    BY <1>1, <1>2, <1>5, <2>1, AgentsStay DEF Clean
  <2>3. l = Listed(fs) \o <<>>
    BY <1>2, <2>1, NothingConcat
  <2> QED BY <2>2, <2>3
<1>9. ~inAgent' /\ agent' = 0 /\ key' = "agents" /\ ~inAgentList'
  BY <1>1, <1>2, <1>5 DEF Clean
<1> QED BY <1>4, <1>7, <1>8, <1>9 DEF Entries

LEMMA AgentNamed ==
  ASSUME FlagsInv, NEW fs, NEW gs, NEW ls, NEW ms, Entries(fs, gs, ls, ms), ms # <<>>, ParseEvent
  PROVE  Named(fs, gs, ls, ms)'
<1> DEFINE z == AllEvents(Tail(gs))
           x == Name(Head(ms).name)
           c == Cons(SequenceStart, AddressTail(Head(ms).addresses, Tail(ms), z))
<1>1. /\ Listing(fs, gs, ls, ms) /\ ms \in Seq(Entry) /\ InAgents(fs, gs)
      /\ ~inAgent /\ agent = 0 /\ isList /\ inAgentList \in BOOLEAN
      /\ events = ListTail(ms, z)
  BY DEF Entries, Listing, FlagsInv
<1>2. z \in Seq(Events) /\ daemon = "stcollectd"
  BY <1>1, AtEntry
<1>3. events = Cons(x, c) /\ c \in Seq(Events)
  BY <1>1, <1>2, ListTailFirst
<1>4. Head(ms).name \in Texts \ (SectionNames \cup KnownKeys)
  BY <1>1, EntryEventsFirst DEF Entry
<1>5. x \in Events
  BY <1>4, EventTypes
<1>6. /\ Head(events) = x /\ events' = c /\ UNCHANGED <<file, daemon>>
      /\ ScalarEvent
  BY <1>3, <1>5, ParsesNext, FirstEvent, EventFields
<1>7. Text = Head(ms).name
  BY <1>6, EventFields DEF Text
<1>8. /\ inAgentList' = (inAgentList \/ key = "agents") /\ inAgent' = TRUE /\ key' = Text
      /\ UNCHANGED <<agentVars, section, storage, isValue, isList, agent, config>>
  BY <1>1, <1>2, <1>4, <1>6, <1>7, NameStep
<1>9. inAgentList'
  BY <1>8 DEF Entries
<1>10. Listing(fs, gs, ls, ms)'
  BY <1>1, <1>6, <1>8, ListingStays
<1>11. AgentsAre(Listed(fs) \o ls)'
  <2>1. PICK l : l = Listed(fs) \o ls
    OBVIOUS
  <2>2. AgentsAre(l)'
    BY <1>8, <2>1, AgentsStay DEF Entries
  <2> QED BY <2>1, <2>2
<1> QED BY <1>1, <1>6, <1>7, <1>8, <1>9, <1>10, <1>11 DEF Named

LEMMA AddressesBegun ==
  ASSUME FlagsInv, NEW fs, NEW gs, NEW ls, NEW ms, Named(fs, gs, ls, ms), ParseEvent,
         NEW bs, bs = Head(ms).addresses
  PROVE  Addressed(fs, gs, ls, ms, <<>>, bs)'
<1> DEFINE z == AllEvents(Tail(gs))
           c == AddressTail(bs, Tail(ms), z)
<1>1. /\ Listing(fs, gs, ls, ms) /\ ms \in Seq(Entry) /\ InAgents(fs, gs) /\ ms # <<>>
      /\ inAgent /\ inAgentList /\ agent = 0 /\ isList /\ key = Head(ms).name
      /\ events = Cons(SequenceStart, c)
  BY DEF Named, Listing
<1>2. z \in Seq(Events) /\ daemon = "stcollectd"
  BY <1>1, AtEntry
<1>3. c \in Seq(Events) /\ SequenceStart \in Events
  BY <1>1, <1>2, ListTailFirst, EventTypes
<1>4. events' = c /\ UNCHANGED <<file, daemon>> /\ Event("start")
  BY <1>1, <1>3, ParsesNext, FirstEvent, EventFields
<1>5. /\ isList' = TRUE
      /\ UNCHANGED <<agentVars, section, storage, inAgentList, inAgent, isValue, key, agent, config>>
  BY <1>4, StartStep
<1>6. Listing(fs, gs, ls, ms)'
  <2>1. InAgents(fs, gs)'
    BY <1>1, <1>4, <1>5, InAgentsStays
  <2> QED BY <1>1, <1>5, <2>1 DEF Listing
<1>7. AgentsAre(Listed(fs) \o ls)'
  <2>1. PICK l : l = Listed(fs) \o ls
    OBVIOUS
  <2>2. AgentsAre(l)'
    BY <1>5, <2>1, AgentsStay DEF Named
  <2> QED BY <2>1, <2>2
<1>8. <<>> \in Seq(Addresses) /\ bs \in Seq(Addresses) /\ Head(ms).addresses = <<>> \o bs
  <2>1. bs \in Seq(Addresses)
    BY <1>1, EntryEventsFirst DEF Entry
  <2> QED BY <2>1
<1> QED BY <1>1, <1>4, <1>5, <1>6, <1>7, <1>8 DEF Addressed

LEMMA AddressRead ==
  ASSUME FlagsInv, TableInv, NEW fs, NEW gs, NEW ls, NEW ms, NEW ads, NEW bs,
         Addressed(fs, gs, ls, ms, ads, bs), bs # <<>>, ParseEvent,
         NEW ads1, NEW bs1, ads1 = Append(ads, Head(bs)), bs1 = Tail(bs)
  PROVE  Addressed(fs, gs, ls, ms, ads1, bs1)'
<1> DEFINE z == AllEvents(Tail(gs))
           a == Head(bs)
           c == AddressTail(bs1, Tail(ms), z)
           g == Head(ms)
<1>1. /\ Listing(fs, gs, ls, ms) /\ ls \in Seq(Entry) /\ ms \in Seq(Entry) /\ InAgents(fs, gs) /\ ms # <<>>
      /\ inAgent /\ inAgentList /\ isList /\ key = g.name
      /\ ads \in Seq(Addresses) /\ bs \in Seq(Addresses) /\ g.addresses = ads \o bs
      /\ events = AddressTail(bs, Tail(ms), z)
  BY DEF Addressed, Listing
<1>2. z \in Seq(Events) /\ daemon = "stcollectd" /\ Listed(fs) \in Seq(Entry)
  BY <1>1, AtEntry
<1>3. g \in Entry /\ Tail(ms) \in Seq(Entry)
  <2>1. g \in Entry
    BY <1>1, EntryEventsFirst
  <2> DEFINE S == Entry
  <2>2. ms \in Seq(S) /\ ms # <<>>
    BY <1>1
  <2> HIDE DEF S
  <2>3. Tail(ms) \in Seq(S)
    BY <2>2, HeadTailProperties
  <2> QED BY <2>1, <2>3 DEF S
<1>4. a \in Addresses /\ ads1 \in Seq(Addresses) /\ ads1 # <<>> /\ bs1 \in Seq(Addresses)
      /\ g.addresses = ads1 \o bs1
  <2>1. ads \in Seq(Addresses) /\ bs \in Seq(Addresses) /\ bs # <<>>
    BY <1>1
  <2>2. /\ ads \o bs = Append(ads, a) \o Tail(bs) /\ Append(ads, a) \in Seq(Addresses)
        /\ Append(ads, a) # <<>> /\ Tail(bs) \in Seq(Addresses) /\ a \in Addresses
    BY <2>1, MovesOver
  <2> QED BY <1>1, <2>2
<1>5. events = Cons(Address(a), c) /\ c \in Seq(Events)
  BY <1>1, <1>2, <1>3, AddressTailFirst
<1>6. Address(a) \in Events
  BY <1>4, EventTypes
<1>7. /\ Head(events) = Address(a) /\ events' = c /\ UNCHANGED <<file, daemon>>
      /\ ScalarEvent
  BY <1>5, <1>6, ParsesNext, FirstEvent, EventFields
<1>8. Text \notin SectionNames /\ IpToNum = {a}
  <2>1. Address(a).text = "" /\ Address(a).num = a /\ Address(a).ip = TRUE
    BY EventFields
  <2>2. Text = "" /\ IpToNum = {a}
    BY <1>7, <2>1 DEF Text, Num, IpToNum
  <2> QED BY <2>2, TextsApart
<1>9. /\ inAgentList' = (inAgentList \/ key = "agents")
      /\ UNCHANGED <<section, storage, inAgent, isValue, isList, key, config>>
      /\ AgentAddress(a)
  BY <1>1, <1>2, <1>7, <1>8, AddressStep
<1>10. Listing(fs, gs, ls, ms)'
  BY <1>1, <1>7, <1>9, ListingStays
<1>11. PICK l \in Seq(Entry) : l = Listed(fs) \o ls
  <2> DEFINE S == Entry
  <2>1. Listed(fs) \in Seq(S) /\ ls \in Seq(S)
    BY <1>1, <1>2
  <2> HIDE DEF S
  <2>2. Listed(fs) \o ls \in Seq(S)
    BY <2>1, ConcatProperties
  <2> QED BY <2>2 DEF S
<1>12. PICK h \in Entry : h = [name |-> g.name, addresses |-> ads1]
  BY <1>3, <1>4 DEF Entry
<1>13. AgentsAre(Append(l, h))' /\ agent' = Len(agents') /\ agent' # 0
  <2>1. CASE ads = <<>>
    <3>1. agent = 0 /\ AgentsAre(l)
      BY <1>11, <2>1 DEF Addressed
    <3>2. h.name = key /\ h.addresses = <<a>>
      BY <1>1, <1>4, <1>12, <2>1
    <3> QED BY <1>4, <1>9, <3>1, <3>2, FirstAddress
  <2>2. CASE ads # <<>>
    <3>1. PICK o \in Entry : o = [name |-> g.name, addresses |-> ads]
      BY <1>1, <1>3, <2>2 DEF Entry
    <3>2. agent # 0 /\ agent = Len(agents) /\ AgentsAre(Append(l, o))
      BY <1>11, <2>2, <3>1 DEF Addressed
    <3>3. h.name = o.name /\ h.addresses = Append(o.addresses, a)
      BY <1>12, <3>1
    <3>4. AgentsAre(Append(l, h))' /\ UNCHANGED <<agents, agent>>
      BY <1>4, <1>9, <3>2, <3>3, NextAddress
    <3> QED BY <3>2, <3>4
  <2> QED BY <2>1, <2>2
<1>14. key' = g.name /\ inAgent' /\ inAgentList'
  BY <1>1, <1>9
<1>15. AgentsAre(Append(Listed(fs) \o ls, [name |-> g.name, addresses |-> ads1]))'
  BY <1>11, <1>12, <1>13
<1> QED BY <1>1, <1>4, <1>7, <1>10, <1>13, <1>14, <1>15 DEF Addressed

LEMMA AddressesOver ==
  ASSUME FlagsInv, NEW fs, NEW gs, NEW ls, NEW ms, NEW ads, NEW bs,
         Addressed(fs, gs, ls, ms, ads, bs), bs = <<>>, ParseEvent,
         NEW ls1, NEW ms1, ls1 = Append(ls, Head(ms)), ms1 = Tail(ms)
  PROVE  Entries(fs, gs, ls1, ms1)'
<1> DEFINE z == AllEvents(Tail(gs))
           c == ListTail(ms1, z)
           g == Head(ms)
<1>1. /\ Listing(fs, gs, ls, ms) /\ ls \in Seq(Entry) /\ ms \in Seq(Entry) /\ InAgents(fs, gs) /\ ms # <<>>
      /\ inAgent /\ inAgentList /\ isList /\ key = g.name
      /\ ads \in Seq(Addresses) /\ bs \in Seq(Addresses) /\ g.addresses = ads \o bs
      /\ events = AddressTail(bs, Tail(ms), z) /\ Head(gs).list = ls \o ms
  BY DEF Addressed, Listing
<1>2. z \in Seq(Events) /\ daemon = "stcollectd" /\ Listed(fs) \in Seq(Entry)
  BY <1>1, AtEntry
<1>3. g \in Entry /\ ms1 \in Seq(Entry) /\ ls1 \in Seq(Entry) /\ ls1 # <<>> /\ ls \o ms = ls1 \o ms1
  <2> DEFINE S == Entry
  <2>1. ls \in Seq(S) /\ ms \in Seq(S) /\ ms # <<>>
    BY <1>1
  <2> HIDE DEF S
  <2>2. /\ ls \o ms = Append(ls, Head(ms)) \o Tail(ms)
        /\ Append(ls, Head(ms)) \in Seq(S) /\ Append(ls, Head(ms)) # <<>>
        /\ Tail(ms) \in Seq(S) /\ Head(ms) \in S
    BY <2>1, MovesOver, Zenon
  <2> QED BY <2>2, Zenon DEF S
<1>4. events = Cons(SequenceEnd, c) /\ c \in Seq(Events)
  BY <1>1, <1>2, <1>3, AddressTailFirst
<1>5. SequenceEnd \in Events
  BY EventTypes
<1>6. events' = c /\ UNCHANGED <<file, daemon>> /\ Event("end")
  BY <1>4, <1>5, ParsesNext, FirstEvent, EventFields
<1>7. /\ UNCHANGED <<agentVars, section, storage, key, config, inAgentList, isList>>
      /\ agent' = 0 /\ inAgent' = FALSE /\ isValue' = FALSE
  BY <1>1, <1>6, EndStep
<1>8. Listing(fs, gs, ls1, ms1)'
  <2>1. InAgents(fs, gs)'
    BY <1>1, <1>6, <1>7, InAgentsStays
  <2> QED BY <1>1, <1>3, <1>7, <2>1 DEF Listing
<1>9. AgentsAre(Listed(fs) \o ls1)'
  <2>1. ads = g.addresses
    BY <1>1, NothingConcat
  <2>2. ads # <<>> /\ g = [name |-> g.name, addresses |-> ads]
    BY <1>3, <2>1 DEF Entry
  <2>3. AgentsAre(Append(Listed(fs) \o ls, g))
    BY <2>2 DEF Addressed
  <2>4. Append(Listed(fs) \o ls, g) = Listed(fs) \o ls1
    <3> DEFINE S == Entry
               o == <<g>>
               a == Listed(fs)
    <3>1. a \in Seq(S) /\ ls \in Seq(S) /\ g \in S
      BY <1>1, <1>2, <1>3
    <3> HIDE DEF S, a, g
    <3>2. o \in Seq(S)
      BY <3>1
    <3>3. a \o ls \in Seq(S)
      BY <3>1, ConcatProperties
    <3>4. Append(a \o ls, g) = (a \o ls) \o o /\ Append(ls, g) = ls \o o
      BY <3>1, <3>3, AppendIsConcat
    <3> HIDE DEF o
    <3>5. (a \o ls) \o o = a \o (ls \o o)
      BY <3>1, <3>2, ConcatAssociative, SMTT(30)
    <3> QED BY <3>4, <3>5 DEF a, g
  <2>5. PICK l : l = Listed(fs) \o ls1
    OBVIOUS
  <2>6. AgentsAre(l)'
    BY <1>7, <2>3, <2>4, <2>5, AgentsStay
  <2> QED BY <2>5, <2>6
<1> QED BY <1>1, <1>3, <1>6, <1>7, <1>8, <1>9 DEF Entries

\* Behind the last entry the parser is where it was in front of the list.
LEMMA ListOver ==
  ASSUME FlagsInv, NEW fs, NEW gs, NEW ls, NEW ms, Entries(fs, gs, ls, ms), ms = <<>>, ls # <<>>, ParseEvent,
         NEW ff, NEW tt, ff = Append(fs, Head(gs)), tt = Tail(gs)
  PROVE  Between(ff, tt)'
<1> DEFINE z == AllEvents(tt)
<1>1. /\ Listing(fs, gs, ls, ms) /\ ls \in Seq(Entry) /\ InAgents(fs, gs)
      /\ ~inAgent /\ agent = 0 /\ isList /\ inAgentList /\ ~isValue
      /\ events = ListTail(ms, z) /\ Head(gs).list = ls \o ms /\ AgentsAre(Listed(fs) \o ls)
  BY DEF Entries, Listing
<1>2. z \in Seq(Events) /\ daemon = "stcollectd" /\ Listed(fs) \in Seq(Entry) /\ Head(gs) \in FileItem
      /\ fs \in Seq(FileItem) /\ tt \in Seq(FileItem) /\ Base(fs, gs) /\ gs # <<>> /\ Head(gs).kind = "agents"
  BY <1>1, AtEntry
<1>3. Head(gs).list = ls
  BY <1>1, NothingConcat
<1>4. events = Cons(SequenceEnd, z) /\ SequenceEnd \in Events
  BY <1>1, <1>2, ListTailEnd, EventTypes DEF Cons
<1>5. events' = z /\ UNCHANGED <<file, daemon>> /\ Event("end")
  BY <1>2, <1>4, ParsesNext, FirstEvent, EventFields
<1>6. /\ UNCHANGED <<agentVars, section, storage, key, config, inAgent, agent, isValue>>
      /\ inAgentList' = FALSE /\ isList' = FALSE
  BY <1>1, <1>5, EndStep
<1>7. PICK n \in Nat : n = Len(fs)
  BY <1>2, AtItem DEF Base
<1>8. /\ Head(gs) = file[n + 1] /\ DOMAIN file \subseteq Nat
      /\ SectionsInv(n) /\ SettingsInv(n)
  BY <1>2, <1>7, AtItem DEF Base
<1>9. SectionsInv(n + 1)' /\ SettingsInv(n + 1)'
  <2>1. SectionsInv(n + 1) /\ SettingsInv(n + 1)
    BY <1>2, <1>8, SectionsOther, SettingsOther
  <2> QED BY <1>5, <1>6, <2>1, SectionsStay, SettingsStay
<1>10. Base(ff, tt)'
  <2>1. daemon = "stcollectd" /\ Head(gs).kind = "agents" => Head(gs).list # <<>>
    BY <1>3
  <2> QED BY <1>2, <1>5, <1>7, <1>9, <2>1, BaseMoves
<1>11. Clean(Listed(ff))'
  <2>1. Listed(ff) = Listed(fs) \o ls
    BY <1>2, <1>3, ListedAppend DEF ListOf
  <2>2. PICK l : l = Listed(ff)
    OBVIOUS
  <2>3. AgentsAre(l)'
    BY <1>1, <1>6, <2>1, <2>2, AgentsStay
  <2>4. Clean(l)'
    BY <1>1, <1>6, <2>3 DEF Clean
  <2> QED BY <2>2, <2>4 DEF Clean
<1> QED BY <1>1, <1>5, <1>6, <1>10, <1>11 DEF Between

-----------------------------------------------------------------------------
(* Behind an empty list.                                                   *)

LEMMA ListLost ==
  ASSUME FlagsInv, NEW fs, NEW gs, NEW ls, NEW ms, Entries(fs, gs, ls, ms), ms = <<>>, ls = <<>>, ParseEvent
  PROVE  Lost'
<1> DEFINE tt == Tail(gs)
           ff == Append(fs, Head(gs))
           z == AllEvents(tt)
<1>1. /\ Listing(fs, gs, ls, ms) /\ InAgents(fs, gs)
      /\ ~inAgent /\ ~inAgentList /\ key = "agents"
      /\ events = ListTail(ms, z) /\ Head(gs).list = ls \o ms /\ AgentsAre(Listed(fs) \o ls)
  BY DEF Entries, Listing
<1>2. z \in Seq(Events) /\ daemon = "stcollectd" /\ Listed(fs) \in Seq(Entry) /\ Head(gs) \in FileItem
      /\ fs \in Seq(FileItem) /\ gs \in Seq(FileItem) /\ tt \in Seq(FileItem)
      /\ Base(fs, gs) /\ gs # <<>> /\ Head(gs).kind = "agents"
  BY <1>1, AtEntry
<1>3. Head(gs).list = <<>>
  BY <1>1
<1>4. events = Cons(SequenceEnd, z) /\ SequenceEnd \in Events
  BY <1>1, <1>2, ListTailEnd, EventTypes DEF Cons
<1>5. events' = z /\ UNCHANGED <<file, daemon>> /\ Event("end")
  BY <1>2, <1>4, ParsesNext, FirstEvent, EventFields
<1>6. UNCHANGED <<agentVars, section, storage, key, config, inAgent, agent>>
  BY <1>1, <1>5, EndStep
<1>7. PICK n \in Nat : n = Len(fs)
  BY <1>2, AtItem DEF Base
<1>8. /\ Head(gs) = file[n + 1] /\ DOMAIN file \subseteq Nat
      /\ SettingsInv(n) /\ file = ff \o tt /\ Len(ff) = n + 1 /\ ff \in Seq(FileItem)
  BY <1>2, <1>7, AtItem DEF Base
<1>9. \A i \in DOMAIN file : i > n + 1 => BehindEmptyList(i)
  <2> TAKE i \in DOMAIN file
  <2>1. i \in Nat
    BY <1>8
  <2>2. i > n + 1 => n + 1 \in 1..i - 1
    BY <2>1
  <2> QED BY <1>2, <1>3, <1>8, <2>2 DEF BehindEmptyList
<1>10. /\ DOMAIN file = 1..Len(ff) + Len(tt) /\ Len(tt) \in Nat
       /\ \A j \in 1..Len(tt) : file[n + 1 + j] = tt[j] /\ n + 1 + j \in DOMAIN file /\ n + 1 + j > n + 1
  <2> DEFINE S == FileItem
  <2> HIDE DEF ff, tt
  <2>1. ff \in Seq(S) /\ tt \in Seq(S)
    BY <1>2, <1>8
  <2> HIDE DEF S
  <2>2. /\ ff \o tt \in Seq(S) /\ Len(ff \o tt) = Len(ff) + Len(tt)
        /\ \A j \in 1..Len(ff) + Len(tt) : (ff \o tt)[j] = IF j <= Len(ff) THEN ff[j] ELSE tt[j - Len(ff)]
    BY <2>1, ConcatProperties
  <2>3. Len(tt) \in Nat /\ DOMAIN file = 1..Len(ff) + Len(tt)
    BY <1>8, <2>1, <2>2
  <2>4. ASSUME NEW j \in 1..Len(tt)
        PROVE  file[n + 1 + j] = tt[j] /\ n + 1 + j \in DOMAIN file /\ n + 1 + j > n + 1
    <3>1. /\ n + 1 + j \in 1..Len(ff) + Len(tt) /\ ~(n + 1 + j <= Len(ff)) /\ n + 1 + j - Len(ff) = j
          /\ n + 1 + j > n + 1
      BY <1>8, <2>3, <2>4
    <3> QED BY <1>8, <2>2, <2>3, <3>1
  <2> QED BY <2>3, <2>4
<1>11. ASSUME NEW i, Good(i)
       PROVE  /\ Arrived(i) /\ key # file[i].key
              /\ \A e \in Range(z) : e.type = "scalar" => e.text # file[i].key
  <2>1. i \in Settings /\ i \in DOMAIN file /\ i \in Nat /\ file[i].kind = "setting"
    BY <1>8, <1>11 DEF Good, Settings
  <2>2. i <= n
    <3>1. ~(i > n + 1)
      BY <1>9, <1>11, <2>1 DEF Good, Misread
    <3>2. i # n + 1
      BY <1>2, <1>8, <2>1
    <3> QED BY <2>1, <3>1, <3>2
  <2>3. Arrived(i) /\ file[i].key \in KnownKeys
    BY <1>8, <1>11, <2>1, <2>2 DEF SettingsInv
  <2>4. key # file[i].key
    BY <1>1, <2>3, TextsApart
  <2>5. ASSUME NEW e \in Range(z), e.type = "scalar", e.text = file[i].key
        PROVE  FALSE
    <3>1. PICK j \in 1..Len(tt) : tt[j].kind = "setting" /\ e.text = tt[j].key
      BY <1>2, <2>3, <2>5, AllKeys
    <3> DEFINE m == n + 1 + j
    <3>2. m \in Settings /\ file[m].key = file[i].key /\ BehindEmptyList(m) /\ m # i
      <4>1. file[m] = tt[j] /\ m \in DOMAIN file /\ m > n + 1
        BY <1>10, <3>1
      <4>2. m # i
        BY <2>1, <2>2, <4>1
      <4> HIDE DEF m
      <4> QED BY <1>9, <2>5, <3>1, <4>1, <4>2 DEF Settings
    <3> HIDE DEF m
    <3> QED BY <1>11, <3>2 DEF Good, Only, Misread
  <2> QED BY <2>3, <2>4, <2>5
<1>12. ASSUME NEW i, Good(i)'
       PROVE  /\ Arrived(i)' /\ key' # file'[i].key
              /\ \A e \in Range(events') : e.type = "scalar" => e.text # file'[i].key
  <2>1. Good(i)
    BY <1>5, <1>12, GoodStays
  <2>2. Arrived(i)' = Arrived(i)
    BY <1>5, <1>6 DEF Arrived
  <2> QED BY <1>5, <1>6, <1>11, <2>1, <2>2
<1>13. (\E i \in DOMAIN file : BehindEmptyList(i)) \/ (events = <<>> /\ NothingElse /\ AgentsAre(Listed(file)))'
  <2>1. CASE tt # <<>>
    <3>1. Len(tt) # 0
      <4> DEFINE S == FileItem
      <4>1. tt \in Seq(S)
        BY <1>2
      <4> HIDE DEF S, tt
      <4> QED BY <2>1, <4>1
    <3>2. 1 \in 1..Len(tt)
      <4> HIDE DEF tt
      <4>1. Len(tt) \in Nat
        BY <1>10
      <4> QED BY <3>1, <4>1
    <3>3. n + 1 + 1 \in DOMAIN file /\ n + 1 + 1 > n + 1
      BY <1>10, <3>2
    <3> QED BY <1>9, <3>3
  <2>2. CASE tt = <<>>
    <3>1. events' = <<>>
      BY <1>5, <2>2, NoEvents
    <3>2. NothingElse'
      BY <1>5, <1>6, <1>8, GoodStays DEF SettingsInv, NothingElse
    <3>3. file = ff
      <4> HIDE DEF ff
      <4> QED BY <1>8, <2>2, NothingConcat
    <3>4. Listed(file) = Listed(fs) \o ls
      BY <1>2, <1>3, <3>3, ListedAppend DEF ListOf
    <3>5. PICK l : l = Listed(file)
      OBVIOUS
    <3>6. AgentsAre(l)'
      BY <1>1, <1>6, <3>4, <3>5, AgentsStay
    <3>7. PICK f : f = file
      OBVIOUS
    <3>8. l = Listed(f) /\ f = file'
      BY <1>5, <3>5, <3>7
    <3>9. AgentsAre(Listed(file))'
      BY <3>6, <3>8
    <3> QED BY <3>1, <3>2, <3>9
  <2> QED BY <2>1, <2>2
<1> QED BY <1>2, <1>5, <1>12, <1>13, GoodStays DEF Lost

\* A text becomes the key, a value is assigned to the last one.
LEMMA ParseEffects ==
  ASSUME ParseEvent
  PROVE  /\ key' = key \/ (ScalarEvent /\ key' = Text)
         /\ config' = config \/ config' = Assigned(<<Target, key>>, Num)
<1>1. CASE EnterSection \/ EnterStorage
  BY <1>1 DEF EnterSection, EnterStorage
<1>2. CASE AgentName \/ \E a \in Addresses : AgentAddress(a)
  BY <1>2 DEF AgentName, AgentAddress, InList
<1>3. CASE Key \/ Value
  BY <1>3 DEF Key, Value, InMapping
<1>4. CASE ListStart \/ AgentEnd \/ ListEnd
  BY <1>4 DEF ListStart, AgentEnd, ListEnd
<1> QED BY <1>1, <1>2, <1>3, <1>4 DEF ParseEvent

LEMMA LostStays ==
  ASSUME FlagsInv, Lost, ParseEvent
  PROVE  Lost'
<1>1. NextEvent /\ events # <<>> /\ events \in Seq(Events)
  BY ParsesNext DEF FlagsInv
<1>2. Head(events) \in Range(events) /\ Range(Tail(events)) \subseteq Range(events)
  <2> DEFINE E == Events
  <2>1. events \in Seq(E) /\ <<>> \in Seq(E)
    BY <1>1
  <2> HIDE DEF E
  <2> QED BY <1>1, <2>1, HeadInFront
<1>3. events' = Tail(events) /\ UNCHANGED <<file, daemon>>
  BY <1>1 DEF NextEvent
<1>4. \E i \in DOMAIN file : BehindEmptyList(i)
  BY <1>1 DEF Lost
<1>5. ASSUME NEW i, Good(i)'
      PROVE  /\ Arrived(i)' /\ key' # file'[i].key
             /\ \A e \in Range(events') : e.type = "scalar" => e.text # file'[i].key
  <2>1. /\ Good(i) /\ Arrived(i) /\ key # file[i].key
        /\ \A e \in Range(events) : e.type = "scalar" => e.text # file[i].key
    BY <1>3, <1>5, GoodStays DEF Lost
  <2>2. key' # file[i].key
    <3>1. ScalarEvent => Text # file[i].key
      BY <1>2, <2>1 DEF ScalarEvent, Event, Text
    <3> QED BY <2>1, <3>1, ParseEffects
  <2>3. Arrived(i)'
    <3>1. CASE config' = config
      BY <1>3, <2>1, <3>1 DEF Arrived
    <3>2. CASE config' = Assigned(<<Target, key>>, Num)
      <4>1. <<SectionAt(file, i), file[i].key>> # <<Target, key>> /\ i \in Settings
        BY <2>1 DEF Good
      <4> QED BY <1>3, <2>1, <3>2, <4>1, Assigns
    <3> QED BY <3>1, <3>2, ParseEffects
  <2> QED BY <1>2, <1>3, <2>1, <2>2, <2>3
<1> QED BY <1>3, <1>4, <1>5, GoodStays DEF Lost

-----------------------------------------------------------------------------
(* Every place, one after the other.                                       *)

\* The end of a nested section takes no event, and there are no two in a row.
LEMMA OuterPassed ==
  ASSUME FlagsInv, NEW fs, NEW gs, Between(fs, gs), gs # <<>>, Head(gs).kind = "outer",
         NEW ff, NEW tt, ff = Append(fs, Head(gs)), tt = Tail(gs)
  PROVE  Between(ff, tt) /\ (tt # <<>> => Head(tt).kind # "outer")
<1>1. PICK n \in Nat : n = Len(fs)
  BY AtItem DEF Between, Base
<1>2. /\ Head(gs) = file[n + 1] /\ n + 1 \in DOMAIN file /\ DOMAIN file \subseteq Nat
      /\ ff \in Seq(FileItem) /\ tt \in Seq(FileItem) /\ gs \in Seq(FileItem) /\ file = ff \o tt
      /\ Len(ff) = n + 1
  BY <1>1, AtItem DEF Between, Base
<1>3. SectionsInv(n) /\ SettingsInv(n) /\ ~BehindEmptyList(n + 1)
  BY <1>1 DEF Between, Base
<1>4. SectionAt(file, n) \in {"mysql", "spectrum"}
  BY <1>2, ItemFacts DEF FlagsInv
<1>5. SectionsInv(n + 1) /\ SectionAt(file, n + 1) = "stprocessd"
  BY <1>2, <1>3, <1>4, SectionsOuter
<1>6. SettingsInv(n + 1)
  BY <1>2, <1>3, SettingsOther
<1>7. ~BehindEmptyList(n + 2)
  BY <1>2, <1>3, StillFull
<1>8. Base(ff, tt)
  <2>1. Len(ff) + 1 = n + 2
    BY <1>2
  <2>2. daemon # "stcollectd" => ~inAgent /\ ~inAgentList
    BY DEF Between, Base
  <2> HIDE DEF FileItem
  <2> QED BY <1>2, <1>5, <1>6, <1>7, <2>1, <2>2 DEF Base
<1>9. Listed(ff) = Listed(fs)
  BY <1>2, SameListed DEF Between
<1>10. events = AllEvents(tt)
  BY <1>2, OuterEvents DEF Between
<1>11. ASSUME tt # <<>>
       PROVE  Head(tt).kind # "outer"
  <2>1. Head(tt) = file[n + 1 + 1] /\ n + 1 + 1 \in DOMAIN file /\ n + 1 \in Nat
    BY <1>2, <1>11, AtItem
  <2>2. Head(tt).kind = "outer" => SectionAt(file, n + 1) \in {"mysql", "spectrum"}
    BY <2>1, ItemFacts DEF FlagsInv
  <2> QED BY <1>5, <2>2
<1> QED BY <1>8, <1>9, <1>10, <1>11 DEF Between

LEMMA Settled ==
  ASSUME FlagsInv, NEW fs, NEW gs, Between(fs, gs)
  PROVE  \E ff, tt : Between(ff, tt) /\ (tt # <<>> => Head(tt).kind # "outer")
<1>1. CASE gs # <<>> /\ Head(gs).kind = "outer"
  BY <1>1, OuterPassed
<1> QED BY <1>1

LEMMA BetweenStep ==
  ASSUME FlagsInv, NEW fs, NEW gs, Between(fs, gs), ParseEvent
  PROVE  PlaceInv'
<1>1. PICK fs1, gs1 : Between(fs1, gs1) /\ (gs1 # <<>> => Head(gs1).kind # "outer")
  BY Settled
<1>2. gs1 # <<>>
  BY <1>1, ParsesNext, NoEvents DEF Between
<1>3. Head(gs1).kind \in {"section", "setting", "agents"}
  <2>1. Head(gs1) = file[Len(fs1) + 1] /\ Len(fs1) \in Nat /\ Len(fs1) + 1 \in DOMAIN file
    BY <1>1, <1>2, AtItem DEF Between, Base
  <2>2. Head(gs1).kind \in {"section", "outer", "setting", "agents"}
    BY <2>1, ItemFacts DEF FlagsInv
  <2> QED BY <1>1, <1>2, <2>2
<1>4. PICK ff, tt : ff = Append(fs1, Head(gs1)) /\ tt = Tail(gs1)
  OBVIOUS
<1>5. CASE Head(gs1).kind = "section"
  <2>1. Between(ff, tt)'
    BY <1>1, <1>2, <1>4, <1>5, SectionEntered
  <2> QED BY <2>1 DEF PlaceInv
<1>6. CASE Head(gs1).kind = "setting"
  <2>1. InSetting(fs1, gs1)'
    BY <1>1, <1>2, <1>6, KeyRead
  <2> QED BY <2>1 DEF PlaceInv
<1>7. CASE Head(gs1).kind = "agents"
  <2>1. PICK s : s = Cons(SequenceStart, EntryEvents(Head(gs1).list))
    OBVIOUS
  <2>2. Opening(fs1, gs1)' \/ AsKeys(fs1, gs1, s)'
    BY <1>1, <1>2, <1>7, <2>1, ListBegun
  <2> QED BY <2>2 DEF PlaceInv
<1> QED BY <1>3, <1>5, <1>6, <1>7

LEMMA StepPlace ==
  ASSUME FlagsInv, TableInv, PlaceInv, ParseEvent
  PROVE  PlaceInv'
<1>1. CASE Lost
  <2>1. Lost'
    BY <1>1, LostStays
  <2> QED BY <2>1 DEF PlaceInv
<1>2. ASSUME NEW fs, NEW gs, Between(fs, gs)
      PROVE  PlaceInv'
  BY <1>2, BetweenStep
<1>3. ASSUME NEW fs, NEW gs, InSetting(fs, gs)
      PROVE  PlaceInv'
  <2>1. PICK ff, tt : ff = Append(fs, Head(gs)) /\ tt = Tail(gs)
    OBVIOUS
  <2>2. Between(ff, tt)'
    BY <1>3, <2>1, ValueRead
  <2> QED BY <2>2 DEF PlaceInv
<1>4. ASSUME NEW fs, NEW gs, NEW s, AsKeys(fs, gs, s)
      PROVE  PlaceInv'
  <2>1. PICK ff, tt, t : ff = Append(fs, Head(gs)) /\ tt = Tail(gs) /\ t = Tail(s)
    OBVIOUS
  <2>2. Between(ff, tt)' \/ AsKeys(fs, gs, t)'
    <3>1. CASE s = <<>>
      BY <1>4, <2>1, <3>1, KeysOver
    <3>2. CASE s # <<>>
      BY <1>4, <2>1, <3>2, KeysRead
    <3> QED BY <3>1, <3>2
  <2> QED BY <2>2 DEF PlaceInv
<1>5. ASSUME NEW fs, NEW gs, Opening(fs, gs)
      PROVE  PlaceInv'
  <2>1. PICK ls, ms : ls = <<>> /\ ms = Head(gs).list
    OBVIOUS
  <2>2. Entries(fs, gs, ls, ms)'
    BY <1>5, <2>1, ListOpened
  <2> QED BY <2>2 DEF PlaceInv
<1>6. ASSUME NEW fs, NEW gs, NEW ls, NEW ms, Entries(fs, gs, ls, ms)
      PROVE  PlaceInv'
  <2>1. PICK ff, tt : ff = Append(fs, Head(gs)) /\ tt = Tail(gs)
    OBVIOUS
  <2>2. Named(fs, gs, ls, ms)' \/ Between(ff, tt)' \/ Lost'
    <3>1. CASE ms # <<>>
      BY <1>6, <3>1, AgentNamed
    <3>2. CASE ms = <<>> /\ ls # <<>>
      BY <1>6, <2>1, <3>2, ListOver
    <3>3. CASE ms = <<>> /\ ls = <<>>
      BY <1>6, <3>3, ListLost
    <3> QED BY <3>1, <3>2, <3>3
  <2> QED BY <2>2 DEF PlaceInv
<1>7. ASSUME NEW fs, NEW gs, NEW ls, NEW ms, Named(fs, gs, ls, ms)
      PROVE  PlaceInv'
  <2>1. PICK ads, bs : ads = <<>> /\ bs = Head(ms).addresses
    OBVIOUS
  <2>2. Addressed(fs, gs, ls, ms, ads, bs)'
    BY <1>7, <2>1, AddressesBegun
  <2> QED BY <2>2 DEF PlaceInv
<1>8. ASSUME NEW fs, NEW gs, NEW ls, NEW ms, NEW ads, NEW bs, Addressed(fs, gs, ls, ms, ads, bs)
      PROVE  PlaceInv'
  <2>1. PICK ls1, ms1 : ls1 = Append(ls, Head(ms)) /\ ms1 = Tail(ms)
    OBVIOUS
  <2>2. PICK ads1, bs1 : ads1 = Append(ads, Head(bs)) /\ bs1 = Tail(bs)
    OBVIOUS
  <2>3. Entries(fs, gs, ls1, ms1)' \/ Addressed(fs, gs, ls, ms, ads1, bs1)'
    <3>1. CASE bs = <<>>
      BY <1>8, <2>1, <3>1, AddressesOver
    <3>2. CASE bs # <<>>
      BY <1>8, <2>2, <3>2, AddressRead
    <3> QED BY <3>1, <3>2
  <2> QED BY <2>3 DEF PlaceInv
<1> QED BY <1>1, <1>2, <1>3, <1>4, <1>5, <1>6, <1>7, <1>8 DEF PlaceInv

-----------------------------------------------------------------------------
(* The beginning and the end of the file.                                  *)

LEMMA InitPlace == Init => PlaceInv
<1> SUFFICES ASSUME Init PROVE PlaceInv
  OBVIOUS
<1>1. PICK fs, gs : fs = <<>> /\ gs = file
  OBVIOUS
<1>2. Len(fs) = 0 /\ fs = <<>>
  BY <1>1
<1>3. /\ file \in Files /\ events = AllEvents(file)
      /\ section = "none" /\ storage = "none" /\ ~inAgentList /\ ~inAgent /\ ~isValue /\ ~isList
      /\ agent = 0 /\ config = <<>> /\ agents = <<>> /\ nodes = <<>>
  BY DEF Init, ConfigInit, AgentsInit, AllEvents
<1>4. fs \in Seq(FileItem) /\ gs \in Seq(FileItem) /\ file = fs \o gs /\ DOMAIN file \subseteq Nat \ {0}
  <2> DEFINE S == FileItem
  <2>1. file \in Seq(S)
    BY <1>3, ConfigAssumption
  <2> HIDE DEF S
  <2>2. <<>> \in Seq(S) /\ <<>> \o file = file /\ DOMAIN file \subseteq Nat \ {0}
    BY <2>1
  <2> QED BY <1>1, <2>1, <2>2 DEF S
<1>5. SectionsInv(0)
  BY <1>3, SectionAtStart DEF SectionsInv, Daemons
<1>6. SettingsInv(0)
  <2>1. DOMAIN config = {}
    BY <1>3
  <2>2. \A i \in Settings : ~(i <= 0)
    BY <1>4 DEF Settings
  <2> QED BY <2>1, <2>2 DEF SettingsInv, NothingElse
<1>7. ~BehindEmptyList(0 + 1)
  <2>1. 1..0 + 1 - 1 = {}
    OBVIOUS
  <2> QED BY <2>1 DEF BehindEmptyList
<1>8. Base(fs, gs)
  <2> HIDE DEF FileItem
  <2> QED BY <1>2, <1>3, <1>4, <1>5, <1>6, <1>7 DEF Base
<1>9. AgentsAre(Listed(fs))
  <2>1. Listed(fs) = <<>>
    <3>1. [i \in 1..Len(<<>>) |-> IF <<>>[i].kind = "agents" THEN <<>>[i].list ELSE <<>>] = <<>>
      OBVIOUS
    <3> QED BY <1>1, <3>1, FlattenEmpty DEF Listed
  <2>2. DOMAIN <<>> = {} /\ Len(<<>>) = 0
    OBVIOUS
  <2>3. AgentsAre(<<>>)
    BY <1>3, <2>2 DEF AgentsAre
  <2> QED BY <2>1, <2>3
<1>10. Between(fs, gs)
  BY <1>1, <1>3, <1>8, <1>9 DEF Between, Clean
<1> QED BY <1>10 DEF PlaceInv

\* As long as items or parts of them are to come there are events.
LEMMA NotParsed ==
  ASSUME NEW S, NEW x \in S, NEW b \in Seq(S), NEW z \in Seq(S)
  PROVE  Cons(x, z) # <<>> /\ b \o Cons(x, z) # <<>>
<1>1. Cons(x, z) \in Seq(S) /\ Cons(x, z) # <<>>
  BY ConsFacts
<1> DEFINE c == Cons(x, z)
<1> HIDE DEF c
<1>2. c \in Seq(S) /\ c # <<>>
  BY <1>1 DEF c
<1>3. b \o c # <<>>
  <2>1. Len(b) \in Nat /\ Len(c) \in Nat /\ Len(c) # 0 /\ Len(b \o c) = Len(b) + Len(c)
    BY <1>2, ConcatProperties
  <2>2. Len(<<>>) = 0
    OBVIOUS
  <2> QED BY <2>1, <2>2
<1> QED BY <1>1, <1>3 DEF c

\* When the last event is taken everything is read, or there is no telling.
LEMMA BetweenParsed ==
  ASSUME FlagsInv, NEW fs, NEW gs, Between(fs, gs), Parsed
  PROVE  ConfigurationIsRead
<1>1. PICK ff, tt : Between(ff, tt) /\ (tt # <<>> => Head(tt).kind # "outer")
  BY Settled
<1>2. ff \in Seq(FileItem) /\ tt \in Seq(FileItem) /\ file = ff \o tt /\ events = AllEvents(tt)
      /\ SettingsInv(Len(ff)) /\ Clean(Listed(ff))
  BY <1>1 DEF Between, Base
<1>3. tt = <<>>
  <2> SUFFICES ASSUME tt # <<>> PROVE FALSE
    OBVIOUS
  <2> DEFINE x == Head(tt)
             z == AllEvents(Tail(tt))
  <2>1. /\ x = file[Len(ff) + 1] /\ Len(ff) + 1 \in DOMAIN file /\ Len(ff) \in Nat
        /\ x \in FileItem /\ Tail(tt) \in Seq(FileItem)
    BY <1>2, AtItem
  <2>2. z \in Seq(Events)
    BY <2>1, AllEventsType
  <2>3. CASE x.kind = "section"
    <3>1. x.name \in Texts
      <4>1. x.name \in SectionNames
        BY <2>1, <2>3 DEF FileItem
      <4> QED BY <4>1, ConfigAssumption
    <3>2. events = Cons(Name(x.name), z) /\ Name(x.name) \in Events
      BY <1>2, <2>3, <3>1, SectionEvents, EventTypes
    <3> HIDE DEF Events, z
    <3>3. Cons(Name(x.name), z) # <<>>
      BY <2>2, <3>2, ConsFacts
    <3> QED BY <3>2, <3>3 DEF Parsed
  <2>4. CASE x.kind = "setting"
    <3>1. x.key \in Texts /\ x.num \in Nat
      BY <2>1, <2>4 DEF FileItem
    <3> DEFINE y == Cons(Number(x.num), z)
    <3>2. events = Cons(Name(x.key), y) /\ Name(x.key) \in Events /\ y \in Seq(Events)
      BY <1>2, <2>4, <3>1, SettingEvents, EventTypes
    <3> HIDE DEF Events, z, y
    <3>3. Cons(Name(x.key), y) # <<>>
      BY <3>2, ConsFacts
    <3> QED BY <3>2, <3>3 DEF Parsed
  <2>5. CASE x.kind = "agents"
    <3>1. x.list \in Seq(Entry)
      BY <2>1, <2>5, ListOfType DEF ListOf
    <3> DEFINE y == Cons(SequenceStart, ListTail(x.list, z))
    <3>2. events = Cons(Name("agents"), y) /\ Name("agents") \in Events /\ y \in Seq(Events)
      BY <1>2, <2>5, <3>1, ListEvents, EventTypes, ConfigAssumption
    <3> HIDE DEF Events, z, y
    <3>3. Cons(Name("agents"), y) # <<>>
      BY <3>2, ConsFacts
    <3> QED BY <3>2, <3>3 DEF Parsed
  <2>6. x.kind \in {"section", "outer", "setting", "agents"}
    BY <2>1 DEF FileItem
  <2> QED BY <1>1, <2>3, <2>4, <2>5, <2>6
<1>4. file = ff
  <2> DEFINE S == FileItem
  <2>1. ff \in Seq(S)
    BY <1>2
  <2> HIDE DEF S
  <2> QED BY <1>2, <1>3, <2>1, NothingConcat
<1>5. ASSUME NEW i, Good(i)
      PROVE  Arrived(i)
  <2>1. i \in Settings /\ i <= Len(ff)
    <3> DEFINE S == FileItem
    <3>1. ff \in Seq(S)
      BY <1>2
    <3> HIDE DEF S
    <3>2. \A j \in DOMAIN ff : j <= Len(ff)
      BY <3>1
    <3> QED BY <1>4, <1>5, <3>2 DEF Good, Settings
  <2> QED BY <1>2, <1>5, <2>1 DEF SettingsInv
<1>6. NothingElse /\ (daemon = "stcollectd" => AgentsAre(Listed(file)))
  BY <1>2, <1>4 DEF SettingsInv, Clean
<1> QED BY <1>5, <1>6 DEF ConfigurationIsRead, Good, NothingElse

LEMMA PlaceParsed ==
  ASSUME FlagsInv, PlaceInv, Parsed
  PROVE  ConfigurationIsRead
<1>0. events = <<>> /\ SequenceStart \in Events /\ SequenceEnd \in Events
  BY EventTypes DEF Parsed
<1>1. CASE Lost
  <2>1. ASSUME NEW i, Good(i)
        PROVE  Arrived(i)
    BY <1>1, <2>1 DEF Lost
  <2> QED BY <1>1, <2>1 DEF Lost, ConfigurationIsRead, Good, NothingElse
<1>2. ASSUME NEW fs, NEW gs, Between(fs, gs)
      PROVE  ConfigurationIsRead
  BY <1>2, BetweenParsed
<1>3. ASSUME NEW fs, NEW gs, Base(fs, gs), gs # <<>>
      PROVE  /\ AllEvents(Tail(gs)) \in Seq(Events) /\ Head(gs) \in FileItem
             /\ Head(gs).kind = "setting" => Number(Head(gs).num) \in Events
  <2>1. Head(gs) \in FileItem /\ Tail(gs) \in Seq(FileItem)
    BY <1>3, AtItem DEF Base
  <2>2. Head(gs).kind = "setting" => Head(gs).num \in Nat
    BY <2>1 DEF FileItem
  <2> QED BY <2>1, <2>2, AllEventsType, EventTypes
<1>4. ASSUME NEW fs, NEW gs, InSetting(fs, gs)
      PROVE  FALSE
  <2>1. /\ AllEvents(Tail(gs)) \in Seq(Events) /\ Number(Head(gs).num) \in Events
        /\ events = Cons(Number(Head(gs).num), AllEvents(Tail(gs)))
    BY <1>3, <1>4 DEF InSetting
  <2> HIDE DEF Events
  <2> QED BY <1>0, <2>1, ConsFacts
<1>5. ASSUME NEW fs, NEW gs, NEW s, AsKeys(fs, gs, s)
      PROVE  FALSE
  <2>1. /\ AllEvents(Tail(gs)) \in Seq(Events) /\ s \in Seq(Events)
        /\ events = s \o Cons(SequenceEnd, AllEvents(Tail(gs)))
    BY <1>3, <1>5 DEF AsKeys
  <2> HIDE DEF Events
  <2> QED BY <1>0, <2>1, NotParsed
<1>6. ASSUME NEW ms, NEW z \in Seq(Events), ms \in Seq(Entry)
      PROVE  ListTail(ms, z) \in Seq(Events) /\ ListTail(ms, z) # <<>>
  <2>1. EntryEvents(ms) \in Seq(Events)
    BY <1>6, EntryEventsFirst
  <2> HIDE DEF Events
  <2>2. EntryEvents(ms) \o Cons(SequenceEnd, z) # <<>>
    BY <1>0, <2>1, NotParsed
  <2>3. Cons(SequenceEnd, z) \in Seq(Events)
    BY <1>0, ConsFacts
  <2>4. EntryEvents(ms) \o Cons(SequenceEnd, z) \in Seq(Events)
    BY <2>1, <2>3, ConcatProperties
  <2> QED BY <2>2, <2>4 DEF ListTail
<1>7. ASSUME NEW ads, NEW ms, NEW z \in Seq(Events), ads \in Seq(Addresses), ms \in Seq(Entry)
      PROVE  AddressTail(ads, ms, z) \in Seq(Events) /\ AddressTail(ads, ms, z) # <<>>
  <2>1. AddressEvents(ads) \in Seq(Events) /\ ListTail(ms, z) \in Seq(Events)
    BY <1>6, <1>7, AddressEventsFirst
  <2> HIDE DEF Events
  <2>2. AddressEvents(ads) \o Cons(SequenceEnd, ListTail(ms, z)) # <<>>
    BY <1>0, <2>1, NotParsed
  <2>3. Cons(SequenceEnd, ListTail(ms, z)) \in Seq(Events)
    BY <1>0, <2>1, ConsFacts
  <2>4. AddressEvents(ads) \o Cons(SequenceEnd, ListTail(ms, z)) \in Seq(Events)
    BY <2>1, <2>3, ConcatProperties
  <2> QED BY <2>2, <2>4 DEF AddressTail
<1>8. ASSUME NEW fs, NEW gs, Opening(fs, gs)
      PROVE  FALSE
  <2>1. /\ InAgents(fs, gs)
        /\ events = Cons(SequenceStart, ListTail(Head(gs).list, AllEvents(Tail(gs))))
    BY <1>8 DEF Opening
  <2>2. AllEvents(Tail(gs)) \in Seq(Events) /\ Head(gs).list \in Seq(Entry)
    <3>1. Head(gs) \in FileItem /\ Head(gs).kind = "agents"
      BY <1>3, <2>1 DEF InAgents
    <3> QED BY <1>3, <2>1, <3>1, ListOfType DEF InAgents, ListOf
  <2>3. ListTail(Head(gs).list, AllEvents(Tail(gs))) \in Seq(Events)
    BY <1>6, <2>2
  <2> HIDE DEF Events
  <2> QED BY <1>0, <2>1, <2>3, ConsFacts
<1>9. ASSUME NEW fs, NEW gs, NEW ls, NEW ms, Entries(fs, gs, ls, ms)
      PROVE  FALSE
  <2>1. ms \in Seq(Entry) /\ events = ListTail(ms, AllEvents(Tail(gs))) /\ Base(fs, gs) /\ gs # <<>>
    BY <1>9 DEF Entries, Listing, InAgents
  <2> QED BY <1>0, <1>3, <1>6, <2>1
<1>10. ASSUME NEW ms, ms \in Seq(Entry), ms # <<>>
       PROVE  Head(ms).addresses \in Seq(Addresses) /\ Tail(ms) \in Seq(Entry)
  <2> DEFINE E == Entry
  <2>1. Head(ms) \in E /\ Tail(ms) \in Seq(E)
    <3>1. ms \in Seq(E)
      BY <1>10
    <3> HIDE DEF E
    <3> QED BY <1>10, <3>1, HeadTailProperties
  <2> QED BY <2>1 DEF Entry
<1>11. ASSUME NEW fs, NEW gs, NEW ls, NEW ms, Named(fs, gs, ls, ms)
       PROVE  FALSE
  <2> DEFINE c == AddressTail(Head(ms).addresses, Tail(ms), AllEvents(Tail(gs)))
  <2>1. ms \in Seq(Entry) /\ ms # <<>> /\ events = Cons(SequenceStart, c) /\ Base(fs, gs) /\ gs # <<>>
    BY <1>11 DEF Named, Listing, InAgents
  <2>2. c \in Seq(Events)
    BY <1>3, <1>7, <1>10, <2>1
  <2> HIDE DEF c, Events
  <2> QED BY <1>0, <2>1, <2>2, ConsFacts
<1>12. ASSUME NEW fs, NEW gs, NEW ls, NEW ms, NEW ads, NEW bs, Addressed(fs, gs, ls, ms, ads, bs)
       PROVE  FALSE
  <2>1. /\ ms \in Seq(Entry) /\ ms # <<>> /\ bs \in Seq(Addresses) /\ Base(fs, gs) /\ gs # <<>>
        /\ events = AddressTail(bs, Tail(ms), AllEvents(Tail(gs)))
    BY <1>12 DEF Addressed, Listing, InAgents
  <2>2. Tail(ms) \in Seq(Entry) /\ AllEvents(Tail(gs)) \in Seq(Events)
    BY <1>3, <1>10, <2>1
  <2> QED BY <1>0, <1>7, <2>1, <2>2
<1> QED BY <1>1, <1>2, <1>4, <1>5, <1>8, <1>9, <1>11, <1>12 DEF PlaceInv

-----------------------------------------------------------------------------
(* The configuration while datagrams come.                                 *)

\* Datagrams change neither the names nor the addresses of the agents.
LEMMA CollectingKeeps ==
  ASSUME TableInv, Collecting, UNCHANGED configVars
  PROVE  /\ nodes' = nodes /\ DOMAIN agents' = DOMAIN agents /\ Len(agents') = Len(agents)
         /\ \A x \in DOMAIN agents :
              agents'[x].name = agents[x].name /\ agents'[x].address = agents[x].address
<1>1. CASE UNCHANGED agentVars
  BY <1>1 DEF agentVars
<1>2. ASSUME NEW a \in Addresses, NEW own \in Addresses, NEW n, NEW samples,
             Datagram(a, own, n, samples)
      PROVE  /\ nodes' = nodes /\ DOMAIN agents' = DOMAIN agents /\ Len(agents') = Len(agents)
             /\ \A x \in DOMAIN agents :
                  agents'[x].name = agents[x].name /\ agents'[x].address = agents[x].address
  <2>1. UNCHANGED <<nodes, hash>>
    BY <1>2 DEF Datagram
  <2>2. CASE UNCHANGED agents
    BY <2>1, <2>2
  <2>3. ASSUME NEW g \in DOMAIN agents, DOMAIN agents' = DOMAIN agents,
               agents' = [agents EXCEPT ![g] = Counted(@, n)],
               \A x \in DOMAIN agents :
                 agents'[x] = IF x = g THEN Counted(agents[g], n) ELSE agents[x]
        PROVE  /\ Len(agents') = Len(agents)
               /\ \A x \in DOMAIN agents :
                    agents'[x].name = agents[x].name /\ agents'[x].address = agents[x].address
    <3>1. AgentRecord(agents[g])
      BY DEF TableInv
    <3>2. Counted(agents[g], n).name = agents[g].name /\ Counted(agents[g], n).address = agents[g].address
      BY <3>1, CountedFields
    <3>3. Len(agents') = Len(agents)
      <4>1. Len(agents) \in Nat /\ DOMAIN agents = 1..Len(agents)
        BY ListFacts DEF TableInv
      <4>2. agents' = [i \in 1..Len(agents) |-> agents'[i]]
        BY <2>3, <4>1
      <4> QED BY <4>1, <4>2, FunctionIsList
    <3> QED BY <2>3, <3>2, <3>3
  <2> QED BY <1>2, <2>1, <2>2, <2>3, DatagramCounts
<1>3. CASE (\E t \in Types : ParseSample(t)) \/ SkipSample \/ DatagramDone \/ Flush
  BY <1>1, <1>3 DEF ParseSample, SkipSample, DatagramDone, Flush
<1> QED BY <1>2, <1>3 DEF Collecting

LEMMA ReadStays ==
  ASSUME ConfigurationIsRead, Parsed, UNCHANGED configVars, nodes' = nodes,
         DOMAIN agents' = DOMAIN agents, Len(agents') = Len(agents),
         \A x \in DOMAIN agents :
           agents'[x].name = agents[x].name /\ agents'[x].address = agents[x].address
  PROVE  ConfigurationIsRead'
<1>1. UNCHANGED <<file, daemon, config>>
  BY DEF configVars
<1>2. \A i : Arrived(i)' = Arrived(i)
  BY <1>1 DEF Arrived
<1>3. \A i : Good(i) => Arrived(i)
  BY DEF ConfigurationIsRead, Good
<1>4. ASSUME NEW i, Good(i)'
      PROVE  Arrived(i)'
  <2>1. Good(i)
    BY <1>1, <1>4, GoodStays
  <2> QED BY <1>2, <1>3, <2>1
<1>5. ASSUME \A i \in DOMAIN file : ~BehindEmptyList(i)
      PROVE  NothingElse' /\ (daemon = "stcollectd" => AgentsAre(Listed(file))')
  <2>1. NothingElse /\ (daemon = "stcollectd" => AgentsAre(Listed(file)))
    BY <1>5 DEF ConfigurationIsRead, NothingElse
  <2>2. NothingElse'
    BY <1>1, <2>1, GoodStays DEF NothingElse
  <2>3. PICK l : l = Listed(file)
    OBVIOUS
  <2>4. AgentsAre(l) => AgentsAre(l)'
    BY DEF AgentsAre
  <2>5. PICK f : f = file
    OBVIOUS
  <2>6. l = Listed(f) /\ f = file'
    BY <1>1, <2>3, <2>5
  <2> QED BY <2>1, <2>2, <2>3, <2>4, <2>6
<1>6. \A i \in DOMAIN file' : BehindEmptyList(i)' = BehindEmptyList(i)
  BY <1>1, GoodStays
<1> QED BY <1>1, <1>4, <1>5, <1>6 DEF ConfigurationIsRead, Good, NothingElse

LEMMA PlaceStays ==
  ASSUME PlaceInv, UNCHANGED <<agentVars, configVars>>
  PROVE  PlaceInv'
<1>0. /\ UNCHANGED <<file, daemon, events, section, storage, inAgentList, inAgent, isValue, isList>>
      /\ UNCHANGED <<key, agent, config, agentVars, agents, nodes>>
  BY DEF configVars, flags, agentVars
<1>1. ASSUME NEW fs, NEW gs, Base(fs, gs)
      PROVE  Base(fs, gs)'
  BY <1>0, <1>1, BaseStays
<1>2. ASSUME NEW l, AgentsAre(l)
      PROVE  AgentsAre(l)'
  BY <1>0, <1>2 DEF AgentsAre
<1>3. ASSUME NEW l, Clean(l)
      PROVE  Clean(l)'
  BY <1>0, <1>3, CleanStays
<1>4. ASSUME NEW fs, Clean(Listed(fs))
      PROVE  Clean(Listed(fs))'
  <2>1. PICK l : l = Listed(fs)
    OBVIOUS
  <2>2. Clean(l)'
    BY <1>3, <1>4, <2>1
  <2> QED BY <2>1, <2>2 DEF Clean
<1>5. ASSUME NEW fs, NEW ls, AgentsAre(Listed(fs) \o ls)
      PROVE  AgentsAre(Listed(fs) \o ls)'
  <2>1. PICK l : l = Listed(fs) \o ls
    OBVIOUS
  <2>2. AgentsAre(l)'
    BY <1>2, <1>5, <2>1
  <2> QED BY <2>1, <2>2
<1>6. CASE Lost
  <2>1. ASSUME NEW i, Good(i)'
        PROVE  /\ Arrived(i)' /\ key' # file'[i].key
               /\ \A e \in Range(events') : e.type = "scalar" => e.text # file'[i].key
    <3>1. Good(i) /\ (Arrived(i) => Arrived(i)')
      BY <1>0, <2>1, GoodStays DEF Arrived
    <3> QED BY <1>0, <1>6, <3>1 DEF Lost
  <2>2. NothingElse => NothingElse'
    BY <1>0, GoodStays DEF NothingElse
  <2>3. AgentsAre(Listed(file)) => AgentsAre(Listed(file))'
    <3>1. PICK l : l = Listed(file)
      OBVIOUS
    <3>2. PICK f : f = file
      OBVIOUS
    <3>3. l = Listed(f) /\ f = file'
      BY <1>0, <3>1, <3>2
    <3> QED BY <1>2, <3>1, <3>3
  <2>4. Lost'
    BY <1>0, <1>6, <2>1, <2>2, <2>3, GoodStays DEF Lost
  <2> QED BY <2>4 DEF PlaceInv
<1>7. ASSUME NEW fs, NEW gs, Between(fs, gs)
      PROVE  PlaceInv'
  <2>1. Between(fs, gs)'
    BY <1>0, <1>1, <1>4, <1>7 DEF Between
  <2> QED BY <2>1 DEF PlaceInv
<1>8. ASSUME NEW fs, NEW gs, InSetting(fs, gs)
      PROVE  PlaceInv'
  <2>1. InSetting(fs, gs)'
    BY <1>0, <1>1, <1>4, <1>8 DEF InSetting
  <2> QED BY <2>1 DEF PlaceInv
<1>9. ASSUME NEW fs, NEW gs, NEW s, AsKeys(fs, gs, s)
      PROVE  PlaceInv'
  <2>1. AsKeys(fs, gs, s)'
    BY <1>0, <1>1, <1>9 DEF AsKeys
  <2> QED BY <2>1 DEF PlaceInv
<1>10. ASSUME NEW fs, NEW gs, Opening(fs, gs)
       PROVE  PlaceInv'
  <2>1. Opening(fs, gs)'
    BY <1>0, <1>1, <1>4, <1>10 DEF Opening, InAgents
  <2> QED BY <2>1 DEF PlaceInv
<1>11. ASSUME NEW fs, NEW gs, NEW ls, NEW ms, Listing(fs, gs, ls, ms)
       PROVE  Listing(fs, gs, ls, ms)'
  BY <1>0, <1>1, <1>11 DEF Listing, InAgents
<1>12. ASSUME NEW fs, NEW gs, NEW ls, NEW ms, Entries(fs, gs, ls, ms)
       PROVE  PlaceInv'
  <2>1. Entries(fs, gs, ls, ms)'
    BY <1>0, <1>5, <1>11, <1>12 DEF Entries
  <2> QED BY <2>1 DEF PlaceInv
<1>13. ASSUME NEW fs, NEW gs, NEW ls, NEW ms, Named(fs, gs, ls, ms)
       PROVE  PlaceInv'
  <2>1. Named(fs, gs, ls, ms)'
    BY <1>0, <1>5, <1>11, <1>13 DEF Named
  <2> QED BY <2>1 DEF PlaceInv
<1>14. ASSUME NEW fs, NEW gs, NEW ls, NEW ms, NEW ads, NEW bs, Addressed(fs, gs, ls, ms, ads, bs)
       PROVE  PlaceInv'
  <2>1. PICK l : l = Append(Listed(fs) \o ls, [name |-> Head(ms).name, addresses |-> ads])
    OBVIOUS
  <2>2. AgentsAre(l) => AgentsAre(l)'
    BY <1>2
  <2>3. AgentsAre(Append(Listed(fs) \o ls, [name |-> Head(ms).name, addresses |-> ads])) =>
          AgentsAre(Append(Listed(fs) \o ls, [name |-> Head(ms).name, addresses |-> ads]))'
    BY <2>1, <2>2
  <2>4. Addressed(fs, gs, ls, ms, ads, bs)'
    BY <1>0, <1>5, <1>11, <1>14, <2>3 DEF Addressed
  <2> QED BY <2>4 DEF PlaceInv
<1> QED BY <1>6, <1>7, <1>8, <1>9, <1>10, <1>12, <1>13, <1>14 DEF PlaceInv

\* The parser keeps its place, and what it has read is not touched any more.
ReadingInv == PlaceInv \/ (Parsed /\ ConfigurationIsRead)

LEMMA InitReading == Init => ReadingInv
BY InitPlace DEF ReadingInv

LEMMA StepReading ==
  ASSUME FlagsInv, TableInv, ReadingInv, [Next]_vars
  PROVE  ReadingInv'
<1>1. CASE ParseEvent
  <2>1. ~Parsed
    BY <1>1, ParsesNext DEF Parsed
  <2> QED BY <1>1, <2>1, StepPlace DEF ReadingInv
<1>2. ASSUME Parsed
      PROVE  ConfigurationIsRead
  BY <1>2, PlaceParsed DEF ReadingInv
<1>3. CASE Parsed /\ Collecting /\ UNCHANGED configVars
  <2>1. Parsed'
    BY <1>3 DEF Parsed, configVars
  <2>2. ConfigurationIsRead'
    BY <1>2, <1>3, CollectingKeeps, ReadStays
  <2> QED BY <2>1, <2>2 DEF ReadingInv
<1>4. CASE UNCHANGED vars
  <2>1. UNCHANGED <<agentVars, configVars>> /\ nodes' = nodes /\ agents' = agents
    BY <1>4 DEF vars, agentVars
  <2>2. CASE Parsed
    <3>1. Parsed'
      BY <2>1, <2>2 DEF Parsed, configVars
    <3>2. ConfigurationIsRead'
      BY <1>2, <2>1, <2>2, ReadStays
    <3> QED BY <3>1, <3>2 DEF ReadingInv
  <2>3. CASE ~Parsed
    BY <2>1, <2>3, PlaceStays DEF ReadingInv
  <2> QED BY <2>2, <2>3
<1> QED BY <1>1, <1>3, <1>4 DEF Next

\* Whatever the file is and in whatever order its sections come, each setting that
\* is not misread arrives in the section it stands in, nothing else is set, and
\* stcollectd has the listed agents with all their addresses in its table, from the
\* last event of the file on (parse_event, add_agent, add_address).
THEOREM ReceptionConfiguration == Spec => []ConfigurationIsRead
<1>1. FlagsInv /\ ReadingInv => ConfigurationIsRead
  BY PlaceParsed DEF ReadingInv, ConfigurationIsRead
<1> QED BY <1>1, InitTable, StepTable, InitFlags, StepFlags, InitReading, StepReading, PTL DEF Spec
=============================================================================
