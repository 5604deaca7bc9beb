------------------------------- MODULE AgentList -------------------------------
(***************************************************************************)
(* The agents stcollectd accepts datagrams from, and the hash table that   *)
(* leads from an address to its agent (agentlist.c).  The elements of the  *)
(* table are chained as the code chains them.                              *)
(***************************************************************************)
EXTENDS Naturals, Sequences

CONSTANTS Addresses,   \* IPv4 addresses, as numbers
          Texts,       \* names, and the other texts of a configuration
          HashSize     \* HASH_SIZE

ASSUME AgentListAssumption ==
  /\ Addresses \subseteq Nat
  /\ HashSize \in Nat \ {0}

VARIABLES
  agents,   \* the agents in the order of their allocation
  nodes,    \* the elements of the table in the order of their allocation
  hash      \* for each bucket the number of the node it points to, or 0

agentVars == <<agents, nodes, hash>>

BucketOf(a) == a % HashSize
Buckets == 0..HashSize - 1

AgentsInit ==
  /\ agents = <<>>
  /\ nodes = <<>>
  /\ hash = [k \in Buckets |-> 0]

\* The number of the agent, or 0.  The walk behind the first node is guarded
\* by result != NULL, which is false when it starts.
Search(a) ==
  LET head == hash[BucketOf(a)]
  IN IF head # 0 /\ nodes[head].address = a THEN nodes[head].agent ELSE 0

\* The address is left as memset made it.
BugAddAgent(n, a) ==
  agents' = Append(agents, [name |-> n, address |-> 0,
                            sequence |-> 0, datagrams |-> 0, drops |-> 0])

AddAgent(n, a) ==
  agents' = Append(agents, [name |-> n, address |-> a,
                            sequence |-> 0, datagrams |-> 0, drops |-> 0])

\* The new node is linked behind the old one, and the bucket keeps the old one.
BugAddAddress(a, g) ==
  LET head == hash[BucketOf(a)]
      new  == Len(nodes) + 1
      link(i) == [nodes[i] EXCEPT !.next = IF i = head THEN new ELSE @]
  IN /\ nodes' = Append([i \in DOMAIN nodes |-> link(i)],
                        [address |-> a, agent |-> g, next |-> 0])
     /\ hash' = IF head = 0 THEN [hash EXCEPT ![BucketOf(a)] = new] ELSE hash

\* The old first node is made to point to the new one, which takes its place.
AddAddress(a, g) ==
  LET head == hash[BucketOf(a)]
      new  == Len(nodes) + 1
      link(i) == [nodes[i] EXCEPT !.next = IF i = head THEN new ELSE @]
  IN /\ nodes' = Append([i \in DOMAIN nodes |-> link(i)],
                        [address |-> a, agent |-> g, next |-> 0])
     /\ hash' = [hash EXCEPT ![BucketOf(a)] = new]

-----------------------------------------------------------------------------

Agent == [name : Texts, address : Addresses, sequence : Nat, datagrams : Nat, drops : Nat]
Node(k) == [address : Addresses, agent : 1..k, next : Nat]

AgentsTypeOK ==
  /\ agents \in Seq(Agent)
  /\ nodes \in Seq(Node(Len(agents)))
  /\ hash \in [Buckets -> 0..Len(nodes)]

\* What was configured last for an address is found, unless a later address
\* went to the same bucket; nothing is ever found under a wrong address.
LookupCorrect ==
  \A a \in Addresses :
    /\ Search(a) # 0 =>
         \E i \in DOMAIN nodes : nodes[i].address = a /\ nodes[i].agent = Search(a)
    /\ \A i \in DOMAIN nodes :
         /\ nodes[i].address = a
         /\ \A j \in i + 1..Len(nodes) : BucketOf(nodes[j].address) # BucketOf(a)
         => Search(a) = nodes[i].agent

\* agentlist.c:17-18: "If this hash lookup has elements and the first one does
\* not match, try to find the correct agent by doing a linear search".
ConfiguredIsFound ==
  \A i \in DOMAIN nodes : Search(nodes[i].address) # 0
=============================================================================
