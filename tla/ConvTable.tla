------------------------------- MODULE ConvTable -------------------------------
(***************************************************************************)
(* The conversations of a batch of flow samples (dataparser.c): a hash     *)
(* table of lists for each layer, in which every sample is added to the    *)
(* conversation it belongs to on each of its layers.                       *)
(*                                                                         *)
(* A sampled frame is what the parser takes from its header: its ether     *)
(* types from the outside in, the numbers that make its keys, and its      *)
(* length.                                                                 *)
(***************************************************************************)
EXTENDS Naturals, Sequences, SequencesExt

CONSTANTS Frames,      \* the sampled frames considered
          HashRange,   \* HASH_RANGE
          Tails,       \* what the four bytes behind an IP key may hold
          Word         \* 2^32, for the counters of a conversation

ASSUME ConvTableAssumption ==
  /\ HashRange \in Nat \ {0}
  /\ Word \in Nat \ {0}
  /\ Tails \subseteq Nat /\ Tails # {}
  /\ Frames \subseteq [types : Seq(STRING), protocol : STRING, length : Nat, interfaces : Seq(Nat),
                       macs : Seq(Nat), addresses : Seq(Nat), ports : Seq(Nat)]

VARIABLE conv   \* hash_ethernet, hash_ip, hash_tcp and hash_udp

Layers == {"ethernet", "ip", "tcp", "udp"}
HashBuckets == 0..HashRange - 1

EmptyTables == [l \in Layers |-> [k \in HashBuckets |-> <<>>]]

\* is_ip: an IP packet, behind at most one VLAN tag.
IsIp(f) == f.types[1] = "ip" \/ (f.types[1] = "vlan" /\ f.types[2] = "ip")

\* process_sample_flow: the layers a sample has a conversation on.
LayersOf(f) ==
  {"ethernet"} \cup (IF IsIp(f) THEN {"ip"} \cup ({f.protocol} \cap {"tcp", "udp"}) ELSE {})

\* get_key_*: interfaces and addresses, and the ports of TCP and UDP.
KeyOf(l, f) ==
  CASE l = "ethernet" -> f.interfaces \o f.macs
    [] l = "ip"       -> f.interfaces \o f.addresses
    [] OTHER          -> f.interfaces \o f.addresses \o f.ports

HashOf(key) == SumFunction([i \in DOMAIN key |-> key[i] % HashRange]) % HashRange

Counted(c, f) == [c EXCEPT !.frames = (@ + 1) % Word, !.bytes = (@ + f.length) % Word]

\* The list begins with the new node, which leads nowhere.
BugAddTo(list, key, tail, f) ==
  LET found == {i \in DOMAIN list : list[i].key = key /\ list[i].tail = tail}
  IN IF found = {}
     THEN <<Counted([key |-> key, tail |-> tail, frames |-> 0, bytes |-> 0], f)>>
     ELSE [list EXCEPT ![CHOOSE i \in found : TRUE] = Counted(@, f)]

\* conv_list_add on one list: a new node goes to the front.  The comparison takes
\* in all bytes of the union of the keys, that is four more than an IP key has.
AddTo(list, key, tail, f) ==
  LET found == {i \in DOMAIN list : list[i].key = key /\ list[i].tail = tail}
  IN IF found = {}
     THEN <<Counted([key |-> key, tail |-> tail, frames |-> 0, bytes |-> 0], f)>> \o list
     ELSE [list EXCEPT ![CHOOSE i \in found : TRUE] = Counted(@, f)]

\* process_sample_flow, with t on the stack behind the IP key.
ProcessSample(f, t) ==
  conv' = [l \in Layers |->
             IF l \in LayersOf(f)
             THEN [conv[l] EXCEPT ![HashOf(KeyOf(l, f))] =
                     AddTo(@, KeyOf(l, f), IF l = "ip" THEN t ELSE 0, f)]
             ELSE conv[l]]

\* memset of the four tables.
ClearTables == conv' = EmptyTables

\* The conversations of a layer in the order the storage modules meet them.
Conversations(l) == FlattenSeq([k \in 1..HashRange |-> conv[l][k - 1]])

-----------------------------------------------------------------------------

ConvTypeOK ==
  conv \in [Layers -> [HashBuckets ->
              Seq([key : Seq(Nat), tail : Nat, frames : 0..Word - 1, bytes : 0..Word - 1])]]
=============================================================================
