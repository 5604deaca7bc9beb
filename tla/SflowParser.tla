------------------------------ MODULE SflowParser ------------------------------
(***************************************************************************)
(* parseDatagram of sflowparser.c, which the collector thread calls for    *)
(* each datagram: it looks the agent up, counts what the agent sent, and   *)
(* puts one sample after the other into the buffer of its type.  The       *)
(* buffers are used again without being cleared.                           *)
(*                                                                         *)
(* A datagram is a row of items, each with a tag and a length that leads   *)
(* to the next one: a sample's item is followed by those of its records.   *)
(* A flow sample's raw header, if any, is its first record, and no record  *)
(* behind the first has the tag of a kind of sample.  A sample of another  *)
(* kind is one item, because its length leads over its records as well.    *)
(***************************************************************************)
EXTENDS AgentList, SequencesExt

CONSTANTS Payloads,        \* the sequences of samples a datagram may carry
          Loopback,        \* 127.0.0.1
          BufferSize,      \* stcollectd_config.buffer_size
          Modulus,         \* 2^32, the number of sequence numbers
          MaxDatagrams     \* bound on the datagrams received

Types == {"flow", "cntr"}

\* The records that are read, by the type of their sample.
Parts == [flow |-> {"header"}, cntr |-> {"generic", "ethernet"}]

Sample == [tag : STRING, records : Seq(STRING)]

ASSUME ParserAssumption ==
  /\ Payloads \subseteq Seq(Sample)
  /\ \A samples \in Payloads : \A i \in DOMAIN samples :
       /\ samples[i].tag = "flow" => samples[i].records # <<>>
       /\ samples[i].tag \notin Types => samples[i].records = <<>>
       /\ Range(samples[i].records) \cap Types = {}
  /\ BufferSize \in Nat
  /\ Modulus \in Nat \ {0}
  /\ MaxDatagrams \in Nat

VARIABLES
  collector,   \* "recv", in parseDatagram, or "crashed"
  rest,        \* the items of the datagram from the cursor on
  left,        \* the samples still to be read
  source,      \* s_template.agent_address
  count,       \* for each type, the samples in the buffer the collector fills
  slots,       \* for each type, the places for samples in that buffer
  arrived,     \* how many datagrams were received
  taken,       \* how many samples they carried
  expected,    \* for each type, the samples of the datagrams since the last flush
  plain,       \* whether all of these have just the records that are read
  strangers,   \* whether a datagram came from an address that is not configured
  uncounted,   \* the part of the way of each agent's sequence numbers that starts
               \* at 0, which stands for no datagram as well: it adds no drops
  late         \* how often a smaller sequence number followed a larger one

parserVars ==
  <<collector, rest, left, source, count, slots, arrived, taken, expected, plain, strangers, uncounted, late>>

EmptySlot(t) == [id |-> 0, address |-> 0, data |-> [p \in Parts[t] |-> 0]]

\* malloc and memset of bqueue_push_new.
ZeroedSlots == [t \in Types |-> [i \in 1..BufferSize |-> EmptySlot(t)]]

ParserInit ==
  /\ collector = "recv"
  /\ rest = <<>>
  /\ left = 0
  /\ source = 0
  /\ count = [t \in Types |-> 0]
  /\ slots = ZeroedSlots
  /\ arrived = 0
  /\ taken = 0
  /\ expected = [t \in Types |-> <<>>]
  /\ plain = TRUE
  /\ strangers = FALSE
  /\ uncounted = <<>>
  /\ late = <<>>

ItemsOf(s, n) ==
  <<[tag |-> s.tag, id |-> n, num |-> Len(s.records)]>>
    \o [i \in 1..Len(s.records) |-> [tag |-> s.records[i], id |-> n, num |-> 0]]

\* The items of the samples that follow sample number n.
Items(samples, n) == FlattenSeq([i \in 1..Len(samples) |-> ItemsOf(samples[i], n + i)])

\* The sample of type t as the datagram says it is.
Meant(t, s, n, a) ==
  [id |-> n, address |-> a,
   data |-> [p \in Parts[t] |-> IF p \in Range(s.records) THEN n ELSE 0]]

MeantOf(t, samples, n, a) ==
  FlattenSeq([i \in 1..Len(samples) |->
                IF samples[i].tag = t THEN <<Meant(t, samples[i], n + i, a)>> ELSE <<>>])

\* What the parser has room for: one record of a flow sample, a raw header, and
\* the two kinds of counters, which overwrite those of the slot's last sample.
Plain(s) ==
  CASE s.tag = "flow" -> s.records = <<"header">>
    [] s.tag = "cntr" -> {"generic", "ethernet"} \subseteq Range(s.records)
    [] OTHER -> TRUE

Distance(from, to) == (to + Modulus - from) % Modulus

\* Signed, and so nothing for a late one.
BugCounted(g, n) ==
  [g EXCEPT !.datagrams = @ + 1,
            !.drops = @ + (IF g.sequence # 0 /\ n > g.sequence THEN n - g.sequence ELSE 0),
            !.sequence = n]

\* The agent's counters after datagram number n.
Counted(g, n) ==
  [g EXCEPT !.datagrams = @ + 1,
            !.drops = @ + (IF g.sequence # 0 THEN Distance(g.sequence, n) ELSE 0),
            !.sequence = n]

\* The address of the sender of the datagram is taken for the agent's.
BugAttributed(g, a) == a

\* The address by which samples are stored: the agent's primary one.
Attributed(g, a) == agents[g].address

\* Entry g of a table of sums, raised by n.
Raised(sums, g, n) ==
  [x \in DOMAIN sums \cup {g} |->
     (IF x \in DOMAIN sums THEN sums[x] ELSE 0) + (IF x = g THEN n ELSE 0)]

\* A datagram from an agent that knows itself as a, or as 127.0.0.1.  The agent
\* that was not found is dereferenced before it is compared with NULL.
Datagram(a, own, n, samples) ==
  LET sender == IF own = Loopback THEN a ELSE own
      g == Search(sender)
  IN /\ collector = "recv"
     /\ arrived < MaxDatagrams
     /\ own \in {a, Loopback}
     /\ arrived' = arrived + 1
     /\ \A t \in Types : count[t] + Len(samples) <= BufferSize
     /\ IF g = 0
        THEN /\ collector' = "crashed"
             /\ UNCHANGED <<agents, rest, left, source, taken, expected, plain, uncounted, late>>
        ELSE /\ collector' = "parse"
             /\ agents' = [agents EXCEPT ![g] = Counted(@, n)]
             /\ source' = Attributed(g, a)
             /\ rest' = Items(samples, taken)
             /\ left' = Len(samples)
             /\ taken' = taken + Len(samples)
             /\ expected' = [t \in Types |-> expected[t] \o MeantOf(t, samples, taken, agents[g].address)]
             /\ plain' = (plain /\ \A i \in DOMAIN samples : Plain(samples[i]))
             /\ uncounted' = Raised(uncounted, g, IF agents[g].sequence = 0 THEN n ELSE 0)
             /\ late' = Raised(late, g, IF n < agents[g].sequence THEN 1 ELSE 0)
     /\ strangers' = (strangers \/ \A i \in DOMAIN nodes : nodes[i].address # sender)
     /\ UNCHANGED <<nodes, hash, count, slots>>

\* parseFlowSample reads one record, whatever num_elements says.
RecordsRead == [flow |-> 1, cntr |-> Head(rest).num]

\* parseFlowRecordHeader and parseCounterRecordHeader on each of the records: a
\* slot keeps what no record overwrites.
Overwritten(data, records) ==
  [p \in DOMAIN data |-> IF \E i \in DOMAIN records : records[i].tag = p
                   THEN Head(rest).id ELSE data[p]]

\* parseSample on a sample of type t.
ParseSample(t) ==
  LET item == Head(rest)
      n    == count[t] + 1
      data == Overwritten(slots[t][n].data, SubSeq(rest, 2, RecordsRead[t] + 1))
  IN /\ collector = "parse"
     /\ left > 0
     /\ item.tag = t
     /\ slots' = [slots EXCEPT ![t][n] = [id |-> item.id, address |-> source, data |-> data]]
     /\ count' = [count EXCEPT ![t] = n]
     /\ rest' = SubSeq(rest, RecordsRead[t] + 2, Len(rest))
     /\ left' = left - 1
     /\ UNCHANGED <<agentVars, collector, source, arrived, taken, expected, plain, strangers, uncounted, late>>

\* An item that is no known sample is skipped, and counted as one of the samples.
SkipSample ==
  /\ collector = "parse"
  /\ left > 0
  /\ Head(rest).tag \notin Types
  /\ rest' = Tail(rest)
  /\ left' = left - 1
  /\ UNCHANGED <<agentVars, collector, source, count, slots, arrived, taken, expected, plain,
                 strangers, uncounted, late>>

DatagramDone ==
  /\ collector = "parse"
  /\ left = 0
  /\ collector' = "recv"
  /\ rest' = <<>>
  /\ UNCHANGED <<agentVars, left, source, count, slots, arrived, taken, expected, plain,
                 strangers, uncounted, late>>

\* flushLists, and what the writer thread then does with the samples: it looks
\* the agent of each up once more, by its primary address and without a test.
\* The next buffers are zeroed ones, or ones that were used before and of which
\* only the count was reset.
Flush ==
  /\ collector = "recv"
  /\ count # [t \in Types |-> 0]
  /\ collector' =
       IF \E t \in Types : \E i \in 1..count[t] : Search(slots[t][i].address) = 0
       THEN "crashed" ELSE "recv"
  /\ count' = [t \in Types |-> 0]
  /\ slots' \in {slots, ZeroedSlots}
  /\ expected' = [t \in Types |-> <<>>]
  /\ plain' = TRUE
  /\ UNCHANGED <<agentVars, rest, left, source, arrived, taken, strangers, uncounted, late>>

Collecting ==
  \/ \E a \in Addresses, own \in Addresses, n \in 0..Modulus - 1, samples \in Payloads :
       Datagram(a, own, n, samples)
  \/ \E t \in Types : ParseSample(t)
  \/ SkipSample
  \/ DatagramDone
  \/ Flush

-----------------------------------------------------------------------------

Item == [tag : STRING, id : Nat, num : Nat]
Slot(t) == [id : Nat, address : Addresses \cup {0}, data : [Parts[t] -> Nat]]

ParserTypeOK ==
  /\ collector \in {"recv", "parse", "crashed"}
  /\ rest \in Seq(Item)
  /\ left \in 0..Len(rest)
  /\ source \in Addresses \cup {0}
  /\ count \in [Types -> 0..BufferSize]
  /\ arrived \in 0..MaxDatagrams
  /\ taken \in Nat
  /\ DOMAIN slots = Types /\ \A t \in Types : slots[t] \in [1..BufferSize -> Slot(t)]
  /\ DOMAIN expected = Types /\ \A t \in Types : expected[t] \in Seq(Slot(t))
  /\ plain \in BOOLEAN /\ strangers \in BOOLEAN
  /\ DOMAIN uncounted = DOMAIN late

Buffered(t) == [i \in 1..count[t] |-> slots[t][i]]

\* The samples of all datagrams since the last flush are in the buffers, in
\* order, under the primary address of their agent and with their own records,
\* nothing of the samples that were in the buffer before; of samples with other
\* records than the parser reads none is invented, repeated or misattributed.
SamplesAreRead ==
  /\ \A t \in Types : \A i \in 1..count[t] :
       \E j \in DOMAIN expected[t] :
         /\ expected[t][j].id = slots[t][i].id
         /\ expected[t][j].address = slots[t][i].address
         /\ i < count[t] => slots[t][i].id < slots[t][i + 1].id
  /\ collector = "recv" /\ plain => \A t \in Types : Buffered(t) = expected[t]

\* The drops of an agent are the way its sequence number has come, less what
\* starts at 0, and with a whole turn for each datagram that came late: a lost
\* datagram counts once, but so does each one that was not lost.
DropsAreDistance ==
  \A g \in DOMAIN late :
    agents[g].drops + uncounted[g] = agents[g].sequence + Modulus * late[g]

\* If no two addresses share a bucket and only configured agents send, stcollectd
\* never uses an agent it has not found: neither the collector thread with the
\* agent's own address nor the writer thread with the primary one.
ConfiguredAgentsAreSafe ==
  /\ ~strangers
  /\ \A i, j \in DOMAIN nodes : i # j => BucketOf(nodes[i].address) # BucketOf(nodes[j].address)
  => collector # "crashed"
=============================================================================
