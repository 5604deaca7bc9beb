# sflow-toolkit in TLA+

sflow-toolkit collects sFlow datagrams from network devices. `stcollectd`
receives them and leaves the samples as files in `/dev/shm`; `stprocessd` is told
of each finished file through a POSIX message queue, turns it into
conversations and counters and stores them. This directory holds a model of that
path from the configuration file and the datagram to the database tables, the configurations
with which TLC checks it, and proofs for TLAPS. Source paths below are relative to the
repository's `src/` directory of C files.

```
  socket -> collector thread --flush queues--> writer thread -> /dev/shm files
                ^                                   |                 |
                +-----------free queues-------------+       message queue, files
                                                                      v
        signals -> handle_signal, hook_exit                      stprocessd -> tables
```

## 1. Inventory

| Component | State | Operations | Interaction |
|---|---|---|---|
| buffer queue (`bufferqueue.c`) | doubly linked list with count, mutex, condition variable | init, push, push_new, pop (timed, grows and shrinks), pop_wait, free | shared by two threads each; four of them in `stcollectd` |
| collector thread (`stcollectd.c`: `collect`, `flushLists`) | current flow and counter buffer, flush time, exit flag | receive and parse a datagram, flush both buffers | pushes to flush queues, pops from free queues |
| writer thread (`writeBufferToDisk`) | its two buffers | take both, write all samples, clear, give back | pops from flush queues, pushes to free queues, calls the sample store |
| shutdown (`handle_signal`, `hook_exit`, `freeMemory`) | exit flags, joins | signal on any thread, joins, polling of the flush queues, exit | interrupts any of the three threads |
| sample store (`samplestore.c`) | one open file per agent and type, its minute | add a sample, change of the minute | `/dev/shm`, message queue |
| messaging (`messaging.c`) | the bounded queue | send with a deadline that is past, blocking receive | between the daemons |
| stprocessd (`stprocessd.c`, `dataparser.c`) | the message, the conversation tables and the list of counters in memory | receive, read and unlink the file, aggregate, store | files, storage modules |
| storage (`storage.c`, `storage_mysql.c`, `storage_csv.c`, `storage_rrd.c`) | temporary files, daily tables; last counters (csv) | store a table of conversations or counters, add and drop daily tables | MySQL; files |
| agent list (`agentlist.c`) | hash table of agents with chains | add an agent, add an address, search | filled by the configuration parser, searched by both threads of `stcollectd` |
| sFlow parser (`sflowparser.c`) | cursor in the datagram; sequence number and drops per agent; the buffers' slots | parse datagram, sample, record | collector thread, agent list |
| configuration parser (`configparser.c`) | flags of the current section and list | YAML events | start of both daemons |
| statistics, logger, utilities | counters, log level | write | none that others depend on |
| scripts | none | read-only queries, clean-up, start | database, files |

What is hard in it:

* **Interleaving.** Buffers change hands by pointer while the former owner still
  has the pointer in a global variable; `pthread_cond_signal` is called after the
  unlock; the flow and the counter queue are always handled one after the other.
* **Signals.** A handler runs on any thread, in the middle of anything, and joins threads.
* **Bounds.** The free queue grows and shrinks inside `bqueue_pop`; the fill of a
  buffer is tested between datagrams only; the message queue drops when it is full.
* **Crashes.** Files and queue outlive both daemons; files are opened without
  `O_TRUNC`; `stprocessd` removes its input before it stores it, table by table.
* **Time.** The minute of the samples changes the file, the timestamp of a batch is
  computed from the next batch, the flush interval is only looked at with traffic.
* **Stale data.** Chains of the agent hash table that are cut off, flags of the
  configuration parser that stay set, slots of a buffer that are used again
  uncleared, the last counters of an interface, the table a backlog goes to.

What makes each part correct: the list of a queue stays one list and loses no
buffer or wake-up; a buffer has one owner; no sample is lost, repeated or
overtaken inside `stcollectd`; the two threads never wait for each other for ever;
an announced file is complete and final; batches of an agent have different
timestamps; no row is missing or double in a table; the table that is stored
into exists and no recent one was dropped; a sample bears its agent's name and what its own records said; a
setting reaches the daemon it is written for; a shutdown ends.
`PROJECT.json` lists every hazard at its line with the properties that address it.

## 2. Modules

| Module | Models | How its actions correspond to the code |
|---|---|---|
| `AgentList` | `agentlist.c` | operators for one call each: an agent or an address is added, an address is searched; the nodes are chained as the code chains them |
| `ConfigParser` | `parse_event`, `parse_config`, `ip_to_num` | `ParseEvent` is one YAML event, with all the flags it reads and sets |
| `SflowParser` | `parseDatagram`, `parseSample` and the records, the writer's use of the agent | `Datagram` up to its first sample, `ParseSample` and `SkipSample` one sample, `Flush` the change of buffers and the writer's lookups |
| `Reception` | `main` of `stcollectd` up to the buffers | the configuration is read, then datagrams are parsed with the agents it left |
| `BufferPool` | what a `bqueue_t` promises | a first-in first-out pool: `Put`, `Take`, and for free queues `TakeAndGrow`, `TakeAndShrink` |
| `BufferQueue` | `bufferqueue.c` | the list with its pointers; one action per critical section, `Signal` its own action; `Wait`, `TimeOut`, `SpuriousWakeup`, `WaitAgain` the wait loop |
| `Collector` | `collect`, `flushLists`, `writeBufferToDisk`, `allocateMemory` | both threads with a program counter; the four queues are pools; a sample is its number |
| `Shutdown` | `handle_signal`, `hook_exit`, `freeMemory`, end of `main` | a stack of program counters per thread, so that a handler runs on top of what its thread did |
| `SampleStore` | `addSampleToFile`, `send_msg`, `recv_msg`, restarts of `stcollectd` | one action per call; files and queue persist |
| `Processor` | `stprocessd`'s loop, `process_file_*`, the order of the stores, the temporary files of `storage_mysql.c` | one action per file or database operation; `Crash` between any two; runs beside the collector of `SampleStore` |
| `ConvTable` | the conversation tables of `dataparser.c` | an operator that adds one frame to the tables of the layers it reaches, over hash buckets |
| `MysqlTables` | daily tables of `storage_mysql.c` | an operator for `CREATE TABLE` and `DROP TABLE` by the current interval, and for rows that go to the current day |
| `CsvStore` | `storage_csv.c` | an operator for one counter sample: rate against the last counters, file of the current minutes |
| `Storage` | a batch through both storage modules | one action per sample read, per table made, dropped or stored, per statement; `Crash` and restart between any two, time that passes |
| `MCReception`, `MCStorage` | the files, payloads, frames and settings for TLC | |
| `BufferPoolProofs`, `BufferQueueProofs`, `CollectorProofs`, `ReceptionProofs`, `StorageProofs`, `ProcessorProofs`, `ShutdownProofs`, `SeqLemmas` | proofs | |

Composition.

* `Reception` extends `ConfigParser` and `SflowParser`, which share the agents of
  `AgentList`: one fills the table, the other searches it.
* `BufferQueue` implements `BufferPool` (`PoolSpec`), and `Collector` uses its
  four queues exactly as the pool allows (`FreePoolSpec`, `FlushPoolSpec`), so that
  the list and its locks are checked once and the threads' protocol above it.
* `Shutdown` counts the buffers in pairs, which `FlushInLockstep` of `Collector`
  justifies.
* `Processor` extends `SampleStore` and is proved to implement it
  (`ProcessorImplementsStore`), which is why the properties of `SampleStore` are checked in the runs of
  `Processor`.
* `Storage` extends `ConvTable`, `MysqlTables` and `CsvStore`. It takes up what
  `Processor` abstracts, the contents of a batch and the tables by day, and leaves to
  `Processor` what that checks, the files, messages and temporary files.

Operators whose name begins with `Bug` are faulty variants of the definition
after them. Nothing uses them; put in its place, each makes the property named
beside it in `PROJECT.json` fail, which shows that the property depends on the code.

Abstractions:

* `AgentList`: an address is a number and its bucket the remainder by `HashSize`;
  the code keeps the low 24 bits whatever `hash bits` says.
* `ConfigParser`: a file is a well-formed row of sections, settings and agents. The
  events of mappings, which change nothing, are left out; that is why nothing marks the
  end of a section but the item `outer` where a nested one does. The sections of the storage modules
  stand within that of `stprocessd`, the others side by side (`WellNested`). The code knows a
  section by its name alone, wherever that stands, and `stprocessd` takes the names of agents
  for keys: no key is called like a section and no agent like either. A part of an address
  that `ip_to_num` leaves uninitialized is an arbitrary one. A setting is the number that stands behind its key.
* `SflowParser`: a datagram is a row of items that each know their length, as the
  code walks it. A raw header, if any, is the first record of its flow sample,
  and addresses of agents are IPv4. What the code skips or leaves in a slot is
  modelled, the fields of a record are one value that says which sample it is from. The
  drops are a 64-bit sum that is not wrapped; sequence numbers wrap at `Modulus`.
* `BufferQueue`: `malloc` succeeds during `bqueue_init`; one producer and one
  consumer, as every queue of `stcollectd` has. The two links of a buffer are not
  cleared between its uses, as in the code. The deadline of `bqueue_pop` is one second after the epoch, so its
  wait may end at any time.
* `Collector`: a datagram is a pair of numbers of samples. The limit
  `MAX_DATAGRAM_SAMPLES` on them, which the code does not test, and
  `buffer_size >= MAX_DATAGRAM_SAMPLES`, without which the unsigned threshold
  wraps around, are assumptions.
* `Shutdown`: starts with all threads running; a handler interrupts its thread
  between operations on queues, not inside one; a second `pthread_join` of a
  thread, undefined in POSIX, fails or waits.
* `SampleStore`: `time` does not go back between samples; the repeated hour of a
  change from daylight saving time, in which file names repeat, is left out;
  `shm_open` and `write` succeed. The tail of a batch that stays in an open file
  counts as stored in that file.
* `Processor`: each flow sample is a conversation of its own; rows in the temporary file have equal
  lengths; mysql is the only storage module; `stprocessd` starts after the queue
  was made. The loop that reads a file is one action: `AnnouncedIsFinal` says that
  nobody changes the file meanwhile.
* `ConvTable`: a frame gives the types of its layers and the keys on each. The
  key of an IP conversation is compared with four bytes too many, which lie on
  the stack: `Tails` are the values they may have. Sums are taken modulo `Word`.
* `Storage`: both modules are loaded, csv at the front of the list, as `main`
  registers them. Rows are loaded in one step and time passes only between batches. The time within a
  row of counters is left out. Intervals that do not divide a day are allowed
  (the properties that assume otherwise say so).

## 3. Runs

| Run | Configuration | Question |
|---|---|---|
| `reception` | 5 addresses in 2 buckets, 17 files read by both daemons, 3 datagrams, sequence numbers modulo 3 | do settings and agents arrive as they are written, is a sample whole and under its agent's name, what do the drops count, when does a datagram end the daemon? |
| `agent_found` | the same, 1 datagram | *violated*: a configured address is found |
| `queue_free` | 4 buffers, 2 configured, elastic | list, wake-ups and refinement of a free queue with growing and shrinking |
| `queue_flush` | 4 buffers, starts empty | a pop of a flush queue returns when there is a buffer |
| `queue_allocates` | 2 buffers, 1 configured | *violated*: a pop does not allocate when the queue stays empty |
| `collector` | 4 buffers, 1 configured per type, size 2, at most 2 samples per datagram, 3 samples per type | ownership, overflow, way of the samples, lockstep, pools; every flush returns and is written |
| `collector_interval` | 4 buffers, one sample | *violated*: a sample waits without bound when traffic stops |
| `processor` | 1 agent, 2 types, queue of 1, 3 minutes, 3 samples, 1 restart of `stcollectd`, 1 end of `stprocessd`, 1 refused batch | announced files complete and final, none forgotten, timestamps separate; nothing lost or doubled before a failure, layers nested, announced stored |
| `processor_once` | 1 type, 4 samples, 1 end of `stprocessd` | *violated*: rows of a left temporary file are loaded again |
| `storage` | 3 settings of the partitions, days of 2 minutes, 4 minutes, 2 batches, 1 end of `stprocessd` | does the table stored into exist, are recent batches stored right and in their day, do the csv rates follow the counters? |
| `shutdown` | 1 pair configured of 3, 2 signals | what is left at exit, end of the collector |
| `shutdown_clean` | the same, 1 signal | *violated*: the process does not exit |

The bounds.

* `reception`: addresses 2 and 4 share a bucket, 1, 3 and 5 share one, and 5 is the loopback
  and never configured, so a search meets an empty bucket, a hit, a cut-off
  chain and a stranger. The files have the sections in both orders, storage sections with and
  without one another, settings before and behind the nested parts, secondary addresses, several agents,
  and one empty list of agents. Three numbers with 0 among them let a
  sequence number stay, advance, skip, wrap and come late within three datagrams.
  Three slots per buffer are filled by two datagrams and used again after a flush.
* `queue_*`: four buffers with two configured let a queue be empty, have one
  buffer (both ends the same), grow, shrink back to its minimum and hold buffers in
  every order.
* `collector`: with one buffer configured per type every flush has to wait for the
  writer, which is the critical case for waiting, and the two further buffers let
  both free queues grow and shrink. Size 2 with two samples per datagram has
  threshold 0, so a flush follows every datagram, also an empty one, and a buffer may be
  filled to its last place. Three samples need at least two flushes. The proofs
  cover the thresholds this instance leaves out.
* `processor`: three minutes give two announced files and an open one, a queue of
  one message is full with the first of them, three samples give files of
  different lengths, a batch with two conversations, and two batches in a row.
* `storage`: a day of two minutes and an epoch in its third day give every setting of
  the partitions a table to drop and one to keep, and let a batch be late by a
  day. Two hash buckets put different conversations into one chain; sums modulo 4 wrap;
  statements of two rows have a full one, a last one and an empty one.
* `shutdown`: two signals let one handler wait while another interrupts a second
  thread or the handler itself.

`MaxDatagrams`, `MaxSamples`, `MaxMinute`, `MaxBatches`, `MaxRestarts`, `MaxCrashes`,
`MaxRefusals` and `MaxSignals` are the only bounds in guards, and the buffers, or pairs
of them in `Shutdown` (`MaxPairs`), are what `malloc` can give; the proofs hold for
every value of them.

`CHECK_DEADLOCK FALSE` is set where a behaviour ends: in `reception`, `storage` and
the `processor` runs when the bounded input has been dealt with or the daemon was
ended by a datagram, and in the `shutdown` runs when the process has exited or nobody can go
on. The queue and collector runs check for deadlock.

Fairness. `FairSpec` of `BufferQueue`, `Collector`, `Processor` and `Shutdown`
assumes that a thread or process that can go on does: a thread leaves the condition
variable after a signal and gets the mutex, the collector and the writer continue after a push or pop,
`stprocessd` is started again by its operator and goes on. Nothing makes a
datagram arrive in `Collector` or a sample in `SampleStore`; only `Shutdown`
assumes datagrams keep coming, because the collector reads its exit flag only after
`recvfrom` returns (without traffic it never ends; `CollectorEnds` states the
assumption). Weak fairness is enough everywhere: no action is enabled only from time to time
while its thread waits, since each queue has one consumer.
`Reception` and `Storage` check safety only: their steps never wait for anyone.

What the violated properties show:

* `ConfiguredIsFound`: the comment at `agentlist.c:17` promises a linear search along a
  bucket. The walk's guard is false before its first step, and an insertion cuts
  the older elements off. Of the addresses of a bucket only the last one is
  found, and a datagram of another one ends `stcollectd`, because the parser
  uses the agent before it tests it.
* `PopAllocates`: the comments at `bufferqueue.c:84` and `stcollectd.c:185` say a
  pop allocates when there is no free buffer; the wait loop before it does not end while
  the queue is empty. Growth only happens when a buffer came back after the
  wait had timed out.
* `ReceivedIsWritten`: the flush interval is documented as the maximum wait; it is
  evaluated after the next datagram.
* `StoredOnce`: the temporary file for `LOAD DATA` is not truncated, so after a
  killed `stprocessd` old rows are loaded again behind a shorter batch.
* `CleanExit`: `hook_exit` joins the writer thread, which has no way to end.

What the passing properties say with their preconditions:

* `LookupCorrect` and `ConfiguredAgentsAreSafe` hold for addresses that share no
  bucket with a later one, which is where the finding above begins. A sample whose
  agent is found by a secondary address is safe only when its primary address is found
  too, since the writer looks that one up again.
* `DropsAreDistance` states what the drop count is, the way the sequence number
  has come, which is one more per gap than the datagrams that are missing.
* `SamplesAreRead` speaks of a buffer whose datagrams had one raw header per flow sample
  and both records per counter sample. With others the code leaves an earlier
  sample's data in the slot, or counts an item that is not a sample.
* `ConfigurationIsRead` speaks of every setting but the ones that are misread (`Misread`):
  for `stcollectd` what follows an empty list of agents, whose brackets leave the flag of a list
  set, and the settings of `stprocessd` behind a storage section, which nothing ends. Such a
  setting is not only lost: it goes to the storage module, over a setting of the
  same key that stands in its section (`datadir`, for one). `Only` leaves out the settings this happens to.
* A restart of the collector within a minute opens that minute's file again and
  writes over it from the start; `NothingLost` and `AnnouncedIsStored` therefore
  speak of runs without one. `AnnouncedIsFinal` and `BatchesSeparate` hold over restarts as well.
* `RowsInTheirDay`: a backlog that is stored after a start of `stprocessd` on a later
  day goes to that day's table; the scripts that look for a day's rows in its table
  do not see it.
* `hook_exit` may also be entered before the collector has ended, when a
  signal arrives while `main` is joining it (the second join fails);
  `ExitLeavesNothingQueued` holds only without that.

Documentation that differs from the code without a run of its own: the manual page and the
example configuration name the key `num buffers` and, once, `flush inteval`, the code
reads `buffer num` and `flush interval`; `hash bits` is read and has no effect;
the settings of `storage_spectrum` are read and used by nobody, the csv module begins a
new file every five minutes; a partition is said to be as long as the interval and is a day.

## 4. Proofs

All theorems hold for every value of the constants under the modules' named
assumptions (finite `Buffers`, `NULL` not a buffer, at least one buffer
configured, `BufferSize >= MaxDatagramSamples`, bounds that are numbers, `Texts` a set with all texts the code looks for). `BufferPool` keeps its
conditions on the constants in `PoolAssumption`, a hypothesis of its theorems, because it is
instantiated for the four queues.

* **`BufferPoolProofs`**: `PoolType`, `PoolOneOwner` and
  `PoolNeverBelowMinimum`, about the pool itself; no run checks them, the
  runs check that queue and collector implement the pool. Type correctness carries `Len(items) <= InitialNum`
  while the pool is filled. Owners stay apart because a pop from either end of an
  injective sequence takes exactly one element away (`SeqLemmas`).
* **`SeqLemmas`**: what a sequence keeps when it is pushed to, popped from and joined, and
  what `FlattenSeq` of the community modules computes. That one is defined by a recursive function;
  its recursion is proved from the least place at which it could fail
  (`LeastNatural`), which needs no induction scheme, and everything else about a
  concatenation follows from its first, its last and its elements (`FlattenFirst`, `FlattenAppend`, `FlattenElements`)
  and from the place of each part in it (`FlattenAround`). `SumFunctionOnSet` is a fold over a recursive
  function on the subsets of a set. That there is such a function, and only one,
  is proved from a smallest set at which it could fail (`SumsExist`, `SumsAgree`), and so is that any
  element may be taken first (`SumsAny`); then the sum adds the value of each new element (`SumAdd`) and is the
  same for renamed ones (`SumRenamed`). Of remainders only `SumOfRemainder` is needed: a part of a sum may wrap around.
  `SelectSeq` is recursive as well and cannot be unfolded at all, so what the
  theorems are about is written with sets and `FlattenSeq`.
* **`BufferQueueProofs`**: the inductive invariant is `QueueInv == TypeOK /\ ListIntact`.
  `ListIntact` is inductive only as an existential statement about the
  sequence the list stands for, so each operation has a lemma on lists
  (`InsertList`, `FreeList`, `RemoveList`): from a structure that represents the sequence
  `c` it makes one that represents `Append`, the front removed, or `Tail`. Stale
  links need no invariant, because `IsChain` asks nothing of the outer links, and
  the lemmas show that nothing else is asked. `NoLostWakeup` is inductive on its
  own. `QueueImplementsPool` uses that the sequence is unique (`ListUnique`), so
  that `CHOOSE` in the refinement mapping names it, and maps each step to a pool step or
  a stutter, for both kinds of queue. This is what lets `Collector` use pools, and
  `QueueNeverBelowMinimum` takes the pool's bound back to the list.
* **`CollectorProofs`**: `CollectorType`, `CollectorOneOwner`,
  `CollectorLockstep`, `CollectorNoOverflow`, `CollectorFreeIsEmpty`, the refinements
  `CollectorFreePools` and `CollectorFlushPools`, and `CollectorInOrder`. `OwnerInv` restates
  `OneOwner` by place (`Owned(t)`), so that a step of one thread on one type is one
  case. `DataInv` needs more than its two theorems: that a buffer the collector is
  to fill is at or below the threshold between datagrams, and that
  the writer's buffer is empty once its samples are written. It is proved relative to `OwnerInv`:
  a sample counted into one buffer changes no other owner's. The refinements map each
  step of the two threads to one step of the pool it touches and a stutter of
  the other three. That no sample is lost, repeated or overtaken is proved as one equation:
  the samples written, those of the writer's buffer, of the flush queue and of
  the collector's buffer, one behind the other (`Joined`), are the numbers received.
  `WritingInv` says how far the writer has come in its buffer.
* **`ReceptionProofs`**: `ReceptionLookup`, `ReceptionDrops`, `ReceptionSafe`, `ReceptionSamples`,
  `ReceptionType` and `ReceptionConfiguration`. The table is
  described by what a bucket points to: the newest of its nodes. That is
  inductive though the chains are not intact, and with it a search is
  right about the addresses that were added last. `DropsInv` adds the type of the
  agents' counts to the sum; the step that changes them is arithmetic with
  remainders. `SafeInv` follows an agent from the search over the buffer to the
  writer: every slot that is counted has a primary address that is found. For the
  samples, `Unread` describes what the cursor stands before: records that were left over by a
  sample that was read in part, then whole samples; the bound of the loop reaches no
  further than these. So an item that is taken for a sample is one (`AtCursor`), a slot
  is filled from its own records (`SampleParsed`, `SlotFilled`), and if all samples are
  plain, what is expected is what is in the buffer followed by what is still to be read. The
  assumption on `Payloads` says what the header of `SflowParser` says: which
  tags the records may have and that a flow sample has one. `ReceptionType` puts the types of
  all these together with those of the flags (`FlagsInv`) and the agents (`EntriesInv`).
  `ReceptionConfiguration` knows where in the file the parser is: `PlaceInv` splits the file
  into the items `fs` that were read and the items `gs` to come, gives the events that are
  left as those of `gs` (`AllEvents`), and has one case for each place within an item: between two
  of them, behind a key, in the list of agents as `stcollectd` reads it (before an
  entry, behind a name, among the addresses) and as `stprocessd` does, as keys and
  values (`AsKeys`). With it go the section the parser is in and the storage flag that may be older
  (`SectionsInv`), the settings that have arrived (`SettingsInv`) and the agents so far
  (`AgentsAre`). Behind an empty list there is no such place (`Lost`): what counts then is only
  that the settings read before it are not assigned again.
* **`StorageProofs`**: `StorageCurrentTable`, `StorageType`, `StorageRowsInTheirDay`,
  `StorageCounters`, `StorageConversations`, `StorageCsv`. That the current table exists is not
  inductive: `TablesInv` adds that a table that is about to be dropped is older than
  the one that is stored into if a day or more is kept (`DropIsOlder`), which is where
  the two computations of the code, of the current and of the dropped day, meet. `TypesInv`
  needs what each point of the program has in work (`WorkTyped`). `DayInv` relates the table of
  each kind to the time it was chosen at (`TableOfStamp`) and that to the batch in work
  (`StampOfBatch`); the rest is arithmetic of intervals that divide a day.
  `CountersInv` says of every batch that was finished and of the one in work
  which of its samples are rows in which table (`StoredIn`): numbers are unique and
  rise (`NumbersInv`), the clock and the table of a batch go together
  (`ClockInv`), and a table that is dropped is too old for a recent batch
  (`DroppedIsOld`). `CsvInv` is the last counters of each interface by the samples
  that went by (`EntriesOf`), the lines of the open file and of the closed ones
  (`LinesIn`). `ConversationsInv` follows the conversations of a batch from its samples to the rows.
  While samples are read, each list of a hash table `Accounts` for the samples that belong in its
  bucket (`GatheredIn`): it has their keys and no others, their frames and bytes up to the width of the
  counters, and, but for IP, one node for each key. This is inductive only with `Distinct`, that no two nodes of a
  list look alike to `conv_list_add`, since it is the first match that counts. Because a key belongs in one
  bucket, the lists account together for the whole batch (`GatheredAccounts`). Of the tables it says that those that
  were stored have the rows of such a list in one piece, in a table no older than the batch (`Held`, `Block`), and that the
  others have no row of the batch (`LayerHeld`); what a crash left behind has another number. The only
  assumption on the frames is their type (`ConvTableAssumption`).
* **`ProcessorProofs`**: `StoreType`, `ProcessorType`, `ProcessorImplementsStore`, `ProcessorBatches`,
  `ProcessorFiles`, `ProcessorFinal`, `ProcessorComplete`, `ProcessorLayers`, `ProcessorOnce` and
  `ProcessorLosesNothing`. `HandOverInv` says of every announcement that
  it was `Placed`: its minute lies before the clock and before the minute of the
  agent's open file, over restarts as well, where the open file is forgotten and only
  the clock is left. So a file that is opened is not one that was announced, which makes an
  announced file final and the timestamps differ. `JobReceived` ties what `stprocessd`
  works on to a message that was sent, so that its unlink is the
  `RemoveFile` of `SampleStore`. `FilesComplete` places every sample that was added, in the
  open file or in an announced one; `CoreInv` says what of a batch is in memory, in
  the temporary file and in the tables at each point of `stprocessd`, and from it
  `LayersInv` the order of the layers, `OnceInv` that a row is there once as long as nobody was
  ended, and the last theorem that no sample falls between two of these places. `RowsFor` is
  the concatenation of the rows of each sample.
* **`ShutdownProofs`**: `ShutdownType` and `ShutdownLeavesNothing`. `StackInv` says what
  may lie on a thread's stack and that there are at most as many handlers as signals;
  `CountInv` says where each pair of buffers is: in the free queues, in the flush queues
  or with one of the two threads, which conserves their number; `ExitInv` that a `hook_exit` that was
  entered after the collector's end finds no push to come.

Only model-checked: all liveness (`PopReturns`, `FlushReturns`, `FlushedIsWritten`,
`AnnouncedIsStored`, `CollectorEnds`), since fairness and `ENABLED` are outside the
prover. Every invariant that a passing run checks is a theorem.

## 5. Not modelled

* `bqueue_destroy` and `agentlist_destroy`: nothing calls them. The destroy functions of the storage
  modules stand behind `stprocessd`'s endless loop. The pcap functions of
  `samplestore.c` are not called by the daemons, and `storage_rrd.c` is an empty stub.
* The socket, the command line, logging, address conversion for output, the scripts and the
  schema are I/O or text without a protocol of their own; `statistics.c` writes counters to
  RRD files that nothing reads back.
* Creating and opening the message queue and the order in which the daemons are
  started: `stprocessd` opens the queue once, and fails for ever if it was started first.
* Errors of libyaml, which end the reading of a file.
* The locks inside a queue operation that a signal handler interrupts, and the
  functions it calls that are not async-signal-safe.

`PROJECT.json` lists every component with its status.

## 6. Plan

What is left, in this order:

1. The start of both daemons: who creates and opens the message queue, and what
   each does when it is not there yet.
2. The signal handler inside a queue operation: `Shutdown` over `BufferQueue` with its mutex.
3. The timer of the statistics beside the collector, with the counters both use.
