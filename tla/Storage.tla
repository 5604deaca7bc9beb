-------------------------------- MODULE Storage --------------------------------
(***************************************************************************)
(* What stprocessd does with a batch of samples: process_file_flow and     *)
(* process_file_cntr make conversations or a list of counters of it, and   *)
(* the storage modules store these one after the other.  Both modules are  *)
(* always loaded, and csv, the later one, is at the front of their list.   *)
(* stprocessd may end between any two steps and is started again.          *)
(*                                                                         *)
(* Messages, files and the temporary files of LOAD DATA are in Processor;  *)
(* here a batch comes as its samples, and its rows are loaded in one step. *)
(***************************************************************************)
EXTENDS ConvTable, MysqlTables, CsvStore

CONSTANTS FlowFiles,     \* the flow samples a file may hold, sequences of frames
          CounterFiles,  \* the counter samples, sequences of pairs of agent and interface
          Bulk,          \* BULK_INSERT_NUM
          Epoch,         \* the minute it is when everything begins
          MaxMinute,     \* bound on the time
          MaxBatches,    \* bound on the batches
          MaxCrashes     \* bound on the ends of stprocessd

ASSUME StorageAssumption ==
  /\ FlowFiles \subseteq Seq(Frames)
  /\ CounterFiles \subseteq Seq(Nat \X Nat)
  /\ Bulk \in Nat \ {0}
  /\ Epoch \in Nat /\ \A s \in Settings : s.interval <= Epoch
  /\ MaxMinute \in Nat /\ MaxBatches \in Nat /\ MaxCrashes \in Nat

VARIABLES
  phase,     \* what stprocessd is doing; "off" when it does not run
  batch,     \* the batch it works on: its number, type, timestamp and samples
  stamp,     \* the time by which tables are made: the batch's or that of the start
  todo,      \* the tables still to be made or stored
  cursor,    \* how many of its samples were read, or stored by the module at work
  batches,   \* the batches that were finished
  begun,     \* how many were begun
  latest,    \* for each type the last timestamp
  taken,     \* how many samples the batches had
  now,       \* the minute it is
  crashes    \* how often stprocessd has ended

vars == <<conv, tableVars, csvVars, phase, batch, stamp, todo, cursor, batches, begun, latest,
          taken, now, crashes>>

FlowTables == <<"ethernet", "ip", "tcp", "udp">>
NoBatch == [number |-> 0, type |-> "flow", timestamp |-> 0, samples |-> <<>>]

Init ==
  /\ conv = EmptyTables
  /\ MysqlInit
  /\ CsvInit
  /\ phase = "start"
  /\ batch = NoBatch
  /\ stamp = Epoch
  /\ todo = FlowTables
  /\ cursor = 0
  /\ batches = <<>>
  /\ begun = 0
  /\ latest = [t \in {"flow", "cntr"} |-> Epoch]
  /\ taken = 0
  /\ now = Epoch
  /\ crashes = 0

-----------------------------------------------------------------------------

\* main and storage_mysql_init, which makes the tables of the conversations.
Start ==
  /\ phase = "off"
  /\ phase' = "start"
  /\ stamp' = now
  /\ todo' = FlowTables
  /\ UNCHANGED <<conv, tableVars, csvVars, batch, cursor, batches, begun, latest, taken, now, crashes>>

\* The message of a batch.  One of a type is never older than the one before.
Begin(type, t, samples) ==
  /\ phase = "idle"
  /\ begun < MaxBatches
  /\ t \in latest[type]..now - 1
  /\ phase' = "read"
  /\ begun' = begun + 1
  /\ latest' = [latest EXCEPT ![type] = t]
  /\ stamp' = t
  /\ taken' = taken + Len(samples)
  /\ batch' = [number |-> begun', type |-> type, timestamp |-> t, samples |-> samples]
  /\ UNCHANGED <<tableVars, csvVars, todo, cursor, batches, now, crashes>>

BeginFlow(t) == \E file \in FlowFiles : Begin("flow", t, file) /\ ClearTables

\* The counter samples are numbered, so that they can be told apart.
BeginCounters(t) ==
  \E file \in CounterFiles :
    /\ Begin("cntr", t, [i \in 1..Len(file) |->
                           [agent |-> file[i][1], interface |-> file[i][2], id |-> taken + i]])
    /\ UNCHANGED conv

Unread == phase = "read" /\ cursor < Len(batch.samples)
AllRead == phase = "read" /\ cursor = Len(batch.samples)

\* The loop of process_file_flow.
ReadFlow(t) ==
  /\ Unread /\ batch.type = "flow"
  /\ ProcessSample(batch.samples[cursor + 1], t)
  /\ cursor' = cursor + 1
  /\ UNCHANGED <<tableVars, csvVars, phase, batch, stamp, todo, batches, begun, latest, taken, now, crashes>>

\* process_sample_cntr appends the sample to the list, which is the batch's.
ReadCounter ==
  /\ Unread /\ batch.type = "cntr"
  /\ cursor' = cursor + 1
  /\ UNCHANGED <<conv, tableVars, csvVars, phase, batch, stamp, todo, batches, begun, latest, taken,
                 now, crashes>>

FlowRead ==
  /\ AllRead /\ batch.type = "flow"
  /\ phase' = "mysql"
  /\ todo' = FlowTables
  /\ cursor' = 0
  /\ UNCHANGED <<conv, tableVars, csvVars, batch, stamp, batches, begun, latest, taken, now, crashes>>

CountersRead ==
  /\ AllRead /\ batch.type = "cntr"
  /\ phase' = "csv"
  /\ cursor' = 0
  /\ OpenCsv(now)
  /\ UNCHANGED <<conv, tableVars, batch, stamp, todo, batches, begun, latest, taken, now, crashes>>

StoreCsv ==
  /\ phase = "csv"
  /\ cursor < Len(batch.samples)
  /\ WriteLine(batch.samples[cursor + 1])
  /\ cursor' = cursor + 1
  /\ UNCHANGED <<conv, tableVars, phase, batch, stamp, todo, batches, begun, latest, taken, now, crashes>>

CsvDone ==
  /\ phase = "csv"
  /\ cursor = Len(batch.samples)
  /\ phase' = "mysql"
  /\ todo' = <<"counters">>
  /\ cursor' = 0
  /\ UNCHANGED <<conv, tableVars, csvVars, batch, stamp, batches, begun, latest, taken, now, crashes>>

\* A table is made at the start in any case, later only when it is due.
Create(k) ==
  /\ todo # <<>> /\ k = Head(todo)
  /\ expired = NoDay
  /\ phase = "start" \/ (phase = "mysql" /\ Due(k, stamp))
  /\ CreateTable(k, stamp)
  /\ UNCHANGED <<conv, csvVars, phase, batch, stamp, todo, cursor, batches, begun, latest, taken, now, crashes>>

Drop(k) ==
  /\ todo # <<>> /\ k = Head(todo)
  /\ DropExpired(k)
  /\ IF phase = "start"
     THEN todo' = Tail(todo) /\ phase' = IF Len(todo) = 1 THEN "idle" ELSE "start"
     ELSE UNCHANGED <<todo, phase>>
  /\ UNCHANGED <<conv, csvVars, batch, stamp, cursor, batches, begun, latest, taken, now, crashes>>

\* The rows of table k can be stored.
Ready(k) ==
  /\ phase = "mysql"
  /\ todo # <<>> /\ k = Head(todo)
  /\ expired = NoDay
  /\ ~Due(k, stamp)

\* The end of the list is noticed one table late.
BugTableDone ==
  /\ todo' = Tail(todo)
  /\ cursor' = 0
  /\ IF Len(todo) > 0
     THEN UNCHANGED <<phase, batches>>
     ELSE phase' = "idle" /\ batches' = Append(batches, batch)

\* After the last table the memory is released, and the next message is awaited.
TableDone ==
  /\ todo' = Tail(todo)
  /\ cursor' = 0
  /\ IF Len(todo) > 1
     THEN UNCHANGED <<phase, batches>>
     ELSE phase' = "idle" /\ batches' = Append(batches, batch)

\* storage_mysql_store_conv_*.
StoreConversations(l) ==
  /\ Ready(l)
  /\ Load(l, LET c == Conversations(l)
             IN [i \in 1..Len(c) |->
                   [batch |-> batch.number, timestamp |-> stamp, key |-> c[i].key,
                    frames |-> c[i].frames, bytes |-> c[i].bytes]])
  /\ TableDone
  /\ UNCHANGED <<conv, csvVars, batch, stamp, begun, latest, taken, now, crashes>>

\* The last sample of a statement is left out.
BugCounterRows(from, to) ==
  [i \in 1..to - from |-> [batch |-> batch.number, id |-> batch.samples[from + i - 1].id]]

\* The numbered counters, as rows.  They carry the time of their sample, which is
\* left out, and not the timestamp of the batch.
CounterRows(from, to) ==
  [i \in 1..to - from + 1 |-> [batch |-> batch.number, id |-> batch.samples[from + i - 1].id]]

\* storage_mysql_store_cntr: a statement for every Bulk samples, and a last one,
\* which has a syntax error when nothing is left for it.
InsertBulk ==
  /\ Ready("counters")
  /\ Len(batch.samples) - cursor >= Bulk
  /\ Load("counters", CounterRows(cursor + 1, cursor + Bulk))
  /\ cursor' = cursor + Bulk
  /\ UNCHANGED <<conv, csvVars, phase, batch, stamp, todo, batches, begun, latest, taken, now, crashes>>

InsertRest ==
  /\ Ready("counters")
  /\ Len(batch.samples) - cursor < Bulk
  /\ Load("counters", CounterRows(cursor + 1, Len(batch.samples)))
  /\ TableDone
  /\ UNCHANGED <<conv, csvVars, batch, stamp, begun, latest, taken, now, crashes>>

\* stprocessd is killed, or has lost the database when it starts.
Crash ==
  /\ phase # "off"
  /\ crashes < MaxCrashes
  /\ crashes' = crashes + 1
  /\ phase' = "off"
  /\ conv' = EmptyTables
  /\ batch' = NoBatch /\ stamp' = 0 /\ todo' = <<>> /\ cursor' = 0
  /\ Forget
  /\ CloseCsv
  /\ UNCHANGED <<batches, begun, latest, taken, now>>

\* Nothing depends on the time while a batch is processed.
Tick ==
  /\ phase \in {"off", "idle"}
  /\ now < MaxMinute
  /\ now' = now + 1
  /\ UNCHANGED <<conv, tableVars, csvVars, phase, batch, stamp, todo, cursor, batches, begun, latest,
                 taken, crashes>>

Next ==
  \/ Start
  \/ \E t \in Epoch..MaxMinute : BeginFlow(t) \/ BeginCounters(t)
  \/ \E t \in Tails : ReadFlow(t)
  \/ ReadCounter
  \/ FlowRead
  \/ CountersRead
  \/ StoreCsv
  \/ CsvDone
  \/ \E k \in Kinds : Create(k) \/ Drop(k)
  \/ \E l \in Layers : StoreConversations(l)
  \/ InsertBulk
  \/ InsertRest
  \/ Crash
  \/ Tick

Spec == Init /\ [][Next]_vars

-----------------------------------------------------------------------------

Row == [batch : Nat, timestamp : Nat, key : Seq(Nat), frames : 0..Word - 1, bytes : 0..Word - 1]
         \cup [batch : Nat, id : Nat]

Batch == [number : Nat, type : {"flow", "cntr"}, timestamp : Nat, samples : Seq(Frames \cup Counter)]

TypeOK ==
  /\ ConvTypeOK /\ MysqlTypeOK(Row) /\ CsvTypeOK
  /\ phase \in {"off", "start", "idle", "read", "csv", "mysql"}
  /\ batch \in Batch
  /\ stamp \in Nat
  /\ todo \in Seq(Kinds)
  /\ phase \in {"start", "mysql"} => todo # <<>>
  /\ cursor \in 0..Len(batch.samples)
  /\ batches \in Seq(Batch)
  /\ begun \in 0..MaxBatches
  /\ latest \in [{"flow", "cntr"} -> Nat]
  /\ taken \in Nat
  /\ now \in Nat
  /\ crashes \in 0..MaxCrashes

\* The rows of batch b in the tables of kind k, by day and place.
RowsOf(k, b) ==
  {x \in UNION {{d} \X DOMAIN db[k][d] : d \in DOMAIN db[k]} : db[k][x[1]][x[2]].batch = b.number}

\* The rows of batch b on layer l are its conversations and add up to its frames.
ConversationsStored(l, b) ==
  LET row(x) == db[l][x[1]][x[2]]
      mine == {j \in DOMAIN b.samples : l \in LayersOf(b.samples[j])}
      keys == {KeyOf(l, b.samples[j]) : j \in mine}
  IN /\ {row(x).key : x \in RowsOf(l, b)} = keys
     /\ \A key \in keys :
          LET rows == {x \in RowsOf(l, b) : row(x).key = key}
              samples == {j \in mine : KeyOf(l, b.samples[j]) = key}
          IN /\ l # "ip" => Cardinality(rows) = 1
             /\ SumFunction([x \in rows |-> row(x).frames]) % Word = Cardinality(samples) % Word
             /\ SumFunction([x \in rows |-> row(x).bytes]) % Word
                  = SumFunction([j \in samples |-> b.samples[j].length]) % Word

\* The counters of batch b are in the table, each of them once.
CountersStored(b) ==
  LET id(x) == db["counters"][x[1]][x[2]].id
  IN /\ Cardinality(RowsOf("counters", b)) = Len(b.samples)
     /\ {id(x) : x \in RowsOf("counters", b)} = {b.samples[j].id : j \in DOMAIN b.samples}

\* The time of batch b is to be kept, less the one day a table is dropped with.
\* Intervals that divide a day are assumed.
Recent(b) == Day % mysql.interval = 0 /\ now - b.timestamp <= Kept - Day

\* The database holds the conversations of every recent finished batch: on each
\* layer one row for a conversation (of IP perhaps more), which together have all
\* frames and bytes.
RecentConversationsAreStored ==
  \A i \in DOMAIN batches :
    Recent(batches[i]) /\ batches[i].type = "flow" =>
      \A l \in Layers : ConversationsStored(l, batches[i])

\* It holds the counter samples of every recent finished batch, each of them once,
\* whatever their places in the statements and the batches that were not finished.
RecentCountersAreStored ==
  \A i \in DOMAIN batches :
    Recent(batches[i]) /\ batches[i].type = "cntr" => CountersStored(batches[i])

\* stexport looks for the conversations of a day in that day's table (date_range):
\* there they are, or, when stprocessd was started on a later day, in a later one.
RowsInTheirDay ==
  Day % mysql.interval = 0 =>
    \A l \in Layers : \A d \in DOMAIN db[l] : \A i \in DOMAIN db[l][d] :
      /\ DayOf(db[l][d][i].timestamp) <= d
      /\ crashes = 0 => DayOf(db[l][d][i].timestamp) = d
=============================================================================
