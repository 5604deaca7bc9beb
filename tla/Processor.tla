------------------------------- MODULE Processor -------------------------------
(***************************************************************************)
(* stprocessd: it receives an announcement (recv_msg), reads the file and  *)
(* removes it (process_file_flow, process_file_cntr), and only then stores *)
(* what it read with the mysql module, one table after the other.  The     *)
(* rows of a table of conversations go through a temporary file in         *)
(* /dev/shm that LOAD DATA INFILE reads.  The files and the queue are      *)
(* those of SampleStore, whose collector runs at the same time.            *)
(*                                                                         *)
(* Every flow sample is a conversation of its own here, and the mysql      *)
(* module the only storage module.                                         *)
(***************************************************************************)
EXTENDS SampleStore, SequencesExt

CONSTANTS MaxCrashes,   \* bound on the ends of stprocessd
          MaxRefusals   \* bound on the LOAD DATA statements the database refuses

ASSUME ProcessorAssumption == MaxCrashes \in Nat /\ MaxRefusals \in Nat

VARIABLES
  proc,      \* where stprocessd is; "off" when it does not run
  job,       \* the message being processed
  batch,     \* the samples read from its file
  todo,      \* the tables still to be stored
  dumped,    \* how many rows of the first of them are in its temporary file
  tmp,       \* the temporary files, by table; an absent one is empty
  table,     \* the rows of the database
  crashes, refusals

memory == <<job, batch, todo, dumped>>
procVars == <<proc, memory, tmp, table, crashes, refusals>>
vars == <<storeVars, procVars>>

\* The innermost layer first.
BugFlowTables == <<"udp", "tcp", "ip", "ethernet">>
FlowTables == <<"ethernet", "ip", "tcp", "udp">>
Tables == {"ethernet", "ip", "tcp", "udp", "counters"}
TablesOf == [flow |-> FlowTables, cntr |-> <<"counters">>]

\* process_sample_flow and process_sample_cntr: the tables that get a sample.
Layers == [other |-> {"ethernet"}, icmp |-> {"ethernet", "ip"},
           tcp |-> {"ethernet", "ip", "tcp"}, udp |-> {"ethernet", "ip", "udp"},
           cntr |-> {"counters"}]

\* What storage_modules_store_* is to put into a table; a row is a sample's number.
\* A sample adds one row or none.
RowsFor(tb) ==
  FlattenSeq([i \in DOMAIN batch |->
                IF tb \in Layers[log[batch[i]].kind] THEN <<batch[i]>> ELSE <<>>])

Init ==
  /\ StoreInit
  /\ proc = "recv"
  /\ job = NULL
  /\ batch = <<>>
  /\ todo = <<>>
  /\ dumped = 0
  /\ tmp = [tb \in Range(FlowTables) |-> <<>>]
  /\ table = [tb \in Tables |-> <<>>]
  /\ crashes = 0
  /\ refusals = 0

-----------------------------------------------------------------------------

Receive ==
  /\ proc = "recv"
  /\ TakeMessage
  /\ proc' = "read"
  /\ job' = Head(mq)
  /\ UNCHANGED <<batch, todo, dumped, tmp, table, crashes, refusals>>

\* The order of close, shm_unlink and the stores is the other way round.
BugRead ==
  /\ proc = "read"
  /\ IF job.file \in DOMAIN shm
     THEN RemoveFile(job.file)
     ELSE UNCHANGED storeVars
  /\ batch' = <<>>
  /\ proc' = "store"
  /\ todo' = TablesOf[job.stream[2]]
  /\ UNCHANGED <<job, dumped, tmp, table, crashes, refusals>>

\* The loop over the samples of the file; the file does not change meanwhile.
\* One that cannot be opened is logged, and an empty batch is stored.
Read ==
  /\ proc = "read"
  /\ IF job.file \in DOMAIN shm
     THEN batch' = shm[job.file] /\ proc' = "unlink"
     ELSE batch' = <<>> /\ proc' = "store"
  /\ todo' = TablesOf[job.stream[2]]
  /\ UNCHANGED <<storeVars, job, dumped, tmp, table, crashes, refusals>>

Unlink ==
  /\ proc = "unlink"
  /\ RemoveFile(job.file)
  /\ proc' = "store"
  /\ UNCHANGED <<memory, tmp, table, crashes, refusals>>

\* Every other table is left out.
BugNextTable ==
  /\ todo' = IF Len(todo) > 1 THEN Tail(Tail(todo)) ELSE <<>>
  /\ proc' = IF Len(todo) > 1 THEN "store" ELSE "recv"

\* The loop runs once too often.
BugLastTable ==
  /\ todo' = Tail(todo)
  /\ proc' = IF Len(todo) > 0 THEN "store" ELSE "recv"

\* On to the next table, or to the next message.
NextTable ==
  /\ todo' = Tail(todo)
  /\ proc' = IF Len(todo) > 1 THEN "store" ELSE "recv"

StoringInto(tb) == proc = "store" /\ todo # <<>> /\ Head(todo) = tb

\* One row into the temporary file, which is opened without O_TRUNC.
DumpRow(tb) ==
  /\ StoringInto(tb)
  /\ dumped < Len(RowsFor(tb))
  /\ tmp' = [tmp EXCEPT ![tb] = Overwrite(@, dumped, RowsFor(tb)[dumped + 1])]
  /\ dumped' = dumped + 1
  /\ UNCHANGED <<storeVars, proc, job, batch, todo, table, crashes, refusals>>

\* LOAD DATA INFILE takes what the file holds, or fails and is logged.
LoadTable(tb) ==
  /\ StoringInto(tb)
  /\ dumped = Len(RowsFor(tb))
  /\ \/ /\ table' = [table EXCEPT ![tb] = @ \o tmp[tb]]
        /\ UNCHANGED refusals
     \/ /\ refusals < MaxRefusals
        /\ refusals' = refusals + 1
        /\ UNCHANGED table
  /\ proc' = "drop"
  /\ UNCHANGED <<storeVars, memory, tmp, crashes>>

\* The temporary file is kept.
BugDropTmp ==
  /\ proc = "drop"
  /\ dumped' = 0
  /\ NextTable
  /\ UNCHANGED <<storeVars, job, batch, tmp, table, crashes, refusals>>

\* shm_unlink of the temporary file.
DropTmp ==
  /\ proc = "drop"
  /\ tmp' = [tmp EXCEPT ![Head(todo)] = <<>>]
  /\ dumped' = 0
  /\ NextTable
  /\ UNCHANGED <<storeVars, job, batch, table, crashes, refusals>>

\* storage_mysql_store_cntr: INSERT statements, no temporary file.
InsertCounters ==
  /\ StoringInto("counters")
  /\ \/ /\ table' = [table EXCEPT !["counters"] = @ \o RowsFor("counters")]
        /\ UNCHANGED refusals
     \/ /\ refusals < MaxRefusals
        /\ refusals' = refusals + 1
        /\ UNCHANGED table
  /\ NextTable
  /\ UNCHANGED <<storeVars, job, batch, dumped, tmp, crashes>>

\* stprocessd has no way to end but to be killed: main never leaves its loop.
Crash ==
  /\ proc # "off"
  /\ crashes < MaxCrashes
  /\ crashes' = crashes + 1
  /\ proc' = "off"
  /\ job' = NULL /\ batch' = <<>> /\ todo' = <<>> /\ dumped' = 0
  /\ UNCHANGED <<storeVars, tmp, table, refusals>>

Start ==
  /\ proc = "off"
  /\ proc' = "recv"
  /\ UNCHANGED <<storeVars, memory, tmp, table, crashes, refusals>>

Processing ==
  \/ Receive
  \/ Read
  \/ Unlink
  \/ \E tb \in Range(FlowTables) : DumpRow(tb) \/ LoadTable(tb)
  \/ DropTmp
  \/ InsertCounters
  \/ Start

Collecting == (Adding \/ Restart) /\ UNCHANGED procVars

Next == Collecting \/ Processing \/ Crash

Spec == Init /\ [][Next]_vars

\* stprocessd runs, and is started again when it has ended.  Nothing makes a
\* sample arrive.
FairSpec == Spec /\ WF_vars(Processing)

-----------------------------------------------------------------------------

TypeOK ==
  /\ StoreTypeOK
  /\ proc \in {"off", "recv", "read", "unlink", "store", "drop"}
  /\ job \in Messages \cup {NULL}
  /\ proc \in {"read", "unlink", "store", "drop"} => job \in Messages
  /\ batch \in Seq(Sample)
  /\ todo \in Seq(Tables)
  /\ proc \in {"store", "drop"} => todo # <<>>
  /\ dumped \in Nat
  /\ tmp \in [Range(FlowTables) -> Seq(Sample)]
  /\ table \in [Tables -> Seq(Sample)]
  /\ crashes \in 0..MaxCrashes /\ refusals \in 0..MaxRefusals

Stored(tb) == Range(table[tb])

\* Whether stprocessd still has to store what it has read into table tb.
Remaining(tb) ==
  /\ tb \in Range(todo)
  /\ ~(proc = "drop" /\ tb = Head(todo))

\* As long as nothing fails, every sample is in an existing file, in the memory
\* of stprocessd, or in each table of its layers: the file is removed before
\* the first store, but never before it is read, and no table is left out.
NothingLost ==
  restarts = 0 /\ crashes = 0 /\ refusals = 0 =>
    \A n \in DOMAIN log : \A tb \in Layers[log[n].kind] :
      \/ \E f \in DOMAIN shm : n \in Range(shm[f])
      \/ n \in Range(batch) /\ Remaining(tb)
      \/ n \in Stored(tb)

\* No sample is counted twice in a table (schema/sflow.sql:16, 28, 42 and 56
\* make the timestamp, the agent and the conversation the key of a row).
StoredOnce ==
  \A tb \in Tables : IsInjective(table[tb])

\* The same as long as stprocessd is not killed: no batch is read twice, and the
\* temporary file of a table is empty again before the next batch.
StoredOnceWhileRunning == crashes = 0 => StoredOnce

\* Unless the database refuses rows, a conversation is never in the table of a
\* layer before it is in those of the layers below, also after an end of
\* stprocessd between two tables and with the temporary file that leaves.
LayersNested ==
  refusals = 0 =>
    /\ Stored("ip") \subseteq Stored("ethernet")
    /\ Stored("tcp") \cup Stored("udp") \subseteq Stored("ip")

\* A sample whose file has been announced gets into the tables of its layers,
\* unless a daemon is restarted or the database refuses a batch: a collector
\* that is restarted within the minute writes over the samples it stored before.
AnnouncedIsStored ==
  \A n \in 1..MaxSamples :
    n \in DOMAIN log /\ log[n].file \in Announced
      ~> \/ restarts + crashes + refusals > 0
         \/ n \in DOMAIN log /\ \A tb \in Layers[log[n].kind] : n \in Stored(tb)
=============================================================================
