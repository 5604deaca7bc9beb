-------------------------------- MODULE CsvStore --------------------------------
(***************************************************************************)
(* The csv module (storage_csv.c): a line for each counter sample, with    *)
(* rates over the time since the last sample of the same interface, which  *)
(* is kept in a hash table by agent.  Every few minutes a new file in      *)
(* /dev/shm is begun, named by the minute.                                 *)
(*                                                                         *)
(* A line names its sample and the one its rates start from, or 0.         *)
(***************************************************************************)
EXTENDS Naturals, Sequences, FiniteSetsExt, Functions

CONSTANTS CsvBuckets,   \* HASH_SIZE
          Rotation      \* 5, the minutes after which a new file is begun

ASSUME CsvAssumption == CsvBuckets \in Nat \ {0} /\ Rotation \in Nat \ {0}

VARIABLES
  status,    \* cntr_status_hash: the last sample of each interface met
  csv,       \* the files by minute, and their lines
  csvFile,   \* the minute of the open file; storage_csv_time; 0 when none is open
  csvPos,    \* how many lines have been written to it
  written    \* every line written since stprocessd was started

csvVars == <<status, csv, csvFile, csvPos, written>>

NoStatus == [b \in 0..CsvBuckets - 1 |-> <<>>]

CsvInit ==
  /\ status = NoStatus
  /\ csv = <<>>
  /\ csvFile = 0
  /\ csvPos = 0
  /\ written = <<>>

\* The first entry of the agent is taken, whichever interface it is of.
BugSame(e, s) == e.agent = s.agent
Same(e, s) == e.agent = s.agent /\ e.interface = s.interface

\* A file of the same name that is there is kept (no O_TRUNC) and written over.
OpenCsv(now) ==
  IF csvFile = 0 \/ now - csvFile >= Rotation
  THEN /\ csvFile' = now
       /\ csvPos' = 0
       /\ csv' = [m \in DOMAIN csv \cup {now} |-> IF m \in DOMAIN csv THEN csv[m] ELSE <<>>]
       /\ UNCHANGED <<status, written>>
  ELSE UNCHANGED csvVars

\* hash_lookup, the line of sample s, and its counters for the next one.
WriteLine(s) ==
  LET bucket == status[s.agent % CsvBuckets]
      found  == {i \in DOMAIN bucket : Same(bucket[i], s)}
      since  == IF found = {} THEN 0 ELSE bucket[Min(found)].id
      line   == [id |-> s.id, since |-> since]
      file   == csv[csvFile]
  IN /\ csv' = [csv EXCEPT ![csvFile] =
                  IF csvPos < Len(file) THEN [file EXCEPT ![csvPos + 1] = line]
                  ELSE Append(file, line)]
     /\ csvPos' = csvPos + 1
     /\ status' = [status EXCEPT ![s.agent % CsvBuckets] =
                     IF found = {} THEN <<s>> \o bucket
                     ELSE [bucket EXCEPT ![Min(found)] = [@ EXCEPT !.id = s.id]]]
     /\ written' = Append(written, [sample |-> s, file |-> csvFile])
     /\ UNCHANGED csvFile

\* The memory of stprocessd is lost with it.
CloseCsv ==
  /\ status' = NoStatus
  /\ csvFile' = 0
  /\ csvPos' = 0
  /\ written' = <<>>
  /\ UNCHANGED csv

-----------------------------------------------------------------------------

Counter == [agent : Nat, interface : Nat, id : Nat]

CsvTypeOK ==
  /\ status \in [0..CsvBuckets - 1 -> Seq(Counter)]
  /\ \A m \in DOMAIN csv : m \in Nat /\ csv[m] \in Seq([id : Nat, since : Nat])
  /\ csvFile \in Nat
  /\ csvPos \in Nat
  /\ written \in Seq([sample : Counter, file : Nat])

\* The line that the n-th sample since the start is to get: its rates start from
\* the sample of the same interface before it.
LineOf(n) ==
  LET s == written[n].sample
      before == {i \in 1..n - 1 : /\ written[i].sample.agent = s.agent
                                   /\ written[i].sample.interface = s.interface}
  IN [id |-> s.id, since |-> IF before = {} THEN 0 ELSE written[Max(before)].sample.id]

\* Every counter sample since the start has its line, in the order in which they
\* came and with rates from the last sample of its own interface: neither a bucket
\* shared by agents and interfaces nor a change of files confuses them.
CsvFollowsCounters ==
  \A n \in DOMAIN written :
    LET m     == written[n].file
        place == Cardinality({i \in 1..n : written[i].file = m})
    IN m \in DOMAIN csv /\ place \in DOMAIN csv[m] /\ csv[m][place] = LineOf(n)
=============================================================================
