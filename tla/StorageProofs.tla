----------------------------- MODULE StorageProofs -----------------------------
(***************************************************************************)
(* A batch on its way through both storage modules, for every length of    *)
(* the day and every setting of the intervals: the types, the daily tables *)
(* of the mysql module and the day a row goes to, the rows that a batch of *)
(* counters or conversations leaves, and the lines of the csv module.      *)
(***************************************************************************)
EXTENDS Storage, SeqLemmas

\* The types that matter to the tables.
TablesTyped ==
  /\ mysql \in Settings
  /\ DOMAIN db = Kinds
  /\ DOMAIN current = Kinds
  /\ \A k \in Kinds : current[k].day \in Int \cup {NoDay}
  /\ expired \in Int \cup {NoDay}
  /\ stamp \in Nat /\ now \in Nat

\* Between the making of a table and the drop that goes with it, stprocessd stays
\* at that table, and what is to be dropped is older if a day or more is kept.
DropIsOlder ==
  expired # NoDay =>
    /\ phase \in {"start", "mysql"}
    /\ current[Head(todo)].day \in Int
    /\ Kept >= Day => expired < current[Head(todo)].day

TablesInv == TablesTyped /\ DropIsOlder /\ CurrentTableExists

LEMMA KeptType ==
  ASSUME mysql \in Settings
  PROVE  Kept \in Nat
BY MysqlAssumption DEF Kept

\* The day of a time at least a day earlier is an earlier day.
LEMMA EarlierDay ==
  ASSUME NEW t \in Nat, NEW k \in Nat
  PROVE  /\ DayOf(t) \in Int /\ DayOf(t - k) \in Int
         /\ k >= Day => DayOf(t - k) < DayOf(t)
<1>1. Day \in Nat \ {0}
  BY MysqlAssumption
<1> DEFINE a == t \div Day
           b == (t - k) \div Day
           p == t % Day
           q == (t - k) % Day
<1>2. /\ a \in Int /\ p \in 0..Day - 1 /\ t = Day * a + p
      /\ b \in Int /\ q \in 0..Day - 1 /\ t - k = Day * b + q
  BY <1>1
<1> HIDE DEF a, b, p, q
<1>3. ASSUME k >= Day
      PROVE  b < a
  <2> SUFFICES ASSUME b >= a PROVE FALSE
    BY <1>2
  <2>1. Day * b >= Day * a
    BY <1>1, <1>2
  <2> QED BY <1>1, <1>2, <1>3, <2>1
<1> QED BY <1>2, <1>3 DEF a, b, DayOf

LEMMA WithoutTables ==
  ASSUME NEW tables, NEW d
  PROVE  DOMAIN Without(tables, d) = DOMAIN tables \ {d}
BY DEF Without, Restrict

LEMMA InitTables == Init => TablesInv
<1> SUFFICES ASSUME Init PROVE TablesInv
  OBVIOUS
<1>1. /\ mysql \in Settings /\ db = [k \in Kinds |-> <<>>]
      /\ current = [k \in Kinds |-> NoTable] /\ expired = NoDay
      /\ stamp = Epoch /\ now = Epoch
  BY DEF Init, MysqlInit
<1>2. NoTable.day = NoDay
  BY DEF NoTable
<1>3. Epoch \in Nat
  BY StorageAssumption
<1> QED BY <1>1, <1>2, <1>3 DEF TablesInv, TablesTyped, DropIsOlder, CurrentTableExists

\* The table of the day is there after it was made, and what expired is older.
LEMMA StepCreate ==
  ASSUME TablesInv, NEW k \in Kinds, Create(k)
  PROVE  TablesInv'
<1> DEFINE d == DayOf(stamp)
           e == DayOf(stamp - Kept)
<1>1. /\ db' = IF Exists(k, d) THEN db ELSE [db EXCEPT ![k] = With(@, d, <<>>)]
      /\ current' = [current EXCEPT ![k] = [partition |-> PartitionOf(stamp), day |-> d]]
      /\ expired' = e
      /\ k = Head(todo) /\ phase \in {"start", "mysql"}
      /\ UNCHANGED <<mysql, phase, stamp, todo, now>>
  BY DEF Create, CreateTable
<1>2. Kept \in Nat /\ stamp \in Nat
  BY KeptType DEF TablesInv, TablesTyped
<1>3. d \in Int /\ e \in Int /\ (Kept >= Day => e < d)
  BY <1>2, EarlierDay
<1> HIDE DEF d, e
<1>4. Kept' = Kept
  BY <1>1 DEF Kept
<1>5. /\ DOMAIN current' = Kinds
      /\ \A j \in Kinds : current'[j] = IF j = k THEN [partition |-> PartitionOf(stamp), day |-> d]
                                        ELSE current[j]
  BY <1>1 DEF TablesInv, TablesTyped
<1>6. current'[k].day = d /\ \A j \in Kinds \ {k} : current'[j].day = current[j].day
  BY <1>5
<1>7. /\ DOMAIN db' = Kinds
      /\ d \in DOMAIN db'[k]
      /\ \A j \in Kinds \ {k} : db'[j] = db[j]
  <2>1. DOMAIN db = Kinds
    BY DEF TablesInv, TablesTyped
  <2>2. CASE Exists(k, d)
    BY <1>1, <2>1, <2>2 DEF Exists
  <2>3. CASE ~Exists(k, d)
    <3>1. db'[k] = With(db[k], d, <<>>) /\ DOMAIN db' = Kinds
          /\ \A j \in Kinds \ {k} : db'[j] = db[j]
      BY <1>1, <2>1, <2>3
    <3> QED BY <3>1 DEF With
  <2> QED BY <2>2, <2>3
<1>8. TablesTyped'
  BY <1>1, <1>3, <1>5, <1>6, <1>7 DEF TablesInv, TablesTyped
<1>9. DropIsOlder'
  BY <1>1, <1>3, <1>4, <1>6 DEF DropIsOlder
<1>10. CurrentTableExists'
  BY <1>4, <1>6, <1>7 DEF TablesInv, CurrentTableExists, Exists
<1> QED BY <1>8, <1>9, <1>10 DEF TablesInv

LEMMA StepDrop ==
  ASSUME TablesInv, NEW k \in Kinds, Drop(k)
  PROVE  TablesInv'
<1>1. /\ expired # NoDay /\ k = Head(todo)
      /\ db' = [db EXCEPT ![k] = Without(@, expired)]
      /\ expired' = NoDay
      /\ UNCHANGED <<mysql, current, stamp, now>>
  BY DEF Drop, DropExpired
<1>2. Kept' = Kept /\ Kept \in Nat
  BY <1>1, KeptType DEF Kept, TablesInv, TablesTyped
<1>3. /\ DOMAIN db' = Kinds
      /\ DOMAIN db'[k] = DOMAIN db[k] \ {expired}
      /\ \A j \in Kinds \ {k} : db'[j] = db[j]
  <2>1. DOMAIN db = Kinds
    BY DEF TablesInv, TablesTyped
  <2>2. /\ DOMAIN db' = Kinds /\ db'[k] = Without(db[k], expired)
        /\ \A j \in Kinds \ {k} : db'[j] = db[j]
    BY <1>1, <2>1
  <2> QED BY <2>2, WithoutTables
<1>4. Kept >= Day => expired # current[k].day
  <2>1. current[k].day \in Int /\ expired \in Int
    BY <1>1 DEF TablesInv, TablesTyped, DropIsOlder
  <2>2. Kept >= Day => expired < current[k].day
    BY <1>1 DEF TablesInv, DropIsOlder
  <2> QED BY <2>1, <2>2
<1>5. TablesTyped' /\ DropIsOlder'
  BY <1>1, <1>3 DEF TablesInv, TablesTyped, DropIsOlder
<1>6. CurrentTableExists'
  BY <1>1, <1>2, <1>3, <1>4 DEF TablesInv, CurrentTableExists, Exists
<1> QED BY <1>5, <1>6 DEF TablesInv

\* Rows are put into a table that is there, so that none appears or goes.
LEMMA StepLoad ==
  ASSUME TablesInv, NEW k \in Kinds, NEW rows, Load(k, rows), Ready(k), UNCHANGED <<stamp, now>>
  PROVE  TablesInv'
<1>1. UNCHANGED <<mysql, current, expired>> /\ expired = NoDay
  BY DEF Load, Ready
<1>2. DOMAIN db' = Kinds /\ \A j \in Kinds : DOMAIN db'[j] = DOMAIN db[j]
  <2>1. DOMAIN db = Kinds
    BY DEF TablesInv, TablesTyped
  <2>2. CASE ~Exists(k, current[k].day)
    BY <2>1, <2>2 DEF Load
  <2>3. CASE Exists(k, current[k].day)
    <3> DEFINE d == current[k].day
               more == db[k][d] \o rows
    <3>1. db' = [db EXCEPT ![k] = With(@, d, more)]
      BY <2>3 DEF Load
    <3>2. d \in DOMAIN db[k]
      BY <2>3 DEF Exists
    <3> HIDE DEF d, more
    <3>3. DOMAIN db' = Kinds /\ db'[k] = With(db[k], d, more)
          /\ \A j \in Kinds \ {k} : db'[j] = db[j]
      BY <2>1, <3>1
    <3> QED BY <3>2, <3>3 DEF With
  <2> QED BY <2>2, <2>3
<1>3. Kept' = Kept
  BY <1>1 DEF Kept
<1> QED BY <1>1, <1>2, <1>3
        DEF TablesInv, TablesTyped, DropIsOlder, CurrentTableExists, Exists

\* With the memory of stprocessd the names of its tables go.
LEMMA StepCrash ==
  ASSUME TablesInv, Crash
  PROVE  TablesInv'
<1>1. /\ current' = [k \in Kinds |-> NoTable] /\ expired' = NoDay /\ stamp' = 0
      /\ UNCHANGED <<mysql, db, now>>
  BY DEF Crash, Forget
<1>2. NoTable.day = NoDay
  BY DEF NoTable
<1> QED BY <1>1, <1>2 DEF TablesInv, TablesTyped, DropIsOlder, CurrentTableExists

\* The other steps leave the tables alone, and leave a pending drop pending.
LEMMA StepOther ==
  ASSUME TablesInv, UNCHANGED tableVars, stamp' \in Nat, now' \in Nat,
         UNCHANGED <<phase, todo>> \/ phase \notin {"start", "mysql"}
  PROVE  TablesInv'
<1>1. UNCHANGED <<mysql, db, current, expired>>
  BY DEF tableVars
<1>2. Kept' = Kept
  BY <1>1 DEF Kept
<1>3. DropIsOlder'
  BY <1>1, <1>2 DEF TablesInv, DropIsOlder
<1> QED BY <1>1, <1>2, <1>3 DEF TablesInv, TablesTyped, CurrentTableExists, Exists

LEMMA StepTables ==
  ASSUME TablesInv, [Next]_vars
  PROVE  TablesInv'
<1>0. stamp \in Nat /\ now \in Nat /\ Epoch \in Nat
  BY StorageAssumption DEF TablesInv, TablesTyped
<1>1. CASE Start
  BY <1>0, <1>1, StepOther DEF Start
<1>2. ASSUME NEW t \in Epoch..MaxMinute, BeginFlow(t) \/ BeginCounters(t)
      PROVE  TablesInv'
  <2>1. \E type, samples : Begin(type, t, samples)
    BY <1>2 DEF BeginFlow, BeginCounters
  <2>2. phase = "idle" /\ stamp' = t /\ UNCHANGED <<tableVars, now>>
    BY <2>1 DEF Begin
  <2>3. t \in Nat
    BY <1>0, StorageAssumption
  <2> QED BY <1>0, <2>2, <2>3, StepOther
<1>3. CASE \E t \in Tails : ReadFlow(t)
  BY <1>0, <1>3, StepOther DEF ReadFlow
<1>4. CASE ReadCounter
  BY <1>0, <1>4, StepOther DEF ReadCounter
<1>5. CASE FlowRead \/ CountersRead
  BY <1>0, <1>5, StepOther DEF FlowRead, CountersRead, AllRead
<1>6. CASE StoreCsv \/ CsvDone
  BY <1>0, <1>6, StepOther DEF StoreCsv, CsvDone
<1>7. CASE \E k \in Kinds : Create(k) \/ Drop(k)
  BY <1>7, StepCreate, StepDrop
<1>8. ASSUME NEW l \in Layers, StoreConversations(l)
      PROVE  TablesInv'
  <2>1. l \in Kinds
    BY DEF Layers, Kinds
  <2>2. (\E rows : Load(l, rows)) /\ Ready(l) /\ UNCHANGED <<stamp, now>>
    BY <1>8 DEF StoreConversations
  <2> QED BY <2>1, <2>2, StepLoad
<1>9. CASE InsertBulk \/ InsertRest
  <2>1. "counters" \in Kinds
    BY DEF Kinds
  <2>2. (\E rows : Load("counters", rows)) /\ Ready("counters") /\ UNCHANGED <<stamp, now>>
    BY <1>9 DEF InsertBulk, InsertRest
  <2> QED BY <2>1, <2>2, StepLoad
<1>10. CASE Crash
  BY <1>10, StepCrash
<1>11. CASE Tick
  BY <1>0, <1>11, StepOther DEF Tick
<1>12. CASE UNCHANGED vars
  BY <1>0, <1>12, StepOther DEF vars
<1> QED BY <1>1, <1>2, <1>3, <1>4, <1>5, <1>6, <1>7, <1>8, <1>9, <1>10, <1>11, <1>12 DEF Next

\* Whatever the intervals, as long as a day or more is kept, the table that the
\* next rows go to exists (storage_mysql_create_*, with its DROP TABLE).
THEOREM StorageCurrentTable == Spec => []CurrentTableExists
<1>1. TablesInv => CurrentTableExists
  BY DEF TablesInv
<1> QED BY <1>1, InitTables, StepTables, PTL DEF Spec
-----------------------------------------------------------------------------
(* The types of everything stprocessd holds, and what its work is on.      *)

Conversation == [key : Seq(Nat), tail : Nat, frames : 0..Word - 1, bytes : 0..Word - 1]

\* The samples are those of the batch's type, and so are the tables to be stored.
WorkTyped ==
  /\ phase \in {"off", "start", "idle"} => cursor = 0
  /\ batch.type = "flow" => batch.samples \in Seq(Frames)
  /\ batch.type = "cntr" => batch.samples \in Seq(Counter)
  /\ phase = "csv" => batch.type = "cntr"
  /\ phase = "mysql" /\ batch.type = "flow" => todo \in Seq(Layers)
  /\ phase = "mysql" /\ batch.type = "cntr" => todo = <<"counters">>

TypesInv == TypeOK /\ WorkTyped

LEMMA SequenceReplaced ==
  ASSUME NEW S, NEW s \in Seq(S), NEW i, NEW x, i \in DOMAIN s => x \in S
  PROVE  [s EXCEPT ![i] = x] \in Seq(S)
<1> DEFINE r == [s EXCEPT ![i] = x]
<1>1. Len(s) \in Nat /\ DOMAIN s = 1..Len(s) /\ \A j \in 1..Len(s) : s[j] \in S
  OBVIOUS
<1>2. DOMAIN r = DOMAIN s /\ \A j \in DOMAIN s : r[j] = IF j = i THEN x ELSE s[j]
  OBVIOUS
<1>3. r = [j \in 1..Len(s) |-> r[j]]
  BY <1>1
<1> HIDE DEF r
<1>4. \A j \in 1..Len(s) : r[j] \in S
  BY <1>1, <1>2
<1>5. r \in Seq(S)
  BY <1>1, <1>3, <1>4
<1> QED BY <1>5 DEF r

LEMMA Remainder ==
  ASSUME NEW x \in Nat, NEW n \in Nat \ {0}
  PROVE  x % n \in 0..n - 1
OBVIOUS

LEMMA CountedType ==
  ASSUME NEW c, NEW f \in Frames, c.key \in Seq(Nat), c.tail \in Nat, c.frames \in Nat, c.bytes \in Nat,
         c = [key |-> c.key, tail |-> c.tail, frames |-> c.frames, bytes |-> c.bytes]
  PROVE  Counted(c, f) \in Conversation
<1>1. f.length \in Nat /\ Word \in Nat \ {0}
  BY ConvTableAssumption
<1> DEFINE a == (c.frames + 1) % Word
           b == (c.bytes + f.length) % Word
<1>2. a \in 0..Word - 1 /\ b \in 0..Word - 1
  <2>1. c.frames + 1 \in Nat /\ c.bytes + f.length \in Nat
    BY <1>1
  <2>2. \A x \in Nat : x % Word \in 0..Word - 1
    BY <1>1, Remainder
  <2> QED BY <2>1, <2>2
<1>3. Counted(c, f) = [c EXCEPT !.frames = a, !.bytes = b]
  BY DEF Counted
<1> HIDE DEF a, b
<1>4. Counted(c, f) = [key |-> c.key, tail |-> c.tail, frames |-> a, bytes |-> b]
  BY <1>3
<1> QED BY <1>2, <1>4 DEF Conversation

LEMMA AddToType ==
  ASSUME NEW list \in Seq(Conversation), NEW key \in Seq(Nat), NEW tail \in Nat, NEW f \in Frames
  PROVE  AddTo(list, key, tail, f) \in Seq(Conversation)
<1> DEFINE found == {i \in DOMAIN list : list[i].key = key /\ list[i].tail = tail}
           new == [key |-> key, tail |-> tail, frames |-> 0, bytes |-> 0]
           j == CHOOSE i \in found : TRUE
<1>1. CASE found = {}
  <2>1. AddTo(list, key, tail, f) = <<Counted(new, f)>> \o list
    BY <1>1 DEF AddTo
  <2>2. Counted(new, f) \in Conversation
    BY CountedType
  <2> QED BY <2>1, <2>2
<1>2. CASE found # {}
  <2>1. AddTo(list, key, tail, f) = [list EXCEPT ![j] = Counted(@, f)]
    BY <1>2 DEF AddTo
  <2>2. j \in DOMAIN list
    BY <1>2
  <2> HIDE DEF found, j
  <2>3. list[j] \in Conversation
    BY <2>2
  <2>4. Counted(list[j], f) \in Conversation
    <3>1. Word \in Nat
      BY ConvTableAssumption
    <3>2. /\ list[j].key \in Seq(Nat) /\ list[j].tail \in Nat
          /\ list[j].frames \in Nat /\ list[j].bytes \in Nat
          /\ list[j] = [key |-> list[j].key, tail |-> list[j].tail,
                        frames |-> list[j].frames, bytes |-> list[j].bytes]
      BY <2>3, <3>1 DEF Conversation
    <3> QED BY <3>2, CountedType
  <2>5. [list EXCEPT ![j] = Counted(@, f)] = [list EXCEPT ![j] = Counted(list[j], f)]
    OBVIOUS
  <2> QED BY <2>1, <2>4, <2>5, SequenceReplaced
<1> QED BY <1>1, <1>2

LEMMA KeyType ==
  ASSUME NEW l \in Layers, NEW f \in Frames
  PROVE  KeyOf(l, f) \in Seq(Nat)
<1>1. /\ f.interfaces \in Seq(Nat) /\ f.macs \in Seq(Nat)
      /\ f.addresses \in Seq(Nat) /\ f.ports \in Seq(Nat)
  BY ConvTableAssumption
<1>2. /\ f.interfaces \o f.macs \in Seq(Nat)
      /\ f.interfaces \o f.addresses \in Seq(Nat)
      /\ (f.interfaces \o f.addresses) \o f.ports \in Seq(Nat)
  BY <1>1
<1> QED BY <1>2 DEF KeyOf

LEMMA EmptyTablesType == EmptyTables \in [Layers -> [HashBuckets -> Seq(Conversation)]]
BY DEF EmptyTables

LEMMA ProcessSampleType ==
  ASSUME ConvTypeOK, NEW f \in Frames, NEW t \in Tails, ProcessSample(f, t)
  PROVE  conv' \in [Layers -> [HashBuckets -> Seq(Conversation)]]
<1>1. conv \in [Layers -> [HashBuckets -> Seq(Conversation)]]
  BY DEF ConvTypeOK, Conversation
<1> DEFINE add(l, list) == AddTo(list, KeyOf(l, f), IF l = "ip" THEN t ELSE 0, f)
           new(l) == IF l \in LayersOf(f)
                     THEN [conv[l] EXCEPT ![HashOf(KeyOf(l, f))] = add(l, @)]
                     ELSE conv[l]
<1>2. conv' = [l \in Layers |-> new(l)]
  BY DEF ProcessSample
<1>3. ASSUME NEW l \in Layers
      PROVE  new(l) \in [HashBuckets -> Seq(Conversation)]
  <2>1. t \in Nat
    BY ConvTableAssumption
  <2>2. KeyOf(l, f) \in Seq(Nat)
    BY KeyType
  <2>3. \A list \in Seq(Conversation) : add(l, list) \in Seq(Conversation)
    BY <2>1, <2>2, AddToType
  <2> DEFINE h == HashOf(KeyOf(l, f))
  <2> HIDE DEF add, h
  <2>4. [conv[l] EXCEPT ![h] = add(l, @)] \in [HashBuckets -> Seq(Conversation)]
    BY <1>1, <2>3
  <2> QED BY <1>1, <2>4 DEF h
<1> HIDE DEF new
<1> QED BY <1>2, <1>3

\* The conversations of a layer, from all buckets.
LEMMA ConversationsType ==
  ASSUME ConvTypeOK, NEW l \in Layers
  PROVE  Conversations(l) \in Seq(Conversation)
<1> DEFINE p == [k \in 1..HashRange |-> conv[l][k - 1]]
<1>1. HashRange \in Nat
  BY ConvTableAssumption
<1>2. conv[l] \in [HashBuckets -> Seq(Conversation)]
  BY DEF ConvTypeOK, Conversation
<1>3. p \in [1..HashRange -> Seq(Conversation)]
  BY <1>1, <1>2 DEF HashBuckets
<1> HIDE DEF p
<1>4. FlattenSeq(p) \in Seq(Conversation)
  BY <1>1, <1>3, FlattenElements
<1> QED BY <1>4 DEF Conversations, p
LEMMA RowType ==
  /\ \A b \in Nat, t \in Nat, c \in Conversation :
       [batch |-> b, timestamp |-> t, key |-> c.key, frames |-> c.frames, bytes |-> c.bytes] \in Row
  /\ \A b \in Nat, n \in Nat : [batch |-> b, id |-> n] \in Row
BY DEF Row, Conversation

\* The tables of one kind, as functions.
LEMMA WithRows ==
  ASSUME NEW R, NEW tables, NEW d \in Int, NEW rows \in Seq(R),
         DOMAIN tables \subseteq Int, \A x \in DOMAIN tables : tables[x] \in Seq(R)
  PROVE  /\ DOMAIN With(tables, d, rows) = DOMAIN tables \cup {d}
         /\ \A x \in DOMAIN With(tables, d, rows) :
              With(tables, d, rows)[x] = IF x = d THEN rows ELSE tables[x]
         /\ DOMAIN With(tables, d, rows) \subseteq Int
         /\ \A x \in DOMAIN With(tables, d, rows) : With(tables, d, rows)[x] \in Seq(R)
BY DEF With

LEMMA WithoutRows ==
  ASSUME NEW tables, NEW d
  PROVE  \A x \in DOMAIN tables \ {d} : Without(tables, d)[x] = tables[x]
BY DEF Without, Restrict

\* The tables of kind k are replaced.
LEMMA TablesReplaced ==
  ASSUME NEW R, MysqlTypeOK(R), NEW k \in Kinds, NEW tables,
         db' = [db EXCEPT ![k] = tables],
         DOMAIN tables \subseteq Int, \A d \in DOMAIN tables : tables[d] \in Seq(R),
         mysql' = mysql, current' \in [Kinds -> Table], expired' \in Int \cup {NoDay}
  PROVE  MysqlTypeOK(R)'
<1>1. DOMAIN db = Kinds
  BY DEF MysqlTypeOK
<1>2. DOMAIN db' = Kinds /\ db'[k] = tables /\ \A j \in Kinds \ {k} : db'[j] = db[j]
  BY <1>1
<1>3. \A j \in Kinds : DOMAIN db'[j] \subseteq Int /\ \A d \in DOMAIN db'[j] : db'[j][d] \in Seq(R)
  BY <1>2 DEF MysqlTypeOK
<1> QED BY <1>2, <1>3 DEF MysqlTypeOK

LEMMA PartitionType ==
  ASSUME mysql \in Settings, NEW t \in Nat
  PROVE  PartitionOf(t) \in Int /\ DayOf(t) \in Int
BY MysqlAssumption DEF PartitionOf, DayOf

LEMMA CreateTableType ==
  ASSUME MysqlTypeOK(Row), stamp \in Nat, NEW k \in Kinds, CreateTable(k, stamp)
  PROVE  MysqlTypeOK(Row)'
<1>1. mysql \in Settings /\ mysql' = mysql
  BY DEF MysqlTypeOK, CreateTable
<1> DEFINE d == DayOf(stamp)
           e == DayOf(stamp - Kept)
           p == PartitionOf(stamp)
<1>2. d \in Int /\ p \in Int /\ e \in Int
  BY <1>1, KeptType, EarlierDay, PartitionType
<1>3. /\ db' = IF Exists(k, d) THEN db ELSE [db EXCEPT ![k] = With(@, d, <<>>)]
      /\ current' = [current EXCEPT ![k] = [partition |-> p, day |-> d]]
      /\ expired' = e
  BY DEF CreateTable
<1> HIDE DEF d, e, p
<1>4. current' \in [Kinds -> Table]
  BY <1>2, <1>3 DEF MysqlTypeOK, Table
<1>5. DOMAIN db = Kinds /\ DOMAIN db[k] \subseteq Int /\ \A x \in DOMAIN db[k] : db[k][x] \in Seq(Row)
  BY DEF MysqlTypeOK
<1>6. CASE Exists(k, d)
  BY <1>1, <1>2, <1>3, <1>4, <1>6 DEF MysqlTypeOK
<1>7. CASE ~Exists(k, d)
  <2> DEFINE tables == With(db[k], d, <<>>)
  <2>1. db' = [db EXCEPT ![k] = tables]
    BY <1>3, <1>7
  <2>2. DOMAIN tables \subseteq Int /\ \A x \in DOMAIN tables : tables[x] \in Seq(Row)
    <3>1. <<>> \in Seq(Row)
      OBVIOUS
    <3> QED BY <1>2, <1>5, <3>1, WithRows
  <2> HIDE DEF tables
  <2> QED BY <1>1, <1>2, <1>3, <1>4, <2>1, <2>2, TablesReplaced
<1> QED BY <1>6, <1>7

LEMMA DropExpiredType ==
  ASSUME MysqlTypeOK(Row), NEW k \in Kinds, DropExpired(k)
  PROVE  MysqlTypeOK(Row)'
<1> DEFINE tables == Without(db[k], expired)
<1>1. /\ db' = [db EXCEPT ![k] = tables]
      /\ mysql' = mysql /\ current' = current /\ expired' = NoDay
  BY DEF DropExpired
<1>2. current' \in [Kinds -> Table] /\ expired' \in Int \cup {NoDay}
  BY <1>1 DEF MysqlTypeOK
<1>3. DOMAIN db[k] \subseteq Int /\ \A x \in DOMAIN db[k] : db[k][x] \in Seq(Row)
  BY DEF MysqlTypeOK
<1>4. DOMAIN tables \subseteq Int /\ \A x \in DOMAIN tables : tables[x] \in Seq(Row)
  <2>1. DOMAIN tables = DOMAIN db[k] \ {expired}
    BY WithoutTables
  <2>2. \A x \in DOMAIN db[k] \ {expired} : tables[x] = db[k][x]
    BY WithoutRows
  <2> HIDE DEF tables
  <2> QED BY <1>3, <2>1, <2>2
<1> HIDE DEF tables
<1> QED BY <1>1, <1>2, <1>4, TablesReplaced

LEMMA LoadType ==
  ASSUME MysqlTypeOK(Row), NEW k \in Kinds, NEW rows \in Seq(Row), Load(k, rows)
  PROVE  MysqlTypeOK(Row)'
<1>1. mysql' = mysql /\ current' = current /\ expired' = expired
  BY DEF Load
<1>2. current' \in [Kinds -> Table] /\ expired' \in Int \cup {NoDay}
  BY <1>1 DEF MysqlTypeOK
<1>3. DOMAIN db = Kinds /\ DOMAIN db[k] \subseteq Int /\ \A x \in DOMAIN db[k] : db[k][x] \in Seq(Row)
  BY DEF MysqlTypeOK
<1> DEFINE d == current[k].day
           more == db[k][d] \o rows
<1>4. CASE ~Exists(k, d)
  BY <1>1, <1>2, <1>4 DEF MysqlTypeOK, Load
<1>5. CASE Exists(k, d)
  <2> DEFINE tables == With(db[k], d, more)
  <2>1. db' = [db EXCEPT ![k] = tables]
    BY <1>5 DEF Load
  <2>2. d \in DOMAIN db[k]
    BY <1>5 DEF Exists
  <2>3. d \in Int /\ more \in Seq(Row)
    BY <1>3, <2>2
  <2> HIDE DEF d, more
  <2>4. DOMAIN tables \subseteq Int /\ \A x \in DOMAIN tables : tables[x] \in Seq(Row)
    BY <1>3, <2>3, WithRows
  <2> HIDE DEF tables
  <2> QED BY <1>1, <1>2, <2>1, <2>4, TablesReplaced
<1> QED BY <1>4, <1>5

\* hash_lookup finds the first entry of the interface, if there is one.
LEMMA LeastFound ==
  ASSUME NEW n \in Nat, NEW T \in SUBSET (1..n), T # {}
  PROVE  Min(T) \in T /\ \A m \in T : Min(T) <= m
<1>1. T \in SUBSET Nat
  OBVIOUS
<1>2. \E m \in T : \A i \in T : m <= i
  BY <1>1, LeastNatural
<1> QED BY <1>2 DEF Min

LEMMA WriteLineType ==
  ASSUME CsvTypeOK, NEW s \in Counter, WriteLine(s)
  PROVE  CsvTypeOK'
<1> DEFINE b      == s.agent % CsvBuckets
           bucket == status[b]
           found  == {i \in DOMAIN bucket : Same(bucket[i], s)}
           since  == IF found = {} THEN 0 ELSE bucket[Min(found)].id
           line   == [id |-> s.id, since |-> since]
           file   == csv[csvFile]
           lines  == IF csvPos < Len(file) THEN [file EXCEPT ![csvPos + 1] = line]
                     ELSE Append(file, line)
           entries == IF found = {} THEN <<s>> \o bucket
                      ELSE [bucket EXCEPT ![Min(found)] = [@ EXCEPT !.id = s.id]]
<1>1. /\ csv' = [csv EXCEPT ![csvFile] = lines]
      /\ csvPos' = csvPos + 1
      /\ status' = [status EXCEPT ![b] = entries]
      /\ written' = Append(written, [sample |-> s, file |-> csvFile])
      /\ csvFile' = csvFile
  BY DEF WriteLine
<1>2. s.agent \in Nat /\ s.interface \in Nat /\ s.id \in Nat
  BY DEF Counter
<1>3. b \in 0..CsvBuckets - 1
  BY <1>2, CsvAssumption, Remainder
<1> HIDE DEF b
<1>4. bucket \in Seq(Counter)
  BY <1>3 DEF CsvTypeOK
<1> HIDE DEF bucket
<1>5. found # {} => Min(found) \in DOMAIN bucket
  <2>1. found \in SUBSET (1..Len(bucket)) /\ Len(bucket) \in Nat
    BY <1>4
  <2> QED BY <2>1, LeastFound
<1> HIDE DEF found
<1>6. since \in Nat
  <2>1. \A e \in Counter : e.id \in Nat
    BY DEF Counter
  <2>2. \A i \in DOMAIN bucket : bucket[i] \in Counter
    BY <1>4
  <2> QED BY <1>5, <2>1, <2>2
<1>7. entries \in Seq(Counter)
  <2>1. CASE found = {}
    BY <1>4, <2>1
  <2>2. CASE found # {}
    <3> DEFINE m == Min(found)
               e == [bucket[m] EXCEPT !.id = s.id]
    <3>1. m \in DOMAIN bucket
      BY <1>5, <2>2
    <3> HIDE DEF m
    <3>2. bucket[m] \in Counter
      BY <1>4, <3>1
    <3>3. e \in Counter
      BY <1>2, <3>2 DEF Counter
    <3>4. entries = [bucket EXCEPT ![m] = e]
      BY <2>2 DEF m
    <3> HIDE DEF e, entries
    <3>5. PICK w, p : w = e /\ p = m
      OBVIOUS
    <3>6. w \in Counter /\ entries = [bucket EXCEPT ![p] = w]
      BY <3>3, <3>4, <3>5
    <3>7. [bucket EXCEPT ![p] = w] \in Seq(Counter)
      BY <1>4, <3>6, SequenceReplaced
    <3> QED BY <3>6, <3>7
  <2> QED BY <2>1, <2>2
<1>8. status' \in [0..CsvBuckets - 1 -> Seq(Counter)]
  <2> HIDE DEF entries
  <2> QED BY <1>1, <1>7 DEF CsvTypeOK
<1>9. line \in [id : Nat, since : Nat]
  BY <1>2, <1>6
<1>10. \A m \in DOMAIN csv' : m \in Nat /\ csv'[m] \in Seq([id : Nat, since : Nat])
  <2>1. DOMAIN csv' = DOMAIN csv
        /\ \A m \in DOMAIN csv : csv'[m] = IF m = csvFile THEN lines ELSE csv[m]
    BY <1>1
  <2>2. csvFile \in DOMAIN csv => lines \in Seq([id : Nat, since : Nat])
    <3> SUFFICES ASSUME csvFile \in DOMAIN csv PROVE lines \in Seq([id : Nat, since : Nat])
      OBVIOUS
    <3>1. file \in Seq([id : Nat, since : Nat])
      BY DEF CsvTypeOK
    <3> HIDE DEF file, line
    <3> DEFINE L == [id : Nat, since : Nat]
               n == csvPos + 1
    <3> HIDE DEF L, n
    <3>2. line \in L /\ file \in Seq(L)
      BY <1>9, <3>1 DEF L
    <3>3. [file EXCEPT ![n] = line] \in Seq(L)
      BY <3>2, SequenceReplaced
    <3>4. Append(file, line) \in Seq(L)
      BY <3>2
    <3> QED BY <3>3, <3>4 DEF L, n
  <2> HIDE DEF lines
  <2> QED BY <2>1, <2>2 DEF CsvTypeOK
<1>11. csvFile' \in Nat /\ csvPos' \in Nat
  BY <1>1 DEF CsvTypeOK
<1>12. written' \in Seq([sample : Counter, file : Nat])
  <2> DEFINE E == [sample : Counter, file : Nat]
             w == [sample |-> s, file |-> csvFile]
  <2>1. w \in E /\ written \in Seq(E)
    BY DEF CsvTypeOK
  <2> HIDE DEF E, w
  <2>2. Append(written, w) \in Seq(E)
    BY <2>1
  <2> QED BY <1>1, <2>2 DEF E, w
<1> QED BY <1>8, <1>10, <1>11, <1>12 DEF CsvTypeOK

LEMMA OpenCsvType ==
  ASSUME CsvTypeOK, now \in Nat, OpenCsv(now)
  PROVE  CsvTypeOK'
<1>1. CASE csvFile = 0 \/ now - csvFile >= Rotation
  <2>1. /\ csvFile' = now /\ csvPos' = 0 /\ status' = status /\ written' = written
        /\ csv' = [m \in DOMAIN csv \cup {now} |-> IF m \in DOMAIN csv THEN csv[m] ELSE <<>>]
    BY <1>1 DEF OpenCsv
  <2>2. \A m \in DOMAIN csv' : m \in Nat /\ csv'[m] \in Seq([id : Nat, since : Nat])
    BY <2>1 DEF CsvTypeOK
  <2> QED BY <2>1, <2>2 DEF CsvTypeOK
<1>2. CASE ~(csvFile = 0 \/ now - csvFile >= Rotation)
  BY <1>2 DEF OpenCsv, csvVars, CsvTypeOK
<1> QED BY <1>1, <1>2

LEMMA NoStatusType == NoStatus \in [0..CsvBuckets - 1 -> Seq(Counter)]
BY DEF NoStatus

LEMMA CloseCsvType ==
  ASSUME CsvTypeOK, CloseCsv
  PROVE  CsvTypeOK'
<1>1. /\ status' = NoStatus /\ csvFile' = 0 /\ csvPos' = 0 /\ written' = <<>> /\ csv' = csv
  BY DEF CloseCsv
<1> QED BY <1>1, NoStatusType DEF CsvTypeOK
\* What TypeOK says of the work of stprocessd, apart from the stores.
ProcessTyped ==
  /\ phase \in {"off", "start", "idle", "read", "csv", "mysql"}
  /\ batch \in Batch
  /\ stamp \in Nat
  /\ todo \in Seq(Kinds)
  /\ phase \in {"start", "mysql"} => todo # <<>>
  /\ cursor \in 0..Len(batch.samples)
  /\ batches \in Seq(Batch)
  /\ begun \in 0..MaxBatches
  /\ latest \in [{"flow", "cntr"} -> Nat]
  /\ taken \in Nat
  /\ now \in Nat
  /\ crashes \in 0..MaxCrashes

LEMMA TypesParts ==
  TypesInv <=> /\ ConvTypeOK /\ MysqlTypeOK(Row) /\ CsvTypeOK
               /\ ProcessTyped /\ WorkTyped
BY DEF TypesInv, TypeOK, ProcessTyped

LEMMA StoresUnchanged ==
  /\ ConvTypeOK /\ UNCHANGED conv => ConvTypeOK'
  /\ MysqlTypeOK(Row) /\ UNCHANGED tableVars => MysqlTypeOK(Row)'
  /\ CsvTypeOK /\ UNCHANGED csvVars => CsvTypeOK'
BY DEF ConvTypeOK, tableVars, MysqlTypeOK, csvVars, CsvTypeOK

LEMMA FlowTablesType == FlowTables \in Seq(Layers) /\ FlowTables \in Seq(Kinds) /\ FlowTables # <<>>
BY DEF FlowTables, Layers, Kinds

LEMMA NoBatchType == NoBatch \in Batch /\ NoBatch.samples = <<>> /\ NoBatch.type = "flow"
<1>1. <<>> \in Seq(Frames \cup Counter)
  OBVIOUS
<1> QED BY <1>1 DEF NoBatch, Batch

LEMMA BatchFields ==
  ASSUME NEW b \in Batch
  PROVE  /\ b.number \in Nat /\ b.type \in {"flow", "cntr"} /\ b.timestamp \in Nat
         /\ b.samples \in Seq(Frames \cup Counter) /\ Len(b.samples) \in Nat
<1>1. b.samples \in Seq(Frames \cup Counter)
  BY DEF Batch
<1> QED BY <1>1 DEF Batch

LEMMA InitTypes == Init => TypesInv
<1> SUFFICES ASSUME Init PROVE TypesInv
  OBVIOUS
<1>1. ConvTypeOK
  BY EmptyTablesType DEF Init, ConvTypeOK, Conversation
<1>2. MysqlTypeOK(Row)
  <2>1. 0 \in Int /\ NoTable \in Table
    BY DEF NoTable, Table
  <2>2. /\ mysql \in Settings /\ db = [k \in Kinds |-> <<>>]
        /\ current = [k \in Kinds |-> NoTable] /\ expired = NoDay
    BY DEF Init, MysqlInit
  <2> QED BY <2>1, <2>2 DEF MysqlTypeOK
<1>3. CsvTypeOK
  BY NoStatusType DEF Init, CsvInit, CsvTypeOK
<1>4. ProcessTyped
  <2>1. Epoch \in Nat /\ MaxBatches \in Nat /\ MaxCrashes \in Nat
    BY StorageAssumption
  <2> QED BY <2>1, FlowTablesType, NoBatchType DEF Init, ProcessTyped
<1>5. WorkTyped
  BY NoBatchType DEF Init, WorkTyped
<1> QED BY <1>1, <1>2, <1>3, <1>4, <1>5, TypesParts

\* A step that leaves the batch, what is to be done with it and the rest alone.
LEMMA TypedStores ==
  ASSUME TypesInv, ConvTypeOK', MysqlTypeOK(Row)', CsvTypeOK',
         UNCHANGED <<phase, batch, stamp, todo, batches, begun, latest, taken, now, crashes>>,
         cursor' \in 0..Len(batch.samples),
         phase \in {"off", "start", "idle"} => cursor' = cursor
  PROVE  TypesInv'
<1>1. ProcessTyped /\ WorkTyped
  BY TypesParts
<1>2. ProcessTyped'
  BY <1>1 DEF ProcessTyped
<1>3. WorkTyped'
  BY <1>1 DEF WorkTyped
<1> QED BY <1>2, <1>3 DEF TypesInv, TypeOK, ProcessTyped

\* The same with the types of work and of the stores.
LEMMA TypedParts ==
  ASSUME ConvTypeOK', MysqlTypeOK(Row)', CsvTypeOK', ProcessTyped', WorkTyped'
  PROVE  TypesInv'
BY DEF TypesInv, TypeOK, ProcessTyped

LEMMA TypedStart ==
  ASSUME TypesInv, Start
  PROVE  TypesInv'
<1>1. ConvTypeOK /\ MysqlTypeOK(Row) /\ CsvTypeOK /\ ProcessTyped /\ WorkTyped
  BY TypesParts
<1>2. ConvTypeOK' /\ MysqlTypeOK(Row)' /\ CsvTypeOK'
  BY <1>1, StoresUnchanged DEF Start
<1>3. ProcessTyped'
  BY <1>1, FlowTablesType DEF Start, ProcessTyped
<1>4. WorkTyped'
  BY <1>1 DEF Start, WorkTyped
<1> QED BY <1>2, <1>3, <1>4, TypedParts

LEMMA TypedBegin ==
  ASSUME TypesInv, NEW type \in {"flow", "cntr"}, NEW t \in Epoch..MaxMinute, NEW samples,
         Begin(type, t, samples), ConvTypeOK',
         type = "flow" => samples \in Seq(Frames), type = "cntr" => samples \in Seq(Counter)
  PROVE  TypesInv'
<1>1. ConvTypeOK /\ MysqlTypeOK(Row) /\ CsvTypeOK /\ ProcessTyped /\ WorkTyped
  BY TypesParts
<1>2. /\ phase = "idle" /\ begun < MaxBatches
      /\ phase' = "read" /\ begun' = begun + 1
      /\ latest' = [latest EXCEPT ![type] = t]
      /\ stamp' = t /\ taken' = taken + Len(samples)
      /\ batch' = [number |-> begun', type |-> type, timestamp |-> t, samples |-> samples]
      /\ UNCHANGED <<tableVars, csvVars, todo, cursor, batches, now, crashes>>
  BY DEF Begin
<1>3. MysqlTypeOK(Row)' /\ CsvTypeOK'
  BY <1>1, <1>2, StoresUnchanged
<1>4. t \in Nat /\ samples \in Seq(Frames \cup Counter) /\ Len(samples) \in Nat
  <2>1. t \in Nat
    BY StorageAssumption
  <2>2. Seq(Frames) \subseteq Seq(Frames \cup Counter) /\ Seq(Counter) \subseteq Seq(Frames \cup Counter)
    OBVIOUS
  <2>3. samples \in Seq(Frames \cup Counter)
    BY <2>2
  <2>4. Len(samples) \in Nat
    BY <2>3
  <2> QED BY <2>1, <2>3, <2>4
<1>5. begun' \in 0..MaxBatches /\ begun' \in Nat
  BY <1>1, <1>2, StorageAssumption DEF ProcessTyped
<1>6. batch' \in Batch /\ batch'.samples = samples /\ batch'.type = type
  BY <1>2, <1>4, <1>5 DEF Batch
<1>7. cursor' = 0
  BY <1>1, <1>2 DEF WorkTyped
<1>8. ProcessTyped'
  BY <1>1, <1>2, <1>4, <1>5, <1>6, <1>7 DEF ProcessTyped
<1>9. WorkTyped'
  BY <1>2, <1>6 DEF WorkTyped
<1> QED BY <1>3, <1>8, <1>9, TypedParts

LEMMA TypedBatch ==
  ASSUME TypesInv, NEW t \in Epoch..MaxMinute, BeginFlow(t) \/ BeginCounters(t)
  PROVE  TypesInv'
<1>1. ConvTypeOK /\ taken \in Nat
  BY TypesParts DEF ProcessTyped
<1>2. CASE BeginFlow(t)
  <2>1. PICK file \in FlowFiles : Begin("flow", t, file) /\ ClearTables
    BY <1>2 DEF BeginFlow
  <2>2. ConvTypeOK'
    BY <2>1, EmptyTablesType DEF ClearTables, ConvTypeOK, Conversation
  <2>3. file \in Seq(Frames)
    BY StorageAssumption
  <2> QED BY <2>1, <2>2, <2>3, TypedBegin
<1>3. CASE BeginCounters(t)
  <2>1. PICK file \in CounterFiles :
          /\ Begin("cntr", t, [i \in 1..Len(file) |->
                                 [agent |-> file[i][1], interface |-> file[i][2], id |-> taken + i]])
          /\ UNCHANGED conv
    BY <1>3 DEF BeginCounters
  <2> DEFINE c(i) == [agent |-> file[i][1], interface |-> file[i][2], id |-> taken + i]
             samples == [i \in 1..Len(file) |-> c(i)]
  <2>2. file \in Seq(Nat \X Nat)
    BY StorageAssumption
  <2>3. Len(file) \in Nat /\ \A i \in 1..Len(file) : file[i] \in Nat \X Nat
    BY <2>2
  <2>4. \A i \in 1..Len(file) : c(i) \in Counter
    BY <1>1, <2>3 DEF Counter
  <2> HIDE DEF c
  <2>5. samples \in Seq(Counter)
    BY <2>3, <2>4
  <2>6. Begin("cntr", t, samples)
    BY <2>1 DEF c
  <2>7. ConvTypeOK'
    BY <1>1, <2>1, StoresUnchanged
  <2> HIDE DEF samples
  <2> QED BY <2>5, <2>6, <2>7, TypedBegin
<1> QED BY <1>2, <1>3

LEMMA TypedRead ==
  ASSUME TypesInv, (\E t \in Tails : ReadFlow(t)) \/ ReadCounter
  PROVE  TypesInv'
<1>1. ConvTypeOK /\ MysqlTypeOK(Row) /\ CsvTypeOK /\ ProcessTyped /\ WorkTyped
  BY TypesParts
<1>2. /\ Unread /\ cursor' = cursor + 1
      /\ UNCHANGED <<tableVars, csvVars, phase, batch, stamp, todo, batches, begun, latest, taken, now, crashes>>
  BY DEF ReadFlow, ReadCounter
<1>3. Len(batch.samples) \in Nat /\ cursor \in 0..Len(batch.samples)
  BY <1>1, BatchFields DEF ProcessTyped
<1>4. cursor < Len(batch.samples) /\ phase = "read"
  BY <1>2 DEF Unread
<1>5. cursor' \in 0..Len(batch.samples) /\ cursor + 1 \in 1..Len(batch.samples)
  BY <1>2, <1>3, <1>4
<1>6. MysqlTypeOK(Row)' /\ CsvTypeOK'
  BY <1>1, <1>2, StoresUnchanged
<1>7. ConvTypeOK'
  <2>1. CASE ReadCounter
    BY <1>1, <2>1, StoresUnchanged DEF ReadCounter
  <2>2. ASSUME NEW t \in Tails, ReadFlow(t)
        PROVE  ConvTypeOK'
    <3>1. batch.samples \in Seq(Frames) /\ ProcessSample(batch.samples[cursor + 1], t)
      BY <1>1, <2>2 DEF ReadFlow, WorkTyped
    <3>2. batch.samples[cursor + 1] \in Frames
      BY <1>5, <3>1
    <3>3. conv' \in [Layers -> [HashBuckets -> Seq(Conversation)]]
      BY <1>1, <3>1, <3>2, ProcessSampleType
    <3> QED BY <3>3 DEF ConvTypeOK, Conversation
  <2> QED BY <2>1, <2>2
<1> QED BY <1>2, <1>4, <1>5, <1>6, <1>7, TypedStores

\* The samples of the batch are read, or its lines written: the tables come next.
LEMMA TypedTurn ==
  ASSUME TypesInv, FlowRead \/ CountersRead \/ CsvDone
  PROVE  TypesInv'
<1>1. ConvTypeOK /\ MysqlTypeOK(Row) /\ CsvTypeOK /\ ProcessTyped /\ WorkTyped
  BY TypesParts
<1>2. /\ UNCHANGED <<conv, tableVars, batch, stamp, batches, begun, latest, taken, now, crashes>>
      /\ cursor' = 0
  BY DEF FlowRead, CountersRead, CsvDone
<1>3. /\ FlowRead => batch.type = "flow" /\ phase' = "mysql" /\ todo' = FlowTables
      /\ CountersRead => batch.type = "cntr" /\ phase' = "csv" /\ todo' = todo
      /\ CsvDone => batch.type = "cntr" /\ phase' = "mysql" /\ todo' = <<"counters">>
  BY <1>1 DEF FlowRead, CountersRead, CsvDone, WorkTyped
<1>4. ConvTypeOK' /\ MysqlTypeOK(Row)'
  BY <1>1, <1>2, StoresUnchanged
<1>5. CsvTypeOK'
  <2>1. CASE CountersRead
    BY <1>1, <2>1, OpenCsvType DEF CountersRead, ProcessTyped
  <2>2. CASE FlowRead \/ CsvDone
    BY <1>1, <2>2, StoresUnchanged DEF FlowRead, CsvDone
  <2> QED BY <2>1, <2>2
<1>6. todo' \in Seq(Kinds) /\ (phase' = "mysql" => todo' # <<>>)
  <2>1. <<"counters">> \in Seq(Kinds)
    BY DEF Kinds
  <2>2. <<"counters">> # <<>> /\ todo \in Seq(Kinds)
    BY <1>1 DEF ProcessTyped
  <2>3. todo' = FlowTables \/ todo' = <<"counters">> \/ (todo' = todo /\ phase' = "csv")
    BY <1>3
  <2> QED BY <2>1, <2>2, <2>3, FlowTablesType
<1>7. ProcessTyped'
  <2>1. Len(batch.samples) \in Nat
    BY <1>1, BatchFields DEF ProcessTyped
  <2>2. 0 \in 0..Len(batch.samples)
    BY <2>1
  <2>3. phase' \in {"mysql", "csv"}
    BY <1>3
  <2> QED BY <1>1, <1>2, <1>6, <2>2, <2>3 DEF ProcessTyped
<1>8. WorkTyped'
  BY <1>1, <1>2, <1>3, FlowTablesType DEF WorkTyped
<1> QED BY <1>4, <1>5, <1>7, <1>8, TypedParts

LEMMA TypedCsv ==
  ASSUME TypesInv, StoreCsv
  PROVE  TypesInv'
<1>1. ConvTypeOK /\ MysqlTypeOK(Row) /\ CsvTypeOK /\ ProcessTyped /\ WorkTyped
  BY TypesParts
<1>2. /\ phase = "csv" /\ cursor < Len(batch.samples) /\ cursor' = cursor + 1
      /\ WriteLine(batch.samples[cursor + 1])
      /\ UNCHANGED <<conv, tableVars, phase, batch, stamp, todo, batches, begun, latest, taken, now, crashes>>
  BY DEF StoreCsv
<1>3. Len(batch.samples) \in Nat /\ cursor \in 0..Len(batch.samples)
  BY <1>1, BatchFields DEF ProcessTyped
<1>4. cursor' \in 0..Len(batch.samples) /\ cursor + 1 \in 1..Len(batch.samples)
  BY <1>2, <1>3
<1>5. batch.samples \in Seq(Counter)
  BY <1>1, <1>2 DEF WorkTyped
<1>6. batch.samples[cursor + 1] \in Counter
  BY <1>4, <1>5
<1>7. CsvTypeOK'
  BY <1>1, <1>2, <1>6, WriteLineType
<1>8. ConvTypeOK' /\ MysqlTypeOK(Row)'
  BY <1>1, <1>2, StoresUnchanged
<1> QED BY <1>2, <1>4, <1>7, <1>8, TypedStores
LEMMA TypedCreate ==
  ASSUME TypesInv, NEW k \in Kinds, Create(k)
  PROVE  TypesInv'
<1>1. ConvTypeOK /\ MysqlTypeOK(Row) /\ CsvTypeOK /\ ProcessTyped /\ WorkTyped
  BY TypesParts
<1>2. /\ CreateTable(k, stamp)
      /\ UNCHANGED <<conv, csvVars, phase, batch, stamp, todo, cursor, batches, begun, latest, taken, now, crashes>>
  BY DEF Create
<1>3. MysqlTypeOK(Row)'
  BY <1>1, <1>2, CreateTableType DEF ProcessTyped
<1>4. ConvTypeOK' /\ CsvTypeOK'
  BY <1>1, <1>2, StoresUnchanged
<1>5. cursor' \in 0..Len(batch.samples)
  BY <1>1, <1>2 DEF ProcessTyped
<1> QED BY <1>2, <1>3, <1>4, <1>5, TypedStores

\* What is left of a list of tables.
LEMMA RestOfTables ==
  ASSUME NEW S, NEW s \in Seq(S), s # <<>>
  PROVE  /\ Head(s) \in S /\ Tail(s) \in Seq(S) /\ Len(s) \in Nat \ {0}
         /\ Len(s) # 1 => Tail(s) # <<>>
<1>1. Head(s) \in S /\ Tail(s) \in Seq(S) /\ Len(s) \in Nat \ {0}
  OBVIOUS
<1>2. Len(Tail(s)) = Len(s) - 1
  OBVIOUS
<1> DEFINE t == Tail(s)
<1>3. Len(t) = Len(s) - 1
  BY <1>2
<1> HIDE DEF t
<1>4. t = <<>> => Len(t) = 0
  OBVIOUS
<1>5. Len(s) # 1 => t # <<>>
  BY <1>1, <1>3, <1>4
<1> QED BY <1>1, <1>5 DEF t

LEMMA TypedDrop ==
  ASSUME TypesInv, NEW k \in Kinds, Drop(k)
  PROVE  TypesInv'
<1>1. ConvTypeOK /\ MysqlTypeOK(Row) /\ CsvTypeOK /\ ProcessTyped /\ WorkTyped
  BY TypesParts
<1>2. /\ todo # <<>> /\ DropExpired(k)
      /\ IF phase = "start"
         THEN todo' = Tail(todo) /\ phase' = IF Len(todo) = 1 THEN "idle" ELSE "start"
         ELSE UNCHANGED <<todo, phase>>
      /\ UNCHANGED <<conv, csvVars, batch, stamp, cursor, batches, begun, latest, taken, now, crashes>>
  BY DEF Drop
<1>3. MysqlTypeOK(Row)'
  BY <1>1, <1>2, DropExpiredType
<1>4. ConvTypeOK' /\ CsvTypeOK'
  BY <1>1, <1>2, StoresUnchanged
<1>5. CASE phase = "start"
  <2>1. /\ todo' = Tail(todo) /\ phase' = IF Len(todo) = 1 THEN "idle" ELSE "start"
        /\ todo \in Seq(Kinds)
    BY <1>1, <1>2, <1>5 DEF ProcessTyped
  <2>2. todo' \in Seq(Kinds) /\ (phase' = "start" => todo' # <<>>) /\ phase' \in {"idle", "start"}
    BY <1>2, <2>1, RestOfTables
  <2>3. ProcessTyped'
    BY <1>1, <1>2, <2>2 DEF ProcessTyped
  <2>4. WorkTyped'
    BY <1>1, <1>2, <1>5, <2>2 DEF WorkTyped
  <2> QED BY <1>3, <1>4, <2>3, <2>4, TypedParts
<1>6. CASE phase # "start"
  <2>1. UNCHANGED <<todo, phase>>
    BY <1>2, <1>6
  <2>2. cursor' \in 0..Len(batch.samples)
    BY <1>1, <1>2 DEF ProcessTyped
  <2> QED BY <1>2, <1>3, <1>4, <2>1, <2>2, TypedStores
<1> QED BY <1>5, <1>6

\* After the last table the batch is finished.
LEMMA TypedTableDone ==
  ASSUME TypesInv, ConvTypeOK', MysqlTypeOK(Row)', CsvTypeOK', phase = "mysql", todo # <<>>, TableDone,
         UNCHANGED <<batch, stamp, begun, latest, taken, now, crashes>>
  PROVE  TypesInv'
<1>1. ProcessTyped /\ WorkTyped
  BY TypesParts
<1>2. /\ todo' = Tail(todo) /\ cursor' = 0
      /\ Len(todo) > 1 => UNCHANGED <<phase, batches>>
      /\ ~(Len(todo) > 1) => phase' = "idle" /\ batches' = Append(batches, batch)
  BY DEF TableDone
<1>3. Len(todo) \in Nat \ {0} /\ todo' \in Seq(Kinds) /\ (Len(todo) > 1 => todo' # <<>>)
  <2>1. todo \in Seq(Kinds)
    BY <1>1 DEF ProcessTyped
  <2> QED BY <1>2, <2>1, RestOfTables
<1>4. phase' \in {"idle", "mysql"} /\ (phase' = "mysql" => Len(todo) > 1)
  BY <1>2
<1>5. batches' \in Seq(Batch)
  <2>1. batches \in Seq(Batch) /\ batch \in Batch
    BY <1>1 DEF ProcessTyped
  <2>2. Append(batches, batch) \in Seq(Batch)
    BY <2>1
  <2> QED BY <1>2, <2>1, <2>2
<1>6. cursor' \in 0..Len(batch'.samples)
  BY <1>1, <1>2, BatchFields DEF ProcessTyped
<1>7. ProcessTyped'
  BY <1>1, <1>3, <1>4, <1>5, <1>6 DEF ProcessTyped
<1>8. batch.type = "flow" => todo' \in Seq(Layers)
  BY <1>1, <1>2, RestOfTables DEF WorkTyped
<1>9. batch.type = "cntr" => ~(Len(todo) > 1)
  <2>1. Len(<<"counters">>) = 1
    OBVIOUS
  <2>2. batch.type = "cntr" => Len(todo) = 1
    BY <1>1, <2>1 DEF WorkTyped
  <2> QED BY <2>2
<1>10. WorkTyped'
  BY <1>1, <1>2, <1>4, <1>8, <1>9 DEF WorkTyped
<1> QED BY <1>7, <1>10, TypedParts

LEMMA LayersAreKinds == Layers \subseteq Kinds /\ "counters" \in Kinds /\ "counters" \notin Layers
BY DEF Layers, Kinds

\* The rows of a layer, made of its conversations.
ConversationRows(l) ==
  LET c == Conversations(l)
  IN [i \in 1..Len(c) |->
        [batch |-> batch.number, timestamp |-> stamp, key |-> c[i].key,
         frames |-> c[i].frames, bytes |-> c[i].bytes]]

LEMMA ConversationRowsType ==
  ASSUME TypesInv, NEW l \in Layers
  PROVE  /\ ConversationRows(l) \in Seq(Row)
         /\ \A i \in DOMAIN ConversationRows(l) :
              ConversationRows(l)[i].timestamp = stamp /\ ConversationRows(l)[i].batch = batch.number
<1>1. ConvTypeOK /\ stamp \in Nat /\ batch.number \in Nat
  BY TypesParts, BatchFields DEF ProcessTyped
<1> DEFINE c == Conversations(l)
           row(e) == [batch |-> batch.number, timestamp |-> stamp, key |-> e.key,
                      frames |-> e.frames, bytes |-> e.bytes]
           rows == [i \in 1..Len(c) |-> row(c[i])]
<1>2. c \in Seq(Conversation)
  BY <1>1, ConversationsType
<1>3. ConversationRows(l) = rows
  BY DEF ConversationRows
<1>4. \A e \in Conversation : row(e) \in Row
  BY <1>1, RowType
<1>5. \A e : row(e).timestamp = stamp /\ row(e).batch = batch.number
  OBVIOUS
<1> HIDE DEF c, row
<1>6. Len(c) \in Nat /\ \A i \in 1..Len(c) : c[i] \in Conversation
  BY <1>2
<1>7. rows \in Seq(Row)
  BY <1>4, <1>6
<1>8. \A i \in DOMAIN rows : rows[i].timestamp = stamp /\ rows[i].batch = batch.number
  BY <1>5, <1>6
<1> QED BY <1>3, <1>7, <1>8

LEMMA TypedConversations ==
  ASSUME TypesInv, NEW l \in Layers, StoreConversations(l)
  PROVE  TypesInv'
<1>1. ConvTypeOK /\ MysqlTypeOK(Row) /\ CsvTypeOK /\ ProcessTyped /\ WorkTyped
  BY TypesParts
<1>2. /\ Load(l, ConversationRows(l)) /\ Ready(l) /\ TableDone
      /\ UNCHANGED <<conv, csvVars, batch, stamp, begun, latest, taken, now, crashes>>
  BY DEF StoreConversations, ConversationRows
<1>3. MysqlTypeOK(Row)'
  BY <1>1, <1>2, LayersAreKinds, ConversationRowsType, LoadType
<1>4. ConvTypeOK' /\ CsvTypeOK'
  BY <1>1, <1>2, StoresUnchanged
<1>5. phase = "mysql" /\ todo # <<>>
  BY <1>2 DEF Ready
<1> QED BY <1>2, <1>3, <1>4, <1>5, TypedTableDone

\* Only a batch of counter samples is stored in the table of counters.
LEMMA CountersBatch ==
  ASSUME TypesInv, Ready("counters")
  PROVE  batch.type = "cntr" /\ batch.samples \in Seq(Counter) /\ batch.number \in Nat
<1>1. batch \in Batch /\ WorkTyped /\ phase = "mysql" /\ todo # <<>> /\ "counters" = Head(todo)
  BY TypesParts DEF Ready, ProcessTyped
<1>2. batch.type # "flow"
  <2> SUFFICES ASSUME batch.type = "flow" PROVE FALSE
    OBVIOUS
  <2>1. todo \in Seq(Layers)
    BY <1>1 DEF WorkTyped
  <2>2. Head(todo) \in Layers
    BY <1>1, <2>1, RestOfTables
  <2> QED BY <1>1, <2>2, LayersAreKinds
<1> QED BY <1>1, <1>2, BatchFields DEF WorkTyped

LEMMA CounterRowsType ==
  ASSUME batch.number \in Nat, batch.samples \in Seq(Counter),
         NEW from \in 1..Len(batch.samples) + 1, NEW to \in from - 1..Len(batch.samples)
  PROVE  CounterRows(from, to) \in Seq(Row)
<1> DEFINE n == to - from + 1
           row(i) == [batch |-> batch.number, id |-> batch.samples[from + i - 1].id]
           rows == [i \in 1..n |-> row(i)]
<1>1. Len(batch.samples) \in Nat /\ n \in Nat
  OBVIOUS
<1>2. \A i \in 1..n : from + i - 1 \in 1..Len(batch.samples)
  BY <1>1
<1>3. \A i \in 1..n : batch.samples[from + i - 1].id \in Nat
  <2>1. \A e \in Counter : e.id \in Nat
    BY DEF Counter
  <2>2. \A j \in 1..Len(batch.samples) : batch.samples[j] \in Counter
    OBVIOUS
  <2> QED BY <1>2, <2>1, <2>2
<1>4. \A i \in 1..n : row(i) \in Row
  BY <1>3, RowType
<1>5. CounterRows(from, to) = rows
  BY DEF CounterRows
<1> HIDE DEF n, row
<1>6. rows \in Seq(Row)
  BY <1>1, <1>4
<1> QED BY <1>5, <1>6

LEMMA TypedInsert ==
  ASSUME TypesInv, InsertBulk \/ InsertRest
  PROVE  TypesInv'
<1>1. ConvTypeOK /\ MysqlTypeOK(Row) /\ CsvTypeOK /\ ProcessTyped /\ WorkTyped
  BY TypesParts
<1>2. /\ Ready("counters")
      /\ UNCHANGED <<conv, csvVars, batch, stamp, begun, latest, taken, now, crashes>>
  BY DEF InsertBulk, InsertRest
<1> DEFINE n == Len(batch.samples)
<1>3. batch.number \in Nat /\ batch.samples \in Seq(Counter)
  BY <1>2, CountersBatch
<1>4. n \in Nat /\ cursor \in 0..n /\ Bulk \in Nat \ {0}
  BY <1>1, <1>3, StorageAssumption DEF ProcessTyped
<1>5. ConvTypeOK' /\ CsvTypeOK'
  BY <1>1, <1>2, StoresUnchanged
<1>6. phase = "mysql" /\ todo # <<>>
  BY <1>2 DEF Ready
<1>7. CASE InsertBulk
  <2>1. /\ n - cursor >= Bulk /\ cursor' = cursor + Bulk
        /\ Load("counters", CounterRows(cursor + 1, cursor + Bulk))
        /\ UNCHANGED <<phase, todo, batches>>
    BY <1>7 DEF InsertBulk
  <2>2. cursor + 1 \in 1..n + 1 /\ cursor + Bulk \in (cursor + 1) - 1..n /\ cursor' \in 0..n
    BY <1>4, <2>1
  <2>3. CounterRows(cursor + 1, cursor + Bulk) \in Seq(Row)
    BY <1>3, <2>2, CounterRowsType
  <2>4. MysqlTypeOK(Row)'
    BY <1>1, <2>1, <2>3, LayersAreKinds, LoadType
  <2> QED BY <1>2, <1>5, <1>6, <2>1, <2>2, <2>4, TypedStores
<1>8. CASE InsertRest
  <2>1. TableDone /\ Load("counters", CounterRows(cursor + 1, n))
    BY <1>8 DEF InsertRest
  <2>2. cursor + 1 \in 1..n + 1 /\ n \in (cursor + 1) - 1..n
    BY <1>4
  <2>3. CounterRows(cursor + 1, n) \in Seq(Row)
    BY <1>3, <2>2, CounterRowsType
  <2>4. MysqlTypeOK(Row)'
    BY <1>1, <2>1, <2>3, LayersAreKinds, LoadType
  <2> QED BY <1>2, <1>5, <1>6, <2>1, <2>4, TypedTableDone
<1> QED BY <1>7, <1>8, <1>2 DEF InsertBulk

LEMMA TypedCrash ==
  ASSUME TypesInv, Crash
  PROVE  TypesInv'
<1>1. ConvTypeOK /\ MysqlTypeOK(Row) /\ CsvTypeOK /\ ProcessTyped /\ WorkTyped
  BY TypesParts
<1>2. /\ crashes < MaxCrashes /\ crashes' = crashes + 1 /\ phase' = "off"
      /\ conv' = EmptyTables /\ batch' = NoBatch /\ stamp' = 0 /\ todo' = <<>> /\ cursor' = 0
      /\ Forget /\ CloseCsv
      /\ UNCHANGED <<batches, begun, latest, taken, now>>
  BY DEF Crash
<1>3. ConvTypeOK'
  BY <1>2, EmptyTablesType DEF ConvTypeOK, Conversation
<1>4. MysqlTypeOK(Row)'
  <2>1. NoTable \in Table
    BY DEF NoTable, Table
  <2> QED BY <1>1, <1>2, <2>1 DEF Forget, MysqlTypeOK
<1>5. CsvTypeOK'
  BY <1>1, <1>2, CloseCsvType
<1>6. crashes' \in 0..MaxCrashes
  BY <1>1, <1>2, StorageAssumption DEF ProcessTyped
<1>7. ProcessTyped'
  BY <1>1, <1>2, <1>6, NoBatchType DEF ProcessTyped
<1>8. batch'.type = "flow" /\ batch'.samples \in Seq(Frames)
  BY <1>2, NoBatchType
<1>9. WorkTyped'
  BY <1>2, <1>8 DEF WorkTyped
<1> QED BY <1>3, <1>4, <1>5, <1>7, <1>9, TypedParts

LEMMA TypedTick ==
  ASSUME TypesInv, Tick
  PROVE  TypesInv'
<1>1. ConvTypeOK /\ MysqlTypeOK(Row) /\ CsvTypeOK /\ ProcessTyped /\ WorkTyped
  BY TypesParts
<1>2. ConvTypeOK' /\ MysqlTypeOK(Row)' /\ CsvTypeOK'
  BY <1>1, StoresUnchanged DEF Tick
<1>3. ProcessTyped' /\ WorkTyped'
  BY <1>1 DEF Tick, ProcessTyped, WorkTyped
<1> QED BY <1>2, <1>3, TypedParts

LEMMA StepTypes ==
  ASSUME TypesInv, [Next]_vars
  PROVE  TypesInv'
<1>1. CASE UNCHANGED vars
  <2>1. ConvTypeOK /\ MysqlTypeOK(Row) /\ CsvTypeOK /\ ProcessTyped /\ WorkTyped
    BY TypesParts
  <2>2. ConvTypeOK' /\ MysqlTypeOK(Row)' /\ CsvTypeOK'
    BY <1>1, <2>1, StoresUnchanged DEF vars
  <2>3. ProcessTyped' /\ WorkTyped'
    BY <1>1, <2>1 DEF vars, ProcessTyped, WorkTyped
  <2> QED BY <2>2, <2>3, TypedParts
<1>2. CASE Next
  BY <1>2, TypedStart, TypedBatch, TypedRead, TypedTurn, TypedCsv, TypedCreate, TypedDrop,
     TypedConversations, TypedInsert, TypedCrash, TypedTick DEF Next
<1> QED BY <1>1, <1>2

\* Whatever the files and the settings, the conversations, the tables, the csv files
\* and the batch at work keep their types: in particular no row of a conversation
\* gets into the table of counters, and the counters of a conversation wrap around.
THEOREM StorageType == Spec => []TypeOK
<1>1. TypesInv => TypeOK
  BY DEF TypesInv
<1> QED BY <1>1, InitTypes, StepTypes, PTL DEF Spec
-----------------------------------------------------------------------------
(* The rows of the conversations are in the table of their day.            *)

LEMMA Cancelled ==
  ASSUME NEW n \in Nat \ {0}, NEW x \in Int, NEW y \in Int, n * x < n * y
  PROVE  x < y
<1> SUFFICES ASSUME x >= y PROVE FALSE
  OBVIOUS
<1>1. n * x >= n * y
  OBVIOUS
<1> QED BY <1>1

LEMMA Quotient ==
  ASSUME NEW t \in Nat, NEW n \in Nat \ {0}
  PROVE  /\ t \div n \in Int
         /\ n * (t \div n) <= t /\ t < n * ((t \div n) + 1)
<1> DEFINE q == t \div n
           r == t % n
<1>1. q \in Int /\ r \in 0..n - 1 /\ t = n * q + r
  OBVIOUS
<1> HIDE DEF q, r
<1>2. n * (q + 1) = n * q + n
  BY <1>1
<1>3. n * q <= t /\ t < n * (q + 1)
  BY <1>1, <1>2
<1> QED BY <1>1, <1>3 DEF q

\* If intervals divide a day, a time in no later interval is on no later day.
LEMMA LaterInterval ==
  ASSUME mysql \in Settings, Day % mysql.interval = 0, NEW t \in Nat, NEW s \in Nat,
         PartitionOf(t) <= PartitionOf(s)
  PROVE  DayOf(t) <= DayOf(s)
<1> DEFINE n == mysql.interval
           m == Day \div n
           a == DayOf(t)
           b == DayOf(s)
           p == PartitionOf(t)
           q == PartitionOf(s)
<1>1. n \in Nat \ {0} /\ Day \in Nat \ {0}
  BY MysqlAssumption
<1>2. m \in Int /\ Day = n * m
  BY <1>1
<1>3. a \in Int /\ Day * a <= t
  BY <1>1, Quotient DEF DayOf
<1>4. b \in Int /\ s < Day * (b + 1)
  BY <1>1, Quotient DEF DayOf
<1>5. p \in Int /\ t < n * (p + 1)
  BY <1>1, Quotient DEF PartitionOf
<1>6. q \in Int /\ n * q <= s
  BY <1>1, Quotient DEF PartitionOf
<1> SUFFICES ASSUME b + 1 <= a PROVE FALSE
  BY <1>3, <1>4
<1> HIDE DEF n, m, a, b, p, q
<1> DEFINE c == m * (b + 1)
<1>7. c \in Int /\ Day * (b + 1) = n * c
  BY <1>1, <1>2, <1>4
<1>8. Day * (b + 1) <= Day * a
  BY <1>1, <1>3, <1>4
<1> HIDE DEF c
<1> DEFINE nc == n * c
           nq == n * q
           np == n * (p + 1)
<1>9. nc \in Int /\ nq \in Int /\ np \in Int
  BY <1>1, <1>5, <1>6, <1>7
<1>10. nq < nc /\ nc < np
  <2>1. nc <= t /\ s < nc
    <3>1. Day * a \in Int /\ Day * (b + 1) = nc
      BY <1>1, <1>3, <1>7
    <3> HIDE DEF nc
    <3> QED BY <1>3, <1>4, <1>8, <1>9, <3>1
  <2>2. nq <= s /\ t < np
    BY <1>5, <1>6
  <2> HIDE DEF nc, nq, np
  <2> QED BY <1>9, <2>1, <2>2
<1>11. q < c /\ c < p + 1
  BY <1>1, <1>5, <1>6, <1>7, <1>10, Cancelled
<1>12. p <= q
  BY DEF p, q
<1> QED BY <1>5, <1>6, <1>7, <1>11, <1>12

LEMMA QuotientGrows ==
  ASSUME NEW s \in Nat, NEW t \in Nat, s <= t, NEW n \in Nat \ {0}
  PROVE  s \div n <= t \div n
<1> DEFINE p == s \div n
           q == t \div n
<1>1. p \in Int /\ n * p <= s /\ q \in Int /\ t < n * (q + 1)
  BY Quotient
<1> HIDE DEF p, q
<1>2. n * p \in Int /\ n * (q + 1) \in Int
  BY <1>1
<1>3. n * p < n * (q + 1)
  <2> DEFINE x == n * p
             y == n * (q + 1)
  <2>1. x <= s /\ t < y /\ x \in Int /\ y \in Int
    BY <1>1, <1>2
  <2> HIDE DEF x, y
  <2>2. x < y
    BY <2>1
  <2> QED BY <2>2 DEF x, y
<1>4. p < q + 1
  BY <1>1, <1>3, Cancelled
<1>5. p <= q
  BY <1>1, <1>4
<1> QED BY <1>5 DEF p, q

\* The table to store into is that of a timestamp, and of one no later than the
\* last batch as long as stprocessd was not started again.
TableOfStamp ==
  \A k \in Kinds :
    current[k].day # NoDay =>
      \E s \in Nat :
        /\ current[k] = [partition |-> PartitionOf(s), day |-> DayOf(s)]
        /\ crashes = 0 /\ k \in Layers => s <= latest["flow"]

\* The timestamp by which tables are made and flow samples stored is that of the
\* last batch of flow samples.
StampOfBatch ==
  /\ crashes = 0 => phase # "off" /\ (phase = "start" => stamp <= latest["flow"])
  /\ phase \in {"read", "mysql"} /\ batch.type = "flow" => stamp = latest["flow"]

DayInv == TypesInv /\ TableOfStamp /\ StampOfBatch /\ RowsInTheirDay

LEMMA ProcessFields ==
  ASSUME TypesInv
  PROVE  /\ mysql \in Settings /\ DOMAIN db = Kinds /\ DOMAIN current = Kinds
         /\ stamp \in Nat /\ now \in Nat /\ crashes \in Nat
         /\ latest \in [{"flow", "cntr"} -> Nat] /\ latest["flow"] \in Nat
         /\ batch.type \in {"flow", "cntr"}
<1>1. MysqlTypeOK(Row) /\ ProcessTyped
  BY TypesParts
<1>2. MaxCrashes \in Nat
  BY StorageAssumption
<1>3. crashes \in Nat
  BY <1>1, <1>2 DEF ProcessTyped
<1> QED BY <1>1, <1>3, BatchFields DEF MysqlTypeOK, ProcessTyped

LEMMA InitDay == Init => DayInv
<1> SUFFICES ASSUME Init PROVE DayInv
  OBVIOUS
<1>1. TypesInv
  BY InitTypes
<1>2. /\ db = [k \in Kinds |-> <<>>] /\ current = [k \in Kinds |-> NoTable] /\ NoTable.day = NoDay
      /\ phase = "start" /\ stamp = Epoch /\ latest = [t \in {"flow", "cntr"} |-> Epoch]
  BY DEF Init, MysqlInit, NoTable
<1>3. TableOfStamp
  BY <1>2 DEF TableOfStamp
<1>4. StampOfBatch
  BY <1>2, StorageAssumption DEF StampOfBatch
<1>5. RowsInTheirDay
  <2>1. \A l \in Layers : db[l] = <<>>
    BY <1>2, LayersAreKinds
  <2>2. \A l \in Layers : DOMAIN db[l] = {}
    BY <2>1
  <2> QED BY <2>2 DEF RowsInTheirDay
<1> QED BY <1>1, <1>3, <1>4, <1>5 DEF DayInv

LEMMA TableOfStampKept ==
  ASSUME TypesInv, TableOfStamp, mysql' = mysql, current' = current, crashes' = 0 => crashes = 0,
         latest'["flow"] \in Nat, latest["flow"] <= latest'["flow"]
  PROVE  TableOfStamp'
<1>1. latest["flow"] \in Nat
  BY ProcessFields
<1> SUFFICES ASSUME NEW k \in Kinds, current[k].day # NoDay
             PROVE  \E s \in Nat :
                      /\ current[k] = [partition |-> s \div mysql.interval, day |-> DayOf(s)]
                      /\ crashes' = 0 /\ k \in Layers => s <= latest'["flow"]
  BY DEF TableOfStamp, PartitionOf, DayOf
<1>2. PICK s \in Nat :
        /\ current[k] = [partition |-> PartitionOf(s), day |-> DayOf(s)]
        /\ crashes = 0 /\ k \in Layers => s <= latest["flow"]
  BY DEF TableOfStamp
<1>3. crashes' = 0 /\ k \in Layers => s <= latest'["flow"]
  BY <1>1, <1>2
<1> QED BY <1>2, <1>3 DEF PartitionOf

\* Tables of a layer keep their rows, are new and empty, or go.
LEMMA RowsKept ==
  ASSUME RowsInTheirDay, mysql' = mysql, crashes' = 0 => crashes = 0,
         \A l \in Layers : \A d \in DOMAIN db'[l] :
           DOMAIN db'[l][d] = {} \/ (d \in DOMAIN db[l] /\ db'[l][d] = db[l][d])
  PROVE  RowsInTheirDay'
<1> SUFFICES ASSUME Day % mysql.interval = 0,
                    NEW l \in Layers, NEW d \in DOMAIN db'[l], NEW i \in DOMAIN db'[l][d]
             PROVE  /\ DayOf(db'[l][d][i].timestamp) <= d
                    /\ crashes' = 0 => DayOf(db'[l][d][i].timestamp) = d
  BY DEF RowsInTheirDay, DayOf
<1>1. d \in DOMAIN db[l] /\ db'[l][d] = db[l][d]
  OBVIOUS
<1> QED BY <1>1 DEF RowsInTheirDay

\* A step after which the tables, and what they are made by, are as before.
LEMMA DayKept ==
  ASSUME DayInv, TypesInv', UNCHANGED <<tableVars, crashes>>, UNCHANGED latest,
         StampOfBatch'
  PROVE  DayInv'
<1>1. mysql' = mysql /\ db' = db /\ current' = current /\ crashes' = crashes /\ latest' = latest
  BY DEF tableVars
<1>2. TypesInv /\ TableOfStamp /\ RowsInTheirDay
  BY DEF DayInv
<1>3. latest["flow"] \in Nat
  BY <1>2, ProcessFields
<1>4. TableOfStamp'
  BY <1>1, <1>2, <1>3, TableOfStampKept
<1>5. RowsInTheirDay'
  BY <1>1, <1>2, RowsKept
<1> QED BY <1>4, <1>5 DEF DayInv

LEMMA DayBegin ==
  ASSUME DayInv, TypesInv', NEW t \in Epoch..MaxMinute, BeginFlow(t) \/ BeginCounters(t)
  PROVE  DayInv'
<1>0. PICK type \in {"flow", "cntr"} : \E samples : Begin(type, t, samples)
  BY DEF BeginFlow, BeginCounters
<1>1. PICK samples : Begin(type, t, samples)
  BY <1>0
<1>2. /\ phase = "idle" /\ phase' = "read" /\ stamp' = t /\ t \in latest[type]..now - 1
      /\ latest' = [latest EXCEPT ![type] = t]
      /\ batch' = [number |-> begun', type |-> type, timestamp |-> t, samples |-> samples]
      /\ UNCHANGED <<tableVars, crashes>>
  BY <1>1 DEF Begin
<1>3. TypesInv /\ TableOfStamp /\ StampOfBatch /\ RowsInTheirDay
  BY DEF DayInv
<1>4. latest \in [{"flow", "cntr"} -> Nat] /\ now \in Nat
  BY <1>3, ProcessFields
<1>5. latest'["flow"] = IF type = "flow" THEN t ELSE latest["flow"]
  BY <1>2, <1>4
<1>6. latest'["flow"] \in Nat /\ latest["flow"] <= latest'["flow"]
  BY <1>2, <1>4, <1>5, StorageAssumption
<1>7. mysql' = mysql /\ db' = db /\ current' = current /\ crashes' = crashes
  BY <1>2 DEF tableVars
<1>8. TableOfStamp'
  BY <1>3, <1>6, <1>7, TableOfStampKept
<1>9. RowsInTheirDay'
  BY <1>3, <1>7, RowsKept
<1>10. StampOfBatch'
  BY <1>2, <1>3, <1>5 DEF StampOfBatch
<1> QED BY <1>8, <1>9, <1>10 DEF DayInv

\* At the start a table is made by that time, later by the timestamp of the batch;
\* the tables of the layers only for batches of flow samples.
LEMMA StampOfTable ==
  ASSUME DayInv, NEW k \in Kinds, phase \in {"start", "mysql"}, todo # <<>>, k = Head(todo),
         crashes = 0, k \in Layers
  PROVE  stamp <= latest["flow"] /\ (phase = "mysql" => stamp = latest["flow"])
<1>1. TypesInv /\ StampOfBatch
  BY DEF DayInv
<1>2. CASE phase = "start"
  BY <1>1, <1>2 DEF StampOfBatch
<1>3. CASE phase = "mysql"
  <2>1. batch.type = "cntr" => todo = <<"counters">>
    BY <1>1, <1>3, TypesParts DEF WorkTyped
  <2>2. Head(<<"counters">>) = "counters"
    OBVIOUS
  <2>3. batch.type = "flow"
    BY <1>1, <2>1, <2>2, ProcessFields, LayersAreKinds
  <2>4. stamp = latest["flow"] /\ stamp \in Nat
    BY <1>1, <1>3, <2>3, ProcessFields DEF StampOfBatch
  <2> QED BY <1>3, <2>4
<1> QED BY <1>2, <1>3

LEMMA DayCreate ==
  ASSUME DayInv, TypesInv', NEW k \in Kinds, Create(k)
  PROVE  DayInv'
<1> DEFINE d == DayOf(stamp)
           p == PartitionOf(stamp)
<1>1. TypesInv /\ TableOfStamp /\ StampOfBatch /\ RowsInTheirDay
  BY DEF DayInv
<1>2. /\ todo # <<>> /\ k = Head(todo) /\ phase \in {"start", "mysql"}
      /\ db' = IF Exists(k, d) THEN db ELSE [db EXCEPT ![k] = With(@, d, <<>>)]
      /\ current' = [current EXCEPT ![k] = [partition |-> p, day |-> d]]
      /\ mysql' = mysql
      /\ UNCHANGED <<phase, stamp, batch, latest, crashes>>
  BY DEF Create, CreateTable
<1>3. /\ stamp \in Nat /\ latest["flow"] \in Nat /\ DOMAIN current = Kinds /\ DOMAIN db = Kinds
  BY <1>1, ProcessFields
<1>4. TableOfStamp'
  <2> SUFFICES ASSUME NEW j \in Kinds, current'[j].day # NoDay
               PROVE  \E s \in Nat :
                        /\ current'[j] = [partition |-> PartitionOf(s), day |-> DayOf(s)]
                        /\ crashes = 0 /\ j \in Layers => s <= latest["flow"]
    BY <1>2 DEF TableOfStamp, PartitionOf, DayOf
  <2>1. CASE j = k
    <3>1. current'[j] = [partition |-> p, day |-> d]
      BY <1>2, <1>3, <2>1
    <3>2. crashes = 0 /\ j \in Layers => stamp <= latest["flow"]
      BY <1>2, <2>1, StampOfTable
    <3> QED BY <1>3, <3>1, <3>2
  <2>2. CASE j # k
    <3>1. current'[j] = current[j]
      BY <1>2, <1>3, <2>2
    <3> QED BY <1>1, <3>1 DEF TableOfStamp
  <2> QED BY <2>1, <2>2
<1>5. StampOfBatch'
  BY <1>1, <1>2 DEF StampOfBatch
<1>6. \A l \in Layers : \A x \in DOMAIN db'[l] :
        DOMAIN db'[l][x] = {} \/ (x \in DOMAIN db[l] /\ db'[l][x] = db[l][x])
  <2>1. CASE Exists(k, d)
    BY <1>2, <2>1
  <2>2. CASE ~Exists(k, d)
    <3> HIDE DEF d
    <3>1. db'[k] = With(db[k], d, <<>>) /\ \A l \in Kinds \ {k} : db'[l] = db[l]
      BY <1>2, <1>3, <2>2
    <3>2. DOMAIN <<>> = {}
      OBVIOUS
    <3>3. \A x \in DOMAIN db'[k] : db'[k][x] = <<>> \/ (x \in DOMAIN db[k] /\ db'[k][x] = db[k][x])
      BY <3>1 DEF With
    <3> QED BY <3>1, <3>2, <3>3, LayersAreKinds
  <2> QED BY <2>1, <2>2
<1>7. RowsInTheirDay'
  BY <1>1, <1>2, <1>6, RowsKept
<1> QED BY <1>4, <1>5, <1>7 DEF DayInv

LEMMA DayDrop ==
  ASSUME DayInv, TypesInv', NEW k \in Kinds, Drop(k)
  PROVE  DayInv'
<1>1. TypesInv /\ TableOfStamp /\ StampOfBatch /\ RowsInTheirDay
  BY DEF DayInv
<1>2. /\ db' = [db EXCEPT ![k] = Without(@, expired)]
      /\ mysql' = mysql /\ current' = current
      /\ phase' = phase \/ (phase = "start" /\ phase' \in {"idle", "start"})
      /\ UNCHANGED <<stamp, batch, latest, crashes>>
  BY DEF Drop, DropExpired
<1>3. latest["flow"] \in Nat /\ DOMAIN db = Kinds
  BY <1>1, ProcessFields
<1>4. TableOfStamp'
  BY <1>1, <1>2, <1>3, TableOfStampKept
<1>5. StampOfBatch'
  BY <1>1, <1>2 DEF StampOfBatch
<1>6. \A l \in Layers : \A x \in DOMAIN db'[l] : x \in DOMAIN db[l] /\ db'[l][x] = db[l][x]
  <2>1. db'[k] = Without(db[k], expired) /\ \A l \in Kinds \ {k} : db'[l] = db[l]
    BY <1>2, <1>3
  <2>2. \A x \in DOMAIN db'[k] : x \in DOMAIN db[k] /\ db'[k][x] = db[k][x]
    <3> DEFINE tables == Without(db[k], expired)
    <3>1. DOMAIN tables = DOMAIN db[k] \ {expired}
      BY WithoutTables
    <3>2. \A x \in DOMAIN db[k] \ {expired} : tables[x] = db[k][x]
      BY WithoutRows
    <3> HIDE DEF tables
    <3> QED BY <2>1, <3>1, <3>2 DEF tables
  <2> QED BY <2>1, <2>2, LayersAreKinds
<1>7. RowsInTheirDay'
  BY <1>1, <1>2, <1>6, RowsKept
<1> QED BY <1>4, <1>5, <1>7 DEF DayInv

\* Rows are not stored in a table of an earlier day.
LEMMA DayOfTable ==
  ASSUME TypesInv, TableOfStamp, Day % mysql.interval = 0, NEW k \in Kinds, Ready(k),
         current[k].day # NoDay
  PROVE  DayOf(stamp) <= current[k].day
<1>1. mysql \in Settings /\ stamp \in Nat
  BY ProcessFields
<1>2. PICK s \in Nat : current[k] = [partition |-> PartitionOf(s), day |-> DayOf(s)]
  BY DEF TableOfStamp
<1>3. ~(PartitionOf(s) < PartitionOf(stamp))
  BY <1>2 DEF Ready, Due
<1>4. PartitionOf(s) \in Int /\ PartitionOf(stamp) \in Int
  BY <1>1, PartitionType
<1> QED BY <1>1, <1>2, <1>3, <1>4, LaterInterval

\* The conversations of a batch go to a table of their day or, when that is left
\* from before a start, of a later one.
LEMMA DayOfConversations ==
  ASSUME DayInv, Day % mysql.interval = 0, NEW l \in Layers, Ready(l), current[l].day # NoDay
  PROVE  /\ DayOf(stamp) <= current[l].day
         /\ crashes = 0 => DayOf(stamp) = current[l].day
<1>1. TypesInv /\ TableOfStamp
  BY DEF DayInv
<1>2. mysql \in Settings /\ stamp \in Nat /\ latest["flow"] \in Nat
  BY <1>1, ProcessFields
<1>3. PICK s \in Nat :
        /\ current[l] = [partition |-> PartitionOf(s), day |-> DayOf(s)]
        /\ crashes = 0 /\ l \in Layers => s <= latest["flow"]
  BY <1>1, LayersAreKinds DEF TableOfStamp
<1>4. ~(PartitionOf(s) < PartitionOf(stamp))
  BY <1>3 DEF Ready, Due
<1>5. PartitionOf(s) \in Int /\ PartitionOf(stamp) \in Int /\ DayOf(s) \in Int /\ DayOf(stamp) \in Int
  BY <1>2, PartitionType
<1>6. DayOf(stamp) <= DayOf(s)
  BY <1>2, <1>4, <1>5, LaterInterval
<1>7. ASSUME crashes = 0
      PROVE  DayOf(stamp) = DayOf(s)
  <2>1. stamp = latest["flow"]
    BY <1>7, StampOfTable, LayersAreKinds DEF Ready
  <2>2. s <= stamp
    BY <1>3, <1>7, <2>1
  <2>3. PartitionOf(s) <= PartitionOf(stamp) /\ DayOf(s) <= DayOf(stamp)
    <3>1. \A n \in Nat \ {0} : s \div n <= stamp \div n
      BY <1>2, <2>2, QuotientGrows
    <3> QED BY <1>2, <3>1, MysqlAssumption DEF PartitionOf, DayOf
  <2> QED BY <1>5, <1>6, <2>3
<1> QED BY <1>3, <1>6, <1>7

LEMMA DayLoad ==
  ASSUME DayInv, TypesInv', NEW l \in Layers, StoreConversations(l)
  PROVE  DayInv'
<1> DEFINE d == current[l].day
           rows == ConversationRows(l)
           more == db[l][d] \o rows
<1>1. TypesInv /\ TableOfStamp /\ StampOfBatch /\ RowsInTheirDay
  BY DEF DayInv
<1>2. /\ Load(l, rows) /\ Ready(l) /\ phase = "mysql" /\ TableDone
      /\ UNCHANGED <<stamp, batch, latest, crashes>>
  BY DEF StoreConversations, ConversationRows, Ready
<1>3. mysql' = mysql /\ current' = current
  BY <1>2 DEF Load
<1>4. /\ latest["flow"] \in Nat /\ DOMAIN db = Kinds /\ l \in Kinds
      /\ \A k \in Kinds : DOMAIN db[k] \subseteq Int /\ \A x \in DOMAIN db[k] : db[k][x] \in Seq(Row)
  BY <1>1, ProcessFields, TypesParts, LayersAreKinds DEF MysqlTypeOK
<1>5. TableOfStamp'
  BY <1>1, <1>2, <1>3, <1>4, TableOfStampKept
<1>6. StampOfBatch'
  <2>1. phase' \in {"mysql", "idle"}
    BY <1>2 DEF TableDone
  <2> QED BY <1>1, <1>2, <2>1 DEF StampOfBatch
<1>7. RowsInTheirDay'
  <2>1. CASE ~Exists(l, d)
    <3>1. db' = db
      BY <1>2, <2>1 DEF Load
    <3> QED BY <1>1, <1>2, <1>3, <3>1, RowsKept
  <2>2. CASE Exists(l, d)
    <3>1. db' = [db EXCEPT ![l] = With(@, d, more)]
      BY <1>2, <2>2 DEF Load
    <3>2. d \in DOMAIN db[l]
      BY <2>2 DEF Exists
    <3>3. d \in Int /\ db[l][d] \in Seq(Row) /\ d # NoDay
      BY <1>4, <3>2, MysqlAssumption
    <3>4. rows \in Seq(Row) /\ \A i \in DOMAIN rows : rows[i].timestamp = stamp
      BY <1>1, ConversationRowsType
    <3>5. Day % mysql.interval = 0 =>
            DayOf(stamp) <= d /\ (crashes = 0 => DayOf(stamp) = d)
      BY <1>2, <3>3, DayOfConversations
    <3> HIDE DEF d, rows
    <3>6. Range(more) = Range(db[l][d]) \cup Range(rows)
      BY <3>3, <3>4, ConcatElements
    <3> HIDE DEF more
    <3>7. \A i \in DOMAIN more :
            (\E j \in DOMAIN db[l][d] : more[i] = db[l][d][j]) \/ more[i].timestamp = stamp
      <4> SUFFICES ASSUME NEW i \in DOMAIN more
                   PROVE  \/ \E j \in DOMAIN db[l][d] : more[i] = db[l][d][j]
                          \/ more[i].timestamp = stamp
        OBVIOUS
      <4>1. more[i] \in Range(more)
        BY DEF Range
      <4>2. CASE more[i] \in Range(db[l][d])
        BY <4>2 DEF Range
      <4>3. CASE more[i] \in Range(rows)
        BY <3>4, <4>3 DEF Range
      <4> QED BY <3>6, <4>1, <4>2, <4>3
    <3>8. Day % mysql.interval = 0 =>
            \A i \in DOMAIN more :
              /\ DayOf(more[i].timestamp) <= d
              /\ crashes = 0 => DayOf(more[i].timestamp) = d
      BY <1>1, <3>2, <3>5, <3>7 DEF RowsInTheirDay
    <3>9. /\ db'[l] = With(db[l], d, more)
          /\ \A k \in Kinds \ {l} : db'[k] = db[k]
      BY <1>4, <3>1
    <3>10. \A k \in Layers : \A x \in DOMAIN db'[k] :
             (k = l /\ x = d /\ db'[k][x] = more) \/ (x \in DOMAIN db[k] /\ db'[k][x] = db[k][x])
      BY <3>9, LayersAreKinds DEF With
    <3> SUFFICES ASSUME Day % mysql.interval = 0,
                        NEW k \in Layers, NEW x \in DOMAIN db'[k], NEW i \in DOMAIN db'[k][x]
                 PROVE  /\ DayOf(db'[k][x][i].timestamp) <= x
                        /\ crashes = 0 => DayOf(db'[k][x][i].timestamp) = x
      BY <1>2, <1>3 DEF RowsInTheirDay, DayOf
    <3> QED BY <1>1, <3>8, <3>10 DEF RowsInTheirDay
  <2> QED BY <2>1, <2>2
<1> QED BY <1>5, <1>6, <1>7 DEF DayInv

LEMMA DayInsert ==
  ASSUME DayInv, TypesInv', InsertBulk \/ InsertRest
  PROVE  DayInv'
<1>1. TypesInv /\ TableOfStamp /\ StampOfBatch /\ RowsInTheirDay
  BY DEF DayInv
<1>2. PICK rows : Load("counters", rows)
  BY DEF InsertBulk, InsertRest
<1>3. /\ phase = "mysql" /\ phase' \in {"mysql", "idle"}
      /\ UNCHANGED <<stamp, batch, latest, crashes>>
  BY DEF InsertBulk, InsertRest, Ready, TableDone
<1>4. mysql' = mysql /\ current' = current
  BY <1>2 DEF Load
<1>5. latest["flow"] \in Nat
  BY <1>1, ProcessFields
<1>6. TableOfStamp'
  BY <1>1, <1>3, <1>4, <1>5, TableOfStampKept
<1>7. StampOfBatch'
  BY <1>1, <1>3 DEF StampOfBatch
<1>8. \A l \in Layers : db'[l] = db[l]
  <2>1. db' = db \/ \E tables : db' = [db EXCEPT !["counters"] = tables]
    BY <1>2 DEF Load
  <2>2. DOMAIN db = Kinds
    BY <1>1, ProcessFields
  <2>3. \A l \in Layers : l \in DOMAIN db /\ l # "counters"
    BY <2>2, LayersAreKinds
  <2> QED BY <2>1, <2>3
<1>9. RowsInTheirDay'
  BY <1>1, <1>3, <1>4, <1>8, RowsKept
<1> QED BY <1>6, <1>7, <1>9 DEF DayInv

LEMMA DayCrash ==
  ASSUME DayInv, TypesInv', Crash
  PROVE  DayInv'
<1>1. TypesInv /\ RowsInTheirDay
  BY DEF DayInv
<1>2. /\ crashes' = crashes + 1 /\ phase' = "off" /\ mysql' = mysql /\ db' = db
      /\ current' = [k \in Kinds |-> NoTable]
  BY DEF Crash, Forget
<1>3. crashes' # 0
  BY <1>1, <1>2, ProcessFields
<1>4. TableOfStamp'
  <2>1. NoTable.day = NoDay
    BY DEF NoTable
  <2> QED BY <1>2, <2>1 DEF TableOfStamp
<1>5. StampOfBatch'
  BY <1>2, <1>3 DEF StampOfBatch
<1>6. RowsInTheirDay'
  BY <1>1, <1>2, <1>3, RowsKept
<1> QED BY <1>4, <1>5, <1>6 DEF DayInv

LEMMA StepDay ==
  ASSUME DayInv, TypesInv', [Next]_vars
  PROVE  DayInv'
<1>1. TypesInv /\ StampOfBatch
  BY DEF DayInv
<1>2. CASE Start
  <2>1. phase = "off" /\ crashes # 0 /\ phase' = "start"
    BY <1>1, <1>2 DEF Start, StampOfBatch
  <2>2. UNCHANGED <<tableVars, latest, crashes>>
    BY <1>2 DEF Start
  <2>3. StampOfBatch'
    BY <2>1, <2>2 DEF StampOfBatch
  <2> QED BY <2>2, <2>3, DayKept
<1>3. CASE \E t \in Epoch..MaxMinute : BeginFlow(t) \/ BeginCounters(t)
  BY <1>3, DayBegin
<1>4. CASE (\E t \in Tails : ReadFlow(t)) \/ ReadCounter \/ StoreCsv
  <2>1. UNCHANGED <<tableVars, phase, batch, stamp, latest, crashes>>
    BY <1>4 DEF ReadFlow, ReadCounter, StoreCsv
  <2>2. StampOfBatch'
    BY <1>1, <2>1 DEF StampOfBatch
  <2> QED BY <2>1, <2>2, DayKept
<1>5. CASE FlowRead \/ CountersRead \/ CsvDone
  <2>1. /\ UNCHANGED <<tableVars, batch, stamp, latest, crashes>>
        /\ phase \in {"read", "csv"} /\ phase' \in {"csv", "mysql"}
        /\ batch.type = "flow" => phase = "read"
    BY <1>1, <1>5, TypesParts DEF FlowRead, CountersRead, CsvDone, AllRead, WorkTyped
  <2>2. StampOfBatch'
    BY <1>1, <2>1 DEF StampOfBatch
  <2> QED BY <2>1, <2>2, DayKept
<1>6. CASE \E k \in Kinds : Create(k) \/ Drop(k)
  BY <1>6, DayCreate, DayDrop
<1>7. CASE \E l \in Layers : StoreConversations(l)
  BY <1>7, DayLoad
<1>8. CASE InsertBulk \/ InsertRest
  BY <1>8, DayInsert
<1>9. CASE Crash
  BY <1>9, DayCrash
<1>10. CASE Tick \/ UNCHANGED vars
  <2>1. UNCHANGED <<tableVars, phase, batch, stamp, latest, crashes>>
    BY <1>10 DEF Tick, vars
  <2>2. StampOfBatch'
    BY <1>1, <2>1 DEF StampOfBatch
  <2> QED BY <2>1, <2>2, DayKept
<1> QED BY <1>2, <1>3, <1>4, <1>5, <1>6, <1>7, <1>8, <1>9, <1>10 DEF Next

\* For all intervals that divide a day, and whenever stprocessd ends and is started,
\* no conversation is in the table of an earlier day than its own, and in that of
\* a later one only after a start (storage_mysql_store_conv_*, with the test on
\* the interval and not on the day): where stexport looks is where they are.
THEOREM StorageRowsInTheirDay == Spec => []RowsInTheirDay
<1>1. DayInv => RowsInTheirDay
  BY DEF DayInv
<1>2. TypesInv /\ [Next]_vars => TypesInv'
  BY StepTypes
<1>3. DayInv /\ TypesInv' /\ [Next]_vars => DayInv'
  BY StepDay
<1>4. DayInv => TypesInv
  BY DEF DayInv
<1> QED BY <1>1, <1>2, <1>3, <1>4, InitDay, PTL DEF Spec
-----------------------------------------------------------------------------
(* The counter samples of a batch are in the table, each of them once.     *)

\* In tables T the rows of batch n are those of the samples S, each once and in no
\* table before day t.
StoredIn(T, n, S, t) ==
  /\ \A d \in DOMAIN T : \A i \in DOMAIN T[d] : T[d][i].batch = n => T[d][i].id \in S /\ t <= d
  /\ \A x \in S : \E d \in DOMAIN T : \E i \in DOMAIN T[d] : T[d][i].batch = n /\ T[d][i].id = x
  /\ \A d \in DOMAIN T, e \in DOMAIN T : \A i \in DOMAIN T[d], j \in DOMAIN T[e] :
       T[d][i].batch = n /\ T[e][j].batch = n /\ T[d][i].id = T[e][j].id => d = e /\ i = j

\* The first c samples of batch b, by number.
SampleIds(b, c) == {b.samples[j].id : j \in 1..c}

SamplesDiffer(b) ==
  \A i, j \in DOMAIN b.samples : b.samples[i].id = b.samples[j].id => i = j

LEMMA StoredUnchanged ==
  ASSUME NEW T, NEW U, NEW n, NEW S, NEW t, StoredIn(T, n, S, t),
         \A d \in DOMAIN U : \A i \in DOMAIN U[d] :
           U[d][i].batch = n => d \in DOMAIN T /\ i \in DOMAIN T[d] /\ T[d][i] = U[d][i],
         \A d \in DOMAIN T : \A i \in DOMAIN T[d] :
           T[d][i].batch = n => d \in DOMAIN U /\ i \in DOMAIN U[d] /\ U[d][i] = T[d][i]
  PROVE  StoredIn(U, n, S, t)
<1>1. \A d \in DOMAIN U : \A i \in DOMAIN U[d] : U[d][i].batch = n => U[d][i].id \in S /\ t <= d
  BY DEF StoredIn
<1>2. ASSUME NEW x \in S
      PROVE  \E d \in DOMAIN U : \E i \in DOMAIN U[d] : U[d][i].batch = n /\ U[d][i].id = x
  <2>1. PICK d \in DOMAIN T : \E i \in DOMAIN T[d] : T[d][i].batch = n /\ T[d][i].id = x
    BY DEF StoredIn
  <2>2. PICK i \in DOMAIN T[d] : T[d][i].batch = n /\ T[d][i].id = x
    BY <2>1
  <2> QED BY <2>2
<1>3. ASSUME NEW d \in DOMAIN U, NEW e \in DOMAIN U, NEW i \in DOMAIN U[d], NEW j \in DOMAIN U[e],
             U[d][i].batch = n, U[e][j].batch = n, U[d][i].id = U[e][j].id
      PROVE  d = e /\ i = j
  <2>1. /\ d \in DOMAIN T /\ i \in DOMAIN T[d] /\ T[d][i] = U[d][i]
        /\ e \in DOMAIN T /\ j \in DOMAIN T[e] /\ T[e][j] = U[e][j]
    BY <1>3
  <2>2. T[d][i].batch = n /\ T[e][j].batch = n /\ T[d][i].id = T[e][j].id
    BY <1>3, <2>1
  <2> QED BY <2>1, <2>2 DEF StoredIn
<1> QED BY <1>1, <1>2, <1>3 DEF StoredIn

\* Rows of other batches are added, or a table that is too old to hold rows of n goes.
LEMMA StoredCreated ==
  ASSUME NEW T, NEW n, NEW S, NEW t, StoredIn(T, n, S, t), NEW x, x \notin DOMAIN T
  PROVE  StoredIn(With(T, x, <<>>), n, S, t)
<1> DEFINE U == With(T, x, <<>>)
<1>1. DOMAIN U = DOMAIN T \cup {x} /\ \A d \in DOMAIN T : U[d] = T[d]
  BY DEF With
<1>2. DOMAIN U[x] = {}
  BY DEF With
<1> HIDE DEF U
<1>3. \A d \in DOMAIN U : \A i \in DOMAIN U[d] : d \in DOMAIN T
  BY <1>1, <1>2
<1>4. StoredIn(U, n, S, t)
  BY <1>1, <1>3, StoredUnchanged
<1> QED BY <1>4 DEF U

LEMMA StoredDropped ==
  ASSUME NEW T, NEW n, NEW S, NEW t \in Int, StoredIn(T, n, S, t), NEW x \in Int, x < t
  PROVE  StoredIn(Without(T, x), n, S, t)
<1> DEFINE U == Without(T, x)
<1>1. DOMAIN U = DOMAIN T \ {x}
  BY WithoutTables
<1>2. \A d \in DOMAIN T \ {x} : U[d] = T[d]
  BY WithoutRows
<1> HIDE DEF U
<1>3. \A d \in DOMAIN T : \A i \in DOMAIN T[d] : T[d][i].batch = n => d # x
  BY DEF StoredIn
<1>4. StoredIn(U, n, S, t)
  BY <1>1, <1>2, <1>3, StoredUnchanged
<1> QED BY <1>4 DEF U

LEMMA Appended ==
  ASSUME NEW R, NEW a \in Seq(R), NEW b \in Seq(R)
  PROVE  /\ Len(a) \in Nat /\ DOMAIN a = 1..Len(a) /\ DOMAIN b = 1..Len(b)
         /\ \A i \in DOMAIN a : i \in DOMAIN (a \o b) /\ (a \o b)[i] = a[i]
         /\ \A i \in DOMAIN b : Len(a) + i \in DOMAIN (a \o b) /\ (a \o b)[Len(a) + i] = b[i]
         /\ \A i \in DOMAIN (a \o b) : \/ i \in DOMAIN a
                                       \/ \E j \in DOMAIN b : i = Len(a) + j
<1> DEFINE c == a \o b
<1>1. /\ c \in Seq(R) /\ Len(c) = Len(a) + Len(b)
      /\ \A i \in 1..Len(c) : c[i] = IF i <= Len(a) THEN a[i] ELSE b[i - Len(a)]
  BY ConcatProperties
<1>2. /\ Len(a) \in Nat /\ Len(b) \in Nat
      /\ DOMAIN a = 1..Len(a) /\ DOMAIN b = 1..Len(b) /\ DOMAIN c = 1..Len(c)
  BY <1>1, LenProperties
<1> HIDE DEF c
<1>3. \A i \in DOMAIN a : i \in DOMAIN c /\ c[i] = a[i]
  BY <1>1, <1>2
<1>4. \A i \in DOMAIN b : Len(a) + i \in DOMAIN c /\ c[Len(a) + i] = b[i]
  BY <1>1, <1>2
<1>5. \A i \in DOMAIN c : i \in DOMAIN a \/ (i - Len(a) \in DOMAIN b /\ i = Len(a) + (i - Len(a)))
  BY <1>1, <1>2
<1> QED BY <1>2, <1>3, <1>4, <1>5 DEF c

LEMMA StoredOther ==
  ASSUME NEW T, NEW n, NEW S, NEW t, StoredIn(T, n, S, t), NEW R, NEW x \in DOMAIN T, T[x] \in Seq(R),
         NEW rows \in Seq(R), \A j \in DOMAIN rows : rows[j].batch # n
  PROVE  StoredIn(With(T, x, T[x] \o rows), n, S, t)
<1> DEFINE a == T[x]
           c == T[x] \o rows
           U == With(T, x, c)
<1>1. DOMAIN U = DOMAIN T /\ \A d \in DOMAIN T : U[d] = IF d = x THEN c ELSE T[d]
  BY DEF With
<1>2. /\ \A i \in DOMAIN a : i \in DOMAIN c /\ c[i] = a[i]
      /\ \A i \in DOMAIN c : i \in DOMAIN a \/ \E j \in DOMAIN rows : c[i] = rows[j]
  BY Appended
<1> HIDE DEF U, c
<1>3. StoredIn(U, n, S, t)
  BY <1>1, <1>2, StoredUnchanged
<1> QED BY <1>3 DEF U, c

\* Rows of batch n are added for new samples, each once.
LEMMA StoredMore ==
  ASSUME NEW T, NEW n, NEW S, NEW t, StoredIn(T, n, S, t), NEW R, NEW x \in DOMAIN T, T[x] \in Seq(R),
         t <= x, NEW rows \in Seq(R), NEW S2,
         \A j \in DOMAIN rows : rows[j].batch = n /\ rows[j].id \in S2 /\ rows[j].id \notin S,
         \A y \in S2 : y \in S \/ \E j \in DOMAIN rows : rows[j].id = y,
         S \subseteq S2,
         \A i, j \in DOMAIN rows : rows[i].id = rows[j].id => i = j
  PROVE  StoredIn(With(T, x, T[x] \o rows), n, S2, t)
<1> DEFINE a == T[x]
           m == Len(T[x])
           c == T[x] \o rows
           U == With(T, x, c)
<1>1. DOMAIN U = DOMAIN T /\ \A d \in DOMAIN T : U[d] = IF d = x THEN c ELSE T[d]
  BY DEF With
<1>2. /\ \A i \in DOMAIN a : i \in DOMAIN c /\ c[i] = a[i]
      /\ \A j \in DOMAIN rows : m + j \in DOMAIN c /\ c[m + j] = rows[j]
      /\ \A i \in DOMAIN c : i \in DOMAIN a \/ \E j \in DOMAIN rows : i = m + j
  BY Appended
<1> DEFINE Old(d, i) == d \in DOMAIN T /\ i \in DOMAIN T[d] /\ U[d][i] = T[d][i]
           New(d, i) == d = x /\ \E j \in DOMAIN rows : i = m + j /\ U[d][i] = rows[j]
<1> HIDE DEF U, c, m
<1>3. \A d \in DOMAIN U : \A i \in DOMAIN U[d] : Old(d, i) \/ New(d, i)
  BY <1>1, <1>2
<1>4. /\ \A d \in DOMAIN T : \A i \in DOMAIN T[d] : d \in DOMAIN U /\ i \in DOMAIN U[d] /\ U[d][i] = T[d][i]
      /\ \A j \in DOMAIN rows : m + j \in DOMAIN U[x] /\ U[x][m + j] = rows[j]
  BY <1>1, <1>2
<1>5. \A d \in DOMAIN U : \A i \in DOMAIN U[d] : U[d][i].batch = n => U[d][i].id \in S2 /\ t <= d
  BY <1>3 DEF StoredIn
<1>6. ASSUME NEW y \in S2
      PROVE  \E d \in DOMAIN U : \E i \in DOMAIN U[d] : U[d][i].batch = n /\ U[d][i].id = y
  <2>1. CASE y \in S
    <3>1. PICK d \in DOMAIN T : \E i \in DOMAIN T[d] : T[d][i].batch = n /\ T[d][i].id = y
      BY <2>1 DEF StoredIn
    <3>2. PICK i \in DOMAIN T[d] : T[d][i].batch = n /\ T[d][i].id = y
      BY <3>1
    <3> QED BY <1>4, <3>2
  <2>2. ASSUME NEW j \in DOMAIN rows, rows[j].id = y
        PROVE  \E d \in DOMAIN U : \E i \in DOMAIN U[d] : U[d][i].batch = n /\ U[d][i].id = y
    <3>1. x \in DOMAIN U /\ m + j \in DOMAIN U[x] /\ U[x][m + j].batch = n /\ U[x][m + j].id = y
      BY <1>1, <1>4, <2>2
    <3> QED BY <3>1
  <2> QED BY <2>1, <2>2
<1>7. ASSUME NEW d \in DOMAIN U, NEW e \in DOMAIN U, NEW i \in DOMAIN U[d], NEW j \in DOMAIN U[e],
             U[d][i].batch = n, U[e][j].batch = n, U[d][i].id = U[e][j].id
      PROVE  d = e /\ i = j
  <2>1. CASE Old(d, i) /\ Old(e, j)
    BY <1>7, <2>1 DEF StoredIn
  <2>2. CASE New(d, i) /\ New(e, j)
    BY <1>7, <2>2
  <2>3. CASE Old(d, i) /\ New(e, j)
    <3>1. U[d][i].id \in S /\ U[e][j].id \notin S
      BY <1>7, <2>3 DEF StoredIn
    <3> QED BY <1>7, <3>1
  <2>4. CASE New(d, i) /\ Old(e, j)
    <3>1. U[e][j].id \in S /\ U[d][i].id \notin S
      BY <1>7, <2>4 DEF StoredIn
    <3> QED BY <1>7, <3>1
  <2> QED BY <1>3, <2>1, <2>2, <2>3, <2>4
<1>8. StoredIn(U, n, S2, t)
  BY <1>5, <1>6, <1>7 DEF StoredIn
<1> QED BY <1>8 DEF U, c
Working == phase \in {"read", "csv", "mysql"}

\* Nothing is made or stored for a time that is still to come or before the first
\* interval, which a missing table counts as made for; a batch in work is stored by
\* its timestamp, and the samples of a batch have different numbers.
ClockInv ==
  /\ Working \/ phase = "start" => Epoch <= stamp /\ stamp <= now
  /\ Epoch <= now
  /\ Working => batch.timestamp = stamp
  /\ expired # NoDay => expired = DayOf(stamp - Kept)
  /\ \A k \in Kinds : current[k].day = NoDay => current[k].partition = 0
  /\ batch.type = "cntr" => SamplesDiffer(batch)
  /\ \A k \in DOMAIN batches :
       batches[k].timestamp <= now /\ (batches[k].type = "cntr" => SamplesDiffer(batches[k]))

\* How a step changes the list of finished batches.
LEMMA BatchesStep ==
  ASSUME TypesInv, [Next]_vars
  PROVE  \/ batches' = batches
         \/ /\ batches' = Append(batches, batch) /\ phase = "mysql" /\ phase' = "idle"
            /\ InsertRest \/ \E l \in Layers : StoreConversations(l)
            /\ UNCHANGED <<now, begun, batch>>
<1>1. CASE TableDone /\ (InsertRest \/ \E l \in Layers : StoreConversations(l))
  BY <1>1 DEF TableDone, InsertRest, StoreConversations, Ready
<1>2. CASE InsertRest \/ \E l \in Layers : StoreConversations(l)
  BY <1>1, <1>2 DEF InsertRest, StoreConversations
<1>3. CASE ~(InsertRest \/ \E l \in Layers : StoreConversations(l))
  <2>1. CASE UNCHANGED vars
    BY <2>1 DEF vars
  <2>2. CASE Next
    BY <1>3, <2>2 DEF Next, Start, BeginFlow, BeginCounters, Begin, ReadFlow, ReadCounter, FlowRead,
                      CountersRead, StoreCsv, CsvDone, Create, Drop, InsertBulk, Crash, Tick
  <2> QED BY <2>1, <2>2
<1> QED BY <1>2, <1>3

LEMMA AppendedBatch ==
  ASSUME NEW s \in Seq(Batch), NEW b \in Batch
  PROVE  /\ \A k \in DOMAIN Append(s, b) : (k \in DOMAIN s /\ Append(s, b)[k] = s[k]) \/ Append(s, b)[k] = b
         /\ \A k \in DOMAIN s : k \in DOMAIN Append(s, b) /\ Append(s, b)[k] = s[k]
<1> DEFINE a == Append(s, b)
<1>1. Len(s) \in Nat /\ DOMAIN s = 1..Len(s) /\ DOMAIN a = 1..Len(s) + 1
  OBVIOUS
<1>2. \A k \in 1..Len(s) : a[k] = s[k]
  OBVIOUS
<1>3. a[Len(s) + 1] = b
  OBVIOUS
<1> HIDE DEF a
<1> QED BY <1>1, <1>2, <1>3 DEF a

LEMMA InitClock == Init => ClockInv
<1> SUFFICES ASSUME Init PROVE ClockInv
  OBVIOUS
<1>1. /\ phase = "start" /\ stamp = Epoch /\ now = Epoch /\ expired = NoDay /\ batches = <<>>
      /\ batch = NoBatch /\ current = [k \in Kinds |-> NoTable] /\ NoTable.partition = 0
  BY DEF Init, MysqlInit, NoTable
<1>2. Epoch \in Nat /\ DOMAIN batches = {}
  BY <1>1, StorageAssumption
<1> QED BY <1>1, <1>2, NoBatchType DEF ClockInv, Working

LEMMA StepClock ==
  ASSUME TypesInv, TablesInv, ClockInv, [Next]_vars
  PROVE  ClockInv'
<1>1. /\ now \in Nat /\ stamp \in Nat /\ Epoch \in Nat /\ batches \in Seq(Batch) /\ batch \in Batch
      /\ \A k \in DOMAIN batches : batches[k].timestamp \in Nat
  <2>1. /\ now \in Nat /\ stamp \in Nat /\ batches \in Seq(Batch) /\ batch \in Batch
    BY TypesParts DEF ProcessTyped
  <2>2. \A b \in Batch : b.timestamp \in Nat
    BY DEF Batch
  <2> QED BY <2>1, <2>2, StorageAssumption
<1>2. mysql' = mysql
  <2>1. CASE UNCHANGED vars
    BY <2>1 DEF vars, tableVars
  <2>2. CASE Next
    BY <2>2 DEF Next, Start, BeginFlow, BeginCounters, Begin, ReadFlow, ReadCounter, FlowRead,
                CountersRead, StoreCsv, CsvDone, Create, CreateTable, Drop, DropExpired,
                StoreConversations, InsertBulk, InsertRest, Load, Crash, Forget, Tick, tableVars
  <2> QED BY <2>1, <2>2
<1>3. Kept' = Kept
  BY <1>2 DEF Kept
<1>4. now' \in Nat /\ now <= now'
  <2>1. now' = now \/ now' = now + 1
    BY DEF Next, Start, BeginFlow, BeginCounters, Begin, ReadFlow, ReadCounter, FlowRead,
           CountersRead, StoreCsv, CsvDone, Create, Drop, StoreConversations, InsertBulk, InsertRest,
           Crash, Tick, vars
  <2> QED BY <1>1, <2>1
<1>5. Epoch <= now'
  BY <1>1, <1>4 DEF ClockInv
<1>6. \A k \in DOMAIN batches' :
        batches'[k].timestamp <= now' /\ (batches'[k].type = "cntr" => SamplesDiffer(batches'[k]))
  <2>1. CASE batches' = batches
    BY <1>1, <1>4, <2>1 DEF ClockInv
  <2>2. CASE batches' # batches
    <3>1. batches' = Append(batches, batch) /\ Working
      BY <2>2, BatchesStep DEF Working
    <3>2. batch.timestamp <= now /\ (batch.type = "cntr" => SamplesDiffer(batch)) /\ batch.timestamp \in Nat
      BY <1>1, <3>1 DEF ClockInv
    <3>3. \A k \in DOMAIN batches' : (k \in DOMAIN batches /\ batches'[k] = batches[k]) \/ batches'[k] = batch
      BY <1>1, <3>1, AppendedBatch
    <3> QED BY <1>1, <1>4, <3>2, <3>3 DEF ClockInv
  <2> QED BY <2>1, <2>2
<1>7. \A k \in Kinds : current'[k].day = NoDay => current'[k].partition = 0
  <2>1. CASE UNCHANGED current
    BY <2>1 DEF ClockInv
  <2>2. ASSUME NEW k \in Kinds, Create(k)
        PROVE  \A j \in Kinds : current'[j].day = NoDay => current'[j].partition = 0
    <3> DEFINE d == DayOf(stamp)
               p == PartitionOf(stamp)
    <3>1. current' = [current EXCEPT ![k] = [partition |-> p, day |-> d]]
      BY <2>2 DEF Create, CreateTable
    <3>2. d # NoDay
      BY <1>1, ProcessFields, PartitionType, MysqlAssumption
    <3>3. DOMAIN current = Kinds
      BY ProcessFields
    <3> HIDE DEF d, p
    <3> QED BY <3>1, <3>2, <3>3 DEF ClockInv
  <2>3. CASE Crash
    BY <2>3 DEF Crash, Forget, NoTable
  <2>4. CASE UNCHANGED vars
    BY <2>1, <2>4 DEF vars, tableVars
  <2>5. CASE Next /\ ~Crash /\ ~\E k \in Kinds : Create(k)
    <3>1. UNCHANGED current
      BY <2>5 DEF Next, Start, BeginFlow, BeginCounters, Begin, ReadFlow, ReadCounter, FlowRead,
                  CountersRead, StoreCsv, CsvDone, Drop, DropExpired,
                  StoreConversations, InsertBulk, InsertRest, Load, Tick, tableVars
    <3> QED BY <2>1, <3>1
  <2> QED BY <2>2, <2>3, <2>4, <2>5
<1> DEFINE Rest == /\ Working' \/ phase' = "start" => Epoch <= stamp' /\ stamp' <= now'
                   /\ Working' => batch'.timestamp = stamp'
                   /\ expired' # NoDay => expired' = DayOf(stamp' - Kept)
                   /\ batch'.type = "cntr" => SamplesDiffer(batch')
<1> SUFFICES Rest
  BY <1>3, <1>5, <1>6, <1>7 DEF ClockInv, SamplesDiffer, DayOf
<1>8. phase \in {"off", "idle"} => expired = NoDay
  BY DEF TablesInv, DropIsOlder
<1>9. CASE Start
  <2>1. phase = "off" /\ stamp' = now /\ phase' = "start" /\ UNCHANGED <<tableVars, now, batch>>
    BY <1>9 DEF Start
  <2>2. expired' = NoDay
    BY <1>8, <2>1 DEF tableVars
  <2> QED BY <1>1, <2>1, <2>2 DEF ClockInv, Working
<1>10. ASSUME NEW t \in Epoch..MaxMinute, BeginFlow(t) \/ BeginCounters(t)
      PROVE  Rest
  <2> DEFINE Numbered(file) == [i \in 1..Len(file) |->
                 [agent |-> file[i][1], interface |-> file[i][2], id |-> taken + i]]
  <2>0. PICK type : \E samples :
          /\ Begin(type, t, samples)
          /\ type = "cntr" => \E file \in CounterFiles : samples = Numbered(file)
    <3>1. CASE BeginFlow(t)
      <4>1. \E file \in FlowFiles : Begin("flow", t, file)
        BY <3>1 DEF BeginFlow
      <4> HIDE DEF Numbered
      <4> QED BY <4>1
    <3>2. CASE BeginCounters(t)
      <4>1. \E file \in CounterFiles : Begin("cntr", t, Numbered(file))
        BY <3>2 DEF BeginCounters
      <4> HIDE DEF Numbered
      <4> QED BY <4>1
    <3> QED BY <1>10, <3>1, <3>2
  <2>1. PICK samples :
          /\ Begin(type, t, samples)
          /\ type = "cntr" => \E file \in CounterFiles : samples = Numbered(file)
    <3> HIDE DEF Numbered
    <3> QED BY <2>0
  <2>2. /\ phase = "idle" /\ t \in latest[type]..now - 1 /\ phase' = "read" /\ stamp' = t
        /\ batch' = [number |-> begun', type |-> type, timestamp |-> t, samples |-> samples]
        /\ UNCHANGED <<tableVars, now>>
    BY <2>1 DEF Begin
  <2>3. expired' = NoDay
    BY <1>8, <2>2 DEF tableVars
  <2>4. t \in Nat /\ t <= now
    <3>1. now - 1 \in Int /\ t <= now - 1 /\ t \in Nat
      BY <1>1, <2>2, StorageAssumption
    <3> QED BY <1>1, <3>1
  <2>5. type = "cntr" => SamplesDiffer(batch')
    <3> SUFFICES ASSUME NEW file \in CounterFiles, samples = Numbered(file)
                 PROVE  SamplesDiffer(batch')
      BY <2>1
    <3>1. Len(file) \in Nat /\ taken \in Nat
      <4>1. file \in Seq(Nat \X Nat)
        BY StorageAssumption
      <4> QED BY <4>1, TypesParts DEF ProcessTyped
    <3>2. \A i \in DOMAIN samples : i \in Nat /\ samples[i].id = taken + i
      BY <3>1
    <3>3. batch'.samples = samples
      BY <2>2
    <3> QED BY <3>1, <3>2, <3>3 DEF SamplesDiffer
  <2>6. batch'.type = type /\ batch'.timestamp = t
    BY <2>2
  <2> QED BY <1>4, <2>2, <2>3, <2>4, <2>5, <2>6 DEF Working
<1>11. CASE (\E t \in Tails : ReadFlow(t)) \/ ReadCounter \/ FlowRead \/ CountersRead \/ StoreCsv \/ CsvDone
  <2>1. Working /\ Working' /\ UNCHANGED <<tableVars, stamp, batch, now>>
    BY <1>11 DEF ReadFlow, ReadCounter, FlowRead, CountersRead, StoreCsv, CsvDone, Working, Unread, AllRead
  <2>2. expired' = expired
    BY <2>1 DEF tableVars
  <2> QED BY <2>1, <2>2 DEF ClockInv
<1>12. ASSUME NEW k \in Kinds, Create(k)
       PROVE  Rest
  <2>1. UNCHANGED <<phase, stamp, batch, now>> /\ expired' = DayOf(stamp - Kept)
    BY <1>12 DEF Create, CreateTable
  <2> QED BY <2>1 DEF ClockInv, Working
<1>13. ASSUME NEW k \in Kinds, Drop(k)
       PROVE  Rest
  <2>1. /\ UNCHANGED <<stamp, batch, now>> /\ expired' = NoDay
        /\ phase' = phase \/ (phase = "start" /\ phase' \in {"idle", "start"})
    BY <1>13 DEF Drop, DropExpired
  <2> QED BY <2>1 DEF ClockInv, Working
<1>14. CASE InsertBulk \/ InsertRest \/ \E l \in Layers : StoreConversations(l)
  <2>1. /\ UNCHANGED <<stamp, batch, now, expired>> /\ phase = "mysql" /\ phase' \in {"mysql", "idle"}
    BY <1>14 DEF InsertBulk, InsertRest, StoreConversations, Load, TableDone, Ready
  <2> QED BY <2>1 DEF ClockInv, Working
<1>15. CASE Crash
  <2>1. phase' = "off" /\ expired' = NoDay /\ batch' = NoBatch
    BY <1>15 DEF Crash, Forget
  <2> QED BY <2>1, NoBatchType DEF Working
<1>16. CASE Tick
  <2>1. phase \in {"off", "idle"} /\ UNCHANGED <<phase, tableVars, stamp, batch>>
    BY <1>16 DEF Tick
  <2>2. expired' = expired
    BY <2>1 DEF tableVars
  <2> QED BY <2>1, <2>2 DEF ClockInv, Working
<1>17. CASE UNCHANGED vars
  <2>1. UNCHANGED <<phase, tableVars, stamp, batch, now>>
    BY <1>17 DEF vars
  <2>2. expired' = expired
    BY <2>1 DEF tableVars
  <2> QED BY <2>1, <2>2 DEF ClockInv, Working
<1> QED BY <1>9, <1>10, <1>11, <1>12, <1>13, <1>14, <1>15, <1>16, <1>17 DEF Next
\* Batches are numbered in the order in which they begin, and so are their rows.
NumbersInv ==
  /\ \A k \in Kinds : \A d \in DOMAIN db[k] : \A i \in DOMAIN db[k][d] : db[k][d][i].batch <= begun
  /\ \A k \in DOMAIN batches : batches[k].number <= begun
  /\ Working => batch.number = begun /\ \A k \in DOMAIN batches : batches[k].number < begun

LEMMA TablesType ==
  ASSUME TypesInv, NEW k \in Kinds
  PROVE  /\ DOMAIN db = Kinds /\ DOMAIN db[k] \subseteq Int
         /\ \A d \in DOMAIN db[k] : db[k][d] \in Seq(Row)
         /\ \A d \in DOMAIN db[k] : \A i \in DOMAIN db[k][d] : db[k][d][i] \in Row /\ db[k][d][i].batch \in Nat
<1>1. DOMAIN db = Kinds /\ DOMAIN db[k] \subseteq Int /\ \A d \in DOMAIN db[k] : db[k][d] \in Seq(Row)
  BY TypesParts DEF MysqlTypeOK
<1>2. \A r \in Row : r.batch \in Nat
  BY DEF Row
<1>3. \A s \in Seq(Row) : \A i \in DOMAIN s : s[i] \in Row
  OBVIOUS
<1> QED BY <1>1, <1>2, <1>3

\* What a step does to the tables of one kind.
LEMMA TablesStep ==
  ASSUME TypesInv, [Next]_vars, NEW k \in Kinds
  PROVE  \/ db'[k] = db[k]
         \/ Create(k) \/ Drop(k)
         \/ k = "counters" /\ (InsertBulk \/ InsertRest)
         \/ k \in Layers /\ StoreConversations(k)
<1>0. DOMAIN db = Kinds
  BY TablesType
<1>1. ASSUME NEW j \in Kinds, Create(j) \/ Drop(j), j # k
      PROVE  db'[k] = db[k]
  <2>1. db' = db \/ \E tables : db' = [db EXCEPT ![j] = tables]
    BY <1>1 DEF Create, CreateTable, Drop, DropExpired
  <2> QED BY <1>0, <1>1, <2>1
<1>2. ASSUME NEW l \in Layers, StoreConversations(l), l # k
      PROVE  db'[k] = db[k]
  <2>1. db' = db \/ \E tables : db' = [db EXCEPT ![l] = tables]
    BY <1>2 DEF StoreConversations, Load
  <2> QED BY <1>0, <1>2, <2>1
<1>3. ASSUME InsertBulk \/ InsertRest, k # "counters"
      PROVE  db'[k] = db[k]
  <2>1. db' = db \/ \E tables : db' = [db EXCEPT !["counters"] = tables]
    BY <1>3 DEF InsertBulk, InsertRest, Load
  <2> QED BY <1>0, <1>3, <2>1
<1>4. CASE UNCHANGED vars
  BY <1>4 DEF vars, tableVars
<1>5. CASE Start \/ (\E t \in Epoch..MaxMinute : BeginFlow(t) \/ BeginCounters(t))
           \/ (\E t \in Tails : ReadFlow(t)) \/ ReadCounter \/ FlowRead \/ CountersRead \/ StoreCsv
           \/ CsvDone \/ Crash \/ Tick
  BY <1>5 DEF Start, BeginFlow, BeginCounters, Begin, ReadFlow, ReadCounter, FlowRead, CountersRead,
              StoreCsv, CsvDone, Crash, Forget, Tick, tableVars
<1> QED BY <1>1, <1>2, <1>3, <1>4, <1>5 DEF Next

LEMMA CreatedTables ==
  ASSUME TypesInv, NEW k \in Kinds, Create(k)
  PROVE  \/ db'[k] = db[k]
         \/ \E d : d \notin DOMAIN db[k] /\ db'[k] = With(db[k], d, <<>>)
<1> DEFINE d == DayOf(stamp)
<1>1. db' = IF Exists(k, d) THEN db ELSE [db EXCEPT ![k] = With(@, d, <<>>)]
  BY DEF Create, CreateTable
<1>2. DOMAIN db = Kinds
  BY TablesType
<1> HIDE DEF d
<1>3. ~Exists(k, d) => db'[k] = With(db[k], d, <<>>)
  BY <1>1, <1>2
<1> QED BY <1>1, <1>3 DEF Exists

LEMMA DroppedTables ==
  ASSUME TypesInv, TablesInv, NEW k \in Kinds, Drop(k)
  PROVE  /\ db'[k] = Without(db[k], expired)
         /\ expired # NoDay /\ expired \in Int /\ phase \in {"start", "mysql"}
<1>1. db' = [db EXCEPT ![k] = Without(@, expired)] /\ expired # NoDay
  BY DEF Drop, DropExpired
<1>2. DOMAIN db = Kinds
  BY TablesType
<1> QED BY <1>1, <1>2 DEF TablesInv, TablesTyped, DropIsOlder

\* The tables after rows were loaded, if there is one to load them into.
LEMMA LoadedTables ==
  ASSUME TypesInv, NEW k \in Kinds, NEW rows, Load(k, rows)
  PROVE  /\ current[k].day \notin DOMAIN db[k] => db'[k] = db[k]
         /\ current[k].day \in DOMAIN db[k] =>
              db'[k] = With(db[k], current[k].day, db[k][current[k].day] \o rows)
<1> DEFINE d == current[k].day
           more == db[k][d] \o rows
<1>1. db' = IF Exists(k, d) THEN [db EXCEPT ![k] = With(@, d, more)] ELSE db
  BY DEF Load
<1>2. DOMAIN db = Kinds
  BY TablesType
<1> HIDE DEF d, more
<1>3. Exists(k, d) => db'[k] = With(db[k], d, more)
  BY <1>1, <1>2
<1>4. ~Exists(k, d) => db'[k] = db[k]
  BY <1>1
<1> QED BY <1>3, <1>4 DEF Exists, d, more

LEMMA LoadedRows ==
  ASSUME TypesInv, NEW k \in Kinds, NEW rows \in Seq(Row), Load(k, rows),
         \A j \in DOMAIN rows : rows[j].batch = batch.number
  PROVE  \A d \in DOMAIN db'[k] : \A i \in DOMAIN db'[k][d] :
           \/ d \in DOMAIN db[k] /\ i \in DOMAIN db[k][d] /\ db'[k][d][i] = db[k][d][i]
           \/ db'[k][d][i].batch = batch.number
<1> DEFINE T == db[k]
           U == db'[k]
           d == current[k].day
           more == T[d] \o rows
<1>1. /\ d \notin DOMAIN T => U = T
      /\ d \in DOMAIN T => U = With(T, d, more)
  BY LoadedTables
<1> HIDE DEF d
<1>2. CASE d \in DOMAIN T
  <2>1. T[d] \in Seq(Row)
    BY <1>2, TablesType
  <2>2. U = With(T, d, more)
    BY <1>1, <1>2
  <2> HIDE DEF T, U
  <2>3. /\ \A i \in DOMAIN T[d] : i \in DOMAIN more /\ more[i] = T[d][i]
        /\ \A j \in DOMAIN rows : more[Len(T[d]) + j] = rows[j]
        /\ \A i \in DOMAIN more : i \in DOMAIN T[d] \/ \E j \in DOMAIN rows : i = Len(T[d]) + j
    BY <2>1, Appended
  <2> HIDE DEF more
  <2>4. DOMAIN U = DOMAIN T /\ \A x \in DOMAIN T : U[x] = IF x = d THEN more ELSE T[x]
    BY <1>2, <2>2 DEF With
  <2>5. \A x \in DOMAIN U : \A i \in DOMAIN U[x] :
          (x \in DOMAIN T /\ i \in DOMAIN T[x] /\ U[x][i] = T[x][i]) \/ U[x][i].batch = batch.number
    BY <2>3, <2>4
  <2> QED BY <2>5 DEF T, U
<1> QED BY <1>1, <1>2

\* The samples that a step stores are the next ones, up to number c.
InsertsUpTo(c) ==
  /\ c \in cursor..Len(batch.samples)
  /\ Load("counters", CounterRows(cursor + 1, c))
  /\ InsertBulk => cursor' = c /\ phase' = "mysql"
  /\ InsertRest => c = Len(batch.samples) /\ phase' = "idle"

LEMMA InsertedSamples ==
  ASSUME TypesInv, InsertBulk \/ InsertRest
  PROVE  /\ phase = "mysql" /\ batch.type = "cntr" /\ batch' = batch
         /\ cursor \in 0..Len(batch.samples) /\ Len(batch.samples) \in Nat
         /\ \E c \in cursor..Len(batch.samples) : InsertsUpTo(c)
<1> DEFINE n == Len(batch.samples)
<1>1. Ready("counters") /\ batch' = batch
  BY DEF InsertBulk, InsertRest
<1>2. phase = "mysql" /\ batch.type = "cntr" /\ batch.samples \in Seq(Counter)
  BY <1>1, CountersBatch DEF Ready
<1>3. n \in Nat /\ cursor \in 0..n /\ Bulk \in Nat \ {0}
  BY <1>2, TypesParts, StorageAssumption DEF ProcessTyped
<1>4. ASSUME InsertBulk
      PROVE  \E c \in cursor..n : InsertsUpTo(c)
  <2>1. /\ n - cursor >= Bulk /\ cursor' = cursor + Bulk /\ phase' = "mysql"
        /\ Load("counters", CounterRows(cursor + 1, cursor + Bulk))
    BY <1>2, <1>4 DEF InsertBulk
  <2>2. cursor + Bulk \in cursor..n
    BY <1>3, <2>1
  <2>3. ~InsertRest
    BY <1>3, <2>1 DEF InsertRest
  <2>4. InsertsUpTo(cursor + Bulk)
    BY <2>1, <2>2, <2>3 DEF InsertsUpTo
  <2> QED BY <2>2, <2>4
<1>5. ASSUME InsertRest
      PROVE  \E c \in cursor..n : InsertsUpTo(c)
  <2>1. /\ n - cursor < Bulk /\ TableDone /\ Load("counters", CounterRows(cursor + 1, n))
    BY <1>5 DEF InsertRest
  <2>2. ~InsertBulk
    BY <1>3, <2>1 DEF InsertBulk
  <2>3. Len(todo) = 1
    <3>1. todo = <<"counters">>
      BY <1>2, TypesParts DEF WorkTyped
    <3>2. Len(<<"counters">>) = 1
      OBVIOUS
    <3> QED BY <3>1, <3>2
  <2>4. phase' = "idle"
    BY <2>1, <2>3 DEF TableDone
  <2>5. InsertsUpTo(n) /\ n \in cursor..n
    BY <1>3, <2>1, <2>2, <2>4 DEF InsertsUpTo
  <2> QED BY <2>5
<1>6. \E c \in cursor..n : InsertsUpTo(c)
  BY <1>4, <1>5
<1> QED BY <1>1, <1>2, <1>3, <1>6

LEMMA InsertedRows ==
  ASSUME TypesInv, batch.type = "cntr", cursor \in 0..Len(batch.samples), Len(batch.samples) \in Nat,
         NEW c \in cursor..Len(batch.samples)
  PROVE  /\ CounterRows(cursor + 1, c) \in Seq(Row)
         /\ DOMAIN CounterRows(cursor + 1, c) = 1..c - cursor
         /\ \A j \in 1..c - cursor :
              /\ CounterRows(cursor + 1, c)[j].batch = batch.number
              /\ CounterRows(cursor + 1, c)[j].id = batch.samples[cursor + j].id
<1>1. batch.number \in Nat /\ batch.samples \in Seq(Counter)
  <2>1. batch \in Batch /\ (batch.type = "cntr" => batch.samples \in Seq(Counter))
    BY TypesParts DEF ProcessTyped, WorkTyped
  <2> QED BY <2>1, BatchFields
<1>2. cursor + 1 \in 1..Len(batch.samples) + 1 /\ c \in (cursor + 1) - 1..Len(batch.samples)
  OBVIOUS
<1>3. CounterRows(cursor + 1, c) \in Seq(Row)
  BY <1>1, <1>2, CounterRowsType
<1> DEFINE row(i) == [batch |-> batch.number, id |-> batch.samples[(cursor + 1) + i - 1].id]
<1>4. CounterRows(cursor + 1, c) = [i \in 1..c - (cursor + 1) + 1 |-> row(i)]
  BY DEF CounterRows
<1>5. c - (cursor + 1) + 1 = c - cursor /\ \A j \in 1..c - cursor : (cursor + 1) + j - 1 = cursor + j
  OBVIOUS
<1>6. \A j \in 1..c - cursor : row(j).batch = batch.number /\ row(j).id = batch.samples[cursor + j].id
  BY <1>5
<1> HIDE DEF row
<1>7. CounterRows(cursor + 1, c) = [i \in 1..c - cursor |-> row(i)]
  BY <1>4, <1>5
<1> QED BY <1>3, <1>6, <1>7

\* A row is new only when it is one of the batch in work.
LEMMA RowsStep ==
  ASSUME TypesInv, TablesInv, [Next]_vars, NEW k \in Kinds
  PROVE  \A d \in DOMAIN db'[k] : \A i \in DOMAIN db'[k][d] :
           \/ d \in DOMAIN db[k] /\ i \in DOMAIN db[k][d] /\ db'[k][d][i] = db[k][d][i]
           \/ phase = "mysql" /\ db'[k][d][i].batch = batch.number
<1> DEFINE T == db[k]
           U == db'[k]
<1>1. CASE U = T
  BY <1>1
<1>2. CASE Create(k) /\ U # T
  <2>1. PICK d : d \notin DOMAIN T /\ U = With(T, d, <<>>)
    BY <1>2, CreatedTables
  <2> HIDE DEF T, U
  <2>2. DOMAIN <<>> = {}
    OBVIOUS
  <2>3. \A x \in DOMAIN U : U[x] = <<>> \/ (x \in DOMAIN T /\ U[x] = T[x])
    BY <2>1 DEF With
  <2> QED BY <2>2, <2>3 DEF T, U
<1>3. CASE Drop(k)
  <2>1. U = Without(T, expired)
    BY <1>3, DroppedTables
  <2>2. DOMAIN U = DOMAIN T \ {expired} /\ \A x \in DOMAIN T \ {expired} : U[x] = T[x]
    BY <2>1, WithoutTables, WithoutRows
  <2> QED BY <2>2
<1>4. CASE k = "counters" /\ (InsertBulk \/ InsertRest)
  <2>1. /\ phase = "mysql" /\ batch.type = "cntr" /\ cursor \in 0..Len(batch.samples) /\ Len(batch.samples) \in Nat
        /\ \E c \in cursor..Len(batch.samples) : InsertsUpTo(c)
    BY <1>4, InsertedSamples
  <2>2. PICK c \in cursor..Len(batch.samples) : InsertsUpTo(c)
    BY <2>1
  <2> DEFINE rows == CounterRows(cursor + 1, c)
  <2>3. rows \in Seq(Row) /\ \A j \in DOMAIN rows : rows[j].batch = batch.number
    BY <2>1, InsertedRows
  <2>4. Load(k, rows)
    BY <1>4, <2>2 DEF InsertsUpTo
  <2> HIDE DEF rows
  <2> QED BY <2>1, <2>3, <2>4, LoadedRows
<1>5. CASE k \in Layers /\ StoreConversations(k)
  <2>1. phase = "mysql" /\ Load(k, ConversationRows(k))
    BY <1>5 DEF StoreConversations, Ready, ConversationRows
  <2>2. /\ ConversationRows(k) \in Seq(Row)
        /\ \A j \in DOMAIN ConversationRows(k) : ConversationRows(k)[j].batch = batch.number
    BY <1>5, ConversationRowsType
  <2> QED BY <2>1, <2>2, LoadedRows
<1> QED BY <1>1, <1>2, <1>3, <1>4, <1>5, TablesStep

LEMMA InitNumbers == Init => NumbersInv
<1> SUFFICES ASSUME Init PROVE NumbersInv
  OBVIOUS
<1>1. db = [k \in Kinds |-> <<>>] /\ phase = "start" /\ batches = <<>>
  BY DEF Init, MysqlInit
<1>2. \A k \in Kinds : db[k] = <<>>
  BY <1>1
<1>3. DOMAIN batches = {} /\ \A k \in Kinds : DOMAIN db[k] = {}
  BY <1>1, <1>2
<1> QED BY <1>1, <1>3 DEF NumbersInv, Working

LEMMA StepNumbers ==
  ASSUME TypesInv, TablesInv, NumbersInv, [Next]_vars
  PROVE  NumbersInv'
<1>1. /\ begun \in Nat /\ batches \in Seq(Batch) /\ batch \in Batch
      /\ \A k \in DOMAIN batches : batches[k].number \in Nat
  <2>1. begun \in Nat /\ batches \in Seq(Batch) /\ batch \in Batch
    BY TypesParts, StorageAssumption DEF ProcessTyped
  <2>2. \A b \in Batch : b.number \in Nat
    BY DEF Batch
  <2> QED BY <2>1, <2>2
\* Who is in work, and under which number.
<1>2. \/ /\ begun' = begun + 1 /\ batch'.number = begun + 1 /\ phase = "idle" /\ phase' = "read"
      \/ begun' = begun /\ (Working' => Working /\ batch' = batch)
  <2>1. CASE UNCHANGED vars
    BY <2>1 DEF vars, Working
  <2>2. ASSUME NEW t \in Epoch..MaxMinute, BeginFlow(t) \/ BeginCounters(t)
        PROVE  begun' = begun + 1 /\ batch'.number = begun + 1 /\ phase = "idle" /\ phase' = "read"
    <3>0. PICK type : \E samples : Begin(type, t, samples)
      BY <2>2 DEF BeginFlow, BeginCounters
    <3>1. PICK samples : Begin(type, t, samples)
      BY <3>0
    <3>2. begun' = begun + 1 /\ phase = "idle" /\ phase' = "read"
          /\ batch' = [number |-> begun', type |-> type, timestamp |-> t, samples |-> samples]
      BY <3>1 DEF Begin
    <3> QED BY <3>2
  <2>3. CASE Start \/ (\E t \in Tails : ReadFlow(t)) \/ ReadCounter \/ FlowRead \/ CountersRead \/ StoreCsv
             \/ CsvDone \/ (\E k \in Kinds : Create(k) \/ Drop(k)) \/ InsertBulk \/ InsertRest
             \/ (\E l \in Layers : StoreConversations(l)) \/ Crash \/ Tick
    BY <2>3 DEF Start, ReadFlow, ReadCounter, FlowRead, CountersRead, StoreCsv, CsvDone, Create, Drop,
                InsertBulk, InsertRest, StoreConversations, Ready, TableDone, Crash, Tick, Working, Unread, AllRead
  <2> QED BY <2>1, <2>2, <2>3 DEF Next
<1>3. begun' \in Nat /\ begun <= begun'
  BY <1>1, <1>2
<1>4. ASSUME NEW k \in Kinds, NEW d \in DOMAIN db'[k], NEW i \in DOMAIN db'[k][d]
      PROVE  db'[k][d][i].batch <= begun'
  <2>1. CASE d \in DOMAIN db[k] /\ i \in DOMAIN db[k][d] /\ db'[k][d][i] = db[k][d][i]
    <3>1. db[k][d][i].batch <= begun /\ db[k][d][i].batch \in Nat
      BY <2>1, TablesType DEF NumbersInv
    <3> QED BY <1>1, <1>3, <2>1, <3>1
  <2>2. CASE phase = "mysql" /\ db'[k][d][i].batch = batch.number
    BY <1>1, <1>3, <2>2 DEF NumbersInv, Working
  <2> QED BY <2>1, <2>2, RowsStep
<1>5. CASE batches' = batches
  <2>1. \A k \in DOMAIN batches' : batches'[k].number <= begun'
    BY <1>1, <1>3, <1>5 DEF NumbersInv
  <2>2. Working' => batch'.number = begun' /\ \A k \in DOMAIN batches' : batches'[k].number < begun'
    BY <1>1, <1>2, <1>5 DEF NumbersInv
  <2> QED BY <1>4, <2>1, <2>2 DEF NumbersInv
<1>6. CASE batches' # batches
  <2>1. batches' = Append(batches, batch) /\ phase = "mysql" /\ phase' = "idle" /\ begun' = begun
    BY <1>6, BatchesStep
  <2>2. batch.number = begun
    BY <2>1 DEF NumbersInv, Working
  <2>3. \A k \in DOMAIN batches' : (k \in DOMAIN batches /\ batches'[k] = batches[k]) \/ batches'[k] = batch
    BY <1>1, <2>1, AppendedBatch
  <2>4. \A k \in DOMAIN batches' : batches'[k].number <= begun'
    BY <1>1, <2>1, <2>2, <2>3 DEF NumbersInv
  <2>5. ~Working'
    BY <2>1 DEF Working
  <2> QED BY <1>4, <2>4, <2>5 DEF NumbersInv
<1> QED BY <1>5, <1>6

\* Of a recent finished batch all samples are stored, and of the batch in work those
\* up to the cursor, if a day or more is kept.
FinishedStored ==
  \A k \in DOMAIN batches :
    Recent(batches[k]) /\ batches[k].type = "cntr" =>
      StoredIn(db["counters"], batches[k].number,
               SampleIds(batches[k], Len(batches[k].samples)), DayOf(batches[k].timestamp))

WorkStored ==
  Day % mysql.interval = 0 /\ Kept >= Day /\ Working /\ batch.type = "cntr" =>
    StoredIn(db["counters"], batch.number,
             IF phase = "mysql" THEN SampleIds(batch, cursor) ELSE {}, DayOf(stamp))

CountersInv ==
  /\ TypesInv /\ TablesInv /\ DayInv
  /\ ClockInv /\ NumbersInv /\ FinishedStored /\ WorkStored

\* What is dropped is older than what is to be kept, less a day.
LEMMA DroppedIsOld ==
  ASSUME CountersInv, expired # NoDay, phase \in {"start", "mysql"}, NEW t \in Nat,
         now - t <= Kept - Day
  PROVE  expired < DayOf(t)
<1>1. stamp \in Nat /\ now \in Nat /\ Kept \in Nat /\ Day \in Nat \ {0}
  BY ProcessFields, KeptType, MysqlAssumption DEF CountersInv
<1>2. stamp <= now /\ expired = DayOf(stamp - Kept)
  BY DEF CountersInv, ClockInv, Working
<1> DEFINE k == t - (stamp - Kept)
<1>3. k \in Nat /\ k >= Day /\ t - k = stamp - Kept
  BY <1>1, <1>2
<1> HIDE DEF k
<1>4. DayOf(t - k) < DayOf(t)
  BY <1>3, EarlierDay
<1> QED BY <1>2, <1>3, <1>4

\* The tables after a step that is no insertion hold all that is to be kept.
LEMMA StoredKept ==
  ASSUME CountersInv, [Next]_vars, ~(InsertBulk \/ InsertRest), NEW t \in Nat,
         expired # NoDay /\ phase \in {"start", "mysql"} => expired < DayOf(t),
         NEW n, NEW S, StoredIn(db["counters"], n, S, DayOf(t))
  PROVE  StoredIn(db'["counters"], n, S, DayOf(t))
<1>1. DayOf(t) \in Int
  BY PartitionType, ProcessFields DEF CountersInv
<1>2. CASE db'["counters"] = db["counters"]
  BY <1>2
<1>3. CASE Create("counters") /\ db'["counters"] # db["counters"]
  <2>1. PICK d : d \notin DOMAIN db["counters"] /\ db'["counters"] = With(db["counters"], d, <<>>)
    BY <1>3, CreatedTables, LayersAreKinds DEF CountersInv
  <2> QED BY <2>1, StoredCreated
<1>4. CASE Drop("counters")
  <2>1. /\ db'["counters"] = Without(db["counters"], expired)
        /\ expired # NoDay /\ expired \in Int /\ phase \in {"start", "mysql"}
    BY <1>4, DroppedTables, LayersAreKinds DEF CountersInv
  <2> QED BY <1>1, <2>1, StoredDropped
<1> QED BY <1>2, <1>3, <1>4, TablesStep, LayersAreKinds DEF CountersInv
\* There is a table for the rows of the batch in work.
LEMMA TableForRows ==
  ASSUME CountersInv, NEW k \in Kinds, Ready(k), Kept >= Day, Day % mysql.interval = 0
  PROVE  /\ current[k].day \in DOMAIN db[k]
         /\ DayOf(stamp) <= current[k].day
<1>1. mysql \in Settings /\ stamp \in Nat
  BY ProcessFields DEF CountersInv
<1>2. Epoch <= stamp /\ Epoch \in Nat
  BY StorageAssumption DEF CountersInv, ClockInv, Working, Ready
<1>3. mysql.interval \in Nat \ {0} /\ mysql.interval <= stamp
  BY <1>1, <1>2, StorageAssumption, MysqlAssumption
<1>4. PartitionOf(stamp) > 0 /\ PartitionOf(stamp) \in Int
  <2> DEFINE p == PartitionOf(stamp)
             n == mysql.interval
  <2>1. p \in Int /\ stamp < n * (p + 1)
    BY <1>1, <1>3, Quotient DEF PartitionOf
  <2> HIDE DEF p, n
  <2>2. n \in Nat \ {0} /\ n <= stamp
    BY <1>3 DEF n
  <2>3. p <= 0 => n * (p + 1) <= n * 1
    BY <2>1, <2>2
  <2>4. n * 1 = n /\ n * (p + 1) \in Int
    BY <2>1, <2>2
  <2> QED BY <1>1, <2>1, <2>2, <2>3, <2>4 DEF p
<1>5. current[k].day # NoDay
  <2> SUFFICES ASSUME current[k].day = NoDay PROVE FALSE
    OBVIOUS
  <2>1. current[k].partition = 0
    BY <1>1 DEF CountersInv, ClockInv
  <2>2. Due(k, stamp)
    BY <1>4, <2>1 DEF Due
  <2> QED BY <2>2 DEF Ready
<1>6. current[k].day \in DOMAIN db[k]
  BY <1>1, <1>5 DEF CountersInv, TablesInv, CurrentTableExists, Exists
<1>7. DayOf(stamp) <= current[k].day
  BY <1>1, <1>5, DayOfTable DEF CountersInv, DayInv
<1> QED BY <1>6, <1>7

\* A statement stores the samples up to number c behind those before.
LEMMA StoredInserted ==
  ASSUME CountersInv, InsertBulk \/ InsertRest, NEW c \in cursor..Len(batch.samples), InsertsUpTo(c),
         Kept >= Day, Day % mysql.interval = 0
  PROVE  StoredIn(db'["counters"], batch.number, SampleIds(batch, c), DayOf(stamp))
<1> DEFINE T == db["counters"]
           d == current["counters"].day
           rows == CounterRows(cursor + 1, c)
           n == batch.number
           S == SampleIds(batch, cursor)
           S2 == SampleIds(batch, c)
           id(j) == batch.samples[j].id
<1>1. /\ phase = "mysql" /\ batch.type = "cntr"
      /\ cursor \in 0..Len(batch.samples) /\ Len(batch.samples) \in Nat /\ Ready("counters")
  BY InsertedSamples DEF CountersInv, InsertBulk, InsertRest
<1>2. /\ rows \in Seq(Row) /\ DOMAIN rows = 1..c - cursor
      /\ \A j \in 1..c - cursor : rows[j].batch = n /\ rows[j].id = id(cursor + j)
  BY <1>1, InsertedRows DEF CountersInv
<1>3. \A i, j \in 1..Len(batch.samples) : id(i) = id(j) => i = j
  <2>1. batch.samples \in Seq(Counter)
    BY <1>1, TypesParts DEF CountersInv, WorkTyped
  <2>2. DOMAIN batch.samples = 1..Len(batch.samples)
    BY <2>1
  <2> QED BY <1>1, <2>2 DEF CountersInv, ClockInv, SamplesDiffer
<1>4. StoredIn(T, n, S, DayOf(stamp))
  BY <1>1 DEF CountersInv, WorkStored, Working
<1>5. d \in DOMAIN T /\ DayOf(stamp) <= d
  BY <1>1, TableForRows, LayersAreKinds
<1>6. T[d] \in Seq(Row)
  BY <1>5, TablesType, LayersAreKinds DEF CountersInv
<1>7. db'["counters"] = With(T, d, T[d] \o rows)
  <2>1. Load("counters", rows)
    BY DEF InsertsUpTo
  <2> HIDE DEF rows
  <2> QED BY <1>5, <2>1, LoadedTables, LayersAreKinds DEF CountersInv
<1>8. /\ \A x : x \in S <=> \E j \in 1..cursor : x = id(j)
      /\ \A x : x \in S2 <=> \E j \in 1..c : x = id(j)
  BY DEF SampleIds
<1> HIDE DEF id, S, S2, rows, n
<1>9. \A j \in DOMAIN rows : rows[j].batch = n /\ rows[j].id \in S2 /\ rows[j].id \notin S
  <2> SUFFICES ASSUME NEW j \in 1..c - cursor
               PROVE  rows[j].batch = n /\ rows[j].id \in S2 /\ rows[j].id \notin S
    BY <1>2
  <2>1. cursor + j \in 1..c /\ cursor + j \in 1..Len(batch.samples) /\ cursor + j \notin 1..cursor
    BY <1>1
  <2>2. \A i \in 1..cursor : i \in 1..Len(batch.samples) /\ id(i) # id(cursor + j)
    BY <1>1, <1>3, <2>1
  <2> QED BY <1>2, <1>8, <2>1, <2>2
<1>10. \A y \in S2 : y \in S \/ \E j \in DOMAIN rows : rows[j].id = y
  <2> SUFFICES ASSUME NEW i \in 1..c
               PROVE  id(i) \in S \/ \E j \in DOMAIN rows : rows[j].id = id(i)
    BY <1>8
  <2>1. CASE i <= cursor
    BY <1>1, <1>8, <2>1
  <2>2. CASE i > cursor
    <3>1. i - cursor \in 1..c - cursor /\ cursor + (i - cursor) = i
      BY <1>1, <2>2
    <3> QED BY <1>2, <3>1
  <2> QED BY <1>1, <2>1, <2>2
<1>11. S \subseteq S2
  <2>1. 1..cursor \subseteq 1..c
    BY <1>1
  <2> QED BY <1>8, <2>1
<1>12. \A i, j \in DOMAIN rows : rows[i].id = rows[j].id => i = j
  <2> SUFFICES ASSUME NEW i \in 1..c - cursor, NEW j \in 1..c - cursor, rows[i].id = rows[j].id
               PROVE  i = j
    BY <1>2
  <2>1. cursor + i \in 1..Len(batch.samples) /\ cursor + j \in 1..Len(batch.samples)
    BY <1>1
  <2>2. id(cursor + i) = id(cursor + j)
    BY <1>2
  <2>3. cursor + i = cursor + j
    BY <1>3, <2>1, <2>2
  <2> QED BY <1>1, <2>3
<1> HIDE DEF T, d
<1>13. StoredIn(With(T, d, T[d] \o rows), n, S2, DayOf(stamp))
  BY <1>2, <1>4, <1>5, <1>6, <1>9, <1>10, <1>11, <1>12, StoredMore
<1> QED BY <1>7, <1>13 DEF T, n, S2

\* The rows of the batch in work do not touch those of the batches before.
LEMMA StoredBefore ==
  ASSUME CountersInv, InsertBulk \/ InsertRest, NEW n, n # batch.number, NEW S, NEW t,
         StoredIn(db["counters"], n, S, t)
  PROVE  StoredIn(db'["counters"], n, S, t)
<1> DEFINE T == db["counters"]
           d == current["counters"].day
<1>1. /\ batch.type = "cntr" /\ cursor \in 0..Len(batch.samples) /\ Len(batch.samples) \in Nat
      /\ \E c \in cursor..Len(batch.samples) : InsertsUpTo(c)
  BY InsertedSamples DEF CountersInv
<1>2. PICK c \in cursor..Len(batch.samples) : InsertsUpTo(c)
  BY <1>1
<1> DEFINE rows == CounterRows(cursor + 1, c)
<1>3. rows \in Seq(Row) /\ \A j \in DOMAIN rows : rows[j].batch # n
  BY <1>1, InsertedRows DEF CountersInv
<1>4. Load("counters", rows)
  BY <1>2 DEF InsertsUpTo
<1> HIDE DEF rows
<1>5. /\ d \notin DOMAIN T => db'["counters"] = T
      /\ d \in DOMAIN T => db'["counters"] = With(T, d, T[d] \o rows)
  BY <1>4, LoadedTables, LayersAreKinds DEF CountersInv
<1>6. CASE d \in DOMAIN T
  <2>1. T[d] \in Seq(Row)
    BY <1>6, TablesType, LayersAreKinds DEF CountersInv
  <2> HIDE DEF T, d
  <2>2. StoredIn(T, n, S, t)
    BY DEF T
  <2>3. StoredIn(With(T, d, T[d] \o rows), n, S, t)
    BY <1>3, <1>6, <2>1, <2>2, StoredOther
  <2> QED BY <1>5, <1>6, <2>3
<1> QED BY <1>5, <1>6

LEMMA SettingsStep ==
  ASSUME TypesInv, [Next]_vars
  PROVE  mysql' = mysql /\ Kept' = Kept /\ now \in Nat /\ now' \in Nat /\ now <= now'
<1>1. mysql' = mysql
  <2>1. CASE UNCHANGED vars
    BY <2>1 DEF vars, tableVars
  <2>2. CASE Next
    BY <2>2 DEF Next, Start, BeginFlow, BeginCounters, Begin, ReadFlow, ReadCounter, FlowRead,
                CountersRead, StoreCsv, CsvDone, Create, CreateTable, Drop, DropExpired,
                StoreConversations, InsertBulk, InsertRest, Load, Crash, Forget, Tick, tableVars
  <2> QED BY <2>1, <2>2
<1>2. now' = now \/ now' = now + 1
  BY DEF Next, Start, BeginFlow, BeginCounters, Begin, ReadFlow, ReadCounter, FlowRead,
         CountersRead, StoreCsv, CsvDone, Create, Drop, StoreConversations, InsertBulk, InsertRest,
         Crash, Tick, vars
<1> QED BY <1>1, <1>2, ProcessFields DEF Kept

LEMMA InitCounters == Init => FinishedStored /\ WorkStored
<1> SUFFICES ASSUME Init PROVE FinishedStored /\ WorkStored
  OBVIOUS
<1>1. phase = "start" /\ batches = <<>> /\ DOMAIN batches = {}
  BY DEF Init
<1> QED BY <1>1 DEF FinishedStored, WorkStored, Working

LEMMA StepFinished ==
  ASSUME CountersInv, [Next]_vars
  PROVE  FinishedStored'
<1>1. /\ mysql' = mysql /\ Kept' = Kept /\ now \in Nat /\ now' \in Nat /\ now <= now'
      /\ Kept \in Nat /\ Day \in Nat \ {0}
  BY SettingsStep, ProcessFields, KeptType, MysqlAssumption DEF CountersInv
<1> SUFFICES ASSUME NEW k \in DOMAIN batches', batches'[k].type = "cntr", Day % mysql.interval = 0,
                    now' - batches'[k].timestamp <= Kept - Day
             PROVE  StoredIn(db'["counters"], batches'[k].number,
                             SampleIds(batches'[k], Len(batches'[k].samples)),
                             DayOf(batches'[k].timestamp))
  BY <1>1 DEF FinishedStored, StoredIn, SampleIds, DayOf, Recent
<1>2. batches \in Seq(Batch) /\ batch \in Batch
  BY TypesParts DEF CountersInv, ProcessTyped
<1>3. ASSUME NEW b \in Batch, b.type = "cntr", Day % mysql.interval = 0, now' - b.timestamp <= Kept - Day,
             InsertBulk \/ InsertRest => b.number # batch.number,
             StoredIn(db["counters"], b.number, SampleIds(b, Len(b.samples)), DayOf(b.timestamp))
      PROVE  StoredIn(db'["counters"], b.number, SampleIds(b, Len(b.samples)), DayOf(b.timestamp))
  <2>1. b.timestamp \in Nat /\ now - b.timestamp <= Kept - Day
    BY <1>1, <1>3, BatchFields
  <2>2. CASE InsertBulk \/ InsertRest
    BY <1>3, <2>2, StoredBefore
  <2>3. CASE ~(InsertBulk \/ InsertRest)
    <3>1. expired # NoDay /\ phase \in {"start", "mysql"} => expired < DayOf(b.timestamp)
      BY <2>1, DroppedIsOld
    <3> QED BY <1>3, <2>1, <2>3, <3>1, StoredKept
  <2> QED BY <2>2, <2>3
<1>4. ASSUME NEW b, b = batches'[k], k \in DOMAIN batches, batches[k] = b
      PROVE  StoredIn(db'["counters"], b.number, SampleIds(b, Len(b.samples)), DayOf(b.timestamp))
  <2>1. b \in Batch
    BY <1>2, <1>4
  <2>2. Day % mysql.interval = 0 /\ now' - b.timestamp <= Kept - Day /\ b.type = "cntr"
    BY <1>4
  <2>3. Recent(b)
    BY <1>1, <2>1, <2>2, BatchFields DEF Recent
  <2>4. InsertBulk \/ InsertRest => b.number # batch.number
    <3>1. InsertBulk \/ InsertRest => Working
      BY InsertedSamples DEF CountersInv, Working
    <3>2. Working => batch.number = begun /\ b.number < begun
      BY <1>4 DEF CountersInv, NumbersInv
    <3>3. begun \in Int /\ b.number \in Int
      BY <2>1, BatchFields, TypesParts, StorageAssumption DEF CountersInv, ProcessTyped
    <3> QED BY <3>1, <3>2, <3>3
  <2>5. StoredIn(db["counters"], b.number, SampleIds(b, Len(b.samples)), DayOf(b.timestamp))
    BY <1>4, <2>2, <2>3 DEF CountersInv, FinishedStored
  <2> QED BY <1>3, <2>1, <2>2, <2>4, <2>5
<1>5. CASE batches' = batches
  BY <1>4, <1>5
<1>6. CASE batches' # batches
  <2>1. /\ batches' = Append(batches, batch) /\ phase = "mysql" /\ phase' = "idle"
        /\ InsertRest \/ \E l \in Layers : StoreConversations(l)
    BY <1>6, BatchesStep DEF CountersInv
  <2>2. (k \in DOMAIN batches /\ batches'[k] = batches[k]) \/ batches'[k] = batch
    BY <1>2, <2>1, AppendedBatch
  <2>3. ASSUME batches'[k] = batch
        PROVE  StoredIn(db'["counters"], batch.number, SampleIds(batch, Len(batch.samples)),
                        DayOf(batch.timestamp))
    <3>1. batch.type = "cntr" /\ batch.timestamp = stamp /\ stamp \in Nat /\ stamp <= now
      BY <2>1, <2>3, ProcessFields DEF CountersInv, ClockInv, Working
    <3>2. todo = <<"counters">>
      BY <2>1, <3>1, TypesParts DEF CountersInv, WorkTyped
    <3>3. ~\E l \in Layers : StoreConversations(l)
      <4>1. Head(todo) = "counters"
        BY <3>2
      <4>2. ASSUME NEW l \in Layers, StoreConversations(l)
            PROVE  l = "counters"
        BY <4>1, <4>2 DEF StoreConversations, Ready
      <4> QED BY <4>2, LayersAreKinds
    <3>4. InsertRest
      BY <2>1, <3>3
    <3>5. Day % mysql.interval = 0 /\ now' - batch.timestamp <= Kept - Day
      BY <2>3
    <3>6. Kept >= Day
      BY <1>1, <3>1, <3>5
    <3>7. PICK c \in cursor..Len(batch.samples) : InsertsUpTo(c)
      BY <3>4, InsertedSamples DEF CountersInv
    <3>8. c = Len(batch.samples)
      BY <3>4, <3>7 DEF InsertsUpTo
    <3>9. StoredIn(db'["counters"], batch.number, SampleIds(batch, c), DayOf(stamp))
      BY <3>4, <3>5, <3>6, <3>7, StoredInserted
    <3> QED BY <3>1, <3>8, <3>9
  <2> QED BY <1>4, <2>2, <2>3
<1> QED BY <1>5, <1>6

LEMMA StepWork ==
  ASSUME CountersInv, [Next]_vars
  PROVE  WorkStored'
<1>1. mysql' = mysql /\ Kept' = Kept
  BY SettingsStep DEF CountersInv
<1> DEFINE held == IF phase = "mysql" THEN SampleIds(batch, cursor) ELSE {}
           held2 == IF phase' = "mysql" THEN SampleIds(batch', cursor') ELSE {}
<1> SUFFICES ASSUME Day % mysql.interval = 0, Kept >= Day, Working', batch'.type = "cntr"
             PROVE  StoredIn(db'["counters"], batch'.number, held2, DayOf(stamp'))
  BY <1>1 DEF WorkStored, StoredIn, SampleIds, DayOf
<1>2. /\ stamp \in Nat /\ now \in Nat /\ Kept \in Nat /\ Day \in Nat \ {0}
      /\ batch \in Batch /\ begun \in Nat /\ cursor \in Nat
  <2>1. batch \in Batch /\ begun \in Nat /\ cursor \in 0..Len(batch.samples)
    BY TypesParts, StorageAssumption DEF CountersInv, ProcessTyped
  <2>2. Len(batch.samples) \in Nat
    BY <2>1, BatchFields
  <2> QED BY <2>1, <2>2, ProcessFields, KeptType, MysqlAssumption DEF CountersInv
<1>3. ASSUME Working, batch' = batch, stamp' = stamp, held2 = held, ~(InsertBulk \/ InsertRest)
      PROVE  StoredIn(db'["counters"], batch'.number, held2, DayOf(stamp'))
  <2>1. StoredIn(db["counters"], batch.number, held, DayOf(stamp))
    BY <1>3 DEF CountersInv, WorkStored
  <2>2. ASSUME expired # NoDay, phase \in {"start", "mysql"}
        PROVE  expired < DayOf(stamp)
    <3>1. expired = DayOf(stamp - Kept)
      BY <2>2 DEF CountersInv, ClockInv
    <3> QED BY <1>2, <3>1, EarlierDay
  <2>3. StoredIn(db'["counters"], batch.number, held, DayOf(stamp))
    <3> HIDE DEF held
    <3> QED BY <1>2, <1>3, <2>1, <2>2, StoredKept
  <2> QED BY <1>3, <2>3
<1>4. ASSUME NEW t \in Epoch..MaxMinute, BeginFlow(t) \/ BeginCounters(t)
      PROVE  StoredIn(db'["counters"], batch'.number, held2, DayOf(stamp'))
  <2>0. PICK type : \E samples : Begin(type, t, samples)
    BY <1>4 DEF BeginFlow, BeginCounters
  <2>1. PICK samples : Begin(type, t, samples)
    BY <2>0
  <2>2. /\ phase' = "read" /\ begun' = begun + 1 /\ db' = db
        /\ batch' = [number |-> begun', type |-> type, timestamp |-> t, samples |-> samples]
    BY <2>1 DEF Begin, tableVars
  <2>3. batch'.number = begun + 1 /\ held2 = {}
    BY <2>2
  <2>4. \A d \in DOMAIN db["counters"] : \A i \in DOMAIN db["counters"][d] :
          db["counters"][d][i].batch <= begun /\ db["counters"][d][i].batch \in Nat
    BY TablesType, LayersAreKinds DEF CountersInv, NumbersInv
  <2>5. \A d \in DOMAIN db["counters"] : \A i \in DOMAIN db["counters"][d] :
          db["counters"][d][i].batch # begun + 1
    BY <1>2, <2>4
  <2> HIDE DEF held2
  <2> QED BY <2>2, <2>3, <2>5 DEF StoredIn
<1>5. CASE (\E t \in Tails : ReadFlow(t)) \/ ReadCounter \/ StoreCsv
  <2>1. Working /\ phase' = phase /\ phase # "mysql" /\ UNCHANGED <<batch, stamp>>
    BY <1>5 DEF ReadFlow, ReadCounter, StoreCsv, Unread, Working
  <2>2. ~(InsertBulk \/ InsertRest)
    BY <2>1 DEF InsertBulk, InsertRest, Ready
  <2> QED BY <1>3, <2>1, <2>2
<1>6. CASE CountersRead \/ CsvDone
  <2>1. Working /\ phase # "mysql" /\ UNCHANGED <<batch, stamp>>
    BY <1>6 DEF CountersRead, CsvDone, AllRead, Working
  <2>2. phase' = "mysql" => cursor' = 0
    BY <1>6 DEF CountersRead, CsvDone
  <2>3. held2 = held
    BY <2>1, <2>2 DEF SampleIds
  <2>4. ~(InsertBulk \/ InsertRest)
    BY <2>1 DEF InsertBulk, InsertRest, Ready
  <2> QED BY <1>3, <2>1, <2>3, <2>4
<1>7. CASE FlowRead
  BY <1>7 DEF FlowRead
<1>8. ASSUME NEW k \in Kinds, Create(k) \/ Drop(k)
      PROVE  StoredIn(db'["counters"], batch'.number, held2, DayOf(stamp'))
  <2>1. /\ phase \in {"start", "mysql"} /\ UNCHANGED <<batch, stamp, cursor>>
        /\ phase' = phase \/ phase' \in {"idle", "start"}
    <3>1. CASE Create(k)
      BY <3>1 DEF Create
    <3>2. CASE Drop(k)
      <4>1. expired # NoDay
        BY <3>2 DEF Drop, DropExpired
      <4>2. phase \in {"start", "mysql"}
        BY <4>1 DEF CountersInv, TablesInv, DropIsOlder
      <4> QED BY <3>2, <4>2 DEF Drop
    <3> QED BY <1>8, <3>1, <3>2
  <2>2. phase = "mysql" /\ phase' = "mysql"
    BY <2>1 DEF Working
  <2>3. held2 = held /\ Working
    BY <2>1, <2>2 DEF Working
  <2>4. CASE InsertBulk \/ InsertRest
    <3>1. UNCHANGED expired /\ expired = NoDay /\ UNCHANGED current
      BY <2>4 DEF InsertBulk, InsertRest, Ready, Load
    <3>2. ~Create(k) \/ ~Due("counters", stamp)
      BY <2>4 DEF InsertBulk, InsertRest, Ready
    <3>3. Create(k) => k = Head(todo) /\ Due(k, stamp)
      BY <2>2 DEF Create
    <3>4. "counters" = Head(todo)
      BY <2>4 DEF InsertBulk, InsertRest, Ready
    <3>5. ~Drop(k)
      BY <3>1 DEF Drop, DropExpired
    <3> QED BY <1>8, <3>2, <3>3, <3>4, <3>5
  <2> QED BY <1>3, <2>1, <2>3, <2>4
<1>9. ASSUME NEW l \in Layers, StoreConversations(l)
      PROVE  FALSE
  <2>1. phase = "mysql" /\ l = Head(todo) /\ batch' = batch
    BY <1>9 DEF StoreConversations, Ready
  <2>2. todo = <<"counters">>
    BY <2>1, TypesParts DEF CountersInv, WorkTyped
  <2> QED BY <2>1, <2>2, LayersAreKinds
<1>10. CASE InsertBulk \/ InsertRest
  <2>1. /\ phase = "mysql" /\ batch' = batch
        /\ \E c \in cursor..Len(batch.samples) : InsertsUpTo(c)
    BY <1>10, InsertedSamples DEF CountersInv
  <2>2. PICK c \in cursor..Len(batch.samples) : InsertsUpTo(c)
    BY <2>1
  <2>3. StoredIn(db'["counters"], batch.number, SampleIds(batch, c), DayOf(stamp))
    BY <1>10, <2>2, StoredInserted
  <2>4. InsertBulk /\ cursor' = c /\ phase' = "mysql"
    BY <1>10, <2>2 DEF InsertsUpTo, Working
  <2>5. stamp' = stamp
    BY <2>4 DEF InsertBulk
  <2> QED BY <2>1, <2>3, <2>4, <2>5
<1>11. CASE Start \/ Crash \/ Tick
  <2>1. ~Working'
    BY <1>11 DEF Start, Crash, Tick, Working
  <2> QED BY <2>1
<1>12. CASE UNCHANGED vars
  <2>1. UNCHANGED <<phase, batch, cursor, stamp>> /\ db' = db
    BY <1>12 DEF vars, tableVars
  <2>2. Working
    BY <2>1 DEF Working
  <2>3. StoredIn(db["counters"], batch.number, held, DayOf(stamp))
    BY <2>1, <2>2 DEF CountersInv, WorkStored
  <2> QED BY <2>1, <2>3
<1> QED BY <1>4, <1>5, <1>6, <1>7, <1>8, <1>9, <1>10, <1>11, <1>12 DEF Next

\* A batch whose samples are in the tables has as many rows as samples.
LEMMA StoredRows ==
  ASSUME NEW b, Len(b.samples) \in Nat, DOMAIN b.samples = 1..Len(b.samples), SamplesDiffer(b), NEW t,
         StoredIn(db["counters"], b.number, SampleIds(b, Len(b.samples)), t)
  PROVE  CountersStored(b)
<1> DEFINE T == db["counters"]
           n == Len(b.samples)
           R == RowsOf("counters", b)
           id(x) == T[x[1]][x[2]].id
           want(j) == b.samples[j].id
           s == [j \in 1..n |-> CHOOSE x \in R : id(x) = want(j)]
<1>1. \A d \in DOMAIN T : \A i \in DOMAIN T[d] : T[d][i].batch = b.number => <<d, i>> \in R
  <2> SUFFICES ASSUME NEW d \in DOMAIN T, NEW i \in DOMAIN T[d], T[d][i].batch = b.number
               PROVE  <<d, i>> \in R
    OBVIOUS
  <2>1. <<d, i>> \in {d} \X DOMAIN T[d] /\ <<d, i>>[1] = d /\ <<d, i>>[2] = i
    OBVIOUS
  <2>2. <<d, i>> \in UNION {{e} \X DOMAIN T[e] : e \in DOMAIN T}
    BY <2>1
  <2> QED BY <2>1, <2>2 DEF RowsOf
<1>2. \A x \in R : \E d \in DOMAIN T : \E i \in DOMAIN T[d] :
        x = <<d, i>> /\ x[1] = d /\ x[2] = i /\ T[d][i].batch = b.number
  <2> SUFFICES ASSUME NEW x \in R
               PROVE  \E d \in DOMAIN T : \E i \in DOMAIN T[d] :
                        x = <<d, i>> /\ x[1] = d /\ x[2] = i /\ T[d][i].batch = b.number
    OBVIOUS
  <2>1. x \in UNION {{e} \X DOMAIN T[e] : e \in DOMAIN T} /\ T[x[1]][x[2]].batch = b.number
    BY DEF RowsOf
  <2>2. PICK d \in DOMAIN T : x \in {d} \X DOMAIN T[d]
    BY <2>1
  <2>3. x[1] = d /\ x[2] \in DOMAIN T[d] /\ x = <<d, x[2]>>
    BY <2>2
  <2> QED BY <2>1, <2>3
<1>3. SampleIds(b, n) = {want(j) : j \in 1..n}
  BY DEF SampleIds
<1>4. \A i, j \in 1..n : want(i) = want(j) => i = j
  BY DEF SamplesDiffer
<1> HIDE DEF want, n
<1>5. \A x \in R : id(x) \in {want(j) : j \in 1..n}
  <2> SUFFICES ASSUME NEW x \in R
               PROVE  id(x) \in {want(j) : j \in 1..n}
    OBVIOUS
  <2>1. PICK d \in DOMAIN T : \E i \in DOMAIN T[d] :
          x = <<d, i>> /\ x[1] = d /\ x[2] = i /\ T[d][i].batch = b.number
    BY <1>2
  <2>2. PICK i \in DOMAIN T[d] : x = <<d, i>> /\ x[1] = d /\ x[2] = i /\ T[d][i].batch = b.number
    BY <2>1
  <2>3. T[d][i].id \in SampleIds(b, n)
    BY <2>2 DEF StoredIn, n
  <2> QED BY <1>3, <2>2, <2>3
<1>6. \A j \in 1..n : \E x \in R : id(x) = want(j)
  <2> SUFFICES ASSUME NEW j \in 1..n PROVE \E x \in R : id(x) = want(j)
    OBVIOUS
  <2>1. want(j) \in SampleIds(b, n)
    BY <1>3
  <2>2. PICK d \in DOMAIN T : \E i \in DOMAIN T[d] : T[d][i].batch = b.number /\ T[d][i].id = want(j)
    BY <2>1 DEF StoredIn, n
  <2>3. PICK i \in DOMAIN T[d] : T[d][i].batch = b.number /\ T[d][i].id = want(j)
    BY <2>2
  <2>4. <<d, i>> \in R /\ id(<<d, i>>) = want(j)
    BY <1>1, <2>3
  <2> QED BY <2>4
<1>7. \A x, y \in R : id(x) = id(y) => x = y
  <2> SUFFICES ASSUME NEW x \in R, NEW y \in R, id(x) = id(y) PROVE x = y
    OBVIOUS
  <2>1. PICK d \in DOMAIN T : \E i \in DOMAIN T[d] :
          x = <<d, i>> /\ x[1] = d /\ x[2] = i /\ T[d][i].batch = b.number
    BY <1>2
  <2>2. PICK i \in DOMAIN T[d] : x = <<d, i>> /\ x[1] = d /\ x[2] = i /\ T[d][i].batch = b.number
    BY <2>1
  <2>3. PICK e \in DOMAIN T : \E j \in DOMAIN T[e] :
          y = <<e, j>> /\ y[1] = e /\ y[2] = j /\ T[e][j].batch = b.number
    BY <1>2
  <2>4. PICK j \in DOMAIN T[e] : y = <<e, j>> /\ y[1] = e /\ y[2] = j /\ T[e][j].batch = b.number
    BY <2>3
  <2>5. d = e /\ i = j
    BY <2>2, <2>4 DEF StoredIn
  <2> QED BY <2>2, <2>4, <2>5
<1> HIDE DEF R, id
<1>8. \A j \in 1..n : s[j] \in R /\ id(s[j]) = want(j)
  BY <1>6
<1>9. n \in Nat /\ DOMAIN s = 1..n
  BY DEF n
<1>10. s \in Seq(R) /\ Len(s) = n
  <2>1. s \in [1..n -> R]
    BY <1>8
  <2> HIDE DEF s
  <2> QED BY <1>9, <2>1
<1> HIDE DEF s
<1>11. IsInjective(s)
  BY <1>4, <1>8, <1>9 DEF IsInjective
<1>12. Range(s) = R
  <2>1. ASSUME NEW x \in R PROVE \E j \in 1..n : s[j] = x
    <3>1. PICK j \in 1..n : id(x) = want(j)
      BY <1>5
    <3> QED BY <1>7, <1>8, <3>1
  <2> QED BY <1>8, <1>9, <2>1 DEF Range
<1>13. Cardinality(R) = n
  BY <1>10, <1>11, <1>12, InjectiveCardinality
<1>14. {id(x) : x \in R} = {want(j) : j \in 1..n}
  BY <1>5, <1>6
<1>15. DOMAIN b.samples = 1..n /\ n = Len(b.samples)
  BY DEF n
<1> QED BY <1>13, <1>14, <1>15 DEF CountersStored, R, id, want

LEMMA CountersAreStored ==
  CountersInv => RecentCountersAreStored
<1> SUFFICES ASSUME CountersInv, NEW i \in DOMAIN batches, Recent(batches[i]), batches[i].type = "cntr"
             PROVE  CountersStored(batches[i])
  BY DEF RecentCountersAreStored
<1> DEFINE b == batches[i]
<1>1. b \in Batch
  BY TypesParts DEF CountersInv, ProcessTyped
<1>2. /\ SamplesDiffer(b)
      /\ StoredIn(db["counters"], b.number, SampleIds(b, Len(b.samples)), DayOf(b.timestamp))
  BY DEF CountersInv, ClockInv, FinishedStored
<1> HIDE DEF b
<1>3. Len(b.samples) \in Nat /\ DOMAIN b.samples = 1..Len(b.samples)
  BY <1>1, BatchFields
<1>4. CountersStored(b)
  BY <1>2, <1>3, StoredRows
<1> QED BY <1>4 DEF b

\* The table of counters holds each sample of a recent finished batch exactly once:
\* neither the statements of BULK_INSERT_NUM rows, the daily tables made and dropped
\* between them, a midnight, nor batches that an end of stprocessd cut off lose or
\* repeat one (storage_mysql_store_cntr).
THEOREM StorageCounters == Spec => []RecentCountersAreStored
<1>1. Init => CountersInv
  BY InitTypes, InitTables, InitDay, InitClock, InitNumbers, InitCounters DEF CountersInv
<1>2. CountersInv /\ [Next]_vars => CountersInv'
  BY StepTypes, StepTables, StepDay, StepClock, StepNumbers, StepFinished, StepWork DEF CountersInv
<1> QED BY <1>1, <1>2, CountersAreStored, PTL DEF Spec
-----------------------------------------------------------------------------
(* The lines of the csv module, and the entries that their rates come from. *)

Written == [sample : Counter, file : Nat]

\* The n-th sample is the last one of the interface of s.
LastOfSame(w, n, s) ==
  Same(w[n].sample, s) /\ \A m \in DOMAIN w : Same(w[m].sample, s) => m <= n

\* Bucket b, with its entries, is that of the samples w: it has one entry for each
\* interface met, which holds the last sample of it.
EntriesOf(entries, b, w) ==
  /\ \A i \in DOMAIN entries : entries[i].agent % CsvBuckets = b
  /\ \A i, j \in DOMAIN entries : Same(entries[i], entries[j]) => i = j
  /\ \A i \in DOMAIN entries : \E n \in DOMAIN w :
       LastOfSame(w, n, entries[i]) /\ entries[i].id = w[n].sample.id
  /\ \A n \in DOMAIN w : w[n].sample.agent % CsvBuckets = b =>
       \E i \in DOMAIN entries : Same(entries[i], w[n].sample)

\* The line of the n-th sample of w, as in LineOf.
LineIn(w, n) ==
  LET s == w[n].sample
      before == {i \in 1..n - 1 : w[i].sample.agent = s.agent /\ w[i].sample.interface = s.interface}
  IN [id |-> s.id, since |-> IF before = {} THEN 0 ELSE w[Max(before)].sample.id]

\* How many of the first n samples of w went to file m.
PlaceIn(w, n, m) == Cardinality({i \in 1..n : w[i].file = m})

LinesIn(c, w) ==
  \A n \in DOMAIN w : /\ w[n].file \in DOMAIN c
                      /\ PlaceIn(w, n, w[n].file) \in DOMAIN c[w[n].file]
                      /\ c[w[n].file][PlaceIn(w, n, w[n].file)] = LineIn(w, n)

LEMMA LinesAreFollowed == CsvFollowsCounters <=> LinesIn(csv, written)
BY DEF CsvFollowsCounters, LinesIn, LineOf, LineIn, PlaceIn

LEMMA AppendedTo ==
  ASSUME NEW R, NEW s \in Seq(R), NEW x \in R
  PROVE  /\ Len(s) \in Nat /\ DOMAIN s = 1..Len(s)
         /\ Append(s, x) \in Seq(R) /\ DOMAIN Append(s, x) = 1..Len(s) + 1
         /\ \A i \in 1..Len(s) : i \in DOMAIN s /\ Append(s, x)[i] = s[i]
         /\ Append(s, x)[Len(s) + 1] = x
OBVIOUS

LEMMA GreatestFound ==
  ASSUME NEW n \in Nat, NEW T \in SUBSET (1..n), T # {}
  PROVE  Max(T) \in T /\ \A m \in T : m <= Max(T)
<1> DEFINE U == {n - m : m \in T}
<1>1. U \in SUBSET Nat /\ U # {}
  <2>1. \A m \in T : n - m \in Nat
    OBVIOUS
  <2>2. PICK m \in T : TRUE
    OBVIOUS
  <2> QED BY <2>1, <2>2
<1>2. PICK u \in U : \A v \in U : u <= v
  BY <1>1, LeastNatural
<1>3. PICK m \in T : u = n - m
  BY <1>2
<1>4. \A i \in T : n - m <= n - i
  BY <1>2, <1>3
<1>5. \A i \in T : i \in 1..n
  OBVIOUS
<1>6. \A i \in T : m >= i
  BY <1>4, <1>5
<1>7. \E x \in T : \A y \in T : x >= y
  BY <1>6
<1>8. Max(T) \in T /\ \A y \in T : Max(T) >= y
  BY <1>7 DEF Max
<1> QED BY <1>5, <1>8

\* A sample more changes nothing for those before.
LEMMA LineKept ==
  ASSUME NEW w \in Seq(Written), NEW x \in Written, NEW n \in DOMAIN w
  PROVE  LineIn(Append(w, x), n) = LineIn(w, n)
<1> DEFINE a == Append(w, x)
           same(i, v) == v[i].sample.agent = v[n].sample.agent /\ v[i].sample.interface = v[n].sample.interface
           before(v) == {i \in 1..n - 1 : same(i, v)}
<1>1. n \in 1..Len(w) /\ Len(w) \in Nat /\ \A i \in 1..Len(w) : a[i] = w[i]
  BY AppendedTo
<1> HIDE DEF a
<1>2. n - 1 \in Nat /\ \A i \in 1..n - 1 : i \in 1..Len(w)
  BY <1>1
<1>3. before(a) = before(w)
  BY <1>1, <1>2
<1>4. before(w) # {} => Max(before(w)) \in 1..n - 1
  <2>1. before(w) \in SUBSET (1..n - 1)
    OBVIOUS
  <2> HIDE DEF before
  <2> QED BY <1>2, <2>1, GreatestFound
<1>5. \A v : LineIn(v, n) = [id |-> v[n].sample.id,
                             since |-> IF before(v) = {} THEN 0 ELSE v[Max(before(v))].sample.id]
  BY DEF LineIn
<1> HIDE DEF before
<1>6. before(w) # {} => a[Max(before(w))] = w[Max(before(w))]
  BY <1>1, <1>2, <1>4
<1>7. a[n] = w[n]
  BY <1>1
<1>8. LineIn(a, n) = LineIn(w, n)
  BY <1>3, <1>5, <1>6, <1>7
<1> QED BY <1>8 DEF a

LEMMA PlaceKept ==
  ASSUME NEW w \in Seq(Written), NEW x \in Written, NEW n \in DOMAIN w, NEW m
  PROVE  PlaceIn(Append(w, x), n, m) = PlaceIn(w, n, m)
<1>1. n \in 1..Len(w) /\ Len(w) \in Nat /\ \A i \in 1..Len(w) : Append(w, x)[i] = w[i]
  BY AppendedTo
<1>2. \A i \in 1..n : Append(w, x)[i] = w[i]
  BY <1>1
<1>3. {i \in 1..n : Append(w, x)[i].file = m} = {i \in 1..n : w[i].file = m}
  BY <1>2
<1> QED BY <1>3 DEF PlaceIn

LEMMA Places ==
  ASSUME NEW w \in Seq(Written), NEW m, NEW x \in Written
  PROVE  /\ PlaceIn(w, Len(w), m) \in Nat
         /\ \A n \in DOMAIN w : PlaceIn(w, n, m) \in Nat /\ PlaceIn(w, n, m) <= PlaceIn(w, Len(w), m)
         /\ x.file = m => PlaceIn(Append(w, x), Len(w) + 1, m) = PlaceIn(w, Len(w), m) + 1
<1> DEFINE N == Len(w)
           S(n) == {i \in 1..n : w[i].file = m}
<1>1. N \in Nat /\ DOMAIN w = 1..N
  BY AppendedTo
<1>2. IsFiniteSet(S(N)) /\ Cardinality(S(N)) \in Nat
  <2>1. IsFiniteSet(1..N)
    BY <1>1, FS_Interval
  <2> QED BY <2>1, FS_Subset, FS_CardinalityType
<1>3. \A n \in 1..N : S(n) \subseteq S(N)
  BY <1>1
<1>4. \A n \in 1..N : Cardinality(S(n)) \in Nat /\ Cardinality(S(n)) <= Cardinality(S(N))
  BY <1>2, <1>3, FS_Subset, FS_CardinalityType
<1>5. ASSUME x.file = m
      PROVE  PlaceIn(Append(w, x), N + 1, m) = Cardinality(S(N)) + 1
  <2> DEFINE a == Append(w, x)
  <2>1. (\A i \in 1..N : a[i] = w[i]) /\ a[N + 1] = x
    BY AppendedTo
  <2> HIDE DEF a, N
  <2>2. {i \in 1..N + 1 : a[i].file = m} = S(N) \cup {N + 1}
    BY <1>1, <1>5, <2>1
  <2>3. N + 1 \notin S(N)
    BY <1>1
  <2>4. Cardinality(S(N) \cup {N + 1}) = Cardinality(S(N)) + 1
    BY <1>2, <2>3, FS_AddElement
  <2> QED BY <2>2, <2>4 DEF PlaceIn, a
<1> QED BY <1>1, <1>2, <1>4, <1>5 DEF PlaceIn

\* A sample of an agent of another bucket changes nothing for this one.
LEMMA EntriesOther ==
  ASSUME NEW w \in Seq(Written), NEW x \in Written, NEW b, NEW entries, EntriesOf(entries, b, w),
         x.sample.agent % CsvBuckets # b
  PROVE  EntriesOf(entries, b, Append(w, x))
<1> DEFINE a == Append(w, x)
<1>1. /\ DOMAIN w = 1..Len(w) /\ DOMAIN a = 1..Len(w) + 1 /\ Len(w) \in Nat
      /\ \A i \in DOMAIN w : i \in DOMAIN a /\ a[i] = w[i]
      /\ a[Len(w) + 1] = x
  BY AppendedTo
<1> HIDE DEF a
<1>2. \A i \in DOMAIN a : i \in DOMAIN w \/ a[i] = x
  BY <1>1
<1>3. \A i \in DOMAIN entries : ~Same(x.sample, entries[i])
  BY DEF EntriesOf, Same
<1>4. \A i \in DOMAIN entries : \E n \in DOMAIN a :
        LastOfSame(a, n, entries[i]) /\ entries[i].id = a[n].sample.id
  <2> SUFFICES ASSUME NEW i \in DOMAIN entries
               PROVE  \E n \in DOMAIN a : LastOfSame(a, n, entries[i]) /\ entries[i].id = a[n].sample.id
    OBVIOUS
  <2>1. PICK n \in DOMAIN w : LastOfSame(w, n, entries[i]) /\ entries[i].id = w[n].sample.id
    BY DEF EntriesOf
  <2>2. \A m \in DOMAIN a : Same(a[m].sample, entries[i]) => m \in DOMAIN w /\ a[m] = w[m]
    BY <1>1, <1>2, <1>3
  <2>3. LastOfSame(a, n, entries[i])
    BY <1>1, <2>1, <2>2 DEF LastOfSame
  <2> QED BY <1>1, <2>1, <2>3
<1>5. \A n \in DOMAIN a : a[n].sample.agent % CsvBuckets = b =>
        \E i \in DOMAIN entries : Same(entries[i], a[n].sample)
  BY <1>1, <1>2 DEF EntriesOf
<1>6. EntriesOf(entries, b, a)
  BY <1>4, <1>5 DEF EntriesOf
<1> QED BY <1>6 DEF a

\* A sample of an interface that has no entry is put in front.
LEMMA EntryAdded ==
  ASSUME NEW w \in Seq(Written), NEW x \in Written, NEW b, NEW entries \in Seq(Counter),
         EntriesOf(entries, b, w), x.sample.agent % CsvBuckets = b,
         \A i \in DOMAIN entries : ~Same(entries[i], x.sample)
  PROVE  EntriesOf(<<x.sample>> \o entries, b, Append(w, x))
<1> DEFINE a == Append(w, x)
           s == x.sample
           more == <<s>> \o entries
<1>1. /\ DOMAIN w = 1..Len(w) /\ DOMAIN a = 1..Len(w) + 1 /\ Len(w) \in Nat
      /\ \A i \in DOMAIN w : i \in DOMAIN a /\ a[i] = w[i]
      /\ a[Len(w) + 1] = x
  BY AppendedTo
<1>2. s \in Counter
  BY DEF Written
<1>3. /\ \A i \in DOMAIN more : i = 1 \/ \E j \in DOMAIN entries : i = 1 + j
      /\ 1 \in DOMAIN more /\ more[1] = s
      /\ \A j \in DOMAIN entries : 1 + j \in DOMAIN more /\ more[1 + j] = entries[j]
  <2> DEFINE one == <<s>>
  <2>1. one \in Seq(Counter) /\ Len(one) = 1 /\ DOMAIN one = {1} /\ one[1] = s
    BY <1>2
  <2> HIDE DEF one
  <2>2. /\ \A i \in DOMAIN one : i \in DOMAIN (one \o entries) /\ (one \o entries)[i] = one[i]
        /\ \A j \in DOMAIN entries :
             Len(one) + j \in DOMAIN (one \o entries) /\ (one \o entries)[Len(one) + j] = entries[j]
        /\ \A i \in DOMAIN (one \o entries) : \/ i \in DOMAIN one
                                               \/ \E j \in DOMAIN entries : i = Len(one) + j
    BY <2>1, Appended
  <2>3. more = one \o entries
    BY DEF one
  <2> HIDE DEF more
  <2> QED BY <2>1, <2>2, <2>3
<1> HIDE DEF a, more, s
<1>4. \A i \in DOMAIN a : i \in DOMAIN w \/ i = Len(w) + 1
  BY <1>1
<1>5. /\ \A i \in DOMAIN entries : ~Same(entries[i], s) /\ ~Same(s, entries[i])
      /\ Same(s, s)
  BY DEF Same, s
<1>6. \A n \in DOMAIN w : ~Same(w[n].sample, s)
  <2> SUFFICES ASSUME NEW n \in DOMAIN w, Same(w[n].sample, s) PROVE FALSE
    OBVIOUS
  <2>1. w[n].sample.agent % CsvBuckets = b
    BY DEF Same, s
  <2>2. PICK i \in DOMAIN entries : Same(entries[i], w[n].sample)
    BY <2>1 DEF EntriesOf
  <2> QED BY <1>5, <2>2 DEF Same
<1>7. \A i \in DOMAIN more : more[i] = s \/ \E j \in DOMAIN entries : more[i] = entries[j]
  BY <1>3
<1>8. \A i \in DOMAIN more : more[i].agent % CsvBuckets = b
  BY <1>7 DEF EntriesOf, s
<1>9. ASSUME NEW i \in DOMAIN more, NEW j \in DOMAIN more, Same(more[i], more[j])
      PROVE  i = j
  <2>1. CASE i = 1 /\ j = 1
    BY <2>1
  <2>2. ASSUME NEW m \in DOMAIN entries, i = 1 + m, j = 1
        PROVE  FALSE
    BY <1>3, <1>5, <1>9, <2>2
  <2>3. ASSUME NEW m \in DOMAIN entries, j = 1 + m, i = 1
        PROVE  FALSE
    BY <1>3, <1>5, <1>9, <2>3
  <2>4. ASSUME NEW m \in DOMAIN entries, NEW k \in DOMAIN entries, i = 1 + m, j = 1 + k
        PROVE  i = j
    BY <1>3, <1>9, <2>4 DEF EntriesOf
  <2> QED BY <1>3, <2>1, <2>2, <2>3, <2>4
<1>10. ASSUME NEW i \in DOMAIN more
       PROVE  \E n \in DOMAIN a : LastOfSame(a, n, more[i]) /\ more[i].id = a[n].sample.id
  <2>1. CASE more[i] = s
    <3>1. Len(w) + 1 \in DOMAIN a /\ a[Len(w) + 1].sample = s /\ \A m \in DOMAIN a : m <= Len(w) + 1
      BY <1>1 DEF s
    <3> QED BY <1>5, <2>1, <3>1 DEF LastOfSame
  <2>2. ASSUME NEW j \in DOMAIN entries, more[i] = entries[j]
        PROVE  \E n \in DOMAIN a : LastOfSame(a, n, more[i]) /\ more[i].id = a[n].sample.id
    <3>1. PICK n \in DOMAIN w : LastOfSame(w, n, entries[j]) /\ entries[j].id = w[n].sample.id
      BY DEF EntriesOf
    <3>2. \A m \in DOMAIN a : Same(a[m].sample, entries[j]) => m \in DOMAIN w /\ a[m] = w[m]
      BY <1>1, <1>4, <1>5 DEF s
    <3>3. LastOfSame(a, n, entries[j])
      BY <1>1, <3>1, <3>2 DEF LastOfSame
    <3> QED BY <1>1, <2>2, <3>1, <3>3
  <2> QED BY <1>7, <2>1, <2>2
<1>11. \A n \in DOMAIN a : a[n].sample.agent % CsvBuckets = b =>
         \E i \in DOMAIN more : Same(more[i], a[n].sample)
  <2> SUFFICES ASSUME NEW n \in DOMAIN a, a[n].sample.agent % CsvBuckets = b
               PROVE  \E i \in DOMAIN more : Same(more[i], a[n].sample)
    OBVIOUS
  <2>1. CASE n \in DOMAIN w
    <3>1. PICK i \in DOMAIN entries : Same(entries[i], a[n].sample)
      BY <1>1, <2>1 DEF EntriesOf
    <3> QED BY <1>3, <3>1
  <2>2. CASE n = Len(w) + 1
    <3>1. a[n].sample = s
      BY <1>1, <2>2 DEF s
    <3> QED BY <1>3, <1>5, <3>1
  <2> QED BY <1>4, <2>1, <2>2
<1>12. EntriesOf(more, b, a)
  BY <1>8, <1>9, <1>10, <1>11 DEF EntriesOf
<1> QED BY <1>12 DEF a, more, s

\* The entry of an interface that has one gets the sample.
LEMMA EntryChanged ==
  ASSUME NEW w \in Seq(Written), NEW x \in Written, NEW b, NEW entries \in Seq(Counter),
         EntriesOf(entries, b, w), x.sample.agent % CsvBuckets = b,
         NEW k \in DOMAIN entries, Same(entries[k], x.sample), NEW new,
         new = [entries EXCEPT ![k] = [@ EXCEPT !.id = x.sample.id]]
  PROVE  EntriesOf(new, b, Append(w, x))
<1> DEFINE a == Append(w, x)
           s == x.sample
<1>1. /\ DOMAIN w = 1..Len(w) /\ DOMAIN a = 1..Len(w) + 1 /\ Len(w) \in Nat
      /\ \A i \in DOMAIN w : i \in DOMAIN a /\ a[i] = w[i]
      /\ a[Len(w) + 1] = x
  BY AppendedTo
<1> HIDE DEF a
<1>2. entries[k] \in Counter /\ s \in Counter
  BY DEF Written
<1>3. /\ DOMAIN new = DOMAIN entries
      /\ \A i \in DOMAIN entries : i # k => new[i] = entries[i]
      /\ new[k] = [entries[k] EXCEPT !.id = s.id]
  OBVIOUS
<1> HIDE DEF s
<1>4. new[k].agent = entries[k].agent /\ new[k].interface = entries[k].interface /\ new[k].id = s.id
  BY <1>2, <1>3 DEF Counter
<1>5. /\ \A i \in DOMAIN entries : new[i].agent = entries[i].agent /\ new[i].interface = entries[i].interface
      /\ \A i \in DOMAIN entries : \A e : /\ Same(new[i], e) <=> Same(entries[i], e)
                                          /\ Same(e, new[i]) <=> Same(e, entries[i])
      /\ Same(s, entries[k])
  <2>1. \A i \in DOMAIN entries : new[i].agent = entries[i].agent /\ new[i].interface = entries[i].interface
    BY <1>3, <1>4
  <2> QED BY <2>1 DEF Same, s
<1>6. \A i \in DOMAIN a : i \in DOMAIN w \/ i = Len(w) + 1
  BY <1>1
<1>7. \A i \in DOMAIN new : new[i].agent % CsvBuckets = b
  BY <1>3, <1>5 DEF EntriesOf
<1>8. ASSUME NEW i \in DOMAIN new, NEW j \in DOMAIN new, Same(new[i], new[j])
      PROVE  i = j
  <2>1. i \in DOMAIN entries /\ j \in DOMAIN entries /\ Same(entries[i], entries[j])
    BY <1>3, <1>5, <1>8
  <2> QED BY <2>1 DEF EntriesOf
<1>9. ASSUME NEW i \in DOMAIN new
      PROVE  \E n \in DOMAIN a : LastOfSame(a, n, new[i]) /\ new[i].id = a[n].sample.id
  <2>1. CASE i = k
    <3>1. Len(w) + 1 \in DOMAIN a /\ a[Len(w) + 1].sample = s /\ \A m \in DOMAIN a : m <= Len(w) + 1
      BY <1>1 DEF s
    <3> QED BY <1>4, <1>5, <2>1, <3>1 DEF LastOfSame
  <2>2. CASE i # k
    <3>1. PICK n \in DOMAIN w : LastOfSame(w, n, entries[i]) /\ entries[i].id = w[n].sample.id
      BY <1>3 DEF EntriesOf
    <3>2. ~Same(s, entries[i])
      <4>1. ~Same(entries[i], entries[k])
        BY <1>3, <2>2 DEF EntriesOf
      <4> QED BY <1>5, <4>1 DEF Same
    <3>3. \A m \in DOMAIN a : Same(a[m].sample, entries[i]) => m \in DOMAIN w /\ a[m] = w[m]
      BY <1>1, <1>6, <3>2 DEF s
    <3>4. LastOfSame(a, n, entries[i])
      BY <1>1, <3>1, <3>3 DEF LastOfSame
    <3> QED BY <1>1, <1>3, <2>2, <3>1, <3>4
  <2> QED BY <2>1, <2>2
<1>10. \A n \in DOMAIN a : a[n].sample.agent % CsvBuckets = b =>
         \E i \in DOMAIN new : Same(new[i], a[n].sample)
  <2> SUFFICES ASSUME NEW n \in DOMAIN a, a[n].sample.agent % CsvBuckets = b
               PROVE  \E i \in DOMAIN new : Same(new[i], a[n].sample)
    OBVIOUS
  <2>1. CASE n \in DOMAIN w
    <3>1. PICK i \in DOMAIN entries : Same(entries[i], a[n].sample)
      BY <1>1, <2>1 DEF EntriesOf
    <3> QED BY <1>3, <1>5, <3>1
  <2>2. CASE n = Len(w) + 1
    <3>1. a[n].sample = s
      BY <1>1, <2>2 DEF s
    <3> QED BY <1>3, <1>5, <3>1 DEF s
  <2> QED BY <1>6, <2>1, <2>2
<1>11. EntriesOf(new, b, a)
  BY <1>7, <1>8, <1>9, <1>10 DEF EntriesOf
<1> QED BY <1>11 DEF a

\* The rates of the new line start from the entry.
LEMMA LineAdded ==
  ASSUME NEW w \in Seq(Written), NEW x \in Written, NEW b, NEW entries \in Seq(Counter),
         EntriesOf(entries, b, w), x.sample.agent % CsvBuckets = b
  PROVE  /\ (\A i \in DOMAIN entries : ~Same(entries[i], x.sample)) =>
              LineIn(Append(w, x), Len(w) + 1) = [id |-> x.sample.id, since |-> 0]
         /\ \A k \in DOMAIN entries : Same(entries[k], x.sample) =>
              LineIn(Append(w, x), Len(w) + 1) = [id |-> x.sample.id, since |-> entries[k].id]
<1> DEFINE a == Append(w, x)
           s == x.sample
           N == Len(w)
           before == {i \in 1..N : Same(a[i].sample, s)}
<1>1. /\ DOMAIN w = 1..N /\ N \in Nat /\ a[N + 1] = x
      /\ \A i \in 1..N : a[i] = w[i]
  BY AppendedTo
<1> HIDE DEF a, N
<1>2. N + 1 - 1 = N
  BY <1>1
<1>3. LineIn(a, N + 1) = [id |-> s.id, since |-> IF before = {} THEN 0 ELSE a[Max(before)].sample.id]
  BY <1>1, <1>2 DEF LineIn, Same
<1>4. ASSUME \A i \in DOMAIN entries : ~Same(entries[i], s)
      PROVE  before = {}
  <2> SUFFICES ASSUME NEW n \in 1..N, Same(w[n].sample, s) PROVE FALSE
    BY <1>1
  <2>1. w[n].sample.agent % CsvBuckets = b
    BY DEF Same
  <2>2. PICK i \in DOMAIN entries : Same(entries[i], w[n].sample)
    BY <1>1, <2>1 DEF EntriesOf
  <2> QED BY <1>4, <2>2 DEF Same
<1>5. ASSUME NEW k \in DOMAIN entries, Same(entries[k], s)
      PROVE  before # {} /\ a[Max(before)].sample.id = entries[k].id
  <2>1. PICK n \in DOMAIN w : LastOfSame(w, n, entries[k]) /\ entries[k].id = w[n].sample.id
    BY DEF EntriesOf
  <2>2. n \in before /\ \A m \in before : m <= n
    BY <1>1, <1>5, <2>1 DEF LastOfSame, Same
  <2>3. before \in SUBSET (1..N)
    OBVIOUS
  <2> HIDE DEF before
  <2>4. Max(before) \in before /\ \A m \in before : m <= Max(before)
    BY <1>1, <2>2, <2>3, GreatestFound
  <2>5. Max(before) = n
    BY <1>1, <2>2, <2>3, <2>4
  <2> QED BY <1>1, <2>1, <2>2, <2>5
<1> HIDE DEF before
<1>6. /\ (\A i \in DOMAIN entries : ~Same(entries[i], s)) => LineIn(a, N + 1) = [id |-> s.id, since |-> 0]
      /\ \A k \in DOMAIN entries : Same(entries[k], s) =>
           LineIn(a, N + 1) = [id |-> s.id, since |-> entries[k].id]
  BY <1>3, <1>4, <1>5
<1> QED BY <1>6 DEF a, N

StatusInv == \A b \in 0..CsvBuckets - 1 : EntriesOf(status[b], b, written)

\* The place of the next line is behind those of this file, and files are begun in
\* their order.
FilesInv ==
  /\ csvPos = PlaceIn(written, Len(written), csvFile)
  /\ \A n \in DOMAIN written : written[n].file <= csvFile
  /\ csvFile # 0 => csvFile \in DOMAIN csv /\ csvPos <= Len(csv[csvFile])

LinesInv == CsvTypeOK /\ StatusInv /\ FilesInv /\ LinesIn(csv, written)

LEMMA SameInterval ==
  ASSUME NEW a \in Nat, NEW b \in Nat, 1..a = 1..b
  PROVE  a = b
<1>1. ~(a < b)
  <2>1. a < b => b \in 1..b /\ b \notin 1..a
    OBVIOUS
  <2> QED BY <2>1
<1>2. ~(b < a)
  <2>1. b < a => a \in 1..a /\ a \notin 1..b
    OBVIOUS
  <2> QED BY <2>1
<1> QED BY <1>1, <1>2

\* What WriteLine does: the lines of the file, the entries of the bucket, the sample.
LEMMA LineWritten ==
  ASSUME LinesInv, csvFile # 0, NEW s \in Counter, WriteLine(s)
  PROVE  LET b    == s.agent % CsvBuckets
             x    == [sample |-> s, file |-> csvFile]
             w    == Append(written, x)
             line == LineIn(w, Len(written) + 1)
         IN /\ b \in 0..CsvBuckets - 1 /\ x \in Written /\ written \in Seq(Written)
            /\ written' = w /\ line \in [id : Nat, since : Nat]
            /\ EntriesOf(status'[b], b, w)
            /\ \A c \in 0..CsvBuckets - 1 : c # b => status'[c] = status[c]
            /\ csv' = [csv EXCEPT ![csvFile] =
                         IF csvPos < Len(csv[csvFile]) THEN [csv[csvFile] EXCEPT ![csvPos + 1] = line]
                         ELSE Append(csv[csvFile], line)]
            /\ csvPos' = csvPos + 1 /\ csvFile' = csvFile
<1> DEFINE b      == s.agent % CsvBuckets
           x      == [sample |-> s, file |-> csvFile]
           w      == Append(written, x)
           bucket == status[b]
           found  == {i \in DOMAIN bucket : Same(bucket[i], s)}
           since  == IF found = {} THEN 0 ELSE bucket[Min(found)].id
           line   == [id |-> s.id, since |-> since]
           file   == csv[csvFile]
           entries == IF found = {} THEN <<s>> \o bucket
                      ELSE [bucket EXCEPT ![Min(found)] = [@ EXCEPT !.id = s.id]]
<1>1. /\ csv' = [csv EXCEPT ![csvFile] =
                   IF csvPos < Len(file) THEN [file EXCEPT ![csvPos + 1] = line] ELSE Append(file, line)]
      /\ csvPos' = csvPos + 1 /\ csvFile' = csvFile
      /\ status' = [status EXCEPT ![b] = entries]
      /\ written' = w
  BY DEF WriteLine
<1>2. b \in 0..CsvBuckets - 1
  <2>1. s.agent \in Nat
    BY DEF Counter
  <2> QED BY <2>1, CsvAssumption, Remainder
<1>3. x \in Written /\ x.sample = s /\ written \in Seq(Written)
  BY DEF LinesInv, CsvTypeOK, Written
<1>4. b = x.sample.agent % CsvBuckets
  BY <1>3
<1> HIDE DEF b, x
<1>5. /\ bucket \in Seq(Counter) /\ EntriesOf(bucket, b, written)
      /\ status' \in [0..CsvBuckets - 1 -> Seq(Counter)]
  <2>1. CsvTypeOK'
    BY WriteLineType DEF LinesInv
  <2> QED BY <1>2, <2>1 DEF LinesInv, CsvTypeOK, StatusInv
<1> HIDE DEF bucket
<1>6. /\ found # {} => Min(found) \in DOMAIN bucket /\ Same(bucket[Min(found)], s)
      /\ found = {} => \A i \in DOMAIN bucket : ~Same(bucket[i], s)
  <2>1. found \in SUBSET (1..Len(bucket)) /\ Len(bucket) \in Nat
    BY <1>5
  <2>2. found # {} => Min(found) \in found
    BY <2>1, LeastFound
  <2> QED BY <2>2
<1> HIDE DEF found
<1>7. line \in [id : Nat, since : Nat]
  <2>1. \A e \in Counter : e.id \in Nat
    BY DEF Counter
  <2>2. \A i \in DOMAIN bucket : bucket[i] \in Counter
    BY <1>5
  <2> QED BY <1>6, <2>1, <2>2
<1>8. line = LineIn(w, Len(written) + 1)
  BY <1>3, <1>4, <1>5, <1>6, LineAdded
<1>9. EntriesOf(entries, b, w)
  <2>1. CASE found = {}
    BY <1>3, <1>4, <1>5, <1>6, <2>1, EntryAdded
  <2>2. CASE found # {}
    <3> DEFINE k == Min(found)
    <3>1. k \in DOMAIN bucket /\ Same(bucket[k], x.sample)
      BY <1>3, <1>6, <2>2
    <3>2. entries = [bucket EXCEPT ![k] = [@ EXCEPT !.id = x.sample.id]]
      BY <1>3, <2>2
    <3> HIDE DEF k, entries
    <3> QED BY <1>3, <1>4, <1>5, <3>1, <3>2, EntryChanged
  <2> QED BY <2>1, <2>2
<1> HIDE DEF entries, line, w
<1>10. DOMAIN status = 0..CsvBuckets - 1
  BY DEF LinesInv, CsvTypeOK
<1>11. status'[b] = entries /\ \A c \in 0..CsvBuckets - 1 : c # b => status'[c] = status[c]
  BY <1>1, <1>2, <1>10
<1> QED BY <1>1, <1>2, <1>3, <1>7, <1>8, <1>9, <1>11 DEF b, x, w

LEMMA LinesWrite ==
  ASSUME LinesInv, csvFile # 0, NEW s \in Counter, WriteLine(s)
  PROVE  StatusInv' /\ FilesInv' /\ LinesIn(csv', written')
<1> DEFINE b    == s.agent % CsvBuckets
           x    == [sample |-> s, file |-> csvFile]
           w    == Append(written, x)
           line == LineIn(w, Len(written) + 1)
           old  == csv[csvFile]
           new  == IF csvPos < Len(old) THEN [old EXCEPT ![csvPos + 1] = line] ELSE Append(old, line)
<1>1. /\ b \in 0..CsvBuckets - 1 /\ x \in Written /\ written \in Seq(Written)
      /\ written' = w /\ line \in [id : Nat, since : Nat]
      /\ EntriesOf(status'[b], b, w)
      /\ \A c \in 0..CsvBuckets - 1 : c # b => status'[c] = status[c]
      /\ csv' = [csv EXCEPT ![csvFile] = new]
      /\ csvPos' = csvPos + 1 /\ csvFile' = csvFile
  BY LineWritten
<1>2. x.file = csvFile /\ x.sample.agent % CsvBuckets = b
  BY DEF x
<1> HIDE DEF x, b
<1>3. /\ Len(written) \in Nat /\ DOMAIN written = 1..Len(written)
      /\ DOMAIN w = 1..Len(written) + 1 /\ Len(w) = Len(written) + 1
      /\ \A i \in 1..Len(written) : w[i] = written[i]
      /\ w[Len(written) + 1] = x
  BY <1>1, AppendedTo
<1>4. /\ csvFile \in DOMAIN csv /\ csvFile \in Nat /\ csvPos \in Nat
      /\ old \in Seq([id : Nat, since : Nat])
      /\ csvPos <= Len(old)
      /\ csvPos = PlaceIn(written, Len(written), csvFile)
  BY DEF LinesInv, FilesInv, CsvTypeOK
<1>5. PlaceIn(w, Len(written) + 1, csvFile) = csvPos + 1
  BY <1>1, <1>2, <1>4, Places
<1> HIDE DEF line
<1>7. /\ csvPos + 1 <= Len(new) /\ csvPos + 1 \in DOMAIN new /\ new[csvPos + 1] = line
      /\ \A p \in DOMAIN old : p <= csvPos => p \in DOMAIN new /\ new[p] = old[p]
  <2> DEFINE L == [id : Nat, since : Nat]
  <2>1. old \in Seq(L) /\ line \in L
    BY <1>1, <1>4
  <2> HIDE DEF L, old
  <2>2. CASE csvPos < Len(old)
    <3>1. new = [old EXCEPT ![csvPos + 1] = line]
      BY <2>2
    <3>2. DOMAIN old = 1..Len(old) /\ Len(old) \in Nat
      BY <2>1
    <3>3. DOMAIN new = DOMAIN old /\ Len(new) = Len(old)
      <4>1. new \in Seq(L)
        BY <2>1, <3>1, SequenceReplaced
      <4>2. DOMAIN new = DOMAIN old
        BY <3>1
      <4>3. DOMAIN new = 1..Len(new) /\ Len(new) \in Nat
        BY <4>1
      <4>4. Len(new) = Len(old)
        BY <3>2, <4>2, <4>3, SameInterval
      <4> QED BY <4>2, <4>4
    <3>4. csvPos + 1 \in DOMAIN old
      BY <1>4, <2>2, <3>2
    <3> QED BY <1>4, <2>2, <3>1, <3>2, <3>3, <3>4
  <2>3. CASE csvPos = Len(old)
    <3>1. new = Append(old, line)
      BY <2>1, <2>3
    <3>2. /\ Len(old) \in Nat /\ DOMAIN old = 1..Len(old) /\ DOMAIN new = 1..Len(old) + 1
          /\ \A i \in 1..Len(old) : i \in DOMAIN old /\ new[i] = old[i]
          /\ new[Len(old) + 1] = line /\ new \in Seq(L)
      BY <2>1, <3>1, AppendedTo
    <3> HIDE DEF new
    <3>3. Len(new) = Len(old) + 1
      BY <3>2
    <3> QED BY <2>3, <3>2, <3>3
  <2>4. Len(old) \in Nat
    BY <2>1
  <2> QED BY <1>4, <2>2, <2>3, <2>4 DEF old
<1>8. /\ DOMAIN csv' = DOMAIN csv
      /\ \A m \in DOMAIN csv : csv'[m] = IF m = csvFile THEN new ELSE csv[m]
  BY <1>1
<1> HIDE DEF new
<1>9. StatusInv'
  <2> SUFFICES ASSUME NEW c \in 0..CsvBuckets - 1 PROVE EntriesOf(status'[c], c, written')
    BY DEF StatusInv
  <2>1. CASE c = b
    BY <1>1, <2>1
  <2>2. CASE c # b
    <3>1. EntriesOf(status[c], c, written)
      BY DEF LinesInv, StatusInv
    <3>2. EntriesOf(status[c], c, w)
      BY <1>1, <1>2, <2>2, <3>1, EntriesOther
    <3> QED BY <1>1, <2>2, <3>2
  <2> QED BY <2>1, <2>2
<1>10. FilesInv'
  <2>1. csvPos' = PlaceIn(w, Len(w), csvFile)
    BY <1>1, <1>3, <1>5
  <2>2. \A n \in DOMAIN w : w[n].file <= csvFile
    <3> SUFFICES ASSUME NEW n \in 1..Len(written) + 1 PROVE w[n].file <= csvFile
      BY <1>3
    <3>1. CASE n \in 1..Len(written)
      BY <1>3, <3>1 DEF LinesInv, FilesInv
    <3>2. CASE n = Len(written) + 1
      BY <1>2, <1>3, <1>4, <3>2
    <3> QED BY <1>3, <3>1, <3>2
  <2>3. csvFile \in DOMAIN csv' /\ csvPos' <= Len(csv'[csvFile])
    BY <1>1, <1>4, <1>7, <1>8
  <2> QED BY <1>1, <2>1, <2>2, <2>3 DEF FilesInv, PlaceIn
<1>11. LinesIn(csv', w)
  <2> SUFFICES ASSUME NEW n \in 1..Len(written) + 1
               PROVE  /\ w[n].file \in DOMAIN csv'
                      /\ PlaceIn(w, n, w[n].file) \in DOMAIN csv'[w[n].file]
                      /\ csv'[w[n].file][PlaceIn(w, n, w[n].file)] = LineIn(w, n)
    BY <1>3 DEF LinesIn
  <2>1. CASE n = Len(written) + 1
    <3>1. w[n].file = csvFile /\ PlaceIn(w, n, csvFile) = csvPos + 1 /\ LineIn(w, n) = line
      BY <1>2, <1>3, <1>5, <2>1 DEF line
    <3> QED BY <1>4, <1>7, <1>8, <3>1
  <2>2. CASE n \in 1..Len(written)
    <3> DEFINE m == written[n].file
               p == PlaceIn(written, n, m)
    <3>1. n \in DOMAIN written /\ w[n].file = m
      BY <1>3, <2>2
    <3>2. PlaceIn(w, n, m) = p /\ LineIn(w, n) = LineIn(written, n)
      BY <1>1, <3>1, PlaceKept, LineKept
    <3>3. m \in DOMAIN csv /\ p \in DOMAIN csv[m] /\ csv[m][p] = LineIn(written, n)
      BY <3>1 DEF LinesInv, LinesIn
    <3>4. m = csvFile => p <= csvPos
      BY <1>1, <1>4, <3>1, Places
    <3> HIDE DEF m, p, w
    <3>5. p \in DOMAIN csv'[m] /\ csv'[m][p] = csv[m][p]
      <4>1. CASE m = csvFile
        BY <1>7, <1>8, <3>3, <3>4, <4>1
      <4>2. CASE m # csvFile
        BY <1>8, <3>3, <4>2
      <4> QED BY <4>1, <4>2
    <3> QED BY <1>8, <3>1, <3>2, <3>3, <3>5
  <2> QED BY <1>3, <2>1, <2>2
<1> QED BY <1>1, <1>9, <1>10, <1>11

\* A new file is begun only when none of that minute can be open.
LEMMA LinesOpen ==
  ASSUME LinesInv, now \in Nat, 0 < now, OpenCsv(now)
  PROVE  StatusInv' /\ FilesInv' /\ LinesIn(csv', written') /\ csvFile' # 0
<1>1. /\ csvFile \in Nat /\ Rotation \in Nat \ {0} /\ written \in Seq(Written)
      /\ Len(written) \in Nat /\ DOMAIN written = 1..Len(written)
  <2>1. csvFile \in Nat /\ written \in Seq(Written)
    BY DEF LinesInv, CsvTypeOK, Written
  <2>2. Len(written) \in Nat /\ DOMAIN written = 1..Len(written)
    BY <2>1
  <2> QED BY <2>1, <2>2, CsvAssumption
<1>2. CASE csvFile = 0 \/ now - csvFile >= Rotation
  <2>1. /\ csvFile' = now /\ csvPos' = 0 /\ status' = status /\ written' = written
        /\ csv' = [m \in DOMAIN csv \cup {now} |-> IF m \in DOMAIN csv THEN csv[m] ELSE <<>>]
    BY <1>2 DEF OpenCsv
  <2>2. \A n \in 1..Len(written) : written[n].file < now /\ written[n].file <= now
    <3>1. csvFile < now
      BY <1>1, <1>2
    <3>2. \A n \in 1..Len(written) : written[n].file <= csvFile /\ written[n].file \in Nat
      <4>1. \A n \in 1..Len(written) : written[n] \in Written
        BY <1>1
      <4>2. \A x \in Written : x.file \in Nat
        BY DEF Written
      <4> QED BY <1>1, <4>1, <4>2 DEF LinesInv, FilesInv
    <3> QED BY <1>1, <3>1, <3>2
  <2>3. PlaceIn(written, Len(written), now) = 0
    <3>1. {i \in 1..Len(written) : written[i].file = now} = {}
      BY <2>2
    <3> QED BY <3>1, FS_EmptySet DEF PlaceIn
  <2>4. now \in DOMAIN csv' /\ Len(csv'[now]) \in Nat
    <3>1. csv'[now] \in Seq([id : Nat, since : Nat])
      BY <2>1 DEF LinesInv, CsvTypeOK
    <3> QED BY <2>1, <3>1
  <2>5. FilesInv'
    <3>1. csvPos' = PlaceIn(written', Len(written'), csvFile')
      BY <2>1, <2>3
    <3>2. \A n \in DOMAIN written' : written'[n].file <= csvFile'
      <4>1. \A n \in 1..Len(written) : written[n].file <= now
        BY <2>2
      <4> QED BY <1>1, <2>1, <4>1
    <3>3. csvFile' \in DOMAIN csv' /\ csvPos' <= Len(csv'[csvFile'])
      BY <2>1, <2>4
    <3> QED BY <3>1, <3>2, <3>3 DEF FilesInv, PlaceIn
  <2>6. LinesIn(csv', written)
    BY <2>1 DEF LinesInv, LinesIn
  <2>7. StatusInv'
    BY <2>1 DEF LinesInv, StatusInv
  <2> QED BY <2>1, <2>5, <2>6, <2>7
<1>3. CASE ~(csvFile = 0 \/ now - csvFile >= Rotation)
  <2>1. UNCHANGED csvVars /\ csvFile # 0
    BY <1>3 DEF OpenCsv
  <2> QED BY <2>1 DEF csvVars, LinesInv, StatusInv, FilesInv
<1> QED BY <1>2, <1>3

\* Without lines and entries all of it holds.
LEMMA NoLines ==
  ASSUME NEW c
  PROVE  /\ \A b \in 0..CsvBuckets - 1 : EntriesOf(NoStatus[b], b, <<>>)
         /\ PlaceIn(<<>>, Len(<<>>), 0) = 0 /\ LinesIn(c, <<>>)
<1>1. DOMAIN <<>> = {} /\ Len(<<>>) = 0 /\ 1..0 = {}
  OBVIOUS
<1>2. \A b \in 0..CsvBuckets - 1 : NoStatus[b] = <<>>
  BY DEF NoStatus
<1>3. {i \in 1..0 : <<>>[i].file = 0} = {}
  BY <1>1
<1>4. PlaceIn(<<>>, 0, 0) = 0
  BY <1>3, FS_EmptySet DEF PlaceIn
<1> QED BY <1>1, <1>2, <1>4 DEF EntriesOf, LinesIn

LEMMA LinesClose ==
  ASSUME CloseCsv
  PROVE  StatusInv' /\ FilesInv' /\ LinesIn(csv', written')
<1>1. status' = NoStatus /\ csvFile' = 0 /\ csvPos' = 0 /\ written' = <<>>
  BY DEF CloseCsv
<1>2. DOMAIN <<>> = {}
  OBVIOUS
<1>3. StatusInv'
  BY <1>1, NoLines DEF StatusInv
<1>4. FilesInv'
  BY <1>1, <1>2, NoLines DEF FilesInv
<1> QED BY <1>1, <1>3, <1>4, NoLines

\* A line is written only to a file that was opened, at a minute that is not 0.
CsvInv ==
  /\ TypesInv /\ LinesInv /\ 0 < now
  /\ phase = "csv" => csvFile # 0

LEMMA InitCsv == Init => LinesInv /\ 0 < now /\ (phase = "csv" => csvFile # 0)
<1> SUFFICES ASSUME Init PROVE LinesInv /\ 0 < now /\ (phase = "csv" => csvFile # 0)
  OBVIOUS
<1>1. /\ status = NoStatus /\ csv = <<>> /\ csvFile = 0 /\ csvPos = 0 /\ written = <<>>
      /\ phase = "start" /\ now = Epoch /\ mysql \in Settings /\ DOMAIN <<>> = {}
  BY DEF Init, CsvInit, MysqlInit
<1>2. 0 < now
  <2>1. mysql.interval \in Nat \ {0} /\ mysql.interval <= Epoch /\ Epoch \in Nat
    BY <1>1, MysqlAssumption, StorageAssumption
  <2> QED BY <1>1, <2>1
<1>3. CsvTypeOK
  BY InitTypes, TypesParts
<1>4. StatusInv
  BY <1>1, NoLines DEF StatusInv
<1>5. FilesInv
  BY <1>1, NoLines DEF FilesInv
<1>6. LinesIn(csv, written)
  BY <1>1, NoLines
<1> QED BY <1>1, <1>2, <1>3, <1>4, <1>5, <1>6 DEF LinesInv

LEMMA StepCsv ==
  ASSUME CsvInv, TypesInv', [Next]_vars
  PROVE  LinesInv' /\ 0 < now' /\ (phase' = "csv" => csvFile' # 0)
<1>1. 0 < now'
  <2>1. now \in Nat /\ now' \in Nat /\ now <= now'
    BY SettingsStep DEF CsvInv
  <2> QED BY <2>1 DEF CsvInv
<1>2. CsvTypeOK'
  BY DEF TypesInv, TypeOK
<1> SUFFICES StatusInv' /\ FilesInv' /\ LinesIn(csv', written') /\ (phase' = "csv" => csvFile' # 0)
  BY <1>1, <1>2 DEF LinesInv, LinesIn, LineIn, PlaceIn
<1>3. CASE CountersRead
  <2>1. OpenCsv(now) /\ now \in Nat
    BY <1>3, ProcessFields DEF CountersRead, CsvInv
  <2> QED BY <2>1, LinesOpen DEF CsvInv
<1>4. CASE StoreCsv
  <2>1. /\ phase = "csv" /\ cursor < Len(batch.samples) /\ WriteLine(batch.samples[cursor + 1])
    BY <1>4 DEF StoreCsv
  <2>2. batch.samples \in Seq(Counter) /\ cursor \in 0..Len(batch.samples)
    BY <2>1, TypesParts DEF CsvInv, WorkTyped, ProcessTyped
  <2>3. batch.samples[cursor + 1] \in Counter
    BY <2>1, <2>2
  <2>4. csvFile # 0 /\ csvFile' = csvFile
    BY <2>1 DEF CsvInv, WriteLine
  <2> QED BY <2>1, <2>3, <2>4, LinesWrite DEF CsvInv
<1>5. CASE Crash
  <2>1. CloseCsv /\ phase' = "off"
    BY <1>5 DEF Crash
  <2> QED BY <2>1, LinesClose
<1>6. CASE UNCHANGED vars \/ (Next /\ ~CountersRead /\ ~StoreCsv /\ ~Crash)
  <2>1. UNCHANGED csvVars /\ (phase' = "csv" => phase = "csv")
    <3>1. CASE UNCHANGED vars
      BY <3>1 DEF vars
    <3>2. CASE Next /\ ~CountersRead /\ ~StoreCsv /\ ~Crash
      <4>1. ASSUME NEW k \in Kinds, Create(k) \/ Drop(k)
            PROVE  UNCHANGED csvVars /\ (phase' = "csv" => phase = "csv")
        BY <4>1 DEF Create, Drop
      <4>2. CASE InsertBulk \/ InsertRest \/ \E l \in Layers : StoreConversations(l)
        BY <4>2 DEF InsertBulk, InsertRest, StoreConversations, TableDone
      <4>3. CASE Start \/ (\E t \in Epoch..MaxMinute : BeginFlow(t) \/ BeginCounters(t))
                 \/ (\E t \in Tails : ReadFlow(t)) \/ ReadCounter \/ FlowRead \/ CsvDone \/ Tick
        BY <4>3 DEF Start, BeginFlow, BeginCounters, Begin, ReadFlow, ReadCounter, FlowRead, CsvDone, Tick
      <4> QED BY <3>2, <4>1, <4>2, <4>3 DEF Next
    <3> QED BY <1>6, <3>1, <3>2
  <2> QED BY <2>1 DEF CsvInv, csvVars, LinesInv, StatusInv, FilesInv
<1> QED BY <1>3, <1>4, <1>5, <1>6

\* Every counter sample since stprocessd was started has its line, at its place in the
\* file that was open, and its rates start from the sample of the same interface before
\* it, for every number of buckets and every rotation of the files (storage_csv_store_cntr).
THEOREM StorageCsv == Spec => []CsvFollowsCounters
<1>1. Init => CsvInv
  BY InitTypes, InitCsv DEF CsvInv
<1>2. CsvInv /\ [Next]_vars => CsvInv'
  <2> SUFFICES ASSUME CsvInv, [Next]_vars PROVE CsvInv'
    OBVIOUS
  <2>1. TypesInv'
    BY StepTypes DEF CsvInv
  <2> QED BY <2>1, StepCsv DEF CsvInv
<1>3. CsvInv => CsvFollowsCounters
  BY LinesAreFollowed DEF CsvInv, LinesInv
<1> QED BY <1>1, <1>2, <1>3, PTL DEF Spec
-----------------------------------------------------------------------------
(* The conversations of a batch are in the tables, with all its frames.    *)

\* Where list c has conversations with this key, and what these count.
KeyPlaces(c, key) == {i \in DOMAIN c : c[i].key = key}
FramesOf(c, key) == SumFunctionOnSet([i \in DOMAIN c |-> c[i].frames], KeyPlaces(c, key))
BytesOf(c, key) == SumFunctionOnSet([i \in DOMAIN c |-> c[i].bytes], KeyPlaces(c, key))

\* The samples of J with this key on layer l, and how long samples are together.
SamplesWith(l, s, J, key) == {j \in J : KeyOf(l, s[j]) = key}
LengthOf(s, J) == SumFunctionOnSet([j \in DOMAIN s |-> s[j].length], J)

\* The frames and bytes under a key are those of its samples, but for wrapped counters.
Balanced(c, l, s, J, key) ==
  /\ Alike(Word, FramesOf(c, key), Cardinality(SamplesWith(l, s, J, key)))
  /\ Alike(Word, BytesOf(c, key), LengthOf(s, SamplesWith(l, s, J, key)))

\* List c holds the conversations of the samples J, on most layers one for each key.
Accounts(c, l, s, J) ==
  /\ \A i \in DOMAIN c : \E j \in J : c[i].key = KeyOf(l, s[j])
  /\ \A j \in J : /\ KeyPlaces(c, KeyOf(l, s[j])) # {}
                  /\ Balanced(c, l, s, J, KeyOf(l, s[j]))
  /\ l # "ip" => \A i, k \in DOMAIN c : c[i].key = c[k].key => i = k

\* No two conversations of a list look alike to conv_list_add.
Distinct(c, l) ==
  /\ \A i, k \in DOMAIN c : c[i].key = c[k].key /\ c[i].tail = c[k].tail => i = k
  /\ l # "ip" => \A i \in DOMAIN c : c[i].tail = 0

LEMMA HashType ==
  ASSUME NEW key \in Seq(Nat)
  PROVE  HashOf(key) \in HashBuckets
<1> DEFINE f == [i \in DOMAIN key |-> key[i] % HashRange]
<1>1. HashRange \in Nat \ {0}
  BY ConvTableAssumption
<1>2. Len(key) \in Nat /\ DOMAIN key = 1..Len(key) /\ \A i \in DOMAIN key : key[i] \in Nat
  OBVIOUS
<1>3. IsFiniteSet(DOMAIN key)
  BY <1>2, FS_Interval
<1>4. \A i \in DOMAIN key : f[i] \in Nat
  <2>1. \A x \in Nat : x % HashRange \in 0..HashRange - 1
    BY <1>1, Remainder
  <2>2. \A x \in Nat : x % HashRange \in Nat
    BY <1>1, <2>1
  <2> QED BY <1>2, <2>2
<1>5. HashOf(key) = SumFunctionOnSet(f, DOMAIN key) % HashRange
  BY DEF HashOf, SumFunction
<1> HIDE DEF f
<1>6. SumFunctionOnSet(f, DOMAIN key) \in Nat
  BY <1>3, <1>4, SumType
<1> QED BY <1>1, <1>5, <1>6, Remainder DEF HashBuckets

LEMMA ListFacts ==
  ASSUME NEW c \in Seq(Conversation)
  PROVE  /\ Len(c) \in Nat /\ DOMAIN c = 1..Len(c) /\ IsFiniteSet(DOMAIN c)
         /\ \A i \in DOMAIN c : c[i] \in Conversation /\ c[i].frames \in Nat /\ c[i].bytes \in Nat
         /\ \A key : KeyPlaces(c, key) \subseteq DOMAIN c /\ IsFiniteSet(KeyPlaces(c, key))
<1>1. Len(c) \in Nat /\ DOMAIN c = 1..Len(c) /\ \A i \in DOMAIN c : c[i] \in Conversation
  OBVIOUS
<1>2. IsFiniteSet(DOMAIN c)
  BY <1>1, FS_Interval
<1>3. \A e \in Conversation : e.frames \in Nat /\ e.bytes \in Nat
  BY ConvTableAssumption DEF Conversation
<1>4. \A key : KeyPlaces(c, key) \subseteq DOMAIN c
  BY DEF KeyPlaces
<1>5. \A key : IsFiniteSet(KeyPlaces(c, key))
  BY <1>2, <1>4, FS_Subset
<1> QED BY <1>1, <1>2, <1>3, <1>4, <1>5

\* What lists, or their rows in a table, count is the same when they agree on a key.
LEMMA ListTotals ==
  ASSUME NEW c \in Seq(Conversation), NEW key, NEW d, NEW T, NEW h \in Bijection(KeyPlaces(c, key), T),
         \A i \in KeyPlaces(c, key) : d[h[i]].frames = c[i].frames /\ d[h[i]].bytes = c[i].bytes,
         NEW D, T \subseteq D
  PROVE  /\ FramesOf(c, key) = SumFunctionOnSet([i \in D |-> d[i].frames], T)
         /\ BytesOf(c, key) = SumFunctionOnSet([i \in D |-> d[i].bytes], T)
<1> DEFINE P == KeyPlaces(c, key)
           f == [i \in DOMAIN c |-> c[i].frames]
           g == [i \in D |-> d[i].frames]
           b == [i \in DOMAIN c |-> c[i].bytes]
           e == [i \in D |-> d[i].bytes]
<1>1. P \subseteq DOMAIN c /\ IsFiniteSet(P)
  BY ListFacts
<1>2. \A i \in P : h[i] \in T
  BY DEF Bijection, Injection
<1>3. \A i \in P : f[i] \in Nat /\ g[h[i]] = f[i] /\ b[i] \in Nat /\ e[h[i]] = b[i]
  <2> SUFFICES ASSUME NEW i \in P
               PROVE  f[i] \in Nat /\ g[h[i]] = f[i] /\ b[i] \in Nat /\ e[h[i]] = b[i]
    OBVIOUS
  <2>1. i \in DOMAIN c /\ h[i] \in D
    BY <1>1, <1>2
  <2>2. c[i].frames \in Nat /\ c[i].bytes \in Nat
    BY <2>1, ListFacts
  <2>3. d[h[i]].frames = c[i].frames /\ d[h[i]].bytes = c[i].bytes
    OBVIOUS
  <2> HIDE DEF P
  <2> QED BY <2>1, <2>2, <2>3
<1> HIDE DEF f, g, b, e
<1>4. SumFunctionOnSet(f, P) = SumFunctionOnSet(g, T)
  BY <1>1, <1>3, SumRenamed
<1>5. SumFunctionOnSet(b, P) = SumFunctionOnSet(e, T)
  BY <1>1, <1>3, SumRenamed
<1> QED BY <1>4, <1>5 DEF FramesOf, BytesOf, f, g, b, e

\* Numbers and the numbers m further on.
LEMMA Moved ==
  ASSUME NEW P \in SUBSET Nat, NEW m \in Nat
  PROVE  \E h \in Bijection(P, {m + i : i \in P}) : \A i \in P : h[i] = m + i
<1> DEFINE Q == {m + i : i \in P}
           h == [i \in P |-> m + i]
<1>1. h \in [P -> Q]
  OBVIOUS
<1>2. \A i, j \in P : h[i] = h[j] => i = j
  OBVIOUS
<1>3. \A x \in Q : \E i \in P : h[i] = x
  OBVIOUS
<1>4. \A i \in P : h[i] = m + i
  OBVIOUS
<1> HIDE DEF h, Q
<1>5. h \in Bijection(P, Q)
  BY <1>1, <1>2, <1>3 DEF Bijection, Injection, Surjection, IsInjective
<1> QED BY <1>4, <1>5 DEF Q

\* A value that changes at one of the places of a sum.
LEMMA PlaceChanged ==
  ASSUME NEW P, NEW p, NEW f, NEW g, p \in P, IsFiniteSet(P),
         \A y \in P : f[y] \in Nat /\ g[y] \in Nat /\ (y # p => f[y] = g[y])
  PROVE  \E rest \in Nat : SumFunctionOnSet(f, P) = f[p] + rest /\ SumFunctionOnSet(g, P) = g[p] + rest
BY SumChanged

\* Facts about the samples read so far.
LEMMA SampleFacts ==
  ASSUME NEW s \in Seq(Frames), NEW J, J \subseteq DOMAIN s, IsFiniteSet(J), NEW l, NEW key
  PROVE  /\ SamplesWith(l, s, J, key) \subseteq J /\ IsFiniteSet(SamplesWith(l, s, J, key))
         /\ Cardinality(SamplesWith(l, s, J, key)) \in Nat
         /\ LengthOf(s, SamplesWith(l, s, J, key)) \in Nat
         /\ \A j \in J : s[j] \in Frames /\ s[j].length \in Nat
<1> DEFINE M == SamplesWith(l, s, J, key)
           f == [j \in DOMAIN s |-> s[j].length]
<1>1. M \subseteq J
  BY DEF SamplesWith
<1>2. IsFiniteSet(M)
  BY <1>1, FS_Subset
<1>3. \A j \in J : s[j] \in Frames /\ s[j].length \in Nat
  <2>1. \A f1 \in Frames : f1.length \in Nat
    BY ConvTableAssumption
  <2>2. \A j \in DOMAIN s : s[j] \in Frames
    OBVIOUS
  <2> QED BY <2>1, <2>2
<1>4. \A j \in M : f[j] \in Nat
  BY <1>1, <1>3
<1> HIDE DEF M, f
<1>5. Cardinality(M) \in Nat /\ SumFunctionOnSet(f, M) \in Nat
  BY <1>2, <1>4, SumType, FS_CardinalityType
<1> QED BY <1>1, <1>2, <1>3, <1>5 DEF M, LengthOf, f

\* One sample more.
LEMMA SampleAdded ==
  ASSUME NEW s \in Seq(Frames), NEW J, J \subseteq DOMAIN s, IsFiniteSet(J), NEW l,
         NEW n \in DOMAIN s, n \notin J, NEW key
  PROVE  /\ IsFiniteSet(J \cup {n}) /\ J \cup {n} \subseteq DOMAIN s
         /\ key # KeyOf(l, s[n]) => SamplesWith(l, s, J \cup {n}, key) = SamplesWith(l, s, J, key)
         /\ key = KeyOf(l, s[n]) =>
              /\ Cardinality(SamplesWith(l, s, J \cup {n}, key)) = Cardinality(SamplesWith(l, s, J, key)) + 1
              /\ LengthOf(s, SamplesWith(l, s, J \cup {n}, key))
                   = LengthOf(s, SamplesWith(l, s, J, key)) + s[n].length
<1> DEFINE M == SamplesWith(l, s, J, key)
           N == SamplesWith(l, s, J \cup {n}, key)
           f == [j \in DOMAIN s |-> s[j].length]
<1>1. IsFiniteSet(J \cup {n}) /\ J \cup {n} \subseteq DOMAIN s
  BY FS_AddElement
<1>2. key # KeyOf(l, s[n]) => N = M
  BY DEF SamplesWith
<1>3. ASSUME key = KeyOf(l, s[n])
      PROVE  Cardinality(N) = Cardinality(M) + 1 /\ LengthOf(s, N) = LengthOf(s, M) + s[n].length
  <2>1. N = M \cup {n} /\ n \notin M
    BY <1>3 DEF SamplesWith
  <2>2. M \subseteq J /\ IsFiniteSet(M) /\ LengthOf(s, M) \in Nat
    BY SampleFacts
  <2>3. \A j \in M \cup {n} : f[j] \in Nat
    <3>1. \A j \in J \cup {n} : s[j].length \in Nat
      BY <1>1, SampleFacts
    <3> HIDE DEF M
    <3> QED BY <1>1, <2>2, <3>1
  <2>4. f[n] = s[n].length /\ f[n] \in Nat
    BY <2>3
  <2> HIDE DEF M, N, f
  <2>5. Cardinality(N) = Cardinality(M) + 1
    BY <2>1, <2>2, FS_AddElement
  <2>6. SumFunctionOnSet(f, N) = f[n] + SumFunctionOnSet(f, M)
    BY <2>1, <2>2, <2>3, SumAdd
  <2>7. LengthOf(s, N) = f[n] + LengthOf(s, M)
    BY <2>6 DEF LengthOf, f
  <2> QED BY <2>2, <2>4, <2>5, <2>7
<1> QED BY <1>1, <1>2, <1>3

\* Where no conversation and no sample has a key, the account is balanced.
LEMMA NothingBalanced ==
  ASSUME NEW c, NEW l, NEW s, NEW J, NEW key, KeyPlaces(c, key) = {}, SamplesWith(l, s, J, key) = {}
  PROVE  Balanced(c, l, s, J, key) /\ FramesOf(c, key) = 0 /\ BytesOf(c, key) = 0
<1>1. FramesOf(c, key) = 0 /\ BytesOf(c, key) = 0 /\ LengthOf(s, {}) = 0
  BY SumEmpty DEF FramesOf, BytesOf, LengthOf
<1>2. Cardinality({}) = 0
  BY FS_EmptySet
<1> QED BY <1>1, <1>2 DEF Balanced, Alike

LEMMA AnyBalanced ==
  ASSUME NEW c, NEW l, NEW s, NEW J, NEW key, Accounts(c, l, s, J)
  PROVE  /\ Balanced(c, l, s, J, key)
         /\ KeyPlaces(c, key) = {} => SamplesWith(l, s, J, key) = {}
<1>1. CASE \E j \in J : key = KeyOf(l, s[j])
  BY <1>1 DEF Accounts, SamplesWith
<1>2. CASE ~\E j \in J : key = KeyOf(l, s[j])
  <2>1. KeyPlaces(c, key) = {} /\ SamplesWith(l, s, J, key) = {}
    BY <1>2 DEF Accounts, KeyPlaces, SamplesWith
  <2> QED BY <2>1, NothingBalanced
<1> QED BY <1>1, <1>2

\* List d is list c with frame f counted under this key.
Grown(c, d, key, f) ==
  /\ \A i \in DOMAIN d : d[i].key = key \/ \E k \in DOMAIN c : c[k].key = d[i].key
  /\ \A i \in DOMAIN c : KeyPlaces(d, c[i].key) # {}
  /\ KeyPlaces(d, key) # {}
  /\ Turned(Word, FramesOf(c, key), FramesOf(d, key), 1)
  /\ Turned(Word, BytesOf(c, key), BytesOf(d, key), f.length)

\* What else conv_list_add does to the list: the other keys keep their counts.
OthersKept(c, d, key) ==
  \A other : other # key => FramesOf(d, other) = FramesOf(c, other) /\ BytesOf(d, other) = BytesOf(c, other)

LEMMA GrownAtFront ==
  ASSUME NEW c \in Seq(Conversation), NEW key, NEW f, NEW e \in Conversation,
         e.key = key, e.frames = (0 + 1) % Word, e.bytes = (0 + f.length) % Word
  PROVE  Grown(c, <<e>> \o c, key, f) /\ OthersKept(c, <<e>> \o c, key)
<1> DEFINE d == <<e>> \o c
           fr == [i \in DOMAIN d |-> d[i].frames]
           by == [i \in DOMAIN d |-> d[i].bytes]
           Q(k) == {1 + i : i \in KeyPlaces(c, k)}
<1>1. /\ d \in Seq(Conversation) /\ 1 \in DOMAIN d /\ d[1] = e
      /\ \A i \in DOMAIN c : 1 + i \in DOMAIN d /\ d[1 + i] = c[i] /\ i \in Nat /\ i # 0
      /\ \A i \in DOMAIN d : i = 1 \/ \E k \in DOMAIN c : i = 1 + k
  <2>1. d \in Seq(Conversation) /\ Len(d) = Len(c) + 1 /\ Len(c) \in Nat
    OBVIOUS
  <2>2. DOMAIN d = 1..Len(c) + 1 /\ DOMAIN c = 1..Len(c)
    BY <2>1
  <2>3. d[1] = e /\ \A i \in 1..Len(c) : d[1 + i] = c[i]
    OBVIOUS
  <2>4. \A i \in DOMAIN d : i = 1 \/ (i - 1 \in DOMAIN c /\ i = 1 + (i - 1))
    BY <2>1, <2>2
  <2> HIDE DEF d
  <2> QED BY <2>1, <2>2, <2>3, <2>4
<1> HIDE DEF d
<1>2. \A k : KeyPlaces(c, k) \subseteq DOMAIN c /\ IsFiniteSet(KeyPlaces(c, k)) /\ IsFiniteSet(KeyPlaces(d, k))
  BY <1>1, ListFacts
<1>3. \A k : Q(k) \subseteq KeyPlaces(d, k) /\ 1 \notin Q(k)
  BY <1>1, <1>2 DEF KeyPlaces
<1>4. \A k : KeyPlaces(d, k) \subseteq Q(k) \cup {1}
  BY <1>1 DEF KeyPlaces
<1>5. \A k : SumFunctionOnSet(fr, Q(k)) = FramesOf(c, k) /\ SumFunctionOnSet(by, Q(k)) = BytesOf(c, k)
  <2> SUFFICES ASSUME NEW k
               PROVE  SumFunctionOnSet(fr, Q(k)) = FramesOf(c, k) /\ SumFunctionOnSet(by, Q(k)) = BytesOf(c, k)
    OBVIOUS
  <2>1. Q(k) \subseteq DOMAIN d
    BY <1>3 DEF KeyPlaces
  <2>2. \A i \in KeyPlaces(c, k) : d[1 + i] = c[i]
    BY <1>1, <1>2
  <2>3. KeyPlaces(c, k) \in SUBSET Nat
    BY <1>1, <1>2
  <2>4. PICK h \in Bijection(KeyPlaces(c, k), Q(k)) : \A i \in KeyPlaces(c, k) : h[i] = 1 + i
    BY <2>3, Moved
  <2>5. \A i \in KeyPlaces(c, k) : d[h[i]].frames = c[i].frames /\ d[h[i]].bytes = c[i].bytes
    BY <2>2, <2>4
  <2>6. PICK q : q = Q(k)
    OBVIOUS
  <2>7. h \in Bijection(KeyPlaces(c, k), q) /\ q \subseteq DOMAIN d
    BY <2>1, <2>6
  <2> HIDE DEF Q
  <2>8. FramesOf(c, k) = SumFunctionOnSet(fr, q) /\ BytesOf(c, k) = SumFunctionOnSet(by, q)
    BY <2>5, <2>7, ListTotals
  <2> QED BY <2>6, <2>8
<1>6. \A k : k # key => KeyPlaces(d, k) = Q(k)
  <2> SUFFICES ASSUME NEW k, k # key PROVE KeyPlaces(d, k) = Q(k)
    OBVIOUS
  <2>1. 1 \notin KeyPlaces(d, k)
    BY <1>1 DEF KeyPlaces
  <2>2. Q(k) \subseteq KeyPlaces(d, k) /\ KeyPlaces(d, k) \subseteq Q(k) \cup {1}
    BY <1>3, <1>4
  <2> HIDE DEF Q
  <2> QED BY <2>1, <2>2
<1>7. KeyPlaces(d, key) = Q(key) \cup {1}
  BY <1>1, <1>3, <1>4 DEF KeyPlaces
<1>8. \A k : k # key => FramesOf(d, k) = FramesOf(c, k) /\ BytesOf(d, k) = BytesOf(c, k)
  <2> HIDE DEF Q
  <2> QED BY <1>5, <1>6 DEF FramesOf, BytesOf
<1>9. /\ FramesOf(d, key) = e.frames + FramesOf(c, key)
      /\ BytesOf(d, key) = e.bytes + BytesOf(c, key)
      /\ FramesOf(c, key) \in Nat /\ BytesOf(c, key) \in Nat /\ e.frames \in Nat /\ e.bytes \in Nat
  <2>1. \A i \in DOMAIN d : fr[i] \in Nat /\ by[i] \in Nat
    BY <1>1, ListFacts
  <2>2. fr[1] = e.frames /\ by[1] = e.bytes
    BY <1>1
  <2>3. IsFiniteSet(Q(key)) /\ Q(key) \cup {1} \subseteq DOMAIN d
    <3> HIDE DEF Q
    <3>1. Q(key) \subseteq KeyPlaces(d, key) /\ IsFiniteSet(KeyPlaces(d, key))
      BY <1>2, <1>3
    <3>2. KeyPlaces(d, key) \subseteq DOMAIN d
      BY DEF KeyPlaces
    <3> QED BY <1>7, <3>1, <3>2, FS_Subset
  <2> HIDE DEF Q, fr, by
  <2>4. /\ SumFunctionOnSet(fr, Q(key) \cup {1}) = fr[1] + SumFunctionOnSet(fr, Q(key))
        /\ SumFunctionOnSet(fr, Q(key)) \in Nat
    BY <1>3, <2>1, <2>3, SumAdd, SumType
  <2>5. /\ SumFunctionOnSet(by, Q(key) \cup {1}) = by[1] + SumFunctionOnSet(by, Q(key))
        /\ SumFunctionOnSet(by, Q(key)) \in Nat
    BY <1>3, <2>1, <2>3, SumAdd, SumType
  <2>6. /\ FramesOf(d, key) = SumFunctionOnSet(fr, Q(key) \cup {1})
        /\ BytesOf(d, key) = SumFunctionOnSet(by, Q(key) \cup {1})
    BY <1>7 DEF FramesOf, BytesOf, fr, by
  <2> QED BY <1>1, <1>5, <2>1, <2>2, <2>4, <2>5, <2>6
<1>10. Grown(c, d, key, f)
  <2>1. \A i \in DOMAIN d : d[i].key = key \/ \E k \in DOMAIN c : c[k].key = d[i].key
    BY <1>1
  <2>2. \A i \in DOMAIN c : KeyPlaces(d, c[i].key) # {}
    BY <1>1 DEF KeyPlaces
  <2>3. KeyPlaces(d, key) # {}
    BY <1>7
  <2>4. Turned(Word, FramesOf(c, key), FramesOf(d, key), 1)
    <3>1. FramesOf(c, key) = FramesOf(c, key) + 0 /\ FramesOf(d, key) = FramesOf(c, key) + ((0 + 1) % Word)
      BY <1>9
    <3> QED BY <1>9, <3>1 DEF Turned
  <2>5. Turned(Word, BytesOf(c, key), BytesOf(d, key), f.length)
    <3>1. BytesOf(c, key) = BytesOf(c, key) + 0 /\ BytesOf(d, key) = BytesOf(c, key) + ((0 + f.length) % Word)
      BY <1>9
    <3> QED BY <1>9, <3>1 DEF Turned
  <2> QED BY <2>1, <2>2, <2>3, <2>4, <2>5 DEF Grown
<1>11. OthersKept(c, d, key)
  BY <1>8 DEF OthersKept
<1> QED BY <1>10, <1>11 DEF d

LEMMA GrownInPlace ==
  ASSUME NEW c \in Seq(Conversation), NEW f, f.length \in Nat, NEW p \in DOMAIN c, NEW e \in Conversation,
         e.key = c[p].key, e.frames = (c[p].frames + 1) % Word, e.bytes = (c[p].bytes + f.length) % Word
  PROVE  Grown(c, [c EXCEPT ![p] = e], e.key, f) /\ OthersKept(c, [c EXCEPT ![p] = e], e.key)
<1> DEFINE d == [c EXCEPT ![p] = e]
           fr == [i \in DOMAIN c |-> c[i].frames]
           by == [i \in DOMAIN c |-> c[i].bytes]
           fr2 == [i \in DOMAIN c |-> d[i].frames]
           by2 == [i \in DOMAIN c |-> d[i].bytes]
<1>1. DOMAIN d = DOMAIN c /\ d[p] = e /\ \A i \in DOMAIN c : i # p => d[i] = c[i]
  OBVIOUS
<1> HIDE DEF d
<1>2. \A k : /\ KeyPlaces(d, k) = KeyPlaces(c, k)
             /\ KeyPlaces(c, k) \subseteq DOMAIN c /\ IsFiniteSet(KeyPlaces(c, k))
  BY <1>1, ListFacts DEF KeyPlaces
<1>3. \A i \in DOMAIN c : /\ fr[i] \in Nat /\ by[i] \in Nat /\ fr2[i] \in Nat /\ by2[i] \in Nat
                          /\ i # p => fr2[i] = fr[i] /\ by2[i] = by[i]
  <2>1. e.frames \in Nat /\ e.bytes \in Nat
    BY ConvTableAssumption DEF Conversation
  <2> QED BY <1>1, <2>1, ListFacts
<1>4. fr[p] = c[p].frames /\ fr2[p] = e.frames /\ by[p] = c[p].bytes /\ by2[p] = e.bytes
  BY <1>1
<1>5. \A k : /\ FramesOf(c, k) = SumFunctionOnSet(fr, KeyPlaces(c, k))
             /\ FramesOf(d, k) = SumFunctionOnSet(fr2, KeyPlaces(c, k))
             /\ BytesOf(c, k) = SumFunctionOnSet(by, KeyPlaces(c, k))
             /\ BytesOf(d, k) = SumFunctionOnSet(by2, KeyPlaces(c, k))
  BY <1>1, <1>2 DEF FramesOf, BytesOf
<1> HIDE DEF fr, by, fr2, by2
<1>6. ASSUME NEW k, k # e.key
      PROVE  FramesOf(d, k) = FramesOf(c, k) /\ BytesOf(d, k) = BytesOf(c, k)
  <2>1. p \notin KeyPlaces(c, k)
    BY <1>6 DEF KeyPlaces
  <2>2. SumFunctionOnSet(fr, KeyPlaces(c, k)) = SumFunctionOnSet(fr2, KeyPlaces(c, k))
    BY <1>2, <1>3, <2>1, SumSame
  <2>3. SumFunctionOnSet(by, KeyPlaces(c, k)) = SumFunctionOnSet(by2, KeyPlaces(c, k))
    BY <1>2, <1>3, <2>1, SumSame
  <2> QED BY <1>5, <2>2, <2>3
<1> DEFINE P == KeyPlaces(c, e.key)
<1>7. /\ p \in P /\ IsFiniteSet(P)
      /\ \A y \in P : fr[y] \in Nat /\ fr2[y] \in Nat /\ (y # p => fr[y] = fr2[y])
      /\ \A y \in P : by[y] \in Nat /\ by2[y] \in Nat /\ (y # p => by[y] = by2[y])
  <2>1. p \in P
    BY DEF KeyPlaces
  <2> HIDE DEF P
  <2>2. P \subseteq DOMAIN c /\ IsFiniteSet(P)
    BY <1>2 DEF P
  <2> QED BY <1>3, <2>1, <2>2
<1> HIDE DEF P
<1>8. PICK r \in Nat : SumFunctionOnSet(fr, P) = fr[p] + r /\ SumFunctionOnSet(fr2, P) = fr2[p] + r
  BY <1>7, PlaceChanged
<1>9. PICK q \in Nat : SumFunctionOnSet(by, P) = by[p] + q /\ SumFunctionOnSet(by2, P) = by2[p] + q
  BY <1>7, PlaceChanged
<1>10. Grown(c, d, e.key, f)
  <2>1. \A i \in DOMAIN d : \E k \in DOMAIN c : c[k].key = d[i].key
    BY <1>1
  <2>2. \A i \in DOMAIN c : KeyPlaces(d, c[i].key) # {}
    BY <1>2 DEF KeyPlaces
  <2>3. KeyPlaces(d, e.key) # {}
    BY <1>2, <1>7 DEF P
  <2>4. /\ fr[p] \in Nat /\ by[p] \in Nat /\ fr2[p] \in Nat /\ by2[p] \in Nat
        /\ fr2[p] = (fr[p] + 1) % Word /\ by2[p] = (by[p] + f.length) % Word
    BY <1>3, <1>4
  <2>5. Turned(Word, FramesOf(c, e.key), FramesOf(d, e.key), 1)
    <3>1. FramesOf(c, e.key) = r + fr[p] /\ FramesOf(d, e.key) = r + ((fr[p] + 1) % Word)
      BY <1>5, <1>8, <2>4 DEF P
    <3> QED BY <2>4, <3>1 DEF Turned
  <2>6. Turned(Word, BytesOf(c, e.key), BytesOf(d, e.key), f.length)
    <3>1. BytesOf(c, e.key) = q + by[p] /\ BytesOf(d, e.key) = q + ((by[p] + f.length) % Word)
      BY <1>5, <1>9, <2>4 DEF P
    <3> QED BY <2>4, <3>1 DEF Turned
  <2> QED BY <2>1, <2>2, <2>3, <2>4, <2>5, <2>6 DEF Grown
<1>11. OthersKept(c, d, e.key)
  BY <1>6 DEF OthersKept
<1> QED BY <1>10, <1>11 DEF d

LEMMA CountedFields ==
  ASSUME NEW c, NEW f \in Frames, c.key \in Seq(Nat), c.tail \in Nat, c.frames \in Nat, c.bytes \in Nat,
         c = [key |-> c.key, tail |-> c.tail, frames |-> c.frames, bytes |-> c.bytes]
  PROVE  LET e == Counted(c, f)
         IN /\ e \in Conversation
            /\ e.key = c.key /\ e.tail = c.tail
            /\ e.frames = (c.frames + 1) % Word /\ e.bytes = (c.bytes + f.length) % Word
<1>1. Counted(c, f) \in Conversation
  BY CountedType
<1> DEFINE a == (c.frames + 1) % Word
           b == (c.bytes + f.length) % Word
<1>2. Counted(c, f) = [c EXCEPT !.frames = a, !.bytes = b]
  BY DEF Counted
<1> HIDE DEF a, b
<1>3. Counted(c, f) = [key |-> c.key, tail |-> c.tail, frames |-> a, bytes |-> b]
  BY <1>2
<1> QED BY <1>1, <1>3 DEF a, b

LEMMA AddedToList ==
  ASSUME NEW c \in Seq(Conversation), NEW key \in Seq(Nat), NEW tail \in Nat, NEW f \in Frames, NEW l,
         l # "ip" => tail = 0, Distinct(c, l)
  PROVE  LET d == AddTo(c, key, tail, f)
         IN Grown(c, d, key, f) /\ OthersKept(c, d, key) /\ Distinct(d, l) /\ d \in Seq(Conversation)
<1> DEFINE found == {i \in DOMAIN c : c[i].key = key /\ c[i].tail = tail}
           new == [key |-> key, tail |-> tail, frames |-> 0, bytes |-> 0]
           j == CHOOSE i \in found : TRUE
           d == AddTo(c, key, tail, f)
<1>1. d \in Seq(Conversation)
  BY AddToType
<1>2. CASE found = {}
  <2> DEFINE e == Counted(new, f)
  <2>1. d = <<e>> \o c
    BY <1>2 DEF AddTo
  <2>2. /\ e \in Conversation /\ e.key = key /\ e.tail = tail
        /\ e.frames = (0 + 1) % Word /\ e.bytes = (0 + f.length) % Word
    BY CountedFields
  <2> HIDE DEF e
  <2>5. Grown(c, d, key, f) /\ OthersKept(c, d, key)
    <3> HIDE DEF d, found
    <3>1. PICK w : w = e
      OBVIOUS
    <3>2. /\ w \in Conversation /\ w.key = key
          /\ w.frames = (0 + 1) % Word /\ w.bytes = (0 + f.length) % Word
      BY <2>2, <3>1
    <3>3. Grown(c, <<w>> \o c, key, f) /\ OthersKept(c, <<w>> \o c, key)
      BY <3>2, GrownAtFront
    <3> QED BY <2>1, <3>1, <3>3
  <2>3. \A i \in DOMAIN d : \/ i = 1 /\ d[i] = e
                            \/ \E k \in DOMAIN c : i = 1 + k /\ d[i] = c[k]
    <3> HIDE DEF d, found, new
    <3>1. Len(d) = Len(c) + 1 /\ Len(c) \in Nat /\ DOMAIN d = 1..Len(d) /\ DOMAIN c = 1..Len(c)
      BY <1>1, <2>1, <2>2
    <3>2. d[1] = e /\ \A k \in DOMAIN c : d[k + 1] = c[k]
      BY <2>1, <2>2
    <3>3. ASSUME NEW i \in DOMAIN d, i # 1 PROVE \E k \in DOMAIN c : i = 1 + k /\ d[i] = c[k]
      <4>1. i - 1 \in DOMAIN c /\ i = (i - 1) + 1 /\ i = 1 + (i - 1)
        BY <3>1, <3>3
      <4> QED BY <3>2, <4>1
    <3> QED BY <3>2, <3>3
  <2>4. Distinct(d, l)
    <3>1. \A k \in DOMAIN c : ~(c[k].key = key /\ c[k].tail = tail)
      BY <1>2
    <3>2. ASSUME NEW i \in DOMAIN d, NEW k \in DOMAIN d, d[i].key = d[k].key, d[i].tail = d[k].tail
          PROVE  i = k
      <4> HIDE DEF d, found
      <4>1. \A k1, k2 \in DOMAIN c : c[k1].key = c[k2].key /\ c[k1].tail = c[k2].tail => k1 = k2
        BY DEF Distinct
      <4>2. CASE i = 1 /\ d[i] = e
        BY <2>2, <2>3, <3>1, <3>2, <4>2
      <4>3. CASE k = 1 /\ d[k] = e
        BY <2>2, <2>3, <3>1, <3>2, <4>3
      <4>4. ASSUME NEW x \in DOMAIN c, i = 1 + x, d[i] = c[x], NEW y \in DOMAIN c, k = 1 + y, d[k] = c[y]
            PROVE  i = k
        BY <3>2, <4>1, <4>4
      <4> QED BY <2>3, <3>2, <4>2, <4>3, <4>4
    <3>3. ASSUME l # "ip", NEW i \in DOMAIN d PROVE d[i].tail = 0
      <4> HIDE DEF d, found
      <4> QED BY <2>2, <2>3, <3>3 DEF Distinct
    <3> HIDE DEF d
    <3> QED BY <3>2, <3>3 DEF Distinct
  <2> QED BY <1>1, <2>4, <2>5
<1>3. CASE found # {}
  <2> DEFINE e == Counted(c[j], f)
  <2>1. d = [c EXCEPT ![j] = e]
    BY <1>3 DEF AddTo
  <2>2. j \in DOMAIN c /\ c[j].key = key /\ c[j].tail = tail
    BY <1>3
  <2> HIDE DEF found, j
  <2>3. c[j] \in Conversation
    BY <2>2
  <2>4. /\ e \in Conversation /\ e.key = c[j].key /\ e.tail = c[j].tail
        /\ e.frames = (c[j].frames + 1) % Word /\ e.bytes = (c[j].bytes + f.length) % Word
    <3>1. Word \in Nat
      BY ConvTableAssumption
    <3>2. /\ c[j].key \in Seq(Nat) /\ c[j].tail \in Nat
          /\ c[j].frames \in Nat /\ c[j].bytes \in Nat
          /\ c[j] = [key |-> c[j].key, tail |-> c[j].tail, frames |-> c[j].frames, bytes |-> c[j].bytes]
      BY <2>3, <3>1 DEF Conversation
    <3> QED BY <3>2, CountedFields
  <2>5. f.length \in Nat
    BY ConvTableAssumption
  <2> HIDE DEF e
  <2>6. Grown(c, d, key, f) /\ OthersKept(c, d, key)
    <3> HIDE DEF d
    <3>1. PICK w : w = e
      OBVIOUS
    <3>2. PICK p : p = j
      OBVIOUS
    <3>3. /\ w \in Conversation /\ w.key = c[p].key /\ p \in DOMAIN c
          /\ w.frames = (c[p].frames + 1) % Word /\ w.bytes = (c[p].bytes + f.length) % Word
      BY <2>2, <2>4, <3>1, <3>2
    <3>4. Grown(c, [c EXCEPT ![p] = w], w.key, f) /\ OthersKept(c, [c EXCEPT ![p] = w], w.key)
      BY <2>5, <3>3, GrownInPlace
    <3>5. w.key = key
      BY <2>2, <2>4, <3>1
    <3> QED BY <2>1, <3>1, <3>2, <3>4, <3>5
  <2>7. DOMAIN d = DOMAIN c /\ \A i \in DOMAIN c : d[i].key = c[i].key /\ d[i].tail = c[i].tail
    <3> HIDE DEF d
    <3> QED BY <2>1, <2>2, <2>4
  <2>8. Distinct(d, l)
    <3> HIDE DEF d
    <3> QED BY <2>7 DEF Distinct
  <2> QED BY <1>1, <2>6, <2>8
<1> QED BY <1>2, <1>3

LEMMA AddedBalanced ==
  ASSUME NEW c, NEW l, NEW s \in Seq(Frames), NEW J, J \subseteq DOMAIN s, IsFiniteSet(J),
         NEW n \in DOMAIN s, n \notin J, NEW d, Accounts(c, l, s, J),
         Grown(c, d, KeyOf(l, s[n]), s[n]), OthersKept(c, d, KeyOf(l, s[n])), NEW key
  PROVE  Balanced(d, l, s, J \cup {n}, key)
<1>1. Balanced(c, l, s, J, key)
  BY AnyBalanced
<1>2. Cardinality(SamplesWith(l, s, J, key)) \in Nat /\ LengthOf(s, SamplesWith(l, s, J, key)) \in Nat
  BY SampleFacts
<1>3. CASE key # KeyOf(l, s[n])
  <2>1. SamplesWith(l, s, J \cup {n}, key) = SamplesWith(l, s, J, key)
    <3>1. n \notin SamplesWith(l, s, J \cup {n}, key)
      BY <1>3 DEF SamplesWith
    <3> QED BY <3>1 DEF SamplesWith
  <2>2. FramesOf(d, key) = FramesOf(c, key) /\ BytesOf(d, key) = BytesOf(c, key)
    BY <1>3 DEF OthersKept
  <2> QED BY <1>1, <2>1, <2>2 DEF Balanced
<1>4. CASE key = KeyOf(l, s[n])
  <2>1. /\ Cardinality(SamplesWith(l, s, J \cup {n}, key)) = Cardinality(SamplesWith(l, s, J, key)) + 1
        /\ LengthOf(s, SamplesWith(l, s, J \cup {n}, key))
             = LengthOf(s, SamplesWith(l, s, J, key)) + s[n].length
    BY <1>4, SampleAdded
  <2> DEFINE m == Cardinality(SamplesWith(l, s, J, key))
             t == LengthOf(s, SamplesWith(l, s, J, key))
  <2>2. /\ Turned(Word, FramesOf(c, key), FramesOf(d, key), 1)
        /\ Turned(Word, BytesOf(c, key), BytesOf(d, key), s[n].length)
    BY <1>4 DEF Grown
  <2>3. Alike(Word, FramesOf(c, key), m) /\ Alike(Word, BytesOf(c, key), t)
    BY <1>1 DEF Balanced
  <2>4. m \in Nat /\ t \in Nat /\ 1 \in Nat /\ s[n].length \in Nat
    <3>1. \A f1 \in Frames : f1.length \in Nat
      BY ConvTableAssumption
    <3>2. s[n] \in Frames
      OBVIOUS
    <3> QED BY <1>2, <3>1, <3>2
  <2> HIDE DEF m, t
  <2>5. Alike(Word, FramesOf(d, key), m + 1) /\ Alike(Word, BytesOf(d, key), t + s[n].length)
    <3>1. Word \in Nat \ {0}
      BY ConvTableAssumption
    <3> QED BY <2>2, <2>3, <2>4, <3>1, TurnedEqual
  <2> QED BY <2>1, <2>5 DEF Balanced, m, t
<1> QED BY <1>3, <1>4

\* conv_list_add of a sample: the list accounts for that sample, too.
LEMMA AddedAccounts ==
  ASSUME NEW c \in Seq(Conversation), NEW l \in Layers, NEW s \in Seq(Frames), NEW J, J \subseteq DOMAIN s,
         IsFiniteSet(J), NEW n \in DOMAIN s, n \notin J, NEW tail \in Nat, l # "ip" => tail = 0,
         Distinct(c, l), Accounts(c, l, s, J)
  PROVE  LET d == AddTo(c, KeyOf(l, s[n]), tail, s[n]) IN Distinct(d, l) /\ Accounts(d, l, s, J \cup {n})
<1> DEFINE key == KeyOf(l, s[n])
           d == AddTo(c, key, tail, s[n])
<1>1. s[n] \in Frames /\ key \in Seq(Nat)
  BY KeyType
<1>2. Grown(c, d, key, s[n]) /\ OthersKept(c, d, key) /\ Distinct(d, l)
  <2> HIDE DEF key
  <2> QED BY <1>1, AddedToList
<1> HIDE DEF d
<1>3. \A i \in DOMAIN d : \E j \in J \cup {n} : d[i].key = KeyOf(l, s[j])
  BY <1>2 DEF Grown, Accounts
<1>4. \A j \in J \cup {n} : KeyPlaces(d, KeyOf(l, s[j])) # {}
  <2>1. \A j \in J : \E i \in DOMAIN c : c[i].key = KeyOf(l, s[j])
    BY DEF Accounts, KeyPlaces
  <2> QED BY <1>2, <2>1 DEF Grown
<1>5. \A k : Balanced(d, l, s, J \cup {n}, k)
  BY <1>2, AddedBalanced
<1>6. l # "ip" => \A i, k \in DOMAIN d : d[i].key = d[k].key => i = k
  BY <1>2 DEF Distinct
<1>7. Accounts(d, l, s, J \cup {n})
  BY <1>3, <1>4, <1>5, <1>6 DEF Accounts
<1> QED BY <1>2, <1>7 DEF d

\* Of the first n samples those with a conversation on layer l, and those of a bucket.
Mine(l, s, n) == {j \in 1..n : l \in LayersOf(s[j])}
InBucket(l, s, n, k) == {j \in Mine(l, s, n) : HashOf(KeyOf(l, s[j])) = k}

\* The hash tables have the conversations of the first n samples of s.
GatheredIn(tables, s, n) ==
  \A l \in Layers, k \in HashBuckets :
    Distinct(tables[l][k], l) /\ Accounts(tables[l][k], l, s, InBucket(l, s, n, k))

LEMMA BucketFacts ==
  ASSUME NEW s \in Seq(Frames), NEW n \in 0..Len(s), NEW l, NEW k
  PROVE  /\ InBucket(l, s, n, k) \subseteq Mine(l, s, n) /\ Mine(l, s, n) \subseteq 1..n
         /\ 1..n \subseteq DOMAIN s
         /\ IsFiniteSet(InBucket(l, s, n, k)) /\ IsFiniteSet(Mine(l, s, n))
<1>1. InBucket(l, s, n, k) \subseteq Mine(l, s, n) /\ Mine(l, s, n) \subseteq 1..n
  BY DEF InBucket, Mine
<1>2. n \in Nat /\ 1..n \subseteq DOMAIN s
  OBVIOUS
<1>3. IsFiniteSet(1..n)
  BY <1>2, FS_Interval
<1>4. IsFiniteSet(Mine(l, s, n))
  BY <1>1, <1>3, FS_Subset
<1>5. IsFiniteSet(InBucket(l, s, n, k))
  BY <1>1, <1>4, FS_Subset
<1> QED BY <1>1, <1>2, <1>4, <1>5

\* process_sample_flow keeps the tables so.
LEMMA ReadGathers ==
  ASSUME ConvTypeOK, NEW s \in Seq(Frames), NEW n \in 0..Len(s), n < Len(s), NEW t \in Tails,
         ProcessSample(s[n + 1], t), GatheredIn(conv, s, n)
  PROVE  GatheredIn(conv', s, n + 1)
<1> SUFFICES ASSUME NEW l \in Layers, NEW k \in HashBuckets
             PROVE  Distinct(conv'[l][k], l) /\ Accounts(conv'[l][k], l, s, InBucket(l, s, n + 1, k))
  BY DEF GatheredIn
<1> DEFINE f == s[n + 1]
           key == KeyOf(l, f)
           tail == IF l = "ip" THEN t ELSE 0
           c == conv[l][k]
           J == InBucket(l, s, n, k)
<1>1. f \in Frames /\ n + 1 \in DOMAIN s /\ n + 1 \notin J
  <2>1. n + 1 \in DOMAIN s /\ n + 1 \notin 1..n
    OBVIOUS
  <2> QED BY <2>1, BucketFacts
<1>2. key \in Seq(Nat) /\ HashOf(key) \in HashBuckets /\ tail \in Nat /\ (l # "ip" => tail = 0)
  <2>1. key \in Seq(Nat) /\ tail \in Nat /\ (l # "ip" => tail = 0)
    BY <1>1, KeyType, ConvTableAssumption
  <2> HIDE DEF key
  <2> QED BY <2>1, HashType
<1>3. conv[l] \in [HashBuckets -> Seq(Conversation)] /\ c \in Seq(Conversation)
  BY DEF ConvTypeOK, Conversation
<1>4. Distinct(c, l) /\ Accounts(c, l, s, J)
  BY DEF GatheredIn
<1>5. conv'[l] = IF l \in LayersOf(f) THEN [conv[l] EXCEPT ![HashOf(key)] = AddTo(@, key, tail, f)] ELSE conv[l]
  BY DEF ProcessSample
<1>6. \A j : j \in 1..n + 1 <=> j \in 1..n \/ j = n + 1
  OBVIOUS
<1>7. CASE l \in LayersOf(f) /\ k = HashOf(key)
  <2>1. conv'[l][k] = AddTo(c, key, tail, f)
    <3> HIDE DEF key, tail, f
    <3> QED BY <1>3, <1>5, <1>7
  <2>2. InBucket(l, s, n + 1, k) = J \cup {n + 1}
    BY <1>6, <1>7 DEF InBucket, Mine
  <2>3. J \subseteq DOMAIN s /\ IsFiniteSet(J)
    BY BucketFacts
  <2> HIDE DEF c, J, tail
  <2>4. Distinct(AddTo(c, key, tail, f), l) /\ Accounts(AddTo(c, key, tail, f), l, s, J \cup {n + 1})
    BY <1>1, <1>2, <1>3, <1>4, <2>3, AddedAccounts
  <2> QED BY <2>1, <2>2, <2>4
<1>8. CASE ~(l \in LayersOf(f) /\ k = HashOf(key))
  <2>1. conv'[l][k] = c
    <3> HIDE DEF key, tail, f
    <3> QED BY <1>2, <1>3, <1>5, <1>8
  <2>2. InBucket(l, s, n + 1, k) = J
    BY <1>6, <1>8 DEF InBucket, Mine
  <2> QED BY <1>4, <2>1, <2>2
<1> QED BY <1>7, <1>8

LEMMA NothingGathered ==
  ASSUME NEW s
  PROVE  GatheredIn(EmptyTables, s, 0)
<1> SUFFICES ASSUME NEW l \in Layers, NEW k \in HashBuckets
             PROVE  Distinct(<<>>, l) /\ Accounts(<<>>, l, s, InBucket(l, s, 0, k))
  BY DEF GatheredIn, EmptyTables
<1>1. DOMAIN <<>> = {} /\ 1..0 = {}
  OBVIOUS
<1>2. InBucket(l, s, 0, k) = {}
  BY <1>1 DEF InBucket, Mine
<1> QED BY <1>1, <1>2 DEF Distinct, Accounts

\* All conversations with a key are in one list.
LEMMA KeyAround ==
  ASSUME NEW c \in Seq(Conversation), NEW e \in Seq(Conversation), NEW m \in Nat, NEW R,
         Around(c, e, m, R), NEW key,
         \A r \in R : \A x \in Range(r) : x.key # key
  PROVE  \E h \in Bijection(KeyPlaces(e, key), KeyPlaces(c, key)) : \A i \in KeyPlaces(e, key) : c[h[i]] = e[i]
<1> DEFINE P == KeyPlaces(e, key)
<1>1. P \in SUBSET Nat
  BY ListFacts
<1>2. PICK h \in Bijection(P, {m + i : i \in P}) : \A i \in P : h[i] = m + i
  BY <1>1, Moved
<1>3. \A i \in DOMAIN e : m + i \in DOMAIN c /\ c[m + i] = e[i]
  BY DEF Around
<1>4. KeyPlaces(c, key) = {m + i : i \in P}
  <2>1. \A i \in P : m + i \in KeyPlaces(c, key)
    BY <1>3 DEF KeyPlaces
  <2>2. ASSUME NEW x \in KeyPlaces(c, key)
        PROVE  \E i \in P : x = m + i
    <3>1. x \in DOMAIN c /\ c[x].key = key
      BY DEF KeyPlaces
    <3>2. PICK i \in DOMAIN e : x = m + i
      BY <3>1 DEF Around
    <3> QED BY <1>3, <3>1, <3>2 DEF KeyPlaces
  <2> QED BY <2>1, <2>2
<1>5. \A i \in P : c[h[i]] = e[i]
  BY <1>2, <1>3 DEF KeyPlaces
<1> QED BY <1>2, <1>4, <1>5

\* The lists of a layer account together for all its samples.
LEMMA GatheredAccounts ==
  ASSUME ConvTypeOK, NEW s \in Seq(Frames), NEW l \in Layers, GatheredIn(conv, s, Len(s))
  PROVE  Accounts(Conversations(l), l, s, Mine(l, s, Len(s)))
<1> DEFINE p == [k \in 1..HashRange |-> conv[l][k - 1]]
           c == Conversations(l)
           n == Len(s)
           J == Mine(l, s, n)
<1>1. HashRange \in Nat /\ n \in Nat /\ n \in 0..n /\ \A k \in 1..HashRange : k - 1 \in HashBuckets
  BY ConvTableAssumption DEF HashBuckets
<1>2. p \in [1..HashRange -> Seq(Conversation)] /\ \A k \in 1..HashRange : p[k] = conv[l][k - 1]
  BY <1>1 DEF ConvTypeOK, Conversation
<1>3. c = FlattenSeq(p)
  BY DEF Conversations
<1>4. c \in Seq(Conversation)
  BY ConversationsType
<1>5. \A k \in 1..HashRange : Distinct(p[k], l) /\ Accounts(p[k], l, s, InBucket(l, s, n, k - 1))
  BY <1>1, <1>2 DEF GatheredIn
<1> HIDE DEF p, c, n
\* In a bucket there are the keys that belong there.
<1>6. \A k \in 1..HashRange : \A x \in Range(p[k]) :
        /\ HashOf(x.key) = k - 1
        /\ \E j \in J : x.key = KeyOf(l, s[j])
  <2> SUFFICES ASSUME NEW k \in 1..HashRange, NEW i \in DOMAIN p[k]
               PROVE  /\ HashOf(p[k][i].key) = k - 1
                      /\ \E j \in J : p[k][i].key = KeyOf(l, s[j])
    BY DEF Range
  <2>1. PICK j \in InBucket(l, s, n, k - 1) : p[k][i].key = KeyOf(l, s[j])
    BY <1>5 DEF Accounts
  <2> QED BY <2>1 DEF InBucket
<1>7. \A i \in DOMAIN c : \E j \in J : c[i].key = KeyOf(l, s[j])
  <2>1. \A x \in Range(c) : \E k \in 1..HashRange : x \in Range(p[k])
    BY <1>1, <1>2, <1>3, FlattenElements
  <2>2. \A i \in DOMAIN c : c[i] \in Range(c)
    BY DEF Range
  <2> HIDE DEF J
  <2> QED BY <1>6, <2>1, <2>2
<1>8. ASSUME NEW j \in J
      PROVE  /\ KeyPlaces(c, KeyOf(l, s[j])) # {}
             /\ Balanced(c, l, s, J, KeyOf(l, s[j]))
             /\ l # "ip" => \A x, y \in KeyPlaces(c, KeyOf(l, s[j])) : x = y
  <2> DEFINE key == KeyOf(l, s[j])
             k == HashOf(key) + 1
             e == p[k]
             I == InBucket(l, s, n, HashOf(key))
  <2>1. j \in DOMAIN s /\ s[j] \in Frames
    <3>1. j \in DOMAIN s
      BY <1>1, BucketFacts DEF n
    <3> QED BY <3>1
  <2>2. key \in Seq(Nat)
    BY <2>1, KeyType
  <2>3. k \in 1..HashRange /\ k - 1 = HashOf(key)
    <3> HIDE DEF key
    <3>1. HashOf(key) \in HashBuckets
      BY <2>2, HashType
    <3> QED BY <1>1, <3>1 DEF HashBuckets
  <2>4. e \in Seq(Conversation) /\ Distinct(e, l) /\ Accounts(e, l, s, I) /\ j \in I
    <3>1. j \in I
      BY DEF InBucket
    <3> QED BY <1>2, <1>5, <2>3, <3>1
  <2> DEFINE R == Beside(p, HashRange, k)
  <2>5. PICK m \in Nat : Around(c, e, m, R)
    <3> HIDE DEF k, J
    <3>1. \E m \in Nat : Around(FlattenSeq(p), p[k], m, Beside(p, HashRange, k))
      BY <1>1, <1>2, <2>3, FlattenAround
    <3> QED BY <1>3, <3>1
  <2>6. \A r \in R : \A x \in Range(r) : x.key # key
    <3> SUFFICES ASSUME NEW o \in 1..HashRange, o # k, NEW x \in Range(p[o])
                 PROVE  x.key # key
      BY DEF Beside
    <3>1. HashOf(x.key) = o - 1
      BY <1>6
    <3>2. o - 1 # k - 1
      BY <1>1, <2>3
    <3> HIDE DEF key
    <3> QED BY <2>3, <3>1, <3>2
  <2> HIDE DEF R, e, k
  <2>7. PICK h \in Bijection(KeyPlaces(e, key), KeyPlaces(c, key)) : \A i \in KeyPlaces(e, key) : c[h[i]] = e[i]
    <3> HIDE DEF key
    <3> QED BY <1>4, <2>4, <2>5, <2>6, KeyAround
  <2>8. /\ KeyPlaces(e, key) # {} /\ Balanced(e, l, s, I, key)
        /\ l # "ip" => \A x, y \in KeyPlaces(e, key) : x = y
    BY <2>4 DEF Accounts, KeyPlaces
  <2>9. /\ \A i \in KeyPlaces(e, key) : h[i] \in KeyPlaces(c, key)
        /\ \A x \in KeyPlaces(c, key) : \E i \in KeyPlaces(e, key) : h[i] = x
    BY DEF Bijection, Injection, Surjection
  <2>10. KeyPlaces(c, key) # {} /\ (l # "ip" => \A x, y \in KeyPlaces(c, key) : x = y)
    BY <2>8, <2>9
  <2>11. FramesOf(e, key) = FramesOf(c, key) /\ BytesOf(e, key) = BytesOf(c, key)
    <3>1. KeyPlaces(c, key) \subseteq DOMAIN c
      BY DEF KeyPlaces
    <3>2. \A i \in KeyPlaces(e, key) : c[h[i]].frames = e[i].frames /\ c[h[i]].bytes = e[i].bytes
      BY <2>7
    <3>3. PICK q : q = KeyPlaces(c, key)
      OBVIOUS
    <3>4. h \in Bijection(KeyPlaces(e, key), q) /\ q \subseteq DOMAIN c
      BY <2>7, <3>1, <3>3
    <3> HIDE DEF key, I, J
    <3>5. /\ FramesOf(e, key) = SumFunctionOnSet([i \in DOMAIN c |-> c[i].frames], q)
          /\ BytesOf(e, key) = SumFunctionOnSet([i \in DOMAIN c |-> c[i].bytes], q)
      BY <2>4, <3>2, <3>4, ListTotals
    <3> QED BY <3>3, <3>5 DEF FramesOf, BytesOf
  <2>12. SamplesWith(l, s, I, key) = SamplesWith(l, s, J, key)
    BY DEF SamplesWith, InBucket
  <2>13. Balanced(c, l, s, J, key)
    <3> HIDE DEF I, J, key
    <3> QED BY <2>8, <2>11, <2>12 DEF Balanced
  <2> QED BY <2>10, <2>13
<1>9. l # "ip" => \A i, x \in DOMAIN c : c[i].key = c[x].key => i = x
  <2> SUFFICES ASSUME l # "ip", NEW i \in DOMAIN c, NEW x \in DOMAIN c, c[i].key = c[x].key
               PROVE  i = x
    OBVIOUS
  <2>1. PICK j \in J : c[i].key = KeyOf(l, s[j])
    BY <1>7
  <2>2. i \in KeyPlaces(c, KeyOf(l, s[j])) /\ x \in KeyPlaces(c, KeyOf(l, s[j]))
    BY <2>1 DEF KeyPlaces
  <2> QED BY <1>8, <2>1, <2>2
<1> HIDE DEF J
<1>10. Accounts(c, l, s, J)
  BY <1>7, <1>8, <1>9 DEF Accounts
<1> QED BY <1>10 DEF c, J, n

\* Row r is what batch n has of conversation e.
RowFor(r, n, e) == r.batch = n /\ r.key = e.key /\ r.frames = e.frames /\ r.bytes = e.bytes

\* In tables T the rows of batch n are those of the list c, together in the table of
\* day d behind the first m rows there, and no earlier than day t.
Block(T, n, c, t, d, m) ==
  /\ d \in DOMAIN T /\ t <= d
  /\ \A i \in DOMAIN c : m + i \in DOMAIN T[d] /\ RowFor(T[d][m + i], n, c[i])
  /\ \A e \in DOMAIN T : \A i \in DOMAIN T[e] :
       T[e][i].batch = n => e = d /\ \E j \in DOMAIN c : i = m + j

NoRows(T, n) == \A d \in DOMAIN T : \A i \in DOMAIN T[d] : T[d][i].batch # n

\* In tables T are the conversations of batch b on layer l.
Held(T, l, b) ==
  /\ b.samples \in Seq(Frames)
  /\ \E c \in Seq(Conversation) :
       /\ Accounts(c, l, b.samples, Mine(l, b.samples, Len(b.samples)))
       /\ \E d \in Int, m \in Nat : Block(T, b.number, c, DayOf(b.timestamp), d, m)

LEMMA BlockUnchanged ==
  ASSUME NEW T, NEW U, NEW n, NEW c, NEW t, NEW d, NEW m, Block(T, n, c, t, d, m),
         d \in DOMAIN U,
         \A e \in DOMAIN U : \A i \in DOMAIN U[e] :
           U[e][i].batch = n => e \in DOMAIN T /\ i \in DOMAIN T[e] /\ T[e][i] = U[e][i],
         \A i \in DOMAIN T[d] : i \in DOMAIN U[d] /\ U[d][i] = T[d][i]
  PROVE  Block(U, n, c, t, d, m)
<1>1. \A i \in DOMAIN c : m + i \in DOMAIN U[d] /\ RowFor(U[d][m + i], n, c[i])
  BY DEF Block
<1>2. \A e \in DOMAIN U : \A i \in DOMAIN U[e] :
        U[e][i].batch = n => e = d /\ \E j \in DOMAIN c : i = m + j
  BY DEF Block
<1> QED BY <1>1, <1>2 DEF Block

LEMMA BlockCreated ==
  ASSUME NEW T, NEW n, NEW c, NEW t, NEW d, NEW m, Block(T, n, c, t, d, m), NEW x, x \notin DOMAIN T
  PROVE  Block(With(T, x, <<>>), n, c, t, d, m)
<1> DEFINE U == With(T, x, <<>>)
<1>1. DOMAIN U = DOMAIN T \cup {x} /\ \A e \in DOMAIN T : U[e] = T[e]
  BY DEF With
<1>2. DOMAIN U[x] = {}
  BY DEF With
<1> HIDE DEF U
<1>3. \A e \in DOMAIN U : \A i \in DOMAIN U[e] : e \in DOMAIN T
  BY <1>1, <1>2
<1>4. d \in DOMAIN T
  BY DEF Block
<1>5. Block(U, n, c, t, d, m)
  BY <1>1, <1>3, <1>4, BlockUnchanged
<1> QED BY <1>5 DEF U

LEMMA BlockDropped ==
  ASSUME NEW T, NEW n, NEW c, NEW t \in Int, NEW d \in Int, NEW m, Block(T, n, c, t, d, m),
         NEW x \in Int, x < t
  PROVE  Block(Without(T, x), n, c, t, d, m)
<1> DEFINE U == Without(T, x)
<1>1. DOMAIN U = DOMAIN T \ {x}
  BY WithoutTables
<1>2. \A e \in DOMAIN T \ {x} : U[e] = T[e]
  BY WithoutRows
<1> HIDE DEF U
<1>3. d \in DOMAIN T /\ d # x
  BY DEF Block
<1>4. Block(U, n, c, t, d, m)
  BY <1>1, <1>2, <1>3, BlockUnchanged
<1> QED BY <1>4 DEF U

LEMMA BlockOther ==
  ASSUME NEW T, NEW n, NEW c, NEW t, NEW d, NEW m, Block(T, n, c, t, d, m),
         NEW R, NEW x \in DOMAIN T, T[x] \in Seq(R),
         NEW rows \in Seq(R), \A j \in DOMAIN rows : rows[j].batch # n
  PROVE  Block(With(T, x, T[x] \o rows), n, c, t, d, m)
<1> DEFINE a == T[x]
           more == T[x] \o rows
           U == With(T, x, more)
<1>1. DOMAIN U = DOMAIN T /\ \A e \in DOMAIN T : U[e] = IF e = x THEN more ELSE T[e]
  BY DEF With
<1>2. /\ \A i \in DOMAIN a : i \in DOMAIN more /\ more[i] = a[i]
      /\ \A i \in DOMAIN more : i \in DOMAIN a \/ \E j \in DOMAIN rows : more[i] = rows[j]
  BY Appended
<1> HIDE DEF U, more
<1>3. d \in DOMAIN T
  BY DEF Block
<1>4. Block(U, n, c, t, d, m)
  BY <1>1, <1>2, <1>3, BlockUnchanged
<1> QED BY <1>4 DEF U, more

\* The rows of a list are loaded into a table.
LEMMA BlockLoaded ==
  ASSUME NEW T, NEW n, NoRows(T, n), NEW c, NEW t, NEW R, NEW x \in DOMAIN T, T[x] \in Seq(R), t <= x,
         NEW rows \in Seq(R), DOMAIN rows = DOMAIN c, \A j \in DOMAIN rows : RowFor(rows[j], n, c[j])
  PROVE  Len(T[x]) \in Nat /\ Block(With(T, x, T[x] \o rows), n, c, t, x, Len(T[x]))
<1> DEFINE a == T[x]
           m == Len(T[x])
           more == T[x] \o rows
           U == With(T, x, more)
<1>1. DOMAIN U = DOMAIN T /\ \A e \in DOMAIN T : U[e] = IF e = x THEN more ELSE T[e]
  BY DEF With
<1>2. /\ m \in Nat
      /\ \A i \in DOMAIN a : i \in DOMAIN more /\ more[i] = a[i]
      /\ \A j \in DOMAIN rows : m + j \in DOMAIN more /\ more[m + j] = rows[j]
      /\ \A i \in DOMAIN more : i \in DOMAIN a \/ \E j \in DOMAIN rows : i = m + j
  BY Appended
<1> HIDE DEF U, more, m
<1>3. \A i \in DOMAIN c : m + i \in DOMAIN U[x] /\ RowFor(U[x][m + i], n, c[i])
  BY <1>1, <1>2
<1>4. ASSUME NEW e \in DOMAIN U, NEW i \in DOMAIN U[e], U[e][i].batch = n
      PROVE  e = x /\ \E j \in DOMAIN c : i = m + j
  <2>1. CASE e # x
    BY <1>1, <1>4, <2>1 DEF NoRows
  <2>2. CASE e = x
    <3>1. i \notin DOMAIN a
      BY <1>1, <1>2, <1>4, <2>2 DEF NoRows
    <3> QED BY <1>1, <1>2, <2>2, <3>1
  <2> QED BY <2>1, <2>2
<1>5. Block(U, n, c, t, x, m)
  BY <1>1, <1>3, <1>4 DEF Block
<1> QED BY <1>2, <1>5 DEF U, more, m

\* A step that loads no rows of its own keeps what tables hold of a batch that is
\* not too old.
LEMMA BlockKept ==
  ASSUME CountersInv, [Next]_vars, NEW l \in Layers, NEW t \in Nat, NEW n,
         StoreConversations(l) => n # batch.number,
         expired # NoDay /\ phase \in {"start", "mysql"} => expired < DayOf(t),
         NEW c, NEW d \in Int, NEW m, Block(db[l], n, c, DayOf(t), d, m)
  PROVE  Block(db'[l], n, c, DayOf(t), d, m)
<1> DEFINE T == db[l]
           U == db'[l]
           x == current[l].day
<1>1. DayOf(t) \in Int /\ TypesInv /\ TablesInv /\ l \in Kinds /\ l # "counters"
  BY PartitionType, ProcessFields, LayersAreKinds DEF CountersInv
<1>2. CASE U = T
  BY <1>2
<1>3. CASE Create(l) /\ U # T
  <2>1. PICK e : e \notin DOMAIN T /\ U = With(T, e, <<>>)
    BY <1>1, <1>3, CreatedTables
  <2> QED BY <2>1, BlockCreated
<1>4. CASE Drop(l)
  <2>1. U = Without(T, expired) /\ expired # NoDay /\ expired \in Int /\ phase \in {"start", "mysql"}
    BY <1>1, <1>4, DroppedTables
  <2> QED BY <1>1, <2>1, BlockDropped
<1>5. CASE StoreConversations(l)
  <2>1. Load(l, ConversationRows(l))
    BY <1>5 DEF StoreConversations, ConversationRows
  <2>2. /\ ConversationRows(l) \in Seq(Row)
        /\ \A j \in DOMAIN ConversationRows(l) : ConversationRows(l)[j].batch # n
    BY <1>1, <1>5, ConversationRowsType
  <2>3. /\ x \notin DOMAIN T => U = T
        /\ x \in DOMAIN T => U = With(T, x, T[x] \o ConversationRows(l))
    BY <1>1, <2>1, LoadedTables
  <2>4. x \in DOMAIN T => T[x] \in Seq(Row)
    BY <1>1, TablesType
  <2> QED BY <2>2, <2>3, <2>4, BlockOther
<1> QED BY <1>1, <1>2, <1>3, <1>4, <1>5, TablesStep

LEMMA HeldKept ==
  ASSUME CountersInv, [Next]_vars, NEW l \in Layers, NEW b, b.timestamp \in Nat,
         StoreConversations(l) => b.number # batch.number,
         expired # NoDay /\ phase \in {"start", "mysql"} => expired < DayOf(b.timestamp),
         Held(db[l], l, b)
  PROVE  Held(db'[l], l, b)
<1>1. b.samples \in Seq(Frames)
  BY DEF Held
<1>2. PICK c \in Seq(Conversation) :
        /\ Accounts(c, l, b.samples, Mine(l, b.samples, Len(b.samples)))
        /\ \E d \in Int, m \in Nat : Block(db[l], b.number, c, DayOf(b.timestamp), d, m)
  BY DEF Held
<1>3. PICK d \in Int, m \in Nat : Block(db[l], b.number, c, DayOf(b.timestamp), d, m)
  BY <1>2
<1>4. Block(db'[l], b.number, c, DayOf(b.timestamp), d, m)
  BY <1>3, BlockKept
<1> QED BY <1>1, <1>2, <1>4 DEF Held

\* The samples read so far are in the hash tables, and all of them until they are stored.
Gathered ==
  phase \in {"read", "mysql"} /\ batch.type = "flow" =>
    GatheredIn(conv, batch.samples, IF phase = "read" THEN cursor ELSE Len(batch.samples))

LEMMA StepGathered ==
  ASSUME TypesInv, Gathered, [Next]_vars
  PROVE  Gathered'
<1>1. ASSUME NEW t \in Epoch..MaxMinute, BeginFlow(t)
      PROVE  Gathered'
  <2>1. PICK s \in FlowFiles : Begin("flow", t, s) /\ ClearTables
    BY <1>1 DEF BeginFlow
  <2>2. /\ phase = "idle" /\ phase' = "read" /\ cursor' = cursor /\ conv' = EmptyTables
        /\ batch' = [number |-> begun', type |-> "flow", timestamp |-> t, samples |-> s]
    BY <2>1 DEF Begin, ClearTables
  <2>3. batch'.samples = s
    BY <2>2
  <2>4. cursor = 0
    BY <2>2, TypesParts DEF WorkTyped
  <2>5. GatheredIn(conv', batch'.samples, 0)
    BY <2>2, <2>3, NothingGathered
  <2> QED BY <2>2, <2>4, <2>5 DEF Gathered
<1>2. ASSUME NEW t \in Epoch..MaxMinute, BeginCounters(t)
      PROVE  Gathered'
  <2>0. PICK samples : Begin("cntr", t, samples)
    BY <1>2 DEF BeginCounters
  <2>1. batch' = [number |-> begun', type |-> "cntr", timestamp |-> t, samples |-> samples]
    BY <2>0 DEF Begin
  <2> QED BY <2>1 DEF Gathered
<1>3. ASSUME NEW t \in Tails, ReadFlow(t)
      PROVE  Gathered'
  <2>1. /\ phase = "read" /\ cursor < Len(batch.samples) /\ batch.type = "flow"
        /\ ProcessSample(batch.samples[cursor + 1], t)
        /\ cursor' = cursor + 1 /\ phase' = phase /\ batch' = batch
    BY <1>3 DEF ReadFlow, Unread
  <2>2. ConvTypeOK /\ batch.samples \in Seq(Frames) /\ cursor \in 0..Len(batch.samples)
    BY <2>1, TypesParts DEF ProcessTyped, WorkTyped
  <2>3. GatheredIn(conv, batch.samples, cursor)
    BY <2>1 DEF Gathered
  <2>4. PICK s : s = batch.samples
    OBVIOUS
  <2>5. PICK n : n = cursor
    OBVIOUS
  <2>6. GatheredIn(conv', s, n + 1)
    BY <2>1, <2>2, <2>3, <2>4, <2>5, ReadGathers
  <2>7. batch'.samples = s /\ cursor' = n + 1 /\ phase' = "read"
    BY <2>1, <2>4, <2>5
  <2> QED BY <2>6, <2>7 DEF Gathered
<1>4. CASE FlowRead
  <2>1. /\ phase = "read" /\ cursor = Len(batch.samples) /\ phase' = "mysql"
        /\ UNCHANGED <<conv, batch>>
    BY <1>4 DEF FlowRead, AllRead
  <2> QED BY <2>1 DEF Gathered
<1>5. CASE ReadCounter \/ CountersRead \/ StoreCsv \/ CsvDone
  <2>1. batch' = batch /\ batch.type # "flow"
    BY <1>5, TypesParts DEF ReadCounter, CountersRead, StoreCsv, CsvDone, WorkTyped
  <2> QED BY <2>1 DEF Gathered
<1>6. CASE (\E k \in Kinds : Create(k) \/ Drop(k)) \/ InsertBulk \/ InsertRest
           \/ \E l \in Layers : StoreConversations(l)
  <2>1. UNCHANGED <<conv, batch>>
    BY <1>6 DEF Create, Drop, InsertBulk, InsertRest, StoreConversations
  <2>2. phase' \in {"read", "mysql"} => phase' = phase /\ (phase = "read" => cursor' = cursor)
    <3>1. ASSUME NEW k \in Kinds, Create(k)
          PROVE  phase' = phase /\ cursor' = cursor
      BY <3>1 DEF Create
    <3>2. ASSUME NEW k \in Kinds, Drop(k)
          PROVE  (phase' = phase \/ phase' \in {"start", "idle"}) /\ cursor' = cursor
      BY <3>2 DEF Drop
    <3>3. ASSUME InsertBulk \/ InsertRest \/ \E l \in Layers : StoreConversations(l)
          PROVE  phase = "mysql" /\ (phase' = phase \/ phase' = "idle")
      BY <3>3 DEF InsertBulk, InsertRest, StoreConversations, TableDone, Ready
    <3> QED BY <1>6, <3>1, <3>2, <3>3
  <2> QED BY <2>1, <2>2 DEF Gathered
<1>7. CASE Start \/ Crash \/ Tick
  BY <1>7 DEF Start, Crash, Tick, Gathered
<1>8. CASE UNCHANGED vars
  BY <1>8 DEF vars, Gathered
<1> QED BY <1>1, <1>2, <1>3, <1>4, <1>5, <1>6, <1>7, <1>8 DEF Next

\* The conversations of the batch in work are stored.
LEMMA HeldStored ==
  ASSUME CountersInv, Gathered, NEW l \in Layers, StoreConversations(l), batch.type = "flow",
         Kept >= Day, Day % mysql.interval = 0, NoRows(db[l], batch.number)
  PROVE  Held(db'[l], l, batch)
<1> DEFINE T == db[l]
           x == current[l].day
           c == Conversations(l)
           rows == ConversationRows(l)
           t == DayOf(stamp)
           s == batch.samples
<1>1. TypesInv /\ ConvTypeOK /\ Ready(l) /\ phase = "mysql" /\ l \in Kinds
  BY TypesParts, LayersAreKinds DEF CountersInv, StoreConversations, Ready
<1>2. s \in Seq(Frames) /\ batch.timestamp = stamp
  BY <1>1, TypesParts DEF CountersInv, WorkTyped, ClockInv, Working
<1>3. c \in Seq(Conversation)
  BY <1>1, ConversationsType
<1>4. Accounts(c, l, s, Mine(l, s, Len(s)))
  BY <1>1, <1>2, GatheredAccounts DEF Gathered
<1>5. rows \in Seq(Row)
  BY <1>1, ConversationRowsType
<1>6. DOMAIN rows = DOMAIN c /\ \A j \in DOMAIN rows : RowFor(rows[j], batch.number, c[j])
  <2> HIDE DEF c
  <2>1. DOMAIN c = 1..Len(c)
    BY <1>3
  <2> QED BY <2>1 DEF ConversationRows, RowFor, c
<1>7. x \in DOMAIN T /\ t <= x
  BY <1>1, TableForRows
<1>8. T[x] \in Seq(Row) /\ x \in Int
  BY <1>1, <1>7, TablesType
<1>9. db'[l] = With(T, x, T[x] \o rows)
  <2>1. Load(l, rows)
    BY DEF StoreConversations, ConversationRows
  <2> HIDE DEF rows
  <2> QED BY <1>1, <1>7, <2>1, LoadedTables
<1> HIDE DEF T, x, c, rows, t
<1>10. Len(T[x]) \in Nat /\ Block(With(T, x, T[x] \o rows), batch.number, c, t, x, Len(T[x]))
  BY <1>5, <1>6, <1>7, <1>8, BlockLoaded DEF T
<1> QED BY <1>2, <1>3, <1>4, <1>8, <1>9, <1>10 DEF Held, t

\* The conversations of a recent finished batch are in the tables of every layer, and
\* those of the batch in work in the tables that were stored, if a day or more is kept.
FinishedHeld ==
  \A k \in DOMAIN batches :
    Recent(batches[k]) /\ batches[k].type = "flow" => \A l \in Layers : Held(db[l], l, batches[k])

LayerHeld(l) ==
  IF phase = "mysql" /\ l \notin Range(todo) THEN Held(db[l], l, batch) ELSE NoRows(db[l], batch.number)

WorkHeld ==
  Day % mysql.interval = 0 /\ Kept >= Day /\ Working /\ batch.type = "flow" =>
    \A l \in Layers : LayerHeld(l)

\* No table is to be stored twice.
TodoDiffers == phase = "mysql" => IsInjective(todo)

ConversationsInv == CountersInv /\ TodoDiffers /\ Gathered /\ FinishedHeld /\ WorkHeld

LEMMA AllToDo == IsInjective(FlowTables) /\ Layers \subseteq Range(FlowTables) /\ IsInjective(<<"counters">>)
<1>1. /\ DOMAIN FlowTables = 1..4 /\ FlowTables[1] = "ethernet" /\ FlowTables[2] = "ip"
      /\ FlowTables[3] = "tcp" /\ FlowTables[4] = "udp"
  BY DEF FlowTables
<1>2. \A i \in 1..4 : i = 1 \/ i = 2 \/ i = 3 \/ i = 4
  OBVIOUS
<1>3. IsInjective(FlowTables)
  BY <1>1, <1>2 DEF IsInjective
<1>4. 1 \in 1..4 /\ 2 \in 1..4 /\ 3 \in 1..4 /\ 4 \in 1..4
  OBVIOUS
<1>5. \A x \in {"ethernet", "ip", "tcp", "udp"} : \E i \in DOMAIN FlowTables : FlowTables[i] = x
  BY <1>1, <1>4
<1>6. IsInjective(<<"counters">>)
  BY DEF IsInjective
<1> QED BY <1>3, <1>5, <1>6 DEF Layers, Range

\* What is left to do after a table is the rest.
LEMMA RestToDo ==
  ASSUME TypesInv, TodoDiffers, phase = "mysql"
  PROVE  /\ Len(todo) \in Nat \ {0} /\ Head(todo) \in Range(todo)
         /\ IsInjective(Tail(todo)) /\ Head(todo) \notin Range(Tail(todo))
         /\ Range(todo) = Range(Tail(todo)) \cup {Head(todo)}
         /\ ~(Len(todo) > 1) => Range(Tail(todo)) = {}
<1>1. todo \in Seq(Kinds) /\ todo # <<>>
  BY TypesParts DEF ProcessTyped
<1>2. /\ Len(todo) \in Nat \ {0} /\ Tail(todo) \in Seq(Kinds) /\ Len(Tail(todo)) = Len(todo) - 1
      /\ Head(todo) \in Range(todo)
      /\ Range(todo) = Range(Tail(todo)) \cup {Head(todo)}
      /\ IsInjective(todo) => IsInjective(Tail(todo)) /\ Head(todo) \notin Range(Tail(todo))
  BY <1>1, RestOfTables, TailElements
<1>3. ASSUME ~(Len(todo) > 1) PROVE Range(Tail(todo)) = {}
  <2>1. Len(Tail(todo)) = 0
    BY <1>2, <1>3
  <2>2. \A r \in Seq(Kinds) : Len(r) = 0 => DOMAIN r = {}
    OBVIOUS
  <2>3. DOMAIN Tail(todo) = {}
    BY <1>2, <2>1, <2>2
  <2> QED BY <2>3 DEF Range
<1> QED BY <1>2, <1>3 DEF TodoDiffers

LEMMA StepTodo ==
  ASSUME TypesInv, TodoDiffers, [Next]_vars
  PROVE  TodoDiffers'
<1>1. CASE FlowRead \/ CsvDone
  BY <1>1, AllToDo DEF FlowRead, CsvDone, TodoDiffers
<1>2. ASSUME InsertRest \/ \E l \in Layers : StoreConversations(l)
      PROVE  TodoDiffers'
  <2>1. phase = "mysql" /\ todo' = Tail(todo)
    BY <1>2 DEF InsertRest, StoreConversations, Ready, TableDone
  <2> QED BY <2>1, RestToDo DEF TodoDiffers
<1>3. ASSUME NEW k \in Kinds, Create(k) \/ Drop(k)
      PROVE  TodoDiffers'
  <2>1. (phase' = phase /\ todo' = todo) \/ phase' \in {"start", "idle"}
    BY <1>3 DEF Create, Drop
  <2> QED BY <2>1 DEF TodoDiffers
<1>4. ASSUME NEW t \in Epoch..MaxMinute, BeginFlow(t) \/ BeginCounters(t)
      PROVE  TodoDiffers'
  BY <1>4 DEF BeginFlow, BeginCounters, Begin, TodoDiffers
<1>5. CASE (\E t \in Tails : ReadFlow(t)) \/ ReadCounter \/ CountersRead \/ StoreCsv \/ InsertBulk
           \/ Start \/ Crash \/ Tick \/ UNCHANGED vars
  BY <1>5 DEF ReadFlow, ReadCounter, CountersRead, StoreCsv, InsertBulk, Start, Crash, Tick, Unread, AllRead,
              TodoDiffers, vars
<1> QED BY <1>1, <1>2, <1>3, <1>4, <1>5 DEF Next

LEMMA NoRowsKept ==
  ASSUME TypesInv, TablesInv, [Next]_vars, NEW l \in Layers, ~StoreConversations(l), NEW n, NoRows(db[l], n)
  PROVE  NoRows(db'[l], n)
<1> DEFINE T == db[l]
           U == db'[l]
<1>1. l \in Kinds /\ l # "counters"
  BY LayersAreKinds
<1>2. CASE U = T
  BY <1>2
<1>3. CASE Create(l) /\ U # T
  <2>1. PICK e : e \notin DOMAIN T /\ U = With(T, e, <<>>)
    BY <1>1, <1>3, CreatedTables
  <2> HIDE DEF T, U
  <2>2. DOMAIN <<>> = {}
    OBVIOUS
  <2>3. \A x \in DOMAIN U : U[x] = <<>> \/ (x \in DOMAIN T /\ U[x] = T[x])
    BY <2>1 DEF With
  <2> QED BY <2>2, <2>3 DEF NoRows, T, U
<1>4. CASE Drop(l)
  <2>1. U = Without(T, expired)
    BY <1>1, <1>4, DroppedTables
  <2>2. DOMAIN U = DOMAIN T \ {expired} /\ \A x \in DOMAIN T \ {expired} : U[x] = T[x]
    BY <2>1, WithoutTables, WithoutRows
  <2> QED BY <2>2 DEF NoRows
<1> QED BY <1>1, <1>2, <1>3, <1>4, TablesStep

\* Who stores the last table.
LEMMA FlowStored ==
  ASSUME CountersInv, TodoDiffers, NEW l \in Layers, StoreConversations(l)
  PROVE  /\ phase = "mysql" /\ Working /\ l = Head(todo) /\ batch.type = "flow"
         /\ batch.timestamp = stamp /\ stamp <= now /\ UNCHANGED <<batch, stamp>> /\ todo' = Tail(todo)
<1>1. phase = "mysql" /\ l = Head(todo) /\ UNCHANGED <<batch, stamp>> /\ todo' = Tail(todo)
  BY DEF StoreConversations, Ready, TableDone
<1>2. batch.type # "cntr"
  <2> SUFFICES ASSUME batch.type = "cntr" PROVE FALSE
    OBVIOUS
  <2>1. todo = <<"counters">>
    BY <1>1, TypesParts DEF CountersInv, WorkTyped
  <2> QED BY <1>1, <2>1, LayersAreKinds
<1>3. batch.type = "flow"
  BY <1>2, ProcessFields DEF CountersInv
<1> QED BY <1>1, <1>3 DEF CountersInv, ClockInv, Working

\* What is held of the batch in work goes on being held.
LEMMA LayerKept ==
  ASSUME ConversationsInv, [Next]_vars, NEW l \in Layers, ~StoreConversations(l), LayerHeld(l), Working,
         Kept >= Day
  PROVE  /\ phase = "mysql" /\ l \notin Range(todo) => Held(db'[l], l, batch)
         /\ ~(phase = "mysql" /\ l \notin Range(todo)) => NoRows(db'[l], batch.number)
<1>1. /\ stamp \in Nat /\ Kept \in Nat /\ Day \in Nat \ {0} /\ batch.timestamp = stamp
  BY ProcessFields, KeptType, MysqlAssumption DEF ConversationsInv, CountersInv, ClockInv
<1>2. ASSUME expired # NoDay, phase \in {"start", "mysql"}
      PROVE  expired < DayOf(stamp)
  <2>1. expired = DayOf(stamp - Kept)
    BY <1>2 DEF ConversationsInv, CountersInv, ClockInv
  <2> QED BY <1>1, <2>1, EarlierDay
<1>3. CASE phase = "mysql" /\ l \notin Range(todo)
  <2>1. Held(db[l], l, batch)
    BY <1>3 DEF LayerHeld
  <2>2. CountersInv
    BY DEF ConversationsInv
  <2> QED BY <1>1, <1>2, <1>3, <2>1, <2>2, HeldKept
<1>4. CASE ~(phase = "mysql" /\ l \notin Range(todo))
  <2>1. NoRows(db[l], batch.number)
    BY <1>4 DEF LayerHeld
  <2> QED BY <1>4, <2>1, NoRowsKept DEF ConversationsInv, CountersInv
<1> QED BY <1>3, <1>4

\* The tables of the batch in work after the conversations of one layer were stored.
LEMMA LayerStored ==
  ASSUME ConversationsInv, [Next]_vars, NEW k \in Layers, StoreConversations(k), NEW l \in Layers,
         Day % mysql.interval = 0, Kept >= Day
  PROVE  IF l \notin Range(Tail(todo)) THEN Held(db'[l], l, batch) ELSE NoRows(db'[l], batch.number)
<1>1. phase = "mysql" /\ Working /\ k = Head(todo) /\ batch.type = "flow"
  BY FlowStored DEF ConversationsInv
<1>2. /\ Head(todo) \in Range(todo) /\ Head(todo) \notin Range(Tail(todo))
      /\ Range(todo) = Range(Tail(todo)) \cup {Head(todo)}
  BY <1>1, RestToDo DEF ConversationsInv, CountersInv
<1>3. LayerHeld(l) /\ LayerHeld(k)
  BY <1>1 DEF ConversationsInv, WorkHeld
<1>4. CASE l = k
  <2>1. NoRows(db[k], batch.number)
    BY <1>1, <1>2, <1>3 DEF LayerHeld
  <2>2. Held(db'[k], k, batch)
    BY <1>1, <2>1, HeldStored DEF ConversationsInv
  <2> QED BY <1>1, <1>2, <1>4, <2>2
<1>5. CASE l # k
  <2>1. ~StoreConversations(l)
    BY <1>1, <1>5 DEF StoreConversations, Ready
  <2>2. l \in Range(todo) <=> l \in Range(Tail(todo))
    BY <1>1, <1>2, <1>5
  <2> QED BY <1>1, <1>3, <2>1, <2>2, LayerKept
<1> QED BY <1>4, <1>5

LEMMA StepWorkHeld ==
  ASSUME ConversationsInv, [Next]_vars
  PROVE  WorkHeld'
<1>0. CountersInv /\ TypesInv /\ mysql' = mysql /\ Kept' = Kept
  BY SettingsStep DEF ConversationsInv, CountersInv
<1> SUFFICES ASSUME Day % mysql.interval = 0, Kept >= Day, Working', batch'.type = "flow", NEW l \in Layers
             PROVE  IF phase' = "mysql" /\ l \notin Range(todo') THEN Held(db'[l], l, batch')
                    ELSE NoRows(db'[l], batch'.number)
  BY <1>0 DEF WorkHeld, LayerHeld, NoRows, Held, Block, Accounts, Balanced, Mine, DayOf
<1> DEFINE Goal == IF phase' = "mysql" /\ l \notin Range(todo') THEN Held(db'[l], l, batch')
                   ELSE NoRows(db'[l], batch'.number)
<1>1. ASSUME Working, batch' = batch,
             phase' = "mysql" /\ l \notin Range(todo') <=> phase = "mysql" /\ l \notin Range(todo),
             ~StoreConversations(l)
      PROVE  Goal
  <2>1. LayerHeld(l)
    BY <1>1 DEF ConversationsInv, WorkHeld
  <2> QED BY <1>1, <2>1, LayerKept
<1>2. ASSUME NEW t \in Epoch..MaxMinute, BeginFlow(t) \/ BeginCounters(t)
      PROVE  Goal
  <2>0. PICK type : \E samples : Begin(type, t, samples)
    BY <1>2 DEF BeginFlow, BeginCounters
  <2>1. PICK samples : Begin(type, t, samples)
    BY <2>0
  <2>2. /\ phase' = "read" /\ begun' = begun + 1 /\ db' = db
        /\ batch' = [number |-> begun', type |-> type, timestamp |-> t, samples |-> samples]
    BY <2>1 DEF Begin, tableVars
  <2>3. batch'.number = begun + 1 /\ begun \in Nat
    BY <1>0, <2>2, TypesParts, StorageAssumption DEF ProcessTyped
  <2>4. \A d \in DOMAIN db[l] : \A i \in DOMAIN db[l][d] :
          db[l][d][i].batch <= begun /\ db[l][d][i].batch \in Nat
    BY <1>0, TablesType, LayersAreKinds DEF CountersInv, NumbersInv
  <2>5. \A d \in DOMAIN db[l] : \A i \in DOMAIN db[l][d] : db[l][d][i].batch # begun + 1
    BY <2>3, <2>4
  <2>6. NoRows(db'[l], batch'.number)
    BY <2>2, <2>3, <2>5 DEF NoRows
  <2> QED BY <2>2, <2>6
<1>3. CASE \E t \in Tails : ReadFlow(t)
  <2>1. Working /\ phase = "read" /\ phase' = "read" /\ batch' = batch
    BY <1>3 DEF ReadFlow, Unread, Working
  <2>2. ~StoreConversations(l)
    BY <2>1 DEF StoreConversations, Ready
  <2> QED BY <1>1, <2>1, <2>2
<1>4. CASE FlowRead
  <2>1. Working /\ phase = "read" /\ phase' = "mysql" /\ batch' = batch /\ todo' = FlowTables
    BY <1>4 DEF FlowRead, AllRead, Working
  <2>2. ~StoreConversations(l)
    BY <2>1 DEF StoreConversations, Ready
  <2>3. l \in Range(todo')
    BY <2>1, AllToDo
  <2> QED BY <1>1, <2>1, <2>2, <2>3
<1>5. CASE ReadCounter \/ CountersRead \/ StoreCsv \/ CsvDone
  <2>1. batch' = batch /\ batch.type # "flow"
    BY <1>0, <1>5, TypesParts DEF ReadCounter, CountersRead, StoreCsv, CsvDone, WorkTyped
  <2> QED BY <2>1
<1>6. CASE InsertBulk \/ InsertRest
  <2>1. batch' = batch /\ batch.type # "flow"
    BY <1>0, <1>6, CountersBatch DEF InsertBulk, InsertRest
  <2> QED BY <2>1
<1>7. ASSUME NEW k \in Kinds, Create(k) \/ Drop(k)
      PROVE  Goal
  <2>1. /\ phase \in {"start", "mysql"} /\ batch' = batch
        /\ (phase' = phase /\ todo' = todo) \/ phase' \in {"idle", "start"}
    <3>1. CASE Create(k)
      BY <3>1 DEF Create
    <3>2. CASE Drop(k)
      <4>1. expired # NoDay
        BY <3>2 DEF Drop, DropExpired
      <4>2. phase \in {"start", "mysql"}
        BY <1>0, <4>1 DEF CountersInv, TablesInv, DropIsOlder
      <4> QED BY <3>2, <4>2 DEF Drop
    <3> QED BY <1>7, <3>1, <3>2
  <2>2. phase = "mysql" /\ phase' = "mysql" /\ todo' = todo /\ Working
    BY <2>1 DEF Working
  <2>3. ~StoreConversations(l)
    <3>1. Create(k) => k = Head(todo) /\ Due(k, stamp)
      BY <2>2 DEF Create
    <3>2. Drop(k) => expired # NoDay
      BY DEF Drop, DropExpired
    <3>3. StoreConversations(l) => l = Head(todo) /\ ~Due(l, stamp) /\ expired = NoDay
      BY DEF StoreConversations, Ready
    <3> QED BY <1>7, <3>1, <3>2, <3>3
  <2> QED BY <1>1, <2>1, <2>2, <2>3
<1>8. ASSUME NEW k \in Layers, StoreConversations(k)
      PROVE  Goal
  <2>1. phase = "mysql" /\ batch' = batch /\ todo' = Tail(todo)
    BY <1>0, <1>8, FlowStored DEF ConversationsInv
  <2>2. phase' = "mysql"
    BY <1>8, <2>1 DEF StoreConversations, TableDone, Working
  <2>3. IF l \notin Range(Tail(todo)) THEN Held(db'[l], l, batch) ELSE NoRows(db'[l], batch.number)
    BY <1>8, LayerStored
  <2> QED BY <2>1, <2>2, <2>3
<1>9. CASE Start \/ Crash \/ Tick
  <2>1. ~Working'
    BY <1>9 DEF Start, Crash, Tick, Working
  <2> QED BY <2>1
<1>10. CASE UNCHANGED vars
  <2>1. UNCHANGED <<phase, batch, todo>> /\ db' = db
    BY <1>10 DEF vars, tableVars
  <2>2. LayerHeld(l)
    BY <2>1 DEF ConversationsInv, WorkHeld, Working
  <2> QED BY <2>1, <2>2 DEF LayerHeld
<1> QED BY <1>2, <1>3, <1>4, <1>5, <1>6, <1>7, <1>8, <1>9, <1>10 DEF Next

LEMMA StepFinishedHeld ==
  ASSUME ConversationsInv, [Next]_vars
  PROVE  FinishedHeld'
<1>1. /\ mysql' = mysql /\ Kept' = Kept /\ now \in Nat /\ now' \in Nat /\ now <= now'
      /\ Kept \in Nat /\ Day \in Nat \ {0} /\ CountersInv
  BY SettingsStep, ProcessFields, KeptType, MysqlAssumption DEF ConversationsInv, CountersInv
<1> SUFFICES ASSUME NEW k \in DOMAIN batches', batches'[k].type = "flow", Day % mysql.interval = 0,
                    now' - batches'[k].timestamp <= Kept - Day, NEW l \in Layers
             PROVE  Held(db'[l], l, batches'[k])
  BY <1>1 DEF FinishedHeld, Held, Block, Accounts, Balanced, Mine, DayOf, Recent
<1>2. batches \in Seq(Batch) /\ batch \in Batch
  BY TypesParts DEF ConversationsInv, CountersInv, ProcessTyped
<1>3. ASSUME NEW b, b = batches'[k], k \in DOMAIN batches, batches[k] = b
      PROVE  Held(db'[l], l, b)
  <2>1. b \in Batch
    BY <1>2, <1>3
  <2>2. b.timestamp \in Nat /\ now - b.timestamp <= Kept - Day /\ b.type = "flow"
    BY <1>1, <1>3, <2>1, BatchFields
  <2>3. Held(db[l], l, b)
    BY <1>3, <2>2 DEF ConversationsInv, FinishedHeld, Recent
  <2>4. StoreConversations(l) => b.number # batch.number
    <3>1. StoreConversations(l) => Working
      BY DEF StoreConversations, Ready, Working
    <3>2. Working => batch.number = begun /\ b.number < begun
      BY <1>1, <1>3 DEF CountersInv, NumbersInv
    <3>3. begun \in Int /\ b.number \in Int
      BY <1>1, <2>1, BatchFields, TypesParts, StorageAssumption DEF CountersInv, ProcessTyped
    <3> QED BY <3>1, <3>2, <3>3
  <2>5. expired # NoDay /\ phase \in {"start", "mysql"} => expired < DayOf(b.timestamp)
    BY <1>1, <2>2, DroppedIsOld
  <2> QED BY <1>1, <2>2, <2>3, <2>4, <2>5, HeldKept
<1>4. CASE batches' = batches
  BY <1>3, <1>4
<1>5. CASE batches' # batches
  <2>1. /\ batches' = Append(batches, batch) /\ phase = "mysql" /\ phase' = "idle"
        /\ InsertRest \/ \E j \in Layers : StoreConversations(j)
    BY <1>1, <1>5, BatchesStep DEF CountersInv
  <2>2. (k \in DOMAIN batches /\ batches'[k] = batches[k]) \/ batches'[k] = batch
    BY <1>2, <2>1, AppendedBatch
  <2>3. ASSUME batches'[k] = batch
        PROVE  Held(db'[l], l, batch)
    <3>1. batch.type = "flow"
      BY <2>3
    <3>2. ~InsertRest
      BY <1>1, <3>1, CountersBatch DEF CountersInv, InsertRest
    <3>3. PICK j \in Layers : StoreConversations(j)
      BY <2>1, <3>2
    <3>4. ~(Len(todo) > 1)
      BY <2>1, <3>3 DEF StoreConversations, TableDone
    <3>5. Range(Tail(todo)) = {}
      BY <1>1, <2>1, <3>4, RestToDo DEF ConversationsInv, CountersInv
    <3>6. batch.timestamp \in Nat /\ batch.timestamp <= now
      BY <1>1, <1>2, <3>3, FlowStored, BatchFields DEF ConversationsInv
    <3>7. Kept >= Day
      BY <1>1, <2>3, <3>6
    <3> QED BY <3>3, <3>5, <3>7, LayerStored
  <2> QED BY <1>3, <2>2, <2>3
<1> QED BY <1>4, <1>5

\* The rows of a batch on a layer are one for each of its conversations.
LEMMA BlockRows ==
  ASSUME NEW l, NEW b, NEW c \in Seq(Conversation), NEW t, NEW d \in Int, NEW m \in Nat,
         Block(db[l], b.number, c, t, d, m)
  PROVE  \E h \in Bijection(DOMAIN c, RowsOf(l, b)) :
           \A i \in DOMAIN c : RowFor(db[l][h[i][1]][h[i][2]], b.number, c[i])
<1> DEFINE T == db[l]
           R == RowsOf(l, b)
           h == [i \in DOMAIN c |-> <<d, m + i>>]
<1>1. \A i \in DOMAIN c : i \in Nat
  OBVIOUS
<1>2. \A i \in DOMAIN c : h[i] = <<d, m + i>> /\ h[i][1] = d /\ h[i][2] = m + i
  OBVIOUS
<1>3. \A i \in DOMAIN c : h[i] \in R /\ RowFor(T[h[i][1]][h[i][2]], b.number, c[i])
  <2> SUFFICES ASSUME NEW i \in DOMAIN c
               PROVE  h[i] \in R /\ RowFor(T[h[i][1]][h[i][2]], b.number, c[i])
    OBVIOUS
  <2>1. d \in DOMAIN T /\ m + i \in DOMAIN T[d] /\ RowFor(T[d][m + i], b.number, c[i])
    BY DEF Block
  <2>2. <<d, m + i>> \in {d} \X DOMAIN T[d]
    BY <2>1
  <2>3. <<d, m + i>> \in UNION {{e} \X DOMAIN T[e] : e \in DOMAIN T}
    BY <2>1, <2>2
  <2> HIDE DEF h
  <2> QED BY <1>2, <2>1, <2>3 DEF RowsOf, RowFor
<1>4. \A x \in R : \E i \in DOMAIN c : h[i] = x
  <2> SUFFICES ASSUME NEW x \in R
               PROVE  \E i \in DOMAIN c : h[i] = x
    OBVIOUS
  <2>1. x \in UNION {{e} \X DOMAIN T[e] : e \in DOMAIN T} /\ T[x[1]][x[2]].batch = b.number
    BY DEF RowsOf
  <2>2. PICK e \in DOMAIN T : x \in {e} \X DOMAIN T[e]
    BY <2>1
  <2>3. x[1] = e /\ x[2] \in DOMAIN T[e] /\ x = <<e, x[2]>>
    BY <2>2
  <2>4. e = d /\ \E i \in DOMAIN c : x[2] = m + i
    BY <2>1, <2>2, <2>3 DEF Block
  <2>5. PICK i \in DOMAIN c : x[2] = m + i
    BY <2>4
  <2> HIDE DEF h
  <2> QED BY <1>2, <2>3, <2>4, <2>5
<1>5. \A i, j \in DOMAIN c : h[i] = h[j] => i = j
  <2> SUFFICES ASSUME NEW i \in DOMAIN c, NEW j \in DOMAIN c, h[i] = h[j] PROVE i = j
    OBVIOUS
  <2>1. m + i = m + j
    BY <1>2
  <2> QED BY <1>1, <2>1
<1>6. DOMAIN h = DOMAIN c /\ h = [i \in DOMAIN c |-> h[i]]
  OBVIOUS
<1> HIDE DEF h, R
<1>7. h \in [DOMAIN c -> R]
  BY <1>3, <1>6
<1>8. h \in Bijection(DOMAIN c, R)
  BY <1>4, <1>5, <1>7 DEF Bijection, Injection, Surjection, IsInjective
<1> QED BY <1>3, <1>8 DEF R

\* Those with one key are one for each of the conversations with it, and count as much.
LEMMA KeyRows ==
  ASSUME NEW c \in Seq(Conversation), NEW R, NEW h \in Bijection(DOMAIN c, R),
         NEW key, NEW rows, rows \subseteq R,
         \A i \in DOMAIN c : h[i] \in rows <=> c[i].key = key,
         NEW fr, NEW by,
         \A i \in DOMAIN c : h[i] \in rows => fr[h[i]] = c[i].frames /\ by[h[i]] = c[i].bytes
  PROVE  /\ FramesOf(c, key) = SumFunctionOnSet(fr, rows)
         /\ BytesOf(c, key) = SumFunctionOnSet(by, rows)
         /\ KeyPlaces(c, key) # {} /\ (\A i, k \in KeyPlaces(c, key) : i = k) => Cardinality(rows) = 1
<1> DEFINE P == KeyPlaces(c, key)
           g == [i \in P |-> h[i]]
           cf == [i \in DOMAIN c |-> c[i].frames]
           cb == [i \in DOMAIN c |-> c[i].bytes]
<1>1. /\ \A i \in DOMAIN c : h[i] \in R
      /\ \A i, j \in DOMAIN c : h[i] = h[j] => i = j
      /\ \A x \in R : \E i \in DOMAIN c : h[i] = x
  BY DEF Bijection, Injection, Surjection, IsInjective
<1>2. \A i : i \in P <=> i \in DOMAIN c /\ c[i].key = key
  BY DEF KeyPlaces
<1>3. \A i \in P : g[i] = h[i]
  OBVIOUS
<1>4. DOMAIN g = P /\ g = [i \in P |-> g[i]]
  OBVIOUS
<1>5. \A i \in DOMAIN c : cf[i] = c[i].frames /\ cb[i] = c[i].bytes /\ cf[i] \in Nat /\ cb[i] \in Nat
  BY ListFacts
<1>6. FramesOf(c, key) = SumFunctionOnSet(cf, P) /\ BytesOf(c, key) = SumFunctionOnSet(cb, P) /\ IsFiniteSet(P)
  BY ListFacts DEF FramesOf, BytesOf
<1> HIDE DEF P, g, cf, cb
<1>7. \A i \in P : g[i] \in rows
  BY <1>2, <1>3
<1>8. g \in [P -> rows]
  BY <1>4, <1>7
<1>9. \A x \in rows : \E i \in P : g[i] = x
  BY <1>1, <1>2, <1>3
<1>10. \A i, j \in P : g[i] = g[j] => i = j
  BY <1>1, <1>2, <1>3
<1>11. g \in Bijection(P, rows)
  BY <1>8, <1>9, <1>10 DEF Bijection, Injection, Surjection, IsInjective
<1>12. \A i \in P : cf[i] \in Nat /\ fr[g[i]] = cf[i] /\ cb[i] \in Nat /\ by[g[i]] = cb[i]
  BY <1>2, <1>3, <1>5, <1>7
<1>13. SumFunctionOnSet(cf, P) = SumFunctionOnSet(fr, rows)
  BY <1>6, <1>11, <1>12, SumRenamed
<1>14. SumFunctionOnSet(cb, P) = SumFunctionOnSet(by, rows)
  BY <1>6, <1>11, <1>12, SumRenamed
<1>15. ASSUME P # {}, \A i, k \in P : i = k
       PROVE  Cardinality(rows) = 1
  <2>1. PICK i \in P : \A k \in P : k = i
    BY <1>15
  <2>2. rows = {g[i]}
    BY <1>7, <1>9, <2>1
  <2>3. Cardinality({g[i]}) = 1
    BY FS_Singleton
  <2> QED BY <2>2, <2>3
<1> QED BY <1>6, <1>13, <1>14, <1>15 DEF P

\* Where a batch is held, its rows are its conversations and add up to its frames.
LEMMA HeldRows ==
  ASSUME NEW l \in Layers, NEW b, Held(db[l], l, b)
  PROVE  ConversationsStored(l, b)
<1> DEFINE row(x) == db[l][x[1]][x[2]]
           mine == {j \in DOMAIN b.samples : l \in LayersOf(b.samples[j])}
           keys == {KeyOf(l, b.samples[j]) : j \in mine}
           s == b.samples
           J == Mine(l, s, Len(s))
           R == RowsOf(l, b)
<1>1. s \in Seq(Frames) /\ Len(s) \in Nat /\ DOMAIN s = 1..Len(s)
  BY DEF Held
<1>2. PICK c \in Seq(Conversation) :
        Accounts(c, l, s, J) /\ \E d \in Int, m \in Nat : Block(db[l], b.number, c, DayOf(b.timestamp), d, m)
  BY DEF Held
<1>3. PICK h \in Bijection(DOMAIN c, R) : \A i \in DOMAIN c : RowFor(db[l][h[i][1]][h[i][2]], b.number, c[i])
  BY <1>2, BlockRows
<1>4. mine = J /\ J \subseteq DOMAIN s /\ IsFiniteSet(J)
  <2>1. mine = J
    BY <1>1 DEF Mine
  <2>2. Len(s) \in 0..Len(s)
    BY <1>1
  <2> QED BY <1>1, <2>1, <2>2, BucketFacts
<1>5. /\ \A i \in DOMAIN c : h[i] \in R
      /\ \A x \in R : \E i \in DOMAIN c : h[i] = x
  BY DEF Bijection, Injection, Surjection
<1>6. \A i \in DOMAIN c :
        row(h[i]).key = c[i].key /\ row(h[i]).frames = c[i].frames /\ row(h[i]).bytes = c[i].bytes
  BY <1>3 DEF RowFor
<1> HIDE DEF R, J, mine, s
<1>7. {row(x).key : x \in R} = keys
  <2>1. \A x \in R : row(x).key \in keys
    <3> SUFFICES ASSUME NEW x \in R PROVE row(x).key \in keys
      OBVIOUS
    <3>1. PICK i \in DOMAIN c : h[i] = x
      BY <1>5
    <3>2. PICK j \in J : c[i].key = KeyOf(l, s[j])
      BY <1>2 DEF Accounts
    <3> QED BY <1>4, <1>6, <3>1, <3>2 DEF s
  <2>2. ASSUME NEW j \in J
        PROVE  \E x \in R : row(x).key = KeyOf(l, s[j])
    <3>1. PICK i \in DOMAIN c : c[i].key = KeyOf(l, s[j])
      BY <1>2 DEF Accounts, KeyPlaces
    <3> QED BY <1>5, <1>6, <3>1
  <2>3. \A k \in keys : \E x \in R : row(x).key = k
    BY <1>4, <2>2 DEF s
  <2> HIDE DEF keys, row
  <2> QED BY <2>1, <2>3
<1>8. ASSUME NEW key \in keys
      PROVE  LET rows == {x \in R : row(x).key = key}
                 samples == {j \in mine : KeyOf(l, b.samples[j]) = key}
             IN /\ l # "ip" => Cardinality(rows) = 1
                /\ SumFunction([x \in rows |-> row(x).frames]) % Word = Cardinality(samples) % Word
                /\ SumFunction([x \in rows |-> row(x).bytes]) % Word
                     = SumFunction([j \in samples |-> b.samples[j].length]) % Word
  <2> DEFINE rows == {x \in R : row(x).key = key}
             samples == {j \in mine : KeyOf(l, b.samples[j]) = key}
             P == KeyPlaces(c, key)
             fr == [x \in rows |-> row(x).frames]
             by == [x \in rows |-> row(x).bytes]
             len == [j \in samples |-> b.samples[j].length]
  <2>1. samples = SamplesWith(l, s, J, key)
    BY <1>4 DEF SamplesWith, s
  <2>2. PICK j \in J : key = KeyOf(l, s[j])
    BY <1>4 DEF s
  <2>3. P # {} /\ Balanced(c, l, s, J, key)
    BY <1>2, <2>2 DEF Accounts
  <2>4. l # "ip" => \A i, k \in P : i = k
    BY <1>2 DEF Accounts, KeyPlaces
  <2>5. \A i \in DOMAIN c : h[i] \in rows <=> c[i].key = key
    BY <1>5, <1>6
  <2>6. rows \subseteq R
    OBVIOUS
  <2>7. \A i \in DOMAIN c : h[i] \in rows => fr[h[i]] = c[i].frames /\ by[h[i]] = c[i].bytes
    BY <1>6
  <2> HIDE DEF rows, samples, fr, by
  <2>8. /\ FramesOf(c, key) = SumFunctionOnSet(fr, rows)
        /\ BytesOf(c, key) = SumFunctionOnSet(by, rows)
        /\ P # {} /\ (\A i, k \in P : i = k) => Cardinality(rows) = 1
    <3> HIDE DEF keys, row
    <3>1. PICK q : q = rows
      OBVIOUS
    <3>2. PICK f1 : f1 = fr
      OBVIOUS
    <3>3. PICK f2 : f2 = by
      OBVIOUS
    <3>4. /\ q \subseteq R /\ \A i \in DOMAIN c : h[i] \in q <=> c[i].key = key
          /\ \A i \in DOMAIN c : h[i] \in q => f1[h[i]] = c[i].frames /\ f2[h[i]] = c[i].bytes
      BY <2>5, <2>6, <2>7, <3>1, <3>2, <3>3
    <3>5. /\ FramesOf(c, key) = SumFunctionOnSet(f1, q)
          /\ BytesOf(c, key) = SumFunctionOnSet(f2, q)
          /\ P # {} /\ (\A i, k \in P : i = k) => Cardinality(q) = 1
      BY <3>4, KeyRows
    <3> QED BY <3>1, <3>2, <3>3, <3>5
  <2> HIDE DEF P
  <2>9. SumFunction(fr) = SumFunctionOnSet(fr, rows) /\ SumFunction(by) = SumFunctionOnSet(by, rows)
         /\ SumFunction(len) = SumFunctionOnSet(len, samples)
    BY DEF SumFunction, fr, by
  <2>10. LengthOf(s, samples) = SumFunctionOnSet(len, samples)
    <3> DEFINE f == [i \in DOMAIN s |-> s[i].length]
    <3>1. samples \subseteq J /\ IsFiniteSet(samples) /\ \A i \in J : s[i].length \in Nat
      BY <1>1, <1>4, <2>1, SampleFacts
    <3>2. \A i \in samples : f[i] \in Nat /\ f[i] = len[i]
      BY <1>4, <3>1 DEF s
    <3> HIDE DEF f, len
    <3>3. SumFunctionOnSet(f, samples) = SumFunctionOnSet(len, samples)
      BY <3>1, <3>2, SumSame
    <3> QED BY <3>3 DEF LengthOf, f
  <2>11. l # "ip" => Cardinality(rows) = 1
    BY <2>3, <2>4, <2>8
  <2> HIDE DEF len
  <2>12. /\ SumFunction(fr) % Word = Cardinality(samples) % Word
         /\ SumFunction(by) % Word = SumFunction(len) % Word
    BY <2>1, <2>3, <2>8, <2>9, <2>10 DEF Balanced, Alike
  <2> QED BY <2>11, <2>12 DEF rows, samples, fr, by, len
<1> QED BY <1>7, <1>8 DEF ConversationsStored, R, mine

LEMMA ConversationsAreStored ==
  ConversationsInv => RecentConversationsAreStored
BY HeldRows DEF ConversationsInv, FinishedHeld, RecentConversationsAreStored

LEMMA InitConversations ==
  Init => TodoDiffers /\ Gathered /\ FinishedHeld /\ WorkHeld
<1> SUFFICES ASSUME Init PROVE TodoDiffers /\ Gathered /\ FinishedHeld /\ WorkHeld
  OBVIOUS
<1>1. phase = "start" /\ batches = <<>> /\ DOMAIN batches = {}
  BY DEF Init
<1> QED BY <1>1 DEF TodoDiffers, Gathered, FinishedHeld, WorkHeld, Working

\* The tables of the four layers hold the conversations of every recent finished batch:
\* a row for each key its samples have on the layer, of IP perhaps more, which count all
\* its frames and bytes but for the wrapping of their counters.  Neither the buckets of
\* the hash tables (conv_list_add), the daily tables made and dropped on the way, nor
\* batches that an end of stprocessd cut off lose, repeat or mix up a sample.
THEOREM StorageConversations == Spec => []RecentConversationsAreStored
<1>1. Init => ConversationsInv
  BY InitTypes, InitTables, InitDay, InitClock, InitNumbers, InitCounters, InitConversations
     DEF ConversationsInv, CountersInv
<1>2. ConversationsInv /\ [Next]_vars => ConversationsInv'
  BY StepTypes, StepTables, StepDay, StepClock, StepNumbers, StepFinished, StepWork, StepTodo, StepGathered,
     StepFinishedHeld, StepWorkHeld DEF ConversationsInv, CountersInv
<1> QED BY <1>1, <1>2, ConversationsAreStored, PTL DEF Spec
=============================================================================
