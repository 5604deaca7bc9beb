------------------------------ MODULE MysqlTables ------------------------------
(***************************************************************************)
(* The tables of the mysql module (storage_mysql.c): one for each kind of  *)
(* rows and UTC day.  A new one is made when a timestamp is in a later     *)
(* interval than the one before, and the one that has expired is dropped.  *)
(* Times are minutes.  A statement of the database either works or leaves  *)
(* everything as it was, and nobody looks at the difference.               *)
(***************************************************************************)
EXTENDS Integers, Sequences, FiniteSets, Functions

CONSTANTS Day,        \* the minutes of a day
          Settings,   \* the settings of the module: interval and num_intervals
          NoDay       \* the day in an empty table name

ASSUME MysqlAssumption ==
  /\ Day \in Nat \ {0}
  /\ Settings \subseteq [interval : Nat \ {0}, num : Nat]
  /\ NoDay \notin Int

VARIABLES
  mysql,     \* storage_mysql_config
  db,        \* for each kind the tables that exist, by day, and their rows
  current,   \* for each kind the interval and day of the table to store into
  expired    \* the day whose table is to be dropped next, or NoDay

tableVars == <<mysql, db, current, expired>>

Kinds == {"ethernet", "ip", "tcp", "udp", "counters"}

NoTable == [partition |-> 0, day |-> NoDay]

MysqlInit ==
  /\ mysql \in Settings
  /\ db = [k \in Kinds |-> <<>>]
  /\ current = [k \in Kinds |-> NoTable]
  /\ expired = NoDay

DayOf(t) == t \div Day
PartitionOf(t) == t \div mysql.interval
Kept == mysql.interval * mysql.num

\* The first interval after that of the table does not count.
BugDue(k, t) == current[k].partition + 1 < PartitionOf(t)

\* The test at the start of each storage_mysql_store_*.
Due(k, t) == current[k].partition < PartitionOf(t)

Exists(k, d) == d \in DOMAIN db[k]

With(tables, d, rows) == [x \in DOMAIN tables \cup {d} |-> IF x = d THEN rows ELSE tables[x]]
Without(tables, d) == Restrict(tables, DOMAIN tables \ {d})

\* One interval too few is kept.
BugCreateTable(k, t) ==
  /\ db' = IF Exists(k, DayOf(t)) THEN db ELSE [db EXCEPT ![k] = With(@, DayOf(t), <<>>)]
  /\ current' = [current EXCEPT ![k] = [partition |-> PartitionOf(t), day |-> DayOf(t)]]
  /\ expired' = DayOf(t - mysql.interval * (mysql.num - 1))
  /\ UNCHANGED mysql

\* storage_mysql_create_* up to the names.
CreateTable(k, t) ==
  /\ db' = IF Exists(k, DayOf(t)) THEN db ELSE [db EXCEPT ![k] = With(@, DayOf(t), <<>>)]
  /\ current' = [current EXCEPT ![k] = [partition |-> PartitionOf(t), day |-> DayOf(t)]]
  /\ expired' = DayOf(t - Kept)
  /\ UNCHANGED mysql

\* Its DROP TABLE, which fails when there is no such table.
DropExpired(k) ==
  /\ expired # NoDay
  /\ db' = [db EXCEPT ![k] = Without(@, expired)]
  /\ expired' = NoDay
  /\ UNCHANGED <<mysql, current>>

\* LOAD DATA INFILE or INSERT into the table of that name, if it exists.
Load(k, rows) ==
  /\ db' = IF Exists(k, current[k].day)
           THEN [db EXCEPT ![k] = With(@, current[k].day, @[current[k].day] \o rows)]
           ELSE db
  /\ UNCHANGED <<mysql, current, expired>>

\* The name is forgotten when stprocessd ends; the tables are not.
Forget ==
  /\ current' = [k \in Kinds |-> NoTable]
  /\ expired' = NoDay
  /\ UNCHANGED <<mysql, db>>

-----------------------------------------------------------------------------

Table == [partition : Int, day : Int \cup {NoDay}]

\* A table's rows are whatever R is.
MysqlTypeOK(R) ==
  /\ mysql \in Settings
  /\ DOMAIN db = Kinds
  /\ \A k \in Kinds : DOMAIN db[k] \subseteq Int /\ \A d \in DOMAIN db[k] : db[k][d] \in Seq(R)
  /\ current \in [Kinds -> Table]
  /\ expired \in Int \cup {NoDay}

\* Unless fewer minutes are kept than a day has, the table to store into exists.
CurrentTableExists ==
  Kept >= Day => \A k \in Kinds : current[k].day # NoDay => Exists(k, current[k].day)
=============================================================================
