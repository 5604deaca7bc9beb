------------------------------ MODULE ConfigParser ------------------------------
(***************************************************************************)
(* parse_event of configparser.c: the events of the YAML parser drive a    *)
(* set of flags that both daemons keep while they read their common file.  *)
(* A file is given by what stands in it, item after item; the events of    *)
(* mappings change nothing and are left out.                               *)
(***************************************************************************)
EXTENDS AgentList, SequencesExt

CONSTANT Files   \* the configuration files considered, sequences of items

Daemons == {"stcollectd", "stprocessd"}
Storages == [storage_mysql |-> "mysql", storage_spectrum |-> "spectrum"]

\* The keys each section assigns.
Keys == [
  none       |-> {},
  stcollectd |-> {"loglevel", "port", "hash bits", "print interval", "flush interval",
                  "buffer size", "buffer num", "stats interval", "interface", "datadir",
                  "tmpdir", "msgqueue"},
  stprocessd |-> {"loglevel", "hash size", "stats interval", "datadir"},
  mysql      |-> {"enabled", "interval", "number of intervals", "username", "password",
                  "database", "hostname", "tmpdir"},
  spectrum   |-> {"enabled", "interval", "hash bits", "datadir"}]

SectionNames == Daemons \cup DOMAIN Storages
KnownKeys == UNION {Keys[s] : s \in DOMAIN Keys}

\* An entry of the list of agents, and the items of a file; "outer" stands where
\* a nested section ends.  The parser tells a section by its name alone, wherever
\* it stands, and may take an agent's name for a key: such names are left out.
Entry == [name : Texts \ (SectionNames \cup KnownKeys), addresses : Seq(Addresses) \ {<<>>}]

FileItem ==
  [kind : {"section"}, name : SectionNames]
    \cup [kind : {"outer"}]
    \cup [kind : {"setting"}, key : Texts \ (SectionNames \cup {"agents"}), num : Nat]
    \cup [kind : {"agents"}, list : Seq(Entry)]

\* The section that the items behind item x stand in.
Opens(x) ==
  IF x.kind = "outer" THEN "stprocessd" ELSE IF x.name \in Daemons THEN x.name ELSE Storages[x.name]

\* The section item i of file f stands in, as the file is written.
SectionAt(f, i) ==
  LET marks == {j \in 1..i : f[j].kind \in {"section", "outer"}}
  IN IF marks = {} THEN "none" ELSE Opens(f[Max(marks)])

\* The sections of the daemons stand side by side, those of the storage modules
\* within that of stprocessd.
WellNested(f) ==
  \A i \in DOMAIN f :
    CASE f[i].kind = "section" /\ f[i].name \in Daemons -> SectionAt(f, i - 1) \in Daemons \cup {"none"}
      [] f[i].kind = "section" /\ f[i].name \notin Daemons -> SectionAt(f, i - 1) = "stprocessd"
      [] f[i].kind = "outer" -> SectionAt(f, i - 1) \in Range(Storages)
      [] OTHER -> SectionAt(f, i - 1) # "none"

ASSUME ConfigAssumption ==
  /\ SectionNames \cup {"", "agents"} \subseteq Texts
  /\ Files \subseteq Seq(FileItem)
  /\ \A f \in Files : WellNested(f)

VARIABLES
  file,        \* the file that is read
  daemon,      \* who reads it
  events,      \* the events still to come
  section,     \* in_stcollectd and in_stprocessd, which exclude each other
  storage,     \* in_storage_mysql and in_storage_spectrum, likewise
  key,
  inAgentList, inAgent, isValue, isList,
  agent,       \* the agent being read, or 0
  config       \* the settings assigned, by section and key

flags == <<section, storage, inAgentList, inAgent, isValue, isList>>
configVars == <<file, daemon, events, flags, key, agent, config>>

\* The scalars: a name or key, the value of a setting, an address.
Name(t) == [type |-> "scalar", text |-> t, num |-> 0, ip |-> FALSE]
Number(n) == [type |-> "scalar", text |-> "", num |-> n, ip |-> FALSE]
Address(a) == [type |-> "scalar", text |-> "", num |-> a, ip |-> TRUE]
SequenceStart == [type |-> "start"]
SequenceEnd == [type |-> "end"]

AgentEvents(g) ==
  <<Name(g.name), SequenceStart>>
    \o [i \in 1..Len(g.addresses) |-> Address(g.addresses[i])]
    \o <<SequenceEnd>>

EventsOf(item) ==
  CASE item.kind = "section" -> <<Name(item.name)>>
    [] item.kind = "outer"   -> <<>>
    [] item.kind = "setting" -> <<Name(item.key), Number(item.num)>>
    [] item.kind = "agents"  ->
         <<Name("agents"), SequenceStart>>
           \o FlattenSeq([i \in 1..Len(item.list) |-> AgentEvents(item.list[i])])
           \o <<SequenceEnd>>

ConfigInit ==
  /\ AgentsInit
  /\ file \in Files
  /\ daemon \in Daemons
  /\ events = FlattenSeq([i \in 1..Len(file) |-> EventsOf(file[i])])
  /\ section = "none"
  /\ storage = "none"
  /\ key = ""
  /\ inAgentList = FALSE
  /\ inAgent = FALSE
  /\ isValue = FALSE
  /\ isList = FALSE
  /\ agent = 0
  /\ config = <<>>

-----------------------------------------------------------------------------

Event(type) == events # <<>> /\ Head(events).type = type

ScalarEvent == Event("scalar")
Text == Head(events).text
Num == Head(events).num

\* ip_to_num leaves the parts it does not find uninitialized.
IpToNum == IF Head(events).ip THEN {Num} ELSE Addresses

NextEvent == events' = Tail(events) /\ UNCHANGED <<file, daemon>>

NamesSection ==
  \/ Text \in Daemons
  \/ section = "stprocessd" /\ Text \in DOMAIN Storages

EnterSection ==
  /\ ScalarEvent
  /\ Text \in Daemons
  /\ section' = Text
  /\ NextEvent
  /\ UNCHANGED <<agentVars, storage, inAgentList, inAgent, isValue, isList, key, agent, config>>

\* Nothing resets the storage flags when the nested section is over.
EnterStorage ==
  /\ ScalarEvent
  /\ section = "stprocessd" /\ Text \in DOMAIN Storages
  /\ storage' = Storages[Text]
  /\ NextEvent
  /\ UNCHANGED <<agentVars, section, inAgentList, inAgent, isValue, isList, key, agent, config>>

\* stprocessd reads the agent list as if it were keys and values.
InList == ScalarEvent /\ ~NamesSection /\ isList /\ daemon = "stcollectd"

ListBegins == inAgentList' = (inAgentList \/ key = "agents")

AgentName ==
  /\ InList
  /\ ~inAgent
  /\ ListBegins
  /\ inAgent' = TRUE
  /\ key' = Text
  /\ NextEvent
  /\ UNCHANGED <<agentVars, section, storage, isValue, isList, agent, config>>

\* The first address is the primary one of a new agent.
AgentAddress(a) ==
  /\ InList
  /\ a \in IpToNum
  /\ inAgent
  /\ ListBegins
  /\ IF agent = 0
     THEN AddAgent(key, a) /\ agent' = Len(agents) + 1
     ELSE UNCHANGED <<agents, agent>>
  /\ AddAddress(a, agent')
  /\ NextEvent
  /\ UNCHANGED <<section, storage, inAgent, isValue, isList, key, config>>

InMapping == ScalarEvent /\ ~NamesSection /\ ~(isList /\ daemon = "stcollectd")

Key ==
  /\ InMapping
  /\ ~isValue
  /\ key' = Text
  /\ isValue' = TRUE
  /\ NextEvent
  /\ UNCHANGED <<agentVars, section, storage, inAgentList, inAgent, isList, agent, config>>

\* A storage section takes precedence within the section of stprocessd.
Target == IF section = "stprocessd" /\ storage # "none" THEN storage ELSE section

Assigned(name, n) ==
  [x \in DOMAIN config \cup {name} |-> IF x = name THEN n ELSE config[x]]

Value ==
  /\ InMapping
  /\ isValue
  /\ config' = IF key \in Keys[Target] THEN Assigned(<<Target, key>>, Num) ELSE config
  /\ isValue' = FALSE
  /\ NextEvent
  /\ UNCHANGED <<agentVars, section, storage, inAgentList, inAgent, isList, key, agent>>

ListStart ==
  /\ Event("start")
  /\ isList' = TRUE
  /\ NextEvent
  /\ UNCHANGED <<agentVars, section, storage, inAgentList, inAgent, isValue, key, agent, config>>

AgentEnd ==
  /\ Event("end")
  /\ inAgent
  /\ agent' = 0
  /\ inAgent' = FALSE
  /\ isValue' = FALSE
  /\ NextEvent
  /\ UNCHANGED <<agentVars, section, storage, inAgentList, isList, key, config>>

\* The list stays open.
BugListEnd ==
  /\ Event("end")
  /\ ~inAgent
  /\ inAgentList' = FALSE
  /\ isValue' = FALSE
  /\ NextEvent
  /\ UNCHANGED <<agentVars, section, storage, isList, inAgent, key, agent, config>>

\* The list of agents ends, or one without a single agent, whose isList stays set.
ListEnd ==
  /\ Event("end")
  /\ ~inAgent
  /\ IF inAgentList
     THEN inAgentList' = FALSE /\ isList' = FALSE /\ UNCHANGED isValue
     ELSE isValue' = FALSE /\ UNCHANGED <<inAgentList, isList>>
  /\ NextEvent
  /\ UNCHANGED <<agentVars, section, storage, inAgent, key, agent, config>>

ParseEvent ==
  \/ EnterSection
  \/ EnterStorage
  \/ AgentName
  \/ \E a \in Addresses : AgentAddress(a)
  \/ Key
  \/ Value
  \/ ListStart
  \/ AgentEnd
  \/ ListEnd

Parsed == events = <<>>

-----------------------------------------------------------------------------

Scalar == [type : {"scalar"}, text : Texts, num : Nat, ip : BOOLEAN]
Marker == [type : {"start", "end"}]

ConfigTypeOK ==
  /\ AgentsTypeOK
  /\ file \in Files /\ daemon \in Daemons
  /\ events \in Seq(Scalar \cup Marker)
  /\ section \in Daemons \cup {"none"}
  /\ storage \in {"none", "mysql", "spectrum"}
  /\ key \in Texts
  /\ inAgentList \in BOOLEAN /\ inAgent \in BOOLEAN
  /\ isValue \in BOOLEAN /\ isList \in BOOLEAN
  /\ agent \in 0..Len(agents)
  /\ \A sk \in DOMAIN config : sk[2] \in Keys[sk[1]]

Settings == {i \in DOMAIN file : file[i].kind = "setting"}

\* What this parser misreads: for stcollectd all that follows an empty list of
\* agents, and settings of stprocessd behind one of its storage sections.
BehindEmptyList(i) ==
  daemon = "stcollectd" /\ \E j \in 1..i - 1 : file[j].kind = "agents" /\ file[j].list = <<>>

BehindStorage(i) ==
  SectionAt(file, i) = "stprocessd" /\ \E j \in 1..i - 1 : file[j].kind = "outer"

Misread(i) == BehindEmptyList(i) \/ BehindStorage(i)

\* No other setting of the same key is in the section of i, or may get there.
Only(i) ==
  \A j \in Settings \ {i} :
    file[j].key = file[i].key => SectionAt(file, j) # SectionAt(file, i) /\ ~Misread(j)

Arrived(i) ==
  LET name == <<SectionAt(file, i), file[i].key>>
  IN name \in DOMAIN config /\ config[name] = file[i].num

Listed(f) ==
  FlattenSeq([i \in 1..Len(f) |-> IF f[i].kind = "agents" THEN f[i].list ELSE <<>>])

\* The agents are the ones of list l, known by their first address and entered in
\* the table with every address.
AgentsAre(l) ==
  /\ Len(agents) = Len(l)
  /\ \A x \in DOMAIN agents :
       agents[x].name = l[x].name /\ agents[x].address = l[x].addresses[1]
  /\ {<<nodes[i].address, nodes[i].agent>> : i \in DOMAIN nodes}
       = UNION {Range(l[x].addresses) \X {x} : x \in DOMAIN l}

\* Each setting of the file arrives in the section it stands in and nothing else
\* is set, whatever the order of the sections and whichever daemon reads the agent
\* list on its way, as one or as keys and values; stcollectd has the listed agents.
ConfigurationIsRead ==
  Parsed =>
    /\ \A i \in Settings :
         ~Misread(i) /\ file[i].key \in Keys[SectionAt(file, i)] /\ Only(i) => Arrived(i)
    /\ (\A i \in DOMAIN file : ~BehindEmptyList(i)) =>
         /\ \A sk \in DOMAIN config :
              \E i \in Settings : sk[2] = file[i].key /\ config[sk] = file[i].num
         /\ daemon = "stcollectd" => AgentsAre(Listed(file))
=============================================================================
