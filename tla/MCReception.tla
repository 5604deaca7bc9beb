------------------------------ MODULE MCReception ------------------------------
(***************************************************************************)
(* The instance of Reception that TLC checks.  Addresses 2 and 4 share a   *)
(* bucket, 1 and 3 do, and nobody is configured with 5.                    *)
(***************************************************************************)
EXTENDS Reception

Section(n) == [kind |-> "section", name |-> n]
Setting(k, n) == [kind |-> "setting", key |-> k, num |-> n]
Outer == [kind |-> "outer"]
AgentsItem(l) == [kind |-> "agents", list |-> l]
Switch(n, as) == [name |-> n, addresses |-> as]

\* All strings.
MCTexts == STRING

MCOneSwitch == <<Switch("s1", <<1>>)>>

MCLists == {
  <<Switch("s1", <<1, 2>>)>>,
  <<Switch("s1", <<1>>), Switch("s2", <<2, 4>>)>>,
  <<Switch("s1", <<1, 3>>)>>}

MCCollectorPart(l) == {
  <<Section("stcollectd"), Setting("datadir", 1), AgentsItem(l)>>,
  <<Section("stcollectd"), AgentsItem(l), Setting("datadir", 1)>>}

MCStoragePart == {
  <<>>,
  <<Section("storage_spectrum"), Setting("datadir", 4), Outer>>,
  <<Section("storage_mysql"), Setting("interval", 3), Outer,
    Section("storage_spectrum"), Setting("interval", 4), Outer>>,
  <<Section("storage_spectrum"), Setting("datadir", 4), Outer,
    Section("storage_mysql"), Setting("interval", 3), Outer>>}

MCProcessorPart ==
  UNION {{<<Section("stprocessd"), Setting("datadir", 2)>> \o s,
          <<Section("stprocessd")>> \o s \o <<Setting("datadir", 2)>>} : s \in MCStoragePart}

\* Behind an empty list of agents every text may be taken for an address.
MCEmptyList ==
  <<Section("stprocessd"), Setting("datadir", 2), Section("stcollectd"),
    AgentsItem(<<>>), Setting("datadir", 1)>>

\* The sections in both orders for one list, and each of the other lists.
MCFiles ==
  {MCEmptyList}
    \cup UNION {{c \o p, p \o c} :
                 c \in {<<Section("stcollectd"), AgentsItem(MCOneSwitch)>>}, p \in MCProcessorPart}
    \cup UNION {MCCollectorPart(l) : l \in MCLists}

OneSample(t, rs) == [tag |-> t, records |-> rs]

MCPayloads == {
  <<OneSample("flow", <<"header">>)>>,
  <<OneSample("flow", <<"header">>), OneSample("cntr", <<"generic", "ethernet">>)>>,
  <<OneSample("flow", <<"header", "extended">>), OneSample("flow", <<"header">>)>>,
  <<OneSample("flow", <<"extended">>), OneSample("cntr", <<"ethernet">>)>>,
  <<OneSample("unknown", <<>>), OneSample("cntr", <<"generic", "vlan", "ethernet">>)>>}
=============================================================================
