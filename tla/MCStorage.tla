------------------------------- MODULE MCStorage -------------------------------
(***************************************************************************)
(* The instance of Storage that TLC checks: two frames of one TCP          *)
(* connection, one with a VLAN tag, and one that shares their bucket on    *)
(* each layer of its own.                                                  *)
(***************************************************************************)
EXTENDS Storage

Frame(types, addresses, protocol, ports, length) ==
  [types |-> types, interfaces |-> <<1, 2>>, macs |-> addresses, addresses |-> addresses,
   protocol |-> protocol, ports |-> ports, length |-> length]

MCTcp == Frame(<<"ip">>, <<1, 2>>, "tcp", <<1, 1>>, 3)
MCUdp == Frame(<<"vlan", "ip">>, <<2, 1>>, "udp", <<1, 1>>, 2)
MCOther == Frame(<<"vlan", "vlan", "ip">>, <<1, 4>>, "tcp", <<1, 1>>, 1)

MCFrames == {MCTcp, MCUdp, MCOther}

MCFlowFiles == {<<>>, <<MCTcp, MCUdp, MCTcp>>, <<MCUdp, MCOther>>}

Setting(i, n) == [interval |-> i, num |-> n]

\* Days of two minutes; intervals of one day and of half a day, and less
\* kept than a day.
MCSettings == {Setting(2, 2), Setting(1, 2), Setting(1, 1)}

\* Agents 1 and 3 share a bucket of the csv module.
MCCounterFiles == {<<<<1, 1>>, <<1, 2>>, <<1, 1>>>>, <<<<3, 1>>, <<1, 1>>>>}
=============================================================================
