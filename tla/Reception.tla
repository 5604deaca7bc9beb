------------------------------- MODULE Reception -------------------------------
(***************************************************************************)
(* main of stcollectd up to the buffers: the configuration is read, and    *)
(* then the collector thread parses datagrams with the agents it has.      *)
(* stprocessd reads the same file and takes its own sections.              *)
(***************************************************************************)
EXTENDS ConfigParser, SflowParser

vars == <<agentVars, configVars, parserVars>>

Init == ConfigInit /\ ParserInit

Next ==
  \/ ParseEvent /\ UNCHANGED parserVars
  \/ Parsed /\ daemon = "stcollectd" /\ Collecting /\ UNCHANGED configVars

Spec == Init /\ [][Next]_vars

TypeOK == ConfigTypeOK /\ ParserTypeOK
=============================================================================
