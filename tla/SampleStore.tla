------------------------------ MODULE SampleStore ------------------------------
(***************************************************************************)
(* How stcollectd leaves samples for stprocessd.  The writer thread gives  *)
(* every sample to addSampleToFile, which keeps one file in /dev/shm open  *)
(* for each agent and type of sample, starts a new one when the minute of  *)
(* the samples changes and then announces the old one on a POSIX message   *)
(* queue.  stprocessd receives the announcements and removes the files;    *)
(* here it may do so at any time, Processor says what it does.             *)
(*                                                                         *)
(* External: shm_open, write, mq_timedsend and mq_receive.  The files and  *)
(* the queue outlive both processes.                                       *)
(***************************************************************************)
EXTENDS Naturals, Sequences, FiniteSets, Functions

CONSTANTS Agents,
          Kinds,         \* what the sampled frames may be, a subset of FrameKinds
          NULL,
          QueueSize,     \* MSG_MAXMSGS
          MaxMinute,     \* bound on the minutes samples are from
          MaxSamples,    \* bound on the samples given to addSampleToFile
          MaxRestarts    \* bound on the restarts of stcollectd

FrameKinds == {"other", "icmp", "tcp", "udp"}

Types == {"flow", "cntr"}
Streams == Agents \X Types
Minutes == 1..MaxMinute

\* getFilePath: the name has the agent, the minute and the type.
Files == [stream : Streams, minute : Minutes]

\* A name without the minute.
BugFileOf(s, m) == [stream |-> s, minute |-> 1]

FileOf(s, m) == [stream |-> s, minute |-> m]

ASSUME StoreAssumption ==
  /\ Kinds \subseteq FrameKinds
  /\ NULL \notin Files
  /\ QueueSize \in Nat \ {0}
  /\ MaxMinute \in Nat \ {0} /\ MaxSamples \in Nat /\ MaxRestarts \in Nat

Messages == [stream : Streams, timestamp : Nat, file : Files]

VARIABLES
  log,       \* every sample given to addSampleToFile: its file and its kind
  clock,     \* for each type, the minute of the newest sample
  open,      \* fd_flow and fn_flow, fd_cntr and fn_cntr of each agent
  fdMin,     \* fd_min_flow and fd_min_cntr of each agent
  pos,       \* the offset of the open file, in samples
  shm,       \* the files that exist and the samples in them
  mq,        \* the message queue
  handed,    \* the messages stprocessd has received, in order
  dropped,   \* the files whose message found the queue full
  restarts   \* how many times stcollectd was restarted

fds == <<open, fdMin, pos>>
storeVars == <<log, clock, open, fdMin, pos, shm, mq, handed, dropped, restarts>>

StoreInit ==
  /\ log = <<>>
  /\ clock = [t \in Types |-> 1]
  /\ open = [s \in Streams |-> NULL]
  /\ fdMin = [s \in Streams |-> 0]
  /\ pos = [s \in Streams |-> 0]
  /\ shm = <<>>
  /\ mq = <<>>
  /\ handed = <<>>
  /\ dropped = {}
  /\ restarts = 0

-----------------------------------------------------------------------------

\* write at offset p of a file that holds c; what is behind it stays.
Overwrite(c, p, x) == IF p < Len(c) THEN [c EXCEPT ![p + 1] = x] ELSE Append(c, x)

\* shm_open without O_TRUNC: a file of that name that is there keeps its content.
Create(S, f) == [g \in DOMAIN S \cup {f} |-> IF g \in DOMAIN S THEN S[g] ELSE <<>>]

\* write to a file; one that is no longer there takes the sample with it.
WriteTo(S, f, p, x) ==
  IF f \in DOMAIN S THEN [S EXCEPT ![f] = Overwrite(@, p, x)] ELSE S

\* The samples of a type reach addSampleToFile in the order they were received,
\* those of the other type are in another buffer.
Log(s, m, k) ==
  /\ Len(log) < MaxSamples
  /\ m >= clock[s[2]]
  /\ k \in (IF s[2] = "flow" THEN Kinds ELSE {"cntr"})
  /\ log' = Append(log, [file |-> FileOf(s, m), kind |-> k])
  /\ clock' = [clock EXCEPT ![s[2]] = m]

\* addSampleToFile, same minute as the sample before.
AddToOpenFile(s, k) ==
  /\ fdMin[s] # 0
  /\ Log(s, fdMin[s], k)
  /\ shm' = WriteTo(shm, open[s], pos[s], Len(log) + 1)
  /\ pos' = [pos EXCEPT ![s] = @ + 1]
  /\ UNCHANGED <<open, fdMin, mq, handed, dropped, restarts>>

\* The new name is already in fn_flow when the message is made.
BugMessageOf(s, m) == [stream |-> s, timestamp |-> m - 1, file |-> FileOf(s, m)]

\* The minute of the new sample.
BugTimestamp(s, m) == [stream |-> s, timestamp |-> m, file |-> open[s]]

\* The minute before the new sample's, whichever minute the file is from.
MessageOf(s, m) == [stream |-> s, timestamp |-> m - 1, file |-> open[s]]

\* The full queue is not noticed.
BugSend(msg) ==
  /\ mq' = IF Len(mq) < QueueSize THEN Append(mq, msg) ELSE Append(Tail(mq), msg)
  /\ UNCHANGED dropped

\* send_msg: the deadline is 100 ns after the epoch, so a full queue fails at once.
Send(msg) ==
  IF Len(mq) < QueueSize
  THEN mq' = Append(mq, msg) /\ UNCHANGED dropped
  ELSE dropped' = dropped \cup {msg.file} /\ UNCHANGED mq

\* addSampleToFile, first sample of another minute or first one of the agent.
AddToNewFile(s, m, k) ==
  /\ m # fdMin[s]
  /\ Log(s, m, k)
  /\ IF open[s] = NULL THEN UNCHANGED <<mq, dropped>> ELSE Send(MessageOf(s, m))
  /\ shm' = WriteTo(Create(shm, FileOf(s, m)), FileOf(s, m), 0, Len(log) + 1)
  /\ open' = [open EXCEPT ![s] = FileOf(s, m)]
  /\ fdMin' = [fdMin EXCEPT ![s] = m]
  /\ pos' = [pos EXCEPT ![s] = 1]
  /\ UNCHANGED <<handed, restarts>>

\* stcollectd ends, in whichever way, and is started again: nothing announces
\* the files that were open, and the agents are as agentlist_add_agent left them.
Restart ==
  /\ restarts < MaxRestarts
  /\ restarts' = restarts + 1
  /\ open' = [s \in Streams |-> NULL]
  /\ fdMin' = [s \in Streams |-> 0]
  /\ pos' = [s \in Streams |-> 0]
  /\ UNCHANGED <<log, clock, shm, mq, handed, dropped>>

\* recv_msg of stprocessd.
TakeMessage ==
  /\ mq # <<>>
  /\ handed' = Append(handed, Head(mq))
  /\ mq' = Tail(mq)
  /\ UNCHANGED <<log, clock, fds, shm, dropped, restarts>>

\* shm_unlink by stprocessd of a file it was told of.
RemoveFile(f) ==
  /\ f \in DOMAIN shm
  /\ shm' = Restrict(shm, DOMAIN shm \ {f})
  /\ UNCHANGED <<log, clock, fds, mq, handed, dropped, restarts>>

-----------------------------------------------------------------------------

Adding ==
  \E s \in Streams, k \in Kinds \cup {"cntr"} :
    \/ AddToOpenFile(s, k)
    \/ \E m \in Minutes : AddToNewFile(s, m, k)

StoreNext ==
  \/ Adding
  \/ Restart
  \/ TakeMessage
  \/ \E i \in DOMAIN handed : RemoveFile(handed[i].file)

StoreSpec == StoreInit /\ [][StoreNext]_storeVars

-----------------------------------------------------------------------------

Sample == Nat \ {0}

StoreTypeOK ==
  /\ log \in Seq([file : Files, kind : FrameKinds \cup {"cntr"}])
  /\ clock \in [Types -> Minutes]
  /\ open \in [Streams -> Files \cup {NULL}]
  /\ fdMin \in [Streams -> Minutes \cup {0}]
  /\ pos \in [Streams -> Nat]
  /\ DOMAIN shm \subseteq Files /\ \A f \in DOMAIN shm : shm[f] \in Seq(Sample)
  /\ mq \in Seq(Messages) /\ Len(mq) <= QueueSize
  /\ handed \in Seq(Messages)
  /\ dropped \subseteq Files
  /\ restarts \in 0..MaxRestarts

\* Every message sent, in the order of sending.
Announcements == handed \o mq

Announced == {Announcements[i].file : i \in DOMAIN Announcements}

OpenFiles == {open[s] : s \in Streams} \ {NULL}

\* A file that has been announced is never written to or created again, also
\* not by a collector that was restarted: stprocessd reads and removes it
\* without any lock.
AnnouncedIsFinal ==
  [][\A f \in Announced :
       f \in DOMAIN shm' => f \in DOMAIN shm /\ shm'[f] = shm[f]]_storeVars

SamplesOf(f) == {n \in DOMAIN log : log[n].file = f}

\* The samples S, in the order they were received.
HoldsInOrder(c, S) ==
  Range(c) = S /\ \A i, j \in DOMAIN c : i < j => c[i] < c[j]

\* Unless the collector was restarted, an announced file is closed and holds
\* every sample of its agent, type and minute, in order: none comes later.
AnnouncedIsComplete ==
  restarts = 0 =>
    /\ Announced \cap OpenFiles = {}
    /\ \A f \in Announced \cap DOMAIN shm : HoldsInOrder(shm[f], SamplesOf(f))

\* Unless the collector was restarted, a file that exists is still open or
\* will be seen by stprocessd; only a full queue leaves a file behind.
NoFileForgotten ==
  restarts = 0 => DOMAIN shm \subseteq OpenFiles \cup Announced \cup dropped

\* The announcements of one agent and type carry different timestamps, each in
\* the time from its file's minute to the minute before the next file's: agent
\* and timestamp identify one batch in the database, also over restarts.
BatchesSeparate ==
  \A i, j \in DOMAIN Announcements :
    LET a == Announcements[i]
        b == Announcements[j]
    IN /\ a.file.minute <= a.timestamp
       /\ i < j /\ a.stream = b.stream => a.timestamp < b.file.minute
=============================================================================
