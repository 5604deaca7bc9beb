---------------------------- MODULE ProcessorProofs ----------------------------
(***************************************************************************)
(* The hand-over of sample files, for every number of agents, minutes and  *)
(* messages and with any number of restarts of both daemons: what holds of *)
(* SampleStore, and that Processor is a use of it.                         *)
(***************************************************************************)
EXTENDS Processor, SeqLemmas

-----------------------------------------------------------------------------
(* Types.                                                                  *)

LEMMA FileType ==
  ASSUME NEW s \in Streams, NEW m
  PROVE  /\ FileOf(s, m).stream = s /\ FileOf(s, m).minute = m
         /\ m \in Minutes => FileOf(s, m) \in Files
BY DEF FileOf, Files

LEMMA CreateFile ==
  ASSUME NEW S, NEW f
  PROVE  /\ DOMAIN Create(S, f) = DOMAIN S \cup {f}
         /\ \A x \in DOMAIN S : Create(S, f)[x] = S[x]
         /\ f \notin DOMAIN S => Create(S, f)[f] = <<>>
BY DEF Create

LEMMA WriteFile ==
  ASSUME NEW S, NEW f, NEW p, NEW x
  PROVE  /\ DOMAIN WriteTo(S, f, p, x) = DOMAIN S
         /\ \A g \in DOMAIN S :
              WriteTo(S, f, p, x)[g] = IF g = f THEN Overwrite(S[f], p, x) ELSE S[g]
BY DEF WriteTo

LEMMA OverwriteType ==
  ASSUME NEW T, NEW c \in Seq(T), NEW p \in Nat, NEW x \in T
  PROVE  Overwrite(c, p, x) \in Seq(T)
<1>1. CASE p < Len(c)
  <2>1. p + 1 \in 1..Len(c)
    BY <1>1
  <2>2. [c EXCEPT ![p + 1] = x] \in Seq(T)
    BY <2>1
  <2> QED BY <1>1, <2>2 DEF Overwrite
<1>2. CASE ~(p < Len(c))
  BY <1>2 DEF Overwrite
<1> QED BY <1>1, <1>2

LEMMA InitStoreType == StoreInit => StoreTypeOK
<1> SUFFICES ASSUME StoreInit PROVE StoreTypeOK
  OBVIOUS
<1>1. 1 \in Minutes /\ 0 \in 0..MaxRestarts /\ Len(<<>>) <= QueueSize
  BY StoreAssumption DEF Minutes
<1> QED BY <1>1 DEF StoreInit, StoreTypeOK

\* What a sample does to the log, to the clock and to its file.
LEMMA LogType ==
  ASSUME StoreTypeOK, NEW s \in Streams, NEW m \in Minutes, NEW k, Log(s, m, k)
  PROVE  /\ log' \in Seq([file : Files, kind : FrameKinds \cup {"cntr"}])
         /\ clock' \in [Types -> Minutes] /\ clock'[s[2]] = m /\ clock[s[2]] <= m
         /\ \A t \in Types : clock[t] <= clock'[t]
         /\ s[2] \in Types /\ Len(log) + 1 \in Sample
<1>1. s[2] \in Types
  BY DEF Streams
<1>2. k \in FrameKinds \cup {"cntr"}
  BY StoreAssumption DEF Log
<1>3. FileOf(s, m) \in Files
  BY FileType
<1> DEFINE E == [file : Files, kind : FrameKinds \cup {"cntr"}]
           e == [file |-> FileOf(s, m), kind |-> k]
<1>4. e \in E /\ log \in Seq(E) /\ log' = Append(log, e)
  BY <1>2, <1>3 DEF StoreTypeOK, Log
<1> HIDE DEF E, e
<1>5. log' \in Seq(E) /\ Len(log) \in Nat
  BY <1>4
<1>6. clock \in [Types -> Minutes] /\ clock' = [clock EXCEPT ![s[2]] = m] /\ m >= clock[s[2]]
  BY DEF StoreTypeOK, Log
<1>7. Minutes \subseteq Nat
  BY StoreAssumption DEF Minutes
<1>8. /\ clock' \in [Types -> Minutes] /\ clock'[s[2]] = m /\ clock[s[2]] <= m
      /\ \A t \in Types : clock[t] <= clock'[t]
  <2> DEFINE t == s[2]
  <2>1. t \in Types /\ clock' = [clock EXCEPT ![t] = m] /\ m >= clock[t]
    BY <1>1, <1>6
  <2> HIDE DEF t
  <2>2. clock' \in [Types -> Minutes] /\ clock'[t] = m
    BY <2>1, <1>6
  <2>3. \A u \in Types : clock[u] \in Nat /\ (clock'[u] = clock[u] \/ u = t)
    BY <2>1, <1>6, <1>7
  <2>4. m \in Nat
    BY <1>7
  <2>5. \A u \in Types : clock[u] <= clock'[u]
    BY <2>1, <2>2, <2>3, <2>4
  <2> QED BY <2>1, <2>2, <2>3, <2>4, <2>5 DEF t
<1> QED BY <1>1, <1>5, <1>8 DEF E, Sample

FilesTyped(S) == DOMAIN S \subseteq Files /\ \A f \in DOMAIN S : S[f] \in Seq(Sample)

LEMMA FilesWritten ==
  ASSUME NEW S, FilesTyped(S),
         NEW g, NEW p \in Nat, NEW x \in Sample
  PROVE  FilesTyped(WriteTo(S, g, p, x))
<1>1. \A f \in DOMAIN S : Overwrite(S[f], p, x) \in Seq(Sample)
  BY OverwriteType DEF FilesTyped
<1> QED BY <1>1, WriteFile DEF FilesTyped

LEMMA FilesCreated ==
  ASSUME NEW S, FilesTyped(S), NEW g \in Files
  PROVE  FilesTyped(Create(S, g))
<1>1. <<>> \in Seq(Sample)
  OBVIOUS
<1> QED BY <1>1 DEF FilesTyped, Create

LEMMA MessageType ==
  ASSUME StoreTypeOK, NEW s \in Streams, NEW m \in Minutes, open[s] # NULL
  PROVE  MessageOf(s, m) \in Messages
<1>1. open[s] \in Files
  BY DEF StoreTypeOK
<1>2. m - 1 \in Nat
  BY StoreAssumption DEF Minutes
<1> QED BY <1>1, <1>2 DEF MessageOf, Messages

\* A message is behind the others, or its file among the dropped ones.
LEMMA SendType ==
  ASSUME mq \in Seq(Messages), Len(mq) <= QueueSize, dropped \subseteq Files,
         NEW msg \in Messages, Send(msg)
  PROVE  /\ mq' \in Seq(Messages) /\ Len(mq') <= QueueSize /\ dropped' \subseteq Files
         /\ dropped \subseteq dropped'
         /\ mq' = Append(mq, msg) \/ (mq' = mq /\ msg.file \in dropped')
<1>1. QueueSize \in Nat /\ Len(mq) \in Nat
  BY StoreAssumption
<1>2. msg.file \in Files
  BY DEF Messages
<1> HIDE DEF Messages, Files
<1> QED BY <1>1, <1>2 DEF Send

LEMMA StepStoreType ==
  ASSUME StoreTypeOK, StoreNext
  PROVE  StoreTypeOK'
<1>0. MaxRestarts \in Nat /\ Minutes \subseteq Nat /\ 0 \notin Minutes
  BY StoreAssumption DEF Minutes
<1>1. ASSUME NEW s \in Streams, NEW k, AddToOpenFile(s, k)
      PROVE  StoreTypeOK'
  <2>1. fdMin[s] \in Minutes
    BY <1>1 DEF StoreTypeOK, AddToOpenFile
  <2>2. Log(s, fdMin[s], k)
    BY <1>1 DEF AddToOpenFile
  <2>3. /\ log' \in Seq([file : Files, kind : FrameKinds \cup {"cntr"}])
        /\ clock' \in [Types -> Minutes]
        /\ Len(log) + 1 \in Sample
    BY <2>1, <2>2, LogType
  <2>4. /\ shm' = WriteTo(shm, open[s], pos[s], Len(log) + 1)
        /\ pos' = [pos EXCEPT ![s] = @ + 1]
        /\ UNCHANGED <<open, fdMin, mq, handed, dropped, restarts>>
    BY <1>1 DEF AddToOpenFile
  <2>5. pos[s] \in Nat /\ pos' \in [Streams -> Nat]
    BY <2>4 DEF StoreTypeOK
  <2>6. FilesTyped(shm)
    BY DEF StoreTypeOK, FilesTyped
  <2>7. FilesTyped(shm')
    BY <2>3, <2>4, <2>5, <2>6, FilesWritten
  <2> QED BY <2>3, <2>4, <2>5, <2>7 DEF StoreTypeOK, FilesTyped
<1>2. ASSUME NEW s \in Streams, NEW m \in Minutes, NEW k, AddToNewFile(s, m, k)
      PROVE  StoreTypeOK'
  <2> DEFINE f == FileOf(s, m)
             S == Create(shm, f)
             n == Len(log) + 1
  <2>1. Log(s, m, k)
    BY <1>2 DEF AddToNewFile
  <2>2. /\ log' \in Seq([file : Files, kind : FrameKinds \cup {"cntr"}])
        /\ clock' \in [Types -> Minutes]
        /\ n \in Sample
    BY <2>1, LogType
  <2>3. /\ shm' = WriteTo(S, f, 0, n)
        /\ open' = [open EXCEPT ![s] = f]
        /\ fdMin' = [fdMin EXCEPT ![s] = m]
        /\ pos' = [pos EXCEPT ![s] = 1]
        /\ UNCHANGED <<handed, restarts>>
    BY <1>2 DEF AddToNewFile
  <2>4. f \in Files
    BY FileType
  <2> HIDE DEF f, n
  <2>5. FilesTyped(S)
    <3>1. FilesTyped(shm)
      BY DEF StoreTypeOK, FilesTyped
    <3> QED BY <2>4, <3>1, FilesCreated
  <2> HIDE DEF S
  <2>6. FilesTyped(shm')
    BY <2>2, <2>3, <2>5, FilesWritten
  <2>7. /\ open' \in [Streams -> Files \cup {NULL}]
        /\ fdMin' \in [Streams -> Minutes \cup {0}]
        /\ pos' \in [Streams -> Nat]
    BY <2>3, <2>4 DEF StoreTypeOK
  <2>8. mq' \in Seq(Messages) /\ Len(mq') <= QueueSize /\ dropped' \subseteq Files
    <3>1. CASE open[s] = NULL
      BY <1>2, <3>1 DEF AddToNewFile, StoreTypeOK
    <3>2. CASE open[s] # NULL
      <4>1. Send(MessageOf(s, m))
        BY <1>2, <3>2 DEF AddToNewFile
      <4>2. MessageOf(s, m) \in Messages
        BY <3>2, MessageType
      <4> QED BY <4>1, <4>2, SendType DEF StoreTypeOK
    <3> QED BY <3>1, <3>2
  <2> QED BY <2>2, <2>3, <2>6, <2>7, <2>8 DEF StoreTypeOK, FilesTyped
<1>3. CASE Restart
  BY <1>0, <1>3 DEF Restart, StoreTypeOK
<1>4. CASE TakeMessage
  <2>1. /\ mq # <<>> /\ handed' = Append(handed, Head(mq)) /\ mq' = Tail(mq)
        /\ UNCHANGED <<log, clock, open, fdMin, pos, shm, dropped, restarts>>
    BY <1>4 DEF TakeMessage, fds
  <2>2. mq \in Seq(Messages) /\ handed \in Seq(Messages) /\ Len(mq) <= QueueSize
    BY DEF StoreTypeOK
  <2> HIDE DEF Messages
  <2>3. Head(mq) \in Messages /\ mq' \in Seq(Messages) /\ Len(mq') = Len(mq) - 1
    BY <2>1, <2>2
  <2>4. handed' \in Seq(Messages)
    BY <2>1, <2>2, <2>3
  <2>5. QueueSize \in Nat /\ Len(mq) \in Nat
    BY <2>2, StoreAssumption
  <2> QED BY <2>1, <2>2, <2>3, <2>4, <2>5 DEF StoreTypeOK
<1>5. ASSUME NEW f, RemoveFile(f)
      PROVE  StoreTypeOK'
  <2>1. /\ shm' = Restrict(shm, DOMAIN shm \ {f})
        /\ UNCHANGED <<log, clock, open, fdMin, pos, mq, handed, dropped, restarts>>
    BY <1>5 DEF RemoveFile, fds
  <2>2. DOMAIN shm' \subseteq Files /\ \A g \in DOMAIN shm' : shm'[g] \in Seq(Sample)
    BY <2>1 DEF StoreTypeOK, Restrict
  <2> QED BY <2>1, <2>2 DEF StoreTypeOK
<1> QED BY <1>1, <1>2, <1>3, <1>4, <1>5 DEF StoreNext, Adding

\* The files in /dev/shm, the message queue and what stcollectd remembers of
\* them have their types, whatever is added and however often it is restarted
\* (addSampleToFile, send_msg, recv_msg).
THEOREM StoreType == StoreSpec => []StoreTypeOK
<1>1. StoreTypeOK /\ UNCHANGED storeVars => StoreTypeOK'
  BY DEF StoreTypeOK, storeVars
<1> QED BY <1>1, InitStoreType, StepStoreType, PTL DEF StoreSpec

-----------------------------------------------------------------------------
(* The announcements, in the order of sending: receiving one changes none. *)

LEMMA AnnouncementsType ==
  ASSUME StoreTypeOK
  PROVE  Announcements \in Seq(Messages)
BY DEF StoreTypeOK, Announcements

LEMMA TakingKeeps ==
  ASSUME StoreTypeOK, TakeMessage
  PROVE  Announcements' = Announcements
<1>1. mq \in Seq(Messages) /\ handed \in Seq(Messages)
  BY DEF StoreTypeOK
<1>2. mq # <<>> /\ handed' = Append(handed, Head(mq)) /\ mq' = Tail(mq)
  BY DEF TakeMessage
<1> HIDE DEF Messages
<1>3. Head(mq) \in Messages /\ Tail(mq) \in Seq(Messages) /\ mq = <<Head(mq)>> \o Tail(mq)
  BY <1>1, <1>2
<1>4. <<Head(mq)>> \in Seq(Messages) /\ Append(handed, Head(mq)) = handed \o <<Head(mq)>>
  BY <1>1, <1>3
<1>5. (handed \o <<Head(mq)>>) \o Tail(mq) = handed \o (<<Head(mq)>> \o Tail(mq))
  BY <1>1, <1>3, <1>4, ConcatAssociative
<1> QED BY <1>2, <1>3, <1>4, <1>5 DEF Announcements

LEMMA SendingAdds ==
  ASSUME StoreTypeOK, NEW msg \in Messages, mq' = Append(mq, msg), handed' = handed
  PROVE  Announcements' = Append(Announcements, msg)
<1>1. mq \in Seq(Messages) /\ handed \in Seq(Messages)
  BY DEF StoreTypeOK
<1> HIDE DEF Messages
<1>2. handed \o Append(mq, msg) = Append(handed \o mq, msg)
  BY <1>1
<1> QED BY <1>2 DEF Announcements

-----------------------------------------------------------------------------
(* The inductive invariant.                                                *)

\* An open file is that of its agent, type and minute, and of no later minute
\* than the newest sample.
FdsAgree ==
  \A s \in Streams :
    /\ open[s] = NULL <=> fdMin[s] = 0
    /\ open[s] # NULL => open[s] = FileOf(s, fdMin[s]) /\ fdMin[s] <= clock[s[2]]

\* An announcement is of a time before the newest sample, and before the minute
\* of the file that is open now.
Placed(a, c, o, m) ==
  /\ a.file.stream = a.stream
  /\ a.file.minute <= a.timestamp
  /\ a.timestamp < c[a.stream[2]]
  /\ o[a.stream] # NULL => a.timestamp < m[a.stream]

AllPlaced ==
  \A i \in DOMAIN Announcements : Placed(Announcements[i], clock, open, fdMin)

HandOverInv ==
  StoreTypeOK /\ FdsAgree /\ AllPlaced /\ BatchesSeparate /\ NoFileForgotten

\* Time goes on, and a file is opened only for the newest minute.
Onward ==
  /\ \A t \in Types : clock[t] <= clock'[t]
  /\ \A s \in Streams :
       \/ open'[s] = NULL
       \/ open[s] # NULL /\ fdMin[s] <= fdMin'[s]
       \/ clock[s[2]] <= fdMin'[s]

LEMMA MessageFields ==
  ASSUME NEW a \in Messages
  PROVE  /\ a.stream \in Streams /\ a.stream[2] \in Types
         /\ a.timestamp \in Nat
         /\ a.file \in Files /\ a.file.stream \in Streams /\ a.file.minute \in Nat
<1>1. a.stream \in Streams /\ a.timestamp \in Nat /\ a.file \in Files
  BY DEF Messages
<1>2. a.file.stream \in Streams /\ a.file.minute \in Minutes
  BY <1>1 DEF Files
<1>3. Minutes \subseteq Nat
  BY StoreAssumption DEF Minutes
<1> HIDE DEF Messages, Files, Minutes
<1>4. a.stream[2] \in Types
  BY <1>1 DEF Streams
<1> QED BY <1>1, <1>2, <1>3, <1>4

\* The clock and the minutes of the open files are numbers.
LEMMA TimesType ==
  ASSUME StoreTypeOK, NEW s \in Streams
  PROVE  /\ s[2] \in Types /\ clock[s[2]] \in Nat /\ fdMin[s] \in Nat
         /\ fdMin[s] # 0 => fdMin[s] \in Minutes
<1>2. clock \in [Types -> Minutes] /\ fdMin \in [Streams -> Minutes \cup {0}]
  BY DEF StoreTypeOK
<1> DEFINE t == s[2]
<1>3. t \in Types
  BY DEF Streams
<1> HIDE DEF t
<1>4. clock[t] \in Minutes /\ fdMin[s] \in Minutes \cup {0}
  BY <1>2, <1>3
<1>5. clock[t] \in Nat /\ fdMin[s] \in Nat /\ (fdMin[s] # 0 => fdMin[s] \in Minutes)
  BY <1>4, StoreAssumption DEF Minutes
<1> QED BY <1>3, <1>5 DEF t

\* What was placed stays placed.
LEMMA OnwardPlaced ==
  ASSUME StoreTypeOK, StoreTypeOK', Onward,
         NEW a \in Messages, Placed(a, clock, open, fdMin)
  PROVE  Placed(a, clock', open', fdMin')
<1> DEFINE s == a.stream
<1>1. s \in Streams /\ s[2] \in Types /\ a.timestamp \in Nat
  BY MessageFields
<1>2. clock[s[2]] \in Nat /\ fdMin[s] \in Nat
  BY <1>1, TimesType
<1>3. clock'[s[2]] \in Nat /\ fdMin'[s] \in Nat
  <2>2. clock' \in [Types -> Minutes] /\ fdMin' \in [Streams -> Minutes \cup {0}]
    BY DEF StoreTypeOK
  <2> DEFINE t == s[2]
  <2>3. t \in Types /\ s \in Streams
    BY <1>1
  <2> HIDE DEF s, t
  <2>4. clock'[t] \in Minutes /\ fdMin'[s] \in Minutes \cup {0}
    BY <2>2, <2>3
  <2>5. clock'[t] \in Nat /\ fdMin'[s] \in Nat
    BY <2>4, StoreAssumption DEF Minutes
  <2> QED BY <2>5 DEF t
<1>4. a.timestamp < clock[s[2]] /\ (open[s] # NULL => a.timestamp < fdMin[s])
  BY DEF Placed
<1>5. /\ clock[s[2]] <= clock'[s[2]]
      /\ \/ open'[s] = NULL
         \/ open[s] # NULL /\ fdMin[s] <= fdMin'[s]
         \/ clock[s[2]] <= fdMin'[s]
  BY <1>1 DEF Onward
<1>6. a.timestamp < clock'[s[2]] /\ (open'[s] # NULL => a.timestamp < fdMin'[s])
  <2> HIDE DEF s
  <2> QED BY <1>1, <1>2, <1>3, <1>4, <1>5
<1> QED BY <1>6 DEF Placed

LEMMA KeptPlaced ==
  ASSUME StoreTypeOK, StoreTypeOK', Onward, AllPlaced, BatchesSeparate,
         Announcements' = Announcements
  PROVE  AllPlaced' /\ BatchesSeparate'
<1>1. AllPlaced'
  <2> SUFFICES ASSUME NEW i \in DOMAIN Announcements
               PROVE  Placed(Announcements[i], clock', open', fdMin')
    BY DEF AllPlaced
  <2> DEFINE a == Announcements[i]
  <2>1. Announcements \in Seq(Messages)
    BY AnnouncementsType
  <2> HIDE DEF Messages
  <2>2. a \in Messages
    BY <2>1
  <2>3. Placed(a, clock, open, fdMin)
    BY DEF AllPlaced
  <2> HIDE DEF a
  <2>4. Placed(a, clock', open', fdMin')
    BY <2>2, <2>3, OnwardPlaced
  <2> QED BY <2>4 DEF a
<1>2. BatchesSeparate'
  BY DEF BatchesSeparate
<1> QED BY <1>1, <1>2

LEMMA AddedPlaced ==
  ASSUME StoreTypeOK, StoreTypeOK', Onward, AllPlaced, BatchesSeparate,
         NEW msg \in Messages, Announcements' = Append(Announcements, msg),
         Placed(msg, clock', open', fdMin'),
         \A i \in DOMAIN Announcements :
           Announcements[i].stream = msg.stream => Announcements[i].timestamp < msg.file.minute
  PROVE  AllPlaced' /\ BatchesSeparate'
<1> DEFINE A == Announcements
           B == Announcements'
           n == Len(A)
<1>1. A \in Seq(Messages)
  BY AnnouncementsType
<1>2. /\ n \in Nat /\ DOMAIN A = 1..n /\ DOMAIN B = 1..(n + 1) /\ B[n + 1] = msg
      /\ \A i \in 1..n : B[i] = A[i] /\ A[i] \in Messages
  <2> HIDE DEF Messages
  <2> QED BY <1>1
<1> HIDE DEF A, B, n
<1>3. \A i \in 1..(n + 1) : i \in 1..n \/ i = n + 1
  BY <1>2
<1>4. \A i \in 1..n : Placed(A[i], clock, open, fdMin)
  BY <1>2 DEF AllPlaced, A
<1>5. \A i \in 1..n : Placed(A[i], clock', open', fdMin')
  BY <1>2, <1>4, OnwardPlaced
<1>6. AllPlaced'
  BY <1>2, <1>3, <1>5 DEF AllPlaced, B
<1>7. \A i, j \in 1..(n + 1) :
        /\ B[i].file.minute <= B[i].timestamp
        /\ i < j /\ B[i].stream = B[j].stream => B[i].timestamp < B[j].file.minute
  <2> TAKE i \in 1..(n + 1)
  <2> TAKE j \in 1..(n + 1)
  <2>1. B[i].file.minute <= B[i].timestamp
    BY <1>2, <1>3, <1>5 DEF Placed
  <2>2. ASSUME i < j, B[i].stream = B[j].stream
        PROVE  B[i].timestamp < B[j].file.minute
    <3>1. i \in 1..n
      BY <1>2, <2>2
    <3>2. CASE j \in 1..n
      <4>1. A[i].stream = A[j].stream
        BY <1>2, <2>2, <3>1, <3>2
      <4>2. A[i].timestamp < A[j].file.minute
        BY <1>2, <2>2, <3>1, <3>2, <4>1 DEF BatchesSeparate, A
      <4> QED BY <1>2, <3>1, <3>2, <4>2
    <3>3. CASE j = n + 1
      BY <1>2, <2>2, <3>1, <3>3 DEF A
    <3> QED BY <1>3, <3>2, <3>3
  <2> QED BY <2>1, <2>2
<1>8. BatchesSeparate'
  BY <1>2, <1>7 DEF BatchesSeparate, B
<1> QED BY <1>6, <1>8

LEMMA AnnouncedAdded ==
  ASSUME StoreTypeOK, NEW msg \in Messages, Announcements' = Append(Announcements, msg)
  PROVE  Announced' = Announced \cup {msg.file}
<1> DEFINE A == Announcements
           B == Announcements'
           n == Len(A)
<1>1. A \in Seq(Messages)
  BY AnnouncementsType
<1>2. /\ n \in Nat /\ DOMAIN A = 1..n /\ DOMAIN B = 1..(n + 1) /\ B[n + 1] = msg
      /\ \A i \in 1..n : B[i] = A[i]
  <2> HIDE DEF Messages
  <2> QED BY <1>1
<1> HIDE DEF A, B, n
<1>3. 1..(n + 1) = 1..n \cup {n + 1}
  BY <1>2
<1>4. Announced = {A[i].file : i \in 1..n} /\ Announced' = {B[i].file : i \in 1..(n + 1)}
  BY <1>2 DEF Announced, A, B
<1> QED BY <1>2, <1>3, <1>4

LEMMA LaterClock ==
  ASSUME StoreTypeOK, StoreTypeOK', Onward, NEW s \in Streams, fdMin[s] <= clock[s[2]]
  PROVE  fdMin[s] <= clock'[s[2]]
<1>1. s[2] \in Types /\ clock[s[2]] \in Nat /\ fdMin[s] \in Nat
  BY TimesType
<1>2. clock'[s[2]] \in Nat
  <2> DEFINE t == s[2]
  <2>1. t \in Types /\ clock' \in [Types -> Minutes]
    BY <1>1 DEF StoreTypeOK
  <2> HIDE DEF t
  <2>2. clock'[t] \in Nat
    BY <2>1, StoreAssumption DEF Minutes
  <2> QED BY <2>2 DEF t
<1>3. clock[s[2]] <= clock'[s[2]]
  BY <1>1 DEF Onward
<1> DEFINE c == clock[s[2]]
           d == clock'[s[2]]
<1>4. c \in Nat /\ d \in Nat /\ c <= d /\ fdMin[s] <= c
  BY <1>1, <1>2, <1>3
<1> HIDE DEF c, d
<1>5. fdMin[s] <= d
  BY <1>1, <1>4
<1> QED BY <1>5 DEF d

LEMMA InitHandOver == StoreInit => HandOverInv
<1> SUFFICES ASSUME StoreInit PROVE HandOverInv
  OBVIOUS
<1>1. StoreTypeOK
  BY InitStoreType
<1>2. DOMAIN Announcements = {}
  BY DEF StoreInit, Announcements
<1>3. FdsAgree
  BY DEF StoreInit, FdsAgree
<1>4. AllPlaced /\ BatchesSeparate
  BY <1>2 DEF AllPlaced, BatchesSeparate
<1>5. NoFileForgotten
  BY DEF StoreInit, NoFileForgotten
<1> QED BY <1>1, <1>3, <1>4, <1>5 DEF HandOverInv

\* A sample into the open file, of the same minute.
LEMMA OpenHandOver ==
  ASSUME HandOverInv, StoreTypeOK', NEW s \in Streams, NEW k, AddToOpenFile(s, k)
  PROVE  HandOverInv'
<1>1. /\ fdMin[s] # 0 /\ Log(s, fdMin[s], k)
      /\ shm' = WriteTo(shm, open[s], pos[s], Len(log) + 1)
      /\ open' = open /\ fdMin' = fdMin /\ mq' = mq /\ handed' = handed
      /\ dropped' = dropped /\ restarts' = restarts
  BY DEF AddToOpenFile
<1>2. StoreTypeOK /\ FdsAgree /\ AllPlaced /\ BatchesSeparate /\ NoFileForgotten
  BY DEF HandOverInv
<1>3. fdMin[s] \in Minutes
  BY <1>1, <1>2, TimesType
<1>4. \A t \in Types : clock[t] <= clock'[t]
  BY <1>1, <1>2, <1>3, LogType
<1>5. Onward
  <2>1. \A u \in Streams : fdMin[u] <= fdMin[u]
    BY <1>2, TimesType
  <2> QED BY <1>1, <1>4, <2>1 DEF Onward
<1>6. Announcements' = Announcements
  BY <1>1 DEF Announcements
<1>7. AllPlaced' /\ BatchesSeparate'
  BY <1>2, <1>5, <1>6, KeptPlaced
<1>8. FdsAgree'
  <2>1. \A u \in Streams : fdMin[u] <= clock[u[2]] => fdMin[u] <= clock'[u[2]]
    BY <1>2, <1>5, LaterClock
  <2> QED BY <1>1, <1>2, <2>1 DEF FdsAgree
<1>9. NoFileForgotten'
  <2>1. DOMAIN shm' = DOMAIN shm
    BY <1>1, WriteFile
  <2> QED BY <1>1, <1>2, <1>6, <2>1 DEF NoFileForgotten, OpenFiles, Announced
<1> QED BY <1>7, <1>8, <1>9 DEF HandOverInv

LEMMA RestartHandOver ==
  ASSUME HandOverInv, StoreTypeOK', Restart
  PROVE  HandOverInv'
<1>1. /\ restarts' = restarts + 1 /\ open' = [s \in Streams |-> NULL]
      /\ fdMin' = [s \in Streams |-> 0]
      /\ UNCHANGED <<clock, shm, mq, handed, dropped>>
  BY DEF Restart
<1>2. StoreTypeOK /\ FdsAgree /\ AllPlaced /\ BatchesSeparate /\ NoFileForgotten
  BY DEF HandOverInv
<1>3. Onward
  <2>1. \A t \in Types : clock[t] <= clock'[t]
    BY <1>1, <1>2, StoreAssumption DEF StoreTypeOK, Minutes
  <2> QED BY <1>1, <2>1 DEF Onward
<1>4. AllPlaced' /\ BatchesSeparate'
  <2>1. Announcements' = Announcements
    BY <1>1 DEF Announcements
  <2> QED BY <1>2, <1>3, <2>1, KeptPlaced
<1>5. FdsAgree'
  BY <1>1 DEF FdsAgree
<1>6. NoFileForgotten'
  <2>1. restarts \in Nat
    BY <1>2, StoreAssumption DEF StoreTypeOK
  <2>2. restarts' # 0
    BY <1>1, <2>1
  <2> QED BY <2>2 DEF NoFileForgotten
<1> QED BY <1>4, <1>5, <1>6 DEF HandOverInv

\* stprocessd takes a message or removes a file.
LEMMA ProcessorHandOver ==
  ASSUME HandOverInv, StoreTypeOK',
         TakeMessage \/ \E f : RemoveFile(f)
  PROVE  HandOverInv'
<1>1. /\ UNCHANGED <<clock, open, fdMin, dropped, restarts>>
      /\ DOMAIN shm' \subseteq DOMAIN shm
  BY DEF TakeMessage, RemoveFile, fds, Restrict
<1>2. StoreTypeOK /\ FdsAgree /\ AllPlaced /\ BatchesSeparate /\ NoFileForgotten
  BY DEF HandOverInv
<1>3. Announcements' = Announcements
  <2>1. CASE TakeMessage
    BY <1>2, <2>1, TakingKeeps
  <2>2. CASE \E f : RemoveFile(f)
    BY <2>2 DEF RemoveFile, Announcements
  <2> QED BY <2>1, <2>2
<1>4. Onward
  <2>1. \A u \in Streams : fdMin[u] <= fdMin[u]
    BY <1>2, TimesType
  <2>2. \A t \in Types : clock[t] <= clock[t]
    BY <1>2, StoreAssumption DEF StoreTypeOK, Minutes
  <2> QED BY <1>1, <2>1, <2>2 DEF Onward
<1>5. AllPlaced' /\ BatchesSeparate'
  BY <1>2, <1>3, <1>4, KeptPlaced
<1>6. FdsAgree'
  BY <1>1, <1>2 DEF FdsAgree
<1>7. NoFileForgotten'
  BY <1>1, <1>2, <1>3 DEF NoFileForgotten, OpenFiles, Announced
<1> QED BY <1>5, <1>6, <1>7 DEF HandOverInv

\* What is known of the message that AddToNewFile makes.
LEMMA NewMessage ==
  ASSUME HandOverInv, NEW s \in Streams, NEW m \in Minutes, open[s] # NULL,
         m # fdMin[s], clock[s[2]] <= m
  PROVE  LET msg == MessageOf(s, m)
         IN  /\ msg \in Messages /\ msg.stream = s /\ msg.file = open[s]
             /\ msg.file.stream = s
             /\ msg.file.minute <= msg.timestamp /\ msg.timestamp < m
             /\ \A i \in DOMAIN Announcements :
                  Announcements[i].stream = msg.stream
                    => Announcements[i].timestamp < msg.file.minute
<1> DEFINE msg == MessageOf(s, m)
<1>1. StoreTypeOK /\ FdsAgree /\ AllPlaced
  BY DEF HandOverInv
<1>2. msg.stream = s /\ msg.file = open[s] /\ msg.timestamp = m - 1
  BY DEF MessageOf
<1>3. open[s] = FileOf(s, fdMin[s]) /\ fdMin[s] <= clock[s[2]] /\ fdMin[s] # 0
  BY <1>1 DEF FdsAgree
<1>4. msg.file.stream = s /\ msg.file.minute = fdMin[s]
  BY <1>2, <1>3, FileType
<1>5. fdMin[s] \in Nat /\ clock[s[2]] \in Nat /\ m \in Nat
  <2>1. m \in Nat
    BY StoreAssumption DEF Minutes
  <2> QED BY <1>1, <2>1, TimesType
<1>6. fdMin[s] <= m - 1 /\ m - 1 < m
  <2> DEFINE c == clock[s[2]]
  <2>1. fdMin[s] \in Nat /\ c \in Nat /\ m \in Nat /\ fdMin[s] <= c /\ c <= m /\ m # fdMin[s]
    BY <1>3, <1>5
  <2> HIDE DEF c
  <2> QED BY <2>1
<1>7. msg \in Messages
  BY <1>1, MessageType
<1>8. \A i \in DOMAIN Announcements :
        Announcements[i].stream = s => Announcements[i].timestamp < fdMin[s]
  BY <1>1 DEF AllPlaced, Placed
<1> HIDE DEF msg
<1>9. /\ msg \in Messages /\ msg.stream = s /\ msg.file = open[s]
      /\ msg.file.stream = s
      /\ msg.file.minute <= msg.timestamp /\ msg.timestamp < m
      /\ \A i \in DOMAIN Announcements :
           Announcements[i].stream = msg.stream
             => Announcements[i].timestamp < msg.file.minute
  BY <1>2, <1>4, <1>6, <1>7, <1>8
<1> QED BY <1>9 DEF msg

\* A sample into a new file; the file that was open is announced or dropped.
LEMMA NewHandOver ==
  ASSUME HandOverInv, StoreTypeOK',
         NEW s \in Streams, NEW m \in Minutes, NEW k, AddToNewFile(s, m, k)
  PROVE  HandOverInv'
<1> DEFINE f == FileOf(s, m)
           msg == MessageOf(s, m)
<1>1. /\ m # fdMin[s] /\ Log(s, m, k)
      /\ IF open[s] = NULL THEN UNCHANGED <<mq, dropped>> ELSE Send(msg)
      /\ shm' = WriteTo(Create(shm, f), f, 0, Len(log) + 1)
      /\ open' = [open EXCEPT ![s] = f] /\ fdMin' = [fdMin EXCEPT ![s] = m]
      /\ handed' = handed /\ restarts' = restarts
  BY DEF AddToNewFile
<1>2. StoreTypeOK /\ FdsAgree /\ AllPlaced /\ BatchesSeparate /\ NoFileForgotten
  BY DEF HandOverInv
<1>3. /\ \A t \in Types : clock[t] <= clock'[t]
      /\ clock'[s[2]] = m /\ clock[s[2]] <= m
  BY <1>1, <1>2, LogType
<1>4. f \in Files /\ f # NULL /\ m \in Nat /\ m # 0
  BY FileType, StoreAssumption DEF Minutes
<1>5. /\ open' \in [Streams -> Files \cup {NULL}] /\ open'[s] = f
      /\ fdMin'[s] = m
      /\ \A u \in Streams : u # s => open'[u] = open[u] /\ fdMin'[u] = fdMin[u]
  BY <1>1, <1>2, <1>4 DEF StoreTypeOK
<1> HIDE DEF msg
<1>6. open[s] # NULL =>
        /\ msg \in Messages /\ msg.stream = s /\ msg.file = open[s]
        /\ msg.file.stream = s
        /\ msg.file.minute <= msg.timestamp /\ msg.timestamp < m
        /\ \A i \in DOMAIN Announcements :
             Announcements[i].stream = msg.stream
               => Announcements[i].timestamp < msg.file.minute
  BY <1>1, <1>3, NewMessage DEF msg
<1>7. Onward
  <2>1. \A u \in Streams : fdMin[u] <= fdMin[u]
    BY <1>2, TimesType
  <2>2. \A u \in Streams : u = s => clock[u[2]] <= fdMin'[u]
    BY <1>3, <1>5
  <2> QED BY <1>3, <1>5, <2>1, <2>2 DEF Onward
<1>8. FdsAgree'
  <2>1. \A u \in Streams : fdMin[u] <= clock[u[2]] => fdMin[u] <= clock'[u[2]]
    BY <1>2, <1>7, LaterClock
  <2>2. m <= clock'[s[2]]
    BY <1>3, <1>4
  <2>3. ASSUME NEW u \in Streams
        PROVE  /\ open'[u] = NULL <=> fdMin'[u] = 0
               /\ open'[u] # NULL =>
                    open'[u] = FileOf(u, fdMin'[u]) /\ fdMin'[u] <= clock'[u[2]]
    <3>1. CASE u = s
      BY <3>1, <2>2, <1>4, <1>5
    <3>2. CASE u # s
      BY <3>2, <2>1, <1>2, <1>5 DEF FdsAgree
    <3> QED BY <3>1, <3>2
  <2> QED BY <2>3 DEF FdsAgree
<1> HIDE DEF f
<1>9. DOMAIN shm' = DOMAIN shm \cup {f}
  BY <1>1 DEF WriteTo, Create
<1>10. \A x \in OpenFiles : x = open[s] \/ x \in OpenFiles'
  BY <1>2, <1>5 DEF OpenFiles
<1>11. f \in OpenFiles'
  BY <1>4, <1>5 DEF OpenFiles
<1>12. CASE open[s] = NULL
  <2>1. mq' = mq /\ dropped' = dropped
    BY <1>1, <1>12
  <2>2. Announcements' = Announcements
    BY <1>1, <2>1 DEF Announcements
  <2>3. AllPlaced' /\ BatchesSeparate'
    BY <1>2, <1>7, <2>2, KeptPlaced
  <2>4. OpenFiles \subseteq OpenFiles'
    BY <1>10, <1>12 DEF OpenFiles
  <2>5. NoFileForgotten'
    BY <1>1, <1>2, <1>9, <1>11, <2>1, <2>2, <2>4 DEF NoFileForgotten, Announced
  <2> QED BY <1>8, <2>3, <2>5 DEF HandOverInv
<1>13. CASE open[s] # NULL
  <2>1. /\ dropped \subseteq dropped'
        /\ mq' = Append(mq, msg) \/ (mq' = mq /\ msg.file \in dropped')
    BY <1>1, <1>2, <1>6, <1>13, SendType DEF StoreTypeOK
  <2>2. Placed(msg, clock', open', fdMin')
    BY <1>3, <1>5, <1>6, <1>13 DEF Placed
  <2>3. CASE mq' = Append(mq, msg)
    <3>1. Announcements' = Append(Announcements, msg)
      BY <1>1, <1>2, <1>6, <1>13, <2>3, SendingAdds
    <3>2. AllPlaced' /\ BatchesSeparate'
      BY <1>2, <1>6, <1>7, <1>13, <2>2, <3>1, AddedPlaced
    <3>3. Announced' = Announced \cup {open[s]}
      BY <1>2, <1>6, <1>13, <3>1, AnnouncedAdded
    <3>4. NoFileForgotten'
      BY <1>1, <1>2, <1>9, <1>10, <1>11, <2>1, <3>3 DEF NoFileForgotten
    <3> QED BY <1>8, <3>2, <3>4 DEF HandOverInv
  <2>4. CASE mq' = mq /\ msg.file \in dropped'
    <3>1. Announcements' = Announcements
      BY <1>1, <2>4 DEF Announcements
    <3>2. AllPlaced' /\ BatchesSeparate'
      BY <1>2, <1>7, <3>1, KeptPlaced
    <3>3. Announced' = Announced /\ open[s] \in dropped'
      BY <1>6, <1>13, <2>4, <3>1 DEF Announced
    <3>4. NoFileForgotten'
      BY <1>1, <1>2, <1>9, <1>10, <1>11, <2>1, <3>3 DEF NoFileForgotten
    <3> QED BY <1>8, <3>2, <3>4 DEF HandOverInv
  <2> QED BY <2>1, <2>3, <2>4
<1> QED BY <1>12, <1>13

LEMMA StepHandOver ==
  ASSUME HandOverInv, StoreNext
  PROVE  HandOverInv'
<1>1. StoreTypeOK'
  BY StepStoreType DEF HandOverInv
<1>2. ASSUME NEW s \in Streams, NEW k, AddToOpenFile(s, k)
      PROVE  HandOverInv'
  BY <1>1, <1>2, OpenHandOver
<1>3. ASSUME NEW s \in Streams, NEW m \in Minutes, NEW k, AddToNewFile(s, m, k)
      PROVE  HandOverInv'
  BY <1>1, <1>3, NewHandOver
<1>4. CASE Restart
  BY <1>1, <1>4, RestartHandOver
<1>5. CASE TakeMessage \/ \E f : RemoveFile(f)
  BY <1>1, <1>5, ProcessorHandOver
<1> QED BY <1>2, <1>3, <1>4, <1>5 DEF StoreNext, Adding

\* A file that has been announced is from before the file that is open now, and
\* from before every file that is still to be created.
LEMMA AnnouncedIsOlder ==
  ASSUME HandOverInv, NEW x \in Announced, NEW s \in Streams
  PROVE  /\ open[s] # x
         /\ \A m \in Minutes : clock[s[2]] <= m => FileOf(s, m) # x
<1>1. StoreTypeOK /\ FdsAgree /\ AllPlaced /\ BatchesSeparate
  BY DEF HandOverInv
<1>2. PICK i \in DOMAIN Announcements : x = Announcements[i].file
  BY DEF Announced
<1> DEFINE a == Announcements[i]
           c == clock[s[2]]
<1>3. a \in Messages
  <2>1. Announcements \in Seq(Messages)
    BY <1>1, AnnouncementsType
  <2> HIDE DEF Messages
  <2> QED BY <1>2, <2>1
<1>4. /\ x = a.file /\ a.file.stream = a.stream /\ a.file.minute <= a.timestamp
      /\ a.timestamp < clock[a.stream[2]]
      /\ open[a.stream] # NULL => a.timestamp < fdMin[a.stream]
  BY <1>1, <1>2 DEF AllPlaced, Placed
<1> HIDE DEF a
<1>5. a.timestamp \in Nat /\ a.file \in Files /\ a.file.minute \in Nat
  BY <1>3, MessageFields
<1>6. fdMin[s] \in Nat /\ c \in Nat /\ Minutes \subseteq Nat
  <2>1. Minutes \subseteq Nat
    BY StoreAssumption DEF Minutes
  <2> QED BY <1>1, <2>1, TimesType
<1>7. open[s] # x
  <2> SUFFICES ASSUME open[s] = x PROVE FALSE
    OBVIOUS
  <2>1. open[s] # NULL
    BY <1>4, <1>5, StoreAssumption
  <2>2. open[s] = FileOf(s, fdMin[s])
    BY <1>1, <2>1 DEF FdsAgree
  <2>3. a.stream = s /\ a.file.minute = fdMin[s]
    BY <1>4, <2>2, FileType
  <2>4. a.timestamp < fdMin[s] /\ fdMin[s] <= a.timestamp
    BY <1>4, <2>1, <2>3
  <2> QED BY <1>5, <1>6, <2>4
<1>8. ASSUME NEW m \in Minutes, c <= m, FileOf(s, m) = x
      PROVE  FALSE
  <2>1. a.stream = s /\ a.file.minute = m
    BY <1>4, <1>8, FileType
  <2>2. a.timestamp < c /\ m <= a.timestamp
    BY <1>4, <2>1
  <2>3. m \in Nat
    BY <1>6
  <2> HIDE DEF c
  <2> QED BY <1>5, <1>6, <1>8, <2>2, <2>3
<1> QED BY <1>7, <1>8

LEMMA StepFinal ==
  ASSUME HandOverInv, StoreNext, NEW x \in Announced, x \in DOMAIN shm'
  PROVE  x \in DOMAIN shm /\ shm'[x] = shm[x]
<1>0. StoreTypeOK
  BY DEF HandOverInv
<1>1. ASSUME NEW s \in Streams, NEW k, AddToOpenFile(s, k)
      PROVE  x \in DOMAIN shm /\ shm'[x] = shm[x]
  <2>1. open[s] # x
    BY AnnouncedIsOlder
  <2>2. shm' = WriteTo(shm, open[s], pos[s], Len(log) + 1)
    BY <1>1 DEF AddToOpenFile
  <2> QED BY <2>1, <2>2 DEF WriteTo
<1>2. ASSUME NEW s \in Streams, NEW m \in Minutes, NEW k, AddToNewFile(s, m, k)
      PROVE  x \in DOMAIN shm /\ shm'[x] = shm[x]
  <2> DEFINE f == FileOf(s, m)
  <2>1. Log(s, m, k) /\ shm' = WriteTo(Create(shm, f), f, 0, Len(log) + 1)
    BY <1>2 DEF AddToNewFile
  <2>2. clock[s[2]] <= m
    BY <1>0, <2>1, LogType
  <2>3. f # x
    BY <2>2, AnnouncedIsOlder
  <2> HIDE DEF f
  <2> QED BY <2>1, <2>3 DEF WriteTo, Create
<1>3. CASE Restart
  BY <1>3 DEF Restart
<1>4. CASE TakeMessage
  BY <1>4 DEF TakeMessage
<1>5. ASSUME NEW f, RemoveFile(f)
      PROVE  x \in DOMAIN shm /\ shm'[x] = shm[x]
  BY <1>5 DEF RemoveFile, Restrict
<1> QED BY <1>1, <1>2, <1>3, <1>4, <1>5 DEF StoreNext, Adding

LEMMA StutterHandOver == HandOverInv /\ UNCHANGED storeVars => HandOverInv'
BY DEF HandOverInv, StoreTypeOK, FdsAgree, AllPlaced, Placed, BatchesSeparate,
       NoFileForgotten, Announcements, Announced, OpenFiles, storeVars

-----------------------------------------------------------------------------
(* What the files hold.                                                    *)

\* No step takes a sample out of the log.
LogKept == /\ DOMAIN log \subseteq DOMAIN log'
           /\ \A n \in DOMAIN log : log'[n] = log[n]

LEMMA LogAdds ==
  ASSUME StoreTypeOK, NEW s \in Streams, NEW m \in Minutes, NEW k, Log(s, m, k)
  PROVE  LET n == Len(log) + 1
         IN  /\ n \in Sample /\ DOMAIN log = 1..Len(log) /\ Len(log) \in Nat
             /\ n \notin DOMAIN log /\ DOMAIN log' = DOMAIN log \cup {n}
             /\ log'[n].file = FileOf(s, m) /\ log'[n].kind = k
             /\ LogKept
<1> DEFINE E == [file : Files, kind : FrameKinds \cup {"cntr"}]
           e == [file |-> FileOf(s, m), kind |-> k]
<1>1. log \in Seq(E) /\ log' = Append(log, e)
  BY DEF StoreTypeOK, Log
<1>2. e \in E
  <2>1. k \in FrameKinds \cup {"cntr"}
    BY StoreAssumption DEF Log
  <2> QED BY <2>1, FileType
<1>3. e.file = FileOf(s, m) /\ e.kind = k
  OBVIOUS
<1> HIDE DEF E, e
<1>4. /\ Len(log) \in Nat /\ DOMAIN log = 1..Len(log)
      /\ log' \in Seq(E) /\ Len(log') = Len(log) + 1
      /\ \A i \in 1..Len(log) : log'[i] = log[i]
      /\ log'[Len(log) + 1] = e
  BY <1>1, <1>2, AppendProperties, LenProperties
<1>5. DOMAIN log' = 1..(Len(log) + 1)
  BY <1>4, LenProperties
<1>6. Len(log) + 1 \in Sample
  BY <1>4 DEF Sample
<1>7. 1..(Len(log) + 1) = 1..Len(log) \cup {Len(log) + 1} /\ Len(log) + 1 \notin 1..Len(log)
  BY <1>4
<1>8. LogKept
  BY <1>4, <1>5, <1>7 DEF LogKept
<1> QED BY <1>3, <1>4, <1>5, <1>6, <1>7, <1>8

\* The file S[f] is the samples of log L with that name, or a part of them, and
\* holds none twice.
Contents(S, L) ==
  \A f \in DOMAIN S :
    /\ IsInjective(S[f])
    /\ \A n \in Range(S[f]) : n \in DOMAIN L /\ L[n].file = f

\* Counter samples are in the files of counters.
KindsAgree ==
  \A n \in DOMAIN log : log[n].kind = "cntr" <=> log[n].file.stream[2] = "cntr"

FilesInv == Contents(shm, log) /\ KindsAgree

LEMMA OverwriteElements ==
  ASSUME NEW T, NEW c \in Seq(T), NEW p \in Nat, NEW x \in T
  PROVE  /\ Range(Overwrite(c, p, x)) \subseteq Range(c) \cup {x}
         /\ IsInjective(c) /\ x \notin Range(c) => IsInjective(Overwrite(c, p, x))
         /\ p = Len(c) => Overwrite(c, p, x) = Append(c, x)
<1>1. Len(c) \in Nat /\ DOMAIN c = 1..Len(c)
  OBVIOUS
<1>2. p < Len(c) => p # Len(c) /\ p + 1 \in DOMAIN c
  <2>1. \A a, b \in Nat : a < b => a # b /\ a + 1 \in 1..b
    OBVIOUS
  <2> QED BY <1>1, <2>1
<1> DEFINE d == [c EXCEPT ![p + 1] = x]
<1>3. CASE p < Len(c)
  <2>1. DOMAIN d = DOMAIN c /\ \A i \in DOMAIN c : d[i] = IF i = p + 1 THEN x ELSE c[i]
    OBVIOUS
  <2>2. Overwrite(c, p, x) = d
    BY <1>3 DEF Overwrite
  <2> HIDE DEF d
  <2> QED BY <1>2, <1>3, <2>1, <2>2 DEF Range, IsInjective
<1>4. CASE ~(p < Len(c))
  BY <1>4, AppendElements DEF Overwrite
<1> QED BY <1>3, <1>4

LEMMA ContentsWritten ==
  ASSUME NEW S, FilesTyped(S), NEW L, NEW K, Contents(S, L),
         DOMAIN L \subseteq DOMAIN K, \A i \in DOMAIN L : K[i] = L[i],
         NEW f, NEW p \in Nat, NEW n \in Sample,
         n \notin DOMAIN L, n \in DOMAIN K, K[n].file = f
  PROVE  Contents(WriteTo(S, f, p, n), K)
<1> DEFINE W == WriteTo(S, f, p, n)
<1>1. /\ DOMAIN W = DOMAIN S
      /\ \A g \in DOMAIN S : W[g] = IF g = f THEN Overwrite(S[f], p, n) ELSE S[g]
  BY WriteFile
<1> HIDE DEF W
<1>2. ASSUME NEW g \in DOMAIN S
      PROVE  /\ IsInjective(W[g])
             /\ \A i \in Range(W[g]) : i \in DOMAIN K /\ K[i].file = g
  <2>1. /\ IsInjective(S[g]) /\ S[g] \in Seq(Sample)
        /\ \A i \in Range(S[g]) : i \in DOMAIN L /\ L[i].file = g
    BY <1>2 DEF Contents, FilesTyped
  <2>2. CASE g # f
    BY <1>1, <2>1, <2>2
  <2>3. CASE g = f
    <3>1. n \notin Range(S[g])
      BY <2>1
    <3>2. /\ Range(Overwrite(S[g], p, n)) \subseteq Range(S[g]) \cup {n}
          /\ IsInjective(Overwrite(S[g], p, n))
      BY <2>1, <3>1, OverwriteElements
    <3> QED BY <1>1, <2>1, <2>3, <3>2
  <2> QED BY <2>2, <2>3
<1> QED BY <1>1, <1>2 DEF Contents, W

LEMMA ContentsCreated ==
  ASSUME NEW S, NEW L, Contents(S, L), NEW f
  PROVE  Contents(Create(S, f), L)
<1>1. DOMAIN <<>> = {} /\ IsInjective(<<>>) /\ Range(<<>>) = {}
  BY DEF IsInjective, Range
<1>2. /\ DOMAIN Create(S, f) = DOMAIN S \cup {f}
      /\ \A x \in DOMAIN S : Create(S, f)[x] = S[x]
      /\ f \notin DOMAIN S => Create(S, f)[f] = <<>>
  BY CreateFile
<1> QED BY <1>1, <1>2 DEF Contents

LEMMA KindsKept ==
  ASSUME StoreTypeOK, KindsAgree, NEW s \in Streams, NEW m \in Minutes, NEW k, Log(s, m, k)
  PROVE  KindsAgree'
<1> DEFINE n == Len(log) + 1
<1>1. /\ DOMAIN log' = DOMAIN log \cup {n}
      /\ log'[n].file = FileOf(s, m) /\ log'[n].kind = k
      /\ \A i \in DOMAIN log : log'[i] = log[i]
  BY LogAdds DEF LogKept
<1> HIDE DEF n
<1>2. FileOf(s, m).stream = s
  BY FileType
<1>3. k = "cntr" <=> s[2] = "cntr"
  <2>1. k \in (IF s[2] = "flow" THEN Kinds ELSE {"cntr"})
    BY DEF Log
  <2>2. s[2] = "flow" \/ s[2] = "cntr"
    BY DEF Streams, Types
  <2>3. "cntr" \notin Kinds
    BY StoreAssumption DEF FrameKinds
  <2> QED BY <2>1, <2>2, <2>3
<1> QED BY <1>1, <1>2, <1>3 DEF KindsAgree

LEMMA StepFiles ==
  ASSUME HandOverInv, FilesInv, StoreNext
  PROVE  FilesInv' /\ LogKept
<1>0. /\ StoreTypeOK /\ FdsAgree /\ Contents(shm, log) /\ KindsAgree
      /\ FilesTyped(shm) /\ Minutes \subseteq Nat /\ 0 \notin Minutes
  BY StoreAssumption DEF HandOverInv, FilesInv, StoreTypeOK, FilesTyped, Minutes
<1>1. ASSUME NEW s \in Streams, NEW k, AddToOpenFile(s, k)
      PROVE  FilesInv' /\ LogKept
  <2> DEFINE m == fdMin[s]
             n == Len(log) + 1
  <2>1. /\ m # 0 /\ Log(s, m, k) /\ shm' = WriteTo(shm, open[s], pos[s], n)
    BY <1>1 DEF AddToOpenFile
  <2>2. m \in Minutes /\ pos[s] \in Nat
    BY <1>0, <2>1 DEF StoreTypeOK
  <2>3. open[s] = FileOf(s, m)
    BY <1>0, <2>1 DEF FdsAgree
  <2> HIDE DEF m
  <2>4. /\ n \in Sample /\ n \notin DOMAIN log /\ DOMAIN log' = DOMAIN log \cup {n}
        /\ log'[n].file = FileOf(s, m) /\ LogKept
    BY <1>0, <2>1, <2>2, LogAdds
  <2>5. KindsAgree'
    BY <1>0, <2>1, <2>2, KindsKept
  <2> HIDE DEF n
  <2>6. Contents(shm', log')
    BY <1>0, <2>1, <2>2, <2>3, <2>4, ContentsWritten DEF LogKept
  <2> QED BY <2>4, <2>5, <2>6 DEF FilesInv
<1>2. ASSUME NEW s \in Streams, NEW m \in Minutes, NEW k, AddToNewFile(s, m, k)
      PROVE  FilesInv' /\ LogKept
  <2> DEFINE f == FileOf(s, m)
             n == Len(log) + 1
             S == Create(shm, f)
  <2>1. Log(s, m, k) /\ shm' = WriteTo(S, f, 0, n)
    BY <1>2 DEF AddToNewFile
  <2>2. /\ n \in Sample /\ n \notin DOMAIN log /\ DOMAIN log' = DOMAIN log \cup {n}
        /\ log'[n].file = f /\ LogKept
    BY <1>0, <2>1, LogAdds
  <2>3. KindsAgree'
    BY <1>0, <2>1, KindsKept
  <2>4. f \in Files
    BY FileType
  <2> HIDE DEF f, n
  <2>5. Contents(S, log) /\ FilesTyped(S)
    BY <1>0, <2>4, ContentsCreated, FilesCreated
  <2> HIDE DEF S
  <2>6. Contents(shm', log')
    BY <2>1, <2>2, <2>5, ContentsWritten DEF LogKept
  <2> QED BY <2>2, <2>3, <2>6 DEF FilesInv
<1>3. CASE Restart \/ TakeMessage
  <2>1. log' = log /\ shm' = shm
    BY <1>3 DEF Restart, TakeMessage
  <2> QED BY <1>0, <2>1 DEF FilesInv, KindsAgree, LogKept
<1>4. ASSUME NEW f, RemoveFile(f)
      PROVE  FilesInv' /\ LogKept
  <2>1. log' = log /\ shm' = Restrict(shm, DOMAIN shm \ {f})
    BY <1>4 DEF RemoveFile
  <2>2. Contents(shm', log')
    BY <1>0, <2>1 DEF Contents, Restrict
  <2> QED BY <1>0, <2>1, <2>2 DEF FilesInv, KindsAgree, LogKept
<1> QED BY <1>1, <1>2, <1>3, <1>4 DEF StoreNext, Adding

\* As long as the collector is not restarted, every file has all the samples of
\* its agent, type and minute, and is written to at its end.
FilesComplete ==
  restarts = 0 =>
    /\ \A s \in Streams :
         open[s] # NULL => open[s] \in DOMAIN shm /\ pos[s] = Len(shm[open[s]])
    /\ \A f \in DOMAIN shm :
         f.minute <= fdMin[f.stream] /\ HoldsInOrder(shm[f], SamplesOf(f))
    /\ \A n \in DOMAIN log : log[n].file.minute <= fdMin[log[n].file.stream]

LEMMA OrderAppended ==
  ASSUME NEW S, NEW c \in Seq(Sample), HoldsInOrder(c, S),
         NEW n \in Sample, \A i \in S : i < n
  PROVE  HoldsInOrder(Append(c, n), S \cup {n})
<1> DEFINE d == Append(c, n)
<1>1. /\ Len(c) \in Nat /\ DOMAIN c = 1..Len(c) /\ DOMAIN d = 1..(Len(c) + 1)
      /\ \A i \in DOMAIN c : d[i] = c[i]
      /\ d[Len(c) + 1] = n
  OBVIOUS
<1>2. Range(d) = Range(c) \cup {n}
  BY AppendElements
<1> HIDE DEF d
<1>3. \A i \in DOMAIN c : c[i] < n
  BY DEF HoldsInOrder, Range
<1>4. \A i, j \in DOMAIN d : i < j => i \in DOMAIN c /\ (j \in DOMAIN c \/ j = Len(c) + 1)
  BY <1>1
<1>5. \A i, j \in DOMAIN d : i < j => d[i] < d[j]
  BY <1>1, <1>3, <1>4 DEF HoldsInOrder
<1> QED BY <1>2, <1>5 DEF HoldsInOrder, d

\* One more sample of file f.
LEMMA SamplesAdded ==
  ASSUME StoreTypeOK, NEW s \in Streams, NEW m \in Minutes, NEW k, Log(s, m, k)
  PROVE  /\ SamplesOf(FileOf(s, m))' = SamplesOf(FileOf(s, m)) \cup {Len(log) + 1}
         /\ \A f : f # FileOf(s, m) => SamplesOf(f)' = SamplesOf(f)
         /\ \A i \in SamplesOf(FileOf(s, m)) : i < Len(log) + 1
<1> DEFINE n == Len(log) + 1
           g == FileOf(s, m)
<1>1. /\ n \notin DOMAIN log /\ DOMAIN log' = DOMAIN log \cup {n}
      /\ log'[n].file = g /\ \A i \in DOMAIN log : log'[i] = log[i]
      /\ DOMAIN log = 1..Len(log) /\ Len(log) \in Nat
  BY LogAdds DEF LogKept
<1>2. \A i \in DOMAIN log : i < n
  BY <1>1
<1>3. g' = g
  BY DEF FileOf
<1> HIDE DEF n, g
<1>4. \A f : SamplesOf(f)' = {i \in DOMAIN log' : log'[i].file = f}
  BY DEF SamplesOf
<1>5. SamplesOf(g)' = SamplesOf(g) \cup {n}
  BY <1>1, <1>3 DEF SamplesOf
<1>6. \A f : f # g => SamplesOf(f)' = SamplesOf(f)
  BY <1>1 DEF SamplesOf
<1>7. \A i \in SamplesOf(g) : i < n
  BY <1>2 DEF SamplesOf
<1> QED BY <1>5, <1>6, <1>7 DEF n, g

LEMMA OpenComplete ==
  ASSUME HandOverInv, FilesComplete, restarts = 0,
         NEW s \in Streams, NEW k, AddToOpenFile(s, k)
  PROVE  FilesComplete'
<1> DEFINE m == fdMin[s]
           n == Len(log) + 1
           g == open[s]
<1>1. /\ StoreTypeOK /\ FdsAgree /\ FilesTyped(shm)
      /\ Minutes \subseteq Nat /\ 0 \notin Minutes
  BY StoreAssumption DEF HandOverInv, StoreTypeOK, FilesTyped, Minutes
<1>2. /\ m # 0 /\ Log(s, m, k) /\ shm' = WriteTo(shm, g, pos[s], n)
      /\ pos' = [pos EXCEPT ![s] = @ + 1] /\ open' = open /\ fdMin' = fdMin
  BY DEF AddToOpenFile
<1>3. m \in Minutes
  BY <1>1, <1>2 DEF StoreTypeOK
<1>4. g = FileOf(s, m) /\ g # NULL /\ g.stream = s /\ g.minute = m
  BY <1>1, <1>2, FileType DEF FdsAgree
<1>5. /\ g \in DOMAIN shm /\ pos[s] = Len(shm[g]) /\ shm[g] \in Seq(Sample)
      /\ HoldsInOrder(shm[g], SamplesOf(g))
  BY <1>1, <1>4 DEF FilesComplete, FilesTyped
<1>6. /\ \A f : f = g => SamplesOf(f)' = SamplesOf(g) \cup {n}
      /\ \A f : f # g => SamplesOf(f)' = SamplesOf(f)
      /\ \A i \in SamplesOf(g) : i < n
  <2>1. /\ SamplesOf(FileOf(s, m))' = SamplesOf(FileOf(s, m)) \cup {n}
        /\ \A f : f # FileOf(s, m) => SamplesOf(f)' = SamplesOf(f)
        /\ \A i \in SamplesOf(FileOf(s, m)) : i < n
    BY <1>1, <1>2, <1>3, SamplesAdded
  <2>2. \A f : SamplesOf(f)' = {i \in DOMAIN log' : log'[i].file = f}
    BY DEF SamplesOf
  <2>3. SamplesOf(FileOf(s, m))' = {i \in DOMAIN log' : log'[i].file = FileOf(s, m)}
    BY <1>2 DEF SamplesOf, FileOf
  <2> QED BY <1>4, <2>1, <2>2, <2>3
<1>7. /\ n \in Sample /\ DOMAIN log' = DOMAIN log \cup {n}
      /\ log'[n].file = FileOf(s, m) /\ LogKept
  BY <1>1, <1>2, <1>3, LogAdds
<1> HIDE DEF m, n
<1>8. /\ DOMAIN shm' = DOMAIN shm
      /\ \A f \in DOMAIN shm : shm'[f] = IF f = g THEN Append(shm[g], n) ELSE shm[f]
  <2>1. Overwrite(shm[g], pos[s], n) = Append(shm[g], n)
    <3>1. Len(shm[g]) \in Nat
      BY <1>5
    <3> QED BY <1>5, <1>7, <3>1, OverwriteElements
  <2> DEFINE p == pos[s]
  <2> HIDE DEF g, p
  <2>2. /\ DOMAIN WriteTo(shm, g, p, n) = DOMAIN shm
        /\ \A f \in DOMAIN shm :
             WriteTo(shm, g, p, n)[f] = IF f = g THEN Overwrite(shm[g], p, n) ELSE shm[f]
    BY WriteFile
  <2>3. shm' = WriteTo(shm, g, p, n) /\ Overwrite(shm[g], p, n) = Append(shm[g], n)
    BY <1>2, <2>1 DEF p
  <2> QED BY <2>2, <2>3
<1>9. ASSUME NEW u \in Streams, open[u] # NULL
      PROVE  open[u] \in DOMAIN shm' /\ pos'[u] = Len(shm'[open[u]])
  <2>1. open[u] \in DOMAIN shm /\ pos[u] = Len(shm[open[u]])
    BY <1>9 DEF FilesComplete
  <2>2. pos \in [Streams -> Nat]
    BY <1>1 DEF StoreTypeOK
  <2>3. CASE u = s
    <3>1. pos'[s] = pos[s] + 1
      BY <1>2, <2>2
    <3>2. Len(Append(shm[g], n)) = Len(shm[g]) + 1
      BY <1>5, <1>7
    <3> QED BY <1>5, <1>8, <2>1, <2>3, <3>1, <3>2
  <2>4. CASE u # s
    <3>1. open[u].stream = u
      BY <1>1, <1>9, FileType DEF FdsAgree
    <3>2. open[u] # g /\ pos'[u] = pos[u]
      BY <1>2, <1>4, <2>2, <2>4, <3>1
    <3> QED BY <1>8, <2>1, <3>2
  <2> QED BY <2>3, <2>4
<1>10. ASSUME NEW f \in DOMAIN shm'
       PROVE  f.minute <= fdMin'[f.stream] /\ HoldsInOrder(shm'[f], SamplesOf(f)')
  <2>1. f.minute <= fdMin[f.stream] /\ HoldsInOrder(shm[f], SamplesOf(f))
    BY <1>8, <1>10 DEF FilesComplete
  <2>2. HoldsInOrder(Append(shm[g], n), SamplesOf(g) \cup {n})
    BY <1>5, <1>6, <1>7, OrderAppended
  <2> HIDE DEF g
  <2>3. CASE f = g
    BY <1>2, <1>6, <1>8, <2>1, <2>2, <2>3
  <2>4. CASE f # g
    BY <1>2, <1>6, <1>8, <2>1, <2>4
  <2> QED BY <2>3, <2>4
<1>11. ASSUME NEW i \in DOMAIN log'
       PROVE  log'[i].file.minute <= fdMin'[log'[i].file.stream]
  <2>1. CASE i \in DOMAIN log
    BY <1>2, <1>7, <2>1 DEF LogKept, FilesComplete
  <2>2. CASE i = n
    <3>1. log'[i].file.minute = m /\ log'[i].file.stream = s /\ fdMin'[s] = m
      BY <1>2, <1>7, <2>2, FileType DEF m
    <3>2. m \in Nat
      BY <1>1, <1>3
    <3> HIDE DEF g
    <3> QED BY <3>1, <3>2
  <2> QED BY <1>7, <2>1, <2>2
<1> HIDE DEF g
<1> QED BY <1>2, <1>9, <1>10, <1>11 DEF FilesComplete

LEMMA NewComplete ==
  ASSUME HandOverInv, FilesComplete, restarts = 0,
         NEW s \in Streams, NEW m \in Minutes, NEW k, AddToNewFile(s, m, k)
  PROVE  FilesComplete'
<1> DEFINE n == Len(log) + 1
           g == FileOf(s, m)
<1>1. /\ StoreTypeOK /\ FdsAgree /\ FilesTyped(shm)
      /\ Minutes \subseteq Nat /\ 0 \notin Minutes
  BY StoreAssumption DEF HandOverInv, StoreTypeOK, FilesTyped, Minutes
<1>2. /\ m # fdMin[s] /\ Log(s, m, k) /\ shm' = WriteTo(Create(shm, g), g, 0, n)
      /\ open' = [open EXCEPT ![s] = g] /\ fdMin' = [fdMin EXCEPT ![s] = m]
      /\ pos' = [pos EXCEPT ![s] = 1]
  BY DEF AddToNewFile
<1>3. g \in Files /\ g.stream = s /\ g.minute = m
  BY FileType
<1>4. /\ open' \in [Streams -> Files \cup {NULL}] /\ open'[s] = g /\ fdMin'[s] = m /\ pos'[s] = 1
      /\ \A u \in Streams : u # s => open'[u] = open[u] /\ fdMin'[u] = fdMin[u] /\ pos'[u] = pos[u]
  BY <1>1, <1>2, <1>3 DEF StoreTypeOK
<1>5. fdMin[s] \in Nat /\ m \in Nat /\ fdMin[s] < m
  <2>1. clock[s[2]] <= m
    BY <1>1, <1>2, LogType
  <2>2. fdMin[s] = 0 \/ fdMin[s] <= clock[s[2]]
    BY <1>1 DEF FdsAgree
  <2>3. fdMin[s] \in Nat /\ clock[s[2]] \in Nat /\ m \in Nat /\ m # 0
    BY <1>1, TimesType
  <2> HIDE DEF g
  <2> QED BY <1>2, <2>1, <2>2, <2>3
<1>6. \A u \in Streams : \A x \in Nat : x <= fdMin[u] => x <= fdMin'[u]
  <2>1. \A u \in Streams : fdMin[u] \in Nat
    BY <1>1, TimesType
  <2> HIDE DEF g
  <2> QED BY <1>4, <1>5, <2>1
<1>7. /\ SamplesOf(g)' = SamplesOf(g) \cup {n}
      /\ \A f : f # g => SamplesOf(f)' = SamplesOf(f)
      /\ \A i \in SamplesOf(g) : i < n
  <2>1. /\ SamplesOf(FileOf(s, m))' = SamplesOf(FileOf(s, m)) \cup {n}
        /\ \A f : f # FileOf(s, m) => SamplesOf(f)' = SamplesOf(f)
        /\ \A i \in SamplesOf(FileOf(s, m)) : i < n
    BY <1>1, <1>2, SamplesAdded
  <2> QED BY <2>1 DEF SamplesOf, FileOf
<1>8. /\ n \in Sample /\ DOMAIN log' = DOMAIN log \cup {n}
      /\ log'[n].file = g /\ LogKept
  BY <1>1, <1>2, LogAdds
<1> HIDE DEF n, g
<1>9. g \notin DOMAIN shm /\ SamplesOf(g) = {}
  <2>1. ~(m <= fdMin[s])
    BY <1>5
  <2> QED BY <1>3, <2>1 DEF FilesComplete, SamplesOf
<1>10. /\ DOMAIN shm' = DOMAIN shm \cup {g}
       /\ shm'[g] = Append(<<>>, n)
       /\ \A f \in DOMAIN shm : shm'[f] = shm[f]
  <2>1. Overwrite(<<>>, 0, n) = Append(<<>>, n)
    <3>1. ~(0 < Len(<<>>))
      OBVIOUS
    <3> QED BY <3>1 DEF Overwrite
  <2>2. /\ DOMAIN Create(shm, g) = DOMAIN shm \cup {g}
        /\ \A x \in DOMAIN shm : Create(shm, g)[x] = shm[x]
        /\ Create(shm, g)[g] = <<>>
    BY <1>9, CreateFile
  <2> DEFINE S == Create(shm, g)
  <2> HIDE DEF S
  <2>3. /\ DOMAIN WriteTo(S, g, 0, n) = DOMAIN S
        /\ \A f \in DOMAIN S :
             WriteTo(S, g, 0, n)[f] = IF f = g THEN Overwrite(S[g], 0, n) ELSE S[f]
    BY WriteFile
  <2> QED BY <1>2, <1>9, <2>1, <2>2, <2>3 DEF S
<1>11. HoldsInOrder(shm'[g], SamplesOf(g)')
  <2>1. HoldsInOrder(<<>>, SamplesOf(g))
    <3>1. DOMAIN <<>> = {}
      OBVIOUS
    <3> QED BY <1>9, <3>1 DEF HoldsInOrder, Range
  <2>2. <<>> \in Seq(Sample)
    OBVIOUS
  <2>3. HoldsInOrder(Append(<<>>, n), SamplesOf(g) \cup {n})
    BY <1>7, <1>8, <2>1, <2>2, OrderAppended
  <2> QED BY <1>7, <1>10, <2>3
<1>12. ASSUME NEW u \in Streams, open'[u] # NULL
       PROVE  open'[u] \in DOMAIN shm' /\ pos'[u] = Len(shm'[open'[u]])
  <2>1. CASE u = s
    <3>1. Len(Append(<<>>, n)) = 1
      OBVIOUS
    <3> QED BY <1>4, <1>10, <2>1, <3>1
  <2>2. CASE u # s
    <3>1. open[u] \in DOMAIN shm /\ pos[u] = Len(shm[open[u]])
      BY <1>4, <1>12, <2>2 DEF FilesComplete
    <3> QED BY <1>4, <1>10, <2>2, <3>1
  <2> QED BY <2>1, <2>2
<1>13. ASSUME NEW f \in DOMAIN shm'
       PROVE  f.minute <= fdMin'[f.stream] /\ HoldsInOrder(shm'[f], SamplesOf(f)')
  <2>1. CASE f = g
    BY <1>3, <1>4, <1>5, <1>11, <2>1
  <2>2. CASE f # g
    <3>1. f \in DOMAIN shm /\ f \in Files
      BY <1>1, <1>10, <2>2 DEF FilesTyped
    <3>2. f.minute \in Nat /\ f.stream \in Streams
      BY <1>1, <3>1 DEF Files
    <3>3. f.minute <= fdMin[f.stream] /\ HoldsInOrder(shm[f], SamplesOf(f))
      BY <3>1 DEF FilesComplete
    <3> QED BY <1>6, <1>7, <1>10, <2>2, <3>1, <3>2, <3>3
  <2> QED BY <2>1, <2>2
<1>14. ASSUME NEW i \in DOMAIN log'
       PROVE  log'[i].file.minute <= fdMin'[log'[i].file.stream]
  <2>1. CASE i \in DOMAIN log
    <3> DEFINE f == log[i].file
    <3>1. f \in Files
      <4> DEFINE E == [file : Files, kind : FrameKinds \cup {"cntr"}]
      <4>1. log \in Seq(E) /\ (\A e \in E : e.file \in Files)
        BY <1>1 DEF StoreTypeOK
      <4> HIDE DEF E
      <4>2. log[i] \in E
        BY <2>1, <4>1
      <4> QED BY <4>1, <4>2
    <3>2. f.minute <= fdMin[f.stream]
      BY <2>1 DEF FilesComplete
    <3>3. log'[i].file = f
      BY <1>8, <2>1 DEF LogKept
    <3> HIDE DEF f
    <3>4. f.minute \in Nat /\ f.stream \in Streams
      BY <1>1, <3>1 DEF Files
    <3> QED BY <1>6, <3>2, <3>3, <3>4
  <2>2. CASE i = n
    BY <1>3, <1>4, <1>5, <1>8, <2>2
  <2> QED BY <1>8, <2>1, <2>2
<1> QED BY <1>12, <1>13, <1>14 DEF FilesComplete

LEMMA StepComplete ==
  ASSUME HandOverInv, FilesComplete, StoreNext
  PROVE  FilesComplete'
<1>1. ASSUME NEW s \in Streams, NEW k, AddToOpenFile(s, k)
      PROVE  FilesComplete'
  <2>1. restarts' = restarts
    BY <1>1 DEF AddToOpenFile
  <2>2. CASE restarts = 0
    BY <1>1, <2>2, OpenComplete
  <2> QED BY <2>1, <2>2 DEF FilesComplete
<1>2. ASSUME NEW s \in Streams, NEW m \in Minutes, NEW k, AddToNewFile(s, m, k)
      PROVE  FilesComplete'
  <2>1. restarts' = restarts
    BY <1>2 DEF AddToNewFile
  <2>2. CASE restarts = 0
    BY <1>2, <2>2, NewComplete
  <2> QED BY <2>1, <2>2 DEF FilesComplete
<1>3. CASE Restart
  <2>1. restarts' = restarts + 1 /\ restarts \in Nat
    BY <1>3 DEF Restart, HandOverInv, StoreTypeOK
  <2> QED BY <2>1 DEF FilesComplete
<1>4. CASE TakeMessage
  BY <1>4 DEF TakeMessage, fds, FilesComplete, SamplesOf
<1>5. ASSUME NEW i \in DOMAIN handed, RemoveFile(handed[i].file)
      PROVE  FilesComplete'
  <2> DEFINE g == handed[i].file
  <2>1. /\ shm' = Restrict(shm, DOMAIN shm \ {g}) /\ UNCHANGED <<log, open, fdMin, pos, restarts>>
    BY <1>5 DEF RemoveFile, fds
  <2>2. g \in Announced
    <3>1. handed \in Seq(Messages) /\ mq \in Seq(Messages)
      BY DEF HandOverInv, StoreTypeOK
    <3>2. i \in DOMAIN Announcements /\ Announcements[i] = handed[i]
      <4> HIDE DEF Messages
      <4> QED BY <3>1 DEF Announcements
    <3> QED BY <3>2 DEF Announced
  <2> HIDE DEF g
  <2>3. \A s \in Streams : open[s] # g
    BY <2>2, AnnouncedIsOlder
  <2> QED BY <2>1, <2>3 DEF FilesComplete, SamplesOf, Restrict
<1> QED BY <1>1, <1>2, <1>3, <1>4, <1>5 DEF StoreNext, Adding

-----------------------------------------------------------------------------
(* Processor does to the files and to the queue what SampleStore allows.   *)

\* The file being read or removed is one stprocessd was told of.
JobReceived ==
  proc \in {"read", "unlink"} => \E i \in DOMAIN handed : handed[i] = job

ProcessorInv == HandOverInv /\ JobReceived

LEMMA StepUsesStore ==
  ASSUME ProcessorInv, Next
  PROVE  [StoreNext]_storeVars /\ JobReceived'
<1>0. StoreTypeOK /\ JobReceived
  BY DEF ProcessorInv, HandOverInv
<1>1. CASE Collecting
  <2>1. (Adding \/ Restart) /\ proc' = proc /\ job' = job
    BY <1>1 DEF Collecting, procVars, memory
  <2>2. handed' = handed
    BY <2>1 DEF Adding, AddToOpenFile, AddToNewFile, Restart
  <2> QED BY <1>0, <2>1, <2>2 DEF StoreNext, JobReceived
<1>2. CASE Receive
  <2>1. TakeMessage /\ proc' = "read" /\ job' = Head(mq)
    BY <1>2 DEF Receive
  <2>2. mq # <<>> /\ handed' = Append(handed, Head(mq))
    BY <2>1 DEF TakeMessage
  <2>3. mq \in Seq(Messages) /\ handed \in Seq(Messages)
    BY <1>0 DEF StoreTypeOK
  <2>4. handed'[Len(handed) + 1] = Head(mq) /\ Len(handed) + 1 \in DOMAIN handed'
    <3> HIDE DEF Messages
    <3>1. Head(mq) \in Messages
      BY <2>2, <2>3
    <3> QED BY <2>2, <2>3, <3>1
  <2> QED BY <2>1, <2>4 DEF StoreNext, JobReceived
<1>3. CASE Unlink
  <2>1. proc = "unlink" /\ RemoveFile(job.file) /\ proc' = "store"
    BY <1>3 DEF Unlink
  <2>2. PICK i \in DOMAIN handed : handed[i] = job
    BY <1>0, <2>1 DEF JobReceived
  <2>3. RemoveFile(handed[i].file)
    BY <2>1, <2>2
  <2>4. StoreNext
    BY <2>2, <2>3 DEF StoreNext
  <2>5. JobReceived'
    BY <2>1 DEF JobReceived
  <2> QED BY <2>4, <2>5
<1>4. CASE Read
  <2>1. proc = "read" /\ UNCHANGED storeVars /\ job' = job
    BY <1>4 DEF Read
  <2>2. handed' = handed
    BY <2>1 DEF storeVars
  <2> QED BY <1>0, <2>1, <2>2 DEF JobReceived
<1>5. ASSUME NEW tb, DumpRow(tb) \/ LoadTable(tb)
      PROVE  [StoreNext]_storeVars /\ JobReceived'
  <2>1. UNCHANGED storeVars /\ (proc' = "store" \/ proc' = "drop")
    BY <1>5 DEF DumpRow, LoadTable, StoringInto
  <2> QED BY <2>1 DEF JobReceived
<1>6. CASE DropTmp \/ InsertCounters \/ Start \/ Crash
  <2>1. UNCHANGED storeVars /\ proc' \notin {"read", "unlink"}
    BY <1>6 DEF DropTmp, InsertCounters, NextTable, Start, Crash
  <2> QED BY <2>1 DEF JobReceived
<1> QED BY <1>1, <1>2, <1>3, <1>4, <1>5, <1>6 DEF Next, Processing

LEMMA ProcessorInvariant == Spec => []ProcessorInv
<1>1. Init => ProcessorInv
  BY InitHandOver DEF Init, ProcessorInv, JobReceived
<1>2. ProcessorInv /\ [Next]_vars => ProcessorInv'
  <2> SUFFICES ASSUME ProcessorInv, [Next]_vars PROVE ProcessorInv'
    OBVIOUS
  <2>1. CASE Next
    <3>1. [StoreNext]_storeVars /\ JobReceived'
      BY <2>1, StepUsesStore
    <3>2. CASE StoreNext
      BY <3>1, <3>2, StepHandOver DEF ProcessorInv
    <3>3. CASE UNCHANGED storeVars
      <4>1. HandOverInv'
        BY <3>3, StutterHandOver DEF ProcessorInv
      <4> QED BY <3>1, <4>1 DEF ProcessorInv
    <3> QED BY <3>1, <3>2, <3>3
  <2>2. CASE UNCHANGED vars
    <3>1. UNCHANGED storeVars /\ proc' = proc /\ job' = job
      BY <2>2 DEF vars, procVars, memory
    <3>2. HandOverInv'
      BY <3>1, StutterHandOver DEF ProcessorInv
    <3>3. JobReceived'
      BY <3>1 DEF ProcessorInv, JobReceived, storeVars
    <3> QED BY <3>2, <3>3 DEF ProcessorInv
  <2> QED BY <2>1, <2>2
<1> QED BY <1>1, <1>2, PTL DEF Spec

-----------------------------------------------------------------------------
(* The memory of stprocessd: its types, and where it is among the tables.  *)

FlowTable == {"ethernet", "ip", "tcp", "udp"}

LEMMA FlowTableRange == Range(FlowTables) = FlowTable
BY DEF FlowTables, FlowTable, Range

\* What may be left of the tables of a batch.
Pending == {<<"ethernet", "ip", "tcp", "udp">>, <<"ip", "tcp", "udp">>,
            <<"tcp", "udp">>, <<"udp">>, <<"counters">>}

\* The tables of the layer below, where a row of tb must be before.
Below == [ethernet |-> {}, ip |-> {"ethernet"}, tcp |-> {"ip"}, udp |-> {"ip"}]

LEMMA PendingTables ==
  ASSUME NEW t \in Pending
  PROVE  /\ t \in Seq(Tables) /\ t # <<>> /\ Head(t) \in Tables /\ Tail(t) \in Seq(Tables)
         /\ Range(t) = Range(Tail(t)) \cup {Head(t)} /\ Head(t) \notin Range(Tail(t))
         /\ IF Len(t) > 1 THEN Tail(t) \in Pending ELSE Tail(t) = <<>>
         /\ IF Head(t) = "counters" THEN t = <<"counters">>
                                    ELSE /\ Head(t) \in FlowTable /\ "counters" \notin Range(t)
                                         /\ Below[Head(t)] \cap Range(t) = {}
<1>1. CASE t = <<"ethernet", "ip", "tcp", "udp">>
  <2>1. Tail(t) = <<"ip", "tcp", "udp">> /\ Head(t) = "ethernet" /\ Len(t) = 4
    BY <1>1
  <2>2. Range(t) = {"ethernet", "ip", "tcp", "udp"} /\ Range(Tail(t)) = {"ip", "tcp", "udp"}
    BY <1>1, <2>1 DEF Range
  <2> QED BY <1>1, <2>1, <2>2 DEF Pending, Tables, FlowTable, Below
<1>2. CASE t = <<"ip", "tcp", "udp">>
  <2>1. Tail(t) = <<"tcp", "udp">> /\ Head(t) = "ip" /\ Len(t) = 3
    BY <1>2
  <2>2. Range(t) = {"ip", "tcp", "udp"} /\ Range(Tail(t)) = {"tcp", "udp"}
    BY <1>2, <2>1 DEF Range
  <2> QED BY <1>2, <2>1, <2>2 DEF Pending, Tables, FlowTable, Below
<1>3. CASE t = <<"tcp", "udp">>
  <2>1. Tail(t) = <<"udp">> /\ Head(t) = "tcp" /\ Len(t) = 2
    BY <1>3
  <2>2. Range(t) = {"tcp", "udp"} /\ Range(Tail(t)) = {"udp"}
    BY <1>3, <2>1 DEF Range
  <2> QED BY <1>3, <2>1, <2>2 DEF Pending, Tables, FlowTable, Below
<1>4. CASE t = <<"udp">>
  <2>1. Tail(t) = <<>> /\ Head(t) = "udp" /\ Len(t) = 1
    BY <1>4
  <2>2. Range(t) = {"udp"} /\ Range(Tail(t)) = {}
    BY <1>4, <2>1 DEF Range
  <2> QED BY <1>4, <2>1, <2>2 DEF Tables, FlowTable, Below
<1>5. CASE t = <<"counters">>
  <2>1. Tail(t) = <<>> /\ Head(t) = "counters" /\ Len(t) = 1
    BY <1>5
  <2>2. Range(t) = {"counters"} /\ Range(Tail(t)) = {}
    BY <1>5, <2>1 DEF Range
  <2> QED BY <1>5, <2>1, <2>2 DEF Tables
<1> QED BY <1>1, <1>2, <1>3, <1>4, <1>5 DEF Pending

\* The tables a message is for.
LEMMA TablesOfType ==
  ASSUME NEW a \in Messages
  PROVE  /\ TablesOf[a.stream[2]] \in Pending
         /\ IF a.stream[2] = "cntr" THEN TablesOf[a.stream[2]] = <<"counters">>
                                    ELSE Range(TablesOf[a.stream[2]]) = FlowTable
<1>1. a.stream[2] \in Types
  BY MessageFields
<1>2. TablesOf["cntr"] = <<"counters">> /\ TablesOf["flow"] = FlowTables
  BY DEF TablesOf
<1>3. <<"counters">> \in Pending /\ FlowTables \in Pending
  BY DEF Pending, FlowTables
<1> QED BY <1>1, <1>2, <1>3, FlowTableRange DEF Types

\* The rows of a table are the samples of the batch that table is a layer of.
LEMMA RowsElements ==
  ASSUME batch \in Seq(Sample), NEW tb
  PROVE  /\ RowsFor(tb) \in Seq(Sample)
         /\ \A n : n \in Range(RowsFor(tb)) <=>
                     n \in Range(batch) /\ tb \in Layers[log[n].kind]
         /\ IsInjective(batch) => IsInjective(RowsFor(tb))
<1> DEFINE k == Len(batch)
           p == [i \in 1..k |-> IF tb \in Layers[log[batch[i]].kind] THEN <<batch[i]>> ELSE <<>>]
<1>1. k \in Nat /\ DOMAIN batch = 1..k /\ \A i \in 1..k : batch[i] \in Sample
  OBVIOUS
<1>2. RowsFor(tb) = FlattenSeq(p)
  BY <1>1 DEF RowsFor
<1> HIDE DEF k
<1>3. \A x : /\ Range(<<x>>) = {x} /\ IsInjective(<<x>>)
             /\ x \in Sample => <<x>> \in Seq(Sample)
  BY DEF Range, IsInjective
<1>4. Range(<<>>) = {} /\ IsInjective(<<>>) /\ <<>> \in Seq(Sample)
  BY DEF Range, IsInjective
<1>5. \A i \in 1..k :
        /\ p[i] \in Seq(Sample) /\ IsInjective(p[i])
        /\ \A x : x \in Range(p[i]) <=> x = batch[i] /\ tb \in Layers[log[x].kind]
  BY <1>1, <1>3, <1>4
<1>6. p \in [1..k -> Seq(Sample)]
  BY <1>5
<1> HIDE DEF p
<1>7. /\ FlattenSeq(p) \in Seq(Sample)
      /\ \A x : x \in Range(FlattenSeq(p)) <=> \E i \in 1..k : x \in Range(p[i])
      /\ /\ \A i \in 1..k : IsInjective(p[i])
         /\ \A i, j \in 1..k : i # j => Range(p[i]) \cap Range(p[j]) = {}
         => IsInjective(FlattenSeq(p))
  BY <1>1, <1>6, FlattenElements
<1>8. \A x : x \in Range(FlattenSeq(p)) <=> x \in Range(batch) /\ tb \in Layers[log[x].kind]
  <2>1. \A x : x \in Range(batch) <=> \E i \in 1..k : x = batch[i]
    BY <1>1 DEF Range
  <2> QED BY <1>5, <1>7, <2>1, ZenonT(40)
<1>9. ASSUME IsInjective(batch) PROVE IsInjective(FlattenSeq(p))
  <2>1. \A i, j \in 1..k : i # j => Range(p[i]) \cap Range(p[j]) = {}
    <3>1. \A i, j \in 1..k : batch[i] = batch[j] => i = j
      BY <1>1, <1>9 DEF IsInjective
    <3>2. \A i \in 1..k : \A x \in Range(p[i]) : x = batch[i]
      BY <1>5
    <3> QED BY <3>1, <3>2
  <2> QED BY <1>5, <1>7, <2>1
<1> QED BY <1>2, <1>7, <1>8, <1>9

\* More samples in the log do not change them.
LEMMA RowsKept ==
  ASSUME Range(batch) \subseteq DOMAIN log, LogKept, batch' = batch, NEW tb
  PROVE  RowsFor(tb)' = RowsFor(tb)
<1>1. \A i \in DOMAIN batch : log'[batch[i]] = log[batch[i]]
  BY DEF LogKept, Range
<1> DEFINE p(L) == [i \in DOMAIN batch |->
                      IF tb \in Layers[L[batch[i]].kind] THEN <<batch[i]>> ELSE <<>>]
<1>2. p(log') = p(log)
  BY <1>1
<1>3. RowsFor(tb) = FlattenSeq(p(log)) /\ RowsFor(tb)' = FlattenSeq(p(log'))
  BY DEF RowsFor, Layers
<1> HIDE DEF p
<1> QED BY <1>2, <1>3

TodoInv ==
  /\ proc \in {"off", "recv", "read"} => todo = <<>>
  /\ proc = "unlink" => todo = TablesOf[job.stream[2]]
  /\ proc \in {"store", "drop"} => todo \in Pending
  /\ proc = "drop" => Head(todo) \in FlowTable

MemoryInv == TypeOK /\ TodoInv

LEMMA InitMemory == Init => MemoryInv
<1> SUFFICES ASSUME Init PROVE MemoryInv
  OBVIOUS
<1>1. StoreTypeOK
  BY InitStoreType DEF Init
<1>2. [tb \in Range(FlowTables) |-> <<>>] \in [Range(FlowTables) -> Seq(Sample)]
  OBVIOUS
<1>3. [tb \in Tables |-> <<>>] \in [Tables -> Seq(Sample)]
  OBVIOUS
<1>4. 0 \in 0..MaxCrashes /\ 0 \in 0..MaxRefusals
  BY ProcessorAssumption
<1> QED BY <1>1, <1>2, <1>3, <1>4 DEF Init, MemoryInv, TypeOK, TodoInv

\* The end of a table: the next one, or the next message.
LEMMA NextTableTodo ==
  ASSUME todo \in Pending, NextTable
  PROVE  /\ todo' \in Seq(Tables)
         /\ \/ proc' = "store" /\ todo' \in Pending /\ todo' # <<>>
            \/ proc' = "recv" /\ todo' = <<>>
<1>1. todo' = Tail(todo) /\ proc' = IF Len(todo) > 1 THEN "store" ELSE "recv"
  BY DEF NextTable
<1>2. /\ Tail(todo) \in Seq(Tables)
      /\ IF Len(todo) > 1 THEN Tail(todo) \in Pending ELSE Tail(todo) = <<>>
  BY PendingTables
<1>3. \A t \in Pending : t # <<>>
  BY PendingTables
<1> QED BY <1>1, <1>2, <1>3

LEMMA StepMemory ==
  ASSUME MemoryInv, StoreTypeOK', Next
  PROVE  MemoryInv'
<1> USE DEF MemoryInv
<1>0. /\ TypeOK /\ TodoInv /\ batch \in Seq(Sample)
      /\ MaxCrashes \in Nat /\ MaxRefusals \in Nat
  BY ProcessorAssumption DEF TypeOK
<1>1. CASE Collecting
  BY <1>0, <1>1 DEF Collecting, procVars, memory, TypeOK, TodoInv
<1>2. CASE Receive
  <2>1. /\ proc = "recv" /\ mq # <<>> /\ proc' = "read" /\ job' = Head(mq)
        /\ UNCHANGED <<batch, todo, dumped, tmp, table, crashes, refusals>>
    BY <1>2 DEF Receive, TakeMessage
  <2>2. job' \in Messages
    <3>1. mq \in Seq(Messages)
      BY <1>0 DEF TypeOK, StoreTypeOK
    <3> HIDE DEF Messages
    <3> QED BY <2>1, <3>1
  <2> QED BY <1>0, <2>1, <2>2 DEF TypeOK, TodoInv
<1>3. CASE Read
  <2>1. /\ proc = "read" /\ todo' = TablesOf[job.stream[2]]
        /\ IF job.file \in DOMAIN shm THEN batch' = shm[job.file] /\ proc' = "unlink"
                                     ELSE batch' = <<>> /\ proc' = "store"
        /\ UNCHANGED <<job, dumped, tmp, table, crashes, refusals>>
    BY <1>3 DEF Read
  <2>2. job \in Messages
    BY <1>0, <2>1 DEF TypeOK
  <2>3. todo' \in Pending
    BY <2>1, <2>2, TablesOfType
  <2>4. todo' \in Seq(Tables) /\ todo' # <<>>
    BY <2>3, PendingTables
  <2>5. batch' \in Seq(Sample)
    <3>1. \A f \in DOMAIN shm : shm[f] \in Seq(Sample)
      BY <1>0 DEF TypeOK, StoreTypeOK
    <3>2. <<>> \in Seq(Sample)
      OBVIOUS
    <3> QED BY <2>1, <3>1, <3>2
  <2> QED BY <1>0, <2>1, <2>2, <2>3, <2>4, <2>5 DEF TypeOK, TodoInv
<1>4. CASE Unlink
  <2>1. /\ proc = "unlink" /\ proc' = "store"
        /\ UNCHANGED <<job, batch, todo, dumped, tmp, table, crashes, refusals>>
    BY <1>4 DEF Unlink, memory
  <2>2. todo \in Pending
    BY <1>0, <2>1, TablesOfType DEF TypeOK, TodoInv
  <2>3. todo # <<>>
    BY <2>2, PendingTables
  <2> QED BY <1>0, <2>1, <2>2, <2>3 DEF TypeOK, TodoInv
<1>5. ASSUME NEW tb \in Range(FlowTables), DumpRow(tb)
      PROVE  MemoryInv'
  <2>1. /\ proc = "store" /\ dumped < Len(RowsFor(tb))
        /\ tmp' = [tmp EXCEPT ![tb] = Overwrite(@, dumped, RowsFor(tb)[dumped + 1])]
        /\ dumped' = dumped + 1
        /\ UNCHANGED <<proc, job, batch, todo, table, crashes, refusals>>
    BY <1>5 DEF DumpRow, StoringInto
  <2>2. RowsFor(tb) \in Seq(Sample) /\ dumped \in Nat
    BY <1>0, RowsElements DEF TypeOK
  <2>3. RowsFor(tb)[dumped + 1] \in Sample
    <3>1. dumped + 1 \in 1..Len(RowsFor(tb))
      BY <2>1, <2>2
    <3> QED BY <2>2, <3>1
  <2>4. tmp \in [Range(FlowTables) -> Seq(Sample)]
    BY <1>0 DEF TypeOK
  <2>5. Overwrite(tmp[tb], dumped, RowsFor(tb)[dumped + 1]) \in Seq(Sample)
    BY <2>2, <2>3, <2>4, OverwriteType
  <2>6. tmp' \in [Range(FlowTables) -> Seq(Sample)]
    BY <2>1, <2>4, <2>5
  <2> QED BY <1>0, <2>1, <2>2, <2>6 DEF TypeOK, TodoInv
<1>6. ASSUME NEW tb \in Range(FlowTables), LoadTable(tb)
      PROVE  MemoryInv'
  <2>1. /\ proc = "store" /\ Head(todo) = tb /\ proc' = "drop"
        /\ \/ table' = [table EXCEPT ![tb] = @ \o tmp[tb]] /\ refusals' = refusals
           \/ refusals < MaxRefusals /\ refusals' = refusals + 1 /\ table' = table
        /\ UNCHANGED <<job, batch, todo, dumped, tmp, crashes>>
    BY <1>6 DEF LoadTable, StoringInto, memory
  <2>2. table \in [Tables -> Seq(Sample)] /\ tmp[tb] \in Seq(Sample)
    BY <1>0 DEF TypeOK
  <2>3. tb \in FlowTable /\ tb \in Tables
    BY FlowTableRange DEF FlowTable, Tables
  <2>4. table[tb] \o tmp[tb] \in Seq(Sample)
    BY <2>2, <2>3, ConcatProperties
  <2>5. table' \in [Tables -> Seq(Sample)]
    BY <2>1, <2>2, <2>4
  <2>6. refusals' \in 0..MaxRefusals
    BY <1>0, <2>1 DEF TypeOK
  <2> QED BY <1>0, <2>1, <2>3, <2>5, <2>6 DEF TypeOK, TodoInv
<1>7. CASE DropTmp
  <2>1. /\ proc = "drop" /\ tmp' = [tmp EXCEPT ![Head(todo)] = <<>>] /\ dumped' = 0 /\ NextTable
        /\ UNCHANGED <<job, batch, table, crashes, refusals>>
    BY <1>7 DEF DropTmp
  <2>2. tmp' \in [Range(FlowTables) -> Seq(Sample)]
    <3>1. <<>> \in Seq(Sample) /\ tmp \in [Range(FlowTables) -> Seq(Sample)]
      BY <1>0 DEF TypeOK
    <3> QED BY <2>1, <3>1
  <2>3. /\ todo' \in Seq(Tables)
        /\ \/ proc' = "store" /\ todo' \in Pending /\ todo' # <<>>
           \/ proc' = "recv" /\ todo' = <<>>
    BY <1>0, <2>1, NextTableTodo DEF TodoInv
  <2> QED BY <1>0, <2>1, <2>2, <2>3 DEF TypeOK, TodoInv
<1>8. CASE InsertCounters
  <2>1. /\ proc = "store" /\ NextTable
        /\ \/ table' = [table EXCEPT !["counters"] = @ \o RowsFor("counters")] /\ refusals' = refusals
           \/ refusals < MaxRefusals /\ refusals' = refusals + 1 /\ table' = table
        /\ UNCHANGED <<job, batch, dumped, tmp, crashes>>
    BY <1>8 DEF InsertCounters, StoringInto
  <2>2. table \in [Tables -> Seq(Sample)] /\ RowsFor("counters") \in Seq(Sample)
    BY <1>0, RowsElements DEF TypeOK
  <2>3. "counters" \in Tables
    BY DEF Tables
  <2>4. table["counters"] \o RowsFor("counters") \in Seq(Sample)
    BY <2>2, <2>3, ConcatProperties
  <2>5. table' \in [Tables -> Seq(Sample)]
    BY <2>1, <2>2, <2>4
  <2>6. refusals' \in 0..MaxRefusals
    BY <1>0, <2>1 DEF TypeOK
  <2>7. /\ todo' \in Seq(Tables)
        /\ \/ proc' = "store" /\ todo' \in Pending /\ todo' # <<>>
           \/ proc' = "recv" /\ todo' = <<>>
    BY <1>0, <2>1, NextTableTodo DEF TodoInv
  <2> QED BY <1>0, <2>1, <2>5, <2>6, <2>7 DEF TypeOK, TodoInv
<1>9. CASE Start
  BY <1>0, <1>9 DEF Start, memory, TypeOK, TodoInv
<1>10. CASE Crash
  <2>1. <<>> \in Seq(Sample) /\ <<>> \in Seq(Tables)
    OBVIOUS
  <2> QED BY <1>0, <1>10, <2>1 DEF Crash, TypeOK, TodoInv
<1> QED BY <1>1, <1>2, <1>3, <1>4, <1>5, <1>6, <1>7, <1>8, <1>9, <1>10 DEF Next, Processing

-----------------------------------------------------------------------------
(* The batch, and the temporary file of the table being filled.            *)

BatchInv ==
  /\ IsInjective(batch) /\ Range(batch) \subseteq DOMAIN log
  /\ proc = "unlink" => job.file \in DOMAIN shm /\ batch = shm[job.file]

\* c begins with the first p of r.
Begins(c, r, p) == p <= Len(c) /\ \A i \in 1..p : c[i] = r[i]

\* The rows dumped so far are the first of the temporary file, whatever an end
\* of stprocessd has left behind them.
DumpInv ==
  /\ proc \notin {"store", "drop"} => dumped = 0
  /\ proc = "store" =>
       /\ Head(todo) = "counters" => dumped = 0
       /\ \A tb \in FlowTable :
            tb = Head(todo) => Begins(tmp[tb], RowsFor(tb), dumped)

CoreInv == ProcessorInv /\ FilesInv /\ MemoryInv /\ BatchInv /\ DumpInv

LEMMA CoreFacts ==
  ASSUME CoreInv
  PROVE  /\ HandOverInv /\ JobReceived /\ FilesInv /\ TypeOK /\ TodoInv /\ BatchInv /\ DumpInv
         /\ batch \in Seq(Sample) /\ Range(batch) \subseteq DOMAIN log /\ dumped \in Nat
         /\ tmp \in [FlowTable -> Seq(Sample)] /\ table \in [Tables -> Seq(Sample)]
BY FlowTableRange DEF CoreInv, ProcessorInv, MemoryInv, BatchInv, TypeOK

LEMMA StepLog ==
  ASSUME HandOverInv, FilesInv, [StoreNext]_storeVars
  PROVE  FilesInv' /\ LogKept
<1>1. CASE StoreNext
  BY <1>1, StepFiles
<1>2. CASE UNCHANGED storeVars
  BY <1>2 DEF FilesInv, KindsAgree, LogKept, storeVars
<1> QED BY <1>1, <1>2

LEMMA JobAnnounced ==
  ASSUME StoreTypeOK, JobReceived, proc \in {"read", "unlink"}
  PROVE  job.file \in Announced
<1>1. PICK i \in DOMAIN handed : handed[i] = job
  BY DEF JobReceived
<1>2. handed \in Seq(Messages) /\ mq \in Seq(Messages)
  BY DEF StoreTypeOK
<1>3. i \in DOMAIN Announcements /\ Announcements[i] = handed[i]
  <2> HIDE DEF Messages
  <2> QED BY <1>2 DEF Announcements
<1> QED BY <1>1, <1>3 DEF Announced

LEMMA CollectingFiles ==
  ASSUME Adding \/ Restart
  PROVE  StoreNext /\ DOMAIN shm \subseteq DOMAIN shm'
<1>1. ASSUME NEW s \in Streams, NEW k, AddToOpenFile(s, k)
      PROVE  DOMAIN shm \subseteq DOMAIN shm'
  BY <1>1, WriteFile DEF AddToOpenFile
<1>2. ASSUME NEW s \in Streams, NEW m \in Minutes, NEW k, AddToNewFile(s, m, k)
      PROVE  DOMAIN shm \subseteq DOMAIN shm'
  <2> DEFINE g == FileOf(s, m)
             S == Create(shm, g)
             n == Len(log) + 1
  <2>1. shm' = WriteTo(S, g, 0, n)
    BY <1>2 DEF AddToNewFile
  <2>2. DOMAIN S = DOMAIN shm \cup {g}
    BY CreateFile
  <2> HIDE DEF S, g, n
  <2>3. DOMAIN WriteTo(S, g, 0, n) = DOMAIN S
    BY WriteFile
  <2> QED BY <2>1, <2>2, <2>3
<1>3. Restart => DOMAIN shm \subseteq DOMAIN shm'
  BY DEF Restart
<1> QED BY <1>1, <1>2, <1>3 DEF Adding, StoreNext

LEMMA StepBatch ==
  ASSUME CoreInv, LogKept, Next
  PROVE  BatchInv'
<1>0. /\ HandOverInv /\ JobReceived /\ FilesInv /\ TypeOK /\ BatchInv
      /\ StoreTypeOK /\ Contents(shm, log)
  BY CoreFacts DEF TypeOK, FilesInv
<1>1. CASE Collecting
  <2>1. (Adding \/ Restart) /\ UNCHANGED <<proc, job, batch>>
    BY <1>1 DEF Collecting, procVars, memory
  <2>2. StoreNext /\ DOMAIN shm \subseteq DOMAIN shm'
    BY <2>1, CollectingFiles
  <2>3. proc = "unlink" => job.file \in DOMAIN shm' /\ shm'[job.file] = shm[job.file]
    <3>1. SUFFICES ASSUME proc = "unlink"
                   PROVE  job.file \in DOMAIN shm' /\ shm'[job.file] = shm[job.file]
      OBVIOUS
    <3>2. job.file \in Announced /\ job.file \in DOMAIN shm'
      BY <1>0, <2>2, <3>1, JobAnnounced DEF BatchInv
    <3> DEFINE x == job.file
    <3> HIDE DEF x
    <3>3. x \in Announced /\ x \in DOMAIN shm'
      BY <3>2 DEF x
    <3>4. shm'[x] = shm[x]
      BY <1>0, <2>2, <3>3, StepFinal
    <3> QED BY <3>2, <3>4 DEF x
  <2> QED BY <1>0, <2>1, <2>3 DEF BatchInv, LogKept
<1>2. CASE Read
  <2>1. /\ UNCHANGED storeVars /\ job' = job
        /\ IF job.file \in DOMAIN shm THEN batch' = shm[job.file] /\ proc' = "unlink"
                                      ELSE batch' = <<>> /\ proc' = "store"
    BY <1>2 DEF Read
  <2>2. IsInjective(<<>>) /\ Range(<<>>) = {}
    BY DEF IsInjective, Range
  <2> QED BY <1>0, <2>1, <2>2 DEF BatchInv, Contents, storeVars
<1>3. CASE Receive \/ Unlink
  <2>1. batch' = batch /\ proc' # "unlink"
    BY <1>3 DEF Receive, Unlink, memory
  <2> QED BY <1>0, <2>1 DEF BatchInv, LogKept
<1>4. ASSUME NEW tb, DumpRow(tb) \/ LoadTable(tb)
      PROVE  BatchInv'
  <2>1. batch' = batch /\ proc' # "unlink"
    BY <1>4 DEF DumpRow, LoadTable, StoringInto, memory
  <2> QED BY <1>0, <2>1 DEF BatchInv, LogKept
<1>5. CASE DropTmp \/ InsertCounters \/ Start
  <2>1. batch' = batch /\ proc' # "unlink"
    BY <1>5 DEF DropTmp, InsertCounters, Start, NextTable, memory
  <2> QED BY <1>0, <2>1 DEF BatchInv, LogKept
<1>6. CASE Crash
  <2>1. IsInjective(<<>>) /\ Range(<<>>) = {}
    BY DEF IsInjective, Range
  <2> QED BY <1>6, <2>1 DEF Crash, BatchInv
<1> QED BY <1>1, <1>2, <1>3, <1>4, <1>5, <1>6 DEF Next, Processing

\* One more row into the temporary file.
LEMMA OverwriteBegins ==
  ASSUME NEW T, NEW c \in Seq(T), NEW r \in Seq(T), NEW p \in Nat, p < Len(r), Begins(c, r, p)
  PROVE  /\ Begins(Overwrite(c, p, r[p + 1]), r, p + 1)
         /\ Len(c) = p => Len(Overwrite(c, p, r[p + 1])) = p + 1
<1>1. p + 1 \in 1..Len(r)
  OBVIOUS
<1> DEFINE x == r[p + 1]
<1>2. x \in T
  BY <1>1
<1>3. p <= Len(c) /\ Len(c) \in Nat /\ \A i \in 1..p : c[i] = r[i]
  BY DEF Begins
<1> HIDE DEF x
<1>4. CASE p < Len(c)
  <2> DEFINE d == [c EXCEPT ![p + 1] = x]
  <2>1. p + 1 \in 1..Len(c)
    BY <1>4
  <2>2. Len(d) = Len(c) /\ \A i \in 1..Len(c) : d[i] = IF i = p + 1 THEN x ELSE c[i]
    BY <1>2, <2>1
  <2>3. Overwrite(c, p, x) = d
    BY <1>4 DEF Overwrite
  <2> HIDE DEF d
  <2>4. \A a, b \in Nat : a < b => a + 1 <= b /\ a # b /\ \A i \in 1..a : i \in 1..b /\ i # a + 1
    OBVIOUS
  <2>5. p + 1 <= Len(c) /\ p # Len(c) /\ \A i \in 1..p : i \in 1..Len(c) /\ i # p + 1
    BY <1>3, <1>4, <2>4
  <2>6. \A i \in 1..(p + 1) : i \in 1..p \/ i = p + 1
    OBVIOUS
  <2> QED BY <1>3, <2>1, <2>2, <2>3, <2>5, <2>6 DEF Begins, x
<1>5. CASE ~(p < Len(c))
  <2> DEFINE d == Append(c, x)
  <2>1. Len(c) = p
    BY <1>3, <1>5
  <2>2. Len(d) = p + 1 /\ d[p + 1] = x /\ \A i \in 1..p : d[i] = c[i]
    BY <1>2, <2>1
  <2>3. Overwrite(c, p, x) = d
    BY <1>5 DEF Overwrite
  <2> HIDE DEF d
  <2>6. (\A i \in 1..(p + 1) : i \in 1..p \/ i = p + 1) /\ p + 1 <= p + 1
    OBVIOUS
  <2> QED BY <1>3, <2>2, <2>3, <2>6 DEF Begins, x
<1> QED BY <1>4, <1>5 DEF x

LEMMA StepDump ==
  ASSUME CoreInv, MemoryInv', LogKept, Next
  PROVE  DumpInv'
<1>0. /\ TypeOK /\ TodoInv /\ DumpInv
      /\ batch \in Seq(Sample) /\ Range(batch) \subseteq DOMAIN log /\ dumped \in Nat
      /\ tmp \in [FlowTable -> Seq(Sample)]
      /\ tmp' \in [FlowTable -> Seq(Sample)]
  BY CoreFacts, FlowTableRange DEF MemoryInv, TypeOK
<1>1. \A tb : batch' = batch => RowsFor(tb)' = RowsFor(tb)
  BY <1>0, RowsKept
<1>2. dumped' = 0 => DumpInv'
  <2>1. \A tb \in FlowTable : 0 <= Len(tmp'[tb])
    <3>1. \A tb \in FlowTable : tmp'[tb] \in Seq(Sample)
      BY <1>0
    <3> QED BY <3>1
  <2>2. 1..0 = {}
    OBVIOUS
  <2> QED BY <2>1, <2>2 DEF DumpInv, Begins
<1>3. CASE Collecting
  <2>1. UNCHANGED <<proc, batch, todo, dumped, tmp>>
    BY <1>3 DEF Collecting, procVars, memory
  <2> QED BY <1>0, <1>1, <2>1 DEF DumpInv
<1>4. CASE Receive \/ Read \/ Unlink \/ Start
  <2>1. dumped' = dumped /\ proc \in {"off", "recv", "read", "unlink"}
    BY <1>4 DEF Receive, Read, Unlink, Start, memory
  <2> QED BY <1>0, <1>2, <2>1 DEF DumpInv
<1>5. CASE DropTmp \/ Crash
  BY <1>2, <1>5 DEF DropTmp, Crash
<1>6. CASE InsertCounters
  <2>1. proc = "store" /\ Head(todo) = "counters" /\ dumped' = dumped
    BY <1>6 DEF InsertCounters, StoringInto
  <2> QED BY <1>0, <1>2, <2>1 DEF DumpInv
<1>7. ASSUME NEW tb \in FlowTable, DumpRow(tb)
      PROVE  DumpInv'
  <2> DEFINE r == RowsFor(tb)
             d == Overwrite(tmp[tb], dumped, r[dumped + 1])
  <2>1. /\ proc = "store" /\ Head(todo) = tb /\ dumped < Len(r)
        /\ tmp' = [tmp EXCEPT ![tb] = d]
        /\ dumped' = dumped + 1
        /\ UNCHANGED <<proc, batch, todo>>
    BY <1>7 DEF DumpRow, StoringInto
  <2>2. r \in Seq(Sample) /\ tmp[tb] \in Seq(Sample) /\ Begins(tmp[tb], r, dumped)
    BY <1>0, <2>1, RowsElements DEF DumpInv
  <2>3. Begins(d, r, dumped + 1)
    <3> DEFINE c == tmp[tb]
               q == r
               p == dumped
    <3>1. c \in Seq(Sample) /\ q \in Seq(Sample) /\ p \in Nat /\ p < Len(q) /\ Begins(c, q, p)
      BY <1>0, <2>1, <2>2
    <3> HIDE DEF c, q, p
    <3>2. Begins(Overwrite(c, p, q[p + 1]), q, p + 1)
      BY <3>1, OverwriteBegins
    <3> QED BY <3>2 DEF c, q, p
  <2>4. RowsFor(tb)' = r
    BY <1>1, <2>1
  <2> HIDE DEF d, r
  <2>5. tmp'[tb] = d
    BY <1>0, <2>1
  <2>6. "counters" \notin FlowTable
    BY DEF FlowTable
  <2>7. \A u : u = Head(todo') => u = tb
    BY <2>1
  <2>8. Begins(tmp'[tb], RowsFor(tb)', dumped')
    BY <2>1, <2>3, <2>4, <2>5
  <2> QED BY <2>1, <2>6, <2>7, <2>8 DEF DumpInv
<1>8. ASSUME NEW tb, LoadTable(tb)
      PROVE  DumpInv'
  <2>1. proc' = "drop"
    BY <1>8 DEF LoadTable
  <2> QED BY <2>1 DEF DumpInv
<1> QED BY <1>3, <1>4, <1>5, <1>6, <1>7, <1>8, FlowTableRange DEF Next, Processing

LEMMA InitCore == Init => CoreInv
<1> SUFFICES ASSUME Init PROVE CoreInv
  OBVIOUS
<1>1. ProcessorInv
  BY InitHandOver DEF Init, ProcessorInv, JobReceived
<1>2. DOMAIN shm = {} /\ DOMAIN log = {} /\ Range(<<>>) = {} /\ IsInjective(<<>>)
  BY DEF Init, StoreInit, Range, IsInjective
<1>3. FilesInv
  BY <1>2 DEF FilesInv, Contents, KindsAgree
<1>4. BatchInv /\ DumpInv
  BY <1>2 DEF Init, BatchInv, DumpInv
<1> QED BY <1>1, <1>3, <1>4, InitMemory DEF CoreInv

LEMMA StepCore ==
  ASSUME CoreInv, ProcessorInv', [Next]_vars
  PROVE  CoreInv' /\ LogKept
<1>0. ProcessorInv /\ HandOverInv /\ FilesInv /\ MemoryInv /\ BatchInv /\ DumpInv
  BY CoreFacts DEF CoreInv
<1>1. [StoreNext]_storeVars
  BY <1>0, StepUsesStore DEF vars
<1>2. FilesInv' /\ LogKept
  BY <1>0, <1>1, StepLog
<1>3. CASE Next
  <2>1. StoreTypeOK'
    BY DEF ProcessorInv, HandOverInv
  <2>2. MemoryInv'
    BY <1>0, <1>3, <2>1, StepMemory
  <2> QED BY <1>2, <1>3, <2>2, StepBatch, StepDump DEF CoreInv
<1>4. CASE UNCHANGED vars
  <2>1. UNCHANGED <<storeVars, proc, job, batch, todo, dumped, tmp, table, crashes, refusals>>
    BY <1>4 DEF vars, procVars, memory
  <2>2. MemoryInv'
    <3>1. StoreTypeOK'
      BY DEF ProcessorInv, HandOverInv
    <3> QED BY <1>0, <2>1, <3>1 DEF MemoryInv, TypeOK, TodoInv
  <2>3. BatchInv'
    BY <1>0, <2>1 DEF BatchInv, storeVars
  <2>4. DumpInv'
    <3>1. \A tb : RowsFor(tb)' = RowsFor(tb)
      BY <1>0, <1>2, <2>1, RowsKept DEF BatchInv
    <3> QED BY <1>0, <2>1, <3>1 DEF DumpInv
  <2> QED BY <1>2, <2>2, <2>3, <2>4 DEF CoreInv
<1> QED BY <1>3, <1>4

LEMMA CoreInvariant == Spec => [](CoreInv /\ FilesComplete)
<1>1. Init => FilesComplete
  <2> SUFFICES ASSUME Init PROVE FilesComplete
    OBVIOUS
  <2>1. DOMAIN shm = {} /\ DOMAIN log = {} /\ \A s \in Streams : open[s] = NULL
    BY DEF Init, StoreInit
  <2> QED BY <2>1 DEF FilesComplete
<1>2. CoreInv /\ FilesComplete /\ [Next]_vars => FilesComplete'
  <2> SUFFICES ASSUME CoreInv, FilesComplete, [Next]_vars PROVE FilesComplete'
    OBVIOUS
  <2>1. ProcessorInv /\ HandOverInv
    BY CoreFacts DEF CoreInv
  <2>2. [StoreNext]_storeVars
    BY <2>1, StepUsesStore DEF vars
  <2>3. CASE StoreNext
    BY <2>1, <2>3, StepComplete
  <2>4. CASE UNCHANGED storeVars
    BY <2>4 DEF FilesComplete, SamplesOf, storeVars
  <2> QED BY <2>2, <2>3, <2>4
<1>3. CoreInv /\ ProcessorInv' /\ [Next]_vars => CoreInv'
  BY StepCore
<1> QED BY <1>1, <1>2, <1>3, InitCore, ProcessorInvariant, PTL DEF Spec

-----------------------------------------------------------------------------
(* The layers: ethernet before ip before tcp and udp.                      *)

LEMMA BelowTables ==
  /\ \A tb \in FlowTable : Below[tb] \subseteq FlowTable /\ tb \in Tables
  /\ "counters" \notin FlowTable /\ "counters" \in Tables
BY DEF FlowTable, Below, Tables

\* A sample of a layer is one of the layer below.
LEMMA BelowLayers ==
  ASSUME NEW k \in FrameKinds \cup {"cntr"}, NEW tb \in FlowTable, tb \in Layers[k]
  PROVE  Below[tb] \subseteq Layers[k]
<1>1. CASE k = "other" \/ k = "icmp"
  BY <1>1 DEF FlowTable, Below, Layers
<1>2. CASE k = "tcp" \/ k = "udp"
  BY <1>2 DEF FlowTable, Below, Layers
<1>3. CASE k = "cntr"
  BY <1>3 DEF FlowTable, Layers
<1> QED BY <1>1, <1>2, <1>3 DEF FrameKinds

LEMMA KindType ==
  ASSUME StoreTypeOK, NEW n \in DOMAIN log
  PROVE  log[n].kind \in FrameKinds \cup {"cntr"} /\ log[n].file \in Files
<1> DEFINE E == [file : Files, kind : FrameKinds \cup {"cntr"}]
<1>1. log \in Seq(E) /\ \A e \in E : e.kind \in FrameKinds \cup {"cntr"} /\ e.file \in Files
  BY DEF StoreTypeOK
<1> HIDE DEF E
<1>2. log[n] \in E
  BY <1>1
<1> QED BY <1>1, <1>2

\* What the tables of the batch that are done have got.
DoneStored ==
  proc \in {"store", "drop"} /\ Head(todo) \in FlowTable =>
    \A tb \in FlowTable : ~Remaining(tb) => Range(RowsFor(tb)) \subseteq Stored(tb)

\* Not only the tables, also the temporary files are nested in the tables of the
\* layers below: what an end of stprocessd leaves in one will be loaded later.
LayersInv ==
  refusals = 0 =>
    /\ \A tb \in FlowTable : \A u \in Below[tb] :
         Stored(tb) \subseteq Stored(u) /\ Range(tmp[tb]) \subseteq Stored(u)
    /\ DoneStored

\* The rows of the table being filled are in those of the layers below.
LEMMA RowsBelow ==
  ASSUME CoreInv, LayersInv, refusals = 0, proc = "store",
         NEW tb \in FlowTable, Head(todo) = tb, NEW u \in Below[tb]
  PROVE  Range(RowsFor(tb)) \subseteq Stored(u)
<1>1. TypeOK /\ TodoInv /\ batch \in Seq(Sample) /\ Range(batch) \subseteq DOMAIN log
  BY CoreFacts
<1>2. u \in FlowTable
  BY BelowTables
<1>3. ~Remaining(u)
  <2>1. todo \in Pending
    BY <1>1 DEF TodoInv
  <2>2. Below[tb] \cap Range(todo) = {}
    BY <2>1, PendingTables, BelowTables
  <2> QED BY <2>2 DEF Remaining
<1>4. Range(RowsFor(u)) \subseteq Stored(u)
  BY <1>2, <1>3 DEF LayersInv, DoneStored
<1>5. Range(RowsFor(tb)) \subseteq Range(RowsFor(u))
  <2>1. \A v : \A n : n \in Range(RowsFor(v)) <=> n \in Range(batch) /\ v \in Layers[log[n].kind]
    BY <1>1, RowsElements
  <2>2. ASSUME NEW n \in Range(batch), tb \in Layers[log[n].kind]
        PROVE  u \in Layers[log[n].kind]
    <3>1. log[n].kind \in FrameKinds \cup {"cntr"}
      BY <1>1, KindType DEF TypeOK
    <3> QED BY <2>2, <3>1, BelowLayers
  <2> QED BY <2>1, <2>2
<1> QED BY <1>4, <1>5

\* The temporary file has all rows when it is loaded.
LEMMA LoadedRows ==
  ASSUME CoreInv, proc = "store", NEW tb \in FlowTable, Head(todo) = tb,
         dumped = Len(RowsFor(tb))
  PROVE  /\ Range(RowsFor(tb)) \subseteq Range(tmp[tb])
         /\ Len(tmp[tb]) = dumped => tmp[tb] = RowsFor(tb)
<1> DEFINE c == tmp[tb]
           r == RowsFor(tb)
<1>1. c \in Seq(Sample) /\ r \in Seq(Sample) /\ Begins(c, r, dumped) /\ dumped = Len(r)
  BY CoreFacts, RowsElements DEF DumpInv
<1> HIDE DEF c, r
<1>2. /\ Len(r) <= Len(c) /\ (\A i \in 1..Len(r) : c[i] = r[i])
      /\ Len(r) \in Nat /\ Len(c) \in Nat /\ DOMAIN r = 1..Len(r) /\ DOMAIN c = 1..Len(c)
  BY <1>1 DEF Begins
<1>3. \A i \in DOMAIN r : i \in DOMAIN c /\ c[i] = r[i]
  BY <1>2
<1>4. Range(r) \subseteq Range(c)
  BY <1>3 DEF Range
<1>5. Len(c) = Len(r) => c = r
  BY <1>1, <1>2, SeqEqual
<1> QED BY <1>1, <1>4, <1>5 DEF c, r

LEMMA StepLayers ==
  ASSUME CoreInv, CoreInv', LogKept, LayersInv, Next
  PROVE  LayersInv'
<1>0. /\ TypeOK /\ TodoInv /\ batch \in Seq(Sample) /\ Range(batch) \subseteq DOMAIN log
      /\ dumped \in Nat
      /\ tmp \in [FlowTable -> Seq(Sample)] /\ table \in [Tables -> Seq(Sample)]
      /\ refusals \in Nat
  BY CoreFacts, ProcessorAssumption DEF TypeOK
<1>1. \A tb : batch' = batch => RowsFor(tb)' = RowsFor(tb)
  BY <1>0, RowsKept
<1>2. \A tb : table' = table => Stored(tb)' = Stored(tb)
  BY DEF Stored
<1>3. CASE Collecting
  <2>1. UNCHANGED <<proc, batch, todo, tmp, table, refusals>>
    BY <1>3 DEF Collecting, procVars, memory
  <2>2. \A tb : Remaining(tb)' = Remaining(tb)
    BY <2>1 DEF Remaining
  <2> QED BY <1>1, <1>2, <2>1, <2>2 DEF LayersInv, DoneStored
<1>4. CASE Receive \/ Start \/ Crash
  <2>1. UNCHANGED <<tmp, table, refusals>> /\ proc' \in {"off", "recv", "read"}
    BY <1>4 DEF Receive, Start, Crash
  <2> QED BY <1>2, <2>1 DEF LayersInv, DoneStored
<1>5. CASE Read \/ Unlink
  <2>1. /\ UNCHANGED <<tmp, table, refusals>> /\ proc' # "drop"
        /\ todo' = TablesOf[job.stream[2]] /\ job \in Messages
    BY <1>0, <1>5 DEF Read, Unlink, memory, TypeOK, TodoInv
  <2>2. Head(todo') \in FlowTable => Range(todo') = FlowTable
    <3>1. Head(<<"counters">>) = "counters"
      OBVIOUS
    <3> QED BY <2>1, <3>1, TablesOfType, BelowTables
  <2>3. DoneStored'
    BY <2>1, <2>2 DEF DoneStored, Remaining
  <2> QED BY <1>2, <2>1, <2>3 DEF LayersInv
<1>6. ASSUME NEW tb \in FlowTable, DumpRow(tb)
      PROVE  LayersInv'
  <2> DEFINE r == RowsFor(tb)
             x == r[dumped + 1]
  <2>1. /\ proc = "store" /\ Head(todo) = tb /\ dumped < Len(r)
        /\ tmp' = [tmp EXCEPT ![tb] = Overwrite(tmp[tb], dumped, x)]
        /\ UNCHANGED <<proc, batch, todo, table, refusals>>
    BY <1>6 DEF DumpRow, StoringInto
  <2>2. x \in Range(r) /\ x \in Sample
    <3>1. r \in Seq(Sample)
      BY <1>0, RowsElements
    <3>2. dumped + 1 \in DOMAIN r
      BY <1>0, <2>1, <3>1
    <3> QED BY <3>1, <3>2 DEF Range
  <2>3. refusals = 0 => \A u \in Below[tb] : Range(r) \subseteq Stored(u)
    BY <2>1, RowsBelow
  <2>4. Range(Overwrite(tmp[tb], dumped, x)) \subseteq Range(tmp[tb]) \cup {x}
    BY <1>0, <2>2, OverwriteElements
  <2>5. \A u : Remaining(u)' = Remaining(u)
    BY <2>1 DEF Remaining
  <2> HIDE DEF r, x
  <2>6. /\ tmp'[tb] = Overwrite(tmp[tb], dumped, x)
        /\ \A v \in FlowTable : v # tb => tmp'[v] = tmp[v]
    BY <1>0, <2>1
  <2>7. DoneStored => DoneStored'
    BY <1>1, <1>2, <2>1, <2>5 DEF DoneStored
  <2>8. refusals = 0 =>
          \A v \in FlowTable : \A u \in Below[v] : Range(tmp'[v]) \subseteq Stored(u)
    <3>1. ASSUME refusals = 0, NEW v \in FlowTable, NEW u \in Below[v]
          PROVE  Range(tmp'[v]) \subseteq Stored(u)
      <4>1. Range(tmp[v]) \subseteq Stored(u)
        BY <3>1 DEF LayersInv
      <4>2. CASE v = tb
        <5>1. x \in Stored(u)
          BY <2>2, <2>3, <3>1, <4>2
        <5> QED BY <2>4, <2>6, <4>1, <4>2, <5>1
      <4> QED BY <2>6, <4>1, <4>2
    <3> QED BY <3>1
  <2> QED BY <1>2, <2>1, <2>7, <2>8 DEF LayersInv
<1>7. ASSUME NEW tb \in FlowTable, LoadTable(tb), refusals' = 0
      PROVE  LayersInv'
  <2>1. /\ proc = "store" /\ Head(todo) = tb /\ dumped = Len(RowsFor(tb)) /\ proc' = "drop"
        /\ UNCHANGED <<batch, todo, tmp>>
    BY <1>7 DEF LoadTable, StoringInto, memory
  <2>2. table' = [table EXCEPT ![tb] = table[tb] \o tmp[tb]] /\ refusals = 0
    BY <1>0, <1>7 DEF LoadTable
  <2>3. Range(table[tb] \o tmp[tb]) = Range(table[tb]) \cup Range(tmp[tb])
    BY <1>0, BelowTables, ConcatElements
  <2>4. /\ Stored(tb)' = Stored(tb) \cup Range(tmp[tb])
        /\ \A v \in Tables : v # tb => Stored(v)' = Stored(v)
    BY <1>0, <2>2, <2>3, BelowTables DEF Stored
  <2>5. Range(RowsFor(tb)) \subseteq Range(tmp[tb])
    BY <2>1, LoadedRows
  <2>6. \A v : v # tb /\ ~Remaining(v)' => ~Remaining(v)
    BY <2>1 DEF Remaining
  <2>7. /\ \A v \in FlowTable : \A u \in Below[v] :
             Stored(v) \subseteq Stored(u) /\ Range(tmp[v]) \subseteq Stored(u)
        /\ \A v \in FlowTable : ~Remaining(v) => Range(RowsFor(v)) \subseteq Stored(v)
    BY <2>1, <2>2 DEF LayersInv, DoneStored
  <2>8. \A v \in FlowTable : ~Remaining(v)' => Range(RowsFor(v)') \subseteq Stored(v)'
    BY <1>1, <2>1, <2>4, <2>5, <2>6, <2>7, BelowTables
  <2>9. \A v \in FlowTable : \A u \in Below[v] :
          Stored(v)' \subseteq Stored(u)' /\ Range(tmp[v]) \subseteq Stored(u)'
    <3>1. \A v \in Tables : Stored(v) \subseteq Stored(v)'
      BY <2>4
    <3>2. \A v \in FlowTable : v # tb => Stored(v)' = Stored(v)
      BY <2>4, BelowTables
    <3>3. \A v \in FlowTable : \A u \in Below[v] : u \in Tables
      BY BelowTables
    <3> QED BY <2>4, <2>7, <3>1, <3>2, <3>3
  <2> QED BY <2>1, <2>8, <2>9 DEF LayersInv, DoneStored
<1>8. CASE DropTmp
  <2>1. /\ proc = "drop" /\ tmp' = [tmp EXCEPT ![Head(todo)] = <<>>] /\ NextTable
        /\ UNCHANGED <<batch, table, refusals>>
    BY <1>8 DEF DropTmp
  <2>2. \A v \in FlowTable : Range(tmp'[v]) \subseteq Range(tmp[v])
    <3>1. Range(<<>>) = {}
      BY DEF Range
    <3>2. \A v \in FlowTable : tmp'[v] = <<>> \/ tmp'[v] = tmp[v]
      BY <1>0, <2>1
    <3> QED BY <3>1, <3>2
  <2>3. todo \in Pending /\ Head(todo) \in FlowTable
    BY <1>0, <2>1 DEF TodoInv
  <2>4. todo' = Tail(todo) /\ proc' # "drop"
    BY <2>1 DEF NextTable
  <2>5. Range(todo) = Range(Tail(todo)) \cup {Head(todo)}
    BY <2>3, PendingTables
  <2>6. \A v : ~Remaining(v)' => ~Remaining(v)
    BY <2>1, <2>4, <2>5 DEF Remaining
  <2>7. DoneStored => DoneStored'
    BY <1>1, <1>2, <2>1, <2>3, <2>6 DEF DoneStored
  <2> QED BY <1>2, <2>1, <2>2, <2>7 DEF LayersInv
<1>9. CASE InsertCounters
  <2>1. /\ proc = "store" /\ Head(todo) = "counters" /\ NextTable /\ tmp' = tmp
        /\ \/ table' = [table EXCEPT !["counters"] = @ \o RowsFor("counters")] /\ refusals' = refusals
           \/ refusals' = refusals + 1 /\ table' = table
    BY <1>9 DEF InsertCounters, StoringInto
  <2>2. todo = <<"counters">>
    BY <1>0, <2>1, PendingTables DEF TodoInv
  <2>3. proc' = "recv"
    <3>1. Len(<<"counters">>) = 1
      OBVIOUS
    <3> QED BY <2>1, <2>2, <3>1 DEF NextTable
  <2>4. \A v \in FlowTable : Stored(v)' = Stored(v)
    BY <1>0, <2>1, BelowTables DEF Stored
  <2>5. refusals' = 0 => refusals = 0
    BY <1>0, <2>1
  <2> QED BY <2>1, <2>3, <2>4, <2>5, BelowTables DEF LayersInv, DoneStored
<1>10. refusals' # 0 => LayersInv'
  BY DEF LayersInv
<1> QED BY <1>3, <1>4, <1>5, <1>6, <1>7, <1>8, <1>9, <1>10, FlowTableRange DEF Next, Processing

-----------------------------------------------------------------------------
(* A sample is not stored twice.                                           *)

\* A sample that was in the log before a step and is in a file after it was in
\* that file before.
LEMMA StepOldSamples ==
  ASSUME HandOverInv, FilesInv, StoreNext, NEW f \in DOMAIN shm',
         NEW n \in Range(shm'[f]), n \in DOMAIN log
  PROVE  f \in DOMAIN shm /\ n \in Range(shm[f])
<1>0. StoreTypeOK /\ FilesTyped(shm) /\ Minutes \subseteq Nat /\ 0 \notin Minutes
  BY StoreAssumption DEF HandOverInv, StoreTypeOK, FilesTyped, Minutes
<1>1. ASSUME NEW s \in Streams, NEW k, AddToOpenFile(s, k)
      PROVE  f \in DOMAIN shm /\ n \in Range(shm[f])
  <2> DEFINE g == open[s]
             p == pos[s]
             x == Len(log) + 1
  <2>1. shm' = WriteTo(shm, g, p, x) /\ fdMin[s] # 0 /\ Log(s, fdMin[s], k)
    BY <1>1 DEF AddToOpenFile
  <2>2. p \in Nat /\ fdMin[s] \in Minutes
    BY <1>0, <2>1 DEF StoreTypeOK
  <2>3. x \in Sample /\ x \notin DOMAIN log
    BY <1>0, <2>1, <2>2, LogAdds
  <2> HIDE DEF g, p, x
  <2>4. /\ DOMAIN shm' = DOMAIN shm
        /\ shm'[f] = IF f = g THEN Overwrite(shm[g], p, x) ELSE shm[f]
    BY <2>1, WriteFile
  <2>5. shm[f] \in Seq(Sample)
    BY <1>0, <2>4 DEF FilesTyped
  <2>6. Range(Overwrite(shm[f], p, x)) \subseteq Range(shm[f]) \cup {x}
    BY <2>2, <2>3, <2>5, OverwriteElements
  <2> QED BY <2>3, <2>4, <2>6
<1>2. ASSUME NEW s \in Streams, NEW m \in Minutes, NEW k, AddToNewFile(s, m, k)
      PROVE  f \in DOMAIN shm /\ n \in Range(shm[f])
  <2> DEFINE g == FileOf(s, m)
             S == Create(shm, g)
             x == Len(log) + 1
  <2>1. shm' = WriteTo(S, g, 0, x) /\ Log(s, m, k)
    BY <1>2 DEF AddToNewFile
  <2>2. x \in Sample /\ x \notin DOMAIN log
    BY <1>0, <2>1, LogAdds
  <2>3. g \in Files
    BY FileType
  <2>4. /\ DOMAIN S = DOMAIN shm \cup {g} /\ \A h \in DOMAIN shm : S[h] = shm[h]
        /\ g \notin DOMAIN shm => S[g] = <<>>
    <3> HIDE DEF g
    <3> QED BY CreateFile, ZenonT(40)
  <2> HIDE DEF g, x
  <2>5. FilesTyped(S)
    BY <1>0, <2>3, FilesCreated
  <2> HIDE DEF S
  <2>6. /\ DOMAIN shm' = DOMAIN S
        /\ shm'[f] = IF f = g THEN Overwrite(S[g], 0, x) ELSE S[f]
    BY <2>1, WriteFile
  <2>7. S[f] \in Seq(Sample)
    BY <2>5, <2>6 DEF FilesTyped
  <2>8. Range(Overwrite(S[f], 0, x)) \subseteq Range(S[f]) \cup {x}
    BY <2>2, <2>7, OverwriteElements
  <2>9. n \in Range(S[f]) /\ Range(<<>>) = {}
    BY <2>2, <2>6, <2>8 DEF Range
  <2> QED BY <2>4, <2>6, <2>9
<1>3. CASE Restart \/ TakeMessage
  BY <1>3 DEF Restart, TakeMessage
<1>4. ASSUME NEW g, RemoveFile(g)
      PROVE  f \in DOMAIN shm /\ n \in Range(shm[f])
  BY <1>4 DEF RemoveFile, Restrict
<1> QED BY <1>1, <1>2, <1>3, <1>4 DEF StoreNext, Adding

\* A stored sample is in no file any more, one that is being stored neither, and
\* not yet in the tables that remain.
NotAgain ==
  /\ \A tb \in Tables : IsInjective(table[tb]) /\ Stored(tb) \subseteq DOMAIN log
  /\ \A f \in DOMAIN shm : \A n \in Range(shm[f]) :
       /\ \A tb \in Tables : n \notin Stored(tb)
       /\ proc \in {"store", "drop"} => n \notin Range(batch)
  /\ proc \in {"store", "drop"} =>
       \A tb \in Tables : Remaining(tb) => Range(batch) \cap Stored(tb) = {}

\* A temporary file holds the rows of the table being filled, and no others.
TmpFresh ==
  \A tb \in FlowTable :
    /\ tmp[tb] # <<>> => proc \in {"store", "drop"} /\ tb = Head(todo)
    /\ proc = "store" /\ tb = Head(todo) => Len(tmp[tb]) = dumped

OnceInv == crashes = 0 => NotAgain /\ TmpFresh

\* The rows that are added to a table are new there.
LEMMA StoringNew ==
  ASSUME CoreInv, NotAgain, proc = "store", NEW tb \in Tables, Head(todo) = tb,
         NEW T, T \in [Tables -> Seq(Sample)],
         T = [table EXCEPT ![tb] = table[tb] \o RowsFor(tb)]
  PROVE  /\ \A v \in Tables : IsInjective(T[v]) /\ Range(T[v]) \subseteq DOMAIN log
         /\ \A v \in Tables : Range(T[v]) \subseteq Stored(v) \cup Range(batch)
         /\ \A v \in Tables : v # tb => Range(T[v]) = Stored(v)
<1>1. /\ batch \in Seq(Sample) /\ Range(batch) \subseteq DOMAIN log /\ IsInjective(batch)
      /\ table \in [Tables -> Seq(Sample)] /\ TodoInv
  BY CoreFacts DEF BatchInv
<1>2. Remaining(tb)
  <2>1. todo \in Pending
    BY <1>1 DEF TodoInv
  <2> QED BY <2>1, PendingTables DEF Remaining
<1>3. Range(batch) \cap Stored(tb) = {} /\ IsInjective(table[tb]) /\ Stored(tb) \subseteq DOMAIN log
  BY <1>2 DEF NotAgain
<1> DEFINE a == table[tb]
           r == RowsFor(tb)
<1>4. /\ r \in Seq(Sample) /\ IsInjective(r) /\ Range(r) \subseteq Range(batch)
      /\ a \in Seq(Sample)
  BY <1>1, RowsElements
<1>5. T[tb] = a \o r /\ \A v \in Tables : v # tb => T[v] = table[v]
  BY <1>1
<1>6. Range(a) = Stored(tb)
  BY DEF Stored
<1> HIDE DEF a, r
<1>7. IsInjective(a)
  BY <1>3 DEF a
<1>8. Range(a \o r) = Range(a) \cup Range(r) /\ IsInjective(a \o r)
  BY <1>3, <1>4, <1>6, <1>7, ConcatElements
<1>9. \A v \in Tables : v # tb => Range(T[v]) = Stored(v)
  BY <1>5 DEF Stored
<1>10. \A v \in Tables : IsInjective(T[v]) /\ Range(T[v]) \subseteq DOMAIN log
  BY <1>1, <1>3, <1>4, <1>5, <1>6, <1>8, <1>9 DEF NotAgain
<1>11. \A v \in Tables : Range(T[v]) \subseteq Stored(v) \cup Range(batch)
  BY <1>4, <1>5, <1>6, <1>8, <1>9
<1> QED BY <1>9, <1>10, <1>11

\* Nothing but the table being filled changes.
LEMMA StoringOnce ==
  ASSUME CoreInv, NotAgain, proc = "store", NEW tb \in Tables, Head(todo) = tb,
         table' \in [Tables -> Seq(Sample)],
         table' = table \/ table' = [table EXCEPT ![tb] = table[tb] \o RowsFor(tb)],
         log' = log, shm' = shm, batch' = batch,
         \A v : Remaining(v)' => Remaining(v) /\ v # tb
  PROVE  NotAgain'
<1>1. \A v : Stored(v)' = Range(table'[v])
  BY DEF Stored
<1>2. CASE table' = table
  <2>1. \A v \in Tables : Stored(v)' = Stored(v)
    BY <1>1, <1>2 DEF Stored
  <2> QED BY <1>2, <2>1 DEF NotAgain
<1>3. CASE table' = [table EXCEPT ![tb] = table[tb] \o RowsFor(tb)]
  <2> DEFINE T == table'
  <2>1. T \in [Tables -> Seq(Sample)] /\ T = [table EXCEPT ![tb] = table[tb] \o RowsFor(tb)]
    BY <1>3
  <2> HIDE DEF T
  <2>2. /\ \A v \in Tables : IsInjective(T[v]) /\ Range(T[v]) \subseteq DOMAIN log
        /\ \A v \in Tables : Range(T[v]) \subseteq Stored(v) \cup Range(batch)
        /\ \A v \in Tables : v # tb => Range(T[v]) = Stored(v)
    BY <2>1, StoringNew, ZenonT(40)
  <2>3. \A v \in Tables : Stored(v)' = Range(T[v])
    BY <1>1 DEF T
  <2>4. \A v \in Tables : IsInjective(table'[v]) /\ Stored(v)' \subseteq DOMAIN log'
    BY <2>2, <2>3 DEF T
  <2>5. \A f \in DOMAIN shm' : \A n \in Range(shm'[f]) :
          n \notin Range(batch) /\ \A v \in Tables : n \notin Stored(v)'
    BY <2>2, <2>3 DEF NotAgain
  <2>6. \A v \in Tables : Remaining(v)' => Range(batch) \cap Stored(v)' = {}
    BY <2>2, <2>3 DEF NotAgain
  <2> QED BY <2>4, <2>5, <2>6 DEF NotAgain
<1> QED BY <1>2, <1>3

\* A step that changes neither the tables nor what remains, and no batch.
LEMMA StepNotAgain ==
  ASSUME CoreInv, LogKept, NotAgain, [StoreNext]_storeVars, table' = table,
         proc' \in {"store", "drop"} =>
           proc \in {"store", "drop"} /\ batch' = batch /\ \A v : Remaining(v)' => Remaining(v)
  PROVE  NotAgain'
<1>0. /\ HandOverInv /\ FilesInv /\ Range(batch) \subseteq DOMAIN log
  BY CoreFacts
<1>1. \A v : Stored(v)' = Stored(v)
  BY DEF Stored
<1>2. ASSUME NEW f \in DOMAIN shm', NEW n \in Range(shm'[f])
      PROVE  n \notin DOMAIN log \/ (f \in DOMAIN shm /\ n \in Range(shm[f]))
  <2>1. CASE StoreNext
    BY <1>0, <1>2, <2>1, StepOldSamples
  <2>2. CASE UNCHANGED storeVars
    BY <1>2, <2>2 DEF storeVars
  <2> QED BY <2>1, <2>2
<1>3. \A v \in Tables : IsInjective(table'[v]) /\ Stored(v)' \subseteq DOMAIN log'
  BY <1>1 DEF NotAgain, LogKept
<1>4. \A f \in DOMAIN shm' : \A n \in Range(shm'[f]) :
        /\ \A v \in Tables : n \notin Stored(v)'
        /\ proc' \in {"store", "drop"} => n \notin Range(batch')
  BY <1>0, <1>1, <1>2 DEF NotAgain
<1>5. proc' \in {"store", "drop"} =>
        \A v \in Tables : Remaining(v)' => Range(batch') \cap Stored(v)' = {}
  BY <1>1 DEF NotAgain
<1> QED BY <1>3, <1>4, <1>5 DEF NotAgain

LEMMA StepOnce ==
  ASSUME CoreInv, CoreInv', LogKept, OnceInv, Next
  PROVE  OnceInv'
<1>0. /\ HandOverInv /\ JobReceived /\ FilesInv /\ BatchInv
      /\ TypeOK /\ TodoInv /\ DumpInv /\ batch \in Seq(Sample) /\ Range(batch) \subseteq DOMAIN log
      /\ dumped \in Nat /\ crashes \in Nat
      /\ tmp \in [FlowTable -> Seq(Sample)] /\ table \in [Tables -> Seq(Sample)]
      /\ tmp' \in [FlowTable -> Seq(Sample)] /\ table' \in [Tables -> Seq(Sample)]
  <2>1. TypeOK'
    BY DEF CoreInv, MemoryInv
  <2> QED BY <2>1, CoreFacts, ProcessorAssumption, FlowTableRange, SMTT(30) DEF TypeOK
<1>1. [StoreNext]_storeVars
  BY StepUsesStore, CoreFacts DEF CoreInv
<1>2. CASE crashes' # 0
  BY <1>2 DEF OnceInv
<1>3. CASE Crash
  <2>1. crashes' # 0
    BY <1>0, <1>3 DEF Crash
  <2> QED BY <2>1 DEF OnceInv
<1> SUFFICES ASSUME crashes' = 0, ~Crash PROVE NotAgain' /\ TmpFresh'
  BY <1>3 DEF OnceInv
<1>4. crashes = 0
  BY DEF Next, Processing, Collecting, procVars, Receive, Read, Unlink, DumpRow, LoadTable,
         DropTmp, InsertCounters, Start
<1>5. NotAgain /\ TmpFresh
  BY <1>4 DEF OnceInv
<1>6. CASE Collecting
  <2>1. UNCHANGED <<proc, batch, todo, dumped, tmp, table>>
    BY <1>6 DEF Collecting, procVars, memory
  <2>2. \A v : Remaining(v)' = Remaining(v)
    BY <2>1 DEF Remaining
  <2>3. NotAgain'
    BY <1>1, <1>5, <2>1, <2>2, StepNotAgain
  <2> QED BY <1>5, <2>1, <2>3 DEF TmpFresh
<1>7. CASE Receive \/ Start
  <2>1. UNCHANGED <<tmp, table>> /\ proc' \notin {"store", "drop"} /\ proc \notin {"store", "drop"}
    BY <1>7 DEF Receive, Start
  <2>2. NotAgain'
    BY <1>1, <1>5, <2>1, StepNotAgain
  <2> QED BY <1>5, <2>1, <2>2 DEF TmpFresh
<1>8. CASE Read
  <2>1. /\ UNCHANGED <<log, shm, tmp, table, dumped>> /\ proc = "read"
        /\ \/ proc' = "unlink"
           \/ proc' = "store" /\ batch' = <<>>
    BY <1>8 DEF Read, storeVars
  <2>2. Range(<<>>) = {}
    BY DEF Range
  <2>3. \A v : Stored(v)' = Stored(v)
    BY <2>1 DEF Stored
  <2>4. NotAgain'
    BY <1>5, <2>1, <2>2, <2>3 DEF NotAgain
  <2>5. dumped = 0 /\ \A tb \in FlowTable : tmp[tb] = <<>>
    BY <1>0, <1>5, <2>1 DEF DumpInv, TmpFresh
  <2>6. Len(<<>>) = 0
    OBVIOUS
  <2> QED BY <2>1, <2>4, <2>5, <2>6 DEF TmpFresh
<1>9. CASE Unlink
  <2>1. /\ UNCHANGED <<log, tmp, table, dumped, batch>> /\ proc = "unlink" /\ proc' = "store"
        /\ shm' = Restrict(shm, DOMAIN shm \ {job.file})
    BY <1>9 DEF Unlink, RemoveFile, memory
  <2>2. job.file \in DOMAIN shm /\ batch = shm[job.file]
    BY <1>0, <2>1 DEF BatchInv
  <2>3. DOMAIN shm' = DOMAIN shm \ {job.file} /\ \A f \in DOMAIN shm' : shm'[f] = shm[f]
    BY <2>1 DEF Restrict
  <2>4. \A v : Stored(v)' = Stored(v)
    BY <2>1 DEF Stored
  <2>5. \A f \in DOMAIN shm : \A n \in Range(shm[f]) : log[n].file = f
    BY <1>0 DEF FilesInv, Contents
  <2>6. NotAgain'
    <3>1. \A v \in Tables : IsInjective(table'[v]) /\ Stored(v)' \subseteq DOMAIN log'
      BY <1>5, <2>1, <2>4 DEF NotAgain
    <3>2. \A f \in DOMAIN shm' : \A n \in Range(shm'[f]) :
            n \notin Range(batch') /\ \A v \in Tables : n \notin Stored(v)'
      <4> SUFFICES ASSUME NEW f \in DOMAIN shm', NEW n \in Range(shm'[f])
                   PROVE  n \notin Range(batch') /\ \A v \in Tables : n \notin Stored(v)'
        OBVIOUS
      <4>1. f \in DOMAIN shm /\ f # job.file /\ n \in Range(shm[f])
        BY <2>3
      <4>2. n \notin Range(batch)
        BY <2>2, <2>5, <4>1
      <4>3. \A v \in Tables : n \notin Stored(v)
        BY <1>5, <4>1 DEF NotAgain
      <4> QED BY <2>1, <2>4, <4>2, <4>3
    <3>3. \A v \in Tables : Range(batch') \cap Stored(v)' = {}
      BY <1>5, <2>1, <2>2, <2>4 DEF NotAgain
    <3> QED BY <3>1, <3>2, <3>3 DEF NotAgain
  <2>7. dumped = 0 /\ \A tb \in FlowTable : tmp[tb] = <<>>
    BY <1>0, <1>5, <2>1 DEF DumpInv, TmpFresh
  <2>8. Len(<<>>) = 0
    OBVIOUS
  <2> QED BY <2>1, <2>6, <2>7, <2>8 DEF TmpFresh
<1>10. ASSUME NEW tb \in FlowTable, DumpRow(tb)
       PROVE  NotAgain' /\ TmpFresh'
  <2> DEFINE r == RowsFor(tb)
             d == Overwrite(tmp[tb], dumped, r[dumped + 1])
  <2>1. /\ proc = "store" /\ Head(todo) = tb /\ dumped < Len(r)
        /\ tmp' = [tmp EXCEPT ![tb] = d]
        /\ dumped' = dumped + 1
        /\ UNCHANGED <<proc, batch, todo, table>>
    BY <1>10 DEF DumpRow, StoringInto
  <2>2. \A v : Remaining(v)' = Remaining(v)
    BY <2>1 DEF Remaining
  <2>3. NotAgain'
    BY <1>1, <1>5, <2>1, <2>2, StepNotAgain
  <2>4. Len(d) = dumped + 1
    <3> DEFINE c == tmp[tb]
               q == r
               p == dumped
    <3>1. /\ c \in Seq(Sample) /\ q \in Seq(Sample) /\ p \in Nat /\ p < Len(q) /\ Begins(c, q, p)
          /\ Len(c) = p
      BY <1>0, <1>5, <2>1, RowsElements DEF DumpInv, TmpFresh
    <3> HIDE DEF c, q, p
    <3>2. Len(Overwrite(c, p, q[p + 1])) = p + 1
      BY <3>1, OverwriteBegins
    <3> QED BY <3>2 DEF c, q, p
  <2> HIDE DEF d, r
  <2>5. tmp'[tb] = d /\ \A v \in FlowTable : v # tb => tmp'[v] = tmp[v]
    BY <1>0, <2>1
  <2> QED BY <1>5, <2>1, <2>3, <2>4, <2>5 DEF TmpFresh
<1>11. ASSUME NEW tb \in FlowTable, LoadTable(tb)
       PROVE  NotAgain' /\ TmpFresh'
  <2>1. /\ proc = "store" /\ Head(todo) = tb /\ dumped = Len(RowsFor(tb)) /\ proc' = "drop"
        /\ table' = table \/ table' = [table EXCEPT ![tb] = table[tb] \o tmp[tb]]
        /\ UNCHANGED <<log, shm, batch, todo, tmp>>
    BY <1>11 DEF LoadTable, StoringInto, memory, storeVars
  <2>2. tmp[tb] = RowsFor(tb)
    <3>1. Len(tmp[tb]) = dumped
      BY <1>5, <2>1 DEF TmpFresh
    <3> QED BY <2>1, <3>1, LoadedRows
  <2>3. \A v : Remaining(v)' => Remaining(v) /\ v # tb
    BY <2>1 DEF Remaining
  <2>4. tb \in Tables
    BY BelowTables
  <2>5. NotAgain'
    BY <1>0, <1>5, <2>1, <2>2, <2>3, <2>4, StoringOnce
  <2>6. TmpFresh'
    BY <1>5, <2>1 DEF TmpFresh
  <2> QED BY <2>5, <2>6
<1>12. CASE DropTmp
  <2>1. /\ proc = "drop" /\ tmp' = [tmp EXCEPT ![Head(todo)] = <<>>] /\ dumped' = 0 /\ NextTable
        /\ UNCHANGED <<batch, table>>
    BY <1>12 DEF DropTmp
  <2>2. todo \in Pending
    BY <1>0, <2>1 DEF TodoInv
  <2>3. todo' = Tail(todo) /\ proc' # "drop"
    BY <2>1 DEF NextTable
  <2>4. Range(todo) = Range(Tail(todo)) \cup {Head(todo)} /\ Head(todo) \notin Range(Tail(todo))
    BY <2>2, PendingTables
  <2>5. \A v : Remaining(v)' => Remaining(v)
    BY <2>1, <2>3, <2>4 DEF Remaining
  <2>6. NotAgain'
    BY <1>1, <1>5, <2>1, <2>5, StepNotAgain
  <2>7. \A v \in FlowTable : tmp'[v] = <<>>
    BY <1>0, <1>5, <2>1 DEF TmpFresh
  <2>8. Len(<<>>) = 0
    OBVIOUS
  <2> QED BY <2>1, <2>6, <2>7, <2>8 DEF TmpFresh
<1>13. CASE InsertCounters
  <2>1. /\ proc = "store" /\ Head(todo) = "counters" /\ NextTable
        /\ \/ table' = table
           \/ table' = [table EXCEPT !["counters"] = table["counters"] \o RowsFor("counters")]
        /\ UNCHANGED <<log, shm, batch, tmp>>
    BY <1>13 DEF InsertCounters, StoringInto, storeVars
  <2>2. todo = <<"counters">>
    BY <1>0, <2>1, PendingTables DEF TodoInv
  <2>3. todo' = <<>> /\ proc' = "recv"
    <3>1. Len(<<"counters">>) = 1 /\ Tail(<<"counters">>) = <<>>
      OBVIOUS
    <3> QED BY <2>1, <2>2, <3>1 DEF NextTable
  <2>4. Range(<<>>) = {}
    BY DEF Range
  <2>5. \A v : ~Remaining(v)'
    BY <2>3, <2>4 DEF Remaining
  <2>6. NotAgain'
    BY <1>0, <1>5, <2>1, <2>5, BelowTables, StoringOnce
  <2>7. TmpFresh'
    BY <1>5, <2>1, <2>3, BelowTables DEF TmpFresh
  <2> QED BY <2>6, <2>7
<1> QED BY <1>6, <1>7, <1>8, <1>9, <1>10, <1>11, <1>12, <1>13, FlowTableRange DEF Next, Processing

-----------------------------------------------------------------------------
(* No sample is lost.                                                      *)

LEMMA AddedIsFiled ==
  ASSUME HandOverInv, FilesComplete, restarts = 0, Adding, NEW n \in DOMAIN log'
  PROVE  n \in DOMAIN log \/ log'[n].file \in DOMAIN shm'
<1>0. StoreTypeOK /\ FdsAgree /\ Minutes \subseteq Nat /\ 0 \notin Minutes
  BY StoreAssumption DEF HandOverInv, Minutes
<1>1. ASSUME NEW s \in Streams, NEW k, AddToOpenFile(s, k)
      PROVE  n \in DOMAIN log \/ log'[n].file \in DOMAIN shm'
  <2> DEFINE m == fdMin[s]
             x == Len(log) + 1
  <2>1. Log(s, m, k) /\ m # 0 /\ shm' = WriteTo(shm, open[s], pos[s], x)
    BY <1>1 DEF AddToOpenFile
  <2>2. m \in Minutes
    BY <1>0, <2>1 DEF StoreTypeOK
  <2>3. open[s] = FileOf(s, m) /\ open[s] \in DOMAIN shm
    BY <1>0, <2>1 DEF FdsAgree, FilesComplete
  <2> HIDE DEF m
  <2>4. DOMAIN log' = DOMAIN log \cup {x} /\ log'[x].file = FileOf(s, m)
    BY <1>0, <2>1, <2>2, LogAdds
  <2>5. DOMAIN shm' = DOMAIN shm
    BY <2>1, WriteFile
  <2> HIDE DEF x
  <2> QED BY <2>3, <2>4, <2>5
<1>2. ASSUME NEW s \in Streams, NEW m \in Minutes, NEW k, AddToNewFile(s, m, k)
      PROVE  n \in DOMAIN log \/ log'[n].file \in DOMAIN shm'
  <2> DEFINE g == FileOf(s, m)
             S == Create(shm, g)
             x == Len(log) + 1
  <2>1. Log(s, m, k) /\ shm' = WriteTo(S, g, 0, x)
    BY <1>2 DEF AddToNewFile
  <2>2. DOMAIN log' = DOMAIN log \cup {x} /\ log'[x].file = g
    BY <1>0, <2>1, LogAdds
  <2>3. DOMAIN S = DOMAIN shm \cup {g}
    BY CreateFile
  <2> HIDE DEF S, g, x
  <2>4. DOMAIN shm' = DOMAIN S
    BY <2>1, WriteFile
  <2> QED BY <2>2, <2>3, <2>4
<1> QED BY <1>1, <1>2 DEF Adding

\* Where NothingLost finds sample n for table tb.
Kept(n, tb) ==
  \/ \E f \in DOMAIN shm : n \in Range(shm[f])
  \/ n \in Range(batch) /\ Remaining(tb)
  \/ n \in Stored(tb)

\* A step that takes no file, no batch and no row away keeps every sample.
LEMMA KeptKept ==
  ASSUME shm' = shm, batch' = batch \/ todo = <<>>, NEW tb,
         Remaining(tb) => Remaining(tb)', Stored(tb) \subseteq Stored(tb)',
         NEW n, Kept(n, tb)
  PROVE  Kept(n, tb)'
<1>1. CASE todo = <<>>
  <2>1. Range(<<>>) = {}
    BY DEF Range
  <2>2. ~Remaining(tb)
    BY <1>1, <2>1 DEF Remaining
  <2> QED BY <2>2 DEF Kept
<1>2. CASE batch' = batch
  BY <1>2 DEF Kept
<1> QED BY <1>1, <1>2

LEMMA StepNothingLost ==
  ASSUME CoreInv, FilesComplete, CoreInv', FilesComplete', LogKept, NothingLost, Next
  PROVE  NothingLost'
<1> SUFFICES ASSUME restarts' = 0, crashes' = 0, refusals' = 0
             PROVE  \A n \in DOMAIN log' : \A tb \in Layers[log'[n].kind] : Kept(n, tb)'
  BY DEF NothingLost, Kept, Stored, Remaining, Layers
<1>0. /\ HandOverInv /\ JobReceived /\ FilesInv /\ BatchInv
      /\ TypeOK /\ TodoInv /\ batch \in Seq(Sample) /\ Range(batch) \subseteq DOMAIN log
      /\ StoreTypeOK /\ restarts \in Nat /\ crashes \in Nat /\ refusals \in Nat
      /\ tmp \in [FlowTable -> Seq(Sample)] /\ table \in [Tables -> Seq(Sample)]
  BY CoreFacts, ProcessorAssumption, StoreAssumption, SMTT(30) DEF TypeOK, StoreTypeOK
<1>1. ASSUME restarts = 0, crashes = 0, refusals = 0, NEW n \in DOMAIN log,
             NEW tb \in Layers[log[n].kind]
      PROVE  Kept(n, tb)
  BY <1>1 DEF NothingLost, Kept
<1>2. \A n \in DOMAIN log : log[n].kind \in FrameKinds \cup {"cntr"} /\ log[n].file \in Files
  BY <1>0, KindType
<1>3. \A k \in FrameKinds \cup {"cntr"} :
        Layers[k] \subseteq Tables /\ (k # "cntr" => Layers[k] \subseteq FlowTable)
                                   /\ (k = "cntr" => Layers[k] = {"counters"})
  BY DEF FrameKinds, Layers, Tables, FlowTable
<1>4. CASE Collecting
  <2>1. /\ Adding \/ Restart
        /\ UNCHANGED <<proc, batch, todo, table, crashes, refusals>>
    BY <1>4 DEF Collecting, procVars, memory
  <2>2. ~Restart
    BY <1>0 DEF Restart
  <2>3. restarts = 0
    BY <2>1, <2>2 DEF Adding, AddToOpenFile, AddToNewFile
  <2>4. \A tb : Remaining(tb)' = Remaining(tb) /\ Stored(tb)' = Stored(tb)
    BY <2>1 DEF Remaining, Stored
  <2>5. DOMAIN shm \subseteq DOMAIN shm'
    BY <2>1, CollectingFiles
  <2>6. /\ \A f \in DOMAIN shm : Range(shm[f]) = SamplesOf(f)
        /\ \A f \in DOMAIN shm' : Range(shm'[f]) = {i \in DOMAIN log' : log'[i].file = f}
    BY <2>3 DEF FilesComplete, HoldsInOrder, SamplesOf
  <2>7. ASSUME NEW n \in DOMAIN log', NEW tb \in Layers[log'[n].kind]
        PROVE  Kept(n, tb)'
    <3>1. CASE log'[n].file \in DOMAIN shm'
      <4>1. n \in Range(shm'[log'[n].file])
        BY <2>6, <3>1
      <4> QED BY <3>1, <4>1 DEF Kept
    <3>2. CASE log'[n].file \notin DOMAIN shm'
      <4>1. n \in DOMAIN log /\ log'[n] = log[n]
        BY <1>0, <2>1, <2>2, <2>3, <3>2, AddedIsFiled DEF LogKept
      <4>2. Kept(n, tb)
        BY <1>1, <2>1, <2>3, <2>7, <4>1
      <4>3. ~(\E f \in DOMAIN shm : n \in Range(shm[f]))
        BY <2>5, <2>6, <3>2, <4>1 DEF SamplesOf
      <4> QED BY <2>1, <2>4, <4>2, <4>3 DEF Kept
    <3> QED BY <3>1, <3>2
  <2> QED BY <2>7
<1> SUFFICES ASSUME Processing
             PROVE  \A n \in DOMAIN log' : \A tb \in Layers[log'[n].kind] : Kept(n, tb)'
  <2>1. ~Crash
    BY <1>0 DEF Crash
  <2> QED BY <1>4, <2>1 DEF Next
<1>5. log' = log /\ restarts' = restarts /\ crashes' = crashes
  BY DEF Processing, Receive, TakeMessage, Read, Unlink, RemoveFile, DumpRow, LoadTable,
         DropTmp, InsertCounters, Start, storeVars
<1>6. refusals = 0
  <2>1. refusals' = refusals \/ refusals' = refusals + 1
    BY DEF Processing, Receive, Read, Unlink, DumpRow, LoadTable, DropTmp, InsertCounters, Start
  <2> QED BY <1>0, <2>1
<1>7. \A n \in DOMAIN log : \A tb \in Layers[log[n].kind] : Kept(n, tb) /\ tb \in Tables
  BY <1>1, <1>2, <1>3, <1>5, <1>6
<1> SUFFICES ASSUME NEW n \in DOMAIN log, NEW tb \in Layers[log[n].kind]
             PROVE  Kept(n, tb)'
  BY <1>5
<1>8. Kept(n, tb) /\ tb \in Tables
  BY <1>7
<1>9. CASE Receive \/ Start
  <2>1. UNCHANGED <<shm, todo, table, batch>> /\ proc # "drop" /\ proc' # "drop"
    BY <1>9 DEF Receive, TakeMessage, Start, memory, storeVars
  <2>2. (Remaining(tb) => Remaining(tb)') /\ Stored(tb) \subseteq Stored(tb)'
    BY <2>1 DEF Remaining, Stored
  <2> QED BY <1>8, <2>1, <2>2, KeptKept
<1>10. CASE Read
  <2>1. UNCHANGED <<shm, table>> /\ proc = "read"
    BY <1>10 DEF Read, storeVars
  <2>2. todo = <<>> /\ Range(<<>>) = {}
    BY <1>0, <2>1 DEF TodoInv, Range
  <2>3. ~Remaining(tb) /\ Stored(tb) \subseteq Stored(tb)'
    BY <2>1, <2>2 DEF Remaining, Stored
  <2> QED BY <1>8, <2>1, <2>2, <2>3, KeptKept
<1>11. CASE Unlink
  <2>1. /\ UNCHANGED <<table, batch, todo>> /\ proc = "unlink" /\ proc' = "store"
        /\ shm' = Restrict(shm, DOMAIN shm \ {job.file})
    BY <1>11 DEF Unlink, RemoveFile, memory
  <2>2. job.file \in DOMAIN shm /\ batch = shm[job.file] /\ todo = TablesOf[job.stream[2]]
    BY <1>0, <2>1 DEF BatchInv, TodoInv
  <2>3. Remaining(tb) => Remaining(tb)'
    BY <2>1 DEF Remaining
  <2>4. Stored(tb)' = Stored(tb)
    BY <2>1 DEF Stored
  <2>5. CASE n \in Range(shm[job.file])
    <3>1. n \in Range(batch') /\ log[n].file = job.file
      BY <1>0, <2>1, <2>2, <2>5 DEF FilesInv, Contents
    <3>2. job.file.stream = job.stream /\ job \in Messages
      <4>1. PICK i \in DOMAIN handed : handed[i] = job
        BY <1>0, <2>1 DEF JobReceived
      <4>2. handed \in Seq(Messages) /\ mq \in Seq(Messages)
        BY <1>0 DEF StoreTypeOK
      <4>3. i \in DOMAIN Announcements /\ Announcements[i] = handed[i]
        <5> HIDE DEF Messages
        <5> QED BY <4>2 DEF Announcements
      <4>4. Placed(job, clock, open, fdMin)
        BY <1>0, <4>1, <4>3 DEF HandOverInv, AllPlaced
      <4> QED BY <1>0, <2>1, <4>4 DEF Placed, TypeOK
    <3>3. log[n].kind = "cntr" <=> job.stream[2] = "cntr"
      BY <1>0, <3>1, <3>2 DEF FilesInv, KindsAgree
    <3>4. tb \in Range(todo)
      <4>1. CASE job.stream[2] = "cntr"
        <5>1. todo = <<"counters">> /\ tb = "counters"
          BY <1>2, <1>3, <2>2, <3>2, <3>3, <4>1, TablesOfType
        <5>2. Range(<<"counters">>) = {"counters"}
          BY DEF Range
        <5> QED BY <5>1, <5>2
      <4>2. CASE job.stream[2] # "cntr"
        BY <1>2, <1>3, <2>2, <3>2, <3>3, <4>2, TablesOfType
      <4> QED BY <4>1, <4>2
    <3>5. Remaining(tb)'
      BY <2>1, <3>4 DEF Remaining
    <3> QED BY <3>1, <3>5 DEF Kept
  <2>6. CASE n \notin Range(shm[job.file])
    <3>1. DOMAIN shm' = DOMAIN shm \ {job.file} /\ \A f \in DOMAIN shm' : shm'[f] = shm[f]
      BY <2>1 DEF Restrict
    <3>2. \A f \in DOMAIN shm : n \in Range(shm[f]) => f \in DOMAIN shm' /\ n \in Range(shm'[f])
      BY <2>6, <3>1
    <3> QED BY <1>8, <2>1, <2>3, <2>4, <3>2 DEF Kept
  <2> QED BY <2>5, <2>6
<1>12. ASSUME NEW v, DumpRow(v)
       PROVE  Kept(n, tb)'
  <2>1. UNCHANGED <<shm, table, batch, todo, proc>>
    BY <1>12 DEF DumpRow, storeVars
  <2>2. (Remaining(tb) => Remaining(tb)') /\ Stored(tb) \subseteq Stored(tb)'
    BY <2>1 DEF Remaining, Stored
  <2> QED BY <1>8, <2>1, <2>2, KeptKept
<1>13. ASSUME NEW v \in FlowTable, LoadTable(v)
       PROVE  Kept(n, tb)'
  <2>1. /\ proc = "store" /\ Head(todo) = v /\ dumped = Len(RowsFor(v)) /\ proc' = "drop"
        /\ UNCHANGED <<shm, batch, todo>>
    BY <1>13 DEF LoadTable, StoringInto, memory, storeVars
  <2>2. table' = [table EXCEPT ![v] = table[v] \o tmp[v]]
    BY <1>0, <1>6, <1>13 DEF LoadTable
  <2>3. Range(table[v] \o tmp[v]) = Range(table[v]) \cup Range(tmp[v])
    BY <1>0, BelowTables, ConcatElements
  <2>4. /\ Stored(v)' = Stored(v) \cup Range(tmp[v])
        /\ \A u \in Tables : u # v => Stored(u)' = Stored(u)
    BY <1>0, <2>2, <2>3, BelowTables DEF Stored
  <2>5. CASE tb = v
    <3>1. Range(RowsFor(v)) \subseteq Range(tmp[v])
      BY <2>1, LoadedRows
    <3>2. n \in Range(batch) => n \in Range(RowsFor(v))
      BY <1>0, <2>5, RowsElements
    <3> QED BY <1>8, <2>1, <2>4, <2>5, <3>1, <3>2 DEF Kept
  <2>6. CASE tb # v
    <3>1. Remaining(tb) => Remaining(tb)'
      BY <2>1, <2>6 DEF Remaining
    <3>2. Stored(tb) \subseteq Stored(tb)'
      BY <1>8, <2>4, <2>6
    <3> QED BY <1>8, <2>1, <3>1, <3>2, KeptKept
  <2> QED BY <2>5, <2>6
<1>14. CASE DropTmp
  <2>1. proc = "drop" /\ NextTable /\ UNCHANGED <<shm, batch, table>>
    BY <1>14 DEF DropTmp, storeVars
  <2>2. todo \in Pending /\ todo' = Tail(todo) /\ proc' # "drop"
    BY <1>0, <2>1 DEF TodoInv, NextTable
  <2>3. Range(todo) = Range(Tail(todo)) \cup {Head(todo)}
    BY <2>2, PendingTables
  <2>4. (Remaining(tb) => Remaining(tb)') /\ Stored(tb) \subseteq Stored(tb)'
    BY <2>1, <2>2, <2>3 DEF Remaining, Stored
  <2> QED BY <1>8, <2>1, <2>4, KeptKept
<1>15. CASE InsertCounters
  <2>1. /\ proc = "store" /\ Head(todo) = "counters" /\ UNCHANGED <<shm, batch>>
        /\ table' = [table EXCEPT !["counters"] = table["counters"] \o RowsFor("counters")]
    BY <1>0, <1>6, <1>15 DEF InsertCounters, StoringInto, storeVars
  <2>2. todo = <<"counters">>
    BY <1>0, <2>1, PendingTables DEF TodoInv
  <2>3. RowsFor("counters") \in Seq(Sample)
    BY <1>0, RowsElements
  <2>4. Range(table["counters"] \o RowsFor("counters"))
          = Range(table["counters"]) \cup Range(RowsFor("counters"))
    BY <1>0, <2>3, BelowTables, ConcatElements
  <2>5. /\ Stored("counters")' = Stored("counters") \cup Range(RowsFor("counters"))
        /\ \A u \in Tables : u # "counters" => Stored(u)' = Stored(u)
    BY <1>0, <2>1, <2>4, BelowTables DEF Stored
  <2>6. CASE tb = "counters"
    <3>1. n \in Range(batch) => n \in Range(RowsFor("counters"))
      BY <1>0, <2>6, RowsElements
    <3> QED BY <1>8, <2>1, <2>5, <2>6, <3>1 DEF Kept
  <2>7. CASE tb # "counters"
    <3>1. ~Remaining(tb)
      <4>1. Range(<<"counters">>) = {"counters"}
        BY DEF Range
      <4> QED BY <2>2, <2>7, <4>1 DEF Remaining
    <3>2. Stored(tb) \subseteq Stored(tb)'
      BY <1>8, <2>5, <2>7
    <3> QED BY <1>8, <2>1, <3>1, <3>2, KeptKept
  <2> QED BY <2>6, <2>7
<1> QED BY <1>9, <1>10, <1>11, <1>12, <1>13, <1>14, <1>15, FlowTableRange DEF Processing

-----------------------------------------------------------------------------
(* The results, of the collector and of stprocessd running together.       *)

\* stprocessd uses the files and the queue as SampleStore says: it removes only
\* files it was told of, and writes to none.
THEOREM ProcessorImplementsStore == Spec => StoreSpec
<1>1. Init => StoreInit
  BY DEF Init
<1>2. ProcessorInv /\ [Next]_vars => [StoreNext]_storeVars
  BY StepUsesStore DEF vars
<1> QED BY <1>1, <1>2, ProcessorInvariant, PTL DEF Spec, StoreSpec

\* Agent, type and timestamp of an announcement identify its file, with any
\* number of restarts of stcollectd and of ends of stprocessd.
THEOREM ProcessorBatches == Spec => []BatchesSeparate
<1>1. ProcessorInv => BatchesSeparate
  BY DEF ProcessorInv, HandOverInv
<1> QED BY <1>1, ProcessorInvariant, PTL

\* Only a full queue or a restart of stcollectd leaves a file behind.
THEOREM ProcessorFiles == Spec => []NoFileForgotten
<1>1. ProcessorInv => NoFileForgotten
  BY DEF ProcessorInv, HandOverInv
<1> QED BY <1>1, ProcessorInvariant, PTL

\* The file stprocessd reads is not written to, nor created anew after it was
\* removed, by whichever run of stcollectd.
THEOREM ProcessorFinal == Spec => AnnouncedIsFinal
<1> DEFINE Final == \A f \in Announced :
                      f \in DOMAIN shm' => f \in DOMAIN shm /\ shm'[f] = shm[f]
<1>1. ProcessorInv /\ [Next]_vars => [Final]_storeVars
  <2> SUFFICES ASSUME ProcessorInv, [Next]_vars PROVE [Final]_storeVars
    OBVIOUS
  <2>1. [StoreNext]_storeVars
    BY StepUsesStore DEF vars
  <2>2. HandOverInv
    BY DEF ProcessorInv
  <2>3. CASE StoreNext
    BY <2>2, <2>3, StepFinal
  <2> QED BY <2>1, <2>3
<1> HIDE DEF Final
<1>2. Spec => [][Final]_storeVars
  BY <1>1, ProcessorInvariant, PTL DEF Spec
<1> QED BY <1>2 DEF AnnouncedIsFinal, Final

\* The memory of stprocessd, the temporary files and the rows of the database
\* have their types, at whatever step either daemon ends and whichever statement
\* the database refuses (process_file_flow, process_file_cntr, storage_mysql.c).
THEOREM ProcessorType == Spec => []TypeOK
<1>1. CoreInv => TypeOK
  BY CoreFacts
<1> QED BY <1>1, CoreInvariant, PTL

\* Until stcollectd is restarted, the file of an announcement is closed and has
\* all samples of its agent, type and minute, in the order of their receipt
\* (addSampleToFile sends the name of a file after the last write to it).
THEOREM ProcessorComplete == Spec => []AnnouncedIsComplete
<1>1. CoreInv /\ FilesComplete => AnnouncedIsComplete
  <2> SUFFICES ASSUME CoreInv, FilesComplete, restarts = 0
               PROVE  /\ Announced \cap OpenFiles = {}
                      /\ \A f \in Announced \cap DOMAIN shm : HoldsInOrder(shm[f], SamplesOf(f))
    BY DEF AnnouncedIsComplete
  <2>1. \A x \in Announced, s \in Streams : open[s] # x
    BY CoreFacts, AnnouncedIsOlder
  <2> QED BY <2>1 DEF OpenFiles, FilesComplete
<1> QED BY <1>1, CoreInvariant, PTL

\* A conversation is in the tables of the layers below before it is in that of
\* a layer, also when stprocessd ends between two tables and the next one finds
\* its temporary file, until the database refuses rows (storage_mysql_store_flow).
THEOREM ProcessorLayers == Spec => []LayersNested
<1>1. Init => LayersInv
  BY BelowTables DEF Init, LayersInv, DoneStored, Stored, Range, FlowTable, Below, Tables, FlowTables
<1>2. CoreInv /\ CoreInv' /\ LayersInv /\ [Next]_vars => LayersInv'
  <2> SUFFICES ASSUME CoreInv, CoreInv', LayersInv, [Next]_vars PROVE LayersInv'
    OBVIOUS
  <2>1. LogKept
    BY StepCore DEF CoreInv
  <2>2. CASE Next
    BY <2>1, <2>2, StepLayers
  <2>3. CASE UNCHANGED vars
    <3>1. UNCHANGED <<proc, batch, todo, tmp, table, refusals>>
      BY <2>3 DEF vars, procVars, memory
    <3>2. \A tb : RowsFor(tb)' = RowsFor(tb)
      BY <2>1, <3>1, CoreFacts, RowsKept
    <3>3. \A tb : Remaining(tb)' = Remaining(tb) /\ Stored(tb)' = Stored(tb)
      BY <3>1 DEF Remaining, Stored
    <3> QED BY <3>1, <3>2, <3>3 DEF LayersInv, DoneStored
  <2> QED BY <2>2, <2>3
<1>3. LayersInv => LayersNested
  BY DEF LayersInv, LayersNested, FlowTable, Below
<1> QED BY <1>1, <1>2, <1>3, CoreInvariant, PTL DEF Spec

\* Until stprocessd is killed no sample is stored twice: no file is read again,
\* no table filled twice and no temporary file loaded a second time, also when
\* stcollectd is restarted and the database refuses rows.
THEOREM ProcessorOnce == Spec => []StoredOnceWhileRunning
<1>1. Init => OnceInv
  <2> SUFFICES ASSUME Init PROVE OnceInv
    OBVIOUS
  <2>1. /\ DOMAIN shm = {} /\ proc = "recv"
        /\ tmp = [tb \in Range(FlowTables) |-> <<>>] /\ table = [tb \in Tables |-> <<>>]
    BY DEF Init, StoreInit
  <2>2. IsInjective(<<>>) /\ Range(<<>>) = {}
    BY DEF IsInjective, Range
  <2> QED BY <2>1, <2>2, FlowTableRange DEF OnceInv, NotAgain, TmpFresh, Stored
<1>2. CoreInv /\ CoreInv' /\ OnceInv /\ [Next]_vars => OnceInv'
  <2> SUFFICES ASSUME CoreInv, CoreInv', OnceInv, [Next]_vars PROVE OnceInv'
    OBVIOUS
  <2>1. LogKept
    BY StepCore DEF CoreInv
  <2>2. CASE Next
    BY <2>1, <2>2, StepOnce
  <2>3. CASE UNCHANGED vars
    BY <2>3 DEF vars, procVars, memory, storeVars, OnceInv, NotAgain, TmpFresh, Stored, Remaining
  <2> QED BY <2>2, <2>3
<1>3. OnceInv => StoredOnceWhileRunning
  BY DEF OnceInv, NotAgain, StoredOnceWhileRunning, StoredOnce
<1> QED BY <1>1, <1>2, <1>3, CoreInvariant, PTL DEF Spec

\* As long as no daemon ends and the database takes what it is given, a sample
\* is in a file, in the memory of stprocessd or in every table of its layers:
\* although the file is removed before the first table is stored.
THEOREM ProcessorLosesNothing == Spec => []NothingLost
<1>1. Init => NothingLost
  <2>1. Init => DOMAIN log = {}
    BY DEF Init, StoreInit
  <2> QED BY <2>1 DEF NothingLost
<1> DEFINE I == CoreInv /\ FilesComplete
<1>2. I /\ I' /\ NothingLost /\ [Next]_vars => NothingLost'
  <2> SUFFICES ASSUME I, I', NothingLost, [Next]_vars PROVE NothingLost'
    OBVIOUS
  <2>1. LogKept
    BY StepCore DEF CoreInv
  <2>2. CASE Next
    BY <2>1, <2>2, StepNothingLost
  <2>3. CASE UNCHANGED vars
    BY <2>3 DEF vars, procVars, memory, storeVars, NothingLost, Stored, Remaining, Layers
  <2> QED BY <2>2, <2>3
<1> HIDE DEF I
<1>3. Spec => []I
  BY CoreInvariant DEF I
<1> QED BY <1>1, <1>2, <1>3, PTL DEF Spec
=============================================================================
