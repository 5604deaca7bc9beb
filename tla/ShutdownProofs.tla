---------------------------- MODULE ShutdownProofs ----------------------------
(***************************************************************************)
(* The end of stcollectd with any number of buffers and of signals: the    *)
(* types, among them that the counts of buffers stay within what was       *)
(* allocated, and that an orderly end leaves nothing to write.             *)
(***************************************************************************)
EXTENDS Shutdown, SequenceTheorems, TLAPS

\* Where a handler, and main after its join, can be.
HandlerFrames == {"handle", "joinCollector", "hook", "joinWriter", "freeFlow", "freeCntr", "exit"}

OwnFrames ==
  [main |-> {"wait"} \cup HandlerFrames,
   collector |-> {"test", "recv", "pushFlow", "pushCntr", "pop", "popWait", "ended"},
   writer |-> {"takeFlow", "takeCntr", "write"}]

\* The first frame of a thread is its own function, the others are handlers.
StackInv ==
  /\ stack \in [Threads -> Seq(Frames)]
  /\ signals \in 0..MaxSignals
  /\ \A th \in Threads :
       /\ Len(stack[th]) \in 1..(signals + 1)
       /\ stack[th][1] \in OwnFrames[th]
       /\ \A i \in 2..Len(stack[th]) : stack[th][i] \in HandlerFrames

CollectorAt == stack["collector"][1]
WriterAt == stack["writer"][1]

\* Each pair of buffers is in the free queues, in the flush queues or with a
\* thread; the two flush queues differ by what a thread has in its hands.
CountInv ==
  /\ flush \in [{"flow", "cntr"} -> Nat]
  /\ free \in Nat
  /\ pairs \in BufferNum..MaxPairs
  /\ pairs = free + flush["flow"]
               + (IF WriterAt \in {"takeCntr", "write"} THEN 1 ELSE 0)
               + (IF CollectorAt \in {"pushCntr", "pop", "popWait"} THEN 0 ELSE 1)
  /\ flush["flow"] + (IF WriterAt = "takeCntr" THEN 1 ELSE 0)
       = flush["cntr"] + (IF CollectorAt = "pushCntr" THEN 1 ELSE 0)

\* Who is past hook_exit came there when the collector had ended; who has read
\* a count of zero since then can rely on it.
ExitInv ==
  ~early =>
    \A th \in Threads : \A i \in 1..Len(stack[th]) :
      /\ stack[th][i] \in {"joinWriter", "freeFlow", "freeCntr", "exit"} => Ended("collector")
      /\ stack[th][i] \in {"freeCntr", "exit"} => flush["flow"] = 0
      /\ stack[th][i] = "exit" => flush["cntr"] = 0

FlagInv ==
  /\ joiner \in [Workers -> Threads \cup {"none"}]
  /\ exit_collector_thread \in BOOLEAN /\ early \in BOOLEAN /\ exited \in BOOLEAN

ShutdownInv ==
  StackInv /\ CountInv /\ ExitInv /\ FlagInv /\ ExitLeavesNothingQueued

-----------------------------------------------------------------------------
(* Stacks.                                                                 *)

LEMMA GotoEffect ==
  ASSUME StackInv, NEW th \in Threads, NEW pc \in Frames, Goto(th, pc)
  PROVE  /\ stack' \in [Threads -> Seq(Frames)]
         /\ Len(stack[th]) \in Nat \ {0} /\ Len(stack'[th]) = Len(stack[th])
         /\ stack'[th][Len(stack[th])] = pc
         /\ \A i \in 1..Len(stack[th]) : i # Len(stack[th]) => stack'[th][i] = stack[th][i]
         /\ \A u \in Threads : u # th => stack'[u] = stack[u]
<1> DEFINE s == stack[th]
           n == Len(s)
           r == [s EXCEPT ![n] = pc]
<1>1. stack \in [Threads -> Seq(Frames)] /\ signals \in Nat /\ n \in 1..(signals + 1)
  BY ShutdownAssumption DEF StackInv
<1>2. s \in Seq(Frames) /\ n \in Nat \ {0}
  BY <1>1
<1>3. stack' = [stack EXCEPT ![th] = r]
  BY DEF Goto
<1> HIDE DEF Frames, Threads
<1>4. /\ r \in Seq(Frames) /\ Len(r) = n /\ r[n] = pc
      /\ \A i \in 1..n : i # n => r[i] = s[i]
  <2> HIDE DEF s
  <2> QED BY <1>2
<1> HIDE DEF s, r
<1>5. stack' \in [Threads -> Seq(Frames)] /\ stack'[th] = r
      /\ \A u \in Threads : u # th => stack'[u] = stack[u]
  BY <1>1, <1>3, <1>4
<1> QED BY <1>2, <1>4, <1>5 DEF s

LEMMA OneElement ==
  ASSUME NEW T, NEW q \in Seq(T), NEW x \in T
  PROVE  q = <<x>> <=> Len(q) = 1 /\ q[1] = x
<1>1. <<x>> \in Seq(T) /\ Len(<<x>>) = 1 /\ <<x>>[1] = x
  OBVIOUS
<1>2. Len(q) = 1 /\ q[1] = x => q = <<x>>
  BY <1>1, SeqEqual
<1> QED BY <1>1, <1>2

LEMMA EndedMeans ==
  ASSUME StackInv
  PROVE  Ended("collector") <=> Len(stack["collector"]) = 1 /\ CollectorAt = "ended"
<1>1. stack["collector"] \in Seq(Frames) /\ "ended" \in Frames
  BY DEF StackInv, Threads, Frames
<1> DEFINE q == stack["collector"]
<1>2. q \in Seq(Frames)
  BY <1>1
<1> HIDE DEF q, Frames
<1>3. q = <<"ended">> <=> Len(q) = 1 /\ q[1] = "ended"
  BY <1>1, <1>2, OneElement
<1> QED BY <1>3 DEF Ended, CollectorAt, q

\* A worker goes on only outside of every handler.
LEMMA WorkerMove ==
  ASSUME StackInv, NEW w \in Workers, NEW from \in OwnFrames[w], NEW to \in OwnFrames[w],
         At(w, from), Goto(w, to), signals' = signals
  PROVE  /\ StackInv'
         /\ Len(stack[w]) = 1 /\ stack[w][1] = from
         /\ Len(stack'[w]) = 1 /\ stack'[w][1] = to
         /\ \A u \in Threads : u # w => stack'[u] = stack[u]
<1>1. w \in Threads /\ from \in Frames /\ to \in Frames
      /\ from \notin HandlerFrames
  BY DEF Workers, Threads, OwnFrames, Frames, HandlerFrames
<1>2. stack[w][Len(stack[w])] = from
  BY DEF At
<1>3. /\ stack' \in [Threads -> Seq(Frames)]
      /\ Len(stack[w]) \in Nat \ {0} /\ Len(stack'[w]) = Len(stack[w])
      /\ stack'[w][Len(stack[w])] = to
      /\ \A u \in Threads : u # w => stack'[u] = stack[u]
  BY <1>1, GotoEffect
<1>4. Len(stack[w]) = 1
  <2>1. Len(stack[w]) \in 2..Len(stack[w]) => stack[w][Len(stack[w])] \in HandlerFrames
    BY <1>1 DEF StackInv
  <2>2. Len(stack[w]) # 1 => Len(stack[w]) \in 2..Len(stack[w])
    <3>1. \A n \in Nat \ {0} : n # 1 => n \in 2..n
      OBVIOUS
    <3> QED BY <1>3, <3>1
  <2> QED BY <1>1, <1>2, <2>1, <2>2
<1>5. StackInv'
  <2> SUFFICES ASSUME NEW u \in Threads
               PROVE  /\ Len(stack'[u]) \in 1..(signals' + 1)
                      /\ stack'[u][1] \in OwnFrames[u]
                      /\ \A i \in 2..Len(stack'[u]) : stack'[u][i] \in HandlerFrames
    BY <1>3 DEF StackInv
  <2>1. CASE u = w
    BY <2>1, <1>1, <1>3, <1>4 DEF StackInv
  <2>2. CASE u # w
    BY <2>2, <1>3 DEF StackInv
  <2> QED BY <2>1, <2>2
<1> QED BY <1>2, <1>3, <1>4, <1>5

\* A step of a handler, or of main, leaves the workers' own frames alone.
LEMMA HandlerMove ==
  ASSUME StackInv, NEW th \in Threads,
         NEW from, from \in HandlerFrames \/ (th = "main" /\ from = "wait"),
         NEW to \in HandlerFrames, At(th, from), Goto(th, to), signals' = signals
  PROVE  /\ StackInv' /\ CollectorAt' = CollectorAt /\ WriterAt' = WriterAt
         /\ Ended("collector")' <=> Ended("collector")
         /\ Len(stack[th]) \in Nat \ {0} /\ Len(stack'[th]) = Len(stack[th])
         /\ stack'[th][Len(stack[th])] = to
         /\ \A i \in 1..Len(stack[th]) : i # Len(stack[th]) => stack'[th][i] = stack[th][i]
         /\ \A u \in Threads : u # th => stack'[u] = stack[u]
<1>1. to \in Frames
  BY DEF HandlerFrames, Frames
<1>2. stack[th][Len(stack[th])] = from
  BY DEF At
<1>3. /\ stack' \in [Threads -> Seq(Frames)]
      /\ Len(stack[th]) \in Nat \ {0} /\ Len(stack'[th]) = Len(stack[th])
      /\ stack'[th][Len(stack[th])] = to
      /\ \A i \in 1..Len(stack[th]) : i # Len(stack[th]) => stack'[th][i] = stack[th][i]
      /\ \A u \in Threads : u # th => stack'[u] = stack[u]
  BY <1>1, GotoEffect
<1>4. th \in Workers => Len(stack[th]) # 1
  <2>1. ASSUME th \in Workers, Len(stack[th]) = 1 PROVE FALSE
    <3>1. from \in OwnFrames[th]
      BY <1>2, <2>1 DEF StackInv
    <3>2. from \notin HandlerFrames /\ th # "main"
      BY <2>1, <3>1 DEF Workers, OwnFrames, HandlerFrames
    <3> QED BY <3>2
  <2> QED BY <2>1
<1>5. \A w \in Workers : stack'[w][1] = stack[w][1] /\ Len(stack'[w]) = Len(stack[w])
  <2> TAKE w \in Workers
  <2>1. w \in Threads
    BY DEF Workers, Threads
  <2>2. CASE w = th
    <3>1. \A n \in Nat \ {0} : 1 \in 1..n
      OBVIOUS
    <3>2. 1 \in 1..Len(stack[th]) /\ 1 # Len(stack[th])
      BY <2>2, <1>3, <1>4, <3>1
    <3> QED BY <2>2, <1>3, <3>2
  <2>3. CASE w # th
    BY <2>1, <2>3, <1>3
  <2> QED BY <2>2, <2>3
<1>6. StackInv'
  <2> SUFFICES ASSUME NEW u \in Threads
               PROVE  /\ Len(stack'[u]) \in 1..(signals' + 1)
                      /\ stack'[u][1] \in OwnFrames[u]
                      /\ \A i \in 2..Len(stack'[u]) : stack'[u][i] \in HandlerFrames
    BY <1>3 DEF StackInv
  <2>1. CASE u # th
    BY <2>1, <1>3 DEF StackInv
  <2>2. CASE u = th
    <3> DEFINE n == Len(stack[th])
    <3>1. n \in 1..(signals' + 1) /\ Len(stack'[u]) = n
      BY <1>3, <2>2 DEF StackInv
    <3>2. \A i \in 2..n : stack'[u][i] \in HandlerFrames
      BY <1>3, <2>2 DEF StackInv
    <3>3. stack'[u][1] \in OwnFrames[u]
      <4>1. CASE u \in Workers
        BY <4>1, <1>5 DEF StackInv
      <4>2. CASE u = "main" /\ n = 1
        BY <4>2, <1>3, <2>2 DEF OwnFrames
      <4>3. CASE n # 1
        BY <4>3, <1>3, <2>2 DEF StackInv
      <4> QED BY <4>1, <4>2, <4>3 DEF Threads, Workers
    <3> QED BY <3>1, <3>2, <3>3
  <2> QED BY <2>1, <2>2
<1>7. CollectorAt' = CollectorAt /\ WriterAt' = WriterAt
  BY <1>5 DEF CollectorAt, WriterAt, Workers
<1>8. Ended("collector")' <=> Ended("collector")
  <2>1. Ended("collector")' <=> Len(stack'["collector"]) = 1 /\ CollectorAt' = "ended"
    <3>1. stack'["collector"] \in Seq(Frames) /\ "ended" \in Frames
      BY <1>3 DEF Threads, Frames
    <3> DEFINE q == stack'["collector"]
    <3>2. q \in Seq(Frames)
      BY <3>1
    <3> HIDE DEF q, Frames
    <3>3. q = <<"ended">> <=> Len(q) = 1 /\ q[1] = "ended"
      BY <3>1, <3>2, OneElement
    <3> QED BY <3>3 DEF Ended, CollectorAt, q
  <2> QED BY <1>5, <1>7, <2>1, EndedMeans DEF Workers
<1> QED BY <1>3, <1>6, <1>7, <1>8

LEMMA CollectorMove ==
  ASSUME StackInv, NEW from \in OwnFrames["collector"], NEW to \in OwnFrames["collector"],
         At("collector", from), Goto("collector", to), signals' = signals
  PROVE  CollectorAt = from /\ CollectorAt' = to /\ WriterAt' = WriterAt
<1>1. "collector" \in Workers /\ "writer" \in Threads
  BY DEF Workers, Threads
<1> QED BY <1>1, WorkerMove DEF CollectorAt, WriterAt

LEMMA WriterMove ==
  ASSUME StackInv, NEW from \in OwnFrames["writer"], NEW to \in OwnFrames["writer"],
         At("writer", from), Goto("writer", to), signals' = signals
  PROVE  WriterAt = from /\ WriterAt' = to /\ CollectorAt' = CollectorAt
<1>1. "writer" \in Workers /\ "collector" \in Threads
  BY DEF Workers, Threads
<1> QED BY <1>1, WorkerMove DEF CollectorAt, WriterAt

-----------------------------------------------------------------------------
(* What the steps do to ExitInv.                                           *)

\* The collector that goes on has not ended; the writer only takes buffers.
LEMMA WorkerExit ==
  ASSUME ShutdownInv, NEW w \in Workers,
         NEW from \in OwnFrames[w], from # "ended", NEW to \in OwnFrames[w],
         At(w, from), Goto(w, to),
         signals' = signals, early' = early, exited' = exited,
         w = "writer" => \A t \in {"flow", "cntr"} : flush[t] = 0 => flush'[t] = 0
  PROVE  StackInv' /\ ExitInv' /\ ExitLeavesNothingQueued'
<1>1. StackInv /\ ExitInv
  BY DEF ShutdownInv
<1>2. /\ StackInv'
      /\ Len(stack[w]) = 1 /\ stack[w][1] = from
      /\ Len(stack'[w]) = 1 /\ stack'[w][1] = to
      /\ \A u \in Threads : u # w => stack'[u] = stack[u]
  BY <1>1, WorkerMove
<1>3. exited' = FALSE \/ ~exited'
  BY DEF At
<1>4. to \notin HandlerFrames
  BY DEF Workers, OwnFrames, HandlerFrames
<1>5. Ended("collector") => w = "writer" /\ stack'["collector"] = stack["collector"]
  <2>1. w = "collector" => ~Ended("collector")
    BY <1>1, <1>2, EndedMeans DEF CollectorAt
  <2> QED BY <2>1, <1>2 DEF Workers, Threads
<1>6. ExitInv'
  <2> SUFFICES ASSUME ~early', NEW th \in Threads, NEW i \in 1..Len(stack'[th])
               PROVE  /\ stack'[th][i] \in {"joinWriter", "freeFlow", "freeCntr", "exit"}
                           => Ended("collector")'
                      /\ stack'[th][i] \in {"freeCntr", "exit"} => flush'["flow"] = 0
                      /\ stack'[th][i] = "exit" => flush'["cntr"] = 0
    BY DEF ExitInv
  <2>1. CASE th = w
    <3>1. stack'[th][i] = to
      BY <1>2, <2>1
    <3> QED BY <1>4, <3>1 DEF HandlerFrames
  <2>2. CASE th # w
    <3>1. stack'[th] = stack[th]
      BY <1>2, <2>2
    <3>2. /\ stack'[th][i] \in {"joinWriter", "freeFlow", "freeCntr", "exit"} => Ended("collector")
          /\ stack'[th][i] \in {"freeCntr", "exit"} => flush["flow"] = 0
          /\ stack'[th][i] = "exit" => flush["cntr"] = 0
      BY <1>1, <3>1 DEF ExitInv
    <3>3. Ended("collector") => Ended("collector")'
      BY <1>5 DEF Ended
    <3>4. stack'[th][i] \in {"freeCntr", "exit"} => w = "writer"
      BY <1>5, <3>2
    <3> QED BY <3>2, <3>3, <3>4
  <2> QED BY <2>1, <2>2
<1> QED BY <1>2, <1>3, <1>6 DEF ExitLeavesNothingQueued

\* The shutdown functions get to their next place only when what ExitInv asks
\* for it holds.
LEMMA HandlerExit ==
  ASSUME ShutdownInv, NEW th \in Threads,
         NEW from, from \in HandlerFrames \/ (th = "main" /\ from = "wait"),
         NEW to \in HandlerFrames, At(th, from), Goto(th, to),
         signals' = signals, exited' = exited, flush' = flush,
         free' = free, pairs' = pairs, ~early' => ~early,
         ~early' =>
           /\ to \in {"joinWriter", "freeFlow", "freeCntr", "exit"} => Ended("collector")
           /\ to \in {"freeCntr", "exit"} => flush["flow"] = 0
           /\ to = "exit" => flush["cntr"] = 0
  PROVE  StackInv' /\ CountInv' /\ ExitInv' /\ ExitLeavesNothingQueued'
<1>1. StackInv /\ CountInv /\ ExitInv
  BY DEF ShutdownInv
<1>2. /\ StackInv' /\ CollectorAt' = CollectorAt /\ WriterAt' = WriterAt
      /\ Ended("collector")' <=> Ended("collector")
      /\ Len(stack[th]) \in Nat \ {0} /\ Len(stack'[th]) = Len(stack[th])
      /\ stack'[th][Len(stack[th])] = to
      /\ \A i \in 1..Len(stack[th]) : i # Len(stack[th]) => stack'[th][i] = stack[th][i]
      /\ \A u \in Threads : u # th => stack'[u] = stack[u]
  BY <1>1, HandlerMove
<1>3. ~exited'
  BY DEF At
<1>4. CountInv'
  BY <1>1, <1>2 DEF CountInv
<1>5. ExitInv'
  <2> SUFFICES ASSUME ~early', NEW u \in Threads, NEW i \in 1..Len(stack'[u])
               PROVE  /\ stack'[u][i] \in {"joinWriter", "freeFlow", "freeCntr", "exit"}
                           => Ended("collector")'
                      /\ stack'[u][i] \in {"freeCntr", "exit"} => flush'["flow"] = 0
                      /\ stack'[u][i] = "exit" => flush'["cntr"] = 0
    BY DEF ExitInv
  <2>1. i \in 1..Len(stack[u])
    BY <1>2
  <2>2. CASE u = th /\ i = Len(stack[th])
    BY <1>2, <2>2
  <2>3. CASE ~(u = th /\ i = Len(stack[th]))
    <3>1. stack'[u][i] = stack[u][i]
      BY <1>2, <2>1, <2>3
    <3>2. /\ stack[u][i] \in {"joinWriter", "freeFlow", "freeCntr", "exit"} => Ended("collector")
          /\ stack[u][i] \in {"freeCntr", "exit"} => flush["flow"] = 0
          /\ stack[u][i] = "exit" => flush["cntr"] = 0
      BY <1>1, <2>1 DEF ExitInv
    <3> QED BY <1>2, <3>1, <3>2
  <2> QED BY <2>2, <2>3
<1> QED BY <1>2, <1>3, <1>4, <1>5 DEF ExitLeavesNothingQueued

LEMMA ThreadRecord ==
  ASSUME NEW S, NEW a \in S, NEW b \in S, NEW c \in S
  PROVE  [main |-> a, collector |-> b, writer |-> c] \in [Threads -> S]
BY DEF Threads

LEMMA InitShutdown == Init => ShutdownInv
<1> SUFFICES ASSUME Init PROVE ShutdownInv
  OBVIOUS
<1>1. /\ stack = [main |-> <<"wait">>, collector |-> <<"test">>, writer |-> <<"takeFlow">>]
      /\ signals = 0
  BY DEF Init
<1>2. /\ stack \in [Threads -> Seq(Frames)]
      /\ \A th \in Threads : Len(stack[th]) = 1
      /\ \A th \in Threads : stack[th][1] \in {"wait", "test", "takeFlow"}
      /\ \A th \in Threads : stack[th][1] \in OwnFrames[th]
      /\ CollectorAt = "test" /\ WriterAt = "takeFlow"
  <2>1. /\ stack["main"] = <<"wait">> /\ stack["collector"] = <<"test">>
        /\ stack["writer"] = <<"takeFlow">>
    BY <1>1
  <2>2. \A x \in Frames : <<x>> \in Seq(Frames) /\ Len(<<x>>) = 1 /\ <<x>>[1] = x
    <3> HIDE DEF Frames
    <3> QED OBVIOUS
  <2>3. "wait" \in Frames /\ "test" \in Frames /\ "takeFlow" \in Frames
    BY DEF Frames
  <2>4. /\ "wait" \in OwnFrames["main"] /\ "test" \in OwnFrames["collector"]
        /\ "takeFlow" \in OwnFrames["writer"]
    BY DEF OwnFrames
  <2> HIDE DEF Frames, OwnFrames
  <2>5. stack \in [Threads -> Seq(Frames)]
    <3>1. <<"wait">> \in Seq(Frames) /\ <<"test">> \in Seq(Frames) /\ <<"takeFlow">> \in Seq(Frames)
      BY <2>2, <2>3
    <3> QED BY <1>1, <3>1, ThreadRecord
  <2>6. /\ Len(stack["main"]) = 1 /\ stack["main"][1] = "wait"
        /\ Len(stack["collector"]) = 1 /\ stack["collector"][1] = "test"
        /\ Len(stack["writer"]) = 1 /\ stack["writer"][1] = "takeFlow"
    BY <2>1
  <2>7. \A th \in Threads : th = "main" \/ th = "collector" \/ th = "writer"
    BY DEF Threads
  <2> QED BY <2>4, <2>5, <2>6, <2>7 DEF CollectorAt, WriterAt
<1>3. StackInv
  BY <1>1, <1>2, ShutdownAssumption DEF StackInv
<1>4. CountInv
  BY <1>2, ShutdownAssumption DEF Init, CountInv
<1>5. ExitInv
  BY <1>2 DEF ExitInv
<1>6. FlagInv /\ ExitLeavesNothingQueued
  BY DEF Init, FlagInv, ExitLeavesNothingQueued, Workers, Threads
<1> QED BY <1>3, <1>4, <1>5, <1>6 DEF ShutdownInv

-----------------------------------------------------------------------------
(* The steps.                                                              *)

LEMMA StepCollector ==
  ASSUME ShutdownInv, CollectorStep \/ Datagram
  PROVE  ShutdownInv'
<1>0. StackInv /\ CountInv /\ FlagInv /\ "collector" \in Workers
  BY DEF ShutdownInv, Workers
<1>a. \A x \in {"test", "recv", "pushFlow", "pushCntr", "pop", "popWait", "ended"} :
        x \in OwnFrames["collector"]
  BY DEF OwnFrames
<1>b. "collector" # "writer"
  OBVIOUS
<1> DEFINE Moves(from, to) ==
             /\ At("collector", from) /\ Goto("collector", to)
             /\ UNCHANGED <<joiner, exit_collector_thread, signals, early, exited>>
<1>1. ASSUME NEW from \in OwnFrames["collector"], from # "ended",
             NEW to \in OwnFrames["collector"], Moves(from, to)
      PROVE  /\ StackInv' /\ ExitInv' /\ FlagInv' /\ ExitLeavesNothingQueued'
             /\ CollectorAt = from /\ CollectorAt' = to /\ WriterAt' = WriterAt
  <2>1. CollectorAt = from /\ CollectorAt' = to /\ WriterAt' = WriterAt
    BY <1>0, <1>1, CollectorMove
  <2>2. StackInv' /\ ExitInv' /\ ExitLeavesNothingQueued'
    BY <1>0, <1>1, <1>b, WorkerExit
  <2>3. FlagInv'
    BY <1>0, <1>1 DEF FlagInv
  <2> QED BY <2>1, <2>2, <2>3
<1>2. CASE Test
  <2>1. PICK to \in {"ended", "recv"} : Moves("test", to)
    BY <1>2 DEF Test
  <2>2. UNCHANGED <<flush, free, pairs>>
    BY <1>2 DEF Test
  <2>3. /\ StackInv' /\ ExitInv' /\ FlagInv' /\ ExitLeavesNothingQueued'
        /\ CollectorAt = "test" /\ CollectorAt' = to /\ WriterAt' = WriterAt
    BY <1>1, <1>a, <2>1
  <2>4. CountInv'
    BY <1>0, <2>2, <2>3 DEF CountInv
  <2> QED BY <2>3, <2>4 DEF ShutdownInv
<1>3. CASE Datagram
  <2>1. PICK to \in {"test", "pushFlow"} : Moves("recv", to)
    BY <1>3 DEF Datagram
  <2>2. UNCHANGED <<flush, free, pairs>>
    BY <1>3 DEF Datagram
  <2>3. /\ StackInv' /\ ExitInv' /\ FlagInv' /\ ExitLeavesNothingQueued'
        /\ CollectorAt = "recv" /\ CollectorAt' = to /\ WriterAt' = WriterAt
    BY <1>1, <1>a, <2>1
  <2>4. CountInv'
    BY <1>0, <2>2, <2>3 DEF CountInv
  <2> QED BY <2>3, <2>4 DEF ShutdownInv
<1>4. CASE Push("flow", "pushFlow", "pushCntr")
  <2>1. Moves("pushFlow", "pushCntr")
    BY <1>4 DEF Push
  <2>2. flush' = [flush EXCEPT !["flow"] = @ + 1] /\ UNCHANGED <<free, pairs>>
    BY <1>4 DEF Push
  <2>3. /\ StackInv' /\ ExitInv' /\ FlagInv' /\ ExitLeavesNothingQueued'
        /\ CollectorAt = "pushFlow" /\ CollectorAt' = "pushCntr" /\ WriterAt' = WriterAt
    BY <1>1, <1>a, <2>1
  <2>4. CountInv'
    BY <1>0, <2>2, <2>3, ShutdownAssumption DEF CountInv
  <2> QED BY <2>3, <2>4 DEF ShutdownInv
<1>5. CASE Push("cntr", "pushCntr", "pop")
  <2>1. Moves("pushCntr", "pop")
    BY <1>5 DEF Push
  <2>2. flush' = [flush EXCEPT !["cntr"] = @ + 1] /\ UNCHANGED <<free, pairs>>
    BY <1>5 DEF Push
  <2>3. /\ StackInv' /\ ExitInv' /\ FlagInv' /\ ExitLeavesNothingQueued'
        /\ CollectorAt = "pushCntr" /\ CollectorAt' = "pop" /\ WriterAt' = WriterAt
    BY <1>1, <1>a, <2>1
  <2>4. CountInv'
    BY <1>0, <2>2, <2>3, ShutdownAssumption DEF CountInv
  <2> QED BY <2>3, <2>4 DEF ShutdownInv
<1>6. CASE PopWait
  <2>1. Moves("pop", "popWait") /\ UNCHANGED <<flush, free, pairs>>
    BY <1>6 DEF PopWait
  <2>2. /\ StackInv' /\ ExitInv' /\ FlagInv' /\ ExitLeavesNothingQueued'
        /\ CollectorAt = "pop" /\ CollectorAt' = "popWait" /\ WriterAt' = WriterAt
    BY <1>1, <1>a, <2>1
  <2>3. CountInv'
    BY <1>0, <2>1, <2>2 DEF CountInv
  <2> QED BY <2>2, <2>3 DEF ShutdownInv
<1>7. CASE Pop
  <2>1. PICK from \in {"pop", "popWait"} : Moves(from, "test")
    BY <1>7 DEF Pop
  <2>2. /\ free > 0 /\ flush' = flush
        /\ \/ free > BufferNum /\ free' = free - 2 /\ pairs' = pairs - 1
           \/ free' = free - 1 /\ pairs' = pairs
           \/ pairs < MaxPairs /\ free' = free /\ pairs' = pairs + 1
    BY <1>7 DEF Pop
  <2>3. /\ StackInv' /\ ExitInv' /\ FlagInv' /\ ExitLeavesNothingQueued'
        /\ CollectorAt = from /\ CollectorAt' = "test" /\ WriterAt' = WriterAt
    BY <1>1, <1>a, <2>1
  <2>4. CountInv'
    BY <1>0, <2>2, <2>3, ShutdownAssumption DEF CountInv
  <2> QED BY <2>3, <2>4 DEF ShutdownInv
<1> QED BY <1>2, <1>3, <1>4, <1>5, <1>6, <1>7 DEF CollectorStep

LEMMA StepWriter ==
  ASSUME ShutdownInv, WriterStep
  PROVE  ShutdownInv'
<1>0. StackInv /\ CountInv /\ FlagInv /\ "writer" \in Workers
  BY DEF ShutdownInv, Workers
<1>a. \A x \in {"takeFlow", "takeCntr", "write"} : x \in OwnFrames["writer"] /\ x # "ended"
  BY DEF OwnFrames
<1> DEFINE Moves(from, to) ==
             /\ At("writer", from) /\ Goto("writer", to)
             /\ UNCHANGED <<joiner, exit_collector_thread, pairs, signals, early, exited>>
<1>1. ASSUME NEW from \in OwnFrames["writer"], from # "ended",
             NEW to \in OwnFrames["writer"], Moves(from, to),
             \A t \in {"flow", "cntr"} : flush[t] = 0 => flush'[t] = 0
      PROVE  /\ StackInv' /\ ExitInv' /\ FlagInv' /\ ExitLeavesNothingQueued'
             /\ WriterAt = from /\ WriterAt' = to /\ CollectorAt' = CollectorAt
  <2>1. WriterAt = from /\ WriterAt' = to /\ CollectorAt' = CollectorAt
    BY <1>0, <1>1, WriterMove
  <2>2. StackInv' /\ ExitInv' /\ ExitLeavesNothingQueued'
    BY <1>0, <1>1, WorkerExit
  <2>3. FlagInv'
    BY <1>0, <1>1 DEF FlagInv
  <2> QED BY <2>1, <2>2, <2>3
<1>2. CASE Take("flow", "takeFlow", "takeCntr")
  <2>1. Moves("takeFlow", "takeCntr")
    BY <1>2 DEF Take
  <2>2. flush["flow"] > 0 /\ flush' = [flush EXCEPT !["flow"] = @ - 1] /\ free' = free
        /\ pairs' = pairs
    BY <1>2 DEF Take
  <2>3. \A t \in {"flow", "cntr"} : flush[t] = 0 => flush'[t] = 0
    BY <1>0, <2>2 DEF CountInv
  <2>4. /\ StackInv' /\ ExitInv' /\ FlagInv' /\ ExitLeavesNothingQueued'
        /\ WriterAt = "takeFlow" /\ WriterAt' = "takeCntr" /\ CollectorAt' = CollectorAt
    BY <1>1, <1>a, <2>1, <2>3
  <2>5. CountInv'
    BY <1>0, <2>2, <2>4, ShutdownAssumption DEF CountInv
  <2> QED BY <2>4, <2>5 DEF ShutdownInv
<1>3. CASE Take("cntr", "takeCntr", "write")
  <2>1. Moves("takeCntr", "write")
    BY <1>3 DEF Take
  <2>2. flush["cntr"] > 0 /\ flush' = [flush EXCEPT !["cntr"] = @ - 1] /\ free' = free
        /\ pairs' = pairs
    BY <1>3 DEF Take
  <2>3. \A t \in {"flow", "cntr"} : flush[t] = 0 => flush'[t] = 0
    BY <1>0, <2>2 DEF CountInv
  <2>4. /\ StackInv' /\ ExitInv' /\ FlagInv' /\ ExitLeavesNothingQueued'
        /\ WriterAt = "takeCntr" /\ WriterAt' = "write" /\ CollectorAt' = CollectorAt
    BY <1>1, <1>a, <2>1, <2>3
  <2>5. CountInv'
    BY <1>0, <2>2, <2>4, ShutdownAssumption DEF CountInv
  <2> QED BY <2>4, <2>5 DEF ShutdownInv
<1>4. CASE Write
  <2>1. Moves("write", "takeFlow")
    BY <1>4 DEF Write
  <2>2. free' = free + 1 /\ flush' = flush /\ pairs' = pairs
    BY <1>4 DEF Write
  <2>3. /\ StackInv' /\ ExitInv' /\ FlagInv' /\ ExitLeavesNothingQueued'
        /\ WriterAt = "write" /\ WriterAt' = "takeFlow" /\ CollectorAt' = CollectorAt
    BY <1>1, <1>a, <2>1, <2>2
  <2>4. CountInv'
    BY <1>0, <2>2, <2>3, ShutdownAssumption DEF CountInv
  <2> QED BY <2>3, <2>4 DEF ShutdownInv
<1> QED BY <1>2, <1>3, <1>4 DEF WriterStep

LEMMA StepSignal ==
  ASSUME ShutdownInv, NEW th \in Threads, Signal(th)
  PROVE  ShutdownInv'
<1>0. StackInv /\ CountInv /\ ExitInv /\ FlagInv
  BY DEF ShutdownInv
<1>1. /\ ~exited /\ signals < MaxSignals /\ signals' = signals + 1
      /\ ~(th \in Workers /\ Ended(th))
      /\ stack' = [stack EXCEPT ![th] = Append(@, "handle")]
      /\ UNCHANGED <<joiner, exit_collector_thread, flush, free, pairs, early, exited>>
  BY DEF Signal
<1> DEFINE s == stack[th]
           n == Len(s)
           r == Append(s, "handle")
<1>2. "handle" \in Frames /\ "handle" \in HandlerFrames
  BY DEF Frames, HandlerFrames
<1>3. stack \in [Threads -> Seq(Frames)] /\ s \in Seq(Frames) /\ n \in Nat \ {0}
      /\ n \in 1..(signals + 1) /\ signals \in Nat
  BY <1>0, ShutdownAssumption DEF StackInv
<1>4. /\ r \in Seq(Frames) /\ Len(r) = n + 1 /\ r[n + 1] = "handle"
      /\ \A i \in 1..n : r[i] = s[i]
  <2> HIDE DEF s, Frames
  <2> QED BY <1>2, <1>3
<1>5. stack' \in [Threads -> Seq(Frames)] /\ stack'[th] = r
      /\ \A u \in Threads : u # th => stack'[u] = stack[u]
  <2> HIDE DEF Frames, Threads
  <2> QED BY <1>1, <1>3, <1>4
<1> HIDE DEF n, r
<1>6. \A i \in 1..(n + 1) : i \in 1..n \/ i = n + 1
  BY <1>3
<1>7. StackInv'
  <2>1. signals' \in 0..MaxSignals
    BY <1>1, <1>3, ShutdownAssumption
  <2>2. ASSUME NEW u \in Threads
        PROVE  /\ Len(stack'[u]) \in 1..(signals' + 1)
               /\ stack'[u][1] \in OwnFrames[u]
               /\ \A i \in 2..Len(stack'[u]) : stack'[u][i] \in HandlerFrames
    <3>1. CASE u # th
      <4>1. Len(stack[u]) \in 1..(signals + 1) => Len(stack[u]) \in 1..(signals' + 1)
        BY <1>1, <1>3
      <4> QED BY <3>1, <4>1, <1>0, <1>5 DEF StackInv
    <3>2. CASE u = th
      <4>1. n + 1 \in 1..(signals' + 1)
        BY <1>1, <1>3
      <4>2. r[1] \in OwnFrames[u]
        <5>1. 1 \in 1..n
          BY <1>3
        <5> QED BY <1>0, <1>4, <3>2, <5>1 DEF StackInv
      <4>3. \A i \in 2..(n + 1) : r[i] \in HandlerFrames
        <5>1. \A i \in 2..n : i \in 1..n /\ s[i] \in HandlerFrames
          BY <1>0, <1>3 DEF StackInv, n
        <5>2. \A i \in 2..(n + 1) : i \in 2..n \/ i = n + 1
          BY <1>3
        <5> HIDE DEF s
        <5> QED BY <1>2, <1>4, <5>1, <5>2
      <4> QED BY <3>2, <4>1, <4>2, <4>3, <1>4, <1>5
    <3> QED BY <3>1, <3>2
  <2> QED BY <1>5, <2>1, <2>2 DEF StackInv
<1>8. CollectorAt' = CollectorAt /\ WriterAt' = WriterAt
  <2>1. \A u \in Threads : stack'[u][1] = stack[u][1]
    <3>1. 1 \in 1..n
      BY <1>3
    <3> QED BY <1>4, <1>5, <3>1
  <2> QED BY <2>1 DEF CollectorAt, WriterAt, Threads
<1>9. CountInv'
  BY <1>0, <1>1, <1>8 DEF CountInv
<1>10. Ended("collector") => Ended("collector")'
  <2>1. Ended("collector") => th # "collector"
    BY <1>1 DEF Workers
  <2> QED BY <1>5, <2>1 DEF Ended, Threads
<1>11. ExitInv'
  <2> SUFFICES ASSUME ~early', NEW u \in Threads, NEW i \in 1..Len(stack'[u])
               PROVE  /\ stack'[u][i] \in {"joinWriter", "freeFlow", "freeCntr", "exit"}
                           => Ended("collector")'
                      /\ stack'[u][i] \in {"freeCntr", "exit"} => flush'["flow"] = 0
                      /\ stack'[u][i] = "exit" => flush'["cntr"] = 0
    BY DEF ExitInv
  <2>1. stack'[u][i] = "handle"
        \/ (i \in 1..Len(stack[u]) /\ stack'[u][i] = stack[u][i])
    BY <1>4, <1>5, <1>6 DEF n
  <2>2. CASE stack'[u][i] = "handle"
    BY <2>2
  <2>3. CASE i \in 1..Len(stack[u]) /\ stack'[u][i] = stack[u][i]
    <3>1. /\ stack[u][i] \in {"joinWriter", "freeFlow", "freeCntr", "exit"} => Ended("collector")
          /\ stack[u][i] \in {"freeCntr", "exit"} => flush["flow"] = 0
          /\ stack[u][i] = "exit" => flush["cntr"] = 0
      BY <1>0, <1>1, <2>3 DEF ExitInv
    <3> QED BY <1>1, <1>10, <2>3, <3>1
  <2> QED BY <2>1, <2>2, <2>3
<1>12. FlagInv' /\ ExitLeavesNothingQueued'
  BY <1>0, <1>1 DEF FlagInv, ExitLeavesNothingQueued
<1> QED BY <1>7, <1>9, <1>11, <1>12 DEF ShutdownInv

LEMMA StepHandler ==
  ASSUME ShutdownInv, MainJoined \/ \E th \in Threads : ShutdownStep(th)
  PROVE  ShutdownInv'
<1>0. StackInv /\ CountInv /\ ExitInv /\ FlagInv
  BY DEF ShutdownInv
<1>a. \A x \in {"handle", "joinCollector", "hook", "joinWriter", "freeFlow", "freeCntr", "exit"} :
        x \in HandlerFrames
  BY DEF HandlerFrames
<1> DEFINE Moves(th, from, to) ==
             /\ At(th, from) /\ Goto(th, to)
             /\ UNCHANGED <<flush, free, pairs, signals, exited>>
<1>1. CASE MainJoined
  <2>1. Moves("main", "wait", "handle") /\ early' = early /\ UNCHANGED <<joiner, exit_collector_thread>>
    BY <1>1 DEF MainJoined
  <2>2. StackInv' /\ CountInv' /\ ExitInv' /\ ExitLeavesNothingQueued'
    BY <1>a, <2>1, HandlerExit DEF Threads
  <2>3. FlagInv'
    BY <1>0, <2>1 DEF FlagInv
  <2> QED BY <2>2, <2>3 DEF ShutdownInv
<1>2. ASSUME NEW th \in Threads, Handle(th)
      PROVE  ShutdownInv'
  <2>1. PICK to \in {"joinCollector", "hook"} : Moves(th, "handle", to)
    BY <1>2 DEF Handle, Join
  <2>2. early' = early /\ exit_collector_thread' = TRUE
        /\ (joiner' = joiner \/ joiner' = [joiner EXCEPT !["collector"] = th])
    BY <1>2 DEF Handle, Join
  <2>3. StackInv' /\ CountInv' /\ ExitInv' /\ ExitLeavesNothingQueued'
    BY <1>a, <2>1, <2>2, HandlerExit
  <2>4. FlagInv'
    BY <1>0, <2>1, <2>2 DEF FlagInv, Workers
  <2> QED BY <2>3, <2>4 DEF ShutdownInv
<1>3. ASSUME NEW th \in Threads, CollectorJoined(th)
      PROVE  ShutdownInv'
  <2>1. Moves(th, "joinCollector", "hook") /\ early' = early
        /\ UNCHANGED <<joiner, exit_collector_thread>>
    BY <1>3 DEF CollectorJoined
  <2>2. StackInv' /\ CountInv' /\ ExitInv' /\ ExitLeavesNothingQueued'
    BY <1>a, <2>1, HandlerExit
  <2>3. FlagInv'
    BY <1>0, <2>1 DEF FlagInv
  <2> QED BY <2>2, <2>3 DEF ShutdownInv
<1>4. ASSUME NEW th \in Threads, Hook(th)
      PROVE  ShutdownInv'
  <2>1. PICK to \in {"joinWriter", "freeFlow"} : Moves(th, "hook", to)
    BY <1>4 DEF Hook, Join
  <2>2. /\ early' = (early \/ ~Ended("collector")) /\ UNCHANGED exit_collector_thread
        /\ (joiner' = joiner \/ joiner' = [joiner EXCEPT !["writer"] = th])
    BY <1>4 DEF Hook, Join
  <2>3. ~early' => ~early /\ Ended("collector")
    BY <2>2
  <2>4. StackInv' /\ CountInv' /\ ExitInv' /\ ExitLeavesNothingQueued'
    BY <1>a, <2>1, <2>3, HandlerExit
  <2>5. early' \in BOOLEAN
    BY <2>2 DEF Ended
  <2>6. FlagInv'
    BY <1>0, <2>1, <2>2, <2>5 DEF FlagInv, Workers
  <2> QED BY <2>4, <2>6 DEF ShutdownInv
<1>5. ASSUME NEW th \in Threads, PollFlow(th) \/ PollCntr(th)
      PROVE  ShutdownInv'
  <2>1. UNCHANGED <<joiner, exit_collector_thread, early>>
    BY <1>5 DEF PollFlow, PollCntr
  <2>2. PICK from \in {"freeFlow", "freeCntr"}, to \in {"freeFlow", "freeCntr", "exit"} :
          /\ Moves(th, from, to)
          /\ to = "freeCntr" => flush["flow"] = 0
          /\ to = "exit" => from = "freeCntr" /\ flush["cntr"] = 0
    BY <1>5 DEF PollFlow, PollCntr
  <2>3. stack[th][Len(stack[th])] = from /\ Len(stack[th]) \in 1..Len(stack[th])
    <3>1. Len(stack[th]) \in 1..(signals + 1) /\ signals \in Nat
      BY <1>0, ShutdownAssumption DEF StackInv
    <3> QED BY <2>2, <3>1 DEF At
  <2>4. ~early => Ended("collector") /\ (from = "freeCntr" => flush["flow"] = 0)
    BY <1>0, <2>2, <2>3 DEF ExitInv
  <2>5. StackInv' /\ CountInv' /\ ExitInv' /\ ExitLeavesNothingQueued'
    BY <1>a, <2>1, <2>2, <2>4, HandlerExit
  <2>6. FlagInv'
    BY <1>0, <2>1, <2>2 DEF FlagInv
  <2> QED BY <2>5, <2>6 DEF ShutdownInv
<1>6. ASSUME NEW th \in Threads, Exit(th)
      PROVE  ShutdownInv'
  <2>1. /\ At(th, "exit") /\ exited' = TRUE
        /\ UNCHANGED <<stack, joiner, exit_collector_thread, flush, free, pairs, signals, early>>
    BY <1>6 DEF Exit
  <2>2. stack[th][Len(stack[th])] = "exit" /\ Len(stack[th]) \in 1..Len(stack[th])
    <3>1. Len(stack[th]) \in 1..(signals + 1) /\ signals \in Nat
      BY <1>0, ShutdownAssumption DEF StackInv
    <3> QED BY <2>1, <3>1 DEF At
  <2>3. ~early => flush["flow"] = 0 /\ flush["cntr"] = 0
    BY <1>0, <2>2 DEF ExitInv
  <2>4. StackInv' /\ CountInv' /\ FlagInv'
    BY <1>0, <2>1 DEF StackInv, CountInv, FlagInv, CollectorAt, WriterAt
  <2>5. ExitInv'
    BY <1>0, <2>1 DEF ExitInv, Ended
  <2>6. ExitLeavesNothingQueued'
    BY <2>1, <2>3 DEF ExitLeavesNothingQueued
  <2> QED BY <2>4, <2>5, <2>6 DEF ShutdownInv
<1> QED BY <1>1, <1>2, <1>3, <1>4, <1>5, <1>6 DEF ShutdownStep

LEMMA ShutdownInvariant == Spec => []ShutdownInv
<1>1. ShutdownInv /\ [Next]_vars => ShutdownInv'
  <2> SUFFICES ASSUME ShutdownInv, [Next]_vars PROVE ShutdownInv'
    OBVIOUS
  <2>1. CASE UNCHANGED vars
    BY <2>1 DEF ShutdownInv, StackInv, CountInv, ExitInv, FlagInv, ExitLeavesNothingQueued,
       CollectorAt, WriterAt, Ended, vars
  <2> QED BY <2>1, StepCollector, StepWriter, StepSignal, StepHandler DEF Next
<1> QED BY <1>1, InitShutdown, PTL DEF Spec

-----------------------------------------------------------------------------
(* The results.                                                            *)

\* The counts stay within what was allocated, and no thread is in more calls
\* than there were signals: freeMemory and bqueue_pop read numbers that mean
\* what they count, however the handlers lie on top of each other.
THEOREM ShutdownType == Spec => []TypeOK
<1>1. ShutdownInv => TypeOK
  <2> SUFFICES ASSUME ShutdownInv PROVE TypeOK
    OBVIOUS
  <2>1. StackInv /\ CountInv /\ FlagInv
    BY DEF ShutdownInv
  <2>2. \A th \in Threads : Len(stack[th]) \in 1..(MaxSignals + 1)
    BY <2>1, ShutdownAssumption DEF StackInv
  <2>3. free \in 0..MaxPairs /\ flush["flow"] \in 0..MaxPairs /\ flush["cntr"] \in 0..MaxPairs
    BY <2>1, ShutdownAssumption DEF CountInv
  <2>4. flush \in [{"flow", "cntr"} -> 0..MaxPairs]
    BY <2>1, <2>3 DEF CountInv
  <2> QED BY <2>1, <2>2, <2>3, <2>4 DEF TypeOK, StackInv, CountInv, FlagInv
<1> QED BY <1>1, ShutdownInvariant, PTL

\* An exit whose hook_exit was entered after the collector had ended leaves no
\* samples behind, whichever threads the signals interrupted.
THEOREM ShutdownLeavesNothing == Spec => []ExitLeavesNothingQueued
<1>1. ShutdownInv => ExitLeavesNothingQueued
  BY DEF ShutdownInv
<1> QED BY <1>1, ShutdownInvariant, PTL
=============================================================================
