------------------------------- MODULE Shutdown -------------------------------
(***************************************************************************)
(* How stcollectd ends.  A signal that is sent to the process is handled   *)
(* by one of its three threads, on top of what that thread is doing:       *)
(* handle_signal joins the collector thread and calls hook_exit, which     *)
(* joins the writer thread, waits for the flush queues to empty            *)
(* (freeMemory) and exits.  main runs the same functions when the          *)
(* collector thread has ended.  The model starts with all threads running. *)
(*                                                                         *)
(* Buffers are counted in pairs, as FlushInLockstep of Collector allows.   *)
(*                                                                         *)
(* External: pthread_join.  POSIX leaves a second join of a thread         *)
(* undefined: here it either fails at once or waits.  Joining oneself      *)
(* fails (EDEADLK).                                                        *)
(***************************************************************************)
EXTENDS Naturals, Sequences

CONSTANTS BufferNum,     \* stcollectd_config.buffer_num
          MaxPairs,      \* the pairs of buffers malloc can allocate
          MaxSignals     \* bound on the signals sent, each with another number

ASSUME ShutdownAssumption ==
  BufferNum \in Nat \ {0} /\ MaxPairs \in Nat /\ MaxPairs >= BufferNum /\ MaxSignals \in Nat

Threads == {"main", "collector", "writer"}
Workers == {"collector", "writer"}

VARIABLES
  stack,       \* for each thread, where it is in each of the calls it is in:
               \* its own function first, the handlers that interrupted it behind
  joiner,      \* for each worker, the thread that waits for it or has joined it
  exit_collector_thread,
  flush,       \* the buffers in the flush queues: flow, cntr
  free,        \* the pairs of buffers in the free queues
  pairs,       \* the pairs of buffers allocated
  signals,     \* signals delivered
  early,       \* whether hook_exit was entered before the collector had ended
  exited

vars == <<stack, joiner, exit_collector_thread, flush, free, pairs, signals, early, exited>>

Init ==
  /\ stack = [main |-> <<"wait">>, collector |-> <<"test">>, writer |-> <<"takeFlow">>]
  /\ joiner = [w \in Workers |-> IF w = "collector" THEN "main" ELSE "none"]
  /\ exit_collector_thread = FALSE
  /\ flush = [flow |-> 0, cntr |-> 0]
  /\ free = BufferNum - 1
  /\ pairs = BufferNum
  /\ signals = 0
  /\ early = FALSE
  /\ exited = FALSE

At(th, pc) == ~exited /\ stack[th][Len(stack[th])] = pc

Goto(th, pc) == stack' = [stack EXCEPT ![th][Len(stack[th])] = pc]

Ended(w) == stack[w] = <<"ended">>

-----------------------------------------------------------------------------
(* The collector thread: the loop of collect and flushLists.               *)

\* The flag is not tested.
BugTest ==
  /\ At("collector", "test")
  /\ Goto("collector", "recv")
  /\ UNCHANGED <<joiner, exit_collector_thread, flush, free, pairs, signals, early, exited>>

\* The loop condition of collect.
Test ==
  /\ At("collector", "test")
  /\ Goto("collector", IF exit_collector_thread THEN "ended" ELSE "recv")
  /\ UNCHANGED <<joiner, exit_collector_thread, flush, free, pairs, signals, early, exited>>

Datagram ==
  /\ At("collector", "recv")
  /\ Goto("collector", "test") \/ Goto("collector", "pushFlow")
  /\ UNCHANGED <<joiner, exit_collector_thread, flush, free, pairs, signals, early, exited>>

Push(t, here, next) ==
  /\ At("collector", here)
  /\ flush' = [flush EXCEPT ![t] = @ + 1]
  /\ Goto("collector", next)
  /\ UNCHANGED <<joiner, exit_collector_thread, free, pairs, signals, early, exited>>

\* bqueue_pop finds no free buffer.
PopWait ==
  /\ At("collector", "pop")
  /\ free = 0
  /\ Goto("collector", "popWait")
  /\ UNCHANGED <<joiner, exit_collector_thread, flush, free, pairs, signals, early, exited>>

\* The buffers stay in the free queues.
BugPop ==
  /\ At("collector", "pop") \/ At("collector", "popWait")
  /\ free > 0
  /\ Goto("collector", "test")
  /\ UNCHANGED <<joiner, exit_collector_thread, flush, free, pairs, signals, early, exited>>

\* The two bqueue_pop of flushLists take a pair; without a wait they trim, after
\* a wait they may add one.
Pop ==
  /\ At("collector", "pop") \/ At("collector", "popWait")
  /\ free > 0
  /\ \/ /\ At("collector", "pop") /\ free > BufferNum
        /\ free' = free - 2 /\ pairs' = pairs - 1
     \/ /\ At("collector", "popWait") \/ free <= BufferNum
        /\ free' = free - 1 /\ pairs' = pairs
     \/ /\ At("collector", "popWait") /\ pairs < MaxPairs
        /\ free' = free /\ pairs' = pairs + 1
  /\ Goto("collector", "test")
  /\ UNCHANGED <<joiner, exit_collector_thread, flush, signals, early, exited>>

(* The writer thread: writeBufferToDisk never leaves its loop, whatever    *)
(* exit_writer_thread says.                                                *)

Take(t, here, next) ==
  /\ At("writer", here)
  /\ flush[t] > 0
  /\ flush' = [flush EXCEPT ![t] = @ - 1]
  /\ Goto("writer", next)
  /\ UNCHANGED <<joiner, exit_collector_thread, free, pairs, signals, early, exited>>

Write ==
  /\ At("writer", "write")
  /\ free' = free + 1
  /\ Goto("writer", "takeFlow")
  /\ UNCHANGED <<joiner, exit_collector_thread, flush, pairs, signals, early, exited>>

-----------------------------------------------------------------------------
(* Signals and the shutdown functions.                                     *)

\* Any thread that has not ended may be the one to handle it.
Signal(th) ==
  /\ ~exited
  /\ signals < MaxSignals
  /\ ~(th \in Workers /\ Ended(th))
  /\ signals' = signals + 1
  /\ stack' = [stack EXCEPT ![th] = Append(@, "handle")]
  /\ UNCHANGED <<joiner, exit_collector_thread, flush, free, pairs, early, exited>>

\* pthread_join(w) by th: th waits at pc, or goes on at next.
Join(th, w, pc, next) ==
  \/ /\ th # w
     /\ joiner[w] = "none"
     /\ joiner' = [joiner EXCEPT ![w] = th]
     /\ Goto(th, pc)
  \/ /\ th # w
     /\ joiner[w] # "none"
     /\ Goto(th, pc) \/ Goto(th, next)
     /\ UNCHANGED joiner
  \/ /\ th = w
     /\ Goto(th, next)
     /\ UNCHANGED joiner

\* main is past its pthread_join of the collector thread, in handle_signal(0).
MainJoined ==
  /\ At("main", "wait")
  /\ Ended("collector")
  /\ Goto("main", "handle")
  /\ UNCHANGED <<joiner, exit_collector_thread, flush, free, pairs, signals, early, exited>>

\* handle_signal, up to its pthread_join.
Handle(th) ==
  /\ At(th, "handle")
  /\ exit_collector_thread' = TRUE
  /\ Join(th, "collector", "joinCollector", "hook")
  /\ UNCHANGED <<flush, free, pairs, signals, early, exited>>

CollectorJoined(th) ==
  /\ At(th, "joinCollector")
  /\ Ended("collector")
  /\ Goto(th, "hook")
  /\ UNCHANGED <<joiner, exit_collector_thread, flush, free, pairs, signals, early, exited>>

\* hook_exit, up to its pthread_join.
Hook(th) ==
  /\ At(th, "hook")
  /\ early' = (early \/ ~Ended("collector"))
  /\ Join(th, "writer", "joinWriter", "freeFlow")
  /\ UNCHANGED <<exit_collector_thread, flush, free, pairs, signals, exited>>

\* freeMemory, with one of the two queues left out.
BugPoll(th) ==
  /\ At(th, "freeCntr")
  /\ Goto(th, "exit")
  /\ UNCHANGED <<joiner, exit_collector_thread, flush, free, pairs, signals, early, exited>>

\* freeMemory reads the two counts one after the other and without the locks.
PollFlow(th) ==
  /\ At(th, "freeFlow")
  /\ flush["flow"] = 0
  /\ Goto(th, "freeCntr")
  /\ UNCHANGED <<joiner, exit_collector_thread, flush, free, pairs, signals, early, exited>>

PollCntr(th) ==
  /\ At(th, "freeCntr")
  /\ Goto(th, IF flush["cntr"] = 0 THEN "exit" ELSE "freeFlow")
  /\ UNCHANGED <<joiner, exit_collector_thread, flush, free, pairs, signals, early, exited>>

Exit(th) ==
  /\ At(th, "exit")
  /\ exited' = TRUE
  /\ UNCHANGED <<stack, joiner, exit_collector_thread, flush, free, pairs, signals, early>>

-----------------------------------------------------------------------------

CollectorStep ==
  \/ Test
  \/ Push("flow", "pushFlow", "pushCntr")
  \/ Push("cntr", "pushCntr", "pop")
  \/ PopWait
  \/ Pop

WriterStep ==
  \/ Take("flow", "takeFlow", "takeCntr")
  \/ Take("cntr", "takeCntr", "write")
  \/ Write

ShutdownStep(th) ==
  \/ Handle(th)
  \/ CollectorJoined(th)
  \/ Hook(th)
  \/ PollFlow(th)
  \/ PollCntr(th)
  \/ Exit(th)

Next ==
  \/ CollectorStep
  \/ Datagram
  \/ WriterStep
  \/ MainJoined
  \/ \E th \in Threads : Signal(th) \/ ShutdownStep(th)

Spec == Init /\ [][Next]_vars

\* Every thread runs when it can, and datagrams keep coming.
FairSpec ==
  /\ Spec
  /\ WF_vars(CollectorStep) /\ WF_vars(Datagram) /\ WF_vars(WriterStep) /\ WF_vars(MainJoined)
  /\ \A th \in Threads : WF_vars(ShutdownStep(th))

-----------------------------------------------------------------------------

Frames == {"wait", "test", "recv", "pushFlow", "pushCntr", "pop", "popWait", "ended",
           "takeFlow", "takeCntr", "write",
           "handle", "joinCollector", "hook", "joinWriter", "freeFlow", "freeCntr", "exit"}

TypeOK ==
  /\ stack \in [Threads -> Seq(Frames)]
  /\ \A th \in Threads : Len(stack[th]) \in 1..(MaxSignals + 1)
  /\ joiner \in [Workers -> Threads \cup {"none"}]
  /\ exit_collector_thread \in BOOLEAN
  /\ flush \in [{"flow", "cntr"} -> 0..MaxPairs]
  /\ free \in 0..MaxPairs
  /\ pairs \in BufferNum..MaxPairs
  /\ signals \in 0..MaxSignals
  /\ early \in BOOLEAN
  /\ exited \in BOOLEAN

\* If hook_exit is only entered when the collector has ended, exit leaves no
\* buffer in a flush queue, although freeMemory reads the two counts one by one.
ExitLeavesNothingQueued ==
  exited /\ ~early => flush["flow"] = 0 /\ flush["cntr"] = 0

Interrupted(th) == Len(stack[th]) > 1

\* As long as datagrams arrive, the collector ends once the shutdown has begun,
\* also from the middle of a flush with all buffers in use, unless the signal
\* is handled by the collector itself or by the writer it needs buffers from.
CollectorEnds ==
  exit_collector_thread
    ~> exited \/ Ended("collector") \/ Interrupted("collector") \/ Interrupted("writer")

\* stcollectd.c:308: hook_exit "will cause the application to exit cleanly".
CleanExit == signals > 0 ~> exited
=============================================================================
