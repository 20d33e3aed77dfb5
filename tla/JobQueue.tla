---------------------------- MODULE JobQueue ----------------------------
(* The job queues of one runtime (rusty-js-runtime/src/job_queue.rs) and the *)
(* part of an event-loop turn that runs them, pump_one_tick: every           *)
(* process.nextTick callback, then every microtask, again while a microtask  *)
(* left a nextTick callback behind, then at most one macrotask.              *)
(*                                                                           *)
(* A job is JavaScript code.  While one runs (pc = "job") it may do any      *)
(* number of the operations the other modules define, and it ends by         *)
(* returning or by throwing.  The callback of a timer runs the nextTick and  *)
(* microtask queues dry by itself before its macrotask is over               *)
(* (async_hooks_call_with_global_resource_and_microtasks): pc = "checkpoint".*)
(*                                                                           *)
(* The microtask budget is unset, as in every caller of the main agent.      *)
EXTENDS Integers, Sequences

CONSTANT MaxJobs        \* how many ticks, microtasks and macrotasks a script queues

VARIABLES pc,           \* where the main thread is
          back,         \* where it goes on when the running job returns
          running,      \* the job that runs
          nexttick, microtasks, macrotasks,
          jobs,         \* jobs queued so far: the identity of the next one
          progressed    \* some source of this turn was Ready (TurnOutcome.any)

jobVars == <<pc, back, running, nexttick, microtasks, macrotasks, jobs, progressed>>

Queues == {"nexttick", "microtask", "macrotask"}

Job(kind, id) == [kind |-> kind, id |-> id]

\* What runs before the loop starts: the program's entry module.
Script == Job("script", 0)
NoJob == Job("none", 0)

JobInit == /\ pc = "job" /\ back = "ticks" /\ running = Script
           /\ nexttick = <<>> /\ microtasks = <<>> /\ macrotasks = <<>>
           /\ jobs = 0 /\ progressed = FALSE

\* JavaScript code is executing, and may do what it likes.
InJs == pc = "job"

\* Mutant: did_work is left alone.
start_unmarked(job, then) == /\ running' = job /\ pc' = "job" /\ back' = then
                             /\ UNCHANGED progressed

start(job, then) == /\ running' = job /\ pc' = "job" /\ back' = then
                    /\ progressed' = TRUE

----------------------------------------------------------------------------
(* What a running job does to the queues.                                    *)

enqueue(queue) ==
    /\ InJs /\ jobs < MaxJobs
    /\ jobs' = jobs + 1
    /\ nexttick' = IF queue = "nexttick"
                   THEN Append(nexttick, Job("tick", jobs + 1)) ELSE nexttick
    /\ microtasks' = IF queue = "microtask"
                     THEN Append(microtasks, Job("micro", jobs + 1)) ELSE microtasks
    /\ macrotasks' = IF queue = "macrotask"
                     THEN Append(macrotasks, Job("macro", jobs + 1)) ELSE macrotasks
    /\ UNCHANGED <<pc, back, running, progressed>>

\* The running job returns Ok.  A timer's callback is followed by its own
\* microtask checkpoint.
job_ends ==
    /\ InJs
    /\ pc' = IF running.kind = "timer" THEN "checkpoint" ELSE back
    /\ running' = NoJob
    /\ UNCHANGED <<back, nexttick, microtasks, macrotasks, jobs, progressed>>

\* The running job returns an error, which ends the loop.  The error of a
\* queueMicrotask callback is dropped, that of another microtask and of a hook
\* around it (take_async_hook_fatal_exception) is not; a native completion has
\* none to give.
job_throws ==
    /\ InJs /\ running.kind \in {"script", "tick", "micro", "macro", "timer"}
    /\ pc' = "failed"
    /\ UNCHANGED <<back, running, nexttick, microtasks, macrotasks, jobs, progressed>>

----------------------------------------------------------------------------
(* pump_one_tick.  pc is "ticks" in its first inner loop, "micros" in its    *)
(* second; an empty queue sends it on to the next.                           *)

TicksTurn == pc = "ticks" \/ (pc = "micros" /\ microtasks = <<>>)
MicrosTurn == pc = "micros" \/ (pc = "ticks" /\ nexttick = <<>>)

run_tick ==
    /\ TicksTurn /\ nexttick # <<>>
    /\ start(Head(nexttick), "ticks")
    /\ nexttick' = Tail(nexttick)
    /\ UNCHANGED <<microtasks, macrotasks, jobs>>

run_microtask ==
    /\ MicrosTurn /\ microtasks # <<>>
    /\ start(Head(microtasks), "micros")
    /\ microtasks' = Tail(microtasks)
    /\ UNCHANGED <<nexttick, macrotasks, jobs>>

\* Both inner loops found their queues empty, one straight after the other.
Drained == pc \in {"ticks", "micros"} /\ nexttick = <<>> /\ microtasks = <<>>

run_macrotask ==
    /\ Drained /\ macrotasks # <<>>
    /\ start(Head(macrotasks), "host")
    /\ macrotasks' = Tail(macrotasks)
    /\ UNCHANGED <<nexttick, microtasks, jobs>>

no_macrotask ==
    /\ Drained /\ macrotasks = <<>>
    /\ pc' = "host"
    /\ UNCHANGED <<back, running, nexttick, microtasks, macrotasks, jobs, progressed>>

\* The checkpoint that follows a timer's callback: pump_one_microtask until it
\* finds nothing.  A tick queued by a microtask overtakes the microtasks left.
pump_one_microtask ==
    /\ pc = "checkpoint"
    /\ \/ /\ nexttick # <<>>
          /\ start(Head(nexttick), "checkpoint")
          /\ nexttick' = Tail(nexttick)
          /\ UNCHANGED <<microtasks, macrotasks, jobs>>
       \/ /\ nexttick = <<>> /\ microtasks # <<>>
          /\ start(Head(microtasks), "checkpoint")
          /\ microtasks' = Tail(microtasks)
          /\ UNCHANGED <<nexttick, macrotasks, jobs>>
       \/ /\ nexttick = <<>> /\ microtasks = <<>>
          /\ pc' = "host"
          /\ UNCHANGED <<back, running, nexttick, microtasks, macrotasks, jobs, progressed>>

============================================================================
