---------------------------- MODULE MainLoop ----------------------------
(* The event loop of the main agent: AgentReactor::run_main over the four    *)
(* sources drive_main_agent registers (agent_reactor.rs, main.rs), with the  *)
(* host poll hook of fs.rs install_poll_io as the second of them.  A turn    *)
(* polls the job queue (JobQueue), the hook, which drains the completion     *)
(* inbox (Napi), fires timers (Timers) and otherwise waits, and the inbox    *)
(* again; the loop ends after a turn in which no source was ready.           *)
(*                                                                           *)
(* pc, after a job or the queues: "host" and "drain" (the inbox), "timers",  *)
(* "keepalive" and "pending" (napi::has_pending's two reads), "observe",     *)
(* "recheck" and "parked" (the wait on the wake generation), "sleep", and    *)
(* "inbox" (the third source).                                               *)
EXTENDS Timers, Napi

VARIABLE after          \* where the main thread goes on once a drained batch has run

vars == <<jobVars, timerVars, napiVars, after>>

Init == JobInit /\ TimerInit /\ NapiInit /\ after = "inbox"

\* Variables a step of the loop's control leaves alone.
queueVars == <<back, running, nexttick, microtasks, macrotasks, jobs>>
threadVars == <<works, executing, waking, tsfn, held, at, calls, unreffed, keepalive>>

----------------------------------------------------------------------------
(* JavaScript: what a running job may do, and how it ends.                   *)

JsQueues == \E q \in Queues : enqueue(q) /\ UNCHANGED <<timerVars, napiVars, after>>

JsTimers ==
    /\ \/ \E d \in Delays, r \in BOOLEAN : set_timer(d, r)
       \/ \E id \in 1 .. MaxTimers : clear_timer(id)
       \/ \E id \in 1 .. MaxTimers, r \in BOOLEAN : set_refed(id, r)
    /\ UNCHANGED <<jobVars, napiVars, after>>

JsWorks ==
    /\ \E w \in Works : create_async_work(w) \/ queue_async_work(w) \/ delete_async_work(w)
    /\ UNCHANGED <<jobVars, timerVars, after>>

JsCreate == create_threadsafe_function /\ UNCHANGED <<jobVars, timerVars, after>>

JobEnds ==
    /\ job_ends /\ after_completion
    /\ UNCHANGED <<timerVars, inbox, batch, woken, works, executing, waking, tsfn, held,
                   at, calls, unreffed, after>>

JobThrows == job_throws /\ UNCHANGED <<timerVars, napiVars, after>>

----------------------------------------------------------------------------
(* The first source: the job queue.                                          *)

Pump ==
    /\ \/ run_tick \/ run_microtask \/ run_macrotask \/ no_macrotask
       \/ pump_one_microtask
    /\ UNCHANGED <<timerVars, napiVars, after>>

----------------------------------------------------------------------------
(* The second source: the poll hook.                                         *)

\* Mutant: all but the first job are dropped.
drain_first(then) ==
    /\ inbox # <<>>
    /\ batch' = <<Head(inbox)>> /\ inbox' = <<>>
    /\ pc' = "drain" /\ after' = then /\ progressed' = TRUE
    /\ UNCHANGED <<queueVars, timerVars, woken, threadVars>>

\* drain_host_completion_inbox: the jobs posted so far, to be run in order.
drain(then) ==
    /\ inbox # <<>>
    /\ batch' = inbox /\ inbox' = <<>>
    /\ pc' = "drain" /\ after' = then /\ progressed' = TRUE
    /\ UNCHANGED <<queueVars, timerVars, woken, threadVars>>

\* A step that only moves the main thread on.
proceed(then, ready) ==
    /\ pc' = then /\ progressed' = (progressed \/ ready)
    /\ UNCHANGED <<queueVars, timerVars, inbox, batch, threadVars, after>>

\* The hook returns: the third source is polled next.
HookDrains == pc = "host" /\ drain("inbox")
HookIdle == pc = "host" /\ inbox = <<>> /\ proceed("timers", FALSE) /\ UNCHANGED woken

RunCompletion ==
    /\ pc = "drain" /\ batch # <<>>
    /\ start(Head(batch), "drain") /\ begin_completion(Head(batch))
    /\ batch' = Tail(batch)
    /\ UNCHANGED <<timerVars, nexttick, microtasks, macrotasks, jobs, inbox, woken,
                   executing, waking, tsfn, held, at, calls, unreffed, keepalive, after>>

PollTimers == (poll_due_timers \/ no_due_timers) /\ UNCHANGED <<napiVars, after>>

\* Where the hook goes on when napi::has_pending said yes: it parks when native
\* work is all it waits for, and sleeps until the next timer otherwise.
NativeWait == IF has_pending THEN "sleep" ELSE "observe"

\* Mutant: only the inbox is looked at.
ReadKeepalive_skipped ==
    /\ pc = "keepalive"
    /\ proceed("pending", FALSE)
    /\ UNCHANGED woken

ReadKeepalive ==
    /\ pc = "keepalive"
    /\ proceed(IF keepalive > 0 THEN NativeWait ELSE "pending", FALSE)
    /\ UNCHANGED woken

ReadInbox ==
    /\ pc = "pending"
    /\ proceed(IF inbox # <<>> THEN NativeWait
               ELSE IF has_pending THEN "sleep" ELSE "inbox", FALSE)
    /\ UNCHANGED woken

\* Mutant: the inbox is not looked into again.
Observe_no_recheck == pc = "observe" /\ woken' = FALSE /\ proceed("parked", FALSE)

Observe == pc = "observe" /\ woken' = FALSE /\ proceed("recheck", FALSE)

RecheckDrains == pc = "recheck" /\ drain("inbox")
RecheckIdle == pc = "recheck" /\ inbox = <<>> /\ proceed("parked", FALSE) /\ UNCHANGED woken

\* wait_agent_wake_timeout: until the generation moves, or a second has passed.
Unpark == pc = "parked" /\ woken /\ proceed("inbox", TRUE) /\ UNCHANGED woken
ParkTimeout == pc = "parked" /\ ~woken /\ proceed("inbox", TRUE) /\ UNCHANGED woken

\* sleep_until_next_event: a plain sleep of at most a second.
SleepEnds == pc = "sleep" /\ proceed("inbox", TRUE) /\ UNCHANGED woken

----------------------------------------------------------------------------
(* The third source, and the end of the turn.                                *)

CompletionsDrain == pc = "inbox" /\ drain("turn")

\* run_main: another turn if any source was ready, the end of the loop if none.
next_turn ==
    /\ pc' = IF progressed THEN "ticks" ELSE "exited"
    /\ progressed' = FALSE
    /\ UNCHANGED <<queueVars, timerVars, napiVars, after>>

CompletionsIdle == pc = "inbox" /\ inbox = <<>> /\ next_turn

BatchDone ==
    /\ pc = "drain" /\ batch = <<>>
    /\ IF after = "inbox" THEN proceed("inbox", FALSE) /\ UNCHANGED woken ELSE next_turn

----------------------------------------------------------------------------
(* Time and the addon's threads.                                             *)

TimePasses == time_passes /\ UNCHANGED <<jobVars, napiVars, after>>

WorkThread ==
    /\ (\E w \in Works : execute(w)) \/ wake
    /\ UNCHANGED <<jobVars, timerVars, after>>

Operation(p) == (call(p) \/ acquire(p)) /\ UNCHANGED <<timerVars, after>>
Release(p) == release(p) /\ UNCHANGED <<timerVars, after>>
Reference == (ref \/ unref) /\ UNCHANGED <<timerVars, after>>
InOperation(p) == Inside(p) /\ UNCHANGED <<timerVars, after>>

----------------------------------------------------------------------------

Js == JsQueues \/ JsTimers \/ JsWorks \/ JsCreate \/ JobThrows

Loop == Pump \/ HookDrains \/ HookIdle \/ RunCompletion \/ PollTimers \/ ReadKeepalive
        \/ ReadInbox \/ Observe \/ RecheckDrains \/ RecheckIdle \/ Unpark \/ ParkTimeout
        \/ SleepEnds \/ CompletionsDrain \/ CompletionsIdle \/ BatchDone

Next == \/ Js \/ JobEnds \/ Loop \/ TimePasses \/ WorkThread \/ Reference
        \/ \E p \in Users : Operation(p) \/ Release(p) \/ InOperation(p)

Spec == Init /\ [][Next]_vars

\* Jobs return, the loop and the threads keep running, and time passes.
FairSpec ==
    /\ Spec
    /\ SF_vars(JobEnds) /\ WF_vars(Loop) /\ WF_vars(TimePasses) /\ WF_vars(WorkThread)
    /\ \A p \in Users : WF_vars(InOperation(p))

----------------------------------------------------------------------------
(* Properties.                                                               *)

Points == {"job", "native", "ticks", "micros", "checkpoint", "host", "drain", "timers",
           "keepalive", "pending", "observe", "recheck", "parked", "sleep", "inbox",
           "exited", "failed"}

JobsOf(kinds, ids) == [kind : kinds, id : ids]
Elements(s) == {s[i] : i \in DOMAIN s}

\* Type correctness of the queues, the timers and what the threads share.
JobsOK ==
    /\ pc \in Points /\ back \in {"ticks", "micros", "host", "checkpoint", "drain"}
    /\ running \in JobsOf({"none", "script", "tick", "micro", "macro", "timer", "work",
                           "call"}, Nat)
    /\ nexttick \in Seq(JobsOf({"tick"}, Nat)) /\ microtasks \in Seq(JobsOf({"micro"}, Nat))
    /\ macrotasks \in Seq(JobsOf({"macro", "timer"}, Nat))
    /\ jobs \in Nat /\ after \in {"inbox", "turn"}
TimersOK ==
    /\ registered \in Seq([delay : Nat, repeat : BOOLEAN])
    /\ DOMAIN timers \subseteq 1 .. Len(registered)
    /\ timers \in [DOMAIN timers -> [delay : Nat, left : Nat, refed : BOOLEAN, repeat : BOOLEAN]]
InboxOK ==
    /\ inbox \in Seq(JobsOf({"work", "call"}, Nat)) /\ batch \in Seq(JobsOf({"work", "call"}, Nat))
    /\ waking \in Nat
WorksOK ==
    /\ works \in [Works -> {"none", "idle", "queued", "freed"}] /\ executing \subseteq Works
FunctionOK ==
    /\ ref_count \in Nat /\ held \subseteq Users \X (1 .. MaxHolds)
    /\ at \in [Users -> {"out", "call", "wake", "last", "drop", "sub", "add"}]
    /\ calls \in Nat /\ keepalive \in 0 .. (Modulus - 1)
FlagsOK ==
    /\ progressed \in BOOLEAN /\ woken \in BOOLEAN /\ unreffed \in BOOLEAN
    /\ active \in BOOLEAN /\ keepalive_active \in BOOLEAN
TypeOK == JobsOK /\ TimersOK /\ InboxOK /\ WorksOK /\ FunctionOK /\ FlagsOK

One(b) == IF b THEN 1 ELSE 0

\* The counters the threads keep without a lock are exact: ref_count counts the
\* acquisitions, a function someone holds accepts calls, and napi_keepalive is
\* the works queued or completing plus the function's own share, whatever step
\* of ref, unref or the last release each thread is in (napi.rs 4058-4448).
CountersExact ==
    /\ ref_count = Cardinality(held)
    /\ held # {} => active
    /\ keepalive = (Cardinality({w \in Works : works[w] = "queued"})
                     + One(running.kind = "work")
                     + One(keepalive_active)
                     + Cardinality({p \in Users : at[p] = "sub"}))
                    - Cardinality({p \in Users : at[p] = "add"})

\* The places a work's completion can be.
InFlight(w) ==
    One(w \in executing)
    + Cardinality({i \in DOMAIN inbox : inbox[i] = Job("work", w)})
    + Cardinality({i \in DOMAIN batch : batch[i] = Job("work", w)})

\* A work is queued exactly while one completion of it is on its way, so that
\* the raw pointer a completion job carries is never to a deleted work, and a
\* work is never run twice at a time (queue_async_work, delete_async_work).
WorkInFlight == \A w \in Works : InFlight(w) = One(works[w] = "queued")

\* The main thread is never parked on a completion without a wake-up made or
\* about to be made: the hook reads the generation before it looks into the
\* inbox again, the producers post before they bump it (fs.rs 962-971).
NoMissedWake ==
    pc = "parked" /\ inbox # <<>> =>
        woken \/ waking > 0 \/ \E p \in Users : at[p] = "wake"

\* Unless the addon unref'd its function, the loop does not end on a call that
\* has not been run: has_pending reads the counter before the inbox, the
\* threads post before their release takes the counter down.
ExitLosesNothing ==
    pc = "exited" /\ ~unreffed =>
        /\ inbox = <<>> /\ held = {}
        /\ \A p \in Users : at[p] # "call"

\* Two timeouts of the same delay.
OneShot(id) == ~registered[id].repeat
Alike(old, id) == OneShot(old) /\ OneShot(id) /\ registered[old].delay = registered[id].delay

\* Timeouts of one delay fire in the order they were registered: none is queued while
\* an older one of the same delay is still in the table or queued behind it
\* (drain_due_pairs_for_agent keeps and drains the table in order).
TimersInOrder ==
    \A i \in DOMAIN macrotasks : \A old \in 1 .. macrotasks[i].id - 1 :
        macrotasks[i].kind = "timer" /\ Alike(old, macrotasks[i].id) =>
            /\ old \notin DOMAIN timers
            /\ \A j \in i + 1 .. Len(macrotasks) : macrotasks[j] # Job("timer", old)

\* What keeps the loop open, as the contract counts it.
Pending ==
    Elements(nexttick) \cup Elements(microtasks) \cup Elements(macrotasks)
    \cup ({running} \ {NoJob})
    \cup {Job("timer", id) : id \in {i \in DOMAIN timers : timers[i].refed}}
    \cup {Job("work", w) : w \in {v \in Works : works[v] = "queued"}}
    \cup (IF keepalive_active THEN {Job("handle", 0)} ELSE {})

State == IF pc = "exited" THEN "ended" ELSE IF pc = "failed" THEN "failed" ELSE "open"

Contract == INSTANCE LoopContract
    WITH pending <- Pending, state <- State,
         Ops <- JobsOf({"script", "tick", "micro", "macro", "timer", "work", "call",
                        "handle"}, Nat)

\* The loop keeps its contract: it ends only when no job, no ref'd timer, no
\* queued work and no ref'd function is left, and nothing is begun after that.
KeepsContract == Contract!Spec

\* Every queued work is completed, unless a job's error ends the loop.
WorkCompletes == \A w \in Works : works[w] = "queued" ~> works[w] # "queued" \/ pc = "failed"

\* Once nothing is pending any more the loop ends.
LoopEnds == <>[](Pending = {}) => <>(pc \in {"exited", "failed"})

\* Every job that is queued is run, unless an error ends the loop: the hook is
\* polled after every macrotask and may wait, but not for ever, and an interval
\* that comes due again and again does not keep the others from their turn
\* (pump_one_tick, run_main).  MaxJobs bounds what the jobs queue in turn: ticks
\* and microtasks that queue their like for ever do starve the macrotasks
\* (job_queue.rs 808-845).
JobsRun ==
    \A job \in JobsOf({"tick", "micro", "macro"}, 1 .. MaxJobs) :
        job \in Elements(nexttick) \cup Elements(microtasks) \cup Elements(macrotasks)
            ~> pc = "failed" \/ running = job

============================================================================
