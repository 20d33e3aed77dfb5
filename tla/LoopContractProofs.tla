----------------------- MODULE LoopContractProofs -----------------------
(* What the steps of the event loop do to the counter, the park and the end  *)
(* of the loop, and how each is a step of the contract or stutters.  For the *)
(* contract the invariant is strengthened by what holds of the queues and    *)
(* the timers while the loop polls: a turn in which no source was ready has  *)
(* found the queues empty, and a turn that is over has found no ref'd timer. *)
EXTENDS MainLoopProofs

----------------------------------------------------------------------------
(* napi_keepalive.                                                           *)

\* fetch_add and fetch_sub do not wrap around where the counter is exact.
LEMMA CounterExact ==
    ASSUME NEW k \in 0 .. (Modulus - 1)
    PROVE (k + 1 < Modulus => fetch_add(k) = k + 1) /\ (k > 0 => fetch_sub(k) = k - 1)
<1>1. Modulus \in Nat /\ Modulus > 0 BY NapiAssumption
<1>2. \A m \in Nat : m < Modulus => m % Modulus = m BY <1>1
<1>3. \A m \in Nat : m < Modulus => (m + Modulus) % Modulus = m BY <1>1
<1>4. k > 0 => (k + Modulus) - 1 = (k - 1) + Modulus BY <1>1
<1> QED BY <1>1, <1>2, <1>3, <1>4 DEF fetch_add, fetch_sub

\* A completion that starts takes its work off the queued ones.
LEMMA CompletionTakes ==
    ASSUME TypeOK, PlaceInv, WorkInv, RunCompletion
    PROVE /\ running.kind # "work" /\ running' = Head(batch)
          /\ \/ /\ running'.kind = "work"
                /\ \E w \in QueuedWorks : running' = Job("work", w) /\ QueuedWorks' = QueuedWorks \ {w}
             \/ running'.kind # "work" /\ QueuedWorks' = QueuedWorks
<1> WorksOK /\ InboxOK BY Zenon DEF TypeOK
<1> USE DEF QueuedWorks, WorksOK
<1>1. /\ batch # <<>> /\ running' = Head(batch)
      /\ works' = [w \in Works |-> IF Head(batch) = Job("work", w) THEN "idle" ELSE works[w]]
  BY Zenon DEF RunCompletion, begin_completion, start
<1>2. 1 \in DOMAIN batch /\ Head(batch) = batch[1] BY <1>1 DEF InboxOK
<1>3. running.kind # "work" BY Zenon DEF RunCompletion, PlaceInv, OnJob, NoJob, Job
<1>4. CASE Head(batch).kind = "work"
  <2>1. PICK w \in Works : Head(batch) = Job("work", w)
    <3>1. batch[1] = Job("work", batch[1].id) BY <1>2, <1>4, JobElements, Zenon DEF InboxOK
    <3>2. batch[1].id \in Works BY <1>2, <1>4, Zenon DEF WorkInv, QueuedOnce
    <3> QED BY <1>2, <3>1, <3>2, Zenon
  <2>2. w \in QueuedWorks BY <1>2, <2>1 DEF WorkInv, QueuedOnce, Job
  <2>3. \A v \in Works : Head(batch) = Job("work", v) <=> v = w BY <2>1 DEF Job
  <2> QED BY <1>1, <1>3, <1>4, <2>1, <2>2, <2>3, Zenon
<1>5. CASE Head(batch).kind # "work"
  <2>1. \A w \in Works : Head(batch) # Job("work", w) BY <1>5 DEF Job
  <2> QED BY <1>1, <1>3, <1>5, <2>1, Zenon
<1> QED BY <1>4, <1>5, Zenon

\* Who changes the set of queued works.
LEMMA NextQueued ==
    ASSUME TypeOK, [Next]_vars
    PROVE \/ QueuedWorks' = QueuedWorks \/ RunCompletion
          \/ \E w \in Works : queue_async_work(w) /\ UNCHANGED jobVars
<1> WorksOK BY Zenon DEF TypeOK
<1> USE DEF QueuedWorks, WorksOK
<1>1. CASE UNCHANGED <<works, executing>> BY <1>1, Zenon
<1>2. ASSUME NEW w \in Works, create_async_work(w) \/ delete_async_work(w) \/ execute(w)
      PROVE QueuedWorks' = QueuedWorks
  BY <1>2, Zenon DEF create_async_work, delete_async_work, may_delete, execute
<1> QED BY <1>1, <1>2, WorkSteps, Zenon

\* Who starts and ends the completion of a work.
LEMMA NextRunning ==
    ASSUME TypeOK, PlaceInv, [Next]_vars
    PROVE \/ running'.kind = "work" <=> running.kind = "work"
          \/ JobEnds \/ RunCompletion
<1> JobsOK BY Zenon DEF TypeOK
<1>1. CASE UNCHANGED running BY <1>1, Zenon
<1>2. CASE JobEnds BY <1>2, Zenon
<1>3. CASE RunCompletion BY <1>3, Zenon
<1>4. CASE Pump
  <2>1. nexttick # <<>> => Head(nexttick) \in JobsOf({"tick"}, Nat) BY DEF JobsOK
  <2>2. microtasks # <<>> => Head(microtasks) \in JobsOf({"micro"}, Nat) BY DEF JobsOK
  <2>3. macrotasks # <<>> => Head(macrotasks) \in JobsOf({"macro", "timer"}, Nat) BY DEF JobsOK
  <2>4. running = NoJob BY <1>4, Zenon DEF Pump, run_tick, run_microtask, run_macrotask, no_macrotask,
                     pump_one_microtask, TicksTurn, MicrosTurn, Drained, PlaceInv, OnJob
  <2>5. \/ UNCHANGED running
        \/ nexttick # <<>> /\ running' = Head(nexttick)
        \/ microtasks # <<>> /\ running' = Head(microtasks)
        \/ macrotasks # <<>> /\ running' = Head(macrotasks)
    BY <1>4, Zenon DEF Pump, run_tick, run_microtask, run_macrotask, no_macrotask, pump_one_microtask, start
  <2> QED BY <2>1, <2>2, <2>3, <2>4, <2>5, Zenon DEF JobsOf, NoJob, Job
<1>5. CASE Loop
  BY <1>1, <1>3, <1>4, <1>5, Zenon DEF Loop, HookDrains, HookIdle, PollTimers, queueVars, drain,
     ReadKeepalive, ReadInbox, Observe, RecheckDrains, RecheckIdle, Unpark, ParkTimeout,
     SleepEnds, CompletionsDrain, CompletionsIdle, BatchDone, proceed, next_turn,
     poll_due_timers, no_due_timers
<1>6. CASE Js \/ TimePasses \/ WorkThread \/ Reference \/ UNCHANGED vars
  BY <1>1, <1>6, Zenon DEF Js, JsQueues, JsTimers, JsWorks, JsCreate, JobThrows, TimePasses, WorkThread,
     Reference, ref, unref, goto, jobVars, vars, enqueue, job_throws
<1>7. CASE \E p \in Users : Operation(p) \/ Release(p) \/ InOperation(p)
  BY <1>1, <1>7, Zenon DEF Operation, Release, InOperation, Inside, call, acquire, release, call_posts,
     call_wakes, release_closes, release_drops, counter_moves, goto, jobVars
<1> QED BY <1>2, <1>5, <1>6, <1>7, Zenon DEF Next

\* ref takes the function's share of the counter; unref and the last release
\* give it back.
LEMMA ShareMoves ==
    ASSUME TypeOK, HoldInv, NEW p \in Users, counter_moves(p)
    PROVE \/ at[p] = "add" /\ Share = 0 /\ Share' = 1
          \/ at[p] = "sub" /\ Share = 1 /\ Share' = 0
<1> FunctionOK BY Zenon DEF TypeOK
<1> Main \in Users BY MainUses, Zenon
<1> USE DEF HoldInv
<1>1. /\ \A q \in Users : at'[q] = IF q = p THEN "out" ELSE at[q]
      /\ at[p] \in {"add", "sub"} /\ UNCHANGED keepalive_active
  BY GotoMoves, Zenon DEF counter_moves, tsfn
<1>2. CASE at[p] = "add"
  <2>1. p = Main /\ keepalive_active /\ \A q \in Users : at[q] # "sub" BY <1>2, Zenon DEF AtInv
  <2> QED BY <1>1, <1>2, <2>1, Zenon DEF Share, One
<1>3. CASE at[p] = "sub"
  <2>1. ~keepalive_active /\ \A q \in Users : at[q] = "sub" => q = p BY <1>3, Zenon DEF AtInv, AtMostOne
  <2> QED BY <1>1, <1>3, <2>1, Zenon DEF Share, One
<1> QED BY <1>1, <1>2, <1>3, Zenon

\* Who changes the function's share of the counter.
LEMMA NextShare ==
    ASSUME TypeOK, HoldInv, [Next]_vars
    PROVE \/ Share' = Share
          \/ create_threadsafe_function /\ UNCHANGED jobVars
          \/ \E p \in Users : counter_moves(p)
<1> FunctionOK BY Zenon DEF TypeOK
<1> Main \in Users BY MainUses, Zenon
<1> USE DEF HoldInv
<1>1. CASE UNCHANGED <<ref_count, active, keepalive_active, held, at, calls, unreffed>>
  BY <1>1, Zenon DEF Share
<1>3. CASE unref
  <2>1. /\ \A q \in Users : at'[q] = IF q = Main THEN "sub" ELSE at[q]
        /\ at[Main] = "out" /\ keepalive_active
    BY <1>3, GotoMoves, Zenon DEF unref, Free
  <2> QED BY <2>1, Zenon DEF Share, One
<1>4. CASE ref
  <2>1. /\ \A q \in Users : at'[q] = IF q = Main THEN "add" ELSE at[q]
        /\ at[Main] = "out" /\ ~keepalive_active /\ held # {}
    BY <1>4, GotoMoves, Zenon DEF ref, Able, Free, Holds
  <2>2. \A q \in Users : at[q] # "sub" BY <2>1, Zenon DEF AtInv
  <2> QED BY <2>1, <2>2, Zenon DEF Share, One
<1>5. ASSUME NEW p \in Users, acquire(p) PROVE Share' = Share
  BY <1>5, Zenon DEF acquire, Share
<1>6. ASSUME NEW p \in Users,
             call(p) \/ call_posts(p) \/ call_wakes(p) \/ release(p) \/ release_closes(p)
      PROVE Share' = Share
  <2>1. /\ at[p] \notin {"sub", "add"}
        /\ \E l \in {"out", "call", "wake", "last", "drop"} :
             \A q \in Users : at'[q] = IF q = p THEN l ELSE at[q]
        /\ UNCHANGED keepalive_active
    BY <1>6, GotoMoves, Zenon DEF call, call_posts, call_wakes, release, release_closes, Able, Free, tsfn
  <2>2. (\E q \in Users : at'[q] = "sub") <=> (\E q \in Users : at[q] = "sub") BY <2>1, Zenon
  <2>3. at'[Main] = "add" <=> at[Main] = "add" BY <2>1, Zenon
  <2> QED BY <2>1, <2>2, <2>3, Zenon DEF Share
<1>7. ASSUME NEW p \in Users, release_drops(p) PROVE Share' = Share
  <2>1. /\ \A q \in Users : at'[q] = IF q = p THEN IF keepalive_active THEN "sub" ELSE "out" ELSE at[q]
        /\ at[p] = "drop" /\ held = {} /\ ~keepalive_active'
    BY <1>7, GotoMoves, Zenon DEF release_drops, AtInv
  <2>2. at[Main] # "add" BY <2>1, Zenon DEF AtInv, Holds
  <2>3. CASE keepalive_active BY <2>1, <2>2, <2>3, Zenon DEF Share, One
  <2>4. CASE ~keepalive_active BY <2>1, <2>2, <2>4, Zenon DEF Share, One
  <2> QED BY <2>3, <2>4, Zenon
<1> QED BY <1>1, <1>3, <1>4, <1>5, <1>6, <1>7, FunctionSteps, Zenon DEF Inside

----------------------------------------------------------------------------
(* The park.                                                                 *)

\* A producer posts before it bumps the generation; the hook looks again after it read it.
LEMMA NextNoMissedWake ==
    ASSUME TypeOK, PlaceInv, NoMissedWake, [Next]_vars
    PROVE NoMissedWake'
<1> SUFFICES ASSUME pc' = "parked", inbox' # <<>>
             PROVE woken' \/ waking' > 0 \/ \E p \in Users : at'[p] = "wake"
  BY Zenon DEF NoMissedWake
<1> FunctionOK /\ InboxOK /\ JobsOK BY Zenon DEF TypeOK
<1> USE DEF NoMissedWake
<1>1. CASE UNCHANGED <<pc, inbox, woken, waking, at>> BY <1>1, Zenon
<1>2. CASE UNCHANGED vars BY <1>1, <1>2, Zenon DEF vars, jobVars, napiVars
<1>3. CASE Js \/ JobEnds
  BY <1>3, Zenon DEF Js, JsQueues, JsTimers, JsWorks, JsCreate, JobThrows, JobEnds, jobVars, enqueue,
     set_timer, clear_timer, set_refed, create_async_work, queue_async_work, delete_async_work,
     create_threadsafe_function, job_throws, job_ends, InJs, JobsOK
<1>4. CASE Loop
  BY <1>4, Zenon DEF Loop, Pump, run_tick, run_microtask, run_macrotask, no_macrotask,
     pump_one_microtask, start, HookDrains, HookIdle, RunCompletion, PollTimers, poll_due_timers,
     no_due_timers, ReadKeepalive, ReadInbox, Observe, RecheckDrains, RecheckIdle, Unpark,
     ParkTimeout, SleepEnds, CompletionsDrain, CompletionsIdle, BatchDone, NativeWait, drain,
     proceed, next_turn
<1>5. CASE TimePasses BY <1>1, <1>5, Zenon DEF TimePasses, jobVars, napiVars
<1>6. CASE WorkThread
  <2>1. pc = "parked" BY <1>6, Zenon DEF WorkThread, jobVars
  <2>2. CASE wake BY <2>2, Zenon DEF wake
  <2>3. CASE \E w \in Works : execute(w) BY <2>3 DEF execute, InboxOK
  <2> QED BY <1>6, <2>2, <2>3, Zenon DEF WorkThread
<1>7. ASSUME NEW p \in Users, NEW l, goto(p, l), UNCHANGED <<inbox, woken, waking>>, at[p] # "wake"
      PROVE woken' \/ waking' > 0 \/ \E q \in Users : at'[q] = "wake"
  <2>1. pc = "parked" BY <1>7, Zenon DEF goto
  <2>2. \A q \in Users : at'[q] = IF q = p THEN l ELSE at[q] BY <1>7, GotoMoves, Zenon
  <2> QED BY <1>7, <2>1, <2>2, Zenon
<1>8. CASE Reference BY <1>7, <1>8, MainUses, Zenon DEF Reference, ref, unref, Able, Free
<1>9. ASSUME NEW p \in Users, Operation(p) \/ Release(p) \/ InOperation(p)
      PROVE woken' \/ waking' > 0 \/ \E q \in Users : at'[q] = "wake"
  <2>1. CASE acquire(p) BY <1>1, <2>1, Zenon DEF acquire, jobVars
  <2>2. CASE call(p) \/ release(p) BY <1>7, <2>2, Zenon DEF call, release, Able, Free
  <2>3. CASE call_posts(p)
    <3>1. at'[p] = "wake" BY <2>3, GotoMoves, Zenon DEF call_posts
    <3> QED BY <3>1, Zenon
  <2>4. CASE call_wakes(p) BY <2>4, Zenon DEF call_wakes
  <2>5. CASE release_closes(p) \/ release_drops(p) \/ counter_moves(p)
    BY <1>7, <2>5, Zenon DEF release_closes, release_drops, counter_moves
  <2> QED BY <1>9, <2>1, <2>2, <2>3, <2>4, <2>5, Zenon DEF Operation, Release, InOperation, Inside
<1> QED BY <1>2, <1>3, <1>4, <1>5, <1>6, <1>8, <1>9, Zenon DEF Next

----------------------------------------------------------------------------
(* The end of the loop.                                                      *)

\* The loop is not about to end at first.
LEMMA InitEnd == Init => KeepInv /\ EndInv
BY Zenon DEF Init, JobInit, NapiInit, KeepInv, EndInv, NothingKept, Closing, Closed

\* Only unref and the last release take the mark off a held function.
LEMMA NextKeepInv ==
    ASSUME TypeOK, HoldInv, KeepInv, [Next]_vars
    PROVE KeepInv'
<1> FunctionOK BY Zenon DEF TypeOK
<1> Main \in Users BY MainUses, Zenon
<1> USE DEF KeepInv
<1>1. CASE UNCHANGED <<ref_count, active, keepalive_active, held, at, calls, unreffed>> BY <1>1, Zenon
<1>2. CASE create_threadsafe_function \/ ref \/ unref
  BY <1>2, Zenon DEF create_threadsafe_function, ref, unref
<1>3. ASSUME NEW p \in Users, acquire(p) PROVE KeepInv'
  BY <1>3, Zenon DEF acquire, Able, Holds
<1>4. ASSUME NEW p \in Users, release(p) PROVE KeepInv'
  BY <1>4, Zenon DEF release, Able, Holds
<1>5. ASSUME NEW p \in Users, call(p) \/ call_posts(p) \/ call_wakes(p) \/ counter_moves(p)
      PROVE KeepInv'
  <2>1. PICK l \in {"call", "wake", "out"} : \A q \in Users : at'[q] = IF q = p THEN l ELSE at[q]
    BY <1>5, GotoMoves, Zenon DEF call, call_posts, call_wakes, counter_moves
  <2>2. UNCHANGED <<held, keepalive_active, unreffed>>
    BY <1>5, Zenon DEF call, call_posts, call_wakes, counter_moves, tsfn
  <2> QED BY <2>1, <2>2, Zenon
<1>6. ASSUME NEW p \in Users, release_closes(p) PROVE KeepInv'
  BY <1>6, Zenon DEF release_closes
<1>7. ASSUME NEW p \in Users, release_drops(p) PROVE KeepInv'
  <2>1. /\ \A q \in Users : at'[q] = IF q = p THEN IF keepalive_active THEN "sub" ELSE "out" ELSE at[q]
        /\ at[p] = "drop" /\ held = {} /\ UNCHANGED held
    BY <1>7, GotoMoves DEF release_drops, HoldInv, AtInv
  <2>2. \A q \in Users : at[q] \in {"last", "drop"} => q = p
    BY <2>1, Zenon DEF HoldInv, AtMostOne
  <2> QED BY <2>1, <2>2, Zenon
<1> QED BY <1>1, <1>2, <1>3, <1>4, <1>5, <1>6, <1>7, FunctionSteps, Zenon DEF Inside

\* Nothing begins between the zero counter and the end of the loop.
LEMMA NextEndInv ==
    ASSUME TypeOK, PlaceInv, EndInv, [Next]_vars,
           pc = "keepalive" /\ keepalive = 0 => NothingKept
    PROVE EndInv'
<1> FunctionOK /\ JobsOK BY Zenon DEF TypeOK
<1> SUFFICES ASSUME Closing' PROVE EndInv' BY Zenon DEF EndInv, Closing, Closed
<1> USE DEF Closing, Closed, EndInv, NothingKept
<1>0. ASSUME Closing, Closed' => Closed \/ inbox = <<>>,
             UNCHANGED <<inbox, executing, works, keepalive_active, unreffed, held, at>>
      PROVE EndInv'
  BY <1>0, Zenon DEF QueuedWorks
<1>1. CASE UNCHANGED vars \/ TimePasses
  BY <1>0, <1>1 DEF vars, jobVars, napiVars, tsfn, TimePasses
<1>2. CASE Js \/ JobEnds
  <2>1. ~(pc' = pc /\ pc = "job") /\ pc' \notin {"failed", "checkpoint"} BY Zenon
  <2>2. CASE JsQueues BY <2>1, <2>2, Zenon DEF JsQueues, enqueue, InJs
  <2>3. CASE JsTimers BY <2>1, <2>3, Zenon DEF JsTimers, set_timer, clear_timer, set_refed, InJs, jobVars
  <2>4. CASE JsWorks
    BY <2>1, <2>4, Zenon DEF JsWorks, create_async_work, queue_async_work, delete_async_work, InJs, jobVars
  <2>5. CASE JsCreate BY <2>1, <2>5, Zenon DEF JsCreate, create_threadsafe_function, InJs, jobVars
  <2>6. CASE JobThrows BY <2>1, <2>6, Zenon DEF JobThrows, job_throws
  <2>7. CASE JobEnds
    <3>1. pc' \in {"checkpoint", back} BY <2>7, Zenon DEF JobEnds, job_ends
    <3>2. back \in {"ticks", "micros", "host", "checkpoint", "drain"} BY Zenon DEF JobsOK
    <3> QED BY <3>1, <3>2, Zenon
  <2> QED BY <1>2, <2>2, <2>3, <2>4, <2>5, <2>6, <2>7, Zenon DEF Js
<1>3. CASE ReadKeepalive
  <2>1. keepalive = 0 /\ pc = "keepalive" /\ pc' = "pending"
    BY <1>3 DEF ReadKeepalive, proceed, NativeWait, FunctionOK
  <2>2. UNCHANGED <<executing, works, keepalive_active, unreffed, held, at>>
    BY <1>3, Zenon DEF ReadKeepalive, proceed, threadVars, tsfn
  <2> QED BY <2>1, <2>2, Zenon DEF QueuedWorks
<1>4. CASE ReadInbox
  <2>1. UNCHANGED <<inbox, executing, works, keepalive_active, unreffed, held, at>>
    BY <1>4, Zenon DEF ReadInbox, proceed, threadVars, tsfn
  <2>2. pc = "pending" /\ (pc' = "inbox" => inbox = <<>>) /\ pc' # "exited"
    BY <1>4, Zenon DEF ReadInbox, proceed, NativeWait
  <2> QED BY <1>0, <2>1, <2>2, Zenon
<1>5. CASE CompletionsIdle
  <2>1. UNCHANGED <<inbox, executing, works, keepalive_active, unreffed, held, at>>
    BY <1>5, Zenon DEF CompletionsIdle, next_turn, napiVars, tsfn
  <2>2. pc = "inbox" /\ inbox = <<>> /\ ~progressed
    BY <1>5, Zenon DEF CompletionsIdle, next_turn
  <2> QED BY <1>0, <2>1, <2>2, Zenon
<1>6. CASE BatchDone
  <2>1. pc = "drain" /\ progressed BY <1>6, Zenon DEF BatchDone, PlaceInv, OnCompletion
  <2>2. pc' # "exited" /\ (pc' = "inbox" => progressed') /\ pc' # "pending"
    BY <1>6, <2>1, Zenon DEF BatchDone, next_turn, proceed
  <2> QED BY <2>2, Zenon
<1>7. CASE Pump \/ HookDrains \/ HookIdle \/ RunCompletion \/ PollTimers \/ Observe
           \/ RecheckDrains \/ RecheckIdle \/ Unpark \/ ParkTimeout \/ SleepEnds \/ CompletionsDrain
  BY <1>7, Zenon DEF Pump, run_tick, run_microtask, run_macrotask, no_macrotask,
     pump_one_microtask, start, HookDrains, HookIdle, RunCompletion, PollTimers, poll_due_timers,
     no_due_timers, Observe, RecheckDrains, RecheckIdle, Unpark,
     ParkTimeout, SleepEnds, CompletionsDrain, drain, proceed
<1>8. CASE WorkThread
  <2>1. Closing BY <1>8, Zenon DEF WorkThread, jobVars
  <2>2. wake BY <1>8, <2>1, Zenon DEF WorkThread, execute
  <2> QED BY <1>0, <1>8, <2>1, <2>2, Zenon DEF wake, WorkThread, jobVars, tsfn
<1>9. ASSUME NEW p \in Users, Operation(p) \/ Release(p) \/ InOperation(p) PROVE EndInv'
  <2>1. p # Main
    BY <1>9, Zenon DEF Operation, Release, InOperation, Inside, call, acquire, release, call_posts,
       call_wakes, release_closes, release_drops, counter_moves, Able, Free, InJs, goto, jobVars
  <2>2. Closing
    <3>1. UNCHANGED <<pc, progressed>>
      BY <1>9, <2>1, Zenon DEF Operation, Release, InOperation, Inside, call, acquire, release, call_posts,
         call_wakes, release_closes, release_drops, counter_moves, goto, jobVars
    <3> QED BY <3>1, Zenon
  <2>3. CASE unreffed
    <3>1. UNCHANGED <<executing, works, unreffed>> /\ (UNCHANGED keepalive_active \/ ~keepalive_active')
      BY <1>9, Zenon DEF Operation, Release, InOperation, Inside, call, acquire, release, call_posts,
         call_wakes, release_closes, release_drops, counter_moves, tsfn
    <3> QED BY <2>2, <2>3, <3>1 DEF QueuedWorks
  <2>4. CASE ~unreffed
    <3>1. ~Holds(p) /\ at[p] = "out" BY <2>2, <2>4, Zenon DEF Holds
    <3> QED BY <1>9, <3>1, Zenon DEF Operation, Release, InOperation, Inside, call, acquire, release,
           call_posts, call_wakes, release_closes, release_drops, counter_moves, Able
  <2> QED BY <2>3, <2>4, Zenon
<1>10. CASE Reference
  BY <1>10, Zenon DEF Reference, ref, unref, goto
<1> QED BY <1>1, <1>2, <1>3, <1>4, <1>5, <1>6, <1>7, <1>8, <1>9, <1>10, Zenon DEF Next, Loop

----------------------------------------------------------------------------
(* The queues and the timers at the end of a turn.                           *)

Polling == pc \in {"host", "timers", "keepalive", "pending", "observe", "recheck", "parked",
                   "sleep", "inbox"}

Empty == nexttick = <<>> /\ microtasks = <<>> /\ macrotasks = <<>>

\* Nothing was ready so far in this turn, or the loop has ended.
Idle == (Polling /\ ~progressed) \/ pc = "exited"

QuietInv ==
    /\ Idle => Empty
    /\ Closed => ~has_pending
    /\ pc = "checkpoint" \/ (OnJob /\ back \in {"host", "checkpoint"}) => progressed
    /\ OnJob /\ running.kind = "timer" => back = "host"
    /\ running.kind = "none" => running = NoJob

\* The entry module runs at first, outside any turn.
LEMMA InitQuietInv == Init => QuietInv
BY DEF Init, JobInit, QuietInv, Idle, Polling, Closed, OnJob, Script, Job

\* A source that was ready is remembered to the end of the turn.
LEMMA NextQuietInv ==
    ASSUME TypeOK, PlaceInv, QuietInv, [Next]_vars
    PROVE QuietInv'
<1> JobsOK /\ InboxOK BY Zenon DEF TypeOK
<1> USE DEF QuietInv, Idle, Polling, Closed, OnJob
<1>0. ASSUME UNCHANGED <<jobVars, has_pending>> PROVE QuietInv' BY <1>0, Zenon DEF jobVars, Empty
<1>1. CASE UNCHANGED vars BY <1>0, <1>1, Zenon DEF vars, timerVars, has_pending
<1>2. CASE JsQueues \/ JsTimers \/ JsWorks \/ JsCreate
  <2>1. pc = "job" /\ UNCHANGED <<pc, back, running, progressed>>
    BY <1>2, Zenon DEF JsQueues, JsTimers, JsWorks, JsCreate, enqueue, set_timer, clear_timer, set_refed,
       create_async_work, queue_async_work, delete_async_work, create_threadsafe_function, InJs,
       jobVars
  <2> QED BY <2>1, Zenon
<1>3. CASE JobThrows BY <1>3, Zenon DEF JobThrows, job_throws
<1>4. CASE JobEnds
  <2>1. /\ pc = "job" /\ pc' = IF running.kind = "timer" THEN "checkpoint" ELSE back
        /\ UNCHANGED <<back, progressed>> /\ running' = NoJob
    BY <1>4, Zenon DEF JobEnds, job_ends, InJs
  <2> QED BY <2>1, Zenon DEF JobsOK
<1>5. ASSUME NEW job, NEW then, start(job, then), job.kind = "timer" => then = "host", job.kind # "none"
      PROVE QuietInv'
  BY <1>5, Zenon DEF start
<1>6. CASE Pump
  <2>1. nexttick # <<>> => Head(nexttick) \in JobsOf({"tick"}, Nat) BY DEF JobsOK
  <2>2. microtasks # <<>> => Head(microtasks) \in JobsOf({"micro"}, Nat) BY DEF JobsOK
  <2>8. macrotasks # <<>> => Head(macrotasks) \in JobsOf({"macro", "timer"}, Nat) BY DEF JobsOK
  <2>3. CASE nexttick # <<>> /\ \E then : start(Head(nexttick), then)
    BY <1>5, <2>1, <2>3, Zenon DEF JobsOf
  <2>4. CASE microtasks # <<>> /\ \E then : start(Head(microtasks), then)
    BY <1>5, <2>2, <2>4, Zenon DEF JobsOf
  <2>5. CASE macrotasks # <<>> /\ start(Head(macrotasks), "host")
    BY <1>5, <2>5, <2>8, Zenon DEF JobsOf
  <2>6. CASE no_macrotask BY <2>6, Zenon DEF no_macrotask, Drained, Empty
  <2>7. CASE pc = "checkpoint" /\ pc' = "host" /\ UNCHANGED <<progressed, running>> BY <2>7, Zenon
  <2> QED BY <1>6, <2>3, <2>4, <2>5, <2>6, <2>7, Zenon DEF Pump, run_tick, run_microtask, run_macrotask,
             pump_one_microtask
<1>7. ASSUME NEW then, drain(then) PROVE QuietInv' BY <1>7, Zenon DEF drain, queueVars
<1>8. CASE RunCompletion
  <2>1. Head(batch) \in JobsOf({"work", "call"}, Nat) BY <1>8 DEF RunCompletion, InboxOK
  <2> QED BY <1>5, <1>8, <2>1, Zenon DEF RunCompletion, JobsOf
<1>9. CASE PollTimers
  <2>1. CASE no_due_timers BY <2>1, Zenon DEF no_due_timers, Empty
  <2>2. CASE poll_due_timers BY <2>2, Zenon DEF poll_due_timers
  <2> QED BY <1>9, <2>1, <2>2, Zenon DEF PollTimers
<1>10. ASSUME Polling, NEW then, NEW ready \in BOOLEAN, proceed(then, ready),
              then \in {"timers", "keepalive", "pending", "observe", "recheck", "parked", "sleep"}
                \/ (then = "inbox" /\ (ready \/ ~has_pending))
       PROVE QuietInv'
  <2>1. UNCHANGED <<nexttick, microtasks, macrotasks, timers, running>> BY <1>10, Zenon DEF proceed, queueVars, timerVars
  <2>2. pc' = then /\ (progressed' <=> progressed \/ ready) BY <1>10, Zenon DEF proceed
  <2> QED BY <1>10, <2>1, <2>2, Zenon DEF Empty, has_pending
<1>11. CASE CompletionsIdle
  <2>1. UNCHANGED <<nexttick, microtasks, macrotasks, timers, running>>
    BY <1>11, Zenon DEF CompletionsIdle, next_turn, queueVars, timerVars
  <2>2. pc = "inbox" /\ pc' = IF progressed THEN "ticks" ELSE "exited"
    BY <1>11, Zenon DEF CompletionsIdle, next_turn
  <2> QED BY <2>1, <2>2, Zenon DEF Empty, has_pending
<1>12. CASE BatchDone
  <2>1. pc = "drain" /\ progressed BY <1>12, Zenon DEF BatchDone, PlaceInv, OnCompletion
  <2>2. (pc' = "inbox" /\ progressed') \/ pc' = "ticks"
    BY <1>12, <2>1, Zenon DEF BatchDone, next_turn, proceed
  <2>3. UNCHANGED running BY <1>12, Zenon DEF BatchDone, next_turn, proceed, queueVars
  <2> QED BY <2>2, <2>3, Zenon
<1>13. CASE ReadKeepalive \/ ReadInbox
  BY <1>10, <1>13, Zenon DEF ReadKeepalive, ReadInbox, NativeWait
<1>14. CASE HookIdle \/ Observe \/ RecheckIdle \/ Unpark \/ ParkTimeout \/ SleepEnds
  BY <1>10, <1>14, Zenon DEF HookIdle, Observe, RecheckIdle, Unpark, ParkTimeout, SleepEnds
<1>15. CASE Loop
  BY <1>6, <1>7, <1>8, <1>9, <1>11, <1>12, <1>13, <1>14, <1>15, Zenon DEF Loop, HookDrains, RecheckDrains,
     CompletionsDrain
<1>16. CASE TimePasses
  <2>1. has_pending' <=> has_pending
    <3>1. DOMAIN timers' = DOMAIN timers BY <1>16, Zenon DEF TimePasses, time_passes
    <3>2. ASSUME NEW id \in DOMAIN timers PROVE timers'[id].refed = timers[id].refed
      <4>1. timers[id] \in [delay : Nat, left : Nat, refed : BOOLEAN, repeat : BOOLEAN]
        BY Zenon DEF TypeOK, TimersOK
      <4>2. timers'[id] = [timers[id] EXCEPT !.left = IF @ > 0 THEN @ - 1 ELSE 0]
        BY <1>16, Zenon DEF TimePasses, time_passes
      <4> QED BY <4>1, <4>2, Zenon
    <3> QED BY <3>1, <3>2, Zenon DEF has_pending
  <2>2. UNCHANGED jobVars BY <1>16, Zenon DEF TimePasses
  <2> QED BY <2>1, <2>2, Zenon DEF jobVars, Empty
<1>17. CASE WorkThread BY <1>0, <1>17, Zenon DEF WorkThread, timerVars, has_pending
<1>18. ASSUME NEW p \in Users, NEW l, goto(p, l), UNCHANGED timerVars, p = Main => OnJob
       PROVE QuietInv'
  <2>1. UNCHANGED <<back, running, nexttick, microtasks, macrotasks, progressed>> BY <1>18, Zenon DEF goto
  <2>2. pc' = IF p = Main THEN IF l = "out" THEN "job" ELSE "native" ELSE pc BY <1>18, Zenon DEF goto
  <2>3. has_pending' <=> has_pending BY <1>18, Zenon DEF timerVars, has_pending
  <2> QED BY <1>18, <2>1, <2>2, <2>3, Zenon DEF Empty
<1>19. CASE Reference
  BY <1>18, <1>19, MainUses, Zenon DEF Reference, ref, unref, Able, Free, InJs
<1>20. ASSUME NEW p \in Users, Operation(p) \/ Release(p) PROVE QuietInv'
  <2>1. CASE acquire(p) BY <1>0, <1>20, <2>1, Zenon DEF acquire, Operation, Release, timerVars, has_pending
  <2> QED BY <1>18, <1>20, <2>1, Zenon DEF Operation, Release, call, release, Able, Free, InJs
<1>21. ASSUME NEW p \in Users, InOperation(p) PROVE QuietInv'
  <2>1. p = Main => OnJob
    BY <1>21, Zenon DEF InOperation, Inside, call_posts, call_wakes, release_closes, release_drops,
       counter_moves, PlaceInv
  <2> QED BY <1>18, <1>21, <2>1, Zenon DEF InOperation, Inside, call_posts, call_wakes, release_closes,
             release_drops, counter_moves
<1> QED BY <1>1, <1>2, <1>3, <1>4, <1>15, <1>16, <1>17, <1>19, <1>20, <1>21, Zenon DEF Next, Js

----------------------------------------------------------------------------
(* What is in a queue.                                                       *)

\* What a push adds.
LEMMA ElementsAppend ==
    ASSUME NEW S, NEW s \in Seq(S), NEW x
    PROVE Elements(Append(s, x)) = Elements(s) \cup {x}
<1>1. DOMAIN Append(s, x) = DOMAIN s \cup {Len(s) + 1} OBVIOUS
<1>2. Append(s, x)[Len(s) + 1] = x /\ \A i \in DOMAIN s : Append(s, x)[i] = s[i] OBVIOUS
<1> QED BY <1>1, <1>2 DEF Elements

\* What a pop takes.
LEMMA ElementsTail ==
    ASSUME NEW S, NEW s \in Seq(S), s # <<>>
    PROVE Elements(s) = Elements(Tail(s)) \cup {Head(s)}
<1>1. /\ Len(s) \in Nat /\ 1 \in DOMAIN s /\ DOMAIN s = 1 .. Len(s) /\ Head(s) = s[1]
      /\ DOMAIN Tail(s) = 1 .. (Len(s) - 1)
      /\ \A i \in DOMAIN Tail(s) : Tail(s)[i] = s[i + 1]
  OBVIOUS
<1>2. \A i \in DOMAIN Tail(s) : i + 1 \in DOMAIN s BY <1>1
<1>3. \A i \in DOMAIN s : i = 1 \/ (i - 1 \in DOMAIN Tail(s) /\ Tail(s)[i - 1] = s[i]) BY <1>1
<1>4. ASSUME NEW e \in Elements(s) PROVE e \in Elements(Tail(s)) \cup {Head(s)}
  <2>1. PICK i \in DOMAIN s : e = s[i] BY <1>4, Zenon DEF Elements
  <2> QED BY <1>1, <1>3, <2>1, Zenon DEF Elements
<1>5. ASSUME NEW e \in Elements(Tail(s)) PROVE e \in Elements(s)
  <2>1. PICK i \in DOMAIN Tail(s) : e = Tail(s)[i] BY <1>5, Zenon DEF Elements
  <2>2. e = s[i + 1] BY <1>1, <2>1, Zenon
  <2> QED BY <1>2, <2>2, Zenon DEF Elements
<1>6. Head(s) \in Elements(s) BY <1>1, Zenon DEF Elements
<1> QED BY <1>4, <1>5, <1>6, Zenon

\* What an extend adds.
LEMMA ElementsConcat ==
    ASSUME NEW S, NEW s \in Seq(S), NEW t \in Seq(S)
    PROVE Elements(s \o t) = Elements(s) \cup Elements(t)
<1>1. /\ Len(s) \in Nat /\ Len(t) \in Nat /\ DOMAIN s = 1 .. Len(s) /\ DOMAIN t = 1 .. Len(t)
      /\ DOMAIN (s \o t) = 1 .. (Len(s) + Len(t))
      /\ \A i \in 1 .. Len(s) : (s \o t)[i] = s[i]
      /\ \A i \in 1 .. Len(t) : (s \o t)[Len(s) + i] = t[i]
  OBVIOUS
<1>2. \A i \in DOMAIN (s \o t) :
        i \in DOMAIN s \/ (i - Len(s) \in DOMAIN t /\ Len(s) + (i - Len(s)) = i)
  BY <1>1
<1>3. \A i \in DOMAIN t : Len(s) + i \in DOMAIN (s \o t) BY <1>1
<1>4. \A i \in DOMAIN s : i \in DOMAIN (s \o t) BY <1>1
<1>5. ASSUME NEW e \in Elements(s \o t) PROVE e \in Elements(s) \cup Elements(t)
  <2>1. PICK i \in DOMAIN (s \o t) : e = (s \o t)[i] BY <1>5, Zenon DEF Elements
  <2>2. CASE i \in DOMAIN s BY <1>1, <2>1, <2>2, Zenon DEF Elements
  <2>3. CASE i - Len(s) \in DOMAIN t /\ Len(s) + (i - Len(s)) = i
    <3>1. (s \o t)[Len(s) + (i - Len(s))] = t[i - Len(s)] BY <1>1, <2>3, Zenon
    <3> QED BY <2>1, <2>3, <3>1, Zenon DEF Elements
  <2> QED BY <1>2, <2>2, <2>3, Zenon
<1>6. ASSUME NEW e \in Elements(s) PROVE e \in Elements(s \o t)
  <2>1. PICK i \in DOMAIN s : e = s[i] BY <1>6, Zenon DEF Elements
  <2> QED BY <1>1, <1>4, <2>1, Zenon DEF Elements
<1>7. ASSUME NEW e \in Elements(t) PROVE e \in Elements(s \o t)
  <2>1. PICK i \in DOMAIN t : e = t[i] BY <1>7, Zenon DEF Elements
  <2> QED BY <1>1, <1>3, <2>1, Zenon DEF Elements
<1> QED BY <1>5, <1>6, <1>7, Zenon

----------------------------------------------------------------------------
(* The parts of Pending.                                                     *)

QueuedJobs == Elements(nexttick) \cup Elements(microtasks) \cup Elements(macrotasks)
RunningOps == {running} \ {NoJob}
Refed == {id \in DOMAIN timers : timers[id].refed}
TimerOps == {Job("timer", id) : id \in Refed}
WorkOps == {Job("work", w) : w \in QueuedWorks}
HandleOps == IF keepalive_active THEN {Job("handle", 0)} ELSE {}

\* Pending is its parts, before and after a step.
LEMMA Parts ==
    /\ Pending = QueuedJobs \cup RunningOps \cup TimerOps \cup WorkOps \cup HandleOps
    /\ Pending' = QueuedJobs' \cup RunningOps' \cup TimerOps' \cup WorkOps' \cup HandleOps'
BY Zenon DEF Pending, QueuedJobs, RunningOps, TimerOps, Refed, WorkOps, QueuedWorks, HandleOps

AllOps == JobsOf({"script", "tick", "micro", "macro", "timer", "work", "call", "handle"}, Nat)

Typed == Pending \subseteq AllOps

\* Everything pending is an operation of the contract.
LEMMA PendingTyped ==
    ASSUME TypeOK, QuietInv
    PROVE Typed
<1> USE DEF AllOps
<1>1. Elements(nexttick) \subseteq AllOps
  <2>1. \A i \in DOMAIN nexttick : nexttick[i] \in JobsOf({"tick"}, Nat) BY DEF TypeOK, JobsOK
  <2> QED BY <2>1, Zenon DEF Elements, JobsOf
<1>2. Elements(microtasks) \subseteq AllOps
  <2>1. \A i \in DOMAIN microtasks : microtasks[i] \in JobsOf({"micro"}, Nat) BY DEF TypeOK, JobsOK
  <2> QED BY <2>1, Zenon DEF Elements, JobsOf
<1>3. Elements(macrotasks) \subseteq AllOps
  <2>1. \A i \in DOMAIN macrotasks : macrotasks[i] \in JobsOf({"macro", "timer"}, Nat)
    BY DEF TypeOK, JobsOK
  <2> QED BY <2>1, Zenon DEF Elements, JobsOf
<1>4. RunningOps \subseteq AllOps
  BY Zenon DEF RunningOps, QuietInv, TypeOK, JobsOK, JobsOf
<1>5. TimerOps \subseteq AllOps
  <2>1. Refed \subseteq Nat BY DEF Refed, TypeOK, TimersOK
  <2> QED BY <2>1 DEF TimerOps, Job, JobsOf
<1>6. WorkOps \subseteq AllOps
  <2>1. QueuedWorks \subseteq Nat BY NapiAssumption, Zenon DEF QueuedWorks
  <2> QED BY <2>1 DEF WorkOps, Job, JobsOf
<1>7. HandleOps \subseteq AllOps BY DEF HandleOps, Job, JobsOf
<1> QED BY <1>1, <1>2, <1>3, <1>4, <1>5, <1>6, <1>7, Parts, Zenon DEF QueuedJobs, Typed

----------------------------------------------------------------------------
(* How a step of the loop is a step of the contract.                         *)

Allowed == [Contract!Next]_<<Pending, State>>

\* A step that changes nothing the contract sees.
LEMMA Stutters ==
    ASSUME Pending' = Pending, State' = State
    PROVE Allowed
BY Zenon DEF Allowed

\* A step that only adds operations, while the loop is open.
LEMMA Begins ==
    ASSUME Typed', State = "open", State' = State, Pending \subseteq Pending'
    PROVE Allowed
BY Zenon DEF Typed, Allowed, AllOps, Contract!Next, Contract!Begin

\* A step that takes at most one operation away.
LEMMA Finishes ==
    ASSUME NEW op, Pending' \subseteq Pending, Pending \subseteq Pending' \cup {op},
           State # "ended", State' = State
    PROVE Allowed
<1>1. CASE op \in Pending /\ op \notin Pending'
  <2>1. Pending' = Pending \ {op} BY <1>1, Zenon
  <2> QED BY <1>1, <2>1, Zenon DEF Allowed, Contract!Next, Contract!Finish
<1>2. CASE Pending' = Pending BY <1>2, Stutters, Zenon
<1> QED BY <1>1, <1>2, Zenon

----------------------------------------------------------------------------
(* The steps.                                                                *)

JobParts == <<QueuedJobs, RunningOps>>
NapiParts == <<WorkOps, HandleOps>>

\* The parts a step leaves alone.
LEMMA PartsKept ==
    /\ UNCHANGED <<running, nexttick, microtasks, macrotasks>> => UNCHANGED JobParts
    /\ UNCHANGED timers => UNCHANGED TimerOps
    /\ UNCHANGED works => UNCHANGED WorkOps
    /\ UNCHANGED keepalive_active => UNCHANGED HandleOps
BY DEF JobParts, QueuedJobs, RunningOps, TimerOps, Refed, WorkOps, QueuedWorks, HandleOps

\* Operations begun and ended by JavaScript code, which runs while the loop is
\* open.
LEMMA JsAllowed ==
    ASSUME TypeOK, Typed', Js
    PROVE Allowed
<1>1. CASE JsQueues
  <2>1. PICK q \in Queues : enqueue(q) /\ UNCHANGED <<timerVars, napiVars>> BY <1>1, Zenon DEF JsQueues
  <2>2. \A e : /\ Elements(nexttick) \subseteq Elements(Append(nexttick, e))
               /\ Elements(microtasks) \subseteq Elements(Append(microtasks, e))
               /\ Elements(macrotasks) \subseteq Elements(Append(macrotasks, e))
    BY ElementsAppend DEF TypeOK, JobsOK
  <2>3. QueuedJobs \subseteq QueuedJobs' BY <2>1, <2>2 DEF enqueue, QueuedJobs
  <2>4. UNCHANGED <<RunningOps, TimerOps, WorkOps, HandleOps>>
    BY <2>1, PartsKept, Zenon DEF enqueue, timerVars, napiVars, tsfn, RunningOps
  <2>5. Pending \subseteq Pending' BY <2>3, <2>4, Parts, Zenon
  <2>6. State = "open" /\ State' = State BY <2>1, Zenon DEF enqueue, InJs, State
  <2> QED BY <2>5, <2>6, Begins, Zenon
<1>2. CASE JsTimers
  <2>1. UNCHANGED <<JobParts, WorkOps, HandleOps>> /\ State' = State
    BY <1>2, PartsKept, Zenon DEF JsTimers, jobVars, napiVars, tsfn, State
  <2>2. State = "open" BY <1>2, Zenon DEF JsTimers, set_timer, clear_timer, set_refed, InJs, State
  <2>3. ASSUME NEW d \in Delays, NEW r \in BOOLEAN, set_timer(d, r) PROVE Allowed
    <3>1. /\ DOMAIN timers' = DOMAIN timers \cup {next_id} /\ next_id \notin DOMAIN timers
          /\ \A id \in DOMAIN timers : timers'[id] = timers[id]
      BY <2>3 DEF set_timer, next_id, TypeOK, TimersOK
    <3>2. Refed \subseteq Refed' BY <3>1, Zenon DEF Refed
    <3>3. Pending \subseteq Pending' BY <2>1, <3>2, Parts, Zenon DEF TimerOps, JobParts
    <3> QED BY <2>1, <2>2, <3>3, Begins, Zenon
  <2>4. ASSUME NEW id, Refed' = Refed \ {id} PROVE Allowed
    <3>1. TimerOps' \subseteq TimerOps /\ TimerOps \subseteq TimerOps' \cup {Job("timer", id)}
      BY <2>4, Zenon DEF TimerOps
    <3>2. Pending' \subseteq Pending /\ Pending \subseteq Pending' \cup {Job("timer", id)}
      BY <2>1, <3>1, Parts DEF JobParts
    <3> QED BY <2>1, <2>2, <3>2, Finishes, Zenon
  <2>5. ASSUME NEW id, clear_timer(id) PROVE Allowed
    <3>1. Refed' = Refed \ {id} BY <2>5, Zenon DEF clear_timer, Refed
    <3> QED BY <2>4, <3>1, Zenon
  <2>6. ASSUME NEW id, set_refed(id, FALSE) PROVE Allowed
    <3>1. Refed' = Refed \ {id} BY <2>6 DEF set_refed, Refed, TypeOK, TimersOK
    <3> QED BY <2>4, <3>1
  <2>7. ASSUME NEW id, set_refed(id, TRUE) PROVE Allowed
    <3>1. Refed \subseteq Refed' BY <2>7, Zenon DEF set_refed, Refed, TypeOK, TimersOK
    <3>2. Pending \subseteq Pending' BY <2>1, <3>1, Parts DEF TimerOps, JobParts
    <3> QED BY <2>1, <2>2, <3>2, Begins, Zenon
  <2> QED BY <1>2, <2>3, <2>5, <2>6, <2>7, Zenon DEF JsTimers
<1>3. CASE JsWorks
  <2>1. UNCHANGED <<JobParts, TimerOps, HandleOps>> /\ State' = State
    BY <1>3, PartsKept, Zenon DEF JsWorks, jobVars, timerVars, create_async_work, queue_async_work,
       delete_async_work, tsfn, State
  <2>2. State = "open"
    BY <1>3, Zenon DEF JsWorks, create_async_work, queue_async_work, delete_async_work, InJs, State
  <2>3. QueuedWorks \subseteq QueuedWorks'
    BY <1>3, Zenon DEF JsWorks, create_async_work, queue_async_work, delete_async_work, may_delete,
       QueuedWorks, TypeOK, WorksOK
  <2>4. Pending \subseteq Pending' BY <2>1, <2>3, Parts, Zenon DEF WorkOps, JobParts
  <2> QED BY <2>1, <2>2, <2>4, Begins
<1>4. CASE JsCreate
  <2>1. UNCHANGED <<JobParts, TimerOps, WorkOps>> /\ State' = State
    BY <1>4, PartsKept, Zenon DEF JsCreate, jobVars, timerVars, create_threadsafe_function, State
  <2>2. State = "open" /\ keepalive_active'
    BY <1>4, Zenon DEF JsCreate, create_threadsafe_function, InJs, State
  <2>3. HandleOps \subseteq HandleOps' BY <2>2, Zenon DEF HandleOps
  <2>4. Pending \subseteq Pending' BY <2>1, <2>3, Parts, Zenon DEF JobParts
  <2> QED BY <2>1, <2>2, <2>4, Begins, Zenon
<1>5. CASE JobThrows
  <2>1. UNCHANGED <<JobParts, TimerOps, WorkOps, HandleOps>>
    BY <1>5, PartsKept, Zenon DEF JobThrows, job_throws, timerVars, napiVars, tsfn
  <2>2. Pending' = Pending BY <2>1, Parts, Zenon DEF JobParts
  <2>3. State = "open" /\ State' = "failed" BY <1>5, Zenon DEF JobThrows, job_throws, InJs, State
  <2> QED BY <2>2, <2>3, Zenon DEF Allowed, Contract!Next, Contract!Fail
<1> QED BY <1>1, <1>2, <1>3, <1>4, <1>5, Zenon DEF Js

\* A job that returns is over.
LEMMA JobEndsAllowed ==
    ASSUME TypeOK, JobEnds
    PROVE Allowed
<1>1. UNCHANGED <<QueuedJobs, TimerOps, WorkOps, HandleOps>>
  BY PartsKept, Zenon DEF JobEnds, job_ends, timerVars, tsfn, QueuedJobs
<1>2. RunningOps' = {} /\ RunningOps \subseteq {running} BY Zenon DEF JobEnds, job_ends, RunningOps
<1>3. State = "open" /\ State' = "open" BY Zenon DEF JobEnds, job_ends, InJs, State, TypeOK, JobsOK
<1>4. Pending' \subseteq Pending /\ Pending \subseteq Pending' \cup {running} BY <1>1, <1>2, Parts
<1> QED BY <1>3, <1>4, Finishes, Zenon

\* A job that starts leaves its queue for the main thread.
LEMMA PumpAllowed ==
    ASSUME TypeOK, PlaceInv, Pump
    PROVE Allowed
<1>1. UNCHANGED <<TimerOps, WorkOps, HandleOps>> BY PartsKept, Zenon DEF Pump, timerVars, napiVars, tsfn
<1>2. running = NoJob /\ State = "open"
  BY Zenon DEF Pump, run_tick, run_microtask, run_macrotask, no_macrotask, pump_one_microtask, TicksTurn,
     MicrosTurn, Drained, PlaceInv, OnJob, State
<1>3. State' = "open"
  BY Zenon DEF Pump, run_tick, run_microtask, run_macrotask, no_macrotask, pump_one_microtask, start, State
<1>4. RunningOps = {} BY <1>2, Zenon DEF RunningOps
<1>5. ASSUME NEW job, job.kind # "none", running' = job, QueuedJobs = QueuedJobs' \cup {job}
      PROVE Allowed
  <2>1. RunningOps' = {job} BY <1>5 DEF RunningOps, NoJob, Job
  <2>2. Pending' = Pending BY <1>1, <1>4, <1>5, <2>1, Parts
  <2> QED BY <1>2, <1>3, <2>2, Stutters, Zenon
<1>6. CASE nexttick # <<>> /\ running' = Head(nexttick) /\ nexttick' = Tail(nexttick)
           /\ UNCHANGED <<microtasks, macrotasks>>
  <2>1. Head(nexttick) \in JobsOf({"tick"}, Nat) BY <1>6 DEF TypeOK, JobsOK
  <2>2. Elements(nexttick) = Elements(Tail(nexttick)) \cup {Head(nexttick)}
    BY <1>6, ElementsTail, Zenon DEF TypeOK, JobsOK
  <2>3. QueuedJobs = QueuedJobs' \cup {Head(nexttick)} BY <1>6, <2>2, Zenon DEF QueuedJobs
  <2>4. Head(nexttick).kind # "none" BY <2>1, Zenon DEF JobsOf
  <2> QED BY <1>5, <1>6, <2>3, <2>4
<1>7. CASE microtasks # <<>> /\ running' = Head(microtasks) /\ microtasks' = Tail(microtasks)
           /\ UNCHANGED <<nexttick, macrotasks>>
  <2>1. Head(microtasks) \in JobsOf({"micro"}, Nat) BY <1>7 DEF TypeOK, JobsOK
  <2>2. Elements(microtasks) = Elements(Tail(microtasks)) \cup {Head(microtasks)}
    BY <1>7, ElementsTail, Zenon DEF TypeOK, JobsOK
  <2>3. QueuedJobs = QueuedJobs' \cup {Head(microtasks)} BY <1>7, <2>2, Zenon DEF QueuedJobs
  <2>4. Head(microtasks).kind # "none" BY <2>1, Zenon DEF JobsOf
  <2> QED BY <1>5, <1>7, <2>3, <2>4
<1>8. CASE macrotasks # <<>> /\ running' = Head(macrotasks) /\ macrotasks' = Tail(macrotasks)
           /\ UNCHANGED <<nexttick, microtasks>>
  <2>1. Head(macrotasks) \in JobsOf({"macro", "timer"}, Nat) BY <1>8 DEF TypeOK, JobsOK
  <2>2. Elements(macrotasks) = Elements(Tail(macrotasks)) \cup {Head(macrotasks)}
    BY <1>8, ElementsTail, Zenon DEF TypeOK, JobsOK
  <2>3. QueuedJobs = QueuedJobs' \cup {Head(macrotasks)} BY <1>8, <2>2, Zenon DEF QueuedJobs
  <2>4. Head(macrotasks).kind # "none" BY <2>1, Zenon DEF JobsOf
  <2> QED BY <1>5, <1>8, <2>3, <2>4
<1>9. CASE UNCHANGED <<running, nexttick, microtasks, macrotasks>>
  <2>1. Pending' = Pending BY <1>1, <1>9, PartsKept, Parts, Zenon DEF JobParts
  <2> QED BY <1>2, <1>3, <2>1, Stutters
<1> QED BY <1>6, <1>7, <1>8, <1>9, Zenon DEF Pump, run_tick, run_microtask, run_macrotask, no_macrotask,
           pump_one_microtask, start

\* A step that changes no part of Pending and neither ends nor fails the loop.
LEMMA KeptAllowed ==
    ASSUME UNCHANGED <<running, nexttick, microtasks, macrotasks, timers, works, keepalive_active>>,
           State' = State
    PROVE Allowed
<1>1. Pending' = Pending BY PartsKept, Parts, Zenon DEF JobParts
<1> QED BY <1>1, Stutters, Zenon

\* The loop ends with nothing pending.
LEMMA EndAllowed ==
    ASSUME PlaceInv, EndInv, QuietInv, CompletionsIdle
    PROVE Allowed
<1>1. UNCHANGED <<running, nexttick, microtasks, macrotasks, timers, works, keepalive_active>>
  BY Zenon DEF CompletionsIdle, next_turn, queueVars, timerVars, napiVars, tsfn
<1>2. pc = "inbox" /\ pc' = (IF progressed THEN "ticks" ELSE "exited")
  BY Zenon DEF CompletionsIdle, next_turn
<1>3. CASE progressed
  <2>1. State' = State BY <1>2, <1>3, Zenon DEF State
  <2> QED BY <1>1, <2>1, KeptAllowed, Zenon
<1>4. CASE ~progressed
  <2>1. State = "open" /\ State' = "ended" BY <1>2, <1>4, Zenon DEF State
  <2>2. Empty BY <1>2, <1>4, Zenon DEF QuietInv, Idle, Polling
  <2>3. QueuedJobs = {} BY <2>2 DEF Empty, QueuedJobs, Elements
  <2>4. RunningOps = {} BY <1>2, Zenon DEF PlaceInv, OnJob, RunningOps
  <2>5. Refed = {} BY <1>2, <1>4, Zenon DEF QuietInv, Closed, has_pending, Refed
  <2>6. QueuedWorks = {} /\ ~keepalive_active BY <1>2, <1>4, Zenon DEF EndInv, NothingKept, Closing
  <2>7. TimerOps = {} /\ WorkOps = {} /\ HandleOps = {} BY <2>5, <2>6, Zenon DEF TimerOps, WorkOps, HandleOps
  <2>8. Pending = {} BY <2>3, <2>4, <2>7, Parts, Zenon
  <2>9. Pending' = Pending BY <1>1, PartsKept, Parts, Zenon DEF JobParts
  <2> QED BY <2>1, <2>8, <2>9, Zenon DEF Allowed, Contract!Next, Contract!End
<1> QED BY <1>3, <1>4, Zenon

\* A completion begins to run as its work is marked idle.
LEMMA CompletionAllowed ==
    ASSUME TypeOK, PlaceInv, WorkInv, Typed', RunCompletion
    PROVE Allowed
<1>1. UNCHANGED <<QueuedJobs, TimerOps, HandleOps>>
  BY PartsKept, Zenon DEF RunCompletion, timerVars, tsfn, QueuedJobs
<1>2. State = "open" /\ State' = "open" BY Zenon DEF RunCompletion, start, State
<1>3. RunningOps = {} BY Zenon DEF RunCompletion, PlaceInv, OnJob, RunningOps
<1>4. WorkOps \subseteq WorkOps' \cup RunningOps'
  <2>1. CASE QueuedWorks' = QueuedWorks BY <2>1, Zenon DEF WorkOps
  <2>2. ASSUME NEW w \in QueuedWorks, running' = Job("work", w), QueuedWorks' = QueuedWorks \ {w}
        PROVE WorkOps \subseteq WorkOps' \cup RunningOps'
    <3>0. Job("work", w) # NoJob BY Zenon DEF NoJob, Job
    <3>1. RunningOps' = {Job("work", w)} BY <2>2, <3>0, Zenon DEF RunningOps
    <3> QED BY <2>2, <3>1, Zenon DEF WorkOps
  <2> QED BY <2>1, <2>2, CompletionTakes, Zenon
<1>5. Pending \subseteq Pending' BY <1>1, <1>3, <1>4, Parts, Zenon
<1> QED BY <1>2, <1>5, Begins, Zenon

\* Every timer that leaves the table is in the macrotask queue.
LEMMA PollAllowed ==
    ASSUME TypeOK, DueEnumerable, Typed', PollTimers
    PROVE Allowed
<1>1. CASE no_due_timers
  <2>1. UNCHANGED <<running, nexttick, microtasks, macrotasks, timers, works, keepalive_active>>
    BY <1>1, Zenon DEF PollTimers, no_due_timers, napiVars, tsfn
  <2>2. State' = State BY <1>1, Zenon DEF no_due_timers, State
  <2> QED BY <2>1, <2>2, KeptAllowed, Zenon
<1>2. CASE poll_due_timers
  <2>1. UNCHANGED <<RunningOps, WorkOps, HandleOps>>
    BY <1>2, PartsKept, Zenon DEF PollTimers, poll_due_timers, napiVars, tsfn, RunningOps
  <2>2. State = "open" /\ State' = "open" BY <1>2, Zenon DEF poll_due_timers, State
  <2>3. PICK order \in [1 .. Cardinality(Due) -> Due] :
          /\ InOrder(order)
          /\ macrotasks' = macrotasks \o [i \in DOMAIN order |-> Job("timer", order[i])]
    BY <1>2, Zenon DEF poll_due_timers
  <2> DEFINE added == [i \in DOMAIN order |-> Job("timer", order[i])]
             S == JobsOf({"macro", "timer"}, Nat)
  <2>4. Cardinality(Due) \in Nat /\ Due \subseteq Nat BY Zenon DEF DueEnumerable
  <2>5. DOMAIN order = 1 .. Cardinality(Due) BY Zenon
  <2>6. \A i \in DOMAIN order : Job("timer", order[i]) \in S BY <2>4, <2>5, Zenon DEF Job, JobsOf
  <2>7. added \in Seq(S) BY <2>4, <2>5, <2>6
  <2>8. Elements(added) = {Job("timer", id) : id \in Due}
    <3>1. {order[i] : i \in DOMAIN order} = Due BY <2>3, Zenon DEF DueEnumerable
    <3>2. DOMAIN added = DOMAIN order /\ \A i \in DOMAIN order : added[i] = Job("timer", order[i])
      BY Zenon
    <3> HIDE DEF added
    <3> QED BY <3>1, <3>2 DEF Elements
  <2>9. Elements(macrotasks') = Elements(macrotasks) \cup Elements(added)
    <3>1. macrotasks' = macrotasks \o added /\ macrotasks \in Seq(S) BY <2>3, Zenon DEF TypeOK, JobsOK
    <3> HIDE DEF added, S
    <3> QED BY <2>7, <3>1, ElementsConcat
  <2>10. UNCHANGED <<nexttick, microtasks>> /\ timers' = Kept BY <1>2, Zenon DEF poll_due_timers
  <2>11. QueuedJobs \subseteq QueuedJobs' /\ {Job("timer", id) : id \in Due} \subseteq QueuedJobs'
    BY <2>8, <2>9, <2>10, Zenon DEF QueuedJobs
  <2>12. Refed \subseteq Refed' \cup Due
    BY <2>10, Zenon DEF Kept, Refed
  <2>13. TimerOps \subseteq TimerOps' \cup QueuedJobs' BY <2>11, <2>12, Zenon DEF TimerOps
  <2>14. Pending \subseteq Pending' BY <2>1, <2>11, <2>13, Parts, Zenon
  <2> QED BY <2>2, <2>14, Begins, Zenon
<1> QED BY <1>1, <1>2, Zenon DEF PollTimers

\* Every step of the turn is a step of the contract.
LEMMA LoopAllowed ==
    ASSUME LoopInv, DueEnumerable, QuietInv, Typed', Loop
    PROVE Allowed
<1> TypeOK /\ PlaceInv /\ WorkInv /\ EndInv BY Zenon DEF LoopInv
<1>1. ASSUME NEW then, drain(then), pc \notin {"exited", "failed"} PROVE Allowed
  <2>1. UNCHANGED <<running, nexttick, microtasks, macrotasks, timers, works, keepalive_active>>
    BY <1>1, Zenon DEF drain, queueVars, timerVars, threadVars, tsfn
  <2>2. State' = State BY <1>1 DEF drain, State
  <2> QED BY <2>1, <2>2, KeptAllowed, Zenon
<1>2. ASSUME NEW then, NEW ready, proceed(then, ready), pc \notin {"exited", "failed"},
             then \notin {"exited", "failed"}
      PROVE Allowed
  <2>1. UNCHANGED <<running, nexttick, microtasks, macrotasks, timers, works, keepalive_active>>
    BY <1>2, Zenon DEF proceed, queueVars, timerVars, threadVars, tsfn
  <2>2. State' = State BY <1>2 DEF proceed, State
  <2> QED BY <2>1, <2>2, KeptAllowed
<1>3. CASE BatchDone
  <2>1. UNCHANGED <<running, nexttick, microtasks, macrotasks, timers, works, keepalive_active>>
    BY <1>3, Zenon DEF BatchDone, proceed, next_turn, queueVars, timerVars, threadVars, napiVars, tsfn
  <2>2. pc = "drain" /\ progressed BY <1>3, Zenon DEF BatchDone, PlaceInv, OnCompletion
  <2>3. pc' \in {"inbox", "ticks"} BY <1>3, <2>2, Zenon DEF BatchDone, proceed, next_turn
  <2>4. State' = State BY <2>2, <2>3, Zenon DEF State
  <2> QED BY <2>1, <2>4, KeptAllowed
<1>4. CASE HookDrains \/ RecheckDrains \/ CompletionsDrain
  BY <1>1, <1>4, Zenon DEF HookDrains, RecheckDrains, CompletionsDrain
<1>5. CASE HookIdle \/ ReadKeepalive \/ ReadInbox \/ Observe \/ RecheckIdle \/ Unpark \/ ParkTimeout
           \/ SleepEnds
  BY <1>2, <1>5, Zenon DEF HookIdle, ReadKeepalive, ReadInbox, Observe, RecheckIdle, Unpark, ParkTimeout,
     SleepEnds, NativeWait
<1> QED BY <1>3, <1>4, <1>5, PumpAllowed, CompletionAllowed, PollAllowed, EndAllowed DEF Loop

\* The addon's threads: only the last release ends an operation, the function's
\* own, and by then the loop has not ended.
LEMMA ThreadsAllowed ==
    ASSUME LoopInv, Typed', NEW p \in Users,
           \/ Reference \/ WorkThread \/ Operation(p) \/ Release(p) \/ InOperation(p)
    PROVE Allowed
<1> PlaceInv /\ EndInv BY Zenon DEF LoopInv
<1>1. UNCHANGED <<JobParts, TimerOps, WorkOps>>
  BY PartsKept, Zenon DEF Reference, WorkThread, Operation, Release, InOperation, Inside, ref, unref, execute,
     wake, call, acquire, release, call_posts, call_wakes, release_closes, release_drops,
     counter_moves, goto, jobVars, timerVars
<1>2. State' = State
  <2>1. ASSUME NEW q, NEW l, goto(q, l), q = Main => pc \notin {"exited", "failed"} PROVE State' = State
    BY <2>1, Zenon DEF goto, State
  <2>2. CASE Reference BY <2>1, <2>2, Zenon DEF Reference, ref, unref, Able, Free, InJs
  <2>3. CASE WorkThread BY <2>3, Zenon DEF WorkThread, jobVars, State
  <2>4. CASE Operation(p) \/ Release(p)
    BY <2>1, <2>4, Zenon DEF Operation, Release, call, acquire, release, Able, Free, InJs, jobVars, State
  <2>5. CASE InOperation(p)
    BY <2>1, <2>5, Zenon DEF InOperation, Inside, call_posts, call_wakes, release_closes, release_drops,
       counter_moves, PlaceInv
  <2> QED BY <2>2, <2>3, <2>4, <2>5, Zenon
<1>3. CASE UNCHANGED keepalive_active
  <2>1. Pending' = Pending BY <1>1, <1>3, PartsKept, Parts, Zenon DEF JobParts
  <2> QED BY <1>2, <2>1, Stutters, Zenon
<1>4. CASE ref
  <2>1. keepalive_active' /\ State = "open" BY <1>4, Zenon DEF ref, Able, Free, InJs, State
  <2>2. HandleOps \subseteq HandleOps' BY <2>1, Zenon DEF HandleOps
  <2>3. Pending \subseteq Pending' BY <1>1, <2>2, Parts, Zenon DEF JobParts
  <2> QED BY <1>2, <2>1, <2>3, Begins, Zenon
<1>5. ASSUME ~keepalive_active', State # "ended" PROVE Allowed
  <2>1. HandleOps' \subseteq HandleOps /\ HandleOps \subseteq HandleOps' \cup {Job("handle", 0)}
    BY <1>5, Zenon DEF HandleOps
  <2>2. Pending' \subseteq Pending /\ Pending \subseteq Pending' \cup {Job("handle", 0)}
    BY <1>1, <2>1, Parts, Zenon DEF JobParts
  <2> QED BY <1>2, <1>5, <2>2, Finishes, Zenon
<1>6. CASE unref BY <1>5, <1>6, Zenon DEF unref, Free, InJs, State
<1>7. CASE release_drops(p)
  <2>1. ~keepalive_active' BY <1>7 DEF release_drops
  <2>2. CASE State = "ended"
    <3>1. ~keepalive_active BY <2>2, Zenon DEF State, EndInv, NothingKept, Closing
    <3>2. HandleOps' = HandleOps BY <2>1, <3>1, Zenon DEF HandleOps
    <3>3. Pending' = Pending BY <1>1, <3>2, Parts, Zenon DEF JobParts
    <3> QED BY <1>2, <3>3, Stutters
  <2> QED BY <1>5, <2>1, <2>2, Zenon
<1> QED BY <1>3, <1>4, <1>6, <1>7 DEF Reference, WorkThread, Operation, Release, InOperation, Inside,
           execute, wake, call, acquire, release, call_posts, call_wakes, release_closes,
           counter_moves, tsfn

\* Every step of the program is a step of the contract.
LEMMA NextAllowed ==
    ASSUME LoopInv, DueEnumerable, QuietInv, Typed', [Next]_vars
    PROVE Allowed
<1> TypeOK BY Zenon DEF LoopInv
<1>1. CASE UNCHANGED vars
  BY <1>1, KeptAllowed, Zenon DEF vars, jobVars, timerVars, napiVars, tsfn, State
<1>2. CASE TimePasses
  <2>1. Refed' = Refed BY <1>2 DEF TimePasses, time_passes, Refed, TypeOK, TimersOK
  <2>2. UNCHANGED <<JobParts, WorkOps, HandleOps>> /\ State' = State
    BY <1>2, PartsKept, Zenon DEF TimePasses, jobVars, napiVars, tsfn, State
  <2>3. Pending' = Pending BY <2>1, <2>2, Parts, Zenon DEF JobParts, TimerOps
  <2> QED BY <2>2, <2>3, Stutters, Zenon
<1>3. CASE Reference \/ WorkThread BY <1>3, ThreadsAllowed, MainUses, Zenon
<1>4. CASE \E p \in Users : Operation(p) \/ Release(p) \/ InOperation(p) BY <1>4, ThreadsAllowed, Zenon
<1> QED BY <1>1, <1>2, <1>3, <1>4, JsAllowed, JobEndsAllowed, LoopAllowed DEF Next

==========================================================================
