-------------------------- MODULE MainLoopProofs --------------------------
(* What every step of the event loop keeps, for any number of works,         *)
(* threads, timers and jobs: the order of the timers, types, where the main  *)
(* thread is (PlaceInv) and where each completion is (WorkInv).  LoopInv, at *)
(* the end, is the inductive invariant: it adds who holds the threadsafe     *)
(* function (HoldInv), what the counter counts (CountInv), and the end of    *)
(* the loop (KeepInv, EndInv).                                               *)
EXTENDS MainLoop, TLAPS

\* The main thread may use the threadsafe function.
LEMMA MainUses == Main \in Users
BY Zenon DEF Users

\* fetch_add and fetch_sub keep the counter within a usize.
LEMMA CounterWraps ==
    ASSUME NEW k \in 0 .. (Modulus - 1)
    PROVE fetch_add(k) \in 0 .. (Modulus - 1) /\ fetch_sub(k) \in 0 .. (Modulus - 1)
BY NapiAssumption DEF fetch_add, fetch_sub

----------------------------------------------------------------------------
(* Who changes what.  Each lemma names the steps that change one part of the *)
(* state.                                                                    *)

\* The timer table: JavaScript, the clock and the poll.
LEMMA TimerSteps ==
    ASSUME [Next]_vars
    PROVE UNCHANGED timerVars \/ JsTimers \/ TimePasses \/ poll_due_timers
<1>1. CASE UNCHANGED vars BY <1>1, Zenon DEF vars
<1>2. CASE Js BY <1>2, Zenon DEF Js, JsQueues, JsWorks, JsCreate, JobThrows
<1>3. CASE JobEnds BY <1>3, Zenon DEF JobEnds
<1>4. CASE Loop
  BY <1>4, Zenon DEF Loop, Pump, HookDrains, HookIdle, RunCompletion, PollTimers, no_due_timers,
     ReadKeepalive, ReadInbox, Observe, RecheckDrains, RecheckIdle, Unpark, ParkTimeout,
     SleepEnds, CompletionsDrain, CompletionsIdle, BatchDone, drain, proceed, next_turn, timerVars
<1>5. CASE TimePasses BY <1>5, Zenon
<1>6. CASE WorkThread \/ Reference BY <1>6, Zenon DEF WorkThread, Reference
<1>7. CASE \E p \in Users : Operation(p) \/ Release(p) \/ InOperation(p)
  BY <1>7, Zenon DEF Operation, Release, InOperation
<1> QED BY <1>1, <1>2, <1>3, <1>4, <1>5, <1>6, <1>7, Zenon DEF Next

\* The inbox and the drained batch.
LEMMA InboxSteps ==
    ASSUME [Next]_vars
    PROVE \/ UNCHANGED <<inbox, batch>>
          \/ \E w \in Works : execute(w)
          \/ \E p \in Users : call_posts(p)
          \/ RunCompletion
          \/ pc \in {"host", "recheck", "inbox"} /\ \E then \in {"inbox", "turn"} : drain(then)
<1>1. CASE UNCHANGED vars BY <1>1, Zenon DEF vars, napiVars
<1>2. CASE Js
  BY <1>2, Zenon DEF Js, JsQueues, JsTimers, JsWorks, JsCreate, JobThrows, napiVars, create_async_work,
     queue_async_work, delete_async_work, create_threadsafe_function
<1>3. CASE JobEnds BY <1>3, Zenon DEF JobEnds
<1>4. CASE Loop
  BY <1>4, Zenon DEF Loop, Pump, HookDrains, HookIdle, PollTimers, napiVars,
     ReadKeepalive, ReadInbox, Observe, RecheckDrains, RecheckIdle, Unpark, ParkTimeout,
     SleepEnds, CompletionsDrain, CompletionsIdle, BatchDone, proceed, next_turn
<1>5. CASE TimePasses BY <1>5, Zenon DEF TimePasses, napiVars
<1>6. CASE WorkThread \/ Reference BY <1>6, Zenon DEF WorkThread, Reference, wake, ref, unref
<1>7. CASE \E p \in Users : Operation(p) \/ Release(p) \/ InOperation(p)
  BY <1>7, Zenon DEF Operation, Release, InOperation, Inside, call, acquire, release, call_wakes,
     release_closes, release_drops, counter_moves
<1> QED BY <1>1, <1>2, <1>3, <1>4, <1>5, <1>6, <1>7, Zenon DEF Next

\* The async works.
LEMMA WorkSteps ==
    ASSUME [Next]_vars
    PROVE \/ UNCHANGED <<works, executing>>
          \/ /\ \E w \in Works : create_async_work(w) \/ queue_async_work(w)
                                 \/ delete_async_work(w) \/ execute(w)
             /\ UNCHANGED jobVars
          \/ RunCompletion
<1>1. CASE UNCHANGED vars BY <1>1, Zenon DEF vars, napiVars
<1>2. CASE Js
  BY <1>2, Zenon DEF Js, JsQueues, JsTimers, JsWorks, JsCreate, JobThrows, napiVars,
     create_threadsafe_function
<1>3. CASE JobEnds BY <1>3, Zenon DEF JobEnds
<1>4. CASE Loop
  BY <1>4, Zenon DEF Loop, Pump, HookDrains, HookIdle, PollTimers, napiVars, threadVars, drain,
     ReadKeepalive, ReadInbox, Observe, RecheckDrains, RecheckIdle, Unpark, ParkTimeout,
     SleepEnds, CompletionsDrain, CompletionsIdle, BatchDone, proceed, next_turn
<1>5. CASE TimePasses BY <1>5, Zenon DEF TimePasses, napiVars
<1>6. CASE WorkThread \/ Reference BY <1>6, Zenon DEF WorkThread, Reference, wake, ref, unref
<1>7. CASE \E p \in Users : Operation(p) \/ Release(p) \/ InOperation(p)
  BY <1>7, Zenon DEF Operation, Release, InOperation, Inside, call, acquire, release, call_posts, call_wakes,
     release_closes, release_drops, counter_moves
<1> QED BY <1>1, <1>2, <1>3, <1>4, <1>5, <1>6, <1>7, Zenon DEF Next

\* The threadsafe function, its holders and the threads inside it.
LEMMA FunctionSteps ==
    ASSUME [Next]_vars
    PROVE \/ UNCHANGED <<ref_count, active, keepalive_active, held, at, calls, unreffed>>
          \/ create_threadsafe_function /\ UNCHANGED jobVars
          \/ ref \/ unref
          \/ \E p \in Users : call(p) \/ acquire(p) \/ release(p) \/ Inside(p)
<1>1. CASE UNCHANGED vars BY <1>1, Zenon DEF vars, napiVars, tsfn
<1>2. CASE Js
  BY <1>2, Zenon DEF Js, JsQueues, JsTimers, JsWorks, JsCreate, JobThrows, napiVars, tsfn,
     create_async_work, queue_async_work, delete_async_work
<1>3. CASE JobEnds BY <1>3, Zenon DEF JobEnds, tsfn
<1>4. CASE Loop
  BY <1>4, Zenon DEF Loop, Pump, HookDrains, HookIdle, PollTimers, napiVars, threadVars, tsfn, drain,
     ReadKeepalive, ReadInbox, Observe, RecheckDrains, RecheckIdle, Unpark, ParkTimeout,
     SleepEnds, CompletionsDrain, CompletionsIdle, BatchDone, proceed, next_turn, RunCompletion
<1>5. CASE TimePasses BY <1>5, Zenon DEF TimePasses, napiVars, tsfn
<1>6. CASE WorkThread \/ Reference BY <1>6, Zenon DEF WorkThread, Reference, wake, execute, tsfn
<1>7. CASE \E p \in Users : Operation(p) \/ Release(p) \/ InOperation(p)
  BY <1>7, Zenon DEF Operation, Release, InOperation
<1> QED BY <1>1, <1>2, <1>3, <1>4, <1>5, <1>6, <1>7, Zenon DEF Next

\* napi_keepalive.
LEMMA CounterSteps ==
    ASSUME [Next]_vars
    PROVE \/ UNCHANGED keepalive
          \/ \E w \in Works : queue_async_work(w) /\ UNCHANGED jobVars
          \/ JobEnds \/ (create_threadsafe_function /\ UNCHANGED jobVars)
          \/ \E p \in Users : counter_moves(p)
<1>1. CASE UNCHANGED vars BY <1>1, Zenon DEF vars, napiVars
<1>2. CASE Js
  BY <1>2, Zenon DEF Js, JsQueues, JsTimers, JsWorks, JsCreate, JobThrows, napiVars,
     create_async_work, delete_async_work
<1>3. CASE JobEnds BY <1>3, Zenon
<1>4. CASE Loop
  BY <1>4, Zenon DEF Loop, Pump, HookDrains, HookIdle, PollTimers, napiVars, threadVars, drain,
     ReadKeepalive, ReadInbox, Observe, RecheckDrains, RecheckIdle, Unpark, ParkTimeout,
     SleepEnds, CompletionsDrain, CompletionsIdle, BatchDone, proceed, next_turn, RunCompletion
<1>5. CASE TimePasses BY <1>5, Zenon DEF TimePasses, napiVars
<1>6. CASE WorkThread \/ Reference BY <1>6, Zenon DEF WorkThread, Reference, wake, execute, ref, unref
<1>7. CASE \E p \in Users : Operation(p) \/ Release(p) \/ InOperation(p)
  BY <1>7, Zenon DEF Operation, Release, InOperation, Inside, call, acquire, release, call_posts, call_wakes,
     release_closes, release_drops
<1> QED BY <1>1, <1>2, <1>3, <1>4, <1>5, <1>6, <1>7, Zenon DEF Next

\* The macrotask queue: JavaScript, the pump and the poll.
LEMMA MacrotaskSteps ==
    ASSUME [Next]_vars
    PROVE UNCHANGED macrotasks \/ JsQueues \/ run_macrotask \/ poll_due_timers
<1>1. CASE UNCHANGED vars BY <1>1, Zenon DEF vars, jobVars
<1>2. CASE Js BY <1>2, Zenon DEF Js, JsTimers, JsWorks, JsCreate, JobThrows, job_throws, jobVars
<1>3. CASE JobEnds BY <1>3, Zenon DEF JobEnds, job_ends
<1>4. CASE Pump
  BY <1>4, Zenon DEF Pump, run_tick, run_microtask, no_macrotask, pump_one_microtask
<1>5. CASE Loop
  BY <1>4, <1>5, Zenon DEF Loop, HookDrains, HookIdle, RunCompletion, PollTimers, no_due_timers,
     ReadKeepalive, ReadInbox, Observe, RecheckDrains, RecheckIdle, Unpark, ParkTimeout,
     SleepEnds, CompletionsDrain, CompletionsIdle, BatchDone, drain, proceed, next_turn, queueVars
<1>6. CASE TimePasses \/ WorkThread BY <1>6, Zenon DEF TimePasses, WorkThread, jobVars
<1>7. CASE Reference BY <1>7, Zenon DEF Reference, ref, unref, goto
<1>8. CASE \E p \in Users : Operation(p) \/ Release(p) \/ InOperation(p)
  BY <1>8, Zenon DEF Operation, Release, InOperation, Inside, call, acquire, release, call_posts,
     call_wakes, release_closes, release_drops, counter_moves, goto, jobVars
<1> QED BY <1>1, <1>2, <1>3, <1>5, <1>6, <1>7, <1>8, Zenon DEF Next

----------------------------------------------------------------------------
(* The order of the timers.                                                  *)

\* An entry keeps the delay it was registered with, a timeout has at most its
\* delay left, and of two timeouts of the same delay the older has no more left
\* than the younger: this is why they come due in order.
TimerInv ==
    /\ \A id \in DOMAIN timers :
        /\ timers[id].delay = registered[id].delay /\ timers[id].repeat = registered[id].repeat
        /\ OneShot(id) => timers[id].left <= timers[id].delay
    /\ \A old, id \in DOMAIN timers :
        old < id /\ Alike(old, id) => timers[old].left <= timers[id].left
    /\ \A i \in DOMAIN macrotasks :
        macrotasks[i].kind = "timer" => macrotasks[i].id \in 1 .. Len(registered)
    /\ TimersInOrder

\* What the poll relies on: the due timers are numbers, as many as a number, and
\* a strictly increasing sequence of that many is all of them.
DueEnumerable ==
    /\ Cardinality(Due) \in Nat /\ Due \subseteq Nat
    /\ \A order \in [1 .. Cardinality(Due) -> Due] :
          InOrder(order) => {order[i] : i \in DOMAIN order} = Due

\* Taking entries out of the table, and changing what the order does not depend
\* on, keeps the order.
LEMMA FewerTimers ==
    ASSUME TimerInv, UNCHANGED <<registered, macrotasks>>, DOMAIN timers' \subseteq DOMAIN timers,
           \A id \in DOMAIN timers' : /\ timers'[id].left = timers[id].left
                                      /\ timers'[id].delay = timers[id].delay
                                      /\ timers'[id].repeat = timers[id].repeat
    PROVE TimerInv'
<1>1. TimersInOrder' BY DEF TimerInv, TimersInOrder, Alike, OneShot
<1> QED BY <1>1, Zenon DEF TimerInv, Alike, OneShot

\* A new timeout has its whole delay left, which no older one of that delay has
\* more of.
LEMMA SetInOrder ==
    ASSUME TypeOK, TimerInv, NEW d \in Delays, NEW r \in BOOLEAN, set_timer(d, r),
           UNCHANGED macrotasks
    PROVE TimerInv'
<1> DEFINE n == Len(registered) + 1
<1>1. /\ registered \in Seq([delay : Nat, repeat : BOOLEAN]) /\ Len(registered) \in Nat
      /\ DOMAIN timers \subseteq 1 .. Len(registered)
      /\ \A id \in DOMAIN timers : timers[id].left \in Nat /\ timers[id].delay \in Nat
  BY DEF TypeOK, TimersOK
<1>2. /\ Len(registered') = n /\ registered'[n].delay = d /\ registered'[n].repeat = r
      /\ \A id \in 1 .. Len(registered) : registered'[id] = registered[id]
  BY <1>1 DEF set_timer
<1>3. d \in Nat BY TimersAssumption, Zenon
<1>4. /\ DOMAIN timers' = DOMAIN timers \cup {n}
      /\ timers'[n] = TimerEntry(d, r)
      /\ \A id \in DOMAIN timers : timers'[id] = timers[id]
  BY <1>1 DEF set_timer, next_id
<1>5. n \notin DOMAIN timers /\ \A id \in DOMAIN timers : id \in Nat /\ id < n BY <1>1
<1>6. timers'[n].left = d /\ timers'[n].delay = d /\ timers'[n].repeat = r
  BY <1>4 DEF TimerEntry
<1>7. \A id, old \in 1 .. Len(registered) : Alike(old, id)' <=> Alike(old, id)
  BY <1>2, Zenon DEF Alike, OneShot
<1>8. \A id \in DOMAIN timers' :
        /\ timers'[id].delay = registered'[id].delay /\ timers'[id].repeat = registered'[id].repeat
        /\ OneShot(id)' => timers'[id].left <= timers'[id].delay
  <2> TAKE id \in DOMAIN timers'
  <2>1. CASE id = n BY <1>2, <1>3, <1>6, <2>1
  <2>2. CASE id \in DOMAIN timers
    <3>1. timers'[id] = timers[id] /\ registered'[id] = registered[id] BY <1>1, <1>2, <1>4, <2>2, Zenon
    <3>2. OneShot(id)' => OneShot(id) BY <3>1, Zenon DEF OneShot
    <3>3. /\ timers[id].delay = registered[id].delay /\ timers[id].repeat = registered[id].repeat
          /\ OneShot(id) => timers[id].left <= timers[id].delay
      BY <2>2, Zenon DEF TimerInv
    <3> QED BY <3>1, <3>2, <3>3, Zenon
  <2> QED BY <1>4, <2>1, <2>2, Zenon
<1>9. ASSUME NEW old \in DOMAIN timers', NEW id \in DOMAIN timers', old < id, Alike(old, id)'
      PROVE timers'[old].left <= timers'[id].left
  <2>1. old \in DOMAIN timers /\ old \in 1 .. Len(registered) BY <1>1, <1>4, <1>5, <1>9
  <2>2. CASE id \in DOMAIN timers BY <1>1, <1>4, <1>7, <1>9, <2>1, <2>2, Zenon DEF TimerInv
  <2>3. CASE id = n
    <3>1. OneShot(old) /\ registered[old].delay = d BY <1>2, <1>9, <2>1, <2>3, Zenon DEF Alike, OneShot
    <3> QED BY <1>4, <1>6, <2>1, <2>3, <3>1, Zenon DEF TimerInv
  <2> QED BY <1>4, <2>2, <2>3, Zenon
<1>10. \A i \in DOMAIN macrotasks' :
         macrotasks'[i].kind = "timer" => macrotasks'[i].id \in 1 .. Len(registered')
  BY <1>1, <1>2 DEF TimerInv
<1>11. TimersInOrder'
  <2> SUFFICES ASSUME NEW i \in DOMAIN macrotasks, NEW old \in 1 .. macrotasks[i].id - 1,
                      macrotasks[i].kind = "timer", Alike(old, macrotasks[i].id)'
               PROVE /\ old \notin DOMAIN timers'
                     /\ \A j \in i + 1 .. Len(macrotasks) : macrotasks[j] # Job("timer", old)
    BY DEF TimersInOrder
  <2>1. macrotasks[i].id \in 1 .. Len(registered) /\ old \in 1 .. Len(registered) /\ old # n
    BY <1>1 DEF TimerInv
  <2>2. Alike(old, macrotasks[i].id) BY <1>2, <2>1, Zenon DEF Alike, OneShot
  <2> QED BY <1>4, <2>1, <2>2, Zenon DEF TimerInv, TimersInOrder
<1> QED BY <1>8, <1>9, <1>10, <1>11, Zenon DEF TimerInv

\* Time takes as much from every timer that has any left.
LEMMA TimeInOrder ==
    ASSUME TypeOK, TimerInv, time_passes, UNCHANGED macrotasks
    PROVE TimerInv'
<1>1. \A id \in DOMAIN timers : timers[id] \in [delay : Nat, left : Nat, refed : BOOLEAN, repeat : BOOLEAN]
  BY Zenon DEF TypeOK, TimersOK
<1>2. /\ DOMAIN timers' = DOMAIN timers /\ registered' = registered
      /\ \A id \in DOMAIN timers :
           /\ timers'[id].left = IF timers[id].left > 0 THEN timers[id].left - 1 ELSE 0
           /\ timers'[id].delay = timers[id].delay /\ timers'[id].repeat = timers[id].repeat
  BY <1>1, Zenon DEF time_passes
<1>3. \A id \in DOMAIN timers : timers[id].left \in Nat /\ timers[id].delay \in Nat BY <1>1, Zenon
<1>4. \A id, old : (Alike(old, id)' <=> Alike(old, id)) /\ (OneShot(id)' <=> OneShot(id))
  BY <1>2, Zenon DEF Alike, OneShot
<1>5. TimersInOrder' BY <1>2, <1>4 DEF TimerInv, TimersInOrder
<1>6. \A id \in DOMAIN timers' :
        /\ timers'[id].delay = registered'[id].delay /\ timers'[id].repeat = registered'[id].repeat
        /\ OneShot(id)' => timers'[id].left <= timers'[id].delay
  BY <1>2, <1>3, <1>4 DEF TimerInv
<1>7. \A old, id \in DOMAIN timers' :
        old < id /\ Alike(old, id)' => timers'[old].left <= timers'[id].left
  BY <1>2, <1>3, <1>4 DEF TimerInv
<1> QED BY <1>2, <1>5, <1>6, <1>7, Zenon DEF TimerInv

\* A function on the first n numbers is a sequence of that length: the timers a
\* poll queues.
LEMMA FunctionIsSeq ==
    ASSUME NEW S, NEW n \in Nat, NEW f \in [1 .. n -> S]
    PROVE f \in Seq(S) /\ Len(f) = n
<1>1. f \in Seq(S) BY SMTT(30)
<1>2. DOMAIN f = 1 .. n BY Zenon
<1> QED BY <1>1, <1>2

\* A queue with another one after it.
LEMMA JoinedQueue ==
    ASSUME NEW S, NEW T, NEW q \in Seq(S), NEW r \in Seq(T)
    PROVE /\ Len(q \o r) = Len(q) + Len(r)
          /\ DOMAIN (q \o r) = 1 .. (Len(q) + Len(r)) /\ DOMAIN q = 1 .. Len(q)
          /\ \A i \in 1 .. Len(q) : (q \o r)[i] = q[i]
          /\ \A i \in Len(q) + 1 .. Len(q) + Len(r) :
                (q \o r)[i] = r[i - Len(q)] /\ i - Len(q) \in 1 .. Len(r)
  OBVIOUS

\* A poll drains the due timeouts in the order of the table.
LEMMA PollInOrder ==
    ASSUME TypeOK, DueEnumerable, TimerInv, poll_due_timers
    PROVE TimerInv'
<1> DEFINE m == Len(macrotasks)
<1>2. PICK n \in Nat : n = Cardinality(Due) BY Zenon DEF DueEnumerable
<1>0. Due \subseteq Nat BY Zenon DEF DueEnumerable
<1>1. PICK order \in [1 .. n -> Due] :
        /\ InOrder(order)
        /\ macrotasks' = macrotasks \o [i \in DOMAIN order |-> Job("timer", order[i])]
  BY <1>2, Zenon DEF poll_due_timers
<1>3. macrotasks \in Seq(JobsOf({"macro", "timer"}, Nat)) /\ m \in Nat BY DEF TypeOK, JobsOK
<1>4. PICK added \in [1 .. n -> [kind : {"timer"}, id : Nat]] :
        added = [i \in 1 .. n |-> Job("timer", order[i])]
  <2>1. \A i \in 1 .. n : Job("timer", order[i]) \in [kind : {"timer"}, id : Nat]
    BY <1>0, <1>1, Zenon DEF Job
  <2> QED BY <2>1, Zenon
<1>5. macrotasks' = macrotasks \o added /\ added \in Seq([kind : {"timer"}, id : Nat]) /\ Len(added) = n
  BY <1>1, <1>4, FunctionIsSeq
<1>6. /\ Len(macrotasks') = m + n /\ DOMAIN macrotasks' = 1 .. (m + n)
      /\ DOMAIN macrotasks = 1 .. m
      /\ \A i \in 1 .. m : macrotasks'[i] = macrotasks[i]
      /\ \A i \in m + 1 .. m + n : macrotasks'[i] = added[i - m] /\ i - m \in 1 .. n
  <2>1. PICK q \in Seq(JobsOf({"macro", "timer"}, Nat)) : q = macrotasks BY <1>3, Zenon
  <2> DEFINE c == q \o added
  <2>2. /\ Len(c) = Len(q) + Len(added) /\ DOMAIN c = 1 .. (Len(q) + Len(added))
        /\ DOMAIN q = 1 .. Len(q)
        /\ \A i \in 1 .. Len(q) : c[i] = q[i]
        /\ \A i \in Len(q) + 1 .. Len(q) + Len(added) :
              c[i] = added[i - Len(q)] /\ i - Len(q) \in 1 .. Len(added)
    <3>1. PICK T : added \in Seq(T) BY <1>5, Zenon
    <3> QED BY <3>1, JoinedQueue
  <2>3. macrotasks' = c /\ n = Len(added) /\ m = Len(q) BY <1>5, <2>1, Zenon
  <2> HIDE DEF c
  <2> QED BY <2>1, <2>2, <2>3, Zenon
<1>7. \A i \in m + 1 .. m + n : /\ macrotasks'[i] = Job("timer", order[i - m])
                                /\ i - m \in 1 .. n /\ order[i - m] \in Due
  BY <1>1, <1>4, <1>6, Zenon
<1>8. timers' = Kept /\ registered' = registered BY Zenon DEF poll_due_timers
<1>9. /\ DOMAIN timers \subseteq 1 .. Len(registered) /\ Len(registered) \in Nat
      /\ \A id \in DOMAIN timers :
            timers[id] \in [delay : Nat, left : Nat, refed : BOOLEAN, repeat : BOOLEAN]
  BY DEF TypeOK, TimersOK
<1>10. \A id \in DOMAIN timers' :
         /\ id \in DOMAIN timers
         /\ timers'[id].delay = timers[id].delay /\ timers'[id].repeat = timers[id].repeat
         /\ OneShot(id) => id \notin Due /\ timers'[id] = timers[id]
  BY <1>8, <1>9 DEF Kept, TimerInv, OneShot
<1>11. \A id, old : (Alike(old, id)' <=> Alike(old, id)) /\ (OneShot(id)' <=> OneShot(id))
  BY <1>8, Zenon DEF Alike, OneShot
<1>12. \A id \in DOMAIN timers' :
         /\ timers'[id].delay = registered'[id].delay /\ timers'[id].repeat = registered'[id].repeat
         /\ OneShot(id)' => timers'[id].left <= timers'[id].delay
  BY <1>8, <1>10, <1>11 DEF TimerInv
<1>13. \A old, id \in DOMAIN timers' :
         old < id /\ Alike(old, id)' => timers'[old].left <= timers'[id].left
  BY <1>10, <1>11 DEF TimerInv, Alike
<1>14. \A i \in DOMAIN macrotasks' :
         macrotasks'[i].kind = "timer" => macrotasks'[i].id \in 1 .. Len(registered')
  <2> TAKE i \in DOMAIN macrotasks'
  <2>1. CASE i \in 1 .. m BY <1>6, <1>8, <2>1, Zenon DEF TimerInv
  <2>2. CASE i \in m + 1 .. m + n
    <3>1. macrotasks'[i] = Job("timer", order[i - m]) /\ order[i - m] \in DOMAIN timers
      BY <1>7, <2>2, Zenon DEF Due
    <3> QED BY <1>8, <1>9, <3>1 DEF Job
  <2> QED BY <1>2, <1>3, <1>6, <2>1, <2>2
<1>15. TimersInOrder'
  <2> SUFFICES ASSUME NEW i \in DOMAIN macrotasks', NEW old \in 1 .. macrotasks'[i].id - 1,
                      macrotasks'[i].kind = "timer", Alike(old, macrotasks'[i].id)
               PROVE /\ old \notin DOMAIN timers'
                     /\ \A j \in i + 1 .. Len(macrotasks') : macrotasks'[j] # Job("timer", old)
    BY <1>8, Zenon DEF TimersInOrder, Alike, OneShot
  <2>1. \A x, y : Job("timer", x) = Job("timer", y) => x = y BY Zenon DEF Job
  <2>2. CASE i \in 1 .. m
    <3>1. /\ old \notin DOMAIN timers
          /\ \A j \in i + 1 .. m : macrotasks[j] # Job("timer", old)
      BY <1>6, <2>2 DEF TimerInv, TimersInOrder
    <3>2. old \notin DOMAIN timers' BY <1>10, <3>1, Zenon
    <3>3. \A j \in m + 1 .. m + n : macrotasks'[j] # Job("timer", old)
      BY <1>7, <2>1, <3>1, Zenon DEF Due
    <3>4. \A j \in i + 1 .. m + n : (j \in i + 1 .. m /\ j \in 1 .. m) \/ j \in m + 1 .. m + n
      BY <1>2, <1>3, <2>2
    <3> QED BY <1>6, <3>1, <3>2, <3>3, <3>4, Zenon
  <2>3. CASE i \in m + 1 .. m + n
    <3>1. PICK id \in Due : /\ id = order[i - m] /\ i - m \in 1 .. n
                            /\ macrotasks'[i] = Job("timer", id) /\ macrotasks'[i].id = id
      <4>1. Job("timer", order[i - m]).id = order[i - m] BY Zenon DEF Job
      <4> QED BY <1>7, <2>3, <4>1, Zenon
    <3>2. id \in Nat /\ old < id /\ Alike(old, id) /\ OneShot(old) BY <1>0, <3>1 DEF Alike
    <3>3. old \notin DOMAIN timers'
      <4> SUFFICES ASSUME old \in DOMAIN timers' PROVE FALSE BY Zenon
      <4>1. old \in DOMAIN timers /\ old \notin Due BY <1>10, <3>2, Zenon
      <4>2. timers[id].left = 0 /\ id \in DOMAIN timers BY Zenon DEF Due
      <4>3. timers[old].left <= timers[id].left BY <3>2, <4>1, <4>2, Zenon DEF TimerInv
      <4>4. timers[old].left \in Nat BY <1>9, <4>1, Zenon
      <4> QED BY <4>1, <4>2, <4>3, <4>4 DEF Due
    <3>4. ASSUME NEW j \in i + 1 .. m + n PROVE macrotasks'[j] # Job("timer", old)
      <4>1. j \in m + 1 .. m + n /\ i - m < j - m BY <1>2, <1>3, <2>3
      <4>2. j - m \in 1 .. n /\ order[j - m] \in Nat /\ macrotasks'[j] = Job("timer", order[j - m])
        BY <1>0, <1>7, <4>1, Zenon
      <4>3. order[i - m] < order[j - m] BY <1>1, <3>1, <4>1, <4>2, Zenon DEF InOrder
      <4> QED BY <2>1, <3>1, <3>2, <4>2, <4>3
    <3> QED BY <1>6, <3>3, <3>4, Zenon
  <2> QED BY <1>2, <1>3, <1>6, <2>2, <2>3
<1> QED BY <1>12, <1>13, <1>14, <1>15, Zenon DEF TimerInv

\* Macrotasks that JavaScript queues are no timers, and running one takes the
\* first.
LEMMA QueueInOrder ==
    ASSUME TypeOK, TimerInv, UNCHANGED timerVars, JsQueues \/ run_macrotask
    PROVE TimerInv'
<1>0. UNCHANGED <<timers, registered>> BY Zenon DEF timerVars
<1>1. macrotasks \in Seq(JobsOf({"macro", "timer"}, Nat)) BY Zenon DEF TypeOK, JobsOK
<1> DEFINE m == Len(macrotasks)
<1>2. m \in Nat /\ DOMAIN macrotasks = 1 .. m BY <1>1
<1>3. \A id, old : Alike(old, id)' <=> Alike(old, id) BY <1>0, Zenon DEF Alike, OneShot
<1>4. ASSUME TimersInOrder',
             \A i \in DOMAIN macrotasks' :
                macrotasks'[i].kind = "timer" => macrotasks'[i].id \in 1 .. Len(registered)
      PROVE TimerInv'
  BY <1>0, <1>3, <1>4, Zenon DEF TimerInv, OneShot
<1>5. CASE UNCHANGED macrotasks
  BY <1>0, <1>5, FewerTimers, Zenon
<1>6. CASE macrotasks' = Append(macrotasks, Job("macro", jobs + 1))
  <2>1. /\ Len(macrotasks') = m + 1 /\ DOMAIN macrotasks' = 1 .. (m + 1)
        /\ macrotasks'[m + 1] = Job("macro", jobs + 1)
        /\ \A i \in 1 .. m : macrotasks'[i] = macrotasks[i]
    BY <1>1, <1>6
  <2>2. \A i \in 1 .. (m + 1) : i \in 1 .. m \/ i = m + 1 BY <1>2
  <2>3. \A x : Job("macro", jobs + 1) # Job("timer", x) /\ Job("macro", jobs + 1).kind # "timer"
    BY Zenon DEF Job
  <2>4. TimersInOrder'
    <3> SUFFICES ASSUME NEW i \in DOMAIN macrotasks', NEW old \in 1 .. macrotasks'[i].id - 1,
                        macrotasks'[i].kind = "timer", Alike(old, macrotasks'[i].id)
                 PROVE /\ old \notin DOMAIN timers'
                       /\ \A j \in i + 1 .. Len(macrotasks') : macrotasks'[j] # Job("timer", old)
      BY <1>0, Zenon DEF TimersInOrder, Alike, OneShot
    <3>1. i \in 1 .. m BY <2>1, <2>2, <2>3, Zenon
    <3>2. old \notin DOMAIN timers /\ \A j \in i + 1 .. m : macrotasks[j] # Job("timer", old)
      BY <1>2, <2>1, <3>1 DEF TimerInv, TimersInOrder
    <3>3. \A j \in i + 1 .. (m + 1) : (j \in i + 1 .. m /\ j \in 1 .. m) \/ j = m + 1 BY <1>2, <3>1
    <3> QED BY <1>0, <2>1, <2>3, <3>2, <3>3, Zenon
  <2>5. \A i \in DOMAIN macrotasks' :
          macrotasks'[i].kind = "timer" => macrotasks'[i].id \in 1 .. Len(registered)
    BY <1>2, <2>1, <2>2, <2>3, Zenon DEF TimerInv
  <2> QED BY <1>4, <2>4, <2>5, Zenon
<1>7. CASE run_macrotask
  <2>1. macrotasks' = Tail(macrotasks) /\ macrotasks # <<>> BY <1>7, Zenon DEF run_macrotask
  <2>2. /\ m \in Nat \ {0} /\ Len(macrotasks') = m - 1 /\ DOMAIN macrotasks' = 1 .. (m - 1)
        /\ \A i \in 1 .. (m - 1) : macrotasks'[i] = macrotasks[i + 1] /\ i + 1 \in 1 .. m
    BY <1>1, <2>1
  <2>3. TimersInOrder'
    <3> SUFFICES ASSUME NEW i \in DOMAIN macrotasks', NEW old \in 1 .. macrotasks'[i].id - 1,
                        macrotasks'[i].kind = "timer", Alike(old, macrotasks'[i].id)
                 PROVE /\ old \notin DOMAIN timers'
                       /\ \A j \in i + 1 .. Len(macrotasks') : macrotasks'[j] # Job("timer", old)
      BY <1>0 DEF TimersInOrder, Alike, OneShot
    <3>1. /\ old \notin DOMAIN timers
          /\ \A j \in (i + 1) + 1 .. m : macrotasks[j] # Job("timer", old)
      BY <1>2, <2>2, Zenon DEF TimerInv, TimersInOrder
    <3>2. \A j \in i + 1 .. (m - 1) : j \in 1 .. (m - 1) /\ j + 1 \in (i + 1) + 1 .. m BY <2>2
    <3> QED BY <1>0, <2>2, <3>1, <3>2, Zenon
  <2>4. \A i \in DOMAIN macrotasks' :
          macrotasks'[i].kind = "timer" => macrotasks'[i].id \in 1 .. Len(registered)
    BY <1>2, <2>2, Zenon DEF TimerInv
  <2> QED BY <1>4, <2>3, <2>4
<1> QED BY <1>5, <1>6, <1>7, Zenon DEF JsQueues, enqueue

\* Every step keeps the order of the timers.
LEMMA NextTimerInv ==
    ASSUME TypeOK, DueEnumerable, TimerInv, [Next]_vars
    PROVE TimerInv'
<1>1. CASE UNCHANGED timerVars
  <2>1. CASE UNCHANGED macrotasks BY <1>1, <2>1, FewerTimers, Zenon DEF timerVars
  <2>2. CASE JsQueues \/ run_macrotask BY <1>1, <2>2, QueueInOrder, Zenon
  <2>3. CASE poll_due_timers BY <2>3, PollInOrder, Zenon
  <2> QED BY <2>1, <2>2, <2>3, MacrotaskSteps, Zenon
<1>2. CASE JsTimers
  <2>1. UNCHANGED macrotasks BY <1>2, Zenon DEF JsTimers, jobVars
  <2>2. ASSUME NEW d \in Delays, NEW r \in BOOLEAN, set_timer(d, r) PROVE TimerInv'
    BY <2>1, <2>2, SetInOrder, Zenon
  <2>3. ASSUME NEW id, clear_timer(id) PROVE TimerInv'
    BY <2>1, <2>3, FewerTimers, Zenon DEF clear_timer
  <2>4. ASSUME NEW id, NEW r \in BOOLEAN, set_refed(id, r) PROVE TimerInv'
    <3>1. UNCHANGED registered /\ timers' = [timers EXCEPT ![id].refed = r]
      BY <2>4, Zenon DEF set_refed
    <3>2. \A i \in DOMAIN timers : timers[i] \in [delay : Nat, left : Nat, refed : BOOLEAN, repeat : BOOLEAN]
      BY Zenon DEF TypeOK, TimersOK
    <3> QED BY <2>1, <3>1, <3>2, FewerTimers, Zenon
  <2> QED BY <1>2, <2>2, <2>3, <2>4, Zenon DEF JsTimers
<1>3. CASE TimePasses
  BY <1>3, TimeInOrder, Zenon DEF TimePasses, jobVars
<1>4. CASE poll_due_timers BY <1>4, PollInOrder
<1> QED BY <1>1, <1>2, <1>3, <1>4, TimerSteps, Zenon

----------------------------------------------------------------------------
(* Type correctness.                                                         *)

\* Every step keeps the main thread and the queues of the right type.
LEMMA NextJobsOK ==
    ASSUME TypeOK, DueEnumerable, [Next]_vars
    PROVE JobsOK'
<1> JobsOK BY Zenon DEF TypeOK
<1> USE DEF JobsOK
<1>0. ASSUME UNCHANGED <<jobVars, after>> PROVE JobsOK' BY <1>0, Zenon DEF jobVars
<1>1. CASE UNCHANGED vars BY <1>1, <1>0, Zenon DEF vars
<1>2. CASE JsQueues
  <2>1. PICK q \in Queues : enqueue(q) /\ UNCHANGED after BY <1>2, Zenon DEF JsQueues
  <2>0. /\ Job("tick", jobs + 1) \in JobsOf({"tick"}, Nat)
        /\ Job("micro", jobs + 1) \in JobsOf({"micro"}, Nat)
        /\ Job("macro", jobs + 1) \in JobsOf({"macro", "timer"}, Nat)
    BY DEF Job, JobsOf
  <2>2. nexttick' \in Seq(JobsOf({"tick"}, Nat)) BY <2>0, <2>1 DEF enqueue
  <2>3. microtasks' \in Seq(JobsOf({"micro"}, Nat)) BY <2>0, <2>1 DEF enqueue
  <2>4. macrotasks' \in Seq(JobsOf({"macro", "timer"}, Nat)) BY <2>0, <2>1 DEF enqueue
  <2> QED BY <2>1, <2>2, <2>3, <2>4 DEF enqueue
<1>3. CASE JsTimers \/ JsWorks \/ JsCreate \/ TimePasses \/ WorkThread
  BY <1>3, <1>0, Zenon DEF JsTimers, JsWorks, JsCreate, TimePasses, WorkThread
<1>4. CASE JobThrows BY <1>4, Zenon DEF JobThrows, job_throws, Points
<1>5. CASE JobEnds BY <1>5, Zenon DEF JobEnds, job_ends, Points, NoJob, Job, JobsOf
<1>6. CASE Pump
  <2>1. CASE run_tick \/ (pump_one_microtask /\ nexttick # <<>>)
    <3>1. Head(nexttick) \in JobsOf({"tick"}, Nat) /\ Tail(nexttick) \in Seq(JobsOf({"tick"}, Nat))
      BY <2>1 DEF run_tick
    <3>2. Head(nexttick) \in JobsOf({"none", "script", "tick", "micro", "macro", "timer", "work",
                           "call"}, Nat) BY <3>1, Zenon DEF JobsOf
    <3> QED BY <1>6, <2>1, <3>1, <3>2, Zenon DEF Pump, run_tick, pump_one_microtask, start, Points
  <2>2. CASE run_microtask \/ (pump_one_microtask /\ nexttick = <<>> /\ microtasks # <<>>)
    <3>1. Head(microtasks) \in JobsOf({"micro"}, Nat) /\ Tail(microtasks) \in Seq(JobsOf({"micro"}, Nat))
      BY <2>2 DEF run_microtask
    <3>2. Head(microtasks) \in JobsOf({"none", "script", "tick", "micro", "macro", "timer", "work",
                           "call"}, Nat) BY <3>1, Zenon DEF JobsOf
    <3> QED BY <1>6, <2>2, <3>1, <3>2, Zenon DEF Pump, run_microtask, pump_one_microtask, start, Points
  <2>3. CASE run_macrotask
    <3>1. /\ Head(macrotasks) \in JobsOf({"macro", "timer"}, Nat)
          /\ Tail(macrotasks) \in Seq(JobsOf({"macro", "timer"}, Nat))
      BY <2>3 DEF run_macrotask
    <3>2. Head(macrotasks) \in JobsOf({"none", "script", "tick", "micro", "macro", "timer", "work",
                           "call"}, Nat) BY <3>1, Zenon DEF JobsOf
    <3> QED BY <1>6, <2>3, <3>1, <3>2, Zenon DEF Pump, run_macrotask, start, Points
  <2>4. CASE no_macrotask BY <1>6, <2>4, Zenon DEF Pump, no_macrotask, Points
  <2>5. CASE pump_one_microtask /\ nexttick = <<>> /\ microtasks = <<>>
    BY <1>6, <2>5, Zenon DEF Pump, pump_one_microtask, Points
  <2> QED BY <1>6, <2>1, <2>2, <2>3, <2>4, <2>5, Zenon DEF Pump
<1>7. CASE \E then \in {"inbox", "turn"} : drain(then) BY <1>7, Zenon DEF drain, queueVars, Points
<1>8. CASE \E then \in Points, ready \in BOOLEAN : proceed(then, ready)
  BY <1>8, Zenon DEF proceed, queueVars
<1>9. CASE next_turn BY <1>9, Zenon DEF next_turn, queueVars, Points
<1>10. CASE RunCompletion
  <2>1. Head(batch) \in JobsOf({"work", "call"}, Nat) BY <1>10 DEF RunCompletion, TypeOK, InboxOK
  <2>2. Head(batch) \in JobsOf({"none", "script", "tick", "micro", "macro", "timer", "work",
                           "call"}, Nat) BY <2>1, Zenon DEF JobsOf
  <2> QED BY <1>10, <2>2, Zenon DEF RunCompletion, start, Points
<1>11. CASE PollTimers
  <2>1. CASE no_due_timers BY <1>11, <2>1, Zenon DEF PollTimers, no_due_timers, Points
  <2>2. CASE poll_due_timers
    <3>1. PICK order \in [1 .. Cardinality(Due) -> Due] :
            macrotasks' = macrotasks \o [i \in DOMAIN order |-> Job("timer", order[i])]
      BY <2>2, Zenon DEF poll_due_timers
    <3>2. Cardinality(Due) \in Nat /\ Due \subseteq Nat BY Zenon DEF DueEnumerable
    <3> DEFINE added == [i \in DOMAIN order |-> Job("timer", order[i])]
    <3>3. DOMAIN order = 1 .. Cardinality(Due) BY Zenon
    <3>4. \A i \in DOMAIN order : Job("timer", order[i]) \in JobsOf({"macro", "timer"}, Nat)
      BY <3>2, <3>3, Zenon DEF Job, JobsOf
    <3>5. added \in Seq(JobsOf({"macro", "timer"}, Nat)) BY <3>2, <3>3, <3>4
    <3>6. macrotasks' = macrotasks \o added BY <3>1, Zenon
    <3> HIDE DEF added
    <3>7. macrotasks' \in Seq(JobsOf({"macro", "timer"}, Nat)) BY <3>5, <3>6
    <3> QED BY <1>11, <2>2, <3>7, Zenon DEF PollTimers, poll_due_timers, Points
  <2> QED BY <1>11, <2>1, <2>2, Zenon DEF PollTimers
<1>12. CASE Loop
  BY <1>6, <1>7, <1>8, <1>9, <1>10, <1>11, <1>12, ZenonT(30) DEF Loop, HookDrains, HookIdle, ReadKeepalive,
     ReadInbox, Observe, RecheckDrains, RecheckIdle, Unpark, ParkTimeout, SleepEnds,
     CompletionsDrain, CompletionsIdle, BatchDone, NativeWait, Points
<1>13. ASSUME NEW p, NEW l, goto(p, l), UNCHANGED after PROVE JobsOK'
  BY <1>13, Zenon DEF goto, Points
<1>14. CASE Reference BY <1>13, <1>14, Zenon DEF Reference, ref, unref
<1>15. CASE \E p \in Users : Operation(p) \/ Release(p) \/ InOperation(p)
  BY <1>0, <1>13, <1>15, Zenon DEF Operation, Release, InOperation, Inside, call, acquire, release,
     call_posts, call_wakes, release_closes, release_drops, counter_moves
<1> QED BY <1>1, <1>2, <1>3, <1>4, <1>5, <1>12, <1>14, <1>15, Zenon DEF Next, Js

\* Every step keeps the timer table of the right type.
LEMMA NextTimersOK ==
    ASSUME TypeOK, [Next]_vars
    PROVE TimersOK'
<1> DEFINE Entry == [delay : Nat, left : Nat, refed : BOOLEAN, repeat : BOOLEAN]
<1> TimersOK BY Zenon DEF TypeOK
<1> USE DEF TimersOK
<1>0. Len(registered) \in Nat OBVIOUS
<1>1. CASE UNCHANGED timerVars BY <1>1, Zenon DEF timerVars
<1>2. ASSUME NEW d \in Delays, NEW r \in BOOLEAN, set_timer(d, r) PROVE TimersOK'
  <2>1. d \in Nat BY TimersAssumption, Zenon
  <2>2. registered' \in Seq([delay : Nat, repeat : BOOLEAN]) /\ Len(registered') = Len(registered) + 1
    BY <1>2, <2>1 DEF set_timer
  <2>3. TimerEntry(d, r) \in Entry BY <2>1, Zenon DEF TimerEntry
  <2>4. DOMAIN timers' = DOMAIN timers \cup {Len(registered) + 1} BY <1>2, Zenon DEF set_timer, next_id
  <2>5. \A id \in DOMAIN timers' : timers'[id] \in Entry
    BY <1>2, <2>3, <2>4, Zenon DEF set_timer, next_id
  <2>6. timers' = [id \in DOMAIN timers' |-> timers'[id]] BY <1>2, Zenon DEF set_timer
  <2> QED BY <1>0, <2>2, <2>4, <2>5, <2>6
<1>3. ASSUME NEW id, clear_timer(id) PROVE TimersOK'
  BY <1>3, Zenon DEF clear_timer
<1>4. ASSUME NEW id, NEW r \in BOOLEAN, set_refed(id, r) PROVE TimersOK'
  BY <1>4 DEF set_refed
<1>5. CASE time_passes
  <2>1. \A id \in DOMAIN timers :
          [timers[id] EXCEPT !.left = IF @ > 0 THEN @ - 1 ELSE 0] \in Entry
    <3> SUFFICES ASSUME NEW id \in DOMAIN timers
                 PROVE [timers[id] EXCEPT !.left = IF @ > 0 THEN @ - 1 ELSE 0] \in Entry
      BY Zenon
    <3>1. timers[id] \in Entry BY Zenon
    <3> DEFINE left == IF timers[id].left > 0 THEN timers[id].left - 1 ELSE 0
    <3>2. left \in Nat BY <3>1
    <3> HIDE DEF left
    <3>3. [timers[id] EXCEPT !.left = left] \in Entry BY <3>1, <3>2, Zenon
    <3> QED BY <3>3, Zenon DEF left
  <2> QED BY <1>5, <2>1, Zenon DEF time_passes
<1>6. CASE poll_due_timers
  <2>1. \A id \in DOMAIN timers : [timers[id] EXCEPT !.left = repeat_ms(timers[id].delay)] \in Entry
    BY Zenon DEF repeat_ms
  <2>2. Kept \in [DOMAIN Kept -> Entry] /\ DOMAIN Kept \subseteq DOMAIN timers
    BY <2>1, Zenon DEF Kept
  <2> QED BY <1>6, <2>2, Zenon DEF poll_due_timers
<1> QED BY <1>1, <1>2, <1>3, <1>4, <1>5, <1>6, TimerSteps, Zenon DEF JsTimers, TimePasses

\* Every step keeps the inbox and the batch of the right type.
LEMMA NextInboxOK ==
    ASSUME TypeOK, [Next]_vars
    PROVE InboxOK'
<1> InboxOK BY Zenon DEF TypeOK
<1> USE DEF InboxOK
<1> DEFINE S == JobsOf({"work", "call"}, Nat)
<1>1. inbox' \in Seq(S) /\ batch' \in Seq(S)
  <2>1. CASE UNCHANGED <<inbox, batch>> BY <2>1, Zenon
  <2>2. ASSUME NEW w \in Works, execute(w) PROVE inbox' \in Seq(S) /\ batch' \in Seq(S)
    <3>1. Job("work", w) \in S BY NapiAssumption, Zenon DEF Job, JobsOf
    <3> QED BY <2>2, <3>1 DEF execute
  <2>3. ASSUME NEW p \in Users, call_posts(p) PROVE inbox' \in Seq(S) /\ batch' \in Seq(S)
    <3>1. Job("call", 0) \in S BY Zenon DEF Job, JobsOf
    <3> QED BY <2>3, <3>1 DEF call_posts
  <2>4. CASE RunCompletion BY <2>4 DEF RunCompletion
  <2>5. ASSUME NEW then, drain(then) PROVE inbox' \in Seq(S) /\ batch' \in Seq(S)
    BY <2>5 DEF drain
  <2> QED BY <2>1, <2>2, <2>3, <2>4, <2>5, InboxSteps
<1>2. waking' \in Nat
  <2>1. UNCHANGED waking \/ wake \/ \E w \in Works : execute(w)
    <3>1. CASE UNCHANGED vars BY <3>1, Zenon DEF vars, napiVars
    <3>2. CASE Js
      BY <3>2, Zenon DEF Js, JsQueues, JsTimers, JsWorks, JsCreate, JobThrows, napiVars,
         create_async_work, queue_async_work, delete_async_work, create_threadsafe_function
    <3>3. CASE JobEnds BY <3>3, Zenon DEF JobEnds
    <3>4. CASE Loop
      BY <3>4, Zenon DEF Loop, Pump, HookDrains, HookIdle, PollTimers, napiVars, threadVars, drain,
         ReadKeepalive, ReadInbox, Observe, RecheckDrains, RecheckIdle, Unpark, ParkTimeout,
         SleepEnds, CompletionsDrain, CompletionsIdle, BatchDone, proceed, next_turn, RunCompletion
    <3>5. CASE TimePasses BY <3>5, Zenon DEF TimePasses, napiVars
    <3>6. CASE WorkThread \/ Reference BY <3>6, Zenon DEF WorkThread, Reference, ref, unref
    <3>7. CASE \E p \in Users : Operation(p) \/ Release(p) \/ InOperation(p)
      BY <3>7, Zenon DEF Operation, Release, InOperation, Inside, call, acquire, release, call_posts,
         call_wakes, release_closes, release_drops, counter_moves
    <3> QED BY <3>1, <3>2, <3>3, <3>4, <3>5, <3>6, <3>7, Zenon DEF Next
  <2> QED BY <2>1 DEF wake, execute
<1> QED BY <1>1, <1>2, Zenon

\* Every step keeps the async works of the right type.
LEMMA NextWorksOK ==
    ASSUME TypeOK, [Next]_vars
    PROVE WorksOK'
<1> WorksOK BY Zenon DEF TypeOK
<1> USE DEF WorksOK
<1>1. CASE UNCHANGED <<works, executing>> BY <1>1, Zenon
<1>2. ASSUME NEW w \in Works,
             create_async_work(w) \/ queue_async_work(w) \/ delete_async_work(w) \/ execute(w)
      PROVE WorksOK'
  BY <1>2, Zenon DEF create_async_work, queue_async_work, delete_async_work, execute
<1>3. CASE RunCompletion BY <1>3, Zenon DEF RunCompletion, begin_completion
<1> QED BY <1>1, <1>2, <1>3, WorkSteps, Zenon

\* Every step keeps the flags Boolean.
LEMMA NextFlagsOK ==
    ASSUME TypeOK, [Next]_vars
    PROVE FlagsOK'
<1> FlagsOK BY Zenon DEF TypeOK
<1> USE DEF FlagsOK
<1>0. ASSUME UNCHANGED <<progressed, woken>>
      PROVE progressed' \in BOOLEAN /\ woken' \in BOOLEAN
  BY <1>0, Zenon
<1>1. progressed' \in BOOLEAN /\ woken' \in BOOLEAN
  <2>1. CASE UNCHANGED vars BY <2>1, <1>0, Zenon DEF vars, jobVars, napiVars
  <2>2. CASE Js \/ JobEnds \/ TimePasses
    BY <2>2, <1>0, Zenon DEF Js, JsQueues, JsTimers, JsWorks, JsCreate, JobThrows, JobEnds, TimePasses,
       napiVars, jobVars, enqueue, job_ends, job_throws,
       create_async_work, queue_async_work, delete_async_work, create_threadsafe_function
  <2>3. CASE Pump BY <2>3, Zenon DEF Pump, napiVars, run_tick, run_microtask, run_macrotask,
                     no_macrotask, pump_one_microtask, start
  <2>4. ASSUME NEW then, drain(then) PROVE progressed' \in BOOLEAN /\ woken' \in BOOLEAN
    BY <2>4, Zenon DEF drain
  <2>5. ASSUME NEW then, NEW ready \in BOOLEAN, proceed(then, ready), woken' \in {woken, FALSE}
        PROVE progressed' \in BOOLEAN /\ woken' \in BOOLEAN
    BY <2>5, Zenon DEF proceed
  <2>6. CASE next_turn BY <2>6, Zenon DEF next_turn, napiVars
  <2>7. CASE RunCompletion BY <2>7, Zenon DEF RunCompletion, start
  <2>8. CASE PollTimers BY <2>8, Zenon DEF PollTimers, poll_due_timers, no_due_timers, napiVars
  <2>9. CASE Loop
    BY <2>3, <2>4, <2>5, <2>6, <2>7, <2>8, <2>9, Zenon DEF Loop, HookDrains, HookIdle, ReadKeepalive,
       ReadInbox, Observe, RecheckDrains, RecheckIdle, Unpark, ParkTimeout, SleepEnds,
       CompletionsDrain, CompletionsIdle, BatchDone
  <2>10. CASE WorkThread BY <2>10, Zenon DEF WorkThread, jobVars, execute, wake
  <2>11. CASE Reference BY <2>11, Zenon DEF Reference, ref, unref, goto
  <2>12. CASE \E p \in Users : Operation(p) \/ Release(p) \/ InOperation(p)
    BY <2>12, Zenon DEF Operation, Release, InOperation, Inside, call, acquire, release, call_posts,
       call_wakes, release_closes, release_drops, counter_moves, goto, jobVars
  <2> QED BY <2>1, <2>2, <2>9, <2>10, <2>11, <2>12 DEF Next
<1>2. unreffed' \in BOOLEAN /\ active' \in BOOLEAN /\ keepalive_active' \in BOOLEAN
  <2>1. CASE UNCHANGED <<ref_count, active, keepalive_active, held, at, calls, unreffed>>
    BY <2>1, Zenon
  <2>2. CASE create_threadsafe_function BY <2>2, Zenon DEF create_threadsafe_function
  <2>3. CASE ref \/ unref BY <2>3, Zenon DEF ref, unref
  <2>4. CASE \E p \in Users : call(p) \/ acquire(p) \/ release(p) \/ Inside(p)
    BY <2>4, Zenon DEF call, acquire, release, Inside, call_posts, call_wakes, release_closes,
       release_drops, counter_moves, tsfn
  <2> QED BY <2>1, <2>2, <2>3, <2>4, FunctionSteps, Zenon
<1> QED BY <1>1, <1>2, Zenon

----------------------------------------------------------------------------
(* Where the main thread is.                                                 *)

\* goto moves one thread.
LEMMA GotoMoves ==
    ASSUME FunctionOK, NEW p \in Users, NEW l, goto(p, l)
    PROVE \A q \in Users : at'[q] = IF q = p THEN l ELSE at[q]
BY Zenon DEF goto, FunctionOK

OnJob == pc \in {"job", "native"}
OnCompletion == pc = "drain" \/ (OnJob /\ back = "drain")

\* A job runs exactly while the main thread is in JavaScript or in the addon;
\* a batch is left over only inside the drain that took it, which has counted
\* as progress; the completions, and only they, return to the drain.
PlaceInv ==
    /\ OnJob => running.kind # "none"
    /\ ~OnJob /\ pc # "failed" => running = NoJob
    /\ running.kind \in {"work", "call"} => OnJob /\ back = "drain"
    /\ OnJob /\ back = "drain" => running.kind \in {"work", "call"}
    /\ batch # <<>> => OnCompletion
    /\ OnCompletion => progressed
    /\ pc = "native" <=> at[Main] # "out"

\* The entry module runs at first.
LEMMA InitPlaceInv == Init => PlaceInv
BY MainUses DEF Init, JobInit, NapiInit, PlaceInv, OnJob, OnCompletion, Script, Job

\* Every step leaves the main thread where PlaceInv says.
LEMMA NextPlaceInv ==
    ASSUME TypeOK, PlaceInv, [Next]_vars
    PROVE PlaceInv'
<1> JobsOK /\ FunctionOK /\ InboxOK BY Zenon DEF TypeOK
<1> Main \in Users BY MainUses, Zenon
<1> USE DEF PlaceInv, OnJob, OnCompletion
<1>0. ASSUME UNCHANGED <<pc, back, running, batch, progressed, at>> PROVE PlaceInv' BY <1>0, Zenon
<1>1. CASE UNCHANGED vars BY <1>0, <1>1, Zenon DEF vars, jobVars, napiVars
<1>2. CASE JsQueues \/ JsTimers \/ JsWorks \/ JsCreate \/ TimePasses \/ WorkThread
  BY <1>0, <1>2, Zenon DEF JsQueues, JsTimers, JsWorks, JsCreate, TimePasses, WorkThread, jobVars, napiVars,
     enqueue, create_async_work, queue_async_work, delete_async_work, create_threadsafe_function,
     execute, wake
<1>3. CASE JobThrows
  BY <1>3, Zenon DEF JobThrows, job_throws, InJs, napiVars
<1>4. CASE JobEnds
  BY <1>4, Zenon DEF JobEnds, job_ends, InJs, NoJob, Job, JobsOK
<1> DEFINE Turning == pc \notin {"job", "native", "drain", "failed"}
<1>5. ASSUME Turning \/ (pc = "drain" /\ batch = <<>>),
             UNCHANGED <<running, batch, at>>, pc' \notin {"job", "native", "drain", "failed"}
      PROVE PlaceInv'
  BY <1>5, Zenon DEF NoJob, Job
<1>6. ASSUME Turning, NEW job, job.kind \notin {"none", "work", "call"},
             NEW then, then # "drain", start(job, then), UNCHANGED <<batch, at>>
      PROVE PlaceInv'
  BY <1>6, Zenon DEF start
<1>7. CASE Pump
  <2>0. UNCHANGED <<batch, at>> BY <1>7, Zenon DEF Pump, napiVars
  <2>1. nexttick # <<>> => Head(nexttick) \in JobsOf({"tick"}, Nat) BY DEF JobsOK
  <2>2. microtasks # <<>> => Head(microtasks) \in JobsOf({"micro"}, Nat) BY DEF JobsOK
  <2>3. macrotasks # <<>> => Head(macrotasks) \in JobsOf({"macro", "timer"}, Nat) BY DEF JobsOK
  <2>4. Turning BY <1>7, Zenon DEF Pump, run_tick, run_microtask, run_macrotask, no_macrotask,
                     pump_one_microtask, TicksTurn, MicrosTurn, Drained
  <2>5. CASE nexttick # <<>> /\ \E then \in {"ticks", "checkpoint"} : start(Head(nexttick), then)
    BY <2>0, <2>1, <2>4, <2>5, <1>6, Zenon DEF JobsOf
  <2>6. CASE microtasks # <<>> /\ \E then \in {"micros", "checkpoint"} : start(Head(microtasks), then)
    BY <2>0, <2>2, <2>4, <2>6, <1>6, Zenon DEF JobsOf
  <2>7. CASE macrotasks # <<>> /\ start(Head(macrotasks), "host")
    BY <2>0, <2>3, <2>4, <2>7, <1>6 DEF JobsOf
  <2>8. CASE pc' = "host" /\ UNCHANGED running BY <2>0, <2>4, <2>8, <1>5
  <2> QED BY <1>7, <2>5, <2>6, <2>7, <2>8, Zenon DEF Pump, run_tick, run_microtask, run_macrotask,
             no_macrotask, pump_one_microtask
<1>8. ASSUME Turning, NEW then, drain(then) PROVE PlaceInv'
  BY <1>8, Zenon DEF drain, queueVars, threadVars
<1>9. CASE RunCompletion
  <2>1. Head(batch) \in JobsOf({"work", "call"}, Nat) BY <1>9 DEF RunCompletion, InboxOK
  <2>2. Head(batch).kind \in {"work", "call"} BY <2>1, Zenon DEF JobsOf
  <2> QED BY <1>9, <2>2, Zenon DEF RunCompletion, start
<1>10. CASE PollTimers
  BY <1>5, <1>10, Zenon DEF PollTimers, poll_due_timers, no_due_timers, napiVars
<1>11. ASSUME Turning \/ (pc = "drain" /\ batch = <<>>), NEW then, NEW ready, proceed(then, ready),
              then \notin {"job", "native", "drain", "failed"}
       PROVE PlaceInv'
  BY <1>5, <1>11, Zenon DEF proceed, queueVars, threadVars
<1>12. ASSUME Turning \/ (pc = "drain" /\ batch = <<>>), next_turn PROVE PlaceInv'
  BY <1>5, <1>12, Zenon DEF next_turn, queueVars, napiVars
<1>13. CASE Loop
  BY <1>7, <1>8, <1>9, <1>10, <1>11, <1>12, <1>13, Zenon DEF Loop, HookDrains, HookIdle, ReadKeepalive,
     ReadInbox, Observe, RecheckDrains, RecheckIdle, Unpark, ParkTimeout, SleepEnds,
     CompletionsDrain, CompletionsIdle, BatchDone, NativeWait
<1>14. ASSUME NEW p \in Users, NEW l, goto(p, l), UNCHANGED batch, p = Main => OnJob
       PROVE PlaceInv'
  <2>1. at'[Main] = IF p = Main THEN l ELSE at[Main] BY <1>14, GotoMoves
  <2>2. UNCHANGED <<back, running, progressed>> BY <1>14, Zenon DEF goto
  <2>3. pc' = IF p = Main THEN IF l = "out" THEN "job" ELSE "native" ELSE pc BY <1>14, Zenon DEF goto
  <2> QED BY <1>14, <2>1, <2>2, <2>3
<1>15. CASE Reference
  BY <1>14, <1>15, Zenon DEF Reference, ref, unref, Able, Free, InJs
<1>16. ASSUME NEW p \in Users, Operation(p) \/ Release(p) PROVE PlaceInv'
  BY <1>0, <1>14, <1>16 DEF Operation, Release, call, acquire, release, Able, Free, InJs, jobVars
<1>17. ASSUME NEW p \in Users, InOperation(p) PROVE PlaceInv'
  <2>1. p = Main => OnJob
    BY <1>17, Zenon DEF InOperation, Inside, call_posts, call_wakes, release_closes, release_drops, counter_moves
  <2> QED BY <1>14, <1>17, <2>1 DEF InOperation, Inside, call_posts, call_wakes, release_closes,
             release_drops, counter_moves
<1> QED BY <1>1, <1>2, <1>3, <1>4, <1>13, <1>15, <1>16, <1>17, Zenon DEF Next, Js

----------------------------------------------------------------------------
(* Async works: where each completion is.                                    *)

Lists(q, w) == \E i \in DOMAIN q : q[i] = Job("work", w)

\* The completions of q are those of works that are queued and whose thread is
\* done, one each.
QueuedOnce(q) ==
    /\ \A i \in DOMAIN q : q[i].kind = "work" =>
           q[i].id \in Works \ executing /\ works[q[i].id] = "queued"
    /\ \A i, j \in DOMAIN q : q[i].kind = "work" /\ q[i] = q[j] => i = j

WorkInv ==
    /\ \A w \in executing : works[w] = "queued"
    /\ QueuedOnce(inbox) /\ QueuedOnce(batch)
    /\ \A w \in Works : ~(Lists(inbox, w) /\ Lists(batch, w))
    /\ \A w \in Works : works[w] = "queued" => w \in executing \/ Lists(inbox, w) \/ Lists(batch, w)

\* No work is queued at first.
LEMMA InitWorkInv == Init => WorkInv
<1> SUFFICES ASSUME Init PROVE WorkInv BY Zenon
<1>1. DOMAIN inbox = {} /\ DOMAIN batch = {} BY DEF Init, NapiInit
<1>2. executing = {} /\ \A w \in Works : works[w] = "none" BY Zenon DEF Init, NapiInit
<1> QED BY <1>1, <1>2, Zenon DEF WorkInv, QueuedOnce, Lists

\* A job of an inbox is its kind and its id.
LEMMA JobElements ==
    ASSUME NEW q \in Seq(JobsOf({"work", "call"}, Nat)), NEW i \in DOMAIN q
    PROVE q[i] = Job(q[i].kind, q[i].id) /\ (q[i].kind = "work" => q[i] = Job("work", q[i].id))
<1>1. q[i] \in JobsOf({"work", "call"}, Nat) OBVIOUS
<1> DEFINE j == q[i]
<1> HIDE DEF j
<1>2. j \in [kind : {"work", "call"}, id : Nat] BY <1>1, Zenon DEF j, JobsOf
<1>3. j = [kind |-> j.kind, id |-> j.id] BY <1>2, Zenon
<1> QED BY <1>3, Zenon DEF j, Job

\* queue_async_work, execute, the drain and the completion hand a work on.
LEMMA NextWorkInv ==
    ASSUME TypeOK, PlaceInv, WorkInv, [Next]_vars
    PROVE WorkInv'
<1> InboxOK /\ WorksOK BY Zenon DEF TypeOK
<1> USE DEF WorkInv, InboxOK, WorksOK
<1>1. CASE UNCHANGED <<inbox, batch, works, executing>>
  BY <1>1 DEF QueuedOnce, Lists
<1>2. ASSUME NEW w \in Works, create_async_work(w) \/ delete_async_work(w) PROVE WorkInv'
  <2>1. PICK to \in {"idle", "freed"} : works' = [works EXCEPT ![w] = to]
    BY <1>2, Zenon DEF create_async_work, delete_async_work
  <2>2. works[w] # "queued" /\ UNCHANGED <<inbox, batch, executing>>
    BY <1>2, Zenon DEF create_async_work, delete_async_work, may_delete
  <2>3. \A v \in Works : works'[v] = "queued" <=> works[v] = "queued" BY <2>1, <2>2, Zenon
  <2> QED BY <2>2, <2>3 DEF QueuedOnce, Lists
<1>3. ASSUME NEW w \in Works, queue_async_work(w) PROVE WorkInv'
  <2>1. /\ works[w] = "idle" /\ works' = [works EXCEPT ![w] = "queued"]
        /\ executing' = executing \cup {w} /\ UNCHANGED <<inbox, batch>>
    BY <1>3, Zenon DEF queue_async_work
  <2> QED BY <2>1 DEF QueuedOnce, Lists
<1>4. ASSUME NEW w \in Works, execute(w) PROVE WorkInv'
  <2>1. /\ w \in executing /\ executing' = executing \ {w} /\ inbox' = Append(inbox, Job("work", w))
        /\ UNCHANGED <<batch, works>>
    BY <1>4, Zenon DEF execute
  <2>2. /\ DOMAIN inbox' = DOMAIN inbox \cup {Len(inbox) + 1} /\ Len(inbox) + 1 \notin DOMAIN inbox
        /\ inbox'[Len(inbox) + 1] = Job("work", w)
        /\ \A i \in DOMAIN inbox : inbox'[i] = inbox[i]
    BY <2>1
  <2>3. ~Lists(inbox, w) /\ ~Lists(batch, w) BY <2>1 DEF Lists, QueuedOnce, Job
  <2>4. \A v \in Works : Lists(inbox', v) <=> Lists(inbox, v) \/ v = w
    BY <2>2 DEF Lists, Job
  <2>5. \A v : Lists(batch', v) <=> Lists(batch, v) BY <2>1, Zenon
  <2>6. \A i \in DOMAIN inbox : inbox[i] # Job("work", w) BY <2>3, Zenon DEF Lists
  <2>7. QueuedOnce(inbox)' BY <2>1, <2>2, <2>6 DEF QueuedOnce, Job
  <2>8. QueuedOnce(batch)' BY <2>1 DEF QueuedOnce
  <2>9. \A v \in Works : ~(Lists(inbox', v) /\ Lists(batch', v)) BY <2>3, <2>4, <2>5, Zenon
  <2>10. \A v \in Works : works'[v] = "queued" => v \in executing' \/ Lists(inbox', v) \/ Lists(batch', v)
    BY <2>1, <2>4, <2>5
  <2> QED BY <2>1, <2>7, <2>8, <2>9, <2>10, Zenon
<1>5. ASSUME NEW p \in Users, call_posts(p) PROVE WorkInv'
  <2>1. inbox' = Append(inbox, Job("call", 0)) /\ UNCHANGED <<batch, works, executing>>
    BY <1>5, Zenon DEF call_posts
  <2>2. /\ DOMAIN inbox' = DOMAIN inbox \cup {Len(inbox) + 1}
        /\ inbox'[Len(inbox) + 1].kind = "call"
        /\ \A i \in DOMAIN inbox : inbox'[i] = inbox[i]
    BY <2>1 DEF Job
  <2>3. \A w : Job("work", w).kind = "work" BY Zenon DEF Job
  <2>4. \A v : Lists(inbox', v) <=> Lists(inbox, v) BY <2>2, <2>3, Zenon DEF Lists
  <2>5. \A v : Lists(batch', v) <=> Lists(batch, v) BY <2>1, Zenon
  <2>7. QueuedOnce(inbox)' BY <2>1, <2>2 DEF QueuedOnce
  <2>8. QueuedOnce(batch)' BY <2>1, Zenon DEF QueuedOnce
  <2> QED BY <2>1, <2>4, <2>5, <2>7, <2>8
<1>6. CASE RunCompletion
  <2>1. /\ batch # <<>> /\ batch' = Tail(batch) /\ UNCHANGED <<inbox, executing>>
        /\ works' = [w \in Works |-> IF Head(batch) = Job("work", w) THEN "idle" ELSE works[w]]
    BY <1>6, Zenon DEF RunCompletion, begin_completion
  <2>2. /\ Len(batch) \in Nat /\ 1 \in DOMAIN batch /\ DOMAIN batch = 1 .. Len(batch)
        /\ Head(batch) = batch[1]
        /\ DOMAIN batch' = 1 .. (Len(batch) - 1)
        /\ \A i \in DOMAIN batch' : batch'[i] = batch[i + 1]
    BY <2>1
  <2>a. \A i \in DOMAIN batch' : i + 1 \in DOMAIN batch /\ i + 1 # 1 BY <2>2
  <2>b. \A i \in DOMAIN batch : i = 1 \/ (i - 1 \in DOMAIN batch' /\ batch'[i - 1] = batch[i])
    BY <2>2
  <2>3. \A w \in Works : Lists(batch, w) <=> Lists(batch', w) \/ Head(batch) = Job("work", w)
    <3> SUFFICES ASSUME NEW w \in Works
                 PROVE Lists(batch, w) <=> Lists(batch', w) \/ Head(batch) = Job("work", w)
      BY Zenon
    <3>1. ASSUME Lists(batch', w) PROVE Lists(batch, w)
      <4>1. PICK i \in DOMAIN batch' : batch'[i] = Job("work", w) BY <3>1, Zenon DEF Lists
      <4>2. batch[i + 1] = Job("work", w) BY <2>2, <4>1
      <4> QED BY <2>a, <4>2, Zenon DEF Lists
    <3>2. ASSUME Head(batch) = Job("work", w) PROVE Lists(batch, w) BY <2>2, <3>2, Zenon DEF Lists
    <3>3. ASSUME Lists(batch, w), Head(batch) # Job("work", w) PROVE Lists(batch', w)
      <4>1. PICK i \in DOMAIN batch : batch[i] = Job("work", w) BY <3>3, Zenon DEF Lists
      <4>2. i # 1 BY <2>2, <3>3, <4>1
      <4> QED BY <2>b, <4>1, <4>2 DEF Lists
    <3> QED BY <3>1, <3>2, <3>3, Zenon
  <2>4. \A w \in Works : Lists(batch', w) => Head(batch) # Job("work", w)
    <3> SUFFICES ASSUME NEW w \in Works, NEW i \in DOMAIN batch', batch'[i] = Job("work", w),
                        Head(batch) = Job("work", w)
                 PROVE FALSE
      BY Zenon DEF Lists
    <3>1. batch[i + 1] = batch[1] /\ batch[1].kind = "work" BY <2>2 DEF Job
    <3> QED BY <2>2, <2>a, <3>1 DEF QueuedOnce
  <2>5. \A w \in Works : works'[w] = "queued" <=> works[w] = "queued" /\ Head(batch) # Job("work", w)
    BY <2>1, Zenon
  <2>6. \A w \in Works : Lists(inbox, w) => Head(batch) # Job("work", w) BY <2>3, Zenon
  <2>7. \A w \in executing : Head(batch) # Job("work", w)
    BY <2>2 DEF QueuedOnce, Job
  <2>8. QueuedOnce(inbox)'
    <3>1. \A i \in DOMAIN inbox : inbox[i].kind = "work" => inbox[i] = Job("work", inbox[i].id)
      BY JobElements, Zenon
    <3> QED BY <2>1, <2>5, <2>6, <3>1 DEF QueuedOnce, Lists
  <2>9. QueuedOnce(batch)'
    <3>1. \A i \in DOMAIN batch : batch[i].kind = "work" => batch[i] = Job("work", batch[i].id)
      BY JobElements, Zenon
    <3>2. \A i \in DOMAIN batch' : batch'[i].kind = "work" =>
             batch'[i].id \in Works \ executing' /\ works[batch'[i].id] = "queued"
      BY <2>1, <2>2, <2>a DEF QueuedOnce
    <3>3. \A i \in DOMAIN batch' : batch'[i].kind = "work" => Lists(batch', batch'[i].id)
      BY <2>2, <2>a, <3>1 DEF Lists
    <3>4. \A i \in DOMAIN batch' : batch'[i].kind = "work" => works'[batch'[i].id] = "queued"
      BY <2>4, <2>5, <3>2, <3>3
    <3>5. \A i, j \in DOMAIN batch' : batch'[i].kind = "work" /\ batch'[i] = batch'[j] => i = j
      <4> SUFFICES ASSUME NEW i \in DOMAIN batch', NEW j \in DOMAIN batch',
                          batch'[i].kind = "work", batch'[i] = batch'[j]
                   PROVE i = j
        BY Zenon
      <4>1. i + 1 = j + 1 BY <2>2, <2>a DEF QueuedOnce
      <4> QED BY <2>2, <4>1
    <3> QED BY <3>2, <3>4, <3>5 DEF QueuedOnce
  <2>10. \A w \in Works : ~(Lists(inbox', w) /\ Lists(batch', w)) BY <2>1, <2>3, Zenon
  <2>11. \A w \in Works : works'[w] = "queued" => w \in executing' \/ Lists(inbox', w) \/ Lists(batch', w)
    BY <2>1, <2>3, <2>5
  <2>12. \A w \in executing' : works'[w] = "queued" BY <2>1, <2>5, <2>7
  <2> QED BY <2>8, <2>9, <2>10, <2>11, <2>12, Zenon
<1>7. ASSUME NEW then, drain(then), pc \in {"host", "recheck", "inbox"} PROVE WorkInv'
  <2>1. batch = <<>> BY <1>7, Zenon DEF PlaceInv, OnCompletion, OnJob
  <2>2. batch' = inbox /\ inbox' = <<>> /\ UNCHANGED <<works, executing>>
    BY <1>7, Zenon DEF drain, threadVars
  <2>3. DOMAIN inbox' = {} /\ DOMAIN batch = {} BY <2>1, <2>2
  <2> QED BY <2>2, <2>3 DEF QueuedOnce, Lists
<1>8. CASE UNCHANGED <<works, executing>>
  BY <1>1, <1>4, <1>5, <1>6, <1>7, <1>8, InboxSteps, Zenon
<1> QED BY <1>1, <1>2, <1>3, <1>4, <1>6, <1>8, WorkSteps

----------------------------------------------------------------------------
(* The threadsafe function: who holds it, and who is in the middle of what.  *)

\* Where a thread may be, given who holds the function: ref is main's alone and
\* runs while main holds it; the last release runs when nobody does; whoever
\* cleared keepalive_active has yet to take the counter down; a call is made by
\* a holder.
AtInv(p) ==
    /\ at[p] = "add" => p = Main /\ Holds(Main) /\ keepalive_active
    /\ at[p] \in {"last", "drop"} => held = {}
    /\ at[p] = "sub" => ~keepalive_active /\ (p = Main \/ held = {})
    /\ at[p] \in {"call", "wake"} => Holds(p)

AtMostOne(L) == \A p, q \in Users : at[p] \in L /\ at[q] \in L => p = q

HoldInv ==
    /\ ref_count = Cardinality(held)
    /\ held # {} => active
    /\ \A p \in Users : AtInv(p)
    /\ AtMostOne({"last", "drop"}) /\ AtMostOne({"sub"})
    /\ keepalive_active => held # {} \/ \E p \in Users : at[p] \in {"last", "drop"}

----------------------------------------------------------------------------
(* The counter, and the end of the loop.                                     *)

QueuedWorks == {w \in Works : works[w] = "queued"}

\* What the threadsafe function adds to the counter: one from ref's fetch_add
\* to the fetch_sub of whoever cleared keepalive_active.
Share == One((\E p \in Users : at[p] = "sub") \/ (keepalive_active /\ at[Main] # "add"))

CountInv == keepalive = Cardinality(QueuedWorks) + One(running.kind = "work") + Share

\* The loop is about to end: has_pending read a zero counter, or the turn is
\* over with no source ready, or it has ended.
Closing == pc \in {"pending", "exited"} \/ (pc = "inbox" /\ ~progressed)
Closed == pc = "exited" \/ (pc = "inbox" /\ ~progressed)

\* A function that is held keeps the loop alive until it is unref'd.
KeepInv ==
    ~unreffed /\ (held # {} \/ \E p \in Users : at[p] \in {"last", "drop"}) => keepalive_active

\* No work is under way and the function is not ref'd; if it never was unref'd,
\* nobody holds it or is inside it.
NothingKept ==
    /\ executing = {} /\ ~keepalive_active /\ QueuedWorks = {}
    /\ ~unreffed => held = {} /\ \A p \in Users : at[p] = "out"

\* Nothing is kept from the zero counter on; after the read of the inbox that is
\* empty too, unless the function was unref'd.
EndInv ==
    /\ Closing => NothingKept
    /\ Closed /\ ~unreffed => inbox = <<>>

\* The inductive invariant.
LoopInv == /\ TypeOK /\ PlaceInv /\ WorkInv /\ HoldInv /\ CountInv /\ KeepInv /\ EndInv
           /\ NoMissedWake

============================================================================
