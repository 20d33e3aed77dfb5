------------------------------ MODULE Napi ------------------------------
(* The asynchronous half of the native-addon interface                       *)
(* (rusty-js-runtime/src/napi.rs): async works, whose execute callback runs  *)
(* on a thread of its own, and a threadsafe function, which any thread that  *)
(* holds it may call.  Both bring their results to the main thread through   *)
(* the completion inbox, wake it by a generation counter under a condition   *)
(* variable, and keep its event loop alive through one atomic counter.       *)
(*                                                                           *)
(* Every atomic operation is a step.  The addon follows the rules of the     *)
(* interface: a thread calls, acquires and releases the function only while  *)
(* it holds it; ref and unref are called by the main thread, ref while it    *)
(* holds the function.                                                       *)
EXTENDS JobQueue, FiniteSets

CONSTANTS Works,        \* async works, by number
          Threads,      \* threads of the addon that use the threadsafe function
          Main,         \* the main thread, as a user of it
          MaxHolds,     \* bound: how often a thread acquires the function
          MaxCalls,     \* bound: how often the function is called
          MaxWaking,    \* bound: worker threads alive at a time
          Modulus       \* 2^64, the range of a usize

ASSUME NapiAssumption ==
    /\ Works \subseteq Nat /\ IsFiniteSet(Works)
    /\ IsFiniteSet(Threads) /\ Main \notin Threads /\ MaxHolds \in Nat
    /\ Modulus \in Nat /\ Modulus > Cardinality(Works) + 2

VARIABLES inbox,        \* host_completion_inbox
          batch,        \* the jobs of a drain that still have to run
          woken,        \* the wake generation differs from the observed one
          works,        \* each work: "none", "idle", "queued" or "freed"
          executing,    \* works whose thread runs execute
          waking,       \* worker threads that posted and have not bumped the generation
          ref_count, active, keepalive_active,     \* the threadsafe function's fields
          held,         \* the acquisitions of it: a thread, and a number of its own
          at,           \* where each thread is inside a call on it
          calls,        \* calls made so far
          unreffed,     \* the addon has unref'd it at least once
          keepalive     \* napi_keepalive

tsfn == <<ref_count, active, keepalive_active>>

napiVars == <<inbox, batch, woken, works, executing, waking, tsfn, held, at, calls,
              unreffed, keepalive>>

Users == Threads \cup {Main}

NapiInit ==
    /\ inbox = <<>> /\ batch = <<>> /\ woken = FALSE
    /\ works = [w \in Works |-> "none"] /\ executing = {} /\ waking = 0
    /\ ref_count = 0 /\ active = FALSE /\ keepalive_active = FALSE
    /\ held = {} /\ at = [p \in Users |-> "out"]
    /\ calls = 0 /\ unreffed = FALSE /\ keepalive = 0

fetch_add(k) == (k + 1) % Modulus
fetch_sub(k) == ((k + Modulus) - 1) % Modulus

----------------------------------------------------------------------------
(* Async works.                                                              *)

create_async_work(w) ==
    /\ InJs /\ works[w] = "none"
    /\ works' = [works EXCEPT ![w] = "idle"]
    /\ UNCHANGED <<inbox, batch, woken, executing, waking, tsfn, held, at, calls,
                   unreffed, keepalive>>

queue_async_work(w) ==
    /\ InJs /\ works[w] = "idle"
    /\ waking + Cardinality(executing) < MaxWaking
    /\ works' = [works EXCEPT ![w] = "queued"]
    /\ keepalive' = fetch_add(keepalive)
    /\ executing' = executing \cup {w}
    /\ UNCHANGED <<inbox, batch, woken, waking, tsfn, held, at, calls, unreffed>>

\* The work's thread: execute returned, the completion is posted ...
execute(w) ==
    /\ w \in executing
    /\ executing' = executing \ {w}
    /\ inbox' = Append(inbox, Job("work", w))
    /\ waking' = waking + 1
    /\ UNCHANGED <<batch, woken, works, tsfn, held, at, calls, unreffed, keepalive>>

\* ... and then the main thread is woken.
wake ==
    /\ waking > 0
    /\ waking' = waking - 1
    /\ woken' = TRUE
    /\ UNCHANGED <<inbox, batch, works, executing, tsfn, held, at, calls, unreffed,
                   keepalive>>

\* Mutant: the queued flag is not looked at.
may_delete_any(w) == works[w] \in {"idle", "queued"}

may_delete(w) == works[w] = "idle"

delete_async_work(w) ==
    /\ InJs /\ may_delete(w)
    /\ works' = [works EXCEPT ![w] = "freed"]
    /\ UNCHANGED <<inbox, batch, woken, executing, waking, tsfn, held, at, calls,
                   unreffed, keepalive>>

\* The completion job, up to the addon's complete callback (a freed work is
\* written to all the same).
begin_completion(job) ==
    works' = [w \in Works |-> IF job = Job("work", w) THEN "idle" ELSE works[w]]

\* Mutant: the counter is not taken down.
after_completion_kept == UNCHANGED keepalive

\* The rest of the completion job, after the callback.
after_completion ==
    keepalive' = IF running.kind = "work" THEN fetch_sub(keepalive) ELSE keepalive

----------------------------------------------------------------------------
(* The threadsafe function.                                                  *)

Holds(p) == \E k \in 1 .. MaxHolds : <<p, k>> \in held

\* p may start an operation: it is not inside another, and holds the function.
Free(p) == at[p] = "out" /\ (p = Main => InJs)
Able(p) == Free(p) /\ Holds(p)

\* p goes on at step l of its operation, or returns from it (l = "out").
goto(p, l) ==
    /\ at' = [at EXCEPT ![p] = l]
    /\ pc' = IF p = Main THEN IF l = "out" THEN "job" ELSE "native" ELSE pc
    /\ UNCHANGED <<back, running, nexttick, microtasks, macrotasks, jobs, progressed>>

\* Mutant: the new function does not keep the loop alive.
create_threadsafe_function_unref ==
    /\ InJs /\ MaxHolds > 0 /\ ref_count = 0 /\ at = [p \in Users |-> "out"]
    /\ ref_count' = Cardinality(Users) /\ active' = TRUE /\ keepalive_active' = FALSE
    /\ held' = Users \X {1}
    /\ UNCHANGED <<inbox, batch, woken, works, executing, waking, at, calls, unreffed,
                   keepalive>>

\* napi_create_threadsafe_function, one acquisition for each user.
create_threadsafe_function ==
    /\ InJs /\ MaxHolds > 0 /\ ref_count = 0 /\ at = [p \in Users |-> "out"]
    /\ keepalive' = fetch_add(keepalive)
    /\ ref_count' = Cardinality(Users) /\ active' = TRUE /\ keepalive_active' = TRUE
    /\ held' = Users \X {1}
    /\ UNCHANGED <<inbox, batch, woken, works, executing, waking, at, calls, unreffed>>

call(p) ==
    /\ Able(p) /\ active /\ calls < MaxCalls
    /\ calls' = calls + 1
    /\ goto(p, "call")
    /\ UNCHANGED <<inbox, batch, woken, works, executing, waking, tsfn, held, unreffed,
                   keepalive>>

call_posts(p) ==
    /\ at[p] = "call"
    /\ inbox' = Append(inbox, Job("call", 0))
    /\ goto(p, "wake")
    /\ UNCHANGED <<batch, woken, works, executing, waking, tsfn, held, calls, unreffed,
                   keepalive>>

call_wakes(p) ==
    /\ at[p] = "wake"
    /\ woken' = TRUE
    /\ goto(p, "out")
    /\ UNCHANGED <<inbox, batch, works, executing, waking, tsfn, held, calls, unreffed,
                   keepalive>>

acquire(p) ==
    /\ Able(p)
    /\ \E k \in 1 .. MaxHolds : <<p, k>> \notin held /\ held' = held \cup {<<p, k>>}
    /\ ref_count' = ref_count + 1 /\ UNCHANGED <<active, keepalive_active>>
    /\ UNCHANGED jobVars
    /\ UNCHANGED <<inbox, batch, woken, works, executing, waking, at, calls, unreffed,
                   keepalive>>

\* The last release goes on to close the function.
release(p) ==
    /\ Able(p)
    /\ ref_count' = ref_count - 1 /\ UNCHANGED <<active, keepalive_active>>
    /\ \E k \in 1 .. MaxHolds : <<p, k>> \in held /\ held' = held \ {<<p, k>>}
    /\ goto(p, IF ref_count = 1 THEN "last" ELSE "out")
    /\ UNCHANGED <<inbox, batch, woken, works, executing, waking, calls, unreffed,
                   keepalive>>

release_closes(p) ==
    /\ at[p] = "last"
    /\ active' = FALSE /\ UNCHANGED <<ref_count, keepalive_active>>
    /\ goto(p, "drop")
    /\ UNCHANGED <<inbox, batch, woken, works, executing, waking, held, calls, unreffed,
                   keepalive>>

\* Mutant: a load and a store; both the last release and an unref take it down.
release_drops_store(p) ==
    /\ at[p] = "drop"
    /\ keepalive_active' = FALSE /\ UNCHANGED <<ref_count, active>>
    /\ goto(p, "sub")
    /\ UNCHANGED <<inbox, batch, woken, works, executing, waking, held, calls, unreffed,
                   keepalive>>

\* compare_exchange(true, false): who wins it takes the counter down.
release_drops(p) ==
    /\ at[p] = "drop"
    /\ keepalive_active' = FALSE /\ UNCHANGED <<ref_count, active>>
    /\ goto(p, IF keepalive_active THEN "sub" ELSE "out")
    /\ UNCHANGED <<inbox, batch, woken, works, executing, waking, held, calls, unreffed,
                   keepalive>>

unref ==
    /\ Free(Main) /\ keepalive_active
    /\ keepalive_active' = FALSE /\ UNCHANGED <<ref_count, active>>
    /\ unreffed' = TRUE
    /\ goto(Main, "sub")
    /\ UNCHANGED <<inbox, batch, woken, works, executing, waking, held, calls, keepalive>>

ref ==
    /\ Able(Main) /\ ~keepalive_active
    /\ keepalive_active' = TRUE /\ UNCHANGED <<ref_count, active>>
    /\ goto(Main, "add")
    /\ UNCHANGED <<inbox, batch, woken, works, executing, waking, held, calls, unreffed,
                   keepalive>>

counter_moves(p) ==
    /\ at[p] \in {"add", "sub"}
    /\ keepalive' = IF at[p] = "add" THEN fetch_add(keepalive) ELSE fetch_sub(keepalive)
    /\ goto(p, "out")
    /\ UNCHANGED <<inbox, batch, woken, works, executing, waking, tsfn, held, calls,
                   unreffed>>

\* What a thread does inside an operation it has started.
Inside(p) == call_posts(p) \/ call_wakes(p) \/ release_closes(p) \/ release_drops(p)
             \/ counter_moves(p)

============================================================================
