----------------------------- MODULE AtomicsWait -----------------------------
(***************************************************************************)
(* Atomics.wait, Atomics.waitAsync and Atomics.notify: the process-wide    *)
(* waiter list of rusty-js-runtime/src/agent262.rs and the built-ins of    *)
(* intrinsics.rs that call it.                                             *)
(*                                                                         *)
(* Every agent is a thread.  It has one wait slot for the Atomics.wait it  *)
(* is blocked in and one for an outstanding Atomics.waitAsync.  A step is  *)
(* what a thread does while it holds a lock: the waiter list and the bytes *)
(* (compare and register), the slot's flag (wake up or time out), the list *)
(* (leave, notify).  Between two steps every other thread may run.  A      *)
(* shared buffer is a function from indices to values.                     *)
(***************************************************************************)
EXTENDS Integers, Sequences, FiniteSetsExt

CONSTANTS
    Agents,
    MainAgents,     \* agents that may not block (main_agent_can_block is false)
    AsyncAgents,    \* bound: the agents that call Atomics.waitAsync
    Indices,        \* byte indices of one shared buffer
    Values,
    MaxCount        \* the largest notify count; stands for usize::MAX too

ASSUME WaitAssumption ==
    /\ MainAgents \subseteq Agents /\ AsyncAgents \subseteq Agents
    /\ Indices # {} /\ Values # {} /\ MaxCount \in Nat

VARIABLES
    mem,        \* the shared bytes
    waiters,    \* WAITERS: the registered waiters in order of registration
    pc, call,   \* per slot: progress and arguments of the wait
    woken,      \* per slot: WaitSlot::woken
    result,     \* per slot: what the last wait returned
    told        \* per index: a notify of everyone came after the last store

vars == <<mem, waiters, pc, call, woken, result, told>>
-----------------------------------------------------------------------------
Slots == (Agents \ MainAgents) \X {"wait"} \cup AsyncAgents \X {"waitAsync"}
\* MaxCount stands for usize::MAX: a notify of so many reaches everyone.
ASSUME CountAssumption == IsFiniteSet(Slots) /\ MaxCount >= Cardinality(Slots)

sync(a) == <<a, "wait">>
async(a) == <<a, "waitAsync">>

Timeouts == {"zero", "finite", "infinite"}
Calls == [index : Indices, expected : Values, timeout : Timeouts]
NoCall == CHOOSE c \in Calls : TRUE     \* the arguments of a slot not in use
Waiter == [key : Indices, slot : Slots]

\* A thread runs no other JavaScript while it is inside Atomics.wait or between
\* the two halves of the poll of a waitAsync.
Blocked(a) == a \notin MainAgents /\ pc[sync(a)] # "idle"
Runs(a) == ~Blocked(a) /\ (a \in AsyncAgents => pc[async(a)] # "leaving")

Return(s, r) ==
    /\ pc' = [pc EXCEPT ![s] = "idle"]
    /\ call' = [call EXCEPT ![s] = NoCall]
    /\ result' = [result EXCEPT ![s] = r]

Registered(s) == {n \in DOMAIN waiters : waiters[n].slot = s}

InOrder(order) == \A i, j \in DOMAIN order : i < j => order[i] < order[j]

\* Vec::retain and Vec::remove: the entries of the list that are kept stay in order.
Retain(kept) ==
    \E order \in [1 .. Cardinality(kept) -> kept] :
        InOrder(order) /\ waiters' = [i \in DOMAIN order |-> waiters[order[i]]]

\* Drop the entry of slot s.
Deregister(s) == Retain(DOMAIN waiters \ Registered(s))
-----------------------------------------------------------------------------
Init ==
    /\ mem \in [Indices -> Values]
    /\ waiters = <<>>
    /\ pc = [s \in Slots |-> "idle"]
    /\ call = [s \in Slots |-> NoCall]
    /\ woken = [s \in Slots |-> FALSE]
    /\ result = [s \in Slots |-> "none"]
    /\ told = [k \in Indices |-> FALSE]

\* Atomics.store, under the lock of the bytes.
store(a, k, v) ==
    /\ Runs(a)
    /\ mem' = [mem EXCEPT ![k] = v]
    /\ told' = [told EXCEPT ![k] = FALSE]
    /\ UNCHANGED <<waiters, pc, call, woken, result>>

\* The part of Atomics.wait before atomics_park: a first look at the bytes.
wait(a, c) ==
    LET s == sync(a) IN
    /\ Runs(a)
    /\ woken' = [woken EXCEPT ![s] = FALSE]
    /\ \/ mem[c.index] # c.expected /\ Return(s, "not-equal")
       \/ mem[c.index] = c.expected /\ c.timeout = "zero" /\ Return(s, "timed-out")
       \/ /\ mem[c.index] = c.expected /\ c.timeout # "zero"
          /\ pc' = [pc EXCEPT ![s] = "checked"]
          /\ call' = [call EXCEPT ![s] = c]
          /\ result' = [result EXCEPT ![s] = "none"]
    /\ UNCHANGED <<mem, waiters, told>>

Register(s, c) ==
    /\ waiters' = Append(waiters, [key |-> c.index, slot |-> s])
    /\ pc' = [pc EXCEPT ![s] = "parked"]
    /\ call' = [call EXCEPT ![s] = c]
    /\ result' = [result EXCEPT ![s] = "none"]

\* Mistake: the bytes are not compared again under the lock of the list.
atomics_park_unchecked(a) ==
    /\ pc[sync(a)] = "checked"
    /\ Register(sync(a), call[sync(a)])
    /\ UNCHANGED <<mem, woken, told>>

\* atomics_park, up to the release of the list: compare and register.
atomics_park(a) ==
    LET s == sync(a)
        c == call[s] IN
    /\ pc[s] = "checked"
    /\ \/ mem[c.index] # c.expected /\ Return(s, "not-equal") /\ UNCHANGED waiters
       \/ mem[c.index] = c.expected /\ Register(s, c)
    /\ UNCHANGED <<mem, woken, told>>

\* Mistake: the thread waits for the flag alone.
WakeUp_no_timeout(a) ==
    /\ pc[sync(a)] = "parked" /\ woken[sync(a)]
    /\ result' = [result EXCEPT ![sync(a)] = "ok"]
    /\ pc' = [pc EXCEPT ![sync(a)] = "leaving"]
    /\ UNCHANGED <<mem, waiters, call, woken, told>>

\* The condition variable lets the thread through: it was woken, or its time is
\* up and it was not.
WakeUp(a) ==
    LET s == sync(a) IN
    /\ pc[s] = "parked"
    /\ \/ woken[s] /\ result' = [result EXCEPT ![s] = "ok"]
       \/ ~woken[s] /\ call[s].timeout = "finite" /\ result' = [result EXCEPT ![s] = "timed-out"]
    /\ pc' = [pc EXCEPT ![s] = "leaving"]
    /\ UNCHANGED <<mem, waiters, call, woken, told>>

\* Mistake: a waiter that timed out stays registered.
Leave_registered(a) ==
    /\ pc[sync(a)] = "leaving"
    /\ Return(sync(a), result[sync(a)])
    /\ UNCHANGED <<mem, waiters, woken, told>>

\* The end of atomics_park: the thread takes itself off the list.
Leave(a) ==
    /\ pc[sync(a)] = "leaving"
    /\ Deregister(sync(a))
    /\ Return(sync(a), result[sync(a)])
    /\ UNCHANGED <<mem, woken, told>>

\* Atomics.waitAsync with register_async_waiter_if_equal.
waitAsync(a, c) ==
    LET s == async(a) IN
    /\ Runs(a) /\ pc[s] = "idle"
    /\ woken' = [woken EXCEPT ![s] = FALSE]
    /\ \/ mem[c.index] # c.expected /\ Return(s, "not-equal") /\ UNCHANGED waiters
       \/ /\ mem[c.index] = c.expected /\ c.timeout = "zero"
          /\ Return(s, "timed-out") /\ UNCHANGED waiters
       \/ mem[c.index] = c.expected /\ c.timeout # "zero" /\ Register(s, c)
    /\ UNCHANGED <<mem, told>>

\* Mistake: the poll never looks at the clock.
poll_no_deadline(a) ==
    /\ Runs(a) /\ pc[async(a)] = "parked" /\ woken[async(a)]
    /\ Return(async(a), "ok")
    /\ UNCHANGED <<mem, waiters, woken, told>>

\* The poll of a waitAsync: read the flag, then look at the clock.  A poll that
\* finds neither reschedules itself and changes nothing.
poll(a) ==
    LET s == async(a) IN
    /\ Runs(a) /\ pc[s] = "parked"
    /\ \/ woken[s] /\ Return(s, "ok")
       \/ /\ ~woken[s] /\ call[s].timeout = "finite"
          /\ pc' = [pc EXCEPT ![s] = "leaving"]
          /\ UNCHANGED <<call, result>>
    /\ UNCHANGED <<mem, waiters, woken, told>>

\* The rest of a poll whose time was up.
deregister(a) ==
    LET s == async(a) IN
    /\ pc[s] = "leaving"
    /\ Deregister(s)
    /\ Return(s, "timed-out")
    /\ UNCHANGED <<mem, woken, told>>

At(k) == {n \in DOMAIN waiters : waiters[n].key = k}

\* How many entries for k there are up to entry n.
Rank(n, k) == Cardinality({m \in At(k) : m <= n})

\* Mistake: the scan steps over the entry that follows a removed one.
Scan_skips(k, count) ==
    {n \in At(k) : Rank(n, k) <= count /\ (n = 1 \/ waiters[n - 1].key # k)}

\* The loop of atomics_notify_waiters: the entries it removes and wakes.
Scan(k, count) == {n \in At(k) : Rank(n, k) <= count}

\* Atomics.notify; the list is locked throughout.
notify(a, k, count) ==
    /\ Runs(a)
    /\ UNCHANGED <<mem, pc, call, result>>
    /\ told' = [told EXCEPT ![k] = @ \/ count = MaxCount]
    /\ Retain(DOMAIN waiters \ Scan(k, count))
    /\ woken' = [s \in Slots |-> woken[s] \/ \E n \in Scan(k, count) : waiters[n].slot = s]

\* A main agent that may not block gets a TypeError from Atomics.wait.
Next ==
    \/ \E a \in Agents :
        \/ \E k \in Indices, v \in Values : store(a, k, v)
        \/ \E k \in Indices, n \in 0 .. MaxCount : notify(a, k, n)
    \/ \E a \in Agents \ MainAgents :
        \/ \E c \in Calls : wait(a, c)
        \/ atomics_park(a) \/ WakeUp(a) \/ Leave(a)
    \/ \E a \in AsyncAgents :
        \/ \E c \in Calls : waitAsync(a, c)
        \/ poll(a) \/ deregister(a)

Spec == Init /\ [][Next]_vars

\* Threads are scheduled fairly, clocks advance, and an agent's event loop polls
\* an outstanding waitAsync whenever it runs.
FairSpec ==
    /\ Spec
    /\ \A a \in Agents \ MainAgents :
        WF_vars(atomics_park(a)) /\ WF_vars(WakeUp(a)) /\ WF_vars(Leave(a))
    /\ \A a \in AsyncAgents : WF_vars(poll(a)) /\ WF_vars(deregister(a))
-----------------------------------------------------------------------------
TypeOK ==
    /\ mem \in [Indices -> Values]
    /\ waiters \in Seq(Waiter)
    /\ pc \in [Slots -> {"idle", "checked", "parked", "leaving"}]
    /\ call \in [Slots -> Calls]
    /\ woken \in [Slots -> BOOLEAN]
    /\ result \in [Slots -> {"none", "not-equal", "timed-out", "ok"}]
    /\ told \in [Indices -> BOOLEAN]

\* The list holds exactly the waits that are under way and not yet notified,
\* each once and under its own key; so a blocked thread can be found by notify,
\* and a notify never counts a wait that has returned.
ListIsExact ==
    \A s \in Slots :
        IF pc[s] \in {"parked", "leaving"} /\ ~woken[s]
        THEN \E n \in DOMAIN waiters :
                Registered(s) = {n} /\ waiters[n].key = call[s].index
        ELSE Registered(s) = {}

\* No wake-up is missed between comparing and going to sleep: once a value was
\* stored and everyone was notified, nobody sleeps on an older value.
NoMissedWakeUp ==
    \A s \in Slots :
        pc[s] = "parked" /\ ~woken[s] /\ told[call[s].index]
            => mem[call[s].index] = call[s].expected

\* A notify wakes the waiters of its index in the order they came, as many as
\* were asked for or all there are.
NotifyInOrder ==
    [][\A k \in Indices, n \in 0 .. MaxCount : (\E a \in Agents : notify(a, k, n)) =>
        LET up == {m \in At(k) : woken'[waiters[m].slot]}
        IN /\ \A m \in up, l \in At(k) \ up : m < l
           /\ Cardinality(up) = Min({n, Cardinality(At(k))})
           /\ Len(waiters') = Len(waiters) - Cardinality(up)]_vars

\* A wait that was notified reports "ok": the notification was not spent on a
\* wait that reports a timeout.
NotifiedReportsOk ==
    \A s \in Slots : pc[s] = "idle" /\ woken[s] => result[s] = "ok"

\* A blocked thread that was notified, or whose wait has a timeout, returns.
WaitReturns ==
    \A a \in Agents \ MainAgents :
        (pc[sync(a)] = "parked" /\ (woken[sync(a)] \/ call[sync(a)].timeout = "finite"))
            ~> (pc[sync(a)] = "idle")

\* A waitAsync that was notified, or that has a timeout, settles unless its
\* thread blocks.
WaitAsyncSettles ==
    \A a \in AsyncAgents :
        (pc[async(a)] = "parked" /\ (woken[async(a)] \/ call[async(a)].timeout = "finite"))
            ~> (pc[async(a)] = "idle" \/ Blocked(a))
=============================================================================
