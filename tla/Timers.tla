----------------------------- MODULE Timers -----------------------------
(* The timer table (cruft/src/timer.rs) and what the poll hook does with it  *)
(* (fs.rs poll_due_timers).  The table is kept in registration order: an     *)
(* entry is added at the end, and a repeating one is re-armed in place at    *)
(* the time of the poll.  So the model numbers the timers in that order and  *)
(* keeps the table by number.  A timer that is due becomes a macrotask.      *)
(*                                                                           *)
(* The program's number for a timer, next_id's, is drawn a moment before it  *)
(* is registered.  An async-hook init callback runs in between (timer.rs     *)
(* 529-534), and when it sets timers of its own these are registered first.  *)
(*                                                                           *)
(* Time is kept as what is left until each timer is due: due_at - now.       *)
EXTENDS JobQueue, FiniteSets

CONSTANTS Delays,       \* the delays a program asks for, after normalize_timer_delay
          MaxTimers,    \* how many timers a program sets
          Backlog       \* bound: macrotasks queued while time passes

ASSUME TimersAssumption == Delays \subseteq Nat /\ MaxTimers \in Nat

VARIABLES timers,       \* TIMERS: the table, from ids to entries
          registered    \* every timer set so far, in the order of registration

timerVars == <<timers, registered>>

TimerInit == timers = <<>> /\ registered = <<>>

next_id == Len(registered) + 1

TimerEntry(delay, repeat) ==
    [delay |-> delay, left |-> delay, refed |-> TRUE, repeat |-> repeat]

\* delay_ms.max(1): an interval is re-armed after at least one unit.
repeat_ms(delay) == IF delay = 0 THEN 1 ELSE delay

\* setTimeout, setInterval and setImmediate (delay 0): register_with_id.
set_timer(delay, repeat) ==
    /\ InJs /\ next_id <= MaxTimers
    /\ timers' = [id \in DOMAIN timers \cup {next_id} |->
                     IF id = next_id THEN TimerEntry(delay, repeat) ELSE timers[id]]
    /\ registered' = Append(registered, [delay |-> delay, repeat |-> repeat])

\* clearTimeout, clearInterval, clearImmediate, Timeout.close: cancel.  A timer
\* that is no longer in the table is left alone.
clear_timer(id) ==
    /\ InJs /\ id \in DOMAIN timers
    /\ timers' = [i \in DOMAIN timers \ {id} |-> timers[i]]
    /\ UNCHANGED registered

\* Timeout.ref and Timeout.unref: set_refed.
set_refed(id, refed) ==
    /\ InJs /\ id \in DOMAIN timers
    /\ timers' = [timers EXCEPT ![id].refed = refed]
    /\ UNCHANGED registered

\* Mutant: only what is already due counts.
has_pending_due == \E id \in DOMAIN timers : timers[id].refed /\ timers[id].left = 0

has_pending == \E id \in DOMAIN timers : timers[id].refed

\* A unit of time passes.  It is not held against a program that it cannot run
\* its intervals' callbacks as fast as they come due: Backlog bounds the queue.
time_passes ==
    /\ \E id \in DOMAIN timers : timers[id].left > 0
    /\ Len(macrotasks) < Backlog
    /\ timers' = [id \in DOMAIN timers |->
                     [timers[id] EXCEPT !.left = IF @ > 0 THEN @ - 1 ELSE 0]]
    /\ UNCHANGED registered

Due == {id \in DOMAIN timers : timers[id].left = 0}

\* Mutant: the due timers come out newest first.
InOrder_reversed(order) == \A i, j \in DOMAIN order : i < j => order[j] < order[i]

\* The order in which the table is gone through.
InOrder(order) == \A i, j \in DOMAIN order : i < j => order[i] < order[j]

\* drain_due_pairs_for_agent: the table that is kept.
Kept == [id \in {i \in DOMAIN timers : i \in Due => timers[i].repeat} |->
           IF id \in Due THEN [timers[id] EXCEPT !.left = repeat_ms(timers[id].delay)]
                         ELSE timers[id]]

\* poll_due_timers: the due timers join the macrotask queue and the poll is over.
poll_due_timers ==
    /\ pc = "timers" /\ Due # {}
    /\ \E order \in [1 .. Cardinality(Due) -> Due] :
          /\ InOrder(order)
          /\ macrotasks' = macrotasks \o [i \in DOMAIN order |-> Job("timer", order[i])]
    /\ timers' = Kept
    /\ pc' = "inbox" /\ progressed' = TRUE
    /\ UNCHANGED <<registered, back, running, nexttick, microtasks, jobs>>

no_due_timers ==
    /\ pc = "timers" /\ Due = {}
    /\ pc' = "keepalive"
    /\ UNCHANGED <<timers, registered, back, running, nexttick, microtasks, macrotasks,
                   jobs, progressed>>

============================================================================
