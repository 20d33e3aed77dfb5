------------------------------ MODULE WorkerHost ------------------------------
(***************************************************************************)
(* Worker-hosted compartments: the main thread that creates, calls and     *)
(* closes compartments (the Compartment built-ins of intrinsics.rs), the   *)
(* worker threads that run them one job after the other (WorkerPool of     *)
(* rusty-js-gc, worker_realm.rs), and the host calls by which a            *)
(* compartment asks the main thread for something and waits for it.        *)
(*                                                                         *)
(* A main-thread operation is one step, except for the two that wait: the  *)
(* constructor and the call of a callable proxy.  A worker's job is a step *)
(* to begin it, possibly a host call, and a step to end it.                *)
(***************************************************************************)
EXTENDS Integers, Sequences, FiniteSets

CONSTANTS
    N, Compartments,
    Calls,          \* identities of replies: one per request, import or proxy call
    Funs,           \* functions of the compartments
    MaxSent,        \* bound: messages sent, per compartment
    MaxBindings     \* bound: callables registered for one compartment

ASSUME HostAssumption ==
    N \in Nat \ {0} /\ IsFiniteSet(Compartments) /\ "no function" \notin Funs

VARIABLES
    affinity, load, next,   \* the scheduler
    queue,      \* per worker: the mailbox of its thread
    run,        \* per worker: the job it is in
    entries,    \* per worker: WORKER_COMPARTMENTS
    callables,  \* per worker and compartment: the CallableRegistry
    main,       \* what the main thread is waiting in
    created, built, closed, revoked,
    call,       \* per reply: progress and value
    proxies,    \* callable proxies the main thread holds
    sent,       \* history: messages sent, per compartment
    delivered,  \* history: messages that reached a handler, per compartment
    torn        \* history: compartments whose teardown has run

schedulerVars == <<affinity, load, next>>
mainVars == <<main, created, closed, revoked, proxies, sent>>
workerVars == <<queue, run, entries, callables, built, delivered, torn>>
vars == <<schedulerVars, mainVars, workerVars, call>>

S == INSTANCE CompartmentScheduler
-----------------------------------------------------------------------------
Workers == S!Workers
Kinds == {"create", "send", "request", "import", "invoke", "teardown"}
NoCall == "no reply wanted"

\* arg is the number of a message, or the binding an invoke is for.
Job == [kind : Kinds, c : Compartments, id : Calls \cup {NoCall}, arg : Nat]

\* SendIr::Callable; fun is the function it was made for.
Proxy == [c : Compartments, binding : Nat, fun : Funs]
\* A reply is abstracted to the proxies it carries: a plain value or an error
\* carries none.
NoProxy == {}
NoFun == "no function"

Idle == [pc |-> "idle"]
InLoop == [pc |-> "loop"]
Unused == [state |-> "unused"]

Init ==
    /\ S!Init
    /\ queue = [w \in Workers |-> <<>>]
    /\ run = [w \in Workers |-> Idle]
    /\ entries = [w \in Workers |-> {}]
    /\ callables = [w \in Workers |-> [c \in Compartments |-> <<>>]]
    /\ main = InLoop
    /\ created = {} /\ built = {} /\ closed = {} /\ revoked = {} /\ torn = {}
    /\ call = [i \in Calls |-> Unused]
    /\ proxies = {}
    /\ sent = [c \in Compartments |-> 0]
    /\ delivered = [c \in Compartments |-> <<>>]
-----------------------------------------------------------------------------
(* The main thread. *)

\* Scheduler::assign and WorkerPool::submit.
submit(kind, c, id, arg) ==
    LET job == [kind |-> kind, c |-> c, id |-> id, arg |-> arg] IN
    /\ S!assign(c)
    /\ queue' = [queue EXCEPT ![S!worker_for(c)] = Append(@, job)]
    /\ UNCHANGED <<run, entries, callables, built, delivered, torn>>

Waits(i) == call[i] = Unused /\ call' = [call EXCEPT ![i] = [state |-> "waiting"]]

\* new Compartment({worker: true}): the thread blocks until the worker reports.
Compartment(c) ==
    /\ main = InLoop /\ c \notin created
    /\ created' = created \cup {c}
    /\ main' = [pc |-> "create", c |-> c]
    /\ submit("create", c, NoCall, 0)
    /\ UNCHANGED <<closed, revoked, proxies, sent, call>>

CompartmentReturns ==
    /\ main.pc = "create" /\ main.c \in built
    /\ main' = InLoop
    /\ UNCHANGED <<schedulerVars, workerVars, created, closed, revoked, proxies, sent, call>>

\* Mistake: a closed compartment still takes messages.
send_closed(c) ==
    /\ main = InLoop /\ c \in created /\ sent[c] < MaxSent[c]
    /\ sent' = [sent EXCEPT ![c] = @ + 1]
    /\ submit("send", c, NoCall, sent'[c])
    /\ UNCHANGED <<main, created, closed, revoked, proxies, call>>

send(c) ==
    /\ main = InLoop /\ c \in created \ closed /\ sent[c] < MaxSent[c]
    /\ sent' = [sent EXCEPT ![c] = @ + 1]
    /\ submit("send", c, NoCall, sent'[c])
    /\ UNCHANGED <<main, created, closed, revoked, proxies, call>>

request(c, i) ==
    /\ main = InLoop /\ c \in created \ closed /\ sent[c] < MaxSent[c]
    /\ Waits(i)
    /\ sent' = [sent EXCEPT ![c] = @ + 1]
    /\ submit("request", c, i, sent'[c])
    /\ UNCHANGED <<main, created, closed, revoked, proxies>>

\* importValue does not look at whether the compartment is closed.
importValue(c, i) ==
    /\ main = InLoop /\ c \in created
    /\ Waits(i)
    /\ submit("import", c, i, 0)
    /\ UNCHANGED mainVars

\* The native function of build_callable_proxy; it waits for the reply.
invoke(p, i) ==
    /\ main = InLoop /\ p \in proxies
    /\ Waits(i)
    /\ main' = [pc |-> "invoke", i |-> i]
    /\ submit("invoke", p.c, i, p.binding)
    /\ UNCHANGED <<created, closed, revoked, proxies, sent>>

\* Mistake: host calls under way are not revoked.
close_keeps_host_calls(c) ==
    /\ main = InLoop /\ c \in created \ closed
    /\ closed' = closed \cup {c}
    /\ submit("teardown", c, NoCall, 0)
    /\ UNCHANGED <<main, created, revoked, proxies, sent, call>>

close(c) ==
    /\ main = InLoop /\ c \in created \ closed
    /\ closed' = closed \cup {c}
    /\ revoked' = revoked \cup {c}
    /\ submit("teardown", c, NoCall, 0)
    /\ UNCHANGED <<main, created, proxies, sent, call>>

\* Mistake: a revoked call is dropped without an answer.
drain_drops_revoked ==
    run' = [w \in Workers |->
        IF run[w].pc = "host" /\ run[w].job.c \notin revoked
        THEN [pc |-> "answered", job |-> run[w].job, answer |-> "handled"]
        ELSE run[w]]

\* drain_worker_host_calls: every call in the channel is answered; those of a
\* revoked compartment without running the handler.
drain_worker_host_calls ==
    run' = [w \in Workers |->
        IF run[w].pc = "host"
        THEN [pc |-> "answered", job |-> run[w].job,
              answer |-> IF run[w].job.c \in revoked THEN "denied" ELSE "handled"]
        ELSE run[w]]

\* Mistake: the deadline is never looked at.
Expired_never(i) ==
    /\ FALSE /\ call[i].state = "waiting"
    /\ UNCHANGED <<call, proxies>>

\* What one look at the reply channel of call i may find.
Received(i) ==
    /\ call[i].state = "replied"
    /\ call' = [call EXCEPT ![i] = [state |-> "settled"]]
    /\ proxies' = proxies \cup call[i].reply
Expired(i) ==
    /\ call[i].state = "waiting"
    /\ call' = [call EXCEPT ![i] = [state |-> "expired"]]
    /\ UNCHANGED proxies
Empty(i) ==
    /\ call[i].state = "waiting"
    /\ UNCHANGED <<call, proxies>>
\* The wait for a proxy checks the clock before the channel, so a reply that has
\* come may be left there.
Overdue(i) ==
    /\ call[i].state \in {"waiting", "replied"}
    /\ call' = [call EXCEPT ![i] = [state |-> "expired"]]
    /\ UNCHANGED proxies

\* The macrotask of a request or an import: it answers the host calls, and then
\* looks for its reply; workers go on in between.
poll(i) ==
    /\ main = InLoop /\ call[i].state \in {"waiting", "replied"}
    /\ drain_worker_host_calls
    /\ main' = [pc |-> "poll", i |-> i]
    /\ UNCHANGED <<schedulerVars, queue, entries, callables, built, delivered, torn,
                   created, closed, revoked, proxies, sent, call>>

\* The end of the macrotask, taken together with what the look finds.
poll_look(i) ==
    /\ main = [pc |-> "poll", i |-> i]
    /\ main' = InLoop
    /\ UNCHANGED <<schedulerVars, workerVars, created, closed, revoked, sent>>

\* await_callable_proxy_reply, one round.
await_callable_proxy_reply(i) ==
    /\ main = [pc |-> "invoke", i |-> i]
    /\ drain_worker_host_calls
    /\ main' = [pc |-> "await", i |-> i]
    /\ UNCHANGED <<schedulerVars, queue, entries, callables, built, delivered, torn,
                   created, closed, revoked, proxies, sent, call>>

\* The end of the round: it waits on when the look found nothing.
await_look(i) ==
    /\ main = [pc |-> "await", i |-> i]
    /\ main' = IF call'[i].state = "waiting" THEN [pc |-> "invoke", i |-> i] ELSE InLoop
    /\ UNCHANGED <<schedulerVars, workerVars, created, closed, revoked, sent>>

MainStep ==
    \/ \E c \in Compartments :
        \/ Compartment(c) \/ send(c) \/ close(c)
        \/ \E i \in Calls : request(c, i) \/ importValue(c, i)
    \/ CompartmentReturns
    \/ \E p \in proxies, i \in Calls : invoke(p, i)
    \/ \E i \in Calls :
        \/ poll(i) \/ await_callable_proxy_reply(i)
        \/ (Received(i) \/ Expired(i) \/ Empty(i)) /\ poll_look(i)
        \/ (Received(i) \/ Overdue(i) \/ Empty(i)) /\ await_look(i)
-----------------------------------------------------------------------------
(* The worker threads. *)

\* Mistake: a job that returns no proxy does not reply.
Reply_proxies_only(j, r) ==
    call' = IF r # NoProxy /\ j.id # NoCall /\ call[j.id].state = "waiting"
            THEN [call EXCEPT ![j.id] = [state |-> "replied", reply |-> r]]
            ELSE call

\* Sending on a reply channel whose receiver gave up is ignored.
Reply(j, r) ==
    call' = IF j.id # NoCall /\ call[j.id].state = "waiting"
            THEN [call EXCEPT ![j.id] = [state |-> "replied", reply |-> r]]
            ELSE call

\* Whether worker w has what job j needs: deliver_to_compartment and
\* request_from_compartment look up the entry, an invoke its binding.
Finds(w, j) ==
    CASE j.kind \in {"send", "request"} -> j.c \in entries[w]
      [] j.kind = "invoke" -> j.arg < Len(callables[w][j.c])
      [] OTHER -> TRUE

\* A worker takes its next job.  A job whose target is gone only replies, and a
\* teardown is done at once: the entry and the callables go.
Begin(w) ==
    LET j == Head(queue[w]) IN
    /\ run[w] = Idle /\ queue[w] # <<>>
    /\ queue' = [queue EXCEPT ![w] = Tail(@)]
    /\ IF j.kind # "teardown" /\ Finds(w, j)
       THEN run' = [run EXCEPT ![w] = [pc |-> "run", job |-> j]] /\ UNCHANGED call
       ELSE UNCHANGED run /\ Reply(j, NoProxy)
    /\ IF j.kind \in {"send", "request"} /\ Finds(w, j)
       THEN delivered' = [delivered EXCEPT ![j.c] = Append(@, j.arg)]
       ELSE UNCHANGED delivered
    /\ IF j.kind = "teardown"
       THEN /\ entries' = [entries EXCEPT ![w] = @ \ {j.c}]
            /\ callables' = [callables EXCEPT ![w][j.c] = <<>>]
            /\ torn' = torn \cup {j.c}
       ELSE UNCHANGED <<entries, callables, torn>>
    /\ UNCHANGED <<schedulerVars, mainVars, built>>

\* __cruft_hostCall: the worker sends its question and waits for the answer.
\* Code of the compartment runs in every job but an import; bound: one host
\* call per job.
hostCall(w) ==
    /\ run[w].pc = "run" /\ run[w].job.kind # "import"
    /\ run' = [run EXCEPT ![w] = [pc |-> "host", job |-> @.job]]
    /\ UNCHANGED <<schedulerVars, mainVars, queue, entries, callables, built, delivered, torn, call>>

\* Mistake: the registry is replaced, not extended.
End_fresh_registry(w, value) ==
    LET j == run[w].job
    IN
    /\ run[w].pc \in {"run", "answered"}
    /\ run' = [run EXCEPT ![w] = Idle]
    /\ IF j.kind = "create"
       THEN /\ value = NoFun
            /\ entries' = [entries EXCEPT ![w] = @ \cup {j.c}]
            /\ built' = built \cup {j.c}
       ELSE UNCHANGED <<entries, built>>
    /\ IF value # NoFun /\ j.id # NoCall
       THEN /\ callables' = [callables EXCEPT ![w][j.c] = <<value>>]
            /\ Reply(j, {[c |-> j.c, binding |-> 0, fun |-> value]})
       ELSE UNCHANGED callables /\ value = NoFun /\ Reply(j, NoProxy)
    /\ UNCHANGED <<schedulerVars, mainVars, queue, delivered, torn>>

\* The job ends.  Its value, if it is a function, goes into the compartment's
\* registry, which is made anew if there is none.
End(w, value) ==
    LET j == run[w].job
        registry == callables[w][j.c]
    IN
    /\ run[w].pc \in {"run", "answered"}
    /\ run' = [run EXCEPT ![w] = Idle]
    /\ IF j.kind = "create"
       THEN /\ value = NoFun
            /\ entries' = [entries EXCEPT ![w] = @ \cup {j.c}]
            /\ built' = built \cup {j.c}
       ELSE UNCHANGED <<entries, built>>
    /\ IF value # NoFun /\ j.id # NoCall
       THEN /\ Len(registry) < MaxBindings
            /\ callables' = [callables EXCEPT ![w][j.c] = Append(@, value)]
            /\ Reply(j, {[c |-> j.c, binding |-> Len(registry), fun |-> value]})
       ELSE UNCHANGED callables /\ value = NoFun /\ Reply(j, NoProxy)
    /\ UNCHANGED <<schedulerVars, mainVars, queue, delivered, torn>>

WorkerStep ==
    \E w \in Workers :
        \/ Begin(w) \/ hostCall(w)
        \/ \E value \in Funs \cup {NoFun} : End(w, value)

Next == MainStep \/ WorkerStep

Spec == Init /\ [][Next]_vars

\* The main thread goes on, and its event loop, a queue, comes to every poll.
MainFairness ==
    /\ WF_vars(CompartmentReturns)
    /\ \A i \in Calls :
        /\ SF_vars(poll(i))
        /\ WF_vars((Received(i) \/ Expired(i) \/ Empty(i)) /\ poll_look(i))
        /\ WF_vars(await_callable_proxy_reply(i))
        /\ WF_vars((Received(i) \/ Overdue(i) \/ Empty(i)) /\ await_look(i))

MainSpec == Spec /\ MainFairness

\* The clock reaches every deadline; the workers may never end a job.
DeadlinesPass ==
    \A i \in Calls : SF_vars(Expired(i) /\ poll_look(i)) /\ SF_vars(Overdue(i) /\ await_look(i))

\* The workers run, and a job ends unless it waits for a host call; deadlines
\* may be far away.
WorkersRun ==
    \A w \in Workers :
        /\ WF_vars(Begin(w))
        /\ WF_vars(\E value \in Funs \cup {NoFun} : End(w, value))

WorkerSpec == MainSpec /\ WorkersRun
-----------------------------------------------------------------------------
Run ==
    {Idle} \cup [pc : {"run", "host"}, job : Job]
           \cup [pc : {"answered"}, job : Job, answer : {"denied", "handled"}]
Progress ==
    [state : {"unused", "waiting", "settled", "expired"}]
        \cup [state : {"replied"}, reply : SUBSET Proxy]

TypeOK ==
    /\ S!TypeOK
    /\ queue \in [Workers -> Seq(Job)]
    /\ run \in [Workers -> Run]
    /\ entries \in [Workers -> SUBSET Compartments]
    /\ callables \in [Workers -> [Compartments -> Seq(Funs)]]
    /\ call \in [Calls -> Progress]
    /\ proxies \subseteq Proxy
    /\ created \subseteq Compartments
    /\ sent \in [Compartments -> Nat]
    /\ delivered \in [Compartments -> Seq(Nat)]

IsMessage(j) == j.kind \in {"send", "request"}

\* The mailbox of the worker of c, and where messages for c are in it.
Mailbox(c) == IF affinity[c] = S!NoWorker THEN <<>> ELSE queue[affinity[c]]
Queued(c) == {n \in DOMAIN Mailbox(c) : Mailbox(c)[n].c = c /\ IsMessage(Mailbox(c)[n])}

\* Messages reach a compartment in the order they were sent, each once, and
\* none is dropped, whatever else its worker is doing: the first ones sent were
\* delivered in order, and the others are queued in order.
MessagesInOrder ==
    \A c \in Compartments :
        LET reached == Len(delivered[c]) IN
        /\ reached <= sent[c] /\ \A n \in 1 .. reached : delivered[c][n] = n
        /\ {Mailbox(c)[n].arg : n \in Queued(c)} = reached + 1 .. sent[c]
        /\ \A m, n \in Queued(c) : m < n => Mailbox(c)[m].arg < Mailbox(c)[n].arg

\* A compartment lives on one worker: its entry, its callables and its code are
\* nowhere else, so one thread at a time runs it.
OneWorkerPerCompartment ==
    \A c \in Compartments, w \in Workers :
        \/ c \in entries[w] \/ callables[w][c] # <<>>
        \/ run[w] # Idle /\ run[w].job.c = c
        => affinity[c] = w

\* Closing is the last thing that happens to a compartment: when its teardown
\* has run, every message sent before was delivered, and no handler runs again.
TeardownIsLast ==
    \A c \in torn :
        /\ Len(delivered[c]) = sent[c]
        /\ \A w \in Workers : c \notin entries[w]
                /\ (run[w] # Idle => run[w].job.c # c \/ ~IsMessage(run[w].job))

\* The proxies the main thread holds, and those that replies bring.
Carried ==
    proxies \cup UNION {call[i].reply : i \in {k \in Calls : call[k].state = "replied"}}

\* Every proxy handed out or on its way, as long as its compartment is open,
\* is bound to the function it was made for.
OpenProxiesBound ==
    \A p \in Carried :
        p.c \notin closed =>
            LET registry == callables[affinity[p.c]][p.c]
            IN p.binding < Len(registry) /\ registry[p.binding + 1] = p.fun

\* A call through a proxy runs the function the proxy was made for or fails.
ProxyNeverMisdirected ==
    \A p \in proxies :
        LET registry == callables[affinity[p.c]][p.c]
        IN p.binding < Len(registry) => registry[p.binding + 1] = p.fun

\* The handler of a host call does not run once the compartment was closed,
\* also when the call was under way before.
ClosedCallsDenied ==
    [][\A w \in Workers :
        run[w].pc = "host" /\ run'[w].pc = "answered" /\ run'[w].answer = "handled"
            => run[w].job.c \notin closed]_vars

\* The jobs that are to reply to call i: queued, or with 0 for the place, running.
Owing(i) ==
    {x \in UNION {{w} \X (0 .. Len(queue[w])) : w \in Workers} :
        LET w == x[1]  n == x[2] IN
        IF n = 0 THEN run[w] # Idle /\ run[w].job.id = i ELSE queue[w][n].id = i}

\* A call that waits has exactly one job left to reply to it, whatever was closed
\* since, and one that has its reply has none: every way through a request, an
\* import or an invoke replies, and replies once.  A call that gave up leaves at
\* most its own job behind, so the late reply is for no other call.
RepliesOwed ==
    \A i \in Calls :
        LET n == Cardinality(Owing(i)) IN
        CASE call[i].state = "waiting" -> n = 1
          [] call[i].state = "expired" -> n <= 1
          [] OTHER -> n = 0

\* The constructor never returns: its worker waits for the main thread, or runs
\* code that does not end.
Hung == [](main.pc = "create")

\* Every promise of a request or an import settles, and every call of a proxy
\* returns, when its deadline passes at the latest, though the compartment's code
\* runs for ever: unless the main thread waits in a constructor for ever.
CallsSettle ==
    DeadlinesPass => \A i \in Calls :
        (call[i].state = "waiting") ~> (call[i].state \in {"settled", "expired"} \/ Hung)

\* No deadline is needed when the compartments' code ends: main thread and
\* workers wait for each other (requests behind host calls of other jobs, proxies
\* called while another compartment is in a host call, closing under way), and
\* every reply still comes, because every wait but the constructor's answers the
\* host calls.
RepliesCome ==
    WorkersRun /\ [](\A i \in Calls : call[i].state # "expired")
        => \A i \in Calls : (call[i].state = "waiting") ~> (call[i].state = "settled" \/ Hung)

\* A host call returns, with a result or, once its compartment is closed, with a
\* structured failure.
HostCallReturns ==
    \A w \in Workers : (run[w].pc = "host") ~> (run[w].pc # "host")
=============================================================================
