--------------------------- MODULE WorkerHostProofs ---------------------------
(***************************************************************************)
(* Worker-hosted compartments, for any number of workers, compartments,    *)
(* replies and messages: messages arrive in order, a compartment stays on  *)
(* one worker, nothing follows its teardown, the proxies of open           *)
(* compartments are bound, a closed compartment's host calls are denied,   *)
(* and the scheduler's table changes only as the scheduler does it.        *)
(***************************************************************************)
EXTENDS WorkerHost, TLAPS

\* The life of a compartment: only the one the main thread waits for is not yet
\* built, it is closed after it was built and torn down after it was closed, and
\* its entry and callables are at its worker.
LifeInv ==
    /\ \A c \in created : c \in built \/ (main.pc = "create" /\ main.c = c)
    /\ \A c \in created : affinity[c] \in Workers
    /\ built \subseteq created /\ closed \subseteq built /\ torn \subseteq closed
    /\ revoked = closed
    /\ \A c \in built \ torn : c \in entries[affinity[c]]
    /\ \A w \in Workers : \A c \in entries[w] : affinity[c] = w /\ c \in built \ torn
    /\ \A w \in Workers, c \in Compartments : callables[w][c] # <<>> => affinity[c] = w

\* A job of worker w is for a compartment of w, in the right part of its life.
JobOK(w, j) ==
    /\ j.c \in created /\ affinity[j.c] = w
    /\ j.kind = "create" => j.c \notin built
    /\ j.kind = "teardown" => j.c \in closed
    /\ IsMessage(j) => j.c \in built \ torn

\* The job that creates a compartment is its first, and no message of a
\* compartment follows its teardown.
Follows(i, j) ==
    i.c = j.c => j.kind # "create" /\ (i.kind = "teardown" => ~IsMessage(j))

JobsInv ==
    /\ \A w \in Workers :
        /\ \A n \in DOMAIN queue[w] : JobOK(w, queue[w][n])
        /\ run[w] # Idle => JobOK(w, run[w].job)
    /\ \A w \in Workers : \A m, n \in DOMAIN queue[w] :
            m < n => Follows(queue[w][m], queue[w][n])
    /\ \A w \in Workers : run[w] # Idle =>
            \A n \in DOMAIN queue[w] : Follows(run[w].job, queue[w][n])

\* MessagesInOrder, said of the mailboxes one by one.
NumberInv ==
    /\ \A c \in Compartments :
        /\ Len(delivered[c]) <= sent[c]
        /\ \A n \in 1 .. Len(delivered[c]) : delivered[c][n] = n
        /\ \A k \in Len(delivered[c]) + 1 .. sent[c] :
            \E w \in Workers : \E n \in DOMAIN queue[w] :
                queue[w][n].c = c /\ IsMessage(queue[w][n]) /\ queue[w][n].arg = k
    /\ \A w \in Workers : \A n \in DOMAIN queue[w] : IsMessage(queue[w][n]) =>
            queue[w][n].arg \in Len(delivered[queue[w][n].c]) + 1 .. sent[queue[w][n].c]
    /\ \A w \in Workers : \A m, n \in DOMAIN queue[w] :
            m < n /\ queue[w][m].c = queue[w][n].c /\ IsMessage(queue[w][m]) /\ IsMessage(queue[w][n])
                => queue[w][m].arg < queue[w][n].arg

ProxyInv ==
    /\ \A p \in Carried : p.c \in created
    /\ OpenProxiesBound

HostInv == TypeOK /\ LifeInv /\ JobsInv /\ NumberInv /\ ProxyInv
-----------------------------------------------------------------------------
\* The search of Scheduler::assign finds a worker; shown below from the results
\* about the scheduler.
SearchFindsWorker == S!TypeOK => S!Best \in S!Workers

\* Scheduler::assign gives every compartment a worker and keeps the table's type.
LEMMA Assigned ==
    ASSUME SearchFindsWorker, S!TypeOK, NEW c \in Compartments, S!assign(c)
    PROVE  /\ S!TypeOK'
           /\ S!worker_for(c) \in Workers /\ affinity'[c] = S!worker_for(c)
           /\ affinity[c] \in Workers => affinity'[c] = affinity[c]
           /\ \A d \in Compartments : d # c => affinity'[d] = affinity[d]
<1>0. N \in Nat \ {0} BY HostAssumption, Zenon
<1>1. S!Best \in S!Workers BY Zenon DEF SearchFindsWorker
<1>2. S!worker_for(c) \in S!Workers BY <1>1, Zenon DEF S!worker_for, S!TypeOK
<1>3. (S!Best + 1) % N \in S!Workers BY <1>0, <1>1 DEF S!Workers
<1>4. \A w \in S!Workers : w # S!NoWorker BY <1>0 DEF S!Workers, S!NoWorker
<1>5. S!TypeOK' BY <1>1, <1>2, <1>3 DEF S!assign, S!TypeOK
<1> QED BY <1>2, <1>4, <1>5, Zenon DEF S!assign, S!TypeOK, Workers, S!worker_for
-----------------------------------------------------------------------------
(* What the steps change. *)

\* A mailbox is a sequence of jobs.
LEMMA Mailboxes ==
    ASSUME TypeOK, NEW w \in Workers
    PROVE  /\ queue[w] \in Seq(Job)
           /\ Len(queue[w]) \in Nat /\ DOMAIN queue[w] = 1 .. Len(queue[w])
           /\ \A n \in DOMAIN queue[w] : queue[w][n] \in Job
<1>1. queue[w] \in Seq(Job) BY Zenon DEF TypeOK
<1> QED BY <1>1

\* A job and its fields.
LEMMA JobFields ==
    ASSUME NEW j \in Job
    PROVE  j.kind \in Kinds /\ j.c \in Compartments /\ j.id \in Calls \cup {NoCall} /\ j.arg \in Nat
BY Zenon DEF Job

\* WorkerPool::submit puts one job at the end of one mailbox.
LEMMA Submitted ==
    ASSUME SearchFindsWorker, TypeOK, NEW kind, NEW c \in Compartments, NEW id, NEW arg,
           submit(kind, c, id, arg), [kind |-> kind, c |-> c, id |-> id, arg |-> arg] \in Job
    PROVE  LET w == affinity'[c] IN
           /\ w \in Workers /\ (affinity[c] \in Workers => affinity[c] = w)
           /\ \A d \in Compartments : d # c => affinity'[d] = affinity[d]
           /\ S!TypeOK' /\ queue' \in [Workers -> Seq(Job)]
           /\ DOMAIN queue'[w] = 1 .. Len(queue[w]) + 1
           /\ \A n \in DOMAIN queue[w] : queue'[w][n] = queue[w][n]
           /\ queue'[w][Len(queue[w]) + 1] = [kind |-> kind, c |-> c, id |-> id, arg |-> arg]
           /\ \A v \in Workers : v # w => queue'[v] = queue[v]
<1> DEFINE w == affinity'[c]
           job == [kind |-> kind, c |-> c, id |-> id, arg |-> arg]
<1>1. S!TypeOK /\ S!assign(c) BY Zenon DEF TypeOK, submit
<1>2. /\ w \in Workers /\ w = S!worker_for(c) /\ (affinity[c] \in Workers => affinity[c] = w)
      /\ \A d \in Compartments : d # c => affinity'[d] = affinity[d]
      /\ S!TypeOK'
  BY <1>1, Assigned, Zenon
<1>3. queue' = [queue EXCEPT ![w] = Append(@, job)] BY <1>2, Zenon DEF submit
<1> HIDE DEF w, job
<1>4. queue'[w] = Append(queue[w], job) /\ \A v \in Workers : v # w => queue'[v] = queue[v]
  BY <1>2, <1>3, Zenon DEF TypeOK
<1>5. job \in Job BY Zenon DEF job
<1>6. Append(queue[w], job) \in Seq(Job) BY <1>2, <1>5, Mailboxes
<1>7. queue' \in [Workers -> Seq(Job)] BY <1>2, <1>3, <1>6, Zenon DEF TypeOK
<1>8. /\ DOMAIN queue'[w] = 1 .. Len(queue[w]) + 1
      /\ \A n \in DOMAIN queue[w] : queue'[w][n] = queue[w][n]
      /\ queue'[w][Len(queue[w]) + 1] = job
  BY <1>2, <1>4, <1>5, Mailboxes
<1> QED BY <1>2, <1>4, <1>7, <1>8, Zenon DEF w, job

\* A worker takes the first job of its mailbox.
LEMMA Taken ==
    ASSUME TypeOK, NEW w \in Workers, Begin(w)
    PROVE  /\ queue' \in [Workers -> Seq(Job)]
           /\ 1 \in DOMAIN queue[w] /\ Head(queue[w]) = queue[w][1]
           /\ DOMAIN queue'[w] = 1 .. Len(queue[w]) - 1
           /\ \A n \in DOMAIN queue'[w] : n + 1 \in DOMAIN queue[w] /\ queue'[w][n] = queue[w][n + 1]
           /\ \A v \in Workers : v # w => queue'[v] = queue[v]
<1>1. queue[w] # <<>> /\ queue' = [queue EXCEPT ![w] = Tail(@)] BY Zenon DEF Begin
<1>2. queue[w] \in Seq(Job) BY Mailboxes, Zenon
<1>3. queue'[w] = Tail(queue[w]) /\ \A v \in Workers : v # w => queue'[v] = queue[v]
  BY <1>1, Zenon DEF TypeOK
<1>4. Tail(queue[w]) \in Seq(Job) BY <1>1, <1>2
<1>5. queue' \in [Workers -> Seq(Job)] BY <1>1, <1>4, Zenon DEF TypeOK
<1>6. /\ 1 \in DOMAIN queue[w] /\ Head(queue[w]) = queue[w][1]
      /\ DOMAIN Tail(queue[w]) = 1 .. Len(queue[w]) - 1
      /\ \A n \in 1 .. Len(queue[w]) - 1 : n + 1 \in DOMAIN queue[w] /\ Tail(queue[w])[n] = queue[w][n + 1]
  BY <1>1, <1>2
<1> QED BY <1>3, <1>5, <1>6, Zenon
-----------------------------------------------------------------------------
\* A main-thread operation that sends a job.
Submits(kind, c, id, arg) ==
    /\ c \in Compartments /\ [kind |-> kind, c |-> c, id |-> id, arg |-> arg] \in Job
    /\ submit(kind, c, id, arg)
    /\ main = InLoop
    /\ IF kind = "create" THEN c \notin created /\ main' = [pc |-> "create", c |-> c]
                          ELSE c \in created
    /\ created' = created \cup {c}
    /\ closed' = closed \cup (IF kind = "teardown" THEN {c} ELSE {})
    /\ revoked' = revoked \cup (IF kind = "teardown" THEN {c} ELSE {})
    /\ IF kind \in {"send", "request"}
       THEN c \notin closed /\ arg = sent[c] + 1 /\ sent' = [sent EXCEPT ![c] = arg]
       ELSE sent' = sent
    /\ proxies' = proxies
    /\ call' = call \/ \E i \in Calls : call' = [call EXCEPT ![i] = [state |-> "waiting"]]

SameJobs ==
    \A w \in Workers :
        IF run[w] = Idle THEN run'[w] = Idle ELSE run'[w] # Idle /\ run'[w].job = run[w].job

\* A step that neither sends, begins nor ends a job.
Quiet ==
    /\ UNCHANGED <<schedulerVars, queue, entries, callables, built, delivered, torn,
                   created, closed, revoked, sent>>
    /\ run' \in [Workers -> Run] /\ SameJobs
    /\ main' = main \/ main.pc # "create" \/ main.c \in built
    /\ call' \in [Calls -> Progress] /\ Carried' \subseteq Carried

\* A look at a reply channel takes a proxy over or leaves it.
LEMMA Looked ==
    ASSUME TypeOK, NEW i \in Calls, Received(i) \/ Expired(i) \/ Empty(i) \/ Overdue(i)
    PROVE  call' \in [Calls -> Progress] /\ Carried' \subseteq Carried
<1>1. [state |-> "settled"] \in Progress /\ [state |-> "expired"] \in Progress BY Zenon DEF Progress
<1>2. call' \in [Calls -> Progress]
  BY <1>1, Zenon DEF Received, Expired, Empty, Overdue, TypeOK
<1>3. \A k \in Calls : call'[k].state = "replied" => call'[k] = call[k]
  BY DEF Received, Expired, Empty, Overdue, TypeOK
<1>4. \A p \in proxies' : p \in Carried
  BY Zenon DEF Received, Expired, Empty, Overdue, Carried
<1>5. \A p \in Carried' : p \in Carried BY <1>3, <1>4, Zenon DEF Carried
<1> QED BY <1>2, <1>5, Zenon

\* What a step of the run state leaves of the jobs.
LEMMA RunForms ==
    ASSUME TypeOK, NEW w \in Workers
    PROVE  /\ run[w] = Idle => run[w].pc = "idle"
           /\ run[w] # Idle => run[w].pc \in {"run", "host", "answered"} /\ run[w].job \in Job
BY DEF TypeOK, Run, Idle

\* Answering the host calls leaves every worker in its job.
LEMMA Drained ==
    ASSUME TypeOK, drain_worker_host_calls
    PROVE  run' \in [Workers -> Run] /\ SameJobs
<1>1. ASSUME NEW w \in Workers
      PROVE  /\ run'[w] \in Run
             /\ IF run[w] = Idle THEN run'[w] = Idle ELSE run'[w] # Idle /\ run'[w].job = run[w].job
  <2> DEFINE answer == IF run[w].job.c \in revoked THEN "denied" ELSE "handled"
  <2>1. CASE run[w].pc = "host"
    <3>1. run'[w] = [pc |-> "answered", job |-> run[w].job, answer |-> answer]
      BY <2>1, Zenon DEF drain_worker_host_calls
    <3>2. run[w] # Idle /\ run[w].job \in Job BY <2>1, RunForms, Zenon
    <3>3. run'[w] # Idle
      <4>1. run'[w].pc = "answered" /\ Idle.pc = "idle" BY <3>1 DEF Idle
      <4> QED BY <4>1, Zenon
    <3>4. answer \in {"denied", "handled"} BY Zenon
    <3> HIDE DEF answer
    <3>5. run'[w] \in Run BY <3>1, <3>2, <3>4 DEF Run
    <3> QED BY <3>1, <3>2, <3>3, <3>5
  <2>2. CASE run[w].pc # "host"
    <3>1. run'[w] = run[w] BY <2>2, Zenon DEF drain_worker_host_calls
    <3> QED BY <3>1, Zenon DEF TypeOK
  <2> QED BY <2>1, <2>2, Zenon
<1>2. run' = [w \in Workers |-> run'[w]] BY Zenon DEF drain_worker_host_calls
<1> QED BY <1>1, <1>2, Zenon DEF SameJobs

\* __cruft_hostCall leaves the worker in its job.
LEMMA HostCalled ==
    ASSUME TypeOK, NEW w \in Workers, hostCall(w)
    PROVE  Quiet
<1>1. run[w].pc = "run" /\ run' = [run EXCEPT ![w] = [pc |-> "host", job |-> run[w].job]]
  BY Zenon DEF hostCall
<1>2. run[w] # Idle /\ run[w].job \in Job BY <1>1, RunForms, Zenon
<1>3. [pc |-> "host", job |-> run[w].job] \in Run BY <1>2, Zenon DEF Run
<1>4. run' \in [Workers -> Run] BY <1>1, <1>3, Zenon DEF TypeOK
<1>5. run'[w] = [pc |-> "host", job |-> run[w].job] BY <1>1, Zenon DEF TypeOK
<1>6. run'[w] # Idle
  <2>1. run'[w].pc = "host" /\ Idle.pc = "idle" BY <1>5 DEF Idle
  <2> QED BY <2>1, Zenon
<1>7. \A v \in Workers : v # w => run'[v] = run[v] BY <1>1, Zenon DEF TypeOK
<1>8. SameJobs BY <1>2, <1>5, <1>6, <1>7 DEF SameJobs
<1>9. UNCHANGED <<call, proxies, main>> BY Zenon DEF hostCall, mainVars
<1>10. Carried' = Carried BY <1>9, Zenon DEF Carried
<1> QED BY <1>4, <1>8, <1>9, <1>10, Zenon DEF Quiet, hostCall, mainVars, TypeOK

\* The steps of the main thread.
LEMMA MainSteps ==
    ASSUME TypeOK, ProxyInv, MainStep
    PROVE  Quiet \/ \E kind, c, id, arg : Submits(kind, c, id, arg)
<1>0. main = InLoop => main.pc = "loop" BY DEF InLoop
<1>1. ASSUME NEW c \in Compartments, Compartment(c)
      PROVE  Submits("create", c, NoCall, 0)
  <2>1. [kind |-> "create", c |-> c, id |-> NoCall, arg |-> 0] \in Job BY Zenon DEF Job, Kinds
  <2> QED BY <1>1, <2>1, Zenon DEF Compartment, Submits
<1>2. ASSUME NEW c \in Compartments, send(c)
      PROVE  Submits("send", c, NoCall, sent[c] + 1)
  <2>1. sent[c] + 1 \in Nat /\ sent' = [sent EXCEPT ![c] = sent[c] + 1] /\ sent'[c] = sent[c] + 1
    BY <1>2 DEF send, TypeOK
  <2>2. [kind |-> "send", c |-> c, id |-> NoCall, arg |-> sent[c] + 1] \in Job
    BY <2>1, Zenon DEF Job, Kinds
  <2>3. submit("send", c, NoCall, sent[c] + 1) BY <1>2, <2>1, Zenon DEF send
  <2> QED BY <1>2, <2>1, <2>2, <2>3, Zenon DEF send, Submits
<1>3. ASSUME NEW c \in Compartments, NEW i \in Calls, request(c, i)
      PROVE  Submits("request", c, i, sent[c] + 1)
  <2>1. sent[c] + 1 \in Nat /\ sent' = [sent EXCEPT ![c] = sent[c] + 1] /\ sent'[c] = sent[c] + 1
    BY <1>3 DEF request, TypeOK
  <2>2. [kind |-> "request", c |-> c, id |-> i, arg |-> sent[c] + 1] \in Job
    BY <2>1, Zenon DEF Job, Kinds
  <2>3. submit("request", c, i, sent[c] + 1) BY <1>3, <2>1, Zenon DEF request
  <2> QED BY <1>3, <2>1, <2>2, <2>3, Zenon DEF request, Submits, Waits
<1>4. ASSUME NEW c \in Compartments, NEW i \in Calls, importValue(c, i)
      PROVE  Submits("import", c, i, 0)
  <2>1. [kind |-> "import", c |-> c, id |-> i, arg |-> 0] \in Job BY Zenon DEF Job, Kinds
  <2> QED BY <1>4, <2>1, Zenon DEF importValue, Submits, Waits, mainVars
<1>5. ASSUME NEW p \in proxies, NEW i \in Calls, invoke(p, i)
      PROVE  Submits("invoke", p.c, i, p.binding)
  <2>1. p.c \in created BY Zenon DEF ProxyInv, Carried
  <2>2. p \in Proxy BY Zenon DEF TypeOK
  <2>3. p.c \in Compartments /\ p.binding \in Nat BY <2>2, Zenon DEF Proxy
  <2>4. [kind |-> "invoke", c |-> p.c, id |-> i, arg |-> p.binding] \in Job
    BY <2>3, Zenon DEF Job, Kinds
  <2> QED BY <1>5, <2>1, <2>3, <2>4, Zenon DEF invoke, Submits, Waits
<1>6. ASSUME NEW c \in Compartments, close(c)
      PROVE  Submits("teardown", c, NoCall, 0)
  <2>1. [kind |-> "teardown", c |-> c, id |-> NoCall, arg |-> 0] \in Job BY Zenon DEF Job, Kinds
  <2> QED BY <1>6, <2>1, Zenon DEF close, Submits
<1>7. ASSUME CompartmentReturns
      PROVE  Quiet
  <2>1. UNCHANGED <<call, proxies, run>> BY <1>7, Zenon DEF CompartmentReturns, workerVars
  <2>2. Carried' = Carried BY <2>1, Zenon DEF Carried
  <2>3. SameJobs BY <2>1, Zenon DEF SameJobs
  <2> QED BY <1>7, <2>1, <2>2, <2>3, Zenon DEF CompartmentReturns, workerVars, Quiet, TypeOK
<1>8. ASSUME NEW i \in Calls, poll(i) \/ await_callable_proxy_reply(i)
      PROVE  Quiet
  <2>1. UNCHANGED <<call, proxies>> /\ drain_worker_host_calls
    BY <1>8, Zenon DEF poll, await_callable_proxy_reply
  <2>2. Carried' = Carried BY <2>1, Zenon DEF Carried
  <2>3. main.pc # "create" BY <1>0, <1>8 DEF poll, await_callable_proxy_reply
  <2>4. UNCHANGED <<schedulerVars, queue, entries, callables, built, delivered, torn,
                    created, closed, revoked, sent>>
    BY <1>8, Zenon DEF poll, await_callable_proxy_reply
  <2> QED BY <2>1, <2>2, <2>3, <2>4, Drained, Zenon DEF Quiet, TypeOK
<1>9. ASSUME NEW i \in Calls, Received(i) \/ Expired(i) \/ Empty(i) \/ Overdue(i),
             poll_look(i) \/ await_look(i)
      PROVE  Quiet
  <2>1. UNCHANGED <<schedulerVars, workerVars, created, closed, revoked, sent>> /\ main.pc # "create"
    BY <1>9 DEF poll_look, await_look
  <2>2. SameJobs BY <2>1, Zenon DEF SameJobs, workerVars
  <2> QED BY <1>9, <2>1, <2>2, Looked, Zenon DEF Quiet, workerVars, TypeOK
<1> QED BY <1>1, <1>2, <1>3, <1>4, <1>5, <1>6, <1>7, <1>8, <1>9, Zenon DEF MainStep

\* Every step sends, begins or ends a job, or is quiet.
LEMMA Steps ==
    ASSUME TypeOK, ProxyInv, [Next]_vars
    PROVE  \/ Quiet
           \/ \E kind, c, id, arg : Submits(kind, c, id, arg)
           \/ \E w \in Workers : Begin(w) \/ \E value \in Funs \cup {NoFun} : End(w, value)
<1>1. ASSUME UNCHANGED vars
      PROVE  Quiet
  <2>1. Carried' = Carried BY <1>1, Zenon DEF Carried, vars, mainVars
  <2> QED BY <1>1, <2>1, Zenon DEF Quiet, SameJobs, vars, mainVars, workerVars, TypeOK
<1> QED BY <1>1, MainSteps, HostCalled, Zenon DEF Next, WorkerStep

\* A reply brings the proxies it carries, and no others.
LEMMA Replied ==
    ASSUME TypeOK, NEW j \in Job, NEW r \in SUBSET Proxy, Reply(j, r), UNCHANGED proxies
    PROVE  call' \in [Calls -> Progress] /\ Carried' \subseteq Carried \cup r
<1>1. CASE j.id # NoCall /\ call[j.id].state = "waiting"
  <2>1. j.id \in Calls BY <1>1, JobFields, Zenon
  <2>2. call' = [call EXCEPT ![j.id] = [state |-> "replied", reply |-> r]] BY <1>1, Zenon DEF Reply
  <2>3. [state |-> "replied", reply |-> r] \in Progress BY Zenon DEF Progress
  <2>4. call' \in [Calls -> Progress] BY <2>1, <2>2, <2>3, Zenon DEF TypeOK
  <2>5. \A k \in Calls : IF k = j.id THEN call'[k].reply = r ELSE call'[k] = call[k]
    BY <2>1, <2>2, Zenon DEF TypeOK
  <2>6. \A p \in Carried' : p \in Carried \cup r BY <2>5 DEF Carried
  <2> QED BY <2>4, <2>6, Zenon
<1>2. CASE ~(j.id # NoCall /\ call[j.id].state = "waiting")
  <2>1. call' = call BY <1>2, Zenon DEF Reply
  <2> QED BY <2>1 DEF TypeOK, Carried
<1> QED BY <1>1, <1>2, Zenon

\* What the end of a job does.
LEMMA Ended ==
    ASSUME TypeOK, NEW w \in Workers, NEW value \in Funs \cup {NoFun}, End(w, value)
    PROVE  LET j == run[w].job
               new == [c |-> j.c, binding |-> Len(callables[w][j.c]), fun |-> value]
           IN
           /\ run[w] # Idle /\ j \in Job /\ run' \in [Workers -> Run]
           /\ run'[w] = Idle /\ \A v \in Workers : v # w => run'[v] = run[v]
           /\ entries' \in [Workers -> SUBSET Compartments]
           /\ callables' \in [Workers -> [Compartments -> Seq(Funs)]]
           /\ call' \in [Calls -> Progress]
           /\ \/ callables' = callables /\ Carried' \subseteq Carried
              \/ /\ value \in Funs /\ j.kind # "create"
                 /\ callables'[w][j.c] = Append(callables[w][j.c], value)
                 /\ \A v \in Workers, d \in Compartments : v # w \/ d # j.c => callables'[v][d] = callables[v][d]
                 /\ Carried' \subseteq Carried \cup {new}
<1> DEFINE j == run[w].job
           registry == callables[w][j.c]
           new == [c |-> j.c, binding |-> Len(registry), fun |-> value]
<1>1. run[w].pc \in {"run", "answered"} /\ run' = [run EXCEPT ![w] = Idle] /\ UNCHANGED proxies
  BY Zenon DEF End, mainVars
<1>2. run[w] # Idle /\ j \in Job BY <1>1, RunForms, Zenon
<1>3. Idle \in Run BY Zenon DEF Run
<1>4. run' \in [Workers -> Run] /\ run'[w] = Idle /\ \A v \in Workers : v # w => run'[v] = run[v]
  BY <1>1, <1>3, Zenon DEF TypeOK
<1>5. j.c \in Compartments BY <1>2, JobFields, Zenon
<1>6. entries' \in [Workers -> SUBSET Compartments]
  <2>1. entries' = entries \/ entries' = [entries EXCEPT ![w] = @ \cup {j.c}] BY Zenon DEF End
  <2>2. entries \in [Workers -> SUBSET Compartments] BY Zenon DEF TypeOK
  <2>3. entries[w] \cup {j.c} \in SUBSET Compartments BY <1>5, <2>2, Zenon
  <2> HIDE DEF j
  <2> QED BY <2>1, <2>2, <2>3, Zenon
<1>7. registry \in Seq(Funs) BY <1>5 DEF TypeOK
<1>8. CASE value # NoFun /\ j.id # NoCall
  <2>1. value \in Funs BY <1>8, Zenon
  <2>2. /\ j.kind # "create"
        /\ callables' = [callables EXCEPT ![w][j.c] = Append(@, value)]
        /\ Reply(j, {new})
    BY <1>8, Zenon DEF End
  <2>3. Append(registry, value) \in Seq(Funs) BY <1>7, <2>1
  <2>4. new \in Proxy
    <3>1. Len(registry) \in Nat
      <4>1. \A q \in Seq(Funs) : Len(q) \in Nat OBVIOUS
      <4> QED BY <1>7, <4>1, Zenon
    <3> QED BY <1>5, <2>1, <3>1, Zenon DEF Proxy
  <2> HIDE DEF j, new
  <2>5. callables' \in [Workers -> [Compartments -> Seq(Funs)]]
    BY <1>5, <2>2, <2>3, Zenon DEF TypeOK
  <2>6. /\ callables'[w][j.c] = Append(callables[w][j.c], value)
        /\ \A v \in Workers, d \in Compartments : v # w \/ d # j.c => callables'[v][d] = callables[v][d]
    BY <1>5, <2>2, Zenon DEF TypeOK
  <2>7. call' \in [Calls -> Progress] /\ Carried' \subseteq Carried \cup {new}
    <3>1. {new} \in SUBSET Proxy BY <2>4, Zenon
    <3> QED BY <1>1, <1>2, <2>2, <3>1, Replied, Zenon
  <2> QED BY <1>2, <1>4, <1>6, <2>1, <2>2, <2>5, <2>6, <2>7, Zenon DEF j, new
<1>9. CASE ~(value # NoFun /\ j.id # NoCall)
  <2>1. callables' = callables /\ Reply(j, {}) BY <1>9, Zenon DEF End, NoProxy
  <2>2. call' \in [Calls -> Progress] /\ Carried' \subseteq Carried
    <3>1. {} \in SUBSET Proxy BY Zenon
    <3> HIDE DEF j
    <3>2. Carried' \subseteq Carried \cup {} /\ call' \in [Calls -> Progress]
      BY <1>1, <1>2, <2>1, <3>1, Replied, Zenon
    <3> QED BY <3>2, Zenon
  <2> QED BY <1>2, <1>4, <1>6, <2>1, <2>2, Zenon DEF TypeOK
<1> QED BY <1>8, <1>9, Zenon

\* What the begin of a job does.
LEMMA Begun ==
    ASSUME TypeOK, NEW w \in Workers, Begin(w)
    PROVE  LET j == queue[w][1]
           IN
           /\ j \in Job /\ run[w] = Idle /\ run' \in [Workers -> Run]
           /\ run'[w] = Idle \/ (run'[w] # Idle /\ run'[w].job = j /\ j.kind # "teardown" /\ Finds(w, j))
           /\ \A v \in Workers : v # w => run'[v] = run[v]
           /\ call' \in [Calls -> Progress] /\ Carried' \subseteq Carried
           /\ IF IsMessage(j) /\ j.c \in entries[w]
              THEN delivered' = [delivered EXCEPT ![j.c] = Append(@, j.arg)]
              ELSE delivered' = delivered
           /\ IF j.kind = "teardown"
              THEN /\ entries' = [entries EXCEPT ![w] = @ \ {j.c}]
                   /\ callables' = [callables EXCEPT ![w][j.c] = <<>>]
                   /\ torn' = torn \cup {j.c}
              ELSE UNCHANGED <<entries, callables, torn>>
<1> DEFINE j == queue[w][1]
<1>1. 1 \in DOMAIN queue[w] /\ Head(queue[w]) = j BY Taken, Zenon
<1>2. j \in Job BY <1>1, Mailboxes, Zenon
<1>3. run[w] = Idle /\ UNCHANGED proxies BY Zenon DEF Begin, mainVars
<1>4. CASE j.kind # "teardown" /\ Finds(w, j)
  <2>1. run' = [run EXCEPT ![w] = [pc |-> "run", job |-> j]] /\ UNCHANGED call
    BY <1>1, <1>4, Zenon DEF Begin
  <2>2. [pc |-> "run", job |-> j] \in Run BY <1>2, Zenon DEF Run
  <2>3. [pc |-> "run", job |-> j] # Idle
    <3> DEFINE r == [pc |-> "run", job |-> j]
    <3>1. r.pc = "run" /\ Idle.pc = "idle" BY Zenon DEF Idle
    <3> QED BY <3>1, Zenon
  <2> HIDE DEF j
  <2>4. run' \in [Workers -> Run] /\ run'[w] = [pc |-> "run", job |-> j] /\ \A v \in Workers : v # w => run'[v] = run[v]
    BY <2>1, <2>2, Zenon DEF TypeOK
  <2>5. Carried' = Carried BY <1>3, <2>1, Zenon DEF Carried
  <2>6. run'[w] # Idle /\ run'[w].job = j BY <2>3, <2>4
  <2> QED BY <1>1, <1>2, <1>3, <1>4, <2>1, <2>4, <2>5, <2>6, Zenon DEF Begin, Finds, IsMessage, j, TypeOK
<1>5. CASE ~(j.kind # "teardown" /\ Finds(w, j))
  <2>1. UNCHANGED run /\ Reply(j, {}) BY <1>1, <1>5, Zenon DEF Begin, NoProxy
  <2> HIDE DEF j
  <2>2. call' \in [Calls -> Progress] /\ Carried' \subseteq Carried
    <3>1. {} \in SUBSET Proxy BY Zenon
    <3>2. Carried' \subseteq Carried \cup {} /\ call' \in [Calls -> Progress]
      BY <1>2, <1>3, <2>1, <3>1, Replied, Zenon
    <3> QED BY <3>2, Zenon
  <2> QED BY <1>1, <1>2, <1>3, <1>5, <2>1, <2>2, Zenon DEF Begin, Finds, IsMessage, j, TypeOK
<1> QED BY <1>4, <1>5, Zenon

\* The types are kept.
LEMMA NextTypeOK ==
    ASSUME SearchFindsWorker, TypeOK, ProxyInv, LifeInv, [Next]_vars
    PROVE  TypeOK'
<1>0. \A p \in proxies' : p \in Carried' BY Zenon DEF Carried
<1>1. \A p \in Carried : p \in Proxy
  <2>1. ASSUME NEW i \in Calls, call[i].state = "replied" PROVE call[i].reply \in SUBSET Proxy
    <3>1. call[i] \in Progress BY Zenon DEF TypeOK
    <3> QED BY <2>1, <3>1, Zenon DEF Progress
  <2> QED BY <2>1 DEF Carried, TypeOK
<1>2. ASSUME Quiet PROVE TypeOK'
  <2>1. proxies' \subseteq Proxy BY <1>0, <1>1, <1>2, Zenon DEF Quiet
  <2>2. S!TypeOK' BY <1>2, Zenon DEF Quiet, schedulerVars, TypeOK, S!TypeOK
  <2> QED BY <1>2, <2>1, <2>2, Zenon DEF Quiet, TypeOK
<1>3. ASSUME NEW kind, NEW c, NEW id, NEW arg, Submits(kind, c, id, arg)
      PROVE  TypeOK'
  <2>1. /\ c \in Compartments /\ submit(kind, c, id, arg)
        /\ [kind |-> kind, c |-> c, id |-> id, arg |-> arg] \in Job
    BY <1>3, Zenon DEF Submits
  <2>2. S!TypeOK' /\ queue' \in [Workers -> Seq(Job)] BY <2>1, Submitted, Zenon
  <2>3. UNCHANGED <<run, entries, callables, delivered, proxies>> BY <1>3, Zenon DEF Submits, submit
  <2>4. sent' \in [Compartments -> Nat]
    <3>1. sent' = sent \/ sent' = [sent EXCEPT ![c] = sent[c] + 1] BY <1>3, Zenon DEF Submits
    <3>2. sent \in [Compartments -> Nat] /\ sent[c] + 1 \in Nat BY <2>1 DEF TypeOK
    <3> QED BY <3>1, <3>2, Zenon
  <2>5. call' \in [Calls -> Progress]
    <3>1. [state |-> "waiting"] \in Progress BY Zenon DEF Progress
    <3>2. call' = call \/ \E i \in Calls : call' = [call EXCEPT ![i] = [state |-> "waiting"]]
      BY <1>3, Zenon DEF Submits
    <3> QED BY <3>1, <3>2, Zenon DEF TypeOK
  <2>6. created' \subseteq Compartments BY <1>3, Zenon DEF Submits, TypeOK
  <2> QED BY <2>2, <2>3, <2>4, <2>5, <2>6, Zenon DEF TypeOK
<1>4. ASSUME NEW w \in Workers, Begin(w)
      PROVE  TypeOK'
  <2> DEFINE j == queue[w][1]
  <2>1. UNCHANGED <<affinity, load, next, proxies, created, sent>> BY <1>4, Zenon DEF Begin, schedulerVars, mainVars
  <2>2. S!TypeOK' BY <2>1, Zenon DEF TypeOK, S!TypeOK
  <2>3. queue' \in [Workers -> Seq(Job)] BY <1>4, Taken, Zenon
  <2>4. j \in Job /\ run' \in [Workers -> Run] /\ call' \in [Calls -> Progress] BY <1>4, Begun, Zenon
  <2>5. j.c \in Compartments /\ j.arg \in Nat BY <2>4, JobFields, Zenon
  <2>6. delivered' \in [Compartments -> Seq(Nat)]
    <3>1. delivered' = delivered \/ delivered' = [delivered EXCEPT ![j.c] = Append(@, j.arg)] BY <1>4, Begun, Zenon
    <3>2. delivered[j.c] \in Seq(Nat) BY <2>5, Zenon DEF TypeOK
    <3>3. Append(delivered[j.c], j.arg) \in Seq(Nat) BY <2>5, <3>2
    <3> HIDE DEF j
    <3> QED BY <2>5, <3>1, <3>3, Zenon DEF TypeOK
  <2>7. /\ entries' \in [Workers -> SUBSET Compartments]
        /\ callables' \in [Workers -> [Compartments -> Seq(Funs)]]
    <3>1. \/ UNCHANGED <<entries, callables>>
          \/ /\ entries' = [entries EXCEPT ![w] = @ \ {j.c}]
             /\ callables' = [callables EXCEPT ![w][j.c] = <<>>]
      BY <1>4, Begun, Zenon
    <3>2. entries[w] \ {j.c} \in SUBSET Compartments BY Zenon DEF TypeOK
    <3>3. <<>> \in Seq(Funs) OBVIOUS
    <3> HIDE DEF j
    <3>4. entries \in [Workers -> SUBSET Compartments] /\ callables \in [Workers -> [Compartments -> Seq(Funs)]]
      BY Zenon DEF TypeOK
    <3>5. entries' \in [Workers -> SUBSET Compartments] BY <3>1, <3>2, <3>4, Zenon
    <3>6. callables' \in [Workers -> [Compartments -> Seq(Funs)]]
      <4> DEFINE registries == [callables[w] EXCEPT ![j.c] = <<>>]
      <4>1. registries \in [Compartments -> Seq(Funs)] BY <3>3, <3>4, Zenon
      <4>2. callables' = callables \/ callables' = [callables EXCEPT ![w] = registries] BY <3>1, Zenon
      <4> HIDE DEF registries
      <4> QED BY <3>4, <4>1, <4>2, Zenon
    <3> QED BY <3>5, <3>6, Zenon
  <2> QED BY <2>1, <2>2, <2>3, <2>4, <2>6, <2>7, Zenon DEF TypeOK
<1>5. ASSUME NEW w \in Workers, NEW value \in Funs \cup {NoFun}, End(w, value)
      PROVE  TypeOK'
  <2>1. UNCHANGED <<affinity, load, next, proxies, created, sent, queue, delivered>>
    BY <1>5, Zenon DEF End, schedulerVars, mainVars
  <2>2. S!TypeOK' BY <2>1, Zenon DEF TypeOK, S!TypeOK
  <2>3. /\ run' \in [Workers -> Run] /\ call' \in [Calls -> Progress]
        /\ entries' \in [Workers -> SUBSET Compartments]
        /\ callables' \in [Workers -> [Compartments -> Seq(Funs)]]
    BY <1>5, Ended, Zenon
  <2> QED BY <2>1, <2>2, <2>3, Zenon DEF TypeOK
<1> QED BY <1>2, <1>3, <1>4, <1>5, Steps, Zenon
-----------------------------------------------------------------------------
(* The lives of the compartments. *)

\* A compartment that has a worker keeps it.
LEMMA Kept ==
    ASSUME SearchFindsWorker, TypeOK, NEW kind, NEW c, NEW id, NEW arg, Submits(kind, c, id, arg)
    PROVE  /\ affinity'[c] \in Workers
           /\ \A d \in Compartments : affinity[d] \in Workers => affinity'[d] = affinity[d]
<1>1. /\ c \in Compartments /\ submit(kind, c, id, arg)
      /\ [kind |-> kind, c |-> c, id |-> id, arg |-> arg] \in Job
  BY Zenon DEF Submits
<1> QED BY <1>1, Submitted, Zenon

\* Every step leaves the lives of the compartments in order.
LEMMA NextLifeInv ==
    ASSUME SearchFindsWorker, TypeOK, LifeInv, JobsInv, ProxyInv, [Next]_vars
    PROVE  LifeInv'
<1>0. created \subseteq Compartments /\ \A w \in Workers : entries[w] \subseteq Compartments
  BY Zenon DEF TypeOK
<1>1. ASSUME Quiet PROVE LifeInv'
  BY <1>1 DEF Quiet, LifeInv, schedulerVars
<1>2. ASSUME NEW kind, NEW c, NEW id, NEW arg, Submits(kind, c, id, arg)
      PROVE  LifeInv'
  <2>1. UNCHANGED <<built, torn, entries, callables>> BY <1>2, Zenon DEF Submits, submit
  <2>2. created \subseteq built
    <3>1. main.pc = "loop" BY <1>2, Zenon DEF Submits, InLoop
    <3> QED BY <3>1, Zenon DEF LifeInv
  <2>3. \A d \in created' : d \in built' \/ (main'.pc = "create" /\ main'.c = d)
    BY <1>2, <2>1, <2>2 DEF Submits
  <2>4. \A d \in created' : affinity'[d] \in Workers
    BY <1>0, <1>2, Kept DEF Submits, LifeInv
  <2>5. /\ built' \subseteq created' /\ closed' \subseteq built' /\ torn' \subseteq closed'
        /\ revoked' = closed'
    <3>1. kind = "teardown" => c \in built BY <1>2, <2>2, Zenon DEF Submits
    <3> QED BY <1>2, <2>1, <3>1, Zenon DEF Submits, LifeInv
  <2>6. \A d \in built : affinity[d] \in Workers /\ affinity'[d] = affinity[d]
    BY <1>0, <1>2, Kept, Zenon DEF LifeInv
  <2>7. \A d \in built' \ torn' : d \in entries'[affinity'[d]] BY <2>1, <2>6, Zenon DEF LifeInv
  <2>8. \A w \in Workers : \A d \in entries'[w] : affinity'[d] = w /\ d \in built' \ torn'
    BY <2>1, <2>6, Zenon DEF LifeInv
  <2>9. \A w \in Workers, d \in Compartments : callables'[w][d] # <<>> => affinity'[d] = w
    BY <1>2, <2>1, Kept DEF LifeInv
  <2> QED BY <2>3, <2>4, <2>5, <2>7, <2>8, <2>9, Zenon DEF LifeInv
<1>3. ASSUME NEW w \in Workers, Begin(w)
      PROVE  LifeInv'
  <2> DEFINE j == queue[w][1]
  <2>1. UNCHANGED <<affinity, main, created, closed, revoked, built>>
    BY <1>3, Zenon DEF Begin, schedulerVars, mainVars
  <2>2. 1 \in DOMAIN queue[w] BY <1>3, Taken, Zenon
  <2>3. JobOK(w, j) BY <2>2, Zenon DEF JobsInv
  <2>4. CASE j.kind = "teardown"
    <3>1. /\ entries' = [entries EXCEPT ![w] = @ \ {j.c}]
          /\ callables' = [callables EXCEPT ![w][j.c] = <<>>]
          /\ torn' = torn \cup {j.c}
      BY <1>3, <2>4, Begun, Zenon
    <3>2. j.c \in closed /\ affinity[j.c] = w /\ j.c \in Compartments
      BY <1>0, <2>3, <2>4, Zenon DEF JobOK
    <3> HIDE DEF j
    <3>3. entries'[w] = entries[w] \ {j.c} /\ \A v \in Workers : v # w => entries'[v] = entries[v]
      BY <3>1, Zenon DEF TypeOK
    <3>4. \A v \in Workers, d \in Compartments : callables'[v][d] # <<>> => callables[v][d] # <<>>
      BY <3>1, <3>2, Zenon DEF TypeOK
    <3>5. torn' \subseteq closed BY <3>1, <3>2, Zenon DEF LifeInv
    <3>6. \A d \in built \ torn' : affinity[d] \in Workers /\ d \in entries[affinity[d]] /\ d # j.c
      BY <3>1, Zenon DEF LifeInv
    <3>7. \A d \in built \ torn' : d \in entries'[affinity[d]]
      BY <3>3, <3>6, Zenon
    <3>8. \A v \in Workers : \A d \in entries'[v] : affinity[d] = v /\ d \in built \ torn'
      BY <3>1, <3>2, <3>3 DEF LifeInv
    <3> QED BY <2>1, <3>4, <3>5, <3>7, <3>8 DEF LifeInv
  <2>5. CASE j.kind # "teardown"
    <3>1. UNCHANGED <<entries, callables, torn>> BY <1>3, <2>5, Begun, Zenon
    <3> QED BY <2>1, <3>1, Zenon DEF LifeInv
  <2> QED BY <2>4, <2>5, Zenon
<1>4. ASSUME NEW w \in Workers, NEW value \in Funs \cup {NoFun}, End(w, value)
      PROVE  LifeInv'
  <2> DEFINE j == run[w].job
  <2>1. UNCHANGED <<affinity, main, created, closed, revoked, torn>>
    BY <1>4, Zenon DEF End, schedulerVars, mainVars
  <2>2. run[w] # Idle /\ j \in Job BY <1>4, Ended, Zenon
  <2>3. JobOK(w, j) /\ j.c \in Compartments BY <2>2, JobFields, Zenon DEF JobsInv
  <2>4. \A v \in Workers, d \in Compartments : callables'[v][d] # <<>> => affinity'[d] = v
    <3>1. \A v \in Workers, d \in Compartments :
            callables'[v][d] = callables[v][d] \/ (v = w /\ d = j.c)
      BY <1>4, Ended, ZenonT(30)
    <3> HIDE DEF j
    <3> QED BY <2>1, <2>3, <3>1 DEF LifeInv, JobOK
  <2>5. CASE j.kind = "create"
    <3>1. entries' = [entries EXCEPT ![w] = @ \cup {j.c}] /\ built' = built \cup {j.c}
      BY <1>4, <2>5, Zenon DEF End
    <3>2. j.c \in created /\ j.c \notin torn /\ affinity[j.c] = w BY <2>3, <2>5, Zenon DEF JobOK, LifeInv
    <3> HIDE DEF j
    <3>3. entries'[w] = entries[w] \cup {j.c} /\ \A v \in Workers : v # w => entries'[v] = entries[v]
      BY <3>1, Zenon DEF TypeOK
    <3>4. \A d \in created : d \in built' \/ (main.pc = "create" /\ main.c = d)
      BY <3>1, Zenon DEF LifeInv
    <3>5. built' \subseteq created /\ closed \subseteq built' BY <3>1, <3>2, Zenon DEF LifeInv
    <3>6. \A d \in built' \ torn : affinity[d] \in Workers /\ (d \in entries[affinity[d]] \/ d = j.c)
      BY <3>1, <3>2, Zenon DEF LifeInv
    <3>7. \A d \in built' \ torn : d \in entries'[affinity[d]] BY <3>2, <3>3, <3>6, Zenon
    <3>8. \A v \in Workers : \A d \in entries'[v] : affinity[d] = v /\ d \in built' \ torn
      BY <3>1, <3>2, <3>3 DEF LifeInv
    <3> QED BY <2>1, <2>4, <3>4, <3>5, <3>7, <3>8, Zenon DEF LifeInv
  <2>6. CASE j.kind # "create"
    <3>1. UNCHANGED <<entries, built>> BY <1>4, <2>6, Zenon DEF End
    <3> QED BY <2>1, <2>4, <3>1, Zenon DEF LifeInv
  <2> QED BY <2>5, <2>6, Zenon
<1> QED BY <1>1, <1>2, <1>3, <1>4, Steps, Zenon
-----------------------------------------------------------------------------
(* The jobs. *)

\* Every step leaves the jobs with the right worker and in a right order.
LEMMA NextJobsInv ==
    ASSUME SearchFindsWorker, TypeOK, LifeInv, JobsInv, ProxyInv, [Next]_vars
    PROVE  JobsInv'
<1> DEFINE OK(v, i) == /\ i.c \in created' /\ affinity'[i.c] = v
                       /\ i.kind = "create" => i.c \notin built'
                       /\ i.kind = "teardown" => i.c \in closed'
                       /\ i.kind \in {"send", "request"} => i.c \in built' \ torn'
<1> HIDE DEF OK
<1>0. created \subseteq Compartments BY Zenon DEF TypeOK
<1>5. ASSUME \A v \in Workers : \A n \in DOMAIN queue'[v] : OK(v, queue'[v][n]),
             \A v \in Workers : run'[v] # Idle => OK(v, run'[v].job),
             \A v \in Workers : \A m, n \in DOMAIN queue'[v] :
                m < n => Follows(queue'[v][m], queue'[v][n]),
             \A v \in Workers : run'[v] # Idle =>
                \A n \in DOMAIN queue'[v] : Follows(run'[v].job, queue'[v][n])
      PROVE  JobsInv'
  BY <1>5, Zenon DEF JobsInv, JobOK, OK, IsMessage, Follows
<1>1. ASSUME Quiet PROVE JobsInv'
  <2>1. UNCHANGED <<affinity, queue, built, torn, created, closed>> BY <1>1, Zenon DEF Quiet, schedulerVars
  <2>2. SameJobs BY <1>1, Zenon DEF Quiet
  <2>3. \A w, j : JobOK(w, j) => OK(w, j) BY <2>1, Zenon DEF JobOK, IsMessage, OK
  <2>4. \A w \in Workers : run'[w] # Idle => run[w] # Idle /\ run'[w].job = run[w].job
    BY <2>2, Zenon DEF SameJobs
  <2> QED BY <1>5, <2>1, <2>3, <2>4, Zenon DEF JobsInv
<1>2. ASSUME NEW kind, NEW c, NEW id, NEW arg, Submits(kind, c, id, arg)
      PROVE  JobsInv'
  <2> DEFINE w == affinity'[c]
             job == [kind |-> kind, c |-> c, id |-> id, arg |-> arg]
             last == Len(queue[w]) + 1
  <2>1. c \in Compartments /\ job \in Job /\ submit(kind, c, id, arg) BY <1>2, Zenon DEF Submits
  <2>2. UNCHANGED <<built, torn, run>> BY <1>2, Zenon DEF Submits, submit
  <2>3. /\ w \in Workers /\ DOMAIN queue'[w] = 1 .. last
        /\ \A n \in DOMAIN queue[w] : queue'[w][n] = queue[w][n]
        /\ queue'[w][last] = job
        /\ \A v \in Workers : v # w => queue'[v] = queue[v]
    BY <2>1, Submitted
  <2>4. Len(queue[w]) \in Nat /\ DOMAIN queue[w] = 1 .. Len(queue[w]) BY <2>3, Mailboxes, Zenon
  <2>5. created \subseteq built
    <3>1. main.pc = "loop" BY <1>2 DEF Submits, InLoop
    <3> QED BY <3>1 DEF LifeInv
  <2>6. \A v \in Workers : \A i : JobOK(v, i) => OK(v, i)
    BY <1>0, <1>2, <2>2, Kept, Zenon DEF JobOK, IsMessage, Submits, OK
  <2>7. OK(w, job)
    <3>1. job.c = c /\ job.kind = kind BY Zenon
    <3>2. kind = "create" => c \notin built BY <1>2, Zenon DEF Submits, LifeInv
    <3>3. IsMessage(job) => c \in built \ torn BY <1>2, <2>5, <3>1, Zenon DEF Submits, IsMessage, LifeInv
    <3>4. c \in created' /\ (kind = "teardown" => c \in closed') BY <1>2, Zenon DEF Submits
    <3> HIDE DEF job
    <3> QED BY <2>2, <3>1, <3>2, <3>3, <3>4 DEF OK, IsMessage, w
  <2>8. ASSUME NEW v \in Workers, NEW i, JobOK(v, i)
        PROVE  Follows(i, job)
    <3>1. job.c = c /\ job.kind = kind BY Zenon
    <3> HIDE DEF job
    <3> QED BY <1>2, <2>8, <3>1, Zenon DEF Follows, JobOK, IsMessage, Submits
  <2> HIDE DEF w, job, last
  <2>9. \A n \in DOMAIN queue'[w] : n \in DOMAIN queue[w] \/ n = last
    BY <2>3, <2>4 DEF last
  <2>10. \A v \in Workers : \A n \in DOMAIN queue'[v] : OK(v, queue'[v][n])
    BY <2>3, <2>6, <2>7, <2>9, Zenon DEF JobsInv
  <2>11. \A v \in Workers : run'[v] # Idle => OK(v, run'[v].job)
    BY <2>2, <2>6, Zenon DEF JobsInv
  <2>12. ASSUME NEW v \in Workers, NEW m \in DOMAIN queue'[v], NEW n \in DOMAIN queue'[v], m < n
         PROVE  Follows(queue'[v][m], queue'[v][n])
    <3>1. CASE v # w BY <2>3, <2>12, <3>1, Zenon DEF JobsInv
    <3>2. CASE v = w
      <4>1. m \in DOMAIN queue[w] BY <2>3, <2>4, <2>9, <2>12, <3>2 DEF last
      <4>2. CASE n \in DOMAIN queue[w] BY <2>3, <2>12, <3>2, <4>1, <4>2 DEF JobsInv
      <4>3. CASE n = last BY <2>3, <2>8, <3>2, <4>1, <4>3 DEF JobsInv
      <4> QED BY <2>9, <3>2, <4>2, <4>3, Zenon
    <3> QED BY <3>1, <3>2, Zenon
  <2>13. ASSUME NEW v \in Workers, run'[v] # Idle, NEW n \in DOMAIN queue'[v]
         PROVE  Follows(run'[v].job, queue'[v][n])
    <3>1. CASE v # w BY <2>2, <2>3, <2>13, <3>1, Zenon DEF JobsInv
    <3>2. CASE v = w /\ n = last BY <2>2, <2>3, <2>8, <2>13, <3>2, Zenon DEF JobsInv
    <3>3. CASE v = w /\ n \in DOMAIN queue[w] BY <2>2, <2>3, <2>13, <3>3, Zenon DEF JobsInv
    <3> QED BY <2>9, <3>1, <3>2, <3>3, Zenon
  <2> QED BY <1>5, <2>10, <2>11, <2>12, <2>13
<1>3. ASSUME NEW w \in Workers, Begin(w)
      PROVE  JobsInv'
  <2> DEFINE j == queue[w][1]
  <2>1. UNCHANGED <<affinity, created, closed, built>> BY <1>3, Zenon DEF Begin, schedulerVars, mainVars
  <2>2. /\ 1 \in DOMAIN queue[w] /\ DOMAIN queue'[w] = 1 .. Len(queue[w]) - 1
        /\ \A n \in DOMAIN queue'[w] : n + 1 \in DOMAIN queue[w] /\ queue'[w][n] = queue[w][n + 1]
        /\ \A v \in Workers : v # w => queue'[v] = queue[v]
    BY <1>3, Taken, Zenon
  <2>3. /\ run[w] = Idle
        /\ run'[w] = Idle \/ (run'[w].job = j /\ j.kind # "teardown")
        /\ \A v \in Workers : v # w => run'[v] = run[v]
        /\ IF j.kind = "teardown" THEN torn' = torn \cup {j.c} ELSE torn' = torn
    BY <1>3, Begun, Zenon
  <2>4. JobOK(w, j) BY <2>2, Zenon DEF JobsInv
  <2>5. \A n \in DOMAIN queue'[w] : Follows(j, queue'[w][n])
    <3>1. \A n \in DOMAIN queue'[w] : 1 < n + 1 BY <2>2
    <3> QED BY <2>2, <3>1, Zenon DEF JobsInv
  <2> HIDE DEF j
  <2>6. ASSUME NEW v \in Workers, NEW i, JobOK(v, i), v = w => (i = j /\ j.kind # "teardown") \/ Follows(j, i)
        PROVE  OK(v, i)
    <3>1. IsMessage(i) => i.c \notin torn'
      <4>1. CASE v # w BY <2>3, <2>4, <2>6, <4>1, Zenon DEF JobOK
      <4>2. CASE v = w BY <2>3, <2>6, <4>2, Zenon DEF JobOK, Follows
      <4> QED BY <4>1, <4>2, Zenon
    <3> QED BY <2>1, <2>6, <3>1, Zenon DEF JobOK, IsMessage, OK
  <2>7. \A v \in Workers : \A n \in DOMAIN queue'[v] : OK(v, queue'[v][n])
    BY <2>2, <2>5, <2>6 DEF JobsInv
  <2>8. \A v \in Workers : run'[v] # Idle => OK(v, run'[v].job)
    BY <2>3, <2>4, <2>6, Zenon DEF JobsInv
  <2>9. ASSUME NEW v \in Workers, NEW m \in DOMAIN queue'[v], NEW n \in DOMAIN queue'[v], m < n
        PROVE  Follows(queue'[v][m], queue'[v][n])
    <3>1. CASE v # w BY <2>2, <2>9, <3>1, Zenon DEF JobsInv
    <3>2. CASE v = w
      <4>1. m + 1 \in DOMAIN queue[w] /\ n + 1 \in DOMAIN queue[w] /\ m + 1 < n + 1
        BY <2>2, <2>9, <3>2
      <4> QED BY <2>2, <3>2, <4>1 DEF JobsInv
    <3> QED BY <3>1, <3>2, Zenon
  <2>10. \A v \in Workers : run'[v] # Idle =>
            \A n \in DOMAIN queue'[v] : Follows(run'[v].job, queue'[v][n])
    BY <2>2, <2>3, <2>5 DEF JobsInv
  <2> QED BY <1>5, <2>7, <2>8, <2>9, <2>10
<1>4. ASSUME NEW w \in Workers, NEW value \in Funs \cup {NoFun}, End(w, value)
      PROVE  JobsInv'
  <2> DEFINE j == run[w].job
  <2>1. UNCHANGED <<affinity, created, closed, torn, queue>> BY <1>4, Zenon DEF End, schedulerVars, mainVars
  <2>2. run[w] # Idle /\ run'[w] = Idle /\ \A v \in Workers : v # w => run'[v] = run[v]
    BY <1>4, Ended, Zenon
  <2>3. JobOK(w, j) /\ \A n \in DOMAIN queue[w] : Follows(j, queue[w][n]) BY <2>2, Zenon DEF JobsInv
  <2>4. built' = built \/ built' = built \cup {j.c} BY <1>4, Zenon DEF End
  <2> HIDE DEF j
  <2>5. ASSUME NEW v \in Workers, NEW i, JobOK(v, i), v = w => Follows(j, i)
        PROVE  OK(v, i)
    <3>1. i.kind = "create" => i.c \notin built'
      <4>1. i.c = j.c => v = w BY <2>3, <2>5, Zenon DEF JobOK
      <4>2. i.kind = "create" => i.c # j.c BY <2>5, <4>1, Zenon DEF Follows
      <4> QED BY <2>4, <2>5, <4>2, Zenon DEF JobOK
    <3> QED BY <2>1, <2>4, <2>5, <3>1, Zenon DEF JobOK, IsMessage, OK
  <2>6. \A v \in Workers : \A n \in DOMAIN queue'[v] : OK(v, queue'[v][n])
    BY <2>1, <2>3, <2>5, Zenon DEF JobsInv
  <2>7. \A v \in Workers : run'[v] # Idle => OK(v, run'[v].job)
    BY <2>2, <2>5, Zenon DEF JobsInv
  <2>8. \A v \in Workers : \A m, n \in DOMAIN queue'[v] :
            m < n => Follows(queue'[v][m], queue'[v][n])
    BY <2>1, Zenon DEF JobsInv
  <2>9. \A v \in Workers : run'[v] # Idle =>
            \A n \in DOMAIN queue'[v] : Follows(run'[v].job, queue'[v][n])
    BY <2>1, <2>2, Zenon DEF JobsInv
  <2> QED BY <1>5, <2>6, <2>7, <2>8, <2>9, Zenon
<1> QED BY <1>1, <1>2, <1>3, <1>4, Steps, Zenon
-----------------------------------------------------------------------------
(* The numbers of the messages. *)

\* A job that is sent leaves the order of the messages.
LEMMA SubmitNumbers ==
    ASSUME SearchFindsWorker, TypeOK, JobsInv, NumberInv, NEW kind, NEW c, NEW id, NEW arg, Submits(kind, c, id, arg)
    PROVE  NumberInv'
<1> DEFINE w == affinity'[c]
           job == [kind |-> kind, c |-> c, id |-> id, arg |-> arg]
           last == Len(queue[w]) + 1
<1>1. c \in Compartments /\ job \in Job /\ submit(kind, c, id, arg) BY Zenon DEF Submits
<1>2. UNCHANGED delivered BY Zenon DEF Submits, submit
<1>3. /\ w \in Workers /\ DOMAIN queue'[w] = 1 .. last
      /\ \A n \in DOMAIN queue[w] : queue'[w][n] = queue[w][n]
      /\ queue'[w][last] = job
      /\ \A v \in Workers : v # w => queue'[v] = queue[v]
  <2>1. [kind |-> kind, c |-> c, id |-> id, arg |-> arg] \in Job BY <1>1, Zenon
  <2> HIDE DEF job
  <2>2. w \in Workers BY <1>1, <2>1, Submitted, Zenon
  <2>3. DOMAIN queue'[w] = 1 .. last BY <1>1, <2>1, Submitted, Zenon
  <2>4. \A n \in DOMAIN queue[w] : queue'[w][n] = queue[w][n] BY <1>1, <2>1, Submitted
  <2>5. queue'[w][last] = job BY <1>1, <2>1, Submitted DEF job
  <2>6. \A v \in Workers : v # w => queue'[v] = queue[v] BY <1>1, <2>1, Submitted, Zenon
  <2> QED BY <2>2, <2>3, <2>4, <2>5, <2>6, Zenon
<1>4. Len(queue[w]) \in Nat /\ DOMAIN queue[w] = 1 .. Len(queue[w]) BY <1>3, Mailboxes, Zenon
<1>5. \A d \in Compartments : sent[d] \in Nat /\ Len(delivered[d]) \in Nat
  <2>1. \A d \in Compartments : delivered[d] \in Seq(Nat) BY Zenon DEF TypeOK
  <2> QED BY <2>1 DEF TypeOK
<1>6. job.c = c /\ job.kind = kind /\ job.arg = arg BY Zenon
<1>7. IsMessage(job) => arg = sent[c] + 1
  BY <1>6, Zenon DEF Submits, IsMessage
<1>8. \A d \in Compartments : sent'[d] = IF IsMessage(job) /\ d = c THEN sent[d] + 1 ELSE sent[d]
  <2>1. CASE IsMessage(job)
    <3>1. sent' = [sent EXCEPT ![c] = sent[c] + 1] BY <1>6, <2>1, Zenon DEF Submits, IsMessage
    <3> QED BY <1>1, <2>1, <3>1, Zenon DEF TypeOK
  <2>2. CASE ~IsMessage(job)
    <3>1. sent' = sent BY <1>6, <2>2, Zenon DEF Submits, IsMessage
    <3> QED BY <2>2, <3>1, Zenon
  <2> QED BY <2>1, <2>2, Zenon
<1> HIDE DEF w, job
<1>9. \A v \in Workers : \A n \in DOMAIN queue[v] : n \in DOMAIN queue'[v] /\ queue'[v][n] = queue[v][n]
  BY <1>3, <1>4
<1>10. last \in DOMAIN queue'[w] BY <1>3, <1>4
<1>11. \A v \in Workers : \A n \in DOMAIN queue'[v] :
        (n \in DOMAIN queue[v] /\ queue'[v][n] = queue[v][n]) \/ (v = w /\ n = last)
  BY <1>3, <1>4
<1>12. \A v \in Workers : \A n \in DOMAIN queue[v] : queue[v][n].c \in Compartments
  BY Mailboxes, JobFields, Zenon
<1>13. ASSUME NEW d \in Compartments, NEW k \in Len(delivered[d]) + 1 .. sent'[d]
       PROVE  \E v \in Workers : \E n \in DOMAIN queue'[v] :
                queue'[v][n].c = d /\ IsMessage(queue'[v][n]) /\ queue'[v][n].arg = k
  <2>1. CASE k \in Len(delivered[d]) + 1 .. sent[d]
    BY <1>9, <2>1 DEF NumberInv
  <2>2. CASE k \notin Len(delivered[d]) + 1 .. sent[d]
    <3>1. IsMessage(job) /\ d = c /\ k = sent[d] + 1 BY <1>5, <1>8, <2>2
    <3>2. queue'[w][last].c = d /\ IsMessage(queue'[w][last]) /\ queue'[w][last].arg = k
      BY <1>3, <1>6, <1>7, <3>1, Zenon
    <3> QED BY <1>3, <1>10, <3>2, Zenon
  <2> QED BY <2>1, <2>2, Zenon
<1>14. \A d \in Compartments : Len(delivered[d]) <= sent'[d]
  BY <1>5, <1>8 DEF NumberInv
<1>15. ASSUME NEW v \in Workers, NEW n \in DOMAIN queue'[v], IsMessage(queue'[v][n])
       PROVE  queue'[v][n].arg \in Len(delivered[queue'[v][n].c]) + 1 .. sent'[queue'[v][n].c]
  <2>1. CASE n \in DOMAIN queue[v] /\ queue'[v][n] = queue[v][n]
    <3> DEFINE d == queue[v][n].c
    <3>1. d \in Compartments BY <1>12, <2>1, Zenon
    <3>2. queue[v][n].arg \in Len(delivered[d]) + 1 .. sent[d] BY <1>15, <2>1, Zenon DEF NumberInv
    <3>3. queue'[v][n].c = d /\ queue'[v][n].arg = queue[v][n].arg BY <2>1, Zenon
    <3> HIDE DEF d
    <3> QED BY <1>5, <1>8, <3>1, <3>2, <3>3
  <2>2. CASE v = w /\ n = last
    <3>1. IsMessage(job) /\ queue'[v][n].c = c /\ queue'[v][n].arg = sent[c] + 1
      BY <1>3, <1>6, <1>7, <1>15, <2>2
    <3>2. sent[c] + 1 \in Len(delivered[c]) + 1 .. sent'[c]
      BY <1>1, <1>5, <1>8, <3>1 DEF NumberInv
    <3> QED BY <3>1, <3>2, Zenon
  <2> QED BY <1>11, <2>1, <2>2, Zenon
<1>16. ASSUME NEW v \in Workers, NEW m \in DOMAIN queue'[v], NEW n \in DOMAIN queue'[v], m < n,
              queue'[v][m].c = queue'[v][n].c, IsMessage(queue'[v][m]), IsMessage(queue'[v][n])
       PROVE  queue'[v][m].arg < queue'[v][n].arg
  <2>1. m \in DOMAIN queue[v] /\ queue'[v][m] = queue[v][m]
    BY <1>3, <1>4, <1>11, <1>16
  <2>2. CASE n \in DOMAIN queue[v] /\ queue'[v][n] = queue[v][n]
    BY <1>16, <2>1, <2>2 DEF NumberInv
  <2>3. CASE v = w /\ n = last
    <3>1. IsMessage(job) /\ queue'[v][n].c = c /\ queue'[v][n].arg = sent[c] + 1
      BY <1>3, <1>6, <1>7, <1>16, <2>3
    <3>2. queue[v][m].c = c /\ IsMessage(queue[v][m]) BY <1>16, <2>1, <3>1
    <3>3. queue[v][m].arg \in Len(delivered[c]) + 1 .. sent[c] BY <2>1, <3>2, Zenon DEF NumberInv
    <3> QED BY <1>1, <1>5, <2>1, <3>1, <3>3
  <2> QED BY <1>11, <2>2, <2>3, Zenon
<1> QED BY <1>2, <1>13, <1>14, <1>15, <1>16, Zenon DEF NumberInv, IsMessage

\* A worker that takes a message takes the next one of its compartment.
LEMMA BeginNumbers ==
    ASSUME TypeOK, LifeInv, JobsInv, NumberInv, NEW w \in Workers, Begin(w)
    PROVE  NumberInv'
<1> DEFINE j == queue[w][1]
           reached(d) == Len(delivered[d])
           after(d) == Len(delivered'[d])
<1>1. UNCHANGED sent BY Zenon DEF Begin, mainVars
<1>2. /\ 1 \in DOMAIN queue[w] /\ DOMAIN queue'[w] = 1 .. Len(queue[w]) - 1
      /\ \A n \in DOMAIN queue'[w] : n + 1 \in DOMAIN queue[w] /\ queue'[w][n] = queue[w][n + 1]
      /\ \A v \in Workers : v # w => queue'[v] = queue[v]
  BY Taken, Zenon
<1>3. Len(queue[w]) \in Nat /\ DOMAIN queue[w] = 1 .. Len(queue[w]) BY Mailboxes, Zenon
<1>4. \A d \in Compartments : delivered[d] \in Seq(Nat) /\ sent[d] \in Nat /\ reached(d) \in Nat
  <2>1. \A d \in Compartments : delivered[d] \in Seq(Nat) BY Zenon DEF TypeOK
  <2> QED BY <2>1 DEF TypeOK
<1>5. j \in Job /\ j.c \in Compartments /\ JobOK(w, j) BY <1>2, Mailboxes, JobFields, Zenon DEF JobsInv
<1>6. \A v \in Workers : \A n \in DOMAIN queue[v] : queue[v][n].c \in Compartments
  BY Mailboxes, JobFields, Zenon
<1>7. \A v \in Workers : \A n \in DOMAIN queue[v] : affinity[queue[v][n].c] = v BY Zenon DEF JobsInv, JobOK
<1> HIDE DEF j
<1>8. \A v \in Workers : \A m \in DOMAIN queue[v] :
        (v # w \/ m # 1) => \E n \in DOMAIN queue'[v] : queue'[v][n] = queue[v][m]
  <2> TAKE v \in Workers
  <2> TAKE m \in DOMAIN queue[v]
  <2>1. CASE v # w BY <1>2, <2>1, Zenon
  <2>2. CASE v = w /\ m # 1
    <3>1. m - 1 \in DOMAIN queue'[w] /\ (m - 1) + 1 = m BY <1>2, <1>3, <2>2
    <3>2. queue'[w][m - 1] = queue[w][m] BY <1>2, <3>1, Zenon
    <3> QED BY <2>2, <3>1, <3>2, Zenon
  <2> QED BY <2>1, <2>2, Zenon
<1>9. IsMessage(j) => j.arg = reached(j.c) + 1
  <2> SUFFICES ASSUME IsMessage(j) PROVE j.arg = reached(j.c) + 1 BY Zenon
  <2>1. j.arg \in reached(j.c) + 1 .. sent[j.c] BY <1>2, Zenon DEF NumberInv, j
  <2>2. reached(j.c) + 1 \in reached(j.c) + 1 .. sent[j.c] BY <1>4, <1>5, <2>1
  <2>0. PICK v \in Workers : \E n \in DOMAIN queue[v] :
            queue[v][n].c = j.c /\ IsMessage(queue[v][n]) /\ queue[v][n].arg = reached(j.c) + 1
    BY <1>5, <2>2 DEF NumberInv
  <2>3. PICK n \in DOMAIN queue[v] :
            queue[v][n].c = j.c /\ IsMessage(queue[v][n]) /\ queue[v][n].arg = reached(j.c) + 1
    BY <2>0, Zenon
  <2>4. v = w BY <1>5, <1>7, <2>3 DEF JobOK
  <2>5. CASE n = 1 BY <2>3, <2>4, <2>5, Zenon DEF j
  <2>6. CASE n # 1
    <3>1. 1 < n BY <1>3, <2>4, <2>6
    <3>2. j.arg < reached(j.c) + 1 BY <1>2, <2>3, <2>4, <3>1 DEF NumberInv, j
    <3> QED BY <1>4, <1>5, <2>1, <3>2
  <2> QED BY <2>5, <2>6, Zenon
<1>10. IsMessage(j) => delivered' = [delivered EXCEPT ![j.c] = Append(@, reached(j.c) + 1)]
  <2>1. IsMessage(j) => j.c \in entries[w] BY <1>5, Zenon DEF JobOK, LifeInv
  <2>2. IsMessage(j) => delivered' = [delivered EXCEPT ![j.c] = Append(@, j.arg)]
    BY <2>1, Begun, Zenon DEF j
  <2> QED BY <1>9, <2>2, Zenon
<1>11. ~IsMessage(j) => delivered' = delivered BY Begun, Zenon DEF j
<1>12. \A d \in Compartments :
        /\ after(d) = IF IsMessage(j) /\ d = j.c THEN reached(d) + 1 ELSE reached(d)
        /\ \A n \in 1 .. after(d) : delivered'[d][n] = n
  <2> TAKE d \in Compartments
  <2>1. CASE IsMessage(j) /\ d = j.c
    <3>1. delivered'[d] = Append(delivered[d], reached(d) + 1) BY <1>10, <2>1, Zenon DEF TypeOK
    <3>2. delivered[d] \in Seq(Nat) /\ reached(d) + 1 \in Nat BY <1>4
    <3>3. Len(delivered'[d]) = reached(d) + 1 BY <3>1, <3>2
    <3>4. \A n \in 1 .. reached(d) : delivered'[d][n] = delivered[d][n] BY <3>1, <3>2
    <3>5. delivered'[d][reached(d) + 1] = reached(d) + 1 BY <3>1, <3>2
    <3>6. \A n \in 1 .. reached(d) : delivered[d][n] = n BY Zenon DEF NumberInv
    <3>7. \A n \in 1 .. reached(d) + 1 : n \in 1 .. reached(d) \/ n = reached(d) + 1 BY <1>4
    <3> QED BY <2>1, <3>3, <3>4, <3>5, <3>6, <3>7
  <2>2. CASE ~(IsMessage(j) /\ d = j.c)
    <3>1. delivered'[d] = delivered[d] BY <1>5, <1>10, <1>11, <2>2 DEF TypeOK
    <3> QED BY <2>2, <3>1 DEF NumberInv
  <2> QED BY <2>1, <2>2, Zenon
<1> HIDE DEF reached, after
<1>13. \A v \in Workers : \A n \in DOMAIN queue'[v] :
        \E m \in DOMAIN queue[v] : queue'[v][n] = queue[v][m] /\ (v = w => 1 < m)
  <2>1. \A n \in DOMAIN queue'[w] : 1 < n + 1 BY <1>2
  <2> QED BY <1>2, <2>1
<1>14. ASSUME NEW d \in Compartments
       PROVE  after(d) <= sent[d]
  <2>1. reached(d) <= sent[d] BY Zenon DEF NumberInv, reached
  <2>2. IsMessage(j) => j.arg <= sent[j.c] BY <1>2, <1>4, <1>5, <1>9 DEF NumberInv, reached, j
  <2> QED BY <1>4, <1>9, <1>12, <2>1, <2>2
<1>15. ASSUME NEW d \in Compartments, NEW k \in after(d) + 1 .. sent[d]
       PROVE  \E v \in Workers : \E n \in DOMAIN queue'[v] :
                queue'[v][n].c = d /\ IsMessage(queue'[v][n]) /\ queue'[v][n].arg = k
  <2>1. k \in reached(d) + 1 .. sent[d] /\ (IsMessage(j) /\ d = j.c => k # reached(d) + 1)
    BY <1>4, <1>12
  <2>0. PICK v \in Workers : \E m \in DOMAIN queue[v] :
            queue[v][m].c = d /\ IsMessage(queue[v][m]) /\ queue[v][m].arg = k
    BY <2>1 DEF NumberInv, reached
  <2>2. PICK m \in DOMAIN queue[v] :
            queue[v][m].c = d /\ IsMessage(queue[v][m]) /\ queue[v][m].arg = k
    BY <2>0, Zenon
  <2>3. v # w \/ m # 1 BY <1>9, <2>1, <2>2 DEF j
  <2> QED BY <1>8, <2>2, <2>3, Zenon
<1>16. ASSUME NEW v \in Workers, NEW n \in DOMAIN queue'[v], IsMessage(queue'[v][n])
       PROVE  queue'[v][n].arg \in after(queue'[v][n].c) + 1 .. sent[queue'[v][n].c]
  <2>1. PICK m \in DOMAIN queue[v] : queue'[v][n] = queue[v][m] /\ (v = w => 1 < m) BY <1>13, Zenon
  <2> DEFINE i == queue[v][m]
             d == i.c
  <2>2. d \in Compartments /\ affinity[d] = v BY <1>6, <1>7, <2>1
  <2>3. i.arg \in reached(d) + 1 .. sent[d] BY <1>16, <2>1 DEF NumberInv, reached
  <2>4. IsMessage(j) /\ d = j.c => j.arg < i.arg
    <3>1. d = j.c => v = w BY <1>5, <2>2, Zenon DEF JobOK
    <3> QED BY <1>2, <1>16, <2>1, <3>1 DEF NumberInv, j
  <2>5. queue'[v][n] = i /\ i.c = d BY <2>1, Zenon
  <2> HIDE DEF i, d
  <2>6. i.arg \in after(d) + 1 .. sent[d]
    <3>1. CASE IsMessage(j) /\ d = j.c
      <4>1. after(d) = reached(d) + 1 /\ j.arg = reached(d) + 1 BY <1>9, <1>12, <2>2, <3>1
      <4> QED BY <1>4, <2>2, <2>3, <2>4, <3>1, <4>1
    <3>2. CASE ~(IsMessage(j) /\ d = j.c) BY <1>12, <2>2, <2>3, <3>2
    <3> QED BY <3>1, <3>2, Zenon
  <2> QED BY <2>5, <2>6
<1>17. ASSUME NEW v \in Workers, NEW m \in DOMAIN queue'[v], NEW n \in DOMAIN queue'[v], m < n,
              queue'[v][m].c = queue'[v][n].c, IsMessage(queue'[v][m]), IsMessage(queue'[v][n])
       PROVE  queue'[v][m].arg < queue'[v][n].arg
  <2>1. CASE v # w BY <1>2, <1>17, <2>1 DEF NumberInv
  <2>2. CASE v = w
    <3>1. m + 1 \in DOMAIN queue[w] /\ n + 1 \in DOMAIN queue[w] /\ m + 1 < n + 1
      BY <1>2, <1>17, <2>2
    <3>2. queue'[w][m] = queue[w][m + 1] /\ queue'[w][n] = queue[w][n + 1] BY <1>2, <2>2, Zenon
    <3> QED BY <1>17, <2>2, <3>1, <3>2 DEF NumberInv
  <2> QED BY <2>1, <2>2, Zenon
<1> QED BY <1>1, <1>12, <1>14, <1>15, <1>16, <1>17 DEF NumberInv, IsMessage, reached, after

\* Every step leaves the messages in order.
LEMMA NextNumberInv ==
    ASSUME SearchFindsWorker, TypeOK, LifeInv, JobsInv, NumberInv, ProxyInv, [Next]_vars
    PROVE  NumberInv'
<1>1. ASSUME Quiet \/ \E w \in Workers, value \in Funs \cup {NoFun} : End(w, value)
      PROVE  NumberInv'
  <2>1. UNCHANGED <<queue, delivered, sent>> BY <1>1, Zenon DEF Quiet, End, mainVars
  <2> QED BY <2>1 DEF NumberInv
<1> QED BY <1>1, SubmitNumbers, BeginNumbers, Steps
-----------------------------------------------------------------------------
(* The proxies. *)

\* Every step leaves the proxies of open compartments bound.
LEMMA NextProxyInv ==
    ASSUME SearchFindsWorker, TypeOK, LifeInv, JobsInv, ProxyInv, [Next]_vars
    PROVE  ProxyInv'
<1> DEFINE Bound(p, registry) == p.binding < Len(registry) /\ registry[p.binding + 1] = p.fun
           registryOf(p) == callables[affinity[p.c]][p.c]
           registryAfter(p) == callables'[affinity'[p.c]][p.c]
<1>0. \A p \in Carried :
        /\ p.c \in created /\ p.c \in Compartments /\ affinity[p.c] \in Workers
        /\ p.c \notin closed => Bound(p, registryOf(p))
  BY Zenon DEF ProxyInv, OpenProxiesBound, LifeInv, TypeOK
<1>1. ASSUME \A p \in Carried' : p.c \in created' /\ (p.c \notin closed' => Bound(p, registryAfter(p)))
      PROVE  ProxyInv'
  BY <1>1, Zenon DEF ProxyInv, OpenProxiesBound
<1> HIDE DEF Bound
<1>2. ASSUME Quiet PROVE ProxyInv'
  BY <1>0, <1>1, <1>2 DEF Quiet, schedulerVars
<1>3. ASSUME NEW kind, NEW c, NEW id, NEW arg, Submits(kind, c, id, arg)
      PROVE  ProxyInv'
  <2>1. \A i \in Calls : call'[i].state = "replied" => call'[i] = call[i]
    BY <1>3 DEF Submits, TypeOK
  <2>2. Carried' \subseteq Carried BY <1>3, <2>1 DEF Submits, Carried
  <2>3. UNCHANGED callables /\ created \subseteq created' /\ closed \subseteq closed'
    BY <1>3, Zenon DEF Submits, submit
  <2>4. \A p \in Carried : affinity'[p.c] = affinity[p.c] BY <1>0, <1>3, Kept
  <2> QED BY <1>0, <1>1, <2>2, <2>3, <2>4
<1>4. ASSUME NEW w \in Workers, Begin(w)
      PROVE  ProxyInv'
  <2> DEFINE j == queue[w][1]
  <2>1. UNCHANGED <<affinity, created, closed>> BY <1>4 DEF Begin, schedulerVars, mainVars
  <2>2. 1 \in DOMAIN queue[w] BY <1>4, Taken
  <2>3. JobOK(w, j) BY <2>2 DEF JobsInv
  <2>4. /\ Carried' \subseteq Carried
        /\ IF j.kind = "teardown" THEN callables' = [callables EXCEPT ![w][j.c] = <<>>]
                                  ELSE callables' = callables
    BY <1>4, Begun, Zenon
  <2> HIDE DEF j
  <2>5. \A p \in Carried : p.c \notin closed => registryAfter(p) = registryOf(p)
    <3>1. \A v \in Workers, d \in Compartments : d \notin closed => callables'[v][d] = callables[v][d]
      <4>1. CASE j.kind = "teardown"
        <5>1. j.c \in closed /\ callables' = [callables EXCEPT ![w][j.c] = <<>>]
          BY <2>3, <2>4, <4>1 DEF JobOK
        <5>2. callables \in [Workers -> [Compartments -> Seq(Funs)]] BY Zenon DEF TypeOK
        <5> QED BY <5>1, <5>2, Zenon
      <4>2. CASE j.kind # "teardown" BY <2>4, <4>2, Zenon
      <4> QED BY <4>1, <4>2, Zenon
    <3> QED BY <1>0, <2>1, <3>1
  <2> HIDE DEF registryAfter, registryOf
  <2> QED BY <1>0, <1>1, <2>1, <2>4, <2>5
<1>5. ASSUME NEW w \in Workers, NEW value \in Funs \cup {NoFun}, End(w, value)
      PROVE  ProxyInv'
  <2> DEFINE j == run[w].job
             registry == callables[w][j.c]
             new == [c |-> j.c, binding |-> Len(registry), fun |-> value]
  <2>1. UNCHANGED <<affinity, created, closed>> BY <1>5 DEF End, schedulerVars, mainVars
  <2>2. run[w] # Idle /\ j \in Job BY <1>5, Ended, Zenon
  <2>3. JobOK(w, j) /\ j.c \in Compartments BY <2>2, JobFields DEF JobsInv
  <2>4. CASE callables' = callables /\ Carried' \subseteq Carried
    BY <1>0, <1>1, <2>1, <2>4
  <2>5. CASE /\ value \in Funs
             /\ callables'[w][j.c] = Append(registry, value)
             /\ \A v \in Workers, d \in Compartments : v # w \/ d # j.c => callables'[v][d] = callables[v][d]
             /\ Carried' \subseteq Carried \cup {new}
    <3>1. registry \in Seq(Funs) BY <2>3 DEF TypeOK
    <3>2. Bound(new, Append(registry, value))
      <4>1. new.binding = Len(registry) /\ new.fun = value BY Zenon
      <4>2. value \in Funs BY <2>5, Zenon
      <4> HIDE DEF new, registry
      <4>3. Len(Append(registry, value)) = Len(registry) + 1 /\ Len(registry) \in Nat
            /\ Append(registry, value)[Len(registry) + 1] = value
        BY <3>1, <4>2
      <4> QED BY <4>1, <4>3 DEF Bound
    <3>3. new.c = j.c /\ affinity[j.c] = w /\ j.c \in created BY <2>3, Zenon DEF JobOK
    <3> HIDE DEF new, j
    <3>4. ASSUME NEW p \in Carried, p.c \notin closed PROVE Bound(p, registryAfter(p))
      <4>1. CASE p.c = j.c
        <5>1. Bound(p, registry) /\ registryAfter(p) = Append(registry, value)
          BY <1>0, <2>1, <2>5, <3>3, <3>4, <4>1
        <5>2. p.binding \in Nat
          <6>1. p \in Proxy
            <7>1. ASSUME NEW i \in Calls, call[i].state = "replied" PROVE call[i].reply \in SUBSET Proxy
              <8>1. call[i] \in Progress BY Zenon DEF TypeOK
              <8> QED BY <7>1, <8>1, Zenon DEF Progress
            <7> QED BY <7>1 DEF Carried, TypeOK
          <6> QED BY <6>1, Zenon DEF Proxy
        <5>3. Bound(p, Append(registry, value))
          <6>1. value \in Funs BY <2>5, Zenon
          <6> HIDE DEF registry
          <6> QED BY <3>1, <5>1, <5>2, <6>1 DEF Bound
        <5> QED BY <5>1, <5>3, Zenon
      <4>2. CASE p.c # j.c
        <5>1. registryAfter(p) = registryOf(p) BY <1>0, <2>1, <2>5, <4>2
        <5> QED BY <1>0, <3>4, <5>1
      <4> QED BY <4>1, <4>2, Zenon
    <3>5. Bound(new, registryAfter(new)) /\ new.c \in created BY <2>1, <2>5, <3>2, <3>3, Zenon
    <3>6. \A p \in Carried' : p \in Carried \/ p = new BY <2>5, Zenon
    <3> HIDE DEF registryAfter
    <3> QED BY <1>0, <1>1, <2>1, <3>4, <3>5, <3>6
  <2>6. \/ callables' = callables /\ Carried' \subseteq Carried
        \/ /\ value \in Funs
           /\ callables'[w][j.c] = Append(registry, value)
           /\ \A v \in Workers, d \in Compartments : v # w \/ d # j.c => callables'[v][d] = callables[v][d]
           /\ Carried' \subseteq Carried \cup {new}
    BY <1>5, Ended, Zenon
  <2> QED BY <2>4, <2>5, <2>6, Zenon
<1> QED BY <1>2, <1>3, <1>4, <1>5, Steps, Zenon
-----------------------------------------------------------------------------
\* The initial state.
LEMMA InitHostInv == Init => HostInv
<1> SUFFICES ASSUME Init PROVE HostInv BY Zenon
<1>0. N \in Nat \ {0} BY HostAssumption, Zenon
<1>1. S!TypeOK BY <1>0 DEF Init, S!Init, S!TypeOK, S!Workers
<1>2. \A w \in Workers : queue[w] = <<>> /\ run[w] = Idle BY Zenon DEF Init
<1>3. <<>> \in Seq(Job) /\ <<>> \in Seq(Funs) /\ <<>> \in Seq(Nat) OBVIOUS
<1>4. Idle \in Run /\ Unused \in Progress BY Zenon DEF Run, Progress, Unused
<1>5. TypeOK
  <2>1. queue \in [Workers -> Seq(Job)] BY <1>3, Zenon DEF Init
  <2>2. callables \in [Workers -> [Compartments -> Seq(Funs)]] BY <1>3, Zenon DEF Init
  <2>3. delivered \in [Compartments -> Seq(Nat)] BY <1>3, Zenon DEF Init
  <2>4. run \in [Workers -> Run] /\ call \in [Calls -> Progress] BY <1>4, Zenon DEF Init
  <2> QED BY <1>1, <2>1, <2>2, <2>3, <2>4 DEF Init, TypeOK
<1>6. Carried = {}
  <2>1. \A i \in Calls : call[i].state = "unused" BY Zenon DEF Init, Unused
  <2> QED BY <2>1, Zenon DEF Carried, Init
<1>7. LifeInv BY Zenon DEF LifeInv, Init
<1>8. DOMAIN <<>> = {} /\ Len(<<>>) = 0 OBVIOUS
<1>9. JobsInv BY <1>2, <1>8, Zenon DEF JobsInv
<1>10. NumberInv
  <2>1. \A c \in Compartments : Len(delivered[c]) = 0 /\ sent[c] = 0 BY <1>8, Zenon DEF Init
  <2> QED BY <1>2, <1>8, <2>1 DEF NumberInv
<1>11. ProxyInv BY <1>6, Zenon DEF ProxyInv, OpenProxiesBound
<1> QED BY <1>5, <1>7, <1>9, <1>10, <1>11, Zenon DEF HostInv

\* What the invariant says of the messages, whichever worker they wait at.
LEMMA InvOrders ==
    ASSUME HostInv
    PROVE  MessagesInOrder
<1> SUFFICES ASSUME NEW c \in Compartments
             PROVE  LET reached == Len(delivered[c]) IN
                    /\ reached <= sent[c] /\ \A n \in 1 .. reached : delivered[c][n] = n
                    /\ {Mailbox(c)[n].arg : n \in Queued(c)} = reached + 1 .. sent[c]
                    /\ \A m, n \in Queued(c) : m < n => Mailbox(c)[m].arg < Mailbox(c)[n].arg
  BY Zenon DEF MessagesInOrder
<1> DEFINE reached == Len(delivered[c])
<1>0. TypeOK /\ JobsInv /\ NumberInv BY Zenon DEF HostInv
<1>1. reached <= sent[c] /\ \A n \in 1 .. reached : delivered[c][n] = n BY <1>0, Zenon DEF NumberInv
<1>2. \A w \in Workers : \A n \in DOMAIN queue[w] : queue[w][n].c = c => affinity[c] = w
  BY <1>0 DEF JobsInv, JobOK
<1>3. \A w \in Workers : w # S!NoWorker
  <2>1. N \in Nat \ {0} BY HostAssumption, Zenon
  <2> QED BY <2>1 DEF Workers, S!Workers, S!NoWorker
<1>4. \A k \in reached + 1 .. sent[c] : \E n \in Queued(c) : Mailbox(c)[n].arg = k
  <2> TAKE k \in reached + 1 .. sent[c]
  <2>1. PICK w \in Workers : \E n \in DOMAIN queue[w] :
          queue[w][n].c = c /\ IsMessage(queue[w][n]) /\ queue[w][n].arg = k
    BY <1>0 DEF NumberInv
  <2>2. PICK n \in DOMAIN queue[w] : queue[w][n].c = c /\ IsMessage(queue[w][n]) /\ queue[w][n].arg = k
    BY <2>1, Zenon
  <2>3. Mailbox(c) = queue[w] BY <1>2, <1>3, <2>2, Zenon DEF Mailbox
  <2>4. n \in Queued(c) /\ Mailbox(c)[n].arg = k BY <2>2, <2>3, Zenon DEF Queued
  <2> QED BY <2>4, Zenon
<1>5. affinity[c] \in Workers \/ Queued(c) = {}
  <2>1. affinity[c] \in Workers \/ affinity[c] = S!NoWorker BY <1>0, Zenon DEF TypeOK, S!TypeOK, Workers
  <2>2. affinity[c] = S!NoWorker => Queued(c) = {} BY DEF Queued, Mailbox
  <2> QED BY <2>1, <2>2, Zenon
<1>6. CASE Queued(c) = {}
  BY <1>1, <1>4, <1>6, Zenon
<1>7. CASE affinity[c] \in Workers
  <2>1. Mailbox(c) = queue[affinity[c]] BY <1>3, <1>7, Zenon DEF Mailbox
  <2>2. \A n \in Queued(c) : n \in DOMAIN queue[affinity[c]] /\ queue[affinity[c]][n].c = c /\ IsMessage(queue[affinity[c]][n])
    BY <2>1, Zenon DEF Queued
  <2>3. \A n \in Queued(c) : Mailbox(c)[n].arg \in reached + 1 .. sent[c]
    BY <1>0, <1>7, <2>1, <2>2 DEF NumberInv
  <2>4. \A m, n \in Queued(c) : m < n => Mailbox(c)[m].arg < Mailbox(c)[n].arg
    BY <1>0, <1>7, <2>1, <2>2 DEF NumberInv
  <2> HIDE DEF reached
  <2>5. {Mailbox(c)[n].arg : n \in Queued(c)} = reached + 1 .. sent[c]
    BY <1>4, <2>3, Zenon
  <2> QED BY <1>1, <2>4, <2>5, Zenon DEF reached
<1> QED BY <1>5, <1>6, <1>7, Zenon

\* What the invariant says of a compartment that was torn down.
LEMMA InvTornDown ==
    ASSUME HostInv, NEW c \in torn
    PROVE  /\ Len(delivered[c]) = sent[c]
           /\ \A w \in Workers : c \notin entries[w]
                /\ (run[w] # Idle => run[w].job.c # c \/ ~IsMessage(run[w].job))
<1>0. TypeOK /\ LifeInv /\ JobsInv /\ NumberInv BY Zenon DEF HostInv
<1>1. c \in Compartments BY <1>0, Zenon DEF TypeOK, LifeInv
<1>2. sent[c] \in Nat /\ Len(delivered[c]) \in Nat /\ Len(delivered[c]) <= sent[c]
  <2>1. delivered[c] \in Seq(Nat) /\ sent[c] \in Nat BY <1>0, <1>1, Zenon DEF TypeOK
  <2> QED BY <1>0, <1>1, <2>1 DEF NumberInv
<1>3. \A w \in Workers : \A n \in DOMAIN queue[w] : queue[w][n].c = c => ~IsMessage(queue[w][n])
  BY <1>0 DEF JobsInv, JobOK
<1>4. sent[c] \notin Len(delivered[c]) + 1 .. sent[c] BY <1>0, <1>1, <1>3 DEF NumberInv
<1>5. Len(delivered[c]) = sent[c] BY <1>2, <1>4
<1> QED BY <1>0, <1>5 DEF LifeInv, JobsInv, JobOK

\* A host call that is handled, not denied.
Handled(w) == run[w].pc = "host" /\ run'[w].pc = "answered" /\ run'[w].answer = "handled"

\* Only the drain of the host calls has one handled, and for an open compartment.
LEMMA HandledIsOpen ==
    ASSUME HostInv, [Next]_vars, NEW w \in Workers, Handled(w)
    PROVE  run[w].job.c \notin closed
<1> USE DEF Handled
<1>0. TypeOK /\ LifeInv BY Zenon DEF HostInv
<1>1. run[w] # Idle /\ run'[w] # run[w] BY <1>0, RunForms, Zenon
<1>2. Idle.pc = "idle" BY Zenon DEF Idle
<1>3. ASSUME drain_worker_host_calls PROVE run[w].job.c \notin closed
  <2>1. run'[w].answer = IF run[w].job.c \in revoked THEN "denied" ELSE "handled"
    BY <1>3, Zenon DEF drain_worker_host_calls
  <2> QED BY <1>0, <2>1, Zenon DEF LifeInv
<1>4. ASSUME NEW v \in Workers, Begin(v) PROVE FALSE
  <2>1. run[v] = Idle /\ \A u \in Workers : u # v => run'[u] = run[u] BY <1>0, <1>4, Begun, Zenon
  <2> QED BY <1>1, <2>1, Zenon
<1>5. ASSUME NEW v \in Workers, hostCall(v) PROVE FALSE
  <2>1. run' = [run EXCEPT ![v] = [pc |-> "host", job |-> @.job]] BY <1>5, Zenon DEF hostCall
  <2>2. CASE v = w
    <3>1. run'[w].pc = "host" BY <1>0, <2>1, <2>2, Zenon DEF TypeOK
    <3> QED BY <3>1, Zenon
  <2>3. CASE v # w BY <1>0, <1>1, <2>1, <2>3, Zenon DEF TypeOK
  <2> QED BY <2>2, <2>3, Zenon
<1>6. ASSUME NEW v \in Workers, NEW value \in Funs \cup {NoFun}, End(v, value) PROVE FALSE
  <2>1. run'[v] = Idle /\ \A u \in Workers : u # v => run'[u] = run[u] BY <1>0, <1>6, Ended, Zenon
  <2> QED BY <1>1, <1>2, <2>1, Zenon
<1>7. ASSUME MainStep, ~drain_worker_host_calls PROVE FALSE
  <2>1. UNCHANGED run
    BY <1>7, Zenon DEF MainStep, Compartment, send, close, request, importValue, invoke, submit,
       CompartmentReturns, poll, await_callable_proxy_reply, poll_look, await_look, workerVars
  <2> QED BY <1>1, <2>1, Zenon
<1>8. CASE UNCHANGED vars BY <1>1, <1>8, Zenon DEF vars, workerVars
<1> QED BY <1>3, <1>4, <1>5, <1>6, <1>7, <1>8 DEF Next, WorkerStep

-----------------------------------------------------------------------------
\* The results about the scheduler, for the table of this module.
P == INSTANCE CompartmentSchedulerProofs

\* The search finds a worker, since the scheduler's least loaded one exists.
LEMMA WorkerFound == SearchFindsWorker
<1> SUFFICES ASSUME S!TypeOK PROVE S!Best \in S!Workers BY DEF SearchFindsWorker
<1>1. P!SchedulerAssumption
  BY HostAssumption, Zenon DEF P!SchedulerAssumption, IsFiniteSet, P!IsFiniteSet
<1>2. P!TypeOK BY DEF S!TypeOK, P!TypeOK, S!Workers, P!Workers, S!NoWorker, P!NoWorker
<1>3. P!Best \in P!Workers BY <1>1, <1>2, P!BestIsLeast
<1>4. P!Best = S!Best /\ P!Workers = S!Workers
  BY DEF P!Best, S!Best, P!Probe, S!Probe, P!Workers, S!Workers
<1> QED BY <1>3, <1>4, Zenon

\* The invariant the theorems below come from.
LEMMA HostInvHolds == Spec => []HostInv
<1>1. HostInv /\ [Next]_vars => HostInv'
  BY WorkerFound, NextTypeOK, NextLifeInv, NextJobsInv, NextNumberInv, NextProxyInv DEF HostInv
<1> QED BY <1>1, InitHostInv, PTL DEF Spec

\* Messages reach every compartment in the order the main thread sent them, none
\* lost, none twice, through cross_thread_send and cross_thread_request.
THEOREM MessagesStayInOrder == Spec => []MessagesInOrder
<1>1. HostInv => MessagesInOrder BY InvOrders
<1> QED BY <1>1, HostInvHolds, PTL

\* A compartment's entry, callables and code are on one worker, through all of
\* the Compartment built-ins.
THEOREM CompartmentsStayPut == Spec => []OneWorkerPerCompartment
<1>1. HostInv => OneWorkerPerCompartment
  BY DEF HostInv, OneWorkerPerCompartment, LifeInv, JobsInv, JobOK
<1> QED BY <1>1, HostInvHolds, PTL

\* After teardown_worker_compartment no message is left over and no handler runs.
THEOREM NothingAfterTeardown == Spec => []TeardownIsLast
<1>1. HostInv => TeardownIsLast BY InvTornDown, Zenon DEF TeardownIsLast
<1> QED BY <1>1, HostInvHolds, PTL

\* A callable proxy of an open compartment always runs its own function.
THEOREM ProxiesStayBound == Spec => []OpenProxiesBound
<1>1. HostInv => OpenProxiesBound BY Zenon DEF HostInv, ProxyInv
<1> QED BY <1>1, HostInvHolds, PTL

\* drain_worker_host_calls runs no handler for a compartment that was closed.
THEOREM HandlersRunForOpenOnly == Spec => ClosedCallsDenied
<1>1. HostInv /\ [Next]_vars => [\A w \in Workers : Handled(w) => run[w].job.c \notin closed]_vars
  BY HandledIsOpen
<1> QED BY <1>1, HostInvHolds, PTL DEF Spec, ClosedCallsDenied, Handled
=============================================================================
