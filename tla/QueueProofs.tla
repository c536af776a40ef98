----------------------------- MODULE QueueProofs -----------------------------
(***************************************************************************)
(* Theorems about Intake's log of deliveries, for every value of its       *)
(* constants: what the queue keeps, who holds a reservation, which         *)
(* delivery accounts for a session.                                        *)
(***************************************************************************)
EXTENDS IntakeProofs

(***************************************************************************)
(* Answers.  A thread has an answer only when it is about to record it or  *)
(* to give its row up; what the router sends elsewhere is never queued,    *)
(* and what was queued is never turned away by the router.                 *)
(***************************************************************************)
IsSecurity(d) == Route(Payload[d]) = "handle_security_issue"

Fits(r, d) ==
    /\ r # "none"
    /\ r = "queued" => IsSecurity(d)
    /\ r \in {"ignored", "skipped", "escalated"} => ~IsSecurity(d)

RoutedBy(t) ==
    /\ reply[t] # "none" => pc[t] \in {"fail", "respond"}
    /\ pc[t] \in Busy \ {"dispatch", "respond"} => IsSecurity(job[t]) \/ IsFix(job[t])
    /\ pc[t] = "respond" => Fits(reply[t], job[t])

Routed ==
    /\ \A t \in Threads : RoutedBy(t)
    /\ \A d \in Queued \cup batch : IsSecurity(d)
    /\ pc[Poller] \in Busy => IsSecurity(job[Poller]) /\ reply[Poller] # "exception"

LEMMA FixesAreApart ==
    ASSUME NEW d \in Deliveries, IsFix(d)
    PROVE  ~IsSecurity(d)
BY DEF IsSecurity, IsFix, Route, RouteIssue, RouteWorkflowRun

LEMMA RoutedHandler ==
    ASSUME IInv, LogInv, Routed, NEW t \in Threads, HandlerStep(t)
    PROVE  Routed'
<1> USE DEF IInv, TypeInv, TypeOK, Goto, Answer
<1>1. UNCHANGED <<job, result, batch>> /\ pc[t] \in Busy \ {"respond"}
  BY DEF HandlerStep, Dispatch, CountActive, CountToday, Reserve, Parse, CreateSucceeds,
         CreateFails, Activate, MarkFailed, Guards, MarkParent, ListChildren, CancelChild,
         tables, tick, Busy
<1>2. /\ pc[t] = "dispatch" \/ IsSecurity(job[t]) \/ IsFix(job[t])
      /\ job[t] \in Deliveries
  BY <1>1 DEF Routed, RoutedBy, JobOK
<1>3. PICK l \in Busy \ {"dispatch"}, r \in Results :
          /\ pc' = [pc EXCEPT ![t] = l] /\ reply' = [reply EXCEPT ![t] = r]
          /\ r # "exception"
          /\ r # "none" => l \in {"fail", "respond"}
          /\ l \notin {"dispatch", "respond"} => IsSecurity(job[t]) \/ IsFix(job[t])
          /\ l = "respond" => Fits(r, job[t])
  <2>1. CASE Dispatch(t)
    <3>1. reply[t] = "none"
      BY <2>1 DEF Dispatch, Routed, RoutedBy
    <3> QED BY <2>1, <3>1, <1>2, RunsAreFixes DEF Dispatch, IsSecurity, Fits, Busy, Results
  <2>2. CASE CountActive(t) \/ CountToday(t) \/ Reserve(t) \/ Activate(t)
    <3>1. /\ pc[t] \notin {"dispatch", "fail", "respond"}
          /\ IsSecurity(job[t]) \/ IsFix(job[t])
      BY <2>2, <1>2 DEF CountActive, CountToday, Reserve, Activate
    <3>2. reply[t] = "none"
      BY <3>1 DEF Routed, RoutedBy
    <3> QED BY <2>2, <3>1, <3>2, <1>2, FixesAreApart
            DEF CountActive, CountToday, Reserve, Activate, Fits, Busy, Results
  <2>3. CASE Parse(t) \/ CreateSucceeds(t) \/ CreateFails(t)
    <3>1. /\ pc[t] \notin {"dispatch", "fail", "respond"}
          /\ IsSecurity(job[t]) \/ IsFix(job[t])
      BY <2>3, <1>2 DEF Parse, CreateSucceeds, CreateFails
    <3>2. reply[t] = "none"
      BY <3>1 DEF Routed, RoutedBy
    <3>3. Payload[job[t]].body \in {"cve", "not_a_cve", "missing_fields"}
      BY <3>1, <1>1, KeyOfType
    <3> QED BY <2>3, <3>1, <3>2, <3>3
            DEF Parse, CreateSucceeds, CreateFails, RefuseWith, Busy, Results
  <2>4. CASE MarkFailed(t)
    <3>1. reply[t] \in Refusals
      BY <2>4 DEF MarkFailed, LogInv, AnswersOK, Refused
    <3> QED BY <2>4, <3>1 DEF MarkFailed, Refusals, Fits, Busy, Results
  <2>5. CASE Guards(t) \/ MarkParent(t) \/ ListChildren(t) \/ CancelChild(t)
    <3>1. pc[t] \in {"guards", "mark_parent", "list_children", "cancel_child"}
      BY <2>5 DEF Guards, MarkParent, ListChildren, CancelChild
    <3>2. reply[t] = "none" /\ IsFix(job[t])
      BY <3>1 DEF Routed, RoutedBy, Chains, ChainOK
    <3>3. ~IsSecurity(job[t])
      BY <3>2, <1>2, FixesAreApart
    <3> QED BY <2>5, <3>2, <3>3
            DEF Guards, MarkParent, ListChildren, CancelChild, Cancelling, Fits, Busy, Results
  <2> QED BY <2>1, <2>2, <2>3, <2>4, <2>5 DEF HandlerStep
<1>4. \A u \in Threads : u # t => pc'[u] = pc[u] /\ reply'[u] = reply[u] /\ job'[u] = job[u]
  BY <1>1, <1>3
<1>5. RoutedBy(t)'
  BY <1>1, <1>3 DEF RoutedBy, IsSecurity, IsFix, Fits
<1>6. \A u \in Threads : RoutedBy(u)'
  BY <1>4, <1>5 DEF Routed, RoutedBy, IsSecurity, IsFix, Fits
<1>7. (\A d \in Queued \cup batch : IsSecurity(d))'
  BY <1>1 DEF Routed, Queued, IsSecurity
<1>8. (pc[Poller] \in Busy)' => (IsSecurity(job[Poller]) /\ reply[Poller] # "exception")'
  <2>1. CASE t = Poller
    BY <2>1, <1>1, <1>3 DEF Routed, IsSecurity
  <2>2. CASE t # Poller
    BY <2>2, <1>4 DEF Routed, IsSecurity, Threads
  <2> QED BY <2>1, <2>2
<1> QED BY <1>6, <1>7, <1>8 DEF Routed

LEMMA RoutedPoller ==
    ASSUME IInv, LogInv, Routed, PollerStep
    PROVE  Routed'
<1> USE DEF IInv, TypeInv, TypeOK, Goto, Release, tables, tick, threads, Threads
<1>1. CASE HandlerStep(Poller)
  BY <1>1, RoutedHandler
<1>2. CASE PollerResponds
  <2>1. Fits(reply[Poller], job[Poller]) /\ job[Poller] \in Deliveries
    BY <1>2 DEF PollerResponds, Routed, RoutedBy, JobOK, Busy
  <2>2. \A d \in Deliveries : result'[d] = "queued" => result[d] = "queued"
    BY <1>2 DEF PollerResponds, StaysQueued
  <2>3. Queued' \subseteq Queued /\ batch' = batch
    BY <1>2, <2>2 DEF PollerResponds, Queued
  <2>4. \A t \in Threads : RoutedBy(t)'
    BY <1>2 DEF PollerResponds, Routed, RoutedBy, Busy
  <2> QED BY <1>2, <2>3, <2>4 DEF PollerResponds, Routed, Busy, IsSecurity
<1>3. CASE DrainStart \/ DrainDone \/ ListNonTerminal \/ TickDone
             \/ \E k \in WorkKeys : SyncSession(k) \/ SyncFails(k)
  <2>1. reply' = reply /\ job' = job /\ UNCHANGED result /\ batch' = batch
    BY <1>3 DEF DrainStart, DrainDone, ListNonTerminal, TickDone, SyncSession, SyncFails
  <2>2. pc[Poller] \notin Busy /\ pc'[Poller] \notin Busy
    BY <1>3 DEF DrainStart, DrainDone, ListNonTerminal, TickDone, SyncSession, SyncFails, Busy
  <2>3. \A t \in Workers : pc'[t] = pc[t]
    BY <1>3, ThreadsAssumption
       DEF DrainStart, DrainDone, ListNonTerminal, TickDone, SyncSession, SyncFails
  <2>4. reply[Poller] = "none"
    BY <2>2 DEF Routed, RoutedBy, Busy
  <2> QED BY <2>1, <2>2, <2>3, <2>4 DEF Routed, RoutedBy, Busy, Queued, IsSecurity, IsFix, Fits
<1>4. CASE ListQueued
  <2>1. batch' \subseteq Queued /\ UNCHANGED <<result, job, reply>>
    BY <1>4 DEF ListQueued
  <2>2. pc' = [pc EXCEPT ![Poller] = "drain"] /\ pc[Poller] = "list"
    BY <1>4 DEF ListQueued
  <2> QED BY <2>1, <2>2 DEF Routed, RoutedBy, Busy, Queued, IsSecurity, IsFix, Fits
<1>5. CASE DispatchQueued
  <2>1. PICK d \in batch : batch' = batch \ {d} /\ job' = [job EXCEPT ![Poller] = d]
    BY <1>5 DEF DispatchQueued, Oldest
  <2>2. /\ pc' = [pc EXCEPT ![Poller] = "dispatch"] /\ pc[Poller] = "drain"
        /\ UNCHANGED <<result, reply>>
    BY <1>5 DEF DispatchQueued
  <2>3. reply[Poller] = "none"
    BY <2>2 DEF Routed, RoutedBy
  <2> QED BY <2>1, <2>2, <2>3 DEF Routed, RoutedBy, Busy, Queued, IsSecurity, IsFix, Fits
<1> QED BY <1>1, <1>2, <1>3, <1>4, <1>5 DEF PollerStep

LEMMA RoutedNext == IInv /\ LogInv /\ Routed /\ [Next]_vars => Routed'
<1> SUFFICES ASSUME IInv, LogInv, Routed, [Next]_vars PROVE Routed'
  OBVIOUS
<1> USE DEF IInv, TypeInv, TypeOK, Goto, Answer, Release, tables, tick, threads, Threads
<1>1. ASSUME NEW w \in Workers, NEW d \in Deliveries, Receive(w, d) \/ Replay(w, d)
      PROVE  Routed'
  <2>1. /\ pc[w] = "idle" /\ pc' = [pc EXCEPT ![w] = "dispatch"]
        /\ job' = [job EXCEPT ![w] = d] /\ UNCHANGED <<result, reply, batch>>
    BY <1>1 DEF Receive, Replay, StartTask
  <2>2. w # Poller
    BY ThreadsAssumption
  <2> QED BY <2>1, <2>2 DEF Routed, RoutedBy, Busy, Queued, IsSecurity, IsFix, Fits
<1>2. ASSUME NEW w \in Workers, HandlerStep(w)
      PROVE  Routed'
  BY <1>2, RoutedHandler
<1>3. ASSUME NEW w \in Workers, WorkerResponds(w)
      PROVE  Routed'
  <2>1. Fits(reply[w], job[w]) /\ job[w] \in Deliveries /\ w # Poller
    BY <1>3, ThreadsAssumption DEF WorkerResponds, Routed, RoutedBy, JobOK, Busy
  <2>2. /\ result' = [result EXCEPT ![job[w]] = reply[w]] /\ batch' = batch
        /\ pc' = [pc EXCEPT ![w] = "idle"] /\ job' = [job EXCEPT ![w] = None]
        /\ reply' = [reply EXCEPT ![w] = "none"]
    BY <1>3 DEF WorkerResponds
  <2>3. \A d \in Deliveries : result'[d] = "queued" => IsSecurity(d)
    BY <2>1, <2>2 DEF Fits, Routed, Queued
  <2>4. (\A d \in Queued \cup batch : IsSecurity(d))'
    BY <2>2, <2>3 DEF Queued, Routed, IsSecurity
  <2>5. \A t \in Threads : RoutedBy(t)'
    BY <2>2 DEF Routed, RoutedBy, Busy, Fits, IsSecurity, IsFix
  <2> QED BY <2>1, <2>2, <2>4, <2>5 DEF Routed, IsSecurity
<1>4. CASE PollerStep
  BY <1>4, RoutedPoller
<1>5. ASSUME NEW t \in Threads, HandlerRaises(t)
      PROVE  Routed'
  <2>1. UNCHANGED <<result, batch>>
    BY <1>5 DEF HandlerRaises
  <2>2. CASE t = Poller
    <3>1. /\ pc' = [pc EXCEPT ![t] = "drain"] /\ job' = [job EXCEPT ![t] = None]
          /\ reply' = [reply EXCEPT ![t] = "none"]
      BY <1>5, <2>2 DEF HandlerRaises, RetryCrashed
    <3> QED BY <2>1, <2>2, <3>1 DEF Routed, RoutedBy, Busy, Queued, IsSecurity, IsFix, Fits
  <2>3. CASE t # Poller
    <3>1. /\ pc' = [pc EXCEPT ![t] = "respond"] /\ job' = job
          /\ reply' = [reply EXCEPT ![t] = "exception"]
      BY <1>5, <2>3 DEF HandlerRaises
    <3> QED BY <2>1, <2>3, <3>1 DEF Routed, RoutedBy, Busy, Queued, IsSecurity, IsFix, Fits
  <2> QED BY <2>2, <2>3
<1>6. ASSUME NEW w \in Workers, MarkProcessedRaises(w)
      PROVE  Routed'
  BY <1>6 DEF MarkProcessedRaises, Routed, RoutedBy, Busy, Queued, IsSecurity, IsFix, Fits
<1>7. CASE TickRaises
  BY <1>7 DEF TickRaises, Routed, RoutedBy, Busy, Queued, IsSecurity, IsFix, Fits
<1>8. CASE Crash
  BY <1>8 DEF Crash, Routed, RoutedBy, Busy, Queued, IsSecurity
<1>9. CASE NextDay \/ UNCHANGED vars
  BY <1>9 DEF NextDay, vars, Routed, RoutedBy, Busy, Queued, IsSecurity, IsFix, Fits
<1> QED
  BY <1>1, <1>2, <1>3, <1>4, <1>5, <1>6, <1>7, <1>8, <1>9 DEF Next

LEMMA AlwaysRouted == Spec => [](LogInv /\ Routed)
<1>1. Init => LogInv /\ Routed
  BY ThreadsAssumption
     DEF Init, Routed, RoutedBy, Queued, Busy, LogInv, Settled, AnswersOK, Truthful,
         Refusals, Threads
<1> QED BY <1>1, LogNext, RoutedNext, Inductive, PTL DEF Spec

(***************************************************************************)
(* One at a time.  Until somebody replays, a delivery is with one pool     *)
(* thread until it has a result, and then, if it is queued, with the       *)
(* poller alone.                                                           *)
(***************************************************************************)
WithWorkers ==
    /\ \A w \in Workers : pc[w] \in Busy =>
           received[job[w]] # 0 /\ result[job[w]] = "none"
    /\ \A v, w \in Workers :
           pc[v] \in Busy /\ pc[w] \in Busy /\ job[v] = job[w] => v = w

WithPoller ==
    /\ batch \subseteq Queued
    /\ pc[Poller] \in Busy => result[job[Poller]] = "queued" /\ job[Poller] \notin batch

NotEarly == \A d \in Deliveries : received[d] = 0 => result[d] = "none"

Solo == replays = 0 => WithWorkers /\ WithPoller /\ NotEarly

LEMMA SoloFrame ==
    ASSUME Solo, UNCHANGED <<received, result, replays>>, batch' \subseteq batch,
           \A t \in Threads : pc'[t] \in Busy => pc[t] \in Busy /\ job'[t] = job[t]
    PROVE  Solo'
BY DEF Solo, WithWorkers, WithPoller, NotEarly, Queued, Threads

LEMMA SoloNext == IInv /\ Solo /\ [Next]_vars => Solo'
<1> SUFFICES ASSUME IInv, Solo, [Next]_vars PROVE Solo'
  OBVIOUS
<1> USE DEF IInv, TypeInv, TypeOK, JobOK, Goto, Answer, Release, tables, tick, threads,
            budget, Threads
<1>1. ASSUME NEW w \in Workers, NEW d \in Deliveries, Receive(w, d)
      PROVE  Solo'
  <2> SUFFICES ASSUME replays = 0 PROVE Solo'
    BY <1>1 DEF Receive, Solo
  <2>1. /\ received[d] = 0 /\ result[d] = "none" /\ pc[w] = "idle"
        /\ \A v \in Workers : pc[v] \in Busy => job[v] # d
    BY <1>1 DEF Receive, IsNew, StartTask, Solo, WithWorkers, NotEarly
  <2>2. PICK s \in ArrivalSeconds : received' = [received EXCEPT ![d] = s]
    BY <1>1 DEF Receive
  <2>3. s # 0
    BY DEF ArrivalSeconds
  <2>4. /\ pc' = [pc EXCEPT ![w] = "dispatch"] /\ job' = [job EXCEPT ![w] = d]
        /\ UNCHANGED <<result, batch, replays>>
    BY <1>1 DEF Receive, StartTask
  <2>5. w # Poller
    BY ThreadsAssumption
  <2>6. WithWorkers'
    BY <2>1, <2>2, <2>3, <2>4 DEF Solo, WithWorkers, Busy
  <2>7. WithPoller'
    BY <2>4, <2>5 DEF Solo, WithPoller, Queued
  <2>8. NotEarly'
    BY <2>2, <2>3, <2>4 DEF Solo, NotEarly
  <2> QED BY <2>6, <2>7, <2>8 DEF Solo
<1>2. ASSUME NEW w \in Workers, NEW d \in Deliveries, Replay(w, d)
      PROVE  Solo'
  BY <1>2 DEF Replay, Solo
<1>3. ASSUME NEW t \in Threads, HandlerStep(t)
      PROVE  Solo'
  <2>1. /\ UNCHANGED <<received, result, replays, batch, job>> /\ pc[t] \in Busy
        /\ \A u \in Threads : u # t => pc'[u] = pc[u]
    BY <1>3 DEF HandlerStep, Dispatch, CountActive, CountToday, Reserve, Parse, RefuseWith,
                CreateSucceeds, CreateFails, Activate, MarkFailed, Guards, MarkParent,
                ListChildren, CancelChild, Cancelling, Busy
  <2> QED BY <2>1, SoloFrame
<1>4. ASSUME NEW w \in Workers, WorkerResponds(w)
      PROVE  Solo'
  <2> SUFFICES ASSUME replays = 0 PROVE Solo'
    BY <1>4 DEF WorkerResponds, Solo
  <2>1. /\ result' = [result EXCEPT ![job[w]] = reply[w]]
        /\ pc' = [pc EXCEPT ![w] = "idle"] /\ job' = [job EXCEPT ![w] = None]
        /\ UNCHANGED <<received, batch, replays>> /\ pc[w] \in Busy
    BY <1>4 DEF WorkerResponds, Busy
  <2>2. received[job[w]] # 0 /\ result[job[w]] = "none" /\ w # Poller
    BY <2>1, ThreadsAssumption DEF Solo, WithWorkers
  <2>3. WithWorkers'
    BY <2>1, <2>2 DEF Solo, WithWorkers, Busy
  <2>4. WithPoller'
    BY <2>1, <2>2 DEF Solo, WithPoller, Queued
  <2>5. NotEarly'
    BY <2>1, <2>2 DEF Solo, NotEarly
  <2> QED BY <2>3, <2>4, <2>5 DEF Solo
<1>5. CASE PollerResponds
  <2> SUFFICES ASSUME replays = 0 PROVE Solo'
    BY <1>5 DEF PollerResponds, Solo
  <2>1. /\ \A d \in Deliveries : d # job[Poller] => result'[d] = result[d]
        /\ pc' = [pc EXCEPT ![Poller] = "drain"] /\ job' = [job EXCEPT ![Poller] = None]
        /\ UNCHANGED <<received, batch, replays>> /\ pc[Poller] \in Busy
    BY <1>5 DEF PollerResponds, Busy
  <2>2. result[job[Poller]] = "queued" /\ job[Poller] \notin batch
    BY <2>1 DEF Solo, WithPoller
  <2>3. WithWorkers'
    BY <2>1, <2>2, ThreadsAssumption DEF Solo, WithWorkers, Busy
  <2>4. WithPoller'
    BY <2>1, <2>2 DEF Solo, WithPoller, Queued, Busy
  <2>5. NotEarly'
    BY <2>1, <2>2 DEF Solo, NotEarly
  <2> QED BY <2>3, <2>4, <2>5 DEF Solo
<1>6. CASE ListQueued
  <2>1. /\ batch' \subseteq Queued /\ pc' = [pc EXCEPT ![Poller] = "drain"]
        /\ UNCHANGED <<received, result, job, replays>>
    BY <1>6 DEF ListQueued
  <2> QED BY <2>1, ThreadsAssumption
          DEF Solo, WithWorkers, WithPoller, NotEarly, Queued, Busy
<1>7. CASE DispatchQueued
  <2>1. PICK d \in batch : batch' = batch \ {d} /\ job' = [job EXCEPT ![Poller] = d]
    BY <1>7 DEF DispatchQueued, Oldest
  <2>2. /\ pc' = [pc EXCEPT ![Poller] = "dispatch"]
        /\ UNCHANGED <<received, result, replays>>
    BY <1>7 DEF DispatchQueued
  <2> QED BY <2>1, <2>2, ThreadsAssumption
          DEF Solo, WithWorkers, WithPoller, NotEarly, Queued, Busy
<1>8. CASE DrainStart \/ DrainDone \/ ListNonTerminal \/ TickDone
             \/ \E k \in WorkKeys : SyncSession(k) \/ SyncFails(k)
  BY <1>8, SoloFrame
     DEF DrainStart, DrainDone, ListNonTerminal, TickDone, SyncSession, SyncFails, Busy
<1>9. ASSUME NEW t \in Threads, HandlerRaises(t)
      PROVE  Solo'
  BY <1>9, SoloFrame DEF HandlerRaises, RetryCrashed, RaisingSteps, Busy
<1>10. ASSUME NEW w \in Workers, MarkProcessedRaises(w)
      PROVE  Solo'
  BY <1>10, SoloFrame DEF MarkProcessedRaises, Busy
<1>11. CASE TickRaises \/ Crash \/ NextDay \/ UNCHANGED vars
  BY <1>11, SoloFrame DEF TickRaises, Crash, NextDay, vars, Busy
<1> QED
  BY <1>1, <1>2, <1>3, <1>4, <1>5, <1>6, <1>7, <1>8, <1>9, <1>10, <1>11
     DEF Next, PollerStep

LEMMA AlwaysSolo == Spec => []Solo
<1>1. Init => Solo
  BY ThreadsAssumption
     DEF Init, Solo, WithWorkers, WithPoller, NotEarly, Queued, Busy, Threads
<1> QED BY <1>1, SoloNext, Inductive, PTL DEF Spec

(***************************************************************************)
(* The queue.                                                              *)
(***************************************************************************)
Kept(d) ==
    (result[d] = "queued" /\ result'[d] # "queued") =>
        \/ sessions[Payload[d].work].status # "none"
        \/ result'[d] = "daily_cap"
        \/ result'[d] = "exception" /\ replays > 0

\* An answer about a security event that was queued: it is about a row, unless
\* the daily cap turned the event away or the retry crashed.
LEMMA AnswerAccounts ==
    ASSUME IInv, LogInv, Routed, NEW t \in Threads, pc[t] = "respond",
           result[job[t]] = "queued"
    PROVE  \/ sessions[KeyOf(t)].status # "none"
           \/ reply[t] \in {"queued", "daily_cap", "exception"}
<1>1. job[t] \in Deliveries /\ KeyOf(t) \in WorkKeys
  BY KeyOfType DEF IInv, Busy
<1>2. Truthful(reply[t], KeyOf(t)) /\ Fits(reply[t], job[t])
  BY DEF LogInv, AnswersOK, Settled, Routed, RoutedBy
<1>3. IsSecurity(job[t])
  BY <1>1 DEF Routed, Queued
<1>4. reply[t] \in Results \ {"none", "ignored", "skipped", "escalated"}
  BY <1>2, <1>3 DEF Fits, IInv, TypeInv, TypeOK
<1>5. RowOK(KeyOf(t))
  BY <1>1 DEF IInv, Custody
<1> QED BY <1>2, <1>4, <1>5 DEF Truthful, RowOK, Results, Refusals

LEMMA KeptNext ==
    ASSUME IInv, LogInv, Routed, Solo, [Next]_vars, NEW d \in Deliveries
    PROVE  Kept(d)
<1> USE DEF IInv, TypeInv, TypeOK
<1>1. ASSUME NEW w \in Workers, WorkerResponds(w), result[d] = "queued", d = job[w]
      PROVE  Kept(d)
  <2>1. pc[w] = "respond" /\ result'[d] = reply[w]
    BY <1>1 DEF WorkerResponds
  <2>2. sessions[KeyOf(w)].status # "none" \/ reply[w] \in {"queued", "daily_cap", "exception"}
    BY <1>1, <2>1, AnswerAccounts DEF Threads
  <2>3. replays > 0
    <3>1. replays # 0
      BY <1>1, <2>1 DEF Solo, WithWorkers, Busy
    <3> QED BY <3>1
  <2> QED BY <1>1, <2>1, <2>2, <2>3 DEF Kept, KeyOf
<1>2. ASSUME PollerResponds, result[d] = "queued", d = job[Poller]
      PROVE  Kept(d)
  <2>1. pc[Poller] = "respond" /\ result'[d] \in {result[d], reply[Poller]}
    BY <1>2 DEF PollerResponds
  <2>2. \/ sessions[KeyOf(Poller)].status # "none"
        \/ reply[Poller] \in {"queued", "daily_cap", "exception"}
    BY <1>2, <2>1, AnswerAccounts DEF Threads
  <2>3. reply[Poller] # "exception"
    BY <2>1 DEF Routed, Busy
  <2> QED BY <1>2, <2>1, <2>2, <2>3 DEF Kept, KeyOf
<1>3. \/ result'[d] = result[d]
      \/ \E w \in Workers : WorkerResponds(w) /\ d = job[w]
      \/ PollerResponds /\ d = job[Poller]
  BY DEF Next, Receive, Replay, HandlerStep, Dispatch, CountActive, CountToday, Reserve,
         Parse, CreateSucceeds, CreateFails, Activate, MarkFailed, Guards, MarkParent,
         ListChildren, CancelChild, WorkerResponds,
         PollerStep, PollerResponds, DrainStart, ListQueued, DispatchQueued, DrainDone,
         ListNonTerminal, TickDone, SyncSession, SyncFails, HandlerRaises,
         MarkProcessedRaises, TickRaises, Crash, NextDay, vars, tables
<1> QED BY <1>1, <1>2, <1>3 DEF Kept

\* An event leaves the queue only when its work has a row or the daily cap
\* turns it away, whatever crashes and whoever replays; a retry that crashes
\* leaves it there, unless an operator's replay is what crashed.
THEOREM QueueIsLossless == Spec => QueueNeverLoses
<1>1. IInv /\ LogInv /\ Routed /\ Solo /\ [Next]_vars =>
          [\A d \in Deliveries :
             (result[d] = "queued" /\ result'[d] # "queued") =>
                \/ sessions[Payload[d].work].status # "none"
                \/ result'[d] = "daily_cap"
                \/ result'[d] = "exception" /\ replays > 0]_vars
  BY KeptNext DEF Kept
<1> QED BY <1>1, Inductive, AlwaysRouted, AlwaysSolo, PTL DEF Spec, QueueNeverLoses

(***************************************************************************)
(* Reservations.  Until something crashes a holder lets go of its key only *)
(* by settling the row.                                                    *)
(***************************************************************************)
LEMMA HeldFrame ==
    ASSUME NoAbandonedReservation, UNCHANGED sessions,
           crashes' = 0 /\ faults' = 0 => crashes = 0 /\ faults = 0,
           crashes' = 0 /\ faults' = 0 =>
               \A t \in Threads : pc[t] \in Owning => pc'[t] \in Owning /\ job'[t] = job[t]
    PROVE  NoAbandonedReservation'
BY DEF NoAbandonedReservation, Holds, KeyOf, Owning

\* Writing a status over a row only takes it out of 'reserving'.
LEMMA HeldRewrites ==
    ASSUME IInv, NoAbandonedReservation, UNCHANGED <<crashes, faults>>,
           \/ \E t \in Threads : MarkParent(t) \/ CancelChild(t)
           \/ \E k \in WorkKeys : SyncSession(k)
    PROVE  NoAbandonedReservation'
<1>1. PICK k \in WorkKeys, s \in Statuses \ {"reserving"} :
          /\ sessions' = [sessions EXCEPT ![k] = WithStatus(@, s)]
          /\ UNCHANGED job
  BY Rewrites
<1>2. /\ sessions'[k].status # "reserving"
      /\ \A j \in WorkKeys : j # k => sessions'[j] = sessions[j]
  <2>1. sessions'[k] = WithStatus(sessions[k], s) /\ sessions[k] \in Rows
        /\ \A j \in WorkKeys : j # k => sessions'[j] = sessions[j]
    BY <1>1, Written DEF IInv, TypeInv, TypeOK
  <2> QED BY <2>1, Rewritten
<1>3. \A t \in Threads : pc[t] \in Owning => pc'[t] = pc[t]
  BY DEF MarkParent, CancelChild, Cancelling, SyncSession, Goto, Answer, threads, Owning,
         IInv, TypeInv, TypeOK
<1> QED BY <1>1, <1>2, <1>3 DEF NoAbandonedReservation, Holds, KeyOf, Owning

LEMMA HeldHandler ==
    ASSUME IInv, NoAbandonedReservation, NEW t \in Threads, HandlerStep(t)
    PROVE  NoAbandonedReservation'
<1> USE DEF IInv, TypeInv, TypeOK, Goto, Answer, tables, budget
<1>1. CASE Dispatch(t) \/ CountActive(t) \/ CountToday(t)
             \/ (Reserve(t) /\ ~KeyIsFree(KeyOf(t)))
  BY <1>1, HeldFrame DEF Dispatch, CountActive, CountToday, Reserve, Owning
<1>2. CASE Parse(t) \/ CreateSucceeds(t) \/ CreateFails(t)
  BY <1>2, HeldFrame DEF Parse, CreateSucceeds, CreateFails, RefuseWith, Owning
<1>3. CASE Reserve(t) /\ KeyIsFree(KeyOf(t))
  <2>1. /\ pc'[t] \in {"parse", "create"} /\ pc[t] = "reserve"
        /\ \A u \in Threads : u # t => pc'[u] = pc[u]
        /\ UNCHANGED <<job, crashes, faults>>
        /\ \A k \in WorkKeys : k # KeyOf(t) => sessions'[k] = sessions[k]
    BY <1>3 DEF Reserve
  <2> QED BY <2>1 DEF NoAbandonedReservation, Holds, KeyOf
<1>4. CASE Activate(t) \/ MarkFailed(t)
  <2>1. PICK k \in WorkKeys : k = KeyOf(t)
    BY <1>4, KeyOfType DEF Activate, MarkFailed, Busy
  <2>2. \A j \in WorkKeys : j # k => sessions'[j] = sessions[j]
    BY <1>4, <2>1 DEF Activate, MarkFailed
  <2>3. sessions'[k].status # "reserving"
    <3>1. CASE Activate(t)
      <4>1. sessions'[k] = ActivateRow(sessions[k]) /\ sessions[k] \in Rows
        BY <2>1, <3>1 DEF Activate
      <4> QED BY <4>1, Activated
    <3>2. CASE MarkFailed(t)
      <4>1. /\ sessions'[k] = WithStatus(sessions[k], "failed") /\ sessions[k] \in Rows
            /\ "failed" \in Statuses
        BY <2>1, <3>2, StatusNames DEF MarkFailed
      <4>2. sessions'[k].status = "failed"
        BY <4>1, Rewritten
      <4> QED BY <4>2
    <3> QED BY <1>4, <3>1, <3>2
  <2>4. /\ UNCHANGED <<job, crashes, faults>>
        /\ \A u \in Threads : u # t => pc'[u] = pc[u]
    BY <1>4 DEF Activate, MarkFailed
  <2> QED BY <2>1, <2>2, <2>3, <2>4 DEF NoAbandonedReservation, Holds, KeyOf
<1>5. CASE MarkParent(t) \/ CancelChild(t)
  <2>1. UNCHANGED <<crashes, faults>>
    BY <1>5 DEF MarkParent, CancelChild
  <2> QED BY <1>5, <2>1, HeldRewrites
<1>6. CASE Guards(t) \/ ListChildren(t)
  BY <1>6, HeldFrame DEF Guards, ListChildren, Cancelling, Owning
<1> QED BY <1>1, <1>2, <1>3, <1>4, <1>5, <1>6 DEF HandlerStep

LEMMA HeldNext ==
    IInv /\ NoAbandonedReservation /\ [Next]_vars => NoAbandonedReservation'
<1> SUFFICES ASSUME IInv, NoAbandonedReservation, [Next]_vars
             PROVE  NoAbandonedReservation'
  OBVIOUS
<1> USE DEF IInv, TypeInv, TypeOK, Goto, Answer, Release, Owning, tables, tick, threads,
            budget, Threads
<1>1. ASSUME NEW w \in Workers, NEW d \in Deliveries, Receive(w, d) \/ Replay(w, d)
      PROVE  NoAbandonedReservation'
  BY <1>1, HeldFrame DEF Receive, Replay, StartTask
<1>2. ASSUME NEW t \in Threads, HandlerStep(t)
      PROVE  NoAbandonedReservation'
  BY <1>2, HeldHandler
<1>3. ASSUME NEW w \in Workers, WorkerResponds(w)
      PROVE  NoAbandonedReservation'
  BY <1>3, HeldFrame DEF WorkerResponds
<1>4. CASE PollerResponds \/ DrainStart \/ ListQueued \/ DispatchQueued \/ DrainDone
             \/ ListNonTerminal \/ TickDone \/ \E k \in WorkKeys : SyncFails(k)
  BY <1>4, HeldFrame
     DEF PollerResponds, DrainStart, ListQueued, DispatchQueued, DrainDone,
         ListNonTerminal, TickDone, SyncFails
<1>5. ASSUME NEW k \in WorkKeys, SyncSession(k)
      PROVE  NoAbandonedReservation'
  <2>1. UNCHANGED <<crashes, faults>>
    BY <1>5 DEF SyncSession
  <2> QED BY <1>5, <2>1, HeldRewrites
<1>6. CASE (\E t \in Threads : HandlerRaises(t)) \/ TickRaises
             \/ \E w \in Workers : MarkProcessedRaises(w)
  <2>1. faults' # 0
    BY <1>6 DEF HandlerRaises, TickRaises, MarkProcessedRaises, Faulty
  <2> QED BY <2>1 DEF NoAbandonedReservation
<1>7. CASE Crash
  <2>1. crashes' # 0
    BY <1>7 DEF Crash
  <2> QED BY <2>1 DEF NoAbandonedReservation
<1>8. CASE NextDay \/ UNCHANGED vars
  BY <1>8, HeldFrame DEF NextDay, vars
<1> QED
  BY <1>1, <1>2, <1>3, <1>4, <1>5, <1>6, <1>7, <1>8 DEF Next, PollerStep

\* Until a crash or an exception, every reserving row is in some thread's
\* hands, so the slot it takes is given back; a reservation that nobody holds
\* takes a crash.
THEOREM ReservationsAreHeld == Spec => []NoAbandonedReservation
<1>1. Init => NoAbandonedReservation
  BY DEF Init, NoRow, NoAbandonedReservation
<1> QED BY <1>1, HeldNext, Inductive, PTL DEF Spec

(***************************************************************************)
(* Accounts.  A thread that has created a session says so, and what it     *)
(* says is not written over: its delivery has no result yet, or was        *)
(* queued, and is nobody else's.                                           *)
(***************************************************************************)
SaysCreated(d) ==
    \/ result[d] = "created"
    \/ \E t \in Threads : job[t] = d /\ reply[t] = "created"

Quiet == crashes = 0 /\ faults = 0 /\ replays = 0

LEMMA StillSaid ==
    ASSUME IInv, LogInv, Routed, Solo, [Next]_vars, Quiet', NEW d \in Deliveries,
           SaysCreated(d)
    PROVE  SaysCreated(d)'
<1> USE DEF IInv, TypeInv, TypeOK, SaysCreated, Goto, Answer, Release, tables, tick,
            threads, budget, Threads, Quiet
<1>1. \A t \in Threads : reply[t] = "created" => pc[t] = "respond"
  BY DEF Routed, RoutedBy, LogInv, AnswersOK, Refused, Refusals
<1>2. ASSUME NEW w \in Workers, WorkerResponds(w)
      PROVE  SaysCreated(d)'
  <2>1. result' = [result EXCEPT ![job[w]] = reply[w]] /\ pc[w] = "respond"
    BY <1>2 DEF WorkerResponds
  <2>2. CASE job[w] = d
    <3>1. result[d] = "none"
      BY <1>2, <2>1, <2>2 DEF WorkerResponds, Solo, WithWorkers, Busy
    <3>2. PICK t \in Threads : job[t] = d /\ reply[t] = "created"
      BY <3>1
    <3>3. t = w
      BY <1>1, <1>2, <2>1, <2>2, <3>1, <3>2
         DEF WorkerResponds, Solo, WithWorkers, WithPoller, Busy
    <3> QED BY <2>1, <2>2, <3>2, <3>3
  <2>3. CASE job[w] # d
    BY <1>2, <2>1, <2>3 DEF WorkerResponds
  <2> QED BY <2>2, <2>3
<1>3. CASE PollerResponds
  <2>1. /\ result' \in {result, [result EXCEPT ![job[Poller]] = reply[Poller]]}
        /\ reply[Poller] # "queued" =>
               result' = [result EXCEPT ![job[Poller]] = reply[Poller]]
        /\ pc[Poller] = "respond"
    BY <1>3 DEF PollerResponds, StaysQueued
  <2>2. CASE job[Poller] = d
    <3>1. result[d] = "queued"
      BY <1>3, <2>1, <2>2 DEF PollerResponds, Solo, WithPoller, Busy
    <3>2. PICK t \in Threads : job[t] = d /\ reply[t] = "created"
      BY <3>1
    <3>3. t = Poller
      BY <1>1, <1>3, <3>1, <3>2 DEF PollerResponds, Solo, WithWorkers, Busy
    <3> QED BY <2>1, <2>2, <3>2, <3>3
  <2>3. CASE job[Poller] # d
    BY <1>3, <2>1, <2>3 DEF PollerResponds
  <2> QED BY <2>2, <2>3
<1>4. CASE UNCHANGED result
             /\ \A t \in Threads : pc[t] = "respond" => UNCHANGED <<job[t], reply[t]>>
  BY <1>1, <1>4
<1>5. \/ \E w \in Workers : WorkerResponds(w)
      \/ PollerResponds
      \/ UNCHANGED result
             /\ \A t \in Threads : pc[t] = "respond" => UNCHANGED <<job[t], reply[t]>>
  <2>1. ASSUME NEW w \in Workers, NEW e \in Deliveries, Receive(w, e) \/ Replay(w, e)
        PROVE  UNCHANGED result
               /\ \A t \in Threads : pc[t] = "respond" => UNCHANGED <<job[t], reply[t]>>
    BY <2>1 DEF Receive, Replay, StartTask
  <2>2. ASSUME NEW u \in Threads, HandlerStep(u)
        PROVE  UNCHANGED result
               /\ \A t \in Threads : pc[t] = "respond" => UNCHANGED <<job[t], reply[t]>>
    BY <2>2 DEF HandlerStep, Dispatch, CountActive, CountToday, Reserve, Parse, RefuseWith,
                CreateSucceeds, CreateFails, Activate, MarkFailed, Guards, MarkParent,
                ListChildren, CancelChild, Cancelling
  <2>3. CASE DrainStart \/ ListQueued \/ DispatchQueued \/ DrainDone \/ ListNonTerminal
               \/ TickDone \/ NextDay \/ UNCHANGED vars
               \/ \E k \in WorkKeys : SyncSession(k) \/ SyncFails(k)
    BY <2>3 DEF DrainStart, ListQueued, DispatchQueued, DrainDone, ListNonTerminal, TickDone,
                NextDay, vars, SyncSession, SyncFails
  <2>4. ~Crash /\ ~TickRaises /\ ~(\E t \in Threads : HandlerRaises(t))
        /\ ~(\E w \in Workers : MarkProcessedRaises(w))
    BY DEF Crash, TickRaises, HandlerRaises, MarkProcessedRaises, Faulty
  <2> QED BY <2>1, <2>2, <2>3, <2>4 DEF Next, PollerStep
<1> QED BY <1>2, <1>3, <1>4, <1>5

LEMMA ExplainedNext ==
    IInv /\ LogInv /\ Routed /\ Solo /\ EverySessionIsExplained /\ [Next]_vars
        => EverySessionIsExplained'
<1> SUFFICES ASSUME IInv, LogInv, Routed, Solo, EverySessionIsExplained, [Next]_vars,
                    Quiet', NEW k \in WorkKeys, sessions'[k].tracked
             PROVE  \E d \in Deliveries : Payload[d].work = k /\ SaysCreated(d)'
  BY DEF EverySessionIsExplained, SaysCreated, Quiet
<1> USE DEF IInv, TypeInv, TypeOK, tables, budget
<1>1. Quiet
  <2>1. ASSUME NEW t \in Threads, HandlerStep(t)
        PROVE  Quiet
    BY <2>1 DEF HandlerStep, Dispatch, CountActive, CountToday, Reserve, Parse, CreateSucceeds,
                CreateFails, Activate, MarkFailed, Guards, MarkParent, ListChildren,
                CancelChild, Quiet
  <2>2. CASE ~ \E t \in Threads : HandlerStep(t)
    BY <2>2 DEF Next, Receive, Replay, WorkerResponds, PollerStep, PollerResponds, DrainStart,
                ListQueued, DispatchQueued, DrainDone, ListNonTerminal, TickDone, SyncSession,
                SyncFails, HandlerRaises, Faulty, MarkProcessedRaises, TickRaises, Crash,
                NextDay, vars, Quiet, Threads
  <2> QED BY <2>1, <2>2
<1>2. CASE sessions[k].tracked
  <2>1. PICK d \in Deliveries : Payload[d].work = k /\ SaysCreated(d)
    BY <1>1, <1>2 DEF EverySessionIsExplained, SaysCreated, Quiet
  <2> QED BY <2>1, StillSaid
<1>3. ASSUME NEW t \in Threads, Activate(t), KeyOf(t) = k
      PROVE  \E d \in Deliveries : Payload[d].work = k /\ SaysCreated(d)'
  <2>1. job[t] \in Deliveries /\ Payload[job[t]].work = k
    BY <1>3, KeyOfType DEF Activate, Busy, KeyOf
  <2>2. reply'[t] = "created" /\ job'[t] = job[t]
    BY <1>3 DEF Activate, Answer
  <2> QED BY <2>1, <2>2 DEF SaysCreated
<1>4. CASE ~sessions[k].tracked
  <2>1. sessions[k] \in Rows
    OBVIOUS
  <2>2. PICK t \in Threads : Activate(t) /\ KeyOf(t) = k
    <3>1. \A s \in Statuses : ~WithStatus(sessions[k], s).tracked
      BY <1>4, <2>1, Rewritten
    <3>2. \A t \in Threads : ~ReservedRow(t).tracked
      BY DEF ReservedRow, NoRow
    <3> QED BY <1>4, <3>1, <3>2, RowSteps DEF RowStep
  <2> QED BY <1>3, <2>2
<1> QED BY <1>2, <1>4

\* Until a crash, an exception or a replay, every session that the service
\* tracks, and so pays for, is the result of a delivery with its issue.
THEOREM SessionsAreExplained == Spec => []EverySessionIsExplained
<1>1. Init => EverySessionIsExplained
  BY DEF Init, NoRow, EverySessionIsExplained
<1> QED BY <1>1, ExplainedNext, Inductive, AlwaysRouted, AlwaysSolo, PTL DEF Spec
=============================================================================
