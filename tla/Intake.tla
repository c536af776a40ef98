------------------------------- MODULE Intake -------------------------------
(***************************************************************************)
(* From a GitHub webhook to a paid Devin session: the receiver             *)
(* (app/routes/webhook.py), the router (app/dispatcher.py), the handlers   *)
(* (app/handlers.py), the queue of events over the concurrency cap         *)
(* (app/orchestrator.py drain_queue), the two tables (app/db/sessions.py,  *)
(* app/db/webhook_events.py) and the admin replay (app/routes/admin.py).   *)
(*                                                                         *)
(* handle_ci_failure and the escalation are here with every write they     *)
(* make to the sessions table, because the rows of CI fixes share the key  *)
(* column and both counters with those of issues.  Which row the failed    *)
(* run belongs to, how many attempts it has had and why a guard turns it   *)
(* away are left open here; FixLoop has them.                              *)
(*                                                                         *)
(* Every helper of app/db opens its own autocommit connection, so each     *)
(* call is one atomic step and everything between two calls interleaves    *)
(* with the other threads: the pool threads that run background tasks and  *)
(* the poller's thread.  pc[t] is the next call thread t makes.            *)
(***************************************************************************)
EXTENDS Integers, FiniteSets, SessionStatus, Dispatcher

CONSTANTS
    Deliveries,               \* X-GitHub-Delivery ids
    Payload,                  \* Payload[d]: the event delivery d carries
    None,                     \* no delivery, no row
    Workers,                  \* threads that run background tasks
    Poller,                   \* the thread that runs poll_once
    MAX_CONCURRENT_SESSIONS,
    MAX_SESSIONS_PER_DAY,
    SyncedStatuses,           \* statuses a poll may write into a row
    LostPerCall,              \* responses to a create POST that may get lost
    MaxCrashes,               \* bounds: process crashes,
    MaxFaults,                \*   exceptions raised by a database call,
    MaxReplays,               \*   admin replays,
    LastDay                   \*   and the last day of the run

Threads == Workers \cup {Poller}

\* Deliveries about a workflow run.  make_work_key and make_ci_fix_work_key
\* never give an issue and a run the same key.
IsFix(d) == Payload[d].event = "workflow_run"

WorkKeys == {Payload[d].work : d \in Deliveries}
CiFixKeys == {Payload[d].work : d \in {e \in Deliveries : IsFix(e)}}
IssueKeys == WorkKeys \ CiFixKeys

ASSUME DeliveriesAssumption ==
    /\ IsFiniteSet(Deliveries)
    /\ None \notin Deliveries
    /\ DOMAIN Payload = Deliveries
    /\ \A d \in Deliveries :
         /\ Payload[d].work # None
         /\ Payload[d].work \in CiFixKeys => IsFix(d)
         /\ Payload[d].body \in {"cve", "not_a_cve", "missing_fields"}

ASSUME ThreadsAssumption == IsFiniteSet(Workers) /\ Poller \notin Workers

ASSUME CapsAssumption ==
    /\ MAX_CONCURRENT_SESSIONS \in Nat \ {0}
    /\ MAX_SESSIONS_PER_DAY \in Nat \ {0}

ASSUME SyncAssumption == SyncedStatuses \subseteq PollOutcomes

ASSUME BoundsAssumption ==
    /\ LostPerCall \in Nat
    /\ MaxCrashes \in Nat
    /\ MaxFaults \in Nat
    /\ MaxReplays \in Nat
    /\ LastDay \in Nat

VARIABLES
    received,   \* received[d]: received_at (in seconds), 0 = no such row
    result,     \* result[d]: handler_result, "none" = NULL
    sessions,   \* sessions[k]: the row with work_key k
    paid,       \* paid[k]: sessions Devin created for k (external)
    today,      \* the date the database sees
    pc, job, reply,             \* each thread: next call, delivery, answer
    parent, todo,               \* handle_ci_failure: the row of the session to
                                \*   fix, children an escalation has to cancel
    capacity, batch, snapshot,  \* the poller's tick: LIMIT, queued events
                                \*   and non-terminal rows it has read
    crashes, faults, replays    \* what the bounds have left room for

tables == <<received, result, sessions>>
chain == <<parent, todo>>
threads == <<pc, job, reply, chain>>
tick == <<capacity, batch, snapshot>>
budget == <<crashes, faults, replays>>
vars == <<tables, paid, today, threads, tick, budget>>

-----------------------------------------------------------------------------
(* Rows and queries. *)

NoRow == [status |-> "none", tracked |-> FALSE, day |-> 0, parent |-> None,
          ended |-> FALSE]

\* tracked: the row has a devin_session_id.  parent: the row of the session
\* that a CI fix continues.  ended: a history variable that no code reads, the
\* row has had a terminal status.
Rows == [status : {"none"} \cup Statuses, tracked : BOOLEAN, day : Nat,
         parent : WorkKeys \cup {None}, ended : BOOLEAN]

WithStatus(row, s) ==
    [row EXCEPT !.status = s, !.ended = @ \/ s \in TERMINAL_STATUSES]

\* "skipped": any of the refusals of handle_ci_failure.
Results == {"none", "queued", "created", "already_reserved", "daily_cap",
            "not_a_cve", "missing_fields", "create_failed", "exception",
            "ignored", "skipped", "escalated"}

KeyOf(t) == Payload[job[t]].work

ActiveKeys == {k \in WorkKeys : sessions[k].status \in ACTIVE_STATUSES}
StartedToday == {k \in WorkKeys : sessions[k].status # "none"
                                    /\ sessions[k].day = today}
Queued == {d \in Deliveries : result[d] = "queued"}

\* Altered: rows still being reserved do not count as active.
TrackedActive == Cardinality({k \in ActiveKeys : sessions[k].tracked})

count_active == Cardinality(ActiveKeys)

\* Altered: sessions that are over no longer count.
ActiveToday == Cardinality(StartedToday \cap ActiveKeys)

count_started_today == Cardinality(StartedToday)

\* The elements of a set of deliveries that ORDER BY received_at puts first
\* (ties, i.e. two deliveries in the same second, in any order).
Oldest(D) == {d \in D : \A e \in D : received[d] <= received[e]}

Goto(t, label) == pc' = [pc EXCEPT ![t] = label]
Answer(t, r) == /\ reply' = [reply EXCEPT ![t] = r]
                /\ Goto(t, "respond")

-----------------------------------------------------------------------------
Init ==
    /\ received = [d \in Deliveries |-> 0]
    /\ result = [d \in Deliveries |-> "none"]
    /\ sessions = [k \in WorkKeys |-> NoRow]
    /\ paid = [k \in WorkKeys |-> 0]
    /\ today = 1
    /\ pc = [t \in Threads |-> "idle"]
    /\ job = [t \in Threads |-> None]
    /\ reply = [t \in Threads |-> "none"]
    /\ parent = [t \in Threads |-> None]
    /\ todo = [t \in Threads |-> {}]
    /\ capacity = 0 /\ batch = {} /\ snapshot = {}
    /\ crashes = 0 /\ faults = 0 /\ replays = 0

-----------------------------------------------------------------------------
(* The receiver and the admin replay. *)

\* Altered: the delivery id is not a primary key.
AlwaysNew(d) == d \in Deliveries

IsNew(d) == received[d] = 0

StartTask(w, d) ==
    /\ w \in Workers
    /\ pc[w] = "idle"
    /\ Goto(w, "dispatch")
    /\ job' = [job EXCEPT ![w] = d]
    /\ UNCHANGED <<reply, chain>>

\* CURRENT_TIMESTAMP of the next arrival: the second of the latest one or
\* the next (only the order matters, so later seconds add nothing).
ArrivalSeconds ==
    {s \in {received[e] : e \in Deliveries}
              \cup {received[e] + 1 : e \in Deliveries} :
        s # 0 /\ \A e \in Deliveries : received[e] <= s}

\* github_webhook with a valid signature: record the delivery, then hand it
\* to a background thread.  A redelivery fails the primary key and changes
\* nothing.
Receive(w, d) ==
    /\ IsNew(d)
    /\ \E s \in ArrivalSeconds : received' = [received EXCEPT ![d] = s]
    /\ StartTask(w, d)
    /\ UNCHANGED <<result, sessions, paid, today, tick, budget>>

\* POST /admin/replay/{delivery_id}: process a recorded delivery again.
Replay(w, d) ==
    /\ received[d] # 0
    /\ replays < MaxReplays
    /\ replays' = replays + 1
    /\ StartTask(w, d)
    /\ UNCHANGED <<tables, paid, today, tick, crashes, faults>>

-----------------------------------------------------------------------------
(* The handlers, one database or network call per action.  They run in a   *)
(* pool thread for a fresh or replayed event and in the poller's thread    *)
(* for a queued one.  handle_security_issue, and the reservation and       *)
(* creation of both:                                                       *)

Dispatch(t) ==
    /\ pc[t] = "dispatch"
    /\ LET handler == Route(Payload[job[t]]) IN
       \/ /\ handler = "handle_security_issue"
          /\ Goto(t, "count_active") /\ UNCHANGED reply
       \/ /\ handler = "handle_ci_failure"
          /\ Goto(t, "guards") /\ UNCHANGED reply
       \/ /\ handler \notin {"handle_security_issue", "handle_ci_failure"}
          /\ Answer(t, "ignored")
    /\ UNCHANGED <<tables, paid, today, job, chain, tick, budget>>

AtConcurrencyCap == count_active >= MAX_CONCURRENT_SESSIONS

\* An event over the cap is queued if it is about an issue and dropped if it is
\* about a failed run; only issues go on to the daily cap.
CountActive(t) ==
    /\ pc[t] = "count_active"
    /\ IF AtConcurrencyCap
       THEN Answer(t, IF IsFix(job[t]) THEN "skipped" ELSE "queued")
       ELSE /\ Goto(t, IF IsFix(job[t]) THEN "reserve" ELSE "count_today")
            /\ UNCHANGED reply
    /\ UNCHANGED <<tables, paid, today, job, chain, tick, budget>>

AtDailyCap == count_started_today >= MAX_SESSIONS_PER_DAY

CountToday(t) ==
    /\ pc[t] = "count_today"
    /\ IF AtDailyCap
       THEN Answer(t, "daily_cap")
       ELSE Goto(t, "reserve") /\ UNCHANGED reply
    /\ UNCHANGED <<tables, paid, today, job, chain, tick, budget>>

\* Altered: only work in progress blocks a second reservation.
NotInProgress(k) == sessions[k].status \notin ACTIVE_STATUSES

\* The UNIQUE constraint on sessions.work_key.
KeyIsFree(k) == sessions[k].status = "none"

\* What try_reserve inserts: its own chain for a CI fix, no parent for an issue.
ReservedRow(t) == [NoRow EXCEPT !.status = "reserving", !.day = today,
                                !.parent = parent[t]]

\* try_reserve
Reserve(t) ==
    /\ pc[t] = "reserve"
    /\ LET k == KeyOf(t) IN
       IF KeyIsFree(k)
       THEN /\ sessions' = [sessions EXCEPT ![k] = ReservedRow(t)]
            /\ Goto(t, IF IsFix(job[t]) THEN "create" ELSE "parse")
            /\ UNCHANGED reply
       ELSE /\ Answer(t, "already_reserved")
            /\ UNCHANGED sessions
    /\ UNCHANGED <<received, result, paid, today, job, chain, tick, budget>>

\* Altered: the handler returns without mark_failed.
RefuseOnly(t, r) == Answer(t, r)

\* Why a handler that holds a reservation gives it up.
RefuseWith(t, r) == /\ reply' = [reply EXCEPT ![t] = r]
                    /\ Goto(t, "fail")

\* parse_issue_to_cve_context and missing_required_fields (pure).
Parse(t) ==
    /\ pc[t] = "parse"
    /\ LET body == Payload[job[t]].body IN
       IF body = "cve"
       THEN Goto(t, "create") /\ UNCHANGED reply
       ELSE RefuseWith(t, body)
    /\ UNCHANGED <<tables, paid, today, job, chain, tick, budget>>

\* client.create_session returns.  Devin has created this session, and one
\* more for every earlier POST of the call whose response was lost.
CreateSucceeds(t) ==
    /\ pc[t] = "create"
    /\ \E lost \in 0 .. LostPerCall :
         paid' = [paid EXCEPT ![KeyOf(t)] = @ + lost + 1]
    /\ Goto(t, "activate")
    /\ UNCHANGED <<tables, today, job, reply, chain, tick, budget>>

\* client.create_session raises: no credentials, or every POST of the call
\* failed (rejected, or accepted with its response lost).
CreateFails(t) ==
    /\ pc[t] = "create"
    /\ \E lost \in 0 .. LostPerCall :
         paid' = [paid EXCEPT ![KeyOf(t)] = @ + lost]
    /\ RefuseWith(t, "create_failed")
    /\ UNCHANGED <<tables, today, job, chain, tick, budget>>

\* Altered: the update leaves the Devin session id out.
PromoteRow(row) == [row EXCEPT !.status = "pending"]

ActivateRow(row) == [row EXCEPT !.status = "pending", !.tracked = TRUE]

\* db.sessions.update with the Devin session id and status pending.
Activate(t) ==
    /\ pc[t] = "activate"
    /\ sessions' = [sessions EXCEPT ![KeyOf(t)] = ActivateRow(@)]
    /\ Answer(t, "created")
    /\ UNCHANGED <<received, result, paid, today, job, chain, tick, budget>>

\* db.sessions.mark_failed
MarkFailed(t) ==
    /\ pc[t] = "fail"
    /\ sessions' = [sessions EXCEPT ![KeyOf(t)] = WithStatus(@, "failed")]
    /\ Goto(t, "respond")
    /\ UNCHANGED <<received, result, paid, today, job, reply, chain, tick, budget>>

(* handle_ci_failure up to its counter, and _escalate_to_human.            *)

\* Rows that find_by_pr may give and the guards let pass.
OverAndTracked == {k \in WorkKeys : /\ sessions[k].tracked
                                    /\ sessions[k].status \in TERMINAL_STATUSES}

\* A guard turns the run away, or its parent's session is over and tracked and
\* the chain has had its last attempt or not (a row that reports a pull request
\* is tracked).
Guards(t) ==
    /\ pc[t] = "guards"
    /\ \/ Answer(t, "skipped") /\ UNCHANGED parent
       \/ /\ \E p \in OverAndTracked : parent' = [parent EXCEPT ![t] = p]
          /\ Goto(t, "count_active") \/ Goto(t, "mark_parent")
          /\ UNCHANGED reply
    /\ UNCHANGED <<tables, paid, today, job, todo, tick, budget>>

\* The parent becomes active again, whatever the caps say.
MarkParent(t) ==
    /\ pc[t] = "mark_parent"
    /\ sessions' = [sessions EXCEPT ![parent[t]] = WithStatus(@, "needs_attention")]
    /\ Goto(t, "list_children")
    /\ UNCHANGED <<received, result, paid, today, job, reply, chain, tick, budget>>

\* The escalation still has to cancel the children in left.
Cancelling(t, left) ==
    /\ todo' = [todo EXCEPT ![t] = left]
    /\ IF left = {} THEN Answer(t, "escalated")
                    ELSE Goto(t, "cancel_child") /\ UNCHANGED reply

\* find_active_children
ListChildren(t) ==
    /\ pc[t] = "list_children"
    /\ Cancelling(t, {k \in ActiveKeys : sessions[k].parent = parent[t]})
    /\ UNCHANGED <<tables, paid, today, job, parent, tick, budget>>

CancelChild(t) ==
    /\ pc[t] = "cancel_child"
    /\ \E k \in todo[t] :
         /\ sessions' = [sessions EXCEPT ![k] = WithStatus(@, "cancelled")]
         /\ Cancelling(t, todo[t] \ {k})
    /\ UNCHANGED <<received, result, paid, today, job, parent, tick, budget>>

HandlerStep(t) ==
    \/ Guards(t) \/ MarkParent(t) \/ ListChildren(t) \/ CancelChild(t)
    \/ Dispatch(t) \/ CountActive(t) \/ CountToday(t) \/ Reserve(t) \/ Parse(t)
    \/ CreateSucceeds(t) \/ CreateFails(t) \/ Activate(t) \/ MarkFailed(t)

-----------------------------------------------------------------------------
(* mark_processed, at the end of a background task (_process) and of one   *)
(* round of the drain loop.                                                *)

Release(t, label) == /\ Goto(t, label)
                     /\ job' = [job EXCEPT ![t] = None]
                     /\ reply' = [reply EXCEPT ![t] = "none"]
                     /\ parent' = [parent EXCEPT ![t] = None]
                     /\ todo' = [todo EXCEPT ![t] = {}]

WorkerResponds(w) ==
    /\ w \in Workers
    /\ pc[w] = "respond"
    /\ result' = [result EXCEPT ![job[w]] = reply[w]]
    /\ Release(w, "idle")
    /\ UNCHANGED <<received, sessions, paid, today, tick, budget>>

\* drain_queue leaves an event alone that is over the cap again.
StaysQueued(r) == r = "queued"

PollerResponds ==
    /\ pc[Poller] = "respond"
    /\ IF StaysQueued(reply[Poller])
       THEN UNCHANGED result
       ELSE result' = [result EXCEPT ![job[Poller]] = reply[Poller]]
    /\ Release(Poller, "drain")
    /\ UNCHANGED <<received, sessions, paid, today, tick, budget>>

-----------------------------------------------------------------------------
(* poll_once: drain_queue, then one visit to every non-terminal row.       *)

FreeCapacity == MAX_CONCURRENT_SESSIONS - count_active

\* Altered: only an exactly full system stops the drain.
ExactlyFull == FreeCapacity = 0

\* Altered: one slot is never given to the queue.
KeepsOneSlot == FreeCapacity <= 1

NoCapacity == FreeCapacity <= 0

DrainStart ==
    /\ pc[Poller] = "idle"
    /\ IF NoCapacity
       THEN Goto(Poller, "snapshot") /\ UNCHANGED capacity
       ELSE Goto(Poller, "list") /\ capacity' = FreeCapacity
    /\ UNCHANGED <<tables, paid, today, job, reply, chain, batch, snapshot, budget>>

\* webhook_events.list_queued(limit=capacity), oldest first.
ListQueued ==
    /\ pc[Poller] = "list"
    /\ \E B \in SUBSET Queued :
         /\ Cardinality(B) <= capacity
         /\ B = Queued \/ Cardinality(B) = capacity
         /\ \A d \in B, e \in Queued \ B : received[d] <= received[e]
         /\ batch' = B
    /\ capacity' = 0
    /\ Goto(Poller, "drain")
    /\ UNCHANGED <<tables, paid, today, job, reply, chain, snapshot, budget>>

DispatchQueued ==
    /\ pc[Poller] = "drain"
    /\ \E d \in Oldest(batch) :
         /\ batch' = batch \ {d}
         /\ job' = [job EXCEPT ![Poller] = d]
    /\ Goto(Poller, "dispatch")
    /\ UNCHANGED <<tables, paid, today, reply, chain, capacity, snapshot, budget>>

DrainDone ==
    /\ pc[Poller] = "drain"
    /\ batch = {}
    /\ Goto(Poller, "snapshot")
    /\ UNCHANGED <<tables, paid, today, job, reply, chain, tick, budget>>

\* list_non_terminal; rows without a Devin session id are skipped.
ListNonTerminal ==
    /\ pc[Poller] = "snapshot"
    /\ snapshot' = {k \in ActiveKeys : sessions[k].tracked}
    /\ Goto(Poller, "poll")
    /\ UNCHANGED <<tables, paid, today, job, reply, chain, capacity, batch, budget>>

\* get_session answers and the poller writes what it concludes.
SyncSession(k) ==
    /\ pc[Poller] = "poll"
    /\ k \in snapshot
    /\ snapshot' = snapshot \ {k}
    /\ \E s \in SyncedStatuses :
         sessions' = [sessions EXCEPT ![k] = WithStatus(@, s)]
    /\ UNCHANGED <<received, result, paid, today, threads, capacity, batch, budget>>

\* get_session raises: the row waits for the next tick.
SyncFails(k) ==
    /\ pc[Poller] = "poll"
    /\ k \in snapshot
    /\ snapshot' = snapshot \ {k}
    /\ UNCHANGED <<tables, paid, today, threads, capacity, batch, budget>>

TickDone ==
    /\ pc[Poller] = "poll"
    /\ snapshot = {}
    /\ Goto(Poller, "idle")
    /\ UNCHANGED <<tables, paid, today, job, reply, chain, tick, budget>>

PollerStep ==
    \/ HandlerStep(Poller) \/ PollerResponds
    \/ DrainStart \/ ListQueued \/ DispatchQueued \/ DrainDone
    \/ ListNonTerminal \/ TickDone
    \/ \E k \in WorkKeys : SyncSession(k) \/ SyncFails(k)

-----------------------------------------------------------------------------
(* Failures. *)

Faulty == faults < MaxFaults /\ faults' = faults + 1

\* The steps of the handlers that can raise out of them: every database call,
\* the parser, and get_client before the list of children (the exceptions of
\* create_session, of GitHub and of a terminate call are caught).
RaisingSteps == {"count_active", "count_today", "reserve", "parse", "fail", "activate",
                 "guards", "mark_parent", "list_children", "cancel_child"}

\* Altered: the drain loop records the exception as the event's result.
RetryCrashIsFinal(t) == Answer(t, "exception") /\ UNCHANGED <<job, chain>>

RetryCrashed(t) == Release(t, "drain")

\* _process turns an escaped exception into an error result; drain_queue
\* logs it and goes on with the next event, which leaves this one queued.
HandlerRaises(t) ==
    /\ pc[t] \in RaisingSteps
    /\ Faulty
    /\ IF t = Poller THEN RetryCrashed(t)
                     ELSE Answer(t, "exception") /\ UNCHANGED <<job, chain>>
    /\ UNCHANGED <<tables, paid, today, tick, crashes, replays>>

\* mark_processed raises in a background task: the task dies.
MarkProcessedRaises(w) ==
    /\ w \in Workers
    /\ pc[w] = "respond"
    /\ Faulty
    /\ Release(w, "idle")
    /\ UNCHANGED <<tables, paid, today, tick, crashes, replays>>

\* Any other database call of the poller raises: run_loop logs the exception
\* and the tick is over.
TickRaises ==
    /\ \/ pc[Poller] \in {"list", "snapshot", "poll"}
       \/ pc[Poller] = "respond" /\ ~StaysQueued(reply[Poller])
    /\ Faulty
    /\ Release(Poller, "idle")
    /\ capacity' = 0 /\ batch' = {} /\ snapshot' = {}
    /\ UNCHANGED <<tables, paid, today, crashes, replays>>

\* The process dies and is restarted: the tables survive, the background
\* tasks and the poller's tick do not.
Crash ==
    /\ crashes < MaxCrashes
    /\ crashes' = crashes + 1
    /\ pc' = [t \in Threads |-> "idle"]
    /\ job' = [t \in Threads |-> None]
    /\ reply' = [t \in Threads |-> "none"]
    /\ parent' = [t \in Threads |-> None]
    /\ todo' = [t \in Threads |-> {}]
    /\ capacity' = 0 /\ batch' = {} /\ snapshot' = {}
    /\ UNCHANGED <<tables, paid, today, faults, replays>>

NextDay ==
    /\ today < LastDay
    /\ today' = today + 1
    /\ UNCHANGED <<tables, paid, threads, tick, budget>>

-----------------------------------------------------------------------------
Next ==
    \/ \E w \in Workers, d \in Deliveries : Receive(w, d) \/ Replay(w, d)
    \/ \E w \in Workers : HandlerStep(w) \/ WorkerResponds(w)
    \/ PollerStep
    \/ \E t \in Threads : HandlerRaises(t)
    \/ \E w \in Workers : MarkProcessedRaises(w)
    \/ TickRaises \/ Crash \/ NextDay

Spec == Init /\ [][Next]_vars

\* The pool and the poller's loop keep running; a poll of a session is never
\* put off for ever (every tick visits every tracked row), and Devin sessions
\* end: among the polls of a row, one finds it over.
SessionEnds(k) ==
    SyncSession(k) /\ sessions'[k].status \in TERMINAL_STATUSES

Fairness ==
    /\ \A w \in Workers : WF_vars(HandlerStep(w) \/ WorkerResponds(w))
    /\ WF_vars(PollerStep)
    /\ \A k \in WorkKeys : SF_vars(SessionEnds(k))

FairSpec == Spec /\ Fairness

-----------------------------------------------------------------------------
(* Properties. *)

Labels == {"idle", "dispatch", "count_active", "count_today", "reserve",
           "parse", "create", "activate", "fail", "respond", "guards",
           "mark_parent", "list_children", "cancel_child",
           "list", "drain", "snapshot", "poll"}

\* Every variable has the type its column, thread or bound has in the code.
TypeOK ==
    /\ received \in [Deliveries -> Nat]
    /\ result \in [Deliveries -> Results]
    /\ sessions \in [WorkKeys -> Rows]
    /\ paid \in [WorkKeys -> Nat]
    /\ today \in Nat
    /\ pc \in [Threads -> Labels]
    /\ job \in [Threads -> Deliveries \cup {None}]
    /\ reply \in [Threads -> Results]
    /\ parent \in [Threads -> WorkKeys \cup {None}]
    /\ todo \in [Threads -> SUBSET WorkKeys]
    /\ capacity \in Nat
    /\ batch \subseteq Deliveries
    /\ snapshot \subseteq WorkKeys
    /\ crashes \in Nat /\ faults \in Nat /\ replays \in Nat

\* Threads that passed the concurrency check (the daily check) and have not
\* inserted their row yet.
PastConcurrencyCheck == {t \in Threads : pc[t] \in {"count_today", "reserve"}}
PastDailyCheck == {t \in Threads : pc[t] = "reserve" /\ ~IsFix(job[t])}

\* Rows that have been active ever since they were reserved: neither brought
\* back by an escalation nor by a write that overtook the end of the session.
NeverEnded == {k \in ActiveKeys : ~sessions[k].ended}

\* The thread that holds a reservation and has not settled it.
Holds(t, k) == /\ pc[t] \in {"parse", "create", "activate", "fail"}
               /\ KeyOf(t) = k

\* "same event arriving twice spawns one Devin session, not two"
\* (README.md:236): redeliveries, opened+labeled pairs, replays, the queue
\* and restarts never make Devin create more for one unit of work than one
\* create call does: its session and one for each response it lost.
PaidOnce == \A k \in WorkKeys : paid[k] <= 1 + LostPerCall

Refusals == {"not_a_cve", "missing_fields", "create_failed"}

Truthful(r, k) ==
    /\ r = "created" => sessions[k].tracked /\ paid[k] \in 1 .. 1 + LostPerCall
    /\ r = "already_reserved" => sessions[k].status # "none"
    /\ r \in Refusals =>
          /\ ~sessions[k].tracked
          /\ \/ sessions[k].status = "failed"
             \/ sessions[k].status = "cancelled" /\ k \in CiFixKeys
          /\ paid[k] <= IF r = "create_failed" THEN LostPerCall ELSE 0

\* The handler_result an operator reads in webhook_events agrees with the
\* sessions row: a created session is tracked and paid for in one call, a
\* refusal is a failed row for which nothing was paid but what a failed create
\* call may have lost (a CI fix's may have been cancelled by an escalation), a
\* duplicate has a row to point at.
ResultMatchesLedger ==
    \A d \in Deliveries : Truthful(result[d], Payload[d].work)

\* The check and the insert are two calls, so the "globally active Devin
\* sessions cap" (README.md:276) is not exact.  What the handlers bring in by
\* reserving exceeds it by at most one row for each other thread, through
\* crashes, faults and replays.  Rows that come back to life are not checked
\* against the cap and come on top: a finished parent that an escalation marks
\* needs_attention, a cancelled fix whose handler activates it or whose stale
\* copy a poll writes back.
ActiveOvershootBounded ==
    Cardinality(NeverEnded) + Cardinality(PastConcurrencyCheck)
        <= MAX_CONCURRENT_SESSIONS - 1 + Cardinality(Threads)

\* The same for the sessions that issues start in a day, across midnight too.
\* It is not the "daily session count cap" of README.md:277: handle_ci_failure
\* never asks count_started_today, so that any number of CI fixes comes on top;
\* their rows are counted, so that they can only make the cap bite earlier here.
DailyOvershootBounded ==
    Cardinality(StartedToday \cap IssueKeys) + Cardinality(PastDailyCheck)
        <= MAX_SESSIONS_PER_DAY - 1 + Cardinality(Threads)

\* drain_queue (orchestrator.py:50-55): an event leaves the queue only when
\* its work has a row or the daily cap turns it away; not when the retry
\* crashes (an operator's replay that crashes is the one exception).
QueueNeverLoses ==
    [][\A d \in Deliveries :
         (result[d] = "queued" /\ result'[d] # "queued") =>
            \/ sessions[Payload[d].work].status # "none"
            \/ result'[d] = "daily_cap"
            \/ result'[d] = "exception" /\ replays > 0]_vars

\* The abstract ledger of app/handlers.py:3-14: claimed, paid, tracked.
Phase(k) ==
    LET row == sessions[k] IN
    IF row.status = "none" THEN "free"
    ELSE IF row.status = "reserving" THEN "claimed"
    ELSE IF ~row.tracked THEN "abandoned"
    ELSE IF row.status \in ACTIVE_STATUSES THEN "tracked"
    ELSE "over"

Ledger == INSTANCE WorkLedger WITH
    Keys <- IssueKeys, Surplus <- LostPerCall,
    phase <- [k \in IssueKeys |-> Phase(k)], spent <- [k \in IssueKeys |-> paid[k]]

\* The reservation pattern implements the ledger for every issue.  (Not for a
\* CI fix: an escalation may cancel its claim under the handler's hands.)
ImplementsLedger == Ledger!Spec

\* Until something crashes, a reservation is always in some thread's hands, so
\* every 'reserving' row is on its way to 'pending' or 'failed'.
NoAbandonedReservation ==
    crashes = 0 /\ faults = 0 =>
        \A k \in WorkKeys : sessions[k].status = "reserving" =>
            \E t \in Threads : Holds(t, k)

\* Until something crashes or somebody replays, the log explains every
\* session: a tracked row has a delivery that says "created" or whose thread
\* is about to say so.
EverySessionIsExplained ==
    crashes = 0 /\ faults = 0 /\ replays = 0 =>
        \A k \in WorkKeys : sessions[k].tracked =>
            \E d \in Deliveries :
                /\ Payload[d].work = k
                /\ \/ result[d] = "created"
                   \/ \E t \in Threads : job[t] = d /\ reply[t] = "created"

\* "No silent drops" (README.md:238): every delivery gets a final result,
\* queued ones included, provided nothing crashes and sessions end.
EventsSettle ==
    \A d \in Deliveries :
        received[d] # 0 ~> result[d] \notin {"none", "queued"}

-----------------------------------------------------------------------------
(* Claims of the documentation that the code does not keep. *)

\* "Resumable: ... pick up wherever we left off after restart" (README.md:240):
\* work that a crash interrupts is taken up again.  Either the event gets its
\* result ("every webhook recorded with `handler_result`", README.md:239), or
\* its row leaves 'reserving' ("the handler either promotes them to 'pending'
\* or marks them 'failed'", orchestrator.py:101-102); here neither happens.
InterruptedWorkResumes ==
    \A d \in Deliveries :
        LET status == sessions[Payload[d].work].status IN
        (result[d] = "none" /\ status = "reserving")
            ~> (result[d] # "none" \/ status # "reserving")
=============================================================================
