------------------------------ MODULE FixLoop ------------------------------
(***************************************************************************)
(* The CI-fix loop on one pull request: failed workflow runs reach         *)
(* handle_ci_failure (app/handlers.py) in pool threads, which spawns child *)
(* fix-sessions or escalates to a human, while the poller's thread         *)
(* (app/orchestrator.py poll_once) copies what Devin reports into the      *)
(* sessions table.  Devin and GitHub move on their own.                    *)
(*                                                                         *)
(* One action is one database or network call, as in Intake; pc[w] is the  *)
(* next call of a handler, ppc that of the poller.  poll_once starts with  *)
(* drain_queue, which Intake models.                                       *)
(***************************************************************************)
EXTENDS Integers, FiniteSets, FiniteSetsExt, Stage, Metrics

CONSTANTS
    Parent,                 \* the CVE session that opens the pull request
    Runs,                   \* ids of failed workflow runs of that pull request
    None,
    Workers,                \* threads that run background tasks
    MAX_FIX_ATTEMPTS,
    MAX_CONCURRENT_SESSIONS,
    RawStatuses,            \* Devin's statuses a live session may move to
    ChildrenReportPR,       \* Devin may list the pull request under a child
    SameSecond,             \* two rows may start in the same second
    PrEnds,                 \* how the pull request may end
    HumanPushes,            \* a human may push to its branch
    METRICS_LIMIT,          \* rows that /metrics looks at (10,000)
    MaxDeliveries,          \* bounds: workflow_run deliveries
    MaxFaults               \*   and terminate calls that fail, exceptions, crashes

ASSUME FixLoopAssumption ==
    /\ IsFiniteSet(Runs) /\ IsFiniteSet(Workers)
    /\ Parent \notin Runs /\ None \notin Runs \cup {Parent}
    /\ MAX_FIX_ATTEMPTS \in Nat /\ MAX_CONCURRENT_SESSIONS \in Nat /\ METRICS_LIMIT \in Nat
    /\ RawStatuses \subseteq DOMAIN STATUS_MAP \cup {"unrecognised"}
    /\ ChildrenReportPR \in BOOLEAN /\ SameSecond \in BOOLEAN /\ HumanPushes \in BOOLEAN
    /\ PrEnds \subseteq {"merged", "closed"}
    /\ MaxDeliveries \in Nat /\ MaxFaults \in Nat

VARIABLES
    rows,       \* rows[x]: the sessions row; the row of run r has work_key
                \*   ci_fix:repo:r
    devin,      \* devin[x]: raw status of the session of row x (external)
    lists,      \* lists[x]: Devin lists the pull request under it (external)
    prState,    \* the pull request on GitHub (external)
    comments,   \* escalation comments on it (external)
    human,      \* <<>>, or <<known, S>> once a human has pushed to its
                \*   branch: whether the commits show it, and if they do,
                \*   the runs taken up by then (external)
    pc, run, parent, attempt, todo, child,  \* each handler: next call, its
                \*   run, the parent it found (and status), attempt number,
                \*   children still to cancel, child being cancelled
    ppc, snapshot, seen,    \* the poller: next call, copies of the rows still
                \*   to visit, its conclusion about the row it visits
    deliveries, faults,     \* what the bounds have left room for
    loose       \* history: sessions that may have been left running: their
                \*   termination failed, Devin had suspended them or their
                \*   pull request was closed when the poller ended their row,
                \*   or an escalation cancelled it without a session id

table == <<rows>>
outside == <<devin, lists, prState, comments, human>>
handler == <<pc, run, parent, attempt, todo, child>>
poller == <<ppc, snapshot, seen>>
history == <<deliveries, faults, loose>>
vars == <<table, outside, handler, poller, history>>

-----------------------------------------------------------------------------
(* The sessions table. *)

RowIds == Runs \cup {Parent}

NoRow == [status |-> "none", tracked |-> FALSE, pr |-> FALSE,
          parent |-> None, attempt |-> 0, started |-> 0]

Active(x) == rows[x].status \in ACTIVE_STATUSES

count_active == Cardinality({x \in RowIds : Active(x)})

\* find_by_pr: rows with this pr_url, the last started first (rows started
\* in the same second in any order).
find_by_pr ==
    {x \in RowIds : rows[x].pr
        /\ \A y \in RowIds : rows[y].pr => rows[y].started <= rows[x].started}

find_active_children(p) == {x \in RowIds : rows[x].parent = p /\ Active(x)}

Chain(p) == {p} \cup {x \in RowIds : rows[x].parent = p}

\* Altered: only the parent's own row is read.
ParentsOwnAttempt(p) == rows[p].attempt

\* Altered: the number of children, not the highest attempt.
NumberOfChildren(p) == Cardinality(Chain(p)) - 1

max_fix_attempt_for_parent(p) == Max({rows[x].attempt : x \in Chain(p)})

\* CURRENT_TIMESTAMP of the next row: the next second or that of the latest.
Seconds ==
    LET latest == Max({rows[x].started : x \in RowIds} \cup {2})
    IN {latest + 1} \cup (IF SameSecond THEN {latest} ELSE {})

-----------------------------------------------------------------------------
(* Devin and GitHub. *)

Alive(x) == devin[x] \notin {"none", "exit", "error"}

Init ==
    /\ rows = [x \in RowIds |->
          IF x = Parent
          THEN [NoRow EXCEPT !.status = "pending", !.tracked = TRUE, !.started = 1]
          ELSE NoRow]
    /\ devin = [x \in RowIds |-> IF x = Parent THEN "running" ELSE "none"]
    /\ lists = [x \in RowIds |-> FALSE]
    /\ prState = "none" /\ comments = 0 /\ human = <<>>
    /\ pc = [w \in Workers |-> "idle"]
    /\ run = [w \in Workers |-> None]
    /\ parent = [w \in Workers |-> None]
    /\ attempt = [w \in Workers |-> 0]
    /\ todo = [w \in Workers |-> {}]
    /\ child = [w \in Workers |-> None]
    /\ ppc = "idle" /\ snapshot = {} /\ seen = None
    /\ deliveries = 0 /\ faults = 0 /\ loose = {}

DevinMoves(x) ==
    /\ Alive(x)
    /\ \E raw \in RawStatuses \ {devin[x]} : devin' = [devin EXCEPT ![x] = raw]
    /\ UNCHANGED <<table, lists, prState, comments, human, handler, poller, history>>

\* The CVE session opens the pull request; a child, which pushes to the same
\* branch, may come to list it too.
DevinListsPR(x) ==
    /\ Alive(x) /\ ~lists[x]
    /\ IF x = Parent THEN prState = "none" ELSE ChildrenReportPR
    /\ lists' = [lists EXCEPT ![x] = TRUE]
    /\ prState' = IF x = Parent THEN "open" ELSE prState
    /\ UNCHANGED <<table, devin, comments, human, handler, poller, history>>

PrEndsAs(end) ==
    /\ prState = "open"
    /\ end \in PrEnds
    /\ prState' = end
    /\ UNCHANGED <<table, devin, lists, comments, human, handler, poller, history>>

\* The commits of the human may carry no linked login, or lie beyond the
\* first page of the branch's commits, oldest first.
HumanCommits ==
    /\ HumanPushes
    /\ prState = "open" /\ human = <<>>
    /\ LET taken == {r \in Runs : devin[r] # "none" \/ \E w \in Workers : run[w] = r}
       IN human' \in {<<TRUE, taken>>, <<FALSE, {}>>}
    /\ UNCHANGED <<table, devin, lists, prState, comments, handler, poller, history>>

LetGo(x) == loose' = loose \cup {x}

Fault == faults < MaxFaults /\ faults' = faults + 1

\* terminate_session: Devin stops the session, or the call fails.
Terminate(x) ==
    \/ /\ devin' = [devin EXCEPT ![x] = IF Alive(x) THEN "exit" ELSE @]
       /\ UNCHANGED <<faults, loose>>
    \/ Fault /\ LetGo(x) /\ UNCHANGED devin

-----------------------------------------------------------------------------
(* handle_ci_failure *)

Goto(w, label) == pc' = [pc EXCEPT ![w] = label]

\* The handler returns: its locals are gone.
Return(w) ==
    /\ Goto(w, "idle")
    /\ run' = [run EXCEPT ![w] = None]
    /\ parent' = [parent EXCEPT ![w] = None]
    /\ attempt' = [attempt EXCEPT ![w] = 0]
    /\ todo' = [todo EXCEPT ![w] = {}]
    /\ child' = [child EXCEPT ![w] = None]

Proceed(w, label) == Goto(w, label) /\ UNCHANGED <<run, parent, attempt, todo, child>>

\* A workflow run of the pull request failed: a delivery, redelivery under a
\* new id or replay reaches the handler.
Deliver(w, r) ==
    /\ pc[w] = "idle"
    /\ prState # "none"
    /\ deliveries < MaxDeliveries
    /\ deliveries' = deliveries + 1
    /\ Goto(w, "fetch_pr")
    /\ run' = [run EXCEPT ![w] = r]
    /\ UNCHANGED <<table, outside, parent, attempt, todo, child, poller, faults, loose>>

\* The payload guards and get_pr: not a pull request of Devin's, or the
\* fetch fails.
FetchPR(w) ==
    /\ pc[w] = "fetch_pr"
    /\ Proceed(w, "find_parent") \/ Return(w)
    /\ UNCHANGED <<table, outside, poller, history>>

\* Altered: a fix-session is spawned beside a live parent.
AnyParent(x) == rows[x].status # "reserving"

ParentIsOver(x) == rows[x].status \in TERMINAL_STATUSES

\* A tracked parent is needed, and while it is alive it owns CI fixing.
FindParent(w) ==
    /\ pc[w] = "find_parent"
    /\ \/ find_by_pr = {} /\ Return(w)
       \/ \E x \in find_by_pr :
            IF ParentIsOver(x)
            THEN /\ parent' = [parent EXCEPT ![w] = x]
                 /\ Goto(w, "read_attempts")
                 /\ UNCHANGED <<run, attempt, todo, child>>
            ELSE Return(w)
    /\ UNCHANGED <<table, outside, poller, history>>

\* Altered: one attempt too early, and one too late.
CapComesEarly(n) == n + 1 >= MAX_FIX_ATTEMPTS
CapComesLate(n) == n > MAX_FIX_ATTEMPTS

AtFixCap(n) == n >= MAX_FIX_ATTEMPTS

ReadAttempts(w) ==
    /\ pc[w] = "read_attempts"
    /\ LET current_max == max_fix_attempt_for_parent(parent[w]) IN
       IF AtFixCap(current_max)
       THEN Goto(w, "escalate") /\ UNCHANGED attempt
       ELSE /\ attempt' = [attempt EXCEPT ![w] = current_max + 1]
            /\ Goto(w, "list_commits")
    /\ UNCHANGED <<table, outside, run, parent, todo, child, poller, history>>

\* Altered: the commits are fetched and not looked at.
AllOurs == FALSE

has_non_devin_commits == human # <<>> /\ human[1]

\* list_pr_commits may fail.
ListCommits(w) ==
    /\ pc[w] = "list_commits"
    /\ \/ ~has_non_devin_commits /\ Proceed(w, "count_active")
       \/ Return(w)
    /\ UNCHANGED <<table, outside, poller, history>>

CountActive(w) ==
    /\ pc[w] = "count_active"
    /\ IF count_active >= MAX_CONCURRENT_SESSIONS
       THEN Return(w)
       ELSE Proceed(w, "reserve")
    /\ UNCHANGED <<table, outside, poller, history>>

\* Altered: a run whose fix-session is over may have another one.
NotUnderWay(r) == ~Active(r)

\* The UNIQUE work_key of the run.
RunIsFree(r) == rows[r].status = "none"

\* try_reserve with the parent's session id and the attempt number.
Reserve(w) ==
    /\ pc[w] = "reserve"
    /\ LET r == run[w] IN
       IF RunIsFree(r)
       THEN /\ \E s \in Seconds : rows' = [rows EXCEPT ![r] =
                  [NoRow EXCEPT !.status = "reserving", !.parent = parent[w],
                                !.attempt = attempt[w], !.started = s]]
            /\ Proceed(w, "create")
       ELSE Return(w) /\ UNCHANGED rows
    /\ UNCHANGED <<outside, poller, history>>

\* create_session (the logs are fetched first, best effort).
Create(w) ==
    /\ pc[w] = "create"
    /\ \/ /\ devin' = [devin EXCEPT ![run[w]] = "running"]
          /\ Proceed(w, "activate")
       \/ Proceed(w, "mark_failed") /\ UNCHANGED devin
    /\ UNCHANGED <<table, lists, prState, comments, human, poller, history>>

Activate(w) ==
    /\ pc[w] = "activate"
    /\ rows' = [rows EXCEPT ![run[w]].status = "pending", ![run[w]].tracked = TRUE]
    /\ Return(w)
    /\ UNCHANGED <<outside, poller, history>>

MarkFailed(w) ==
    /\ pc[w] = "mark_failed"
    /\ rows' = [rows EXCEPT ![run[w]].status = "failed"]
    /\ Return(w)
    /\ UNCHANGED <<outside, poller, history>>

-----------------------------------------------------------------------------
(* _escalate_to_human.  Its first check, that the parent is not marked yet,  *)
(* reads the copy that Guard 5 found in a terminal status: it always passes. *)

MarkParent(w) ==
    /\ pc[w] = "escalate"
    /\ rows' = [rows EXCEPT ![parent[w]].status = "needs_attention"]
    /\ Proceed(w, "list_children")
    /\ UNCHANGED <<outside, poller, history>>

ListChildren(w) ==
    /\ pc[w] = "list_children"
    /\ todo' = [todo EXCEPT ![w] = {[row |-> x, tracked |-> rows[x].tracked] :
                                       x \in find_active_children(parent[w])}]
    /\ Goto(w, "next_child")
    /\ UNCHANGED <<table, outside, run, parent, attempt, child, poller, history>>

\* Only a child with a Devin session id is terminated.
NextChild(w) ==
    /\ pc[w] = "next_child"
    /\ \E c \in todo[w] :
         /\ todo' = [todo EXCEPT ![w] = @ \ {c}]
         /\ child' = [child EXCEPT ![w] = c.row]
         /\ IF c.tracked THEN Terminate(c.row) ELSE LetGo(c.row) /\ UNCHANGED <<devin, faults>>
    /\ Goto(w, "cancel_child")
    /\ UNCHANGED <<table, lists, prState, comments, human, run, parent, attempt, poller, deliveries>>

CancelChild(w) ==
    /\ pc[w] = "cancel_child"
    /\ rows' = [rows EXCEPT ![child[w]].status = "cancelled"]
    /\ child' = [child EXCEPT ![w] = None]
    /\ Goto(w, "next_child")
    /\ UNCHANGED <<outside, run, parent, attempt, todo, poller, history>>

\* post_pr_comment, best effort.
PostComment(w) ==
    /\ pc[w] = "next_child"
    /\ todo[w] = {}
    /\ comments' \in {comments, comments + 1}
    /\ Return(w)
    /\ UNCHANGED <<table, devin, lists, prState, human, poller, history>>

HandlerStep(w) ==
    \/ FetchPR(w) \/ FindParent(w) \/ ReadAttempts(w) \/ ListCommits(w)
    \/ CountActive(w) \/ Reserve(w) \/ Create(w) \/ Activate(w) \/ MarkFailed(w)
    \/ MarkParent(w) \/ ListChildren(w) \/ NextChild(w) \/ CancelChild(w)
    \/ PostComment(w)

\* A database call, or get_client before the children are listed, raises:
\* nothing in the handler catches it.
HandlerRaises(w) ==
    /\ pc[w] \in {"find_parent", "read_attempts", "count_active", "reserve", "activate",
                  "mark_failed", "escalate", "list_children", "cancel_child"}
    /\ Fault
    /\ Return(w)
    /\ UNCHANGED <<table, outside, poller, deliveries, loose>>

-----------------------------------------------------------------------------
(* poll_once, after drain_queue. *)

\* Altered: rows that need attention are left to the humans.
InProgress(x) == rows[x].status \in ACTIVE_STATUSES \ {"needs_attention"}

\* Altered: rows that are over are polled on.
EverPolled(x) == rows[x].status # "none"

NonTerminal(x) == rows[x].status \in ACTIVE_STATUSES

\* list_non_terminal; rows without a Devin session id are skipped.
ListNonTerminal ==
    /\ ppc = "idle"
    /\ snapshot' = {[row |-> x, status |-> rows[x].status, pr |-> rows[x].pr,
                     started |-> rows[x].started] :
                        x \in {y \in RowIds : NonTerminal(y) /\ rows[y].tracked}}
    /\ ppc' = "poll"
    /\ UNCHANGED <<table, outside, handler, seen, history>>

Visit(x) ==
    /\ ppc = "poll"
    /\ x \in snapshot
    /\ \A y \in snapshot : x.started <= y.started
    /\ snapshot' = snapshot \ {x}
    /\ UNCHANGED <<table, outside, handler, deliveries, faults>>

Conclude(x, verdict, pr, next) ==
    /\ seen' = [row |-> x.row, verdict |-> verdict, pr |-> pr]
    /\ ppc' = next

GetSessionFails(x) == Visit(x) /\ UNCHANGED <<ppc, seen, loose>>

\* Devin's updated_at is older than SESSION_TIMEOUT_SECONDS.
FindsInactive(x) ==
    /\ Visit(x)
    /\ map_status(devin[x.row]) \in {"pending", "running"}
    /\ Conclude(x, "timeout", FALSE, "terminate")
    /\ UNCHANGED loose

\* What the diff of poll_once compares (a change of the ACUs, the raw status
\* or the structured output may make a difference too).
Differs(x) == map_status(devin[x.row]) # x.status \/ lists[x.row] # x.pr

FindsNoChange(x) == Visit(x) /\ ~Differs(x) /\ UNCHANGED <<ppc, seen, loose>>

\* Altered: a merged pull request closes the row and leaves Devin running.
MergeJustRecorded(x) == Conclude(x, "completed", TRUE, "write") /\ UNCHANGED loose

FindsMerge(x) == Conclude(x, "completed", TRUE, "terminate") /\ UNCHANGED loose

\* The row ends as cancelled; Devin is not told.
FindsClosed(x) == Conclude(x, "cancelled", TRUE, "write") /\ LetGo(x.row)

\* A suspended session is stored as cancelled, and Devin may resume it.
FindsStatus(x) ==
    /\ Conclude(x, map_status(devin[x.row]), lists[x.row], "write")
    /\ IF devin[x.row] = "suspended" THEN LetGo(x.row) ELSE UNCHANGED loose

FindsChange(x) ==
    /\ Visit(x)
    /\ IF lists[x.row] /\ prState = "merged" THEN FindsMerge(x)
       ELSE IF lists[x.row] /\ prState = "closed" THEN FindsClosed(x)
       ELSE FindsStatus(x)

PollerTerminates ==
    /\ ppc = "terminate"
    /\ Terminate(seen.row)
    /\ ppc' = "write"
    /\ UNCHANGED <<table, lists, prState, comments, human, handler, snapshot, seen, deliveries>>

\* Altered: a poll that saw no pull request takes it away.
LastSeenPR == seen.pr

\* pr_url is among the updates only if the poll saw one.
KeptPR == rows[seen.row].pr \/ seen.pr

PollerWrites ==
    /\ ppc = "write"
    /\ rows' = [rows EXCEPT ![seen.row].status = seen.verdict,
                            ![seen.row].pr = KeptPR]
    /\ ppc' = "poll"
    /\ seen' = None
    /\ UNCHANGED <<outside, handler, snapshot, history>>

TickDone ==
    /\ ppc = "poll"
    /\ snapshot = {}
    /\ ppc' = "idle"
    /\ UNCHANGED <<table, outside, handler, snapshot, seen, history>>

GetSession(x) == FindsInactive(x) \/ FindsNoChange(x) \/ FindsChange(x)

PollerStep ==
    \/ ListNonTerminal \/ PollerTerminates \/ PollerWrites \/ TickDone
    \/ \E x \in snapshot : GetSession(x) \/ GetSessionFails(x)

\* A database call raises: run_loop logs it, and the tick is over.
PollerRaises ==
    /\ ppc \in {"poll", "write"}
    /\ Fault
    /\ ppc' = "idle" /\ snapshot' = {} /\ seen' = None
    /\ UNCHANGED <<table, outside, handler, deliveries, loose>>

-----------------------------------------------------------------------------
\* The process dies and is started again: tables, Devin and GitHub stay.
Crash ==
    /\ Fault
    /\ pc' = [w \in Workers |-> "idle"]
    /\ run' = [w \in Workers |-> None]
    /\ parent' = [w \in Workers |-> None]
    /\ attempt' = [w \in Workers |-> 0]
    /\ todo' = [w \in Workers |-> {}]
    /\ child' = [w \in Workers |-> None]
    /\ ppc' = "idle" /\ snapshot' = {} /\ seen' = None
    /\ UNCHANGED <<table, outside, deliveries, loose>>

Next ==
    \/ \E w \in Workers, r \in Runs : Deliver(w, r)
    \/ \E w \in Workers : HandlerStep(w) \/ HandlerRaises(w)
    \/ PollerStep \/ PollerRaises
    \/ \E x \in RowIds : DevinMoves(x) \/ DevinListsPR(x)
    \/ \E end \in PrEnds : PrEndsAs(end)
    \/ HumanCommits \/ Crash

Spec == Init /\ [][Next]_vars

\* The pool and the poller keep running; some poll of a session gets an
\* answer; and Devin sessions end or go quiet, which a poll finds.
SessionEnds(x) ==
    /\ devin[x] \notin {"exit", "error"}
    /\ DevinMoves(x)
    /\ devin'[x] \in {"exit", "error"}

Answered(x) == \E s \in snapshot : s.row = x /\ GetSession(s)

Fairness ==
    /\ \A w \in Workers : WF_vars(HandlerStep(w))
    /\ WF_vars(PollerStep)
    /\ \A x \in RowIds : WF_vars(SessionEnds(x)) /\ SF_vars(Answered(x))

FairSpec == Spec /\ Fairness

-----------------------------------------------------------------------------
(* Properties. *)

Labels == {"idle", "fetch_pr", "find_parent", "read_attempts", "list_commits",
           "count_active", "reserve", "create", "activate", "mark_failed",
           "escalate", "list_children", "next_child", "cancel_child"}

RowType == [status : {"none"} \cup Statuses, tracked : BOOLEAN, pr : BOOLEAN,
            parent : RowIds \cup {None}, attempt : Nat, started : Nat]

SnapshotType == [row : RowIds, status : Statuses, pr : BOOLEAN, started : Nat]

Conclusions == [row : RowIds, verdict : Statuses, pr : BOOLEAN]

\* Every variable has the type its column, local or bound has in the code.
TypeOK ==
    /\ rows \in [RowIds -> RowType]
    /\ devin \in [RowIds -> {"none", "running", "exit", "error"} \cup RawStatuses]
    /\ lists \in [RowIds -> BOOLEAN]
    /\ prState \in {"none", "open", "merged", "closed"}
    /\ comments \in Nat
    /\ human \in {<<>>} \cup (BOOLEAN \X SUBSET Runs)
    /\ pc \in [Workers -> Labels]
    /\ run \in [Workers -> Runs \cup {None}]
    /\ parent \in [Workers -> RowIds \cup {None}]
    /\ attempt \in [Workers -> Nat]
    /\ todo \in [Workers -> SUBSET [row : RowIds, tracked : BOOLEAN]]
    /\ child \in [Workers -> RowIds \cup {None}]
    /\ ppc \in {"idle", "poll", "terminate", "write"}
    /\ snapshot \subseteq SnapshotType
    /\ seen \in Conclusions \cup {None}
    /\ ppc \in {"terminate", "write"} => seen \in Conclusions
    /\ deliveries \in Nat /\ faults \in Nat /\ loose \subseteq RowIds

\* The fix-sessions of a parent that carry attempt number n.
Attempts(p, n) == {r \in Runs : rows[r].parent = p /\ rows[r].attempt = n}

\* Attempt numbers stay within the cap and leave no gap: attempt n of a chain
\* comes after attempt n - 1, however handlers overlap.
AttemptChain ==
    \A r \in Runs : rows[r].status # "none" =>
        /\ rows[r].attempt \in 1 .. MAX_FIX_ATTEMPTS
        /\ rows[r].attempt = 1
             \/ \E x \in Chain(rows[r].parent) : rows[x].attempt = rows[r].attempt - 1

\* The highest attempt is read and the row is inserted in two calls, so
\* overlapping handlers may share an attempt number; but no number of a chain
\* is ever used by more rows than there are threads.
AttemptsShared ==
    \A p \in RowIds, n \in 1 .. MAX_FIX_ATTEMPTS :
        Cardinality(Attempts(p, n)) <= Cardinality(Workers)

\* One fix-session per failed workflow run: whoever is about to create one is
\* alone with the run, and no session was created for it before, whatever is
\* redelivered or replayed, fails, or dies in between.
FixedOnce ==
    \A w \in Workers : pc[w] = "create" =>
        /\ devin[run[w]] = "none"
        /\ \A v \in Workers : pc[v] = "create" /\ run[v] = run[w] => v = w

Escalating(w) ==
    pc[w] \in {"escalate", "list_children", "next_child", "cancel_child"}

\* "CI-fix chain cap - escalation fires after this" (README.md:279): never
\* before every attempt up to the cap has had its row.
EscalatesAfterLastAttempt ==
    (\E w \in Workers : Escalating(w)) =>
        \A n \in 1 .. MAX_FIX_ATTEMPTS : \E r \in Runs : rows[r].attempt = n

\* "Doesn't race Devin" (README.md:243) asks that the Devin session of the
\* parent is over, not just its row, when a fix-session is created.  The code
\* does not keep that, and these are all the ways it fails: the parent was
\* let go of by a termination that failed, a pull request closed unmerged, a
\* suspension, or a cancellation before its session id was stored.  Crashes,
\* exceptions, stale polls, merges and timeouts add none.
RacesOnlyTheLoose ==
    [][\A r \in Runs :
         (devin[r] = "none" /\ devin'[r] # "none" /\ Alive(rows[r].parent)) =>
             rows[r].parent \in loose]_devin

\* "Don't fight a human" (handlers.py:252-253), as far as the commits tell a
\* human from Devin: the commits are listed and the fix-session is created in
\* different calls, so a session may still come after a push that can be
\* recognised, but only for a run whose handler was under way.  A push without
\* a linked login, or beyond the first page, stops nothing.
HandsOff ==
    (human # <<>> /\ human[1]) => \A r \in Runs : devin[r] # "none" => r \in human[2]

\* Every slot of the concurrency cap that a row takes is given back, as often
\* as it is taken: in spite of escalations, which take it again for a parent
\* that was over, revived children, terminations and writes from stale polls.
SlotsReleased == \A x \in RowIds : []<>(~Active(x))

\* compute_stage of the row of the session that opened the pull request.
ParentStage ==
    CveStage(rows[Parent], {rows[x] : x \in {y \in RowIds : rows[y].parent = Parent}})

\* What the dashboard shows as over stays so, unless a fix-session or a human
\* takes up the work: no late poll makes the session look alive again, or a
\* failed one verified.
StageSettles ==
    [][/\ ParentStage = "verified" =>
             ParentStage' \in {"verified", "ci fix running", "needs human"}
       /\ ParentStage \in {"failed", "cancelled"} =>
             ParentStage' \in {ParentStage, "needs human"}]_rows

\* A row of the table, and what list_recent(limit) may return: the rows that
\* started last, those of one second in any order.
Stored == {x \in RowIds : rows[x].status # "none"}

list_recent(limit) ==
    {W \in SUBSET Stored :
        /\ Cardinality(W) <= limit /\ (W = Stored \/ Cardinality(W) = limit)
        /\ \A x \in W, y \in Stored \ W : rows[y].started <= rows[x].started}

\* What GET /metrics may answer.
metrics ==
    {compute_dashboard_metrics([x \in W |-> rows[x]]) : W \in list_recent(METRICS_LIMIT)}

\* "pr_created is a LIFETIME count" (metrics.py:30-32): no timeout, stale poll,
\* escalation, exception or crash makes the dashboard forget a session, or,
\* as long as the table fits into the rows it looks at, a pull request.
LifetimeCountsGrow ==
    [][\A before \in metrics, after \in metrics' :
         /\ after.total_sessions >= before.total_sessions
         /\ Cardinality(Stored') <= METRICS_LIMIT => after.pr_created >= before.pr_created]_rows

-----------------------------------------------------------------------------
(* Claims of the documentation that the code does not keep. *)

\* "Idempotent ... no duplicate PR comments" (app/handlers.py:27-29).
CommentsOnce == comments <= 1

\* "Active fix-sessions have been terminated to stop further ACU spend"
\* (app/handlers.py:84-85): true when the comment says it.
FixSessionsStopped ==
    [][\A w \in Workers :
         (Escalating(w) /\ comments' = comments + 1) =>
             \A r \in Runs : rows[r].parent = parent[w] => ~Alive(r)]_vars

\* "if Devin's pr_state is 'merged' ... locally mark this row 'completed'
\* regardless of what Devin's session status currently says"
\* (orchestrator.py:178-181), "within 30s" (README.md:254), i.e. at the next
\* poll that gets an answer: such a poll ends the row.
MergeNoticed ==
    [][\A x \in snapshot :
         (GetSession(x) /\ lists[x.row] /\ prState = "merged") =>
             seen' # None /\ seen'.verdict \in TERMINAL_STATUSES]_vars
=============================================================================
