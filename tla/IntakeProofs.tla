---------------------------- MODULE IntakeProofs ----------------------------
(***************************************************************************)
(* Theorems about Intake, for every value of its constants.                *)
(***************************************************************************)
EXTENDS Intake, FiniteSetTheorems, TLAPS

(***************************************************************************)
(* Type correctness.  A thread inside the handler works on a delivery.     *)
(***************************************************************************)
Busy == {"dispatch", "count_active", "count_today", "reserve",
         "parse", "create", "activate", "fail", "respond",
         "guards", "mark_parent", "list_children", "cancel_child"}

JobOK == \A t \in Threads : pc[t] \in Busy => job[t] \in Deliveries

TypeInv == TypeOK /\ JobOK

LEMMA KeyOfType ==
    ASSUME TypeInv, NEW t \in Threads, pc[t] \in Busy
    PROVE  /\ job[t] \in Deliveries
           /\ KeyOf(t) \in WorkKeys
           /\ Payload[job[t]].body \in {"cve", "not_a_cve", "missing_fields"}
BY DeliveriesAssumption DEF TypeInv, JobOK, KeyOf, WorkKeys

LEMMA TypeInit == Init => TypeInv
<1>1. NoRow \in Rows
  BY DEF NoRow, Rows
<1> QED BY <1>1 DEF Init, TypeInv, TypeOK, JobOK, Busy, Results, Labels

\* A status written over a row changes its status and nothing else but what the
\* history says of it.
LEMMA Rewritten ==
    ASSUME NEW row \in Rows, NEW s \in Statuses
    PROVE  /\ WithStatus(row, s) \in Rows
           /\ WithStatus(row, s).status = s
           /\ WithStatus(row, s).tracked = row.tracked
           /\ WithStatus(row, s).day = row.day
           /\ WithStatus(row, s).parent = row.parent
           /\ WithStatus(row, s).ended <=> (row.ended \/ s \in TERMINAL_STATUSES)
BY DEF WithStatus, Rows

LEMMA Activated ==
    ASSUME NEW row \in Rows
    PROVE  /\ ActivateRow(row) \in Rows
           /\ ActivateRow(row).status = "pending"
           /\ ActivateRow(row).tracked
           /\ ActivateRow(row).day = row.day
           /\ ActivateRow(row).parent = row.parent
           /\ ActivateRow(row).ended <=> row.ended
BY DEF ActivateRow, Rows, Statuses, ACTIVE_STATUSES

LEMMA Written ==
    ASSUME TypeInv, NEW k \in WorkKeys, NEW s \in Statuses,
           sessions' = [sessions EXCEPT ![k] = WithStatus(@, s)]
    PROVE  /\ sessions' \in [WorkKeys -> Rows]
           /\ sessions'[k] = WithStatus(sessions[k], s)
           /\ \A j \in WorkKeys : j # k => sessions'[j] = sessions[j]
BY Rewritten DEF TypeInv, TypeOK

LEMMA StatusNames ==
    /\ ACTIVE_STATUSES \subseteq Statuses /\ TERMINAL_STATUSES \subseteq Statuses
    /\ {"reserving", "pending", "needs_attention"} \subseteq ACTIVE_STATUSES
    /\ {"failed", "cancelled"} \subseteq TERMINAL_STATUSES
    /\ ACTIVE_STATUSES \cap TERMINAL_STATUSES = {}
    /\ "none" \notin Statuses
BY DEF Statuses, ACTIVE_STATUSES, TERMINAL_STATUSES

LEMMA TypeReceive ==
    ASSUME TypeInv, NEW w \in Workers, NEW d \in Deliveries,
           Receive(w, d) \/ Replay(w, d)
    PROVE  TypeInv'
<1> USE DEF TypeInv, TypeOK, JobOK, Busy, Threads, Labels, StartTask, Goto,
            tables, tick, threads, chain
<1>1. CASE Receive(w, d)
  <2>1. ArrivalSeconds \subseteq Nat
    BY DEF ArrivalSeconds
  <2>2. PICK s \in ArrivalSeconds : received' = [received EXCEPT ![d] = s]
    BY <1>1 DEF Receive
  <2>3. received' \in [Deliveries -> Nat]
    BY <2>1, <2>2
  <2> QED BY <1>1, <2>3 DEF Receive, budget
<1>2. CASE Replay(w, d)
  BY <1>2, BoundsAssumption DEF Replay, budget
<1> QED BY <1>1, <1>2

LEMMA TypeHandler ==
    ASSUME TypeInv, NEW t \in Threads, HandlerStep(t)
    PROVE  TypeInv'
<1> USE DEF TypeInv, TypeOK, JobOK, Busy, Labels, Goto, Answer, RefuseWith,
            tables, tick, threads, chain, budget
<1>1. CASE Dispatch(t)
  BY <1>1 DEF Dispatch, Results
<1>2. CASE CountActive(t)
  BY <1>2 DEF CountActive, Results
<1>3. CASE CountToday(t)
  BY <1>3 DEF CountToday, Results
<1>4. CASE Reserve(t)
  <2>1. ReservedRow(t) \in Rows
    BY DEF ReservedRow, NoRow, Rows, Statuses, ACTIVE_STATUSES
  <2>2. sessions' \in [WorkKeys -> Rows]
    BY <1>4, <2>1 DEF Reserve
  <2>3. pc' \in [Threads -> Labels] /\ reply' \in [Threads -> Results] /\ JobOK'
    BY <1>4 DEF Reserve, Results
  <2> QED BY <1>4, <2>2, <2>3 DEF Reserve
<1>5. CASE Parse(t)
  BY <1>5, KeyOfType DEF Parse, Results
<1>6. CASE CreateSucceeds(t)
  <2>1. PICK lost \in 0 .. LostPerCall :
            paid' = [paid EXCEPT ![KeyOf(t)] = @ + lost + 1]
    BY <1>6 DEF CreateSucceeds
  <2>2. paid' \in [WorkKeys -> Nat]
    BY <2>1, <1>6, KeyOfType, BoundsAssumption DEF CreateSucceeds
  <2> QED BY <1>6, <2>2 DEF CreateSucceeds
<1>7. CASE CreateFails(t)
  <2>1. PICK lost \in 0 .. LostPerCall :
            paid' = [paid EXCEPT ![KeyOf(t)] = @ + lost]
    BY <1>7 DEF CreateFails
  <2>2. paid' \in [WorkKeys -> Nat]
    BY <2>1, <1>7, KeyOfType, BoundsAssumption DEF CreateFails
  <2> QED BY <1>7, <2>2 DEF CreateFails, Results
<1>8. CASE Activate(t)
  <2>1. KeyOf(t) \in WorkKeys
    BY <1>8, KeyOfType DEF Activate
  <2>2. ActivateRow(sessions[KeyOf(t)]) \in Rows
    BY <2>1, Activated
  <2>3. sessions' \in [WorkKeys -> Rows]
    BY <1>8, <2>2 DEF Activate
  <2> QED BY <1>8, <2>3 DEF Activate, Results
<1>9. CASE MarkFailed(t)
  <2>1. KeyOf(t) \in WorkKeys
    BY <1>9, KeyOfType DEF MarkFailed
  <2>2. sessions' \in [WorkKeys -> Rows]
    BY <1>9, <2>1, Written, StatusNames DEF MarkFailed
  <2> QED BY <1>9, <2>2 DEF MarkFailed
<1>10. CASE Guards(t)
  BY <1>10 DEF Guards, OverAndTracked, Results
<1>11. CASE MarkParent(t)
  <2>1. sessions' \in [WorkKeys -> Rows]
    <3>1. CASE parent[t] \in WorkKeys
      BY <1>11, <3>1, Written, StatusNames DEF MarkParent
    <3>2. CASE parent[t] \notin WorkKeys
      BY <1>11, <3>2 DEF MarkParent
    <3> QED BY <3>1, <3>2
  <2> QED BY <1>11, <2>1 DEF MarkParent
<1>12. CASE ListChildren(t)
  BY <1>12 DEF ListChildren, Cancelling, ActiveKeys, Results
<1>13. CASE CancelChild(t)
  <2>1. PICK k \in todo[t] :
            /\ sessions' = [sessions EXCEPT ![k] = WithStatus(@, "cancelled")]
            /\ Cancelling(t, todo[t] \ {k})
    BY <1>13 DEF CancelChild
  <2>2. sessions' \in [WorkKeys -> Rows]
    BY <2>1, Written, StatusNames
  <2> QED BY <1>13, <2>1, <2>2 DEF CancelChild, Cancelling, Results
<1> QED
  BY <1>1, <1>2, <1>3, <1>4, <1>5, <1>6, <1>7, <1>8, <1>9, <1>10, <1>11, <1>12, <1>13
     DEF HandlerStep

LEMMA PollStatuses == SyncedStatuses \subseteq Statuses \ {"reserving"}
BY SyncAssumption
   DEF PollOutcomes, STATUS_MAP, UNKNOWN_STATUS, Statuses, ACTIVE_STATUSES,
       TERMINAL_STATUSES

LEMMA Finiteness ==
    /\ IsFiniteSet(WorkKeys)
    /\ IsFiniteSet(Threads)
<1>1. IsFiniteSet(WorkKeys)
  <2> DEFINE f == [d \in Deliveries |-> Payload[d].work]
  <2>1. f \in Surjection(Deliveries, WorkKeys)
    BY DEF Surjection, WorkKeys
  <2> QED BY <2>1, DeliveriesAssumption, FS_Surjection
<1>2. IsFiniteSet(Threads)
  BY ThreadsAssumption, FS_AddElement DEF Threads
<1> QED BY <1>1, <1>2

LEMMA CapacityType ==
    ASSUME ~NoCapacity
    PROVE  FreeCapacity \in Nat
<1>1. ActiveKeys \in SUBSET WorkKeys
  BY DEF ActiveKeys
<1>2. count_active \in Nat
  BY <1>1, Finiteness, FS_Subset, FS_CardinalityType DEF count_active
<1> QED BY <1>2, CapsAssumption DEF NoCapacity, FreeCapacity

LEMMA TypePoller ==
    ASSUME TypeInv, PollerStep
    PROVE  TypeInv'
<1> USE DEF TypeInv, TypeOK, JobOK, Busy, Labels, Goto, Release, Threads,
            tables, tick, threads, chain, budget
<1>1. CASE HandlerStep(Poller)
  BY <1>1, TypeHandler
<1>2. CASE PollerResponds
  BY <1>2 DEF PollerResponds, Results
<1>3. CASE DrainStart
  BY <1>3, CapacityType DEF DrainStart
<1>4. CASE ListQueued
  BY <1>4 DEF ListQueued, Queued
<1>5. CASE DispatchQueued
  BY <1>5 DEF DispatchQueued, Oldest
<1>6. CASE DrainDone
  BY <1>6 DEF DrainDone
<1>7. CASE ListNonTerminal
  BY <1>7 DEF ListNonTerminal, ActiveKeys
<1>8. CASE TickDone
  BY <1>8 DEF TickDone
<1>9. ASSUME NEW k \in WorkKeys, SyncSession(k)
      PROVE  TypeInv'
  <2>1. PICK s \in SyncedStatuses :
            sessions' = [sessions EXCEPT ![k] = WithStatus(@, s)]
    BY <1>9 DEF SyncSession
  <2>2. sessions' \in [WorkKeys -> Rows]
    BY <2>1, PollStatuses, Written
  <2> QED BY <1>9, <2>2 DEF SyncSession
<1>10. ASSUME NEW k \in WorkKeys, SyncFails(k)
       PROVE  TypeInv'
  BY <1>10 DEF SyncFails
<1> QED
  BY <1>1, <1>2, <1>3, <1>4, <1>5, <1>6, <1>7, <1>8, <1>9, <1>10 DEF PollerStep

LEMMA TypeNext == TypeInv /\ [Next]_vars => TypeInv'
<1> SUFFICES ASSUME TypeInv, [Next]_vars PROVE TypeInv'
  OBVIOUS
<1> USE DEF TypeInv, TypeOK, JobOK, Busy, Labels, Goto, Answer, Release,
            tables, tick, threads, chain, budget
<1>1. ASSUME NEW w \in Workers, NEW d \in Deliveries, Receive(w, d) \/ Replay(w, d)
      PROVE  TypeInv'
  BY <1>1, TypeReceive
<1>2. ASSUME NEW w \in Workers, HandlerStep(w)
      PROVE  TypeInv'
  BY <1>2, TypeHandler DEF Threads
<1>3. ASSUME NEW w \in Workers, WorkerResponds(w)
      PROVE  TypeInv'
  BY <1>3 DEF WorkerResponds, Results, Threads
<1>4. CASE PollerStep
  BY <1>4, TypePoller
<1>5. ASSUME NEW t \in Threads, HandlerRaises(t)
      PROVE  TypeInv'
  BY <1>5 DEF HandlerRaises, RetryCrashed, RaisingSteps, Faulty, Results, Threads
<1>6. ASSUME NEW w \in Workers, MarkProcessedRaises(w)
      PROVE  TypeInv'
  BY <1>6 DEF MarkProcessedRaises, Faulty, Results, Threads
<1>7. CASE TickRaises
  BY <1>7 DEF TickRaises, Faulty, Results, Threads
<1>8. CASE Crash
  BY <1>8 DEF Crash, Results
<1>9. CASE NextDay
  BY <1>9 DEF NextDay
<1>10. CASE UNCHANGED vars
  BY <1>10 DEF vars
<1> QED
  BY <1>1, <1>2, <1>3, <1>4, <1>5, <1>6, <1>7, <1>8, <1>9, <1>10 DEF Next

\* Every reachable state is well typed, whatever the workload, the number of
\* threads and the failures.
THEOREM TypeCorrect == Spec => []TypeOK
<1>1. TypeInv => TypeOK
  BY DEF TypeInv
<1> QED BY <1>1, TypeInit, TypeNext, PTL DEF Spec

-----------------------------------------------------------------------------
(***************************************************************************)
(* Custody: what ties a thread's place in the handler, the row of its work *)
(* key and the money spent.  PaidOnce alone is not inductive: that a       *)
(* thread at "create" has not been paid for yet follows from the row it    *)
(* holds being its own.                                                    *)
(***************************************************************************)
Owning == {"parse", "create", "activate", "fail"}

\* What was paid for the key of a thread that holds a reservation.
Bill(label) == CASE label = "activate" -> 1 .. 1 + LostPerCall
                 [] label = "fail" -> 0 .. LostPerCall
                 [] OTHER -> {0}

LEMMA Bills ==
    /\ Bill("parse") = {0} /\ Bill("create") = {0}
    /\ Bill("activate") = 1 .. 1 + LostPerCall
    /\ Bill("fail") = 0 .. LostPerCall /\ 0 \in Bill("fail")
BY BoundsAssumption DEF Bill

\* An escalation may have cancelled a CI fix under its handler's hands.
Claimed(k) == \/ sessions[k].status = "reserving"
              \/ sessions[k].status = "cancelled" /\ k \in CiFixKeys

\* The reserved row of a thread between try_reserve and its settlement.
Custody1(t) ==
    pc[t] \in Owning =>
        /\ Claimed(KeyOf(t))
        /\ ~sessions[KeyOf(t)].tracked
        /\ paid[KeyOf(t)] \in Bill(pc[t])

Exclusive ==
    \A t, u \in Threads :
        pc[t] \in Owning /\ pc[u] \in Owning /\ KeyOf(t) = KeyOf(u) => t = u

RowOK(k) ==
    /\ sessions[k].status = "none" => ~sessions[k].tracked
    /\ sessions[k].tracked => sessions[k].status # "reserving"
    /\ sessions[k].status \notin {"none", "reserving"} /\ ~sessions[k].tracked
         => \/ sessions[k].status = "failed"
            \/ sessions[k].status = "cancelled" /\ k \in CiFixKeys
    /\ sessions[k].parent # None => k \in CiFixKeys
    /\ sessions[k].status \in TERMINAL_STATUSES => sessions[k].ended

MoneyOK(k) ==
    /\ paid[k] \in 0 .. 1 + LostPerCall
    /\ sessions[k].status = "none" => paid[k] = 0
    /\ sessions[k].tracked => paid[k] # 0
    /\ sessions[k].status = "failed" /\ ~sessions[k].tracked => paid[k] <= LostPerCall

\* What the poller is about to visit; only an escalation ends a row before.
SnapshotOK ==
    \A k \in snapshot :
        /\ sessions[k].tracked
        /\ k \in IssueKeys => sessions[k].status \in ACTIVE_STATUSES

Custody ==
    /\ \A t \in Threads : Custody1(t)
    /\ Exclusive
    /\ \A k \in WorkKeys : RowOK(k) /\ MoneyOK(k)
    /\ SnapshotOK

\* The row that a CI fix continues and the children an escalation has listed.
ChainOK(t) ==
    /\ parent[t] # None => /\ sessions[parent[t]].tracked
                           /\ pc[t] \in Busy
                           /\ IsFix(job[t])
    /\ pc[t] \in {"mark_parent", "list_children", "cancel_child"} => parent[t] # None
    /\ pc[t] = "guards" => IsFix(job[t])
    /\ \A k \in todo[t] : k \in CiFixKeys /\ sessions[k].status # "none"

Chains == \A t \in Threads : ChainOK(t)

IInv == TypeInv /\ Custody /\ Chains

\* Issues and failed runs have keys of their own.
LEMMA KeysApart ==
    ASSUME NEW d \in Deliveries
    PROVE  /\ Payload[d].work \in WorkKeys /\ Payload[d].work # None
           /\ IsFix(d) <=> Payload[d].work \in CiFixKeys
           /\ ~IsFix(d) <=> Payload[d].work \in IssueKeys
BY DeliveriesAssumption DEF WorkKeys, CiFixKeys, IssueKeys

LEMMA CustodyInit == Init => Custody /\ Chains
BY BoundsAssumption, StatusNames
   DEF Init, Custody, Custody1, Exclusive, RowOK, MoneyOK, SnapshotOK, Owning, NoRow,
       Chains, ChainOK, Busy

\* Steps that touch no row and bring no thread into the handler's paid part.
LEMMA CustodyFrame ==
    ASSUME IInv, UNCHANGED <<sessions, paid>>,
           snapshot' \subseteq snapshot,
           \A t \in Threads : pc'[t] \in Owning =>
               /\ pc[t] \in Owning
               /\ job'[t] = job[t]
               /\ Bill(pc[t]) \subseteq Bill(pc'[t])
    PROVE  Custody'
BY DEF IInv, Custody, Custody1, Claimed, Exclusive, RowOK, MoneyOK, SnapshotOK, KeyOf

LEMMA CustodyReserve ==
    ASSUME IInv, NEW t \in Threads, Reserve(t)
    PROVE  Custody'
<1> DEFINE k == KeyOf(t)
<1>1. k \in WorkKeys /\ job[t] \in Deliveries
  BY KeyOfType DEF IInv, Reserve, Busy
<1>2. CASE ~KeyIsFree(k)
  BY <1>2, CustodyFrame DEF Reserve, Answer, Goto, Owning, IInv, TypeInv, TypeOK, tick
<1>3. CASE KeyIsFree(k)
  <2>1. /\ sessions' = [sessions EXCEPT ![k] = ReservedRow(t)]
        /\ UNCHANGED <<paid, job, snapshot>>
    BY <1>3 DEF Reserve, tick
  <2>2. PICK label \in {"parse", "create"} : pc' = [pc EXCEPT ![t] = label]
    BY <1>3 DEF Reserve, Goto
  <2>3. \A u \in Threads : pc[u] \in Owning => KeyOf(u) # k
    BY <1>3 DEF IInv, Custody, Custody1, Claimed, KeyIsFree
  <2>4. \A u \in Threads : KeyOf(u)' = KeyOf(u)
    BY <2>1 DEF KeyOf
  <2>5. /\ sessions'[k] = ReservedRow(t)
        /\ \A j \in WorkKeys : j # k => sessions'[j] = sessions[j]
    BY <1>1, <2>1 DEF IInv, TypeInv, TypeOK
  <2>6. /\ ReservedRow(t).status = "reserving"
        /\ ~ReservedRow(t).tracked
        /\ ReservedRow(t).parent = parent[t]
    BY DEF ReservedRow, NoRow
  <2>7. \A u \in Threads : Custody1(u)'
    <3> SUFFICES ASSUME NEW u \in Threads, (pc[u] \in Owning)'
                 PROVE  Custody1(u)'
      BY DEF Custody1
    <3>1. CASE u = t
      <4>1. paid[k] = 0 /\ pc'[u] = label
        BY <3>1, <1>1, <1>3, <2>2
           DEF IInv, TypeInv, TypeOK, Custody, MoneyOK, KeyIsFree
      <4> QED BY <3>1, <4>1, <2>1, <2>4, <2>5, <2>6, Bills DEF Custody1, Claimed
    <3>2. CASE u # t
      <4>1. pc[u] \in Owning /\ pc'[u] = pc[u] /\ KeyOf(u) # k
        BY <3>2, <2>2, <2>3 DEF IInv, TypeInv, TypeOK
      <4>2. KeyOf(u) \in WorkKeys
        BY <4>1, KeyOfType DEF IInv, Owning, Busy
      <4> QED BY <4>1, <4>2, <2>1, <2>4, <2>5 DEF Custody1, Claimed, IInv, Custody
    <3> QED BY <3>1, <3>2
  <2>8. Exclusive'
    BY <2>2, <2>3, <2>4 DEF Exclusive, Custody, IInv, TypeInv, TypeOK
  <2>9. \A j \in WorkKeys : (RowOK(j) /\ MoneyOK(j))'
    <3> SUFFICES ASSUME NEW j \in WorkKeys PROVE (RowOK(j) /\ MoneyOK(j))'
      OBVIOUS
    <3>1. CASE j # k
      BY <3>1, <2>1, <2>5 DEF RowOK, MoneyOK, Custody, IInv
    <3>2. CASE j = k
      <4>1. paid[j] = 0
        BY <3>2, <1>3 DEF IInv, Custody, MoneyOK, KeyIsFree
      <4>2. parent[t] # None => j \in CiFixKeys
        BY <3>2, <1>1, KeysApart DEF IInv, Chains, ChainOK, KeyOf
      <4> QED BY <3>2, <4>1, <4>2, <2>1, <2>5, <2>6, BoundsAssumption, StatusNames
              DEF RowOK, MoneyOK, IInv, Custody
    <3> QED BY <3>1, <3>2
  <2>10. SnapshotOK'
    <3>1. k \notin snapshot
      BY <1>1, <1>3 DEF SnapshotOK, Custody, IInv, KeyIsFree, RowOK
    <3> QED BY <3>1, <2>1, <2>5 DEF SnapshotOK, Custody, IInv, TypeInv, TypeOK
  <2> QED BY <2>7, <2>8, <2>9, <2>10 DEF Custody
<1> QED BY <1>2, <1>3

\* The one step that pays: the bill of the key becomes the next step's.
LEMMA CustodyCreate ==
    ASSUME IInv, NEW t \in Threads, CreateSucceeds(t) \/ CreateFails(t)
    PROVE  Custody'
<1> DEFINE k == KeyOf(t)
<1>1. k \in WorkKeys /\ paid[k] = 0 /\ pc[t] = "create"
  BY KeyOfType
     DEF IInv, CreateSucceeds, CreateFails, Busy, Custody, Custody1, Owning, Bill
<1>2. PICK label \in {"activate", "fail"} :
          /\ pc' = [pc EXCEPT ![t] = label]
          /\ paid' \in {[paid EXCEPT ![k] = n] : n \in Bill(label)}
  <2>1. CASE CreateSucceeds(t)
    <3>1. PICK lost \in 0 .. LostPerCall : paid' = [paid EXCEPT ![k] = @ + lost + 1]
      BY <2>1 DEF CreateSucceeds
    <3>2. lost + 1 \in Bill("activate") /\ paid' = [paid EXCEPT ![k] = lost + 1]
      BY <1>1, <3>1, Bills, BoundsAssumption DEF IInv, TypeInv, TypeOK
    <3>3. pc' = [pc EXCEPT ![t] = "activate"]
      BY <2>1 DEF CreateSucceeds, Goto
    <3> QED BY <3>2, <3>3
  <2>2. CASE CreateFails(t)
    <3>1. PICK lost \in 0 .. LostPerCall : paid' = [paid EXCEPT ![k] = @ + lost]
      BY <2>2 DEF CreateFails
    <3>2. lost \in Bill("fail") /\ paid' = [paid EXCEPT ![k] = lost]
      BY <1>1, <3>1, Bills, BoundsAssumption DEF IInv, TypeInv, TypeOK
    <3>3. pc' = [pc EXCEPT ![t] = "fail"]
      BY <2>2 DEF CreateFails, RefuseWith, Goto
    <3> QED BY <3>2, <3>3
  <2> QED BY <2>1, <2>2
<1>3. UNCHANGED <<sessions, job, snapshot>>
  BY DEF CreateSucceeds, CreateFails, tables, tick
<1>4. PICK n \in Bill(label) : paid' = [paid EXCEPT ![k] = n]
  BY <1>2
<1>5. n \in 0 .. 1 + LostPerCall
  BY BoundsAssumption DEF Bill
<1>6. \A u \in Threads : KeyOf(u)' = KeyOf(u)
  BY <1>3 DEF KeyOf
<1>7. \A u \in Threads : u # t /\ pc[u] \in Owning => KeyOf(u) # k
  BY <1>1 DEF IInv, Custody, Exclusive, Owning
<1>8. \A u \in Threads : Custody1(u)'
  <2> SUFFICES ASSUME NEW u \in Threads PROVE Custody1(u)'
    OBVIOUS
  <2>1. CASE u = t
    <3>1. paid'[k] = n /\ pc'[t] = label /\ pc[t] \in Owning
      BY <1>1, <1>2, <1>4 DEF IInv, TypeInv, TypeOK, Owning
    <3>2. Claimed(k) /\ ~sessions[k].tracked
      BY <3>1 DEF IInv, Custody, Custody1
    <3> QED BY <2>1, <3>1, <3>2, <1>3, <1>4, <1>6 DEF Custody1, Claimed
  <2>2. CASE u # t
    <3>1. pc'[u] = pc[u]
      BY <1>2, <2>2 DEF IInv, TypeInv, TypeOK
    <3>2. pc[u] \in Owning => paid'[KeyOf(u)] = paid[KeyOf(u)]
      BY <1>4, <1>7, <2>2, KeyOfType DEF IInv, TypeInv, TypeOK, Owning, Busy
    <3> QED BY <3>1, <3>2, <1>3, <1>6 DEF IInv, Custody, Custody1, Claimed
  <2> QED BY <2>1, <2>2
<1>9. Exclusive'
  BY <1>1, <1>2, <1>6 DEF Exclusive, Custody, IInv, TypeInv, TypeOK, Owning
<1>10. \A j \in WorkKeys : (RowOK(j) /\ MoneyOK(j))'
  <2> SUFFICES ASSUME NEW j \in WorkKeys PROVE (RowOK(j) /\ MoneyOK(j))'
    OBVIOUS
  <2>1. RowOK(j) /\ MoneyOK(j)
    BY DEF IInv, Custody
  <2>2. CASE j = k
    <3>1. Claimed(k) /\ ~sessions[k].tracked
      BY <1>1 DEF IInv, Custody, Custody1, Owning
    <3> QED BY <2>1, <2>2, <3>1, <1>1, <1>3, <1>4, <1>5
            DEF RowOK, MoneyOK, Claimed, IInv, TypeInv, TypeOK
  <2>3. CASE j # k
    BY <2>1, <2>3, <1>1, <1>3, <1>4 DEF RowOK, MoneyOK, IInv, TypeInv, TypeOK
  <2> QED BY <2>2, <2>3
<1>11. SnapshotOK'
  BY <1>3 DEF SnapshotOK, Custody, IInv
<1> QED BY <1>8, <1>9, <1>10, <1>11 DEF Custody

\* The two ways a thread settles the row it holds.
LEMMA CustodySettle ==
    ASSUME IInv, NEW t \in Threads, Activate(t) \/ MarkFailed(t)
    PROVE  Custody'
<1> DEFINE k == KeyOf(t)
<1>1. k \in WorkKeys
  BY KeyOfType DEF IInv, Activate, MarkFailed, Busy
<1>2. /\ pc[t] \in Owning
      /\ pc' = [pc EXCEPT ![t] = "respond"]
      /\ UNCHANGED <<paid, job, snapshot>>
  BY DEF Activate, MarkFailed, Answer, Goto, tick, Owning
<1>3. \A j \in WorkKeys : j # k => sessions'[j] = sessions[j]
  BY DEF Activate, MarkFailed, IInv, TypeInv, TypeOK
<1>4. \A u \in Threads : KeyOf(u)' = KeyOf(u)
  BY <1>2 DEF KeyOf
<1>5. \A u \in Threads : u # t /\ pc[u] \in Owning => KeyOf(u) # k /\ KeyOf(u) \in WorkKeys
  BY <1>2, KeyOfType DEF IInv, Custody, Exclusive, Owning, Busy
<1>6. \A u \in Threads : Custody1(u)'
  BY <1>2, <1>3, <1>4, <1>5
     DEF Custody1, Claimed, Custody, IInv, TypeInv, TypeOK, Owning
<1>7. Exclusive'
  BY <1>2, <1>4 DEF Exclusive, Custody, IInv, TypeInv, TypeOK, Owning
<1>8. ASSUME NEW j \in WorkKeys, j = k
      PROVE  (RowOK(j) /\ MoneyOK(j))'
  <2>1. /\ Claimed(j) /\ sessions[j] \in Rows
        /\ paid[j] \in Bill(pc[t])
        /\ ~sessions[j].tracked
        /\ RowOK(j)
    BY <1>2, <1>8 DEF Custody, Custody1, IInv, TypeInv, TypeOK
  <2>2. CASE Activate(t)
    <3>1. sessions'[j] = ActivateRow(sessions[j])
      BY <2>2, <1>8 DEF Activate, IInv, TypeInv, TypeOK
    <3>2. /\ sessions'[j].status = "pending" /\ sessions'[j].tracked
          /\ sessions'[j].parent = sessions[j].parent
      BY <3>1, <2>1, Activated
    <3> QED BY <3>2, <2>1, <2>2, <1>2, Bills, BoundsAssumption, StatusNames
            DEF RowOK, MoneyOK, Activate
  <2>3. CASE MarkFailed(t)
    <3>1. sessions'[j] = WithStatus(sessions[j], "failed")
      BY <2>3, <1>8 DEF MarkFailed, IInv, TypeInv, TypeOK
    <3>2. /\ sessions'[j].status = "failed" /\ ~sessions'[j].tracked
          /\ sessions'[j].parent = sessions[j].parent /\ sessions'[j].ended
      <4> "failed" \in Statuses /\ "failed" \in TERMINAL_STATUSES
        BY StatusNames
      <4> QED BY <3>1, <2>1, Rewritten
    <3> QED BY <3>2, <2>1, <2>3, <1>2, Bills, BoundsAssumption DEF RowOK, MoneyOK, MarkFailed
  <2> QED BY <2>2, <2>3
<1>9. \A j \in WorkKeys : (RowOK(j) /\ MoneyOK(j))'
  BY <1>2, <1>3, <1>8 DEF RowOK, MoneyOK, Custody, IInv
<1>10. SnapshotOK'
  <2>1. ~sessions[k].tracked
    BY <1>2 DEF IInv, Custody, Custody1
  <2> QED BY <2>1, <1>2, <1>3 DEF SnapshotOK, Custody, IInv, TypeInv, TypeOK
<1> QED BY <1>6, <1>7, <1>9, <1>10 DEF Custody

LEMMA CustodyListNonTerminal ==
    ASSUME IInv, ListNonTerminal
    PROVE  Custody'
<1>1. /\ snapshot' = {k \in ActiveKeys : sessions[k].tracked}
      /\ UNCHANGED <<sessions, paid, job>>
      /\ pc' = [pc EXCEPT ![Poller] = "poll"]
  BY DEF ListNonTerminal, Goto, tables
<1>2. SnapshotOK'
  BY <1>1 DEF SnapshotOK, ActiveKeys
<1>3. \A t \in Threads : pc'[t] \in Owning => pc[t] = pc'[t]
  BY <1>1 DEF IInv, TypeInv, TypeOK, Owning
<1>4. /\ \A t \in Threads : Custody1(t)'
      /\ Exclusive'
      /\ \A k \in WorkKeys : (RowOK(k) /\ MoneyOK(k))'
  BY <1>1, <1>3 DEF IInv, Custody, Custody1, Claimed, Exclusive, RowOK, MoneyOK, KeyOf
<1> QED BY <1>2, <1>4 DEF Custody

\* A status written over a row that has one: a tracked row, or a cancelled fix.
LEMMA CustodyRewrite ==
    ASSUME IInv, NEW k \in WorkKeys, NEW s \in Statuses \ {"reserving"},
           sessions' = [sessions EXCEPT ![k] = WithStatus(@, s)],
           sessions[k].status # "none",
           sessions[k].tracked \/ (s = "cancelled" /\ k \in CiFixKeys),
           k \in IssueKeys /\ k \in snapshot' => s \in ACTIVE_STATUSES,
           UNCHANGED <<paid, job>>, snapshot' \subseteq snapshot,
           \A t \in Threads : pc'[t] \in Owning => pc'[t] = pc[t]
    PROVE  Custody'
<1>1. /\ sessions'[k] = WithStatus(sessions[k], s)
      /\ \A j \in WorkKeys : j # k => sessions'[j] = sessions[j]
  BY Written DEF IInv
<1>2. /\ sessions'[k].status = s /\ s \notin {"none", "reserving"}
      /\ sessions'[k].tracked = sessions[k].tracked
      /\ sessions'[k].parent = sessions[k].parent
      /\ s \in TERMINAL_STATUSES => sessions'[k].ended
  <2> sessions[k] \in Rows /\ s \in Statuses /\ "none" \notin Statuses
    BY StatusNames DEF IInv, TypeInv, TypeOK
  <2> QED BY <1>1, Rewritten
<1>3. \A t \in Threads : Custody1(t)'
  <2> SUFFICES ASSUME NEW t \in Threads, pc'[t] \in Owning
               PROVE  Custody1(t)'
    BY DEF Custody1
  <2>1. /\ pc'[t] = pc[t] /\ KeyOf(t)' = KeyOf(t) /\ KeyOf(t) \in WorkKeys
        /\ Custody1(t)
    BY KeyOfType DEF IInv, Custody, KeyOf, Owning, Busy
  <2>2. CASE KeyOf(t) = k
    BY <2>1, <2>2, <1>2 DEF Custody1, Claimed
  <2>3. CASE KeyOf(t) # k
    BY <2>1, <2>3, <1>1 DEF Custody1, Claimed
  <2> QED BY <2>2, <2>3
<1>4. Exclusive'
  BY DEF IInv, Custody, Exclusive, KeyOf
<1>5. \A j \in WorkKeys : (RowOK(j) /\ MoneyOK(j))'
  <2> SUFFICES ASSUME NEW j \in WorkKeys PROVE (RowOK(j) /\ MoneyOK(j))'
    OBVIOUS
  <2>1. CASE j = k
    BY <2>1, <1>2 DEF IInv, Custody, RowOK, MoneyOK
  <2>2. CASE j # k
    BY <2>2, <1>1 DEF IInv, Custody, RowOK, MoneyOK
  <2> QED BY <2>1, <2>2
<1>6. SnapshotOK'
  BY <1>1, <1>2 DEF IInv, TypeInv, TypeOK, Custody, SnapshotOK
<1> QED BY <1>3, <1>4, <1>5, <1>6 DEF Custody

\* The three steps that write a status over somebody else's row, and what they
\* write over what.
LEMMA Rewrites ==
    ASSUME IInv,
           \/ \E t \in Threads : MarkParent(t) \/ CancelChild(t)
           \/ \E k \in WorkKeys : SyncSession(k)
    PROVE  \E k \in WorkKeys, s \in Statuses \ {"reserving"} :
               /\ sessions' = [sessions EXCEPT ![k] = WithStatus(@, s)]
               /\ sessions[k].status # "none"
               /\ sessions[k].tracked \/ (s = "cancelled" /\ k \in CiFixKeys)
               /\ k \in IssueKeys /\ k \in snapshot' => s \in ACTIVE_STATUSES
               /\ k \in IssueKeys =>
                      s \in ACTIVE_STATUSES \/ sessions[k].status \in ACTIVE_STATUSES
               /\ UNCHANGED <<paid, today, job>> /\ snapshot' \subseteq snapshot
               /\ \A t \in Threads : pc'[t] \in Owning \cup {"count_today"} => pc'[t] = pc[t]
<1> USE DEF IInv, TypeInv, TypeOK, Goto, Answer, tick, threads
<1>1. ASSUME NEW t \in Threads, MarkParent(t)
      PROVE  \E k \in WorkKeys :
               /\ sessions' = [sessions EXCEPT ![k] = WithStatus(@, "needs_attention")]
               /\ sessions[k].tracked /\ sessions[k].status # "none"
               /\ UNCHANGED <<paid, today, job, snapshot>>
               /\ \A u \in Threads : pc'[u] \in {pc[u], "list_children"}
  <2>1. parent[t] \in WorkKeys /\ sessions[parent[t]].tracked
    BY <1>1 DEF MarkParent, Chains, ChainOK
  <2> QED BY <1>1, <2>1 DEF MarkParent, Custody, RowOK
<1>2. ASSUME NEW t \in Threads, CancelChild(t)
      PROVE  \E k \in CiFixKeys :
               /\ sessions' = [sessions EXCEPT ![k] = WithStatus(@, "cancelled")]
               /\ sessions[k].status # "none"
               /\ UNCHANGED <<paid, today, job, snapshot>>
               /\ \A u \in Threads : pc'[u] \in {pc[u], "cancel_child", "respond"}
  <2>1. PICK k \in todo[t] :
            /\ sessions' = [sessions EXCEPT ![k] = WithStatus(@, "cancelled")]
            /\ Cancelling(t, todo[t] \ {k})
    BY <1>2 DEF CancelChild
  <2>2. k \in CiFixKeys /\ sessions[k].status # "none"
    BY DEF Chains, ChainOK
  <2>3. \A u \in Threads : pc'[u] \in {pc[u], "cancel_child", "respond"}
    BY <2>1 DEF Cancelling
  <2>4. UNCHANGED <<paid, today, job, snapshot>>
    BY <1>2 DEF CancelChild
  <2> QED BY <2>1, <2>2, <2>3, <2>4
<1>3. ASSUME NEW k \in WorkKeys, SyncSession(k)
      PROVE  \E s \in SyncedStatuses :
               /\ sessions' = [sessions EXCEPT ![k] = WithStatus(@, s)]
               /\ sessions[k].tracked /\ sessions[k].status # "none"
               /\ k \in IssueKeys => sessions[k].status \in ACTIVE_STATUSES
               /\ UNCHANGED <<paid, today, job, pc>> /\ snapshot' = snapshot \ {k}
  BY <1>3 DEF SyncSession, Custody, SnapshotOK, RowOK
<1>4. CiFixKeys \subseteq WorkKeys /\ CiFixKeys \cap IssueKeys = {}
  BY DEF CiFixKeys, WorkKeys, IssueKeys
<1>5. /\ "needs_attention" \in ACTIVE_STATUSES /\ "needs_attention" # "reserving"
      /\ "cancelled" \in Statuses /\ "cancelled" # "reserving"
      /\ ACTIVE_STATUSES \subseteq Statuses
  BY StatusNames
<1>6. CASE \E t \in Threads : MarkParent(t)
  BY <1>1, <1>5, <1>6 DEF Owning
<1>7. CASE \E t \in Threads : CancelChild(t)
  BY <1>2, <1>4, <1>5, <1>7 DEF Owning
<1>8. CASE \E k \in WorkKeys : SyncSession(k)
  BY <1>3, <1>8, PollStatuses
<1> QED BY <1>6, <1>7, <1>8

LEMMA CustodyRewrites ==
    ASSUME IInv,
           \/ \E t \in Threads : MarkParent(t) \/ CancelChild(t)
           \/ \E k \in WorkKeys : SyncSession(k)
    PROVE  Custody'
BY Rewrites, CustodyRewrite

LEMMA CustodyHandler ==
    ASSUME IInv, NEW t \in Threads, HandlerStep(t)
    PROVE  Custody'
<1> USE DEF Goto, Answer, tables, tick, IInv, TypeInv, TypeOK, Owning
<1>1. CASE Dispatch(t)
  BY <1>1, CustodyFrame DEF Dispatch
<1>2. CASE CountActive(t)
  BY <1>2, CustodyFrame DEF CountActive
<1>3. CASE CountToday(t)
  BY <1>3, CustodyFrame DEF CountToday
<1>4. CASE Reserve(t)
  BY <1>4, CustodyReserve
<1>5. CASE Parse(t)
  BY <1>5, Bills, CustodyFrame DEF Parse, RefuseWith
<1>6. CASE CreateSucceeds(t) \/ CreateFails(t)
  BY <1>6, CustodyCreate
<1>7. CASE Activate(t) \/ MarkFailed(t)
  BY <1>7, CustodySettle
<1>8. CASE MarkParent(t) \/ CancelChild(t)
  BY <1>8, CustodyRewrites
<1>9. CASE Guards(t)
  BY <1>9, CustodyFrame DEF Guards
<1>10. CASE ListChildren(t)
  BY <1>10, CustodyFrame DEF ListChildren, Cancelling
<1> QED
  BY <1>1, <1>2, <1>3, <1>4, <1>5, <1>6, <1>7, <1>8, <1>9, <1>10 DEF HandlerStep

LEMMA CustodyPoller ==
    ASSUME IInv, PollerStep
    PROVE  Custody'
<1> USE DEF Goto, Release, tables, tick, IInv, TypeInv, TypeOK, Owning, Threads
<1>1. CASE HandlerStep(Poller)
  BY <1>1, CustodyHandler
<1>2. CASE PollerResponds
  BY <1>2, CustodyFrame DEF PollerResponds
<1>3. CASE DrainStart
  BY <1>3, CustodyFrame DEF DrainStart
<1>4. CASE ListQueued
  BY <1>4, CustodyFrame DEF ListQueued
<1>5. CASE DispatchQueued
  BY <1>5, CustodyFrame DEF DispatchQueued
<1>6. CASE DrainDone
  BY <1>6, CustodyFrame DEF DrainDone
<1>7. CASE ListNonTerminal
  BY <1>7, CustodyListNonTerminal
<1>8. CASE TickDone
  BY <1>8, CustodyFrame DEF TickDone
<1>9. ASSUME NEW k \in WorkKeys, SyncSession(k)
      PROVE  Custody'
  BY <1>9, CustodyRewrites
<1>10. ASSUME NEW k \in WorkKeys, SyncFails(k)
       PROVE  Custody'
  BY <1>10, CustodyFrame DEF SyncFails, threads
<1> QED
  BY <1>1, <1>2, <1>3, <1>4, <1>5, <1>6, <1>7, <1>8, <1>9, <1>10 DEF PollerStep

LEMMA CustodyNext == IInv /\ [Next]_vars => Custody'
<1> SUFFICES ASSUME IInv, [Next]_vars PROVE Custody'
  OBVIOUS
<1> USE DEF Goto, Answer, Release, tables, tick, threads, IInv, TypeInv, TypeOK,
            Owning, Threads
<1>1. ASSUME NEW w \in Workers, NEW d \in Deliveries, Receive(w, d) \/ Replay(w, d)
      PROVE  Custody'
  BY <1>1, CustodyFrame DEF Receive, Replay, StartTask
<1>2. ASSUME NEW w \in Workers, HandlerStep(w)
      PROVE  Custody'
  BY <1>2, CustodyHandler
<1>3. ASSUME NEW w \in Workers, WorkerResponds(w)
      PROVE  Custody'
  BY <1>3, CustodyFrame DEF WorkerResponds
<1>4. CASE PollerStep
  BY <1>4, CustodyPoller
<1>5. ASSUME NEW t \in Threads, HandlerRaises(t)
      PROVE  Custody'
  BY <1>5, CustodyFrame DEF HandlerRaises, RetryCrashed
<1>6. ASSUME NEW w \in Workers, MarkProcessedRaises(w)
      PROVE  Custody'
  BY <1>6, CustodyFrame DEF MarkProcessedRaises
<1>7. CASE TickRaises
  BY <1>7, CustodyFrame DEF TickRaises
<1>8. CASE Crash
  BY <1>8, CustodyFrame DEF Crash
<1>9. CASE NextDay
  BY <1>9, CustodyFrame DEF NextDay
<1>10. CASE UNCHANGED vars
  BY <1>10, CustodyFrame DEF vars
<1> QED
  BY <1>1, <1>2, <1>3, <1>4, <1>5, <1>6, <1>7, <1>8, <1>9, <1>10 DEF Next

\* The steps that write a row or pay.
LEMMA Writers ==
    ASSUME [Next]_vars
    PROVE  \/ UNCHANGED <<sessions, paid>>
           \/ \E t \in Threads :
                 \/ Reserve(t) /\ KeyIsFree(KeyOf(t))
                 \/ CreateSucceeds(t) \/ CreateFails(t)
                 \/ Activate(t) \/ MarkFailed(t)
           \/ \/ \E t \in Threads : MarkParent(t) \/ CancelChild(t)
              \/ \E k \in WorkKeys : SyncSession(k)
<1>1. ASSUME NEW t \in Threads, HandlerStep(t)
      PROVE  \/ UNCHANGED <<sessions, paid>>
             \/ Reserve(t) /\ KeyIsFree(KeyOf(t))
             \/ CreateSucceeds(t) \/ CreateFails(t) \/ Activate(t) \/ MarkFailed(t)
             \/ MarkParent(t) \/ CancelChild(t)
  BY <1>1 DEF HandlerStep, Dispatch, CountActive, CountToday, Parse, Reserve, Guards,
              ListChildren, tables
<1>2. \/ \E t \in Threads : HandlerStep(t)
      \/ \E k \in WorkKeys : SyncSession(k)
      \/ UNCHANGED <<sessions, paid>>
  BY DEF Next, Receive, Replay, WorkerResponds, PollerStep, PollerResponds, DrainStart,
         ListQueued, DispatchQueued, DrainDone, ListNonTerminal, TickDone, SyncFails,
         HandlerRaises, MarkProcessedRaises, TickRaises, Crash, NextDay, vars, tables,
         Threads
<1> QED BY <1>1, <1>2

\* How any step changes any row.
RowStep(k) ==
    \/ sessions'[k] = sessions[k]
    \/ \E t \in Threads : /\ Reserve(t) /\ KeyOf(t) = k
                         /\ sessions[k].status = "none"
                         /\ sessions'[k] = ReservedRow(t)
    \/ \E t \in Threads : /\ Activate(t) /\ KeyOf(t) = k
                         /\ sessions[k].status # "none"
                         /\ sessions'[k] = ActivateRow(sessions[k])
    \/ \E s \in Statuses \ {"reserving"} :
           /\ sessions[k].status # "none"
           /\ sessions'[k] = WithStatus(sessions[k], s)

LEMMA RowSteps ==
    ASSUME IInv, [Next]_vars, NEW k \in WorkKeys
    PROVE  RowStep(k)
<1> USE DEF IInv, TypeInv, TypeOK
<1>1. CASE UNCHANGED <<sessions, paid>>
  BY <1>1 DEF RowStep
<1>2. ASSUME NEW t \in Threads, Reserve(t) /\ KeyIsFree(KeyOf(t))
      PROVE  RowStep(k)
  BY <1>2, KeyOfType DEF Reserve, KeyIsFree, Busy, RowStep
<1>3. ASSUME NEW t \in Threads, CreateSucceeds(t) \/ CreateFails(t)
      PROVE  RowStep(k)
  BY <1>3 DEF CreateSucceeds, CreateFails, tables, RowStep
<1>4. ASSUME NEW t \in Threads, Activate(t) \/ MarkFailed(t)
      PROVE  RowStep(k)
  <2>1. KeyOf(t) \in WorkKeys /\ sessions[KeyOf(t)].status # "none"
    BY <1>4, KeyOfType
       DEF Activate, MarkFailed, Custody, Custody1, Claimed, Owning, Busy
  <2>2. CASE Activate(t)
    BY <2>1, <2>2 DEF Activate, RowStep
  <2>3. CASE MarkFailed(t)
    <3>1. "failed" \in Statuses \ {"reserving"}
      BY StatusNames
    <3> QED BY <2>1, <2>3, <3>1 DEF MarkFailed, RowStep
  <2> QED BY <1>4, <2>2, <2>3
<1>5. CASE \/ \E t \in Threads : MarkParent(t) \/ CancelChild(t)
           \/ \E j \in WorkKeys : SyncSession(j)
  <2>1. PICK j \in WorkKeys, s \in Statuses \ {"reserving"} :
            /\ sessions' = [sessions EXCEPT ![j] = WithStatus(@, s)]
            /\ sessions[j].status # "none"
    BY <1>5, Rewrites
  <2>2. sessions'[k] \in {sessions[k], WithStatus(sessions[k], s)} /\ (k # j => sessions'[k] = sessions[k])
    BY <2>1
  <2> QED BY <2>1, <2>2 DEF RowStep
<1> QED BY <1>1, <1>2, <1>3, <1>4, <1>5, Writers

\* A row stays a row, keeps its session id and its history.
LEMMA RowsKeep ==
    ASSUME IInv, [Next]_vars, NEW k \in WorkKeys
    PROVE  /\ sessions[k].status # "none" => sessions'[k].status # "none"
           /\ sessions[k].tracked => sessions'[k].tracked
           /\ sessions[k].status # "none" => sessions'[k].day = sessions[k].day
           /\ sessions[k].ended /\ sessions[k].status # "none" => sessions'[k].ended
<1>1. RowStep(k) /\ sessions[k] \in Rows /\ "none" \notin Statuses
  BY RowSteps, StatusNames DEF IInv, TypeInv, TypeOK
<1>2. sessions[k].status = "none" => ~sessions[k].tracked
  BY DEF IInv, Custody, RowOK
<1> QED BY <1>1, <1>2, Rewritten, Activated DEF RowStep

Escalating == {"guards", "mark_parent", "list_children", "cancel_child"}

\* Steps that start no escalation, and take none on.
LEMMA ChainsFrame ==
    ASSUME IInv, [Next]_vars,
           \A t \in Threads :
               \/ parent'[t] = None /\ todo'[t] = {} /\ pc'[t] \notin Escalating
               \/ /\ UNCHANGED <<parent[t], todo[t]>>
                  /\ pc[t] \in Busy => pc'[t] \in Busy /\ job'[t] = job[t]
                  /\ pc'[t] \in Escalating => pc'[t] = pc[t]
               \/ ChainOK(t)'
    PROVE  Chains'
<1> SUFFICES ASSUME NEW t \in Threads PROVE ChainOK(t)'
  BY DEF Chains
<1>1. ChainOK(t)
  BY DEF IInv, Chains
<1>2. CASE parent'[t] = None /\ todo'[t] = {} /\ pc'[t] \notin Escalating
  BY <1>2 DEF ChainOK, Escalating
<1>3. CASE /\ UNCHANGED <<parent[t], todo[t]>>
           /\ pc[t] \in Busy => pc'[t] \in Busy /\ job'[t] = job[t]
           /\ pc'[t] \in Escalating => pc'[t] = pc[t]
  <2>1. parent[t] # None => sessions'[parent[t]].tracked
    BY <1>1, RowsKeep DEF ChainOK, IInv, TypeInv, TypeOK
  <2>2. \A k \in todo[t] : k \in CiFixKeys /\ sessions'[k].status # "none"
    BY <1>1, RowsKeep DEF ChainOK, IInv, TypeInv, TypeOK
  <2> QED BY <1>1, <1>3, <2>1, <2>2 DEF ChainOK, IsFix, Escalating, Busy
<1> QED BY <1>2, <1>3

\* Only the router brings a thread to the guards, and only with a failed run.
LEMMA RunsAreFixes ==
    ASSUME NEW d \in Deliveries, Route(Payload[d]) = "handle_ci_failure"
    PROVE  IsFix(d)
BY DEF Route, RouteIssue, RouteWorkflowRun, IsFix

LEMMA ChainsHandler ==
    ASSUME IInv, [Next]_vars, NEW t \in Threads, HandlerStep(t)
    PROVE  Chains'
<1> USE DEF IInv, TypeInv, TypeOK, JobOK, Goto, Answer, RefuseWith, Busy
<1>1. /\ job' = job /\ pc[t] \in Busy
      /\ \A u \in Threads : u # t => UNCHANGED <<pc[u], parent[u], todo[u]>>
      /\ pc'[t] \in Busy
  BY DEF HandlerStep, Dispatch, CountActive, CountToday, Reserve, Parse, CreateSucceeds,
         CreateFails, Activate, MarkFailed, Guards, MarkParent, ListChildren, CancelChild,
         Cancelling, chain
<1>2. ASSUME \/ ChainOK(t)'
             \/ UNCHANGED chain /\ (pc'[t] \in Escalating => pc'[t] = pc[t])
      PROVE  Chains'
  <2> SUFFICES ASSUME NEW u \in Threads
               PROVE  \/ /\ UNCHANGED <<parent[u], todo[u]>>
                         /\ pc[u] \in Busy => pc'[u] \in Busy /\ job'[u] = job[u]
                         /\ pc'[u] \in Escalating => pc'[u] = pc[u]
                      \/ ChainOK(u)'
    BY ChainsFrame
  <2>1. CASE u = t
    BY <2>1, <1>1, <1>2 DEF chain
  <2>2. CASE u # t
    BY <2>2, <1>1
  <2> QED BY <2>1, <2>2
<1>3. CASE Dispatch(t)
  <2>1. parent[t] = None \/ IsFix(job[t])
    BY DEF Chains, ChainOK
  <2>2. pc'[t] = "guards" => IsFix(job[t])
    BY <1>3, <1>1, RunsAreFixes DEF Dispatch
  <2>3. ChainOK(t)
    BY DEF Chains
  <2>4. UNCHANGED <<sessions, chain>> /\ pc'[t] \in {"count_active", "guards", "respond"}
    BY <1>3 DEF Dispatch, tables
  <2>5. ChainOK(t)'
    BY <1>1, <2>2, <2>3, <2>4 DEF ChainOK, chain, IsFix
  <2> QED BY <1>2, <2>5
<1>4. CASE CountActive(t) \/ CountToday(t) \/ Reserve(t) \/ Parse(t) \/ CreateSucceeds(t)
             \/ CreateFails(t) \/ Activate(t) \/ MarkFailed(t)
  <2>1. UNCHANGED chain
    BY <1>4 DEF CountActive, CountToday, Reserve, Parse, CreateSucceeds, CreateFails,
                Activate, MarkFailed, chain
  <2>2. pc'[t] \notin Escalating
    BY <1>4 DEF CountActive, CountToday, Reserve, Parse, CreateSucceeds, CreateFails,
                Activate, MarkFailed, Escalating
  <2> QED BY <1>2, <2>1, <2>2
<1>5. CASE Guards(t)
  <2>1. IsFix(job[t]) /\ \A k \in todo[t] : k \in CiFixKeys /\ sessions[k].status # "none"
    BY <1>5 DEF Guards, Chains, ChainOK
  <2>2. \/ parent'[t] = parent[t] /\ pc'[t] = "respond"
        \/ parent'[t] \in OverAndTracked /\ pc'[t] \in {"count_active", "mark_parent"}
    <3>1. CASE Answer(t, "skipped") /\ UNCHANGED parent
      BY <3>1
    <3>2. CASE /\ \E p \in OverAndTracked : parent' = [parent EXCEPT ![t] = p]
               /\ Goto(t, "count_active") \/ Goto(t, "mark_parent")
      BY <3>2
    <3> QED BY <1>5, <3>1, <3>2 DEF Guards
  <2>3. parent[t] # None => sessions[parent[t]].tracked
    BY DEF Chains, ChainOK
  <2>4. \A k \in OverAndTracked : k # None /\ sessions[k].tracked
    BY DeliveriesAssumption DEF OverAndTracked, WorkKeys
  <2>5. UNCHANGED <<sessions, todo>>
    BY <1>5 DEF Guards, tables
  <2>6. ChainOK(t)'
    BY <1>1, <2>1, <2>2, <2>3, <2>4, <2>5 DEF ChainOK, IsFix
  <2> QED BY <1>2, <2>6
<1>6. CASE MarkParent(t)
  <2>1. parent[t] # None /\ ChainOK(t)
    BY <1>6 DEF MarkParent, Chains, ChainOK
  <2>2. UNCHANGED chain /\ pc'[t] = "list_children"
    BY <1>6 DEF MarkParent
  <2>3. sessions'[parent[t]].tracked
    BY <2>1, RowsKeep DEF ChainOK
  <2>4. \A k \in todo[t] : k \in CiFixKeys /\ sessions'[k].status # "none"
    BY <2>1, RowsKeep DEF ChainOK
  <2>5. ChainOK(t)'
    BY <1>1, <2>1, <2>2, <2>3, <2>4 DEF ChainOK, chain, IsFix
  <2> QED BY <1>2, <2>5
<1>7. CASE ListChildren(t) \/ CancelChild(t)
  <2>1. parent[t] # None /\ ChainOK(t) /\ parent' = parent
    BY <1>7 DEF ListChildren, CancelChild, Chains, ChainOK
  <2>2. pc'[t] \in {"cancel_child", "respond"}
    BY <1>7 DEF ListChildren, CancelChild, Cancelling
  <2>3. sessions'[parent[t]].tracked
    BY <2>1, RowsKeep DEF ChainOK
  <2>4. \A k \in todo'[t] : k \in CiFixKeys /\ sessions'[k].status # "none"
    <3>1. CASE ListChildren(t)
      <4>1. todo'[t] \subseteq {k \in ActiveKeys : sessions[k].parent = parent[t]}
            /\ sessions' = sessions
        BY <3>1 DEF ListChildren, Cancelling, tables
      <4>2. \A k \in ActiveKeys : k \in WorkKeys /\ sessions[k].status # "none"
        BY StatusNames DEF ActiveKeys
      <4> QED BY <2>1, <4>1, <4>2 DEF Custody, RowOK
    <3>2. CASE CancelChild(t)
      <4>1. todo'[t] \subseteq todo[t]
        BY <3>2 DEF CancelChild, Cancelling
      <4> QED BY <2>1, <4>1, RowsKeep DEF ChainOK
    <3> QED BY <1>7, <3>1, <3>2
  <2>5. ChainOK(t)'
    BY <1>1, <2>1, <2>2, <2>3, <2>4 DEF ChainOK, IsFix
  <2> QED BY <1>2, <2>5
<1> QED BY <1>3, <1>4, <1>5, <1>6, <1>7 DEF HandlerStep

LEMMA ChainsNext == IInv /\ [Next]_vars => Chains'
<1> SUFFICES ASSUME IInv, [Next]_vars PROVE Chains'
  OBVIOUS
<1>1. ASSUME NEW t \in Threads, HandlerStep(t)
      PROVE  Chains'
  BY <1>1, ChainsHandler
<1> USE DEF IInv, TypeInv, TypeOK, Goto, Answer, Release, tables, tick, threads, chain,
            Threads, Busy, Escalating
<1>2. ASSUME NEW w \in Workers, NEW d \in Deliveries, Receive(w, d) \/ Replay(w, d)
      PROVE  Chains'
  BY <1>2, ChainsFrame DEF Receive, Replay, StartTask
<1>3. ASSUME NEW w \in Workers, WorkerResponds(w) \/ MarkProcessedRaises(w)
      PROVE  Chains'
  BY <1>3, ChainsFrame DEF WorkerResponds, MarkProcessedRaises
<1>4. CASE PollerResponds \/ DrainStart \/ ListQueued \/ DispatchQueued \/ DrainDone
             \/ ListNonTerminal \/ TickDone
             \/ \E k \in WorkKeys : SyncSession(k) \/ SyncFails(k)
  BY <1>4, ChainsFrame
     DEF PollerResponds, DrainStart, ListQueued, DispatchQueued, DrainDone, ListNonTerminal,
         TickDone, SyncSession, SyncFails
<1>5. ASSUME NEW t \in Threads, HandlerRaises(t)
      PROVE  Chains'
  BY <1>5, ChainsFrame DEF HandlerRaises, RetryCrashed
<1>6. CASE TickRaises \/ Crash
  BY <1>6, ChainsFrame DEF TickRaises, Crash
<1>7. CASE NextDay \/ UNCHANGED vars
  BY <1>7, ChainsFrame DEF NextDay, vars
<1> QED BY <1>1, <1>2, <1>3, <1>4, <1>5, <1>6, <1>7 DEF Next, PollerStep

LEMMA Inductive == Spec => []IInv
<1>1. Init => IInv
  BY TypeInit, CustodyInit DEF IInv
<1>2. IInv /\ [Next]_vars => IInv'
  BY TypeNext, CustodyNext, ChainsNext DEF IInv
<1> QED BY <1>1, <1>2, PTL DEF Spec

\* No unit of work is put to Devin in two create calls: any number of
\* threads, deliveries per issue, replays, database faults, restarts and queue
\* retries, and whatever responses are lost.
THEOREM NeverPaidTwice == Spec => []PaidOnce
<1>1. IInv => PaidOnce
  BY BoundsAssumption DEF IInv, Custody, RowOK, MoneyOK, PaidOnce
<1> QED BY <1>1, Inductive, PTL

-----------------------------------------------------------------------------
(***************************************************************************)
(* The reservation pattern implements the abstract ledger.                 *)
(***************************************************************************)
PhaseOf == [k \in IssueKeys |-> Phase(k)]
PaidOf == [k \in IssueKeys |-> paid[k]]

LedgerStep == [Ledger!Next]_<<PhaseOf, PaidOf>>

\* A step that changes neither the row nor the bill of an issue.
LEMMA LedgerFrame ==
    ASSUME \A j \in IssueKeys : sessions'[j] = sessions[j] /\ paid'[j] = paid[j]
    PROVE  LedgerStep
BY DEF LedgerStep, PhaseOf, PaidOf, Phase

\* A step that moves the phase of one issue, paying nothing.
LEMMA LedgerMove ==
    ASSUME NEW k \in IssueKeys, UNCHANGED paid,
           \A j \in IssueKeys : j # k => sessions'[j] = sessions[j],
           \/ Phase(k)' = Phase(k)
           \/ Phase(k) = "free" /\ Phase(k)' = "claimed"
           \/ Phase(k) = "claimed" /\ Phase(k)' = "tracked" /\ paid[k] # 0
           \/ Phase(k) = "claimed" /\ Phase(k)' = "abandoned" /\ paid[k] <= LostPerCall
           \/ Phase(k) = "tracked" /\ Phase(k)' = "over"
           \/ Phase(k) = "over" /\ Phase(k)' = "tracked"
    PROVE  LedgerStep
<1>1. PhaseOf' = [PhaseOf EXCEPT ![k] = Phase(k)'] /\ PhaseOf[k] = Phase(k)
  BY DEF PhaseOf, Phase
<1>2. PaidOf' = PaidOf /\ PaidOf[k] = paid[k]
  BY DEF PaidOf
<1>3. CASE Phase(k)' = Phase(k)
  <2>1. PhaseOf' = PhaseOf
    BY <1>1, <1>3 DEF PhaseOf
  <2> QED BY <1>2, <2>1 DEF LedgerStep
<1>4. CASE Phase(k)' # Phase(k)
  <2>1. \/ Ledger!Claim(k) \/ Ledger!Track(k) \/ Ledger!Abandon(k)
        \/ Ledger!Finish(k) \/ Ledger!Reopen(k)
    BY <1>1, <1>2, <1>4
       DEF PhaseOf, PaidOf, Ledger!Claim, Ledger!Track, Ledger!Abandon, Ledger!Finish,
           Ledger!Reopen, Ledger!Move
  <2>2. Ledger!Next
    BY <2>1 DEF Ledger!Next
  <2> QED BY <2>2 DEF LedgerStep
<1> QED BY <1>3, <1>4

LEMMA IssueKeysType == IssueKeys \subseteq WorkKeys /\ IssueKeys \cap CiFixKeys = {}
BY DEF IssueKeys

LEMMA LedgerReserve ==
    ASSUME IInv, NEW t \in Threads, Reserve(t), KeyIsFree(KeyOf(t))
    PROVE  LedgerStep
<1> DEFINE k == KeyOf(t)
<1>1. k \in WorkKeys
  BY KeyOfType DEF IInv, Reserve, Busy
<1>2. /\ UNCHANGED paid
      /\ sessions'[k] = ReservedRow(t)
      /\ \A j \in WorkKeys : j # k => sessions'[j] = sessions[j]
  BY <1>1 DEF Reserve, IInv, TypeInv, TypeOK
<1>3. Phase(k) = "free"
  BY DEF Phase, KeyIsFree
<1>4. sessions'[k].status = "reserving"
  BY <1>2 DEF ReservedRow, NoRow
<1>5. CASE k \in IssueKeys
  <2>1. PICK j \in IssueKeys : j = k
    BY <1>5
  <2>2. Phase(j)' = "claimed" /\ Phase(j) = "free"
    BY <1>3, <1>4, <2>1 DEF Phase
  <2> QED BY <1>2, <2>1, <2>2, IssueKeysType, LedgerMove
<1>6. CASE k \notin IssueKeys
  BY <1>2, <1>6, IssueKeysType, LedgerFrame
<1> QED BY <1>5, <1>6

LEMMA LedgerCreate ==
    ASSUME IInv, NEW t \in Threads, CreateSucceeds(t) \/ CreateFails(t)
    PROVE  LedgerStep
<1> DEFINE k == KeyOf(t)
<1> USE DEF IInv, TypeInv, TypeOK
<1>1. k \in WorkKeys /\ Claimed(k) /\ paid[k] = 0 /\ UNCHANGED sessions
  BY KeyOfType
     DEF CreateSucceeds, CreateFails, Busy, Custody, Custody1, Owning, Bill, tables
<1>2. PICK n \in 0 .. 1 + LostPerCall : paid' = [paid EXCEPT ![k] = n]
  <2>1. \E lost \in 0 .. LostPerCall :
            \/ paid' = [paid EXCEPT ![k] = @ + lost]
            \/ paid' = [paid EXCEPT ![k] = @ + lost + 1]
    BY DEF CreateSucceeds, CreateFails
  <2> QED BY <1>1, <2>1, BoundsAssumption
<1>3. CASE k \notin IssueKeys \/ n = 0
  <2>1. \A j \in IssueKeys : paid'[j] = paid[j]
    BY <1>1, <1>2, <1>3, IssueKeysType
  <2> QED BY <1>1, <2>1, LedgerFrame
<1>4. CASE k \in IssueKeys /\ n # 0
  <2>1. PICK j \in IssueKeys : j = k
    BY <1>4
  <2>2. PhaseOf' = PhaseOf /\ PhaseOf[j] = "claimed"
    BY <1>1, <2>1, IssueKeysType DEF PhaseOf, Phase, Claimed
  <2>3. n \in 1 .. 1 + LostPerCall
    BY <1>4, BoundsAssumption
  <2>4. PaidOf[j] = 0 /\ PaidOf' = [PaidOf EXCEPT ![j] = n]
    BY <1>1, <1>2, <2>1, IssueKeysType DEF PaidOf
  <2>5. Ledger!Spend(j)
    BY <2>2, <2>3, <2>4 DEF Ledger!Spend, PhaseOf, PaidOf
  <2> QED BY <2>5 DEF LedgerStep, Ledger!Next
<1> QED BY <1>3, <1>4

LEMMA LedgerSettle ==
    ASSUME IInv, NEW t \in Threads, Activate(t) \/ MarkFailed(t)
    PROVE  LedgerStep
<1> DEFINE k == KeyOf(t)
<1>1. /\ k \in WorkKeys /\ Claimed(k) /\ paid[k] \in Bill(pc[t]) /\ sessions[k] \in Rows
      /\ ~sessions[k].tracked /\ UNCHANGED paid
  BY KeyOfType
     DEF IInv, TypeInv, TypeOK, Activate, MarkFailed, Custody, Custody1, Owning, Busy
<1>2. \A j \in WorkKeys : j # k => sessions'[j] = sessions[j]
  BY DEF Activate, MarkFailed, IInv, TypeInv, TypeOK
<1>3. CASE k \notin IssueKeys
  BY <1>1, <1>2, <1>3, IssueKeysType, LedgerFrame
<1>4. CASE k \in IssueKeys
  <2>1. PICK j \in IssueKeys : j = k
    BY <1>4
  <2>2. Phase(j) = "claimed"
    BY <1>1, <2>1, IssueKeysType DEF Phase, Claimed
  <2>3. CASE Activate(t)
    <3>1. sessions'[j] = ActivateRow(sessions[j]) /\ paid[j] # 0
      BY <1>1, <2>1, <2>3, Bills, BoundsAssumption DEF Activate, IInv, TypeInv, TypeOK
    <3>2. Phase(j)' = "tracked"
      BY <1>1, <2>1, <3>1, Activated, StatusNames DEF Phase
    <3> QED BY <1>1, <1>2, <2>1, <2>2, <3>1, <3>2, IssueKeysType, LedgerMove
  <2>4. CASE MarkFailed(t)
    <3>1. sessions'[j] = WithStatus(sessions[j], "failed") /\ paid[j] <= LostPerCall
      BY <1>1, <2>1, <2>4, Bills, BoundsAssumption DEF MarkFailed, IInv, TypeInv, TypeOK
    <3>2. "failed" \in Statuses /\ ~sessions[j].tracked /\ sessions[j] \in Rows
      BY <1>1, <2>1, StatusNames
    <3>3. sessions'[j].status = "failed" /\ ~sessions'[j].tracked
      BY <3>1, <3>2, Rewritten
    <3>4. Phase(j)' = "abandoned"
      BY <3>3 DEF Phase
    <3> QED BY <1>1, <1>2, <2>1, <2>2, <3>1, <3>4, IssueKeysType, LedgerMove
  <2> QED BY <2>3, <2>4
<1> QED BY <1>3, <1>4

\* A poll that finds a session over, or an escalation that takes it up again.
LEMMA LedgerRewrite ==
    ASSUME IInv,
           \/ \E t \in Threads : MarkParent(t) \/ CancelChild(t)
           \/ \E k \in WorkKeys : SyncSession(k)
    PROVE  LedgerStep
<1>1. PICK k \in WorkKeys, s \in Statuses \ {"reserving"} :
          /\ sessions' = [sessions EXCEPT ![k] = WithStatus(@, s)]
          /\ sessions[k].status # "none"
          /\ sessions[k].tracked \/ k \in CiFixKeys
          /\ UNCHANGED paid
  BY Rewrites
<1>2. /\ sessions'[k] = WithStatus(sessions[k], s)
      /\ \A j \in WorkKeys : j # k => sessions'[j] = sessions[j]
  BY <1>1, Written DEF IInv
<1>3. CASE k \notin IssueKeys
  BY <1>1, <1>2, <1>3, IssueKeysType, LedgerFrame
<1>4. CASE k \in IssueKeys
  <2>1. sessions[k].tracked /\ sessions[k].status \notin {"none", "reserving"}
        /\ sessions[k] \in Rows
    BY <1>1, <1>4, IssueKeysType DEF IInv, TypeInv, TypeOK, Custody, RowOK
  <2>2. sessions'[k].tracked /\ sessions'[k].status = s
    BY <1>2, <2>1, Rewritten
  <2>3. "none" \notin Statuses
    BY StatusNames
  <2>4. Phase(k) \in {"tracked", "over"}
    BY <2>1 DEF Phase
  <2>5. Phase(k)' \in {"tracked", "over"}
    BY <1>1, <2>2, <2>3 DEF Phase
  <2> QED BY <1>1, <1>2, <1>4, <2>4, <2>5, IssueKeysType, LedgerMove
<1> QED BY <1>3, <1>4

LEMMA LedgerNext == IInv /\ [Next]_vars => LedgerStep
<1> SUFFICES ASSUME IInv, [Next]_vars PROVE LedgerStep
  OBVIOUS
<1> QED
  BY Writers, LedgerFrame, LedgerReserve, LedgerCreate, LedgerSettle, LedgerRewrite

\* The webhook, handler, queue and poller implement the ledger for issues: work
\* is claimed once, paid for at most once and only under its claim, a claim that
\* was paid for is given up only if all that was paid for are sessions whose
\* responses were lost, and work that an escalation takes up again is neither
\* claimed nor paid for again.
THEOREM IntakeImplementsLedger == Spec => ImplementsLedger
<1>1. Init => Ledger!Init
  BY IssueKeysType DEF Init, Ledger!Init, Phase, NoRow
<1>2. IInv /\ [Next]_vars => [Ledger!Next]_<<PhaseOf, PaidOf>>
  BY LedgerNext DEF LedgerStep
<1>3. IInv /\ [Next]_vars =>
          [Ledger!Next]_<<[k \in IssueKeys |-> Phase(k)], [k \in IssueKeys |-> paid[k]]>>
  BY <1>2 DEF PhaseOf, PaidOf
<1> QED BY <1>1, <1>3, Inductive, PTL DEF Spec, ImplementsLedger, Ledger!Spec

-----------------------------------------------------------------------------
(***************************************************************************)
(* What the log says is true.  A result that is true of a row stays true:  *)
(* rows only move forward (RowsSettle); and a thread's answer is true of   *)
(* its row from the moment it has one (AnswersOK).                         *)
(***************************************************************************)
Refused(t) ==
    /\ reply[t] \in Refusals
    /\ paid[KeyOf(t)] <= IF reply[t] = "create_failed" THEN LostPerCall ELSE 0

\* No thread is about to pay for key k or to settle its row.
Unheld(k) == \A u \in Threads : pc[u] \in Owning => KeyOf(u) # k

\* A refusal is final: whoever gave the row up has let go of its key.
Settled(r, k) == Truthful(r, k) /\ (r \in Refusals => Unheld(k))

AnswersOK ==
    \A t \in Threads :
        /\ pc[t] = "fail" => Refused(t)
        /\ pc[t] = "respond" => Settled(reply[t], KeyOf(t))

LogInv ==
    /\ \A d \in Deliveries : Settled(result[d], Payload[d].work)
    /\ AnswersOK

\* Only try_reserve makes a thread the owner of a key, of one that is free.
LEMMA OwnersFrom ==
    ASSUME IInv, [Next]_vars, NEW t \in Threads, pc'[t] \in Owning
    PROVE  job'[t] = job[t] /\ (pc[t] \in Owning \/ KeyIsFree(KeyOf(t)))
<1> USE DEF IInv, TypeInv, TypeOK, Goto, Answer, RefuseWith, Release, Owning, Threads
<1>1. ASSUME NEW u \in Threads, HandlerStep(u)
      PROVE  job'[t] = job[t] /\ (pc[t] \in Owning \/ KeyIsFree(KeyOf(t)))
  <2>1. job' = job /\ (t = u \/ pc'[t] = pc[t])
    BY <1>1 DEF HandlerStep, Dispatch, CountActive, CountToday, Reserve, Parse,
                CreateSucceeds, CreateFails, Activate, MarkFailed, Guards, MarkParent,
                ListChildren, CancelChild, Cancelling
  <2>2. Dispatch(u) \/ CountActive(u) \/ CountToday(u) \/ Guards(u) \/ MarkParent(u)
            \/ ListChildren(u) \/ CancelChild(u) \/ Activate(u) \/ MarkFailed(u)
            => pc'[u] \notin Owning
    BY DEF Dispatch, CountActive, CountToday, Guards, MarkParent, ListChildren, CancelChild,
           Cancelling, Activate, MarkFailed
  <2>3. Parse(u) \/ CreateSucceeds(u) \/ CreateFails(u) => pc[u] \in Owning
    BY DEF Parse, CreateSucceeds, CreateFails
  <2>4. Reserve(u) /\ pc'[u] \in Owning => KeyIsFree(KeyOf(u))
    BY DEF Reserve
  <2> QED BY <1>1, <2>1, <2>2, <2>3, <2>4 DEF HandlerStep
<1>2. CASE ~ \E u \in Threads : HandlerStep(u)
  <2>1. pc'[t] = pc[t] /\ job'[t] = job[t]
    BY <1>2, ThreadsAssumption
       DEF Next, Receive, Replay, StartTask, WorkerResponds, PollerStep, PollerResponds,
           DrainStart, ListQueued, DispatchQueued, DrainDone, ListNonTerminal, TickDone,
           SyncSession, SyncFails, HandlerRaises, RetryCrashed, MarkProcessedRaises,
           TickRaises, Crash, NextDay, vars, threads
  <2> QED BY <2>1
<1> QED BY <1>1, <1>2

LEMMA UnheldStays ==
    ASSUME IInv, [Next]_vars, NEW k, sessions[k].status # "none", Unheld(k)
    PROVE  Unheld(k)'
BY OwnersFrom DEF Unheld, KeyOf, KeyIsFree

\* Only a thread that creates a session pays, for its own key.
LEMMA BillStays ==
    ASSUME IInv, [Next]_vars, NEW k \in WorkKeys,
           \A u \in Threads : pc[u] = "create" => KeyOf(u) # k
    PROVE  paid'[k] = paid[k]
<1>1. ASSUME NEW u \in Threads, CreateSucceeds(u) \/ CreateFails(u)
      PROVE  paid'[k] = paid[k]
  BY <1>1 DEF CreateSucceeds, CreateFails, IInv, TypeInv, TypeOK
<1>2. ASSUME NEW u \in Threads, Reserve(u) \/ Activate(u) \/ MarkFailed(u)
      PROVE  paid'[k] = paid[k]
  BY <1>2 DEF Reserve, Activate, MarkFailed
<1>3. CASE \/ \E t \in Threads : MarkParent(t) \/ CancelChild(t)
           \/ \E j \in WorkKeys : SyncSession(j)
  BY <1>3, Rewrites
<1> QED BY <1>1, <1>2, <1>3, Writers

LEMMA RowsSettle ==
    ASSUME IInv, [Next]_vars, NEW k \in WorkKeys, NEW r, Settled(r, k)
    PROVE  Settled(r, k)'
<1>1. sessions[k] \in Rows /\ RowOK(k) /\ RowOK(k)'
  BY CustodyNext DEF IInv, TypeInv, TypeOK, Custody
<1>2. CASE r = "created"
  <2>1. sessions[k].tracked /\ \A u \in Threads : pc[u] = "create" => KeyOf(u) # k
    BY <1>2 DEF Settled, Truthful, IInv, Custody, Custody1, Owning
  <2>2. sessions'[k].tracked /\ paid'[k] = paid[k]
    BY <2>1, RowsKeep, BillStays
  <2> QED BY <1>2, <2>2 DEF Settled, Truthful, Refusals
<1>3. CASE r = "already_reserved"
  <2>1. sessions'[k].status # "none"
    BY <1>3, RowsKeep DEF Settled, Truthful
  <2> QED BY <1>3, <2>1 DEF Settled, Truthful, Refusals
<1>4. CASE r \in Refusals
  <2>1. /\ ~sessions[k].tracked /\ sessions[k].status \in {"failed", "cancelled"}
        /\ Unheld(k)
    BY <1>4 DEF Settled, Truthful
  <2>2. Unheld(k)'
    BY <2>1, UnheldStays
  <2>3. paid'[k] = paid[k]
    BY <2>1, BillStays DEF Unheld, Owning
  <2>4. ~ \E t \in Threads : Activate(t) /\ KeyOf(t) = k
    BY <2>1 DEF Unheld, Activate, Owning
  <2>5. ~sessions'[k].tracked /\ sessions'[k].status \notin {"none", "reserving"}
    <3>1. sessions'[k] = sessions[k] \/ \E s \in Statuses \ {"reserving"} :
              sessions'[k] = WithStatus(sessions[k], s)
      BY <2>1, <2>4, RowSteps DEF RowStep
    <3>2. "none" \notin Statuses
      BY StatusNames
    <3>3. CASE sessions'[k] = sessions[k]
      BY <2>1, <3>3
    <3>4. ASSUME NEW s \in Statuses \ {"reserving"}, sessions'[k] = WithStatus(sessions[k], s)
          PROVE  ~sessions'[k].tracked /\ sessions'[k].status \notin {"none", "reserving"}
      BY <1>1, <2>1, <3>2, <3>4, Rewritten
    <3> QED BY <3>1, <3>3, <3>4
  <2>6. \/ sessions'[k].status = "failed"
        \/ sessions'[k].status = "cancelled" /\ k \in CiFixKeys
    BY <1>1, <2>5 DEF RowOK
  <2> QED BY <1>4, <2>2, <2>3, <2>5, <2>6 DEF Settled, Truthful, Refusals
<1>5. CASE r \notin {"created", "already_reserved"} \cup Refusals
  BY <1>5 DEF Settled, Truthful
<1> QED BY <1>2, <1>3, <1>4, <1>5

\* Nothing more is paid for a key whose holder is giving it up.
LEMMA BillIsFinal ==
    ASSUME IInv, [Next]_vars, NEW t \in Threads, pc[t] = "fail"
    PROVE  paid'[KeyOf(t)] = paid[KeyOf(t)]
<1>1. KeyOf(t) \in WorkKeys
  BY KeyOfType DEF IInv, Busy
<1>2. \A u \in Threads : pc[u] = "create" => KeyOf(u) # KeyOf(t)
  BY DEF IInv, Custody, Exclusive, Owning
<1> QED BY <1>1, <1>2, BillStays

LEMMA LogFrame ==
    ASSUME IInv, LogInv, [Next]_vars,
           \A d \in Deliveries :
               result'[d] = result[d] \/ Settled(result'[d], Payload[d].work),
           \A t \in Threads : pc'[t] = "respond" =>
               \/ pc[t] = "respond" /\ reply'[t] = reply[t] /\ job'[t] = job[t]
               \/ Settled(reply[t], KeyOf(t))',
           \A t \in Threads : pc'[t] = "fail" =>
               \/ pc[t] = "fail" /\ reply'[t] = reply[t] /\ job'[t] = job[t]
               \/ Refused(t)'
    PROVE  LogInv'
<1>1. ASSUME NEW d \in Deliveries
      PROVE  Settled(result[d], Payload[d].work)'
  <2>1. Payload[d].work \in WorkKeys
    BY DEF WorkKeys
  <2>2. Settled(result'[d], Payload[d].work)
    BY DEF LogInv
  <2>3. ASSUME NEW r, r = result'[d], NEW k, k = Payload[d].work
        PROVE  Settled(r, k)'
    BY <2>1, <2>2, <2>3, RowsSettle
  <2> QED BY <2>3 DEF Settled, Truthful, Unheld, KeyOf
<1>2. ASSUME NEW t \in Threads, pc'[t] = "respond"
      PROVE  Settled(reply[t], KeyOf(t))'
  <2>1. CASE Settled(reply[t], KeyOf(t))'
    BY <2>1
  <2>2. CASE pc[t] = "respond" /\ reply'[t] = reply[t] /\ job'[t] = job[t]
    <3>1. KeyOf(t) \in WorkKeys /\ Settled(reply[t], KeyOf(t))
      BY <2>2, KeyOfType DEF IInv, LogInv, AnswersOK, Busy
    <3>2. ASSUME NEW r, r = reply[t], NEW k, k = KeyOf(t)
          PROVE  Settled(r, k)'
      BY <3>1, <3>2, RowsSettle
    <3>3. KeyOf(t)' = KeyOf(t)
      BY <2>2 DEF KeyOf
    <3> QED BY <3>2, <3>3, <2>2 DEF Settled, Truthful, Unheld, KeyOf
  <2> QED BY <1>2, <2>1, <2>2
<1>3. ASSUME NEW t \in Threads, pc'[t] = "fail"
      PROVE  Refused(t)'
  <2>1. CASE Refused(t)'
    BY <2>1
  <2>2. CASE pc[t] = "fail" /\ reply'[t] = reply[t] /\ job'[t] = job[t]
    <3>1. Refused(t) /\ paid'[KeyOf(t)] = paid[KeyOf(t)]
      BY <2>2, BillIsFinal DEF LogInv, AnswersOK
    <3> QED BY <2>2, <3>1 DEF Refused, KeyOf
  <2> QED BY <1>3, <2>1, <2>2
<1> QED BY <1>1, <1>2, <1>3 DEF LogInv, AnswersOK

LEMMA LogHandler ==
    ASSUME IInv, LogInv, [Next]_vars,
           NEW t \in Threads, HandlerStep(t)
    PROVE  LogInv'
<1> USE DEF IInv, TypeInv, TypeOK, Goto, Answer, tables
<1>1. CASE Dispatch(t)
  BY <1>1, LogFrame DEF Dispatch, Settled, Truthful, Refusals
<1>2. CASE CountActive(t)
  BY <1>2, LogFrame DEF CountActive, Settled, Truthful, Refusals
<1>3. CASE CountToday(t)
  BY <1>3, LogFrame DEF CountToday, Settled, Truthful, Refusals
<1>4. CASE Reserve(t)
  BY <1>4, LogFrame, KeyOfType DEF Reserve, KeyIsFree, Settled, Truthful, Refusals, KeyOf, Busy
<1>5. CASE Parse(t)
  <2>1. Payload[job[t]].body # "cve" => Refused(t)'
    <3>1. Payload[job[t]].body \in {"cve", "not_a_cve", "missing_fields"}
      BY <1>5, KeyOfType DEF Parse, Busy
    <3>2. paid[KeyOf(t)] = 0
      BY <1>5 DEF Parse, Custody, Custody1, Owning, Bill
    <3> QED BY <1>5, <3>1, <3>2 DEF Parse, RefuseWith, Refused, Refusals, KeyOf
  <2> QED BY <1>5, <2>1, LogFrame DEF Parse, RefuseWith
<1>6. CASE CreateSucceeds(t)
  BY <1>6, LogFrame DEF CreateSucceeds
<1>7. CASE CreateFails(t)
  <2>1. Refused(t)'
    <3>1. PICK lost \in 0 .. LostPerCall : paid' = [paid EXCEPT ![KeyOf(t)] = @ + lost]
      BY <1>7 DEF CreateFails
    <3>2. paid[KeyOf(t)] = 0 /\ KeyOf(t) \in WorkKeys
      BY <1>7, KeyOfType DEF CreateFails, Custody, Custody1, Owning, Bill, Busy
    <3>3. paid'[KeyOf(t)] <= LostPerCall
      BY <3>1, <3>2, BoundsAssumption
    <3> QED BY <1>7, <3>3 DEF CreateFails, RefuseWith, Refused, Refusals, KeyOf
  <2> QED BY <1>7, <2>1, LogFrame DEF CreateFails, RefuseWith
<1>8. CASE Activate(t)
  <2>1. PICK k \in WorkKeys : k = KeyOf(t)
    BY <1>8, KeyOfType DEF Activate, Busy
  <2>2. paid[k] \in 1 .. 1 + LostPerCall /\ sessions[k] \in Rows
    BY <1>8, <2>1 DEF Activate, Custody, Custody1, Owning, Bill
  <2>3. sessions'[k].tracked /\ paid'[k] = paid[k] /\ KeyOf(t)' = k
    BY <1>8, <2>1, <2>2 DEF Activate, ActivateRow, Rows, KeyOf
  <2>4. Settled(reply[t], KeyOf(t))'
    BY <1>8, <2>2, <2>3 DEF Activate, Settled, Truthful, Refusals
  <2> QED BY <1>8, <2>4, LogFrame DEF Activate
<1>9. CASE MarkFailed(t)
  <2>1. PICK k \in WorkKeys : k = KeyOf(t)
    BY <1>9, KeyOfType DEF MarkFailed, Busy
  <2>2. sessions[k] \in Rows /\ ~sessions[k].tracked
    BY <1>9, <2>1 DEF MarkFailed, Custody, Custody1, Owning
  <2>3. sessions'[k].status = "failed" /\ ~sessions'[k].tracked
    <3>1. sessions'[k] = WithStatus(sessions[k], "failed") /\ "failed" \in Statuses
      BY <1>9, <2>1, StatusNames DEF MarkFailed
    <3> QED BY <2>2, <3>1, Rewritten
  <2>4. /\ UNCHANGED <<paid, job, reply>> /\ Refused(t)
        /\ pc' = [pc EXCEPT ![t] = "respond"]
    BY <1>9 DEF MarkFailed, LogInv, AnswersOK
  <2>5. Unheld(k)'
    BY <1>9, <2>1, <2>4 DEF MarkFailed, Unheld, Custody, Exclusive, Owning, KeyOf
  <2>6. Truthful(reply[t], KeyOf(t))'
    BY <2>1, <2>3, <2>4 DEF Truthful, Refused, Refusals, KeyOf
  <2>7. Settled(reply[t], KeyOf(t))'
    BY <2>1, <2>4, <2>5, <2>6 DEF Settled, Unheld, KeyOf
  <2> QED BY <1>9, <2>7, LogFrame DEF MarkFailed
<1>10. CASE Guards(t) \/ MarkParent(t) \/ ListChildren(t) \/ CancelChild(t)
  BY <1>10, LogFrame
     DEF Guards, MarkParent, ListChildren, CancelChild, Cancelling, Settled, Truthful, Refusals
<1> QED
  BY <1>1, <1>2, <1>3, <1>4, <1>5, <1>6, <1>7, <1>8, <1>9, <1>10 DEF HandlerStep

LEMMA LogNext == IInv /\ LogInv /\ [Next]_vars => LogInv'
<1> SUFFICES ASSUME IInv, LogInv, [Next]_vars PROVE LogInv'
  OBVIOUS
<1> USE DEF IInv, TypeInv, TypeOK, Goto, Answer, Release, tables, threads, Threads
<1>1. ASSUME NEW w \in Workers, NEW d \in Deliveries, Receive(w, d) \/ Replay(w, d)
      PROVE  LogInv'
  BY <1>1, LogFrame DEF Receive, Replay, StartTask
<1>2. ASSUME NEW t \in Threads, HandlerStep(t)
      PROVE  LogInv'
  BY <1>2, LogHandler
<1>3. ASSUME NEW w \in Workers, WorkerResponds(w)
      PROVE  LogInv'
  BY <1>3, LogFrame DEF WorkerResponds, LogInv, AnswersOK, KeyOf
<1>4. CASE PollerResponds
  BY <1>4, LogFrame DEF PollerResponds, LogInv, AnswersOK, KeyOf
<1>5. CASE DrainStart \/ ListQueued \/ DispatchQueued \/ DrainDone
             \/ ListNonTerminal \/ TickDone
  BY <1>5, LogFrame
     DEF DrainStart, ListQueued, DispatchQueued, DrainDone, ListNonTerminal, TickDone
<1>6. ASSUME NEW k \in WorkKeys, SyncSession(k) \/ SyncFails(k)
      PROVE  LogInv'
  BY <1>6, LogFrame DEF SyncSession, SyncFails
<1>7. ASSUME NEW t \in Threads, HandlerRaises(t)
      PROVE  LogInv'
  BY <1>7, LogFrame DEF HandlerRaises, RetryCrashed, Settled, Truthful, Refusals
<1>8. ASSUME NEW w \in Workers, MarkProcessedRaises(w)
      PROVE  LogInv'
  BY <1>8, LogFrame DEF MarkProcessedRaises
<1>9. CASE TickRaises \/ Crash \/ NextDay
  BY <1>9, LogFrame DEF TickRaises, Crash, NextDay
<1>10. CASE UNCHANGED vars
  BY <1>10, LogFrame DEF vars
<1> QED
  BY <1>1, <1>2, <1>3, <1>4, <1>5, <1>6, <1>7, <1>8, <1>9, <1>10 DEF Next, PollerStep

\* webhook_events.handler_result never contradicts the sessions table, with
\* crashes, faults, replays and queue retries.
THEOREM LogIsTruthful == Spec => []ResultMatchesLedger
<1>1. Init => LogInv
  BY DEF Init, LogInv, ResultMatchesLedger, AnswersOK, Settled, Truthful, Refusals
<1>2. LogInv => ResultMatchesLedger
  BY DEF LogInv, Settled, ResultMatchesLedger
<1> QED BY <1>1, <1>2, LogNext, Inductive, PTL DEF Spec

-----------------------------------------------------------------------------
(***************************************************************************)
(* The caps.  A thread is "past" a check once it has seen room and has not *)
(* inserted its row.  Passing the check happens with fewer rows than the   *)
(* cap, so rows plus threads past it stay below cap + number of threads;   *)
(* inserting moves one unit from one count to the other.                   *)
(***************************************************************************)
LEMMA Monotone ==
    ASSUME NEW S, IsFiniteSet(S), NEW T \in SUBSET S
    PROVE  /\ Cardinality(T) \in Nat
           /\ Cardinality(S) \in Nat
           /\ Cardinality(T) <= Cardinality(S)
BY FS_Subset, FS_CardinalityType

\* Rows R and threads P past a check: what a step may do to the bound.
LEMMA BoundShrinks ==
    ASSUME NEW R, NEW P, NEW R1 \in SUBSET R, NEW P1 \in SUBSET P,
           IsFiniteSet(R), IsFiniteSet(P), NEW bound \in Int,
           Cardinality(R) + Cardinality(P) <= bound
    PROVE  Cardinality(R1) + Cardinality(P1) <= bound
<1>1. /\ Cardinality(R1) \in Nat /\ Cardinality(R) \in Nat
      /\ Cardinality(R1) <= Cardinality(R)
  BY Monotone
<1>2. /\ Cardinality(P1) \in Nat /\ Cardinality(P) \in Nat
      /\ Cardinality(P1) <= Cardinality(P)
  BY Monotone
<1> QED BY <1>1, <1>2

LEMMA BoundMoves ==
    ASSUME NEW R, NEW P, NEW k, NEW t \in P,
           IsFiniteSet(R), IsFiniteSet(P), NEW bound \in Int,
           Cardinality(R) + Cardinality(P) <= bound
    PROVE  Cardinality(R \cup {k}) + Cardinality(P \ {t}) <= bound
<1>1. /\ Cardinality(R) \in Nat /\ Cardinality(R \cup {k}) \in Nat
      /\ Cardinality(R \cup {k}) <= Cardinality(R) + 1
  <2>1. Cardinality(R) \in Nat
    BY FS_CardinalityType
  <2>2. CASE k \in R
    <3>1. Cardinality(R \cup {k}) = Cardinality(R)
      BY <2>2, FS_AddElement
    <3> QED BY <2>1, <3>1
  <2>3. CASE k \notin R
    <3>1. Cardinality(R \cup {k}) = Cardinality(R) + 1
      BY <2>3, FS_AddElement
    <3> QED BY <2>1, <3>1
  <2> QED BY <2>2, <2>3
<1>2. /\ Cardinality(P) \in Nat /\ Cardinality(P \ {t}) = Cardinality(P) - 1
  BY FS_RemoveElement, FS_CardinalityType
<1> QED BY <1>1, <1>2

LEMMA BoundEstablished ==
    ASSUME NEW R \in SUBSET WorkKeys, NEW P \in SUBSET Threads, NEW cap \in Nat,
           ~(Cardinality(R) >= cap)
    PROVE  Cardinality(R) + Cardinality(P) <= cap - 1 + Cardinality(Threads)
<1>1. Cardinality(R) \in Nat
  BY Finiteness, Monotone
<1>2. /\ Cardinality(P) \in Nat /\ Cardinality(Threads) \in Nat
      /\ Cardinality(P) <= Cardinality(Threads)
  BY Finiteness, Monotone
<1> QED BY <1>1, <1>2

IssuesToday == StartedToday \cap IssueKeys

LEMMA BoundTypes ==
    /\ ActiveKeys \in SUBSET WorkKeys /\ IsFiniteSet(ActiveKeys)
    /\ NeverEnded \in SUBSET ActiveKeys /\ IsFiniteSet(NeverEnded)
    /\ StartedToday \in SUBSET WorkKeys /\ IsFiniteSet(StartedToday)
    /\ IssuesToday \in SUBSET StartedToday /\ IsFiniteSet(IssuesToday)
    /\ PastConcurrencyCheck \in SUBSET Threads /\ IsFiniteSet(PastConcurrencyCheck)
    /\ PastDailyCheck \in SUBSET Threads /\ IsFiniteSet(PastDailyCheck)
    /\ MAX_CONCURRENT_SESSIONS - 1 + Cardinality(Threads) \in Int
    /\ MAX_SESSIONS_PER_DAY - 1 + Cardinality(Threads) \in Int
<1>1. Cardinality(Threads) \in Nat
  BY Finiteness, FS_CardinalityType
<1>2. /\ ActiveKeys \in SUBSET WorkKeys /\ StartedToday \in SUBSET WorkKeys
      /\ NeverEnded \in SUBSET ActiveKeys /\ IssuesToday \in SUBSET StartedToday
      /\ PastConcurrencyCheck \in SUBSET Threads /\ PastDailyCheck \in SUBSET Threads
  BY DEF ActiveKeys, StartedToday, NeverEnded, IssuesToday, PastConcurrencyCheck,
         PastDailyCheck
<1>3. IsFiniteSet(ActiveKeys) /\ IsFiniteSet(StartedToday)
  BY <1>2, Finiteness, FS_Subset
<1> QED BY <1>1, <1>2, <1>3, Finiteness, FS_Subset, CapsAssumption

\* The row goes into the counts in which its thread was.
LEMMA OvershootReserve ==
    ASSUME IInv, NEW t \in Threads, Reserve(t)
    PROVE  /\ ActiveOvershootBounded => ActiveOvershootBounded'
           /\ DailyOvershootBounded => DailyOvershootBounded'
<1> DEFINE k == KeyOf(t)
<1> USE DEF IInv, TypeInv, TypeOK
<1>1. k \in WorkKeys /\ job[t] \in Deliveries
  BY KeyOfType DEF Reserve, Busy
<1>2. /\ t \in PastConcurrencyCheck
      /\ PastConcurrencyCheck' = PastConcurrencyCheck \ {t}
      /\ PastDailyCheck' = PastDailyCheck \ {t}
  BY DEF Reserve, Answer, Goto, PastConcurrencyCheck, PastDailyCheck
<1>3. /\ \A j \in WorkKeys : j # k => sessions'[j] = sessions[j]
      /\ today' = today
  BY <1>1 DEF Reserve
<1>4. NeverEnded' \in SUBSET (NeverEnded \cup {k})
  BY <1>3 DEF NeverEnded, ActiveKeys
<1>5. IsFiniteSet(NeverEnded \cup {k}) /\ IsFiniteSet(IssuesToday \cup {k})
      /\ IsFiniteSet(PastConcurrencyCheck \ {t}) /\ IsFiniteSet(PastDailyCheck \ {t})
  BY BoundTypes, FS_AddElement, FS_RemoveElement
<1>6. ASSUME ActiveOvershootBounded
      PROVE  ActiveOvershootBounded'
  <2>1. Cardinality(NeverEnded \cup {k}) + Cardinality(PastConcurrencyCheck \ {t})
            <= MAX_CONCURRENT_SESSIONS - 1 + Cardinality(Threads)
    BY <1>2, <1>6, BoundTypes, BoundMoves DEF ActiveOvershootBounded
  <2>2. Cardinality(NeverEnded') + Cardinality(PastConcurrencyCheck \ {t})
            <= MAX_CONCURRENT_SESSIONS - 1 + Cardinality(Threads)
    BY <2>1, <1>4, <1>5, BoundTypes, BoundShrinks
  <2> QED BY <2>2, <1>2 DEF ActiveOvershootBounded
<1>7. ASSUME DailyOvershootBounded
      PROVE  DailyOvershootBounded'
  <2>1. Cardinality(IssuesToday) + Cardinality(PastDailyCheck)
            <= MAX_SESSIONS_PER_DAY - 1 + Cardinality(Threads)
    BY <1>7 DEF DailyOvershootBounded, IssuesToday
  <2>2. CASE IsFix(job[t])
    <3>1. k \notin IssueKeys
      BY <1>1, <2>2, KeysApart DEF KeyOf
    <3>2. IssuesToday' \in SUBSET IssuesToday
      BY <1>3, <3>1 DEF IssuesToday, StartedToday
    <3>3. PastDailyCheck' \in SUBSET PastDailyCheck
      BY <1>2
    <3>4. Cardinality(IssuesToday') + Cardinality(PastDailyCheck')
              <= MAX_SESSIONS_PER_DAY - 1 + Cardinality(Threads)
      BY <2>1, <3>2, <3>3, BoundTypes, BoundShrinks
    <3> QED BY <3>4 DEF DailyOvershootBounded, IssuesToday
  <2>3. CASE ~IsFix(job[t])
    <3>1. t \in PastDailyCheck
      BY <2>3 DEF Reserve, PastDailyCheck
    <3>2. Cardinality(IssuesToday \cup {k}) + Cardinality(PastDailyCheck \ {t})
              <= MAX_SESSIONS_PER_DAY - 1 + Cardinality(Threads)
      BY <2>1, <3>1, BoundTypes, BoundMoves
    <3>3. IssuesToday' \in SUBSET (IssuesToday \cup {k})
      BY <1>3 DEF IssuesToday, StartedToday
    <3>4. Cardinality(IssuesToday') + Cardinality(PastDailyCheck \ {t})
              <= MAX_SESSIONS_PER_DAY - 1 + Cardinality(Threads)
      BY <3>2, <3>3, <1>5, BoundTypes, BoundShrinks
    <3> QED BY <3>4, <1>2 DEF DailyOvershootBounded, IssuesToday
  <2> QED BY <2>2, <2>3
<1> QED BY <1>6, <1>7

\* Steps that bring no row and no thread into the counts.
LEMMA OvershootShrinks ==
    /\ /\ NeverEnded' \subseteq NeverEnded
       /\ PastConcurrencyCheck' \subseteq PastConcurrencyCheck
       /\ ActiveOvershootBounded
       => ActiveOvershootBounded'
    /\ /\ IssuesToday' \subseteq IssuesToday
       /\ PastDailyCheck' \subseteq PastDailyCheck
       /\ DailyOvershootBounded
       => DailyOvershootBounded'
<1>1. ASSUME NeverEnded' \subseteq NeverEnded, ActiveOvershootBounded,
             PastConcurrencyCheck' \subseteq PastConcurrencyCheck
      PROVE  ActiveOvershootBounded'
  BY <1>1, BoundTypes, BoundShrinks DEF ActiveOvershootBounded
<1>2. ASSUME IssuesToday' \subseteq IssuesToday, DailyOvershootBounded,
             PastDailyCheck' \subseteq PastDailyCheck
      PROVE  DailyOvershootBounded'
  <2>1. Cardinality(IssuesToday) + Cardinality(PastDailyCheck)
            <= MAX_SESSIONS_PER_DAY - 1 + Cardinality(Threads)
    BY <1>2 DEF DailyOvershootBounded, IssuesToday
  <2>2. Cardinality(IssuesToday') + Cardinality(PastDailyCheck')
            <= MAX_SESSIONS_PER_DAY - 1 + Cardinality(Threads)
    BY <1>2, <2>1, BoundTypes, BoundShrinks
  <2> QED BY <2>2 DEF DailyOvershootBounded, IssuesToday
<1> QED BY <1>1, <1>2

Overshoot == ActiveOvershootBounded /\ DailyOvershootBounded

\* Whatever is written over a row that is there already, it was in the counts if
\* it is now: an end is never forgotten and the day never changes.
LEMMA OvershootFrame ==
    ASSUME IInv, Overshoot, [Next]_vars, UNCHANGED today,
           ~ \E t \in Threads : Reserve(t),
           \A t \in Threads : pc'[t] \in {"count_today", "reserve"} =>
               pc'[t] = pc[t] /\ job'[t] = job[t]
    PROVE  Overshoot'
<1>1. ASSUME NEW k \in WorkKeys, sessions'[k].status # "none"
      PROVE  sessions[k].status # "none"
  BY <1>1, RowSteps DEF RowStep
<1>2. NeverEnded' \subseteq NeverEnded
  <2> SUFFICES ASSUME NEW k \in NeverEnded' PROVE k \in NeverEnded
    OBVIOUS
  <2>1. /\ k \in WorkKeys /\ sessions'[k].status \in ACTIVE_STATUSES
        /\ ~sessions'[k].ended
    BY DEF NeverEnded, ActiveKeys
  <2>2. sessions'[k].status # "none"
    BY <2>1, StatusNames
  <2>3. sessions[k].status # "none" /\ ~sessions[k].ended
    BY <1>1, <2>1, <2>2, RowsKeep
  <2>4. sessions[k].status \in Statuses \ TERMINAL_STATUSES
    BY <2>1, <2>3 DEF IInv, TypeInv, TypeOK, Rows, Custody, RowOK
  <2> QED BY <2>1, <2>3, <2>4 DEF NeverEnded, ActiveKeys, Statuses
<1>3. IssuesToday' \subseteq IssuesToday
  BY <1>1, RowsKeep DEF IssuesToday, StartedToday
<1>4. /\ PastConcurrencyCheck' \subseteq PastConcurrencyCheck
      /\ PastDailyCheck' \subseteq PastDailyCheck
  BY DEF PastConcurrencyCheck, PastDailyCheck
<1> QED BY <1>2, <1>3, <1>4, OvershootShrinks DEF Overshoot

LEMMA OvershootCounts ==
    ASSUME IInv, Overshoot, NEW t \in Threads, CountActive(t) \/ CountToday(t)
    PROVE  Overshoot'
<1> USE DEF IInv, TypeInv, TypeOK, Answer, Goto, tables
<1>1. NeverEnded' = NeverEnded /\ IssuesToday' = IssuesToday
  BY DEF CountActive, CountToday, NeverEnded, ActiveKeys, IssuesToday, StartedToday
<1>2. PastConcurrencyCheck' \in SUBSET Threads /\ PastDailyCheck' \in SUBSET Threads
  BY DEF PastConcurrencyCheck, PastDailyCheck
<1>3. ActiveOvershootBounded'
  <2>1. CASE CountActive(t) /\ ~AtConcurrencyCap
    <3>1. /\ ~(Cardinality(ActiveKeys) >= MAX_CONCURRENT_SESSIONS)
          /\ MAX_CONCURRENT_SESSIONS \in Nat
      BY <2>1, CapsAssumption DEF AtConcurrencyCap, count_active
    <3>2. /\ Cardinality(NeverEnded) <= Cardinality(ActiveKeys)
          /\ Cardinality(NeverEnded) \in Nat /\ Cardinality(ActiveKeys) \in Nat
      BY BoundTypes, Monotone
    <3>3. ~(Cardinality(NeverEnded) >= MAX_CONCURRENT_SESSIONS)
      BY <3>1, <3>2
    <3>4. NeverEnded \in SUBSET WorkKeys
      BY BoundTypes
    <3>5. Cardinality(NeverEnded) + Cardinality(PastConcurrencyCheck')
              <= MAX_CONCURRENT_SESSIONS - 1 + Cardinality(Threads)
      BY <3>1, <3>3, <3>4, <1>2, BoundEstablished
    <3> QED BY <3>5, <1>1 DEF ActiveOvershootBounded
  <2>2. CASE (CountActive(t) /\ AtConcurrencyCap) \/ CountToday(t)
    <3>1. PastConcurrencyCheck' \subseteq PastConcurrencyCheck
      BY <2>2 DEF CountActive, CountToday, PastConcurrencyCheck
    <3> QED BY <3>1, <1>1, OvershootShrinks DEF Overshoot
  <2> QED BY <2>1, <2>2
<1>4. DailyOvershootBounded'
  <2>1. CASE CountToday(t) /\ ~AtDailyCap
    <3>1. /\ ~(Cardinality(StartedToday) >= MAX_SESSIONS_PER_DAY)
          /\ MAX_SESSIONS_PER_DAY \in Nat
      BY <2>1, CapsAssumption DEF AtDailyCap, count_started_today
    <3>2. /\ Cardinality(IssuesToday) <= Cardinality(StartedToday)
          /\ Cardinality(IssuesToday) \in Nat /\ Cardinality(StartedToday) \in Nat
      BY BoundTypes, Monotone
    <3>3. ~(Cardinality(IssuesToday) >= MAX_SESSIONS_PER_DAY)
      BY <3>1, <3>2
    <3>4. IssuesToday \in SUBSET WorkKeys
      BY BoundTypes
    <3>5. Cardinality(IssuesToday) + Cardinality(PastDailyCheck')
              <= MAX_SESSIONS_PER_DAY - 1 + Cardinality(Threads)
      BY <3>1, <3>3, <3>4, <1>2, BoundEstablished
    <3> QED BY <3>5, <1>1 DEF DailyOvershootBounded, IssuesToday
  <2>2. CASE (CountToday(t) /\ AtDailyCap) \/ CountActive(t)
    <3>1. PastDailyCheck' \subseteq PastDailyCheck
      BY <2>2 DEF CountActive, CountToday, PastDailyCheck
    <3> QED BY <3>1, <1>1, OvershootShrinks DEF Overshoot
  <2> QED BY <2>1, <2>2
<1> QED BY <1>3, <1>4 DEF Overshoot

\* No row is dated in the future, so midnight empties the daily count.
NoFutureRows == \A k \in WorkKeys : sessions[k].day <= today

LEMMA DayPasses ==
    ASSUME [Next]_vars
    PROVE  UNCHANGED today \/ NextDay
BY DEF Next, Receive, Replay, HandlerStep, Dispatch, CountActive, CountToday, Reserve,
       Parse, CreateSucceeds, CreateFails, Activate, MarkFailed, Guards, MarkParent,
       ListChildren, CancelChild, WorkerResponds, PollerStep, PollerResponds, DrainStart,
       ListQueued, DispatchQueued, DrainDone, ListNonTerminal, TickDone, SyncSession,
       SyncFails, HandlerRaises, MarkProcessedRaises, TickRaises, Crash, vars

LEMMA NoFutureRowsNext == IInv /\ NoFutureRows /\ [Next]_vars => NoFutureRows'
<1> SUFFICES ASSUME IInv, NoFutureRows, [Next]_vars, NEW k \in WorkKeys
             PROVE  sessions'[k].day <= today'
  BY DEF NoFutureRows
<1>1. /\ sessions[k].day \in Nat /\ sessions[k].day <= today /\ today \in Nat
  BY DEF NoFutureRows, IInv, TypeInv, TypeOK, Rows
<1>2. today' \in Nat /\ today <= today'
  BY <1>1, DayPasses DEF NextDay
<1>3. sessions'[k].day \in {sessions[k].day, today}
  <2>1. CASE sessions[k].status # "none"
    BY <2>1, RowsKeep
  <2>2. CASE sessions[k].status = "none"
    <3>1. sessions'[k] = sessions[k] \/ \E t \in Threads : sessions'[k] = ReservedRow(t)
      BY <2>2, RowSteps DEF RowStep
    <3>2. \A t \in Threads : ReservedRow(t).day = today
      BY DEF ReservedRow, NoRow
    <3> QED BY <3>1, <3>2
  <2> QED BY <2>1, <2>2
<1> QED BY <1>1, <1>2, <1>3

LEMMA OvershootMidnight ==
    ASSUME IInv, NoFutureRows, Overshoot, NextDay
    PROVE  Overshoot'
<1> USE DEF IInv, TypeInv, TypeOK, NextDay, tables, threads
<1>1. ActiveOvershootBounded'
  <2>1. NeverEnded' = NeverEnded /\ PastConcurrencyCheck' = PastConcurrencyCheck
    BY DEF NeverEnded, ActiveKeys, PastConcurrencyCheck
  <2> QED BY <2>1 DEF Overshoot, ActiveOvershootBounded
<1>2. DailyOvershootBounded'
  <2>1. IssuesToday' = {}
    BY DEF IssuesToday, StartedToday, NoFutureRows, Rows
  <2>2. PastDailyCheck \in SUBSET Threads /\ PastDailyCheck' = PastDailyCheck
    BY DEF PastDailyCheck
  <2>3. ~(Cardinality({}) >= MAX_SESSIONS_PER_DAY) /\ MAX_SESSIONS_PER_DAY \in Nat
    BY CapsAssumption, FS_EmptySet
  <2>4. Cardinality({}) + Cardinality(PastDailyCheck)
            <= MAX_SESSIONS_PER_DAY - 1 + Cardinality(Threads)
    BY <2>2, <2>3, BoundEstablished
  <2> QED BY <2>1, <2>2, <2>4 DEF DailyOvershootBounded, IssuesToday
<1> QED BY <1>1, <1>2 DEF Overshoot

LEMMA OvershootHandler ==
    ASSUME IInv, Overshoot, [Next]_vars, UNCHANGED today,
           NEW t \in Threads, HandlerStep(t), ~ \E u \in Threads : Reserve(u)
    PROVE  Overshoot'
<1> USE DEF IInv, TypeInv, TypeOK, Answer, Goto
<1>1. CASE CountActive(t) \/ CountToday(t)
  BY <1>1, OvershootCounts
<1>2. CASE ~CountActive(t) /\ ~CountToday(t)
  <2>1. job' = job /\ \A u \in Threads : u # t => pc'[u] = pc[u]
    BY <1>2 DEF HandlerStep, Dispatch, Parse, CreateSucceeds, CreateFails, RefuseWith,
                Activate, MarkFailed, Guards, MarkParent, ListChildren, CancelChild,
                Cancelling
  <2>2. pc'[t] \notin {"count_today", "reserve"}
    BY <1>2 DEF HandlerStep, Dispatch, Parse, CreateSucceeds, CreateFails, RefuseWith,
                Activate, MarkFailed, Guards, MarkParent, ListChildren, CancelChild,
                Cancelling
  <2> QED BY <2>1, <2>2, OvershootFrame
<1> QED BY <1>1, <1>2

LEMMA OvershootNext == IInv /\ NoFutureRows /\ Overshoot /\ [Next]_vars => Overshoot'
<1> SUFFICES ASSUME IInv, NoFutureRows, Overshoot, [Next]_vars PROVE Overshoot'
  OBVIOUS
<1>1. CASE NextDay
  BY <1>1, OvershootMidnight
<1>2. ASSUME NEW t \in Threads, Reserve(t)
      PROVE  Overshoot'
  BY <1>2, OvershootReserve DEF Overshoot
<1>3. ASSUME UNCHANGED today, ~ \E u \in Threads : Reserve(u),
             NEW t \in Threads, HandlerStep(t)
      PROVE  Overshoot'
  BY <1>3, OvershootHandler
<1>4. CASE UNCHANGED today /\ (~ \E u \in Threads : Reserve(u))
               /\ ~ \E t \in Threads : HandlerStep(t)
  <2>1. \A t \in Threads : pc'[t] \in {"count_today", "reserve"} =>
            pc'[t] = pc[t] /\ job'[t] = job[t]
    BY <1>4, ThreadsAssumption
       DEF Next, Receive, Replay, StartTask, WorkerResponds, PollerStep, PollerResponds,
           DrainStart, ListQueued, DispatchQueued, DrainDone, ListNonTerminal, TickDone,
           SyncSession, SyncFails, HandlerRaises, RetryCrashed, MarkProcessedRaises,
           TickRaises, Crash, NextDay, vars, threads, Goto, Answer, Release, Threads,
           IInv, TypeInv, TypeOK
  <2> QED BY <1>4, <2>1, OvershootFrame
<1> QED BY <1>1, <1>2, <1>3, <1>4, DayPasses

LEMMA OvershootInit == Init => Overshoot /\ NoFutureRows
<1> SUFFICES ASSUME Init PROVE Overshoot /\ NoFutureRows
  OBVIOUS
<1>1. /\ NeverEnded = {} /\ IssuesToday = {}
      /\ PastConcurrencyCheck = {} /\ PastDailyCheck = {}
  BY IssueKeysType
     DEF Init, NoRow, NeverEnded, ActiveKeys, ACTIVE_STATUSES, IssuesToday, StartedToday,
         PastConcurrencyCheck, PastDailyCheck
<1>2. /\ MAX_CONCURRENT_SESSIONS \in Nat /\ MAX_SESSIONS_PER_DAY \in Nat
      /\ ~(Cardinality({}) >= MAX_CONCURRENT_SESSIONS)
      /\ ~(Cardinality({}) >= MAX_SESSIONS_PER_DAY)
  BY CapsAssumption, FS_EmptySet
<1>3. /\ Cardinality({}) + Cardinality({})
            <= MAX_CONCURRENT_SESSIONS - 1 + Cardinality(Threads)
      /\ Cardinality({}) + Cardinality({})
            <= MAX_SESSIONS_PER_DAY - 1 + Cardinality(Threads)
  BY <1>2, BoundEstablished
<1>4. NoFutureRows
  BY DEF Init, NoRow, NoFutureRows
<1> QED
  BY <1>1, <1>3, <1>4 DEF Overshoot, ActiveOvershootBounded, DailyOvershootBounded, IssuesToday

\* Both rails overshoot by at most one row for each thread but one.
LEMMA OvershootBounded == Spec => []Overshoot
BY OvershootInit, OvershootNext, NoFutureRowsNext, Inductive, PTL DEF Spec

\* What handlers reserve, for issues and for failed runs alike, exceeds the
\* concurrency cap by at most the number of other threads, for every workload
\* and whatever crashes, faults, replays and escalations happen.  Rows that
\* come back to life after an end are the ones left out.
THEOREM ActiveCapHolds == Spec => []ActiveOvershootBounded
<1>1. Overshoot => ActiveOvershootBounded
  BY DEF Overshoot
<1> QED BY <1>1, OvershootBounded, PTL

\* The sessions that issues start in a day exceed the daily cap by no more,
\* across midnight too; CI fixes come on top of it, in any number.
THEOREM DailyCapHolds == Spec => []DailyOvershootBounded
<1>1. Overshoot => DailyOvershootBounded
  BY DEF Overshoot
<1> QED BY <1>1, OvershootBounded, PTL
=============================================================================
