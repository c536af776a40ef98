--------------------------- MODULE FixLoopProofs ---------------------------
(***************************************************************************)
(* Theorems about FixLoop, for any runs, threads, caps and bounds.         *)
(***************************************************************************)
EXTENDS FixLoop, FiniteSetTheorems, WellFoundedInduction, TLAPS

(***************************************************************************)
(* The highest of finitely many numbers.                                   *)
(***************************************************************************)
LEMMA LeastExists ==
    ASSUME NEW S \in SUBSET Nat, S # {}
    PROVE  \E m \in S : \A k \in S : m <= k
<1> DEFINE Less == OpToRel(<, Nat)
<1>1. IsWellFoundedOn(Less, Nat)
  BY NatLessThanWellFounded
<1>2. \A k, m \in Nat : k < m => <<k, m>> \in Less
  BY DEF Less, OpToRel
<1> HIDE DEF Less
<1>3. S \subseteq Nat /\ \E k : k \in S
  OBVIOUS
<1>4. PICK m \in S : \A k \in S : <<k, m>> \notin Less
  BY <1>1, <1>3, WFMin
<1>5. \A k \in S : ~(k < m) /\ k \in Nat /\ m \in Nat
  BY <1>2, <1>3, <1>4
<1>6. \A k \in S : m <= k
  BY <1>5
<1> QED BY <1>6

LEMMA MaxOfBounded ==
    ASSUME NEW S \in SUBSET Nat, S # {}, NEW b \in Nat, \A k \in S : k <= b
    PROVE  Max(S) \in S /\ \A k \in S : k <= Max(S)
<1> DEFINE Bounds == {c \in Nat : \A k \in S : k <= c}
<1>1. PICK m \in Bounds : \A c \in Bounds : m <= c
  BY LeastExists
<1>2. m \in S
  <2> SUFFICES ASSUME m \notin S PROVE FALSE
    OBVIOUS
  <2>1. PICK k \in S : TRUE
    OBVIOUS
  <2>2. m - 1 \in Nat /\ m - 1 < m
    BY <2>1
  <2>3. m - 1 \in Bounds
    BY <2>2
  <2> QED BY <1>1, <2>2, <2>3
<1> QED BY <1>2 DEF Max

\* A column of finitely many rows has a bound.
LEMMA ColumnBounded ==
    ASSUME NEW S, IsFiniteSet(S), NEW f \in [S -> Nat]
    PROVE  \E b \in Nat : \A x \in S : f[x] <= b
<1> DEFINE n == Cardinality(S)
<1>1. n \in Nat /\ ExistsBijection(1 .. n, S)
  BY FS_CardinalityType
<1> HIDE DEF n
<1>2. PICK g \in [1 .. n -> S] : \A x \in S : \E i \in 1 .. n : g[i] = x
  BY <1>1 DEF ExistsBijection, Bijection, Surjection
<1> DEFINE Bounded(k) == \E b \in Nat : \A i \in 1 .. n : i <= k => f[g[i]] <= b
           Free == {k \in Nat : ~Bounded(k)}
<1>3. ASSUME Free # {} PROVE FALSE
  <2>1. PICK m \in Free : \A k \in Free : m <= k
    BY <1>3, LeastExists
  <2>2. m # 0
    BY <2>1
  <2>3. m - 1 \in Nat /\ m - 1 < m
    BY <2>2
  <2>4. m - 1 \notin Free
    <3>1. m \in Nat
      BY <2>1
    <3> HIDE DEF Free
    <3>2. ~(m <= m - 1)
      BY <3>1
    <3> QED BY <2>1, <3>2
  <2>5. PICK b \in Nat : \A i \in 1 .. n : i <= m - 1 => f[g[i]] <= b
    BY <2>3, <2>4
  <2>6. \A i \in 1 .. n : f[g[i]] \in Nat
    BY <1>2
  <2>7. ASSUME NEW c \in Nat, \A i \in 1 .. n : i <= m => f[g[i]] <= c PROVE FALSE
    BY <2>1, <2>7
  <2> HIDE DEF Free
  <2>8. CASE m \in 1 .. n
    <3>1. PICK v \in Nat : v = f[g[m]]
      BY <2>6, <2>8
    <3>2. PICK c \in Nat : b <= c /\ v <= c
      OBVIOUS
    <3>3. ASSUME NEW i \in 1 .. n, i <= m PROVE f[g[i]] <= c
      <4>1. PICK u \in Nat : u = f[g[i]]
        BY <2>6
      <4>2. CASE i = m
        BY <3>1, <3>2, <4>2
      <4>3. CASE i # m
        <5>1. i <= m - 1
          BY <1>1, <2>8, <3>3, <4>3
        <5>2. u <= b
          BY <2>5, <4>1, <5>1
        <5> QED BY <3>2, <4>1, <5>2
      <4> QED BY <4>2, <4>3
    <3> QED BY <2>7, <3>3
  <2>9. CASE m \notin 1 .. n
    <3>1. \A i \in 1 .. n : i <= m => i <= m - 1
      BY <1>1, <2>1, <2>2, <2>9 DEF Free
    <3> QED BY <2>5, <2>7, <3>1
  <2> QED BY <2>8, <2>9
<1>4. Bounded(n)
  BY <1>1, <1>3
<1> HIDE DEF Free
<1>5. PICK b \in Nat : \A i \in 1 .. n : f[g[i]] <= b
  BY <1>1, <1>4
<1> QED BY <1>2, <1>5

(***************************************************************************)
(* Type correctness, part by part.                                         *)
(***************************************************************************)
TableOK == rows \in [RowIds -> RowType]

OutsideOK ==
    /\ devin \in [RowIds -> {"none", "running", "exit", "error"} \cup RawStatuses]
    /\ lists \in [RowIds -> BOOLEAN]
    /\ prState \in {"none", "open", "merged", "closed"}
    /\ comments \in Nat
    /\ human \in {<<>>} \cup (BOOLEAN \X SUBSET Runs)

\* The steps of a handler that knows the parent.
Informed == Labels \ {"idle", "fetch_pr", "find_parent"}

HandlerOK ==
    /\ pc \in [Workers -> Labels]
    /\ run \in [Workers -> Runs \cup {None}]
    /\ parent \in [Workers -> RowIds \cup {None}]
    /\ attempt \in [Workers -> Nat]
    /\ todo \in [Workers -> SUBSET [row : RowIds, tracked : BOOLEAN]]
    /\ child \in [Workers -> RowIds \cup {None}]
    /\ \A w \in Workers : pc[w] \in Informed => parent[w] # None

PollerOK ==
    /\ ppc \in {"idle", "poll", "terminate", "write"}
    /\ snapshot \subseteq SnapshotType
    /\ seen \in Conclusions \cup {None}
    /\ ppc \in {"terminate", "write"} => seen \in Conclusions

HistoryOK == deliveries \in Nat /\ faults \in Nat /\ loose \subseteq RowIds

TypeInv == TableOK /\ OutsideOK /\ HandlerOK /\ PollerOK /\ HistoryOK

LEMMA Frames ==
    /\ UNCHANGED table /\ TableOK => TableOK'
    /\ UNCHANGED outside /\ OutsideOK => OutsideOK'
    /\ UNCHANGED handler /\ HandlerOK => HandlerOK'
    /\ UNCHANGED poller /\ PollerOK => PollerOK'
    /\ UNCHANGED history /\ HistoryOK => HistoryOK'
BY DEF table, outside, handler, poller, history, TableOK, OutsideOK, HandlerOK, PollerOK, HistoryOK

LEMMA RowIdsFinite ==
    /\ IsFiniteSet(RowIds) /\ Parent \in RowIds /\ Runs \subseteq RowIds /\ None \notin RowIds
    /\ Parent \notin Runs /\ IsFiniteSet(Workers)
BY FixLoopAssumption, FS_AddElement DEF RowIds

LEMMA SecondsAreNat == TableOK => Seconds \subseteq Nat
<1> SUFFICES ASSUME TableOK PROVE Seconds \subseteq Nat
  OBVIOUS
<1> DEFINE f == [x \in RowIds |-> rows[x].started]
           S == {rows[x].started : x \in RowIds} \cup {2}
<1>1. f \in [RowIds -> Nat]
  BY DEF TableOK, RowType
<1>2. PICK b \in Nat : \A x \in RowIds : f[x] <= b
  BY <1>1, RowIdsFinite, ColumnBounded
<1>3. S \in SUBSET Nat /\ S # {}
  BY DEF TableOK, RowType
<1>4. PICK c \in Nat : b <= c /\ 2 <= c
  OBVIOUS
<1>5. \A k \in S : k <= c
  <2>1. \A x \in RowIds : rows[x].started \in Nat /\ rows[x].started <= b
    BY <1>2 DEF TableOK, RowType
  <2> QED BY <1>4, <2>1
<1> HIDE DEF S
<1>6. Max(S) \in Nat
  BY <1>3, <1>4, <1>5, MaxOfBounded
<1> QED BY <1>6 DEF Seconds, S

\* The highest attempt of a chain is one of its attempts.
LEMMA MaxAttempt ==
    ASSUME TableOK, NEW p \in RowIds
    PROVE  /\ max_fix_attempt_for_parent(p) \in Nat
           /\ \E x \in Chain(p) : rows[x].attempt = max_fix_attempt_for_parent(p)
           /\ \A x \in Chain(p) : rows[x].attempt <= max_fix_attempt_for_parent(p)
<1> DEFINE f == [x \in RowIds |-> rows[x].attempt]
           S == {rows[x].attempt : x \in Chain(p)}
<1>1. f \in [RowIds -> Nat]
  BY DEF TableOK, RowType
<1>2. PICK b \in Nat : \A x \in RowIds : f[x] <= b
  BY <1>1, RowIdsFinite, ColumnBounded
<1>3. p \in Chain(p) /\ Chain(p) \subseteq RowIds
  BY DEF Chain
<1>4. \A x \in Chain(p) : rows[x].attempt \in Nat /\ rows[x].attempt <= b
  BY <1>2, <1>3 DEF TableOK, RowType
<1>5. S \in SUBSET Nat /\ S # {} /\ \A k \in S : k <= b
  BY <1>3, <1>4
<1> HIDE DEF S
<1>6. Max(S) \in S /\ Max(S) \in Nat /\ \A k \in S : k <= Max(S)
  BY <1>5, MaxOfBounded
<1>7. max_fix_attempt_for_parent(p) = Max(S)
  BY DEF max_fix_attempt_for_parent, S
<1> QED BY <1>6, <1>7 DEF S

LEMMA MapsToStatus == \A raw : map_status(raw) \in Statuses
BY DEF map_status, STATUS_MAP, UNKNOWN_STATUS, Statuses, ACTIVE_STATUSES, TERMINAL_STATUSES

LEMMA StatusNames ==
    /\ {"reserving", "pending", "needs_attention", "cancelled", "failed", "timeout",
        "completed"} \subseteq Statuses
    /\ "none" \notin Statuses /\ ACTIVE_STATUSES \subseteq Statuses
    /\ TERMINAL_STATUSES \subseteq Statuses
BY DEF Statuses, ACTIVE_STATUSES, TERMINAL_STATUSES

LEMMA TypeInit == Init => TypeInv
<1> SUFFICES ASSUME Init PROVE TypeInv
  OBVIOUS
<1> USE DEF Init
<1>1. TableOK
  BY StatusNames DEF TableOK, RowType, NoRow
<1>2. OutsideOK /\ HandlerOK /\ PollerOK /\ HistoryOK
  BY DEF OutsideOK, HandlerOK, PollerOK, HistoryOK, Labels, Informed
<1> QED BY <1>1, <1>2 DEF TypeInv

\* The ways handlers move.
LEMMA HandlersMove ==
    ASSUME HandlerOK, NEW w \in Workers
    PROVE  /\ Return(w) => HandlerOK'
           /\ \A label \in Labels : Proceed(w, label) /\ (label \in Informed => parent[w] # None) => HandlerOK'
BY DEF HandlerOK, Return, Proceed, Goto, Labels, Informed

LEMMA TerminateTyped ==
    ASSUME OutsideOK, HistoryOK, NEW x \in RowIds, Terminate(x),
           UNCHANGED <<lists, prState, comments, human, deliveries>>
    PROVE  OutsideOK' /\ HistoryOK'
BY DEF OutsideOK, HistoryOK, Terminate, Fault, LetGo

\* Devin, GitHub and humans move.
OutsideStep ==
    \/ \E x \in RowIds : DevinMoves(x) \/ DevinListsPR(x)
    \/ \E end \in PrEnds : PrEndsAs(end)
    \/ HumanCommits

LEMMA OutsideTyped == TypeInv /\ OutsideStep => TypeInv'
<1> SUFFICES ASSUME TypeInv, OutsideStep PROVE TypeInv'
  OBVIOUS
<1>1. OutsideOK'
  <2>1. CASE HumanCommits
    <3> DEFINE taken == {r \in Runs : devin[r] # "none" \/ \E w \in Workers : run[w] = r}
    <3>1. taken \in SUBSET Runs
      OBVIOUS
    <3>2. human' = <<TRUE, taken>> \/ human' = <<FALSE, {}>>
      BY <2>1 DEF HumanCommits
    <3> HIDE DEF taken
    <3>3. ASSUME NEW S \in SUBSET Runs, NEW b \in BOOLEAN PROVE <<b, S>> \in BOOLEAN \X SUBSET Runs
      OBVIOUS
    <3>4. human' \in BOOLEAN \X SUBSET Runs
      BY <3>1, <3>2, <3>3
    <3> QED BY <2>1, <3>4 DEF TypeInv, OutsideOK, HumanCommits
  <2>2. CASE ~HumanCommits
    <3> DEFINE Pushes == {<<>>} \cup (BOOLEAN \X SUBSET Runs)
    <3>1. UNCHANGED <<human, comments>>
      BY <2>2 DEF OutsideStep, DevinMoves, DevinListsPR, PrEndsAs
    <3>2. human \in Pushes /\ comments \in Nat
      BY DEF TypeInv, OutsideOK
    <3> HIDE DEF Pushes
    <3>3. human' \in Pushes /\ comments' \in Nat
      BY <3>1, <3>2
    <3>4. devin \in [RowIds -> {"none", "running", "exit", "error"} \cup RawStatuses]
          /\ lists \in [RowIds -> BOOLEAN] /\ prState \in {"none", "open", "merged", "closed"}
      BY DEF TypeInv, OutsideOK
    <3>5. devin' \in [RowIds -> {"none", "running", "exit", "error"} \cup RawStatuses]
          /\ lists' \in [RowIds -> BOOLEAN] /\ prState' \in {"none", "open", "merged", "closed"}
      BY <2>2, <3>4, FixLoopAssumption DEF OutsideStep, DevinMoves, DevinListsPR, PrEndsAs
    <3> QED BY <3>3, <3>5 DEF OutsideOK, Pushes
  <2> QED BY <2>1, <2>2
<1>2. UNCHANGED <<table, handler, poller, history>>
  BY DEF OutsideStep, DevinMoves, DevinListsPR, PrEndsAs, HumanCommits
<1> QED BY <1>1, <1>2, Frames DEF TypeInv

LEMMA HandlerTyped ==
    ASSUME TypeInv, NEW w \in Workers, (\E r \in Runs : Deliver(w, r)) \/ HandlerStep(w)
    PROVE  TypeInv'
<1> USE Frames DEF TypeInv
<1>1. ASSUME NEW r \in Runs, Deliver(w, r) PROVE TypeInv'
  <2>1. HandlerOK' /\ HistoryOK'
    BY <1>1 DEF Deliver, Goto, Labels, Informed, HandlerOK, HistoryOK
  <2>2. UNCHANGED <<table, outside, poller>>
    BY <1>1 DEF Deliver
  <2> QED BY <2>1, <2>2
<1>2. CASE FetchPR(w) \/ ListCommits(w) \/ CountActive(w)
  <2>1. HandlerOK'
    BY <1>2, HandlersMove DEF FetchPR, ListCommits, CountActive, Labels, Informed, HandlerOK
  <2>2. UNCHANGED <<table, outside, poller, history>>
    BY <1>2 DEF FetchPR, ListCommits, CountActive
  <2> QED BY <2>1, <2>2
<1>3. CASE FindParent(w)
  <2>1. HandlerOK'
    <3>1. CASE Return(w)
      BY <3>1, HandlersMove
    <3>2. CASE ~Return(w)
      BY <1>3, <3>2, RowIdsFinite DEF FindParent, find_by_pr, HandlerOK, Goto, Labels, Informed
    <3> QED BY <3>1, <3>2
  <2>2. UNCHANGED <<table, outside, poller, history>>
    BY <1>3 DEF FindParent
  <2> QED BY <2>1, <2>2
<1>4. CASE ReadAttempts(w)
  <2>1. parent[w] \in RowIds
    BY <1>4 DEF ReadAttempts, HandlerOK, Informed, Labels
  <2>2. max_fix_attempt_for_parent(parent[w]) \in Nat
    BY <2>1, MaxAttempt
  <2>3. HandlerOK'
    BY <1>4, <2>1, <2>2 DEF ReadAttempts, HandlerOK, Goto, Labels, Informed
  <2>4. UNCHANGED <<table, outside, poller, history>>
    BY <1>4 DEF ReadAttempts
  <2> QED BY <2>3, <2>4
<1>5. CASE Reserve(w)
  <2>1. HandlerOK'
    BY <1>5, HandlersMove DEF Reserve, Labels, Informed, HandlerOK
  <2>2. TableOK'
    <3>1. CASE rows' = rows
      BY <3>1 DEF TableOK
    <3>2. CASE rows' # rows
      <4>1. PICK t \in Seconds : rows' = [rows EXCEPT ![run[w]] =
                [NoRow EXCEPT !.status = "reserving", !.parent = parent[w],
                              !.attempt = attempt[w], !.started = t]]
        BY <1>5, <3>2 DEF Reserve
      <4>2. t \in Nat /\ parent[w] \in RowIds \cup {None} /\ attempt[w] \in Nat
        BY SecondsAreNat DEF HandlerOK
      <4>3. [NoRow EXCEPT !.status = "reserving", !.parent = parent[w],
                          !.attempt = attempt[w], !.started = t] \in RowType
        BY <4>2, StatusNames DEF RowType, NoRow
      <4> QED BY <4>1, <4>3 DEF TableOK
    <3> QED BY <3>1, <3>2
  <2>3. UNCHANGED <<outside, poller, history>>
    BY <1>5 DEF Reserve
  <2> QED BY <2>1, <2>2, <2>3
<1>6. CASE Create(w)
  <2>1. HandlerOK'
    BY <1>6, HandlersMove DEF Create, Labels, Informed, HandlerOK
  <2>2. OutsideOK'
    BY <1>6 DEF Create, OutsideOK
  <2>3. UNCHANGED <<table, poller, history>>
    BY <1>6 DEF Create
  <2> QED BY <2>1, <2>2, <2>3
<1>7. CASE Activate(w) \/ MarkFailed(w) \/ MarkParent(w)
  <2>1. HandlerOK'
    BY <1>7, HandlersMove DEF Activate, MarkFailed, MarkParent, Labels, Informed, HandlerOK
  <2>2. TableOK'
    BY <1>7, StatusNames DEF Activate, MarkFailed, MarkParent, TableOK, RowType
  <2>3. UNCHANGED <<outside, poller, history>>
    BY <1>7 DEF Activate, MarkFailed, MarkParent
  <2> QED BY <2>1, <2>2, <2>3
<1>8. CASE ListChildren(w)
  <2>1. HandlerOK'
    BY <1>8 DEF ListChildren, Goto, Labels, Informed, HandlerOK, TableOK, RowType, find_active_children
  <2>2. UNCHANGED <<table, outside, poller, history>>
    BY <1>8 DEF ListChildren
  <2> QED BY <2>1, <2>2
<1>9. CASE NextChild(w)
  <2>1. HandlerOK'
    BY <1>9 DEF NextChild, Goto, Labels, Informed, HandlerOK
  <2>2. OutsideOK' /\ HistoryOK'
    <3>1. PICK c \in todo[w] :
              IF c.tracked THEN Terminate(c.row) ELSE LetGo(c.row) /\ UNCHANGED <<devin, faults>>
      BY <1>9 DEF NextChild
    <3>2. c.row \in RowIds
      BY <3>1 DEF HandlerOK
    <3>3. UNCHANGED <<lists, prState, comments, human, deliveries>>
      BY <1>9 DEF NextChild
    <3>4. CASE Terminate(c.row)
      BY <3>2, <3>3, <3>4, TerminateTyped
    <3>5. CASE LetGo(c.row) /\ UNCHANGED <<devin, faults>>
      BY <3>2, <3>3, <3>5 DEF LetGo, OutsideOK, HistoryOK
    <3> QED BY <3>1, <3>4, <3>5
  <2>3. UNCHANGED <<table, poller>>
    BY <1>9 DEF NextChild
  <2> QED BY <2>1, <2>2, <2>3
<1>10. CASE CancelChild(w)
  <2>1. HandlerOK'
    BY <1>10 DEF CancelChild, Goto, Labels, Informed, HandlerOK
  <2>2. TableOK'
    BY <1>10, StatusNames DEF CancelChild, TableOK, RowType
  <2>3. UNCHANGED <<outside, poller, history>>
    BY <1>10 DEF CancelChild
  <2> QED BY <2>1, <2>2, <2>3
<1>11. CASE PostComment(w)
  <2>1. HandlerOK' /\ OutsideOK'
    BY <1>11, HandlersMove DEF PostComment, OutsideOK
  <2>2. UNCHANGED <<table, poller, history>>
    BY <1>11 DEF PostComment
  <2> QED BY <2>1, <2>2
<1> QED BY <1>1, <1>2, <1>3, <1>4, <1>5, <1>6, <1>7, <1>8, <1>9, <1>10, <1>11 DEF HandlerStep

\* What a look at a row may conclude.
LEMMA Concluded ==
    ASSUME OutsideOK, NEW x \in SnapshotType, GetSession(x) \/ GetSessionFails(x)
    PROVE  /\ Visit(x)
           /\ \/ UNCHANGED <<ppc, seen>>
              \/ /\ ppc' \in {"write", "terminate"}
                 /\ seen' \in Conclusions /\ seen'.row = x.row
           /\ UNCHANGED loose \/ LetGo(x.row)
<1>1. Visit(x)
  BY DEF GetSession, GetSessionFails, FindsInactive, FindsNoChange, FindsChange
<1>2. ASSUME NEW verdict \in Statuses, NEW pr \in BOOLEAN, NEW step, Conclude(x, verdict, pr, step)
      PROVE  ppc' = step /\ seen' \in Conclusions /\ seen'.row = x.row
  BY <1>2 DEF Conclude, Conclusions, SnapshotType
<1>3. CASE FindsInactive(x)
  BY <1>1, <1>2, <1>3, StatusNames DEF FindsInactive
<1>4. CASE FindsChange(x)
  <2>1. CASE lists[x.row] /\ prState \in {"merged", "closed"}
    BY <1>1, <1>2, <1>4, <2>1, StatusNames DEF FindsChange, FindsMerge, FindsClosed
  <2>2. CASE ~(lists[x.row] /\ prState \in {"merged", "closed"})
    <3>1. Conclude(x, map_status(devin[x.row]), lists[x.row], "write")
          /\ (UNCHANGED loose \/ LetGo(x.row))
      BY <1>4, <2>2 DEF FindsChange, FindsStatus
    <3>2. lists[x.row] \in BOOLEAN /\ map_status(devin[x.row]) \in Statuses
      BY MapsToStatus DEF OutsideOK, SnapshotType
    <3> QED BY <1>1, <1>2, <3>1, <3>2
  <2> QED BY <2>1, <2>2
<1> QED BY <1>1, <1>3, <1>4 DEF GetSession, GetSessionFails, FindsNoChange

LEMMA PollerTyped == TypeInv /\ PollerStep => TypeInv'
<1> SUFFICES ASSUME TypeInv, PollerStep PROVE TypeInv'
  OBVIOUS
<1> USE Frames DEF TypeInv
<1>1. CASE ListNonTerminal
  <2>1. PollerOK'
    BY <1>1, StatusNames DEF ListNonTerminal, NonTerminal, PollerOK, TableOK, RowType, SnapshotType
  <2>2. UNCHANGED <<table, outside, handler, history>>
    BY <1>1 DEF ListNonTerminal
  <2> QED BY <2>1, <2>2
<1>2. CASE PollerTerminates
  <2>1. OutsideOK' /\ HistoryOK'
    BY <1>2, TerminateTyped DEF PollerTerminates, PollerOK, Conclusions
  <2>2. PollerOK' /\ UNCHANGED <<table, handler>>
    BY <1>2 DEF PollerTerminates, PollerOK
  <2> QED BY <2>1, <2>2
<1>3. CASE PollerWrites
  <2>1. TableOK'
    BY <1>3 DEF PollerWrites, KeptPR, PollerOK, Conclusions, TableOK, RowType
  <2>2. PollerOK' /\ UNCHANGED <<outside, handler, history>>
    BY <1>3 DEF PollerWrites, PollerOK
  <2> QED BY <2>1, <2>2
<1>4. CASE TickDone
  <2>1. PollerOK' /\ UNCHANGED <<table, outside, handler, history>>
    BY <1>4 DEF TickDone, PollerOK
  <2> QED BY <2>1
<1>5. ASSUME NEW x \in snapshot, GetSession(x) \/ GetSessionFails(x) PROVE TypeInv'
  <2>1. x \in SnapshotType
    BY DEF PollerOK
  <2>2. PollerOK'
    BY <1>5, <2>1, Concluded DEF Visit, PollerOK
  <2>3. UNCHANGED <<table, outside, handler>>
    BY <1>5, <2>1, Concluded DEF Visit
  <2>4. HistoryOK'
    BY <1>5, <2>1, Concluded DEF Visit, LetGo, HistoryOK, SnapshotType
  <2> QED BY <2>2, <2>3, <2>4
<1> QED BY <1>1, <1>2, <1>3, <1>4, <1>5 DEF PollerStep

SameLocals(v) ==
    /\ pc'[v] = pc[v] /\ run'[v] = run[v] /\ parent'[v] = parent[v]
    /\ attempt'[v] = attempt[v] /\ todo'[v] = todo[v] /\ child'[v] = child[v]

Dropped(v) ==
    /\ pc'[v] = "idle" /\ run'[v] = None /\ parent'[v] = None
    /\ attempt'[v] = 0 /\ todo'[v] = {} /\ child'[v] = None

\* An exception or the end of the process: nothing but locals is lost.
Interruption == Crash \/ PollerRaises \/ \E w \in Workers : HandlerRaises(w)

LEMMA Interrupts ==
    ASSUME TypeInv, Interruption
    PROVE  /\ UNCHANGED <<rows, outside, deliveries, loose>> /\ faults' = faults + 1
           /\ \A v \in Workers : SameLocals(v) \/ Dropped(v)
           /\ UNCHANGED poller \/ (ppc' = "idle" /\ snapshot' = {} /\ seen' = None)
<1> USE DEF SameLocals, Dropped, TypeInv, HandlerOK
<1>1. CASE Crash
  BY <1>1 DEF Crash, Fault, table
<1>2. CASE PollerRaises
  BY <1>2 DEF PollerRaises, Fault, table, handler
<1>3. ASSUME NEW w \in Workers, HandlerRaises(w)
      PROVE  /\ UNCHANGED <<rows, outside, deliveries, loose, poller>> /\ faults' = faults + 1
             /\ \A v \in Workers : SameLocals(v) \/ Dropped(v)
  BY <1>3 DEF HandlerRaises, Return, Goto, Fault, table
<1> QED BY <1>1, <1>2, <1>3 DEF Interruption

LEMMA InterruptTyped == TypeInv /\ Interruption => TypeInv'
<1> SUFFICES ASSUME TypeInv, Interruption PROVE TypeInv'
  OBVIOUS
<1>1. HandlerOK'
  <2>1. CASE Crash \/ PollerRaises
    BY <2>1, Frames DEF Crash, PollerRaises, TypeInv, Informed, HandlerOK, Labels
  <2>2. CASE \E w \in Workers : HandlerRaises(w)
    BY <2>2, HandlersMove DEF HandlerRaises, TypeInv
  <2> QED BY <2>1, <2>2 DEF Interruption
<1>2. PollerOK' /\ HistoryOK'
  BY Interrupts, Frames DEF TypeInv, PollerOK, HistoryOK
<1>3. UNCHANGED <<table, outside>>
  BY Interrupts DEF table
<1> QED BY <1>1, <1>2, <1>3, Frames DEF TypeInv

LEMMA TypeNext == TypeInv /\ [Next]_vars => TypeInv'
<1> SUFFICES ASSUME TypeInv, [Next]_vars PROVE TypeInv'
  OBVIOUS
<1>1. CASE UNCHANGED vars
  BY <1>1, Frames DEF vars, TypeInv
<1>2. CASE \E w \in Workers : (\E r \in Runs : Deliver(w, r)) \/ HandlerStep(w)
  BY <1>2, HandlerTyped
<1>3. CASE PollerStep \/ Interruption
  BY <1>3, PollerTyped, InterruptTyped
<1>4. CASE OutsideStep
  BY <1>4, OutsideTyped
<1> QED BY <1>1, <1>2, <1>3, <1>4 DEF Next, OutsideStep, Interruption

LEMMA Typed == Spec => []TypeInv
BY TypeInit, TypeNext, PTL DEF Spec

\* Every column, local and call of the poller keeps its type, whatever Devin
\* reports and however often the process dies.
THEOREM TypeCorrect == Spec => []TypeOK
<1>1. TypeInv => TypeOK
  BY DEF TypeInv, TypeOK, TableOK, OutsideOK, HandlerOK, PollerOK, HistoryOK
<1> QED BY <1>1, Typed, PTL

(***************************************************************************)
(* Attempt numbers.  Rows that exist keep their parent and their number,   *)
(* and everybody who refers to a row refers to one that exists.            *)
(***************************************************************************)
Exists(x) == rows[x].status # "none"

\* n is one above a number of p's chain, and within the cap.
NextAttempt(p, n) ==
    /\ n \in 1 .. MAX_FIX_ATTEMPTS
    /\ n = 1 \/ \E x \in Chain(p) : rows[x].attempt = n - 1

KnownRows ==
    /\ Exists(Parent) /\ rows[Parent].attempt = 0
    /\ \A r \in Runs :
          IF Exists(r)
          THEN rows[r].parent \in RowIds /\ NextAttempt(rows[r].parent, rows[r].attempt)
          ELSE rows[r].parent = None /\ rows[r].attempt = 0
    /\ \A x \in RowIds : rows[x].parent \in RowIds => Exists(rows[x].parent)

HasNumber(w) == pc[w] \in {"list_commits", "count_active", "reserve"}

KnownBy(w) ==
    /\ parent[w] # None => Exists(parent[w])
    /\ pc[w] # "idle" => run[w] \in Runs
    /\ pc[w] \in {"create", "activate", "mark_failed"} => Exists(run[w])
    /\ HasNumber(w) => NextAttempt(parent[w], attempt[w])
    /\ \A c \in todo[w] : Exists(c.row)
    /\ pc[w] = "cancel_child" => child[w] \in RowIds /\ Exists(child[w])
    /\ Escalating(w) => \E x \in RowIds : rows[x].attempt >= MAX_FIX_ATTEMPTS

KnownByPoller ==
    /\ \A s \in snapshot : Exists(s.row)
    /\ ppc \in {"terminate", "write"} => Exists(seen.row)

ChainInv == KnownRows /\ (\A w \in Workers : KnownBy(w)) /\ KnownByPoller

Grown ==
    \A x \in RowIds : Exists(x) =>
        /\ Exists(x)'
        /\ rows'[x].parent = rows[x].parent /\ rows'[x].attempt = rows[x].attempt

\* Statuses of existing rows change, or nothing does.
StatusOnly ==
    \A x \in RowIds :
        /\ Exists(x)' <=> Exists(x)
        /\ rows'[x].parent = rows[x].parent /\ rows'[x].attempt = rows[x].attempt

LEMMA OldRowsExist ==
    ASSUME KnownRows, NEW p \in RowIds, Exists(p)
    PROVE  Chain(p) \subseteq RowIds /\ \A x \in Chain(p) : Exists(x)
BY RowIdsFinite DEF KnownRows, Chain, RowIds

LEMMA NumbersStay ==
    ASSUME KnownRows, Grown, NEW p \in RowIds, Exists(p), NEW n, NextAttempt(p, n)
    PROVE  /\ n \in 1 .. MAX_FIX_ATTEMPTS
           /\ n = 1 \/ \E x \in Chain(p)' : rows'[x].attempt = n - 1
<1>1. Chain(p) \subseteq Chain(p)'
  BY OldRowsExist DEF Chain, Grown
<1>2. \A x \in Chain(p) : rows'[x].attempt = rows[x].attempt
  BY OldRowsExist DEF Grown
<1> QED BY <1>1, <1>2 DEF NextAttempt

LEMMA StatusesChange ==
    ASSUME KnownRows, StatusOnly
    PROVE  KnownRows' /\ Grown
<1>1. Grown
  BY DEF StatusOnly, Grown
<1>2. ASSUME NEW r \in Runs, Exists(r)'
      PROVE  rows'[r].parent \in RowIds /\ NextAttempt(rows[r].parent, rows[r].attempt)'
  <2>1. /\ Exists(r) /\ r \in RowIds
        /\ rows'[r].parent = rows[r].parent /\ rows'[r].attempt = rows[r].attempt
    BY <1>2, RowIdsFinite DEF StatusOnly
  <2>2. rows[r].parent \in RowIds /\ NextAttempt(rows[r].parent, rows[r].attempt)
    BY <2>1 DEF KnownRows
  <2>3. Exists(rows[r].parent)
    BY <2>1, <2>2 DEF KnownRows
  <2> QED BY <1>1, <2>1, <2>2, <2>3, NumbersStay DEF NextAttempt
<1>3. Exists(Parent)' /\ rows'[Parent].attempt = 0
  BY RowIdsFinite DEF KnownRows, StatusOnly
<1>4. \A r \in Runs : ~Exists(r)' => rows'[r].parent = None /\ rows'[r].attempt = 0
  BY RowIdsFinite DEF KnownRows, StatusOnly
<1>5. \A x \in RowIds : rows'[x].parent \in RowIds => Exists(rows[x].parent)'
  BY DEF KnownRows, StatusOnly, Exists
<1> QED BY <1>1, <1>2, <1>3, <1>4, <1>5 DEF KnownRows

LEMMA HighNumberStays ==
    ASSUME KnownRows, Grown, NEW x \in RowIds, rows[x].attempt >= MAX_FIX_ATTEMPTS
    PROVE  \E y \in RowIds : rows'[y].attempt >= MAX_FIX_ATTEMPTS
<1>1. CASE Exists(x)
  BY <1>1 DEF Grown
<1>2. CASE ~Exists(x)
  <2>1. rows[x].attempt = 0
    BY <1>2 DEF KnownRows, RowIds
  <2>2. MAX_FIX_ATTEMPTS = 0
    BY <2>1, FixLoopAssumption
  <2>3. rows'[Parent].attempt = 0 /\ Parent \in RowIds
    BY RowIdsFinite DEF KnownRows, Grown
  <2> QED BY <2>2, <2>3
<1> QED BY <1>1, <1>2

LEMMA KnowledgeStays ==
    ASSUME TypeInv, KnownRows, Grown, NEW v \in Workers, KnownBy(v), SameLocals(v)
    PROVE  KnownBy(v)'
<1>1. /\ parent[v] \in RowIds \cup {None} /\ run[v] \in Runs \cup {None}
      /\ todo[v] \subseteq [row : RowIds, tracked : BOOLEAN]
      /\ HasNumber(v) => parent[v] # None
  BY DEF TypeInv, HandlerOK, HasNumber, Informed, Labels
<1>2. \A x \in RowIds : Exists(x) => Exists(x)'
  BY DEF Grown
<1>3. HasNumber(v)' => NextAttempt(parent[v], attempt[v])'
  <2> SUFFICES ASSUME HasNumber(v)' PROVE NextAttempt(parent[v], attempt[v])'
    OBVIOUS
  <2>1. parent[v] \in RowIds /\ Exists(parent[v]) /\ NextAttempt(parent[v], attempt[v])
    BY <1>1 DEF KnownBy, HasNumber, SameLocals
  <2> QED BY <2>1, NumbersStay DEF NextAttempt, SameLocals, Chain
<1>4. Escalating(v)' => \E x \in RowIds : rows'[x].attempt >= MAX_FIX_ATTEMPTS
  <2> SUFFICES ASSUME Escalating(v)'
               PROVE  \E x \in RowIds : rows'[x].attempt >= MAX_FIX_ATTEMPTS
    OBVIOUS
  <2>1. PICK x \in RowIds : rows[x].attempt >= MAX_FIX_ATTEMPTS
    BY DEF KnownBy, Escalating, SameLocals
  <2> QED BY <2>1, HighNumberStays
<1>5. Exists(parent[v])' = (rows'[parent[v]'].status # "none")
  BY DEF Exists
<1>6. /\ parent'[v] # None => Exists(parent[v])'
      /\ pc'[v] # "idle" => run'[v] \in Runs
      /\ pc'[v] \in {"create", "activate", "mark_failed"} => Exists(run[v])'
      /\ \A c \in todo'[v] : Exists(c.row)'
      /\ pc'[v] = "cancel_child" => child'[v] \in RowIds /\ Exists(child[v])'
  BY <1>1, <1>2, RowIdsFinite DEF KnownBy, SameLocals, Exists
<1> QED BY <1>3, <1>4, <1>6 DEF KnownBy

\* A step of one handler, when the rows and what it knows are right again.
LEMMA OneHandlerMoves ==
    ASSUME TypeInv, ChainInv, Grown, KnownRows', NEW w \in Workers, KnownBy(w)',
           \A v \in Workers \ {w} : SameLocals(v), UNCHANGED poller
    PROVE  ChainInv'
<1>1. \A v \in Workers : KnownBy(v)'
  BY KnowledgeStays DEF ChainInv
<1>2. KnownByPoller'
  <2>1. /\ \A s \in snapshot : s.row \in RowIds
        /\ ppc \in {"terminate", "write"} => seen.row \in RowIds
    BY DEF TypeInv, PollerOK, SnapshotType, Conclusions
  <2> QED BY <2>1 DEF ChainInv, KnownByPoller, poller, Grown, Exists
<1> QED BY <1>1, <1>2 DEF ChainInv

LEMMA OthersStay ==
    ASSUME TypeInv, NEW w \in Workers, (\E r \in Runs : Deliver(w, r)) \/ HandlerStep(w)
    PROVE  (\A v \in Workers \ {w} : SameLocals(v)) /\ UNCHANGED poller
<1> USE DEF SameLocals, TypeInv, HandlerOK
<1>2. CASE \E r \in Runs : Deliver(w, r)
  BY <1>2 DEF Deliver, Goto
<1>3. Return(w) => \A v \in Workers \ {w} : SameLocals(v)
  BY DEF Return, Goto
<1>4. \A label : Proceed(w, label) => \A v \in Workers \ {w} : SameLocals(v)
  BY DEF Proceed, Goto
<1>5. CASE FetchPR(w) \/ ListCommits(w) \/ CountActive(w) \/ Reserve(w) \/ Create(w)
           \/ Activate(w) \/ MarkFailed(w) \/ MarkParent(w) \/ PostComment(w)
  BY <1>3, <1>4, <1>5 DEF FetchPR, ListCommits, CountActive, Reserve, Create, Activate,
     MarkFailed, MarkParent, PostComment
<1>6. CASE FindParent(w)
  BY <1>3, <1>6 DEF FindParent, Goto
<1>7. CASE ReadAttempts(w) \/ ListChildren(w) \/ NextChild(w) \/ CancelChild(w)
  BY <1>7 DEF ReadAttempts, ListChildren, NextChild, CancelChild, Goto
<1> QED BY <1>2, <1>5, <1>6, <1>7 DEF HandlerStep

LEMMA ChainInit == Init => ChainInv
<1> SUFFICES ASSUME Init PROVE ChainInv
  OBVIOUS
<1>1. KnownRows
  BY RowIdsFinite DEF Init, KnownRows, Exists, NoRow, RowIds
<1>2. \A w \in Workers : KnownBy(w)
  BY DEF Init, KnownBy, HasNumber, Escalating
<1> QED BY <1>1, <1>2 DEF Init, ChainInv, KnownByPoller

\* A step that leaves the rows, or writes the status of one that exists.
LEMMA Unwritten ==
    ASSUME KnownRows, UNCHANGED rows
    PROVE  KnownRows' /\ Grown
BY StatusesChange DEF StatusOnly, Exists

LEMMA StatusWritten ==
    ASSUME TypeInv, KnownRows, NEW r \in RowIds, Exists(r), Exists(r)',
           rows'[r].parent = rows[r].parent, rows'[r].attempt = rows[r].attempt,
           \A x \in RowIds \ {r} : rows'[x] = rows[x]
    PROVE  KnownRows' /\ Grown
<1>1. StatusOnly
  BY DEF StatusOnly, Exists
<1> QED BY <1>1, StatusesChange

\* The row of a new fix-session takes its place in the chain.
LEMMA RowInserted ==
    ASSUME TypeInv, ChainInv, NEW w \in Workers, Reserve(w)
    PROVE  KnownRows' /\ Grown /\ KnownBy(w)'
<1> DEFINE r == run[w]
<1>1. /\ pc[w] = "reserve" /\ r \in Runs /\ r \in RowIds /\ r # Parent
      /\ parent[w] \in RowIds /\ Exists(parent[w]) /\ KnownBy(w)
      /\ NextAttempt(parent[w], attempt[w])
  BY RowIdsFinite
  DEF Reserve, ChainInv, KnownBy, HasNumber, TypeInv, HandlerOK, Informed, Labels
<1>2. CASE ~Exists(r)
  <2>1. PICK t \in Seconds : rows' = [rows EXCEPT ![r] =
            [NoRow EXCEPT !.status = "reserving", !.parent = parent[w],
                          !.attempt = attempt[w], !.started = t]]
    BY <1>2 DEF Reserve, RunIsFree, Exists
  <2>2. /\ rows'[r].status = "reserving" /\ rows'[r].parent = parent[w]
        /\ rows'[r].attempt = attempt[w]
        /\ \A x \in RowIds \ {r} : rows'[x] = rows[x]
    BY <1>1, <2>1 DEF NoRow, TypeInv, TableOK
  <2>3. Grown
    BY <1>2, <2>2 DEF Grown, Exists
  <2>4. NextAttempt(parent[w], attempt[w])' /\ attempt'[w] = attempt[w] /\ parent'[w] = parent[w]
    <3>1. attempt' = attempt /\ parent' = parent
      BY <1>2 DEF Reserve, RunIsFree, Proceed, Exists
    <3> QED BY <1>1, <2>3, <3>1, NumbersStay DEF NextAttempt, ChainInv, Chain
  <2>5. ASSUME NEW q \in Runs, Exists(q)'
        PROVE  rows'[q].parent \in RowIds /\ NextAttempt(rows[q].parent, rows[q].attempt)'
    <3>1. CASE q = r
      <4>1. rows'[q].parent = parent'[w] /\ rows'[q].attempt = attempt'[w]
        BY <2>2, <2>4, <3>1
      <4> QED BY <1>1, <2>4, <4>1 DEF NextAttempt, Chain
    <3>2. CASE q # r
      <4>1. q \in RowIds /\ Exists(q) /\ rows'[q] = rows[q]
        BY <2>2, <2>5, <3>2 DEF RowIds, Exists
      <4>2. /\ rows[q].parent \in RowIds /\ Exists(rows[q].parent)
            /\ NextAttempt(rows[q].parent, rows[q].attempt)
        BY <4>1 DEF ChainInv, KnownRows
      <4> QED BY <2>3, <4>1, <4>2, NumbersStay DEF NextAttempt, ChainInv, Chain
    <3> QED BY <3>1, <3>2
  <2>6. \A q \in Runs : ~Exists(q)' => rows'[q].parent = None /\ rows'[q].attempt = 0
    BY <2>2 DEF ChainInv, KnownRows, Exists, RowIds
  <2>7. Exists(Parent)' /\ rows'[Parent].attempt = 0
    BY <1>1, <2>2, RowIdsFinite DEF ChainInv, KnownRows, Exists
  <2>8. \A x \in RowIds : rows'[x].parent \in RowIds => Exists(rows[x].parent)'
    <3>1. \A x \in RowIds : rows'[x].parent \in RowIds => Exists(rows'[x].parent)
      BY <1>1, <2>2 DEF ChainInv, KnownRows
    <3> QED BY <2>3, <3>1 DEF Grown, Exists
  <2>9. KnownRows'
    BY <2>5, <2>6, <2>7, <2>8 DEF KnownRows
  <2>10. KnownBy(w)'
    <3>1. pc'[w] = "create" /\ UNCHANGED <<run, parent, attempt, todo, child>>
      BY <1>1, <1>2 DEF Reserve, RunIsFree, Proceed, Goto, Exists, TypeInv, HandlerOK
    <3>2. Exists(r)' /\ (\A x \in RowIds : Exists(x) => Exists(x)')
      BY <2>2, <2>3, <3>1 DEF Exists, Grown
    <3>3. \A c \in todo[w] : Exists(c.row)'
      BY <1>1, <3>2 DEF KnownBy, TypeInv, HandlerOK
    <3>4. ~HasNumber(w)' /\ ~Escalating(w)'
      BY <3>1 DEF HasNumber, Escalating
    <3>5. parent'[w] # None => Exists(parent[w])'
      BY <1>1, <3>1, <3>2 DEF Exists
    <3> QED BY <1>1, <3>1, <3>2, <3>3, <3>4, <3>5 DEF KnownBy, Exists
  <2> QED BY <2>3, <2>9, <2>10
<1>3. CASE Exists(r)
  <2>1. Return(w) /\ UNCHANGED rows
    BY <1>3 DEF Reserve, RunIsFree, Exists
  <2>2. KnownBy(w)'
    BY <2>1 DEF Return, Goto, KnownBy, HasNumber, Escalating, TypeInv, HandlerOK
  <2> QED BY <2>1, <2>2, Unwritten DEF ChainInv
<1> QED BY <1>2, <1>3

\* A handler that returns refers to nothing; one that proceeds without a new
\* row or number refers to what it did before.
LEMMA Returned ==
    ASSUME TypeInv, NEW w \in Workers, Return(w)
    PROVE  KnownBy(w)'
BY DEF Return, Goto, KnownBy, HasNumber, Escalating, TypeInv, HandlerOK

LEMMA Moved ==
    ASSUME TypeInv, KnownRows, Grown, NEW w \in Workers, KnownBy(w), pc[w] # "idle",
           run'[w] = run[w], parent'[w] = parent[w], todo'[w] \subseteq todo[w],
           HasNumber(w)' => HasNumber(w) /\ attempt'[w] = attempt[w],
           pc'[w] \in {"create", "activate", "mark_failed"} => Exists(run[w]),
           pc'[w] = "cancel_child" => child'[w] \in RowIds /\ Exists(child'[w]),
           Escalating(w)' => Escalating(w)
    PROVE  KnownBy(w)'
<1>1. /\ parent[w] \in RowIds \cup {None} /\ run[w] \in Runs
      /\ todo[w] \subseteq [row : RowIds, tracked : BOOLEAN]
      /\ HasNumber(w) => parent[w] # None
  BY DEF TypeInv, HandlerOK, HasNumber, Informed, Labels, KnownBy
<1>2. \A x \in RowIds : Exists(x) => Exists(x)'
  BY DEF Grown
<1>3. HasNumber(w)' => NextAttempt(parent[w], attempt[w])'
  <2> SUFFICES ASSUME HasNumber(w)' PROVE NextAttempt(parent[w], attempt[w])'
    OBVIOUS
  <2>1. parent[w] \in RowIds /\ Exists(parent[w]) /\ NextAttempt(parent[w], attempt[w])
    BY <1>1 DEF KnownBy
  <2> QED BY <2>1, NumbersStay DEF NextAttempt, Chain
<1>4. Escalating(w)' => \E x \in RowIds : rows'[x].attempt >= MAX_FIX_ATTEMPTS
  <2> SUFFICES ASSUME Escalating(w)'
               PROVE  \E x \in RowIds : rows'[x].attempt >= MAX_FIX_ATTEMPTS
    OBVIOUS
  <2>1. PICK x \in RowIds : rows[x].attempt >= MAX_FIX_ATTEMPTS
    BY DEF KnownBy
  <2> QED BY <2>1, HighNumberStays
<1>5. /\ parent'[w] # None => Exists(parent[w])'
      /\ pc'[w] # "idle" => run'[w] \in Runs
      /\ pc'[w] \in {"create", "activate", "mark_failed"} => Exists(run[w])'
      /\ \A c \in todo'[w] : Exists(c.row)'
      /\ pc'[w] = "cancel_child" => child'[w] \in RowIds /\ Exists(child[w])'
  BY <1>1, <1>2, RowIdsFinite DEF KnownBy, Exists
<1> QED BY <1>3, <1>4, <1>5 DEF KnownBy

LEMMA HandlerChain ==
    ASSUME TypeInv, ChainInv, NEW w \in Workers, (\E r \in Runs : Deliver(w, r)) \/ HandlerStep(w)
    PROVE  ChainInv'
<1>1. KnownRows /\ KnownBy(w)
  BY DEF ChainInv
<1>2. SUFFICES KnownRows' /\ Grown /\ KnownBy(w)'
  BY OthersStay, OneHandlerMoves
<1>3. Return(w) /\ UNCHANGED rows => KnownRows' /\ Grown /\ KnownBy(w)'
  BY <1>1, Returned, Unwritten
<1>4. ASSUME UNCHANGED rows, UNCHANGED <<run, parent, attempt, todo, child>>, pc[w] # "idle",
             HasNumber(w)' => HasNumber(w), Escalating(w)' => Escalating(w),
             pc'[w] \in {"create", "activate", "mark_failed"} => Exists(run[w]),
             pc'[w] # "cancel_child"
      PROVE  KnownRows' /\ Grown /\ KnownBy(w)'
  <2>1. KnownRows' /\ Grown
    BY <1>1, <1>4, Unwritten
  <2> QED BY <1>1, <1>4, <2>1, Moved
<1>5. \A label : Proceed(w, label) => pc'[w] = label /\ UNCHANGED <<run, parent, attempt, todo, child>>
  BY DEF Proceed, Goto, TypeInv, HandlerOK
<1>6. ASSUME NEW r \in Runs, Deliver(w, r) PROVE KnownRows' /\ Grown /\ KnownBy(w)'
  <2>1. KnownRows' /\ Grown
    BY <1>1, <1>6, Unwritten DEF Deliver, table
  <2>2. KnownBy(w)'
    <3>1. /\ pc'[w] = "fetch_pr" /\ run'[w] = r
          /\ UNCHANGED <<rows, parent, todo>>
      BY <1>6 DEF Deliver, Goto, TypeInv, HandlerOK, table
    <3> QED BY <1>1, <3>1 DEF KnownBy, HasNumber, Escalating, Exists
  <2> QED BY <2>1, <2>2
<1>7. CASE FetchPR(w) \/ ListCommits(w) \/ CountActive(w) \/ Create(w)
  <2>1. pc[w] # "idle" /\ UNCHANGED rows /\ (pc[w] = "create" => Exists(run[w]))
    BY <1>1, <1>7 DEF FetchPR, ListCommits, CountActive, Create, KnownBy, table
  <2>2. \/ Return(w)
        \/ pc[w] = "fetch_pr" /\ Proceed(w, "find_parent")
        \/ pc[w] = "list_commits" /\ Proceed(w, "count_active")
        \/ pc[w] = "count_active" /\ Proceed(w, "reserve")
        \/ pc[w] = "create" /\ (Proceed(w, "activate") \/ Proceed(w, "mark_failed"))
    BY <1>7 DEF FetchPR, ListCommits, CountActive, Create
  <2>3. CASE ~Return(w)
    <3>1. /\ UNCHANGED <<run, parent, attempt, todo, child>>
          /\ HasNumber(w)' => HasNumber(w)
          /\ pc'[w] \in {"find_parent", "count_active", "reserve", "activate", "mark_failed"}
          /\ pc'[w] \in {"create", "activate", "mark_failed"} => pc[w] = "create"
      BY <1>5, <2>2, <2>3 DEF HasNumber
    <3>2. ~Escalating(w)'
      BY <3>1 DEF Escalating
    <3> QED BY <1>4, <2>1, <3>1, <3>2
  <2> QED BY <1>3, <2>1, <2>3
<1>8. CASE FindParent(w)
  <2>1. UNCHANGED rows
    BY <1>8 DEF FindParent, table
  <2>2. CASE ~Return(w)
    <3>1. PICK x \in find_by_pr : /\ ParentIsOver(x)
                                  /\ parent' = [parent EXCEPT ![w] = x]
                                  /\ Goto(w, "read_attempts")
                                  /\ UNCHANGED <<run, attempt, todo, child>>
      BY <1>8, <2>2 DEF FindParent
    <3>2. Exists(x)
      BY <3>1 DEF ParentIsOver, Exists, TERMINAL_STATUSES
    <3>3. parent'[w] = x /\ pc'[w] = "read_attempts"
      BY <3>1 DEF Goto, TypeInv, HandlerOK
    <3>4. KnownBy(w)'
      BY <1>1, <1>8, <2>1, <3>1, <3>2, <3>3
      DEF KnownBy, HasNumber, Escalating, Exists, FindParent
    <3> QED BY <1>1, <2>1, <3>4, Unwritten
  <2> QED BY <1>3, <2>1, <2>2
<1>9. CASE ReadAttempts(w)
  <2>1. /\ pc[w] = "read_attempts" /\ UNCHANGED <<rows, run, parent, todo, child>>
        /\ parent[w] \in RowIds
    BY <1>9 DEF ReadAttempts, TypeInv, HandlerOK, Informed, Labels, table
  <2> DEFINE max == max_fix_attempt_for_parent(parent[w])
  <2>2. /\ max \in Nat
        /\ \E x \in Chain(parent[w]) : rows[x].attempt = max
    BY <2>1, MaxAttempt DEF TypeInv
  <2>3. Chain(parent[w]) \subseteq RowIds
    BY <2>1 DEF Chain
  <2>4. CASE AtFixCap(max)
    <3>1. pc'[w] = "escalate"
      BY <1>9, <2>4 DEF ReadAttempts, Goto, TypeInv, HandlerOK
    <3>2. \E x \in RowIds : rows[x].attempt >= MAX_FIX_ATTEMPTS
      BY <2>2, <2>3, <2>4 DEF AtFixCap
    <3>3. KnownBy(w)'
      BY <1>1, <2>1, <3>1, <3>2 DEF KnownBy, HasNumber, Escalating, Exists
    <3> QED BY <1>1, <2>1, <3>3, Unwritten
  <2>5. CASE ~AtFixCap(max)
    <3>1. pc'[w] = "list_commits" /\ attempt'[w] = max + 1
      BY <1>9, <2>5 DEF ReadAttempts, Goto, TypeInv, HandlerOK
    <3> HIDE DEF max
    <3>2. max + 1 \in 1 .. MAX_FIX_ATTEMPTS /\ max + 1 - 1 = max
      BY <2>2, <2>5, FixLoopAssumption DEF AtFixCap
    <3>3. NextAttempt(parent[w], attempt[w])'
      BY <2>1, <2>2, <3>1, <3>2 DEF NextAttempt, Chain
    <3>4. KnownBy(w)'
      BY <1>1, <2>1, <3>1, <3>3 DEF KnownBy, Escalating, Exists
    <3> QED BY <1>1, <2>1, <3>4, Unwritten
  <2> QED BY <2>4, <2>5
<1>10. CASE Reserve(w)
  BY <1>10, RowInserted
<1>11. CASE Activate(w) \/ MarkFailed(w)
  <2>1. PICK y \in RowIds : y = run[w] /\ Exists(y)
    BY <1>1, <1>11, RowIdsFinite DEF Activate, MarkFailed, KnownBy
  <2>2. /\ rows'[y].status # "none"
        /\ rows'[y].parent = rows[y].parent /\ rows'[y].attempt = rows[y].attempt
        /\ \A x \in RowIds \ {y} : rows'[x] = rows[x]
    <3>1. CASE Activate(w)
      BY <2>1, <3>1 DEF Activate, TypeInv, TableOK, RowType
    <3>2. CASE MarkFailed(w)
      BY <2>1, <3>2 DEF MarkFailed, TypeInv, TableOK, RowType
    <3> QED BY <1>11, <3>1, <3>2
  <2>3. KnownRows' /\ Grown
    BY <1>1, <2>1, <2>2, StatusWritten DEF Exists
  <2> QED BY <1>11, <2>3, Returned DEF Activate, MarkFailed
<1>12. CASE MarkParent(w)
  <2>1. /\ pc[w] = "escalate" /\ parent[w] \in RowIds /\ Exists(parent[w])
        /\ Proceed(w, "list_children")
    BY <1>1, <1>12, RowIdsFinite DEF MarkParent, KnownBy, TypeInv, HandlerOK, Informed, Labels
  <2>2. PICK y \in RowIds : y = parent[w]
    BY <2>1
  <2>3. /\ rows'[y].status # "none"
        /\ rows'[y].parent = rows[y].parent /\ rows'[y].attempt = rows[y].attempt
        /\ \A x \in RowIds \ {y} : rows'[x] = rows[x]
    BY <1>12, <2>2 DEF MarkParent, TypeInv, TableOK, RowType
  <2>4. KnownRows' /\ Grown
    BY <1>1, <2>1, <2>2, <2>3, StatusWritten DEF Exists
  <2>5. pc'[w] = "list_children" /\ UNCHANGED <<run, parent, attempt, todo, child>>
    BY <1>5, <2>1
  <2>6. ~HasNumber(w)' /\ Escalating(w)
    BY <2>1, <2>5 DEF HasNumber, Escalating
  <2> QED BY <1>1, <2>1, <2>4, <2>5, <2>6, Moved
<1>13. CASE ListChildren(w)
  <2>1. UNCHANGED <<rows, run, parent, attempt, child>> /\ pc[w] = "list_children"
    BY <1>13 DEF ListChildren, table
  <2>2. pc'[w] = "next_child" /\ \A c \in todo'[w] : c.row \in RowIds /\ Exists(c.row)
    BY <1>13 DEF ListChildren, Goto, find_active_children, Active, ACTIVE_STATUSES, Exists,
       TypeInv, HandlerOK
  <2>3. KnownBy(w)'
    BY <1>1, <2>1, <2>2 DEF KnownBy, HasNumber, Escalating, Exists
  <2> QED BY <1>1, <2>1, <2>3, Unwritten
<1>14. CASE NextChild(w)
  <2>1. UNCHANGED <<rows, run, parent, attempt>> /\ pc[w] = "next_child" /\ pc'[w] = "cancel_child"
    BY <1>14 DEF NextChild, Goto, TypeInv, HandlerOK, table
  <2>2. todo'[w] \subseteq todo[w] /\ \E c \in todo[w] : child'[w] = c.row
    BY <1>14 DEF NextChild, TypeInv, HandlerOK
  <2>3. child'[w] \in RowIds /\ Exists(child'[w])
    BY <1>1, <2>2 DEF KnownBy, TypeInv, HandlerOK
  <2>4. KnownRows' /\ Grown
    BY <1>1, <2>1, Unwritten
  <2>5. ~HasNumber(w)' /\ Escalating(w)
    BY <2>1 DEF HasNumber, Escalating
  <2> QED BY <1>1, <2>1, <2>2, <2>3, <2>4, <2>5, Moved
<1>15. CASE CancelChild(w)
  <2>1. pc[w] = "cancel_child" /\ child[w] \in RowIds /\ Exists(child[w])
    BY <1>1, <1>15 DEF CancelChild, KnownBy
  <2>2. PICK y \in RowIds : y = child[w]
    BY <2>1
  <2>3. /\ rows'[y].status # "none"
        /\ rows'[y].parent = rows[y].parent /\ rows'[y].attempt = rows[y].attempt
        /\ \A x \in RowIds \ {y} : rows'[x] = rows[x]
    BY <1>15, <2>2 DEF CancelChild, TypeInv, TableOK, RowType
  <2>4. KnownRows' /\ Grown
    BY <1>1, <2>1, <2>2, <2>3, StatusWritten DEF Exists
  <2>5. pc'[w] = "next_child" /\ UNCHANGED <<run, parent, attempt, todo>>
    BY <1>15 DEF CancelChild, Goto, TypeInv, HandlerOK
  <2>6. ~HasNumber(w)' /\ Escalating(w)
    BY <2>1, <2>5 DEF HasNumber, Escalating
  <2> QED BY <1>1, <2>1, <2>4, <2>5, <2>6, Moved
<1>16. CASE PostComment(w)
  BY <1>3, <1>16 DEF PostComment, table
<1> QED BY <1>6, <1>7, <1>8, <1>9, <1>10, <1>11, <1>12, <1>13, <1>14, <1>15, <1>16 DEF HandlerStep

\* What is known stays known while the rows grow.
LEMMA HandlersRest ==
    ASSUME TypeInv, ChainInv, KnownRows', Grown, UNCHANGED handler, KnownByPoller'
    PROVE  ChainInv'
<1>1. \A v \in Workers : SameLocals(v)
  BY DEF SameLocals, handler
<1> QED BY <1>1, KnowledgeStays DEF ChainInv

LEMMA PollerChain == TypeInv /\ ChainInv /\ PollerStep => ChainInv'
<1> SUFFICES ASSUME TypeInv, ChainInv, PollerStep PROVE ChainInv'
  OBVIOUS
<1>1. KnownRows /\ KnownByPoller
  BY DEF ChainInv
<1>2. UNCHANGED handler
  BY Concluded DEF PollerStep, ListNonTerminal, PollerTerminates, PollerWrites, TickDone,
     GetSession, GetSessionFails, FindsInactive, FindsNoChange, FindsChange, Visit
<1>3. ASSUME UNCHANGED rows, KnownByPoller' PROVE ChainInv'
  BY <1>1, <1>2, <1>3, Unwritten, HandlersRest
<1>4. CASE ListNonTerminal
  BY <1>3, <1>4 DEF ListNonTerminal, NonTerminal, ACTIVE_STATUSES, Exists, KnownByPoller, table
<1>5. CASE PollerTerminates
  BY <1>1, <1>3, <1>5 DEF PollerTerminates, Exists, KnownByPoller, table
<1>6. CASE PollerWrites
  <2>1. PICK y \in RowIds : y = seen.row /\ Exists(y) /\ seen.verdict \in Statuses
    BY <1>1, <1>6 DEF PollerWrites, KnownByPoller, TypeInv, PollerOK, Conclusions
  <2>2. /\ rows'[y].status # "none"
        /\ rows'[y].parent = rows[y].parent /\ rows'[y].attempt = rows[y].attempt
        /\ \A x \in RowIds \ {y} : rows'[x] = rows[x]
    BY <1>6, <2>1, StatusNames DEF PollerWrites, TypeInv, TableOK, RowType
  <2>3. KnownRows' /\ Grown
    BY <1>1, <2>1, <2>2, StatusWritten DEF Exists
  <2>4. KnownByPoller'
    BY <1>1, <1>6, <2>3
    DEF PollerWrites, KnownByPoller, Grown, Exists, TypeInv, PollerOK, SnapshotType
  <2> QED BY <1>2, <2>3, <2>4, HandlersRest
<1>7. CASE TickDone
  BY <1>1, <1>3, <1>7 DEF TickDone, Exists, KnownByPoller, table
<1>8. ASSUME NEW x \in snapshot, GetSession(x) \/ GetSessionFails(x) PROVE ChainInv'
  <2>1. x \in SnapshotType /\ Exists(x.row)
    BY <1>1 DEF KnownByPoller, TypeInv, PollerOK
  <2>2. snapshot' \subseteq snapshot /\ UNCHANGED rows /\ ppc = "poll"
    BY <1>8, <2>1, Concluded DEF Visit, TypeInv, table
  <2>3. UNCHANGED ppc \/ seen'.row = x.row
    BY <1>8, <2>1, Concluded DEF TypeInv
  <2> QED BY <1>1, <1>3, <2>1, <2>2, <2>3 DEF KnownByPoller, Exists
<1> QED BY <1>4, <1>5, <1>6, <1>7, <1>8 DEF PollerStep

LEMMA ChainNext == TypeInv /\ ChainInv /\ [Next]_vars => ChainInv'
<1> SUFFICES ASSUME TypeInv, ChainInv, [Next]_vars PROVE ChainInv'
  OBVIOUS
<1>1. CASE OutsideStep \/ UNCHANGED vars
  <2>1. UNCHANGED <<rows, handler, poller>>
    BY <1>1 DEF OutsideStep, DevinMoves, DevinListsPR, PrEndsAs, HumanCommits, vars, table
  <2>2. KnownByPoller'
    BY <2>1 DEF ChainInv, KnownByPoller, poller, Exists
  <2> QED BY <2>1, <2>2, Unwritten, HandlersRest DEF ChainInv
<1>2. CASE \E w \in Workers : (\E r \in Runs : Deliver(w, r)) \/ HandlerStep(w)
  BY <1>2, HandlerChain
<1>3. CASE PollerStep
  BY <1>3, PollerChain
<1>4. CASE Interruption
  <2>1. KnownRows' /\ Grown
    BY <1>4, Interrupts, Unwritten DEF ChainInv
  <2>2. ASSUME NEW w \in Workers PROVE KnownBy(w)'
    <3>1. CASE Dropped(w)
      BY <3>1 DEF Dropped, KnownBy, HasNumber, Escalating
    <3>2. CASE SameLocals(w)
      BY <2>1, <3>2, KnowledgeStays DEF ChainInv
    <3> QED BY <1>4, <3>1, <3>2, Interrupts
  <2>3. KnownByPoller'
    BY <1>4, Interrupts DEF ChainInv, KnownByPoller, poller, Exists
  <2> QED BY <2>1, <2>2, <2>3 DEF ChainInv
<1> QED BY <1>1, <1>2, <1>3, <1>4 DEF Next, OutsideStep, Interruption

LEMMA Chained == Spec => [](TypeInv /\ ChainInv)
<1>1. Init => TypeInv /\ ChainInv
  BY TypeInit, ChainInit
<1>2. TypeInv /\ ChainInv /\ [Next]_vars => TypeInv' /\ ChainInv'
  BY TypeNext, ChainNext
<1> QED BY <1>1, <1>2, PTL DEF Spec

\* Attempt n of a chain comes after attempt n - 1 and never above the cap,
\* however handlers, polls and crashes interleave (find_by_pr,
\* max_fix_attempt_for_parent and try_reserve are three separate calls).
THEOREM AttemptsAreAChain == Spec => []AttemptChain
<1>1. ChainInv => AttemptChain
  BY DEF ChainInv, KnownRows, Exists, NextAttempt, AttemptChain
<1> QED BY <1>1, Chained, PTL

\* No number up to the highest is left out.
LEMMA NumbersAreUsed ==
    ASSUME TypeInv, KnownRows, NEW x \in RowIds, rows[x].attempt >= MAX_FIX_ATTEMPTS,
           NEW k \in 1 .. MAX_FIX_ATTEMPTS
    PROVE  \E r \in Runs : rows[r].attempt = k
<1> DEFINE Used(n) == \E r \in Runs : rows[r].attempt = n
           Gaps == {d \in Nat : d < MAX_FIX_ATTEMPTS /\ ~Used(MAX_FIX_ATTEMPTS - d)}
<1> USE FixLoopAssumption
<1>1. \A y \in RowIds : rows[y].attempt \in Nat
  BY DEF TypeInv, TableOK, RowType
<1>2. ASSUME NEW y \in RowIds, rows[y].attempt # 0
      PROVE  y \in Runs /\ Exists(y) /\ rows[y].parent \in RowIds
             /\ NextAttempt(rows[y].parent, rows[y].attempt)
  BY <1>2 DEF KnownRows, RowIds
<1>3. ASSUME Gaps # {} PROVE FALSE
  <2>1. PICK d \in Gaps : \A e \in Gaps : d <= e
    BY <1>3, LeastExists
  <2>2. PICK n \in 1 .. MAX_FIX_ATTEMPTS : n = MAX_FIX_ATTEMPTS - d
    BY <2>1
  <2>3. ~Used(n)
    BY <2>1, <2>2
  <2>4. CASE d = 0
    <3>1. rows[x].attempt # 0 /\ n = MAX_FIX_ATTEMPTS
      BY <1>1, <2>2, <2>4
    <3>2. x \in Runs /\ rows[x].attempt <= MAX_FIX_ATTEMPTS
      BY <1>2, <3>1 DEF NextAttempt
    <3>3. rows[x].attempt = n
      BY <1>1, <3>1, <3>2
    <3> QED BY <2>3, <3>2, <3>3
  <2>5. CASE d # 0
    <3>1. d - 1 \in Nat /\ ~(d <= d - 1) /\ d - 1 < MAX_FIX_ATTEMPTS
          /\ MAX_FIX_ATTEMPTS - (d - 1) = n + 1
      BY <2>1, <2>2, <2>5
    <3>2. d - 1 \notin Gaps
      BY <2>1, <3>1
    <3>3. PICK r \in Runs : rows[r].attempt = n + 1
      BY <3>1, <3>2
    <3>4. NextAttempt(rows[r].parent, n + 1) /\ rows[r].parent \in RowIds
      BY <1>2, <3>3, RowIdsFinite
    <3>5. PICK y \in Chain(rows[r].parent) : rows[y].attempt = n
      BY <2>2, <3>4 DEF NextAttempt
    <3>6. y \in Runs
      BY <1>2, <3>4, <3>5 DEF Chain
    <3> QED BY <2>3, <3>5, <3>6
  <2> QED BY <2>4, <2>5
<1>4. MAX_FIX_ATTEMPTS - k \in Nat /\ MAX_FIX_ATTEMPTS - k < MAX_FIX_ATTEMPTS
      /\ MAX_FIX_ATTEMPTS - (MAX_FIX_ATTEMPTS - k) = k
  OBVIOUS
<1> QED BY <1>3, <1>4

\* The parent is marked, its children are stopped and the comment is posted
\* only once every attempt up to MAX_FIX_ATTEMPTS has had its row, even when
\* handlers read the chain while others add to it.
THEOREM EscalatesLate == Spec => []EscalatesAfterLastAttempt
<1>1. TypeInv /\ ChainInv => EscalatesAfterLastAttempt
  BY NumbersAreUsed DEF ChainInv, KnownBy, EscalatesAfterLastAttempt
<1> QED BY <1>1, Chained, PTL

(***************************************************************************)
(* Shared attempt numbers.  A handler that has taken a number counts with  *)
(* the rows that have it: when it inserts its row it stops counting, and   *)
(* no handler takes a number that a row of the chain has.                  *)
(***************************************************************************)
Trying(p, n) == {w \in Workers : HasNumber(w) /\ parent[w] = p /\ attempt[w] = n}

SharedInv ==
    \A p \in RowIds, n \in 1 .. MAX_FIX_ATTEMPTS :
        Cardinality(Attempts(p, n)) + Cardinality(Trying(p, n)) <= Cardinality(Workers)

\* A step that neither takes a number nor inserts a row.
Quiet ==
    /\ \A r \in Runs : rows'[r].parent = rows[r].parent /\ rows'[r].attempt = rows[r].attempt
    /\ \A v \in Workers : HasNumber(v)' =>
          HasNumber(v) /\ parent'[v] = parent[v] /\ attempt'[v] = attempt[v]

LEMMA Counts ==
    ASSUME NEW p, NEW n
    PROVE  /\ IsFiniteSet(Attempts(p, n)) /\ Cardinality(Attempts(p, n)) \in Nat
           /\ IsFiniteSet(Trying(p, n)) /\ Cardinality(Trying(p, n)) \in Nat
           /\ Cardinality(Trying(p, n)) <= Cardinality(Workers)
           /\ Cardinality(Workers) \in Nat
<1>1. Attempts(p, n) \subseteq Runs /\ Trying(p, n) \subseteq Workers
  BY DEF Attempts, Trying
<1> QED BY <1>1, FixLoopAssumption, FS_Subset, FS_CardinalityType

LEMMA QuietShares == SharedInv /\ Quiet => SharedInv'
<1> SUFFICES ASSUME SharedInv, Quiet, NEW p \in RowIds, NEW n \in 1 .. MAX_FIX_ATTEMPTS
             PROVE  Cardinality(Attempts(p, n))' + Cardinality(Trying(p, n))' <= Cardinality(Workers)
  BY DEF SharedInv
<1>1. Attempts(p, n)' = Attempts(p, n) /\ Trying(p, n)' \subseteq Trying(p, n)
  BY DEF Quiet, Attempts, Trying
<1>2. /\ Cardinality(Trying(p, n)') \in Nat
      /\ Cardinality(Trying(p, n)') <= Cardinality(Trying(p, n))
  BY <1>1, Counts, FS_Subset, FS_CardinalityType
<1> QED BY <1>1, <1>2, Counts DEF SharedInv

LEMMA ReadShares ==
    ASSUME TypeInv, SharedInv, NEW w \in Workers, ReadAttempts(w)
    PROVE  SharedInv'
<1> DEFINE q == parent[w]
           max == max_fix_attempt_for_parent(q)
<1>1. q \in RowIds /\ UNCHANGED <<rows, parent>> /\ pc[w] = "read_attempts"
  BY DEF ReadAttempts, TypeInv, HandlerOK, Informed, Labels, table
<1>2. \A x \in Chain(q) : rows[x].attempt \in Nat /\ rows[x].attempt <= max /\ max \in Nat
  BY <1>1, MaxAttempt DEF TypeInv, TableOK, RowType, Chain
<1>3. max \in Nat
  BY <1>1, MaxAttempt DEF TypeInv
<1>4. \/ pc' = [pc EXCEPT ![w] = "escalate"] /\ attempt' = attempt
      \/ pc' = [pc EXCEPT ![w] = "list_commits"] /\ attempt' = [attempt EXCEPT ![w] = max + 1]
  BY DEF ReadAttempts, Goto
<1> HIDE DEF max
<1>5. ASSUME NEW p \in RowIds, NEW n \in 1 .. MAX_FIX_ATTEMPTS
      PROVE  Cardinality(Attempts(p, n))' + Cardinality(Trying(p, n))' <= Cardinality(Workers)
  <2>1. Attempts(p, n)' = Attempts(p, n)
    BY <1>1 DEF Attempts
  <2>2. CASE p = q /\ n = max + 1
    <3>1. Attempts(p, n) = {}
      <4>1. ASSUME NEW r \in Attempts(p, n) PROVE FALSE
        <5>1. r \in Chain(q) /\ rows[r].attempt = max + 1
          BY <2>2 DEF Attempts, Chain, RowIds
        <5> QED BY <1>2, <1>3, <5>1
      <4> QED BY <4>1
    <3>2. Trying(p, n)' \subseteq Workers
      BY DEF Trying
    <3>3. Cardinality(Trying(p, n)') \in Nat /\ Cardinality(Trying(p, n)') <= Cardinality(Workers)
      BY <3>2, FixLoopAssumption, FS_Subset, FS_CardinalityType
    <3> QED BY <2>1, <3>1, <3>3, Counts, FS_EmptySet
  <2>3. CASE ~(p = q /\ n = max + 1)
    <3>1. Trying(p, n)' \subseteq Trying(p, n)
      BY <1>1, <1>4, <2>3 DEF Trying, HasNumber, TypeInv, HandlerOK
    <3>2. /\ Cardinality(Trying(p, n)') \in Nat
          /\ Cardinality(Trying(p, n)') <= Cardinality(Trying(p, n))
      BY <3>1, Counts, FS_Subset, FS_CardinalityType
    <3> QED BY <2>1, <3>2, Counts DEF SharedInv
  <2> QED BY <2>2, <2>3
<1> QED BY <1>5 DEF SharedInv

LEMMA ReserveShares ==
    ASSUME TypeInv, ChainInv, SharedInv, NEW w \in Workers, Reserve(w)
    PROVE  SharedInv'
<1> DEFINE r == run[w]
<1>1. pc[w] = "reserve" /\ r \in Runs /\ r \in RowIds
  BY RowIdsFinite DEF Reserve, ChainInv, KnownBy
<1>2. CASE Exists(r)
  <2>1. Return(w) /\ UNCHANGED rows
    BY <1>2 DEF Reserve, RunIsFree, Exists
  <2>2. Quiet
    BY <2>1 DEF Quiet, Return, Goto, HasNumber, TypeInv, HandlerOK
  <2> QED BY <2>2, QuietShares
<1>3. CASE ~Exists(r)
  <2>1. PICK t \in Seconds : rows' = [rows EXCEPT ![r] =
            [NoRow EXCEPT !.status = "reserving", !.parent = parent[w],
                          !.attempt = attempt[w], !.started = t]]
    BY <1>3 DEF Reserve, RunIsFree, Exists
  <2>2. /\ rows'[r].parent = parent[w] /\ rows'[r].attempt = attempt[w]
        /\ \A x \in Runs \ {r} : rows'[x] = rows[x]
    BY <1>1, <2>1, RowIdsFinite DEF NoRow, TypeInv, TableOK
  <2>3. pc' = [pc EXCEPT ![w] = "create"] /\ UNCHANGED <<parent, attempt>>
    BY <1>3 DEF Reserve, RunIsFree, Proceed, Goto, Exists
  <2>4. rows[r].parent = None /\ None \notin RowIds
    BY <1>1, <1>3, RowIdsFinite DEF ChainInv, KnownRows
  <2>5. ASSUME NEW p \in RowIds, NEW n \in 1 .. MAX_FIX_ATTEMPTS
        PROVE  Cardinality(Attempts(p, n))' + Cardinality(Trying(p, n))' <= Cardinality(Workers)
    <3>1. CASE p = parent[w] /\ n = attempt[w]
      <4>1. Attempts(p, n)' = Attempts(p, n) \cup {r} /\ r \notin Attempts(p, n)
        BY <1>1, <2>2, <2>4, <3>1 DEF Attempts
      <4>2. Trying(p, n)' = Trying(p, n) \ {w} /\ w \in Trying(p, n)
        BY <1>1, <2>3, <3>1 DEF Trying, HasNumber, TypeInv, HandlerOK
      <4>3. Cardinality(Attempts(p, n)') = Cardinality(Attempts(p, n)) + 1
        BY <4>1, Counts, FS_AddElement
      <4>4. Cardinality(Trying(p, n)') = Cardinality(Trying(p, n)) - 1
        BY <4>2, Counts, FS_RemoveElement
      <4> QED BY <4>3, <4>4, Counts DEF SharedInv
    <3>2. CASE ~(p = parent[w] /\ n = attempt[w])
      <4>1. Attempts(p, n)' = Attempts(p, n)
        BY <2>2, <2>4, <3>2 DEF Attempts
      <4>2. Trying(p, n)' \subseteq Trying(p, n)
        BY <2>3 DEF Trying, HasNumber, TypeInv, HandlerOK
      <4>3. /\ Cardinality(Trying(p, n)') \in Nat
            /\ Cardinality(Trying(p, n)') <= Cardinality(Trying(p, n))
        BY <4>2, Counts, FS_Subset, FS_CardinalityType
      <4> QED BY <4>1, <4>3, Counts DEF SharedInv
    <3> QED BY <3>1, <3>2
  <2> QED BY <2>5 DEF SharedInv
<1> QED BY <1>2, <1>3

LEMMA HandlerQuiet ==
    ASSUME TypeInv, NEW w \in Workers, (\E r \in Runs : Deliver(w, r)) \/ HandlerStep(w),
           ~ReadAttempts(w), ~Reserve(w)
    PROVE  Quiet
<1>1. SUFFICES /\ \A r \in Runs : /\ rows'[r].parent = rows[r].parent
                                  /\ rows'[r].attempt = rows[r].attempt
               /\ HasNumber(w)' =>
                     HasNumber(w) /\ parent'[w] = parent[w] /\ attempt'[w] = attempt[w]
  BY OthersStay DEF Quiet, SameLocals, HasNumber
<1>2. \A r \in Runs : rows'[r].parent = rows[r].parent /\ rows'[r].attempt = rows[r].attempt
  <2>1. CASE Activate(w) \/ MarkFailed(w) \/ MarkParent(w) \/ CancelChild(w)
    <3>1. PICK y, v : \/ rows' = [rows EXCEPT ![y].status = v]
                      \/ rows' = [rows EXCEPT ![y].status = v, ![y].tracked = TRUE]
      BY <2>1 DEF Activate, MarkFailed, MarkParent, CancelChild
    <3> QED BY <3>1 DEF TypeInv, TableOK, RowType, RowIds
  <2>2. CASE UNCHANGED rows
    BY <2>2
  <2> QED BY <1>1, <2>1, <2>2 DEF HandlerStep, Deliver, FetchPR, FindParent, ListCommits,
          CountActive, Create, ListChildren, NextChild, PostComment, table
<1>3. HasNumber(w)' => HasNumber(w) /\ parent'[w] = parent[w] /\ attempt'[w] = attempt[w]
  <2> USE DEF TypeInv, HandlerOK, HasNumber
  <2>1. Return(w) => ~HasNumber(w)'
    BY DEF Return, Goto
  <2>2. \A label : Proceed(w, label) => pc'[w] = label /\ UNCHANGED <<parent, attempt>>
    BY DEF Proceed, Goto
  <2>3. CASE \E r \in Runs : Deliver(w, r)
    BY <2>3 DEF Deliver, Goto
  <2>4. CASE FetchPR(w) \/ Create(w) \/ Activate(w) \/ MarkFailed(w) \/ MarkParent(w)
             \/ PostComment(w)
    BY <2>1, <2>2, <2>4
    DEF FetchPR, Create, Activate, MarkFailed, MarkParent, PostComment
  <2>5. CASE ListCommits(w) \/ CountActive(w)
    BY <2>1, <2>2, <2>5 DEF ListCommits, CountActive
  <2>6. CASE FindParent(w)
    BY <2>1, <2>6 DEF FindParent, Goto
  <2>7. CASE ListChildren(w) \/ NextChild(w) \/ CancelChild(w)
    BY <2>7 DEF ListChildren, NextChild, CancelChild, Goto
  <2> QED BY <2>3, <2>4, <2>5, <2>6, <2>7 DEF HandlerStep
<1> QED BY <1>2, <1>3

LEMMA SharedNext == TypeInv /\ ChainInv /\ SharedInv /\ [Next]_vars => SharedInv'
<1> SUFFICES ASSUME TypeInv, ChainInv, SharedInv, [Next]_vars PROVE SharedInv'
  OBVIOUS
<1>1. CASE OutsideStep \/ UNCHANGED vars
  <2>1. UNCHANGED <<rows, handler>>
    BY <1>1 DEF OutsideStep, DevinMoves, DevinListsPR, PrEndsAs, HumanCommits, vars, table
  <2> QED BY <2>1, QuietShares DEF Quiet, HasNumber, handler
<1>2. CASE \E w \in Workers : (\E r \in Runs : Deliver(w, r)) \/ HandlerStep(w)
  BY <1>2, HandlerQuiet, QuietShares, ReadShares, ReserveShares
<1>3. CASE PollerStep
  <2>1. UNCHANGED handler
    BY <1>3, Concluded DEF PollerStep, ListNonTerminal, PollerTerminates, PollerWrites, TickDone,
       GetSession, GetSessionFails, FindsInactive, FindsNoChange, FindsChange, Visit
  <2>2. UNCHANGED rows \/ PollerWrites
    BY <1>3, Concluded DEF PollerStep, ListNonTerminal, PollerTerminates, TickDone,
       GetSession, GetSessionFails, Visit, table, TypeInv, PollerOK
  <2>3. \A r \in Runs : rows'[r].parent = rows[r].parent /\ rows'[r].attempt = rows[r].attempt
    BY <2>2, RowIdsFinite DEF PollerWrites, TypeInv, TableOK, RowType
  <2>4. Quiet
    BY <2>1, <2>3 DEF Quiet, HasNumber, handler
  <2> QED BY <2>4, QuietShares
<1>4. CASE Interruption
  BY <1>4, Interrupts, QuietShares DEF Quiet, HasNumber, SameLocals, Dropped
<1> QED BY <1>1, <1>2, <1>3, <1>4 DEF Next, OutsideStep, Interruption

LEMMA SharedInit == Init => SharedInv
<1> SUFFICES ASSUME Init, NEW p \in RowIds, NEW n \in 1 .. MAX_FIX_ATTEMPTS
             PROVE  Cardinality(Attempts(p, n)) + Cardinality(Trying(p, n)) <= Cardinality(Workers)
  BY DEF SharedInv
<1>1. Attempts(p, n) = {} /\ Trying(p, n) = {}
  BY RowIdsFinite DEF Init, Attempts, Trying, HasNumber, NoRow, RowIds
<1> QED BY <1>1, Counts, FS_EmptySet

\* Handlers that overlap between max_fix_attempt_for_parent and try_reserve
\* may use one attempt number more than once, but never more often than
\* there are threads in the pool.
THEOREM SharingIsBounded == Spec => []AttemptsShared
<1>1. Init => TypeInv /\ ChainInv /\ SharedInv
  BY TypeInit, ChainInit, SharedInit
<1>2. TypeInv /\ ChainInv /\ SharedInv /\ [Next]_vars => TypeInv' /\ ChainInv' /\ SharedInv'
  BY TypeNext, ChainNext, SharedNext
<1>3. SharedInv => AttemptsShared
  BY Counts DEF SharedInv, AttemptsShared
<1> QED BY <1>1, <1>2, <1>3, PTL DEF Spec

(***************************************************************************)
(* Hands off.  A run whose handler has listed the commits is known to      *)
(* whoever pushes later.                                                   *)
(***************************************************************************)
Committed == {"count_active", "reserve", "create", "activate", "mark_failed"}

HandsInv ==
    has_non_devin_commits =>
        /\ \A r \in Runs : devin[r] # "none" => r \in human[2]
        /\ \A w \in Workers : pc[w] \in Committed => run[w] \in human[2]

LEMMA HandlerHands ==
    ASSUME TypeInv, ChainInv, HandsInv, NEW w \in Workers,
           (\E r \in Runs : Deliver(w, r)) \/ HandlerStep(w)
    PROVE  HandsInv'
<1> USE DEF TypeInv, HandlerOK, OutsideOK
<1> SUFFICES ASSUME has_non_devin_commits' PROVE HandsInv'
  BY DEF HandsInv
<1> USE DEF has_non_devin_commits
<1>1. UNCHANGED human
  BY DEF Deliver, HandlerStep, FetchPR, FindParent, ReadAttempts, ListCommits, CountActive,
     Reserve, Create, Activate, MarkFailed, MarkParent, ListChildren, NextChild, CancelChild,
     PostComment, outside
<1>2. \A v \in Workers \ {w} : pc'[v] = pc[v] /\ run'[v] = run[v]
  BY OthersStay DEF SameLocals
<1>3. pc'[w] \in Committed => pc[w] \in Committed /\ run'[w] = run[w]
  <2>1. Return(w) => pc'[w] \notin Committed
    BY DEF Return, Goto, Committed
  <2>2. \A label : Proceed(w, label) => pc'[w] = label /\ UNCHANGED run
    BY DEF Proceed, Goto
  <2>3. CASE \E r \in Runs : Deliver(w, r)
    BY <2>3 DEF Deliver, Goto, Committed
  <2>4. CASE FetchPR(w) \/ Activate(w) \/ MarkFailed(w) \/ MarkParent(w) \/ PostComment(w)
    BY <2>1, <2>2, <2>4 DEF FetchPR, Activate, MarkFailed, MarkParent, PostComment, Committed
  <2>5. CASE CountActive(w) \/ Reserve(w) \/ Create(w)
    BY <2>1, <2>2, <2>5 DEF CountActive, Reserve, Create, Committed
  <2>6. CASE ListCommits(w)
    BY <1>1, <2>1, <2>6 DEF ListCommits
  <2>7. CASE FindParent(w)
    BY <2>1, <2>7 DEF FindParent, Goto, Committed
  <2>8. CASE ReadAttempts(w) \/ ListChildren(w) \/ NextChild(w) \/ CancelChild(w)
    BY <2>8 DEF ReadAttempts, ListChildren, NextChild, CancelChild, Goto, Committed
  <2> QED BY <2>3, <2>4, <2>5, <2>6, <2>7, <2>8 DEF HandlerStep
<1>4. \A r \in Runs : devin'[r] # "none" => devin[r] # "none" \/ r \in human[2]
  <2>1. CASE Create(w)
    <3>1. pc[w] \in Committed
      BY <2>1 DEF Create, Committed
    <3> QED BY <1>1, <2>1, <3>1, RowIdsFinite DEF Create, HandsInv
  <2>2. CASE NextChild(w)
    <3>1. UNCHANGED devin \/ \E y : Terminate(y)
      BY <2>2 DEF NextChild
    <3> QED BY <3>1, RowIdsFinite DEF Terminate, Alive
  <2>3. CASE UNCHANGED devin
    BY <2>3
  <2> QED BY <2>1, <2>2, <2>3 DEF Deliver, HandlerStep, FetchPR, FindParent, ReadAttempts,
          ListCommits, CountActive, Reserve, Activate, MarkFailed, MarkParent, ListChildren,
          CancelChild, PostComment, outside
<1> QED BY <1>1, <1>2, <1>3, <1>4 DEF HandsInv

LEMMA HandsNext == TypeInv /\ ChainInv /\ HandsInv /\ [Next]_vars => HandsInv'
<1> SUFFICES ASSUME TypeInv, ChainInv, HandsInv, [Next]_vars PROVE HandsInv'
  OBVIOUS
<1>1. ASSUME UNCHANGED human,
             \A r \in Runs : devin'[r] # "none" => devin[r] # "none",
             \A w \in Workers : pc'[w] \in Committed => pc[w] = pc'[w] /\ run'[w] = run[w]
      PROVE  HandsInv'
  BY <1>1 DEF HandsInv, has_non_devin_commits
<1>2. CASE HumanCommits
  <2> DEFINE taken == {r \in Runs : devin[r] # "none" \/ \E w \in Workers : run[w] = r}
  <2>1. human' = <<TRUE, taken>> \/ human' = <<FALSE, {}>>
    BY <1>2 DEF HumanCommits
  <2>2. UNCHANGED <<devin, handler>>
    BY <1>2 DEF HumanCommits
  <2>3. \A w \in Workers : pc[w] \in Committed => run[w] \in Runs
    BY DEF ChainInv, KnownBy, Committed
  <2> HIDE DEF taken
  <2>4. CASE human' = <<FALSE, {}>>
    BY <2>4 DEF HandsInv, has_non_devin_commits
  <2>5. CASE human' = <<TRUE, taken>>
    <3>1. human'[2] = taken
      BY <2>5
    <3> QED BY <3>1, <2>2, <2>3 DEF HandsInv, handler, taken
  <2> QED BY <2>1, <2>4, <2>5
<1>3. CASE \E x \in RowIds : DevinMoves(x) \/ DevinListsPR(x)
  <2>1. UNCHANGED <<human, handler>>
    BY <1>3 DEF DevinMoves, DevinListsPR
  <2>2. \A r \in Runs : devin'[r] # "none" => devin[r] # "none"
    BY <1>3, RowIdsFinite DEF DevinMoves, DevinListsPR, Alive, TypeInv, OutsideOK
  <2> QED BY <1>1, <2>1, <2>2 DEF handler
<1>4. CASE (\E end \in PrEnds : PrEndsAs(end)) \/ UNCHANGED vars
  BY <1>1, <1>4 DEF PrEndsAs, vars, outside, handler
<1>5. CASE \E w \in Workers : (\E r \in Runs : Deliver(w, r)) \/ HandlerStep(w)
  BY <1>5, HandlerHands
<1>6. CASE PollerStep
  <2>1. UNCHANGED <<human, handler>>
    BY <1>6, Concluded DEF PollerStep, ListNonTerminal, PollerTerminates, PollerWrites, TickDone,
       GetSession, GetSessionFails, FindsInactive, FindsNoChange, FindsChange, Visit, outside
  <2>2. UNCHANGED devin \/ \E y : Terminate(y)
    BY <1>6, Concluded DEF PollerStep, ListNonTerminal, PollerTerminates, PollerWrites, TickDone,
       GetSession, GetSessionFails, FindsInactive, FindsNoChange, FindsChange, Visit, outside
  <2>3. \A r \in Runs : devin'[r] # "none" => devin[r] # "none"
    BY <2>2, RowIdsFinite DEF Terminate, Alive, TypeInv, OutsideOK
  <2> QED BY <1>1, <2>1, <2>3 DEF handler
<1>7. CASE Interruption
  BY <1>1, <1>7, Interrupts DEF Committed, outside, SameLocals, Dropped
<1> QED BY <1>2, <1>3, <1>4, <1>5, <1>6, <1>7 DEF Next, Interruption

\* has_non_devin_commits and create_session are two calls, and the process
\* may die between them: even so no fix-session is created after a human has
\* pushed, except for a run whose handler had started before.  This is about
\* pushes that the commits show to be a human's: one without a linked login,
\* or beyond the first page, is none to has_non_devin_commits.
THEOREM NoFightWithHumans == Spec => []HandsOff
<1>1. Init => TypeInv /\ ChainInv /\ HandsInv
  BY TypeInit, ChainInit DEF Init, HandsInv, has_non_devin_commits
<1>2. TypeInv /\ ChainInv /\ HandsInv /\ [Next]_vars => TypeInv' /\ ChainInv' /\ HandsInv'
  BY TypeNext, ChainNext, HandsNext
<1>3. HandsInv => HandsOff
  BY DEF HandsInv, HandsOff, has_non_devin_commits
<1> QED BY <1>1, <1>2, <1>3, PTL DEF Spec

(***************************************************************************)
(* Lifetime counts.  No step takes away a row or its pull request.         *)
(***************************************************************************)
LEMMA RowsAreKept ==
    ASSUME TypeInv, ChainInv, [Next]_vars, NEW x \in RowIds, Exists(x)
    PROVE  Exists(x)' /\ (rows[x].pr => rows'[x].pr)
<1> USE DEF Exists, TypeInv, TableOK, RowType
<1>1. ASSUME NEW w \in Workers, HandlerStep(w) PROVE Exists(x)' /\ (rows[x].pr => rows'[x].pr)
  <2>1. CASE Reserve(w)
    BY <2>1 DEF Reserve, RunIsFree
  <2>2. CASE Activate(w)
    BY <2>2 DEF Activate
  <2>3. CASE MarkFailed(w)
    BY <2>3 DEF MarkFailed
  <2>4. CASE MarkParent(w) \/ CancelChild(w)
    BY <2>4 DEF MarkParent, CancelChild
  <2>5. CASE UNCHANGED rows
    BY <2>5
  <2> QED BY <1>1, <2>1, <2>2, <2>3, <2>4, <2>5 DEF HandlerStep, FetchPR, FindParent,
          ReadAttempts, ListCommits, CountActive, Create, ListChildren, NextChild, PostComment,
          table
<1>2. CASE PollerStep
  <2>1. CASE PollerWrites
    BY <2>1, StatusNames DEF PollerWrites, KeptPR, PollerOK, Conclusions
  <2>2. CASE ~PollerWrites
    BY <1>2, <2>2, Concluded DEF PollerStep, ListNonTerminal, PollerTerminates, TickDone,
       GetSession, GetSessionFails, Visit, table, PollerOK
  <2> QED BY <2>1, <2>2
<1>3. CASE OutsideStep \/ UNCHANGED vars \/ \E w \in Workers, r \in Runs : Deliver(w, r)
  BY <1>3 DEF OutsideStep, DevinMoves, DevinListsPR, PrEndsAs, HumanCommits, Deliver, vars, table
<1>4. CASE Interruption
  BY <1>4, Interrupts
<1> QED BY <1>1, <1>2, <1>3, <1>4 DEF Next, OutsideStep, Interruption

\* The rows /metrics looks at: all of them, or as many as the limit says.
LEMMA WindowCount ==
    ASSUME NEW S, IsFiniteSet(S), NEW W \in SUBSET S, Cardinality(W) <= METRICS_LIMIT,
           W = S \/ Cardinality(W) = METRICS_LIMIT
    PROVE  /\ IsFiniteSet(W) /\ Cardinality(W) \in Nat /\ Cardinality(S) \in Nat
           /\ Cardinality(W) <= Cardinality(S)
           /\ Cardinality(S) <= METRICS_LIMIT => W = S
<1>1. /\ IsFiniteSet(W) /\ Cardinality(W) \in Nat /\ Cardinality(S) \in Nat
      /\ Cardinality(W) <= Cardinality(S)
      /\ Cardinality(W) = Cardinality(S) => W = S
  BY FS_Subset, FS_CardinalityType
<1> QED BY <1>1, FixLoopAssumption

\* No poll, escalation, timeout, exception or crash lets total_sessions of
\* /metrics fall, or its pr_created as long as list_recent returns the whole
\* table.
THEOREM CountsNeverFall == Spec => LifetimeCountsGrow
<1>1. ASSUME TypeInv, ChainInv, [Next]_vars, NEW before \in metrics, NEW after \in metrics'
      PROVE  /\ after.total_sessions >= before.total_sessions
             /\ Cardinality(Stored') <= METRICS_LIMIT => after.pr_created >= before.pr_created
  <2>1. PICK V \in list_recent(METRICS_LIMIT) :
            before = compute_dashboard_metrics([x \in V |-> rows[x]])
    BY <1>1 DEF metrics
  <2>2. PICK W \in list_recent(METRICS_LIMIT)' :
            after = compute_dashboard_metrics([x \in W |-> rows'[x]])
    BY <1>1 DEF metrics
  <2> DEFINE VPR == {x \in V : rows[x].pr}
             WPR == {x \in W : rows'[x].pr}
  <2>3. /\ before.total_sessions = Cardinality(V) /\ before.pr_created = Cardinality(VPR)
        /\ after.total_sessions = Cardinality(W) /\ after.pr_created = Cardinality(WPR)
    <3>1. /\ before.total_sessions = Cardinality(V)
          /\ before.pr_created = Cardinality({y \in V : [x \in V |-> rows[x]][y].pr})
      BY <2>1 DEF compute_dashboard_metrics
    <3>2. {y \in V : [x \in V |-> rows[x]][y].pr} = VPR
      OBVIOUS
    <3>3. /\ after.total_sessions = Cardinality(W)
          /\ after.pr_created = Cardinality({y \in W : [x \in W |-> rows'[x]][y].pr})
      BY <2>2 DEF compute_dashboard_metrics
    <3>4. {y \in W : [x \in W |-> rows'[x]][y].pr} = WPR
      OBVIOUS
    <3> QED BY <3>1, <3>2, <3>3, <3>4
  <2>4. Stored \subseteq Stored' /\ \A x \in Stored : rows[x].pr => rows'[x].pr
    BY <1>1, RowsAreKept DEF Stored, Exists
  <2>5. Stored \subseteq RowIds /\ Stored' \subseteq RowIds
    BY DEF Stored
  <2>6. IsFiniteSet(Stored) /\ IsFiniteSet(Stored') /\ Cardinality(Stored) <= Cardinality(Stored')
    BY <2>4, <2>5, RowIdsFinite, FS_Subset
  <2>7. /\ V \in SUBSET Stored /\ Cardinality(V) <= METRICS_LIMIT
        /\ V = Stored \/ Cardinality(V) = METRICS_LIMIT
    BY <2>1 DEF list_recent
  <2>8. /\ W \in SUBSET Stored' /\ Cardinality(W) <= METRICS_LIMIT
        /\ W = Stored' \/ Cardinality(W) = METRICS_LIMIT
    BY <2>2 DEF list_recent
  <2>9. /\ IsFiniteSet(V) /\ Cardinality(V) \in Nat /\ Cardinality(Stored) \in Nat
        /\ Cardinality(V) <= Cardinality(Stored)
        /\ Cardinality(Stored) <= METRICS_LIMIT => V = Stored
    BY <2>6, <2>7, WindowCount
  <2>10. /\ IsFiniteSet(W) /\ Cardinality(W) \in Nat /\ Cardinality(Stored') \in Nat
         /\ Cardinality(W) <= Cardinality(Stored')
         /\ Cardinality(Stored') <= METRICS_LIMIT => W = Stored'
    BY <2>6, <2>8, WindowCount
  <2>11. Cardinality(W) >= Cardinality(V)
    BY <2>6, <2>7, <2>8, <2>9, <2>10, FixLoopAssumption
  <2>12. ASSUME Cardinality(Stored') <= METRICS_LIMIT PROVE Cardinality(WPR) >= Cardinality(VPR)
    <3>1. VPR \subseteq WPR
      BY <2>4, <2>6, <2>7, <2>9, <2>10, <2>12, FixLoopAssumption
    <3>2. IsFiniteSet(WPR)
      BY <2>10, FS_Subset
    <3> QED BY <3>1, <3>2, FS_Subset, FS_CardinalityType
  <2> QED BY <2>3, <2>11, <2>12
<1>2. TypeInv /\ ChainInv /\ [Next]_vars =>
        [\A before \in metrics, after \in metrics' :
            /\ after.total_sessions >= before.total_sessions
            /\ Cardinality(Stored') <= METRICS_LIMIT
                  => after.pr_created >= before.pr_created]_rows
  BY <1>1
<1> QED BY <1>2, Chained, PTL DEF Spec, LifetimeCountsGrow

(***************************************************************************)
(* One fix-session per run.  A handler between try_reserve and the update  *)
(* that settles its row is alone with it, because the row did not exist    *)
(* when it was inserted; and a run without a row has no session.           *)
(***************************************************************************)
Holding(w) == pc[w] \in {"create", "activate", "mark_failed"}

OnceInv ==
    /\ \A r \in Runs : rows[r].status = "none" => devin[r] = "none"
    /\ \A v, w \in Workers : Holding(v) /\ Holding(w) /\ run[v] = run[w] => v = w
    /\ \A w \in Workers : pc[w] = "create" => devin[run[w]] = "none"

LEMMA OnceInit == Init => OnceInv
BY RowIdsFinite DEF Init, OnceInv, Holding, NoRow

\* No session comes back, and none appears but by create_session.
LEMMA NoSessionAppears ==
    ASSUME TypeInv, [Next]_vars, NEW x \in RowIds, devin[x] = "none"
    PROVE  devin'[x] = "none" \/ \E w \in Workers : Create(w) /\ run[w] = x
<1> USE DEF TypeInv, OutsideOK
<1>1. \A y : Terminate(y) => devin'[x] = "none"
  BY DEF Terminate, Alive
<1>2. CASE \E w \in Workers : HandlerStep(w)
  <2>1. PICK w \in Workers : HandlerStep(w)
    BY <1>2
  <2>2. NextChild(w) => UNCHANGED devin \/ \E y : Terminate(y)
    BY DEF NextChild
  <2>3. Create(w) => devin'[x] = devin[x] \/ run[w] = x
    BY DEF Create
  <2> QED BY <1>1, <2>1, <2>2, <2>3 DEF HandlerStep, FetchPR, FindParent, ReadAttempts,
          ListCommits, CountActive, Reserve, Activate, MarkFailed, MarkParent, ListChildren,
          CancelChild, PostComment, outside
<1>3. CASE PollerStep
  <2>1. UNCHANGED devin \/ \E y : Terminate(y)
    BY <1>3, Concluded DEF PollerStep, ListNonTerminal, PollerTerminates, PollerWrites, TickDone,
       GetSession, GetSessionFails, FindsInactive, FindsNoChange, FindsChange, Visit, outside
  <2> QED BY <1>1, <2>1
<1>4. CASE OutsideStep
  <2>1. UNCHANGED devin \/ \E y \in RowIds : DevinMoves(y)
    BY <1>4 DEF OutsideStep, DevinListsPR, PrEndsAs, HumanCommits
  <2>2. \A y \in RowIds : DevinMoves(y) => devin'[x] = devin[x]
    BY DEF DevinMoves, Alive
  <2> QED BY <2>1, <2>2
<1>5. CASE UNCHANGED vars \/ \E w \in Workers, r \in Runs : Deliver(w, r)
  BY <1>5 DEF vars, outside, Deliver
<1>6. CASE Interruption
  BY <1>6, Interrupts DEF outside
<1> QED BY <1>2, <1>3, <1>4, <1>5, <1>6 DEF Next, OutsideStep, Interruption

\* A handler comes to hold a row by inserting it, and keeps to it.
LEMMA HoldersMove ==
    ASSUME TypeInv, [Next]_vars, NEW v \in Workers, Holding(v)'
    PROVE  /\ run'[v] = run[v]
           /\ \/ Holding(v)
              \/ Reserve(v) /\ rows[run[v]].status = "none"
           /\ pc'[v] = "create" => Reserve(v) \/ (pc[v] = "create" /\ SameLocals(v))
<1> USE DEF TypeInv, HandlerOK, Holding
<1>1. CASE SameLocals(v)
  BY <1>1 DEF SameLocals
<1>2. CASE HandlerStep(v)
  <2>1. ~Return(v)
    BY DEF Return, Goto
  <2>2. CASE Reserve(v)
    BY <2>1, <2>2 DEF Reserve, RunIsFree, Proceed
  <2>3. CASE Create(v)
    BY <2>3 DEF Create, Proceed, Goto
  <2> QED BY <1>2, <2>1, <2>2, <2>3 DEF HandlerStep, FetchPR, FindParent, ReadAttempts,
          ListCommits, CountActive, Activate, MarkFailed, MarkParent, ListChildren,
          NextChild, CancelChild, PostComment, Proceed, Goto
<1>3. CASE \E r \in Runs : Deliver(v, r)
  BY <1>3 DEF Deliver, Goto
<1>4. ASSUME NEW w \in Workers, w # v, (\E r \in Runs : Deliver(w, r)) \/ HandlerStep(w)
      PROVE  SameLocals(v)
  BY <1>4, OthersStay
<1>5. Interruption => SameLocals(v)
  BY Interrupts DEF Dropped
<1>6. PollerStep => SameLocals(v)
  BY Concluded DEF PollerStep, ListNonTerminal, PollerTerminates, PollerWrites, TickDone,
     GetSession, GetSessionFails, FindsInactive, FindsNoChange, FindsChange, Visit,
     SameLocals, handler
<1>7. OutsideStep \/ UNCHANGED vars => SameLocals(v)
  BY DEF OutsideStep, DevinMoves, DevinListsPR, PrEndsAs, HumanCommits, vars, SameLocals, handler
<1> QED BY <1>1, <1>2, <1>3, <1>4, <1>5, <1>6, <1>7 DEF Next, OutsideStep, Interruption

LEMMA OnceNext == TypeInv /\ ChainInv /\ OnceInv /\ [Next]_vars => OnceInv'
<1> SUFFICES ASSUME TypeInv, ChainInv, OnceInv, [Next]_vars PROVE OnceInv'
  OBVIOUS
<1>1. \A w \in Workers : Holding(w) => run[w] \in Runs /\ run[w] \in RowIds /\ Exists(run[w])
  BY RowIdsFinite DEF ChainInv, KnownBy, Holding
<1>2. ASSUME NEW r \in Runs, rows'[r].status = "none" PROVE devin'[r] = "none"
  <2>1. r \in RowIds /\ ~Exists(r) /\ devin[r] = "none"
    BY <1>2, RowIdsFinite, RowsAreKept DEF Exists, OnceInv
  <2>2. ASSUME NEW w \in Workers, Create(w), run[w] = r PROVE FALSE
    BY <1>1, <2>1, <2>2 DEF Create, Holding
  <2> QED BY <2>1, <2>2, NoSessionAppears
<1>3. ASSUME NEW v \in Workers, NEW w \in Workers, Holding(v)', Holding(w)', run'[v] = run'[w]
      PROVE  v = w
  <2>1. run[v] = run[w]
    BY <1>3, HoldersMove
  <2>2. CASE Holding(v) /\ Holding(w)
    BY <2>1, <2>2 DEF OnceInv
  <2>3. CASE ~Holding(v) \/ ~Holding(w)
    <3>1. ~Holding(v) /\ ~Holding(w)
      BY <1>1, <1>3, <2>1, <2>3, HoldersMove DEF Exists
    <3>2. Reserve(v) /\ Reserve(w)
      BY <1>3, <3>1, HoldersMove
    <3>3. v # w => SameLocals(w)
      BY <3>2, OthersStay DEF HandlerStep
    <3> QED BY <1>3, <3>1, <3>3 DEF Holding, SameLocals
  <2> QED BY <2>2, <2>3
<1>4. ASSUME NEW w \in Workers, pc'[w] = "create" PROVE devin'[run'[w]] = "none"
  <2>1. Holding(w)'
    BY <1>4 DEF Holding
  <2>2. run'[w] = run[w] /\ run[w] \in RowIds /\ devin[run[w]] = "none"
    <3>1. CASE Holding(w)
      <4>1. pc[w] = "create"
        BY <1>4, <2>1, <3>1, HoldersMove DEF Reserve, Holding
      <4> QED BY <1>1, <2>1, <3>1, <4>1, HoldersMove DEF OnceInv
    <3>2. CASE ~Holding(w)
      <4>1. Reserve(w) /\ rows[run[w]].status = "none"
        BY <2>1, <3>2, HoldersMove
      <4>2. run[w] \in Runs
        BY <4>1 DEF Reserve, ChainInv, KnownBy
      <4> QED BY <2>1, <4>1, <4>2, RowIdsFinite, HoldersMove DEF OnceInv
    <3> QED BY <3>1, <3>2
  <2>3. ASSUME NEW v \in Workers, Create(v), run[v] = run[w] PROVE FALSE
    <3>1. Holding(v) /\ Exists(run[w])
      BY <1>1, <2>3 DEF Create, Holding
    <3>2. Holding(w)
      BY <2>1, <3>1, HoldersMove DEF Exists
    <3>3. v = w
      BY <2>3, <3>1, <3>2 DEF OnceInv
    <3>4. pc'[v] # "create"
      BY <2>3 DEF Create, Proceed, Goto, TypeInv, HandlerOK
    <3> QED BY <1>4, <3>3, <3>4
  <2> QED BY <2>2, <2>3, NoSessionAppears
<1> QED BY <1>2, <1>3, <1>4 DEF OnceInv

\* The UNIQUE work_key of ci_fix:repo:run makes redeliveries, replays and
\* overlapping handlers create one session for a failed run, and a crash in
\* the middle none twice.
THEOREM OneFixPerRun == Spec => []FixedOnce
<1>1. Init => TypeInv /\ ChainInv /\ OnceInv
  BY TypeInit, ChainInit, OnceInit
<1>2. TypeInv /\ ChainInv /\ OnceInv /\ [Next]_vars => TypeInv' /\ ChainInv' /\ OnceInv'
  BY TypeNext, ChainNext, OnceNext
<1>3. OnceInv => FixedOnce
  BY DEF OnceInv, FixedOnce, Holding
<1> QED BY <1>1, <1>2, <1>3, PTL DEF Spec
====
