---------------------------- MODULE StageProofs ----------------------------
(***************************************************************************)
(* The stage the dashboard shows for the session that opened the pull      *)
(* request: who may write its row, and what a write may make of it.        *)
(***************************************************************************)
EXTENDS FixLoopProofs

(***************************************************************************)
(* Escalations cancel children only, never the session itself; and the     *)
(* poller visits a row once a tick, on a copy taken while it was active:   *)
(* nothing but the poller's own write ends it before that.                 *)
(***************************************************************************)
NotAChild ==
    /\ rows[Parent].parent = None
    /\ \A w \in Workers : child[w] # Parent /\ \A c \in todo[w] : c.row # Parent

VisitedOnce ==
    /\ \A s, t \in snapshot : s.row = t.row => s = t
    /\ ppc \in {"terminate", "write"} => \A s \in snapshot : s.row # seen.row

PolledWhileActive ==
    (\/ \E s \in snapshot : s.row = Parent
     \/ ppc \in {"terminate", "write"} /\ seen.row = Parent) => Active(Parent)

StageInv == NotAChild /\ VisitedOnce /\ PolledWhileActive

\* A step leaves the row of the session, asks for a human, or is the write of
\* a poll that the row waited for.
ParentMoves ==
    \/ rows'[Parent] = rows[Parent]
    \/ rows'[Parent] = [rows[Parent] EXCEPT !.status = "needs_attention"]
    \/ Active(Parent)

LEMMA StageInit == Init => StageInv
<1> SUFFICES ASSUME Init PROVE StageInv
  OBVIOUS
<1>1. NotAChild
  BY RowIdsFinite DEF Init, NotAChild, NoRow
<1>2. ppc = "idle" /\ snapshot = {}
  BY DEF Init
<1> QED BY <1>1, <1>2 DEF StageInv, VisitedOnce, PolledWhileActive

\* What handlers may do to the row of the session.
LEMMA HandlerSparesParent ==
    ASSUME TypeInv, ChainInv, NotAChild, NEW w \in Workers,
           (\E r \in Runs : Deliver(w, r)) \/ HandlerStep(w)
    PROVE  \/ rows'[Parent] = rows[Parent]
           \/ rows'[Parent] = [rows[Parent] EXCEPT !.status = "needs_attention"]
<1> USE RowIdsFinite DEF TypeInv, TableOK, HandlerOK
<1>1. pc[w] # "idle" => run[w] \in RowIds /\ run[w] # Parent
  BY DEF ChainInv, KnownBy
<1>2. CASE Reserve(w)
  BY <1>1, <1>2 DEF Reserve
<1>3. CASE Activate(w)
  BY <1>1, <1>3 DEF Activate
<1>4. CASE MarkFailed(w)
  BY <1>1, <1>4 DEF MarkFailed
<1>5. CASE MarkParent(w)
  BY <1>5 DEF MarkParent
<1>6. CASE CancelChild(w)
  BY <1>6 DEF CancelChild, NotAChild
<1>7. CASE UNCHANGED rows
  BY <1>7
<1> QED BY <1>2, <1>3, <1>4, <1>5, <1>6, <1>7 DEF Deliver, HandlerStep, FetchPR, FindParent,
        ReadAttempts, ListCommits, CountActive, Create, ListChildren, NextChild, PostComment,
        table

LEMMA HandlerLocals ==
    ASSUME TypeInv, ChainInv, NotAChild, NEW w \in Workers,
           (\E r \in Runs : Deliver(w, r)) \/ HandlerStep(w)
    PROVE  child'[w] # Parent /\ \A c \in todo'[w] : c.row # Parent
<1> USE RowIdsFinite DEF TypeInv, TableOK, HandlerOK, NotAChild
<1>1. Return(w) => child'[w] # Parent /\ todo'[w] = {}
  BY DEF Return
<1>2. ASSUME UNCHANGED <<todo, child>>
      PROVE  child'[w] # Parent /\ \A c \in todo'[w] : c.row # Parent
  BY <1>2
<1>3. CASE ListChildren(w)
  <2>1. parent[w] \in RowIds
    BY <1>3 DEF ListChildren, Informed, Labels
  <2>2. Parent \notin find_active_children(parent[w])
    BY <2>1 DEF find_active_children
  <2> QED BY <1>3, <2>2 DEF ListChildren
<1>4. CASE NextChild(w)
  BY <1>4 DEF NextChild
<1>5. CASE CancelChild(w)
  BY <1>5 DEF CancelChild
<1> QED BY <1>1, <1>2, <1>3, <1>4, <1>5 DEF Deliver, HandlerStep, FetchPR, FindParent,
        ReadAttempts, ListCommits, CountActive, Reserve, Create, Activate, MarkFailed,
        MarkParent, PostComment, Proceed

LEMMA HandlerStage ==
    ASSUME TypeInv, ChainInv, StageInv, NEW w \in Workers,
           (\E r \in Runs : Deliver(w, r)) \/ HandlerStep(w)
    PROVE  StageInv' /\ ParentMoves
<1>1. NotAChild
  BY DEF StageInv
<1>2. \/ rows'[Parent] = rows[Parent]
      \/ rows'[Parent] = [rows[Parent] EXCEPT !.status = "needs_attention"]
  BY <1>1, HandlerSparesParent
<1>3. rows'[Parent].parent = rows[Parent].parent /\ (Active(Parent) => Active(Parent)')
  BY <1>2, RowIdsFinite DEF TypeInv, TableOK, RowType, Active, ACTIVE_STATUSES
<1>4. child'[w] # Parent /\ \A c \in todo'[w] : c.row # Parent
  BY <1>1, HandlerLocals
<1>5. (\A v \in Workers \ {w} : SameLocals(v)) /\ UNCHANGED poller
  BY OthersStay
<1>6. NotAChild'
  BY <1>1, <1>3, <1>4, <1>5 DEF NotAChild, SameLocals
<1>7. VisitedOnce' /\ PolledWhileActive'
  BY <1>3, <1>5 DEF StageInv, VisitedOnce, PolledWhileActive, poller, Active
<1> QED BY <1>2, <1>6, <1>7 DEF StageInv, ParentMoves

LEMMA PollerStage ==
    ASSUME TypeInv, ChainInv, StageInv, PollerStep
    PROVE  StageInv' /\ ParentMoves
<1> USE DEF StageInv, ParentMoves
<1>1. UNCHANGED handler
  BY Concluded DEF PollerStep, ListNonTerminal, PollerTerminates, PollerWrites, TickDone,
     GetSession, GetSessionFails, FindsInactive, FindsNoChange, FindsChange, Visit
<1>2. ASSUME UNCHANGED rows PROVE NotAChild' /\ ParentMoves
  BY <1>1, <1>2 DEF NotAChild, handler
<1>3. CASE ListNonTerminal
  <2>1. UNCHANGED rows
    BY <1>3 DEF ListNonTerminal, table
  <2>2. VisitedOnce'
    BY <1>3 DEF ListNonTerminal, VisitedOnce
  <2>3. PolledWhileActive'
    BY <1>3, <2>1 DEF ListNonTerminal, PolledWhileActive, NonTerminal, Active
  <2> QED BY <1>2, <2>1, <2>2, <2>3
<1>4. CASE PollerTerminates \/ TickDone
  BY <1>2, <1>4 DEF PollerTerminates, TickDone, table, VisitedOnce, PolledWhileActive, Active
<1>5. CASE PollerWrites
  <2>1. /\ ppc = "write" /\ ppc' = "poll" /\ UNCHANGED snapshot
        /\ rows' = [rows EXCEPT ![seen.row].status = seen.verdict, ![seen.row].pr = KeptPR]
    BY <1>5 DEF PollerWrites
  <2>2. seen.row \in RowIds /\ rows \in [RowIds -> RowType]
    BY <2>1 DEF TypeInv, TableOK, PollerOK, Conclusions
  <2>3. rows'[Parent].parent = rows[Parent].parent
    BY <2>1, <2>2, RowIdsFinite DEF RowType
  <2>4. NotAChild'
    BY <1>1, <2>3 DEF NotAChild, handler
  <2>5. VisitedOnce'
    BY <2>1 DEF VisitedOnce
  <2>6. CASE seen.row = Parent
    <3>1. Active(Parent) /\ \A s \in snapshot : s.row # Parent
      BY <2>1, <2>6 DEF PolledWhileActive, VisitedOnce
    <3> QED BY <2>1, <2>4, <2>5, <3>1 DEF PolledWhileActive
  <2>7. CASE seen.row # Parent
    <3>1. rows'[Parent] = rows[Parent]
      BY <2>1, <2>2, <2>7, RowIdsFinite
    <3> QED BY <2>1, <2>4, <2>5, <3>1 DEF PolledWhileActive, Active
  <2> QED BY <2>6, <2>7
<1>6. ASSUME NEW x \in snapshot, GetSession(x) \/ GetSessionFails(x)
      PROVE  StageInv' /\ ParentMoves
  <2>1. x \in SnapshotType /\ ppc = "poll" /\ snapshot' = snapshot \ {x} /\ UNCHANGED rows
    BY <1>6, Concluded DEF TypeInv, PollerOK, Visit, table
  <2>2. ppc' \in {"terminate", "write"} => seen'.row = x.row
    BY <1>6, <2>1, Concluded DEF TypeInv
  <2>3. VisitedOnce'
    BY <2>1, <2>2 DEF VisitedOnce
  <2>4. PolledWhileActive'
    BY <2>1, <2>2 DEF PolledWhileActive, Active
  <2> QED BY <1>2, <2>1, <2>3, <2>4
<1> QED BY <1>3, <1>4, <1>5, <1>6 DEF PollerStep

LEMMA StageNext ==
    TypeInv /\ ChainInv /\ StageInv /\ [Next]_vars => StageInv' /\ ParentMoves
<1> SUFFICES ASSUME TypeInv, ChainInv, StageInv, [Next]_vars PROVE StageInv' /\ ParentMoves
  OBVIOUS
<1>1. CASE \E w \in Workers : (\E r \in Runs : Deliver(w, r)) \/ HandlerStep(w)
  BY <1>1, HandlerStage
<1>2. CASE PollerStep
  BY <1>2, PollerStage
<1>3. CASE Interruption
  <2>1. /\ UNCHANGED rows
        /\ \A w \in Workers : SameLocals(w) \/ Dropped(w)
        /\ UNCHANGED poller \/ (ppc' = "idle" /\ snapshot' = {} /\ seen' = None)
    BY <1>3, Interrupts
  <2>2. NotAChild'
    BY <2>1, RowIdsFinite DEF StageInv, NotAChild, SameLocals, Dropped
  <2>3. VisitedOnce' /\ PolledWhileActive'
    BY <2>1 DEF poller, StageInv, VisitedOnce, PolledWhileActive, Active
  <2> QED BY <2>1, <2>2, <2>3 DEF StageInv, ParentMoves
<1>4. CASE OutsideStep \/ UNCHANGED vars
  <2>1. UNCHANGED <<table, handler, poller>>
    BY <1>4 DEF OutsideStep, DevinMoves, DevinListsPR, PrEndsAs, HumanCommits, vars
  <2> QED BY <2>1 DEF table, handler, poller, StageInv, NotAChild, VisitedOnce,
          PolledWhileActive, ParentMoves, Active
<1> QED BY <1>1, <1>2, <1>3, <1>4 DEF Next, OutsideStep, Interruption

LEMMA Staged == Spec => [](TypeInv /\ ChainInv /\ StageInv)
BY TypeInit, TypeNext, ChainInit, ChainNext, StageInit, StageNext, PTL DEF Spec

(***************************************************************************)
(* What compute_stage makes of a row, whatever its children.               *)
(***************************************************************************)
LEMMA StageOfRow ==
    ASSUME NEW row, row.status \in Statuses, NEW C
    PROVE  /\ CveStage(row, C) = "verified" => row.status = "completed" /\ row.pr
           /\ row.status = "completed" /\ row.pr =>
                 CveStage(row, C) \in {"verified", "ci fix running"}
           /\ CveStage(row, C) = "failed" <=> row.status \in {"failed", "timeout"}
           /\ CveStage(row, C) = "cancelled" <=> row.status = "cancelled"
           /\ row.status = "needs_attention" => CveStage(row, C) = "needs human"
BY DEF CveStage, Statuses, ACTIVE_STATUSES, TERMINAL_STATUSES

\* No write of a late poll, no escalation, no exception and no crash turns a
\* session that is shown as over back into a live one, or a failed one into a
\* verified one.
THEOREM StagesSettle == Spec => StageSettles
<1> DEFINE Children == {rows[x] : x \in {y \in RowIds : rows[y].parent = Parent}}
<1>1. ASSUME TypeInv, ChainInv, StageInv, [Next]_vars
      PROVE  /\ ParentStage = "verified" =>
                   ParentStage' \in {"verified", "ci fix running", "needs human"}
             /\ ParentStage \in {"failed", "cancelled"} =>
                   ParentStage' \in {ParentStage, "needs human"}
  <2>1. ParentMoves /\ TypeInv' /\ ChainInv'
    BY <1>1, StageNext, TypeNext, ChainNext
  <2>2. /\ ParentStage = CveStage(rows[Parent], Children)
        /\ ParentStage' = CveStage(rows'[Parent], Children')
    BY DEF ParentStage
  <2>3. rows[Parent] \in RowType /\ rows[Parent].status \in Statuses
    BY <1>1, RowIdsFinite DEF TypeInv, TableOK, RowType, ChainInv, KnownRows, Exists
  <2>4. rows'[Parent] \in RowType /\ rows'[Parent].status \in Statuses
    BY <2>1, RowIdsFinite DEF TypeInv, TableOK, RowType, ChainInv, KnownRows, Exists
  <2> HIDE DEF Children
  <2>5. CASE rows'[Parent] = rows[Parent]
    BY <2>2, <2>3, <2>5, StageOfRow
  <2>6. CASE rows'[Parent] = [rows[Parent] EXCEPT !.status = "needs_attention"]
    <3>1. rows'[Parent].status = "needs_attention"
      BY <2>3, <2>6 DEF RowType
    <3> QED BY <2>2, <2>4, <3>1, StageOfRow
  <2>7. CASE Active(Parent)
    <3>1. ParentStage \notin {"verified", "failed", "cancelled"}
      BY <2>2, <2>3, <2>7, StageOfRow DEF Active, ACTIVE_STATUSES
    <3> QED BY <3>1
  <2> QED BY <2>1, <2>5, <2>6, <2>7 DEF ParentMoves
<1>2. TypeInv /\ ChainInv /\ StageInv /\ [Next]_vars
        => [/\ ParentStage = "verified" =>
                   ParentStage' \in {"verified", "ci fix running", "needs human"}
            /\ ParentStage \in {"failed", "cancelled"} =>
                   ParentStage' \in {ParentStage, "needs human"}]_rows
  BY <1>1
<1> QED BY <1>2, Staged, PTL DEF Spec, StageSettles
=============================================================================
