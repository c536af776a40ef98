----------------------------- MODULE RaceProofs -----------------------------
(***************************************************************************)
(* A fix-session does not race the session it is to repair, unless that    *)
(* one has been let go of: why these are all the ways.                     *)
(***************************************************************************)
EXTENDS FixLoopProofs

(***************************************************************************)
(* The invariant.  A row has a Devin session id before it has a pull       *)
(* request; one that is over and has a pull request belongs to a session   *)
(* that is over, or has been let go of.                                    *)
(***************************************************************************)
Registered ==
    \A x \in RowIds : /\ rows[x].status = "none" => ~rows[x].tracked
                      /\ rows[x].pr => rows[x].tracked

EndsAreReal ==
    \A x \in RowIds :
        rows[x].status \in TERMINAL_STATUSES /\ rows[x].pr => ~Alive(x) \/ x \in loose

\* A session that is over, under a row that has its id, or that has been let
\* go of: it stays so.
Over(x) == x \in loose \/ (rows[x].tracked /\ ~Alive(x))

Visits ==
    /\ \A s \in snapshot : rows[s.row].tracked
    /\ ppc \in {"terminate", "write"} => rows[seen.row].tracked
    /\ ppc = "write" /\ seen.verdict \in TERMINAL_STATUSES => Over(seen.row)

\* What a handler knows of the row it inserted, of its parent and of the
\* children it cancels.
OwnsRow(w) ==
    Holding(w) => ~rows[run[w]].tracked /\ rows[run[w]].parent = parent[w]

ParentOver(w) == pc[w] \in Informed => Over(parent[w])

ChildrenOver(w) ==
    /\ \A c \in todo[w] : c.tracked => rows[c.row].tracked
    /\ pc[w] = "cancel_child" => Over(child[w])

Knows(w) == OwnsRow(w) /\ ParentOver(w) /\ ChildrenOver(w)

RaceInv == Registered /\ EndsAreReal /\ Visits /\ \A w \in Workers : Knows(w)

AllInv == TypeInv /\ ChainInv /\ OnceInv /\ RaceInv

LEMMA RaceInit == Init => RaceInv
<1> SUFFICES ASSUME Init PROVE RaceInv
  OBVIOUS
<1>1. /\ rows[Parent].tracked /\ ~rows[Parent].pr /\ rows[Parent].status = "pending"
      /\ \A r \in Runs : rows[r] = NoRow
  BY RowIdsFinite DEF Init, NoRow
<1>2. Registered /\ EndsAreReal
  BY <1>1 DEF Registered, EndsAreReal, RowIds, NoRow
<1>3. Visits
  BY <1>1, RowIdsFinite DEF Init, Visits
<1>4. \A w \in Workers : Knows(w)
  BY DEF Init, Knows, OwnsRow, ParentOver, ChildrenOver, Holding, Informed
<1> QED BY <1>2, <1>3, <1>4 DEF RaceInv

(***************************************************************************)
(* What is over stays over: only create_session starts a session, and it   *)
(* does so for a row without an id.                                        *)
(***************************************************************************)
LEMMA Terminated ==
    ASSUME TypeInv, NEW x \in RowIds, Terminate(x)
    PROVE  /\ x \in loose' \/ ~Alive(x)'
           /\ \A y \in RowIds : ~Alive(y) => devin'[y] = devin[y]
<1>1. CASE devin' = [devin EXCEPT ![x] = IF Alive(x) THEN "exit" ELSE @]
  BY <1>1 DEF Alive, TypeInv, OutsideOK
<1>2. CASE LetGo(x) /\ UNCHANGED devin
  BY <1>2 DEF LetGo
<1> QED BY <1>1, <1>2 DEF Terminate

\* Nothing brings back what was let go of.
LEMMA LooseGrows == ASSUME TypeInv, [Next]_vars PROVE loose \subseteq loose'
<1>1. \A x : Terminate(x) \/ LetGo(x) \/ UNCHANGED loose => loose \subseteq loose'
  BY DEF Terminate, LetGo
<1>2. ASSUME NEW w \in Workers, (\E r \in Runs : Deliver(w, r)) \/ HandlerStep(w)
      PROVE  loose \subseteq loose'
  <2>1. UNCHANGED loose \/ NextChild(w)
    BY <1>2 DEF Deliver, HandlerStep, FetchPR, FindParent, ReadAttempts, ListCommits,
       CountActive, Reserve, Create, Activate, MarkFailed, MarkParent, ListChildren,
       CancelChild, PostComment, history
  <2>2. NextChild(w) => \E c \in todo[w] : Terminate(c.row) \/ LetGo(c.row)
    BY DEF NextChild
  <2> QED BY <1>1, <2>1, <2>2
<1>3. CASE PollerStep
  <2>1. CASE PollerTerminates
    BY <1>1, <2>1 DEF PollerTerminates
  <2>2. ASSUME NEW x \in snapshot, GetSession(x) \/ GetSessionFails(x)
        PROVE  loose \subseteq loose'
    BY <1>1, <2>2, Concluded DEF TypeInv, PollerOK
  <2>3. CASE UNCHANGED loose
    BY <2>3
  <2> QED BY <1>3, <2>1, <2>2, <2>3
          DEF PollerStep, ListNonTerminal, PollerWrites, TickDone, history
<1>4. CASE Interruption
  BY <1>4, Interrupts
<1>5. CASE OutsideStep \/ UNCHANGED vars
  BY <1>5 DEF OutsideStep, DevinMoves, DevinListsPR, PrEndsAs, HumanCommits, vars, history
<1> QED BY <1>2, <1>3, <1>4, <1>5 DEF Next, OutsideStep, Interruption

\* The sessions a step of a handler or of the poller starts.
LEMMA SessionsStart ==
    ASSUME AllInv, [Next]_vars, NEW x \in RowIds, ~Alive(x), devin'[x] # devin[x]
    PROVE  \E w \in Workers : Create(w) /\ run[w] = x
<1> USE DEF AllInv, TypeInv
<1>1. CASE \E w \in Workers : HandlerStep(w)
  <2>1. PICK w \in Workers : HandlerStep(w)
    BY <1>1
  <2>2. CASE Create(w)
    BY <2>2, RowIdsFinite DEF Create, Alive, OutsideOK
  <2>3. CASE NextChild(w)
    <3>1. devin' = devin \/ \E y \in RowIds : Terminate(y)
      BY <2>3 DEF NextChild, HandlerOK
    <3> QED BY <3>1, Terminated DEF Alive
  <2>4. CASE UNCHANGED devin
    BY <2>4 DEF Alive
  <2> QED BY <2>1, <2>2, <2>3, <2>4 DEF HandlerStep, FetchPR, FindParent, ReadAttempts,
          ListCommits, CountActive, Reserve, Activate, MarkFailed, MarkParent, ListChildren,
          CancelChild, PostComment, outside
<1>2. CASE PollerStep
  <2>1. CASE PollerTerminates
    <3>1. seen.row \in RowIds
      BY <2>1 DEF PollerTerminates, PollerOK, Conclusions
    <3> QED BY <2>1, <3>1, Terminated DEF PollerTerminates
  <2>2. CASE ~PollerTerminates
    <3>1. UNCHANGED devin
      BY <1>2, <2>2, Concluded DEF PollerStep, ListNonTerminal, PollerWrites, TickDone,
         GetSession, GetSessionFails, FindsInactive, FindsNoChange, FindsChange, Visit, outside
    <3> QED BY <3>1 DEF Alive
  <2> QED BY <2>1, <2>2
<1>3. CASE OutsideStep
  <2>1. UNCHANGED devin \/ \E y \in RowIds : DevinMoves(y)
    BY <1>3 DEF OutsideStep, DevinListsPR, PrEndsAs, HumanCommits
  <2>2. \A y \in RowIds : DevinMoves(y) => y # x /\ devin'[x] = devin[x]
    BY DEF DevinMoves, OutsideOK
  <2> QED BY <2>1, <2>2 DEF Alive
<1>4. CASE UNCHANGED vars \/ \E w \in Workers, r \in Runs : Deliver(w, r)
  BY <1>4 DEF vars, outside, Deliver, Alive
<1>5. CASE Interruption
  BY <1>5, Interrupts DEF outside
<1> QED BY <1>1, <1>2, <1>3, <1>4, <1>5 DEF Next, OutsideStep, Interruption

LEMMA TrackedStays ==
    ASSUME AllInv, [Next]_vars, NEW x \in RowIds, rows[x].tracked
    PROVE  rows'[x].tracked
<1> USE DEF AllInv, TypeInv, TableOK, RowType
<1>1. ASSUME NEW w \in Workers, HandlerStep(w) PROVE rows'[x].tracked
  <2>1. CASE Reserve(w)
    BY <2>1 DEF Reserve, RunIsFree, RaceInv, Registered
  <2>2. CASE Activate(w) \/ MarkFailed(w) \/ MarkParent(w) \/ CancelChild(w)
    BY <2>2 DEF Activate, MarkFailed, MarkParent, CancelChild
  <2>3. CASE UNCHANGED rows
    BY <2>3
  <2> QED BY <1>1, <2>1, <2>2, <2>3 DEF HandlerStep, FetchPR, FindParent, ReadAttempts,
          ListCommits, CountActive, Create, ListChildren, NextChild, PostComment, table
<1>2. CASE PollerStep
  <2>1. CASE PollerWrites
    BY <2>1 DEF PollerWrites
  <2>2. CASE ~PollerWrites
    BY <1>2, <2>2, Concluded DEF PollerStep, ListNonTerminal, PollerTerminates, TickDone,
       GetSession, GetSessionFails, Visit, table, PollerOK
  <2> QED BY <2>1, <2>2
<1>3. CASE OutsideStep \/ UNCHANGED vars \/ \E w \in Workers, r \in Runs : Deliver(w, r)
  BY <1>3 DEF OutsideStep, DevinMoves, DevinListsPR, PrEndsAs, HumanCommits, Deliver, vars, table
<1>4. CASE Interruption
  BY <1>4, Interrupts
<1> QED BY <1>1, <1>2, <1>3, <1>4 DEF Next, OutsideStep, Interruption

LEMMA OverStays ==
    ASSUME AllInv, [Next]_vars, NEW x \in RowIds, Over(x)
    PROVE  x \in loose' \/ (rows'[x].tracked /\ ~Alive(x)')
<1>1. CASE x \in loose
  BY <1>1, LooseGrows DEF AllInv
<1>2. CASE rows[x].tracked /\ ~Alive(x)
  <2>1. rows'[x].tracked
    BY <1>2, TrackedStays
  <2>2. ASSUME NEW w \in Workers, Create(w), run[w] = x PROVE FALSE
    BY <1>2, <2>2 DEF AllInv, RaceInv, Knows, OwnsRow, Holding, Create
  <2>3. devin'[x] = devin[x]
    BY <1>2, <2>2, SessionsStart
  <2> QED BY <1>2, <2>1, <2>3 DEF Alive
<1> QED BY <1>1, <1>2 DEF Over

(***************************************************************************)
(* Who writes which column of a row.                                       *)
(***************************************************************************)
LEMMA RowChanges ==
    ASSUME AllInv, [Next]_vars, NEW x \in RowIds
    PROVE  /\ Exists(x) => rows'[x].parent = rows[x].parent
           /\ rows'[x].status = "none" => rows'[x] = rows[x]
           /\ rows'[x].tracked /\ ~rows[x].tracked =>
                 \E w \in Workers : Activate(w) /\ run[w] = x
           /\ rows'[x].pr /\ ~rows[x].pr => PollerWrites /\ seen.row = x /\ seen.pr
           /\ rows'[x].status \in TERMINAL_STATUSES =>
                 \/ rows'[x].status = rows[x].status
                 \/ \E w \in Workers : MarkFailed(w) /\ run[w] = x
                 \/ \E w \in Workers : CancelChild(w) /\ child[w] = x
                 \/ PollerWrites /\ seen.row = x /\ seen.verdict \in TERMINAL_STATUSES
<1> USE DEF AllInv, TypeInv, TableOK, RowType
<1>1. CASE rows'[x] = rows[x]
  BY <1>1
<1>2. ASSUME NEW w \in Workers, Reserve(w), rows'[x] # rows[x]
      PROVE  rows[x].status = "none" /\ rows'[x].status = "reserving" /\ run[w] = x
             /\ ~rows'[x].tracked /\ ~rows'[x].pr
  <2>1. PICK t \in Seconds : rows' = [rows EXCEPT ![run[w]] =
            [NoRow EXCEPT !.status = "reserving", !.parent = parent[w],
                          !.attempt = attempt[w], !.started = t]]
    BY <1>2 DEF Reserve, RunIsFree
  <2>2. x = run[w] /\ rows[x].status = "none"
    BY <1>2, <2>1 DEF Reserve, RunIsFree
  <2> QED BY <2>1, <2>2 DEF NoRow
<1>3. ASSUME NEW w \in Workers, Activate(w), rows'[x] # rows[x]
      PROVE  /\ run[w] = x /\ rows'[x].status = "pending" /\ rows'[x].tracked
             /\ rows'[x].parent = rows[x].parent /\ rows'[x].pr = rows[x].pr
  BY <1>3 DEF Activate
<1>4. ASSUME NEW w \in Workers, MarkFailed(w), rows'[x] # rows[x]
      PROVE  run[w] = x /\ rows'[x] = [rows[x] EXCEPT !.status = "failed"]
  BY <1>4 DEF MarkFailed
<1>5. ASSUME NEW w \in Workers, MarkParent(w), rows'[x] # rows[x]
      PROVE  rows'[x] = [rows[x] EXCEPT !.status = "needs_attention"]
  BY <1>5 DEF MarkParent
<1>6. ASSUME NEW w \in Workers, CancelChild(w), rows'[x] # rows[x]
      PROVE  child[w] = x /\ rows'[x] = [rows[x] EXCEPT !.status = "cancelled"]
  BY <1>6 DEF CancelChild
<1>7. ASSUME PollerWrites, rows'[x] # rows[x]
      PROVE  /\ seen.row = x /\ seen.verdict \in Statuses /\ rows'[x].status = seen.verdict
             /\ rows'[x].parent = rows[x].parent /\ rows'[x].tracked = rows[x].tracked
             /\ rows'[x].pr /\ ~rows[x].pr => seen.pr
  <2>1. seen \in Conclusions /\ seen.row = x
        /\ rows'[x] = [rows[x] EXCEPT !.status = seen.verdict, !.pr = KeptPR]
    BY <1>7 DEF PollerWrites, PollerOK
  <2>2. rows'[x].pr = KeptPR
    BY <2>1
  <2>3. rows'[x].pr /\ ~rows[x].pr => seen.pr
    BY <2>1, <2>2 DEF KeptPR
  <2>4. /\ rows'[x].status = seen.verdict /\ seen.verdict \in Statuses
        /\ rows'[x].parent = rows[x].parent /\ rows'[x].tracked = rows[x].tracked
    BY <2>1 DEF Conclusions
  <2> QED BY <2>1, <2>3, <2>4
<1>8. \/ rows'[x] = rows[x] \/ PollerWrites
      \/ \E w \in Workers : \/ Reserve(w) \/ Activate(w) \/ MarkFailed(w) \/ MarkParent(w)
                           \/ CancelChild(w)
  <2>1. CASE PollerStep
    BY <2>1, Concluded DEF PollerStep, ListNonTerminal, PollerTerminates, TickDone,
       GetSession, GetSessionFails, Visit, table, PollerOK
  <2>2. CASE \E w \in Workers : HandlerStep(w)
    BY <2>2 DEF HandlerStep, FetchPR, FindParent, ReadAttempts, ListCommits, CountActive,
       Create, ListChildren, NextChild, PostComment, table
  <2>3. CASE OutsideStep \/ UNCHANGED vars \/ \E w \in Workers, r \in Runs : Deliver(w, r)
    BY <2>3 DEF OutsideStep, DevinMoves, DevinListsPR, PrEndsAs, HumanCommits, Deliver,
       vars, table
  <2>4. CASE Interruption
    BY <2>4, Interrupts
  <2> QED BY <2>1, <2>2, <2>3, <2>4 DEF Next, OutsideStep, Interruption
<1>9. CASE \E w \in Workers : Reserve(w)
  BY <1>1, <1>2, <1>9 DEF TERMINAL_STATUSES, Exists
<1>10. CASE \E w \in Workers : Activate(w)
  BY <1>1, <1>3, <1>10 DEF TERMINAL_STATUSES
<1>11. CASE \E w \in Workers : MarkFailed(w)
  BY <1>1, <1>4, <1>11 DEF ACTIVE_STATUSES
<1>12. CASE \E w \in Workers : MarkParent(w)
  BY <1>1, <1>5, <1>12 DEF TERMINAL_STATUSES
<1>13. CASE \E w \in Workers : CancelChild(w)
  BY <1>1, <1>6, <1>13 DEF ACTIVE_STATUSES
<1>14. CASE PollerWrites /\ rows'[x] # rows[x]
  BY <1>7, <1>14, StatusNames
<1> QED BY <1>1, <1>8, <1>9, <1>10, <1>11, <1>12, <1>13, <1>14

(***************************************************************************)
(* The rows.                                                               *)
(***************************************************************************)
LEMMA RowsNext ==
    ASSUME AllInv, [Next]_vars
    PROVE  Registered' /\ EndsAreReal'
<1> USE DEF AllInv, RaceInv
<1>1. ASSUME PollerWrites
      PROVE  /\ rows[seen.row].tracked /\ seen.row \in RowIds
             /\ seen.verdict \in TERMINAL_STATUSES => Over(seen.row)
             /\ rows'[seen.row].status = seen.verdict
  BY <1>1 DEF PollerWrites, Visits, TypeInv, PollerOK, Conclusions, TableOK, RowType
<1>2. ASSUME NEW x \in RowIds
      PROVE  /\ rows'[x].status = "none" => ~rows'[x].tracked
             /\ rows'[x].pr => rows'[x].tracked
  <2>1. rows'[x].status = "none" => ~rows'[x].tracked
    BY RowChanges DEF Registered
  <2>2. rows'[x].pr => rows[x].tracked
    BY <1>1, RowChanges DEF Registered
  <2> QED BY <2>1, <2>2, TrackedStays
<1>3. ASSUME NEW x \in RowIds, rows'[x].status \in TERMINAL_STATUSES, rows'[x].pr
      PROVE  x \in loose' \/ ~Alive(x)'
  <2>1. Over(x) => x \in loose' \/ ~Alive(x)'
    BY OverStays
  <2>2. CASE rows'[x].status = rows[x].status
    <3>1. CASE rows[x].pr
      BY <1>3, <2>1, <2>2, <3>1 DEF EndsAreReal, Registered, Over
    <3>2. CASE ~rows[x].pr
      <4>1. PollerWrites /\ seen.row = x
        BY <1>3, <3>2, RowChanges
      <4> QED BY <1>1, <1>3, <2>1, <4>1
    <3> QED BY <3>1, <3>2
  <2>3. ASSUME NEW w \in Workers, MarkFailed(w), run[w] = x PROVE FALSE
    <3>1. ~rows[x].tracked
      BY <2>3 DEF MarkFailed, Knows, OwnsRow, Holding
    <3>2. ~rows[x].pr
      BY <3>1 DEF Registered
    <3> QED BY <1>1, <1>3, <3>1, <3>2, RowChanges
  <2>4. ASSUME NEW w \in Workers, CancelChild(w), child[w] = x
        PROVE  x \in loose' \/ ~Alive(x)'
    BY <2>1, <2>4 DEF CancelChild, Knows, ChildrenOver
  <2>5. CASE PollerWrites /\ seen.row = x /\ seen.verdict \in TERMINAL_STATUSES
    BY <1>1, <2>1, <2>5
  <2> QED BY <1>3, <2>2, <2>3, <2>4, <2>5, RowChanges
<1> QED BY <1>2, <1>3 DEF Registered, EndsAreReal

(***************************************************************************)
(* The locals of one handler.                                              *)
(***************************************************************************)
\* It comes to hold a row by inserting it, to know a parent by finding one
\* that is over, and to cancel children by listing the active ones.
LocalsMove(v) ==
    /\ Holding(v)' =>
          /\ run'[v] = run[v] /\ parent'[v] = parent[v]
          /\ Holding(v) \/ (Reserve(v) /\ rows[run[v]].status = "none")
    /\ pc'[v] \in Informed =>
          \/ pc[v] \in Informed /\ parent'[v] = parent[v]
          \/ parent'[v] \in find_by_pr /\ ParentIsOver(parent'[v])
    /\ \A c \in todo'[v] :
          \/ c \in todo[v]
          \/ /\ pc[v] = "list_children"
             /\ \E x \in RowIds : c = [row |-> x, tracked |-> rows[x].tracked]
    /\ pc'[v] = "cancel_child" =>
          \/ pc[v] = "cancel_child" /\ child'[v] = child[v]
          \/ \E c \in todo[v] : /\ child'[v] = c.row
                              /\ IF c.tracked THEN Terminate(c.row) ELSE LetGo(c.row)

LEMMA HandlerLocalsMove ==
    ASSUME AllInv, NEW v \in Workers, (\E r \in Runs : Deliver(v, r)) \/ HandlerStep(v)
    PROVE  LocalsMove(v)
<1> USE DEF AllInv, TypeInv, HandlerOK, LocalsMove, Holding, Informed, Labels, Goto, Proceed
<1>1. CASE Return(v)
  BY <1>1 DEF Return, HandlerStep, FetchPR, FindParent, ReadAttempts, ListCommits, CountActive,
     Reserve, Create, ListChildren, MarkParent, NextChild, CancelChild, PostComment, Deliver
<1>2. CASE \E r \in Runs : Deliver(v, r)
  BY <1>2 DEF Deliver
<1>3. CASE FetchPR(v) \/ ListCommits(v) \/ CountActive(v) \/ MarkParent(v)
  BY <1>1, <1>3 DEF FetchPR, ListCommits, CountActive, MarkParent
<1>4. CASE FindParent(v)
  BY <1>1, <1>4 DEF FindParent
<1>5. CASE ReadAttempts(v)
  BY <1>5 DEF ReadAttempts
<1>6. CASE Reserve(v)
  BY <1>1, <1>6 DEF Reserve, RunIsFree
<1>7. CASE Create(v)
  <2>1. /\ pc[v] = "create" /\ UNCHANGED <<run, parent, todo, child>>
        /\ pc'[v] \in {"activate", "mark_failed"}
    BY <1>7 DEF Create
  <2> QED BY <2>1
<1>8. CASE Activate(v) \/ MarkFailed(v) \/ PostComment(v)
  BY <1>1, <1>8 DEF Activate, MarkFailed, PostComment
<1>9. CASE ListChildren(v)
  BY <1>9 DEF ListChildren, find_active_children
<1>10. CASE NextChild(v)
  <2>1. PICK c \in todo[v] : /\ todo' = [todo EXCEPT ![v] = @ \ {c}]
                            /\ child' = [child EXCEPT ![v] = c.row]
                            /\ IF c.tracked THEN Terminate(c.row)
                               ELSE LetGo(c.row) /\ UNCHANGED <<devin, faults>>
    BY <1>10 DEF NextChild
  <2>2. pc'[v] = "cancel_child" /\ pc[v] = "next_child" /\ UNCHANGED parent
    BY <1>10 DEF NextChild
  <2>3. child' = [child EXCEPT ![v] = c.row] /\ todo' = [todo EXCEPT ![v] = @ \ {c}]
    BY <2>1
  <2>4. child'[v] = c.row /\ \A d \in todo'[v] : d \in todo[v]
    BY <2>3
  <2>5. IF c.tracked THEN Terminate(c.row) ELSE LetGo(c.row)
    BY <2>1
  <2>6. \E d \in todo[v] : /\ child'[v] = d.row
                           /\ IF d.tracked THEN Terminate(d.row) ELSE LetGo(d.row)
    BY <2>4, <2>5
  <2> HIDE DEF AllInv, TypeInv, HandlerOK
  <2> QED BY <2>2, <2>4, <2>6
<1>11. CASE CancelChild(v)
  BY <1>11 DEF CancelChild
<1> QED BY <1>2, <1>3, <1>4, <1>5, <1>6, <1>7, <1>8, <1>9, <1>10, <1>11 DEF HandlerStep

LEMMA LocalsNext ==
    ASSUME AllInv, [Next]_vars, NEW v \in Workers
    PROVE  LocalsMove(v)
<1> USE DEF AllInv, TypeInv
<1>1. ASSUME SameLocals(v) PROVE LocalsMove(v)
  <2>1. /\ pc'[v] = pc[v] /\ run'[v] = run[v] /\ parent'[v] = parent[v]
        /\ todo'[v] = todo[v] /\ child'[v] = child[v]
    BY <1>1 DEF SameLocals
  <2> HIDE DEF AllInv, TypeInv
  <2> QED BY <2>1 DEF LocalsMove, Holding
<1>2. CASE UNCHANGED handler
  BY <1>1, <1>2 DEF handler, SameLocals
<1>3. ASSUME NEW w \in Workers, (\E r \in Runs : Deliver(w, r)) \/ HandlerStep(w)
      PROVE  LocalsMove(v)
  BY <1>1, <1>3, OthersStay, HandlerLocalsMove
<1>4. CASE Interruption
  <2>1. Dropped(v) => LocalsMove(v)
    BY DEF Dropped, LocalsMove, Holding, Informed
  <2> QED BY <1>1, <1>4, <2>1, Interrupts
<1>5. PollerStep => UNCHANGED handler
  BY Concluded DEF PollerStep, ListNonTerminal, PollerTerminates, PollerWrites, TickDone,
     GetSession, GetSessionFails, FindsInactive, FindsNoChange, FindsChange, Visit
<1>6. OutsideStep \/ UNCHANGED vars => UNCHANGED handler
  BY DEF OutsideStep, DevinMoves, DevinListsPR, PrEndsAs, HumanCommits, vars
<1> QED BY <1>2, <1>3, <1>4, <1>5, <1>6 DEF Next, OutsideStep, Interruption

(***************************************************************************)
(* What one handler knows.                                                 *)
(***************************************************************************)
LEMMA OwnsRowNext ==
    ASSUME AllInv, [Next]_vars, NEW v \in Workers
    PROVE  OwnsRow(v)'
<1> SUFFICES ASSUME Holding(v)'
             PROVE  ~rows'[run'[v]].tracked /\ rows'[run'[v]].parent = parent'[v]
  BY DEF OwnsRow
<1> USE DEF AllInv
<1>1. /\ run'[v] = run[v] /\ parent'[v] = parent[v]
      /\ Holding(v) \/ (Reserve(v) /\ rows[run[v]].status = "none")
  BY LocalsNext DEF LocalsMove
<1>2. CASE Holding(v)
  <2>1. /\ run[v] \in RowIds /\ Exists(run[v])
        /\ ~rows[run[v]].tracked /\ rows[run[v]].parent = parent[v]
    BY <1>2, RowIdsFinite DEF ChainInv, KnownBy, Holding, RaceInv, Knows, OwnsRow
  <2>2. ASSUME NEW u \in Workers, Activate(u), run[u] = run[v] PROVE FALSE
    <3>1. u = v
      BY <1>2, <2>2 DEF Activate, Holding, OnceInv
    <3>2. pc'[v] = "idle"
      BY <2>2, <3>1 DEF Activate, Return, Goto, TypeInv, HandlerOK
    <3> QED BY <3>2 DEF Holding
  <2> QED BY <1>1, <2>1, <2>2, RowChanges
<1>3. CASE Reserve(v) /\ rows[run[v]].status = "none"
  <2>1. run[v] \in RowIds
    BY <1>3, RowIdsFinite DEF Reserve, ChainInv, KnownBy
  <2>2. PICK t \in Seconds : rows' = [rows EXCEPT ![run[v]] =
            [NoRow EXCEPT !.status = "reserving", !.parent = parent[v],
                          !.attempt = attempt[v], !.started = t]]
    BY <1>3 DEF Reserve, RunIsFree
  <2>3. ~rows'[run[v]].tracked /\ rows'[run[v]].parent = parent[v]
    BY <2>1, <2>2 DEF NoRow, TypeInv, TableOK
  <2> QED BY <1>1, <2>3
<1> QED BY <1>1, <1>2, <1>3

LEMMA ParentOverNext ==
    ASSUME AllInv, [Next]_vars, NEW v \in Workers
    PROVE  ParentOver(v)'
<1> SUFFICES ASSUME pc'[v] \in Informed
             PROVE  \/ parent'[v] \in loose'
                    \/ /\ rows'[parent'[v]].tracked
                       /\ devin'[parent'[v]] \in {"none", "exit", "error"}
  BY DEF ParentOver, Over, Alive
<1>1. parent'[v] \in RowIds /\ Over(parent'[v])
  <2>1. CASE pc[v] \in Informed /\ parent'[v] = parent[v]
    <3>1. parent'[v] \in RowIds
      BY <2>1 DEF AllInv, TypeInv, HandlerOK
    <3> QED BY <2>1, <3>1 DEF AllInv, RaceInv, Knows, ParentOver
  <2>2. CASE parent'[v] \in find_by_pr /\ ParentIsOver(parent'[v])
    BY <2>2 DEF find_by_pr, ParentIsOver, AllInv, RaceInv, Registered, EndsAreReal, Over
  <2> QED BY <2>1, <2>2, LocalsNext DEF LocalsMove
<1>2. PICK p \in RowIds : p = parent'[v] /\ Over(p)
  BY <1>1
<1>3. p \in loose' \/ (rows'[p].tracked /\ ~Alive(p)')
  BY <1>2, OverStays
<1> QED BY <1>2, <1>3 DEF Alive

LEMMA ChildrenOverNext ==
    ASSUME AllInv, [Next]_vars, NEW v \in Workers
    PROVE  ChildrenOver(v)'
<1> USE DEF AllInv
<1>1. ASSUME NEW c \in todo[v] PROVE c.row \in RowIds /\ (c.tracked => rows'[c.row].tracked)
  <2>1. c.row \in RowIds
    BY DEF TypeInv, HandlerOK
  <2>2. c.tracked => rows[c.row].tracked
    BY DEF RaceInv, Knows, ChildrenOver
  <2> QED BY <2>1, <2>2, TrackedStays
<1>2. ASSUME NEW c \in todo'[v], c.tracked PROVE rows'[c.row].tracked
  <2>1. CASE c \in todo[v]
    BY <1>1, <1>2, <2>1
  <2>2. CASE c \notin todo[v]
    <3>1. PICK x \in RowIds : c = [row |-> x, tracked |-> rows[x].tracked]
      BY <1>2, <2>2, LocalsNext DEF LocalsMove
    <3>2. rows[x].tracked
      BY <1>2, <3>1
    <3>3. rows'[x].tracked
      BY <3>2, TrackedStays
    <3> QED BY <3>1, <3>3
  <2> QED BY <2>1, <2>2
<1>3. ASSUME pc'[v] = "cancel_child"
      PROVE  \/ child'[v] \in loose'
             \/ /\ rows'[child'[v]].tracked
                /\ devin'[child'[v]] \in {"none", "exit", "error"}
  <2>1. CASE pc[v] = "cancel_child" /\ child'[v] = child[v]
    <3>1. child[v] \in RowIds /\ Over(child[v])
      BY <2>1 DEF ChainInv, KnownBy, RaceInv, Knows, ChildrenOver
    <3>2. PICK x \in RowIds : x = child[v] /\ Over(x)
      BY <3>1
    <3>3. x \in loose' \/ (rows'[x].tracked /\ ~Alive(x)')
      BY <3>2, OverStays
    <3> QED BY <2>1, <3>2, <3>3 DEF Alive
  <2>2. CASE \E c \in todo[v] : /\ child'[v] = c.row
                               /\ IF c.tracked THEN Terminate(c.row) ELSE LetGo(c.row)
    <3>1. PICK c \in todo[v] : /\ child'[v] = c.row
                              /\ IF c.tracked THEN Terminate(c.row) ELSE LetGo(c.row)
      BY <2>2
    <3>2. PICK x \in RowIds : x = c.row /\ (c.tracked => rows'[x].tracked)
      BY <1>1
    <3>3. CASE c.tracked
      <4>1. x \in loose' \/ ~Alive(x)'
        BY <3>1, <3>2, <3>3, Terminated
      <4> QED BY <3>1, <3>2, <3>3, <4>1 DEF Alive
    <3>4. CASE ~c.tracked
      BY <3>1, <3>4 DEF LetGo
    <3> QED BY <3>3, <3>4
  <2> QED BY <1>3, <2>1, <2>2, LocalsNext DEF LocalsMove
<1> QED BY <1>2, <1>3 DEF ChildrenOver, Over, Alive

(***************************************************************************)
(* The poller.                                                             *)
(***************************************************************************)
\* A conclusion that ends a row without a termination rests on a session that
\* has ended, or lets go of it.
LEMMA WhatIsConcluded ==
    ASSUME AllInv, NEW x \in snapshot, GetSession(x) \/ GetSessionFails(x)
    PROVE  ppc' \in {"terminate", "write"} =>
               /\ seen'.row = x.row
               /\ ppc' = "write" /\ seen'.verdict \in TERMINAL_STATUSES =>
                     x.row \in loose' \/ ~Alive(x.row)
<1>1. x.row \in RowIds /\ ppc = "poll"
  BY Concluded DEF AllInv, TypeInv, PollerOK, SnapshotType, Visit
<1>2. CASE FindsInactive(x)
  BY <1>2 DEF FindsInactive, Conclude
<1>3. CASE FindsNoChange(x) \/ GetSessionFails(x)
  BY <1>1, <1>3 DEF FindsNoChange, GetSessionFails
<1>4. CASE FindsChange(x)
  <2>1. CASE FindsMerge(x)
    BY <2>1 DEF FindsMerge, Conclude
  <2>2. CASE FindsClosed(x)
    BY <2>2 DEF FindsClosed, Conclude, LetGo
  <2>3. CASE FindsStatus(x)
    <3>1. Conclude(x, map_status(devin[x.row]), lists[x.row], "write")
      BY <2>3 DEF FindsStatus
    <3>2. devin[x.row] = "suspended" => x.row \in loose'
      BY <2>3 DEF FindsStatus, LetGo
    <3>3. map_status(devin[x.row]) \in TERMINAL_STATUSES =>
              devin[x.row] \in {"exit", "error", "suspended"}
      BY DEF map_status, STATUS_MAP, UNKNOWN_STATUS, TERMINAL_STATUSES
    <3> QED BY <3>1, <3>2, <3>3 DEF Conclude, Alive
  <2> QED BY <1>4, <2>1, <2>2, <2>3 DEF FindsChange
<1> QED BY <1>2, <1>3, <1>4 DEF GetSession

LEMMA VisitsNext ==
    ASSUME AllInv, [Next]_vars
    PROVE  Visits'
<1> USE DEF AllInv
<1>1. /\ \A s \in snapshot : s.row \in RowIds
      /\ ppc \in {"terminate", "write"} => seen.row \in RowIds
  BY DEF TypeInv, PollerOK, SnapshotType, Conclusions
<1>2. CASE UNCHANGED poller
  <2>1. \A s \in snapshot : rows'[s.row].tracked
    BY <1>1, TrackedStays DEF RaceInv, Visits
  <2>2. ppc \in {"terminate", "write"} => rows'[seen.row].tracked
    BY <1>1, TrackedStays DEF RaceInv, Visits
  <2>3. ppc = "write" /\ seen.verdict \in TERMINAL_STATUSES =>
           seen.row \in loose' \/
              (rows'[seen.row].tracked /\ devin'[seen.row] \in {"none", "exit", "error"})
    <3> SUFFICES ASSUME ppc = "write", seen.verdict \in TERMINAL_STATUSES
                 PROVE  seen.row \in loose' \/
                          (/\ rows'[seen.row].tracked
                           /\ devin'[seen.row] \in {"none", "exit", "error"})
      OBVIOUS
    <3>1. PICK x \in RowIds : x = seen.row /\ Over(x)
      BY <1>1 DEF RaceInv, Visits
    <3> QED BY <3>1, OverStays DEF Alive
  <2> QED BY <1>2, <2>1, <2>2, <2>3 DEF Visits, Over, Alive, poller
<1>3. CASE ListNonTerminal
  BY <1>3 DEF ListNonTerminal, table, Visits
<1>4. CASE TickDone \/ PollerWrites
  <2>1. ppc' \in {"idle", "poll"} /\ UNCHANGED snapshot
    BY <1>4 DEF TickDone, PollerWrites
  <2>2. \A s \in snapshot : rows'[s.row].tracked
    BY <1>1, TrackedStays DEF RaceInv, Visits
  <2> QED BY <2>1, <2>2 DEF Visits
<1>5. CASE PollerTerminates
  <2>1. /\ ppc = "terminate" /\ ppc' = "write" /\ UNCHANGED <<rows, snapshot, seen>>
        /\ Terminate(seen.row) /\ seen.row \in RowIds
    BY <1>1, <1>5 DEF PollerTerminates, table
  <2>2. PICK x \in RowIds : x = seen.row /\ (x \in loose' \/ ~Alive(x)')
    BY <2>1, Terminated
  <2> QED BY <2>1, <2>2 DEF RaceInv, Visits, Over, Alive
<1>6. ASSUME NEW s \in snapshot, GetSession(s) \/ GetSessionFails(s) PROVE Visits'
  <2>1. snapshot' = snapshot \ {s} /\ UNCHANGED <<rows, devin>> /\ ppc = "poll"
    BY <1>6, Concluded DEF TypeInv, PollerOK, Visit, table, outside
  <2>2. ppc' \in {"terminate", "write"} =>
           /\ seen'.row = s.row
           /\ ppc' = "write" /\ seen'.verdict \in TERMINAL_STATUSES =>
                 s.row \in loose' \/ ~Alive(s.row)
    BY <1>6, WhatIsConcluded
  <2> QED BY <2>1, <2>2 DEF RaceInv, Visits, Over, Alive
<1>7. CASE \E w \in Workers : (\E r \in Runs : Deliver(w, r)) \/ HandlerStep(w)
  BY <1>2, <1>7, OthersStay
<1>8. CASE OutsideStep \/ UNCHANGED vars
  BY <1>2, <1>8 DEF OutsideStep, DevinMoves, DevinListsPR, PrEndsAs, HumanCommits, vars
<1>9. CASE Interruption
  <2>1. CASE ppc' = "idle" /\ snapshot' = {}
    BY <2>1 DEF Visits
  <2> QED BY <1>2, <1>9, <2>1, Interrupts
<1> QED BY <1>3, <1>4, <1>5, <1>6, <1>7, <1>8, <1>9
        DEF Next, OutsideStep, PollerStep, Interruption

LEMMA RaceNext == AllInv /\ [Next]_vars => AllInv'
<1> SUFFICES ASSUME AllInv, [Next]_vars PROVE AllInv'
  OBVIOUS
<1>1. TypeInv' /\ ChainInv' /\ OnceInv'
  BY TypeNext, ChainNext, OnceNext DEF AllInv
<1>2. Registered' /\ EndsAreReal' /\ Visits'
  BY RowsNext, VisitsNext
<1>3. \A w \in Workers : Knows(w)'
  BY OwnsRowNext, ParentOverNext, ChildrenOverNext DEF Knows
<1> QED BY <1>1, <1>2, <1>3 DEF AllInv, RaceInv

\* handle_ci_failure creates a fix-session beside the live Devin session of its
\* parent only if that one was let go of: a termination of it failed, its pull
\* request was closed unmerged, Devin had suspended it, or an escalation
\* cancelled it before its id was stored.  Whatever crashes, raises, is
\* redelivered or is read too early, there is no other way.
THEOREM OnlyTheLooseAreRaced == Spec => RacesOnlyTheLoose
<1>1. Init => AllInv
  BY TypeInit, ChainInit, OnceInit, RaceInit DEF AllInv
<1>2. AllInv /\ [Next]_vars => AllInv'
  BY RaceNext
<1>3. AllInv /\ [Next]_vars
        => [\A r \in Runs :
              (devin[r] = "none" /\ devin'[r] # "none" /\ Alive(rows[r].parent)) =>
                  rows[r].parent \in loose]_devin
  <2> SUFFICES ASSUME AllInv, [Next]_vars, NEW r \in Runs, devin[r] = "none",
                      devin'[r] # "none", Alive(rows[r].parent)
               PROVE  rows[r].parent \in loose
    OBVIOUS
  <2>1. ~Alive(r) /\ r \in RowIds
    BY RowIdsFinite DEF Alive
  <2>2. PICK w \in Workers : Create(w) /\ run[w] = r
    BY <2>1, SessionsStart
  <2>3. rows[r].parent = parent[w] /\ Over(parent[w])
    BY <2>2 DEF Create, AllInv, RaceInv, Knows, OwnsRow, ParentOver, Holding, Informed, Labels
  <2> QED BY <2>3 DEF Over
<1> QED BY <1>1, <1>2, <1>3, PTL DEF Spec, RacesOnlyTheLoose
=============================================================================
