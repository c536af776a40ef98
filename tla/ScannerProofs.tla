--------------------------- MODULE ScannerProofs ---------------------------
(***************************************************************************)
(* Theorems about Scanner, for any refs, records, ids and bounds.          *)
(***************************************************************************)
EXTENDS Scanner, FiniteSetTheorems, WellFoundedInduction, TLAPS

(***************************************************************************)
(* Type correctness.  Two findings of one record are one finding.          *)
(***************************************************************************)
TodoIsAQueue ==
    \A r \in Refs : \A f, g \in todo[r] : f.at = g.at => f = g

TypeInv == TypeOK /\ TodoIsAQueue

LEMMA Antisymmetric == \A a, b \in Nat : a <= b /\ b <= a => a = b
OBVIOUS

LEMMA UniqueFixable ==
    /\ unique_fixable \subseteq [at : Records, cve : Ids]
    /\ \A f, g \in unique_fixable : f.cve = g.cve \/ f.at = g.at => f = g
<1>1. \A v \in Fixable : v \in Records /\ v \in Nat /\ cve_id(v) \in Ids
  BY ScannerAssumption DEF cve_id
<1>2. unique_fixable \subseteq [at : Records, cve : Ids]
  BY <1>1 DEF unique_fixable, Findings
<1>3. ASSUME NEW f \in unique_fixable, NEW g \in unique_fixable,
             f.cve = g.cve \/ f.at = g.at
      PROVE  f = g
  <2>1. f.at \in Nat /\ g.at \in Nat /\ f.cve = cve_id(f.at) /\ g.cve = cve_id(g.at)
    BY <1>1 DEF unique_fixable, Findings
  <2>2. f.at = g.at
    BY <1>3, <2>1 DEF unique_fixable
  <2> QED BY <1>2, <2>1, <2>2
<1> QED BY <1>2, <1>3

LEMMA TypeInit == Init => TypeInv
BY ScannerAssumption DEF Init, TypeInv, TypeOK, TodoIsAQueue

LEMMA TypeNext == TypeInv /\ [Next]_vars => TypeInv'
<1> SUFFICES ASSUME TypeInv, [Next]_vars PROVE TypeInv'
  OBVIOUS
<1> USE ScannerAssumption DEF TypeInv, TypeOK, TodoIsAQueue, job
<1>1. ASSUME NEW r \in Refs, StartScan(r) \/ CancelScan(r)
      PROVE  TypeInv'
  <2>1. Begin(r) /\ (failures' = failures \/ failures' = failures + 1)
    BY <1>1 DEF StartScan, CancelScan, Fails
  <2>2. scans' \in 0 .. MaxScans
    BY <2>1 DEF Begin, Saturated
  <2>3. /\ pc' \in [Refs -> {"idle", "scan", "search", "create"}]
        /\ todo' \in [Refs -> SUBSET [at : Records, cve : Ids]]
        /\ failed' \in [Refs -> BOOLEAN]
    BY <2>1 DEF Begin
  <2>4. \A s \in Refs : (pc'[s] = "create" => todo'[s] # {})
                         /\ (todo'[s] = todo[s] \/ todo'[s] = {})
    BY <2>1 DEF Begin
  <2> QED BY <2>1, <2>2, <2>3, <2>4 DEF Begin
<1>2. ASSUME NEW r \in Refs, ScanOSV(r)
      PROVE  TypeInv'
  BY <1>2, UniqueFixable DEF ScanOSV, Fails
<1>3. ASSUME NEW r \in Refs, NEW f \in todo[r], NEW rows \in SUBSET Titles,
             Search(r, f, rows)
      PROVE  TypeInv'
  <2>1. f \in [at : Records, cve : Ids]
    OBVIOUS
  <2>2. blind' \in [Ids -> Nat]
    BY <1>3, <2>1 DEF Search
  <2> QED BY <1>3, <2>1, <2>2 DEF Search, DealtWith, Current
<1>4. ASSUME NEW r \in Refs, NEW f \in todo[r], FileIssue(r, f)
      PROVE  TypeInv'
  <2>1. f \in [at : Records, cve : Ids]
    OBVIOUS
  <2>2. issues' \in [Ids -> Nat] /\ failures' \in Nat
    BY <1>4, <2>1 DEF FileIssue, Fails
  <2> QED BY <1>4, <2>1, <2>2 DEF FileIssue, DealtWith
<1>5. ASSUME NEW r \in Refs, EndScan(r)
      PROVE  TypeInv'
  BY <1>5 DEF EndScan
<1>6. ASSUME NEW v \in Records, AliasAdded(v)
      PROVE  TypeInv'
  BY <1>6 DEF AliasAdded
<1>7. CASE UNCHANGED vars
  BY <1>7 DEF vars
<1> QED BY <1>1, <1>2, <1>3, <1>4, <1>5, <1>6, <1>7 DEF Next, RunStep

LEMMA Typed == Spec => []TypeInv
BY TypeInit, TypeNext, PTL DEF Spec

\* Every variable keeps its type, whatever OSV and GitHub answer; a run that
\* is about to create has a finding to create an issue for, and deals with
\* each id once.
THEOREM TypeCorrect == Spec => []TypeOK
<1>1. TypeInv => TypeOK
  BY DEF TypeInv
<1> QED BY <1>1, Typed, PTL

(***************************************************************************)
(* Steps that file nothing add no run to those that are about to.          *)
(***************************************************************************)
LEMMA FilingFinite ==
    ASSUME NEW id \in Ids
    PROVE  /\ IsFiniteSet(Filing(id)) /\ Cardinality(Filing(id)) \in Nat
           /\ Cardinality(Filing(id)) <= Cardinality(Refs)
           /\ Cardinality(Refs) \in Nat
<1>1. Filing(id) \in SUBSET Refs
  BY DEF Filing
<1> QED BY <1>1, ScannerAssumption, FS_Subset, FS_CardinalityType

LEMMA FilingShrinks ==
    ASSUME TypeInv, TypeInv', DuplicatesBounded, UNCHANGED issues, UNCHANGED blind,
           \A id \in Ids : Filing(id)' \subseteq Filing(id)
    PROVE  DuplicatesBounded'
<1> SUFFICES ASSUME NEW id \in Ids
             PROVE  issues[id] + Cardinality(Filing(id)')
                        <= Cardinality(Refs) + blind[id]
  BY DEF DuplicatesBounded
<1>1. IsFiniteSet(Filing(id)) /\ Cardinality(Filing(id)) \in Nat
  BY FilingFinite
<1>2. Filing(id)' \in SUBSET Filing(id)
  OBVIOUS
<1>3. Cardinality(Filing(id)') <= Cardinality(Filing(id))
  BY <1>1, <1>2, FS_Subset
<1>4. Cardinality(Filing(id)') \in Nat /\ Cardinality(Refs) \in Nat
  BY <1>1, <1>2, FS_Subset, FS_CardinalityType, FilingFinite
<1>5. issues[id] \in Nat /\ blind[id] \in Nat
  BY DEF TypeInv, TypeOK
<1> QED BY <1>1, <1>3, <1>4, <1>5 DEF DuplicatesBounded

\* A search that shows no issue for the id: either there is none, and the
\* runs that are about to create one are all there will be, or one is
\* overlooked.
LEMMA DuplicatesSearch ==
    ASSUME TypeInv, TypeInv', DuplicatesBounded, NEW r \in Refs, NEW f \in todo[r],
           NEW rows \in SUBSET Titles, Search(r, f, rows)
    PROVE  DuplicatesBounded'
<1> USE ScannerAssumption DEF TypeInv, TypeOK, TodoIsAQueue, job
<1>1. f \in [at : Records, cve : Ids] /\ UNCHANGED issues
  BY DEF Search
<1>2. CASE existing_issue_for(f.cve, rows)
  <2>1. \A id \in Ids : Filing(id)' \subseteq Filing(id)
    BY <1>2 DEF Search, DealtWith, Filing, Current
  <2>2. UNCHANGED blind
    BY <1>2 DEF Search, existing_issue_for
  <2> QED BY <1>1, <2>1, <2>2, FilingShrinks
<1>3. CASE ~existing_issue_for(f.cve, rows)
  <2>1. \A id \in Ids : Filing(id)' \subseteq
            IF id = f.cve THEN Filing(id) \cup {r} ELSE Filing(id)
    <3> SUFFICES ASSUME NEW id \in Ids, NEW s \in Filing(id)'
                 PROVE  s \in Filing(id) \/ (id = f.cve /\ s = r)
      OBVIOUS
    <3>1. CASE s # r
      BY <1>3, <3>1 DEF Filing, Search, Current
    <3>2. CASE s = r
      <4>1. PICK g \in todo[r] : Current(r, g) /\ g.cve = id
        BY <1>3, <3>2 DEF Filing, Search, Current
      <4>2. g \in [at : Records, cve : Ids]
        BY <4>1
      <4>3. Current(r, f)
        BY DEF Search
      <4>4. g.at \in Nat /\ f.at \in Nat /\ g.at <= f.at /\ f.at <= g.at
        BY <1>1, <4>1, <4>2, <4>3 DEF Current
      <4>5. g.at = f.at
        BY <4>4, Antisymmetric
      <4>6. g = f
        BY <4>1, <4>5
      <4> QED BY <3>2, <4>1, <4>6
    <3> QED BY <3>1, <3>2
  <2> SUFFICES ASSUME NEW id \in Ids
               PROVE  issues[id] + Cardinality(Filing(id)')
                          <= Cardinality(Refs) + blind'[id]
    BY <1>1 DEF DuplicatesBounded
  <2>2. /\ Cardinality(Filing(id)') \in Nat /\ Cardinality(Refs) \in Nat
        /\ Cardinality(Filing(id)') <= Cardinality(Refs)
    <3>1. Filing(id)' \in SUBSET Refs
      BY DEF Filing
    <3> QED BY <3>1, FS_Subset, FS_CardinalityType
  <2>3. IsFiniteSet(Filing(id)) /\ Cardinality(Filing(id)) \in Nat
    BY FilingFinite
  <2>4. CASE id # f.cve
    <3>1. Filing(id)' \in SUBSET Filing(id) /\ blind'[id] = blind[id]
      BY <1>1, <2>1, <2>4 DEF Search
    <3>2. Cardinality(Filing(id)') <= Cardinality(Filing(id))
      BY <2>3, <3>1, FS_Subset
    <3> QED BY <2>2, <2>3, <3>1, <3>2 DEF DuplicatesBounded
  <2>5. CASE id = f.cve /\ About(f.cve) # {}
    <3>1. blind'[id] = blind[id] + 1
      BY <1>1, <1>3, <2>5 DEF Search, existing_issue_for
    <3>2. /\ IsFiniteSet(Filing(id) \cup {r})
          /\ Cardinality(Filing(id) \cup {r}) =
                IF r \in Filing(id) THEN Cardinality(Filing(id))
                ELSE Cardinality(Filing(id)) + 1
      BY <2>3, FS_AddElement
    <3>3. Filing(id)' \in SUBSET (Filing(id) \cup {r})
      BY <2>1, <2>5
    <3>4. Cardinality(Filing(id)') <= Cardinality(Filing(id) \cup {r})
      BY <3>2, <3>3, FS_Subset
    <3> QED BY <2>2, <2>3, <3>1, <3>2, <3>4 DEF DuplicatesBounded
  <2>6. CASE id = f.cve /\ About(f.cve) = {}
    <3>1. <<id, id>> \in Within
      OBVIOUS
    <3>2. id \notin Titles
      BY <2>6, <3>1 DEF About
    <3>3. issues'[id] = 0
      BY <1>1, <3>2 DEF Titles
    <3>4. blind'[id] \in Nat
      OBVIOUS
    <3> QED BY <1>1, <2>2, <3>3, <3>4
  <2> QED BY <2>4, <2>5, <2>6
<1> QED BY <1>2, <1>3

\* An issue takes the place of the run that was about to file it.
LEMMA DuplicatesFile ==
    ASSUME TypeInv, TypeInv', DuplicatesBounded, NEW r \in Refs, NEW f \in todo[r],
           FileIssue(r, f)
    PROVE  DuplicatesBounded'
<1> USE ScannerAssumption DEF TypeInv, TypeOK, job
<1>1. f \in [at : Records, cve : Ids] /\ UNCHANGED blind /\ r \in Filing(f.cve)
  BY DEF FileIssue, Filing
<1>2. \A id \in Ids : Filing(id)' \subseteq Filing(id) \ {r}
  BY DEF FileIssue, DealtWith, Filing, Current
<1> SUFFICES ASSUME NEW id \in Ids
             PROVE  issues'[id] + Cardinality(Filing(id)')
                        <= Cardinality(Refs) + blind[id]
  BY <1>1 DEF DuplicatesBounded
<1>3. /\ IsFiniteSet(Filing(id)) /\ Cardinality(Filing(id)) \in Nat
      /\ Cardinality(Refs) \in Nat
  BY FilingFinite
<1>4. /\ IsFiniteSet(Filing(id) \ {r})
      /\ Cardinality(Filing(id) \ {r}) =
            IF r \in Filing(id) THEN Cardinality(Filing(id)) - 1
            ELSE Cardinality(Filing(id))
  BY <1>3, FS_RemoveElement
<1>5. Filing(id)' \in SUBSET (Filing(id) \ {r})
  BY <1>2
<1>6. /\ Cardinality(Filing(id)') <= Cardinality(Filing(id) \ {r})
      /\ Cardinality(Filing(id)') \in Nat /\ Cardinality(Filing(id) \ {r}) \in Nat
  BY <1>4, <1>5, FS_Subset, FS_CardinalityType
<1>7. \/ issues'[id] = issues[id]
      \/ id = f.cve /\ issues'[id] = issues[id] + 1
  BY <1>1 DEF FileIssue
<1> QED BY <1>1, <1>3, <1>4, <1>6, <1>7 DEF DuplicatesBounded

LEMMA DuplicatesNext ==
    TypeInv /\ TypeInv' /\ DuplicatesBounded /\ [Next]_vars => DuplicatesBounded'
<1> SUFFICES ASSUME TypeInv, TypeInv', DuplicatesBounded, [Next]_vars
             PROVE  DuplicatesBounded'
  OBVIOUS
<1> USE DEF TypeInv, TypeOK, job
<1>1. ASSUME NEW r \in Refs, StartScan(r) \/ CancelScan(r) \/ ScanOSV(r) \/ EndScan(r)
      PROVE  DuplicatesBounded'
  <2>1. \A id \in Ids : Filing(id)' \subseteq Filing(id)
    BY <1>1 DEF StartScan, CancelScan, Begin, ScanOSV, EndScan, Filing, Current
  <2> QED BY <1>1, <2>1, FilingShrinks DEF StartScan, CancelScan, Begin, ScanOSV, EndScan
<1>2. CASE (\E v \in Records : AliasAdded(v)) \/ UNCHANGED vars
  <2>1. UNCHANGED <<pc, todo, issues, blind>>
    BY <1>2 DEF AliasAdded, vars
  <2>2. \A id \in Ids : Filing(id)' = Filing(id)
    BY <2>1 DEF Filing, Current
  <2> QED BY <2>1, <2>2, FilingShrinks
<1> QED BY <1>1, <1>2, DuplicatesSearch, DuplicatesFile DEF Next, RunStep

\* However scans overlap, are cancelled and fail: an id is filed at most once
\* for each ref and once more for each search that overlooked its issue.
THEOREM DuplicatesAreBounded == Spec => []DuplicatesBounded
<1>1. Init => DuplicatesBounded
  <2> SUFFICES ASSUME Init, NEW id \in Ids
               PROVE  issues[id] + Cardinality(Filing(id))
                          <= Cardinality(Refs) + blind[id]
    BY DEF DuplicatesBounded
  <2>1. issues[id] = 0 /\ blind[id] = 0
    BY DEF Init
  <2> QED BY <2>1, FilingFinite
<1> QED BY <1>1, Typed, DuplicatesNext, PTL DEF Spec

(***************************************************************************)
(* A run may still file an id from its start until it has dealt with it:   *)
(* the issues of an id and the runs that may add one are no more than the  *)
(* runs so far.                                                            *)
(***************************************************************************)
Pending(id) == {r \in Refs : pc[r] = "scan" \/ \E f \in todo[r] : f.cve = id}

OnePerPending ==
    scans < MaxScans => \A id \in Ids : issues[id] + Cardinality(Pending(id)) <= scans

LEMMA PendingFinite ==
    ASSUME NEW id \in Ids
    PROVE  IsFiniteSet(Pending(id)) /\ Cardinality(Pending(id)) \in Nat
<1>1. Pending(id) \in SUBSET Refs
  BY DEF Pending
<1> QED BY <1>1, ScannerAssumption, FS_Subset, FS_CardinalityType

LEMMA PendingShrinks ==
    ASSUME TypeInv, TypeInv', OnePerPending, UNCHANGED <<issues, scans>>,
           \A id \in Ids : Pending(id)' \subseteq Pending(id)
    PROVE  OnePerPending'
<1> SUFFICES ASSUME scans < MaxScans, NEW id \in Ids
             PROVE  issues[id] + Cardinality(Pending(id)') <= scans
  BY DEF OnePerPending
<1>1. IsFiniteSet(Pending(id)) /\ Cardinality(Pending(id)) \in Nat
  BY PendingFinite
<1>2. Pending(id)' \in SUBSET Pending(id)
  OBVIOUS
<1>3. /\ Cardinality(Pending(id)') <= Cardinality(Pending(id))
      /\ Cardinality(Pending(id)') \in Nat
  BY <1>1, <1>2, FS_Subset, FS_CardinalityType
<1>4. issues[id] \in Nat /\ scans \in Nat
  BY ScannerAssumption DEF TypeInv, TypeOK
<1> QED BY <1>1, <1>3, <1>4 DEF OnePerPending

\* A new run is one more that may file, and one more that is counted.
LEMMA PendingBegin ==
    ASSUME TypeInv, TypeInv', OnePerPending, NEW r \in Refs, Begin(r)
    PROVE  OnePerPending'
<1> USE ScannerAssumption DEF TypeInv, TypeOK
<1>1. UNCHANGED issues /\ scans' = (IF scans < MaxScans THEN scans + 1 ELSE scans)
  BY DEF Begin, Saturated
<1> SUFFICES ASSUME scans' < MaxScans, NEW id \in Ids
             PROVE  issues[id] + Cardinality(Pending(id)') <= scans'
  BY <1>1 DEF OnePerPending
<1>2. scans < MaxScans /\ scans' = scans + 1
  BY <1>1
<1>3. IsFiniteSet(Pending(id)) /\ Cardinality(Pending(id)) \in Nat
  BY PendingFinite
<1>4. /\ IsFiniteSet(Pending(id) \cup {r})
      /\ Cardinality(Pending(id) \cup {r}) =
            IF r \in Pending(id) THEN Cardinality(Pending(id))
            ELSE Cardinality(Pending(id)) + 1
  BY <1>3, FS_AddElement
<1>5. Pending(id)' \in SUBSET (Pending(id) \cup {r})
  BY DEF Begin, Pending
<1>6. /\ Cardinality(Pending(id)') <= Cardinality(Pending(id) \cup {r})
      /\ Cardinality(Pending(id)') \in Nat
  BY <1>4, <1>5, FS_Subset, FS_CardinalityType
<1>7. issues[id] + Cardinality(Pending(id)) <= scans
  BY <1>2 DEF OnePerPending
<1> QED BY <1>2, <1>3, <1>4, <1>6, <1>7

\* The run that files an id deals with it no more: its findings have
\* different ids.
LEMMA PendingFile ==
    ASSUME TypeInv, TypeInv', OnePerPending, NEW r \in Refs, NEW f \in todo[r],
           FileIssue(r, f)
    PROVE  OnePerPending'
<1> USE ScannerAssumption DEF TypeInv, TypeOK, job
<1>1. f \in [at : Records, cve : Ids] /\ UNCHANGED scans /\ r \in Pending(f.cve)
  BY DEF FileIssue, Pending
<1> SUFFICES ASSUME scans < MaxScans, NEW id \in Ids
             PROVE  issues'[id] + Cardinality(Pending(id)') <= scans
  BY <1>1 DEF OnePerPending
<1>2. IsFiniteSet(Pending(id)) /\ Cardinality(Pending(id)) \in Nat
  BY PendingFinite
<1>3. issues[id] + Cardinality(Pending(id)) <= scans
  BY DEF OnePerPending
<1>4. Pending(id)' \subseteq (IF id = f.cve THEN Pending(id) \ {r} ELSE Pending(id))
  <2>1. /\ todo' = [todo EXCEPT ![r] = @ \ {f}]
        /\ pc' = [pc EXCEPT ![r] = "search"]
    BY DEF FileIssue, DealtWith
  <2>2. \A g \in todo'[r] : g \in todo[r] /\ g.cve # f.cve
    BY <2>1
  <2> QED BY <2>1, <2>2 DEF Pending
<1>5. /\ IsFiniteSet(Pending(id) \ {r})
      /\ Cardinality(Pending(id) \ {r}) =
            IF r \in Pending(id) THEN Cardinality(Pending(id)) - 1
            ELSE Cardinality(Pending(id))
  BY <1>2, FS_RemoveElement
<1>6. CASE id = f.cve
  <2>1. Pending(id)' \in SUBSET (Pending(id) \ {r})
    BY <1>4, <1>6
  <2>2. /\ Cardinality(Pending(id)') <= Cardinality(Pending(id) \ {r})
        /\ Cardinality(Pending(id)') \in Nat
    BY <1>5, <2>1, FS_Subset, FS_CardinalityType
  <2>3. issues'[id] \in {issues[id], issues[id] + 1}
    BY <1>6 DEF FileIssue
  <2>4. Cardinality(Pending(id) \ {r}) = Cardinality(Pending(id)) - 1
    BY <1>1, <1>5, <1>6
  <2> QED BY <1>2, <1>3, <2>2, <2>3, <2>4
<1>7. CASE id # f.cve
  <2>1. Pending(id)' \in SUBSET Pending(id)
    BY <1>4, <1>7
  <2>2. /\ Cardinality(Pending(id)') <= Cardinality(Pending(id))
        /\ Cardinality(Pending(id)') \in Nat
    BY <1>2, <2>1, FS_Subset, FS_CardinalityType
  <2>3. issues'[id] = issues[id]
    BY <1>1, <1>7 DEF FileIssue
  <2> QED BY <1>2, <1>3, <2>2, <2>3
<1> QED BY <1>6, <1>7

LEMMA PendingNext == TypeInv /\ TypeInv' /\ OnePerPending /\ [Next]_vars => OnePerPending'
<1> SUFFICES ASSUME TypeInv, TypeInv', OnePerPending, [Next]_vars
             PROVE  OnePerPending'
  OBVIOUS
<1> USE DEF TypeInv, TypeOK, job
<1>1. ASSUME NEW r \in Refs, StartScan(r) \/ CancelScan(r)
      PROVE  OnePerPending'
  BY <1>1, PendingBegin DEF StartScan, CancelScan
<1>2. ASSUME NEW r \in Refs, ScanOSV(r) \/ EndScan(r)
      PROVE  OnePerPending'
  <2>1. \A id \in Ids : Pending(id)' \subseteq Pending(id)
    BY <1>2 DEF ScanOSV, EndScan, Pending
  <2> QED BY <1>2, <2>1, PendingShrinks DEF ScanOSV, EndScan
<1>3. ASSUME NEW r \in Refs, NEW f \in todo[r], NEW rows \in SUBSET Titles,
             Search(r, f, rows)
      PROVE  OnePerPending'
  <2>1. \A id \in Ids : Pending(id)' \subseteq Pending(id)
    BY <1>3 DEF Search, DealtWith, Pending
  <2> QED BY <1>3, <2>1, PendingShrinks DEF Search
<1>4. CASE (\E v \in Records : AliasAdded(v)) \/ UNCHANGED vars
  <2>1. UNCHANGED <<pc, todo, issues, scans>>
    BY <1>4 DEF AliasAdded, vars
  <2>2. \A id \in Ids : Pending(id)' = Pending(id)
    BY <2>1 DEF Pending
  <2> QED BY <2>1, <2>2, PendingShrinks
<1> QED BY <1>1, <1>2, <1>3, <1>4, PendingFile DEF Next, RunStep

\* A run files an id at most once, whatever the search shows and however
\* many records go by that id.
THEOREM FiledOncePerRun == Spec => []OncePerRun
<1>1. Init => OnePerPending
  <2> SUFFICES ASSUME Init, NEW id \in Ids
               PROVE  issues[id] + Cardinality(Pending(id)) <= scans
    BY DEF OnePerPending
  <2>1. issues[id] = 0 /\ scans = 0 /\ Pending(id) = {}
    BY DEF Init, Pending
  <2> QED BY <2>1, FS_EmptySet
<1>2. TypeInv /\ OnePerPending => OncePerRun
  <2> SUFFICES ASSUME TypeInv, OnePerPending, scans < MaxScans, NEW id \in Ids
               PROVE  issues[id] <= scans
    BY DEF OncePerRun
  <2>1. issues[id] \in Nat /\ scans \in Nat /\ Cardinality(Pending(id)) \in Nat
    BY PendingFinite, ScannerAssumption DEF TypeInv, TypeOK
  <2> QED BY <2>1 DEF OnePerPending
<1> QED BY <1>1, <1>2, Typed, PendingNext, PTL DEF Spec

(***************************************************************************)
(* Green runs.  From its answer by OSV on, a run that has not failed has   *)
(* every vulnerability on its list or on GitHub.                           *)
(***************************************************************************)
LEMMA LeastRecord ==
    ASSUME NEW S \in SUBSET Nat, S # {}
    PROVE  \E m \in S : \A k \in S : m <= k
<1> DEFINE Less == OpToRel(<, Nat)
<1>1. IsWellFoundedOn(Less, Nat)
  BY NatLessThanWellFounded
<1>2. \A k, m \in Nat : k < m => <<k, m>> \in Less
  BY DEF Less, OpToRel
<1> HIDE DEF Less
<1>3. S \subseteq Nat /\ \E k : k \in S
  OBVIOUS
<1>4. PICK m \in S : \A k \in S : <<k, m>> \notin Less
  BY <1>1, <1>3, WFMin
<1>5. \A k \in S : ~(k < m) /\ k \in Nat /\ m \in Nat
  BY <1>2, <1>3, <1>4
<1> QED BY <1>5

\* Of the records that go by one id the first is kept: no id gets lost.
LEMMA EveryIdIsKept ==
    ASSUME NEW v \in Fixable
    PROVE  \E f \in unique_fixable : f.cve = cve_id(v)
<1> DEFINE S == {u \in Fixable : cve_id(u) = cve_id(v)}
<1>1. S \in SUBSET Nat /\ S # {}
  BY ScannerAssumption
<1>2. PICK u \in S : \A k \in S : u <= k
  BY <1>1, LeastRecord
<1> DEFINE f == [at |-> u, cve |-> cve_id(u)]
<1>3. f \in Findings /\ f.cve = cve_id(v)
  BY <1>2 DEF Findings
<1>4. ASSUME NEW g \in Findings, g.cve = f.cve PROVE f.at <= g.at
  <2>1. PICK k \in Fixable : g = [at |-> k, cve |-> cve_id(k)]
    BY DEF Findings
  <2>2. k \in S
    BY <1>3, <1>4, <2>1
  <2> QED BY <1>2, <2>1, <2>2
<1> QED BY <1>3, <1>4 DEF unique_fixable

Listed(r, v) == \E f \in todo[r] : f.cve \in Names(v)

Tracked(v) == \E n \in Names(v) : issues[n] > 0

NothingLost ==
    \A r \in Refs, v \in Fixable :
        (pc[r] \in {"search", "create"} /\ ~failed[r] /\ Unmistakable(v)) =>
            Listed(r, v) \/ Tracked(v)

\* Issues are never deleted.
LEMMA TrackedStaysTracked ==
    ASSUME TypeInv, [Next]_vars, NEW v \in Fixable, Tracked(v)
    PROVE  Tracked(v)'
<1>1. Names(v) \subseteq Ids
  BY ScannerAssumption DEF Names
<1>2. \A i \in Ids : issues[i] \in Nat /\ issues'[i] \in {issues[i], issues[i] + 1}
  BY DEF TypeInv, TypeOK, Next, RunStep, StartScan, CancelScan, Begin, ScanOSV, EndScan,
         FileIssue, Search, AliasAdded, vars
<1>3. PICK n \in Names(v) : issues[n] > 0
  BY DEF Tracked
<1>4. issues'[n] > 0
  BY <1>1, <1>2, <1>3
<1> QED BY <1>4 DEF Tracked

LEMMA LostNext == TypeInv /\ NothingLost /\ [Next]_vars => NothingLost'
<1> SUFFICES ASSUME TypeInv, NothingLost, [Next]_vars, NEW r \in Refs, NEW v \in Fixable,
                    pc'[r] \in {"search", "create"}, ~failed'[r], Unmistakable(v)
             PROVE  Listed(r, v)' \/ Tracked(v)'
  BY DEF NothingLost
<1> USE ScannerAssumption DEF TypeInv, TypeOK, job
<1>1. v \in Records /\ Names(v) \subseteq Ids /\ cve_id(v) \in Names(v)
  BY DEF Names, cve_id
<1>2. CASE pc[r] \in {"search", "create"} /\ ~failed[r] /\ todo'[r] = todo[r]
  BY <1>2, TrackedStaysTracked DEF NothingLost, Listed
<1>3. ASSUME NEW s \in Refs, StartScan(s) \/ CancelScan(s) PROVE Listed(r, v)' \/ Tracked(v)'
  <2>1. s # r /\ pc'[r] = pc[r] /\ failed'[r] = failed[r] /\ todo'[r] = todo[r]
    BY <1>3 DEF StartScan, CancelScan, Begin
  <2> QED BY <1>2, <2>1
<1>4. ASSUME NEW s \in Refs, ScanOSV(s) PROVE Listed(r, v)' \/ Tracked(v)'
  <2>1. CASE s = r
    <3>1. todo'[r] = unique_fixable
      BY <1>4, <2>1 DEF ScanOSV
    <3> QED BY <1>1, <3>1, EveryIdIsKept DEF Listed
  <2>2. CASE s # r
    BY <1>2, <1>4, <2>2 DEF ScanOSV
  <2> QED BY <2>1, <2>2
<1>5. ASSUME NEW s \in Refs, EndScan(s) PROVE Listed(r, v)' \/ Tracked(v)'
  BY <1>2, <1>5 DEF EndScan
<1>6. ASSUME NEW s \in Refs, NEW f \in todo[s], NEW rows \in SUBSET Titles, Search(s, f, rows)
      PROVE  Listed(r, v)' \/ Tracked(v)'
  <2>1. pc[r] \in {"search", "create"} /\ ~failed[r]
    BY <1>6 DEF Search, DealtWith
  <2>2. CASE Tracked(v)
    BY <2>2, TrackedStaysTracked
  <2>3. CASE Listed(r, v) /\ ~Tracked(v)
    <3>1. PICK g \in todo[r] : g.cve \in Names(v)
      BY <2>3 DEF Listed
    <3>2. CASE g \in todo'[r]
      BY <3>1, <3>2 DEF Listed
    <3>3. CASE g \notin todo'[r]
      <4>1. g = f /\ existing_issue_for(f.cve, rows)
        BY <1>6, <3>1, <3>3 DEF Search, DealtWith
      <4>2. PICK t \in Titles : <<f.cve, t>> \in Within
        BY <4>1 DEF existing_issue_for, About
      <4>3. t \in Ids /\ issues[t] > 0
        BY DEF Titles
      <4>4. t = f.cve
        BY <3>1, <4>1, <4>2, <4>3 DEF Unmistakable
      <4> QED BY <2>3, <3>1, <4>1, <4>3, <4>4 DEF Tracked
    <3> QED BY <3>2, <3>3
  <2> QED BY <2>1, <2>2, <2>3 DEF NothingLost
<1>7. ASSUME NEW s \in Refs, NEW f \in todo[s], FileIssue(s, f)
      PROVE  Listed(r, v)' \/ Tracked(v)'
  <2>1. pc[r] \in {"search", "create"} /\ ~failed[r]
    BY <1>7 DEF FileIssue, DealtWith
  <2>2. CASE Tracked(v)
    BY <2>2, TrackedStaysTracked
  <2>3. CASE Listed(r, v)
    <3>1. PICK g \in todo[r] : g.cve \in Names(v)
      BY <2>3 DEF Listed
    <3>2. CASE g \in todo'[r]
      BY <3>1, <3>2 DEF Listed
    <3>3. CASE g \notin todo'[r]
      <4>1. g = f /\ s = r
        BY <1>7, <3>1, <3>3 DEF FileIssue, DealtWith
      <4>2. issues' = [issues EXCEPT ![f.cve] = @ + 1]
        BY <1>7, <4>1 DEF FileIssue
      <4>3. issues'[f.cve] > 0
        BY <1>1, <3>1, <4>1, <4>2
      <4> QED BY <3>1, <4>1, <4>3 DEF Tracked
    <3> QED BY <3>2, <3>3
  <2> QED BY <2>1, <2>2, <2>3 DEF NothingLost
<1>8. CASE (\E u \in Records : AliasAdded(u)) \/ UNCHANGED vars
  BY <1>2, <1>8 DEF AliasAdded, vars
<1> QED BY <1>3, <1>4, <1>5, <1>6, <1>7, <1>8 DEF Next, RunStep

\* When a run ends green, every vulnerability with a fix that no other id can be
\* mistaken for has an issue of its own, under one of its names.
THEOREM GreenIsTracked == Spec => GreenMeansTracked
<1>1. Init => NothingLost
  BY DEF Init, NothingLost
<1>2. TypeInv /\ NothingLost /\ [Next]_vars
        => [\A r \in Refs, v \in Fixable :
              (EndScan(r) /\ ~failed[r] /\ Unmistakable(v)) =>
                  \E n \in Names(v) : issues[n] > 0]_pc
  BY DEF NothingLost, EndScan, Listed, Tracked
<1> QED BY <1>1, <1>2, Typed, LostNext, PTL DEF Spec, GreenMeansTracked
=============================================================================
