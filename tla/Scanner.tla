------------------------------ MODULE Scanner ------------------------------
(***************************************************************************)
(* The source of the events: the CVE-scan workflow of the fork             *)
(* (superset-fork-scripts/cve-scan.yml), whose scan_osv.py asks OSV about  *)
(* the pinned packages and whose file_issues.py files an issue for each    *)
(* finding that has a fix, unless a search of GitHub shows one.            *)
(*                                                                         *)
(* A workflow runs once per ref at a time (a new run cancels the one under *)
(* way), runs on different refs overlap.  Nothing is shared but the issues *)
(* on GitHub.  One action is one call of the gh tool; pc[r] is the next    *)
(* step of the run on ref r.                                               *)
(***************************************************************************)
EXTENDS Integers, FiniteSets

CONSTANTS
    Refs,           \* git refs the workflow runs on
    Main,           \* the default branch, which the schedule runs it on
    Records,        \* OSV records of the pinned packages, in scan order
    Ids,            \* ids of vulnerabilities
    OwnId, CveAlias,    \* a record's own id, and the CVE id among its
                    \*   aliases, which may be added after publication
    Fixable,        \* records with a fixed version
    Within,         \* <<a, b>>: the text a occurs in the title for b
    MaxScans,       \* bounds: runs counted one by one,
    MaxBlind,       \*   searches for an id that overlook its issue,
    MaxFailures     \*   failed calls and cancelled runs

ASSUME ScannerAssumption ==
    /\ IsFiniteSet(Refs) /\ Main \in Refs
    /\ Records \subseteq Nat /\ IsFiniteSet(Records)
    /\ OwnId \in [Records -> Ids] /\ CveAlias \in [Records -> Ids]
    /\ Fixable \subseteq Records
    /\ Within \subseteq Ids \X Ids /\ \A i \in Ids : <<i, i>> \in Within
    /\ MaxScans \in Nat /\ MaxBlind \in Nat /\ MaxFailures \in Nat

VARIABLES
    issues,     \* issues[i]: issues with the gate label, open or closed,
                \*   whose title is for id i (external)
    aliased,    \* records that carry their CVE alias by now (external)
    pc,         \* the next step of the run on each ref
    todo,       \* unique_fixable: findings still to deal with
    failed,     \* an issue could not be filed: the run will be red
    scans, blind, failures  \* runs so far, overlooked issues per id, and
                \*   what the bound has left room for

job == <<pc, todo, failed>>
vars == <<issues, aliased, job, scans, blind, failures>>

-----------------------------------------------------------------------------
(* scan_osv.py *)

\* The first alias that is a CVE id, or else the record's own id.
cve_id(v) == IF v \in aliased THEN CveAlias[v] ELSE OwnId[v]

Findings == {[at |-> v, cve |-> cve_id(v)] : v \in Fixable}

\* Altered: a finding per record.
EveryRecord == Findings

\* seen_in_run: of the records with the same id, the first.
unique_fixable ==
    {f \in Findings : \A g \in Findings : g.cve = f.cve => f.at <= g.at}

-----------------------------------------------------------------------------
(* file_issues.py *)

Titles == {i \in Ids : issues[i] > 0}

\* "cve_id in title"
About(id) == {t \in Titles : <<id, t>> \in Within}

\* Altered: what the search returns is not looked at; is looked for in the
\* id; is compared with the id, which a title never equals.
AnyRow(id, rows) == rows # {}
TitleInId(id, rows) == \E t \in rows : <<t, id>> \in Within
WholeTitle(id, rows) == FALSE

existing_issue_for(id, rows) == rows \cap About(id) # {}

Init ==
    /\ issues = [i \in Ids |-> 0]
    /\ aliased = {}
    /\ pc = [r \in Refs |-> "idle"]
    /\ todo = [r \in Refs |-> {}]
    /\ failed = [r \in Refs |-> FALSE]
    /\ scans = 0
    /\ blind = [i \in Ids |-> 0]
    /\ failures = 0

Saturated(n) == IF n < MaxScans THEN n + 1 ELSE n

\* The schedule or a manual trigger, when no run on the ref is under way.
Begin(r) ==
    /\ pc' = [pc EXCEPT ![r] = "scan"]
    /\ todo' = [todo EXCEPT ![r] = {}]
    /\ failed' = [failed EXCEPT ![r] = FALSE]
    /\ scans' = Saturated(scans)
    /\ UNCHANGED <<issues, aliased, blind>>

StartScan(r) == pc[r] = "idle" /\ Begin(r) /\ UNCHANGED failures

Fails == failures < MaxFailures /\ failures' = failures + 1

\* cancel-in-progress: the new run takes the place of the one under way.
CancelScan(r) == pc[r] # "idle" /\ Begin(r) /\ Fails

ScanOSV(r) ==
    /\ pc[r] = "scan"
    /\ \/ /\ pc' = [pc EXCEPT ![r] = "search"]
          /\ todo' = [todo EXCEPT ![r] = unique_fixable]
          /\ UNCHANGED failures
       \/ /\ pc' = [pc EXCEPT ![r] = "idle"]     \* a request to OSV fails
          /\ Fails
          /\ UNCHANGED todo
    /\ UNCHANGED <<issues, aliased, failed, scans, blind>>

Current(r, f) == f \in todo[r] /\ \A g \in todo[r] : f.at <= g.at

DealtWith(r, f) ==
    /\ todo' = [todo EXCEPT ![r] = @ \ {f}]
    /\ pc' = [pc EXCEPT ![r] = "search"]

\* gh issue list returns at most five titles.  They may be about other ids, and
\* an issue may be missing among them: the index lags behind, and a failed
\* call counts as an empty answer.
Search(r, f, rows) ==
    /\ pc[r] = "search"
    /\ Current(r, f)
    /\ Cardinality(rows) <= 5
    /\ IF existing_issue_for(f.cve, rows)
       THEN DealtWith(r, f)
       ELSE pc' = [pc EXCEPT ![r] = "create"] /\ UNCHANGED todo
    /\ IF rows \cap About(f.cve) = {} /\ About(f.cve) # {}
       THEN /\ blind[f.cve] < MaxBlind
            /\ blind' = [blind EXCEPT ![f.cve] = @ + 1]
       ELSE UNCHANGED blind
    /\ UNCHANGED <<issues, aliased, failed, scans, failures>>

\* gh issue create succeeds, or fails before or after GitHub has acted.
FileIssue(r, f) ==
    /\ pc[r] = "create"
    /\ Current(r, f)
    /\ DealtWith(r, f)
    /\ \/ /\ issues' = [issues EXCEPT ![f.cve] = @ + 1]
          /\ UNCHANGED <<failed, failures>>
       \/ /\ issues' \in {issues, [issues EXCEPT ![f.cve] = @ + 1]}
          /\ failed' = [failed EXCEPT ![r] = TRUE]
          /\ Fails
    /\ UNCHANGED <<aliased, scans, blind>>

EndScan(r) ==
    /\ pc[r] = "search"
    /\ todo[r] = {}
    /\ pc' = [pc EXCEPT ![r] = "idle"]
    /\ failed' = [failed EXCEPT ![r] = FALSE]
    /\ UNCHANGED <<issues, aliased, todo, scans, blind, failures>>

\* OSV learns the CVE id of a record.
AliasAdded(v) ==
    /\ v \notin aliased /\ CveAlias[v] # OwnId[v]
    /\ aliased' = aliased \cup {v}
    /\ UNCHANGED <<issues, job, scans, blind, failures>>

RunStep(r) ==
    \/ ScanOSV(r) \/ EndScan(r)
    \/ \E f \in todo[r] :
         FileIssue(r, f) \/ \E rows \in SUBSET Titles : Search(r, f, rows)

Next ==
    \/ \E r \in Refs : StartScan(r) \/ CancelScan(r) \/ RunStep(r)
    \/ \E v \in Records : AliasAdded(v)

Spec == Init /\ [][Next]_vars

\* The schedule starts a run every night, and a run that is not cancelled
\* goes on.
FairSpec == Spec /\ WF_vars(StartScan(Main)) /\ \A r \in Refs : WF_vars(RunStep(r))

-----------------------------------------------------------------------------
(* Properties. *)

\* Every variable has the type its script, or GitHub, gives it.
TypeOK ==
    /\ issues \in [Ids -> Nat]
    /\ aliased \subseteq Records
    /\ pc \in [Refs -> {"idle", "scan", "search", "create"}]
    /\ todo \in [Refs -> SUBSET [at : Records, cve : Ids]]
    /\ failed \in [Refs -> BOOLEAN]
    /\ \A r \in Refs : pc[r] = "create" => todo[r] # {}
    /\ \A r \in Refs : \A f, g \in todo[r] : f.cve = g.cve => f = g
    /\ scans \in 0 .. MaxScans
    /\ blind \in [Ids -> Nat]
    /\ failures \in Nat

Filing(id) == {r \in Refs : pc[r] = "create" /\ \E f \in todo[r] : Current(r, f) /\ f.cve = id}

\* How far "same CVE never filed twice" (cve-scan.yml:8) is true: the search
\* and the creation are two calls, so runs on different refs may both file an
\* id, once each; and each search that overlooks an issue, or fails, may add
\* one.  A run that is cancelled, or whose answer is lost, adds none.
DuplicatesBounded ==
    \A id \in Ids :
        issues[id] + Cardinality(Filing(id)) <= Cardinality(Refs) + blind[id]

\* "Collapse to unique CVE ids within this run" (file_issues.py:105-109): a
\* run files an id at most once, even when the search does not show yet what
\* the same run has just filed for an alias.
OncePerRun ==
    scans < MaxScans => \A id \in Ids : issues[id] <= scans

Names(v) == {OwnId[v], CveAlias[v]}

\* Only ids that no other id contains can be relied on: CVE-1 passes for
\* tracked once an issue for CVE-11 is found, and may never get its own.
Unmistakable(v) == \A i \in Names(v), j \in Ids : <<i, j>> \in Within => j = i

\* "For each fixable finding, file a GitHub issue ... if no ... issue with that
\* CVE id exists yet" (cve-scan.yml:6-8), so far as it is true: when a run ends
\* green, every vulnerability with a fix that no id is mistaken for has an
\* issue of its own, under the id it goes by or went by when the run asked OSV,
\* whichever records the run took for one, what the searches showed, and what
\* other runs have filed, failed to file or left undone.
GreenMeansTracked ==
    [][\A r \in Refs, v \in Fixable :
         (EndScan(r) /\ ~failed[r] /\ Unmistakable(v)) =>
             \E n \in Names(v) : issues[n] > 0]_pc

\* Every such vulnerability gets an issue of its own, and gets one under its CVE
\* id when OSV learns that later (though it had one under its first id),
\* whatever fails or is cancelled on the way.
FixableGetsTracked ==
    \A v \in Fixable : Unmistakable(v) => []<>(issues[cve_id(v)] > 0)
=============================================================================
