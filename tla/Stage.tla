------------------------------- MODULE Stage -------------------------------
(***************************************************************************)
(* The workflow stage the dashboard shows for a sessions row, app/stage.py. *)
(* A row is a record with the columns it looks at (status, tracked, pr,    *)
(* attempt); children are the rows that name it as their parent.           *)
(***************************************************************************)
EXTENDS SessionStatus

CveStage(row, children) ==
    CASE row.status = "cancelled" -> "cancelled"
      [] row.status \in {"failed", "timeout"} -> "failed"
      [] row.status \in {"needs_attention", "blocked"} -> "needs human"
      [] row.status = "reserving" -> "detected"
      [] OTHER ->
           IF ~row.pr THEN "devin running"
           ELSE IF row.tracked /\ \E c \in children : c.status \in ACTIVE_STATUSES
           THEN "ci fix running"
           ELSE IF row.status = "completed" THEN "verified" ELSE "PR open"
=============================================================================
