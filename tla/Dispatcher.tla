----------------------------- MODULE Dispatcher -----------------------------
(***************************************************************************)
(* The label-based event router, app/dispatcher.py.  A payload is a record *)
(* with the fields the router and the handlers look at: event, action,     *)
(* labels, conclusion, work (the number of the issue or the id of the      *)
(* workflow run, which identifies the unit of work), and body (what the    *)
(* CVE parser makes of the issue's text).                                  *)
(***************************************************************************)

GATE_LABEL == "devin-remediate"
SECURITY_LABEL == "devin-security"
QUALITY_LABEL == "devin-quality"

\* _dispatch_issue: the gate label is required, then the first match wins.
RouteIssue(p) ==
    IF p.action \notin {"opened", "labeled", "reopened"}
        \/ GATE_LABEL \notin p.labels THEN "skipped"
    ELSE IF SECURITY_LABEL \in p.labels THEN "handle_security_issue"
    ELSE IF QUALITY_LABEL \in p.labels THEN "handle_quality_issue"
    ELSE "handle_generic_remediation"

\* _dispatch_workflow_run: only a completed, failed run reaches a handler.
RouteWorkflowRun(p) ==
    IF p.action = "completed" /\ p.conclusion = "failure"
    THEN "handle_ci_failure"
    ELSE "skipped"

\* dispatch: the name of the handler that runs, or the router's own answer.
Route(p) ==
    CASE p.event = "issues" -> RouteIssue(p)
      [] p.event = "workflow_run" -> RouteWorkflowRun(p)
      [] p.event = "ping" -> "ok:ping"
      [] OTHER -> "skipped"
=============================================================================
