------------------------------ MODULE MCIntake ------------------------------
(* Instances of Intake for TLC. *)
EXTENDS Intake, TLC

CONSTANTS d1, d2, d3, d4

Issue(number, body) ==
    [event |-> "issues", action |-> "labeled",
     labels |-> {GATE_LABEL, SECURITY_LABEL},
     conclusion |-> "none", work |-> number, body |-> body]

Ping == [Issue(1, "cve") EXCEPT !.event = "ping"]

FailedRun(id) ==
    [Issue(id, "cve") EXCEPT !.event = "workflow_run", !.action = "completed",
                             !.conclusion = "failure"]

TwoIssues == d1 :> Issue(1, "cve") @@ d2 :> Issue(2, "cve")

\* An issue that parses, one that does not, and a failed run.
IssuesAndARun ==
    d1 :> Issue(1, "cve") @@ d2 :> Issue(2, "missing_fields") @@ d3 :> FailedRun(901)

\* An issue that is opened and labeled, two deliveries for one work key; a
\* failed run; and a ping.
OpenedLabeledARunAndAPing ==
    d1 :> [Issue(1, "cve") EXCEPT !.action = "opened"] @@ d2 :> Issue(1, "cve")
        @@ d3 :> FailedRun(901) @@ d4 :> Ping
=============================================================================
