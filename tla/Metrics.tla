------------------------------ MODULE Metrics ------------------------------
(***************************************************************************)
(* The counts of /metrics, app/metrics.py, over a function from ids to     *)
(* sessions rows (records with at least status and pr).                    *)
(***************************************************************************)
EXTENDS SessionStatus, Integers, FiniteSets

NEEDS_HUMAN_STATUSES == {"blocked", "needs_attention", "timeout"}

compute_dashboard_metrics(rows) ==
    LET ids == DOMAIN rows
        In(statuses) == {x \in ids : rows[x].status \in statuses}
        WithPR == {x \in ids : rows[x].pr}
    IN [total_sessions     |-> Cardinality(ids),
        active_sessions    |-> Cardinality(In(ACTIVE_STATUSES)),
        completed_sessions |-> Cardinality(In({"completed"})),
        failed_sessions    |-> Cardinality(In({"failed"})),
        cancelled_sessions |-> Cardinality(In({"cancelled"})),
        needs_human        |-> Cardinality(In(NEEDS_HUMAN_STATUSES)),
        pr_created         |-> Cardinality(WithPR),
        completed_without_pr |-> Cardinality(In({"completed"}) \ WithPR),
        terminal            |-> Cardinality(In(TERMINAL_STATUSES)),
        successful_terminal |-> Cardinality(In(TERMINAL_STATUSES) \cap WithPR)]
=============================================================================
