--------------------------- MODULE SessionStatus ---------------------------
(***************************************************************************)
(* The session vocabulary shared by every component: the internal statuses *)
(* of a sessions row (app/db/sessions.py) and the translation of Devin's   *)
(* own statuses into them (app/devin/types.py).                            *)
(***************************************************************************)

ACTIVE_STATUSES ==
    {"reserving", "pending", "running", "blocked", "needs_attention"}

TERMINAL_STATUSES == {"completed", "failed", "cancelled", "timeout"}

Statuses == ACTIVE_STATUSES \cup TERMINAL_STATUSES

STATUS_MAP ==
    [new |-> "pending", claimed |-> "pending", running |-> "running",
     exit |-> "completed", error |-> "failed", suspended |-> "cancelled",
     resuming |-> "running"]

UNKNOWN_STATUS == "needs_attention"

\* Altered: Devin's word is stored as it is.
Untranslated(raw) == raw

map_status(raw) ==
    IF raw \in DOMAIN STATUS_MAP THEN STATUS_MAP[raw] ELSE UNKNOWN_STATUS

\* What one poll of a live session can leave in its row: the translated
\* remote status, or the poller's own verdict (inactivity timeout, PR merged,
\* PR closed).
PollOutcomes ==
    {STATUS_MAP[raw] : raw \in DOMAIN STATUS_MAP}
        \cup {UNKNOWN_STATUS, "timeout", "completed", "cancelled"}
=============================================================================
