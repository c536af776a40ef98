----------------------------- MODULE MCMigration -----------------------------
(***************************************************************************)
(* An instance of Migration for TLC: three old rows about one issue, one   *)
(* about another, one whose issue is unknown; webhooks for these and a new *)
(* issue.                                                                  *)
(***************************************************************************)
EXTENDS Migration

CONSTANTS i1, i2, i3

OldRows == 1 .. 5
About == <<i1, i2, i1, None, i1>>
KnownIssues == {i1, i2, i3}
=============================================================================
