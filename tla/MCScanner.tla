----------------------------- MODULE MCScanner -----------------------------
(***************************************************************************)
(* An instance of Scanner for TLC: two records that turn out to be one     *)
(* CVE, a third whose id is the beginning of that CVE id, so that issues   *)
(* for the one pass for issues for the other, and one without a fix.       *)
(***************************************************************************)
EXTENDS Scanner

FourRecords == 1 .. 4
FirstThree == 1 .. 3
OwnNames == <<"GHSA-1", "CVE-1", "CVE-11", "GHSA-2">>
CveNames == <<"CVE-11", "CVE-1", "CVE-11", "GHSA-2">>
AllIds == {"GHSA-1", "GHSA-2", "CVE-1", "CVE-11"}
Substrings == {<<i, i>> : i \in AllIds} \cup {<<"CVE-1", "CVE-11">>}
=============================================================================
