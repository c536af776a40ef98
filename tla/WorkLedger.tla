----------------------------- MODULE WorkLedger -----------------------------
(***************************************************************************)
(* What the reservation pattern promises (app/handlers.py:3-14,            *)
(* app/db/sessions.py:1-12), with no database, threads, queue or poller:   *)
(* each unit of work is claimed at most once, Devin is paid at most once   *)
(* and only for claimed work, a claim that was paid for is given up only   *)
(* through the session it is tracked by, and work that an escalation takes *)
(* up again is neither claimed nor paid for again.  One payment may buy    *)
(* more than the one session it is meant for, as many as Surplus; what was *)
(* bought that nobody knows of cannot be more.  Intake implements it.      *)
(***************************************************************************)
EXTENDS Naturals

CONSTANTS
    Keys,       \* units of work (work_key)
    Surplus     \* sessions that a payment may leave behind unnoticed

VARIABLES phase,    \* phase[k]: how far the work has come
          spent     \* spent[k]: Devin sessions created for it

Phases == {"free", "claimed", "abandoned", "tracked", "over"}

Init == /\ phase = [k \in Keys |-> "free"]
        /\ spent = [k \in Keys |-> 0]

Move(k, from, to) == /\ phase[k] = from
                     /\ phase' = [phase EXCEPT ![k] = to]

Claim(k) == Move(k, "free", "claimed") /\ UNCHANGED spent

\* The paid step: once, and only under a claim.
Spend(k) == /\ phase[k] = "claimed"
            /\ spent[k] = 0
            /\ \E n \in 1 .. 1 + Surplus : spent' = [spent EXCEPT ![k] = n]
            /\ UNCHANGED phase

Track(k) == spent[k] # 0 /\ Move(k, "claimed", "tracked") /\ UNCHANGED spent

\* Giving a claim up is allowed only if no session it knows of was paid for,
\* and it is for good.
Abandon(k) == /\ spent[k] <= Surplus
              /\ Move(k, "claimed", "abandoned")
              /\ UNCHANGED spent

Finish(k) == Move(k, "tracked", "over") /\ UNCHANGED spent

\* An escalation puts finished work before a human.
Reopen(k) == Move(k, "over", "tracked") /\ UNCHANGED spent

Next ==
    \E k \in Keys : \/ Claim(k) \/ Spend(k) \/ Track(k) \/ Abandon(k)
                    \/ Finish(k) \/ Reopen(k)

Spec == Init /\ [][Next]_<<phase, spent>>
=============================================================================
