----------------------------- MODULE Transport -----------------------------
(***************************************************************************)
(* How a handler's or the poller's call reaches Devin: the lazy singleton  *)
(* (app/devin/factory.py), the retry loop (app/devin/http.py) and the two  *)
(* client methods that change something at Devin, create_session and       *)
(* terminate_session (app/devin/client.py).  The callers are the pool      *)
(* threads and the poller's thread; the event loop runs reset at shutdown, *)
(* while calls may still be under way (app/main.py:41-47).                 *)
(*                                                                         *)
(* One action is one access to the module's globals or one HTTP exchange.  *)
(* Intake and FixLoop use what is shown here: what a create call may leave *)
(* behind (LostPerCall), what a terminate call means, that calls end.      *)
(***************************************************************************)
EXTENDS Integers, FiniteSets

CONSTANTS
    Callers,        \* threads that call Devin, one call each
    None,           \* nobody
    max_retries

ASSUME TransportAssumption ==
    /\ IsFiniteSet(Callers) /\ None \notin Callers
    /\ max_retries \in Nat \ {0}

VARIABLES
    opened,     \* DevinTransport objects constructed, numbered 1, 2, ...
    closed,     \* those whose httpx client is closed
    transport,  \* _transport, 0 = None
    client,     \* the transport inside _client (0 = None), -1: _client is None
    lock,       \* who holds _lock
    reset_pc,   \* the next statement of reset
    valid,      \* the credentials pass the checks of DevinTransport.__init__
    pc, method, using, attempt,     \* each call: next step, which method, the
                \*   transport it uses, requests answered so far
    last_exc,   \* last_exc[c]: the last httpx.HTTPError caught
    doubtful,   \* doubtful[c]: answers that leave open what Devin did
    created,    \* created[c]: sessions Devin created for the call (external)
    over        \* over[c]: the session to terminate is over (external)

globals == <<opened, closed, transport, client, lock, reset_pc>>
call == <<valid, method, using, attempt, last_exc, doubtful>>
remote == <<created, over>>
vars == <<globals, pc, call, remote>>

NoClient == -1

Goto(c, label) == pc' = [pc EXCEPT ![c] = label]

Init ==
    /\ opened = 0 /\ closed = {} /\ transport = 0 /\ client = NoClient
    /\ lock = None /\ reset_pc = "close"
    /\ valid \in BOOLEAN
    /\ pc = [c \in Callers |-> "idle"]
    /\ method \in [Callers -> {"create_session", "terminate_session"}]
    /\ using = [c \in Callers |-> 0]
    /\ attempt = [c \in Callers |-> 0]
    /\ last_exc = [c \in Callers |-> "none"]
    /\ doubtful = [c \in Callers |-> 0]
    /\ created = [c \in Callers |-> 0]
    /\ over = [c \in Callers |-> FALSE]

-----------------------------------------------------------------------------
(* factory.get_client: a check, the lock, a second check, two assignments. *)

Check(c) ==
    /\ pc[c] = "idle"
    /\ Goto(c, IF client # NoClient THEN "return" ELSE "lock")
    /\ UNCHANGED <<globals, call, remote>>

Lock(c) ==
    /\ pc[c] = "lock"
    /\ lock = None
    /\ lock' = c
    /\ Goto(c, "check_again")
    /\ UNCHANGED <<opened, closed, transport, client, reset_pc, call, remote>>

\* Altered: the lock is never given back.
Kept(c) == c

\* The end of "with _lock".
Unlocked(c) == None

\* Altered: the first check is trusted.
NotLookedAt == TRUE

StillMissing == client = NoClient

CheckAgain(c) ==
    /\ pc[c] = "check_again"
    /\ IF StillMissing
       THEN Goto(c, "open") /\ UNCHANGED lock
       ELSE Goto(c, "return") /\ lock' = Unlocked(c)
    /\ UNCHANGED <<opened, closed, transport, client, reset_pc, call, remote>>

Open(c) ==
    /\ pc[c] = "open"
    /\ valid
    /\ opened' = opened + 1
    /\ transport' = opened'
    /\ Goto(c, "wrap")
    /\ UNCHANGED <<closed, client, lock, reset_pc, call, remote>>

\* The constructor raises ValueError: "with" gives the lock back.
Rejected(c) ==
    /\ pc[c] = "open"
    /\ ~valid
    /\ lock' = Unlocked(c)
    /\ Goto(c, "raised")
    /\ UNCHANGED <<opened, closed, transport, client, reset_pc, call, remote>>

Wrap(c) ==
    /\ pc[c] = "wrap"
    /\ client' = transport
    /\ lock' = Unlocked(c)
    /\ Goto(c, "return")
    /\ UNCHANGED <<opened, closed, transport, reset_pc, call, remote>>

\* The final read of _client, which reset may have cleared.
Return(c) ==
    /\ pc[c] = "return"
    /\ using' = [using EXCEPT ![c] = client]
    /\ Goto(c, IF client = NoClient THEN "raised" ELSE "request")
    /\ UNCHANGED <<globals, valid, method, attempt, last_exc, doubtful, remote>>

\* factory.reset
Reset ==
    /\ \/ /\ reset_pc = "close"
          /\ closed' = closed \cup ({transport} \ {0})
          /\ reset_pc' = "clear_client"
          /\ UNCHANGED <<client, transport>>
       \/ /\ reset_pc = "clear_client"
          /\ client' = NoClient
          /\ reset_pc' = "clear_transport"
          /\ UNCHANGED <<closed, transport>>
       \/ /\ reset_pc = "clear_transport"
          /\ transport' = 0
          /\ reset_pc' = "done"
          /\ UNCHANGED <<closed, client>>
    /\ UNCHANGED <<opened, lock, pc, call, remote>>

-----------------------------------------------------------------------------
(* DevinTransport.request. *)

\* 429 and errors of the client are refusals; a 5xx or an error of the
\* transport (a timeout, a lost connection) tells nothing.  "already_over" is
\* an error of the client with the words terminate_session looks for,
\* "retry_later" a 429 whose Retry-After is a date (RFC 9110), "unreadable" a
\* 2xx without the JSON of a session.
Refusals == {"rate_limited", "retry_later", "client_error", "already_over"}
Doubtful == {"server_error", "transport_error"}
Successes == {"ok", "unreadable"}

\* What raise_for_status and httpx raise; 429 and 5xx are looked at before.
HTTPErrors == {"client_error", "already_over", "transport_error"}

\* Altered: whatever the server answers is taken for success.
AnyResponse(a) == a # "transport_error"

Accepted(a) == a \in Successes

\* Altered: one attempt too many.
OneTooMany(n) == n <= max_retries

AttemptsLeft(n) == n < max_retries

\* A closed or missing transport raises at once: no httpx.HTTPError.
Unusable(c) ==
    /\ pc[c] = "request"
    /\ using[c] \in closed \cup {0}
    /\ Goto(c, "raised")
    /\ UNCHANGED <<globals, call, remote>>

Creates(c) == method[c] = "create_session"

\* What raises out of the loop or of create_session at once: float() of the
\* date, json() or data["session_id"].
Breaks(c, a) == a = "retry_later" \/ (a = "unreadable" /\ Creates(c))

\* What the request does at Devin, if it arrives.
Takes(c) ==
    IF Creates(c)
    THEN created' = [created EXCEPT ![c] = @ + 1] /\ UNCHANGED over
    ELSE over' = [over EXCEPT ![c] = TRUE] /\ UNCHANGED created

\* One exchange and the sleep after it.  Every answer but a 2xx is followed
\* by another attempt, raise_for_status's errors included, unless it breaks
\* the loop.
Exchange(c, a) ==
    /\ pc[c] = "request"
    /\ using[c] \notin closed \cup {0}
    /\ \/ a \in Successes \cup Doubtful /\ Takes(c)
       \/ a \in Refusals \cup Doubtful /\ UNCHANGED remote
    /\ a = "already_over" => ~Creates(c) /\ over[c]
    /\ last_exc' = [last_exc EXCEPT ![c] = IF a \in HTTPErrors THEN a ELSE @]
    /\ attempt' = [attempt EXCEPT ![c] = @ + 1]
    /\ doubtful' = [doubtful EXCEPT ![c] =
          IF a \in Doubtful \/ (Breaks(c, a) /\ Accepted(a)) THEN @ + 1 ELSE @]
    /\ Goto(c, IF Breaks(c, a) THEN "broken"
               ELSE IF Accepted(a) THEN "returned"
               ELSE IF AttemptsLeft(attempt'[c]) THEN "request" ELSE "failed")
    /\ UNCHANGED <<globals, valid, method, using>>

-----------------------------------------------------------------------------
(* What the two methods make of a RuntimeError of the retry loop. *)

\* Altered: every refusal passes for "already over".
AnyRefusal(c) == last_exc[c] \in Refusals

\* The text of the RuntimeError ends with the last HTTPError, which need not
\* be the last answer: a 429 or a 5xx after it leaves it as it is.
SaysAlreadyOver(c) == last_exc[c] = "already_over"

Raise(c) ==
    /\ pc[c] = "failed"
    /\ Creates(c) \/ ~SaysAlreadyOver(c)
    /\ Goto(c, "raised")
    /\ UNCHANGED <<globals, call, remote>>

AlreadyOver(c) ==
    /\ pc[c] = "failed"
    /\ ~Creates(c) /\ SaysAlreadyOver(c)
    /\ Goto(c, "returned")
    /\ UNCHANGED <<globals, call, remote>>

\* The session ends by itself.
SessionEnds(c) ==
    /\ ~Creates(c) /\ ~over[c]
    /\ over' = [over EXCEPT ![c] = TRUE]
    /\ UNCHANGED <<globals, pc, call, created>>

CallerStep(c) ==
    \/ Lock(c) \/ CheckAgain(c) \/ Open(c) \/ Rejected(c) \/ Wrap(c) \/ Return(c)
    \/ Unusable(c) \/ Raise(c) \/ AlreadyOver(c)
    \/ \E a \in Successes \cup Refusals \cup Doubtful : Exchange(c, a)

Next ==
    \/ \E c \in Callers : Check(c) \/ CallerStep(c) \/ SessionEnds(c)
    \/ Reset

Spec == Init /\ [][Next]_vars

\* A call that has begun goes on: threads run, and every exchange has a
\* timeout (http.py:24).
FairSpec == Spec /\ \A c \in Callers : WF_vars(CallerStep(c))

-----------------------------------------------------------------------------
(* Properties. *)

Ended(c) == pc[c] \in {"returned", "raised", "broken"}

\* Every variable has the type its global, local or counter has in the code.
TypeOK ==
    /\ opened \in Nat /\ closed \subseteq 1 .. opened
    /\ transport \in 0 .. opened /\ client \in NoClient .. opened
    /\ lock \in Callers \cup {None}
    /\ reset_pc \in {"close", "clear_client", "clear_transport", "done"}
    /\ pc \in [Callers -> {"idle", "lock", "check_again", "open", "wrap", "return",
                           "request", "failed", "returned", "raised", "broken"}]
    /\ valid \in BOOLEAN
    /\ method \in [Callers -> {"create_session", "terminate_session"}]
    /\ using \in [Callers -> NoClient .. opened]
    /\ attempt \in [Callers -> 0 .. max_retries]
    /\ last_exc \in [Callers -> {"none"} \cup HTTPErrors]
    /\ doubtful \in [Callers -> Nat]
    /\ created \in [Callers -> Nat] /\ over \in [Callers -> BOOLEAN]

\* "One client, shared across the process" (factory.py:8-10): until the
\* shutdown, threads that race to the first call share one transport.
OneTransport == reset_pc = "close" => opened <= 1

\* With credentials that look right and until the shutdown, a call that no
\* answer broke gives up only after max_retries requests.
RaisesOnlyWhenExhausted ==
    valid /\ reset_pc = "close" => \A c \in Callers : pc[c] = "raised" => attempt[c] = max_retries

\* What a create call leaves behind: one session for its caller if it
\* returns, and at most one more that nobody tracks for each answer that was
\* lost or could not be read; never more sessions than attempts.
SessionsAccounted ==
    \A c \in Callers : Creates(c) /\ Ended(c) =>
        LET tracked == IF pc[c] = "returned" THEN 1 ELSE 0 IN
        /\ created[c] - tracked \in 0 .. doubtful[c]
        /\ created[c] <= max_retries

\* A terminate call that returns has stopped the session, however its
\* requests were answered; and when it raises nothing is certain.
ReturnedMeansOver ==
    \A c \in Callers : ~Creates(c) /\ pc[c] = "returned" => over[c]

\* Every call ends, in spite of rate limits, failures and the shutdown.
CallsEnd == \A c \in Callers : pc[c] # "idle" ~> Ended(c)
=============================================================================
