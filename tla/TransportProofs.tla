-------------------------- MODULE TransportProofs --------------------------
(***************************************************************************)
(* Theorems about Transport, for any callers and any max_retries.          *)
(***************************************************************************)
EXTENDS Transport, TLAPS

(***************************************************************************)
(* Type correctness.  A thread that wraps a transport has opened one, and  *)
(* a thread that makes a request has attempts left.                        *)
(***************************************************************************)
MayRequest == \A c \in Callers : pc[c] = "request" => attempt[c] < max_retries

TypeInv == TypeOK /\ MayRequest

LEMMA TypeInit == Init => TypeInv
BY TransportAssumption DEF Init, TypeInv, TypeOK, MayRequest, NoClient

Untouched ==
    {"idle", "lock", "check_again", "open", "wrap", "return"}

NotYetAsked ==
    \A c \in Callers : pc[c] \in Untouched => attempt[c] = 0

LEMMA TypeNext == TypeInv /\ NotYetAsked /\ [Next]_vars => TypeInv' /\ NotYetAsked'
<1> SUFFICES ASSUME TypeInv, NotYetAsked, [Next]_vars
             PROVE  TypeInv' /\ NotYetAsked'
  OBVIOUS
<1> USE TransportAssumption
    DEF TypeInv, TypeOK, MayRequest, NotYetAsked, Untouched, NoClient, globals, call,
        remote, Goto
<1>1. ASSUME NEW c \in Callers, Check(c)
      PROVE  TypeInv' /\ NotYetAsked'
  BY <1>1 DEF Check
<1>2. ASSUME NEW c \in Callers, Lock(c) \/ CheckAgain(c)
      PROVE  TypeInv' /\ NotYetAsked'
  BY <1>2 DEF Lock, CheckAgain, Unlocked
<1>3. ASSUME NEW c \in Callers, Open(c) \/ Rejected(c) \/ Wrap(c)
      PROVE  TypeInv' /\ NotYetAsked'
  <2>1. CASE Open(c)
    <3>1. opened' \in Nat /\ transport' \in 0 .. opened' /\ client \in NoClient .. opened'
      BY <2>1 DEF Open
    <3>2. closed' \subseteq 1 .. opened'
      BY <2>1 DEF Open
    <3>3. using' \in [Callers -> NoClient .. opened']
      <4>1. \A d \in Callers : using[d] \in NoClient .. opened'
        BY <2>1 DEF Open
      <4> QED BY <2>1, <4>1 DEF Open
    <3> QED BY <2>1, <3>1, <3>2, <3>3 DEF Open
  <2>2. CASE Rejected(c)
    BY <2>2 DEF Rejected, Unlocked
  <2>3. CASE Wrap(c)
    <3>1. client' \in NoClient .. opened
      BY <2>3 DEF Wrap
    <3> QED BY <2>3, <3>1 DEF Wrap, Unlocked
  <2> QED BY <1>3, <2>1, <2>2, <2>3
<1>4. ASSUME NEW c \in Callers, Return(c)
      PROVE  TypeInv' /\ NotYetAsked'
  BY <1>4 DEF Return
<1>5. ASSUME NEW c \in Callers, Unusable(c) \/ Raise(c) \/ AlreadyOver(c)
      PROVE  TypeInv' /\ NotYetAsked'
  BY <1>5 DEF Unusable, Raise, AlreadyOver
<1>6. ASSUME NEW c \in Callers, NEW a \in Successes \cup Refusals \cup Doubtful,
             Exchange(c, a)
      PROVE  TypeInv' /\ NotYetAsked'
  <2>1. created' \in [Callers -> Nat] /\ over' \in [Callers -> BOOLEAN]
    <3>1. CASE Takes(c)
      <4>1. CASE Creates(c)
        BY <3>1, <4>1 DEF Takes
      <4>2. CASE ~Creates(c)
        BY <3>1, <4>2 DEF Takes
      <4> QED BY <4>1, <4>2
    <3>2. CASE UNCHANGED remote
      BY <3>2
    <3> QED BY <1>6, <3>1, <3>2 DEF Exchange
  <2>2. doubtful' \in [Callers -> Nat]
    BY <1>6 DEF Exchange
  <2>3. last_exc' \in [Callers -> {"none"} \cup HTTPErrors]
    BY <1>6 DEF Exchange
  <2>4. attempt' \in [Callers -> 0 .. max_retries] /\ attempt'[c] = attempt[c] + 1
    BY <1>6 DEF Exchange
  <2>5. \E l \in {"broken", "returned", "request", "failed"} :
            pc' = [pc EXCEPT ![c] = l] /\ (l = "request" => attempt'[c] < max_retries)
    BY <1>6 DEF Exchange, AttemptsLeft
  <2>6. \A d \in Callers : d # c => attempt'[d] = attempt[d]
    BY <1>6 DEF Exchange
  <2> QED BY <1>6, <2>1, <2>2, <2>3, <2>4, <2>5, <2>6 DEF Exchange
<1>7. CASE Reset
  <2>1. closed' \subseteq 1 .. opened
    <3>1. closed' = closed \/ closed' = closed \cup ({transport} \ {0})
      BY <1>7, Zenon DEF Reset
    <3>2. {transport} \ {0} \subseteq 1 .. opened
      OBVIOUS
    <3> QED BY <3>1, <3>2
  <2>2. \/ transport' = transport /\ client' = client
        \/ transport' = transport /\ client' = NoClient
        \/ transport' = 0 /\ client' = client
    BY <1>7, Zenon DEF Reset
  <2>3. transport' \in 0 .. opened /\ client' \in NoClient .. opened
    BY <2>2
  <2>4. reset_pc' \in {"close", "clear_client", "clear_transport", "done"}
    BY <1>7 DEF Reset
  <2> QED BY <1>7, <2>1, <2>3, <2>4 DEF Reset
<1>8. ASSUME NEW c \in Callers, SessionEnds(c)
      PROVE  TypeInv' /\ NotYetAsked'
  BY <1>8 DEF SessionEnds
<1>9. CASE UNCHANGED vars
  BY <1>9 DEF vars
<1> QED BY <1>1, <1>2, <1>3, <1>4, <1>5, <1>6, <1>7, <1>8, <1>9 DEF Next, CallerStep

LEMMA Typed == Spec => [](TypeInv /\ NotYetAsked)
<1>1. Init => NotYetAsked
  BY DEF Init, NotYetAsked
<1> QED BY <1>1, TypeInit, TypeNext, PTL DEF Spec

\* Every variable keeps its type; in particular no call makes more requests
\* than max_retries.
THEOREM TypeCorrect == Spec => []TypeOK
<1>1. TypeInv => TypeOK
  BY DEF TypeInv
<1> QED BY <1>1, Typed, PTL

(***************************************************************************)
(* One transport.  The lock is held from the second check to the wrapping; *)
(* until the shutdown, what was opened is wrapped before the lock is given *)
(* back.                                                                   *)
(***************************************************************************)
InLock(c) == pc[c] \in {"check_again", "open", "wrap"}

LockOK == \A c \in Callers : InLock(c) <=> lock = c

OpensOnce ==
    reset_pc = "close" =>
        /\ opened \in 0 .. 1
        /\ client # NoClient => \A c \in Callers : pc[c] \notin {"open", "wrap"}
        /\ (client = NoClient /\ \A c \in Callers : pc[c] # "wrap") => opened = 0

SingleInv == LockOK /\ OpensOnce

LEMMA SingleNext == TypeInv /\ SingleInv /\ [Next]_vars => SingleInv'
<1> SUFFICES ASSUME TypeInv, SingleInv, [Next]_vars PROVE SingleInv'
  OBVIOUS
<1> USE TransportAssumption
    DEF TypeInv, TypeOK, SingleInv, LockOK, OpensOnce, InLock, NoClient, globals, call,
        remote, Goto
<1>1. ASSUME NEW c \in Callers, Check(c) \/ Return(c)
      PROVE  SingleInv'
  BY <1>1 DEF Check, Return
<1>2. ASSUME NEW c \in Callers, Lock(c)
      PROVE  SingleInv'
  BY <1>2 DEF Lock
<1>3. ASSUME NEW c \in Callers, CheckAgain(c)
      PROVE  SingleInv'
  BY <1>3 DEF CheckAgain, StillMissing, Unlocked
<1>4. ASSUME NEW c \in Callers, Open(c)
      PROVE  SingleInv'
  BY <1>4 DEF Open
<1>5. ASSUME NEW c \in Callers, Rejected(c)
      PROVE  SingleInv'
  BY <1>5 DEF Rejected, Unlocked
<1>6. ASSUME NEW c \in Callers, Wrap(c)
      PROVE  SingleInv'
  BY <1>6 DEF Wrap, Unlocked
<1>7. ASSUME NEW c \in Callers, Unusable(c) \/ Raise(c) \/ AlreadyOver(c)
      PROVE  SingleInv'
  BY <1>7 DEF Unusable, Raise, AlreadyOver
<1>8. ASSUME NEW c \in Callers, NEW a \in Successes \cup Refusals \cup Doubtful,
             Exchange(c, a)
      PROVE  SingleInv'
  <2>1. /\ UNCHANGED globals
        /\ pc[c] = "request"
        /\ \E l \in {"broken", "returned", "request", "failed"} : pc' = [pc EXCEPT ![c] = l]
    BY <1>8 DEF Exchange
  <2> QED BY <2>1
<1>9. CASE Reset
  BY <1>9 DEF Reset
<1>10. ASSUME NEW c \in Callers, SessionEnds(c)
      PROVE  SingleInv'
  BY <1>10 DEF SessionEnds
<1>11. CASE UNCHANGED vars
  BY <1>11 DEF vars
<1> QED
  BY <1>1, <1>2, <1>3, <1>4, <1>5, <1>6, <1>7, <1>8, <1>9, <1>10, <1>11
     DEF Next, CallerStep

\* However many threads race to the first call, until the shutdown at most
\* one connection pool is opened.
THEOREM OneTransportOnly == Spec => []OneTransport
<1>1. Init => SingleInv
  BY TransportAssumption DEF Init, SingleInv, LockOK, OpensOnce, InLock, NoClient
<1>2. SingleInv => OneTransport
  BY DEF SingleInv, OpensOnce, OneTransport
<1> QED BY <1>1, <1>2, Typed, SingleNext, PTL DEF Spec

(***************************************************************************)
(* Giving up.  With valid credentials and until the shutdown, what a       *)
(* thread wraps, returns or asks through is an open transport; so a call   *)
(* that raises comes from the end of the retry loop.                       *)
(***************************************************************************)
Upright(c) ==
    /\ pc[c] = "wrap" => transport # 0
    /\ pc[c] = "return" => client # NoClient
    /\ pc[c] = "request" => using[c] > 0
    /\ pc[c] \in {"failed", "raised"} => attempt[c] = max_retries

OpenInv ==
    valid /\ reset_pc = "close" =>
        /\ closed = {} /\ client # 0
        /\ \A c \in Callers : Upright(c)

LEMMA OpenNext == TypeInv /\ TypeInv' /\ OpenInv /\ [Next]_vars => OpenInv'
<1> SUFFICES ASSUME TypeInv, TypeInv', OpenInv, [Next]_vars, valid', reset_pc' = "close"
             PROVE  closed' = {} /\ client' # 0 /\ \A c \in Callers : Upright(c)'
  BY DEF OpenInv
<1> USE DEF TypeInv, TypeOK, Upright, NoClient, globals, call, remote, Goto
<1>1. valid /\ reset_pc = "close" /\ ~Reset
  BY DEF Next, CallerStep, Check, Lock, CheckAgain, Open, Rejected, Wrap, Return, Reset,
         Unusable, Raise, AlreadyOver, Exchange, SessionEnds, vars
<1>2. closed = {} /\ client # 0 /\ \A c \in Callers : Upright(c)
  BY <1>1 DEF OpenInv
<1>3. ASSUME NEW c \in Callers, Check(c) \/ Lock(c) \/ CheckAgain(c) \/ Return(c)
      PROVE  closed' = {} /\ client' # 0 /\ \A d \in Callers : Upright(d)'
  <2>1. UNCHANGED <<closed, client, transport, attempt>>
    BY <1>3 DEF Check, Lock, CheckAgain, Return
  <2>2. CASE Check(c) \/ Lock(c) \/ CheckAgain(c)
    BY <1>2, <2>1, <2>2 DEF Check, Lock, CheckAgain, StillMissing
  <2>3. CASE Return(c)
    <3>1. client # NoClient /\ client > 0
      BY <1>2, <2>3 DEF Return
    <3>2. pc' = [pc EXCEPT ![c] = "request"] /\ using' = [using EXCEPT ![c] = client]
      BY <2>3, <3>1 DEF Return
    <3> QED BY <1>2, <2>1, <3>1, <3>2
  <2> QED BY <1>3, <2>2, <2>3
<1>4. ASSUME NEW c \in Callers, Open(c) \/ Rejected(c) \/ Wrap(c)
      PROVE  closed' = {} /\ client' # 0 /\ \A d \in Callers : Upright(d)'
  BY <1>1, <1>2, <1>4 DEF Open, Rejected, Wrap
<1>5. ASSUME NEW c \in Callers, Unusable(c) \/ Raise(c) \/ AlreadyOver(c)
      PROVE  closed' = {} /\ client' # 0 /\ \A d \in Callers : Upright(d)'
  <2>1. ~Unusable(c)
    <3>1. pc[c] = "request" => using[c] # 0
      BY <1>2
    <3>2. closed = {}
      BY <1>2
    <3> QED BY <3>1, <3>2 DEF Unusable
  <2>2. UNCHANGED <<closed, client, transport, using, attempt>> /\ pc[c] = "failed"
    BY <1>5, <2>1 DEF Raise, AlreadyOver
  <2>3. \E l \in {"raised", "returned"} : pc' = [pc EXCEPT ![c] = l]
    BY <1>5, <2>1 DEF Raise, AlreadyOver
  <2> QED BY <1>2, <2>2, <2>3
<1>6. ASSUME NEW c \in Callers, NEW a \in Successes \cup Refusals \cup Doubtful,
             Exchange(c, a)
      PROVE  closed' = {} /\ client' # 0 /\ \A d \in Callers : Upright(d)'
  <2>1. /\ UNCHANGED <<closed, client, transport, using>>
        /\ pc[c] = "request" /\ attempt' = [attempt EXCEPT ![c] = @ + 1]
    BY <1>6 DEF Exchange
  <2>2. \E l \in {"broken", "returned", "request", "failed"} :
            pc' = [pc EXCEPT ![c] = l] /\ (l = "failed" => ~(attempt'[c] < max_retries))
    BY <1>6 DEF Exchange, AttemptsLeft
  <2>3. attempt'[c] \in 0 .. max_retries /\ max_retries \in Nat
    BY TransportAssumption
  <2> QED BY <1>2, <2>1, <2>2, <2>3
<1>7. ASSUME NEW c \in Callers, SessionEnds(c)
      PROVE  closed' = {} /\ client' # 0 /\ \A d \in Callers : Upright(d)'
  BY <1>2, <1>7 DEF SessionEnds
<1>8. CASE UNCHANGED vars
  BY <1>2, <1>8 DEF vars
<1> QED
  BY <1>1, <1>3, <1>4, <1>5, <1>6, <1>7, <1>8 DEF Next, CallerStep

\* With credentials that look right and until the shutdown, whatever Devin
\* answers, a call that no answer broke raises only after max_retries requests.
THEOREM GivesUpOnlyWhenExhausted == Spec => []RaisesOnlyWhenExhausted
<1>1. Init => OpenInv
  BY TransportAssumption DEF Init, OpenInv, Upright, NoClient
<1>2. OpenInv => RaisesOnlyWhenExhausted
  BY DEF OpenInv, Upright, RaisesOnlyWhenExhausted
<1> QED BY <1>1, <1>2, Typed, OpenNext, PTL DEF Spec

(***************************************************************************)
(* What a call leaves at Devin.  A request that took effect was answered   *)
(* by a success or by nothing that tells; an error that says "over" tells  *)
(* the truth.                                                              *)
(***************************************************************************)
Creating(c) ==
    /\ created[c] <= attempt[c]
    /\ IF pc[c] = "returned"
       THEN created[c] >= 1 /\ created[c] <= doubtful[c] + 1
       ELSE created[c] <= doubtful[c]

Terminating(c) ==
    /\ last_exc[c] = "already_over" => over[c]
    /\ pc[c] = "returned" => over[c]

EffectInv == \A c \in Callers : IF Creates(c) THEN Creating(c) ELSE Terminating(c)

LEMMA EffectFrame ==
    ASSUME TypeInv, TypeInv', EffectInv, UNCHANGED <<method, attempt, last_exc, doubtful, remote>>,
           \A c \in Callers : (pc[c] = "returned" <=> pc'[c] = "returned")
    PROVE  EffectInv'
BY DEF EffectInv, Creates, Creating, Terminating, remote

LEMMA EffectExchange ==
    ASSUME TypeInv, TypeInv', EffectInv, NEW c \in Callers,
           NEW a \in Successes \cup Refusals \cup Doubtful, Exchange(c, a)
    PROVE  EffectInv'
<1> USE DEF TypeInv, TypeOK, EffectInv, Creates, globals, remote, Goto
<1>1. UNCHANGED method /\ pc[c] = "request"
  BY DEF Exchange
<1>2. \A d \in Callers : d # c =>
          /\ pc'[d] = pc[d] /\ created'[d] = created[d] /\ over'[d] = over[d]
          /\ attempt'[d] = attempt[d] /\ doubtful'[d] = doubtful[d]
          /\ last_exc'[d] = last_exc[d]
  BY DEF Exchange, Takes
<1>3. \A d \in Callers : d # c => (IF Creates(d) THEN Creating(d) ELSE Terminating(d))'
  BY <1>1, <1>2 DEF Creating, Terminating
<1>4. CASE Creates(c)
  <2>1. /\ attempt'[c] = attempt[c] + 1
        /\ doubtful'[c] = IF a \in Doubtful \/ a = "unreadable"
                          THEN doubtful[c] + 1 ELSE doubtful[c]
        /\ pc'[c] = "returned" <=> a = "ok"
    BY <1>4 DEF Exchange, Breaks, Accepted, Doubtful, Successes, Refusals
  <2>2. CASE a \in Successes
    <3>1. created'[c] = created[c] + 1
      BY <1>4, <2>2 DEF Exchange, Takes, Doubtful, Successes, Refusals
    <3>2. Creating(c)'
      BY <1>1, <1>4, <2>1, <2>2, <3>1 DEF Creating, Doubtful, Successes
    <3> QED BY <1>1, <1>3, <1>4, <3>2
  <2>3. CASE a \in Doubtful
    <3>1. created'[c] \in {created[c], created[c] + 1}
      BY <1>4, <2>3 DEF Exchange, Takes
    <3>2. Creating(c)'
      BY <1>1, <1>4, <2>1, <2>3, <3>1 DEF Creating, Doubtful
    <3> QED BY <1>1, <1>3, <1>4, <3>2
  <2>4. CASE a \in Refusals
    <3>1. created'[c] = created[c]
      BY <1>4, <2>4 DEF Exchange, Doubtful, Successes, Refusals
    <3>2. Creating(c)'
      BY <1>1, <1>4, <2>1, <2>4, <3>1 DEF Creating, Doubtful, Refusals
    <3> QED BY <1>1, <1>3, <1>4, <3>2
  <2> QED BY <2>2, <2>3, <2>4
<1>5. CASE ~Creates(c)
  <2>1. over[c] => over'[c]
    BY <1>5 DEF Exchange, Takes
  <2>2. a \in Successes => over'[c]
    BY <1>5 DEF Exchange, Takes, Doubtful, Successes, Refusals
  <2>3. a = "already_over" => over[c]
    BY <1>5 DEF Exchange
  <2>4. pc'[c] = "returned" => a \in Successes
    BY <1>5 DEF Exchange, Accepted
  <2>5. last_exc'[c] \in {last_exc[c], a}
    BY DEF Exchange
  <2>6. Terminating(c)'
    BY <1>1, <1>5, <2>1, <2>2, <2>3, <2>4, <2>5 DEF Terminating
  <2> QED BY <1>1, <1>3, <1>5, <2>6
<1> QED BY <1>4, <1>5

LEMMA EffectNext == TypeInv /\ TypeInv' /\ EffectInv /\ [Next]_vars => EffectInv'
<1> SUFFICES ASSUME TypeInv, TypeInv', EffectInv, [Next]_vars PROVE EffectInv'
  OBVIOUS
<1> USE DEF TypeInv, TypeOK, globals, call, Goto
<1>1. ASSUME NEW c \in Callers,
             \/ Check(c) \/ Lock(c) \/ CheckAgain(c) \/ Open(c) \/ Rejected(c) \/ Wrap(c)
             \/ Return(c) \/ Unusable(c) \/ Raise(c)
      PROVE  EffectInv'
  <2>1. UNCHANGED <<method, attempt, last_exc, doubtful, remote>>
    BY <1>1 DEF Check, Lock, CheckAgain, Open, Rejected, Wrap, Return, Unusable, Raise
  <2>2. \A d \in Callers : (pc[d] = "returned" <=> pc'[d] = "returned")
    BY <1>1 DEF Check, Lock, CheckAgain, Open, Rejected, Wrap, Return, Unusable, Raise
  <2> QED BY <2>1, <2>2, EffectFrame
<1>2. ASSUME NEW c \in Callers, AlreadyOver(c)
      PROVE  EffectInv'
  BY <1>2 DEF AlreadyOver, SaysAlreadyOver, EffectInv, Creates, Creating, Terminating, remote
<1>3. ASSUME NEW c \in Callers, SessionEnds(c)
      PROVE  EffectInv'
  BY <1>3 DEF SessionEnds, EffectInv, Creates, Creating, Terminating
<1>4. CASE Reset \/ UNCHANGED vars
  <2>1. UNCHANGED <<method, attempt, last_exc, doubtful, remote, pc>>
    BY <1>4 DEF Reset, vars
  <2> QED BY <2>1, EffectFrame
<1> QED BY <1>1, <1>2, <1>3, <1>4, EffectExchange DEF Next, CallerStep

LEMMA Effects == Spec => []EffectInv
<1>1. Init => EffectInv
  BY DEF Init, EffectInv, Creates, Creating, Terminating
<1> QED BY <1>1, Typed, EffectNext, PTL DEF Spec

\* A create call leaves at most one session that nobody tracks for each
\* answer that was lost or unreadable, and never more than max_retries.
THEOREM SessionsAreAccounted == Spec => []SessionsAccounted
<1>1. TypeInv /\ EffectInv => SessionsAccounted
  BY TransportAssumption
     DEF TypeInv, TypeOK, EffectInv, Creating, SessionsAccounted, Ended
<1> QED BY <1>1, Typed, Effects, PTL

\* A terminate call that returns has stopped its session, although the loop
\* hides which of its requests arrived.
THEOREM ReturnedIsOver == Spec => []ReturnedMeansOver
<1>1. EffectInv => ReturnedMeansOver
  BY DEF EffectInv, Terminating, ReturnedMeansOver
<1> QED BY <1>1, Effects, PTL
=============================================================================
