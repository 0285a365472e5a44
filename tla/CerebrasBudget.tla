--------------------------- MODULE CerebrasBudget ---------------------------
(***************************************************************************)
(* The throttle of the remote provider's calls to one model,               *)
(* variatio/core/cerebras_budget.py as variatio/core/cerebras.py uses it:  *)
(* a ledger in a file, shared by the threads of several processes, that    *)
(* says what was spent in the last minute and in the last day.  A call     *)
(* waits until it fits, books its estimate, goes out, and settles what it  *)
(* cost.                                                                   *)
(*                                                                         *)
(* An action that touches the ledger is one _transaction, exclusive among  *)
(* threads and processes.  Time is kept as ages, which stop growing at the *)
(* width of a day: past it nothing is counted.  A reading of what is left   *)
(* is kept while its window lasts, and says nothing afterwards.  The flight *)
(* list, which only the panel draws, is left out.                           *)
(***************************************************************************)
EXTENDS Integers, FiniteSets, Functions

Window == {"minute", "day"}
Kind == {"requests", "tokens"}

CONSTANTS
    Caller,    \* threads of this server and of its builds
    Width,     \* Width[w]: how long a window is
    Ceiling,   \* Ceiling[w][k]: the four CEREBRAS_MAX_* settings
    Stale,     \* _INFLIGHT_STALE_SECONDS
    MaxWait,   \* CEREBRAS_MAX_WAIT_SECONDS
    Estimate,  \* what a prompt may be estimated at, in tokens
    Cost,      \* what an answer may say it cost
    Heard,     \* what the headers of an answer may say is left
    MaxSeq,    \* bound: calls announced
    MaxDeaths  \* bound: callers that die

ASSUME BudgetAssumption ==
    /\ Width \in [Window -> Nat \ {0}]
    /\ Width["minute"] <= Width["day"]
    /\ Ceiling \in [Window -> [Kind -> Nat]]
    /\ Stale \in Nat /\ Stale < Width["day"]
    /\ MaxWait \in Nat
    /\ Estimate \subseteq Nat \ {0}
    /\ Cost \subseteq Nat
    /\ \A h \in Heard : DOMAIN h \subseteq Window \X Kind /\ Range(h) \subseteq Nat
    /\ MaxSeq \in Nat /\ MaxDeaths \in Nat

VARIABLES
    calls,    \* the ledger: what was booked or settled, by sequence number
    seen,     \* the ledger: what the provider last said was left of a window
    seq,      \* the ledger: last sequence number
    stage,    \* where each caller stands
    claim,    \* claim[c]: sequence number of c's claim
    need,     \* need[c]: its estimate
    waited,   \* waited[c]: time since it was announced
    pause,    \* pause[c]: what is left of its hold
    deaths,   \* callers that died so far
    sent,     \* history: age of the requests let through in the last day
    forgiven  \* history: those of them whose room was given back

ledgerVars == <<calls, seen, seq>>
callerVars == <<stage, claim, need, waited, pause>>
vars == <<ledgerVars, callerVars, deaths, sent, forgiven>>

Day == Width["day"]
Age == 0..Day
Call == [age : Age, tokens : Nat, hold : BOOLEAN]
Reading == [age : Age, left : Nat, seq : Nat]
Stage == {"idle", "trying", "holding", "sent", "leaving"}

TypeOK == /\ DOMAIN calls \in SUBSET Nat /\ IsFiniteSet(DOMAIN calls)
          /\ calls \in [DOMAIN calls -> Call]
          /\ DOMAIN seen \subseteq Window \X Kind
          /\ seen \in [DOMAIN seen -> Reading]
          /\ seq \in Nat
          /\ stage \in [Caller -> Stage]
          /\ claim \in [Caller -> Nat]
          /\ need \in [Caller -> Estimate \cup {0}]
          /\ waited \in [Caller -> 0..MaxWait]
          /\ pause \in [Caller -> 0..MaxWait]
          /\ deaths \in 0..MaxDeaths
          /\ DOMAIN sent \in SUBSET Nat /\ IsFiniteSet(DOMAIN sent)
          /\ sent \in [DOMAIN sent -> Age]
          /\ forgiven \in SUBSET Nat

Init == /\ calls = [n \in {} |-> 0]
        /\ seen = [p \in {} |-> 0]
        /\ seq = 0
        /\ stage = [c \in Caller |-> "idle"]
        /\ claim = [c \in Caller |-> 0]
        /\ need = [c \in Caller |-> 0]
        /\ waited = [c \in Caller |-> 0]
        /\ pause = [c \in Caller |-> 0]
        /\ deaths = 0
        /\ sent = [n \in {} |-> 0]
        /\ forgiven = {}

-----------------------------------------------------------------------------
(* The arithmetic of the ledger *)

Inside(w) == {n \in DOMAIN calls : calls[n].age < Width[w]}
Amount(k, S) == IF k = "requests" THEN Cardinality(S)
                ELSE SumFunction([n \in S |-> calls[n].tokens])
Used(w, k) == Amount(k, Inside(w))

(* What was announced after the call a reading answered is taken from it   *)
(* (_reported).                                                            *)
Binding(w, k) == <<w, k>> \in DOMAIN seen
Reported(w, k) == seen[<<w, k>>].left
                  - Amount(k, {n \in DOMAIN calls : n > seen[<<w, k>>].seq})

Remaining(w, k) == LET local == Ceiling[w][k] - Used(w, k) IN
                   IF Binding(w, k) /\ Reported(w, k) < local THEN Reported(w, k) ELSE local

Needs(c, k) == IF k = "requests" THEN 1 ELSE need[c]

(* Slip of _compute: a call larger than a window is not told apart. *)
NeverTooLarge(c) == FALSE

(* More than a whole window, however empty. *)
TooLarge(c) == \E w \in Window, k \in Kind : Needs(c, k) > Ceiling[w][k]

Short(c) == {p \in Window \X Kind : Remaining(p[1], p[2]) < Needs(c, p[2])}

(* The waits after which m of w has aged out of it, oldest first. *)
Ripe(w, k, m) ==
    {d \in 1..Width[w] : Amount(k, {n \in Inside(w) : Width[w] - calls[n].age <= d}) >= m}

(* _relief: the first of them, and the end of a reading; nothing is "now". *)
Relief(w, k, m) == {d \in Ripe(w, k, m) : \A e \in Ripe(w, k, m) : d <= e}
                   \cup {d \in 1..Width[w] : Binding(w, k) /\ d = Width[w] - seen[<<w, k>>].age}

(* _compute: what c would have to wait for; the longest of them is held.   *)
Waits(c) == UNION {Relief(p[1], p[2], Needs(c, p[2]) - Remaining(p[1], p[2])) : p \in Short(c)}

(* Slip of wait: held < 0. *)
FitsBelow(waits) == \E d \in waits : d < 0

(* held <= 0 *)
Fits(waits) == waits = {}

(* Slip of _compute: no wait is too long for it. *)
NeverExhausted(c, waits) == FALSE

(* BudgetExhausted, by _compute or by the deadline, which counts from the  *)
(* first attempt.                                                          *)
Exhausted(c, waits) == \E d \in waits : d > MaxWait \/ waited[c] + d > MaxWait

Unsettled(f) == {n \in DOMAIN f : f[n].hold /\ f[n].age > Stale}

(* _prune: what is older than a day, and every booking nobody settled. *)
Prune(f) == Restrict(f, {n \in DOMAIN f : f[n].age < Day} \ Unsettled(f))

With(f, n, x) == [i \in DOMAIN f \cup {n} |-> IF i = n THEN x ELSE f[i]]

-----------------------------------------------------------------------------
(* A call: _send, generate_stream and wait *)

Goes(c, s) == stage' = [stage EXCEPT ![c] = s]

(* The call is over, and its locals with it. *)
Ends(c) == /\ Goes(c, "idle")
           /\ claim' = [claim EXCEPT ![c] = 0]
           /\ need' = [need EXCEPT ![c] = 0]
           /\ waited' = [waited EXCEPT ![c] = 0]
           /\ pause' = [pause EXCEPT ![c] = 0]

(* _announce; a retry of _post is announced anew. *)
Announce(c, e) == /\ stage[c] = "idle"
                  /\ seq < MaxSeq
                  /\ seq' = seq + 1
                  /\ Goes(c, "trying")
                  /\ claim' = [claim EXCEPT ![c] = seq + 1]
                  /\ need' = [need EXCEPT ![c] = e]
                  /\ waited' = [waited EXCEPT ![c] = 0]
                  /\ UNCHANGED <<calls, seen, pause, deaths, sent, forgiven>>

(* Slip of wait: the room is looked at and not booked. *)
BookNothing(c, waits) == /\ stage[c] = "trying"
                         /\ ~TooLarge(c) /\ Fits(waits)
                         /\ calls' = Prune(calls)
                         /\ forgiven' = forgiven \cup (Unsettled(calls) \cap DOMAIN sent)
                         /\ sent' = With(sent, claim[c], 0)
                         /\ Goes(c, "sent")
                         /\ waited' = [waited EXCEPT ![c] = 0]
                         /\ UNCHANGED <<seen, seq, claim, need, pause, deaths>>

(* The room is booked in the transaction that found it. *)
Book(c, waits) == /\ stage[c] = "trying"
                  /\ ~TooLarge(c) /\ Fits(waits)
                  /\ calls' = Prune(With(calls, claim[c], [age |-> 0, tokens |-> need[c], hold |-> TRUE]))
                  /\ forgiven' = forgiven \cup (Unsettled(calls) \cap DOMAIN sent)
                  /\ sent' = With(sent, claim[c], 0)
                  /\ Goes(c, "sent")
                  /\ waited' = [waited EXCEPT ![c] = 0]
                  /\ UNCHANGED <<seen, seq, claim, need, pause, deaths>>

Hold(c, waits) == /\ stage[c] = "trying"
                  /\ ~TooLarge(c) /\ ~Exhausted(c, waits)
                  /\ \E d \in waits : /\ \A e \in waits : e <= d
                                      /\ pause' = [pause EXCEPT ![c] = d]
                  /\ Goes(c, "holding")
                  /\ UNCHANGED <<ledgerVars, claim, need, waited, deaths, sent, forgiven>>

Refuse(c, waits) == /\ stage[c] = "trying"
                    /\ TooLarge(c) \/ Exhausted(c, waits)
                    /\ Goes(c, "leaving")
                    /\ UNCHANGED <<ledgerVars, claim, need, waited, pause, deaths, sent, forgiven>>

Wake(c) == /\ stage[c] = "holding"
           /\ pause[c] = 0
           /\ Goes(c, "trying")
           /\ UNCHANGED <<ledgerVars, claim, need, waited, pause, deaths, sent, forgiven>>

(* progress.checkpoint() while held. *)
Cancel(c) == /\ stage[c] = "holding"
             /\ pause' = [pause EXCEPT ![c] = 0]
             /\ Goes(c, "leaving")
             /\ UNCHANGED <<ledgerVars, claim, need, waited, deaths, sent, forgiven>>

(* record: the booking is settled, or appended if it was given up as dead. *)
(* A stream releases its claim afterwards.                                 *)
Settled(n, x, h) ==
    LET booked == n \in DOMAIN calls
        m == IF booked THEN n ELSE seq + 1
        f == With(calls, m, [age |-> IF booked THEN calls[n].age ELSE 0,
                             tokens |-> x, hold |-> FALSE])
    IN /\ seq' = (IF booked THEN seq ELSE seq + 1)
       /\ calls' = Prune(f)
       /\ forgiven' = forgiven \cup (Unsettled(f) \cap DOMAIN sent)
       /\ seen' = [p \in DOMAIN seen \cup DOMAIN h |->
                     IF p \in DOMAIN h THEN [age |-> 0, left |-> h[p], seq |-> m] ELSE seen[p]]

Answer(c, x, h) == /\ stage[c] = "sent"
                   /\ Settled(claim[c], x, h)
                   /\ \/ Ends(c)
                      \/ Goes(c, "leaving") /\ UNCHANGED <<claim, need, waited, pause>>
                   /\ UNCHANGED <<deaths, sent>>

(* A connection that fails, or a stream stopped at a token: the request    *)
(* was spent, and its room is given back.                                  *)
Break(c) == /\ stage[c] = "sent"
            /\ Goes(c, "leaving")
            /\ forgiven' = forgiven \cup ({claim[c]} \cap DOMAIN sent)
            /\ UNCHANGED <<ledgerVars, claim, need, waited, pause, deaths, sent>>

Release(c) ==
    /\ stage[c] = "leaving"
    /\ calls' = Restrict(calls, {n \in DOMAIN calls : ~(n = claim[c] /\ calls[n].hold)})
    /\ Ends(c)
    /\ UNCHANGED <<seen, seq, deaths, sent, forgiven>>

(* The process goes: the ledger keeps what it wrote. *)
Die(c) == /\ stage[c] # "idle"
          /\ deaths < MaxDeaths
          /\ deaths' = deaths + 1
          /\ Ends(c)
          /\ UNCHANGED <<ledgerVars, sent, forgiven>>

-----------------------------------------------------------------------------
Older(a) == IF a < Day THEN a + 1 ELSE a

Tick == /\ calls' = [n \in DOMAIN calls |-> [calls[n] EXCEPT !.age = Older(@)]]
        /\ seen' = [p \in {q \in DOMAIN seen : seen[q].age + 1 < Width[q[1]]} |->
                      [seen[p] EXCEPT !.age = @ + 1]]
        /\ waited' = [c \in Caller |-> IF stage[c] \in {"trying", "holding"} /\ waited[c] < MaxWait
                                       THEN waited[c] + 1 ELSE waited[c]]
        /\ pause' = [c \in Caller |-> IF pause[c] > 0 THEN pause[c] - 1 ELSE 0]
        /\ sent' = [n \in {m \in DOMAIN sent : sent[m] + 1 < Day} |-> sent[n] + 1]
        /\ forgiven' = forgiven \cap DOMAIN sent'
        /\ UNCHANGED <<seq, stage, claim, need, deaths>>

(* One turn of the loop of wait: what _compute finds, and what follows. *)
Attempt(c) == LET waits == Waits(c) IN Book(c, waits) \/ Hold(c, waits) \/ Refuse(c, waits)

Next == \/ \E c \in Caller : \/ \E e \in Estimate : Announce(c, e)
                             \/ Attempt(c) \/ Wake(c) \/ Cancel(c)
                             \/ \E x \in Cost, h \in Heard : Answer(c, x, h)
                             \/ Break(c) \/ Release(c) \/ Die(c)
        \/ Tick

Spec == Init /\ [][Next]_vars

(* The clock runs, and so do the threads that wait for nobody. *)
FairSpec == Spec /\ WF_vars(Tick)
                 /\ \A c \in Caller : WF_vars(Attempt(c)) /\ WF_vars(Wake(c)) /\ WF_vars(Release(c))

-----------------------------------------------------------------------------
(* Properties *)

(* In any minute and in any day no more requests go out than their         *)
(* settings allow, whoever sends them and however they end, but for the    *)
(* ones whose room was given back after they went out (D-068: a hard cap). *)
CeilingHolds == \A w \in Window :
    Cardinality({n \in DOMAIN sent \ forgiven : sent[n] < Width[w]}) <= Ceiling[w]["requests"]

(* A call that is let through fits with all the ledger knows of, its       *)
(* tokens and the provider's own readings included: the gate asks only how *)
(* long to wait, and "now" is also what it hears when nothing would help   *)
(* (_compute, _relief).                                                    *)
RoomWhenBooked == [][\A c \in Caller :
    stage[c] = "trying" /\ stage'[c] = "sent" =>
        \A w \in Window, k \in Kind : Remaining(w, k)' >= 0]_vars

(* A call that asks for room is let through, refused or given up, while    *)
(* others take the room it waits for (wait: the deadline counts from the   *)
(* first attempt).                                                         *)
EveryCallEnds == \A c \in Caller : stage[c] = "trying" ~> stage[c] \in {"sent", "idle"}
=============================================================================
