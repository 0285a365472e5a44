------------------------------ MODULE JobQueue ------------------------------
(***************************************************************************)
(* The job queue of server/jobs/: runner.py (JobRunner), priority.py and   *)
(* lanes.py.  Requests submit and cancel jobs, one dispatcher thread       *)
(* launches them, each running job has a worker thread, the panel changes  *)
(* the remote lane's room while all of them run, and the process may shut  *)
(* down.  One action is one section under the runner's lock, or one step   *)
(* of a thread between two such sections.                                  *)
(*                                                                         *)
(* A Job is a slot: it stands for one Job object of a fixed kind from its  *)
(* submission until its threads are gone, and may then stand for a fresh   *)
(* one.  That keeps the state finite while submissions never stop.         *)
(***************************************************************************)
EXTENDS Integers, FiniteSets

CONSTANTS
    Job,             \* submission slots
    Class,           \* Class[j]: 0 interactive, 1 batch, 2 background
    Backends,        \* Backends[j]: lanes resolved at submission
    Links,           \* Links[j]: slots the chain may queue after j succeeds
    LocalCapacity,   \* lanes.LOCAL_CAPACITY
    RemoteSettings,  \* the values CEREBRAS_MAX_CONCURRENT_JOBS is given
    RemoteLimit,     \* a bound of RemoteSettings
    MaxBackground,   \* LOCAL_MAX_BACKGROUND_JOBS, at least 1
    PromoteB,        \* QUEUE_PROMOTE_B_AFTER_SECONDS, in clock ticks
    PromoteC,        \* QUEUE_PROMOTE_C_AFTER_SECONDS, in clock ticks
    Api,             \* the submitter that is a request and not a worker
    Reused,          \* bound: slots that take another submission once settled
    Cancellable,     \* bound: jobs somebody may cancel
    Stops            \* bound: whether the process may shut down

Lane == {"local", "remote"}
Terminal == {"succeeded", "failed", "cancelled"}
Status == {"new", "queued", "running"} \cup Terminal

ASSUME JobAssumption == IsFiniteSet(Job) /\ Api \notin Job /\ "none" \notin Job \cup {Api}
ASSUME KindAssumption == /\ Class \in [Job -> 0..2]
                         /\ Backends \in [Job -> SUBSET Lane]
                         /\ Links \in [Job -> SUBSET Job]
ASSUME RoomAssumption == /\ LocalCapacity \in Nat \ {0}
                         /\ RemoteLimit \in Nat \ {0}
                         /\ RemoteSettings \subseteq Int
                         /\ RemoteSettings # {}
                         /\ \A s \in RemoteSettings : s <= RemoteLimit
ASSUME RuleAssumption == /\ MaxBackground \in Nat \ {0}
                         /\ PromoteB \in Nat
                         /\ PromoteC \in Nat
ASSUME BoundAssumption == Reused \subseteq Job /\ Cancellable \subseteq Job /\ Stops \in BOOLEAN

VARIABLES
    status,     \* status[j]: Job.status ("new": never submitted)
    ahead,      \* ahead[j]: waiting jobs that arrived before waiting job j
    waited,     \* waited[j]: ticks since created_at while j waits, else 0
    position,   \* position[j]: Job.queue_position, as last stamped
    holders,    \* holders[b]: jobs holding a slot of lane b
    cancelled,  \* cancelled[j]: JobControl.cancel_event
    setting,    \* CEREBRAS_MAX_CONCURRENT_JOBS, changed live by the panel
    wake,       \* JobRunner._wake
    submitter,  \* submitter[j]: who queued j and has still to announce it
    worker,     \* worker[j]: where j's thread is; see WorkerState
    canceller,  \* canceller[j]: a cancel() saw j running, flag not yet up
    dispatcher, \* "wait", "read", "pick" or "gone"
    seen,       \* room of the remote lane as the dispatcher last read it
    stopping,   \* JobRunner._stopping
    shutdown,   \* "up", "flagged", "raising" or "joining"
    targets     \* running jobs shutdown() collected and has yet to ask

jobVars == <<status, ahead, waited, position, holders>>
threadVars == <<cancelled, submitter, worker, canceller>>
dispatchVars == <<wake, dispatcher, seen>>
stopVars == <<stopping, shutdown, targets>>
vars == <<jobVars, threadVars, dispatchVars, stopVars, setting>>

(* A worker about to write a final status is in the state named after it. *)
WorkerState == {"none", "handler", "chain", "settled", "released"} \cup Terminal
Holding == {"handler", "chain", "settled"} \cup Terminal

TypeOK == /\ status \in [Job -> Status]
          /\ ahead \in [Job -> SUBSET Job]
          /\ waited \in [Job -> 0..(PromoteB + PromoteC)]
          /\ position \in [Job -> Nat]
          /\ holders \in [Lane -> SUBSET Job]
          /\ cancelled \in [Job -> BOOLEAN]
          /\ setting \in RemoteSettings
          /\ wake \in BOOLEAN
          /\ submitter \in [Job -> Job \cup {Api, "none"}]
          /\ worker \in [Job -> WorkerState]
          /\ canceller \in [Job -> BOOLEAN]
          /\ dispatcher \in {"wait", "read", "pick", "gone"}
          /\ seen \in 1..RemoteLimit
          /\ stopping \in BOOLEAN
          /\ shutdown \in {"up", "flagged", "raising", "joining"}
          /\ targets \in SUBSET Job

-----------------------------------------------------------------------------
(* priority.py and lanes.py *)

Waiting == {j \in Job : status[j] = "queued"}
Running == {j \in Job : status[j] = "running"}

(* Slip: the setting taken as it is. *)
CapacityAsSet == setting

(* The room of the remote lane under the live setting: never below one. *)
Capacity == IF setting < 1 THEN 1 ELSE setting
Room(b) == IF b = "remote" THEN seen ELSE LocalCapacity

(* Slip: a background job is raised once and no further. *)
RankRaisedOnce(j) ==
    CASE Class[j] = 2 -> IF waited[j] < PromoteC THEN 2 ELSE 1
      [] Class[j] = 1 -> IF waited[j] < PromoteB THEN 1 ELSE 0
      [] OTHER -> 0

(* A class, raised by the wait: C to B after PromoteC, B to A after        *)
(* PromoteB on top.                                                        *)
Rank(j) ==
    LET inB == IF Class[j] = 2 THEN waited[j] - PromoteC ELSE waited[j]
    IN CASE Class[j] = 2 /\ inB < 0 -> 2
         [] Class[j] > 0 /\ inB >= PromoteB -> 0
         [] Class[j] = 0 -> 0
         [] OTHER -> 1

(* The order jobs go out in: by rank, then by arrival. *)
Before(i, j) == \/ Rank(i) < Rank(j)
                \/ Rank(i) = Rank(j) /\ i \in ahead[j]

Positions == [j \in Job |->
    IF j \notin Waiting THEN 0
    ELSE 1 + Cardinality({i \in Waiting : /\ Before(i, j)
                                          /\ Backends[i] \cap Backends[j] # {}})]
Restamp == position' = Positions'

(* Slip: a blocked job holds nothing against the ones behind it. *)
IsBlockedSetUnreserved(B) == \A j \in Waiting :
    j \in B <=> \E b \in Backends[j] : Cardinality(holders[b]) >= Room(b)

(* The jobs the pass finds no lane for, each holding a slot of its lanes   *)
(* against whatever goes out after it.                                     *)
IsBlockedSet(B) == \A j \in Waiting :
    j \in B <=> \E b \in Backends[j] :
        Cardinality(holders[b])
          + Cardinality({i \in B : Before(i, j) /\ b \in Backends[i]}) >= Room(b)

(* A background job kept out by the cap on them; it takes no slot. *)
Capped(j) == /\ Class[j] = 2
             /\ "local" \in Backends[j]
             /\ Cardinality({i \in holders["local"] : Class[i] = 2}) >= MaxBackground

(* Slip: whoever is first goes out, room or no room. *)
NextReadyFirst(j) == j \in Waiting /\ \A i \in Waiting : ~Before(i, j)

(* _next_ready: the first job, in the order they go out, that can start. *)
NextReady(j) == /\ j \in Waiting
                /\ \E B \in SUBSET Waiting :
                     /\ IsBlockedSet(B)
                     /\ j \notin B
                     /\ ~Capped(j)
                     /\ \A i \in Waiting : Before(i, j) => i \in B \/ Capped(i)

-----------------------------------------------------------------------------
Init == /\ status = [j \in Job |-> "new"]
        /\ ahead = [j \in Job |-> {}]
        /\ waited = [j \in Job |-> 0]
        /\ position = [j \in Job |-> 0]
        /\ holders = [b \in Lane |-> {}]
        /\ cancelled = [j \in Job |-> FALSE]
        /\ setting \in RemoteSettings
        /\ wake = FALSE
        /\ submitter = [j \in Job |-> "none"]
        /\ worker = [j \in Job |-> "none"]
        /\ canceller = [j \in Job |-> FALSE]
        /\ dispatcher = "wait"
        /\ seen = 1
        /\ stopping = FALSE
        /\ shutdown = "up"
        /\ targets = {}

(* Nothing of the slot's earlier submission is left in any thread. *)
Free(j) == /\ status[j] = "new" \/ (status[j] \in Terminal /\ j \in Reused)
           /\ worker[j] = "none"
           /\ submitter[j] = "none"
           /\ ~canceller[j]
           /\ j \notin targets

(* The locked part of submit(), by thread who. *)
Enqueue(j, who) == /\ Free(j)
                   /\ status' = [status EXCEPT ![j] = "queued"]
                   /\ ahead' = [ahead EXCEPT ![j] = Waiting]
                   /\ waited' = [waited EXCEPT ![j] = 0]
                   /\ cancelled' = [cancelled EXCEPT ![j] = FALSE]
                   /\ submitter' = [submitter EXCEPT ![j] = who]
                   /\ Restamp
                   /\ UNCHANGED <<holders, setting, canceller, dispatchVars, stopVars>>

(* Slip: the positions of the rest are left as they were. *)
LeaveUnstamped(j, st) == /\ status' = [status EXCEPT ![j] = st]
                         /\ ahead' = [i \in Job |-> IF i = j THEN {} ELSE ahead[i] \ {j}]
                         /\ waited' = [waited EXCEPT ![j] = 0]
                         /\ position' = [position EXCEPT ![j] = 0]

(* j stops waiting, with the status st. *)
Leave(j, st) == /\ status' = [status EXCEPT ![j] = st]
                /\ ahead' = [i \in Job |-> IF i = j THEN {} ELSE ahead[i] \ {j}]
                /\ waited' = [waited EXCEPT ![j] = 0]
                /\ Restamp

(* A request submits a job; backends_for() was read just before the lock. *)
Submit(j) == Enqueue(j, Api) /\ UNCHANGED worker

(* The end of submit(), outside the lock: job.queued is out, wake the pass. *)
Announce(j) == /\ submitter[j] # "none"
               /\ submitter' = [submitter EXCEPT ![j] = "none"]
               /\ wake' = TRUE
               /\ UNCHANGED <<jobVars, cancelled, worker, canceller, dispatcher, seen,
                              stopVars, setting>>

(* Slip: a running job is dropped as if it were queued. *)
CancelQueuedOrRunning(j) == /\ j \in Cancellable
                            /\ status[j] \in {"queued", "running"}
                            /\ Leave(j, "cancelled")
                            /\ wake' = TRUE
                            /\ UNCHANGED <<holders, threadVars, dispatcher, seen, stopVars,
                                           setting>>

(* cancel() of a queued job: dropped under the lock. *)
CancelQueued(j) == /\ j \in Cancellable
                   /\ status[j] = "queued"
                   /\ Leave(j, "cancelled")
                   /\ wake' = TRUE
                   /\ UNCHANGED <<holders, threadVars, dispatcher, seen, stopVars, setting>>

(* cancel() of a running job decides under the lock and asks after it. *)
CancelRunning(j) == /\ j \in Cancellable
                    /\ status[j] = "running"
                    /\ ~canceller[j]
                    /\ canceller' = [canceller EXCEPT ![j] = TRUE]
                    /\ UNCHANGED <<jobVars, cancelled, submitter, worker, dispatchVars,
                                   stopVars, setting>>

CancelRaise(j) == /\ canceller[j]
                  /\ canceller' = [canceller EXCEPT ![j] = FALSE]
                  /\ cancelled' = [cancelled EXCEPT ![j] = TRUE]
                  /\ UNCHANGED <<jobVars, submitter, worker, dispatchVars, stopVars, setting>>

-----------------------------------------------------------------------------
(* The dispatcher thread *)

(* The wait ends by the wake or by the half-second tick, so at any time. *)
DispatchWake == /\ dispatcher = "wait"
                /\ ~stopping
                /\ wake' = FALSE
                /\ dispatcher' = "read"
                /\ UNCHANGED <<jobVars, threadVars, seen, stopVars, setting>>

DispatchLeave == /\ dispatcher = "wait"
                 /\ stopping
                 /\ wake' = FALSE
                 /\ dispatcher' = "gone"
                 /\ UNCHANGED <<jobVars, threadVars, seen, stopVars, setting>>

(* capacities() is read before the lock. *)
DispatchRead == /\ dispatcher = "read"
                /\ seen' = Capacity
                /\ dispatcher' = "pick"
                /\ UNCHANGED <<jobVars, threadVars, wake, stopVars, setting>>

(* One turn of the pass that starts a job.  It does not look at stopping. *)
DispatchLaunch(j) == /\ dispatcher = "pick"
                     /\ NextReady(j)
                     /\ Leave(j, "running")
                     /\ holders' = [b \in Lane |-> IF b \in Backends[j]
                                                   THEN holders[b] \cup {j}
                                                   ELSE holders[b]]
                     /\ worker' = [worker EXCEPT ![j] = "handler"]
                     /\ dispatcher' = "read"
                     /\ UNCHANGED <<cancelled, submitter, canceller, wake, seen, stopVars,
                                    setting>>

(* The turn that starts nothing restamps, because waiting moves positions. *)
DispatchRest == /\ dispatcher = "pick"
                /\ \A j \in Job : ~NextReady(j)
                /\ dispatcher' = "wait"
                /\ UNCHANGED <<status, ahead, waited, holders, threadVars, wake, seen,
                               stopVars, setting>>
                /\ Restamp

-----------------------------------------------------------------------------
(* The worker thread of a job: _execute, _chain, _settle, _release *)

Turn(j, from, to) == /\ worker[j] = from
                     /\ worker' = [worker EXCEPT ![j] = to]

HandlerReturns(j) == /\ Turn(j, "handler", "chain")
                     /\ ~cancelled[j]
                     /\ UNCHANGED <<jobVars, cancelled, submitter, canceller, dispatchVars,
                                    stopVars, setting>>

(* A checkpoint raised Cancelled, or the handler returned to a raised flag. *)
HandlerStopped(j) == /\ Turn(j, "handler", "cancelled")
                     /\ cancelled[j]
                     /\ UNCHANGED <<jobVars, cancelled, submitter, canceller, dispatchVars,
                                    stopVars, setting>>

HandlerFails(j) == /\ Turn(j, "handler", "failed")
                   /\ UNCHANGED <<jobVars, cancelled, submitter, canceller, dispatchVars,
                                  stopVars, setting>>

(* after_success queues a link, or has none to queue, or raises. *)
ChainLink(j, l) == /\ Turn(j, "chain", "succeeded")
                   /\ l \in Links[j]
                   /\ Enqueue(l, j)

ChainNothing(j) == /\ Turn(j, "chain", "succeeded")
                   /\ UNCHANGED <<jobVars, cancelled, submitter, canceller, dispatchVars,
                                  stopVars, setting>>

(* _settle() writes the status without the lock, once the link's own       *)
(* submit() has returned.                                                  *)
Settle(j) == /\ worker[j] \in Terminal
             /\ \A l \in Job : submitter[l] # j
             /\ status' = [status EXCEPT ![j] = worker[j]]
             /\ worker' = [worker EXCEPT ![j] = "settled"]
             /\ position' = [position EXCEPT ![j] = 0]
             /\ UNCHANGED <<ahead, waited, holders, cancelled, submitter, canceller,
                            dispatchVars, stopVars, setting>>

Release(j) == /\ Turn(j, "settled", "released")
              /\ holders' = [b \in Lane |-> holders[b] \ {j}]
              /\ UNCHANGED <<status, ahead, waited, cancelled, submitter, canceller,
                             dispatchVars, stopVars, setting>>
              /\ Restamp

(* Slip: the release does not wake the dispatcher. *)
WorkerLeaves(j) == /\ Turn(j, "released", "none")
                   /\ UNCHANGED <<jobVars, cancelled, submitter, canceller, dispatchVars,
                                  stopVars, setting>>

WorkerWakes(j) == /\ Turn(j, "released", "none")
                  /\ wake' = TRUE
                  /\ UNCHANGED <<jobVars, cancelled, submitter, canceller, dispatcher, seen,
                                 stopVars, setting>>

-----------------------------------------------------------------------------
(* The panel, the clock and shutdown() *)

ChangeSetting == /\ setting' \in RemoteSettings
                 /\ UNCHANGED <<jobVars, threadVars, dispatchVars, stopVars>>

(* The clock; past PromoteB + PromoteC another tick changes no rank. *)
Tick == /\ \E j \in Waiting : waited[j] < PromoteB + PromoteC
        /\ waited' = [j \in Job |-> IF j \in Waiting /\ waited[j] < PromoteB + PromoteC
                                    THEN waited[j] + 1 ELSE waited[j]]
        /\ UNCHANGED <<status, ahead, position, holders, threadVars, dispatchVars,
                       stopVars, setting>>

ShutdownBegin == /\ Stops
                 /\ shutdown = "up"
                 /\ shutdown' = "flagged"
                 /\ stopping' = TRUE
                 /\ UNCHANGED <<jobVars, threadVars, dispatchVars, targets, setting>>

ShutdownCollect == /\ shutdown = "flagged"
                   /\ shutdown' = "raising"
                   /\ targets' = Running
                   /\ UNCHANGED <<jobVars, threadVars, dispatchVars, stopping, setting>>

ShutdownAsk(j) == /\ j \in targets
                  /\ targets' = targets \ {j}
                  /\ cancelled' = [cancelled EXCEPT ![j] = TRUE]
                  /\ UNCHANGED <<jobVars, submitter, worker, canceller, dispatchVars,
                                 stopping, shutdown, setting>>

ShutdownJoin == /\ shutdown = "raising"
                /\ targets = {}
                /\ shutdown' = "joining"
                /\ wake' = TRUE
                /\ UNCHANGED <<jobVars, threadVars, dispatcher, seen, stopping, targets,
                               setting>>

Request(j) == Submit(j) \/ CancelQueued(j) \/ CancelRunning(j)

(* What a thread that has started something goes on to do. *)
ThreadStep(j) == \/ Announce(j) \/ CancelRaise(j) \/ HandlerReturns(j) \/ HandlerStopped(j)
                 \/ HandlerFails(j) \/ (\E l \in Job : ChainLink(j, l)) \/ ChainNothing(j)
                 \/ Settle(j) \/ Release(j) \/ WorkerWakes(j)

Dispatch == \/ DispatchWake \/ DispatchLeave \/ DispatchRead \/ DispatchRest
            \/ \E j \in Job : DispatchLaunch(j)

Stop == ShutdownBegin \/ ShutdownCollect \/ ShutdownJoin \/ \E j \in Job : ShutdownAsk(j)

Next == \/ \E j \in Job : Request(j) \/ ThreadStep(j)
        \/ Dispatch \/ Stop \/ Tick \/ ChangeSetting

Spec == Init /\ [][Next]_vars

(* Every thread keeps running, the clock too, and every handler ends (its  *)
(* model calls have timeouts).  Nobody has to submit, cancel or stop.      *)
WorkerEnds(j) == \/ HandlerReturns(j) \/ HandlerStopped(j) \/ HandlerFails(j)
                 \/ (\E l \in Job : ChainLink(j, l)) \/ ChainNothing(j)
                 \/ Settle(j) \/ Release(j) \/ WorkerWakes(j)
Fairness == /\ WF_vars(Dispatch)
            /\ WF_vars(Tick)
            /\ \A j \in Job : WF_vars(Announce(j)) /\ WF_vars(CancelRaise(j))
                              /\ WF_vars(WorkerEnds(j))
FairSpec == Spec /\ Fairness

-----------------------------------------------------------------------------
(* Properties *)

(* The lanes' books are exact: a lane is held by the jobs whose thread is  *)
(* between its launch and its release, whatever way the job ended, so no   *)
(* slot leaks and none is given back twice (_launch_ready, _release).      *)
LaneBooks == \A b \in Lane :
    holders[b] = {j \in Job : worker[j] \in Holding /\ b \in Backends[j]}

(* No lane ever holds more jobs than the largest room it was given, though *)
(* the room is read before the lock and the panel changes it meanwhile.    *)
LaneLimit(b) == IF b = "remote" THEN RemoteLimit ELSE LocalCapacity
LaneCapacity == \A b \in Lane : Cardinality(holders[b]) <= LaneLimit(b)

(* The books of the threads agree with the statuses clients read: a job is *)
(* running exactly while its thread has not written its end, a request to  *)
(* stop is never aimed at a job that was not started, not even one raised  *)
(* late, and only a job whose flag is up is about to be called cancelled.  *)
ThreadsAgree == \A j \in Job :
    /\ status[j] = "running" <=> worker[j] \in {"handler", "chain"} \cup Terminal
    /\ status[j] \in {"new", "queued"} => worker[j] = "none"
    /\ canceller[j] \/ j \in targets => status[j] \in {"running"} \cup Terminal
    /\ worker[j] = "cancelled" => cancelled[j]

(* With no aging, a sleeping dispatcher with no wake set and none on its   *)
(* way has nothing it could start in the room it last read: the wake alone *)
(* carries every change that frees or fills the queue, and the half-second *)
(* tick is needed only for what has no event, the clock and a setting that *)
(* was raised since (_dispatch, submit, cancel, _release).                 *)
NoLostWakeup ==
    (/\ dispatcher = "wait"
     /\ ~wake
     /\ \A j \in Job : submitter[j] = "none" /\ worker[j] # "released")
    => \A j \in Job : ~NextReady(j)

(* With no aging, the position each waiting job was last stamped with is   *)
(* the one the queue would compute now, after any change of the queue.     *)
PositionsCurrent == position = Positions

Launches(j) == status[j] = "queued" /\ status'[j] = "running"

(* A job may overtake one that goes out before it only where a slot of     *)
(* every lane they share stays free for that one, so a job needing both    *)
(* lanes is never overtaken for ever (_next_ready).                        *)
OvertakingKeepsRoom == [][\A i \in Job : Launches(i) => \A b \in Backends[i] :
    Room(b) - Cardinality(holders'[b]) >=
        Cardinality({k \in Waiting : Before(k, i) /\ b \in Backends[k] /\ ~Capped(k)})]_vars

(* A job that has waited both terms loses no slot to one that arrived      *)
(* later, whatever the classes: what is behind it starts only where a slot *)
(* of each shared lane stays free (priority.py: nobody waits for ever).    *)
AgedIsNotDelayed == [][\A i, j \in Job :
    (/\ Launches(i)
     /\ j \in Waiting
     /\ j \in ahead[i]
     /\ waited[j] = PromoteB + PromoteC
     /\ ~Capped(j))
    => \A b \in Backends[i] \cap Backends[j] : Cardinality(holders'[b]) < Room(b)]_vars

(* A waiting job leaves the queue, by a launch or a cancel, however many   *)
(* shorter jobs keep arriving, unless the process is stopping.             *)
EveryJobStarts == \A j \in Job : status[j] = "queued" ~> status[j] # "queued" \/ stopping

(* The queue keeps the promises of JobService. *)
Service == INSTANCE JobService WITH
    asked <- cancelled,
    Limit <- [b \in Lane |-> LaneLimit(b)]
ServiceSpec == Service!Spec
=============================================================================
