-------------------------- MODULE JobQueue_proofs --------------------------
(***************************************************************************)
(* Proofs about JobQueue, for every set of jobs, kinds, lanes reserved,    *)
(* settings of the remote lane and aging terms: the books of the lanes are *)
(* exact, no lane is ever over its room, the queue implements JobService,  *)
(* a job is overtaken only where room is kept for it, and as long as no    *)
(* job ages positions are current and no wakeup is lost.                   *)
(***************************************************************************)
EXTENDS JobQueue, FiniteSetTheorems, TLAPS

(* The inductive invariant.  LaneCapacity is not inductive alone: that a   *)
(* launch adds one holder and a release removes one needs the exact books, *)
(* and those need the thread of a waiting job to be absent.                *)
IInv == TypeOK /\ LaneBooks /\ ThreadsAgree /\ LaneCapacity

-----------------------------------------------------------------------------
(* Cardinalities of sets of jobs are numbers. *)
LEMMA JobSets == \A S \in SUBSET Job : IsFiniteSet(S) /\ Cardinality(S) \in Nat
  BY JobAssumption, FS_Subset, FS_CardinalityType

(* Every stamp is a natural number. *)
LEMMA RestampType == ASSUME Restamp PROVE position' \in [Job -> Nat]
<1>1. \A j \in Job : Cardinality({i \in Waiting' : /\ Before(i, j)'
                                                   /\ Backends[i] \cap Backends[j] # {}}) \in Nat
  <2> TAKE j \in Job
  <2>1. {i \in Waiting' : Before(i, j)' /\ Backends[i] \cap Backends[j] # {}} \in SUBSET Job
    BY DEF Waiting
  <2> QED BY <2>1, JobSets
<1>2. position' = [j \in Job |-> IF j \notin Waiting' THEN 0 ELSE
        1 + Cardinality({i \in Waiting' : /\ Before(i, j)'
                                          /\ Backends[i] \cap Backends[j] # {}})]
  BY DEF Restamp, Positions
<1> QED BY <1>1, <1>2

(* A job that is next to start finds room in each of its lanes. *)
LEMMA NextReadyHasRoom ==
  ASSUME TypeOK, NEW j \in Job, NextReady(j)
  PROVE  /\ status[j] = "queued"
         /\ \A b \in Backends[j] : Cardinality(holders[b]) < Room(b)
<1>1. status[j] = "queued"
  BY DEF NextReady, Waiting
<1>2. PICK B \in SUBSET Waiting : IsBlockedSet(B) /\ j \notin B
  BY DEF NextReady
<1>3. ASSUME NEW b \in Backends[j] PROVE Cardinality(holders[b]) < Room(b)
  <2> DEFINE S == {i \in B : Before(i, j) /\ b \in Backends[i]}
  <2>1. b \in Lane
    BY KindAssumption
  <2>2. S \in SUBSET Job /\ holders[b] \in SUBSET Job
    BY <2>1 DEF TypeOK, Waiting
  <2>3. Cardinality(S) \in Nat /\ Cardinality(holders[b]) \in Nat
    BY <2>2, JobSets
  <2>4. Room(b) \in Int
    BY RoomAssumption DEF Room, TypeOK
  <2>5. ~(Cardinality(holders[b]) + Cardinality(S) >= Room(b))
    BY <1>2, <1>1 DEF IsBlockedSet, Waiting
  <2> QED BY <2>3, <2>4, <2>5
<1> QED BY <1>1, <1>3

(* A submission and a departure leave the queue's own state well typed. *)
LEMMA EnqueueType ==
  ASSUME TypeOK, NEW j \in Job, NEW who \in Job \cup {Api}, Enqueue(j, who),
         worker' \in [Job -> WorkerState]
  PROVE  TypeOK'
<1>1. position' \in [Job -> Nat]
  BY RestampType DEF Enqueue
<1>2. Waiting \in SUBSET Job
  BY DEF Waiting
<1>3. ahead' \in [Job -> SUBSET Job]
  BY <1>2 DEF TypeOK, Enqueue
<1>4. waited' \in [Job -> 0..(PromoteB + PromoteC)]
  BY RuleAssumption DEF TypeOK, Enqueue
<1>5. status' \in [Job -> Status] /\ cancelled' \in [Job -> BOOLEAN]
  BY DEF TypeOK, Enqueue, Status
<1>6. submitter' \in [Job -> Job \cup {Api, "none"}]
  BY DEF TypeOK, Enqueue
<1> QED BY <1>1, <1>3, <1>4, <1>5, <1>6 DEF TypeOK, Enqueue, dispatchVars, stopVars

LEMMA LeaveType ==
  ASSUME TypeOK, NEW j \in Job, NEW st \in Status, Leave(j, st)
  PROVE  /\ status' \in [Job -> Status]
         /\ ahead' \in [Job -> SUBSET Job]
         /\ waited' \in [Job -> 0..(PromoteB + PromoteC)]
         /\ position' \in [Job -> Nat]
<1>1. position' \in [Job -> Nat]
  BY RestampType DEF Leave
<1>2. ahead' \in [Job -> SUBSET Job]
  BY DEF TypeOK, Leave
<1>3. waited' \in [Job -> 0..(PromoteB + PromoteC)]
  BY RuleAssumption DEF TypeOK, Leave
<1>4. status' \in [Job -> Status]
  BY DEF TypeOK, Leave
<1> QED BY <1>1, <1>2, <1>3, <1>4

-----------------------------------------------------------------------------
(* TypeOK is inductive. *)
LEMMA TypeStep == ASSUME TypeOK, [Next]_vars PROVE TypeOK'
<1>1. ASSUME NEW j \in Job, Submit(j) PROVE TypeOK'
  BY <1>1, EnqueueType DEF TypeOK, Submit
<1>2. ASSUME NEW j \in Job, CancelQueued(j) PROVE TypeOK'
  BY <1>2, LeaveType DEF TypeOK, CancelQueued, Status, Terminal, threadVars, stopVars
<1>3. ASSUME NEW j \in Job, CancelRunning(j) \/ CancelRaise(j) PROVE TypeOK'
  BY <1>3 DEF TypeOK, CancelRunning, CancelRaise, jobVars, dispatchVars, stopVars
<1>4. ASSUME NEW j \in Job, Announce(j) PROVE TypeOK'
  BY <1>4 DEF TypeOK, Announce, jobVars, stopVars
<1>5. ASSUME NEW j \in Job, HandlerReturns(j) \/ HandlerStopped(j) \/ HandlerFails(j)
                              \/ ChainNothing(j) PROVE TypeOK'
  BY <1>5 DEF TypeOK, HandlerReturns, HandlerStopped, HandlerFails, ChainNothing, Turn,
              WorkerState, Terminal, jobVars, dispatchVars, stopVars
<1>6. ASSUME NEW j \in Job, NEW l \in Job, ChainLink(j, l) PROVE TypeOK'
  <2>1. worker' \in [Job -> WorkerState]
    BY <1>6 DEF ChainLink, Turn, TypeOK, WorkerState, Terminal
  <2> QED BY <1>6, <2>1, EnqueueType DEF ChainLink
<1>7. ASSUME NEW j \in Job, Settle(j) PROVE TypeOK'
  BY <1>7 DEF TypeOK, Settle, Status, WorkerState, dispatchVars, stopVars
<1>8. ASSUME NEW j \in Job, Release(j) PROVE TypeOK'
  BY <1>8, RestampType DEF TypeOK, Release, Turn, WorkerState, dispatchVars, stopVars
<1>9. ASSUME NEW j \in Job, WorkerWakes(j) PROVE TypeOK'
  BY <1>9 DEF TypeOK, WorkerWakes, Turn, WorkerState, jobVars, stopVars
<1>10. ASSUME NEW j \in Job, DispatchLaunch(j) PROVE TypeOK'
  <2>1. /\ status' \in [Job -> Status]
        /\ ahead' \in [Job -> SUBSET Job]
        /\ waited' \in [Job -> 0..(PromoteB + PromoteC)]
        /\ position' \in [Job -> Nat]
    BY <1>10, LeaveType DEF DispatchLaunch, Status
  <2>2. holders' \in [Lane -> SUBSET Job]
    BY <1>10 DEF DispatchLaunch, TypeOK
  <2>3. worker' \in [Job -> WorkerState] /\ dispatcher' = "read" /\ seen' \in 1..RemoteLimit
    BY <1>10, RoomAssumption DEF DispatchLaunch, TypeOK, WorkerState
  <2> QED BY <1>10, <2>1, <2>2, <2>3 DEF DispatchLaunch, TypeOK, stopVars
<1>11. CASE DispatchWake \/ DispatchLeave
  BY <1>11 DEF TypeOK, DispatchWake, DispatchLeave, jobVars, threadVars, stopVars
<1>12. CASE DispatchRead
  BY <1>12, RoomAssumption DEF TypeOK, DispatchRead, Capacity, jobVars, threadVars, stopVars
<1>13. CASE DispatchRest
  BY <1>13, RoomAssumption, RestampType DEF TypeOK, DispatchRest, threadVars, stopVars
<1>14. CASE Tick
  BY <1>14, RuleAssumption DEF TypeOK, Tick, threadVars, dispatchVars, stopVars
<1>15. CASE ChangeSetting
  BY <1>15 DEF TypeOK, ChangeSetting, jobVars, threadVars, dispatchVars, stopVars
<1>16. CASE ShutdownBegin \/ ShutdownCollect \/ ShutdownJoin
  BY <1>16 DEF TypeOK, ShutdownBegin, ShutdownCollect, ShutdownJoin, Running, jobVars,
               threadVars, dispatchVars
<1>17. ASSUME NEW j \in Job, ShutdownAsk(j) PROVE TypeOK'
  BY <1>17 DEF TypeOK, ShutdownAsk, jobVars, dispatchVars
<1>18. CASE UNCHANGED vars
  BY <1>18 DEF TypeOK, vars, jobVars, threadVars, dispatchVars, stopVars
<1> QED BY <1>1, <1>2, <1>3, <1>4, <1>5, <1>6, <1>7, <1>8, <1>9, <1>10, <1>11, <1>12,
           <1>13, <1>14, <1>15, <1>16, <1>17, <1>18
        DEF Next, Request, ThreadStep, Dispatch, Stop

(* The lanes' books stay exact: between its launch and its release a       *)
(* thread moves among states that all hold the lanes.                      *)
LEMMA BooksStep ==
  ASSUME TypeOK, LaneBooks, ThreadsAgree, [Next]_vars
  PROVE  LaneBooks'
<1>1. ASSUME NEW j \in Job, DispatchLaunch(j) PROVE LaneBooks'
  <2>1. worker[j] = "none"
    BY <1>1, NextReadyHasRoom DEF DispatchLaunch, ThreadsAgree
  <2> QED BY <1>1, <2>1 DEF DispatchLaunch, LaneBooks, TypeOK, Holding, Terminal
<1>2. ASSUME NEW j \in Job, NEW v \in Holding, worker[j] \in Holding,
             worker' = [worker EXCEPT ![j] = v], UNCHANGED holders
      PROVE  LaneBooks'
  BY <1>2 DEF LaneBooks, TypeOK
<1>3. ASSUME NEW j \in Job, Release(j) PROVE LaneBooks'
  BY <1>3 DEF Release, Turn, LaneBooks, TypeOK, Holding, Terminal
<1>4. ASSUME NEW j \in Job, WorkerWakes(j) PROVE LaneBooks'
  BY <1>4 DEF WorkerWakes, Turn, LaneBooks, TypeOK, Holding, Terminal, jobVars
<1>5. ASSUME UNCHANGED <<worker, holders>> PROVE LaneBooks'
  BY <1>5 DEF LaneBooks
<1>6. ASSUME NEW j \in Job, \/ HandlerReturns(j) \/ HandlerStopped(j) \/ HandlerFails(j)
                            \/ ChainNothing(j) \/ (\E l \in Job : ChainLink(j, l)) \/ Settle(j)
      PROVE  LaneBooks'
  BY <1>2, <1>6 DEF HandlerReturns, HandlerStopped, HandlerFails, ChainNothing, ChainLink,
                    Enqueue, Settle, Turn, Holding, Terminal, jobVars
<1>7. \/ \E j \in Job : \/ DispatchLaunch(j) \/ Release(j) \/ WorkerWakes(j)
                        \/ HandlerReturns(j) \/ HandlerStopped(j) \/ HandlerFails(j)
                        \/ ChainNothing(j) \/ (\E l \in Job : ChainLink(j, l)) \/ Settle(j)
      \/ UNCHANGED <<worker, holders>>
  BY DEF Next, Request, ThreadStep, Dispatch, Stop, Submit, Enqueue, Announce, CancelQueued,
     CancelRunning, CancelRaise, DispatchWake, DispatchLeave, DispatchRead, DispatchRest,
     ChangeSetting, Tick, ShutdownBegin, ShutdownCollect, ShutdownAsk, ShutdownJoin, jobVars,
     threadVars, vars
<1> QED BY <1>1, <1>3, <1>4, <1>5, <1>6, <1>7

(* Threads and statuses go on agreeing. *)
LEMMA AgreeStep == ASSUME TypeOK, ThreadsAgree, [Next]_vars PROVE ThreadsAgree'
<1>1. ASSUME NEW j \in Job, NEW who, Enqueue(j, who), UNCHANGED worker PROVE ThreadsAgree'
  BY <1>1 DEF Enqueue, Free, ThreadsAgree, TypeOK, Terminal, stopVars
<1>2. ASSUME NEW j \in Job, CancelQueued(j) PROVE ThreadsAgree'
  BY <1>2 DEF CancelQueued, Leave, ThreadsAgree, TypeOK, Terminal, threadVars, stopVars
<1>3. ASSUME NEW j \in Job, CancelRunning(j) PROVE ThreadsAgree'
  BY <1>3 DEF CancelRunning, ThreadsAgree, TypeOK, jobVars, stopVars
<1>4. ASSUME NEW j \in Job, CancelRaise(j) PROVE ThreadsAgree'
  BY <1>4 DEF CancelRaise, ThreadsAgree, TypeOK, jobVars, stopVars
<1>5. ASSUME NEW j \in Job, HandlerReturns(j) \/ HandlerStopped(j) \/ HandlerFails(j)
                              \/ ChainNothing(j) PROVE ThreadsAgree'
  BY <1>5 DEF HandlerReturns, HandlerStopped, HandlerFails, ChainNothing, Turn, ThreadsAgree,
              TypeOK, Terminal, jobVars, stopVars
<1>6. ASSUME NEW j \in Job, NEW l \in Job, ChainLink(j, l) PROVE ThreadsAgree'
  BY <1>6 DEF ChainLink, Turn, Enqueue, Free, ThreadsAgree, TypeOK, Terminal, stopVars
<1>7. ASSUME NEW j \in Job, Settle(j) PROVE ThreadsAgree'
  BY <1>7 DEF Settle, ThreadsAgree, TypeOK, Terminal, stopVars
<1>8. ASSUME NEW j \in Job, Release(j) \/ WorkerWakes(j) PROVE ThreadsAgree'
  BY <1>8 DEF Release, WorkerWakes, Turn, ThreadsAgree, TypeOK, Terminal, jobVars, stopVars
<1>9. ASSUME NEW j \in Job, DispatchLaunch(j) PROVE ThreadsAgree'
  <2>1. status[j] = "queued"
    BY <1>9, NextReadyHasRoom DEF DispatchLaunch
  <2> QED BY <1>9, <2>1 DEF DispatchLaunch, Leave, ThreadsAgree, TypeOK, Terminal, stopVars
<1>10. CASE ShutdownCollect
  BY <1>10 DEF ShutdownCollect, Running, ThreadsAgree, TypeOK, jobVars, threadVars
<1>11. ASSUME NEW j \in Job, ShutdownAsk(j) PROVE ThreadsAgree'
  BY <1>11 DEF ShutdownAsk, ThreadsAgree, TypeOK, jobVars
<1>12. ASSUME UNCHANGED <<status, worker, canceller, targets, cancelled>> PROVE ThreadsAgree'
  BY <1>12 DEF ThreadsAgree
<1>13. \/ \E j \in Job : \/ Submit(j) \/ CancelQueued(j) \/ CancelRunning(j) \/ CancelRaise(j)
                         \/ HandlerReturns(j) \/ HandlerStopped(j) \/ HandlerFails(j)
                         \/ ChainNothing(j) \/ (\E l \in Job : ChainLink(j, l)) \/ Settle(j)
                         \/ Release(j) \/ WorkerWakes(j) \/ DispatchLaunch(j) \/ ShutdownAsk(j)
       \/ ShutdownCollect
       \/ UNCHANGED <<status, worker, canceller, targets, cancelled>>
  BY DEF Next, Request, ThreadStep, Dispatch, Stop, Announce, DispatchWake, DispatchLeave,
     DispatchRead, DispatchRest, ChangeSetting, Tick, ShutdownBegin, ShutdownJoin, jobVars,
     threadVars, stopVars, vars
<1> QED BY <1>1, <1>2, <1>3, <1>4, <1>5, <1>6, <1>7, <1>8, <1>9, <1>10, <1>11, <1>12, <1>13
        DEF Submit

(* No lane goes over its room: only a launch adds a holder, and it adds    *)
(* one where there was room.                                               *)
LEMMA CapacityStep ==
  ASSUME TypeOK, TypeOK', LaneBooks, LaneCapacity, [Next]_vars
  PROVE  LaneCapacity'
<1>1. ASSUME NEW j \in Job, DispatchLaunch(j) PROVE LaneCapacity'
  <2> SUFFICES ASSUME NEW b \in Lane PROVE Cardinality(holders'[b]) <= LaneLimit(b)
    BY DEF LaneCapacity, LaneLimit
  <2>1. holders[b] \in SUBSET Job /\ holders'[b] \in SUBSET Job
    BY DEF TypeOK
  <2>2. Cardinality(holders[b]) \in Nat /\ Cardinality(holders'[b]) \in Nat
    BY <2>1, JobSets
  <2>3. CASE b \notin Backends[j]
    <3>1. holders'[b] = holders[b]
      BY <1>1, <2>3 DEF DispatchLaunch
    <3> QED BY <3>1 DEF LaneCapacity
  <2>4. CASE b \in Backends[j]
    <3>1. Cardinality(holders[b]) < Room(b)
      BY <1>1, <2>4, NextReadyHasRoom DEF DispatchLaunch
    <3>2. holders'[b] = holders[b] \cup {j}
      BY <1>1, <2>4 DEF DispatchLaunch
    <3>3. Cardinality(holders'[b]) <= Cardinality(holders[b]) + 1
      BY <2>1, <2>2, <3>2, JobSets, FS_AddElement
    <3>4. Room(b) <= LaneLimit(b) /\ Room(b) \in Int /\ LaneLimit(b) \in Int
      BY RoomAssumption DEF Room, LaneLimit, TypeOK
    <3> QED BY <2>2, <3>1, <3>3, <3>4
  <2> QED BY <2>3, <2>4
<1>2. ASSUME NEW j \in Job, Release(j) PROVE LaneCapacity'
  <2> SUFFICES ASSUME NEW b \in Lane PROVE Cardinality(holders'[b]) <= LaneLimit(b)
    BY DEF LaneCapacity, LaneLimit
  <2>1. holders'[b] \subseteq holders[b] /\ holders[b] \in SUBSET Job /\ holders'[b] \in SUBSET Job
    BY <1>2 DEF Release, TypeOK
  <2>2. Cardinality(holders'[b]) <= Cardinality(holders[b])
    BY <2>1, JobSets, FS_Subset
  <2>3. Cardinality(holders'[b]) \in Nat /\ Cardinality(holders[b]) \in Nat /\ LaneLimit(b) \in Int
    BY <2>1, JobSets, RoomAssumption DEF LaneLimit
  <2> QED BY <2>2, <2>3 DEF LaneCapacity
<1>3. ASSUME UNCHANGED holders PROVE LaneCapacity'
  BY <1>3 DEF LaneCapacity, LaneLimit
<1>4. \/ \E j \in Job : DispatchLaunch(j) \/ Release(j)
      \/ UNCHANGED holders
  BY DEF Next, Request, ThreadStep, Dispatch, Stop, Submit, Announce, CancelQueued,
     CancelRunning, CancelRaise, DispatchWake, DispatchLeave, DispatchRead, DispatchRest,
     HandlerReturns, HandlerStopped, HandlerFails, ChainLink, ChainNothing, Enqueue, Settle,
     WorkerWakes, ChangeSetting, Tick, ShutdownBegin, ShutdownCollect, ShutdownAsk,
     ShutdownJoin, jobVars, vars
<1> QED BY <1>1, <1>2, <1>3, <1>4

-----------------------------------------------------------------------------
LEMMA InitInv == Init => IInv
<1> SUFFICES ASSUME Init PROVE IInv
  OBVIOUS
<1>1. TypeOK
  <2>1. 0 \in 0..(PromoteB + PromoteC) /\ 1 \in 1..RemoteLimit
    BY RoomAssumption, RuleAssumption
  <2> QED BY <2>1 DEF Init, TypeOK, Status, WorkerState
<1>2. LaneBooks
  BY DEF Init, LaneBooks, Holding, Terminal
<1>3. ThreadsAgree
  BY DEF Init, ThreadsAgree, Terminal
<1>4. LaneCapacity
  BY FS_EmptySet, RoomAssumption DEF Init, LaneCapacity, LaneLimit
<1> QED BY <1>1, <1>2, <1>3, <1>4 DEF IInv

(* IInv is inductive. *)
LEMMA StepInv == IInv /\ [Next]_vars => IInv'
  BY TypeStep, BooksStep, AgreeStep, CapacityStep DEF IInv

(* In every reachable state the queue's books are exact, its threads agree *)
(* with its statuses and no lane is over its room.                         *)
THEOREM QueueInvariant == Spec => []IInv
  BY InitInv, StepInv, PTL DEF Spec

(* Every variable keeps its type (runner.py's fields and thread states).   *)
THEOREM TypeCorrect == Spec => []TypeOK
  BY QueueInvariant, PTL DEF IInv

(* No slot of a lane leaks and none is given back twice (_release).        *)
THEOREM BooksAreExact == Spec => []LaneBooks
  BY QueueInvariant, PTL DEF IInv

(* No lane is ever over its room (_next_ready against lanes.capacities).   *)
THEOREM NoLaneOverfull == Spec => []LaneCapacity
  BY QueueInvariant, PTL DEF IInv

(* Statuses and threads agree, late requests to stop included (cancel,     *)
(* shutdown, _execute).                                                    *)
THEOREM ThreadsAlwaysAgree == Spec => []ThreadsAgree
  BY QueueInvariant, PTL DEF IInv

-----------------------------------------------------------------------------
(* The queue implements JobService: statuses are its statuses, raised      *)
(* flags its requests to stop, and the room of a lane its largest setting. *)

(* The service counts with the same cardinality. *)
LEMMA SameCardinality == \A S : Service!Cardinality(S) = Cardinality(S)
  BY DEF Service!Cardinality, Cardinality

(* The jobs the service sees running on a lane hold a slot of it: a lane   *)
(* is held a little longer than its job is seen running, never shorter.    *)
LEMMA RunningHold ==
  ASSUME TypeOK, LaneBooks, ThreadsAgree, NEW b \in Lane
  PROVE  Service!RunningOn(b) \subseteq holders[b]
  BY DEF Service!RunningOn, LaneBooks, ThreadsAgree, Holding

LEMMA ServiceStart ==
  ASSUME IInv, NEW j \in Job, DispatchLaunch(j)
  PROVE  Service!Start(j)
<1>1. /\ status[j] = "queued"
      /\ \A b \in Backends[j] : Cardinality(holders[b]) < Room(b)
  BY NextReadyHasRoom DEF IInv, DispatchLaunch
<1>2. ASSUME NEW b \in Backends[j]
      PROVE  Cardinality(Service!RunningOn(b)) < [c \in Lane |-> LaneLimit(c)][b]
  <2>1. b \in Lane
    BY KindAssumption
  <2>2. holders[b] \in SUBSET Job /\ Service!RunningOn(b) \subseteq holders[b]
    BY <2>1, RunningHold DEF IInv, TypeOK
  <2>3. Cardinality(Service!RunningOn(b)) <= Cardinality(holders[b])
    BY <2>2, JobSets, FS_Subset
  <2>4. /\ Cardinality(Service!RunningOn(b)) \in Nat
        /\ Cardinality(holders[b]) \in Nat
    BY <2>2, JobSets
  <2>5. Room(b) <= LaneLimit(b) /\ Room(b) \in Int /\ LaneLimit(b) \in Int
    BY RoomAssumption DEF Room, LaneLimit, IInv, TypeOK
  <2>6. Cardinality(holders[b]) < Room(b)
    BY <1>1
  <2>7. [c \in Lane |-> LaneLimit(c)][b] = LaneLimit(b)
    BY <2>1
  <2> QED BY <2>3, <2>4, <2>5, <2>6, <2>7
<1> QED BY <1>1, <1>2, SameCardinality DEF Service!Start, DispatchLaunch, Leave

LEMMA ServiceStep == ASSUME IInv, [Next]_vars PROVE [Service!Next]_(Service!vars)
<1>1. ASSUME NEW j \in Job, NEW who, Enqueue(j, who) PROVE Service!Submit(j)
  BY <1>1 DEF Enqueue, Free, Service!Submit, Service!Terminal, Terminal
<1>2. ASSUME NEW j \in Job, CancelQueued(j) PROVE Service!Drop(j)
  BY <1>2 DEF CancelQueued, Leave, threadVars, Service!Drop
<1>3. ASSUME NEW j \in Job, CancelRaise(j) PROVE Service!Ask(j)
  BY <1>3 DEF CancelRaise, IInv, ThreadsAgree, jobVars, Service!Ask, Service!Terminal, Terminal
<1>4. ASSUME NEW j \in Job, ShutdownAsk(j) PROVE Service!Ask(j)
  BY <1>4 DEF ShutdownAsk, IInv, ThreadsAgree, jobVars, Service!Ask, Service!Terminal, Terminal
<1>5. ASSUME NEW j \in Job, Settle(j) PROVE \E v \in Service!Terminal : Service!End(j, v)
  BY <1>5 DEF Settle, IInv, ThreadsAgree, Service!End, Service!Terminal, Terminal
<1>6. \/ \E j \in Job : \/ \E who \in Job \cup {Api} : Enqueue(j, who)
                        \/ CancelQueued(j) \/ CancelRaise(j) \/ ShutdownAsk(j) \/ Settle(j)
                        \/ DispatchLaunch(j)
      \/ UNCHANGED <<status, cancelled>>
  BY DEF Next, Request, ThreadStep, Dispatch, Stop, Submit, Announce, CancelRunning,
     DispatchWake, DispatchLeave, DispatchRead, DispatchRest, HandlerReturns, HandlerStopped,
     HandlerFails, ChainLink, ChainNothing, Release, WorkerWakes, ChangeSetting, Tick,
     ShutdownBegin, ShutdownCollect, ShutdownJoin, jobVars, threadVars, vars
<1> QED BY <1>1, <1>2, <1>3, <1>4, <1>5, <1>6, ServiceStart
        DEF Service!Next, Service!vars

(* A queued job can be dropped at once, a running one is only asked, a job *)
(* ends once and is called cancelled only if asked, and starts only where  *)
(* its lanes have room: JobService, whatever the threads do.               *)
THEOREM ImplementsService == Spec => ServiceSpec
<1>1. Init => Service!Init
  BY DEF Init, Service!Init
<1>2. IInv /\ [Next]_vars => [Service!Next]_(Service!vars)
  BY ServiceStep
<1> QED BY <1>1, <1>2, QueueInvariant, PTL DEF Spec, ServiceSpec, Service!Spec

-----------------------------------------------------------------------------
(* Who arrived before whom: only waiting jobs are ahead of anybody, none   *)
(* is ahead of itself, and being ahead carries over.  A submission puts    *)
(* all who wait ahead of the new one; a departure takes one out of the     *)
(* order.                                                                  *)
Arrival == /\ \A j \in Job : ahead[j] \subseteq Waiting \ {j}
           /\ \A i, j \in Job : i \in ahead[j] => ahead[i] \subseteq ahead[j]

(* The pass over the queue under given rooms: the jobs it blocks, and that *)
(* whoever it does not block has one before it that it could have started. *)
BlockedIn(B, R) == \A j \in Waiting :
    j \in B <=> \E b \in Backends[j] :
        Cardinality(holders[b])
          + Cardinality({i \in B : Before(i, j) /\ b \in Backends[i]}) >= R[b]
StartsNone(R) == \A j \in Waiting : \A B \in SUBSET Waiting :
    BlockedIn(B, R) /\ j \notin B /\ ~Capped(j)
      => \E i \in Waiting : Before(i, j) /\ i \notin B /\ ~Capped(i)
Rooms == [b \in Lane |-> Room(b)]

(* A sleeping dispatcher nobody has woken or is about to wake would start  *)
(* nothing in the rooms it last read.                                      *)
Asleep == /\ dispatcher = "wait"
          /\ ~wake
          /\ \A j \in Job : submitter[j] = "none" /\ worker[j] # "released"
NothingLeft == Asleep => StartsNone(Rooms)

-----------------------------------------------------------------------------
(* Ranks are 0, 1 or 2, and a job that waited both terms has rank 0. *)
LEMMA RankType == ASSUME TypeOK, NEW j \in Job PROVE Rank(j) \in 0..2
  BY KindAssumption DEF Rank

LEMMA AgedRank ==
  ASSUME TypeOK, NEW j \in Job, waited[j] = PromoteB + PromoteC PROVE Rank(j) = 0
<1>1. PromoteB \in Nat /\ PromoteC \in Nat /\ Class[j] \in 0..2
  BY KindAssumption, RuleAssumption
<1> QED BY <1>1 DEF Rank

(* The order jobs go out in is a strict one. *)
LEMMA OrderIsStrict ==
  ASSUME TypeOK, Arrival
  PROVE  /\ \A i \in Job : ~Before(i, i)
         /\ \A i, j, k \in Job : Before(i, j) /\ Before(j, k) => Before(i, k)
<1>1. \A i \in Job : ~Before(i, i)
  BY RankType DEF Before, Arrival
<1>2. ASSUME NEW i \in Job, NEW j \in Job, NEW k \in Job, Before(i, j), Before(j, k)
      PROVE  Before(i, k)
  <2>1. Rank(i) \in 0..2 /\ Rank(j) \in 0..2 /\ Rank(k) \in 0..2
    BY RankType
  <2>2. i \in ahead[j] /\ j \in ahead[k] => i \in ahead[k]
    BY DEF Arrival
  <2> QED BY <1>2, <2>1, <2>2 DEF Before
<1> QED BY <1>1, <1>2

(* So any set of waiting jobs has a first one, and a last one. *)
LEMMA SmallestSet ==
  ASSUME NEW S, NEW T, T \subseteq FiniteSubsetsOf(S), T # {}
  PROVE  \E X \in T : \A Y \in T : <<Y, X>> \notin StrictSubsetOrdering(S)
  BY FS_StrictSubsetOrderingWellFounded, WFMin

LEMMA FirstOfMany ==
  ASSUME NEW S, IsFiniteSet(S), NEW R, NEW D \in SUBSET S, D # {},
         \A x \in S : <<x, x>> \notin R,
         \A x, y, z \in S : <<x, y>> \in R /\ <<y, z>> \in R => <<x, z>> \in R
  PROVE  \E x \in D : \A y \in D : <<y, x>> \notin R
<1> DEFINE P(x) == {y \in S : <<y, x>> \in R}
           T == {P(x) : x \in D}
<1>1. T \subseteq FiniteSubsetsOf(S) /\ T # {}
  <2>1. \A x \in D : P(x) \in SUBSET S
    OBVIOUS
  <2> HIDE DEF P
  <2>2. \A x \in D : P(x) \in FiniteSubsetsOf(S)
    BY <2>1, FS_Subset DEF FiniteSubsetsOf
  <2> QED BY <2>2
<1>2. PICK X \in T : \A Y \in T : <<Y, X>> \notin StrictSubsetOrdering(S)
  BY <1>1, SmallestSet
<1>3. PICK x \in D : X = P(x)
  BY <1>2
<1>4. ASSUME NEW y \in D, <<y, x>> \in R PROVE FALSE
  <2>1. P(y) \subseteq P(x)
    BY <1>4
  <2>2. y \in P(x) /\ y \notin P(y)
    BY <1>4
  <2>3. P(y) \in T /\ P(y) \in SUBSET S /\ P(x) \in SUBSET S
    OBVIOUS
  <2>4. <<P(y), P(x)>> \in StrictSubsetOrdering(S)
    BY <2>1, <2>2, <2>3 DEF StrictSubsetOrdering
  <2> QED BY <1>2, <1>3, <2>3, <2>4
<1> QED BY <1>4

LEMMA FirstAndLast ==
  ASSUME TypeOK, Arrival, NEW D \in SUBSET Waiting, D # {}
  PROVE  /\ \E x \in D : \A y \in D : ~Before(y, x)
         /\ \E x \in D : \A y \in D : ~Before(x, y)
<1> DEFINE Up == {w \in Waiting \X Waiting : Before(w[1], w[2])}
           Down == {w \in Waiting \X Waiting : Before(w[2], w[1])}
<1>1. Waiting \subseteq Job /\ IsFiniteSet(Waiting)
  BY JobAssumption, FS_Subset DEF Waiting
<1>2. \A x, y \in Waiting : /\ <<x, y>> \in Up <=> Before(x, y)
                            /\ <<x, y>> \in Down <=> Before(y, x)
  OBVIOUS
<1>3. \A x \in Waiting : <<x, x>> \notin Up /\ <<x, x>> \notin Down
  BY <1>1, <1>2, OrderIsStrict
<1>4. \A x, y, z \in Waiting : /\ <<x, y>> \in Up /\ <<y, z>> \in Up => <<x, z>> \in Up
                               /\ <<x, y>> \in Down /\ <<y, z>> \in Down => <<x, z>> \in Down
  BY <1>1, <1>2, OrderIsStrict
<1> HIDE DEF Up, Down
<1>5. \E x \in D : \A y \in D : <<y, x>> \notin Up
  BY <1>1, <1>3, <1>4, FirstOfMany
<1>6. \E x \in D : \A y \in D : <<y, x>> \notin Down
  BY <1>1, <1>3, <1>4, FirstOfMany
<1> QED BY <1>2, <1>5, <1>6

(* The pass always has an answer: given any rooms, some set of waiting     *)
(* jobs is the set it blocks.                                              *)
LEMMA PassHasAnAnswer ==
  ASSUME TypeOK, Arrival, NEW R
  PROVE  \E B \in SUBSET Waiting : BlockedIn(B, R)
<1> DEFINE Stuck(B, j) == \E b \in Backends[j] :
               Cardinality(holders[b])
                 + Cardinality({i \in B : Before(i, j) /\ b \in Backends[i]}) >= R[b]
           Upto(B, P) == \A j \in P : j \in B <=> Stuck(B, j)
           Closed(P) == \A i \in Waiting, j \in P : Before(i, j) => i \in P
           Bad == {P \in SUBSET Waiting : Closed(P) /\ \A B \in SUBSET Waiting : ~Upto(B, P)}
<1>1. Waiting \subseteq Job /\ IsFiniteSet(Waiting)
  BY JobAssumption, FS_Subset DEF Waiting
<1>2. ASSUME Bad # {} PROVE FALSE
  <2>1. Bad \subseteq FiniteSubsetsOf(Waiting)
    BY <1>1, FS_Subset DEF FiniteSubsetsOf
  <2>2. PICK P \in Bad : \A Q \in Bad : <<Q, P>> \notin StrictSubsetOrdering(Waiting)
    <3> HIDE DEF Bad
    <3> QED BY <1>2, <2>1, SmallestSet
  <2>3. P \in SUBSET Waiting /\ Closed(P) /\ \A B \in SUBSET Waiting : ~Upto(B, P)
    BY <2>2
  <2>4. P # {}
    BY <2>3
  <2>5. PICK x \in P : \A y \in P : ~Before(x, y)
    BY <2>3, <2>4, FirstAndLast
  <2> DEFINE Q == P \ {x}
  <2>6. Q \in SUBSET Waiting /\ Closed(Q)
    BY <2>3, <2>5
  <2>7. Q \notin Bad
    BY <2>2, <2>3, <2>6 DEF StrictSubsetOrdering
  <2>8. PICK C \in SUBSET Waiting : Upto(C, Q)
    BY <2>6, <2>7
  <2> DEFINE B == (C \cap Q) \cup {y \in {x} : Stuck(C, y)}
  <2>9. ASSUME NEW j \in P, NEW b
        PROVE  {i \in B : Before(i, j) /\ b \in Backends[i]}
                 = {i \in C : Before(i, j) /\ b \in Backends[i]}
    BY <2>3, <2>5
  <2>10. \A j \in P : Stuck(B, j) <=> Stuck(C, j)
    BY <2>9
  <2>11. \A j \in Q : j \in B <=> j \in C
    OBVIOUS
  <2>12. x \in B <=> Stuck(C, x)
    OBVIOUS
  <2>13. B \in SUBSET Waiting
    BY <2>3
  <2> HIDE DEF B, Stuck
  <2>14. Upto(B, P)
    BY <2>8, <2>10, <2>11, <2>12
  <2> QED BY <2>3, <2>13, <2>14
<1>3. PICK B \in SUBSET Waiting : Upto(B, Waiting)
  <2>1. Waiting \in Bad => FALSE
    BY <1>2
  <2>2. Closed(Waiting)
    OBVIOUS
  <2> HIDE DEF Upto, Closed
  <2> QED BY <2>1, <2>2
<1> QED BY <1>3 DEF BlockedIn

(* A pass that starts nobody starts nobody in smaller rooms either: what   *)
(* the larger rooms block the smaller ones block too.                      *)
LEMMA LessRoomStartsNone ==
  ASSUME TypeOK, Arrival, NEW R \in [Lane -> Int], NEW S \in [Lane -> Int],
         \A b \in Lane : S[b] <= R[b], StartsNone(R)
  PROVE  StartsNone(S)
<1> SUFFICES ASSUME NEW j \in Waiting, NEW B \in SUBSET Waiting,
                    BlockedIn(B, S), j \notin B, ~Capped(j)
             PROVE  \E i \in Waiting : Before(i, j) /\ i \notin B /\ ~Capped(i)
  BY DEF StartsNone
<1>1. Waiting \subseteq Job
  BY DEF Waiting
<1>2. PICK A \in SUBSET Waiting : BlockedIn(A, R)
  BY PassHasAnAnswer
<1>3. A \subseteq B
  <2> SUFFICES ASSUME A \ B # {} PROVE FALSE
    OBVIOUS
  <2>1. PICK x \in A \ B : \A y \in A \ B : ~Before(y, x)
    BY FirstAndLast
  <2>2. PICK b \in Backends[x] :
          Cardinality(holders[b])
            + Cardinality({i \in A : Before(i, x) /\ b \in Backends[i]}) >= R[b]
    BY <1>2, <2>1 DEF BlockedIn
  <2> DEFINE U == {i \in A : Before(i, x) /\ b \in Backends[i]}
             V == {i \in B : Before(i, x) /\ b \in Backends[i]}
  <2>3. U \subseteq V
    BY <2>1
  <2>4. b \in Lane
    BY <1>1, <2>1, KindAssumption
  <2>5. U \in SUBSET Job /\ V \in SUBSET Job /\ holders[b] \in SUBSET Job
    BY <1>1, <2>4 DEF TypeOK
  <2> HIDE DEF U, V
  <2>6. Cardinality(U) <= Cardinality(V)
    BY <2>3, <2>5, JobSets, FS_Subset
  <2>7. Cardinality(U) \in Nat /\ Cardinality(V) \in Nat /\ Cardinality(holders[b]) \in Nat
    BY <2>5, JobSets
  <2>8. R[b] \in Int /\ S[b] \in Int /\ S[b] <= R[b]
    BY <2>4
  <2>9. Cardinality(holders[b]) + Cardinality(U) >= R[b]
    BY <2>2 DEF U
  <2>10. Cardinality(holders[b]) + Cardinality(V) >= S[b]
    BY <2>6, <2>7, <2>8, <2>9
  <2>11. x \in B
    BY <2>1, <2>10 DEF BlockedIn, V
  <2> QED BY <2>1, <2>11
<1>4. PICK k \in {i \in Waiting : i \notin A /\ ~Capped(i)} :
        \A i \in {i \in Waiting : i \notin A /\ ~Capped(i)} : ~Before(i, k)
  <2>1. j \in {i \in Waiting : i \notin A /\ ~Capped(i)}
    BY <1>3
  <2> QED BY <2>1, FirstAndLast
<1>5. \E i \in Waiting : Before(i, k) /\ i \notin A /\ ~Capped(i)
  BY <1>2, <1>4 DEF StartsNone
<1> QED BY <1>4, <1>5

(* The two forms of "nobody can start" say the same. *)
LEMMA NobodyIsReady == (\A j \in Job : ~NextReady(j)) <=> StartsNone(Rooms)
<1>1. \A j \in Job : Backends[j] \subseteq Lane
  BY KindAssumption
<1>2. \A B : IsBlockedSet(B) <=> BlockedIn(B, Rooms)
  <2>1. \A j \in Waiting : \A b \in Backends[j] : Rooms[b] = Room(b)
    BY <1>1 DEF Rooms, Waiting
  <2> QED BY <2>1 DEF IsBlockedSet, BlockedIn
<1>3. Waiting \subseteq Job
  BY DEF Waiting
<1> QED BY <1>2, <1>3 DEF NextReady, StartsNone

-----------------------------------------------------------------------------
(* Settling a job that ran changes nothing for those who wait. *)
LEMMA SettleWaits ==
  ASSUME TypeOK, ThreadsAgree, NEW j \in Job, Settle(j)
  PROVE  Waiting' = Waiting /\ ahead' = ahead /\ waited' = waited /\ j \notin Waiting
  BY DEF Settle, ThreadsAgree, Waiting, Terminal, TypeOK

LEMMA ArrivalStep == ASSUME TypeOK, ThreadsAgree, Arrival, [Next]_vars PROVE Arrival'
<1>1. ASSUME NEW j \in Job, NEW who, Enqueue(j, who) PROVE Arrival'
  <2>1. Waiting' = Waiting \cup {j} /\ j \notin Waiting
    BY <1>1 DEF Enqueue, Free, Waiting, Terminal, TypeOK
  <2>2. \A i \in Job : ahead'[i] = IF i = j THEN Waiting ELSE ahead[i]
    BY <1>1 DEF Enqueue, TypeOK
  <2> QED BY <2>1, <2>2 DEF Arrival, Waiting
<1>2. ASSUME NEW j \in Job, NEW st \in Status \ {"queued"}, status[j] = "queued", Leave(j, st)
      PROVE  Arrival'
  <2>1. Waiting' = Waiting \ {j}
    BY <1>2 DEF Leave, Waiting, TypeOK
  <2>2. \A i \in Job : ahead'[i] = IF i = j THEN {} ELSE ahead[i] \ {j}
    BY <1>2 DEF Leave
  <2>3. \A i \in Job : ahead'[i] \subseteq Waiting' \ {i}
    <3> SUFFICES ASSUME NEW i \in Job PROVE ahead'[i] \subseteq Waiting' \ {i}
      OBVIOUS
    <3>1. ahead[i] \subseteq Waiting \ {i}
      BY DEF Arrival
    <3> QED BY <2>1, <2>2, <3>1
  <2>4. ASSUME NEW i \in Job, NEW k \in Job, i \in ahead'[k] PROVE ahead'[i] \subseteq ahead'[k]
    <3>1. k # j /\ i # j /\ i \in ahead[k]
      BY <2>2, <2>4
    <3>2. ahead[i] \subseteq ahead[k]
      BY <3>1 DEF Arrival
    <3> QED BY <2>2, <3>1, <3>2
  <2> QED BY <2>3, <2>4 DEF Arrival
<1>3. ASSUME NEW j \in Job, CancelQueued(j) PROVE Arrival'
  BY <1>2, <1>3 DEF CancelQueued, Status, Terminal
<1>4. ASSUME NEW j \in Job, DispatchLaunch(j) PROVE Arrival'
  BY <1>2, <1>4 DEF DispatchLaunch, NextReady, Waiting, Status, Terminal
<1>5. ASSUME Waiting' = Waiting, ahead' = ahead PROVE Arrival'
  BY <1>5 DEF Arrival
<1>6. ASSUME NEW j \in Job, Settle(j) PROVE Arrival'
  BY <1>5, <1>6, SettleWaits
<1>7. \/ \E j \in Job : \/ \E who \in Job \cup {Api} : Enqueue(j, who)
                        \/ CancelQueued(j) \/ DispatchLaunch(j) \/ Settle(j)
      \/ UNCHANGED <<status, ahead>>
  BY DEF Next, Request, ThreadStep, Dispatch, Stop, Submit, Announce, CancelRunning,
     CancelRaise, DispatchWake, DispatchLeave, DispatchRead, DispatchRest, HandlerReturns,
     HandlerStopped, HandlerFails, ChainLink, ChainNothing, Release, WorkerWakes,
     ChangeSetting, Tick, ShutdownBegin, ShutdownCollect, ShutdownAsk, ShutdownJoin, jobVars,
     vars
<1>8. ASSUME UNCHANGED <<status, ahead>> PROVE Arrival'
  BY <1>5, <1>8 DEF Waiting
<1> QED BY <1>1, <1>3, <1>4, <1>6, <1>7, <1>8

(* Whether a pass starts nobody depends on who waits, in which order, on   *)
(* who holds the lanes and on the rooms read; nothing of it on positions.  *)
LEMMA SameQueueSamePass ==
  ASSUME Waiting' = Waiting, UNCHANGED <<ahead, waited, holders, seen>>, StartsNone(Rooms)
  PROVE  StartsNone(Rooms)'
<1>1. \A i, j : Rank(i)' = Rank(i)
  BY DEF Rank
<1>2. \A i, j : Before(i, j)' <=> Before(i, j)
  BY <1>1 DEF Before
<1>3. \A i : Capped(i)' <=> Capped(i)
  BY DEF Capped
<1>4. Rooms' = Rooms
  BY DEF Rooms, Room
<1>5. \A B : BlockedIn(B, Rooms)' <=> BlockedIn(B, Rooms)
  BY <1>2, <1>4 DEF BlockedIn
<1> QED BY <1>2, <1>3, <1>5 DEF StartsNone

(* The turn that rests leaves nothing it could start in the rooms it read. *)
LEMMA RestLeavesNothing ==
  ASSUME TypeOK, Arrival, DispatchRest PROVE StartsNone(Rooms)'
<1>1. StartsNone(Rooms)
  BY NobodyIsReady DEF DispatchRest
<1>2. Waiting' = Waiting /\ UNCHANGED <<ahead, waited, holders, seen>>
  BY DEF DispatchRest, Waiting
<1> QED BY <1>1, <1>2, SameQueueSamePass

LEMMA NothingLeftStep ==
  ASSUME TypeOK, ThreadsAgree, Arrival, NothingLeft, [Next]_vars, ~Tick
  PROVE  NothingLeft'
<1>1. CASE DispatchRest
  BY <1>1, RestLeavesNothing DEF NothingLeft
<1>2. ASSUME wake' = TRUE PROVE NothingLeft'
  BY <1>2 DEF NothingLeft, Asleep
<1>3. ASSUME dispatcher' # "wait" PROVE NothingLeft'
  BY <1>3 DEF NothingLeft, Asleep
<1>4. ASSUME NEW j \in Job, NEW who \in Job \cup {Api}, Enqueue(j, who) PROVE NothingLeft'
  <2>1. submitter'[j] # "none"
    BY <1>4, JobAssumption DEF Enqueue, TypeOK
  <2> QED BY <2>1 DEF NothingLeft, Asleep
<1>5. ASSUME NEW j \in Job, Release(j) PROVE NothingLeft'
  BY <1>5 DEF Release, Turn, TypeOK, NothingLeft, Asleep
<1>6. ASSUME Asleep' => Asleep, Waiting' = Waiting,
             UNCHANGED <<ahead, waited, holders, seen>>
      PROVE  NothingLeft'
  BY <1>6, SameQueueSamePass DEF NothingLeft
<1>7. ASSUME NEW j \in Job, Settle(j) PROVE NothingLeft'
  <2>1. Waiting' = Waiting /\ UNCHANGED <<ahead, waited, holders, seen>>
    BY <1>7, SettleWaits DEF Settle, dispatchVars
  <2>2. Asleep' => Asleep
    BY <1>7 DEF Settle, Asleep, TypeOK, Terminal, dispatchVars
  <2> QED BY <1>6, <2>1, <2>2
<1>8. ASSUME NEW j \in Job, HandlerReturns(j) \/ HandlerStopped(j) \/ HandlerFails(j)
                              \/ ChainNothing(j)
      PROVE  NothingLeft'
  <2>1. Waiting' = Waiting /\ UNCHANGED <<ahead, waited, holders, seen>>
    BY <1>8 DEF HandlerReturns, HandlerStopped, HandlerFails, ChainNothing, Waiting, jobVars,
                dispatchVars
  <2>2. Asleep' => Asleep
    BY <1>8 DEF HandlerReturns, HandlerStopped, HandlerFails, ChainNothing, Turn, Asleep,
                TypeOK, dispatchVars
  <2> QED BY <1>6, <2>1, <2>2
<1>9. ASSUME UNCHANGED <<jobVars, submitter, worker, dispatchVars>> PROVE NothingLeft'
  BY <1>6, <1>9 DEF Asleep, Waiting, jobVars, dispatchVars
<1>10. \/ \E j \in Job : \/ \E who \in Job \cup {Api} : Enqueue(j, who)
                         \/ HandlerReturns(j) \/ HandlerStopped(j) \/ HandlerFails(j)
                         \/ ChainNothing(j) \/ Settle(j) \/ Release(j)
       \/ DispatchRest
       \/ wake' = TRUE
       \/ dispatcher' # "wait"
       \/ UNCHANGED <<jobVars, submitter, worker, dispatchVars>>
  BY DEF Next, Request, ThreadStep, Dispatch, Stop, Submit, Announce, CancelQueued,
     CancelRunning, CancelRaise, DispatchWake, DispatchLeave, DispatchRead, DispatchLaunch,
     ChainLink, WorkerWakes, ChangeSetting, ShutdownBegin, ShutdownCollect, ShutdownAsk,
     ShutdownJoin, threadVars, dispatchVars, vars
<1> QED BY <1>1, <1>2, <1>3, <1>4, <1>5, <1>7, <1>8, <1>9, <1>10

(* What is left to the sleeper is what is ready. *)
LEMMA NothingLeftWakes == ASSUME NothingLeft PROVE NoLostWakeup
  BY NobodyIsReady DEF NoLostWakeup, NothingLeft, Asleep

(* What holds of the order and of a sleeping dispatcher from the start. *)
LEMMA InitQueue == Init => Arrival /\ NothingLeft /\ PositionsCurrent
<1> SUFFICES ASSUME Init PROVE Arrival /\ NothingLeft /\ PositionsCurrent
  OBVIOUS
<1>1. Waiting = {}
  BY DEF Init, Waiting
<1>2. Arrival
  BY DEF Init, Arrival
<1>3. NothingLeft
  BY <1>1 DEF NothingLeft, StartsNone
<1>4. PositionsCurrent
  BY <1>1 DEF Init, PositionsCurrent, Positions
<1> QED BY <1>2, <1>3, <1>4

(* Every change of the queue restamps, or changes no position. *)
LEMMA PositionsStep ==
  ASSUME TypeOK, ThreadsAgree, PositionsCurrent, [Next]_vars, ~Tick
  PROVE  PositionsCurrent'
<1>1. ASSUME Restamp PROVE PositionsCurrent'
  BY <1>1 DEF Restamp, PositionsCurrent
<1>2. ASSUME Waiting' = Waiting, UNCHANGED <<ahead, waited>> PROVE Positions' = Positions
  <2>1. \A i : Rank(i)' = Rank(i)
    BY <1>2 DEF Rank
  <2>2. \A i, j : Before(i, j)' <=> Before(i, j)
    BY <1>2, <2>1 DEF Before
  <2> QED BY <1>2, <2>2 DEF Positions
<1>3. ASSUME UNCHANGED <<status, ahead, waited, position>> PROVE PositionsCurrent'
  BY <1>2, <1>3 DEF Waiting, PositionsCurrent
<1>4. ASSUME NEW j \in Job, Settle(j) PROVE PositionsCurrent'
  <2>1. Positions' = Positions
    BY <1>2, <1>4, SettleWaits
  <2>2. position[j] = 0
    BY <1>4, SettleWaits DEF PositionsCurrent, Positions
  <2>3. position' = position
    BY <1>4, <2>2 DEF Settle, TypeOK
  <2> QED BY <2>1, <2>3 DEF PositionsCurrent
<1>5. \/ Restamp
      \/ UNCHANGED <<status, ahead, waited, position>>
      \/ \E j \in Job : Settle(j)
  BY DEF Next, Request, ThreadStep, Dispatch, Stop, Submit, Announce, CancelQueued, Leave,
     CancelRunning, CancelRaise, DispatchWake, DispatchLeave, DispatchRead, DispatchRest,
     DispatchLaunch, HandlerReturns, HandlerStopped, HandlerFails, ChainLink, ChainNothing,
     Enqueue, Release, WorkerWakes, ChangeSetting, ShutdownBegin, ShutdownCollect,
     ShutdownAsk, ShutdownJoin, jobVars, vars
<1> QED BY <1>1, <1>3, <1>4, <1>5

-----------------------------------------------------------------------------
(* The invariant with the order of arrival. *)
QInv == IInv /\ Arrival

LEMMA QueueStep == QInv /\ [Next]_vars => QInv'
  BY StepInv, ArrivalStep DEF QInv, IInv

LEMMA OrderInvariant == Spec => []QInv
  BY InitInv, InitQueue, QueueStep, PTL DEF Spec, QInv

(* Only the passage of time makes a position stale: as long as no clock    *)
(* tick ages anybody, each waiting job shows the position the queue would  *)
(* compute now, whatever the classes and the waits so far (_restamp).      *)
THEOREM OnlyTimeMovesPositions == Spec /\ [][~Tick]_vars => []PositionsCurrent
<1>1. QInv /\ PositionsCurrent /\ [Next]_vars /\ [~Tick]_vars => PositionsCurrent'
  <2>1. QInv /\ PositionsCurrent /\ [Next]_vars /\ ~Tick => PositionsCurrent'
    BY PositionsStep DEF QInv, IInv
  <2>2. PositionsCurrent /\ UNCHANGED vars => PositionsCurrent'
    BY DEF PositionsCurrent, Positions, Waiting, Before, Rank, vars, jobVars
  <2> QED BY <2>1, <2>2
<1>2. Init => PositionsCurrent
  BY InitQueue
<1> QED BY <1>1, <1>2, OrderInvariant, PTL DEF Spec

LEMMA SleepInvariant == Spec /\ [][~Tick]_vars => [](QInv /\ NothingLeft)
<1>1. QInv /\ NothingLeft /\ [Next]_vars /\ [~Tick]_vars => NothingLeft'
  <2>1. QInv /\ NothingLeft /\ [Next]_vars /\ ~Tick => NothingLeft'
    BY NothingLeftStep DEF QInv, IInv
  <2>2. NothingLeft /\ UNCHANGED vars => NothingLeft'
    <3> SUFFICES ASSUME NothingLeft, UNCHANGED vars, Asleep' PROVE StartsNone(Rooms)'
      BY DEF NothingLeft
    <3>1. Waiting' = Waiting /\ UNCHANGED <<ahead, waited, holders, seen>>
      BY DEF Waiting, vars, jobVars, dispatchVars
    <3>2. Asleep
      BY DEF Asleep, vars, threadVars, dispatchVars
    <3> QED BY <3>1, <3>2, SameQueueSamePass DEF NothingLeft
  <2> QED BY <2>1, <2>2
<1>2. Init => NothingLeft
  BY InitQueue
<1> QED BY <1>1, <1>2, OrderInvariant, PTL DEF Spec

(* No wakeup is lost: as long as no clock tick ages anybody, a dispatcher  *)
(* that sleeps unwoken has nothing it could start in the room it last      *)
(* read, whatever that is, though submissions, cancels and releases come   *)
(* at any time (_dispatch, submit, cancel, _release).                      *)
THEOREM NoWakeupIsLost == Spec /\ [][~Tick]_vars => []NoLostWakeup
<1>1. QInv /\ NothingLeft => NoLostWakeup
  BY NothingLeftWakes DEF QInv, IInv
<1> QED BY <1>1, SleepInvariant, PTL

(* The rooms under the setting of this moment. *)
PresentRooms == [b \in Lane |-> IF b = "remote" THEN Capacity ELSE LocalCapacity]

(* Nor has it anything it could start in the present room, unless the      *)
(* panel has raised the setting since: that alone is left to the           *)
(* half-second tick (ChangeSetting, _dispatch).                            *)
THEOREM OnlyRaisesWaitForTheTick ==
  Spec /\ [][~Tick]_vars => [](Asleep /\ Capacity <= seen => StartsNone(PresentRooms))
<1>1. QInv /\ NothingLeft => (Asleep /\ Capacity <= seen => StartsNone(PresentRooms))
  <2> SUFFICES ASSUME TypeOK, Arrival, StartsNone(Rooms), Capacity <= seen
               PROVE  StartsNone(PresentRooms)
    BY DEF QInv, IInv, NothingLeft
  <2>1. Rooms \in [Lane -> Int] /\ PresentRooms \in [Lane -> Int]
    BY RoomAssumption DEF Rooms, Room, PresentRooms, Capacity, TypeOK
  <2>2. \A b \in Lane : PresentRooms[b] <= Rooms[b]
    BY RoomAssumption DEF Rooms, Room, PresentRooms, TypeOK
  <2> QED BY <2>1, <2>2, LessRoomStartsNone
<1> QED BY <1>1, SleepInvariant, PTL

(* In particular when both terms of aging are zero, where the clock has    *)
(* nothing to change: the instance the run checks (priority.py).           *)
THEOREM WithoutAging ==
  ASSUME PromoteB = 0, PromoteC = 0
  PROVE  Spec => []PositionsCurrent /\ []NoLostWakeup
<1>1. TypeOK => ~Tick
  BY DEF TypeOK, Tick, Waiting
<1>2. TypeOK /\ [Next]_vars => [~Tick]_vars
  BY <1>1
<1> QED BY <1>2, TypeCorrect, OnlyTimeMovesPositions, NoWakeupIsLost, PTL DEF Spec

(* Only the turn that launches a job sets it running. *)
LEMMA OnlyLaunches ==
  ASSUME TypeOK, [Next]_vars, NEW j \in Job, Launches(j)
  PROVE  DispatchLaunch(j)
<1>1. status[j] = "queued" /\ status'[j] = "running"
  BY DEF Launches
<1>2. ASSUME NEW i \in Job, NEW st, st # "running", status' = [status EXCEPT ![i] = st]
      PROVE  FALSE
  BY <1>1, <1>2 DEF TypeOK
<1>3. ASSUME NEW i \in Job, DispatchLaunch(i) PROVE i = j
  BY <1>1, <1>3 DEF DispatchLaunch, Leave, TypeOK
<1>4. ASSUME NEW i \in Job, NEW who, Enqueue(i, who) PROVE FALSE
  BY <1>2, <1>4 DEF Enqueue
<1>5. ASSUME NEW i \in Job, CancelQueued(i) \/ Settle(i) PROVE FALSE
  BY <1>2, <1>5 DEF CancelQueued, Leave, Settle, Terminal
<1>6. \/ \E i \in Job : \/ \E who \in Job \cup {Api} : Enqueue(i, who)
                        \/ CancelQueued(i) \/ Settle(i) \/ DispatchLaunch(i)
      \/ UNCHANGED status
  BY DEF Next, Request, ThreadStep, Dispatch, Stop, Submit, Announce, CancelRunning,
     CancelRaise, DispatchWake, DispatchLeave, DispatchRead, DispatchRest, HandlerReturns,
     HandlerStopped, HandlerFails, ChainLink, ChainNothing, Release, WorkerWakes,
     ChangeSetting, Tick, ShutdownBegin, ShutdownCollect, ShutdownAsk, ShutdownJoin, jobVars,
     vars
<1> QED BY <1>1, <1>3, <1>4, <1>5, <1>6

(* A launch leaves, in each of its lanes, a slot for every job before it   *)
(* that the pass passed over for want of room.                             *)
LEMMA LaunchKeepsRoom ==
  ASSUME TypeOK, NEW i \in Job, DispatchLaunch(i), NEW b \in Backends[i]
  PROVE  /\ Cardinality(holders'[b]) \in Nat
         /\ Cardinality({k \in Waiting : Before(k, i) /\ b \in Backends[k] /\ ~Capped(k)}) \in Nat
         /\ Room(b) \in Int
         /\ Room(b) - Cardinality(holders'[b]) >=
              Cardinality({k \in Waiting : Before(k, i) /\ b \in Backends[k] /\ ~Capped(k)})
<1> DEFINE K == {k \in Waiting : Before(k, i) /\ b \in Backends[k] /\ ~Capped(k)}
<1>1. PICK B \in SUBSET Waiting : /\ IsBlockedSet(B)
                                  /\ i \notin B
                                  /\ \A k \in Waiting : Before(k, i) => k \in B \/ Capped(k)
  BY DEF DispatchLaunch, NextReady
<1> DEFINE S == {k \in B : Before(k, i) /\ b \in Backends[k]}
<1>2. K \subseteq S
  BY <1>1
<1>3. b \in Lane
  BY KindAssumption
<1>4. holders'[b] = holders[b] \cup {i}
  BY <1>3 DEF DispatchLaunch
<1>5. /\ K \in SUBSET Job /\ S \in SUBSET Job
      /\ holders[b] \in SUBSET Job /\ holders'[b] \in SUBSET Job
  BY <1>3, <1>4 DEF TypeOK, Waiting
<1>6. ~(Cardinality(holders[b]) + Cardinality(S) >= Room(b))
  BY <1>1 DEF IsBlockedSet, DispatchLaunch, NextReady
<1>7. Room(b) \in Int
  BY RoomAssumption DEF Room, TypeOK
<1> HIDE DEF K, S
<1>8. Cardinality(K) <= Cardinality(S)
  BY <1>2, <1>5, JobSets, FS_Subset
<1>9. /\ Cardinality(K) \in Nat /\ Cardinality(S) \in Nat
      /\ Cardinality(holders[b]) \in Nat /\ Cardinality(holders'[b]) \in Nat
  BY <1>5, JobSets
<1>10. Cardinality(holders'[b]) <= Cardinality(holders[b]) + 1
  <2>1. IsFiniteSet(holders[b])
    BY <1>5, JobSets
  <2>2. Cardinality(holders[b] \cup {i}) =
          IF i \in holders[b] THEN Cardinality(holders[b]) ELSE Cardinality(holders[b]) + 1
    BY <2>1, FS_AddElement
  <2> QED BY <1>4, <1>9, <2>2
<1>11. Room(b) - Cardinality(holders'[b]) >= Cardinality(K)
  BY <1>6, <1>7, <1>8, <1>9, <1>10
<1> QED BY <1>7, <1>9, <1>11 DEF K

(* A job overtakes another only where every lane they share keeps a slot   *)
(* for the one it overtakes (_next_ready).                                 *)
THEOREM OvertakersKeepRoom == Spec => OvertakingKeepsRoom
<1>1. TypeOK /\ [Next]_vars =>
        [\A i \in Job : Launches(i) => \A b \in Backends[i] :
           Room(b) - Cardinality(holders'[b]) >=
             Cardinality({k \in Waiting : Before(k, i) /\ b \in Backends[k] /\ ~Capped(k)})]_vars
  BY OnlyLaunches, LaunchKeepsRoom
<1> QED BY <1>1, TypeCorrect, PTL DEF Spec, OvertakingKeepsRoom

(* A job that has waited both terms loses no slot to a later arrival: what *)
(* starts behind it leaves a slot free in each lane they share             *)
(* (priority.py, _next_ready).                                             *)
THEOREM AgedJobsAreNotDelayed == Spec => AgedIsNotDelayed
<1>1. ASSUME TypeOK, [Next]_vars, NEW i \in Job, NEW j \in Job, Launches(i), j \in Waiting,
             j \in ahead[i], waited[j] = PromoteB + PromoteC, ~Capped(j),
             NEW b \in Backends[i] \cap Backends[j]
      PROVE  Cardinality(holders'[b]) < Room(b)
  <2> DEFINE K == {k \in Waiting : Before(k, i) /\ b \in Backends[k] /\ ~Capped(k)}
  <2>1. DispatchLaunch(i)
    BY <1>1, OnlyLaunches
  <2>2. Before(j, i)
    <3>1. Rank(j) = 0 /\ Rank(i) \in 0..2
      BY <1>1, AgedRank, RankType
    <3> QED BY <1>1, <3>1 DEF Before
  <2>3. j \in K /\ K \in SUBSET Job
    BY <1>1, <2>2 DEF Waiting
  <2>4. /\ Cardinality(holders'[b]) \in Nat
        /\ Room(b) \in Int
        /\ Room(b) - Cardinality(holders'[b]) >= Cardinality(K)
    BY <1>1, <2>1, LaunchKeepsRoom
  <2> HIDE DEF K
  <2>5. Cardinality(K) >= 1
    BY <2>3, JobSets, FS_EmptySet
  <2>6. Cardinality(K) \in Nat
    BY <2>3, JobSets
  <2> QED BY <2>4, <2>5, <2>6
<1>2. TypeOK /\ [Next]_vars =>
        [\A i, j \in Job :
           (/\ Launches(i)
            /\ j \in Waiting
            /\ j \in ahead[i]
            /\ waited[j] = PromoteB + PromoteC
            /\ ~Capped(j))
           => \A b \in Backends[i] \cap Backends[j] : Cardinality(holders'[b]) < Room(b)]_vars
  BY <1>1
<1> QED BY <1>2, TypeCorrect, PTL DEF Spec, AgedIsNotDelayed
=============================================================================
