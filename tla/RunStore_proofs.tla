--------------------------- MODULE RunStore_proofs ---------------------------
(***************************************************************************)
(* Proofs about the tab of RunStore, for any workspaces, numbers of jobs,  *)
(* events and sockets, sizes of the ring and of the store, and bounds: its *)
(* types, that its store holds runs of no other workspace, and that its    *)
(* screen is the queue once it has caught up.                              *)
(***************************************************************************)
EXTENDS RunStore, FiniteSetTheorems, SequenceTheorems, WellFoundedInduction, TLAPS

USE SizesAssumption, NoneAssumption

(* What is published of a job says how it is, but for a step. *)
LogSays == \A i \in 1..Len(log) : log[i].kind # "step" => log[i].body \in Body

(* A job that was never queued is nowhere. *)
Unborn == \A j \in Job : job[j].at = "none" => job[j].ws = None

(* The tab's socket asks for where the tab is, and is served what it asks. *)
Asked == /\ socket # None => sock[socket].asks = active
         /\ \A s \in Slot : sock[s].at \in Served /\ sock[s].asks # None
                              => sock[s].ws = sock[s].asks

(* What the store says is of jobs of the tab's workspace. *)
Ours == ~store.stray => \A j \in Job :
          store.runs[j] # None /\ store.runs[j].job # "unknown" =>
            active # None /\ job[j].ws = active

IInv == TypeOK /\ LogSays /\ Unborn /\ Asked /\ Ours

Runs == [Job -> Run \cup {None}]
Store == [seq : Events, current : Job \cup {None}, runs : Runs, stray : BOOLEAN,
          missed : SUBSET Job]

-----------------------------------------------------------------------------
Below == {s \in Nat \X Nat : s[1] < s[2]}

(* A set of numbers that is not empty has a least one. *)
LEMMA Least == ASSUME NEW S \in SUBSET Nat, S # {}
               PROVE  \E x \in S : \A y \in S : x <= y
<1>1. IsWellFoundedOn(Below, Nat)
  BY NatLessThanWellFounded DEF OpToRel, Below
<1>2. PICK x \in S : \A y \in S : ~ (<<y, x>> \in Below)
  BY <1>1, WFMin
<1>3. \A y \in S : ~ (y < x)
  BY <1>2 DEF Below
<1> QED BY <1>3

(* The reducer *)

(* A run the store knows of is of the type of runs. *)
LEMMA RunOfType == ASSUME NEW runs \in Runs, NEW j \in Job
                   PROVE  RunOf(runs, j) \in Run
  BY DEF RunOf, Runs, Run, EmptyRun, Body

LEMMA ReduceType == ASSUME NEW run \in Run, NEW e, e.kind # "step" => e.body \in Body,
                           e.kind \in Kind
                    PROVE  Reduce(run, e) \in Run
  BY DEF Reduce, Run, Kind

(* Pruning only forgets. *)
LEMMA PruneType == ASSUME NEW runs \in Runs
                   PROVE  /\ PruneRuns(runs) \in Runs
                          /\ \A j \in Job : PruneRuns(runs)[j] \in {runs[j], None}
<1> DEFINE gone == Leaves(runs, Cardinality(Known(runs)) - MaxRuns)
<1>1. CASE Cardinality(Known(runs)) - MaxRuns <= 0
  BY <1>1 DEF PruneRuns, Runs
<1>2. CASE ~(Cardinality(Known(runs)) - MaxRuns <= 0)
  <2>1. PruneRuns(runs) = [j \in Job |-> IF j \in gone THEN None ELSE runs[j]]
    BY <1>2 DEF PruneRuns
  <2> HIDE DEF gone
  <2> QED BY <2>1 DEF Runs
<1> QED BY <1>1, <1>2

(* What a store that says of nothing but `given` says, but for what it     *)
(* does not know yet.                                                      *)
Within(st, given) == \A j \in Job :
    st.runs[j] # None /\ st.runs[j].job # "unknown" => j \in given

(* An event adds its job. *)
LEMMA ApplyKeeps ==
    ASSUME NEW st \in Store, NEW i \in 1..Len(log), NEW given, TypeOK, LogSays,
           Within(st, given), log[i].job \in given
    PROVE  /\ Apply(st, i) \in Store
           /\ Within(Apply(st, i), given)
           /\ Apply(st, i).stray = st.stray
<1> DEFINE e == log[i]
           run == Reduce(RunOf(st.runs, e.job), e)
           added == [st.runs EXCEPT ![e.job] = run]
<1>1. e \in [job : Job, kind : Kind, body : Body \cup {"none"}] /\ i \in Events
  <2>1. log \in Seq([job : Job, kind : Kind, body : Body \cup {"none"}]) /\ Len(log) \in 0..MaxSeq
    BY DEF TypeOK, Events
  <2>2. log[i] \in [job : Job, kind : Kind, body : Body \cup {"none"}]
    BY <2>1, ElementOfSeq
  <2> QED BY <2>1, <2>2 DEF Events
<1>2. e.job \in Job /\ e.kind \in Kind /\ (e.kind # "step" => e.body \in Body)
  BY <1>1 DEF LogSays
<1>3. st.runs \in Runs
  BY DEF Store
<1>4. run \in Run
  BY <1>2, <1>3, RunOfType, ReduceType
<1>5. added \in Runs /\ \A j \in Job : added[j] = IF j = e.job THEN run ELSE st.runs[j]
  <2> HIDE DEF run, e
  <2> QED BY <1>2, <1>3, <1>4 DEF Runs
<1>6. PruneRuns(added) \in Runs /\ \A j \in Job : PruneRuns(added)[j] \in {added[j], None}
  BY <1>5, PruneType
<1>7. CASE i <= st.seq
  BY <1>7 DEF Apply
<1>8. CASE ~(i <= st.seq)
  <2> DEFINE now == CASE e.kind \in {"queued", "started"} -> e.job
                      [] e.kind = "ended" /\ st.current = e.job -> None
                      [] OTHER -> st.current
  <2>1. Apply(st, i) = [st EXCEPT !.seq = i, !.current = now, !.runs = PruneRuns(added)]
    BY <1>8 DEF Apply
  <2>2. now \in Job \cup {None}
    BY <1>2 DEF Store
  <2> HIDE DEF now, added, run, e
  <2>3. /\ Apply(st, i) \in Store /\ Apply(st, i).stray = st.stray
        /\ Apply(st, i).runs = PruneRuns(added)
    BY <1>1, <1>6, <2>1, <2>2 DEF Store
  <2>4. Within(Apply(st, i), given)
    BY <1>2, <1>5, <1>6, <2>3 DEF Within, e
  <2> QED BY <2>3, <2>4
<1> QED BY <1>7, <1>8

(* The snapshot adds the jobs it tells of. *)
LEMMA AdoptKeeps ==
    ASSUME NEW st \in Store, NEW jobs, NEW given, TypeOK, Within(st, given),
           \A j \in Job : jobs[j] \in Body \cup {"none"},
           \A j \in Job : jobs[j] # "none" => j \in given
    PROVE  /\ AdoptJobs(st, jobs) \in Store
           /\ Within(AdoptJobs(st, jobs), given)
           /\ AdoptJobs(st, jobs).stray = st.stray
<1> DEFINE told == {j \in Job : jobs[j] # "none"}
           live == {j \in told : Live(jobs[j])}
           oldest == CHOOSE j \in live : \A i \in live : j <= i
           adopted == [j \in Job |->
                IF j \in told
                THEN [job |-> jobs[j], over |-> RunOf(st.runs, j).over \/ jobs[j] = "done"]
                ELSE st.runs[j]]
           now == IF live = {} THEN st.current ELSE oldest
<1>1. CASE told = {}
  BY <1>1 DEF AdoptJobs
<1>2. CASE told # {}
  <2>1. AdoptJobs(st, jobs) = [st EXCEPT !.current = now, !.runs = PruneRuns(adopted)]
    BY <1>2 DEF AdoptJobs
  <2>2. now \in Job \cup {None}
    <3>1. CASE live = {}
      BY <3>1 DEF Store
    <3>2. CASE live # {}
      <4>1. live \in SUBSET Job /\ live \in SUBSET Nat
        BY DEF Job
      <4>2. oldest \in live
        <5> HIDE DEF live
        <5> QED BY <3>2, <4>1, Least
      <4> QED BY <3>2, <4>1, <4>2
    <3> QED BY <3>1, <3>2
  <2>3. st.runs \in Runs /\ \A j \in Job : RunOf(st.runs, j).over \in BOOLEAN
    BY RunOfType DEF Store, Run
  <2>4. adopted \in Runs
    BY <2>3 DEF Runs, Run
  <2>5. PruneRuns(adopted) \in Runs /\ \A j \in Job : PruneRuns(adopted)[j] \in {adopted[j], None}
    BY <2>4, PruneType
  <2> HIDE DEF now, adopted
  <2>6. /\ AdoptJobs(st, jobs) \in Store /\ AdoptJobs(st, jobs).stray = st.stray
        /\ AdoptJobs(st, jobs).runs = PruneRuns(adopted)
    BY <2>1, <2>2, <2>5 DEF Store
  <2>7. Within(AdoptJobs(st, jobs), given)
    BY <2>5, <2>6 DEF Within, adopted
  <2> QED BY <2>6, <2>7
<1> QED BY <1>1, <1>2

(* A backlog is what its definition says: the sequence of the stores, from *)
(* the first event to the last, is there for every number of events.       *)
StepOf(f, st, events, i) ==
    IF i = 0 THEN st ELSE IF i \in events THEN Apply(f[i - 1], i) ELSE f[i - 1]
Stores(f, st, events, n) == f = [i \in 0..n |-> StepOf(f, st, events, i)]

LEMMA StoresExist == ASSUME NEW st, NEW events
                     PROVE  \E f : Stores(f, st, events, MaxSeq)
<1> DEFINE Lacks == {n \in Nat : ~ \E f : Stores(f, st, events, n)}
<1>1. SUFFICES ASSUME Lacks # {} PROVE FALSE
  BY DEF SizesAssumption
<1>2. PICK n \in Lacks : \A k \in Lacks : n <= k
  BY <1>1, Least
<1>3. CASE n = 0
  <2>1. Stores([i \in 0..0 |-> st], st, events, 0)
    BY DEF Stores, StepOf
  <2> QED BY <1>2, <1>3, <2>1
<1>4. CASE n # 0
  <2>1. n - 1 \in Nat /\ n - 1 \notin Lacks
    BY <1>2, <1>4
  <2>2. PICK f : Stores(f, st, events, n - 1)
    BY <2>1
  <2> DEFINE last == IF n \in events THEN Apply(f[n - 1], n) ELSE f[n - 1]
             g == [i \in 0..n |-> IF i = n THEN last ELSE f[i]]
  <2>3. \A i \in 0..n : g[i] = StepOf(g, st, events, i)
    <3> SUFFICES ASSUME NEW i \in 0..n PROVE g[i] = StepOf(g, st, events, i)
      OBVIOUS
    <3>1. CASE i = n
      <4>1. g[n] = last /\ g[n - 1] = f[n - 1]
        <5> HIDE DEF last
        <5> QED BY <1>4
      <4> QED BY <1>4, <3>1, <4>1 DEF StepOf
    <3>2. CASE i # n
      <4>1. i \in 0..(n - 1) /\ g[i] = f[i] /\ (i # 0 => g[i - 1] = f[i - 1])
        <5> HIDE DEF last
        <5> QED BY <3>2
      <4>2. f[i] = StepOf(f, st, events, i)
        BY <2>2, <4>1 DEF Stores
      <4> QED BY <4>1, <4>2 DEF StepOf
    <3> QED BY <3>1, <3>2
  <2>4. Stores(g, st, events, n)
    <3> HIDE DEF last
    <3>1. g = [i \in 0..n |-> g[i]]
      OBVIOUS
    <3> HIDE DEF g
    <3> QED BY <2>3, <3>1 DEF Stores
  <2> QED BY <1>2, <2>4
<1> QED BY <1>3, <1>4

LEMMA ReplayIs == ASSUME NEW st, NEW events
                  PROVE  \E f : Stores(f, st, events, MaxSeq) /\ Replay(st, events) = f[MaxSeq]
<1> DEFINE f == CHOOSE f : Stores(f, st, events, MaxSeq)
<1>1. Stores(f, st, events, MaxSeq)
  BY StoresExist
<1>2. Replay(st, events) = f[MaxSeq]
  BY DEF Replay, Stores, StepOf, Events
<1> HIDE DEF f
<1> QED BY <1>1, <1>2

(* It adds the jobs of its events. *)
LEMMA ReplayKeeps ==
    ASSUME NEW st \in Store, NEW events, NEW given, TypeOK, LogSays, Within(st, given),
           events \subseteq 1..Len(log), \A i \in events : log[i].job \in given
    PROVE  /\ Replay(st, events) \in Store
           /\ Within(Replay(st, events), given)
           /\ Replay(st, events).stray = st.stray
<1>1. PICK f : Stores(f, st, events, MaxSeq) /\ Replay(st, events) = f[MaxSeq]
  BY ReplayIs
<1> DEFINE Kept(x) == x \in Store /\ Within(x, given) /\ x.stray = st.stray
           Spoilt == {i \in 0..MaxSeq : ~Kept(f[i])}
<1>2. \A i \in 0..MaxSeq : f[i] = StepOf(f, st, events, i)
  BY <1>1 DEF Stores
<1>3. SUFFICES ASSUME Spoilt # {} PROVE FALSE
  BY <1>1 DEF SizesAssumption
<1>4. PICK i \in Spoilt : \A k \in Spoilt : i <= k
  <2>1. Spoilt \in SUBSET Nat
    OBVIOUS
  <2> QED BY <1>3, <2>1, Least
<1>5. CASE i = 0
  BY <1>2, <1>4, <1>5 DEF StepOf
<1>6. CASE i # 0
  <2>1. i - 1 \in 0..MaxSeq /\ i - 1 \notin Spoilt
    BY <1>4, <1>6
  <2>2. Kept(f[i - 1])
    BY <2>1
  <2>3. CASE i \in events
    <3>1. Kept(Apply(f[i - 1], i))
      BY <2>2, <2>3, ApplyKeeps
    <3> QED BY <1>2, <1>4, <1>6, <2>3, <3>1 DEF StepOf
  <2>4. CASE i \notin events
    BY <1>2, <1>4, <1>6, <2>2, <2>4 DEF StepOf
  <2> QED BY <2>3, <2>4
<1> QED BY <1>5, <1>6

-----------------------------------------------------------------------------
(* The queue *)

Entry == [job : Job, kind : Kind, body : Body \cup {"none"}]
JobState == [at : Phases, ws : Place, due : BOOLEAN]

LEMMA StatusType == ASSUME TypeOK, NEW j \in Job
                    PROVE  Status(j) \in Body \cup {"none"}
  BY DEF Status, Body

(* What is published is written at the end. *)
LEMMA Published ==
    ASSUME TypeOK, LogSays, NEW j \in Job, NEW kind \in Kind, NEW body \in Body \cup {"none"},
           kind # "step" => body \in Body, Publish(j, kind, body)
    PROVE  log' \in Seq(Entry) /\ Len(log') \in Events /\ LogSays'
<1> DEFINE e == [job |-> j, kind |-> kind, body |-> body]
<1>1. log \in Seq(Entry) /\ Len(log) \in Nat /\ e \in Entry
  BY DEF TypeOK, Entry, Events
<1>2. log' = Append(log, e) /\ Len(log) < MaxSeq
  BY DEF Publish
<1>3. /\ log' \in Seq(Entry) /\ Len(log') = Len(log) + 1
      /\ \A i \in 1..Len(log) : log'[i] = log[i]
      /\ log'[Len(log) + 1] = e
  <2> HIDE DEF e
  <2> QED BY <1>1, <1>2, AppendProperties
<1>4. LogSays'
  <2> SUFFICES ASSUME NEW i \in 1..Len(log'), log'[i].kind # "step" PROVE log'[i].body \in Body
    BY DEF LogSays
  <2>1. CASE i \in 1..Len(log)
    BY <1>3, <2>1 DEF LogSays
  <2>2. CASE i = Len(log) + 1
    BY <1>3, <2>2
  <2> QED BY <1>1, <1>3, <2>1, <2>2
<1> QED BY <1>1, <1>2, <1>3, <1>4 DEF Events

(* A job keeps its workspace, so what the store says of it still goes. *)
LEMMA OursKept ==
    ASSUME Unborn, Ours, active' = active, store' = store,
           \A j \in Job : job[j].at # "none" => job'[j].ws = job[j].ws
    PROVE  Ours'
  BY DEF Ours, Unborn

(* The queue writes jobs and the log only. *)
LEMMA QueueSide ==
    ASSUME IInv, UNCHANGED queueing,
           job' \in [Job -> JobState],
           \A j \in Job : job[j].at # "none" => job'[j].ws = job[j].ws,
           \A j \in Job : job'[j].at = "none" => job[j].at = "none" /\ job'[j].ws = job[j].ws,
           log' \in Seq(Entry) /\ Len(log') \in Events /\ LogSays',
           answers' \in SUBSET Job
    PROVE  IInv'
<1> USE DEF IInv, queueing, tab
<1>1. TypeOK'
  BY DEF TypeOK, Entry, JobState
<1>2. Unborn'
  BY DEF Unborn
<1>3. Asked'
  BY DEF Asked
<1>4. Ours'
  BY OursKept
<1> QED BY <1>1, <1>2, <1>3, <1>4

(* A job is queued, goes on or is announced. *)
LEMMA QueueSteps ==
    ASSUME IInv, NEW j \in Job,
           \/ \E w \in Workspace : Submit(j, w)
           \/ SubmitHere(j) \/ Announced(j) \/ Step(j) \/ CancelQueued(j)
    PROVE  IInv'
<1> USE DEF IInv
<1>0. /\ job \in [Job -> JobState] /\ log \in Seq(Entry) /\ Len(log) \in Events
      /\ answers \in SUBSET Job
  BY DEF TypeOK, JobState, Entry
<1>q. ASSUME NEW w \in Workspace, Queue(j, w), log' = log, UNCHANGED queueing,
             answers' \in SUBSET Job
      PROVE  IInv'
  <2>1. job' \in [Job -> JobState]
    BY <1>0, <1>q DEF Queue, JobState, Phases, Place
  <2>2. \A i \in Job : i # j => job'[i] = job[i]
    BY <1>0, <1>q DEF Queue
  <2>3. job[j].at = "none" /\ job'[j].at = "queued"
    BY <1>0, <1>q DEF Queue
  <2>4. LogSays'
    BY <1>q DEF LogSays
  <2> QED BY <1>0, <1>q, <2>1, <2>2, <2>3, <2>4, QueueSide
<1>m. ASSUME NEW from, NEW to \in Phases \ {"none"}, Moves(j, from, to), from # "none"
      PROVE  /\ job' \in [Job -> JobState]
             /\ \A i \in Job : job[i].at # "none" => job'[i].ws = job[i].ws
             /\ \A i \in Job : job'[i].at = "none" => job[i].at = "none" /\ job'[i].ws = job[i].ws
  <2>1. job' = [job EXCEPT ![j].at = to] /\ job[j].at = from
    BY <1>m DEF Moves
  <2> QED BY <1>0, <1>m, <2>1 DEF JobState
<1>1. CASE \E w \in Workspace : Submit(j, w)
  BY <1>0, <1>1, <1>q DEF Submit
<1>2. CASE SubmitHere(j)
  <2>1. active \in Workspace
    BY <1>2 DEF SubmitHere, TypeOK
  <2>2. answers' \in SUBSET Job
    BY <1>0, <1>2 DEF SubmitHere
  <2> QED BY <1>2, <1>q, <2>1, <2>2 DEF SubmitHere
<1>3. CASE Announce(j)
  <2>1. PICK body \in ({"queued", Status(j)} \cup {log[i].body : i \in EventsOf(j)}) \ {"none"} :
          Publish(j, "queued", body)
    BY <1>3 DEF Announce
  <2>2. \A i \in EventsOf(j) : log[i].body \in Body \cup {"none"}
    <3>1. \A i \in 1..Len(log) : log[i] \in Entry
      BY <1>0, ElementOfSeq
    <3> QED BY <3>1 DEF EventsOf, Entry
  <2>3. body \in Body
    BY <2>1, <2>2, StatusType DEF Body
  <2>4. log' \in Seq(Entry) /\ Len(log') \in Events /\ LogSays'
    BY <2>1, <2>3, Published DEF Kind
  <2>5. job' = [job EXCEPT ![j].due = FALSE] /\ answers' = answers /\ UNCHANGED queueing
    BY <1>3 DEF Announce
  <2>6. \A i \in Job : job'[i].at = job[i].at /\ job'[i].ws = job[i].ws
    BY <1>0, <2>5 DEF JobState
  <2>7. job' \in [Job -> JobState]
    BY <1>0, <2>5 DEF JobState
  <2> QED BY <1>0, <2>4, <2>5, <2>6, <2>7, QueueSide
<1>4. CASE Dispatch(j)
  <2>1. LogSays'
    BY <1>4 DEF Dispatch, LogSays
  <2> QED BY <1>0, <1>4, <1>m, <2>1, QueueSide DEF Dispatch, Phases
<1>5. CASE Start(j)
  <2>1. log' \in Seq(Entry) /\ Len(log') \in Events /\ LogSays'
    BY <1>5, Published DEF Start, Kind, Body
  <2> QED BY <1>0, <1>5, <1>m, <2>1, QueueSide DEF Start, Phases
<1>6. CASE Step(j)
  <2>1. log' \in Seq(Entry) /\ Len(log') \in Events /\ LogSays'
    BY <1>6, Published DEF Step, Kind, Body
  <2>2. job' = job /\ answers' = answers /\ UNCHANGED queueing
    BY <1>6 DEF Step
  <2> QED BY <1>0, <2>1, <2>2, QueueSide
<1>7. CASE Settle(j)
  <2>1. LogSays'
    BY <1>7 DEF Settle, LogSays
  <2> QED BY <1>0, <1>7, <1>m, <2>1, QueueSide DEF Settle, Phases
<1>8. CASE End(j)
  <2>1. log' \in Seq(Entry) /\ Len(log') \in Events /\ LogSays'
    BY <1>8, Published DEF End, Kind, Body
  <2> QED BY <1>0, <1>8, <1>m, <2>1, QueueSide DEF End, Phases
<1>9. CASE CancelQueued(j)
  <2>1. log' \in Seq(Entry) /\ Len(log') \in Events /\ LogSays'
    BY <1>9, Published DEF CancelQueued, Kind, Body
  <2> QED BY <1>0, <1>9, <1>m, <2>1, QueueSide DEF CancelQueued, Phases
<1> QED BY <1>1, <1>2, <1>3, <1>4, <1>5, <1>6, <1>7, <1>8, <1>9 DEF Announced

-----------------------------------------------------------------------------
(* The handler of /ws *)

Sock == [at : {"none", "asked", "ready", "live", "closing", "dropped"},
         asks : Place, ws : Place, from : Nat, upto : Events, code : Code]

LEMMA SockType == TypeOK => sock \in [Slot -> Sock]
  BY DEF TypeOK, Sock

LEMMA StoreType == TypeOK => store \in Store
  BY DEF TypeOK, Store, Runs

LEMMA LandingType == TypeOK => Landing \in Place
<1> SUFFICES ASSUME TypeOK PROVE Landing \in Place
  OBVIOUS
<1>1. CASE home \in member
  BY <1>1 DEF Landing, TypeOK
<1>2. CASE home \notin member /\ member = {}
  BY <1>2 DEF Landing, Place
<1>3. CASE home \notin member /\ member # {}
  <2>1. (CHOOSE w \in member : TRUE) \in member
    BY <1>3
  <2> QED BY <1>3, <2>1 DEF Landing, TypeOK, Place
<1> QED BY <1>1, <1>2, <1>3

(* The handler writes its socket's record only, never what it asks. *)
LEMMA Served1 ==
    ASSUME IInv, NEW s \in Slot, NEW to \in Sock, Serve(s, to), breaks' \in 0..Breaks,
           to.asks = sock[s].asks,
           to.at \in Served /\ to.asks # None => to.ws = to.asks
    PROVE  IInv'
<1> USE DEF IInv, Serve, handling, tab
<1>0. sock \in [Slot -> Sock] /\ sock' = [sock EXCEPT ![s] = to]
  BY SockType
<1>1. sock' \in [Slot -> Sock] /\ \A r \in Slot : sock'[r].asks = sock[r].asks
  BY <1>0
<1>2. TypeOK'
  BY <1>1 DEF TypeOK, Sock
<1>3. LogSays' /\ Unborn' /\ Ours'
  BY DEF LogSays, Unborn, Ours
<1>4. Asked'
  <2>1. socket # None => socket \in Slot
    BY DEF TypeOK
  <2> QED BY <1>0, <1>1, <2>1 DEF Asked
<1> QED BY <1>2, <1>3, <1>4

LEMMA HandlerSteps ==
    ASSUME IInv, NEW s \in Slot, Handshake(s) \/ HandshakeFails(s) \/ Break(s)
    PROVE  IInv'
<1>0. sock[s] \in Sock /\ breaks \in 0..Breaks /\ Len(log) \in Events
  BY SockType DEF IInv, TypeOK
<1>1. CASE Handshake(s)
  <2> DEFINE w == IF sock[s].asks # None THEN sock[s].asks ELSE Landing
  <2>1. w \in Place
    BY <1>0, LandingType DEF Sock, IInv
  <2>2. sock[s].at = "asked" /\ breaks' = breaks
    BY <1>1 DEF Handshake
  <2>3. CASE \E code \in {UNAUTHORISED, FORBIDDEN} :
               Serve(s, [sock[s] EXCEPT !.at = "closing", !.code = code])
    <3>1. PICK code \in {UNAUTHORISED, FORBIDDEN} :
            Serve(s, [sock[s] EXCEPT !.at = "closing", !.code = code])
      BY <2>3
    <3> DEFINE to == [sock[s] EXCEPT !.at = "closing", !.code = code]
    <3>2. to \in Sock /\ to.asks = sock[s].asks /\ to.at = "closing"
      BY <1>0 DEF Sock, Code
    <3> HIDE DEF to
    <3> QED BY <1>0, <2>2, <3>1, <3>2, Served1 DEF Served, to
  <2>4. CASE Serve(s, [sock[s] EXCEPT !.at = "ready", !.ws = w, !.upto = Len(log),
                                      !.from = IF Oldest > @ THEN Oldest ELSE @])
    <3> DEFINE since == IF Oldest > sock[s].from THEN Oldest ELSE sock[s].from
               to == [sock[s] EXCEPT !.at = "ready", !.ws = w, !.upto = Len(log),
                                     !.from = since]
    <3>1. since \in Nat
      BY <1>0 DEF Oldest, Sock, Events
    <3> HIDE DEF since
    <3>2. /\ to \in Sock /\ to.asks = sock[s].asks
          /\ to.asks # None => to.ws = to.asks
      BY <1>0, <2>1, <3>1 DEF Sock
    <3>3. Serve(s, to)
      BY <2>4 DEF since
    <3> HIDE DEF to
    <3> QED BY <1>0, <2>2, <3>2, <3>3, Served1
  <2> QED BY <1>1, <2>3, <2>4 DEF Handshake
<1>2. CASE HandshakeFails(s)
  <2> DEFINE to == [sock[s] EXCEPT !.at = "closing", !.code = UNAUTHORISED]
  <2>1. to \in Sock /\ to.asks = sock[s].asks /\ to.at = "closing"
    BY <1>0 DEF Sock, Code
  <2>2. Serve(s, to) /\ breaks' \in 0..Breaks
    BY <1>0, <1>2 DEF HandshakeFails
  <2> HIDE DEF to
  <2> QED BY <2>1, <2>2, Served1 DEF Served
<1>3. CASE Break(s)
  <2> DEFINE to == [sock[s] EXCEPT !.at = "closing"]
  <2>1. to \in Sock /\ to.asks = sock[s].asks /\ to.at = "closing"
    BY <1>0 DEF Sock
  <2>2. Serve(s, to) /\ breaks' \in 0..Breaks
    BY <1>0, <1>3 DEF Break
  <2> HIDE DEF to
  <2> QED BY <2>1, <2>2, Served1 DEF Served
<1> QED BY <1>1, <1>2, <1>3

(* Its sockets in a workspace close with a membership. *)
LEMMA MembershipSteps == ASSUME IInv, NEW w \in Workspace, CloseMembership(w)
                         PROVE  IInv'
<1> USE DEF IInv, CloseMembership, tab
<1>0. sock \in [Slot -> Sock]
  BY SockType
<1>1. /\ sock' \in [Slot -> Sock]
      /\ \A s \in Slot : /\ sock'[s].asks = sock[s].asks /\ sock'[s].ws = sock[s].ws
                         /\ sock'[s].at \in {sock[s].at, "closing"}
  <2>1. PICK late \in SUBSET Slot :
          sock' = [s \in Slot |->
                  IF s \in late \/ (sock[s].at \in Served /\ sock[s].ws = w)
                  THEN [sock[s] EXCEPT !.at = IF s \in late THEN @ ELSE "closing",
                                       !.code = FORBIDDEN]
                  ELSE sock[s]]
    OBVIOUS
  <2>2. ASSUME NEW s \in Slot
        PROVE  /\ sock'[s] \in Sock
               /\ sock'[s].asks = sock[s].asks /\ sock'[s].ws = sock[s].ws
               /\ sock'[s].at \in {sock[s].at, "closing"}
    <3>0. sock[s] \in Sock /\ FORBIDDEN \in Code
      BY <1>0 DEF Code
    <3>1. CASE sock'[s] = sock[s]
      BY <3>0, <3>1
    <3>2. CASE sock'[s] = [sock[s] EXCEPT !.at = "closing", !.code = FORBIDDEN]
      <4> HIDE DEF IInv, CloseMembership
      <4> QED BY <3>0, <3>2 DEF Sock
    <3>3. CASE s \in late
      <4>1. sock'[s] = [sock[s] EXCEPT !.at = sock[s].at, !.code = FORBIDDEN]
        BY <2>1, <3>3
      <4> HIDE DEF IInv, CloseMembership
      <4> QED BY <3>0, <4>1 DEF Sock
    <3>4. CASE s \notin late /\ ~(sock[s].at \in Served /\ sock[s].ws = w)
      BY <2>1, <3>1, <3>4
    <3>5. CASE s \notin late /\ sock[s].at \in Served /\ sock[s].ws = w
      BY <2>1, <3>2, <3>5
    <3> QED BY <3>3, <3>4, <3>5
  <2>3. sock' = [s \in Slot |-> sock'[s]]
    BY <2>1
  <2> QED BY <2>2, <2>3
<1>2. member' \in SUBSET Workspace /\ home' \in Place /\ gestures' \in 0..Gestures
  <2>1. member' \in SUBSET Workspace
    BY DEF TypeOK
  <2>2. member' # {} => (CHOOSE v \in member' : TRUE) \in member'
    OBVIOUS
  <2>3. home' \in Place
    <3>1. home' = home \/ home' = None \/ home' \in member'
      BY <2>2
    <3> QED BY <2>1, <3>1 DEF TypeOK, Place
  <2>4. gestures \in 0..Gestures /\ gestures < Gestures /\ gestures' = gestures + 1
    BY DEF TypeOK
  <2> HIDE DEF IInv, CloseMembership
  <2> QED BY <2>1, <2>3, <2>4
<1>3. TypeOK'
  BY <1>1, <1>2 DEF TypeOK, Sock
<1>4. LogSays' /\ Unborn' /\ Ours'
  BY DEF LogSays, Unborn, Ours
<1>5. Asked'
  <2>1. socket # None => socket \in Slot
    BY DEF TypeOK
  <2> QED BY <1>1, <2>1 DEF Asked, Served
<1> QED BY <1>3, <1>4, <1>5

-----------------------------------------------------------------------------
(* The tab's sockets *)

(* The tab's own steps leave the queue, the log and the memberships alone. *)
LEMMA TabSide ==
    ASSUME IInv, UNCHANGED <<job, log, member, breaks>>,
           answers' \in SUBSET Job, home' \in Place, session' \in BOOLEAN,
           sock' \in [Slot -> Sock], active' \in Place, socket' \in Slot \cup {None},
           timer' \in BOOLEAN, refused' \in SUBSET {UNAUTHORISED, FORBIDDEN},
           store' \in Store, asking' \in BOOLEAN, out' \in BOOLEAN,
           gestures' \in 0..Gestures, Asked', Ours'
    PROVE  IInv'
<1>1. TypeOK'
  BY DEF IInv, TypeOK, Sock, Store, Runs
<1>2. LogSays' /\ Unborn'
  BY DEF IInv, LogSays, Unborn
<1> QED BY <1>1, <1>2 DEF IInv

(* What is on the tab's side, by its types. *)
LEMMA TabTypes ==
    TypeOK => /\ answers \in SUBSET Job /\ home \in Place /\ session \in BOOLEAN
              /\ sock \in [Slot -> Sock] /\ active \in Place /\ socket \in Slot \cup {None}
              /\ timer \in BOOLEAN /\ refused \in SUBSET {UNAUTHORISED, FORBIDDEN}
              /\ store \in Store /\ asking \in BOOLEAN /\ out \in BOOLEAN
              /\ gestures \in 0..Gestures
  BY DEF TypeOK, Sock, Store, Runs

LEMMA BlankType == Blank \in Store /\ \A j \in Job : Blank.runs[j] = None
  BY DEF Blank, Store, Runs, Events

(* A store that is blank says nothing. *)
LEMMA OursBlank == ASSUME store' = Blank PROVE Ours'
  BY BlankType DEF Ours

(* A number of an event is a natural number. *)
LEMMA SeqType == ASSUME TypeOK PROVE store.seq \in Nat
  BY DEF TypeOK, Events

LEMMA Dropped == ASSUME TypeOK
                 PROVE  /\ Drop \in [Slot -> Sock]
                        /\ \A r \in Slot : /\ Drop[r].asks = sock[r].asks
                                           /\ Drop[r].ws = sock[r].ws
                                           /\ Drop[r].upto = sock[r].upto
                                           /\ Drop[r].at \in {sock[r].at, "dropped"}
<1>0. sock \in [Slot -> Sock] /\ socket \in Slot \cup {None}
  BY TabTypes
<1>1. CASE socket = None
  BY <1>0, <1>1 DEF Drop
<1>2. CASE socket # None
  <2>1. Drop = [sock EXCEPT ![socket].at = "dropped"]
    BY <1>2 DEF Drop
  <2> QED BY <1>0, <1>2, <2>1 DEF Sock
<1> QED BY <1>1, <1>2

(* A socket that is opened asks for what it is opened for. *)
LEMMA Opened ==
    ASSUME TypeOK, NEW w \in Place, NEW since \in Nat, Open(Drop, w, since)
    PROVE  /\ sock' \in [Slot -> Sock] /\ socket' \in Slot /\ refused' = {}
           /\ sock'[socket'].asks = w /\ sock'[socket'].at = "asked"
           /\ sock'[socket'].upto = 0 /\ sock'[socket'].from = since + 1
           /\ \A r \in Slot : r # socket' => sock'[r] = Drop[r]
<1> DEFINE new == [Shut EXCEPT !.at = "asked", !.asks = w, !.from = since + 1]
<1>1. PICK n \in Slot : sock' = [Drop EXCEPT ![n] = new] /\ socket' = n /\ refused' = {}
  BY DEF Open
<1>2. new \in Sock /\ new.asks = w /\ new.at = "asked" /\ new.upto = 0 /\ new.from = since + 1
  <2>1. Shut \in Sock /\ Shut.upto = 0
    BY DEF Shut, Sock, Place, Events, Code
  <2>2. since + 1 \in Nat
    OBVIOUS
  <2> DEFINE next == since + 1
  <2>3. new = [Shut EXCEPT !.at = "asked", !.asks = w, !.from = next]
    OBVIOUS
  <2> HIDE DEF next, new
  <2> QED BY <2>1, <2>2, <2>3 DEF Sock, next
<1> HIDE DEF new
<1> QED BY <1>1, <1>2, Dropped

LEMMA OpenedAsks ==
    ASSUME TypeOK, Asked, NEW w \in Place, NEW since \in Nat, Open(Drop, w, since), active' = w
    PROVE  Asked'
  BY Opened, Dropped DEF Asked, Served

(* Connecting opens one, unless there is one already. *)
LEMMA Connected ==
    ASSUME TypeOK, Asked, NEW w \in Place, Connect(w), active' = w
    PROVE  /\ sock' \in [Slot -> Sock] /\ socket' \in Slot
           /\ refused' \in SUBSET {UNAUTHORISED, FORBIDDEN} /\ Asked'
<1>1. CASE socket # None /\ sock[socket].asks = w
  <2>1. UNCHANGED <<sock, socket, refused>>
    BY <1>1 DEF Connect
  <2> QED BY <1>1, <2>1, TabTypes DEF Asked
<1>2. CASE ~(socket # None /\ sock[socket].asks = w)
  <2>1. Open(Drop, w, store.seq)
    BY <1>2 DEF Connect
  <2> QED BY <2>1, SeqType, Opened, OpenedAsks
<1> QED BY <1>1, <1>2

(* What a socket the tab has in sight feeds the store is of the tab's      *)
(* workspace.                                                              *)
LEMMA FedKeeps ==
    ASSUME IInv, NEW s \in Slot, sock[s].at \in Served, NEW st, NEW missed \in SUBSET Job,
           store' = Fed(s, st, missed), active' = active, job' = job,
           \A given : Within(store, given) /\ {j \in Job : job[j].ws = sock[s].ws} \subseteq given
                        => st \in Store /\ Within(st, given) /\ st.stray = store.stray
    PROVE  store' \in Store /\ Ours'
<1>1. {j \in Job : job[j].ws = sock[s].ws} \subseteq Job /\ Within(store, Job)
  BY DEF Within
<1>2. st \in Store /\ st.stray = store.stray /\ store.stray \in BOOLEAN
  BY <1>1 DEF IInv, TypeOK
<1>3. /\ store' \in Store /\ store'.runs = st.runs
      /\ store'.stray = (store.stray \/ s # socket \/ sock[s].asks = None)
  BY <1>2 DEF Fed, Store
<1>4. ASSUME ~store'.stray PROVE active # None /\ Within(st, {j \in Job : job[j].ws = active})
  <2>1. ~store.stray /\ s = socket /\ sock[s].asks # None /\ socket # None
    BY <1>3, <1>4 DEF Slot
  <2>2. sock[s].ws = active /\ active # None
    BY <2>1 DEF IInv, Asked
  <2>3. Within(store, {j \in Job : job[j].ws = active})
    BY <2>1 DEF IInv, Ours, Within
  <2> QED BY <2>2, <2>3
<1>5. Ours'
  BY <1>3, <1>4 DEF Ours, Within
<1> QED BY <1>3, <1>5

LEMMA ReadySteps == ASSUME IInv, NEW s \in Slot, Ready(s) PROVE IInv'
<1> DEFINE events == {i \in Visible(sock[s].ws) : i \in sock[s].from..sock[s].upto}
           jobs == Snapshot(sock[s].ws)
           st == AdoptJobs(Replay(store, events), jobs)
<1>1. /\ sock[s].at = "ready" /\ store' = Fed(s, st, Missed(s, events))
      /\ sock' = [sock EXCEPT ![s].at = "live"]
      /\ UNCHANGED <<waiting, account, active, socket, timer, refused, asking, out, gestures>>
  BY DEF Ready
<1>2. ASSUME NEW given, Within(store, given),
             {j \in Job : job[j].ws = sock[s].ws} \subseteq given
      PROVE  st \in Store /\ Within(st, given) /\ st.stray = store.stray
  <2>1. events \subseteq 1..Len(log)
    BY DEF Visible
  <2>2. \A i \in events : log[i].job \in given
    <3>1. \A i \in 1..Len(log) : log[i] \in Entry
      BY ElementOfSeq DEF IInv, TypeOK, Entry
    <3> QED BY <1>2, <2>1, <3>1 DEF Visible, Entry
  <2>3. /\ Replay(store, events) \in Store /\ Within(Replay(store, events), given)
        /\ Replay(store, events).stray = store.stray
    <3> HIDE DEF events
    <3> QED BY <1>2, <2>1, <2>2, ReplayKeeps, StoreType DEF IInv
  <2>4. /\ \A j \in Job : jobs[j] \in Body \cup {"none"}
        /\ \A j \in Job : jobs[j] # "none" => j \in given
    BY <1>2, StatusType DEF IInv, Newest, Snapshot
  <2> HIDE DEF events, jobs
  <2> QED BY <2>3, <2>4, AdoptKeeps DEF IInv
<1> DEFINE missed == Missed(s, events)
<1>t. missed \in SUBSET Job
  BY DEF Missed
<1> HIDE DEF st, missed
<1>3. store' \in Store /\ Ours'
  <2>1. store' = Fed(s, st, missed)
    BY <1>1 DEF missed
  <2> QED BY <1>1, <1>2, <1>t, <2>1, FedKeeps DEF Served, waiting
<1>4. sock' \in [Slot -> Sock] /\ Asked'
  <2>1. sock \in [Slot -> Sock] /\ (socket # None => socket \in Slot)
    BY TabTypes DEF IInv
  <2> QED BY <1>1, <2>1 DEF IInv, Asked, Served, Sock
<1> QED BY <1>1, <1>3, <1>4, TabTypes, TabSide DEF IInv, waiting, account

LEMMA TakeSteps == ASSUME IInv, NEW s \in Slot, Take(s) PROVE IInv'
<1> DEFINE missed(i) == {j \in store.missed : Words(j, {i}) = {}}
<1>1. PICK i \in Visible(sock[s].ws) : /\ store' = Fed(s, Apply(store, i), missed(i))
                                       /\ sock' = [sock EXCEPT ![s].upto = i]
  BY DEF Take
<1>2. /\ sock[s].at = "live"
      /\ UNCHANGED <<waiting, account, active, socket, timer, refused, asking, out, gestures>>
  BY DEF Take
<1>3. i \in 1..Len(log) /\ i \in Events /\ log[i].job \in Job /\ job[log[i].job].ws = sock[s].ws
  <2>1. i \in 1..Len(log) /\ log \in Seq(Entry) /\ Len(log) \in Events
    BY DEF IInv, TypeOK, Entry, Visible
  <2>2. log[i] \in Entry
    BY <2>1, ElementOfSeq
  <2> QED BY <2>1, <2>2 DEF Entry, Events, Visible
<1>4. ASSUME NEW given, Within(store, given),
             {j \in Job : job[j].ws = sock[s].ws} \subseteq given
      PROVE  /\ Apply(store, i) \in Store /\ Within(Apply(store, i), given)
             /\ Apply(store, i).stray = store.stray
  BY <1>3, <1>4, ApplyKeeps, StoreType DEF IInv
<1>5. store' \in Store /\ Ours'
  <2>1. missed(i) \in SUBSET Job
    BY StoreType DEF IInv, Store
  <2> HIDE DEF missed
  <2> QED BY <1>1, <1>2, <1>4, <2>1, FedKeeps DEF Served, waiting
<1>6. sock' \in [Slot -> Sock] /\ Asked'
  <2>1. sock \in [Slot -> Sock] /\ (socket # None => socket \in Slot)
    BY TabTypes DEF IInv
  <2> QED BY <1>1, <1>2, <1>3, <2>1 DEF IInv, Asked, Served, Sock
<1> QED BY <1>2, <1>5, <1>6, TabTypes, TabSide DEF IInv, waiting, account

LEMMA CloseSteps == ASSUME IInv, NEW s \in Slot, Close(s) PROVE IInv'
<1> USE DEF IInv
<1>1. /\ sock' = [sock EXCEPT ![s] = Shut]
      /\ UNCHANGED <<waiting, account, active, store, asking, out, gestures>>
  BY DEF Close
<1>2. /\ socket' \in {socket, None} /\ (socket = s => socket' = None)
      /\ timer' \in {timer, TRUE}
      /\ refused' \in {refused, refused \cup {sock[s].code}} \cup {refused \cup {}}
      /\ sock[s].code = 0 => refused' = refused
  <2>1. CASE sock[s].code = 0
    BY <2>1 DEF Close
  <2>2. CASE sock[s].code # 0
    BY <2>2 DEF Close
  <2> QED BY <2>1, <2>2
<1>3. sock \in [Slot -> Sock] /\ Shut \in Sock
  BY TabTypes DEF Shut, Sock, Place, Events, Code
<1>4. sock' \in [Slot -> Sock] /\ refused' \in SUBSET {UNAUTHORISED, FORBIDDEN}
  <2>1. sock[s].code \in Code
    BY <1>3 DEF Sock
  <2> QED BY <1>1, <1>2, <1>3, <2>1, TabTypes DEF Code
<1>5. Asked'
  <2>1. socket # None => socket \in Slot
    BY TabTypes
  <2> QED BY <1>1, <1>2, <1>3, <2>1 DEF Asked, Shut, Served
<1>6. Ours'
  BY <1>1, OursKept DEF waiting
<1> QED BY <1>1, <1>2, <1>4, <1>5, <1>6, TabTypes, TabSide DEF waiting, account

LEMMA ReconnectSteps == ASSUME IInv, Reconnect PROVE IInv'
<1> USE DEF IInv
<1>1. /\ timer' = FALSE /\ Connect(active)
      /\ UNCHANGED <<waiting, account, active, store, asking, out, gestures>>
  BY DEF Reconnect
<1>2. Ours'
  BY <1>1, OursKept DEF waiting
<1> QED BY <1>1, <1>2, Connected, TabTypes, TabSide DEF waiting, account

LEMMA AnswerSteps == ASSUME IInv, NEW j \in Job, Answer(j) PROVE IInv'
<1> USE DEF IInv
<1>1. /\ store' = SetCurrentJob(store, j) /\ answers' = answers \ {j}
      /\ UNCHANGED <<job, log, breaks, account, sock, active, socket, timer, refused,
                     asking, out, gestures>>
  BY DEF Answer
<1>2. store \in Store /\ RunOf(store.runs, j) \in Run
  BY StoreType, RunOfType DEF Store
<1>3. store' \in Store /\ store'.stray = store.stray
      /\ store'.runs = [store.runs EXCEPT ![j] = RunOf(store.runs, j)]
  BY <1>1, <1>2 DEF SetCurrentJob, Store, Runs
<1>4. Ours'
  BY <1>1, <1>2, <1>3 DEF Ours, RunOf, EmptyRun, Store, Runs
<1>5. Asked'
  BY <1>1 DEF Asked
<1> QED BY <1>1, <1>3, <1>4, <1>5, TabTypes, TabSide DEF account

-----------------------------------------------------------------------------
(* The tab's moves *)

(* Forgetting leaves no socket and nothing on screen. *)
LEMMA Forgotten ==
    ASSUME IInv, Forget
    PROVE  /\ sock' \in [Slot -> Sock] /\ socket' = None /\ timer' = FALSE
           /\ refused' = {} /\ store' \in Store /\ Asked' /\ Ours'
  BY Dropped, BlankType, OursBlank DEF IInv, Forget, Asked, Served

(* Resetting leaves a new socket and nothing on screen. *)
LEMMA ResetAnew ==
    ASSUME IInv, NEW w \in Place, Reset(w), active' = w
    PROVE  /\ sock' \in [Slot -> Sock] /\ socket' \in Slot /\ timer' = FALSE
           /\ refused' = {} /\ store' \in Store /\ Asked' /\ Ours'
<1>1. Open(Drop, w, 0) /\ timer' = FALSE /\ store' = Blank
  BY DEF Reset
<1>2. 0 \in Nat
  OBVIOUS
<1> QED BY <1>1, <1>2, Opened, OpenedAsks, BlankType, OursBlank DEF IInv

LEMMA GestureType == ASSUME TypeOK, Gesture PROVE gestures' \in 0..Gestures
  BY DEF TypeOK, Gesture

LEMMA SwitchSteps == ASSUME IInv, NEW w \in Workspace, Switch(w) PROVE IInv'
<1> USE DEF IInv
<1>1. /\ Reset(w) /\ active' = w /\ home' = w /\ Gesture
      /\ UNCHANGED <<waiting, member, session, asking, out>>
  BY DEF Switch
<1>2. w \in Place
  BY DEF Place
<1> QED BY <1>1, <1>2, ResetAnew, GestureType, TabTypes, TabSide DEF waiting

LEMMA LoginSteps == ASSUME IInv, Login PROVE IInv'
<1> USE DEF IInv
<1>1. /\ Reset(Landing) /\ active' = Landing /\ session' = TRUE
      /\ UNCHANGED <<waiting, member, home, asking, out, gestures>>
  BY DEF Login
<1> QED BY <1>1, LandingType, ResetAnew, TabTypes, TabSide DEF waiting

LEMMA LeaveSteps == ASSUME IInv, LeaveLost \/ LogoutSettled PROVE IInv'
<1> USE DEF IInv
<1>1. None \in Place
  BY DEF Place
<1>2. CASE LeaveLost
  <2>1. /\ active' = None /\ asking' = TRUE /\ Forget
        /\ UNCHANGED <<waiting, account, out, gestures>>
    BY <1>2 DEF LeaveLost
  <2> QED BY <1>1, <2>1, Forgotten, TabTypes, TabSide DEF waiting, account
<1>3. CASE LogoutSettled
  <2>1. /\ out' = FALSE /\ session' = FALSE /\ active' = None /\ Forget
        /\ UNCHANGED <<waiting, member, home, asking, gestures>>
    BY <1>3 DEF LogoutSettled
  <2> QED BY <1>1, <2>1, Forgotten, TabTypes, TabSide DEF waiting
<1> QED BY <1>2, <1>3

LEMMA LogoutSteps == ASSUME IInv, Logout PROVE IInv'
<1> USE DEF IInv
<1>1. /\ out' = TRUE /\ Gesture /\ sock' = Drop /\ socket' = None /\ timer' = FALSE
      /\ UNCHANGED <<waiting, account, active, refused, store, asking>>
  BY DEF Logout
<1>2. Asked'
  BY <1>1, Dropped DEF Asked, Served
<1>3. Ours'
  BY <1>1, OursKept DEF waiting
<1> QED BY <1>1, <1>2, <1>3, Dropped, GestureType, TabTypes, TabSide DEF waiting, account

(* A tab that was nowhere has nothing on screen when `me` says where it is. *)
LEMMA MeSteps == ASSUME IInv, Me PROVE IInv'
<1> USE DEF IInv
<1>1. /\ asking' = FALSE /\ UNCHANGED <<waiting, account, store, out, gestures>>
      /\ active' \in {active, Landing} /\ (active # None => active' = active)
  BY DEF Me
<1>2. active' \in Place
  BY <1>1, LandingType, TabTypes
<1>3. Ours'
  BY <1>1 DEF Ours, waiting
<1>4. CASE active' # None
  <2>1. Connect(active') /\ timer' = (timer /\ (socket = None \/ socket' = socket))
    BY <1>4 DEF Me
  <2>2. timer' \in BOOLEAN
    BY <2>1
  <2>3. /\ sock' \in [Slot -> Sock] /\ socket' \in Slot
        /\ refused' \in SUBSET {UNAUTHORISED, FORBIDDEN} /\ Asked'
    BY <1>2, <2>1, Connected
  <2> QED BY <1>1, <1>2, <1>3, <2>2, <2>3, TabTypes, TabSide DEF waiting, account
<1>5. CASE active' = None
  <2>1. UNCHANGED <<sock, socket, refused, timer>> /\ active' = active
    BY <1>1, <1>5 DEF Me
  <2>2. Asked'
    BY <2>1 DEF Asked
  <2> QED BY <1>1, <1>2, <1>3, <2>1, <2>2, TabTypes, TabSide DEF waiting, account
<1> QED BY <1>4, <1>5

-----------------------------------------------------------------------------
LEMMA Start0 == Init => IInv
<1> SUFFICES ASSUME Init PROVE IInv
  OBVIOUS
<1>1. log \in Seq(Entry) /\ Len(log) = 0
  BY DEF Init
<1>2. job \in [Job -> JobState] /\ sock \in [Slot -> Sock] /\ store \in Store
  BY BlankType DEF Init, JobState, Phases, Place, Sock, Shut, Events, Code
<1>3. TypeOK
  <2>1. /\ member \in SUBSET Workspace /\ home \in Place /\ session \in BOOLEAN
        /\ active \in Place /\ socket \in Slot \cup {None} /\ timer \in BOOLEAN
        /\ refused \in SUBSET {UNAUTHORISED, FORBIDDEN} /\ answers \in SUBSET Job
        /\ asking \in BOOLEAN /\ out \in BOOLEAN
    BY DEF Init, Place
  <2>2. gestures \in 0..Gestures /\ breaks \in 0..Breaks /\ Len(log) \in Events
    BY <1>1 DEF Init, Events
  <2> QED BY <1>1, <1>2, <2>1, <2>2 DEF TypeOK, Entry, JobState, Sock, Store, Runs
<1>4. LogSays /\ Unborn /\ Asked
  BY <1>1 DEF Init, LogSays, Unborn, Asked, Shut, Served
<1>5. Ours
  BY BlankType DEF Init, Ours
<1> QED BY <1>3, <1>4, <1>5 DEF IInv

LEMMA Keeps == IInv /\ [Next]_vars => IInv'
<1> SUFFICES ASSUME IInv, [Next]_vars PROVE IInv'
  OBVIOUS
<1>1. ASSUME NEW j \in Job, Announced(j) \/ Answer(j) PROVE IInv'
  BY <1>1, QueueSteps, AnswerSteps
<1>2. CASE Queueing
  BY <1>2, QueueSteps DEF Queueing
<1>3. ASSUME NEW s \in Slot, Serving(s) \/ HandshakeFails(s) \/ Break(s) PROVE IInv'
  BY <1>3, HandlerSteps, ReadySteps, TakeSteps, CloseSteps DEF Serving
<1>4. CASE Moving
  BY <1>4, ReconnectSteps, LeaveSteps, MeSteps DEF Moving
<1>5. ASSUME NEW w \in Workspace, Switch(w) \/ CloseMembership(w) PROVE IInv'
  BY <1>5, SwitchSteps, MembershipSteps
<1>6. CASE Logout \/ Login
  BY <1>6, LogoutSteps, LoginSteps
<1>7. CASE UNCHANGED vars
  BY <1>7 DEF IInv, TypeOK, LogSays, Unborn, Asked, Ours, vars, server, tab
<1> QED BY <1>1, <1>2, <1>3, <1>4, <1>5, <1>6, <1>7 DEF Next

(* The types of the tab, its sockets and the queue it follows, and what     *)
(* keeps its store its own (RunStore, socket and handler of /ws).          *)
THEOREM Invariant == Spec => []IInv
<1>1. Init => IInv
  BY Start0
<1>2. IInv /\ [Next]_vars => IInv'
  BY Keeps
<1> QED BY <1>1, <1>2, PTL DEF Spec

(* Every variable keeps its type. *)
THEOREM TypeCorrect == Spec => []TypeOK
<1>1. IInv => TypeOK
  BY DEF IInv
<1> QED BY <1>1, Invariant, PTL

(* However the tab moves between workspaces and accounts, and whatever is   *)
(* heard late, its store holds runs of its own workspace only, but for one *)
(* that a socket it had lost sight of has fed (RunStore.reset).            *)
THEOREM StoreIsItsOwn == Spec => []NothingForeign
<1>1. IInv => NothingForeign
  BY DEF IInv, Ours, NothingForeign, Known
<1> QED BY <1>1, Invariant, PTL

-----------------------------------------------------------------------------
(* What the store lets go of *)

(* However many runs are to go, there are as many that have ended or are    *)
(* unknown, the oldest of them, or all of these go.                        *)
LEMMA LeavesExist ==
    ASSUME NEW runs \in Runs, NEW n \in Nat
    PROVE  Leaves(runs, n) \subseteq Finished(runs) \cup Unknown(runs)
<1> DEFINE older(i, j) ==
             \/ i \in Finished(runs) /\ j \in Unknown(runs)
             \/ i < j /\ ({i, j} \subseteq Finished(runs) \/ {i, j} \subseteq Unknown(runs))
           all == Finished(runs) \cup Unknown(runs)
           size == IF n < Cardinality(all) THEN n ELSE Cardinality(all)
           Front(gone, k) == /\ Cardinality(gone) = k
                             /\ \A i \in gone, j \in all \ gone : older(i, j)
           Lacks == {k \in 0..Cardinality(all) : ~ \E gone \in SUBSET all : Front(gone, k)}
<1>1. all \subseteq Nat /\ IsFiniteSet(all) /\ Cardinality(all) \in Nat
  <2>1. all \subseteq Job /\ Job \subseteq Nat
    BY DEF Finished, Unknown, Known, Job
  <2>2. IsFiniteSet(Job)
    BY FS_Interval DEF Job
  <2> HIDE DEF all
  <2> QED BY <2>1, <2>2, FS_Subset, FS_CardinalityType
<1>2. ASSUME Lacks # {} PROVE FALSE
  <2>1. PICK k \in Lacks : \A m \in Lacks : k <= m
    <3>1. Lacks \in SUBSET Nat
      OBVIOUS
    <3> HIDE DEF Lacks
    <3> QED BY <1>2, <3>1, Least
  <2>2. k # 0
    <3>1. Front({}, 0)
      BY FS_EmptySet
    <3>2. 0 \notin Lacks
      BY <3>1
    <3> QED BY <2>1, <3>2
  <2>3. PICK gone \in SUBSET all : Front(gone, k - 1)
    <3>1. k \in 0..Cardinality(all) /\ \A m \in Lacks : k <= m
      BY <2>1
    <3>2. k - 1 \in 0..Cardinality(all) /\ k - 1 \notin Lacks
      <4> HIDE DEF all, Lacks
      <4> QED BY <1>1, <2>2, <3>1
    <3> QED BY <3>2
  <2> DEFINE rest == all \ gone
  <2>4. rest # {} /\ rest \in SUBSET Nat /\ IsFiniteSet(gone)
    <3>1. gone # all
      <4>1. Cardinality(gone) = k - 1 /\ k \in 0..Cardinality(all)
        BY <2>1, <2>3
      <4> HIDE DEF all
      <4> QED BY <1>1, <4>1
    <3>2. IsFiniteSet(gone)
      <4> HIDE DEF all
      <4> QED BY <1>1, FS_Subset
    <3> QED BY <1>1, <3>1, <3>2
  <2>5. PICK m \in rest : \A j \in rest \ {m} : older(m, j)
    <3>1. CASE rest \cap Finished(runs) # {}
      <4>1. PICK m \in rest \cap Finished(runs) : \A j \in rest \cap Finished(runs) : m <= j
        <5>1. rest \cap Finished(runs) \in SUBSET Nat
          BY <2>4
        <5> HIDE DEF rest
        <5> QED BY <3>1, <5>1, Least
      <4>2. ASSUME NEW j \in rest \ {m} PROVE older(m, j)
        <5>1. CASE j \in Finished(runs)
          <6>1. m <= j /\ m # j /\ m \in Nat /\ j \in Nat
            BY <2>4, <4>1, <4>2, <5>1
          <6>2. m < j
            BY <6>1
          <6> QED BY <4>1, <5>1, <6>2
        <5>2. CASE j \in Unknown(runs)
          BY <4>1, <5>2
        <5> QED BY <4>2, <5>1, <5>2
      <4> QED BY <4>1, <4>2
    <3>2. CASE rest \cap Finished(runs) = {}
      <4>1. PICK m \in rest : \A j \in rest : m <= j
        <5> HIDE DEF rest
        <5> QED BY <2>4, Least
      <4>2. ASSUME NEW j \in rest \ {m} PROVE older(m, j)
        <5>1. m \in Unknown(runs) /\ j \in Unknown(runs)
          BY <3>2, <4>1, <4>2
        <5>2. m <= j /\ m # j /\ m \in Nat /\ j \in Nat
          BY <2>4, <4>1, <4>2
        <5>3. m < j
          BY <5>2
        <5> QED BY <5>1, <5>3
      <4> QED BY <4>1, <4>2
    <3> QED BY <3>1, <3>2
  <2>6. Cardinality(gone \cup {m}) = k
    <3>1. m \notin gone
      OBVIOUS
    <3>2. Cardinality(gone) = k - 1
      BY <2>3
    <3>3. k \in Nat
      BY <1>1, <2>1
    <3> HIDE DEF rest
    <3>4. Cardinality(gone \cup {m}) = Cardinality(gone) + 1
      BY <2>4, <3>1, FS_AddElement
    <3> QED BY <3>2, <3>3, <3>4
  <2>7. Front(gone \cup {m}, k) /\ gone \cup {m} \in SUBSET all
    <3>1. \A i \in gone, j \in rest : older(i, j)
      BY <2>3
    <3> HIDE DEF older
    <3>2. \A i \in gone \cup {m}, j \in all \ (gone \cup {m}) : older(i, j)
      BY <2>5, <3>1
    <3> QED BY <2>5, <2>6, <3>2
  <2> QED BY <2>1, <2>7
<1>3. \E gone \in SUBSET all : Front(gone, size)
  <2>1. size \in 0..Cardinality(all)
    BY <1>1
  <2> HIDE DEF size, Front
  <2> QED BY <1>2, <2>1
<1>4. Leaves(runs, n) = CHOOSE gone \in SUBSET all : Front(gone, size)
  BY DEF Leaves
<1> HIDE DEF Front, size, all
<1>5. Leaves(runs, n) \in SUBSET all
  BY <1>3, <1>4
<1> QED BY <1>5 DEF all

(* A run that waits or runs, and has not been seen to end. *)
Lasting(run) == run # None /\ Live(run.job) /\ ~run.over

(* Pruning forgets no run that waits or runs. *)
LEMMA PruneSpares ==
    ASSUME NEW runs \in Runs, NEW j \in Job, Lasting(runs[j])
    PROVE  PruneRuns(runs)[j] = runs[j]
<1> DEFINE n == Cardinality(Known(runs)) - MaxRuns
<1>1. CASE n <= 0
  BY <1>1 DEF PruneRuns
<1>2. CASE ~(n <= 0)
  <2>1. PruneRuns(runs) = [i \in Job |-> IF i \in Leaves(runs, n) THEN None ELSE runs[i]]
    BY <1>2 DEF PruneRuns
  <2>2. n \in Nat
    <3>1. Known(runs) \subseteq Job /\ IsFiniteSet(Job)
      BY FS_Interval DEF Known, Job
    <3>2. Cardinality(Known(runs)) \in Nat
      BY <3>1, FS_Subset, FS_CardinalityType
    <3> QED BY <1>2, <3>2
  <2> HIDE DEF n
  <2>3. Leaves(runs, n) \subseteq Finished(runs) \cup Unknown(runs)
    BY <2>2, LeavesExist
  <2>4. j \notin Finished(runs) \cup Unknown(runs)
    BY DEF Lasting, Live, Finished, Unknown
  <2> QED BY <2>1, <2>3, <2>4
<1> QED BY <1>1, <1>2

-----------------------------------------------------------------------------
(* What the events and the snapshot say of a job *)

Over(at) == at \in {"ending", "done"}

(* No run the store knows to have ended goes on. *)
OverSays(st) == \A j \in Job : st.runs[j] # None /\ st.runs[j].over => Over(job[j].at)

(* What `st` says of a job is what `runs` said of it, but that it may have  *)
(* let go of one that neither waits nor runs.                              *)
Kept(run, was) == run \in {was, None} /\ (Lasting(was) => run = was)

LEMMA PruneKept == ASSUME NEW runs \in Runs, NEW j \in Job
                   PROVE  Kept(PruneRuns(runs)[j], runs[j])
  BY PruneType, PruneSpares DEF Kept

(* The number of an event, and the run of its job: it is applied but once. *)
LEMMA ApplySees ==
    ASSUME NEW st \in Store, NEW i \in 1..Len(log), TypeOK, LogSays
    PROVE  /\ i <= st.seq => Apply(st, i) = st
           /\ i > st.seq =>
                /\ Apply(st, i).seq = i
                /\ \A j \in Job : Kept(Apply(st, i).runs[j],
                     IF j = log[i].job THEN Reduce(RunOf(st.runs, j), log[i]) ELSE st.runs[j])
<1> DEFINE e == log[i]
           run == Reduce(RunOf(st.runs, e.job), e)
           added == [st.runs EXCEPT ![e.job] = run]
<1>1. e.job \in Job /\ e.kind \in Kind /\ (e.kind # "step" => e.body \in Body)
  <2>1. log[i] \in [job : Job, kind : Kind, body : Body \cup {"none"}]
    BY ElementOfSeq DEF TypeOK
  <2> QED BY <2>1 DEF LogSays
<1>2. st.runs \in Runs /\ run \in Run
  <2>1. st.runs \in Runs
    BY DEF Store
  <2> QED BY <1>1, <2>1, RunOfType, ReduceType
<1>3. added \in Runs /\ \A j \in Job : added[j] = IF j = e.job THEN run ELSE st.runs[j]
  <2> HIDE DEF run, e
  <2> QED BY <1>1, <1>2 DEF Runs
<1>4. CASE i > st.seq
  <2>1. ~(i <= st.seq)
    BY <1>4 DEF Store, Events
  <2> DEFINE now == CASE e.kind \in {"queued", "started"} -> e.job
                      [] e.kind = "ended" /\ st.current = e.job -> None
                      [] OTHER -> st.current
  <2>2. Apply(st, i) = [st EXCEPT !.seq = i, !.current = now, !.runs = PruneRuns(added)]
    BY <2>1 DEF Apply
  <2> HIDE DEF now, added, run, e
  <2>3. Apply(st, i).runs = PruneRuns(added) /\ Apply(st, i).seq = i
    BY <2>2 DEF Store
  <2>4. \A j \in Job : Kept(Apply(st, i).runs[j], IF j = e.job THEN run ELSE st.runs[j])
    BY <1>3, <2>3, PruneKept
  <2> QED BY <1>4, <2>1, <2>3, <2>4 DEF run, e
<1>5. CASE i <= st.seq
  <2>1. Apply(st, i) = st /\ ~(i > st.seq)
    BY <1>5 DEF Apply, Store, Events
  <2> QED BY <2>1
<1> QED BY <1>4, <1>5 DEF Store, Events

(* The jobs of the snapshot are as it says. *)
LEMMA AdoptSees ==
    ASSUME NEW st \in Store, NEW jobs, \A j \in Job : jobs[j] \in Body \cup {"none"}
    PROVE  /\ AdoptJobs(st, jobs).seq = st.seq
           /\ \A j \in Job : Kept(AdoptJobs(st, jobs).runs[j],
                IF jobs[j] = "none" THEN st.runs[j]
                ELSE [job |-> jobs[j], over |-> RunOf(st.runs, j).over \/ jobs[j] = "done"])
<1> DEFINE told == {j \in Job : jobs[j] # "none"}
           live == {j \in told : Live(jobs[j])}
           oldest == CHOOSE j \in live : \A i \in live : j <= i
           adopted == [j \in Job |->
                IF j \in told
                THEN [job |-> jobs[j], over |-> RunOf(st.runs, j).over \/ jobs[j] = "done"]
                ELSE st.runs[j]]
           now == IF live = {} THEN st.current ELSE oldest
<1>1. CASE told = {}
  BY <1>1 DEF AdoptJobs, Kept
<1>2. CASE told # {}
  <2>1. AdoptJobs(st, jobs) = [st EXCEPT !.current = now, !.runs = PruneRuns(adopted)]
    BY <1>2 DEF AdoptJobs
  <2>2. st.runs \in Runs /\ \A j \in Job : RunOf(st.runs, j).over \in BOOLEAN
    BY RunOfType DEF Store, Run
  <2>3. adopted \in Runs
    BY <2>2 DEF Runs, Run
  <2>4. \A j \in Job : Kept(PruneRuns(adopted)[j], adopted[j])
    BY <2>3, PruneKept
  <2> HIDE DEF now
  <2>5. AdoptJobs(st, jobs).seq = st.seq /\ AdoptJobs(st, jobs).runs = PruneRuns(adopted)
    BY <2>1 DEF Store
  <2> QED BY <2>4, <2>5
<1> QED BY <1>1, <1>2

(* What has ended is not said to go on, by an event or a snapshot. *)
LEMMA OverKept ==
    ASSUME NEW st, NEW now, OverSays(st),
           \A j \in Job : \E was : /\ Kept(now.runs[j], was)
                                   /\ was # None /\ was.over =>
                                        Over(job[j].at) \/ was.over = RunOf(st.runs, j).over
    PROVE  OverSays(now)
  BY DEF OverSays, Kept, RunOf, EmptyRun

-----------------------------------------------------------------------------
(* What the log tells of a job *)

(* The events that say how the job is. *)
Told(j) == {i \in EventsOf(j) : log[i].kind # "step"}

(* A job has been announced, and its thread is between two publications. *)
Settled(j) == ~job[j].due /\ job[j].at \notin {"starting", "ending"}

(* What has been published of a job by the time it is where it is. *)
Tells(j) ==
  /\ job[j].at = "none" => ~job[j].due /\ EventsOf(j) = {}
  /\ job[j].at = "queued" => \A i \in EventsOf(j) : log[i].body = "queued"
  /\ job[j].at = "running" => \E i \in EventsOf(j) : log[i].kind = "started"
  /\ job[j].at = "done" => \E i \in EventsOf(j) : log[i].kind = "ended"
  /\ job[j].at # "none" /\ ~job[j].due => \E i \in EventsOf(j) : log[i].kind = "queued"
  /\ \A i \in EventsOf(j) : log[i].kind = "started" => log[i].body = "running"
  /\ \A i \in EventsOf(j) : log[i].kind = "ended" => log[i].body = "done" /\ job[j].at = "done"

(* The last word on a settled job is how it is. *)
LastWord(j) == Settled(j) /\ ~Late(j) =>
  \A i \in Told(j) : (\A k \in Told(j) : k <= i) => log[i].body = Status(j)

Recounts == \A j \in Job : Tells(j) /\ LastWord(j)

(* An event is one more of its job's, and the others' are as they were. *)
LEMMA OneMore ==
    ASSUME TypeOK, NEW j \in Job, NEW kind \in Kind, NEW body \in Body \cup {"none"},
           Publish(j, kind, body)
    PROVE  /\ Len(log') = Len(log) + 1 /\ Len(log) \in Nat
           /\ \A i \in 1..Len(log) : log'[i] = log[i]
           /\ log'[Len(log) + 1] = [job |-> j, kind |-> kind, body |-> body]
           /\ \A i \in Job : EventsOf(i)' = EventsOf(i) \cup (IF i = j THEN {Len(log) + 1} ELSE {})
           /\ \A i \in Job : Late(i) => Late(i)'
<1> DEFINE e == [job |-> j, kind |-> kind, body |-> body]
<1>1. log \in Seq(Entry) /\ Len(log) \in Nat /\ e \in Entry
  BY DEF TypeOK, Entry, Events
<1>2. log' = Append(log, e)
  BY DEF Publish
<1>3. /\ Len(log') = Len(log) + 1
      /\ \A i \in 1..Len(log) : log'[i] = log[i]
      /\ log'[Len(log) + 1] = e
  <2> HIDE DEF e
  <2> QED BY <1>1, <1>2, AppendProperties
<1>4. \A i \in Job : EventsOf(i)' = EventsOf(i) \cup (IF i = j THEN {Len(log) + 1} ELSE {})
  <2> SUFFICES ASSUME NEW i \in Job
               PROVE  EventsOf(i)' = EventsOf(i) \cup (IF i = j THEN {Len(log) + 1} ELSE {})
    OBVIOUS
  <2>1. EventsOf(i)' = {k \in 1..Len(log') : log'[k].job = i}
    BY DEF EventsOf
  <2>2. EventsOf(i) = {k \in 1..Len(log) : log[k].job = i}
    BY DEF EventsOf
  <2>3. log'[Len(log) + 1].job = j
    BY <1>3
  <2> HIDE DEF e
  <2>4. \A k : k \in EventsOf(i)' <=> k \in EventsOf(i) \/ (i = j /\ k = Len(log) + 1)
    BY <1>1, <1>3, <2>1, <2>2, <2>3
  <2> QED BY <2>4
<1>5. ASSUME NEW i \in Job, Late(i) PROVE Late(i)'
  <2>1. PICK a, b \in 1..Len(log) :
             /\ a < b /\ log[a].job = i /\ log[b].job = i
             /\ log[a].kind \in {"started", "ended"}
             /\ log[b].kind = "queued" /\ log[b].body # log[a].body
    BY <1>5 DEF Late
  <2>2. a \in 1..Len(log') /\ b \in 1..Len(log') /\ log'[a] = log[a] /\ log'[b] = log[b]
    BY <1>1, <1>3, <2>1
  <2> QED BY <2>1, <2>2 DEF Late
<1> QED BY <1>1, <1>3, <1>4, <1>5

(* A job that nothing is published of and that stays where it is. *)
LEMMA Unmoved ==
    ASSUME Recounts, NEW i \in Job, job'[i] = job[i],
           EventsOf(i)' = EventsOf(i), \A k \in EventsOf(i) : log'[k] = log[k],
           Late(i) => Late(i)'
    PROVE  Tells(i)' /\ LastWord(i)'
<1>1. Told(i)' = Told(i) /\ (Settled(i)' <=> Settled(i)) /\ Status(i)' = Status(i)
  BY DEF Told, Settled, Status
<1>2. Tells(i)'
  BY DEF Recounts, Tells
<1>3. LastWord(i)'
  <2> SUFFICES ASSUME Settled(i), ~Late(i), NEW n \in Told(i), \A k \in Told(i) : k <= n
               PROVE  log'[n].body = Status(i)
    BY <1>1 DEF LastWord
  <2>1. log[n].body = Status(i)
    BY DEF Recounts, LastWord
  <2> QED BY <2>1 DEF Told
<1> QED BY <1>2, <1>3

(* The last word of a job is what has just been published of it. *)
LEMMA NewWord ==
    ASSUME TypeOK, NEW j \in Job, NEW kind \in Kind \ {"step"}, NEW body \in Body,
           Publish(j, kind, body), Settled(j)' /\ ~Late(j)' => body = Status(j)'
    PROVE  LastWord(j)'
<1> DEFINE last == Len(log) + 1
<1>1. /\ Len(log) \in Nat /\ EventsOf(j)' = EventsOf(j) \cup {last}
      /\ log'[last] = [job |-> j, kind |-> kind, body |-> body]
  BY OneMore
<1>2. last \in Told(j)' /\ log'[last].body = body
  BY <1>1 DEF Told
<1>3. \A i \in Told(j)' : i <= last
  BY <1>1 DEF Told, EventsOf
<1>4. last \in Nat /\ Told(j)' \subseteq Nat
  BY <1>1 DEF Told, EventsOf
<1> HIDE DEF last
<1>5. ASSUME NEW i \in Told(j)', \A k \in Told(j)' : k <= i PROVE i = last
  BY <1>2, <1>3, <1>4, <1>5
<1> QED BY <1>2, <1>5 DEF LastWord

(* The announcement repeats one of the states of its job. *)
LEMMA AnnounceRepeats ==
    ASSUME TypeOK, NEW j \in Job, Announce(j)
    PROVE  \E body \in Body : /\ Publish(j, "queued", body)
                              /\ body \in {"queued", Status(j)} \cup {log[i].body : i \in EventsOf(j)}
<1>1. PICK body \in ({"queued", Status(j)} \cup {log[i].body : i \in EventsOf(j)}) \ {"none"} :
        Publish(j, "queued", body)
  BY DEF Announce
<1>2. \A i \in EventsOf(j) : log[i].body \in Body \cup {"none"}
  <2>1. \A i \in 1..Len(log) : log[i] \in Entry
    BY ElementOfSeq DEF TypeOK, Entry
  <2> QED BY <2>1 DEF EventsOf, Entry
<1>3. body \in Body
  BY <1>1, <1>2, StatusType DEF Body
<1> QED BY <1>1, <1>3

(* A step of the queue is of one job, and leaves what was published. *)
Steps(j) == \/ \E w \in Workspace : Submit(j, w)
            \/ SubmitHere(j) \/ Announced(j) \/ Step(j) \/ CancelQueued(j)

LEMMA OneJob ==
    ASSUME TypeOK, NEW j \in Job, Steps(j)
    PROVE  /\ \A i \in Job : i # j => job'[i] = job[i]
           /\ \/ log' = log
              \/ \E kind \in Kind, body \in Body \cup {"none"} : Publish(j, kind, body)
<1>1. job \in [Job -> JobState] /\ log \in Seq(Entry)
  BY DEF TypeOK, JobState, Entry
<1>2. \A i \in Job : i # j => job'[i] = job[i]
  BY <1>1 DEF Steps, Submit, SubmitHere, Queue, Announced, Announce, Dispatch, Start, Settle, End,
              Step, CancelQueued, Moves
<1>3. CASE (\E w \in Workspace : Submit(j, w)) \/ SubmitHere(j) \/ Dispatch(j) \/ Settle(j)
  BY <1>2, <1>3 DEF Submit, SubmitHere, Dispatch, Settle
<1>4. CASE Announce(j)
  BY <1>2, <1>4, AnnounceRepeats DEF Kind
<1>5. CASE Start(j) \/ Step(j) \/ End(j) \/ CancelQueued(j)
  BY <1>2, <1>5 DEF Start, Step, End, CancelQueued, Kind, Body
<1> QED BY <1>3, <1>4, <1>5 DEF Steps, Announced

LEMMA OthersUnmoved ==
    ASSUME TypeOK, NEW j \in Job, Steps(j), NEW i \in Job, i # j
    PROVE  /\ job'[i] = job[i] /\ EventsOf(i)' = EventsOf(i)
           /\ \A k \in EventsOf(i) : log'[k] = log[k]
           /\ Late(i) => Late(i)'
<1>1. job'[i] = job[i]
  BY OneJob
<1>2. CASE log' = log
  BY <1>1, <1>2 DEF EventsOf, Late
<1>3. CASE \E kind \in Kind, body \in Body \cup {"none"} : Publish(j, kind, body)
  <2>1. PICK kind \in Kind, body \in Body \cup {"none"} : Publish(j, kind, body)
    BY <1>3
  <2>2. /\ \A k \in 1..Len(log) : log'[k] = log[k]
        /\ EventsOf(i)' = EventsOf(i) \cup {}
        /\ Late(i) => Late(i)'
    BY <2>1, OneMore
  <2> QED BY <1>1, <2>2 DEF EventsOf
<1> QED BY <1>2, <1>3, OneJob

(* The announcement of a job repeats one of its states. *)
LEMMA AnnounceSays ==
    ASSUME TypeOK, Recounts, NEW j \in Job, NEW body \in Body, Publish(j, "queued", body),
           body \in {"queued", Status(j)} \cup {log[i].body : i \in EventsOf(j)},
           job' = [job EXCEPT ![j].due = FALSE], job[j].due
    PROVE  Tells(j)' /\ LastWord(j)'
<1> DEFINE last == Len(log) + 1
<1>1. /\ Len(log) \in Nat /\ EventsOf(j)' = EventsOf(j) \cup {last}
      /\ \A i \in 1..Len(log) : log'[i] = log[i]
      /\ log'[last] = [job |-> j, kind |-> "queued", body |-> body]
      /\ Len(log') = last
  BY OneMore DEF Kind
<1>2. job \in [Job -> JobState] /\ job'[j].at = job[j].at /\ Status(j)' = Status(j)
  BY DEF TypeOK, JobState, Status
<1>3. job[j].at # "none"
  BY DEF Recounts, Tells
<1>4. EventsOf(j) \subseteq 1..Len(log)
  BY DEF EventsOf
<1>5. job[j].at = "queued" => body = "queued"
  BY DEF Recounts, Tells, Status
<1> HIDE DEF last
<1>6. Tells(j)'
  <2>1. Tells(j)
    BY DEF Recounts
  <2>2. \A i \in EventsOf(j) : log'[i] = log[i]
    BY <1>1, <1>4
  <2> QED BY <1>1, <1>2, <1>3, <1>5, <2>1, <2>2 DEF Tells
<1>7. ASSUME Settled(j)', ~Late(j)' PROVE body = Status(j)'
  <2>1. CASE job[j].at = "queued"
    BY <1>2, <1>5, <2>1 DEF Status
  <2>2. CASE job[j].at \in {"running", "done"}
    <3>1. PICK i \in EventsOf(j) : /\ log[i].kind \in {"started", "ended"}
                                   /\ log[i].body = Status(j)
      BY <2>2 DEF Recounts, Tells, Status
    <3>2. i < last /\ i \in 1..last /\ last \in 1..last /\ log'[i] = log[i] /\ log[i].job = j
      BY <1>1, <3>1 DEF EventsOf, last
    <3>3. log'[last].body = log'[i].body
      BY <1>1, <1>7, <3>1, <3>2 DEF Late
    <3> QED BY <1>1, <1>2, <3>1, <3>2, <3>3
  <2> QED BY <1>2, <1>3, <1>7, <2>1, <2>2 DEF Settled, JobState, Phases
<1> QED BY <1>6, <1>7, NewWord DEF Kind

LEMMA RecountSteps ==
    ASSUME IInv, Recounts, NEW j \in Job, Steps(j)
    PROVE  Recounts'
<1> USE DEF IInv
<1>0. job \in [Job -> JobState] /\ log \in Seq(Entry) /\ Len(log) \in Nat
  BY DEF TypeOK, JobState, Entry, Events
<1>1. \A i \in Job : i # j => Tells(i)' /\ LastWord(i)'
  BY OthersUnmoved, Unmoved
<1>s. SUFFICES Tells(j)' /\ LastWord(j)'
  BY <1>1 DEF Recounts
<1>q. ASSUME NEW w, Queue(j, w), log' = log PROVE Tells(j)' /\ LastWord(j)'
  <2>1. job[j].at = "none" /\ job'[j] = [at |-> "queued", ws |-> w, due |-> TRUE]
    BY <1>0, <1>q DEF Queue
  <2>2. EventsOf(j)' = {} /\ ~Settled(j)'
    BY <1>q, <2>1 DEF Recounts, Tells, EventsOf, Settled
  <2> QED BY <2>1, <2>2 DEF Tells, LastWord
<1>m. ASSUME NEW from, NEW to, Moves(j, from, to)
      PROVE  job[j].at = from /\ job'[j].at = to /\ job'[j].due = job[j].due
  BY <1>0, <1>m DEF Moves, JobState
<1>2. CASE (\E w \in Workspace : Submit(j, w)) \/ SubmitHere(j)
  BY <1>2, <1>q DEF Submit, SubmitHere
<1>3. CASE Announce(j)
  BY <1>3, AnnounceRepeats, AnnounceSays DEF Announce
<1>4. CASE Dispatch(j) \/ Settle(j)
  <2>1. /\ log' = log /\ job[j].at \in {"queued", "running"}
        /\ job'[j].at = IF job[j].at = "queued" THEN "starting" ELSE "ending"
        /\ job'[j].due = job[j].due
    BY <1>4, <1>m DEF Dispatch, Settle
  <2>2. EventsOf(j)' = EventsOf(j) /\ ~Settled(j)'
    BY <2>1 DEF EventsOf, Settled
  <2> QED BY <2>1, <2>2 DEF Recounts, Tells, LastWord
<1>5. CASE Start(j) \/ End(j) \/ CancelQueued(j)
  <2>1. \/ /\ Publish(j, "started", "running") /\ job[j].at = "starting" /\ job'[j].at = "running"
        \/ /\ Publish(j, "ended", "done") /\ job[j].at \in {"ending", "queued"} /\ job'[j].at = "done"
    BY <1>5, <1>m DEF Start, End, CancelQueued
  <2>d. job'[j].due = job[j].due
    BY <1>5, <1>m DEF Start, End, CancelQueued
  <2>2. CASE Publish(j, "started", "running") /\ job[j].at = "starting" /\ job'[j].at = "running"
    <3>1. /\ EventsOf(j)' = EventsOf(j) \cup {Len(log) + 1} /\ EventsOf(j) \subseteq 1..Len(log)
          /\ \A i \in 1..Len(log) : log'[i] = log[i]
          /\ log'[Len(log) + 1] = [job |-> j, kind |-> "started", body |-> "running"]
      BY <2>2, OneMore DEF Kind, Body, EventsOf
    <3>2. Tells(j)'
      BY <2>2, <2>d, <3>1 DEF Recounts, Tells
    <3>3. LastWord(j)'
      BY <2>2, NewWord DEF Kind, Body, Status
    <3> QED BY <3>2, <3>3
  <2>3. CASE Publish(j, "ended", "done") /\ job[j].at \in {"ending", "queued"} /\ job'[j].at = "done"
    <3>1. /\ EventsOf(j)' = EventsOf(j) \cup {Len(log) + 1} /\ EventsOf(j) \subseteq 1..Len(log)
          /\ \A i \in 1..Len(log) : log'[i] = log[i]
          /\ log'[Len(log) + 1] = [job |-> j, kind |-> "ended", body |-> "done"]
      BY <2>3, OneMore DEF Kind, Body, EventsOf
    <3>2. Tells(j)'
      BY <2>3, <2>d, <3>1 DEF Recounts, Tells
    <3>3. LastWord(j)'
      BY <2>3, NewWord DEF Kind, Body, Status
    <3> QED BY <3>2, <3>3
  <2> QED BY <2>1, <2>2, <2>3
<1>6. CASE Step(j)
  <2>1. Publish(j, "step", "none") /\ job' = job /\ job[j].at = "running"
    BY <1>6 DEF Step
  <2>2. /\ EventsOf(j)' = EventsOf(j) \cup {Len(log) + 1} /\ EventsOf(j) \subseteq 1..Len(log)
        /\ \A i \in 1..Len(log) : log'[i] = log[i]
        /\ log'[Len(log) + 1] = [job |-> j, kind |-> "step", body |-> "none"]
        /\ Late(j) => Late(j)'
    BY <2>1, OneMore DEF Kind, EventsOf
  <2>3. Tells(j)'
    BY <2>1, <2>2 DEF Recounts, Tells
  <2>4. /\ Told(j)' = Told(j) /\ (Settled(j)' <=> Settled(j)) /\ Status(j)' = Status(j)
        /\ \A i \in Told(j) : log'[i] = log[i]
    BY <2>1, <2>2 DEF Told, Settled, Status
  <2>5. LastWord(j)'
    <3> SUFFICES ASSUME Settled(j), ~Late(j), NEW n \in Told(j), \A k \in Told(j) : k <= n
                 PROVE  log'[n].body = Status(j)
      BY <2>2, <2>4 DEF LastWord
    <3>1. log[n].body = Status(j)
      BY DEF Recounts, LastWord
    <3> QED BY <2>4, <3>1
  <2> QED BY <2>3, <2>5
<1> QED BY <1>2, <1>3, <1>4, <1>5, <1>6 DEF Steps, Announced

-----------------------------------------------------------------------------
(* What the tab shows *)

(* The tab's socket is served, and feeds a store nothing else has fed. *)
InSight == /\ socket # None /\ ~store.stray
           /\ sock[socket].asks # None /\ sock[socket].at \in Served

(* Nothing is heard before it is published, nor twice; a socket that is     *)
(* opened goes on where the store is, and nowhere nothing is heard at all. *)
Heard == /\ store.seq <= Len(log)
         /\ \A s \in Slot : /\ sock[s].upto <= Len(log)
                            /\ sock[s].at \in Served => sock[s].ws # None
         /\ InSight => store.seq <= sock[socket].upto
         /\ socket # None /\ ~store.stray /\ sock[socket].at \in {"asked", "ready"} =>
              store.seq < sock[socket].from
         /\ active = None /\ ~store.stray => store.seq = 0

(* The screen says of a job that waits or runs that it does, and of no other. *)
Right(st, j) ==
  /\ Live(Status(j)) => st.runs[j] # None /\ st.runs[j].job = Status(j)
  /\ st.runs[j] # None /\ Live(st.runs[j].job) => st.runs[j].job = Status(j)

(* A settled job of `w` whose last word was among the first `u` events, and *)
(* was not missed, is right.                                               *)
RightUpTo(w, u) == \A j \in Job \ store.missed :
  /\ job[j].ws = w /\ Settled(j) /\ ~Late(j)
  /\ \A i \in Told(j) : i <= u
  => Right(store, j)

(* The tab is right about what its socket has said, and about what it has  *)
(* heard itself when its socket is gone.                                   *)
Shown == /\ InSight /\ sock[socket].at = "live" => RightUpTo(sock[socket].ws, sock[socket].upto)
         /\ active # None /\ ~store.stray => RightUpTo(active, store.seq)

Follows == Recounts /\ OverSays(store) /\ Heard /\ Shown

(* What the log tells changes with it or with the jobs. *)
LEMMA RecountsStay == ASSUME Recounts, UNCHANGED <<job, log>> PROVE Recounts'
<1> SUFFICES ASSUME NEW j \in Job PROVE Tells(j)' /\ LastWord(j)'
  BY DEF Recounts
<1>1. /\ EventsOf(j)' = EventsOf(j) /\ Told(j)' = Told(j) /\ (Late(j)' <=> Late(j))
      /\ (Settled(j)' <=> Settled(j)) /\ Status(j)' = Status(j)
  BY DEF EventsOf, Told, Late, Settled, Status
<1>2. Tells(j) /\ LastWord(j)
  BY DEF Recounts
<1>3. Tells(j)'
  BY <1>1, <1>2 DEF Tells
<1>4. LastWord(j)'
  BY <1>1, <1>2 DEF LastWord
<1> QED BY <1>3, <1>4

(* What is published next is not among what was heard. *)
LEMMA QueueRight ==
    ASSUME IInv, Recounts, NEW j \in Job, Steps(j), UNCHANGED store,
           NEW w \in Workspace \cup {None}, w # None, NEW u \in Nat, u <= Len(log), RightUpTo(w, u)
    PROVE  RightUpTo(w, u)'
<1> USE DEF IInv
<1>0. job \in [Job -> JobState] /\ Len(log) \in Nat
  BY DEF TypeOK, JobState, Events
<1> SUFFICES ASSUME NEW i \in Job \ store.missed, job'[i].ws = w, Settled(i)', ~Late(i)',
                    \A k \in Told(i)' : k <= u
             PROVE  Right(store, i)'
  BY DEF RightUpTo
<1>u. ASSUME job'[i].at = job[i].at, job'[i].ws = job[i].ws, Settled(i), ~Late(i),
             \A k \in Told(i) : k <= u
      PROVE  Right(store, i)'
  <2>1. Right(store, i)
    BY <1>u DEF RightUpTo
  <2>2. Status(i)' = Status(i)
    BY <1>u DEF Status
  <2> QED BY <2>1, <2>2 DEF Right
<1>1. CASE i # j
  <2>1. /\ job'[i] = job[i] /\ EventsOf(i)' = EventsOf(i) /\ (Late(i) => Late(i)')
        /\ \A k \in EventsOf(i) : log'[k] = log[k]
    BY <1>1, OthersUnmoved
  <2>2. Told(i)' = Told(i) /\ Settled(i)
    BY <2>1 DEF Told, Settled
  <2> QED BY <1>u, <2>1, <2>2
<1>p. ASSUME NEW kind \in Kind \ {"step"}, NEW body \in Body, Publish(j, kind, body), i = j
      PROVE  FALSE
  <2>1. /\ EventsOf(j)' = EventsOf(j) \cup {Len(log) + 1}
        /\ log'[Len(log) + 1] = [job |-> j, kind |-> kind, body |-> body]
    BY <1>p, OneMore
  <2>2. Len(log) + 1 \in Told(i)'
    BY <1>p, <2>1 DEF Told
  <2>3. u <= Len(log) /\ u \in Nat
    BY <1>0
  <2> QED BY <1>0, <2>2, <2>3
<1>2. CASE i = j
  <2>1. CASE (\E v \in Workspace : Submit(j, v)) \/ SubmitHere(j)
    BY <1>0, <1>2, <2>1 DEF Submit, SubmitHere, Queue, Settled
  <2>2. CASE Announce(j)
    BY <1>2, <1>p, <2>2, AnnounceRepeats DEF Kind
  <2>3. CASE Dispatch(j) \/ Settle(j)
    BY <1>0, <1>2, <2>3 DEF Dispatch, Settle, Moves, Settled, JobState
  <2>4. CASE Start(j) \/ End(j) \/ CancelQueued(j)
    BY <1>2, <1>p, <2>4 DEF Start, End, CancelQueued, Kind, Body
  <2>5. CASE Step(j)
    <3>1. Publish(j, "step", "none") /\ job' = job
      BY <2>5 DEF Step
    <3>2. /\ EventsOf(j)' = EventsOf(j) \cup {Len(log) + 1} /\ EventsOf(j) \subseteq 1..Len(log)
          /\ \A n \in 1..Len(log) : log'[n] = log[n]
          /\ Late(j) => Late(j)'
      BY <3>1, OneMore DEF Kind, EventsOf
    <3>3. Told(j) \subseteq Told(j)' /\ Settled(j)
      BY <1>2, <3>1, <3>2 DEF Told, Settled
    <3> QED BY <1>2, <1>u, <3>1, <3>2, <3>3
  <2> QED BY <2>1, <2>2, <2>3, <2>4, <2>5 DEF Steps, Announced
<1> QED BY <1>1, <1>2

(* What is published next is heard later. *)
LEMMA QueueFollows ==
    ASSUME IInv, Follows, NEW j \in Job, Steps(j)
    PROVE  Follows'
<1> USE DEF IInv, Follows
<1>0. /\ job \in [Job -> JobState] /\ Len(log) \in Nat /\ store \in Store
      /\ sock \in [Slot -> Sock] /\ socket \in Slot \cup {None}
  BY TabTypes DEF TypeOK, JobState, Events
<1>1. Recounts'
  BY RecountSteps
<1>2. UNCHANGED <<store, sock, socket, active>>
  BY DEF Steps, Submit, SubmitHere, Announced, Announce, Dispatch, Start, Settle, End, Step,
         CancelQueued, queueing, tab
<1>3. Len(log') >= Len(log) /\ Len(log') \in Nat
  <2>1. CASE log' = log
    BY <1>0, <2>1
  <2>2. ASSUME NEW kind \in Kind, NEW body \in Body \cup {"none"}, Publish(j, kind, body)
        PROVE  Len(log') = Len(log) + 1
    BY <2>2, OneMore
  <2> QED BY <1>0, <2>1, <2>2, OneJob
<1>4. Heard'
  BY <1>0, <1>2, <1>3 DEF Heard, InSight, Store, Events, Sock
<1>5. OverSays(store)'
  <2>1. Over(job[j].at) => Over(job'[j].at)
    BY <1>0 DEF Steps, Submit, SubmitHere, Queue, Announced, Announce, Dispatch, Start, Settle,
                End, Step, CancelQueued, Moves, JobState, Over
  <2>2. \A i \in Job : i # j => job'[i] = job[i]
    BY OneJob
  <2> QED BY <1>2, <2>1, <2>2 DEF OverSays
<1>6. Shown'
  <2>1. ASSUME InSight, sock[socket].at = "live"
        PROVE  RightUpTo(sock[socket].ws, sock[socket].upto)'
    <3>1. /\ sock[socket].ws \in Place /\ sock[socket].ws # None
          /\ sock[socket].upto \in Nat /\ sock[socket].upto <= Len(log)
      BY <1>0, <2>1 DEF Heard, InSight, Sock, Events, Served
    <3>2. RightUpTo(sock[socket].ws, sock[socket].upto)
      BY <2>1 DEF Shown
    <3> DEFINE w == sock[socket].ws
               u == sock[socket].upto
    <3>3. w' = w /\ u' = u
      BY <1>2
    <3>4. w \in Workspace \cup {None} /\ w # None /\ u \in Nat /\ u <= Len(log) /\ RightUpTo(w, u)
      BY <3>1, <3>2 DEF Place
    <3> HIDE DEF w, u
    <3>5. ASSUME NEW v, NEW n, v = w, n = u PROVE RightUpTo(v, n)'
      <4>1. /\ v \in Workspace \cup {None} /\ v # None /\ n \in Nat /\ n <= Len(log)
            /\ RightUpTo(v, n)
        BY <3>4, <3>5
      <4> QED BY <1>2, <4>1, QueueRight
    <3> QED BY <3>3, <3>5 DEF w, u, RightUpTo
  <2>2. ASSUME active # None, ~store.stray PROVE RightUpTo(active, store.seq)'
    <3>1. active \in Workspace /\ store.seq \in Nat /\ store.seq <= Len(log)
      BY <2>2, TabTypes DEF Heard, Place, Store, Events
    <3>2. RightUpTo(active, store.seq)
      BY <2>2 DEF Shown
    <3>3. ASSUME NEW v, NEW n, v = active, n = store.seq PROVE RightUpTo(v, n)'
      BY <1>2, <3>1, <3>2, <3>3, QueueRight
    <3> QED BY <1>2, <3>3 DEF RightUpTo
  <2> QED BY <1>2, <2>1, <2>2 DEF Shown, InSight
<1> QED BY <1>1, <1>4, <1>5, <1>6

(* A settled job has been announced: nothing is right of it before.        *)
LEMMA NothingHeard ==
    ASSUME Recounts', job \in [Job -> JobState], UNCHANGED <<job, log>>, IInv,
           store'.seq = 0, active' # None
    PROVE  RightUpTo(active, store.seq)'
<1> SUFFICES ASSUME NEW j \in Job, job'[j].ws = active', Settled(j)',
                    \A i \in Told(j)' : i <= 0
             PROVE  FALSE
  BY DEF RightUpTo
<1>1. job[j].at # "none" /\ ~job[j].due
  BY DEF IInv, Unborn, Settled
<1>2. PICK i \in EventsOf(j)' : log'[i].kind = "queued"
  BY <1>1 DEF Recounts, Tells
<1>3. i \in Told(j)' /\ i \in 1..Len(log)
  BY <1>2 DEF Told, EventsOf
<1> QED BY <1>3 DEF IInv, TypeOK, Events

(* The tab's moves and the sockets that end: what is in sight stays as it   *)
(* was, and what is opened or forgotten is not in sight yet.               *)
LEMMA QuietFollows ==
    ASSUME IInv, Follows, UNCHANGED <<job, log>>, store' \in {store, Blank},
           \A s \in Slot : /\ sock'[s].upto \in {0, sock[s].upto}
                           /\ sock'[s].at \in Served => sock'[s].ws # None,
           socket' # None /\ sock'[socket'].at \in Served =>
             store' = store /\ socket' = socket /\ sock'[socket] = sock[socket],
           socket' # None /\ sock'[socket'].at = "asked" =>
             \/ store'.seq < sock'[socket'].from
             \/ store' = store /\ socket' = socket /\ sock'[socket] = sock[socket],
           active' = active \/ active = None \/ store' = Blank
    PROVE  Follows'
<1> USE DEF IInv, Follows
<1>0. /\ Len(log) \in Nat /\ store \in Store /\ sock \in [Slot -> Sock]
      /\ socket \in Slot \cup {None} /\ Blank.seq = 0 /\ Blank.stray = FALSE
  BY TabTypes DEF TypeOK, Events, Blank
<1>1. Recounts'
  BY RecountsStay
<1>2. OverSays(store)'
  BY BlankType DEF OverSays
<1>3. InSight' => InSight /\ store' = store /\ socket' = socket /\ sock'[socket] = sock[socket]
  BY DEF InSight
<1>4. Heard'
  <2>1. store'.seq <= Len(log)
    BY <1>0 DEF Heard
  <2>2. ASSUME NEW s \in Slot
        PROVE  sock'[s].upto <= Len(log) /\ (sock'[s].at \in Served => sock'[s].ws # None)
    <3>1. sock[s].upto <= Len(log) /\ sock'[s].upto \in {0, sock[s].upto} /\ 0 <= Len(log)
      <4>1. 0 <= Len(log)
        BY <1>0
      <4>2. sock[s].upto <= Len(log)
        BY DEF Heard
      <4>3. sock'[s].upto \in {0, sock[s].upto}
        OBVIOUS
      <4> QED BY <4>1, <4>2, <4>3
    <3> QED BY <3>1
  <2>3. InSight' => store'.seq <= sock'[socket'].upto
    BY <1>3 DEF Heard
  <2>4. ASSUME socket' # None, ~store'.stray, sock'[socket'].at \in {"asked", "ready"}
        PROVE  store'.seq < sock'[socket'].from
    <3>1. \/ store'.seq < sock'[socket'].from
          \/ store' = store /\ socket' = socket /\ sock'[socket] = sock[socket]
      BY <2>4 DEF Served
    <3> QED BY <2>4, <3>1 DEF Heard
  <2>5. active' = None /\ ~store'.stray => store'.seq = 0
    BY <1>0 DEF Heard
  <2>6. log' = log
    OBVIOUS
  <2> QED
    <3> HIDE DEF IInv, Follows
    <3> QED BY <2>1, <2>2, <2>3, <2>4, <2>5, <2>6 DEF Heard
<1>5. ASSUME NEW w, NEW u, RightUpTo(w, u), store' = store PROVE RightUpTo(w, u)'
  BY <1>5 DEF RightUpTo, Right, Status, Settled, Late, Told, EventsOf
<1>6. Shown'
  <2>1. ASSUME InSight', sock'[socket'].at = "live"
        PROVE  RightUpTo(sock[socket].ws, sock[socket].upto)'
    <3>1. /\ store' = store /\ socket' = socket /\ sock'[socket] = sock[socket]
          /\ RightUpTo(sock[socket].ws, sock[socket].upto)
      BY <1>3, <2>1 DEF Shown
    <3>2. ASSUME NEW w, NEW u, w = sock[socket].ws, u = sock[socket].upto
          PROVE  RightUpTo(w, u)'
      <4>1. RightUpTo(w, u)
        BY <3>1, <3>2
      <4> QED BY <1>5, <3>1, <4>1
    <3> QED BY <3>1, <3>2 DEF RightUpTo
  <2>2. ASSUME active' # None, ~store'.stray PROVE RightUpTo(active, store.seq)'
    <3>1. CASE store'.seq = 0
      BY <1>1, <2>2, <3>1, NothingHeard DEF TypeOK, JobState
    <3>2. CASE store'.seq # 0
      <4>1. store' = store /\ active' = active /\ RightUpTo(active, store.seq)
        BY <1>0, <2>2, <3>2 DEF Heard, Shown
      <4>2. ASSUME NEW w, NEW u, w = active, u = store.seq PROVE RightUpTo(w, u)'
        <5>1. RightUpTo(w, u)
          BY <4>1, <4>2
        <5> QED BY <1>5, <4>1, <5>1
      <4> QED BY <4>1, <4>2 DEF RightUpTo
    <3> QED BY <3>1, <3>2
  <2> QED BY <2>1, <2>2 DEF Shown
<1> QED BY <1>1, <1>2, <1>4, <1>6

(* One socket is served, breaks or ends. *)
LEMMA SockFollows ==
    ASSUME IInv, Follows, UNCHANGED <<job, log, store, active>>, NEW s \in Slot, NEW to,
           sock' = [sock EXCEPT ![s] = to], to.at \notin Served \cup {"asked"},
           to.upto \in {0, sock[s].upto}, socket' \in {socket, None}
    PROVE  Follows'
<1>0. sock \in [Slot -> Sock] /\ socket \in Slot \cup {None}
  BY TabTypes DEF IInv
<1>1. \A r \in Slot : /\ sock'[r].upto \in {0, sock[r].upto}
                      /\ sock'[r].at \in Served => sock'[r].ws # None
  BY <1>0 DEF Follows, Heard
<1>2. socket' # None /\ sock'[socket'].at \in Served =>
        store' = store /\ socket' = socket /\ sock'[socket] = sock[socket]
  BY <1>0
<1>3. socket' # None /\ sock'[socket'].at = "asked" =>
        store' = store /\ socket' = socket /\ sock'[socket] = sock[socket]
  BY <1>0
<1> QED BY <1>1, <1>2, <1>3, QuietFollows

(* A handshake subscribes at the end of the log. *)
LEMMA HandshakeFollows == ASSUME IInv, Follows, NEW s \in Slot, Handshake(s) PROVE Follows'
<1> USE DEF IInv
<1>0. /\ sock \in [Slot -> Sock] /\ Len(log) \in Events /\ member \subseteq Workspace
      /\ store \in Store /\ socket \in Slot \cup {None}
  BY TabTypes DEF TypeOK
<1> DEFINE w == IF sock[s].asks # None THEN sock[s].asks ELSE Landing
<1>1. sock[s].at = "asked" /\ UNCHANGED handling
  BY DEF Handshake, Serve
<1>2. CASE \E code \in {UNAUTHORISED, FORBIDDEN} :
             Serve(s, [sock[s] EXCEPT !.at = "closing", !.code = code])
  <2>1. PICK code \in {UNAUTHORISED, FORBIDDEN} :
          Serve(s, [sock[s] EXCEPT !.at = "closing", !.code = code])
    BY <1>2
  <2> DEFINE to == [sock[s] EXCEPT !.at = "closing", !.code = code]
  <2>2. to.at = "closing" /\ to.upto = sock[s].upto
    BY <1>0 DEF Sock
  <2>3. sock' = [sock EXCEPT ![s] = to]
    BY <2>1 DEF Serve
  <2> HIDE DEF to
  <2> QED BY <1>1, <2>2, <2>3, SockFollows DEF handling, tab, Served
<1>3. CASE w \in member /\ Serve(s, [sock[s] EXCEPT !.at = "ready", !.ws = w, !.upto = Len(log),
                                    !.from = IF Oldest > @ THEN Oldest ELSE @])
  <2> DEFINE since == IF Oldest > sock[s].from THEN Oldest ELSE sock[s].from
             to == [sock[s] EXCEPT !.at = "ready", !.ws = w, !.upto = Len(log),
                                   !.from = since]
  <2>1. /\ to.at = "ready" /\ to.upto = Len(log) /\ to.ws = w /\ w # None
        /\ sock[s].from \in Nat /\ to.from \in Nat /\ sock[s].from <= to.from
    <3>1. Oldest \in Nat /\ sock[s].from \in Nat
      BY <1>0 DEF Oldest, Events, SizesAssumption, Sock
    <3>2. since \in Nat /\ sock[s].from <= since
      BY <3>1
    <3> HIDE DEF since
    <3> QED BY <1>0, <1>3, <3>1, <3>2 DEF Sock
  <2>2. sock' = [sock EXCEPT ![s] = to]
    BY <1>3 DEF Serve
  <2> HIDE DEF to
  <2>3. sock'[s] = to /\ \A r \in Slot : r # s => sock'[r] = sock[r]
    BY <1>0, <2>2
  <2>4. UNCHANGED <<job, log, store, socket, active>>
    BY <1>1 DEF handling, tab
  <2>5. Recounts' /\ OverSays(store)'
    BY <2>4, RecountsStay DEF Follows, OverSays
  <2>6. Heard'
    <3>1. ASSUME socket # None, ~store.stray, sock'[socket].at \in {"asked", "ready"}
          PROVE  store.seq < sock'[socket].from
      <4>1. CASE socket = s
        <5>1. store.seq < sock[s].from /\ store.seq \in Nat
          BY <1>0, <1>1, <3>1, <4>1 DEF Follows, Heard, Store, Events
        <5> QED BY <2>1, <2>3, <4>1, <5>1
      <4>2. CASE socket # s
        BY <1>0, <2>3, <3>1, <4>2 DEF Follows, Heard
      <4> QED BY <4>1, <4>2
    <3>2. active = None /\ ~store.stray => store.seq = 0
      BY DEF Follows, Heard
    <3> QED BY <1>0, <2>1, <2>3, <2>4, <3>1, <3>2 DEF Follows, Heard, InSight, Events, Store, Served
  <2>7. Shown'
    <3>1. ASSUME NEW v, NEW u, RightUpTo(v, u) PROVE RightUpTo(v, u)'
      BY <2>4, <3>1 DEF RightUpTo, Right, Status, Settled, Late, Told, EventsOf
    <3>2. ASSUME InSight', sock'[socket'].at = "live"
          PROVE  RightUpTo(sock[socket].ws, sock[socket].upto)'
      <4>1. socket # s /\ sock'[socket] = sock[socket]
        BY <1>0, <2>1, <2>3, <2>4, <3>2 DEF InSight
      <4>2. RightUpTo(sock[socket].ws, sock[socket].upto)
        BY <2>4, <3>2, <4>1 DEF Follows, Shown, InSight
      <4>3. ASSUME NEW v, NEW u, v = sock[socket].ws, u = sock[socket].upto
            PROVE  RightUpTo(v, u)'
        <5>1. RightUpTo(v, u)
          BY <4>2, <4>3
        <5> QED BY <3>1, <5>1
      <4> QED BY <2>4, <4>1, <4>3 DEF RightUpTo
    <3>3. ASSUME active # None, ~store.stray PROVE RightUpTo(active, store.seq)'
      <4>1. RightUpTo(active, store.seq)
        BY <3>3 DEF Follows, Shown
      <4>2. ASSUME NEW v, NEW u, v = active, u = store.seq PROVE RightUpTo(v, u)'
        <5>1. RightUpTo(v, u)
          BY <4>1, <4>2
        <5> QED BY <3>1, <5>1
      <4> QED BY <2>4, <4>2 DEF RightUpTo
    <3> QED BY <2>4, <3>2, <3>3 DEF Shown
  <2> QED BY <2>5, <2>6, <2>7 DEF Follows
<1>4. CASE session /\ w \in member
  BY <1>3, <1>4 DEF Handshake
<1>5. CASE ~(session /\ w \in member)
  <2> DEFINE refusal == CASE ~session -> UNAUTHORISED [] w \notin member -> FORBIDDEN [] OTHER -> 0
  <2>1. refusal \in {UNAUTHORISED, FORBIDDEN} /\ refusal # 0
    BY <1>5 DEF UNAUTHORISED, FORBIDDEN
  <2>2. Serve(s, [sock[s] EXCEPT !.at = "closing", !.code = refusal])
    BY <2>1 DEF Handshake
  <2> QED BY <1>2, <2>1, <2>2
<1> QED BY <1>4, <1>5

(* An event that ends a run is of a job that has ended. *)
LEMMA ApplyOver ==
    ASSUME TypeOK, LogSays, Recounts, NEW st \in Store, NEW i \in 1..Len(log), OverSays(st)
    PROVE  OverSays(Apply(st, i))
<1> DEFINE e == log[i]
<1>1. e.job \in Job /\ e.kind \in Kind /\ (e.kind = "ended" => Over(job[e.job].at))
  <2>1. log[i] \in [job : Job, kind : Kind, body : Body \cup {"none"}]
    BY ElementOfSeq DEF TypeOK
  <2> QED BY <2>1 DEF Recounts, Tells, EventsOf, Over
<1>2. CASE i <= st.seq
  BY <1>2, ApplySees
<1>3. CASE i > st.seq
  <2> SUFFICES ASSUME NEW j \in Job, Apply(st, i).runs[j] # None, Apply(st, i).runs[j].over
               PROVE  Over(job[j].at)
    BY DEF OverSays
  <2>1. CASE j # e.job
    <3>1. Apply(st, i).runs[j] = st.runs[j]
      BY <1>3, <2>1, ApplySees DEF Kept
    <3> QED BY <3>1 DEF OverSays
  <2>2. CASE j = e.job /\ e.kind = "ended"
    BY <1>1, <2>2
  <2>3. CASE j = e.job /\ e.kind # "ended"
    <3>1. Apply(st, i).runs[j] = Reduce(RunOf(st.runs, j), e)
      BY <1>3, <2>3, ApplySees DEF Kept
    <3>2. RunOf(st.runs, j) \in Run
      BY RunOfType DEF Store
    <3>3. Reduce(RunOf(st.runs, j), e).over = RunOf(st.runs, j).over
      BY <1>1, <2>3, <3>2 DEF Reduce, Kind, Run
    <3> QED BY <3>1, <3>3 DEF OverSays, RunOf, EmptyRun
  <2> QED BY <2>1, <2>2, <2>3
<1> QED BY <1>2, <1>3 DEF Store, Events

(* A backlog goes no further than its last event. *)
LEMMA ReplayHears ==
    ASSUME TypeOK, LogSays, Recounts, NEW st \in Store, NEW events, NEW u \in Nat,
           u <= Len(log), events \subseteq 1..u, st.seq <= u, OverSays(st)
    PROVE  /\ Replay(st, events) \in Store
           /\ Replay(st, events).seq <= u
           /\ OverSays(Replay(st, events))
<1>1. PICK f : Stores(f, st, events, MaxSeq) /\ Replay(st, events) = f[MaxSeq]
  BY ReplayIs
<1> DEFINE Good(x) == x \in Store /\ x.seq <= u /\ OverSays(x)
           Spoilt == {i \in 0..MaxSeq : ~Good(f[i])}
<1>2. \A i \in 0..MaxSeq : f[i] = StepOf(f, st, events, i)
  BY <1>1 DEF Stores
<1>3. SUFFICES ASSUME Spoilt # {} PROVE FALSE
  BY <1>1 DEF SizesAssumption
<1>4. PICK i \in Spoilt : \A k \in Spoilt : i <= k
  <2>1. Spoilt \in SUBSET Nat
    OBVIOUS
  <2> QED BY <1>3, <2>1, Least
<1>5. CASE i = 0
  BY <1>2, <1>4, <1>5 DEF StepOf
<1>6. CASE i # 0
  <2>1. i - 1 \in 0..MaxSeq /\ i - 1 \notin Spoilt
    BY <1>4, <1>6
  <2>2. Good(f[i - 1])
    BY <2>1
  <2>3. CASE i \in events
    <3>1. i \in 1..Len(log) /\ i <= u /\ Len(log) \in Nat
      BY <2>3 DEF TypeOK, Events
    <3>2. Apply(f[i - 1], i) \in Store
      <4>1. Within(f[i - 1], Job) /\ log[i].job \in Job
        <5>1. log[i] \in [job : Job, kind : Kind, body : Body \cup {"none"}]
          BY <3>1, ElementOfSeq DEF TypeOK
        <5> QED BY <5>1 DEF Within
      <4> QED BY <2>2, <3>1, <4>1, ApplyKeeps
    <3>3. Apply(f[i - 1], i).seq <= u
      BY <2>2, <3>1, ApplySees DEF Store, Events
    <3>4. OverSays(Apply(f[i - 1], i))
      BY <2>2, <3>1, ApplyOver
    <3> QED BY <1>2, <1>4, <1>6, <2>3, <3>2, <3>3, <3>4 DEF StepOf
  <2>4. CASE i \notin events
    BY <1>2, <1>4, <1>6, <2>2, <2>4 DEF StepOf
  <2> QED BY <2>3, <2>4
<1> QED BY <1>5, <1>6

(* The last word on a job puts it right, and no other event puts it wrong. *)
LEMMA ApplyTells ==
    ASSUME TypeOK, LogSays, Recounts, NEW x \in Store, OverSays(x),
           NEW i \in 1..Len(log), i > x.seq, NEW j \in Job, Settled(j), ~Late(j),
           i \in Told(j) => \A k \in Told(j) : k <= i,
           i \notin Told(j) => Right(x, j)
    PROVE  Right(Apply(x, i), j)
<1> DEFINE e == log[i]
           run == IF j = e.job THEN Reduce(RunOf(x.runs, j), e) ELSE x.runs[j]
<1>0. e \in Entry
  BY ElementOfSeq DEF TypeOK, Entry
<1>1. Kept(Apply(x, i).runs[j], run)
  BY ApplySees
<1>2. ~Over(job[j].at) /\ run # None => ~run.over
  <2> SUFFICES ASSUME ~Over(job[j].at), run # None PROVE ~run.over
    OBVIOUS
  <2>1. CASE j # e.job
    BY <2>1 DEF OverSays
  <2>2. CASE j = e.job
    <3>1. e.kind # "ended"
      BY <2>2 DEF Recounts, Tells, EventsOf, Over
    <3>2. RunOf(x.runs, j) \in Run /\ ~RunOf(x.runs, j).over
      BY RunOfType DEF OverSays, RunOf, EmptyRun, Store
    <3> QED BY <1>0, <2>2, <3>1, <3>2 DEF Reduce, Run, Entry, Kind
  <2> QED BY <2>1, <2>2
<1>3. CASE i \in Told(j)
  <2>1. e.body = Status(j) /\ e.job = j /\ e.kind # "step"
    BY <1>3 DEF Recounts, LastWord, Told, EventsOf
  <2>2. run \in Run /\ run.job = Status(j)
    <3>1. RunOf(x.runs, j) \in Run /\ (e.kind # "step" => e.body \in Body)
      BY RunOfType DEF Store, LogSays
    <3>2. Reduce(RunOf(x.runs, j), e) \in Run
      BY <1>0, <3>1, ReduceType DEF Entry
    <3>3. Reduce(RunOf(x.runs, j), e).job = e.body
      BY <1>0, <2>1, <3>1 DEF Reduce, Entry, Kind, Run
    <3> QED BY <2>1, <3>2, <3>3
  <2>3. Live(Status(j)) => Lasting(run)
    BY <1>2, <2>2 DEF Lasting, Live, Status, Over
  <2> HIDE DEF run
  <2> QED BY <1>1, <2>2, <2>3 DEF Kept, Right
<1>4. CASE i \notin Told(j)
  <2>1. Right(x, j)
    BY <1>4
  <2>2. j = e.job => e.kind = "step"
    BY <1>4 DEF Told, EventsOf
  <2>3. run = x.runs[j] \/ (x.runs[j] = None /\ run = EmptyRun)
    BY <1>0, <2>2 DEF Reduce, RunOf, EmptyRun
  <2>4. ~Live("unknown") /\ EmptyRun.job = "unknown"
    BY DEF Live, EmptyRun
  <2>5. Live(Status(j)) => run = x.runs[j] /\ run # None /\ run.job = Status(j)
    BY <2>1, <2>3 DEF Right
  <2>6. Live(Status(j)) => Lasting(run)
    BY <1>2, <2>5 DEF Lasting, Live, Status, Over
  <2>7. run # None /\ Live(run.job) => run.job = Status(j)
    BY <2>1, <2>3, <2>4 DEF Right
  <2> HIDE DEF run
  <2> QED BY <1>1, <2>5, <2>6, <2>7 DEF Kept, Right
<1> QED BY <1>3, <1>4

(* A backlog puts right each job whose last word is in it, and leaves so   *)
(* each whose last word was heard before it.                               *)
LEMMA ReplayTells ==
    ASSUME TypeOK, LogSays, Recounts, NEW st \in Store, OverSays(st), NEW from \in Nat,
           st.seq < from, NEW events, events \subseteq 1..Len(log), \A n \in events : from <= n,
           NEW j \in Job, Settled(j), ~Late(j), NEW last \in 0..Len(log),
           \A k \in Told(j) : k <= last,
           \/ last \in events /\ last \in Told(j)
           \/ last <= st.seq /\ Right(st, j)
    PROVE  Right(Replay(st, events), j)
<1>0. Len(log) \in Nat /\ Len(log) <= MaxSeq /\ st.seq \in Nat /\ MaxSeq \in Nat
  BY DEF TypeOK, Events, Store, SizesAssumption
<1>1. PICK f : Stores(f, st, events, MaxSeq) /\ Replay(st, events) = f[MaxSeq]
  BY ReplayIs
<1> DEFINE Good(x, n) == /\ x \in Store /\ OverSays(x) /\ (x.seq <= st.seq \/ x.seq <= n)
                         /\ last <= n \/ last <= st.seq => Right(x, j)
           Spoilt == {n \in 0..MaxSeq : ~Good(f[n], n)}
<1>2. \A n \in 0..MaxSeq : f[n] = StepOf(f, st, events, n)
  BY <1>1 DEF Stores
<1>3. SUFFICES ASSUME Spoilt # {} PROVE FALSE
  <2>1. CASE Good(f[MaxSeq], MaxSeq)
    BY <1>0, <1>1, <2>1
  <2>2. CASE ~Good(f[MaxSeq], MaxSeq)
    <3>1. MaxSeq \in Spoilt
      BY <1>0, <2>2
    <3> QED BY <1>3, <3>1
  <2> QED BY <2>1, <2>2
<1>4. PICK n \in Spoilt : \A k \in Spoilt : n <= k
  <2>1. Spoilt \in SUBSET Nat
    OBVIOUS
  <2> QED BY <1>3, <2>1, Least
<1>5. CASE n = 0
  <2>1. f[n] = st
    BY <1>2, <1>4, <1>5 DEF StepOf
  <2>2. last <= 0 => last <= st.seq
    BY <1>0
  <2>3. last <= st.seq => Right(st, j)
    BY <1>0
  <2> QED BY <1>0, <1>4, <1>5, <2>1, <2>2, <2>3
<1>6. CASE n # 0
  <2> DEFINE x == f[n - 1]
  <2>1. n - 1 \in 0..MaxSeq /\ n - 1 \notin Spoilt /\ n \in 0..MaxSeq
    BY <1>4, <1>6
  <2>2. Good(x, n - 1)
    BY <2>1
  <2>3. CASE n \in events
    <3>1. n \in 1..Len(log) /\ f[n] = Apply(x, n) /\ from <= n
      BY <1>2, <1>6, <2>1, <2>3 DEF StepOf
    <3>2. n > x.seq /\ x.seq \in Nat
      BY <1>0, <2>1, <2>2, <3>1 DEF Store, Events
    <3>3. Apply(x, n) \in Store
      <4>1. Within(x, Job) /\ log[n].job \in Job
        <5>1. log[n] \in [job : Job, kind : Kind, body : Body \cup {"none"}]
          BY <3>1, ElementOfSeq DEF TypeOK
        <5> QED BY <5>1 DEF Within
      <4> QED BY <2>2, <3>1, <4>1, ApplyKeeps
    <3>4. Apply(x, n).seq = n /\ OverSays(Apply(x, n))
      BY <2>2, <3>1, <3>2, ApplySees, ApplyOver
    <3>5. ASSUME last <= n \/ last <= st.seq PROVE Right(Apply(x, n), j)
      <4>1. last <= n
        BY <1>0, <3>1, <3>5
      <4>2. n \in Told(j) => \A k \in Told(j) : k <= n
        <5> SUFFICES ASSUME NEW k \in Told(j) PROVE k <= n
          OBVIOUS
        <5>1. k <= last /\ k \in Nat
          BY DEF Told, EventsOf
        <5> QED BY <1>0, <3>1, <4>1, <5>1
      <4>3. ASSUME n \notin Told(j) PROVE Right(x, j)
        <5>1. last <= n - 1 \/ last <= st.seq
          BY <1>0, <3>1, <4>1, <4>3
        <5> QED BY <2>2, <5>1
      <4> QED BY <2>2, <3>1, <3>2, <4>2, <4>3, ApplyTells
    <3>6. n \in Nat
      BY <3>1
    <3>7. Good(f[n], n)
      BY <3>1, <3>3, <3>4, <3>5, <3>6
    <3> QED BY <1>4, <3>7
  <2>4. CASE n \notin events
    <3>1. f[n] = x
      BY <1>2, <1>6, <2>1, <2>4 DEF StepOf
    <3>2. last <= n \/ last <= st.seq => last <= n - 1 \/ last <= st.seq
      BY <1>0, <2>1, <2>4
    <3>3. x.seq \in Nat
      BY <2>2 DEF Store, Events
    <3>4. x.seq <= n - 1 => x.seq <= n
      BY <2>1, <3>3
    <3>5. Good(f[n], n)
      BY <2>2, <3>1, <3>2, <3>4
    <3> QED BY <1>4, <3>5
  <2> QED BY <2>3, <2>4
<1> QED BY <1>5, <1>6

(* A settled job has a last word. *)
LEMMA LastOne ==
    ASSUME TypeOK, Recounts, NEW j \in Job, Settled(j), job[j].at # "none"
    PROVE  \E i \in Told(j) : \A k \in Told(j) : k <= i
<1> DEFINE Bounds == {n \in Nat : \A k \in Told(j) : k <= n}
<1>1. Told(j) \subseteq 1..Len(log) /\ Len(log) \in Nat
  BY DEF Told, EventsOf, TypeOK, Events
<1>2. Len(log) \in Bounds
  BY <1>1
<1>3. PICK n \in Bounds : \A m \in Bounds : n <= m
  <2>1. Bounds \in SUBSET Nat
    OBVIOUS
  <2> QED BY <1>2, <2>1, Least
<1>4. PICK i \in EventsOf(j) : log[i].kind = "queued"
  BY DEF Recounts, Tells, Settled
<1>5. i \in Told(j)
  BY <1>4 DEF Told
<1>6. CASE n \in Told(j)
  BY <1>3, <1>6
<1>7. CASE n \notin Told(j)
  <2>1. i <= n /\ i \in 1..Len(log)
    BY <1>1, <1>3, <1>5
  <2>2. \A k \in Told(j) : k <= n - 1
    BY <1>1, <1>3, <1>7
  <2>3. n - 1 \in Nat
    BY <1>3, <2>1
  <2>4. n - 1 \in Bounds
    BY <2>2, <2>3
  <2>5. n <= n - 1
    BY <1>3, <2>4
  <2> QED BY <1>3, <2>5
<1> QED BY <1>6, <1>7

(* A socket feeds the store: what it says counts when it is the tab's own. *)
LEMMA FedFollows ==
    ASSUME IInv, Follows, NEW s \in Slot, NEW st \in Store,
           NEW missed \in SUBSET Job,
           store' = Fed(s, st, missed), UNCHANGED <<job, log, socket, active>>,
           NEW to \in Sock, sock' = [sock EXCEPT ![s] = to],
           sock[s].at \in Served, to.at = "live", to.ws = sock[s].ws, to.asks = sock[s].asks,
           to.upto <= Len(log), st.seq <= Len(log), st.stray = store.stray, OverSays(st),
           InSight /\ s = socket =>
             /\ st.seq <= to.upto
             /\ \A j \in Job \ missed :
                  /\ job[j].ws = to.ws /\ Settled(j) /\ ~Late(j)
                  /\ \A i \in Told(j) : i <= to.upto
                  => Right(st, j)
    PROVE  Follows'
<1> USE DEF IInv
<1>0. /\ sock \in [Slot -> Sock] /\ Len(log) \in Nat /\ socket \in Slot \cup {None}
      /\ store \in Store
  BY TabTypes DEF TypeOK, Events
<1>1. sock'[s] = to /\ \A r \in Slot : r # s => sock'[r] = sock[r]
  BY <1>0
<1>2. /\ store'.seq = st.seq /\ store'.runs = st.runs /\ store'.missed = missed
      /\ store'.stray = (store.stray \/ s # socket \/ sock[s].asks = None)
  BY DEF Fed, Store
<1>3. InSight' => InSight /\ s = socket
  BY <1>0, <1>1, <1>2 DEF InSight, Store, Slot
<1>4. Recounts'
  BY RecountsStay DEF Follows
<1>5. OverSays(store)'
  BY <1>2 DEF OverSays
<1>6. Heard'
  <2>1. InSight' => store'.seq <= sock'[socket'].upto
    BY <1>1, <1>2, <1>3
  <2>2. ~store'.stray => s = socket /\ sock'[socket].at = "live" /\ sock[s].asks # None
    BY <1>0, <1>1, <1>2 DEF Store
  <2>3. ~store'.stray => active # None
    BY <2>2 DEF IInv, Asked, Slot, NoneAssumption
  <2> QED BY <1>0, <1>1, <1>2, <2>1, <2>2, <2>3 DEF Follows, Heard, Served
<1>7. ASSUME ~store'.stray
      PROVE  /\ InSight /\ s = socket /\ active = to.ws
             /\ \A j \in Job \ missed :
                  /\ job[j].ws = to.ws /\ Settled(j) /\ ~Late(j)
                  /\ \A i \in Told(j) : i <= to.upto
                  => Right(st, j)'
  <2>1. s = socket /\ sock[s].asks # None /\ ~store.stray /\ socket # None
    BY <1>0, <1>2, <1>7 DEF Store, NoneAssumption, Slot
  <2>2. InSight /\ active = to.ws
    BY <2>1 DEF InSight, IInv, Asked, Served
  <2> QED BY <2>1, <2>2 DEF Right, Status
<1>8. Shown'
  <2>1. ASSUME ~store'.stray, NEW j \in Job \ missed, job[j].ws = to.ws, Settled(j)', ~Late(j)',
               \A i \in Told(j)' : i <= to.upto
        PROVE  Right(store, j)'
    <3>1. Settled(j) /\ ~Late(j) /\ \A i \in Told(j) : i <= to.upto
      BY <2>1 DEF Settled, Late, Told, EventsOf
    <3> QED BY <1>2, <1>7, <2>1, <3>1 DEF Right
  <2>2. ASSUME InSight' PROVE RightUpTo(sock[socket].ws, sock[socket].upto)'
    <3>1. ~store'.stray /\ sock'[socket'] = to
      BY <1>1, <1>3, <2>2 DEF InSight
    <3> QED BY <1>2, <2>1, <3>1 DEF RightUpTo
  <2>3. ASSUME ~store'.stray PROVE RightUpTo(active, store.seq)'
    <3>1. /\ active' = to.ws /\ store'.seq = st.seq /\ st.seq <= to.upto
          /\ st.seq \in Nat /\ to.upto \in Nat
      BY <1>2, <1>7, <2>3 DEF Store, Events, Sock
    <3>2. ASSUME NEW j \in Job, \A i \in Told(j)' : i <= st.seq
          PROVE  \A i \in Told(j)' : i <= to.upto
      <4> SUFFICES ASSUME NEW i \in Told(j)' PROVE i <= to.upto
        OBVIOUS
      <4>1. i <= st.seq /\ i \in Nat
        BY <3>2 DEF Told, EventsOf
      <4> QED BY <3>1, <4>1
    <3> QED BY <1>2, <2>1, <2>3, <3>1, <3>2 DEF RightUpTo
  <2> QED BY <2>2, <2>3 DEF Shown
<1> QED BY <1>4, <1>5, <1>6, <1>8 DEF Follows

LEMMA ReadyFollows == ASSUME IInv, Follows, NEW s \in Slot, Ready(s) PROVE Follows'
<1> USE DEF IInv
<1> DEFINE events == {i \in Visible(sock[s].ws) : i \in sock[s].from..sock[s].upto}
           jobs == Snapshot(sock[s].ws)
           old == Replay(store, events)
           st == AdoptJobs(old, jobs)
           to == [sock[s] EXCEPT !.at = "live"]
           missed == Missed(s, events)
<1>0. /\ sock \in [Slot -> Sock] /\ Len(log) \in Nat /\ socket \in Slot \cup {None}
      /\ store \in Store /\ job \in [Job -> JobState]
  BY TabTypes DEF TypeOK, Events, JobState
<1>1. /\ sock[s].at = "ready" /\ store' = Fed(s, st, missed) /\ sock' = [sock EXCEPT ![s] = to]
      /\ UNCHANGED <<job, log, socket, active>> /\ missed \in SUBSET Job
  BY DEF Ready, waiting, Missed
<1>2. /\ to \in Sock /\ to.at = "live" /\ to.ws = sock[s].ws /\ to.asks = sock[s].asks
      /\ to.upto = sock[s].upto /\ to.upto <= Len(log) /\ sock[s].upto \in Nat
  BY <1>0 DEF Sock, Follows, Heard, Events
<1>3. /\ events \subseteq 1..Len(log)
      /\ \A i \in events : i <= sock[s].upto /\ sock[s].from <= i
      /\ sock[s].from \in Nat
  BY <1>0 DEF Visible, Sock, Events
<1>4. /\ \A j \in Job : jobs[j] \in Body \cup {"none"}
      /\ \A j \in Job : jobs[j] = IF j \in Newest(sock[s].ws) THEN Status(j) ELSE "none"
  BY StatusType DEF Snapshot
<1>5. old \in Store /\ old.seq <= Len(log) /\ OverSays(old) /\ old.stray = store.stray
  <2>1. events \subseteq 1..Len(log) /\ Len(log) <= Len(log) /\ store.seq <= Len(log) /\ OverSays(store)
    BY <1>0, <1>3 DEF Follows, Heard
  <2>2. Within(store, Job) /\ \A i \in events : log[i].job \in Job
    <3>1. \A i \in 1..Len(log) : log[i] \in Entry
      BY ElementOfSeq DEF TypeOK, Entry
    <3> QED BY <1>3, <3>1 DEF Within, Entry
  <2> HIDE DEF events
  <2>3. old \in Store /\ old.seq <= Len(log) /\ OverSays(old)
    BY <1>0, <2>1, ReplayHears DEF Follows
  <2>4. old.stray = store.stray
    BY <1>0, <2>1, <2>2, ReplayKeeps
  <2> QED BY <2>3, <2>4
<1>6. InSight /\ s = socket => old.seq <= to.upto
  <2> SUFFICES ASSUME InSight, s = socket PROVE old.seq <= to.upto
    OBVIOUS
  <2>1. store.seq <= sock[s].upto /\ OverSays(store) /\ sock[s].upto <= Len(log)
    BY DEF Follows, Heard
  <2>2. events \subseteq 1..sock[s].upto
    BY <1>2, <1>3
  <2> HIDE DEF events, to
  <2> QED BY <1>0, <1>2, <2>1, <2>2, ReplayHears DEF Follows
<1>r. ASSUME InSight, s = socket, NEW j \in Job \ missed, j \notin Newest(sock[s].ws),
             job[j].ws = to.ws, Settled(j), ~Late(j), \A i \in Told(j) : i <= to.upto
      PROVE  Right(old, j)
  <2>1. /\ sock[s].ws = active /\ active # None /\ ~store.stray
        /\ store.seq < sock[s].from
    BY <1>1, <1>r DEF InSight, Asked, Served, Follows, Heard
  <2>2. job[j].at # "none"
    BY <1>2, <1>r, <2>1 DEF Unborn
  <2>3. PICK last \in Told(j) : \A k \in Told(j) : k <= last
    BY <1>r, <2>2, LastOne DEF Follows
  <2>4. last \in 1..Len(log) /\ log[last].job = j /\ log[last].kind # "step" /\ last <= sock[s].upto
    BY <1>2, <1>r, <2>3 DEF Told, EventsOf
  <2>5. last \in Visible(sock[s].ws)
    BY <1>2, <1>r, <2>4 DEF Visible
  <2>6. CASE last \in events
    <3> HIDE DEF events
    <3> QED BY <1>0, <1>3, <1>r, <2>1, <2>3, <2>4, <2>6, ReplayTells DEF Follows, old
  <2>7. CASE last \notin events
    <3>1. last < sock[s].from
      BY <1>0, <1>2, <1>3, <2>4, <2>5, <2>7
    <3>2. Words(j, events) = {}
      <4> SUFFICES ASSUME NEW i \in Words(j, events) PROVE FALSE
        OBVIOUS
      <4>1. i \in events /\ i \in Told(j)
        BY <1>3 DEF Words, Told, EventsOf
      <4>2. sock[s].from <= i /\ i <= last /\ i \in Nat
        BY <1>3, <2>3, <4>1
      <4> QED BY <1>3, <2>4, <3>1, <4>2
    <3>3. j \notin store.missed /\ ~(last > store.seq)
      BY <1>r, <2>4, <2>5, <3>1, <3>2 DEF Missed, Words
    <3>4. last <= store.seq /\ store.seq \in Nat
      BY <1>0, <2>4, <3>3 DEF Store, Events
    <3>5. \A k \in Told(j) : k <= store.seq
      <4> SUFFICES ASSUME NEW k \in Told(j) PROVE k <= store.seq
        OBVIOUS
      <4>1. k <= last /\ k \in Nat
        BY <2>3 DEF Told, EventsOf
      <4> QED BY <2>4, <3>4, <4>1
    <3>6. Right(store, j)
      BY <1>2, <1>r, <2>1, <3>3, <3>5 DEF Follows, Shown, RightUpTo
    <3> HIDE DEF events
    <3>7. last \in 0..Len(log)
      BY <1>0, <2>4
    <3> QED BY <1>0, <1>3, <1>r, <2>1, <2>3, <3>4, <3>6, <3>7, ReplayTells DEF Follows, old
  <2> QED BY <2>6, <2>7
<1> HIDE DEF events, old, jobs, to, missed
<1>7. /\ st.seq = old.seq
      /\ \A j \in Job : Kept(st.runs[j],
           IF jobs[j] = "none" THEN old.runs[j]
           ELSE [job |-> jobs[j], over |-> RunOf(old.runs, j).over \/ jobs[j] = "done"])
  BY <1>4, <1>5, AdoptSees
<1>8. st \in Store /\ st.stray = store.stray
  <2>1. Within(old, Job) /\ \A j \in Job : jobs[j] # "none" => j \in Job
    BY DEF Within
  <2> QED BY <1>4, <1>5, <2>1, AdoptKeeps
<1> HIDE DEF st
<1>9. OverSays(st)
  <2> SUFFICES ASSUME NEW j \in Job, st.runs[j] # None, st.runs[j].over
               PROVE  Over(job[j].at)
    BY DEF OverSays
  <2>1. CASE jobs[j] = "none"
    BY <1>5, <1>7, <2>1 DEF Kept, OverSays
  <2>2. CASE jobs[j] # "none"
    <3>1. RunOf(old.runs, j).over \/ jobs[j] = "done"
      <4> DEFINE over == RunOf(old.runs, j).over \/ jobs[j] = "done"
      <4>1. st.runs[j] = [job |-> jobs[j], over |-> over]
        BY <1>7, <2>2 DEF Kept
      <4> HIDE DEF over
      <4>2. over
        BY <4>1
      <4> QED BY <4>2 DEF over
    <3>2. CASE jobs[j] = "done"
      BY <1>4, <3>2 DEF Status, Over
    <3>3. CASE RunOf(old.runs, j).over
      BY <1>5, <3>3 DEF RunOf, EmptyRun, OverSays
    <3> QED BY <3>1, <3>2, <3>3
  <2> QED BY <2>1, <2>2
<1>10. ASSUME InSight, s = socket, NEW j \in Job \ missed, job[j].ws = to.ws, Settled(j),
              ~Late(j), \A i \in Told(j) : i <= to.upto
       PROVE  Right(st, j)
  <2>0. job[j].at # "none" /\ Status(j) # "none"
    <3>1. job[j].at # "none"
      BY <1>1, <1>2, <1>10 DEF IInv, Unborn, Follows, Heard, Served
    <3> QED BY <1>0, <3>1 DEF Status, JobState, Phases
  <2>1. CASE j \notin Newest(sock[s].ws)
    <3>1. Right(old, j)
      BY <1>r, <1>10, <2>1
    <3>2. Kept(st.runs[j], old.runs[j])
      BY <1>4, <1>7, <2>1
    <3>3. Live(Status(j)) => Lasting(old.runs[j])
      <4> SUFFICES ASSUME Live(Status(j)), old.runs[j].over PROVE FALSE
        BY <3>1 DEF Lasting, Right
      <4>1. ~Over(job[j].at)
        BY DEF Live, Status, Over
      <4>2. old.runs[j] # None
        BY <3>1 DEF Right
      <4> QED BY <1>5, <4>1, <4>2 DEF OverSays
    <3> QED BY <3>1, <3>2, <3>3 DEF Kept, Right
  <2>2. CASE j \in Newest(sock[s].ws)
    <3> DEFINE run == [job |-> Status(j), over |-> RunOf(old.runs, j).over \/ Status(j) = "done"]
    <3>1. Kept(st.runs[j], run)
      BY <1>4, <1>7, <2>0, <2>2
    <3>2. run.job = Status(j) /\ run # None
      <4>1. run \in Run
        BY <1>5, <2>0, StatusType, RunOfType DEF Run, Store
      <4> QED BY <4>1
    <3>3. Live(Status(j)) => Lasting(run)
      <4> SUFFICES ASSUME Live(Status(j)), run.over PROVE FALSE
        BY <3>2 DEF Lasting
      <4>1. Status(j) # "done" /\ ~Over(job[j].at)
        BY DEF Live, Status, Over
      <4> QED BY <1>5, <4>1 DEF RunOf, EmptyRun, OverSays
    <3> HIDE DEF run
    <3> QED BY <3>1, <3>2, <3>3 DEF Kept, Right
  <2> QED BY <2>1, <2>2
<1> QED BY <1>0, <1>1, <1>2, <1>5, <1>6, <1>7, <1>8, <1>9, <1>10, FedFollows DEF Served

LEMMA TakeFollows == ASSUME IInv, Follows, NEW s \in Slot, Take(s) PROVE Follows'
<1> USE DEF IInv
<1>0. /\ sock \in [Slot -> Sock] /\ Len(log) \in Nat /\ socket \in Slot \cup {None}
      /\ store \in Store /\ log \in Seq(Entry) /\ Len(log) \in Events
  BY TabTypes DEF TypeOK, Events, Entry
<1> DEFINE events == {i \in Visible(sock[s].ws) : i > sock[s].upto}
           missed(i) == {j \in store.missed : Words(j, {i}) = {}}
<1>1. PICK i \in events : /\ \A k \in events : i <= k
                          /\ store' = Fed(s, Apply(store, i), missed(i))
                          /\ sock' = [sock EXCEPT ![s].upto = i]
  BY DEF Take
<1>2. sock[s].at = "live" /\ UNCHANGED <<job, log, socket, active>> /\ missed(i) \in SUBSET Job
  BY <1>0 DEF Take, waiting, Store
<1> DEFINE to == [sock[s] EXCEPT !.upto = i]
           st == Apply(store, i)
           e == log[i]
<1>3. i \in 1..Len(log) /\ i > sock[s].upto /\ sock[s].upto \in Nat /\ e \in Entry
  <2>1. i \in 1..Len(log) /\ i > sock[s].upto
    BY DEF Visible
  <2> QED BY <1>0, <2>1, ElementOfSeq DEF Sock, Events
<1>4. /\ to \in Sock /\ to.at = "live" /\ to.ws = sock[s].ws /\ to.asks = sock[s].asks
      /\ to.upto = i /\ i <= Len(log)
  <2>1. i \in Events /\ i <= Len(log) /\ sock[s] \in Sock
    BY <1>0, <1>3 DEF Events
  <2> HIDE DEF events
  <2> QED BY <1>2, <2>1 DEF Sock
<1>5. st \in Store /\ st.stray = store.stray /\ OverSays(st) /\ st.seq <= Len(log)
  <2>1. Within(store, Job) /\ e.job \in Job
    BY <1>3 DEF Within, Entry
  <2>2. st \in Store /\ st.stray = store.stray
    BY <1>0, <1>3, <2>1, ApplyKeeps
  <2>3. OverSays(st)
    BY <1>0, <1>3, ApplyOver DEF Follows
  <2>4. store.seq <= Len(log)
    BY DEF Follows, Heard
  <2>5. st.seq <= Len(log)
    <3> HIDE DEF events
    <3> QED BY <1>0, <1>3, <2>4, ApplySees DEF Store, Events
  <2> QED BY <2>2, <2>3, <2>5
<1>6. ASSUME InSight, s = socket
      PROVE  /\ st.seq <= to.upto
             /\ \A j \in Job \ missed(i) :
                  /\ job[j].ws = to.ws /\ Settled(j) /\ ~Late(j)
                  /\ \A k \in Told(j) : k <= to.upto
                  => Right(st, j)
  <2>1. store.seq <= sock[s].upto /\ store.seq \in Nat
    BY <1>0, <1>6 DEF Follows, Heard, Store, Events
  <2>2. i > store.seq
    BY <1>3, <2>1
  <2>3. st.seq = i
    BY <1>0, <1>3, <2>2, ApplySees
  <2>4. ASSUME NEW j \in Job \ missed(i), job[j].ws = to.ws, Settled(j), ~Late(j),
               \A k \in Told(j) : k <= to.upto
        PROVE  Right(st, j)
    <3>1. i \in Told(j) => \A k \in Told(j) : k <= i
      BY <1>4, <2>4
    <3>2. ASSUME i \notin Told(j) PROVE Right(store, j)
      <4>1. \A k \in Told(j) : k <= sock[s].upto
        <5> SUFFICES ASSUME NEW k \in Told(j), k > sock[s].upto PROVE FALSE
          BY <1>3 DEF Told, EventsOf
        <5>1. k \in events
          BY <1>4, <2>4 DEF Told, EventsOf, Visible
        <5>2. k = i
          BY <1>1, <1>3, <1>4, <2>4, <5>1 DEF Told, EventsOf
        <5> QED BY <3>2, <5>2
      <4>2. j \notin store.missed
        BY <1>3, <2>4, <3>2 DEF Words, Told, EventsOf
      <4> QED BY <1>2, <1>4, <1>6, <2>4, <4>1, <4>2 DEF Follows, Shown, RightUpTo
    <3> HIDE DEF missed, to, events
    <3> QED BY <1>0, <1>3, <2>2, <2>4, <3>1, <3>2, ApplyTells DEF Follows
  <2>5. st.seq <= to.upto
    BY <1>3, <1>4, <2>3
  <2> HIDE DEF st, to, events, missed
  <2> QED BY <2>4, <2>5
<1>7. sock' = [sock EXCEPT ![s] = to]
  BY <1>1
<1>8. store' = Fed(s, st, missed(i))
  BY <1>1
<1> HIDE DEF st, to, missed
<1> QED BY <1>2, <1>4, <1>5, <1>6, <1>7, <1>8, FedFollows DEF Served

(* An answer adds a run of which nothing is known. *)
LEMMA AnswerFollows == ASSUME IInv, Follows, NEW j \in Job, Answer(j) PROVE Follows'
<1> USE DEF IInv
<1>1. /\ store' = SetCurrentJob(store, j) /\ UNCHANGED <<job, log, sock, socket, active>>
      /\ store \in Store
  BY TabTypes DEF Answer
<1>2. /\ store'.seq = store.seq /\ store'.stray = store.stray /\ store'.missed = store.missed
      /\ \A i \in Job : store'.runs[i] = IF i = j THEN RunOf(store.runs, j) ELSE store.runs[i]
  BY <1>1 DEF SetCurrentJob, Store, Runs
<1>3. Recounts'
  BY <1>1, RecountsStay DEF Follows
<1>4. OverSays(store)'
  BY <1>1, <1>2 DEF Follows, OverSays, RunOf, EmptyRun
<1>5. Heard'
  BY <1>1, <1>2 DEF Follows, Heard, InSight
<1>6. ASSUME NEW w, NEW u, RightUpTo(w, u) PROVE RightUpTo(w, u)'
  <2> SUFFICES ASSUME NEW i \in Job \ store.missed, job[i].ws = w, Settled(i), ~Late(i),
                      \A k \in Told(i) : k <= u
               PROVE  Right(store, i)'
    BY <1>1, <1>2 DEF RightUpTo, Settled, Late, Told, EventsOf
  <2>1. Right(store, i)
    BY <1>6 DEF RightUpTo
  <2> QED BY <1>1, <1>2, <2>1 DEF Right, Status, RunOf, EmptyRun, Live
<1>7. Shown'
  <2>1. ASSUME InSight, sock[socket].at = "live"
        PROVE  RightUpTo(sock[socket].ws, sock[socket].upto)'
    <3>1. RightUpTo(sock[socket].ws, sock[socket].upto)
      BY <2>1 DEF Follows, Shown
    <3>2. ASSUME NEW w, NEW u, w = sock[socket].ws, u = sock[socket].upto
          PROVE  RightUpTo(w, u)'
      <4>1. RightUpTo(w, u)
        BY <3>1, <3>2
      <4> QED BY <1>6, <4>1
    <3> QED BY <1>1, <3>2 DEF RightUpTo
  <2>2. ASSUME active # None, ~store.stray PROVE RightUpTo(active, store.seq)'
    <3>1. RightUpTo(active, store.seq)
      BY <2>2 DEF Follows, Shown
    <3>2. ASSUME NEW w, NEW u, w = active, u = store.seq PROVE RightUpTo(w, u)'
      <4>1. RightUpTo(w, u)
        BY <3>1, <3>2
      <4> QED BY <1>6, <4>1
    <3> QED BY <1>1, <1>2, <3>2 DEF RightUpTo
  <2> QED BY <1>1, <1>2, <2>1, <2>2 DEF Shown, InSight
<1> QED BY <1>3, <1>4, <1>5, <1>7 DEF Follows

(* A socket that breaks, or that ends, is no longer served. *)
LEMMA EndFollows ==
    ASSUME IInv, Follows, NEW s \in Slot, HandshakeFails(s) \/ Break(s) \/ Close(s)
    PROVE  Follows'
<1>0. sock \in [Slot -> Sock]
  BY TabTypes DEF IInv
<1>1. CASE HandshakeFails(s)
  <2> DEFINE to == [sock[s] EXCEPT !.at = "closing", !.code = UNAUTHORISED]
  <2>1. to.at = "closing" /\ to.upto = sock[s].upto
    BY <1>0 DEF Sock
  <2>2. sock' = [sock EXCEPT ![s] = to] /\ UNCHANGED <<job, log, store, socket, active>>
    BY <1>1 DEF HandshakeFails, Serve, handling, tab
  <2> HIDE DEF to
  <2> QED BY <2>1, <2>2, SockFollows DEF Served
<1>2. CASE Break(s)
  <2> DEFINE to == [sock[s] EXCEPT !.at = "closing"]
  <2>1. to.at = "closing" /\ to.upto = sock[s].upto
    BY <1>0 DEF Sock
  <2>2. sock' = [sock EXCEPT ![s] = to] /\ UNCHANGED <<job, log, store, socket, active>>
    BY <1>2 DEF Break, Serve, handling, tab
  <2> HIDE DEF to
  <2> QED BY <2>1, <2>2, SockFollows DEF Served
<1>3. CASE Close(s)
  <2>1. sock' = [sock EXCEPT ![s] = Shut] /\ UNCHANGED <<job, log, store, active>>
    BY <1>3 DEF Close, waiting
  <2>2. socket' \in {socket, None}
    BY <1>3 DEF Close
  <2>3. Shut.at = "none" /\ Shut.upto = 0
    BY DEF Shut
  <2> QED BY <2>1, <2>2, <2>3, SockFollows DEF Served
<1> QED BY <1>1, <1>2, <1>3

LEMMA MembershipFollows ==
    ASSUME IInv, Follows, NEW w \in Workspace, CloseMembership(w)
    PROVE  Follows'
<1>0. sock \in [Slot -> Sock] /\ socket \in Slot \cup {None}
  BY TabTypes DEF IInv
<1>1. UNCHANGED <<job, log, store, socket, active>>
  BY DEF CloseMembership, tab
<1>2. PICK late \in SUBSET {s \in Slot : sock[s].at = "dropped" /\ sock[s].ws = w} :
        sock' = [s \in Slot |->
                  IF s \in late \/ (sock[s].at \in Served /\ sock[s].ws = w)
                  THEN [sock[s] EXCEPT !.at = IF s \in late THEN @ ELSE "closing",
                                       !.code = FORBIDDEN]
                  ELSE sock[s]]
  BY DEF CloseMembership
<1>3. ASSUME NEW s \in Slot
      PROVE  /\ sock'[s].upto = sock[s].upto
             /\ sock'[s].at \in Served \cup {"asked"} => sock'[s] = sock[s]
  <2>0. sock[s] \in Sock
    BY <1>0
  <2>1. CASE s \in late
    <3>1. sock'[s] = [sock[s] EXCEPT !.at = "dropped", !.code = FORBIDDEN]
      BY <1>2, <2>1
    <3> QED BY <2>0, <3>1 DEF Sock, Served
  <2>2. CASE s \notin late /\ sock[s].at \in Served /\ sock[s].ws = w
    <3>1. sock'[s] = [sock[s] EXCEPT !.at = "closing", !.code = FORBIDDEN]
      BY <1>2, <2>2
    <3> QED BY <2>0, <3>1 DEF Sock, Served
  <2>3. CASE s \notin late /\ ~(sock[s].at \in Served /\ sock[s].ws = w)
    BY <1>2, <2>3
  <2> QED BY <2>1, <2>2, <2>3
<1>4. \A s \in Slot : /\ sock'[s].upto \in {0, sock[s].upto}
                      /\ sock'[s].at \in Served => sock'[s].ws # None
  BY <1>3 DEF Follows, Heard
<1>5. socket' # None /\ sock'[socket'].at \in Served =>
        store' = store /\ socket' = socket /\ sock'[socket] = sock[socket]
  BY <1>0, <1>1, <1>3
<1>6. socket' # None /\ sock'[socket'].at = "asked" =>
        store' = store /\ socket' = socket /\ sock'[socket] = sock[socket]
  BY <1>0, <1>1, <1>3
<1> QED BY <1>1, <1>4, <1>5, <1>6, QuietFollows

(* The sockets the tab lets go of or opens are not served. *)
LEMMA DropFollows ==
    ASSUME IInv, Follows, sock' = Drop, socket' = None, UNCHANGED <<job, log>>,
           store' \in {store, Blank}, active' = active \/ store' = Blank
    PROVE  Follows'
<1>1. \A s \in Slot : /\ sock'[s].upto \in {0, sock[s].upto}
                      /\ sock'[s].at \in Served => sock'[s].ws # None
  BY Dropped DEF IInv, Follows, Heard, Served
<1> QED BY <1>1, QuietFollows

LEMMA OpenFollows ==
    ASSUME IInv, Follows, NEW w \in Place, NEW since \in Nat, Open(Drop, w, since),
           UNCHANGED <<job, log>>, store' \in {store, Blank}, store'.seq = since,
           active' = active \/ active = None \/ store' = Blank
    PROVE  Follows'
<1>1. /\ socket' \in Slot /\ sock'[socket'].at = "asked" /\ sock'[socket'].upto = 0
      /\ sock'[socket'].from = since + 1
      /\ \A r \in Slot : r # socket' => sock'[r] = Drop[r]
  BY Opened DEF IInv
<1>2. \A s \in Slot : /\ sock'[s].upto \in {0, sock[s].upto}
                      /\ sock'[s].at \in Served => sock'[s].ws # None
  BY <1>1, Dropped DEF IInv, Follows, Heard, Served
<1>3. ~(sock'[socket'].at \in Served) /\ store'.seq < sock'[socket'].from
  BY <1>1 DEF Served
<1> QED BY <1>2, <1>3, QuietFollows

LEMMA ConnectFollows ==
    ASSUME IInv, Follows, NEW w \in Place, Connect(w), UNCHANGED <<job, log, store>>,
           active' = active \/ active = None
    PROVE  Follows'
<1>1. CASE socket # None /\ sock[socket].asks = w
  <2>1. UNCHANGED <<sock, socket>>
    BY <1>1 DEF Connect
  <2> QED BY <2>1, QuietFollows DEF Follows, Heard
<1>2. CASE ~(socket # None /\ sock[socket].asks = w)
  <2>1. Open(Drop, w, store.seq)
    BY <1>2 DEF Connect
  <2> QED BY <2>1, SeqType, OpenFollows DEF IInv
<1> QED BY <1>1, <1>2

LEMMA MoveFollows ==
    ASSUME IInv, Follows, Moving \/ Logout \/ Login \/ \E w \in Workspace : Switch(w)
    PROVE  Follows'
<1>0. /\ active \in Place /\ Landing \in Place /\ None \in Place /\ Workspace \subseteq Place
      /\ 0 \in Nat
  BY LandingType, TabTypes DEF IInv, Place
<1>b. Blank.seq = 0
  BY DEF Blank
<1>1. CASE Reconnect
  BY <1>0, <1>1, ConnectFollows DEF Reconnect, waiting
<1>2. CASE LeaveLost \/ LogoutSettled
  BY <1>2, DropFollows DEF LeaveLost, LogoutSettled, Forget, waiting
<1>3. CASE Me
  <2>1. /\ UNCHANGED <<job, log, store>> /\ active' \in Place
        /\ active' = active \/ active = None
    BY <1>0, <1>3 DEF Me, waiting
  <2>2. Connect(active') \/ UNCHANGED <<sock, socket>>
    BY <1>3 DEF Me
  <2>3. CASE Connect(active')
    BY <2>1, <2>3, ConnectFollows
  <2>4. CASE UNCHANGED <<sock, socket>>
    BY <2>1, <2>4, QuietFollows DEF Follows, Heard
  <2> QED BY <2>2, <2>3, <2>4
<1>4. CASE Logout
  BY <1>4, DropFollows DEF Logout, waiting
<1>5. CASE Login
  BY <1>0, <1>b, <1>5, OpenFollows DEF Login, Reset, waiting
<1>6. CASE \E w \in Workspace : Switch(w)
  BY <1>0, <1>b, <1>6, OpenFollows DEF Switch, Reset, waiting
<1> QED BY <1>1, <1>2, <1>3, <1>4, <1>5, <1>6 DEF Moving

LEMMA FollowsAtStart == Init => Follows
<1> SUFFICES ASSUME Init PROVE Follows
  OBVIOUS
<1>1. log = <<>> /\ \A j \in Job : EventsOf(j) = {}
  BY DEF Init, EventsOf
<1>2. \A j \in Job : job[j].at = "none" /\ ~job[j].due
  BY DEF Init
<1>3. Recounts
  BY <1>1, <1>2 DEF Recounts, Tells, LastWord, Told
<1>4. OverSays(store)
  BY BlankType DEF Init, OverSays
<1>5. Heard /\ Shown
  <2>1. store.seq = 0 /\ Len(log) = 0 /\ socket = None
    BY <1>1 DEF Init, Blank
  <2>3. active = None
    BY DEF Init
  <2>2. \A s \in Slot : sock[s].upto = 0 /\ sock[s].at = "none"
    BY DEF Init, Shut
  <2> QED BY <2>1, <2>2, <2>3 DEF Heard, Shown, InSight, Served
<1> QED BY <1>3, <1>4, <1>5 DEF Follows

LEMMA FollowsKept == IInv /\ Follows /\ [Next]_vars => Follows'
<1> SUFFICES ASSUME IInv, Follows, [Next]_vars PROVE Follows'
  OBVIOUS
<1>1. ASSUME NEW j \in Job, Announced(j) \/ Answer(j) PROVE Follows'
  BY <1>1, QueueFollows, AnswerFollows DEF Steps
<1>2. CASE Queueing
  BY <1>2, QueueFollows DEF Queueing, Steps
<1>3. ASSUME NEW s \in Slot, Serving(s) \/ HandshakeFails(s) \/ Break(s) PROVE Follows'
  BY <1>3, HandshakeFollows, ReadyFollows, TakeFollows, EndFollows DEF Serving
<1>4. CASE Moving \/ Logout \/ Login
  BY <1>4, MoveFollows
<1>5. ASSUME NEW w \in Workspace, Switch(w) \/ CloseMembership(w) PROVE Follows'
  BY <1>5, MoveFollows, MembershipFollows
<1>6. CASE UNCHANGED vars
  BY <1>6, QuietFollows DEF vars, server, tab, Follows, Heard, Served
<1> QED BY <1>1, <1>2, <1>3, <1>4, <1>5, <1>6 DEF Next

(* Once the tab has caught up, its screen is the queue: every job of its   *)
(* workspace that waits or runs is shown as it is, and nothing else is     *)
(* shown waiting or running, whatever the snapshot overtook or the store   *)
(* let go of, and whatever the ring forgot of the jobs the snapshot tells  *)
(* of (reduce, adoptJobs, pruneRuns).                                      *)
THEOREM ScreenShowsTheQueue == Spec => []ScreenIsTheQueue
<1>1. IInv /\ Follows => ScreenIsTheQueue
  <2> SUFFICES ASSUME IInv, Follows, CaughtUp, ~store.stray, NEW j \in Job \ store.missed, ~Late(j)
               PROVE  /\ job[j].ws = active /\ Live(Status(j)) =>
                           store.runs[j] # None /\ store.runs[j].job = Status(j)
                      /\ store.runs[j] # None /\ Live(store.runs[j].job) =>
                           job[j].ws = active /\ Status(j) = store.runs[j].job
    BY DEF ScreenIsTheQueue
  <2>1. socket \in Slot /\ sock[socket].at = "live" /\ sock[socket].ws = active
    BY TabTypes DEF IInv, CaughtUp
  <2>2. InSight
    BY <2>1 DEF InSight, IInv, Asked, Served, Follows, Heard, CaughtUp
  <2>3. ASSUME job[j].ws = active PROVE Right(store, j)
    <3>1. Settled(j)
      BY <2>3 DEF CaughtUp, Settled
    <3>2. \A i \in Told(j) : i <= sock[socket].upto
      BY <2>3 DEF CaughtUp, Visible, Told, EventsOf
    <3> QED BY <2>1, <2>2, <2>3, <3>1, <3>2 DEF Follows, Shown, RightUpTo
  <2>4. store.runs[j] # None /\ Live(store.runs[j].job) => job[j].ws = active
    BY DEF IInv, Ours, Live
  <2> QED BY <2>3, <2>4 DEF Right
<1>2. Init => IInv /\ Follows
  BY Start0, FollowsAtStart
<1>3. IInv /\ Follows /\ [Next]_vars => (IInv /\ Follows)'
  BY Keeps, FollowsKept
<1> QED BY <1>1, <1>2, <1>3, PTL DEF Spec
=============================================================================
