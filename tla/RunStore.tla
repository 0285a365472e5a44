------------------------------ MODULE RunStore ------------------------------
(***************************************************************************)
(* What one browser tab shows of its workspace's jobs: the store every     *)
(* screen reads (web/src/state/runStore.ts), the sockets that fed it and   *)
(* the ones it has closed and not heard the end of, and the moves of the   *)
(* tab between workspaces and accounts (web/src/state/auth.ts and          *)
(* queries/workspaces.ts), against the queue that announces its jobs       *)
(* (server/jobs/runner.py) and the handler of /ws (core/routes/stream.py). *)
(* The hand-over between the bus and the handler is EventStream's.         *)
(***************************************************************************)
EXTENDS Integers, Sequences, FiniteSets

CONSTANTS Workspace,
          Jobs,      \* bound: jobs submitted, numbered in that order
          MaxSeq,    \* bound: events published
          Slots,     \* bound: sockets open or not yet closed
          Ring,      \* events the bus keeps
          MaxRuns,   \* runs the store keeps, the live ones apart
          SnapshotLimit,  \* jobs the snapshot of a connection tells of
          Gestures,  \* bound: switches, logouts, and memberships closed
          Breaks,    \* bound: connections that break, databases that fail
          None

ASSUME SizesAssumption == /\ Jobs \in Nat \ {0} /\ Slots \in Nat \ {0}
                          /\ Ring \in Nat \ {0} /\ MaxRuns \in Nat \ {0}
                          /\ SnapshotLimit \in Nat \ {0}
                          /\ MaxSeq \in Nat /\ Gestures \in Nat /\ Breaks \in Nat

VARIABLES
  job,       \* job[j]: its workspace, how far its thread is, its announcement
  log,       \* every event published, in the order of their numbers
  member,    \* the workspaces the account may enter
  home,      \* the one the account was last in, for the server
  session,   \* the cookie is good
  sock,      \* sock[s]: one connection, from either side
  active,    \* the workspace the tab asks for
  socket,    \* this.socket, None when there is none or it has closed
  timer,     \* a reconnect is scheduled
  refused,   \* the server has said 4401 (unauthorised) or 4403 (lost)
  store,     \* lastSeq, currentJobId and the runs; whether a stray socket has fed
             \* it, and the jobs whose last word it has missed
  answers,   \* jobs this tab submitted whose answer is on its way
  asking,    \* the tab waits for `me` to say where it lands
  out,       \* a logout has been asked for
  gestures, breaks

server == <<job, log, member, home, session>>
tab == <<active, socket, timer, refused, store, asking, out>>
vars == <<server, sock, tab, answers, gestures, breaks>>

Job == 1..Jobs
Slot == 1..Slots
Place == Workspace \cup {None}
Body == {"queued", "running", "done"}
UNAUTHORISED == 4401
FORBIDDEN == 4403
Code == {0, UNAUTHORISED, FORBIDDEN}
Kind == {"queued", "started", "step", "ended"}
Events == 0..MaxSeq
Phases == {"none", "queued", "starting", "running", "ending", "done"}
Run == [job : Body \cup {"unknown"}, over : BOOLEAN]

ASSUME NoneAssumption == None \notin Workspace \cup (1..Jobs) \cup (1..Slots) \cup Run

Shut == [at |-> "none", asks |-> None, ws |-> None, from |-> 1,
         upto |-> 0, code |-> 0]
Blank == [seq |-> 0, current |-> None, runs |-> [j \in Job |-> None], stray |-> FALSE,
          missed |-> {}]

TypeOK ==
  /\ job \in [Job -> [at : Phases, ws : Place, due : BOOLEAN]]
  /\ log \in Seq([job : Job, kind : Kind, body : Body \cup {"none"}])
  /\ Len(log) \in Events
  /\ member \in SUBSET Workspace /\ home \in Place /\ session \in BOOLEAN
  /\ sock \in [Slot -> [at : {"none", "asked", "ready", "live", "closing", "dropped"},
                        asks : Place, ws : Place, from : Nat,
                        upto : Events, code : Code]]
  /\ active \in Place /\ socket \in Slot \cup {None} /\ timer \in BOOLEAN
  /\ refused \in SUBSET {UNAUTHORISED, FORBIDDEN}
  /\ store \in [seq : Events, current : Job \cup {None}, runs : [Job -> Run \cup {None}],
               stray : BOOLEAN, missed : SUBSET Job]
  /\ answers \in SUBSET Job /\ asking \in BOOLEAN
  /\ out \in BOOLEAN
  /\ gestures \in 0..Gestures /\ breaks \in 0..Breaks

Init ==
  /\ job = [j \in Job |-> [at |-> "none", ws |-> None, due |-> FALSE]]
  /\ log = <<>>
  /\ member = Workspace /\ home \in Workspace /\ session = TRUE
  /\ sock = [s \in Slot |-> Shut]
  /\ active = None /\ socket = None /\ timer = FALSE /\ refused = {}
  /\ store = Blank
  /\ answers = {} /\ asking = TRUE /\ out = FALSE
  /\ gestures = 0 /\ breaks = 0

-----------------------------------------------------------------------------
(* The queue: a status changes first and is published after, and the       *)
(* announcement of a job is made by the request that queued it while the   *)
(* job's own thread may be anywhere.                                       *)

Status(j) == CASE job[j].at = "queued" -> "queued"
               [] job[j].at \in {"starting", "running"} -> "running"
               [] job[j].at \in {"ending", "done"} -> "done"
               [] OTHER -> "none"

EventsOf(j) == {i \in 1..Len(log) : log[i].job = j}

Live(body) == body \in {"queued", "running"}

Publish(j, kind, body) == /\ Len(log) < MaxSeq
                          /\ log' = Append(log, [job |-> j, kind |-> kind, body |-> body])

queueing == <<member, home, session, sock, tab, gestures, breaks>>

Queue(j, w) ==
  /\ job[j].at = "none" /\ \A i \in 1..(j - 1) : job[i].at # "none"
  /\ job' = [job EXCEPT ![j] = [at |-> "queued", ws |-> w, due |-> TRUE]]

(* Somebody else's job, or this tab's, whose answer comes back to it. *)
Submit(j, w) == /\ Queue(j, w) /\ UNCHANGED <<log, answers, queueing>>

SubmitHere(j) ==
  /\ session /\ active \in member
  /\ Queue(j, active)
  /\ answers' = answers \cup {j}
  /\ UNCHANGED <<log, queueing>>

(* What `job.queued` says of the job was read after the lock was left, and  *)
(* is numbered later still: any status it has had since.                   *)
Announce(j) ==
  /\ job[j].due
  /\ \E body \in ({"queued", Status(j)} \cup {log[i].body : i \in EventsOf(j)}) \ {"none"} :
       Publish(j, "queued", body)
  /\ job' = [job EXCEPT ![j].due = FALSE]
  /\ UNCHANGED <<answers, queueing>>

Moves(j, from, to) == job[j].at = from /\ job' = [job EXCEPT ![j].at = to]

Dispatch(j) == Moves(j, "queued", "starting") /\ UNCHANGED <<log, answers, queueing>>

Start(j) == /\ Moves(j, "starting", "running") /\ Publish(j, "started", "running")
            /\ UNCHANGED <<answers, queueing>>

Step(j) ==
  /\ job[j].at = "running"
  /\ Publish(j, "step", "none")
  /\ UNCHANGED <<job, answers, queueing>>

Settle(j) == Moves(j, "running", "ending") /\ UNCHANGED <<log, answers, queueing>>

End(j) == /\ Moves(j, "ending", "done") /\ Publish(j, "ended", "done")
          /\ UNCHANGED <<answers, queueing>>

CancelQueued(j) == /\ Moves(j, "queued", "done") /\ Publish(j, "ended", "done")
                   /\ UNCHANGED <<answers, queueing>>

-----------------------------------------------------------------------------
(* The reducer *)

(* Slip of reduce: an event that carries no job empties the run's. *)
ReduceEmptying(run, e) ==
  IF e.kind = "ended" THEN [job |-> e.body, over |-> TRUE] ELSE [run EXCEPT !.job = e.body]

Reduce(run, e) ==
  CASE e.kind \in {"queued", "started"} -> [run EXCEPT !.job = e.body]
    [] e.kind = "ended" -> [job |-> e.body, over |-> TRUE]
    [] OTHER -> run

Known(runs) == {j \in Job : runs[j] # None}
Finished(runs) == {j \in Known(runs) : runs[j].over \/ runs[j].job = "done"}
Unknown(runs) == {j \in Known(runs) : ~runs[j].over /\ runs[j].job = "unknown"}

(* The `n` runs to let go of: finished ones, then unknown ones, each oldest *)
(* first; fewer when there are no more.  A run's age is its job's.          *)
Leaves(runs, n) ==
  LET older(i, j) == \/ i \in Finished(runs) /\ j \in Unknown(runs)
                     \/ i < j /\ ({i, j} \subseteq Finished(runs) \/ {i, j} \subseteq Unknown(runs))
      all == Finished(runs) \cup Unknown(runs)
  IN CHOOSE gone \in SUBSET all :
       /\ Cardinality(gone) = (IF n < Cardinality(all) THEN n ELSE Cardinality(all))
       /\ \A i \in gone, j \in all \ gone : older(i, j)

PruneRuns(runs) ==
  LET n == Cardinality(Known(runs)) - MaxRuns
  IN IF n <= 0 THEN runs
     ELSE [j \in Job |-> IF j \in Leaves(runs, n) THEN None ELSE runs[j]]

EmptyRun == [job |-> "unknown", over |-> FALSE]
RunOf(runs, j) == IF runs[j] = None THEN EmptyRun ELSE runs[j]

(* One event, by its number in the log. *)
Apply(st, i) ==
  LET e == log[i] IN
  IF i <= st.seq THEN st
  ELSE [st EXCEPT !.seq = i,
        !.current = CASE e.kind \in {"queued", "started"} -> e.job
                      [] e.kind = "ended" /\ st.current = e.job -> None
                      [] OTHER -> st.current,
        !.runs = PruneRuns([st.runs EXCEPT ![e.job] = Reduce(RunOf(st.runs, e.job), e)])]

(* Slip of adoptJobs: what the events said of a run is kept. *)
AdoptUnknown(st, jobs) ==
  LET told == {j \in Job : jobs[j] # "none" /\ RunOf(st.runs, j).job = "unknown"}
  IN [st EXCEPT !.runs = PruneRuns([j \in Job |->
        IF j \in told THEN [job |-> jobs[j], over |-> jobs[j] = "done"] ELSE st.runs[j]])]

(* A backlog, event by event. *)
Replay(st, events) ==
  LET replayed[i \in Events] ==
        IF i = 0 THEN st
        ELSE IF i \in events THEN Apply(replayed[i - 1], i) ELSE replayed[i - 1]
  IN replayed[MaxSeq]

(* The snapshot wins over the events, and the oldest live job is current. *)
AdoptJobs(st, jobs) ==
  LET told == {j \in Job : jobs[j] # "none"}
      live == {j \in told : Live(jobs[j])}
  IN IF told = {} THEN st
     ELSE [st EXCEPT
             !.current = IF live = {} THEN @ ELSE CHOOSE j \in live : \A i \in live : j <= i,
             !.runs = PruneRuns([j \in Job |->
                IF j \in told
                THEN [job |-> jobs[j], over |-> RunOf(st.runs, j).over \/ jobs[j] = "done"]
                ELSE st.runs[j]])]

SetCurrentJob(st, j) ==
  [st EXCEPT !.current = j, !.runs = [@ EXCEPT ![j] = RunOf(st.runs, j)]]

-----------------------------------------------------------------------------
(* The handler of /ws *)

Served == {"ready", "live"}

Landing == IF home \in member THEN home
           ELSE IF member # {} THEN CHOOSE w \in member : TRUE ELSE None

Visible(w) == {i \in 1..Len(log) : job[log[i].job].ws = w}
Oldest == IF Len(log) > Ring THEN Len(log) - Ring + 1 ELSE 1

handling == <<job, log, member, home, session, tab, answers, gestures>>

Serve(s, to) == sock' = [sock EXCEPT ![s] = to] /\ UNCHANGED handling

(* The access, the subscription and the backlog.  A workspace that is not  *)
(* asked for is the account's own.                                         *)
Handshake(s) ==
  LET w == IF sock[s].asks # None THEN sock[s].asks ELSE Landing
      refusal == CASE ~session -> UNAUTHORISED [] w \notin member -> FORBIDDEN [] OTHER -> 0
  IN /\ sock[s].at = "asked"
     /\ Serve(s, IF refusal # 0
                 THEN [sock[s] EXCEPT !.at = "closing", !.code = refusal]
                 ELSE [sock[s] EXCEPT !.at = "ready", !.ws = w, !.upto = Len(log),
                                      !.from = IF Oldest > @ THEN Oldest ELSE @])
     /\ UNCHANGED breaks

(* No database to read the cookie against: answered as no session. *)
HandshakeFails(s) ==
  /\ sock[s].at = "asked" /\ breaks < Breaks
  /\ Serve(s, [sock[s] EXCEPT !.at = "closing", !.code = UNAUTHORISED])
  /\ breaks' = breaks + 1

Break(s) ==
  /\ sock[s].at \in Served \cup {"asked"} /\ breaks < Breaks
  /\ Serve(s, [sock[s] EXCEPT !.at = "closing"])
  /\ breaks' = breaks + 1

(* A teacher removes or pauses the account in `w`: its sockets there are    *)
(* closed, those that the tab has closed too unless its close came first.  *)
CloseMembership(w) ==
  /\ w \in member /\ gestures < Gestures
  /\ member' = member \ {w}
  /\ home' = IF home # w THEN home
             ELSE IF member' # {} THEN CHOOSE v \in member' : TRUE ELSE None
  /\ \E late \in SUBSET {s \in Slot : sock[s].at = "dropped" /\ sock[s].ws = w} :
       sock' = [s \in Slot |->
                  IF s \in late \/ (sock[s].at \in Served /\ sock[s].ws = w)
                  THEN [sock[s] EXCEPT !.at = IF s \in late THEN @ ELSE "closing",
                                       !.code = FORBIDDEN]
                  ELSE sock[s]]
  /\ gestures' = gestures + 1
  /\ UNCHANGED <<job, log, session, tab, answers, breaks>>

-----------------------------------------------------------------------------
(* The tab's sockets *)

(* close() of the tab's socket: no message comes after it, its end is heard *)
(* later, with the server's code when the server closed first.             *)
Drop == IF socket = None THEN sock ELSE [sock EXCEPT ![socket].at = "dropped"]

(* A new socket beside `socks`, in the first free slot. *)
Open(socks, w, since) ==
  \E n \in Slot :
    /\ socks[n].at = "none" /\ \A r \in 1..(n - 1) : socks[r].at # "none"
    /\ sock' = [socks EXCEPT ![n] = [Shut EXCEPT !.at = "asked", !.asks = w, !.from = since + 1]]
    /\ socket' = n
    /\ refused' = {}

Connect(w) == IF socket # None /\ sock[socket].asks = w
              THEN UNCHANGED <<sock, socket, refused>>
              ELSE Open(Drop, w, store.seq)

(* What `s` feeds the store: marked when the tab has lost sight of it, or  *)
(* opened it while it was nowhere.                                         *)
Fed(s, st, missed) == [st EXCEPT !.stray = @ \/ s # socket \/ sock[s].asks = None,
                                 !.missed = missed]

waiting == <<job, log, answers, breaks>>
account == <<member, home, session>>

(* The newest jobs of a workspace, finished ones among them. *)
Newest(w) == {j \in Job : /\ job[j].ws = w
                          /\ Cardinality({i \in Job : i > j /\ job[i].ws = w}) < SnapshotLimit}

(* What the handler sends of the jobs of a workspace: the newest, as they are. *)
Snapshot(w) == [j \in Job |-> IF j \in Newest(w) THEN Status(j) ELSE "none"]

(* The events among `events` that say how a job is. *)
Words(j, events) == {i \in events : log[i].job = j /\ log[i].kind # "step"}

(* The jobs the tab has missed the last word of: it left the ring before   *)
(* the tab heard it, and the snapshot told of newer jobs only.             *)
Missed(s, events) ==
  {j \in Job \ Newest(sock[s].ws) :
     /\ Words(j, events) = {}
     /\ j \in store.missed \/ \E i \in Words(j, Visible(sock[s].ws)) :
                                i > store.seq /\ i < sock[s].from}

(* stream.ready: the handler reads the newest jobs after the backlog, and  *)
(* the tab applies the events, then the jobs, which are the fresher.  What *)
(* follows on the socket comes behind it: the tab takes it as it is sent.  *)
Ready(s) ==
  LET events == {i \in Visible(sock[s].ws) : i \in sock[s].from..sock[s].upto}
  IN /\ sock[s].at = "ready"
     /\ store' = Fed(s, AdoptJobs(Replay(store, events), Snapshot(sock[s].ws)), Missed(s, events))
     /\ sock' = [sock EXCEPT ![s].at = "live"]
     /\ UNCHANGED <<waiting, account, active, socket, timer, refused, asking, out, gestures>>

Take(s) ==
  LET events == {i \in Visible(sock[s].ws) : i > sock[s].upto}
  IN /\ sock[s].at = "live" /\ events # {}
     /\ \E i \in events : /\ \A k \in events : i <= k
                          /\ store' = Fed(s, Apply(store, i),
                                         {j \in store.missed : Words(j, {i}) = {}})
                          /\ sock' = [sock EXCEPT ![s].upto = i]
     /\ UNCHANGED <<waiting, account, active, socket, timer, refused, asking, out, gestures>>

(* onclose, which runs for a socket the tab let go of as for its own.  The  *)
(* loss of a workspace is not heard while the tab is leaving one.          *)
Close(s) ==
  /\ sock[s].at \in {"closing", "dropped"}
  /\ sock' = [sock EXCEPT ![s] = Shut]
  /\ IF sock[s].code = 0
     THEN /\ socket' = IF socket = s THEN None ELSE socket
          /\ timer' = TRUE
          /\ UNCHANGED refused
     ELSE /\ socket' = None
          /\ refused' = refused \cup ({sock[s].code} \ (IF asking THEN {FORBIDDEN} ELSE {}))
          /\ UNCHANGED timer
  /\ UNCHANGED <<waiting, account, active, store, asking, out, gestures>>

Reconnect ==
  /\ timer /\ timer' = FALSE
  /\ Connect(active)
  /\ UNCHANGED <<waiting, account, active, store, asking, out, gestures>>

(* The answer of a submission, wherever the tab is by now. *)
Answer(j) ==
  /\ j \in answers /\ ~job[j].due
  /\ store' = SetCurrentJob(store, j)
  /\ answers' = answers \ {j}
  /\ UNCHANGED <<job, log, breaks, account, sock, active, socket, timer, refused, asking, out, gestures>>

-----------------------------------------------------------------------------
(* The tab's moves *)

(* Slip of reset: the tab subscribes elsewhere and forgets nothing. *)
ResetOnly(w) == Open(Drop, w, 0) /\ timer' = FALSE /\ UNCHANGED store

Reset(w) == Open(Drop, w, 0) /\ timer' = FALSE /\ store' = Blank

Forget == /\ sock' = Drop /\ socket' = None /\ timer' = FALSE
          /\ refused' = {} /\ store' = Blank

Gesture == gestures < Gestures /\ gestures' = gestures + 1

Switch(w) ==
  /\ Gesture /\ session /\ ~out
  /\ w \in member \ {active}
  /\ home' = w /\ active' = w
  /\ Reset(w)
  /\ UNCHANGED <<waiting, member, session, asking, out>>

(* Slip of leaveLostWorkspace: the tab keeps asking for what it has lost. *)
LeaveLostAsking ==
  /\ ~asking /\ FORBIDDEN \in refused
  /\ asking' = TRUE
  /\ Forget
  /\ UNCHANGED <<waiting, account, active, out, gestures>>

(* Leaving a workspace the account has lost: the stream or a request says so. *)
LeaveLost ==
  /\ ~asking
  /\ FORBIDDEN \in refused \/ (session /\ active \notin member \cup {None})
  /\ active' = None /\ asking' = TRUE
  /\ Forget
  /\ UNCHANGED <<waiting, account, out, gestures>>

(* `me` says where the tab is, when it has no opinion of its own. *)
Me ==
  /\ asking /\ asking' = FALSE
  /\ active' = IF session /\ active = None THEN Landing ELSE active
  /\ IF active' # None THEN Connect(active') /\ timer' = (timer /\ (socket = None \/ socket' = socket))
                       ELSE UNCHANGED <<sock, socket, refused, timer>>
  /\ UNCHANGED <<waiting, account, store, out, gestures>>

(* Logging out: the menu drops the socket, and the answer, once the server *)
(* has revoked the session, what is on screen.                             *)
Logout ==
  /\ Gesture /\ session /\ ~out /\ out' = TRUE
  /\ sock' = Drop /\ socket' = None /\ timer' = FALSE
  /\ UNCHANGED <<waiting, account, active, refused, store, asking>>

LogoutSettled == /\ out /\ out' = FALSE /\ session' = FALSE
                 /\ active' = None
                 /\ Forget
                 /\ UNCHANGED <<waiting, member, home, asking, gestures>>

Login ==
  /\ ~session /\ session' = TRUE
  /\ active' = Landing
  /\ Reset(Landing)
  /\ UNCHANGED <<waiting, member, home, asking, out, gestures>>

-----------------------------------------------------------------------------
Announced(j) == Announce(j) \/ Dispatch(j) \/ Start(j) \/ Settle(j) \/ End(j)
Queueing == \E j \in Job : \/ \E w \in Workspace : Submit(j, w)
                           \/ SubmitHere(j) \/ Step(j) \/ CancelQueued(j)
Serving(s) == Handshake(s) \/ Ready(s) \/ Take(s) \/ Close(s)
Moving == Reconnect \/ LeaveLost \/ Me \/ LogoutSettled

Next == \/ \E j \in Job : Announced(j) \/ Answer(j)
        \/ Queueing
        \/ \E s \in Slot : Serving(s) \/ HandshakeFails(s) \/ Break(s)
        \/ Moving
        \/ \E w \in Workspace : Switch(w) \/ CloseMembership(w)
        \/ Logout \/ Login

Spec == Init /\ [][Next]_vars

(* The queue, the handler and the tab go on; people need not do anything. *)
Fairness == /\ \A j \in Job : WF_vars(Announced(j)) /\ WF_vars(Answer(j))
            /\ \A s \in Slot : WF_vars(Serving(s))
            /\ WF_vars(Reconnect) /\ WF_vars(LeaveLost) /\ WF_vars(Me)
            /\ WF_vars(LogoutSettled)

FairSpec == Spec /\ Fairness

-----------------------------------------------------------------------------
(* Properties *)

(* An announcement numbered after what it announces has begun. *)
Late(j) == \E i, k \in 1..Len(log) :
             /\ i < k /\ log[i].job = j /\ log[k].job = j
             /\ log[i].kind \in {"started", "ended"}
             /\ log[k].kind = "queued" /\ log[k].body # log[i].body

(* The tab's socket is live where the tab is, and nothing is on its way. *)
CaughtUp ==
  /\ socket # None
  /\ sock[socket].at = "live" /\ sock[socket].ws = active
  /\ \A i \in Visible(active) : i <= sock[socket].upto
  /\ \A j \in Job : job[j].ws = active => ~job[j].due /\ job[j].at \notin {"starting", "ending"}

(* Once the tab has caught up, a job of its workspace that waits or runs is  *)
(* on screen as it is, and what the screen shows waiting or running does    *)
(* so: whatever the ring forgot of the jobs the snapshot tells of, the      *)
(* snapshot overtook or the store let go of (reduce, adoptJobs, pruneRuns,  *)
(* and _backlog of the handler).  Not so for a job whose announcement came  *)
(* Late, nor for one whose last word left the ring unheard with as many     *)
(* newer jobs as the snapshot tells of, nor for a store that a socket the   *)
(* tab had lost sight of has fed.                                           *)
ScreenIsTheQueue ==
  CaughtUp /\ ~store.stray => \A j \in Job \ store.missed :
    /\ job[j].ws = active /\ Live(Status(j)) /\ ~Late(j) =>
         store.runs[j] # None /\ store.runs[j].job = Status(j)
    /\ store.runs[j] # None /\ Live(store.runs[j].job) /\ ~Late(j) =>
         job[j].ws = active /\ Status(j) = store.runs[j].job

(* The store holds runs of the tab's workspace and of no other, through     *)
(* switches, logouts, lost memberships and sockets whose end is heard late  *)
(* (reset: "Forget everything the previous workspace put here"), but for    *)
(* what a socket the tab has lost sight of has fed it.                      *)
NothingForeign == active # None /\ ~store.stray =>
  \A j \in Known(store.runs) : store.runs[j].job # "unknown" => job[j].ws = active

(* Some socket of the tab is live where the tab is. *)
OnAir == \E s \in Slot : sock[s].at = "live" /\ sock[s].ws = active

(* The account is in and has somewhere to be. *)
Entitled == session /\ ~out /\ member # {}

(* An account that stays in, and somewhere, ends up with a socket live       *)
(* where its tab is, whatever broke, was lost or was heard late before      *)
(* (scheduleReconnect, leaveLostWorkspace, Me), or is told it has to log in: *)
(* a database that fails at the handshake says the same.                    *)
EventuallyOnAir == <>[]Entitled => <>[](OnAir \/ UNAUTHORISED \in refused)

=============================================================================
