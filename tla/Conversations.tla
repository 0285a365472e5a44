---------------------------- MODULE Conversations ----------------------------
(***************************************************************************)
(* A student's conversations with the tutor or the free chat: one file     *)
(* per conversation, the requests that read and rewrite it whole under the *)
(* file's lock (server/conversations), the queued jobs that append the     *)
(* replies (consumers/tutor/api/jobs.py), the day's count in the database, *)
(* and the browser tab that polls while it believes a reply is on its way  *)
(* (web/src/consumers/tutor).  One account in one workspace.               *)
(***************************************************************************)
EXTENDS Integers, Sequences, FiniteSets

CONSTANTS Conv,       \* conversation ids, each opened at most once
          MaxJobs,    \* bound: turns queued in a behaviour
          Daily,      \* the account's messages per day
          Room,       \* turns the lanes let run at once
          Restarts,   \* bound: restarts of the server
          Gestures,   \* bound: messages, retries, stops and removals asked for
          None

ASSUME SizesAssumption == /\ MaxJobs \in Nat \ {0} /\ Daily \in Nat \ {0}
                          /\ Room \in Nat \ {0}
                          /\ Restarts \in Nat /\ Gestures \in Nat

Job == 1..MaxJobs
Req == {"post", "get", "other"}   \* the tab's mutation, its read; another tab

Turn == {"asked", "failed", "reply"}

ASSUME NoneAssumption ==
  LET Pend == [job : Job, turn : Nat]
  IN None \notin Conv \cup Req \cup Pend \cup [turns : Seq(Turn), pending : Pend \cup {None}]

VARIABLES
  file,      \* file[c]: the record on disk, None when there is none
  lock,      \* lock[c]: who holds the file's lock
  job,       \* job[j]: its status, conversation, turn and the worker's step
  asked,     \* jobs a person asked to stop while they ran
  used,      \* the committed count of the day's turns
  req,       \* req[r]: the request in that slot and how far its handler is
  sel,       \* the conversation the tab shows, None for a new one
  cache,     \* cache[c]: what the tab last read of the conversation
  opened,    \* the ids the server has given out
  restarts, gestures,
  marred     \* conversations one of four accidents befell: the process died, or
             \* the count clashed, between a message and its `pending`, or a
             \* message was sent to one still being opened, or a request wrote
             \* it back after it was deleted

server == <<file, lock, job, asked, used>>
tab == <<sel, cache>>
vars == <<server, tab, req, opened, restarts, gestures, marred>>

Live == {"queued", "running"}
Places == 1..(2 + Gestures + MaxJobs)   \* turns there were, asked for, answered
Pending == [job : Job, turn : Places]
Record == [turns : Seq(Turn), pending : Pending \cup {None}]
Posts == {"open", "send", "retry"}
Steps == {"start", "listed", "asked", "queued", "clash", "commit",
          "cancel", "heal", "free", "end", "answer"}
Ops == {"open", "send", "retry", "stop", "remove", "read"}

Idle == [op |-> "none", conv |-> None, at |-> "none", rec |-> None, seen |-> 0]
Fresh == [st |-> "new", conv |-> None, turn |-> 0, at |-> "none"]

TypeOK ==
  /\ file \in [Conv -> Record \cup {None}]
  /\ lock \in [Conv -> Req \cup {None}]
  /\ job \in [Job -> [st : {"new", "gone", "succeeded", "failed", "cancelled"} \cup Live,
                      conv : Conv \cup {None}, turn : Places \cup {0},
                      at : {"none", "read", "answer", "write", "free", "done", "end"}]]
  /\ asked \in SUBSET Job
  /\ used \in 0..MaxJobs
  /\ req \in [Req -> [op : Ops \cup {"none"}, conv : Conv \cup {None},
                      at : Steps \cup {"none"}, rec : Record \cup {None}, seen : 0..MaxJobs]]
  /\ sel \in Conv \cup {None}
  /\ cache \in [Conv -> Record \cup {None}]
  /\ opened \in SUBSET Conv
  /\ restarts \in 0..Restarts
  /\ gestures \in 0..Gestures
  /\ marred \in SUBSET Conv

(* A conversation may be there from an earlier day, answered or not. *)
Older == {[turns |-> t, pending |-> None] : t \in {<<"asked", "reply">>, <<"failed">>}}

Init ==
  /\ file \in [Conv -> Older \cup {None}]
  /\ opened = {c \in Conv : file[c] # None}
  /\ lock = [c \in Conv |-> None]
  /\ job = [j \in Job |-> Fresh]
  /\ asked = {}
  /\ used = 0
  /\ req = [r \in Req |-> Idle]
  /\ sel = None
  /\ cache = [c \in Conv |-> None]
  /\ restarts = 0
  /\ gestures = 0
  /\ marred = {}

-----------------------------------------------------------------------------
(* The record *)

Unanswered(rec) == rec.turns # <<>> /\ rec.turns[Len(rec.turns)] = "failed"

(* Slip of mark_failed: the conversation is freed and the turn not marked. *)
MarkNothing(rec, turn) == [rec EXCEPT !.pending = None]

MarkFailed(rec, turn) ==
  [turns |-> IF turn \in 1..Len(rec.turns) THEN [rec.turns EXCEPT ![turn] = "failed"]
                                           ELSE rec.turns,
   pending |-> None]

(* Slip of heal: a job the queue does not know is taken for one that waits. *)
JobEnded(rec) == rec.pending # None /\ job[rec.pending.job].st \in {"failed", "cancelled", "succeeded"}

(* Slip of heal: a job asked to stop is taken for one that stopped. *)
JobStopping(rec) == /\ rec.pending # None
                    /\ job[rec.pending.job].st \notin Live \/ rec.pending.job \in asked

(* What heal does with a pending reply: nothing while its job lives. *)
JobDead(rec) == rec.pending # None /\ job[rec.pending.job].st \notin Live

-----------------------------------------------------------------------------
(* The routes that write under the lock of the conversation: open, send,   *)
(* retry.  Each step is one critical section of the queue or of the file.  *)

Busy(st) == \E j \in Job : job[j].st = st
To(r, step) == req' = [req EXCEPT ![r].at = step]
Finish(r) == req' = [req EXCEPT ![r] = Idle]
Answer(r, rec) == req' = [req EXCEPT ![r].at = "answer", ![r].rec = rec]
Release(c) == lock' = [lock EXCEPT ![c] = None]

(* A request that holds the lock reads the file and heals it; the first    *)
(* half of the admission lists what runs.  `open` has no file yet.         *)
Enter(r) ==
  LET c == req[r].conv
      healed == IF JobDead(file[c]) THEN MarkFailed(file[c], file[c].pending.turn) ELSE file[c]
  IN /\ req[r].at = "start" /\ req[r].op \in Posts
     /\ \/ /\ req[r].op = "open"
           /\ IF Busy("running") THEN Finish(r) ELSE To(r, "listed")
           /\ UNCHANGED <<file, lock>>
        \/ /\ req[r].op # "open" /\ lock[c] = None /\ file[c] = None
           /\ Finish(r)
           /\ UNCHANGED <<file, lock>>
        \/ /\ req[r].op # "open" /\ lock[c] = None /\ file[c] # None
           /\ file' = [file EXCEPT ![c] = healed]
           /\ IF Busy("running")
              THEN Finish(r) /\ UNCHANGED lock
              ELSE /\ req' = [req EXCEPT ![r].at = "listed", ![r].rec = healed]
                   /\ lock' = [lock EXCEPT ![c] = r]
     /\ UNCHANGED <<job, asked, used, tab, opened, restarts, gestures, marred>>

(* The second half lists what waits and reads the day's count. *)
Admitted(r) == /\ ~Busy("queued")
               /\ used < Daily
               /\ req[r].op # "open" => req[r].rec.pending = None
               /\ req[r].op = "retry" => Unanswered(req[r].rec)

(* The message is written, and for `open` the file created, before the     *)
(* reply is queued; a retry takes the mark off its copy only.              *)
Written(r) ==
  CASE req[r].op = "open"  -> [turns |-> <<"asked">>, pending |-> None]
    [] req[r].op = "send"  -> [req[r].rec EXCEPT !.turns = Append(@, "asked")]
    [] req[r].op = "retry" -> [req[r].rec EXCEPT !.turns[Len(req[r].rec.turns)] = "asked"]

(* A conversation is on disk, and listed, before its opening locks it. *)
Opening(c) == \E r \in Req : req[r].op = "open" /\ req[r].conv = c /\ req[r].at = "asked"

Admit(r) ==
  LET c == req[r].conv
  IN /\ req[r].at = "listed"
     /\ IF Admitted(r)
        THEN /\ req' = [req EXCEPT ![r].at = "asked", ![r].rec = Written(r)]
             /\ file' = IF req[r].op = "retry" THEN file ELSE [file EXCEPT ![c] = Written(r)]
             /\ opened' = opened \cup {c}
             /\ marred' = IF Opening(c) THEN marred \cup {c} ELSE marred
             /\ UNCHANGED lock
        ELSE /\ Finish(r)
             /\ lock' = IF lock[c] = r THEN [lock EXCEPT ![c] = None] ELSE lock
             /\ UNCHANGED <<file, opened, marred>>
     /\ UNCHANGED <<job, asked, used, tab, restarts, gestures>>

NextJob(j) == job[j].st = "new" /\ \A i \in 1..(j - 1) : job[i].st # "new"

(* runner.submit: from here the job may start, and reads the file only     *)
(* once the lock is free.  `open` takes the lock at this point.            *)
Submit(r) == \E j \in Job :
  LET c == req[r].conv
      turn == Len(req[r].rec.turns)
  IN /\ req[r].at = "asked" /\ lock[c] \in {r, None}
     /\ NextJob(j)
     /\ lock' = [lock EXCEPT ![c] = r]
     /\ job' = [job EXCEPT ![j] = [st |-> "queued", conv |-> c, turn |-> turn, at |-> "none"]]
     /\ req' = [req EXCEPT ![r].at = "queued", ![r].rec.pending = [job |-> j, turn |-> turn]]
     /\ UNCHANGED <<file, asked, used, tab, opened, restarts, gestures, marred>>

(* The count is read, added to and flushed; `pending` is written, the lock *)
(* let go, and the count commits once the handler has returned.  Two       *)
(* requests that both insert the day's first row clash on its key: the     *)
(* second fails with its job queued and its `pending` never written.       *)
Count(r) ==
  LET c == req[r].conv
  IN /\ req[r].at = "queued"
     /\ IF used = 0 /\ \E o \in Req \ {r} : req[o].at = "commit" /\ req[o].seen = 0
        THEN To(r, "clash") /\ UNCHANGED <<file, lock, marred>>
        ELSE /\ req' = [req EXCEPT ![r].at = "commit", ![r].seen = used]
             /\ file' = [file EXCEPT ![c] = req[r].rec]
             /\ marred' = IF file[c] = None THEN marred \cup {c} ELSE marred
             /\ Release(c)
     /\ UNCHANGED <<job, asked, used, tab, opened, restarts, gestures>>

Clash(r) ==
  /\ req[r].at = "clash"
  /\ \A o \in Req \ {r} : req[o].at # "commit"
  /\ Finish(r)
  /\ Release(req[r].conv)
  /\ marred' = IF req[r].op = "retry" THEN marred ELSE marred \cup {req[r].conv}
  /\ UNCHANGED <<file, job, asked, used, tab, opened, restarts, gestures>>

(* Slip of Limit.record: the turn is counted twice. *)
CommitTwice(r) ==
  /\ req[r].at = "commit"
  /\ used' = req[r].seen + 2
  /\ Answer(r, req[r].rec)
  /\ UNCHANGED <<file, lock, job, asked, tab, opened, restarts, gestures, marred>>

Commit(r) ==
  /\ req[r].at = "commit"
  /\ used' = req[r].seen + 1
  /\ Answer(r, req[r].rec)
  /\ UNCHANGED <<file, lock, job, asked, tab, opened, restarts, gestures, marred>>

-----------------------------------------------------------------------------
(* The routes that read without the lock: read, stop, remove. *)

Read(r) ==
  LET rec == file[req[r].conv]
  IN /\ req[r].at = "start" /\ req[r].op \in {"read", "stop", "remove"}
     /\ req' = IF rec = None \/ (req[r].op = "stop" /\ rec.pending = None)
               THEN [req EXCEPT ![r].at = "answer"]
               ELSE [req EXCEPT ![r].rec = rec,
                                ![r].at = IF req[r].op = "stop" THEN "cancel" ELSE "heal"]
     /\ UNCHANGED <<server, tab, opened, restarts, gestures, marred>>

(* runner.cancel: a queued job never runs its handler, a running one is    *)
(* asked. *)
CancelTurn(r) ==
  LET j == req[r].rec.pending.job
  IN /\ req[r].at = "cancel"
     /\ job' = IF job[j].st = "queued" THEN [job EXCEPT ![j].st = "cancelled"] ELSE job
     /\ asked' = IF job[j].st = "running" THEN asked \cup {j} ELSE asked
     /\ To(r, "heal")
     /\ UNCHANGED <<file, lock, used, tab, opened, restarts, gestures, marred>>

Healed(r) == IF req[r].op = "remove" THEN "end" ELSE "answer"

(* The job is looked up after the record was read. *)
Heal(r) ==
  LET rec == req[r].rec
      again == IF file[req[r].conv] = None THEN rec ELSE file[req[r].conv]
  IN /\ req[r].at = "heal"
     /\ req' = IF ~JobDead(rec) THEN [req EXCEPT ![r].at = Healed(r)]
               ELSE IF job[rec.pending.job].st = "succeeded"
               THEN [req EXCEPT ![r].at = Healed(r), ![r].rec = again]
               ELSE [req EXCEPT ![r].at = "free"]
     /\ UNCHANGED <<server, tab, opened, restarts, gestures, marred>>

(* Slip of heal: what was read before the lock is written back. *)
FreeStale(r) ==
  LET c == req[r].conv
      freed == MarkFailed(req[r].rec, req[r].rec.pending.turn)
  IN /\ req[r].at = "free" /\ lock[c] = None
     /\ file' = [file EXCEPT ![c] = freed]
     /\ req' = [req EXCEPT ![r].at = Healed(r), ![r].rec = freed]
     /\ marred' = IF file[c] = None THEN marred \cup {c} ELSE marred
     /\ UNCHANGED <<lock, job, asked, used, tab, opened, restarts, gestures>>

(* Freed under the lock from a fresh read; a file gone meanwhile is        *)
(* written back from the copy in hand. *)
Free(r) ==
  LET c == req[r].conv
      rec == req[r].rec
      fresh == IF file[c] = None THEN rec ELSE file[c]
      dead == fresh.pending # None /\ fresh.pending.job = rec.pending.job
      freed == IF dead THEN MarkFailed(fresh, rec.pending.turn) ELSE fresh
  IN /\ req[r].at = "free" /\ lock[c] = None
     /\ file' = IF dead THEN [file EXCEPT ![c] = freed] ELSE file
     /\ req' = [req EXCEPT ![r].at = Healed(r), ![r].rec = freed]
     /\ marred' = IF file[c] = None THEN marred \cup {c} ELSE marred
     /\ UNCHANGED <<lock, job, asked, used, tab, opened, restarts, gestures>>

(* remove unlinks what it found free a moment ago, without the lock. *)
Ends(r) ==
  LET c == req[r].conv
  IN /\ req[r].at = "end"
     /\ file' = IF req[r].rec.pending = None THEN [file EXCEPT ![c] = None] ELSE file
     /\ To(r, "answer")
     /\ UNCHANGED <<lock, job, asked, used, tab, opened, restarts, gestures, marred>>

-----------------------------------------------------------------------------
(* The job of a turn: handle_turn, and the queue around it. *)

Start(j) ==
  /\ job[j].st = "queued"
  /\ Cardinality({i \in Job : job[i].st = "running"}) < Room
  /\ job' = [job EXCEPT ![j].st = "running", ![j].at = "read"]
  /\ UNCHANGED <<file, lock, asked, used, tab, req, opened, restarts, gestures, marred>>

Waits(c, j) == file[c] # None /\ file[c].pending # None /\ file[c].pending.job = j

(* The first read waits for the lock the submitting request still holds. *)
ReadTurn(j) ==
  /\ job[j].at = "read" /\ lock[job[j].conv] = None
  /\ job' = [job EXCEPT ![j].at = IF Waits(job[j].conv, j) THEN "answer" ELSE "end"]
  /\ UNCHANGED <<file, lock, asked, used, tab, req, opened, restarts, gestures, marred>>

(* The model answers, fails, or is stopped because somebody asked. *)
Compute(j) ==
  /\ job[j].at = "answer"
  /\ \E next \in {"write", "free"} : job' = [job EXCEPT ![j].at = next]
  /\ UNCHANGED <<file, lock, asked, used, tab, req, opened, restarts, gestures, marred>>

AppendReply(j) ==
  LET c == job[j].conv
  IN /\ job[j].at = "write" /\ lock[c] = None
     /\ file' = IF file[c] = None THEN file
                ELSE [file EXCEPT ![c] = [turns |-> Append(@.turns, "reply"), pending |-> None]]
     /\ job' = [job EXCEPT ![j].at = "done"]
     /\ UNCHANGED <<lock, asked, used, tab, req, opened, restarts, gestures, marred>>

ReleaseTurn(j) ==
  LET c == job[j].conv
  IN /\ job[j].at = "free" /\ lock[c] = None
     /\ file' = IF Waits(c, j) THEN [file EXCEPT ![c] = MarkFailed(@, job[j].turn)] ELSE file
     /\ job' = [job EXCEPT ![j].at = "end"]
     /\ UNCHANGED <<lock, asked, used, tab, req, opened, restarts, gestures, marred>>

(* A handler that answered with the flag up is closed as stopped all the    *)
(* same; one that raised with it up may have failed of something else.     *)
Closings(j) ==
  CASE job[j].at = "done" -> IF j \in asked THEN {"cancelled"} ELSE {"succeeded"}
    [] OTHER -> IF j \in asked THEN {"cancelled", "failed"} ELSE {"failed"}

EndTurn(j) ==
  /\ job[j].at \in {"done", "end"}
  /\ \E st \in Closings(j) : job' = [job EXCEPT ![j].at = "none", ![j].st = st]
  /\ asked' = asked \ {j}
  /\ UNCHANGED <<file, lock, used, tab, req, opened, restarts, gestures, marred>>

(* The process dies with every request, lock and job of it; the files and  *)
(* the committed count stay. *)
Restart ==
  /\ restarts < Restarts
  /\ restarts' = restarts + 1
  /\ lock' = [c \in Conv |-> None]
  /\ job' = [j \in Job |-> IF job[j].st = "new" THEN job[j]
                           ELSE [job[j] EXCEPT !.st = "gone", !.at = "none"]]
  /\ req' = [r \in Req |-> Idle]
  /\ marred' = marred \cup 
       {req[r].conv : r \in {o \in Req : /\ req[o].op \in {"open", "send"}
                                         /\ req[o].at \in {"asked", "queued", "clash"}}}
  /\ asked' = {}
  /\ UNCHANGED <<file, used, tab, opened, gestures>>

-----------------------------------------------------------------------------
(* The tab: TutorScreen, ConversationList, ConversationView and queries.ts. *)

Ask(r, op, c) == [req EXCEPT ![r] = [Idle EXCEPT !.op = op, !.conv = c, !.at = "start"]]
Shown == IF sel = None THEN None ELSE cache[sel]
Waiting(c) == cache[c] # None /\ cache[c].pending # None

(* One mutation of the tab at a time; a message only when the tab believes *)
(* no reply is on its way. *)
Gesture(r, op, c) ==
  /\ req[r].at = "none" /\ gestures < Gestures
  /\ op \in Posts => Cardinality({j \in Job : job[j].st = "new"}) > Cardinality({o \in Req : req[o].op \in Posts})
  /\ gestures' = gestures + 1
  /\ req' = Ask(r, op, c)
  /\ UNCHANGED <<server, tab, opened, restarts, marred>>

Unused(c) == c \notin opened /\ \A r \in Req : req[r].conv # c

Submits == \/ sel = None /\ \E c \in Conv : Unused(c) /\ Gesture("post", "open", c)
           \/ Shown # None /\ ~Waiting(sel) /\ Gesture("post", "send", sel)

Retries == Shown # None /\ Unanswered(Shown) /\ Gesture("post", "retry", sel)

Stops == sel # None /\ Waiting(sel) /\ Gesture("post", "stop", sel)

Drops == \E c \in opened : Gesture("post", "remove", c)

(* A second tab of the same account does any of it at any time. *)
Elsewhere == \E c \in Conv, op \in Ops \ {"read"} :
  /\ IF op = "open" THEN Unused(c) ELSE c \in opened
  /\ Gesture("other", op, c)

(* Choosing a conversation mounts its view, which reads it. *)
Select(c) ==
  /\ sel # c /\ c \in opened \cup {None}
  /\ sel' = c
  /\ req' = IF c # None /\ req["get"].at = "none" THEN Ask("get", "read", c) ELSE req
  /\ UNCHANGED <<server, cache, opened, restarts, gestures, marred>>

(* The view is read while it is missing or says a reply is on its way. *)
Poll ==
  /\ sel # None /\ (Shown = None \/ Waiting(sel))
  /\ req["get"].at = "none"
  /\ req' = Ask("get", "read", sel)
  /\ UNCHANGED <<server, tab, opened, restarts, gestures, marred>>

(* An answer arrives.  A read answers with what it found, whatever the tab *)
(* has adopted since; a message or a retry with the record it queued.      *)
Arrives(r) ==
  LET q == req[r]
  IN /\ q.at = "answer"
     /\ cache' = IF r # "other" /\ q.op \in {"read", "open", "send", "retry"} /\ q.rec # None
                 THEN [cache EXCEPT ![q.conv] = q.rec] ELSE cache
     /\ sel' = IF r # "post" THEN sel
               ELSE IF q.op = "open" /\ sel = None THEN q.conv
               ELSE IF q.op = "remove" /\ sel = q.conv /\ q.rec # None /\ q.rec.pending = None
               THEN None ELSE sel
     /\ req' = IF r = "post" /\ q.op = "stop"
               THEN [Ask("get", "read", q.conv) EXCEPT ![r] = Idle]
               ELSE [req EXCEPT ![r] = Idle]
     /\ UNCHANGED <<server, opened, restarts, gestures, marred>>

-----------------------------------------------------------------------------
Serve(r) == \/ Enter(r) \/ Admit(r) \/ Submit(r) \/ Count(r) \/ Clash(r) \/ Commit(r)
            \/ Read(r) \/ CancelTurn(r) \/ Heal(r) \/ Free(r) \/ Ends(r) \/ Arrives(r)
Work(j) == \/ Start(j) \/ ReadTurn(j) \/ Compute(j) \/ AppendReply(j) \/ ReleaseTurn(j)
           \/ EndTurn(j)

Next == \/ \E r \in Req : Serve(r)
        \/ \E j \in Job : Work(j)
        \/ Submits \/ Retries \/ Stops \/ Drops \/ Elsewhere \/ Poll
        \/ \E c \in Conv \cup {None} : Select(c)
        \/ Restart

Spec == Init /\ [][Next]_vars

(* Handlers run to their end, the dispatcher and its workers go on, and    *)
(* react-query's timer polls.  Nobody has to press anything.               *)
FairSpec == /\ Spec
            /\ \A r \in Req : WF_vars(Serve(r))
            /\ \A j \in Job : WF_vars(Work(j))
            /\ WF_vars(Poll)

-----------------------------------------------------------------------------
(* A reply stands right after the message it answers: no message is        *)
(* answered twice and none is taken in while one waits.                    *)
RepliesFit ==
  \A c \in Conv \ marred : file[c] # None =>
    \A i \in 1..Len(file[c].turns) :
      file[c].turns[i] = "reply" => i > 1 /\ file[c].turns[i - 1] = "asked"

(* A conversation rewritten whole never loses a turn another request or    *)
(* job wrote, while it is not deleted.                                     *)
NothingOverwritten ==
  [][\A c \in Conv \ marred : file[c] # None /\ file'[c] # None =>
       Len(file'[c].turns) >= Len(file[c].turns)]_vars

(* A message without reply or mark, which offers no retry, has its job or  *)
(* its request under way, unless an accident left it so. *)
AskedIsExplained ==
  \A c \in Conv \ marred : file[c] # None =>
    LET n == Len(file[c].turns)
    IN file[c].turns[n] = "asked" =>
         \/ file[c].pending # None /\ file[c].pending.turn = n
         \/ \E r \in Req : req[r].conv = c /\ req[r].at \in {"asked", "queued", "clash"}

(* A tab that shows a reply on its way stops showing it, through failures, *)
(* cancellations and restarts, as long as the conversation exists. *)
WaitingEnds ==
  \A c \in Conv :
    (sel = c /\ Waiting(c) /\ file[c] # None) ~> (sel # c \/ ~Waiting(c) \/ file[c] = None)

(* server/conversations/routes.py:8: one reply at a time per conversation  *)
(* and one per account in the workspace. *)
OneReplyPerAccount == Cardinality({j \in Job : job[j].st \in Live}) <= 1
=============================================================================
