------------------------ MODULE Conversations_proofs ------------------------
(***************************************************************************)
(* Proofs about Conversations, for any number of conversations, jobs,      *)
(* restarts and gestures: a reply stands right after its message, an       *)
(* unanswered message has something under way for it, and no rewrite of a  *)
(* whole file takes a turn another one wrote.  The invariant says what     *)
(* each request has in hand while it holds a lock (Locked, Copies), why a  *)
(* conversation being opened needs none (Lone), that a worker answers only *)
(* a conversation that waits for it (Working), and whose job a pending     *)
(* reply is (Owners).  The types need two counts more: how long the turns  *)
(* of a conversation can get (Lengths), and how the day's count stays      *)
(* behind the queue (Counted).                                             *)
(***************************************************************************)
EXTENDS Conversations, FiniteSetTheorems, SequenceTheorems, TLAPS

Pend == [job : Job, turn : Nat]
Rec == [turns : Seq(Turn), pending : Pend \cup {None}]

LEMMA NoneApart == None \notin Conv /\ None \notin Req /\ None \notin Pend /\ None \notin Rec
BY NoneAssumption DEF Pend, Rec

USE SizesAssumption, NoneApart

JobRec == [st : {"new", "gone", "succeeded", "failed", "cancelled"} \cup Live,
           conv : Conv \cup {None}, turn : Nat,
           at : {"none", "read", "answer", "write", "free", "done", "end"}]
ReqRec == [op : Ops \cup {"none"}, conv : Conv \cup {None}, at : Steps \cup {"none"},
           rec : Rec \cup {None}, seen : Nat]

Types ==
  /\ file \in [Conv -> Rec \cup {None}]
  /\ lock \in [Conv -> Req \cup {None}]
  /\ job \in [Job -> JobRec]
  /\ req \in [Req -> ReqRec]
  /\ used \in Nat
  /\ cache \in [Conv -> Rec \cup {None}]
  /\ opened \in SUBSET Conv /\ marred \in SUBSET Conv

(* A request that holds the lock of its conversation, and one that has     *)
(* read the record it will write back.                                     *)
Holds(r) == \/ req[r].at \in {"listed", "asked"} /\ req[r].op # "open"
            \/ req[r].at \in {"queued", "clash"}
Asking == {"asked", "queued", "clash"}
HasCopy(r) == (req[r].at = "listed" /\ req[r].op # "open") \/ req[r].at \in Asking

Shapes ==
  /\ \A r \in Req :
       /\ req[r].at # "none" => req[r].conv \in Conv /\ req[r].op # "none"
       /\ req[r].at = "none" => req[r].conv = None /\ req[r].rec = None
       /\ req[r].at \in {"listed", "commit"} \cup Asking => req[r].op \in Posts
       /\ req[r].at \in {"cancel", "heal", "free", "end"} => req[r].op \notin Posts
       /\ HasCopy(r) \/ req[r].at \in {"commit", "cancel", "heal", "free", "end"} => req[r].rec # None
       /\ req[r].at \in {"cancel", "free"} => req[r].rec.pending # None
       /\ r = "get" => req[r].op \in {"none", "read"}
  /\ \A j \in Job :
       /\ job[j].at # "none" => job[j].st = "running"
       /\ job[j].st = "new" => job[j].conv = None
       /\ job[j].st # "new" => job[j].conv \in opened

Opened ==
  /\ sel \in opened \cup {None}
  /\ \A c \in Conv : file[c] # None => c \in opened
  /\ \A r \in Req :
       IF req[r].op = "open" /\ req[r].at \in {"start", "listed"}
       THEN req[r].conv \notin opened /\ \A q \in Req \ {r} : req[q].conv # req[r].conv
       ELSE req[r].at # "none" => req[r].conv \in opened

Locked == \A r \in Req : Holds(r) => lock[req[r].conv] = r

(* The pending reply of a record is its job's. *)
Owner(p, c) == job[p.job].st # "new" /\ job[p.job].conv = c /\ job[p.job].turn = p.turn
Owners ==
  /\ \A c \in Conv : file[c] # None /\ file[c].pending # None => Owner(file[c].pending, c)
  /\ \A r \in Req : /\ req[r].rec # None /\ req[r].rec.pending # None => Owner(req[r].rec.pending, req[r].conv)
                    /\ req[r].at = "free" => job[req[r].rec.pending.job].st \notin Live

Quiet(c) == \A j \in Job : job[j].conv = c => job[j].at \notin {"answer", "write"}

Fit(turns) == \A i \in 1..Len(turns) : turns[i] = "reply" => i > 1 /\ turns[i - 1] = "asked"

Copy(r, c) ==
  LET rec == req[r].rec
  IN /\ Fit(rec.turns) /\ rec.turns # <<>>
     /\ req[r].at = "listed" => file[c] \in {rec, None}
     /\ req[r].at \in Asking =>
          /\ rec.turns[Len(rec.turns)] = "asked"
          /\ file[c] # None => /\ file[c].pending = None
                               /\ Len(file[c].turns) = Len(rec.turns)
                               /\ req[r].op = "retry" => file[c].turns[Len(file[c].turns)] = "failed"
     /\ req[r].at = "queued" => rec.pending # None /\ rec.pending.turn = Len(rec.turns)
     /\ (req[r].at = "listed" => rec.pending = None) => Quiet(c)

Copies == \A r \in Req : HasCopy(r) /\ req[r].conv \notin marred => Copy(r, req[r].conv)

Lone ==
  \A r \in Req : req[r].op = "open" /\ req[r].at = "asked" /\ req[r].conv \notin marred =>
    /\ \A q \in Req \ {r} : req[q].conv = req[r].conv => req[q].at \notin Asking
    /\ \A j \in Job : job[j].conv # req[r].conv

Working ==
  \A j \in Job : job[j].at \in {"answer", "write"} /\ job[j].conv \notin marred
                   /\ file[job[j].conv] # None => Waits(job[j].conv, j)

Kept(c) ==
  LET turns == file[c].turns
      n == Len(turns)
  IN /\ Fit(turns) /\ turns # <<>>
     /\ file[c].pending # None => file[c].pending.turn = n /\ turns[n] = "asked"
     /\ turns[n] = "asked" => \/ file[c].pending # None
                              \/ \E r \in Req : req[r].conv = c /\ req[r].at \in Asking

Files == \A c \in Conv \ marred : file[c] # None => Kept(c)

IInv == Types /\ Shapes /\ Opened /\ Locked /\ Owners /\ Copies /\ Lone /\ Working /\ Files

-----------------------------------------------------------------------------
(* Records and turns *)

LEMMA RecType ==
  ASSUME NEW x \in Rec
  PROVE  /\ x # None /\ x.turns \in Seq(Turn) /\ x.pending \in Pend \cup {None}
         /\ x = [turns |-> x.turns, pending |-> x.pending]
         /\ x.pending # None => x.pending \in Pend /\ x.pending.job \in Job /\ x.pending.turn \in Nat
         /\ Len(x.turns) \in Nat
BY LenProperties DEF Rec, Pend

LEMMA RecMake ==
  ASSUME NEW t \in Seq(Turn), NEW p \in Pend \cup {None}
  PROVE  /\ [turns |-> t, pending |-> p] \in Rec
         /\ [turns |-> t, pending |-> p] # None
         /\ [turns |-> t, pending |-> p].turns = t
         /\ [turns |-> t, pending |-> p].pending = p
BY DEF Rec

LEMMA ReqMake ==
  ASSUME NEW o \in Ops \cup {"none"}, NEW c \in Conv \cup {None}, NEW a \in Steps \cup {"none"},
         NEW x \in Rec \cup {None}, NEW n \in Nat
  PROVE  [op |-> o, conv |-> c, at |-> a, rec |-> x, seen |-> n] \in ReqRec
BY DEF ReqRec

LEMMA ReqType ==
  ASSUME NEW q \in ReqRec
  PROVE  /\ q.op \in Ops \cup {"none"} /\ q.conv \in Conv \cup {None}
         /\ q.at \in Steps \cup {"none"} /\ q.rec \in Rec \cup {None} /\ q.seen \in Nat
         /\ q = [op |-> q.op, conv |-> q.conv, at |-> q.at, rec |-> q.rec, seen |-> q.seen]
BY DEF ReqRec

(* A step, a record or both of a request are replaced. *)
LEMMA ReqSteps ==
  ASSUME NEW q \in ReqRec, NEW a \in Steps \cup {"none"}, NEW x \in Rec \cup {None}, NEW n \in Nat
  PROVE  /\ [q EXCEPT !.at = a] \in ReqRec
         /\ [q EXCEPT !.at = a, !.rec = x] \in ReqRec
         /\ [q EXCEPT !.rec = x, !.at = a] \in ReqRec
         /\ [q EXCEPT !.at = a, !.seen = n] \in ReqRec
BY DEF ReqRec

LEMMA JobSteps ==
  ASSUME NEW q \in JobRec,
         NEW s \in {"new", "gone", "succeeded", "failed", "cancelled", "queued", "running"},
         NEW a \in {"none", "read", "answer", "write", "free", "done", "end"}
  PROVE  /\ [q EXCEPT !.at = a] \in JobRec
         /\ [q EXCEPT !.st = s] \in JobRec
         /\ [q EXCEPT !.st = s, !.at = a] \in JobRec
         /\ [q EXCEPT !.at = a, !.st = s] \in JobRec
BY DEF JobRec, Live

LEMMA TurnsAsk ==
  ASSUME NEW t \in Seq(Turn), Fit(t)
  PROVE  LET u == Append(t, "asked")
         IN /\ u \in Seq(Turn) /\ u # <<>> /\ Len(u) = Len(t) + 1 /\ u[Len(u)] = "asked" /\ Fit(u)
<1> DEFINE u == Append(t, "asked")
<1>1. /\ u \in Seq(Turn) /\ Len(u) = Len(t) + 1 /\ u[Len(u)] = "asked" /\ Len(t) \in Nat
      /\ \A i \in 1..Len(t) : u[i] = t[i]
  BY AppendProperties, LenProperties DEF Turn
<1>2. u # <<>>
  BY <1>1, EmptySeq
<1> HIDE DEF u
<1>3. Fit(u)
  BY <1>1 DEF Fit
<1> QED BY <1>1, <1>2, <1>3 DEF u

LEMMA TurnsReply ==
  ASSUME NEW t \in Seq(Turn), Fit(t), t # <<>>, t[Len(t)] = "asked"
  PROVE  LET u == Append(t, "reply")
         IN /\ u \in Seq(Turn) /\ u # <<>> /\ Len(u) = Len(t) + 1 /\ u[Len(u)] = "reply" /\ Fit(u)
BY AppendProperties, LenProperties DEF Fit, Turn

LEMMA TurnsMark ==
  ASSUME NEW t \in Seq(Turn), Fit(t), t # <<>>, NEW m \in {"asked", "failed"}
  PROVE  LET u == [t EXCEPT ![Len(t)] = m]
         IN /\ u \in Seq(Turn) /\ u # <<>> /\ Len(u) = Len(t) /\ u[Len(u)] = m /\ Fit(u)
BY ExceptSeq, LenProperties, EmptySeq DEF Fit, Turn

LEMMA TurnsMarked ==
  ASSUME NEW t \in Seq(Turn), NEW n \in 1..Len(t), NEW m \in {"asked", "failed"}
  PROVE  [t EXCEPT ![n] = m] \in Seq(Turn) /\ Len([t EXCEPT ![n] = m]) = Len(t)
BY ExceptSeq, LenProperties DEF Turn

-----------------------------------------------------------------------------
(* Steps that leave every file as it is *)

(* The requests of Q move; whoever was to explain a message has left one   *)
(* that is marked or marred.                                               *)
LEMMA RequestsMove ==
  ASSUME IInv, NEW Q \in SUBSET Req,
         UNCHANGED <<file, job>>, marred \subseteq marred',
         \A q \in Req \ Q : req'[q] = req[q],
         \A r \in Q : req'[r].at \notin Asking,
         \A r \in Q : req[r].at \in Asking =>
           \/ req[r].conv \in marred'
           \/ file[req[r].conv] # None =>
                file[req[r].conv].turns[Len(file[req[r].conv].turns)] # "asked"
  PROVE  (\A r \in Req \ Q : HasCopy(r)' /\ req'[r].conv \notin marred' => Copy(r, req[r].conv)')
         /\ Lone' /\ Working' /\ Files'
<1>1. ASSUME NEW r \in Req \ Q, HasCopy(r)', req'[r].conv \notin marred'
      PROVE  Copy(r, req[r].conv)'
  <2>1. req'[r] = req[r] /\ HasCopy(r)
    BY <1>1 DEF HasCopy
  <2> QED BY <1>1, <2>1 DEF Copies, Copy, Quiet, IInv
<1>2. Lone'
  BY DEF IInv, Lone, Asking
<1>3. Working'
  BY DEF IInv, Working, Waits
<1>4. Files'
  <2> SUFFICES ASSUME NEW c \in Conv \ marred', file'[c] # None PROVE Kept(c)'
    BY DEF Files
  <2>1. Kept(c)
    BY DEF IInv, Files
  <2>2. ASSUME NEW r \in Req, req[r].conv = c, req[r].at \in Asking, r \in Q
        PROVE  file[c].turns[Len(file[c].turns)] # "asked"
    BY <2>2
  <2> QED BY <2>1, <2>2 DEF Kept
<1> QED BY <1>1, <1>2, <1>3, <1>4

LEMMA RequestMoves ==
  ASSUME IInv, NEW r \in Req,
         UNCHANGED <<file, job>>, marred \subseteq marred',
         \A q \in Req \ {r} : req'[q] = req[q],
         req'[r].at \notin Asking,
         req[r].at \in Asking =>
           \/ req[r].conv \in marred'
           \/ file[req[r].conv] # None =>
                file[req[r].conv].turns[Len(file[req[r].conv].turns)] # "asked",
         HasCopy(r)' /\ req'[r].conv \notin marred' => Copy(r, req[r].conv)'
  PROVE  Copies' /\ Lone' /\ Working' /\ Files'
<1> DEFINE Q == {r}
<1>1. Q \in SUBSET Req /\ \A q \in Q : q = r
  OBVIOUS
<1> HIDE DEF Q
<1>2. \A q \in Req \ Q : req'[q] = req[q]
  BY DEF Q
<1>3. \A q \in Req \ Q : HasCopy(q)' /\ req'[q].conv \notin marred' => Copy(q, req[q].conv)'
  BY <1>1, <1>2, RequestsMove
<1>4. Lone' /\ Working' /\ Files'
  BY <1>1, <1>2, RequestsMove
<1>5. \A q \in Req : q \in Q => q = r
  BY <1>1
<1> QED BY <1>3, <1>4, <1>5 DEF Copies

(* A job's thread moves on, without coming to answer a turn. *)
LEMMA JobMoves ==
  ASSUME IInv, NEW j \in Job, UNCHANGED <<file, lock, used, tab, req, opened, marred>>,
         job' \in [Job -> JobRec], \A i \in Job \ {j} : job'[i] = job[i],
         job'[j].conv = job[j].conv, job'[j].turn = job[j].turn,
         job[j].st # "new", job'[j].st # "new",
         job[j].st \notin Live => job'[j].st \notin Live,
         job'[j].at # "none" => job'[j].st = "running",
         job'[j].at \in {"answer", "write"} => job[j].at \in {"answer", "write"}
  PROVE  IInv'
<1>1. Types' /\ Opened' /\ Locked'
  BY DEF IInv, Types, Opened, Locked, Holds, tab
<1>2. Shapes'
  BY DEF IInv, Shapes, HasCopy
<1>3. Owners'
  <2>1. \A p \in Pend, c \in Conv : Owner(p, c) => Owner(p, c)'
    BY DEF Owner, Pend
  <2>2. \A p \in Pend : job[p.job].st \notin Live => job'[p.job].st \notin Live
    BY DEF Pend
  <2>3. \A c \in Conv : file[c] # None /\ file[c].pending # None => file[c].pending \in Pend
    BY DEF IInv, Types, Rec
  <2>4. \A r \in Req : req[r].rec # None /\ req[r].rec.pending # None =>
          req[r].rec.pending \in Pend /\ req[r].conv \in Conv
    BY DEF IInv, Types, ReqRec, Rec, Shapes
  <2>5. \A r \in Req : req[r].at = "free" => req[r].rec.pending \in Pend
    BY <2>4 DEF IInv, Shapes
  <2> QED BY <2>1, <2>2, <2>3, <2>4, <2>5 DEF IInv, Owners
<1>4. Copies'
  <2> SUFFICES ASSUME NEW r \in Req, HasCopy(r), req[r].conv \notin marred
               PROVE  Copy(r, req[r].conv)'
    BY DEF Copies, HasCopy
  <2>1. Copy(r, req[r].conv)
    BY DEF IInv, Copies
  <2>2. Quiet(req[r].conv) => Quiet(req[r].conv)'
    BY DEF Quiet
  <2> QED BY <2>1, <2>2 DEF Copy
<1>5. Lone'
  BY DEF IInv, Lone
<1>6. Working'
  BY DEF IInv, Working, Waits
<1>7. Files'
  BY DEF IInv, Files, Kept
<1> QED BY <1>1, <1>2, <1>3, <1>4, <1>5, <1>6, <1>7 DEF IInv

LEMMA StartKeeps == ASSUME IInv, NEW j \in Job, Start(j) PROVE IInv'
<1>1. job[j] \in JobRec
  BY DEF IInv, Types
<1>2. job' = [job EXCEPT ![j] = [job[j] EXCEPT !.st = "running", !.at = "read"]]
  BY DEF Start
<1>3. job' \in [Job -> JobRec]
  BY <1>1, <1>2, JobSteps DEF IInv, Types
<1> QED BY <1>1, <1>2, <1>3, JobMoves DEF Start, IInv, Types, JobRec, Live

LEMMA ComputeKeeps == ASSUME IInv, NEW j \in Job, Compute(j) PROVE IInv'
<1>1. job[j] \in JobRec
  BY DEF IInv, Types
<1>2. PICK next \in {"write", "free"} : job' = [job EXCEPT ![j] = [job[j] EXCEPT !.at = next]]
  BY DEF Compute
<1>3. job' \in [Job -> JobRec]
  BY <1>1, <1>2, JobSteps DEF IInv, Types
<1>4. job[j].st = "running"
  BY DEF Compute, IInv, Shapes
<1> QED BY <1>1, <1>2, <1>3, <1>4, JobMoves DEF Compute, IInv, Types, JobRec, Live

LEMMA EndTurnKeeps == ASSUME IInv, NEW j \in Job, EndTurn(j) PROVE IInv'
<1>1. job[j] \in JobRec /\ job[j].st = "running"
  BY DEF IInv, Types, EndTurn, Shapes
<1>2. PICK st \in {"succeeded", "cancelled", "failed"} :
        job' = [job EXCEPT ![j] = [job[j] EXCEPT !.at = "none", !.st = st]]
  BY DEF EndTurn, Closings
<1>3. job' \in [Job -> JobRec]
  BY <1>1, <1>2, JobSteps DEF IInv, Types
<1> QED BY <1>1, <1>2, <1>3, JobMoves DEF EndTurn, IInv, Types, JobRec, Live

(* A job comes to answer only while its conversation waits for it, and     *)
(* while no request holds the lock.                                        *)
LEMMA ReadTurnKeeps == ASSUME IInv, NEW j \in Job, ReadTurn(j) PROVE IInv'
<1>1. job[j] \in JobRec /\ job[j].st = "running" /\ job[j].conv \in Conv
  BY DEF IInv, Types, ReadTurn, Shapes, Opened
<1>2. PICK at \in {"answer", "end"} :
        /\ job' = [job EXCEPT ![j] = [job[j] EXCEPT !.at = at]]
        /\ at = "answer" => Waits(job[j].conv, j)
  BY DEF ReadTurn
<1>3. job' \in [Job -> JobRec]
  BY <1>1, <1>2, JobSteps DEF IInv, Types
<1>4. /\ job'[j].at = at /\ job'[j].conv = job[j].conv
      /\ job'[j].st = "running" /\ job'[j].turn = job[j].turn
      /\ \A i \in Job \ {j} : job'[i] = job[i]
  BY <1>1, <1>2 DEF IInv, Types, JobRec
<1>5. CASE at = "end"
  BY <1>1, <1>3, <1>4, <1>5, JobMoves DEF ReadTurn
<1>6. CASE at = "answer"
  <2>1. Types' /\ Shapes' /\ Opened' /\ Locked'
    BY <1>1, <1>2, <1>3, <1>6 DEF ReadTurn, IInv, Types, Shapes, HasCopy, Opened, Locked, Holds, tab, JobRec
  <2>2. Owners' /\ Files'
    BY <1>1, <1>2, <1>3, RecType, ReqType
       DEF ReadTurn, IInv, Owners, Owner, Types, Shapes, Files, Kept, JobRec
  <2>3. Lone' /\ Working'
    BY <1>1, <1>2, <1>4, <1>6 DEF ReadTurn, IInv, Lone, Working, Waits
  <2>4. Copies'
    <3> SUFFICES ASSUME NEW r \in Req, HasCopy(r), req[r].conv \notin marred
                 PROVE  Copy(r, req[r].conv)'
      BY DEF Copies, HasCopy, ReadTurn
    <3>1. Copy(r, req[r].conv)
      BY DEF IInv, Copies
    <3>2. job[j].conv # req[r].conv
      <4>1. CASE Holds(r)
        BY <1>1, <4>1 DEF ReadTurn, IInv, Locked
      <4>2. CASE ~Holds(r)
        BY <4>2 DEF Holds, HasCopy, Asking, IInv, Lone
      <4> QED BY <4>1, <4>2
    <3>3. Quiet(req[r].conv) => Quiet(req[r].conv)'
      BY <1>4, <3>2 DEF Quiet, ReadTurn
    <3> QED BY <3>1, <3>3 DEF Copy, ReadTurn
  <2> QED BY <2>1, <2>2, <2>3, <2>4 DEF IInv
<1> QED BY <1>2, <1>5, <1>6

-----------------------------------------------------------------------------
(* Requests that leave the files alone *)

LEMMA CommitKeeps == ASSUME IInv, NEW r \in Req, Commit(r) PROVE IInv'
<1>1. /\ req[r] \in ReqRec /\ req[r].conv \in opened /\ req[r].rec \in Rec
  BY DEF Commit, IInv, Types, ReqRec, Shapes, Opened
<1>2. req' = [req EXCEPT ![r] = [req[r] EXCEPT !.at = "answer", !.rec = req[r].rec]]
  BY DEF Commit, Answer
<1>3. /\ req'[r].at = "answer" /\ req'[r].op = req[r].op /\ req'[r].conv = req[r].conv
      /\ req'[r].rec = req[r].rec /\ \A q \in Req \ {r} : req'[q] = req[q]
  BY <1>1, <1>2 DEF IInv, Types, ReqRec
<1>4. req' \in [Req -> ReqRec]
  BY <1>1, <1>2, ReqSteps DEF IInv, Types, Steps
<1>9. used' \in Nat
  BY <1>1, ReqType DEF Commit
<1>5. Types' /\ Shapes'
  BY <1>3, <1>4, <1>9 DEF Commit, tab, IInv, Types, Shapes, HasCopy, Asking
<1>6. Opened' /\ Locked'
  BY <1>1, <1>3 DEF Commit, tab, IInv, Opened, Locked, Holds
<1>7. Owners'
  BY <1>3 DEF Commit, IInv, Owners, Owner
<1>8. Copies' /\ Lone' /\ Working' /\ Files'
  BY <1>3, RequestMoves DEF Commit, HasCopy, Asking
<1> QED BY <1>5, <1>6, <1>7, <1>8 DEF IInv

LEMMA ReadKeeps == ASSUME IInv, NEW r \in Req, Read(r) PROVE IInv'
<1>0. /\ UNCHANGED <<file, lock, job, used, sel, cache, opened, marred>> /\ req[r].at = "start"
  BY DEF Read, server, tab
<1>1. /\ req[r] \in ReqRec /\ req[r].conv \in opened /\ req[r].conv \in Conv
      /\ file[req[r].conv] \in Rec \cup {None} /\ req[r].op \notin Posts
  BY DEF Read, IInv, Types, ReqRec, Shapes, Opened, Posts
<1>2. PICK at \in {"answer", "cancel", "heal"}, rec \in {req[r].rec, file[req[r].conv]} :
        /\ req' = [req EXCEPT ![r] = [req[r] EXCEPT !.rec = rec, !.at = at]]
        /\ at # "answer" => rec = file[req[r].conv] /\ rec # None
        /\ at = "cancel" => rec.pending # None
  <2>1. CASE file[req[r].conv] = None \/ (req[r].op = "stop" /\ file[req[r].conv].pending = None)
    <3>1. req' = [req EXCEPT ![r] = [req[r] EXCEPT !.at = "answer"]]
      BY <2>1 DEF Read
    <3>2. [req[r] EXCEPT !.at = "answer"] = [req[r] EXCEPT !.rec = req[r].rec, !.at = "answer"]
      BY <1>1 DEF ReqRec
    <3> QED BY <3>1, <3>2
  <2>2. CASE ~(file[req[r].conv] = None \/ (req[r].op = "stop" /\ file[req[r].conv].pending = None))
    BY <2>2 DEF Read
  <2> QED BY <2>1, <2>2
<1>3. /\ req'[r].at = at /\ req'[r].op = req[r].op /\ req'[r].conv = req[r].conv
      /\ req'[r].rec = rec /\ \A q \in Req \ {r} : req'[q] = req[q]
  BY <1>1, <1>2 DEF IInv, Types, ReqRec
<1>4. req' \in [Req -> ReqRec]
  <2>1. rec \in Rec \cup {None} /\ at \in Steps
    BY <1>1 DEF ReqRec, Steps
  <2> QED BY <1>1, <1>2, <2>1, ReqSteps DEF IInv, Types
<1>5. Types' /\ Shapes'
  BY <1>0, <1>1, <1>2, <1>3, <1>4 DEF IInv, Types, Shapes, HasCopy, Asking
<1>6. Opened' /\ Locked'
  BY <1>0, <1>1, <1>3 DEF IInv, Opened, Locked, Holds
<1>7. Owners'
  BY <1>0, <1>1, <1>2, <1>3 DEF IInv, Owners, Owner
<1>8. Copies' /\ Lone' /\ Working' /\ Files'
  BY <1>0, <1>3, RequestMoves DEF HasCopy, Asking
<1> QED BY <1>5, <1>6, <1>7, <1>8 DEF IInv

LEMMA HealKeeps == ASSUME IInv, NEW r \in Req, Heal(r) PROVE IInv'
<1> DEFINE again == IF file[req[r].conv] = None THEN req[r].rec ELSE file[req[r].conv]
<1>0. /\ UNCHANGED <<file, lock, job, used, sel, cache, opened, marred>> /\ req[r].at = "heal"
  BY DEF Heal, server, tab
<1>1. /\ req[r] \in ReqRec /\ req[r].conv \in opened /\ req[r].conv \in Conv
      /\ req[r].rec \in Rec /\ req[r].rec # None /\ again \in Rec /\ again # None
      /\ req[r].op \notin Posts
  BY DEF Heal, IInv, Types, ReqRec, Shapes, Opened
<1>2. PICK at \in {"answer", "end", "free"}, rec \in {req[r].rec, again} :
        /\ req' = [req EXCEPT ![r] = [req[r] EXCEPT !.at = at, !.rec = rec]]
        /\ at = "free" => rec = req[r].rec /\ JobDead(rec)
  <2>1. ASSUME NEW at \in {"answer", "end", "free"}
        PROVE  [req[r] EXCEPT !.at = at] = [req[r] EXCEPT !.at = at, !.rec = req[r].rec]
    BY <1>1 DEF ReqRec
  <2>2. CASE ~JobDead(req[r].rec)
    BY <2>1, <2>2 DEF Heal, Healed
  <2>3. CASE JobDead(req[r].rec) /\ job[req[r].rec.pending.job].st = "succeeded"
    BY <2>3 DEF Heal, Healed
  <2>4. CASE JobDead(req[r].rec) /\ job[req[r].rec.pending.job].st # "succeeded"
    BY <2>1, <2>4 DEF Heal
  <2> QED BY <2>2, <2>3, <2>4
<1>3. /\ req'[r].at = at /\ req'[r].op = req[r].op /\ req'[r].conv = req[r].conv
      /\ req'[r].rec = rec /\ \A q \in Req \ {r} : req'[q] = req[q]
  BY <1>1, <1>2 DEF IInv, Types, ReqRec
<1>4. req' \in [Req -> ReqRec]
  BY <1>1, <1>2, ReqSteps DEF IInv, Types, Steps
<1>5. Types' /\ Shapes'
  BY <1>0, <1>1, <1>2, <1>3, <1>4 DEF IInv, Types, Shapes, HasCopy, Asking, JobDead
<1>6. Opened' /\ Locked'
  BY <1>0, <1>1, <1>3 DEF IInv, Opened, Locked, Holds
<1>7. Owners'
  <2>1. Owner(rec.pending, req[r].conv) \/ rec.pending = None
    BY <1>0, <1>1, <1>2 DEF IInv, Owners
  <2> QED BY <1>0, <1>1, <1>2, <1>3, <2>1 DEF IInv, Owners, Owner, JobDead
<1>8. Copies' /\ Lone' /\ Working' /\ Files'
  BY <1>0, <1>3, RequestMoves DEF HasCopy, Asking
<1> QED BY <1>5, <1>6, <1>7, <1>8 DEF IInv

-----------------------------------------------------------------------------
(* A reply that nobody works on is given up *)

LEMMA MarkFailedType ==
  ASSUME NEW x \in Rec, NEW n \in Nat
  PROVE  MarkFailed(x, n) \in Rec /\ MarkFailed(x, n).pending = None
         /\ Len(MarkFailed(x, n).turns) = Len(x.turns)
<1>1. CASE n \in 1..Len(x.turns)
  <2>1. [x.turns EXCEPT ![n] = "failed"] \in Seq(Turn)
        /\ Len([x.turns EXCEPT ![n] = "failed"]) = Len(x.turns)
    BY <1>1, RecType, TurnsMarked
  <2> QED BY <1>1, <2>1, RecMake DEF MarkFailed
<1>2. CASE n \notin 1..Len(x.turns)
  BY <1>2, RecType, RecMake DEF MarkFailed
<1> QED BY <1>1, <1>2

LEMMA MarkFailedKept ==
  ASSUME NEW x \in Rec, Fit(x.turns), x.turns # <<>>
  PROVE  LET y == MarkFailed(x, Len(x.turns))
         IN Fit(y.turns) /\ y.turns # <<>> /\ y.turns[Len(y.turns)] = "failed"
<1>1. Len(x.turns) \in 1..Len(x.turns) /\ x.turns \in Seq(Turn)
  BY RecType, LenProperties, EmptySeq
<1>2. MarkFailed(x, Len(x.turns)).turns = [x.turns EXCEPT ![Len(x.turns)] = "failed"]
  BY <1>1, TurnsMarked, RecMake DEF MarkFailed
<1> QED BY <1>1, <1>2, TurnsMark

(* The file of c goes from a pending reply to a failed turn, under a free  *)
(* lock, while the requests of Q move.                                     *)
LEMMA FileFreed ==
  ASSUME IInv, NEW c \in Conv, NEW Q \in SUBSET Req,
         file[c] # None, file[c].pending # None, lock[c] = None,
         file' = [file EXCEPT ![c] = MarkFailed(file[c], file[c].pending.turn)],
         marred \subseteq marred',
         \A q \in Req \ Q : req'[q] = req[q],
         \A r \in Q : req[r].at \notin Asking /\ req'[r].at \notin Asking,
         \A j \in Job : /\ job'[j].conv = job[j].conv
                        /\ job'[j].at \in {"answer", "write"} =>
                             job[j].at \in {"answer", "write"} /\ ~Waits(c, j)
  PROVE  /\ \A r \in Req \ Q : HasCopy(r)' /\ req'[r].conv \notin marred' => Copy(r, req[r].conv)'
         /\ Lone' /\ Working' /\ Files'
         /\ file' \in [Conv -> Rec \cup {None}] /\ file'[c] \in Rec /\ file'[c].pending = None
<1> DEFINE y == MarkFailed(file[c], file[c].pending.turn)
<1>1. file[c] \in Rec /\ file[c].pending.turn \in Nat
  BY RecType DEF IInv, Types
<1>2. y \in Rec /\ y.pending = None
  BY <1>1, MarkFailedType
<1>3. /\ file' \in [Conv -> Rec \cup {None}] /\ file'[c] = y
      /\ \A d \in Conv \ {c} : file'[d] = file[d]
  BY <1>2 DEF IInv, Types
<1>4. c \notin marred => Fit(y.turns) /\ y.turns # <<>> /\ y.turns[Len(y.turns)] = "failed"
  BY <1>1, MarkFailedKept DEF IInv, Files, Kept
<1> HIDE DEF y
<1>5. ASSUME NEW r \in Req \ Q, HasCopy(r)', req'[r].conv \notin marred'
      PROVE  Copy(r, req[r].conv)'
  <2>1. req'[r] = req[r] /\ HasCopy(r) /\ req[r].conv \notin marred
    BY <1>5 DEF HasCopy
  <2>2. Copy(r, req[r].conv) /\ req[r].conv \in Conv
    BY <2>1 DEF IInv, Copies, Shapes, HasCopy, Asking
  <2>3. req[r].conv # c
    BY <2>1, <2>2 DEF IInv, Locked, Holds, HasCopy, Copy, Asking, Types
  <2>4. Quiet(req[r].conv) => Quiet(req[r].conv)'
    BY <2>1 DEF Quiet
  <2> QED BY <1>3, <2>1, <2>2, <2>3, <2>4 DEF Copy
<1>6. Lone'
  BY DEF IInv, Lone, Asking
<1>7. Working'
  BY <1>3 DEF IInv, Working, Waits, Shapes, Opened, Types
<1>8. Files'
  <2> SUFFICES ASSUME NEW d \in Conv \ marred', file'[d] # None PROVE Kept(d)'
    BY DEF Files
  <2>1. CASE d = c
    BY <1>2, <1>3, <1>4, <2>1 DEF Kept
  <2>2. CASE d # c
    <3>1. Kept(d) /\ file'[d] = file[d]
      BY <1>3, <2>2 DEF IInv, Files
    <3>2. \A r \in Req : req[r].at \in Asking => req'[r] = req[r]
      OBVIOUS
    <3> QED BY <3>1, <3>2 DEF Kept
  <2> QED BY <2>1, <2>2
<1> QED BY <1>2, <1>3, <1>5, <1>6, <1>7, <1>8

-----------------------------------------------------------------------------
(* Requests that end, and requests that are made *)

Asked(op, c) == [Idle EXCEPT !.op = op, !.conv = c, !.at = "start"]

(* A request in slot r that may be made now. *)
May(r, op, c) == /\ op \in Ops /\ c \in Conv /\ (r = "get" => op = "read")
                 /\ IF op = "open" THEN c \notin opened /\ \A q \in Req : req[q].conv # c
                    ELSE c \in opened

LEMMA AskedType ==
  /\ Idle \in ReqRec /\ Idle.at = "none" /\ Idle.conv = None /\ Idle.rec = None /\ Idle.op = "none"
  /\ \A op \in Ops, c \in Conv :
       /\ Asked(op, c) \in ReqRec /\ Asked(op, c).at = "start" /\ Asked(op, c).op = op
       /\ Asked(op, c).conv = c /\ Asked(op, c).rec = None
BY DEF Asked, Idle, ReqRec, Steps

(* Requests of Q end or are made in a slot that is free; the locks they    *)
(* held may be let go.                                                     *)
LEMMA RequestsEnd ==
  ASSUME IInv, NEW Q \in SUBSET Req,
         UNCHANGED <<file, job, opened>>,
         lock' \in [Conv -> Req \cup {None}], used' \in Nat, cache' \in [Conv -> Rec \cup {None}],
         sel' \in opened \cup {None}, marred' \in SUBSET Conv, marred \subseteq marred',
         \A r \in Req \ Q : req'[r] = req[r] /\ (Holds(r) => lock'[req[r].conv] = r),
         req' \in [Req -> ReqRec],
         \A r \in Q : \/ req'[r] = Idle
                      \/ \E op \in Ops, c \in Conv :
                           /\ req'[r] = Asked(op, c) /\ May(r, op, c)
                           /\ op = "open" => Q = {r},
         \A r \in Q : req[r].at \in Asking =>
           \/ req[r].conv \in marred'
           \/ file[req[r].conv] # None =>
                file[req[r].conv].turns[Len(file[req[r].conv].turns)] # "asked"
  PROVE  IInv'
<1>1. \A r \in Q : \/ /\ req'[r].at = "none" /\ req'[r].conv = None /\ req'[r].rec = None
                      /\ req'[r].op = "none"
                   \/ /\ req'[r].at = "start" /\ req'[r].rec = None
                      /\ May(r, req'[r].op, req'[r].conv)
                      /\ req'[r].op = "open" => Q = {r}
  BY AskedType
<1>2. \A r \in Q : req'[r].at \in {"none", "start"} /\ req'[r].rec = None
  BY <1>1
<1>3. Types'
  BY DEF IInv, Types
<1>4. Shapes'
  <2>1. \A r \in Q : /\ req'[r].at # "none" => req'[r].conv \in Conv /\ req'[r].op # "none"
                     /\ req'[r].at = "none" => req'[r].conv = None /\ req'[r].rec = None
                     /\ r = "get" => req'[r].op \in {"none", "read"}
    BY <1>1 DEF May, Ops
  <2> QED BY <1>2, <2>1 DEF IInv, Shapes, HasCopy, Asking
<1>5. Opened'
  <2>1. ASSUME NEW r \in Req, r \in Q
        PROVE IF req'[r].op = "open" /\ req'[r].at \in {"start", "listed"}
              THEN req'[r].conv \notin opened /\ \A q \in Req \ {r} : req'[q].conv # req'[r].conv
              ELSE req'[r].at # "none" => req'[r].conv \in opened
    BY <1>1, <2>1 DEF May
  <2>2. ASSUME NEW r \in Req, r \notin Q
        PROVE IF req'[r].op = "open" /\ req'[r].at \in {"start", "listed"}
              THEN req'[r].conv \notin opened /\ \A q \in Req \ {r} : req'[q].conv # req'[r].conv
              ELSE req'[r].at # "none" => req'[r].conv \in opened
    <3>1. req'[r] = req[r]
      BY <2>2
    <3>2. \A q \in Q : req'[q].conv = None \/ req'[q].conv \in opened \/ req'[q].conv # req[r].conv
      BY <1>1 DEF May
    <3>3. req[r].at # "none" => req[r].conv # None
      BY DEF IInv, Shapes
    <3> QED BY <3>1, <3>2, <3>3 DEF IInv, Opened
  <2>3. \A c \in Conv : file[c] # None => c \in opened
    BY DEF IInv, Opened
  <2> QED BY <2>1, <2>2, <2>3 DEF Opened
<1>6. Locked'
  BY <1>2 DEF IInv, Locked, Holds
<1>7. Owners'
  BY <1>2 DEF IInv, Owners, Owner
<1>8. Copies' /\ Lone' /\ Working' /\ Files'
  <2>1. \A r \in Q : req'[r].at \notin Asking /\ ~HasCopy(r)'
    BY <1>2 DEF Asking, HasCopy
  <2> QED BY <2>1, RequestsMove DEF Copies
<1> QED BY <1>3, <1>4, <1>5, <1>6, <1>7, <1>8 DEF IInv

LEMMA ClashKeeps == ASSUME IInv, NEW r \in Req, Clash(r) PROVE IInv'
<1>1. /\ UNCHANGED <<file, job, opened, used, cache, sel>> /\ req[r].at = "clash"
      /\ req[r].conv \in Conv /\ lock[req[r].conv] = r
  BY DEF Clash, tab, IInv, Shapes, Locked, Holds
<1>2. /\ req' = [req EXCEPT ![r] = Idle] /\ lock' = [lock EXCEPT ![req[r].conv] = None]
      /\ req' \in [Req -> ReqRec] /\ req'[r] = Idle /\ \A q \in Req \ {r} : req'[q] = req[q]
  BY AskedType DEF Clash, Finish, Release, IInv, Types
<1>3. lock' \in [Conv -> Req \cup {None}]
  BY <1>1, <1>2 DEF IInv, Types
<1>4. marred' \in SUBSET Conv /\ marred \subseteq marred' /\ (req[r].op # "retry" => req[r].conv \in marred')
  BY <1>1 DEF Clash, IInv, Types
<1>5. \A q \in Req \ {r} : Holds(q) => lock'[req[q].conv] = q
  <2> SUFFICES ASSUME NEW q \in Req \ {r}, Holds(q) PROVE lock'[req[q].conv] = q
    OBVIOUS
  <2>1. req[q].conv \in Conv /\ lock[req[q].conv] = q
    BY DEF Holds, IInv, Shapes, Locked
  <2>2. req[q].conv # req[r].conv
    BY <1>1, <2>1
  <2> QED BY <1>1, <1>2, <2>1, <2>2 DEF IInv, Types
<1>6. \/ req[r].conv \in marred'
      \/ file[req[r].conv] # None =>
                file[req[r].conv].turns[Len(file[req[r].conv].turns)] # "asked"
  <2>1. req[r].op = "retry" /\ req[r].conv \notin marred => Copy(r, req[r].conv)
    BY <1>1 DEF IInv, Copies, HasCopy, Asking
  <2> QED BY <1>1, <1>4, <2>1 DEF Copy, Asking
<1>7. used' \in Nat /\ cache' \in [Conv -> Rec \cup {None}] /\ sel' \in opened \cup {None}
  BY <1>1 DEF IInv, Types, Opened
<1> DEFINE Q == {r}
<1>8. Q \in SUBSET Req /\ \A q \in Q : q = r
  OBVIOUS
<1> HIDE DEF Q
<1>9. \A q \in Req \ Q : req'[q] = req[q] /\ (Holds(q) => lock'[req[q].conv] = q)
  BY <1>2, <1>5 DEF Q
<1>10. \A q \in Q : \/ req'[q] = Idle
                    \/ \E o \in Ops, d \in Conv :
                         /\ req'[q] = Asked(o, d) /\ May(q, o, d)
                         /\ o = "open" => Q = {q}
  BY <1>2, <1>8
<1>11. \A q \in Q : req[q].at \in Asking =>
            \/ req[q].conv \in marred'
            \/ file[req[q].conv] # None =>
                 file[req[q].conv].turns[Len(file[req[q].conv].turns)] # "asked"
  BY <1>6, <1>8
<1>12. UNCHANGED <<file, job, opened>>
  BY <1>1
<1> QED BY <1>2, <1>3, <1>4, <1>7, <1>8, <1>9, <1>10, <1>11, <1>12, RequestsEnd

(* A request that is made changes nothing else; the tab may choose or read *)
(* a conversation in the same step.                                        *)
LEMMA RequestMade ==
  ASSUME IInv, NEW r \in Req, NEW op \in Ops, NEW c \in Conv, May(r, op, c), req[r].at = "none",
         UNCHANGED <<server, cache, opened, marred>>, sel' \in opened \cup {None},
         req' = [req EXCEPT ![r] = Asked(op, c)]
  PROVE  IInv'
<1> DEFINE Q == {r}
<1>1. Q \in SUBSET Req /\ Q = {r}
  OBVIOUS
<1> HIDE DEF Q
<1>2. /\ req' \in [Req -> ReqRec] /\ req'[r] = Asked(op, c) /\ \A q \in Req \ {r} : req'[q] = req[q]
  BY AskedType DEF IInv, Types
<1>3. /\ UNCHANGED <<file, job, opened>> /\ lock' \in [Conv -> Req \cup {None}] /\ used' \in Nat
      /\ cache' \in [Conv -> Rec \cup {None}] /\ marred' \in SUBSET Conv /\ marred \subseteq marred'
      /\ \A q \in Req : Holds(q) => lock'[req[q].conv] = q
  BY DEF server, IInv, Types, Locked
<1>4. req[r].at \notin Asking
  BY DEF Asking
<1>5. \A q \in Q : \/ req'[q] = Idle
                   \/ \E o \in Ops, d \in Conv :
                        /\ req'[q] = Asked(o, d) /\ May(q, o, d)
                        /\ o = "open" => Q = {q}
  BY <1>1, <1>2
<1>6. \A q \in Q : req[q].at \in Asking =>
            \/ req[q].conv \in marred'
            \/ file[req[q].conv] # None =>
                 file[req[q].conv].turns[Len(file[req[q].conv].turns)] # "asked"
  BY <1>1, <1>4
<1>7. \A q \in Req \ Q : req'[q] = req[q] /\ (Holds(q) => lock'[req[q].conv] = q)
  BY <1>1, <1>2, <1>3
<1> QED BY <1>1, <1>2, <1>3, <1>5, <1>6, <1>7, RequestsEnd

LEMMA GestureKeeps ==
  ASSUME IInv, NEW r \in {"post", "other"}, NEW op \in Ops, NEW c \in Conv, Gesture(r, op, c),
         IF op = "open" THEN Unused(c) ELSE c \in opened
  PROVE  IInv'
<1>1. May(r, op, c)
  BY DEF May, Unused
<1>2. req' = [req EXCEPT ![r] = Asked(op, c)]
  BY DEF Gesture, Ask, Asked
<1>3. r \in Req /\ req[r].at = "none"
  BY DEF Gesture, Req
<1>4. UNCHANGED <<server, cache, opened, marred>> /\ sel' \in opened \cup {None}
  BY DEF Gesture, tab, IInv, Opened
<1> QED BY <1>1, <1>2, <1>3, <1>4, RequestMade

LEMMA GesturesKeep ==
  ASSUME IInv, Submits \/ Retries \/ Stops \/ Drops \/ Elsewhere PROVE IInv'
<1>1. sel # None => sel \in opened /\ sel \in Conv
  BY DEF IInv, Opened, Types
<1>2. opened \subseteq Conv /\ {"open", "send", "retry", "stop", "remove"} \subseteq Ops
  BY DEF IInv, Types, Ops
<1>3. CASE Submits
  BY <1>1, <1>2, <1>3, GestureKeeps DEF Submits, Shown
<1>4. CASE Retries
  BY <1>1, <1>2, <1>4, GestureKeeps DEF Retries, Shown
<1>5. CASE Stops
  BY <1>1, <1>2, <1>5, GestureKeeps DEF Stops
<1>6. CASE Drops
  BY <1>2, <1>6, GestureKeeps DEF Drops
<1>7. CASE Elsewhere
  BY <1>7, GestureKeeps DEF Elsewhere
<1> QED BY <1>3, <1>4, <1>5, <1>6, <1>7

LEMMA SelectKeeps == ASSUME IInv, NEW c \in Conv \cup {None}, Select(c) PROVE IInv'
<1>1. "read" \in Ops /\ "get" \in Req /\ (c # None => c \in Conv)
  BY DEF Ops, Req
<1>2. CASE c # None /\ req["get"].at = "none"
  <2>1. req' = [req EXCEPT !["get"] = Asked("read", c)]
    BY <1>2 DEF Select, Ask, Asked
  <2> QED BY <1>1, <1>2, <2>1, RequestMade DEF Select, May
<1>3. CASE ~(c # None /\ req["get"].at = "none")
  <2>1. UNCHANGED <<file, job, opened, lock, used, cache, req, marred>> /\ sel' \in opened \cup {None}
    BY <1>3 DEF Select, server
  <2>2. {} \in SUBSET Req
    OBVIOUS
  <2>3. /\ lock' \in [Conv -> Req \cup {None}] /\ used' \in Nat /\ req' \in [Req -> ReqRec]
        /\ cache' \in [Conv -> Rec \cup {None}] /\ marred' \in SUBSET Conv /\ marred \subseteq marred'
        /\ \A q \in Req : Holds(q) => lock'[req[q].conv] = q
    BY <2>1 DEF IInv, Types, Locked
  <2> QED BY <2>1, <2>2, <2>3, RequestsEnd
<1> QED BY <1>2, <1>3

LEMMA PollKeeps == ASSUME IInv, Poll PROVE IInv'
<1>1. "read" \in Ops /\ "get" \in Req /\ sel \in Conv /\ sel \in opened
  BY DEF Poll, IInv, Opened, Types, Ops, Req
<1>2. req' = [req EXCEPT !["get"] = Asked("read", sel)]
  BY DEF Poll, Ask, Asked
<1> QED BY <1>1, <1>2, RequestMade DEF Poll, May, tab, server

LEMMA ArrivesKeeps == ASSUME IInv, NEW r \in Req, Arrives(r) PROVE IInv'
<1>1. /\ UNCHANGED <<server, opened, marred>> /\ req[r].at = "answer" /\ req[r] \in ReqRec
      /\ req[r].conv \in Conv /\ req[r].conv \in opened /\ req[r].rec \in Rec \cup {None}
  BY DEF Arrives, IInv, Types, Shapes, Opened, ReqRec
<1>2. cache' \in [Conv -> Rec \cup {None}]
  <2>1. CASE UNCHANGED cache
    BY <2>1 DEF IInv, Types
  <2>2. CASE cache' = [cache EXCEPT ![req[r].conv] = req[r].rec]
    BY <1>1, <2>2 DEF IInv, Types
  <2> QED BY <2>1, <2>2 DEF Arrives
<1>3. sel' \in opened \cup {None}
  BY <1>1 DEF Arrives, IInv, Opened
<1>4. /\ UNCHANGED <<file, job, opened>> /\ lock' \in [Conv -> Req \cup {None}] /\ used' \in Nat
      /\ marred' \in SUBSET Conv /\ marred \subseteq marred'
      /\ \A q \in Req : Holds(q) => lock'[req[q].conv] = q
  BY <1>1 DEF server, IInv, Types, Locked
<1>5. CASE r = "post" /\ req[r].op = "stop"
  <2> DEFINE Q == {"post", "get"}
  <2>1. Q \in SUBSET Req /\ "post" \in Q /\ "get" \in Q /\ \A q \in Q : q = "post" \/ q = "get"
    BY DEF Req
  <2> HIDE DEF Q
  <2>2. req' = [[req EXCEPT !["get"] = Asked("read", req[r].conv)] EXCEPT ![r] = Idle]
    BY <1>5 DEF Arrives, Ask, Asked
  <2>3. /\ req'["post"] = Idle /\ req'["get"] = Asked("read", req[r].conv) /\ req' \in [Req -> ReqRec]
        /\ \A q \in Req \ Q : req'[q] = req[q]
    BY <1>1, <1>5, <2>1, <2>2, AskedType DEF IInv, Types, Ops, Req
  <2>4. May("get", "read", req[r].conv) /\ "read" \in Ops
    BY <1>1 DEF May, Ops
  <2>5. req["post"].at \notin Asking /\ req["get"].at \notin Asking
    BY <1>1, <1>5, <2>1 DEF Asking, IInv, Shapes, Posts
  <2>6. \A q \in Q : \/ req'[q] = Idle
                     \/ \E o \in Ops, d \in Conv :
                          /\ req'[q] = Asked(o, d) /\ May(q, o, d)
                          /\ o = "open" => Q = {q}
    <3>1. ASSUME NEW q \in Q
          PROVE  \/ req'[q] = Idle
                 \/ \E o \in Ops, d \in Conv : /\ req'[q] = Asked(o, d) /\ May(q, o, d)
                                               /\ o = "open" => Q = {q}
      <4>1. CASE q = "post"
        BY <2>3, <4>1
      <4>2. CASE q = "get"
        <5>1. req'[q] = Asked("read", req[r].conv) /\ May(q, "read", req[r].conv)
          BY <2>3, <2>4, <4>2
        <5>2. "read" \in Ops /\ ("read" = "open" => Q = {q})
          BY <2>4
        <5> QED BY <1>1, <5>1, <5>2
      <4> QED BY <2>1, <4>1, <4>2
    <3> QED BY <3>1
  <2>7. \A q \in Q : req[q].at \in Asking =>
            \/ req[q].conv \in marred'
            \/ file[req[q].conv] # None =>
                 file[req[q].conv].turns[Len(file[req[q].conv].turns)] # "asked"
    BY <2>1, <2>5
  <2>8. \A q \in Req \ Q : req'[q] = req[q] /\ (Holds(q) => lock'[req[q].conv] = q)
    BY <1>4, <2>3
  <2> QED BY <1>2, <1>3, <1>4, <2>1, <2>3, <2>6, <2>7, <2>8, RequestsEnd
<1>6. CASE ~(r = "post" /\ req[r].op = "stop")
  <2> DEFINE Q == {r}
  <2>1. Q \in SUBSET Req /\ Q = {r}
    OBVIOUS
  <2> HIDE DEF Q
  <2>2. req' = [req EXCEPT ![r] = Idle]
    BY <1>6 DEF Arrives
  <2>3. req'[r] = Idle /\ req' \in [Req -> ReqRec] /\ \A q \in Req \ Q : req'[q] = req[q]
    BY <2>1, <2>2, AskedType DEF IInv, Types
  <2>4. req[r].at \notin Asking
    BY <1>1 DEF Asking
  <2> QED BY <1>1, <1>2, <1>3, <1>4, <2>1, <2>3, <2>4, RequestsEnd
<1> QED BY <1>5, <1>6

-----------------------------------------------------------------------------
(* Stops, removals and what becomes of a reply *)

LEMMA CancelTurnKeeps == ASSUME IInv, NEW r \in Req, CancelTurn(r) PROVE IInv'
<1> DEFINE j == req[r].rec.pending.job
<1>0. /\ UNCHANGED <<file, lock, used, sel, cache, opened, marred>> /\ req[r].at = "cancel"
  BY DEF CancelTurn, tab
<1>1. /\ req[r] \in ReqRec /\ req[r].conv \in Conv /\ req[r].conv \in opened
      /\ req[r].rec \in Rec /\ req[r].rec.pending # None /\ req[r].op \notin Posts
  BY <1>0 DEF IInv, Types, ReqRec, Shapes, Opened
<1>2. j \in Job /\ job[j] \in JobRec
  BY <1>1, RecType DEF IInv, Types
<1> HIDE DEF j
<1>3. req' = [req EXCEPT ![r] = [req[r] EXCEPT !.at = "heal"]]
  BY DEF CancelTurn, To
<1>4. /\ req'[r].at = "heal" /\ req'[r].op = req[r].op /\ req'[r].conv = req[r].conv
      /\ req'[r].rec = req[r].rec /\ \A q \in Req \ {r} : req'[q] = req[q]
  BY <1>1, <1>3 DEF IInv, Types, ReqRec
<1>5. req' \in [Req -> ReqRec]
  BY <1>1, <1>3, ReqSteps DEF IInv, Types, Steps
<1>6. \/ job' = job
      \/ job' = [job EXCEPT ![j] = [job[j] EXCEPT !.st = "cancelled"]] /\ job[j].st = "queued"
  BY DEF CancelTurn, j
<1>7. /\ job' \in [Job -> JobRec]
      /\ \A i \in Job : /\ job'[i].conv = job[i].conv /\ job'[i].turn = job[i].turn
                        /\ job'[i].at = job[i].at
                        /\ job'[i].st = job[i].st \/ (job[i].st = "queued" /\ job'[i].st = "cancelled")
  <2>1. CASE job' = job
    BY <2>1 DEF IInv, Types
  <2>2. CASE job' = [job EXCEPT ![j] = [job[j] EXCEPT !.st = "cancelled"]] /\ job[j].st = "queued"
    <3>1. [job[j] EXCEPT !.st = "cancelled"] \in JobRec
      BY <1>2, JobSteps
    <3> QED BY <1>2, <2>2, <3>1 DEF IInv, Types, JobRec
  <2> QED BY <1>6, <2>1, <2>2
<1>8. Types' /\ Opened' /\ Locked'
  BY <1>0, <1>1, <1>4, <1>5, <1>7 DEF IInv, Types, Opened, Locked, Holds
<1>9. Shapes'
  BY <1>0, <1>1, <1>4, <1>7 DEF IInv, Shapes, HasCopy, Asking
<1>10. Owners'
  <2>1. \A p \in Pend, c \in Conv : Owner(p, c) => Owner(p, c)'
    BY <1>7 DEF Owner, Pend
  <2>2. \A p \in Pend : job[p.job].st \notin Live => job'[p.job].st \notin Live
    BY <1>7 DEF Pend, Live
  <2>3. \A c \in Conv : file[c] # None /\ file[c].pending # None => file[c].pending \in Pend
    BY DEF IInv, Types, Rec
  <2>4. \A q \in Req : req[q].rec # None /\ req[q].rec.pending # None =>
          req[q].rec.pending \in Pend /\ req[q].conv \in Conv
    BY DEF IInv, Types, ReqRec, Rec, Shapes
  <2>5. \A q \in Req : req[q].at = "free" => req[q].rec.pending \in Pend
    BY <2>4 DEF IInv, Shapes
  <2>6. \A q \in Req : req'[q].rec = req[q].rec /\ req'[q].conv = req[q].conv
                       /\ (req'[q].at = "free" => req[q].at = "free")
    BY <1>4
  <2> QED BY <1>0, <2>1, <2>2, <2>3, <2>4, <2>5, <2>6 DEF IInv, Owners
<1>11. Copies'
  <2> SUFFICES ASSUME NEW q \in Req, HasCopy(q)', req'[q].conv \notin marred'
               PROVE  Copy(q, req[q].conv)'
    BY DEF Copies
  <2>1. q # r /\ req'[q] = req[q]
    BY <1>4 DEF HasCopy, Asking
  <2>2. Copy(q, req[q].conv)
    BY <1>0, <2>1 DEF IInv, Copies, HasCopy
  <2>3. Quiet(req[q].conv) => Quiet(req[q].conv)'
    BY <1>7, <2>1 DEF Quiet
  <2> QED BY <1>0, <2>1, <2>2, <2>3 DEF Copy
<1>12. Lone' /\ Working' /\ Files'
  <2>1. \A q \in Req : /\ req'[q].conv = req[q].conv /\ req'[q].op = req[q].op
                       /\ req'[q].at \in Asking <=> req[q].at \in Asking
                       /\ req'[q].at = "asked" => req[q].at = "asked"
    BY <1>0, <1>4 DEF Asking
  <2> QED BY <1>0, <1>7, <2>1 DEF IInv, Lone, Working, Waits, Files, Kept
<1> QED BY <1>8, <1>9, <1>10, <1>11, <1>12 DEF IInv

LEMMA EndsKeeps == ASSUME IInv, NEW r \in Req, Ends(r) PROVE IInv'
<1>0. /\ UNCHANGED <<lock, job, used, sel, cache, opened, marred>> /\ req[r].at = "end"
  BY DEF Ends, tab
<1>1. /\ req[r] \in ReqRec /\ req[r].conv \in Conv /\ req[r].conv \in opened /\ req[r].op \notin Posts
  BY <1>0 DEF IInv, Types, ReqRec, Shapes, Opened
<1>2. req' = [req EXCEPT ![r] = [req[r] EXCEPT !.at = "answer"]]
  BY DEF Ends, To
<1>3. /\ req'[r].at = "answer" /\ req'[r].op = req[r].op /\ req'[r].conv = req[r].conv
      /\ req'[r].rec = req[r].rec /\ \A q \in Req \ {r} : req'[q] = req[q]
  BY <1>1, <1>2 DEF IInv, Types, ReqRec
<1>4. req' \in [Req -> ReqRec]
  BY <1>1, <1>2, ReqSteps DEF IInv, Types, Steps
<1>5. file' \in [Conv -> Rec \cup {None}] /\ \A c \in Conv : file'[c] = None \/ file'[c] = file[c]
  BY <1>1 DEF Ends, IInv, Types
<1>6. Types' /\ Opened' /\ Locked'
  BY <1>0, <1>1, <1>3, <1>4, <1>5 DEF IInv, Types, Opened, Locked, Holds
<1>7. Shapes' /\ Owners'
  BY <1>0, <1>1, <1>3, <1>5 DEF IInv, Shapes, HasCopy, Asking, Owners, Owner
<1>8. Copies'
  <2> SUFFICES ASSUME NEW q \in Req, HasCopy(q)', req'[q].conv \notin marred'
               PROVE  Copy(q, req[q].conv)'
    BY DEF Copies
  <2>1. q # r /\ req'[q] = req[q]
    BY <1>3 DEF HasCopy, Asking
  <2>2. Copy(q, req[q].conv) /\ req[q].conv \in Conv
    BY <1>0, <2>1 DEF IInv, Copies, HasCopy, Shapes, Asking
  <2> QED BY <1>0, <1>5, <2>1, <2>2 DEF Copy, Quiet
<1>9. Lone'
  <2>1. \A q \in Req : /\ req'[q].conv = req[q].conv /\ req'[q].op = req[q].op
                       /\ req'[q].at \in Asking <=> req[q].at \in Asking
                       /\ req'[q].at = "asked" => req[q].at = "asked"
    BY <1>0, <1>3 DEF Asking
  <2> QED BY <1>0, <2>1 DEF IInv, Lone
<1>10. Working'
  BY <1>0, <1>5 DEF IInv, Working, Waits, Shapes, Types
<1>11. Files'
  <2> SUFFICES ASSUME NEW c \in Conv \ marred, file'[c] # None PROVE Kept(c)'
    BY <1>0 DEF Files
  <2>1. Kept(c) /\ file'[c] = file[c]
    BY <1>5 DEF IInv, Files
  <2>2. \A q \in Req : /\ req'[q].conv = req[q].conv
                       /\ req'[q].at \in Asking <=> req[q].at \in Asking
    BY <1>0, <1>3 DEF Asking
  <2> QED BY <2>1, <2>2 DEF Kept
<1> QED BY <1>6, <1>7, <1>8, <1>9, <1>10, <1>11 DEF IInv

(* A request frees a conversation whose job is dead. *)
LEMMA FreeKeeps == ASSUME IInv, NEW r \in Req, Free(r) PROVE IInv'
<1> DEFINE c == req[r].conv
           rec == req[r].rec
           fresh == IF file[c] = None THEN rec ELSE file[c]
           dead == fresh.pending # None /\ fresh.pending.job = rec.pending.job
           freed == IF dead THEN MarkFailed(fresh, rec.pending.turn) ELSE fresh
<1>0. /\ UNCHANGED <<lock, job, used, sel, cache, opened>> /\ req[r].at = "free" /\ lock[c] = None
      /\ file' = IF dead THEN [file EXCEPT ![c] = freed] ELSE file
      /\ req' = [req EXCEPT ![r].at = Healed(r), ![r].rec = freed]
      /\ marred' = IF file[c] = None THEN marred \cup {c} ELSE marred
  BY DEF Free, tab
<1>1. /\ req[r] \in ReqRec /\ c \in Conv /\ c \in opened /\ rec \in Rec /\ rec.pending # None
      /\ rec # None /\ req[r].op \notin Posts
  BY <1>0 DEF IInv, Types, ReqRec, Shapes, Opened
<1>2. fresh \in Rec /\ rec.pending.turn \in Nat /\ rec.pending.job \in Job
  BY <1>1, RecType DEF IInv, Types
<1>3. freed \in Rec /\ freed # None /\ (dead => freed.pending = None) /\ (~dead => freed = fresh)
  BY <1>2, MarkFailedType, RecType
<1>4. dead /\ file[c] # None => /\ file[c].pending.turn = rec.pending.turn
                                /\ freed = MarkFailed(file[c], file[c].pending.turn)
  <2>1. /\ Owner(rec.pending, c)
        /\ file[c] # None /\ file[c].pending # None => Owner(file[c].pending, c)
    BY <1>1 DEF IInv, Owners
  <2> QED BY <2>1 DEF Owner
<1>5. job[rec.pending.job].st \notin Live
  BY <1>0 DEF IInv, Owners
<1>6. fresh.pending # None => Owner(fresh.pending, c)
  <2>1. CASE file[c] = None
    BY <1>1, <2>1 DEF IInv, Owners
  <2>2. CASE file[c] # None
    BY <1>1, <2>2 DEF IInv, Owners
  <2> QED BY <2>1, <2>2
<1>7. file[c] # None => fresh = file[c]
  OBVIOUS
<1>8. ~dead /\ file[c] = None => FALSE
  BY <1>1
<1> HIDE DEF c, rec, fresh, dead, freed
<1>9. Healed(r) \in Steps /\ Healed(r) \in {"end", "answer"}
  BY DEF Healed, Steps
<1>10. req' = [req EXCEPT ![r] = [req[r] EXCEPT !.at = Healed(r), !.rec = freed]]
  BY <1>0
<1>11. /\ req'[r].at \in {"end", "answer"} /\ req'[r].op = req[r].op /\ req'[r].conv = c
       /\ req'[r].rec = freed /\ \A q \in Req \ {r} : req'[q] = req[q]
  BY <1>1, <1>9, <1>10 DEF IInv, Types, ReqRec, c
<1>12. req' \in [Req -> ReqRec]
  BY <1>1, <1>3, <1>9, <1>10, ReqSteps DEF IInv, Types
<1>13. marred' \in SUBSET Conv /\ marred \subseteq marred' /\ (file[c] = None => c \in marred')
  BY <1>0, <1>1 DEF IInv, Types
<1>14. /\ file' \in [Conv -> Rec \cup {None}]
       /\ \A d \in Conv \ {c} : file'[d] = file[d]
       /\ IF dead THEN file'[c] = freed ELSE file' = file
  BY <1>0, <1>1, <1>3 DEF IInv, Types
<1>15. Types' /\ Locked'
  BY <1>0, <1>11, <1>12, <1>13, <1>14 DEF IInv, Types, Locked, Holds, c
<1>16. Opened'
  <2>1. \A d \in Conv : file'[d] # None => d \in opened
    BY <1>1, <1>14 DEF IInv, Opened
  <2>2. \A q \in Req : req'[q].conv = req[q].conv
    BY <1>11 DEF c
  <2>3. \A q \in Req : /\ req'[q].op = req[q].op
                       /\ req'[q].at # "none" => req[q].at # "none"
                       /\ req'[q].at \in {"start", "listed"} => req[q].at = req'[q].at
    BY <1>0, <1>11
  <2>4. req[r].op # "open"
    BY <1>1 DEF Posts
  <2>5. UNCHANGED <<sel, opened>>
    BY <1>0
  <2> QED BY <1>11, <2>1, <2>2, <2>3, <2>4, <2>5 DEF IInv, Opened
<1>17. Shapes'
  <2>1. UNCHANGED <<job, opened>>
    BY <1>0
  <2> QED BY <1>1, <1>3, <1>11, <2>1 DEF IInv, Shapes, HasCopy, Asking, c
<1>18. Owners'
  <2>1. \A p \in Pend, d \in Conv : Owner(p, d) => Owner(p, d)'
    BY <1>0 DEF Owner
  <2>2. freed.pending # None => Owner(freed.pending, c)
    BY <1>3, <1>6
  <2>3. ASSUME NEW d \in Conv, file'[d] # None, file'[d].pending # None
        PROVE  Owner(file'[d].pending, d)
    <3>1. CASE file'[d] = file[d]
      BY <2>3, <3>1 DEF IInv, Owners
    <3>2. CASE d = c /\ file'[d] = freed
      BY <2>2, <2>3, <3>2
    <3> QED BY <1>14, <3>1, <3>2
  <2>4. ASSUME NEW q \in Req, req'[q].rec # None, req'[q].rec.pending # None
        PROVE  Owner(req'[q].rec.pending, req'[q].conv)
    <3>1. CASE q = r
      BY <1>11, <2>2, <2>4, <3>1
    <3>2. CASE q # r
      BY <1>11, <2>4, <3>2 DEF IInv, Owners
    <3> QED BY <3>1, <3>2
  <2>5. \A q \in Req : req'[q].at = "free" => req'[q] = req[q]
    BY <1>11
  <2> QED BY <1>0, <2>3, <2>4, <2>5 DEF IInv, Owners, Owner
<1>19. ~HasCopy(r)' /\ req'[r].at \notin Asking /\ req[r].at \notin Asking
  BY <1>0, <1>11 DEF HasCopy, Asking
<1>20. Copies' /\ Lone' /\ Working' /\ Files'
  <2>1. CASE ~dead
    BY <1>0, <1>11, <1>13, <1>14, <1>19, <2>1, RequestMoves
  <2>2. CASE dead /\ file[c] # None
    <3> DEFINE Q == {r}
    <3>1. Q \in SUBSET Req /\ \A q \in Q : q = r
      OBVIOUS
    <3>2. \A q \in Req \ Q : req'[q] = req[q]
      BY <1>11
    <3> HIDE DEF Q
    <3>3. \A q \in Q : req[q].at \notin Asking /\ req'[q].at \notin Asking
      BY <1>19, <3>1
    <3>4. \A j \in Job : /\ job'[j].conv = job[j].conv
                         /\ job'[j].at \in {"answer", "write"} =>
                              job[j].at \in {"answer", "write"} /\ ~Waits(c, j)
      BY <1>0, <1>5, <1>7, <2>2 DEF Waits, dead, IInv, Shapes, Live
    <3>5. file[c].pending # None /\ file' = [file EXCEPT ![c] = MarkFailed(file[c], file[c].pending.turn)]
      BY <1>0, <1>4, <1>7, <2>2 DEF dead
    <3>6. /\ \A q \in Req \ Q : HasCopy(q)' /\ req'[q].conv \notin marred' => Copy(q, req[q].conv)'
          /\ Lone' /\ Working' /\ Files'
      BY <1>0, <1>1, <1>13, <2>2, <3>1, <3>2, <3>3, <3>4, <3>5, FileFreed DEF c
    <3>7. Copies'
      BY <1>19, <3>1, <3>6 DEF Copies
    <3> QED BY <3>6, <3>7
  <2>3. CASE dead /\ file[c] = None
    <3>1. c \in marred' /\ \A d \in Conv : d \notin marred' => file'[d] = file[d] /\ d \notin marred
      BY <1>13, <1>14, <2>3
    <3>2. Copies'
      <4> SUFFICES ASSUME NEW q \in Req, HasCopy(q)', req'[q].conv \notin marred'
                   PROVE  Copy(q, req[q].conv)'
        BY DEF Copies
      <4>1. q # r /\ req'[q] = req[q]
        BY <1>11, <1>19
      <4>2. req[q].conv \in Conv
        BY <4>1 DEF HasCopy, Asking, IInv, Shapes
      <4>3. Copy(q, req[q].conv)
        BY <3>1, <4>1, <4>2 DEF IInv, Copies, HasCopy
      <4> QED BY <1>0, <3>1, <4>1, <4>2, <4>3 DEF Copy, Quiet
    <3>3. Lone'
      <4>1. \A q \in Req : /\ req'[q].conv = req[q].conv /\ req'[q].op = req[q].op
                           /\ req'[q].at \in Asking <=> req[q].at \in Asking
                           /\ req'[q].at = "asked" => req[q].at = "asked"
        BY <1>0, <1>11, <1>19 DEF Asking, c
      <4>2. UNCHANGED job
        BY <1>0
      <4> QED BY <1>13, <4>1, <4>2 DEF IInv, Lone
    <3>4. Working'
      BY <1>0, <3>1 DEF IInv, Working, Waits, Types, JobRec
    <3>5. Files'
      BY <1>11, <1>19, <3>1 DEF IInv, Files, Kept
    <3> QED BY <3>2, <3>3, <3>4, <3>5
  <2> QED BY <2>1, <2>2, <2>3
<1> QED BY <1>15, <1>16, <1>17, <1>18, <1>20 DEF IInv

(* The worker gives its turn up. *)
LEMMA ReleaseTurnKeeps == ASSUME IInv, NEW j \in Job, ReleaseTurn(j) PROVE IInv'
<1> DEFINE c == job[j].conv
<1>0. /\ UNCHANGED <<lock, used, req, sel, cache, opened, marred, asked, restarts, gestures>>
      /\ job[j].at = "free" /\ lock[c] = None
      /\ file' = IF Waits(c, j) THEN [file EXCEPT ![c] = MarkFailed(file[c], job[j].turn)] ELSE file
  BY DEF ReleaseTurn, tab
<1>1. job[j] \in JobRec /\ job[j].st = "running" /\ c \in Conv
  BY <1>0 DEF IInv, Types, Shapes, Opened
<1>2. job' = [job EXCEPT ![j] = [job[j] EXCEPT !.at = "end"]]
  BY DEF ReleaseTurn
<1> HIDE DEF c
<1>3. [job[j] EXCEPT !.at = "end"] \in JobRec
  BY <1>1, JobSteps
<1>4. /\ job' \in [Job -> JobRec] /\ job'[j].at = "end" /\ job'[j].conv = job[j].conv
      /\ job'[j].st = "running" /\ job'[j].turn = job[j].turn
      /\ \A i \in Job \ {j} : job'[i] = job[i]
  BY <1>1, <1>2, <1>3 DEF IInv, Types, JobRec
<1>5. CASE ~Waits(c, j)
  <2>1. UNCHANGED <<file, lock, used, tab, req, opened, marred>>
    BY <1>0, <1>5 DEF tab
  <2> QED BY <1>1, <1>4, <2>1, JobMoves
<1>6. CASE Waits(c, j)
  <2>1. file[c] # None /\ file[c].pending # None /\ file[c].pending.job = j
        /\ file[c].pending.turn = job[j].turn /\ file[c] \in Rec
    BY <1>1, <1>6 DEF Waits, IInv, Owners, Owner, Types
  <2>2. file' = [file EXCEPT ![c] = MarkFailed(file[c], file[c].pending.turn)]
    BY <1>0, <1>6, <2>1
  <2>3. \A i \in Job : /\ job'[i].conv = job[i].conv
                       /\ job'[i].at \in {"answer", "write"} =>
                            job[i].at \in {"answer", "write"} /\ ~Waits(c, i)
    BY <1>4, <2>1 DEF Waits
  <2> DEFINE Q == {}
  <2>4. Q \in SUBSET Req
    OBVIOUS
  <2>5. (\A q \in Req \ Q : req'[q] = req[q]) /\ (\A q \in Q : req[q].at \notin Asking /\ req'[q].at \notin Asking)
    BY <1>0
  <2> HIDE DEF Q
  <2>6. /\ \A q \in Req \ Q : HasCopy(q)' /\ req'[q].conv \notin marred' => Copy(q, req[q].conv)'
        /\ Lone' /\ Working' /\ Files'
        /\ file' \in [Conv -> Rec \cup {None}] /\ file'[c] \in Rec /\ file'[c].pending = None
    BY <1>0, <1>1, <2>1, <2>2, <2>3, <2>4, <2>5, FileFreed
  <2>7. Copies'
    BY <2>6 DEF Copies, Q
  <2>8. \A d \in Conv : d # c => file'[d] = file[d]
    BY <2>2 DEF IInv, Types
  <2>9. Types' /\ Opened' /\ Locked'
    BY <1>0, <1>4, <2>1, <2>6, <2>8 DEF IInv, Types, Opened, Locked, Holds
  <2>10. Shapes'
    BY <1>0, <1>4 DEF IInv, Shapes, HasCopy, Asking
  <2>11. Owners'
    <3>1. \A p \in Pend, d \in Conv : Owner(p, d) => Owner(p, d)'
      BY <1>1, <1>4 DEF Owner, Pend
    <3>2. \A p \in Pend : job[p.job].st \notin Live => job'[p.job].st \notin Live
      BY <1>1, <1>4 DEF Pend
    <3>3. \A d \in Conv : file'[d] # None /\ file'[d].pending # None =>
            file[d] = file'[d] /\ file[d].pending \in Pend
      BY <2>6, <2>8, RecType DEF IInv, Types
    <3>4. \A q \in Req : req[q].rec # None /\ req[q].rec.pending # None =>
            req[q].rec.pending \in Pend /\ req[q].conv \in Conv
      BY DEF IInv, Types, ReqRec, Rec, Shapes
    <3>5. \A q \in Req : req[q].at = "free" => req[q].rec.pending \in Pend
      BY <3>4 DEF IInv, Shapes
    <3> QED BY <1>0, <3>1, <3>2, <3>3, <3>4, <3>5 DEF IInv, Owners
  <2> QED BY <2>6, <2>7, <2>9, <2>10, <2>11 DEF IInv
<1> QED BY <1>5, <1>6

(* The worker appends its reply to the conversation that waits for it. *)
LEMMA AppendReplyKeeps == ASSUME IInv, NEW j \in Job, AppendReply(j) PROVE IInv'
<1> DEFINE c == job[j].conv
           new == [turns |-> Append(file[c].turns, "reply"), pending |-> None]
<1>0. /\ UNCHANGED <<lock, used, req, sel, cache, opened, marred, asked, restarts, gestures>>
      /\ job[j].at = "write" /\ lock[c] = None
      /\ file' = IF file[c] = None THEN file ELSE [file EXCEPT ![c] = new]
  BY DEF AppendReply, tab
<1>1. job[j] \in JobRec /\ job[j].st = "running" /\ c \in Conv
  BY <1>0 DEF IInv, Types, Shapes, Opened
<1>2. job' = [job EXCEPT ![j] = [job[j] EXCEPT !.at = "done"]]
  BY DEF AppendReply
<1>3. [job[j] EXCEPT !.at = "done"] \in JobRec
  BY <1>1, JobSteps
<1>4. /\ job' \in [Job -> JobRec] /\ job'[j].at = "done" /\ job'[j].conv = job[j].conv
      /\ job'[j].st = "running" /\ job'[j].turn = job[j].turn
      /\ \A i \in Job \ {j} : job'[i] = job[i]
  BY <1>1, <1>2, <1>3 DEF IInv, Types, JobRec
<1>5. file[c] # None => /\ file[c] \in Rec /\ new \in Rec /\ new.pending = None
                        /\ new.turns = Append(file[c].turns, "reply")
  <2>1. file[c] # None => file[c] \in Rec
    BY <1>1 DEF IInv, Types
  <2>2. file[c] # None => Append(file[c].turns, "reply") \in Seq(Turn)
    BY <2>1, RecType, AppendProperties DEF Turn
  <2> QED BY <2>1, <2>2, RecMake
<1>6. file[c] # None /\ c \notin marred =>
        /\ Waits(c, j)
        /\ new.turns # <<>> /\ new.turns[Len(new.turns)] = "reply" /\ Fit(new.turns)
  <2> SUFFICES ASSUME file[c] # None, c \notin marred
               PROVE  /\ Waits(c, j)
                      /\ new.turns # <<>> /\ new.turns[Len(new.turns)] = "reply" /\ Fit(new.turns)
    OBVIOUS
  <2>1. Waits(c, j)
    BY <1>0, <1>1 DEF IInv, Working
  <2>2. file[c].turns \in Seq(Turn) /\ Fit(file[c].turns) /\ file[c].turns # <<>>
        /\ file[c].turns[Len(file[c].turns)] = "asked"
    BY <1>1, <1>5, <2>1, RecType DEF IInv, Files, Kept, Waits
  <2> QED BY <1>5, <2>1, <2>2, TurnsReply
<1> HIDE DEF c, new
<1>7. CASE file[c] = None
  <2>1. UNCHANGED <<file, lock, used, tab, req, opened, marred>>
    BY <1>0, <1>7 DEF tab
  <2> QED BY <1>1, <1>4, <2>1, JobMoves
<1>8. CASE file[c] # None
  <2>1. /\ file' \in [Conv -> Rec \cup {None}] /\ file'[c] = new /\ file'[c].pending = None
        /\ \A d \in Conv : d # c => file'[d] = file[d]
    BY <1>0, <1>1, <1>5, <1>8 DEF IInv, Types
  <2>2. Types' /\ Opened' /\ Locked'
    BY <1>0, <1>4, <1>8, <2>1 DEF IInv, Types, Opened, Locked, Holds
  <2>3. Shapes'
    BY <1>0, <1>4 DEF IInv, Shapes, HasCopy, Asking
  <2>4. Owners'
    <3>1. \A p \in Pend, d \in Conv : Owner(p, d) => Owner(p, d)'
      BY <1>1, <1>4 DEF Owner, Pend
    <3>2. \A p \in Pend : job[p.job].st \notin Live => job'[p.job].st \notin Live
      BY <1>1, <1>4 DEF Pend
    <3>3. \A d \in Conv : file'[d] # None /\ file'[d].pending # None =>
            file[d] = file'[d] /\ file[d].pending \in Pend
      BY <2>1, RecType DEF IInv, Types
    <3>4. \A q \in Req : req[q].rec # None /\ req[q].rec.pending # None =>
            req[q].rec.pending \in Pend /\ req[q].conv \in Conv
      BY DEF IInv, Types, ReqRec, Rec, Shapes
    <3>5. \A q \in Req : req[q].at = "free" => req[q].rec.pending \in Pend
      BY <3>4 DEF IInv, Shapes
    <3> QED BY <1>0, <3>1, <3>2, <3>3, <3>4, <3>5 DEF IInv, Owners
  <2>5. Copies'
    <3> SUFFICES ASSUME NEW q \in Req, HasCopy(q), req[q].conv \notin marred
                 PROVE  Copy(q, req[q].conv)'
      BY <1>0 DEF Copies, HasCopy
    <3>1. Copy(q, req[q].conv) /\ req[q].conv \in Conv
      BY DEF IInv, Copies, HasCopy, Shapes, Asking
    <3>2. req[q].conv # c
      <4>1. CASE Holds(q)
        BY <1>0, <4>1 DEF IInv, Locked, Types
      <4>2. CASE ~Holds(q)
        BY <4>2 DEF Holds, HasCopy, Asking, IInv, Lone, c
      <4> QED BY <4>1, <4>2
    <3>3. Quiet(req[q].conv) => Quiet(req[q].conv)'
      BY <1>0, <1>4 DEF Quiet
    <3> QED BY <1>0, <2>1, <3>1, <3>2, <3>3 DEF Copy
  <2>6. Lone'
    BY <1>0, <1>4 DEF IInv, Lone
  <2>7. Working'
    <3> SUFFICES ASSUME NEW i \in Job, job'[i].at \in {"answer", "write"}, job'[i].conv \notin marred,
                        file'[job'[i].conv] # None
                 PROVE  Waits(job[i].conv, i)'
      BY <1>0, <1>4 DEF Working
    <3>1. i # j /\ job'[i] = job[i] /\ job[i].conv \in Conv
      BY <1>4 DEF IInv, Shapes, Opened, Types
    <3>2. job[i].conv # c
      BY <1>6, <1>8, <3>1 DEF IInv, Working, Waits
    <3> QED BY <2>1, <3>1, <3>2 DEF IInv, Working, Waits
  <2>8. Files'
    <3> SUFFICES ASSUME NEW d \in Conv \ marred, file'[d] # None PROVE Kept(d)'
      BY <1>0 DEF Files
    <3>1. CASE d = c
      BY <1>6, <1>8, <2>1, <3>1 DEF Kept
    <3>2. CASE d # c
      BY <1>0, <2>1, <3>2 DEF IInv, Files, Kept
    <3> QED BY <3>1, <3>2
  <2> QED BY <2>2, <2>3, <2>4, <2>5, <2>6, <2>7, <2>8 DEF IInv
<1> QED BY <1>7, <1>8

-----------------------------------------------------------------------------
(* A message is queued, and its `pending` written *)

LEMMA SubmitKeeps == ASSUME IInv, NEW r \in Req, Submit(r) PROVE IInv'
<1> DEFINE c == req[r].conv
           turn == Len(req[r].rec.turns)
<1>1. PICK j \in Job :
        /\ NextJob(j)
        /\ lock' = [lock EXCEPT ![c] = r]
        /\ job' = [job EXCEPT ![j] = [st |-> "queued", conv |-> c, turn |-> turn, at |-> "none"]]
        /\ req' = [req EXCEPT ![r].at = "queued", ![r].rec.pending = [job |-> j, turn |-> turn]]
  BY DEF Submit
<1>2. /\ UNCHANGED <<file, used, sel, cache, opened, marred>>
      /\ req[r].at = "asked" /\ lock[c] \in {r, None}
  BY DEF Submit, tab
<1>3. /\ req[r] \in ReqRec /\ c \in Conv /\ c \in opened /\ req[r].rec \in Rec /\ req[r].op \in Posts
  BY <1>2 DEF IInv, Types, ReqRec, Shapes, Opened, HasCopy, Asking
<1>4. job[j].st = "new" /\ turn \in Nat /\ job[j] \in JobRec
  BY <1>1, <1>3, RecType DEF NextJob, IInv, Types
<1> DEFINE p == [job |-> j, turn |-> turn]
           rec == [turns |-> req[r].rec.turns, pending |-> p]
<1>5. /\ rec \in Rec /\ rec.turns = req[r].rec.turns /\ rec.pending = p /\ p.job = j /\ p.turn = turn
      /\ [req[r].rec EXCEPT !.pending = p] = rec /\ p # None /\ p \in Pend
  <2>1. p \in Pend /\ p.job = j /\ p.turn = turn
    BY <1>4 DEF Pend
  <2>2. [req[r].rec EXCEPT !.pending = p] = rec
    BY <1>3 DEF Rec
  <2> QED BY <1>3, <2>1, <2>2, RecType, RecMake
<1>6. req' = [req EXCEPT ![r] = [req[r] EXCEPT !.at = "queued", !.rec = rec]]
  BY <1>1, <1>3, <1>5 DEF ReqRec, IInv, Types
<1> HIDE DEF c, turn, p, rec
<1>7. /\ req'[r].at = "queued" /\ req'[r].op = req[r].op /\ req'[r].conv = c
      /\ req'[r].rec = rec /\ \A q \in Req \ {r} : req'[q] = req[q]
  BY <1>3, <1>6 DEF IInv, Types, ReqRec, c
<1>8. req' \in [Req -> ReqRec]
  BY <1>3, <1>5, <1>6, ReqSteps DEF IInv, Types, Steps
<1>9. /\ job' \in [Job -> JobRec] /\ job'[j].st = "queued" /\ job'[j].conv = c
      /\ job'[j].turn = turn /\ job'[j].at = "none" /\ \A i \in Job \ {j} : job'[i] = job[i]
  BY <1>1, <1>3, <1>4 DEF IInv, Types, JobRec, Live
<1>10. /\ lock' \in [Conv -> Req \cup {None}] /\ lock'[c] = r
       /\ \A d \in Conv \ {c} : lock'[d] = lock[d]
  BY <1>1, <1>3 DEF IInv, Types
<1>11. Types' /\ Opened'
  BY <1>2, <1>3, <1>7, <1>8, <1>9, <1>10 DEF IInv, Types, Opened, c
<1>12. Shapes'
  BY <1>2, <1>3, <1>5, <1>7, <1>9 DEF IInv, Shapes, HasCopy, Asking
<1>13. Locked'
  <2>1. ASSUME NEW q \in Req, q # r, Holds(q) PROVE lock'[req[q].conv] = q
    <3>1. lock[req[q].conv] = q /\ req[q].conv \in Conv
      BY <2>1 DEF IInv, Locked, Holds, Shapes
    <3> QED BY <1>2, <1>10, <2>1, <3>1
  <2> QED BY <1>7, <1>10, <2>1 DEF Locked, Holds
<1>14. Owners'
  <2>1. \A x \in Pend, d \in Conv : Owner(x, d) => Owner(x, d)' /\ x.job # j
    BY <1>4, <1>9 DEF Owner, Pend
  <2>2. job'[j].st # "new" /\ job'[j].conv = c /\ job'[j].turn = p.turn
    BY <1>5, <1>9
  <2>3. \A d \in Conv : file[d] # None /\ file[d].pending # None => file[d].pending \in Pend
    BY DEF IInv, Types, Rec
  <2>4. \A q \in Req : req[q].rec # None /\ req[q].rec.pending # None =>
          req[q].rec.pending \in Pend /\ req[q].conv \in Conv
    BY DEF IInv, Types, ReqRec, Rec, Shapes
  <2>5. \A q \in Req : req[q].at = "free" => req[q].rec # None /\ req[q].rec.pending # None
    BY DEF IInv, Shapes
  <2>6. \A d \in Conv : file'[d] # None /\ file'[d].pending # None => Owner(file[d].pending, d)'
    BY <1>2, <2>1, <2>3 DEF IInv, Owners
  <2>7. ASSUME NEW q \in Req
        PROVE  /\ req'[q].rec # None /\ req'[q].rec.pending # None =>
                    Owner(req[q].rec.pending, req[q].conv)'
               /\ req'[q].at = "free" => job'[req'[q].rec.pending.job].st \notin Live
    <3>1. CASE q = r
      BY <1>5, <1>7, <2>2, <3>1 DEF Owner
    <3>2. CASE q # r
      <4>1. req[q].at = "free" => /\ job[req[q].rec.pending.job].st \notin Live
                                  /\ req[q].rec.pending \in Pend
                                  /\ req[q].rec.pending.job # j
        BY <2>1, <2>4, <2>5 DEF IInv, Owners
      <4>2. req[q].at = "free" => job'[req[q].rec.pending.job] = job[req[q].rec.pending.job]
        BY <1>9, <4>1 DEF Pend
      <4>3. req'[q] = req[q]
        BY <1>7, <3>2
      <4> QED BY <2>1, <2>4, <4>1, <4>2, <4>3 DEF IInv, Owners
    <3> QED BY <3>1, <3>2
  <2> QED BY <1>2, <2>6, <2>7 DEF Owners
<1>15. \A d \in Conv : Quiet(d) => Quiet(d)'
  BY <1>9 DEF Quiet
<1>16. Copies'
  <2> SUFFICES ASSUME NEW q \in Req, HasCopy(q)', req'[q].conv \notin marred'
               PROVE  Copy(q, req[q].conv)'
    BY DEF Copies
  <2>1. CASE q = r
    <3>1. Copy(r, c)
      BY <1>2, <1>7, <2>1 DEF IInv, Copies, HasCopy, Asking, c
    <3>2. /\ Fit(rec.turns) /\ rec.turns # <<>> /\ rec.turns[Len(rec.turns)] = "asked"
          /\ \A i \in Job : job'[i].conv = c => job'[i].at \notin {"answer", "write"}
          /\ file[c] # None => /\ file[c].pending = None
                               /\ Len(file[c].turns) = Len(rec.turns)
                               /\ req[r].op = "retry" => file[c].turns[Len(file[c].turns)] = "failed"
      BY <1>2, <1>3, <1>5, <1>9, <3>1 DEF Copy, Asking, Quiet
    <3>3. rec.pending # None /\ rec.pending.turn = Len(rec.turns)
      BY <1>5 DEF turn
    <3> QED BY <1>2, <1>7, <2>1, <3>2, <3>3 DEF Copy, Quiet, c
  <2>2. CASE q # r
    <3>1. req'[q] = req[q]
      BY <1>7, <2>2
    <3>2. Copy(q, req[q].conv) /\ req[q].conv \in Conv
      BY <1>2, <3>1 DEF IInv, Copies, HasCopy, Shapes, Asking
    <3> QED BY <1>2, <1>15, <3>1, <3>2 DEF Copy
  <2> QED BY <2>1, <2>2
<1>17. Lone'
  <2> SUFFICES ASSUME NEW q \in Req, req'[q].op = "open", req'[q].at = "asked", req'[q].conv \notin marred'
               PROVE  /\ \A x \in Req \ {q} : req'[x].conv = req'[q].conv => req'[x].at \notin Asking
                      /\ \A i \in Job : job'[i].conv # req'[q].conv
    BY DEF Lone
  <2>1. q # r /\ req'[q] = req[q]
    BY <1>7
  <2>2. /\ \A x \in Req \ {q} : req[x].conv = req[q].conv => req[x].at \notin Asking
        /\ \A i \in Job : job[i].conv # req[q].conv
    BY <1>2, <2>1 DEF IInv, Lone
  <2>3. c # req[q].conv
    BY <1>2, <2>1, <2>2 DEF Asking, c
  <2> QED BY <1>7, <1>9, <2>1, <2>2, <2>3
<1>18. Working'
  BY <1>2, <1>9 DEF IInv, Working, Waits
<1>19. Files'
  <2>1. \A q \in Req : req'[q].conv = req[q].conv /\ (req'[q].at \in Asking <=> req[q].at \in Asking)
    BY <1>2, <1>7 DEF Asking, c
  <2> QED BY <1>2, <2>1 DEF IInv, Files, Kept
<1> QED BY <1>11, <1>12, <1>13, <1>14, <1>16, <1>17, <1>18, <1>19 DEF IInv

LEMMA CountKeeps == ASSUME IInv, NEW r \in Req, Count(r) PROVE IInv'
<1> DEFINE c == req[r].conv
           rec == req[r].rec
<1>0. /\ UNCHANGED <<job, used, sel, cache, opened>> /\ req[r].at = "queued"
  BY DEF Count, tab
<1>1. /\ req[r] \in ReqRec /\ c \in Conv /\ c \in opened /\ rec \in Rec /\ rec # None
      /\ req[r].op \in Posts /\ lock[c] = r
  BY <1>0 DEF IInv, Types, ReqRec, Shapes, Opened, HasCopy, Asking, Locked, Holds
<1> HIDE DEF c, rec
<1>2. CASE req' = [req EXCEPT ![r].at = "clash"] /\ UNCHANGED <<file, lock, marred>>
  <2>1. req' = [req EXCEPT ![r] = [req[r] EXCEPT !.at = "clash"]]
    BY <1>2
  <2>2. /\ req'[r].at = "clash" /\ req'[r].op = req[r].op /\ req'[r].conv = c
        /\ req'[r].rec = rec /\ \A q \in Req \ {r} : req'[q] = req[q]
    BY <1>1, <2>1 DEF IInv, Types, ReqRec, c, rec
  <2>3. req' \in [Req -> ReqRec]
    BY <1>1, <2>1, ReqSteps DEF IInv, Types, Steps
  <2>4. \A q \in Req : /\ req'[q].conv = req[q].conv /\ req'[q].op = req[q].op /\ req'[q].rec = req[q].rec
                       /\ req'[q].at \in Asking <=> req[q].at \in Asking
                       /\ req'[q].at = req[q].at \/ (req[q].at = "queued" /\ req'[q].at = "clash")
    BY <1>0, <2>2 DEF Asking, c, rec
  <2>5. Types' /\ Opened'
    BY <1>0, <1>2, <2>3, <2>4 DEF IInv, Types, Opened
  <2>6. Shapes'
    BY <1>0, <1>1, <2>2 DEF IInv, Shapes, HasCopy, Asking, c
  <2>7. Locked' /\ Owners'
    BY <1>0, <1>2, <2>4 DEF IInv, Locked, Holds, Owners, Owner
  <2>8. Copies'
    <3> SUFFICES ASSUME NEW q \in Req, HasCopy(q)', req'[q].conv \notin marred'
                 PROVE  Copy(q, req[q].conv)'
      BY DEF Copies
    <3>1. Copy(q, req[q].conv)
      BY <1>2, <2>4 DEF IInv, Copies, HasCopy, Asking
    <3> QED BY <1>0, <1>2, <2>4, <3>1 DEF Copy, Quiet
  <2>9. Lone' /\ Working' /\ Files'
    BY <1>0, <1>2, <2>4 DEF IInv, Lone, Working, Waits, Files, Kept
  <2> QED BY <2>5, <2>6, <2>7, <2>8, <2>9 DEF IInv
<1>3. CASE /\ req' = [req EXCEPT ![r].at = "commit", ![r].seen = used]
           /\ file' = [file EXCEPT ![c] = rec]
           /\ marred' = IF file[c] = None THEN marred \cup {c} ELSE marred
           /\ lock' = [lock EXCEPT ![c] = None]
  <2>1. req' = [req EXCEPT ![r] = [req[r] EXCEPT !.at = "commit", !.seen = used]]
    BY <1>3
  <2>2. /\ req'[r].at = "commit" /\ req'[r].op = req[r].op /\ req'[r].conv = c
        /\ req'[r].rec = rec /\ \A q \in Req \ {r} : req'[q] = req[q]
    BY <1>1, <2>1 DEF IInv, Types, ReqRec, c, rec
  <2>3. req' \in [Req -> ReqRec]
    BY <1>1, <2>1, ReqSteps DEF IInv, Types, Steps
  <2>4. \A q \in Req : /\ req'[q].conv = req[q].conv /\ req'[q].op = req[q].op /\ req'[q].rec = req[q].rec
                       /\ req'[q].at # "commit" => req'[q] = req[q] /\ q # r
    BY <2>2 DEF c, rec
  <2>5. /\ file' \in [Conv -> Rec \cup {None}] /\ file'[c] = rec
        /\ \A d \in Conv \ {c} : file'[d] = file[d]
        /\ lock' \in [Conv -> Req \cup {None}] /\ \A d \in Conv \ {c} : lock'[d] = lock[d]
        /\ marred' \in SUBSET Conv /\ marred \subseteq marred' /\ marred' \subseteq marred \cup {c}
        /\ c \notin marred' => file[c] # None
    BY <1>1, <1>3 DEF IInv, Types
  <2>6. Types' /\ Opened'
    <3>1. Types'
      BY <1>0, <2>3, <2>5 DEF IInv, Types
    <3>2. \A d \in Conv : file'[d] # None => d \in opened
      BY <1>1, <2>5 DEF IInv, Opened
    <3> QED BY <1>0, <1>1, <2>2, <2>4, <3>1, <3>2 DEF IInv, Opened, c
  <2>7. Shapes'
    BY <1>0, <1>1, <2>2 DEF IInv, Shapes, HasCopy, Asking, c
  <2>8. ASSUME NEW q \in Req, q # r, Holds(q) PROVE req[q].conv \in Conv \ {c}
    BY <1>1, <2>8 DEF IInv, Locked, Holds, Shapes
  <2>9. Locked'
    BY <2>2, <2>4, <2>5, <2>8 DEF IInv, Locked, Holds
  <2>10. Owners'
    <3>1. rec.pending # None => Owner(rec.pending, c)
      BY <1>1 DEF IInv, Owners, c, rec
    <3>2. \A d \in Conv : file'[d] # None /\ file'[d].pending # None => Owner(file'[d].pending, d)
      BY <2>5, <3>1 DEF IInv, Owners
    <3>3. \A q \in Req : req'[q].at = "free" => req'[q] = req[q]
      BY <2>4
    <3> QED BY <1>0, <2>4, <3>2, <3>3 DEF IInv, Owners, Owner
  <2>11. c \notin marred' => Copy(r, c) /\ Quiet(c)
    BY <1>0, <2>5 DEF IInv, Copies, HasCopy, Asking, Copy, c
  <2>12. Copies'
    <3> SUFFICES ASSUME NEW q \in Req, HasCopy(q)', req'[q].conv \notin marred'
                 PROVE  Copy(q, req[q].conv)'
      BY DEF Copies
    <3>1. q # r /\ req'[q] = req[q]
      BY <2>2, <2>4 DEF HasCopy, Asking
    <3>2. Copy(q, req[q].conv) /\ req[q].conv \in Conv
      BY <2>5, <3>1 DEF IInv, Copies, HasCopy, Shapes, Asking
    <3>3. req[q].conv # c
      <4>1. CASE Holds(q)
        BY <2>8, <3>1, <4>1
      <4>2. CASE ~Holds(q)
        <5>1. req[q].op = "open" /\ req[q].at = "asked" /\ req[q].conv \notin marred
          BY <2>5, <3>1, <4>2 DEF Holds, HasCopy, Asking
        <5> QED BY <1>0, <3>1, <5>1 DEF IInv, Lone, Asking, c
      <4> QED BY <4>1, <4>2
    <3> QED BY <1>0, <2>5, <3>1, <3>2, <3>3 DEF Copy, Quiet
  <2>13. Lone'
    BY <1>0, <2>4, <2>5 DEF IInv, Lone, Asking
  <2>14. Working'
    <3> SUFFICES ASSUME NEW i \in Job, job[i].at \in {"answer", "write"}, job[i].conv \notin marred',
                        file'[job[i].conv] # None
                 PROVE  Waits(job[i].conv, i)'
      BY <1>0 DEF Working
    <3>1. job[i].conv \in Conv /\ job[i].conv # c
      BY <2>11 DEF IInv, Shapes, Opened, Types, Quiet
    <3> QED BY <1>0, <2>5, <3>1 DEF IInv, Working, Waits
  <2>15. Files'
    <3> SUFFICES ASSUME NEW d \in Conv \ marred', file'[d] # None PROVE Kept(d)'
      BY DEF Files
    <3>1. CASE d = c
      <4>1. /\ Fit(rec.turns) /\ rec.turns # <<>> /\ rec.turns[Len(rec.turns)] = "asked"
            /\ rec.pending # None /\ rec.pending.turn = Len(rec.turns)
        BY <1>0, <2>11, <3>1 DEF Copy, Asking, rec
      <4> QED BY <2>5, <3>1, <4>1 DEF Kept
    <3>2. CASE d # c
      <4>1. Kept(d) /\ file'[d] = file[d]
        BY <2>5, <3>2 DEF IInv, Files
      <4>2. \A q \in Req : req[q].conv = d => req'[q] = req[q]
        BY <2>2, <3>2 DEF c
      <4> QED BY <4>1, <4>2 DEF Kept
    <3> QED BY <3>1, <3>2
  <2> QED BY <2>6, <2>7, <2>9, <2>10, <2>12, <2>13, <2>14, <2>15 DEF IInv
<1> QED BY <1>2, <1>3 DEF Count, To, Release, c, rec

-----------------------------------------------------------------------------
(* A request enters, and is admitted *)

(* A request that writes nothing ends, and lets its lock go. *)
LEMMA Refused ==
  ASSUME IInv, NEW r \in Req, req[r].at \notin Asking,
         UNCHANGED <<file, job, used, sel, cache, opened, marred>>,
         req' = [req EXCEPT ![r] = Idle],
         lock' = lock \/ (lock[req[r].conv] = r /\ lock' = [lock EXCEPT ![req[r].conv] = None])
  PROVE  IInv'
<1>1. req' \in [Req -> ReqRec] /\ req'[r] = Idle /\ \A q \in Req \ {r} : req'[q] = req[q]
  BY AskedType DEF IInv, Types
<1>2. lock' \in [Conv -> Req \cup {None}]
  BY DEF IInv, Types
<1>3. \A q \in Req \ {r} : Holds(q) => lock'[req[q].conv] = q
  <2> SUFFICES ASSUME NEW q \in Req \ {r}, Holds(q) PROVE lock'[req[q].conv] = q
    OBVIOUS
  <2>1. req[q].conv \in Conv /\ lock[req[q].conv] = q
    BY DEF Holds, IInv, Shapes, Locked
  <2> QED BY <2>1 DEF IInv, Types
<1> DEFINE Q == {r}
<1>4. Q \in SUBSET Req /\ Q = {r}
  OBVIOUS
<1> HIDE DEF Q
<1>5. \A q \in Req \ Q : req'[q] = req[q] /\ (Holds(q) => lock'[req[q].conv] = q)
  BY <1>1, <1>3, <1>4
<1>6. \A q \in Q : req'[q] = Idle /\ req[q].at \notin Asking
  BY <1>1, <1>4
<1>7. /\ used' \in Nat /\ cache' \in [Conv -> Rec \cup {None}] /\ sel' \in opened \cup {None}
      /\ marred' \in SUBSET Conv /\ marred \subseteq marred' /\ UNCHANGED <<file, job, opened>>
  BY DEF IInv, Types, Opened
<1>8. \A q \in Q : \/ req'[q] = Idle
                   \/ \E o \in Ops, d \in Conv :
                        /\ req'[q] = Asked(o, d) /\ May(q, o, d)
                        /\ o = "open" => Q = {q}
  BY <1>6
<1>9. \A q \in Q : req[q].at \in Asking =>
           \/ req[q].conv \in marred'
           \/ file[req[q].conv] # None =>
                file[req[q].conv].turns[Len(file[req[q].conv].turns)] # "asked"
  BY <1>6
<1> QED BY <1>1, <1>2, <1>4, <1>5, <1>7, <1>8, <1>9, RequestsEnd

(* What a request that wrote its message has in hand. *)
LEMMA WrittenType ==
  ASSUME IInv, NEW r \in Req, req[r].at = "listed", Admitted(r)
  PROVE  /\ Written(r) \in Rec /\ Written(r).pending = None
         /\ req[r].op = "open" => Written(r).turns = <<"asked">>
         /\ req[r].op = "send" => Written(r).turns = Append(req[r].rec.turns, "asked")
         /\ req[r].op = "retry" =>
              /\ Written(r).turns = [req[r].rec.turns EXCEPT ![Len(req[r].rec.turns)] = "asked"]
              /\ req[r].rec.turns # <<>> /\ req[r].rec.turns[Len(req[r].rec.turns)] = "failed"
<1>1. CASE req[r].op = "open"
  <2>1. Written(r) = [turns |-> <<"asked">>, pending |-> None]
    BY <1>1 DEF Written
  <2>2. <<"asked">> \in Seq(Turn)
    BY DEF Turn
  <2>3. [turns |-> <<"asked">>, pending |-> None] \in Rec
    BY <2>2, RecMake
  <2> QED BY <1>1, <2>1, <2>3
<1>2. ASSUME req[r].op # "open"
      PROVE  /\ req[r].op \in {"send", "retry"} /\ req[r].rec \in Rec /\ req[r].rec.pending = None
             /\ req[r].rec = [turns |-> req[r].rec.turns, pending |-> None]
             /\ req[r].rec.turns \in Seq(Turn)
  <2>1. req[r].op \in {"send", "retry"} /\ req[r].rec \in Rec
    BY <1>2 DEF IInv, Types, ReqRec, Shapes, HasCopy, Posts
  <2> QED BY <1>2, <2>1, RecType DEF Admitted
<1>3. CASE req[r].op = "send"
  <2>1. Written(r) = [turns |-> Append(req[r].rec.turns, "asked"), pending |-> None]
    BY <1>2, <1>3 DEF Written, Rec
  <2>2. Append(req[r].rec.turns, "asked") \in Seq(Turn)
    BY <1>2, <1>3, AppendProperties DEF Turn
  <2>3. [turns |-> Append(req[r].rec.turns, "asked"), pending |-> None] \in Rec
    BY <2>2, RecMake
  <2> QED BY <1>3, <2>1, <2>3
<1>4. CASE req[r].op = "retry"
  <2>1. req[r].rec.turns # <<>> /\ req[r].rec.turns[Len(req[r].rec.turns)] = "failed"
    BY <1>4 DEF Admitted, Unanswered
  <2>2. Written(r) = [turns |-> [req[r].rec.turns EXCEPT ![Len(req[r].rec.turns)] = "asked"],
                      pending |-> None]
    BY <1>2, <1>4 DEF Written, Rec
  <2>3. Len(req[r].rec.turns) \in 1..Len(req[r].rec.turns)
    BY <1>2, <1>4, <2>1, LenProperties, EmptySeq
  <2>4. [req[r].rec.turns EXCEPT ![Len(req[r].rec.turns)] = "asked"] \in Seq(Turn)
    BY <1>2, <1>4, <2>3, TurnsMarked
  <2>5. [turns |-> [req[r].rec.turns EXCEPT ![Len(req[r].rec.turns)] = "asked"],
         pending |-> None] \in Rec
    BY <2>4, RecMake
  <2> QED BY <1>4, <2>1, <2>2, <2>5
<1> QED BY <1>1, <1>2, <1>3, <1>4

LEMMA AdmitKeeps == ASSUME IInv, NEW r \in Req, Admit(r) PROVE IInv'
<1> DEFINE c == req[r].conv
           rec == req[r].rec
           new == Written(r)
           op == req[r].op
<1>0. /\ UNCHANGED <<job, used, sel, cache>> /\ req[r].at = "listed"
  BY DEF Admit, tab
<1>1. /\ req[r] \in ReqRec /\ c \in Conv /\ op \in Posts
      /\ op # "open" => c \in opened /\ lock[c] = r
      /\ op = "open" => c \notin opened /\ \A q \in Req \ {r} : req[q].conv # c
  BY <1>0 DEF IInv, Types, ReqRec, Shapes, Opened, Locked, Holds, Posts
<1>2. CASE ~Admitted(r)
  <2>1. UNCHANGED <<file, opened, marred>> /\ req' = [req EXCEPT ![r] = Idle]
        /\ lock' = IF lock[c] = r THEN [lock EXCEPT ![c] = None] ELSE lock
    BY <1>2 DEF Admit, Finish
  <2> QED BY <1>0, <2>1, Refused DEF Asking
<1>3. CASE Admitted(r)
  <2>1. /\ req' = [req EXCEPT ![r].at = "asked", ![r].rec = new]
        /\ file' = IF op = "retry" THEN file ELSE [file EXCEPT ![c] = new]
        /\ opened' = opened \cup {c}
        /\ marred' = IF Opening(c) THEN marred \cup {c} ELSE marred
        /\ UNCHANGED lock
    BY <1>3 DEF Admit
  <2>2. /\ new \in Rec /\ new # None /\ new.pending = None
        /\ op = "open" => new.turns = <<"asked">>
        /\ op = "send" => new.turns = Append(rec.turns, "asked")
        /\ op = "retry" => /\ new.turns = [rec.turns EXCEPT ![Len(rec.turns)] = "asked"]
                           /\ rec.turns # <<>> /\ rec.turns[Len(rec.turns)] = "failed"
    BY <1>0, <1>3, WrittenType, RecType
  <2>3. op # "open" => rec.pending = None /\ rec \in Rec
    BY <1>0, <1>1, <1>3 DEF Admitted, IInv, Shapes, HasCopy, ReqRec
  <2>4. \A q \in Req : req[q].op = "open" /\ req[q].at = "asked" /\ req[q].conv = c => Opening(c)
    BY DEF Opening
  <2> HIDE DEF new, c, rec, op
  <2>5. req' = [req EXCEPT ![r] = [req[r] EXCEPT !.at = "asked", !.rec = new]]
    BY <2>1
  <2>6. /\ req'[r].at = "asked" /\ req'[r].op = op /\ req'[r].conv = c
        /\ req'[r].rec = new /\ \A q \in Req \ {r} : req'[q] = req[q]
    BY <1>1, <2>5 DEF IInv, Types, ReqRec, c, op
  <2>7. req' \in [Req -> ReqRec]
    BY <1>1, <2>2, <2>5, ReqSteps DEF IInv, Types, Steps
  <2>8. /\ file' \in [Conv -> Rec \cup {None}] /\ \A d \in Conv \ {c} : file'[d] = file[d]
        /\ op # "retry" => file'[c] = new
        /\ op = "retry" => file' = file
        /\ marred' \in SUBSET Conv /\ marred \subseteq marred'
        /\ c \notin marred' => ~Opening(c)
    BY <1>1, <2>1, <2>2 DEF IInv, Types
  <2>9. Types' /\ Locked'
    BY <1>0, <1>1, <2>1, <2>6, <2>7, <2>8 DEF IInv, Types, Locked, Holds, c, op
  <2>10. Shapes'
    <3>1. UNCHANGED job /\ opened' = opened \cup {c}
      BY <1>0, <2>1
    <3> QED BY <1>0, <1>1, <2>2, <2>6, <3>1 DEF IInv, Shapes, HasCopy, Asking, op, c
  <2>11. Opened'
    <3>1. sel' \in opened' \cup {None} /\ \A d \in Conv : file'[d] # None => d \in opened'
      BY <1>0, <1>1, <2>1, <2>8 DEF IInv, Opened
    <3>2. ASSUME NEW q \in Req
          PROVE  IF req'[q].op = "open" /\ req'[q].at \in {"start", "listed"}
                 THEN req'[q].conv \notin opened' /\ \A x \in Req \ {q} : req'[x].conv # req'[q].conv
                 ELSE req'[q].at # "none" => req'[q].conv \in opened'
      <4>1. CASE q = r
        BY <2>1, <2>6, <4>1
      <4>2. CASE q # r
        <5>1. req'[q] = req[q] /\ \A x \in Req : req'[x].conv = req[x].conv
          BY <2>6, <4>2 DEF c
        <5>2. opened' = opened \cup {c} /\ r \in Req \ {q}
          BY <2>1, <4>2
        <5> QED BY <4>2, <5>1, <5>2 DEF IInv, Opened, c
      <4> QED BY <4>1, <4>2
    <3> QED BY <3>1, <3>2 DEF Opened
  <2>12. Owners'
    <3>1. \A d \in Conv : file'[d] # None /\ file'[d].pending # None => file'[d] = file[d]
      BY <2>2, <2>8
    <3>2. \A q \in Req : /\ req'[q].rec # None /\ req'[q].rec.pending # None => req'[q] = req[q]
                         /\ req'[q].at = "free" => req'[q] = req[q]
      BY <2>2, <2>6
    <3> QED BY <1>0, <3>1, <3>2 DEF IInv, Owners, Owner
  <2>13. ASSUME c \notin marred'
         PROVE  /\ \A i \in Job : job[i].conv = c => job[i].at \notin {"answer", "write"}
                /\ op = "open" => \A i \in Job : job[i].conv # c
                /\ \A q \in Req \ {r} : ~(req[q].conv = c /\ HasCopy(q))
                /\ Fit(new.turns) /\ new.turns # <<>> /\ new.turns[Len(new.turns)] = "asked"
                /\ op = "retry" /\ file[c] # None =>
                     /\ file[c].pending = None /\ Len(file[c].turns) = Len(new.turns)
                     /\ file[c].turns[Len(file[c].turns)] = "failed"
    <3>1. c \notin marred /\ ~Opening(c)
      BY <2>8, <2>13
    <3>2. op # "open" => Copy(r, c)
      BY <1>0, <3>1 DEF IInv, Copies, HasCopy, c, op
    <3>3. op = "open" => \A i \in Job : job[i].conv # c
      BY <1>1 DEF IInv, Shapes
    <3>4. ASSUME op # "open" PROVE /\ Quiet(c) /\ Fit(rec.turns) /\ rec.turns # <<>>
                                   /\ file[c] \in {rec, None} /\ rec.turns \in Seq(Turn)
      BY <1>0, <2>3, <3>2, <3>4, RecType DEF Copy, rec
    <3>5. ASSUME NEW q \in Req \ {r}, req[q].conv = c, HasCopy(q) PROVE FALSE
      <4>1. CASE Holds(q)
        BY <1>1, <3>5, <4>1 DEF IInv, Locked
      <4>2. CASE ~Holds(q)
        BY <2>4, <3>1, <3>5, <4>2 DEF Holds, HasCopy, Asking
      <4> QED BY <4>1, <4>2
    <3>6. CASE op = "open"
      <4>1. new.turns = <<"asked">> /\ Len(<<"asked">>) = 1 /\ <<"asked">>[1] = "asked"
        BY <2>2, <3>6
      <4>2. Fit(new.turns) /\ new.turns # <<>> /\ new.turns[Len(new.turns)] = "asked"
        BY <4>1 DEF Fit
      <4> QED BY <3>3, <3>5, <3>6, <4>2
    <3>7. CASE op = "send"
      <4>1. Fit(new.turns) /\ new.turns # <<>> /\ new.turns[Len(new.turns)] = "asked"
        BY <2>2, <3>4, <3>7, TurnsAsk
      <4> QED BY <3>4, <3>5, <3>7, <4>1 DEF Quiet
    <3>8. CASE op = "retry"
      <4>1. /\ Fit(new.turns) /\ new.turns # <<>> /\ new.turns[Len(new.turns)] = "asked"
            /\ Len(new.turns) = Len(rec.turns)
        BY <2>2, <3>4, <3>8, TurnsMark
      <4>2. file[c] # None => /\ file[c].pending = None /\ Len(file[c].turns) = Len(new.turns)
                              /\ file[c].turns[Len(file[c].turns)] = "failed"
        BY <2>2, <2>3, <3>4, <3>8, <4>1
      <4> QED BY <3>4, <3>5, <3>8, <4>1, <4>2 DEF Quiet
    <3> QED BY <1>1, <3>6, <3>7, <3>8 DEF Posts
  <2>14. Copies'
    <3> SUFFICES ASSUME NEW q \in Req, HasCopy(q)', req'[q].conv \notin marred'
                 PROVE  Copy(q, req[q].conv)'
      BY DEF Copies
    <3>1. CASE q = r
      <4>1. req'[r].conv = c /\ c \notin marred'
        BY <2>6, <3>1
      <4>2. file'[c] # None => /\ file'[c].pending = None /\ Len(file'[c].turns) = Len(new.turns)
                               /\ op = "retry" => file'[c].turns[Len(file'[c].turns)] = "failed"
        BY <2>2, <2>8, <2>13, <4>1
      <4> QED BY <1>0, <2>6, <2>13, <3>1, <4>1, <4>2 DEF Copy, Quiet
    <3>2. CASE q # r
      <4>1. req'[q] = req[q] /\ req[q].conv \in Conv
        BY <2>6, <3>2 DEF HasCopy, Asking, IInv, Shapes
      <4>2. req[q].conv # c
        BY <2>13, <3>2, <4>1 DEF HasCopy
      <4>3. Copy(q, req[q].conv)
        BY <2>8, <4>1 DEF IInv, Copies, HasCopy
      <4> QED BY <1>0, <2>8, <4>1, <4>2, <4>3 DEF Copy, Quiet
    <3> QED BY <3>1, <3>2
  <2>15. Lone'
    <3> SUFFICES ASSUME NEW q \in Req, req'[q].op = "open", req'[q].at = "asked", req'[q].conv \notin marred'
                 PROVE  /\ \A x \in Req \ {q} : req'[x].conv = req'[q].conv => req'[x].at \notin Asking
                        /\ \A i \in Job : job'[i].conv # req'[q].conv
      BY DEF Lone
    <3>1. CASE q = r
      BY <1>0, <1>1, <2>6, <2>13, <3>1 DEF c
    <3>2. CASE q # r
      <4>1. req'[q] = req[q] /\ req[q].conv # c
        BY <2>4, <2>6, <2>8, <3>2
      <4> QED BY <1>0, <2>6, <2>8, <3>2, <4>1 DEF IInv, Lone
    <3> QED BY <3>1, <3>2
  <2>16. Working'
    <3> SUFFICES ASSUME NEW i \in Job, job[i].at \in {"answer", "write"}, job[i].conv \notin marred',
                        file'[job[i].conv] # None
                 PROVE  Waits(job[i].conv, i)'
      BY <1>0 DEF Working
    <3>1. job[i].conv \in Conv /\ job[i].conv # c
      BY <2>13 DEF IInv, Shapes, Opened, Types
    <3> QED BY <1>0, <2>8, <3>1 DEF IInv, Working, Waits
  <2>17. Files'
    <3> SUFFICES ASSUME NEW d \in Conv \ marred', file'[d] # None PROVE Kept(d)'
      BY DEF Files
    <3>1. \A q \in Req : req[q].at \in Asking => req'[q] = req[q]
      BY <1>0, <2>6 DEF Asking
    <3>2. CASE d = c /\ op # "retry"
      BY <2>2, <2>6, <2>8, <2>13, <3>2 DEF Kept, Asking
    <3>3. CASE d # c \/ op = "retry"
      <4>1. Kept(d) /\ file'[d] = file[d]
        BY <2>8, <3>3 DEF IInv, Files
      <4> QED BY <3>1, <4>1 DEF Kept
    <3> QED BY <3>2, <3>3
  <2> QED BY <2>9, <2>10, <2>11, <2>12, <2>14, <2>15, <2>16, <2>17 DEF IInv
<1> QED BY <1>2, <1>3

(* A request that finds a reply nobody works on marks it first. *)
LEMMA EnterKeeps == ASSUME IInv, NEW r \in Req, Enter(r) PROVE IInv'
<1> DEFINE c == req[r].conv
           healed == IF JobDead(file[c]) THEN MarkFailed(file[c], file[c].pending.turn) ELSE file[c]
<1>0. /\ UNCHANGED <<job, used, sel, cache, opened, marred>> /\ req[r].at = "start"
      /\ req[r].op \in Posts
  BY DEF Enter, tab
<1>1. req[r] \in ReqRec /\ c \in Conv /\ (req[r].op # "open" => c \in opened)
  BY <1>0 DEF IInv, Types, ReqRec, Shapes, Opened
<1>2. CASE req' = [req EXCEPT ![r] = Idle] /\ UNCHANGED <<file, lock>>
  BY <1>0, <1>2, Refused DEF Asking
<1>3. CASE /\ req[r].op = "open" /\ req' = [req EXCEPT ![r].at = "listed"]
           /\ UNCHANGED <<file, lock>>
  <2>1. req' = [req EXCEPT ![r] = [req[r] EXCEPT !.at = "listed"]]
    BY <1>3
  <2>2. /\ req'[r].at = "listed" /\ req'[r].op = "open" /\ req'[r].conv = c
        /\ req'[r].rec = req[r].rec /\ \A q \in Req \ {r} : req'[q] = req[q]
    BY <1>1, <1>3, <2>1 DEF IInv, Types, ReqRec
  <2>3. req' \in [Req -> ReqRec]
    BY <1>1, <2>1, ReqSteps DEF IInv, Types, Steps
  <2>4. Types' /\ Locked' /\ Owners'
    BY <1>0, <1>3, <2>2, <2>3 DEF IInv, Types, Locked, Holds, Owners, Owner
  <2>5. Shapes'
    BY <1>0, <1>1, <1>3, <2>2 DEF IInv, Shapes, HasCopy, Asking
  <2>6. Opened'
    <3>1. \A q \in Req : /\ req'[q].conv = req[q].conv /\ req'[q].op = req[q].op
                         /\ req'[q].at \in {"start", "listed"} <=> req[q].at \in {"start", "listed"}
                         /\ req'[q].at # "none" => req[q].at # "none"
      BY <1>0, <1>3, <2>2
    <3> QED BY <1>0, <1>3, <3>1 DEF IInv, Opened
  <2>7. Copies' /\ Lone' /\ Working' /\ Files'
    BY <1>0, <1>3, <2>2, RequestMoves DEF HasCopy, Asking
  <2> QED BY <2>4, <2>5, <2>6, <2>7 DEF IInv
<1>4. CASE /\ req[r].op # "open" /\ lock[c] = None /\ file[c] # None
           /\ file' = [file EXCEPT ![c] = healed]
           /\ \/ req' = [req EXCEPT ![r] = Idle] /\ UNCHANGED lock
              \/ /\ req' = [req EXCEPT ![r].at = "listed", ![r].rec = healed]
                 /\ lock' = [lock EXCEPT ![c] = r]
  <2>1. file[c] \in Rec
    BY <1>1, <1>4 DEF IInv, Types
  <2>2. healed \in Rec /\ healed # None /\ (JobDead(file[c]) => healed.pending = None)
    <3>1. CASE JobDead(file[c])
      BY <2>1, <3>1, RecType, MarkFailedType DEF JobDead
    <3>2. CASE ~JobDead(file[c])
      BY <2>1, <3>2, RecType
    <3> QED BY <3>1, <3>2
  <2>3. healed.pending # None => Owner(healed.pending, c)
    BY <1>1, <1>4, <2>2 DEF IInv, Owners
  <2>4. c \notin marred =>
          \A j \in Job : job[j].conv = c /\ job[j].at \in {"answer", "write"} =>
            Waits(c, j) /\ ~JobDead(file[c])
    BY <1>4 DEF IInv, Working, Waits, JobDead, Shapes, Live
  <2>5. /\ \A q \in Req \ {r} : HasCopy(q)' /\ req'[q].conv \notin marred' => Copy(q, req[q].conv)'
        /\ Lone' /\ Working' /\ Files'
        /\ file' \in [Conv -> Rec \cup {None}]
    <3> DEFINE Q == {r}
    <3>1. Q \in SUBSET Req /\ Q = {r}
      OBVIOUS
    <3> HIDE DEF Q
    <3>2. \A q \in Req \ Q : req'[q] = req[q]
      BY <1>4, <3>1 DEF IInv, Types
    <3>3. req[r].at \notin Asking /\ req'[r].at \notin Asking
      <4>1. req'[r] = Idle \/ req'[r] = [req[r] EXCEPT !.at = "listed", !.rec = healed]
        BY <1>4 DEF IInv, Types
      <4>2. [req[r] EXCEPT !.at = "listed", !.rec = healed].at = "listed"
        BY <1>1 DEF ReqRec
      <4> QED BY <1>0, <4>1, <4>2, AskedType DEF Asking
    <3>4. \A q \in Q : req[q].at \notin Asking /\ req'[q].at \notin Asking
      BY <3>1, <3>3
    <3>5. CASE JobDead(file[c])
      <4>1. \A j \in Job : /\ job'[j].conv = job[j].conv
                           /\ job'[j].at \in {"answer", "write"} =>
                                job[j].at \in {"answer", "write"} /\ ~Waits(c, j)
        BY <1>0, <3>5 DEF JobDead, Waits, IInv, Shapes, Live
      <4>2. /\ file[c].pending # None
            /\ file' = [file EXCEPT ![c] = MarkFailed(file[c], file[c].pending.turn)]
        BY <1>4, <3>5 DEF JobDead
      <4>3. marred \subseteq marred'
        BY <1>0
      <4>4. /\ \A q \in Req \ Q : HasCopy(q)' /\ req'[q].conv \notin marred' => Copy(q, req[q].conv)'
            /\ Lone' /\ Working' /\ Files' /\ file' \in [Conv -> Rec \cup {None}]
        BY <1>1, <1>4, <3>1, <3>2, <3>4, <4>1, <4>2, <4>3, FileFreed
      <4> QED BY <3>1, <4>4
    <3>6. CASE ~JobDead(file[c])
      <4>1. UNCHANGED <<file, job>> /\ marred \subseteq marred'
        BY <1>0, <1>4, <3>6 DEF IInv, Types
      <4>2. \A q \in Q : req[q].at \in Asking =>
              \/ req[q].conv \in marred'
              \/ file[req[q].conv] # None =>
                   file[req[q].conv].turns[Len(file[req[q].conv].turns)] # "asked"
        BY <3>4
      <4>3. \A q \in Q : req'[q].at \notin Asking
        BY <3>4
      <4>4. /\ \A q \in Req \ Q : HasCopy(q)' /\ req'[q].conv \notin marred' => Copy(q, req[q].conv)'
            /\ Lone' /\ Working' /\ Files'
        BY <3>1, <3>2, <4>1, <4>2, <4>3, RequestsMove
      <4> QED BY <3>1, <4>1, <4>4 DEF IInv, Types
    <3> QED BY <3>5, <3>6
  <2> HIDE DEF c, healed
  <2>6. file'[c] = healed /\ \A d \in Conv \ {c} : file'[d] = file[d]
    BY <1>1, <1>4 DEF IInv, Types
  <2>7. \A d \in Conv : file'[d] # None => d \in opened
    BY <1>0, <1>1, <1>4, <2>6 DEF IInv, Opened
  <2>8. \A d \in Conv : file'[d] # None /\ file'[d].pending # None => Owner(file'[d].pending, d)
    BY <2>3, <2>6 DEF IInv, Owners
  <2>9. c \notin marred => /\ Fit(healed.turns) /\ healed.turns # <<>>
                           /\ healed.pending = None => Quiet(c)
    <3>1. c \notin marred => Fit(file'[c].turns) /\ file'[c].turns # <<>>
      <4>1. ASSUME NEW d \in Conv, Kept(d)' PROVE Fit(file'[d].turns) /\ file'[d].turns # <<>>
        BY <4>1 DEF Kept
      <4> QED BY <1>0, <1>1, <2>2, <2>5, <2>6, <4>1 DEF Files
    <3>2. c \notin marred /\ healed.pending = None => Quiet(c)
      BY <2>4 DEF Quiet, Waits, healed
    <3> QED BY <2>6, <3>1, <3>2
  <2>10. CASE req' = [req EXCEPT ![r] = Idle] /\ UNCHANGED lock
    <3>1. /\ req' \in [Req -> ReqRec] /\ req'[r] = Idle /\ \A q \in Req \ {r} : req'[q] = req[q]
      BY <2>10, AskedType DEF IInv, Types
    <3>2. Types' /\ Locked'
      BY <1>0, <2>5, <2>10, <3>1, AskedType DEF IInv, Types, Locked, Holds
    <3>3. Shapes'
      BY <1>0, <3>1, AskedType DEF IInv, Shapes, HasCopy, Asking
    <3>4. Opened'
      <4>1. ASSUME NEW q \in Req
            PROVE  IF req'[q].op = "open" /\ req'[q].at \in {"start", "listed"}
                   THEN req'[q].conv \notin opened /\ \A x \in Req \ {q} : req'[x].conv # req'[q].conv
                   ELSE req'[q].at # "none" => req'[q].conv \in opened
        <5>1. CASE q = r
          BY <3>1, <5>1, AskedType
        <5>2. CASE q # r
          <6>1. req'[q] = req[q] /\ req'[r].conv = None
            BY <3>1, <5>2, AskedType
          <6>2. req[q].at # "none" => req[q].conv # None
            BY DEF IInv, Shapes
          <6> QED BY <3>1, <5>2, <6>1, <6>2 DEF IInv, Opened
        <5> QED BY <5>1, <5>2
      <4>2. sel' \in opened' \cup {None} /\ opened' = opened
        BY <1>0 DEF IInv, Opened
      <4> QED BY <2>7, <4>1, <4>2 DEF Opened
    <3>5. Owners'
      BY <1>0, <2>8, <3>1, AskedType DEF IInv, Owners, Owner
    <3>6. Copies'
      BY <2>5, <3>1, AskedType DEF Copies, HasCopy, Asking
    <3> QED BY <2>5, <3>2, <3>3, <3>4, <3>5, <3>6 DEF IInv
  <2>11. CASE /\ req' = [req EXCEPT ![r].at = "listed", ![r].rec = healed]
              /\ lock' = [lock EXCEPT ![c] = r]
    <3>1. req' = [req EXCEPT ![r] = [req[r] EXCEPT !.at = "listed", !.rec = healed]]
      BY <2>11
    <3>2. /\ req'[r].at = "listed" /\ req'[r].op = req[r].op /\ req'[r].conv = c
          /\ req'[r].rec = healed /\ \A q \in Req \ {r} : req'[q] = req[q]
      BY <1>1, <3>1 DEF IInv, Types, ReqRec, c
    <3>3. req' \in [Req -> ReqRec]
      BY <1>1, <2>2, <3>1, ReqSteps DEF IInv, Types, Steps
    <3>4. /\ lock' \in [Conv -> Req \cup {None}] /\ lock'[c] = r
          /\ \A d \in Conv \ {c} : lock'[d] = lock[d]
      BY <1>1, <2>11 DEF IInv, Types
    <3>5. Types'
      BY <1>0, <2>5, <3>3, <3>4 DEF IInv, Types
    <3>6. Locked'
      <4>1. ASSUME NEW q \in Req, q # r, Holds(q) PROVE lock'[req[q].conv] = q
        <5>1. lock[req[q].conv] = q /\ req[q].conv \in Conv
          BY <4>1 DEF IInv, Locked, Holds, Shapes
        <5> QED BY <1>4, <3>4, <4>1, <5>1
      <4> QED BY <3>2, <3>4, <4>1 DEF Locked, Holds
    <3>7. Shapes'
      BY <1>0, <1>1, <2>2, <3>2 DEF IInv, Shapes, HasCopy, Asking
    <3>8. Opened'
      <4>1. \A q \in Req : /\ req'[q].conv = req[q].conv /\ req'[q].op = req[q].op
                           /\ req'[q].at \in {"start", "listed"} <=> req[q].at \in {"start", "listed"}
                           /\ req'[q].at # "none" => req[q].at # "none"
        BY <1>0, <3>2 DEF c
      <4>2. sel' \in opened' \cup {None} /\ opened' = opened
        BY <1>0 DEF IInv, Opened
      <4> QED BY <2>7, <4>1, <4>2 DEF IInv, Opened
    <3>9. Owners'
      <4>1. ASSUME NEW q \in Req, req'[q].rec # None, req'[q].rec.pending # None
            PROVE  Owner(req'[q].rec.pending, req'[q].conv)
        <5>1. CASE q = r
          BY <2>3, <3>2, <4>1, <5>1
        <5>2. CASE q # r
          BY <3>2, <4>1, <5>2 DEF IInv, Owners
        <5> QED BY <5>1, <5>2
      <4>2. \A q \in Req : req'[q].at = "free" => req'[q] = req[q]
        BY <3>2
      <4> QED BY <1>0, <2>8, <4>1, <4>2 DEF IInv, Owners, Owner
    <3>10. Copies'
      <4> SUFFICES ASSUME NEW q \in Req, HasCopy(q)', req'[q].conv \notin marred'
                   PROVE  Copy(q, req[q].conv)'
        BY DEF Copies
      <4>1. CASE q = r
        BY <1>0, <2>6, <2>9, <3>2, <4>1 DEF Copy, Asking, Quiet
      <4>2. CASE q # r
        BY <2>5, <4>2
      <4> QED BY <4>1, <4>2
    <3> QED BY <2>5, <3>5, <3>6, <3>7, <3>8, <3>9, <3>10 DEF IInv
  <2> QED BY <1>4, <2>10, <2>11
<1> QED BY <1>2, <1>3, <1>4 DEF Enter, Finish, To

-----------------------------------------------------------------------------
(* A restart *)

LEMMA RestartKeeps == ASSUME IInv, Restart PROVE IInv'
<1>1. /\ UNCHANGED <<file, used, sel, cache, opened>>
      /\ lock' = [c \in Conv |-> None] /\ req' = [r \in Req |-> Idle]
  BY DEF Restart, tab
<1>2. ASSUME NEW j \in Job
      PROVE  /\ job'[j] \in JobRec /\ job'[j].conv = job[j].conv /\ job'[j].turn = job[j].turn
             /\ job'[j].at = "none" /\ (job[j].st = "new" <=> job'[j].st = "new")
             /\ job[j].st # "new" => job'[j].st = "gone"
  <2>1. job[j] \in JobRec /\ (job[j].st = "new" => job[j].at = "none")
    BY DEF IInv, Types, Shapes
  <2>2. [job[j] EXCEPT !.st = "gone", !.at = "none"] \in JobRec
    BY <2>1, JobSteps
  <2>3. job'[j] = IF job[j].st = "new" THEN job[j] ELSE [job[j] EXCEPT !.st = "gone", !.at = "none"]
    BY DEF Restart
  <2> QED BY <2>1, <2>2, <2>3 DEF JobRec
<1>3. job' \in [Job -> JobRec]
  <2>1. job' = [j \in Job |-> job'[j]]
    BY DEF Restart
  <2> QED BY <1>2, <2>1
<1>4. req' \in [Req -> ReqRec] /\ \A r \in Req : req'[r] = Idle
  BY <1>1, AskedType
<1>5. marred' \in SUBSET Conv /\ marred \subseteq marred'
  <2>1. \A r \in Req : req[r].at \in {"asked", "queued", "clash"} => req[r].conv \in Conv
    BY DEF IInv, Shapes
  <2> DEFINE O == {o \in Req : req[o].op \in {"open", "send"} /\ req[o].at \in {"asked", "queued", "clash"}}
             M == {req[r].conv : r \in O}
  <2>2. M \in SUBSET Conv
    BY <2>1
  <2>3. marred' = marred \cup M
    BY DEF Restart
  <2> QED BY <2>2, <2>3 DEF IInv, Types
<1>6. \A r \in Req : req[r].op \in {"open", "send"} /\ req[r].at \in Asking => req[r].conv \in marred'
  BY DEF Restart, Asking
<1>7. Types' /\ Locked'
  BY <1>1, <1>3, <1>4, <1>5, AskedType DEF IInv, Types, Locked, Holds
<1>8. Shapes' /\ Opened'
  BY <1>1, <1>2, <1>4, AskedType DEF IInv, Shapes, HasCopy, Asking, Opened
<1>9. Owners'
  <2>1. \A d \in Conv : file[d] # None /\ file[d].pending # None => file[d].pending.job \in Job
    BY RecType DEF IInv, Types
  <2>2. \A d \in Conv : file[d] # None /\ file[d].pending # None => Owner(file[d].pending, d)'
    BY <1>1, <1>2, <2>1 DEF IInv, Owners, Owner
  <2> QED BY <1>1, <1>4, <2>2, AskedType DEF Owners
<1>10. Copies' /\ Lone' /\ Working'
  BY <1>2, <1>4, AskedType DEF Copies, HasCopy, Asking, Lone, Working
<1>11. Files'
  <2> SUFFICES ASSUME NEW c \in Conv \ marred', file'[c] # None PROVE Kept(c)'
    BY DEF Files
  <2>1. Kept(c) /\ c \notin marred
    BY <1>1, <1>5 DEF IInv, Files
  <2>2. ASSUME NEW r \in Req, req[r].conv = c, req[r].at \in Asking
        PROVE  file[c].turns[Len(file[c].turns)] # "asked"
    <3>1. req[r].op = "retry"
      BY <1>6, <2>2 DEF IInv, Shapes, Posts
    <3>2. Copy(r, c)
      BY <2>1, <2>2 DEF IInv, Copies, HasCopy
    <3> QED BY <1>1, <2>2, <3>1, <3>2 DEF Copy
  <2> QED BY <1>1, <2>1, <2>2 DEF Kept
<1> QED BY <1>7, <1>8, <1>9, <1>10, <1>11 DEF IInv

-----------------------------------------------------------------------------
(* The invariant *)

LEMMA OlderFits ==
  ASSUME NEW x \in Older
  PROVE  /\ x \in Rec /\ x.pending = None /\ Fit(x.turns) /\ x.turns # <<>>
         /\ x.turns[Len(x.turns)] # "asked"
<1>1. PICK t \in {<<"asked", "reply">>, <<"failed">>} : x = [turns |-> t, pending |-> None]
  BY DEF Older
<1>2. t \in Seq(Turn) /\ t # <<>> /\ t[Len(t)] # "asked" /\ Fit(t)
  <2>1. CASE t = <<"asked", "reply">>
    <3>1. Len(t) = 2 /\ t[1] = "asked" /\ t[2] = "reply" /\ t # <<>> /\ t \in Seq(Turn)
      BY <2>1 DEF Turn
    <3> QED BY <3>1 DEF Fit
  <2>2. CASE t = <<"failed">>
    <3>1. Len(t) = 1 /\ t[1] = "failed" /\ t # <<>> /\ t \in Seq(Turn)
      BY <2>2 DEF Turn
    <3> QED BY <3>1 DEF Fit
  <2> QED BY <2>1, <2>2
<1>3. x \in Rec /\ x.turns = t /\ x.pending = None
  BY <1>1, <1>2, RecMake
<1> QED BY <1>2, <1>3

LEMMA InitKeeps == Init => IInv
<1> SUFFICES ASSUME Init PROVE IInv
  OBVIOUS
<1>1. /\ file \in [Conv -> Older \cup {None}] /\ opened = {c \in Conv : file[c] # None}
      /\ lock = [c \in Conv |-> None] /\ job = [j \in Job |-> Fresh] /\ used = 0
      /\ req = [r \in Req |-> Idle] /\ sel = None /\ cache = [c \in Conv |-> None] /\ marred = {}
  BY DEF Init
<1>2. \A c \in Conv : file[c] # None =>
        /\ file[c] \in Rec /\ file[c].pending = None /\ Fit(file[c].turns) /\ file[c].turns # <<>>
        /\ file[c].turns[Len(file[c].turns)] # "asked"
  BY <1>1, OlderFits
<1>3. \A r \in Req : /\ req[r].at = "none" /\ req[r].conv = None /\ req[r].rec = None
                     /\ req[r].op = "none" /\ req[r] \in ReqRec
  BY <1>1, AskedType
<1>4. \A j \in Job : /\ job[j] \in JobRec /\ job[j].st = "new" /\ job[j].conv = None
                     /\ job[j].at = "none"
  BY <1>1 DEF Fresh, JobRec
<1>5. Types
  <2>1. file \in [Conv -> Rec \cup {None}]
    BY <1>1, <1>2
  <2>2. req \in [Req -> ReqRec] /\ job \in [Job -> JobRec]
    BY <1>1, <1>3, <1>4
  <2> QED BY <1>1, <2>1, <2>2 DEF Types
<1>6. Shapes
  BY <1>3, <1>4 DEF Shapes, HasCopy, Asking
<1>7. Opened /\ Locked
  BY <1>1, <1>3 DEF Opened, Locked, Holds
<1>8. Owners
  BY <1>2, <1>3 DEF Owners
<1>9. Copies /\ Lone /\ Working
  BY <1>3, <1>4 DEF Copies, HasCopy, Asking, Lone, Working
<1>10. Files
  BY <1>2 DEF Files, Kept
<1> QED BY <1>5, <1>6, <1>7, <1>8, <1>9, <1>10 DEF IInv

LEMMA StepKeeps == IInv /\ [Next]_vars => IInv'
<1> SUFFICES ASSUME IInv, [Next]_vars PROVE IInv'
  OBVIOUS
<1>1. ASSUME NEW r \in Req, Serve(r) PROVE IInv'
  BY <1>1, EnterKeeps, AdmitKeeps, SubmitKeeps, CountKeeps, ClashKeeps, CommitKeeps, ReadKeeps,
     CancelTurnKeeps, HealKeeps, FreeKeeps, EndsKeeps, ArrivesKeeps DEF Serve
<1>2. ASSUME NEW j \in Job, Work(j) PROVE IInv'
  BY <1>2, StartKeeps, ReadTurnKeeps, ComputeKeeps, AppendReplyKeeps, ReleaseTurnKeeps, EndTurnKeeps
     DEF Work
<1>3. CASE Submits \/ Retries \/ Stops \/ Drops \/ Elsewhere
  BY <1>3, GesturesKeep
<1>4. CASE Poll
  BY <1>4, PollKeeps
<1>5. ASSUME NEW c \in Conv \cup {None}, Select(c) PROVE IInv'
  BY <1>5, SelectKeeps
<1>6. CASE Restart
  BY <1>6, RestartKeeps
<1>7. CASE UNCHANGED vars
  <2>1. UNCHANGED <<file, lock, job, used, sel, cache, req, opened, marred>>
    BY <1>7 DEF vars, server, tab
  <2>2. Types' /\ Shapes' /\ Opened' /\ Locked' /\ Owners'
    BY <2>1 DEF IInv, Types, Shapes, HasCopy, Opened, Locked, Holds, Owners, Owner
  <2>3. Copies' /\ Lone' /\ Working' /\ Files'
    BY <2>1 DEF IInv, Copies, HasCopy, Copy, Quiet, Lone, Working, Waits, Files, Kept
  <2> QED BY <2>2, <2>3 DEF IInv
<1> QED BY <1>1, <1>2, <1>3, <1>4, <1>5, <1>6, <1>7 DEF Next

(* Everything the requests, the jobs and the tab keep true together, for   *)
(* any number of conversations, jobs, restarts and gestures.               *)
THEOREM Invariant == Spec => []IInv
BY InitKeeps, StepKeeps, PTL DEF Spec

(* Store.append, send, retry and handle_turn never let a reply stand       *)
(* anywhere but right after the message it answers.                        *)
THEOREM RepliesAlwaysFit == Spec => []RepliesFit
<1>1. IInv => RepliesFit
  BY DEF IInv, Files, Kept, Fit, RepliesFit
<1> QED BY Invariant, <1>1, PTL

(* A last message without reply and without mark has its pending reply or  *)
(* the request that will write it, unless one of the accidents befell it.  *)
THEOREM AskedAlwaysExplained == Spec => []AskedIsExplained
<1>1. IInv => AskedIsExplained
  <2> SUFFICES ASSUME IInv, NEW c \in Conv \ marred, file[c] # None,
                      file[c].turns[Len(file[c].turns)] = "asked"
               PROVE  \/ file[c].pending # None /\ file[c].pending.turn = Len(file[c].turns)
                      \/ \E r \in Req : req[r].conv = c /\ req[r].at \in {"asked", "queued", "clash"}
    BY DEF AskedIsExplained
  <2>1. Kept(c)
    BY DEF IInv, Files
  <2> QED BY <2>1 DEF Kept, Asking
<1> QED BY Invariant, <1>1, PTL

-----------------------------------------------------------------------------
(* What is written whole loses nothing *)

(* What one step does to the file of a conversation no accident befell. *)
LEMMA LengthsGrow ==
  ASSUME IInv, Next, NEW c \in Conv \ marred, file[c] # None, file'[c] # None
  PROVE  Len(file'[c].turns) >= Len(file[c].turns)
<1> USE DEF IInv
<1>0. file[c] \in Rec /\ Len(file[c].turns) \in Nat /\ Fit(file[c].turns)
      /\ c \in opened /\ file[c].turns # <<>>
  BY RecType DEF Types, Opened, Files, Kept
<1>1. CASE file'[c] = file[c]
  BY <1>0, <1>1
<1>2. ASSUME NEW n \in Nat, file'[c] = MarkFailed(file[c], n)
      PROVE  Len(file'[c].turns) >= Len(file[c].turns)
  BY <1>0, <1>2, MarkFailedType
<1>3. ASSUME NEW r \in Req, Serve(r) PROVE Len(file'[c].turns) >= Len(file[c].turns)
  <2>1. CASE Enter(r)
    <3>1. \/ file' = file
          \/ file' = [file EXCEPT ![req[r].conv] =
                        IF JobDead(file[req[r].conv])
                        THEN MarkFailed(file[req[r].conv], file[req[r].conv].pending.turn)
                        ELSE file[req[r].conv]]
      BY <2>1 DEF Enter
    <3>2. JobDead(file[c]) => file[c].pending.turn \in Nat
      BY <1>0, RecType DEF JobDead
    <3> QED BY <1>1, <1>2, <3>1, <3>2 DEF Types
  <2>2. CASE Admit(r)
    <3>1. \/ file' = file
          \/ /\ file' = [file EXCEPT ![req[r].conv] = Written(r)]
             /\ req[r].op # "retry" /\ Admitted(r) /\ req[r].at = "listed"
      BY <2>2 DEF Admit
    <3>2. CASE file'[c] # file[c]
      <4>1. /\ req[r].conv = c /\ file'[c] = Written(r)
            /\ req[r].op # "retry" /\ Admitted(r) /\ req[r].at = "listed"
        BY <3>1, <3>2 DEF Types
      <4>2. req[r].op # "open" /\ req[r].op \in Posts
        BY <1>0, <4>1 DEF Opened, Shapes
      <4>3. Copy(r, c)
        BY <4>1, <4>2 DEF Copies, HasCopy
      <4>4. req[r].rec = file[c]
        BY <4>1, <4>3 DEF Copy
      <4>5. file'[c].turns = Append(file[c].turns, "asked")
        BY <4>1, <4>2, <4>4, WrittenType DEF Posts
      <4>6. Len(Append(file[c].turns, "asked")) = Len(file[c].turns) + 1
        BY <1>0, RecType, TurnsAsk
      <4> QED BY <1>0, <4>5, <4>6
    <3> QED BY <1>1, <3>2
  <2>3. CASE Count(r)
    <3>1. \/ file' = file
          \/ file' = [file EXCEPT ![req[r].conv] = req[r].rec]
      BY <2>3 DEF Count
    <3>2. CASE file'[c] # file[c]
      <4>1. req[r].conv = c /\ file'[c] = req[r].rec /\ req[r].at = "queued"
        BY <2>3, <3>1, <3>2 DEF Types, Count
      <4>2. Copy(r, c)
        BY <4>1 DEF Copies, HasCopy, Asking
      <4> QED BY <1>0, <4>1, <4>2 DEF Copy, Asking
    <3> QED BY <1>1, <3>2
  <2>4. CASE Free(r)
    <3>1. CASE file'[c] # file[c]
      <4>1. req[r].conv = c
        BY <2>4, <3>1 DEF Free, Types
      <4>2. file'[c] = MarkFailed(file[c], req[r].rec.pending.turn)
        BY <2>4, <3>1, <4>1 DEF Free, Types
      <4>3. req[r].rec.pending.turn \in Nat
        BY <2>4, RecType DEF Free, Shapes, Types, ReqRec
      <4> QED BY <1>2, <4>2, <4>3
    <3> QED BY <1>1, <3>1
  <2>5. CASE Ends(r)
    <3>1. file' = file \/ file' = [file EXCEPT ![req[r].conv] = None]
      BY <2>5 DEF Ends
    <3> QED BY <1>1, <3>1 DEF Types
  <2>6. CASE UNCHANGED file
    BY <1>1, <2>6
  <2> QED BY <1>3, <2>1, <2>2, <2>3, <2>4, <2>5, <2>6
          DEF Serve, Submit, Clash, Commit, Read, CancelTurn, Heal, Arrives, server
<1>4. ASSUME NEW j \in Job, Work(j) PROVE Len(file'[c].turns) >= Len(file[c].turns)
  <2>1. CASE AppendReply(j)
    <3>1. CASE file'[c] # file[c]
      <4>1. file'[c] = [turns |-> Append(file[c].turns, "reply"), pending |-> None]
        BY <2>1, <3>1 DEF AppendReply, Types
      <4>2. Len(Append(file[c].turns, "reply")) = Len(file[c].turns) + 1
        BY <1>0, RecType, AppendProperties DEF Turn
      <4> QED BY <1>0, <4>1, <4>2
    <3> QED BY <1>1, <3>1
  <2>2. CASE ReleaseTurn(j)
    <3>1. CASE file'[c] # file[c]
      <4>1. file'[c] = MarkFailed(file[c], job[j].turn)
        BY <2>2, <3>1 DEF ReleaseTurn, Types
      <4>2. job[j].turn \in Nat
        BY DEF Types, JobRec
      <4> QED BY <1>2, <4>1, <4>2
    <3> QED BY <1>1, <3>1
  <2>3. CASE UNCHANGED file
    BY <1>1, <2>3
  <2> QED BY <1>4, <2>1, <2>2, <2>3 DEF Work, Start, ReadTurn, Compute, EndTurn
<1>5. CASE \/ Submits \/ Retries \/ Stops \/ Drops \/ Elsewhere \/ Poll
           \/ (\E d \in Conv \cup {None} : Select(d)) \/ Restart
  <2>1. UNCHANGED file
    BY <1>5 DEF Submits, Retries, Stops, Drops, Elsewhere, Gesture, Poll, Select, Restart, server
  <2> QED BY <1>1, <2>1
<1> QED BY <1>3, <1>4, <1>5 DEF Next

(* Handlers and jobs read and rewrite a conversation whole: none takes     *)
(* from it a turn another one wrote (store.py, routes.py, jobs.py).        *)
THEOREM NothingIsOverwritten == Spec => NothingOverwritten
<1>1. IInv /\ [Next]_vars =>
        [\A c \in Conv \ marred : file[c] # None /\ file'[c] # None =>
           Len(file'[c].turns) >= Len(file[c].turns)]_vars
  BY LengthsGrow
<1> QED BY Invariant, <1>1, PTL DEF Spec, NothingOverwritten

-----------------------------------------------------------------------------
(* How long a conversation grows *)

(* Messages still to be written, and jobs that have written what they will. *)
Unsent == {r \in Req : req[r].op \in {"open", "send"} /\ req[r].at \in {"start", "listed"}}
Replied == {j \in Job : job[j].st \notin {"new"} \cup Live \/ job[j].at = "done"}

(* The turns an older conversation has, those asked for, those answered. *)
Bound == 2 + gestures - Cardinality(Unsent) + Cardinality(Replied)

Within(x, n) == x # None => /\ Len(x.turns) <= n
                            /\ x.pending # None => x.pending.turn \in 1..n

Sized(n) == /\ \A c \in Conv : Within(file[c], n) /\ Within(cache[c], n)
            /\ \A r \in Req : Within(req[r].rec, n)
            /\ \A j \in Job : job[j].turn \in 0..n

Begun == \A r \in Req : req[r].at = "asked" => Len(req[r].rec.turns) >= 1

LEMMA SizedGrows ==
  ASSUME IInv, NEW n \in Int, NEW m \in Int, n <= m, Sized(n)
  PROVE  Sized(m)
BY DEF Sized, Within, IInv, Types, JobRec

LEMMA FiniteActors == IsFiniteSet(Req) /\ IsFiniteSet(Job) /\ Cardinality(Job) = MaxJobs
<1>1. IsFiniteSet(Job) /\ Cardinality(Job) = MaxJobs
  BY FS_Interval DEF Job
<1>2. Req = (({} \cup {"post"}) \cup {"get"}) \cup {"other"}
  BY DEF Req
<1> QED BY <1>1, <1>2, FS_EmptySet, FS_AddElement

LEMMA AddOne ==
  ASSUME NEW S, IsFiniteSet(S), NEW x
  PROVE  /\ IsFiniteSet(S \cup {x})
         /\ Cardinality(S \cup {x}) <= Cardinality(S) + 1
         /\ Cardinality(S) \in Nat
<1>1. IsFiniteSet(S \cup {x})
  BY FS_AddElement
<1>2. Cardinality(S) \in Nat
  BY FS_CardinalityType
<1>3. CASE x \in S
  <2>1. S \cup {x} = S
    BY <1>3
  <2>2. Cardinality(S \cup {x}) = Cardinality(S)
    BY <2>1
  <2> QED BY <1>1, <1>2, <2>2
<1>4. CASE x \notin S
  <2>1. Cardinality(S \cup {x}) = Cardinality(S) + 1
    BY <1>4, FS_AddElement
  <2> QED BY <1>1, <1>2, <2>1
<1> QED BY <1>3, <1>4

LEMMA BoundKept ==
  ASSUME gestures \in Nat, gestures' = gestures, Unsent' \subseteq Unsent, Replied \subseteq Replied'
  PROVE  Bound \in Int /\ Bound' \in Int /\ Bound <= Bound'
<1>1. IsFiniteSet(Unsent) /\ IsFiniteSet(Replied')
  BY FiniteActors, FS_Subset DEF Unsent, Replied
<1>2. /\ Cardinality(Unsent) \in Nat /\ Cardinality(Unsent') \in Nat
      /\ Cardinality(Unsent') <= Cardinality(Unsent)
  BY <1>1, FS_Subset, FS_CardinalityType
<1>3. /\ Cardinality(Replied) \in Nat /\ Cardinality(Replied') \in Nat
      /\ Cardinality(Replied) <= Cardinality(Replied')
  BY <1>1, FS_Subset, FS_CardinalityType
<1> QED BY <1>2, <1>3 DEF Bound

LEMMA BoundAsked ==
  ASSUME gestures \in Nat, gestures' = gestures + 1, NEW r \in Req,
         Unsent' \subseteq Unsent \cup {r}, Replied' = Replied
  PROVE  Bound \in Int /\ Bound' \in Int /\ Bound <= Bound'
<1>1. IsFiniteSet(Unsent) /\ IsFiniteSet(Replied)
  BY FiniteActors, FS_Subset DEF Unsent, Replied
<1>2. /\ IsFiniteSet(Unsent \cup {r})
      /\ Cardinality(Unsent \cup {r}) <= Cardinality(Unsent) + 1
      /\ Cardinality(Unsent) \in Nat
  BY <1>1, AddOne
<1>3. Cardinality(Unsent') \in Nat /\ Cardinality(Unsent') <= Cardinality(Unsent \cup {r})
  BY <1>2, FS_Subset, FS_CardinalityType
<1>4. Cardinality(Unsent') <= Cardinality(Unsent) + 1
  BY <1>2, <1>3, FS_CardinalityType
<1>5. Cardinality(Replied') = Cardinality(Replied) /\ Cardinality(Replied) \in Nat
  BY <1>1, FS_CardinalityType
<1> QED BY <1>2, <1>3, <1>4, <1>5 DEF Bound

LEMMA BoundSent ==
  ASSUME gestures \in Nat, gestures' = gestures, NEW r \in Unsent, Unsent' = Unsent \ {r},
         Replied' = Replied
  PROVE  Bound \in Int /\ Bound' = Bound + 1
<1>1. IsFiniteSet(Unsent) /\ IsFiniteSet(Replied)
  BY FiniteActors, FS_Subset DEF Unsent, Replied
<1>2. Cardinality(Unsent') = Cardinality(Unsent) - 1 /\ Cardinality(Unsent) \in Nat
  BY <1>1, FS_RemoveElement, FS_CardinalityType
<1>3. Cardinality(Replied') = Cardinality(Replied) /\ Cardinality(Replied) \in Nat
  BY <1>1, FS_CardinalityType
<1> QED BY <1>2, <1>3 DEF Bound

LEMMA BoundReplied ==
  ASSUME gestures \in Nat, gestures' = gestures, NEW j \in Job, j \notin Replied,
         Unsent' = Unsent, Replied' = Replied \cup {j}
  PROVE  Bound \in Int /\ Bound' = Bound + 1
<1>1. IsFiniteSet(Unsent) /\ IsFiniteSet(Replied)
  BY FiniteActors, FS_Subset DEF Unsent, Replied
<1>2. Cardinality(Unsent') = Cardinality(Unsent) /\ Cardinality(Unsent) \in Nat
  BY <1>1, FS_CardinalityType
<1>3. Cardinality(Replied') = Cardinality(Replied) + 1 /\ Cardinality(Replied) \in Nat
  BY <1>1, FS_AddElement, FS_CardinalityType
<1> QED BY <1>2, <1>3 DEF Bound

LEMMA MarkWithin ==
  ASSUME NEW x \in Rec, NEW t \in Nat, NEW n \in Int, Within(x, n)
  PROVE  Within(MarkFailed(x, t), n)
<1>1. x.turns \in Seq(Turn) /\ Len(x.turns) <= n
  BY RecType DEF Within
<1>2. Len(MarkFailed(x, t).turns) = Len(x.turns) /\ MarkFailed(x, t).pending = None
  BY <1>1, TurnsMarked, Zenon DEF MarkFailed
<1> QED BY <1>1, <1>2 DEF Within

LEMMA TurnOf ==
  ASSUME NEW x \in Rec, x.pending # None
  PROVE  x.pending.turn \in Nat
BY RecType

(* The steps that write no new turn leave every record as long as it was.  *)
LEMMA ServeSized ==
  ASSUME IInv, NEW n \in Int, Sized(n), NEW r \in Req,
         \/ Clash(r) \/ Commit(r) \/ Read(r) \/ CancelTurn(r) \/ Heal(r) \/ Ends(r) \/ Count(r)
  PROVE  Sized(n)' /\ Unsent' \subseteq Unsent /\ Replied \subseteq Replied'
<1>0. req[r] \in ReqRec /\ (req[r].at # "none" => req[r].conv \in Conv)
  BY DEF IInv, Types, Shapes
<1>1. CASE Clash(r)
  BY <1>0, <1>1 DEF Clash, Finish, Idle, tab, IInv, Types, ReqRec, Sized, Within, Unsent, Replied
<1>2. CASE Commit(r)
  BY <1>0, <1>2 DEF Commit, Answer, tab, IInv, Types, ReqRec, Sized, Within, Unsent, Replied
<1>3. CASE Read(r)
  BY <1>0, <1>3 DEF Read, server, tab, IInv, Types, ReqRec, Sized, Within, Unsent, Replied
<1>4. CASE CancelTurn(r)
  <2> DEFINE i == req[r].rec.pending.job
  <2>1. req[r].rec \in Rec /\ i \in Job /\ job[i] \in JobRec
    BY <1>0, <1>4, ReqType, RecType DEF CancelTurn, IInv, Shapes, Types
  <2> HIDE DEF i
  <2>2. /\ job' = IF job[i].st = "queued" THEN [job EXCEPT ![i].st = "cancelled"] ELSE job
        /\ req' = [req EXCEPT ![r].at = "heal"] /\ UNCHANGED <<file, cache>>
    BY <1>4 DEF CancelTurn, To, tab, i
  <2>3. /\ \A k \in Job : job'[k].turn = job[k].turn
        /\ Replied \subseteq Replied'
    BY <2>1, <2>2 DEF IInv, Types, Shapes, JobRec, Replied, Live
  <2>4. /\ \A q \in Req : req'[q].rec = req[q].rec
        /\ Unsent' \subseteq Unsent
    BY <1>0, <2>2 DEF IInv, Types, ReqRec, Unsent
  <2> QED BY <2>2, <2>3, <2>4 DEF Sized, Within
<1>5. CASE Heal(r)
  BY <1>0, <1>5 DEF Heal, Healed, server, tab, IInv, Types, ReqRec, Sized, Within, Unsent, Replied
<1>6. CASE Ends(r)
  BY <1>0, <1>6 DEF Ends, To, tab, IInv, Types, ReqRec, Sized, Within, Unsent, Replied
<1>7. CASE Count(r)
  <2>1. /\ UNCHANGED <<job, cache>>
        /\ \/ file' = file \/ file' = [file EXCEPT ![req[r].conv] = req[r].rec]
        /\ \/ req' = [req EXCEPT ![r].at = "clash"]
           \/ req' = [req EXCEPT ![r].at = "commit", ![r].seen = used]
    BY <1>7 DEF Count, To, tab
  <2>2. /\ \A q \in Req : req'[q].rec = req[q].rec
        /\ Unsent' \subseteq Unsent /\ Replied' = Replied
    BY <1>0, <2>1 DEF IInv, Types, ReqRec, Unsent, Replied
  <2>3. \A c \in Conv : file'[c] = file[c] \/ file'[c] = req[r].rec
    BY <2>1 DEF IInv, Types
  <2> QED BY <2>1, <2>2, <2>3 DEF Sized, Within
<1> QED BY <1>1, <1>2, <1>3, <1>4, <1>5, <1>6, <1>7

LEMMA WorkSized ==
  ASSUME IInv, NEW n \in Int, Sized(n), NEW j \in Job, Start(j) \/ ReadTurn(j) \/ Compute(j) \/ EndTurn(j)
  PROVE  Sized(n)' /\ Unsent' \subseteq Unsent /\ Replied \subseteq Replied'
<1>0. job[j] \in JobRec
  BY DEF IInv, Types
<1>1. CASE Start(j)
  BY <1>0, <1>1 DEF Start, tab, IInv, Types, Shapes, JobRec, Sized, Unsent, Replied, Live
<1>2. CASE ReadTurn(j)
  BY <1>0, <1>2 DEF ReadTurn, tab, IInv, Types, Shapes, JobRec, Sized, Unsent, Replied, Live
<1>3. CASE Compute(j)
  BY <1>0, <1>3 DEF Compute, tab, IInv, Types, Shapes, JobRec, Sized, Unsent, Replied, Live
<1>4. CASE EndTurn(j)
  <2>1. PICK st \in Closings(j) : job' = [job EXCEPT ![j].at = "none", ![j].st = st]
    BY <1>4 DEF EndTurn
  <2>2. st \notin {"new", "queued", "running"}
    BY <2>1 DEF Closings
  <2>3. UNCHANGED <<file, req, tab, used>>
    BY <1>4 DEF EndTurn
  <2> HIDE <1>4
  <2> QED BY <1>0, <2>1, <2>2, <2>3 DEF tab, IInv, Types, Shapes, JobRec, Sized, Unsent, Replied, Live
<1> QED BY <1>1, <1>2, <1>3, <1>4

LEMMA EnterSized ==
  ASSUME IInv, NEW n \in Int, Sized(n), NEW r \in Req, Enter(r)
  PROVE  Sized(n)' /\ Unsent' \subseteq Unsent /\ Replied \subseteq Replied'
<1> DEFINE c == req[r].conv
           healed == IF JobDead(file[c]) THEN MarkFailed(file[c], file[c].pending.turn) ELSE file[c]
<1>0. /\ req[r] \in ReqRec /\ req[r].at = "start" /\ c \in Conv /\ UNCHANGED <<job, cache>>
      /\ \/ UNCHANGED file
         \/ file[c] # None /\ file' = [file EXCEPT ![c] = healed]
      /\ \/ req' = [req EXCEPT ![r] = Idle]
         \/ req' = [req EXCEPT ![r].at = "listed"]
         \/ file[c] # None /\ req' = [req EXCEPT ![r].at = "listed", ![r].rec = healed]
  BY DEF IInv, Types, Shapes, Enter, tab, Finish, To
<1>1. file[c] # None => Within(healed, n)
  <2>1. CASE file[c] # None /\ JobDead(file[c])
    BY <1>0, <2>1, TurnOf, MarkWithin DEF JobDead, Sized, IInv, Types
  <2>2. CASE ~JobDead(file[c])
    BY <1>0, <2>2 DEF Sized
  <2> QED BY <2>1, <2>2
<1> HIDE DEF healed
<1>2. /\ \A q \in Req : req'[q].rec = req[q].rec \/ req'[q].rec = None
                        \/ (file[c] # None /\ req'[q].rec = healed)
      /\ Unsent' \subseteq Unsent /\ Replied' = Replied
  BY <1>0 DEF IInv, Types, ReqRec, Unsent, Replied, Idle
<1>3. \A d \in Conv : file'[d] = file[d] \/ (file[c] # None /\ file'[d] = healed)
  BY <1>0 DEF IInv, Types
<1> QED BY <1>0, <1>1, <1>2, <1>3 DEF Sized, Within

LEMMA FreeSized ==
  ASSUME IInv, NEW n \in Int, Sized(n), NEW r \in Req, Free(r)
  PROVE  Sized(n)' /\ Unsent' \subseteq Unsent /\ Replied \subseteq Replied'
<1> DEFINE c == req[r].conv
           rec == req[r].rec
           fresh == IF file[c] = None THEN rec ELSE file[c]
           dead == fresh.pending # None /\ fresh.pending.job = rec.pending.job
           freed == IF dead THEN MarkFailed(fresh, rec.pending.turn) ELSE fresh
<1>0. /\ req[r] \in ReqRec /\ c \in Conv /\ rec \in Rec /\ rec.pending # None
      /\ req[r].at = "free" /\ UNCHANGED <<job, cache>>
      /\ file' = IF dead THEN [file EXCEPT ![c] = freed] ELSE file
      /\ req' = [req EXCEPT ![r].at = Healed(r), ![r].rec = freed]
  BY ReqType DEF IInv, Types, Shapes, Free, tab
<1>1. fresh \in Rec /\ Within(fresh, n)
  BY <1>0 DEF Sized, IInv, Types
<1> HIDE DEF fresh
<1>2. Within(freed, n)
  BY <1>0, <1>1, TurnOf, MarkWithin
<1> HIDE DEF freed, dead
<1>3. /\ \A q \in Req : req'[q].rec = req[q].rec \/ req'[q].rec = freed
      /\ Unsent' \subseteq Unsent /\ Replied' = Replied
  BY <1>0 DEF IInv, Types, ReqRec, Unsent, Replied, Healed
<1>4. \A d \in Conv : file'[d] = file[d] \/ file'[d] = freed
  BY <1>0 DEF IInv, Types
<1> QED BY <1>0, <1>2, <1>3, <1>4 DEF Sized, Within

LEMMA ArrivesSized ==
  ASSUME IInv, NEW n \in Int, Sized(n), NEW r \in Req, Arrives(r)
  PROVE  Sized(n)' /\ Unsent' \subseteq Unsent /\ Replied \subseteq Replied'
<1>0. req[r] \in ReqRec /\ req[r].at = "answer" /\ req[r].conv \in Conv
  BY DEF IInv, Types, Shapes, Arrives
<1>1. /\ UNCHANGED <<file, job>>
      /\ cache' = cache \/ cache' = [cache EXCEPT ![req[r].conv] = req[r].rec]
      /\ \/ req' = [req EXCEPT ![r] = Idle]
         \/ req' = [Ask("get", "read", req[r].conv) EXCEPT ![r] = Idle]
  BY DEF Arrives, server
<1>2. \A q \in Req : \/ req'[q] = req[q] \/ req'[q] = Idle
                     \/ req'[q] = [Idle EXCEPT !.op = "read", !.conv = req[r].conv, !.at = "start"]
  BY <1>1 DEF Ask, IInv, Types, Req
<1>3. /\ \A q \in Req : req'[q].rec = req[q].rec \/ req'[q].rec = None
      /\ Unsent' \subseteq Unsent /\ Replied' = Replied
  <2> DEFINE reading == [Idle EXCEPT !.op = "read", !.conv = req[r].conv, !.at = "start"]
  <2>0. reading.op = "read" /\ reading.rec = None /\ Idle.op = "none" /\ Idle.rec = None
    BY DEF Idle
  <2> HIDE DEF reading
  <2>3. \A q \in Req : req'[q] = req[q] \/ req'[q] = Idle \/ req'[q] = reading
    BY <1>2, Zenon DEF reading
  <2>1. \A q \in Req : req'[q].op \in {"open", "send"} => req'[q] = req[q]
    BY <2>0, <2>3
  <2>2. \A q \in Req : req'[q].rec = req[q].rec \/ req'[q].rec = None
    BY <2>0, <2>3
  <2> QED BY <1>1, <2>1, <2>2 DEF Unsent, Replied
<1>4. \A d \in Conv : cache'[d] = cache[d] \/ cache'[d] = req[r].rec
  BY <1>1 DEF IInv, Types
<1> QED BY <1>1, <1>3, <1>4 DEF Sized, Within

LEMMA SubmitSized ==
  ASSUME IInv, NEW n \in Int, Sized(n), Begun, NEW r \in Req, Submit(r)
  PROVE  Sized(n)' /\ Unsent' \subseteq Unsent /\ Replied \subseteq Replied'
<1> DEFINE c == req[r].conv
           rec == req[r].rec
           turn == Len(rec.turns)
<1>0. /\ req[r] \in ReqRec /\ req[r].at = "asked" /\ c \in Conv /\ rec \in Rec
      /\ UNCHANGED <<file, cache>>
  BY ReqType DEF IInv, Types, Shapes, HasCopy, Asking, Submit, tab
<1>1. PICK j \in Job :
        /\ NextJob(j)
        /\ job' = [job EXCEPT ![j] = [st |-> "queued", conv |-> c, turn |-> turn, at |-> "none"]]
        /\ req' = [req EXCEPT ![r].at = "queued", ![r].rec.pending = [job |-> j, turn |-> turn]]
  BY DEF Submit
<1>2. turn \in Nat /\ turn >= 1 /\ turn <= n
  BY <1>0, RecType DEF Begun, Sized, Within
<1> DEFINE sent == [rec EXCEPT !.pending = [job |-> j, turn |-> turn]]
<1>3. sent.turns = rec.turns /\ sent.pending.turn = turn
  BY <1>0 DEF Rec
<1>4. Within(sent, n)
  BY <1>2, <1>3 DEF Within
<1>5. req'[r].rec = sent /\ req'[r].at = "queued" /\ \A q \in Req \ {r} : req'[q] = req[q]
  BY <1>0, <1>1 DEF IInv, Types, ReqRec
<1> HIDE DEF sent
<1>6. Unsent' \subseteq Unsent
  BY <1>5 DEF Unsent
<1>7. job[j].st = "new" /\ job[j].at = "none" /\ job[j] \in JobRec
  BY <1>1 DEF NextJob, IInv, Types, Shapes
<1>8. Replied' = Replied /\ \A k \in Job : job'[k].turn = job[k].turn \/ job'[k].turn = turn
  BY <1>1, <1>7 DEF IInv, Types, Replied, Live
<1> QED BY <1>0, <1>2, <1>4, <1>5, <1>6, <1>8 DEF Sized, Within

LEMMA ReleaseTurnSized ==
  ASSUME IInv, NEW n \in Int, Sized(n), NEW j \in Job, ReleaseTurn(j)
  PROVE  Sized(n)' /\ Unsent' \subseteq Unsent /\ Replied \subseteq Replied'
<1> DEFINE c == job[j].conv
           freed == MarkFailed(file[c], job[j].turn)
<1>0. /\ job[j] \in JobRec /\ job[j].st = "running" /\ job[j].at = "free"
      /\ c \in Conv /\ UNCHANGED <<cache, req>> /\ job[j].turn \in Nat
  BY DEF IInv, Types, Shapes, Opened, ReleaseTurn, tab, JobRec
<1>1. job' = [job EXCEPT ![j].at = "end"]
  BY DEF ReleaseTurn
<1>2. \/ UNCHANGED file
      \/ file[c] # None /\ file' = [file EXCEPT ![c] = freed]
  BY DEF ReleaseTurn, Waits
<1>3. file[c] # None => Within(freed, n)
  BY <1>0, MarkWithin DEF Sized, IInv, Types
<1> HIDE DEF freed
<1>4. \A d \in Conv : file'[d] = file[d] \/ (file[c] # None /\ file'[d] = freed)
  BY <1>2 DEF IInv, Types
<1>5. Unsent' = Unsent /\ Replied' = Replied /\ \A k \in Job : job'[k].turn = job[k].turn
  BY <1>0, <1>1 DEF IInv, Types, JobRec, Unsent, Replied, Live
<1> QED BY <1>0, <1>3, <1>4, <1>5 DEF Sized, Within

LEMMA RestartSized ==
  ASSUME IInv, NEW n \in Int, Sized(n), Restart
  PROVE  Sized(n)' /\ Unsent' \subseteq Unsent /\ Replied \subseteq Replied'
<1>1. \A j \in Job : /\ job'[j].turn = job[j].turn
                     /\ job'[j].st = IF job[j].st = "new" THEN "new" ELSE "gone"
                     /\ job[j].st = "new" => job'[j] = job[j]
  <2>1. job' = [j \in Job |-> IF job[j].st = "new" THEN job[j]
                             ELSE [job[j] EXCEPT !.st = "gone", !.at = "none"]]
    BY DEF Restart
  <2> SUFFICES ASSUME NEW j \in Job
               PROVE  /\ job'[j].turn = job[j].turn
                      /\ job'[j].st = IF job[j].st = "new" THEN "new" ELSE "gone"
                      /\ job[j].st = "new" => job'[j] = job[j]
    OBVIOUS
  <2>2. job[j] \in JobRec
    BY DEF IInv, Types
  <2> QED BY <2>1, <2>2 DEF JobRec
<1>2. \A r \in Req : req'[r] = Idle
  BY DEF Restart
<1>3. Unsent' = {}
  BY <1>2 DEF Unsent, Idle
<1>4. Replied \subseteq Replied'
  BY <1>1 DEF Replied, Live
<1> QED BY <1>1, <1>2, <1>3, <1>4 DEF Sized, Within, Restart, tab, Idle

(* A request is made, or a view chosen. *)
LEMMA TabSized ==
  ASSUME IInv, NEW n \in Int, Sized(n), UNCHANGED <<file, cache, job>>, NEW r \in Req,
         NEW op \in Ops, NEW c \in Conv,
         req' = req \/ (req[r].at = "none" /\ req' = Ask(r, op, c))
  PROVE  /\ Sized(n)' /\ Replied' = Replied /\ Unsent' \subseteq Unsent \cup {r}
         /\ op = "read" => Unsent' \subseteq Unsent
<1>1. \A q \in Req : req'[q] = req[q] \/
        (q = r /\ req'[q] = [Idle EXCEPT !.op = op, !.conv = c, !.at = "start"])
  BY DEF Ask, IInv, Types
<1>2. \A q \in Req : req'[q].rec = req[q].rec \/ req'[q].rec = None
  BY <1>1 DEF Idle
<1>3. Unsent' \subseteq Unsent \cup {r} /\ (op = "read" => Unsent' \subseteq Unsent)
  BY <1>1 DEF Unsent, Idle
<1> QED BY <1>2, <1>3 DEF Sized, Within, Replied

LEMMA TurnWithin ==
  ASSUME NEW x \in Rec, NEW n \in Int, Within(x, n), NEW t \in Turn
  PROVE  Within([turns |-> Append(x.turns, t), pending |-> None], n + 1)
BY RecType, AppendProperties DEF Within

(* A message is written: the request that was to write it has. *)
LEMMA AdmitSized ==
  ASSUME IInv, NEW n \in Int, n >= 2, Sized(n), NEW r \in Req, Admit(r)
  PROVE  /\ Replied' = Replied
         /\ \/ Sized(n)' /\ Unsent' \subseteq Unsent
            \/ Sized(n + 1)' /\ r \in Unsent /\ Unsent' = Unsent \ {r}
<1> DEFINE c == req[r].conv
           rec == req[r].rec
           new == Written(r)
<1>1. /\ req[r] \in ReqRec /\ req[r].at = "listed" /\ c \in Conv /\ UNCHANGED <<job, cache>>
      /\ req[r].op \in Posts /\ (req[r].op # "open" => rec \in Rec)
  BY ReqType DEF IInv, Types, Shapes, HasCopy, Admit, tab
<1>2. Replied' = Replied
  BY <1>1 DEF Replied
<1>3. CASE ~Admitted(r)
  <2>1. UNCHANGED file /\ req' = [req EXCEPT ![r] = Idle]
    BY <1>3 DEF Admit, Finish
  <2>2. \A q \in Req : req'[q] = req[q] \/ req'[q] = Idle
    BY <2>1 DEF IInv, Types
  <2>3. Sized(n)' /\ Unsent' \subseteq Unsent
    BY <1>1, <2>1, <2>2 DEF Idle, Sized, Within, Unsent
  <2> QED BY <1>2, <2>3
<1>4. CASE Admitted(r)
  <2>1. /\ req' = [req EXCEPT ![r].at = "asked", ![r].rec = new]
        /\ file' = IF req[r].op = "retry" THEN file ELSE [file EXCEPT ![c] = new]
    BY <1>4 DEF Admit
  <2>2. /\ new \in Rec /\ new # None /\ new.pending = None
        /\ req[r].op = "open" => new.turns = <<"asked">>
        /\ req[r].op = "send" => new.turns = Append(rec.turns, "asked")
        /\ req[r].op = "retry" => /\ new.turns = [rec.turns EXCEPT ![Len(rec.turns)] = "asked"]
                                  /\ rec.turns # <<>>
    BY <1>1, <1>4, WrittenType, RecType
  <2> HIDE DEF new
  <2>3. /\ \A q \in Req \ {r} : req'[q] = req[q]
        /\ req'[r].rec = new /\ req'[r].at = "asked"
    BY <1>1, <2>1 DEF IInv, Types, ReqRec
  <2>4. \A d \in Conv : file'[d] = file[d] \/ (req[r].op # "retry" /\ file'[d] = new)
    BY <2>1 DEF IInv, Types
  <2>5. Unsent' = Unsent \ {r}
    BY <2>3 DEF Unsent
  <2>6. CASE req[r].op = "retry"
    <3>1. rec.turns \in Seq(Turn) /\ Len(rec.turns) \in 1..Len(rec.turns) /\ Len(rec.turns) <= n
      BY <1>1, <2>2, <2>6, RecType, EmptySeq, LenProperties DEF Sized, Within
    <3>2. Len(new.turns) <= n
      BY <2>2, <2>6, <3>1, TurnsMarked
    <3>3. Sized(n)'
      BY <1>1, <2>2, <2>3, <2>4, <2>6, <3>2 DEF Sized, Within
    <3> QED BY <1>2, <2>5, <3>3
  <2>7. CASE req[r].op \in {"open", "send"}
    <3>1. Len(new.turns) <= n + 1
      <4>1. CASE req[r].op = "open"
        <5>1. Len(new.turns) = 1
          BY <2>2, <4>1
        <5> QED BY <5>1
      <4>2. CASE req[r].op = "send"
        <5>1. rec.turns \in Seq(Turn) /\ Len(rec.turns) <= n
          BY <1>1, <4>2, RecType DEF Sized, Within
        <5>2. "asked" \in Turn
          BY DEF Turn
        <5>3. Len(new.turns) = Len(rec.turns) + 1
          BY <2>2, <4>2, <5>1, <5>2, AppendProperties
        <5> QED BY <5>1, <5>3, LenProperties
      <4> QED BY <2>7, <4>1, <4>2
    <3>2. Within(new, n + 1)
      BY <2>2, <3>1 DEF Within
    <3>3. Sized(n + 1)
      BY SizedGrows
    <3>4. Sized(n + 1)'
      BY <1>1, <2>3, <2>4, <3>2, <3>3 DEF Sized, Within
    <3>5. r \in Unsent
      BY <1>1, <2>7 DEF Unsent
    <3> QED BY <1>2, <2>5, <3>4, <3>5
  <2> QED BY <1>1, <2>6, <2>7 DEF Posts
<1> QED BY <1>3, <1>4

(* A reply is written by a job that had written nothing. *)
LEMMA AppendReplySized ==
  ASSUME IInv, NEW n \in Int, Sized(n), NEW j \in Job, AppendReply(j)
  PROVE  Sized(n + 1)' /\ Unsent' = Unsent /\ j \notin Replied /\ Replied' = Replied \cup {j}
<1> DEFINE c == job[j].conv
           new == [turns |-> Append(file[c].turns, "reply"), pending |-> None]
<1>1. /\ job[j] \in JobRec /\ job[j].st = "running" /\ job[j].at = "write" /\ c \in Conv
      /\ UNCHANGED <<req, cache>> /\ job' = [job EXCEPT ![j].at = "done"]
      /\ \/ UNCHANGED file
         \/ file[c] # None /\ file' = [file EXCEPT ![c] = new]
  BY DEF IInv, Types, Shapes, Opened, AppendReply, tab
<1>2. file[c] # None => Within(new, n + 1)
  BY <1>1, TurnWithin DEF Sized, IInv, Types, Turn
<1> HIDE DEF new
<1>3. \A d \in Conv : file'[d] = file[d] \/ (file[c] # None /\ file'[d] = new)
  BY <1>1 DEF IInv, Types
<1>4. /\ \A k \in Job : job'[k].turn = job[k].turn /\ job'[k].st = job[k].st
      /\ \A k \in Job \ {j} : job'[k] = job[k]
      /\ job'[j].at = "done"
  BY <1>1 DEF IInv, Types, JobRec
<1>5. Unsent' = Unsent /\ j \notin Replied
  BY <1>1 DEF Unsent, Replied, Live
<1>6. Replied' = Replied \cup {j}
  BY <1>1, <1>4 DEF Replied
<1>7. Sized(n + 1)
  BY SizedGrows
<1> QED BY <1>1, <1>2, <1>3, <1>4, <1>5, <1>6, <1>7 DEF Sized, Within

-----------------------------------------------------------------------------
(* A message is in hand once it is asked. *)
LEMMA BegunStep ==
  ASSUME IInv, Begun, [Next]_vars
  PROVE  Begun'
<1> DEFINE Same(r) == req'[r].at = "asked" => req'[r] = req[r]
<1>1. ASSUME NEW r \in Req, Serve(r), ~Admit(r)
      PROVE  \A q \in Req : Same(q)
  <2>0. req[r] \in ReqRec /\ req \in [Req -> ReqRec]
    BY DEF IInv, Types
  <2>1. CASE Enter(r)
    <3>1. PICK x : \/ req' = [req EXCEPT ![r] = Idle]
                   \/ req' = [req EXCEPT ![r].at = "listed"]
                   \/ req' = [req EXCEPT ![r].at = "listed", ![r].rec = x]
      BY <2>1 DEF Enter, Finish, To
    <3> QED BY <2>0, <3>1 DEF ReqRec, Idle
  <2>2. CASE Submit(r)
    <3>1. PICK p : req' = [req EXCEPT ![r].at = "queued", ![r].rec.pending = p]
      BY <2>2 DEF Submit
    <3> QED BY <2>0, <3>1 DEF ReqRec
  <2>3. CASE Count(r) \/ Clash(r) \/ Commit(r)
    BY <2>0, <2>3 DEF Count, Clash, Commit, To, Finish, Answer, ReqRec, Idle
  <2>4. CASE Read(r)
    BY <2>0, <2>4 DEF Read, ReqRec
  <2>5. CASE CancelTurn(r) \/ Ends(r)
    BY <2>0, <2>5 DEF CancelTurn, Ends, To, ReqRec
  <2>6. CASE Heal(r)
    <3> DEFINE again == IF file[req[r].conv] = None THEN req[r].rec ELSE file[req[r].conv]
    <3>1. \/ req' = [req EXCEPT ![r].at = Healed(r)]
          \/ req' = [req EXCEPT ![r].at = Healed(r), ![r].rec = again]
          \/ req' = [req EXCEPT ![r].at = "free"]
      BY <2>6 DEF Heal
    <3>2. Healed(r) \in {"end", "answer"}
      BY DEF Healed
    <3> HIDE DEF again
    <3> QED BY <2>0, <3>1, <3>2 DEF ReqRec
  <2>7. CASE Free(r)
    <3>1. \E x : req' = [req EXCEPT ![r].at = Healed(r), ![r].rec = x]
      BY <2>7 DEF Free
    <3>2. Healed(r) \in {"end", "answer"}
      BY DEF Healed
    <3> QED BY <2>0, <3>1, <3>2 DEF ReqRec
  <2>8. CASE Arrives(r)
    <3>1. \/ req' = [req EXCEPT ![r] = Idle]
          \/ req' = [Ask("get", "read", req[r].conv) EXCEPT ![r] = Idle]
      BY <2>8 DEF Arrives
    <3> DEFINE reading == [Idle EXCEPT !.op = "read", !.conv = req[r].conv, !.at = "start"]
    <3>2. \A q \in Req : req'[q] = req[q] \/ req'[q] = Idle \/ req'[q] = reading
      BY <2>0, <3>1 DEF Ask, Req
    <3>3. reading.at = "start" /\ Idle.at = "none"
      BY DEF Idle
    <3> HIDE DEF reading
    <3> QED BY <3>2, <3>3
  <2> QED BY <1>1, <2>1, <2>2, <2>3, <2>4, <2>5, <2>6, <2>7, <2>8 DEF Serve
<1>2. ASSUME NEW r \in Req, Admit(r)
      PROVE  Begun'
  <2>1. req[r] \in ReqRec /\ req \in [Req -> ReqRec] /\ req[r].at = "listed"
    BY <1>2 DEF IInv, Types, Admit
  <2>2. CASE ~Admitted(r)
    BY <1>2, <2>1, <2>2 DEF Admit, Finish, Idle, Begun
  <2>3. CASE Admitted(r)
    <3> DEFINE new == Written(r)
    <3>1. req' = [req EXCEPT ![r].at = "asked", ![r].rec = new]
      BY <1>2, <2>3 DEF Admit
    <3>2. /\ new \in Rec
          /\ req[r].op = "open" => new.turns = <<"asked">>
          /\ req[r].op = "send" => new.turns = Append(req[r].rec.turns, "asked")
          /\ req[r].op = "retry" =>
               /\ new.turns = [req[r].rec.turns EXCEPT ![Len(req[r].rec.turns)] = "asked"]
               /\ req[r].rec.turns # <<>>
      BY <2>1, <2>3, WrittenType
    <3> HIDE DEF new
    <3>3. req[r].op \in Posts /\ (req[r].op # "open" => req[r].rec \in Rec)
      BY <2>1 DEF IInv, Shapes, HasCopy, ReqRec
    <3>4. Len(new.turns) >= 1
      <4>1. CASE req[r].op = "open"
        BY <3>2, <4>1
      <4>2. CASE req[r].op = "send"
        <5>1. req[r].rec.turns \in Seq(Turn) /\ "asked" \in Turn
          BY <3>3, <4>2, RecType DEF Turn
        <5> QED BY <3>2, <4>2, <5>1, AppendProperties, LenProperties
      <4>3. CASE req[r].op = "retry"
        <5>1. req[r].rec.turns \in Seq(Turn)
          BY <3>3, <4>3, RecType
        <5>2. Len(req[r].rec.turns) \in 1..Len(req[r].rec.turns)
          BY <3>2, <4>3, <5>1, EmptySeq, LenProperties
        <5> QED BY <3>2, <4>3, <5>1, <5>2, TurnsMarked
      <4> QED BY <3>3, <4>1, <4>2, <4>3 DEF Posts
    <3>5. req'[r].rec = new /\ \A q \in Req \ {r} : req'[q] = req[q]
      BY <2>1, <3>1 DEF ReqRec
    <3> QED BY <3>4, <3>5 DEF Begun
  <2> QED BY <2>2, <2>3
<1>3. ASSUME NEW j \in Job, Work(j)
      PROVE  Begun'
  BY <1>3 DEF Work, Start, ReadTurn, Compute, AppendReply, ReleaseTurn, EndTurn, Begun
<1>4. ASSUME NEW r \in Req, NEW op, NEW c, req' = req \/ req' = Ask(r, op, c)
      PROVE  \A q \in Req : Same(q)
  <2> DEFINE new == [Idle EXCEPT !.op = op, !.conv = c, !.at = "start"]
  <2>1. new.at = "start"
    BY DEF Idle
  <2>2. req' = req \/ req' = [req EXCEPT ![r] = new]
    BY <1>4, Zenon DEF Ask
  <2>3. req \in [Req -> ReqRec]
    BY DEF IInv, Types
  <2> HIDE DEF new
  <2> QED BY <2>1, <2>2, <2>3
<1>5. CASE \/ Submits \/ Retries \/ Stops \/ Drops \/ Elsewhere \/ Poll
           \/ \E c \in Conv \cup {None} : Select(c)
  <2>1. PICK r \in Req : \E op, c : req' = req \/ req' = Ask(r, op, c)
    BY <1>5 DEF Submits, Retries, Stops, Drops, Elsewhere, Poll, Select, Gesture, Req
  <2>2. PICK op, c : req' = req \/ req' = Ask(r, op, c)
    BY <2>1
  <2>3. \A q \in Req : Same(q)
    BY <1>4, <2>2
  <2> QED BY <2>3 DEF Begun
<1>6. CASE Restart
  BY <1>6 DEF Restart, Idle, Begun
<1>7. CASE UNCHANGED vars
  BY <1>7 DEF vars, Begun
<1>8. ASSUME NEW r \in Req, Serve(r), ~Admit(r)
      PROVE  Begun'
  <2>1. \A q \in Req : Same(q)
    BY <1>1, <1>8
  <2> QED BY <2>1 DEF Begun
<1> QED BY <1>2, <1>3, <1>5, <1>6, <1>7, <1>8 DEF Next

-----------------------------------------------------------------------------
(* The day's count *)

(* Turns queued and not yet counted, and jobs ever queued: the count and   *)
(* what a handler read of it never get ahead of the queue.                 *)
InFlight == {r \in Req : req[r].at \in {"queued", "clash", "commit"}}
Sent == {j \in Job : job[j].st # "new"}
Counted ==
  /\ used + Cardinality(InFlight) <= Cardinality(Sent)
  /\ \A r \in Req : /\ req[r].seen <= Cardinality(Sent)
                    /\ req[r].at = "commit" => req[r].seen + Cardinality(InFlight) <= Cardinality(Sent)

LEMMA Counts ==
  /\ Cardinality(InFlight) \in Nat /\ Cardinality(Sent) \in Nat /\ Cardinality(Sent) <= MaxJobs
  /\ IsFiniteSet(InFlight) /\ IsFiniteSet(Sent)
<1>1. InFlight \subseteq Req /\ Sent \subseteq Job
  BY DEF InFlight, Sent
<1> QED BY <1>1, FiniteActors, FS_Subset, FS_CardinalityType

LEMMA CountsNext ==
  /\ Cardinality(InFlight') \in Nat /\ Cardinality(Sent') \in Nat
  /\ IsFiniteSet(InFlight') /\ IsFiniteSet(Sent')
<1>1. InFlight' \subseteq Req /\ Sent' \subseteq Job
  BY DEF InFlight, Sent
<1> QED BY <1>1, FiniteActors, FS_Subset, FS_CardinalityType

LEMMA CountedKept ==
  ASSUME IInv, Counted, InFlight' \subseteq InFlight, Sent \subseteq Sent', used' = used,
         \A q \in Req : req'[q].seen \in {req[q].seen, 0},
         \A q \in Req : req'[q].at = "commit" => req'[q] = req[q]
  PROVE  Counted'
<1>1. /\ Cardinality(InFlight') <= Cardinality(InFlight)
      /\ Cardinality(Sent) <= Cardinality(Sent')
  BY Counts, CountsNext, FS_Subset
<1>2. used \in Nat /\ \A q \in Req : req[q].seen \in Nat
  BY DEF IInv, Types, ReqRec
<1>3. (Cardinality(InFlight))' = Cardinality(InFlight') /\ (Cardinality(Sent))' = Cardinality(Sent')
  OBVIOUS
<1> DEFINE f == Cardinality(InFlight)
           g == Cardinality(InFlight')
           s == Cardinality(Sent)
           t == Cardinality(Sent')
<1>4. f \in Nat /\ g \in Nat /\ s \in Nat /\ t \in Nat /\ g <= f /\ s <= t
  BY <1>1, Counts, CountsNext
<1>5. /\ used + f <= s
      /\ \A r \in Req : req[r].seen <= s /\ (req[r].at = "commit" => req[r].seen + f <= s)
  BY DEF Counted
<1> HIDE DEF f, g, s, t
<1>6. /\ used' + g <= t
      /\ \A r \in Req : req'[r].seen <= t /\ (req'[r].at = "commit" => req'[r].seen + g <= t)
  BY <1>2, <1>4, <1>5
<1> QED BY <1>6 DEF Counted, g, t

LEMMA SubmitCounted ==
  ASSUME IInv, Counted, NEW r \in Req, Submit(r)
  PROVE  Counted'
<1>0. req[r] \in ReqRec /\ req[r].at = "asked" /\ used' = used
  BY DEF IInv, Types, Submit
<1>1. PICK j \in Job :
        /\ NextJob(j)
        /\ \E p, x : /\ job' = [job EXCEPT ![j] = x] /\ x.st = "queued"
                     /\ req' = [req EXCEPT ![r].at = "queued", ![r].rec.pending = p]
  BY DEF Submit
<1>2. /\ \A q \in Req \ {r} : req'[q] = req[q]
      /\ req'[r].at = "queued" /\ req'[r].seen = req[r].seen
  BY <1>0, <1>1 DEF IInv, Types, ReqRec
<1>3. r \notin InFlight /\ InFlight' = InFlight \cup {r}
  BY <1>0, <1>2 DEF InFlight
<1>4. j \notin Sent /\ Sent' = Sent \cup {j}
  BY <1>1 DEF Sent, NextJob, IInv, Types
<1> DEFINE f == Cardinality(InFlight)
           s == Cardinality(Sent)
<1>5. /\ f \in Nat /\ s \in Nat /\ Cardinality(InFlight') = f + 1 /\ Cardinality(Sent') = s + 1
  BY <1>3, <1>4, Counts, FS_AddElement
<1>6. /\ used + f <= s
      /\ \A q \in Req : req[q].seen <= s /\ (req[q].at = "commit" => req[q].seen + f <= s)
  BY DEF Counted
<1>7. used \in Nat /\ \A q \in Req : req[q].seen \in Nat
  BY DEF IInv, Types, ReqRec
<1> HIDE DEF f, s
<1>8. /\ used' + (f + 1) <= s + 1
      /\ \A q \in Req : /\ req'[q].seen <= s + 1
                        /\ req'[q].at = "commit" => req'[q].seen + (f + 1) <= s + 1
  BY <1>0, <1>2, <1>5, <1>6, <1>7
<1> QED BY <1>5, <1>8 DEF Counted

LEMMA CountCounted ==
  ASSUME IInv, Counted, NEW r \in Req, Count(r)
  PROVE  Counted'
<1>0. req[r] \in ReqRec /\ req[r].at = "queued" /\ used' = used /\ job' = job
  BY DEF IInv, Types, Count
<1>1. \/ req' = [req EXCEPT ![r].at = "clash"]
      \/ req' = [req EXCEPT ![r].at = "commit", ![r].seen = used]
  BY DEF Count, To
<1>2. /\ \A q \in Req \ {r} : req'[q] = req[q]
      /\ req'[r].at \in {"clash", "commit"} /\ req'[r].seen \in {req[r].seen, used}
      /\ req'[r].at = "commit" => req'[r].seen = used
  BY <1>0, <1>1 DEF IInv, Types, ReqRec
<1>3. InFlight' = InFlight /\ Sent' = Sent
  BY <1>0, <1>2 DEF InFlight, Sent
<1> DEFINE f == Cardinality(InFlight)
           s == Cardinality(Sent)
<1>5. /\ f \in Nat /\ s \in Nat /\ Cardinality(InFlight') = f /\ Cardinality(Sent') = s
  BY <1>3, Counts
<1>6. /\ used + f <= s
      /\ \A q \in Req : req[q].seen <= s /\ (req[q].at = "commit" => req[q].seen + f <= s)
  BY DEF Counted
<1>7. used \in Nat /\ \A q \in Req : req[q].seen \in Nat
  BY DEF IInv, Types, ReqRec
<1> HIDE DEF f, s
<1>8. /\ used' + f <= s
      /\ \A q \in Req : req'[q].seen <= s /\ (req'[q].at = "commit" => req'[q].seen + f <= s)
  BY <1>0, <1>2, <1>5, <1>6, <1>7
<1> QED BY <1>5, <1>8 DEF Counted

(* An addition to a count that is out of date loses the others', and adds  *)
(* its own.                                                                *)
LEMMA CommitCounted ==
  ASSUME IInv, Counted, NEW r \in Req, Commit(r)
  PROVE  Counted'
<1>0. /\ req[r] \in ReqRec /\ req[r].at = "commit" /\ used' = req[r].seen + 1 /\ job' = job
      /\ req' = [req EXCEPT ![r].at = "answer", ![r].rec = req[r].rec]
  BY DEF IInv, Types, Commit, Answer
<1>2. /\ \A q \in Req \ {r} : req'[q] = req[q]
      /\ req'[r].at = "answer" /\ req'[r].seen = req[r].seen
  BY <1>0 DEF IInv, Types, ReqRec
<1>3. InFlight' = InFlight \ {r} /\ r \in InFlight /\ Sent' = Sent
  BY <1>0, <1>2 DEF InFlight, Sent
<1> DEFINE f == Cardinality(InFlight)
           s == Cardinality(Sent)
<1>5. /\ f \in Nat /\ s \in Nat /\ Cardinality(InFlight') = f - 1 /\ Cardinality(Sent') = s
  BY <1>3, Counts, FS_RemoveElement
<1>6. /\ used + f <= s
      /\ \A q \in Req : req[q].seen <= s /\ (req[q].at = "commit" => req[q].seen + f <= s)
  BY DEF Counted
<1>7. used \in Nat /\ \A q \in Req : req[q].seen \in Nat
  BY DEF IInv, Types, ReqRec
<1> HIDE DEF f, s
<1>8. /\ used' + (f - 1) <= s
      /\ \A q \in Req : /\ req'[q].seen <= s
                        /\ req'[q].at = "commit" => req'[q].seen + (f - 1) <= s
  <2>1. used' + (f - 1) <= s
    BY <1>0, <1>5, <1>6, <1>7
  <2>2. req'[r].seen <= s /\ req'[r].at # "commit"
    BY <1>2, <1>6
  <2>3. ASSUME NEW q \in Req \ {r}
        PROVE  req'[q].seen <= s /\ (req'[q].at = "commit" => req'[q].seen + (f - 1) <= s)
    BY <1>2, <1>5, <1>6, <1>7
  <2> QED BY <2>1, <2>2, <2>3
<1> QED BY <1>5, <1>8 DEF Counted

LEMMA CountedStep ==
  ASSUME IInv, Counted, [Next]_vars
  PROVE  Counted'
<1> DEFINE Still(q) == req'[q] = req[q]
           Out(q) == /\ req'[q].at \notin {"queued", "clash", "commit"}
                     /\ req'[q].seen \in {req[q].seen, 0}
<1>0. req \in [Req -> ReqRec] /\ job \in [Job -> JobRec]
  BY DEF IInv, Types
<1>1. ASSUME \A q \in Req : Still(q) \/ Out(q), used' = used, Sent \subseteq Sent'
      PROVE  Counted'
  <2>1. InFlight' \subseteq InFlight
    BY <1>1 DEF InFlight
  <2>2. /\ \A q \in Req : req'[q].seen \in {req[q].seen, 0}
        /\ \A q \in Req : req'[q].at = "commit" => req'[q] = req[q]
    BY <1>1
  <2> QED BY <1>1, <2>1, <2>2, CountedKept
<1>2. ASSUME NEW r \in Req, Serve(r), ~(Submit(r) \/ Count(r) \/ Commit(r))
      PROVE  /\ \A q \in Req : Still(q) \/ Out(q)
             /\ used' = used /\ Sent \subseteq Sent'
  <2>0. req[r] \in ReqRec
    BY <1>0
  <2>1. CASE Enter(r)
    <3>1. PICK x : \/ req' = [req EXCEPT ![r] = Idle]
                   \/ req' = [req EXCEPT ![r].at = "listed"]
                   \/ req' = [req EXCEPT ![r].at = "listed", ![r].rec = x]
      BY <2>1 DEF Enter, Finish, To
    <3>2. used' = used /\ job' = job
      BY <2>1 DEF Enter
    <3> QED BY <1>0, <2>0, <3>1, <3>2 DEF ReqRec, Idle, Sent
  <2>2. CASE Admit(r)
    <3>1. PICK x : \/ req' = [req EXCEPT ![r] = Idle]
                   \/ req' = [req EXCEPT ![r].at = "asked", ![r].rec = x]
      BY <2>2 DEF Admit, Finish
    <3>2. used' = used /\ job' = job
      BY <2>2 DEF Admit
    <3> QED BY <1>0, <2>0, <3>1, <3>2 DEF ReqRec, Idle, Sent
  <2>3. CASE Clash(r)
    BY <1>0, <2>0, <2>3 DEF Clash, Finish, Idle, Sent
  <2>4. CASE Read(r)
    BY <1>0, <2>0, <2>4 DEF Read, server, ReqRec, Sent
  <2>5. CASE CancelTurn(r)
    <3>1. req' = [req EXCEPT ![r].at = "heal"] /\ used' = used
      BY <2>5 DEF CancelTurn, To
    <3>2. Sent \subseteq Sent'
      BY <1>0, <2>5 DEF CancelTurn, Sent, JobRec
    <3> QED BY <1>0, <2>0, <3>1, <3>2 DEF ReqRec
  <2>6. CASE Heal(r)
    <3> DEFINE again == IF file[req[r].conv] = None THEN req[r].rec ELSE file[req[r].conv]
    <3>1. \/ req' = [req EXCEPT ![r].at = Healed(r)]
          \/ req' = [req EXCEPT ![r].at = Healed(r), ![r].rec = again]
          \/ req' = [req EXCEPT ![r].at = "free"]
      BY <2>6 DEF Heal
    <3>2. Healed(r) \in {"end", "answer"} /\ used' = used /\ job' = job
      BY <2>6 DEF Healed, Heal, server
    <3> HIDE DEF again
    <3> QED BY <1>0, <2>0, <3>1, <3>2 DEF ReqRec, Sent
  <2>7. CASE Free(r)
    <3>1. \E x : req' = [req EXCEPT ![r].at = Healed(r), ![r].rec = x]
      BY <2>7 DEF Free
    <3>2. Healed(r) \in {"end", "answer"} /\ used' = used /\ job' = job
      BY <2>7 DEF Healed, Free
    <3> QED BY <1>0, <2>0, <3>1, <3>2 DEF ReqRec, Sent
  <2>8. CASE Ends(r)
    BY <1>0, <2>0, <2>8 DEF Ends, To, ReqRec, Sent
  <2>9. CASE Arrives(r)
    <3>1. \/ req' = [req EXCEPT ![r] = Idle]
          \/ req' = [Ask("get", "read", req[r].conv) EXCEPT ![r] = Idle]
      BY <2>9 DEF Arrives
    <3> DEFINE reading == [Idle EXCEPT !.op = "read", !.conv = req[r].conv, !.at = "start"]
    <3>2. \A q \in Req : req'[q] = req[q] \/ req'[q] = Idle \/ req'[q] = reading
      BY <1>0, <3>1 DEF Ask, Req
    <3>3. reading.at = "start" /\ Idle.at = "none" /\ reading.seen = 0 /\ Idle.seen = 0
      BY DEF Idle
    <3>4. used' = used /\ job' = job
      BY <2>9 DEF Arrives, server
    <3> HIDE DEF reading
    <3> QED BY <3>2, <3>3, <3>4 DEF Sent
  <2> QED BY <1>2, <2>1, <2>2, <2>3, <2>4, <2>5, <2>6, <2>7, <2>8, <2>9 DEF Serve
<1>3. ASSUME NEW j \in Job, Work(j)
      PROVE  UNCHANGED req /\ used' = used /\ Sent \subseteq Sent'
  <2>0. job[j] \in JobRec
    BY <1>0
  <2>1. UNCHANGED req /\ used' = used
    BY <1>3 DEF Work, Start, ReadTurn, Compute, AppendReply, ReleaseTurn, EndTurn
  <2>2. \A i \in Job : job[i].st # "new" => job'[i].st # "new"
    BY <1>0, <2>0, <1>3
       DEF Work, Start, ReadTurn, Compute, AppendReply, ReleaseTurn, EndTurn, Closings, JobRec
  <2> QED BY <2>1, <2>2 DEF Sent
<1>4. CASE \/ Submits \/ Retries \/ Stops \/ Drops \/ Elsewhere \/ Poll
           \/ \E c \in Conv \cup {None} : Select(c)
  <2>1. PICK r \in Req : \E op, c : req' = req \/ req' = Ask(r, op, c)
    BY <1>4 DEF Submits, Retries, Stops, Drops, Elsewhere, Poll, Select, Gesture, Req
  <2>2. used' = used /\ job' = job
    BY <1>4 DEF Submits, Retries, Stops, Drops, Elsewhere, Poll, Select, Gesture, server
  <2>3. \A q \in Req : Still(q) \/ Out(q)
    BY <1>0, <2>1 DEF Ask, Idle
  <2> QED BY <1>1, <2>2, <2>3 DEF Sent
<1>5. CASE Restart
  <2>1. used' = used /\ \A q \in Req : req'[q] = Idle
    BY <1>5 DEF Restart, tab
  <2>2. \A i \in Job : job[i].st # "new" => job'[i].st # "new"
    BY <1>0, <1>5 DEF Restart, JobRec
  <2> QED BY <1>1, <2>1, <2>2 DEF Idle, Sent
<1>6. CASE UNCHANGED vars
  BY <1>1, <1>6 DEF vars, server, Sent
<1>7. ASSUME NEW r \in Req, Serve(r)
      PROVE  Counted'
  BY <1>1, <1>2, <1>7, SubmitCounted, CountCounted, CommitCounted
<1>8. ASSUME NEW j \in Job, Work(j)
      PROVE  Counted'
  BY <1>1, <1>3, <1>8
<1> QED BY <1>4, <1>5, <1>6, <1>7, <1>8 DEF Next

-----------------------------------------------------------------------------
(* Types *)

(* The bounds of the instance, the lengths of conversations and the count. *)
Lengths == /\ gestures \in 0..Gestures /\ restarts \in 0..Restarts /\ asked \in SUBSET Job
           /\ Bound \in Int /\ Bound >= 2 /\ Sized(Bound) /\ Begun

LEMMA SmallStep ==
  ASSUME IInv, Lengths, [Next]_vars
  PROVE  /\ gestures' \in 0..Gestures /\ restarts' \in 0..Restarts /\ asked' \in SUBSET Job
<1>0. gestures \in 0..Gestures /\ restarts \in 0..Restarts /\ asked \in SUBSET Job
  BY DEF Lengths
<1>1. ASSUME NEW r \in Req, Serve(r)
      PROVE  UNCHANGED <<gestures, restarts>> /\ asked' \in SUBSET Job
  <2>1. UNCHANGED <<gestures, restarts>>
    BY <1>1 DEF Serve, Enter, Admit, Submit, Count, Clash, Commit, Read, CancelTurn, Heal, Free,
       Ends, Arrives
  <2>2. CASE CancelTurn(r)
    <3>1. req[r].rec \in Rec /\ req[r].rec.pending # None
      BY <2>2, ReqType DEF CancelTurn, IInv, Types, Shapes
    <3>2. req[r].rec.pending.job \in Job
      BY <3>1, RecType
    <3> QED BY <1>0, <2>2, <3>2 DEF CancelTurn
  <2>3. CASE ~CancelTurn(r)
    BY <1>0, <1>1, <2>3 DEF Serve, Enter, Admit, Submit, Count, Clash, Commit, Read, Heal, Free,
       Ends, Arrives, server
  <2> QED BY <2>1, <2>2, <2>3
<1>2. ASSUME NEW j \in Job, Work(j)
      PROVE  UNCHANGED <<gestures, restarts>> /\ asked' \in SUBSET Job
  BY <1>0, <1>2 DEF Work, Start, ReadTurn, Compute, AppendReply, ReleaseTurn, EndTurn
<1>3. CASE Submits \/ Retries \/ Stops \/ Drops \/ Elsewhere
  <2>1. gestures < Gestures /\ gestures' = gestures + 1 /\ UNCHANGED <<asked, restarts>>
    BY <1>3 DEF Submits, Retries, Stops, Drops, Elsewhere, Gesture, server
  <2> QED BY <1>0, <2>1
<1>4. CASE Poll \/ \E c \in Conv \cup {None} : Select(c)
  BY <1>0, <1>4 DEF Poll, Select, server
<1>5. CASE Restart
  <2>1. restarts < Restarts /\ restarts' = restarts + 1 /\ asked' = {} /\ gestures' = gestures
    BY <1>5 DEF Restart
  <2> QED BY <1>0, <2>1
<1>6. CASE UNCHANGED vars
  BY <1>0, <1>6 DEF vars, server
<1> QED BY <1>0, <1>1, <1>2, <1>3, <1>4, <1>5, <1>6 DEF Next

LEMMA SizedNext ==
  ASSUME IInv', NEW n \in Int, Bound' \in Int, n <= Bound', Sized(n)'
  PROVE  Sized(Bound)'
<1> PICK m \in Int : m = Bound'
  OBVIOUS
<1>1. n <= m
  OBVIOUS
<1>2. \A j \in Job : job'[j].turn \in Nat
  BY DEF IInv, Types, JobRec
<1>3. /\ \A c \in Conv : Within(file'[c], n) /\ Within(cache'[c], n)
      /\ \A r \in Req : Within(req'[r].rec, n)
      /\ \A j \in Job : job'[j].turn \in 0..n
  BY DEF Sized, Within
<1>4. \A x : Within(x, n) => Within(x, m)
  BY <1>1 DEF Within
<1>5. \A j \in Job : job'[j].turn \in 0..m
  BY <1>1, <1>2, <1>3
<1> QED BY <1>3, <1>4, <1>5 DEF Sized, Within

(* Every turn there is was there, was asked for, or answers one: the       *)
(* longest conversation grows only as a message or a reply is spent on it. *)
LEMMA LengthsStep ==
  ASSUME IInv, IInv', Lengths, [Next]_vars
  PROVE  Lengths'
<1>0. gestures \in Nat /\ Bound \in Int /\ Bound >= 2 /\ Sized(Bound) /\ Begun
  BY DEF Lengths
<1> PICK n \in Int : n = Bound
  BY <1>0
<1>1. n >= 2 /\ Sized(n)
  BY <1>0
<1> DEFINE Grown == Bound' \in Int /\ Bound <= Bound' /\ Sized(Bound)'
<1>2. ASSUME gestures' = gestures, Sized(n)', Unsent' \subseteq Unsent, Replied \subseteq Replied'
      PROVE  Grown
  <2>1. Bound' \in Int /\ Bound <= Bound'
    BY <1>0, <1>2, BoundKept
  <2> QED BY <1>2, <2>1, SizedNext
<1>3. ASSUME gestures' = gestures, Sized(n + 1)', Bound' = Bound + 1
      PROVE  Grown
  BY <1>0, <1>3, SizedNext
<1> HIDE DEF Grown
<1>4. ASSUME NEW r \in Req, Serve(r)
      PROVE  Grown
  <2>1. gestures' = gestures
    BY <1>4 DEF Serve, Enter, Admit, Submit, Count, Clash, Commit, Read, CancelTurn, Heal, Free,
       Ends, Arrives
  <2>2. CASE Admit(r)
    <3>1. CASE Sized(n)' /\ Unsent' \subseteq Unsent /\ Replied' = Replied
      BY <1>2, <2>1, <3>1
    <3>2. CASE Sized(n + 1)' /\ r \in Unsent /\ Unsent' = Unsent \ {r} /\ Replied' = Replied
      BY <1>0, <1>3, <2>1, <3>2, BoundSent
    <3> QED BY <1>1, <2>2, <3>1, <3>2, AdmitSized
  <2>3. CASE ~Admit(r)
    <3>1. Sized(n)' /\ Unsent' \subseteq Unsent /\ Replied \subseteq Replied'
      BY <1>0, <1>1, <1>4, <2>3, ServeSized, EnterSized, SubmitSized, FreeSized, ArrivesSized
         DEF Serve
    <3> QED BY <1>2, <2>1, <3>1
  <2> QED BY <2>2, <2>3
<1>5. ASSUME NEW j \in Job, Work(j)
      PROVE  Grown
  <2>1. gestures' = gestures
    BY <1>5 DEF Work, Start, ReadTurn, Compute, AppendReply, ReleaseTurn, EndTurn
  <2>2. CASE AppendReply(j)
    <3>1. Sized(n + 1)' /\ Unsent' = Unsent /\ j \notin Replied /\ Replied' = Replied \cup {j}
      BY <1>1, <2>2, AppendReplySized
    <3>2. Bound' = Bound + 1
      BY <1>0, <2>1, <3>1, BoundReplied
    <3> QED BY <1>3, <2>1, <3>1, <3>2
  <2>3. CASE ~AppendReply(j)
    <3>1. Sized(n)' /\ Unsent' \subseteq Unsent /\ Replied \subseteq Replied'
      BY <1>1, <1>5, <2>3, WorkSized, ReleaseTurnSized DEF Work
    <3> QED BY <1>2, <2>1, <3>1
  <2> QED BY <2>2, <2>3
<1>6. ASSUME NEW r \in Req, NEW op \in Ops, NEW c \in Conv, Gesture(r, op, c)
      PROVE  Grown
  <2>1. /\ UNCHANGED <<file, cache, job>> /\ gestures' = gestures + 1
        /\ req[r].at = "none" /\ req' = Ask(r, op, c)
    BY <1>6 DEF Gesture, server, tab
  <2>2. Sized(n)' /\ Replied' = Replied /\ Unsent' \subseteq Unsent \cup {r}
    BY <1>1, <2>1, TabSized
  <2>3. Bound' \in Int /\ Bound <= Bound'
    BY <1>0, <2>1, <2>2, BoundAsked
  <2> QED BY <2>2, <2>3, SizedNext DEF Grown
<1>7. ASSUME Submits \/ Retries \/ Stops \/ Drops \/ Elsewhere
      PROVE  Grown
  <2>1. /\ {"open", "send", "retry", "stop", "remove"} \subseteq Ops /\ {"post", "other"} \subseteq Req
        /\ (sel # None => sel \in Conv) /\ opened \subseteq Conv
    BY DEF Ops, Req, IInv, Types, Opened
  <2>2. \E r \in Req, op \in Ops, c \in Conv : Gesture(r, op, c)
    BY <1>7, <2>1 DEF Submits, Retries, Stops, Drops, Elsewhere, Shown
  <2> QED BY <1>6, <2>2
<1>8. ASSUME NEW r \in Req, NEW c \in Conv, UNCHANGED <<file, cache, job, gestures>>,
             req' = req \/ (req[r].at = "none" /\ req' = Ask(r, "read", c))
      PROVE  Grown
  <2>1. "read" \in Ops
    BY DEF Ops
  <2>2. Sized(n)' /\ Replied' = Replied /\ Unsent' \subseteq Unsent
    BY <1>1, <1>8, <2>1, TabSized
  <2> QED BY <1>2, <1>8, <2>2
<1>9. ASSUME Poll \/ \E c \in Conv \cup {None} : Select(c)
      PROVE  Grown
  <2>1. UNCHANGED <<file, cache, job, gestures>> /\ "get" \in Req
    BY <1>9 DEF Poll, Select, server, tab, Req
  <2>2. \/ req' = req
        \/ \E c \in Conv : req["get"].at = "none" /\ req' = Ask("get", "read", c)
    BY <1>9 DEF Poll, Select, IInv, Types, Opened
  <2>3. CASE req' = req
    <3>1. gestures' = gestures /\ Sized(n)' /\ Unsent' \subseteq Unsent /\ Replied \subseteq Replied'
      BY <1>1, <2>1, <2>3 DEF Sized, Unsent, Replied
    <3> QED BY <1>2, <3>1
  <2> QED BY <1>8, <2>1, <2>2, <2>3
<1>10. ASSUME Restart
       PROVE  Grown
  <2>1. gestures' = gestures
    BY <1>10 DEF Restart
  <2>2. Sized(n)' /\ Unsent' \subseteq Unsent /\ Replied \subseteq Replied'
    BY <1>1, <1>10, RestartSized
  <2> QED BY <1>2, <2>1, <2>2
<1>11. ASSUME UNCHANGED vars
       PROVE  Grown
  <2>1. UNCHANGED <<file, cache, job, req, gestures>>
    BY <1>11 DEF vars, server, tab
  <2>2. gestures' = gestures /\ Sized(n)' /\ Unsent' \subseteq Unsent /\ Replied \subseteq Replied'
    BY <1>1, <2>1 DEF Sized, Unsent, Replied
  <2> QED BY <1>2, <2>2
<1>12. Grown
  BY <1>4, <1>5, <1>7, <1>9, <1>10, <1>11 DEF Next
<1>13. Begun'
  BY <1>0, BegunStep
<1>14. /\ gestures' \in 0..Gestures /\ restarts' \in 0..Restarts /\ asked' \in SUBSET Job
  BY SmallStep
<1>15. Bound' \in Int /\ Bound' >= 2 /\ Sized(Bound)'
  BY <1>0, <1>12 DEF Grown
<1> QED BY <1>13, <1>14, <1>15 DEF Lengths

LEMMA InitLengths == Init => Lengths /\ Counted
<1> SUFFICES ASSUME Init PROVE Lengths /\ Counted
  OBVIOUS
<1>1. gestures = 0 /\ restarts = 0 /\ asked = {} /\ used = 0 /\ \A r \in Req : req[r] = Idle
  BY DEF Init
<1>2. Unsent = {} /\ InFlight = {} /\ Replied = {} /\ Sent = {}
  BY <1>1 DEF Init, Unsent, InFlight, Replied, Sent, Idle, Fresh
<1>3. Cardinality({}) = 0
  BY FS_EmptySet
<1>4. Bound = 2
  BY <1>1, <1>2, <1>3 DEF Bound
<1>5. \A c \in Conv : Within(file[c], 2)
  <2> SUFFICES ASSUME NEW x \in Older PROVE Within(x, 2)
    BY DEF Init, Within
  <2>1. PICK t \in {<<"asked", "reply">>, <<"failed">>} : x = [turns |-> t, pending |-> None]
    BY DEF Older
  <2>2. Len(t) <= 2
    <3>1. CASE t = <<"asked", "reply">>
      BY <3>1
    <3>2. CASE t = <<"failed">>
      BY <3>2
    <3> QED BY <2>1, <3>1, <3>2
  <2>3. x.turns = t /\ x.pending = None
    BY <2>1
  <2> QED BY <2>2, <2>3 DEF Within
<1>6. Sized(2)
  BY <1>1, <1>5 DEF Init, Sized, Within, Idle, Fresh
<1>7. Sized(Bound)
  BY <1>4, <1>6
<1>8. Begun /\ Counted
  BY <1>1, <1>2, <1>3 DEF Begun, Counted, Idle
<1> QED BY <1>1, <1>4, <1>7, <1>8 DEF Lengths

LEMMA LengthsType == ASSUME IInv, Lengths, Counted PROVE TypeOK
<1> DEFINE m == 2 + Gestures + MaxJobs
<1>1. Bound <= m
  <2>1. IsFiniteSet(Replied) /\ Cardinality(Replied) \in Nat /\ Cardinality(Replied) <= MaxJobs
    BY FiniteActors, FS_Subset, FS_CardinalityType DEF Replied
  <2>2. Cardinality(Unsent) \in Nat
    BY FiniteActors, FS_Subset, FS_CardinalityType DEF Unsent
  <2> QED BY <2>1, <2>2 DEF Lengths, Bound
<1>2. Sized(m)
  <2> PICK n \in Int : n = Bound
    BY DEF Lengths
  <2>1. Sized(n) /\ n <= m
    BY <1>1 DEF Lengths
  <2> QED BY <2>1, SizedGrows
<1>3. \A x \in Rec : Within(x, m) => x \in Record
  <2> SUFFICES ASSUME NEW x \in Rec, Within(x, m) PROVE x \in Record
    OBVIOUS
  <2>1. x.turns \in Seq(Turn) /\ x.pending \in Pend \cup {None}
        /\ x = [turns |-> x.turns, pending |-> x.pending] /\ x # None
    BY RecType
  <2>2. x.pending # None => x.pending \in Pending
    BY <2>1 DEF Pend, Pending, Places, Within
  <2> QED BY <2>1, <2>2 DEF Record
<1>4. /\ file \in [Conv -> Record \cup {None}] /\ cache \in [Conv -> Record \cup {None}]
  BY <1>2, <1>3 DEF IInv, Types, Sized
<1>5. \A r \in Req : req[r].rec \in Record \cup {None} /\ req[r].seen \in 0..MaxJobs
  BY <1>2, <1>3, Counts DEF IInv, Types, ReqRec, Sized, Counted
<1>6. req \in [Req -> [op : Ops \cup {"none"}, conv : Conv \cup {None}, at : Steps \cup {"none"},
                       rec : Record \cup {None}, seen : 0..MaxJobs]]
  BY <1>5 DEF IInv, Types, ReqRec
<1>7. \A j \in Job : job[j].turn \in Places \cup {0}
  BY <1>2 DEF Sized, Places
<1>8. job \in [Job -> [st : {"new", "gone", "succeeded", "failed", "cancelled"} \cup Live,
                       conv : Conv \cup {None}, turn : Places \cup {0},
                       at : {"none", "read", "answer", "write", "free", "done", "end"}]]
  BY <1>7 DEF IInv, Types, JobRec
<1>9. used \in 0..MaxJobs
  BY Counts DEF IInv, Types, Counted
<1> QED BY <1>4, <1>6, <1>8, <1>9 DEF TypeOK, IInv, Types, Opened, Lengths

(* Every variable stays of its type, for any conversations and bounds: no  *)
(* conversation is longer than what it had, what was asked for and what    *)
(* was answered, and the day's count, lost additions and clashes included, *)
(* never exceeds the turns that were queued.                               *)
THEOREM TypeCorrect == Spec => []TypeOK
<1>1. Init => Lengths /\ Counted
  BY InitLengths
<1>2. IInv /\ IInv' /\ Lengths /\ [Next]_vars => Lengths'
  BY LengthsStep
<1>3. IInv /\ Counted /\ [Next]_vars => Counted'
  BY CountedStep
<1>4. IInv /\ Lengths /\ Counted => TypeOK
  BY LengthsType
<1> QED BY <1>1, <1>2, <1>3, <1>4, Invariant, PTL DEF Spec
=============================================================================
