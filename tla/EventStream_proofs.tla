------------------------- MODULE EventStream_proofs -------------------------
(***************************************************************************)
(* Proofs about EventStream, for any number of publishing threads, any     *)
(* buffer, queue and cold limit and any bounds: the variables keep their   *)
(* types, the tab applies each event at most once, in the order of their   *)
(* numbers, and none that is not for its account, and it misses none that  *)
(* is owed to it but for reasons that are known.                           *)
(***************************************************************************)
EXTENDS EventStream, SequenceTheorems, WellFoundedInduction, TLAPS

(* The inductive invariant.  InOrder needs that nothing the tab applied is *)
(* past its lastSeq; after a restart lastSeq may be past everything.       *)
Behind == \A s \in applied : s <= lastSeq
IInv == TypeOK /\ Behind

USE SizeAssumption

-----------------------------------------------------------------------------
(* The newest of some events is one of them and none is newer. *)
LEMMA NewestIsMax ==
  ASSUME NEW S \in SUBSET Seqs, S # {}
  PROVE  Newest(S) \in S /\ \A t \in S : t <= Newest(S)
<1> DEFINE T == {MaxSeq - s : s \in S}
<1>1. T \subseteq Nat /\ T # {}
  BY DEF Seqs
<1>2. PICK x \in T : \A y \in T : ~(<<y, x>> \in OpToRel(<, Nat))
  BY <1>1, NatLessThanWellFounded, WFMin
<1>3. \A y \in T : ~(y < x)
  BY <1>1, <1>2 DEF OpToRel
<1>4. PICK m \in S : x = MaxSeq - m
  BY <1>2
<1>5. \A t \in S : t <= m
  <2> TAKE t \in S
  <2>1. ~(MaxSeq - t < MaxSeq - m)
    BY <1>3, <1>4
  <2> QED BY <2>1, <1>4 DEF Seqs
<1> QED BY <1>4, <1>5 DEF Newest

(* What the tab does with a set of events it is sent. *)
LEMMA ApplyStep ==
  ASSUME TypeOK, Behind, NEW S \in SUBSET Seqs, Apply(S)
  PROVE  /\ applied' \in SUBSET Seqs /\ lastSeq' \in 0..MaxSeq
         /\ Behind'
         /\ applied' \ applied \subseteq S
         /\ \A s \in applied' \ applied : \A t \in applied : t < s
<1> DEFINE fresh == {s \in S : s > lastSeq}
<1>1. applied' = applied \cup fresh /\ lastSeq' = (IF fresh # {} THEN Newest(fresh) ELSE lastSeq)
  BY DEF Apply
<1>2. fresh \in SUBSET Seqs
  OBVIOUS
<1>3. CASE fresh = {}
  BY <1>1, <1>3 DEF TypeOK, Behind
<1>4. CASE fresh # {}
  <2>1. Newest(fresh) \in fresh /\ \A t \in fresh : t <= Newest(fresh)
    BY <1>2, <1>4, NewestIsMax
  <2>2. lastSeq' = Newest(fresh) /\ lastSeq' \in Seqs /\ lastSeq' > lastSeq
    BY <1>1, <1>2, <1>4, <2>1
  <2>3. Behind'
    <3>1. \A s \in applied : s \in Int /\ s <= lastSeq
      BY DEF TypeOK, Behind, Seqs
    <3>2. \A s \in applied : s <= lastSeq'
      BY <2>2, <3>1 DEF TypeOK, Seqs
    <3>3. \A s \in fresh : s <= lastSeq'
      BY <2>1, <2>2
    <3> QED BY <1>1, <3>2, <3>3 DEF Behind
  <2>4. \A s \in fresh : \A t \in applied : t < s
    BY DEF TypeOK, Behind, Seqs
  <2> QED BY <1>1, <1>2, <2>2, <2>3, <2>4 DEF TypeOK, Seqs
<1> QED BY <1>3, <1>4

LEMMA BufferedType ==
  ASSUME TypeOK
  PROVE  Buffered \in SUBSET Seqs /\ Oldest \in Nat /\ Oldest - 1 \in 0..seq
BY DEF TypeOK, Buffered, Oldest, Seqs

LEMMA TrimmedType ==
  ASSUME TypeOK
  PROVE  /\ Replayed \in SUBSET Seqs /\ Trimmed \in SUBSET Replayed
         /\ \A s \in Replayed : Visible(s)
         /\ Reached \in 0..MaxSeq
<1>1. Replayed \in SUBSET Seqs /\ \A s \in Replayed : Visible(s)
  BY BufferedType DEF Replayed
<1>2. Trimmed \in SUBSET Replayed
  BY DEF Trimmed, LastOf
<1>3. Reached \in 0..MaxSeq
  <2>1. CASE Replayed = {}
    BY <2>1 DEF Reached, TypeOK
  <2>2. CASE Replayed # {}
    <3>1. Newest(Replayed) \in Replayed /\ Reached = Newest(Replayed)
      BY <1>1, <2>2, NewestIsMax DEF Reached
    <3>2. Newest(Replayed) \in Seqs
      BY <1>1, <3>1
    <3> QED BY <3>1, <3>2 DEF Seqs
  <2> QED BY <2>1, <2>2
<1> QED BY <1>1, <1>2, <1>3

(* A queue fed one event, or relieved of its oldest, is still a queue. *)
LEMMA QueueStep ==
  ASSUME NEW q \in Seq(Seqs), q # <<>>
  PROVE  Head(q) \in Seqs /\ Tail(q) \in Seq(Seqs) /\ Len(Tail(q)) = Len(q) - 1 /\ Len(q) > 0
BY HeadTailProperties, EmptySeq

LEMMA EmptyQueue == <<>> \in Seq(Seqs) /\ Len(<<>>) = 0
BY EmptySeq

-----------------------------------------------------------------------------
(* Init and every action keep the invariant and respect the order. *)
LEMMA InitInv == ASSUME Init PROVE IInv
<1>1. class \in [Seqs -> Classes] /\ handing \in [Publisher -> 0..MaxSeq]
  BY DEF Init, Classes
<1>2. loop \in Seq(Seqs) /\ queue \in Seq(Seqs) /\ Len(queue) <= QueueSize
  BY EmptyQueue DEF Init
<1>3. TypeOK
  <2>1. {} \in SUBSET Seqs /\ 0 \in 0..MaxSeq /\ 0 \in 0..MaxBreaks /\ 0 \in 0..MaxRestarts
    OBVIOUS
  <2>2. {applied, spared, dropped, late} \subseteq SUBSET Seqs
    BY <2>1 DEF Init
  <2>3. {since, delivered, lastSeq, owed, stale} \subseteq 0..MaxSeq /\ seq \in 0..MaxSeq
    BY <2>1 DEF Init
  <2> QED BY <1>1, <1>2, <2>1, <2>2, <2>3 DEF Init, TypeOK
<1>4. Behind
  BY DEF Init, Behind
<1> QED BY <1>3, <1>4 DEF IInv

Step == /\ \A s \in applied' \ applied : class[s] \in Seen /\ \A t \in applied : t < s

LEMMA NextInv == ASSUME IInv, Next PROVE IInv' /\ Step
<1> USE DEF IInv
<1>1. ASSUME NEW p \in Publisher, FanOut(p) PROVE IInv' /\ Step
  <2>1. handing[p] \in Seqs
    BY <1>1 DEF FanOut, TypeOK, Seqs
  <2>2. loop' \in Seq(Seqs)
    BY <1>1, <2>1, AppendProperties DEF FanOut, TypeOK
  <2>3. late' \in SUBSET Seqs /\ handing' \in [Publisher -> 0..MaxSeq]
    BY <1>1, <2>1 DEF FanOut, TypeOK
  <2> QED BY <1>1, <2>2, <2>3 DEF FanOut, TypeOK, Behind, Step, socketVars, tabVars,
             connectionHistory, countVars
<1>2. ASSUME NEW p \in Publisher, NEW c \in Classes, Number(p, c) PROVE IInv' /\ Step
  BY <1>2 DEF Number, TypeOK, Behind, Step, socketVars, tabVars, historyVars,
     connectionHistory, countVars, Seqs
<1>3. CASE Offer
  <2>1. Head(loop) \in Seqs /\ loop' \in Seq(Seqs)
    BY <1>3, QueueStep DEF Offer, TypeOK
  <2>2. /\ queue' \in Seq(Seqs) /\ Len(queue') <= QueueSize
        /\ dropped' \in SUBSET Seqs
    <3>1. CASE Len(queue) = QueueSize
      <4>1. queue # <<>>
        BY <3>1, EmptyQueue
      <4>2. Head(queue) \in Seqs /\ Tail(queue) \in Seq(Seqs) /\ Len(Tail(queue)) = QueueSize - 1
        BY <3>1, <4>1, QueueStep DEF TypeOK
      <4>3. queue' = Append(Tail(queue), Head(loop)) /\ dropped' = dropped \cup {Head(queue)}
        BY <1>3, <3>1 DEF Offer
      <4> QED BY <2>1, <4>2, <4>3, AppendProperties DEF TypeOK
    <3>2. CASE Len(queue) # QueueSize
      <4>1. queue' = Append(queue, Head(loop)) /\ dropped' = dropped
        BY <1>3, <3>2 DEF Offer
      <4>2. queue \in Seq(Seqs) /\ Len(queue) \in Nat /\ Len(queue) < QueueSize
        BY <3>2, LenProperties DEF TypeOK
      <4> QED BY <2>1, <4>1, <4>2, AppendProperties DEF TypeOK
    <3> QED BY <3>1, <3>2
  <2> QED BY <1>3, <2>1, <2>2 DEF Offer, TypeOK, Behind, Step, tabVars, countVars
<1>4. CASE Connect
  BY <1>4, EmptyQueue DEF Connect, TypeOK, Behind, Step, tabVars, historyVars,
     connectionHistory, countVars
<1>5. CASE Replay
  <2>1. Trimmed \in SUBSET Seqs /\ Apply(Trimmed) /\ delivered' \in 0..MaxSeq
    BY <1>5, TrimmedType DEF Replay
  <2>2. /\ applied' \in SUBSET Seqs /\ lastSeq' \in 0..MaxSeq /\ Behind'
        /\ applied' \ applied \subseteq Trimmed
        /\ \A s \in applied' \ applied : \A t \in applied : t < s
    BY <2>1, ApplyStep
  <2>3. Step
    BY <2>2, TrimmedType DEF Step, Visible
  <2>4. gap' \in BOOLEAN /\ spared' \in SUBSET Seqs
    BY <1>5, TrimmedType DEF Replay, Gap
  <2>5. owed' \in 0..MaxSeq
    BY <1>5, BufferedType DEF Replay, TypeOK
  <2> QED BY <1>5, <2>1, <2>2, <2>3, <2>4, <2>5 DEF Replay, TypeOK, busVars, countVars
<1>6. CASE Take
  <2> DEFINE s == Head(queue)
             S == IF s > delivered /\ Visible(s) THEN {s} ELSE {}
  <2>1. s \in Seqs /\ queue' \in Seq(Seqs) /\ Len(queue') <= QueueSize
    BY <1>6, QueueStep, LenProperties DEF Take, TypeOK
  <2>2. Apply(S) /\ S \in SUBSET Seqs /\ delivered' \in 0..MaxSeq
    BY <1>6, <2>1 DEF Take, TypeOK, Seqs
  <2>3. /\ applied' \in SUBSET Seqs /\ lastSeq' \in 0..MaxSeq /\ Behind'
        /\ applied' \ applied \subseteq S
        /\ \A x \in applied' \ applied : \A t \in applied : t < x
    BY <2>2, ApplyStep
  <2>4. Step
    BY <2>3 DEF Step, Visible
  <2> QED BY <1>6, <2>1, <2>2, <2>3, <2>4 DEF Take, TypeOK, busVars, historyVars,
             connectionHistory, countVars
<1>7. CASE TakeClosed
  BY <1>7, EmptyQueue DEF TakeClosed, Close, TypeOK, Behind, Step, tabVars, historyVars,
     connectionHistory, countVars
<1>8. CASE Disconnect
  BY <1>8, EmptyQueue DEF Disconnect, Close, TypeOK, Behind, Step, tabVars, historyVars,
     connectionHistory
<1>9. CASE Reload
  <2>1. applied' = {} /\ dropped' = {} /\ lastSeq' = 0 /\ stale' = 0
    BY <1>9 DEF Reload
  <2>2. TypeOK'
    <3>1. {applied', spared', dropped', late'} \subseteq SUBSET Seqs
      BY <1>9, <2>1 DEF Reload, TypeOK
    <3>2. {since', delivered', lastSeq', owed', stale'} \subseteq 0..MaxSeq
      BY <1>9, <2>1 DEF Reload, Close, TypeOK
    <3>3. loop' \in Seq(Seqs) /\ queue' \in Seq(Seqs) /\ Len(queue') <= QueueSize
      BY <1>9, EmptyQueue DEF Reload, Close
    <3>4. breaks' \in 0..MaxBreaks /\ restarts' \in 0..MaxRestarts /\ gap' \in BOOLEAN
      <4>1. breaks \in 0..MaxBreaks /\ restarts \in 0..MaxRestarts
        BY DEF TypeOK
      <4>2. /\ breaks < MaxBreaks /\ breaks' = breaks + 1 /\ restarts' = restarts
            /\ gap' = FALSE
        BY <1>9 DEF Reload
      <4>3. breaks' \in 0..MaxBreaks
        BY <4>1, <4>2
      <4> QED BY <4>1, <4>2, <4>3, Zenon
    <3>5. seq' \in 0..MaxSeq /\ class' \in [Seqs -> Classes] /\ handing' \in [Publisher -> 0..MaxSeq]
      BY <1>9 DEF Reload, TypeOK
    <3>6. socket' \in {"closed", "subscribed", "live"}
      BY <1>9 DEF Reload, Close
    <3> QED BY <3>1, <3>2, <3>3, <3>4, <3>5, <3>6 DEF TypeOK
  <2> QED BY <2>1, <2>2 DEF Behind, Step
<1>10. CASE Restart
  BY <1>10, EmptyQueue DEF Restart, Close, TypeOK, Behind, Step, Classes
<1> QED BY <1>1, <1>2, <1>3, <1>4, <1>5, <1>6, <1>7, <1>8, <1>9, <1>10 DEF Next

LEMMA StutterInv == ASSUME IInv, UNCHANGED vars PROVE IInv'
BY DEF IInv, TypeOK, Behind, vars, busVars, socketVars, tabVars, historyVars,
   connectionHistory, countVars

-----------------------------------------------------------------------------
(* The inductive invariant holds in every reachable state. *)
THEOREM StreamInvariant == Spec => []IInv
<1>1. Init => IInv
  BY InitInv
<1>2. IInv /\ [Next]_vars => IInv'
  BY NextInv, StutterInv
<1> QED BY <1>1, <1>2, PTL DEF Spec

(* Every variable keeps its type, the subscriber's queue its size. *)
THEOREM StreamTypes == Spec => []TypeOK
<1>1. IInv => TypeOK
  BY DEF IInv
<1> QED BY <1>1, StreamInvariant, PTL

(* The tab applies each event once, newest last, and none of another       *)
(* account's, through any races, breaks, reloads and restarts.             *)
THEOREM AppliedInOrder == Spec => InOrder
<1> DEFINE A == \A s \in applied' \ applied : class[s] \in Seen /\ \A t \in applied : t < s
<1>1. IInv /\ [Next]_vars => [A]_vars
  BY NextInv DEF Step
<1>2. Spec => [][A]_vars
  BY <1>1, StreamInvariant, PTL DEF Spec
<1> QED BY <1>2 DEF InOrder

-----------------------------------------------------------------------------
(* What is on its way.                                                     *)
On(q) == {q[i] : i \in 1..Len(q)}
Waiting == On(loop) \cup On(queue)
Held == {handing[p] : p \in Publisher}
Overtaken(s) == \E t \in (s + 1)..seq : t \notin Held

(* `b` is handed on after `a`, and is late if it is older.                  *)
Before(a, b, lates) == a # b /\ (b < a => b \in lates)
Sorted(q, lates) == \A i, k \in 1..Len(q) : i < k => Before(q[i], q[k], lates)
Between(q, r, lates) == \A a \in On(q), b \in On(r) : Before(a, b, lates)

(* The queue holds what was handed on before what the loop holds.           *)
Lined == Sorted(loop, late) /\ Sorted(queue, late) /\ Between(queue, loop, late)

(* An event is handed on by one thread, once.                               *)
HandedOnce == /\ \A p \in Publisher : handing[p] <= seq
              /\ \A p, q \in Publisher : p # q /\ handing[p] # 0 => handing[p] # handing[q]
              /\ \A s \in Waiting : s <= seq /\ s \notin Held

(* Neither the tab nor its handler is past what there is, but for what the *)
(* tab carried over a restart, nor the tab past its handler.               *)
Reach == /\ lastSeq <= seq \/ lastSeq <= stale
         /\ socket = "subscribed" => since = lastSeq
         /\ socket = "live" => lastSeq <= delivered /\ (delivered <= seq \/ delivered <= stale)

(* Where an event that is owed to the tab may be.                           *)
Gone(s) == s \in applied \/ s \in dropped \/ s \in late \/ s <= stale
Coming(s) == IF socket = "live" THEN s > delivered /\ (s \in Held \/ s \in Waiting)
                                ELSE s > lastSeq
Accounted == \A s \in (owed + 1)..seq :
               Visible(s) => Gone(s) \/ (s \in Held /\ Overtaken(s)) \/ Coming(s)

(* What a full queue drops is not the last of all, or one was late.         *)
Older == \A s \in dropped : s < seq \/ late # {}

Whereabouts == Lined /\ HandedOnce /\ Reach /\ Accounted /\ Older

-----------------------------------------------------------------------------
LEMMA OnNothing == On(<<>>) = {} /\ \A lates : Sorted(<<>>, lates)
  BY DEF On, Sorted

LEMMA OnType == ASSUME NEW q \in Seq(Seqs) PROVE On(q) \subseteq Seqs
  BY ElementOfSeq DEF On

LEMMA OnAppend ==
  ASSUME NEW q \in Seq(Seqs), NEW x \in Seqs
  PROVE  /\ On(Append(q, x)) = On(q) \cup {x}
         /\ \A lates : Sorted(q, lates) /\ (\A a \in On(q) : Before(a, x, lates))
                         => Sorted(Append(q, x), lates)
<1>1. /\ Len(q) \in Nat /\ Len(Append(q, x)) = Len(q) + 1
      /\ \A i \in 1..Len(q) : Append(q, x)[i] = q[i]
      /\ Append(q, x)[Len(q) + 1] = x
  BY AppendProperties, LenProperties
<1> DEFINE r == Append(q, x)
<1> HIDE DEF r
<1>2. \A i \in 1..Len(r) : i = Len(q) + 1 \/ i \in 1..Len(q)
  BY <1>1 DEF r
<1>3. On(r) = On(q) \cup {x}
  BY <1>1, <1>2 DEF On, r
<1>4. ASSUME NEW lates, Sorted(q, lates), \A a \in On(q) : Before(a, x, lates)
      PROVE  Sorted(r, lates)
  <2> SUFFICES ASSUME NEW i \in 1..Len(r), NEW k \in 1..Len(r), i < k
               PROVE  Before(r[i], r[k], lates)
    BY DEF Sorted
  <2>1. i \in 1..Len(q) /\ r[i] = q[i] /\ q[i] \in On(q)
    BY <1>1, <1>2 DEF On, r
  <2>2. CASE k = Len(q) + 1
    BY <1>1, <1>4, <2>1, <2>2 DEF r
  <2>3. CASE k \in 1..Len(q)
    BY <1>1, <1>4, <2>1, <2>3 DEF Sorted, r
  <2> QED BY <1>2, <2>2, <2>3
<1> QED BY <1>3, <1>4 DEF r

LEMMA OnTail ==
  ASSUME NEW q \in Seq(Seqs), q # <<>>
  PROVE  /\ On(q) = {Head(q)} \cup On(Tail(q))
         /\ \A lates : Sorted(q, lates) =>
              Sorted(Tail(q), lates) /\ \A b \in On(Tail(q)) : Before(Head(q), b, lates)
<1>1. /\ Len(q) \in Nat /\ Len(q) > 0 /\ Len(Tail(q)) = Len(q) - 1 /\ Head(q) = q[1]
      /\ \A i \in 1..Len(Tail(q)) : Tail(q)[i] = q[i + 1]
  BY HeadTailProperties, EmptySeq, LenProperties
<1> DEFINE r == Tail(q)
<1> HIDE DEF r
<1>2. \A i \in 1..Len(r) : r[i] = q[i + 1] /\ i + 1 \in 1..Len(q) /\ i + 1 > 1
  BY <1>1 DEF r
<1>3. On(q) = {q[1]} \cup On(r)
  <2>1. \A i \in 1..Len(q) : i = 1 \/ (i - 1 \in 1..Len(r) /\ r[i - 1] = q[i])
    BY <1>1 DEF r
  <2>2. 1 \in 1..Len(q)
    BY <1>1
  <2>3. \A x \in On(q) : x = q[1] \/ x \in On(r)
    BY <2>1 DEF On
  <2>4. \A x \in On(r) : x \in On(q)
    BY <1>2 DEF On
  <2> QED BY <2>2, <2>3, <2>4 DEF On
<1>4. ASSUME NEW lates, Sorted(q, lates)
      PROVE  Sorted(r, lates) /\ \A b \in On(r) : Before(q[1], b, lates)
  <2>1. Sorted(r, lates)
    BY <1>2, <1>4 DEF Sorted
  <2>2. ASSUME NEW i \in 1..Len(r) PROVE Before(q[1], r[i], lates)
    BY <1>1, <1>2, <1>4 DEF Sorted
  <2> QED BY <2>1, <2>2 DEF On
<1> QED BY <1>1, <1>3, <1>4 DEF r

LEMMA LatesGrow ==
  ASSUME NEW lates, NEW more, lates \subseteq more
  PROVE  /\ \A q : Sorted(q, lates) => Sorted(q, more)
         /\ \A q, r : Between(q, r, lates) => Between(q, r, more)
  BY DEF Sorted, Between, Before

LEMMA InitWhere == ASSUME Init PROVE Whereabouts
<1>1. On(loop) = {} /\ On(queue) = {} /\ Sorted(loop, late) /\ Sorted(queue, late)
  BY OnNothing DEF Init
<1>2. Lined /\ Older
  BY <1>1 DEF Init, Lined, Between, Older
<1>3. HandedOnce
  BY <1>1 DEF Init, HandedOnce, Waiting
<1>4. Reach /\ Accounted
  BY DEF Init, Reach, Accounted
<1> QED BY <1>2, <1>3, <1>4 DEF Whereabouts

LEMMA NumberWhere ==
  ASSUME IInv, Whereabouts, NEW p \in Publisher, NEW c \in Classes, Number(p, c)
  PROVE  Whereabouts'
<1> USE DEF IInv, Whereabouts
<1>0. /\ handing[p] = 0 /\ seq < MaxSeq /\ seq' = seq + 1
      /\ class' = [class EXCEPT ![seq + 1] = c]
      /\ handing' = [handing EXCEPT ![p] = seq + 1]
      /\ UNCHANGED <<loop, queue, socket, since, delivered, lastSeq, gap, applied, owed,
                     spared, dropped, late, stale>>
  BY DEF Number, socketVars, tabVars, historyVars, connectionHistory
<1>1. /\ seq \in Nat /\ handing \in [Publisher -> 0..MaxSeq] /\ class \in [Seqs -> Classes]
      /\ owed \in Nat /\ delivered \in Nat /\ lastSeq \in Nat /\ stale \in Nat
      /\ On(loop) \subseteq Nat /\ On(queue) \subseteq Nat /\ dropped \subseteq Nat
  BY OnType DEF TypeOK, Seqs
<1>2. /\ \A q \in Publisher : handing'[q] = IF q = p THEN seq + 1 ELSE handing[q]
      /\ \A s \in 1..seq : class'[s] = class[s]
  BY <1>0, <1>1 DEF Seqs
<1>3. /\ \A s \in 1..seq : s \in Held' <=> s \in Held
      /\ seq + 1 \in Held'
  <2>1. handing'[p] = seq + 1
    BY <1>2
  <2>2. ASSUME NEW s \in 1..seq, NEW q \in Publisher PROVE handing'[q] = s <=> handing[q] = s
    <3>1. s # 0 /\ s # seq + 1
      BY <1>1
    <3> QED BY <1>0, <1>2, <3>1
  <2> QED BY <2>1, <2>2 DEF Held
<1>4. Lined'
  BY <1>0 DEF Lined
<1>5. HandedOnce'
  <2>1. \A q \in Publisher : handing'[q] <= seq'
    BY <1>0, <1>1, <1>2 DEF HandedOnce
  <2>2. \A q, r \in Publisher : q # r /\ handing'[q] # 0 => handing'[q] # handing'[r]
    BY <1>0, <1>1, <1>2 DEF HandedOnce
  <2>3. ASSUME NEW s \in Waiting PROVE s <= seq' /\ s \notin Held'
    <3>1. s <= seq /\ s \notin Held /\ s \in Nat
      BY <1>1 DEF HandedOnce, Waiting
    <3>2. s \notin Held'
      BY <1>0, <1>1, <1>2, <3>1 DEF Held
    <3> QED BY <1>0, <1>1, <3>1, <3>2
  <2>4. Waiting' = Waiting
    BY <1>0 DEF Waiting
  <2> QED BY <2>1, <2>2, <2>3, <2>4 DEF HandedOnce
<1>6. Reach'
  BY <1>0, <1>1 DEF Reach
<1>7. Accounted'
  <2> SUFFICES ASSUME NEW s \in (owed + 1)..(seq + 1), Visible(s)'
               PROVE  Gone(s)' \/ (s \in Held' /\ Overtaken(s)') \/ Coming(s)'
    BY <1>0 DEF Accounted
  <2>1. Gone(s)' <=> Gone(s)
    BY <1>0 DEF Gone
  <2>2. CASE s = seq + 1
    <3>1. s > lastSeq \/ s <= stale
      BY <1>1, <2>2 DEF Reach
    <3>2. socket = "live" => s > delivered \/ s <= stale
      BY <1>1, <2>2 DEF Reach
    <3>3. s \in Held'
      BY <1>3, <2>2
    <3>4. CASE s <= stale
      BY <2>1, <3>4 DEF Gone
    <3>5. CASE ~(s <= stale)
      BY <1>0, <3>1, <3>2, <3>3, <3>5 DEF Coming
    <3> QED BY <3>4, <3>5
  <2>3. CASE s # seq + 1
    <3>1. s \in (owed + 1)..seq /\ s \in 1..seq
      BY <1>1, <2>3
    <3>2. Visible(s)
      BY <1>2, <3>1 DEF Visible
    <3>3. Gone(s) \/ (s \in Held /\ Overtaken(s)) \/ Coming(s)
      BY <3>1, <3>2 DEF Accounted
    <3>4. Overtaken(s) => Overtaken(s)'
      <4>1. ASSUME NEW t \in (s + 1)..seq, t \notin Held PROVE Overtaken(s)'
        <5>1. t \in 1..seq /\ t \in (s + 1)..seq'
          BY <1>0, <1>1, <3>1, <4>1
        <5> QED BY <1>3, <4>1, <5>1 DEF Overtaken
      <4> QED BY <4>1 DEF Overtaken
    <3>5. Coming(s) => Coming(s)'
      BY <1>0, <1>3, <3>1 DEF Coming, Waiting
    <3> QED BY <1>3, <2>1, <3>1, <3>3, <3>4, <3>5
  <2> QED BY <2>2, <2>3
<1>8. Older'
  BY <1>0, <1>1 DEF Older
<1> QED BY <1>4, <1>5, <1>6, <1>7, <1>8

LEMMA FanOutWhere ==
  ASSUME IInv, Whereabouts, NEW p \in Publisher, FanOut(p)
  PROVE  Whereabouts'
<1> USE DEF IInv, Whereabouts
<1> DEFINE e == handing[p]
<1>0. /\ e # 0 /\ handing' = [handing EXCEPT ![p] = 0]
      /\ loop' = IF socket = "closed" THEN loop ELSE Append(loop, e)
      /\ late' = IF \E s \in (e + 1)..seq : \A q \in Publisher : handing[q] # s
                 THEN late \cup {e} ELSE late
      /\ UNCHANGED <<seq, class, queue, socket, since, delivered, lastSeq, gap, applied, owed,
                     spared, dropped, stale>>
  BY DEF FanOut, socketVars, tabVars, connectionHistory
<1>1. /\ seq \in Nat /\ handing \in [Publisher -> 0..MaxSeq] /\ e \in Seqs /\ e \in Nat
      /\ owed \in Nat /\ loop \in Seq(Seqs) /\ queue \in Seq(Seqs) /\ e <= seq
      /\ On(loop) \subseteq Nat /\ On(queue) \subseteq Nat /\ dropped \subseteq Nat
  BY <1>0, OnType DEF TypeOK, Seqs, HandedOnce
<1>2. late \subseteq late' /\ (Overtaken(e) => e \in late')
  BY <1>0 DEF Overtaken, Held
<1>3. /\ e \in Held /\ e \notin Held'
      /\ \A s \in 1..seq : s \in Held' <=> s \in Held /\ s # e
  <2>1. \A q \in Publisher : handing'[q] = IF q = p THEN 0 ELSE handing[q]
    BY <1>0, <1>1
  <2>2. e # 0 /\ \A q \in Publisher : q # p => handing[q] # e
    BY <1>0 DEF HandedOnce
  <2>3. e \in Held /\ e \notin Held'
    BY <2>1, <2>2 DEF Held
  <2>4. ASSUME NEW s \in 1..seq PROVE s \in Held' <=> s \in Held /\ s # e
    <3>1. s # 0
      OBVIOUS
    <3> QED BY <2>1, <2>2, <3>1 DEF Held
  <2> QED BY <2>3, <2>4
<1>4. /\ On(loop') = IF socket = "closed" THEN On(loop) ELSE On(loop) \cup {e}
      /\ Waiting \subseteq Waiting' /\ (socket # "closed" => e \in Waiting')
  <2>1. On(Append(loop, e)) = On(loop) \cup {e}
    BY <1>1, OnAppend
  <2> HIDE DEF e, Whereabouts, IInv
  <2>2. CASE socket = "closed"
    BY <1>0, <2>2 DEF Waiting
  <2>3. CASE socket # "closed"
    BY <1>0, <2>1, <2>3 DEF Waiting
  <2> QED BY <2>2, <2>3
<1>5. ASSUME NEW a \in Waiting PROVE Before(a, e, late')
  <2>1. a <= seq /\ a \notin Held /\ a \in Nat
    BY <1>1 DEF HandedOnce, Waiting
  <2>2. e < a => Overtaken(e)
    BY <1>1, <2>1 DEF Overtaken
  <2> QED BY <1>1, <1>2, <1>3, <2>1, <2>2 DEF Before
<1>6. Lined'
  <2>1. Sorted(loop, late') /\ Sorted(queue, late') /\ Between(queue, loop, late')
    BY <1>2, LatesGrow DEF Lined
  <2>2. \A a \in On(loop) : Before(a, e, late')
    BY <1>5 DEF Waiting
  <2>3. \A a \in On(queue) : Before(a, e, late')
    BY <1>5 DEF Waiting
  <2>4. Sorted(loop', late')
    BY <1>0, <1>1, <2>1, <2>2, OnAppend
  <2>5. Between(queue, loop', late')
    BY <1>4, <2>1, <2>3 DEF Between
  <2> QED BY <1>0, <2>1, <2>4, <2>5 DEF Lined
<1>7. HandedOnce'
  <2>1. /\ \A q \in Publisher : handing'[q] <= seq'
        /\ \A q, r \in Publisher : q # r /\ handing'[q] # 0 => handing'[q] # handing'[r]
    BY <1>0, <1>1 DEF HandedOnce
  <2>2. ASSUME NEW s \in Waiting' PROVE s <= seq' /\ s \notin Held'
    <3>1. CASE s = e
      BY <1>0, <1>1, <1>3, <3>1
    <3>2. CASE s # e
      <4>1. s \in Waiting
        BY <1>0, <1>4, <3>2 DEF Waiting
      <4>2. s <= seq /\ s \notin Held /\ s \in Nat
        BY <1>1, <4>1 DEF HandedOnce, Waiting
      <4>3. s # 0
        <5>1. s \in Seqs
          BY <1>1, <4>1, OnType DEF Waiting
        <5> QED BY <5>1 DEF Seqs
      <4> QED BY <1>0, <1>1, <4>2, <4>3 DEF Held
    <3> QED BY <3>1, <3>2
  <2> QED BY <2>1, <2>2 DEF HandedOnce
<1>8. Reach'
  BY <1>0 DEF Reach
<1>9. Accounted'
  <2> SUFFICES ASSUME NEW s \in (owed + 1)..seq, Visible(s)
               PROVE  Gone(s)' \/ (s \in Held' /\ Overtaken(s)') \/ Coming(s)'
    BY <1>0 DEF Accounted, Visible
  <2>1. s \in 1..seq
    BY <1>1
  <2>2. Gone(s) \/ (s \in Held /\ Overtaken(s)) \/ Coming(s)
    BY DEF Accounted
  <2>3. CASE Gone(s)
    BY <1>0, <1>2, <2>3 DEF Gone
  <2>4. CASE s \in Held /\ Overtaken(s)
    <3>1. CASE s = e
      BY <1>2, <2>4, <3>1 DEF Gone
    <3>2. CASE s # e
      <4>1. PICK t \in (s + 1)..seq : t \notin Held
        BY <2>4 DEF Overtaken
      <4>2. t \in 1..seq /\ t \in (s + 1)..seq'
        BY <1>0, <1>1, <2>1
      <4>3. Overtaken(s)'
        BY <1>3, <4>1, <4>2 DEF Overtaken
      <4> QED BY <1>3, <2>1, <2>4, <3>2, <4>3
    <3> QED BY <3>1, <3>2
  <2>5. CASE Coming(s)
    BY <1>0, <1>3, <1>4, <2>1, <2>5 DEF Coming
  <2> QED BY <2>2, <2>3, <2>4, <2>5
<1>10. Older'
  BY <1>0, <1>2 DEF Older
<1> QED BY <1>6, <1>7, <1>8, <1>9, <1>10

LEMMA OfferWhere ==
  ASSUME IInv, Whereabouts, Offer
  PROVE  Whereabouts'
<1> USE DEF IInv, Whereabouts
<1> DEFINE e == Head(loop)
<1>0. /\ socket = "live" /\ loop # <<>> /\ loop' = Tail(loop)
      /\ UNCHANGED <<seq, class, handing, socket, since, delivered, lastSeq, applied, owed,
                     late, stale>>
  BY DEF Offer, tabVars
<1>1. /\ seq \in Nat /\ e \in Seqs /\ owed \in Nat /\ loop \in Seq(Seqs) /\ queue \in Seq(Seqs)
      /\ loop' \in Seq(Seqs) /\ dropped \subseteq Nat
      /\ On(queue) \subseteq Nat /\ On(loop) \subseteq Nat /\ Len(queue) \in Nat
  BY <1>0, QueueStep, OnType DEF TypeOK, Seqs
<1>2. /\ On(loop) = {e} \cup On(loop') /\ Sorted(loop', late)
      /\ \A b \in On(loop') : Before(e, b, late)
  BY <1>0, <1>1, OnTail DEF Lined
<1>3. ASSUME NEW kept \in Seq(Seqs), On(kept) \subseteq On(queue), Sorted(kept, late),
             On(queue) \subseteq On(kept) \cup dropped', dropped \subseteq dropped',
             queue' = Append(kept, e), \A s \in dropped' : s < seq \/ late # {}
      PROVE  Whereabouts'
  <2>1. On(queue') = On(kept) \cup {e}
    BY <1>1, <1>3, OnAppend
  <2>2. \A a \in On(kept) : Before(a, e, late)
    BY <1>2, <1>3 DEF Lined, Between
  <2>3. Sorted(queue', late)
    BY <1>1, <1>3, <2>2, OnAppend
  <2>4. Between(queue', loop', late)
    BY <1>2, <1>3, <2>1 DEF Lined, Between
  <2>5. Lined'
    BY <1>0, <1>2, <2>3, <2>4 DEF Lined
  <2>6. Waiting' \subseteq Waiting /\ Waiting \subseteq Waiting' \cup dropped' /\ Held' = Held
    BY <1>0, <1>2, <1>3, <2>1 DEF Waiting, Held
  <2>7. HandedOnce'
    BY <1>0, <2>6 DEF HandedOnce
  <2>8. Reach'
    BY <1>0 DEF Reach
  <2>9. Accounted'
    <3> SUFFICES ASSUME NEW s \in (owed + 1)..seq, Visible(s)
                 PROVE  Gone(s)' \/ (s \in Held' /\ Overtaken(s)') \/ Coming(s)'
      BY <1>0 DEF Accounted, Visible
    <3>1. Gone(s) \/ (s \in Held /\ Overtaken(s)) \/ Coming(s)
      BY DEF Accounted
    <3>2. Gone(s) => Gone(s)'
      BY <1>0, <1>3 DEF Gone
    <3>3. Overtaken(s) => Overtaken(s)'
      BY <1>0, <2>6 DEF Overtaken
    <3>4. Coming(s) => Coming(s)' \/ s \in dropped'
      BY <1>0, <2>6 DEF Coming
    <3> QED BY <2>6, <3>1, <3>2, <3>3, <3>4 DEF Gone
  <2>10. Older'
    BY <1>0, <1>3 DEF Older
  <2> QED BY <2>5, <2>7, <2>8, <2>9, <2>10
<1>4. CASE Len(queue) = QueueSize
  <2> DEFINE h == Head(queue)
  <2>1. queue # <<>>
    BY <1>4, EmptyQueue
  <2>2. queue' = Append(Tail(queue), e) /\ dropped' = dropped \cup {h}
    BY <1>4 DEF Offer
  <2>3. /\ On(queue) = {h} \cup On(Tail(queue)) /\ Sorted(Tail(queue), late)
        /\ Tail(queue) \in Seq(Seqs)
    BY <1>1, <2>1, OnTail, QueueStep DEF Lined
  <2>4. h < seq \/ late # {}
    <3>1. Before(h, e, late)
      BY <1>2, <2>3 DEF Lined, Between
    <3>2. e <= seq /\ e \in Nat /\ h \in Nat
      BY <1>1, <1>2, <2>3 DEF HandedOnce, Waiting, Seqs
    <3> QED BY <1>1, <3>1, <3>2 DEF Before
  <2>5. \A s \in dropped' : s < seq \/ late # {}
    BY <2>2, <2>4 DEF Older
  <2> HIDE DEF Whereabouts, h, e
  <2> QED BY <1>3, <2>2, <2>3, <2>5
<1>5. CASE Len(queue) # QueueSize
  <2>1. queue' = Append(queue, e) /\ dropped' = dropped
    BY <1>5 DEF Offer
  <2>2. Sorted(queue, late) /\ \A s \in dropped' : s < seq \/ late # {}
    BY <2>1 DEF Lined, Older
  <2> HIDE DEF Whereabouts, e
  <2> QED BY <1>1, <1>3, <2>1, <2>2
<1> QED BY <1>4, <1>5

(* A connection that opens or closes has nothing on its way. *)
LEMMA EmptyWhere ==
  ASSUME IInv, Whereabouts, loop' = <<>>, queue' = <<>>, socket' # "live",
         socket' = "subscribed" => since' = lastSeq',
         UNCHANGED <<seq, class, handing, owed, late>>,
         \/ UNCHANGED <<lastSeq, applied, dropped, stale>>
         \/ lastSeq' = 0 /\ dropped' = {}
  PROVE  Whereabouts'
<1> USE DEF IInv, Whereabouts
<1>1. seq \in Nat /\ owed \in Nat /\ lastSeq \in Nat /\ delivered \in Nat
  BY DEF TypeOK
<1>2. Lined' /\ HandedOnce' /\ Waiting' = {} /\ Held' = Held
  <2>1. On(loop') = {} /\ On(queue') = {} /\ Sorted(loop', late) /\ Sorted(queue', late)
    BY OnNothing
  <2> QED BY <2>1 DEF Lined, Between, HandedOnce, Waiting, Held
<1>3. Reach'
  BY <1>1 DEF Reach
<1>4. Older'
  BY DEF Older
<1>5. Accounted'
  <2> SUFFICES ASSUME NEW s \in (owed + 1)..seq, Visible(s)
               PROVE  Gone(s)' \/ (s \in Held' /\ Overtaken(s)') \/ Coming(s)'
    BY DEF Accounted, Visible
  <2>1. CASE lastSeq' = 0 /\ dropped' = {}
    BY <1>1, <2>1 DEF Coming
  <2>2. CASE UNCHANGED <<lastSeq, applied, dropped, stale>>
    <3>1. Gone(s) \/ (s \in Held /\ Overtaken(s)) \/ Coming(s)
      BY DEF Accounted
    <3>2. Gone(s) => Gone(s)'
      BY <2>2 DEF Gone
    <3>3. Overtaken(s) => Overtaken(s)'
      BY <1>2 DEF Overtaken
    <3>4. Coming(s) => Coming(s)'
      BY <1>1, <2>2 DEF Coming, Reach
    <3> QED BY <1>2, <3>1, <3>2, <3>3, <3>4
  <2> QED BY <2>1, <2>2
<1> QED BY <1>2, <1>3, <1>4, <1>5

LEMMA RestartWhere == ASSUME IInv, Whereabouts, Restart PROVE Whereabouts'
<1>1. /\ loop' = <<>> /\ queue' = <<>> /\ socket' = "closed" /\ seq' = 0 /\ owed' = 0
      /\ handing' = [p \in Publisher |-> 0] /\ dropped' = {} /\ stale' = lastSeq
      /\ lastSeq' = lastSeq
  BY DEF Restart, Close
<1>2. On(loop') = {} /\ On(queue') = {} /\ Sorted(loop', late') /\ Sorted(queue', late')
  BY <1>1, OnNothing
<1>3. Lined' /\ HandedOnce'
  BY <1>1, <1>2 DEF Lined, Between, HandedOnce, Waiting
<1>4. Reach' /\ Accounted' /\ Older'
  BY <1>1 DEF Reach, Accounted, Older, IInv, TypeOK
<1> QED BY <1>3, <1>4 DEF Whereabouts

LEMMA ReplayWhere == ASSUME IInv, Whereabouts, Replay PROVE Whereabouts'
<1> USE DEF IInv, Whereabouts
<1>0. /\ socket = "subscribed" /\ socket' = "live" /\ delivered' = Reached /\ Apply(Trimmed)
      /\ owed' = (IF since = 0 THEN seq ELSE IF Gap THEN Oldest - 1 ELSE owed)
      /\ UNCHANGED <<seq, class, handing, loop, queue, since, dropped, late, stale>>
  BY DEF Replay, busVars
<1>1. /\ seq \in Nat /\ owed \in Nat /\ lastSeq \in Nat /\ since \in Nat /\ stale \in Nat
      /\ Oldest \in Nat /\ since = lastSeq
  BY <1>0, BufferedType DEF TypeOK, Reach
<1>2. /\ Replayed = {s \in Oldest..seq : s > since /\ Visible(s)}
      /\ Replayed \in SUBSET Seqs /\ Trimmed \subseteq Replayed /\ Reached \in Nat
      /\ since # 0 => Trimmed = Replayed
  BY TrimmedType DEF Replayed, Buffered, Trimmed
<1>3. /\ applied' = applied \cup Trimmed
      /\ lastSeq' = IF Trimmed # {} THEN Newest(Trimmed) ELSE lastSeq
  <2>1. {s \in Trimmed : s > lastSeq} = Trimmed
    BY <1>1, <1>2
  <2> QED BY <1>0, <2>1 DEF Apply
<1>4. \A s \in Replayed : s <= Reached /\ s <= seq /\ s \in Nat
  <2>1. Replayed # {} => \A s \in Replayed : s <= Newest(Replayed)
    BY <1>2, NewestIsMax
  <2> QED BY <1>1, <1>2, <2>1 DEF Reached, Seqs
<1>5. Reached = since \/ Reached \in Replayed
  BY <1>2, NewestIsMax DEF Reached
<1>6. lastSeq' = lastSeq \/ lastSeq' \in Replayed
  BY <1>2, <1>3, NewestIsMax
<1>7. since <= Reached
  BY <1>1, <1>2, <1>5
<1>8. Reach'
  <2>1. lastSeq' <= Reached
    BY <1>1, <1>4, <1>6, <1>7
  <2>2. lastSeq' <= seq \/ lastSeq' <= stale
    BY <1>4, <1>6 DEF Reach
  <2>3. Reached <= seq \/ Reached <= stale
    BY <1>1, <1>4, <1>5 DEF Reach
  <2> QED BY <1>0, <2>1, <2>2, <2>3 DEF Reach
<1>9. Lined' /\ HandedOnce' /\ Older' /\ Held' = Held
  BY <1>0 DEF Lined, HandedOnce, Older, Waiting, Held
<1>10. Accounted'
  <2> SUFFICES ASSUME NEW s \in (owed' + 1)..seq, Visible(s)
               PROVE  Gone(s)' \/ (s \in Held' /\ Overtaken(s)') \/ Coming(s)'
    BY <1>0 DEF Accounted, Visible
  <2>1. owed' \in Nat /\ since # 0
    BY <1>0, <1>1, BufferedType
  <2>2. ASSUME s > since, s >= Oldest PROVE Gone(s)'
    <3>1. s \in Trimmed
      BY <1>1, <1>2, <2>1, <2>2
    <3> QED BY <1>3, <3>1 DEF Gone
  <2>3. CASE Gap
    BY <1>0, <1>1, <2>1, <2>2, <2>3 DEF Gap
  <2>4. CASE ~Gap
    <3>1. owed' = owed /\ Oldest <= since + 1
      BY <1>0, <1>1, <2>1, <2>4 DEF Gap
    <3>2. Gone(s) \/ (s \in Held /\ Overtaken(s)) \/ Coming(s)
      BY <3>1 DEF Accounted
    <3>3. Gone(s) => Gone(s)'
      BY <1>0, <1>3 DEF Gone
    <3>4. Overtaken(s) => Overtaken(s)'
      BY <1>0, <1>9 DEF Overtaken
    <3>5. Coming(s) => s > since /\ s >= Oldest
      BY <1>0, <1>1, <3>1 DEF Coming
    <3> QED BY <1>9, <2>2, <3>2, <3>3, <3>4, <3>5
  <2> QED BY <2>3, <2>4
<1> QED BY <1>8, <1>9, <1>10

LEMMA TakeWhere == ASSUME IInv, Whereabouts, Take PROVE Whereabouts'
<1> USE DEF IInv, Whereabouts
<1> DEFINE h == Head(queue)
           now == h > delivered /\ Visible(h)
<1>0. /\ socket = "live" /\ queue # <<>> /\ queue' = Tail(queue)
      /\ delivered' = (IF h > delivered THEN h ELSE delivered)
      /\ Apply(IF now THEN {h} ELSE {})
      /\ UNCHANGED <<seq, class, handing, loop, socket, since, owed, dropped, late, stale>>
  BY DEF Take, busVars, historyVars, connectionHistory
<1>1. /\ seq \in Nat /\ owed \in Nat /\ lastSeq \in Nat /\ delivered \in Nat /\ stale \in Nat
      /\ h \in Seqs /\ h \in Nat /\ queue \in Seq(Seqs) /\ lastSeq <= delivered
  BY <1>0, QueueStep DEF TypeOK, Seqs, Reach
<1>2. /\ On(queue) = {h} \cup On(queue') /\ Sorted(queue', late)
      /\ \A b \in On(queue') : Before(h, b, late)
  BY <1>0, <1>1, OnTail DEF Lined
<1>3. /\ now => applied' = applied \cup {h} /\ lastSeq' = h
      /\ ~now => applied' = applied /\ lastSeq' = lastSeq
  <2>1. CASE now
    <3>1. {s \in {h} : s > lastSeq} = {h}
      BY <1>1, <2>1
    <3>2. Newest({h}) = h
      <4>1. {h} \in SUBSET Seqs /\ {h} # {}
        BY <1>1
      <4>2. Newest({h}) \in {h}
        BY <4>1, NewestIsMax
      <4> QED BY <4>2
    <3> HIDE DEF h
    <3> QED BY <1>0, <2>1, <3>1, <3>2 DEF Apply
  <2>2. CASE ~now
    <3>1. {s \in {} : s > lastSeq} = {}
      OBVIOUS
    <3> QED BY <1>0, <2>2, <3>1 DEF Apply
  <2> QED BY <2>1, <2>2
<1>4. h <= seq /\ h \notin Held
  BY <1>2 DEF HandedOnce, Waiting
<1>5. Lined' /\ HandedOnce' /\ Older' /\ Held' = Held
  BY <1>0, <1>2 DEF Lined, Between, HandedOnce, Waiting, Older, Held
<1>6. Reach'
  BY <1>0, <1>1, <1>3, <1>4 DEF Reach
<1>7. Accounted'
  <2> SUFFICES ASSUME NEW s \in (owed + 1)..seq, Visible(s)
               PROVE  Gone(s)' \/ (s \in Held' /\ Overtaken(s)') \/ Coming(s)'
    BY <1>0 DEF Accounted, Visible
  <2>1. Gone(s) \/ (s \in Held /\ Overtaken(s)) \/ Coming(s)
    BY DEF Accounted
  <2>2. applied \subseteq applied'
    BY <1>3
  <2>3. Gone(s) => Gone(s)'
    BY <1>0, <2>2 DEF Gone
  <2>4. Overtaken(s) => Overtaken(s)'
    BY <1>0, <1>5 DEF Overtaken
  <2>5. CASE Coming(s)
    <3>1. s > delivered /\ (s \in Held \/ s \in On(loop) \/ s \in On(queue)) /\ s \in Nat
      BY <1>0, <1>1, <2>5 DEF Coming, Waiting
    <3>2. CASE s = h
      BY <1>3, <3>1, <3>2 DEF Gone
    <3>3. CASE s > delivered' /\ s # h
      BY <1>0, <1>2, <1>5, <3>1, <3>3 DEF Coming, Waiting
    <3>4. CASE ~(s > delivered') /\ s # h
      <4>1. delivered' = h /\ s < h
        BY <1>0, <1>1, <3>1, <3>4
      <4>2. CASE s \in Held
        BY <1>1, <1>4, <1>5, <2>4, <4>1, <4>2 DEF Overtaken
      <4>3. CASE s \in On(loop) \/ s \in On(queue')
        <5>1. Before(h, s, late)
          BY <1>2, <4>3 DEF Lined, Between
        <5> QED BY <1>0, <4>1, <5>1 DEF Before, Gone
      <4> QED BY <1>2, <3>1, <3>4, <4>2, <4>3
    <3> QED BY <3>2, <3>3, <3>4
  <2> QED BY <1>5, <2>1, <2>3, <2>4, <2>5
<1> QED BY <1>5, <1>6, <1>7

LEMMA NextWhere == ASSUME IInv, Whereabouts, [Next]_vars PROVE Whereabouts'
<1>1. ASSUME NEW p \in Publisher, FanOut(p) \/ \E c \in Classes : Number(p, c) PROVE Whereabouts'
  BY <1>1, FanOutWhere, NumberWhere
<1>2. CASE Connect
  <2>1. /\ loop' = <<>> /\ queue' = <<>> /\ socket' = "subscribed" /\ since' = lastSeq'
        /\ UNCHANGED <<seq, class, handing, owed, late, lastSeq, applied, dropped, stale>>
    BY <1>2 DEF Connect, tabVars, historyVars, connectionHistory
  <2> QED BY <2>1, EmptyWhere
<1>3. CASE TakeClosed \/ Disconnect
  <2>1. /\ loop' = <<>> /\ queue' = <<>> /\ socket' = "closed"
        /\ UNCHANGED <<seq, class, handing, owed, late, lastSeq, applied, dropped, stale>>
    BY <1>3 DEF TakeClosed, Disconnect, Close, tabVars, historyVars, connectionHistory
  <2> QED BY <2>1, EmptyWhere
<1>4. CASE Reload
  <2>1. /\ loop' = <<>> /\ queue' = <<>> /\ socket' = "closed" /\ lastSeq' = 0 /\ dropped' = {}
        /\ UNCHANGED <<seq, class, handing, owed, late>>
    BY <1>4 DEF Reload, Close
  <2> QED BY <2>1, EmptyWhere
<1>5. CASE UNCHANGED vars
  BY <1>5 DEF vars, busVars, socketVars, tabVars, historyVars, connectionHistory, Whereabouts,
     Lined, HandedOnce, Reach, Accounted, Older, Waiting, Held, Visible, Gone, Coming, Overtaken
<1> QED BY <1>1, <1>2, <1>3, <1>4, <1>5, OfferWhere, ReplayWhere, TakeWhere, RestartWhere DEF Next

(* Every event a tab is owed is somewhere: with the tab, given up by its    *)
(* full queue, late, known from before a restart, in the hands of a thread *)
(* that has been overtaken, or still to come.                              *)
THEOREM EventsAccounted == Spec => []Whereabouts
<1>1. Init => Whereabouts
  BY InitWhere
<1>2. IInv /\ Whereabouts /\ [Next]_vars => Whereabouts'
  BY NextWhere
<1> QED BY <1>1, <1>2, StreamInvariant, PTL DEF Spec

LEMMA NothingComing ==
  ASSUME Drained, NEW s
  PROVE  s \notin Waiting /\ (s # 0 => s \notin Held)
  BY OnNothing DEF Drained, Waiting, Held

(* A tab that has been sent all there is misses nothing it is owed but what *)
(* a thread handed over after a newer event, and what has a number it had  *)
(* seen before the server restarted (_backlog, replay, the live loop).     *)
THEOREM HolesAreExplained == Spec => []HolesExplained
<1>1. IInv /\ Whereabouts => HolesExplained
  <2> SUFFICES ASSUME IInv, Whereabouts, Drained, NEW s \in Owed
               PROVE  s \in applied \/ s \in late \/ s <= stale
    BY DEF HolesExplained
  <2>1. s \in (owed + 1)..seq /\ Visible(s) /\ s \notin dropped /\ s # 0
    BY DEF Owed, Visible, IInv, TypeOK
  <2>2. Gone(s) \/ (s \in Held /\ Overtaken(s)) \/ Coming(s)
    BY <2>1 DEF Whereabouts, Accounted
  <2>3. s \notin Held /\ ~Coming(s)
    BY <2>1, NothingComing DEF Coming, Drained
  <2> QED BY <2>1, <2>2, <2>3 DEF Gone
<1> QED BY <1>1, StreamInvariant, EventsAccounted, PTL

(* However slow the tab, the last event of all reaches it when no thread    *)
(* overtook another: a full queue gives up what is older (_offer).         *)
THEOREM NewestReachesTab == Spec => []NewestArrives
<1>1. IInv /\ Whereabouts => NewestArrives
  <2> SUFFICES ASSUME IInv, Whereabouts, Drained, late = {}, seq > owed, seq > stale,
                      class[seq] \in Seen
               PROVE  seq \in applied
    BY DEF NewestArrives
  <2>1. seq \in (owed + 1)..seq /\ Visible(seq) /\ seq # 0 /\ ~(seq < seq) /\ ~(seq <= stale)
    BY DEF Visible, IInv, TypeOK
  <2>2. Gone(seq) \/ (seq \in Held /\ Overtaken(seq)) \/ Coming(seq)
    BY <2>1 DEF Whereabouts, Accounted
  <2>3. seq \notin Held /\ ~Coming(seq) /\ seq \notin dropped
    BY <2>1, NothingComing DEF Coming, Drained, Whereabouts, Older
  <2> QED BY <2>1, <2>2, <2>3 DEF Gone
<1> QED BY <1>1, StreamInvariant, EventsAccounted, PTL
=============================================================================
