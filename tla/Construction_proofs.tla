-------------------------- MODULE Construction_proofs --------------------------
(***************************************************************************)
(* Proofs about the construction of a subject, for any tabs, gestures and  *)
(* documents: its types, that staleness is told, that what a person closed *)
(* stays closed, that nothing else closes itself, and that a move is       *)
(* always open.                                                            *)
(***************************************************************************)
EXTENDS Construction, SequenceTheorems, TLAPS

USE BoundsAssumption, NamesAssumption

(***************************************************************************)
(* Where each kind of process may be                                       *)
(***************************************************************************)
AtTab(r) == /\ r.at \in {"idle", "left", "save", "reopen", "write", "reseal"}
            /\ r.next = "idle"
            /\ r.at = "reseal" => r.art = "bank"
            /\ r.at = "write" => r.src # None /\ (r.flag => r.art = "bank")

Makes(j) == IF j = "build_kg" THEN "graph" ELSE "types"

AtBuild(j, r) == /\ r.at \in {"idle", "docs", "read", "put", "built", "retire", "reopen", "save"}
                 /\ r.next = "idle"
                 /\ r.at # "idle" => r.art = Makes(j)
                 /\ r.at = "save" => r.copy[r.art] = None

AtCollect(r) ==
  /\ r.at \in {"idle", "review", "judged", "raw", "relabel", "reopen", "save", "reseal", "record",
               "advance", "docs", "read", "put", "built", "index", "close"}
  /\ r.at \in {"docs", "read", "put", "built", "index", "close"} => r.art = "bank"
  /\ r.at \in {"reopen", "reseal"} => r.art = "graph"
  /\ r.at = "reopen" => r.next \in {"reseal", "record"}
  /\ r.at = "save" => \/ r.art = "graph" /\ r.copy["graph"] = None /\ r.next \in {"reseal", "record"}
                      \/ r.art = "graph" /\ r.copy["graph"] # None /\ r.next = "record"
                      \/ r.art = "bank" /\ r.copy["bank"] # None /\ r.next = "idle"
  /\ r.at \in {"judged", "raw", "relabel"} => r.print # None
  /\ r.at = "relabel" => r.src # None

AtTag(r) == /\ r.at \in {"idle", "begin", "tagging", "patching", "reseal", "save"}
            /\ r.at # "idle" => r.art = "bank"
            /\ r.at \in {"tagging", "patching"} => r.src # None
            /\ r.at = "save" => r.copy["bank"] # None /\ r.next = "idle"

Shape(p) == /\ p \in Tab => AtTab(proc[p])
            /\ p \in {"build_kg", "build_profile"} => AtBuild(p, proc[p])
            /\ p = "collect" => AtCollect(proc[p])
            /\ p = "tag" => AtTag(proc[p])

(***************************************************************************)
(* What a process has in hand, and what is there because it came so far    *)
(***************************************************************************)
Fine(e) == /\ e.op = "save" => /\ e.art = "types" /\ e.text # None /\ e.base # None
                               /\ e.text.docs = e.base.docs /\ e.text.id <= last["types"]
           /\ e.op = "edit" => e.art # "types" /\ Built(e.art)
FineErrand == {e \in Errand : Fine(e)}

Fresh(a, c) == c # None => c.id <= last[a]
FineReview(rv) == \A a \in Artifact : rv[a] # None => /\ DOMAIN rv[a].up = Upstream(a)
                                                      /\ rv[a].hash.id <= last[a]

InHand(p) ==
  LET r == proc[p] IN
  /\ r.todo \in Seq(FineErrand)
  /\ r.copy # None => FineReview(r.copy)
  /\ r.at \in {"read", "put", "built"} => r.seen # None
  /\ r.at = "read" => r.seen <= docs[Slot(r.art)]
  /\ r.at = "put" => r.src # None /\ r.seen <= r.src.docs /\ r.src.docs <= docs[Slot(r.art)]
  /\ r.at = "patching" => r.src # None /\ r.src.id <= last["bank"]

There(p) ==
  LET r == proc[p] IN
  /\ p = "collect" /\ r.at # "idle" => Built("types") /\ Built("graph")
  /\ p = "collect" /\ r.at \in {"index", "close"} => Built("bank")
  /\ p = "tag" /\ r.at # "idle" => Built("bank")
  /\ p \in Tab /\ r.at = "reseal" => Built("bank")
  /\ r.at \in {"built", "retire"} => IF r.art = "bank" THEN curated["bank"] # None
                                                       ELSE draft[r.art] # None

(***************************************************************************)
(* What is true of an artifact a process holds and no other has touched    *)
(***************************************************************************)
\* p gives back an approval that its own write has taken away.
Gives(p, a) == /\ p \in {"collect", "tag"} /\ proc[p].art = a
               /\ \/ proc[p].at = "reseal"
                  \/ proc[p].at = "patching" /\ proc[p].flag
                  \/ proc[p].at \in {"reopen", "save"} /\ proc[p].next = "reseal"
                  \/ /\ proc[p].at = "save" /\ proc[p].copy[a] # None
                     /\ ~(p = "collect" /\ a = "bank")
Withdraws(p, a) == /\ proc[p].art = a
                   /\ \/ proc[p].at = "reopen"
                      \/ proc[p].at = "save" /\ proc[p].copy[a] = None
Replaces(p, a) == proc[p].art = a /\ proc[p].at \in {"built", "retire"}

Sure(p, a) ==
  LET r == proc[p] IN
  /\ r.at \in {"write", "relabel", "tagging", "patching"} => r.src = Current(a)
  /\ r.at \in {"raw", "relabel", "tagging", "patching"} => (r.flag <=> Current(a) \in closed[a])
  /\ r.at = "patching" => ~Sealed(a)
  /\ r.at = "save" /\ a # r.art => r.copy[a] = review[a]
  /\ r.at = "save" /\ a = r.art /\ r.copy[a] # None => r.copy[a].hash = Current(a)
  /\ Gives(p, a) => Current(a) \in closed[a]
  /\ Withdraws(p, a) /\ ~Gives(p, a) => Current(a) \notin closed[a]
  /\ r.at \in {"built", "retire"} /\ a # "bank" /\ curated[a] # None =>
       /\ draft[a] \notin closed[a]
       /\ review[a] # None => review[a].hash # draft[a]
  /\ r.at = "built" /\ a = "bank" => /\ r.seen <= curated[a].docs
                                     /\ curated[a].docs <= docs[Slot(a)]
  /\ r.at = "built" /\ a # "bank" => r.seen <= draft[a].docs /\ draft[a].docs <= docs[Slot(a)]
  /\ r.at = "retire" => /\ built[a] # None /\ built[a] <= draft[a].docs
                        /\ draft[a].docs <= docs[Slot(a)]

(***************************************************************************)
(* What is true of an artifact no two processes were on at once            *)
(***************************************************************************)
Dated(a) == Built(a) => \/ \E p \in Proc : Replaces(p, a)
                        \/ /\ built[a] # None /\ built[a] <= Current(a).docs
                           /\ Current(a).docs <= docs[Slot(a)]
Agreed(a) == \/ \E p \in Proc : Gives(p, a)
             \/ a = "types" /\ \E p \in Proc : Withdraws(p, a)
             \/ Sealed(a) <=> Current(a) \in closed[a]
Sound(a) == a \notin crossed => Dated(a) /\ Agreed(a)

(***************************************************************************)
(* The invariant                                                           *)
(***************************************************************************)
Typed(p) == /\ proc[p] \in Process
            /\ proc[p].at = "save" <=> proc[p].copy # None
            /\ proc[p].at \in {"write", "relabel", "tagging", "patching"} => proc[p].src # None
            /\ proc[p].at \in {"tagging", "patching"} => proc[p].seen \in 0..Saves
            /\ proc[p].todo # <<>> => p \in Tab

Good(p) == /\ Typed(p) /\ Shape(p) /\ InHand(p) /\ There(p)
           /\ \A a \in Held(p) \ crossed : Sure(p, a)

\* The names of contents are those given so far.
FilesOK == /\ docs \in [{"corpus", "exemplars"} -> Nat]
           /\ curated \in [Artifact -> Content \cup {None}]
           /\ draft \in [Artifact -> Content \cup {None}]
           /\ built \in [Artifact -> Nat \cup {None}]
           /\ review \in Review /\ last \in [Artifact -> Nat]
           /\ closed \in [Artifact -> SUBSET Content] /\ crossed \in SUBSET Artifact
           /\ FineReview(review)
           /\ \A a \in Artifact : /\ Fresh(a, curated[a]) /\ Fresh(a, draft[a])
                                  /\ \A c \in closed[a] : c.id <= last[a]

TabOK(t) == /\ Fresh("types", tab[t].text) /\ Fresh("types", tab[t].known)
            /\ Fresh("types", tab[t].base)
            /\ tab[t].text # None => /\ tab[t].at = "here" /\ tab[t].base # None
                                     /\ tab[t].text.docs = tab[t].base.docs
            /\ tab[t].typed => tab[t].text # None
TabsOK == tab \in [Tab -> Editor] /\ \A t \in Tab : TabOK(t)

IInv == /\ FilesOK /\ TabsOK /\ record \in Stamp \cup {None} /\ gestures \in 0..Gestures
        /\ proc \in [Proc -> Process]
        /\ \A p \in Proc : Good(p)
        /\ \A a \in Artifact : Sound(a)

-----------------------------------------------------------------------------
(* Basics *)

LEMMA CurrentType == ASSUME FilesOK, NEW a \in Artifact
                     PROVE  /\ Current(a) \in Content \cup {None} /\ Fresh(a, Current(a))
                            /\ Built(a) => Current(a) \in Content /\ Current(a).id <= last[a]
  BY DEF FilesOK, Current, Fresh, Built

LEMMA SeqMono == ASSUME NEW S, NEW T, S \subseteq T, NEW s \in Seq(S) PROVE s \in Seq(T)
<1>1. s \in [1..Len(s) -> S] /\ Len(s) \in Nat
  BY LenProperties
<1> QED BY <1>1, IsASeq

(* More contents have been made, of some artifact. *)
Later == last' \in [Artifact -> Nat] /\ \A a \in Artifact : last[a] <= last'[a]

(* What else changes files and names only adds to. *)
Grows == /\ Later /\ crossed \subseteq crossed'
         /\ \A s \in {"corpus", "exemplars"} : docs[s] <= docs'[s]
         /\ \A a \in Artifact : /\ Built(a) => Built(a)'
                                /\ draft[a] # None => draft'[a] # None
         /\ curated["bank"] # None => curated'["bank"] # None
Same(a) == /\ curated'[a] = curated[a] /\ draft'[a] = draft[a]
           /\ review'[a] = review[a] /\ closed'[a] = closed[a]

LEMMA FineGrows == ASSUME Grows, FilesOK, FilesOK', NEW s \in Seq(FineErrand)
                   PROVE  s \in Seq(FineErrand')
<1>1. FineErrand \subseteq FineErrand'
  BY SMTT(20) DEF FineErrand, Fine, Grows, Errand, Content, FilesOK, Later
<1> QED BY <1>1, SeqMono

LEMMA ReviewGrows == ASSUME Grows, FilesOK, FilesOK', NEW rv \in Review, FineReview(rv)
                     PROVE  FineReview(rv)'
  BY DEF FineReview, Grows, FilesOK, Review, Entry, Content, Later

(* To all but the tagging the bank is as it was when it is only no longer  *)
(* a content somebody closed.                                              *)
Kept(q, a) == /\ curated'[a] = curated[a] /\ draft'[a] = draft[a] /\ review'[a] = review[a]
              /\ \/ closed'[a] = closed[a]
                 \/ q # "tag" /\ a = "bank" /\ closed'[a] \subseteq closed[a]

(* A process whose artifacts nobody touches keeps what it knows. *)
LEMMA OtherKeepsThose ==
    ASSUME FilesOK, FilesOK', NEW q \in Proc, Good(q), proc'[q] = proc[q], Grows,
           \A a \in Held(q) \ crossed' : Kept(q, a),
           proc[q].at = "retire" => built'[proc[q].art] = built[proc[q].art]
    PROVE  Good(q)'
<1>1. Typed(q)' /\ Shape(q)' /\ Held(q)' = Held(q)
  BY DEF Good, Typed, Shape, Held
<1>2. proc[q] \in Process /\ proc[q].art \in Artifact
  BY DEF Good, Typed, Process
<1>3. InHand(q)'
  <2>1. proc[q].todo \in Seq(FineErrand)'
    BY FineGrows DEF Good, InHand
  <2>2. proc[q].copy # None => FineReview(proc[q].copy)'
    BY <1>2, ReviewGrows DEF Good, InHand, Process
  <2>3. Slot(proc[q].art) \in {"corpus", "exemplars"}
    BY DEF Slot
  <2>4. docs[Slot(proc[q].art)] <= docs'[Slot(proc[q].art)]
    BY <2>3 DEF Grows
  <2>5. /\ proc[q].at \in {"read", "put", "built"} => proc[q].seen # None
        /\ proc[q].at = "read" => proc[q].seen <= docs'[Slot(proc[q].art)]
    BY <1>2, <2>3, <2>4 DEF Good, InHand, Process, FilesOK
  <2>6. proc[q].at = "put" => /\ proc[q].src # None /\ proc[q].seen <= proc[q].src.docs
                              /\ proc[q].src.docs <= docs'[Slot(proc[q].art)]
    BY <1>2, <2>3, <2>4 DEF Good, InHand, Process, FilesOK, Content
  <2>7. proc[q].at = "patching" => proc[q].src # None /\ proc[q].src.id <= last'["bank"]
    BY <1>2 DEF Good, InHand, Process, Content, FilesOK, Grows, Later, Artifact
  <2> QED BY <2>1, <2>2, <2>5, <2>6, <2>7 DEF InHand
<1>4. There(q)'
  BY <1>2 DEF Good, There, Grows, Artifact
<1>5. ASSUME NEW a \in Held(q) \ crossed' PROVE Sure(q, a)'
  <2>1. a \in Held(q) \ crossed /\ a \in Artifact /\ Slot(a) \in {"corpus", "exemplars"}
    BY <1>2, <1>5 DEF Held, Grows, Artifact, Slot
  <2>2. Kept(q, a) /\ Sure(q, a)
    BY <1>5, <2>1 DEF Good
  <2>3. Current(a)' = Current(a) /\ (Gives(q, a)' <=> Gives(q, a))
        /\ (Withdraws(q, a)' <=> Withdraws(q, a)) /\ (Sealed(a)' <=> Sealed(a))
    BY <2>2 DEF Kept, Current, Gives, Withdraws, Sealed, Built
  <2>4. docs[Slot(a)] <= docs'[Slot(a)] /\ docs[Slot(a)] \in Nat /\ docs'[Slot(a)] \in Nat
    BY <2>1 DEF Grows, FilesOK
  <2>5. proc[q].at \in {"built", "retire"} => a = proc[q].art
    BY <2>1 DEF Held
  <2>6. There(q) /\ (proc[q].at = "retire" => proc[q].art # "bank")
    BY DEF Good, Shape, AtTab, AtBuild, AtCollect, AtTag, Makes, Proc, Job
  <2>7. proc[q].at = "built" => proc[q].seen \in Nat
    BY <1>2 DEF Good, InHand, Process
  <2>8. /\ proc[q].at = "built" /\ a = "bank" => /\ proc[q].seen <= curated'[a].docs
                                                 /\ curated'[a].docs <= docs'[Slot(a)]
        /\ proc[q].at = "built" /\ a # "bank" => /\ proc[q].seen <= draft'[a].docs
                                                 /\ draft'[a].docs <= docs'[Slot(a)]
        /\ proc[q].at = "retire" => /\ built'[a] # None /\ built'[a] <= draft'[a].docs
                                    /\ draft'[a].docs <= docs'[Slot(a)]
    <3>1. proc[q].at \in {"built", "retire"} /\ a # "bank" => draft[a] \in Content
      BY <2>1, <2>5, <2>6 DEF There, FilesOK
    <3>2. proc[q].at = "built" /\ a = "bank" => curated[a] \in Content
      BY <2>1, <2>5, <2>6 DEF There, FilesOK
    <3>3. proc[q].at = "retire" => built[a] \in Nat \cup {None}
      BY <2>1 DEF FilesOK
    <3> QED BY <2>2, <2>4, <2>5, <2>6, <2>7, <3>1, <3>2, <3>3 DEF Sure, Kept, Content
  <2>9. \/ closed'[a] = closed[a]
        \/ /\ closed'[a] \subseteq closed[a] /\ ~Gives(q, a)
           /\ proc[q].at \notin {"raw", "relabel", "tagging", "patching"}
    <3> SUFFICES ASSUME q # "tag", a = "bank"
                 PROVE  /\ ~Gives(q, a)
                        /\ proc[q].at \notin {"raw", "relabel", "tagging", "patching"}
      BY <2>2 DEF Kept
    <3>1. Shape(q)
      BY DEF Good
    <3>2. proc[q].at \notin {"raw", "relabel"}
      BY <2>1 DEF Held
    <3> QED BY <3>1, <3>2 DEF Shape, AtTab, AtBuild, AtCollect, Gives, Proc, Job
  <2> QED BY <2>2, <2>3, <2>8, <2>9 DEF Sure, Kept
<1> QED BY <1>1, <1>3, <1>4, <1>5 DEF Good

LEMMA OtherKeeps ==
    ASSUME FilesOK, FilesOK', NEW q \in Proc, Good(q), proc'[q] = proc[q], Grows,
           \A a \in Held(q) \ crossed' : Same(a),
           proc[q].at = "retire" => built'[proc[q].art] = built[proc[q].art]
    PROVE  Good(q)'
<1>1. \A a \in Held(q) \ crossed' : Kept(q, a)
  BY DEF Same, Kept
<1> QED BY <1>1, OtherKeepsThose

(* An artifact nobody touches stays sound while those at work on it go on. *)
LEMMA ArtKeeps ==
    ASSUME FilesOK, FilesOK', Grows, NEW a \in Artifact, Sound(a), Same(a), built'[a] = built[a],
           \A q \in Proc : /\ Replaces(q, a) => Replaces(q, a)'
                           /\ Gives(q, a) => Gives(q, a)'
                           /\ Withdraws(q, a) => Withdraws(q, a)'
    PROVE  Sound(a)'
<1> SUFFICES ASSUME a \notin crossed' PROVE Dated(a)' /\ Agreed(a)'
  BY DEF Sound
<1>1. Dated(a) /\ Agreed(a)
  BY DEF Sound, Grows
<1>2. Current(a)' = Current(a) /\ (Built(a)' <=> Built(a)) /\ (Sealed(a)' <=> Sealed(a))
  BY DEF Same, Current, Built, Sealed
<1>3. Dated(a)'
  <2>1. Slot(a) \in {"corpus", "exemplars"}
    BY DEF Slot
  <2>2. docs[Slot(a)] <= docs'[Slot(a)] /\ docs[Slot(a)] \in Nat /\ docs'[Slot(a)] \in Nat
    BY <2>1 DEF Grows, FilesOK
  <2>3. Built(a) => Current(a).docs \in Nat
    BY CurrentType DEF Content
  <2> QED BY <1>1, <1>2, <2>2, <2>3 DEF Dated
<1>4. Agreed(a)'
  BY <1>1, <1>2 DEF Agreed, Same
<1> QED BY <1>3, <1>4

-----------------------------------------------------------------------------
(* A step of one process that writes no artifact *)

(* The process p goes on to r. *)
Goes1(p, r) == proc' = [proc EXCEPT ![p] = r]
(* What p says of its artifacts is still said. *)
Says(p) == \A a \in Artifact : /\ Replaces(p, a) => Replaces(p, a)'
                               /\ Gives(p, a) => Gives(p, a)'
                               /\ Withdraws(p, a) => Withdraws(p, a)'

(* A step that writes no artifact: those that go on know what they know. *)
LEMMA StillStep ==
    ASSUME IInv, proc' \in [Proc -> Process],
           UNCHANGED <<docs, curated, draft, built, review, closed, crossed>>,
           Later,
           record' \in Stamp \cup {None}, TabsOK', gestures' \in 0..Gestures,
           \A q \in Proc : proc'[q] = proc[q] \/ (Good(q)' /\ Says(q))
    PROVE  IInv'
<1>1. FilesOK /\ FilesOK'
  BY DEF IInv, FilesOK, FineReview, Fresh, Review, Entry, Content, Later
<1>2. Grows /\ \A a \in Artifact : Same(a) /\ built'[a] = built[a]
  BY <1>1 DEF FilesOK, Grows, Same, Built, Current
<1>3. \A q \in Proc : Good(q)'
  <2> SUFFICES ASSUME NEW q \in Proc, proc'[q] = proc[q] PROVE Good(q)'
    OBVIOUS
  <2>1. Good(q) /\ proc[q].art \in Artifact
    BY DEF IInv, Process
  <2>2. \A a \in Held(q) : a \in Artifact
    BY <2>1 DEF Held, Artifact
  <2> QED BY <1>1, <1>2, <2>1, <2>2, OtherKeeps
<1>4. ASSUME NEW a \in Artifact PROVE Sound(a)'
  <2>1. \A q \in Proc : /\ Replaces(q, a) => Replaces(q, a)'
                        /\ Gives(q, a) => Gives(q, a)'
                        /\ Withdraws(q, a) => Withdraws(q, a)'
    BY DEF Says, Replaces, Gives, Withdraws
  <2>2. Sound(a)
    BY DEF IInv
  <2> QED BY <1>1, <1>2, <2>1, <2>2, ArtKeeps
<1> QED BY <1>1, <1>3, <1>4 DEF IInv

LEMMA ProcStep ==
    ASSUME IInv, NEW p \in Proc, NEW r \in Process, Goes1(p, r),
           UNCHANGED <<docs, curated, draft, built, review, last, closed, crossed>>,
           record' \in Stamp \cup {None}, TabsOK', gestures' \in 0..Gestures,
           Good(p)', Says(p)
    PROVE  IInv'
<1>1. proc' \in [Proc -> Process] /\ \A q \in Proc : q # p => proc'[q] = proc[q]
  BY DEF IInv, Goes1
<1>2. Later
  BY DEF IInv, FilesOK, Later
<1>3. \A q \in Proc : proc'[q] = proc[q] \/ (Good(q)' /\ Says(q))
  <2> SUFFICES ASSUME NEW q \in Proc, q = p PROVE Good(q)' /\ Says(q)
    BY <1>1
  <2>1. Good(q)'
    BY Zenon
  <2>2. Says(q)
    BY Zenon DEF Says
  <2> QED BY <2>1, <2>2
<1>4. UNCHANGED <<docs, curated, draft, built, review, closed, crossed>>
  OBVIOUS
<1> QED BY <1>1, <1>2, <1>3, <1>4, StillStep

-----------------------------------------------------------------------------
(* What a tab asks for *)

LEMMA SaysNothing == ASSUME NEW p \in Proc,
                            proc[p].at \notin {"reseal", "reopen", "save", "built", "retire", "patching"}
                     PROVE  Says(p)
  BY DEF Says, Replaces, Gives, Withdraws

(* A process that is at rest knows nothing. *)
LEMMA GoodAtRest ==
    ASSUME NEW p \in Proc, NEW r \in Process, proc'[p] = r,
           r.at = "idle" \/ (r.at = "left" /\ p \in Tab), r.copy = None,
           p \in Tab \cup {"build_kg", "build_profile"} => r.next = "idle",
           r.todo \in Seq(FineErrand)', r.todo # <<>> => p \in Tab
    PROVE  Good(p)'
<1>1. Typed(p)' /\ There(p)'
  BY DEF Typed, There, Job
<1>4. Held(p)' = {}
  BY DEF Held
<1>2. Shape(p)'
  BY DEF Shape, AtTab, AtBuild, AtCollect, AtTag, Proc, Job
<1>3. InHand(p)'
  BY DEF InHand
<1> QED BY <1>1, <1>2, <1>3, <1>4 DEF Good

LEMMA FineType == FineErrand \subseteq Errand
  BY DEF FineErrand

LEMMA IdleType == ASSUME NEW s \in Seq(Errand) PROVE [Idle EXCEPT !.todo = s] \in Process
  BY DEF Idle, Process, At, Artifact

LEMMA TabKind == ASSUME IInv, NEW t \in Tab
                 PROVE  /\ t \in Proc /\ t \notin Job /\ proc[t] \in Process /\ Good(t)
                        /\ AtTab(proc[t]) /\ proc[t].todo \in Seq(FineErrand)
                        /\ proc[t].todo \in Seq(Errand)
<1>1. t \in Proc /\ t \notin Job
  BY DEF Proc
<1>2. proc[t] \in Process /\ Good(t)
  BY <1>1 DEF IInv
<1> QED BY <1>1, <1>2 DEF Good, Shape, InHand, Process

(* A gesture queues its requests. *)
LEMMA AskingSteps ==
    ASSUME IInv, NEW t \in Tab, NEW todo \in Seq(FineErrand), Free(t), Asks(t, todo),
           gestures' \in 0..Gestures, UNCHANGED <<files, tab, last, closed, crossed>>
    PROVE  IInv'
<1> DEFINE r == [Idle EXCEPT !.todo = todo]
<1>1. /\ Goes1(t, r)
      /\ UNCHANGED <<docs, curated, draft, built, review, record, last, closed, crossed, tab>>
  BY DEF Asks, Goes1, files
<1>2. r \in Process
  <2>1. todo \in Seq(Errand)
    BY FineType, SeqMono
  <2> QED BY <2>1, IdleType
<1>3. t \in Proc /\ proc \in [Proc -> Process]
  BY TabKind DEF IInv
<1>4. proc'[t] = r
  BY <1>1, <1>3 DEF Goes1
<1>5. r.at = "idle" /\ r.next = "idle" /\ r.copy = None /\ r.todo = todo
  BY DEF Idle
<1> HIDE DEF r
<1>6. FineErrand' = FineErrand
  BY <1>1 DEF FineErrand, Fine, Built, Current
<1>7. Good(t)'
  BY <1>2, <1>3, <1>4, <1>5, <1>6, GoodAtRest
<1>8. Says(t)
  BY <1>3, SaysNothing DEF Free
<1>9. TabsOK' /\ record' \in Stamp \cup {None}
  BY <1>1 DEF IInv, TabsOK, TabOK, Fresh
<1> QED BY <1>1, <1>2, <1>3, <1>7, <1>8, <1>9, ProcStep

LEMMA OneOf == ASSUME NEW S, NEW e \in S PROVE <<e>> \in Seq(S) /\ <<>> \in Seq(S)
  OBVIOUS

LEMMA ReadyBuilt == ASSUME NEW a \in Artifact, Ready(a) PROVE Built(a)
  BY DEF Ready, Status, State

LEMMA ApproveFine == ASSUME NEW op \in {"approve", "submit", "leave"}, NEW a \in Artifact
                     PROVE  Ask(op, a) \in FineErrand
  BY DEF Ask, FineErrand, Fine, Errand

LEMMA SavingFine == ASSUME IInv, NEW t \in Tab, Dirty(t) PROVE Saving(t) \in FineErrand
<1>1. tab[t] \in Editor /\ TabOK(t)
  BY DEF IInv, TabsOK
<1>2. tab[t].text \in Content /\ tab[t].base \in Content
  BY <1>1 DEF Dirty, TabOK, Editor
<1>3. /\ Saving(t) \in Errand /\ Saving(t).op = "save" /\ Saving(t).art = "types"
      /\ Saving(t).text = tab[t].text /\ Saving(t).base = tab[t].base
  BY <1>2 DEF Saving, Ask, Errand, Artifact
<1> QED BY <1>1, <1>2, <1>3 DEF FineErrand, Fine, TabOK, Fresh

LEMMA ClosingFine == ASSUME IInv, NEW t \in Tab, NEW a \in Artifact
                     PROVE  Closing(t, a) \in Seq(FineErrand)
<1> DEFINE dirty == a = "types" /\ Dirty(t)
           one == IF dirty THEN <<Saving(t)>> ELSE <<>>
           two == IF dirty \/ Status(a) # "approved" THEN <<Ask("approve", a)>> ELSE <<>>
<1>1. one \in Seq(FineErrand)
  BY SavingFine, OneOf
<1>2. two \in Seq(FineErrand)
  BY ApproveFine, OneOf
<1>3. Closing(t, a) = one \o two
  BY DEF Closing
<1> HIDE DEF one, two
<1> QED BY <1>1, <1>2, <1>3, ConcatProperties

LEMMA GestureKept == ASSUME IInv, NEW t, NEW g, Gesture(t, g) PROVE gestures' \in 0..Gestures /\ Free(t)
  BY DEF IInv, Gesture

LEMMA AskingMoves == ASSUME IInv, NEW t \in Tab,
                            \/ Collect(t) \/ Finish(t) \/ Continue(t) \/ ToBank(t)
                            \/ \E a \in Artifact : Correct(t, a)
                     PROVE  IInv'
<1>1. "types" \in Artifact /\ "bank" \in Artifact /\ "graph" \in Artifact
  BY DEF Artifact
<1>2. /\ Closing(t, "types") \in Seq(FineErrand) /\ Closing(t, "bank") \in Seq(FineErrand)
      /\ Closing(t, "graph") \in Seq(FineErrand)
  BY <1>1, ClosingFine
<1>3. /\ <<Ask("submit", "bank")>> \in Seq(FineErrand)
      /\ <<Ask("leave", "bank")>> \in Seq(FineErrand)
  BY <1>1, ApproveFine, OneOf
<1>4. CASE Collect(t)
  <2>1. Closing(t, "types") \o <<Ask("submit", "bank")>> \in Seq(FineErrand)
    BY <1>2, <1>3, ConcatProperties
  <2> QED BY <1>4, <2>1, GestureKept, AskingSteps DEF Collect
<1>5. CASE Finish(t)
  <2>1. Closing(t, "types") \o Closing(t, "bank") \in Seq(FineErrand)
    BY <1>2, ConcatProperties
  <2>2. Closing(t, "types") \o Closing(t, "bank") \o <<Ask("leave", "bank")>> \in Seq(FineErrand)
    BY <2>1, <1>3, ConcatProperties
  <2> QED BY <1>5, <2>2, GestureKept, AskingSteps DEF Finish
<1>6. CASE Continue(t)
  BY <1>2, <1>6, GestureKept, AskingSteps DEF Continue
<1>7. CASE ToBank(t)
  <2>1. <<Saving(t)>> \in Seq(FineErrand)
    BY <1>7, SavingFine, OneOf DEF ToBank
  <2> QED BY <1>7, <2>1, GestureKept, AskingSteps DEF ToBank
<1>8. ASSUME NEW a \in Artifact, Correct(t, a) PROVE IInv'
  <2>1. Ask("edit", a) \in FineErrand
    BY <1>8, ReadyBuilt DEF Correct, Ask, FineErrand, Fine, Errand
  <2>2. <<Ask("edit", a)>> \in Seq(FineErrand)
    BY <2>1, OneOf
  <2> QED BY <1>8, <2>2, GestureKept, AskingSteps DEF Correct
<1> QED BY <1>4, <1>5, <1>6, <1>7, <1>8

-----------------------------------------------------------------------------
(* A transition of the approvals is loaded *)

LEMMA ApprovalOK == ASSUME FilesOK, NEW a \in Artifact, Built(a)
  PROVE /\ Approval(a) \in Entry /\ Approval(a) # None /\ Approval(a).hash = Current(a)
        /\ Approval(a).hash.id <= last[a] /\ DOMAIN Approval(a).up = Upstream(a)
<1>1. \A u \in Upstream(a) : Current(u) \in Content \cup {None}
  BY CurrentType DEF Upstream, Artifact
<1>2. [u \in Upstream(a) |-> Current(u)] \in [Upstream("bank") -> Content \cup {None}]
                     \cup [Upstream("types") -> Content \cup {None}]
  BY <1>1 DEF Upstream, Artifact
<1> QED BY <1>2, CurrentType DEF Approval, Entry

Put(a, e) == [review EXCEPT ![a] = e]
LEMMA PutOK == ASSUME FilesOK, NEW a \in Artifact, NEW e \in Entry \cup {None},
   e # None => e.hash.id <= last[a] /\ DOMAIN e.up = Upstream(a)
  PROVE /\ Put(a, e) \in Review /\ Put(a, e) # None /\ FineReview(Put(a, e)) /\ Put(a,e)[a] = e
      /\ \A b \in Artifact : b # a => Put(a,e)[b] = review[b]
<1>1. /\ Put(a,e) \in Review /\ Put(a,e)[a] = e
      /\ \A b \in Artifact : b # a => Put(a,e)[b] = review[b]
  BY DEF FilesOK, Review, Put
<1>2. FineReview(Put(a,e))
  BY <1>1 DEF FineReview, FilesOK
<1> QED BY <1>1, <1>2

LEMMA PutApproval ==
    ASSUME FilesOK, NEW a \in Artifact, NEW e, e = None \/ (Built(a) /\ e = Approval(a))
    PROVE  /\ Put(a, e) \in Review /\ Put(a, e) # None /\ FineReview(Put(a, e))
           /\ Put(a, e)[a] = e /\ \A b \in Artifact : b # a => Put(a, e)[b] = review[b]
           /\ Put(a, e)[a] # None => Put(a, e)[a].hash = Current(a)
<1>1. CASE e = None
  <2>1. e \in Entry \cup {None} /\ (e # None => e.hash.id <= last[a] /\ DOMAIN e.up = Upstream(a))
    BY <1>1
  <2> QED BY <1>1, <2>1, PutOK
<1>2. CASE Built(a) /\ e = Approval(a)
  <2>1. e \in Entry \cup {None} /\ (e # None => e.hash.id <= last[a] /\ DOMAIN e.up = Upstream(a))
        /\ e.hash = Current(a)
    BY <1>2, ApprovalOK
  <2> QED BY <2>1, PutOK
<1> QED BY <1>1, <1>2

LEMMA LoadSteps ==
    ASSUME IInv, NEW p \in Proc, NEW r \in Process, Goes1(p, r), NEW a \in Artifact,
           r.at = "save", r.art = a, r.copy \in Review, r.copy # None, FineReview(r.copy),
           \A b \in Artifact : b # a => r.copy[b] = review[b],
           r.copy[a] # None => r.copy[a].hash = Current(a),
           r.todo \in Seq(FineErrand), r.todo # <<>> => p \in Tab,
           Shape(p)', Says(p), p \in Tab \/ proc[p].at # "idle",
           a \notin crossed => /\ Gives(p, a)' => Current(a) \in closed[a]
                               /\ Withdraws(p, a)' /\ ~Gives(p, a)' => Current(a) \notin closed[a],
           UNCHANGED <<files, tab, last, gestures, closed, crossed>>
    PROVE  IInv'
<1>2. UNCHANGED <<docs, curated, draft, built, review, record, last, closed, crossed, tab, gestures>>
  BY DEF files
<1>3. proc'[p] = r
  BY DEF Goes1, IInv
<1>4. Typed(p)'
  BY <1>3 DEF Typed
<1>5. InHand(p)'
  <2>1. FineErrand' = FineErrand
    BY <1>2 DEF FineErrand, Fine, Built, Current
  <2>2. FineReview(r.copy)'
    BY <1>2 DEF FineReview
  <2> QED BY <1>3, <2>1, <2>2 DEF InHand
<1>6. There(p)'
  <2>1. There(p)
    BY DEF IInv, Good
  <2>2. p \in Tab => p # "collect" /\ p # "tag"
    BY DEF Job
  <2> QED BY <1>2, <1>3, <2>1, <2>2 DEF There, Built, Current
<1>7. ASSUME NEW b \in Held(p)' \ crossed' PROVE Sure(p, b)'
  <2>1. b \in Artifact /\ b \notin crossed
    BY <1>2, <1>3, <1>7 DEF Held
  <2>2. Current(b)' = Current(b)
    BY <1>2 DEF Current
  <2>3. CASE b = a
    BY <1>2, <1>3, <2>1, <2>2, <2>3 DEF Sure
  <2>4. CASE b # a
    BY <1>2, <1>3, <2>1, <2>2, <2>4 DEF Sure, Gives, Withdraws
  <2> QED BY <2>3, <2>4
<1>8. Good(p)'
  BY <1>4, <1>5, <1>6, <1>7 DEF Good
<1>9. TabsOK' /\ record' \in Stamp \cup {None} /\ gestures' \in 0..Gestures
  BY <1>2 DEF IInv, TabsOK, TabOK, Fresh
<1> QED BY <1>2, <1>8, <1>9, ProcStep

LEMMA ProcKind == ASSUME IInv, NEW p \in Proc
                  PROVE  /\ proc[p] \in Process /\ Typed(p) /\ Shape(p) /\ InHand(p) /\ There(p)
                         /\ \A a \in Held(p) \ crossed : Sure(p, a)
                         /\ proc[p].todo \in Seq(FineErrand) /\ proc[p].art \in Artifact
                         /\ p \in Tab => p \notin Job
  BY DEF IInv, Good, InHand, Process

LEMMA LoadOK ==
    ASSUME IInv, NEW p \in Proc, NEW a \in Artifact, NEW e, NEW next \in At,
           e = None \/ (Built(a) /\ e = Approval(a)), Load(p, a, e, next)
    PROVE  \E r \in Process :
             /\ Goes1(p, r) /\ r.at = "save" /\ r.art = a /\ r.next = next
             /\ r.copy \in Review /\ r.copy # None /\ FineReview(r.copy) /\ r.copy[a] = e
             /\ \A b \in Artifact : b # a => r.copy[b] = review[b]
             /\ r.copy[a] # None => r.copy[a].hash = Current(a)
             /\ r.todo = proc[p].todo
<1> DEFINE copy == Put(a, e)
           r == [proc[p] EXCEPT !.at = "save", !.art = a, !.next = next, !.copy = copy]
<1>0. FilesOK /\ proc[p] \in Process
  BY DEF IInv
<1>1. /\ copy \in Review /\ copy # None /\ FineReview(copy) /\ copy[a] = e
      /\ \A b \in Artifact : b # a => copy[b] = review[b]
      /\ copy[a] # None => copy[a].hash = Current(a)
  BY <1>0, PutApproval
<1>2. Goes1(p, r)
  BY DEF Load, Goes1, Put
<1> HIDE DEF copy
<1>3. copy \in Review \cup {None}
  BY <1>1
<1>4. r \in Process
  BY <1>0, <1>3, ZenonT(30) DEF Process, At
<1>5. r.at = "save" /\ r.art = a /\ r.next = next /\ r.copy = copy /\ r.todo = proc[p].todo
  BY <1>0 DEF Process
<1> HIDE DEF r
<1> QED BY <1>1, <1>2, <1>4, <1>5

LEMMA ReopenSteps == ASSUME IInv, NEW p \in Proc, Reopen(p) PROVE IInv'
<1>0. PICK a \in Artifact : a = proc[p].art
  BY ProcKind
<1>1. /\ proc[p].at = "reopen" /\ Load(p, a, None, proc[p].next)
      /\ UNCHANGED <<files, tab, last, gestures, closed, crossed>>
  BY <1>0 DEF Reopen
<1>2. a \in Artifact /\ proc[p].next \in At /\ Shape(p) /\ (a \notin crossed => Sure(p, a))
  BY <1>0, <1>1, ProcKind DEF Process, Held
<1>3. PICK r \in Process :
             /\ Goes1(p, r) /\ r.at = "save" /\ r.art = a /\ r.next = proc[p].next
             /\ r.copy \in Review /\ r.copy # None /\ FineReview(r.copy) /\ r.copy[a] = None
             /\ \A b \in Artifact : b # a => r.copy[b] = review[b]
             /\ r.copy[a] # None => r.copy[a].hash = Current(a)
             /\ r.todo = proc[p].todo
  BY <1>1, <1>2, LoadOK
<1>4. proc'[p] = r /\ r.todo \in Seq(FineErrand) /\ (r.todo # <<>> => p \in Tab)
  BY <1>3, ProcKind DEF Goes1, IInv, Typed
<1>5. Shape(p)'
  BY <1>0, <1>1, <1>2, <1>3, <1>4 DEF Shape, AtTab, AtBuild, AtCollect, AtTag
<1>6. Says(p) /\ (Gives(p, a)' <=> Gives(p, a)) /\ Withdraws(p, a)
  BY <1>0, <1>1, <1>3, <1>4 DEF Says, Replaces, Gives, Withdraws
<1>7. a \notin crossed => /\ Gives(p, a)' => Current(a) \in closed[a]
                          /\ Withdraws(p, a)' /\ ~Gives(p, a)' => Current(a) \notin closed[a]
  BY <1>2, <1>6 DEF Sure
<1>8. r.copy[a] # None => r.copy[a].hash = Current(a)
  BY <1>3
<1> QED BY <1>1, <1>2, <1>3, <1>4, <1>5, <1>6, <1>7, <1>8, LoadSteps

LEMMA ResealSteps == ASSUME IInv, NEW p \in Proc, Reseal(p) PROVE IInv'
<1>0. PICK a \in Artifact : a = proc[p].art
  BY ProcKind
<1>n. PICK n \in At : n = IF p = "collect" THEN "record" ELSE "idle"
  BY DEF At
<1>1. /\ proc[p].at = "reseal" /\ Load(p, a, Approval(a), n)
      /\ UNCHANGED <<files, tab, last, gestures, closed, crossed>>
  BY <1>0, <1>n DEF Reseal
<1>2. Shape(p) /\ There(p) /\ (a \notin crossed => Sure(p, a)) /\ (p \in Tab => p \notin Job)
  BY <1>0, <1>1, ProcKind DEF Held
<1>b. Built(a)
  BY <1>0, <1>1, <1>2 DEF There, Shape, AtTab, AtBuild, AtCollect, AtTag, Proc, Job
<1>3. PICK r \in Process :
             /\ Goes1(p, r) /\ r.at = "save" /\ r.art = a /\ r.next = n
             /\ r.copy \in Review /\ r.copy # None /\ FineReview(r.copy)
             /\ r.copy[a] = Approval(a)
             /\ \A b \in Artifact : b # a => r.copy[b] = review[b]
             /\ r.copy[a] # None => r.copy[a].hash = Current(a)
             /\ r.todo = proc[p].todo
  BY <1>1, <1>b, LoadOK
<1>4. proc'[p] = r /\ r.todo \in Seq(FineErrand) /\ (r.todo # <<>> => p \in Tab)
  BY <1>3, ProcKind DEF Goes1, IInv, Typed
<1>c. r.copy[a] # None
  <2>1. FilesOK
    BY DEF IInv
  <2> QED BY <2>1, <1>3, <1>b, ApprovalOK
<1>5. Shape(p)'
  BY <1>0, <1>n, <1>1, <1>2, <1>3, <1>4, <1>c DEF Shape, AtTab, AtBuild, AtCollect, AtTag, Job
<1>6. Says(p) /\ (Gives(p, a)' => Gives(p, a)) /\ ~Withdraws(p, a)'
  BY <1>0, <1>1, <1>2, <1>3, <1>4, <1>c
  DEF Says, Replaces, Gives, Withdraws, Shape, AtCollect
<1>7. a \notin crossed => /\ Gives(p, a)' => Current(a) \in closed[a]
                          /\ Withdraws(p, a)' /\ ~Gives(p, a)' => Current(a) \notin closed[a]
  BY <1>2, <1>6 DEF Sure
<1>8. r.copy[a] # None => r.copy[a].hash = Current(a)
  BY <1>3
<1> QED BY <1>1, <1>2, <1>3, <1>4, <1>5, <1>6, <1>7, <1>8, LoadSteps

LEMMA HeadTail == ASSUME NEW S, NEW s \in Seq(S), s # <<>>
                  PROVE  Head(s) \in S /\ Tail(s) \in Seq(S)
  BY HeadTailProperties

LEMMA AskedKind == ASSUME IInv, NEW t \in Tab, NEW op, Asked(t, op)
                   PROVE  /\ Head(proc[t].todo) \in FineErrand /\ Head(proc[t].todo) \in Errand
                          /\ Head(proc[t].todo).art \in Artifact
                          /\ Tail(proc[t].todo) \in Seq(FineErrand)
                          /\ Tail(proc[t].todo) \in Seq(Errand)
                          /\ t \in Proc /\ t \notin Job /\ proc[t] \in Process
                          /\ proc[t].at = "idle" /\ proc[t].next = "idle" /\ proc[t].copy = None
<1>1. proc[t].todo # <<>> /\ proc[t].at = "idle"
  BY DEF Asked
<1>2. t \in Proc /\ t \notin Job /\ proc[t] \in Process /\ AtTab(proc[t]) /\ Good(t)
      /\ proc[t].todo \in Seq(FineErrand) /\ proc[t].todo \in Seq(Errand)
  BY TabKind
<1>3. /\ Head(proc[t].todo) \in FineErrand /\ Tail(proc[t].todo) \in Seq(FineErrand)
      /\ Tail(proc[t].todo) \in Seq(Errand)
  BY <1>1, <1>2, HeadTail
<1>4. Head(proc[t].todo) \in Errand /\ Head(proc[t].todo).art \in Artifact
  BY <1>3 DEF FineErrand, Errand
<1> QED BY <1>1, <1>2, <1>3, <1>4 DEF AtTab, Good, Typed

LEMMA ApproveSteps == ASSUME IInv, NEW t \in Tab, ApproveRequest(t) PROVE IInv'
<1>0. Asked(t, "approve")
  BY DEF ApproveRequest
<1>1. PICK a \in Artifact : a = Head(proc[t].todo).art
  BY <1>0, AskedKind
<1>2. FilesOK /\ Built(a)
  BY <1>1 DEF ApproveRequest, IInv
<1> DEFINE copy == Put(a, Approval(a))
           r == [proc[t] EXCEPT !.at = "save", !.art = a, !.next = "idle", !.copy = copy,
                                !.todo = Tail(proc[t].todo)]
<1>3. /\ copy \in Review /\ copy # None /\ FineReview(copy) /\ copy[a] = Approval(a)
      /\ \A b \in Artifact : b # a => copy[b] = review[b]
      /\ copy[a] # None => copy[a].hash = Current(a)
  BY <1>2, PutApproval
<1>4. Approval(a) # None
  BY <1>2, ApprovalOK
<1>5. Goes1(t, r) /\ UNCHANGED <<files, tab, last, gestures, closed, crossed>>
  BY <1>1 DEF ApproveRequest, Served, Goes1, Put
<1>6. copy \in Review \cup {None} /\ Tail(proc[t].todo) \in Seq(Errand) /\ proc[t] \in Process
  BY <1>0, <1>3, AskedKind
<1> HIDE DEF copy
<1>7. r \in Process
  BY <1>6, ZenonT(30) DEF Process, At
<1>8. /\ r.at = "save" /\ r.art = a /\ r.next = "idle" /\ r.copy = copy
      /\ r.todo = Tail(proc[t].todo)
  BY <1>6 DEF Process
<1> HIDE DEF r
<1>9. /\ t \in Proc /\ t \notin Job /\ r.todo \in Seq(FineErrand) /\ proc[t].at = "idle"
      /\ proc'[t] = r
  BY <1>0, <1>5, <1>8, AskedKind DEF Goes1, IInv
<1>10. Shape(t)'
  BY <1>8, <1>9 DEF Shape, AtTab, Job
<1>11. Says(t) /\ ~Gives(t, a)' /\ ~Withdraws(t, a)'
  BY <1>3, <1>4, <1>8, <1>9, SaysNothing DEF Gives, Withdraws, Job
<1>12. a \notin crossed => /\ Gives(t, a)' => Current(a) \in closed[a]
                           /\ Withdraws(t, a)' /\ ~Gives(t, a)' => Current(a) \notin closed[a]
  BY <1>11
<1> QED BY <1>3, <1>5, <1>7, <1>8, <1>9, <1>10, <1>11, <1>12, LoadSteps

-----------------------------------------------------------------------------
(* A process goes on without writing anything *)

LEMMA MoveSteps ==
    ASSUME IInv, NEW p \in Proc, NEW r \in Process, Goes1(p, r), Says(p),
           r.at \notin {"save", "patching"}, r.copy = None, r.todo \in Seq(FineErrand),
           r.todo # <<>> => p \in Tab, r.at \in {"write", "relabel", "tagging"} => r.src # None,
           r.at = "tagging" => r.seen \in 0..Saves,
           r.at \in {"read", "put", "built"} => r.seen # None,
           r.at = "read" => r.seen <= docs[Slot(r.art)],
           r.at = "put" => r.src # None /\ r.seen <= r.src.docs /\ r.src.docs <= docs[Slot(r.art)],
           Shape(p)', There(p)', \A a \in Held(p)' \ crossed : Sure(p, a)',
           UNCHANGED <<docs, curated, draft, built, review, last, closed, crossed>>,
           record' \in Stamp \cup {None}, TabsOK', gestures' \in 0..Gestures
    PROVE  IInv'
<1>1. proc'[p] = r
  BY DEF Goes1, IInv
<1>2. Typed(p)'
  BY <1>1 DEF Typed
<1>3. InHand(p)'
  <2>1. FineErrand' = FineErrand
    BY DEF FineErrand, Fine, Built, Current
  <2> QED BY <1>1, <2>1 DEF InHand
<1>4. crossed' = crossed
  OBVIOUS
<1>5. Good(p)'
  BY <1>2, <1>3, <1>4 DEF Good
<1> QED BY <1>5, ProcStep

LEMMA TabsKept == ASSUME IInv, UNCHANGED <<tab, last>> PROVE TabsOK'
  BY DEF IInv, TabsOK, TabOK, Fresh

LEMMA Nothing == <<>> \in Seq(FineErrand) /\ <<>> \in Seq(Errand)
  OBVIOUS

(* The tab goes on with its next request. *)
LEMMA ReadEditSteps == ASSUME IInv, NEW t \in Tab, ReadEdit(t) PROVE IInv'
<1>0. Asked(t, "edit")
  BY DEF ReadEdit
<1>1. PICK a \in Artifact : a = Head(proc[t].todo).art
  BY <1>0, AskedKind
<1> DEFINE sealed == a = "bank" /\ State(a) = "approved" /\ GateOpen(a)
           r == [proc[t] EXCEPT !.at = "write", !.art = a, !.src = Current(a), !.flag = sealed,
                                !.todo = Tail(proc[t].todo)]
<1>2. Goes1(t, r) /\ UNCHANGED <<files, tab, last, gestures, closed, crossed>>
  BY <1>1 DEF ReadEdit, Served, Goes1
<1>3. Built(a) /\ a # "types"
  <2>1. Fine(Head(proc[t].todo)) /\ Head(proc[t].todo).op = "edit"
    BY <1>0, AskedKind DEF FineErrand, Asked
  <2> QED BY <1>1, <2>1 DEF Fine
<1>4. Current(a) \in Content
  BY <1>3, CurrentType DEF IInv
<1>5. PICK c \in Content : c = Current(a)
  BY <1>4
<1>6. PICK f \in BOOLEAN : f = sealed
  OBVIOUS
<1>7. r = [proc[t] EXCEPT !.at = "write", !.art = a, !.src = c, !.flag = f,
                          !.todo = Tail(proc[t].todo)]
  BY <1>5, <1>6
<1>8. f => a = "bank"
  BY <1>6
<1> HIDE DEF r, sealed
<1>9. Tail(proc[t].todo) \in Seq(Errand) /\ proc[t] \in Process /\ t \in Proc /\ t \notin Job
      /\ proc[t].at = "idle" /\ proc[t].next = "idle" /\ proc[t].copy = None
      /\ Tail(proc[t].todo) \in Seq(FineErrand)
  BY <1>0, AskedKind
<1>10. r \in Process
  BY <1>7, <1>9, ZenonT(30) DEF Process, At
<1>11. /\ r.at = "write" /\ r.art = a /\ r.src = c /\ r.flag = f /\ r.next = "idle"
       /\ r.copy = None /\ r.todo = Tail(proc[t].todo)
  BY <1>7, <1>9 DEF Process
<1>12. proc'[t] = r
  BY <1>2, <1>9 DEF Goes1, IInv
<1>13. Shape(t)' /\ There(t)' /\ Says(t)
  BY <1>3, <1>8, <1>9, <1>11, <1>12, SaysNothing DEF Shape, AtTab, There, Job
<1>14. ASSUME NEW b \in Held(t)' \ crossed PROVE Sure(t, b)'
  <2>1. b = a
    BY <1>11, <1>12, <1>14 DEF Held
  <2>2. Current(a)' = Current(a)
    BY <1>2 DEF files, Current
  <2> QED BY <1>5, <1>9, <1>11, <1>12, <2>1, <2>2 DEF Sure, Gives, Withdraws, Job
<1> QED BY <1>2, <1>9, <1>10, <1>11, <1>13, <1>14, TabsKept, MoveSteps DEF files, IInv

LEMMA RefusedSteps == ASSUME IInv, NEW t \in Tab, Refused(t) PROVE IInv'
<1> DEFINE r == [proc[t] EXCEPT !.todo = <<>>]
<1>1. Goes1(t, r) /\ UNCHANGED <<files, tab, last, gestures, closed, crossed>>
  BY DEF Refused, Goes1
<1>2. \E op : Asked(t, op)
  BY DEF Refused
<1>3. /\ proc[t] \in Process /\ t \in Proc /\ t \notin Job
      /\ proc[t].at = "idle" /\ proc[t].next = "idle" /\ proc[t].copy = None
  BY <1>2, AskedKind
<1>4. r \in Process
  BY <1>3, Nothing, ZenonT(30) DEF Process
<1>5. r.at = "idle" /\ r.next = "idle" /\ r.copy = None /\ r.todo = <<>>
  BY <1>3 DEF Process
<1> HIDE DEF r
<1>6. proc'[t] = r
  BY <1>1, <1>3 DEF Goes1, IInv
<1>7. Shape(t)' /\ There(t)' /\ Says(t) /\ Held(t)' = {}
  BY <1>3, <1>5, <1>6, SaysNothing DEF Shape, AtTab, There, Job, Held
<1> QED BY <1>1, <1>3, <1>4, <1>5, <1>7, Nothing, TabsKept, MoveSteps DEF files, IInv

LEMMA LeaveSteps == ASSUME IInv, NEW t \in Tab, Leave(t) PROVE IInv'
<1> DEFINE r == [proc[t] EXCEPT !.at = "left", !.todo = Tail(proc[t].todo)]
<1>1. Goes1(t, r) /\ UNCHANGED <<files, last, gestures, closed, crossed>>
  BY DEF Leave, Served, Goes1
<1>2. Asked(t, "leave")
  BY DEF Leave
<1>3. /\ proc[t] \in Process /\ t \in Proc /\ t \notin Job
      /\ proc[t].at = "idle" /\ proc[t].next = "idle" /\ proc[t].copy = None
      /\ Tail(proc[t].todo) \in Seq(Errand) /\ Tail(proc[t].todo) \in Seq(FineErrand)
  BY <1>2, AskedKind
<1>4. r \in Process
  BY <1>3, ZenonT(30) DEF Process, At
<1>5. r.at = "left" /\ r.next = "idle" /\ r.copy = None /\ r.todo = Tail(proc[t].todo)
  BY <1>3 DEF Process
<1> HIDE DEF r
<1>6. proc'[t] = r
  BY <1>1, <1>3 DEF Goes1, IInv
<1>7. Shape(t)' /\ There(t)' /\ Says(t) /\ Held(t)' = {}
  BY <1>3, <1>5, <1>6, SaysNothing DEF Shape, AtTab, There, Job, Held
<1>8. TabsOK'
  <2>1. tab' = [tab EXCEPT ![t] = [Closed EXCEPT !.known = tab[t].known]] /\ last' = last
    BY <1>1 DEF Leave
  <2>2. tab[t] \in Editor /\ TabOK(t)
    BY DEF IInv, TabsOK
  <2>3. [Closed EXCEPT !.known = tab[t].known] \in Editor
    BY <2>2 DEF Closed, Editor
  <2> QED BY <2>1, <2>2, <2>3 DEF IInv, TabsOK, TabOK, Fresh, Closed
<1> QED BY <1>1, <1>3, <1>4, <1>5, <1>7, <1>8, MoveSteps DEF files, IInv

LEMMA StateBuilt == ASSUME NEW a \in Artifact, State(a) = "approved" PROVE Built(a)
  BY DEF State

(* The collection is queued: a tab goes on, and the job begins. *)
LEMMA SubmitSteps == ASSUME IInv, NEW t \in Tab, Submit(t) PROVE IInv'
<1> DEFINE r == [proc[t] EXCEPT !.todo = Tail(proc[t].todo)]
           s == [Idle EXCEPT !.at = "review"]
<1>1. /\ proc' = [proc EXCEPT ![t] = r, !["collect"] = s]
      /\ UNCHANGED <<files, tab, last, gestures, closed, crossed>>
      /\ proc["collect"].at = "idle" /\ Admitted
  BY DEF Submit, Served
<1>2. Asked(t, "submit")
  BY DEF Submit
<1>3. /\ proc[t] \in Process /\ t \in Proc /\ t \notin Job
      /\ proc[t].at = "idle" /\ proc[t].next = "idle" /\ proc[t].copy = None
      /\ Tail(proc[t].todo) \in Seq(Errand) /\ Tail(proc[t].todo) \in Seq(FineErrand)
  BY <1>2, AskedKind
<1>4. r \in Process
  BY <1>3, ZenonT(30) DEF Process
<1>5. r.at = "idle" /\ r.next = "idle" /\ r.copy = None /\ r.todo = Tail(proc[t].todo)
  BY <1>3 DEF Process
<1>6. s \in Process
  BY Nothing, ZenonT(30) DEF Process, Idle, At, Artifact
<1>7. s.at = "review" /\ s.copy = None /\ s.todo = <<>>
  BY DEF Idle
<1> HIDE DEF r, s
<1>8. /\ "collect" \in Proc /\ t # "collect" /\ proc' \in [Proc -> Process]
      /\ proc'[t] = r /\ proc'["collect"] = s
      /\ \A q \in Proc : q \notin {t, "collect"} => proc'[q] = proc[q]
  BY <1>1, <1>3, <1>4, <1>6 DEF IInv, Proc, Job
<1>9. /\ UNCHANGED <<docs, curated, draft, built, review, closed, crossed>>
      /\ Later /\ record' \in Stamp \cup {None}
      /\ TabsOK' /\ gestures' \in 0..Gestures
  BY <1>1, TabsKept DEF files, IInv, FilesOK, Later
<1>10. FineErrand' = FineErrand
  BY <1>1 DEF FineErrand, Fine, Built, Current, files
<1>11. Good(t)' /\ Says(t)
  BY <1>3, <1>4, <1>5, <1>8, <1>10, GoodAtRest, SaysNothing
<1>12. Good("collect")'
  <2>1. Built("types") /\ Built("graph")
    BY <1>1, StateBuilt DEF Admitted, GateOpen, Upstream, Artifact
  <2>2. Typed("collect")' /\ Held("collect")' = {} /\ Shape("collect")'
    BY <1>3, <1>6, <1>7, <1>8 DEF Typed, Held, Shape, AtCollect, Job
  <2>3. InHand("collect")'
    BY <1>7, <1>8, <1>10, Nothing DEF InHand
  <2>4. There("collect")'
    BY <1>7, <1>8, <1>9, <2>1 DEF There, Built, Current, Job
  <2> QED BY <2>2, <2>3, <2>4 DEF Good
<1>13. Says("collect")
  BY <1>1, <1>8, SaysNothing
<1>14. \A q \in Proc : proc'[q] = proc[q] \/ (Good(q)' /\ Says(q))
  <2> SUFFICES ASSUME NEW q \in Proc, q \in {t, "collect"} PROVE Good(q)' /\ Says(q)
    BY <1>8
  <2>1. CASE q = t
    <3>1. Good(q)'
      BY <1>11, <2>1, Zenon
    <3>2. Says(q)
      BY <1>11, <2>1, Zenon DEF Says
    <3> QED BY <3>1, <3>2
  <2>2. CASE q = "collect"
    <3>1. Good(q)'
      BY <1>12, <2>2, Zenon
    <3>2. Says(q)
      BY <1>13, <2>2, Zenon DEF Says
    <3> QED BY <3>1, <3>2
  <2> QED BY <2>1, <2>2
<1>15. proc' \in [Proc -> Process]
  BY <1>8
<1> QED BY <1>9, <1>14, <1>15, StillStep

-----------------------------------------------------------------------------
(* The editor of the types *)

LEMMA EditorStep ==
    ASSUME IInv, TabsOK', Later, gestures' \in 0..Gestures,
           UNCHANGED <<files, proc, closed, crossed>>
    PROVE  IInv'
<1>1. /\ UNCHANGED <<docs, curated, draft, built, review, closed, crossed>>
      /\ proc' \in [Proc -> Process] /\ record' \in Stamp \cup {None}
  BY DEF files, IInv
<1>2. \A q \in Proc : proc'[q] = proc[q] \/ (Good(q)' /\ Says(q))
  OBVIOUS
<1> QED BY <1>1, <1>2, StillStep

OneTab(r) == /\ r \in Editor
             /\ Fresh("types", r.text) /\ Fresh("types", r.known) /\ Fresh("types", r.base)
             /\ r.text # None => r.at = "here" /\ r.base # None /\ r.text.docs = r.base.docs
             /\ r.typed => r.text # None

LEMMA OneTabHas == ASSUME IInv, NEW t \in Tab PROVE OneTab(tab[t])
  BY DEF IInv, TabsOK, TabOK, OneTab

LEMMA OneTabMoves == ASSUME IInv, NEW t \in Tab, NEW r, OneTab(r),
                            tab' = [tab EXCEPT ![t] = r], last' = last
                     PROVE  TabsOK'
  BY DEF IInv, TabsOK, TabOK, OneTab, Fresh

LEMMA OpenedOK == ASSUME NEW r, OneTab(r) PROVE OneTab(Opened(r))
<1>1. CASE r.at = "here" /\ r.text = None /\ r.known # None
  <2> DEFINE o == [r EXCEPT !.text = r.known, !.base = r.known]
  <2>1. Opened(r) = o
    BY <1>1 DEF Opened
  <2>2. o \in Editor
    BY DEF OneTab, Editor
  <2>3. o.text = r.known /\ o.base = r.known /\ o.known = r.known /\ o.at = r.at
        /\ o.typed = r.typed
    BY DEF OneTab, Editor
  <2> HIDE DEF o
  <2> QED BY <1>1, <2>1, <2>2, <2>3 DEF OneTab
<1>2. CASE ~(r.at = "here" /\ r.text = None /\ r.known # None)
  BY <1>2 DEF Opened
<1> QED BY <1>1, <1>2

LEMMA SeePipelineSteps == ASSUME IInv, NEW t \in Tab, SeePipeline(t) PROVE IInv'
<1> DEFINE r == tab[t]
           on == [r EXCEPT !.at = "here"]
           off == [Closed EXCEPT !.known = r.known]
<1>1. /\ \/ tab' = [tab EXCEPT ![t] = Opened(on)]
         \/ tab' = [tab EXCEPT ![t] = off]
      /\ UNCHANGED <<files, proc, last, gestures, closed, crossed>>
  BY DEF SeePipeline
<1>2. OneTab(r)
  BY OneTabHas
<1>3. OneTab(on)
  <2>1. on \in Editor
    BY <1>2 DEF OneTab, Editor
  <2>2. /\ on.text = r.text /\ on.known = r.known /\ on.base = r.base /\ on.typed = r.typed
        /\ on.at = "here"
    BY <1>2 DEF OneTab, Editor
  <2> HIDE DEF on, r
  <2> QED BY <1>2, <2>1, <2>2 DEF OneTab
<1>4. OneTab(off)
  <2>1. off \in Editor
    BY <1>2 DEF OneTab, Editor, Closed
  <2>2. off.text = None /\ off.known = r.known /\ off.base = None /\ off.typed = FALSE
    BY DEF Closed
  <2> HIDE DEF off, r
  <2> QED BY <1>2, <2>1, <2>2 DEF OneTab, Fresh
<1>5. OneTab(Opened(on))
  BY <1>3, OpenedOK
<1> HIDE DEF on, off
<1>6. TabsOK'
  BY <1>1, <1>4, <1>5, OneTabMoves
<1> QED BY <1>1, <1>6, EditorStep DEF IInv, FilesOK, Later

LEMMA SeeTypesSteps == ASSUME IInv, NEW t \in Tab, SeeTypes(t) PROVE IInv'
<1>1. "types" \in Artifact
  BY DEF Artifact
<1>2. PICK c \in Content : c = Current("types") /\ Fresh("types", c)
  BY <1>1, CurrentType DEF SeeTypes, IInv
<1> DEFINE r == [tab[t] EXCEPT !.known = c]
           seen == [r EXCEPT !.base = r.known, !.typed = FALSE]
           new == IF r.text = r.known THEN seen ELSE Opened(r)
<1>3. /\ tab' = [tab EXCEPT ![t] = new]
      /\ UNCHANGED <<files, proc, last, gestures, closed, crossed>>
  BY <1>2 DEF SeeTypes
<1>4. OneTab(tab[t])
  BY OneTabHas
<1>5. /\ r \in Editor /\ r.text = tab[t].text /\ r.known = c /\ r.base = tab[t].base
      /\ r.at = tab[t].at /\ r.typed = tab[t].typed
  BY <1>4 DEF OneTab, Editor
<1> HIDE DEF r
<1>6. OneTab(r)
  BY <1>2, <1>4, <1>5 DEF OneTab
<1>7. OneTab(new)
  <2>1. CASE r.text = r.known
    <3>1. seen \in Editor
      BY <1>5 DEF Editor
    <3>2. /\ seen.text = r.text /\ seen.known = c /\ seen.base = c /\ seen.at = r.at
          /\ seen.typed = FALSE
      BY <1>5 DEF Editor
    <3> HIDE DEF seen
    <3>3. OneTab(seen)
      BY <1>2, <1>5, <1>6, <2>1, <3>1, <3>2 DEF OneTab
    <3> QED BY <2>1, <3>3
  <2>2. CASE r.text # r.known
    BY <1>6, <2>2, OpenedOK
  <2> QED BY <2>1, <2>2
<1> HIDE DEF new
<1>8. TabsOK'
  BY <1>3, <1>7, OneTabMoves
<1> QED BY <1>3, <1>8, EditorStep DEF IInv, FilesOK, Later

LEMMA TypeSteps == ASSUME IInv, NEW t \in Tab, Type(t) PROVE IInv'
<1> DEFINE c == [tab[t].text EXCEPT !.id = last["types"] + 1]
           r == [tab[t] EXCEPT !.text = c, !.typed = TRUE]
<1>1. /\ tab' = [tab EXCEPT ![t] = r] /\ last' = [last EXCEPT !["types"] = @ + 1] /\ tab[t].text # None
      /\ UNCHANGED <<files, proc, closed, crossed>> /\ Gesture(t, "type")
  BY DEF Type, CanType
<1>2. /\ tab[t] \in Editor /\ TabOK(t) /\ last["types"] \in Nat
      /\ last'["types"] = last["types"] + 1 /\ Later
  BY <1>1 DEF IInv, TabsOK, FilesOK, Artifact, Later
<1>3. tab[t].text \in Content
  BY <1>1, <1>2 DEF Editor
<1>4. c \in Content /\ c.id = last["types"] + 1 /\ c.docs = tab[t].text.docs
  BY <1>2, <1>3 DEF Content
<1> HIDE DEF c
<1>5. r \in Editor
  BY <1>2, <1>4 DEF Editor
<1>6. /\ r.text = c /\ r.known = tab[t].known /\ r.base = tab[t].base /\ r.at = tab[t].at
  BY <1>2 DEF Editor
<1> HIDE DEF r
<1>7. tab' \in [Tab -> Editor] /\ tab'[t] = r /\ \A u \in Tab : u # t => tab'[u] = tab[u]
  BY <1>1, <1>5 DEF IInv, TabsOK
<1>8. ASSUME NEW u \in Tab PROVE TabOK(u)'
  <2>1. TabOK(u) /\ tab[u] \in Editor
    BY DEF IInv, TabsOK
  <2>2. CASE u = t
    BY <1>1, <1>2, <1>4, <1>6, <1>7, <2>1, <2>2 DEF TabOK, Fresh, Editor, Content
  <2>3. CASE u # t
    BY <1>2, <1>1, <1>7, <2>1, <2>3 DEF TabOK, Fresh, Editor, Content
  <2> QED BY <2>2, <2>3
<1>9. TabsOK'
  BY <1>7, <1>8 DEF TabsOK
<1> QED BY <1>1, <1>2, <1>9, GestureKept, EditorStep

-----------------------------------------------------------------------------
(* A job begins, and what it reads *)

LEMMA JobKind == ASSUME IInv, NEW j \in Job
                 PROVE  /\ j \in Proc /\ j \notin Tab /\ proc[j] \in Process /\ proc[j].todo = <<>>
                        /\ Typed(j) /\ Shape(j) /\ InHand(j) /\ There(j)
                        /\ \A a \in Held(j) \ crossed : Sure(j, a)
<1>1. j \in Proc /\ j \notin Tab
  BY DEF Proc
<1> QED BY <1>1, ProcKind DEF Typed

LEMMA JobMoves ==
    ASSUME IInv, NEW j \in Job, NEW r \in Process, Goes1(j, r),
           proc[j].at \notin {"reseal", "reopen", "save", "built", "retire", "patching"},
           r.at \notin {"save", "patching"}, r.copy = None, r.todo = <<>>,
           r.at \in {"write", "relabel", "tagging"} => r.src # None,
           r.at = "tagging" => r.seen \in 0..Saves,
           r.at \in {"read", "put", "built"} => r.seen # None,
           r.at = "read" => r.seen <= docs[Slot(r.art)],
           r.at = "put" => r.src # None /\ r.seen <= r.src.docs /\ r.src.docs <= docs[Slot(r.art)],
           Shape(j)', There(j)', \A a \in Held(j)' \ crossed : Sure(j, a)',
           UNCHANGED <<docs, curated, draft, built, review, last, closed, crossed, tab>>,
           record' \in Stamp \cup {None}, gestures' \in 0..Gestures
    PROVE  IInv'
<1>1. j \in Proc /\ Says(j) /\ r.todo \in Seq(FineErrand) /\ TabsOK'
  BY JobKind, SaysNothing, Nothing, TabsKept
<1> QED BY <1>1, MoveSteps

(* A job is queued. *)
LEMMA QueueSteps ==
    ASSUME IInv, NEW j \in Job, NEW a \in Artifact, NEW at \in {"docs", "begin"},
           proc[j].at = "idle", proc' = [proc EXCEPT ![j] = [Idle EXCEPT !.at = at, !.art = a]],
           at = "docs" => j \in {"build_kg", "build_profile"} /\ a = Makes(j),
           at = "begin" => j = "tag" /\ a = "bank" /\ Built("bank"),
           gestures' \in 0..Gestures, UNCHANGED <<files, tab, last, closed, crossed>>
    PROVE  IInv'
<1> DEFINE r == [Idle EXCEPT !.at = at, !.art = a]
<1>1. Goes1(j, r)
  BY DEF Goes1
<1>2. r \in Process
  BY Nothing, ZenonT(30) DEF Process, Idle, At
<1>3. r.at = at /\ r.art = a /\ r.next = "idle" /\ r.copy = None /\ r.todo = <<>>
  BY DEF Idle
<1> HIDE DEF r
<1>4. j \in Proc /\ j \notin Tab /\ proc'[j] = r
  BY <1>1, JobKind DEF Goes1, IInv
<1>5. Shape(j)' /\ There(j)' /\ Held(j)' = {}
  BY <1>3, <1>4 DEF Shape, AtBuild, AtTag, There, Held, Makes, Built, Current, files
<1> QED BY <1>1, <1>2, <1>3, <1>5, JobMoves DEF files, IInv

LEMMA BuildSteps == ASSUME IInv, NEW t \in Tab, NEW a \in Artifact, Build(t, a) PROVE IInv'
<1>1. /\ Gesture(t, "build") /\ CanBuild(a) /\ a # "bank"
      /\ proc' = [proc EXCEPT ![Builder[a]] = [Idle EXCEPT !.at = "docs", !.art = a]]
      /\ UNCHANGED <<files, tab, last, closed, crossed>>
  BY DEF Build, CanBuild
<1>2. PICK j \in Job : j = Builder[a] /\ j \in {"build_kg", "build_profile"} /\ a = Makes(j)
  BY <1>1 DEF Builder, Artifact, Job, Makes
<1>3. ~Building(a)
  BY <1>1 DEF CanBuild, DriftShown, Ready, Status
<1>4. proc[j].at = "idle"
  <2>1. Shape(j)
    BY JobKind
  <2> QED BY <1>1, <1>2, <1>3, <2>1 DEF Building, Shape, AtBuild
<1> QED BY <1>1, <1>2, <1>4, GestureKept, QueueSteps

LEMMA RetagSteps == ASSUME IInv, NEW t \in Tab, Retag(t) PROVE IInv'
<1>1. /\ Gesture(t, "tag") /\ Ready("bank")
      /\ proc' = [proc EXCEPT !["tag"] = [Idle EXCEPT !.at = "begin", !.art = "bank"]]
      /\ UNCHANGED <<files, tab, last, closed, crossed>>
  BY DEF Retag
<1>2. "tag" \in Job /\ "bank" \in Artifact
  BY DEF Job, Artifact
<1>3. proc["tag"].at = "idle"
  BY <1>1 DEF Ready, Status, Building
<1>4. Built("bank")
  BY <1>1, <1>2, ReadyBuilt
<1> QED BY <1>1, <1>2, <1>3, <1>4, GestureKept, QueueSteps

LEMMA SlotType == ASSUME IInv, NEW a \in Artifact PROVE docs[Slot(a)] \in Nat
  BY DEF IInv, FilesOK, Slot

LEMMA RecordDocsSteps == ASSUME IInv, NEW j \in Job, RecordDocs(j) PROVE IInv'
<1>1. proc[j].at = "docs" /\ UNCHANGED <<files, tab, last, gestures, closed, crossed>>
  BY DEF RecordDocs
<1>2. /\ j \in Proc /\ j \notin Tab /\ proc[j] \in Process /\ proc[j].todo = <<>>
      /\ Typed(j) /\ Shape(j) /\ There(j) /\ proc[j].art \in Artifact
  BY JobKind DEF Process
<1>3. PICK n \in Nat : n = docs[Slot(proc[j].art)]
  BY <1>2, SlotType
<1> DEFINE r == [proc[j] EXCEPT !.at = "read", !.seen = n]
<1>4. Goes1(j, r)
  BY <1>3 DEF RecordDocs, Goes1
<1>5. r \in Process
  BY <1>2, ZenonT(30) DEF Process, At
<1>6. /\ r.at = "read" /\ r.seen = n /\ r.art = proc[j].art /\ r.next = proc[j].next
      /\ r.copy = proc[j].copy /\ r.todo = proc[j].todo
  BY <1>2 DEF Process
<1> HIDE DEF r
<1>7. proc'[j] = r
  BY <1>2, <1>4 DEF Goes1, IInv
<1>8. Shape(j)' /\ There(j)' /\ Held(j)' = {}
  BY <1>1, <1>2, <1>6, <1>7
  DEF Shape, AtBuild, AtCollect, AtTag, There, Held, Job, Built, Current, files
<1>9. r.copy = None
  BY <1>1, <1>2, <1>6 DEF Typed
<1> QED BY <1>1, <1>2, <1>3, <1>4, <1>5, <1>6, <1>8, <1>9, JobMoves DEF files, IInv

LEMMA ReadDocsSteps == ASSUME IInv, NEW j \in Job, ReadDocs(j) PROVE IInv'
<1>1. proc[j].at = "read" /\ UNCHANGED <<files, tab, last, gestures, closed, crossed>>
  BY DEF ReadDocs
<1>2. /\ j \in Proc /\ j \notin Tab /\ proc[j] \in Process /\ proc[j].todo = <<>>
      /\ Typed(j) /\ Shape(j) /\ There(j) /\ InHand(j)
  BY JobKind
<1>3. PICK a \in Artifact : a = proc[j].art
  BY <1>2 DEF Process
<1>4. PICK n \in Nat : n = docs[Slot(a)]
  BY <1>2, SlotType
<1>5. PICK ty \in Nat : ty = IF a = "bank" THEN Current("types").id ELSE 0
  <2>1. a = "bank" => j = "collect"
    BY <1>1, <1>2, <1>3 DEF Shape, AtBuild, AtTag, Makes, Job
  <2>2. a = "bank" => Built("types")
    BY <1>1, <1>2, <2>1 DEF There
  <2>3. "types" \in Artifact /\ FilesOK
    BY DEF Artifact, IInv
  <2>4. a = "bank" => Current("types") \in Content
    BY <2>2, <2>3, CurrentType
  <2> QED BY <2>4 DEF Content
<1> DEFINE c == [id |-> 0, docs |-> n, judged |-> 0, concepts |-> 0, types |-> ty]
           r == [proc[j] EXCEPT !.at = "put", !.src = c]
<1>6. Goes1(j, r)
  BY <1>3, <1>4, <1>5 DEF ReadDocs, Goes1
<1>7. c \in Content /\ c.docs = n
  BY DEF Content
<1> HIDE DEF c
<1>8. r \in Process
  BY <1>2, <1>7, ZenonT(30) DEF Process, At
<1>9. /\ r.at = "put" /\ r.seen = proc[j].seen /\ r.art = a /\ r.next = proc[j].next
      /\ r.copy = proc[j].copy /\ r.todo = proc[j].todo /\ r.src = c
  BY <1>2, <1>3 DEF Process
<1> HIDE DEF r
<1>10. proc'[j] = r
  BY <1>2, <1>6 DEF Goes1, IInv
<1>11. Shape(j)' /\ There(j)' /\ Held(j)' = {}
  BY <1>1, <1>2, <1>3, <1>9, <1>10
  DEF Shape, AtBuild, AtCollect, AtTag, There, Held, Job, Built, Current, files
<1>12. r.copy = None /\ c # None /\ r.seen # None /\ r.seen <= c.docs /\ c.docs <= docs[Slot(r.art)]
  BY <1>1, <1>2, <1>3, <1>4, <1>7, <1>9 DEF Typed, InHand
<1> QED BY <1>1, <1>2, <1>6, <1>8, <1>9, <1>11, <1>12, JobMoves DEF files, IInv

LEMMA FailSteps == ASSUME IInv, NEW j \in Job, Fail(j), proc[j].at # "patching" PROVE IInv'
<1>1. /\ proc[j].at \in {"docs", "read", "put", "review", "judged", "index", "begin", "tagging"}
      /\ Goes1(j, Idle) /\ UNCHANGED <<files, tab, last, gestures, closed, crossed>>
  BY DEF Fail, Goes1
<1>2. Idle \in Process /\ Idle.at = "idle" /\ Idle.copy = None /\ Idle.todo = <<>>
      /\ Idle.next = "idle"
  BY Nothing, ZenonT(30) DEF Idle, Process, At, Artifact
<1>3. j \in Proc /\ j \notin Tab /\ proc'[j] = Idle
  BY <1>1, JobKind DEF Goes1, IInv
<1>4. Shape(j)' /\ There(j)' /\ Held(j)' = {}
  BY <1>2, <1>3 DEF Shape, AtBuild, AtCollect, AtTag, There, Held
<1> QED BY <1>1, <1>2, <1>4, JobMoves DEF files, IInv

-----------------------------------------------------------------------------
(* The collection reads and goes on *)

LEMMA CollectKind ==
    ASSUME IInv, proc["collect"].at # "idle"
    PROVE  /\ "collect" \in Job /\ "collect" \in Proc /\ "collect" \notin Tab
           /\ proc["collect"] \in Process /\ proc["collect"].todo = <<>>
           /\ Typed("collect") /\ AtCollect(proc["collect"])
           /\ Current("types") \in Content /\ Current("graph") \in Content
           /\ Built("types") /\ Built("graph") /\ There("collect")
<1>1. "collect" \in Job /\ "types" \in Artifact /\ "graph" \in Artifact
  BY DEF Job, Artifact
<1>2. /\ "collect" \in Proc /\ "collect" \notin Tab
      /\ proc["collect"] \in Process /\ proc["collect"].todo = <<>>
      /\ Typed("collect") /\ Shape("collect") /\ There("collect")
  BY <1>1, JobKind
<1>3. Built("types") /\ Built("graph") /\ FilesOK
  BY <1>2 DEF There, IInv
<1>4. Current("types") \in Content /\ Current("graph") \in Content
  BY <1>1, <1>3, CurrentType
<1> QED BY <1>1, <1>2, <1>3, <1>4 DEF Shape

LEMMA FingerprintType == ASSUME IInv, proc["collect"].at # "idle" PROVE Fingerprint \in Stamp
  BY CollectKind DEF Fingerprint, Stamp, Content

(* What is there when the collection goes on is still there. *)
LEMMA CollectHas ==
    ASSUME IInv, proc["collect"].at # "idle", NEW r \in Process, proc'["collect"] = r,
           r.at \notin {"built", "retire", "reseal"},
           r.at \in {"index", "close"} => Built("bank"),
           UNCHANGED <<curated, draft>>
    PROVE  There("collect")'
  BY CollectKind DEF There, Built, Current

(* It goes on to a place where it holds nothing. *)
LEMMA CollectGoes ==
    ASSUME IInv, NEW at \in {"judged", "advance", "close"},
           proc["collect"].at \in {"review", "record", "index"},
           at = "judged" => proc'["collect"].print # None,
           at = "close" => Built("bank"),
           NEW r \in Process, Goes1("collect", r), r.at = at, r.art = proc["collect"].art,
           r.copy = proc["collect"].copy, r.todo = proc["collect"].todo,
           at = "close" => proc["collect"].at = "index",
           UNCHANGED <<docs, curated, draft, built, review, tab, last, gestures, closed, crossed>>,
           record' \in Stamp \cup {None}
    PROVE  IInv'
<1>1. /\ "collect" \in Job /\ "collect" \in Proc /\ "collect" \notin Tab
      /\ proc["collect"].todo = <<>> /\ Typed("collect") /\ AtCollect(proc["collect"])
  BY CollectKind
<1>2. proc'["collect"] = r
  BY <1>1 DEF Goes1, IInv
<1>3. Shape("collect")' /\ Held("collect")' = {}
  BY <1>1, <1>2 DEF Shape, AtCollect, Held
<1>4. There("collect")'
  BY <1>2, CollectHas
<1>5. r.copy = None
  BY <1>1 DEF Typed
<1> QED BY <1>1, <1>3, <1>4, <1>5, JobMoves DEF IInv

LEMMA ReviewSteps == ASSUME IInv, Skip \/ Judge \/ RecordReview \/ Index PROVE IInv'
<1>0. proc["collect"].at # "idle"
  BY DEF Skip, Judge, RecordReview, Index
<1>1. /\ proc["collect"] \in Process /\ "collect" \in Proc /\ Fingerprint \in Stamp
      /\ record \in Stamp \cup {None}
  BY <1>0, CollectKind, FingerprintType DEF IInv
<1>2. ASSUME NEW at \in {"advance", "close"}, proc["collect"].at \in {"review", "record", "index"},
             Goes("collect", at), at = "close" => Built("bank") /\ proc["collect"].at = "index",
             UNCHANGED <<docs, curated, draft, built, review, tab, last, gestures, closed, crossed>>,
             record' \in Stamp \cup {None}
      PROVE  IInv'
  <2> DEFINE r == [proc["collect"] EXCEPT !.at = at]
  <2>1. Goes1("collect", r)
    BY <1>2 DEF Goes, Goes1
  <2>2. r \in Process
    BY <1>1, <1>2, ZenonT(30) DEF Process, At
  <2>3. r.at = at /\ r.art = proc["collect"].art /\ r.copy = proc["collect"].copy
        /\ r.todo = proc["collect"].todo
    BY <1>1 DEF Process
  <2> HIDE DEF r
  <2> QED BY <1>2, <2>1, <2>2, <2>3, CollectGoes
<1>3. CASE Skip
  BY <1>1, <1>2, <1>3 DEF Skip
<1>4. CASE RecordReview
  BY <1>1, <1>2, <1>4 DEF RecordReview
<1>5. CASE Index
  <2>1. Built("bank")
    BY <1>0, <1>5, CollectKind DEF There, Index
  <2> QED BY <1>1, <1>2, <1>5, <2>1 DEF Index, files
<1>6. CASE Judge
  <2>1. PICK f \in Stamp : f = Fingerprint
    BY <1>1
  <2> DEFINE r == [proc["collect"] EXCEPT !.at = "judged", !.print = f]
  <2>2. Goes1("collect", r) /\ proc["collect"].at = "review"
        /\ UNCHANGED <<files, tab, last, gestures, closed, crossed>>
    BY <1>6, <2>1 DEF Judge, Goes1
  <2>3. r \in Process
    BY <1>1, ZenonT(30) DEF Process, At
  <2>4. r.at = "judged" /\ r.art = proc["collect"].art /\ r.copy = proc["collect"].copy
        /\ r.todo = proc["collect"].todo /\ r.print = f
    BY <1>1 DEF Process
  <2> HIDE DEF r
  <2>5. proc'["collect"].print # None
    BY <1>1, <2>2, <2>4 DEF Goes1, IInv
  <2> QED BY <1>1, <2>2, <2>3, <2>4, <2>5, CollectGoes DEF files
<1> QED BY <1>3, <1>4, <1>5, <1>6

(* Nobody but the collection gives the syllabus its approval back, and     *)
(* nobody but the tagging the bank's.                                      *)
LEMMA WhoGives ==
    ASSUME IInv, NEW a \in {"graph", "bank"},
           a = "graph" => proc["collect"].at \notin {"reseal", "reopen", "save"},
           a = "bank" => proc["tag"].at \notin {"reseal", "reopen", "save", "patching"}
    PROVE  \A p \in Proc : ~Gives(p, a)
<1>1. AtCollect(proc["collect"]) /\ AtTag(proc["tag"]) /\ "collect" # "tag"
  BY JobKind DEF Shape, Job
<1> QED BY <1>1 DEF Gives, AtCollect, AtTag

LEMMA SealedAgrees ==
    ASSUME IInv, NEW a \in {"graph", "bank"}, a \notin crossed, \A p \in Proc : ~Gives(p, a)
    PROVE  Sealed(a) <=> Current(a) \in closed[a]
  BY DEF IInv, Sound, Agreed, Artifact

LEMMA LookSealedSteps == ASSUME IInv, LookSealed PROVE IInv'
<1>1. PICK f \in BOOLEAN : f = Sealed("graph")
  BY DEF Sealed
<1> DEFINE r == [proc["collect"] EXCEPT !.at = "raw", !.flag = f]
<1>2. Goes1("collect", r) /\ proc["collect"].at = "judged"
      /\ UNCHANGED <<files, tab, last, gestures, closed, crossed>>
  BY <1>1 DEF LookSealed, Goes1
<1>3. /\ "collect" \in Job /\ "collect" \in Proc /\ "collect" \notin Tab
      /\ proc["collect"] \in Process
      /\ proc["collect"].todo = <<>> /\ Typed("collect") /\ AtCollect(proc["collect"])
  BY <1>2, CollectKind
<1>4. r \in Process
  BY <1>3, ZenonT(30) DEF Process, At
<1>5. r.at = "raw" /\ r.flag = f /\ r.art = proc["collect"].art /\ r.copy = proc["collect"].copy
      /\ r.todo = proc["collect"].todo /\ r.print = proc["collect"].print
  BY <1>3 DEF Process
<1> HIDE DEF r
<1>6. proc'["collect"] = r /\ UNCHANGED <<curated, draft, closed>>
  BY <1>2, <1>3 DEF Goes1, IInv, files
<1>7. Shape("collect")' /\ Held("collect")' = {"graph"}
  BY <1>2, <1>3, <1>5, <1>6 DEF Shape, AtCollect, Held
<1>8. There("collect")'
  BY <1>2, <1>4, <1>5, <1>6, CollectHas
<1>9. r.copy = None
  BY <1>2, <1>3, <1>5 DEF Typed
<1>10. ASSUME "graph" \notin crossed PROVE Sure("collect", "graph")'
  <2>1. \A p \in Proc : ~Gives(p, "graph")
    BY <1>2, WhoGives
  <2>2. f <=> Current("graph") \in closed["graph"]
    BY <1>1, <1>10, <2>1, SealedAgrees
  <2>3. Current("graph")' = Current("graph")
    BY <1>6 DEF Current
  <2> QED BY <1>5, <1>6, <2>2, <2>3 DEF Sure, Gives, Withdraws
<1>11. \A a \in Held("collect")' \ crossed : Sure("collect", a)'
  <2> SUFFICES ASSUME NEW a \in Held("collect")' \ crossed PROVE Sure("collect", a)'
    OBVIOUS
  <2>1. a = "graph" /\ "graph" \notin crossed
    BY <1>7
  <2> QED BY <1>10, <2>1, Zenon
<1> QED BY <1>2, <1>3, <1>4, <1>5, <1>7, <1>8, <1>9, <1>11, JobMoves DEF files, IInv

LEMMA ReadGraphSteps == ASSUME IInv, ReadGraph PROVE IInv'
<1>0. proc["collect"].at = "raw"
  BY DEF ReadGraph
<1>1. PICK c \in Content : c = Current("graph")
  BY <1>0, CollectKind
<1> DEFINE r == [proc["collect"] EXCEPT !.at = "relabel", !.src = c]
<1>2. Goes1("collect", r) /\ UNCHANGED <<files, tab, last, gestures, closed, crossed>>
  BY <1>1 DEF ReadGraph, Goes1
<1>3. /\ "collect" \in Job /\ "collect" \in Proc /\ "collect" \notin Tab
      /\ proc["collect"] \in Process
      /\ proc["collect"].todo = <<>> /\ Typed("collect") /\ AtCollect(proc["collect"])
  BY <1>0, CollectKind
<1>4. r \in Process
  BY <1>3, ZenonT(30) DEF Process, At
<1>5. r.at = "relabel" /\ r.flag = proc["collect"].flag /\ r.art = proc["collect"].art
      /\ r.copy = proc["collect"].copy
      /\ r.todo = proc["collect"].todo /\ r.print = proc["collect"].print /\ r.src = c
  BY <1>3 DEF Process
<1> HIDE DEF r
<1>6. proc'["collect"] = r /\ UNCHANGED <<curated, draft, closed>>
  BY <1>2, <1>3 DEF Goes1, IInv, files
<1>7. Shape("collect")' /\ Held("collect")' = {"graph"} /\ Held("collect") = {"graph"}
  BY <1>0, <1>3, <1>5, <1>6 DEF Shape, AtCollect, Held
<1>8. There("collect")'
  BY <1>0, <1>4, <1>5, <1>6, CollectHas
<1>9. r.copy = None /\ c # None
  BY <1>0, <1>3, <1>5 DEF Typed
<1>11. ASSUME NEW a \in Held("collect")' \ crossed PROVE Sure("collect", a)'
  <2>1. a = "graph" /\ Sure("collect", a)
    BY <1>3, <1>7, <1>11, JobKind
  <2>2. Current("graph")' = Current("graph")
    BY <1>6 DEF Current
  <2> QED BY <1>0, <1>1, <1>5, <1>6, <2>1, <2>2 DEF Sure, Gives, Withdraws
<1> QED BY <1>0, <1>2, <1>3, <1>4, <1>5, <1>7, <1>8, <1>9, <1>11, JobMoves DEF files, IInv

LEMMA AdvanceSteps == ASSUME IInv, Advance PROVE IInv'
<1>1. PICK at \in {"docs", "index", "idle"} :
         /\ at = (IF GateOpen("bank") THEN "docs"
                  ELSE IF Built("types") /\ Built("bank") THEN "index" ELSE "idle")
  OBVIOUS
<1> DEFINE r == [Idle EXCEPT !.art = "bank", !.at = at]
<1>2. /\ Goes1("collect", r) /\ proc["collect"].at = "advance"
      /\ UNCHANGED <<files, tab, last, gestures, closed, crossed>>
      /\ (at = "index" => Built("bank"))
  BY <1>1 DEF Advance, Goes1
<1>3. "collect" \in Job /\ "collect" \in Proc /\ "collect" \notin Tab
  BY <1>2, CollectKind
<1>4. r \in Process
  BY Nothing, ZenonT(30) DEF Process, Idle, At, Artifact
<1>5. r.at = at /\ r.art = "bank" /\ r.copy = None /\ r.todo = <<>>
  BY DEF Idle
<1> HIDE DEF r
<1>6. proc'["collect"] = r /\ UNCHANGED <<curated, draft>>
  BY <1>2, <1>3 DEF Goes1, IInv, files
<1>7. Shape("collect")' /\ Held("collect")' = {}
  BY <1>3, <1>5, <1>6 DEF Shape, AtCollect, Held
<1>8. There("collect")'
  BY <1>2, <1>4, <1>5, <1>6, CollectHas
<1> QED BY <1>2, <1>3, <1>4, <1>5, <1>7, <1>8, JobMoves DEF files, IInv

LEMMA CloseSteps == ASSUME IInv, Close PROVE IInv'
<1>1. /\ proc["collect"].at = "close"
      /\ UNCHANGED <<files, tab, last, gestures, closed, crossed>>
  BY DEF Close
<1>2. /\ "collect" \in Job /\ "collect" \in Proc /\ "collect" \notin Tab
      /\ proc["collect"] \in Process
      /\ proc["collect"].todo = <<>> /\ Typed("collect") /\ AtCollect(proc["collect"])
      /\ There("collect")
  BY <1>1, CollectKind
<1>3. CASE GateOpen("bank")
  <2>1. Load("collect", "bank", Approval("bank"), "idle")
    BY <1>3 DEF Close
  <2>2. Built("bank") /\ "bank" \in Artifact /\ "idle" \in At /\ FilesOK
    BY <1>1, <1>2 DEF There, Artifact, At, IInv
  <2>3. PICK r \in Process :
             /\ Goes1("collect", r) /\ r.at = "save" /\ r.art = "bank" /\ r.next = "idle"
             /\ r.copy \in Review /\ r.copy # None /\ FineReview(r.copy)
             /\ r.copy["bank"] = Approval("bank")
             /\ \A b \in Artifact : b # "bank" => r.copy[b] = review[b]
             /\ r.copy["bank"] # None => r.copy["bank"].hash = Current("bank")
             /\ r.todo = proc["collect"].todo
    BY <1>2, <2>1, <2>2, LoadOK
  <2>4. r.copy["bank"] # None
    BY <2>2, <2>3, ApprovalOK
  <2>5. proc'["collect"] = r /\ r.todo \in Seq(FineErrand)
    BY <1>2, <2>3, Nothing DEF Goes1, IInv
  <2>6. Shape("collect")' /\ Says("collect")
    BY <1>1, <1>2, <2>3, <2>4, <2>5, SaysNothing DEF Shape, AtCollect
  <2>7. ~Gives("collect", "bank")' /\ ~Withdraws("collect", "bank")'
    BY <2>3, <2>4, <2>5 DEF Gives, Withdraws
  <2>8. "bank" \notin crossed =>
           /\ Gives("collect", "bank")' => Current("bank") \in closed["bank"]
           /\ Withdraws("collect", "bank")' /\ ~Gives("collect", "bank")'
                => Current("bank") \notin closed["bank"]
    BY <2>7
  <2>9. /\ r.todo # <<>> => "collect" \in Tab
        /\ proc["collect"].at # "idle" /\ "bank" \in Artifact /\ "collect" \in Proc
        /\ UNCHANGED <<files, tab, last, gestures, closed, crossed>>
    BY <1>1, <1>2, <2>2, <2>3
  <2>10. r.todo \in Seq(FineErrand)
    BY <2>5
  <2> QED BY <2>3, <2>6, <2>8, <2>9, <2>10, LoadSteps
<1>4. CASE ~GateOpen("bank")
  <2> DEFINE r == [proc["collect"] EXCEPT !.at = "idle"]
  <2>1. Goes1("collect", r)
    BY <1>4 DEF Close, Goes, Goes1
  <2>2. r \in Process
    BY <1>2, ZenonT(30) DEF Process, At
  <2>3. r.at = "idle" /\ r.copy = proc["collect"].copy /\ r.todo = proc["collect"].todo
    BY <1>2 DEF Process
  <2> HIDE DEF r
  <2>4. proc'["collect"] = r /\ UNCHANGED <<curated, draft>> /\ r.copy = None
    BY <1>1, <1>2, <2>1, <2>3 DEF Goes1, IInv, files, Typed
  <2>5. Shape("collect")' /\ Held("collect")' = {}
    BY <1>2, <2>3, <2>4 DEF Shape, AtCollect, Held
  <2>6. There("collect")'
    BY <1>1, <2>2, <2>3, <2>4, CollectHas
  <2> QED BY <1>1, <1>2, <2>1, <2>2, <2>3, <2>4, <2>5, <2>6, JobMoves DEF files, IInv
<1> QED BY <1>3, <1>4

LEMMA BeginTagSteps == ASSUME IInv, BeginTag PROVE IInv'
<1>0. proc["tag"].at = "begin" /\ UNCHANGED <<files, tab, last, gestures, closed, crossed>>
  BY DEF BeginTag
<1>1. /\ "tag" \in Job /\ "tag" \in Proc /\ "tag" \notin Tab /\ proc["tag"] \in Process
      /\ proc["tag"].todo = <<>> /\ Typed("tag") /\ AtTag(proc["tag"]) /\ There("tag")
  BY JobKind DEF Shape, Job
<1>2. Built("bank") /\ FilesOK /\ "bank" \in Artifact
  BY <1>0, <1>1 DEF There, IInv, Artifact
<1>3. PICK c \in Content : c = Current("bank")
  BY <1>2, CurrentType
<1>4. PICK f \in BOOLEAN : f = Sealed("bank")
  BY DEF Sealed
<1> DEFINE r == [proc["tag"] EXCEPT !.at = "tagging", !.flag = f, !.src = c, !.seen = 0]
<1>5. Goes1("tag", r)
  BY <1>3, <1>4 DEF BeginTag, Goes1
<1>6. r \in Process
  BY <1>1, ZenonT(30) DEF Process, At
<1>7. /\ r.at = "tagging" /\ r.flag = f /\ r.src = c /\ r.art = proc["tag"].art
      /\ r.seen \in 0..Saves /\ r.copy = proc["tag"].copy /\ r.todo = proc["tag"].todo
  BY <1>1 DEF Process
<1> HIDE DEF r
<1>8. proc'["tag"] = r /\ UNCHANGED <<curated, draft, closed>>
  BY <1>0, <1>1, <1>5 DEF Goes1, IInv, files
<1>9. Shape("tag")' /\ Held("tag")' = {"bank"} /\ There("tag")'
  BY <1>0, <1>1, <1>2, <1>7, <1>8 DEF Shape, AtTag, Held, There, Built, Current
<1>10. r.copy = None /\ c # None
  BY <1>0, <1>1, <1>7 DEF Typed
<1>11. ASSUME NEW a \in Held("tag")' \ crossed PROVE Sure("tag", a)'
  <2>1. a = "bank" /\ "bank" \notin crossed
    BY <1>9, <1>11
  <2>2. \A p \in Proc : ~Gives(p, "bank")
    BY <1>0, WhoGives
  <2>3. f <=> Current("bank") \in closed["bank"]
    BY <1>4, <2>1, <2>2, SealedAgrees
  <2>4. Current("bank")' = Current("bank")
    BY <1>8 DEF Current
  <2> QED BY <1>3, <1>7, <1>8, <2>1, <2>3, <2>4 DEF Sure, Gives, Withdraws
<1> QED BY <1>0, <1>1, <1>5, <1>6, <1>7, <1>9, <1>10, <1>11, JobMoves DEF files, IInv

-----------------------------------------------------------------------------
(* A step of one process that writes an artifact or its approval *)

LEMMA WriteStepThose ==
    ASSUME IInv, NEW p \in Proc, NEW r \in Process, Goes1(p, r), NEW a \in Artifact,
           FilesOK', Grows, record' \in Stamp \cup {None}, TabsOK', gestures' \in 0..Gestures,
           \A b \in Artifact \ crossed' : b # a => Same(b),
           \A b \in Artifact : b # a => built'[b] = built[b],
           \A q \in Proc : q # p /\ a \in Held(q) \ crossed' => Kept(q, a),
           \A q \in Proc : q # p /\ proc[q].at = "retire" /\ proc[q].art = a => built'[a] = built[a],
           \A b \in Artifact : b # a => ~Replaces(p, b) /\ ~Gives(p, b) /\ ~Withdraws(p, b),
           Good(p)', Sound(a)'
    PROVE  IInv'
<1>1. proc' \in [Proc -> Process] /\ \A q \in Proc : q # p => proc'[q] = proc[q]
  BY DEF IInv, Goes1
<1>2. \A q \in Proc : Good(q)'
  <2> SUFFICES ASSUME NEW q \in Proc, q # p PROVE Good(q)'
    OBVIOUS
  <2>1. Good(q) /\ proc'[q] = proc[q] /\ proc[q].art \in Artifact /\ FilesOK
    BY <1>1 DEF IInv, Process
  <2>2. \A b \in Held(q) : b \in Artifact
    BY <2>1 DEF Held, Artifact
  <2>3. \A b \in Held(q) \ crossed' : Kept(q, b)
    <3> SUFFICES ASSUME NEW b \in Held(q) \ crossed' PROVE Kept(q, b)
      OBVIOUS
    <3>1. CASE b = a
      <4>1. Kept(q, a)
        BY <3>1
      <4> QED BY <3>1, <4>1 DEF Kept
    <3>2. CASE b # a
      BY <2>2, <3>2 DEF Same, Kept
    <3> QED BY <3>1, <3>2
  <2>4. proc[q].at = "retire" => built'[proc[q].art] = built[proc[q].art]
    BY <2>1
  <2> QED BY <2>1, <2>3, <2>4, OtherKeepsThose
<1>3. ASSUME NEW b \in Artifact, b # a PROVE Sound(b)'
  <2>1. CASE b \in crossed'
    BY <2>1 DEF Sound
  <2>2. CASE b \notin crossed'
    <3>1. \A q \in Proc : /\ Replaces(q, b) => Replaces(q, b)'
                          /\ Gives(q, b) => Gives(q, b)'
                          /\ Withdraws(q, b) => Withdraws(q, b)'
      <4> SUFFICES ASSUME NEW q \in Proc
                   PROVE  /\ Replaces(q, b) => Replaces(q, b)'
                          /\ Gives(q, b) => Gives(q, b)'
                          /\ Withdraws(q, b) => Withdraws(q, b)'
        OBVIOUS
      <4>1. CASE q = p
        BY <1>3, <4>1
      <4>2. CASE q # p
        BY <1>1, <4>2 DEF Replaces, Gives, Withdraws
      <4> QED BY <4>1, <4>2
    <3>2. Same(b) /\ built'[b] = built[b] /\ Sound(b) /\ FilesOK
      BY <1>3, <2>2 DEF IInv
    <3> QED BY <3>1, <3>2, ArtKeeps
  <2> QED BY <2>1, <2>2
<1>4. \A b \in Artifact : Sound(b)'
  <2> SUFFICES ASSUME NEW b \in Artifact, b = a PROVE Sound(b)'
    BY <1>3
  <2> QED BY Zenon
<1> QED BY <1>1, <1>2, <1>4 DEF IInv

LEMMA WriteStep ==
    ASSUME IInv, NEW p \in Proc, NEW r \in Process, Goes1(p, r), NEW a \in Artifact,
           FilesOK', Grows, record' \in Stamp \cup {None}, TabsOK', gestures' \in 0..Gestures,
           \A b \in Artifact \ crossed' : b # a => Same(b),
           \A b \in Artifact : b # a => built'[b] = built[b],
           \A q \in Proc : q # p /\ a \in Held(q) \ crossed' => Same(a),
           \A q \in Proc : q # p /\ proc[q].at = "retire" /\ proc[q].art = a => built'[a] = built[a],
           \A b \in Artifact : b # a => ~Replaces(p, b) /\ ~Gives(p, b) /\ ~Withdraws(p, b),
           Good(p)', Sound(a)'
    PROVE  IInv'
<1>1. \A q \in Proc : q # p /\ a \in Held(q) \ crossed' => Kept(q, a)
  BY DEF Same, Kept
<1> QED BY <1>1, WriteStepThose

(* Whoever writes without the others noticing is alone with the artifact. *)
Alone(p, a) == a \notin crossed /\ \A q \in Proc : q # p => a \notin Held(q)

LEMMA Touched ==
    ASSUME IInv, NEW p \in Proc, NEW a \in Artifact, Touch(p, a)
    PROVE  /\ crossed' \in SUBSET Artifact /\ crossed \subseteq crossed'
           /\ a \notin crossed' => Alone(p, a)
  BY DEF Touch, Busy, Alone, IInv, FilesOK

(* Nobody else speaks of an artifact one is alone with. *)
LEMMA AloneQuiet ==
    ASSUME NEW p \in Proc, NEW a \in Artifact, Alone(p, a)
    PROVE  \A q \in Proc : q # p => ~Replaces(q, a) /\ ~Gives(q, a) /\ ~Withdraws(q, a)
  BY DEF Alone, Held, Replaces, Gives, Withdraws

LEMMA PutFile ==
    ASSUME FilesOK, NEW a \in Artifact, NEW c \in Content, Later,
           c.id <= last'[a], curated' = [curated EXCEPT ![a] = c],
           closed' \in [Artifact -> SUBSET Content],
           \A b \in Artifact : b # a => closed'[b] = closed[b],
           closed'[a] \subseteq closed[a] \cup {c},
           crossed' \in SUBSET Artifact, crossed \subseteq crossed',
           UNCHANGED <<docs, draft, built, review>>
    PROVE  /\ FilesOK' /\ Grows /\ Current(a)' = c /\ Built(a)'
           /\ \A b \in Artifact : b # a => Same(b) /\ built'[b] = built[b]
<1>1. curated' \in [Artifact -> Content \cup {None}] /\ curated'[a] = c /\ c # None
      /\ \A b \in Artifact : b # a => curated'[b] = curated[b]
  BY DEF FilesOK
<1>2. FineReview(review)'
  BY DEF Later, FilesOK, FineReview, Review, Entry, Content
<1>3. \A b \in Artifact : Fresh(b, curated[b])' /\ Fresh(b, draft[b])'
  BY <1>1 DEF Later, FilesOK, Fresh, Content
<1>4. \A b \in Artifact : \A x \in closed'[b] : x.id <= last'[b]
  <2> SUFFICES ASSUME NEW b \in Artifact, NEW x \in closed'[b] PROVE x.id <= last'[b]
    OBVIOUS
  <2>1. x = c \/ x \in closed[b]
    OBVIOUS
  <2>2. closed[b] \subseteq Content /\ \A y \in closed[b] : y.id <= last[b]
    BY DEF FilesOK
  <2> QED BY <2>1, <2>2 DEF Later, Content, FilesOK
<1>5. FilesOK'
  BY <1>1, <1>2, <1>3, <1>4 DEF FilesOK, Later
<1>6. Current(a)' = c /\ Built(a)'
  BY <1>1 DEF Current, Built
<1>7. Grows
  BY <1>1, <1>6 DEF Grows, Built, Current, FilesOK
<1> QED BY <1>1, <1>5, <1>6, <1>7 DEF Same

(* A new name is nobody's yet. *)
LEMMA NewName ==
    ASSUME FilesOK, NEW a \in Artifact, NEW c \in Content, c.id = last[a] + 1
    PROVE  c \notin closed[a] /\ (review[a] # None => review[a].hash # c)
  BY DEF FilesOK, FineReview, Content, Review, Entry

(* A content made of another, by one who is alone with it, is as dated. *)
LEMMA Remade ==
    ASSUME IInv, NEW p \in Proc, NEW a \in Artifact, Alone(p, a), ~Replaces(p, a), Built(a),
           NEW c \in Content, c.docs = Current(a).docs, Current(a)' = c, UNCHANGED <<docs, built>>
    PROVE  Dated(a)'
<1>1. Dated(a)
  BY DEF IInv, Sound, Alone
<1>2. \A q \in Proc : ~Replaces(q, a)
  BY AloneQuiet
<1> QED BY <1>1, <1>2 DEF Dated, Slot

(* The file of a is written and nothing else; its writer goes on to r. *)
LEMMA FileStep ==
    ASSUME IInv, NEW p \in Proc, NEW r \in Process, Goes1(p, r), NEW a \in Artifact,
           FilesOK', Grows, \A b \in Artifact : b # a => Same(b),
           UNCHANGED <<docs, built, record, tab, gestures>>, a \notin crossed' => Alone(p, a),
           \/ proc[p].at \notin {"reseal", "reopen", "save", "built", "retire", "patching"}
           \/ proc[p].at = "patching" /\ proc[p].art = a,
           r.art = a, r.copy = None, r.todo \in Seq(FineErrand), r.todo # <<>> => p \in Tab,
           r.at \in {"idle", "reopen", "reseal", "built", "patching"},
           r.at = "built" => r.seen # None,
           r.at = "patching" => r.src # None /\ r.src.id <= last'["bank"] /\ r.seen \in 0..Saves,
           Shape(p)', There(p)',
           a \notin crossed' => Sure(p, a)' /\ Dated(a)' /\ Agreed(a)'
    PROVE  IInv'
<1>1. FilesOK /\ tab \in [Tab -> Editor] /\ proc'[p] = r
  BY DEF IInv, TabsOK, Goes1
<1>2. TabsOK'
  <2>1. Later /\ last \in [Artifact -> Nat]
    BY <1>1 DEF Grows, FilesOK
  <2>2. \A t \in Tab : TabOK(t)'
    <3> SUFFICES ASSUME NEW t \in Tab PROVE TabOK(t)'
      OBVIOUS
    <3>1. TabOK(t) /\ tab[t] \in Editor /\ tab' = tab
      BY <1>1 DEF IInv, TabsOK
    <3>2. \A b \in Artifact, x \in Content \cup {None} : Fresh(b, x) => Fresh(b, x)'
      BY <2>1 DEF Fresh, Content, Later
    <3> QED BY <3>1, <3>2 DEF TabOK, Editor, Artifact
  <2> QED BY <1>1, <2>2 DEF TabsOK
<1>3. record' \in Stamp \cup {None} /\ gestures' \in 0..Gestures
  BY DEF IInv
<1>4. \A b \in Artifact : b # a => ~Replaces(p, b) /\ ~Gives(p, b) /\ ~Withdraws(p, b)
  BY DEF Replaces, Gives, Withdraws
<1>5. \A q \in Proc : q # p /\ a \in Held(q) \ crossed' => Same(a)
  BY DEF Alone
<1>6. Good(p)'
  <2>1. r.todo \in Seq(FineErrand)'
    BY <1>1, FineGrows
  <2>2. Typed(p)' /\ InHand(p)'
    BY <1>1, <2>1 DEF Typed, InHand
  <2>3. \A b \in Held(p)' \ crossed' : b = a
    BY <1>1 DEF Held
  <2>4. \A b \in Held(p)' \ crossed' : Sure(p, b)'
    <3> SUFFICES ASSUME NEW b \in Held(p)' \ crossed' PROVE Sure(p, b)'
      OBVIOUS
    <3>1. b = a /\ a \notin crossed'
      BY <2>3
    <3>2. Sure(p, a)'
      BY <3>1
    <3> QED BY <3>1, <3>2, Zenon
  <2> QED BY <2>2, <2>4 DEF Good
<1>7. Sound(a)'
  BY DEF Sound
<1> QED BY <1>1, <1>2, <1>3, <1>4, <1>5, <1>6, <1>7, WriteStep

-----------------------------------------------------------------------------
(* A correction is written *)

LEMMA EditedType == ASSUME NEW c \in Content, NEW a \in Artifact, NEW n \in Nat
                    PROVE  /\ Edited(c, a, n) \in Content /\ Edited(c, a, n).id = n
                           /\ Edited(c, a, n).docs = c.docs
  BY DEF Edited, Content

LEMMA WriteEditSteps == ASSUME IInv, NEW t \in Tab, WriteEdit(t) PROVE IInv'
<1>0. PICK a \in Artifact : a = proc[t].art
  BY TabKind, ProcKind
<1>1. /\ t \in Proc /\ t \notin Job /\ proc[t] \in Process /\ AtTab(proc[t]) /\ Typed(t)
      /\ proc[t].at = "write" /\ proc[t].todo \in Seq(FineErrand)
      /\ (a \notin crossed => Sure(t, a)) /\ FilesOK
  BY <1>0, TabKind, ProcKind DEF WriteEdit, Held, IInv
<1>2. proc[t].src \in Content /\ last[a] + 1 \in Nat
  BY <1>1 DEF Typed, Process, FilesOK
<1>3. PICK c \in Content : /\ c = Edited(proc[t].src, a, last[a] + 1) /\ c.id = last[a] + 1
                           /\ c.docs = proc[t].src.docs
  BY <1>2, EditedType
<1>4. PICK at \in {"reseal", "reopen"} : at = IF proc[t].flag THEN "reseal" ELSE "reopen"
  OBVIOUS
<1> DEFINE r == [proc[t] EXCEPT !.at = at, !.next = "idle", !.src = None, !.flag = FALSE]
<1>5. /\ Goes1(t, r) /\ curated' = [curated EXCEPT ![a] = c] /\ last' = [last EXCEPT ![a] = @ + 1]
      /\ Touch(t, a)
      /\ UNCHANGED <<docs, draft, built, review, record, tab, gestures, closed>>
  BY <1>0, <1>3, <1>4 DEF WriteEdit, Goes1
<1>6. r \in Process
  BY <1>1, ZenonT(30) DEF Process, At
<1>7. /\ r.at = at /\ r.next = "idle" /\ r.art = a /\ r.copy = proc[t].copy
      /\ r.todo = proc[t].todo
  BY <1>0, <1>1 DEF Process
<1> HIDE DEF r
<1>8. r.copy = None /\ proc'[t] = r /\ (at = "reseal" => a = "bank")
  BY <1>0, <1>1, <1>4, <1>5, <1>6, <1>7 DEF Typed, AtTab, Goes1, IInv
<1>9. /\ crossed' \in SUBSET Artifact /\ crossed \subseteq crossed'
      /\ (a \notin crossed' => Alone(t, a))
  BY <1>1, <1>5, Touched
<1>10. /\ FilesOK' /\ Grows /\ Current(a)' = c /\ Built(a)'
       /\ \A b \in Artifact : b # a => Same(b)
  <2>1. Later /\ c.id <= last'[a]
    BY <1>1, <1>2, <1>3, <1>5 DEF FilesOK, Later
  <2>2. closed' \in [Artifact -> SUBSET Content]
        /\ \A b \in Artifact : closed'[b] = closed[b]
    BY <1>1, <1>5 DEF FilesOK
  <2> QED BY <1>1, <1>5, <1>9, <2>1, <2>2, PutFile
<1>11. Shape(t)' /\ There(t)'
  BY <1>1, <1>7, <1>8, <1>10 DEF Shape, AtTab, There, Job
<1>12. ASSUME a \notin crossed' PROVE Sure(t, a)' /\ Dated(a)' /\ Agreed(a)'
  <2>1. c \notin closed[a] /\ (review[a] # None => review[a].hash # c)
    BY <1>1, <1>3, NewName
  <2>2. Sure(t, a)'
    <3>1. ~Gives(t, a)'
      BY <1>1 DEF Gives, Job
    <3>2. Current(a)' \notin closed'[a]
      BY <1>5, <1>10, <2>1
    <3> QED BY <1>7, <1>8, <3>1, <3>2 DEF Sure
  <2>3. Agreed(a)'
    BY <1>5, <1>10, <2>1 DEF Agreed, Sealed
  <2>4. Alone(t, a) /\ Sure(t, a)
    BY <1>1, <1>9, <1>12
  <2>5. proc[t].src = Current(a) /\ ~Replaces(t, a)
    BY <1>1, <2>4 DEF Sure, Replaces
  <2>6. Built(a) /\ c.docs = Current(a).docs
    BY <1>2, <1>3, <2>5 DEF Built
  <2>7. Dated(a)'
    BY <1>1, <1>5, <1>10, <2>4, <2>5, <2>6, Remade
  <2> QED BY <2>2, <2>3, <2>7
<1> QED BY <1>1, <1>5, <1>6, <1>7, <1>8, <1>9, <1>10, <1>11, <1>12, FileStep

-----------------------------------------------------------------------------
(* The text of an editor is saved *)

LEMMA SaveTypesSteps == ASSUME IInv, NEW t \in Tab, SaveTypes(t) PROVE IInv'
<1>0. Asked(t, "save")
  BY DEF SaveTypes
<1>1. /\ Head(proc[t].todo) \in FineErrand /\ Head(proc[t].todo) \in Errand
      /\ t \in Proc /\ t \notin Job /\ proc[t] \in Process /\ Typed(t)
      /\ proc[t].at = "idle" /\ proc[t].copy = None
      /\ Tail(proc[t].todo) \in Seq(FineErrand) /\ Tail(proc[t].todo) \in Seq(Errand)
      /\ FilesOK /\ "types" \in Artifact
  BY <1>0, AskedKind, ProcKind DEF IInv, Artifact
<1>2. PICK c \in Content, b \in Content :
         /\ c = Head(proc[t].todo).text /\ b = Head(proc[t].todo).base
         /\ c.docs = b.docs /\ c.id <= last["types"]
  <2>1. Fine(Head(proc[t].todo)) /\ Head(proc[t].todo).op = "save"
    BY <1>0, <1>1 DEF FineErrand, Asked
  <2> QED BY <1>1, <2>1 DEF Fine, Errand
<1> DEFINE r == [proc[t] EXCEPT !.at = "reopen", !.art = "types", !.next = "idle",
                                !.todo = Tail(proc[t].todo)]
<1>3. /\ Goes1(t, r) /\ curated' = [curated EXCEPT !["types"] = c]
      /\ closed' = [closed EXCEPT !["types"] = @ \ {c}]
      /\ crossed' = IF Busy(t, "types") \/ Current("types") \notin {b, c}
                    THEN crossed \cup {"types"} ELSE crossed
      /\ UNCHANGED <<docs, draft, built, review, record, tab, last, gestures>>
  BY <1>2 DEF SaveTypes, Served, Goes1
<1>4. r \in Process
  BY <1>1, ZenonT(30) DEF Process, At, Artifact
<1>5. /\ r.at = "reopen" /\ r.next = "idle" /\ r.art = "types" /\ r.copy = None
      /\ r.todo = Tail(proc[t].todo)
  BY <1>1 DEF Process
<1> HIDE DEF r
<1>6. proc'[t] = r
  BY <1>1, <1>3 DEF Goes1, IInv
<1>7. /\ crossed' \in SUBSET Artifact /\ crossed \subseteq crossed'
      /\ ("types" \notin crossed' => Alone(t, "types") /\ Current("types") \in {b, c})
  BY <1>1, <1>3 DEF Alone, Busy, FilesOK
<1>8. /\ closed' \in [Artifact -> SUBSET Content] /\ closed'["types"] = closed["types"] \ {c}
      /\ \A x \in Artifact : x # "types" => closed'[x] = closed[x]
  BY <1>1, <1>3 DEF FilesOK
<1>9. /\ FilesOK' /\ Grows /\ Current("types")' = c /\ Built("types")'
      /\ \A x \in Artifact : x # "types" => Same(x)
  <2>1. Later /\ c.id <= last'["types"]
    BY <1>1, <1>2, <1>3 DEF FilesOK, Later
  <2>2. /\ curated' = [curated EXCEPT !["types"] = c]
        /\ UNCHANGED <<docs, draft, built, review>>
    BY <1>3
  <2>3. closed'["types"] \subseteq closed["types"] \cup {c}
    BY <1>8
  <2> QED BY <1>1, <1>7, <1>8, <2>1, <2>2, <2>3, PutFile
<1>10. Shape(t)' /\ There(t)'
  BY <1>1, <1>5, <1>6 DEF Shape, AtTab, There, Job
<1>11. ASSUME "types" \notin crossed'
       PROVE  Sure(t, "types")' /\ Dated("types")' /\ Agreed("types")'
  <2>1. c \notin closed'["types"] /\ ~Gives(t, "types")' /\ Withdraws(t, "types")'
    BY <1>1, <1>5, <1>6, <1>8 DEF Gives, Withdraws, Job
  <2>2. Sure(t, "types")'
    BY <1>5, <1>6, <1>9, <2>1 DEF Sure
  <2>3. Agreed("types")'
    BY <1>1, <2>1 DEF Agreed
  <2>4. /\ Alone(t, "types") /\ ~Replaces(t, "types") /\ Built("types")
        /\ c.docs = Current("types").docs
    BY <1>1, <1>2, <1>7, <1>11 DEF Replaces, Built
  <2>5. Dated("types")'
    BY <1>1, <1>3, <1>9, <2>4, Remade
  <2> QED BY <2>2, <2>3, <2>5
<1> QED BY <1>1, <1>3, <1>4, <1>5, <1>6, <1>7, <1>9, <1>10, <1>11, FileStep

-----------------------------------------------------------------------------
(* The system writes what it has read again *)

LEMMA RelabelSteps == ASSUME IInv, Relabel PROVE IInv'
<1>0. proc["collect"].at = "relabel"
  BY DEF Relabel
<1>1. /\ "collect" \in Proc /\ "collect" \notin Tab /\ proc["collect"] \in Process
      /\ AtCollect(proc["collect"]) /\ Typed("collect") /\ FilesOK /\ "graph" \in Artifact
      /\ ("graph" \notin crossed => Sure("collect", "graph"))
      /\ Built("types") /\ Built("graph")
  BY <1>0, CollectKind, ProcKind DEF Held, IInv, Artifact
<1>2. /\ proc["collect"].src \in Content /\ proc["collect"].print \in Stamp /\ last["graph"] + 1 \in Nat
      /\ proc["collect"].flag \in BOOLEAN
  BY <1>0, <1>1 DEF AtCollect, Process, FilesOK
<1>3. PICK f \in BOOLEAN : f = proc["collect"].flag
  BY <1>2
<1>4. PICK at \in {"reseal", "record"} : at = AfterRelabel(f)
  BY DEF AfterRelabel
<1>5. PICK c \in Content :
         /\ c = [proc["collect"].src EXCEPT !.id = last["graph"] + 1,
                     !.types = proc["collect"].print.types,
                     !.judged = proc["collect"].print.concepts]
         /\ c.id = last["graph"] + 1 /\ c.docs = proc["collect"].src.docs
  <2>1. PICK s \in Content : s = proc["collect"].src
    BY <1>2
  <2>2. PICK m \in Nat, k \in Nat :
           m = proc["collect"].print.types /\ k = proc["collect"].print.concepts
    BY <1>2 DEF Stamp
  <2>3. [s EXCEPT !.id = last["graph"] + 1, !.types = m, !.judged = k] \in Content
    BY <1>2, Zenon DEF Content
  <2>4. /\ [s EXCEPT !.id = last["graph"] + 1, !.types = m, !.judged = k].id = last["graph"] + 1
        /\ [s EXCEPT !.id = last["graph"] + 1, !.types = m, !.judged = k].docs = s.docs
    BY DEF Content
  <2> QED BY <2>1, <2>2, <2>3, <2>4
<1> DEFINE r == [Idle EXCEPT !.at = "reopen", !.art = "graph", !.next = at]
<1>6. /\ Goes1("collect", r) /\ curated' = [curated EXCEPT !["graph"] = c] /\ last' = [last EXCEPT !["graph"] = @ + 1]
      /\ Inherits("graph", proc["collect"].src, c) /\ Touch("collect", "graph")
      /\ UNCHANGED <<docs, draft, built, review, record, tab, gestures>>
  BY <1>3, <1>4, <1>5 DEF Relabel, Goes1
<1>7. r \in Process
  BY Nothing, ZenonT(30) DEF Process, Idle, At, Artifact
<1>8. /\ r.at = "reopen" /\ r.next = at /\ r.art = "graph" /\ r.copy = None /\ r.todo = <<>>
  BY DEF Idle
<1> HIDE DEF r
<1>9. proc'["collect"] = r
  BY <1>1, <1>6 DEF Goes1, IInv
<1>10. /\ crossed' \in SUBSET Artifact /\ crossed \subseteq crossed'
       /\ ("graph" \notin crossed' => Alone("collect", "graph"))
  BY <1>1, <1>6, Touched
<1>11. /\ closed' \in [Artifact -> SUBSET Content]
       /\ \A x \in Artifact : x # "graph" => closed'[x] = closed[x]
       /\ closed'["graph"] = IF proc["collect"].src \in closed["graph"]
                             THEN closed["graph"] \cup {c} ELSE closed["graph"]
  BY <1>1, <1>6 DEF FilesOK, Inherits
<1>12. /\ FilesOK' /\ Grows /\ Current("graph")' = c /\ Built("graph")'
       /\ \A x \in Artifact : x # "graph" => Same(x)
  <2>1. Later /\ c.id <= last'["graph"]
    BY <1>1, <1>2, <1>5, <1>6 DEF FilesOK, Later
  <2> QED BY <1>1, <1>6, <1>10, <1>11, <2>1, PutFile
<1>13. Shape("collect")' /\ There("collect")'
  <2>1. Built("types")'
    BY <1>1, <1>12 DEF Grows, Artifact
  <2> QED BY <1>1, <1>8, <1>9, <1>12, <2>1 DEF Shape, AtCollect, There, Job
<1>14. ASSUME "graph" \notin crossed'
       PROVE  Sure("collect", "graph")' /\ Dated("graph")' /\ Agreed("graph")'
  <2>1. c \notin closed["graph"] /\ (review["graph"] # None => review["graph"].hash # c)
    BY <1>1, <1>5, NewName
  <2>2. /\ Alone("collect", "graph") /\ "graph" \notin crossed
        /\ proc["collect"].src = Current("graph")
        /\ (f <=> Current("graph") \in closed["graph"])
    BY <1>0, <1>1, <1>3, <1>10, <1>14 DEF Sure
  <2>3. c \in closed'["graph"] <=> f
    BY <1>11, <2>1, <2>2
  <2>4. Gives("collect", "graph")' <=> f
    BY <1>4, <1>8, <1>9 DEF Gives, AfterRelabel
  <2>5. Sure("collect", "graph")'
    BY <1>8, <1>9, <1>12, <2>3, <2>4 DEF Sure
  <2>6. Agreed("graph")'
    <3>1. CASE f
      BY <1>1, <2>4, <3>1 DEF Agreed
    <3>2. CASE ~f
      <4>1. ~Sealed("graph")'
        BY <1>6, <1>12, <2>1 DEF Sealed
      <4> QED BY <1>12, <2>3, <3>2, <4>1 DEF Agreed
    <3> QED BY <3>1, <3>2
  <2>7. ~Replaces("collect", "graph") /\ c.docs = Current("graph").docs
    BY <1>0, <1>5, <2>2 DEF Replaces
  <2>8. Dated("graph")'
    BY <1>1, <1>6, <1>12, <2>2, <2>7, Remade
  <2> QED BY <2>5, <2>6, <2>8
<1>15. proc["collect"].at \notin {"reseal", "reopen", "save", "built", "retire", "patching"}
       /\ r.todo \in Seq(FineErrand)
  BY <1>0, <1>8, Nothing
<1> QED BY <1>1, <1>6, <1>7, <1>8, <1>9, <1>10, <1>12, <1>13, <1>14, <1>15, FileStep

LEMMA SaveTagsSteps == ASSUME IInv, SaveTags PROVE IInv'
<1>0. proc["tag"].at \in {"tagging", "patching"} /\ proc["tag"].seen < Saves
  BY DEF SaveTags
<1>1. /\ "tag" \in Job /\ "tag" \in Proc /\ "tag" \notin Tab /\ proc["tag"] \in Process
      /\ AtTag(proc["tag"]) /\ Typed("tag") /\ proc["tag"].todo = <<>> /\ FilesOK /\ "bank" \in Artifact
      /\ Built("bank") /\ Held("tag") = {"bank"}
      /\ ("bank" \notin crossed => Sure("tag", "bank"))
  BY <1>0, JobKind DEF Job, Shape, AtTag, Held, There, IInv, Artifact
<1>2. /\ proc["tag"].src \in Content /\ last["bank"] + 1 \in Nat
      /\ proc["tag"].flag \in BOOLEAN /\ proc["tag"].seen \in 0..Saves
  BY <1>0, <1>1 DEF AtTag, Process, FilesOK, Typed
<1>3. PICK f \in BOOLEAN : f = proc["tag"].flag
  BY <1>2
<1>4. PICK n \in 0..Saves : n = proc["tag"].seen + 1
  BY <1>0, <1>2
<1>5. PICK c \in Content :
         /\ c = [proc["tag"].src EXCEPT !.id = last["bank"] + 1]
         /\ c.id = last["bank"] + 1 /\ c.docs = proc["tag"].src.docs
  <2>1. PICK s \in Content : s = proc["tag"].src
    BY <1>2
  <2>2. [s EXCEPT !.id = last["bank"] + 1] \in Content
    BY <1>2, Zenon DEF Content
  <2>3. [s EXCEPT !.id = last["bank"] + 1].id = last["bank"] + 1 /\ [s EXCEPT !.id = last["bank"] + 1].docs = s.docs
    BY DEF Content
  <2> QED BY <2>1, <2>2, <2>3
<1> DEFINE r == [proc["tag"] EXCEPT !.at = "patching", !.src = c, !.seen = n]
<1>6. /\ Goes1("tag", r) /\ curated' = [curated EXCEPT !["bank"] = c] /\ last' = [last EXCEPT !["bank"] = @ + 1]
      /\ Inherits("bank", proc["tag"].src, c) /\ Touch("tag", "bank")
      /\ UNCHANGED <<docs, draft, built, review, record, tab, gestures>>
  BY <1>3, <1>4, <1>5 DEF SaveTags, Goes1
<1>7. r \in Process
  <2>1. n \in Nat
    OBVIOUS
  <2> QED BY <1>1, <2>1, ZenonT(30) DEF Process, At
<1>8. /\ r.at = "patching" /\ r.flag = f /\ r.src = c /\ r.seen = n /\ r.art = "bank"
      /\ r.copy = None /\ r.todo = <<>> /\ c # None
  BY <1>0, <1>1, <1>3 DEF Process, AtTag, Typed
<1> HIDE DEF r
<1>9. proc'["tag"] = r
  BY <1>1, <1>6 DEF Goes1, IInv
<1>10. /\ crossed' \in SUBSET Artifact /\ crossed \subseteq crossed'
       /\ ("bank" \notin crossed' => Alone("tag", "bank"))
  BY <1>1, <1>6, Touched
<1>11. /\ closed' \in [Artifact -> SUBSET Content]
       /\ \A x \in Artifact : x # "bank" => closed'[x] = closed[x]
       /\ closed'["bank"] = IF proc["tag"].src \in closed["bank"]
                            THEN closed["bank"] \cup {c} ELSE closed["bank"]
  BY <1>1, <1>6 DEF FilesOK, Inherits
<1>12. /\ FilesOK' /\ Grows /\ Current("bank")' = c /\ Built("bank")'
       /\ \A x \in Artifact : x # "bank" => Same(x)
  <2>1. Later /\ c.id <= last'["bank"]
    BY <1>1, <1>2, <1>5, <1>6 DEF FilesOK, Later
  <2> QED BY <1>1, <1>6, <1>10, <1>11, <2>1, PutFile
<1>13. Shape("tag")' /\ There("tag")'
  BY <1>1, <1>8, <1>9, <1>12 DEF Shape, AtTag, There, Job
<1>14. ASSUME "bank" \notin crossed'
       PROVE  Sure("tag", "bank")' /\ Dated("bank")' /\ Agreed("bank")'
  <2>1. c \notin closed["bank"] /\ (review["bank"] # None => review["bank"].hash # c)
    BY <1>1, <1>5, NewName
  <2>2. /\ Alone("tag", "bank") /\ "bank" \notin crossed
        /\ proc["tag"].src = Current("bank")
        /\ (f <=> Current("bank") \in closed["bank"])
    BY <1>0, <1>1, <1>3, <1>10, <1>14 DEF Sure
  <2>3. c \in closed'["bank"] <=> f
    BY <1>11, <2>1, <2>2
  <2>4. Gives("tag", "bank")' <=> f
    BY <1>8, <1>9 DEF Gives
  <2>9. ~Sealed("bank")'
    BY <1>6, <1>12, <2>1 DEF Sealed
  <2>5. Sure("tag", "bank")'
    BY <1>8, <1>9, <1>12, <2>3, <2>4, <2>9 DEF Sure, Withdraws
  <2>6. Agreed("bank")'
    <3>1. CASE f
      BY <1>1, <2>4, <3>1 DEF Agreed
    <3>2. CASE ~f
      BY <1>12, <2>3, <2>9, <3>2 DEF Agreed
    <3> QED BY <3>1, <3>2
  <2>7. ~Replaces("tag", "bank") /\ c.docs = Current("bank").docs
    BY <1>0, <1>5, <2>2 DEF Replaces
  <2>8. Dated("bank")'
    BY <1>1, <1>6, <1>12, <2>2, <2>7, Remade
  <2> QED BY <2>5, <2>6, <2>8
<1>15. /\ \/ proc["tag"].at \notin {"reseal", "reopen", "save", "built", "retire", "patching"}
          \/ proc["tag"].at = "patching" /\ proc["tag"].art = "bank"
       /\ r.todo \in Seq(FineErrand) /\ r.src # None /\ r.src.id <= last'["bank"] /\ r.seen \in 0..Saves
  <2>1. c.id <= last'["bank"]
    BY <1>1, <1>5, <1>6 DEF FilesOK
  <2> QED BY <1>0, <1>1, <1>8, <2>1, Nothing DEF AtTag
<1> QED BY <1>1, <1>6, <1>7, <1>8, <1>9, <1>10, <1>12, <1>13, <1>14, <1>15, FileStep

(* A tagging ends: its bank is written once more if it wrote one. *)
LEMMA EndTagsSteps == ASSUME IInv, EndTags PROVE IInv'
<1>0. proc["tag"].at \in {"tagging", "patching"}
  BY DEF EndTags
<1>1. /\ "tag" \in Job /\ "tag" \in Proc /\ "tag" \notin Tab /\ proc["tag"] \in Process
      /\ AtTag(proc["tag"]) /\ Typed("tag") /\ InHand("tag") /\ FilesOK /\ "bank" \in Artifact
      /\ Built("bank") /\ Held("tag") = {"bank"}
      /\ ("bank" \notin crossed => Sure("tag", "bank"))
  BY <1>0, JobKind DEF Job, Shape, AtTag, Held, There, IInv, Artifact
<1>2. PICK f \in BOOLEAN : f = proc["tag"].flag
  BY <1>1 DEF Process
<1>3. PICK at \in {"reseal", "idle"} : at = AfterTag(f)
  BY DEF AfterTag
<1>4. PICK c \in Content : c = proc["tag"].src
  BY <1>0, <1>1 DEF AtTag, Process
<1> DEFINE r == [Idle EXCEPT !.at = at, !.art = "bank"]
<1>5. /\ Goes1("tag", r) /\ UNCHANGED <<docs, draft, built, review, record, tab, last, gestures, closed>>
      /\ \/ proc["tag"].at = "tagging" /\ UNCHANGED <<curated, crossed>>
         \/ /\ proc["tag"].at = "patching" /\ curated' = [curated EXCEPT !["bank"] = c]
            /\ Touch("tag", "bank")
  BY <1>2, <1>3, <1>4 DEF EndTags, Goes1
<1>6. r \in Process
  BY Nothing, ZenonT(30) DEF Process, Idle, At, Artifact
<1>7. r.at = at /\ r.next = "idle" /\ r.art = "bank" /\ r.copy = None /\ r.todo = <<>>
  BY DEF Idle
<1> HIDE DEF r
<1>8. proc'["tag"] = r
  BY <1>1, <1>5 DEF Goes1, IInv
<1>9. Gives("tag", "bank")' <=> f
  BY <1>3, <1>7, <1>8 DEF Gives, AfterTag
<1>10. Shape("tag")'
  BY <1>1, <1>7, <1>8 DEF Shape, AtTag, Job
<1>11. CASE proc["tag"].at = "tagging" /\ UNCHANGED <<curated, crossed>>
  <2>1. Current("bank")' = Current("bank") /\ Built("bank")'
    BY <1>1, <1>5, <1>11 DEF Current, Built
  <2>2. There("tag")' /\ Held("tag")' \subseteq {"bank"}
    BY <1>1, <1>7, <1>8, <2>1 DEF There, Held, Job
  <2>3. \A a \in Held("tag")' \ crossed : Sure("tag", a)'
    <3> SUFFICES ASSUME "bank" \notin crossed PROVE Sure("tag", "bank")'
      BY <2>2
    <3>1. f <=> Current("bank") \in closed["bank"]
      BY <1>1, <1>2, <1>11 DEF Sure
    <3> QED BY <1>5, <1>7, <1>8, <1>9, <2>1, <3>1 DEF Sure, Withdraws
  <2> QED BY <1>1, <1>5, <1>6, <1>7, <1>10, <1>11, <2>2, <2>3, JobMoves DEF IInv
<1>12. CASE /\ proc["tag"].at = "patching" /\ curated' = [curated EXCEPT !["bank"] = c]
            /\ Touch("tag", "bank")
  <2>1. /\ crossed' \in SUBSET Artifact /\ crossed \subseteq crossed'
        /\ ("bank" \notin crossed' => Alone("tag", "bank"))
    BY <1>1, <1>12, Touched
  <2>2. /\ FilesOK' /\ Grows /\ Current("bank")' = c /\ Built("bank")'
        /\ \A x \in Artifact : x # "bank" => Same(x)
    <3>1. /\ Later /\ c.id <= last'["bank"]
          /\ closed' \in [Artifact -> SUBSET Content] /\ closed' = closed
      BY <1>1, <1>4, <1>5, <1>12 DEF FilesOK, InHand, Later
    <3> QED BY <1>1, <1>5, <1>12, <2>1, <3>1, PutFile
  <2>3. There("tag")'
    BY <1>1, <1>7, <1>8, <2>2 DEF There, Job
  <2>4. ASSUME "bank" \notin crossed'
        PROVE  Sure("tag", "bank")' /\ Dated("bank")' /\ Agreed("bank")'
    <3>1. /\ Alone("tag", "bank") /\ c = Current("bank") /\ ~Sealed("bank")
          /\ (f <=> Current("bank") \in closed["bank"])
      BY <1>1, <1>2, <1>4, <1>12, <2>1, <2>4 DEF Sure
    <3>2. c \in closed'["bank"] <=> f
      BY <1>5, <3>1
    <3>3. Sure("tag", "bank")'
      BY <1>7, <1>8, <1>9, <2>2, <3>2 DEF Sure, Withdraws
    <3>4. Agreed("bank")'
      <4>1. CASE f
        BY <1>1, <1>9, <4>1 DEF Agreed
      <4>2. CASE ~f
        <5>1. ~Sealed("bank")'
          BY <1>1, <1>5, <2>2, <3>1 DEF Sealed
        <5> QED BY <2>2, <3>2, <4>2, <5>1 DEF Agreed
      <4> QED BY <4>1, <4>2
    <3>5. Dated("bank")'
      BY <1>1, <1>5, <1>12, <2>2, <3>1, Remade DEF Replaces
    <3> QED BY <3>3, <3>4, <3>5
  <2>5. proc["tag"].at = "patching" /\ proc["tag"].art = "bank" /\ r.todo \in Seq(FineErrand)
    BY <1>1, <1>7, <1>12, Nothing DEF AtTag
  <2> QED BY <1>1, <1>5, <1>6, <1>7, <1>10, <2>1, <2>2, <2>3, <2>4, <2>5, FileStep
<1> QED BY <1>5, <1>11, <1>12

(* A tagging is cut short after a save: nobody gives the approval back, and *)
(* what it left is not among what somebody closed.                          *)
LEMMA CutSteps == ASSUME IInv, Fail("tag"), proc["tag"].at = "patching" PROVE IInv'
<1>1. /\ "tag" \in Job /\ "tag" \in Proc /\ "tag" \notin Tab /\ proc["tag"] \in Process
      /\ AtTag(proc["tag"]) /\ FilesOK /\ "bank" \in Artifact /\ Held("tag") = {"bank"}
      /\ Built("bank") /\ proc["tag"].art = "bank"
      /\ ("bank" \notin crossed => Sure("tag", "bank"))
  BY JobKind DEF Job, Shape, AtTag, Held, There, IInv, Artifact
<1>2. /\ Goes1("tag", Idle) /\ UNCHANGED <<files, tab, last, gestures, crossed>>
      /\ closed' = [closed EXCEPT !["bank"] = @ \ {proc["tag"].src}]
  BY DEF Fail, Goes1
<1>3. /\ Idle \in Process /\ Idle.at = "idle" /\ Idle.copy = None /\ Idle.todo = <<>>
      /\ Idle.next = "idle" /\ proc'["tag"] = Idle
  BY <1>1, <1>2, Nothing, ZenonT(30) DEF Idle, Process, At, Artifact, Goes1, IInv
<1>4. /\ closed' \in [Artifact -> SUBSET Content]
      /\ closed'["bank"] = closed["bank"] \ {proc["tag"].src}
      /\ \A b \in Artifact : b # "bank" => closed'[b] = closed[b]
  BY <1>1, <1>2 DEF FilesOK
<1>5. FilesOK'
  <2>1. FineReview(review)' /\ \A b \in Artifact : Fresh(b, curated[b])' /\ Fresh(b, draft[b])'
    BY <1>1, <1>2 DEF FilesOK, FineReview, Fresh, files
  <2>2. \A b \in Artifact : closed'[b] \subseteq closed[b]
    BY <1>4
  <2> QED BY <1>1, <1>2, <1>4, <2>1, <2>2 DEF FilesOK, files
<1>6. Grows /\ \A b \in Artifact : b # "bank" => Same(b)
  BY <1>1, <1>2, <1>4 DEF Grows, Same, Built, Current, FilesOK, files, Later
<1>7. TabsOK'
  BY <1>2, TabsKept
<1>8. Good("tag")'
  <2>1. Idle.todo \in Seq(FineErrand)'
    BY <1>3, Nothing
  <2>2. Shape("tag")' /\ There("tag")' /\ Held("tag")' = {}
    BY <1>1, <1>3 DEF Shape, AtTag, There, Held, Job
  <2> QED BY <1>3, <2>1, <2>2 DEF Good, Typed, InHand
<1>9. \A q \in Proc : q # "tag" => Kept(q, "bank")
  BY <1>2, <1>4 DEF Kept, files
<1>10. ASSUME "bank" \notin crossed' PROVE Dated("bank")' /\ Agreed("bank")'
  <2>1. /\ proc["tag"].src = Current("bank") /\ ~Sealed("bank") /\ Dated("bank")
    BY <1>1, <1>2, <1>10 DEF Sure, IInv, Sound
  <2>2. Current("bank")' = Current("bank") /\ (Built("bank")' <=> Built("bank"))
        /\ (Sealed("bank")' <=> Sealed("bank"))
    BY <1>2 DEF Current, Built, Sealed, files
  <2>3. \A q \in Proc : Replaces(q, "bank") => Replaces(q, "bank")'
    BY <1>2 DEF Replaces, Goes1, IInv
  <2>4. Dated("bank")'
    BY <1>2, <2>1, <2>2, <2>3 DEF Dated, files
  <2>5. Agreed("bank")'
    BY <1>4, <2>1, <2>2 DEF Agreed
  <2> QED BY <2>4, <2>5
<1>11. Sound("bank")'
  BY <1>10 DEF Sound
<1>12. \A b \in Artifact : b # "bank" =>
          ~Replaces("tag", b) /\ ~Gives("tag", b) /\ ~Withdraws("tag", b)
  BY <1>1 DEF Replaces, Gives, Withdraws
<1>13. record' \in Stamp \cup {None} /\ gestures' \in 0..Gestures /\ built' = built
  BY <1>2 DEF IInv, files
<1> QED BY <1>1, <1>2, <1>3, <1>5, <1>6, <1>7, <1>8, <1>9, <1>11, <1>12, <1>13, WriteStepThose

-----------------------------------------------------------------------------
(* The file of approvals is written back *)

LEMMA SaveKind ==
    ASSUME IInv, NEW p \in Proc, NEW a \in Artifact, proc[p].at = "save", a = proc[p].art
    PROVE  /\ proc[p].next \in {"idle", "reseal", "record"}
           /\ p # "collect" => proc[p].next = "idle"
           /\ proc[p].next = "reseal" => p = "collect" /\ a = "graph"
           /\ proc[p].copy[a] = None => (Gives(p, a) <=> proc[p].next = "reseal")
           /\ proc[p].copy[a] # None /\ ~(p \in Tab \/ (p = "collect" /\ a = "bank")) => Gives(p, a)
           /\ (Withdraws(p, a) <=> proc[p].copy[a] = None)
<1>1. Shape(p)
  BY ProcKind
<1>2. CASE p \in Tab
  BY <1>1, <1>2 DEF Shape, AtTab, Gives, Withdraws, Job
<1>3. CASE p \in {"build_kg", "build_profile"}
  BY <1>1, <1>3 DEF Shape, AtBuild, Gives, Withdraws, Job
<1>4. CASE p = "collect"
  BY <1>1, <1>4 DEF Shape, AtCollect, Gives, Withdraws, Job
<1>5. CASE p = "tag"
  BY <1>1, <1>5 DEF Shape, AtTag, Gives, Withdraws, Job
<1> QED BY <1>2, <1>3, <1>4, <1>5 DEF Proc, Job

LEMMA SaveReviewSteps == ASSUME IInv, NEW p \in Proc, SaveReview(p) PROVE IInv'
<1>0. PICK a \in Artifact : a = proc[p].art
  BY ProcKind
<1>1. /\ proc[p].at = "save" /\ proc[p].copy # None /\ proc[p] \in Process
      /\ proc[p].copy \in Review /\ FineReview(proc[p].copy)
      /\ proc[p].todo \in Seq(FineErrand) /\ proc[p].todo \in Seq(Errand)
      /\ (proc[p].todo # <<>> => p \in Tab) /\ proc[p].next \in At
      /\ FilesOK /\ (p \in Tab => p \notin Job) /\ There(p)
      /\ \A b \in Artifact \ crossed : Sure(p, b)
  BY ProcKind DEF SaveReview, Typed, Process, InHand, Held, IInv
<1>2. PICK cp \in Review : cp = proc[p].copy
  BY <1>1
<1>3. PICK n \in {"idle", "reseal", "record"} : n = proc[p].next
  BY <1>0, <1>1, SaveKind
<1>4. PICK td \in Seq(Errand) : td = proc[p].todo
  BY <1>1
<1> DEFINE r == [Idle EXCEPT !.at = n, !.todo = td]
<1>5. /\ Goes1(p, r) /\ review' = cp /\ closed' = Given(p, a, cp[a]) /\ Touch(p, a)
      /\ UNCHANGED <<docs, curated, draft, built, record, tab, last, gestures>>
  BY <1>0, <1>2, <1>3, <1>4 DEF SaveReview, Goes1
<1>6. r \in Process
  BY ZenonT(30) DEF Process, Idle, At, Artifact
<1>7. r.at = n /\ r.next = "idle" /\ r.art = "graph" /\ r.copy = None /\ r.todo = td
  BY DEF Idle
<1> HIDE DEF r
<1>8. proc'[p] = r /\ TabsOK'
  BY <1>5, TabsKept DEF Goes1, IInv
<1>9. /\ crossed' \in SUBSET Artifact /\ crossed \subseteq crossed'
      /\ (a \notin crossed' => Alone(p, a))
  BY <1>5, Touched
<1>10. cp[a] \in Entry \cup {None} /\ (cp[a] # None => cp[a].hash \in Content
                                                      /\ cp[a].hash.id <= last[a])
  BY <1>1, <1>2 DEF Review, Entry, FineReview
<1>11. /\ closed' \in [Artifact -> SUBSET Content]
       /\ \A b \in Artifact : b # a => closed'[b] = closed[b]
       /\ closed'[a] = IF cp[a] # None /\ (p \in Tab \/ (p = "collect" /\ a = "bank"))
                       THEN closed[a] \cup {cp[a].hash} ELSE closed[a]
  BY <1>1, <1>5, <1>10 DEF Given, FilesOK
<1>12. \A b \in Artifact : \A x \in closed'[b] : x.id <= last[b]
  <2> SUFFICES ASSUME NEW b \in Artifact, NEW x \in closed'[b] PROVE x.id <= last[b]
    OBVIOUS
  <2>1. \A y \in closed[b] : y.id <= last[b]
    BY <1>1 DEF FilesOK
  <2> QED BY <1>10, <1>11, <2>1
<1>13. FilesOK'
  BY <1>1, <1>2, <1>5, <1>9, <1>11, <1>12 DEF FilesOK, FineReview, Fresh
<1>14. Grows
  BY <1>1, <1>5, <1>9 DEF Grows, FilesOK, Built, Current, Later
<1>15. \A b \in Artifact \ crossed' : b # a => Same(b)
  <2> SUFFICES ASSUME NEW b \in Artifact \ crossed', b # a PROVE Same(b)
    OBVIOUS
  <2>1. cp[b] = review[b]
    BY <1>0, <1>1, <1>2, <1>9 DEF Sure
  <2> QED BY <1>5, <1>11, <2>1 DEF Same
<1>16. \A q \in Proc : q # p /\ a \in Held(q) \ crossed' => Same(a)
  BY <1>9 DEF Alone
<1>17. \A b \in Artifact : b # a => ~Replaces(p, b) /\ ~Gives(p, b) /\ ~Withdraws(p, b)
  BY <1>0 DEF Replaces, Gives, Withdraws
<1>18. /\ (p # "collect" => n = "idle") /\ (n = "reseal" => p = "collect" /\ a = "graph")
       /\ (cp[a] = None => (Gives(p, a) <=> n = "reseal"))
       /\ (cp[a] # None /\ ~(p \in Tab \/ (p = "collect" /\ a = "bank")) => Gives(p, a))
       /\ (Withdraws(p, a) <=> cp[a] = None)
  BY <1>0, <1>1, <1>2, <1>3, SaveKind
<1>19. a \notin crossed' =>
          /\ Sure(p, a) /\ Alone(p, a) /\ a \notin crossed
          /\ (cp[a] # None => cp[a].hash = Current(a))
  BY <1>0, <1>1, <1>2, <1>9 DEF Sure
<1>20. Good(p)'
  <2>1. Typed(p)' /\ Shape(p)'
    BY <1>1, <1>4, <1>6, <1>7, <1>8, <1>18 DEF Typed, Shape, AtTab, AtBuild, AtCollect, AtTag, Job
  <2>2. InHand(p)'
    <3>1. td \in Seq(FineErrand)'
      BY <1>1, <1>4, <1>13, <1>14, FineGrows
    <3> QED BY <1>7, <1>8, <3>1 DEF InHand
  <2>3. There(p)'
    BY <1>1, <1>5, <1>7, <1>8, <1>18 DEF There, Built, Current, Job
  <2>4. ASSUME NEW b \in Held(p)' \ crossed' PROVE Sure(p, b)'
    <3>1. b = "graph" /\ n = "reseal"
      BY <1>7, <1>8, <2>4 DEF Held
    <3>2. a = "graph" /\ p = "collect" /\ a \notin crossed'
      BY <1>18, <2>4, <3>1
    <3>3. Current(a) \in closed[a]
      <4>1. Gives(p, a)
        BY <1>1, <1>0, <1>3, <3>1, <3>2 DEF Gives
      <4> QED BY <1>19, <3>2, <4>1 DEF Sure
    <3>4. Current(a)' = Current(a) /\ closed[a] \subseteq closed'[a]
      BY <1>5, <1>11 DEF Current
    <3>5. ~Withdraws(p, b)' /\ Current(b)' \in closed'[b]
      BY <1>7, <1>8, <3>1, <3>2, <3>3, <3>4 DEF Withdraws
    <3> QED BY <1>7, <1>8, <3>1, <3>5 DEF Sure
  <2> QED BY <2>1, <2>2, <2>3, <2>4 DEF Good
<1>21. Sound(a)'
  <2> SUFFICES ASSUME a \notin crossed' PROVE Dated(a)' /\ Agreed(a)'
    BY DEF Sound
  <2>1. Sound(a) /\ Alone(p, a) /\ Current(a)' = Current(a)
    BY <1>5, <1>9 DEF IInv, Current
  <2>2. Dated(a)'
    <3>1. \A q \in Proc : ~Replaces(q, a)
      BY <1>1, <2>1, AloneQuiet DEF Replaces
    <3> QED BY <1>5, <1>19, <2>1, <3>1 DEF Sound, Dated, Built
  <2>3. CASE cp[a] # None
    <3>1. cp[a].hash = Current(a) /\ Current(a) # None
      BY <1>10, <1>19, <2>3
    <3>2. Sealed(a)'
      BY <1>5, <2>1, <2>3, <3>1 DEF Sealed, Built
    <3>3. Current(a) \in closed'[a]
      BY <1>11, <1>18, <1>19, <2>3, <3>1 DEF Sure
    <3> QED BY <2>1, <2>2, <3>2, <3>3 DEF Agreed
  <2>4. CASE cp[a] = None /\ n = "reseal"
    <3>1. Gives(p, a)'
      BY <1>7, <1>8, <1>18, <2>4 DEF Gives
    <3> QED BY <2>2, <3>1 DEF Agreed
  <2>5. CASE cp[a] = None /\ n # "reseal"
    <3>1. ~Sealed(a)'
      BY <1>5, <2>5 DEF Sealed
    <3>2. Current(a) \notin closed'[a]
      BY <1>11, <1>18, <1>19, <2>5 DEF Sure
    <3> QED BY <2>1, <2>2, <3>1, <3>2 DEF Agreed
  <2> QED BY <2>3, <2>4, <2>5
<1>22. /\ record' \in Stamp \cup {None} /\ gestures' \in 0..Gestures
       /\ \A b \in Artifact : built'[b] = built[b]
  BY <1>5 DEF IInv
<1> QED BY <1>5, <1>6, <1>8, <1>13, <1>14, <1>15, <1>16, <1>17, <1>20, <1>21, <1>22, WriteStep

-----------------------------------------------------------------------------
(* A build leaves what it made *)

LEMMA PutDraft ==
    ASSUME FilesOK, NEW a \in Artifact, NEW c \in Content,
           last' = [last EXCEPT ![a] = @ + 1], c.id = last[a] + 1,
           draft' = [draft EXCEPT ![a] = c],
           crossed' \in SUBSET Artifact, crossed \subseteq crossed',
           UNCHANGED <<docs, curated, built, review, closed>>
    PROVE  /\ FilesOK' /\ Grows /\ draft'[a] = c
           /\ \A b \in Artifact : b # a => Same(b)
<1>1. draft' \in [Artifact -> Content \cup {None}] /\ draft'[a] = c /\ c # None
      /\ \A b \in Artifact : b # a => draft'[b] = draft[b]
  BY DEF FilesOK
<1>2. last \in [Artifact -> Nat] /\ Later /\ c.id <= last'[a]
  BY DEF FilesOK, Later
<1>3. FineReview(review)'
  BY <1>2 DEF Later, FilesOK, FineReview, Review, Entry, Content
<1>4. \A b \in Artifact : Fresh(b, curated[b])' /\ Fresh(b, draft[b])'
  BY <1>1, <1>2 DEF Later, FilesOK, Fresh, Content
<1>5. \A b \in Artifact : \A x \in closed'[b] : x.id <= last'[b]
  <2> SUFFICES ASSUME NEW b \in Artifact, NEW x \in closed[b] PROVE x.id <= last'[b]
    OBVIOUS
  <2>1. x \in Content /\ x.id <= last[b]
    BY DEF FilesOK
  <2> QED BY <1>2, <2>1 DEF Later, Content
<1>6. FilesOK'
  BY <1>1, <1>2, <1>3, <1>4, <1>5 DEF FilesOK, Later
<1>7. Grows
  BY <1>1, <1>2 DEF Grows, Built, Current, FilesOK
<1> QED BY <1>1, <1>6, <1>7 DEF Same

(* Where a process that is putting or has put a build may be. *)
LEMMA PutKind ==
    ASSUME IInv, NEW j \in Job, proc[j].at \in {"put", "built", "retire"}
    PROVE  /\ \/ j = "collect" /\ proc[j].art = "bank" /\ proc[j].at # "retire"
              \/ /\ j \in {"build_kg", "build_profile"}
                 /\ proc[j].art = Makes(j) /\ proc[j].next = "idle" /\ proc[j].art # "bank"
           /\ j \in Proc /\ j \notin Tab /\ proc[j] \in Process /\ proc[j].todo = <<>>
           /\ Typed(j) /\ InHand(j) /\ There(j) /\ proc[j].copy = None
           /\ \A a \in Held(j) \ crossed : Sure(j, a)
  BY JobKind DEF Shape, AtBuild, AtCollect, AtTag, Typed, Job, Makes

LEMMA PutBuiltSteps == ASSUME IInv, NEW j \in Job, PutBuilt(j) PROVE IInv'
<1>0. PICK a \in Artifact : a = proc[j].art
  BY JobKind DEF Process
<1>1. proc[j].at = "put"
  BY DEF PutBuilt
<1>2. /\ \/ j = "collect" /\ a = "bank"
         \/ /\ j \in {"build_kg", "build_profile"}
            /\ a = Makes(j) /\ proc[j].next = "idle" /\ a # "bank"
      /\ j \in Proc /\ j \notin Tab /\ proc[j] \in Process /\ proc[j].todo = <<>>
      /\ Typed(j) /\ InHand(j) /\ There(j) /\ proc[j].copy = None /\ FilesOK
  BY <1>0, <1>1, PutKind DEF IInv
<1>3. /\ proc[j].src \in Content /\ last[a] + 1 \in Nat /\ docs[Slot(a)] \in Nat
      /\ last \in [Artifact -> Nat]
      /\ proc[j].seen \in Nat /\ proc[j].seen <= proc[j].src.docs
      /\ proc[j].src.docs <= docs[Slot(a)]
  BY <1>0, <1>1, <1>2, SlotType DEF InHand, Process, FilesOK
<1>4. PICK c \in Content : /\ c = Edited(proc[j].src, a, last[a] + 1) /\ c.id = last[a] + 1
                           /\ c.docs = proc[j].src.docs
  <2>1. PICK s \in Content, n \in Nat : s = proc[j].src /\ n = last[a] + 1
    BY <1>3
  <2> QED BY <2>1, EditedType
<1> DEFINE r == [proc[j] EXCEPT !.at = "built", !.src = None, !.flag = TRUE]
<1>5. /\ Goes1(j, r) /\ last' = [last EXCEPT ![a] = @ + 1] /\ Touch(j, a)
      /\ UNCHANGED <<docs, built, review, record, tab, gestures, closed>>
      /\ IF a = "bank" THEN curated' = [curated EXCEPT ![a] = c] /\ UNCHANGED draft
                       ELSE draft' = [draft EXCEPT ![a] = c] /\ UNCHANGED curated
  BY <1>0, <1>4 DEF PutBuilt, Goes1
<1>6. r \in Process
  BY <1>2, ZenonT(30) DEF Process, At
<1>7. /\ r.at = "built" /\ r.next = proc[j].next /\ r.art = a /\ r.copy = None
      /\ r.todo = <<>> /\ r.seen = proc[j].seen
  BY <1>0, <1>2 DEF Process
<1> HIDE DEF r
<1>8. proc'[j] = r
  BY <1>2, <1>5 DEF Goes1, IInv
<1>9. /\ crossed' \in SUBSET Artifact /\ crossed \subseteq crossed'
      /\ (a \notin crossed' => Alone(j, a))
  BY <1>2, <1>5, Touched
<1>10. c \notin closed[a] /\ (review[a] # None => review[a].hash # c)
  BY <1>2, <1>4, NewName
<1>11. /\ r.seen # None /\ r.todo \in Seq(FineErrand)
       /\ Shape(j)'
  BY <1>2, <1>3, <1>7, <1>8, Nothing DEF Shape, AtBuild, AtCollect
<1>12. Replaces(j, a)' /\ ~Gives(j, a)' /\ ~Withdraws(j, a)'
  BY <1>7, <1>8 DEF Replaces, Gives, Withdraws
<1>13. Dated(a)'
  BY <1>2, <1>12 DEF Dated
<1>14. CASE a = "bank"
  <2>1. /\ FilesOK' /\ Grows /\ Current(a)' = c /\ curated'[a] = c
        /\ \A b \in Artifact : b # a => Same(b)
    <3>1. Later /\ c.id <= last'[a]
      BY <1>3, <1>4, <1>5 DEF Later
    <3>2. closed' \in [Artifact -> SUBSET Content]
          /\ \A b \in Artifact : closed'[b] = closed[b]
      BY <1>2, <1>5 DEF FilesOK
    <3>3. curated' = [curated EXCEPT ![a] = c] /\ UNCHANGED <<docs, draft, built, review>>
      BY <1>5, <1>14
    <3>4. curated'[a] = c
      BY <1>2, <3>3 DEF FilesOK
    <3> QED BY <1>2, <1>5, <1>9, <3>1, <3>2, <3>3, <3>4, PutFile
  <2>2. There(j)'
    <3>1. Built("types") /\ Built("graph")
      BY <1>1, <1>2, <1>14 DEF There
    <3>2. Built("types")' /\ Built("graph")'
      BY <2>1, <3>1 DEF Grows, Artifact
    <3>3. curated'["bank"] # None /\ j = "collect"
      BY <1>2, <1>14, <2>1
    <3> QED BY <1>2, <1>7, <1>8, <1>14, <3>2, <3>3 DEF There, Job
  <2>3. Sure(j, a)'
    BY <1>3, <1>4, <1>5, <1>7, <1>8, <1>12, <1>14, <2>1 DEF Sure
  <2>4. Agreed(a)'
    BY <1>5, <1>10, <2>1 DEF Agreed, Sealed
  <2> QED BY <1>1, <1>2, <1>5, <1>6, <1>7, <1>9, <1>11, <1>13, <2>1, <2>2, <2>3, <2>4, FileStep
<1>15. CASE a # "bank"
  <2>0. draft' = [draft EXCEPT ![a] = c] /\ UNCHANGED <<docs, curated, built, review, closed>>
    BY <1>5, <1>15
  <2>1. /\ FilesOK' /\ Grows /\ draft'[a] = c
        /\ \A b \in Artifact : b # a => Same(b)
    BY <1>2, <1>4, <1>5, <1>9, <2>0, PutDraft
  <2>2. There(j)'
    BY <1>2, <1>7, <1>8, <1>15, <2>1 DEF There
  <2>3. Sure(j, a)'
    BY <1>3, <1>4, <1>5, <1>7, <1>8, <1>10, <1>12, <1>15, <2>1 DEF Sure
  <2>4. ASSUME a \notin crossed' PROVE Agreed(a)'
    <3>1. CASE curated[a] = None
      <4>1. Current(a)' = c
        BY <2>0, <2>1, <3>1 DEF Current
      <4> QED BY <1>5, <1>10, <4>1 DEF Agreed, Sealed
    <3>2. CASE curated[a] # None
      <4>1. Current(a)' = Current(a)
        BY <2>0, <3>2 DEF Current
      <4>2. \A q \in Proc : ~Gives(q, a) /\ ~Withdraws(q, a)
        BY <1>1, <1>2, <1>9, <2>4, AloneQuiet DEF Gives, Withdraws
      <4>3. Sealed(a) <=> Current(a) \in closed[a]
        BY <1>9, <2>4, <4>2 DEF IInv, Sound, Agreed
      <4> QED BY <2>0, <4>1, <4>3 DEF Agreed, Sealed, Built
    <3> QED BY <3>1, <3>2
  <2> QED BY <1>1, <1>2, <1>5, <1>6, <1>7, <1>9, <1>11, <1>13, <2>1, <2>2, <2>3, <2>4, FileStep
<1> QED BY <1>14, <1>15

LEMMA RecordBuiltSteps == ASSUME IInv, NEW j \in Job, RecordBuilt(j) PROVE IInv'
<1>0. PICK a \in Artifact : a = proc[j].art
  BY JobKind DEF Process
<1>1. proc[j].at = "built"
  BY DEF RecordBuilt
<1>2. /\ \/ j = "collect" /\ a = "bank"
         \/ /\ j \in {"build_kg", "build_profile"}
            /\ a = Makes(j) /\ proc[j].next = "idle" /\ a # "bank"
      /\ j \in Proc /\ j \notin Tab /\ proc[j] \in Process /\ proc[j].todo = <<>>
      /\ Typed(j) /\ InHand(j) /\ There(j) /\ proc[j].copy = None /\ FilesOK
      /\ (a \notin crossed => Sure(j, a))
  BY <1>0, <1>1, PutKind DEF IInv, Held
<1>3. PICK n \in Nat : n = proc[j].seen
  BY <1>1, <1>2 DEF InHand, Process
<1>4. PICK at \in {"index", "retire"} : at = IF a = "bank" THEN "index" ELSE "retire"
  OBVIOUS
<1> DEFINE r == [proc[j] EXCEPT !.at = at]
<1>5. /\ Goes1(j, r) /\ built' = [built EXCEPT ![a] = n]
      /\ UNCHANGED <<docs, curated, draft, review, record, tab, last, gestures, closed, crossed>>
  BY <1>0, <1>3, <1>4 DEF RecordBuilt, Goes, Goes1
<1>6. r \in Process
  BY <1>2, ZenonT(30) DEF Process, At
<1>7. r.at = at /\ r.next = proc[j].next /\ r.art = a /\ r.copy = None /\ r.todo = <<>>
  BY <1>0, <1>2 DEF Process
<1> HIDE DEF r
<1>8. proc'[j] = r /\ TabsOK' /\ record' \in Stamp \cup {None} /\ gestures' \in 0..Gestures
  BY <1>2, <1>5, TabsKept DEF Goes1, IInv
<1>9. /\ built' \in [Artifact -> Nat \cup {None}] /\ built'[a] = n
      /\ \A b \in Artifact : b # a => built'[b] = built[b]
  BY <1>2, <1>5 DEF FilesOK
<1>10. FilesOK' /\ Grows /\ \A b \in Artifact : Same(b)
  <2>1. FineReview(review)' /\ \A b \in Artifact : Fresh(b, curated[b])' /\ Fresh(b, draft[b])'
    BY <1>2, <1>5 DEF FilesOK, FineReview, Fresh
  <2>2. FilesOK'
    BY <1>2, <1>5, <1>9, <2>1 DEF FilesOK
  <2> QED BY <1>2, <1>5, <2>2 DEF Grows, Same, Built, Current, FilesOK, Later
<1>11. Current(a)' = Current(a) /\ (Built(a)' <=> Built(a)) /\ (Sealed(a)' <=> Sealed(a))
  BY <1>5 DEF Current, Built, Sealed
<1>12. ASSUME NEW q \in Proc, q # j, proc[q].at = "retire" PROVE proc[q].art # a
  <2>1. AtBuild(q, proc[q]) /\ q \in {"build_kg", "build_profile"}
    BY <1>12, ProcKind DEF Shape, AtTab, AtCollect, AtTag, Proc, Job
  <2> QED BY <1>2, <1>12, <2>1 DEF AtBuild, Makes
<1>13. \A b \in Artifact : b # a => ~Replaces(j, b) /\ ~Gives(j, b) /\ ~Withdraws(j, b)
  BY <1>0 DEF Replaces, Gives, Withdraws
<1>14. Shape(j)' /\ Typed(j)' /\ InHand(j)'
  <2>1. r.todo \in Seq(FineErrand)'
    BY <1>2, <1>7, <1>10, Nothing, FineGrows
  <2> QED BY <1>2, <1>4, <1>6, <1>7, <1>8, <2>1 DEF Shape, AtBuild, AtCollect, Typed, InHand
<1>15. There(j)'
  <2>1. CASE a = "bank"
    <3>1. Built("bank") /\ Built("types") /\ Built("graph")
      BY <1>0, <1>1, <1>2, <2>1 DEF There, Built, Current
    <3>2. Built("bank")' /\ Built("types")' /\ Built("graph")'
      BY <1>10, <3>1 DEF Grows, Artifact
    <3> QED BY <1>2, <1>4, <1>7, <1>8, <2>1, <3>2 DEF There, Job
  <2>2. CASE a # "bank"
    <3>1. draft[a] # None
      BY <1>0, <1>1, <1>2, <2>2 DEF There
    <3> QED BY <1>2, <1>4, <1>5, <1>7, <1>8, <2>2, <3>1 DEF There
  <2> QED BY <2>1, <2>2
<1>16. docs[Slot(a)] \in Nat /\ docs' = docs
  BY <1>5, SlotType
<1>17. ASSUME NEW b \in Held(j)' \ crossed' PROVE Sure(j, b)'
  <2>1. b = a /\ at = "retire" /\ a # "bank" /\ a \notin crossed
    BY <1>4, <1>5, <1>7, <1>8, <1>17 DEF Held
  <2>2. Sure(j, a)
    BY <1>2, <2>1
  <2>3. Sure(j, a)'
    BY <1>1, <1>3, <1>5, <1>7, <1>8, <1>9, <2>1, <2>2 DEF Sure, Gives, Withdraws
  <2> QED BY <2>1, <2>3, Zenon
<1>18. Good(j)'
  BY <1>14, <1>15, <1>17 DEF Good
<1>19. Sound(a)'
  <2> SUFFICES ASSUME a \notin crossed' PROVE Dated(a)' /\ Agreed(a)'
    BY DEF Sound
  <2>1. Sure(j, a) /\ Sound(a) /\ a \notin crossed
    BY <1>2, <1>5 DEF IInv
  <2>2. Dated(a)'
    <3>1. CASE a = "bank"
      <4>1. Current(a) = curated[a]
        BY <1>0, <1>1, <1>2, <3>1 DEF There, Current
      <4>2. n <= Current(a).docs /\ Current(a).docs <= docs[Slot(a)]
        BY <1>1, <1>3, <2>1, <3>1, <4>1 DEF Sure
      <4> QED BY <1>9, <1>11, <1>16, <4>2 DEF Dated
    <3>2. CASE a # "bank"
      <4>1. Replaces(j, a)'
        BY <1>4, <1>7, <1>8, <3>2 DEF Replaces
      <4> QED BY <1>2, <4>1 DEF Dated
    <3> QED BY <3>1, <3>2
  <2>3. \A q \in Proc : (Gives(q, a) => Gives(q, a)') /\ (Withdraws(q, a) => Withdraws(q, a)')
    <3> SUFFICES ASSUME NEW q \in Proc
                 PROVE  (Gives(q, a) => Gives(q, a)') /\ (Withdraws(q, a) => Withdraws(q, a)')
      OBVIOUS
    <3>1. CASE q = j
      BY <1>1, <3>1 DEF Gives, Withdraws
    <3>2. CASE q # j
      <4>1. proc'[q] = proc[q]
        BY <1>5, <3>2 DEF Goes1, IInv
      <4> QED BY <4>1 DEF Gives, Withdraws
    <3> QED BY <3>1, <3>2
  <2>4. Agreed(a)'
    BY <1>5, <1>11, <2>1, <2>3 DEF Sound, Agreed
  <2> QED BY <2>2, <2>4
<1>20. /\ \A b \in Artifact \ crossed' : b # a => Same(b)
       /\ \A q \in Proc : q # j /\ a \in Held(q) \ crossed' => Same(a)
  BY <1>10
<1> QED BY <1>2, <1>5, <1>6, <1>8, <1>9, <1>10, <1>12, <1>13, <1>18, <1>19, <1>20, WriteStep

LEMMA RetireSteps == ASSUME IInv, NEW j \in Job, Retire(j) PROVE IInv'
<1>0. PICK a \in Artifact : a = proc[j].art
  BY JobKind DEF Process
<1>1. proc[j].at = "retire"
  BY DEF Retire
<1>2. /\ j \in {"build_kg", "build_profile"} /\ a = Makes(j) /\ a # "bank"
      /\ j \in Proc /\ j \notin Tab /\ proc[j] \in Process /\ proc[j].todo = <<>>
      /\ Typed(j) /\ There(j) /\ proc[j].copy = None /\ FilesOK
      /\ (a \notin crossed => Sure(j, a))
  BY <1>0, <1>1, PutKind DEF IInv, Held
<1>3. PICK at \in {"idle", "reopen"} : at = IF curated[a] = None THEN "idle" ELSE "reopen"
  OBVIOUS
<1> DEFINE r == [proc[j] EXCEPT !.at = at, !.next = "idle"]
<1>4. /\ Goes1(j, r) /\ curated' = [curated EXCEPT ![a] = None] /\ Touch(j, a)
      /\ UNCHANGED <<docs, draft, built, review, record, tab, last, gestures, closed>>
  BY <1>0, <1>3 DEF Retire, Goes1
<1>5. r \in Process
  BY <1>2, ZenonT(30) DEF Process, At
<1>6. r.at = at /\ r.next = "idle" /\ r.art = a /\ r.copy = None /\ r.todo = <<>>
  BY <1>0, <1>2 DEF Process
<1> HIDE DEF r
<1>7. proc'[j] = r /\ TabsOK' /\ record' \in Stamp \cup {None} /\ gestures' \in 0..Gestures
  BY <1>2, <1>4, TabsKept DEF Goes1, IInv
<1>8. /\ crossed' \in SUBSET Artifact /\ crossed \subseteq crossed'
      /\ (a \notin crossed' => Alone(j, a))
  BY <1>2, <1>4, Touched
<1>9. /\ curated' \in [Artifact -> Content \cup {None}] /\ curated'[a] = None
      /\ \A b \in Artifact : b # a => curated'[b] = curated[b]
  BY <1>2, <1>4 DEF FilesOK
<1>10. draft[a] # None /\ draft[a] \in Content /\ Current(a)' = draft[a]
  BY <1>0, <1>1, <1>2, <1>4, <1>9 DEF There, FilesOK, Current
<1>11. FilesOK'
  <2>1. FineReview(review)' /\ \A b \in Artifact : Fresh(b, curated[b])' /\ Fresh(b, draft[b])'
    BY <1>2, <1>4, <1>9 DEF FilesOK, FineReview, Fresh
  <2> QED BY <1>2, <1>4, <1>8, <1>9, <2>1 DEF FilesOK
<1>12. Grows
  BY <1>2, <1>4, <1>8, <1>9, <1>10 DEF Grows, Built, Current, FilesOK, Later
<1>13. \A b \in Artifact : b # a => Same(b)
  BY <1>4, <1>9 DEF Same
<1>14. \A b \in Artifact : b # a => ~Replaces(j, b) /\ ~Gives(j, b) /\ ~Withdraws(j, b)
  BY <1>0 DEF Replaces, Gives, Withdraws
<1>15. Shape(j)' /\ Typed(j)' /\ InHand(j)' /\ There(j)'
  <2>1. r.todo \in Seq(FineErrand)'
    BY <1>2, <1>6, <1>11, <1>12, Nothing, FineGrows
  <2> QED BY <1>2, <1>5, <1>6, <1>7, <2>1 DEF Shape, AtBuild, Typed, InHand, There
<1>16. ASSUME a \notin crossed', curated[a] # None
       PROVE  draft[a] \notin closed[a] /\ ~Sealed(a)'
  <2>1. draft[a] \notin closed[a] /\ (review[a] # None => review[a].hash # draft[a])
    BY <1>1, <1>2, <1>8, <1>16 DEF Sure
  <2> QED BY <1>4, <1>10, <2>1 DEF Sealed
<1>17. ASSUME NEW b \in Held(j)' \ crossed' PROVE Sure(j, b)'
  <2>1. b = a /\ at = "reopen" /\ a \notin crossed' /\ curated[a] # None
    BY <1>3, <1>6, <1>7, <1>17 DEF Held
  <2>2. Current(a)' \notin closed'[a]
    BY <1>4, <1>10, <1>16, <2>1
  <2>3. Sure(j, a)'
    BY <1>2, <1>6, <1>7, <2>1, <2>2 DEF Sure, Gives
  <2> QED BY <2>1, <2>3, Zenon
<1>18. Good(j)'
  BY <1>15, <1>17 DEF Good
<1>19. Sound(a)'
  <2> SUFFICES ASSUME a \notin crossed' PROVE Dated(a)' /\ Agreed(a)'
    BY DEF Sound
  <2>1. Sure(j, a) /\ Sound(a) /\ a \notin crossed /\ Alone(j, a)
    BY <1>2, <1>8 DEF IInv
  <2>2. Dated(a)'
    BY <1>1, <1>4, <1>10, <2>1 DEF Sure, Dated, Slot
  <2>3. CASE curated[a] = None
    <3>1. \A q \in Proc : ~Gives(q, a) /\ ~Withdraws(q, a)
      BY <1>1, <1>2, <2>1, AloneQuiet DEF Gives, Withdraws
    <3>2. Sealed(a) <=> Current(a) \in closed[a]
      BY <2>1, <3>1 DEF Sound, Agreed
    <3>3. Current(a)' = Current(a)
      BY <1>10, <2>3 DEF Current
    <3> QED BY <1>4, <2>2, <3>2, <3>3 DEF Agreed, Sealed, Built
  <2>4. CASE curated[a] # None
    BY <1>4, <1>10, <1>16, <2>2, <2>4 DEF Agreed
  <2> QED BY <2>3, <2>4
<1>20. /\ \A q \in Proc : q # j /\ a \in Held(q) \ crossed' => Same(a)
       /\ \A b \in Artifact : built'[b] = built[b]
  BY <1>4, <1>8 DEF Alone
<1> QED BY <1>2, <1>4, <1>5, <1>7, <1>11, <1>12, <1>13, <1>14, <1>18, <1>19, <1>20, WriteStep

(* A document arrives: what was made of fewer is still made of no more than there are. *)
LEMMA UploadSteps == ASSUME IInv, NEW s \in {"corpus", "exemplars"}, Upload(s) PROVE IInv'
<1>1. /\ docs' = [docs EXCEPT ![s] = @ + 1]
      /\ UNCHANGED <<curated, draft, built, review, record, proc, tab, last, gestures, closed,
                     crossed>>
  BY DEF Upload
<1>2. FilesOK /\ docs' \in [{"corpus", "exemplars"} -> Nat]
      /\ \A x \in {"corpus", "exemplars"} : docs[x] <= docs'[x]
  BY <1>1 DEF IInv, FilesOK
<1>3. FilesOK'
  <2>1. FineReview(review)' /\ \A b \in Artifact : Fresh(b, curated[b])' /\ Fresh(b, draft[b])'
    BY <1>1, <1>2 DEF FilesOK, FineReview, Fresh
  <2> QED BY <1>1, <1>2, <2>1 DEF FilesOK
<1>4. Grows /\ \A a \in Artifact : Same(a) /\ built'[a] = built[a]
  BY <1>1, <1>2 DEF Grows, Same, Built, Current, FilesOK, Later
<1>5. TabsOK'
  BY <1>1, TabsKept
<1>6. \A q \in Proc : Good(q)'
  <2> SUFFICES ASSUME NEW q \in Proc PROVE Good(q)'
    OBVIOUS
  <2>1. Good(q) /\ proc[q].art \in Artifact /\ proc'[q] = proc[q]
    BY <1>1 DEF IInv, Process
  <2>2. \A a \in Held(q) : a \in Artifact
    BY <2>1 DEF Held, Artifact
  <2> QED BY <1>2, <1>3, <1>4, <2>1, <2>2, OtherKeeps
<1>7. ASSUME NEW a \in Artifact PROVE Sound(a)'
  <2>1. \A q \in Proc : /\ Replaces(q, a) => Replaces(q, a)'
                        /\ Gives(q, a) => Gives(q, a)'
                        /\ Withdraws(q, a) => Withdraws(q, a)'
    BY <1>1 DEF Replaces, Gives, Withdraws
  <2> QED BY <1>2, <1>3, <1>4, <2>1, ArtKeeps DEF IInv
<1> QED BY <1>1, <1>3, <1>5, <1>6, <1>7 DEF IInv

-----------------------------------------------------------------------------
(* The invariant holds throughout *)

LEMMA IdleProcess == Idle \in Process /\ Closed \in Editor
<1>1. Idle \in Process
  BY Nothing, ZenonT(30) DEF Idle, Process, At, Artifact
<1>2. Closed \in Editor
  BY DEF Closed, Editor
<1> QED BY <1>1, <1>2

LEMMA Start0 == Init => IInv
<1> SUFFICES ASSUME Init PROVE IInv
  OBVIOUS
<1> DEFINE c(n, ty, co, ju) == [id |-> n, docs |-> 1, types |-> ty, concepts |-> co, judged |-> ju]
           made == [graph |-> c(1, 1, 1, 1), types |-> c(1, 0, 0, 0), bank |-> c(1, 1, 0, 0)]
<1>1. PICK done \in BOOLEAN :
        /\ docs = [s \in {"corpus", "exemplars"} |-> 1]
        /\ curated = [a \in Artifact |-> IF done /\ a # "types" THEN made[a] ELSE None]
        /\ draft = [a \in Artifact |-> IF done /\ a = "types" THEN made[a] ELSE None]
        /\ built = [a \in Artifact |-> IF done THEN 1 ELSE None]
        /\ review = [a \in Artifact |-> IF done THEN [hash |-> made[a],
                                          up |-> [u \in Upstream(a) |-> made[u]]] ELSE None]
        /\ record = IF done THEN [types |-> 1, concepts |-> 1] ELSE None
        /\ proc = [p \in Proc |-> Idle]
        /\ tab = [t \in Tab |-> Closed]
        /\ last = [a \in Artifact |-> IF done THEN 1 ELSE 0] /\ gestures = 0
        /\ closed = [a \in Artifact |-> IF done THEN {made[a]} ELSE {}]
        /\ crossed = {}
  BY DEF Init
<1>2. \A a \in Artifact : made[a] \in Content /\ made[a].id = 1 /\ made[a].docs = 1
  BY DEF Artifact, Content
<1> HIDE DEF made
<1>3. \A a \in Artifact : [u \in Upstream(a) |-> made[u]]
         \in [Upstream("bank") -> Content \cup {None}] \cup [Upstream("types") -> Content \cup {None}]
  BY <1>2 DEF Upstream, Artifact
<1>4. review \in Review /\ FineReview(review)
  BY <1>1, <1>2, <1>3 DEF Review, Entry, FineReview
<1>5. record \in Stamp \cup {None} /\ gestures \in 0..Gestures
  BY <1>1 DEF Stamp
<1>6. FilesOK
  BY <1>1, <1>2, <1>4 DEF FilesOK, Fresh
<1>7. TabsOK
  BY <1>1, IdleProcess DEF TabsOK, TabOK, Fresh, Closed
<1>8. proc \in [Proc -> Process]
  BY <1>1, IdleProcess
<1>9. ASSUME NEW p \in Proc PROVE Good(p)
  <2>1. /\ proc[p].at = "idle" /\ proc[p].next = "idle" /\ proc[p].copy = None
        /\ proc[p].todo = <<>> /\ proc[p] \in Process
    BY <1>1, <1>8 DEF Idle
  <2>2. Typed(p) /\ InHand(p) /\ There(p) /\ Held(p) = {}
    BY <2>1, Nothing DEF Typed, InHand, There, Held, Job
  <2>3. Shape(p)
    BY <2>1 DEF Shape, AtTab, AtBuild, AtCollect, AtTag
  <2> QED BY <2>2, <2>3 DEF Good
<1>10. ASSUME NEW a \in Artifact PROVE Sound(a)
  <2>1. \A b \in Artifact : Current(b) = IF done THEN made[b] ELSE None
    BY <1>1 DEF Current
  <2>2. Dated(a)
    BY <1>1, <1>2, <2>1 DEF Dated, Built, Slot
  <2>3. Sealed(a) <=> done
    <3>1. CASE done
      <4>1. review[a] = [hash |-> made[a], up |-> [u \in Upstream(a) |-> made[u]]]
        BY <1>1, <3>1
      <4>2. review[a] # None /\ review[a].hash = made[a]
        BY <1>2, <1>3, <4>1 DEF Entry
      <4> QED BY <1>2, <2>1, <3>1, <4>2 DEF Sealed, Built
    <3>2. CASE ~done
      BY <2>1, <3>2 DEF Sealed, Built
    <3> QED BY <3>1, <3>2
  <2>4. Agreed(a)
    BY <1>1, <2>1, <2>3 DEF Agreed
  <2> QED BY <2>2, <2>4 DEF Sound
<1> QED BY <1>5, <1>6, <1>7, <1>8, <1>9, <1>10 DEF IInv

LEMMA Keeps == IInv /\ [Next]_vars => IInv'
<1> SUFFICES ASSUME IInv, [Next]_vars PROVE IInv'
  OBVIOUS
<1>1. ASSUME NEW t \in Tab, Request(t) PROVE IInv'
  BY <1>1, SaveTypesSteps, ApproveSteps, ReadEditSteps, WriteEditSteps, SubmitSteps, RefusedSteps,
     LeaveSteps DEF Request
<1>2. ASSUME NEW t \in Tab, Screen(t) PROVE IInv'
  BY <1>2, SeePipelineSteps, SeeTypesSteps, AskingMoves, TypeSteps, RetagSteps, BuildSteps DEF Screen
<1>3. ASSUME NEW p \in Proc, Reopen(p) \/ SaveReview(p) \/ Reseal(p) PROVE IInv'
  BY <1>3, ReopenSteps, SaveReviewSteps, ResealSteps
<1>4. ASSUME NEW j \in Job, Works(j) PROVE IInv'
  <2>1. proc[j].at = "patching" => j = "tag"
    BY JobKind DEF Shape, AtBuild, AtCollect, Job
  <2> QED BY <1>4, <2>1, RecordDocsSteps, ReadDocsSteps, PutBuiltSteps, RecordBuiltSteps,
             RetireSteps, FailSteps, CutSteps DEF Works
<1>5. CASE Collection
  BY <1>5, ReviewSteps, LookSealedSteps, ReadGraphSteps, RelabelSteps, AdvanceSteps, CloseSteps
     DEF Collection
<1>6. CASE BeginTag \/ SaveTags \/ EndTags
  BY <1>6, BeginTagSteps, SaveTagsSteps, EndTagsSteps
<1>7. ASSUME NEW s \in {"corpus", "exemplars"}, Upload(s) PROVE IInv'
  BY <1>7, UploadSteps
<1>8. CASE UNCHANGED vars
  <2>1. TabsOK' /\ UNCHANGED <<files, proc, closed, crossed>> /\ Later
        /\ gestures' \in 0..Gestures
    BY <1>8, TabsKept DEF vars, IInv, FilesOK, Later
  <2> QED BY <2>1, EditorStep
<1> QED BY <1>1, <1>2, <1>3, <1>4, <1>5, <1>6, <1>7, <1>8 DEF Next

(* The types of the files, of the processes and of the tabs, what each      *)
(* process has in hand, and what is true of an artifact for as long as no   *)
(* two processes have been on it at once (server/pipeline, server/kg).      *)
THEOREM Invariant == Spec => []IInv
<1>1. Init => IInv
  BY Start0
<1>2. IInv /\ [Next]_vars => IInv'
  BY Keeps
<1> QED BY <1>1, <1>2, PTL DEF Spec

(* Every variable keeps its type. *)
THEOREM TypeCorrect == Spec => []TypeOK
<1>1. IInv => TypeOK
  <2> SUFFICES ASSUME IInv PROVE TypeOK
    OBVIOUS
  <2>1. FilesOK /\ TabsOK /\ record \in Stamp \cup {None} /\ gestures \in 0..Gestures
        /\ proc \in [Proc -> Process] /\ \A p \in Proc : Typed(p)
    BY DEF IInv, Good
  <2>2. \A a \in Artifact : review[a] # None => DOMAIN review[a].up = Upstream(a)
    BY <2>1 DEF FilesOK, FineReview
  <2>3. \A t \in Tab : /\ tab[t].text # None => tab[t].at = "here" /\ tab[t].base # None
                       /\ tab[t].typed => tab[t].text # None
    BY <2>1 DEF TabsOK, TabOK
  <2>4. \A j \in Job : proc[j].todo = <<>>
    BY JobKind DEF Typed
  <2> QED BY <2>1, <2>2, <2>3, <2>4 DEF TypeOK, FilesOK, TabsOK, Typed
<1> QED BY <1>1, Invariant, PTL

(* Whatever arrives while an artifact is being built, one that does not     *)
(* read stale for its documents was made from those its slot holds          *)
(* (record_built, raw_drift).                                               *)
THEOREM StalenessTold == Spec => []DriftIsTold
<1>1. IInv => DriftIsTold
  <2> SUFFICES ASSUME IInv, NEW a \in Artifact \ crossed, Built(a), ~Building(a), ~Drift(a)
               PROVE  Current(a).docs = docs[Slot(a)]
    BY DEF DriftIsTold
  <2>1. ASSUME NEW p \in Proc, Replaces(p, a) PROVE FALSE
    <3>1. Shape(p)
      BY ProcKind
    <3>2. p = Builder[a]
      BY <2>1, <3>1 DEF Shape, Replaces, AtTab, AtBuild, AtCollect, AtTag, Makes, Builder, Proc,
                        Job, Artifact
    <3>3. proc[Builder[a]].at \in {"built", "retire"}
      BY <2>1, <3>2, Zenon DEF Replaces
    <3>4. /\ proc[Builder[a]].at \notin {"idle", "index", "close", "save"}
          /\ a = "bank" => Builder[a] = "collect"
      BY <3>3 DEF Builder
    <3> QED BY <3>4 DEF Building
  <2>2. built[a] # None /\ built[a] <= Current(a).docs /\ Current(a).docs <= docs[Slot(a)]
    BY <2>1 DEF IInv, Sound, Dated
  <2>3. built[a] = docs[Slot(a)]
    BY <2>2 DEF Drift
  <2>4. Current(a).docs \in Nat /\ docs[Slot(a)] \in Nat
    BY CurrentType, SlotType DEF IInv, Content
  <2> QED BY <2>2, <2>3, <2>4
<1> QED BY <1>1, Invariant, PTL

LEMMA SettledSays == ASSUME NEW a, ~Midway(a)
                     PROVE  \A p \in Proc : ~Gives(p, a) /\ ~Withdraws(p, a)
  BY DEF Midway, Gives, Withdraws

LEMMA SealIsClosing == ASSUME IInv, NEW a \in Artifact \ crossed, ~Midway(a)
                       PROVE  Sealed(a) <=> Current(a) \in closed[a]
  BY SettledSays DEF IInv, Sound, Agreed

(* What a person closed stays closed through what the system does to it by  *)
(* itself (review_taggability, mark_artifact_edited, the exercise editor).  *)
THEOREM ClosedIsKept == Spec => []ClosedStaysClosed
<1>1. IInv => ClosedStaysClosed
  BY SealIsClosing DEF ClosedStaysClosed
<1> QED BY <1>1, Invariant, PTL

(* No stage reads closed on a content nobody closed (approve_artifact,      *)
(* the chain's end).                                                        *)
THEOREM DraftsStayDrafts == Spec => []NothingSealsItself
<1>1. IInv => NothingSealsItself
  BY SealIsClosing DEF NothingSealsItself
<1> QED BY <1>1, Invariant, PTL

(* With nothing under way no artifact is being built. *)
LEMMA QuietBuildsNothing ==
  ASSUME IInv, Quiet
  PROVE  /\ proc["collect"].at = "idle"
         /\ \A a \in Artifact : Status(a) = State(a)
<1>1. ASSUME NEW j \in Job PROVE proc[j].at = "idle"
  <2>1. j \in Proc /\ proc[j].at \in {"idle", "left"}
    BY DEF Quiet, Proc
  <2>2. proc[j].at # "left"
    BY <2>1 DEF IInv, Good, Shape, AtBuild, AtCollect, AtTag, Job
  <2> QED BY <2>1, <2>2
<1>2. \A a \in Artifact : Builder[a] \in Job
  BY DEF Builder, Artifact, Job
<1>3. \A a \in Artifact : ~Building(a)
  BY <1>1, <1>2 DEF Building, Job
<1> QED BY <1>1, <1>3 DEF Status, Job

(* Nobody is stuck: in a subject that is not finished and where nothing is *)
(* under way, every tab is offered a move that brings it on, whatever was  *)
(* built, corrected, uploaded, closed or crossed before (StageGate,        *)
(* BankScreen).                                                            *)
THEOREM NobodyIsStuck == Spec => []NextMoveIsOpen
<1>1. IInv => NextMoveIsOpen
  <2> SUFFICES ASSUME IInv, Quiet, NEW t \in Tab, ~BringsOn(t) PROVE Unlocked
    BY DEF NextMoveIsOpen
  <2>1. proc["collect"].at = "idle" /\ \A a \in Artifact : Status(a) = State(a)
    BY QuietBuildsNothing
  <2>2. ASSUME NEW a \in {"graph", "types"} PROVE Built(a) /\ ~Drift(a)
    <3>1. a \in Artifact /\ a # "bank" /\ ~CanBuild(a)
      BY DEF BringsOn, Artifact
    <3>2. State(a) \notin {"missing"} /\ State(a) # "building"
      BY <2>1, <3>1 DEF CanBuild, State
    <3> QED BY <2>1, <3>1, <3>2 DEF CanBuild, DriftShown, Ready, State
  <2>3. \A a \in Artifact : State(a) # "building"
    BY DEF State
  <2>4. Ready("graph") /\ Ready("types")
    BY <2>1, <2>2, <2>3 DEF Ready, State, Artifact
  <2>5. State("graph") = "approved" /\ GraphReady
    <3>1. Sealed("graph")
      BY <2>2, <2>4 DEF BringsOn
    <3> QED BY <2>1, <2>2, <3>1 DEF State, UpstreamMoved, Upstream, GraphReady, Artifact
  <2>6. Collected /\ ~Recollect(t)
    BY <2>1, <2>2, <2>4, <2>5 DEF BringsOn, CanCollect, DriftShown, Collecting
  <2>7. CanFinish(t) /\ ~Drift("bank")
    <3>1. State("bank") \notin {"missing", "stale"}
      BY <2>1, <2>6 DEF Collected, Recollect, Artifact
    <3> QED BY <2>2, <2>5, <2>6, <3>1 DEF CanFinish, DriftShown, State
  <2>8. State("types") = "approved" /\ State("bank") = "approved"
    BY <2>7 DEF BringsOn
  <2> QED BY <2>5, <2>8 DEF Unlocked, Artifact
<1> QED BY <1>1, Invariant, PTL
=============================================================================
