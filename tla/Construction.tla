----------------------------- MODULE Construction -----------------------------
(***************************************************************************)
(* The construction of a subject: the chain of artifacts and the file of   *)
(* their approvals, which every transition reads and rewrites whole        *)
(* (server/pipeline), the edits that withdraw an approval or give it back  *)
(* (server/kg, server/bank), the builds and the collection of the bank     *)
(* that the queue runs beside them, and the teachers' tabs: the moves the  *)
(* screens offer and the requests each sends (web/src/features/bank,       *)
(* components/StageGate.tsx).  One subject.                                *)
(***************************************************************************)
EXTENDS Integers, Sequences, FiniteSets

CONSTANTS Tab,       \* browser tabs of people who may edit
          Offers,    \* the kinds of gesture a tab may make
          Gestures,  \* bound: gestures in a behaviour
          Uploads,   \* bound: documents uploaded in a behaviour
          Saves,     \* bound: exercises a tagging saves
          Starts,    \* how the subject starts: "empty" or "closed"
          None

ASSUME BoundsAssumption == Gestures \in Nat /\ Uploads \in Nat /\ Saves \in Nat

VARIABLES
  docs,      \* docs[s]: how many documents the raw slot s holds
  curated,   \* curated[a]: the file edits go to, None when there is none
  draft,     \* draft[a]: what a build left, None when there is none
  built,     \* built[a]: the documents the last build recorded
  review,    \* the file of approvals: an entry for each artifact, or None
  record,    \* what the last taggability review wrote it had read
  proc,      \* the request or job of each process and how far it is
  tab,       \* what the types' editor of each tab holds
  last,      \* last[a]: contents of a made so far: the name of the newest
  gestures,
  closed,    \* closed[a]: contents a person closed, or the system made of one
             \* and gives its approval back to: not what a tagging cut short leaves
  crossed    \* artifacts two processes were on at the same time

files == <<docs, curated, draft, built, review, record>>
vars == <<files, proc, tab, last, gestures, closed, crossed>>

Artifact == {"graph", "types", "bank"}
Slot(a) == IF a = "graph" THEN "corpus" ELSE "exemplars"
Upstream(a) == IF a = "bank" THEN {"types", "graph"} ELSE {}
Builder == [graph |-> "build_kg", types |-> "build_profile", bank |-> "collect"]
Job == {"build_kg", "build_profile", "collect", "tag"}
Proc == Tab \cup Job

\* What a file says, as far as anything tells two apart: the documents, the
\* types and the concepts it was made from, the concepts its labels were judged on.
Content == [id : Nat, docs : Nat, types : Nat, concepts : Nat, judged : Nat]
Entry == [hash : Content, up : [Upstream("bank") -> Content \cup {None}]
                               \cup [Upstream("types") -> Content \cup {None}]]
Review == [Artifact -> Entry \cup {None}]
Stamp == [types : Nat, concepts : Nat]

\* A request a tab has still to make, with what a save carries.
Errand == [op : {"save", "approve", "edit", "submit", "leave"}, art : Artifact,
           text : Content \cup {None}, base : Content \cup {None}]
At == {"idle", "left", "save", "reopen", "write", "reseal", "docs", "read", "put", "built",
       "retire", "review", "judged", "raw", "relabel", "record", "advance", "index", "close",
       "begin", "tagging", "patching"}
Process == [at : At, art : Artifact, next : At, copy : Review \cup {None},
            src : Content \cup {None}, seen : Nat \cup {None}, print : Stamp \cup {None},
            flag : BOOLEAN, todo : Seq(Errand)]
Editor == [at : {"gone", "here"}, known : Content \cup {None}, text : Content \cup {None},
           base : Content \cup {None}, typed : BOOLEAN]

ASSUME NamesAssumption ==
  /\ Starts \subseteq {"empty", "closed"} /\ Tab \cap Job = {}
  /\ None \notin Tab /\ None \notin Nat /\ None \notin Content /\ None \notin Entry
  /\ None \notin Review /\ None \notin Stamp

Idle == [at |-> "idle", art |-> "graph", next |-> "idle", copy |-> None, src |-> None,
         seen |-> None, print |-> None, flag |-> FALSE, todo |-> <<>>]
Closed == [at |-> "gone", known |-> None, text |-> None, base |-> None, typed |-> FALSE]

(***************************************************************************)
(* What the files say                                                      *)
(***************************************************************************)
Current(a) == IF curated[a] # None THEN curated[a] ELSE draft[a]
Built(a) == Current(a) # None

Sealed(a) == /\ Built(a) /\ review[a] # None
             /\ review[a].hash = Current(a)

Drift(a) == built[a] # None /\ built[a] # docs[Slot(a)]

UpstreamMoved(a) == Sealed(a) /\ \E u \in Upstream(a) : review[a].up[u] # Current(u)

State(a) == IF ~Built(a) THEN "missing"
            ELSE IF Drift(a) \/ UpstreamMoved(a) THEN "stale"
            ELSE IF Sealed(a) THEN "approved" ELSE "draft"

GateOpen(a) == \A u \in Upstream(a) : State(u) = "approved"

Unlocked == \A a \in Artifact : State(a) = "approved"

Fingerprint == [types |-> Current("types").id, concepts |-> Current("graph").concepts]

UpToDate == /\ Built("types") /\ Current("graph").judged # 0
            /\ record \in {None, Fingerprint}

\* The bank is being made from the review on; the index behind it writes no artifact.
Building(a) == \/ proc[Builder[a]].at \notin {"idle", "index", "close"}
                  /\ ~(a = "bank" /\ proc["collect"].art = "bank" /\ proc["collect"].at = "save")
               \/ a = "bank" /\ proc["tag"].at # "idle"

Status(a) == IF Building(a) THEN "building" ELSE State(a)

Init ==
  \E start \in Starts :
    LET c(n, ty, co, ju) == [id |-> n, docs |-> 1, types |-> ty, concepts |-> co, judged |-> ju]
        made == [graph |-> c(1, 1, 1, 1), types |-> c(1, 0, 0, 0), bank |-> c(1, 1, 0, 0)]
        done == start = "closed"
    IN /\ docs = [s \in {"corpus", "exemplars"} |-> 1]
       /\ curated = [a \in Artifact |-> IF done /\ a # "types" THEN made[a] ELSE None]
       /\ draft = [a \in Artifact |-> IF done /\ a = "types" THEN made[a] ELSE None]
       /\ built = [a \in Artifact |-> IF done THEN 1 ELSE None]
       /\ review = [a \in Artifact |-> IF done THEN [hash |-> made[a],
                                          up |-> [u \in Upstream(a) |-> made[u]]] ELSE None]
       /\ record = IF done THEN [types |-> 1, concepts |-> 1] ELSE None
       /\ proc = [p \in Proc |-> Idle]
       /\ tab = [t \in Tab |-> Closed]
       /\ last = [a \in Artifact |-> IF done THEN 1 ELSE 0] /\ gestures = 0
       /\ closed = [a \in Artifact |-> IF done THEN {made[a]} ELSE {}]
       /\ crossed = {}

(***************************************************************************)
(* Two processes on one artifact                                           *)
(***************************************************************************)
\* What q has read something about and is still to write back.
Held(q) ==
  CASE proc[q].at = "save" -> Artifact
    [] proc[q].at \in {"raw", "relabel"} -> {"graph"}
    [] proc[q].at \in {"write", "reopen", "reseal", "built", "retire", "tagging", "patching"} ->
         {proc[q].art}
    [] OTHER -> {}

Busy(p, a) == \E q \in Proc \ {p} : a \in Held(q)

\* p changes a's file or its approval.
Touch(p, a) == crossed' = IF Busy(p, a) THEN crossed \cup {a} ELSE crossed

Goes(p, at) == proc' = [proc EXCEPT ![p].at = at]

(***************************************************************************)
(* A transition of the approvals: read the whole file, write it back whole *)
(***************************************************************************)
Approval(a) == [hash |-> Current(a), up |-> [u \in Upstream(a) |-> Current(u)]]

Load(p, a, entry, next) ==
  proc' = [proc EXCEPT ![p].at = "save", ![p].art = a, ![p].next = next,
                       ![p].copy = [review EXCEPT ![a] = entry]]

Reopen(p) ==
  /\ proc[p].at = "reopen"
  /\ Load(p, proc[p].art, None, proc[p].next)
  /\ UNCHANGED <<files, tab, last, gestures, closed, crossed>>

\* A person's approval and the one that ends a collection are news; the other two
\* give back what was there.
Given(p, a, e) ==
  IF e # None /\ (p \in Tab \/ (p = "collect" /\ a = "bank"))
  THEN [closed EXCEPT ![a] = @ \cup {e.hash}] ELSE closed

SaveReview(p) ==
  LET a == proc[p].art IN
  /\ proc[p].at = "save"
  /\ review' = proc[p].copy
  /\ closed' = Given(p, a, proc[p].copy[a])
  /\ Touch(p, a)
  /\ proc' = [proc EXCEPT ![p] = [Idle EXCEPT !.at = proc[p].next, !.todo = proc[p].todo]]
  /\ UNCHANGED <<docs, curated, draft, built, record, tab, last, gestures>>

(***************************************************************************)
(* A tab's requests, one after another; a refused one drops the rest       *)
(***************************************************************************)
Ask(op, a) == [op |-> op, art |-> a, text |-> None, base |-> None]
Asked(t, op) == /\ proc[t].at = "idle" /\ proc[t].todo # <<>>
                /\ Head(proc[t].todo).op = op
Served(t, r) == [r EXCEPT !.todo = Tail(@)]

Dirty(t) == /\ tab[t].text # None /\ tab[t].known # None
            /\ tab[t].text # tab[t].known

\* Saving types writes the text the editor held at the gesture over whatever the
\* file holds by then.
SaveTypes(t) ==
  LET c == Head(proc[t].todo).text IN
  /\ Asked(t, "save")
  /\ curated' = [curated EXCEPT !["types"] = c]
  /\ closed' = [closed EXCEPT !["types"] = @ \ {c}]
  /\ crossed' = IF Busy(t, "types") \/ Current("types") \notin {Head(proc[t].todo).base, c}
                THEN crossed \cup {"types"} ELSE crossed
  /\ proc' = [proc EXCEPT ![t] = Served(t, [@ EXCEPT !.at = "reopen", !.art = "types", !.next = "idle"])]
  /\ UNCHANGED <<docs, draft, built, review, record, tab, last, gestures>>

ApproveRequest(t) ==
  LET a == Head(proc[t].todo).art IN
  /\ Asked(t, "approve") /\ Built(a)
  /\ proc' = [proc EXCEPT ![t] = Served(t, [@ EXCEPT !.at = "save", !.art = a, !.next = "idle",
                                                     !.copy = [review EXCEPT ![a] = Approval(a)]])]
  /\ UNCHANGED <<files, tab, last, gestures, closed, crossed>>

\* A correction of the graph or of an exercise: read, then write.  A bank closed
\* behind closed types and syllabus, and stale for nothing, is sealed again.
ReadEdit(t) ==
  LET a == Head(proc[t].todo).art IN
  /\ Asked(t, "edit")
  /\ a = "bank" => ~(proc["collect"].art = "bank" /\ proc["collect"].at = "put")
  /\ proc' = [proc EXCEPT ![t] = Served(t, [@ EXCEPT !.at = "write", !.art = a, !.src = Current(a),
                !.flag = (a = "bank" /\ State(a) = "approved" /\ GateOpen(a))])]
  /\ UNCHANGED <<files, tab, last, gestures, closed, crossed>>

\* c as the new content n; a syllabus that is written says its concepts anew.
Edited(c, a, n) == IF a = "graph" THEN [c EXCEPT !.id = n, !.concepts = n] ELSE [c EXCEPT !.id = n]

WriteEdit(t) ==
  LET a == proc[t].art
      c == Edited(proc[t].src, a, last[a] + 1)
  IN /\ t \in Tab /\ proc[t].at = "write"
     /\ curated' = [curated EXCEPT ![a] = c]
     /\ last' = [last EXCEPT ![a] = @ + 1]
     /\ Touch(t, a)
     /\ proc' = [proc EXCEPT ![t].at = IF proc[t].flag THEN "reseal" ELSE "reopen",
                             ![t].next = "idle", ![t].src = None, ![t].flag = FALSE]
     /\ UNCHANGED <<docs, draft, built, review, record, tab, gestures, closed>>

Reseal(p) ==
  /\ proc[p].at = "reseal"
  /\ Load(p, proc[p].art, Approval(proc[p].art), IF p = "collect" THEN "record" ELSE "idle")
  /\ UNCHANGED <<files, tab, last, gestures, closed, crossed>>

\* «Recoger el banco»: the gates of the review and of every link it chains.
Admitted == State("types") = "approved" /\ GateOpen("bank")

Submit(t) ==
  /\ Asked(t, "submit") /\ Admitted
  /\ proc["collect"].at = "idle"
  /\ proc' = [proc EXCEPT ![t] = Served(t, @), !["collect"] = [Idle EXCEPT !.at = "review"]]
  /\ UNCHANGED <<files, tab, last, gestures, closed, crossed>>

Refused(t) ==
  /\ \/ Asked(t, "approve") /\ ~Built(Head(proc[t].todo).art)
     \/ Asked(t, "submit") /\ (~Admitted \/ proc["collect"].at # "idle")
     \/ Asked(t, "edit") /\ Head(proc[t].todo).art = "bank"
        /\ proc["collect"].art = "bank" /\ proc["collect"].at = "put"
  /\ proc' = [proc EXCEPT ![t].todo = <<>>]
  /\ UNCHANGED <<files, tab, last, gestures, closed, crossed>>

\* Going on to the next door: the step's screen, and what its editor held, are gone.
Leave(t) ==
  /\ Asked(t, "leave")
  /\ proc' = [proc EXCEPT ![t] = Served(t, [@ EXCEPT !.at = "left"])]
  /\ tab' = [tab EXCEPT ![t] = [Closed EXCEPT !.known = tab[t].known]]
  /\ UNCHANGED <<files, last, gestures, closed, crossed>>

(***************************************************************************)
(* The types' editor of a tab: it opens on what the tab has read of the    *)
(* types, and keeps that text whatever the tab reads afterwards            *)
(***************************************************************************)
Opened(r) == IF r.at = "here" /\ r.text = None /\ r.known # None
             THEN [r EXCEPT !.text = r.known, !.base = r.known] ELSE r

\* Slip: the editor of a stage being built is hidden and keeps its text.
SeePipelineKeeping(t) ==
  LET here == Status("types") \notin {"missing", "building"}
      r == tab[t]
  IN /\ tab' = [tab EXCEPT ![t] = IF here THEN Opened([r EXCEPT !.at = "here"])
                                          ELSE [r EXCEPT !.at = "gone"]]
     /\ tab' # tab
     /\ UNCHANGED <<files, proc, last, gestures, closed, crossed>>

\* The screen of a stage being built, or not built, draws no editor.
SeePipeline(t) ==
  LET here == Status("types") \notin {"missing", "building"}
      r == tab[t]
  IN /\ tab' = [tab EXCEPT ![t] = IF here THEN Opened([r EXCEPT !.at = "here"])
                                          ELSE [Closed EXCEPT !.known = r.known]]
     /\ tab' # tab
     /\ UNCHANGED <<files, proc, last, gestures, closed, crossed>>

SeeTypes(t) ==
  /\ Built("types") /\ tab[t].known # Current("types")
  /\ tab' = [tab EXCEPT ![t] = LET r == [@ EXCEPT !.known = Current("types")]
                               IN IF r.text = r.known THEN [r EXCEPT !.base = r.known, !.typed = FALSE]
                                                      ELSE Opened(r)]
  /\ UNCHANGED <<files, proc, last, gestures, closed, crossed>>

(***************************************************************************)
(* The moves the screens offer                                             *)
(***************************************************************************)
GraphReady == Status("graph") = "approved"
Ready(a) == Status(a) \notin {"missing", "building"}
DriftShown(a) == Ready(a) /\ Drift(a)
Collecting == proc["collect"].at # "idle"
Collected == Status("bank") # "missing" /\ ~Collecting
Recollect(t) == Collected /\ \/ Status("types") # "approved" \/ Dirty(t)
                             \/ Status("bank") = "stale"

CanBuild(a) == a # "bank" /\ (Status(a) = "missing" \/ DriftShown(a))
\* Slip: the bank is collected with types already closed, and nothing else closes them.
CanCollectClosed(t) == /\ GraphReady /\ Status("types") = "approved"
                       /\ ~Collecting
                       /\ Collected => Recollect(t)

CanCollect(t) == /\ GraphReady /\ Ready("types") /\ ~DriftShown("types")
                 /\ ~Collecting
                 /\ Collected => Recollect(t)
CanFinish(t) == /\ GraphReady /\ Collected /\ ~DriftShown("types")
                /\ Recollect(t) => ~DriftShown("bank")
CanType(t) == /\ Ready("types") /\ ~DriftShown("types") /\ ~Collecting
              /\ tab[t].text # None

Saving(t) == [Ask("save", "types") EXCEPT !.text = tab[t].text, !.base = tab[t].base]

\* A closed stage with nothing to write asks for nothing; the status is the one
\* on screen when the button is pressed.
Closing(t, a) ==
  LET dirty == a = "types" /\ Dirty(t)
  IN (IF dirty THEN <<Saving(t)>> ELSE <<>>)
     \o (IF dirty \/ Status(a) # "approved" THEN <<Ask("approve", a)>> ELSE <<>>)

Free(t) == proc[t].at \in {"idle", "left"} /\ proc[t].todo = <<>>

Gesture(t, g) == /\ Free(t) /\ g \in Offers
                 /\ gestures < Gestures /\ gestures' = gestures + 1

Asks(t, todo) == /\ todo # <<>>
                 /\ proc' = [proc EXCEPT ![t] = [Idle EXCEPT !.todo = todo]]

Collect(t) == /\ Gesture(t, "collect") /\ CanCollect(t)
              /\ Asks(t, Closing(t, "types") \o <<Ask("submit", "bank")>>)
              /\ UNCHANGED <<files, tab, last, closed, crossed>>

Finish(t) == /\ Gesture(t, "finish") /\ CanFinish(t)
             /\ Asks(t, Closing(t, "types") \o Closing(t, "bank") \o <<Ask("leave", "bank")>>)
             /\ UNCHANGED <<files, tab, last, closed, crossed>>

Continue(t) == /\ Gesture(t, "continue") /\ Ready("graph")
               /\ Asks(t, Closing(t, "graph"))
               /\ UNCHANGED <<files, tab, last, closed, crossed>>

ToBank(t) == /\ Gesture(t, "save") /\ Ready("types") /\ ~DriftShown("types") /\ Dirty(t)
             /\ Asks(t, <<Saving(t)>>)
             /\ UNCHANGED <<files, tab, last, closed, crossed>>

Correct(t, a) == /\ Gesture(t, "edit") /\ a # "types"
                 /\ IF a = "graph" THEN Ready(a) ELSE Collected /\ Ready(a)
                 /\ Asks(t, <<Ask("edit", a)>>)
                 /\ UNCHANGED <<files, tab, last, closed, crossed>>

Type(t) == /\ Gesture(t, "type") /\ CanType(t)
           /\ tab' = [tab EXCEPT ![t].text = [@ EXCEPT !.id = last["types"] + 1], ![t].typed = TRUE]
           /\ last' = [last EXCEPT !["types"] = @ + 1]
           /\ UNCHANGED <<files, proc, closed, crossed>>

Build(t, a) == /\ Gesture(t, "build") /\ CanBuild(a)
               /\ proc' = [proc EXCEPT ![Builder[a]] = [Idle EXCEPT !.at = "docs", !.art = a]]
               /\ UNCHANGED <<files, tab, last, closed, crossed>>

Retag(t) == /\ Gesture(t, "tag") /\ Ready("bank") /\ GateOpen("bank")
            /\ proc' = [proc EXCEPT !["tag"] = [Idle EXCEPT !.at = "begin", !.art = "bank"]]
            /\ UNCHANGED <<files, tab, last, closed, crossed>>

Upload(s) == /\ "upload" \in Offers /\ docs["corpus"] + docs["exemplars"] < 2 + Uploads
             /\ docs' = [docs EXCEPT ![s] = @ + 1]
             /\ UNCHANGED <<curated, draft, built, review, record, proc, tab, last, gestures,
                            closed, crossed>>

(***************************************************************************)
(* A build, in a process of its own: what the slot holds is written down   *)
(* before the process reads it                                             *)
(***************************************************************************)
RecordDocs(j) ==
  /\ proc[j].at = "docs"
  /\ proc' = [proc EXCEPT ![j].at = "read", ![j].seen = docs[Slot(proc[j].art)]]
  /\ UNCHANGED <<files, tab, last, gestures, closed, crossed>>

ReadDocs(j) ==
  LET a == proc[j].art
      c == [id |-> 0, docs |-> docs[Slot(a)], judged |-> 0, concepts |-> 0,
            types |-> IF a = "bank" THEN Current("types").id ELSE 0]
  IN /\ proc[j].at = "read"
     /\ proc' = [proc EXCEPT ![j].at = "put", ![j].src = c]
     /\ UNCHANGED <<files, tab, last, gestures, closed, crossed>>

\* The bank has no draft: its build replaces it in place.
PutBuilt(j) ==
  LET a == proc[j].art
      c == Edited(proc[j].src, a, last[a] + 1)
  IN /\ proc[j].at = "put"
     /\ IF a = "bank" THEN curated' = [curated EXCEPT ![a] = c] /\ UNCHANGED draft
                      ELSE draft' = [draft EXCEPT ![a] = c] /\ UNCHANGED curated
     /\ last' = [last EXCEPT ![a] = @ + 1]
     /\ proc' = [proc EXCEPT ![j].at = "built", ![j].src = None, ![j].flag = TRUE]
     /\ Touch(j, a)
     /\ UNCHANGED <<docs, built, review, record, tab, gestures, closed>>

\* Slip: the documents written down are those there when the build ends.
RecordBuiltLate(j) ==
  LET a == proc[j].art IN
  /\ proc[j].at = "built"
  /\ built' = [built EXCEPT ![a] = docs[Slot(a)]]
  /\ Goes(j, IF a = "bank" THEN "index" ELSE "retire")
  /\ UNCHANGED <<docs, curated, draft, review, record, tab, last, gestures, closed, crossed>>

RecordBuilt(j) ==
  LET a == proc[j].art IN
  /\ proc[j].at = "built"
  /\ built' = [built EXCEPT ![a] = proc[j].seen]
  /\ Goes(j, IF a = "bank" THEN "index" ELSE "retire")
  /\ UNCHANGED <<docs, curated, draft, review, record, tab, last, gestures, closed, crossed>>

\* The curated file goes to the history, so that the new draft is the artifact.
Retire(j) ==
  LET a == proc[j].art IN
  /\ proc[j].at = "retire"
  /\ curated' = [curated EXCEPT ![a] = None]
  /\ proc' = [proc EXCEPT ![j].at = IF curated[a] = None THEN "idle" ELSE "reopen",
                          ![j].next = "idle"]
  /\ Touch(j, a)
  /\ UNCHANGED <<docs, draft, built, review, record, tab, last, gestures, closed>>

(***************************************************************************)
(* The collection of the bank: the review, the extraction, the index       *)
(***************************************************************************)
Skip ==
  /\ proc["collect"].at = "review" /\ UpToDate
  /\ record' = Fingerprint
  /\ Goes("collect", "advance")
  /\ UNCHANGED <<docs, curated, draft, built, review, tab, last, gestures, closed, crossed>>

Judge ==
  /\ proc["collect"].at = "review" /\ ~UpToDate
  /\ proc' = [proc EXCEPT !["collect"].at = "judged", !["collect"].print = Fingerprint]
  /\ UNCHANGED <<files, tab, last, gestures, closed, crossed>>

\* Whether somebody closed this syllabus is read before its file is.
LookSealed ==
  /\ proc["collect"].at = "judged"
  /\ proc' = [proc EXCEPT !["collect"].at = "raw", !["collect"].flag = Sealed("graph")]
  /\ UNCHANGED <<files, tab, last, gestures, closed, crossed>>

ReadGraph ==
  /\ proc["collect"].at = "raw"
  /\ proc' = [proc EXCEPT !["collect"].at = "relabel", !["collect"].src = Current("graph")]
  /\ UNCHANGED <<files, tab, last, gestures, closed, crossed>>

\* What the system makes of a content somebody closed is closed with it.
Inherits(a, c, d) == closed' = IF c \in closed[a] THEN [closed EXCEPT ![a] = @ \cup {d}] ELSE closed

\* Slip: a syllabus still in draft is closed by its own review.
AfterRelabelClosing(flag) == "reseal"

AfterRelabel(flag) == IF flag THEN "reseal" ELSE "record"

Relabel ==
  LET p == proc["collect"]
      c == [p.src EXCEPT !.id = last["graph"] + 1, !.types = p.print.types, !.judged = p.print.concepts]
  IN /\ p.at = "relabel"
     /\ curated' = [curated EXCEPT !["graph"] = c]
     /\ last' = [last EXCEPT !["graph"] = @ + 1]
     /\ Inherits("graph", p.src, c)
     /\ Touch("collect", "graph")
     /\ proc' = [proc EXCEPT !["collect"] = [Idle EXCEPT !.at = "reopen", !.art = "graph",
                                                         !.next = AfterRelabel(p.flag)]]
     /\ UNCHANGED <<docs, draft, built, review, record, tab, gestures>>

RecordReview ==
  /\ proc["collect"].at = "record"
  /\ record' = Fingerprint
  /\ Goes("collect", "advance")
  /\ UNCHANGED <<docs, curated, draft, built, review, tab, last, gestures, closed, crossed>>

\* A link whose condition does not hold is skipped and the next one tried.
Advance ==
  /\ proc["collect"].at = "advance"
  /\ proc' = [proc EXCEPT !["collect"] = [Idle EXCEPT !.art = "bank",
                !.at = IF GateOpen("bank") THEN "docs"
                       ELSE IF Built("types") /\ Built("bank") THEN "index" ELSE "idle"]]
  /\ UNCHANGED <<files, tab, last, gestures, closed, crossed>>

Index ==
  /\ proc["collect"].at = "index"
  /\ Goes("collect", "close")
  /\ UNCHANGED <<files, tab, last, gestures, closed, crossed>>

Close ==
  /\ proc["collect"].at = "close"
  /\ IF GateOpen("bank") THEN Load("collect", "bank", Approval("bank"), "idle")
                         ELSE Goes("collect", "idle")
  /\ UNCHANGED <<files, tab, last, gestures, closed, crossed>>

(***************************************************************************)
(* Tagging the bank again                                                  *)
(***************************************************************************)
\* Slip: a tagging sends a closed bank back to its teacher.
AfterTagOpen(flag) == "idle"

AfterTag(flag) == IF flag THEN "reseal" ELSE "idle"

BeginTag ==
  /\ proc["tag"].at = "begin"
  /\ proc' = [proc EXCEPT !["tag"].at = "tagging", !["tag"].flag = Sealed("bank"),
                          !["tag"].src = Current("bank"), !["tag"].seen = 0]
  /\ UNCHANGED <<files, tab, last, gestures, closed, crossed>>

\* The whole bank is written after every exercise, and its approval is of the old one.
SaveTags ==
  LET p == proc["tag"]
      c == [p.src EXCEPT !.id = last["bank"] + 1]
  IN /\ p.at \in {"tagging", "patching"} /\ p.seen < Saves
     /\ curated' = [curated EXCEPT !["bank"] = c]
     /\ last' = [last EXCEPT !["bank"] = @ + 1]
     /\ Inherits("bank", p.src, c)
     /\ Touch("tag", "bank")
     /\ proc' = [proc EXCEPT !["tag"].at = "patching", !["tag"].src = c, !["tag"].seen = @ + 1]
     /\ UNCHANGED <<docs, draft, built, review, record, tab, gestures>>

\* A tagging that found nothing to tag writes nothing; another writes its bank once more.
EndTags ==
  LET p == proc["tag"] IN
  /\ \/ p.at = "tagging" /\ UNCHANGED <<curated, crossed>>
     \/ p.at = "patching" /\ curated' = [curated EXCEPT !["bank"] = p.src] /\ Touch("tag", "bank")
  /\ proc' = [proc EXCEPT !["tag"] = [Idle EXCEPT !.at = AfterTag(p.flag), !.art = "bank"]]
  /\ UNCHANGED <<docs, draft, built, review, record, tab, last, gestures, closed>>

\* A job that fails or is cancelled cuts its chain and leaves the artifact as it is: for a
\* tagging, as its last save left it, with nobody to give the approval back.
Fail(j) ==
  /\ proc[j].at \in {"docs", "read", "put", "review", "judged", "index", "begin", "tagging",
                     "patching"}
  /\ closed' = IF proc[j].at = "patching" THEN [closed EXCEPT !["bank"] = @ \ {proc[j].src}]
               ELSE closed
  /\ proc' = [proc EXCEPT ![j] = Idle]
  /\ UNCHANGED <<files, tab, last, gestures, crossed>>

(***************************************************************************)
(* The system                                                              *)
(***************************************************************************)
Request(t) == \/ SaveTypes(t) \/ ApproveRequest(t) \/ ReadEdit(t) \/ WriteEdit(t)
              \/ Submit(t) \/ Refused(t) \/ Leave(t)
Screen(t) == \/ SeePipeline(t) \/ SeeTypes(t)
             \/ Collect(t) \/ Finish(t) \/ Continue(t) \/ ToBank(t)
             \/ Type(t) \/ Retag(t)
             \/ \E a \in Artifact : Correct(t, a) \/ Build(t, a)
Works(j) == RecordDocs(j) \/ ReadDocs(j) \/ PutBuilt(j) \/ RecordBuilt(j) \/ Retire(j) \/ Fail(j)
Collection == \/ Skip \/ Judge \/ LookSealed \/ ReadGraph \/ Relabel \/ RecordReview
              \/ Advance \/ Index \/ Close

Next == \/ \E t \in Tab : Request(t) \/ Screen(t)
        \/ \E p \in Proc : Reopen(p) \/ SaveReview(p) \/ Reseal(p)
        \/ \E j \in Job : Works(j)
        \/ Collection
        \/ BeginTag \/ SaveTags \/ EndTags
        \/ \E s \in {"corpus", "exemplars"} : Upload(s)

Spec == Init /\ [][Next]_vars

\* Every variable holds what its declaration says.
TypeOK ==
  /\ docs \in [{"corpus", "exemplars"} -> Nat]
  /\ curated \in [Artifact -> Content \cup {None}]
  /\ draft \in [Artifact -> Content \cup {None}]
  /\ built \in [Artifact -> Nat \cup {None}]
  /\ review \in Review /\ record \in Stamp \cup {None}
  /\ \A a \in Artifact : review[a] # None => DOMAIN review[a].up = Upstream(a)
  /\ proc \in [Proc -> Process] /\ tab \in [Tab -> Editor]
  /\ \A p \in {q \in Proc : proc[q].at # "idle"} :
       /\ proc[p].at = "save" <=> proc[p].copy # None
       /\ proc[p].at \in {"write", "relabel", "tagging", "patching"} => proc[p].src # None
       /\ proc[p].at \in {"tagging", "patching"} => proc[p].seen \in 0..Saves
  /\ \A j \in Job : proc[j].todo = <<>>
  /\ \A t \in Tab : /\ tab[t].text # None => tab[t].at = "here" /\ tab[t].base # None
                    /\ tab[t].typed => tab[t].text # None
  /\ last \in [Artifact -> Nat] /\ gestures \in 0..Gestures
  /\ closed \in [Artifact -> SUBSET Content] /\ crossed \in SUBSET Artifact

\* An artifact that does not read stale for its documents was made from the ones its slot
\* holds (record_built, raw_drift), whatever arrived while it was being built.
DriftIsTold ==
  \A a \in Artifact \ crossed :
    Built(a) /\ ~Building(a) /\ ~Drift(a) => Current(a).docs = docs[Slot(a)]

\* A process is in the middle of a transition of a, or a tagging in the middle of the bank.
Midway(a) ==
  \E p \in Proc : proc[p].art = a /\ proc[p].at \in {"save", "reopen", "reseal", "patching"}

\* A stage a person closed stays closed through everything the system does to it by itself,
\* the relabelling of the syllabus, a tagging that ends, an exercise corrected, once no
\* process is in the middle of it.  The bank of a tagging cut short after its first save is
\* the exception: it is not among `closed` (tag_bank saves after each, handle_tag seals again
\* at its end only).
ClosedStaysClosed ==
  \A a \in Artifact \ crossed : Current(a) \in closed[a] => Sealed(a) \/ Midway(a)

\* No stage reads closed on a content nobody closed: a draft the system rewrites stays a draft.
NothingSealsItself ==
  \A a \in Artifact \ crossed : Sealed(a) => Current(a) \in closed[a] \/ Midway(a)

\* With nothing under way and the subject not finished, some move the screens offer is one
\* the server takes and that brings the subject on.
Quiet == \A p \in Proc : proc[p].at \in {"idle", "left"} /\ proc[p].todo = <<>>

BringsOn(t) ==
  \/ \E a \in Artifact : CanBuild(a)
  \/ Ready("graph") /\ ~Drift("graph") /\ ~Sealed("graph")
  \/ CanCollect(t) /\ State("graph") = "approved" /\ ~Drift("types")
  \/ CanFinish(t) /\ ~Drift("bank") /\ <<State("types"), State("bank")>> # <<"approved", "approved">>

NextMoveIsOpen == Quiet /\ ~Unlocked => \A t \in Tab : BringsOn(t)
===============================================================================
