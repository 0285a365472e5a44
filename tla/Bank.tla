-------------------------------- MODULE Bank --------------------------------
(***************************************************************************)
(* The bank of exercises of one subject and everything that writes it: a   *)
(* re-extraction (server/pipeline/jobs.py, server/jobs/build_process.py,   *)
(* its worker process and variatio/builders/exemplars_bank_builder.py),    *)
(* the edits of teachers and the merge of tags (server/bank/edit.py), and  *)
(* the job that tags the whole bank (variatio/entrypoints/tag.py).         *)
(*                                                                         *)
(* A bank is the set of its exercises.  Those a build extracts are pairs   *)
(* <<build, document>>; the others were added by people.  Their texts and  *)
(* tags are left out: a tagging is a bank read and later written back.     *)
(***************************************************************************)
EXTENDS Integers, FiniteSets

CONSTANTS
    Teacher,    \* threads that edit: requests, and jobs that merge tags
    Added,      \* exercises people may add
    Docs,       \* documents of the slot
    MaxBuilds,  \* bound: re-extractions
    MaxTags,    \* bound: taggings of the whole bank
    MaxStops,   \* bound: requests to stop a build
    MaxTypes,   \* bound: corrections of the types of exercise
    MaxCrashes, \* bound: ends of the server in the middle of anything
    None        \* no file

Extracted == (0..MaxBuilds) \X (1..Docs)

ASSUME BankAssumption == /\ Docs \in Nat \ {0}
                         /\ {MaxBuilds, MaxTags, MaxStops, MaxTypes, MaxCrashes} \subseteq Nat
                         /\ Added \cap Extracted = {}
                         /\ \A s \in SUBSET (Added \cup Extracted) : None # s
                         /\ None \notin Added \cup Extracted
                         /\ Teacher \cap {"seed", "tagger"} = {}

Exercise == Added \cup Extracted

VARIABLES
    bank,     \* exemplars_bank.json: its exercises, or None
    building, \* the file a build is writing, or None
    aside,    \* the exercises put aside
    unfit,    \* added exercises that do not meet the types as they are now
    parent,   \* where the build's job is: idle, seeded, waiting, filing
    kept,     \* exercises the seed keeps
    apart,    \* exercises the seed will put aside
    cancel,   \* the job's cancel event
    attached, \* the job's control holds the process
    worker,   \* where the build's process is
    told,     \* the process has been told to stop
    code,     \* the exit code of the process
    made,     \* the bank the process is making
    doc,      \* the document it is at
    edit,     \* edit[t]: what teacher t is saving
    tagging,  \* the bank a tagging has read, or None
    used,     \* exercises that have been sent in
    builds, tags, stops, corrections, crashes,
    acked,    \* history: exercises whose addition was answered
    removed,  \* history: exercises whose deletion was answered
    since,    \* history: exercises added since a teacher, the tagging or the seed read
    excused,  \* history: exercises lost in one of the ways the code is known to lose them
    promoted, \* history: builds that replaced the bank
    outcome   \* history: how the last build ended

files == <<bank, building, aside, unfit>>
job == <<parent, kept, apart, cancel, attached>>
process == <<worker, told, code, made, doc>>
bounds == <<builds, tags, stops, corrections, crashes>>
history == <<acked, removed, since, excused, promoted, outcome>>
vars == <<files, job, process, edit, tagging, used, bounds, history>>

(* Whoever writes back what it read. *)
Seed == "seed"
Tagger == "tagger"
Reader == Teacher \cup {Seed, Tagger}

Idle == [at |-> "idle", verb |-> "none", about |-> None, base |-> {}, half |-> FALSE,
         open |-> FALSE]

Edits == [at : {"idle", "read", "checked"}, verb : {"none", "add", "delete", "touch"},
          about : {None} \cup Exercise, base : SUBSET Exercise, half : BOOLEAN, open : BOOLEAN]

TypeOK == /\ bank \in {None} \cup SUBSET Exercise
          /\ building \in {None} \cup SUBSET Exercise
          /\ {aside, unfit, kept, apart, used, acked, excused} \subseteq SUBSET Added
          /\ parent \in {"idle", "seeded", "waiting", "filing"}
          /\ worker \in {"none", "starting", "between", "within", "promoted", "ended"}
          /\ {cancel, attached, told} \subseteq BOOLEAN
          /\ code \in {0, 1, 2, 9}
          /\ made \in SUBSET Exercise
          /\ doc \in 1..Docs + 1
          /\ edit \in [Teacher -> Edits]
          /\ tagging \in {None} \cup SUBSET Exercise
          /\ builds \in 0..MaxBuilds
          /\ tags \in 0..MaxTags
          /\ stops \in 0..MaxStops
          /\ corrections \in 0..MaxTypes
          /\ crashes \in 0..MaxCrashes
          /\ removed \in SUBSET Exercise
          /\ since \in [Reader -> SUBSET Added]
          /\ promoted \in SUBSET (0..MaxBuilds)
          /\ outcome \in {"none", "succeeded", "failed", "cancelled"}

(* A subject without a bank, or with one a first extraction made. *)
Init == /\ bank \in {None, {<<0, 1>>}}
        /\ building = None
        /\ aside = {} /\ unfit = {} /\ kept = {} /\ apart = {} /\ used = {}
        /\ parent = "idle" /\ worker = "none"
        /\ cancel = FALSE /\ attached = FALSE /\ told = FALSE
        /\ code = 0 /\ made = {} /\ doc = 1
        /\ edit = [t \in Teacher |-> Idle]
        /\ tagging = None
        /\ builds = 0 /\ tags = 0 /\ stops = 0 /\ corrections = 0 /\ crashes = 0
        /\ acked = {} /\ removed = {} /\ excused = {}
        /\ since = [r \in Reader |-> {}]
        /\ promoted = {0}
        /\ outcome = "none"

-----------------------------------------------------------------------------
(* The files *)

InBank == IF bank = None THEN {} ELSE bank

(* Write new over the bank, known to lose excuses. *)
Overwrite(new, excuses) == /\ bank' = new
                           /\ excused' = excused \cup (excuses \ new)

(* What the listing and every edit read: the bank being made, if any. *)
Loaded == IF building # None THEN building ELSE bank

-----------------------------------------------------------------------------
(* A re-extraction: the job of the queue *)

Alive == worker \notin {"none", "ended"}

(* seed: what a person added is kept, or put aside if it no longer fits.   *)
Split == kept' = (InBank \cap Added) \ unfit /\ apart' = InBank \cap Added \cap unfit

Begin == /\ parent = "idle"
         /\ builds < MaxBuilds
         /\ builds' = builds + 1
         /\ parent' = "seeded"
         /\ Split
         /\ cancel' = FALSE
         /\ since' = [since EXCEPT ![Seed] = {}]
         /\ UNCHANGED <<files, attached, process, edit, tagging, used, tags, stops, corrections,
                        crashes, acked, removed, excused, promoted, outcome>>

(* run_build: Popen. *)
Spawn == /\ parent = "seeded"
         /\ parent' = "waiting"
         /\ worker' = "starting"
         /\ UNCHANGED <<files, kept, apart, cancel, attached, told, code, made, doc, edit, tagging,
                        used, bounds, history>>

(* Slip of attach_process: a cancel that came before is not looked at. *)
AttachDeaf == /\ parent = "waiting" /\ ~attached
              /\ attached' = TRUE
              /\ UNCHANGED <<files, parent, kept, apart, cancel, process, edit, tagging, used,
                             bounds, history>>

(* attach_process, which tells the process if the cancel came before it. *)
Attach == /\ parent = "waiting" /\ ~attached
          /\ attached' = TRUE
          /\ told' = (cancel /\ Alive)
          /\ UNCHANGED <<files, parent, kept, apart, cancel, worker, code, made, doc, edit, tagging,
                         used, bounds, history>>

(* request_cancel, once or again. *)
Stop == /\ parent # "idle"
        /\ stops < MaxStops
        /\ stops' = stops + 1
        /\ cancel' = TRUE
        /\ told' = (told \/ (attached /\ Alive))
        /\ UNCHANGED <<files, parent, kept, apart, attached, worker, code, made, doc, edit, tagging,
                       used, builds, tags, corrections, crashes, history>>

(* _escalate: a process told to stop is killed, wherever it is. *)
Kill == /\ told /\ Alive
        /\ worker' = "ended"
        /\ code' = 9
        /\ UNCHANGED <<files, job, told, made, doc, edit, tagging, used, bounds, history>>

(* The job is over, and its process's state with it. *)
Closes(how) == /\ parent' = "idle"
               /\ outcome' = how
               /\ kept' = {} /\ apart' = {} /\ cancel' = FALSE /\ attached' = FALSE
               /\ worker' = "none" /\ told' = FALSE /\ code' = 0 /\ made' = {} /\ doc' = 1
               /\ since' = [since EXCEPT ![Seed] = {}]

Returned == parent = "waiting" /\ attached /\ worker = "ended"

Refused == cancel \/ code # 0

(* Slip of the handler: the working file is left where it is. *)
RaiseLeaving == /\ Returned /\ Refused
                /\ Closes(IF cancel \/ code = 2 THEN "cancelled" ELSE "failed")
                /\ excused' = excused \cup (IF builds \in promoted THEN apart ELSE {})
                /\ UNCHANGED <<files, edit, tagging, used, bounds, acked, removed, promoted>>

(* run_build raises: the handler removes the working file and goes no      *)
(* further, whatever the process had already put in place.                 *)
Raise == /\ Returned /\ Refused
         /\ building' = None
         /\ Closes(IF cancel \/ code = 2 THEN "cancelled" ELSE "failed")
         /\ excused' = excused \cup (IF builds \in promoted THEN apart ELSE {})
         /\ UNCHANGED <<bank, aside, unfit, edit, tagging, used, bounds, acked, removed, promoted>>

Return == /\ Returned /\ ~Refused
          /\ parent' = "filing"
          /\ UNCHANGED <<files, kept, apart, cancel, attached, process, edit, tagging, used, bounds,
                         history>>

(* put_aside, and the job settles. *)
File == /\ parent = "filing"
        /\ aside' = aside \cup apart
        /\ Closes(IF cancel THEN "cancelled" ELSE "succeeded")
        /\ UNCHANGED <<bank, building, unfit, edit, tagging, used, bounds, acked, removed, excused,
                       promoted>>

-----------------------------------------------------------------------------
(* A re-extraction: the process *)

(* build: whatever a build that died left behind goes. *)
Clear == /\ worker = "starting"
         /\ worker' = "between"
         /\ building' = None
         /\ made' = kept
         /\ UNCHANGED <<bank, aside, unfit, job, told, code, doc, edit, tagging, used, bounds,
                        history>>

(* Slip of build: one document too many. *)
CheckpointLate == /\ worker = "between" /\ doc <= Docs + 1 /\ ~told
                  /\ worker' = "within"
                  /\ UNCHANGED <<files, job, told, code, made, doc, edit, tagging, used, bounds,
                                 history>>

(* The checkpoint before a document. *)
Checkpoint == /\ worker = "between" /\ doc <= Docs /\ ~told
              /\ worker' = "within"
              /\ UNCHANGED <<files, job, told, code, made, doc, edit, tagging, used, bounds,
                             history>>

NextDoc == worker' = "between" /\ doc' = doc + 1

(* Slip of build: every document goes to the bank itself. *)
ExtractInPlace == /\ worker = "within"
                  /\ NextDoc
                  /\ made' = made \cup {<<builds, doc>>}
                  /\ bank' = made'
                  /\ promoted' = promoted \cup {builds}
                  /\ UNCHANGED <<building, aside, unfit, job, told, code, edit, tagging, used,
                                 bounds, acked, removed, since, excused, outcome>>

(* A document's exercises go to the working file. *)
Extract == /\ worker = "within"
           /\ NextDoc
           /\ made' = made \cup {<<builds, doc>>}
           /\ building' = made'
           /\ UNCHANGED <<bank, aside, unfit, job, told, code, edit, tagging, used, bounds,
                          history>>

(* A document that fails, or gives nothing, is skipped. *)
Skip == /\ worker = "within"
        /\ NextDoc
        /\ UNCHANGED <<files, job, told, code, made, edit, tagging, used, bounds, history>>

Ends(c) == worker' = "ended" /\ code' = c

(* Cancelled is raised at a checkpoint. *)
Quit == /\ told /\ worker \in {"between", "within"} /\ doc <= Docs
        /\ Ends(2)
        /\ building' = None
        /\ UNCHANGED <<bank, aside, unfit, job, told, made, doc, edit, tagging, used, bounds,
                       history>>

(* The engine is away, or a write fails. *)
Fail == /\ worker \in {"starting", "between", "within"}
        /\ Ends(1)
        /\ building' = IF worker = "starting" THEN building ELSE None
        /\ UNCHANGED <<bank, aside, unfit, job, told, made, doc, edit, tagging, used, bounds,
                       history>>

(* The new bank is whole and replaces the old one, unless it is empty.     *)
Promote == /\ worker = "between" /\ doc > Docs
           /\ worker' = "promoted"
           /\ IF made = {} THEN UNCHANGED <<bank, excused, promoted>>
              ELSE /\ Overwrite(made, since[Seed])
                   /\ promoted' = promoted \cup {builds}
           /\ UNCHANGED <<building, aside, unfit, job, told, code, made, doc, edit, tagging, used,
                          bounds, acked, removed, since, outcome>>

(* The working file goes and the process ends, by what it made and was told. *)
Leave == /\ worker = "promoted"
         /\ building' = None
         /\ Ends(IF made = {} THEN 1 ELSE IF told THEN 2 ELSE 0)
         /\ UNCHANGED <<bank, aside, unfit, job, told, made, doc, edit, tagging, used, bounds,
                        history>>

-----------------------------------------------------------------------------
(* Edits: read, check that no build is writing, write *)

Begins(t, verb, x) ==
    /\ edit[t].at = "idle" /\ Loaded # None
    /\ edit' = [edit EXCEPT ![t] = [at |-> "read", verb |-> verb, about |-> x, base |-> Loaded,
                                    half |-> building # None, open |-> FALSE]]
    /\ since' = [since EXCEPT ![t] = {}]
    /\ UNCHANGED <<files, job, process, tagging, bounds, acked, removed, excused, promoted, outcome>>

(* add_item; patch_item, set_concepts and apply_tags; delete_item. *)
Add(t) == \E x \in Added \ used : Begins(t, "add", x) /\ used' = used \cup {x}
Touch(t) == Begins(t, "touch", None) /\ UNCHANGED used
Delete(t) == Loaded # None /\ \E x \in Loaded : Begins(t, "delete", x) /\ UNCHANGED used

EditEnds(t) == edit' = [edit EXCEPT ![t] = Idle] /\ since' = [since EXCEPT ![t] = {}]

(* _persist refuses while a build is writing. *)
Refuse(t) == /\ edit[t].at = "read" /\ building # None
             /\ EditEnds(t)
             /\ UNCHANGED <<files, job, process, tagging, used, bounds, acked, removed, excused,
                            promoted, outcome>>

Passes(t) == /\ edit' = [edit EXCEPT ![t].at = "checked", ![t].open = (building = None)]
             /\ UNCHANGED <<files, job, process, tagging, used, bounds, history>>

(* Slip of _persist: it does not look. *)
CheckNothing(t) == edit[t].at = "read" /\ Passes(t)

Check(t) == edit[t].at = "read" /\ building = None /\ Passes(t)

Result(e) == CASE e.verb = "add" -> e.base \cup {e.about}
               [] e.verb = "delete" -> e.base \ {e.about}
               [] OTHER -> e.base

(* What this write is known to lose: what came in after it read, and       *)
(* anything if it read half a build.                                       *)
Loses(t) == since[t] \cup (IF edit[t].half THEN InBank \cap Added ELSE {})

Write(t) ==
    LET e == edit[t]
        news == IF e.verb = "add" THEN {e.about} ELSE {}
    IN /\ e.at = "checked"
       /\ Overwrite(Result(e), Loses(t) \ {e.about})
       /\ acked' = acked \cup news
       /\ removed' = IF e.verb = "delete" THEN removed \cup {e.about} ELSE removed
       /\ edit' = [edit EXCEPT ![t] = Idle]
       /\ since' = [r \in Reader |-> IF r = t \/ (r = Seed /\ ~e.open) THEN since[r] \ {e.about}
                                     ELSE since[r] \cup news]
       /\ UNCHANGED <<building, aside, unfit, job, process, tagging, used, bounds, promoted,
                      outcome>>

-----------------------------------------------------------------------------
(* Tagging the whole bank: what the job's context holds is written back *)

TagRead == /\ tagging = None /\ bank # None
           /\ tags < MaxTags
           /\ tags' = tags + 1
           /\ tagging' = bank
           /\ since' = [since EXCEPT ![Tagger] = {}]
           /\ UNCHANGED <<files, job, process, edit, used, builds, stops, corrections, crashes,
                          acked, removed, excused, promoted, outcome>>

(* A checkpoint, or the end, of tag_bank. *)
TagSave == /\ tagging # None
           /\ Overwrite(tagging, since[Tagger])
           /\ UNCHANGED <<building, aside, unfit, job, process, edit, tagging, used, bounds, acked,
                          removed, since, promoted, outcome>>

TagEnd == /\ tagging # None
          /\ tagging' = None
          /\ since' = [since EXCEPT ![Tagger] = {}]
          /\ UNCHANGED <<files, job, process, edit, used, bounds, acked, removed, excused, promoted,
                         outcome>>

-----------------------------------------------------------------------------
(* Around them *)

(* The types are corrected: some exercises of the bank no longer fit. *)
CorrectTypes == /\ corrections < MaxTypes
                /\ corrections' = corrections + 1
                /\ unfit' \in SUBSET (InBank \cap Added)
                /\ UNCHANGED <<bank, building, aside, job, process, edit, tagging, used, builds,
                               tags, stops, crashes, history>>

(* The machine goes down with the server and the process of the build.     *)
Crash == /\ crashes < MaxCrashes
         /\ crashes' = crashes + 1
         /\ parent' = "idle" /\ outcome' = "none"
         /\ kept' = {} /\ apart' = {} /\ cancel' = FALSE /\ attached' = FALSE
         /\ worker' = "none" /\ told' = FALSE /\ code' = 0 /\ made' = {} /\ doc' = 1
         /\ edit' = [t \in Teacher |-> Idle]
         /\ tagging' = None
         /\ since' = [r \in Reader |-> {}]
         /\ excused' = excused \cup (IF builds \in promoted THEN apart ELSE {})
         /\ UNCHANGED <<files, used, builds, tags, stops, corrections, acked, removed, promoted>>

Handler == Spawn \/ Attach \/ Raise \/ Return \/ File

Worker == Clear \/ Checkpoint \/ Extract \/ Skip \/ Quit \/ Fail \/ Promote \/ Leave

Next == \/ Begin \/ Stop \/ Kill \/ Handler \/ Worker
        \/ \E t \in Teacher : \/ Add(t) \/ Touch(t) \/ Delete(t)
                              \/ Refuse(t) \/ Check(t) \/ Write(t)
        \/ TagRead \/ TagSave \/ TagEnd
        \/ CorrectTypes \/ Crash

Spec == Init /\ [][Next]_vars

(* The job's thread and the one that kills keep running; the process may   *)
(* hang in a call of a model.                                              *)
FairSpec == Spec /\ WF_vars(Handler) /\ WF_vars(Kill)

-----------------------------------------------------------------------------
(* Properties *)

(* An exercise somebody added, and nobody deleted, that is nowhere was     *)
(* lost in one of the known ways: it came in after somebody else read the  *)
(* bank who wrote it later, or between the seed of a build and its first   *)
(* document, or an edit wrote half a build, or it no longer fitted and the *)
(* build was stopped after it replaced the bank.                           *)
LossExplained == acked \ removed \subseteq InBank \cup aside \cup apart \cup excused

(* "That file exists for exactly as long as the build does", _load_bank,   *)
(* unless the machine goes down: nothing then removes it before the next   *)
(* build.                                                                  *)
BuildingEndsWithBuild == building # None /\ parent = "idle" => crashes > 0

(* A build that fails has left the bank alone.                             *)
FailureKeepsBank == outcome = "failed" /\ parent = "idle" => builds \notin promoted

(* Nothing is put aside by a build that has not replaced the bank: "once   *)
(* the new bank is in place, never before" (_build).                       *)
AsideComesAfter == [][aside' # aside => builds \in promoted]_vars

(* A build told to stop ends, though its process hangs.                    *)
StopIsHeard == cancel ~> parent = "idle"
=============================================================================
