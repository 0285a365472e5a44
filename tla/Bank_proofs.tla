----------------------------- MODULE Bank_proofs ----------------------------
(***************************************************************************)
(* Proofs about the re-extraction of Bank, for any teachers, exercises,    *)
(* documents and bounds: a build that fails has left the bank alone,       *)
(* nothing is put aside before the bank is replaced, the working file      *)
(* outlives its build only where the machine went down, and what people    *)
(* added is lost in the known ways only.                                   *)
(***************************************************************************)
EXTENDS Bank, TLAPS

USE BankAssumption

(* What the steps of a build need of the types. *)
Types == /\ parent \in {"idle", "seeded", "waiting", "filing"}
         /\ worker \in {"none", "starting", "between", "within", "promoted", "ended"}
         /\ code \in {0, 1, 2, 9}
         /\ builds \in Nat /\ crashes \in Nat
         /\ promoted \in SUBSET Nat

Flags == cancel \in BOOLEAN /\ attached \in BOOLEAN /\ told \in BOOLEAN

(* The thread of the job and its process are in step. *)
Stages == /\ parent \in {"idle", "seeded"} => worker = "none" /\ ~attached
          /\ parent = "waiting" => worker # "none"
          /\ parent = "filing" => worker = "ended" /\ code = 0

(* A process is told to stop through its job, and ends as it was told. *)
Stopping == /\ told => cancel /\ attached
            /\ worker = "ended" /\ code \in {2, 9} => told

(* A build replaces the bank at one step, and its exit code tells.         *)
Promotion == /\ \A n \in promoted : n <= builds
             /\ parent = "seeded" \/ worker \in {"starting", "between", "within"}
                    => builds \notin promoted
             /\ worker = "promoted" => (builds \in promoted <=> made # {})
             /\ worker = "ended" /\ code = 1 => builds \notin promoted
             /\ worker = "ended" /\ code = 0 => builds \in promoted

(* The working file, while the machine stays up. *)
Working == /\ building # None => parent = "waiting"
           /\ worker = "ended" /\ code = 0 => building = None

IInv == /\ Types /\ Flags /\ Stages /\ Stopping /\ Promotion /\ FailureKeepsBank
        /\ crashes = 0 => Working

LEMMA InitInvariant == Init => IInv
<1> SUFFICES ASSUME Init PROVE IInv
  OBVIOUS
<1>1. Types /\ Stages
  BY DEF Init, Types, Stages
<1>2. Flags
  BY Zenon DEF Init, Flags
<1>3. Stopping /\ Promotion /\ FailureKeepsBank /\ Working
  BY DEF Init, Stopping, Promotion, FailureKeepsBank, Working
<1> QED BY <1>1, <1>2, <1>3 DEF IInv, Init

-----------------------------------------------------------------------------
(* The thread of the job *)

LEMMA BeginInvariant == ASSUME IInv, Begin PROVE IInv'
<1>1. Types'
  BY DEF Begin, files, process, IInv, Types
<1>2. Flags'
  BY DEF Begin, files, process, IInv, Flags
<1>3. Stages'
  BY DEF Begin, files, process, IInv, Types, Stages
<1>4. Stopping'
  BY DEF Begin, files, process, IInv, Types, Stages, Stopping
<1>5. Promotion'
  BY DEF Begin, files, process, IInv, Types, Stages, Promotion
<1>6. FailureKeepsBank'
  BY DEF Begin, files, process, IInv, Types, Flags, Stages, Stopping, Promotion, FailureKeepsBank
<1>7. crashes' = 0 => Working'
  BY DEF Begin, files, process, IInv, Types, Stages, Working
<1> QED BY <1>1, <1>2, <1>3, <1>4, <1>5, <1>6, <1>7 DEF IInv

LEMMA SpawnInvariant == ASSUME IInv, Spawn PROVE IInv'
BY DEF Spawn, files, bounds, history, IInv, Types, Flags, Stages, Stopping, Promotion, FailureKeepsBank,
   Working

LEMMA AttachInvariant == ASSUME IInv, Attach PROVE IInv'
<1>1. Types'
  BY DEF Attach, Alive, files, bounds, history, IInv, Types
<1>2. Flags'
  BY DEF Attach, Alive, files, bounds, history, IInv, Flags
<1>3. Stages'
  BY DEF Attach, Alive, files, bounds, history, IInv, Types, Stages
<1>4. Stopping'
  BY DEF Attach, Alive, files, bounds, history, IInv, Types, Stages, Stopping
<1>5. Promotion'
  BY DEF Attach, Alive, files, bounds, history, IInv, Types, Stages, Promotion
<1>6. FailureKeepsBank'
  BY DEF Attach, Alive, files, bounds, history, IInv, Types, Stages, Stopping, Promotion, FailureKeepsBank
<1>7. crashes' = 0 => Working'
  BY DEF Attach, Alive, files, bounds, history, IInv, Types, Stages, Working
<1> QED BY <1>1, <1>2, <1>3, <1>4, <1>5, <1>6, <1>7 DEF IInv

LEMMA StopInvariant == ASSUME IInv, Stop PROVE IInv'
BY DEF Stop, Alive, files, history, IInv, Types, Flags, Stages, Stopping, Promotion, FailureKeepsBank,
   Working

LEMMA RaiseInvariant == ASSUME IInv, Raise PROVE IInv'
<1>1. Types'
  BY DEF Raise, Returned, Refused, Closes, bounds, IInv, Types
<1>2. Flags'
  BY DEF Raise, Returned, Refused, Closes, bounds, IInv, Flags
<1>3. Stages'
  BY DEF Raise, Returned, Refused, Closes, bounds, IInv, Types, Stages
<1>4. Stopping'
  BY DEF Raise, Returned, Refused, Closes, bounds, IInv, Types, Stages, Stopping
<1>5. Promotion'
  BY DEF Raise, Returned, Refused, Closes, bounds, IInv, Types, Stages, Promotion
<1>6. FailureKeepsBank'
  BY DEF Raise, Returned, Refused, Closes, bounds, IInv, Types, Stages, Stopping, Promotion, FailureKeepsBank
<1>7. crashes' = 0 => Working'
  BY DEF Raise, Returned, Refused, Closes, bounds, IInv, Types, Stages, Working
<1> QED BY <1>1, <1>2, <1>3, <1>4, <1>5, <1>6, <1>7 DEF IInv

LEMMA ReturnInvariant == ASSUME IInv, Return PROVE IInv'
<1>1. Types'
  BY DEF Return, Returned, Refused, files, process, bounds, history, IInv, Types
<1>2. Flags'
  BY DEF Return, Returned, Refused, files, process, bounds, history, IInv, Flags
<1>3. Stages'
  BY DEF Return, Returned, Refused, files, process, bounds, history, IInv, Types, Stages
<1>4. Stopping'
  BY DEF Return, Returned, Refused, files, process, bounds, history, IInv, Types, Stages, Stopping
<1>5. Promotion'
  BY DEF Return, Returned, Refused, files, process, bounds, history, IInv, Types, Stages, Promotion
<1>6. FailureKeepsBank'
  BY DEF Return, Returned, Refused, files, process, bounds, history, IInv, Types, Stages, Stopping, Promotion, FailureKeepsBank
<1>7. crashes' = 0 => Working'
  BY DEF Return, Returned, Refused, files, process, bounds, history, IInv, Types, Stages, Working
<1> QED BY <1>1, <1>2, <1>3, <1>4, <1>5, <1>6, <1>7 DEF IInv

LEMMA FileInvariant == ASSUME IInv, File PROVE IInv'
BY DEF File, Closes, bounds, IInv, Types, Flags, Stages, Stopping, Promotion, FailureKeepsBank, Working

-----------------------------------------------------------------------------
(* The process *)

LEMMA ReadingInvariant == ASSUME IInv, Clear \/ Checkpoint \/ Extract \/ Skip PROVE IInv'
<1>1. Types'
  BY DEF Clear, Checkpoint, Extract, Skip, NextDoc, files, job, bounds, history, IInv, Types
<1>2. Flags'
  BY DEF Clear, Checkpoint, Extract, Skip, NextDoc, files, job, bounds, history, IInv, Flags
<1>3. Stages'
  BY DEF Clear, Checkpoint, Extract, Skip, NextDoc, files, job, bounds, history, IInv, Types, Stages
<1>4. Stopping'
  BY DEF Clear, Checkpoint, Extract, Skip, NextDoc, files, job, bounds, history, IInv, Types, Stages, Stopping
<1>5. Promotion'
  BY DEF Clear, Checkpoint, Extract, Skip, NextDoc, files, job, bounds, history, IInv, Types, Stages, Promotion
<1>6. FailureKeepsBank'
  BY DEF Clear, Checkpoint, Extract, Skip, NextDoc, files, job, bounds, history, IInv, Types, Flags, Stages, Stopping, Promotion, FailureKeepsBank
<1>7. crashes' = 0 => Working'
  BY DEF Clear, Checkpoint, Extract, Skip, NextDoc, files, job, bounds, history, IInv, Types, Stages, Working
<1> QED BY <1>1, <1>2, <1>3, <1>4, <1>5, <1>6, <1>7 DEF IInv

LEMMA EndingInvariant == ASSUME IInv, Quit \/ Fail \/ Leave \/ Kill PROVE IInv'
<1>1. Types'
  BY DEF Quit, Fail, Leave, Kill, Ends, Alive, files, job, bounds, history, IInv, Types
<1>2. Flags'
  BY DEF Quit, Fail, Leave, Kill, Ends, Alive, files, job, bounds, history, IInv, Flags
<1>3. Stages'
  BY DEF Quit, Fail, Leave, Kill, Ends, Alive, files, job, bounds, history, IInv, Types, Stages
<1>4. Stopping'
  BY DEF Quit, Fail, Leave, Kill, Ends, Alive, files, job, bounds, history, IInv, Types, Stages, Stopping
<1>5. Promotion'
  <2>1. CASE Leave
    <3>1. code' = 1 <=> made = {}
      BY <2>1 DEF Leave, Ends
    <3>2. worker = "promoted" /\ worker' = "ended" /\ code' \in {0, 1, 2}
      BY <2>1 DEF Leave, Ends
    <3>3. UNCHANGED <<parent, builds, promoted, made>>
      BY <2>1 DEF Leave, job, bounds, history
    <3> QED BY <3>1, <3>2, <3>3 DEF IInv, Stages, Promotion
  <2>2. CASE Quit
    BY <2>2 DEF Quit, Ends, job, bounds, history, IInv, Types, Stages, Promotion
  <2>3. CASE Fail
    BY <2>3 DEF Fail, Ends, job, bounds, history, IInv, Types, Stages, Promotion
  <2>4. CASE Kill
    BY <2>4 DEF Kill, Alive, job, bounds, history, IInv, Types, Stages, Promotion
  <2> QED BY <2>1, <2>2, <2>3, <2>4
<1>6. FailureKeepsBank'
  BY DEF Quit, Fail, Leave, Kill, Ends, Alive, files, job, bounds, history, IInv, Types, Flags, Stages, Stopping, Promotion, FailureKeepsBank
<1>7. crashes' = 0 => Working'
  BY DEF Quit, Fail, Leave, Kill, Ends, Alive, files, job, bounds, history, IInv, Types, Stages, Working
<1> QED BY <1>1, <1>2, <1>3, <1>4, <1>5, <1>6, <1>7 DEF IInv

LEMMA PromoteInvariant == ASSUME IInv, Promote PROVE IInv'
<1>1. Types'
  BY DEF Promote, Overwrite, job, bounds, IInv, Types
<1>2. Flags'
  BY DEF Promote, Overwrite, job, bounds, IInv, Flags
<1>3. Stages'
  BY DEF Promote, Overwrite, job, bounds, IInv, Types, Stages
<1>4. Stopping'
  BY DEF Promote, Overwrite, job, bounds, IInv, Types, Stages, Stopping
<1>5. Promotion'
  <2>1. worker = "between" /\ worker' = "promoted" /\ UNCHANGED <<parent, builds, made>>
    BY DEF Promote, job, bounds
  <2>2. promoted' = IF made = {} THEN promoted ELSE promoted \cup {builds}
    BY DEF Promote
  <2> QED BY <2>1, <2>2 DEF IInv, Types, Stages, Promotion
<1>6. FailureKeepsBank'
  BY DEF Promote, Overwrite, job, bounds, IInv, Types, Flags, Stages, Stopping, Promotion, FailureKeepsBank
<1>7. crashes' = 0 => Working'
  BY DEF Promote, Overwrite, job, bounds, IInv, Types, Stages, Working
<1> QED BY <1>1, <1>2, <1>3, <1>4, <1>5, <1>6, <1>7 DEF IInv

-----------------------------------------------------------------------------
(* Edits and taggings write the bank alone *)

buildVars == <<building, job, process, builds, crashes, promoted, outcome>>

LEMMA OthersInvariant == ASSUME IInv, UNCHANGED buildVars PROVE IInv'
BY DEF buildVars, job, process, IInv, Types, Flags, Stages, Stopping, Promotion, FailureKeepsBank, Working

LEMMA EditsAreOthers ==
  ASSUME NEW t \in Teacher,
         Add(t) \/ Touch(t) \/ Delete(t) \/ Refuse(t) \/ Check(t) \/ Write(t)
  PROVE  UNCHANGED buildVars
BY DEF Add, Touch, Delete, Begins, Refuse, EditEnds, Check, Passes, Write, buildVars, files, job,
   process, bounds, history

LEMMA TaggingsAreOthers ==
  ASSUME TagRead \/ TagSave \/ TagEnd \/ CorrectTypes
  PROVE  UNCHANGED buildVars
BY DEF TagRead, TagSave, TagEnd, CorrectTypes, buildVars, files, job, process, bounds, history

LEMMA CrashInvariant == ASSUME IInv, Crash PROVE IInv'
<1>1. Types'
  BY DEF Crash, files, IInv, Types
<1>2. Flags'
  BY DEF Crash, files, IInv, Flags
<1>3. Stages'
  BY DEF Crash, files, IInv, Types, Stages
<1>4. Stopping'
  BY DEF Crash, files, IInv, Types, Stages, Stopping
<1>5. Promotion'
  BY DEF Crash, files, IInv, Types, Stages, Promotion
<1>6. FailureKeepsBank'
  BY DEF Crash, files, IInv, Types, Flags, Stages, Stopping, Promotion, FailureKeepsBank
<1>7. crashes' = 0 => Working'
  BY DEF Crash, files, IInv, Types, Stages, Working
<1> QED BY <1>1, <1>2, <1>3, <1>4, <1>5, <1>6, <1>7 DEF IInv

-----------------------------------------------------------------------------
LEMMA StepInvariant == IInv /\ [Next]_vars => IInv'
<1> SUFFICES ASSUME IInv, [Next]_vars PROVE IInv'
  OBVIOUS
<1>1. CASE Begin \/ Stop \/ Kill \/ Handler
  BY <1>1, BeginInvariant, StopInvariant, EndingInvariant, SpawnInvariant, AttachInvariant,
     RaiseInvariant, ReturnInvariant, FileInvariant DEF Handler
<1>2. CASE Worker
  BY <1>2, ReadingInvariant, EndingInvariant, PromoteInvariant DEF Worker
<1>3. ASSUME NEW t \in Teacher,
             Add(t) \/ Touch(t) \/ Delete(t) \/ Refuse(t) \/ Check(t) \/ Write(t)
      PROVE  IInv'
  BY <1>3, EditsAreOthers, OthersInvariant
<1>4. CASE TagRead \/ TagSave \/ TagEnd \/ CorrectTypes
  BY <1>4, TaggingsAreOthers, OthersInvariant
<1>5. CASE Crash
  BY <1>5, CrashInvariant
<1>6. CASE UNCHANGED vars
  <2>1. UNCHANGED buildVars
    BY <1>6 DEF vars, buildVars, files, bounds, history
  <2> QED BY <2>1, OthersInvariant
<1> QED BY <1>1, <1>2, <1>3, <1>4, <1>5, <1>6 DEF Next

THEOREM BuildInvariant == Spec => []IInv
<1>1. Init => IInv
  BY InitInvariant
<1>2. IInv /\ [Next]_vars => IInv'
  BY StepInvariant
<1> QED BY <1>1, <1>2, PTL DEF Spec

(* A build that fails has left the bank alone, whatever was stopped or     *)
(* killed and whoever edits.                                               *)
THEOREM FailureIsHarmless == Spec => []FailureKeepsBank
<1>1. IInv => FailureKeepsBank
  BY DEF IInv
<1> QED BY <1>1, BuildInvariant, PTL

(* Nothing is put aside by a build that has not replaced the bank. *)
THEOREM PutAsideAfterwards == Spec => AsideComesAfter
<1>1. IInv /\ [Next]_vars => [aside' # aside => builds \in promoted]_vars
  <2> SUFFICES ASSUME IInv, Next, aside' # aside
               PROVE  builds \in promoted
    OBVIOUS
  <2>1. File
    BY DEF Next, Handler, Worker, Begin, Stop, Kill, Spawn, Attach, Raise, Return, Clear,
       Checkpoint, Extract, Skip, Quit, Fail, Promote, Leave, Add, Touch, Delete, Begins, Refuse,
       Check, Passes, Write, TagRead, TagSave, TagEnd, CorrectTypes, Crash, files
  <2> QED BY <2>1 DEF File, IInv, Stages, Promotion
<1> QED BY <1>1, BuildInvariant, PTL DEF Spec, AsideComesAfter

(* Only a machine that went down leaves a working file without a build. *)
THEOREM WorkingFileGoes == Spec => []BuildingEndsWithBuild
<1>1. IInv => BuildingEndsWithBuild
  BY DEF IInv, Types, Working, BuildingEndsWithBuild
<1> QED BY <1>1, BuildInvariant, PTL

-----------------------------------------------------------------------------
(* The rest of the types.  A build counts its documents one by one, so     *)
(* what it makes is of this subject as long as it is at one of them.       *)
Contents == /\ bank \in {None} \cup SUBSET Exercise
            /\ building \in {None} \cup SUBSET Exercise
            /\ tagging \in {None} \cup SUBSET Exercise
            /\ made \in SUBSET Exercise
            /\ removed \in SUBSET Exercise
Additions == /\ aside \in SUBSET Added /\ unfit \in SUBSET Added
             /\ kept \in SUBSET Added /\ apart \in SUBSET Added
             /\ used \in SUBSET Added /\ acked \in SUBSET Added /\ excused \in SUBSET Added
Counts == /\ doc \in 1..Docs + 1
          /\ worker = "within" => doc <= Docs
          /\ builds \in 0..MaxBuilds
          /\ tags \in 0..MaxTags
          /\ stops \in 0..MaxStops
          /\ corrections \in 0..MaxTypes
          /\ crashes \in 0..MaxCrashes
          /\ promoted \in SUBSET (0..MaxBuilds)
          /\ outcome \in {"none", "succeeded", "failed", "cancelled"}
People == /\ edit \in [Teacher -> Edits]
          /\ since \in [Reader -> SUBSET Added]
          /\ \A t \in Teacher : /\ edit[t].verb = "add" => edit[t].about \in Added
                                /\ edit[t].verb = "delete" => edit[t].about \in Exercise
TInv == Contents /\ Additions /\ Counts /\ People

LEMMA Bounds ==
  /\ Docs \in Nat \ {0}
  /\ MaxBuilds \in Nat /\ MaxTags \in Nat /\ MaxStops \in Nat
  /\ MaxTypes \in Nat /\ MaxCrashes \in Nat
  BY Zenon, BankAssumption

LEMMA TypesTogether == ASSUME IInv, TInv PROVE TypeOK
<1>1. {cancel, attached, told} \subseteq BOOLEAN
  BY Zenon DEF IInv, Flags
<1>2. {aside, unfit, kept, apart, used, acked, excused} \subseteq SUBSET Added
  BY DEF TInv, Additions
<1> QED BY <1>1, <1>2 DEF IInv, Types, TInv, Contents, Counts, People, TypeOK

LEMMA InitTypes == Init => TInv
<1> SUFFICES ASSUME Init PROVE TInv
  OBVIOUS
<1>1. <<0, 1>> \in Exercise /\ 1 \in 1..Docs + 1
  BY Bounds DEF Exercise, Extracted
<1>2. Contents /\ Additions
  BY <1>1 DEF Init, Contents, Additions
<1>3. Counts
  BY <1>1, Bounds DEF Init, Counts
<1>4. People
  BY DEF Init, People, Idle, Edits
<1> QED BY <1>2, <1>3, <1>4 DEF TInv

LEMMA CountsStep == ASSUME Counts, [Next]_vars PROVE Counts'
<1>1. CASE Begin
  BY <1>1, Bounds DEF Counts, Begin, process
<1>2. CASE Stop
  BY <1>2, Bounds DEF Counts, Stop, history
<1>3. CASE Kill
  BY <1>3, Bounds DEF Counts, Kill, bounds, history
<1>4. CASE Spawn \/ Attach \/ Return
  BY <1>4, Bounds DEF Counts, Spawn, Attach, Return, process, bounds, history
<1>5. CASE Raise \/ File
  <2>1. outcome' \in {"cancelled", "failed", "succeeded"}
    BY <1>5, Zenon DEF Raise, File, Closes
  <2>2. doc' = 1 /\ worker' = "none" /\ UNCHANGED <<bounds, promoted>>
    BY <1>5 DEF Raise, File, Closes
  <2> QED BY <2>1, <2>2, Bounds DEF Counts, bounds
<1>6. CASE Clear \/ Checkpoint
  BY <1>6, Bounds DEF Counts, Clear, Checkpoint, bounds, history
<1>7. CASE Extract \/ Skip
  <2>1. /\ worker = "within" /\ worker' = "between" /\ doc' = doc + 1
        /\ UNCHANGED <<bounds, history>>
    BY <1>7 DEF Extract, Skip, NextDoc
  <2> QED BY <2>1, Bounds DEF Counts, bounds, history
<1>8. CASE Quit \/ Fail \/ Leave
  BY <1>8, Bounds DEF Counts, Quit, Fail, Leave, Ends, bounds, history
<1>9. CASE Promote
  BY <1>9, Bounds DEF Counts, Promote, Overwrite, bounds
<1>10. ASSUME NEW t \in Teacher,
              Add(t) \/ Touch(t) \/ Delete(t) \/ Refuse(t) \/ Check(t) \/ Write(t)
       PROVE  Counts'
  BY <1>10 DEF Counts, Add, Touch, Delete, Begins, Refuse, Check, Passes, Write, process, bounds,
     history
<1>11. CASE TagRead
  BY <1>11, Bounds DEF Counts, TagRead, process
<1>12. CASE TagSave \/ TagEnd
  BY <1>12, Bounds DEF Counts, TagSave, TagEnd, process, bounds
<1>13. CASE CorrectTypes
  BY <1>13, Bounds DEF Counts, CorrectTypes, process, history
<1>14. CASE Crash
  BY <1>14, Bounds DEF Counts, Crash
<1>15. CASE UNCHANGED vars
  BY <1>15 DEF Counts, vars, process, bounds, history
<1> QED BY <1>1, <1>2, <1>3, <1>4, <1>5, <1>6, <1>7, <1>8, <1>9, <1>10, <1>11, <1>12, <1>13,
           <1>14, <1>15 DEF Next, Handler, Worker

LEMMA PeopleStep == ASSUME TInv, [Next]_vars PROVE People'
<1>1. ASSUME NEW t \in Teacher, NEW verb \in {"add", "delete", "touch"},
             NEW x \in {None} \cup Exercise, verb = "add" => x \in Added,
             verb = "delete" => x \in Exercise, Begins(t, verb, x)
      PROVE  People'
  <2>1. Loaded \in SUBSET Exercise
    BY <1>1 DEF Begins, Loaded, TInv, Contents
  <2> DEFINE r == [at |-> "read", verb |-> verb, about |-> x, base |-> Loaded,
                   half |-> building # None, open |-> FALSE]
  <2>2. r \in Edits /\ r.verb = verb /\ r.about = x
    BY <2>1 DEF Edits
  <2>3. edit' = [edit EXCEPT ![t] = r] /\ since' = [since EXCEPT ![t] = {}]
    BY <1>1 DEF Begins
  <2> HIDE DEF r
  <2> QED BY <1>1, <2>2, <2>3 DEF TInv, People
<1>2. ASSUME NEW t \in Teacher, Add(t) PROVE People'
  <2> PICK x \in Added \ used : Begins(t, "add", x)
    BY <1>2 DEF Add
  <2> QED BY <1>1 DEF Exercise
<1>3. ASSUME NEW t \in Teacher, Touch(t) PROVE People'
  BY <1>1, <1>3 DEF Touch
<1>4. ASSUME NEW t \in Teacher, Delete(t) PROVE People'
  <2>1. Loaded \in SUBSET Exercise
    BY <1>4 DEF Delete, Loaded, TInv, Contents
  <2>2. PICK x \in Loaded : Begins(t, "delete", x)
    BY <1>4 DEF Delete
  <2> QED BY <1>1, <2>1, <2>2
<1>5. Idle \in Edits /\ Idle.verb = "none"
  BY DEF Idle, Edits
<1>6. ASSUME NEW t \in Teacher, Refuse(t) PROVE People'
  BY <1>5, <1>6 DEF Refuse, EditEnds, TInv, People
<1>7. ASSUME NEW t \in Teacher, Check(t) PROVE People'
  <2> DEFINE r == [edit[t] EXCEPT !.at = "checked", !.open = (building = None)]
  <2>1. r \in Edits /\ r.verb = edit[t].verb /\ r.about = edit[t].about
    <3>1. edit[t] \in Edits
      BY DEF TInv, People
    <3> QED BY <3>1 DEF Edits
  <2>2. edit' = [edit EXCEPT ![t] = r] /\ UNCHANGED since
    BY <1>7 DEF Check, Passes, history
  <2> HIDE DEF r
  <2> QED BY <2>1, <2>2 DEF TInv, People
<1>8. ASSUME NEW t \in Teacher, Write(t) PROVE People'
  <2>1. edit' = [edit EXCEPT ![t] = Idle]
    BY <1>8 DEF Write
  <2>2. since' \in [Reader -> SUBSET Added]
    BY <1>8 DEF Write, TInv, People
  <2> QED BY <1>5, <2>1, <2>2 DEF TInv, People
<1>9. CASE Begin \/ Stop \/ Kill
  BY <1>9 DEF TInv, People, Begin, Stop, Kill, Reader, history
<1>10. CASE Handler
  BY <1>10 DEF TInv, People, Handler, Spawn, Attach, Raise, Return, File, Closes, history
<1>11. CASE Worker
  BY <1>11 DEF TInv, People, Worker, Clear, Checkpoint, Extract, Skip, Quit, Fail, Promote,
     Leave, history
<1>12. CASE TagRead \/ TagSave \/ TagEnd \/ CorrectTypes
  BY <1>12 DEF TInv, People, TagRead, TagSave, TagEnd, CorrectTypes, history
<1>13. CASE Crash
  BY <1>5, <1>13 DEF Crash, People, files
<1>14. CASE UNCHANGED vars
  BY <1>14 DEF TInv, People, vars, history
<1> QED BY <1>2, <1>3, <1>4, <1>6, <1>7, <1>8, <1>9, <1>10, <1>11, <1>12, <1>13, <1>14 DEF Next

LEMMA ContentsStep == ASSUME TInv, [Next]_vars PROVE Contents'
<1>1. CASE Begin \/ Stop \/ Kill \/ Handler
  BY <1>1 DEF TInv, Contents, Begin, Stop, Kill, Handler, Spawn, Attach, Raise, Return, File,
     Closes, files, process, history
<1>2. CASE Extract
  <2>1. builds \in 0..MaxBuilds /\ doc \in 1..Docs
    BY <1>2 DEF Extract, TInv, Counts
  <2>2. <<builds, doc>> \in Exercise
    BY <2>1 DEF Exercise, Extracted
  <2> QED BY <1>2, <2>2 DEF Extract, TInv, Contents, history
<1>3. CASE Clear \/ Checkpoint \/ Skip \/ Quit \/ Fail \/ Promote \/ Leave
  BY <1>3 DEF TInv, Contents, Additions, Exercise, Clear, Checkpoint, Skip, Quit, Fail, Promote,
     Overwrite, Leave, files, history
<1>4. ASSUME NEW t \in Teacher, Add(t) \/ Touch(t) \/ Delete(t) \/ Refuse(t) \/ Check(t)
      PROVE  Contents'
  BY <1>4 DEF TInv, Contents, Add, Touch, Delete, Begins, Refuse, Check, Passes, files, process,
     history
<1>5. ASSUME NEW t \in Teacher, Write(t) PROVE Contents'
  <2>1. edit[t] \in Edits
    BY DEF TInv, People
  <2>2. edit[t].base \in SUBSET Exercise /\ edit[t].about \in {None} \cup Exercise
    BY <2>1 DEF Edits
  <2>3. edit[t].verb = "add" => edit[t].about \in Exercise
    BY DEF TInv, People, Exercise
  <2>4. Result(edit[t]) \in SUBSET Exercise
    BY <2>2, <2>3 DEF Result
  <2>5. edit[t].verb = "delete" => edit[t].about \in Exercise
    BY DEF TInv, People
  <2> QED BY <1>5, <2>4, <2>5 DEF Write, Overwrite, TInv, Contents, process
<1>6. CASE TagRead \/ TagSave \/ TagEnd \/ CorrectTypes \/ Crash
  BY <1>6 DEF TInv, Contents, TagRead, TagSave, TagEnd, CorrectTypes, Crash, Overwrite, files,
     process, history
<1>7. CASE UNCHANGED vars
  BY <1>7 DEF TInv, Contents, vars, files, process, history
<1> QED BY <1>1, <1>2, <1>3, <1>4, <1>5, <1>6, <1>7 DEF Next, Worker

LEMMA AdditionsStep == ASSUME TInv, [Next]_vars PROVE Additions'
<1>1. CASE Begin \/ Stop \/ Kill \/ Handler
  BY <1>1 DEF TInv, Additions, Begin, Split, Stop, Kill, Handler, Spawn, Attach, Raise, Return,
     File, Closes, files, job, bounds, history
<1>2. CASE Worker
  BY <1>2 DEF TInv, Additions, People, Reader, Worker, Clear, Checkpoint, Extract, Skip, Quit,
     Fail, Promote, Overwrite, Leave, files, job, history
<1>3. ASSUME NEW t \in Teacher, Add(t) \/ Touch(t) \/ Delete(t) \/ Refuse(t) \/ Check(t)
      PROVE  Additions'
  BY <1>3 DEF TInv, Additions, Add, Touch, Delete, Begins, Refuse, Check, Passes, files, job,
     history
<1>4. ASSUME NEW t \in Teacher, Write(t) PROVE Additions'
  <2>1. Loses(t) \in SUBSET Added
    BY DEF Loses, TInv, People, Reader
  <2> QED BY <1>4, <2>1 DEF Write, Overwrite, TInv, Additions, People, job
<1>5. CASE TagRead \/ TagSave \/ TagEnd \/ CorrectTypes \/ Crash
  BY <1>5 DEF TInv, Additions, People, Reader, TagRead, TagSave, TagEnd, CorrectTypes, Crash,
     Overwrite, files, job, history
<1>6. CASE UNCHANGED vars
  BY <1>6 DEF TInv, Additions, vars, files, job, history
<1> QED BY <1>1, <1>2, <1>3, <1>4, <1>5, <1>6 DEF Next

(* Every variable keeps its type (exemplars_bank.json, the build's job and *)
(* process, the edits and the tagging).                                    *)
THEOREM TypeCorrect == Spec => []TypeOK
<1>1. Init => IInv /\ TInv
  BY InitInvariant, InitTypes
<1>2. IInv /\ TInv /\ [Next]_vars => IInv' /\ TInv'
  <2>1. IInv /\ [Next]_vars => IInv'
    BY StepInvariant
  <2>2. TInv /\ [Next]_vars => TInv'
    BY CountsStep, PeopleStep, ContentsStep, AdditionsStep DEF TInv
  <2> QED BY <2>1, <2>2
<1>3. IInv /\ TInv => TypeOK
  BY TypesTogether
<1> QED BY <1>1, <1>2, <1>3, PTL DEF Spec

-----------------------------------------------------------------------------
(* Where an exercise may be that was added and not deleted, for each       *)
(* reader that may yet write back what it read.  LossExplained is not      *)
(* inductive alone: what a write leaves out has to be among what the       *)
(* writer is known to lose, so every reader traces every such exercise to  *)
(* what it read, to what came in since, or out of the bank.                *)
Live == acked \ removed
Out == aside \cup excused \cup (IF builds \in promoted THEN apart ELSE {})

Traced == Live \subseteq InBank \cup Out
EditsTrace == \A t \in Teacher : edit[t].at # "idle" =>
    /\ ~edit[t].half => Live \subseteq edit[t].base \cup since[t] \cup Out
    /\ edit[t].at = "checked" => edit[t].open
    /\ edit[t].verb \in {"add", "delete"} \/ edit[t].about = None
TaggingTraces == tagging # None => Live \subseteq tagging \cup since[Tagger] \cup Out
SeedTraces == parent # "idle" => Live \subseteq kept \cup apart \cup since[Seed] \cup Out
BuildKeeps == /\ worker \in {"between", "within", "promoted"} => kept \subseteq made
              /\ parent = "idle" => kept = {} /\ apart = {}
LInv == Traced /\ EditsTrace /\ TaggingTraces /\ SeedTraces /\ BuildKeeps

(* The two readers that are no teacher. *)
LEMMA Readers == /\ Seed \in Reader /\ Tagger \in Reader /\ Seed # Tagger
                 /\ \A t \in Teacher : t \in Reader /\ t # Seed /\ t # Tagger
<1>1. "seed" \notin Teacher /\ "tagger" \notin Teacher
  BY Zenon, BankAssumption
<1> QED BY <1>1 DEF Seed, Tagger, Reader

(* No set of exercises is the mark of an absent file. *)
LEMMA SetsAreFiles == \A s \in SUBSET Exercise : s # None
  BY Zenon, BankAssumption DEF Exercise

LEMMA InitLoss == Init => LInv
BY DEF Init, LInv, Live, Out, Traced, EditsTrace, TaggingTraces, SeedTraces, BuildKeeps, Idle

(* A process makes at least what the seed keeps, and a job that is over    *)
(* holds nothing.                                                          *)
LEMMA BuildKeepsStep == ASSUME IInv, BuildKeeps, [Next]_vars PROVE BuildKeeps'
<1>1. CASE Begin \/ Stop \/ Kill \/ Handler
  <2>1. CASE Begin \/ Stop \/ Kill
    BY <2>1 DEF BuildKeeps, IInv, Stages, Begin, Stop, Kill, job, process
  <2>2. CASE Spawn \/ Attach \/ Return
    BY <2>2 DEF BuildKeeps, Spawn, Attach, Return, process
  <2>3. CASE Raise \/ File
    BY <2>3 DEF BuildKeeps, Raise, File, Closes
  <2> QED BY <1>1, <2>1, <2>2, <2>3 DEF Handler
<1>2. CASE Worker
  BY <1>2 DEF BuildKeeps, IInv, Stages, Worker, Clear, Checkpoint, Extract, Skip, NextDoc, Quit,
     Fail, Ends, Promote, Leave, job
<1>3. ASSUME NEW t \in Teacher,
             Add(t) \/ Touch(t) \/ Delete(t) \/ Refuse(t) \/ Check(t) \/ Write(t)
      PROVE  BuildKeeps'
  BY <1>3 DEF BuildKeeps, Add, Touch, Delete, Begins, Refuse, Check, Passes, Write, job, process
<1>4. CASE TagRead \/ TagSave \/ TagEnd \/ CorrectTypes
  BY <1>4 DEF BuildKeeps, TagRead, TagSave, TagEnd, CorrectTypes, job, process
<1>5. CASE Crash
  BY <1>5 DEF BuildKeeps, Crash
<1>6. CASE UNCHANGED vars
  BY <1>6 DEF BuildKeeps, vars, job, process
<1> QED BY <1>1, <1>2, <1>3, <1>4, <1>5, <1>6 DEF Next

(* Nothing that was out of the bank comes to be unaccounted for. *)
LEMMA OutGrows == ASSUME IInv, TInv, LInv, [Next]_vars PROVE Out \subseteq Out'
<1>1. CASE Begin
  BY <1>1 DEF Begin, LInv, BuildKeeps, Out, files
<1>2. CASE Raise \/ File
  <2>1. builds' = builds /\ promoted' = promoted
    BY <1>2 DEF Raise, File, bounds
  <2>2. CASE Raise
    BY <2>1, <2>2 DEF Raise, Out
  <2>3. CASE File
    BY <2>1, <2>3 DEF File, Out
  <2> QED BY <1>2, <2>2, <2>3
<1>3. CASE Crash
  BY <1>3 DEF Crash, Out, files
<1>4. CASE Promote
  BY <1>4 DEF Promote, Overwrite, Out, job, bounds
<1>5. ASSUME NEW t \in Teacher, Write(t) PROVE Out \subseteq Out'
  BY <1>5 DEF Write, Overwrite, Out, job, bounds
<1>6. CASE TagSave
  BY <1>6 DEF TagSave, Overwrite, Out, job, bounds
<1>7. CASE UNCHANGED <<aside, excused, builds, promoted, apart>>
  BY <1>7 DEF Out
<1>8. \/ Begin \/ Raise \/ File \/ Crash \/ Promote \/ TagSave
      \/ \E t \in Teacher : Write(t)
      \/ UNCHANGED <<aside, excused, builds, promoted, apart>>
  BY DEF Next, Handler, Worker, Stop, Kill, Spawn, Attach, Return, Clear, Checkpoint, Extract,
     Skip, Quit, Fail, Leave, Add, Touch, Delete, Begins, Refuse, Check, Passes, TagRead, TagEnd,
     CorrectTypes, vars, files, job, bounds, history
<1> QED BY <1>1, <1>2, <1>3, <1>4, <1>5, <1>6, <1>7, <1>8

(* Apart from a teacher's write, which every other reader is told of,      *)
(* nothing becomes live.                                                   *)
LEMMA LiveShrinks ==
  ASSUME [Next]_vars, \A t \in Teacher : ~Write(t) PROVE Live' = Live
BY DEF Live, Next, Handler, Worker, Begin, Stop, Kill, Spawn, Attach, Raise, Return, File, Closes,
   Clear, Checkpoint, Extract, Skip, Quit, Fail, Promote, Overwrite, Leave, Add, Touch, Delete,
   Begins, Refuse, Check, Passes, TagRead, TagSave, TagEnd, CorrectTypes, Crash, vars, history

-----------------------------------------------------------------------------
(* A teacher's write *)
LEMMA WriteTraced ==
  ASSUME IInv, TInv, LInv, NEW t \in Teacher, Write(t)
  PROVE  LInv'
<1> DEFINE e == edit[t]
           news == IF e.verb = "add" THEN {e.about} ELSE {}
<1>1. /\ e.at = "checked" /\ e.open
      /\ bank' = Result(e)
      /\ excused' = excused \cup ((Loses(t) \ {e.about}) \ Result(e))
      /\ acked' = acked \cup news
      /\ removed' = IF e.verb = "delete" THEN removed \cup {e.about} ELSE removed
      /\ edit' = [edit EXCEPT ![t] = Idle]
      /\ UNCHANGED <<aside, parent, kept, apart, worker, made, tagging, builds, promoted>>
  BY DEF Write, Overwrite, LInv, EditsTrace, job, process, bounds
<1>2. since' = [r \in Reader |-> IF r = t THEN since[r] \ {e.about} ELSE since[r] \cup news]
  BY <1>1 DEF Write
<1>3. Live' \subseteq Live \cup news /\ (e.verb = "delete" => e.about \notin Live')
  BY <1>1 DEF Live
<1>4. Out \subseteq Out'
  BY <1>1 DEF Out
<1>5. Result(e) \in SUBSET Exercise
  <2>1. e \in Edits
    BY DEF TInv, People
  <2>2. e.base \in SUBSET Exercise
    BY <2>1 DEF Edits
  <2> QED BY <2>2 DEF Result, TInv, People, Exercise
<1>6. Traced'
  <2> SUFFICES ASSUME NEW x \in Live' PROVE x \in Result(e) \cup Out'
    BY <1>1, <1>5, SetsAreFiles DEF Traced, InBank
  <2>1. CASE x \in news
    BY <2>1 DEF Result
  <2>2. CASE x \notin news
    <3>1. x \in Live
      BY <1>3, <2>2
    <3>2. x # e.about
      <4>1. e.verb \in {"add", "delete"} \/ e.about = None
        BY <1>1 DEF LInv, EditsTrace
      <4>2. x # None
        <5>1. x \in Added
          BY <3>1 DEF Live, TInv, Additions
        <5>2. None \notin Added
          BY Zenon, BankAssumption
        <5> QED BY <5>1, <5>2
      <4> QED BY <1>3, <2>2, <4>1, <4>2
    <3>3. CASE e.half
      <4>1. x \in InBank \cup Out
        BY <3>1 DEF LInv, Traced
      <4>2. x \in Added
        BY <3>1 DEF Live, TInv, Additions
      <4>3. x \in InBank => x \in Loses(t)
        BY <3>3, <4>2 DEF Loses
      <4>4. x \in Loses(t) => x \in Result(e) \/ x \in Out'
        BY <1>1, <3>2 DEF Out
      <4> QED BY <1>4, <4>1, <4>3, <4>4
    <3>4. CASE ~e.half
      <4>1. x \in e.base \cup since[t] \cup Out
        BY <1>1, <3>1, <3>4 DEF LInv, EditsTrace
      <4>2. x \in e.base => x \in Result(e)
        BY <3>2 DEF Result
      <4>3. x \in since[t] => x \in Loses(t)
        BY DEF Loses
      <4>4. x \in Loses(t) => x \in Result(e) \/ x \in Out'
        BY <1>1, <3>2 DEF Out
      <4> QED BY <1>4, <4>1, <4>2, <4>3, <4>4
    <3> QED BY <3>3, <3>4
  <2> QED BY <2>1, <2>2
<1>7. ASSUME NEW r \in Reader, r # t PROVE since'[r] = since[r] \cup news
  BY <1>2, <1>7
<1> HIDE DEF news
<1>8. EditsTrace'
  <2> SUFFICES ASSUME NEW s \in Teacher, edit'[s].at # "idle"
               PROVE  /\ ~edit'[s].half => Live' \subseteq edit'[s].base \cup since'[s] \cup Out'
                      /\ edit'[s].at = "checked" => edit'[s].open
                      /\ edit'[s].verb \in {"add", "delete"} \/ edit'[s].about = None
    BY DEF EditsTrace
  <2>1. s # t /\ edit'[s] = edit[s]
    BY <1>1 DEF TInv, People, Idle
  <2>2. since'[s] = since[s] \cup news
    BY <1>7, <2>1, Readers
  <2> QED BY <1>3, <1>4, <2>1, <2>2 DEF LInv, EditsTrace
<1>9. TaggingTraces'
  <2>1. since'[Tagger] = since[Tagger] \cup news
    BY <1>7, Readers
  <2> QED BY <1>1, <1>3, <1>4, <2>1 DEF LInv, TaggingTraces
<1>10. SeedTraces'
  <2>1. since'[Seed] = since[Seed] \cup news
    BY <1>7, Readers
  <2> QED BY <1>1, <1>3, <1>4, <2>1 DEF LInv, SeedTraces
<1>11. BuildKeeps'
  BY <1>1 DEF LInv, BuildKeeps
<1> QED BY <1>6, <1>8, <1>9, <1>10, <1>11 DEF LInv

(* Any other step of a teacher changes its own edit alone. *)
LEMMA EditTraced ==
  ASSUME IInv, TInv, LInv, NEW t \in Teacher,
         Add(t) \/ Touch(t) \/ Delete(t) \/ Refuse(t) \/ Check(t)
  PROVE  EditsTrace'
<1>1. UNCHANGED <<bank, building, aside, apart, excused, acked, removed, builds, promoted>>
  BY DEF Add, Touch, Delete, Begins, Refuse, Check, Passes, files, job, bounds, history
<1>2. Live' = Live /\ Out' = Out
  BY <1>1 DEF Live, Out
<1> SUFFICES ASSUME NEW s \in Teacher, edit'[s].at # "idle"
             PROVE  /\ ~edit'[s].half => Live \subseteq edit'[s].base \cup since'[s] \cup Out
                    /\ edit'[s].at = "checked" => edit'[s].open
                    /\ edit'[s].verb \in {"add", "delete"} \/ edit'[s].about = None
  BY <1>2 DEF EditsTrace
<1>3. CASE s # t
  <2>1. edit'[s] = edit[s] /\ since'[s] = since[s]
    BY <1>3, Readers DEF Add, Touch, Delete, Begins, Refuse, EditEnds, Check, Passes, history,
       TInv, People
  <2> QED BY <2>1 DEF LInv, EditsTrace
<1>4. ASSUME NEW verb \in {"add", "delete", "touch"}, NEW x, Begins(t, verb, x), s = t,
             verb = "touch" => x = None
      PROVE  /\ ~edit'[s].half => Live \subseteq edit'[s].base \cup since'[s] \cup Out
             /\ edit'[s].at = "checked" => edit'[s].open
             /\ edit'[s].verb \in {"add", "delete"} \/ edit'[s].about = None
  <2> DEFINE h == building # None
  <2>1. edit'[t] = [at |-> "read", verb |-> verb, about |-> x, base |-> Loaded, half |-> h,
                    open |-> FALSE]
    BY <1>4, Zenon DEF Begins, TInv, People
  <2> HIDE DEF h
  <2>2. /\ edit'[t].at = "read" /\ edit'[t].verb = verb /\ edit'[t].about = x
        /\ edit'[t].base = Loaded /\ edit'[t].half = h
    BY <2>1
  <2>3. ~h => Live \subseteq Loaded \cup Out
    BY <1>4 DEF h, Begins, Loaded, LInv, Traced, InBank
  <2> QED BY <1>4, <2>2, <2>3
<1>5. CASE s = t /\ (Add(t) \/ Touch(t) \/ Delete(t))
  BY <1>4, <1>5 DEF Add, Touch, Delete
<1>6. CASE s = t /\ Refuse(t)
  BY <1>6 DEF Refuse, EditEnds, Idle, TInv, People
<1>7. CASE s = t /\ Check(t)
  <2>1. edit[t] \in Edits /\ edit[t].at = "read" /\ building = None
    BY <1>7 DEF Check, TInv, People
  <2> DEFINE o == building = None
  <2>2. edit'[t] = [edit[t] EXCEPT !.at = "checked", !.open = o] /\ since' = since
    BY <1>7, Zenon DEF Check, Passes, history, TInv, People
  <2>3. o = TRUE
    BY <2>1
  <2> HIDE DEF o
  <2>4. /\ edit'[t].at = "checked" /\ edit'[t].open = o /\ edit'[t].half = edit[t].half
        /\ edit'[t].base = edit[t].base /\ edit'[t].verb = edit[t].verb
        /\ edit'[t].about = edit[t].about
    BY <2>1, <2>2 DEF Edits
  <2> QED BY <1>7, <2>1, <2>2, <2>3, <2>4 DEF LInv, EditsTrace
<1> QED BY <1>3, <1>5, <1>6, <1>7

-----------------------------------------------------------------------------
(* Every step keeps every trace *)
LEMMA TracedStep == ASSUME IInv, TInv, LInv, [Next]_vars PROVE Traced'
<1>1. Out \subseteq Out'
  BY OutGrows
<1>2. ASSUME NEW t \in Teacher, Write(t) PROVE Traced'
  BY <1>2, WriteTraced DEF LInv
<1>3. CASE \A t \in Teacher : ~Write(t)
  <2>1. Live' = Live
    BY <1>3, LiveShrinks
  <2>2. CASE UNCHANGED bank
    BY <1>1, <2>1, <2>2 DEF LInv, Traced, InBank
  <2>3. CASE TagSave
    <3>1. /\ bank' = tagging /\ excused' = excused \cup (since[Tagger] \ tagging)
          /\ tagging # None /\ UNCHANGED <<aside, builds, promoted, apart>>
      BY <2>3 DEF TagSave, Overwrite, job, bounds
    <3>2. Live \subseteq tagging \cup since[Tagger] \cup Out
      BY <3>1 DEF LInv, TaggingTraces
    <3> QED BY <1>1, <2>1, <3>1, <3>2 DEF Traced, InBank, Out
  <2>4. CASE Promote /\ made # {}
    <3>1. /\ bank' = made /\ excused' = excused \cup (since[Seed] \ made)
          /\ UNCHANGED <<aside, builds, apart>> /\ builds \in promoted'
          /\ worker = "between"
      BY <2>4 DEF Promote, Overwrite, job, bounds
    <3>2. Live \subseteq kept \cup apart \cup since[Seed] \cup Out /\ kept \subseteq made
      BY <3>1 DEF LInv, SeedTraces, BuildKeeps, IInv, Stages, Types
    <3>3. made # None
      BY SetsAreFiles DEF TInv, Contents
    <3> QED BY <1>1, <2>1, <3>1, <3>2, <3>3 DEF Traced, InBank, Out
  <2>5. UNCHANGED bank \/ TagSave \/ (Promote /\ made # {})
    BY <1>3 DEF Next, Handler, Worker, Begin, Stop, Kill, Spawn, Attach, Raise, Return, File, Clear,
       Checkpoint, Extract, Skip, Quit, Fail, Promote, Leave, Add, Touch, Delete, Begins, Refuse,
       Check, Passes, TagRead, TagEnd, CorrectTypes, Crash, vars, files
  <2> QED BY <2>2, <2>3, <2>4, <2>5
<1> QED BY <1>2, <1>3

(* What a step that reads nothing does to what the others have read.       *)
LEMMA EditsTraceStep == ASSUME IInv, TInv, LInv, [Next]_vars PROVE EditsTrace'
<1>1. Out \subseteq Out'
  BY OutGrows
<1>2. ASSUME NEW t \in Teacher, Write(t) PROVE EditsTrace'
  BY <1>2, WriteTraced DEF LInv
<1>3. ASSUME NEW t \in Teacher, Add(t) \/ Touch(t) \/ Delete(t) \/ Refuse(t) \/ Check(t)
      PROVE  EditsTrace'
  BY <1>3, EditTraced
<1>4. CASE Crash
  BY <1>4 DEF Crash, EditsTrace, Idle
<1>5. CASE /\ \A t \in Teacher : ~Write(t)
           /\ edit' = edit
           /\ \A t \in Teacher : since'[t] = since[t]
  <2>1. Live' = Live
    BY <1>5, LiveShrinks
  <2> QED BY <1>1, <1>5, <2>1 DEF LInv, EditsTrace
<1>6. CASE ~Crash /\ \A t \in Teacher : ~(\/ Add(t) \/ Touch(t) \/ Delete(t) \/ Refuse(t)
                                          \/ Check(t) \/ Write(t))
  <2>1. edit' = edit
    BY <1>6 DEF Next, Handler, Worker, Begin, Stop, Kill, Spawn, Attach, Raise, Return, File, Clear,
       Checkpoint, Extract, Skip, Quit, Fail, Promote, Leave, TagRead, TagSave, TagEnd,
       CorrectTypes, vars
  <2>2. \/ UNCHANGED since
        \/ since' = [since EXCEPT ![Seed] = {}]
        \/ since' = [since EXCEPT ![Tagger] = {}]
    BY <1>6 DEF Next, Handler, Worker, Begin, Stop, Kill, Spawn, Attach, Raise, Return, File,
       Closes, Clear, Checkpoint, Extract, Skip, Quit, Fail, Promote, Leave, TagRead, TagSave,
       TagEnd, CorrectTypes, vars, history
  <2>3. \A t \in Teacher : since'[t] = since[t]
    BY <2>2, Readers DEF TInv, People
  <2> QED BY <1>5, <1>6, <2>1, <2>3
<1> QED BY <1>2, <1>3, <1>4, <1>6

LEMMA TaggingStep == ASSUME IInv, TInv, LInv, [Next]_vars PROVE TaggingTraces'
<1>1. Out \subseteq Out'
  BY OutGrows
<1>2. ASSUME NEW t \in Teacher, Write(t) PROVE TaggingTraces'
  BY <1>2, WriteTraced DEF LInv
<1>3. CASE \A t \in Teacher : ~Write(t)
  <2>1. Live' = Live
    BY <1>3, LiveShrinks
  <2>2. CASE TagRead
    <3>1. tagging' = bank /\ bank # None
      BY <2>2 DEF TagRead
    <3>2. Live \subseteq bank \cup Out
      BY <3>1 DEF LInv, Traced, InBank
    <3> QED BY <1>1, <2>1, <3>1, <3>2 DEF TaggingTraces
  <2>3. CASE TagEnd \/ Crash
    BY <2>3 DEF TagEnd, Crash, TaggingTraces
  <2>4. CASE tagging' = tagging /\ since'[Tagger] = since[Tagger]
    BY <1>1, <2>1, <2>4 DEF LInv, TaggingTraces
  <2>5. CASE ~TagRead /\ ~TagEnd /\ ~Crash
    <3>1. tagging' = tagging
      BY <1>3, <2>5 DEF Next, Handler, Worker, Begin, Stop, Kill, Spawn, Attach, Raise, Return,
         File, Clear, Checkpoint, Extract, Skip, Quit, Fail, Promote, Leave, Add, Touch, Delete,
         Begins, Refuse, Check, Passes, TagSave, CorrectTypes, vars
    <3>2. \/ UNCHANGED since
          \/ \E r \in Teacher \cup {Seed} : since' = [since EXCEPT ![r] = {}]
      BY <1>3, <2>5 DEF Next, Handler, Worker, Begin, Stop, Kill, Spawn, Attach, Raise, Return,
         File, Closes, Clear, Checkpoint, Extract, Skip, Quit, Fail, Promote, Leave, Add, Touch,
         Delete, Begins, Refuse, EditEnds, Check, Passes, TagSave, CorrectTypes, vars, history
    <3>3. since'[Tagger] = since[Tagger]
      BY <3>2, Readers DEF TInv, People
    <3> QED BY <2>4, <3>1, <3>3
  <2> QED BY <2>2, <2>3, <2>5
<1> QED BY <1>2, <1>3

LEMMA SeedStep == ASSUME IInv, TInv, LInv, [Next]_vars PROVE SeedTraces'
<1>1. Out \subseteq Out'
  BY OutGrows
<1>2. ASSUME NEW t \in Teacher, Write(t) PROVE SeedTraces'
  BY <1>2, WriteTraced DEF LInv
<1>3. CASE \A t \in Teacher : ~Write(t)
  <2>1. Live' = Live
    BY <1>3, LiveShrinks
  <2>2. CASE Begin
    <3>1. kept' = (InBank \cap Added) \ unfit /\ apart' = InBank \cap Added \cap unfit
      BY <2>2 DEF Begin, Split
    <3>2. Live \subseteq Added /\ Live \subseteq InBank \cup Out
      BY DEF Live, TInv, Additions, LInv, Traced
    <3> QED BY <1>1, <2>1, <3>1, <3>2 DEF SeedTraces
  <2>3. CASE Raise \/ File \/ Crash
    BY <2>3 DEF Raise, File, Closes, Crash, SeedTraces
  <2>4. CASE /\ since'[Seed] = since[Seed]
             /\ parent' # "idle" => parent # "idle"
             /\ kept' = kept /\ apart' = apart
    BY <1>1, <2>1, <2>4 DEF LInv, SeedTraces
  <2>5. CASE ~Begin /\ ~Raise /\ ~File /\ ~Crash
    <3>1. (parent' # "idle" => parent # "idle") /\ kept' = kept /\ apart' = apart
      BY <1>3, <2>5 DEF Next, Handler, Worker, Stop, Kill, Spawn, Attach, Return, Returned, Clear,
         Checkpoint, Extract, Skip, Quit, Fail, Promote, Leave, Add, Touch, Delete, Begins, Refuse,
         Check, Passes, TagRead, TagSave, TagEnd, CorrectTypes, vars, job
    <3>2. \/ UNCHANGED since
          \/ \E r \in Teacher \cup {Tagger} : since' = [since EXCEPT ![r] = {}]
      BY <1>3, <2>5 DEF Next, Handler, Worker, Stop, Kill, Spawn, Attach, Return, Clear,
         Checkpoint, Extract, Skip, Quit, Fail, Promote, Leave, Add, Touch, Delete, Begins, Refuse,
         EditEnds, Check, Passes, TagRead, TagSave, TagEnd, CorrectTypes, vars, history
    <3>3. since'[Seed] = since[Seed]
      BY <3>2, Readers DEF TInv, People
    <3> QED BY <2>4, <3>1, <3>3
  <2> QED BY <2>2, <2>3, <2>5
<1> QED BY <1>2, <1>3

(* Whatever is lost of what people added is lost in one of the known ways, *)
(* however edits, taggings, re-extractions, stops, corrections of types    *)
(* and crashes fall on each other (add_item, _persist, put_aside,          *)
(* tag_bank, build).                                                       *)
THEOREM LossesAreKnown == Spec => []LossExplained
<1>1. Init => IInv /\ TInv /\ LInv
  BY InitInvariant, InitTypes, InitLoss
<1>2. IInv /\ TInv /\ LInv /\ [Next]_vars => IInv' /\ TInv' /\ LInv'
  <2>1. IInv /\ [Next]_vars => IInv'
    BY StepInvariant
  <2>2. TInv /\ [Next]_vars => TInv'
    BY CountsStep, PeopleStep, ContentsStep, AdditionsStep DEF TInv
  <2>3. IInv /\ TInv /\ LInv /\ [Next]_vars => LInv'
    BY TracedStep, EditsTraceStep, TaggingStep, SeedStep, BuildKeepsStep DEF LInv
  <2> QED BY <2>1, <2>2, <2>3
<1>3. LInv => LossExplained
  BY DEF LInv, Traced, Live, Out, LossExplained
<1> QED BY <1>1, <1>2, <1>3, PTL DEF Spec
=============================================================================
