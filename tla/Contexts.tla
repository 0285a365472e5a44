------------------------------ MODULE Contexts ------------------------------
(***************************************************************************)
(* The registry of warm contexts, server/core/contexts.py: an LRU map from *)
(* workspace to context, a generation and a build lock per workspace.      *)
(* Jobs ask for the context of their workspace and build it when it is     *)
(* cold; edits write an artifact and then invalidate the context; the      *)
(* panel writes the settings and then invalidates them all; and some       *)
(* writers invalidate nothing: the tagging of the whole bank, which puts   *)
(* its bank into the context it was given when it is done, the editor of   *)
(* the subject's context, and a job cut short before it invalidates.       *)
(*                                                                         *)
(* An artifact is its version: a context made from version v of its files  *)
(* is v.  A build reads the files long after it read the generation and    *)
(* long before it registers.  The jobs given the registered context share  *)
(* one object, which a tagging changes for all of them.                    *)
(***************************************************************************)
EXTENDS Integers, SequencesExt

CONSTANTS
    Workspace,
    Job,         \* threads that ask for a context
    Home,        \* Home[j]: the workspace of job j
    Tagger,      \* the jobs that may tag the whole bank
    Indexer,     \* the jobs that index anew: they reload what they ask for
    Editor,      \* threads that write artifacts or settings
    MaxContexts, \* MAX_CONTEXTS
    Writes,      \* bound: Writes[w], writes of the files of w
    MaxVersion,  \* bound of Writes
    MaxReloads,  \* bound: reloads asked for by jobs
    Nobody,      \* no job
    Nothing,     \* no workspace
    Everything   \* every workspace: the settings

Cold == -1

ASSUME ContextsAssumption == /\ Home \in [Job -> Workspace]
                             /\ Tagger \subseteq Job
                             /\ Indexer \subseteq Job
                             /\ MaxContexts \in Nat \ {0}
                             /\ MaxVersion \in Nat
                             /\ Writes \in [Workspace -> 0..MaxVersion]
                             /\ MaxReloads \in Nat
                             /\ Nobody \notin Job
                             /\ Nothing # Everything
                             /\ Workspace \cap {Nothing, Everything} = {}

VARIABLES
    file,       \* file[w]: version of the files of w
    context,    \* context[w]: version of the warm context of w, or Cold
    order,      \* warm workspaces, least recently used first
    shared,     \* the jobs whose context is the registered one itself
    generation, \* _generations
    known,      \* keys of _generations and _building
    lock,       \* lock[w]: holder of _building[w]
    stage,      \* where each job stands in get_context
    started,    \* started[j]: the generation j read before it built
    version,    \* version[j]: what j read or was given
    tagged,     \* tagged[j]: what j's context comes to with the tags j saved
    editing,    \* editing[e]: what e wrote and has not invalidated yet
    floor,      \* history: newest version of w invalidated when j asked
    settled,    \* history: settled[w], newest version of w invalidated
    untold,     \* history: untold[w], newest version nobody told of since w
                \* was last invalidated, or 0
    reloads     \* reloads so far

registryVars == <<context, order, shared>>
buildVars == <<lock, stage, started, version>>
tagVars == <<tagged, untold>>
historyVars == <<floor, settled, reloads>>
vars == <<file, registryVars, generation, known, buildVars, tagVars, editing, historyVars>>

Stage == {"idle", "asking", "queueing", "locked", "starting", "loading", "loaded", "given",
          "tagging", "tagged"}

TypeOK == /\ file \in [Workspace -> 0..MaxVersion]
          /\ context \in [Workspace -> {Cold} \cup 0..MaxVersion]
          /\ order \in Seq(Workspace)
          /\ shared \in SUBSET Job
          /\ generation \in [Workspace -> Nat]
          /\ known \in SUBSET Workspace
          /\ lock \in [Workspace -> Job \cup {Nobody}]
          /\ stage \in [Job -> Stage]
          /\ started \in [Job -> Nat]
          /\ version \in [Job -> 0..MaxVersion]
          /\ tagged \in [Job -> 0..MaxVersion]
          /\ editing \in [Editor -> Workspace \cup {Nothing, Everything}]
          /\ floor \in [Job -> 0..MaxVersion]
          /\ settled \in [Workspace -> 0..MaxVersion]
          /\ untold \in [Workspace -> 0..MaxVersion]
          /\ reloads \in 0..MaxReloads

Init == /\ file = [w \in Workspace |-> 0]
        /\ context = [w \in Workspace |-> Cold]
        /\ order = <<>>
        /\ shared = {}
        /\ generation = [w \in Workspace |-> 0]
        /\ known = {}
        /\ lock = [w \in Workspace |-> Nobody]
        /\ stage = [j \in Job |-> "idle"]
        /\ started = [j \in Job |-> 0]
        /\ version = [j \in Job |-> 0]
        /\ tagged = [j \in Job |-> 0]
        /\ editing = [e \in Editor |-> Nothing]
        /\ floor = [j \in Job |-> 0]
        /\ settled = [w \in Workspace |-> 0]
        /\ untold = [w \in Workspace |-> 0]
        /\ reloads = 0

-----------------------------------------------------------------------------
(* The registry *)

(* An ordered dictionary holds a key once. *)
Without(w) == RemoveFirst(order, w)

(* move_to_end, and a new entry. *)
Recent(w) == Append(Without(w), w)

(* _evict: one entry at most is too many. *)
Fitting(s) == IF Len(s) > MaxContexts THEN Tail(s) ELSE s

(* invalidate: the entry goes, the generation moves. *)
Drop(w) == /\ context' = [context EXCEPT ![w] = Cold]
           /\ order' = Without(w)
           /\ shared' = {j \in shared : Home[j] # w}
           /\ untold' = [untold EXCEPT ![w] = 0]
           /\ generation' = [generation EXCEPT ![w] = @ + 1]
           /\ known' = known \cup {w}

(* Slip of invalidate_all: only the warm ones move.                        *)
DropAllWarm == /\ context' = [w \in Workspace |-> Cold]
               /\ order' = <<>>
               /\ shared' = {}
               /\ untold' = [w \in Workspace |-> 0]
               /\ generation' = [w \in Workspace |-> IF context[w] # Cold THEN generation[w] + 1
                                                     ELSE generation[w]]
               /\ UNCHANGED known

(* invalidate_all: every entry goes; the generations that move are those   *)
(* of the workspaces invalidated or built before.                          *)
DropAll == /\ context' = [w \in Workspace |-> Cold]
           /\ order' = <<>>
           /\ shared' = {}
           /\ untold' = [w \in Workspace |-> 0]
           /\ generation' = [w \in Workspace |-> IF w \in known THEN generation[w] + 1
                                                 ELSE generation[w]]
           /\ UNCHANGED known

-----------------------------------------------------------------------------
(* A job's way to a context: context_for and get_context *)

Goes(j, s) == stage' = [stage EXCEPT ![j] = s]
Given(j, v) == Goes(j, "given") /\ version' = [version EXCEPT ![j] = v]
Unlock(j) == lock' = [lock EXCEPT ![Home[j]] = Nobody]

Ask(j) == /\ j \notin Indexer
          /\ stage[j] = "idle"
          /\ Goes(j, "asking")
          /\ floor' = [floor EXCEPT ![j] = settled[Home[j]]]
          /\ UNCHANGED <<file, registryVars, generation, known, lock, started, version,
                         tagVars, editing, settled, reloads>>

(* reload_context: the job invalidates first. *)
Reload(j) == /\ stage[j] = "idle"
             /\ j \in Indexer
             /\ reloads < MaxReloads
             /\ reloads' = reloads + 1
             /\ Goes(j, "asking")
             /\ Drop(Home[j])
             /\ floor' = [floor EXCEPT ![j] = settled[Home[j]]]
             /\ UNCHANGED <<file, lock, started, version, tagged, editing, settled>>

(* _warm: the entry is handed out and becomes the most recent. *)
TakeWarm(j) == /\ context[Home[j]] # Cold
               /\ Given(j, context[Home[j]])
               /\ order' = Recent(Home[j])
               /\ shared' = shared \cup {j}

LookWarm(j) == /\ stage[j] = "asking"
               /\ TakeWarm(j)
               /\ UNCHANGED <<file, context, generation, known, lock, started, tagVars,
                              editing, floor, settled, reloads>>

LookCold(j) == /\ stage[j] = "asking"
               /\ context[Home[j]] = Cold
               /\ Goes(j, "queueing")
               /\ known' = known \cup {Home[j]}
               /\ UNCHANGED <<file, registryVars, generation, lock, started, version, tagVars,
                              editing, historyVars>>

Lock(j) == /\ stage[j] = "queueing"
           /\ lock[Home[j]] = Nobody
           /\ lock' = [lock EXCEPT ![Home[j]] = j]
           /\ Goes(j, "locked")
           /\ UNCHANGED <<file, registryVars, generation, known, started, version, tagVars,
                          editing, historyVars>>

(* "Whoever held the lock before us may have built it." *)
LockedWarm(j) == /\ stage[j] = "locked"
                 /\ TakeWarm(j)
                 /\ Unlock(j)
                 /\ UNCHANGED <<file, context, generation, known, started, tagVars, editing,
                                floor, settled, reloads>>

(* Slip of get_context: no second look under the lock.                     *)
LockedAnyway(j) == /\ stage[j] = "locked"
                   /\ Goes(j, "starting")
                   /\ UNCHANGED <<file, registryVars, generation, known, lock, started, version,
                                  tagVars, editing, historyVars>>

LockedCold(j) == /\ stage[j] = "locked"
                 /\ context[Home[j]] = Cold
                 /\ Goes(j, "starting")
                 /\ UNCHANGED <<file, registryVars, generation, known, lock, started, version,
                                tagVars, editing, historyVars>>

(* Slip of get_context: a workspace never invalidated has no generation.   *)
StartNone(j) == /\ stage[j] = "starting"
                /\ started' = [started EXCEPT ![j] = IF generation[Home[j]] = 0 THEN -1
                                                     ELSE generation[Home[j]]]
                /\ Goes(j, "loading")
                /\ UNCHANGED <<file, registryVars, generation, known, lock, version, tagVars,
                               editing, historyVars>>

Start(j) == /\ stage[j] = "starting"
            /\ started' = [started EXCEPT ![j] = generation[Home[j]]]
            /\ Goes(j, "loading")
            /\ UNCHANGED <<file, registryVars, generation, known, lock, version, tagVars,
                           editing, historyVars>>

(* initialize reads the files. *)
Load(j) == /\ stage[j] = "loading"
           /\ version' = [version EXCEPT ![j] = file[Home[j]]]
           /\ Goes(j, "loaded")
           /\ UNCHANGED <<file, registryVars, generation, known, lock, started, tagVars,
                          editing, historyVars>>

(* Slip of get_context: no generation is compared. *)
RegisteredAnyway(j) == /\ stage[j] = "loaded"
                       /\ Goes(j, "given")
                       /\ Unlock(j)
                       /\ order' = Fitting(Recent(Home[j]))
                       /\ context' = [context EXCEPT ![Home[j]] = version[j]]
                       /\ shared' = {k \in shared : Home[k] # Home[j]} \cup {j}
                       /\ UNCHANGED <<file, generation, known, started, version, tagVars,
                                      editing, floor, settled, reloads>>

Registered(j, w, v) ==
    LET kept == Fitting(Recent(w)) IN
      /\ order' = kept
      /\ shared' = {k \in {i \in shared : Home[i] # w} \cup {j} : Home[k] \in Range(kept)}
      /\ context' = [x \in Workspace |-> IF x \notin Range(kept) THEN Cold
                                         ELSE IF x = w THEN v ELSE context[x]]

(* Slip of get_context: a build of an old generation keeps the lock.       *)
RegisterLocked(j) == /\ stage[j] = "loaded"
                     /\ Goes(j, "given")
                     /\ IF generation[Home[j]] = started[j]
                        THEN Registered(j, Home[j], version[j]) /\ Unlock(j)
                        ELSE UNCHANGED <<registryVars, lock>>
                     /\ UNCHANGED <<file, generation, known, started, version, tagVars, editing,
                                    floor, settled, reloads>>

(* The context is the job's in any case, the registry's only if nothing    *)
(* was invalidated since the build started; then the lock is let go.       *)
Register(j) == /\ stage[j] = "loaded"
               /\ Goes(j, "given")
               /\ Unlock(j)
               /\ IF generation[Home[j]] = started[j]
                  THEN Registered(j, Home[j], version[j])
                  ELSE UNCHANGED registryVars
               /\ UNCHANGED <<file, generation, known, started, version, tagVars, editing,
                              floor, settled, reloads>>

(* The call is over, and its locals with it. *)
Ends(j) == /\ Goes(j, "idle")
           /\ started' = [started EXCEPT ![j] = 0]
           /\ version' = [version EXCEPT ![j] = 0]
           /\ tagged' = [tagged EXCEPT ![j] = 0]
           /\ floor' = [floor EXCEPT ![j] = 0]
           /\ shared' = shared \ {j}

(* The engine is away, or the build raises: the lock is let go. *)
Fail(j) == /\ stage[j] \in {"starting", "loading", "loaded"}
           /\ Ends(j)
           /\ Unlock(j)
           /\ UNCHANGED <<file, context, order, generation, known, untold, editing, settled,
                          reloads>>

(* A tagging may end without its bank in its context: the engine is away   *)
(* when the index is embedded again.                                       *)
Finish(j) == /\ stage[j] \in {"given", "tagging", "tagged"}
             /\ Ends(j)
             /\ UNCHANGED <<file, context, order, generation, known, lock, untold, editing,
                            settled, reloads>>

-----------------------------------------------------------------------------
(* The tagging of the whole bank, which tells the registry nothing *)

(* Whoever has the same object in hand as j. *)
Sharing(j) == IF j \in shared THEN {k \in shared : Home[k] = Home[j]} ELSE {j}

(* The bank of j's context with the tags so far is written after every     *)
(* exercise.  With them the context is the files, if it was before.        *)
TagSave(j) ==
    /\ j \in Tagger
    /\ stage[j] \in {"given", "tagging"}
    /\ file[Home[j]] < Writes[Home[j]]
    /\ Goes(j, "tagging")
    /\ file' = [file EXCEPT ![Home[j]] = @ + 1]
    /\ untold' = [untold EXCEPT ![Home[j]] = file[Home[j]] + 1]
    /\ LET had == IF stage[j] = "given" THEN version[j] ELSE tagged[j]
       IN tagged' = [tagged EXCEPT ![j] = IF had = file[Home[j]] THEN had + 1 ELSE had]
    /\ UNCHANGED <<registryVars, generation, known, lock, started, version, editing,
                   historyVars>>

(* apply_bank, at the end of a tagging or at its stop.  A write is         *)
(* answered for when the registered context has it, and no tagging that    *)
(* may still take it out again has that context in hand.                   *)
TagApply(j) ==
    /\ stage[j] = "tagging"
    /\ Goes(j, "tagged")
    /\ version' = [k \in Job |-> IF k \in Sharing(j) THEN tagged[j] ELSE version[k]]
    /\ context' = IF j \in shared THEN [context EXCEPT ![Home[j]] = tagged[j]] ELSE context
    /\ untold' = IF /\ j \in shared
                    /\ tagged[j] = file[Home[j]]
                    /\ \A k \in Sharing(j) \ {j} : stage[k] # "tagging"
                 THEN [untold EXCEPT ![Home[j]] = 0] ELSE untold
    /\ UNCHANGED <<file, order, shared, generation, known, lock, started, tagged, editing,
                   historyVars>>

-----------------------------------------------------------------------------
(* Edits: the file first, the context after it *)

Edit(e, w) == /\ editing[e] = Nothing
              /\ file[w] < Writes[w]
              /\ file' = [file EXCEPT ![w] = @ + 1]
              /\ editing' = [editing EXCEPT ![e] = w]
              /\ UNCHANGED <<registryVars, generation, known, buildVars, tagVars, historyVars>>

(* A write no invalidation follows: the subject's context, or an artifact  *)
(* whose job raises or is stopped before it invalidates.                   *)
WriteUntold(e, w) == /\ editing[e] = Nothing
                     /\ file[w] < Writes[w]
                     /\ file' = [file EXCEPT ![w] = @ + 1]
                     /\ untold' = [untold EXCEPT ![w] = file[w] + 1]
                     /\ UNCHANGED <<registryVars, generation, known, buildVars, tagged,
                                    editing, historyVars>>

Invalidate(e) == /\ editing[e] \in Workspace
                 /\ Drop(editing[e])
                 /\ settled' = [settled EXCEPT ![editing[e]] = file[editing[e]]]
                 /\ editing' = [editing EXCEPT ![e] = Nothing]
                 /\ UNCHANGED <<file, buildVars, tagged, floor, reloads>>

(* The settings are read by every context. *)
ChangeSettings(e) == /\ editing[e] = Nothing
                     /\ \A w \in Workspace : file[w] < Writes[w]
                     /\ file' = [w \in Workspace |-> file[w] + 1]
                     /\ editing' = [editing EXCEPT ![e] = Everything]
                     /\ UNCHANGED <<registryVars, generation, known, buildVars, tagVars,
                                    historyVars>>

InvalidateAll(e) == /\ editing[e] = Everything
                    /\ DropAll
                    /\ settled' = file
                    /\ editing' = [editing EXCEPT ![e] = Nothing]
                    /\ UNCHANGED <<file, buildVars, tagged, floor, reloads>>

GetContext(j) == \/ LookWarm(j) \/ LookCold(j) \/ Lock(j) \/ LockedWarm(j) \/ LockedCold(j)
                 \/ Start(j) \/ Load(j) \/ Register(j)

Next == \/ \E j \in Job : \/ Ask(j) \/ Reload(j) \/ GetContext(j) \/ Fail(j) \/ Finish(j)
                          \/ TagSave(j) \/ TagApply(j)
        \/ \E e \in Editor : \/ \E w \in Workspace : Edit(e, w) \/ WriteUntold(e, w)
                             \/ Invalidate(e) \/ ChangeSettings(e) \/ InvalidateAll(e)

Spec == Init /\ [][Next]_vars

(* Threads keep running, and the lock of a workspace is not kept from one  *)
(* job by others for ever.                                                 *)
FairSpec == /\ Spec
            /\ \A j \in Job : WF_vars(GetContext(j)) /\ SF_vars(Lock(j))

-----------------------------------------------------------------------------
(* Properties *)

(* Somebody wrote the files of w and has not invalidated it yet. *)
Unsettled(w) == \E e \in Editor : editing[e] \in {w, Everything}

(* A registered context is the one of the files as they are, except while  *)
(* an edit stands between its write and its invalidation, or where a write *)
(* nobody tells of came after the context was read: a build under way when *)
(* an artifact changes leaves nothing behind, and a tagging that is done   *)
(* has its bank in the registered context if that is the one it was given  *)
(* (get_context, tag_bank).                                                *)
RegistryFresh == \A w \in Workspace :
    context[w] # Cold => context[w] = file[w] \/ Unsettled(w) \/ context[w] < untold[w]

(* No workspace is built while it is warm: the minutes of a build are not  *)
(* spent twice, whoever waited for the lock and whoever invalidated        *)
(* meanwhile, and a registration never finds an entry it would leave in    *)
(* its old place (get_context: "may have built it").                       *)
ColdWhileBuilt == \A j \in Job :
    stage[j] \in {"starting", "loading", "loaded"} => context[Home[j]] = Cold

(* A job is not given a context older than an edit that was over before it *)
(* asked, whether it found it warm, waited for another's build or built it *)
(* itself.                                                                 *)
NothingOlderIsGiven == \A j \in Job : stage[j] = "given" => version[j] >= floor[j]

(* Every job that asks is given a context, or fails.                       *)
EveryAskEnds == \A j \in Job : stage[j] = "asking" ~> stage[j] \in {"given", "idle"}
=============================================================================
