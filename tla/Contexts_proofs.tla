--------------------------- MODULE Contexts_proofs --------------------------
(***************************************************************************)
(* Proofs about Contexts, for any workspaces, jobs and editors, any room   *)
(* and any bounds: what the registry holds is fresh but for edits under    *)
(* way, no workspace is built while it is warm, and no job is given        *)
(* something older than what was settled when it asked.  The order of use  *)
(* plays no part in that: its own invariant, InOrder, comes last.          *)
(***************************************************************************)
EXTENDS Contexts, TLAPS

USE ContextsAssumption

Types == /\ file \in [Workspace -> 0..MaxVersion]
         /\ context \in [Workspace -> {Cold} \cup 0..MaxVersion]
         /\ generation \in [Workspace -> Nat]
         /\ known \in SUBSET Workspace
         /\ lock \in [Workspace -> Job \cup {Nobody}]
         /\ stage \in [Job -> Stage]
         /\ started \in [Job -> Nat]
         /\ version \in [Job -> 0..MaxVersion]
         /\ shared \in SUBSET Job
         /\ tagged \in [Job -> 0..MaxVersion]
         /\ untold \in [Workspace -> 0..MaxVersion]
         /\ editing \in [Editor -> Workspace \cup {Nothing, Everything}]
         /\ floor \in [Job -> 0..MaxVersion]
         /\ settled \in [Workspace -> 0..MaxVersion]

Building == {"starting", "loading", "loaded"}

(* A job past the lock holds it, and its workspace is known: the           *)
(* generation of a workspace that is being built moves with every          *)
(* invalidation, invalidate_all included.                                  *)
Held == \A j \in Job : /\ stage[j] \in {"locked"} \cup Building => lock[Home[j]] = j
                       /\ stage[j] \in {"queueing", "locked"} \cup Building => Home[j] \in known

(* No build is of a generation yet to come. *)
Begun == \A j \in Job : stage[j] \in {"loading", "loaded"} => started[j] <= generation[Home[j]]

(* What was loaded under the present generation is as good as the files.   *)
Loaded == \A j \in Job :
    stage[j] = "loaded" /\ started[j] = generation[Home[j]] =>
        /\ version[j] = file[Home[j]] \/ Unsettled(Home[j]) \/ version[j] < untold[Home[j]]
        /\ version[j] >= settled[Home[j]]

(* What was settled stays behind the files and behind what is warm. *)
Settled == \A w \in Workspace : /\ settled[w] <= file[w]
                                /\ context[w] # Cold => context[w] >= settled[w]

(* What a job must not get behind was settled when it asked. *)
Floors == \A j \in Job : /\ floor[j] <= settled[Home[j]]
                         /\ stage[j] \in {"loaded", "given"} => version[j] >= floor[j]

(* What nobody told of has been written. *)
Told == \A w \in Workspace : untold[w] <= file[w]

(* Who shares the registered context was given it as it is; and what a     *)
(* tagging is about to put into it is as good as the files, but for what   *)
(* the registry is allowed to miss.                                        *)
Shares == \A j \in shared :
    /\ context[Home[j]] # Cold
    /\ stage[j] \in {"given", "tagging", "tagged"}
    /\ stage[j] = "given" => version[j] = context[Home[j]]
    /\ stage[j] = "tagging" =>
          /\ tagged[j] >= settled[Home[j]]
          /\ tagged[j] = file[Home[j]] \/ Unsettled(Home[j]) \/ tagged[j] < untold[Home[j]]

IInv == /\ Types /\ Held /\ Begun /\ Loaded /\ Settled /\ Floors /\ Told /\ Shares
        /\ RegistryFresh /\ ColdWhileBuilt

LEMMA InitInvariant == Init => IInv
<1> SUFFICES ASSUME Init PROVE IInv
  OBVIOUS
<1>1. Types
  BY DEF Init, Types, Stage
<1>2. Held /\ Begun /\ Loaded /\ ColdWhileBuilt
  BY DEF Init, Held, Begun, Loaded, ColdWhileBuilt, Building
<1>3. Settled /\ Floors /\ RegistryFresh /\ Told /\ Shares
  BY DEF Init, Settled, Floors, Told, Shares, RegistryFresh, Told, Shares, Cold
<1> QED BY <1>1, <1>2, <1>3 DEF IInv

-----------------------------------------------------------------------------
(* The steps, by what they move *)

(* A job alone moves, and neither registers nor is given anything. *)
JobMoves(j) == LookCold(j) \/ Lock(j) \/ LockedCold(j) \/ Start(j) \/ Load(j)

LEMMA JobMovesInvariant ==
  ASSUME IInv, NEW j \in Job, JobMoves(j)
  PROVE  IInv'
<1>1. CASE LookCold(j)
  BY <1>1 DEF LookCold, Goes, IInv, Types, Held, Begun, Loaded, Settled, Floors, Told, Shares,
     RegistryFresh, ColdWhileBuilt, Building, Stage, Unsettled, registryVars, tagVars, historyVars
<1>2. CASE Lock(j)
  BY <1>2 DEF Lock, Goes, IInv, Types, Held, Begun, Loaded, Settled, Floors, Told, Shares,
     RegistryFresh, ColdWhileBuilt, Building, Stage, Unsettled, registryVars, tagVars, historyVars
<1>3. CASE LockedCold(j)
  BY <1>3 DEF LockedCold, Goes, IInv, Types, Held, Begun, Loaded, Settled, Floors, Told, Shares,
     RegistryFresh, ColdWhileBuilt, Building, Stage, Unsettled, registryVars, tagVars, historyVars
<1>4. CASE Start(j)
  BY <1>4 DEF Start, Goes, IInv, Types, Held, Begun, Loaded, Settled, Floors, Told, Shares,
     RegistryFresh, ColdWhileBuilt, Building, Stage, Unsettled, registryVars, tagVars, historyVars
<1>5. CASE Load(j)
  BY <1>5 DEF Load, Goes, IInv, Types, Held, Begun, Loaded, Settled, Floors, Told, Shares,
     RegistryFresh, ColdWhileBuilt, Building, Stage, Unsettled, registryVars, tagVars, historyVars
<1> QED BY <1>1, <1>2, <1>3, <1>4, <1>5 DEF JobMoves

LEMMA AskInvariant ==
  ASSUME IInv, NEW j \in Job, Ask(j) \/ Reload(j)
  PROVE  IInv'
<1>1. CASE Ask(j)
  BY <1>1 DEF Ask, Goes, IInv, Types, Held, Begun, Loaded, Settled, Floors, Told, Shares,
     RegistryFresh, ColdWhileBuilt, Building, Stage, Unsettled, registryVars, tagVars
<1>2. CASE Reload(j)
  BY <1>2 DEF Reload, Drop, Goes, IInv, Types, Held, Begun, Loaded, Settled, Floors, Told, Shares,
     RegistryFresh, ColdWhileBuilt, Building, Stage, Unsettled, Cold, tagVars
<1> QED BY <1>1, <1>2

LEMMA WarmInvariant ==
  ASSUME IInv, NEW j \in Job, LookWarm(j) \/ LockedWarm(j)
  PROVE  IInv'
<1>1. CASE LookWarm(j)
  BY <1>1 DEF LookWarm, TakeWarm, Given, Goes, IInv, Types, Held, Begun, Loaded, Settled, Floors,
     Told, Shares, RegistryFresh, ColdWhileBuilt, Building, Stage, Unsettled, Cold, tagVars
<1>2. CASE LockedWarm(j)
  BY <1>2 DEF LockedWarm, TakeWarm, Given, Goes, Unlock, IInv, Types, Held, Begun, Loaded, Settled,
     Floors, Told, Shares, RegistryFresh, ColdWhileBuilt, Building, Stage, Unsettled, Cold, tagVars
<1> QED BY <1>1, <1>2

LEMMA EndInvariant ==
  ASSUME IInv, NEW j \in Job, Fail(j) \/ Finish(j)
  PROVE  IInv'
<1>1. CASE Fail(j)
  BY <1>1 DEF Fail, Ends, Goes, Unlock, IInv, Types, Held, Begun, Loaded, Settled, Floors, Told,
     Shares, RegistryFresh, ColdWhileBuilt, Building, Stage, Unsettled, registryVars, tagVars
<1>2. CASE Finish(j)
  BY <1>2 DEF Finish, Ends, Goes, IInv, Types, Held, Begun, Loaded, Settled, Floors, Told, Shares,
     RegistryFresh, ColdWhileBuilt, Building, Stage, Unsettled, registryVars, tagVars
<1> QED BY <1>1, <1>2

(* What a registration leaves warm is what was, and what it registers. *)
LEMMA RegisterInvariant ==
  ASSUME IInv, NEW j \in Job, Register(j)
  PROVE  IInv'
<1> DEFINE h == Home[j]
<1>1. /\ stage[j] = "loaded" /\ stage' = [stage EXCEPT ![j] = "given"]
      /\ lock' = [lock EXCEPT ![h] = Nobody]
      /\ UNCHANGED <<file, generation, known, started, version, tagged, untold, editing, floor,
                     settled>>
  BY DEF Register, Goes, Unlock, tagVars
<1>2. \A w \in Workspace : \/ context'[w] \in {Cold, context[w]}
                           \/ w = h /\ context'[w] = version[j] /\ generation[h] = started[j]
  BY DEF Register, Registered, registryVars, IInv, Types
<1>3. context' \in [Workspace -> {Cold} \cup 0..MaxVersion]
  BY DEF Register, Registered, registryVars, IInv, Types
<1>4. /\ shared' \in SUBSET Job
      /\ \A k \in shared' : \/ k \in shared /\ context'[Home[k]] = context[Home[k]]
                            \/ k = j /\ context'[h] = version[j] /\ generation[h] = started[j]
  BY DEF Register, Registered, registryVars, IInv, Types
<1>5. Types'
  BY <1>1, <1>3, <1>4 DEF IInv, Types, Stage
<1>6. Held' /\ Begun' /\ Loaded'
  BY <1>1 DEF IInv, Types, Held, Begun, Loaded, Building, Unsettled
<1>7. Settled' /\ Told'
  BY <1>1, <1>2 DEF IInv, Types, Settled, Loaded, Told
<1>8. Floors'
  BY <1>1 DEF IInv, Types, Floors
<1>9. \A w \in Workspace : Unsettled(w)' <=> Unsettled(w)
  BY <1>1 DEF Unsettled
<1>10. RegistryFresh'
  <2> SUFFICES ASSUME NEW w \in Workspace, context'[w] # Cold
               PROVE  context'[w] = file'[w] \/ Unsettled(w)' \/ context'[w] < untold'[w]
    BY DEF RegistryFresh
  <2>1. CASE context'[w] = context[w]
    BY <1>1, <1>9, <2>1 DEF IInv, RegistryFresh
  <2>2. CASE w = h /\ context'[w] = version[j] /\ generation[h] = started[j]
    BY <1>1, <1>9, <2>2 DEF IInv, Loaded
  <2> QED BY <1>2, <2>1, <2>2
<1>11. Shares'
  <2> SUFFICES ASSUME NEW k \in shared'
               PROVE  /\ context'[Home[k]] # Cold
                      /\ stage'[k] \in {"given", "tagging", "tagged"}
                      /\ stage'[k] = "given" => version[k] = context'[Home[k]]
                      /\ stage'[k] = "tagging" =>
                            /\ tagged[k] >= settled[Home[k]]
                            /\ \/ tagged[k] = file[Home[k]] \/ Unsettled(Home[k])
                               \/ tagged[k] < untold[Home[k]]
    BY <1>1, <1>4, <1>9 DEF IInv, Types, Shares
  <2>1. CASE k \in shared /\ context'[Home[k]] = context[Home[k]]
    BY <1>1, <2>1 DEF IInv, Types, Shares
  <2>2. CASE k = j /\ context'[h] = version[j] /\ generation[h] = started[j]
    BY <1>1, <2>2 DEF IInv, Types, Loaded, Cold
  <2> QED BY <1>4, <2>1, <2>2
<1>12. ColdWhileBuilt'
  <2> SUFFICES ASSUME NEW k \in Job, stage'[k] \in Building
               PROVE  context'[Home[k]] = Cold
    BY DEF ColdWhileBuilt, Building
  <2>1. k # j /\ stage[k] \in Building
    BY <1>1 DEF IInv, Types, Building
  <2>2. lock[Home[k]] = k /\ lock[h] = j
    BY <1>1, <2>1 DEF IInv, Held, Building
  <2>3. Home[k] # h /\ context[Home[k]] = Cold /\ Home[k] \in Workspace
    BY <2>1, <2>2 DEF IInv, ColdWhileBuilt, Building
  <2> QED BY <1>2, <2>3
<1> QED BY <1>5, <1>6, <1>7, <1>8, <1>10, <1>11, <1>12 DEF IInv

-----------------------------------------------------------------------------
(* The tagging of the whole bank *)

(* A save leaves every context of the workspace behind what nobody tells   *)
(* of, but the tagger's with its tags.                                     *)
LEMMA TagSaveInvariant ==
  ASSUME IInv, NEW j \in Job, TagSave(j)
  PROVE  IInv'
<1> DEFINE h == Home[j]
           had == IF stage[j] = "given" THEN version[j] ELSE tagged[j]
<1>1. /\ stage[j] \in {"given", "tagging"} /\ stage' = [stage EXCEPT ![j] = "tagging"]
      /\ file[h] < MaxVersion /\ file' = [file EXCEPT ![h] = @ + 1]
      /\ untold' = [untold EXCEPT ![h] = file[h] + 1]
      /\ tagged' = [tagged EXCEPT ![j] = IF had = file[h] THEN had + 1 ELSE had]
      /\ UNCHANGED <<context, shared, generation, known, lock, started, version, editing,
                     floor, settled>>
  BY DEF TagSave, Goes, registryVars, historyVars, IInv, Types
<1>2. had \in 0..MaxVersion /\ file[h] \in 0..MaxVersion /\ h \in Workspace
  BY DEF IInv, Types
<1> HIDE DEF h, had
<1>3. Types'
  BY <1>1, <1>2 DEF IInv, Types, Stage
<1>4. \A w \in Workspace : Unsettled(w)' <=> Unsettled(w)
  BY <1>1 DEF Unsettled
<1>5. Held' /\ Begun' /\ ColdWhileBuilt' /\ Floors'
  BY <1>1 DEF IInv, Types, Held, Begun, ColdWhileBuilt, Floors, Building
<1>6. Loaded'
  BY <1>1, <1>2, <1>4 DEF IInv, Types, Loaded, Settled, Told
<1>7. Settled' /\ Told'
  BY <1>1, <1>2 DEF IInv, Types, Settled, Told
<1>8. RegistryFresh'
  BY <1>1, <1>2, <1>4 DEF IInv, Types, RegistryFresh, Told
<1>9. Shares'
  <2>1. ASSUME j \in shared PROVE had >= settled[h]
    BY <1>1, <2>1 DEF IInv, Shares, Settled, h, had
  <2> SUFFICES ASSUME NEW k \in shared
               PROVE  /\ context[Home[k]] # Cold
                      /\ stage'[k] \in {"given", "tagging", "tagged"}
                      /\ stage'[k] = "given" => version[k] = context[Home[k]]
                      /\ stage'[k] = "tagging" =>
                           /\ tagged'[k] >= settled[Home[k]]
                           /\ \/ tagged'[k] = file'[Home[k]]
                              \/ Unsettled(Home[k])'
                              \/ tagged'[k] < untold'[Home[k]]
    BY <1>1 DEF Shares
  <2>2. /\ k \in Job /\ Home[k] \in Workspace /\ context[Home[k]] # Cold
        /\ stage[k] \in {"given", "tagging", "tagged"}
    BY DEF IInv, Types, Shares
  <2>3. CASE k = j
    <3>1. tagged'[k] = IF had = file[h] THEN had + 1 ELSE had
      BY <1>1, <2>3 DEF IInv, Types
    <3>2. file'[h] = file[h] + 1 /\ untold'[h] = file[h] + 1 /\ stage'[k] = "tagging"
      BY <1>1, <1>2, <2>3 DEF IInv, Types
    <3>3. settled[h] \in 0..MaxVersion /\ settled[h] <= file[h] /\ MaxVersion \in Nat
      BY <1>2 DEF IInv, Types, Settled
    <3>4. had >= settled[h] /\ h = Home[k]
      BY <2>1, <2>3 DEF h
    <3>5. CASE had = file[h]
      BY <1>2, <2>2, <3>1, <3>2, <3>3, <3>4, <3>5
    <3>6. CASE had # file[h]
      <4>1. tagged'[k] = had
        BY <3>1, <3>6
      <4>2. had >= settled[h] /\ had \in Int /\ file[h] \in Int
        BY <1>2, <3>4
      <4>3. had < untold'[h] \/ Unsettled(h)'
        BY <1>1, <1>2, <1>4, <2>3, <3>2, <3>6 DEF IInv, Types, Shares, RegistryFresh, Told, h, had
      <4> QED BY <2>2, <3>2, <3>4, <4>1, <4>2, <4>3
    <3> QED BY <3>5, <3>6
  <2>4. CASE k # j
    <3>1. tagged'[k] = tagged[k] /\ stage'[k] = stage[k]
      BY <1>1, <2>2, <2>4 DEF IInv, Types
    <3>2. /\ stage[k] = "given" => version[k] = context[Home[k]]
          /\ stage[k] = "tagging" =>
                /\ tagged[k] >= settled[Home[k]]
                /\ \/ tagged[k] = file[Home[k]] \/ Unsettled(Home[k])
                   \/ tagged[k] < untold[Home[k]]
      BY <2>2 DEF IInv, Shares
    <3>3. CASE Home[k] = h
      <4>1. file'[h] = file[h] + 1 /\ untold'[h] = file[h] + 1
        BY <1>1, <1>2 DEF IInv, Types
      <4>2. untold[h] <= file[h] /\ untold[h] \in 0..MaxVersion /\ tagged[k] \in 0..MaxVersion
        BY <1>2, <2>2 DEF IInv, Types, Told
      <4>3. stage[k] = "tagging" => tagged'[k] < untold'[h] \/ Unsettled(h)'
        BY <1>2, <1>4, <3>1, <3>2, <3>3, <4>1, <4>2
      <4> QED BY <2>2, <3>1, <3>2, <3>3, <4>3
    <3>4. CASE Home[k] # h
      <4>1. file'[Home[k]] = file[Home[k]] /\ untold'[Home[k]] = untold[Home[k]]
        BY <1>1, <2>2, <3>4 DEF IInv, Types
      <4> QED BY <1>4, <2>2, <3>1, <3>2, <4>1
    <3> QED BY <3>3, <3>4
  <2> QED BY <2>3, <2>4
<1> QED BY <1>3, <1>5, <1>6, <1>7, <1>8, <1>9 DEF IInv

(* The bank is put into the context of all who share it; while it is warm  *)
(* nobody builds the workspace.                                            *)
LEMMA TagApplyInvariant ==
  ASSUME IInv, NEW j \in Job, TagApply(j)
  PROVE  IInv'
<1> DEFINE h == Home[j]
<1>1. /\ stage[j] = "tagging" /\ stage' = [stage EXCEPT ![j] = "tagged"]
      /\ version' = [k \in Job |-> IF k \in Sharing(j) THEN tagged[j] ELSE version[k]]
      /\ context' = IF j \in shared THEN [context EXCEPT ![h] = tagged[j]] ELSE context
      /\ UNCHANGED <<file, shared, generation, known, lock, started, tagged, editing, floor,
                     settled>>
  BY DEF TagApply, Goes, historyVars
<1>2. \/ untold' = untold
      \/ /\ j \in shared /\ tagged[j] = file[h]
         /\ \A k \in Sharing(j) \ {j} : stage[k] # "tagging"
         /\ untold' = [untold EXCEPT ![h] = 0]
  BY DEF TagApply
<1>3. \A k \in Sharing(j) \ {j} : j \in shared /\ k \in shared /\ Home[k] = h
  BY DEF Sharing
<1>4. Types'
  BY <1>1, <1>2 DEF IInv, Types, Stage
<1>5. \A w \in Workspace : Unsettled(w)' <=> Unsettled(w)
  BY <1>1 DEF Unsettled
<1>6. Held' /\ Begun' /\ Told'
  BY <1>1, <1>2 DEF IInv, Types, Held, Begun, Building, Told
<1>7. ASSUME j \in shared, NEW k \in Job, stage[k] \in Building PROVE Home[k] # h
  BY <1>7 DEF IInv, Shares, ColdWhileBuilt, Building
<1>8. ASSUME NEW k \in Job, stage[k] \in Building PROVE version'[k] = version[k]
  BY <1>1, <1>3, <1>8 DEF IInv, Types, Shares, Building
<1>9. Loaded'
  BY <1>1, <1>2, <1>5, <1>7, <1>8 DEF IInv, Types, Loaded, Building
<1>10. ASSUME j \in shared
       PROVE  /\ tagged[j] >= settled[h]
              /\ tagged[j] = file[h] \/ Unsettled(h) \/ tagged[j] < untold[h]
  BY <1>1, <1>10 DEF IInv, Shares
<1>11. Settled'
  BY <1>1, <1>10 DEF IInv, Types, Settled
<1>12. RegistryFresh'
  BY <1>1, <1>2, <1>5, <1>10 DEF IInv, Types, RegistryFresh
<1>13. Floors'
  <2> SUFFICES ASSUME NEW k \in Job, stage'[k] \in {"loaded", "given"}
               PROVE  version'[k] >= floor[k]
    BY <1>1 DEF IInv, Floors
  <2>1. k # j /\ stage[k] \in {"loaded", "given"}
    BY <1>1 DEF IInv, Types
  <2>2. CASE k \in Sharing(j)
    BY <1>1, <1>3, <1>10, <2>1, <2>2 DEF IInv, Types, Floors
  <2>3. CASE k \notin Sharing(j)
    BY <1>1, <2>1, <2>3 DEF IInv, Floors
  <2> QED BY <2>2, <2>3
<1>14. ColdWhileBuilt'
  BY <1>1, <1>7 DEF IInv, Types, ColdWhileBuilt, Building
<1>15. Shares'
  <2> SUFFICES ASSUME NEW k \in shared
               PROVE  /\ context'[Home[k]] # Cold
                      /\ stage'[k] \in {"given", "tagging", "tagged"}
                      /\ stage'[k] = "given" => version'[k] = context'[Home[k]]
                      /\ stage'[k] = "tagging" =>
                            /\ tagged[k] >= settled[Home[k]]
                            /\ \/ tagged[k] = file[Home[k]] \/ Unsettled(Home[k])
                               \/ tagged[k] < untold'[Home[k]]
    BY <1>1, <1>5 DEF IInv, Types, Shares
  <2>1. context'[Home[k]] # Cold
    BY <1>1 DEF IInv, Types, Shares, Cold
  <2>2. stage'[k] \in {"given", "tagging", "tagged"}
    BY <1>1 DEF IInv, Types, Shares
  <2>3. ASSUME stage'[k] = "given" PROVE version'[k] = context'[Home[k]]
    <3>1. k # j /\ stage[k] = "given"
      BY <1>1, <2>3 DEF IInv, Types
    <3>2. CASE k \in Sharing(j)
      BY <1>1, <1>3, <1>10, <3>1, <3>2 DEF IInv, Types
    <3>3. CASE k \notin Sharing(j)
      BY <1>1, <3>1, <3>3 DEF IInv, Types, Shares, Sharing, h
    <3> QED BY <3>2, <3>3
  <2>4. ASSUME stage'[k] = "tagging"
        PROVE  /\ tagged[k] >= settled[Home[k]]
               /\ \/ tagged[k] = file[Home[k]] \/ Unsettled(Home[k])
                  \/ tagged[k] < untold'[Home[k]]
    <3>1. k # j /\ stage[k] = "tagging"
      BY <1>1, <2>4 DEF IInv, Types
    <3>2. j \in shared /\ Home[k] = h => k \in Sharing(j) \ {j}
      BY <3>1 DEF Sharing
    <3>3. untold'[Home[k]] = untold[Home[k]]
      BY <1>2, <3>1, <3>2 DEF IInv, Types
    <3> QED BY <3>1, <3>3 DEF IInv, Shares
  <2> QED BY <2>1, <2>2, <2>3, <2>4
<1> QED BY <1>4, <1>6, <1>9, <1>11, <1>12, <1>13, <1>14, <1>15 DEF IInv

-----------------------------------------------------------------------------
(* Edits and invalidations *)

LEMMA EditInvariant ==
  ASSUME IInv, NEW e \in Editor,
         ChangeSettings(e) \/ \E w \in Workspace : Edit(e, w) \/ WriteUntold(e, w)
  PROVE  IInv'
<1>1. ASSUME NEW w \in Workspace, Edit(e, w)
      PROVE  IInv'
  <2>1. /\ editing[e] = Nothing /\ editing' = [editing EXCEPT ![e] = w]
        /\ file[w] < MaxVersion /\ file' = [file EXCEPT ![w] = @ + 1]
        /\ UNCHANGED <<context, shared, generation, known, lock, stage, started, version,
                       tagged, untold, floor, settled>>
    BY <1>1 DEF Edit, registryVars, buildVars, tagVars, historyVars, IInv, Types
  <2>2. Types'
    BY <2>1 DEF IInv, Types
  <2>3. Unsettled(w)' /\ \A x \in Workspace : Unsettled(x) => Unsettled(x)'
    BY <2>1 DEF IInv, Types, Unsettled
  <2>4. Held' /\ Begun' /\ Floors' /\ ColdWhileBuilt'
    BY <2>1 DEF IInv, Held, Begun, Floors, ColdWhileBuilt
  <2>5. Loaded' /\ RegistryFresh'
    BY <2>1, <2>3 DEF IInv, Types, Loaded, RegistryFresh
  <2>6. Settled' /\ Told'
    BY <2>1 DEF IInv, Types, Settled, Told
  <2>7. Shares'
    BY <2>1, <2>3 DEF IInv, Types, Shares
  <2> QED BY <2>2, <2>4, <2>5, <2>6, <2>7 DEF IInv
<1>2. CASE ChangeSettings(e)
  <2>1. /\ editing[e] = Nothing /\ editing' = [editing EXCEPT ![e] = Everything]
        /\ \A x \in Workspace : file[x] < MaxVersion
        /\ file' = [x \in Workspace |-> file[x] + 1]
        /\ UNCHANGED <<context, shared, generation, known, lock, stage, started, version,
                       tagged, untold, floor, settled>>
    BY <1>2 DEF ChangeSettings, registryVars, buildVars, tagVars, historyVars, IInv, Types
  <2>2. Types'
    BY <2>1 DEF IInv, Types
  <2>3. \A x \in Workspace : Unsettled(x)'
    BY <2>1 DEF IInv, Types, Unsettled
  <2>4. Held' /\ Begun' /\ Floors' /\ ColdWhileBuilt'
    BY <2>1 DEF IInv, Held, Begun, Floors, ColdWhileBuilt
  <2>5. Loaded' /\ RegistryFresh'
    BY <2>1, <2>3 DEF IInv, Types, Loaded, RegistryFresh
  <2>6. Settled' /\ Told'
    BY <2>1 DEF IInv, Types, Settled, Told
  <2>7. Shares'
    BY <2>1, <2>3 DEF IInv, Types, Shares
  <2> QED BY <2>2, <2>4, <2>5, <2>6, <2>7 DEF IInv
<1>3. ASSUME NEW w \in Workspace, WriteUntold(e, w)
      PROVE  IInv'
  <2>1. /\ file[w] < MaxVersion /\ file' = [file EXCEPT ![w] = @ + 1]
        /\ untold' = [untold EXCEPT ![w] = file[w] + 1]
        /\ UNCHANGED <<context, shared, generation, known, lock, stage, started, version,
                       tagged, editing, floor, settled>>
    BY <1>3 DEF WriteUntold, registryVars, buildVars, historyVars, IInv, Types
  <2>2. Types'
    BY <2>1 DEF IInv, Types
  <2>3. \A x \in Workspace : Unsettled(x) <=> Unsettled(x)'
    BY <2>1 DEF Unsettled
  <2>4. Held' /\ Begun' /\ Floors' /\ ColdWhileBuilt'
    BY <2>1 DEF IInv, Held, Begun, Floors, ColdWhileBuilt
  <2>5. Loaded' /\ RegistryFresh'
    BY <2>1, <2>3 DEF IInv, Types, Loaded, RegistryFresh, Told
  <2>6. Settled' /\ Told'
    BY <2>1 DEF IInv, Types, Settled, Told
  <2>7. Shares'
    BY <2>1, <2>3 DEF IInv, Types, Shares, Told
  <2> QED BY <2>2, <2>4, <2>5, <2>6, <2>7 DEF IInv
<1> QED BY <1>1, <1>2, <1>3

(* An invalidation leaves cold, and under a generation no build started    *)
(* with, every workspace the edit was of; the others it does not settle.   *)
LEMMA InvalidateInvariant ==
  ASSUME IInv, NEW e \in Editor, Invalidate(e) \/ InvalidateAll(e)
  PROVE  IInv'
<1>1. CASE Invalidate(e)
  <2> DEFINE w == editing[e]
  <2>1. /\ w \in Workspace
        /\ context' = [context EXCEPT ![w] = Cold]
        /\ generation' = [generation EXCEPT ![w] = @ + 1]
        /\ known' = known \cup {w}
        /\ settled' = [settled EXCEPT ![w] = file[w]]
        /\ editing' = [editing EXCEPT ![e] = Nothing]
        /\ shared' = {j \in shared : Home[j] # w}
        /\ untold' = [untold EXCEPT ![w] = 0]
        /\ UNCHANGED <<file, lock, stage, started, version, tagged, floor>>
    BY <1>1 DEF Invalidate, Drop, buildVars
  <2>2. Types'
    BY <2>1 DEF IInv, Types
  <2>3. \A x \in Workspace : x # w => (Unsettled(x)' <=> Unsettled(x))
    BY <2>1 DEF IInv, Types, Unsettled
  <2>4. Held' /\ Begun'
    BY <2>1 DEF IInv, Types, Held, Begun, Building
  <2>5. Loaded'
    BY <2>1, <2>3 DEF IInv, Types, Begun, Loaded
  <2>6. Settled' /\ Floors' /\ ColdWhileBuilt' /\ Told'
    BY <2>1 DEF IInv, Types, Settled, Floors, ColdWhileBuilt, Told
  <2>7. RegistryFresh'
    BY <2>1, <2>3 DEF IInv, Types, RegistryFresh
  <2>8. Shares'
    BY <2>1, <2>3 DEF IInv, Types, Shares
  <2> QED BY <2>2, <2>4, <2>5, <2>6, <2>7, <2>8 DEF IInv
<1>2. CASE InvalidateAll(e)
  <2>1. /\ context' = [x \in Workspace |-> Cold]
        /\ generation' = [x \in Workspace |-> IF x \in known THEN generation[x] + 1
                                              ELSE generation[x]]
        /\ settled' = file
        /\ editing' = [editing EXCEPT ![e] = Nothing]
        /\ shared' = {}
        /\ untold' = [x \in Workspace |-> 0]
        /\ UNCHANGED <<file, known, lock, stage, started, version, tagged, floor>>
    BY <1>2 DEF InvalidateAll, DropAll, buildVars
  <2>2. Types'
    BY <2>1 DEF IInv, Types
  <2>3. Held' /\ Begun'
    BY <2>1 DEF IInv, Types, Held, Begun, Building
  <2>4. Loaded'
    BY <2>1 DEF IInv, Types, Held, Begun, Loaded, Building
  <2>5. Settled' /\ Floors' /\ ColdWhileBuilt' /\ RegistryFresh' /\ Told' /\ Shares'
    BY <2>1 DEF IInv, Types, Settled, Floors, ColdWhileBuilt, RegistryFresh, Told, Shares
  <2> QED BY <2>2, <2>3, <2>4, <2>5 DEF IInv
<1> QED BY <1>1, <1>2

-----------------------------------------------------------------------------
LEMMA StepInvariant == IInv /\ [Next]_vars => IInv'
<1> SUFFICES ASSUME IInv, [Next]_vars PROVE IInv'
  OBVIOUS
<1>1. ASSUME NEW j \in Job, \/ Ask(j) \/ Reload(j) \/ GetContext(j) \/ Fail(j) \/ Finish(j)
                            \/ TagSave(j) \/ TagApply(j)
      PROVE  IInv'
  BY <1>1, AskInvariant, EndInvariant, WarmInvariant, JobMovesInvariant, RegisterInvariant,
     TagSaveInvariant, TagApplyInvariant
     DEF GetContext, JobMoves
<1>2. ASSUME NEW e \in Editor, \/ \E w \in Workspace : Edit(e, w) \/ WriteUntold(e, w)
                               \/ Invalidate(e) \/ ChangeSettings(e) \/ InvalidateAll(e)
      PROVE  IInv'
  BY <1>2, EditInvariant, InvalidateInvariant
<1>3. CASE UNCHANGED vars
  BY <1>3 DEF vars, registryVars, buildVars, tagVars, historyVars, IInv, Types, Held, Begun, Loaded,
     Settled, Floors, Told, Shares, RegistryFresh, ColdWhileBuilt, Unsettled
<1> QED BY <1>1, <1>2, <1>3 DEF Next

THEOREM ContextsInvariant == Spec => []IInv
<1>1. Init => IInv
  BY InitInvariant
<1>2. IInv /\ [Next]_vars => IInv'
  BY StepInvariant
<1> QED BY <1>1, <1>2, PTL DEF Spec

(* The registry is fresh: a warm context is the one of the files, unless   *)
(* an edit stands between its write and its invalidation, whatever builds  *)
(* were under way when the files changed.                                  *)
THEOREM RegistryIsFresh == Spec => []RegistryFresh
<1>1. IInv => RegistryFresh
  BY DEF IInv
<1> QED BY <1>1, ContextsInvariant, PTL

(* No workspace is built while it is warm, by any number of jobs. *)
THEOREM BuiltOnlyCold == Spec => []ColdWhileBuilt
<1>1. IInv => ColdWhileBuilt
  BY DEF IInv
<1> QED BY <1>1, ContextsInvariant, PTL

(* A job gets nothing older than an edit that was over before it asked. *)
THEOREM NothingOlder == Spec => []NothingOlderIsGiven
<1>1. IInv => NothingOlderIsGiven
  BY DEF IInv, Floors, NothingOlderIsGiven
<1> QED BY <1>1, ContextsInvariant, PTL
-----------------------------------------------------------------------------
(* The order of use *)

HIDE ContextsAssumption

LEMMA Room == MaxContexts \in Nat \ {0} /\ Home \in [Job -> Workspace]
BY ContextsAssumption

Places(s) == 1..Len(s)
Once(s) == \A i, k \in Places(s) : s[i] = s[k] => i = k
Listed(s) == {s[i] : i \in Places(s)}

(* The order names each warm workspace once and nothing else, and there is *)
(* room for all of them: one eviction is enough.                           *)
Warm == {w \in Workspace : context[w] # Cold}
InOrder == /\ order \in Seq(Workspace) /\ Once(order)
           /\ Listed(order) = Warm
           /\ Len(order) <= MaxContexts

LEMMA RemovedShape ==
  ASSUME NEW S, NEW s \in Seq(S), Once(s), NEW w
  PROVE  \/ w \notin Listed(s) /\ RemoveFirst(s, w) = s
         \/ \E n \in Places(s) : /\ s[n] = w
                                 /\ RemoveFirst(s, w) =
                                      SubSeq(s, 1, n - 1) \o SubSeq(s, n + 1, Len(s))
<1>1. CASE w \notin Listed(s)
  BY <1>1, Zenon DEF RemoveFirst, Listed, Places
<1>2. CASE w \in Listed(s)
  <2>1. PICK n \in 1..Len(s) : s[n] = w
    BY <1>2 DEF Listed, Places
  <2> DEFINE I == {i \in 1..Len(s) : s[i] = w}
  <2>2. I = {n}
    BY <2>1 DEF Once, Places
  <2>3. SelectInSeq(s, LAMBDA v : v = w) = IF I # {} THEN Min(I) ELSE 0
    BY DEF SelectInSeq
  <2>4. Min(I) = n
    <3> HIDE DEF I
    <3>1. n \in I /\ \A y \in I : n <= y
      BY <2>1, <2>2
    <3>2. Min(I) \in I
      BY <3>1 DEF Min
    <3> QED BY <3>2, <2>2
  <2> QED BY <2>1, <2>2, <2>3, <2>4 DEF RemoveFirst, RemoveAt, Places
<1> QED BY <1>1, <1>2

LEMMA Removed ==
  ASSUME NEW S, NEW s \in Seq(S), Once(s), NEW w
  PROVE  LET t == RemoveFirst(s, w)
         IN /\ t \in Seq(S) /\ Once(t) /\ Listed(t) = Listed(s) \ {w}
            /\ Len(t) = IF w \in Listed(s) THEN Len(s) - 1 ELSE Len(s)
<1> DEFINE t == RemoveFirst(s, w)
<1>1. CASE w \notin Listed(s) /\ t = s
  BY <1>1
<1>2. ASSUME NEW n \in Places(s), s[n] = w, t = SubSeq(s, 1, n - 1) \o SubSeq(s, n + 1, Len(s))
      PROVE  /\ t \in Seq(S) /\ Once(t) /\ Listed(t) = Listed(s) \ {w}
             /\ Len(t) = Len(s) - 1 /\ w \in Listed(s)
  <2> HIDE DEF t
  <2>0. Len(s) \in Nat /\ n \in 1..Len(s)
    BY DEF Places
  <2>1. /\ t \in Seq(S) /\ Len(t) = Len(s) - 1
        /\ \A i \in 1..Len(t) : t[i] = IF i < n THEN s[i] ELSE s[i + 1]
    <3> DEFINE a == SubSeq(s, 1, n - 1)
               b == SubSeq(s, n + 1, Len(s))
    <3>1. a \in Seq(S) /\ Len(a) = n - 1 /\ \A i \in 1..(n - 1) : a[i] = s[i]
      BY <2>0
    <3>2. b \in Seq(S) /\ Len(b) = Len(s) - n /\ \A i \in 1..(Len(s) - n) : b[i] = s[i + n]
      BY <2>0
    <3>3. t = a \o b
      BY <1>2
    <3> HIDE DEF a, b
    <3>4. t \in Seq(S) /\ Len(t) = Len(s) - 1
      BY <2>0, <3>1, <3>2, <3>3
    <3>5. ASSUME NEW i \in 1..Len(t)
          PROVE  t[i] = IF i < n THEN s[i] ELSE s[i + 1]
      <4>1. t[i] = IF i <= n - 1 THEN a[i] ELSE b[i - (n - 1)]
        BY <2>0, <3>1, <3>2, <3>3, <3>4
      <4>2. CASE i < n
        BY <2>0, <3>1, <4>1, <4>2
      <4>3. CASE ~(i < n)
        <5> DEFINE m == i - (n - 1)
        <5>1. m \in 1..(Len(s) - n) /\ m + n = i + 1 /\ ~(i <= n - 1)
          BY <2>0, <3>4, <4>3
        <5> HIDE DEF m
        <5>2. b[m] = s[m + n]
          BY <3>2, <5>1
        <5> QED BY <4>1, <4>3, <5>1, <5>2 DEF m
      <4> QED BY <4>2, <4>3
    <3> QED BY <3>4, <3>5
  <2>2. Once(t)
    BY <2>0, <2>1 DEF Once, Places
  <2>3. ASSUME NEW i \in Places(t)
        PROVE  t[i] \in Listed(s) \ {w}
    <3>1. i \in Places(s) /\ i + 1 \in Places(s) /\ i \in Int /\ n \in Int
      BY <2>0, <2>1 DEF Places
    <3>2. t[i] = IF i < n THEN s[i] ELSE s[i + 1]
      BY <2>1 DEF Places
    <3>3. i < n => s[i] # s[n]
      BY <3>1 DEF Once
    <3>4. ~(i < n) => s[i + 1] # s[n]
      BY <3>1 DEF Once
    <3> QED BY <1>2, <3>1, <3>2, <3>3, <3>4 DEF Listed
  <2>4. ASSUME NEW i \in Places(s), s[i] # w
        PROVE  s[i] \in Listed(t)
    <3>1. CASE i < n
      BY <2>0, <2>1, <3>1 DEF Listed, Places
    <3>2. CASE i > n
      <4>1. i - 1 \in Places(t) /\ t[i - 1] = s[i]
        BY <2>0, <2>1, <3>2 DEF Places
      <4> QED BY <4>1 DEF Listed
    <3> QED BY <1>2, <2>4, <2>0, <3>1, <3>2 DEF Places
  <2>5. Listed(t) = Listed(s) \ {w}
    BY <2>3, <2>4 DEF Listed
  <2>6. w \in Listed(s)
    BY <1>2 DEF Listed
  <2> QED BY <2>1, <2>2, <2>5, <2>6
<1> QED BY <1>1, <1>2, RemovedShape

LEMMA LastOnce ==
  ASSUME NEW S, NEW s \in Seq(S), Once(s), NEW w \in S, w \notin Listed(s)
  PROVE  LET t == Append(s, w)
         IN t \in Seq(S) /\ Once(t) /\ Listed(t) = Listed(s) \cup {w} /\ Len(t) = Len(s) + 1
<1> DEFINE t == Append(s, w)
<1>1. /\ t \in Seq(S) /\ Len(t) = Len(s) + 1 /\ Len(s) \in Nat
      /\ t[Len(s) + 1] = w /\ \A i \in 1..Len(s) : t[i] = s[i]
  OBVIOUS
<1> HIDE DEF t
<1>2. \A i \in 1..Len(s) : s[i] # w
  BY DEF Listed, Places
<1>3. Once(t)
  BY <1>1, <1>2 DEF Once, Places
<1>4. Listed(t) = Listed(s) \cup {w}
  BY <1>1 DEF Listed, Places
<1> QED BY <1>1, <1>3, <1>4 DEF t

LEMMA TailOnce ==
  ASSUME NEW S, NEW s \in Seq(S), Once(s), s # <<>>
  PROVE  /\ Tail(s) \in Seq(S) /\ Once(Tail(s)) /\ Len(Tail(s)) = Len(s) - 1
         /\ Listed(Tail(s)) \subseteq Listed(s)
<1> DEFINE t == Tail(s)
<1>1. /\ t \in Seq(S) /\ Len(t) = Len(s) - 1 /\ Len(s) \in Nat
      /\ \A i \in 1..Len(t) : t[i] = s[i + 1] /\ i + 1 \in 1..Len(s)
  OBVIOUS
<1> HIDE DEF t
<1>2. Once(t)
  BY <1>1 DEF Once, Places
<1>3. Listed(t) \subseteq Listed(s)
  BY <1>1 DEF Listed, Places
<1> QED BY <1>1, <1>2, <1>3 DEF t

(* What a hit does: the workspace is warm, and moves to the end. *)
LEMMA RecentOnce ==
  ASSUME InOrder, NEW w \in Workspace
  PROVE  /\ Recent(w) \in Seq(Workspace) /\ Once(Recent(w)) /\ Listed(Recent(w)) = Warm \cup {w}
         /\ Len(Recent(w)) = IF w \in Warm THEN Len(order) ELSE Len(order) + 1
<1> DEFINE s == Without(w)
<1>1. /\ s \in Seq(Workspace) /\ Once(s) /\ Listed(s) = Warm \ {w}
      /\ Len(s) = IF w \in Warm THEN Len(order) - 1 ELSE Len(order)
  BY Removed DEF InOrder, Without
<1> HIDE DEF s
<1>2. /\ Append(s, w) \in Seq(Workspace) /\ Once(Append(s, w))
      /\ Listed(Append(s, w)) = Listed(s) \cup {w} /\ Len(Append(s, w)) = Len(s) + 1
  BY <1>1, LastOnce
<1>3. Len(order) \in Nat
  BY DEF InOrder
<1> QED BY <1>1, <1>2, <1>3 DEF Recent, s

LEMMA HitKeepsOrder ==
  ASSUME InOrder, NEW j \in Job, TakeWarm(j), UNCHANGED context
  PROVE  InOrder'
<1>1. Home[j] \in Workspace /\ Home[j] \in Warm /\ Warm' = Warm
  BY Room DEF TakeWarm, Warm
<1>2. /\ Recent(Home[j]) \in Seq(Workspace) /\ Once(Recent(Home[j]))
      /\ Listed(Recent(Home[j])) = Warm \cup {Home[j]} /\ Len(Recent(Home[j])) = Len(order)
  BY <1>1, RecentOnce
<1>3. order' = Recent(Home[j])
  BY DEF TakeWarm
<1> QED BY <1>1, <1>2, <1>3 DEF InOrder

LEMMA DropKeepsOrder ==
  ASSUME InOrder, context \in [Workspace -> {Cold} \cup 0..MaxVersion],
         NEW w \in Workspace, Drop(w)
  PROVE  InOrder'
<1>1. Warm' = Warm \ {w}
  BY DEF Drop, Warm
<1>2. /\ Without(w) \in Seq(Workspace) /\ Once(Without(w)) /\ Listed(Without(w)) = Warm \ {w}
      /\ Len(Without(w)) <= Len(order)
  BY Removed DEF InOrder, Without
<1> QED BY Room, <1>1, <1>2 DEF Drop, InOrder

(* A registration leaves warm what the order keeps. *)
LEMMA RegisteredKeepsOrder ==
  ASSUME InOrder, context \in [Workspace -> {Cold} \cup 0..MaxVersion],
         NEW j \in Job, NEW w \in Workspace, NEW v \in 0..MaxVersion, Registered(j, w, v)
  PROVE  InOrder'
<1> DEFINE r == Recent(w)
           kept == Fitting(r)
<1>1. /\ r \in Seq(Workspace) /\ Once(r) /\ Listed(r) = Warm \cup {w}
      /\ Len(r) <= MaxContexts + 1 /\ Len(order) \in Nat
  BY Room, RecentOnce DEF InOrder
<1> HIDE DEF r
<1>2. /\ kept \in Seq(Workspace) /\ Once(kept) /\ Len(kept) <= MaxContexts
      /\ Listed(kept) \subseteq Warm \cup {w}
  <2>1. CASE Len(r) > MaxContexts
    BY Room, <1>1, <2>1, TailOnce DEF Fitting
  <2>2. CASE ~(Len(r) > MaxContexts)
    BY Room, <1>1, <2>2 DEF Fitting
  <2> QED BY <2>1, <2>2
<1>3. order' = kept /\ context' = [x \in Workspace |-> IF x \notin Range(kept) THEN Cold
                                                      ELSE IF x = w THEN v ELSE context[x]]
  BY DEF Registered, r
<1> HIDE DEF kept
<1>4. Range(kept) = Listed(kept)
  BY <1>2 DEF Range, Listed, Places
<1>5. \A x \in Workspace : context'[x] # Cold <=> x \in Listed(kept)
  BY <1>2, <1>3, <1>4 DEF Warm, Cold
<1>6. Warm' = Listed(kept)
  BY <1>2, <1>5 DEF Warm
<1> QED BY <1>2, <1>3, <1>6 DEF InOrder

LEMMA InOrderStep ==
  ASSUME IInv, InOrder, [Next]_vars
  PROVE  InOrder'
<1>0. context \in [Workspace -> {Cold} \cup 0..MaxVersion]
  BY DEF IInv, Types
<1>1. ASSUME NEW j \in Job, \/ Ask(j) \/ Reload(j) \/ GetContext(j) \/ Fail(j) \/ Finish(j)
                            \/ TagSave(j) \/ TagApply(j)
      PROVE  InOrder'
  <2>1. CASE Reload(j)
    BY Room, <1>0, <2>1, DropKeepsOrder DEF Reload
  <2>2. CASE LookWarm(j) \/ LockedWarm(j)
    BY <2>2, HitKeepsOrder DEF LookWarm, LockedWarm
  <2>3. CASE Register(j)
    <3>1. CASE Registered(j, Home[j], version[j])
      BY Room, <1>0, <3>1, RegisteredKeepsOrder DEF IInv, Types
    <3>2. CASE UNCHANGED registryVars
      BY <3>2 DEF registryVars, InOrder, Warm
    <3> QED BY <2>3, <3>1, <3>2 DEF Register
  <2>4. CASE Ask(j) \/ LookCold(j) \/ Lock(j) \/ LockedCold(j) \/ Start(j) \/ Load(j)
             \/ Fail(j) \/ Finish(j) \/ TagSave(j)
    <3>1. UNCHANGED <<context, order>>
      BY <2>4 DEF Ask, LookCold, Lock, LockedCold, Start, Load, Fail, Finish, TagSave, registryVars
    <3> QED BY <3>1 DEF InOrder, Warm
  <2>5. CASE TagApply(j)
    <3>1. order' = order /\ Warm' = Warm
      BY Room, <1>0, <2>5 DEF TagApply, Warm, IInv, Types, Shares, Cold
    <3> QED BY <3>1 DEF InOrder
  <2> QED BY <1>1, <2>1, <2>2, <2>3, <2>4, <2>5 DEF GetContext
<1>2. ASSUME NEW e \in Editor, \/ \E w \in Workspace : Edit(e, w) \/ WriteUntold(e, w)
                               \/ Invalidate(e) \/ ChangeSettings(e) \/ InvalidateAll(e)
      PROVE  InOrder'
  <2>1. CASE Invalidate(e)
    BY <1>0, <2>1, DropKeepsOrder DEF Invalidate
  <2>2. CASE InvalidateAll(e)
    <3>1. order' = <<>> /\ Warm' = {}
      BY <2>2 DEF InvalidateAll, DropAll, Warm
    <3> QED BY Room, <3>1 DEF InOrder, Once, Listed, Places
  <2>3. CASE ChangeSettings(e) \/ \E w \in Workspace : Edit(e, w) \/ WriteUntold(e, w)
    BY <2>3 DEF ChangeSettings, Edit, WriteUntold, registryVars, InOrder, Warm
  <2> QED BY <1>2, <2>1, <2>2, <2>3
<1>3. CASE UNCHANGED vars
  BY <1>3 DEF vars, registryVars, InOrder, Warm
<1> QED BY <1>1, <1>2, <1>3 DEF Next

(* The registry never holds more contexts than there is room for, and its  *)
(* order of use is one of exactly the warm workspaces: the eviction finds  *)
(* who to take out, and takes out one at most (_evict, _warm).             *)
THEOREM RegistryInOrder == Spec => []InOrder
<1>1. Init => InOrder
  BY Room DEF Init, InOrder, Once, Listed, Places, Warm
<1>2. IInv /\ InOrder /\ [Next]_vars => InOrder'
  BY InOrderStep
<1> QED BY <1>1, <1>2, ContextsInvariant, PTL DEF Spec

(* Every variable stays of its type, the order of use and the reloads      *)
(* included.                                                               *)
THEOREM TypeCorrect == Spec => []TypeOK
<1> USE ContextsAssumption
<1> DEFINE Reloads == reloads \in 0..MaxReloads
<1>1. Init => Reloads
  BY DEF Init
<1>2. Reloads /\ [Next]_vars => Reloads'
  <2> SUFFICES ASSUME Reloads, [Next]_vars PROVE Reloads'
    OBVIOUS
  <2>1. reloads' = reloads \/ (reloads < MaxReloads /\ reloads' = reloads + 1)
    BY DEF Next, vars, historyVars, GetContext, Ask, Reload, LookWarm, LookCold, Lock, LockedWarm,
       LockedCold, Start, Load, Register, Fail, Finish, TagSave, TagApply, Edit, WriteUntold,
       Invalidate, ChangeSettings, InvalidateAll
  <2> QED BY <2>1
<1>3. IInv /\ InOrder /\ Reloads => TypeOK
  BY DEF IInv, Types, InOrder, TypeOK
<1> QED BY <1>1, <1>2, <1>3, ContextsInvariant, RegistryInOrder, PTL DEF Spec
=============================================================================
