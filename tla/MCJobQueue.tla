---------------------------- MODULE MCJobQueue -----------------------------
(* Small instances of JobQueue for TLC. *)
EXTENDS JobQueue, TLC

CONSTANTS turn, batch, build, other

(* Three jobs for the remote lane, whose room is 2 or 1, one of which, a   *)
(* build, needs the GPU too and may be followed by the batch.              *)
WideJobs == {turn, batch, build}
WideClass == (turn :> 0) @@ (batch :> 1) @@ (build :> 2)
WideBackends == (turn :> {"remote"}) @@ (batch :> {"remote"}) @@ (build :> {"local", "remote"})
WideLinks == (turn :> {}) @@ (batch :> {}) @@ (build :> {batch})

(* Two interactive jobs that keep coming back, one per lane, and a build   *)
(* that needs both lanes at once.                                          *)
RivalJobs == {turn, other, build}
RivalClass == (turn :> 0) @@ (other :> 0) @@ (build :> 2)
RivalBackends == (turn :> {"remote"}) @@ (other :> {"local"}) @@ (build :> {"local", "remote"})
RivalLinks == [j \in RivalJobs |-> {}]
=============================================================================

