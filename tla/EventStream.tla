---------------------------- MODULE EventStream ----------------------------
(***************************************************************************)
(* The live stream: server/jobs/bus.py (EventBus), the socket handler of   *)
(* server/core/routes/stream.py and the browser's end in                   *)
(* web/src/state/runStore.ts, for one tab of one account.                  *)
(*                                                                         *)
(* Threads publish: each numbers its event under the bus's lock and hands  *)
(* it to the asyncio loop after leaving the lock.  The loop puts it on the *)
(* subscriber's queue, the handler takes it from there and sends it.  A    *)
(* message lost in flight when a connection drops is the same as one never *)
(* sent, because the server forgets the connection: sending and applying   *)
(* are one step.  Events are named by their seq; the buffer holds the last *)
(* BufferSize of them, so its content follows from seq.                    *)
(***************************************************************************)
EXTENDS Integers, Sequences, FiniteSets

CONSTANTS
    Publisher,   \* threads that publish
    BufferSize,  \* EVENT_BUFFER_SIZE
    QueueSize,   \* maxsize of a subscriber's queue
    ColdLimit,   \* COLD_REPLAY_LIMIT
    MaxSeq,      \* bound: events published by one server process
    MaxBreaks,   \* bound: connections lost and pages reloaded
    MaxRestarts  \* bound: restarts of the server process

ASSUME SizeAssumption == /\ BufferSize \in Nat \ {0}
                         /\ QueueSize \in Nat \ {0}
                         /\ ColdLimit \in Nat \ {0}
                         /\ MaxSeq \in Nat /\ MaxBreaks \in Nat /\ MaxRestarts \in Nat

Seqs == 1..MaxSeq

VARIABLES
    seq,       \* EventBus._seq
    class,     \* class[s]: "durable", "token", "hidden" from this account, or
               \* "closed": membership.closed of this account, which no tab sees
    handing,   \* handing[p]: event numbered by p and not yet handed on, or 0
    loop,      \* callbacks waiting in the asyncio loop, oldest first
    queue,     \* the subscriber's asyncio queue
    socket,    \* "closed", "subscribed" (handler not yet awaiting) or "live"
    since,     \* ?since= of the handshake
    delivered, \* the handler's local of that name
    lastSeq,   \* the tab's StreamState.lastSeq
    gap,       \* the tab's StreamState.gap
    applied,   \* history: events of this server process the tab applied
    owed,      \* history: events after this one are owed to the tab
    spared,    \* history: events trimmed from this connection's cold replay
    dropped,   \* history: events a full queue dropped
    late,      \* history: events handed to the loop after a newer one
    stale,     \* history: seq the tab carried over a restart of the server
    breaks,    \* connections lost and reloads so far
    restarts   \* restarts so far

busVars == <<seq, class, handing, loop>>
socketVars == <<queue, socket, since, delivered>>
tabVars == <<lastSeq, gap, applied>>
connectionHistory == <<owed, spared, dropped>>
historyVars == <<connectionHistory, late, stale>>
countVars == <<breaks, restarts>>
vars == <<busVars, socketVars, tabVars, historyVars, countVars>>

Classes == {"durable", "token", "hidden", "closed"}
Seen == {"durable", "token"}

TypeOK == /\ seq \in 0..MaxSeq
          /\ class \in [Seqs -> Classes]
          /\ handing \in [Publisher -> 0..MaxSeq]
          /\ loop \in Seq(Seqs)
          /\ queue \in Seq(Seqs) /\ Len(queue) <= QueueSize
          /\ socket \in {"closed", "subscribed", "live"}
          /\ {since, delivered, lastSeq, owed, stale} \subseteq 0..MaxSeq
          /\ gap \in BOOLEAN
          /\ {applied, spared, dropped, late} \subseteq SUBSET Seqs
          /\ breaks \in 0..MaxBreaks
          /\ restarts \in 0..MaxRestarts

Init == /\ seq = 0
        /\ class = [s \in Seqs |-> "durable"]
        /\ handing = [p \in Publisher |-> 0]
        /\ loop = <<>>
        /\ queue = <<>>
        /\ socket = "closed"
        /\ since = 0
        /\ delivered = 0
        /\ lastSeq = 0
        /\ gap = FALSE
        /\ applied = {}
        /\ owed = 0
        /\ spared = {}
        /\ dropped = {}
        /\ late = {}
        /\ stale = 0
        /\ breaks = 0
        /\ restarts = 0

-----------------------------------------------------------------------------
(* The bus *)

Oldest == IF seq > BufferSize THEN seq - BufferSize + 1 ELSE 1
Buffered == Oldest..seq
Visible(s) == class[s] \in Seen

(* _publish under the lock: the event is numbered and buffered. *)
Number(p, c) == /\ handing[p] = 0
                /\ seq < MaxSeq
                /\ seq' = seq + 1
                /\ class' = [class EXCEPT ![seq + 1] = c]
                /\ handing' = [handing EXCEPT ![p] = seq + 1]
                /\ UNCHANGED <<loop, socketVars, tabVars, historyVars, countVars>>

(* _fan_out outside it: handed to whoever is subscribed now. *)
FanOut(p) == /\ handing[p] # 0
             /\ handing' = [handing EXCEPT ![p] = 0]
             /\ loop' = IF socket = "closed" THEN loop ELSE Append(loop, handing[p])
             /\ late' = IF \E s \in (handing[p] + 1)..seq : \A q \in Publisher : handing[q] # s
                        THEN late \cup {handing[p]} ELSE late
             /\ UNCHANGED <<seq, class, socketVars, tabVars, connectionHistory, stale, countVars>>

(* Slips of _offer: the newcomer is the one dropped; the bound is gone.    *)
OfferDropsNewest == /\ socket = "live"
                    /\ loop # <<>>
                    /\ loop' = Tail(loop)
                    /\ IF Len(queue) = QueueSize
                       THEN /\ dropped' = dropped \cup {Head(loop)}
                            /\ UNCHANGED queue
                       ELSE /\ queue' = Append(queue, Head(loop))
                            /\ UNCHANGED dropped
                    /\ UNCHANGED <<seq, class, handing, socket, since, delivered, tabVars,
                                   owed, spared, late, stale, countVars>>
OfferUnbounded == /\ socket = "live"
                  /\ loop # <<>>
                  /\ loop' = Tail(loop)
                  /\ queue' = Append(queue, Head(loop))
                  /\ UNCHANGED <<seq, class, handing, socket, since, delivered, tabVars,
                                 historyVars, countVars>>

(* _offer on the loop, while the handler awaits: a full queue drops its    *)
(* oldest.                                                                 *)
Offer == /\ socket = "live"
         /\ loop # <<>>
         /\ loop' = Tail(loop)
         /\ IF Len(queue) = QueueSize
            THEN /\ queue' = Append(Tail(queue), Head(loop))
                 /\ dropped' = dropped \cup {Head(queue)}
            ELSE /\ queue' = Append(queue, Head(loop))
                 /\ UNCHANGED dropped
         /\ UNCHANGED <<seq, class, handing, socket, since, delivered, tabVars, owed, spared,
                        late, stale, countVars>>

-----------------------------------------------------------------------------
(* The socket handler and the tab *)

(* The tab connects; the handler subscribes before it replays. *)
Connect == /\ socket = "closed"
           /\ socket' = "subscribed"
           /\ since' = lastSeq
           /\ queue' = <<>>
           /\ loop' = <<>>
           /\ UNCHANGED <<seq, class, handing, delivered, tabVars, historyVars, countVars>>

(* Slip of replay: what is another account's is replayed as well.          *)
ReplayedUnfiltered == {s \in Buffered : s > since}

(* replay: the buffered events after since this account may see. *)
Replayed == {s \in Buffered : s > since /\ Visible(s)}

Newest(S) == CHOOSE s \in S : \A t \in S : t <= s

(* The last ColdLimit of S. *)
LastOf(S) == {s \in S : Cardinality({t \in S : t > s}) < ColdLimit}

(* A cold connect is spared the tokens. *)
Trimmed == IF since = 0 THEN LastOf({s \in Replayed : class[s] # "token"}) ELSE Replayed

(* Slip of replay: the comparison is off by one.                           *)
GapOffByOne == seq > 0 /\ since > 0 /\ Oldest > since + 2

(* What the replay says of the events the buffer lost. *)
Gap == seq > 0 /\ since > 0 /\ Oldest > since + 1

(* How far delivery has got: read before the cold trim. *)
Reached == IF Replayed # {} THEN Newest(Replayed) ELSE since

(* The reducer skips what it has applied already. *)
Apply(S) == LET fresh == {s \in S : s > lastSeq}
            IN /\ applied' = applied \cup fresh
               /\ lastSeq' = IF fresh # {} THEN Newest(fresh) ELSE lastSeq

(* _backlog, stream.ready and the tab's reading of it. *)
Replay == /\ socket = "subscribed"
          /\ socket' = "live"
          /\ delivered' = Reached
          /\ Apply(Trimmed)
          /\ gap' = Gap
          /\ owed' = IF since = 0 THEN seq ELSE IF Gap THEN Oldest - 1 ELSE owed
          /\ spared' = Replayed \ Trimmed
          /\ UNCHANGED <<busVars, queue, since, dropped, late, stale, countVars>>

Close == /\ socket' = "closed"
         /\ queue' = <<>>
         /\ loop' = <<>>
         /\ since' = 0
         /\ delivered' = 0

(* The live loop drops what the replay covered and what is not this        *)
(* account's, and sends the rest.                                          *)
Take == /\ socket = "live"
        /\ queue # <<>>
        /\ class[Head(queue)] # "closed"
        /\ queue' = Tail(queue)
        /\ LET s == Head(queue) IN
             /\ delivered' = IF s > delivered THEN s ELSE delivered
             /\ Apply(IF s > delivered /\ Visible(s) THEN {s} ELSE {})
        /\ UNCHANGED <<busVars, socket, since, gap, historyVars, countVars>>

(* _closes: the membership ended, and the socket with it.  The tab may     *)
(* connect again when it is given back.                                    *)
TakeClosed == /\ socket = "live"
              /\ queue # <<>>
              /\ class[Head(queue)] = "closed"
              /\ Close
              /\ UNCHANGED <<seq, class, handing, tabVars, historyVars, countVars>>

(* The connection drops; the tab keeps what it has and will reconnect. *)
Disconnect == /\ socket # "closed"
              /\ breaks < MaxBreaks
              /\ breaks' = breaks + 1
              /\ Close
              /\ UNCHANGED <<seq, class, handing, tabVars, historyVars, restarts>>

(* Slip of forget: the tab keeps its place in the stream.                  *)
ReloadKeepsPlace == /\ breaks < MaxBreaks
                    /\ breaks' = breaks + 1
                    /\ Close
                    /\ gap' = FALSE
                    /\ applied' = {}
                    /\ dropped' = {}
                    /\ stale' = 0
                    /\ UNCHANGED <<seq, class, handing, lastSeq, owed, spared, late, restarts>>

(* The page is reloaded, or the tab moves to another subject: forget(). *)
Reload == /\ breaks < MaxBreaks
          /\ breaks' = breaks + 1
          /\ Close
          /\ lastSeq' = 0
          /\ gap' = FALSE
          /\ applied' = {}
          /\ dropped' = {}
          /\ stale' = 0
          /\ UNCHANGED <<seq, class, handing, owed, spared, late, restarts>>

(* The server process restarts: the bus starts again, the tab does not. *)
Restart == /\ restarts < MaxRestarts
           /\ restarts' = restarts + 1
           /\ Close
           /\ seq' = 0
           /\ class' = [s \in Seqs |-> "durable"]
           /\ handing' = [p \in Publisher |-> 0]
           /\ applied' = {}
           /\ owed' = 0
           /\ spared' = {}
           /\ dropped' = {}
           /\ late' = {}
           /\ stale' = lastSeq
           /\ UNCHANGED <<lastSeq, gap, breaks>>

Next == \/ \E p \in Publisher : FanOut(p) \/ \E c \in Classes : Number(p, c)
        \/ Offer \/ Connect \/ Replay \/ Take \/ TakeClosed \/ Disconnect \/ Reload \/ Restart

Spec == Init /\ [][Next]_vars

-----------------------------------------------------------------------------
(* Properties *)

(* Nothing is on its way to a connected tab. *)
Drained == /\ socket = "live"
           /\ loop = <<>> /\ queue = <<>>
           /\ \A p \in Publisher : handing[p] = 0

(* The events of this server process a connected tab should have: those    *)
(* this account may see, since its cold connect or the gap it was told of, *)
(* less what its own full queue dropped.                                   *)
Owed == {s \in (owed + 1)..seq : class[s] \in Seen /\ s \notin dropped}

(* A tab that has been sent all there is misses nothing it is owed but     *)
(* what a slower thread handed over after a newer event, and what carries  *)
(* a number the tab had already seen before the server restarted:          *)
(* subscribing before the replay, and dropping by delivered what both      *)
(* carry, leaves no other hole (_backlog and the live loop).               *)
HolesExplained == Drained => \A s \in Owed : s \in applied \/ s \in late \/ s <= stale

(* However slow the tab, the last event of all reaches it, unless threads  *)
(* overtook each other on the way to the loop or it carries a number of    *)
(* the server before: what a full queue gives up is older (_offer).        *)
NewestArrives == (/\ Drained
                  /\ late = {}
                  /\ seq > owed /\ seq > stale
                  /\ class[seq] \in Seen)
                 => seq \in applied

(* The tab applies each event once, newest last, and none of another       *)
(* account (visible, the live loop, apply).                                *)
InOrder == [][\A s \in applied' \ applied :
    class[s] \in Seen /\ \A t \in applied : t < s]_vars
=============================================================================
