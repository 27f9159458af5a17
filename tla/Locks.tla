------------------------------- MODULE Locks -------------------------------
(***************************************************************************)
(* The read-write locks that the goroutines of the plugin share: PeersLock *)
(* of the node, and channelsLock, adjacencyListLock and aliasesLock of the *)
(* graph, with the maps they protect.                                      *)
(*                                                                         *)
(* A goroutine is a sequence of sections, each a script of lock operations *)
(* and map accesses; between two sections it holds no lock, so that a      *)
(* process that repeatedly chooses any section covers all goroutines.      *)
(*                                                                         *)
(* A lock is Go's sync.RWMutex: a writer that asked for the lock keeps new *)
(* readers out, and its Unlock lets in all the readers that wait.          *)
(*                                                                         *)
(* A definition that stands before the one it resembles and is used by no  *)
(* other is a faulty variant, kept to show that a property would notice    *)
(* it.                                                                     *)
(***************************************************************************)
EXTENDS Naturals, Sequences, FiniteSets

CONSTANTS
    Process,    \* goroutines: RPC handlers, their workers, cron jobs, notifications
    NoProcess,
    Sections    \* names of the sections that run

Lock == {"peers", "channels", "adjacency", "aliases"}
Map == {"Peers", "Channels", "Inbound", "Aliases"}

---------------------------------------------------------------------------
(* Scripts *)

Step(do, on) == [do |-> do, on |-> on]

Reading(lock, body) == <<Step("RLock", lock)>> \o body \o <<Step("RUnlock", lock)>>
Writing(lock, body) == <<Step("Lock", lock)>> \o body \o <<Step("Unlock", lock)>>
Read(map) == <<Step("Read", map)>>
Write(map) == <<Step("Write", map)>>

\* The lookups of peers.go, GetBestPeerChannel, HasPeer and the others.
LookupPeer == Reading("peers", Read("Peers"))

\* validatePeers goes through the map GetPeers returns without PeersLock: it looks
\* at its length and then for either node.
ValidatePeers == Read("Peers") \o Read("Peers") \o Read("Peers")

\* Graph.GetChannel.
GetChannel == Reading("channels", Read("Channels"))

\* GetOutgoingChannelFromScid and GetIncomingChannelFromScid.
GetChannelFromScid == LookupPeer \o GetChannel

\* UpdateChannelBalance, OnConnect and OnDisconnect change a peer of the map.
ChangePeer == Writing("peers", Read("Peers"))

RefreshPeers == Writing("peers", Write("Peers"))

\* FindCandidates, for a candidate: IsGoodCandidate takes PeersLock again.
FindCandidates ==
    Reading("peers", Read("Peers") \o GetChannelFromScid \o GetChannel)

RefreshChannelsHalfLocked == Writing("adjacency", Write("Channels") \o Write("Inbound"))
RefreshChannels ==
    Writing("channels", Writing("adjacency", Write("Channels") \o Write("Inbound")))

\* PruneChannels edits the adjacency list without adjacencyListLock.
PruneChannels == Writing("channels", Write("Channels") \o Write("Inbound"))

RefreshAliases == Writing("aliases", Write("Aliases"))

\* serializeToFile takes all the locks of the graph.
SerializeToFileReversed ==
    Writing("aliases", Writing("adjacency", Writing("channels", Read("Channels"))))
SerializeToFile ==
    Writing("channels", Writing("adjacency", Writing("aliases", Read("Channels"))))

RefreshLiquidity == Writing("channels", Read("Channels"))

Dijkstra ==
    Reading("channels", Reading("adjacency", Read("Inbound") \o Read("Channels")))

\* GetStats of the graph, which unlocks in the order it locked ...
GraphStats ==
    <<Step("RLock", "channels"), Step("RLock", "adjacency")>>
        \o Read("Channels") \o Read("Inbound")
        \o <<Step("RUnlock", "channels"), Step("RUnlock", "adjacency")>>

\* ... and of the node, which holds PeersLock meanwhile.
GetStatsWithLookup == Reading("peers", LookupPeer \o GraphStats)
GetStats == Reading("peers", GraphStats)

\* AddSuccess reads the alias of the peer under the lock for writing.
AddSuccess == Writing("aliases", Read("Aliases"))

GetAlias == Reading("aliases", Read("Aliases"))

Script ==
    [LookupPeer       |-> LookupPeer,
     ValidatePeers    |-> ValidatePeers,
     GetChannel       |-> GetChannel,
     ChangePeer       |-> ChangePeer,
     RefreshPeers     |-> RefreshPeers,
     FindCandidates   |-> FindCandidates,
     RefreshChannels  |-> RefreshChannels,
     PruneChannels    |-> PruneChannels,
     RefreshAliases   |-> RefreshAliases,
     SerializeToFile  |-> SerializeToFile,
     RefreshLiquidity |-> RefreshLiquidity,
     Dijkstra         |-> Dijkstra,
     GetStats         |-> GetStats,
     AddSuccess       |-> AddSuccess,
     GetAlias         |-> GetAlias]

ASSUME SectionsAssumption == Sections \subseteq DOMAIN Script
ASSUME ProcessAssumption == NoProcess \notin Process

---------------------------------------------------------------------------

VARIABLES
    todo,     \* what is left of the section each process runs
    readers,  \* how often each process holds each lock for reading
    writer,   \* the process that holds a lock for writing, or asked for it
    waiting   \* the readers that wait for that writer

vars == <<todo, readers, writer, waiting>>

Init ==
    /\ todo = [p \in Process |-> <<>>]
    /\ readers = [l \in Lock |-> [p \in Process |-> 0]]
    /\ writer = [l \in Lock |-> NoProcess]
    /\ waiting = [l \in Lock |-> {}]

Busy(p) == todo[p] # <<>>
At(p, do, on) == Busy(p) /\ Head(todo[p]) = Step(do, on)
Advance(P) == todo' = [p \in Process |-> IF p \in P THEN Tail(todo[p]) ELSE todo[p]]

Start(p) ==
    /\ ~Busy(p)
    /\ \E name \in Sections : todo' = [todo EXCEPT ![p] = Script[name]]
    /\ UNCHANGED <<readers, writer, waiting>>

RLock(p, l) ==
    /\ At(p, "RLock", l)
    /\ writer[l] = NoProcess
    /\ readers' = [readers EXCEPT ![l][p] = @ + 1]
    /\ Advance({p})
    /\ UNCHANGED <<writer, waiting>>

\* RLock after a writer asked for the lock, even for a process that reads already.
RLockBlocks(p, l) ==
    /\ At(p, "RLock", l)
    /\ writer[l] # NoProcess
    /\ p \notin waiting[l]
    /\ waiting' = [waiting EXCEPT ![l] = @ \cup {p}]
    /\ UNCHANGED <<todo, readers, writer>>

RUnlock(p, l) ==
    /\ At(p, "RUnlock", l)
    /\ readers' = [readers EXCEPT ![l][p] = @ - 1]
    /\ Advance({p})
    /\ UNCHANGED <<writer, waiting>>

\* Lock first keeps other writers and new readers out ...
LockAsks(p, l) ==
    /\ At(p, "Lock", l)
    /\ writer[l] = NoProcess
    /\ writer' = [writer EXCEPT ![l] = p]
    /\ UNCHANGED <<todo, readers, waiting>>

\* ... and returns when the readers it found have left.
LockReturns(p, l) ==
    /\ At(p, "Lock", l)
    /\ writer[l] = p
    /\ \A q \in Process : readers[l][q] = 0
    /\ Advance({p})
    /\ UNCHANGED <<readers, writer, waiting>>

\* Unlock lets the waiting readers in before another writer may ask.
Unlock(p, l) ==
    /\ At(p, "Unlock", l)
    /\ writer' = [writer EXCEPT ![l] = NoProcess]
    /\ readers' = [readers EXCEPT ![l] =
                     [q \in Process |-> IF q \in waiting[l] THEN @[q] + 1 ELSE @[q]]]
    /\ waiting' = [waiting EXCEPT ![l] = {}]
    /\ Advance({p} \cup waiting[l])

\* The end of an access to a map that began when it became the next step.
Access(p, m) ==
    /\ At(p, "Read", m) \/ At(p, "Write", m)
    /\ Advance({p})
    /\ UNCHANGED <<readers, writer, waiting>>

Proceed(p) ==
    \/ \E l \in Lock : \/ RLock(p, l) \/ RLockBlocks(p, l) \/ RUnlock(p, l)
                       \/ LockReturns(p, l) \/ Unlock(p, l)
    \/ \E m \in Map : Access(p, m)

Asks(p) == \E l \in Lock : LockAsks(p, l)

Next == \E p \in Process : Start(p) \/ Proceed(p) \/ Asks(p)

Spec == Init /\ [][Next]_vars

\* Goroutines in a section are scheduled.  Writers compete for a mutex whose
\* starvation mode serves each in the end: strong fairness.
FairSpec ==
    /\ Spec
    /\ \A p \in Process : WF_vars(Proceed(p)) /\ SF_vars(Asks(p))

---------------------------------------------------------------------------
(* Properties *)

\* A goroutine in what is left of validatePeers; what is left of another section
\* ends with an unlock.
Validates(p) ==
    todo[p] \in {ValidatePeers, Tail(ValidatePeers), Tail(Tail(ValidatePeers))}

\* Go ends a program that writes a map while another goroutine accesses it.
\* validatePeers is exposed to that by refreshPeers, for it takes no lock.  It is
\* alone in this: whatever else runs together, the locks each section takes, and
\* PruneChannels takes one less, keep a write alone.
OnlyValidatePeersRaces ==
    \A m \in Map, p, q \in Process :
        p # q /\ At(p, "Write", m) =>
            /\ ~At(q, "Write", m)
            /\ At(q, "Read", m) => m = "Peers" /\ Validates(q)

Before(l) ==
    CASE l = "peers" -> {}
      [] l = "channels" -> {"peers"}
      [] l = "adjacency" -> {"peers", "channels"}
      [] l = "aliases" -> {"peers", "channels", "adjacency"}

Holds(p, l) == readers[l][p] > 0 \/ (writer[l] = p /\ ~At(p, "Lock", l))

\* Locks are taken in one order, and never again while they are held.
LocksInOrder ==
    \A p \in Process, l \in Lock :
        At(p, "RLock", l) \/ At(p, "Lock", l) =>
            \A held \in Lock : Holds(p, held) => held \in Before(l)

\* No goroutine waits for ever: every section that begins ends.
SectionsEnd == \A p \in Process : Busy(p) ~> ~Busy(p)

\* The peer list is refreshed: a refreshPeers that began completes.
PeersRefreshed ==
    \A p \in Process : At(p, "Lock", "peers") ~> ~Busy(p)
=============================================================================
