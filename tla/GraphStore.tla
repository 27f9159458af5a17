----------------------------- MODULE GraphStore -----------------------------
(***************************************************************************)
(* The graph in memory (graph/graph.go) and the jobs that keep it: every   *)
(* refreshGraph of node/cron.go takes the channels lightningd knows,       *)
(* prunes what got old and saves the rest; refreshLiquidity forgets old    *)
(* beliefs; a start loads the file and builds the adjacency list anew.     *)
(*                                                                         *)
(* The graph is held twice: Channels, which is saved, and Inbound, which   *)
(* path finding walks and which is not.  cron starts a job though the last *)
(* one still runs, so an answer of ListChannels may be stored after a      *)
(* newer one.  The file is what DurableGraph promises of it: a save takes  *)
(* effect at once or not at all.                                           *)
(*                                                                         *)
(* A channel is a short channel id with a direction.  Time is counted in   *)
(* ticks.  As in ParallelRebalance, an operator that stands before the one *)
(* it resembles and is used by no action is a faulty variant of it.        *)
(***************************************************************************)
EXTENDS Integers, Sequences

CONSTANTS
    Id,               \* channels
    Edge,             \* pairs of nodes
    EdgeOf,           \* the pair each channel leads from and to
    Files,            \* what an earlier version may have left in graph.json
    Job,              \* runs of refreshGraph that may overlap
    NoJob,
    PRUNING_INTERVAL,
    LiquidityRefresh, \* the option circular-liquidity-refresh
    MaxTime,          \* bound on the clock
    LastClose,        \* channels close until then
    MaxCrashes        \* bound on the crashes

ASSUME EdgesAssumption == EdgeOf \in [Id -> Edge]
ASSUME FilesAssumption == \A f \in Files : DOMAIN f \subseteq Id
ASSUME JobsAssumption == NoJob \notin Job
ASSUME TimesAssumption ==
    {PRUNING_INTERVAL, LiquidityRefresh, MaxTime, LastClose, MaxCrashes} \subseteq Nat

VARIABLES
    now,      \* the clock
    gossip,   \* lightningd's last update of each channel, Unknown without one
    up,       \* "loading" during a start, then "running", or "down"
    crashes,
    Channels, \* what is known of each channel in the graph
    Inbound,  \* the channels of each edge
    toLoad,   \* channels of the file that AddChannel has not added yet
    file,     \* the channels in graph.json
    lock,     \* the job that holds channelsLock
    pc,       \* where each job is
    answer,   \* the answer of ListChannels a job has still to store
    due       \* the time PruneChannels compares with

graph == <<Channels, Inbound>>
job == <<lock, pc, answer, due>>
vars == <<now, gossip, up, crashes, Channels, Inbound, toLoad, file, lock, pc,
          answer, due>>

---------------------------------------------------------------------------

Unknown == 0  \* no update was ever seen, and every update is later
Half == 0     \* the belief that half of the capacity is available, else the
              \* time at which the belief was learned

EmptyGraph == [c \in {} |-> [LastUpdate |-> 1, learned |-> Half]]

\* The function f with x set to v, and without x.
Set(f, x, v) == [y \in DOMAIN f \cup {x} |-> IF y = x THEN v ELSE f[y]]
Without(f, x) == [y \in DOMAIN f \ {x} |-> f[y]]

\* The file may be one of a version that learned from failed payments.
Init ==
    /\ now = 1
    /\ gossip \in [Id -> {Unknown, 1}]
    /\ up = "down" /\ crashes = 0
    /\ Channels = EmptyGraph /\ Inbound = [e \in Edge |-> <<>>]
    /\ toLoad = {}
    /\ file \in Files
    /\ lock = NoJob
    /\ pc = [j \in Job |-> "idle"]
    /\ answer = [j \in Job |-> [c \in {} |-> 1]]
    /\ due = [j \in Job |-> 1]

---------------------------------------------------------------------------
(* The graph *)

\* AddChannel puts the channel at the end of its edge.
AddChannel(c) ==
    Inbound' = [Inbound EXCEPT ![EdgeOf[c]] = Append(@, c)]

\* remove: the last one takes the place of the one that goes.
Remove(s, i) ==
    SubSeq([s EXCEPT ![i] = s[Len(s)]], 1, Len(s) - 1)

\* DeleteChannel takes it out of the map and of its edge.
DeleteFromMap(c) ==
    /\ Channels' = Without(Channels, c)
    /\ UNCHANGED Inbound
DeleteChannel(c) ==
    /\ Channels' = Without(Channels, c)
    /\ \E i \in DOMAIN Inbound[EdgeOf[c]] :
        /\ Inbound[EdgeOf[c]][i] = c
        /\ Inbound' = [Inbound EXCEPT ![EdgeOf[c]] = Remove(@, i)]

\* One turn of the loop of RefreshChannels.
RenewBelief(c, update) ==
    IF c \in DOMAIN Channels
    THEN /\ Channels' = [Channels EXCEPT ![c] =
                [LastUpdate |-> update, learned |-> IF @.learned = Half THEN Half ELSE now]]
         /\ UNCHANGED Inbound
    ELSE /\ AddChannel(c)
         /\ Channels' = Set(Channels, c, [LastUpdate |-> update, learned |-> Half])
StoreChannel(c, update) ==
    IF c \in DOMAIN Channels
    THEN /\ Channels' = [Channels EXCEPT ![c].LastUpdate = update]
         /\ UNCHANGED Inbound
    ELSE /\ AddChannel(c)
         /\ Channels' = Set(Channels, c, [LastUpdate |-> update, learned |-> Half])

---------------------------------------------------------------------------
(* refreshGraph *)

Goes(j, from, to) ==
    /\ up = "running"
    /\ pc[j] = from
    /\ pc' = [pc EXCEPT ![j] = to]

\* ListChannels answers; when it fails the job is over.
ListChannels(j) ==
    /\ Goes(j, "idle", "listed")
    /\ answer' = [answer EXCEPT ![j] = [c \in {d \in Id : gossip[d] # Unknown} |-> gossip[c]]]
    /\ UNCHANGED <<now, gossip, up, crashes, graph, toLoad, file, lock, due>>

\* RefreshChannels takes its locks ...
BeginRefresh(j) ==
    /\ lock = NoJob /\ lock' = j
    /\ Goes(j, "listed", "refreshing")
    /\ UNCHANGED <<now, gossip, up, crashes, graph, toLoad, file, answer, due>>

\* ... stores the answer, in any order ...
RefreshChannel(j, c) ==
    /\ Goes(j, "refreshing", "refreshing")
    /\ c \in DOMAIN answer[j]
    /\ StoreChannel(c, answer[j][c])
    /\ answer' = [answer EXCEPT ![j] = Without(@, c)]
    /\ UNCHANGED <<now, gossip, up, crashes, toLoad, file, lock, due>>

\* ... and gives the locks back.
EndRefresh(j) ==
    /\ Goes(j, "refreshing", "refreshed")
    /\ DOMAIN answer[j] = {}
    /\ lock' = NoJob
    /\ UNCHANGED <<now, gossip, up, crashes, graph, toLoad, file, answer, due>>

\* PruneChannels takes its lock and reads the clock ...
BeginPrune(j) ==
    /\ lock = NoJob /\ lock' = j
    /\ Goes(j, "refreshed", "pruning")
    /\ due' = [due EXCEPT ![j] = now]
    /\ UNCHANGED <<now, gossip, up, crashes, graph, toLoad, file, answer>>

OldSwapped(c, time) == time + PRUNING_INTERVAL < Channels[c].LastUpdate
Old(c, time) == Channels[c].LastUpdate + PRUNING_INTERVAL < time

\* ... deletes what is old ...
PruneChannel(j, c) ==
    /\ Goes(j, "pruning", "pruning")
    /\ c \in DOMAIN Channels
    /\ Old(c, due[j])
    /\ DeleteChannel(c)
    /\ UNCHANGED <<now, gossip, up, crashes, toLoad, file, lock, answer, due>>

\* ... and gives the lock back.
EndPrune(j) ==
    /\ Goes(j, "pruning", "pruned")
    /\ \A c \in DOMAIN Channels : ~Old(c, due[j])
    /\ lock' = NoJob
    /\ due' = [due EXCEPT ![j] = 1]
    /\ UNCHANGED <<now, gossip, up, crashes, graph, toLoad, file, answer>>

\* ListNodes fails, or the file cannot be written: the job is over.
GiveUp(j) ==
    /\ Goes(j, "pruned", "idle")
    /\ UNCHANGED <<now, gossip, up, crashes, graph, toLoad, file, lock, answer, due>>

\* SaveGraphToFile.
SaveGraphToFile(j) ==
    /\ lock = NoJob
    /\ Goes(j, "pruned", "idle")
    /\ file' = Channels
    /\ UNCHANGED <<now, gossip, up, crashes, graph, toLoad, lock, answer, due>>

---------------------------------------------------------------------------
(* refreshLiquidity *)

RefreshLiquidity ==
    /\ up = "running" /\ lock = NoJob
    /\ \E c \in DOMAIN Channels :
        Channels[c].learned # Half /\ Channels[c].learned + LiquidityRefresh < now
    /\ Channels' = [c \in DOMAIN Channels |->
          IF Channels[c].learned + LiquidityRefresh < now
          THEN [Channels[c] EXCEPT !.learned = Half] ELSE Channels[c]]
    /\ UNCHANGED <<now, gossip, up, crashes, Inbound, toLoad, file, job>>

---------------------------------------------------------------------------
(* Starts and crashes *)

\* LoadGraphFromFile decodes the map ...
LoadGraphFromFile ==
    /\ up = "down" /\ up' = "loading"
    /\ Channels' = file
    /\ toLoad' = DOMAIN file
    /\ UNCHANGED <<now, gossip, crashes, Inbound, file, job>>

\* ... and builds the adjacency list from it.
LoadChannel(c) ==
    /\ up = "loading" /\ c \in toLoad
    /\ AddChannel(c)
    /\ toLoad' = toLoad \ {c}
    /\ UNCHANGED <<now, gossip, up, crashes, Channels, file, job>>

Loaded ==
    /\ up = "loading" /\ toLoad = {}
    /\ up' = "running"
    /\ UNCHANGED <<now, gossip, crashes, graph, toLoad, file, job>>

Crash ==
    /\ up # "down" /\ up' = "down"
    /\ crashes < MaxCrashes /\ crashes' = crashes + 1
    /\ Channels' = EmptyGraph /\ Inbound' = [e \in Edge |-> <<>>]
    /\ toLoad' = {}
    /\ lock' = NoJob
    /\ pc' = [j \in Job |-> "idle"]
    /\ answer' = [j \in Job |-> [c \in {} |-> 1]]
    /\ due' = [j \in Job |-> 1]
    /\ UNCHANGED <<now, gossip, file>>

---------------------------------------------------------------------------
(* lightningd and time *)

\* A channel is announced or updated.
Update(c) ==
    /\ gossip[c] # now
    /\ gossip' = [gossip EXCEPT ![c] = now]
    /\ UNCHANGED <<now, up, crashes, graph, toLoad, file, job>>

\* A channel is closed: lightningd forgets it.
Close(c) ==
    /\ now <= LastClose
    /\ gossip[c] # Unknown
    /\ gossip' = [gossip EXCEPT ![c] = Unknown]
    /\ UNCHANGED <<now, up, crashes, graph, toLoad, file, job>>

Tick ==
    /\ now < MaxTime /\ now' = now + 1
    /\ UNCHANGED <<gossip, up, crashes, graph, toLoad, file, job>>

---------------------------------------------------------------------------

refreshGraph(j) ==
    \/ ListChannels(j)
    \/ BeginRefresh(j) \/ (\E c \in Id : RefreshChannel(j, c)) \/ EndRefresh(j)
    \/ BeginPrune(j) \/ (\E c \in Id : PruneChannel(j, c)) \/ EndPrune(j)
    \/ GiveUp(j) \/ SaveGraphToFile(j)

Load == LoadGraphFromFile \/ (\E c \in Id : LoadChannel(c)) \/ Loaded

Next ==
    \/ \E j \in Job : refreshGraph(j)
    \/ RefreshLiquidity
    \/ Load
    \/ Crash
    \/ \E c \in Id : Update(c) \/ Close(c)
    \/ Tick

Spec == Init /\ [][Next]_vars

\* cron starts its jobs again and again and ListChannels answers in the end; a
\* mutex of Go is given to everybody who waits for it; the plugin is restarted;
\* time passes.
FairSpec ==
    /\ Spec
    /\ \A j \in Job : SF_vars(refreshGraph(j))
    /\ SF_vars(RefreshLiquidity)
    /\ WF_vars(Load)
    /\ WF_vars(Tick)

---------------------------------------------------------------------------
(* Properties *)

\* Path finding walks Inbound and passes over a channel that is not in Channels
\* (pathfinder.go:95-98): the two agree whenever a start is over, every
\* channel of the map is in its edge and only once, through late answers,
\* removals that move other channels, and starts that rebuild one from the
\* other.
ViewsAgree ==
    /\ \A e \in Edge : \A i \in DOMAIN Inbound[e] :
        /\ Inbound[e][i] \in DOMAIN Channels \ toLoad
        /\ EdgeOf[Inbound[e][i]] = e
        /\ \A k \in DOMAIN Inbound[e] : Inbound[e][i] = Inbound[e][k] => i = k
    /\ \A c \in DOMAIN Channels \ toLoad :
        \E i \in DOMAIN Inbound[EdgeOf[c]] : Inbound[EdgeOf[c]][i] = c

\* Late answers bring back channels that were closed and older updates of
\* others, a crash brings back the file; yet once lightningd's view rests the
\* graph keeps every channel with a recent update and no closed one
\* (graph.go:127: "prune channels that are older than PRUNING_INTERVAL").
GraphConverges ==
    \A c \in Id :
        /\ <>[](gossip[c] = Unknown) => <>[](c \notin DOMAIN Channels)
        /\ <>[](gossip[c] = MaxTime) => <>[](c \in DOMAIN Channels)

\* What was once learned of a channel is forgotten in the end, though every
\* refresh makes the channel anew and a crash brings back what the file holds
\* (cron.go:29: "check if there are channels that need to be reset").
BeliefsForgotten ==
    <>[](\A c \in DOMAIN Channels : Channels[c].learned = Half)
=============================================================================
