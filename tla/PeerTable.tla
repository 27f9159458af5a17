------------------------------ MODULE PeerTable ------------------------------
(***************************************************************************)
(* What the plugin knows of its channels (node/peers.go, refreshPeers of   *)
(* node/cron.go, UpdateAmounts of rebalance/parallel): the balances and    *)
(* connections of the last ListPeers, changed by its own successful parts  *)
(* and by connection events until the next one.                            *)
(*                                                                         *)
(* lightningd holds the truth.  The answer of ListPeers is stored when     *)
(* PeersLock is free, the result of a part is accounted for some time      *)
(* after its HTLCs settled, and events are handled by goroutines of their  *)
(* own: each may be late with respect to the others.                       *)
(*                                                                         *)
(* The parts are of equal size.  An incoming channel gains it before the   *)
(* outgoing one loses it and the fees of the route, because the preimage   *)
(* travels back.  The table never subtracts the fees.                      *)
(*                                                                         *)
(* As in ParallelRebalance, an operator that stands before the one it      *)
(* resembles and is used by no action is a faulty variant of it.           *)
(***************************************************************************)
EXTENDS Integers, FiniteSets, Functions

CONSTANTS
    Channel,     \* channels of the node, one per peer
    Target,      \* the channel of the parallel rebalances
    NoChannel,
    Pull, Push,  \* goroutines of circular-pull and circular-push on Target
    Job,         \* runs of refreshPeers that may overlap
    Unknown,     \* no answer of ListPeers
    Size,        \* of a part
    Fees,        \* what the routes that are found may cost
    Total,       \* capacity of a channel
    Balances,    \* what a channel may hold at first
    Threshold,   \* the deplete amount and the fill amount
    Word,        \* 2^64, scaled
    MaxParts,    \* bound on the parts fired
    MaxForwards, \* bound on payments of others
    MaxSwitches  \* bound on connections and disconnections

ASSUME ChannelsAssumption == Target \in Channel /\ NoChannel \notin Channel
ASSUME PartsAssumption == Pull \cap Push = {} /\ IsFiniteSet(Pull \cup Push)
ASSUME AmountsAssumption ==
    /\ Total \in Nat /\ Threshold \in Nat /\ Word \in Nat
    /\ Total < Word /\ Balances \subseteq 0..Total
    /\ Size \in Nat \ {0} /\ Fees \subseteq Nat
ASSUME BoundsAssumption == {MaxParts, MaxForwards, MaxSwitches} \subseteq Nat

VARIABLES
    real,      \* balance and connection of each channel
    Peers,     \* what the plugin holds of them
    snapshot,  \* the answer of ListPeers a job has
    events,    \* connections that were notified and not handled
    stage,     \* of each part's goroutine
    htlc,      \* of each part, which may outlive its goroutine
    candidate, \* the channel of each part, with Target at the other end
    fee,       \* of the route of each part, until it is paid
    refreshed, \* an answer of ListPeers was stored
    parts, forwards, switches,
    unseen     \* history: fees that left each channel, while AccountExact speaks

plugin == <<Peers, snapshot, refreshed, unseen>>
work == <<stage, htlc, candidate, fee>>
bounds == <<parts, forwards, switches>>
vars == <<real, Peers, snapshot, events, stage, htlc, candidate, fee, refreshed,
          parts, forwards, switches, unseen>>

---------------------------------------------------------------------------

Part == Pull \cup Push

State == [toUs : 0..Word - 1, connected : BOOLEAN]

OutOf(p) == IF p \in Pull THEN candidate[p] ELSE Target
InOf(p) == IF p \in Pull THEN Target ELSE candidate[p]

\* Unsigned arithmetic.
Plus(n) == n % Word
ToThem(state) == Plus(Total - state.toUs)

\* NewNode and the first refreshPeers.
Init ==
    /\ real \in [Channel -> [toUs : Balances, connected : {TRUE}]]
    /\ Peers = real
    /\ snapshot = [j \in Job |-> Unknown]
    /\ events = {}
    /\ stage = [p \in Part |-> "idle"]
    /\ htlc = [p \in Part |-> "none"]
    /\ candidate = [p \in Part |-> NoChannel]
    /\ fee = [p \in Part |-> 0]
    /\ refreshed = FALSE
    /\ unseen = [c \in Channel |-> 0]
    /\ parts = 0 /\ forwards = 0 /\ switches = 0

---------------------------------------------------------------------------
(* A part *)

\* The peer of the target channel is excluded.
Candidates == Channel \ {Target}

CanUseChannel(p, c) ==
    /\ (IF p \in Pull THEN Peers[c].toUs ELSE ToThem(Peers[c])) >= Threshold
    /\ Peers[c].connected

\* GetNextCandidate and Fire.
Fire(p, c) ==
    /\ parts < MaxParts
    /\ stage[p] = "idle" /\ stage' = [stage EXCEPT ![p] = "fired"]
    /\ c \in Candidates
    /\ CanUseChannel(p, c)
    /\ candidate' = [candidate EXCEPT ![p] = c]
    /\ parts' = parts + 1
    /\ UNCHANGED <<real, plugin, events, htlc, fee, forwards, switches>>

validateLiquidityParameters(p) ==
    /\ Peers[InOf(p)].connected /\ Peers[OutOf(p)].connected
    /\ ToThem(Peers[InOf(p)]) >= Size
    /\ Peers[OutOf(p)].toUs >= Size

\* What the HTLCs in the channel will take from it.
Reserved(c) ==
    LET inside == {p \in Part : htlc[p] \in {"sent", "credited"} /\ OutOf(p) = c}
    IN  Size * Cardinality(inside) + FoldFunctionOnSet(+, 0, fee, inside)

\* runAttempt, as far as lightningd accepts the payment.
SendPay(p) ==
    /\ stage[p] = "fired" /\ stage' = [stage EXCEPT ![p] = "waiting"]
    /\ validateLiquidityParameters(p)
    /\ real[OutOf(p)].connected
    /\ \E f \in Fees :
        /\ real[OutOf(p)].toUs >= Reserved(OutOf(p)) + Size + f
        /\ fee' = [fee EXCEPT ![p] = f]
    /\ htlc' = [htlc EXCEPT ![p] = "sent"]
    /\ UNCHANGED <<real, plugin, events, candidate, bounds>>

Over(p) ==
    /\ stage' = [stage EXCEPT ![p] = "idle"]
    /\ htlc' = [htlc EXCEPT ![p] = "none"]
    /\ candidate' = [candidate EXCEPT ![p] = NoChannel]
    /\ fee' = [fee EXCEPT ![p] = 0]

\* Run fails before an HTLC is sent, or the HTLC fails along the route, also
\* after Run gave it up: UpdateAmounts changes no balance.
Fail(p) ==
    /\ stage[p] = "fired" \/ htlc[p] = "sent"
    /\ Over(p)
    /\ UNCHANGED <<real, plugin, events, bounds>>

\* WaitSendPay times out: the rebalance has failed, the HTLC goes on.
Timeout(p) ==
    /\ stage[p] = "waiting" /\ htlc[p] \in {"sent", "credited"}
    /\ stage' = [stage EXCEPT ![p] = "timedout"]
    /\ UNCHANGED <<real, plugin, events, htlc, candidate, fee, bounds>>

\* The HTLC arrives and the preimage is released ...
Credit(p) ==
    /\ htlc[p] = "sent" /\ htlc' = [htlc EXCEPT ![p] = "credited"]
    /\ real[InOf(p)].toUs + Size <= Total
    /\ real' = [real EXCEPT ![InOf(p)].toUs = @ + Size]
    /\ UNCHANGED <<plugin, events, stage, candidate, fee, bounds>>

\* ... and comes back to where the payment started: the first hop carries the
\* fees too.
Settle(p) ==
    /\ htlc[p] = "credited" /\ htlc' = [htlc EXCEPT ![p] = "settled"]
    /\ real' = [real EXCEPT ![OutOf(p)].toUs = @ - (Size + fee[p])]
    /\ unseen' = IF refreshed \/ forwards > 0 THEN unseen
                 ELSE [unseen EXCEPT ![OutOf(p)] = @ + fee[p]]
    /\ fee' = [fee EXCEPT ![p] = 0]
    /\ UNCHANGED <<Peers, snapshot, refreshed, events, stage, candidate, bounds>>

\* UpdateChannelBalance, called with the result of the part, moves its amount
\* and no fee.
UpdateOutgoingBalance(out, in) ==
    Peers' = [Peers EXCEPT ![out].toUs = Plus(@ - Size)]
UpdateChannelBalance(out, in) ==
    Peers' = [Peers EXCEPT ![out].toUs = Plus(@ - Size), ![in].toUs = Plus(@ + Size)]

UpdateAmounts(p) ==
    /\ stage[p] = "waiting" /\ htlc[p] = "settled"
    /\ UpdateChannelBalance(OutOf(p), InOf(p))
    /\ Over(p)
    /\ UNCHANGED <<real, snapshot, refreshed, unseen, events, bounds>>

---------------------------------------------------------------------------
(* refreshPeers *)

ListPeers(j) ==
    /\ snapshot[j] = Unknown
    /\ snapshot' = [snapshot EXCEPT ![j] = real]
    /\ UNCHANGED <<real, Peers, refreshed, unseen, events, work, bounds>>

\* Peers that are already known are kept.
StoreNewPeers(j) == UNCHANGED Peers
StorePeers(j) == Peers' = snapshot[j]

refreshPeers(j) ==
    /\ snapshot[j] # Unknown
    /\ StorePeers(j)
    /\ snapshot' = [snapshot EXCEPT ![j] = Unknown]
    /\ refreshed' = TRUE
    /\ unseen' = [c \in Channel |-> 0]
    /\ UNCHANGED <<real, events, work, bounds>>

---------------------------------------------------------------------------
(* Others *)

\* A payment through the node, or of its owner, that HTLCs leave room for.
Forward(c) ==
    /\ forwards < MaxForwards
    /\ forwards' = forwards + 1
    /\ \E n \in {-Size, Size} :
        /\ real[c].toUs + n \in Reserved(c)..Total
        /\ real' = [real EXCEPT ![c].toUs = @ + n]
    /\ UNCHANGED <<plugin, events, work, parts, switches>>

Switch(c) ==
    /\ switches < MaxSwitches
    /\ switches' = switches + 1
    /\ real' = [real EXCEPT ![c].connected = ~@]
    /\ events' = events \cup {<<c, ~real[c].connected>>}
    /\ UNCHANGED <<plugin, work, parts, forwards>>

OnConnectOrDisconnect(e) ==
    /\ events' = events \ {e}
    /\ Peers' = [Peers EXCEPT ![e[1]].connected = e[2]]
    /\ UNCHANGED <<real, snapshot, refreshed, unseen, work, bounds>>

---------------------------------------------------------------------------

Next ==
    \/ \E p \in Part :
        \/ \E c \in Channel : Fire(p, c)
        \/ SendPay(p) \/ Fail(p) \/ Timeout(p) \/ Credit(p) \/ Settle(p) \/ UpdateAmounts(p)
    \/ \E j \in Job : ListPeers(j) \/ refreshPeers(j)
    \/ \E c \in Channel : Forward(c) \/ Switch(c)
    \/ \E e \in events : OnConnectOrDisconnect(e)

Spec == Init /\ [][Next]_vars

\* The handler reads its results, cron calls refreshPeers every 30 seconds
\* and its RPC returns, events are handled.  Nothing is assumed of HTLCs.
FairSpec ==
    /\ Spec
    /\ \A p \in Part : WF_vars(UpdateAmounts(p))
    /\ \A j \in Job : WF_vars(ListPeers(j)) /\ WF_vars(refreshPeers(j))
    /\ WF_vars(\E e \in events : OnConnectOrDisconnect(e))

---------------------------------------------------------------------------
(* Properties *)

\* Parts that settled, or only arrived, and that the table does not know of.
SettledOut(c) == {p \in Part : htlc[p] = "settled" /\ OutOf(p) = c}
CreditedIn(c) == {p \in Part : htlc[p] \in {"credited", "settled"} /\ InOf(p) = c}

Account(c) ==
    real[c].toUs + unseen[c]
        + Size * (Cardinality(SettledOut(c)) - Cardinality(CreditedIn(c)))

\* Until a refresh or a payment of others interferes, the table errs by exactly
\* two things: the parts that are not accounted for (not yet, or never when they
\* were given up), and the fees of all parts that settled, which
\* UpdateChannelBalance leaves in the outgoing channel (peers.go:107) though
\* lightningd took them (graph/route.go:53-62).  By nothing else, in both channels
\* of every part and though parts in both directions and over the same channels
\* overlap (result.go:82-91).  The account may be below zero, and the table then
\* far above the capacity: one part that was given up and arrived, and two that
\* took it out again.
AccountExact ==
    ~refreshed /\ forwards = 0 => \A c \in Channel : Peers[c].toUs = Plus(Account(c))

\* Late refreshes, results and events may each undo what the other has
\* written, and yet once the channels rest the table becomes right and stays
\* right (cron.go:24: "every 30 seconds by default, refresh peers").
TableConverges == <>[](Peers = real)
=============================================================================
