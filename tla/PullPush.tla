------------------------------ MODULE PullPush ------------------------------
(***************************************************************************)
(* circular-pull and circular-push as they are: a ParallelRebalance whose  *)
(* candidates are the channels of peers that are listed and cheap enough   *)
(* (pull.go, push.go, candidates.go), used while the table of the plugin   *)
(* says that they are not depleted, or filled.                             *)
(*                                                                         *)
(* A part settles in lightningd when its goroutine succeeds, the table     *)
(* learns of it when the handler receives the result, and a part that      *)
(* failed by timeout may settle still later without the table.  The cron   *)
(* job refreshPeers overwrites the table with an answer that may be old.   *)
(*                                                                         *)
(* The outgoing channel of a payment pays the part and the fees of the     *)
(* route, the incoming one receives the part; the table moves the part     *)
(* only.  The candidate is the outgoing channel of a pull and the incoming *)
(* channel of a push.                                                      *)
(*                                                                         *)
(* Each candidate is checked before parts in flight are accounted for and  *)
(* without the part to be sent, so the threshold is missed; how far is     *)
(* what this module says.  Balances and fees are in sats.                  *)
(*                                                                         *)
(* KeepChannelBalance is a faulty variant of what it stands before.        *)
(***************************************************************************)
EXTENDS ParallelRebalance, SequencesExt

CONSTANTS
    Peer,             \* peers but the one of the target channel
    Excluded,         \* the peer of the target channel
    ChannelsOf,       \* the channels with each peer
    Lists,            \* outlist or inlist, NoList when omitted
    NoList,
    FeeOut, FeeIn,    \* ppm of each channel in both directions
    MaxPPM,           \* `maxppm' after its default
    Fees,             \* what the routes that are found may cost
    OutPPMArgs,       \* `maxoutppm' or `minoutppm', 0 when omitted
    PercentArgs,      \* `depleteuptopercent' or `filluptopercent', 0 when omitted
    UpToArgs,         \* `depleteuptoamount' or `filluptoamount', 0 when omitted
    Total,            \* capacity of each channel
    Balances,         \* what the channels may hold at first
    Word,             \* 2^64, scaled
    NoAnswer,
    MaxLate,          \* bound on the parts that settle after they failed
    MaxRefreshes      \* bound on the answers of ListPeers

ASSUME CandidatesAssumption ==
    /\ Excluded \notin Peer
    /\ ChannelsOf \in [Peer -> Seq(Channel)]
    /\ {FeeOut, FeeIn} \subseteq [Channel -> Nat]
    /\ {Total, Word} \subseteq Nat /\ Balances \subseteq 0..Total /\ Total < Word
    /\ PercentArgs \subseteq Int /\ UpToArgs \subseteq Nat
    /\ {MaxPPM, MaxLate, MaxRefreshes} \subseteq Nat /\ Fees \subseteq Nat

VARIABLES
    kind,     \* "pull" or "push"
    limit,    \* percentage and amount up to which channels are used
    found,    \* what FindCandidates found
    toUs,     \* balances in lightningd
    Peers,    \* balances in the table of the plugin
    ready,    \* channels in normal state with a connected peer
    late,     \* parts on each channel that failed and may settle
    answer,   \* the answer of ListPeers that refreshPeers has to store
    lates, refreshes,
    hidden    \* history: what the table came to show too much of each channel

call == <<kind, limit, found>>
table == <<Peers, answer, refreshes, hidden>>
node == <<toUs, ready, late, lates>>
pvars == <<vars, call, table, node>>

---------------------------------------------------------------------------
(* The parameters *)

Infinity == 1000000000

DEFAULT_OUT_PPM == 50
DefaultPercent(k) == IF k = "pull" THEN 20 ELSE 80
DefaultUpTo(k) == IF k = "pull" THEN 1000000 ELSE 10000000

\* A list sets maxoutppm to infinity and minoutppm to zero, which gets the
\* default all the same.
OutPPM(k, list, ppm) ==
    IF list = NoList THEN OrDefault(ppm, DEFAULT_OUT_PPM)
    ELSE IF k = "pull" THEN Infinity ELSE DEFAULT_OUT_PPM

setDefaults(k, percent, upTo) ==
    [percent |-> IF percent <= 0 THEN DefaultPercent(k) ELSE percent,
     amount |-> OrDefault(upTo, DefaultUpTo(k))]

validateParameters(l) == l.percent <= 100

---------------------------------------------------------------------------
(* Candidates *)

IsGoodCandidate(k, ppm, c) ==
    IF k = "pull" THEN FeeOut[c] < ppm
    ELSE FeeIn[c] <= MaxPPM /\ FeeOut[c] > ppm

\* All peers in any order, or those of the list that exist.
GetCandidatesList(list) ==
    IF list = NoList THEN SetToSeqs(Peer \cup {Excluded})
    ELSE {SelectSeq(list, LAMBDA p : p \in Peer \cup {Excluded})}

FindCandidates(k, list, ppm) ==
    {FlattenSeq([i \in DOMAIN peers |->
        IF peers[i] = Excluded THEN <<>>
        ELSE SelectSeq(ChannelsOf[peers[i]], LAMBDA c : IsGoodCandidate(k, ppm, c))])
     : peers \in GetCandidatesList(list)}

\* What is left of a channel with balance b on the side that pays.
Left(k, b) == IF k = "pull" THEN b ELSE (Total - b) % Word

Smaller(a, b) == IF a < b THEN a ELSE b
UpTo == Smaller(limit.amount, (Total * limit.percent) \div 100)

CanUseChannel(c) ==
    /\ Left(kind, Peers[c]) >= UpTo
    /\ c \in ready

\* The part in sats.
Part == splitAmount \div MsatPerSat

\* getRoute refuses a route whose fee is dearer than maxppm.
Cheap(fee) == (fee * 1000000) \div Part <= MaxPPM

\* What the candidate's side of a part costs: the first hop carries the fees.
Cost(fee) == IF kind = "pull" THEN Part + fee ELSE Part

\* The balance b of a candidate after it paid, or was paid, x.
Moved(b, x) == IF kind = "pull" THEN b - x ELSE b + x

Positive(x) == IF x > 0 THEN x ELSE 0

---------------------------------------------------------------------------
(* The call *)

PInit ==
    /\ Init
    /\ kind = "none" /\ limit = [percent |-> 0, amount |-> 0] /\ found = <<>>
    /\ toUs \in [Channel -> Balances]
    /\ Peers = toUs
    /\ ready = Channel
    /\ late = [c \in Channel |-> 0]
    /\ answer = NoAnswer
    /\ lates = 0 /\ refreshes = 0
    /\ hidden = [c \in Channel |-> 0]

Call ==
    /\ Accept
    /\ \E k \in {"pull", "push"}, list \in Lists, ppm \in OutPPMArgs,
          percent \in PercentArgs, upTo \in UpToArgs :
        /\ kind' = k
        /\ limit' = setDefaults(k, percent, upTo)
        /\ validateParameters(limit')
        /\ Candidates' \in FindCandidates(k, list, OutPPM(k, list, ppm))
    /\ found' = Candidates'
    /\ UNCHANGED <<table, node>>

\* GetNextCandidate looks into the table and drops what it cannot use.
Skip ==
    /\ SkipCandidate
    /\ ~CanUseChannel(Head(Candidates))
    /\ UNCHANGED <<call, table, node>>

Fire(w) ==
    /\ FireCandidate(w)
    /\ CanUseChannel(Head(Candidates))
    /\ UNCHANGED <<call, table, node>>

\* lightningd settles a part that the candidate c can pay.
Settle(c) ==
    \E fee \in Fees :
        /\ Cheap(fee)
        /\ Left(kind, toUs[c]) >= Cost(fee)
        /\ toUs' = [toUs EXCEPT ![c] = Moved(@, Cost(fee))]
        /\ hidden' = [hidden EXCEPT ![c] = @ + Cost(fee) - Part]

\* A part settles before its goroutine has the result, or fails and may settle
\* later.
Run(w) ==
    /\ WorkerFinish(w)
    /\ IF outcome'[w].success
       THEN Settle(uses[w]) /\ UNCHANGED <<late, lates>>
       ELSE /\ \/ UNCHANGED <<late, lates>>
               \/ /\ outcome'[w].attempts > 0
                  /\ lates < MaxLate /\ lates' = lates + 1
                  /\ late' = [late EXCEPT ![uses[w]] = @ + 1]
            /\ UNCHANGED <<toUs, hidden>>
    /\ UNCHANGED <<call, Peers, answer, refreshes, ready>>

SettleLate(c) ==
    /\ late[c] > 0 /\ late' = [late EXCEPT ![c] = @ - 1]
    /\ Settle(c)
    /\ UNCHANGED <<vars, call, Peers, answer, refreshes, ready, lates>>

\* UpdateChannelBalance moves the part without the fees, in the unsigned
\* arithmetic of the table: a channel that wraps shows too much.
KeepChannelBalance(c) == UNCHANGED <<Peers, hidden>>
UpdateChannelBalance(c) ==
    /\ Peers' = [Peers EXCEPT ![c] = Moved(@, Part) % Word]
    /\ hidden' = [hidden EXCEPT ![c] =
                    @ + Positive(Left(kind, Peers'[c]) + Part - Left(kind, Peers[c]))]

Receive(w) ==
    /\ ReceiveResult(w)
    /\ IF outcome[w].success THEN UpdateChannelBalance(uses[w])
                             ELSE UNCHANGED <<Peers, hidden>>
    /\ UNCHANGED <<call, answer, refreshes, node>>

---------------------------------------------------------------------------
(* The rest of the plugin *)

\* A peer disconnects: the table knows by the event.
OnDisconnect(c) ==
    /\ ready' = ready \ {c} /\ ready' # ready
    /\ UNCHANGED <<vars, call, table, toUs, late, lates>>

ListPeers ==
    /\ answer = NoAnswer
    /\ refreshes < MaxRefreshes /\ refreshes' = refreshes + 1
    /\ answer' = toUs
    /\ UNCHANGED <<vars, call, Peers, hidden, node>>

\* Parts on a channel that settled and that the table does not know of.
Unknown(c) ==
    Cardinality({w \in Alive : stage[w] = "sending" /\ outcome[w].success /\ uses[w] = c})

\* What the answer shows beyond the parts that are still to be accounted: it is
\* older than parts that were accounted, or than their fees.
Overtaken(c) ==
    Left(kind, answer[c]) - Left(kind, toUs[c]) - Part * Unknown(c)

refreshPeers ==
    /\ answer # NoAnswer /\ answer' = NoAnswer
    /\ Peers' = answer
    /\ hidden' = [c \in Channel |-> hidden[c] + Positive(Overtaken(c) - hidden[c])]
    /\ UNCHANGED <<vars, call, refreshes, node>>

---------------------------------------------------------------------------

Handler ==
    \/ Call
    \/ (Refuse \/ StopFiring \/ Return) /\ UNCHANGED <<call, table, node>>
    \/ Skip
    \/ \E w \in Worker : Fire(w) \/ Receive(w)

PNext ==
    \/ Handler
    \/ \E w \in Worker : Run(w)
    \/ \E c \in Channel : SettleLate(c) \/ OnDisconnect(c)
    \/ ListPeers \/ refreshPeers
    \/ Over /\ UNCHANGED <<call, table, node>>

PSpec == PInit /\ [][PNext]_pvars

PFairSpec ==
    /\ PSpec
    /\ WF_pvars(Handler /\ pc # "idle")
    /\ \A w \in Worker : WF_pvars(Run(w))

---------------------------------------------------------------------------
(* Properties *)

Listed(c) == Cardinality({i \in DOMAIN found : found[i] = c})

\* A channel goes below its threshold by one part for each time it was listed,
\* for a part is checked before it and its like in flight are accounted, and by
\* what the table shows too much of it: the fees that UpdateChannelBalance does
\* not subtract (peers.go:107), what an old answer of ListPeers brought back
\* (cron.go:88), and a whole word once a balance wrapped, because a part that a
\* refresh had counted was counted again (pull.go:92, push.go:100).  By no more,
\* however results wait for the handler and HTLCs settle after their timeout.
MissesByAPart ==
    [][\A c \in Channel : toUs'[c] # toUs[c] =>
          Left(kind, toUs'[c]) >= UpTo - Part * Listed(c) - hidden'[c]]_pvars

\* What README.md:98-103 says of a pull: "the amount to leave in the outgoing
\* channels", "at least 1000000 sats will be left in that channel".
LeavesThreshold ==
    [][kind = "pull" =>
          \A c \in Channel : toUs'[c] # toUs[c] => toUs'[c] >= UpTo]_pvars
=============================================================================
