------------------------- MODULE ParallelRebalance -------------------------
(***************************************************************************)
(* circular-pull and circular-push (rebalance/parallel): one RPC handler   *)
(* splits an amount into equal parts, fires one goroutine per part over a  *)
(* queue of candidate channels, and collects the results over an           *)
(* unbuffered Go channel.                                                  *)
(*                                                                         *)
(* The coordinator is the handler: Call, FireCandidates, WaitForResult.    *)
(* A worker is a goroutine started by Fire: it runs one rebalance and then *)
(* blocks until the coordinator receives its result.  What a rebalance     *)
(* does to find a route and pay it is abstracted to its outcome; the peer  *)
(* table is changed concurrently by cron jobs, peers and other calls, so   *)
(* whether a candidate is usable at the time it is popped is free.         *)
(*                                                                         *)
(* A definition that stands before the one it resembles and is used by no  *)
(* action (CarryOnUntilMoved before CarryOn) is a faulty variant, kept to  *)
(* show that a property would notice it.                                   *)
(***************************************************************************)
EXTENDS Integers, Sequences, FiniteSets

CONSTANTS
    Channel,          \* channels with the peers of the node
    NoChannel,        \* what an idle worker uses
    Worker,           \* slots for goroutines; the code has no limit
    CandidateLists,   \* the lists FindCandidates may build
    AmountArgs,       \* the `amount' parameter in sats, 0 when omitted
    SplitAmountArgs,  \* the `splitamount' parameter in sats, 0 when omitted
    SplitsArgs,       \* the `splits' parameter, an int, 0 when omitted
    MaxAttempts       \* the `attempts' parameter after its default

ASSUME ArgumentsAssumption ==
    /\ AmountArgs \subseteq Nat
    /\ SplitAmountArgs \subseteq Nat
    /\ SplitsArgs \subseteq Int
    /\ MaxAttempts \in Nat \ {0}

ASSUME ChannelsAssumption ==
    /\ CandidateLists \subseteq Seq(Channel)
    /\ NoChannel \notin Channel

ASSUME WorkersAssumption == IsFiniteSet(Worker)

VARIABLES
    pc,                \* where the handler is
    amount,            \* msat to move, after defaults
    splitAmount,       \* msat per part, after defaults
    splits,            \* parts that may be in flight, after defaults
    Candidates,        \* the deque
    AmountRebalanced,  \* msat moved
    InFlightAmount,    \* msat reserved by running parts
    TotalAttempts,     \* payment attempts of the results received
    RebalancedAmount,  \* Result.RebalancedAmount, in sats
    stage,             \* stage of each worker
    uses,              \* the candidate channel of each worker
    outcome            \* the result a worker is sending

parameters == <<amount, splitAmount, splits>>
workers == <<stage, uses, outcome>>
vars == <<pc, amount, splitAmount, splits, Candidates, AmountRebalanced,
          InFlightAmount, TotalAttempts, RebalancedAmount, stage, uses, outcome>>

---------------------------------------------------------------------------

DEFAULT_AMOUNT == 400000
DEFAULT_SPLITS == 4
DEFAULT_SPLIT_AMOUNT == 100000
MsatPerSat == 1000

OrDefault(arg, default) == IF arg = 0 THEN default ELSE arg

\* Run succeeds at attempt 1..Attempts, and gives up after 0..Attempts of them.
Outcome ==
    [success : {TRUE}, attempts : 1..MaxAttempts]
        \cup [success : {FALSE}, attempts : 0..MaxAttempts]

NoOutcome == [success |-> FALSE, attempts |-> 0]

\* The goroutines started and whose result was not received yet.
Alive == {w \in Worker : stage[w] # "idle"}

Init ==
    /\ pc = "idle"
    /\ amount = 0 /\ splitAmount = 0 /\ splits = 0
    /\ Candidates = <<>>
    /\ AmountRebalanced = 0 /\ InFlightAmount = 0
    /\ TotalAttempts = 0 /\ RebalancedAmount = 0
    /\ stage = [w \in Worker |-> "idle"]
    /\ uses = [w \in Worker |-> NoChannel]
    /\ outcome = [w \in Worker |-> NoOutcome]

---------------------------------------------------------------------------
(* The handler *)

ValidGenericParameters(total, unit) ==
    /\ total >= unit
    /\ total % unit = 0

\* Call with parameters that are accepted and at least one candidate.
Accept ==
    /\ pc = "idle"
    /\ \E a \in AmountArgs, sa \in SplitAmountArgs, s \in SplitsArgs :
        /\ amount' = MsatPerSat * OrDefault(a, DEFAULT_AMOUNT)
        /\ splitAmount' = MsatPerSat * OrDefault(sa, DEFAULT_SPLIT_AMOUNT)
        /\ splits' = OrDefault(s, DEFAULT_SPLITS)
    /\ ValidGenericParameters(amount', splitAmount')
    /\ Candidates' \in CandidateLists
    /\ Candidates' # <<>>
    /\ pc' = "fire"
    /\ UNCHANGED <<AmountRebalanced, InFlightAmount, TotalAttempts, RebalancedAmount>>
    /\ UNCHANGED workers

\* Call that returns an error: a missing scid, parameters out of range, an
\* unknown target channel, no candidates.  The handler's struct is dropped.
Refuse ==
    /\ pc = "idle"
    /\ pc' = "refused"
    /\ UNCHANGED <<parameters, Candidates, AmountRebalanced, InFlightAmount,
                   TotalAttempts, RebalancedAmount, workers>>

\* The condition of the loop of FireCandidates.
CarryOnUntilMoved == AmountRebalanced < amount
CarryOn == AmountRebalanced + InFlightAmount < amount
MayFireOneTooMany == CarryOn /\ InFlightAmount \div splitAmount <= splits
MayFire == CarryOn /\ InFlightAmount \div splitAmount < splits

\* PopFront on the deque.
PeekFront == UNCHANGED Candidates
PopFront == Candidates' = Tail(Candidates)

\* GetNextCandidate pops a candidate whose channel is gone, depleted (filled),
\* not in normal state or with a disconnected peer.
SkipCandidate ==
    /\ pc = "fire"
    /\ MayFire
    /\ Candidates # <<>>
    /\ PopFront
    /\ UNCHANGED <<pc, parameters, AmountRebalanced, InFlightAmount,
                   TotalAttempts, RebalancedAmount, workers>>

\* GetNextCandidate pops a usable candidate, and Fire starts a goroutine.
FireCandidate(w) ==
    /\ pc = "fire"
    /\ MayFire
    /\ Candidates # <<>>
    /\ stage[w] = "idle"
    /\ PopFront
    /\ stage' = [stage EXCEPT ![w] = "running"]
    /\ uses' = [uses EXCEPT ![w] = Head(Candidates)]
    /\ InFlightAmount' = InFlightAmount + splitAmount
    /\ UNCHANGED <<pc, parameters, AmountRebalanced, TotalAttempts,
                   RebalancedAmount, outcome>>

\* The loop of FireCandidates ends: back to WaitForResult.
StopFiring ==
    /\ pc = "fire"
    /\ ~MayFire \/ Candidates = <<>>
    /\ pc' = "wait"
    /\ UNCHANGED <<parameters, Candidates, AmountRebalanced, InFlightAmount,
                   TotalAttempts, RebalancedAmount, workers>>

\* rebalance.Run returns in the goroutine, which then waits for a receiver.
WorkerFinish(w) ==
    /\ stage[w] = "running"
    /\ stage' = [stage EXCEPT ![w] = "sending"]
    /\ \E o \in Outcome : outcome' = [outcome EXCEPT ![w] = o]
    /\ UNCHANGED <<pc, parameters, Candidates, AmountRebalanced, InFlightAmount,
                   TotalAttempts, RebalancedAmount, uses>>

\* AddSuccessGeneric: the sats of a successful result go into the report.
AddAll(o) ==
    RebalancedAmount' = RebalancedAmount + splitAmount \div MsatPerSat
AddSuccess(o) ==
    RebalancedAmount' = IF o.success THEN RebalancedAmount + splitAmount \div MsatPerSat
                                     ELSE RebalancedAmount

\* EnqueueCandidate: after a success the candidate goes back in front of the
\* queue, unless its channel left the graph meanwhile.
EnqueueAlways(o, c) == Candidates' = <<c>> \o Candidates
EnqueueCandidate(o, c) ==
    \/ o.success /\ Candidates' = <<c>> \o Candidates
    \/ UNCHANGED Candidates

\* The part is no longer in flight; a success has moved it.
UpdateAmountsOfSuccess(o) ==
    IF o.success THEN /\ InFlightAmount' = InFlightAmount - splitAmount
                      /\ AmountRebalanced' = AmountRebalanced + splitAmount
                 ELSE UNCHANGED <<InFlightAmount, AmountRebalanced>>
UpdateAmounts(o) ==
    /\ InFlightAmount' = InFlightAmount - splitAmount
    /\ AmountRebalanced' = IF o.success THEN AmountRebalanced + splitAmount
                                        ELSE AmountRebalanced

\* One turn of the loop of WaitForResult, up to the call of FireCandidates.
ReceiveResult(w) ==
    /\ pc = "wait"
    /\ InFlightAmount > 0
    /\ stage[w] = "sending"
    /\ TotalAttempts' = TotalAttempts + outcome[w].attempts
    /\ AddSuccess(outcome[w])
    /\ EnqueueCandidate(outcome[w], uses[w])
    /\ UpdateAmounts(outcome[w])
    /\ stage' = [stage EXCEPT ![w] = "idle"]
    /\ uses' = [uses EXCEPT ![w] = NoChannel]
    /\ outcome' = [outcome EXCEPT ![w] = NoOutcome]
    /\ pc' = "fire"
    /\ UNCHANGED parameters

\* WaitForResult leaves its loop and returns the report.
ReturnWithoutWaiting ==
    /\ pc = "wait"
    /\ InFlightAmount = 0 \/ Candidates = <<>>
    /\ pc' = "returned"
    /\ UNCHANGED <<parameters, Candidates, AmountRebalanced, InFlightAmount,
                   TotalAttempts, RebalancedAmount, workers>>

Return ==
    /\ pc = "wait"
    /\ InFlightAmount = 0
    /\ pc' = "returned"
    /\ UNCHANGED <<parameters, Candidates, AmountRebalanced, InFlightAmount,
                   TotalAttempts, RebalancedAmount, workers>>

\* The handler is gone; goroutines it left behind would go on.
Over ==
    /\ pc \in {"returned", "refused"}
    /\ UNCHANGED vars

Coordinator ==
    \/ Accept \/ Refuse
    \/ SkipCandidate
    \/ \E w \in Worker : FireCandidate(w)
    \/ StopFiring
    \/ \E w \in Worker : ReceiveResult(w)
    \/ Return

Next ==
    \/ Coordinator
    \/ \E w \in Worker : WorkerFinish(w)
    \/ Over

Spec == Init /\ [][Next]_vars

\* The goroutine of the handler is scheduled, and every Run ends: its attempts
\* are counted and each is bounded by the timeouts of its RPC calls.
FairSpec ==
    /\ Spec
    /\ WF_vars(Coordinator /\ pc # "idle")
    /\ \A w \in Worker : WF_vars(WorkerFinish(w))

---------------------------------------------------------------------------
(* Properties *)

\* The variables hold values of the types the struct declares; the unsigned
\* amounts never go below zero (UpdateAmounts subtracts).
TypeOK ==
    /\ pc \in {"idle", "fire", "wait", "returned", "refused"}
    /\ amount \in Nat /\ splitAmount \in Nat /\ splits \in Int
    /\ Candidates \in Seq(Channel)
    /\ AmountRebalanced \in Nat /\ InFlightAmount \in Nat
    /\ TotalAttempts \in Nat /\ RebalancedAmount \in Nat
    /\ stage \in [Worker -> {"idle", "running", "sending"}]
    /\ uses \in [Worker -> Channel \cup {NoChannel}]
    /\ outcome \in [Worker -> Outcome]

\* InFlightAmount, updated by FireCandidates and UpdateAmounts in different
\* calls, is at every moment the amount of the goroutines whose result is due:
\* WaitForResult blocks on the channel exactly when somebody will send.
InFlightCountsWorkers ==
    InFlightAmount = splitAmount * Cardinality(Alive)

\* However successes, failures and new parts interleave, what was moved and
\* what is in flight together never exceed the amount the user asked for.
NeverOvershoots ==
    AmountRebalanced + InFlightAmount <= amount

\* FireCandidates never runs more goroutines at once than `splits' allows, and
\* a negative `splits' (only zero gets the default) runs none.
SplitsRespected ==
    Cardinality(Alive) <= (IF splits > 0 THEN splits ELSE 0)

\* How often a channel is queued or used by a running part.
Copies(c) ==
    Cardinality({i \in DOMAIN Candidates : Candidates[i] = c})
        + Cardinality({w \in Alive : uses[w] = c})

\* When FindCandidates finds every channel once, no two parts ever run over the
\* same candidate: it is out of the queue until its own result comes back.
ExclusiveUse ==
    \A c \in Channel : Copies(c) <= 1

\* A channel listed twice (a peer repeated in outlist or inlist) is used at most
\* twice at once: popping, firing and enqueueing never add a copy.
CandidatesNeverMultiply ==
    [][pc # "idle" => \A c \in Channel : Copies(c)' <= Copies(c)]_vars

\* When the handler returns its report no goroutine is left running, or blocked
\* for ever on a channel that nobody reads.
NoWorkerAbandoned ==
    pc = "returned" => Alive = {}

\* The report of WaitForResult, kept in sats by AddSuccessGeneric, agrees with
\* the msat account of UpdateAmounts, and counts an attempt for every success.
ReportConsistent ==
    pc = "returned" =>
        /\ MsatPerSat * RebalancedAmount = AmountRebalanced
        /\ splitAmount * TotalAttempts >= AmountRebalanced

\* A call that fired something returns: failed candidates leave the queue and
\* successful ones are bounded by the amount, so the loops of WaitForResult and
\* FireCandidates end.
Returns == pc = "fire" ~> pc = "returned"

---------------------------------------------------------------------------
(* What the call promises about the amount, whatever it does to keep it *)

Phase ==
    CASE pc = "idle" -> "new"
      [] pc \in {"fire", "wait"} -> "open"
      [] pc = "returned" -> "closed"
      [] pc = "refused" -> "refused"

Budget == INSTANCE RebalanceBudget
            WITH phase <- Phase, total <- amount, unit <- splitAmount,
                 moved <- AmountRebalanced, reserved <- InFlightAmount

\* Firing reserves a part of the budget, a result settles or releases one, and
\* the call closes only when nothing is reserved.
ImplementsBudget == Budget!Spec
=============================================================================
