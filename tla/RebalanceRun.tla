---------------------------- MODULE RebalanceRun ----------------------------
(***************************************************************************)
(* One rebalance (rebalance/rebalance.go): Run searches a route with an    *)
(* increasing limit on its hops, fires one HTLC at a time, and tries again *)
(* while the errors are temporary.  Several of them run at once, for       *)
(* circular and circular-node or as goroutines of a parallel rebalance;    *)
(* what they share here is the flag of circular-stop and circular-resume.  *)
(*                                                                         *)
(* Whether a route is found and how a payment ends is the network's        *)
(* choice.  The flag is a plain bool that is read and written without a    *)
(* lock; a read returns the value of the last write.                       *)
(*                                                                         *)
(* As in ParallelRebalance, an operator that stands before the one it      *)
(* resembles and is used by no action is a faulty variant of it.           *)
(***************************************************************************)
EXTENDS Integers

CONSTANTS
    Run,          \* calls of Run
    AttemptsArgs, \* the `attempts' parameter, an int, 0 when omitted
    MaxHopsArgs   \* the `maxhops' parameter, an int, 0 when omitted

ASSUME ArgumentsAssumption ==
    /\ AttemptsArgs \subseteq Int
    /\ MaxHopsArgs \subseteq Int

VARIABLES
    stopped,    \* Node.stopped
    pc,         \* where each call is
    Attempts,   \* Rebalance.Attempts, after defaults
    MaxHops,    \* Rebalance.MaxHops, after defaults
    i,          \* the attempt about to be made
    maxHops,    \* the limit of the current search
    routeHops,  \* hops of the last route found
    fired,      \* HTLCs handed to lightningd
    preimages,  \* preimages stored in the database
    result,     \* what Run returned
    begun       \* history: calls that began since the flag was set

parameters == <<Attempts, MaxHops>>
vars == <<stopped, pc, Attempts, MaxHops, i, maxHops, routeHops, fired,
          preimages, result, begun>>

---------------------------------------------------------------------------

DEFAULT_ATTEMPTS == 1
DEFAULT_MAXHOPS == 8
ShortestRoute == 3   \* the two channels of the node and one between them

OrDefault(arg, default) == IF arg <= 0 THEN default ELSE arg

NoResult == [status |-> "none", attempts |-> 0]

Init ==
    /\ stopped = FALSE
    /\ pc = [r \in Run |-> "idle"]
    /\ Attempts = [r \in Run |-> DEFAULT_ATTEMPTS]
    /\ MaxHops = [r \in Run |-> DEFAULT_MAXHOPS]
    /\ i = [r \in Run |-> 1]
    /\ maxHops = [r \in Run |-> ShortestRoute]
    /\ routeHops = [r \in Run |-> 0]
    /\ fired = [r \in Run |-> 0]
    /\ preimages = [r \in Run |-> 0]
    /\ result = [r \in Run |-> NoResult]
    /\ begun = {}

---------------------------------------------------------------------------
(* Setup *)

\* Setup accepts the parameters; Run begins.
Start(r) ==
    /\ pc[r] = "idle"
    /\ \E a \in AttemptsArgs, h \in MaxHopsArgs :
        /\ Attempts' = [Attempts EXCEPT ![r] = OrDefault(a, DEFAULT_ATTEMPTS)]
        /\ MaxHops' = [MaxHops EXCEPT ![r] = OrDefault(h, DEFAULT_MAXHOPS)]
    /\ pc' = [pc EXCEPT ![r] = "loop"]
    /\ begun' = IF stopped THEN begun \cup {r} ELSE begun
    /\ UNCHANGED <<stopped, i, maxHops, routeHops, fired, preimages, result>>

\* Setup refuses them: unknown, closing, disconnected or depleted channels.
Refuse(r) ==
    /\ pc[r] = "idle"
    /\ pc' = [pc EXCEPT ![r] = "refused"]
    /\ UNCHANGED <<stopped, parameters, i, maxHops, routeHops, fired, preimages,
                   result, begun>>

---------------------------------------------------------------------------
(* The loop of Run *)

FailCountingAll(r) ==
    /\ pc' = [pc EXCEPT ![r] = "done"]
    /\ result' = [result EXCEPT ![r] = [status |-> "failure", attempts |-> i[r]]]

Fail(r) ==
    /\ pc' = [pc EXCEPT ![r] = "done"]
    /\ result' = [result EXCEPT ![r] = [status |-> "failure", attempts |-> i[r] - 1]]

MayTryLonger(r) == i[r] <= Attempts[r] /\ maxHops[r] <= MaxHops[r] + 1

MayTry(r) == i[r] <= Attempts[r] /\ maxHops[r] <= MaxHops[r]

GiveUp(r) ==
    /\ pc[r] = "loop"
    /\ ~MayTry(r)
    /\ Fail(r)
    /\ UNCHANGED <<stopped, parameters, i, maxHops, routeHops, fired, preimages, begun>>

BeginAttemptUnlessRetry(r) ==
    /\ pc[r] = "loop"
    /\ MayTry(r)
    /\ stopped => i[r] = 1
    /\ pc' = [pc EXCEPT ![r] = "search"]
    /\ UNCHANGED <<stopped, parameters, i, maxHops, routeHops, fired, preimages,
                   result, begun>>

BeginAttempt(r) ==
    /\ pc[r] = "loop"
    /\ MayTry(r)
    /\ ~stopped
    /\ pc' = [pc EXCEPT ![r] = "search"]
    /\ UNCHANGED <<stopped, parameters, i, maxHops, routeHops, fired, preimages,
                   result, begun>>

AwaitResume(r) ==
    /\ pc[r] = "loop"
    /\ MayTry(r)
    /\ stopped
    /\ UNCHANGED vars

\* ErrCircularStopped
RefuseAttempt(r) ==
    /\ pc[r] = "loop"
    /\ MayTry(r)
    /\ stopped
    /\ Fail(r)
    /\ UNCHANGED <<stopped, parameters, i, maxHops, routeHops, fired, preimages, begun>>

\* The channels no longer carry the amount, or no preimage could be stored.
AttemptInvalid(r) ==
    /\ pc[r] = "search"
    /\ Fail(r)
    /\ UNCHANGED <<stopped, parameters, i, maxHops, routeHops, fired, preimages, begun>>

StorePreimage(r) == preimages' = [preimages EXCEPT ![r] = @ + 1]

NoRouteSameLimit(r) ==
    /\ pc[r] = "search"
    /\ StorePreimage(r)
    /\ pc' = [pc EXCEPT ![r] = "loop"]
    /\ UNCHANGED <<stopped, parameters, i, maxHops, routeHops, fired, result, begun>>

\* ErrNoRoute or ErrRouteTooExpensive
NoRoute(r) ==
    /\ pc[r] = "search"
    /\ StorePreimage(r)
    /\ maxHops' = [maxHops EXCEPT ![r] = @ + 1]
    /\ pc' = [pc EXCEPT ![r] = "loop"]
    /\ UNCHANGED <<stopped, parameters, i, routeHops, fired, result, begun>>

\* Any other error of the search: ErrNoSuchNode.
SearchError(r) ==
    /\ pc[r] = "search"
    /\ StorePreimage(r)
    /\ Fail(r)
    /\ UNCHANGED <<stopped, parameters, i, maxHops, routeHops, fired, begun>>

RouteFound(r) ==
    /\ pc[r] = "search"
    /\ StorePreimage(r)
    /\ \E h \in ShortestRoute..maxHops[r] : routeHops' = [routeHops EXCEPT ![r] = h]
    /\ pc' = [pc EXCEPT ![r] = "fire"]
    /\ UNCHANGED <<stopped, parameters, i, maxHops, fired, result, begun>>

CountHtlc(r) == fired' = [fired EXCEPT ![r] = @ + 1]

SendPay(r) ==
    /\ pc[r] = "fire"
    /\ CountHtlc(r)
    /\ pc' = [pc EXCEPT ![r] = "waiting"]
    /\ UNCHANGED <<stopped, parameters, i, maxHops, routeHops, preimages, result, begun>>

\* ErrFirstPeerNotReady: lightningd refused, or its answer came too late.
SendPayError(r) ==
    /\ pc[r] = "fire"
    /\ CountHtlc(r) \/ UNCHANGED fired
    /\ Fail(r)
    /\ UNCHANGED <<stopped, parameters, i, maxHops, routeHops, preimages, begun>>

Succeed(r) ==
    /\ pc[r] = "waiting"
    /\ pc' = [pc EXCEPT ![r] = "done"]
    /\ result' = [result EXCEPT ![r] = [status |-> "success", attempts |-> i[r]]]
    /\ UNCHANGED <<stopped, parameters, i, maxHops, routeHops, fired, preimages, begun>>

SendAgain(r) ==
    /\ pc[r] = "waiting"
    /\ i' = [i EXCEPT ![r] = @ + 1]
    /\ pc' = [pc EXCEPT ![r] = "fire"]
    /\ UNCHANGED <<stopped, parameters, maxHops, routeHops, fired, preimages,
                   result, begun>>

\* ErrTemporaryFailure
TryAgain(r) ==
    /\ pc[r] = "waiting"
    /\ i' = [i EXCEPT ![r] = @ + 1]
    /\ pc' = [pc EXCEPT ![r] = "loop"]
    /\ UNCHANGED <<stopped, parameters, maxHops, routeHops, fired, preimages,
                   result, begun>>

\* ErrSendPayTimeout or ErrWireFeeInsufficient
EndWithoutRetry(r) ==
    /\ pc[r] = "waiting"
    /\ Fail(r)
    /\ UNCHANGED <<stopped, parameters, i, maxHops, routeHops, fired, preimages, begun>>

---------------------------------------------------------------------------
(* circular-stop and circular-resume *)

Stop ==
    /\ stopped' = TRUE
    /\ UNCHANGED <<pc, parameters, i, maxHops, routeHops, fired, preimages, result, begun>>

Resume ==
    /\ stopped' = FALSE
    /\ begun' = {}
    /\ UNCHANGED <<pc, parameters, i, maxHops, routeHops, fired, preimages, result>>

---------------------------------------------------------------------------

\* The steps of a call after Setup.
Advance(r) ==
    \/ GiveUp(r) \/ BeginAttempt(r) \/ RefuseAttempt(r)
    \/ AttemptInvalid(r) \/ NoRoute(r) \/ SearchError(r) \/ RouteFound(r)
    \/ SendPay(r) \/ SendPayError(r)
    \/ Succeed(r) \/ TryAgain(r) \/ EndWithoutRetry(r)

Next ==
    \/ \E r \in Run : Start(r) \/ Refuse(r) \/ Advance(r)
    \/ Stop
    \/ Resume

Spec == Init /\ [][Next]_vars

\* A call that runs is scheduled, a search ends, and WaitSendPay returns by
\* its timeout; nobody has to call, stop or resume.
FairSpec == Spec /\ \A r \in Run : WF_vars(Advance(r))

---------------------------------------------------------------------------
(* Properties *)

\* Every variable keeps its type.  The limits of the loop (i never above
\* Attempts + 1, maxHops never above MaxHops + 1) are part of it, because
\* they are what ends Run.
TypeOK ==
    /\ stopped \in BOOLEAN
    /\ pc \in [Run -> {"idle", "refused", "loop", "search", "fire", "waiting", "done"}]
    /\ Attempts \in [Run -> Nat \ {0}]
    /\ MaxHops \in [Run -> Nat \ {0}]
    /\ i \in [Run -> Nat]
    /\ \A r \in Run : i[r] \in 1..Attempts[r] + 1
    /\ maxHops \in [Run -> Nat]
    /\ \A r \in Run : maxHops[r] = ShortestRoute \/ maxHops[r] \in ShortestRoute..MaxHops[r] + 1
    /\ routeHops \in [Run -> Nat]
    /\ fired \in [Run -> Nat]
    /\ preimages \in [Run -> Nat]
    /\ result \in [Run -> [status : {"none", "success", "failure"}, attempts : Nat]]
    /\ begun \in SUBSET Run

\* A call fires at most `attempts' HTLCs, whatever the errors, the searches
\* without a route and the changes of the limit in between (rebalance.go:53).
HtlcsWithinAttempts == \A r \in Run : fired[r] <= Attempts[r]

\* Every route for which an HTLC is fired has at most `maxhops' hops, though
\* the limit of a search is another counter (rebalance.go:54); a limit below
\* three fires nothing.
RoutesWithinMaxHops ==
    \A r \in Run : fired[r] > 0 => routeHops[r] <= MaxHops[r]

\* What Run reports counts the HTLCs it fired: all of them for a success; for
\* a failure all but the one whose error ended the loop (rebalance.go:65,108).
ReportCountsHtlcs ==
    \A r \in Run :
        /\ result[r].status = "success" => fired[r] = result[r].attempts
        /\ result[r].status = "failure" =>
            fired[r] \in {result[r].attempts, result[r].attempts + 1}

\* How many limits a search may try: 3, 4, ..., maxhops.
Limits(r) == IF MaxHops[r] < ShortestRoute THEN 0 ELSE MaxHops[r] - ShortestRoute + 1

\* A preimage is stored before a route is known (route.go:36): of those of a
\* call at most one per hop limit is left without an HTLC.
PreimagesBounded ==
    \A r \in Run :
        preimages[r] <= fired[r] + Limits(r)

\* "New commands will not fire htlcs until resumed" (control.go:22): a call that
\* begins after circular-stop fires none before circular-resume, whatever else
\* runs.  README.md:23 says more, "Stop `circular` from firing new htlcs", which
\* the code does not do: a call that has read the flag (rebalance.go:116) still
\* fires the HTLC whose route it searches.
NewCommandsFireNothing ==
    [][\A r \in Run : fired'[r] # fired[r] => r \notin begun]_vars

\* Every call of Run returns, however the searches and payments end.
EveryRunEnds == \A r \in Run : pc[r] = "loop" ~> pc[r] = "done"
=============================================================================
