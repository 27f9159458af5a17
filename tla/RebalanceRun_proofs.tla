------------------------- MODULE RebalanceRun_proofs -------------------------
(***************************************************************************)
(* Proofs about RebalanceRun, for any number of calls and any parameters.  *)
(*                                                                         *)
(* The counters of a call move in step: at the head of the loop as many    *)
(* HTLCs were fired as attempts were counted, and as many preimages were   *)
(* stored as attempts and raised limits were counted.  CallInv says so for *)
(* each place a call may be at; every step of a call keeps the CallInv of  *)
(* that call and does not touch the others.  HeldInv says that a call that *)
(* began while the flag was set is still held by it, or over.              *)
(***************************************************************************)
EXTENDS RebalanceRun, TLAPS

Pending(r) == result[r] = NoResult

\* The counters of a call, at each place of its code.
CallInv(r) ==
    /\ fired[r] > 0 => routeHops[r] <= MaxHops[r]
    /\ pc[r] \in {"idle", "refused"} =>
        /\ Pending(r)
        /\ i[r] = 1 /\ maxHops[r] = ShortestRoute
        /\ fired[r] = 0 /\ preimages[r] = 0
    /\ pc[r] \in {"loop", "search"} =>
        /\ Pending(r)
        /\ fired[r] = i[r] - 1
        /\ preimages[r] = i[r] - 1 + maxHops[r] - ShortestRoute
    /\ pc[r] = "fire" =>
        /\ Pending(r)
        /\ fired[r] = i[r] - 1
        /\ preimages[r] = i[r] + maxHops[r] - ShortestRoute
    /\ pc[r] = "waiting" =>
        /\ Pending(r)
        /\ fired[r] = i[r]
        /\ preimages[r] = i[r] + maxHops[r] - ShortestRoute
    /\ pc[r] \in {"search", "fire", "waiting"} => MayTry(r)
    /\ pc[r] \in {"fire", "waiting"} => routeHops[r] <= maxHops[r]
    /\ pc[r] = "done" =>
        /\ result[r].status \in {"success", "failure"}
        /\ fired[r] <= Attempts[r]
        /\ preimages[r] <= fired[r] + Limits(r)
        /\ result[r].status = "success" => fired[r] = result[r].attempts
        /\ result[r].status = "failure" =>
            fired[r] \in {result[r].attempts, result[r].attempts + 1}

HeldInv == \A r \in begun : stopped /\ pc[r] \in {"loop", "done"}

IInv ==
    /\ TypeOK
    /\ \A r \in Run : CallInv(r)
    /\ HeldInv

---------------------------------------------------------------------------

\* The defaults are positive, whatever the arguments.
LEMMA DefaultsPositive ==
    ASSUME NEW arg \in Int, NEW default \in Nat \ {0}
    PROVE  OrDefault(arg, default) \in Nat \ {0}
BY DEF OrDefault

\* The initial state satisfies the invariant.
LEMMA InitIInv == Init => IInv
<1> SUFFICES ASSUME Init PROVE IInv
    OBVIOUS
<1> USE DEF Init, NoResult, ShortestRoute, DEFAULT_ATTEMPTS, DEFAULT_MAXHOPS
<1>1. TypeOK
  <2>1. /\ stopped \in BOOLEAN /\ begun \in SUBSET Run
        /\ pc \in [Run -> {"idle", "refused", "loop", "search", "fire", "waiting", "done"}]
    BY Zenon
  <2>2. /\ Attempts \in [Run -> Nat \ {0}] /\ MaxHops \in [Run -> Nat \ {0}]
        /\ i \in [Run -> Nat] /\ maxHops \in [Run -> Nat]
        /\ routeHops \in [Run -> Nat] /\ fired \in [Run -> Nat]
        /\ preimages \in [Run -> Nat]
    OBVIOUS
  <2>3. result \in [Run -> [status : {"none", "success", "failure"}, attempts : Nat]]
    OBVIOUS
  <2>4. ASSUME NEW r \in Run
        PROVE  maxHops[r] = ShortestRoute /\ i[r] \in 1..Attempts[r] + 1
    OBVIOUS
  <2>. QED BY <2>1, <2>2, <2>3, <2>4 DEF TypeOK
<1>2. ASSUME NEW r \in Run PROVE CallInv(r)
  BY DEF CallInv, Pending, MayTry
<1>3. HeldInv
  BY DEF HeldInv
<1>. QED BY <1>1, <1>2, <1>3 DEF IInv

\* Every step of the loop of Run keeps the invariant.
LEMMA AdvanceKeepsIInv ==
    ASSUME IInv, NEW r \in Run, Advance(r)
    PROVE  IInv'
<1> USE DEF IInv, TypeOK, CallInv, HeldInv, Pending, NoResult,
            ShortestRoute, MayTry, Limits, parameters
<1>1. CASE GiveUp(r) BY <1>1 DEF GiveUp, Fail
<1>2. CASE BeginAttempt(r) BY <1>2 DEF BeginAttempt
<1>3. CASE RefuseAttempt(r) BY <1>3 DEF RefuseAttempt, Fail
<1>4. CASE AttemptInvalid(r) BY <1>4 DEF AttemptInvalid, Fail
<1>5. CASE NoRoute(r) BY <1>5 DEF NoRoute, StorePreimage
<1>6. CASE SearchError(r) BY <1>6 DEF SearchError, StorePreimage, Fail
<1>7. CASE RouteFound(r) BY <1>7 DEF RouteFound, StorePreimage
<1>8. CASE SendPay(r) BY <1>8 DEF SendPay, CountHtlc
<1>9. CASE SendPayError(r)
  <2>1. CASE CountHtlc(r)
    BY <1>9, <2>1 DEF SendPayError, CountHtlc, Fail
  <2>2. CASE UNCHANGED fired
    BY <1>9, <2>2 DEF SendPayError, Fail
  <2>. QED BY <1>9, <2>1, <2>2 DEF SendPayError
<1>10. CASE Succeed(r) BY <1>10 DEF Succeed
<1>11. CASE TryAgain(r) BY <1>11 DEF TryAgain
<1>12. CASE EndWithoutRetry(r) BY <1>12 DEF EndWithoutRetry, Fail
<1>. QED BY <1>1, <1>2, <1>3, <1>4, <1>5, <1>6, <1>7, <1>8, <1>9, <1>10, <1>11,
            <1>12 DEF Advance

\* So does every step that begins a call or changes the flag.
LEMMA NextKeepsIInv == IInv /\ [Next]_vars => IInv'
<1> SUFFICES ASSUME IInv, [Next]_vars PROVE IInv'
    OBVIOUS
<1>1. ASSUME NEW r \in Run, Start(r) PROVE IInv'
  <2>1. PICK a \in AttemptsArgs, h \in MaxHopsArgs :
            /\ Attempts' = [Attempts EXCEPT ![r] = OrDefault(a, DEFAULT_ATTEMPTS)]
            /\ MaxHops' = [MaxHops EXCEPT ![r] = OrDefault(h, DEFAULT_MAXHOPS)]
    BY <1>1 DEF Start
  <2>2. /\ OrDefault(a, DEFAULT_ATTEMPTS) \in Nat \ {0}
        /\ OrDefault(h, DEFAULT_MAXHOPS) \in Nat \ {0}
    BY ArgumentsAssumption, DefaultsPositive DEF DEFAULT_ATTEMPTS, DEFAULT_MAXHOPS
  <2>3. pc[r] = "idle" /\ pc' = [pc EXCEPT ![r] = "loop"]
    BY <1>1 DEF Start
  <2>4. UNCHANGED <<stopped, i, maxHops, routeHops, fired, preimages, result>>
    BY <1>1 DEF Start
  <2>8. begun' = IF stopped THEN begun \cup {r} ELSE begun
    BY <1>1 DEF Start
  <2>5. TypeOK'
    BY <2>1, <2>2, <2>3, <2>4, <2>8 DEF IInv, TypeOK, CallInv, ShortestRoute
  <2>6. ASSUME NEW q \in Run PROVE CallInv(q)'
    BY <2>1, <2>2, <2>3, <2>4 DEF IInv, TypeOK, CallInv, Pending, MayTry, Limits,
       ShortestRoute
  <2>7. HeldInv'
    BY <2>3, <2>4, <2>8 DEF IInv, TypeOK, HeldInv
  <2>. QED BY <2>5, <2>6, <2>7 DEF IInv
<1>2. ASSUME NEW r \in Run, Refuse(r) PROVE IInv'
  BY <1>2 DEF Refuse, IInv, TypeOK, CallInv, HeldInv, Pending, MayTry, Limits,
     parameters
<1>3. ASSUME NEW r \in Run, Advance(r) PROVE IInv'
  BY <1>3, AdvanceKeepsIInv
<1>4. ASSUME Stop PROVE IInv'
  <2>1. TypeOK' /\ HeldInv'
    BY <1>4 DEF Stop, IInv, TypeOK, HeldInv, parameters
  <2>2. ASSUME NEW r \in Run PROVE CallInv(r)'
    BY <1>4 DEF Stop, IInv, CallInv, Pending, MayTry, Limits, parameters
  <2>. QED BY <2>1, <2>2 DEF IInv
<1>5. ASSUME Resume PROVE IInv'
  <2>1. TypeOK' /\ HeldInv'
    BY <1>5 DEF Resume, IInv, TypeOK, HeldInv, parameters
  <2>2. ASSUME NEW r \in Run PROVE CallInv(r)'
    BY <1>5 DEF Resume, IInv, CallInv, Pending, MayTry, Limits, parameters
  <2>. QED BY <2>1, <2>2 DEF IInv
<1>6. ASSUME UNCHANGED vars PROVE IInv'
  BY <1>6 DEF vars, IInv, TypeOK, CallInv, HeldInv, Pending, MayTry, Limits
<1>. QED BY <1>1, <1>2, <1>3, <1>4, <1>5, <1>6 DEF Next

\* Every reachable state satisfies the invariant.
THEOREM Invariance == Spec => []IInv
BY InitIInv, NextKeepsIInv, PTL DEF Spec

---------------------------------------------------------------------------

\* The places of the code a call may be at.
LEMMA PlacesOfCall ==
    ASSUME TypeOK, NEW r \in Run
    PROVE  pc[r] \in {"idle", "refused", "loop", "search", "fire", "waiting", "done"}
BY DEF TypeOK

\* The counters of Run stay within the limits of its loop.
THEOREM TypeCorrect == Spec => []TypeOK
<1>1. IInv => TypeOK BY DEF IInv
<1>. QED BY <1>1, Invariance, PTL

\* No call fires more HTLCs than `attempts', for every value of attempts.
THEOREM AttemptsRespected == Spec => []HtlcsWithinAttempts
<1>1. ASSUME IInv, NEW r \in Run PROVE fired[r] <= Attempts[r]
  BY <1>1, PlacesOfCall DEF IInv, TypeOK, CallInv, MayTry
<1>2. IInv => HtlcsWithinAttempts
  BY <1>1 DEF HtlcsWithinAttempts
<1>. QED BY <1>2, Invariance, PTL

\* No HTLC is fired over more than `maxhops' hops.
THEOREM HopsRespected == Spec => []RoutesWithinMaxHops
<1>1. IInv => RoutesWithinMaxHops
  BY DEF IInv, CallInv, RoutesWithinMaxHops
<1>. QED BY <1>1, Invariance, PTL

\* The attempts Run reports are the HTLCs it fired, less the one whose error
\* ended a failing call.
THEOREM ReportCorrect == Spec => []ReportCountsHtlcs
<1>1. ASSUME IInv, NEW r \in Run, pc[r] # "done" PROVE result[r].status = "none"
  BY <1>1, PlacesOfCall DEF IInv, CallInv, Pending, NoResult
<1>2. IInv => ReportCountsHtlcs
  BY <1>1 DEF IInv, CallInv, ReportCountsHtlcs
<1>. QED BY <1>2, Invariance, PTL

\* A call leaves at most one unused preimage per hop limit it may try.
THEOREM FewPreimages == Spec => []PreimagesBounded
<1>1. ASSUME IInv, NEW r \in Run PROVE preimages[r] <= fired[r] + Limits(r)
  BY <1>1, PlacesOfCall DEF IInv, TypeOK, CallInv, MayTry, Limits, ShortestRoute
<1>2. IInv => PreimagesBounded
  BY <1>1 DEF PreimagesBounded
<1>. QED BY <1>2, Invariance, PTL

\* A call that begins after circular-stop fires nothing before circular-resume.
THEOREM StopCorrect == Spec => NewCommandsFireNothing
<1>1. IInv /\ [Next]_vars => [\A r \in Run : fired'[r] # fired[r] => r \notin begun]_vars
  <2> SUFFICES ASSUME IInv, Next, NEW r \in Run, fired'[r] # fired[r]
               PROVE  r \notin begun
      BY DEF vars
  <2>1. PICK q \in Run : Advance(q)
    BY DEF Next, Start, Refuse, Stop, Resume
  <2>2. CountHtlc(q) /\ pc[q] = "fire"
    BY <2>1 DEF Advance, GiveUp, BeginAttempt, RefuseAttempt, AttemptInvalid, NoRoute,
       SearchError, RouteFound, SendPay, SendPayError, Succeed, TryAgain, EndWithoutRetry
  <2>3. q = r
    BY <2>2 DEF CountHtlc, IInv, TypeOK
  <2>. QED BY <2>2, <2>3 DEF IInv, HeldInv
<1>. QED BY <1>1, Invariance, PTL DEF Spec, NewCommandsFireNothing
=============================================================================
