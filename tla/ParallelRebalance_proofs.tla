---------------------- MODULE ParallelRebalance_proofs ----------------------
(***************************************************************************)
(* Proofs about ParallelRebalance, for every set of workers, channels and  *)
(* candidate lists and every choice of the parameters of the call.         *)
(***************************************************************************)
EXTENDS PullPush, FiniteSetTheorems, TLAPS

---------------------------------------------------------------------------
(* Arithmetic of parts *)

\* If a parts of size u are less than b parts of size u, one more part fits:
\* why the loop condition of FireCandidates is enough not to overshoot.
LEMMA RoomForOneMore ==
    ASSUME NEW u \in Nat, NEW a \in Nat, NEW b \in Nat, u * a < u * b
    PROVE  u * a + u <= u * b
<1>1. a < b
  <2>1. ASSUME b <= a PROVE FALSE
    <3>1. PICK d \in Nat : a = b + d
      <4>1. a - b \in Nat BY <2>1
      <4>2. a = b + (a - b) OBVIOUS
      <4> QED BY <4>1, <4>2
    <3>2. u * a = u * b + u * d BY <3>1
    <3>3. u * d >= 0 OBVIOUS
    <3> QED BY <3>2, <3>3
  <2> QED BY <2>1
<1>2. PICK d \in Nat : b = a + 1 + d
  <2>1. b - a - 1 \in Nat BY <1>1
  <2>2. b = a + 1 + (b - a - 1) OBVIOUS
  <2> QED BY <2>1, <2>2
<1>3. u * b = u * a + u + u * d BY <1>2
<1>4. u * d >= 0 OBVIOUS
<1> QED BY <1>3, <1>4

\* InFlightAmount / splitAmount is the number of parts in flight.
LEMMA CountingParts ==
    ASSUME NEW u \in Nat \ {0}, NEW n \in Nat
    PROVE  (u * n) \div u = n
OBVIOUS

\* An amount is a whole number of parts as ValidGenericParameters checks it.
LEMMA WholeNumberOfParts ==
    ASSUME NEW u \in Nat \ {0}, NEW x \in Nat
    PROVE  (x % u = 0) <=> (\E n \in Nat : x = u * n)
<1>1. x \div u \in Nat /\ x = u * (x \div u) + (x % u)
  OBVIOUS
<1>2. ASSUME NEW n \in Nat, x = u * n PROVE x % u = 0
  <2>1. x \div u = n BY <1>2, CountingParts
  <2> QED BY <1>1, <1>2, <2>1
<1>3. ASSUME x % u = 0 PROVE x = u * (x \div u)
  BY <1>1, <1>3
<1> QED BY <1>1, <1>2, <1>3

\* No part amounts to nothing.
LEMMA NoParts ==
    ASSUME NEW u \in Nat \ {0}
    PROVE  u * 0 = 0 /\ 0 % u = 0
<1>1. u * 0 = 0 OBVIOUS
<1> QED BY <1>1, WholeNumberOfParts

---------------------------------------------------------------------------
(* The inductive invariant *)

Started == pc \in {"fire", "wait", "returned"}

\* Nothing is counted before the parameters are accepted.
NothingBeforeStart ==
    ~Started =>
        /\ Alive = {}
        /\ AmountRebalanced = 0 /\ InFlightAmount = 0
        /\ TotalAttempts = 0 /\ RebalancedAmount = 0

\* Every amount is a whole number of parts, and a part a whole number of sats.
WholeParts ==
    Started =>
        /\ splitAmount \in Nat \ {0}
        /\ splitAmount % MsatPerSat = 0
        /\ amount % splitAmount = 0
        /\ AmountRebalanced % splitAmount = 0

\* A goroutine that was fired runs over a candidate of the queue.
BusyWorkersUseChannels == \A w \in Alive : uses[w] \in Channel

\* The two accounts of ReportConsistent agree after every step.
AccountsAgree ==
    /\ MsatPerSat * RebalancedAmount = AmountRebalanced
    /\ splitAmount * TotalAttempts >= AmountRebalanced

IInv ==
    /\ TypeOK
    /\ NothingBeforeStart
    /\ WholeParts
    /\ BusyWorkersUseChannels
    /\ InFlightCountsWorkers
    /\ NeverOvershoots
    /\ SplitsRespected
    /\ NoWorkerAbandoned
    /\ AccountsAgree

\* Before the call there is no amount and no goroutine.
THEOREM InitIInv == Init => IInv
<1> SUFFICES ASSUME Init PROVE IInv OBVIOUS
<1>1. Alive = {} BY DEF Init, Alive
<1>2. Cardinality(Alive) = 0 BY <1>1, FS_EmptySet
<1>3. TypeOK
  BY ArgumentsAssumption DEF Init, TypeOK, Outcome, NoOutcome
<1> QED BY <1>1, <1>2, <1>3 DEF Init, IInv, NothingBeforeStart, WholeParts, Started,
         BusyWorkersUseChannels, InFlightCountsWorkers, NeverOvershoots,
         SplitsRespected, NoWorkerAbandoned, AccountsAgree, MsatPerSat

---------------------------------------------------------------------------
(* How an action changes the goroutines that are alive *)

\* There are finitely many goroutines, and their number is a natural number.
LEMMA AliveFinite == IsFiniteSet(Alive) /\ Cardinality(Alive) \in Nat
<1>1. Alive \subseteq Worker BY DEF Alive
<1>2. IsFiniteSet(Alive) BY <1>1, WorkersAssumption, FS_Subset
<1> QED BY <1>2, FS_CardinalityType

\* Fire adds one goroutine.
LEMMA FireAddsWorker ==
    ASSUME TypeOK, NEW w \in Worker, FireCandidate(w)
    PROVE  /\ w \notin Alive
           /\ Alive' = Alive \cup {w}
           /\ Cardinality(Alive') = Cardinality(Alive) + 1
<1>1. w \notin Alive BY DEF FireCandidate, Alive
<1>2. Alive' = Alive \cup {w} BY DEF FireCandidate, Alive, TypeOK
<1> QED BY <1>1, <1>2, AliveFinite, FS_AddElement

\* Receiving a result removes the goroutine that sent it.
LEMMA ReceiveRemovesWorker ==
    ASSUME TypeOK, NEW w \in Worker, ReceiveResult(w)
    PROVE  /\ w \in Alive
           /\ Alive' = Alive \ {w}
           /\ Cardinality(Alive) \in Nat \ {0}
           /\ Cardinality(Alive') = Cardinality(Alive) - 1
<1>1. w \in Alive BY DEF ReceiveResult, Alive
<1>2. Alive' = Alive \ {w} BY DEF ReceiveResult, Alive, TypeOK
<1>3. Cardinality(Alive) # 0 BY <1>1, AliveFinite, FS_EmptySet
<1> QED BY <1>1, <1>2, <1>3, AliveFinite, FS_RemoveElement

---------------------------------------------------------------------------
(* Every action keeps the inductive invariant *)

\* Accept: the parameters are whole numbers of parts, and nothing is counted.
LEMMA AcceptKeepsIInv == IInv /\ Accept => IInv'
<1> SUFFICES ASSUME IInv, Accept PROVE IInv'
  OBVIOUS
<1> USE DEF IInv, Started
<1>1. pc = "idle" /\ pc' = "fire" /\ UNCHANGED workers
  BY DEF Accept
<1>2. PICK a \in AmountArgs, sa \in SplitAmountArgs, s \in SplitsArgs :
        /\ amount' = MsatPerSat * OrDefault(a, DEFAULT_AMOUNT)
        /\ splitAmount' = MsatPerSat * OrDefault(sa, DEFAULT_SPLIT_AMOUNT)
        /\ splits' = OrDefault(s, DEFAULT_SPLITS)
  BY DEF Accept
<1>3. amount' \in Nat /\ splits' \in Int
  BY <1>2, ArgumentsAssumption
     DEF OrDefault, MsatPerSat, DEFAULT_AMOUNT, DEFAULT_SPLITS
<1>4. splitAmount' \in Nat \ {0} /\ splitAmount' % MsatPerSat = 0
  <2>1. PICK u \in Nat \ {0} : splitAmount' = MsatPerSat * u
    BY <1>2, ArgumentsAssumption DEF OrDefault, DEFAULT_SPLIT_AMOUNT
  <2> QED BY <2>1 DEF MsatPerSat
<1>5. Alive' = Alive
  BY <1>1 DEF Alive, workers
<1>6. /\ Alive = {} /\ AmountRebalanced' = 0 /\ InFlightAmount' = 0
      /\ TotalAttempts' = 0 /\ RebalancedAmount' = 0
  BY <1>1 DEF Accept, NothingBeforeStart
<1>7. Cardinality(Alive') = 0
  BY <1>5, <1>6, FS_EmptySet
<1>8. TypeOK'
  <2>1. Candidates' \in Seq(Channel) BY ChannelsAssumption DEF Accept
  <2> QED BY <1>1, <1>3, <1>4, <1>6, <2>1 DEF TypeOK, workers
<1>9. amount' % splitAmount' = 0
  BY DEF Accept, ValidGenericParameters
<1>10. 0 % splitAmount' = 0 /\ splitAmount' * 0 = 0
  BY <1>4, NoParts
<1>11. WholeParts'
  BY <1>4, <1>6, <1>9, <1>10 DEF WholeParts
<1>12. (BusyWorkersUseChannels /\ NothingBeforeStart /\ NoWorkerAbandoned)'
  BY <1>1, <1>5, <1>6 DEF workers, BusyWorkersUseChannels, NothingBeforeStart, NoWorkerAbandoned
<1>13. (InFlightCountsWorkers /\ AccountsAgree)'
  BY <1>6, <1>7, <1>10 DEF InFlightCountsWorkers, AccountsAgree, MsatPerSat
<1>14. (NeverOvershoots /\ SplitsRespected)'
  BY <1>3, <1>6, <1>7 DEF NeverOvershoots, SplitsRespected
<1> QED BY <1>8, <1>11, <1>12, <1>13, <1>14

\* FireCandidate: one more part fits into the amount and into the splits.
LEMMA FireKeepsIInv ==
    ASSUME IInv, NEW w \in Worker, FireCandidate(w)
    PROVE  IInv'
<1> USE DEF IInv, Started
<1>1. /\ w \notin Alive
      /\ Alive' = Alive \cup {w}
      /\ Cardinality(Alive') = Cardinality(Alive) + 1
  BY FireAddsWorker
<1>2. pc = "fire" /\ pc' = "fire" /\ UNCHANGED parameters
  BY DEF FireCandidate
<1>3. splitAmount \in Nat \ {0} /\ amount \in Nat /\ AmountRebalanced \in Nat
      /\ InFlightAmount \in Nat /\ splits \in Int
  BY <1>2 DEF TypeOK, WholeParts
<1>4. InFlightAmount' = InFlightAmount + splitAmount /\ AmountRebalanced' = AmountRebalanced
  BY DEF FireCandidate
<1>5. DEFINE n == Cardinality(Alive)
<1>6. n \in Nat /\ InFlightAmount = splitAmount * n
  BY AliveFinite DEF InFlightCountsWorkers
<1>7. InFlightCountsWorkers'
  BY <1>1, <1>2, <1>3, <1>4, <1>6 DEF InFlightCountsWorkers, parameters
<1>8. NeverOvershoots'
  <2>1. PICK k \in Nat : amount = splitAmount * k
    BY <1>2, <1>3, WholeNumberOfParts DEF WholeParts
  <2>2. PICK m \in Nat : AmountRebalanced = splitAmount * m
    BY <1>2, <1>3, WholeNumberOfParts DEF WholeParts
  <2>3. AmountRebalanced + InFlightAmount = splitAmount * (m + n)
    BY <1>3, <1>6, <2>2
  <2>4. splitAmount * (m + n) < splitAmount * k
    BY <2>1, <2>3 DEF FireCandidate, MayFire, CarryOn
  <2>5. splitAmount * (m + n) + splitAmount <= splitAmount * k
    BY <1>3, <1>6, <2>4, RoomForOneMore
  <2> QED BY <1>2, <1>3, <1>4, <2>1, <2>3, <2>5 DEF NeverOvershoots, parameters
<1>9. SplitsRespected'
  <2>1. InFlightAmount \div splitAmount = n
    BY <1>3, <1>6, CountingParts
  <2>2. n < splits
    BY <2>1 DEF FireCandidate, MayFire
  <2> QED BY <1>1, <1>2, <1>3, <1>6, <2>2 DEF SplitsRespected, parameters
<1>10. Candidates # <<>> /\ Candidates \in Seq(Channel)
  BY DEF FireCandidate, TypeOK
<1>11. Head(Candidates) \in Channel /\ Tail(Candidates) \in Seq(Channel)
  BY <1>10
<1>12. TypeOK'
  BY <1>2, <1>3, <1>4, <1>11 DEF TypeOK, FireCandidate, PopFront, parameters
<1>13. BusyWorkersUseChannels'
  BY <1>1, <1>11 DEF BusyWorkersUseChannels, FireCandidate, TypeOK
<1>14. (NothingBeforeStart /\ WholeParts /\ NoWorkerAbandoned /\ AccountsAgree)'
  BY <1>2, <1>4
     DEF NothingBeforeStart, WholeParts, NoWorkerAbandoned, AccountsAgree, FireCandidate,
         parameters
<1> QED BY <1>7, <1>8, <1>9, <1>12, <1>13, <1>14

\* A success took at least one attempt.
LEMMA OutcomeFields ==
    ASSUME NEW o \in Outcome
    PROVE  /\ o.success \in BOOLEAN
           /\ o.attempts \in Nat
           /\ o.success => o.attempts >= 1
<1>1. CASE o \in [success : {TRUE}, attempts : 1..MaxAttempts]
  <2>1. o.success \in {TRUE} /\ o.attempts \in 1..MaxAttempts BY <1>1
  <2>2. o.attempts \in Nat /\ o.attempts >= 1 BY <2>1, ArgumentsAssumption
  <2> QED BY <2>1, <2>2
<1>2. CASE o \in [success : {FALSE}, attempts : 0..MaxAttempts]
  <2>1. o.success \in {FALSE} /\ o.attempts \in 0..MaxAttempts BY <1>2
  <2>2. o.attempts \in Nat BY <2>1, ArgumentsAssumption
  <2> QED BY <2>1, <2>2, Zenon
<1> QED BY <1>1, <1>2 DEF Outcome

\* ReceiveResult: the part leaves what is in flight, and a success moves it.
LEMMA ReceiveKeepsIInv ==
    ASSUME IInv, NEW w \in Worker, ReceiveResult(w)
    PROVE  IInv'
<1> USE DEF IInv, Started
<1>1. /\ w \in Alive
      /\ Alive' = Alive \ {w}
      /\ Cardinality(Alive) \in Nat \ {0}
      /\ Cardinality(Alive') = Cardinality(Alive) - 1
  BY ReceiveRemovesWorker
<1>2. pc = "wait" /\ pc' = "fire" /\ UNCHANGED parameters
  BY DEF ReceiveResult
<1>3. /\ splitAmount \in Nat \ {0} /\ splitAmount % MsatPerSat = 0
      /\ amount \in Nat /\ AmountRebalanced \in Nat /\ InFlightAmount \in Nat
      /\ TotalAttempts \in Nat /\ RebalancedAmount \in Nat /\ splits \in Int
  BY <1>2 DEF TypeOK, WholeParts
<1>4. outcome[w] \in Outcome
  BY DEF TypeOK
<1>5. outcome[w].success \in BOOLEAN /\ outcome[w].attempts \in Nat
  BY <1>4, OutcomeFields
<1>6. outcome[w].success => outcome[w].attempts >= 1
  BY <1>4, OutcomeFields
<1>7. InFlightAmount' = InFlightAmount - splitAmount
  BY DEF ReceiveResult, UpdateAmounts
<1>8. DEFINE n == Cardinality(Alive')
<1>9. /\ n \in Nat
      /\ InFlightAmount = splitAmount * (n + 1)
      /\ InFlightAmount' = splitAmount * n
  <2>1. n \in Nat /\ Cardinality(Alive) = n + 1
    BY <1>1
  <2>2. InFlightAmount = splitAmount * (n + 1)
    BY <2>1 DEF InFlightCountsWorkers
  <2> QED BY <1>3, <1>7, <2>1, <2>2
<1>10. InFlightCountsWorkers'
  BY <1>2, <1>9 DEF InFlightCountsWorkers, parameters
<1>11. InFlightAmount' \in Nat
  BY <1>3, <1>9
<1>12. \/ /\ outcome[w].success
          /\ AmountRebalanced' = AmountRebalanced + splitAmount
          /\ RebalancedAmount' = RebalancedAmount + splitAmount \div MsatPerSat
       \/ /\ ~outcome[w].success
          /\ AmountRebalanced' = AmountRebalanced
          /\ RebalancedAmount' = RebalancedAmount
  BY <1>5 DEF ReceiveResult, UpdateAmounts, AddSuccess
<1>13. NeverOvershoots'
  BY <1>2, <1>3, <1>7, <1>11, <1>12 DEF NeverOvershoots, parameters
<1>14. SplitsRespected'
  BY <1>1, <1>2, <1>3 DEF SplitsRespected, parameters
<1>15. WholeParts'
  <2>1. PICK m \in Nat : AmountRebalanced = splitAmount * m
    BY <1>2, <1>3, WholeNumberOfParts DEF WholeParts
  <2>2. AmountRebalanced + splitAmount = splitAmount * (m + 1)
    BY <1>3, <2>1
  <2>3. (AmountRebalanced + splitAmount) % splitAmount = 0
    <3>1. AmountRebalanced + splitAmount \in Nat /\ m + 1 \in Nat BY <1>3
    <3> QED BY <1>3, <2>2, <3>1, WholeNumberOfParts
  <2>4. AmountRebalanced' % splitAmount = 0
    BY <1>2, <1>12, <2>3 DEF WholeParts
  <2> QED BY <1>2, <1>3, <2>4 DEF WholeParts, parameters
<1>16. AccountsAgree'
  <2>1. /\ splitAmount \div MsatPerSat \in Nat
        /\ MsatPerSat * (splitAmount \div MsatPerSat) = splitAmount
    BY <1>3 DEF MsatPerSat
  <2>2. MsatPerSat * RebalancedAmount' = AmountRebalanced'
    BY <1>3, <1>12, <2>1 DEF AccountsAgree, MsatPerSat
  <2>3. TotalAttempts' = TotalAttempts + outcome[w].attempts
    BY DEF ReceiveResult
  <2>4. splitAmount * TotalAttempts'
          = splitAmount * TotalAttempts + splitAmount * outcome[w].attempts
    BY <1>3, <1>5, <2>3
  <2>5. splitAmount * outcome[w].attempts >= (IF outcome[w].success THEN splitAmount ELSE 0)
    <3>1. PICK k \in Nat : outcome[w].attempts = k + (IF outcome[w].success THEN 1 ELSE 0)
      <4>1. CASE outcome[w].success
        <5>1. outcome[w].attempts - 1 \in Nat BY <1>5, <1>6, <4>1
        <5>2. outcome[w].attempts = (outcome[w].attempts - 1) + 1 BY <1>5
        <5> QED BY <4>1, <5>1, <5>2
      <4>2. CASE ~outcome[w].success
        BY <1>5, <4>2
      <4> QED BY <4>1, <4>2
    <3>2. splitAmount * k >= 0
      BY <1>3
    <3>3. CASE outcome[w].success
      <4>1. splitAmount * (k + 1) = splitAmount * k + splitAmount BY <1>3
      <4> QED BY <1>3, <3>1, <3>2, <3>3, <4>1
    <3>4. CASE ~outcome[w].success
      BY <1>3, <3>1, <3>2, <3>4
    <3> QED BY <3>3, <3>4
  <2>6. splitAmount * TotalAttempts \in Nat /\ splitAmount * outcome[w].attempts \in Nat
    BY <1>3, <1>5
  <2>7. splitAmount * TotalAttempts' >= AmountRebalanced'
    BY <1>3, <1>12, <2>4, <2>5, <2>6 DEF AccountsAgree
  <2> QED BY <1>2, <2>2, <2>7 DEF AccountsAgree, parameters
<1>17. Candidates' \in Seq(Channel)
  <2>1. uses[w] \in Channel /\ Candidates \in Seq(Channel)
    BY <1>1 DEF BusyWorkersUseChannels, TypeOK
  <2>2. <<uses[w]>> \o Candidates \in Seq(Channel)
    BY <2>1
  <2> QED BY <2>1, <2>2 DEF ReceiveResult, EnqueueCandidate
<1>18. TypeOK'
  <2>1. NoOutcome \in Outcome
    BY ArgumentsAssumption DEF NoOutcome, Outcome
  <2>2. AmountRebalanced' \in Nat /\ RebalancedAmount' \in Nat /\ TotalAttempts' \in Nat
    <3>1. splitAmount \div MsatPerSat \in Nat BY <1>3 DEF MsatPerSat
    <3>2. TotalAttempts' \in Nat BY <1>3, <1>5 DEF ReceiveResult
    <3> QED BY <1>3, <1>12, <3>1, <3>2
  <2>3. /\ stage' \in [Worker -> {"idle", "running", "sending"}]
        /\ uses' \in [Worker -> Channel \cup {NoChannel}]
        /\ outcome' \in [Worker -> Outcome]
    BY <2>1 DEF TypeOK, ReceiveResult
  <2> QED BY <1>2, <1>3, <1>11, <1>17, <2>2, <2>3 DEF TypeOK, parameters
<1>19. BusyWorkersUseChannels'
  BY <1>1 DEF BusyWorkersUseChannels, ReceiveResult, TypeOK
<1> QED BY <1>2, <1>10, <1>13, <1>14, <1>15, <1>16, <1>18, <1>19
     DEF NothingBeforeStart, NoWorkerAbandoned

\* WorkerFinish: the goroutine stays alive until its result is received.
LEMMA FinishKeepsIInv ==
    ASSUME IInv, NEW w \in Worker, WorkerFinish(w)
    PROVE  IInv'
<1> USE DEF IInv, Started
<1>1. Alive' = Alive
  BY DEF WorkerFinish, Alive, TypeOK
<1>2. UNCHANGED <<pc, parameters, Candidates, AmountRebalanced, InFlightAmount,
                  TotalAttempts, RebalancedAmount, uses>>
  BY DEF WorkerFinish
<1>3. TypeOK'
  BY <1>2 DEF TypeOK, WorkerFinish, parameters
<1> QED BY <1>1, <1>2, <1>3 DEF NothingBeforeStart, WholeParts, BusyWorkersUseChannels,
         InFlightCountsWorkers, NeverOvershoots, SplitsRespected, NoWorkerAbandoned,
         AccountsAgree, parameters

\* The other actions of the handler move its pc, or drop a candidate.
LEMMA BookkeepingKeepsIInv ==
    ASSUME IInv, Refuse \/ SkipCandidate \/ StopFiring \/ Return \/ UNCHANGED vars
    PROVE  IInv'
<1> USE DEF IInv, Started
<1>1. /\ UNCHANGED <<parameters, AmountRebalanced, InFlightAmount, TotalAttempts,
                     RebalancedAmount, workers>>
      /\ Alive' = Alive
  BY DEF Refuse, SkipCandidate, StopFiring, Return, vars, workers, parameters, Alive
<1>2. pc' \in {"idle", "fire", "wait", "returned", "refused"}
  BY DEF Refuse, SkipCandidate, StopFiring, Return, vars, TypeOK
<1>3. Candidates' \in Seq(Channel)
  <2>1. Candidates \in Seq(Channel)
    BY DEF TypeOK
  <2>2. CASE SkipCandidate
    <3>1. Candidates # <<>> /\ Candidates' = Tail(Candidates)
      BY <2>2 DEF SkipCandidate, PopFront
    <3> QED BY <2>1, <3>1
  <2>3. CASE Refuse \/ StopFiring \/ Return \/ UNCHANGED vars
    BY <2>1, <2>3 DEF Refuse, StopFiring, Return, vars
  <2> QED BY <2>2, <2>3
<1>4. TypeOK'
  BY <1>1, <1>2, <1>3 DEF TypeOK, parameters, workers
<1>5. Started' => Started
  BY DEF Refuse, SkipCandidate, StopFiring, Return, vars
<1>6. Started => (Started' \/ pc' = "refused")
  BY DEF Refuse, SkipCandidate, StopFiring, Return, vars
<1>7. ~Started' => ~Started
  BY DEF Refuse, SkipCandidate, StopFiring, Return, vars
<1>8. NoWorkerAbandoned'
  <2>1. CASE Return
    <3>1. splitAmount \in Nat \ {0} /\ splitAmount * Cardinality(Alive) = 0
      BY <2>1 DEF Return, WholeParts, InFlightCountsWorkers
    <3>2. Cardinality(Alive) = 0
      BY <3>1, AliveFinite
    <3>3. Alive = {}
      BY <3>2, AliveFinite, FS_EmptySet
    <3> QED BY <1>1, <3>3 DEF NoWorkerAbandoned
  <2>2. CASE Refuse \/ SkipCandidate \/ StopFiring \/ UNCHANGED vars
    BY <1>1, <2>2 DEF NoWorkerAbandoned, Refuse, SkipCandidate, StopFiring, vars
  <2> QED BY <2>1, <2>2
<1>9. (BusyWorkersUseChannels /\ AccountsAgree /\ NeverOvershoots)'
  BY <1>1 DEF BusyWorkersUseChannels, AccountsAgree, NeverOvershoots, parameters, workers
<1>10. (InFlightCountsWorkers /\ SplitsRespected)'
  BY <1>1 DEF InFlightCountsWorkers, SplitsRespected, parameters
<1>11. (WholeParts /\ NothingBeforeStart)'
  BY <1>1, <1>5, <1>7 DEF WholeParts, NothingBeforeStart, parameters
<1> QED BY <1>4, <1>8, <1>9, <1>10, <1>11

\* The inductive invariant is kept by every step of the call.
THEOREM NextKeepsIInv == IInv /\ [Next]_vars => IInv'
<1> SUFFICES ASSUME IInv, [Next]_vars PROVE IInv'
  OBVIOUS
<1>1. CASE Accept
  BY <1>1, AcceptKeepsIInv
<1>2. CASE Refuse \/ SkipCandidate \/ StopFiring \/ Return \/ UNCHANGED vars
  BY <1>2, BookkeepingKeepsIInv
<1>3. CASE \E w \in Worker : FireCandidate(w)
  BY <1>3, FireKeepsIInv
<1>4. CASE \E w \in Worker : ReceiveResult(w)
  BY <1>4, ReceiveKeepsIInv
<1>5. CASE \E w \in Worker : WorkerFinish(w)
  BY <1>5, FinishKeepsIInv
<1>6. CASE Over
  BY <1>6, BookkeepingKeepsIInv DEF Over
<1> QED BY <1>1, <1>2, <1>3, <1>4, <1>5, <1>6 DEF Next, Coordinator

\* Every reachable state satisfies the inductive invariant.
THEOREM Invariance == Spec => []IInv
<1> QED BY InitIInv, NextKeepsIInv, PTL DEF Spec

---------------------------------------------------------------------------
(* What follows from it *)

\* The state of a call is well typed: no unsigned amount goes below zero.
THEOREM TypeCorrect == Spec => []TypeOK
<1>1. IInv => TypeOK BY DEF IInv
<1> QED BY <1>1, Invariance, PTL

\* The handler's account of what is in flight is the goroutines it fired.
THEOREM InFlightCorrect == Spec => []InFlightCountsWorkers
<1>1. IInv => InFlightCountsWorkers BY DEF IInv
<1> QED BY <1>1, Invariance, PTL

\* No schedule of parts moves or reserves more than the amount asked for.
THEOREM NoOvershoot == Spec => []NeverOvershoots
<1>1. IInv => NeverOvershoots BY DEF IInv
<1> QED BY <1>1, Invariance, PTL

\* No schedule runs more goroutines at once than the call allows.
THEOREM BoundedSplits == Spec => []SplitsRespected
<1>1. IInv => SplitsRespected BY DEF IInv
<1> QED BY <1>1, Invariance, PTL

\* When the handler returns, no goroutine is left behind.
THEOREM NothingAbandoned == Spec => []NoWorkerAbandoned
<1>1. IInv => NoWorkerAbandoned BY DEF IInv
<1> QED BY <1>1, Invariance, PTL

\* The report in sats agrees with the account in msat.
THEOREM ReportCorrect == Spec => []ReportConsistent
<1>1. IInv => ReportConsistent BY DEF IInv, AccountsAgree, ReportConsistent
<1> QED BY <1>1, Invariance, PTL

---------------------------------------------------------------------------
(* Exclusive use of a candidate *)

Repeats(list) == \E i, j \in DOMAIN list : i # j /\ list[i] = list[j]

\* FindCandidates found every channel once: no peer is repeated in the list of
\* peers it was given.
DistinctCandidates == \A list \in CandidateLists : ~Repeats(list)

\* No channel is queued twice, used twice, or both queued and used.
Exclusive ==
    /\ ~Repeats(Candidates)
    /\ \A w \in Alive : \A i \in DOMAIN Candidates : Candidates[i] # uses[w]
    /\ \A v, w \in Alive : uses[v] = uses[w] => v = w

\* Popping the front of the queue keeps the queue free of repetitions, and the
\* candidate it returns is in the queue no more.
LEMMA PopFrontOfDistinct ==
    ASSUME NEW q \in Seq(Channel), q # <<>>, ~Repeats(q)
    PROVE  /\ ~Repeats(Tail(q))
           /\ \A i \in DOMAIN Tail(q) : Tail(q)[i] # Head(q)
           /\ \A i \in DOMAIN Tail(q) : \E j \in DOMAIN q : Tail(q)[i] = q[j]
<1>1. /\ Len(q) \in Nat \ {0} /\ DOMAIN q = 1..Len(q)
      /\ DOMAIN Tail(q) = 1..(Len(q) - 1)
      /\ Head(q) = q[1] /\ 1 \in DOMAIN q
  OBVIOUS
<1>2. \A i \in DOMAIN Tail(q) : i + 1 \in DOMAIN q /\ i + 1 # 1 /\ Tail(q)[i] = q[i + 1]
  BY <1>1
<1>3. \A i \in DOMAIN Tail(q) : Tail(q)[i] # Head(q)
  BY <1>1, <1>2 DEF Repeats
<1>4. ASSUME Repeats(Tail(q)) PROVE FALSE
  <2>1. PICK i \in DOMAIN Tail(q), j \in DOMAIN Tail(q) : i # j /\ Tail(q)[i] = Tail(q)[j]
    BY <1>4 DEF Repeats
  <2>2. i + 1 # j + 1
    BY <1>1, <2>1
  <2> QED BY <1>2, <2>1, <2>2 DEF Repeats
<1> QED BY <1>2, <1>3, <1>4

\* Pushing a channel that is not queued in front keeps the queue free of
\* repetitions.
LEMMA PushFrontOfDistinct ==
    ASSUME NEW q \in Seq(Channel), NEW c \in Channel, ~Repeats(q),
           \A i \in DOMAIN q : q[i] # c
    PROVE  /\ ~Repeats(<<c>> \o q)
           /\ \A i \in DOMAIN (<<c>> \o q) :
                (<<c>> \o q)[i] = c \/ \E j \in DOMAIN q : (<<c>> \o q)[i] = q[j]
<1> DEFINE r == <<c>> \o q
<1>1. /\ Len(q) \in Nat /\ DOMAIN q = 1..Len(q)
      /\ DOMAIN r = 1..(Len(q) + 1)
      /\ r[1] = c
      /\ \A i \in 2..(Len(q) + 1) : r[i] = q[i - 1]
  OBVIOUS
<1>2. \A i \in DOMAIN r : i = 1 \/ (i - 1 \in DOMAIN q /\ r[i] = q[i - 1])
  BY <1>1
<1>3. ASSUME Repeats(r) PROVE FALSE
  <2>1. PICK i \in DOMAIN r, j \in DOMAIN r : i # j /\ r[i] = r[j]
    BY <1>3 DEF Repeats
  <2>2. i \in Int /\ j \in Int
    BY <1>1
  <2>3. i # 1 /\ j # 1
    BY <1>1, <1>2, <2>1
  <2>4. i - 1 # j - 1
    BY <2>1, <2>2
  <2> HIDE DEF r
  <2> QED BY <1>2, <2>1, <2>3, <2>4 DEF Repeats
<1> QED BY <1>1, <1>2, <1>3

\* Exclusive bounds the number of copies of a channel.
LEMMA ExclusiveImpliesUse ==
    ASSUME TypeOK, Exclusive PROVE ExclusiveUse
<1> SUFFICES ASSUME NEW c \in Channel PROVE Copies(c) <= 1
  BY DEF ExclusiveUse
<1> DEFINE Q == {i \in DOMAIN Candidates : Candidates[i] = c}
           U == {w \in Alive : uses[w] = c}
<1>1. Q = {} \/ \E i : Q = {i}
  BY DEF Exclusive, Repeats
<1>2. U = {} \/ \E w : U = {w}
  BY DEF Exclusive
<1>3. Q = {} \/ U = {}
  BY DEF Exclusive
<1>4. Cardinality({}) = 0 /\ \A x : Cardinality({x}) = 1
  BY FS_EmptySet, FS_Singleton
<1>5. Cardinality(Q) \in {0, 1} /\ Cardinality(U) \in {0, 1}
  BY <1>1, <1>2, <1>4
<1>6. Cardinality(Q) = 0 \/ Cardinality(U) = 0
  BY <1>3, <1>4
<1>7. Copies(c) = Cardinality(Q) + Cardinality(U)
  BY DEF Copies
<1> HIDE DEF Q, U
<1> QED BY <1>5, <1>6, <1>7

\* Exclusive use is kept by every step.
LEMMA NextKeepsExclusive ==
    ASSUME DistinctCandidates, IInv, Exclusive, [Next]_vars
    PROVE  Exclusive'
<1> TypeOK /\ Candidates \in Seq(Channel)
  BY DEF IInv, TypeOK
<1>1. CASE Accept
  <2>1. Alive' = {}
    BY <1>1 DEF Accept, IInv, NothingBeforeStart, Started, Alive, workers
  <2>2. ~Repeats(Candidates')
    BY <1>1 DEF Accept, DistinctCandidates
  <2> QED BY <2>1, <2>2 DEF Exclusive
<1>2. CASE SkipCandidate
  <2>1. Candidates # <<>> /\ Candidates' = Tail(Candidates) /\ Alive' = Alive /\ uses' = uses
    BY <1>2 DEF SkipCandidate, PopFront, workers, Alive
  <2> QED BY <2>1, PopFrontOfDistinct DEF Exclusive
<1>3. ASSUME NEW w \in Worker, FireCandidate(w) PROVE Exclusive'
  <2>1. w \notin Alive /\ Alive' = Alive \cup {w}
    BY <1>3, FireAddsWorker
  <2>2. /\ Candidates # <<>> /\ Candidates' = Tail(Candidates)
        /\ uses' = [uses EXCEPT ![w] = Head(Candidates)]
    BY <1>3 DEF FireCandidate, PopFront
  <2>3. uses'[w] = Head(Candidates) /\ \A v \in Alive : uses'[v] = uses[v] /\ v # w
    BY <2>1, <2>2 DEF TypeOK, Alive
  <2>4. Head(Candidates) = Candidates[1] /\ 1 \in DOMAIN Candidates
    BY <2>2
  <2>5. \A v \in Alive : uses'[v] # uses'[w]
    BY <2>3, <2>4 DEF Exclusive
  <2>6. /\ ~Repeats(Tail(Candidates))
        /\ \A i \in DOMAIN Tail(Candidates) : Tail(Candidates)[i] # Head(Candidates)
        /\ \A i \in DOMAIN Tail(Candidates) :
             \E j \in DOMAIN Candidates : Tail(Candidates)[i] = Candidates[j]
    BY <2>2, PopFrontOfDistinct DEF Exclusive
  <2>7. \A v \in Alive' : \A i \in DOMAIN Candidates' : Candidates'[i] # uses'[v]
    BY <2>1, <2>2, <2>3, <2>6 DEF Exclusive
  <2>8. \A u, v \in Alive' : uses'[u] = uses'[v] => u = v
    BY <2>1, <2>3, <2>5 DEF Exclusive
  <2> QED BY <2>2, <2>6, <2>7, <2>8 DEF Exclusive
<1>4. ASSUME NEW w \in Worker, ReceiveResult(w) PROVE Exclusive'
  <2>1. w \in Alive /\ Alive' = Alive \ {w}
    BY <1>4, ReceiveRemovesWorker
  <2>2. \A v \in Alive' : uses'[v] = uses[v] /\ v # w /\ v \in Alive
    BY <1>4, <2>1 DEF ReceiveResult, TypeOK, Alive
  <2>3. \A u, v \in Alive' : uses'[u] = uses'[v] => u = v
    BY <2>2 DEF Exclusive
  <2>4. uses[w] \in Channel
    BY <2>1 DEF IInv, BusyWorkersUseChannels
  <2>5. CASE UNCHANGED Candidates
    BY <2>2, <2>3, <2>5 DEF Exclusive
  <2>6. CASE Candidates' = <<uses[w]>> \o Candidates
    <3>1. \A i \in DOMAIN Candidates : Candidates[i] # uses[w]
      BY <2>1 DEF Exclusive
    <3>2. /\ ~Repeats(Candidates')
          /\ \A i \in DOMAIN Candidates' :
               Candidates'[i] = uses[w] \/ \E j \in DOMAIN Candidates : Candidates'[i] = Candidates[j]
      BY <2>4, <2>6, <3>1, PushFrontOfDistinct DEF Exclusive
    <3>3. \A v \in Alive' : uses'[v] # uses[w]
      BY <2>1, <2>2 DEF Exclusive
    <3>4. \A v \in Alive' : \A i \in DOMAIN Candidates' : Candidates'[i] # uses'[v]
      BY <2>2, <3>2, <3>3 DEF Exclusive
    <3> QED BY <2>3, <3>2, <3>4 DEF Exclusive
  <2> QED BY <1>4, <2>5, <2>6 DEF ReceiveResult, EnqueueCandidate
<1>5. ASSUME NEW w \in Worker, WorkerFinish(w) PROVE Exclusive'
  <2>1. Alive' = Alive
    BY <1>5 DEF WorkerFinish, Alive, TypeOK
  <2> QED BY <1>5, <2>1 DEF Exclusive, WorkerFinish
<1>6. CASE Refuse \/ StopFiring \/ Return \/ Over \/ UNCHANGED vars
  <2>1. Alive' = Alive /\ UNCHANGED <<Candidates, uses>>
    BY <1>6 DEF Refuse, StopFiring, Return, Over, vars, workers, Alive
  <2> QED BY <2>1 DEF Exclusive
<1> QED BY <1>1, <1>2, <1>3, <1>4, <1>5, <1>6 DEF Next, Coordinator

\* When every channel was found once, no schedule of successes and failures
\* runs two parts over one candidate.
THEOREM CandidatesUsedExclusively == DistinctCandidates => (Spec => []ExclusiveUse)
<1> SUFFICES ASSUME DistinctCandidates PROVE Spec => []ExclusiveUse
  OBVIOUS
<1>1. Init => Exclusive
  <2> SUFFICES ASSUME Init PROVE Exclusive OBVIOUS
  <2>1. Alive = {} BY DEF Init, Alive
  <2>2. ~Repeats(<<>>) BY DEF Repeats
  <2> QED BY <2>1, <2>2 DEF Init, Exclusive
<1>2. IInv /\ Exclusive /\ [Next]_vars => Exclusive'
  BY NextKeepsExclusive
<1>3. IInv /\ Exclusive => ExclusiveUse
  BY ExclusiveImpliesUse DEF IInv
<1> QED BY <1>1, <1>2, <1>3, Invariance, PTL DEF Spec

---------------------------------------------------------------------------
(* Copies of a candidate: in the queue, or used by a goroutine *)

Queued(q, c) == Cardinality({i \in DOMAIN q : q[i] = c})
Users(c) == {w \in Alive : uses[w] = c}
One(b) == IF b THEN 1 ELSE 0

\* What PopFront takes from the queue is one copy of the candidate in front.
LEMMA PopFrontTakesOne ==
    ASSUME NEW q \in Seq(Channel), q # <<>>, NEW c
    PROVE  /\ Queued(q, c) \in Nat /\ Queued(Tail(q), c) \in Nat
           /\ Queued(q, c) = Queued(Tail(q), c) + One(Head(q) = c)
<1> DEFINE A == {i \in DOMAIN q : q[i] = c}
           B == {i \in DOMAIN Tail(q) : Tail(q)[i] = c}
           C == {i \in A : i # 1}
<1>1. /\ Len(q) \in Nat \ {0} /\ DOMAIN q = 1..Len(q)
      /\ DOMAIN Tail(q) = 1..(Len(q) - 1)
      /\ Head(q) = q[1] /\ 1 \in DOMAIN q
      /\ \A i \in 1..(Len(q) - 1) : Tail(q)[i] = q[i + 1]
  OBVIOUS
<1>2. IsFiniteSet(A) /\ IsFiniteSet(B) /\ IsFiniteSet(C)
  <2>1. IsFiniteSet(1..Len(q)) /\ IsFiniteSet(1..(Len(q) - 1))
    BY <1>1, FS_Interval
  <2>2. A \subseteq 1..Len(q) /\ B \subseteq 1..(Len(q) - 1) /\ C \subseteq 1..Len(q)
    BY <1>1
  <2> HIDE DEF A, B, C
  <2> QED BY <2>1, <2>2, FS_Subset
<1>3. Cardinality(A) \in Nat /\ Cardinality(B) \in Nat
  BY <1>2, FS_CardinalityType
<1>4. Cardinality(B) = Cardinality(C)
  <2> DEFINE f == [i \in B |-> i + 1]
  <2>1. \A i \in B : f[i] \in C
    BY <1>1
  <2>2. \A i, j \in B : f[i] = f[j] => i = j
    BY <1>1
  <2>3. \A k \in C : \E i \in B : f[i] = k
    <3> SUFFICES ASSUME NEW k \in C PROVE k - 1 \in B /\ f[k - 1] = k
      OBVIOUS
    <3>1. k \in 2..Len(q) /\ q[k] = c
      BY <1>1
    <3>2. k - 1 \in 1..(Len(q) - 1) /\ (k - 1) + 1 = k
      BY <1>1, <3>1
    <3> QED BY <1>1, <3>1, <3>2
  <2>4. f \in [B -> C]
    BY <2>1
  <2>5. f \in Bijection(B, C)
    <3> HIDE DEF f, B, C
    <3> QED BY <2>2, <2>3, <2>4 DEF Bijection, Injection, Surjection, IsInjective
  <2>6. ExistsBijection(B, C)
    BY <2>5 DEF ExistsBijection
  <2> HIDE DEF B, C
  <2> QED BY <1>2, <2>6, FS_Bijection
<1>5. Queued(q, c) = Cardinality(A) /\ Queued(Tail(q), c) = Cardinality(B)
  BY DEF Queued
<1>6. Cardinality(A) = Cardinality(C) + One(Head(q) = c)
  <2>1. A = (IF q[1] = c THEN C \cup {1} ELSE C) /\ 1 \notin C
    BY <1>1
  <2>2. Cardinality(C) \in Nat
    BY <1>3, <1>4
  <2> HIDE DEF A, C
  <2> QED BY <1>1, <1>2, <2>1, <2>2, FS_AddElement DEF One
<1> HIDE DEF A, B, C
<1> QED BY <1>3, <1>4, <1>5, <1>6

\* A copy of a queue is counted by a number.
LEMMA QueuedIsNumber ==
    ASSUME NEW q \in Seq(Channel), NEW c
    PROVE  Queued(q, c) \in Nat
<1>1. CASE q = <<>>
  <2>1. {i \in DOMAIN <<>> : <<>>[i] = c} = {}
    OBVIOUS
  <2> QED BY <1>1, <2>1, FS_EmptySet DEF Queued
<1>2. CASE q # <<>>
  BY <1>2, PopFrontTakesOne
<1> QED BY <1>1, <1>2

\* What EnqueueCandidate pushes is one copy of the candidate.
LEMMA PushFrontAddsOne ==
    ASSUME NEW q \in Seq(Channel), NEW d \in Channel, NEW c
    PROVE  /\ Queued(q, c) \in Nat /\ Queued(<<d>> \o q, c) \in Nat
           /\ Queued(<<d>> \o q, c) = Queued(q, c) + One(d = c)
<1> DEFINE r == <<d>> \o q
<1>1. r \in Seq(Channel) /\ r # <<>> /\ Head(r) = d
  OBVIOUS
<1>2. Tail(r) = q
  OBVIOUS
<1> HIDE DEF r
<1>3. /\ Queued(r, c) \in Nat /\ Queued(Tail(r), c) \in Nat
      /\ Queued(r, c) = Queued(Tail(r), c) + One(Head(r) = c)
  BY <1>1, PopFrontTakesOne
<1>4. /\ Queued(q, c) \in Nat /\ Queued(r, c) \in Nat
      /\ Queued(r, c) = Queued(q, c) + One(d = c)
  BY <1>1, <1>2, <1>3
<1> QED BY <1>4 DEF r

\* The copies of a channel are those in the queue and those of goroutines.
LEMMA CopiesAre ==
    ASSUME TypeOK, NEW c
    PROVE  /\ Copies(c) = Queued(Candidates, c) + Cardinality(Users(c))
           /\ IsFiniteSet(Users(c)) /\ Cardinality(Users(c)) \in Nat
           /\ Queued(Candidates, c) \in Nat
<1>1. Users(c) \subseteq Alive
  BY DEF Users
<1>2. IsFiniteSet(Users(c)) /\ Cardinality(Users(c)) \in Nat
  BY <1>1, AliveFinite, FS_Subset, FS_CardinalityType
<1>3. Queued(Candidates, c) \in Nat
  BY QueuedIsNumber DEF TypeOK
<1> QED BY <1>2, <1>3 DEF Copies, Queued, Users

\* A goroutine is fired with the copy that PopFront took from the queue.
LEMMA FireKeepsCopies ==
    ASSUME TypeOK, TypeOK', NEW w \in Worker, FireCandidate(w), NEW c
    PROVE  Copies(c)' = Copies(c)
<1>1. w \notin Alive /\ Alive' = Alive \cup {w}
  BY FireAddsWorker
<1>2. Candidates # <<>> /\ Candidates' = Tail(Candidates) /\ Candidates \in Seq(Channel)
  BY DEF FireCandidate, PopFront, TypeOK
<1>3. uses'[w] = Head(Candidates) /\ \A v \in Alive : uses'[v] = uses[v]
  BY <1>1 DEF FireCandidate, TypeOK, Alive
<1>4. Users(c)' = IF Head(Candidates) = c THEN Users(c) \cup {w} ELSE Users(c)
  BY <1>1, <1>3 DEF Users
<1>5. w \notin Users(c)
  BY <1>1 DEF Users
<1>6. IsFiniteSet(Users(c)) /\ Cardinality(Users(c)) \in Nat
  BY CopiesAre
<1>7. Cardinality(Users(c)') = Cardinality(Users(c)) + One(Head(Candidates) = c)
  <2>1. CASE Head(Candidates) = c
    <3>1. Users(c)' = Users(c) \cup {w} /\ One(Head(Candidates) = c) = 1
      BY <1>4, <2>1 DEF One
    <3>2. Cardinality(Users(c) \cup {w}) = Cardinality(Users(c)) + 1
      BY <1>5, <1>6, FS_AddElement
    <3> QED BY <3>1, <3>2
  <2>2. CASE Head(Candidates) # c
    BY <1>4, <1>6, <2>2 DEF One
  <2> QED BY <2>1, <2>2
<1>8. /\ Queued(Candidates, c) \in Nat /\ Queued(Candidates', c) \in Nat
      /\ Queued(Candidates, c) = Queued(Candidates', c) + One(Head(Candidates) = c)
  BY <1>2, PopFrontTakesOne
<1>9. /\ Copies(c) = Queued(Candidates, c) + Cardinality(Users(c))
      /\ Copies(c)' = Queued(Candidates', c) + Cardinality(Users(c)')
  BY <1>2 DEF Copies, Queued, Users
<1>10. One(Head(Candidates) = c) \in Nat
  BY DEF One
<1> QED BY <1>6, <1>7, <1>8, <1>9, <1>10

\* A result gives back the copy its goroutine used, or loses it.
LEMMA ReceiveAddsNoCopy ==
    ASSUME TypeOK, BusyWorkersUseChannels, NEW w \in Worker, ReceiveResult(w), NEW c
    PROVE  Copies(c)' <= Copies(c)
<1>1. w \in Alive /\ Alive' = Alive \ {w}
  BY ReceiveRemovesWorker
<1>2. uses[w] \in Channel /\ Candidates \in Seq(Channel)
  BY <1>1 DEF BusyWorkersUseChannels, TypeOK
<1>3. \A v \in Alive' : uses'[v] = uses[v]
  BY <1>1 DEF ReceiveResult, TypeOK, Alive
<1>4. Users(c)' = IF uses[w] = c THEN Users(c) \ {w} ELSE Users(c)
  BY <1>1, <1>3 DEF Users
<1>5. uses[w] = c => w \in Users(c)
  BY <1>1 DEF Users
<1>6. IsFiniteSet(Users(c)) /\ Cardinality(Users(c)) \in Nat /\ Queued(Candidates, c) \in Nat
  BY CopiesAre
<1>7. Cardinality(Users(c)') = Cardinality(Users(c)) - One(uses[w] = c)
  <2>1. CASE uses[w] = c
    <3>1. Users(c)' = Users(c) \ {w} /\ w \in Users(c) /\ One(uses[w] = c) = 1
      BY <1>4, <1>5, <2>1 DEF One
    <3>2. Cardinality(Users(c) \ {w}) = Cardinality(Users(c)) - 1
      BY <1>6, <3>1, FS_RemoveElement
    <3> QED BY <3>1, <3>2
  <2>2. CASE uses[w] # c
    BY <1>4, <1>6, <2>2 DEF One
  <2> QED BY <2>1, <2>2
<1>8. Queued(Candidates', c) \in {Queued(Candidates, c), Queued(Candidates, c) + One(uses[w] = c)}
  <2>1. Candidates' = Candidates \/ Candidates' = <<uses[w]>> \o Candidates
    BY DEF ReceiveResult, EnqueueCandidate
  <2>2. Queued(<<uses[w]>> \o Candidates, c) = Queued(Candidates, c) + One(uses[w] = c)
    BY <1>2, PushFrontAddsOne
  <2> QED BY <2>1, <2>2
<1>9. /\ Copies(c) = Queued(Candidates, c) + Cardinality(Users(c))
      /\ Copies(c)' = Queued(Candidates', c) + Cardinality(Users(c)')
  BY DEF Copies, Queued, Users
<1>10. One(uses[w] = c) \in Nat
  BY DEF One
<1> QED BY <1>6, <1>7, <1>8, <1>9, <1>10

\* No step of a call that began makes a copy.
LEMMA StepAddsNoCopy ==
    ASSUME TypeOK, TypeOK', BusyWorkersUseChannels, [Next]_vars, pc # "idle", NEW c
    PROVE  Copies(c)' <= Copies(c)
<1>1. Copies(c) \in Nat
  BY CopiesAre
<1>2. ASSUME NEW w \in Worker, FireCandidate(w) PROVE Copies(c)' <= Copies(c)
  BY <1>1, <1>2, FireKeepsCopies
<1>3. ASSUME NEW w \in Worker, ReceiveResult(w) PROVE Copies(c)' <= Copies(c)
  BY <1>3, ReceiveAddsNoCopy
<1>4. CASE SkipCandidate
  <2>1. /\ Candidates # <<>> /\ Candidates' = Tail(Candidates) /\ Candidates \in Seq(Channel)
        /\ UNCHANGED <<stage, uses>>
    BY <1>4 DEF SkipCandidate, PopFront, workers, TypeOK
  <2>2. /\ Queued(Candidates, c) \in Nat /\ Queued(Candidates', c) \in Nat
        /\ Queued(Candidates, c) = Queued(Candidates', c) + One(Head(Candidates) = c)
    BY <2>1, PopFrontTakesOne
  <2>3. Users(c)' = Users(c)
    BY <2>1 DEF Users, Alive
  <2>4. Cardinality(Users(c)) \in Nat /\ One(Head(Candidates) = c) \in Nat
    BY CopiesAre DEF One
  <2>5. /\ Copies(c) = Queued(Candidates, c) + Cardinality(Users(c))
        /\ Copies(c)' = Queued(Candidates', c) + Cardinality(Users(c)')
    BY DEF Copies, Queued, Users
  <2> QED BY <2>2, <2>3, <2>4, <2>5
<1>5. ASSUME NEW w \in Worker, WorkerFinish(w) PROVE Copies(c)' <= Copies(c)
  <2>1. Alive' = Alive /\ UNCHANGED <<Candidates, uses>>
    BY <1>5 DEF WorkerFinish, Alive, TypeOK
  <2>2. Copies(c)' = Copies(c)
    BY <2>1 DEF Copies
  <2> QED BY <1>1, <2>2
<1>6. CASE Accept \/ Refuse \/ StopFiring \/ Return \/ Over \/ UNCHANGED vars
  <2>1. Alive' = Alive /\ UNCHANGED <<Candidates, uses>>
    BY <1>6 DEF Accept, Refuse, StopFiring, Return, Over, vars, workers, Alive
  <2>2. Copies(c)' = Copies(c)
    BY <2>1 DEF Copies
  <2> QED BY <1>1, <2>2
<1> QED BY <1>2, <1>3, <1>4, <1>5, <1>6 DEF Next, Coordinator

\* Whatever its goroutines answer, and however often a candidate goes back to the
\* queue, a call never has more copies of a channel than it found.
THEOREM NoCopyIsMade == Spec => CandidatesNeverMultiply
<1>1. IInv /\ IInv' /\ [Next]_vars =>
        [pc # "idle" => \A c \in Channel : Copies(c)' <= Copies(c)]_vars
  <2> SUFFICES ASSUME IInv, IInv', [Next]_vars, pc # "idle", NEW c \in Channel
               PROVE  Copies(c)' <= Copies(c)
    OBVIOUS
  <2> QED BY StepAddsNoCopy DEF IInv
<1> QED BY <1>1, Invariance, PTL DEF Spec, CandidatesNeverMultiply

---------------------------------------------------------------------------
(* The call implements the budget *)

\* Every step of the call is a step of the budget, or leaves it unchanged.
LEMMA StepImplementsBudget ==
    ASSUME IInv, IInv', [Next]_vars
    PROVE  [Budget!Next]_(Budget!vars)
<1> USE DEF Phase, Budget!vars
<1>1. CASE Accept
  <2>1. Phase = "new" /\ Phase' = "open"
    BY <1>1 DEF Accept
  <2>2. splitAmount' \in Nat \ {0} /\ amount' \in Nat
    BY <1>1 DEF Accept, IInv, WholeParts, Started, TypeOK
  <2>3. amount' >= splitAmount' /\ amount' % splitAmount' = 0
    BY <1>1 DEF Accept, ValidGenericParameters
  <2>4. UNCHANGED <<AmountRebalanced, InFlightAmount>>
    BY <1>1 DEF Accept
  <2>5. Budget!Start
    BY <2>1, <2>2, <2>3, <2>4 DEF Budget!Start
  <2> QED BY <2>5 DEF Budget!Next
<1>2. CASE Refuse
  <2>1. Budget!Refuse
    BY <1>2 DEF Refuse, Budget!Refuse, parameters
  <2> QED BY <2>1 DEF Budget!Next
<1>3. ASSUME NEW w \in Worker, FireCandidate(w)
      PROVE  [Budget!Next]_(Budget!vars)
  <2>1. Phase = "open" /\ Phase' = "open" /\ UNCHANGED <<amount, splitAmount, AmountRebalanced>>
    BY <1>3 DEF FireCandidate, parameters
  <2>2. InFlightAmount' = InFlightAmount + splitAmount
    BY <1>3 DEF FireCandidate
  <2>3. AmountRebalanced + InFlightAmount + splitAmount <= amount
    BY <2>1, <2>2 DEF IInv, TypeOK, NeverOvershoots
  <2>4. Budget!Reserve
    BY <2>1, <2>2, <2>3 DEF Budget!Reserve
  <2> QED BY <2>4 DEF Budget!Next
<1>4. ASSUME NEW w \in Worker, ReceiveResult(w)
      PROVE  [Budget!Next]_(Budget!vars)
  <2>1. Phase = "open" /\ Phase' = "open" /\ UNCHANGED <<amount, splitAmount>>
    BY <1>4 DEF ReceiveResult, parameters
  <2>2. InFlightAmount' = InFlightAmount - splitAmount
    BY <1>4 DEF ReceiveResult, UpdateAmounts
  <2>3. InFlightAmount >= splitAmount
    BY <2>1, <2>2 DEF IInv, TypeOK
  <2>4. CASE outcome[w].success
    <3>1. AmountRebalanced' = AmountRebalanced + splitAmount
      BY <1>4, <2>4 DEF ReceiveResult, UpdateAmounts
    <3>2. Budget!Settle
      BY <2>1, <2>2, <2>3, <3>1 DEF Budget!Settle
    <3> QED BY <3>2 DEF Budget!Next
  <2>5. CASE ~outcome[w].success
    <3>1. AmountRebalanced' = AmountRebalanced
      BY <1>4, <2>5 DEF ReceiveResult, UpdateAmounts
    <3>2. Budget!Release
      BY <2>1, <2>2, <2>3, <3>1 DEF Budget!Release
    <3> QED BY <3>2 DEF Budget!Next
  <2> QED BY <2>4, <2>5
<1>5. CASE Return
  <2>1. Budget!Close
    BY <1>5 DEF Return, Budget!Close, parameters
  <2> QED BY <2>1 DEF Budget!Next
<1>6. CASE SkipCandidate \/ StopFiring \/ Over \/ UNCHANGED vars
  BY <1>6 DEF SkipCandidate, StopFiring, Over, vars, parameters
<1>7. CASE \E w \in Worker : WorkerFinish(w)
  BY <1>7 DEF WorkerFinish, parameters
<1> QED BY <1>1, <1>2, <1>3, <1>4, <1>5, <1>6, <1>7 DEF Next, Coordinator

\* However it schedules its parts, a call spends its amount as the budget
\* allows: reserve, then settle or release, and close with nothing reserved.
THEOREM CallImplementsBudget == Spec => ImplementsBudget
<1>1. Init => Budget!Init
  BY DEF Init, Budget!Init, Phase
<1>2. IInv /\ IInv' /\ [Next]_vars => [Budget!Next]_(Budget!vars)
  BY StepImplementsBudget
<1> QED BY <1>1, <1>2, Invariance, PTL DEF Spec, ImplementsBudget, Budget!Spec

---------------------------------------------------------------------------
(* circular-pull and circular-push are parallel rebalances: what they add,   *)
(* the choice of the candidates and the table of balances, takes behaviours  *)
(* away and never touches the account of the call.  So what is proved of     *)
(* ParallelRebalance holds of them.                                          *)

\* Every call of circular-pull or circular-push is a call that ParallelRebalance
\* describes, whatever refreshes, events and late HTLCs do to the table.
THEOREM PullPushIsParallelRebalance == PSpec => Spec
<1>1. PInit => Init
    BY DEF PInit
<1>2. ASSUME [PNext]_pvars PROVE [Next]_vars
    <2>1. CASE Call
        BY <2>1 DEF Call, Next, Coordinator
    <2>2. CASE (Refuse \/ StopFiring \/ Return) /\ UNCHANGED <<call, table, node>>
        BY <2>2 DEF Next, Coordinator
    <2>3. CASE Skip
        BY <2>3 DEF Skip, Next, Coordinator
    <2>4. ASSUME NEW w \in Worker, Fire(w) \/ Receive(w) PROVE [Next]_vars
        BY <2>4 DEF Fire, Receive, Next, Coordinator
    <2>5. ASSUME NEW w \in Worker, Run(w) PROVE [Next]_vars
        BY <2>5 DEF Run, Next
    <2>6. ASSUME NEW c \in Channel, SettleLate(c) \/ OnDisconnect(c) PROVE UNCHANGED vars
        BY <2>6 DEF SettleLate, OnDisconnect
    <2>7. CASE ListPeers \/ refreshPeers
        BY <2>7 DEF ListPeers, refreshPeers
    <2>8. CASE Over /\ UNCHANGED <<call, table, node>>
        BY <2>8 DEF Over
    <2>9. CASE UNCHANGED pvars
        BY <2>9 DEF pvars
    <2>. QED
        BY <1>2, <2>1, <2>2, <2>3, <2>4, <2>5, <2>6, <2>7, <2>8, <2>9 DEF PNext, Handler
<1>. QED
    BY <1>1, <1>2, PTL DEF PSpec, Spec

\* A pull or a push never has more in flight and moved than its amount, and what
\* it waits for is what its goroutines will send.
THEOREM PullPushNeverOvershoots == PSpec => [](NeverOvershoots /\ InFlightCountsWorkers)
    BY PullPushIsParallelRebalance, NoOvershoot, InFlightCorrect, PTL

---------------------------------------------------------------------------
(* What is left of a channel *)

Kinds == {"pull", "push"}

\* One more part, one part less, and more parts.
LEMMA CountOfParts ==
    ASSUME NEW u \in Nat, NEW x \in Int
    PROVE  /\ u * x \in Int
           /\ u * (x + 1) = u * x + u
           /\ u * (x - 1) = u * x - u
           /\ \A y \in Int : x <= y => u * x <= u * y
<1>1. /\ u * x \in Int
      /\ u * (x + 1) = u * x + u
      /\ u * (x - 1) = u * x - u
  OBVIOUS
<1>2. ASSUME NEW y \in Int, x <= y PROVE u * x <= u * y
  <2>1. PICK d \in Nat : y = x + d
    <3>1. y - x \in Nat /\ y = x + (y - x)
      BY <1>2
    <3> QED BY <3>1
  <2>2. u * y = u * x + u * d
    BY <2>1
  <2>3. u * d >= 0 /\ u * d \in Int
    OBVIOUS
  <2> QED BY <1>1, <2>2, <2>3
<1> QED BY <1>1, <1>2

\* The rest of a balance that the channel can hold, and any other.
LEMMA LeftIs ==
    ASSUME NEW k, NEW b \in Int
    PROVE  /\ Left(k, b) \in Int
           /\ b \in 0..Total => Left(k, b) = IF k = "pull" THEN b ELSE Total - b
<1>1. Total \in Nat /\ Word \in Nat \ {0} /\ Total < Word
  BY CandidatesAssumption
<1>2. \A x \in Int : x % Word \in Int
  BY <1>1
<1>3. \A x \in Int : x >= 0 /\ x < Word => x % Word = x
  BY <1>1
<1>4. Total - b \in Int /\ (b \in 0..Total => Total - b >= 0 /\ Total - b < Word)
  BY <1>1
<1> QED BY <1>2, <1>3, <1>4 DEF Left

\* What a channel can pay leaves it that much poorer, and no balance beyond what
\* it can hold.
LEMMA PartSettles ==
    ASSUME kind \in Kinds, NEW x \in Nat, NEW b \in 0..Total, Left(kind, b) >= x
    PROVE  /\ Moved(b, x) \in 0..Total
           /\ Left(kind, Moved(b, x)) = Left(kind, b) - x
<1>1. Total \in Nat /\ b \in Int
  BY CandidatesAssumption
<1>2. Left(kind, b) = IF kind = "pull" THEN b ELSE Total - b
  BY <1>1, LeftIs
<1>3. Moved(b, x) \in 0..Total /\ Moved(b, x) \in Int
  BY <1>1, <1>2 DEF Moved
<1>4. Left(kind, Moved(b, x)) = IF kind = "pull" THEN Moved(b, x) ELSE Total - Moved(b, x)
  BY <1>3, LeftIs
<1> QED BY <1>1, <1>2, <1>3, <1>4 DEF Moved

---------------------------------------------------------------------------
(* Where the copies of a candidate are *)

\* The parts on a channel that run, and those that settled and whose result was
\* not received.
Running(c) == {w \in Worker : stage[w] = "running" /\ uses[w] = c}
Settled(c) == {w \in Alive : stage[w] = "sending" /\ outcome[w].success /\ uses[w] = c}

\* They are finitely many.
LEMMA CountsAreNumbers ==
    ASSUME NEW c
    PROVE  /\ IsFiniteSet(Running(c)) /\ Cardinality(Running(c)) \in Nat
           /\ IsFiniteSet(Settled(c)) /\ Cardinality(Settled(c)) \in Nat
           /\ Unknown(c) = Cardinality(Settled(c))
           /\ Cardinality(Running(c)') \in Nat
<1>1. /\ Running(c) \subseteq Worker /\ Settled(c) \subseteq Worker
      /\ Running(c)' \subseteq Worker
  BY DEF Running, Settled, Alive
<1>2. IsFiniteSet(Running(c)) /\ IsFiniteSet(Settled(c)) /\ IsFiniteSet(Running(c)')
  BY <1>1, WorkersAssumption, FS_Subset
<1> QED BY <1>2, FS_CardinalityType DEF Unknown, Settled

\* A goroutine is fired: one copy leaves the queue and runs.
LEMMA FireCounts ==
    ASSUME TypeOK, NEW w \in Worker, FireCandidate(w), NEW c
    PROVE  /\ Queued(Candidates, c) = Queued(Candidates', c) + One(Head(Candidates) = c)
           /\ Cardinality(Running(c)') = Cardinality(Running(c)) + One(Head(Candidates) = c)
           /\ Unknown(c)' = Unknown(c)
<1>1. w \notin Alive /\ Alive' = Alive \cup {w}
  BY FireAddsWorker
<1>2. Candidates # <<>> /\ Candidates' = Tail(Candidates) /\ Candidates \in Seq(Channel)
  BY DEF FireCandidate, PopFront, TypeOK
<1>3. /\ stage[w] = "idle" /\ stage'[w] = "running" /\ uses'[w] = Head(Candidates)
      /\ \A v \in Worker \ {w} : stage'[v] = stage[v] /\ uses'[v] = uses[v]
      /\ outcome' = outcome
  BY DEF FireCandidate, TypeOK
<1>4. Queued(Candidates, c) = Queued(Candidates', c) + One(Head(Candidates) = c)
  BY <1>2, PopFrontTakesOne
<1>5. /\ w \notin Running(c)
      /\ Running(c)' = IF Head(Candidates) = c THEN Running(c) \cup {w} ELSE Running(c)
  BY <1>3 DEF Running
<1>6. Settled(c)' = Settled(c)
  BY <1>1, <1>3 DEF Settled, Alive
<1>7. Cardinality(Running(c)') = Cardinality(Running(c)) + One(Head(Candidates) = c)
  <2>1. Cardinality(Running(c) \cup {w}) = Cardinality(Running(c)) + 1
    BY <1>5, CountsAreNumbers, FS_AddElement
  <2>2. Cardinality(Running(c)) \in Nat
    BY CountsAreNumbers
  <2> QED BY <1>5, <2>1, <2>2 DEF One
<1>8. Unknown(c)' = Unknown(c)
  BY <1>6 DEF Unknown, Settled
<1> QED BY <1>4, <1>7, <1>8

\* A goroutine ends: its part runs no more, and settled if it was a success.
LEMMA FinishCounts ==
    ASSUME TypeOK, TypeOK', NEW w \in Worker, WorkerFinish(w), NEW c
    PROVE  /\ Candidates' = Candidates
           /\ Cardinality(Running(c)') = Cardinality(Running(c)) - One(uses[w] = c)
           /\ Unknown(c)' = Unknown(c) + One(outcome'[w].success /\ uses[w] = c)
<1>1. /\ stage[w] = "running" /\ stage'[w] = "sending"
      /\ \A v \in Worker \ {w} : stage'[v] = stage[v] /\ outcome'[v] = outcome[v]
      /\ uses' = uses /\ Candidates' = Candidates
  BY DEF WorkerFinish, TypeOK
<1>2. /\ uses[w] = c => w \in Running(c)
      /\ Running(c)' = IF uses[w] = c THEN Running(c) \ {w} ELSE Running(c)
  BY <1>1 DEF Running
<1>3. /\ w \notin Settled(c)
      /\ Settled(c)' = IF outcome'[w].success /\ uses[w] = c THEN Settled(c) \cup {w} ELSE Settled(c)
  BY <1>1 DEF Settled, Alive
<1>4. Cardinality(Running(c)') = Cardinality(Running(c)) - One(uses[w] = c)
  <2>1. w \in Running(c) => Cardinality(Running(c) \ {w}) = Cardinality(Running(c)) - 1
    BY CountsAreNumbers, FS_RemoveElement
  <2>2. Cardinality(Running(c)) \in Nat
    BY CountsAreNumbers
  <2> QED BY <1>2, <2>1, <2>2 DEF One
<1>5. Cardinality(Settled(c)') = Cardinality(Settled(c)) + One(outcome'[w].success /\ uses[w] = c)
  <2>1. Cardinality(Settled(c) \cup {w}) = Cardinality(Settled(c)) + 1
    BY <1>3, CountsAreNumbers, FS_AddElement
  <2>2. Cardinality(Settled(c)) \in Nat
    BY CountsAreNumbers
  <2> QED BY <1>3, <2>1, <2>2 DEF One
<1>6. Unknown(c)' = Cardinality(Settled(c)')
  BY DEF Unknown, Settled
<1> QED BY <1>1, <1>4, <1>5, <1>6, CountsAreNumbers

\* A result is received: its part is known, and its copy is back in the queue
\* at most.
LEMMA ReceiveCounts ==
    ASSUME TypeOK, NEW w \in Worker, ReceiveResult(w), uses[w] \in Channel, NEW c
    PROVE  /\ Queued(Candidates', c) \in
                {Queued(Candidates, c),
                 Queued(Candidates, c) + One(outcome[w].success /\ uses[w] = c)}
           /\ Cardinality(Running(c)') = Cardinality(Running(c))
           /\ Unknown(c)' = Unknown(c) - One(outcome[w].success /\ uses[w] = c)
<1>1. w \in Alive /\ Alive' = Alive \ {w}
  BY ReceiveRemovesWorker
<1>2. /\ stage[w] = "sending" /\ stage'[w] = "idle"
      /\ \A v \in Worker \ {w} : /\ stage'[v] = stage[v] /\ uses'[v] = uses[v]
                                 /\ outcome'[v] = outcome[v]
      /\ Candidates \in Seq(Channel)
  BY DEF ReceiveResult, TypeOK
<1>3. Running(c)' = Running(c)
  BY <1>2 DEF Running
<1>4. /\ outcome[w].success /\ uses[w] = c => w \in Settled(c)
      /\ Settled(c)' = IF outcome[w].success /\ uses[w] = c THEN Settled(c) \ {w} ELSE Settled(c)
  BY <1>1, <1>2 DEF Settled, Alive
<1>5. Cardinality(Settled(c)') = Cardinality(Settled(c)) - One(outcome[w].success /\ uses[w] = c)
  <2>1. w \in Settled(c) => Cardinality(Settled(c) \ {w}) = Cardinality(Settled(c)) - 1
    BY CountsAreNumbers, FS_RemoveElement
  <2>2. Cardinality(Settled(c)) \in Nat
    BY CountsAreNumbers
  <2> QED BY <1>4, <2>1, <2>2 DEF One
<1>6. Unknown(c)' = Cardinality(Settled(c)')
  BY DEF Unknown, Settled
<1>7. Queued(Candidates', c) \in
        {Queued(Candidates, c), Queued(Candidates, c) + One(outcome[w].success /\ uses[w] = c)}
  <2>1. \/ Candidates' = Candidates
        \/ outcome[w].success /\ Candidates' = <<uses[w]>> \o Candidates
    BY DEF ReceiveResult, EnqueueCandidate
  <2>2. Queued(<<uses[w]>> \o Candidates, c) = Queued(Candidates, c) + One(uses[w] = c)
    BY <1>2, PushFrontAddsOne
  <2> QED BY <2>1, <2>2 DEF One
<1> QED BY <1>3, <1>5, <1>6, <1>7, CountsAreNumbers

---------------------------------------------------------------------------
(* What the table says of a channel and what its parts did *)

\* Parts on a channel that may still settle, and copies of it that are neither
\* queued nor with such a part: their last part settled, failed or was dropped.
Pending(c) == Cardinality(Running(c)) + late[c]
Spent(c) == Listed(c) - Queued(Candidates, c) - Pending(c)

PShape ==
    /\ Started => kind \in Kinds
    /\ limit \in [percent : Int, amount : Nat]
    /\ found \in Seq(Channel)
    /\ toUs \in [Channel -> 0..Total]
    /\ Peers \in [Channel -> Int]
    /\ late \in [Channel -> Nat]
    /\ hidden \in [Channel -> Nat]
    /\ answer # NoAnswer => answer \in [Channel -> 0..Total]

\* Before the call nothing moves.
Beforehand ==
    ~Started =>
        /\ Peers = toUs
        /\ answer # NoAnswer => answer = toUs
        /\ found = <<>> /\ Candidates = <<>>
        /\ \A c \in Channel : late[c] = 0

\* A part whose result is due has a copy that is spent.
CopiesAccounted(c) == Unknown(c) <= Spent(c)

\* The table shows no more than a part too much for each spent copy, and what is
\* hidden by it.
TableAccounted(c) ==
    Left(kind, Peers[c]) <= Left(kind, toUs[c]) + Part * Spent(c) + hidden[c]

\* While a part may still settle, what is left is that near to the threshold
\* as there are copies beyond those of such parts.
ThresholdKept(c) ==
    Pending(c) > 0 =>
        Left(kind, toUs[c]) >= UpTo - Part * (Listed(c) - Pending(c)) - hidden[c]

Account(c) == CopiesAccounted(c) /\ TableAccounted(c) /\ ThresholdKept(c)

Accounts == \A c \in Channel : Account(c)

AInv == PShape /\ Beforehand /\ Accounts

\* A part is a whole number of sats.
LEMMA PartsAreSats ==
    ASSUME NEW n \in Nat
    PROVE  n \div MsatPerSat \in Nat
BY SMTT(20) DEF MsatPerSat

\* All that an account is made of are whole numbers.
LEMMA AccountNumbers ==
    ASSUME TypeOK, PShape, NEW c \in Channel
    PROVE  /\ Part \in Nat /\ UpTo \in Int /\ Listed(c) \in Nat
           /\ Queued(Candidates, c) \in Nat /\ Cardinality(Running(c)) \in Nat
           /\ Unknown(c) \in Nat /\ late[c] \in Nat
           /\ Pending(c) \in Nat /\ Spent(c) \in Int
           /\ toUs[c] \in 0..Total /\ toUs[c] \in Int /\ Peers[c] \in Int
           /\ Left(kind, toUs[c]) \in Int /\ Left(kind, Peers[c]) \in Int
           /\ hidden[c] \in Nat
<1>1. Part \in Nat
  <2>1. splitAmount \in Nat BY DEF TypeOK
  <2> QED BY <2>1, PartsAreSats DEF Part
<1>2. UpTo \in Int
  <2>1. Total * limit.percent \in Int
    BY CandidatesAssumption DEF PShape
  <2>2. (Total * limit.percent) \div 100 \in Int
    BY <2>1
  <2> QED BY <2>2 DEF UpTo, Smaller, PShape
<1>3. Listed(c) \in Nat
  BY QueuedIsNumber DEF Listed, Queued, PShape
<1>4. Queued(Candidates, c) \in Nat
  BY QueuedIsNumber DEF TypeOK
<1>5. Cardinality(Running(c)) \in Nat /\ Unknown(c) \in Nat
  BY CountsAreNumbers
<1>6. late[c] \in Nat /\ toUs[c] \in 0..Total /\ Peers[c] \in Int /\ hidden[c] \in Nat
  BY DEF PShape
<1>7. toUs[c] \in Int
  BY <1>6, CandidatesAssumption
<1>8. Left(kind, toUs[c]) \in Int /\ Left(kind, Peers[c]) \in Int
  BY <1>6, <1>7, LeftIs
<1> QED BY <1>1, <1>2, <1>3, <1>4, <1>5, <1>6, <1>7, <1>8 DEF Pending, Spent

\* What an account is made of, for the steps that leave some of it alone.
LEMMA AccountKept ==
    ASSUME TypeOK, TypeOK', PShape, PShape', NEW c \in Channel, Account(c),
           UNCHANGED <<call, splitAmount>>, hidden'[c] >= hidden[c],
           toUs'[c] = toUs[c], Peers'[c] = Peers[c],
           Pending(c)' = Pending(c), Unknown(c)' = Unknown(c),
           Queued(Candidates', c) <= Queued(Candidates, c)
    PROVE  Account(c)'
<1>1. /\ UNCHANGED <<kind, limit, found>>
      /\ Part' = Part /\ UpTo' = UpTo /\ Listed(c)' = Listed(c)
      /\ Left(kind, toUs[c])' = Left(kind, toUs[c])
      /\ Left(kind, Peers[c])' = Left(kind, Peers[c])
  BY DEF call, Part, UpTo, Listed, Left
<1>2. Spent(c)' = Listed(c)' - Queued(Candidates', c) - Pending(c)'
  BY DEF Spent, Queued
<1>3. /\ Queued(Candidates', c) \in Nat /\ Queued(Candidates, c) \in Nat /\ Pending(c) \in Nat
      /\ Listed(c) \in Nat /\ Part \in Nat /\ Spent(c) \in Int /\ Unknown(c) \in Nat
      /\ Left(kind, toUs[c]) \in Int /\ Left(kind, Peers[c]) \in Int
      /\ hidden[c] \in Nat /\ hidden'[c] \in Nat /\ UpTo \in Int
  <2>1. Queued(Candidates', c) \in Nat /\ hidden'[c] \in Nat
    BY QueuedIsNumber DEF TypeOK, PShape
  <2> QED BY <2>1, AccountNumbers
<1>4. Spent(c)' >= Spent(c) /\ Spent(c)' \in Int
  BY <1>1, <1>2, <1>3 DEF Spent
<1>5. Part * Spent(c) <= Part * Spent(c)' /\ Part * Spent(c) \in Int /\ Part * Spent(c)' \in Int
  BY <1>3, <1>4, CountOfParts
<1>6. CopiesAccounted(c)'
  BY <1>3, <1>4 DEF Account, CopiesAccounted
<1>7. TableAccounted(c)'
  <2>1. Left(kind, Peers[c]) <= Left(kind, toUs[c]) + Part * Spent(c) + hidden[c]
    BY DEF Account, TableAccounted
  <2>2. Left(kind, Peers[c])' <= Left(kind, toUs[c])' + Part' * Spent(c)' + hidden'[c]
    BY <1>1, <1>3, <1>5, <2>1
  <2> QED BY <2>2 DEF TableAccounted
<1>8. ThresholdKept(c)'
  <2> DEFINE n == Part * (Listed(c) - Pending(c))
  <2>1. n \in Int
    BY <1>3
  <2>2. (Part * (Listed(c) - Pending(c)))' = n
    BY <1>1
  <2>3. Pending(c) > 0 => Left(kind, toUs[c]) >= UpTo - n - hidden[c]
    BY DEF Account, ThresholdKept
  <2> HIDE DEF n
  <2>4. Pending(c)' > 0 => Left(kind, toUs[c])' >= UpTo' - n - hidden'[c]
    BY <1>1, <1>3, <2>1, <2>3
  <2> QED BY <2>2, <2>4 DEF ThresholdKept
<1> QED BY <1>6, <1>7, <1>8 DEF Account

\* A candidate is fired: the table says that its channel is above the threshold.
LEMMA FireAccount ==
    ASSUME TypeOK, TypeOK', PShape, PShape', NEW w \in Worker, Fire(w),
           NEW c \in Channel, Account(c)
    PROVE  Account(c)'
<1>1. /\ FireCandidate(w) /\ CanUseChannel(Head(Candidates))
      /\ UNCHANGED <<call, table, node>>
      /\ UNCHANGED <<kind, limit, found, toUs, Peers, hidden, late, splitAmount>>
  BY DEF Fire, call, table, node, FireCandidate, parameters
<1>2. /\ Queued(Candidates, c) = Queued(Candidates', c) + One(Head(Candidates) = c)
      /\ Cardinality(Running(c)') = Cardinality(Running(c)) + One(Head(Candidates) = c)
      /\ Unknown(c)' = Unknown(c)
  BY <1>1, FireCounts
<1>3. Pending(c)' = Cardinality(Running(c)') + late'[c]
  BY DEF Pending
<1>4. /\ Queued(Candidates', c) \in Nat /\ Queued(Candidates, c) \in Nat /\ Pending(c) \in Nat
      /\ Listed(c) \in Nat /\ Part \in Nat /\ Spent(c) \in Int /\ Unknown(c) \in Nat
      /\ Cardinality(Running(c)) \in Nat /\ late[c] \in Nat /\ UpTo \in Int
      /\ Left(kind, toUs[c]) \in Int /\ Left(kind, Peers[c]) \in Int
      /\ hidden[c] \in Nat /\ hidden'[c] = hidden[c]
  <2>1. Queued(Candidates', c) \in Nat
    BY QueuedIsNumber DEF TypeOK
  <2> QED BY <1>1, <2>1, AccountNumbers
<1>5. CASE Head(Candidates) # c
  <2>1. Pending(c)' = Pending(c) /\ Queued(Candidates', c) <= Queued(Candidates, c)
    BY <1>1, <1>2, <1>3, <1>4, <1>5 DEF One, Pending
  <2> QED BY <1>1, <1>2, <1>4, <2>1, AccountKept
<1>6. CASE Head(Candidates) = c
  <2>1. /\ Pending(c)' = Pending(c) + 1
        /\ Queued(Candidates, c) = Queued(Candidates', c) + 1
    BY <1>1, <1>2, <1>3, <1>4, <1>6 DEF One, Pending
  <2>2. /\ Part' = Part /\ UpTo' = UpTo /\ Listed(c)' = Listed(c)
        /\ Left(kind, toUs[c])' = Left(kind, toUs[c])
        /\ Left(kind, Peers[c])' = Left(kind, Peers[c])
    BY <1>1 DEF Part, UpTo, Listed, Left
  <2>3. Spent(c)' = Listed(c)' - Queued(Candidates', c) - Pending(c)'
    BY DEF Spent, Queued
  <2>4. Spent(c)' = Spent(c)
    BY <1>4, <2>1, <2>2, <2>3 DEF Spent
  <2>5. CopiesAccounted(c)' /\ TableAccounted(c)'
    BY <1>1, <1>2, <2>2, <2>4 DEF Account, CopiesAccounted, TableAccounted
  <2>6. ThresholdKept(c)'
    <3> DEFINE n == Part * (Listed(c) - Pending(c)')
    <3>1. Left(kind, Peers[c]) <= Left(kind, toUs[c]) + Part * Spent(c) + hidden[c]
      BY DEF Account, TableAccounted
    <3>2. Left(kind, Peers[c]) >= UpTo
      BY <1>1, <1>6 DEF CanUseChannel
    <3>3. Spent(c) <= Listed(c) - Pending(c)' /\ Listed(c) - Pending(c)' \in Int
      BY <1>4, <2>1, <2>2, <2>3, <2>4
    <3>4. Part * Spent(c) <= n /\ Part * Spent(c) \in Int /\ n \in Int
      BY <1>4, <3>3, CountOfParts
    <3>5. (Part * (Listed(c) - Pending(c)))' = n
      BY <2>2
    <3> HIDE DEF n
    <3>6. Left(kind, toUs[c])' >= UpTo' - n - hidden'[c]
      BY <1>4, <2>2, <3>1, <3>2, <3>4
    <3> QED BY <3>5, <3>6 DEF ThresholdKept
  <2> QED BY <2>5, <2>6 DEF Account
<1> QED BY <1>5, <1>6

\* A part settles that ran or failed by timeout: what is left misses the
\* threshold by no more than the copies of the channel, and the fee is hidden.
LEMMA SettleAccount ==
    ASSUME TypeOK, TypeOK', PShape, PShape', NEW c \in Channel, Account(c),
           UNCHANGED <<call, splitAmount, Peers, Candidates>>,
           Pending(c)' = Pending(c) - 1, Unknown(c)' \in {Unknown(c), Unknown(c) + 1},
           NEW paid \in Int,
           Left(kind, toUs'[c]) = Left(kind, toUs[c]) - paid,
           hidden'[c] = hidden[c] + paid - Part
    PROVE  /\ Account(c)'
           /\ Left(kind, toUs'[c]) >= UpTo - Part * Listed(c) - hidden'[c]
<1>1. /\ UNCHANGED <<kind, limit, found>>
      /\ Part' = Part /\ UpTo' = UpTo /\ Listed(c)' = Listed(c)
      /\ Left(kind, toUs[c])' = Left(kind, toUs[c]) - paid
      /\ Left(kind, Peers[c])' = Left(kind, Peers[c])
  BY DEF call, Part, UpTo, Listed, Left
<1>2. Spent(c)' = Listed(c)' - Queued(Candidates', c) - Pending(c)'
  BY DEF Spent, Queued
<1>3. /\ Queued(Candidates, c) \in Nat /\ Pending(c) \in Nat
      /\ Listed(c) \in Nat /\ Part \in Nat /\ Spent(c) \in Int /\ Unknown(c) \in Nat
      /\ UpTo \in Int /\ Left(kind, toUs[c]) \in Int /\ Left(kind, Peers[c]) \in Int
      /\ hidden[c] \in Nat
  BY AccountNumbers
<1>4. Pending(c)' \in Nat
  <2>1. Cardinality(Running(c)') \in Nat /\ late'[c] \in Nat
    BY CountsAreNumbers DEF PShape
  <2>2. Pending(c)' = Cardinality(Running(c)') + late'[c]
    BY DEF Pending
  <2> QED BY <2>1, <2>2
<1>5. Spent(c)' = Spent(c) + 1
  BY <1>1, <1>2, <1>3 DEF Spent
<1>6. Part * Spent(c) \in Int /\ Part * Spent(c)' = Part * Spent(c) + Part
  BY <1>3, <1>5, CountOfParts
<1> DEFINE n == Listed(c) - Pending(c)
<1>7. n \in Int /\ Listed(c)' - Pending(c)' = n + 1 /\ n + 1 <= Listed(c) /\ n + 1 \in Int
  BY <1>1, <1>3, <1>4
<1>8. /\ Part * n \in Int /\ Part * (n + 1) = Part * n + Part
      /\ Part * (n + 1) <= Part * Listed(c) /\ Part * Listed(c) \in Int
  BY <1>3, <1>7, CountOfParts
<1>9. Left(kind, toUs[c]) >= UpTo - Part * n - hidden[c]
  BY <1>3, <1>4 DEF Account, ThresholdKept
<1> HIDE DEF n
<1>10. CopiesAccounted(c)'
  BY <1>3, <1>5 DEF Account, CopiesAccounted
<1>11. TableAccounted(c)'
  <2>1. Left(kind, Peers[c]) <= Left(kind, toUs[c]) + Part * Spent(c) + hidden[c]
    BY DEF Account, TableAccounted
  <2>2. Left(kind, Peers[c])' <= Left(kind, toUs[c])' + Part' * Spent(c)' + hidden'[c]
    BY <1>1, <1>3, <1>6, <2>1
  <2> QED BY <2>2 DEF TableAccounted
<1>12. Left(kind, toUs'[c]) >= UpTo - Part * (n + 1) - hidden'[c]
  BY <1>3, <1>8, <1>9
<1>13. ThresholdKept(c)'
  <2>1. (Part * (Listed(c) - Pending(c)))' = Part * (n + 1)
    BY <1>1, <1>7
  <2>2. Left(kind, toUs[c])' >= UpTo' - Part * (n + 1) - hidden'[c]
    BY <1>1, <1>12
  <2> QED BY <2>1, <2>2 DEF ThresholdKept
<1>14. Left(kind, toUs'[c]) >= UpTo - Part * Listed(c) - hidden'[c]
  BY <1>3, <1>8, <1>12
<1> QED BY <1>10, <1>11, <1>13, <1>14 DEF Account

\* What a part costs: the part at least, for every fee.
LEMMA CostOfPart ==
    ASSUME Part \in Nat, NEW fee \in Fees
    PROVE  Cost(fee) \in Nat /\ Cost(fee) - Part \in Nat
<1>1. fee \in Nat
  BY CandidatesAssumption
<1> QED BY <1>1 DEF Cost

\* lightningd settles a part on a channel.
LEMMA SettleMoves ==
    ASSUME PShape, Part \in Nat, kind \in Kinds, NEW d \in Channel, Settle(d)
    PROVE  /\ toUs' \in [Channel -> 0..Total] /\ hidden' \in [Channel -> Nat]
           /\ \A c \in Channel \ {d} : toUs'[c] = toUs[c] /\ hidden'[c] = hidden[c]
           /\ \E paid \in Int : /\ Left(kind, toUs'[d]) = Left(kind, toUs[d]) - paid
                                /\ hidden'[d] = hidden[d] + paid - Part
<1>1. PICK fee \in Fees :
        /\ Left(kind, toUs[d]) >= Cost(fee)
        /\ toUs' = [toUs EXCEPT ![d] = Moved(@, Cost(fee))]
        /\ hidden' = [hidden EXCEPT ![d] = @ + Cost(fee) - Part]
  BY DEF Settle
<1>2. toUs \in [Channel -> 0..Total] /\ hidden \in [Channel -> Nat]
  BY DEF PShape
<1>3. Cost(fee) \in Nat /\ Cost(fee) - Part \in Nat
  BY CostOfPart
<1>4. /\ Moved(toUs[d], Cost(fee)) \in 0..Total
      /\ Left(kind, Moved(toUs[d], Cost(fee))) = Left(kind, toUs[d]) - Cost(fee)
  BY <1>1, <1>2, <1>3, PartSettles
<1>5. toUs' \in [Channel -> 0..Total] /\ toUs'[d] = Moved(toUs[d], Cost(fee))
  BY <1>1, <1>2, <1>4
<1>6. hidden[d] + Cost(fee) - Part \in Nat
  BY <1>2, <1>3
<1>7. hidden' \in [Channel -> Nat] /\ hidden'[d] = hidden[d] + Cost(fee) - Part
  BY <1>1, <1>2, <1>6
<1>8. \A c \in Channel \ {d} : toUs'[c] = toUs[c] /\ hidden'[c] = hidden[c]
  BY <1>1, <1>2
<1> QED BY <1>3, <1>4, <1>5, <1>7, <1>8

\* A goroutine ends, with its part settled, failed, or to settle late.
LEMMA RunAccount ==
    ASSUME TypeOK, TypeOK', PShape, PShape', BusyWorkersUseChannels, kind \in Kinds,
           NEW w \in Worker, Run(w), NEW c \in Channel, Account(c)
    PROVE  /\ Account(c)'
           /\ toUs'[c] # toUs[c] =>
                Left(kind, toUs'[c]) >= UpTo - Part * Listed(c) - hidden'[c]
<1>1. /\ WorkerFinish(w) /\ UNCHANGED call
      /\ UNCHANGED <<kind, limit, found, Peers, splitAmount, Candidates>>
      /\ w \in Alive
  BY DEF Run, call, WorkerFinish, parameters, Alive
<1>2. uses[w] \in Channel
  BY <1>1 DEF BusyWorkersUseChannels
<1>3. /\ Cardinality(Running(c)') = Cardinality(Running(c)) - One(uses[w] = c)
      /\ Unknown(c)' = Unknown(c) + One(outcome'[w].success /\ uses[w] = c)
  BY <1>1, FinishCounts
<1>4. Pending(c)' = Cardinality(Running(c)') + late'[c]
  BY DEF Pending
<1>5. /\ Queued(Candidates, c) \in Nat /\ Pending(c) \in Nat /\ Unknown(c) \in Nat
      /\ Cardinality(Running(c)) \in Nat /\ late[c] \in Nat
      /\ Part \in Nat /\ Listed(c) \in Nat /\ Spent(c) \in Int
      /\ Left(kind, toUs[c]) \in Int /\ Left(kind, Peers[c]) \in Int /\ hidden[c] \in Nat
  BY AccountNumbers
<1>6. CASE outcome'[w].success
  <2>1. Settle(uses[w]) /\ UNCHANGED <<late, lates>>
    BY <1>6 DEF Run
  <2>2. CASE uses[w] = c
    <3>1. PICK paid \in Int : /\ Left(kind, toUs'[c]) = Left(kind, toUs[c]) - paid
                              /\ hidden'[c] = hidden[c] + paid - Part
      BY <1>2, <1>5, <2>1, <2>2, SettleMoves
    <3>2. Pending(c)' = Pending(c) - 1 /\ Unknown(c)' = Unknown(c) + 1
      BY <1>3, <1>4, <1>5, <1>6, <2>1, <2>2 DEF One, Pending
    <3> QED BY <1>1, <3>1, <3>2, SettleAccount
  <2>3. CASE uses[w] # c
    <3>1. toUs'[c] = toUs[c] /\ hidden'[c] >= hidden[c]
      BY <1>2, <1>5, <2>1, <2>3, SettleMoves
    <3>2. Pending(c)' = Pending(c) /\ Unknown(c)' = Unknown(c)
      BY <1>3, <1>4, <1>5, <2>1, <2>3 DEF One, Pending
    <3> QED BY <1>1, <1>5, <3>1, <3>2, AccountKept
  <2> QED BY <2>2, <2>3
<1>7. CASE ~outcome'[w].success
  <2>1. /\ UNCHANGED <<toUs, hidden>> /\ Unknown(c)' = Unknown(c)
        /\ late' = late \/ late' = [late EXCEPT ![uses[w]] = @ + 1]
    BY <1>3, <1>5, <1>7 DEF Run, One
  <2>2. Pending(c)' = Pending(c) \/ (Pending(c)' = Pending(c) - 1 /\ late' = late)
    <3>1. CASE uses[w] = c
      <4>1. late'[c] = late[c] + 1 \/ late' = late
        BY <2>1, <3>1 DEF PShape
      <4>2. Cardinality(Running(c)') = Cardinality(Running(c)) - 1
        BY <1>3, <3>1 DEF One
      <4> QED BY <1>4, <1>5, <4>1, <4>2 DEF Pending
    <3>2. CASE uses[w] # c
      <4>1. late'[c] = late[c]
        BY <2>1, <3>2 DEF PShape
      <4>2. Cardinality(Running(c)') = Cardinality(Running(c))
        BY <1>3, <1>5, <3>2 DEF One
      <4> QED BY <1>4, <4>1, <4>2 DEF Pending
    <3> QED BY <3>1, <3>2
  <2>3. CASE Pending(c)' = Pending(c)
    BY <1>1, <1>5, <2>1, <2>3, AccountKept
  <2>4. CASE Pending(c)' = Pending(c) - 1 /\ late' = late
    <3>1. /\ Part' = Part /\ UpTo' = UpTo /\ Listed(c)' = Listed(c)
          /\ Left(kind, toUs[c])' = Left(kind, toUs[c])
          /\ Left(kind, Peers[c])' = Left(kind, Peers[c])
      BY <1>1, <2>1 DEF Part, UpTo, Listed, Left
    <3>2. Spent(c)' = Listed(c)' - Queued(Candidates', c) - Pending(c)'
      BY DEF Spent, Queued
    <3>3. Spent(c)' = Spent(c) + 1
      BY <1>1, <1>5, <2>4, <3>1, <3>2 DEF Spent
    <3>4. Part * Spent(c) \in Int /\ Part * Spent(c)' = Part * Spent(c) + Part
      BY <1>5, <3>3, CountOfParts
    <3> DEFINE n == Listed(c) - Pending(c)
    <3>5. n \in Int /\ Listed(c)' - Pending(c)' = n + 1 /\ Pending(c)' \in Int
      BY <1>5, <2>4, <3>1
    <3>6. Part * n \in Int /\ Part * (n + 1) = Part * n + Part
      BY <1>5, <3>5, CountOfParts
    <3>7. UpTo \in Int
      BY AccountNumbers
    <3>8. Pending(c) > 0 => Left(kind, toUs[c]) >= UpTo - Part * n - hidden[c]
      BY DEF Account, ThresholdKept
    <3> HIDE DEF n
    <3>9. CopiesAccounted(c)'
      BY <1>5, <2>1, <3>3 DEF Account, CopiesAccounted
    <3>10. TableAccounted(c)'
      <4>1. Left(kind, Peers[c]) <= Left(kind, toUs[c]) + Part * Spent(c) + hidden[c]
        BY DEF Account, TableAccounted
      <4>2. Left(kind, Peers[c])' <= Left(kind, toUs[c])' + Part' * Spent(c)' + hidden'[c]
        BY <1>5, <2>1, <3>1, <3>4, <4>1
      <4> QED BY <4>2 DEF TableAccounted
    <3>11. ThresholdKept(c)'
      <4>1. (Part * (Listed(c) - Pending(c)))' = Part * (n + 1)
        BY <3>1, <3>5
      <4>2. Pending(c)' > 0 => Left(kind, toUs[c])' >= UpTo' - Part * (n + 1) - hidden'[c]
        BY <1>5, <2>1, <2>4, <3>1, <3>5, <3>6, <3>7, <3>8
      <4> QED BY <4>1, <4>2 DEF ThresholdKept
    <3> QED BY <2>1, <3>9, <3>10, <3>11 DEF Account
  <2> QED BY <2>2, <2>3, <2>4
<1> QED BY <1>6, <1>7

\* A failed part settles late.
LEMMA LateAccount ==
    ASSUME TypeOK, TypeOK', PShape, PShape', kind \in Kinds,
           NEW d \in Channel, SettleLate(d), NEW c \in Channel, Account(c)
    PROVE  /\ Account(c)'
           /\ toUs'[c] # toUs[c] =>
                Left(kind, toUs'[c]) >= UpTo - Part * Listed(c) - hidden'[c]
<1>1. /\ UNCHANGED <<call, splitAmount, Peers, Candidates, stage, uses, outcome>>
      /\ late' = [late EXCEPT ![d] = @ - 1]
      /\ Settle(d)
  BY DEF SettleLate, vars
<1>2. Running(c)' = Running(c) /\ Unknown(c)' = Unknown(c)
  BY <1>1 DEF Running, Unknown, Alive
<1>3. Pending(c)' = Cardinality(Running(c)') + late'[c]
  BY DEF Pending
<1>4. /\ Queued(Candidates, c) \in Nat /\ Cardinality(Running(c)) \in Nat /\ late[c] \in Nat
      /\ Part \in Nat /\ hidden[c] \in Nat
  BY AccountNumbers
<1>5. CASE c = d
  <2>1. PICK paid \in Int : /\ Left(kind, toUs'[c]) = Left(kind, toUs[c]) - paid
                            /\ hidden'[c] = hidden[c] + paid - Part
    BY <1>1, <1>4, <1>5, SettleMoves
  <2>2. Pending(c)' = Pending(c) - 1
    <3>1. late'[c] = late[c] - 1
      BY <1>1, <1>5 DEF PShape
    <3> QED BY <1>2, <1>3, <1>4, <3>1 DEF Pending
  <2>3. Unknown(c)' \in {Unknown(c), Unknown(c) + 1}
    BY <1>2
  <2>4. UNCHANGED <<call, splitAmount, Peers, Candidates>>
    BY <1>1
  <2> QED BY <2>1, <2>2, <2>3, <2>4, SettleAccount
<1>6. CASE c # d
  <2>1. toUs'[c] = toUs[c] /\ hidden'[c] >= hidden[c] /\ late'[c] = late[c]
    <3>1. toUs'[c] = toUs[c] /\ hidden'[c] = hidden[c]
      BY <1>1, <1>4, <1>6, SettleMoves
    <3>2. late'[c] = late[c]
      BY <1>1, <1>6 DEF PShape
    <3> QED BY <1>4, <3>1, <3>2
  <2>2. Pending(c)' = Pending(c)
    BY <1>2, <1>3, <2>1 DEF Pending
  <2> QED BY <1>1, <1>2, <1>4, <2>1, <2>2, AccountKept
<1> QED BY <1>5, <1>6

\* The handler learns of a result and takes the part off the table.
LEMMA ReceiveAccount ==
    ASSUME TypeOK, TypeOK', PShape, PShape', BusyWorkersUseChannels,
           NEW w \in Worker, Receive(w), NEW c \in Channel, Account(c)
    PROVE  Account(c)'
<1>1. /\ ReceiveResult(w)
      /\ UNCHANGED <<call, kind, limit, found, toUs, late, splitAmount>>
      /\ w \in Alive
  BY DEF Receive, call, node, ReceiveResult, parameters, Alive
<1>2. uses[w] \in Channel
  BY <1>1 DEF BusyWorkersUseChannels
<1>3. /\ Queued(Candidates', c) \in
           {Queued(Candidates, c), Queued(Candidates, c) + One(outcome[w].success /\ uses[w] = c)}
      /\ Cardinality(Running(c)') = Cardinality(Running(c))
      /\ Unknown(c)' = Unknown(c) - One(outcome[w].success /\ uses[w] = c)
  BY <1>1, <1>2, ReceiveCounts
<1>4. Pending(c)' = Pending(c)
  BY <1>1, <1>3 DEF Pending
<1>5. /\ Queued(Candidates, c) \in Nat /\ Pending(c) \in Nat /\ Unknown(c) \in Nat
      /\ Part \in Nat /\ Listed(c) \in Nat /\ Spent(c) \in Int
      /\ Left(kind, toUs[c]) \in Int /\ Left(kind, Peers[c]) \in Int
      /\ Left(kind, Peers'[c]) \in Int /\ UpTo \in Int /\ hidden[c] \in Nat
  BY AccountNumbers, LeftIs DEF PShape
<1>6. CASE ~(outcome[w].success /\ uses[w] = c)
  <2>1. Peers'[c] = Peers[c] /\ hidden'[c] = hidden[c]
    BY <1>6 DEF Receive, UpdateChannelBalance, PShape
  <2>2. Unknown(c)' = Unknown(c) /\ Queued(Candidates', c) <= Queued(Candidates, c)
    BY <1>3, <1>5, <1>6 DEF One
  <2> QED BY <1>1, <1>4, <1>5, <2>1, <2>2, AccountKept
<1>7. CASE outcome[w].success /\ uses[w] = c
  <2>1. /\ hidden'[c] \in Nat /\ hidden'[c] >= hidden[c]
        /\ Left(kind, Peers'[c]) <= Left(kind, Peers[c]) - Part + hidden'[c] - hidden[c]
    <3>1. hidden'[c] = hidden[c] + Positive(Left(kind, Peers'[c]) + Part - Left(kind, Peers[c]))
      BY <1>7 DEF Receive, UpdateChannelBalance, PShape
    <3> QED BY <1>5, <3>1 DEF Positive
  <2>2. /\ Unknown(c)' = Unknown(c) - 1
        /\ Queued(Candidates', c) \in {Queued(Candidates, c), Queued(Candidates, c) + 1}
    BY <1>3, <1>7 DEF One
  <2>3. /\ Part' = Part /\ UpTo' = UpTo /\ Listed(c)' = Listed(c)
        /\ Left(kind, toUs[c])' = Left(kind, toUs[c])
        /\ Left(kind, Peers[c])' = Left(kind, Peers'[c])
    BY <1>1 DEF Part, UpTo, Listed, Left
  <2>4. Spent(c)' = Listed(c)' - Queued(Candidates', c) - Pending(c)'
    BY DEF Spent, Queued
  <2>5. Spent(c)' >= Spent(c) - 1 /\ Spent(c)' \in Int /\ Spent(c) - 1 \in Int
    BY <1>4, <1>5, <2>2, <2>3, <2>4 DEF Spent
  <2>6. /\ Part * Spent(c) \in Int /\ Part * Spent(c)' \in Int
        /\ Part * (Spent(c) - 1) = Part * Spent(c) - Part
        /\ Part * (Spent(c) - 1) <= Part * Spent(c)'
    BY <1>5, <2>5, CountOfParts
  <2>7. CopiesAccounted(c)'
    BY <1>5, <2>2, <2>5 DEF Account, CopiesAccounted
  <2>8. TableAccounted(c)'
    <3>1. Left(kind, Peers[c]) <= Left(kind, toUs[c]) + Part * Spent(c) + hidden[c]
      BY DEF Account, TableAccounted
    <3>2. Left(kind, Peers'[c]) <= Left(kind, toUs[c]) + Part * Spent(c)' + hidden'[c]
      BY <1>5, <2>1, <2>6, <3>1
    <3> QED BY <2>3, <3>2 DEF TableAccounted
  <2>9. ThresholdKept(c)'
    <3> DEFINE n == Part * (Listed(c) - Pending(c))
    <3>1. n \in Int /\ (Part * (Listed(c) - Pending(c)))' = n
      BY <1>4, <1>5, <2>3
    <3>2. Pending(c) > 0 => Left(kind, toUs[c]) >= UpTo - n - hidden[c]
      BY DEF Account, ThresholdKept
    <3> HIDE DEF n
    <3>3. Pending(c)' > 0 => Left(kind, toUs[c])' >= UpTo' - n - hidden'[c]
      BY <1>4, <1>5, <2>1, <2>3, <3>1, <3>2
    <3> QED BY <3>1, <3>3 DEF ThresholdKept
  <2> QED BY <2>7, <2>8, <2>9 DEF Account
<1> QED BY <1>6, <1>7

\* An answer of ListPeers goes into the table, after the call began.
LEMMA RefreshAccount ==
    ASSUME TypeOK, TypeOK', PShape, PShape', kind \in Kinds, refreshPeers,
           NEW c \in Channel, Account(c)
    PROVE  Account(c)'
<1>1. /\ UNCHANGED <<vars, kind, limit, found, toUs, late, splitAmount, stage, uses, outcome,
                     Candidates>>
      /\ Peers' = answer /\ answer \in [Channel -> 0..Total]
      /\ hidden' = [d \in Channel |-> hidden[d] + Positive(Overtaken(d) - hidden[d])]
  BY DEF refreshPeers, vars, call, node, PShape
<1>2. Running(c)' = Running(c) /\ Unknown(c)' = Unknown(c) /\ Pending(c)' = Pending(c)
  BY <1>1 DEF Running, Unknown, Alive, Pending
<1>3. /\ Part' = Part /\ UpTo' = UpTo /\ Listed(c)' = Listed(c)
      /\ Left(kind, toUs[c])' = Left(kind, toUs[c])
      /\ Left(kind, Peers[c])' = Left(kind, answer[c])
      /\ Spent(c)' = Spent(c)
  BY <1>1, <1>2 DEF Part, UpTo, Listed, Left, Spent
<1>4. /\ Unknown(c) \in Nat /\ Part \in Nat /\ Spent(c) \in Int /\ toUs[c] \in 0..Total
      /\ answer[c] \in 0..Total /\ toUs[c] \in Int /\ answer[c] \in Int
      /\ Left(kind, toUs[c]) \in Int
  BY <1>1, AccountNumbers, CandidatesAssumption
<1>5. /\ Unknown(c) <= Spent(c) /\ Part * Unknown(c) <= Part * Spent(c)
      /\ Part * Unknown(c) \in Int /\ Part * Spent(c) \in Int
  BY <1>4, CountOfParts DEF Account, CopiesAccounted
<1>6. Left(kind, answer[c]) \in Int /\ hidden[c] \in Nat /\ UpTo \in Int
      /\ Listed(c) \in Nat /\ Pending(c) \in Nat
  BY <1>4, AccountNumbers, LeftIs
<1>7. /\ hidden'[c] \in Nat /\ hidden'[c] >= hidden[c]
      /\ Left(kind, answer[c]) <= Left(kind, toUs[c]) + Part * Unknown(c) + hidden'[c]
  <2> DEFINE o == Left(kind, answer[c]) - Left(kind, toUs[c]) - Part * Unknown(c)
  <2>1. hidden'[c] = hidden[c] + Positive(o - hidden[c]) /\ o \in Int
    BY <1>1, <1>4, <1>5, <1>6 DEF Overtaken
  <2>2. hidden'[c] \in Nat /\ hidden'[c] >= hidden[c] /\ o <= hidden'[c]
    <3> HIDE DEF o
    <3> QED BY <1>6, <2>1 DEF Positive
  <2> QED BY <1>4, <1>5, <1>6, <2>2
<1>8. TableAccounted(c)'
  <2>1. Left(kind, answer[c]) <= Left(kind, toUs[c]) + Part * Spent(c) + hidden'[c]
    BY <1>4, <1>5, <1>6, <1>7
  <2> QED BY <1>3, <2>1 DEF TableAccounted
<1>9. CopiesAccounted(c)'
  BY <1>1, <1>2, <1>3 DEF Account, CopiesAccounted
<1>10. ThresholdKept(c)'
  <2> DEFINE n == Part * (Listed(c) - Pending(c))
  <2>1. n \in Int /\ (Part * (Listed(c) - Pending(c)))' = n
    BY <1>2, <1>3, <1>4, <1>6
  <2>2. Pending(c) > 0 => Left(kind, toUs[c]) >= UpTo - n - hidden[c]
    BY DEF Account, ThresholdKept
  <2> HIDE DEF n
  <2>3. Pending(c)' > 0 => Left(kind, toUs[c])' >= UpTo' - n - hidden'[c]
    BY <1>2, <1>3, <1>4, <1>6, <1>7, <2>1, <2>2
  <2> QED BY <2>1, <2>3 DEF ThresholdKept
<1> QED BY <1>8, <1>9, <1>10 DEF Account

\* The call finds its candidates, and nothing happened to them yet.
LEMMA CallAccount ==
    ASSUME IInv, TypeOK', AInv, PShape', Call, NEW c \in Channel
    PROVE  Account(c)'
<1>1. /\ pc = "idle" /\ Alive = {} /\ UNCHANGED <<toUs, Peers, late, stage, uses, outcome>>
      /\ found' = Candidates' /\ Peers = toUs /\ late[c] = 0
  BY DEF Call, Accept, table, node, workers, IInv, NothingBeforeStart, Started, AInv, Beforehand
<1>2. Running(c)' = {} /\ Settled(c)' = {}
  BY <1>1 DEF Running, Settled, Alive
<1>3. Cardinality(Running(c)') = 0 /\ Unknown(c)' = 0
  <2>1. Unknown(c)' = Cardinality(Settled(c)')
    BY DEF Unknown, Settled
  <2> QED BY <1>2, <2>1, FS_EmptySet
<1>4. Pending(c)' = Cardinality(Running(c)') + late'[c]
  BY DEF Pending
<1>5. Pending(c)' = 0
  BY <1>1, <1>3, <1>4
<1>6. Listed(c)' = Queued(Candidates', c) /\ Queued(Candidates', c) \in Nat
  BY <1>1, QueuedIsNumber DEF Listed, Queued, TypeOK
<1>7. Spent(c)' = Listed(c)' - Queued(Candidates', c) - Pending(c)'
  BY DEF Spent, Queued
<1>8. Spent(c)' = 0
  BY <1>5, <1>6, <1>7
<1>9. Part' \in Nat /\ Left(kind, toUs[c])' \in Int /\ hidden'[c] \in Nat
  <2>1. splitAmount' \in Nat
    BY DEF TypeOK
  <2>2. Part' \in Nat
    <3>1. Part' = splitAmount' \div MsatPerSat
      BY DEF Part
    <3> QED BY <2>1, <3>1, PartsAreSats
  <2>3. toUs'[c] \in Int /\ hidden'[c] \in Nat
    BY CandidatesAssumption DEF PShape
  <2>4. Left(kind, toUs[c])' = Left(kind', toUs'[c])
    BY DEF Left
  <2> QED BY <2>2, <2>3, <2>4, LeftIs
<1>10. Left(kind, Peers[c])' = Left(kind, toUs[c])'
  BY <1>1 DEF Left
<1>11. Part' * Spent(c)' = 0
  <2>1. \A p \in Nat : p * 0 = 0
    OBVIOUS
  <2> QED BY <1>8, <1>9, <2>1
<1>12. TableAccounted(c)'
  BY <1>9, <1>10, <1>11 DEF TableAccounted
<1>13. CopiesAccounted(c)' /\ ThresholdKept(c)'
  BY <1>3, <1>5, <1>8 DEF CopiesAccounted, ThresholdKept
<1> QED BY <1>12, <1>13 DEF Account

\* Before the call every account is empty.
LEMMA EmptyAccount ==
    TypeOK /\ PShape /\ Beforehand /\ ~Started /\ Alive = {} => Accounts
<1> SUFFICES ASSUME TypeOK, PShape, Beforehand, ~Started, Alive = {}, NEW c \in Channel
             PROVE  Account(c)
  BY DEF Accounts
<1>1. Peers = toUs /\ found = <<>> /\ Candidates = <<>> /\ late[c] = 0
  BY DEF Beforehand
<1>2. Running(c) = {} /\ Settled(c) = {}
  BY DEF Running, Settled, Alive
<1>3. Cardinality(Running(c)) = 0 /\ Unknown(c) = 0 /\ Pending(c) = 0
  BY <1>1, <1>2, CountsAreNumbers, FS_EmptySet DEF Pending
<1>4. /\ Part \in Nat /\ Listed(c) \in Nat /\ Left(kind, toUs[c]) \in Int /\ hidden[c] \in Nat
      /\ Queued(Candidates, c) = Listed(c)
  BY <1>1, AccountNumbers DEF Queued, Listed
<1>5. Spent(c) = 0
  BY <1>3, <1>4 DEF Spent
<1>6. Part * Spent(c) = 0
  BY <1>4, <1>5
<1> QED BY <1>1, <1>3, <1>4, <1>5, <1>6
     DEF Account, CopiesAccounted, TableAccounted, ThresholdKept

\* At first the table is what lightningd says.
LEMMA InitAInv == PInit => AInv
<1> SUFFICES ASSUME PInit PROVE AInv
  OBVIOUS
<1>1. Init /\ IInv
  BY InitIInv DEF PInit
<1>2. PShape
  <2>1. Total \in Nat /\ Balances \subseteq 0..Total
    BY CandidatesAssumption
  <2>2. toUs \in [Channel -> 0..Total] /\ Peers \in [Channel -> Int]
    <3>1. toUs \in [Channel -> Balances] /\ Peers = toUs
      BY DEF PInit
    <3>2. \A b \in Balances : b \in 0..Total /\ b \in Int
      BY <2>1
    <3> QED BY <3>1, <3>2
  <2>3. limit \in [percent : Int, amount : Nat] /\ found \in Seq(Channel)
        /\ late \in [Channel -> Nat] /\ hidden \in [Channel -> Nat] /\ answer = NoAnswer
    BY DEF PInit
  <2>4. ~Started
    BY <1>1 DEF Init, Started
  <2> QED BY <2>2, <2>3, <2>4 DEF PShape
<1>3. ~Started /\ Alive = {} /\ Beforehand
  BY <1>1 DEF Init, PInit, Started, Beforehand, Alive
<1> QED BY <1>1, <1>2, <1>3, EmptyAccount DEF AInv, IInv, Accounts

\* Nothing moves before the call, also while the table is refreshed; and the
\* call has channels to move.
LEMMA NextKeepsBeforehand ==
    ASSUME IInv, AInv, [PNext]_pvars
    PROVE  Beforehand'
<1> SUFFICES ASSUME ~Started' PROVE Beforehand'
  BY DEF Beforehand
<1> USE DEF AInv, Beforehand, Started
<1>1. CASE Call \/ (StopFiring \/ Return) \/ Skip
  BY <1>1 DEF Call, Accept, StopFiring, Return, Skip, SkipCandidate
<1>2. CASE Refuse /\ UNCHANGED <<call, table, node>>
  BY <1>2 DEF Refuse, call, table, node
<1>3. ASSUME NEW w \in Worker, Fire(w) \/ Receive(w) PROVE FALSE
  BY <1>3 DEF Fire, FireCandidate, Receive, ReceiveResult
<1>4. ASSUME NEW w \in Worker, Run(w) PROVE FALSE
  BY <1>4 DEF Run, WorkerFinish, Alive, IInv, NothingBeforeStart
<1>5. ASSUME NEW c \in Channel, SettleLate(c) PROVE FALSE
  <2>1. pc' = pc /\ late[c] > 0
    BY <1>5 DEF SettleLate, vars
  <2> QED BY <2>1
<1>6. ASSUME NEW c \in Channel, OnDisconnect(c) PROVE Beforehand'
  BY <1>6 DEF OnDisconnect, vars, call, table
<1>7. CASE ListPeers
  BY <1>7 DEF ListPeers, vars, call, node
<1>8. CASE refreshPeers
  BY <1>8 DEF refreshPeers, vars, call, node
<1>9. CASE UNCHANGED pvars \/ (Over /\ UNCHANGED <<call, table, node>>)
  BY <1>9 DEF Over, pvars, vars, call, table, node
<1> QED BY <1>1, <1>2, <1>3, <1>4, <1>5, <1>6, <1>7, <1>8, <1>9 DEF PNext, Handler

\* Types: a part settles only where there is enough left.
LEMMA NextKeepsPShape ==
    ASSUME IInv, IInv', AInv, [PNext]_pvars
    PROVE  PShape'
<1> USE DEF AInv, PShape, Started
<1>0. Total \in Nat /\ Word \in Nat \ {0}
  BY CandidatesAssumption
<1>1. CASE Call
  <2>1. PICK k \in {"pull", "push"}, list \in Lists, ppm \in OutPPMArgs,
             percent \in PercentArgs, upTo \in UpToArgs :
               kind' = k /\ limit' = setDefaults(k, percent, upTo)
    BY <1>1 DEF Call
  <2>2. limit' \in [percent : Int, amount : Nat]
    BY <2>1, CandidatesAssumption
       DEF setDefaults, DefaultPercent, DefaultUpTo, OrDefault
  <2>3. found' \in Seq(Channel)
    BY <1>1 DEF Call, IInv, TypeOK
  <2> QED BY <1>1, <2>1, <2>2, <2>3 DEF Call, table, node, Kinds
<1>2. CASE (Refuse \/ StopFiring \/ Return \/ Over \/ Skip) /\ UNCHANGED <<call, table, node>>
  BY <1>2 DEF Refuse, StopFiring, Return, Over, Skip, SkipCandidate, call, table, node, vars
<1>3. ASSUME NEW w \in Worker, Fire(w) PROVE PShape'
  BY <1>3 DEF Fire, FireCandidate, call, table, node
<1>4. ASSUME NEW w \in Worker, Receive(w) PROVE PShape'
  <2>1. Part \in Int
    BY DEF IInv, TypeOK, Part, MsatPerSat
  <2>2. Peers' \in [Channel -> Int]
    <3>1. CASE Peers' = Peers
      BY <3>1
    <3>2. CASE UpdateChannelBalance(uses[w])
      <4>1. uses[w] \in Channel => Moved(Peers[uses[w]], Part) \in Int
        BY <2>1 DEF Moved
      <4>2. uses[w] \in Channel => Moved(Peers[uses[w]], Part) % Word \in Int
        BY <1>0, <4>1
      <4> QED BY <3>2, <4>2 DEF UpdateChannelBalance
    <3> QED BY <1>4, <3>1, <3>2 DEF Receive
  <2>3. hidden' \in [Channel -> Nat]
    <3>1. CASE hidden' = hidden
      BY <3>1
    <3>2. CASE UpdateChannelBalance(uses[w]) /\ uses[w] \in Channel
      <4>1. Left(kind, Peers'[uses[w]]) \in Int /\ Left(kind, Peers[uses[w]]) \in Int
        BY <2>2, <3>2, LeftIs
      <4>2. Left(kind, Peers'[uses[w]]) + Part - Left(kind, Peers[uses[w]]) \in Int
        BY <2>1, <4>1
      <4>3. \A x \in Int, h \in Nat : h + Positive(x) \in Nat
        BY DEF Positive
      <4> QED BY <3>2, <4>2, <4>3 DEF UpdateChannelBalance
    <3>3. CASE UpdateChannelBalance(uses[w]) /\ uses[w] \notin Channel
      BY <3>3 DEF UpdateChannelBalance
    <3> QED BY <1>4, <3>1, <3>2, <3>3 DEF Receive
  <2> QED BY <1>4, <2>2, <2>3 DEF Receive, ReceiveResult, call, node
<1>5. Part \in Nat
  BY DEF IInv, TypeOK, Part, MsatPerSat
<1>6. ASSUME NEW w \in Worker, Run(w) PROVE PShape'
  <2>1. w \in Alive /\ WorkerFinish(w) /\ UNCHANGED <<pc, call, Peers, answer>>
    BY <1>6 DEF Run, WorkerFinish, Alive
  <2>2. uses[w] \in Channel /\ kind \in Kinds
    BY <2>1 DEF IInv, BusyWorkersUseChannels, NothingBeforeStart, Alive, Started
  <2>3. toUs' \in [Channel -> 0..Total] /\ hidden' \in [Channel -> Nat]
    <3>1. Settle(uses[w]) \/ UNCHANGED <<toUs, hidden>>
      BY <1>6 DEF Run
    <3> QED BY <1>5, <2>2, <3>1, SettleMoves
  <2>4. late' \in [Channel -> Nat]
    <3>1. late' = late \/ late' = [late EXCEPT ![uses[w]] = @ + 1]
      BY <1>6 DEF Run
    <3>2. late \in [Channel -> Nat] /\ late[uses[w]] + 1 \in Nat
      BY <2>2
    <3> QED BY <2>2, <3>1, <3>2
  <2> QED BY <2>1, <2>3, <2>4 DEF call
<1>7. ASSUME NEW d \in Channel, SettleLate(d) PROVE PShape'
  <2>1. UNCHANGED <<pc, call, Peers, answer>> /\ late[d] > 0
    BY <1>7 DEF SettleLate, vars
  <2>2. kind \in Kinds
    BY <2>1 DEF Beforehand
  <2>3. toUs' \in [Channel -> 0..Total] /\ hidden' \in [Channel -> Nat]
    BY <1>5, <1>7, <2>2, SettleMoves DEF SettleLate
  <2>4. late' \in [Channel -> Nat]
    BY <1>7, <2>1 DEF SettleLate
  <2> QED BY <2>1, <2>3, <2>4 DEF call
<1>8. ASSUME NEW d \in Channel, OnDisconnect(d) PROVE PShape'
  BY <1>8 DEF OnDisconnect, vars, call, table
<1>9. CASE ListPeers
  BY <1>9 DEF ListPeers, vars, call, node
<1>10. CASE refreshPeers
  <2>1. Peers' \in [Channel -> Int]
    BY <1>10 DEF refreshPeers
  <2>2. hidden' \in [Channel -> Nat]
    <3>1. ASSUME NEW c \in Channel PROVE hidden[c] + Positive(Overtaken(c) - hidden[c]) \in Nat
      <4>1. /\ Left(kind, answer[c]) \in Int /\ Left(kind, toUs[c]) \in Int
            /\ Unknown(c) \in Nat
        <5>1. answer[c] \in Int /\ toUs[c] \in Int
          BY <1>0, <1>10 DEF refreshPeers
        <5> QED BY <5>1, LeftIs, CountsAreNumbers
      <4>2. Part * Unknown(c) \in Int
        BY <1>5, <4>1, CountOfParts
      <4>3. Overtaken(c) - hidden[c] \in Int /\ hidden[c] \in Nat
        BY <4>1, <4>2 DEF Overtaken
      <4> QED BY <4>3 DEF Positive
    <3> QED BY <1>10, <3>1 DEF refreshPeers
  <2> QED BY <1>10, <2>1, <2>2 DEF refreshPeers, vars, call, node
<1>11. CASE UNCHANGED pvars
  BY <1>11 DEF pvars, vars, call, table, node
<1> QED BY <1>1, <1>2, <1>3, <1>4, <1>6, <1>7, <1>8, <1>9, <1>10, <1>11
     DEF PNext, Handler, Skip

\* What a step does to the account of a channel, and what it leaves there when
\* a part settles.
LEMMA NextKeepsAccount ==
    ASSUME IInv, IInv', AInv, PShape', Beforehand', [PNext]_pvars, NEW c \in Channel
    PROVE  /\ Account(c)'
           /\ toUs'[c] # toUs[c] =>
                Left(kind, toUs'[c]) >= UpTo - Part * Listed(c) - hidden'[c]
<1>0. /\ TypeOK /\ TypeOK' /\ BusyWorkersUseChannels /\ PShape /\ Account(c)
      /\ Queued(Candidates, c) \in Nat /\ Queued(Candidates', c) \in Nat
  BY QueuedIsNumber DEF IInv, AInv, Accounts, TypeOK
<1>1. CASE Call
  BY <1>0, <1>1, CallAccount DEF Call, node
<1>2. ASSUME UNCHANGED <<call, toUs, late, Peers, hidden, splitAmount, stage, uses, outcome>>,
             Queued(Candidates', c) <= Queued(Candidates, c)
      PROVE  Account(c)'
  <2>1. Pending(c)' = Pending(c) /\ Unknown(c)' = Unknown(c)
    BY <1>2 DEF Pending, Running, Unknown, Alive
  <2>2. hidden'[c] >= hidden[c]
    BY <1>0, <1>2 DEF PShape
  <2> QED BY <1>0, <1>2, <2>1, <2>2, AccountKept
<1>3. CASE (Refuse \/ StopFiring \/ Return \/ Over) /\ UNCHANGED <<call, table, node>>
  <2>1. UNCHANGED <<call, toUs, late, Peers, hidden, splitAmount, stage, uses, outcome, Candidates>>
    BY <1>3 DEF Refuse, StopFiring, Return, Over, vars, parameters, workers, table, node
  <2> QED BY <1>0, <1>2, <2>1
<1>4. CASE Skip
  <2>1. /\ UNCHANGED <<call, toUs, late, Peers, hidden, splitAmount, stage, uses, outcome>>
        /\ Candidates # <<>> /\ Candidates' = Tail(Candidates) /\ Candidates \in Seq(Channel)
    BY <1>0, <1>4 DEF Skip, SkipCandidate, PopFront, parameters, workers, table, node, TypeOK
  <2>2. Queued(Candidates', c) <= Queued(Candidates, c)
    BY <1>0, <2>1, PopFrontTakesOne DEF One
  <2> QED BY <1>2, <2>1, <2>2
<1>5. ASSUME NEW w \in Worker, Fire(w) PROVE Account(c)' /\ UNCHANGED toUs
  BY <1>0, <1>5, FireAccount DEF Fire, node
<1>6. ASSUME NEW w \in Worker, Receive(w) PROVE Account(c)' /\ UNCHANGED toUs
  BY <1>0, <1>6, ReceiveAccount DEF Receive, node
<1>7. ASSUME NEW w \in Worker, Run(w)
      PROVE  /\ Account(c)'
             /\ toUs'[c] # toUs[c] =>
                  Left(kind, toUs'[c]) >= UpTo - Part * Listed(c) - hidden'[c]
  <2>1. w \in Alive
    BY <1>7 DEF Run, WorkerFinish, Alive
  <2>2. kind \in Kinds
    BY <1>0, <2>1 DEF PShape, IInv, NothingBeforeStart, Alive, Started
  <2> QED BY <1>0, <1>7, <2>2, RunAccount
<1>8. ASSUME NEW d \in Channel, SettleLate(d)
      PROVE  /\ Account(c)'
             /\ toUs'[c] # toUs[c] =>
                  Left(kind, toUs'[c]) >= UpTo - Part * Listed(c) - hidden'[c]
  <2>1. late[d] > 0
    BY <1>8 DEF SettleLate
  <2>2. kind \in Kinds
    BY <2>1 DEF AInv, PShape, Beforehand
  <2> QED BY <1>0, <1>8, <2>2, LateAccount
<1>9. ASSUME NEW d \in Channel, OnDisconnect(d) PROVE Account(c)' /\ UNCHANGED toUs
  <2>1. UNCHANGED <<call, toUs, late, Peers, hidden, splitAmount, stage, uses, outcome, Candidates>>
    BY <1>9 DEF OnDisconnect, vars, table
  <2> QED BY <1>0, <1>2, <2>1
<1>10. CASE ListPeers
  <2>1. UNCHANGED <<call, toUs, late, Peers, hidden, splitAmount, stage, uses, outcome, Candidates>>
    BY <1>10 DEF ListPeers, vars, node
  <2> QED BY <1>0, <1>2, <2>1
<1>11. CASE refreshPeers
  <2>1. UNCHANGED <<toUs, pc, stage>>
    BY <1>11 DEF refreshPeers, vars, node
  <2>2. CASE Started
    BY <1>0, <1>11, <2>1, <2>2, RefreshAccount DEF PShape
  <2>3. CASE ~Started
    <3>1. Alive' = {} /\ ~Started'
      BY <2>1, <2>3 DEF IInv, NothingBeforeStart, Alive, Started
    <3>2. (TypeOK /\ PShape /\ Beforehand /\ ~Started /\ Alive = {})'
            => Accounts'
      BY EmptyAccount, PTL
    <3> QED BY <1>0, <2>1, <3>1, <3>2 DEF Accounts
  <2> QED BY <2>2, <2>3
<1>12. CASE UNCHANGED pvars
  <2>1. UNCHANGED <<call, toUs, late, Peers, hidden, splitAmount, stage, uses, outcome, Candidates>>
    BY <1>12 DEF pvars, vars, call, table, node
  <2> QED BY <1>0, <1>2, <2>1
<1> QED BY <1>1, <1>3, <1>4, <1>5, <1>6, <1>7, <1>8, <1>9, <1>10, <1>11, <1>12
     DEF PNext, Handler, node, Skip

\* The invariant is kept by every step of a call and of what runs beside it.
LEMMA NextKeepsAInv == IInv /\ IInv' /\ AInv /\ [PNext]_pvars => AInv'
<1> SUFFICES ASSUME IInv, IInv', AInv, [PNext]_pvars PROVE AInv'
  OBVIOUS
<1>1. PShape' /\ Beforehand'
  BY NextKeepsPShape, NextKeepsBeforehand
<1>2. ASSUME NEW c \in Channel PROVE Account(c)'
  BY <1>1, NextKeepsAccount
<1> QED BY <1>1, <1>2 DEF AInv, Accounts

\* In every reachable state what the table shows of a channel, what is left in
\* lightningd, the fees it paid and where the copies of the channel are agree.
THEOREM AccountsInvariance == PSpec => []AInv
<1>1. PSpec => []IInv
  BY PullPushIsParallelRebalance, Invariance
<1> QED BY <1>1, InitAInv, NextKeepsAInv, PTL DEF PSpec

\* However results, refreshes and late HTLCs interleave, a channel is taken below
\* the threshold by no more parts than the times it was found, and by the fees,
\* the old answers and the wraps that the table hides.
THEOREM ThresholdsMissedByParts == PSpec => MissesByAPart
<1>1. IInv /\ IInv' /\ AInv /\ AInv' /\ [PNext]_pvars =>
        [\A c \in Channel : toUs'[c] # toUs[c] =>
            Left(kind, toUs'[c]) >= UpTo - Part * Listed(c) - hidden'[c]]_pvars
  <2> SUFFICES ASSUME IInv, IInv', AInv, AInv', [PNext]_pvars, NEW c \in Channel
               PROVE  toUs'[c] # toUs[c] =>
                        Left(kind, toUs'[c]) >= UpTo - Part * Listed(c) - hidden'[c]
    OBVIOUS
  <2> QED BY NextKeepsAccount DEF AInv, Accounts
<1>2. PSpec => []IInv
  BY PullPushIsParallelRebalance, Invariance
<1> QED BY <1>1, <1>2, AccountsInvariance, PTL DEF PSpec, MissesByAPart
=============================================================================
