-------------------------- MODULE PeerTable_proofs --------------------------
(***************************************************************************)
(* The table of balances errs by the parts that are not accounted for and  *)
(* by the fees that are never subtracted, for any number of channels and   *)
(* of parts that overlap, and any fees: each step of an HTLC moves as much *)
(* between the real balances as between those parts and fees, and each     *)
(* result as much between the parts and the table.                         *)
(***************************************************************************)
EXTENDS PeerTable, FiniteSetTheorems, TLAPS

\* A part has an HTLC only while it has a candidate, and none before it paid.
Shape ==
    /\ \E toUs \in [Channel -> Int] : \E up \in [Channel -> BOOLEAN] :
          real = [c \in Channel |-> [toUs |-> toUs[c], connected |-> up[c]]]
    /\ \A p \in Part : stage[p] \in {"idle", "fired"} => htlc[p] = "none"
    /\ stage \in [Part -> {"idle", "fired", "waiting", "timedout"}]
    /\ htlc \in [Part -> {"none", "sent", "credited", "settled"}]
    /\ candidate \in [Part -> Candidates \cup {NoChannel}]
    /\ \A p \in Part : stage[p] # "idle" => candidate[p] \in Candidates
    /\ forwards \in Nat
    /\ unseen \in [Channel -> Int] /\ fee \in [Part -> Int]

---------------------------------------------------------------------------
(* Unsigned arithmetic *)

\* The remainder of a division.
LEMMA Remainder ==
    ASSUME NEW W \in Nat \ {0}, NEW n \in Int
    PROVE  /\ n % W \in 0..(W - 1) /\ n \div W \in Int
           /\ n = W * (n \div W) + (n % W)
OBVIOUS

\* It is the only one.
LEMMA RemainderIs ==
    ASSUME NEW W \in Nat \ {0}, NEW k \in Int, NEW r \in 0..(W - 1)
    PROVE  (W * k + r) % W = r
OBVIOUS

\* A multiple and the next ones.
LEMMA OneTimesMore ==
    ASSUME NEW n \in Int, NEW k \in Int
    PROVE  n * k \in Int /\ n * (k + 1) = n * k + n /\ n * (k - 1) = n * k - n
OBVIOUS

\* One more part, or one less, in the table.
LEMMA PlusPlus ==
    ASSUME NEW n \in Int, NEW d \in Int
    PROVE  Plus(Plus(n) + d) = Plus(n + d)
<1>1. Word \in Nat \ {0}
    BY AmountsAssumption
<1> DEFINE q == n \div Word
           r == n % Word
           s == (r + d) \div Word
           t == (r + d) % Word
<1>2. q \in Int /\ r \in Int /\ n = Word * q + r
    BY <1>1, Remainder
<1>3. s \in Int /\ t \in 0..(Word - 1) /\ r + d = Word * s + t
    BY <1>1, <1>2, Remainder
<1> HIDE DEF q, r, s, t
<1>4. n + d = Word * (q + s) + t
  <2>1. Word * (q + s) = Word * q + Word * s
      BY <1>1, <1>2, <1>3
  <2>. QED
      BY <1>1, <1>2, <1>3, <2>1
<1>5. (Word * (q + s) + t) % Word = t
    BY <1>1, <1>2, <1>3, RemainderIs
<1>. QED
    BY <1>4, <1>5 DEF Plus, r, t

---------------------------------------------------------------------------
(* The two ends of a part, and the parts of a channel *)

\* A part leaves by one channel and comes back by another.
LEMMA Ends ==
    ASSUME NEW p \in Part, candidate[p] \in Candidates
    PROVE  OutOf(p) \in Channel /\ InOf(p) \in Channel /\ OutOf(p) # InOf(p)
BY ChannelsAssumption DEF OutOf, InOf, Candidates

\* Parts can be counted.
LEMMA FewParts ==
    /\ IsFiniteSet(Part)
    /\ \A S \in SUBSET Part : IsFiniteSet(S) /\ Cardinality(S) \in Nat
BY PartsAssumption, FS_Subset, FS_CardinalityType DEF Part

\* A part that joins ...
LEMMA OneMore ==
    ASSUME NEW S \in SUBSET Part, NEW p \in Part, p \notin S
    PROVE  Cardinality(S \cup {p}) = Cardinality(S) + 1
BY FewParts, FS_AddElement

\* ... and one that leaves.
LEMMA OneLess ==
    ASSUME NEW S \in SUBSET Part, NEW p \in S
    PROVE  Cardinality(S \ {p}) = Cardinality(S) - 1
BY FewParts, FS_RemoveElement

\* The account of a channel is a number.
LEMMA AccountIsInt ==
    ASSUME Shape, NEW c \in Channel
    PROVE  /\ real[c].toUs \in Int /\ unseen[c] \in Int /\ Account(c) \in Int
           /\ Size \in Int
           /\ SettledOut(c) \in SUBSET Part /\ CreditedIn(c) \in SUBSET Part
           /\ Cardinality(SettledOut(c)) \in Nat /\ Cardinality(CreditedIn(c)) \in Nat
<1>1. real[c].toUs \in Int /\ unseen[c] \in Int /\ Size \in Int
    BY AmountsAssumption DEF Shape
<1>2. SettledOut(c) \in SUBSET Part /\ CreditedIn(c) \in SUBSET Part
    BY DEF SettledOut, CreditedIn
<1>3. /\ Cardinality(SettledOut(c)) \in Nat /\ Cardinality(CreditedIn(c)) \in Nat
      /\ Cardinality(SettledOut(c)) - Cardinality(CreditedIn(c)) \in Int
    BY <1>2, FewParts
<1>4. Size * (Cardinality(SettledOut(c)) - Cardinality(CreditedIn(c))) \in Int
    BY <1>1, <1>3, OneTimesMore
<1>. QED
    BY <1>1, <1>2, <1>3, <1>4 DEF Account

\* The account from what it is made of.
LEMMA AccountMoves ==
    ASSUME Shape, NEW c \in Channel, NEW d \in Int,
           NEW out \in {-1, 0, 1}, NEW in \in {-1, 0, 1},
           real'[c].toUs + unseen'[c] = real[c].toUs + unseen[c] + d,
           real'[c].toUs \in Int, unseen'[c] \in Int,
           Cardinality(SettledOut(c)') = Cardinality(SettledOut(c)) + out,
           Cardinality(CreditedIn(c)') = Cardinality(CreditedIn(c)) + in,
           out = 0 \/ in = 0
    PROVE  Account(c)' = Account(c) + d + (IF out = 0 THEN 0 ELSE IF out = 1 THEN Size ELSE -Size)
                                        - (IF in = 0 THEN 0 ELSE IF in = 1 THEN Size ELSE -Size)
<1> DEFINE k == Cardinality(SettledOut(c)) - Cardinality(CreditedIn(c))
<1>1. /\ k \in Int /\ Size \in Int /\ real[c].toUs \in Int /\ unseen[c] \in Int
      /\ Cardinality(SettledOut(c)) \in Nat /\ Cardinality(CreditedIn(c)) \in Nat
    BY AccountIsInt
<1>2. Cardinality(SettledOut(c)') - Cardinality(CreditedIn(c)') = k + out - in
    BY <1>1
<1>3. Account(c) = real[c].toUs + unseen[c] + Size * k
    BY DEF Account
<1>4. Account(c)' = real'[c].toUs + unseen'[c] + Size * (k + out - in)
    BY <1>2 DEF Account
<1> HIDE DEF k
<1>5. CASE out = 1
  <2>1. k + out - in = k + 1
      BY <1>1, <1>5
  <2>. QED
      BY <1>1, <1>3, <1>4, <1>5, <2>1, OneTimesMore
<1>6. CASE out = -1
  <2>1. k + out - in = k - 1
      BY <1>1, <1>6
  <2>. QED
      BY <1>1, <1>3, <1>4, <1>6, <2>1, OneTimesMore
<1>7. CASE out = 0 /\ in = 1
  <2>1. k + out - in = k - 1
      BY <1>1, <1>7
  <2>. QED
      BY <1>1, <1>3, <1>4, <1>7, <2>1, OneTimesMore
<1>8. CASE out = 0 /\ in = -1
  <2>1. k + out - in = k + 1
      BY <1>1, <1>8
  <2>. QED
      BY <1>1, <1>3, <1>4, <1>8, <2>1, OneTimesMore
<1>9. CASE out = 0 /\ in = 0
  <2>1. k + out - in = k
      BY <1>1, <1>9
  <2>. QED
      BY <1>1, <1>3, <1>4, <1>9, <2>1, OneTimesMore
<1>. QED
    BY <1>5, <1>6, <1>7, <1>8, <1>9

---------------------------------------------------------------------------
(* What a step does to the account *)

\* Only arrivals and settlements are in the account.
LEMMA SameAccount ==
    ASSUME Shape,
           \A c \in Channel : real'[c].toUs = real[c].toUs,
           unseen' = unseen,
           \A p \in Part : htlc[p] \in {"credited", "settled"} =>
               htlc'[p] = htlc[p] /\ candidate'[p] = candidate[p],
           \A p \in Part : htlc'[p] \in {"credited", "settled"} => htlc'[p] = htlc[p]
    PROVE  \A c \in Channel : Account(c)' = Account(c)
<1> TAKE c \in Channel
<1>1. SettledOut(c)' = SettledOut(c)
    BY DEF SettledOut, OutOf
<1>2. CreditedIn(c)' = CreditedIn(c)
    BY DEF CreditedIn, InOf
<1>. QED
    BY <1>1, <1>2 DEF Account

\* An HTLC that arrives adds to the channel what it adds to the parts that the
\* table does not know.
LEMMA CreditKeepsAccount ==
    ASSUME Shape, NEW p \in Part, Credit(p)
    PROVE  \A c \in Channel : Account(c)' = Account(c)
<1>1. /\ candidate[p] \in Candidates /\ UNCHANGED <<candidate, unseen>>
      /\ htlc[p] = "sent" /\ htlc' = [htlc EXCEPT ![p] = "credited"]
    BY DEF Credit, Shape, plugin
<1> SUFFICES ASSUME NEW c \in Channel PROVE Account(c)' = Account(c)
    OBVIOUS
<1>2. \A q \in Part : htlc'[q] = IF q = p THEN "credited" ELSE htlc[q]
    BY <1>1 DEF Shape
<1>3. SettledOut(c)' = SettledOut(c)
    BY <1>1, <1>2 DEF SettledOut, OutOf
<1>4. CASE InOf(p) = c
  <2>1. CreditedIn(c)' = CreditedIn(c) \cup {p} /\ p \notin CreditedIn(c)
      BY <1>1, <1>2, <1>4 DEF CreditedIn, InOf
  <2>2. real'[c].toUs = real[c].toUs + Size
      BY <1>4 DEF Credit, Shape
  <2>3. Cardinality(CreditedIn(c)') = Cardinality(CreditedIn(c)) + 1
      BY <2>1, OneMore, AccountIsInt
  <2>4. Account(c)' = Account(c) + Size + 0 - Size
      BY <1>1, <1>3, <2>2, <2>3, AccountIsInt, AccountMoves
  <2>. QED
      BY <2>4, AccountIsInt
<1>5. CASE InOf(p) # c
  <2>1. CreditedIn(c)' = CreditedIn(c)
      BY <1>1, <1>2, <1>5 DEF CreditedIn, InOf
  <2>2. real'[c].toUs = real[c].toUs
      BY <1>5 DEF Credit, Shape
  <2>. QED
      BY <1>1, <1>3, <2>1, <2>2 DEF Account
<1>. QED
    BY <1>4, <1>5

\* An HTLC that settles takes from the channel what it adds to those parts and
\* to the fees.
LEMMA SettleKeepsAccount ==
    ASSUME Shape, NEW p \in Part, Settle(p), ~refreshed, forwards = 0
    PROVE  \A c \in Channel : Account(c)' = Account(c)
<1>1. /\ candidate[p] \in Candidates /\ UNCHANGED candidate
      /\ htlc[p] = "credited" /\ htlc' = [htlc EXCEPT ![p] = "settled"]
      /\ unseen' = [unseen EXCEPT ![OutOf(p)] = @ + fee[p]]
      /\ fee[p] \in Int
    BY DEF Settle, Shape
<1> SUFFICES ASSUME NEW c \in Channel PROVE Account(c)' = Account(c)
    OBVIOUS
<1>2. \A q \in Part : htlc'[q] = IF q = p THEN "settled" ELSE htlc[q]
    BY <1>1 DEF Shape
<1>3. CreditedIn(c)' = CreditedIn(c)
    BY <1>1, <1>2 DEF CreditedIn, InOf
<1>4. CASE OutOf(p) = c
  <2>1. SettledOut(c)' = SettledOut(c) \cup {p} /\ p \notin SettledOut(c)
      BY <1>1, <1>2, <1>4 DEF SettledOut, OutOf
  <2>2. /\ real'[c].toUs = real[c].toUs - (Size + fee[p])
        /\ unseen'[c] = unseen[c] + fee[p]
      BY <1>1, <1>4 DEF Settle, Shape
  <2>3. Cardinality(SettledOut(c)') = Cardinality(SettledOut(c)) + 1
      BY <2>1, OneMore, AccountIsInt
  <2>4. /\ real'[c].toUs + unseen'[c] = real[c].toUs + unseen[c] + (-Size)
        /\ real'[c].toUs \in Int /\ unseen'[c] \in Int /\ -Size \in Int
      BY <1>1, <2>2, AccountIsInt
  <2>5. Account(c)' = Account(c) + (-Size) + Size - 0
      BY <1>3, <2>3, <2>4, AccountIsInt, AccountMoves
  <2>. QED
      BY <2>5, AccountIsInt
<1>5. CASE OutOf(p) # c
  <2>1. SettledOut(c)' = SettledOut(c)
      BY <1>1, <1>2, <1>5 DEF SettledOut, OutOf
  <2>2. real'[c].toUs = real[c].toUs /\ unseen'[c] = unseen[c]
      BY <1>1, <1>5 DEF Settle, Shape
  <2>. QED
      BY <1>3, <2>1, <2>2 DEF Account
<1>. QED
    BY <1>4, <1>5

\* The result of a part leaves the account and enters the table.
LEMMA ResultMovesAccount ==
    ASSUME Shape, NEW p \in Part, UpdateAmounts(p), NEW c \in Channel
    PROVE  Account(c)' = Account(c) + (IF c = InOf(p) THEN Size ELSE 0)
                                    - (IF c = OutOf(p) THEN Size ELSE 0)
<1>1. /\ candidate[p] \in Candidates /\ htlc[p] = "settled"
      /\ htlc' = [htlc EXCEPT ![p] = "none"]
      /\ candidate' = [candidate EXCEPT ![p] = NoChannel]
      /\ UNCHANGED <<real, unseen>>
    BY DEF UpdateAmounts, Over, Shape
<1>2. \A q \in Part : /\ htlc'[q] = IF q = p THEN "none" ELSE htlc[q]
                      /\ q # p => candidate'[q] = candidate[q]
    BY <1>1 DEF Shape
<1>3. SettledOut(c)' = SettledOut(c) \ {p} /\ CreditedIn(c)' = CreditedIn(c) \ {p}
    BY <1>2 DEF SettledOut, CreditedIn, OutOf, InOf
<1>4. (p \in SettledOut(c) <=> c = OutOf(p)) /\ (p \in CreditedIn(c) <=> c = InOf(p))
    BY <1>1 DEF SettledOut, CreditedIn
<1>5. Cardinality(SettledOut(c)') = Cardinality(SettledOut(c)) - (IF c = OutOf(p) THEN 1 ELSE 0)
  <2>1. CASE p \in SettledOut(c)
      BY <2>1, <1>3, <1>4, OneLess, AccountIsInt
  <2>2. CASE p \notin SettledOut(c)
    <3>1. SettledOut(c)' = SettledOut(c)
        BY <2>2, <1>3
    <3>. QED
        BY <2>2, <3>1, <1>4, AccountIsInt
  <2>. QED
      BY <2>1, <2>2
<1>6. Cardinality(CreditedIn(c)') = Cardinality(CreditedIn(c)) - (IF c = InOf(p) THEN 1 ELSE 0)
  <2>1. CASE p \in CreditedIn(c)
      BY <2>1, <1>3, <1>4, OneLess, AccountIsInt
  <2>2. CASE p \notin CreditedIn(c)
    <3>1. CreditedIn(c)' = CreditedIn(c)
        BY <2>2, <1>3
    <3>. QED
        BY <2>2, <3>1, <1>4, AccountIsInt
  <2>. QED
      BY <2>1, <2>2
<1>7. OutOf(p) # InOf(p)
    BY <1>1, Ends
<1>8. CASE c = OutOf(p)
  <2>1. Account(c)' = Account(c) + 0 + (-Size) - 0
      BY <1>1, <1>5, <1>6, <1>7, <1>8, AccountIsInt, AccountMoves
  <2>. QED
      BY <1>7, <1>8, <2>1, AccountIsInt
<1>9. CASE c = InOf(p)
  <2>1. Account(c)' = Account(c) + 0 + 0 - (-Size)
      BY <1>1, <1>5, <1>6, <1>7, <1>9, AccountIsInt, AccountMoves
  <2>. QED
      BY <1>7, <1>9, <2>1, AccountIsInt
<1>10. CASE c # OutOf(p) /\ c # InOf(p)
  <2>1. SettledOut(c)' = SettledOut(c) /\ CreditedIn(c)' = CreditedIn(c)
      BY <1>3, <1>4, <1>10
  <2>2. Account(c)' = Account(c)
      BY <1>1, <2>1 DEF Account
  <2>. QED
      BY <1>10, <2>2, AccountIsInt
<1>. QED
    BY <1>8, <1>9, <1>10

---------------------------------------------------------------------------
(* The invariant *)

\* The table speaks of the channels while no answer of ListPeers was stored.
KnownPeers ==
    ~refreshed =>
        \E toUs \in [Channel -> Int] : \E up \in [Channel -> BOOLEAN] :
            Peers = [c \in Channel |-> [toUs |-> toUs[c], connected |-> up[c]]]

IInv ==
    /\ Shape /\ KnownPeers /\ AccountExact
    /\ events \subseteq Channel \X BOOLEAN

\* Steps of a part that move no balance.
LEMMA QuietPart ==
    ASSUME IInv, NEW p \in Part,
           SendPay(p) \/ Fail(p) \/ Timeout(p) \/ \E c \in Channel : Fire(p, c)
    PROVE  IInv'
<1>1. UNCHANGED <<real, Peers, refreshed, unseen, events, forwards>>
    BY DEF SendPay, Fail, Timeout, Fire, plugin, bounds
<1>2. /\ \A q \in Part : htlc[q] \in {"credited", "settled"} =>
              htlc'[q] = htlc[q] /\ candidate'[q] = candidate[q]
      /\ \A q \in Part : htlc'[q] \in {"credited", "settled"} => htlc'[q] = htlc[q]
    BY DEF IInv, Shape, SendPay, Fail, Timeout, Fire, Over
<1>3. \A c \in Channel : Account(c)' = Account(c)
    BY <1>1, <1>2, SameAccount DEF IInv
<1>4. Shape'
  <2>1. \A q \in Part : q # p =>
          stage'[q] = stage[q] /\ htlc'[q] = htlc[q] /\ candidate'[q] = candidate[q]
      BY DEF IInv, Shape, SendPay, Fail, Timeout, Fire, Over
  <2>2. /\ stage'[p] \in {"idle", "fired"} => htlc'[p] = "none"
        /\ stage'[p] # "idle" => candidate'[p] \in Candidates
      BY DEF IInv, Shape, SendPay, Fail, Timeout, Fire, Over
  <2>3. /\ stage' \in [Part -> {"idle", "fired", "waiting", "timedout"}]
        /\ htlc' \in [Part -> {"none", "sent", "credited", "settled"}]
        /\ candidate' \in [Part -> Candidates \cup {NoChannel}]
    <3>1. CASE SendPay(p)
        BY <3>1 DEF IInv, Shape, SendPay
    <3>2. CASE Fail(p)
        BY <3>2 DEF IInv, Shape, Fail, Over
    <3>3. CASE Timeout(p)
        BY <3>3 DEF IInv, Shape, Timeout
    <3>4. CASE \E c \in Channel : Fire(p, c)
        BY <3>4 DEF IInv, Shape, Fire
    <3>. QED
        BY <3>1, <3>2, <3>3, <3>4
  <2>4. fee' \in [Part -> Int]
    <3>1. fee \in [Part -> Int] /\ Fees \subseteq Int
        BY AmountsAssumption DEF IInv, Shape
    <3>2. UNCHANGED fee \/ \E f \in Fees \cup {0} : fee' = [fee EXCEPT ![p] = f]
        BY DEF SendPay, Fail, Timeout, Fire, Over
    <3>3. CASE UNCHANGED fee
        BY <3>1, <3>3
    <3>4. ASSUME NEW f \in Fees \cup {0}, fee' = [fee EXCEPT ![p] = f]
          PROVE  fee' \in [Part -> Int]
        BY <3>1, <3>4
    <3>. QED
        BY <3>2, <3>3, <3>4
  <2>5. \A q \in Part : stage'[q] \in {"idle", "fired"} => htlc'[q] = "none"
      BY <2>1, <2>2 DEF IInv, Shape
  <2>6. \A q \in Part : stage'[q] # "idle" => candidate'[q] \in Candidates
      BY <2>1, <2>2 DEF IInv, Shape
  <2>7. (\E toUs \in [Channel -> Int] : \E up \in [Channel -> BOOLEAN] :
            real = [c \in Channel |-> [toUs |-> toUs[c], connected |-> up[c]]])'
      BY <1>1 DEF IInv, Shape
  <2>8. forwards' \in Nat /\ unseen' \in [Channel -> Int]
      BY <1>1 DEF IInv, Shape
  <2>. QED
      BY <2>3, <2>4, <2>5, <2>6, <2>7, <2>8 DEF Shape
<1>5. AccountExact'
    BY <1>1, <1>3 DEF IInv, AccountExact, Plus
<1>. QED
    BY <1>1, <1>4, <1>5 DEF IInv, KnownPeers

\* Steps of an HTLC.
LEMMA HtlcStep ==
    ASSUME IInv, NEW p \in Part, Credit(p) \/ Settle(p)
    PROVE  IInv'
<1>1. /\ UNCHANGED <<Peers, refreshed, events, forwards, stage, candidate>>
      /\ htlc[p] \in {"sent", "credited"}
      /\ \E h \in {"credited", "settled"} : htlc' = [htlc EXCEPT ![p] = h]
    BY DEF Credit, Settle, plugin, bounds
<1>2. ASSUME ~refreshed, forwards = 0
      PROVE  \A c \in Channel : Account(c)' = Account(c)
    BY <1>2, CreditKeepsAccount, SettleKeepsAccount DEF IInv
<1>6. Size \in Int /\ fee[p] \in Int /\ -(Size + fee[p]) \in Int
    BY AmountsAssumption DEF IInv, Shape
<1>3. PICK e \in Channel, n \in Int : real' = [real EXCEPT ![e].toUs = @ + n]
  <2>1. candidate[p] \in Candidates
      BY <1>1 DEF IInv, Shape
  <2>2. CASE Credit(p)
      BY <2>1, <2>2, <1>6, Ends DEF Credit
  <2>3. CASE Settle(p)
    <3>1. real' = [real EXCEPT ![OutOf(p)].toUs = @ - (Size + fee[p])]
        BY <2>3 DEF Settle
    <3>2. real[OutOf(p)].toUs - (Size + fee[p]) = real[OutOf(p)].toUs + (-(Size + fee[p]))
        BY <2>1, <1>6, Ends DEF IInv, Shape
    <3>. QED
        BY <2>1, <3>1, <3>2, <1>6, Ends
  <2>. QED
      BY <2>2, <2>3
<1>4. Shape'
  <2>1. \E toUs \in [Channel -> Int] : \E up \in [Channel -> BOOLEAN] :
          real' = [c \in Channel |-> [toUs |-> toUs[c], connected |-> up[c]]]
    <3>1. PICK toUs \in [Channel -> Int], up \in [Channel -> BOOLEAN] :
            real = [c \in Channel |-> [toUs |-> toUs[c], connected |-> up[c]]]
        BY DEF IInv, Shape
    <3>2. [toUs EXCEPT ![e] = @ + n] \in [Channel -> Int]
        OBVIOUS
    <3>3. real' = [c \in Channel |->
            [toUs |-> [toUs EXCEPT ![e] = @ + n][c], connected |-> up[c]]]
        BY <1>3, <3>1
    <3>. QED
        BY <3>2, <3>3
  <2>2. unseen' \in [Channel -> Int] /\ fee' \in [Part -> Int]
      BY <1>6 DEF IInv, Shape, Credit, Settle, plugin
  <2>. QED
      BY <1>1, <2>1, <2>2 DEF IInv, Shape
<1>5. AccountExact'
    BY <1>1, <1>2 DEF IInv, AccountExact, Plus
<1>. QED
    BY <1>1, <1>4, <1>5 DEF IInv, KnownPeers

\* UpdateAmounts of a success: table and account change by the same part.
LEMMA ResultStep ==
    ASSUME IInv, NEW p \in Part, UpdateAmounts(p)
    PROVE  IInv'
<1>1. /\ UNCHANGED <<real, refreshed, unseen, events, forwards>>
      /\ candidate[p] \in Candidates
      /\ Peers' = [Peers EXCEPT ![OutOf(p)].toUs = Plus(@ - Size),
                                ![InOf(p)].toUs = Plus(@ + Size)]
    BY DEF UpdateAmounts, UpdateChannelBalance, bounds, IInv, Shape
<1>2. OutOf(p) \in Channel /\ InOf(p) \in Channel /\ OutOf(p) # InOf(p)
    BY <1>1, Ends
<1>3. Shape'
    BY <1>1 DEF UpdateAmounts, Over, IInv, Shape
<1>4. ASSUME ~refreshed
      PROVE  /\ KnownPeers'
             /\ \A c \in Channel : Peers'[c].toUs =
                  IF c = OutOf(p) THEN Plus(Peers[c].toUs - Size)
                  ELSE IF c = InOf(p) THEN Plus(Peers[c].toUs + Size) ELSE Peers[c].toUs
  <2>1. PICK toUs \in [Channel -> Int], up \in [Channel -> BOOLEAN] :
          Peers = [c \in Channel |-> [toUs |-> toUs[c], connected |-> up[c]]]
      BY <1>4 DEF IInv, KnownPeers
  <2> DEFINE then == [toUs EXCEPT ![OutOf(p)] = Plus(@ - Size), ![InOf(p)] = Plus(@ + Size)]
  <2>2. \A n \in Int : Plus(n) \in Int
      BY AmountsAssumption DEF Plus
  <2>3. then \in [Channel -> Int]
    <3>1. Size \in Int
        BY AmountsAssumption
    <3>2. \A c \in Channel : toUs[c] - Size \in Int /\ toUs[c] + Size \in Int
        BY <2>1, <3>1
    <3>3. \A c \in Channel : Plus(toUs[c] - Size) \in Int /\ Plus(toUs[c] + Size) \in Int
        BY <2>2, <3>2
    <3>. QED
        BY <1>2, <2>1, <3>3
  <2>4. Peers' = [c \in Channel |-> [toUs |-> then[c], connected |-> up[c]]]
    <3>1. Peers' = [c \in Channel |->
            IF c = InOf(p) THEN [Peers[c] EXCEPT !.toUs = Plus(Peers[c].toUs + Size)]
            ELSE IF c = OutOf(p) THEN [Peers[c] EXCEPT !.toUs = Plus(Peers[c].toUs - Size)]
            ELSE Peers[c]]
        BY <1>1, <1>2, <2>1
    <3>2. \A c \in Channel : Peers'[c] = [toUs |-> then[c], connected |-> up[c]]
        BY <1>2, <2>1, <3>1
    <3>. QED
        BY <3>1, <3>2
  <2>. QED
      BY <1>2, <2>1, <2>3, <2>4 DEF KnownPeers
<1>5. AccountExact'
  <2> SUFFICES ASSUME ~refreshed, forwards = 0, NEW c \in Channel
               PROVE  Peers'[c].toUs = Plus(Account(c)')
      BY <1>1 DEF AccountExact, Plus
  <2>1. Peers[c].toUs = Plus(Account(c)) /\ Account(c) \in Int
      BY AccountIsInt DEF IInv, AccountExact
  <2>2. Account(c)' = Account(c) + (IF c = InOf(p) THEN Size ELSE 0)
                                 - (IF c = OutOf(p) THEN Size ELSE 0)
      BY ResultMovesAccount DEF IInv
  <2>6. Size \in Int /\ -Size \in Int
      BY AmountsAssumption
  <2>3. CASE c = OutOf(p)
    <3>1. Plus(Plus(Account(c)) + (-Size)) = Plus(Account(c) + (-Size))
        BY <2>1, <2>6, PlusPlus
    <3>2. Plus(Account(c)) \in Int
        BY <2>1, AmountsAssumption DEF Plus
    <3>3. /\ Plus(Account(c)) + (-Size) = Plus(Account(c)) - Size
          /\ Account(c) + (-Size) = Account(c)'
        BY <2>1, <2>2, <2>3, <2>6, <3>2, <1>2
    <3>. QED
        BY <2>1, <2>3, <3>1, <3>3, <1>4
  <2>4. CASE c = InOf(p)
    <3>1. Plus(Plus(Account(c)) + Size) = Plus(Account(c) + Size)
        BY <2>1, <2>6, PlusPlus
    <3>2. Account(c) + Size = Account(c)'
        BY <2>1, <2>2, <2>4, <2>6, <1>2
    <3>. QED
        BY <2>1, <2>4, <3>1, <3>2, <1>2, <1>4
  <2>5. CASE c # OutOf(p) /\ c # InOf(p)
    <3>1. Account(c)' = Account(c)
        BY <2>1, <2>2, <2>5
    <3>. QED
        BY <2>1, <2>5, <3>1, <1>4
  <2>. QED
      BY <2>3, <2>4, <2>5
<1>6. KnownPeers'
    BY <1>1, <1>4 DEF KnownPeers
<1>. QED
    BY <1>1, <1>3, <1>5, <1>6 DEF IInv

\* refreshPeers ends what AccountExact speaks of.
LEMMA RefreshStep ==
    ASSUME IInv, NEW j \in Job, ListPeers(j) \/ refreshPeers(j)
    PROVE  IInv'
<1>1. UNCHANGED <<real, events, stage, htlc, candidate, fee, forwards>>
    BY DEF ListPeers, refreshPeers, work, bounds
<1>2. /\ UNCHANGED <<Peers, refreshed, unseen>> \/ refreshed'
      /\ unseen' \in [Channel -> Int]
    BY DEF ListPeers, refreshPeers, IInv, Shape
<1>3. ASSUME ~refreshed' PROVE \A c \in Channel : Account(c)' = Account(c)
    BY <1>1, <1>2, <1>3, SameAccount DEF IInv
<1>4. Shape'
    BY <1>1, <1>2 DEF IInv, Shape
<1>5. AccountExact' /\ KnownPeers'
    BY <1>1, <1>2, <1>3 DEF IInv, KnownPeers, AccountExact, Plus
<1>. QED
    BY <1>1, <1>4, <1>5 DEF IInv

\* A payment of others too.
LEMMA ForwardStep ==
    ASSUME IInv, NEW e \in Channel, Forward(e)
    PROVE  IInv'
<1>1. /\ UNCHANGED <<Peers, refreshed, unseen, events, stage, htlc, candidate, fee>>
      /\ forwards' = forwards + 1
    BY DEF Forward, plugin, work
<1>2. PICK n \in Int : real' = [real EXCEPT ![e].toUs = @ + n]
  <2>1. Size \in Int /\ -Size \in Int
      BY AmountsAssumption
  <2>2. PICK n \in {-Size, Size} : real' = [real EXCEPT ![e].toUs = @ + n]
      BY DEF Forward
  <2>. QED
      BY <2>1, <2>2
<1>3. PICK toUs \in [Channel -> Int], up \in [Channel -> BOOLEAN] :
        real = [c \in Channel |-> [toUs |-> toUs[c], connected |-> up[c]]]
    BY DEF IInv, Shape
<1>4. [toUs EXCEPT ![e] = @ + n] \in [Channel -> Int]
    OBVIOUS
<1>5. real' = [c \in Channel |->
        [toUs |-> [toUs EXCEPT ![e] = @ + n][c], connected |-> up[c]]]
    BY <1>2, <1>3
<1>6. Shape'
  <2>1. \E then \in [Channel -> Int] : \E there \in [Channel -> BOOLEAN] :
          real' = [c \in Channel |-> [toUs |-> then[c], connected |-> there[c]]]
      BY <1>4, <1>5
  <2>2. forwards' \in Nat
      BY <1>1 DEF IInv, Shape
  <2>. QED
      BY <1>1, <2>1, <2>2 DEF IInv, Shape
<1>7. forwards' # 0
    BY <1>1 DEF IInv, Shape
<1>. QED
    BY <1>1, <1>6, <1>7 DEF IInv, KnownPeers, AccountExact

\* Connections do not touch balances.
LEMMA ConnectionStep ==
    ASSUME IInv, (\E c \in Channel : Switch(c)) \/ (\E e \in events : OnConnectOrDisconnect(e))
    PROVE  IInv'
<1>1. UNCHANGED <<refreshed, unseen, stage, htlc, candidate, fee, forwards>>
    BY DEF Switch, OnConnectOrDisconnect, plugin, work, bounds
<1>2. events' \subseteq Channel \X BOOLEAN
  <2>1. ASSUME NEW c \in Channel PROVE <<c, ~real[c].connected>> \in Channel \X BOOLEAN
    <3>1. CASE real[c].connected
        BY <3>1
    <3>2. CASE ~real[c].connected
        BY <3>2
    <3>. QED
        BY <3>1, <3>2
  <2>. QED
      BY <2>1 DEF IInv, Switch, OnConnectOrDisconnect
<1>3. PICK toUs \in [Channel -> Int], up \in [Channel -> BOOLEAN] :
        real = [c \in Channel |-> [toUs |-> toUs[c], connected |-> up[c]]]
    BY DEF IInv, Shape
<1>4. \E now \in [Channel -> BOOLEAN] :
        real' = [c \in Channel |-> [toUs |-> toUs[c], connected |-> now[c]]]
  <2>1. ASSUME NEW e \in Channel, Switch(e)
        PROVE  \E now \in [Channel -> BOOLEAN] :
                 real' = [c \in Channel |-> [toUs |-> toUs[c], connected |-> now[c]]]
    <3>1. real' = [c \in Channel |->
             [toUs |-> toUs[c], connected |-> [up EXCEPT ![e] = ~up[e]][c]]]
        BY <2>1, <1>3 DEF Switch
    <3>2. [up EXCEPT ![e] = ~up[e]] \in [Channel -> BOOLEAN]
        OBVIOUS
    <3>. QED
        BY <3>1, <3>2
  <2>. QED
      BY <2>1, <1>3 DEF OnConnectOrDisconnect
<1>5. Shape' /\ \A c \in Channel : real'[c].toUs = real[c].toUs
  <2>1. \E then \in [Channel -> Int] : \E now \in [Channel -> BOOLEAN] :
          real' = [c \in Channel |-> [toUs |-> then[c], connected |-> now[c]]]
      BY <1>4
  <2>2. Shape'
      BY <1>1, <2>1 DEF IInv, Shape
  <2>. QED
      BY <1>3, <1>4, <2>2
<1>6. \A c \in Channel : Account(c)' = Account(c)
    BY <1>1, <1>5, SameAccount DEF IInv
<1>7. ASSUME ~refreshed
      PROVE  KnownPeers' /\ \A c \in Channel : Peers'[c].toUs = Peers[c].toUs
  <2>1. PICK told \in [Channel -> Int], there \in [Channel -> BOOLEAN] :
          Peers = [c \in Channel |-> [toUs |-> told[c], connected |-> there[c]]]
      BY <1>7 DEF IInv, KnownPeers
  <2>2. CASE UNCHANGED Peers
      BY <2>1, <2>2 DEF KnownPeers
  <2>3. ASSUME NEW e \in events, Peers' = [Peers EXCEPT ![e[1]].connected = e[2]]
        PROVE  KnownPeers' /\ \A c \in Channel : Peers'[c].toUs = Peers[c].toUs
    <3>1. e[1] \in Channel /\ e[2] \in BOOLEAN
        BY DEF IInv
    <3>2. Peers' = [c \in Channel |->
             [toUs |-> told[c], connected |-> [there EXCEPT ![e[1]] = e[2]][c]]]
        BY <2>1, <2>3, <3>1
    <3>3. [there EXCEPT ![e[1]] = e[2]] \in [Channel -> BOOLEAN]
        BY <3>1
    <3>. QED
        BY <2>1, <3>2, <3>3 DEF KnownPeers
  <2>. QED
      BY <2>2, <2>3 DEF Switch, OnConnectOrDisconnect, plugin
<1>8. AccountExact' /\ KnownPeers'
    BY <1>1, <1>6, <1>7 DEF IInv, AccountExact, KnownPeers, Plus
<1>. QED
    BY <1>2, <1>5, <1>8 DEF IInv

\* The first refreshPeers has just run.
LEMMA InitIInv == Init => IInv
<1> SUFFICES ASSUME Init PROVE IInv
    OBVIOUS
<1> DEFINE toUs == [c \in Channel |-> real[c].toUs]
           up == [c \in Channel |-> real[c].connected]
<1>1. /\ toUs \in [Channel -> Int] /\ up \in [Channel -> BOOLEAN]
      /\ real = [c \in Channel |-> [toUs |-> toUs[c], connected |-> up[c]]]
  <2>1. real \in [Channel -> [toUs : 0..Total, connected : {TRUE}]]
      BY AmountsAssumption DEF Init
  <2>2. ASSUME NEW c \in Channel
        PROVE  /\ real[c].toUs \in Int /\ real[c].connected \in BOOLEAN
               /\ real[c] = [toUs |-> real[c].toUs, connected |-> real[c].connected]
    <3>1. real[c] \in [toUs : 0..Total, connected : {TRUE}]
        BY <2>1
    <3>2. real[c] = [toUs |-> real[c].toUs, connected |-> real[c].connected]
        BY <3>1
    <3>3. real[c].toUs \in Int
      <4>1. real[c].toUs \in 0..Total
          BY <3>1, Zenon
      <4>. QED
          BY <4>1, AmountsAssumption
    <3>4. real[c].connected \in {TRUE}
        BY <3>1
    <3>5. real[c].connected \in BOOLEAN
        BY <3>4, Zenon
    <3>. QED
        BY <3>2, <3>3, <3>5
  <2>3. real = [c \in Channel |-> real[c]]
      BY <2>1
  <2>4. toUs \in [Channel -> Int] /\ up \in [Channel -> BOOLEAN]
      BY <2>2
  <2>5. \A c \in Channel : real[c] = [toUs |-> toUs[c], connected |-> up[c]]
      BY <2>2
  <2> HIDE DEF toUs, up
  <2>. QED
      BY <2>3, <2>4, <2>5
<1>2. Shape /\ KnownPeers
  <2>1. \E then \in [Channel -> Int] : \E now \in [Channel -> BOOLEAN] :
          real = [c \in Channel |-> [toUs |-> then[c], connected |-> now[c]]]
      BY <1>1
  <2>2. Shape
      BY <2>1 DEF Init, Shape
  <2>. QED
      BY <2>1, <2>2 DEF Init, KnownPeers
<1>3. ASSUME NEW c \in Channel PROVE Peers[c].toUs = Plus(Account(c))
  <2>1. SettledOut(c) = {} /\ CreditedIn(c) = {}
      BY DEF Init, SettledOut, CreditedIn
  <2>2. Cardinality({}) = 0
      BY FS_EmptySet
  <2>3. real[c].toUs \in 0..Total /\ unseen[c] = 0
      BY AmountsAssumption DEF Init
  <2>4. Account(c) = real[c].toUs
    <3>1. Account(c) = real[c].toUs + 0 + Size * (0 - 0)
        BY <2>1, <2>2, <2>3 DEF Account
    <3>. QED
        BY <2>3, <3>1, AmountsAssumption
  <2>5. \A n \in 0..Total : n % Word = n
      BY AmountsAssumption
  <2>. QED
      BY <2>3, <2>4, <2>5 DEF Init, Plus
<1>. QED
    BY <1>2, <1>3 DEF Init, IInv, AccountExact

\* Table and account agree in every reachable state.
THEOREM Invariance == Spec => []IInv
<1>1. IInv /\ [Next]_vars => IInv'
  <2>1. ASSUME IInv, UNCHANGED vars PROVE IInv'
    <3>1. \A c \in Channel : Account(c)' = Account(c)
        BY <2>1, SameAccount DEF IInv, vars
    <3>. QED
        BY <2>1, <3>1 DEF vars, IInv, Shape, KnownPeers, AccountExact, Plus
  <2>. QED
      BY <2>1, QuietPart, HtlcStep, ResultStep, RefreshStep, ForwardStep, ConnectionStep DEF Next
<1>. QED
    BY InitIInv, <1>1, PTL DEF Spec

\* The plugin's table is the real balance with the fees of the parts that settled
\* and without what it cannot know yet, however parts of pulls and pushes overlap
\* (peers.go:107, result.go:82).
THEOREM TableIsExact == Spec => []AccountExact
BY Invariance, PTL DEF IInv
=============================================================================
