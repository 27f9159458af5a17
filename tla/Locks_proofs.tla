---------------------------- MODULE Locks_proofs ----------------------------
(***************************************************************************)
(* Proofs about Locks, for any number of goroutines and any of the         *)
(* sections: no map is raced but the peers by validatePeers, and the locks *)
(* are taken in one order unless FindCandidates runs.                      *)
(***************************************************************************)
EXTENDS Locks, SequenceTheorems, TLAPS

---------------------------------------------------------------------------
(* What a script holds on its way *)

\* How often each lock is held for reading, and which are held for writing.
Holding == [reads : [Lock -> Nat], writes : SUBSET Lock]

Nothing == [reads |-> [l \in Lock |-> 0], writes |-> {}]

After(step, h) ==
    [reads  |-> [l \in Lock |-> IF step = Step("RLock", l) THEN h.reads[l] + 1
                                ELSE IF step = Step("RUnlock", l) THEN h.reads[l] - 1
                                ELSE h.reads[l]],
     writes |-> {l \in Lock : \/ step = Step("Lock", l)
                              \/ l \in h.writes /\ step # Step("Unlock", l)}]

\* The lock that keeps a map: PruneChannels and RefreshChannels both edit the
\* adjacency list under channelsLock.
Keeper(m) ==
    CASE m = "Peers" -> "peers"
      [] m = "Channels" -> "channels"
      [] m = "Inbound" -> "channels"
      [] m = "Aliases" -> "aliases"

\* FindCandidates takes PeersLock twice; the order is that of the others.
Ordered == "FindCandidates" \notin Sections

Has(h, l) == h.reads[l] > 0 \/ l \in h.writes

MayTake(l, h) == Ordered => \A held \in Lock : Has(h, held) => held \in Before(l)

Allowed(step, h) ==
    \/ \E l \in Lock : step = Step("RLock", l) /\ MayTake(l, h)
    \/ \E l \in Lock : step = Step("Lock", l) /\ MayTake(l, h) /\ l \notin h.writes
    \/ \E l \in Lock : step = Step("RUnlock", l) /\ h.reads[l] > 0
    \/ \E l \in Lock : step = Step("Unlock", l) /\ l \in h.writes
    \/ \E m \in Map : step = Step("Read", m) /\ Has(h, Keeper(m))
    \/ \E m \in Map : step = Step("Write", m) /\ Keeper(m) \in h.writes

Steps == [do : {"RLock", "RUnlock", "Lock", "Unlock", "Read", "Write"}, on : Lock \cup Map]

\* The script s leads from holding h to holding g, each step being allowed.
Runs(s, h, g) ==
    \E t \in [0..Len(s) -> Holding] :
        /\ t[0] = h /\ t[Len(s)] = g
        /\ \A k \in 1..Len(s) : Allowed(s[k], t[k - 1]) /\ t[k] = After(s[k], t[k - 1])

Held(p) ==
    [reads  |-> [l \in Lock |-> readers[l][p]],
     writes |-> {l \in Lock : writer[l] = p /\ ~At(p, "Lock", l)}]

LocksType ==
    /\ todo \in [Process -> Seq(Steps)]
    /\ readers \in [Lock -> [Process -> Nat]]
    /\ writer \in [Lock -> Process \cup {NoProcess}]
    /\ waiting \in [Lock -> SUBSET Process]

\* What each goroutine holds is what the rest of its section counts on, which is
\* nothing in validatePeers.
Going(p) ==
    \/ Runs(todo[p], Held(p), Nothing)
    \/ "ValidatePeers" \in Sections /\ Validates(p) /\ Held(p) = Nothing

Scripted == \A p \in Process : Going(p)

\* Who holds a lock for writing holds it alone.
WriterAlone ==
    \A l \in Lock, p \in Process :
        writer[l] = p /\ ~At(p, "Lock", l) => \A q \in Process : readers[l][q] = 0

WaitForWriter ==
    \A l \in Lock : \A p \in waiting[l] : At(p, "RLock", l) /\ writer[l] # NoProcess

LInv == LocksType /\ Scripted /\ WriterAlone /\ WaitForWriter

---------------------------------------------------------------------------
(* Running scripts *)

LEMMA StepsDiffer ==
    ASSUME NEW d, NEW e, NEW l, NEW m, Step(d, l) = Step(e, m)
    PROVE  d = e /\ l = m
BY DEF Step

\* An allowed step leads from holdings to holdings.
LEMMA AfterIsHolding ==
    ASSUME NEW h \in Holding, NEW step, Allowed(step, h)
    PROVE  After(step, h) \in Holding
<1>. DEFINE reads(l) == IF step = Step("RLock", l) THEN h.reads[l] + 1
                        ELSE IF step = Step("RUnlock", l) THEN h.reads[l] - 1
                        ELSE h.reads[l]
<1>1. ASSUME NEW l \in Lock, step = Step("RUnlock", l) PROVE h.reads[l] > 0
    BY <1>1, StepsDiffer DEF Allowed, Step
<1>2. \A l \in Lock : h.reads[l] \in Nat
    BY DEF Holding
<1>3. \A l \in Lock : reads(l) \in Nat
    BY <1>1, <1>2
<1>. QED
    BY <1>3 DEF After, Holding

LEMMA RunsEmpty ==
    ASSUME NEW h \in Holding, NEW g
    PROVE  Runs(<<>>, h, g) <=> g = h
<1>1. Runs(<<>>, h, g) => g = h
    BY DEF Runs
<1>2. Runs(<<>>, h, h)
    <2>. DEFINE t == [k \in 0..0 |-> h]
    <2>1. t \in [0..Len(<<>>) -> Holding] /\ t[0] = h /\ 1..Len(<<>>) = {}
        OBVIOUS
    <2>. HIDE DEF t
    <2>. QED
        BY <2>1 DEF Runs
<1>. QED
    BY <1>1, <1>2

\* The first step of a script is allowed, and the others go on from there.
LEMMA RunsOn ==
    ASSUME NEW s \in Seq(Steps), s # <<>>, NEW h \in Holding, NEW g, Runs(s, h, g)
    PROVE  /\ Allowed(Head(s), h) /\ After(Head(s), h) \in Holding
           /\ Runs(Tail(s), After(Head(s), h), g)
<1>1. PICK t \in [0..Len(s) -> Holding] :
          /\ t[0] = h /\ t[Len(s)] = g
          /\ \A k \in 1..Len(s) : Allowed(s[k], t[k - 1]) /\ t[k] = After(s[k], t[k - 1])
    BY DEF Runs
<1>2. Len(s) \in Nat /\ Len(s) >= 1 /\ Head(s) = s[1] /\ Len(Tail(s)) = Len(s) - 1
    OBVIOUS
<1>3. Allowed(Head(s), h) /\ t[1] = After(Head(s), h)
    <2>1. 1 \in 1..Len(s) /\ 1 - 1 = 0
        BY <1>2
    <2>. QED
        BY <1>1, <1>2, <2>1
<1>. DEFINE u == [k \in 0..(Len(s) - 1) |-> t[k + 1]]
<1>4. u \in [0..Len(Tail(s)) -> Holding] /\ u[0] = t[1] /\ u[Len(Tail(s))] = g
    BY <1>1, <1>2
<1>5. \A k \in 1..Len(Tail(s)) :
          Allowed(Tail(s)[k], u[k - 1]) /\ u[k] = After(Tail(s)[k], u[k - 1])
    <2>1. TAKE k \in 1..Len(Tail(s))
    <2>2. Tail(s)[k] = s[k + 1] /\ k + 1 \in 1..Len(s) /\ (k + 1) - 1 = k
        BY <1>2
    <2>3. u[k - 1] = t[k] /\ u[k] = t[k + 1]
        BY <1>2
    <2>. QED
        BY <1>1, <2>2, <2>3
<1>. HIDE DEF u
<1>. QED
    BY <1>3, <1>4, <1>5, AfterIsHolding DEF Runs

LEMMA RunsStep ==
    ASSUME NEW h \in Holding, NEW step, Allowed(step, h)
    PROVE  Runs(<<step>>, h, After(step, h))
<1>. DEFINE t == [k \in 0..1 |-> IF k = 0 THEN h ELSE After(step, h)]
<1>1. t \in [0..1 -> Holding] /\ t[0] = h /\ t[1] = After(step, h)
    BY AfterIsHolding
<1>2. Len(<<step>>) = 1 /\ <<step>>[1] = step
    OBVIOUS
<1>3. \A k \in 1..1 : k = 1 /\ k - 1 = 0
    OBVIOUS
<1>. HIDE DEF t
<1>. QED
    BY <1>1, <1>2, <1>3 DEF Runs

\* Scripts run one after the other.
LEMMA RunsBoth ==
    ASSUME NEW s \in Seq(Steps), NEW r \in Seq(Steps), NEW h, NEW g, NEW f,
           Runs(s, h, g), Runs(r, g, f)
    PROVE  s \o r \in Seq(Steps) /\ Runs(s \o r, h, f)
<1>1. PICK t \in [0..Len(s) -> Holding] :
          /\ t[0] = h /\ t[Len(s)] = g
          /\ \A k \in 1..Len(s) : Allowed(s[k], t[k - 1]) /\ t[k] = After(s[k], t[k - 1])
    BY DEF Runs
<1>2. PICK u \in [0..Len(r) -> Holding] :
          /\ u[0] = g /\ u[Len(r)] = f
          /\ \A k \in 1..Len(r) : Allowed(r[k], u[k - 1]) /\ u[k] = After(r[k], u[k - 1])
    BY DEF Runs
<1>3. Len(s) \in Nat /\ Len(r) \in Nat /\ Len(s \o r) = Len(s) + Len(r)
    OBVIOUS
<1>. DEFINE v == [k \in 0..(Len(s) + Len(r)) |-> IF k <= Len(s) THEN t[k] ELSE u[k - Len(s)]]
<1>4. v \in [0..Len(s \o r) -> Holding] /\ v[0] = h
    BY <1>1, <1>2, <1>3
<1>5. v[Len(s \o r)] = f
    <2>1. CASE Len(r) = 0
        BY <1>1, <1>2, <1>3, <2>1
    <2>2. CASE Len(r) # 0
        BY <1>2, <1>3, <2>2
    <2>. QED
        BY <2>1, <2>2
<1>6. ASSUME NEW k \in 1..Len(s \o r)
      PROVE  Allowed((s \o r)[k], v[k - 1]) /\ v[k] = After((s \o r)[k], v[k - 1])
    <2>1. CASE k <= Len(s)
        <3>1. (s \o r)[k] = s[k] /\ k \in 1..Len(s) /\ v[k] = t[k] /\ v[k - 1] = t[k - 1]
            BY <1>3, <2>1
        <3>. QED
            BY <1>1, <3>1
    <2>2. CASE k > Len(s)
        <3>. DEFINE j == k - Len(s)
        <3>1. j \in 1..Len(r) /\ (s \o r)[k] = r[j] /\ v[k] = u[j]
            BY <1>3, <2>2
        <3>2. v[k - 1] = u[j - 1]
            <4>1. CASE j = 1
                BY <1>1, <1>2, <1>3, <4>1
            <4>2. CASE j > 1
                BY <1>3, <4>2, <3>1
            <4>. QED
                BY <3>1, <4>1, <4>2
        <3>. QED
            BY <1>2, <3>1, <3>2
    <2>. QED
        BY <1>3, <2>1, <2>2
<1>. HIDE DEF v
<1>7. Runs(s \o r, h, f)
    BY <1>4, <1>5, <1>6 DEF Runs
<1>. QED
    BY <1>7

LEMMA RunsTwo ==
    ASSUME NEW a \in Steps, NEW b \in Steps, NEW h, NEW g, NEW f,
           Runs(<<a>>, h, g), Runs(<<b>>, g, f)
    PROVE  <<a, b>> \in Seq(Steps) /\ Runs(<<a, b>>, h, f)
<1>1. <<a>> \in Seq(Steps) /\ <<b>> \in Seq(Steps) /\ <<a, b>> = <<a>> \o <<b>>
    <2>1. <<a>> \in Seq(Steps) /\ <<b>> \in Seq(Steps) /\ <<a, b>> \in Seq(Steps)
        OBVIOUS
    <2>2. <<a>> \o <<b>> \in Seq(Steps) /\ Len(<<a>> \o <<b>>) = Len(<<a, b>>)
        BY <2>1
    <2>3. \A k \in 1..Len(<<a, b>>) : (<<a>> \o <<b>>)[k] = <<a, b>>[k]
        BY <2>1
    <2>. QED
        BY <2>1, <2>2, <2>3, SeqEqual
<1>2. <<a>> \o <<b>> \in Seq(Steps) /\ Runs(<<a>> \o <<b>>, h, f)
    BY <1>1, RunsBoth
<1>. QED
    BY <1>1, <1>2

---------------------------------------------------------------------------
(* The scripts of the plugin *)

\* Holding l besides h, for reading or for writing.
AndRead(l, h) == After(Step("RLock", l), h)
AndWrite(l, h) == After(Step("Lock", l), h)

LEMMA StepIs ==
    ASSUME NEW d \in {"RLock", "RUnlock", "Lock", "Unlock"}, NEW l \in Lock
    PROVE  Step(d, l) \in Steps
BY DEF Step, Steps

LEMMA AccessIs ==
    ASSUME NEW d \in {"Read", "Write"}, NEW m \in Map
    PROVE  Step(d, m) \in Steps
BY DEF Step, Steps

LEMMA SameHolding ==
    ASSUME NEW h \in Holding, NEW g \in Holding,
           \A k \in Lock : h.reads[k] = g.reads[k] /\ (k \in h.writes <=> k \in g.writes)
    PROVE  h = g
<1>1. h.reads = g.reads /\ h.writes = g.writes
    BY DEF Holding
<1>. QED
    BY <1>1 DEF Holding

\* What a step does to what is held.
LEMMA AfterIs ==
    ASSUME NEW h, NEW d, NEW l, NEW k \in Lock
    PROVE  /\ After(Step(d, l), h).reads[k]
                = IF d = "RLock" /\ k = l THEN h.reads[k] + 1
                  ELSE IF d = "RUnlock" /\ k = l THEN h.reads[k] - 1
                  ELSE h.reads[k]
           /\ k \in After(Step(d, l), h).writes
                <=> (d = "Lock" /\ k = l) \/ (k \in h.writes /\ ~(d = "Unlock" /\ k = l))
<1>1. \A e : Step(d, l) = Step(e, k) <=> d = e /\ k = l
    BY DEF Step
<1>2. After(Step(d, l), h).reads[k]
        = IF Step(d, l) = Step("RLock", k) THEN h.reads[k] + 1
          ELSE IF Step(d, l) = Step("RUnlock", k) THEN h.reads[k] - 1
          ELSE h.reads[k]
    BY DEF After
<1>3. k \in After(Step(d, l), h).writes
        <=> \/ Step(d, l) = Step("Lock", k)
            \/ k \in h.writes /\ Step(d, l) # Step("Unlock", k)
    BY DEF After
<1>. QED
    BY <1>1, <1>2, <1>3

LEMMA TakenIsHolding ==
    ASSUME NEW h \in Holding, NEW l \in Lock
    PROVE  AndRead(l, h) \in Holding /\ AndWrite(l, h) \in Holding
<1>1. \A e, k : Step("RLock", l) # Step("RUnlock", k) /\ Step("Lock", l) # Step("RUnlock", k)
    BY DEF Step
<1>2. \A k \in Lock : h.reads[k] \in Nat
    BY DEF Holding
<1>3. AndRead(l, h) \in Holding
    BY <1>1, <1>2 DEF AndRead, After, Holding
<1>4. AndWrite(l, h) \in Holding
    BY <1>1, <1>2 DEF AndWrite, After, Holding
<1>. QED
    BY <1>3, <1>4

LEMMA AccessKeeps ==
    ASSUME NEW h \in Holding, NEW d \in {"Read", "Write"}, NEW m
    PROVE  After(Step(d, m), h) = h
<1>1. \A e \in {"RLock", "RUnlock", "Lock", "Unlock"} : \A k : Step(d, m) # Step(e, k)
    BY DEF Step
<1>. QED
    BY <1>1 DEF After, Holding

\* To take a lock, run the body and release the lock leads back.
LEMMA ReadingRuns ==
    ASSUME NEW l \in Lock, NEW h \in Holding, MayTake(l, h),
           NEW body \in Seq(Steps), Runs(body, AndRead(l, h), AndRead(l, h))
    PROVE  Reading(l, body) \in Seq(Steps) /\ Runs(Reading(l, body), h, h)
<1>. DEFINE take == Step("RLock", l)
            leave == Step("RUnlock", l)
            g == AndRead(l, h)
<1>1. take \in Steps /\ leave \in Steps
    BY StepIs
<1>2. g \in Holding /\ After(take, h) = g
    BY TakenIsHolding DEF AndRead
<1>3. Runs(<<take>>, h, g)
    BY <1>2, RunsStep DEF Allowed
<1>4. g.reads[l] > 0 /\ After(leave, g) = h
    <2>1. \A k \in Lock : h.reads[k] \in Nat
        BY DEF Holding
    <2>2. g.reads[l] > 0
        BY <2>1, AfterIs DEF AndRead
    <2>3. After(leave, g) \in Holding
        BY <1>2, <2>2, AfterIsHolding DEF Allowed
    <2>4. \A k \in Lock :
              /\ After(leave, g).reads[k] = h.reads[k]
              /\ k \in After(leave, g).writes <=> k \in h.writes
        BY <2>1, AfterIs DEF AndRead
    <2>. QED
        BY <2>2, <2>3, <2>4, SameHolding
<1>5. Runs(<<leave>>, g, h)
    BY <1>2, <1>4, RunsStep DEF Allowed
<1>. HIDE DEF take, leave, g
<1>6. <<take>> \in Seq(Steps) /\ <<leave>> \in Seq(Steps)
    BY <1>1
<1>7. Runs(<<take>> \o body, h, g)
    BY <1>3, <1>6, RunsBoth DEF g
<1>. HIDE DEF g
<1>8. Runs((<<take>> \o body) \o <<leave>>, h, h)
    <2>1. <<take>> \o body \in Seq(Steps)
        BY <1>6
    <2>. QED
        BY <1>5, <1>6, <1>7, <2>1, RunsBoth
<1>. QED
    BY <1>6, <1>8 DEF Reading, take, leave

LEMMA WritingRuns ==
    ASSUME NEW l \in Lock, NEW h \in Holding, MayTake(l, h), l \notin h.writes,
           NEW body \in Seq(Steps), Runs(body, AndWrite(l, h), AndWrite(l, h))
    PROVE  Writing(l, body) \in Seq(Steps) /\ Runs(Writing(l, body), h, h)
<1>. DEFINE take == Step("Lock", l)
            leave == Step("Unlock", l)
            g == AndWrite(l, h)
<1>1. take \in Steps /\ leave \in Steps
    BY StepIs
<1>2. g \in Holding /\ After(take, h) = g
    BY TakenIsHolding DEF AndWrite
<1>3. Runs(<<take>>, h, g)
    BY <1>2, RunsStep DEF Allowed
<1>4. l \in g.writes /\ After(leave, g) = h
    <2>1. l \in g.writes
        BY AfterIs DEF AndWrite
    <2>2. After(leave, g) \in Holding
        BY <1>2, <2>1, AfterIsHolding DEF Allowed
    <2>3. \A k \in Lock :
              /\ After(leave, g).reads[k] = h.reads[k]
              /\ k \in After(leave, g).writes <=> k \in h.writes
        BY AfterIs DEF AndWrite
    <2>. QED
        BY <2>1, <2>2, <2>3, SameHolding
<1>5. Runs(<<leave>>, g, h)
    BY <1>2, <1>4, RunsStep DEF Allowed
<1>. HIDE DEF take, leave, g
<1>6. <<take>> \in Seq(Steps) /\ <<leave>> \in Seq(Steps)
    BY <1>1
<1>7. Runs(<<take>> \o body, h, g)
    BY <1>3, <1>6, RunsBoth DEF g
<1>. HIDE DEF g
<1>8. Runs((<<take>> \o body) \o <<leave>>, h, h)
    <2>1. <<take>> \o body \in Seq(Steps)
        BY <1>6
    <2>. QED
        BY <1>5, <1>6, <1>7, <2>1, RunsBoth
<1>. QED
    BY <1>6, <1>8 DEF Writing, take, leave

LEMMA ReadRuns ==
    ASSUME NEW m \in Map, NEW h \in Holding, Has(h, Keeper(m))
    PROVE  Read(m) \in Seq(Steps) /\ Runs(Read(m), h, h)
<1>1. Runs(<<Step("Read", m)>>, h, After(Step("Read", m), h))
    BY RunsStep DEF Allowed
<1>. QED
    BY <1>1, AccessKeeps, AccessIs DEF Read

LEMMA WriteRuns ==
    ASSUME NEW m \in Map, NEW h \in Holding, Keeper(m) \in h.writes
    PROVE  Write(m) \in Seq(Steps) /\ Runs(Write(m), h, h)
<1>1. Runs(<<Step("Write", m)>>, h, After(Step("Write", m), h))
    BY RunsStep DEF Allowed
<1>. QED
    BY <1>1, AccessKeeps, AccessIs DEF Write

\* Holding more, a goroutine still has what it had, and nothing else.
LEMMA HasMore ==
    ASSUME NEW h \in Holding, NEW l \in Lock, NEW k \in Lock
    PROVE  /\ Has(AndRead(l, h), k) <=> k = l \/ Has(h, k)
           /\ Has(AndWrite(l, h), k) <=> k = l \/ Has(h, k)
           /\ k \in AndRead(l, h).writes <=> k \in h.writes
           /\ k \in AndWrite(l, h).writes <=> k = l \/ k \in h.writes
<1>1. h.reads[k] \in Nat
    BY DEF Holding
<1>. QED
    BY <1>1, AfterIs DEF Has, AndRead, AndWrite

LEMMA HasNothing ==
    /\ Nothing \in Holding
    /\ \A k \in Lock : ~Has(Nothing, k) /\ k \notin Nothing.writes
BY DEF Nothing, Holding, Has

LEMMA LookupPeerRuns ==
    ASSUME NEW h \in Holding, MayTake("peers", h)
    PROVE  LookupPeer \in Seq(Steps) /\ Runs(LookupPeer, h, h)
<1>. DEFINE g == AndRead("peers", h)
<1>1. "peers" \in Lock /\ "Peers" \in Map /\ Keeper("Peers") = "peers"
    BY DEF Lock, Map, Keeper
<1>2. g \in Holding /\ Has(g, "peers")
    BY <1>1, TakenIsHolding, HasMore
<1>3. Read("Peers") \in Seq(Steps) /\ Runs(Read("Peers"), g, g)
    BY <1>1, <1>2, ReadRuns
<1>. QED
    BY <1>1, <1>3, ReadingRuns DEF LookupPeer

LEMMA GetChannelRuns ==
    ASSUME NEW h \in Holding, MayTake("channels", h)
    PROVE  GetChannel \in Seq(Steps) /\ Runs(GetChannel, h, h)
<1>. DEFINE g == AndRead("channels", h)
<1>1. "channels" \in Lock /\ "Channels" \in Map /\ Keeper("Channels") = "channels"
    BY DEF Lock, Map, Keeper
<1>2. g \in Holding /\ Has(g, "channels")
    BY <1>1, TakenIsHolding, HasMore
<1>3. Read("Channels") \in Seq(Steps) /\ Runs(Read("Channels"), g, g)
    BY <1>1, <1>2, ReadRuns
<1>. QED
    BY <1>1, <1>3, ReadingRuns DEF GetChannel

\* Nobody holds a lock yet: any may be taken.
LEMMA MayTakeFirst == \A l \in Lock : MayTake(l, Nothing)
BY HasNothing DEF MayTake

\* The sections that hold one lock and go through one map.
LEMMA OneLockRuns ==
    ASSUME NEW l \in Lock, NEW m \in Map, Keeper(m) = l
    PROVE  /\ Reading(l, Read(m)) \in Seq(Steps) /\ Runs(Reading(l, Read(m)), Nothing, Nothing)
           /\ Writing(l, Read(m)) \in Seq(Steps) /\ Runs(Writing(l, Read(m)), Nothing, Nothing)
           /\ Writing(l, Write(m)) \in Seq(Steps) /\ Runs(Writing(l, Write(m)), Nothing, Nothing)
<1>. DEFINE r == AndRead(l, Nothing)
            w == AndWrite(l, Nothing)
<1>1. Nothing \in Holding /\ MayTake(l, Nothing) /\ l \notin Nothing.writes
    BY HasNothing, MayTakeFirst
<1>2. r \in Holding /\ Has(r, l) /\ w \in Holding /\ Has(w, l) /\ l \in w.writes
    BY <1>1, TakenIsHolding, HasMore
<1>3. /\ Read(m) \in Seq(Steps) /\ Runs(Read(m), r, r) /\ Runs(Read(m), w, w)
      /\ Write(m) \in Seq(Steps) /\ Runs(Write(m), w, w)
    BY <1>2, ReadRuns, WriteRuns
<1>. QED
    BY <1>1, <1>3, ReadingRuns, WritingRuns

\* A candidate is looked up under PeersLock: the only section that takes a lock
\* it has.
LEMMA FindCandidatesRuns ==
    ASSUME ~Ordered
    PROVE  FindCandidates \in Seq(Steps) /\ Runs(FindCandidates, Nothing, Nothing)
<1>. DEFINE g == AndRead("peers", Nothing)
<1>1. \A l, h : MayTake(l, h)
    BY DEF MayTake
<1>2. "peers" \in Lock /\ "Peers" \in Map /\ Keeper("Peers") = "peers" /\ Nothing \in Holding
    BY HasNothing DEF Lock, Map, Keeper
<1>3. g \in Holding /\ Has(g, "peers")
    BY <1>2, TakenIsHolding, HasMore
<1>4. Read("Peers") \in Seq(Steps) /\ Runs(Read("Peers"), g, g)
    BY <1>2, <1>3, ReadRuns
<1>5. LookupPeer \in Seq(Steps) /\ Runs(LookupPeer, g, g)
    BY <1>1, <1>3, LookupPeerRuns
<1>6. GetChannel \in Seq(Steps) /\ Runs(GetChannel, g, g)
    BY <1>1, <1>3, GetChannelRuns
<1>. HIDE DEF g
<1>7. GetChannelFromScid \in Seq(Steps) /\ Runs(GetChannelFromScid, g, g)
    BY <1>5, <1>6, RunsBoth DEF GetChannelFromScid
<1>. DEFINE known == Read("Peers") \o GetChannelFromScid
<1>8. known \in Seq(Steps) /\ Runs(known, g, g)
    BY <1>4, <1>7, RunsBoth
<1>. HIDE DEF known
<1>9. known \o GetChannel \in Seq(Steps) /\ Runs(known \o GetChannel, g, g)
    BY <1>6, <1>8, RunsBoth
<1>. QED
    BY <1>1, <1>2, <1>9, ReadingRuns DEF FindCandidates, known, g

LEMMA RefreshChannelsRuns ==
    RefreshChannels \in Seq(Steps) /\ Runs(RefreshChannels, Nothing, Nothing)
<1>. DEFINE g == AndWrite("channels", Nothing)
            f == AndWrite("adjacency", g)
            edit == Write("Channels") \o Write("Inbound")
<1>1. /\ {"channels", "adjacency"} \subseteq Lock /\ {"Channels", "Inbound"} \subseteq Map
      /\ Keeper("Channels") = "channels" /\ Keeper("Inbound") = "channels"
      /\ Before("adjacency") = {"peers", "channels"}
    BY DEF Lock, Map, Keeper, Before
<1>2. Nothing \in Holding /\ MayTake("channels", Nothing) /\ "channels" \notin Nothing.writes
    BY <1>1, HasNothing, MayTakeFirst
<1>3. g \in Holding /\ MayTake("adjacency", g) /\ "adjacency" \notin g.writes
    BY <1>1, <1>2, TakenIsHolding, HasMore, HasNothing DEF MayTake
<1>4. f \in Holding /\ "channels" \in f.writes
    BY <1>1, <1>2, <1>3, TakenIsHolding, HasMore
<1>5. Write("Channels") \in Seq(Steps) /\ Runs(Write("Channels"), f, f)
    BY <1>1, <1>4, WriteRuns
<1>6. Write("Inbound") \in Seq(Steps) /\ Runs(Write("Inbound"), f, f)
    BY <1>1, <1>4, WriteRuns
<1>. HIDE DEF f
<1>7. edit \in Seq(Steps) /\ Runs(edit, f, f)
    BY <1>5, <1>6, RunsBoth
<1>. HIDE DEF edit
<1>8. Writing("adjacency", edit) \in Seq(Steps) /\ Runs(Writing("adjacency", edit), g, g)
    BY <1>1, <1>3, <1>7, WritingRuns DEF f
<1>. HIDE DEF g
<1>. QED
    BY <1>1, <1>2, <1>8, WritingRuns DEF RefreshChannels, edit, g

LEMMA PruneChannelsRuns ==
    PruneChannels \in Seq(Steps) /\ Runs(PruneChannels, Nothing, Nothing)
<1>. DEFINE g == AndWrite("channels", Nothing)
            edit == Write("Channels") \o Write("Inbound")
<1>1. /\ "channels" \in Lock /\ {"Channels", "Inbound"} \subseteq Map
      /\ Keeper("Channels") = "channels" /\ Keeper("Inbound") = "channels"
    BY DEF Lock, Map, Keeper
<1>2. Nothing \in Holding /\ MayTake("channels", Nothing) /\ "channels" \notin Nothing.writes
    BY <1>1, HasNothing, MayTakeFirst
<1>3. g \in Holding /\ "channels" \in g.writes
    BY <1>1, <1>2, TakenIsHolding, HasMore
<1>4. Write("Channels") \in Seq(Steps) /\ Runs(Write("Channels"), g, g)
    BY <1>1, <1>3, WriteRuns
<1>5. Write("Inbound") \in Seq(Steps) /\ Runs(Write("Inbound"), g, g)
    BY <1>1, <1>3, WriteRuns
<1>. HIDE DEF g
<1>6. edit \in Seq(Steps) /\ Runs(edit, g, g)
    BY <1>4, <1>5, RunsBoth
<1>. HIDE DEF edit
<1>. QED
    BY <1>1, <1>2, <1>6, WritingRuns DEF PruneChannels, edit, g

\* The graph is written to its file under all the locks of the graph.
LEMMA SerializeToFileRuns ==
    SerializeToFile \in Seq(Steps) /\ Runs(SerializeToFile, Nothing, Nothing)
<1>. DEFINE g == AndWrite("channels", Nothing)
            f == AndWrite("adjacency", g)
            e == AndWrite("aliases", f)
            inner == Writing("aliases", Read("Channels"))
            middle == Writing("adjacency", inner)
<1>1. /\ {"channels", "adjacency", "aliases"} \subseteq Lock /\ "Channels" \in Map
      /\ Keeper("Channels") = "channels"
      /\ Before("adjacency") = {"peers", "channels"}
      /\ Before("aliases") = {"peers", "channels", "adjacency"}
    BY DEF Lock, Map, Keeper, Before
<1>2. Nothing \in Holding /\ MayTake("channels", Nothing) /\ "channels" \notin Nothing.writes
    BY <1>1, HasNothing, MayTakeFirst
<1>3. g \in Holding /\ MayTake("adjacency", g) /\ "adjacency" \notin g.writes
    BY <1>1, <1>2, TakenIsHolding, HasMore, HasNothing DEF MayTake
<1>4. f \in Holding /\ MayTake("aliases", f) /\ "aliases" \notin f.writes
    BY <1>1, <1>2, <1>3, TakenIsHolding, HasMore, HasNothing DEF MayTake
<1>5. e \in Holding /\ Has(e, "channels")
    BY <1>1, <1>2, <1>3, <1>4, TakenIsHolding, HasMore
<1>6. Read("Channels") \in Seq(Steps) /\ Runs(Read("Channels"), e, e)
    BY <1>1, <1>5, ReadRuns
<1>7. inner \in Seq(Steps) /\ Runs(inner, f, f)
    BY <1>1, <1>4, <1>6, WritingRuns
<1>. HIDE DEF e, f, inner
<1>8. middle \in Seq(Steps) /\ Runs(middle, g, g)
    BY <1>1, <1>3, <1>7, WritingRuns DEF f
<1>. HIDE DEF g, middle
<1>. QED
    BY <1>1, <1>2, <1>8, WritingRuns DEF SerializeToFile, middle, inner, g

LEMMA DijkstraRuns ==
    Dijkstra \in Seq(Steps) /\ Runs(Dijkstra, Nothing, Nothing)
<1>. DEFINE g == AndRead("channels", Nothing)
            f == AndRead("adjacency", g)
            visit == Read("Inbound") \o Read("Channels")
<1>1. /\ {"channels", "adjacency"} \subseteq Lock /\ {"Channels", "Inbound"} \subseteq Map
      /\ Keeper("Channels") = "channels" /\ Keeper("Inbound") = "channels"
      /\ Before("adjacency") = {"peers", "channels"}
    BY DEF Lock, Map, Keeper, Before
<1>2. Nothing \in Holding /\ MayTake("channels", Nothing)
    BY <1>1, HasNothing, MayTakeFirst
<1>3. g \in Holding /\ MayTake("adjacency", g)
    BY <1>1, <1>2, TakenIsHolding, HasMore, HasNothing DEF MayTake
<1>4. f \in Holding /\ Has(f, "channels")
    BY <1>1, <1>2, <1>3, TakenIsHolding, HasMore
<1>5. Read("Inbound") \in Seq(Steps) /\ Runs(Read("Inbound"), f, f)
    BY <1>1, <1>4, ReadRuns
<1>6. Read("Channels") \in Seq(Steps) /\ Runs(Read("Channels"), f, f)
    BY <1>1, <1>4, ReadRuns
<1>. HIDE DEF f
<1>7. visit \in Seq(Steps) /\ Runs(visit, f, f)
    BY <1>5, <1>6, RunsBoth
<1>. HIDE DEF visit
<1>8. Reading("adjacency", visit) \in Seq(Steps) /\ Runs(Reading("adjacency", visit), g, g)
    BY <1>1, <1>3, <1>7, ReadingRuns DEF f
<1>. HIDE DEF g
<1>. QED
    BY <1>1, <1>2, <1>8, ReadingRuns DEF Dijkstra, visit, g

\* GetStats holds PeersLock while it counts, and releases the locks of the graph
\* in the order it took them.
LEMMA GetStatsRuns ==
    GetStats \in Seq(Steps) /\ Runs(GetStats, Nothing, Nothing)
<1>. DEFINE g == AndRead("peers", Nothing)
            f == AndRead("channels", g)
            e == AndRead("adjacency", f)
            c == After(Step("RUnlock", "channels"), e)
            d == After(Step("RUnlock", "adjacency"), c)
            take1 == Step("RLock", "channels")
            take2 == Step("RLock", "adjacency")
            leave1 == Step("RUnlock", "channels")
            leave2 == Step("RUnlock", "adjacency")
<1>1. /\ {"peers", "channels", "adjacency"} \subseteq Lock
      /\ {"Channels", "Inbound"} \subseteq Map
      /\ Keeper("Channels") = "channels" /\ Keeper("Inbound") = "channels"
      /\ Before("channels") = {"peers"} /\ Before("adjacency") = {"peers", "channels"}
    BY DEF Lock, Map, Keeper, Before
<1>2. Nothing \in Holding /\ MayTake("peers", Nothing)
    BY <1>1, HasNothing, MayTakeFirst
<1>3. g \in Holding /\ MayTake("channels", g)
    BY <1>1, <1>2, TakenIsHolding, HasMore, HasNothing DEF MayTake
<1>4. f \in Holding /\ MayTake("adjacency", f)
    BY <1>1, <1>2, <1>3, TakenIsHolding, HasMore, HasNothing DEF MayTake
<1>5. e \in Holding /\ Has(e, "channels")
    BY <1>1, <1>2, <1>3, <1>4, TakenIsHolding, HasMore
<1>6. \A k \in Lock : g.reads[k] \in Nat /\ f.reads[k] \in Nat /\ e.reads[k] \in Nat
    BY <1>3, <1>4, <1>5 DEF Holding
<1>7. e.reads["channels"] > 0 /\ c \in Holding
    <2>1. f.reads["channels"] = g.reads["channels"] + 1
        BY <1>1, AfterIs DEF AndRead
    <2>2. e.reads["channels"] = f.reads["channels"]
        BY <1>1, AfterIs DEF AndRead
    <2>3. e.reads["channels"] > 0
        BY <1>1, <1>6, <2>1, <2>2
    <2>. HIDE DEF e
    <2>. QED
        BY <1>1, <1>5, <2>3, AfterIsHolding DEF Allowed
<1>8. c.reads["adjacency"] > 0 /\ d \in Holding
    <2>1. e.reads["adjacency"] = f.reads["adjacency"] + 1
        BY <1>1, AfterIs DEF AndRead
    <2>2. c.reads["adjacency"] = e.reads["adjacency"]
        BY <1>1, AfterIs
    <2>3. c.reads["adjacency"] > 0
        BY <1>1, <1>6, <2>1, <2>2
    <2>. HIDE DEF c
    <2>. QED
        BY <1>1, <1>7, <2>3, AfterIsHolding DEF Allowed
<1>9. d = g
    <2>1. ASSUME NEW k \in Lock
          PROVE  d.reads[k] = g.reads[k] /\ (k \in d.writes <=> k \in g.writes)
        <3>1. /\ f.reads[k] = IF k = "channels" THEN g.reads[k] + 1 ELSE g.reads[k]
              /\ k \in f.writes <=> k \in g.writes
            BY AfterIs DEF AndRead
        <3>2. /\ e.reads[k] = IF k = "adjacency" THEN f.reads[k] + 1 ELSE f.reads[k]
              /\ k \in e.writes <=> k \in f.writes
            BY AfterIs DEF AndRead
        <3>3. /\ c.reads[k] = IF k = "channels" THEN e.reads[k] - 1 ELSE e.reads[k]
              /\ k \in c.writes <=> k \in e.writes
            BY AfterIs
        <3>4. /\ d.reads[k] = IF k = "adjacency" THEN c.reads[k] - 1 ELSE c.reads[k]
              /\ k \in d.writes <=> k \in c.writes
            BY AfterIs
        <3>. HIDE DEF g, f, e, c, d
        <3>. QED
            BY <1>6, <3>1, <3>2, <3>3, <3>4
    <2>. HIDE DEF g, d
    <2>. QED
        BY <1>3, <1>8, <2>1, SameHolding
<1>10. Runs(<<take1>>, g, f) /\ Runs(<<take2>>, f, e)
    BY <1>1, <1>3, <1>4, RunsStep DEF Allowed, AndRead
<1>11. Runs(<<leave1>>, e, c) /\ Runs(<<leave2>>, c, d)
    BY <1>1, <1>5, <1>7, <1>8, RunsStep DEF Allowed
<1>12. Read("Channels") \in Seq(Steps) /\ Runs(Read("Channels"), e, e)
    BY <1>1, <1>5, ReadRuns
<1>13. Read("Inbound") \in Seq(Steps) /\ Runs(Read("Inbound"), e, e)
    BY <1>1, <1>5, ReadRuns
<1>14. {take1, take2, leave1, leave2} \subseteq Steps
    BY <1>1, StepIs
<1>. HIDE DEF g, f, e, c, d, take1, take2, leave1, leave2
<1>. DEFINE taken == <<take1, take2>>
            left == <<leave1, leave2>>
<1>15. taken \in Seq(Steps) /\ Runs(taken, g, e)
    BY <1>10, <1>14, RunsTwo
<1>16. left \in Seq(Steps) /\ Runs(left, e, g)
    BY <1>9, <1>11, <1>14, RunsTwo
<1>. HIDE DEF taken, left
<1>. DEFINE one == taken \o Read("Channels")
            two == one \o Read("Inbound")
            three == two \o left
<1>17. one \in Seq(Steps) /\ Runs(one, g, e)
    BY <1>12, <1>15, RunsBoth
<1>. HIDE DEF one
<1>18. two \in Seq(Steps) /\ Runs(two, g, e)
    BY <1>13, <1>17, RunsBoth
<1>. HIDE DEF two
<1>19. three \in Seq(Steps) /\ Runs(three, g, g)
    BY <1>16, <1>18, RunsBoth
<1>20. three = GraphStats
    BY DEF three, two, one, taken, left, GraphStats, take1, take2, leave1, leave2
<1>. HIDE DEF three
<1>. QED
    BY <1>1, <1>2, <1>19, <1>20, ReadingRuns DEF GetStats, g

\* Every section but validatePeers takes only locks that it may take, goes through
\* maps only under their locks, and leaves nothing locked.
LEMMA ScriptsRun ==
    ASSUME NEW name \in Sections, name # "ValidatePeers"
    PROVE  Script[name] \in Seq(Steps) /\ Runs(Script[name], Nothing, Nothing)
<1>1. name \in DOMAIN Script
    BY SectionsAssumption
<1>2. /\ {"peers", "channels", "aliases"} \subseteq Lock
      /\ {"Peers", "Channels", "Aliases"} \subseteq Map
      /\ Keeper("Peers") = "peers" /\ Keeper("Channels") = "channels"
      /\ Keeper("Aliases") = "aliases"
    BY DEF Lock, Map, Keeper
<1>. DEFINE Good(s) == s \in Seq(Steps) /\ Runs(s, Nothing, Nothing)
<1>3. Good(LookupPeer) /\ Good(GetChannel)
    BY <1>2, OneLockRuns DEF LookupPeer, GetChannel
<1>4. Good(ChangePeer) /\ Good(RefreshPeers)
    BY <1>2, OneLockRuns DEF ChangePeer, RefreshPeers
<1>5. Good(RefreshAliases) /\ Good(AddSuccess) /\ Good(GetAlias)
    BY <1>2, OneLockRuns DEF RefreshAliases, AddSuccess, GetAlias
<1>6. Good(RefreshLiquidity)
    BY <1>2, OneLockRuns DEF RefreshLiquidity
<1>7. Good(RefreshChannels) /\ Good(PruneChannels) /\ Good(SerializeToFile)
      /\ Good(Dijkstra) /\ Good(GetStats)
    BY RefreshChannelsRuns, PruneChannelsRuns, SerializeToFileRuns, DijkstraRuns, GetStatsRuns
<1>8. name = "FindCandidates" => Good(FindCandidates)
    BY FindCandidatesRuns DEF Ordered
<1>. HIDE DEF Good
<1>9. Good(Script[name])
    BY <1>1, <1>3, <1>4, <1>5, <1>6, <1>7, <1>8 DEF Script
<1>. QED
    BY <1>9 DEF Good

\* validatePeers reads the peers three times and does nothing else.
LEMMA ValidatePeersIs ==
    /\ Script["ValidatePeers"] = ValidatePeers
    /\ {ValidatePeers, Tail(ValidatePeers), Tail(Tail(ValidatePeers))} \subseteq Seq(Steps)
    /\ \A s \in {ValidatePeers, Tail(ValidatePeers), Tail(Tail(ValidatePeers))} :
           s # <<>> /\ Head(s) = Step("Read", "Peers")
    /\ Tail(Tail(Tail(ValidatePeers))) = <<>>
<1>. DEFINE a == Step("Read", "Peers")
<1>1. a \in Steps
    BY AccessIs DEF Map
<1>2. ValidatePeers = <<a, a, a>>
    <2>. HIDE DEF a
    <2>. DEFINE three == (<<a>> \o <<a>>) \o <<a>>
    <2>1. <<a>> \in Seq(Steps) /\ Len(<<a>>) = 1 /\ <<a>>[1] = a
        BY <1>1
    <2>2. three \in Seq(Steps) /\ Len(three) = 3
        BY <2>1
    <2>3. \A k \in 1..3 : three[k] = a
        BY <2>1
    <2>4. <<a, a, a>> \in Seq(Steps) /\ Len(<<a, a, a>>) = 3
          /\ \A k \in 1..3 : <<a, a, a>>[k] = a
        BY <1>1
    <2>5. ValidatePeers = three
        BY DEF ValidatePeers, Read, a
    <2>. HIDE DEF three
    <2>6. three = <<a, a, a>>
        BY <2>2, <2>3, <2>4, SeqEqual
    <2>. QED
        BY <2>5, <2>6
<1>3. Script["ValidatePeers"] = ValidatePeers
    BY DEF Script
<1>. HIDE DEF a
<1>4. Tail(<<a, a, a>>) = <<a, a>> /\ Tail(<<a, a>>) = <<a>> /\ Tail(<<a>>) = <<>>
    BY <1>1
<1>5. \A s \in {<<a, a, a>>, <<a, a>>, <<a>>} :
          s \in Seq(Steps) /\ s # <<>> /\ Head(s) = a
    <2>1. <<a, a, a>> \in Seq(Steps) /\ <<a, a, a>> # <<>> /\ Head(<<a, a, a>>) = a
        BY <1>1
    <2>2. <<a, a>> \in Seq(Steps) /\ <<a, a>> # <<>> /\ Head(<<a, a>>) = a
        BY <1>1
    <2>3. <<a>> \in Seq(Steps) /\ <<a>> # <<>> /\ Head(<<a>>) = a
        BY <1>1
    <2>. QED
        BY <2>1, <2>2, <2>3
<1>. QED
    BY <1>2, <1>3, <1>4, <1>5 DEF a

---------------------------------------------------------------------------
(* Each step keeps what is held in agreement with what is left to do *)

LEMMA HeldIsHolding ==
    ASSUME LocksType, NEW p \in Process
    PROVE  Held(p) \in Holding
BY DEF LocksType, Held, Holding

\* A goroutine is at one step.
LEMMA AtOne ==
    ASSUME NEW p, NEW d, NEW l, NEW e, NEW m, At(p, d, l), At(p, e, m)
    PROVE  d = e /\ l = m
BY StepsDiffer DEF At

\* What is left of validatePeers begins with a read and, done, is still of it or
\* nothing.
LEMMA ValidatesReads ==
    ASSUME NEW p, Validates(p)
    PROVE  /\ \A d, on : At(p, d, on) => d = "Read" /\ on = "Peers"
           /\ todo'[p] = Tail(todo[p]) => Validates(p)' \/ todo'[p] = <<>>
<1>1. Busy(p) /\ Head(todo[p]) = Step("Read", "Peers")
    BY ValidatePeersIs DEF Validates, Busy
<1>2. \A d, on : At(p, d, on) => d = "Read" /\ on = "Peers"
    BY <1>1, StepsDiffer DEF At
<1>3. todo'[p] = Tail(todo[p]) => Validates(p)' \/ todo'[p] = <<>>
    BY ValidatePeersIs DEF Validates
<1>. QED
    BY <1>2, <1>3

\* The step a goroutine is at is allowed, and the rest goes on from there.
LEMMA AtAllowed ==
    ASSUME LInv, NEW p \in Process, NEW d, NEW on, At(p, d, on),
           d # "Read" \/ ~Validates(p) \/ Runs(todo[p], Held(p), Nothing)
    PROVE  /\ Allowed(Step(d, on), Held(p))
           /\ After(Step(d, on), Held(p)) \in Holding
           /\ Runs(Tail(todo[p]), After(Step(d, on), Held(p)), Nothing)
<1>1. todo[p] \in Seq(Steps) /\ todo[p] # <<>> /\ Head(todo[p]) = Step(d, on)
    BY DEF LInv, LocksType, At, Busy
<1>2. Held(p) \in Holding
    BY HeldIsHolding DEF LInv
<1>3. Runs(todo[p], Held(p), Nothing)
    BY ValidatesReads DEF LInv, Scripted, Going
<1>. QED
    BY <1>1, <1>2, <1>3, RunsOn

\* Nobody asks again for a lock it holds for writing.
LEMMA NotAgain ==
    ASSUME NEW s \in Seq(Steps), s # <<>>, NEW h \in Holding, NEW g, Runs(s, h, g),
           NEW l \in Lock, l \in h.writes
    PROVE  Head(s) # Step("Lock", l)
<1>1. Allowed(Head(s), h)
    BY RunsOn
<1>. SUFFICES ASSUME Head(s) = Step("Lock", l) PROVE FALSE
    OBVIOUS
<1>. QED
    BY <1>1, StepsDiffer DEF Allowed

\* A goroutine that holds nothing else than it did and stays where it is.
LEMMA Untouched ==
    ASSUME LInv, NEW p \in Process, todo'[p] = todo[p],
           \A l \in Lock : readers'[l][p] = readers[l][p],
           \A l \in Lock : writer[l] # writer'[l] =>
                              writer[l] # p /\ (writer'[l] = p => At(p, "Lock", l))
    PROVE  Going(p)'
<1>1. \A l : At(p, "Lock", l)' <=> At(p, "Lock", l)
    BY DEF At, Busy
<1>2. Held(p)' = Held(p)
    <2>1. \A l \in Lock : writer'[l] = p /\ ~At(p, "Lock", l)'
                            <=> writer[l] = p /\ ~At(p, "Lock", l)
        BY <1>1
    <2>2. [l \in Lock |-> readers'[l][p]] = [l \in Lock |-> readers[l][p]]
        OBVIOUS
    <2>3. {l \in Lock : writer'[l] = p /\ ~At(p, "Lock", l)'}
            = {l \in Lock : writer[l] = p /\ ~At(p, "Lock", l)}
        BY <2>1
    <2>. QED
        BY <2>2, <2>3 DEF Held
<1>3. Validates(p)' <=> Validates(p)
    BY DEF Validates
<1>. QED
    BY <1>2, <1>3 DEF LInv, Scripted, Going

\* A goroutine that does the step it is at.
LEMMA Advanced ==
    ASSUME LInv, LocksType', NEW p \in Process, NEW d, NEW on, At(p, d, on),
           d # "Read" \/ ~Validates(p) \/ Runs(todo[p], Held(p), Nothing),
           todo'[p] = Tail(todo[p]),
           \A l \in Lock : readers'[l][p] = After(Step(d, on), Held(p)).reads[l],
           \A l \in Lock : writer'[l] = p <=> l \in After(Step(d, on), Held(p)).writes
    PROVE  Going(p)'
<1>. DEFINE g == After(Step(d, on), Held(p))
<1>1. g \in Holding /\ Runs(todo'[p], g, Nothing)
    BY AtAllowed
<1>2. todo'[p] \in Seq(Steps)
    BY DEF LocksType
<1>. HIDE DEF g
<1>3. ASSUME NEW l \in Lock, l \in g.writes PROVE ~At(p, "Lock", l)'
    <2>. SUFFICES ASSUME At(p, "Lock", l)' PROVE FALSE
        OBVIOUS
    <2>1. todo'[p] # <<>> /\ Head(todo'[p]) = Step("Lock", l)
        BY DEF At, Busy
    <2>. QED
        BY <1>1, <1>2, <1>3, <2>1, NotAgain
<1>4. \A l \in Lock : /\ Held(p)'.reads[l] = g.reads[l]
                      /\ (l \in Held(p)'.writes) <=> (l \in g.writes)
    BY <1>3 DEF Held, g
<1>5. Held(p)' \in Holding
    BY DEF LocksType, Held, Holding
<1>6. Held(p)' = g
    BY <1>1, <1>4, <1>5, SameHolding
<1>. QED
    BY <1>1, <1>6 DEF Going

\* What a goroutine that is not at a Lock holds for writing is what it took.
LEMMA WritesAre ==
    ASSUME LInv, NEW p \in Process, NEW d, NEW on, At(p, d, on), NEW l \in Lock,
           d # "Lock" \/ on # l
    PROVE  l \in Held(p).writes <=> writer[l] = p
BY AtOne DEF Held

LEMMA ReadsAre ==
    ASSUME NEW p, NEW l \in Lock
    PROVE  Held(p).reads[l] = readers[l][p]
BY DEF Held

LEMMA ReadsOwn ==
    ASSUME LInv, NEW p \in Process, NEW l \in Lock, At(p, "RUnlock", l)
    PROVE  readers[l][p] > 0
<1>1. Allowed(Step("RUnlock", l), Held(p))
    BY AtAllowed
<1>2. Held(p).reads[l] > 0
    BY <1>1, StepsDiffer DEF Allowed
<1>. QED
    BY <1>2, ReadsAre

LEMMA AdvanceType ==
    ASSUME LInv, NEW P \in SUBSET Process, \A p \in P : Busy(p), Advance(P)
    PROVE  /\ todo' \in [Process -> Seq(Steps)]
           /\ \A p \in Process : todo'[p] = IF p \in P THEN Tail(todo[p]) ELSE todo[p]
<1>1. \A p \in Process : todo[p] \in Seq(Steps)
    BY DEF LInv, LocksType
<1>2. \A p \in P : Tail(todo[p]) \in Seq(Steps)
    BY <1>1 DEF Busy
<1>. QED
    BY <1>1, <1>2 DEF Advance

\* Those who stay where they are stay at the step they were at.
LEMMA AtStays ==
    ASSUME NEW p, todo'[p] = todo[p], NEW d, NEW on
    PROVE  At(p, d, on)' <=> At(p, d, on)
BY DEF At, Busy

LEMMA StartKeeps ==
    ASSUME LInv, NEW p \in Process, Start(p)
    PROVE  LInv'
<1>1. PICK name \in Sections : todo' = [todo EXCEPT ![p] = Script[name]]
    BY DEF Start
<1>2. todo[p] = <<>> /\ UNCHANGED <<readers, writer, waiting>>
    BY DEF Start, Busy
<1>3. todo' \in [Process -> Seq(Steps)] /\ todo'[p] = Script[name]
      /\ \A q \in Process \ {p} : todo'[q] = todo[q]
    BY <1>1, ScriptsRun, ValidatePeersIs DEF LInv, LocksType
<1>4. LocksType'
    BY <1>2, <1>3 DEF LInv, LocksType
<1>5. Held(p) = Nothing
    BY <1>2, RunsEmpty, HeldIsHolding DEF LInv, Scripted, Going
<1>6. \A d, on : ~At(p, d, on)
    BY <1>2 DEF At, Busy
<1>7. \A l \in Lock : writer[l] # p /\ readers[l][p] = 0
    <2>1. TAKE l \in Lock
    <2>2. Held(p).reads[l] = 0 /\ l \notin Held(p).writes
        BY <1>5 DEF Nothing
    <2>. QED
        BY <1>6, <2>2 DEF Held
<1>8. Scripted'
    <2>. SUFFICES ASSUME NEW q \in Process PROVE Going(q)'
        BY DEF Scripted
    <2>1. CASE q = p
        <3>1. Held(p)' \in Holding
            BY <1>4 DEF LocksType, Held, Holding
        <3>2. \A l \in Lock : Held(p)'.reads[l] = 0 /\ l \notin Held(p)'.writes
            BY <1>2, <1>7 DEF Held
        <3>3. Held(p)' = Nothing
            BY <3>1, <3>2, HasNothing, SameHolding DEF Nothing
        <3>. QED
            BY <1>3, <2>1, <3>3, ScriptsRun, ValidatePeersIs DEF Going, Validates
    <2>2. CASE q # p
        BY <1>2, <1>3, <2>2, Untouched
    <2>. QED
        BY <2>1, <2>2
<1>9. WriterAlone'
    <2>. SUFFICES ASSUME NEW l \in Lock, NEW q \in Process, writer'[l] = q,
                         ~At(q, "Lock", l)'
                  PROVE  \A r \in Process : readers'[l][r] = 0
        BY DEF WriterAlone
    <2>1. q # p
        BY <1>2, <1>7
    <2>2. ~At(q, "Lock", l)
        BY <1>3, <2>1, AtStays
    <2>. QED
        BY <1>2, <2>2 DEF LInv, WriterAlone
<1>10. WaitForWriter'
    <2>. SUFFICES ASSUME NEW l \in Lock, NEW q \in waiting[l]
                  PROVE  At(q, "RLock", l)' /\ writer[l] # NoProcess
        BY <1>2 DEF WaitForWriter
    <2>1. q \in Process /\ At(q, "RLock", l) /\ writer[l] # NoProcess
        BY DEF LInv, LocksType, WaitForWriter
    <2>2. q # p
        BY <1>6, <2>1
    <2>. QED
        BY <1>3, <2>1, <2>2, AtStays
<1>. QED
    BY <1>4, <1>8, <1>9, <1>10 DEF LInv

LEMMA RLockKeeps ==
    ASSUME LInv, NEW p \in Process, NEW l \in Lock, RLock(p, l)
    PROVE  LInv'
<1>1. /\ At(p, "RLock", l) /\ writer[l] = NoProcess /\ Advance({p})
      /\ readers' = [readers EXCEPT ![l][p] = @ + 1]
      /\ UNCHANGED <<writer, waiting>>
    BY DEF RLock
<1>2. /\ todo' \in [Process -> Seq(Steps)] /\ todo'[p] = Tail(todo[p])
      /\ \A q \in Process \ {p} : todo'[q] = todo[q]
    BY <1>1, AdvanceType DEF At
<1>3. \A k \in Lock, q \in Process :
          readers'[k][q] = IF k = l /\ q = p THEN readers[k][q] + 1 ELSE readers[k][q]
    BY <1>1 DEF LInv, LocksType
<1>4. LocksType'
    BY <1>1, <1>2 DEF LInv, LocksType
<1>5. Scripted'
    <2>. SUFFICES ASSUME NEW q \in Process PROVE Going(q)'
        BY DEF Scripted
    <2>1. CASE q = p
        <3>. DEFINE g == After(Step("RLock", l), Held(p))
        <3>1. \A k \in Lock : g.reads[k] = readers'[k][p]
            BY <1>3, AfterIs, ReadsAre
        <3>2. \A k \in Lock : k \in g.writes <=> writer'[k] = p
            BY <1>1, AfterIs, WritesAre
        <3>. QED
            BY <1>1, <1>2, <1>4, <2>1, <3>1, <3>2, Advanced
    <2>2. CASE q # p
        BY <1>1, <1>2, <1>3, <2>2, Untouched
    <2>. QED
        BY <2>1, <2>2
<1>6. WriterAlone'
    <2>. SUFFICES ASSUME NEW k \in Lock, NEW q \in Process, writer'[k] = q,
                         ~At(q, "Lock", k)'
                  PROVE  \A r \in Process : readers'[k][r] = 0
        BY DEF WriterAlone
    <2>1. ~At(q, "Lock", k)
        BY <1>1, <1>2, AtStays, AtOne
    <2>2. k # l
        BY <1>1, ProcessAssumption
    <2>. QED
        BY <1>1, <1>3, <2>1, <2>2 DEF LInv, WriterAlone
<1>7. WaitForWriter'
    <2>. SUFFICES ASSUME NEW k \in Lock, NEW q \in waiting[k]
                  PROVE  At(q, "RLock", k)' /\ writer[k] # NoProcess
        BY <1>1 DEF WaitForWriter
    <2>1. q \in Process /\ At(q, "RLock", k) /\ writer[k] # NoProcess
        BY DEF LInv, LocksType, WaitForWriter
    <2>2. q # p
        BY <1>1, <2>1, AtOne
    <2>. QED
        BY <1>2, <2>1, <2>2, AtStays
<1>. QED
    BY <1>4, <1>5, <1>6, <1>7 DEF LInv

LEMMA RLockBlocksKeeps ==
    ASSUME LInv, NEW p \in Process, NEW l \in Lock, RLockBlocks(p, l)
    PROVE  LInv'
<1>1. /\ At(p, "RLock", l) /\ writer[l] # NoProcess
      /\ waiting' = [waiting EXCEPT ![l] = @ \cup {p}]
      /\ UNCHANGED <<todo, readers, writer>>
    BY DEF RLockBlocks
<1>2. \A q, d, on : At(q, d, on)' <=> At(q, d, on)
    BY <1>1 DEF At, Busy
<1>3. LocksType'
    BY <1>1 DEF LInv, LocksType
<1>4. Scripted'
    <2>. SUFFICES ASSUME NEW q \in Process PROVE Going(q)'
        BY DEF Scripted
    <2>. QED
        BY <1>1, Untouched
<1>5. WriterAlone'
    BY <1>1, <1>2 DEF LInv, WriterAlone
<1>6. WaitForWriter'
    <2>1. \A k \in Lock : waiting'[k] = IF k = l THEN waiting[k] \cup {p} ELSE waiting[k]
        BY <1>1 DEF LInv, LocksType
    <2>. QED
        BY <1>1, <1>2, <2>1 DEF LInv, WaitForWriter
<1>. QED
    BY <1>3, <1>4, <1>5, <1>6 DEF LInv

LEMMA RUnlockKeeps ==
    ASSUME LInv, NEW p \in Process, NEW l \in Lock, RUnlock(p, l)
    PROVE  LInv'
<1>1. /\ At(p, "RUnlock", l) /\ Advance({p})
      /\ readers' = [readers EXCEPT ![l][p] = @ - 1]
      /\ UNCHANGED <<writer, waiting>>
    BY DEF RUnlock
<1>2. /\ todo' \in [Process -> Seq(Steps)] /\ todo'[p] = Tail(todo[p])
      /\ \A q \in Process \ {p} : todo'[q] = todo[q]
    BY <1>1, AdvanceType DEF At
<1>3. \A k \in Lock, q \in Process :
          readers'[k][q] = IF k = l /\ q = p THEN readers[k][q] - 1 ELSE readers[k][q]
    BY <1>1 DEF LInv, LocksType
<1>4. readers[l][p] > 0
    BY <1>1, ReadsOwn
<1>5. LocksType'
    <2>1. readers[l][p] - 1 \in Nat
        BY <1>4 DEF LInv, LocksType
    <2>. QED
        BY <1>1, <1>2, <2>1 DEF LInv, LocksType
<1>6. Scripted'
    <2>. SUFFICES ASSUME NEW q \in Process PROVE Going(q)'
        BY DEF Scripted
    <2>1. CASE q = p
        <3>. DEFINE g == After(Step("RUnlock", l), Held(p))
        <3>1. \A k \in Lock : g.reads[k] = readers'[k][p]
            BY <1>3, AfterIs, ReadsAre
        <3>2. \A k \in Lock : k \in g.writes <=> writer'[k] = p
            BY <1>1, AfterIs, WritesAre
        <3>. QED
            BY <1>1, <1>2, <1>5, <2>1, <3>1, <3>2, Advanced
    <2>2. CASE q # p
        BY <1>1, <1>2, <1>3, <2>2, Untouched
    <2>. QED
        BY <2>1, <2>2
<1>7. WriterAlone'
    <2>. SUFFICES ASSUME NEW k \in Lock, NEW q \in Process, writer'[k] = q,
                         ~At(q, "Lock", k)'
                  PROVE  \A r \in Process : readers'[k][r] = 0
        BY DEF WriterAlone
    <2>1. ~At(q, "Lock", k)
        BY <1>1, <1>2, AtStays, AtOne
    <2>2. \A r \in Process : readers[k][r] = 0
        BY <1>1, <2>1 DEF LInv, WriterAlone
    <2>3. k # l
        BY <1>4, <2>2
    <2>. QED
        BY <1>3, <2>2, <2>3
<1>8. WaitForWriter'
    <2>. SUFFICES ASSUME NEW k \in Lock, NEW q \in waiting[k]
                  PROVE  At(q, "RLock", k)' /\ writer[k] # NoProcess
        BY <1>1 DEF WaitForWriter
    <2>1. q \in Process /\ At(q, "RLock", k) /\ writer[k] # NoProcess
        BY DEF LInv, LocksType, WaitForWriter
    <2>2. q # p
        BY <1>1, <2>1, AtOne
    <2>. QED
        BY <1>2, <2>1, <2>2, AtStays
<1>. QED
    BY <1>5, <1>6, <1>7, <1>8 DEF LInv

LEMMA LockAsksKeeps ==
    ASSUME LInv, NEW p \in Process, NEW l \in Lock, LockAsks(p, l)
    PROVE  LInv'
<1>1. /\ At(p, "Lock", l) /\ writer[l] = NoProcess
      /\ writer' = [writer EXCEPT ![l] = p]
      /\ UNCHANGED <<todo, readers, waiting>>
    BY DEF LockAsks
<1>2. \A q, d, on : At(q, d, on)' <=> At(q, d, on)
    BY <1>1 DEF At, Busy
<1>3. \A k \in Lock : writer'[k] = IF k = l THEN p ELSE writer[k]
    BY <1>1 DEF LInv, LocksType
<1>4. LocksType'
    BY <1>1 DEF LInv, LocksType
<1>5. Scripted'
    <2>. SUFFICES ASSUME NEW q \in Process PROVE Going(q)'
        BY DEF Scripted
    <2>. QED
        BY <1>1, <1>3, ProcessAssumption, Untouched
<1>6. WriterAlone'
    BY <1>1, <1>2, <1>3 DEF LInv, WriterAlone
<1>7. WaitForWriter'
    BY <1>1, <1>2, <1>3, ProcessAssumption DEF LInv, WaitForWriter
<1>. QED
    BY <1>4, <1>5, <1>6, <1>7 DEF LInv

LEMMA LockReturnsKeeps ==
    ASSUME LInv, NEW p \in Process, NEW l \in Lock, LockReturns(p, l)
    PROVE  LInv'
<1>1. /\ At(p, "Lock", l) /\ writer[l] = p /\ Advance({p})
      /\ \A q \in Process : readers[l][q] = 0
      /\ UNCHANGED <<readers, writer, waiting>>
    BY DEF LockReturns
<1>2. /\ todo' \in [Process -> Seq(Steps)] /\ todo'[p] = Tail(todo[p])
      /\ \A q \in Process \ {p} : todo'[q] = todo[q]
    BY <1>1, AdvanceType DEF At
<1>3. LocksType'
    BY <1>1, <1>2 DEF LInv, LocksType
<1>4. Scripted'
    <2>. SUFFICES ASSUME NEW q \in Process PROVE Going(q)'
        BY DEF Scripted
    <2>1. CASE q = p
        <3>. DEFINE g == After(Step("Lock", l), Held(p))
        <3>1. \A k \in Lock : g.reads[k] = readers'[k][p]
            BY <1>1, AfterIs, ReadsAre
        <3>2. \A k \in Lock : k \in g.writes <=> writer'[k] = p
            <4>1. \A k \in Lock : k \in g.writes <=> k = l \/ k \in Held(p).writes
                BY AfterIs
            <4>2. \A k \in Lock \ {l} : k \in Held(p).writes <=> writer[k] = p
                BY <1>1, WritesAre
            <4>. QED
                BY <1>1, <4>1, <4>2
        <3>. QED
            BY <1>1, <1>2, <1>3, <2>1, <3>1, <3>2, Advanced
    <2>2. CASE q # p
        BY <1>1, <1>2, <2>2, Untouched
    <2>. QED
        BY <2>1, <2>2
<1>5. WriterAlone'
    <2>. SUFFICES ASSUME NEW k \in Lock, NEW q \in Process, writer'[k] = q,
                         ~At(q, "Lock", k)'
                  PROVE  \A r \in Process : readers'[k][r] = 0
        BY DEF WriterAlone
    <2>1. CASE k = l
        BY <1>1, <2>1
    <2>2. CASE k # l
        <3>1. ~At(q, "Lock", k)
            BY <1>1, <1>2, <2>2, AtStays, AtOne
        <3>. QED
            BY <1>1, <3>1 DEF LInv, WriterAlone
    <2>. QED
        BY <2>1, <2>2
<1>6. WaitForWriter'
    <2>. SUFFICES ASSUME NEW k \in Lock, NEW q \in waiting[k]
                  PROVE  At(q, "RLock", k)' /\ writer[k] # NoProcess
        BY <1>1 DEF WaitForWriter
    <2>1. q \in Process /\ At(q, "RLock", k) /\ writer[k] # NoProcess
        BY DEF LInv, LocksType, WaitForWriter
    <2>2. q # p
        BY <1>1, <2>1, AtOne
    <2>. QED
        BY <1>2, <2>1, <2>2, AtStays
<1>. QED
    BY <1>3, <1>4, <1>5, <1>6 DEF LInv

\* Unlock moves the readers that wait on, with the lock in their hands.
LEMMA UnlockKeeps ==
    ASSUME LInv, NEW p \in Process, NEW l \in Lock, Unlock(p, l)
    PROVE  LInv'
<1>1. /\ At(p, "Unlock", l) /\ Advance({p} \cup waiting[l])
      /\ writer' = [writer EXCEPT ![l] = NoProcess]
      /\ waiting' = [waiting EXCEPT ![l] = {}]
    BY DEF Unlock
<1>2. \A q \in waiting[l] : q \in Process /\ At(q, "RLock", l) /\ q # p
    <2>1. \A q \in waiting[l] : q \in Process /\ At(q, "RLock", l)
        BY DEF LInv, LocksType, WaitForWriter
    <2>. QED
        BY <1>1, <2>1, AtOne
<1>3. /\ todo' \in [Process -> Seq(Steps)]
      /\ \A q \in Process : todo'[q] = IF q = p \/ q \in waiting[l]
                                       THEN Tail(todo[q]) ELSE todo[q]
    <2>1. {p} \cup waiting[l] \in SUBSET Process
        BY <1>2
    <2>2. \A q \in {p} \cup waiting[l] : Busy(q)
        BY <1>1, <1>2 DEF At
    <2>. QED
        BY <1>1, <2>1, <2>2, AdvanceType
<1>4. \A k \in Lock, q \in Process :
          readers'[k][q] = IF k = l /\ q \in waiting[l] THEN readers[k][q] + 1
                           ELSE readers[k][q]
    BY DEF Unlock, LInv, LocksType
<1>5. \A k \in Lock : /\ writer'[k] = IF k = l THEN NoProcess ELSE writer[k]
                      /\ waiting'[k] = IF k = l THEN {} ELSE waiting[k]
    BY <1>1 DEF LInv, LocksType
<1>6. LocksType'
    BY <1>1, <1>3 DEF LInv, LocksType, Unlock
<1>7. writer[l] = p
    <2>1. Allowed(Step("Unlock", l), Held(p))
        BY <1>1, AtAllowed
    <2>2. l \in Held(p).writes
        BY <2>1, StepsDiffer DEF Allowed
    <2>. QED
        BY <2>2 DEF Held
<1>8. Scripted'
    <2>. SUFFICES ASSUME NEW q \in Process PROVE Going(q)'
        BY DEF Scripted
    <2>1. CASE q = p
        <3>. DEFINE g == After(Step("Unlock", l), Held(p))
        <3>1. \A k \in Lock : g.reads[k] = readers'[k][p]
            BY <1>2, <1>4, AfterIs, ReadsAre
        <3>2. \A k \in Lock : k \in g.writes <=> writer'[k] = p
            BY <1>1, <1>5, AfterIs, WritesAre, ProcessAssumption
        <3>. QED
            BY <1>1, <1>3, <1>6, <2>1, <3>1, <3>2, Advanced
    <2>2. CASE q \in waiting[l]
        <3>. DEFINE g == After(Step("RLock", l), Held(q))
        <3>1. \A k \in Lock : g.reads[k] = readers'[k][q]
            BY <1>4, <2>2, AfterIs, ReadsAre
        <3>2. \A k \in Lock : k \in g.writes <=> writer'[k] = q
            BY <1>2, <1>5, <1>7, <2>2, AfterIs, WritesAre, ProcessAssumption
        <3>. QED
            BY <1>2, <1>3, <1>6, <2>2, <3>1, <3>2, Advanced
    <2>3. CASE q # p /\ q \notin waiting[l]
        BY <1>3, <1>4, <1>5, <1>7, <2>3, Untouched, ProcessAssumption
    <2>. QED
        BY <2>1, <2>2, <2>3
<1>9. WriterAlone'
    <2>. SUFFICES ASSUME NEW k \in Lock, NEW q \in Process, writer'[k] = q,
                         ~At(q, "Lock", k)'
                  PROVE  \A r \in Process : readers'[k][r] = 0
        BY DEF WriterAlone
    <2>1. k # l /\ writer[k] = q
        BY <1>5, ProcessAssumption
    <2>2. ~At(q, "Lock", k)
        <3>1. CASE q = p \/ q \in waiting[l]
            BY <1>1, <1>2, <3>1, AtOne
        <3>2. CASE q # p /\ q \notin waiting[l]
            BY <1>3, <3>2, AtStays
        <3>. QED
            BY <3>1, <3>2
    <2>. QED
        BY <1>4, <2>1, <2>2 DEF LInv, WriterAlone
<1>10. WaitForWriter'
    <2>. SUFFICES ASSUME NEW k \in Lock, NEW q \in waiting'[k]
                  PROVE  At(q, "RLock", k)' /\ writer'[k] # NoProcess
        BY DEF WaitForWriter
    <2>1. k # l /\ q \in waiting[k]
        BY <1>5
    <2>2. q \in Process /\ At(q, "RLock", k) /\ writer[k] # NoProcess
        BY <2>1 DEF LInv, LocksType, WaitForWriter
    <2>3. q # p /\ q \notin waiting[l]
        BY <1>1, <1>2, <2>1, <2>2, AtOne
    <2>. QED
        BY <1>3, <1>5, <2>1, <2>2, <2>3, AtStays
<1>. QED
    BY <1>6, <1>8, <1>9, <1>10 DEF LInv

LEMMA AccessKeepsAll ==
    ASSUME LInv, NEW p \in Process, NEW m \in Map, Access(p, m)
    PROVE  LInv'
<1>1. PICK d \in {"Read", "Write"} : At(p, d, m)
    BY DEF Access
<1>2. Advance({p}) /\ UNCHANGED <<readers, writer, waiting>>
    BY DEF Access
<1>3. /\ todo' \in [Process -> Seq(Steps)] /\ todo'[p] = Tail(todo[p])
      /\ \A q \in Process \ {p} : todo'[q] = todo[q]
    BY <1>1, <1>2, AdvanceType DEF At
<1>4. LocksType'
    BY <1>2, <1>3 DEF LInv, LocksType
<1>5. Scripted'
    <2>. SUFFICES ASSUME NEW q \in Process PROVE Going(q)'
        BY DEF Scripted
    <2>1. CASE q = p
        <3>1. After(Step(d, m), Held(p)) = Held(p)
            BY HeldIsHolding, AccessKeeps DEF LInv
        <3>2. \A k \in Lock : Held(p).reads[k] = readers'[k][p]
            BY <1>2, ReadsAre
        <3>3. \A k \in Lock : k \in Held(p).writes <=> writer'[k] = p
            BY <1>1, <1>2, WritesAre
        <3>4. CASE Runs(todo[p], Held(p), Nothing)
            BY <1>1, <1>3, <1>4, <2>1, <3>1, <3>2, <3>3, <3>4, Advanced
        <3>5. CASE ~Runs(todo[p], Held(p), Nothing)
            <4>1. "ValidatePeers" \in Sections /\ Validates(p) /\ Held(p) = Nothing
                BY <3>5 DEF LInv, Scripted, Going
            <4>2. Validates(p)' \/ todo'[p] = <<>>
                BY <1>3, <4>1, ValidatesReads
            <4>3. \A l \in Lock : readers'[l][p] = 0 /\ writer'[l] # p
                BY <3>2, <3>3, <4>1 DEF Nothing
            <4>4. Held(p)' \in Holding
                BY <1>4 DEF LocksType, Held, Holding
            <4>5. \A l \in Lock : Held(p)'.reads[l] = 0 /\ l \notin Held(p)'.writes
                BY <4>3 DEF Held
            <4>6. Held(p)' = Nothing
                BY <4>4, <4>5, HasNothing, SameHolding DEF Nothing
            <4>. QED
                BY <2>1, <4>1, <4>2, <4>6, HasNothing, RunsEmpty DEF Going
        <3>. QED
            BY <3>4, <3>5
    <2>2. CASE q # p
        BY <1>2, <1>3, <2>2, Untouched
    <2>. QED
        BY <2>1, <2>2
<1>6. WriterAlone'
    <2>. SUFFICES ASSUME NEW k \in Lock, NEW q \in Process, writer'[k] = q,
                         ~At(q, "Lock", k)'
                  PROVE  \A r \in Process : readers'[k][r] = 0
        BY DEF WriterAlone
    <2>1. ~At(q, "Lock", k)
        BY <1>1, <1>3, AtStays, AtOne
    <2>. QED
        BY <1>2, <2>1 DEF LInv, WriterAlone
<1>7. WaitForWriter'
    <2>. SUFFICES ASSUME NEW k \in Lock, NEW q \in waiting[k]
                  PROVE  At(q, "RLock", k)' /\ writer[k] # NoProcess
        BY <1>2 DEF WaitForWriter
    <2>1. q \in Process /\ At(q, "RLock", k) /\ writer[k] # NoProcess
        BY DEF LInv, LocksType, WaitForWriter
    <2>2. q # p
        BY <1>1, <2>1, AtOne
    <2>. QED
        BY <1>3, <2>1, <2>2, AtStays
<1>. QED
    BY <1>4, <1>5, <1>6, <1>7 DEF LInv

---------------------------------------------------------------------------
(* Theorems *)

LEMMA InitLocks == Init => LInv
<1>. SUFFICES ASSUME Init PROVE LInv
    OBVIOUS
<1>1. \A p, d, on : p \in Process => ~At(p, d, on)
    BY DEF Init, At, Busy
<1>2. LocksType
    BY DEF Init, LocksType
<1>3. Scripted
    <2>. SUFFICES ASSUME NEW p \in Process PROVE Going(p)
        BY DEF Scripted
    <2>1. \A l \in Lock : Held(p).reads[l] = 0 /\ l \notin Held(p).writes
        BY ProcessAssumption DEF Init, Held
    <2>2. Held(p) = Nothing
        BY <1>2, <2>1, HeldIsHolding, HasNothing, SameHolding DEF Nothing
    <2>. QED
        BY <2>2, HasNothing, RunsEmpty DEF Init, Going
<1>4. WriterAlone /\ WaitForWriter
    BY ProcessAssumption DEF Init, WriterAlone, WaitForWriter
<1>. QED
    BY <1>2, <1>3, <1>4 DEF LInv

LEMMA NextLocks == LInv /\ [Next]_vars => LInv'
<1>. SUFFICES ASSUME LInv, [Next]_vars PROVE LInv'
    OBVIOUS
<1>1. ASSUME NEW p \in Process, Start(p) PROVE LInv'
    BY <1>1, StartKeeps
<1>2. ASSUME NEW p \in Process, Proceed(p) PROVE LInv'
    BY <1>2, RLockKeeps, RLockBlocksKeeps, RUnlockKeeps, LockReturnsKeeps, UnlockKeeps,
       AccessKeepsAll DEF Proceed
<1>3. ASSUME NEW p \in Process, Asks(p) PROVE LInv'
    BY <1>3, LockAsksKeeps DEF Asks
<1>4. CASE UNCHANGED vars
    <2>1. UNCHANGED <<todo, readers, writer, waiting>>
        BY <1>4 DEF vars
    <2>2. Scripted'
        <3>. SUFFICES ASSUME NEW p \in Process PROVE Going(p)'
            BY DEF Scripted
        <3>. QED
            BY <2>1, Untouched
    <2>3. LocksType' /\ WriterAlone' /\ WaitForWriter'
        BY <2>1 DEF LInv, LocksType, WriterAlone, WaitForWriter, At, Busy
    <2>. QED
        BY <2>2, <2>3 DEF LInv
<1>. QED
    BY <1>1, <1>2, <1>3, <1>4 DEF Next

\* What a goroutine holds is at all times what the rest of its section takes for
\* granted, and who holds a lock for writing holds it alone, for any number of
\* goroutines and whatever sections run.
THEOREM LocksInvariance == Spec => []LInv
<1>. QED
    BY InitLocks, NextLocks, PTL DEF Spec

\* A map is accessed only under its lock, or by validatePeers.
LEMMA KeeperIsHeld ==
    ASSUME LInv, NEW p \in Process, NEW m \in Map
    PROVE  /\ At(p, "Read", m) => \/ readers[Keeper(m)][p] > 0 \/ writer[Keeper(m)] = p
                                  \/ /\ "ValidatePeers" \in Sections /\ Validates(p)
                                     /\ m = "Peers"
           /\ At(p, "Write", m) => writer[Keeper(m)] = p
<1>1. Keeper(m) \in Lock
    BY DEF Keeper, Map, Lock
<1>2. ASSUME At(p, "Read", m), Runs(todo[p], Held(p), Nothing)
      PROVE  Has(Held(p), Keeper(m))
    <2>1. Allowed(Step("Read", m), Held(p))
        BY <1>2, AtAllowed
    <2>. QED
        BY <2>1, StepsDiffer DEF Allowed
<1>3. ASSUME At(p, "Write", m) PROVE Keeper(m) \in Held(p).writes
    <2>1. Allowed(Step("Write", m), Held(p))
        BY <1>3, AtAllowed
    <2>. QED
        BY <2>1, StepsDiffer DEF Allowed
<1>4. ASSUME At(p, "Read", m), ~Runs(todo[p], Held(p), Nothing)
      PROVE  "ValidatePeers" \in Sections /\ Validates(p) /\ m = "Peers"
    <2>1. "ValidatePeers" \in Sections /\ Validates(p)
        BY <1>4 DEF LInv, Scripted, Going
    <2>. QED
        BY <1>4, <2>1, ValidatesReads
<1>. QED
    BY <1>1, <1>2, <1>3, <1>4 DEF Has, Held

\* A map is not accessed while another goroutine writes it, but by validatePeers.
LEMMA MapsKept ==
    ASSUME LInv, NEW m \in Map, NEW p \in Process, NEW q \in Process, p # q,
           At(p, "Write", m)
    PROVE  /\ ~At(q, "Write", m)
           /\ At(q, "Read", m) => /\ "ValidatePeers" \in Sections /\ Validates(q)
                                  /\ m = "Peers"
<1>1. Keeper(m) \in Lock
    BY DEF Keeper, Map, Lock
<1>2. writer[Keeper(m)] = p
    BY KeeperIsHeld
<1>3. readers[Keeper(m)][q] = 0
    BY <1>1, <1>2, AtOne DEF LInv, WriterAlone
<1>. QED
    BY <1>2, <1>3, KeeperIsHeld

\* Only validatePeers ever accesses a map, that of the peers, while another goroutine
\* writes it, with any number of handlers, cron jobs and notifications at once.
THEOREM OneSectionRaces == Spec => []OnlyValidatePeersRaces
<1>1. LInv => OnlyValidatePeersRaces
    <2>. SUFFICES ASSUME LInv, NEW m \in Map, NEW p \in Process, NEW q \in Process, p # q,
                         At(p, "Write", m)
                  PROVE  /\ ~At(q, "Write", m)
                         /\ At(q, "Read", m) => m = "Peers" /\ Validates(q)
        BY DEF OnlyValidatePeersRaces
    <2>. QED
        BY MapsKept
<1>. QED
    BY <1>1, LocksInvariance, PTL

\* Where no rebalance by node begins no map is raced at all: Go never ends the plugin
\* for that.
THEOREM NoMapRaced ==
    ASSUME "ValidatePeers" \notin Sections
    PROVE  Spec => [](\A m \in Map, p, q \in Process :
               p # q /\ At(p, "Write", m) => ~At(q, "Write", m) /\ ~At(q, "Read", m))
<1>. DEFINE Unraced == \A m \in Map, p, q \in Process :
               p # q /\ At(p, "Write", m) => ~At(q, "Write", m) /\ ~At(q, "Read", m)
<1>1. LInv => Unraced
    <2>. SUFFICES ASSUME LInv, NEW m \in Map, NEW p \in Process, NEW q \in Process, p # q,
                         At(p, "Write", m)
                  PROVE  ~At(q, "Write", m) /\ ~At(q, "Read", m)
        OBVIOUS
    <2>. QED
        BY MapsKept
<1>. QED
    BY <1>1, LocksInvariance, PTL

\* Without FindCandidates every goroutine takes the locks in one order and never
\* one it has: peers, channels, adjacency list, aliases.  So no circle of waiting
\* goroutines can form.
THEOREM LocksTakenInOrder ==
    ASSUME "FindCandidates" \notin Sections
    PROVE  Spec => []LocksInOrder
<1>1. LInv => LocksInOrder
    <2>. SUFFICES ASSUME LInv, NEW p \in Process, NEW l \in Lock,
                         At(p, "RLock", l) \/ At(p, "Lock", l),
                         NEW held \in Lock, Holds(p, held)
                  PROVE  held \in Before(l)
        BY DEF LocksInOrder
    <2>1. PICK d \in {"RLock", "Lock"} : At(p, d, l)
        OBVIOUS
    <2>2. Allowed(Step(d, l), Held(p))
        BY <2>1, AtAllowed
    <2>3. MayTake(l, Held(p))
        BY <2>2, StepsDiffer DEF Allowed
    <2>4. Has(Held(p), held)
        BY DEF Holds, Has, Held
    <2>. QED
        BY <2>3, <2>4 DEF MayTake, Ordered
<1>. QED
    BY <1>1, LocksInvariance, PTL

\* A goroutine that is between two sections holds no lock: GraphStats too, which
\* releases in the order it took, and FindCandidates, which takes PeersLock again
\* while it has it.
THEOREM NothingLeftLocked ==
    Spec => [](\A p \in Process, l \in Lock : ~Busy(p) => ~Holds(p, l))
<1>1. LInv => \A p \in Process, l \in Lock : ~Busy(p) => ~Holds(p, l)
    <2>. SUFFICES ASSUME LInv, NEW p \in Process, NEW l \in Lock, ~Busy(p), Holds(p, l)
                  PROVE  FALSE
        OBVIOUS
    <2>1. Held(p) = Nothing
        BY HeldIsHolding, RunsEmpty DEF LInv, Scripted, Going, Busy
    <2>2. Has(Held(p), l)
        BY DEF Holds, Has, Held
    <2>. QED
        BY <2>1, <2>2, HasNothing
<1>. QED
    BY <1>1, LocksInvariance, PTL
=============================================================================
