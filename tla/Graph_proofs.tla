---------------------------- MODULE Graph_proofs ----------------------------
(***************************************************************************)
(* Proofs about the package graph: its file and the search for a route.    *)
(*                                                                         *)
(* GraphFile, when saves do not overlap: whatever happens, a start finds a *)
(* whole graph, and saving implements DurableGraph.  The invariant follows *)
(* the inodes.  The three names refer to different ones; graph.json and    *)
(* graph.json.old are whole; the file a job has open is the temporary one, *)
(* which is whole, and not older than what a start would load, from the    *)
(* end of the encoding to its publication.                                 *)
(*                                                                         *)
(* Pathfinder: the hops of the nodes form paths, the route is a circle     *)
(* that pays its fees, and is the cheapest one where the limit does not    *)
(* matter.  A node is settled when no item of the queue costs less.  A     *)
(* node that was reached goes on, over a channel that carries what it has  *)
(* to, to a settled node, whose distance stays what it is; so the hops can *)
(* be numbered down to the destination, and a walk along them meets no     *)
(* node twice.  A node that was reached and has no item has been expanded: *)
(* every channel into it was tried.                                        *)
(***************************************************************************)
EXTENDS GraphFile, Pathfinder, FiniteSetTheorems, WellFoundedInduction, TLAPS

---------------------------------------------------------------------------
(* The file *)

Names == {File, Old, Tmp}
Pos == {"idle", "created", "encode", "keep", "publish"}

NamesDiffer ==
    \A f, g \in Names : Exists(f) /\ name[f] = name[g] => f = g

WholeFiles == \A f \in {File, Old} : Exists(f) => content[name[f]] # Torn

StoredNotNewer == up => LoadedVersion <= version

JobInv(j) ==
    /\ pc[j] \in {"created", "encode"} => Exists(Tmp) /\ fd[j] = name[Tmp]
    /\ pc[j] \in {"keep", "publish"} =>
        /\ Exists(Tmp)
        /\ content[name[Tmp]] # Torn
        /\ LoadedVersion <= content[name[Tmp]]
        /\ content[name[Tmp]] <= version
    /\ pc[j] = "publish" => ~Exists(File)
    /\ pc[j] # "idle" => up

IInv ==
    /\ TypeOK
    /\ NamesDiffer
    /\ WholeFiles
    /\ StoredNotNewer
    /\ \A j \in Job : JobInv(j)

---------------------------------------------------------------------------

\* The three names of the graph (file.go:14-19).
LEMMA NamesAreDifferent == File # Old /\ File # Tmp /\ Old # Tmp
BY DEF File, Old, Tmp

\* What a start would load has an age.
LEMMA LoadedIsWhole ==
    ASSUME TypeOK, WholeFiles
    PROVE  LoadedVersion \in 0..MaxVersion
BY NamesAreDifferent, BoundsAssumption
   DEF TypeOK, WholeFiles, LoadedVersion, Opened, Exists, Torn

\* A start of the first version: one whole file or none.
LEMMA InitIInv == Init => IInv
<1> SUFFICES ASSUME Init PROVE IInv
    OBVIOUS
<1>1. TypeOK
  <2>1. /\ crashes \in 0..MaxCrashes /\ version \in 0..MaxVersion
        /\ lock \in Job \cup {NoJob} /\ name \in [{File, Old, Tmp} -> Inode \cup {NoFile}]
    BY BoundsAssumption DEF Init
  <2>5. up \in BOOLEAN
    BY Zenon DEF Init
  <2>2. content \in [Inode -> {Torn} \cup 0..MaxVersion]
    BY DEF Init
  <2>3. /\ pc \in [Job -> {"idle", "created", "encode", "keep", "publish"}]
        /\ fd \in [Job -> Inode \cup {NoFile}]
    BY DEF Init
  <2>4. ASSUME NEW j \in Job
        PROVE  fd[j] = NoFile /\ pc[j] = "idle" /\ lock # j
    BY JobsAssumption DEF Init
  <2>. QED BY <2>1, <2>2, <2>3, <2>4, <2>5 DEF TypeOK
<1>2. NamesDiffer /\ WholeFiles
  BY DEF Init, NamesDiffer, WholeFiles, Exists, Names
<1>3. StoredNotNewer /\ \A j \in Job : JobInv(j)
  BY DEF Init, StoredNotNewer, JobInv
<1>. QED BY <1>1, <1>2, <1>3 DEF IInv

---------------------------------------------------------------------------

\* Starting, learning and dying keep the invariant.
LEMMA ProcessKeepsIInv ==
    ASSUME IInv, LoadGraphFromFile \/ Learn \/ Crash
    PROVE  IInv' /\ UNCHANGED disk
<1> USE DEF IInv, NamesDiffer, WholeFiles, Exists, LoadedVersion, Opened, disk
<1>1. LoadedVersion \in 0..MaxVersion
  BY LoadedIsWhole
<1>2. CASE LoadGraphFromFile
  <2>1. TypeOK' /\ StoredNotNewer'
    BY <1>1, <1>2, BoundsAssumption DEF LoadGraphFromFile, TypeOK, StoredNotNewer
  <2>2. \A j \in Job : JobInv(j)'
    BY <1>1, <1>2, BoundsAssumption DEF LoadGraphFromFile, TypeOK, JobInv
  <2>. QED BY <1>2, <2>1, <2>2 DEF LoadGraphFromFile
<1>3. CASE Learn
  <2>1. TypeOK' /\ StoredNotNewer'
    BY <1>1, <1>3, BoundsAssumption DEF Learn, TypeOK, StoredNotNewer
  <2>2. \A j \in Job : JobInv(j)'
    <3> SUFFICES ASSUME NEW j \in Job PROVE JobInv(j)'
        OBVIOUS
    <3>1. JobInv(j) /\ version' = version + 1 /\ UNCHANGED <<up, name, content, pc, fd>>
      BY <1>3 DEF Learn
    <3>2. pc[j] \in {"keep", "publish"} => content[name[Tmp]] \in Int
      BY DEF TypeOK, JobInv, Torn, Tmp
    <3>. QED BY <3>1, <3>2 DEF JobInv, TypeOK
  <2>. QED BY <1>3, <2>1, <2>2 DEF Learn
<1>4. CASE Crash
  <2>1. TypeOK'
    <3>1. ASSUME NEW j \in Job
          PROVE  fd'[j] = NoFile /\ pc'[j] = "idle" /\ lock' # j
      BY <1>4, JobsAssumption DEF Crash
    <3>4. up' \in BOOLEAN
      BY <1>4, Zenon DEF Crash
    <3>2. /\ crashes' \in 0..MaxCrashes /\ version' \in 0..MaxVersion
          /\ lock' \in Job \cup {NoJob} /\ name' \in [{File, Old, Tmp} -> Inode \cup {NoFile}]
          /\ content' \in [Inode -> {Torn} \cup 0..MaxVersion]
      BY <1>4, BoundsAssumption DEF Crash, TypeOK
    <3>3. /\ pc' \in [Job -> {"idle", "created", "encode", "keep", "publish"}]
          /\ fd' \in [Job -> Inode \cup {NoFile}]
      BY <1>4 DEF Crash
    <3>. QED BY <3>1, <3>2, <3>3, <3>4 DEF TypeOK
  <2>3. StoredNotNewer'
    BY <1>4 DEF Crash, StoredNotNewer
  <2>2. \A j \in Job : JobInv(j)'
    BY <1>4 DEF Crash, JobInv
  <2>. QED BY <1>4, <2>1, <2>2, <2>3 DEF Crash
<1>. QED BY <1>2, <1>3, <1>4

---------------------------------------------------------------------------

\* A save keeps the invariant.  What a start would load changes only when the
\* new file is published, and then to a newer graph.
LEMMA SaveKeepsIInv ==
    ASSUME AtMostOneJob, IInv, NEW j \in Job, SaveGraphToFile(j)
    PROVE  /\ IInv'
           /\ LoadedVersion' \in LoadedVersion..version
           /\ up /\ UNCHANGED <<up, version>>
<1>1. LoadedVersion \in 0..MaxVersion
  BY LoadedIsWhole DEF IInv
<1>2. Job = {j}
  BY DEF AtMostOneJob
<1> USE NamesAreDifferent DEF Exists, Goto, NamesDiffer, WholeFiles, Names
<1>3. CASE CreateTmp(j)
  <2>1. PICK n \in IF Exists(Tmp) THEN {name[Tmp]} ELSE Free :
            /\ name' = [name EXCEPT ![Tmp] = n]
            /\ content' = [content EXCEPT ![n] = Torn]
            /\ fd' = [fd EXCEPT ![j] = n]
    BY <1>3 DEF CreateTmp
  <2>2. n \in Inode /\ n # NoFile
    BY InodesAssumption DEF Free, IInv, TypeOK
  <2>3. \A f \in {File, Old} : name[f] # n /\ name'[f] = name[f]
    BY <2>1, <2>2 DEF IInv, TypeOK, Free
  <2>4. LoadedVersion' = LoadedVersion
    BY <2>1, <2>2, <2>3 DEF LoadedVersion, Opened, IInv, TypeOK
  <2>5. TypeOK'
    BY <1>2, <1>3, <2>1, <2>2 DEF CreateTmp, IInv, TypeOK
  <2>6. NamesDiffer' /\ WholeFiles'
    BY <2>1, <2>2, <2>3 DEF IInv, TypeOK
  <2>7. JobInv(j)' /\ StoredNotNewer'
    BY <1>3, <2>1, <2>2, <2>4 DEF CreateTmp, IInv, TypeOK, JobInv, StoredNotNewer
  <2>. QED BY <1>1, <1>2, <1>3, <2>4, <2>5, <2>6, <2>7 DEF CreateTmp, IInv, StoredNotNewer, TypeOK
<1>4. CASE BeginEncode(j)
  <2>1. fd[j] = name[Tmp] /\ fd[j] \in Inode /\ Exists(Tmp)
    BY <1>4 DEF BeginEncode, IInv, TypeOK, JobInv
  <2>2. LoadedVersion' = LoadedVersion /\ WholeFiles'
    BY <1>4, <2>1 DEF BeginEncode, LoadedVersion, Opened, IInv, TypeOK
  <2>3. TypeOK'
    BY <1>2, <1>4, <2>1 DEF BeginEncode, IInv, TypeOK
  <2>4. NamesDiffer' /\ JobInv(j)' /\ StoredNotNewer'
    BY <1>4, <2>1, <2>2 DEF BeginEncode, IInv, TypeOK, JobInv, StoredNotNewer
  <2>. QED BY <1>1, <1>2, <1>4, <2>2, <2>3, <2>4 DEF BeginEncode, IInv, StoredNotNewer, TypeOK
<1>5. CASE EndEncode(j)
  <2>1. fd[j] = name[Tmp] /\ fd[j] \in Inode /\ Exists(Tmp)
    BY <1>5 DEF EndEncode, IInv, TypeOK, JobInv
  <2>2. LoadedVersion' = LoadedVersion /\ WholeFiles'
    BY <1>5, <2>1 DEF EndEncode, LoadedVersion, Opened, IInv, TypeOK
  <2>3. TypeOK'
    BY <1>2, <1>5, <2>1, JobsAssumption DEF EndEncode, CloseAndUnlock, IInv, TypeOK
  <2>4. content'[name'[Tmp]] = version /\ version # Torn
    BY <1>5, <2>1 DEF EndEncode, IInv, TypeOK, Torn
  <2>5. NamesDiffer' /\ StoredNotNewer'
    BY <1>5, <2>2 DEF EndEncode, IInv, StoredNotNewer
  <2>6. JobInv(j)'
    BY <1>1, <1>5, <2>1, <2>2, <2>4 DEF EndEncode, IInv, TypeOK, JobInv, StoredNotNewer
  <2>. QED BY <1>1, <1>2, <1>5, <2>2, <2>3, <2>5, <2>6 DEF EndEncode, IInv, StoredNotNewer, TypeOK
<1>6. CASE EncodeError(j)
  <2>1. LoadedVersion' = LoadedVersion
    BY <1>6 DEF EncodeError, disk, LoadedVersion, Opened
  <2>2. TypeOK'
    BY <1>2, <1>6, JobsAssumption DEF EncodeError, CloseAndUnlock, disk, IInv, TypeOK
  <2>3. NamesDiffer' /\ WholeFiles' /\ StoredNotNewer' /\ JobInv(j)'
    BY <1>6, <2>1 DEF EncodeError, disk, IInv, TypeOK, JobInv, StoredNotNewer
  <2>. QED BY <1>1, <1>2, <1>6, <2>1, <2>2, <2>3 DEF EncodeError, IInv, StoredNotNewer, TypeOK
<1>7. CASE KeepOldFile(j)
  <2>1. LoadedVersion' = LoadedVersion
    BY <1>7 DEF KeepOldFile, LoadedVersion, Opened, IInv, TypeOK
  <2>2. TypeOK'
    BY <1>2, <1>7 DEF KeepOldFile, IInv, TypeOK
  <2>3. NamesDiffer' /\ WholeFiles'
    BY <1>7 DEF KeepOldFile, IInv, TypeOK
  <2>4. StoredNotNewer' /\ JobInv(j)'
    BY <1>7, <2>1 DEF KeepOldFile, IInv, TypeOK, JobInv, StoredNotNewer
  <2>. QED BY <1>1, <1>2, <1>7, <2>1, <2>2, <2>3, <2>4 DEF KeepOldFile, IInv, StoredNotNewer, TypeOK
<1>8. CASE Publish(j)
  <2>1. /\ Exists(Tmp) /\ content[name[Tmp]] # Torn
        /\ LoadedVersion <= content[name[Tmp]] /\ content[name[Tmp]] <= version
    BY <1>8 DEF Publish, IInv, JobInv
  <2>2. content[name[Tmp]] \in Int /\ name[Tmp] \in Inode
    BY <2>1 DEF IInv, TypeOK, Torn
  <2>3. name' = [name EXCEPT ![File] = name[Tmp], ![Tmp] = NoFile]
    BY <1>8, <2>1 DEF Publish
  <2>4. LoadedVersion' = content[name[Tmp]]
    BY <1>8, <2>1, <2>3 DEF Publish, LoadedVersion, Opened, IInv, TypeOK
  <2>5. TypeOK'
    BY <1>2, <1>8, <2>3 DEF Publish, IInv, TypeOK
  <2>6. NamesDiffer' /\ WholeFiles'
    BY <1>8, <2>1, <2>3 DEF Publish, IInv, TypeOK
  <2>7. StoredNotNewer' /\ JobInv(j)'
    BY <1>8, <2>1, <2>4 DEF Publish, IInv, TypeOK, JobInv, StoredNotNewer
  <2>. QED BY <1>1, <1>2, <1>8, <2>1, <2>2, <2>4, <2>5, <2>6, <2>7 DEF Publish, IInv, TypeOK
<1>. QED BY <1>3, <1>4, <1>5, <1>6, <1>7, <1>8 DEF SaveGraphToFile

---------------------------------------------------------------------------

\* Every step keeps the invariant when saves do not overlap.
LEMMA NextKeepsIInv == AtMostOneJob /\ IInv /\ [Next]_vars => IInv'
<1> SUFFICES ASSUME AtMostOneJob, IInv, [Next]_vars PROVE IInv'
    OBVIOUS
<1>1. CASE LoadGraphFromFile \/ Learn \/ Crash
  BY <1>1, ProcessKeepsIInv
<1>2. ASSUME NEW j \in Job, SaveGraphToFile(j) PROVE IInv'
  BY <1>2, SaveKeepsIInv
<1>3. CASE UNCHANGED vars
  BY <1>3 DEF vars, disk, IInv, TypeOK, NamesDiffer, WholeFiles, StoredNotNewer, JobInv,
     Exists, LoadedVersion, Opened
<1>. QED BY <1>1, <1>2, <1>3 DEF Next

\* Every reachable state satisfies the invariant.
THEOREM Invariance == ASSUME AtMostOneJob PROVE Spec => []IInv
BY InitIInv, NextKeepsIInv, AtMostOneJob, PTL DEF Spec

\* The files, the lock and the open files agree with where the save is.
THEOREM TypeCorrect == ASSUME AtMostOneJob PROVE Spec => []TypeOK
<1>1. IInv => TypeOK BY DEF IInv
<1>. QED BY <1>1, Invariance, PTL

\* A start always finds a whole graph, wherever the process died.
THEOREM GraphAlwaysLoadable == ASSUME AtMostOneJob PROVE Spec => []AlwaysLoadable
<1>1. IInv => AlwaysLoadable
  BY LoadedIsWhole DEF IInv, AlwaysLoadable, Torn
<1>. QED BY <1>1, Invariance, PTL

---------------------------------------------------------------------------
(* Refinement *)

\* The first start finds no file and begins with the empty graph.
LEMMA InitRefines == Init => Implements!Init
BY DEF Init, Implements!Init, LoadedVersion, Opened, Exists

\* Publishing saves; the other steps of a save leave the stored graph alone.
LEMMA NextRefines ==
    AtMostOneJob /\ IInv /\ [Next]_vars => [Implements!Next]_Implements!vars
<1> SUFFICES ASSUME AtMostOneJob, IInv, [Next]_vars
             PROVE  [Implements!Next]_Implements!vars
    OBVIOUS
<1> USE DEF Implements!Next, Implements!vars
<1>1. CASE LoadGraphFromFile
  <2>1. LoadedVersion' = LoadedVersion
    BY <1>1 DEF LoadGraphFromFile, disk, LoadedVersion, Opened, Exists
  <2>2. Implements!Restart
    BY <1>1, <2>1 DEF LoadGraphFromFile, Implements!Restart
  <2>. QED BY <2>2
<1>2. CASE Learn
  <2>1. LoadedVersion' = LoadedVersion
    BY <1>2 DEF Learn, disk, LoadedVersion, Opened, Exists
  <2>2. Implements!Learn
    BY <1>2, <2>1 DEF Learn, Implements!Learn
  <2>. QED BY <2>2
<1>3. CASE Crash
  <2>1. LoadedVersion' = LoadedVersion
    BY <1>3 DEF Crash, disk, LoadedVersion, Opened, Exists
  <2>2. Implements!Crash
    BY <1>3, <2>1 DEF Crash, Implements!Crash
  <2>. QED BY <2>2
<1>4. ASSUME NEW j \in Job, SaveGraphToFile(j)
      PROVE  Implements!Save
  BY <1>4, SaveKeepsIInv DEF Implements!Save
<1>5. CASE UNCHANGED vars
  BY <1>5 DEF vars, disk, LoadedVersion, Opened, Exists
<1>. QED BY <1>1, <1>2, <1>3, <1>4, <1>5 DEF Next

\* When saves do not overlap, saving is atomic: it implements DurableGraph.
THEOREM SavingIsAtomic == ASSUME AtMostOneJob PROVE Spec => ImplementsDurableGraph
BY InitRefines, NextRefines, Invariance, AtMostOneJob, PTL
   DEF Spec, ImplementsDurableGraph, Implements!Spec

---------------------------------------------------------------------------
(* The inductive invariant of the search *)

Hops == [channel : {OutChannel} \cup graph, amount : Nat, delay : Nat]
Items == [node : Node, amount : Nat, delay : Nat, hops : Nat, priority : Nat]

SearchType ==
    /\ OutChannel \in OutChannels /\ InChannel \in InChannels
    /\ graph \in Graphs /\ maxHops \in MaxHopsArgs
    /\ distance \in [Node -> 0..MaxDistance]
    /\ hop \in [Node -> Hops]
    /\ pq \subseteq Items

\* Nodes without an entry, and the destination, are at no distance.
Grounded == \A u \in Node : u \notin Known \ {Dst} => distance[u] = 0

Reached(u) == u \in Known \cup {Dst} /\ distance[u] < MaxDistance

\* The node that u goes on to.
Onward(u) == hop[u].channel.destination

\* Nothing that is still to be treated can improve the node.
Settled(u) == Reached(u) /\ \A item \in pq : distance[u] <= item.priority

\* What a node that was reached pays, and to whom.
HopFits(u) ==
    /\ u # Self /\ hop[u].channel \in graph /\ hop[u].channel.source = u
    /\ Settled(Onward(u))
    /\ CanForward(hop[u].channel, Amount + distance[Onward(u)])
    /\ distance[u] = distance[Onward(u)]
                       + ComputeFee(hop[u].channel, Amount + distance[Onward(u)])
    /\ hop[u].amount = Amount + distance[u]

HopsFit == \A u \in Node : Reached(u) /\ u # Dst => HopFits(u)

\* An item is outdated or as good as its node.
ItemsFit ==
    \A item \in pq :
        /\ Reached(item.node) /\ item.node # Self /\ distance[item.node] <= item.priority
        /\ item.priority = distance[item.node] => item.amount = Amount + item.priority

\* The number of channels from each node to Dst.
Depths(d) ==
    /\ d \in [Node -> Nat] /\ d[Dst] = 0
    /\ \A u \in Node : Reached(u) /\ u # Dst => d[u] = d[Onward(u)] + 1 /\ d[u] <= Limit
    /\ \A item \in pq : item.priority = distance[item.node] => item.hops = d[item.node]

SearchInv ==
    /\ SearchType /\ Grounded /\ ItemsFit /\ HopsFit
    /\ \E d : Depths(d)

\* The hops collected: a path from Src to Dst that visits no node twice.
PathOf(p, n) ==
    /\ p \in [0..n -> Node \ {Self}] /\ p[0] = Src /\ p[n] = Dst
    /\ \A j, k \in 0..n : p[j] = p[k] => j = k
    /\ \A k \in 1..n : hop[p[k - 1]].channel \in graph
                       /\ hop[p[k - 1]].channel.source = p[k - 1]
                       /\ hop[p[k - 1]].channel.destination = p[k]

HopsCollected ==
    outcome = "hops" =>
        \E n \in Nat : \E p : /\ PathOf(p, n) /\ n <= Limit
                              /\ route = [k \in 1..n |-> hop[p[k - 1]]]

---------------------------------------------------------------------------
(* Numbers *)

Smaller == {x \in Nat \X Nat : x[1] < x[2]}

LEMMA SmallerWellFounded == IsWellFoundedOn(Smaller, Nat)
BY NatLessThanWellFounded DEF OpToRel, Smaller

\* A set of numbers that is not empty has a least one.
LEMMA LeastNumber ==
    ASSUME NEW S \in SUBSET Nat, S # {}
    PROVE  \E x \in S : \A y \in S : x <= y
<1>1. PICK x \in S : \A y \in S : <<y, x>> \notin Smaller
    BY SmallerWellFounded, WFMin
<1>2. \A y \in S : ~(y < x)
    BY <1>1 DEF Smaller
<1>. QED
    BY <1>2

\* Induction, over a set of numbers.
LEMMA SetInduction ==
    ASSUME NEW S \in SUBSET Nat, 0 \in S, \A n \in S : n + 1 \in S
    PROVE  S = Nat
<1>. SUFFICES ASSUME Nat \ S # {} PROVE FALSE
    OBVIOUS
<1>1. PICK x \in Nat \ S : \A y \in Nat \ S : x <= y
    BY LeastNumber
<1>2. x # 0 /\ x - 1 \in Nat /\ x - 1 \in S
    BY <1>1
<1>. QED
    BY <1>1, <1>2

IsChannel(c) ==
    /\ {c.source, c.destination} \subseteq Node
    /\ {c.base, c.ppm, c.delay, c.liquidity, c.min, c.max} \subseteq Nat

LEMMA Ceiling ==
    ASSUME NEW n \in Nat, NEW m \in Nat, n <= m
    PROVE  CeilDiv(n, 1000) \in Nat /\ CeilDiv(n, 1000) <= CeilDiv(m, 1000)
BY DEF CeilDiv

LEMMA Products ==
    ASSUME NEW a \in Nat, NEW b \in Nat, NEW c \in Nat, a <= b
    PROVE  a * c \in Nat /\ b * c \in Nat /\ a * c <= b * c
<1>1. PICK e \in Nat : b = a + e
    <2>1. b - a \in Nat /\ b = a + (b - a)
        OBVIOUS
    <2>. QED
        BY <2>1
<1>2. b * c = a * c + e * c
    BY <1>1
<1>3. a * c \in Nat /\ e * c \in Nat
    OBVIOUS
<1>. QED
    BY <1>2, <1>3

\* More costs no less.
LEMMA FeeGrows ==
    ASSUME NEW c, IsChannel(c), NEW x \in Nat, NEW y \in Nat, x <= y
    PROVE  ComputeFee(c, x) \in Nat /\ ComputeFee(c, x) <= ComputeFee(c, y)
<1>1. c.base \in Nat /\ c.ppm \in Nat
    BY DEF IsChannel
<1>2. x \div 1000 \in Nat /\ y \div 1000 \in Nat /\ x \div 1000 <= y \div 1000
    OBVIOUS
<1>. DEFINE n == (x \div 1000) * c.ppm
            m == (y \div 1000) * c.ppm
<1>3. n \in Nat /\ m \in Nat /\ n <= m
    BY <1>1, <1>2, Products
<1>. HIDE DEF n, m
<1>4. CeilDiv(n, 1000) \in Nat /\ CeilDiv(m, 1000) \in Nat /\ CeilDiv(n, 1000) <= CeilDiv(m, 1000)
    BY <1>3, Ceiling
<1>5. ComputeFee(c, x) = c.base + CeilDiv(n, 1000) /\ ComputeFee(c, y) = c.base + CeilDiv(m, 1000)
    BY DEF ComputeFee, n, m
<1>. QED
    BY <1>1, <1>4, <1>5

LEMMA FeeIsNat ==
    ASSUME NEW c, IsChannel(c), NEW x \in Nat
    PROVE  ComputeFee(c, x) \in Nat
BY FeeGrows

---------------------------------------------------------------------------
(* The search keeps the invariant *)

LEMMA ChannelsOfGraph ==
    ASSUME SearchType
    PROVE  /\ \A c \in graph : IsChannel(c) /\ c.destination \in Known
           /\ IsChannel(OutChannel) /\ IsChannel(InChannel)
           /\ Src \in Node \ {Self} /\ Dst \in Node \ {Self} /\ Src \in Known
BY ChannelsAssumption, NodesAssumption DEF SearchType, IsChannel, Known, Src, Dst

LEMMA SearchStarts == SearchInit => SearchInv
<1>. SUFFICES ASSUME SearchInit PROVE SearchInv
    OBVIOUS
<1>. USE DEF SearchInit
<1>1. IsChannel(OutChannel) /\ IsChannel(InChannel) /\ Dst \in Node \ {Self}
    BY ChannelsAssumption, NodesAssumption DEF IsChannel, Dst
<1>2. SearchType
    <2>1. distance \in [Node -> 0..MaxDistance]
        BY AmountsAssumption
    <2>2. NoHop \in Hops
        BY DEF NoHop, Hops
    <2>3. pq \subseteq Items
        BY <1>1, AmountsAssumption DEF Items
    <2>. QED
        BY <2>1, <2>2, <2>3 DEF SearchType
<1>3. Grounded
    BY DEF Grounded
<1>4. \A u \in Node : Reached(u) => u = Dst
    BY AmountsAssumption DEF Reached
<1>5. Reached(Dst) /\ distance[Dst] = 0
    BY <1>1, AmountsAssumption DEF Reached
<1>6. ItemsFit
    BY <1>1, <1>5, AmountsAssumption DEF ItemsFit
<1>7. HopsFit
    BY <1>4 DEF HopsFit
<1>8. Depths([u \in Node |-> 0])
    BY <1>1, <1>4 DEF Depths
<1>. QED
    BY <1>2, <1>3, <1>6, <1>7, <1>8 DEF SearchInv

\* An item that is treated is as good as its node, and its node is settled.
LEMMA FirstItem ==
    ASSUME SearchInv, NEW item \in pq, IsFirst(item), ~Outdated(item)
    PROVE  /\ item \in Items /\ Settled(item.node)
           /\ item.priority = distance[item.node]
           /\ item.amount = Amount + distance[item.node]
<1>1. item \in Items /\ item.node \in Node
    BY DEF SearchInv, SearchType, Items
<1>2. distance[item.node] \in Nat /\ item.priority \in Nat
    BY <1>1 DEF SearchInv, SearchType, Items
<1>3. item.priority = distance[item.node]
    BY <1>2 DEF SearchInv, ItemsFit, Outdated
<1>4. Settled(item.node)
    BY <1>3 DEF SearchInv, ItemsFit, Settled, IsFirst
<1>. QED
    BY <1>1, <1>3, <1>4 DEF SearchInv, ItemsFit

LEMMA SkipKeeps ==
    ASSUME SearchInv, NEW item \in pq, SkipItem(item)
    PROVE  SearchInv'
<1>1. pq' = pq \ {item} /\ UNCHANGED <<OutChannel, InChannel, graph, maxHops, distance, hop>>
    BY DEF SkipItem, input
<1>2. Known' = Known /\ Dst' = Dst /\ Limit' = Limit
    BY <1>1 DEF Known, Dst, Limit
<1>3. \A u : Reached(u)' <=> Reached(u)
    BY <1>1, <1>2 DEF Reached
<1>4. SearchType' /\ Grounded'
    BY <1>1, <1>2 DEF SearchInv, SearchType, Grounded, Hops, Items
<1>5. ItemsFit'
    BY <1>1, <1>3 DEF SearchInv, ItemsFit
<1>6. HopsFit'
    <2>1. ASSUME NEW u \in Node, HopFits(u) PROVE HopFits(u)'
        BY <1>1, <1>3, <2>1 DEF HopFits, Settled, Onward, CanForward, ComputeFee
    <2>. QED
        BY <1>2, <1>3, <2>1 DEF SearchInv, HopsFit
<1>7. ASSUME NEW d, Depths(d) PROVE Depths(d)'
    BY <1>1, <1>2, <1>3, <1>7 DEF Depths, Onward
<1>. QED
    BY <1>4, <1>5, <1>6, <1>7 DEF SearchInv

\* What the treatment of an item does: the nodes with a cheapest channel into its
\* node go on over one, at the distance of the node and the fee.
Relaxes(item, improved, pick) ==
    /\ improved \subseteq Node
    /\ \A v \in improved : pick[v] \in Cheapest(v, item)
    /\ \A v \in Node :
        distance'[v] = IF v \in improved
                       THEN distance[item.node] + ComputeFee(pick[v], item.amount)
                       ELSE distance[v]
    /\ \A v \in Node :
        hop'[v] = IF v \in improved
                  THEN [channel |-> pick[v],
                        amount |-> item.amount + ComputeFee(pick[v], item.amount),
                        delay |-> item.delay + pick[v].delay]
                  ELSE hop[v]
    /\ \A it \in pq' :
        \/ it \in pq
        \/ /\ it.node \in improved /\ it.hops = item.hops + 1
           /\ it.priority = distance[item.node] + ComputeFee(pick[it.node], item.amount)
           /\ it.amount = item.amount + ComputeFee(pick[it.node], item.amount)
           /\ it.delay = item.delay + pick[it.node].delay
           /\ it \in [node : improved, amount : {it.amount}, delay : {it.delay},
                      hops : {it.hops}, priority : {it.priority}]
    /\ pq \ {item} \subseteq pq'
    /\ \A v \in improved : \E it \in pq' : it.node = v /\ it.priority = distance'[v]

LEMMA ExpandRelaxes ==
    ASSUME SearchInv, NEW item \in pq, Expand(item)
    PROVE  LET improved == {v \in Node : Cheapest(v, item) # {}}
           IN  /\ \E pick : Relaxes(item, improved, pick)
               /\ distance' \in [Node -> {distance'[v] : v \in Node}]
               /\ hop' \in [Node -> {hop'[v] : v \in Node}]
               /\ UNCHANGED <<OutChannel, InChannel, graph, maxHops, route, outcome>>
               /\ outcome = "search" /\ IsFirst(item) /\ ~Outdated(item)
               /\ item.node # Src /\ item.hops < Limit
<1>. DEFINE improved == {v \in Node : Cheapest(v, item) # {}}
            fee(pick, v) == ComputeFee(pick[v], item.amount)
            Hop(pick, v) == [channel |-> pick[v], amount |-> item.amount + fee(pick, v),
                             delay |-> item.delay + pick[v].delay]
            Item(pick, v) == [node |-> v, amount |-> Hop(pick, v).amount,
                              delay |-> Hop(pick, v).delay, hops |-> item.hops + 1,
                              priority |-> distance[item.node] + fee(pick, v)]
<1>1. PICK pick \in [improved -> UNION {Cheapest(v, item) : v \in improved}] :
          /\ \A v \in improved : pick[v] \in Cheapest(v, item)
          /\ distance' = [v \in Node |-> IF v \in improved THEN Item(pick, v).priority
                                         ELSE distance[v]]
          /\ hop' = [v \in Node |-> IF v \in improved THEN Hop(pick, v) ELSE hop[v]]
          /\ pq' = (pq \ {item}) \cup {Item(pick, v) : v \in improved}
    BY Zenon DEF Expand
<1>2. /\ UNCHANGED <<OutChannel, InChannel, graph, maxHops, route, outcome>>
      /\ outcome = "search" /\ IsFirst(item) /\ ~Outdated(item)
      /\ item.node # Src /\ item.hops < Limit
    BY DEF Expand, Enters, input
<1>3. improved \subseteq Node
    OBVIOUS
<1>4. Relaxes(item, improved, pick)
    <2>. HIDE DEF improved
    <2>1. \A v : /\ Item(pick, v).node = v /\ Item(pick, v).hops = item.hops + 1
                 /\ Item(pick, v).priority = distance[item.node] + fee(pick, v)
                 /\ Item(pick, v).amount = item.amount + fee(pick, v)
                 /\ Item(pick, v).delay = item.delay + pick[v].delay
        OBVIOUS
    <2>2. \A it \in pq' : it \in pq \/ \E v \in improved : it = Item(pick, v)
        BY <1>1
    <2>3. \A v \in improved :
              Item(pick, v) \in [node : improved, amount : {Item(pick, v).amount},
                                 delay : {Item(pick, v).delay}, hops : {Item(pick, v).hops},
                                 priority : {Item(pick, v).priority}]
        BY <2>1
    <2>4. \A v \in improved : Item(pick, v) \in pq' /\ distance'[v] = Item(pick, v).priority
        BY <1>1, <1>3
    <2>5. pq \ {item} \subseteq pq'
        BY <1>1
    <2>. HIDE DEF Item
    <2>6. \A v \in Node :
              distance'[v] = IF v \in improved
                             THEN distance[item.node] + ComputeFee(pick[v], item.amount)
                             ELSE distance[v]
        BY <1>1, <2>1
    <2>7. \A v \in Node :
              hop'[v] = IF v \in improved
                        THEN [channel |-> pick[v],
                              amount |-> item.amount + ComputeFee(pick[v], item.amount),
                              delay |-> item.delay + pick[v].delay]
                        ELSE hop[v]
        BY <1>1
    <2>8. \A it \in pq' :
            \/ it \in pq
            \/ /\ it.node \in improved /\ it.hops = item.hops + 1
               /\ it.priority = distance[item.node] + ComputeFee(pick[it.node], item.amount)
               /\ it.amount = item.amount + ComputeFee(pick[it.node], item.amount)
               /\ it.delay = item.delay + pick[it.node].delay
               /\ it \in [node : improved, amount : {it.amount}, delay : {it.delay},
                          hops : {it.hops}, priority : {it.priority}]
        BY <2>1, <2>2, <2>3
    <2>9. \A v \in improved : \E it \in pq' : it.node = v /\ it.priority = distance'[v]
        BY <2>1, <2>4
    <2>. QED
        BY <1>1, <1>3, <2>5, <2>6, <2>7, <2>8, <2>9 DEF Relaxes
<1>5. distance' \in [Node -> {distance'[v] : v \in Node}]
    BY <1>1
<1>6. hop' \in [Node -> {hop'[v] : v \in Node}]
    BY <1>1
<1>. QED
    BY <1>2, <1>4, <1>5, <1>6

LEMMA ExpandKeeps ==
    ASSUME SearchInv, NEW item \in pq, Expand(item)
    PROVE  SearchInv'
<1>. DEFINE improved == {v \in Node : Cheapest(v, item) # {}}
            w == item.node
            a == item.amount
<1>1. PICK pick : Relaxes(item, improved, pick)
    BY ExpandRelaxes
<1>2. /\ UNCHANGED <<OutChannel, InChannel, graph, maxHops>>
      /\ distance' \in [Node -> {distance'[v] : v \in Node}]
      /\ hop' \in [Node -> {hop'[v] : v \in Node}]
      /\ IsFirst(item) /\ item.hops < Limit
    BY ExpandRelaxes
<1>3. /\ item \in Items /\ Settled(w)
      /\ item.priority = distance[w] /\ a = Amount + distance[w]
    BY ExpandRelaxes, FirstItem
<1>4. SearchType /\ w \in Node /\ a \in Nat /\ item.delay \in Nat /\ item.hops \in Nat
    BY <1>3 DEF SearchInv, Items
<1>5. \A u \in Node : distance[u] \in Nat /\ distance[u] <= MaxDistance
    BY <1>4, AmountsAssumption DEF SearchType
<1>6. ASSUME NEW v \in improved
      PROVE  /\ pick[v] \in graph /\ IsChannel(pick[v]) /\ ComputeFee(pick[v], a) \in Nat
             /\ pick[v].source = v /\ pick[v].destination = w /\ v # Self
             /\ CanForward(pick[v], a) /\ v \in Node
             /\ distance[w] + ComputeFee(pick[v], a) < distance[v]
    BY <1>1, <1>4, ChannelsOfGraph, FeeIsNat
       DEF Relaxes, Cheapest, Usable, Improves, exclude
<1>7. \A v \in Node :
          /\ distance'[v] = IF v \in improved THEN distance[w] + ComputeFee(pick[v], a)
                            ELSE distance[v]
          /\ distance'[v] \in Nat /\ distance'[v] <= distance[v]
    BY <1>1, <1>4, <1>5, <1>6 DEF Relaxes
<1>. HIDE DEF improved
<1>8. Known' = Known /\ Dst' = Dst /\ Limit' = Limit
    BY <1>2 DEF Known, Dst, Limit
<1>9. ASSUME NEW v \in improved PROVE v \in Known \ {Dst} /\ Reached(v)'
    <2>1. distance[v] # 0
        BY <1>4, <1>5, <1>6
    <2>2. v \in Known \ {Dst}
        BY <1>6, <2>1 DEF SearchInv, Grounded
    <2>3. distance'[v] < MaxDistance
        BY <1>4, <1>5, <1>6, <1>7, AmountsAssumption
    <2>. QED
        BY <1>8, <2>2, <2>3 DEF Reached
<1>9a. ASSUME NEW v \in improved
       PROVE  /\ hop'[v].channel = pick[v] /\ hop'[v].amount = a + ComputeFee(pick[v], a)
              /\ hop'[v].channel.destination = w
    <2>1. hop'[v] = [channel |-> pick[v], amount |-> a + ComputeFee(pick[v], a),
                     delay |-> item.delay + pick[v].delay]
        BY <1>1, <1>6 DEF Relaxes
    <2>. QED
        BY <1>6, <2>1
<1>10. \A u \in Node : Reached(u) => Reached(u)'
    BY <1>5, <1>7, <1>8, AmountsAssumption DEF Reached
<1>11. \A u \in Node \ improved : Reached(u)' => Reached(u)
    BY <1>7, <1>8 DEF Reached
<1>12. ASSUME NEW u \in Node, Settled(u) PROVE u \notin improved /\ distance'[u] = distance[u]
                                               /\ Settled(u)'
    <2>1. distance[u] <= distance[w]
        BY <1>3, <1>12 DEF Settled
    <2>2. u \notin improved
        BY <1>4, <1>5, <1>6, <2>1
    <2>3. distance'[u] = distance[u]
        BY <1>7, <2>2
    <2>4. ASSUME NEW it \in pq' PROVE distance'[u] <= it.priority
        <3>1. CASE it \in pq
            BY <1>12, <2>3, <3>1 DEF Settled
        <3>2. CASE it \notin pq
            BY <1>1, <1>4, <1>5, <1>6, <2>1, <2>3, <3>2 DEF Relaxes
        <3>. QED
            BY <3>1, <3>2
    <2>. QED
        BY <1>10, <1>12, <2>2, <2>3, <2>4 DEF Settled
<1>13. SearchType'
    <2>1. distance' \in [Node -> 0..MaxDistance]
        <3>1. \A v \in Node : distance'[v] \in 0..MaxDistance
            BY <1>5, <1>7, AmountsAssumption
        <3>. QED
            BY <1>2, <3>1
    <2>2. hop' \in [Node -> Hops]
        <3>1. ASSUME NEW v \in Node PROVE hop'[v] \in Hops
            <4>1. CASE v \in improved
                <5>1. pick[v].delay \in Nat
                    BY <1>6, <4>1 DEF IsChannel
                <5>2. hop'[v] = [channel |-> pick[v], amount |-> a + ComputeFee(pick[v], a),
                                 delay |-> item.delay + pick[v].delay]
                    BY <1>1, <4>1 DEF Relaxes
                <5>. QED
                    BY <1>4, <1>6, <4>1, <5>1, <5>2 DEF Hops
            <4>2. CASE v \notin improved
                BY <1>1, <1>4, <4>2 DEF Relaxes, SearchType
            <4>. QED
                BY <4>1, <4>2
        <3>. QED
            BY <1>2, <3>1
    <2>3. pq' \subseteq Items
        <3>1. ASSUME NEW it \in pq', it \notin pq PROVE it \in Items
            <4>1. /\ it.node \in improved /\ it.hops = item.hops + 1
                  /\ it.priority = distance[w] + ComputeFee(pick[it.node], a)
                  /\ it.amount = a + ComputeFee(pick[it.node], a)
                  /\ it.delay = item.delay + pick[it.node].delay
                  /\ it \in [node : improved, amount : {it.amount}, delay : {it.delay},
                             hops : {it.hops}, priority : {it.priority}]
                BY <1>1, <3>1 DEF Relaxes
            <4>2. pick[it.node].delay \in Nat
                BY <1>6, <4>1 DEF IsChannel
            <4>3. it.amount \in Nat /\ it.delay \in Nat /\ it.hops \in Nat /\ it.priority \in Nat
                BY <1>4, <1>5, <1>6, <4>1, <4>2
            <4>4. improved \subseteq Node
                BY <1>6
            <4>. QED
                BY <4>1, <4>3, <4>4 DEF Items
        <3>. QED
            BY <1>4, <3>1 DEF SearchType
    <2>. QED
        BY <1>2, <1>4, <2>1, <2>2, <2>3 DEF SearchType, Hops
<1>14. Grounded'
    BY <1>7, <1>8, <1>9 DEF SearchInv, Grounded
<1>15. ItemsFit'
    <2>. SUFFICES ASSUME NEW it \in pq'
                  PROVE  /\ Reached(it.node)' /\ it.node # Self /\ distance'[it.node] <= it.priority
                         /\ it.priority = distance'[it.node] => it.amount = Amount + it.priority
        BY DEF ItemsFit
    <2>1. CASE it \in pq
        <3>1. it.node \in Node /\ it.priority \in Nat
            BY <1>4, <2>1 DEF SearchType, Items
        <3>2. /\ Reached(it.node) /\ it.node # Self /\ distance[it.node] <= it.priority
              /\ it.priority = distance[it.node] => it.amount = Amount + it.priority
            BY <2>1 DEF SearchInv, ItemsFit
        <3>3. it.node \in improved => distance'[it.node] < it.priority
            BY <1>4, <1>5, <1>6, <1>7, <3>1, <3>2
        <3>. QED
            BY <1>5, <1>7, <1>10, <3>1, <3>2, <3>3
    <2>2. CASE it \notin pq
        <3>1. /\ it.node \in improved
              /\ it.priority = distance[w] + ComputeFee(pick[it.node], a)
              /\ it.amount = a + ComputeFee(pick[it.node], a)
            BY <1>1, <2>2 DEF Relaxes
        <3>. QED
            BY <1>3, <1>4, <1>5, <1>6, <1>7, <1>9, <3>1, AmountsAssumption
    <2>. QED
        BY <2>1, <2>2
<1>16. HopsFit'
    <2>. SUFFICES ASSUME NEW u \in Node, Reached(u)', u # Dst PROVE HopFits(u)'
        BY <1>8 DEF HopsFit
    <2>1. CASE u \in improved
        <3>1. hop'[u].channel = pick[u] /\ hop'[u].amount = a + ComputeFee(pick[u], a)
            BY <1>9a, <2>1
        <3>2. Onward(u)' = w
            BY <1>9a, <2>1 DEF Onward
        <3>3. distance'[w] = distance[w] /\ Settled(w)'
            BY <1>3, <1>4, <1>12
        <3>4. CanForward(hop'[u].channel, Amount + distance'[w])
            BY <1>3, <1>6, <2>1, <3>1, <3>3
        <3>5. distance'[u] = distance'[w] + ComputeFee(hop'[u].channel, Amount + distance'[w])
            BY <1>3, <1>6, <1>7, <2>1, <3>1, <3>3
        <3>6. hop'[u].amount = Amount + distance'[u]
            BY <1>3, <1>4, <1>5, <1>6, <1>7, <2>1, <3>1, AmountsAssumption
        <3>. QED
            BY <1>2, <1>6, <2>1, <3>1, <3>2, <3>3, <3>4, <3>5, <3>6
               DEF HopFits, CanForward, ComputeFee
    <2>2. CASE u \notin improved
        <3>1. HopFits(u)
            BY <1>8, <1>11, <2>2 DEF SearchInv, HopsFit
        <3>2. hop'[u] = hop[u] /\ distance'[u] = distance[u] /\ Onward(u)' = Onward(u)
            BY <1>1, <1>7, <2>2 DEF Relaxes, Onward
        <3>3. PICK x \in Node : x = Onward(u)
            BY <1>4, <3>1, ChannelsOfGraph DEF HopFits, Onward, IsChannel
        <3>4. distance'[x] = distance[x] /\ Settled(x)'
            BY <1>12, <3>1, <3>3 DEF HopFits
        <3>. QED
            BY <1>2, <3>1, <3>2, <3>3, <3>4 DEF HopFits, CanForward, ComputeFee
    <2>. QED
        BY <2>1, <2>2
<1>17. ASSUME NEW d, Depths(d) PROVE \E e : Depths(e)'
    <2>1. d \in [Node -> Nat] /\ d[w] \in Nat /\ d[Dst] = 0 /\ item.hops = d[w]
        BY <1>3, <1>4, <1>17 DEF Depths
    <2>2. PICK e \in [Node -> Nat] :
              \A v \in Node : e[v] = IF v \in improved THEN d[w] + 1 ELSE d[v]
        <3>. DEFINE f == [v \in Node |-> IF v \in improved THEN d[w] + 1 ELSE d[v]]
        <3>1. f \in [Node -> Nat]
            BY <2>1
        <3>. QED
            BY <3>1
    <2>3. Dst \in Node /\ Dst \notin improved
        BY <1>4, <1>9, ChannelsOfGraph
    <2>4. e[Dst] = 0
        BY <2>1, <2>2, <2>3
    <2>5. ASSUME NEW u \in Node, Settled(u) PROVE e[u] = d[u]
        BY <1>12, <2>2, <2>5
    <2>6. ASSUME NEW u \in Node, Reached(u)', u # Dst
          PROVE  e[u] = e[Onward(u)'] + 1 /\ e[u] <= Limit
        <3>1. CASE u \in improved
            <4>1. Onward(u)' = w
                BY <1>9a, <3>1 DEF Onward
            <4>2. e[w] = d[w]
                BY <1>3, <1>4, <2>5
            <4>3. d[w] + 1 <= Limit
                <5>1. Limit \in Int
                    BY <1>4, AmountsAssumption DEF SearchType, Limit
                <5>. QED
                    BY <1>2, <2>1, <5>1
            <4>. QED
                BY <2>2, <3>1, <4>1, <4>2, <4>3
        <3>2. CASE u \notin improved
            <4>1. Reached(u) /\ HopFits(u)
                BY <1>11, <2>6, <3>2 DEF SearchInv, HopsFit
            <4>2. Onward(u)' = Onward(u) /\ Onward(u) \in Node
                BY <1>1, <1>4, <3>2, <4>1, ChannelsOfGraph DEF Relaxes, HopFits, Onward, IsChannel
            <4>3. e[Onward(u)] = d[Onward(u)]
                BY <2>5, <4>1, <4>2 DEF HopFits
            <4>. QED
                BY <1>17, <2>2, <2>6, <3>2, <4>1, <4>2, <4>3 DEF Depths
        <3>. QED
            BY <3>1, <3>2
    <2>7. ASSUME NEW it \in pq', it.priority = distance'[it.node] PROVE it.hops = e[it.node]
        <3>1. CASE it \in pq
            <4>1. it.node \in Node /\ it.priority \in Nat /\ distance[it.node] <= it.priority
                BY <1>4, <3>1 DEF SearchType, Items, SearchInv, ItemsFit
            <4>2. it.node \notin improved
                BY <1>4, <1>5, <1>6, <1>7, <2>7, <4>1
            <4>3. distance'[it.node] = distance[it.node] /\ e[it.node] = d[it.node]
                BY <1>7, <2>2, <4>1, <4>2
            <4>. QED
                BY <1>17, <2>7, <3>1, <4>3 DEF Depths
        <3>2. CASE it \notin pq
            BY <1>1, <1>6, <2>1, <2>2, <3>2 DEF Relaxes
        <3>. QED
            BY <3>1, <3>2
    <2>. QED
        BY <1>8, <2>2, <2>4, <2>6, <2>7 DEF Depths
<1>. QED
    BY <1>13, <1>14, <1>15, <1>16, <1>17 DEF SearchInv

LEMMA SearchEndKeeps ==
    ASSUME SearchInv, UNCHANGED <<OutChannel, InChannel, graph, maxHops, distance, hop, pq>>
    PROVE  SearchInv'
BY DEF SearchInv, SearchType, Grounded, ItemsFit, HopsFit, HopFits, Settled, Reached, Onward,
       Depths, Known, Dst, Limit, Hops, Items, CanForward, ComputeFee

LEMMA SearchStepKeeps == SearchInv /\ [SearchNext]_searchVars => SearchInv'
<1>. SUFFICES ASSUME SearchInv, [SearchNext]_searchVars PROVE SearchInv'
    OBVIOUS
<1>1. ASSUME NEW item \in pq, SkipItem(item) PROVE SearchInv'
    BY <1>1, SkipKeeps
<1>2. ASSUME NEW item \in pq, Expand(item) PROVE SearchInv'
    BY <1>2, ExpandKeeps
<1>3. CASE NoRoute \/ BuildHops \/ PrependPanics \/ BuildRoute
    BY <1>3, SearchEndKeeps DEF NoRoute, BuildHops, PrependPanics, BuildRoute, input
<1>4. CASE UNCHANGED searchVars
    BY <1>4, SearchEndKeeps DEF searchVars
<1>. QED
    BY <1>1, <1>2, <1>3, <1>4 DEF SearchNext

---------------------------------------------------------------------------
(* The walk along the hops *)

LEMMA NodesCounted ==
    /\ Cardinality(Node) \in Nat /\ Cardinality(Node \ exclude) \in Nat
    /\ IsFiniteSet(Node \ exclude)
    /\ Cardinality(Node \ exclude) = Cardinality(Node) - 1
BY NodesAssumption, FS_CardinalityType, FS_RemoveElement DEF exclude

\* There is a walk of any length, so that Walk is what its equation says.
LEMMA WalkExists ==
    ASSUME SearchType, NEW u \in Node
    PROVE  \A n \in Nat : \E f \in [0..n -> Node] :
               f = [k \in 0..n |-> IF k = 0 THEN u
                                   ELSE IF f[k - 1] = Dst THEN Dst
                                   ELSE hop[f[k - 1]].channel.destination]
<1>. DEFINE Eq(f, n) == f = [k \in 0..n |-> IF k = 0 THEN u
                                             ELSE IF f[k - 1] = Dst THEN Dst
                                             ELSE hop[f[k - 1]].channel.destination]
            S == {n \in Nat : \E f \in [0..n -> Node] : Eq(f, n)}
<1>1. \A x \in Node : hop[x].channel.destination \in Node
    BY ChannelsOfGraph DEF SearchType, Hops, IsChannel
<1>2. 0 \in S
    <2>. DEFINE f == [k \in 0..0 |-> u]
    <2>1. f \in [0..0 -> Node] /\ Eq(f, 0)
        OBVIOUS
    <2>. QED
        BY <2>1
<1>3. ASSUME NEW n \in S PROVE n + 1 \in S
    <2>1. PICK f \in [0..n -> Node] : Eq(f, n)
        OBVIOUS
    <2>. DEFINE next == IF f[n] = Dst THEN Dst ELSE hop[f[n]].channel.destination
                g == [k \in 0..(n + 1) |-> IF k = n + 1 THEN next ELSE f[k]]
    <2>2. n \in Nat /\ f[n] \in Node
        OBVIOUS
    <2>3. next \in Node
        <3>1. Dst \in Node
            BY ChannelsOfGraph
        <3>. QED
            BY <1>1, <2>2, <3>1
    <2>. HIDE DEF next
    <2>4. g \in [0..(n + 1) -> Node] /\ g[n] = f[n]
        BY <2>2, <2>3
    <2>5. ASSUME NEW k \in 0..(n + 1)
          PROVE  g[k] = IF k = 0 THEN u ELSE IF g[k - 1] = Dst THEN Dst
                        ELSE hop[g[k - 1]].channel.destination
        <3>1. CASE k = n + 1
            <4>1. g[k] = next /\ g[k - 1] = f[n] /\ k # 0
                BY <2>2, <3>1
            <4>. HIDE DEF g
            <4>. QED
                BY <4>1 DEF next
        <3>2. CASE k # n + 1
            <4>1. k \in 0..n /\ g[k] = f[k]
                BY <2>2, <3>2
            <4>2. f[k] = IF k = 0 THEN u ELSE IF f[k - 1] = Dst THEN Dst
                         ELSE hop[f[k - 1]].channel.destination
                BY <2>1, <4>1
            <4>3. k # 0 => g[k - 1] = f[k - 1]
                BY <2>2, <4>1
            <4>. HIDE DEF g
            <4>. QED
                BY <4>1, <4>2, <4>3
        <3>. QED
            BY <3>1, <3>2
    <2>. HIDE DEF g
    <2>6. Eq(g, n + 1)
        <3>. DEFINE h == [k \in 0..(n + 1) |-> IF k = 0 THEN u ELSE IF g[k - 1] = Dst THEN Dst
                                               ELSE hop[g[k - 1]].channel.destination]
        <3>1. DOMAIN h = 0..(n + 1) /\ \A k \in 0..(n + 1) : h[k] = g[k]
            BY <2>5
        <3>2. g = [k \in 0..(n + 1) |-> g[k]] /\ h = [k \in 0..(n + 1) |-> h[k]]
            BY <2>4
        <3>. QED
            BY <2>4, <3>1, <3>2
    <2>. HIDE DEF Eq
    <2>7. n + 1 \in Nat /\ \E h \in [0..(n + 1) -> Node] : Eq(h, n + 1)
        BY <2>2, <2>4, <2>6
    <2>. QED
        BY <2>7
<1>4. S = Nat
    BY <1>2, <1>3, SetInduction
<1>. QED
    BY <1>4

LEMMA WalkIs ==
    ASSUME SearchType, NEW u \in Node
    PROVE  /\ Walk(u)[0] = u
           /\ \A k \in 1..Cardinality(Node) :
                Walk(u)[k] = IF Walk(u)[k - 1] = Dst THEN Dst ELSE Onward(Walk(u)[k - 1])
<1>. DEFINE N == Cardinality(Node)
<1>1. N \in Nat
    BY NodesCounted
<1>2. PICK f \in [0..N -> Node] :
          f = [k \in 0..N |-> IF k = 0 THEN u
                              ELSE IF f[k - 1] = Dst THEN Dst
                              ELSE hop[f[k - 1]].channel.destination]
    BY <1>1, WalkExists
<1>3. Walk(u) = [k \in 0..N |-> IF k = 0 THEN u
                                ELSE IF Walk(u)[k - 1] = Dst THEN Dst
                                ELSE hop[Walk(u)[k - 1]].channel.destination]
    BY <1>2 DEF Walk
<1>. HIDE DEF N
<1>4. \A k \in 0..N : Walk(u)[k] = IF k = 0 THEN u
                                   ELSE IF Walk(u)[k - 1] = Dst THEN Dst
                                   ELSE hop[Walk(u)[k - 1]].channel.destination
    BY <1>3
<1>. QED
    BY <1>1, <1>4 DEF N, Onward

\* A walk that visits no node of a set twice is no longer than the set, and when
\* it is as long it visits them all.
LEMMA NoneTwice ==
    ASSUME NEW f, NEW M \in Nat, NEW T, IsFiniteSet(T),
           \A k \in 0..M : f[k] \in T, \A j, k \in 0..M : f[j] = f[k] => j = k
    PROVE  /\ M + 1 <= Cardinality(T)
           /\ M + 1 = Cardinality(T) => \A x \in T : \E k \in 0..M : f[k] = x
<1>. DEFINE g == [k \in 0..M |-> f[k]]
<1>1. g \in Injection(0..M, T)
    BY DEF Injection, IsInjective
<1>2. Cardinality(0..M) = M + 1
    BY FS_Interval
<1>. HIDE DEF g
<1>3. Cardinality(0..M) <= Cardinality(T)
      /\ (Cardinality(0..M) = Cardinality(T) => g \in Surjection(0..M, T))
    BY <1>1, FS_Injection
<1>4. ASSUME g \in Surjection(0..M, T), NEW x \in T PROVE \E k \in 0..M : f[k] = x
    BY <1>4 DEF Surjection, g
<1>. QED
    BY <1>2, <1>3, <1>4

\* What is at k on the walk from u.
OnWalk(u, d, k) ==
    LET x == Walk(u)[k]
    IN  /\ x \in Node \ {Self} /\ Reached(x) /\ d[x] = d[u] - k
        /\ distance[x] <= distance[u]

\* The walk from a node goes down by one channel at a time, to Dst, and visits no
\* node twice: so it ends before the nodes do.
LEMMA WalkFacts ==
    ASSUME SearchInv, NEW d, Depths(d), NEW u \in Node, Reached(u), u # Self
    PROVE  /\ d[u] \in Nat /\ d[u] + 1 <= Cardinality(Node \ exclude)
           /\ \A k \in 0..d[u] : OnWalk(u, d, k) /\ (Walk(u)[k] = Dst <=> k = d[u])
           /\ \A k \in 1..d[u] : Walk(u)[k] = Onward(Walk(u)[k - 1])
           /\ \A j, k \in 0..d[u] : Walk(u)[j] = Walk(u)[k] => j = k
           /\ d[u] + 1 = Cardinality(Node \ exclude) =>
                \A x \in Node \ {Self} : distance[x] <= distance[u]
<1>. DEFINE N == Cardinality(Node)
            S == {k \in Nat : k <= d[u] /\ k <= N => OnWalk(u, d, k)}
<1>1. SearchType /\ N \in Nat
    BY NodesCounted DEF SearchInv
<1>2. d \in [Node -> Nat] /\ d[Dst] = 0 /\ Dst \in Node \ {Self}
    BY <1>1, ChannelsOfGraph DEF Depths
<1>3. \A x \in Node : distance[x] \in Nat
    BY <1>1, AmountsAssumption DEF SearchType
<1>4. Walk(u)[0] = u
    BY <1>1, WalkIs
<1>5. 0 \in S
    BY <1>2, <1>3, <1>4 DEF OnWalk
<1>6. ASSUME NEW x \in Node \ {Self}, Reached(x), d[x] > 0
      PROVE  /\ x # Dst /\ Onward(x) \in Node \ {Self} /\ Reached(Onward(x))
             /\ d[Onward(x)] = d[x] - 1 /\ distance[Onward(x)] <= distance[x]
    <2>1. x # Dst
        BY <1>2, <1>6
    <2>2. HopFits(x) /\ d[x] = d[Onward(x)] + 1
        BY <1>6, <2>1 DEF SearchInv, HopsFit, Depths
    <2>3. IsChannel(hop[x].channel) /\ Onward(x) \in Node
        BY <1>1, <2>2, ChannelsOfGraph DEF HopFits, Onward, IsChannel
    <2>4. d[Onward(x)] \in Nat /\ d[x] \in Nat
        BY <1>2, <2>3
    <2>5. Onward(x) # Self
        <3>1. CASE Onward(x) = Dst
            BY <1>2, <3>1
        <3>2. CASE Onward(x) # Dst
            BY <2>2, <2>3, <3>2 DEF SearchInv, HopsFit, HopFits, Settled
        <3>. QED
            BY <3>1, <3>2
    <2>6. distance[Onward(x)] <= distance[x]
        <3>. DEFINE fee == ComputeFee(hop[x].channel, Amount + distance[Onward(x)])
        <3>1. distance[Onward(x)] \in Nat /\ Amount + distance[Onward(x)] \in Nat
            BY <1>3, <2>3, AmountsAssumption
        <3>2. fee \in Nat /\ distance[x] = distance[Onward(x)] + fee
            BY <2>2, <2>3, <3>1, FeeIsNat DEF HopFits
        <3>. HIDE DEF fee
        <3>. QED
            BY <3>1, <3>2
    <2>. QED
        BY <2>1, <2>2, <2>3, <2>4, <2>5, <2>6 DEF HopFits, Settled
<1>7. ASSUME NEW k \in S PROVE k + 1 \in S
    <2>. SUFFICES ASSUME k + 1 <= d[u], k + 1 <= N PROVE OnWalk(u, d, k + 1)
        OBVIOUS
    <2>. DEFINE x == Walk(u)[k]
    <2>1. k \in Nat /\ d[u] \in Nat
        BY <1>2
    <2>2. OnWalk(u, d, k)
        BY <1>1, <2>1
    <2>3. x \in Node \ {Self} /\ Reached(x) /\ d[x] = d[u] - k /\ distance[x] <= distance[u]
        BY <2>2 DEF OnWalk
    <2>4. d[x] > 0
        BY <2>1, <2>3
    <2>5. k + 1 \in 1..Cardinality(Node) /\ (k + 1) - 1 = k
        BY <1>1, <2>1
    <2>6. Walk(u)[k + 1] = Onward(x)
        BY <1>1, <1>6, <2>3, <2>4, <2>5, WalkIs
    <2>. HIDE DEF x
    <2>7. /\ Onward(x) \in Node \ {Self} /\ Reached(Onward(x))
          /\ d[Onward(x)] = d[x] - 1 /\ distance[Onward(x)] <= distance[x]
        BY <1>6, <2>3, <2>4
    <2>8. d[Onward(x)] = d[u] - (k + 1) /\ distance[Onward(x)] <= distance[u]
        BY <1>3, <2>1, <2>3, <2>7
    <2>. QED
        BY <2>6, <2>7, <2>8 DEF OnWalk
<1>8. S = Nat
    <2>. HIDE DEF S
    <2>1. S \in SUBSET Nat
        BY DEF S
    <2>. QED
        BY <1>5, <1>7, <2>1, SetInduction
<1>10. ASSUME NEW M \in Nat, M <= d[u], M <= N
       PROVE  M + 1 <= Cardinality(Node \ exclude)
    <2>1. \A k \in 0..M : OnWalk(u, d, k)
        BY <1>1, <1>2, <1>8, <1>10
    <2>2. \A k \in 0..M : Walk(u)[k] \in Node \ exclude
        BY <2>1 DEF OnWalk, exclude
    <2>3. \A j, k \in 0..M : Walk(u)[j] = Walk(u)[k] => j = k
        BY <1>2, <2>1 DEF OnWalk
    <2>. QED
        BY <2>2, <2>3, NodesCounted, NoneTwice
<1>11. d[u] <= N
    <2>. SUFFICES ASSUME N < d[u] PROVE FALSE
        BY <1>1, <1>2
    <2>1. N + 1 <= Cardinality(Node \ exclude)
        BY <1>1, <1>2, <1>10
    <2>. QED
        BY <2>1, NodesCounted
<1>12. d[u] \in Nat /\ d[u] + 1 <= Cardinality(Node \ exclude)
    BY <1>2, <1>10, <1>11
<1>13. \A k \in 0..d[u] : OnWalk(u, d, k)
    BY <1>1, <1>2, <1>8, <1>11
<1>14. ASSUME NEW k \in 0..d[u] PROVE Walk(u)[k] = Dst <=> k = d[u]
    <2>. DEFINE x == Walk(u)[k]
    <2>1. x \in Node \ {Self} /\ Reached(x) /\ d[x] = d[u] - k
        BY <1>13 DEF OnWalk
    <2>2. x = Dst => k = d[u]
        BY <1>2, <2>1
    <2>3. ASSUME k = d[u], x # Dst PROVE FALSE
        <3>1. d[x] = 0
            BY <1>2, <2>1, <2>3
        <3>2. d[x] = d[Onward(x)] + 1 /\ HopFits(x)
            BY <2>1, <2>3 DEF Depths, SearchInv, HopsFit
        <3>3. Onward(x) \in Node
            BY <1>1, <3>2, ChannelsOfGraph DEF HopFits, Onward, IsChannel
        <3>. HIDE DEF x
        <3>. QED
            BY <1>2, <3>1, <3>2, <3>3
    <2>. QED
        BY <2>2, <2>3
<1>15. \A k \in 1..d[u] : Walk(u)[k] = Onward(Walk(u)[k - 1])
    <2>1. TAKE k \in 1..d[u]
    <2>2. k - 1 \in 0..d[u] /\ k - 1 # d[u] /\ k \in 1..N
        BY <1>1, <1>2, <1>11
    <2>3. Walk(u)[k - 1] # Dst
        BY <1>14, <2>2
    <2>. QED
        BY <1>1, <2>2, <2>3, WalkIs
<1>16. \A j, k \in 0..d[u] : Walk(u)[j] = Walk(u)[k] => j = k
    BY <1>2, <1>13 DEF OnWalk
<1>17. ASSUME d[u] + 1 = Cardinality(Node \ exclude), NEW x \in Node \ {Self}
       PROVE  distance[x] <= distance[u]
    <2>1. \A k \in 0..d[u] : Walk(u)[k] \in Node \ exclude
        BY <1>13 DEF OnWalk, exclude
    <2>2. \A y \in Node \ exclude : \E k \in 0..d[u] : Walk(u)[k] = y
        BY <1>12, <1>16, <1>17, <2>1, NodesCounted, NoneTwice
    <2>3. PICK k \in 0..d[u] : Walk(u)[k] = x
        BY <2>2 DEF exclude
    <2>. QED
        BY <1>13, <2>3 DEF OnWalk
<1>. QED
    BY <1>12, <1>13, <1>14, <1>15, <1>16, <1>17

\* The promise about the hops follows from the invariant.
LEMMA HopsLead == SearchInv => HopsFormPaths
<1>. SUFFICES ASSUME SearchInv, NEW u \in Known \cup {Dst}, distance[u] < MaxDistance
              PROVE  \E n \in 0..(Cardinality(Node) - 1) :
                        /\ Walk(u)[n] = Dst
                        /\ \A k \in 0..n - 1 : Walk(u)[k] # Dst
                        /\ n <= Limit
                        /\ \A k \in 0..n - 1 :
                            hop[Walk(u)[k]].amount = Amount + distance[Walk(u)[k]]
    BY DEF HopsFormPaths
<1>1. SearchType
    BY DEF SearchInv
<1>2. u \in Node /\ Reached(u) /\ Dst # Self
    BY <1>1, ChannelsOfGraph DEF Reached, Known, IsChannel
<1>3. PICK d : Depths(d)
    BY DEF SearchInv
<1>4. u # Self
    BY <1>2 DEF SearchInv, HopsFit, HopFits
<1>5. /\ d[u] \in Nat /\ d[u] + 1 <= Cardinality(Node \ exclude)
      /\ \A k \in 0..d[u] : OnWalk(u, d, k) /\ (Walk(u)[k] = Dst <=> k = d[u])
    BY <1>2, <1>3, <1>4, WalkFacts
<1>6. d[u] \in 0..(Cardinality(Node) - 1)
    BY <1>5, NodesCounted
<1>7. d[u] <= Limit
    <2>1. Limit \in Nat
        BY <1>1, AmountsAssumption DEF SearchType, Limit
    <2>2. CASE u = Dst
        BY <1>3, <2>1, <2>2 DEF Depths
    <2>3. CASE u # Dst
        BY <1>2, <1>3, <2>3 DEF Depths
    <2>. QED
        BY <2>2, <2>3
<1>8. \A k \in 0..d[u] - 1 : k \in 0..d[u] /\ k # d[u]
    BY <1>5
<1>9. \A k \in 0..d[u] - 1 :
          Walk(u)[k] # Dst /\ hop[Walk(u)[k]].amount = Amount + distance[Walk(u)[k]]
    BY <1>5, <1>8 DEF OnWalk, SearchInv, HopsFit, HopFits
<1>10. Walk(u)[d[u]] = Dst
    <2>1. d[u] \in 0..d[u]
        BY <1>5
    <2>. QED
        BY <1>5, <2>1
<1>. QED
    BY <1>6, <1>7, <1>9, <1>10

---------------------------------------------------------------------------
(* The route *)

\* A quotient rounds down.
LEMMA Quotient ==
    ASSUME NEW x \in Nat, NEW a \in Nat \ {0}
    PROVE  x \div a \in Nat /\ (x \div a) * a <= x /\ x < ((x \div a) + 1) * a
OBVIOUS

LEMMA QuotientBound ==
    ASSUME NEW x \in Nat, NEW a \in Nat \ {0}, NEW m \in Nat
    PROVE  x \div a > m <=> ~(x < (m + 1) * a)
<1>. DEFINE q == x \div a
<1>1. q \in Nat /\ q * a <= x /\ x < (q + 1) * a
    BY Quotient
<1>. HIDE DEF q
<1>2. q <= m => (q + 1) * a <= (m + 1) * a
    BY <1>1, Products
<1>3. q > m => (m + 1) * a <= q * a
    BY <1>1, Products
<1>4. q * a \in Nat /\ (q + 1) * a \in Nat /\ (m + 1) * a \in Nat
    BY <1>1, Products
<1>. QED
    BY <1>1, <1>2, <1>3, <1>4 DEF q

\* The channels of the node before and after those that were found.
LEMMA WholeIs ==
    ASSUME NEW n \in Nat, NEW f, route = [k \in 1..n |-> f[k]]
    PROVE  /\ Len(route) = n /\ Len(Whole) = n + 2
           /\ Whole[1] = OutChannel /\ Whole[n + 2] = InChannel
           /\ \A k \in 2..(n + 1) : Whole[k] = f[k - 1].channel
<1>. DEFINE mid == [k \in 1..n |-> f[k].channel]
<1>1. Len(route) = n /\ [k \in 1..Len(route) |-> route[k].channel] = mid
    OBVIOUS
<1>2. Whole = <<OutChannel>> \o mid \o <<InChannel>>
    BY <1>1 DEF Whole
<1>3. mid \in Seq({f[k].channel : k \in 1..n}) /\ Len(mid) = n
    OBVIOUS
<1>4. \A k \in 1..n : mid[k] = f[k].channel
    OBVIOUS
<1>. HIDE DEF mid
<1>. QED
    BY <1>1, <1>2, <1>3, <1>4

\* What getRoute makes of the hops, from the last one on.
LEMMA RecomputeIs ==
    ASSUME NEW cs, NEW n \in Nat \ {0}, Len(cs) = n, \A k \in 1..n : IsChannel(cs[k])
    PROVE  LET r == Recompute(cs)
           IN  /\ Len(r) = n
               /\ \A k \in 1..n : r[k].channel = cs[k] /\ r[k].amount \in Nat
               /\ r[n].amount = Amount
               /\ \A k \in 1..(n - 1) :
                    r[k].amount = r[k + 1].amount + ComputeFee(cs[k + 1], r[k + 1].amount)
               /\ r[1].amount >= Amount
<1>. DEFINE Hop(f, k) == IF k = n
                         THEN [channel |-> cs[n], amount |-> Amount, delay |-> INITIAL_DELAY]
                         ELSE [channel |-> cs[k],
                               amount |-> f[k + 1].amount
                                            + ComputeFee(cs[k + 1], f[k + 1].amount),
                               delay |-> f[k + 1].delay + cs[k + 1].delay]
            From(m) == \E f : f = [k \in m..n |-> Hop(f, k)]
            S == {i \in Nat : i < n => From(n - i)}
<1>1. From(n)
    <2>. DEFINE f == [k \in n..n |-> Hop(<<>>, k)]
    <2>1. f = [k \in n..n |-> Hop(f, k)]
        OBVIOUS
    <2>. QED
        BY <2>1
<1>2. ASSUME NEW m \in 2..n, From(m) PROVE From(m - 1)
    <2>1. PICK f : f = [k \in m..n |-> Hop(f, k)]
        BY <1>2
    <2>. DEFINE g == [k \in (m - 1)..n |-> IF k = m - 1 THEN Hop(f, k) ELSE f[k]]
    <2>. HIDE DEF Hop
    <2>2. \A k \in m..n : f[k] = Hop(f, k)
        BY <2>1
    <2>3. \A k \in (m - 1)..n : g[k] = Hop(f, k) /\ (k # n => g[k + 1] = f[k + 1])
        BY <2>2
    <2>4. DOMAIN g = (m - 1)..n /\ g = [k \in (m - 1)..n |-> g[k]]
        OBVIOUS
    <2>. HIDE DEF g
    <2>5. \A k \in (m - 1)..n : g[k] = Hop(g, k)
        BY <2>3 DEF Hop
    <2>6. g = [k \in (m - 1)..n |-> Hop(g, k)]
        BY <2>4, <2>5
    <2>. QED
        BY <2>6
<1>. HIDE DEF From
<1>3. From(1)
    <2>1. 0 \in S
        <3>1. n - 0 = n
            OBVIOUS
        <3>. QED
            BY <1>1, <3>1
    <2>2. ASSUME NEW i \in S PROVE i + 1 \in S
        <3>. SUFFICES ASSUME i + 1 < n PROVE From(n - (i + 1))
            OBVIOUS
        <3>1. n - i \in 2..n /\ n - (i + 1) = (n - i) - 1 /\ From(n - i)
            OBVIOUS
        <3>2. From((n - i) - 1)
            BY <1>2, <3>1
        <3>. QED
            BY <3>1, <3>2
    <2>3. S = Nat
        <3>. HIDE DEF S
        <3>1. S \in SUBSET Nat
            BY DEF S
        <3>. QED
            BY <2>1, <2>2, <3>1, SetInduction
    <2>4. n - 1 \in Nat /\ n - 1 < n /\ n - (n - 1) = 1
        OBVIOUS
    <2>5. n - 1 \in S
        BY <2>3, <2>4
    <2>. QED
        BY <2>4, <2>5
<1>. DEFINE r == Recompute(cs)
<1>4. r = [k \in 1..n |-> Hop(r, k)]
    <2>1. PICK f : f = [k \in 1..n |-> Hop(f, k)]
        BY <1>3 DEF From
    <2>. QED
        BY <2>1 DEF Recompute
<1>. HIDE DEF r
<1>5. Len(r) = n /\ \A k \in 1..n : r[k] = Hop(r, k)
    BY <1>4
<1>6. \A k \in 1..n : r[k].channel = cs[k]
    BY <1>5
<1>7. r[n].amount = Amount
    BY <1>5
<1>8. ASSUME NEW k \in 1..(n - 1)
      PROVE  r[k].amount = r[k + 1].amount + ComputeFee(cs[k + 1], r[k + 1].amount)
    BY <1>5
<1>. HIDE DEF Hop
<1>9. \A k \in 1..n : r[k].amount \in Nat /\ r[k].amount >= Amount
    <2>. DEFINE T == {i \in Nat : i < n => r[n - i].amount \in Nat /\ r[n - i].amount >= Amount}
    <2>1. 0 \in T
        BY <1>7, AmountsAssumption
    <2>2. ASSUME NEW i \in T PROVE i + 1 \in T
        <3>. SUFFICES ASSUME i + 1 < n
                      PROVE  r[n - (i + 1)].amount \in Nat /\ r[n - (i + 1)].amount >= Amount
            OBVIOUS
        <3>. DEFINE k == n - (i + 1)
        <3>1. k \in 1..(n - 1) /\ k + 1 = n - i /\ k + 1 \in 1..n
            OBVIOUS
        <3>2. r[k + 1].amount \in Nat /\ r[k + 1].amount >= Amount
            BY <3>1
        <3>3. ComputeFee(cs[k + 1], r[k + 1].amount) \in Nat
            BY <3>1, <3>2, FeeIsNat
        <3>. HIDE DEF k
        <3>4. r[k].amount = r[k + 1].amount + ComputeFee(cs[k + 1], r[k + 1].amount)
            BY <1>8, <3>1
        <3>5. r[k].amount \in Nat /\ r[k].amount >= Amount
            BY <3>2, <3>3, <3>4, AmountsAssumption
        <3>. QED
            BY <3>5 DEF k
    <2>3. T = Nat
        <3>. HIDE DEF T
        <3>1. T \in SUBSET Nat
            BY DEF T
        <3>. QED
            BY <2>1, <2>2, <3>1, SetInduction
    <2>4. ASSUME NEW k \in 1..n PROVE r[k].amount \in Nat /\ r[k].amount >= Amount
        <3>1. n - k \in Nat /\ n - k < n /\ n - (n - k) = k
            OBVIOUS
        <3>2. n - k \in T
            BY <2>3, <3>1
        <3>. QED
            BY <3>1, <3>2
    <2>. QED
        BY <2>4
<1>. QED
    BY <1>5, <1>6, <1>7, <1>8, <1>9 DEF r

\* The hops that BuildHops collects are a path.
LEMMA HopsAreCollected ==
    ASSUME SearchInv, BuildHops
    PROVE  HopsCollected'
<1>1. SearchType /\ Reached(Src) /\ Src \in Node \ {Self}
    BY ChannelsOfGraph, AmountsAssumption DEF SearchInv, SearchType, BuildHops, Reached
<1>2. PICK d : Depths(d)
    BY DEF SearchInv
<1>3. /\ d[Src] \in Nat /\ d[Src] + 1 <= Cardinality(Node \ exclude)
      /\ \A k \in 0..d[Src] : OnWalk(Src, d, k) /\ (Walk(Src)[k] = Dst <=> k = d[Src])
      /\ \A k \in 1..d[Src] : Walk(Src)[k] = Onward(Walk(Src)[k - 1])
      /\ \A j, k \in 0..d[Src] : Walk(Src)[j] = Walk(Src)[k] => j = k
    BY <1>1, <1>2, WalkFacts
<1>4. PICK n \in 0..Cardinality(Node) :
          /\ Walk(Src)[n] = Dst /\ \A k \in 0..n - 1 : Walk(Src)[k] # Dst
          /\ route' = [k \in 1..n |-> hop[Walk(Src)[k - 1]]]
    BY DEF BuildHops
<1>5. n = d[Src] /\ n \in Nat
    <2>1. n \in Nat
        BY NodesCounted
    <2>2. ~(n < d[Src])
        BY <1>3, <1>4, <2>1
    <2>3. ~(d[Src] < n)
        <3>. SUFFICES ASSUME d[Src] < n PROVE FALSE
            OBVIOUS
        <3>1. d[Src] \in 0..n - 1 /\ d[Src] \in 0..d[Src]
            BY <1>3, <2>1
        <3>. QED
            BY <1>3, <1>4, <3>1
    <2>. QED
        BY <1>3, <2>1, <2>2, <2>3
<1>5a. PICK p : p = [k \in 0..n |-> Walk(Src)[k]]
    OBVIOUS
<1>6. PathOf(p, n)
    <2>1. \A k \in 0..n : Walk(Src)[k] \in Node \ {Self} /\ Reached(Walk(Src)[k])
        BY <1>3, <1>5 DEF OnWalk
    <2>2. p \in [0..n -> Node \ {Self}] /\ \A j, k \in 0..n : p[j] = p[k] => j = k
        BY <1>3, <1>5, <1>5a, <2>1
    <2>3. p[0] = Src /\ p[n] = Dst
        BY <1>1, <1>4, <1>5, <1>5a, WalkIs
    <2>4. ASSUME NEW k \in 1..n
          PROVE  /\ hop[p[k - 1]].channel \in graph
                 /\ hop[p[k - 1]].channel.source = p[k - 1]
                 /\ hop[p[k - 1]].channel.destination = p[k]
        <3>1. k - 1 \in 0..n /\ k - 1 # n /\ k \in 0..n
            BY <1>5
        <3>2. p[k - 1] = Walk(Src)[k - 1] /\ p[k] = Walk(Src)[k]
            BY <1>5a, <3>1
        <3>3. p[k - 1] # Dst /\ p[k] = Onward(p[k - 1])
            BY <1>3, <1>5, <3>1, <3>2
        <3>4. HopFits(p[k - 1])
            BY <2>1, <3>1, <3>2, <3>3 DEF SearchInv, HopsFit
        <3>. QED
            BY <3>3, <3>4 DEF HopFits, Onward
    <2>. QED
        BY <2>2, <2>3, <2>4 DEF PathOf
<1>7. n <= Limit
    <2>1. Limit \in Nat
        BY <1>1, AmountsAssumption DEF SearchType, Limit
    <2>2. CASE Src = Dst
        BY <1>2, <1>5, <2>1, <2>2 DEF Depths
    <2>3. CASE Src # Dst
        BY <1>1, <1>2, <1>5, <2>3 DEF Depths
    <2>. QED
        BY <2>2, <2>3
<1>8. route' = [k \in 1..n |-> hop[p[k - 1]]]
    <2>1. \A k \in 1..n : p[k - 1] = Walk(Src)[k - 1]
        BY <1>5, <1>5a
    <2>. QED
        BY <1>4, <2>1
<1>9. UNCHANGED <<OutChannel, InChannel, graph, maxHops, hop>>
    BY DEF BuildHops, input
<1>10. PathOf(p, n)' /\ Limit' = Limit
    BY <1>6, <1>9 DEF PathOf, Src, Dst, Limit
<1>. QED
    BY <1>5, <1>7, <1>8, <1>9, <1>10 DEF HopsCollected

\* What BuildRoute makes of such a path.
LEMMA RouteIsBuilt ==
    ASSUME SearchInv, HopsCollected, BuildRoute
    PROVE  RouteIsCircle' /\ FeesAreCovered'
<1>1. SearchType /\ route # <<>> /\ outcome = "hops"
      /\ route' = Recompute(Whole)
      /\ outcome' = (IF FeePPM(route') > MaxPPM THEN "expensive" ELSE "found")
      /\ UNCHANGED <<OutChannel, InChannel, maxHops>>
    BY DEF BuildRoute, SearchInv, input
<1>2a. PICK n \in Nat : \E p : /\ PathOf(p, n) /\ n <= Limit
                               /\ route = [k \in 1..n |-> hop[p[k - 1]]]
    BY <1>1 DEF HopsCollected
<1>2. PICK p : /\ PathOf(p, n) /\ n <= Limit
               /\ route = [k \in 1..n |-> hop[p[k - 1]]]
    BY <1>2a
<1>. DEFINE cs == Whole
            r == Recompute(Whole)
            f == [k \in 1..n |-> hop[p[k - 1]]]
<1>3. n > 0
    <2>1. \A g : [k \in 1..0 |-> g[k]] = <<>>
        OBVIOUS
    <2>2. n = 0 => route = [k \in 1..0 |-> f[k]]
        BY <1>2
    <2>. QED
        BY <1>1, <2>1, <2>2
<1>4. /\ Len(cs) = n + 2 /\ cs[1] = OutChannel /\ cs[n + 2] = InChannel
      /\ \A k \in 2..(n + 1) : cs[k] = f[k - 1].channel
    <2>1. route = [k \in 1..n |-> f[k]]
        BY <1>2
    <2>. HIDE DEF f
    <2>. QED
        BY <2>1, WholeIs
<1>5. \A k \in 2..(n + 1) : cs[k] = hop[p[k - 2]].channel
    <2>1. \A k \in 2..(n + 1) : k - 1 \in 1..n /\ (k - 1) - 1 = k - 2
        OBVIOUS
    <2>2. \A k \in 1..n : f[k] = hop[p[k - 1]]
        OBVIOUS
    <2>. HIDE DEF f, cs
    <2>. QED
        BY <1>4, <2>1, <2>2
<1>. HIDE DEF cs, f
<1>6. \A k \in 2..(n + 1) : /\ cs[k] \in graph /\ cs[k].source = p[k - 2]
                            /\ cs[k].destination = p[k - 1]
    <2>1. \A k \in 2..(n + 1) : k - 1 \in 1..n /\ (k - 1) - 1 = k - 2
        OBVIOUS
    <2>. QED
        BY <1>2, <1>5, <2>1 DEF PathOf
<1>7. IsChannel(OutChannel) /\ IsChannel(InChannel) /\ \A c \in graph : IsChannel(c)
    BY <1>1, ChannelsOfGraph
<1>8. \A k \in 1..(n + 2) : IsChannel(cs[k])
    <2>1. \A k \in 1..(n + 2) : k = 1 \/ k = n + 2 \/ k \in 2..(n + 1)
        OBVIOUS
    <2>. QED
        BY <1>4, <1>6, <1>7, <2>1
<1>9. /\ Len(r) = n + 2
      /\ \A k \in 1..(n + 2) : r[k].channel = cs[k] /\ r[k].amount \in Nat
      /\ r[n + 2].amount = Amount
      /\ \A k \in 1..(n + 1) :
            r[k].amount = r[k + 1].amount + ComputeFee(cs[k + 1], r[k + 1].amount)
      /\ r[1].amount >= Amount
    <2>. DEFINE L == n + 2
    <2>1. L \in Nat \ {0} /\ Len(cs) = L /\ \A k \in 1..L : IsChannel(cs[k])
        BY <1>4, <1>8
    <2>2. L - 1 = n + 1
        OBVIOUS
    <2>. HIDE DEF L
    <2>3. /\ Len(r) = L
          /\ \A k \in 1..L : r[k].channel = cs[k] /\ r[k].amount \in Nat
          /\ r[L].amount = Amount
          /\ \A k \in 1..(L - 1) :
                r[k].amount = r[k + 1].amount + ComputeFee(cs[k + 1], r[k + 1].amount)
          /\ r[1].amount >= Amount
        BY <2>1, RecomputeIs DEF cs
    <2>. HIDE DEF r
    <2>. QED
        BY <2>2, <2>3 DEF L
<1>. HIDE DEF r
<1>10. route' = r
    BY <1>1 DEF r
<1>11. \A k \in 1..(n + 1) : cs[k].destination = p[k - 1]
    <2>1. \A k \in 1..(n + 1) : k = 1 \/ k \in 2..(n + 1)
        OBVIOUS
    <2>2. OutChannel.destination = p[0]
        BY <1>2 DEF PathOf, Src
    <2>. QED
        BY <1>4, <1>6, <2>1, <2>2
<1>12. cs[n + 2].destination = Self
    BY <1>1, <1>4, NodesAssumption DEF SearchType
<1>13. RouteIsCircle'
    <2>1. n + 2 <= maxHops
        BY <1>1, <1>2, AmountsAssumption DEF SearchType, Limit
    <2>2. r[1].channel = OutChannel /\ r[n + 2].channel = InChannel
        BY <1>4, <1>9
    <2>3. ASSUME NEW k \in 1..(n + 1)
          PROVE  r[k].channel.destination = r[k + 1].channel.source
        <3>1. r[k].channel = cs[k] /\ r[k + 1].channel = cs[k + 1]
            BY <1>9
        <3>2. cs[k + 1].source = p[k - 1]
            <4>1. CASE k = n + 1
                BY <1>2, <1>4, <4>1 DEF PathOf, Dst
            <4>2. CASE k # n + 1
                <5>1. k + 1 \in 2..(n + 1) /\ (k + 1) - 2 = k - 1
                    BY <4>2
                <5>. QED
                    BY <1>6, <5>1
            <4>. QED
                BY <4>1, <4>2
        <3>. QED
            BY <1>11, <3>1, <3>2
    <2>4. ASSUME NEW j \in 1..(n + 2), NEW k \in 1..(n + 2),
                 r[j].channel.destination = r[k].channel.destination
          PROVE  j = k
        <3>1. cs[j].destination = cs[k].destination
            BY <1>9, <2>4
        <3>2. ASSUME NEW i \in 1..(n + 1) PROVE cs[i].destination # Self /\ i - 1 \in 0..n
            <4>1. i - 1 \in 0..n
                OBVIOUS
            <4>2. p[i - 1] # Self
                BY <1>2, <4>1 DEF PathOf
            <4>. QED
                BY <1>11, <4>1, <4>2
        <3>3. CASE j \in 1..(n + 1) /\ k \in 1..(n + 1)
            <4>1. p[j - 1] = p[k - 1] /\ j - 1 \in 0..n /\ k - 1 \in 0..n
                BY <1>11, <3>1, <3>2, <3>3
            <4>2. j - 1 = k - 1
                BY <1>2, <4>1 DEF PathOf
            <4>. QED
                BY <4>2
        <3>4. CASE j = n + 2 \/ k = n + 2
            BY <1>12, <3>1, <3>2, <3>4
        <3>. QED
            BY <3>3, <3>4
    <2>5. (n + 2) - 1 = n + 1
        OBVIOUS
    <2>. QED
        BY <1>1, <1>9, <1>10, <2>1, <2>2, <2>3, <2>4, <2>5 DEF RouteIsCircle
<1>14. FeesAreCovered'
    <2>. DEFINE paid == r[1].amount - Amount
    <2>1. paid \in Nat /\ paid * 1000000 \in Nat
        BY <1>9, AmountsAssumption
    <2>2. FeePPM(r) = (paid * 1000000) \div Amount
        BY DEF FeePPM
    <2>. HIDE DEF paid
    <2>3. FeePPM(r) > MaxPPM <=> ~(paid * 1000000 < (MaxPPM + 1) * Amount)
        <3>. DEFINE x == paid * 1000000
        <3>1. x \in Nat
            BY <2>1
        <3>. HIDE DEF x
        <3>2. x \div Amount > MaxPPM <=> ~(x < (MaxPPM + 1) * Amount)
            BY <3>1, AmountsAssumption, QuotientBound
        <3>. QED
            BY <2>2, <3>2 DEF x
    <2>4. outcome' = "found" <=> paid * 1000000 < (MaxPPM + 1) * Amount
        BY <1>1, <1>10, <2>3
    <2>5. ASSUME NEW k \in 1..(n + 1)
          PROVE  r[k].amount - r[k + 1].amount
                    = ComputeFee(r[k + 1].channel, r[k + 1].amount)
        <3>1. k + 1 \in 1..(n + 2) /\ k \in 1..(n + 2)
            OBVIOUS
        <3>2. r[k + 1].amount \in Nat /\ r[k + 1].channel = cs[k + 1]
            BY <1>9, <3>1
        <3>3. ComputeFee(cs[k + 1], r[k + 1].amount) \in Nat
            BY <1>8, <3>1, <3>2, FeeIsNat
        <3>4. r[k].amount = r[k + 1].amount + ComputeFee(cs[k + 1], r[k + 1].amount)
            BY <1>9
        <3>. QED
            BY <3>2, <3>3, <3>4
    <2>6. (n + 2) - 1 = n + 1
        OBVIOUS
    <2>. QED
        BY <1>9, <1>10, <2>4, <2>5, <2>6 DEF FeesAreCovered, paid
<1>. QED
    BY <1>13, <1>14

---------------------------------------------------------------------------
(* Theorems *)

RouteInv ==
    SearchInv /\ HopsCollected /\ RouteIsCircle /\ FeesAreCovered /\ OnlySamePeerPanics

\* The invariant of the search and of the route holds in every state.
THEOREM RouteInvariance == SearchSpec => []RouteInv
<1>1. SearchInit => RouteInv
    BY SearchStarts 
       DEF SearchInit, RouteInv, HopsCollected, RouteIsCircle, FeesAreCovered, OnlySamePeerPanics
<1>2. RouteInv /\ [SearchNext]_searchVars => RouteInv'
    <2>. SUFFICES ASSUME RouteInv, [SearchNext]_searchVars PROVE RouteInv'
        OBVIOUS
    <2>1. SearchInv'
        BY SearchStepKeeps DEF RouteInv
    <2>2. CASE BuildHops
        BY <2>1, <2>2, HopsAreCollected
           DEF RouteInv, BuildHops, RouteIsCircle, FeesAreCovered, OnlySamePeerPanics
    <2>3. CASE BuildRoute
        <3>1. /\ outcome = "hops" /\ route # <<>> /\ outcome' \notin {"hops", "panic"}
              /\ Src' = Src /\ Dst' = Dst
            BY <2>3 DEF BuildRoute, input, Src, Dst
        <3>2. PICK n \in Nat :
                \E p : PathOf(p, n) /\ route = [k \in 1..n |-> hop[p[k - 1]]]
            BY <3>1 DEF RouteInv, HopsCollected
        <3>3. n # 0
            BY <3>1, <3>2
        <3>4. Src # Dst
            BY <3>2, <3>3 DEF PathOf
        <3>. QED
            BY <2>1, <2>3, <3>1, <3>4, RouteIsBuilt
               DEF RouteInv, HopsCollected, OnlySamePeerPanics
    <2>4. CASE NoRoute \/ \E item \in pq : SkipItem(item) \/ Expand(item)
        <3>1. outcome' \notin {"hops", "expensive", "found", "panic"}
            BY <2>4 DEF NoRoute, SkipItem, Expand
        <3>. QED
            BY <2>1, <3>1
               DEF RouteInv, HopsCollected, RouteIsCircle, FeesAreCovered, OnlySamePeerPanics
    <2>5. CASE PrependPanics
        <3>1. /\ outcome = "hops" /\ route = <<>> /\ outcome' = "panic"
              /\ Src' = Src /\ Dst' = Dst
            BY <2>5 DEF PrependPanics, input, Src, Dst
        <3>2. PICK n \in Nat : \E p : PathOf(p, n) /\ route = [k \in 1..n |-> hop[p[k - 1]]]
            BY <3>1 DEF RouteInv, HopsCollected
        <3>3. n = 0
            BY <3>1, <3>2
        <3>4. Src = Dst
            BY <3>2, <3>3 DEF PathOf
        <3>. QED
            BY <2>1, <3>1, <3>4
               DEF RouteInv, HopsCollected, RouteIsCircle, FeesAreCovered, OnlySamePeerPanics
    <2>6. CASE UNCHANGED searchVars
        <3>. USE <2>6 DEF searchVars
        <3>1. HopsCollected'
            <4>1. Limit' = Limit /\ \A n, p : PathOf(p, n)' <=> PathOf(p, n)
                BY DEF PathOf, Src, Dst, Limit
            <4>2. HopsCollected
                BY DEF RouteInv
            <4>. QED
                BY <4>1, <4>2 DEF HopsCollected
        <3>2. RouteIsCircle'
            BY DEF RouteInv, RouteIsCircle
        <3>3. FeesAreCovered'
            BY DEF RouteInv, FeesAreCovered, ComputeFee
        <3>4. OnlySamePeerPanics'
            BY DEF RouteInv, OnlySamePeerPanics, Src, Dst
        <3>. QED
            BY <2>1, <3>1, <3>2, <3>3, <3>4 DEF RouteInv
    <2>. QED
        BY <2>2, <2>3, <2>4, <2>5, <2>6 DEF SearchNext
<1>. QED
    BY <1>1, <1>2, PTL DEF SearchSpec

\* The hops of the nodes form paths: from any node reached they lead to the
\* destination without a cycle, over at most the limit of channels, and cost the
\* distance of the node, though they are stored node by node and overwritten.
THEOREM HopsAlwaysFormPaths == SearchSpec => []HopsFormPaths
<1>1. RouteInv => HopsFormPaths
    BY HopsLead DEF RouteInv
<1>. QED
    BY <1>1, RouteInvariance, PTL

\* The route of getRoute is a circle of at most maxhops adjacent channels from our
\* node to our node that visits no node twice.
THEOREM RouteIsAlwaysCircle == SearchSpec => []RouteIsCircle
<1>1. RouteInv => RouteIsCircle
    BY DEF RouteInv
<1>. QED
    BY <1>1, RouteInvariance, PTL

\* Every node of the route receives what it forwards and the fee of the channel it
\* forwards over, and the price check is about the fees that are really paid.
THEOREM FeesAreAlwaysCovered == SearchSpec => []FeesAreCovered
<1>1. RouteInv => FeesAreCovered
    BY DEF RouteInv
<1>. QED
    BY <1>1, RouteInvariance, PTL

\* Prepend reads the first hop of a route that has none only where both channels of
\* the node lead to the same peer: no other input makes getRoute panic, and no
\* route is ever returned on that one.
THEOREM PanicNeedsSamePeer == SearchSpec => []OnlySamePeerPanics
<1>1. RouteInv => OnlySamePeerPanics
    BY DEF RouteInv
<1>. QED
    BY <1>1, RouteInvariance, PTL

---------------------------------------------------------------------------
(* The reference for the cheapest route *)

First == [u \in Node |-> IF u = Dst THEN Amount ELSE Infinite]

\* What u may have to send when the nodes it may go on to have to send b.
Options(b, u) ==
    {b[u]} \cup {b[c.destination] + ComputeFee(c, b[c.destination]) :
                    c \in {e \in graph : /\ e.source = u /\ u \notin exclude
                                         /\ b[e.destination] # Infinite
                                         /\ CanForward(e, b[e.destination])}}

LEMMA LeastIs ==
    ASSUME NEW S \in SUBSET Nat, S # {}
    PROVE  Least(S) \in S /\ \A y \in S : Least(S) <= y
BY LeastNumber DEF Least

\* The table of amounts exists, so that BestUpTo is what its equation says.
LEMMA BestIs ==
    /\ BestUpTo[0] = First
    /\ \A k \in 1..Cardinality(Node) :
        BestUpTo[k] = [u \in Node |-> Least(Options(BestUpTo[k - 1], u))]
<1>. DEFINE N == Cardinality(Node)
            Row(f, k) == IF k = 0 THEN First
                         ELSE [u \in Node |-> Least(Options(f[k - 1], u))]
            Table(n) == \E f : f = [k \in 0..n |-> Row(f, k)]
            S == {n \in Nat : Table(n)}
<1>1. Table(0)
    <2>. DEFINE f == [k \in 0..0 |-> Row(<<>>, k)]
    <2>1. f = [k \in 0..0 |-> Row(f, k)]
        OBVIOUS
    <2>. QED
        BY <2>1
<1>2. ASSUME NEW n \in Nat, Table(n) PROVE Table(n + 1)
    <2>1. PICK f : f = [k \in 0..n |-> Row(f, k)]
        BY <1>2
    <2>. DEFINE g == [k \in 0..(n + 1) |-> IF k = n + 1 THEN Row(f, k) ELSE f[k]]
    <2>. HIDE DEF Row
    <2>2. \A k \in 0..n : f[k] = Row(f, k)
        BY <2>1
    <2>3. \A k \in 0..(n + 1) : g[k] = Row(f, k) /\ (k # 0 => g[k - 1] = f[k - 1])
        BY <2>2
    <2>4. g = [k \in 0..(n + 1) |-> g[k]]
        OBVIOUS
    <2>. HIDE DEF g
    <2>5. \A k \in 0..(n + 1) : g[k] = Row(g, k)
        BY <2>3 DEF Row
    <2>6. g = [k \in 0..(n + 1) |-> Row(g, k)]
        BY <2>4, <2>5
    <2>. QED
        BY <2>6
<1>. HIDE DEF Table
<1>3. N \in Nat
    BY NodesCounted
<1>4. Table(N)
    <2>1. S = Nat
        <3>1. 0 \in S /\ \A n \in S : n + 1 \in S
            BY <1>1, <1>2
        <3>. HIDE DEF S
        <3>2. S \in SUBSET Nat
            BY DEF S
        <3>. QED
            BY <3>1, <3>2, SetInduction
    <2>. HIDE DEF N
    <2>. QED
        BY <1>3, <2>1
<1>5. BestUpTo = [k \in 0..N |-> Row(BestUpTo, k)]
    <2>1. PICK f : f = [k \in 0..N |-> Row(f, k)]
        BY <1>4 DEF Table
    <2>. QED
        BY <2>1 DEF BestUpTo, Options, First
<1>. HIDE DEF N
<1>6. \A k \in 0..N : BestUpTo[k] = Row(BestUpTo, k)
    <2>. HIDE DEF Row
    <2>. QED
        BY <1>5
<1>7. Row(BestUpTo, 0) = First /\ 0 \in 0..N
    BY <1>3
<1>8. ASSUME NEW k \in 1..N PROVE BestUpTo[k] = [u \in Node |-> Least(Options(BestUpTo[k - 1], u))]
    <2>1. k # 0 /\ k \in 0..N
        BY <1>3
    <2>2. Row(BestUpTo, k) = [u \in Node |-> Least(Options(BestUpTo[k - 1], u))]
        BY <2>1
    <2>. HIDE DEF Row
    <2>. QED
        BY <1>6, <2>1, <2>2
<1>. HIDE DEF Row
<1>. QED
    BY <1>6, <1>7, <1>8 DEF N

\* One more channel never makes it dearer, and a channel into a node that has to
\* send b[x] makes it no dearer than that and the fee.
LEMMA BestStep ==
    ASSUME SearchType, NEW b \in [Node -> Amount..Infinite], NEW u \in Node
    PROVE  LET l == Least(Options(b, u))
           IN  /\ l \in Options(b, u) /\ l \in Amount..Infinite /\ l <= b[u]
               /\ \A y \in Options(b, u) : y \in Nat /\ l <= y
<1>1. \A x \in Node : b[x] \in Nat /\ b[x] >= Amount /\ b[x] <= Infinite
    BY AmountsAssumption DEF Infinite
<1>2. ASSUME NEW y \in Options(b, u) PROVE y \in Nat /\ y >= Amount
    <2>1. CASE y = b[u]
        BY <1>1, <2>1
    <2>2. CASE y # b[u]
        <3>1. PICK c \in graph : y = b[c.destination] + ComputeFee(c, b[c.destination])
            BY <1>2, <2>2 DEF Options
        <3>2. IsChannel(c) /\ c.destination \in Node
            BY ChannelsOfGraph DEF IsChannel
        <3>3. b[c.destination] \in Nat /\ b[c.destination] >= Amount
            BY <1>1, <3>2
        <3>4. ComputeFee(c, b[c.destination]) \in Nat
            BY <3>2, <3>3, FeeIsNat
        <3>. QED
            BY <3>1, <3>3, <3>4, AmountsAssumption
    <2>. QED
        BY <2>1, <2>2
<1>3. b[u] \in Options(b, u) /\ Options(b, u) \in SUBSET Nat
    BY <1>2 DEF Options
<1>4. Least(Options(b, u)) \in Options(b, u) /\ \A y \in Options(b, u) : Least(Options(b, u)) <= y
    BY <1>3, LeastIs
<1>5. Infinite \in Nat
    BY AmountsAssumption DEF Infinite
<1>. QED
    BY <1>1, <1>2, <1>3, <1>4, <1>5, AmountsAssumption

LEMMA BestFacts ==
    ASSUME SearchType
    PROVE  \A k \in 0..Cardinality(Node) :
              /\ BestUpTo[k] \in [Node -> Amount..Infinite]
              /\ k # 0 => \A u \in Node :
                    /\ BestUpTo[k][u] \in Options(BestUpTo[k - 1], u)
                    /\ BestUpTo[k][u] <= BestUpTo[k - 1][u]
                    /\ \A y \in Options(BestUpTo[k - 1], u) : BestUpTo[k][u] <= y
<1>. DEFINE N == Cardinality(Node)
            S == {k \in Nat : k <= N => BestUpTo[k] \in [Node -> Amount..Infinite]}
<1>1. N \in Nat /\ Infinite \in Nat /\ Amount \in Nat /\ Infinite >= Amount
    BY NodesCounted, AmountsAssumption DEF Infinite
<1>2. BestUpTo[0] = First
      /\ \A k \in 1..N : BestUpTo[k] = [u \in Node |-> Least(Options(BestUpTo[k - 1], u))]
    BY BestIs
<1>. HIDE DEF N
<1>3. 0 \in S
    BY <1>1, <1>2 DEF First
<1>4. ASSUME NEW k \in S PROVE k + 1 \in S
    <2>. SUFFICES ASSUME k + 1 <= N PROVE BestUpTo[k + 1] \in [Node -> Amount..Infinite]
        OBVIOUS
    <2>. DEFINE j == k + 1
    <2>1. j \in 1..N /\ j - 1 = k /\ BestUpTo[k] \in [Node -> Amount..Infinite]
        BY <1>1
    <2>. HIDE DEF j
    <2>2. BestUpTo[j - 1] \in [Node -> Amount..Infinite]
        BY <2>1
    <2>3. \A u \in Node : Least(Options(BestUpTo[j - 1], u)) \in Amount..Infinite
        BY <2>2, BestStep
    <2>4. BestUpTo[j] = [u \in Node |-> Least(Options(BestUpTo[j - 1], u))]
        BY <1>2, <2>1
    <2>5. BestUpTo[j] \in [Node -> Amount..Infinite]
        BY <2>3, <2>4
    <2>. QED
        BY <2>5 DEF j
<1>5. S = Nat
    <2>. HIDE DEF S
    <2>1. S \in SUBSET Nat
        BY DEF S
    <2>. QED
        BY <1>3, <1>4, <2>1, SetInduction
<1>6. \A k \in 0..N : BestUpTo[k] \in [Node -> Amount..Infinite]
    BY <1>1, <1>5
<1>7. ASSUME NEW k \in 1..N, NEW u \in Node
      PROVE  /\ BestUpTo[k][u] \in Options(BestUpTo[k - 1], u)
             /\ BestUpTo[k][u] <= BestUpTo[k - 1][u]
             /\ \A y \in Options(BestUpTo[k - 1], u) : BestUpTo[k][u] <= y
    <2>1. k - 1 \in 0..N
        BY <1>1
    <2>2. BestUpTo[k - 1] \in [Node -> Amount..Infinite]
        BY <1>6, <2>1
    <2>3. BestUpTo[k][u] = Least(Options(BestUpTo[k - 1], u))
        BY <1>2
    <2>. QED
        BY <2>2, <2>3, BestStep
<1>8. \A k \in 0..N : k # 0 => k \in 1..N
    BY <1>1
<1>. QED
    BY <1>6, <1>7, <1>8 DEF N

\* So that the more channels, the cheaper.
LEMMA BestFalls ==
    ASSUME SearchType, NEW m \in 0..Cardinality(Node), NEW u \in Node
    PROVE  BestUpTo[Cardinality(Node)][u] <= BestUpTo[m][u]
<1>. DEFINE N == Cardinality(Node)
            S == {i \in Nat : m + i <= N => BestUpTo[m + i][u] <= BestUpTo[m][u]}
<1>1. N \in Nat /\ m \in Nat
    BY NodesCounted
<1>2. \A k \in 0..N : BestUpTo[k][u] \in Nat
    BY BestFacts, AmountsAssumption DEF Infinite
<1>3. \A k \in 1..N : BestUpTo[k][u] <= BestUpTo[k - 1][u]
    <2>1. \A k \in 1..N : k \in 0..N /\ k # 0
        BY <1>1
    <2>. QED
        BY <2>1, BestFacts
<1>. HIDE DEF N
<1>4. 0 \in S
    <2>1. m + 0 = m /\ m \in 0..N
        BY <1>1 DEF N
    <2>. QED
        BY <1>2, <2>1
<1>5. ASSUME NEW i \in S PROVE i + 1 \in S
    <2>. SUFFICES ASSUME m + (i + 1) <= N PROVE BestUpTo[m + (i + 1)][u] <= BestUpTo[m][u]
        OBVIOUS
    <2>1. /\ m + (i + 1) \in 1..N /\ (m + (i + 1)) - 1 = m + i
          /\ m + i \in 0..N /\ m \in 0..N /\ m + (i + 1) \in 0..N
        BY <1>1
    <2>2. BestUpTo[m + i][u] <= BestUpTo[m][u]
        BY <2>1
    <2>3. BestUpTo[m + (i + 1)][u] <= BestUpTo[m + i][u]
        BY <1>3, <2>1
    <2>. QED
        BY <1>2, <2>1, <2>2, <2>3
<1>6. S = Nat
    <2>. HIDE DEF S
    <2>1. S \in SUBSET Nat
        BY DEF S
    <2>. QED
        BY <1>4, <1>5, <2>1, SetInduction
<1>7. N - m \in Nat /\ m + (N - m) = N
    BY <1>1 DEF N
<1>8. N - m \in S
    BY <1>6, <1>7
<1>. QED
    BY <1>7, <1>8 DEF N

---------------------------------------------------------------------------
(* The search leaves no way untried *)

\* No channel into the node improves the distance of the node it comes from.
Relaxed(w) ==
    \A c \in graph :
        (/\ c.destination = w /\ c.source \notin exclude
         /\ CanForward(c, Amount + distance[w]))
        => distance[c.source] <= distance[w] + ComputeFee(c, Amount + distance[w])

Open(w) == \E item \in pq : item.node = w /\ item.priority = distance[w]

\* A node that was reached is still to be expanded, or has been; the source is not.
Closed ==
    Limit >= Cardinality(Node \ exclude) - 1 =>
        \A w \in Node : Reached(w) => Open(w) \/ (w # Src /\ Relaxed(w))

\* How a search has ended.
Finished ==
    /\ outcome # "nosuchnode" <=> Dst \in Known
    /\ outcome \in {"noroute", "hops"} =>
        Ended /\ (outcome = "noroute" <=> distance[Src] = MaxDistance)

LEMMA ClosedAtStart == SearchInit => Closed /\ Finished
<1>. SUFFICES ASSUME SearchInit PROVE Closed /\ Finished
    OBVIOUS
<1>1. Src \in Node /\ Dst \in Node /\ Src \in Known
    BY ChannelsOfGraph, SearchStarts DEF SearchInv
<1>2. Finished
    BY <1>1 DEF SearchInit, Finished
<1>3. \A w \in Node : Reached(w) => w = Dst
    BY AmountsAssumption DEF SearchInit, Reached
<1>4. Open(Dst)
    BY <1>1 DEF SearchInit, Open
<1>. QED
    BY <1>2, <1>3, <1>4 DEF Closed

LEMMA SkipKeepsClosed ==
    ASSUME SearchInv, Closed, NEW item \in pq, SkipItem(item)
    PROVE  Closed'
<1>1. pq' = pq \ {item} /\ UNCHANGED <<OutChannel, InChannel, graph, maxHops, distance, hop>>
    BY DEF SkipItem, input
<1>2. Known' = Known /\ Dst' = Dst /\ Src' = Src /\ Limit' = Limit /\ exclude' = exclude
    BY <1>1 DEF Known, Dst, Src, Limit, exclude
<1>. SUFFICES ASSUME Limit >= Cardinality(Node \ exclude) - 1, NEW w \in Node, Reached(w)
              PROVE  Open(w)' \/ (w # Src /\ Relaxed(w)')
    BY <1>1, <1>2 DEF Closed, Reached
<1>3. Relaxed(w) => Relaxed(w)'
    BY <1>1, <1>2 DEF Relaxed, CanForward, ComputeFee
<1>4. CASE item.node = w /\ item.priority = distance[w]
    <2>1. item \in Items /\ SearchType
        BY DEF SearchInv, SearchType
    <2>2. ~Outdated(item)
        BY <1>4, <2>1, AmountsAssumption DEF Outdated, Items, SearchType
    <2>3. w # Src /\ item.hops >= Limit
        BY <1>4, <2>2 DEF SkipItem
    <2>4. PICK d : Depths(d)
        BY DEF SearchInv
    <2>5. w # Self
        BY <1>4 DEF SearchInv, ItemsFit
    <2>6. d[w] \in Nat /\ d[w] + 1 <= Cardinality(Node \ exclude)
          /\ (d[w] + 1 = Cardinality(Node \ exclude) =>
                \A x \in Node \ {Self} : distance[x] <= distance[w])
        BY <2>4, <2>5, WalkFacts
    <2>7. item.hops = d[w]
        BY <1>4, <2>4 DEF Depths
    <2>8. Limit \in Nat /\ Cardinality(Node \ exclude) \in Nat
        BY <2>1, NodesCounted, AmountsAssumption DEF SearchType, Limit
    <2>9. \A x \in Node \ {Self} : distance[x] <= distance[w]
        BY <2>3, <2>6, <2>7, <2>8
    <2>10. Relaxed(w)
        <3>. SUFFICES ASSUME NEW c \in graph, c.destination = w, c.source \notin exclude
                      PROVE  distance[c.source] <= distance[w] + ComputeFee(c, Amount + distance[w])
            BY DEF Relaxed
        <3>1. IsChannel(c) /\ c.source \in Node \ {Self}
            BY <2>1, ChannelsOfGraph DEF IsChannel, exclude
        <3>2. distance[w] \in Nat /\ Amount + distance[w] \in Nat /\ distance[c.source] \in Nat
            BY <2>1, <3>1, AmountsAssumption DEF SearchType
        <3>3. ComputeFee(c, Amount + distance[w]) \in Nat
            BY <3>1, <3>2, FeeIsNat
        <3>. QED
            BY <2>9, <3>1, <3>2, <3>3
    <2>. QED
        BY <1>3, <2>3, <2>10
<1>5. CASE ~(item.node = w /\ item.priority = distance[w])
    <2>1. Open(w) => Open(w)'
        BY <1>1, <1>5 DEF Open
    <2>. QED
        BY <1>3, <2>1 DEF Closed
<1>. QED
    BY <1>4, <1>5

LEMMA ExpandKeepsClosed ==
    ASSUME SearchInv, Closed, NEW item \in pq, Expand(item)
    PROVE  Closed'
<1>. DEFINE improved == {v \in Node : Cheapest(v, item) # {}}
            w == item.node
            a == item.amount
<1>1. PICK pick : Relaxes(item, improved, pick)
    BY ExpandRelaxes
<1>2. UNCHANGED <<OutChannel, InChannel, graph, maxHops>> /\ w # Src
    BY ExpandRelaxes
<1>3. /\ item \in Items /\ Settled(w)
      /\ item.priority = distance[w] /\ a = Amount + distance[w]
    BY ExpandRelaxes, FirstItem
<1>4. SearchType /\ w \in Node /\ a \in Nat
    BY <1>3 DEF SearchInv, Items
<1>5. \A u \in Node : distance[u] \in Nat
    BY <1>4, AmountsAssumption DEF SearchType
<1>6. ASSUME NEW v \in improved
      PROVE  /\ pick[v] \in Usable(v, item) /\ v \in Node
             /\ ComputeFee(pick[v], a) \in Nat
             /\ distance[w] + ComputeFee(pick[v], a) < distance[v]
             /\ \A c \in Usable(v, item) : ComputeFee(pick[v], a) <= ComputeFee(c, a)
    <2>1. pick[v] \in Cheapest(v, item) /\ v \in Node
        BY <1>1 DEF Relaxes
    <2>2. IsChannel(pick[v])
        BY <1>4, <2>1, ChannelsOfGraph DEF Cheapest, Usable
    <2>3. ComputeFee(pick[v], a) \in Nat
        BY <1>4, <2>2, FeeIsNat
    <2>. QED
        BY <2>1, <2>3 DEF Cheapest, Improves
<1>7. \A v \in Node :
          /\ distance'[v] = IF v \in improved THEN distance[w] + ComputeFee(pick[v], a)
                            ELSE distance[v]
          /\ distance'[v] \in Nat /\ distance'[v] <= distance[v]
    BY <1>1, <1>4, <1>5, <1>6 DEF Relaxes
<1>8. ASSUME NEW v \in Node, NEW c \in Usable(v, item)
      PROVE  distance'[v] <= distance[w] + ComputeFee(c, a)
    <2>. DEFINE Fees == {ComputeFee(e, a) : e \in Usable(v, item)}
    <2>1. \A e \in Usable(v, item) : ComputeFee(e, a) \in Nat
        BY <1>4, ChannelsOfGraph, FeeIsNat DEF Usable
    <2>2. PICK e \in Usable(v, item) :
              \A f \in Usable(v, item) : ComputeFee(e, a) <= ComputeFee(f, a)
        <3>1. Fees \in SUBSET Nat /\ Fees # {}
            BY <1>8, <2>1
        <3>2. PICK x \in Fees : \A y \in Fees : x <= y
            BY <3>1, LeastNumber
        <3>. QED
            BY <3>2
    <2>3. CASE Improves(v, item, e)
        <3>1. v \in improved
            BY <2>2, <2>3 DEF Cheapest
        <3>. HIDE DEF improved
        <3>2. distance'[v] = distance[w] + ComputeFee(pick[v], a)
            BY <1>7, <3>1
        <3>3. ComputeFee(pick[v], a) \in Nat /\ ComputeFee(pick[v], a) <= ComputeFee(c, a)
            BY <1>6, <1>8, <3>1
        <3>. QED
            BY <1>4, <1>5, <1>8, <2>1, <3>2, <3>3
    <2>4. CASE ~Improves(v, item, e)
        <3>1. distance[v] <= distance[w] + ComputeFee(e, a)
            BY <1>4, <1>5, <2>1, <2>2, <2>4 DEF Improves
        <3>. HIDE DEF improved
        <3>2. distance'[v] \in Nat /\ distance'[v] <= distance[v]
            BY <1>7
        <3>3. /\ ComputeFee(e, a) <= ComputeFee(c, a)
              /\ ComputeFee(e, a) \in Nat /\ ComputeFee(c, a) \in Nat
            BY <1>8, <2>1, <2>2
        <3>. QED
            BY <1>4, <1>5, <3>1, <3>2, <3>3
    <2>. QED
        BY <2>3, <2>4
<1>. HIDE DEF improved
<1>9. Known' = Known /\ Dst' = Dst /\ Src' = Src /\ Limit' = Limit /\ exclude' = exclude
    BY <1>2 DEF Known, Dst, Src, Limit, exclude
<1>10. w \notin improved /\ distance'[w] = distance[w]
    BY <1>4, <1>5, <1>6, <1>7
<1>11. Relaxed(w)'
    <2>. SUFFICES ASSUME NEW c \in graph, c.destination = w, c.source \notin exclude,
                         CanForward(c, a)
                  PROVE  distance'[c.source] <= distance[w] + ComputeFee(c, a)
        BY <1>2, <1>3, <1>9, <1>10 DEF Relaxed, CanForward, ComputeFee
    <2>1. c.source \in Node
        BY <1>4, ChannelsOfGraph DEF IsChannel
    <2>2. c \in Usable(c.source, item)
        BY DEF Usable
    <2>. QED
        BY <1>8, <2>1, <2>2
<1>. SUFFICES ASSUME Limit >= Cardinality(Node \ exclude) - 1, NEW x \in Node, Reached(x)'
              PROVE  Open(x)' \/ (x # Src /\ Relaxed(x)')
    BY <1>9 DEF Closed
<1>12. CASE x \in improved
    BY <1>1, <1>12 DEF Relaxes, Open
<1>13. CASE x = w
    BY <1>2, <1>11, <1>13
<1>14. CASE x \notin improved /\ x # w
    <2>1. distance'[x] = distance[x] /\ Reached(x)
        BY <1>7, <1>9, <1>14 DEF Reached
    <2>2. Open(x) => Open(x)'
        BY <1>1, <1>14, <2>1 DEF Open, Relaxes
    <2>3. ASSUME Relaxed(x) PROVE Relaxed(x)'
        <3>. SUFFICES ASSUME NEW c \in graph, c.destination = x, c.source \notin exclude,
                             CanForward(c, Amount + distance[x])
                      PROVE  distance'[c.source]
                                <= distance[x] + ComputeFee(c, Amount + distance[x])
            BY <1>2, <1>9, <2>1 DEF Relaxed, CanForward, ComputeFee
        <3>1. c.source \in Node /\ IsChannel(c)
            BY <1>4, ChannelsOfGraph DEF IsChannel
        <3>2. distance[c.source] <= distance[x] + ComputeFee(c, Amount + distance[x])
            BY <2>3 DEF Relaxed
        <3>3. ComputeFee(c, Amount + distance[x]) \in Nat
            BY <1>5, <3>1, FeeIsNat, AmountsAssumption
        <3>. QED
            BY <1>5, <1>7, <3>1, <3>2, <3>3
    <2>. QED
        BY <2>1, <2>2, <2>3 DEF Closed
<1>. QED
    BY <1>12, <1>13, <1>14

\* Once the search has ended nothing of it changes.
LEMMA EndedStays ==
    ASSUME UNCHANGED <<OutChannel, InChannel, graph, maxHops, distance, hop, pq>>
    PROVE  /\ Closed => Closed'
           /\ Ended' = Ended /\ (Dst \in Known)' = (Dst \in Known)
           /\ Src' = Src /\ distance'[Src] = distance[Src]
<1>1. Known' = Known /\ Dst' = Dst /\ Src' = Src /\ Limit' = Limit /\ exclude' = exclude
    BY DEF Known, Dst, Src, Limit, exclude
<1>2. \A w : Relaxed(w)' = Relaxed(w) /\ Open(w)' = Open(w) /\ Reached(w)' = Reached(w)
    BY <1>1 DEF Relaxed, Open, Reached, CanForward, ComputeFee
<1>3. Ended' = Ended
    BY <1>1 DEF Ended, IsFirst, Outdated
<1>. QED
    BY <1>1, <1>2, <1>3 DEF Closed

LEMMA ClosedKept ==
    ASSUME SearchInv, Closed, Finished, [SearchNext]_searchVars
    PROVE  Closed' /\ Finished'
<1>1. ASSUME NEW item \in pq, SkipItem(item) \/ Expand(item) PROVE Closed' /\ Finished'
    <2>1. outcome = "search" /\ outcome' = "search" /\ (Dst \in Known)' = (Dst \in Known)
        BY <1>1 DEF SkipItem, Expand, input, Known, Dst
    <2>2. Finished'
        BY <2>1 DEF Finished
    <2>. QED
        BY <1>1, <2>2, SkipKeepsClosed, ExpandKeepsClosed
<1>2. CASE NoRoute \/ BuildHops
    <2>1. /\ UNCHANGED <<OutChannel, InChannel, graph, maxHops, distance, hop, pq>>
          /\ Ended /\ outcome = "search" /\ outcome' \in {"noroute", "hops"}
          /\ outcome' = "noroute" <=> distance[Src] = MaxDistance
        BY <1>2 DEF NoRoute, BuildHops, input
    <2>. QED
        BY <2>1, EndedStays DEF Finished
<1>3. CASE PrependPanics \/ BuildRoute
    <2>1. /\ UNCHANGED <<OutChannel, InChannel, graph, maxHops, distance, hop, pq>>
          /\ outcome = "hops" /\ outcome' \notin {"noroute", "hops", "nosuchnode"}
        BY <1>3 DEF PrependPanics, BuildRoute, input
    <2>. QED
        BY <2>1, EndedStays DEF Finished
<1>4. CASE UNCHANGED searchVars
    BY <1>4, EndedStays DEF searchVars, Finished
<1>. QED
    BY <1>1, <1>2, <1>3, <1>4 DEF SearchNext

---------------------------------------------------------------------------
(* The route found is the cheapest one *)

\* A channel that carries an amount carries a smaller one.
LEMMA SmallerPasses ==
    ASSUME SearchType, MinimumsMet, NEW c \in graph, NEW x \in Nat, NEW y \in Nat,
           Amount <= x, x <= y, CanForward(c, y)
    PROVE  CanForward(c, x)
<1>1. c.liquidity \in Nat /\ c.max \in Nat /\ c.min \in Nat /\ c.min <= Amount
    BY ChannelsOfGraph DEF SearchType, MinimumsMet, IsChannel
<1>. QED
    BY <1>1, AmountsAssumption DEF CanForward

\* What the reference may answer for a node.
LEMMA OptionsAre ==
    ASSUME NEW b, NEW u, NEW y \in Options(b, u)
    PROVE  \/ y = b[u]
           \/ \E c \in graph : /\ c.source = u /\ u \notin exclude
                               /\ b[c.destination] # Infinite
                               /\ CanForward(c, b[c.destination])
                               /\ y = b[c.destination] + ComputeFee(c, b[c.destination])
BY DEF Options

\* When the search has ended no path is cheaper than the distance of its source.
LEMMA NoneCheaper ==
    ASSUME SearchInv, Closed, Finished, MinimumsMet, outcome \in {"noroute", "hops"},
           Limit >= Cardinality(Node \ exclude) - 1, NEW k \in 0..Cardinality(Node)
    PROVE  BestUpTo[k][Src] >= Amount + distance[Src]
<1>. DEFINE N == Cardinality(Node)
            best == BestUpTo
            AtLeast(i, u) == \/ best[i][u] >= Amount + distance[u]
                             \/ best[i][u] >= Amount + distance[Src]
            S == {i \in Nat : i <= N => \A u \in Known : AtLeast(i, u)}
<1>1. SearchType /\ N \in Nat /\ Src \in Known /\ Dst \in Known /\ Known \subseteq Node
    <2>1. SearchType
        BY DEF SearchInv
    <2>2. Known \subseteq Node
        BY <2>1, ChannelsOfGraph DEF Known, IsChannel
    <2>. QED
        BY <2>1, <2>2, NodesCounted, ChannelsOfGraph DEF Finished
<1>2. /\ \A u \in Node : distance[u] \in Nat /\ distance[u] <= MaxDistance
      /\ Infinite = MaxDistance + Amount /\ Infinite \in Nat /\ Amount \in Nat
      /\ Src \in Node
    BY <1>1, AmountsAssumption DEF SearchType, Infinite
<1>3. ASSUME NEW w \in Node, Reached(w), distance[w] < distance[Src] PROVE Relaxed(w)
    <2>1. ~Open(w)
        <3>. SUFFICES ASSUME NEW item \in pq, item.node = w, item.priority = distance[w]
                      PROVE  FALSE
            BY DEF Open
        <3>1. PICK first \in pq : IsFirst(first) /\ ~Outdated(first) /\ first.node = Src
            BY DEF Finished, Ended
        <3>2. first.priority \in Nat /\ first.priority <= distance[w]
            BY <1>1, <3>1 DEF IsFirst, SearchType, Items
        <3>3. distance[Src] <= first.priority
            BY <3>1 DEF SearchInv, ItemsFit
        <3>. QED
            BY <1>2, <1>3, <3>2, <3>3
    <2>. QED
        BY <1>3, <2>1 DEF Closed
<1>4. \A i \in 0..N : \A u \in Node :
          best[i][u] \in Nat /\ best[i][u] >= Amount /\ best[i][u] <= Infinite
    BY <1>1, <1>2, BestFacts
<1>5. 0 \in S
    <2>. SUFFICES ASSUME NEW u \in Known PROVE AtLeast(0, u)
        OBVIOUS
    <2>1. u \in Node /\ best[0] = First
        BY <1>1, BestIs
    <2>2. CASE u = Dst
        <3>1. best[0][u] = Amount
            BY <2>1, <2>2 DEF First
        <3>2. distance[u] = 0
            BY <2>1, <2>2 DEF SearchInv, Grounded
        <3>. QED
            BY <1>2, <3>1, <3>2
    <2>3. CASE u # Dst
        <3>1. best[0][u] = Infinite
            BY <2>1, <2>3 DEF First
        <3>. QED
            BY <1>2, <2>1, <3>1, AmountsAssumption
    <2>. QED
        BY <2>2, <2>3
<1>. HIDE DEF N, best
<1>6. ASSUME NEW i \in S PROVE i + 1 \in S
    <2>. SUFFICES ASSUME i + 1 <= N, NEW u \in Known PROVE AtLeast(i + 1, u)
        OBVIOUS
    <2>1. i \in 0..N /\ i + 1 \in 0..N /\ i + 1 # 0 /\ (i + 1) - 1 = i /\ u \in Node
        BY <1>1
    <2>2. \A x \in Known : AtLeast(i, x)
        BY <2>1
    <2>3. best[i + 1][u] \in Options(best[i], u)
        <3>. DEFINE j == i + 1
        <3>1. j \in 0..N /\ j # 0 /\ j - 1 = i
            BY <2>1
        <3>. HIDE DEF j
        <3>2. best[j][u] \in Options(best[j - 1], u)
            BY <1>1, <2>1, <3>1, BestFacts DEF N, best
        <3>. QED
            BY <3>1, <3>2 DEF j
    <2>4. CASE best[i + 1][u] = best[i][u]
        BY <2>2, <2>4
    <2>5. ASSUME NEW c \in graph, c.source = u, u \notin exclude,
                 best[i][c.destination] # Infinite, CanForward(c, best[i][c.destination]),
                 best[i + 1][u] = best[i][c.destination] + ComputeFee(c, best[i][c.destination])
          PROVE  AtLeast(i + 1, u)
        <3>. DEFINE x == c.destination
                    z == best[i][x]
        <3>1. x \in Node /\ x \in Known /\ IsChannel(c)
            BY <1>1, ChannelsOfGraph
        <3>2. z \in Nat /\ z >= Amount /\ distance[x] \in Nat
            BY <1>2, <1>4, <2>1, <3>1
        <3>3. ComputeFee(c, z) \in Nat /\ best[i + 1][u] = z + ComputeFee(c, z)
            BY <2>5, <3>1, <3>2, FeeIsNat
        <3>4. CASE z >= Amount + distance[Src]
            BY <1>2, <3>2, <3>3, <3>4
        <3>5. CASE ~(z >= Amount + distance[Src])
            <4>1. z >= Amount + distance[x]
                BY <2>2, <3>1, <3>5
            <4>2. distance[x] < distance[Src]
                BY <1>2, <3>2, <3>5, <4>1
            <4>3. Reached(x)
                BY <1>2, <3>1, <3>2, <4>2, AmountsAssumption DEF Reached
            <4>4. Relaxed(x)
                BY <1>3, <3>1, <4>2, <4>3
            <4>. DEFINE y == Amount + distance[x]
            <4>5. y \in Nat /\ Amount <= y /\ y <= z
                BY <1>2, <3>2, <4>1
            <4>6. CanForward(c, y)
                BY <1>1, <2>5, <3>2, <4>5, SmallerPasses
            <4>7. distance[u] <= distance[x] + ComputeFee(c, y)
                BY <2>5, <4>4, <4>6 DEF Relaxed
            <4>8. ComputeFee(c, y) \in Nat /\ ComputeFee(c, y) <= ComputeFee(c, z)
                BY <3>1, <3>2, <4>5, FeeGrows
            <4>. HIDE DEF x, z
            <4>9. best[i + 1][u] >= Amount + distance[u]
                BY <1>2, <2>1, <3>2, <3>3, <4>1, <4>7, <4>8
            <4>. QED
                BY <4>9
        <3>. QED
            BY <3>4, <3>5
    <2>. HIDE DEF AtLeast
    <2>. QED
        BY <2>3, <2>4, <2>5, OptionsAre
<1>7. S = Nat
    <2>. HIDE DEF S
    <2>1. S \in SUBSET Nat
        BY DEF S
    <2>. QED
        BY <1>5, <1>6, <2>1, SetInduction
<1>8. k \in Nat /\ k <= N /\ AtLeast(k, Src)
    <2>1. k \in Nat /\ k <= N
        BY <1>1 DEF N
    <2>2. k \in S
        BY <1>7, <2>1
    <2>. HIDE DEF AtLeast
    <2>. QED
        BY <1>1, <2>1, <2>2
<1>. QED
    BY <1>8 DEF best

\* And the distance of a node that was reached is what some path costs.
LEMMA AsCheap ==
    ASSUME SearchInv, MinimumsMet, NEW u \in Node, Reached(u), u # Self
    PROVE  BestUpTo[Cardinality(Node)][u] <= Amount + distance[u]
<1>. DEFINE N == Cardinality(Node)
            best == BestUpTo
<1>1. SearchType /\ N \in Nat
    BY NodesCounted DEF SearchInv
<1>2. PICK d : Depths(d)
    BY DEF SearchInv
<1>3. d \in [Node -> Nat] /\ d[Dst] = 0 /\ Dst \in Node
    BY <1>1, <1>2, ChannelsOfGraph DEF Depths
<1>. DEFINE S == {i \in Nat : i <= N => \A x \in Node : (Reached(x) /\ d[x] = i) =>
                                            best[i][x] <= Amount + distance[x]}
<1>4. /\ \A x \in Node : distance[x] \in Nat
      /\ Infinite = MaxDistance + Amount /\ Amount \in Nat /\ MaxDistance \in Nat
    BY <1>1, AmountsAssumption DEF SearchType, Infinite
<1>5. \A i \in 0..N : \A x \in Node : best[i][x] \in Nat /\ best[i][x] >= Amount
    BY <1>1, <1>4, BestFacts
<1>6. ASSUME NEW x \in Node, Reached(x), x # Dst
      PROVE  /\ HopFits(x) /\ Onward(x) \in Node /\ Reached(Onward(x))
             /\ d[x] = d[Onward(x)] + 1 /\ d[Onward(x)] \in Nat
             /\ IsChannel(hop[x].channel)
    <2>1. HopFits(x) /\ d[x] = d[Onward(x)] + 1
        BY <1>2, <1>6 DEF SearchInv, HopsFit, Depths
    <2>2. IsChannel(hop[x].channel) /\ Onward(x) \in Node
        BY <1>1, <2>1, ChannelsOfGraph DEF HopFits, Onward, IsChannel
    <2>. QED
        BY <1>3, <2>1, <2>2 DEF HopFits, Settled
<1>. HIDE DEF N, best
<1>7. 0 \in S
    <2>. SUFFICES ASSUME NEW x \in Node, Reached(x), d[x] = 0
                  PROVE  best[0][x] <= Amount + distance[x]
        OBVIOUS
    <2>1. x = Dst
        <3>. SUFFICES ASSUME x # Dst PROVE FALSE
            OBVIOUS
        <3>1. d[x] = d[Onward(x)] + 1 /\ d[Onward(x)] \in Nat
            BY <1>6
        <3>. QED
            BY <3>1
    <2>2. best[0][x] = Amount
        BY <2>1, BestIs DEF First, best
    <2>. QED
        BY <1>4, <2>2
<1>8. ASSUME NEW i \in S PROVE i + 1 \in S
    <2>. SUFFICES ASSUME i + 1 <= N, NEW x \in Node, Reached(x), d[x] = i + 1
                  PROVE  best[i + 1][x] <= Amount + distance[x]
        OBVIOUS
    <2>. DEFINE y == Onward(x)
                c == hop[x].channel
                b == best[i][y]
                z == Amount + distance[y]
    <2>1. x # Dst
        BY <1>3
    <2>2. /\ HopFits(x) /\ y \in Node /\ Reached(y) /\ d[y] = i /\ IsChannel(c)
          /\ c \in graph /\ c.source = x /\ x # Self /\ c.destination = y
          /\ CanForward(c, z) /\ distance[x] = distance[y] + ComputeFee(c, z)
        BY <1>6, <2>1 DEF HopFits, Onward
    <2>3. b <= z
        BY <1>1, <2>2
    <2>4. i \in 0..N /\ i + 1 \in 0..N
        BY <1>1
    <2>5. b \in Nat /\ z \in Nat /\ b >= Amount
        BY <1>4, <1>5, <2>2, <2>4
    <2>6. CanForward(c, b)
        BY <1>1, <2>2, <2>3, <2>5, SmallerPasses
    <2>7. b # Infinite
        <3>1. distance[y] < MaxDistance
            BY <2>2 DEF Reached
        <3>. HIDE DEF b
        <3>. QED
            BY <1>4, <2>2, <2>3, <2>5, <3>1
    <2>8. b + ComputeFee(c, b) \in Options(best[i], x)
        BY <2>2, <2>6, <2>7 DEF Options, exclude
    <2>9. best[i + 1][x] <= b + ComputeFee(c, b)
        <3>. DEFINE j == i + 1
        <3>1. j \in 0..N /\ j # 0 /\ j - 1 = i
            BY <1>1
        <3>. HIDE DEF j
        <3>2. \A v \in Options(best[j - 1], x) : best[j][x] <= v
            BY <1>1, <3>1, BestFacts DEF N, best
        <3>3. \A v \in Options(best[i], x) : best[j][x] <= v
            BY <3>1, <3>2
        <3>. HIDE DEF b
        <3>. QED
            BY <2>8, <3>3 DEF j
    <2>10. /\ ComputeFee(c, b) \in Nat /\ ComputeFee(c, z) \in Nat
           /\ ComputeFee(c, b) <= ComputeFee(c, z)
        BY <2>2, <2>3, <2>5, FeeGrows
    <2>11. best[i + 1][x] \in Nat
        BY <1>5, <2>4
    <2>12. distance[x] = distance[y] + ComputeFee(c, z) /\ distance[y] \in Nat
        BY <1>4, <2>2
    <2>. HIDE DEF b, c, y
    <2>. QED
        BY <1>4, <2>3, <2>5, <2>9, <2>10, <2>11, <2>12
<1>9. S = Nat
    <2>. HIDE DEF S
    <2>1. S \in SUBSET Nat
        BY DEF S
    <2>. QED
        BY <1>7, <1>8, <2>1, SetInduction
<1>10. d[u] \in Nat /\ d[u] <= N
    BY <1>2, WalkFacts, NodesCounted DEF N
<1>11. best[d[u]][u] <= Amount + distance[u]
    <2>1. d[u] \in S
        BY <1>9, <1>10
    <2>. QED
        BY <1>10, <2>1
<1>12. d[u] \in 0..N /\ N \in 0..N
    BY <1>1, <1>10
<1>13. best[N][u] <= best[d[u]][u]
    BY <1>1, <1>12, BestFalls DEF N, best
<1>14. best[N][u] \in Nat /\ best[d[u]][u] \in Nat
    BY <1>5, <1>12
<1>. QED
    BY <1>4, <1>11, <1>13, <1>14 DEF N, best

\* A destination that no channel leads to cannot be paid from elsewhere.
LEMMA NoWayIn ==
    ASSUME SearchType, Dst \notin Known, NEW k \in 0..Cardinality(Node)
    PROVE  BestUpTo[k][Src] = Infinite
<1>. DEFINE N == Cardinality(Node)
            best == BestUpTo
            S == {i \in Nat : i <= N => \A u \in Node \ {Dst} : best[i][u] = Infinite}
<1>1. N \in Nat /\ Src \in Node /\ Src # Dst
    BY NodesCounted, ChannelsOfGraph
<1>2. 0 \in S
    BY BestIs DEF First
<1>. HIDE DEF N, best
<1>3. ASSUME NEW i \in S PROVE i + 1 \in S
    <2>. SUFFICES ASSUME i + 1 <= N, NEW u \in Node, u # Dst PROVE best[i + 1][u] = Infinite
        OBVIOUS
    <2>1. \A x \in Node \ {Dst} : best[i][x] = Infinite
        BY <1>1
    <2>2. best[i + 1][u] \in Options(best[i], u)
        <3>. DEFINE j == i + 1
        <3>1. j \in 0..N /\ j # 0 /\ j - 1 = i
            BY <1>1
        <3>. HIDE DEF j
        <3>2. best[j][u] \in Options(best[j - 1], u)
            BY <3>1, BestFacts DEF N, best
        <3>. QED
            BY <3>1, <3>2 DEF j
    <2>3. \A c \in graph : c.destination \in Node \ {Dst}
        BY ChannelsOfGraph DEF IsChannel
    <2>. QED
        BY <2>1, <2>2, <2>3, OptionsAre
<1>4. S = Nat
    <2>. HIDE DEF S
    <2>1. S \in SUBSET Nat
        BY DEF S
    <2>. QED
        BY <1>2, <1>3, <2>1, SetInduction
<1>5. k \in Nat /\ k <= N
    BY <1>1 DEF N
<1>6. k \in S
    BY <1>4, <1>5
<1>. QED
    BY <1>1, <1>5, <1>6 DEF best

LEMMA CheapestFollows ==
    ASSUME RouteInv, Closed, Finished
    PROVE  CheapestWithoutLimit
<1>. DEFINE N == Cardinality(Node)
            best == BestUpTo[N][Src]
<1>. SUFFICES ASSUME Limit >= Cardinality(Node \ exclude) - 1, MinimumsMet
              PROVE  /\ outcome \in {"noroute", "nosuchnode"} => best = Infinite
                     /\ outcome = "hops" /\ route # <<>> => route[1].amount = best
    BY DEF CheapestWithoutLimit
<1>1. SearchInv /\ SearchType /\ N \in 0..N
    BY NodesCounted DEF RouteInv, SearchInv
<1>2. Src \in Node \ {Self} /\ distance[Src] \in Nat /\ distance[Src] <= MaxDistance
    BY <1>1, ChannelsOfGraph, AmountsAssumption DEF SearchType
<1>3. best \in Nat /\ best <= Infinite /\ Infinite = MaxDistance + Amount
    BY <1>1, <1>2, BestFacts, AmountsAssumption DEF Infinite
<1>4. outcome \in {"noroute", "hops"} => best >= Amount + distance[Src]
    BY <1>1, NoneCheaper
<1>5. CASE outcome = "nosuchnode"
    BY <1>1, <1>5, NoWayIn DEF Finished
<1>6. CASE outcome = "noroute"
    <2>1. distance[Src] = MaxDistance
        BY <1>6 DEF Finished
    <2>. QED
        BY <1>3, <1>4, <1>6, <2>1, AmountsAssumption
<1>7. CASE outcome = "hops" /\ route # <<>>
    <2>1a. PICK n \in Nat : \E p : PathOf(p, n) /\ route = [k \in 1..n |-> hop[p[k - 1]]]
        BY <1>1, <1>7 DEF RouteInv, HopsCollected
    <2>1. PICK p : PathOf(p, n) /\ route = [k \in 1..n |-> hop[p[k - 1]]]
        BY <2>1a
    <2>2. n # 0
        <3>. DEFINE f == [k \in 1..n |-> hop[p[k - 1]]]
        <3>1. \A g : [k \in 1..0 |-> g[k]] = <<>>
            OBVIOUS
        <3>2. n = 0 => route = [k \in 1..0 |-> f[k]]
            BY <2>1
        <3>. QED
            BY <1>7, <3>1, <3>2
    <2>3. route[1] = hop[Src]
        BY <2>1, <2>2 DEF PathOf
    <2>4. Src # Dst
        BY <2>1, <2>2 DEF PathOf
    <2>5. Reached(Src)
        BY <1>1, <1>2, <1>7, ChannelsOfGraph, AmountsAssumption DEF Finished, Reached
    <2>6. hop[Src].amount = Amount + distance[Src]
        BY <1>1, <1>2, <2>4, <2>5 DEF SearchInv, HopsFit, HopFits
    <2>7. best <= Amount + distance[Src]
        BY <1>1, <1>2, <2>5, AsCheap
    <2>. HIDE DEF best
    <2>8. best = Amount + distance[Src]
        BY <1>2, <1>3, <1>4, <1>7, <2>7, AmountsAssumption
    <2>. QED
        BY <1>7, <2>3, <2>6, <2>8
<1>. QED
    BY <1>5, <1>6, <1>7

\* With a limit that no simple path exceeds, and no channel that asks for more than
\* the amount to be moved, the search finds the cheapest route, and none only when
\* there is none.
THEOREM RouteIsCheapest == SearchSpec => []CheapestWithoutLimit
<1>1. SearchInit => Closed /\ Finished
    BY ClosedAtStart
<1>2. RouteInv /\ Closed /\ Finished /\ [SearchNext]_searchVars => (Closed /\ Finished)'
    BY ClosedKept DEF RouteInv
<1>3. RouteInv /\ Closed /\ Finished => CheapestWithoutLimit
    BY CheapestFollows
<1>. QED
    BY <1>1, <1>2, <1>3, RouteInvariance, PTL DEF SearchSpec
=============================================================================
