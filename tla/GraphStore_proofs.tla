------------------------- MODULE GraphStore_proofs -------------------------
(***************************************************************************)
(* The map and the adjacency list of the graph agree, for every number of  *)
(* channels, edges and jobs, whatever files a start finds.  Between the    *)
(* two loops of a start they agree on what was added so far; that, and     *)
(* that nothing else runs before the start is over, makes the invariant    *)
(* inductive.                                                              *)
(***************************************************************************)
EXTENDS GraphStore, SequenceTheorems, TLAPS

Shape ==
    /\ up \in {"down", "loading", "running"}
    /\ DOMAIN Channels \subseteq Id
    /\ Inbound \in [Edge -> Seq(Id)]
    /\ toLoad \subseteq DOMAIN Channels
    /\ DOMAIN file \subseteq Id
    /\ up = "running" => toLoad = {}
    /\ up = "down" =>
          DOMAIN Channels = {} /\ toLoad = {} /\ \A e \in Edge : Inbound[e] = <<>>

IInv == Shape /\ ViewsAgree

---------------------------------------------------------------------------
(* Operators *)

\* Setting a key (the built-in map of Go).
LEMMA SetDomain ==
    ASSUME NEW f, NEW x, NEW v
    PROVE  DOMAIN Set(f, x, v) = DOMAIN f \cup {x}
BY DEF Set

\* Deleting one.
LEMMA WithoutDomain ==
    ASSUME NEW f, NEW x
    PROVE  DOMAIN Without(f, x) = DOMAIN f \ {x}
BY DEF Without

\* remove (graph.go:150): one shorter, the last one in the place of the i-th.
LEMMA RemoveIs ==
    ASSUME NEW S, NEW s \in Seq(S), NEW i \in DOMAIN s
    PROVE  /\ Remove(s, i) \in Seq(S)
           /\ Len(Remove(s, i)) = Len(s) - 1
           /\ \A k \in 1..(Len(s) - 1) :
                 Remove(s, i)[k] = IF k = i THEN s[Len(s)] ELSE s[k]
<1> DEFINE t == [s EXCEPT ![i] = s[Len(s)]]
<1>1. Len(s) \in Nat /\ Len(s) > 0 /\ i \in 1..Len(s) /\ s[Len(s)] \in S
    OBVIOUS
<1>2. t \in Seq(S) /\ Len(t) = Len(s)
    BY <1>1
<1>3. \A k \in 1..Len(s) : t[k] = IF k = i THEN s[Len(s)] ELSE s[k]
    BY <1>1
<1> HIDE DEF t
<1>4. /\ SubSeq(t, 1, Len(s) - 1) \in Seq(S)
      /\ Len(SubSeq(t, 1, Len(s) - 1)) = Len(s) - 1
      /\ \A k \in 1..(Len(s) - 1) : SubSeq(t, 1, Len(s) - 1)[k] = t[k]
    BY <1>1, <1>2
<1>5. Remove(s, i) = SubSeq(t, 1, Len(s) - 1)
    BY DEF Remove, t
<1>. QED
    BY <1>1, <1>3, <1>4, <1>5

---------------------------------------------------------------------------
(* What the operations on the graph preserve *)

\* AddChannel of a channel the adjacency list lacks (a new one, or the next one
\* of the file).
LEMMA AddAgrees ==
    ASSUME IInv, NEW c \in Id, AddChannel(c),
           c \notin DOMAIN Channels \/ c \in toLoad,
           DOMAIN Channels' = DOMAIN Channels \cup {c},
           DOMAIN Channels' \ toLoad' = (DOMAIN Channels \ toLoad) \cup {c}
    PROVE  Inbound' \in [Edge -> Seq(Id)] /\ ViewsAgree'
<1> DEFINE E == EdgeOf[c]
           s == Inbound[E]
<1>1. E \in Edge /\ Inbound \in [Edge -> Seq(Id)] /\ s \in Seq(Id)
    BY EdgesAssumption DEF IInv, Shape
<1>2. Inbound' = [Inbound EXCEPT ![E] = Append(s, c)]
    BY DEF AddChannel
<1>3. Inbound'[E] = Append(s, c) /\ \A e \in Edge \ {E} : Inbound'[e] = Inbound[e]
    BY <1>1, <1>2
<1>4. Inbound' \in [Edge -> Seq(Id)]
    BY <1>1, <1>2
<1>5. /\ Append(s, c) \in Seq(Id)
      /\ DOMAIN Append(s, c) = 1..(Len(s) + 1)
      /\ DOMAIN s = 1..Len(s) /\ Len(s) \in Nat
      /\ \A i \in 1..Len(s) : Append(s, c)[i] = s[i]
      /\ Append(s, c)[Len(s) + 1] = c
    BY <1>1
<1>6. \A i \in 1..Len(s) : s[i] # c
    BY <1>1, <1>5 DEF IInv, ViewsAgree
<1>7. ASSUME NEW e \in Edge, NEW i \in DOMAIN Inbound'[e]
      PROVE  /\ Inbound'[e][i] \in DOMAIN Channels' \ toLoad'
             /\ EdgeOf[Inbound'[e][i]] = e
             /\ \A k \in DOMAIN Inbound'[e] : Inbound'[e][i] = Inbound'[e][k] => i = k
    <2>1. CASE e # E
        BY <1>3, <1>7, <2>1 DEF IInv, ViewsAgree
    <2>2. CASE e = E
        <3> DEFINE t == Append(s, c)
        <3>1. Inbound'[e] = t /\ DOMAIN t = 1..(Len(s) + 1)
            BY <1>3, <1>5, <2>2
        <3>2. \A k \in 1..Len(s) : t[k] = s[k] /\ t[k] # c
            BY <1>5, <1>6
        <3>3. t[Len(s) + 1] = c
            BY <1>5
        <3> HIDE DEF t
        <3>4. CASE i = Len(s) + 1
            <4>1. \A k \in 1..(Len(s) + 1) : t[i] = t[k] => i = k
                BY <1>5, <3>2, <3>3, <3>4
            <4>2. t[i] = c
                BY <3>3, <3>4
            <4>3. t[i] \in DOMAIN Channels' \ toLoad' /\ EdgeOf[t[i]] = E
                BY <4>2
            <4> HIDE DEF s, E
            <4>. QED
                BY <2>2, <3>1, <4>1, <4>3
        <3>5. CASE i \in 1..Len(s)
            <4>1. /\ s[i] \in DOMAIN Channels \ toLoad /\ EdgeOf[s[i]] = E
                  /\ \A k \in 1..Len(s) : s[i] = s[k] => i = k
                BY <1>1, <1>5, <3>5 DEF IInv, ViewsAgree
            <4>2. \A k \in 1..(Len(s) + 1) : t[i] = t[k] => i = k
                BY <1>5, <3>2, <3>3, <3>5, <4>1
            <4>3. t[i] = s[i]
                BY <3>2, <3>5
            <4>. QED
                BY <2>2, <3>1, <4>1, <4>2, <4>3
        <3>. QED
            BY <1>5, <1>7, <3>1, <3>4, <3>5
    <2>. QED
        BY <2>1, <2>2
<1>8. ASSUME NEW d \in DOMAIN Channels' \ toLoad'
      PROVE  \E i \in DOMAIN Inbound'[EdgeOf[d]] : Inbound'[EdgeOf[d]][i] = d
    <2>1. CASE d = c
        BY <1>3, <1>5, <2>1
    <2>2. CASE d # c
        <3>1. d \in DOMAIN Channels \ toLoad /\ d \in Id
            BY <1>8, <2>2 DEF IInv, Shape
        <3>2. EdgeOf[d] \in Edge
            BY <3>1, EdgesAssumption
        <3>3. PICK i \in DOMAIN Inbound[EdgeOf[d]] : Inbound[EdgeOf[d]][i] = d
            BY <3>1 DEF IInv, ViewsAgree
        <3>4. CASE EdgeOf[d] = E
            BY <1>3, <1>5, <3>3, <3>4
        <3>5. CASE EdgeOf[d] # E
            BY <1>3, <3>2, <3>3, <3>5
        <3>. QED
            BY <3>4, <3>5
    <2>. QED
        BY <2>1, <2>2
<1>. QED
    BY <1>4, <1>7, <1>8 DEF ViewsAgree

\* DeleteChannel: the channel leaves both views, the one that is moved stays.
LEMMA DeleteAgrees ==
    ASSUME IInv, NEW c \in DOMAIN Channels, toLoad = {}, toLoad' = {}, DeleteChannel(c)
    PROVE  /\ DOMAIN Channels' = DOMAIN Channels \ {c}
           /\ Inbound' \in [Edge -> Seq(Id)]
           /\ ViewsAgree'
<1> DEFINE E == EdgeOf[c]
           s == Inbound[E]
<1>1. c \in Id /\ E \in Edge /\ Inbound \in [Edge -> Seq(Id)] /\ s \in Seq(Id)
    BY EdgesAssumption DEF IInv, Shape
<1>2. DOMAIN Channels' = DOMAIN Channels \ {c}
    BY WithoutDomain DEF DeleteChannel
<1>3. PICK i \in DOMAIN s : s[i] = c /\ Inbound' = [Inbound EXCEPT ![E] = Remove(s, i)]
    BY DEF DeleteChannel
<1> DEFINE r == Remove(s, i)
<1>4. Inbound'[E] = r /\ \A e \in Edge \ {E} : Inbound'[e] = Inbound[e]
    BY <1>1, <1>3
<1>5. /\ r \in Seq(Id) /\ Len(r) = Len(s) - 1
      /\ \A k \in 1..(Len(s) - 1) : r[k] = IF k = i THEN s[Len(s)] ELSE s[k]
  <2> HIDE DEF s
  <2>. QED
      BY <1>1, RemoveIs
<1>6. Inbound' \in [Edge -> Seq(Id)]
    BY <1>1, <1>3, <1>5
<1>7. Len(s) \in Nat /\ Len(s) > 0 /\ DOMAIN s = 1..Len(s) /\ DOMAIN r = 1..(Len(s) - 1)
    BY <1>1, <1>5
<1> HIDE DEF r
<1>8. \A j, k \in 1..Len(s) : s[j] = s[k] => j = k
    BY <1>1, <1>7 DEF IInv, ViewsAgree
<1>9. \A k \in 1..Len(s) : s[k] \in DOMAIN Channels \ toLoad /\ EdgeOf[s[k]] = E
    BY <1>1, <1>7 DEF IInv, ViewsAgree
<1>10. \A k \in 1..(Len(s) - 1) : r[k] # c /\ \E j \in 1..Len(s) : r[k] = s[j]
    BY <1>3, <1>5, <1>7, <1>8
<1>11. ASSUME NEW j \in 1..(Len(s) - 1), NEW k \in 1..(Len(s) - 1), r[j] = r[k]
       PROVE  j = k
    <2> DEFINE m(n) == IF n = i THEN Len(s) ELSE n
    <2>1. r[j] = s[m(j)] /\ r[k] = s[m(k)]
        BY <1>5
    <2>2. m(j) \in 1..Len(s) /\ m(k) \in 1..Len(s)
        BY <1>7
    <2>3. m(j) = m(k)
        BY <1>8, <1>11, <2>1, <2>2
    <2>. QED
        BY <1>7, <2>3
<1>12. ASSUME NEW e \in Edge, NEW n \in DOMAIN Inbound'[e]
       PROVE  /\ Inbound'[e][n] \in DOMAIN Channels' \ toLoad'
              /\ EdgeOf[Inbound'[e][n]] = e
              /\ \A k \in DOMAIN Inbound'[e] : Inbound'[e][n] = Inbound'[e][k] => n = k
    <2>1. CASE e # E
        <3>1. Inbound'[e] = Inbound[e]
            BY <1>4, <2>1
        <3>2. /\ Inbound[e][n] \in DOMAIN Channels \ toLoad
              /\ EdgeOf[Inbound[e][n]] = e
              /\ \A k \in DOMAIN Inbound[e] : Inbound[e][n] = Inbound[e][k] => n = k
            BY <3>1, <1>12 DEF IInv, ViewsAgree
        <3>3. Inbound[e][n] # c
            BY <2>1, <3>2
        <3>. QED
            BY <1>2, <3>1, <3>2, <3>3
    <2>2. CASE e = E
        <3>1. n \in 1..(Len(s) - 1) /\ Inbound'[e] = r
            BY <1>4, <1>7, <1>12, <2>2
        <3>2. Inbound'[e][n] \in DOMAIN Channels' \ toLoad' /\ EdgeOf[Inbound'[e][n]] = e
            BY <1>2, <1>9, <1>10, <2>2, <3>1
        <3>3. \A k \in DOMAIN Inbound'[e] : Inbound'[e][n] = Inbound'[e][k] => n = k
            BY <1>7, <1>11, <3>1
        <3>. QED
            BY <3>2, <3>3
    <2>. QED
        BY <2>1, <2>2
<1>13. ASSUME NEW d \in DOMAIN Channels' \ toLoad'
       PROVE  \E n \in DOMAIN Inbound'[EdgeOf[d]] : Inbound'[EdgeOf[d]][n] = d
    <2>1. d \in DOMAIN Channels \ toLoad /\ d \in Id /\ d # c
        BY <1>2, <1>13 DEF IInv, Shape
    <2>2. EdgeOf[d] \in Edge
        BY <2>1, EdgesAssumption
    <2>3. PICK n \in DOMAIN Inbound[EdgeOf[d]] : Inbound[EdgeOf[d]][n] = d
        BY <2>1 DEF IInv, ViewsAgree
    <2>4. CASE EdgeOf[d] # E
        BY <1>4, <2>2, <2>3, <2>4
    <2>5. CASE EdgeOf[d] = E
        <3>1. n \in 1..Len(s) /\ s[n] = d /\ n # i
            BY <1>3, <1>7, <2>1, <2>3, <2>5
        <3>2. CASE n = Len(s)
            <4>1. i \in 1..(Len(s) - 1) /\ r[i] = d
                BY <1>3, <1>5, <1>7, <3>1, <3>2
            <4>. QED
                BY <1>4, <1>7, <2>5, <4>1
        <3>3. CASE n # Len(s)
            <4>1. n \in 1..(Len(s) - 1) /\ r[n] = d
                BY <1>5, <1>7, <3>1, <3>3
            <4>. QED
                BY <1>4, <1>7, <2>5, <4>1
        <3>. QED
            BY <3>2, <3>3
    <2>. QED
        BY <2>4, <2>5
<1>. QED
    BY <1>2, <1>6, <1>12, <1>13 DEF ViewsAgree

\* A turn of the loop of RefreshChannels.
LEMMA StoreAgrees ==
    ASSUME IInv, toLoad = {}, toLoad' = {}, NEW c \in Id, NEW update, StoreChannel(c, update)
    PROVE  DOMAIN Channels' \subseteq Id /\ Inbound' \in [Edge -> Seq(Id)] /\ ViewsAgree'
<1>1. CASE c \in DOMAIN Channels
    <2>1. DOMAIN Channels' = DOMAIN Channels /\ Inbound' = Inbound
        BY <1>1 DEF StoreChannel
    <2>. QED
        BY <2>1 DEF IInv, Shape, ViewsAgree
<1>2. CASE c \notin DOMAIN Channels
    <2>1. DOMAIN Channels' = DOMAIN Channels \cup {c} /\ AddChannel(c)
        BY <1>2, SetDomain DEF StoreChannel
    <2>2. DOMAIN Channels' \subseteq Id
        BY <2>1 DEF IInv, Shape
    <2>. QED
        BY <1>2, <2>1, <2>2, AddAgrees
<1>. QED
    BY <1>1, <1>2

---------------------------------------------------------------------------
(* The invariant *)

\* Before the first start the graph is empty.
LEMMA InitOK == Init => IInv
<1> SUFFICES ASSUME Init PROVE IInv
    OBVIOUS
<1>1. DOMAIN Channels = {} /\ DOMAIN file \subseteq Id
    BY FilesAssumption DEF Init, EmptyGraph
<1>2. Inbound \in [Edge -> Seq(Id)] /\ \A e \in Edge : Inbound[e] = <<>>
    BY DEF Init
<1>. QED
    BY <1>1, <1>2 DEF Init, IInv, Shape, ViewsAgree

\* Every step keeps both views of the channels in agreement.
LEMMA NextOK == IInv /\ [Next]_vars => IInv'
<1> SUFFICES ASSUME IInv, [Next]_vars PROVE IInv'
    OBVIOUS
<1>1. ASSUME UNCHANGED <<Channels, Inbound, toLoad, up, file>> PROVE IInv'
    BY <1>1 DEF IInv, Shape, ViewsAgree
<1>2. ASSUME NEW j \in Job, refreshGraph(j) PROVE IInv'
    <2>1. CASE ListChannels(j) \/ BeginRefresh(j) \/ EndRefresh(j) \/ BeginPrune(j)
               \/ EndPrune(j) \/ GiveUp(j)
        BY <1>1, <2>1 DEF ListChannels, BeginRefresh, EndRefresh, BeginPrune, EndPrune,
                          GiveUp, graph
    <2>2. ASSUME NEW c \in Id, RefreshChannel(j, c) PROVE IInv'
        <3>1. /\ up = "running" /\ up' = up /\ toLoad' = toLoad /\ file' = file
              /\ StoreChannel(c, answer[j][c])
            BY <2>2 DEF RefreshChannel, Goes
        <3>2. toLoad = {}
            BY <3>1 DEF IInv, Shape
        <3>3. DOMAIN Channels' \subseteq Id /\ Inbound' \in [Edge -> Seq(Id)] /\ ViewsAgree'
            BY <3>1, <3>2, StoreAgrees
        <3>. QED
            BY <3>1, <3>2, <3>3 DEF IInv, Shape
    <2>3. ASSUME NEW c \in Id, PruneChannel(j, c) PROVE IInv'
        <3>1. /\ up = "running" /\ up' = up /\ toLoad' = toLoad /\ file' = file
              /\ c \in DOMAIN Channels /\ DeleteChannel(c)
            BY <2>3 DEF PruneChannel, Goes
        <3>2. toLoad = {}
            BY <3>1 DEF IInv, Shape
        <3>3. /\ DOMAIN Channels' = DOMAIN Channels \ {c}
              /\ Inbound' \in [Edge -> Seq(Id)] /\ ViewsAgree'
            BY <3>1, <3>2, DeleteAgrees
        <3>. QED
            BY <3>1, <3>2, <3>3 DEF IInv, Shape
    <2>4. CASE SaveGraphToFile(j)
        BY <2>4 DEF SaveGraphToFile, graph, IInv, Shape, ViewsAgree
    <2>. QED
        BY <1>2, <2>1, <2>2, <2>3, <2>4 DEF refreshGraph
<1>3. CASE RefreshLiquidity
    <2>1. /\ DOMAIN Channels' = DOMAIN Channels
          /\ UNCHANGED <<Inbound, toLoad, up, file>> /\ up = "running"
        BY <1>3 DEF RefreshLiquidity
    <2>. QED
        BY <2>1 DEF IInv, Shape, ViewsAgree
<1>4. CASE LoadGraphFromFile
    <2>1. /\ DOMAIN Channels' = DOMAIN file /\ toLoad' = DOMAIN file
          /\ Inbound' = Inbound /\ file' = file /\ up' = "loading" /\ up = "down"
        BY <1>4 DEF LoadGraphFromFile
    <2>2. \A e \in Edge : Inbound'[e] = <<>>
        BY <2>1 DEF IInv, Shape
    <2>3. ViewsAgree'
        BY <2>1, <2>2 DEF ViewsAgree
    <2>. QED
        BY <2>1, <2>3 DEF IInv, Shape
<1>5. ASSUME NEW c \in Id, LoadChannel(c) PROVE IInv'
    <2>1. /\ up = "loading" /\ up' = up /\ c \in toLoad /\ toLoad' = toLoad \ {c}
          /\ Channels' = Channels /\ file' = file /\ AddChannel(c)
        BY <1>5 DEF LoadChannel
    <2>2. /\ DOMAIN Channels' = DOMAIN Channels \cup {c}
          /\ DOMAIN Channels' \ toLoad' = (DOMAIN Channels \ toLoad) \cup {c}
        BY <2>1 DEF IInv, Shape
    <2>3. Inbound' \in [Edge -> Seq(Id)] /\ ViewsAgree'
        BY <2>1, <2>2, AddAgrees
    <2>. QED
        BY <2>1, <2>3 DEF IInv, Shape
<1>6. CASE Loaded
    BY <1>6 DEF Loaded, graph, IInv, Shape, ViewsAgree
<1>7. CASE Crash
    <2>1. /\ Inbound' = [e \in Edge |-> <<>>] /\ DOMAIN Channels' = {}
          /\ toLoad' = {} /\ up' = "down" /\ file' = file
        BY <1>7 DEF Crash, EmptyGraph
    <2>2. Inbound' \in [Edge -> Seq(Id)] /\ \A e \in Edge : Inbound'[e] = <<>>
        BY <2>1
    <2>. QED
        BY <2>1, <2>2 DEF IInv, Shape, ViewsAgree
<1>8. CASE \/ \E c \in Id : Update(c) \/ Close(c)
           \/ Tick
           \/ UNCHANGED vars
    BY <1>1, <1>8 DEF Update, Close, Tick, vars, graph
<1>. QED
    BY <1>2, <1>3, <1>4, <1>5, <1>6, <1>7, <1>8 DEF Next, Load

\* The map of channels and the adjacency list that path finding walks hold the
\* same channels, each once (graph.go:76-147, file.go:35).
THEOREM MapAndListAgree == Spec => []ViewsAgree
<1>1. Spec => []IInv
    BY InitOK, NextOK, PTL DEF Spec
<1>. QED
    BY <1>1, PTL DEF IInv
=============================================================================
