------------------------- MODULE WebSockets_proofs -------------------------
(***************************************************************************)
(* Three properties of the WebSocket server for every number of clients,   *)
(* runs, attempts and buffers: the list of sockets is the list of the      *)
(* clients that are served; no attempt is heard after the end of its run;  *)
(* broadcasts are heard in one order.  The second needs to know what is    *)
(* being broadcast: the attempts of runs that wait for it, the results of  *)
(* runs that are over.  The third needs that one broadcast sends at a      *)
(* time, and that what it sends was never broadcast before.                *)
(***************************************************************************)
EXTENDS WebSockets, SequenceTheorems, TLAPS

Updates(r) == {<<"rebalanceupdate", r, n>> : n \in Nat}
Message == UNION {Updates(r) \cup Answers(r) : r \in Run}

Shape ==
    /\ \A c \in Client : conn[c] = "none" => handler[c] = "none"
    /\ conn \in [Client -> {"none", "open", "closed", "broken"}]
    /\ handler \in [Client -> {"none", "started", "receiving", "ended"}]
    /\ request \in [Client -> {"none", "query"} \cup Run]
    /\ activeWebSockets \in Seq(Client)
    /\ heard \in [Client -> Seq(Message)]
    /\ run \in [Run -> {"idle", "asked", "ready", "attempting", "paying", "over"}]
    /\ attempt \in [Run -> Nat]
    /\ step \in [Broadcaster -> {"idle", "waiting", "sending"}]
    /\ message \in [Broadcaster -> Message \cup {NoMessage}]
    /\ todo \in [Broadcaster -> Seq(Client)]

\* A run that a client asked for has not begun, and nobody else asked for it.
AskedOnce ==
    \A c \in Client : request[c] \in Run =>
        /\ run[request[c]] = "asked"
        /\ \A d \in Client : request[d] = request[c] => d = c

\* An attempt is broadcast while its run waits, an end after the run.
BroadcastOfRun ==
    \A r \in Run :
        /\ step[<<r, "attempt">>] # "idle" =>
              run[r] = "attempting" /\ message[<<r, "attempt">>] \in Updates(r)
        /\ step[<<r, "answer">>] # "idle" =>
              /\ message[<<r, "answer">>] \in Answers(r)
              /\ message[<<r, "answer">>][1] = "rebalanceend" => run[r] = "over"

EndsAreOver ==
    \A c \in Client : \A i \in DOMAIN heard[c] :
        heard[c][i][1] = "rebalanceend" => run[heard[c][i][2]] = "over"

Telling == AskedOnce /\ BroadcastOfRun /\ EndsAreOver /\ NothingAfterTheEnd

IInv == Shape /\ RegisteredWhileServed /\ Telling

---------------------------------------------------------------------------
(* Operators *)

\* The removal of a socket: one shorter, the last one in the place of the i-th.
LEMMA SwapRemoveIs ==
    ASSUME NEW S, NEW s \in Seq(S), NEW i \in DOMAIN s
    PROVE  /\ SwapRemove(s, i) \in Seq(S)
           /\ DOMAIN SwapRemove(s, i) = 1..(Len(s) - 1)
           /\ \A k \in 1..(Len(s) - 1) :
                 SwapRemove(s, i)[k] = IF k = i THEN s[Len(s)] ELSE s[k]
<1> DEFINE t == [s EXCEPT ![i] = s[Len(s)]]
<1>1. Len(s) \in Nat /\ Len(s) > 0 /\ i \in 1..Len(s) /\ s[Len(s)] \in S
    OBVIOUS
<1>2. t \in Seq(S) /\ Len(t) = Len(s)
    BY <1>1
<1>3. \A k \in 1..Len(s) : t[k] = IF k = i THEN s[Len(s)] ELSE s[k]
    BY <1>1
<1> HIDE DEF t
<1>4. /\ SubSeq(t, 1, Len(s) - 1) \in Seq(S)
      /\ Len(SubSeq(t, 1, Len(s) - 1)) = Len(s) - 1
      /\ \A k \in 1..(Len(s) - 1) : SubSeq(t, 1, Len(s) - 1)[k] = t[k]
    BY <1>1, <1>2
<1>5. SwapRemove(s, i) = SubSeq(t, 1, Len(s) - 1)
    BY DEF SwapRemove, t
<1>. QED
    BY <1>1, <1>3, <1>4, <1>5

\* What a message says: its kind and its run.
LEMMA MessageSays ==
    ASSUME NEW r
    PROVE  /\ \A m \in Updates(r) : m[1] = "rebalanceupdate" /\ m[2] = r
           /\ \A m \in Answers(r) : m[1] # "rebalanceupdate" /\ m[2] = r
BY DEF Updates, Answers

\* A run has two broadcasters, itself and the goroutine of its request.
LEMMA Broadcasters ==
    /\ \A r \in Run : <<r, "attempt">> \in Broadcaster /\ <<r, "answer">> \in Broadcaster
    /\ \A b \in Broadcaster : b[1] \in Run /\ (b = <<b[1], "attempt">> \/ b = <<b[1], "answer">>)
    /\ \A x, y \in Run : /\ <<x, "attempt">> # <<y, "answer">>
                         /\ <<x, "attempt">> = <<y, "attempt">> => x = y
                         /\ <<x, "answer">> = <<y, "answer">> => x = y
BY DEF Broadcaster

\* Every message is about a run.
LEMMA HeardRuns ==
    ASSUME Shape
    PROVE  \A c \in Client : \A i \in DOMAIN heard[c] : heard[c][i][2] \in Run
<1> SUFFICES ASSUME NEW c \in Client, NEW i \in DOMAIN heard[c] PROVE heard[c][i][2] \in Run
    OBVIOUS
<1>1. heard[c][i] \in Message
    BY DEF Shape
<1>. QED
    BY <1>1, MessageSays DEF Message

---------------------------------------------------------------------------
(* The list of sockets *)

\* A handler that begins to receive registers its socket (websocket.go:84).
LEMMA RegisterAgrees ==
    ASSUME Shape, RegisteredWhileServed, NEW c \in Client, Register(c)
    PROVE  activeWebSockets' \in Seq(Client) /\ RegisteredWhileServed'
<1> DEFINE s == activeWebSockets
<1>1. s \in Seq(Client) /\ s' = Append(s, c)
    BY DEF Shape, Register
<1>2. /\ DOMAIN s = 1..Len(s) /\ DOMAIN s' = 1..(Len(s) + 1) /\ Len(s) \in Nat
      /\ s'[Len(s) + 1] = c /\ \A k \in 1..Len(s) : s'[k] = s[k]
    BY <1>1
<1>3. \A i \in DOMAIN s : s[i] # c
    BY DEF RegisteredWhileServed, Register
<1>4. \A d \in Client :
        handler'[d] = "receiving" <=> handler[d] = "receiving" \/ d = c
    BY DEF Register, Shape
<1>5. \A i, k \in DOMAIN s' : s'[i] = s'[k] => i = k
    BY <1>2, <1>3 DEF RegisteredWhileServed
<1>6. \A d \in Client : handler'[d] = "receiving" <=> \E i \in DOMAIN s' : s'[i] = d
  <2> TAKE d \in Client
  <2>1. (\E i \in DOMAIN s' : s'[i] = d) <=> (\E i \in DOMAIN s : s[i] = d) \/ d = c
      BY <1>2
  <2>. QED
      BY <2>1, <1>4 DEF RegisteredWhileServed
<1>. QED
    BY <1>1, <1>5, <1>6 DEF RegisteredWhileServed

\* A handler that ends takes its socket out, and only that (websocket.go:94).
LEMMA UnregisterAgrees ==
    ASSUME Shape, RegisteredWhileServed, NEW c \in Client, Unregister(c)
    PROVE  activeWebSockets' \in Seq(Client) /\ RegisteredWhileServed'
<1> DEFINE s == activeWebSockets
<1>1. PICK i \in DOMAIN s : s[i] = c /\ s' = SwapRemove(s, i)
    BY DEF Unregister
<1>2. /\ s \in Seq(Client) /\ Len(s) \in Nat /\ DOMAIN s = 1..Len(s)
      /\ s' \in Seq(Client) /\ DOMAIN s' = 1..(Len(s) - 1)
      /\ \A k \in 1..(Len(s) - 1) : s'[k] = IF k = i THEN s[Len(s)] ELSE s[k]
  <2>1. s \in Seq(Client) /\ Len(s) \in Nat /\ DOMAIN s = 1..Len(s)
      BY DEF Shape
  <2> HIDE DEF s
  <2>. QED
      BY <1>1, <2>1, SwapRemoveIs
<1>3. \A d \in Client :
        handler'[d] = "receiving" <=> handler[d] = "receiving" /\ d # c
    BY DEF Unregister, Shape
<1>4. \A j, k \in DOMAIN s : s[j] = s[k] => j = k
    BY DEF RegisteredWhileServed
<1>5. \A j, k \in DOMAIN s' : s'[j] = s'[k] => j = k
    BY <1>2, <1>4
<1>6. \A d \in Client : handler'[d] = "receiving" <=> \E k \in DOMAIN s' : s'[k] = d
  <2> TAKE d \in Client
  <2>1. ASSUME NEW k \in DOMAIN s', s'[k] = d PROVE (\E j \in DOMAIN s : s[j] = d) /\ d # c
      BY <2>1, <1>1, <1>2, <1>4
  <2>2. ASSUME NEW j \in DOMAIN s, s[j] = d, d # c PROVE \E k \in DOMAIN s' : s'[k] = d
    <3>1. CASE j = Len(s)
        BY <2>2, <3>1, <1>1, <1>2
    <3>2. CASE j # Len(s)
        BY <2>2, <3>2, <1>1, <1>2
    <3>. QED
        BY <3>1, <3>2
  <2>. QED
      BY <2>1, <2>2, <1>3 DEF RegisteredWhileServed
<1>. QED
    BY <1>2, <1>5, <1>6 DEF RegisteredWhileServed

---------------------------------------------------------------------------
(* What is told, action by action *)

told == <<request, run, step, message, heard>>

\* Nothing is told by a step that changes none of these.
LEMMA QuietSteps ==
    ASSUME Telling, UNCHANGED told
    PROVE  Telling'
BY DEF Telling, AskedOnce, BroadcastOfRun, EndsAreOver, NothingAfterTheEnd, told

\* A request is read or lost.
LEMMA ForgottenRequest ==
    ASSUME Shape, Telling, NEW c \in Client,
           request' = [request EXCEPT ![c] = "none"],
           UNCHANGED <<run, step, message, heard>>
    PROVE  Telling'
<1>1. AskedOnce'
    BY RunsAssumption DEF Shape, Telling, AskedOnce
<1>. QED
    BY <1>1 DEF Telling, BroadcastOfRun, EndsAreOver, NothingAfterTheEnd

\* A run moves on that nobody asks for any more and that waits for no broadcast.
LEMMA RunMovesOn ==
    ASSUME Shape, Telling, NEW r \in Run, NEW to,
           run' = [run EXCEPT ![r] = to],
           run[r] # "over" \/ to = "over",
           step[<<r, "attempt">>] = "idle",
           \A c \in Client : request[c] # r,
           UNCHANGED <<request, step, message, heard>>
    PROVE  Telling'
<1>1. AskedOnce'
    BY DEF Shape, Telling, AskedOnce
<1>2. BroadcastOfRun'
    BY DEF Shape, Telling, BroadcastOfRun
<1>3. ASSUME NEW x \in Run, run[x] = "over" PROVE run'[x] = "over"
    BY <1>3 DEF Shape
<1>4. EndsAreOver'
    BY <1>3, HeardRuns DEF Telling, EndsAreOver
<1>. QED
    BY <1>1, <1>2, <1>4 DEF Telling, NothingAfterTheEnd

\* A client asks for a run that nobody has begun.
LEMMA AskTells ==
    ASSUME Shape, Telling, NEW c \in Client, Ask(c)
    PROVE  Telling'
<1>1. CASE request' = [request EXCEPT ![c] = "query"] /\ UNCHANGED run
  <2>1. AskedOnce'
      BY <1>1, RunsAssumption DEF Shape, Telling, AskedOnce
  <2>. QED
      BY <1>1, <2>1 DEF Ask, buffers, broadcasts, Telling, BroadcastOfRun, EndsAreOver,
                        NothingAfterTheEnd
<1>2. ASSUME NEW r \in Run, request' = [request EXCEPT ![c] = r], run[r] = "idle",
             run' = [run EXCEPT ![r] = "asked"]
      PROVE  Telling'
  <2>1. \A d \in Client : request[d] # r
      BY <1>2 DEF Telling, AskedOnce
  <2>2. \A d \in Client : request'[d] = IF d = c THEN r ELSE request[d]
      BY <1>2 DEF Shape
  <2>3. \A x \in Run : run'[x] = IF x = r THEN "asked" ELSE run[x]
      BY <1>2 DEF Shape
  <2>4. AskedOnce'
      BY <2>1, <2>2, <2>3 DEF Telling, AskedOnce
  <2>5. BroadcastOfRun'
      BY <1>2, <2>3 DEF Telling, BroadcastOfRun, Ask, broadcasts
  <2>6. \A x \in Run : run[x] = "over" => run'[x] = "over"
      BY <1>2 DEF Shape
  <2>. QED
      BY <2>4, <2>5, <2>6, HeardRuns DEF Ask, buffers, Telling, EndsAreOver, NothingAfterTheEnd
<1>. QED
    BY <1>1, <1>2 DEF Ask

\* rebalancebyscid: the request goes and the run may begin.
LEMMA RebalanceTells ==
    ASSUME Shape, Telling, NEW c \in Client, NEW r \in Run, Rebalance(c, r)
    PROVE  Telling'
<1>1. /\ request[c] = r /\ run[r] = "asked" /\ \A d \in Client : request[d] = r => d = c
      /\ request' = [request EXCEPT ![c] = "none"] /\ run' = [run EXCEPT ![r] = "ready"]
      /\ UNCHANGED <<step, message, heard>>
    BY DEF Rebalance, Receives, buffers, broadcasts, Telling, AskedOnce
<1>2. \A d \in Client : request'[d] = IF d = c THEN "none" ELSE request[d]
    BY <1>1 DEF Shape
<1>3. \A x \in Run : run'[x] = IF x = r THEN "ready" ELSE run[x]
    BY <1>1 DEF Shape
<1>4. AskedOnce'
    BY <1>1, <1>2, <1>3, RunsAssumption DEF Telling, AskedOnce
<1>5. BroadcastOfRun'
    BY <1>1, <1>3 DEF Telling, BroadcastOfRun
<1>6. \A x \in Run : run[x] = "over" => run'[x] = "over"
    BY <1>1 DEF Shape
<1>. QED
    BY <1>1, <1>4, <1>5, <1>6, HeardRuns DEF Telling, EndsAreOver, NothingAfterTheEnd

\* A run begins, pays or ends.
LEMMA RunTells ==
    ASSUME Shape, Telling, NEW r \in Run, Command(r) \/ SendPay(r) \/ EndRun(r)
    PROVE  Telling'
<1>1. /\ run[r] \in {"idle", "paying", "ready"}
      /\ \E to \in {"ready", "over"} : run' = [run EXCEPT ![r] = to]
      /\ UNCHANGED <<request, step, message, heard>>
    BY DEF Command, SendPay, EndRun, clients, buffers, broadcasts
<1>2. step[<<r, "attempt">>] = "idle" /\ \A c \in Client : request[c] # r
    BY <1>1 DEF Telling, BroadcastOfRun, AskedOnce
<1>. QED
    BY <1>1, <1>2, RunMovesOn

\* SendRebalanceAttempt: the run waits for its broadcast.
LEMMA AttemptTells ==
    ASSUME Shape, Telling, NEW r \in Run, SendRebalanceAttempt(r)
    PROVE  Telling'
<1> DEFINE b == <<r, "attempt">>
<1>1. /\ run[r] = "ready" /\ run' = [run EXCEPT ![r] = "attempting"]
      /\ step' = [step EXCEPT ![b] = "waiting"]
      /\ message' = [message EXCEPT ![b] = actionRebalanceUpdate(r)]
      /\ UNCHANGED <<request, heard>>
    BY DEF SendRebalanceAttempt, Broadcast, clients, buffers
<1>2. actionRebalanceUpdate(r) \in Updates(r)
    BY DEF Shape, actionRebalanceUpdate, Updates
<1>3. \A x \in Run : run'[x] = IF x = r THEN "attempting" ELSE run[x]
    BY <1>1 DEF Shape
<1>4. \A x \in Broadcaster :
        /\ step'[x] = IF x = b THEN "waiting" ELSE step[x]
        /\ message'[x] = IF x = b THEN actionRebalanceUpdate(r) ELSE message[x]
    BY <1>1 DEF Shape
<1>5. AskedOnce'
    BY <1>1, <1>3 DEF Telling, AskedOnce
<1>6. BroadcastOfRun'
  <2> SUFFICES ASSUME NEW x \in Run
               PROVE  /\ step'[<<x, "attempt">>] # "idle" =>
                            run'[x] = "attempting" /\ message'[<<x, "attempt">>] \in Updates(x)
                      /\ step'[<<x, "answer">>] # "idle" =>
                            /\ message'[<<x, "answer">>] \in Answers(x)
                            /\ message'[<<x, "answer">>][1] = "rebalanceend" => run'[x] = "over"
      BY DEF BroadcastOfRun
  <2>1. /\ step'[<<x, "answer">>] = step[<<x, "answer">>]
        /\ message'[<<x, "answer">>] = message[<<x, "answer">>]
      BY <1>4, Broadcasters
  <2>2. CASE x = r
      BY <2>1, <2>2, <1>1, <1>2, <1>3, <1>4, Broadcasters DEF Telling, BroadcastOfRun
  <2>3. CASE x # r
    <3>1. /\ step'[<<x, "attempt">>] = step[<<x, "attempt">>]
          /\ message'[<<x, "attempt">>] = message[<<x, "attempt">>]
        BY <2>3, <1>4, Broadcasters
    <3>. QED
        BY <2>1, <2>3, <3>1, <1>3 DEF Telling, BroadcastOfRun
  <2>. QED
      BY <2>2, <2>3
<1>7. \A x \in Run : run[x] = "over" => run'[x] = "over"
    BY <1>1 DEF Shape
<1>. QED
    BY <1>1, <1>5, <1>6, <1>7, HeardRuns DEF Telling, EndsAreOver, NothingAfterTheEnd

\* The goroutine of a request broadcasts its result, an end only of a run that is over.
LEMMA AnswerTells ==
    ASSUME Shape, Telling, NEW r \in Run, Answer(r)
    PROVE  Telling'
<1> DEFINE b == <<r, "answer">>
<1>1. PICK m \in Answers(r) :
        /\ m[1] = "rebalanceend" => run[r] = "over"
        /\ step' = [step EXCEPT ![b] = "waiting"]
        /\ message' = [message EXCEPT ![b] = m]
        /\ UNCHANGED <<request, run, heard>>
    BY DEF Answer, Broadcast, clients, buffers
<1>2. \A x \in Broadcaster :
        /\ step'[x] = IF x = b THEN "waiting" ELSE step[x]
        /\ message'[x] = IF x = b THEN m ELSE message[x]
    BY <1>1 DEF Shape
<1>3. BroadcastOfRun'
  <2> SUFFICES ASSUME NEW x \in Run
               PROVE  /\ step'[<<x, "attempt">>] # "idle" =>
                            run'[x] = "attempting" /\ message'[<<x, "attempt">>] \in Updates(x)
                      /\ step'[<<x, "answer">>] # "idle" =>
                            /\ message'[<<x, "answer">>] \in Answers(x)
                            /\ message'[<<x, "answer">>][1] = "rebalanceend" => run'[x] = "over"
      BY DEF BroadcastOfRun
  <2>1. /\ step'[<<x, "attempt">>] = step[<<x, "attempt">>]
        /\ message'[<<x, "attempt">>] = message[<<x, "attempt">>]
      BY <1>2, Broadcasters
  <2>2. CASE x = r
      BY <2>1, <2>2, <1>1, <1>2, Broadcasters DEF Telling, BroadcastOfRun
  <2>3. CASE x # r
    <3>1. /\ step'[<<x, "answer">>] = step[<<x, "answer">>]
          /\ message'[<<x, "answer">>] = message[<<x, "answer">>]
        BY <2>3, <1>2, Broadcasters
    <3>. QED
        BY <2>1, <3>1, <1>1 DEF Telling, BroadcastOfRun
  <2>. QED
      BY <2>2, <2>3
<1>. QED
    BY <1>1, <1>3 DEF Telling, AskedOnce, EndsAreOver, NothingAfterTheEnd

\* A broadcast gets the lock.
LEMMA LockTells ==
    ASSUME Shape, Telling, NEW b \in Broadcaster, Lock(b)
    PROVE  Telling'
<1>1. /\ step[b] = "waiting" /\ step' = [step EXCEPT ![b] = "sending"]
      /\ UNCHANGED <<request, run, message, heard>>
    BY DEF Lock, clients, buffers, runs
<1>2. \A x \in Broadcaster : step'[x] # "idle" => step[x] # "idle"
    BY <1>1 DEF Shape
<1>3. BroadcastOfRun'
    BY <1>1, <1>2, Broadcasters DEF Telling, BroadcastOfRun
<1>. QED
    BY <1>1, <1>3 DEF Telling, AskedOnce, EndsAreOver, NothingAfterTheEnd

\* What is sent is a message, and the end of a run only when the run is over.
LEMMA WhatIsSent ==
    ASSUME Telling, NEW b \in Broadcaster, step[b] # "idle"
    PROVE  /\ message[b] \in Message
           /\ message[b][1] = "rebalanceend" => run[message[b][2]] = "over"
           /\ message[b][1] = "rebalanceupdate" => run[message[b][2]] # "over"
<1>1. PICK r \in Run : b = <<r, "attempt">> \/ b = <<r, "answer">>
    BY Broadcasters
<1>2. \A m \in Updates(r) \cup Answers(r) : m \in Message
    BY DEF Message
<1>3. CASE b = <<r, "attempt">>
  <2>1. message[b] \in Updates(r) /\ run[r] = "attempting"
      BY <1>3 DEF Telling, BroadcastOfRun
  <2>. QED
      BY <2>1, <1>2, MessageSays
<1>4. CASE b = <<r, "answer">>
  <2>1. message[b] \in Answers(r) /\ (message[b][1] = "rebalanceend" => run[r] = "over")
      BY <1>4 DEF Telling, BroadcastOfRun
  <2>. QED
      BY <2>1, <1>2, MessageSays
<1>. QED
    BY <1>1, <1>3, <1>4

\* A broadcast reaches a client: an end is heard after the run, an attempt before its end.
LEMMA SendTells ==
    ASSUME Shape, Telling, NEW b \in Broadcaster, Send(b)
    PROVE  heard' \in [Client -> Seq(Message)] /\ Telling'
<1> DEFINE d == Head(todo[b])
           m == message[b]
<1>1. /\ step[b] = "sending" /\ d \in Client
      /\ heard' = [heard EXCEPT ![d] = Append(@, m)]
      /\ UNCHANGED <<request, run, step, message>>
    BY DEF Send, Shape, clients, runs
<1>2. /\ m \in Message
      /\ m[1] = "rebalanceend" => run[m[2]] = "over"
      /\ m[1] = "rebalanceupdate" => run[m[2]] # "over"
    BY <1>1, WhatIsSent
<1> HIDE DEF d, m
<1>3. heard' \in [Client -> Seq(Message)]
    BY <1>1, <1>2 DEF Shape
<1>4. \A c \in Client : c # d => heard'[c] = heard[c]
    BY <1>1 DEF Shape
<1>5. /\ DOMAIN heard[d] = 1..Len(heard[d]) /\ Len(heard[d]) \in Nat
      /\ DOMAIN heard'[d] = 1..(Len(heard[d]) + 1)
      /\ heard'[d][Len(heard[d]) + 1] = m
      /\ \A i \in DOMAIN heard[d] : heard'[d][i] = heard[d][i]
  <2>1. heard[d] \in Seq(Message) /\ heard'[d] = Append(heard[d], m)
      BY <1>1 DEF Shape
  <2>. QED
      BY <2>1, <1>2
<1>6. EndsAreOver'
    BY <1>1, <1>2, <1>4, <1>5 DEF Telling, EndsAreOver
<1>7. NothingAfterTheEnd'
  <2> SUFFICES ASSUME NEW c \in Client, NEW i \in DOMAIN heard'[c], NEW k \in DOMAIN heard'[c],
                      i < k, heard'[c][i][1] = "rebalanceend",
                      heard'[c][k][1] = "rebalanceupdate"
               PROVE  heard'[c][i][2] # heard'[c][k][2]
      BY DEF NothingAfterTheEnd
  <2>1. CASE c # d \/ k \in DOMAIN heard[d]
      BY <2>1, <1>4, <1>5 DEF Telling, NothingAfterTheEnd
  <2>2. CASE c = d /\ k \notin DOMAIN heard[d]
    <3>1. k = Len(heard[d]) + 1 /\ i \in DOMAIN heard[d]
        BY <2>2, <1>5
    <3>2. run[heard'[c][i][2]] = "over" /\ run[heard'[c][k][2]] # "over"
        BY <2>2, <3>1, <1>2, <1>5 DEF Telling, EndsAreOver
    <3>. QED
        BY <3>2
  <2>. QED
      BY <2>1, <2>2
<1>. QED
    BY <1>1, <1>3, <1>6, <1>7 DEF Telling, AskedOnce, BroadcastOfRun

\* The broadcast is over and the run that waits for it goes on.
LEMMA UnlockTells ==
    ASSUME Shape, Telling, NEW b \in Broadcaster, Unlock(b)
    PROVE  Telling'
<1>1. /\ step[b] = "sending" /\ step' = [step EXCEPT ![b] = "idle"]
      /\ message' = [message EXCEPT ![b] = NoMessage]
      /\ UNCHANGED <<request, heard>>
    BY DEF Unlock, clients, buffers
<1>2. \A x \in Broadcaster :
        /\ step'[x] = IF x = b THEN "idle" ELSE step[x]
        /\ x # b => message'[x] = message[x]
    BY <1>1 DEF Shape
<1>3. \A x \in Run : run'[x] # run[x] => b = <<x, "attempt">> /\ run[x] = "attempting"
    BY Broadcasters DEF Unlock, Shape
<1>4. AskedOnce'
    BY <1>1, <1>3 DEF Telling, AskedOnce
<1>5. BroadcastOfRun'
  <2> SUFFICES ASSUME NEW x \in Run
               PROVE  /\ step'[<<x, "attempt">>] # "idle" =>
                            run'[x] = "attempting" /\ message'[<<x, "attempt">>] \in Updates(x)
                      /\ step'[<<x, "answer">>] # "idle" =>
                            /\ message'[<<x, "answer">>] \in Answers(x)
                            /\ message'[<<x, "answer">>][1] = "rebalanceend" => run'[x] = "over"
      BY DEF BroadcastOfRun
  <2>1. /\ <<x, "attempt">> \in Broadcaster /\ <<x, "answer">> \in Broadcaster
        /\ run[x] = "over" => run'[x] = "over"
      BY <1>3, Broadcasters
  <2>2. ASSUME step'[<<x, "attempt">>] # "idle"
        PROVE  run'[x] = "attempting" /\ message'[<<x, "attempt">>] \in Updates(x)
    <3>1. b # <<x, "attempt">>
        BY <2>1, <2>2, <1>2
    <3>2. run'[x] = run[x]
        BY <3>1, <1>3
    <3>. QED
        BY <2>1, <2>2, <3>1, <3>2, <1>2 DEF Telling, BroadcastOfRun
  <2>3. ASSUME step'[<<x, "answer">>] # "idle"
        PROVE  /\ message'[<<x, "answer">>] \in Answers(x)
               /\ message'[<<x, "answer">>][1] = "rebalanceend" => run'[x] = "over"
    <3>1. b # <<x, "answer">>
        BY <2>1, <2>3, <1>2
    <3>. QED
        BY <2>1, <2>3, <3>1, <1>2 DEF Telling, BroadcastOfRun
  <2>. QED
      BY <2>2, <2>3
<1>6. EndsAreOver'
  <2> SUFFICES ASSUME NEW c \in Client, NEW i \in DOMAIN heard[c],
                      heard[c][i][1] = "rebalanceend"
               PROVE  run'[heard[c][i][2]] = "over"
      BY <1>1 DEF EndsAreOver
  <2>1. run[heard[c][i][2]] = "over" /\ heard[c][i][2] \in Run
      BY HeardRuns DEF Telling, EndsAreOver
  <2>. QED
      BY <2>1, <1>3
<1>. QED
    BY <1>1, <1>4, <1>5, <1>6 DEF Telling, NothingAfterTheEnd

---------------------------------------------------------------------------
(* The invariant *)

\* Every step keeps what is told in step with the runs.
LEMMA NextTells ==
    ASSUME IInv, [Next]_vars
    PROVE  Telling'
<1> USE DEF IInv
<1>1. ASSUME NEW c \in Client, Connect(c) \/ Read(c) \/ HangUp(c) \/ Register(c) \/ Unregister(c)
      PROVE  Telling'
    BY <1>1, QuietSteps DEF Connect, Read, HangUp, Register, Unregister, told, clients,
                            buffers, runs, broadcasts
<1>2. ASSUME NEW c \in Client, Break(c) \/ Serve(c) PROVE Telling'
    BY <1>2, ForgottenRequest DEF Break, Serve, Receives, buffers, runs, broadcasts
<1>3. ASSUME NEW b \in Broadcaster, SendError(b) PROVE Telling'
    BY <1>3, QuietSteps DEF SendError, told, clients, buffers, runs
<1>4. CASE UNCHANGED vars
    BY <1>4, QuietSteps DEF vars, told, clients, buffers, runs, broadcasts
<1>. QED
    BY <1>1, <1>2, <1>3, <1>4, AskTells, RebalanceTells, RunTells, AttemptTells,
       AnswerTells, LockTells, SendTells, UnlockTells
    DEF Next, handleWebsocket, tryRoutes, websocketBroadcast

\* Every step keeps the list of sockets that of the clients served.
LEMMA NextRegisters ==
    ASSUME IInv, [Next]_vars
    PROVE  activeWebSockets' \in Seq(Client) /\ RegisteredWhileServed'
<1> USE DEF IInv
<1>1. ASSUME NEW c \in Client, Connect(c) PROVE RegisteredWhileServed'
  <2>1. \A d \in Client : handler'[d] = "receiving" <=> handler[d] = "receiving"
      BY <1>1 DEF Connect, Shape
  <2>. QED
      BY <1>1, <2>1 DEF Connect, RegisteredWhileServed
<1>2. CASE UNCHANGED sockets
    BY <1>2 DEF sockets, RegisteredWhileServed, Shape
<1>. QED
    BY <1>1, <1>2, RegisterAgrees, UnregisterAgrees
    DEF Next, vars, handleWebsocket, tryRoutes, websocketBroadcast, Connect, Ask, Read, HangUp,
        Break, Serve, Rebalance, Command, SendRebalanceAttempt, SendPay, EndRun, Answer,
        Lock, Send, SendError, Unlock, Shape, sockets

\* The types; what is sent is a message.
LEMMA NextKeepsShape ==
    ASSUME IInv, [Next]_vars
    PROVE  Shape'
<1> USE DEF IInv
<1>1. ASSUME NEW c \in Client, Connect(c) \/ Ask(c) \/ Read(c) \/ HangUp(c) \/ Break(c)
      PROVE  Shape'
  <2>1. CASE Connect(c)
      BY <2>1 DEF Connect, Shape, buffers, runs, broadcasts
  <2>2. CASE Ask(c)
      BY <2>2 DEF Ask, Shape, sockets, buffers, broadcasts
  <2>3. CASE Read(c)
      BY <2>3 DEF Read, Shape, clients, sockets, runs, broadcasts
  <2>4. CASE HangUp(c)
      BY <2>4 DEF HangUp, Shape, sockets, runs, broadcasts
  <2>5. CASE Break(c)
      BY <2>5 DEF Break, Shape, sockets, runs, broadcasts
  <2>. QED
      BY <1>1, <2>1, <2>2, <2>3, <2>4, <2>5
<1>2. ASSUME NEW c \in Client, handleWebsocket(c) PROVE Shape'
  <2>1. activeWebSockets' \in Seq(Client)
      BY <1>2, NextRegisters DEF Next
  <2>2. CASE Register(c) \/ Unregister(c)
      BY <2>1, <2>2 DEF Register, Unregister, Shape, clients, buffers, runs, broadcasts
  <2>3. ASSUME NEW r \in Run, Rebalance(c, r) PROVE Shape'
      BY <2>3 DEF Rebalance, Receives, Shape, sockets, buffers, broadcasts
  <2>4. CASE Serve(c)
      BY <2>4 DEF Serve, Receives, Shape, sockets, runs, broadcasts
  <2>. QED
      BY <1>2, <2>2, <2>3, <2>4 DEF handleWebsocket
<1>3. ASSUME NEW r \in Run, Command(r) \/ SendPay(r) \/ EndRun(r) PROVE Shape'
    BY <1>3 DEF Command, SendPay, EndRun, Shape, clients, sockets, buffers, broadcasts
<1>4. ASSUME NEW r \in Run, SendRebalanceAttempt(r) PROVE Shape'
  <2>1. actionRebalanceUpdate(r) \in Message
      BY DEF Shape, actionRebalanceUpdate, Updates, Message
  <2>2. /\ step' \in [Broadcaster -> {"idle", "waiting", "sending"}]
        /\ message' \in [Broadcaster -> Message \cup {NoMessage}]
      BY <1>4, <2>1 DEF SendRebalanceAttempt, Broadcast, Shape
  <2>3. attempt' \in [Run -> Nat]
      BY <1>4 DEF SendRebalanceAttempt, Shape
  <2>. QED
      BY <1>4, <2>2, <2>3 DEF SendRebalanceAttempt, Shape, clients, sockets, buffers
<1>5. ASSUME NEW r \in Run, Answer(r) PROVE Shape'
  <2>1. \A m \in Answers(r) : m \in Message
      BY DEF Message
  <2>2. /\ step' \in [Broadcaster -> {"idle", "waiting", "sending"}]
        /\ message' \in [Broadcaster -> Message \cup {NoMessage}]
    <3>1. PICK m \in Answers(r) : Broadcast(<<r, "answer">>, m)
        BY <1>5 DEF Answer
    <3>. QED
        BY <2>1, <3>1 DEF Broadcast, Shape
  <2>. QED
      BY <1>5, <2>2 DEF Answer, Shape, clients, sockets, buffers
<1>6. ASSUME NEW b \in Broadcaster, websocketBroadcast(b) PROVE Shape'
  <2>1. CASE Lock(b)
      BY <2>1 DEF Lock, Shape, clients, sockets, buffers, runs
  <2>2. CASE Send(b)
    <3>1. heard' \in [Client -> Seq(Message)]
        BY <2>2, SendTells
    <3>2. todo' \in [Broadcaster -> Seq(Client)]
        BY <2>2 DEF Send, Shape
    <3>. QED
        BY <2>2, <3>1, <3>2 DEF Send, Shape, clients, sockets, runs
  <2>3. CASE SendError(b)
    <3>1. todo' \in [Broadcaster -> Seq(Client)]
      <4>1. <<>> \in Seq(Client)
          OBVIOUS
      <4>. QED
          BY <2>3, <4>1 DEF SendError, Shape
    <3>. QED
        BY <2>3, <3>1 DEF SendError, Shape, clients, sockets, buffers, runs
  <2>4. CASE Unlock(b)
    <3>1. run' \in [Run -> {"idle", "asked", "ready", "attempting", "paying", "over"}]
      <4>1. b[1] \in Run /\ run[b[1]] \in {"idle", "asked", "ready", "attempting", "paying", "over"}
          BY Broadcasters DEF Shape
      <4>2. PICK to \in {run[b[1]], "paying"} : run' = run \/ run' = [run EXCEPT ![b[1]] = to]
          BY <2>4 DEF Unlock
      <4>. QED
          BY <4>1, <4>2 DEF Shape
    <3>2. /\ step' \in [Broadcaster -> {"idle", "waiting", "sending"}]
          /\ message' \in [Broadcaster -> Message \cup {NoMessage}]
        BY <2>4 DEF Unlock, Shape
    <3>. QED
        BY <2>4, <3>1, <3>2 DEF Unlock, Shape, clients, sockets, buffers
  <2>. QED
      BY <1>6, <2>1, <2>2, <2>3, <2>4 DEF websocketBroadcast
<1>7. CASE UNCHANGED vars
    BY <1>7 DEF vars, Shape, clients, sockets, buffers, runs, broadcasts
<1>. QED
    BY <1>1, <1>2, <1>3, <1>4, <1>5, <1>6, <1>7 DEF Next, tryRoutes

\* At first there are no clients and no broadcasts.
LEMMA InitIInv == Init => IInv
<1> SUFFICES ASSUME Init PROVE IInv
    OBVIOUS
<1>1. Shape
  <2>1. <<>> \in Seq(Client) /\ <<>> \in Seq(Message)
      OBVIOUS
  <2>. QED
      BY <2>1 DEF Init, Shape
<1>2. RegisteredWhileServed
    BY DEF Init, RegisteredWhileServed
<1>3. Telling
    BY Broadcasters, RunsAssumption DEF Init, Telling, AskedOnce, BroadcastOfRun, EndsAreOver,
                                        NothingAfterTheEnd
<1>. QED
    BY <1>1, <1>2, <1>3 DEF IInv

\* The invariant holds in every reachable state.
THEOREM Invariance == Spec => []IInv
<1>1. IInv /\ [Next]_vars => IInv'
    BY NextKeepsShape, NextRegisters, NextTells DEF IInv
<1>. QED
    BY InitIInv, <1>1, PTL DEF Spec

---------------------------------------------------------------------------
(* The order of broadcasts *)

IsPending(c, b) == \E i \in DOMAIN todo[b] : todo[b][i] = c

\* One broadcast sends at a time, to each socket once; who is not registered
\* heard nothing.
Senders ==
    /\ waiter \in [Run -> {"none", "waiting", "telling", "done"}]
    /\ cut \in BOOLEAN
    /\ \A a, b \in Broadcaster : step[a] = "sending" /\ step[b] = "sending" => a = b
    /\ \A b \in Broadcaster :
        /\ todo[b] # <<>> => step[b] = "sending"
        /\ \A i, k \in DOMAIN todo[b] : todo[b][i] = todo[b][k] => i = k
    /\ \A c \in Client : handler[c] \in {"none", "started"} =>
        /\ heard[c] = <<>>
        /\ \A b \in Broadcaster : ~IsPending(c, b)

\* No message is broadcast twice: attempts are numbered, a request is answered once.
Numbered ==
    \A r \in Run :
        /\ run[r] \in {"idle", "asked"} => waiter[r] = "none"
        /\ step[<<r, "attempt">>] # "idle" =>
              /\ attempt[r] > 0
              /\ message[<<r, "attempt">>] = <<"rebalanceupdate", r, attempt[r] - 1>>
        /\ step[<<r, "answer">>] # "idle" => waiter[r] = "telling"

\* What was heard was heard once and is not broadcast again; what is being
\* sent is the last that was heard.
HeardOnce ==
    \A c \in Client : \A i \in DOMAIN heard[c] :
        /\ \A k \in DOMAIN heard[c] : heard[c][i] = heard[c][k] => i = k
        /\ heard[c][i][1] = "rebalanceupdate" => heard[c][i][3] < attempt[heard[c][i][2]]
        /\ heard[c][i][1] # "rebalanceupdate" => waiter[heard[c][i][2]] \in {"telling", "done"}
        /\ \A b \in Broadcaster : step[b] # "idle" /\ heard[c][i] = message[b] =>
              step[b] = "sending" /\ i = Len(heard[c]) /\ ~IsPending(c, b)

\* The two halves of HeardInOrder.
SameOrder ==
    \A c, d \in Client : \A i, k \in DOMAIN heard[c], p, q \in DOMAIN heard[d] :
        i < k /\ heard[c][i] = heard[d][p] /\ heard[c][k] = heard[d][q] => p < q

NobodyMissed ==
    \A c, d \in Client :
        ~cut /\ handler[c] = "receiving" /\ handler[d] = "receiving" =>
            \/ IsSuffix(Complete(c), Complete(d))
            \/ IsSuffix(Complete(d), Complete(c))

HInv == Senders /\ Numbered /\ HeardOnce /\ SameOrder /\ NobodyMissed

---------------------------------------------------------------------------
(* Sequences and messages *)

\* A suffix, element by element.
Ends(s, t) ==
    /\ Len(s) <= Len(t)
    /\ \A i \in 1..Len(s) : s[Len(s) - i + 1] = t[Len(t) - i + 1]

\* IsSuffix, which is defined by reversed sequences, says the same.
LEMMA SuffixIs ==
    ASSUME NEW S, NEW s \in Seq(S), NEW t \in Seq(S)
    PROVE  IsSuffix(s, t) <=> Ends(s, t)
<1> DEFINE u == Reverse(s)
           v == Reverse(t)
<1>1. Len(s) \in Nat /\ Len(t) \in Nat
    OBVIOUS
<1>2. /\ u \in Seq(S) /\ Len(u) = Len(s) /\ \A i \in 1..Len(s) : u[i] = s[Len(s) - i + 1]
      /\ v \in Seq(S) /\ Len(v) = Len(t) /\ \A i \in 1..Len(t) : v[i] = t[Len(t) - i + 1]
    BY <1>1 DEF Reverse
<1>3. IsSuffix(s, t) <=> Len(u) <= Len(v) /\ SubSeq(u, 1, Len(u)) = SubSeq(v, 1, Len(u))
    BY DEF IsSuffix, IsPrefix
<1> HIDE DEF u, v
<1>4. SubSeq(u, 1, Len(u)) = u
    BY <1>1, <1>2
<1>5. ASSUME Len(u) <= Len(v)
      PROVE  SubSeq(v, 1, Len(u)) = u <=> \A i \in 1..Len(u) : u[i] = v[i]
  <2>1. /\ SubSeq(v, 1, Len(u)) \in Seq(S)
        /\ Len(SubSeq(v, 1, Len(u))) = Len(u)
        /\ \A i \in 1..Len(u) : SubSeq(v, 1, Len(u))[i] = v[i]
      BY <1>1, <1>2, <1>5
  <2>. QED
      BY <1>1, <1>2, <2>1
<1>6. IsSuffix(s, t) <=> Len(u) <= Len(v) /\ \A i \in 1..Len(u) : u[i] = v[i]
    BY <1>3, <1>4, <1>5
<1>7. \A i \in 1..Len(s) : u[i] = s[Len(s) - i + 1] /\ (Len(s) <= Len(t) => v[i] = t[Len(t) - i + 1])
    BY <1>1, <1>2
<1>. QED
    BY <1>2, <1>6, <1>7 DEF Ends

\* The same message at the end of both.
LEMMA SuffixAppend ==
    ASSUME NEW S, NEW s \in Seq(S), NEW t \in Seq(S), NEW m \in S, IsSuffix(s, t)
    PROVE  IsSuffix(Append(s, m), Append(t, m))
<1> DEFINE u == Append(s, m)
           v == Append(t, m)
<1>1. Len(s) \in Nat /\ Len(t) \in Nat
    OBVIOUS
<1>2. /\ u \in Seq(S) /\ Len(u) = Len(s) + 1 /\ u[Len(s) + 1] = m
      /\ \A i \in 1..Len(s) : u[i] = s[i]
    BY <1>1
<1>3. /\ v \in Seq(S) /\ Len(v) = Len(t) + 1 /\ v[Len(t) + 1] = m
      /\ \A i \in 1..Len(t) : v[i] = t[i]
    BY <1>1
<1>4. /\ Len(s) <= Len(t)
      /\ \A i \in 1..Len(s) : s[Len(s) - i + 1] = t[Len(t) - i + 1]
    BY SuffixIs DEF Ends
<1> HIDE DEF u, v
<1>5. \A i \in 1..Len(u) : u[Len(u) - i + 1] = v[Len(v) - i + 1]
  <2> TAKE i \in 1..Len(u)
  <2>1. CASE i = 1
      BY <2>1, <1>1, <1>2, <1>3
  <2>2. CASE i # 1
    <3>1. i - 1 \in 1..Len(s)
        BY <2>2, <1>1, <1>2
    <3>2. s[Len(s) - (i - 1) + 1] = t[Len(t) - (i - 1) + 1]
        BY <3>1, <1>4
    <3>3. /\ Len(u) - i + 1 = Len(s) - (i - 1) + 1 /\ Len(s) - (i - 1) + 1 \in 1..Len(s)
          /\ Len(v) - i + 1 = Len(t) - (i - 1) + 1 /\ Len(t) - (i - 1) + 1 \in 1..Len(t)
        BY <3>1, <1>1, <1>2, <1>3, <1>4
    <3>. QED
        BY <3>2, <3>3, <1>2, <1>3
  <2>. QED
      BY <2>1, <2>2
<1>6. Ends(u, v)
  <2>1. Len(u) <= Len(v)
      BY <1>1, <1>2, <1>3, <1>4
  <2>. QED
      BY <1>5, <2>1 DEF Ends
<1>7. IsSuffix(u, v)
    BY <1>2, <1>3, <1>6, SuffixIs
<1>. QED
    BY <1>7 DEF u, v

\* Who heard nothing has heard the end of what others heard.
LEMMA SuffixEmpty ==
    ASSUME NEW S, NEW t \in Seq(S)
    PROVE  IsSuffix(<<>>, t)
<1>1. <<>> \in Seq(S) /\ Len(<<>>) = 0 /\ Len(t) \in Nat
    OBVIOUS
<1>2. Ends(<<>>, t)
    BY <1>1 DEF Ends
<1>. QED
    BY <1>1, <1>2, SuffixIs

\* A sequence of different elements without its first.
LEMMA TailIs ==
    ASSUME NEW S, NEW s \in Seq(S), s # <<>>,
           \A i, k \in DOMAIN s : s[i] = s[k] => i = k
    PROVE  /\ Tail(s) \in Seq(S) /\ Head(s) = s[1] /\ 1 \in DOMAIN s
           /\ \A i \in DOMAIN Tail(s) : i + 1 \in DOMAIN s /\ Tail(s)[i] = s[i + 1]
           /\ \A i, k \in DOMAIN Tail(s) : Tail(s)[i] = Tail(s)[k] => i = k
           /\ \A c : (\E i \in DOMAIN Tail(s) : Tail(s)[i] = c)
                        <=> c # Head(s) /\ \E i \in DOMAIN s : s[i] = c
<1>1. /\ Len(s) \in Nat /\ Len(s) > 0 /\ DOMAIN s = 1..Len(s) /\ Head(s) = s[1]
      /\ Tail(s) \in Seq(S) /\ DOMAIN Tail(s) = 1..(Len(s) - 1)
      /\ \A i \in 1..(Len(s) - 1) : Tail(s)[i] = s[i + 1]
    OBVIOUS
<1>2. ASSUME NEW c
      PROVE  (\E i \in DOMAIN Tail(s) : Tail(s)[i] = c)
                <=> c # Head(s) /\ \E i \in DOMAIN s : s[i] = c
  <2>1. ASSUME NEW i \in DOMAIN Tail(s), Tail(s)[i] = c
        PROVE  c # Head(s) /\ \E k \in DOMAIN s : s[k] = c
      BY <2>1, <1>1
  <2>2. ASSUME c # Head(s), NEW i \in DOMAIN s, s[i] = c
        PROVE  \E k \in DOMAIN Tail(s) : Tail(s)[k] = c
    <3>1. i - 1 \in DOMAIN Tail(s) /\ Tail(s)[i - 1] = c
        BY <2>2, <1>1
    <3>. QED
        BY <3>1
  <2>. QED
      BY <2>1, <2>2
<1>. QED
    BY <1>1, <1>2

\* Complete, by what it depends on.
CompleteOf(c, h, t, m) ==
    LET B == {b \in Broadcaster : \E i \in DOMAIN t[b] : t[b][i] = c}
    IN  IF B = {} THEN h[c] ELSE Append(h[c], m[CHOOSE b \in B : TRUE])

\* Who waits for no broadcast has heard all, who waits for one lacks that one.
LEMMA CompleteIs ==
    ASSUME NEW c, NEW h, NEW t, NEW m
    PROVE  /\ (\A b \in Broadcaster : \A i \in DOMAIN t[b] : t[b][i] # c)
                 => CompleteOf(c, h, t, m) = h[c]
           /\ \A b \in Broadcaster :
                 /\ \E i \in DOMAIN t[b] : t[b][i] = c
                 /\ \A a \in Broadcaster : (\E i \in DOMAIN t[a] : t[a][i] = c) => a = b
                 => CompleteOf(c, h, t, m) = Append(h[c], m[b])
<1> DEFINE B == {b \in Broadcaster : \E i \in DOMAIN t[b] : t[b][i] = c}
<1>1. ASSUME \A b \in Broadcaster : \A i \in DOMAIN t[b] : t[b][i] # c
      PROVE  CompleteOf(c, h, t, m) = h[c]
  <2>1. B = {}
      BY <1>1
  <2>. QED
      BY <2>1 DEF CompleteOf
<1>2. ASSUME NEW b \in Broadcaster, \E i \in DOMAIN t[b] : t[b][i] = c,
             \A a \in Broadcaster : (\E i \in DOMAIN t[a] : t[a][i] = c) => a = b
      PROVE  CompleteOf(c, h, t, m) = Append(h[c], m[b])
  <2>1. B = {b}
      BY <1>2
  <2>2. (CHOOSE a \in {b} : TRUE) = b
      OBVIOUS
  <2>. QED
      BY <2>1, <2>2 DEF CompleteOf
<1>. QED
    BY <1>1, <1>2

\* What a client will have heard changes with the message it waits for only.
LEMMA CompleteSame ==
    ASSUME Shape, NEW c \in Client, UNCHANGED <<heard, todo>>,
           \A b \in Broadcaster : IsPending(c, b) => message'[b] = message[b]
    PROVE  Complete(c)' = Complete(c)
<1> DEFINE B == {b \in Broadcaster : \E i \in DOMAIN todo[b] : todo[b][i] = c}
<1>1. CASE B = {}
    BY <1>1 DEF Complete
<1>2. CASE B # {}
  <2>1. (CHOOSE b \in B : TRUE) \in B
      BY <1>2
  <2>. QED
      BY <1>2, <2>1 DEF Complete, IsPending
<1>. QED
    BY <1>1, <1>2

\* It is a sequence of messages.
LEMMA CompleteType ==
    ASSUME Shape, Telling, Senders, NEW c \in Client
    PROVE  Complete(c) \in Seq(Message)
<1> DEFINE B == {b \in Broadcaster : \E i \in DOMAIN todo[b] : todo[b][i] = c}
<1>1. CASE B = {}
    BY <1>1 DEF Complete, Shape
<1>2. CASE B # {}
  <2>1. PICK b \in B : b = CHOOSE x \in B : TRUE
      BY <1>2
  <2>2. step[b] = "sending"
    <3>1. todo[b] \in Seq(Client) /\ \E i \in DOMAIN todo[b] : TRUE
        BY <2>1 DEF Shape
    <3>2. todo[b] # <<>>
        BY <3>1
    <3>. QED
        BY <2>1, <3>2 DEF Senders
  <2>3. message[b] \in Message /\ heard[c] \in Seq(Message)
      BY <2>1, <2>2, WhatIsSent DEF Shape
  <2>4. Complete(c) = Append(heard[c], message[b])
      BY <1>2, <2>1 DEF Complete
  <2>. QED
      BY <2>3, <2>4
<1>. QED
    BY <1>1, <1>2

\* Two broadcasts are different messages.
LEMMA MessagesDiffer ==
    ASSUME Telling, NEW a \in Broadcaster, NEW b \in Broadcaster,
           step[a] # "idle", step[b] # "idle", message[a] = message[b]
    PROVE  a = b
<1>1. \A x \in Broadcaster : step[x] # "idle" =>
        /\ message[x][2] = x[1]
        /\ message[x][1] = "rebalanceupdate" <=> x = <<x[1], "attempt">>
  <2> SUFFICES ASSUME NEW x \in Broadcaster, step[x] # "idle"
               PROVE  /\ message[x][2] = x[1]
                      /\ message[x][1] = "rebalanceupdate" <=> x = <<x[1], "attempt">>
      OBVIOUS
  <2>1. CASE x = <<x[1], "attempt">>
    <3>1. message[x] \in Updates(x[1])
        BY <2>1, Broadcasters DEF Telling, BroadcastOfRun
    <3>. QED
        BY <2>1, <3>1, MessageSays
  <2>2. CASE x = <<x[1], "answer">>
    <3>1. message[x] \in Answers(x[1]) /\ x # <<x[1], "attempt">>
        BY <2>2, Broadcasters DEF Telling, BroadcastOfRun
    <3>. QED
        BY <3>1, MessageSays
  <2>. QED
      BY <2>1, <2>2, Broadcasters
<1>. QED
    BY <1>1, Broadcasters

---------------------------------------------------------------------------
(* The order, action by action *)

\* The variables of the order.
order == <<handler, run, attempt, waiter, step, message, todo, heard, cut>>

\* Steps that change none of them.
LEMMA QuietOrder ==
    ASSUME HInv, UNCHANGED order
    PROVE  HInv'
<1> USE DEF order
<1>1. Senders'
    BY DEF HInv, Senders, IsPending
<1>2. Numbered' /\ SameOrder'
    BY DEF HInv, Numbered, SameOrder
<1>3. HeardOnce'
    BY DEF HInv, HeardOnce, IsPending
<1>4. NobodyMissed'
  <2>1. \A d \in Client : Complete(d)' = Complete(d)
      BY DEF Complete
  <2>. QED
      BY <2>1 DEF HInv, NobodyMissed
<1>. QED
    BY <1>1, <1>2, <1>3, <1>4 DEF HInv

\* A handler starts, registers or ends: who registers has missed nothing he heard of.
LEMMA HandlerOrder ==
    ASSUME Shape, Telling, HInv, NEW c \in Client, NEW to \in {"started", "receiving", "ended"},
           handler' = [handler EXCEPT ![c] = to],
           to = "started" => handler[c] = "none",
           to = "receiving" => handler[c] = "started",
           UNCHANGED <<run, attempt, waiter, step, message, todo, heard, cut>>
    PROVE  HInv'
<1>1. \A d \in Client : handler'[d] = IF d = c THEN to ELSE handler[d]
    BY DEF Shape
<1>2. Senders'
    BY <1>1 DEF HInv, Senders, IsPending
<1>3. Numbered' /\ SameOrder'
    BY DEF HInv, Numbered, SameOrder
<1>4. HeardOnce'
    BY DEF HInv, HeardOnce, IsPending
<1>5. NobodyMissed'
  <2>1. \A d \in Client : Complete(d)' = Complete(d)
      BY DEF Complete
  <2>2. ASSUME to = "receiving", NEW d \in Client, handler[d] = "receiving" \/ d = c, ~cut
        PROVE  IsSuffix(Complete(c), Complete(d))
    <3>1. heard[c] = <<>> /\ \A b \in Broadcaster : ~IsPending(c, b)
        BY <2>2 DEF HInv, Senders
    <3>2. Complete(c) = <<>>
        BY <3>1, CompleteIs DEF IsPending, Complete, CompleteOf
    <3>. QED
        BY <3>2, CompleteType, SuffixEmpty DEF HInv
  <2>. QED
      BY <1>1, <2>1, <2>2 DEF HInv, NobodyMissed
<1>. QED
    BY <1>2, <1>3, <1>4, <1>5 DEF HInv

\* A run begins or goes on that waits for no broadcast.
LEMMA RunOrder ==
    ASSUME Shape, HInv, NEW r \in Run, NEW to,
           run' = [run EXCEPT ![r] = to],
           to \in {"idle", "asked"} => run[r] \in {"idle", "asked"},
           UNCHANGED <<handler, attempt, waiter, step, message, todo, heard, cut>>
    PROVE  HInv'
<1>1. \A x \in Run : run'[x] = IF x = r THEN to ELSE run[x]
    BY DEF Shape
<1>2. Senders' /\ SameOrder'
    BY DEF HInv, Senders, SameOrder, IsPending
<1>3. Numbered'
  <2>1. \A x \in Run : run'[x] \in {"idle", "asked"} => run[x] \in {"idle", "asked"}
      BY <1>1
  <2>. QED
      BY <2>1 DEF HInv, Numbered
<1>4. HeardOnce'
    BY DEF HInv, HeardOnce, IsPending
<1>5. NobodyMissed'
  <2>1. \A d \in Client : Complete(d)' = Complete(d)
      BY DEF Complete
  <2>. QED
      BY <2>1 DEF HInv, NobodyMissed
<1>. QED
    BY <1>2, <1>3, <1>4, <1>5 DEF HInv

\* rebalancebyscid: nobody has heard an answer to the request.
LEMMA RebalanceOrder ==
    ASSUME Shape, Telling, HInv, NEW c \in Client, NEW r \in Run, Rebalance(c, r)
    PROVE  HInv'
<1>1. /\ request[c] = r /\ run' = [run EXCEPT ![r] = "ready"]
      /\ waiter' = [waiter EXCEPT ![r] = "waiting"]
      /\ UNCHANGED <<handler, attempt, step, message, todo, heard, cut>>
    BY DEF Rebalance, Receives, sockets, buffers, broadcasts
<1>2. waiter[r] = "none"
    BY <1>1 DEF Telling, AskedOnce, HInv, Numbered
<1>3. \A x \in Run : /\ run'[x] = IF x = r THEN "ready" ELSE run[x]
                     /\ waiter'[x] = IF x = r THEN "waiting" ELSE waiter[x]
    BY <1>1 DEF Shape, HInv, Senders
<1>4. Senders' /\ SameOrder'
    BY <1>1 DEF HInv, Senders, SameOrder, IsPending
<1>5. Numbered'
  <2> SUFFICES ASSUME NEW x \in Run
               PROVE  /\ run'[x] \in {"idle", "asked"} => waiter'[x] = "none"
                      /\ step'[<<x, "attempt">>] # "idle" =>
                            /\ attempt'[x] > 0
                            /\ message'[<<x, "attempt">>] = <<"rebalanceupdate", x, attempt'[x] - 1>>
                      /\ step'[<<x, "answer">>] # "idle" => waiter'[x] = "telling"
      BY DEF Numbered
  <2>1. CASE x = r
      BY <2>1, <1>1, <1>2, <1>3 DEF HInv, Numbered
  <2>2. CASE x # r
      BY <2>2, <1>1, <1>3 DEF HInv, Numbered
  <2>. QED
      BY <2>1, <2>2
<1>6. HeardOnce'
  <2>1. \A d \in Client : \A i \in DOMAIN heard[d] :
            heard[d][i][1] # "rebalanceupdate" => waiter'[heard[d][i][2]] \in {"telling", "done"}
      BY <1>2, <1>3, HeardRuns DEF HInv, HeardOnce
  <2>. QED
      BY <1>1, <2>1 DEF HInv, HeardOnce, IsPending
<1>7. NobodyMissed'
  <2>1. \A d \in Client : Complete(d)' = Complete(d)
      BY <1>1 DEF Complete
  <2>. QED
      BY <1>1, <2>1 DEF HInv, NobodyMissed
<1>. QED
    BY <1>4, <1>5, <1>6, <1>7 DEF HInv

\* Who is idle sends to nobody.
LEMMA IdleSendsNothing ==
    ASSUME Shape, Senders, NEW b \in Broadcaster, step[b] # "sending"
    PROVE  todo[b] = <<>> /\ \A c \in Client : ~IsPending(c, b)
BY DEF Senders, IsPending

\* An attempt is broadcast under a number of its own.
LEMMA AttemptOrder ==
    ASSUME Shape, Telling, HInv, NEW r \in Run, SendRebalanceAttempt(r)
    PROVE  HInv'
<1> DEFINE b == <<r, "attempt">>
           m == <<"rebalanceupdate", r, attempt[r]>>
<1>1. /\ run[r] = "ready" /\ run' = [run EXCEPT ![r] = "attempting"]
      /\ attempt' = [attempt EXCEPT ![r] = @ + 1]
      /\ step[b] = "idle" /\ step' = [step EXCEPT ![b] = "waiting"]
      /\ message' = [message EXCEPT ![b] = m]
      /\ UNCHANGED <<handler, waiter, todo, heard, cut>>
    BY DEF SendRebalanceAttempt, Broadcast, actionRebalanceUpdate, clients, sockets, buffers
<1>2. b \in Broadcaster /\ attempt[r] \in Nat
    BY Broadcasters DEF Shape
<1>3. \A x \in Run : /\ run'[x] = IF x = r THEN "attempting" ELSE run[x]
                     /\ attempt'[x] = IF x = r THEN attempt[r] + 1 ELSE attempt[x]
    BY <1>1 DEF Shape
<1>4. \A x \in Broadcaster : /\ step'[x] = IF x = b THEN "waiting" ELSE step[x]
                             /\ message'[x] = IF x = b THEN m ELSE message[x]
    BY <1>1 DEF Shape
<1>5. todo[b] = <<>> /\ \A c \in Client : ~IsPending(c, b)
    BY <1>1, <1>2, IdleSendsNothing DEF HInv
<1>6. \A c \in Client : \A i \in DOMAIN heard[c] : heard[c][i] # m
  <2>1. m[1] = "rebalanceupdate" /\ m[2] = r /\ m[3] = attempt[r]
      OBVIOUS
  <2>. QED
      BY <1>2, <2>1 DEF HInv, HeardOnce
<1>7. \A x \in Run : /\ <<x, "attempt">> \in Broadcaster /\ <<x, "answer">> \in Broadcaster
                     /\ <<x, "answer">> # b
                     /\ <<x, "attempt">> = b => x = r
    BY Broadcasters
<1> HIDE DEF b
<1>8. Senders'
    BY <1>1, <1>4, <1>5 DEF HInv, Senders, IsPending
<1>9. Numbered'
  <2> SUFFICES ASSUME NEW x \in Run
               PROVE  /\ run'[x] \in {"idle", "asked"} => waiter'[x] = "none"
                      /\ step'[<<x, "attempt">>] # "idle" =>
                            /\ attempt'[x] > 0
                            /\ message'[<<x, "attempt">>] = <<"rebalanceupdate", x, attempt'[x] - 1>>
                      /\ step'[<<x, "answer">>] # "idle" => waiter'[x] = "telling"
      BY DEF Numbered
  <2>1. step'[<<x, "answer">>] = step[<<x, "answer">>]
      BY <1>4, <1>7
  <2>2. CASE x = r
    <3>1. attempt'[x] - 1 = attempt[r] /\ attempt'[x] > 0
        BY <2>2, <1>2, <1>3
    <3>2. message'[<<x, "attempt">>] = m
        BY <2>2, <1>4, <1>7 DEF b
    <3>. QED
        BY <2>1, <2>2, <3>1, <3>2, <1>1, <1>3 DEF HInv, Numbered
  <2>3. CASE x # r
    <3>1. /\ step'[<<x, "attempt">>] = step[<<x, "attempt">>]
          /\ message'[<<x, "attempt">>] = message[<<x, "attempt">>]
        BY <2>3, <1>4, <1>7
    <3>. QED
        BY <2>1, <2>3, <3>1, <1>1, <1>3 DEF HInv, Numbered
  <2>. QED
      BY <2>2, <2>3
<1>10. HeardOnce'
  <2> SUFFICES ASSUME NEW c \in Client, NEW i \in DOMAIN heard[c]
               PROVE  /\ \A k \in DOMAIN heard[c] : heard[c][i] = heard[c][k] => i = k
                      /\ heard[c][i][1] = "rebalanceupdate" =>
                            heard[c][i][3] < attempt'[heard[c][i][2]]
                      /\ heard[c][i][1] # "rebalanceupdate" =>
                            waiter[heard[c][i][2]] \in {"telling", "done"}
                      /\ \A a \in Broadcaster : step'[a] # "idle" /\ heard[c][i] = message'[a] =>
                            step'[a] = "sending" /\ i = Len(heard[c]) /\ ~IsPending(c, a)
      BY <1>1 DEF HeardOnce, IsPending
  <2>1. heard[c][i][1] = "rebalanceupdate" => heard[c][i][3] < attempt'[heard[c][i][2]]
    <3>1. heard[c][i][2] \in Run
        BY HeardRuns
    <3>2. ASSUME heard[c][i][1] = "rebalanceupdate" PROVE heard[c][i][3] \in Nat
      <4>1. heard[c][i] \in Message
          BY DEF Shape
      <4>. QED
          BY <3>2, <4>1, MessageSays DEF Message, Updates
    <3>. QED
        BY <3>1, <3>2, <1>2, <1>3 DEF HInv, HeardOnce
  <2>2. \A a \in Broadcaster : step'[a] # "idle" /\ heard[c][i] = message'[a] =>
            step'[a] = "sending" /\ i = Len(heard[c]) /\ ~IsPending(c, a)
      BY <1>4, <1>6 DEF HInv, HeardOnce
  <2>. QED
      BY <2>1, <2>2 DEF HInv, HeardOnce
<1>11. NobodyMissed'
  <2>1. \A d \in Client : Complete(d)' = Complete(d)
      BY <1>1, <1>4, <1>5, CompleteSame
  <2>. QED
      BY <1>1, <2>1 DEF HInv, NobodyMissed
<1>. QED
    BY <1>1, <1>8, <1>9, <1>10, <1>11 DEF HInv, SameOrder

\* The goroutine of a request answers once.
LEMMA AnswerOrder ==
    ASSUME Shape, Telling, HInv, NEW r \in Run, Answer(r)
    PROVE  HInv'
<1> DEFINE b == <<r, "answer">>
<1>1. PICK m \in Answers(r) :
        /\ waiter[r] = "waiting" /\ waiter' = [waiter EXCEPT ![r] = "telling"]
        /\ step[b] = "idle" /\ step' = [step EXCEPT ![b] = "waiting"]
        /\ message' = [message EXCEPT ![b] = m]
        /\ UNCHANGED <<handler, run, attempt, todo, heard, cut>>
    BY DEF Answer, Broadcast, clients, sockets, buffers
<1>2. b \in Broadcaster /\ m[1] # "rebalanceupdate" /\ m[2] = r
    BY Broadcasters, MessageSays
<1>3. \A x \in Run : waiter'[x] = IF x = r THEN "telling" ELSE waiter[x]
    BY <1>1 DEF HInv, Senders
<1>4. \A x \in Broadcaster : /\ step'[x] = IF x = b THEN "waiting" ELSE step[x]
                             /\ message'[x] = IF x = b THEN m ELSE message[x]
    BY <1>1 DEF Shape
<1>5. todo[b] = <<>> /\ \A c \in Client : ~IsPending(c, b)
    BY <1>1, <1>2, IdleSendsNothing DEF HInv
<1>6. \A c \in Client : \A i \in DOMAIN heard[c] : heard[c][i] # m
    BY <1>1, <1>2 DEF HInv, HeardOnce
<1>7. \A x \in Run : /\ <<x, "attempt">> \in Broadcaster /\ <<x, "answer">> \in Broadcaster
                     /\ <<x, "attempt">> # b
                     /\ <<x, "answer">> = b => x = r
    BY Broadcasters
<1> HIDE DEF b
<1>8. Senders'
    BY <1>1, <1>4, <1>5 DEF HInv, Senders, IsPending
<1>9. Numbered'
  <2> SUFFICES ASSUME NEW x \in Run
               PROVE  /\ run'[x] \in {"idle", "asked"} => waiter'[x] = "none"
                      /\ step'[<<x, "attempt">>] # "idle" =>
                            /\ attempt'[x] > 0
                            /\ message'[<<x, "attempt">>] = <<"rebalanceupdate", x, attempt'[x] - 1>>
                      /\ step'[<<x, "answer">>] # "idle" => waiter'[x] = "telling"
      BY DEF Numbered
  <2>1. /\ step'[<<x, "attempt">>] = step[<<x, "attempt">>]
        /\ message'[<<x, "attempt">>] = message[<<x, "attempt">>]
      BY <1>4, <1>7
  <2>2. CASE x = r
      BY <2>1, <2>2, <1>1, <1>3 DEF HInv, Numbered
  <2>3. CASE x # r
    <3>1. step'[<<x, "answer">>] = step[<<x, "answer">>]
        BY <2>3, <1>4, <1>7
    <3>. QED
        BY <2>1, <2>3, <3>1, <1>1, <1>3 DEF HInv, Numbered
  <2>. QED
      BY <2>2, <2>3
<1>10. HeardOnce'
  <2>1. \A d \in Client : \A i \in DOMAIN heard[d] :
            heard[d][i][1] # "rebalanceupdate" => waiter'[heard[d][i][2]] \in {"telling", "done"}
      BY <1>3, HeardRuns DEF HInv, HeardOnce
  <2>2. \A d \in Client : \A i \in DOMAIN heard[d] :
            \A a \in Broadcaster : step'[a] # "idle" /\ heard[d][i] = message'[a] =>
                step'[a] = "sending" /\ i = Len(heard[d]) /\ ~IsPending(d, a)
      BY <1>4, <1>6 DEF HInv, HeardOnce
  <2>. QED
      BY <1>1, <2>1, <2>2 DEF HInv, HeardOnce, IsPending
<1>11. NobodyMissed'
  <2>1. \A d \in Client : Complete(d)' = Complete(d)
      BY <1>1, <1>4, <1>5, CompleteSame
  <2>. QED
      BY <1>1, <2>1 DEF HInv, NobodyMissed
<1>. QED
    BY <1>1, <1>8, <1>9, <1>10, <1>11 DEF HInv, SameOrder

\* A broadcast gets the lock: every client that is served waits for it.
LEMMA LockOrder ==
    ASSUME Shape, Telling, RegisteredWhileServed, HInv, NEW b \in Broadcaster, Lock(b)
    PROVE  HInv'
<1>1. /\ LockFree
      /\ step[b] = "waiting" /\ step' = [step EXCEPT ![b] = "sending"]
      /\ todo' = [todo EXCEPT ![b] = activeWebSockets]
      /\ UNCHANGED <<handler, run, attempt, waiter, message, heard, cut>>
    BY DEF Lock, clients, sockets, buffers, runs
<1>2. \A x \in Broadcaster : /\ step[x] # "sending"
                             /\ step'[x] = IF x = b THEN "sending" ELSE step[x]
                             /\ todo'[x] = IF x = b THEN activeWebSockets ELSE <<>>
                             /\ todo[x] = <<>>
    BY <1>1, IdleSendsNothing DEF LockFree, Shape, HInv
<1>3. \A c \in Client : \A a \in Broadcaster :
        /\ ~IsPending(c, a)
        /\ IsPending(c, a)' <=> a = b /\ handler[c] = "receiving"
    BY <1>2 DEF IsPending, RegisteredWhileServed
<1>4. Senders'
    BY <1>1, <1>2, <1>3 DEF HInv, Senders, RegisteredWhileServed
<1>5. Numbered'
  <2>1. \A x \in Run : /\ step'[<<x, "attempt">>] # "idle" => step[<<x, "attempt">>] # "idle"
                       /\ step'[<<x, "answer">>] # "idle" => step[<<x, "answer">>] # "idle"
      BY <1>1, <1>2, Broadcasters
  <2>. QED
      BY <1>1, <2>1 DEF HInv, Numbered
<1>6. HeardOnce'
  <2>1. \A d \in Client : \A i \in DOMAIN heard[d] : \A a \in Broadcaster :
            ~(step'[a] # "idle" /\ heard[d][i] = message[a])
      BY <1>1, <1>2 DEF HInv, HeardOnce
  <2>. QED
      BY <1>1, <2>1 DEF HInv, HeardOnce
<1>7. NobodyMissed'
  <2>1. \A c \in Client : Complete(c) = heard[c]
      BY <1>3, CompleteIs DEF Complete, CompleteOf, IsPending
  <2>2. \A c \in Client : handler[c] = "receiving" => Complete(c)' = Append(heard[c], message[b])
    <3> SUFFICES ASSUME NEW c \in Client, handler[c] = "receiving"
                 PROVE  Complete(c)' = Append(heard[c], message[b])
        OBVIOUS
    <3>1. Complete(c)' = CompleteOf(c, heard, todo', message)
        BY <1>1 DEF Complete, CompleteOf
    <3>2. /\ \E i \in DOMAIN todo'[b] : todo'[b][i] = c
          /\ \A a \in Broadcaster : (\E i \in DOMAIN todo'[a] : todo'[a][i] = c) => a = b
        BY <1>3 DEF IsPending
    <3>. QED
        BY <3>1, <3>2, CompleteIs
  <2>3. message[b] \in Message /\ \A c \in Client : heard[c] \in Seq(Message)
      BY <1>1, WhatIsSent DEF Shape
  <2> SUFFICES ASSUME NEW c \in Client, NEW d \in Client, ~cut,
                      handler[c] = "receiving", handler[d] = "receiving"
               PROVE  \/ IsSuffix(Complete(c)', Complete(d)')
                      \/ IsSuffix(Complete(d)', Complete(c)')
      BY <1>1 DEF NobodyMissed
  <2>4. IsSuffix(heard[c], heard[d]) \/ IsSuffix(heard[d], heard[c])
      BY <2>1 DEF HInv, NobodyMissed
  <2>5. \/ IsSuffix(Append(heard[c], message[b]), Append(heard[d], message[b]))
        \/ IsSuffix(Append(heard[d], message[b]), Append(heard[c], message[b]))
      BY <2>3, <2>4, SuffixAppend
  <2>. QED
      BY <2>2, <2>5
<1>. QED
    BY <1>1, <1>4, <1>5, <1>6, <1>7 DEF HInv, SameOrder

\* A broadcast reaches a client: it is the newest that anybody heard, and
\* completes what the client was to hear.
LEMMA SendOrder ==
    ASSUME Shape, Telling, HInv, NEW b \in Broadcaster, Send(b)
    PROVE  HInv'
<1> DEFINE d == Head(todo[b])
           m == message[b]
           Later(c, a) == \E i \in DOMAIN todo'[a] : todo'[a][i] = c
<1>1. /\ step[b] = "sending" /\ todo[b] # <<>>
      /\ heard' = [heard EXCEPT ![d] = Append(@, m)]
      /\ todo' = [todo EXCEPT ![b] = Tail(@)]
      /\ UNCHANGED <<handler, run, attempt, waiter, step, message, cut>>
    BY DEF Send, clients, sockets, runs
<1>2. /\ todo[b] \in Seq(Client) /\ d \in Client /\ IsPending(d, b)
      /\ todo'[b] = Tail(todo[b])
      /\ \A i, k \in DOMAIN todo'[b] : todo'[b][i] = todo'[b][k] => i = k
      /\ \A c \in Client : Later(c, b) <=> c # d /\ IsPending(c, b)
  <2>1. todo[b] \in Seq(Client) /\ \A i, k \in DOMAIN todo[b] : todo[b][i] = todo[b][k] => i = k
      BY DEF Shape, HInv, Senders
  <2>2. todo'[b] = Tail(todo[b])
      BY <1>1 DEF Shape
  <2>3. /\ 1 \in DOMAIN todo[b] /\ d = todo[b][1]
        /\ \A i, k \in DOMAIN Tail(todo[b]) : Tail(todo[b])[i] = Tail(todo[b])[k] => i = k
        /\ \A c : (\E i \in DOMAIN Tail(todo[b]) : Tail(todo[b])[i] = c)
                     <=> c # d /\ \E i \in DOMAIN todo[b] : todo[b][i] = c
      BY <1>1, <2>1, TailIs
  <2>4. IsPending(d, b)
      BY <2>3 DEF IsPending
  <2>5. \A c \in Client : Later(c, b) <=> c # d /\ IsPending(c, b)
    <3> HIDE DEF d
    <3>. QED
        BY <2>2, <2>3 DEF IsPending
  <2>6. d \in Client
      BY <2>1, <2>3
  <2>. QED
      BY <2>1, <2>2, <2>3, <2>4, <2>5, <2>6
<1>3. \A a \in Broadcaster : a # b =>
        /\ todo'[a] = todo[a] /\ todo[a] = <<>> /\ step[a] # "sending"
        /\ \A c \in Client : ~IsPending(c, a) /\ ~Later(c, a)
    BY <1>1 DEF IsPending, Shape, HInv, Senders
<1>4. m \in Message
    BY <1>1, WhatIsSent
<1>13. \A c \in Client : \A a \in Broadcaster :
          /\ Later(c, a) => IsPending(c, a)
          /\ ~IsPending(c, b) => ~IsPending(c, a)
  <2> SUFFICES ASSUME NEW c \in Client, NEW a \in Broadcaster
               PROVE  (Later(c, a) => IsPending(c, a)) /\ (~IsPending(c, b) => ~IsPending(c, a))
      OBVIOUS
  <2> HIDE DEF Later
  <2>1. CASE a = b
      BY <1>2, <2>1
  <2>2. CASE a # b
      BY <1>3, <2>2
  <2>. QED
      BY <2>1, <2>2
<1> HIDE DEF d, m
<1>5. \A c \in Client : c # d => heard'[c] = heard[c]
    BY <1>1 DEF Shape
<1>6. /\ heard[d] \in Seq(Message) /\ heard'[d] = Append(heard[d], m)
      /\ DOMAIN heard[d] = 1..Len(heard[d]) /\ Len(heard[d]) \in Nat
      /\ DOMAIN heard'[d] = 1..(Len(heard[d]) + 1) /\ Len(heard'[d]) = Len(heard[d]) + 1
      /\ heard'[d][Len(heard[d]) + 1] = m
      /\ \A i \in DOMAIN heard[d] : heard'[d][i] = heard[d][i]
  <2>1. heard[d] \in Seq(Message) /\ heard'[d] = Append(heard[d], m)
      BY <1>1, <1>2 DEF Shape
  <2>. QED
      BY <2>1, <1>4
<1>7. /\ \A i \in DOMAIN heard[d] : heard[d][i] # m
      /\ \A c \in Client : \A i \in DOMAIN heard[c] : heard[c][i] = m => i = Len(heard[c])
    BY <1>1, <1>2 DEF HInv, HeardOnce, m
<1>8. /\ m[1] = "rebalanceupdate" => m[3] < attempt[m[2]]
      /\ m[1] # "rebalanceupdate" => waiter[m[2]] \in {"telling", "done"}
  <2>1. PICK r \in Run : b = <<r, "attempt">> \/ b = <<r, "answer">>
      BY Broadcasters
  <2>2. CASE b = <<r, "attempt">>
    <3>1. m = <<"rebalanceupdate", r, attempt[r] - 1>> /\ attempt[r] \in Nat
        BY <1>1, <2>2 DEF HInv, Numbered, Shape, m
    <3>. QED
        BY <3>1
  <2>3. CASE b = <<r, "answer">>
    <3>1. m \in Answers(r) /\ waiter[r] = "telling"
        BY <1>1, <2>3 DEF HInv, Numbered, Telling, BroadcastOfRun, m
    <3>. QED
        BY <3>1, MessageSays
  <2>. QED
      BY <2>1, <2>2, <2>3
<1>9. Senders'
  <2>1. handler[d] \notin {"none", "started"}
      BY <1>2 DEF HInv, Senders
  <2>2. \A a \in Broadcaster :
            /\ todo'[a] # <<>> => step[a] = "sending"
            /\ \A i, k \in DOMAIN todo'[a] : todo'[a][i] = todo'[a][k] => i = k
    <3> TAKE a \in Broadcaster
    <3>1. CASE a = b
        BY <1>1, <1>2, <3>1
    <3>2. CASE a # b
        BY <1>3, <3>2
    <3>. QED
        BY <3>1, <3>2
  <2>3. \A c \in Client : \A a \in Broadcaster : Later(c, a) => IsPending(c, a)
      BY <1>13
  <2>. QED
      BY <1>1, <1>5, <2>1, <2>2, <2>3 DEF HInv, Senders, IsPending
<1>10. HeardOnce'
  <2> SUFFICES ASSUME NEW c \in Client, NEW i \in DOMAIN heard'[c]
               PROVE  /\ \A k \in DOMAIN heard'[c] : heard'[c][i] = heard'[c][k] => i = k
                      /\ heard'[c][i][1] = "rebalanceupdate" =>
                            heard'[c][i][3] < attempt[heard'[c][i][2]]
                      /\ heard'[c][i][1] # "rebalanceupdate" =>
                            waiter[heard'[c][i][2]] \in {"telling", "done"}
                      /\ \A a \in Broadcaster : step[a] # "idle" /\ heard'[c][i] = message[a] =>
                            step[a] = "sending" /\ i = Len(heard'[c]) /\ ~Later(c, a)
      BY <1>1 DEF HeardOnce, IsPending
  <2>1. CASE c # d
    <3>1. \A a \in Broadcaster : Later(c, a) => IsPending(c, a)
        BY <1>13
    <3>. QED
        BY <2>1, <3>1, <1>5 DEF HInv, HeardOnce
  <2>2. CASE c = d /\ i \in DOMAIN heard[d]
    <3>1. heard'[d][i] = heard[d][i] /\ heard[d][i] # m
        BY <2>2, <1>6, <1>7
    <3>2. \A k \in DOMAIN heard'[d] : heard'[d][i] = heard'[d][k] => i = k
        BY <2>2, <3>1, <1>6 DEF HInv, HeardOnce
    <3>3. \A a \in Broadcaster : ~(step[a] # "idle" /\ heard[d][i] = message[a])
        BY <2>2, <3>1, <1>1, <1>3, <1>2 DEF HInv, HeardOnce, m
    <3>. QED
        BY <2>2, <3>1, <3>2, <3>3, <1>2 DEF HInv, HeardOnce
  <2>3. CASE c = d /\ i = Len(heard[d]) + 1
    <3>1. heard'[d][i] = m /\ i = Len(heard'[d])
        BY <2>3, <1>6
    <3>2. \A k \in DOMAIN heard'[d] : heard'[d][i] = heard'[d][k] => i = k
        BY <2>3, <3>1, <1>6, <1>7
    <3>3. \A a \in Broadcaster : step[a] # "idle" /\ m = message[a] => a = b
        BY <1>1, MessagesDiffer DEF m
    <3>. QED
        BY <2>3, <3>1, <3>2, <3>3, <1>1, <1>2, <1>8
  <2>. QED
      BY <2>1, <2>2, <2>3, <1>6
<1>11. SameOrder'
  <2> SUFFICES ASSUME NEW x \in Client, NEW y \in Client,
                      NEW i \in DOMAIN heard'[x], NEW k \in DOMAIN heard'[x],
                      NEW p \in DOMAIN heard'[y], NEW q \in DOMAIN heard'[y],
                      i < k, heard'[x][i] = heard'[y][p], heard'[x][k] = heard'[y][q]
               PROVE  p < q
      BY DEF SameOrder
  <2> DEFINE New(c, j) == c = d /\ j = Len(heard[d]) + 1
  <2>1. \A c \in Client : \A j \in DOMAIN heard'[c] :
            /\ j \in Nat /\ j >= 1
            /\ New(c, j) => heard'[c][j] = m /\ \A l \in DOMAIN heard'[c] : l <= j
            /\ ~New(c, j) => j \in DOMAIN heard[c] /\ heard'[c][j] = heard[c][j]
    <3> SUFFICES ASSUME NEW c \in Client, NEW j \in DOMAIN heard'[c]
                 PROVE  /\ j \in Nat /\ j >= 1
                        /\ New(c, j) => heard'[c][j] = m /\ \A l \in DOMAIN heard'[c] : l <= j
                        /\ ~New(c, j) => j \in DOMAIN heard[c] /\ heard'[c][j] = heard[c][j]
        OBVIOUS
    <3>1. CASE c = d
        BY <3>1, <1>6
    <3>2. CASE c # d
        BY <3>2, <1>5 DEF Shape
    <3>. QED
        BY <3>1, <3>2
  <2>2. ~New(x, i)
      BY <2>1
  <2>3. heard'[x][i] # m
    <3>1. CASE New(x, k)
        BY <3>1, <2>1, <2>2, <1>7
    <3>2. CASE ~New(x, k)
      <4>1. i \in DOMAIN heard[x] /\ k \in DOMAIN heard[x] /\ heard'[x][i] = heard[x][i]
          BY <3>2, <2>1, <2>2
      <4>2. k <= Len(heard[x]) /\ Len(heard[x]) \in Nat /\ k \in Nat /\ i \in Nat
          BY <4>1 DEF Shape
      <4>. QED
          BY <4>1, <4>2, <1>7
    <3>. QED
        BY <3>1, <3>2
  <2>4. ~New(y, p) /\ p \in DOMAIN heard[y] /\ heard'[y][p] = heard[y][p]
      BY <2>1, <2>3
  <2>5. CASE New(y, q)
      BY <2>1, <2>4, <2>5
  <2>6. CASE ~New(y, q)
    <3>1. q \in DOMAIN heard[y] /\ heard'[y][q] = heard[y][q]
        BY <2>1, <2>6
    <3>2. CASE New(x, k)
      <4>1. heard[y][q] = m /\ q = Len(heard[y])
          BY <2>1, <3>1, <3>2, <1>7
      <4>2. p # q /\ p <= Len(heard[y]) /\ p \in Nat /\ q \in Nat
          BY <2>1, <2>3, <2>4, <3>1, <4>1 DEF Shape
      <4>. QED
          BY <4>1, <4>2
    <3>3. CASE ~New(x, k)
        BY <2>1, <2>2, <2>4, <3>1, <3>3 DEF HInv, SameOrder
    <3>. QED
        BY <3>2, <3>3
  <2>. QED
      BY <2>5, <2>6
<1>12. NobodyMissed'
  <2>1. ASSUME NEW c \in Client PROVE Complete(c)' = Complete(c)
    <3>1. /\ Complete(c) = CompleteOf(c, heard, todo, message)
          /\ Complete(c)' = CompleteOf(c, heard', todo', message)
        BY <1>1 DEF Complete, CompleteOf
    <3>2. CASE c = d
      <4>1. /\ IsPending(c, b) /\ \A a \in Broadcaster : IsPending(c, a) => a = b
            /\ \A a \in Broadcaster : ~Later(c, a)
          BY <3>2, <1>2, <1>3
      <4>2. CompleteOf(c, heard, todo, message) = Append(heard[c], message[b])
          BY <4>1, CompleteIs DEF IsPending
      <4>3. CompleteOf(c, heard', todo', message) = heard'[c]
        <5>1. \A a \in Broadcaster : \A i \in DOMAIN todo'[a] : todo'[a][i] # c
            BY <4>1
        <5>. QED
            BY <5>1, CompleteIs
      <4>. QED
          BY <3>1, <3>2, <4>2, <4>3, <1>6 DEF m
    <3>3. CASE c # d /\ IsPending(c, b)
      <4>1. /\ \A a \in Broadcaster : IsPending(c, a) => a = b
            /\ Later(c, b) /\ \A a \in Broadcaster : Later(c, a) => a = b
          BY <3>3, <1>2, <1>3
      <4>2. CompleteOf(c, heard, todo, message) = Append(heard[c], message[b])
          BY <3>3, <4>1, CompleteIs DEF IsPending
      <4>3. CompleteOf(c, heard', todo', message) = Append(heard'[c], message[b])
          BY <4>1, CompleteIs
      <4>. QED
          BY <3>1, <3>3, <4>2, <4>3, <1>5
    <3>4. CASE c # d /\ ~IsPending(c, b)
      <4>1. \A a \in Broadcaster : ~IsPending(c, a) /\ ~Later(c, a)
          BY <3>4, <1>13
      <4>2. CompleteOf(c, heard, todo, message) = heard[c]
          BY <4>1, CompleteIs DEF IsPending
      <4>3. CompleteOf(c, heard', todo', message) = heard'[c]
        <5>1. \A a \in Broadcaster : \A i \in DOMAIN todo'[a] : todo'[a][i] # c
            BY <4>1
        <5>. QED
            BY <5>1, CompleteIs
      <4>. QED
          BY <3>1, <3>4, <4>2, <4>3, <1>5
    <3>. QED
        BY <3>2, <3>3, <3>4
  <2>. QED
      BY <1>1, <2>1 DEF HInv, NobodyMissed
<1>. QED
    BY <1>1, <1>9, <1>10, <1>11, <1>12 DEF HInv, Numbered

\* A send fails: the others are not sent to, which is recorded.
LEMMA SendErrorOrder ==
    ASSUME Shape, HInv, NEW b \in Broadcaster, SendError(b)
    PROVE  HInv'
<1>1. /\ step[b] = "sending" /\ cut' = TRUE
      /\ todo' = [todo EXCEPT ![b] = <<>>]
      /\ UNCHANGED <<handler, run, attempt, waiter, step, message, heard>>
    BY DEF SendError, clients, sockets, buffers, runs
<1>2. \A a \in Broadcaster : todo'[a] = IF a = b THEN <<>> ELSE todo[a]
    BY <1>1 DEF Shape
<1>3. \A c \in Client : \A a \in Broadcaster : IsPending(c, a)' => IsPending(c, a)
    BY <1>2 DEF IsPending
<1>4. Senders'
    BY <1>1, <1>2, <1>3 DEF HInv, Senders
<1>5. HeardOnce'
    BY <1>1, <1>3 DEF HInv, HeardOnce
<1>. QED
    BY <1>1, <1>4, <1>5 DEF HInv, Numbered, SameOrder, NobodyMissed

\* The broadcast is over: nobody waits for it.
LEMMA UnlockOrder ==
    ASSUME Shape, Telling, HInv, NEW b \in Broadcaster, Unlock(b)
    PROVE  HInv'
<1>1. /\ step[b] = "sending" /\ step' = [step EXCEPT ![b] = "idle"]
      /\ message' = [message EXCEPT ![b] = NoMessage]
      /\ todo[b] = <<>>
      /\ UNCHANGED <<handler, attempt, todo, heard, cut>>
    BY DEF Unlock, clients, sockets, buffers
<1>2. \A x \in Broadcaster : /\ step'[x] = IF x = b THEN "idle" ELSE step[x]
                             /\ x # b => message'[x] = message[x]
                             /\ todo[x] = <<>>
    BY <1>1 DEF Shape, HInv, Senders
<1>3. PICK r \in Run : b = <<r, "attempt">> \/ b = <<r, "answer">>
    BY Broadcasters
<1>4. /\ \A x \in Run : run'[x] # run[x] => run'[x] = "paying"
      /\ \A x \in Run : waiter'[x] = IF b = <<x, "answer">> THEN "done" ELSE waiter[x]
      /\ waiter' \in [Run -> {"none", "waiting", "telling", "done"}]
  <2>1. CASE b = <<r, "attempt">>
      BY <2>1, Broadcasters DEF Unlock, Shape, HInv, Senders
  <2>2. CASE b = <<r, "answer">>
    <3>1. waiter' = [waiter EXCEPT ![r] = "done"] /\ run' = run
        BY <2>2 DEF Unlock
    <3>2. \A x \in Run : b = <<x, "answer">> <=> x = r
        BY <2>2
    <3>. QED
        BY <3>1, <3>2 DEF HInv, Senders
  <2>. QED
      BY <1>3, <2>1, <2>2
<1>5. b = <<r, "answer">> => waiter[r] = "telling" /\ run[r] \notin {"idle", "asked"}
    BY <1>1 DEF HInv, Numbered
<1>6. Senders'
    BY <1>1, <1>2, <1>4 DEF HInv, Senders, IsPending
<1>7. Numbered'
  <2> SUFFICES ASSUME NEW x \in Run
               PROVE  /\ run'[x] \in {"idle", "asked"} => waiter'[x] = "none"
                      /\ step'[<<x, "attempt">>] # "idle" =>
                            /\ attempt[x] > 0
                            /\ message'[<<x, "attempt">>] = <<"rebalanceupdate", x, attempt[x] - 1>>
                      /\ step'[<<x, "answer">>] # "idle" => waiter'[x] = "telling"
      BY <1>1 DEF Numbered
  <2>1. ASSUME run'[x] \in {"idle", "asked"} PROVE waiter'[x] = "none"
    <3>1. run'[x] = run[x] /\ waiter[x] = "none"
        BY <2>1, <1>4 DEF HInv, Numbered
    <3>2. b # <<x, "answer">>
        BY <2>1, <3>1, <1>3, <1>5, Broadcasters
    <3>. QED
        BY <3>1, <3>2, <1>4
  <2>2. ASSUME step'[<<x, "attempt">>] # "idle"
        PROVE  /\ attempt[x] > 0
               /\ message'[<<x, "attempt">>] = <<"rebalanceupdate", x, attempt[x] - 1>>
    <3>1. b # <<x, "attempt">> /\ step[<<x, "attempt">>] # "idle"
        BY <2>2, <1>2, Broadcasters
    <3>2. message'[<<x, "attempt">>] = message[<<x, "attempt">>]
        BY <3>1, <1>2, Broadcasters
    <3>. QED
        BY <3>1, <3>2 DEF HInv, Numbered
  <2>3. ASSUME step'[<<x, "answer">>] # "idle" PROVE waiter'[x] = "telling"
    <3>1. b # <<x, "answer">> /\ step[<<x, "answer">>] # "idle"
        BY <2>3, <1>2, Broadcasters
    <3>. QED
        BY <3>1, <1>4 DEF HInv, Numbered
  <2>. QED
      BY <2>1, <2>2, <2>3
<1>8. HeardOnce'
  <2>1. \A d \in Client : \A i \in DOMAIN heard[d] :
            heard[d][i][1] # "rebalanceupdate" => waiter'[heard[d][i][2]] \in {"telling", "done"}
      BY <1>4, HeardRuns DEF HInv, HeardOnce
  <2>2. \A d \in Client : \A i \in DOMAIN heard[d] :
            \A a \in Broadcaster : step'[a] # "idle" /\ heard[d][i] = message'[a] =>
                step'[a] = "sending" /\ i = Len(heard[d]) /\ ~IsPending(d, a)
      BY <1>2 DEF HInv, HeardOnce
  <2>. QED
      BY <1>1, <2>1, <2>2 DEF HInv, HeardOnce, IsPending
<1>9. NobodyMissed'
  <2>1. \A d \in Client : Complete(d)' = Complete(d)
      BY <1>1, <1>2, CompleteSame DEF IsPending
  <2>. QED
      BY <1>1, <2>1 DEF HInv, NobodyMissed
<1>. QED
    BY <1>1, <1>6, <1>7, <1>8, <1>9 DEF HInv, SameOrder

\* Every step keeps the order.
LEMMA NextOrder ==
    ASSUME IInv, HInv, [Next]_vars
    PROVE  HInv'
<1> USE DEF IInv
<1>1. ASSUME NEW c \in Client, Connect(c) PROVE HInv'
  <2>1. handler[c] = "none"
      BY <1>1 DEF Connect, Shape
  <2>. QED
      BY <1>1, <2>1, HandlerOrder DEF Connect, buffers, runs, broadcasts
<1>2. ASSUME NEW c \in Client, Register(c) \/ Unregister(c) PROVE HInv'
    BY <1>2, HandlerOrder DEF Register, Unregister, buffers, runs, broadcasts
<1>3. ASSUME NEW c \in Client, Read(c) \/ HangUp(c) \/ Break(c) \/ Serve(c) PROVE HInv'
    BY <1>3, QuietOrder DEF Read, HangUp, Break, Serve, order, clients, sockets, runs, broadcasts
<1>4. ASSUME NEW c \in Client, Ask(c) PROVE HInv'
  <2>1. CASE UNCHANGED run
      BY <1>4, <2>1, QuietOrder DEF Ask, order, sockets, buffers, broadcasts
  <2>2. ASSUME NEW r \in Run, run[r] = "idle", run' = [run EXCEPT ![r] = "asked"] PROVE HInv'
      BY <1>4, <2>2, RunOrder DEF Ask, sockets, buffers, broadcasts
  <2>. QED
      BY <1>4, <2>1, <2>2 DEF Ask
<1>5. ASSUME NEW r \in Run, Command(r) \/ SendPay(r) \/ EndRun(r) PROVE HInv'
  <2>1. \E to \in {"ready", "over"} : run' = [run EXCEPT ![r] = to]
      BY <1>5 DEF Command, SendPay, EndRun
  <2>. QED
      BY <1>5, <2>1, RunOrder DEF Command, SendPay, EndRun, sockets, buffers, broadcasts
<1>6. CASE UNCHANGED vars
    BY <1>6, QuietOrder DEF vars, order, clients, sockets, buffers, runs, broadcasts
<1>. QED
    BY <1>1, <1>2, <1>3, <1>4, <1>5, <1>6, RebalanceOrder, AttemptOrder, AnswerOrder,
       LockOrder, SendOrder, SendErrorOrder, UnlockOrder
    DEF Next, handleWebsocket, tryRoutes, websocketBroadcast

\* At first nothing was heard.
LEMMA InitOrder == Init => HInv
<1> SUFFICES ASSUME Init PROVE HInv
    OBVIOUS
<1>1. Senders
  <2>1. \A b \in Broadcaster : todo[b] = <<>> /\ DOMAIN todo[b] = {}
      BY DEF Init
  <2>2. \A b \in Broadcaster : step[b] = "idle"
      BY DEF Init
  <2>3. \A c \in Client : heard[c] = <<>> /\ \A b \in Broadcaster : ~IsPending(c, b)
      BY <2>1 DEF Init, IsPending
  <2>4. waiter \in [Run -> {"none", "waiting", "telling", "done"}] /\ cut \in BOOLEAN
      BY DEF Init
  <2>. QED
      BY <2>1, <2>2, <2>3, <2>4 DEF Senders
<1>2. Numbered
    BY Broadcasters DEF Init, Numbered
<1>3. HeardOnce /\ SameOrder
    BY DEF Init, HeardOnce, SameOrder
<1>4. NobodyMissed
    BY DEF Init, NobodyMissed
<1>. QED
    BY <1>1, <1>2, <1>3, <1>4 DEF HInv

\* The invariant of the order holds in every reachable state.
THEOREM OrderInvariance == Spec => []HInv
<1>1. IInv /\ HInv /\ [Next]_vars => HInv'
    BY NextOrder
<1>. QED
    BY InitOrder, Invariance, <1>1, PTL DEF Spec

---------------------------------------------------------------------------
(* The properties *)

\* Whatever clients come and go, the list of sockets is that of the clients
\* whose handlers receive (websocket.go:85-105).
THEOREM ListOfSockets == Spec => []RegisteredWhileServed
BY Invariance, PTL DEF IInv

\* However broadcasts of runs and requests interleave, no client is told of an
\* attempt after the end of its run (route.go:55, websocket.go:237-257).
THEOREM EndIsLast == Spec => []NothingAfterTheEnd
BY Invariance, PTL DEF IInv, Telling

\* Any number of broadcasts reach any number of clients in one order, and until
\* a send fails clients that are served have heard the same, the one that came
\* later from some point on (websocket.go:237-257).
THEOREM BroadcastsInOrder == Spec => []HeardInOrder
<1>1. HInv => HeardInOrder
    BY DEF HInv, SameOrder, NobodyMissed, HeardInOrder
<1>. QED
    BY OrderInvariance, <1>1, PTL
=============================================================================
