----------------------------- MODULE WebSockets -----------------------------
(***************************************************************************)
(* The WebSocket server (node/websocket.go).  Each connection has a        *)
(* handler that registers it, serves its requests and takes it out when    *)
(* the client hangs up.  A request to rebalance starts a goroutine that    *)
(* calls circular-scid through lightningd and broadcasts its result; the   *)
(* run itself broadcasts every attempt before it pays (rebalance/route.go).*)
(* A broadcast sends to one socket after the other while it holds          *)
(* activeWebSocketsLock: a socket whose buffer is full makes it wait, one  *)
(* that fails ends it.                                                     *)
(*                                                                         *)
(* As in ParallelRebalance, an operator that stands before the one it      *)
(* resembles and is used by no action is a faulty variant of it.           *)
(***************************************************************************)
EXTENDS Naturals, Sequences, SequencesExt

CONSTANTS
    Client,
    Run,
    Attempts,    \* bound on the attempts of a run
    Requests,    \* bound on the requests of a client
    BufferSize   \* messages a connection holds until the client reads

ASSUME BoundsAssumption ==
    {Attempts, Requests} \subseteq Nat /\ BufferSize \in Nat \ {0}

ASSUME RunsAssumption == {"none", "query"} \cap Run = {}

VARIABLES
    conn,     \* "none", "open", "closed" by the client or "broken"
    request,  \* what a client asked and its handler has not read: "none",
              \* "query" or the run it wants
    requests, \* number of requests of each client
    handler,  \* "none", "started", "receiving" or "ended"
    activeWebSockets,
    unread,   \* number of messages in each connection
    run,      \* "idle", "asked", "ready", "attempting", "paying" or "over"
    attempt,  \* number of attempts of each run
    waiter,   \* the goroutine of a request: "none", "waiting", "telling", "done"
    step,     \* each broadcaster: "idle", "waiting" for the lock or "sending"
    message,  \* what it broadcasts
    todo,     \* the sockets it has still to send to
    heard,    \* history: the broadcasts each client was sent
    cut       \* history: a broadcast ended at a socket that failed

clients == <<conn, request, requests>>
sockets == <<handler, activeWebSockets>>
buffers == <<unread, heard>>
runs == <<run, attempt, waiter>>
broadcasts == <<step, message, todo, cut>>
vars == <<clients, sockets, buffers, runs, broadcasts>>

---------------------------------------------------------------------------

\* A run broadcasts its attempts, the goroutine of its request the answer.
Broadcaster == Run \X {"attempt", "answer"}

actionRebalanceUpdate(r) == <<"rebalanceupdate", r, attempt[r]>>
Answers(r) == {<<"rebalanceend", r>>, <<"rebalancefailed", r>>}

NoMessage == <<>>

Init ==
    /\ conn = [c \in Client |-> "none"]
    /\ request = [c \in Client |-> "none"]
    /\ requests = [c \in Client |-> 0]
    /\ handler = [c \in Client |-> "none"]
    /\ activeWebSockets = <<>>
    /\ unread = [c \in Client |-> 0]
    /\ heard = [c \in Client |-> <<>>]
    /\ run = [r \in Run |-> "idle"]
    /\ attempt = [r \in Run |-> 0]
    /\ waiter = [r \in Run |-> "none"]
    /\ step = [b \in Broadcaster |-> "idle"]
    /\ message = [b \in Broadcaster |-> NoMessage]
    /\ todo = [b \in Broadcaster |-> <<>>]
    /\ cut = FALSE

Unlocked == TRUE
LockFree == \A b \in Broadcaster : step[b] # "sending"

\* What a Send may do: it waits while the buffer is full; to a client that hung
\* up it may seem to succeed.
Sends(c) ==
    \/ /\ conn[c] = "open" /\ unread[c] < BufferSize
       /\ unread' = [unread EXCEPT ![c] = @ + 1]
    \/ conn[c] = "closed" /\ UNCHANGED unread
Fails(c) == conn[c] \in {"closed", "broken"}

---------------------------------------------------------------------------
(* Clients and the network *)

Connect(c) ==
    /\ conn[c] = "none" /\ conn' = [conn EXCEPT ![c] = "open"]
    /\ handler' = [handler EXCEPT ![c] = "started"]
    /\ UNCHANGED <<request, requests, activeWebSockets, buffers, runs, broadcasts>>

Ask(c) ==
    /\ conn[c] = "open" /\ request[c] = "none"
    /\ requests[c] < Requests /\ requests' = [requests EXCEPT ![c] = @ + 1]
    /\ \/ /\ request' = [request EXCEPT ![c] = "query"]
          /\ UNCHANGED run
       \/ \E r \in Run :
          /\ request' = [request EXCEPT ![c] = r]
          /\ run[r] = "idle" /\ run' = [run EXCEPT ![r] = "asked"]
    /\ UNCHANGED <<conn, sockets, buffers, attempt, waiter, broadcasts>>

Read(c) ==
    /\ conn[c] = "open"
    /\ unread[c] > 0 /\ unread' = [unread EXCEPT ![c] = @ - 1]
    /\ UNCHANGED <<clients, sockets, heard, runs, broadcasts>>

HangUp(c) ==
    /\ conn[c] = "open" /\ conn' = [conn EXCEPT ![c] = "closed"]
    /\ unread' = [unread EXCEPT ![c] = 0]
    /\ UNCHANGED <<request, requests, sockets, heard, runs, broadcasts>>

\* The connection is reset: what was not read is lost.
Break(c) ==
    /\ conn[c] = "open" /\ conn' = [conn EXCEPT ![c] = "broken"]
    /\ request' = [request EXCEPT ![c] = "none"]
    /\ unread' = [unread EXCEPT ![c] = 0]
    /\ UNCHANGED <<requests, sockets, heard, runs, broadcasts>>

---------------------------------------------------------------------------
(* handleWebsocket *)

Register(c) ==
    /\ LockFree
    /\ handler[c] = "started" /\ handler' = [handler EXCEPT ![c] = "receiving"]
    /\ activeWebSockets' = Append(activeWebSockets, c)
    /\ UNCHANGED <<clients, buffers, runs, broadcasts>>

\* JSON.Receive returns a request; a connection that broke returns an error
\* each time, upon which the loop goes on.
Receives(c, what) ==
    /\ handler[c] = "receiving"
    /\ conn[c] # "broken"
    /\ request[c] = what /\ request' = [request EXCEPT ![c] = "none"]

\* Every request but one is answered on the same connection.
Serve(c) ==
    /\ Receives(c, "query")
    /\ Sends(c) \/ (Fails(c) /\ UNCHANGED unread)
    /\ UNCHANGED <<conn, requests, sockets, heard, runs, broadcasts>>

\* rebalancebyscid: a goroutine calls circular-scid.
Rebalance(c, r) ==
    /\ Receives(c, r)
    /\ run' = [run EXCEPT ![r] = "ready"]
    /\ waiter' = [waiter EXCEPT ![r] = "waiting"]
    /\ UNCHANGED <<conn, requests, sockets, buffers, attempt, broadcasts>>

\* io.EOF: the last socket takes the place of the one that goes.
DropLast(s, i) == SubSeq(s, 1, Len(s) - 1)
SwapRemove(s, i) == SubSeq([s EXCEPT ![i] = s[Len(s)]], 1, Len(s) - 1)

Unregister(c) ==
    /\ LockFree
    /\ conn[c] = "closed" /\ request[c] = "none"
    /\ handler[c] = "receiving" /\ handler' = [handler EXCEPT ![c] = "ended"]
    /\ \E i \in DOMAIN activeWebSockets :
        /\ activeWebSockets[i] = c
        /\ activeWebSockets' = SwapRemove(activeWebSockets, i)
    /\ UNCHANGED <<clients, buffers, runs, broadcasts>>

---------------------------------------------------------------------------
(* Runs *)

\* Somebody calls circular-scid without a WebSocket.
Command(r) ==
    /\ run[r] = "idle" /\ run' = [run EXCEPT ![r] = "ready"]
    /\ UNCHANGED <<clients, sockets, buffers, attempt, waiter, broadcasts>>

\* tryRoute broadcasts the route and waits until that is done ...
Broadcast(b, m) ==
    /\ step[b] = "idle" /\ step' = [step EXCEPT ![b] = "waiting"]
    /\ message' = [message EXCEPT ![b] = m]

SendAsynchronously(r) ==
    /\ run[r] = "ready" /\ run' = [run EXCEPT ![r] = "paying"]
    /\ attempt[r] < Attempts /\ attempt' = [attempt EXCEPT ![r] = @ + 1]
    /\ Broadcast(<<r, "attempt">>, actionRebalanceUpdate(r))
    /\ UNCHANGED <<clients, sockets, buffers, waiter, todo, cut>>
SendRebalanceAttempt(r) ==
    /\ run[r] = "ready" /\ run' = [run EXCEPT ![r] = "attempting"]
    /\ attempt[r] < Attempts /\ attempt' = [attempt EXCEPT ![r] = @ + 1]
    /\ Broadcast(<<r, "attempt">>, actionRebalanceUpdate(r))
    /\ UNCHANGED <<clients, sockets, buffers, waiter, todo, cut>>

\* ... then it pays; the run tries again or is over.
SendPay(r) ==
    /\ run[r] = "paying"
    /\ run' = [run EXCEPT ![r] = "ready"]
    /\ UNCHANGED <<clients, sockets, buffers, attempt, waiter, broadcasts>>

\* The run succeeds or gives up, perhaps without an attempt.
EndRun(r) ==
    /\ run[r] = "ready" /\ run' = [run EXCEPT ![r] = "over"]
    /\ UNCHANGED <<clients, sockets, buffers, attempt, waiter, broadcasts>>

\* The call of the goroutine returns, with an error when it took too long.
Answer(r) ==
    /\ waiter[r] = "waiting" /\ waiter' = [waiter EXCEPT ![r] = "telling"]
    /\ \E m \in Answers(r) :
        /\ run[r] = "over" \/ m[1] = "rebalancefailed"
        /\ Broadcast(<<r, "answer">>, m)
    /\ UNCHANGED <<clients, sockets, buffers, run, attempt, todo, cut>>

---------------------------------------------------------------------------
(* websocketBroadcast *)

Lock(b) ==
    /\ LockFree
    /\ step[b] = "waiting" /\ step' = [step EXCEPT ![b] = "sending"]
    /\ todo' = [todo EXCEPT ![b] = activeWebSockets]
    /\ UNCHANGED <<clients, sockets, buffers, runs, message, cut>>

Send(b) ==
    /\ step[b] = "sending" /\ todo[b] # <<>>
    /\ Sends(Head(todo[b]))
    /\ heard' = [heard EXCEPT ![Head(todo[b])] = Append(@, message[b])]
    /\ todo' = [todo EXCEPT ![b] = Tail(@)]
    /\ UNCHANGED <<clients, sockets, runs, step, message, cut>>

\* The loop breaks at the first error.
RetrySend(b) ==
    /\ step[b] = "sending" /\ todo[b] # <<>>
    /\ Fails(Head(todo[b]))
    /\ cut' = TRUE
    /\ UNCHANGED <<clients, sockets, buffers, runs, step, message, todo>>
SendError(b) ==
    /\ step[b] = "sending" /\ todo[b] # <<>>
    /\ Fails(Head(todo[b]))
    /\ todo' = [todo EXCEPT ![b] = <<>>]
    /\ cut' = TRUE
    /\ UNCHANGED <<clients, sockets, buffers, runs, step, message>>

\* The caller goes on.
Unlock(b) ==
    /\ step[b] = "sending" /\ todo[b] = <<>>
    /\ step' = [step EXCEPT ![b] = "idle"]
    /\ message' = [message EXCEPT ![b] = NoMessage]
    /\ IF b[2] = "attempt"
       THEN run' = [run EXCEPT ![b[1]] = IF @ = "attempting" THEN "paying" ELSE @]
            /\ UNCHANGED waiter
       ELSE waiter' = [waiter EXCEPT ![b[1]] = "done"] /\ UNCHANGED run
    /\ UNCHANGED <<clients, sockets, buffers, attempt, todo, cut>>

---------------------------------------------------------------------------

handleWebsocket(c) ==
    Register(c) \/ Serve(c) \/ (\E r \in Run : Rebalance(c, r)) \/ Unregister(c)

tryRoutes(r) == SendRebalanceAttempt(r) \/ SendPay(r) \/ EndRun(r)

websocketBroadcast(b) == Lock(b) \/ Send(b) \/ SendError(b) \/ Unlock(b)

Next ==
    \/ \E c \in Client : Connect(c) \/ Ask(c) \/ Read(c) \/ HangUp(c) \/ Break(c)
                         \/ handleWebsocket(c)
    \/ \E r \in Run : Command(r) \/ tryRoutes(r) \/ Answer(r)
    \/ \E b \in Broadcaster : websocketBroadcast(b)

Spec == Init /\ [][Next]_vars

\* Clients read what they are sent, goroutines run, a mutex of Go is given to
\* everybody who waits for it, attempts end after their timeout.
FairSpec ==
    /\ Spec
    /\ \A c \in Client : WF_vars(Read(c)) /\ SF_vars(handleWebsocket(c))
    /\ \A r \in Run : WF_vars(tryRoutes(r)) /\ WF_vars(Answer(r))
    /\ \A b \in Broadcaster : SF_vars(websocketBroadcast(b))

---------------------------------------------------------------------------
(* Properties *)

\* A socket is registered once, from the moment its handler begins to receive
\* until it ends, through removals that move other sockets (websocket.go:85-105):
\* one that is forgotten hears nothing more, one that stays or appears twice
\* cuts broadcasts off.
RegisteredWhileServed ==
    /\ \A i, k \in DOMAIN activeWebSockets :
        activeWebSockets[i] = activeWebSockets[k] => i = k
    /\ \A c \in Client :
        handler[c] = "receiving" <=> \E i \in DOMAIN activeWebSockets : activeWebSockets[i] = c

\* What a client will have heard when the broadcast is over.
Complete(c) ==
    LET B == {b \in Broadcaster : \E i \in DOMAIN todo[b] : todo[b][i] = c}
    IN  IF B = {} THEN heard[c] ELSE Append(heard[c], message[CHOOSE b \in B : TRUE])

\* Broadcasts of several runs and requests reach all clients in one order, and
\* until a send fails nobody misses one: of two clients that are served the one
\* that came later hears the end of what the other hears (websocket.go:237-257).
HeardInOrder ==
    \A c, d \in Client :
        /\ \A i, k \in DOMAIN heard[c], p, q \in DOMAIN heard[d] :
              i < k /\ heard[c][i] = heard[d][p] /\ heard[c][k] = heard[d][q] => p < q
        /\ ~cut /\ handler[c] = "receiving" /\ handler[d] = "receiving" =>
              \/ IsSuffix(Complete(c), Complete(d))
              \/ IsSuffix(Complete(d), Complete(c))

\* No client hears of an attempt of a run after the result of that run: the
\* attempt is broadcast before it is paid (route.go:55).  After
\* "rebalancefailed" attempts may follow, for the call may give up earlier than
\* the run.
NothingAfterTheEnd ==
    \A c \in Client : \A i, k \in DOMAIN heard[c] :
        i < k /\ heard[c][i][1] = "rebalanceend" /\ heard[c][k][1] = "rebalanceupdate"
            => heard[c][i][2] # heard[c][k][2]

\* Every payment attempt waits for a broadcast and every broadcast for each
\* client: as long as clients read or lose their connections, runs end, their
\* results are broadcast and the sockets of clients that hung up are taken out,
\* whatever connections break meanwhile (websocket.go:251).
BroadcastsEnd ==
    /\ \A r \in Run : (run[r] = "ready") ~> (run[r] = "over")
    /\ \A r \in Run : (waiter[r] = "waiting") ~> (waiter[r] = "done")
    /\ \A c \in Client : (conn[c] = "closed") ~> (handler[c] = "ended")
=============================================================================
