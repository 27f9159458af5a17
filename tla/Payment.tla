------------------------------ MODULE Payment ------------------------------
(***************************************************************************)
(* One circular payment, from the preimage to its record: tryRoute and     *)
(* SendPay in the goroutine of a rebalance, the htlc_accepted hook, the    *)
(* sendpay notifications, and the database they share.                     *)
(*                                                                         *)
(* A payment is known by its hash.  Attempts of circular are in Ours; the  *)
(* node makes other payments too, whose hooks and notifications the plugin *)
(* receives like its own.  lightningd is the environment: it decides what  *)
(* becomes of an HTLC.  Every database transaction is one atomic step, and *)
(* goroutines interleave between them.  The plugin may crash: goroutines   *)
(* and channels are lost, the database is not.                             *)
(*                                                                         *)
(* A definition that stands before the one it resembles and is used by no  *)
(* action is a faulty variant, kept to show that a property would notice   *)
(* it.                                                                     *)
(***************************************************************************)
EXTENDS Naturals

CONSTANTS
    Ours,        \* payments made by tryRoute, one per generated preimage
    Foreign,     \* other payments of the node
    BufferSize,  \* capacity of LiquidityUpdateChan, 16 in NewNode
    MaxCrashes   \* bound on the crashes explored

ASSUME PaymentsAssumption == Ours \cap Foreign = {}
ASSUME BufferAssumption == BufferSize \in Nat
ASSUME CrashesAssumption == MaxCrashes \in Nat

Payments == Ours \cup Foreign

VARIABLES
    up,         \* is the plugin running
    crashes,    \* how often it crashed
    saveStats,  \* the option circular-save-stats
    db,         \* the keys of the database, as <<kind, payment>>
    attempt,    \* where tryRoute and SendPay are, per payment of ours
    htlc,       \* lightningd's state of the outgoing payment
    hook,       \* the htlc_accepted call for the payment coming back
    note,       \* the handling of the sendpay_success or _failure notification
    updates     \* LiquidityUpdateChan

vars == <<up, crashes, saveStats, db, attempt, htlc, hook, note, updates>>

---------------------------------------------------------------------------
(* Keys of the database: the bare hash, and the prefixes of consts *)

Kinds == {"preimage", "timeout", "failure", "success", "route"}
StatKinds == {"failure", "success", "route"}

Stored(kind, p) == <<kind, p>> \in db

\* SaveToDb does nothing unless stats are wanted.
WithStat(keys, kind, p) == IF saveStats THEN keys \cup {<<kind, p>>} ELSE keys

\* The attempt is over, or died with the plugin.
Verdicts == {"paid", "failed", "timedout", "noroute", "notready", "killed", "killedmarking"}

\* manageTimeout has deleted the preimage.
Expired == {"marking", "timedout", "killedmarking"}

\* The channel may hold updates of earlier payments that failed.
Init ==
    /\ up = TRUE /\ crashes = 0
    /\ saveStats \in BOOLEAN
    /\ db = {}
    /\ attempt = [p \in Ours |-> "new"]
    /\ htlc = [p \in Payments |-> "none"]
    /\ hook = [p \in Payments |-> "none"]
    /\ note = [p \in Payments |-> "none"]
    /\ updates \in 0..BufferSize

Steps(p, from, to) ==
    /\ attempt[p] = from
    /\ attempt' = [attempt EXCEPT ![p] = to]

---------------------------------------------------------------------------
(* The goroutine of a rebalance *)

\* tryRoute stores a new preimage, before it looks for a route.
GeneratePreimageHashPair(p) ==
    /\ up /\ Steps(p, "new", "generated")
    /\ db' = db \cup {<<"preimage", p>>}
    /\ UNCHANGED <<up, crashes, saveStats, htlc, hook, note, updates>>

\* getRoute finds nothing: the preimage stays behind.
NoRoute(p) ==
    /\ up /\ Steps(p, "generated", "noroute")
    /\ UNCHANGED <<up, crashes, saveStats, db, htlc, hook, note, updates>>

\* getRoute finds a route, which is saved.
SaveRoute(p) ==
    /\ up /\ Steps(p, "generated", "routed")
    /\ db' = WithStat(db, "route", p)
    /\ UNCHANGED <<up, crashes, saveStats, htlc, hook, note, updates>>

\* SendPayLite returns: lightningd has the payment.
SendPay(p) ==
    /\ up /\ Steps(p, "routed", "waiting")
    /\ htlc' = [htlc EXCEPT ![p] = "pending"]
    /\ UNCHANGED <<up, crashes, saveStats, db, hook, note, updates>>

\* SendPayLite returns an error, reported as ErrFirstPeerNotReady.  When the
\* error is the timeout of the RPC, lightningd may have the payment all the same.
SendPayError(p) ==
    /\ up /\ Steps(p, "routed", "notready")
    /\ \/ UNCHANGED htlc
       \/ htlc' = [htlc EXCEPT ![p] = "pending"]
    /\ UNCHANGED <<up, crashes, saveStats, db, hook, note, updates>>

\* WaitSendPay returns the end of the payment.
WaitSendPay(p) ==
    /\ up
    /\ \/ htlc[p] = "complete" /\ Steps(p, "waiting", "paid")
       \/ htlc[p] = "failed" /\ Steps(p, "waiting", "failed")
    /\ UNCHANGED <<up, crashes, saveStats, db, htlc, hook, note, updates>>

\* WaitSendPay returns another error: the RPC failed, and nothing is known of the
\* payment.  tryRoute takes it for a failure; the preimage stays.
WaitSendPayError(p) ==
    /\ up /\ Steps(p, "waiting", "failed")
    /\ UNCHANGED <<up, crashes, saveStats, db, htlc, hook, note, updates>>

\* WaitSendPay gives up after SendpayTimeout.
NoWaitTimeout(p) == FALSE
WaitTimeout(p) ==
    /\ up
    /\ htlc[p] = "pending"
    /\ Steps(p, "waiting", "expiring")
    /\ UNCHANGED <<up, crashes, saveStats, db, htlc, hook, note, updates>>

\* manageTimeout deletes the preimage ...
DeleteMarker(p) ==
    /\ up /\ Steps(p, "expiring", "marking")
    /\ db' = db \ {<<"timeout", p>>}
    /\ UNCHANGED <<up, crashes, saveStats, htlc, hook, note, updates>>
DeletePreimage(p) ==
    /\ up /\ Steps(p, "expiring", "marking")
    /\ db' = db \ {<<"preimage", p>>}
    /\ UNCHANGED <<up, crashes, saveStats, htlc, hook, note, updates>>

\* ... and then marks the payment as timed out.
MarkTimeout(p) ==
    /\ up /\ Steps(p, "marking", "timedout")
    /\ db' = db \cup {<<"timeout", p>>}
    /\ UNCHANGED <<up, crashes, saveStats, htlc, hook, note, updates>>

---------------------------------------------------------------------------
(* The htlc_accepted hook *)

\* OnHtlcAccepted: resolve when the preimage is in the database.
OnHtlcAccepted(p) ==
    /\ up /\ hook[p] = "asked"
    /\ hook' = [hook EXCEPT ![p] = IF Stored("preimage", p) THEN "resolve" ELSE "continue"]
    /\ UNCHANGED <<up, crashes, saveStats, db, attempt, htlc, note, updates>>

---------------------------------------------------------------------------
(* The sendpay notifications *)

\* deleteIfOurs looks for the preimage ...
LookupPreimage(p) ==
    /\ up /\ note[p] = "due"
    /\ note' = [note EXCEPT ![p] =
                  IF Stored("preimage", p) THEN "deletepreimage" ELSE "lookuptimeout"]
    /\ UNCHANGED <<up, crashes, saveStats, db, attempt, htlc, hook, updates>>

\* ... then for the timeout marker; with neither the payment is not ours.
LookupNothingElse(p) ==
    /\ up /\ note[p] = "lookuptimeout"
    /\ note' = [note EXCEPT ![p] = "ignored"]
    /\ UNCHANGED <<up, crashes, saveStats, db, attempt, htlc, hook, updates>>
LookupTimeout(p) ==
    /\ up /\ note[p] = "lookuptimeout"
    /\ note' = [note EXCEPT ![p] =
                  IF Stored("timeout", p) THEN "deletetimeout" ELSE "ignored"]
    /\ UNCHANGED <<up, crashes, saveStats, db, attempt, htlc, hook, updates>>

\* deleteIfOurs deletes the key it found.
KeepKey(p) ==
    /\ up
    /\ note[p] \in {"deletepreimage", "deletetimeout"}
    /\ note' = [note EXCEPT ![p] = "save"]
    /\ UNCHANGED <<up, crashes, saveStats, db, attempt, htlc, hook, updates>>
DeleteKey(p) ==
    /\ up
    /\ \/ note[p] = "deletepreimage" /\ db' = db \ {<<"preimage", p>>}
       \/ note[p] = "deletetimeout" /\ db' = db \ {<<"timeout", p>>}
    /\ note' = [note EXCEPT ![p] = "save"]
    /\ UNCHANGED <<up, crashes, saveStats, attempt, htlc, hook, updates>>

\* OnPaymentSuccess saves the success and is done; OnPaymentFailure saves the
\* failure and has a liquidity update to send.
SaveAndEnqueueAny(p) ==
    /\ up /\ note[p] = "save"
    /\ db' = WithStat(db, IF htlc[p] = "complete" THEN "success" ELSE "failure", p)
    /\ note' = [note EXCEPT ![p] = "enqueue"]
    /\ UNCHANGED <<up, crashes, saveStats, attempt, htlc, hook, updates>>
SaveOutcome(p) ==
    /\ up /\ note[p] = "save"
    /\ \/ /\ htlc[p] = "complete"
          /\ db' = WithStat(db, "success", p)
          /\ note' = [note EXCEPT ![p] = "done"]
       \/ /\ htlc[p] = "failed"
          /\ db' = WithStat(db, "failure", p)
          /\ note' = [note EXCEPT ![p] = "enqueue"]
    /\ UNCHANGED <<up, crashes, saveStats, attempt, htlc, hook, updates>>

\* OnPaymentFailure sends on LiquidityUpdateChan, and blocks when it is full.
\* The receiver, UpdateLiquidity, is started nowhere in the program.
EnqueueUpdate(p) ==
    /\ up /\ note[p] = "enqueue"
    /\ updates < BufferSize
    /\ updates' = updates + 1
    /\ note' = [note EXCEPT ![p] = "done"]
    /\ UNCHANGED <<up, crashes, saveStats, db, attempt, htlc, hook>>

---------------------------------------------------------------------------
(* circular-delete-stats *)

DeleteEverything ==
    /\ up
    /\ db # {} /\ db' = {}
    /\ UNCHANGED <<up, crashes, saveStats, attempt, htlc, hook, note, updates>>
DeleteStats ==
    /\ up
    /\ db' = {key \in db : key[1] \notin StatKinds}
    /\ db' # db
    /\ UNCHANGED <<up, crashes, saveStats, attempt, htlc, hook, note, updates>>

---------------------------------------------------------------------------
(* Badger *)

\* A key that is stored lives for 14 days, much longer than the goroutine that
\* stored it, than the locks of an HTLC, and than a handler looks for it.
Unused(p) ==
    /\ attempt[p] \in Verdicts /\ htlc[p] # "pending"
    /\ note[p] \notin {"due", "lookuptimeout", "deletepreimage", "deletetimeout"}
Expire(p) ==
    /\ Unused(p)
    /\ \E kind \in Kinds : Stored(kind, p) /\ db' = db \ {<<kind, p>>}
    /\ UNCHANGED <<up, crashes, saveStats, attempt, htlc, hook, note, updates>>

---------------------------------------------------------------------------
(* lightningd *)

\* The node pays somebody else.
ForeignPay(p) ==
    /\ p \in Foreign
    /\ htlc[p] = "none"
    /\ htlc' = [htlc EXCEPT ![p] = "pending"]
    /\ UNCHANGED <<up, crashes, saveStats, db, attempt, hook, note, updates>>

\* The HTLC comes back to this node, which asks the plugin.
HtlcArrives(p) ==
    /\ htlc[p] = "pending"
    /\ hook[p] = "none"
    /\ hook' = [hook EXCEPT ![p] = "asked"]
    /\ UNCHANGED <<up, crashes, saveStats, db, attempt, htlc, note, updates>>

\* Without the plugin the hook is skipped.
HookSkipped(p) ==
    /\ ~up /\ hook[p] = "asked"
    /\ hook' = [hook EXCEPT ![p] = "skipped"]
    /\ UNCHANGED <<up, crashes, saveStats, db, attempt, htlc, note, updates>>

\* The payment ends, and the plugin is notified if it runs.
Finish(p, end) ==
    /\ htlc[p] = "pending"
    /\ htlc' = [htlc EXCEPT ![p] = end]
    /\ note' = [note EXCEPT ![p] = IF up THEN "due" ELSE "lost"]
    /\ UNCHANGED <<up, crashes, saveStats, db, attempt, hook, updates>>

\* It completes when the plugin gave the preimage, or somebody else did.
Complete(p) ==
    /\ hook[p] = "resolve" \/ p \in Foreign
    /\ Finish(p, "complete")

\* It fails along the route, or here, where no invoice has its hash.
Fail(p) ==
    /\ hook[p] \in {"none", "continue", "skipped"}
    /\ Finish(p, "failed")

---------------------------------------------------------------------------
(* Crashes and restarts of the plugin *)

Crash ==
    /\ up /\ up' = FALSE
    /\ crashes < MaxCrashes /\ crashes' = crashes + 1
    /\ attempt' = [p \in Ours |->
                     IF attempt[p] \in Verdicts \cup {"new"} THEN attempt[p]
                     ELSE IF attempt[p] = "marking" THEN "killedmarking"
                     ELSE "killed"]
    /\ note' = [p \in Payments |->
                  IF note[p] \in {"none", "done", "ignored"} THEN note[p] ELSE "lost"]
    /\ updates' = 0
    /\ UNCHANGED <<saveStats, db, htlc, hook>>

Restart ==
    /\ ~up /\ up' = TRUE
    /\ UNCHANGED <<crashes, saveStats, db, attempt, htlc, hook, note, updates>>

---------------------------------------------------------------------------

Attempt(p) ==
    \/ GeneratePreimageHashPair(p)
    \/ NoRoute(p) \/ SaveRoute(p)
    \/ SendPay(p) \/ SendPayError(p)
    \/ WaitSendPay(p) \/ WaitTimeout(p)
    \/ DeletePreimage(p) \/ MarkTimeout(p)

Notification(p) ==
    \/ LookupPreimage(p) \/ LookupTimeout(p) \/ DeleteKey(p)
    \/ SaveOutcome(p) \/ EnqueueUpdate(p)

Lightningd(p) ==
    \/ ForeignPay(p)
    \/ HtlcArrives(p) \/ HookSkipped(p)
    \/ Complete(p) \/ Fail(p)

\* Every goroutine is over, but for handlers that LiquidityUpdateChan blocks:
\* the plugin waits for the next call.
Quiet ==
    /\ \A p \in Ours : attempt[p] \in Verdicts
    /\ \A p \in Payments : \/ note[p] \in {"none", "done", "ignored", "lost"}
                           \/ note[p] = "enqueue" /\ updates = BufferSize
    /\ UNCHANGED vars

Next ==
    \/ \E p \in Ours : Attempt(p) \/ WaitSendPayError(p) \/ Expire(p)
    \/ \E p \in Payments : OnHtlcAccepted(p) \/ Notification(p) \/ Lightningd(p)
    \/ DeleteStats
    \/ Crash \/ Restart
    \/ Quiet

Spec == Init /\ [][Next]_vars

\* Goroutines are scheduled, and WaitSendPay returns at its timeout at the latest.
\* Nothing is assumed of HTLCs, which may stay pending, no RPC has to fail, and no
\* key has to expire.
FairSpec ==
    /\ Spec
    /\ \A p \in Ours : WF_vars(Attempt(p))
    /\ \A p \in Payments : WF_vars(OnHtlcAccepted(p)) /\ WF_vars(Notification(p))

---------------------------------------------------------------------------
(* Properties *)

\* Every variable holds one of its values, and the channel is never over its
\* capacity.
TypeOK ==
    /\ up \in BOOLEAN /\ saveStats \in BOOLEAN
    /\ crashes \in 0..MaxCrashes
    /\ db \subseteq Kinds \X Payments
    /\ attempt \in [Ours -> Verdicts \cup {"new", "generated", "routed", "waiting",
                                           "expiring", "marking"}]
    /\ htlc \in [Payments -> {"none", "pending", "complete", "failed"}]
    /\ hook \in [Payments -> {"none", "asked", "resolve", "continue", "skipped"}]
    /\ note \in [Payments -> {"none", "due", "lookuptimeout", "deletepreimage", "deletetimeout",
                              "save", "enqueue", "done", "ignored", "lost"}]
    /\ updates \in 0..BufferSize

\* OnHtlcAccepted refuses an HTLC of ours only when its payment timed out before:
\* whatever crashes, deletes stats or is notified meanwhile, the preimage is in
\* the database from before SendPay until the payment ends or is given up.
RefusedOnlyExpired ==
    \A p \in Ours : hook[p] = "continue" => attempt[p] \in Expired

\* Once manageTimeout has deleted the preimage, OnHtlcAccepted does not resolve
\* the HTLC any more.
NoLateResolve ==
    [][\A p \in Ours :
         attempt[p] \in Expired /\ hook[p] = "asked" => hook'[p] # "resolve"]_vars

\* Payments that circular did not make leave nothing in the database and add no
\* liquidity updates, and the hook lets their HTLCs pass.
OnlyOursLeaveTraces ==
    /\ db \subseteq Kinds \X Ours
    /\ \A p \in Foreign : hook[p] # "resolve" /\ note[p] \notin {"save", "enqueue", "done"}

\* When the notification of a payment was recorded, its preimage is gone: the
\* plugin will not pay out another HTLC with the same hash.
SettledNotReusable ==
    \A p \in Payments :
        note[p] \in {"save", "enqueue", "done"} => ~Stored("preimage", p)

\* SendPay returns: WaitSendPay is bounded by SendpayTimeout even when the HTLC
\* stays pending.
EveryAttemptEnds ==
    \A p \in Ours : attempt[p] = "waiting" ~> attempt[p] \in Verdicts

\* The marker of a timeout, once it is stored, is consumed by the notification
\* that comes for the payment, however late that is (payment.go:79-86): it stays
\* behind only when the notification is lost with the plugin, or overlaps
\* manageTimeout and looked before the marker was there.
MarkersConsumed ==
    \A p \in Ours :
        note[p] = "due" /\ Stored("timeout", p) ~> ~Stored("timeout", p) \/ note[p] = "lost"

\* The plugin takes the notification of a payment of ours for one of somebody else
\* only when it looks for the marker after manageTimeout deleted the preimage and
\* before it stored the marker (payment.go:59-65), or died there.
IgnoredOnlyWhileMarking ==
    [][\A p \in Ours : note'[p] = "ignored" /\ note[p] # "ignored" =>
            attempt[p] \in {"marking", "killedmarking"}]_vars

\* A success of ours that is notified is recorded, also when LiquidityUpdateChan
\* is full, unless the plugin dies or takes it for a payment of somebody else, of
\* which it has but that one occasion.
SuccessesRecorded ==
    /\ \A p \in Ours :
        note[p] = "due" /\ htlc[p] = "complete" ~> note[p] \in {"done", "ignored", "lost"}
    /\ IgnoredOnlyWhileMarking
=============================================================================
