--------------------------- MODULE Payment_proofs ---------------------------
(***************************************************************************)
(* Proofs about Payment, for any set of payments, any capacity of the      *)
(* channel and any number of crashes.                                      *)
(*                                                                         *)
(* The properties of the hook rest on where the preimage is: it is stored  *)
(* from before the HTLC exists until the HTLC is over, unless the timeout  *)
(* took it away, and then it never comes back.                             *)
(***************************************************************************)
EXTENDS Payment, TLAPS

\* Until SendPay lightningd knows nothing of the payment, and the hook and the
\* notifications come after.
LightningdFollows ==
    /\ \A p \in Ours :
        /\ attempt[p] \in {"new", "generated", "routed", "noroute"} => htlc[p] = "none"
        /\ hook[p] = "asked" => htlc[p] = "pending"
    /\ \A p \in Payments :
        /\ note[p] # "none" => htlc[p] \in {"complete", "failed"}
        /\ hook[p] # "none" => htlc[p] # "none"

\* The preimage is there for as long as it may be asked for.
PreimageKept ==
    \A p \in Ours :
        attempt[p] \in {"generated", "routed"} \/ (htlc[p] = "pending" /\ attempt[p] \notin Expired)
            => Stored("preimage", p)

\* ... and is gone for good after a timeout or a notification.
PreimageGone ==
    /\ \A p \in Ours : attempt[p] \in Expired => ~Stored("preimage", p)
    /\ \A p \in Payments :
        note[p] \in {"lookuptimeout", "deletetimeout", "save", "enqueue", "done", "ignored"}
            => ~Stored("preimage", p)

\* Nothing is kept of payments of others.
ForeignUntouched ==
    /\ db \subseteq Kinds \X Ours
    /\ \A p \in Foreign :
        /\ hook[p] # "resolve"
        /\ note[p] \notin {"deletepreimage", "deletetimeout", "save", "enqueue", "done"}

\* The notification of a payment of ours finds the preimage, or the marker once
\* manageTimeout is done: a payment that timed out had been sent, and is notified
\* when it is over.
Findable ==
    \A p \in Ours :
        /\ attempt[p] \in {"waiting", "expiring", "marking", "timedout"} => htlc[p] # "none"
        /\ note[p] = "none" => htlc[p] \in {"none", "pending"}
        /\ note[p] = "due" => attempt[p] \in Expired \/ Stored("preimage", p)
        /\ note[p] = "lookuptimeout" => attempt[p] \in Expired
        /\ attempt[p] = "timedout" /\ note[p] \in {"none", "due", "lookuptimeout"}
              => Stored("timeout", p)

IInv ==
    /\ TypeOK
    /\ LightningdFollows
    /\ PreimageKept
    /\ PreimageGone
    /\ ForeignUntouched
    /\ RefusedOnlyExpired

---------------------------------------------------------------------------

\* Init establishes the invariant: nothing is stored and nothing was sent.
LEMMA InitIInv == Init => IInv
    BY PaymentsAssumption, BufferAssumption, CrashesAssumption
       DEF Init, IInv, TypeOK, LightningdFollows, PreimageKept, PreimageGone,
           ForeignUntouched, RefusedOnlyExpired, Stored, Expired, Verdicts, Kinds, Payments

\* Every step keeps the types.
LEMMA NextTypeOK == TypeOK /\ [Next]_vars => TypeOK'
<1> SUFFICES ASSUME TypeOK, [Next]_vars PROVE TypeOK'
    OBVIOUS
<1> USE PaymentsAssumption, BufferAssumption, CrashesAssumption
        DEF TypeOK, Payments
<1>1. ASSUME NEW p \in Ours, Attempt(p) \/ WaitSendPayError(p) PROVE TypeOK'
    BY <1>1 DEF Attempt, GeneratePreimageHashPair, NoRoute, SaveRoute, SendPay, SendPayError,
               WaitSendPay, WaitSendPayError, WaitTimeout, DeletePreimage, MarkTimeout, Steps,
               WithStat, Verdicts, Kinds
<1>2. ASSUME NEW p \in Ours, Expire(p) PROVE TypeOK'
    BY <1>2 DEF Expire
<1>3. ASSUME NEW p \in Payments, OnHtlcAccepted(p) PROVE TypeOK'
    BY <1>3 DEF OnHtlcAccepted
<1>4. ASSUME NEW p \in Payments, Notification(p) PROVE TypeOK'
    BY <1>4 DEF Notification, LookupPreimage, LookupTimeout, DeleteKey, SaveOutcome,
               EnqueueUpdate, WithStat, Kinds
<1>5. ASSUME NEW p \in Payments, Lightningd(p) PROVE TypeOK'
    BY <1>5 DEF Lightningd, ForeignPay, HtlcArrives, HookSkipped, Complete, Fail, Finish
<1>6. ASSUME DeleteStats PROVE TypeOK'
    BY <1>6 DEF DeleteStats
<1>7. ASSUME Crash PROVE TypeOK'
    <2>1. attempt' \in [Ours -> Verdicts \cup {"new", "generated", "routed", "waiting",
                                               "expiring", "marking"}]
        BY <1>7 DEF Crash, Verdicts
    <2>2. note' \in [Payments -> {"none", "due", "lookuptimeout", "deletepreimage", "deletetimeout",
                                  "save", "enqueue", "done", "ignored", "lost"}]
        BY <1>7 DEF Crash
    <2>3. crashes' \in 0..MaxCrashes /\ updates' \in 0..BufferSize
        BY <1>7, SMT DEF Crash
    <2> QED
        BY <1>7, <2>1, <2>2, <2>3 DEF Crash
<1>8. ASSUME Restart PROVE TypeOK'
    BY <1>8 DEF Restart
<1>9. ASSUME UNCHANGED vars PROVE TypeOK'
    BY <1>9 DEF vars
<1> QED
    BY <1>1, <1>2, <1>3, <1>4, <1>5, <1>6, <1>7, <1>8, <1>9 DEF Next, Quiet

\* Every step keeps what lightningd knows in step with the attempt.
LEMMA NextLightningd == IInv /\ [Next]_vars => LightningdFollows'
<1> SUFFICES ASSUME IInv, [Next]_vars PROVE LightningdFollows'
    OBVIOUS
<1> USE PaymentsAssumption DEF IInv, TypeOK, LightningdFollows, Payments
<1>1. ASSUME NEW p \in Ours, Attempt(p) \/ WaitSendPayError(p) PROVE LightningdFollows'
    BY <1>1 DEF Attempt, GeneratePreimageHashPair, NoRoute, SaveRoute, SendPay, SendPayError,
               WaitSendPay, WaitSendPayError, WaitTimeout, DeletePreimage, MarkTimeout, Steps
<1>2. ASSUME NEW p \in Ours, Expire(p) PROVE LightningdFollows'
    BY <1>2 DEF Expire
<1>3. ASSUME NEW p \in Payments, OnHtlcAccepted(p) PROVE LightningdFollows'
    BY <1>3 DEF OnHtlcAccepted
<1>4. ASSUME NEW p \in Payments, Notification(p) PROVE LightningdFollows'
    BY <1>4 DEF Notification, LookupPreimage, LookupTimeout, DeleteKey, SaveOutcome,
               EnqueueUpdate
<1>5. ASSUME NEW p \in Payments, Lightningd(p) PROVE LightningdFollows'
    BY <1>5 DEF Lightningd, ForeignPay, HtlcArrives, HookSkipped, Complete, Fail, Finish
<1>6. ASSUME DeleteStats PROVE LightningdFollows'
    BY <1>6 DEF DeleteStats
<1>7. ASSUME Crash PROVE LightningdFollows'
    BY <1>7 DEF Crash, Verdicts
<1>8. ASSUME Restart PROVE LightningdFollows'
    BY <1>8 DEF Restart
<1>9. ASSUME UNCHANGED vars PROVE LightningdFollows'
    BY <1>9 DEF vars
<1> QED
    BY <1>1, <1>2, <1>3, <1>4, <1>5, <1>6, <1>7, <1>8, <1>9 DEF Next, Quiet

\* Every step keeps the preimage where the HTLC may still need it.
LEMMA NextPreimageKept == IInv /\ [Next]_vars => PreimageKept'
<1> SUFFICES ASSUME IInv, [Next]_vars PROVE PreimageKept'
    OBVIOUS
<1> USE PaymentsAssumption
        DEF IInv, TypeOK, LightningdFollows, PreimageKept, Payments, Expired, Stored
<1>1. ASSUME NEW p \in Ours, Attempt(p) \/ WaitSendPayError(p) PROVE PreimageKept'
    BY <1>1 DEF Attempt, GeneratePreimageHashPair, NoRoute, SaveRoute, SendPay, SendPayError,
               WaitSendPay, WaitSendPayError, WaitTimeout, DeletePreimage, MarkTimeout, Steps,
               WithStat
<1>2. ASSUME NEW p \in Ours, Expire(p) PROVE PreimageKept'
    BY <1>2 DEF Expire, Unused, Verdicts
<1>3. ASSUME NEW p \in Payments, OnHtlcAccepted(p) PROVE PreimageKept'
    BY <1>3 DEF OnHtlcAccepted
<1>4. ASSUME NEW p \in Payments, Notification(p) PROVE PreimageKept'
    BY <1>4 DEF Notification, LookupPreimage, LookupTimeout, DeleteKey, SaveOutcome,
               EnqueueUpdate, WithStat
<1>5. ASSUME NEW p \in Payments, Lightningd(p) PROVE PreimageKept'
    BY <1>5 DEF Lightningd, ForeignPay, HtlcArrives, HookSkipped, Complete, Fail, Finish
<1>6. ASSUME DeleteStats PROVE PreimageKept'
    BY <1>6 DEF DeleteStats, StatKinds
<1>7. ASSUME Crash PROVE PreimageKept'
    BY <1>7 DEF Crash, Verdicts
<1>8. ASSUME Restart PROVE PreimageKept'
    BY <1>8 DEF Restart
<1>9. ASSUME UNCHANGED vars PROVE PreimageKept'
    BY <1>9 DEF vars
<1> QED
    BY <1>1, <1>2, <1>3, <1>4, <1>5, <1>6, <1>7, <1>8, <1>9 DEF Next, Quiet

\* No step brings a preimage back.
LEMMA NextPreimageGone == IInv /\ [Next]_vars => PreimageGone'
<1> SUFFICES ASSUME IInv, [Next]_vars PROVE PreimageGone'
    OBVIOUS
<1> USE PaymentsAssumption
        DEF IInv, TypeOK, LightningdFollows, PreimageGone, Payments, Expired, Stored
<1>1. ASSUME NEW p \in Ours, Attempt(p) \/ WaitSendPayError(p) PROVE PreimageGone'
    BY <1>1 DEF Attempt, GeneratePreimageHashPair, NoRoute, SaveRoute, SendPay, SendPayError,
               WaitSendPay, WaitSendPayError, WaitTimeout, DeletePreimage, MarkTimeout, Steps,
               WithStat
<1>2. ASSUME NEW p \in Ours, Expire(p) PROVE PreimageGone'
    BY <1>2 DEF Expire
<1>3. ASSUME NEW p \in Payments, OnHtlcAccepted(p) PROVE PreimageGone'
    BY <1>3 DEF OnHtlcAccepted
<1>4. ASSUME NEW p \in Payments, Notification(p) PROVE PreimageGone'
    BY <1>4 DEF Notification, LookupPreimage, LookupTimeout, DeleteKey, SaveOutcome,
               EnqueueUpdate, WithStat
<1>5. ASSUME NEW p \in Payments, Lightningd(p) PROVE PreimageGone'
    BY <1>5 DEF Lightningd, ForeignPay, HtlcArrives, HookSkipped, Complete, Fail, Finish
<1>6. ASSUME DeleteStats PROVE PreimageGone'
    BY <1>6 DEF DeleteStats
<1>7. ASSUME Crash PROVE PreimageGone'
    BY <1>7 DEF Crash, Verdicts
<1>8. ASSUME Restart PROVE PreimageGone'
    BY <1>8 DEF Restart
<1>9. ASSUME UNCHANGED vars PROVE PreimageGone'
    BY <1>9 DEF vars
<1> QED
    BY <1>1, <1>2, <1>3, <1>4, <1>5, <1>6, <1>7, <1>8, <1>9 DEF Next, Quiet

\* No step of the plugin touches a payment it did not make.
LEMMA NextForeign == IInv /\ [Next]_vars => ForeignUntouched'
<1> SUFFICES ASSUME IInv, [Next]_vars PROVE ForeignUntouched'
    OBVIOUS
<1> USE PaymentsAssumption
        DEF IInv, TypeOK, ForeignUntouched, Payments, Stored, Kinds
<1>1. ASSUME NEW p \in Ours, Attempt(p) \/ WaitSendPayError(p) PROVE ForeignUntouched'
    BY <1>1 DEF Attempt, GeneratePreimageHashPair, NoRoute, SaveRoute, SendPay, SendPayError,
               WaitSendPay, WaitSendPayError, WaitTimeout, DeletePreimage, MarkTimeout, Steps, WithStat
<1>2. ASSUME NEW p \in Ours, Expire(p) PROVE ForeignUntouched'
    BY <1>2 DEF Expire
<1>3. ASSUME NEW p \in Payments, OnHtlcAccepted(p) PROVE ForeignUntouched'
    BY <1>3 DEF OnHtlcAccepted
<1>4. ASSUME NEW p \in Payments, Notification(p) PROVE ForeignUntouched'
    BY <1>4 DEF Notification, LookupPreimage, LookupTimeout, DeleteKey, SaveOutcome,
               EnqueueUpdate, WithStat
<1>5. ASSUME NEW p \in Payments, Lightningd(p) PROVE ForeignUntouched'
    BY <1>5 DEF Lightningd, ForeignPay, HtlcArrives, HookSkipped, Complete, Fail, Finish
<1>6. ASSUME DeleteStats PROVE ForeignUntouched'
    BY <1>6 DEF DeleteStats
<1>7. ASSUME Crash PROVE ForeignUntouched'
    BY <1>7 DEF Crash, Verdicts
<1>8. ASSUME Restart PROVE ForeignUntouched'
    BY <1>8 DEF Restart
<1>9. ASSUME UNCHANGED vars PROVE ForeignUntouched'
    BY <1>9 DEF vars
<1> QED
    BY <1>1, <1>2, <1>3, <1>4, <1>5, <1>6, <1>7, <1>8, <1>9 DEF Next, Quiet

\* Every step refuses an HTLC of ours only after its timeout, which is final.
LEMMA NextRefused == IInv /\ [Next]_vars => RefusedOnlyExpired'
<1> SUFFICES ASSUME IInv, [Next]_vars PROVE RefusedOnlyExpired'
    OBVIOUS
<1> USE PaymentsAssumption
        DEF IInv, TypeOK, LightningdFollows, PreimageKept, RefusedOnlyExpired, Payments, Expired, Stored
<1>1. ASSUME NEW p \in Ours, Attempt(p) \/ WaitSendPayError(p) PROVE RefusedOnlyExpired'
    BY <1>1 DEF Attempt, GeneratePreimageHashPair, NoRoute, SaveRoute, SendPay, SendPayError,
               WaitSendPay, WaitSendPayError, WaitTimeout, DeletePreimage, MarkTimeout, Steps, WithStat
<1>2. ASSUME NEW p \in Ours, Expire(p) PROVE RefusedOnlyExpired'
    BY <1>2 DEF Expire
<1>3. ASSUME NEW p \in Payments, OnHtlcAccepted(p) PROVE RefusedOnlyExpired'
    BY <1>3 DEF OnHtlcAccepted
<1>4. ASSUME NEW p \in Payments, Notification(p) PROVE RefusedOnlyExpired'
    BY <1>4 DEF Notification, LookupPreimage, LookupTimeout, DeleteKey, SaveOutcome,
               EnqueueUpdate, WithStat
<1>5. ASSUME NEW p \in Payments, Lightningd(p) PROVE RefusedOnlyExpired'
    BY <1>5 DEF Lightningd, ForeignPay, HtlcArrives, HookSkipped, Complete, Fail, Finish
<1>6. ASSUME DeleteStats PROVE RefusedOnlyExpired'
    BY <1>6 DEF DeleteStats
<1>7. ASSUME Crash PROVE RefusedOnlyExpired'
    BY <1>7 DEF Crash, Verdicts
<1>8. ASSUME Restart PROVE RefusedOnlyExpired'
    BY <1>8 DEF Restart
<1>9. ASSUME UNCHANGED vars PROVE RefusedOnlyExpired'
    BY <1>9 DEF vars
<1> QED
    BY <1>1, <1>2, <1>3, <1>4, <1>5, <1>6, <1>7, <1>8, <1>9 DEF Next, Quiet

\* Every step keeps what deleteIfOurs can find where it will look.
LEMMA NextFindable == IInv /\ Findable /\ [Next]_vars => Findable'
<1> SUFFICES ASSUME IInv, Findable, [Next]_vars PROVE Findable'
    OBVIOUS
<1> USE PaymentsAssumption
        DEF IInv, TypeOK, LightningdFollows, PreimageKept, Findable, Payments, Expired, Stored
<1>1. ASSUME NEW p \in Ours, Attempt(p) \/ WaitSendPayError(p) PROVE Findable'
    <2>1. CASE GeneratePreimageHashPair(p)
        BY <2>1 DEF GeneratePreimageHashPair, Steps
    <2>2. CASE NoRoute(p)
        BY <2>2 DEF NoRoute, Steps
    <2>3. CASE SaveRoute(p)
        BY <2>3 DEF SaveRoute, Steps, WithStat
    <2>4. CASE SendPay(p)
        BY <2>4 DEF SendPay, Steps
    <2>5. CASE SendPayError(p)
        BY <2>5 DEF SendPayError, Steps
    <2>6. CASE WaitSendPay(p)
        <3>1. CASE Steps(p, "waiting", "paid")
            BY <2>6, <3>1 DEF WaitSendPay, Steps
        <3>2. CASE Steps(p, "waiting", "failed")
            BY <2>6, <3>2 DEF WaitSendPay, Steps
        <3> QED
            BY <2>6, <3>1, <3>2 DEF WaitSendPay
    <2>7. CASE WaitSendPayError(p)
        BY <2>7 DEF WaitSendPayError, Steps
    <2>8. CASE WaitTimeout(p)
        BY <2>8 DEF WaitTimeout, Steps
    <2>9. CASE DeletePreimage(p)
        BY <2>9 DEF DeletePreimage, Steps
    <2>10. CASE MarkTimeout(p)
        BY <2>10 DEF MarkTimeout, Steps
    <2> QED
        BY <1>1, <2>1, <2>2, <2>3, <2>4, <2>5, <2>6, <2>7, <2>8, <2>9, <2>10 DEF Attempt
<1>2. ASSUME NEW p \in Ours, Expire(p) PROVE Findable'
    BY <1>2 DEF Expire, Unused
<1>3. ASSUME NEW p \in Payments, OnHtlcAccepted(p) PROVE Findable'
    BY <1>3 DEF OnHtlcAccepted
<1>4. ASSUME NEW p \in Payments, Notification(p) PROVE Findable'
    <2>1. CASE LookupPreimage(p)
        BY <2>1 DEF LookupPreimage
    <2>2. CASE LookupTimeout(p)
        BY <2>2 DEF LookupTimeout
    <2>3. CASE DeleteKey(p)
        <3>1. note' = [note EXCEPT ![p] = "save"] /\ UNCHANGED <<attempt, htlc>>
            BY <2>3 DEF DeleteKey
        <3>2. note'[p] = "save" /\ \A q \in Payments : q # p => note'[q] = note[q]
            BY <3>1
        <3>3. \A kind \in {"preimage", "timeout"}, q \in Payments :
                 q # p => (<<kind, q>> \in db' <=> <<kind, q>> \in db)
            <4>1. PICK k \in {"preimage", "timeout"} : db' = db \ {<<k, p>>}
                BY <2>3 DEF DeleteKey
            <4> QED
                BY <4>1
        <3> SUFFICES ASSUME NEW q \in Ours PROVE Findable!(q)'
            BY DEF Findable
        <3>4. CASE q = p
            BY <3>1, <3>2, <3>4, q \in Payments
        <3>5. CASE q # p
            BY <3>1, <3>2, <3>3, <3>5, q \in Payments
        <3> QED
            BY <3>4, <3>5
    <2>4. CASE SaveOutcome(p)
        <3>1. UNCHANGED <<attempt, htlc>>
            BY <2>4 DEF SaveOutcome
        <3>2. PICK n \in {"done", "enqueue"} : note' = [note EXCEPT ![p] = n]
            BY <2>4 DEF SaveOutcome
        <3>3. db \subseteq db'
            BY <2>4 DEF SaveOutcome, WithStat
        <3> SUFFICES ASSUME NEW q \in Ours PROVE Findable!(q)'
            BY DEF Findable
        <3>4. CASE q = p
            BY <3>1, <3>2, <3>3, <3>4, q \in Payments
        <3>5. CASE q # p
            BY <3>1, <3>2, <3>3, <3>5, q \in Payments
        <3> QED
            BY <3>4, <3>5
    <2>5. CASE EnqueueUpdate(p)
        BY <2>5 DEF EnqueueUpdate
    <2> QED
        BY <1>4, <2>1, <2>2, <2>3, <2>4, <2>5 DEF Notification
<1>5. ASSUME NEW p \in Payments, Lightningd(p) PROVE Findable'
    <2>1. CASE ForeignPay(p)
        BY <2>1 DEF ForeignPay
    <2>2. CASE HtlcArrives(p)
        BY <2>2 DEF HtlcArrives
    <2>3. CASE HookSkipped(p)
        BY <2>3 DEF HookSkipped
    <2>4. CASE Complete(p)
        BY <2>4 DEF Complete, Finish
    <2>5. CASE Fail(p)
        BY <2>5 DEF Fail, Finish
    <2> QED
        BY <1>5, <2>1, <2>2, <2>3, <2>4, <2>5 DEF Lightningd
<1>6. ASSUME DeleteStats PROVE Findable'
    BY <1>6 DEF DeleteStats, StatKinds
<1>7. ASSUME Crash PROVE Findable'
    BY <1>7 DEF Crash, Verdicts
<1>8. ASSUME Restart PROVE Findable'
    BY <1>8 DEF Restart
<1>9. ASSUME UNCHANGED vars PROVE Findable'
    BY <1>9 DEF vars
<1> QED
    BY <1>1, <1>2, <1>3, <1>4, <1>5, <1>6, <1>7, <1>8, <1>9 DEF Next, Quiet

---------------------------------------------------------------------------

\* The facts above hold in every reachable state.
THEOREM Invariance == Spec => []IInv
<1>1. IInv /\ [Next]_vars => IInv'
    BY NextTypeOK, NextLightningd, NextPreimageKept, NextPreimageGone, NextForeign, NextRefused
       DEF IInv
<1> QED
    BY InitIInv, <1>1, PTL DEF Spec

\* Every variable keeps its type, and LiquidityUpdateChan its capacity.
THEOREM TypeCorrect == Spec => []TypeOK
<1>1. IInv => TypeOK
    BY DEF IInv
<1> QED
    BY Invariance, <1>1, PTL

\* OnHtlcAccepted refuses an HTLC of circular only when its payment timed out,
\* through any number of crashes.
THEOREM RefusalCorrect == Spec => []RefusedOnlyExpired
<1>1. IInv => RefusedOnlyExpired
    BY DEF IInv
<1> QED
    BY Invariance, <1>1, PTL

\* What deleteIfOurs settled cannot be paid out again.
THEOREM SettledCorrect == Spec => []SettledNotReusable
<1>1. IInv => SettledNotReusable
    BY DEF IInv, PreimageGone, SettledNotReusable
<1> QED
    BY Invariance, <1>1, PTL

\* Payments of others pass the plugin without a trace.
THEOREM ForeignCorrect == Spec => []OnlyOursLeaveTraces
<1>1. IInv => OnlyOursLeaveTraces
    BY DEF IInv, ForeignUntouched, OnlyOursLeaveTraces
<1> QED
    BY Invariance, <1>1, PTL

\* After manageTimeout deleted the preimage the hook does not resolve the HTLC.
THEOREM TimeoutCorrect == Spec => NoLateResolve
<1>1. ASSUME IInv, [Next]_vars, NEW p \in Ours, attempt[p] \in Expired, hook[p] = "asked"
      PROVE  hook'[p] # "resolve"
    <2> USE <1>1 DEF IInv, TypeOK, Payments
    <2>1. ~Stored("preimage", p)
        BY DEF PreimageGone
    <2>2. ASSUME NEW q \in Payments, OnHtlcAccepted(q) PROVE hook'[p] # "resolve"
        BY <2>1, <2>2 DEF OnHtlcAccepted
    <2>3. ASSUME NEW q \in Ours, Attempt(q) \/ WaitSendPayError(q) \/ Expire(q) PROVE UNCHANGED hook
        BY <2>3 DEF Attempt, GeneratePreimageHashPair, NoRoute, SaveRoute, SendPay,
               SendPayError, WaitSendPay, WaitSendPayError, WaitTimeout, DeletePreimage,
               MarkTimeout, Expire
    <2>4. ASSUME NEW q \in Payments, Notification(q) PROVE UNCHANGED hook
        BY <2>4 DEF Notification, LookupPreimage, LookupTimeout, DeleteKey, SaveOutcome,
               EnqueueUpdate
    <2>5. ASSUME NEW q \in Payments, Lightningd(q) PROVE hook'[p] # "resolve"
        BY <2>5 DEF Lightningd, ForeignPay, HtlcArrives, HookSkipped, Complete, Fail, Finish
    <2>6. CASE DeleteStats \/ Crash \/ Restart \/ UNCHANGED vars
        BY <2>6 DEF DeleteStats, Crash, Restart, vars
    <2> QED
        BY <2>2, <2>3, <2>4, <2>5, <2>6 DEF Next, Quiet
<1>2. IInv /\ [Next]_vars
        => [\A p \in Ours :
              attempt[p] \in Expired /\ hook[p] = "asked" => hook'[p] # "resolve"]_vars
    BY <1>1
<1> QED
    BY Invariance, <1>2, PTL DEF Spec, NoLateResolve

\* A payment of ours is taken for one of somebody else only between the two
\* transactions of manageTimeout, or after the plugin died between them.
THEOREM RecordCorrect == Spec => IgnoredOnlyWhileMarking
<1>1. Init => Findable
    BY PaymentsAssumption DEF Init, Findable, Payments
<1>2. ASSUME IInv, Findable, [Next]_vars, NEW p \in Ours, note'[p] = "ignored",
             note[p] # "ignored"
      PROVE  attempt[p] \in {"marking", "killedmarking"}
    <2> USE <1>2 DEF IInv, TypeOK, Payments
    <2>1. ASSUME NEW q \in Payments, Notification(q)
          PROVE  note[p] = "lookuptimeout" /\ ~Stored("timeout", p)
        BY <2>1 DEF Notification, LookupPreimage, LookupTimeout, DeleteKey, SaveOutcome,
                   EnqueueUpdate
    <2>2. ASSUME NEW q \in Ours, Attempt(q) \/ WaitSendPayError(q) \/ Expire(q)
          PROVE  UNCHANGED note
        BY <2>2 DEF Attempt, GeneratePreimageHashPair, NoRoute, SaveRoute, SendPay,
               SendPayError, WaitSendPay, WaitSendPayError, WaitTimeout, DeletePreimage,
               MarkTimeout, Expire
    <2>3. ASSUME NEW q \in Payments, OnHtlcAccepted(q) PROVE UNCHANGED note
        BY <2>3 DEF OnHtlcAccepted
    <2>4. ASSUME NEW q \in Payments, Lightningd(q) PROVE FALSE
        <3>1. CASE Complete(q) \/ Fail(q)
            <4>1. PICK n \in {"due", "lost"} : note' = [note EXCEPT ![q] = n]
                BY <3>1 DEF Complete, Fail, Finish
            <4> QED
                BY <4>1
        <3>2. CASE ForeignPay(q) \/ HtlcArrives(q) \/ HookSkipped(q)
            BY <3>2 DEF ForeignPay, HtlcArrives, HookSkipped
        <3> QED
            BY <2>4, <3>1, <3>2 DEF Lightningd
    <2>5. ~Crash
        BY DEF Crash, Verdicts
    <2>6. ~(DeleteStats \/ Restart \/ UNCHANGED vars)
        BY DEF DeleteStats, Restart, vars
    <2>7. note[p] = "lookuptimeout" /\ ~Stored("timeout", p)
        BY <2>1, <2>2, <2>3, <2>4, <2>5, <2>6 DEF Next, Quiet
    <2>8. attempt[p] \in Expired /\ attempt[p] # "timedout"
        BY <2>7 DEF Findable
    <2> QED
        BY <2>8 DEF Expired
<1>3. IInv /\ Findable /\ [Next]_vars
        => [\A p \in Ours : note'[p] = "ignored" /\ note[p] # "ignored" =>
              attempt[p] \in {"marking", "killedmarking"}]_vars
    BY <1>2
<1> QED
    BY Invariance, NextFindable, <1>1, <1>3, PTL DEF Spec, IgnoredOnlyWhileMarking
=============================================================================
