---------------------------- MODULE PublicScanQuota ---------------------------
(***************************************************************************)
(* One bucket of the monthly allowance of public scans: the rolling window *)
(* of src/lib/public-scan-quota.ts and the retried transaction of          *)
(* src/lib/db/scan-quota.ts that reads it, decides and writes it back.     *)
(*                                                                         *)
(* A stored hit is its timestamp and nothing else.  The payer beside it    *)
(* here only tells two hits of one millisecond apart, as their places in   *)
(* the array do; no operation reads it.                                    *)
(***************************************************************************)
EXTENDS FiniteSets, Integers

CONSTANTS
    Payers,         \* requests that are charged to the bucket
    Allowance,      \* publicScanMonthlyLimit or signedInScanMonthlyLimit
    Window,         \* WINDOW_MS, in steps of the clock
    MaxTime         \* bound of the clock

ASSUME QuotaAssumption ==
    /\ IsFiniteSet(Payers)
    /\ Allowance \in Nat
    /\ Window \in Nat \ {0}
    /\ MaxTime \in Nat

VARIABLES
    hits,           \* the stored array: timestamps, each with its payer
    updatedAt,      \* when the row was last written
    payer,          \* payer[p]: where the request is, its timestamp, the window it read
    today           \* the clock

quotaVars == <<hits, updatedAt, payer, today>>

Times == 0..MaxTime
HitBags == SUBSET (Times \X Payers)
NoHits == {}

PayerPhases == {"idle", "charging", "charged", "refunding", "done"}

QuotaTypeOK ==
    /\ hits \in HitBags
    /\ payer \in [Payers -> [phase : PayerPhases, stamp : Times, saw : HitBags]]
    /\ updatedAt \in Times
    /\ today \in Times

QuotaInit ==
    /\ hits = NoHits
    /\ updatedAt = 0
    /\ payer = [p \in Payers |-> [phase |-> "idle", stamp |-> 0, saw |-> NoHits]]
    /\ today = 0

-----------------------------------------------------------------------------
(* The arithmetic of the window.                                             *)

\* windowState: what has not aged out at now.
recent(bag, now) == {hit \in bag : hit[1] > now - Window}

\* decideQuota.
allowed(bag, now) == Cardinality(recent(bag, now)) < Allowance

Charged(bag, now, p) == recent(bag, now) \cup {<<now, p>>}

Stamped(bag, ts) == {hit \in bag : hit[1] = ts}

\* removeHit: one entry with the timestamp, if there is one.
removeHit(bag, ts) ==
    IF Stamped(bag, ts) = {} THEN bag ELSE bag \ {CHOOSE hit \in Stamped(bag, ts) : TRUE}

-----------------------------------------------------------------------------
(* The transaction.                                                          *)

PayerGoes(p, phase) ==
    payer' = [payer EXCEPT ![p] = [phase |-> phase, saw |-> NoHits,
                                   stamp |-> IF phase = "done" THEN 0 ELSE payer[p].stamp]]

\* Mutation of WindowStands: the statements commit one by one.
MutWindowStands(p) == TRUE

\* Serializable, or first writer wins: else withRetry runs the closure again.
WindowStands(p) == hits = payer[p].saw

\* consumePublicScanQuota: the timestamp is taken once, before the first attempt.
Consume(p) ==
    /\ payer[p].phase = "idle"
    /\ payer' = [payer EXCEPT ![p] = [phase |-> "charging", stamp |-> today, saw |-> hits]]
    /\ UNCHANGED <<hits, updatedAt, today>>

CommitConsume(p) ==
    /\ payer[p].phase = "charging"
    /\ WindowStands(p)
    /\ IF allowed(payer[p].saw, payer[p].stamp)
       THEN /\ hits' = Charged(payer[p].saw, payer[p].stamp, p)
            /\ updatedAt' = today
            /\ \/ PayerGoes(p, "charged")
               \/ PayerGoes(p, "done")      \* the answer is lost: fails open, never refunded
       ELSE PayerGoes(p, "done") /\ UNCHANGED <<hits, updatedAt>>
    /\ UNCHANGED today

\* refundPublicScanQuota, for a scan that delivered nothing chargeable.
AskRefund(p) ==
    /\ payer[p].phase = "charged"
    /\ payer' = [payer EXCEPT ![p] = [phase |-> "refunding", stamp |-> payer[p].stamp, saw |-> hits]]
    /\ UNCHANGED <<hits, updatedAt, today>>

CommitRefund(p) ==
    /\ payer[p].phase = "refunding"
    /\ WindowStands(p)
    /\ hits' = removeHit(payer[p].saw, payer[p].stamp)
    /\ updatedAt' = IF hits = NoHits THEN updatedAt ELSE today
    /\ PayerGoes(p, "done")
    /\ UNCHANGED today

\* A conflict: the next attempt reads again.
RetryTransaction(p) ==
    /\ payer[p].phase \in {"charging", "refunding"}
    /\ ~WindowStands(p)
    /\ payer' = [payer EXCEPT ![p].saw = hits]
    /\ UNCHANGED <<hits, updatedAt, today>>

\* A store that fails: a scan goes ahead without a slot, a refund is swallowed.
StoreFails(p) ==
    /\ payer[p].phase \in {"charging", "refunding"}
    /\ PayerGoes(p, "done")
    /\ UNCHANGED <<hits, updatedAt, today>>

\* purgeStalePublicScanQuota: the retention job deletes a row by the time of its last write.
PurgeRow ==
    /\ updatedAt < today - Window
    /\ hits # NoHits
    /\ hits' = NoHits
    /\ UNCHANGED <<updatedAt, payer, today>>

QuotaTick ==
    /\ today < MaxTime
    /\ today' = today + 1
    /\ UNCHANGED <<hits, updatedAt, payer>>

QuotaNext ==
    \/ \E p \in Payers :
        \/ Consume(p) \/ CommitConsume(p) \/ AskRefund(p) \/ CommitRefund(p)
        \/ RetryTransaction(p) \/ StoreFails(p)
    \/ PurgeRow \/ QuotaTick

QuotaSpec == QuotaInit /\ [][QuotaNext]_quotaVars

-----------------------------------------------------------------------------
(* What must hold.                                                           *)

Holders(t) == {p \in Payers : payer[p].phase \in {"charged", "refunding"} /\ payer[p].stamp = t}

\* Every slot that was charged and not given back is still counted while its window lasts,
\* whatever siblings charge and refund meanwhile; and what is counted stays within the allowance.
AllowanceHolds ==
    /\ \A t \in Times : t > today - Window => Cardinality(Holders(t)) <= Cardinality(Stamped(hits, t))
    /\ Cardinality(recent(hits, today)) <= Allowance
=============================================================================
