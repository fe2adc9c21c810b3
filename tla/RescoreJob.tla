------------------------------ MODULE RescoreJob ------------------------------
(***************************************************************************)
(* The money side of a queued scan: runRescoreJob of                       *)
(* src/lib/scan-queue-worker.ts, with the reservation keys of              *)
(* src/lib/db/credit-reservations.ts.  Queue and wallet interact here: a   *)
(* run may die between any two calls, its row is reaped and run again, and *)
(* what it reserved must be neither bought twice nor returned twice.       *)
(*                                                                         *)
(* The queue appears as JobLife, which ScanQueue implements; the ledger as *)
(* the wallet's movements, which CreditLedger implements, each at once.    *)
(***************************************************************************)
EXTENDS Integers, FiniteSets

CONSTANTS
    Jobs,
    MaxAttempts,    \* MAX_JOB_ATTEMPTS
    Purse,          \* credits of the one organisation before the first job
    Faults          \* the calls that may fail or lose their answer

FallibleCalls == {"read", "reserve", "mark", "refund"}

ASSUME RescoreAssumption ==
    /\ MaxAttempts \in Nat \ {0}
    /\ Purse \in Nat
    /\ Faults \subseteq FallibleCalls

VARIABLES
    state, attempts, live,  \* the queue
    flag,       \* flag[j]: the creditCharged column
    debits,     \* keys <<j, attempt>> of the debits on the ledger
    refunds,    \* keys of the debits that a refund on the ledger names
    keyless,    \* <<j, attempt>> whose run wrote a refund that names no debit
    stored,     \* rows whose repository has a stored report of its head
    run,        \* run[j]: the local variables of the live run
    blind,      \* history: rows with a run that could not read the ledger
    billed,     \* history: rows for which real inference returned a report
    sold        \* history: debits under which a new report was stored

queue == <<state, attempts, live>>
trail == <<debits, refunds, keyless>>
history == <<blind, billed, sold>>
jobVars == <<queue, flag, trail, stored, run, history>>

Life == INSTANCE JobLife

\* key 0 stands for a reservationKey that is undefined.
NoKey == 0
NoRun == [at |-> "none", charged |-> FALSE, key |-> NoKey, refunded |-> FALSE,
          outcome |-> "none"]

Phases == {"none", "start", "reserve", "mark", "scan", "persist", "refund", "settle"}

JobTypeOK ==
    /\ state \in [Jobs -> {"absent", "queued", "claimed"} \cup Life!Settled]
    /\ attempts \in [Jobs -> Nat]
    /\ live \subseteq Jobs
    /\ flag \in [Jobs -> BOOLEAN]
    /\ debits \subseteq Jobs \X Nat
    /\ refunds \subseteq Jobs \X Nat
    /\ keyless \subseteq Jobs \X Nat
    /\ stored \subseteq Jobs
    /\ run \in [Jobs -> [at : Phases, charged : BOOLEAN, key : Nat, refunded : BOOLEAN,
                         outcome : Life!Settled \cup {"none"}]]
    /\ blind \subseteq Jobs
    /\ billed \subseteq Jobs
    /\ sold \subseteq Jobs \X Nat

\* The head of a repository may have been scanned before, by another path.
JobInit ==
    /\ Life!Init
    /\ flag = [j \in Jobs |-> FALSE]
    /\ debits = {} /\ refunds = {} /\ keyless = {}
    /\ stored \in SUBSET Jobs
    /\ run = [j \in Jobs |-> NoRun]
    /\ blind = {} /\ billed = {} /\ sold = {}

Balance == Purse - Cardinality(debits) + Cardinality(refunds) + Cardinality(keyless)

-----------------------------------------------------------------------------
(* The queue's steps.                                                        *)

Enqueue(j) ==
    /\ Life!Enqueue(j)
    /\ UNCHANGED <<flag, trail, stored, run, history>>

Claim(j) ==
    /\ Life!Claim(j)
    /\ run' = [run EXCEPT ![j] = [NoRun EXCEPT !.at = "start"]]
    /\ UNCHANGED <<flag, trail, stored, history>>

\* claimJobById gives the row back to an older peer.
Yield(j) ==
    /\ run[j].at = "start"
    /\ Life!Return(j)
    /\ run' = [run EXCEPT ![j] = NoRun]
    /\ UNCHANGED <<flag, trail, stored, history>>

\* The instance is killed, or the peer check's read or the settle's write fails.
Drop(j) ==
    /\ Life!Drop(j)
    /\ run' = [run EXCEPT ![j] = NoRun]
    /\ UNCHANGED <<flag, trail, stored, history>>

\* Nothing about the credit is touched.
Reap(S) ==
    /\ Life!Reap(S)
    /\ UNCHANGED <<flag, trail, stored, run, history>>

-----------------------------------------------------------------------------
(* Before the scan.                                                          *)

\* The live run of j goes from one phase to the next.
Goes(j, from, to) == run[j].at = from /\ run' = [run EXCEPT ![j].at = to]

Ends(j, from, outcome) ==
    /\ run[j].at = from
    /\ run' = [run EXCEPT ![j] = [@ EXCEPT !.at = "settle", !.outcome = outcome]]

\* The organisation cannot be resolved, the push backs off a recent failure, or
\* the installation token is unavailable: settled before the ledger is read.
SkipEarly(j) ==
    /\ Ends(j, "start", "skipped")
    /\ UNCHANGED <<queue, flag, trail, stored, history>>

\* The organisation's own model pays this time.
Unmetered(j) ==
    /\ Goes(j, "start", "scan")
    /\ UNCHANGED <<queue, flag, trail, stored, history>>

DebitsOf(j) == {k \in debits : k[1] = j}

\* Debits that no refund names.
Held(j) == DebitsOf(j) \ refunds

\* Mutation of Newest: the oldest debit, returned or not.
MutNewest(j) == CHOOSE k \in DebitsOf(j) : \A m \in DebitsOf(j) : k[2] <= m[2]

Newest(j) == CHOOSE k \in Held(j) : \A m \in Held(j) : m[2] <= k[2]

\* Mutation of LedgerHolds: the flag alone decides.
MutLedgerHolds(j, reads) == FALSE

LedgerHolds(j, reads) == reads /\ Held(j) # {}

\* The flag is asked only where the ledger cannot answer.
FlagHolds(j, reads) == flag[j] /\ (~reads \/ DebitsOf(j) = {})

\* carriedScanReservation.
Carry(j, reads) ==
    /\ run[j].at = "start"
    /\ reads \/ "read" \in Faults
    /\ \/ /\ LedgerHolds(j, reads)
          /\ run' = [run EXCEPT ![j] = [@ EXCEPT !.at = "scan", !.charged = TRUE,
                                !.key = Newest(j)[2]]]
       \/ /\ ~LedgerHolds(j, reads)
          /\ FlagHolds(j, reads)
          /\ run' = [run EXCEPT ![j] = [@ EXCEPT !.at = "scan", !.charged = TRUE]]
       \/ /\ ~LedgerHolds(j, reads)
          /\ ~FlagHolds(j, reads)
          /\ run' = [run EXCEPT ![j].at = "reserve"]
    /\ blind' = IF reads THEN blind ELSE blind \cup {j}
    /\ UNCHANGED <<queue, flag, trail, stored, billed, sold>>

\* Mutation of ReservationKey: one key for all attempts of a job.
MutReservationKey(j) == <<j, 1>>

ReservationKey(j) == <<j, attempts[j]>>

\* Within the plan's allowance the scan is free.
ReserveFree(j) ==
    /\ Goes(j, "reserve", "scan")
    /\ UNCHANGED <<queue, flag, trail, stored, history>>

\* The debit is on the ledger; the run learns it, or takes a lost answer for a
\* refusal.
ReserveDebits(j, learns) ==
    /\ Balance > 0
    /\ learns \/ "reserve" \in Faults
    /\ debits' = debits \cup {ReservationKey(j)}
    /\ IF learns
       THEN /\ run[j].at = "reserve"
            /\ run' = [run EXCEPT ![j] = [@ EXCEPT !.at = "mark", !.charged = TRUE,
                                  !.key = ReservationKey(j)[2]]]
       ELSE Ends(j, "reserve", "skipped")
    /\ UNCHANGED <<queue, flag, refunds, keyless, stored, history>>

ReserveRefused(j) ==
    /\ Balance <= 0 \/ "reserve" \in Faults
    /\ Ends(j, "reserve", "skipped")
    /\ UNCHANGED <<queue, flag, trail, stored, history>>

\* markJobCredit is best effort.
Mark(j, written) ==
    /\ written \/ "mark" \in Faults
    /\ Goes(j, "mark", "scan")
    /\ flag' = [flag EXCEPT ![j] = flag[j] \/ written]
    /\ UNCHANGED <<queue, trail, stored, history>>

-----------------------------------------------------------------------------
(* The scan and what follows.                                                *)

\* No report comes back, or one of the mock provider: the credit goes back.
ScanFails(j, outcome) ==
    /\ outcome \in {"failed", "skipped"}
    /\ run[j].at = "scan"
    /\ run' = [run EXCEPT ![j] = [@ EXCEPT !.at = "refund", !.outcome = outcome]]
    /\ UNCHANGED <<queue, flag, trail, stored, history>>

\* inferenceBilled.
ScanReturns(j) ==
    /\ Goes(j, "scan", "persist")
    /\ billed' = billed \cup {j}
    /\ UNCHANGED <<queue, flag, trail, stored, blind, sold>>

\* A throw after the inference keeps the credit.
PersistFails(j) ==
    /\ Ends(j, "persist", "failed")
    /\ UNCHANGED <<queue, flag, trail, stored, history>>

\* A new row is stored: the head moved, or had no report.
PersistNew(j) ==
    /\ Ends(j, "persist", "done")
    /\ stored' = stored \cup {j}
    /\ sold' = IF run[j].key # NoKey THEN sold \cup {<<j, run[j].key>>} ELSE sold
    /\ UNCHANGED <<queue, flag, trail, blind, billed>>

\* "A dedup run is free."
PersistDeduped(j) ==
    /\ j \in stored
    /\ run[j].at = "persist"
    /\ run' = [run EXCEPT ![j] = [@ EXCEPT !.at = "refund", !.outcome = "done"]]
    /\ UNCHANGED <<queue, flag, trail, stored, history>>

\* Mutation of Owed: the refund no longer asks whether a credit was charged.
MutOwed(j) == TRUE

\* refundScanCredit is a no-op unless the run holds a credit.
Owed(j) == run[j].charged

RefundsNothing(j) ==
    /\ ~Owed(j)
    /\ Goes(j, "refund", "settle")
    /\ UNCHANGED <<queue, flag, trail, stored, history>>

\* The refund is on the ledger, once for a key, and the run learns it or not.
RefundLands(j, learns) ==
    /\ Owed(j)
    /\ learns \/ "refund" \in Faults
    /\ run[j].at = "refund"
    /\ IF run[j].key # NoKey
       THEN refunds' = refunds \cup {<<j, run[j].key>>} /\ UNCHANGED keyless
       ELSE keyless' = keyless \cup {<<j, attempts[j]>>} /\ UNCHANGED refunds
    /\ run' = [run EXCEPT ![j] = [@ EXCEPT !.at = "settle", !.refunded = learns]]
    /\ UNCHANGED <<queue, flag, debits, stored, history>>

RefundFails(j) ==
    /\ Owed(j)
    /\ "refund" \in Faults
    /\ Goes(j, "refund", "settle")
    /\ UNCHANGED <<queue, flag, trail, stored, history>>

Settle(j) ==
    /\ run[j].at = "settle"
    /\ Life!Settle(j, run[j].outcome)
    /\ flag' = [flag EXCEPT ![j] = flag[j] /\ ~run[j].refunded]
    /\ run' = [run EXCEPT ![j] = NoRun]
    /\ UNCHANGED <<trail, stored, history>>

-----------------------------------------------------------------------------
Preparing(j) ==
    \/ SkipEarly(j) \/ Unmetered(j)
    \/ \E reads \in BOOLEAN : Carry(j, reads)
    \/ ReserveFree(j) \/ ReserveRefused(j)
    \/ \E learns \in BOOLEAN : ReserveDebits(j, learns)
    \/ \E written \in BOOLEAN : Mark(j, written)

After(j) ==
    \/ \E outcome \in Life!Settled : ScanFails(j, outcome)
    \/ ScanReturns(j)
    \/ PersistFails(j) \/ PersistNew(j) \/ PersistDeduped(j)
    \/ RefundsNothing(j) \/ RefundFails(j)
    \/ \E learns \in BOOLEAN : RefundLands(j, learns)
    \/ Settle(j)

JobNext ==
    \/ \E j \in Jobs :
        \/ Enqueue(j) \/ Claim(j) \/ Yield(j) \/ Drop(j)
        \/ Preparing(j) \/ After(j)
    \/ \E S \in SUBSET Jobs : Reap(S)

JobSpec == JobInit /\ [][JobNext]_jobVars

-----------------------------------------------------------------------------
(* Properties.  A run that cannot read the ledger falls back to the flag, and*)
(* the docs state the double charge that this leaves: its rows are excepted. *)

\* However often a job is killed, reaped and run again, and whichever answers are
\* lost, it holds one credit at most: it is not charged twice for one scan.
OneHeldCredit ==
    \A j \in Jobs \ blind : \A k, m \in Held(j) : k = m

\* A run that believes it is paid for is: its debit is on the ledger and not
\* returned, although an earlier attempt may have reserved or returned one.
ChargedRunHoldsItsCredit ==
    \A j \in Jobs \ blind :
        run[j].charged /\ run[j].at \in {"mark", "scan", "persist", "refund"} =>
            <<j, run[j].key>> \in Held(j)

\* A credit is returned once, and only if it was taken.
ReturnsOnlyWhatWasTaken ==
    /\ refunds \subseteq debits
    /\ \A k \in keyless : k[1] \in blind

\* A run that settles its row as refunded leaves no credit held.
RefundedRunHoldsNothing ==
    \A j \in Jobs \ blind :
        run[j].at = "settle" /\ run[j].refunded => Held(j) = {}

\* What the docs say of a failure before the inference: the credit goes back.
UnusedCreditReturned ==
    \A j \in Jobs : state[j] \in Life!Settled /\ j \notin billed => Held(j) = {}

\* What they say of one after it: the credit is kept.
SoldStaysSold == sold \cap refunds = {}
=============================================================================
