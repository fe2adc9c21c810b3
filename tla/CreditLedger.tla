----------------------------- MODULE CreditLedger -----------------------------
(***************************************************************************)
(* Prepaid credits of one organisation: Organization.scanCredits and the   *)
(* append-only CreditLedger, as the functions of src/lib/db/credits.ts and *)
(* src/lib/db/hosted-credits.ts move them.                                 *)
(*                                                                         *)
(* A call is one invocation of one of those functions, for example by a    *)
(* webhook delivery; a redelivery is another call with the same key.  Calls*)
(* interleave at their reads and at their commits.  The database runs a    *)
(* transaction at its default isolation: snapshot with commit-time         *)
(* conflicts on Aurora DSQL, READ COMMITTED on stock Postgres, where an    *)
(* UPDATE works on the row as it is when its lock is granted.              *)
(***************************************************************************)
EXTENDS Integers, Sequences

CONSTANTS
    Calls,
    Op,         \* Op[c] = [kind, key, amount, order, supplied]
    Opening,    \* scanCredits before the first call
    MaxTries,   \* maxAttempts of withRetry
    Isolation   \* "snapshot" or "readCommitted"

Kinds == {"debit", "hosted", "grant", "clawback"}
Keys == {Op[c].key : c \in Calls}
Orders == {Op[c].order : c \in Calls}

\* amount is the credits of a grant (negative for an adjustment), the lanes of a
\* hosted run, the cumulative target of a clawback.  A key is supplied by the
\* caller, or synthesized and then the call's own.
ASSUME CreditAssumption ==
    /\ Opening \in Nat
    /\ MaxTries \in Nat \ {0}
    /\ Isolation \in {"snapshot", "readCommitted"}
    /\ \A c \in Calls :
        /\ Op[c].kind \in Kinds
        /\ Op[c].amount \in Int
        /\ Op[c].supplied \in BOOLEAN
        /\ Op[c].kind = "grant" => Op[c].amount # 0
        /\ Op[c].kind = "hosted" => Op[c].amount > 0
        /\ Op[c].kind = "clawback" => Op[c].amount >= 0

VARIABLES
    balance,    \* Organization.scanCredits
    ledger,     \* the CreditLedger rows, in commit order
    clawed,     \* clawed[o]: what the aggregate over order o's refund rows gives
    pc,         \* pc[c]: "idle", "tx" (about to open the transaction), "commit",
                \* "done"
    tries,      \* tries[c]: failed attempts of withRetry
    snap,       \* snap[c]: what the transaction has read
    out         \* out[c]: what the call reports

account == <<balance, ledger, clawed>>
vars == <<balance, ledger, clawed, pc, tries, snap, out>>

\* "blind" is a denial like "denied"; it marks the one given when the lookup of the
\* call's own earlier row failed.
Answers == {"none", "charged", "denied", "blind", "free", "applied", "error"}

NothingRead == [bal |-> 0, clawed |-> 0, len |-> 0]

Rows == [key : Keys, delta : Int, after : Int, by : Calls]

TypeOK ==
    /\ balance \in Int
    /\ ledger \in Seq(Rows)
    /\ clawed \in [Orders -> Int]
    /\ pc \in [Calls -> {"idle", "tx", "commit", "done"}]
    /\ tries \in [Calls -> 0 .. MaxTries - 1]
    /\ snap \in [Calls -> [bal : Int, clawed : Int, len : Nat]]
    /\ out \in [Calls -> Answers]

Init ==
    /\ balance = Opening
    /\ ledger = <<>>
    /\ clawed = [o \in Orders |-> 0]
    /\ pc = [c \in Calls |-> "idle"]
    /\ tries = [c \in Calls |-> 0]
    /\ snap = [c \in Calls |-> NothingRead]
    /\ out = [c \in Calls |-> "none"]

-----------------------------------------------------------------------------
(* Before the transaction.                                                   *)

Report(c, answer) ==
    /\ pc' = [pc EXCEPT ![c] = "done"]
    /\ out' = [out EXCEPT ![c] = answer]
    /\ snap' = [snap EXCEPT ![c] = NothingRead]
    /\ tries' = [tries EXCEPT ![c] = 0]

Enter(c, n) ==
    /\ pc' = [pc EXCEPT ![c] = "tx"]
    /\ tries' = [tries EXCEPT ![c] = n]
    /\ snap' = [snap EXCEPT ![c] = NothingRead]
    /\ UNCHANGED out

\* consumeScanCredit first decides the charge from plain reads: free while the
\* plan is unlimited or its monthly allowance lasts, else by the balance.
DecideCharge(c) ==
    /\ pc[c] = "idle"
    /\ Op[c].kind = "debit"
    /\ \/ Report(c, "free")
       \/ balance <= 0 /\ Report(c, "denied")
       \/ balance > 0 /\ Enter(c, 0)
    /\ UNCHANGED account

\* Mutation of OnLedger: the rows carry no externalId.
MutOnLedger(key, n) == FALSE

OnLedger(key, n) == \E i \in 1 .. n : ledger[i].key = key

\* grantCredits and clawbackOrderRefund first look the key up.  The lookup is
\* best effort: one that fails finds nothing.
LookUpKey(c, found) ==
    /\ pc[c] = "idle"
    /\ Op[c].kind \in {"grant", "clawback"}
    /\ found => Op[c].supplied /\ OnLedger(Op[c].key, Len(ledger))
    /\ IF found THEN Report(c, "applied") \/ Report(c, "error") ELSE Enter(c, 0)
    /\ UNCHANGED account

EnterHosted(c) ==
    /\ pc[c] = "idle"
    /\ Op[c].kind = "hosted"
    /\ Enter(c, 0)
    /\ UNCHANGED account

-----------------------------------------------------------------------------
(* The transaction.                                                          *)

TxRead(c) ==
    /\ pc[c] = "tx"
    /\ snap' = [snap EXCEPT ![c] =
                  [bal |-> balance, clawed |-> clawed[Op[c].order], len |-> Len(ledger)]]
    /\ pc' = [pc EXCEPT ![c] = "commit"]
    /\ UNCHANGED <<account, tries, out>>

\* The row and the ledger as the transaction's later statements see them.
SeenBalance(c) == IF Isolation = "snapshot" THEN snap[c].bal ELSE balance
SeenLen(c) == IF Isolation = "snapshot" THEN snap[c].len ELSE Len(ledger)

\* Mutation of AtLeast: the clamp at zero forgotten.
MutAtLeast(d, low) == d

AtLeast(d, low) == IF d < low THEN low ELSE d

\* Mutation of Marginal: an event's whole target, whatever earlier ones reversed.
MutMarginal(c) == Op[c].amount

\* The share of a clawback's cumulative target that is not reversed yet.
Marginal(c) == Op[c].amount - snap[c].clawed

\* What the call is about to add to the balance, from what it has read.
Delta(c) ==
    LET n == Op[c].amount IN
    CASE Op[c].kind = "debit" -> -1
      [] Op[c].kind = "hosted" -> -n
      [] Op[c].kind = "grant" -> IF n >= 0 THEN n ELSE AtLeast(n, -snap[c].bal)
      [] Op[c].kind = "clawback" ->
            IF Marginal(c) <= 0 THEN 0 ELSE AtLeast(-Marginal(c), -snap[c].bal)

\* decideHostedCharge refuses by the balance that was read first.
HostedRefused(c) == Op[c].kind = "hosted" /\ snap[c].bal < Op[c].amount

\* The predicate of the conditional decrement.
Affordable(c) ==
    Op[c].kind \in {"debit", "hosted"} => SeenBalance(c) + Delta(c) >= 0

Writes(c) == ~HostedRefused(c) /\ Affordable(c) /\ Delta(c) # 0

\* The hosted reservation's decision answers before anything is written.
HostedDenied(c) ==
    /\ pc[c] = "commit"
    /\ HostedRefused(c)
    /\ Report(c, "denied")
    /\ UNCHANGED account

\* Mutation of PriorAnswers: no lookup of a prior attempt's row.
MutPriorAnswers(c) == {"denied"}

\* The conditional decrement matched nothing: out of credits, unless an earlier
\* attempt of this same call, whose acknowledgement was lost, has paid.  A lookup
\* that fails is taken for one that finds nothing.
PriorAnswers(c) ==
    {"blind", IF OnLedger(Op[c].key, SeenLen(c)) THEN "charged" ELSE "denied"}

DecrementMatchesNothing(c) ==
    /\ pc[c] = "commit"
    /\ ~HostedRefused(c)
    /\ ~Affordable(c)
    /\ \E answer \in PriorAnswers(c) : Report(c, answer)
    /\ UNCHANGED account

NothingToApply(c) ==
    /\ pc[c] = "commit"
    /\ Op[c].kind \in {"grant", "clawback"}
    /\ Delta(c) = 0
    /\ Report(c, "applied")
    /\ UNCHANGED account

Success(c) == IF Op[c].kind \in {"debit", "hosted"} THEN "charged" ELSE "applied"

\* Another transaction has written the organisation's row since the snapshot.
Conflicts(c) == Isolation = "snapshot" /\ snap[c].len # Len(ledger)

\* Mutation of RetryOrThrow: one attempt too many.
MutRetryOrThrow(c) ==
    IF tries[c] < MaxTries THEN Enter(c, tries[c] + 1) ELSE Report(c, "error")

\* withRetry: run the closure again, up to MaxTries times in all.
RetryOrThrow(c) ==
    IF tries[c] + 1 < MaxTries THEN Enter(c, tries[c] + 1) ELSE Report(c, "error")

CommitConflicts(c) ==
    /\ pc[c] = "commit"
    /\ Writes(c)
    /\ Conflicts(c)
    /\ RetryOrThrow(c)
    /\ UNCHANGED account

\* The unique externalId: the insert fails and takes the update back with it.  The
\* read that the answer needs then may fail.
DuplicateKey(c) ==
    /\ pc[c] = "commit"
    /\ Writes(c)
    /\ ~Conflicts(c)
    /\ OnLedger(Op[c].key, Len(ledger))
    /\ Report(c, Success(c)) \/ Report(c, "error")
    /\ UNCHANGED account

\* Mutation of BalanceAfter: the row is stamped from the first read.
MutBalanceAfter(c) == snap[c].bal

\* The update returns the balance it left; consumeScanCredit re-reads it.
BalanceAfter(c) == balance + Delta(c)

\* The update and the insert commit, and the call learns it, or loses the
\* acknowledgement and sees an error it retries, or one it does not.
Commit(c) ==
    /\ pc[c] = "commit"
    /\ Writes(c)
    /\ ~Conflicts(c)
    /\ ~OnLedger(Op[c].key, Len(ledger))
    /\ balance' = balance + Delta(c)
    /\ ledger' = Append(ledger, [key |-> Op[c].key, delta |-> Delta(c),
                                 after |-> BalanceAfter(c), by |-> c])
    /\ clawed' = IF Op[c].kind = "clawback"
                 THEN [clawed EXCEPT ![Op[c].order] = @ - Delta(c)]
                 ELSE clawed
    /\ \/ Report(c, Success(c))
       \/ RetryOrThrow(c)
       \/ Report(c, "error")

\* The database fails the transaction with an error that is not retried.
TxFails(c) ==
    /\ pc[c] = "commit"
    /\ Report(c, "error")
    /\ UNCHANGED account

Next == \E c \in Calls :
    \/ DecideCharge(c)
    \/ \E found \in BOOLEAN : LookUpKey(c, found)
    \/ EnterHosted(c)
    \/ TxRead(c)
    \/ HostedDenied(c)
    \/ DecrementMatchesNothing(c)
    \/ NothingToApply(c)
    \/ CommitConflicts(c)
    \/ DuplicateKey(c)
    \/ Commit(c)
    \/ TxFails(c)

Spec == Init /\ [][Next]_vars

-----------------------------------------------------------------------------
(* Properties.                                                               *)

\* "The stored balance is clamped at zero": no interleaving of debits, negative
\* adjustments and clawbacks drives it below.
BalanceNonNegative == balance >= 0

Before(i) == IF i = 1 THEN Opening ELSE ledger[i - 1].after

\* The trail reconciles: each row starts from the balance its predecessor left,
\* and the last one left the present balance.
LedgerReconciles ==
    /\ \A i \in 1 .. Len(ledger) : ledger[i].after = Before(i) + ledger[i].delta
    /\ balance = Before(Len(ledger) + 1)

\* However often a call is retried, and whatever acknowledgement is lost, it moves
\* the balance once.
OncePerCall ==
    \A i, j \in 1 .. Len(ledger) : ledger[i].by = ledger[j].by => i = j

Debited(c) == \E i \in 1 .. Len(ledger) : ledger[i].by = c

\* consumeScanCredit tells the truth about the money, also after a lost
\* acknowledgement: a scan it reports charged has its debit on the ledger, and
\* one it reports denied or free has not paid.  The exception is "blind": the
\* lookup that tells the two apart is swallowed when it fails, so a scan that has
\* paid is denied then.
ScanReportsItsDebit ==
    \A c \in Calls : Op[c].kind = "debit" =>
        /\ out[c] = "charged" => OnLedger(Op[c].key, Len(ledger))
        /\ out[c] \in {"denied", "free"} => ~Debited(c)

\* The same for a hosted run's reservation: one reported denied has not paid.
HostedReportsItsDebit ==
    \A c \in Calls : Op[c].kind = "hosted" /\ out[c] = "denied" => ~Debited(c)

\* No sequence of refund events, in any order, overlap or redelivery, reverses
\* more of an order than its largest cumulative target.
ClawbackBounded ==
    \A o \in Orders : clawed[o] > 0 =>
        \E c \in Calls :
            Op[c].kind = "clawback" /\ Op[c].order = o /\ clawed[o] <= Op[c].amount

\* At snapshot isolation the transactions implement the wallet.
W == INSTANCE Wallet WITH
        moved <- {[key |-> ledger[i].key, delta |-> ledger[i].delta] : i \in 1 .. Len(ledger)}
ImplementsWallet == W!Spec
=============================================================================
