-------------------------- MODULE CreditLedgerProofs --------------------------
(***************************************************************************)
(* Theorems about CreditLedger, for every set of calls, opening balance and*)
(* number of attempts.  The trail's theorems hold at either isolation; the *)
(* balance's and the clawback's are for snapshot isolation, and TLC shows  *)
(* that they fail at READ COMMITTED.                                       *)
(***************************************************************************)
EXTENDS CreditLedger, SequenceTheorems, TLAPS

\* Appending a row keeps the others where they were.
LEMMA AppendRow ==
    ASSUME NEW S, NEW s \in Seq(S), NEW e \in S
    PROVE  /\ Append(s, e) \in Seq(S)
           /\ Len(Append(s, e)) = Len(s) + 1
           /\ \A i \in 1 .. Len(s) : Append(s, e)[i] = s[i]
           /\ Append(s, e)[Len(s) + 1] = e
  OBVIOUS

\* AtLeast is the larger of its arguments.
LEMMA AtLeastProperties ==
    ASSUME NEW d \in Int, NEW low \in Int
    PROVE  AtLeast(d, low) \in Int /\ AtLeast(d, low) >= low /\ AtLeast(d, low) >= d
           /\ (AtLeast(d, low) = d \/ AtLeast(d, low) = low)
  BY DEF AtLeast

\* A call has the fields of its operation.
LEMMA OpType ==
    ASSUME NEW c \in Calls
    PROVE  /\ Op[c].kind \in Kinds /\ Op[c].amount \in Int
           /\ Op[c].key \in Keys /\ Op[c].order \in Orders
           /\ Op[c].kind = "clawback" => Op[c].amount >= 0
  BY CreditAssumption DEF Keys, Orders

\* What a call is about to write is an integer.
LEMMA DeltaType == ASSUME TypeOK, NEW c \in Calls PROVE Delta(c) \in Int
  <1>1. snap[c].bal \in Int /\ snap[c].clawed \in Int
    BY DEF TypeOK
  <1>2. Marginal(c) \in Int
    BY <1>1, OpType DEF Marginal
  <1> QED BY <1>1, <1>2, OpType DEF Delta, AtLeast, Kinds

-----------------------------------------------------------------------------
(* One step: a commit, or a step that leaves the account alone.              *)

\* How one call goes on in a step: only it moves, and it ends, opens its
\* transaction or has read.
Moves(c) ==
    /\ \A d \in Calls \ {c} : pc'[d] = pc[d] /\ snap'[d] = snap[d] /\ out'[d] = out[d]
    /\ \/ pc'[c] = "done"
       \/ pc'[c] = "tx" /\ out'[c] = out[c]
       \/ TxRead(c)

\* A report ends one call, with its answer.
LEMMA ReportMoves ==
    ASSUME TypeOK, NEW c \in Calls, NEW a \in Answers, Report(c, a)
    PROVE  /\ Moves(c) /\ pc'[c] = "done" /\ out'[c] = a
           /\ pc' \in [Calls -> {"idle", "tx", "commit", "done"}]
           /\ tries' \in [Calls -> 0 .. MaxTries - 1]
           /\ snap' \in [Calls -> [bal : Int, clawed : Int, len : Nat]]
           /\ out' \in [Calls -> Answers]
  BY CreditAssumption DEF TypeOK, Report, Moves, NothingRead

\* Opening a transaction answers nothing yet.
LEMMA EnterMoves ==
    ASSUME TypeOK, NEW c \in Calls, NEW n \in 0 .. MaxTries - 1, Enter(c, n)
    PROVE  /\ Moves(c) /\ pc'[c] = "tx" /\ out'[c] = out[c]
           /\ pc' \in [Calls -> {"idle", "tx", "commit", "done"}]
           /\ tries' \in [Calls -> 0 .. MaxTries - 1]
           /\ snap' \in [Calls -> [bal : Int, clawed : Int, len : Nat]]
           /\ out' \in [Calls -> Answers]
  BY DEF TypeOK, Enter, Moves, NothingRead

\* A failed attempt leads back to the transaction, or out with an error.
LEMMA RetryMoves ==
    ASSUME TypeOK, NEW c \in Calls, RetryOrThrow(c)
    PROVE  /\ Moves(c) /\ pc'[c] \in {"tx", "done"}
           /\ pc'[c] = "done" => out'[c] = "error"
           /\ pc'[c] = "tx" => out'[c] = out[c]
           /\ pc' \in [Calls -> {"idle", "tx", "commit", "done"}]
           /\ tries' \in [Calls -> 0 .. MaxTries - 1]
           /\ snap' \in [Calls -> [bal : Int, clawed : Int, len : Nat]]
           /\ out' \in [Calls -> Answers]
  <1>1. tries[c] \in 0 .. MaxTries - 1 /\ MaxTries \in Nat
    BY CreditAssumption DEF TypeOK
  <1>2. CASE tries[c] + 1 < MaxTries
    <2>1. tries[c] + 1 \in 0 .. MaxTries - 1
      BY <1>1, <1>2
    <2> QED BY <1>2, <2>1, EnterMoves DEF RetryOrThrow
  <1>3. CASE ~(tries[c] + 1 < MaxTries)
    BY <1>3, ReportMoves DEF RetryOrThrow, Answers
  <1> QED BY <1>2, <1>3

Step(c) ==
    \/ DecideCharge(c)
    \/ \E found \in BOOLEAN : LookUpKey(c, found)
    \/ EnterHosted(c)
    \/ TxRead(c)
    \/ HostedDenied(c)
    \/ DecrementMatchesNothing(c)
    \/ NothingToApply(c)
    \/ CommitConflicts(c)
    \/ DuplicateKey(c)
    \/ Commit(c)
    \/ TxFails(c)

\* Every step is the step of one call.
LEMMA NextIsStep == Next <=> \E c \in Calls : Step(c)
  BY DEF Next, Step

\* A call that is done takes no step.
LEMMA StepBegins == ASSUME NEW c \in Calls, Step(c) PROVE pc[c] # "done"
  BY DEF Step, DecideCharge, LookUpKey, EnterHosted, TxRead, HostedDenied,
         DecrementMatchesNothing, NothingToApply, CommitConflicts, DuplicateKey,
         Commit, TxFails

\* What a step of a call amounts to.
LEMMA StepMoves ==
    ASSUME TypeOK, NEW c \in Calls, Step(c)
    PROVE  /\ TypeOK' /\ Moves(c)
           /\ UNCHANGED account \/ Commit(c)
  <1> DEFINE Kept == TypeOK' /\ Moves(c)
  <1>0. 0 \in 0 .. MaxTries - 1
    BY CreditAssumption
  <1>1. ASSUME DecideCharge(c) PROVE Kept /\ UNCHANGED account
    BY <1>0, <1>1, ReportMoves, EnterMoves DEF DecideCharge, Answers, TypeOK, account
  <1>2. ASSUME NEW found \in BOOLEAN, LookUpKey(c, found)
        PROVE  Kept /\ UNCHANGED account
    BY <1>0, <1>2, ReportMoves, EnterMoves DEF LookUpKey, Answers, TypeOK, account
  <1>3. ASSUME EnterHosted(c) PROVE Kept /\ UNCHANGED account
    BY <1>0, <1>3, EnterMoves DEF EnterHosted, TypeOK, account
  <1>4. ASSUME TxRead(c) PROVE Kept /\ UNCHANGED account
    <2>1. Len(ledger) \in Nat /\ clawed[Op[c].order] \in Int
      BY OpType DEF TypeOK
    <2> QED BY <1>4, <2>1 DEF TxRead, Moves, TypeOK, account
  <1>5. ASSUME HostedDenied(c) PROVE Kept /\ UNCHANGED account
    BY <1>5, ReportMoves DEF HostedDenied, Answers, TypeOK, account
  <1>6. ASSUME DecrementMatchesNothing(c) PROVE Kept /\ UNCHANGED account
    BY <1>6, ReportMoves DEF DecrementMatchesNothing, PriorAnswers, Answers, TypeOK, account
  <1>7. ASSUME NothingToApply(c) PROVE Kept /\ UNCHANGED account
    BY <1>7, ReportMoves DEF NothingToApply, Answers, TypeOK, account
  <1>8. ASSUME CommitConflicts(c) PROVE Kept /\ UNCHANGED account
    BY <1>8, RetryMoves DEF CommitConflicts, TypeOK, account
  <1>9. ASSUME DuplicateKey(c) PROVE Kept /\ UNCHANGED account
    BY <1>9, ReportMoves DEF DuplicateKey, Success, Answers, TypeOK, account
  <1>10. ASSUME Commit(c) PROVE Kept
    <2> DEFINE row == [key |-> Op[c].key, delta |-> Delta(c),
                       after |-> BalanceAfter(c), by |-> c]
    <2>1. Delta(c) \in Int /\ balance \in Int /\ row \in Rows
      BY DeltaType, OpType DEF TypeOK, Rows, BalanceAfter
    <2>2. ledger' \in Seq(Rows) /\ balance' \in Int
      BY <1>10, <2>1, AppendRow DEF Commit, TypeOK
    <2>3. clawed' \in [Orders -> Int]
      BY <1>10, <2>1, OpType DEF Commit, TypeOK
    <2>4. /\ Moves(c)
          /\ pc' \in [Calls -> {"idle", "tx", "commit", "done"}]
          /\ tries' \in [Calls -> 0 .. MaxTries - 1]
          /\ snap' \in [Calls -> [bal : Int, clawed : Int, len : Nat]]
          /\ out' \in [Calls -> Answers]
      BY <1>10, ReportMoves, RetryMoves DEF Commit, Success, Answers
    <2> QED BY <2>2, <2>3, <2>4 DEF TypeOK
  <1>11. ASSUME TxFails(c) PROVE Kept /\ UNCHANGED account
    BY <1>11, ReportMoves DEF TxFails, Answers, TypeOK, account
  <1> QED BY <1>1, <1>2, <1>3, <1>4, <1>5, <1>6, <1>7, <1>8, <1>9, <1>10, <1>11
          DEF Step

\* A step is one call's, and moves the account only by a commit.
LEMMA CallStep ==
    ASSUME TypeOK, [Next]_vars
    PROVE  /\ TypeOK'
           /\ \/ UNCHANGED vars
              \/ \E c \in Calls : Step(c) /\ Moves(c) /\ (UNCHANGED account \/ Commit(c))
  <1>1. CASE UNCHANGED vars
    BY <1>1 DEF vars, account, TypeOK
  <1> QED BY <1>1, NextIsStep, StepMoves

\* The types hold at the start.
LEMMA InitType == Init => TypeOK
  BY CreditAssumption, EmptySeq DEF Init, TypeOK, NothingRead, Answers

\* Every column and local variable keeps its type, the attempts their bound.
THEOREM CreditTypeCorrect == Spec => []TypeOK
  <1>1. TypeOK /\ [Next]_vars => TypeOK'
    BY CallStep
  <1> QED BY InitType, <1>1, PTL DEF Spec
-----------------------------------------------------------------------------
(* The trail, at either isolation.                                           *)

\* A commit adds one row, whose key was not there.
LEMMA CommitRow ==
    ASSUME TypeOK, NEW c \in Calls, Commit(c)
    PROVE  /\ Len(ledger) \in Nat /\ Len(ledger') = Len(ledger) + 1
           /\ \A i \in 1 .. Len(ledger) : ledger'[i] = ledger[i] /\ ledger[i].key # Op[c].key
           /\ ledger'[Len(ledger')].key = Op[c].key
           /\ ledger'[Len(ledger')].by = c
           /\ ledger'[Len(ledger')].delta = Delta(c)
           /\ ledger'[Len(ledger')].after = balance + Delta(c)
           /\ balance' = balance + Delta(c)
           /\ balance \in Int /\ Delta(c) \in Int /\ Delta(c) # 0
  <1> DEFINE row == [key |-> Op[c].key, delta |-> Delta(c),
                     after |-> BalanceAfter(c), by |-> c]
  <1>1. Delta(c) \in Int /\ balance \in Int /\ row \in Rows /\ ledger \in Seq(Rows)
    BY DeltaType, OpType DEF TypeOK, Rows, BalanceAfter
  <1>2. /\ ledger' = Append(ledger, row) /\ balance' = balance + Delta(c)
        /\ Delta(c) # 0 /\ ~OnLedger(Op[c].key, Len(ledger))
    BY DEF Commit, Writes
  <1>3. Len(ledger) \in Nat /\ \A i \in 1 .. Len(ledger) : ledger[i].key # Op[c].key
    BY <1>1, <1>2 DEF OnLedger
  <1>4. /\ Len(ledger') = Len(ledger) + 1 /\ ledger'[Len(ledger) + 1] = row
        /\ \A i \in 1 .. Len(ledger) : ledger'[i] = ledger[i]
    BY <1>1, <1>2, AppendRow
  <1> QED BY <1>1, <1>2, <1>3, <1>4 DEF BalanceAfter

\* No commit breaks the trail.
LEMMA TrailStep ==
    ASSUME TypeOK, LedgerReconciles, [Next]_vars
    PROVE  LedgerReconciles'
  <1>1. CASE UNCHANGED account
    BY <1>1 DEF account, LedgerReconciles, Before
  <1>2. ASSUME NEW c \in Calls, Commit(c) PROVE LedgerReconciles'
    <2>0. PICK n \in Nat : n = Len(ledger)
      BY <1>2, CommitRow
    <2>1. /\ Len(ledger') = n + 1 /\ balance' = balance + Delta(c)
          /\ \A i \in 1 .. n : ledger'[i] = ledger[i]
          /\ ledger'[n + 1].after = balance + Delta(c) /\ ledger'[n + 1].delta = Delta(c)
      BY <1>2, <2>0, CommitRow
    <2>2. \A i \in 1 .. n + 1 : Before(i)' = Before(i)
      <3> SUFFICES ASSUME NEW i \in 1 .. n + 1 PROVE Before(i)' = Before(i)
        OBVIOUS
      <3>1. CASE i = 1
        BY <3>1 DEF Before
      <3>2. CASE i # 1
        <4>1. i - 1 \in 1 .. n
          BY <2>1, <3>2
        <4> QED BY <2>1, <3>2, <4>1 DEF Before
      <3> QED BY <3>1, <3>2
    <2>3. balance = Before(n + 1)
      BY <2>0 DEF LedgerReconciles
    <2>4. \A i \in 1 .. n + 1 : ledger'[i].after = Before(i)' + ledger'[i].delta
      <3>1. \A i \in 1 .. n : ledger'[i].after = Before(i)' + ledger'[i].delta
        BY <2>0, <2>1, <2>2 DEF LedgerReconciles
      <3>2. ledger'[n + 1].after = Before(n + 1)' + ledger'[n + 1].delta
        BY <2>1, <2>2, <2>3
      <3> QED BY <2>1, <3>1, <3>2
    <2>5. balance' = Before(n + 2)'
      <3>1. n + 2 # 1 /\ (n + 2) - 1 = n + 1
        BY <2>1
      <3> QED BY <2>1, <3>1 DEF Before
    <2>6. Len(ledger') + 1 = n + 2
      BY <2>1
    <2> QED BY <2>1, <2>6, <2>4, <2>5 DEF LedgerReconciles
  <1> QED BY <1>1, <1>2, CallStep DEF vars, account

\* The ledger reconciles with the balance at either isolation.
THEOREM TrailReconciles == Spec => []LedgerReconciles
  <1>1. Init => LedgerReconciles
    BY EmptySeq DEF Init, LedgerReconciles, Before
  <1>2. TypeOK /\ LedgerReconciles /\ [Next]_vars => LedgerReconciles'
    BY TrailStep
  <1> QED BY <1>1, <1>2, CreditTypeCorrect, PTL DEF Spec

\* Every row carries its call's key, and no two rows carry one key.
KeyInv ==
    /\ \A i \in 1 .. Len(ledger) : ledger[i].key = Op[ledger[i].by].key
    /\ \A i, j \in 1 .. Len(ledger) : ledger[i].key = ledger[j].key => i = j

\* A commit appends a row only under a key that is not on the ledger.
LEMMA KeyStep == ASSUME TypeOK, KeyInv, [Next]_vars PROVE KeyInv'
  <1>1. CASE UNCHANGED account
    BY <1>1 DEF account, KeyInv
  <1>2. ASSUME NEW c \in Calls, Commit(c) PROVE KeyInv'
    <2> DEFINE n == Len(ledger)
    <2>1. /\ n \in Nat /\ Len(ledger') = n + 1
          /\ \A i \in 1 .. n : ledger'[i] = ledger[i] /\ ledger[i].key # Op[c].key
          /\ ledger'[n + 1].key = Op[c].key /\ ledger'[n + 1].by = c
      BY <1>2, CommitRow
    <2>2. \A i \in 1 .. n + 1 : i \in 1 .. n \/ i = n + 1
      BY <2>1
    <2> QED BY <2>1, <2>2 DEF KeyInv
  <1> QED BY <1>1, <1>2, CallStep DEF vars, account

\* No two rows of the ledger carry one key: the unique (orgId, externalId).
THEOREM KeysAreUnique == Spec => []KeyInv
  <1>1. Init => KeyInv
    BY EmptySeq DEF Init, KeyInv
  <1>2. TypeOK /\ KeyInv /\ [Next]_vars => KeyInv'
    BY KeyStep
  <1> QED BY <1>1, <1>2, CreditTypeCorrect, PTL DEF Spec

\* A call moves the balance once, whatever is retried or lost.
THEOREM CallsMoveOnce == Spec => []OncePerCall
  <1>1. KeyInv => OncePerCall
    BY DEF KeyInv, OncePerCall
  <1> QED BY <1>1, KeysAreUnique, PTL

-----------------------------------------------------------------------------
(* What a scan's debit reports, at either isolation.                         *)

\* A call that has not begun has no row; one about to commit has read its own
\* earlier rows; one that has not ended reports nothing.
ProgressInv ==
    \A c \in Calls :
        /\ pc[c] = "idle" => ~Debited(c)
        /\ pc[c] = "commit" =>
              /\ snap[c].len <= Len(ledger)
              /\ \A i \in 1 .. Len(ledger) : ledger[i].by = c => i <= snap[c].len
        /\ pc[c] # "done" => out[c] = "none"

Truthful(c) == Op[c].kind = "debit" =>
    /\ out[c] = "charged" => OnLedger(Op[c].key, Len(ledger))
    /\ out[c] \in {"denied", "free"} => ~Debited(c)

\* A commit of another call leaves a call's rows and known keys as they were.
LEMMA OthersRows ==
    ASSUME TypeOK, NEW c \in Calls, Commit(c)
    PROVE  /\ \A d \in Calls \ {c} : Debited(d)' => Debited(d)
           /\ \A k \in Keys : OnLedger(k, Len(ledger)) => OnLedger(k, Len(ledger))'
           /\ OnLedger(Op[c].key, Len(ledger))'
           /\ \A d \in Calls \ {c}, i \in 1 .. Len(ledger') :
                 ledger'[i].by = d => i \in 1 .. Len(ledger) /\ ledger[i].by = d
  <1> DEFINE n == Len(ledger)
  <1>1. /\ n \in Nat /\ Len(ledger') = n + 1
        /\ \A i \in 1 .. n : ledger'[i] = ledger[i]
        /\ ledger'[n + 1].key = Op[c].key /\ ledger'[n + 1].by = c
    BY CommitRow
  <1>2. \A i \in 1 .. n + 1 : i \in 1 .. n \/ i = n + 1
    BY <1>1
  <1>3. n + 1 \in 1 .. n + 1 /\ 1 .. n \subseteq 1 .. n + 1
    BY <1>1
  <1> QED BY <1>1, <1>2, <1>3 DEF Debited, OnLedger

\* What a phase of a call says of its row stays true.
LEMMA ProgressStep == ASSUME TypeOK, ProgressInv, [Next]_vars PROVE ProgressInv'
  <1>1. CASE UNCHANGED vars
    BY <1>1 DEF vars, ProgressInv, Debited
  <1>2. ASSUME NEW c \in Calls, Step(c), Moves(c), UNCHANGED account
        PROVE  ProgressInv'
    <2>1. ASSUME NEW d \in Calls \ {c}
          PROVE  pc'[d] = pc[d] /\ snap'[d] = snap[d] /\ out'[d] = out[d]
                 /\ ledger' = ledger /\ (Debited(d)' <=> Debited(d))
      BY <1>2 DEF Moves, account, Debited
    <2>2. pc'[c] # "idle" /\ (pc'[c] # "done" => out'[c] = "none")
          /\ (pc'[c] = "commit" => snap'[c].len = Len(ledger) /\ ledger' = ledger)
      <3>1. CASE pc'[c] = "done"
        BY <3>1
      <3>2. CASE pc'[c] = "tx" /\ out'[c] = out[c]
        BY <3>2, <1>2, StepBegins DEF ProgressInv
      <3>3. CASE TxRead(c)
        BY <3>3 DEF TxRead, account, TypeOK, ProgressInv
      <3> QED BY <1>2, <3>1, <3>2, <3>3 DEF Moves
    <2>3. Len(ledger) \in Nat
      BY DEF TypeOK
    <2> QED BY <2>1, <2>2, <2>3 DEF ProgressInv
  <1>3. ASSUME NEW c \in Calls, Moves(c), Commit(c) PROVE ProgressInv'
    <2>1. ASSUME NEW d \in Calls \ {c}
          PROVE  /\ pc'[d] = pc[d] /\ snap'[d] = snap[d] /\ out'[d] = out[d]
                 /\ Debited(d)' => Debited(d)
                 /\ \A i \in 1 .. Len(ledger') :
                       ledger'[i].by = d => i \in 1 .. Len(ledger) /\ ledger[i].by = d
      BY <1>3, OthersRows DEF Moves
    <2>2. pc'[c] \in {"tx", "done"} /\ (pc'[c] # "done" => out'[c] = "none")
      BY <1>3 DEF Moves, TxRead, Commit, ProgressInv
    <2>3. Len(ledger) \in Nat /\ Len(ledger') = Len(ledger) + 1
      BY <1>3, CommitRow
    <2>4. \A d \in Calls : snap[d].len \in Nat
      BY DEF TypeOK
    <2> QED BY <2>1, <2>2, <2>3, <2>4 DEF ProgressInv
  <1> QED BY <1>1, <1>2, <1>3, CallStep

\* A call's own step reports what the ledger holds of it.
LEMMA OwnReport ==
    ASSUME TypeOK, KeyInv, ProgressInv, NEW d \in Calls, Truthful(d), Step(d)
    PROVE  Truthful(d)'
  <1> SUFFICES ASSUME Op[d].kind = "debit" PROVE Truthful(d)'
    BY DEF Truthful
  <1>0. Len(ledger) \in Nat /\ out \in [Calls -> Answers] /\ pc[d] # "done"
    BY StepBegins DEF TypeOK
  <1>1. out[d] = "none"
    BY <1>0 DEF ProgressInv
  <1>2. CASE DecideCharge(d)
    <2>1. ~Debited(d)
      BY <1>2 DEF DecideCharge, ProgressInv
    <2>2. out'[d] \in {"free", "denied", "none"} /\ ledger' = ledger
      BY <1>0, <1>1, <1>2 DEF DecideCharge, Report, Enter, account
    <2> QED BY <2>1, <2>2 DEF Truthful, Debited
  <1>3. CASE TxRead(d)
    BY <1>1, <1>3 DEF TxRead, Truthful
  <1>4. CASE DecrementMatchesNothing(d)
    <2>1. out'[d] \in PriorAnswers(d) /\ ledger' = ledger /\ pc[d] = "commit"
      BY <1>0, <1>4 DEF DecrementMatchesNothing, Report, account
    <2>2. SeenLen(d) \in Nat /\ SeenLen(d) <= Len(ledger)
          /\ \A i \in 1 .. Len(ledger) : ledger[i].by = d => i <= SeenLen(d)
      BY <1>0, <2>1 DEF SeenLen, ProgressInv, TypeOK
    <2>3. CASE OnLedger(Op[d].key, SeenLen(d))
      <3>1. OnLedger(Op[d].key, Len(ledger))
        BY <1>0, <2>2, <2>3 DEF OnLedger
      <3> QED BY <2>1, <2>3, <3>1 DEF Truthful, PriorAnswers, OnLedger
    <2>4. CASE ~OnLedger(Op[d].key, SeenLen(d))
      <3>1. ~Debited(d)
        BY <1>0, <2>2, <2>4 DEF Debited, OnLedger, KeyInv
      <3> QED BY <2>1, <2>4, <3>1 DEF Truthful, PriorAnswers, Debited
    <2> QED BY <2>3, <2>4
  <1>5. CASE CommitConflicts(d)
    BY <1>1, <1>5, RetryMoves DEF CommitConflicts, Truthful
  <1>6. CASE DuplicateKey(d)
    <2>1. ledger' = ledger /\ OnLedger(Op[d].key, Len(ledger)) /\ out'[d] \in {"charged", "error"}
      BY <1>0, <1>6 DEF DuplicateKey, Report, Success, account
    <2> QED BY <2>1 DEF Truthful, OnLedger
  <1>7. CASE Commit(d)
    <2>1. OnLedger(Op[d].key, Len(ledger))'
      BY <1>7, OthersRows
    <2>2. out'[d] \in {"charged", "error", "none"}
      BY <1>0, <1>1, <1>7, RetryMoves DEF Commit, Report, Success
    <2> QED BY <2>1, <2>2 DEF Truthful
  <1>8. CASE TxFails(d)
    BY <1>0, <1>8 DEF TxFails, Report, Truthful
  <1> QED BY <1>2, <1>3, <1>4, <1>5, <1>6, <1>7, <1>8
          DEF Step, LookUpKey, EnterHosted, HostedDenied, HostedRefused, NothingToApply

\* What a scan reports stays true, lost acknowledgements included.
LEMMA TruthStep ==
    ASSUME TypeOK, KeyInv, ProgressInv, ScanReportsItsDebit, [Next]_vars
    PROVE  ScanReportsItsDebit'
  <1> SUFFICES ASSUME NEW d \in Calls PROVE Truthful(d)'
    BY DEF ScanReportsItsDebit, Truthful
  <1>0. Truthful(d)
    BY DEF ScanReportsItsDebit, Truthful
  <1>1. CASE UNCHANGED vars
    BY <1>0, <1>1 DEF vars, Truthful, Debited, OnLedger
  <1>2. ASSUME NEW c \in Calls \ {d}, Moves(c), UNCHANGED account \/ Commit(c)
        PROVE  Truthful(d)'
    <2>1. out'[d] = out[d]
      BY <1>2 DEF Moves
    <2>2. Debited(d)' => Debited(d)
      BY <1>2, OthersRows DEF account, Debited
    <2>3. OnLedger(Op[d].key, Len(ledger)) => OnLedger(Op[d].key, Len(ledger))'
      BY <1>2, OthersRows, OpType DEF account, OnLedger
    <2> QED BY <1>0, <2>1, <2>2, <2>3 DEF Truthful
  <1>3. CASE Step(d)
    BY <1>0, <1>3, OwnReport
  <1> QED BY <1>1, <1>2, <1>3, CallStep

\* A scan reported charged has its debit, one reported denied or free has not paid.
THEOREM ScansReportTruly == Spec => []ScanReportsItsDebit
  <1>1. Init => ProgressInv /\ ScanReportsItsDebit
    BY EmptySeq DEF Init, ProgressInv, ScanReportsItsDebit, Debited
  <1>2. TypeOK /\ ProgressInv /\ [Next]_vars => ProgressInv'
    BY ProgressStep
  <1>3. /\ TypeOK /\ KeyInv /\ ProgressInv /\ ScanReportsItsDebit /\ [Next]_vars
        => ScanReportsItsDebit'
    BY TruthStep
  <1> QED BY <1>1, <1>2, <1>3, CreditTypeCorrect, KeysAreUnique, PTL DEF Spec
-----------------------------------------------------------------------------
(* At snapshot isolation.                                                    *)

\* A transaction that commits without a conflict has read the present account.
SnapInv ==
    \A c \in Calls : pc[c] = "commit" /\ snap[c].len = Len(ledger) =>
        snap[c].bal = balance /\ snap[c].clawed = clawed[Op[c].order]

\* What a transaction has read stays the present account until a row is appended.
LEMMA SnapStep == ASSUME TypeOK, ProgressInv, SnapInv, [Next]_vars PROVE SnapInv'
  <1>1. CASE UNCHANGED vars
    BY <1>1 DEF vars, SnapInv
  <1>2. ASSUME NEW c \in Calls, Moves(c), UNCHANGED account PROVE SnapInv'
    <2>1. /\ balance' = balance /\ ledger' = ledger /\ clawed' = clawed
          /\ \A d \in Calls \ {c} : pc'[d] = pc[d] /\ snap'[d] = snap[d]
      BY <1>2 DEF Moves, account
    <2>2. pc'[c] = "commit" =>
            snap'[c].bal = balance /\ snap'[c].clawed = clawed[Op[c].order]
      BY <1>2 DEF Moves, TxRead, TypeOK
    <2> QED BY <2>1, <2>2 DEF SnapInv
  <1>3. ASSUME NEW c \in Calls, Moves(c), Commit(c) PROVE SnapInv'
    <2>1. pc'[c] # "commit"
      BY <1>3 DEF Moves, TxRead, Commit
    <2>2. Len(ledger) \in Nat /\ Len(ledger') = Len(ledger) + 1
      BY <1>3, CommitRow
    <2>3. \A d \in Calls \ {c} : pc'[d] = "commit" =>
            snap'[d].len \in Nat /\ snap'[d].len <= Len(ledger)
      BY <1>3 DEF Moves, ProgressInv, TypeOK
    <2> QED BY <2>1, <2>2, <2>3 DEF SnapInv
  <1> QED BY <1>1, <1>2, <1>3, CallStep

\* The invariant of a specification at snapshot isolation.
SnapshotInv == ProgressInv /\ SnapInv

\* A transaction whose ledger has not moved since it read has read the present
\* account; at snapshot isolation no other transaction commits.
THEOREM SnapshotsAreCurrent == Spec => []SnapshotInv
  <1>1. Init => SnapshotInv
    BY EmptySeq DEF Init, SnapshotInv, ProgressInv, SnapInv, Debited
  <1>2. TypeOK /\ SnapshotInv /\ [Next]_vars => SnapshotInv'
    BY ProgressStep, SnapStep DEF SnapshotInv
  <1> QED BY <1>1, <1>2, CreditTypeCorrect, PTL DEF Spec

\* A commit moves the balance within it, and a clawback within its target.
LEMMA CommitWithinMeans ==
    ASSUME Isolation = "snapshot", TypeOK, SnapInv, BalanceNonNegative,
           NEW c \in Calls, Commit(c)
    PROVE  /\ balance + Delta(c) >= 0
           /\ Op[c].kind = "clawback" => clawed[Op[c].order] - Delta(c) <= Op[c].amount
  <1>1. /\ snap[c].bal = balance /\ snap[c].clawed = clawed[Op[c].order]
        /\ SeenBalance(c) = balance
    BY DEF Commit, Conflicts, SnapInv, SeenBalance
  <1>2. balance \in Int /\ balance >= 0 /\ clawed[Op[c].order] \in Int
    BY OpType DEF TypeOK, BalanceNonNegative
  <1>3. Delta(c) \in Int /\ Delta(c) # 0 /\ Affordable(c)
    BY DeltaType DEF Commit, Writes
  <1>4. Op[c].kind \in Kinds /\ Op[c].amount \in Int
    BY OpType
  <1>5. CASE Op[c].kind \in {"debit", "hosted"}
    BY <1>1, <1>2, <1>3, <1>5 DEF Affordable
  <1>6. CASE Op[c].kind = "grant"
    <2>1. Delta(c) = IF Op[c].amount >= 0 THEN Op[c].amount
                     ELSE AtLeast(Op[c].amount, -balance)
      BY <1>1, <1>6 DEF Delta
    <2>2. -balance \in Int
      BY <1>2
    <2>3. AtLeast(Op[c].amount, -balance) \in Int
          /\ AtLeast(Op[c].amount, -balance) >= -balance
      BY <1>4, <2>2, AtLeastProperties
    <2> QED BY <1>2, <1>4, <1>6, <2>1, <2>3
  <1>7. CASE Op[c].kind = "clawback"
    <2> DEFINE m == Op[c].amount - clawed[Op[c].order]
    <2>1. Marginal(c) = m /\ m \in Int /\ -m \in Int /\ -balance \in Int
      BY <1>1, <1>2, <1>4 DEF Marginal
    <2>2. Delta(c) = AtLeast(-m, -balance)
      BY <1>1, <1>3, <1>7, <2>1 DEF Delta
    <2>3. Delta(c) >= -balance /\ Delta(c) >= -m
      BY <2>1, <2>2, AtLeastProperties
    <2> QED BY <1>2, <1>3, <1>4, <1>7, <2>1, <2>3
  <1> QED BY <1>4, <1>5, <1>6, <1>7 DEF Kinds

\* No commit at snapshot isolation takes the balance below zero.
LEMMA BalanceStep ==
    ASSUME Isolation = "snapshot", TypeOK, SnapInv, BalanceNonNegative, [Next]_vars
    PROVE  BalanceNonNegative'
  <1>1. CASE UNCHANGED account
    BY <1>1 DEF account, BalanceNonNegative
  <1>2. ASSUME NEW c \in Calls, Commit(c) PROVE BalanceNonNegative'
    BY <1>2, CommitRow, CommitWithinMeans DEF BalanceNonNegative
  <1> QED BY <1>1, <1>2, CallStep DEF vars, account

\* No interleaving drives the balance below zero at snapshot isolation.
THEOREM BalanceStaysNonNegative ==
    ASSUME Isolation = "snapshot" PROVE Spec => []BalanceNonNegative
  <1>1. Init => BalanceNonNegative
    BY CreditAssumption DEF Init, BalanceNonNegative
  <1>2. TypeOK /\ SnapInv /\ BalanceNonNegative /\ [Next]_vars => BalanceNonNegative'
    BY BalanceStep
  <1>3. SnapshotInv => SnapInv
    BY DEF SnapshotInv
  <1> QED BY <1>1, <1>2, <1>3, CreditTypeCorrect, SnapshotsAreCurrent, PTL DEF Spec

\* No commit at snapshot isolation claws back beyond the targets.
LEMMA ClawStep ==
    ASSUME Isolation = "snapshot", TypeOK, SnapInv, BalanceNonNegative, ClawbackBounded,
           [Next]_vars
    PROVE  ClawbackBounded'
  <1>1. CASE UNCHANGED account
    BY <1>1 DEF account, ClawbackBounded
  <1>2. ASSUME NEW c \in Calls, Commit(c) PROVE ClawbackBounded'
    <2>1. CASE Op[c].kind # "clawback"
      BY <1>2, <2>1 DEF Commit, ClawbackBounded
    <2>2. CASE Op[c].kind = "clawback"
      <3>1. clawed' = [clawed EXCEPT ![Op[c].order] = @ - Delta(c)]
        BY <1>2, <2>2 DEF Commit
      <3>2. clawed'[Op[c].order] <= Op[c].amount
        BY <1>2, <2>2, <3>1, CommitWithinMeans, OpType DEF TypeOK
      <3>3. \A o \in Orders \ {Op[c].order} : clawed'[o] = clawed[o]
        BY <3>1 DEF TypeOK
      <3> QED BY <2>2, <3>2, <3>3 DEF ClawbackBounded
    <2> QED BY <2>1, <2>2
  <1> QED BY <1>1, <1>2, CallStep DEF vars, account

\* No sequence of refund events reverses more than the largest target.
THEOREM ClawbackStaysBounded ==
    ASSUME Isolation = "snapshot" PROVE Spec => []ClawbackBounded
  <1>1. Init => ClawbackBounded
    BY DEF Init, ClawbackBounded
  <1>2. /\ TypeOK /\ SnapInv /\ BalanceNonNegative /\ ClawbackBounded /\ [Next]_vars
        => ClawbackBounded'
    BY ClawStep
  <1>3. SnapshotInv => SnapInv
    BY DEF SnapshotInv
  <1> QED BY <1>1, <1>2, <1>3, CreditTypeCorrect, SnapshotsAreCurrent,
             BalanceStaysNonNegative, PTL DEF Spec

-----------------------------------------------------------------------------
(* The refinement of the wallet.                                             *)

Moved == {[key |-> ledger[i].key, delta |-> ledger[i].delta] : i \in 1 .. Len(ledger)}

\* A commit is a movement of the wallet under the key of its call.
LEMMA CommitMoves ==
    ASSUME Isolation = "snapshot", TypeOK, SnapInv, BalanceNonNegative,
           NEW c \in Calls, Commit(c)
    PROVE  W!Move(Op[c].key)
  <1>0. PICK n \in Nat : n = Len(ledger)
    BY CommitRow
  <1>1. /\ Len(ledger') = n + 1
        /\ \A i \in 1 .. n : ledger'[i] = ledger[i] /\ ledger[i].key # Op[c].key
        /\ ledger'[n + 1].key = Op[c].key /\ ledger'[n + 1].delta = Delta(c)
        /\ balance' = balance + Delta(c)
        /\ balance \in Int /\ Delta(c) \in Int /\ Delta(c) # 0
    BY <1>0, CommitRow
  <1>2. balance + Delta(c) >= 0
    BY CommitWithinMeans
  <1>3. balance' \in Nat /\ balance' # balance /\ balance' - balance = Delta(c)
    BY <1>1, <1>2
  <1>4. \A m \in Moved : m.key # Op[c].key
    BY <1>0, <1>1 DEF Moved
  <1>5. Moved' = Moved \cup {[key |-> Op[c].key, delta |-> Delta(c)]}
    <2>1. 1 .. n + 1 = (1 .. n) \cup {n + 1}
      BY <1>0
    <2>2. Moved' = {[key |-> ledger'[i].key, delta |-> ledger'[i].delta] : i \in 1 .. n + 1}
      BY <1>1 DEF Moved
    <2>3. Moved = {[key |-> ledger'[i].key, delta |-> ledger'[i].delta] : i \in 1 .. n}
      BY <1>0, <1>1 DEF Moved
    <2> QED BY <1>1, <2>1, <2>2, <2>3
  <1> QED BY <1>3, <1>4, <1>5 DEF W!Move, Moved

\* A step of the ledger is a movement of the wallet or none.
LEMMA WalletStep ==
    ASSUME Isolation = "snapshot", TypeOK, SnapInv, BalanceNonNegative, [Next]_vars
    PROVE  [W!Next]_<<balance, Moved>>
  <1>1. CASE UNCHANGED account
    BY <1>1 DEF account, Moved
  <1>2. ASSUME NEW c \in Calls, Commit(c) PROVE W!Next
    BY <1>2, CommitMoves, OpType DEF W!Next
  <1> QED BY <1>1, <1>2, CallStep DEF vars, account

\* At snapshot isolation the credit functions implement the wallet: every step
\* moves the balance at once, under a key of its own, and never below zero.
THEOREM LedgerImplementsWallet ==
    ASSUME Isolation = "snapshot" PROVE Spec => ImplementsWallet
  <1>1. Init => W!Init
    BY CreditAssumption, EmptySeq DEF Init, W!Init
  <1>2. TypeOK /\ SnapInv /\ BalanceNonNegative /\ [Next]_vars
        => [W!Next]_<<balance, Moved>>
    BY WalletStep
  <1>3. SnapshotInv => SnapInv
    BY DEF SnapshotInv
  <1> QED BY <1>1, <1>2, <1>3, CreditTypeCorrect, SnapshotsAreCurrent,
             BalanceStaysNonNegative, PTL DEF Spec, ImplementsWallet, W!Spec, Moved
=============================================================================
