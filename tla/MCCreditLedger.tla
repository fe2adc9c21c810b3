---------------------------- MODULE MCCreditLedger ----------------------------
(***************************************************************************)
(* Instances of CreditLedger for TLC: one entry per call that may be made. *)
(***************************************************************************)
EXTENDS CreditLedger, FiniteSets, TLC

Call(kind, key, amount, order, supplied) ==
    [kind |-> kind, key |-> key, amount |-> amount, order |-> order, supplied |-> supplied]

\* Two scans, an order's grant delivered twice, two events of its refund, an
\* owner's adjustment, and a hosted run.
MCOp ==
    "scan1" :> Call("debit", "scan-job:1", 1, "-", TRUE) @@
    "scan2" :> Call("debit", "scan-job:2", 1, "-", TRUE) @@
    "paid" :> Call("grant", "polar:A", 2, "-", TRUE) @@
    "paidAgain" :> Call("grant", "polar:A", 2, "-", TRUE) @@
    "half" :> Call("clawback", "polar-refund:A:1", 1, "A", TRUE) @@
    "full" :> Call("clawback", "polar-refund:A:2", 2, "A", TRUE) @@
    "adjust" :> Call("grant", "auto:1", -2, "-", FALSE) @@
    "hosted" :> Call("hosted", "hosted:1", 2, "-", FALSE)

CONSTANT MaxBegun

\* At most MaxBegun of the calls are ever made: every choice of that many.
FewCalls == Cardinality({c \in Calls : pc[c] # "idle"}) <= MaxBegun
=============================================================================
