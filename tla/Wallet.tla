-------------------------------- MODULE Wallet --------------------------------
(***************************************************************************)
(* What an organisation's credit balance promises: it changes by movements *)
(* that each happen at once, each has a key that is used once, and none    *)
(* takes the balance below zero.                                           *)
(***************************************************************************)
EXTENDS Integers

CONSTANT Keys

VARIABLES
    balance,
    moved       \* the movements so far: records [key, delta]

Init == balance \in Nat /\ moved = {}

Move(k) ==
    /\ balance' \in Nat
    /\ balance' # balance
    /\ \A m \in moved : m.key # k
    /\ moved' = moved \cup {[key |-> k, delta |-> balance' - balance]}

Next == \E k \in Keys : Move(k)

Spec == Init /\ [][Next]_<<balance, moved>>
=============================================================================
