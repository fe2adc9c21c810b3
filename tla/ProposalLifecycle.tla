-------------------------- MODULE ProposalLifecycle ---------------------------
(***************************************************************************)
(* The lifecycle that src/lib/athena/proposal-lifecycle.ts writes down as  *)
(* EDGES: who may move an ask where.  Nothing leaves accepted, declined or *)
(* expired, a claim is never declined and a stale claim is never released. *)
(* The passing of time, which lifecycleOf reads off claimedAt, is Age.     *)
(***************************************************************************)
VARIABLE lifecycle

Lifecycles == {"open", "claimed", "claimed_stale", "accepted", "declined", "expired"}

\* <<state, event, next>>
EDGES == {<<"open", "accept", "claimed">>,
          <<"open", "decline", "declined">>,
          <<"open", "expire", "expired">>,
          <<"claimed", "stamp", "accepted">>,
          <<"claimed", "release", "open">>,
          <<"claimed_stale", "stamp", "accepted">>,
          <<"claimed_stale", "interrupt", "accepted">>}

\* A claim made before claimedAt was recorded reads as stale.
Init == lifecycle \in {"open", "claimed_stale"}

Take(event) == \E next \in Lifecycles : /\ <<lifecycle, event, next>> \in EDGES
                                        /\ lifecycle' = next

Age == lifecycle = "claimed" /\ lifecycle' = "claimed_stale"

Next ==
    \/ \E event \in {"accept", "decline", "stamp", "release", "expire", "interrupt"} : Take(event)
    \/ Age

Spec == Init /\ [][Next]_lifecycle
=============================================================================
