---------------------------- MODULE WebhookDelivery ---------------------------
(***************************************************************************)
(* One delivery id of the GitHub App's webhook: the instance's own memory  *)
(* (src/lib/github/webhook-delivery.ts), the claim that all instances      *)
(* share (src/lib/db/webhook-deliveries.ts) and the route that takes both  *)
(* before the work (src/app/api/app/webhook/route.ts).  An arm that fails  *)
(* or refuses gives both back (src/lib/github/webhook/), while the other   *)
(* tasks of its arrival go on.                                             *)
(*                                                                         *)
(* GitHub or an operator may send the same id again at any time.           *)
(***************************************************************************)
EXTENDS FiniteSets, Naturals

CONSTANTS
    Boxes,          \* instances of the app
    Posts,          \* arrivals under way; each slot serves one after the other
    Bounded         \* TRUE: no work outlasts its claim (REPLAY_HORIZON_MS)

ASSUME DeliveryAssumption == Bounded \in BOOLEAN

VARIABLES
    seen,           \* seen[b]: the Map of the instance has the id
    claim,          \* the row of the id
    post,           \* post[q]: where the arrival is, on which instance, and whether it holds the claim
    processed,      \* history: arrivals that did the work under the present claim, 0 to 2
    unsure          \* history: the store has failed, and from then on two may have claimed

deliveryVars == <<seen, claim, post, processed, unsure>>

\* finishing: abandoned, with the rest of the work still under way.
PostPhases == {"idle", "claiming", "working", "forgetting", "finishing"}

DeliveryTypeOK ==
    /\ seen \in [Boxes -> BOOLEAN]
    /\ claim \in {"none", "held", "expired"}
    /\ post \in [Posts -> [phase : PostPhases, box : Boxes]]
    /\ processed \in 0..2
    /\ unsure \in BOOLEAN

DeliveryInit ==
    /\ seen = [b \in Boxes |-> FALSE]
    /\ claim = "none"
    /\ post \in [Posts -> [phase : {"idle"}, box : Boxes]]
    /\ processed = 0
    /\ unsure = FALSE

PostGoes(q, phase) == post' = [post EXCEPT ![q].phase = phase]

\* deliveryAlreadySeen: tested and set in one turn; a replay on the instance is answered at once.
Post(q) ==
    /\ post[q].phase = "idle"
    /\ \E b \in Boxes :
        /\ ~seen[b]
        /\ seen' = [seen EXCEPT ![b] = TRUE]
        /\ post' = [post EXCEPT ![q].phase = "claiming", ![q].box = b]
    /\ UNCHANGED <<claim, processed, unsure>>

\* Mutations of Claimable: the upsert without its condition, and an insert that skips every conflict.
MutClaimable == TRUE
MutNotClaimable == claim = "none"

Claimable == claim # "held"

\* claimWebhookDelivery: a store that fails, or whose answer is lost, lets the arrival through.
claimWebhookDelivery(q) ==
    /\ post[q].phase = "claiming"
    /\ \/ /\ Claimable
          /\ claim' = "held"
          /\ processed' = 0
          /\ PostGoes(q, "working")
          /\ UNCHANGED unsure
       \/ /\ ~Claimable
          /\ PostGoes(q, "idle")
          /\ UNCHANGED <<claim, processed, unsure>>
       \/ /\ unsure' = TRUE
          /\ claim' \in {claim} \cup (IF Claimable THEN {"held"} ELSE {})
          /\ PostGoes(q, "working")
          /\ UNCHANGED processed
    /\ UNCHANGED seen

\* The handler and all the work it defers, none of which gave the id back.
WorkDone(q) ==
    /\ post[q].phase = "working"
    /\ processed' = IF processed < 2 THEN processed + 1 ELSE 2
    /\ PostGoes(q, "idle")
    /\ UNCHANGED <<seen, claim, unsure>>

\* abandonDelivery and forgetDelivery, once an arrival, from whichever task: the Map first ...
abandonDelivery(q) ==
    /\ post[q].phase = "working"
    /\ seen' = [seen EXCEPT ![post[q].box] = FALSE]
    /\ PostGoes(q, "forgetting")
    /\ UNCHANGED <<claim, processed, unsure>>

\* ... and the row by its id, whoever holds it by now; a failure is logged and swallowed.
releaseWebhookDelivery(q) ==
    /\ post[q].phase = "forgetting"
    /\ \/ claim' = "none" /\ processed' = 0
       \/ UNCHANGED <<claim, processed>>
    /\ PostGoes(q, "finishing")
    /\ UNCHANGED <<seen, unsure>>

\* What is left of the arrival's work: the steps after the one that failed and its other tasks.
RestEnds(q) ==
    /\ post[q].phase = "finishing"
    /\ PostGoes(q, "idle")
    /\ UNCHANGED <<seen, claim, processed, unsure>>

\* An instance goes away, with its memory and everything under way on it.
BoxDies(b) ==
    /\ seen' = [seen EXCEPT ![b] = FALSE]
    /\ post' = [q \in Posts |-> IF post[q].box = b THEN [post[q] EXCEPT !.phase = "idle"] ELSE post[q]]
    /\ UNCHANGED <<claim, processed, unsure>>

\* DELIVERY_TTL_MS has passed, or the Map was full.
MemoryFades(b) ==
    /\ seen[b]
    /\ seen' = [seen EXCEPT ![b] = FALSE]
    /\ UNCHANGED <<claim, post, processed, unsure>>

\* The claim is past its horizon.  What an arrival does after it gave its claim up is not bounded.
ClaimRunsOut ==
    /\ claim = "held"
    /\ Bounded => \A q \in Posts : post[q].phase \notin {"working", "forgetting"}
    /\ claim' = "expired"
    /\ UNCHANGED <<seen, post, processed, unsure>>

\* Now and then a claim of any id deletes the rows that are past theirs.
SweepExpired ==
    /\ claim = "expired"
    /\ claim' = "none"
    /\ UNCHANGED <<seen, post, processed, unsure>>

DeliveryNext ==
    \/ \E q \in Posts :
        \/ Post(q) \/ claimWebhookDelivery(q) \/ WorkDone(q) \/ abandonDelivery(q)
        \/ releaseWebhookDelivery(q) \/ RestEnds(q)
    \/ \E b \in Boxes : BoxDies(b) \/ MemoryFades(b)
    \/ ClaimRunsOut \/ SweepExpired

DeliverySpec == DeliveryInit /\ [][DeliveryNext]_deliveryVars

\* Somebody sends the id again as long as it is not done, memories and claims run out, and an
\* instance neither dies nor fails on every arrival.
DeliveryFairness ==
    /\ \A q \in Posts :
        /\ SF_deliveryVars(Post(q))
        /\ SF_deliveryVars(claimWebhookDelivery(q))
        /\ SF_deliveryVars(WorkDone(q))
        /\ WF_deliveryVars(WorkDone(q) \/ abandonDelivery(q))
        /\ WF_deliveryVars(releaseWebhookDelivery(q))
        /\ WF_deliveryVars(RestEnds(q))
    /\ \A b \in Boxes : SF_deliveryVars(MemoryFades(b))
    /\ SF_deliveryVars(ClaimRunsOut)

-----------------------------------------------------------------------------
(* What must hold.                                                           *)

\* An id is worked on once under a good claim: however many copies arrive, on whichever instances,
\* unless the store failed, the route preferring two to none.  An arrival that abandoned the id
\* has given its claim up; what is left of its work may go on beside the next one's.
ProcessedOnce ==
    unsure \/ processed + Cardinality({q \in Posts : post[q].phase = "working"}) <= 1

\* No failure, kill or lost release keeps an id from ever being worked on: it is done in the end.
ProcessedInTheEnd == <>(processed > 0)
=============================================================================
