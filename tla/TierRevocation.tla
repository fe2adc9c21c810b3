---------------------------- MODULE TierRevocation ----------------------------
(***************************************************************************)
(* The plan of one organization and the subscriptions that pay for it:     *)
(* the billing webhook (app/api/billing/webhook/route.ts), its decision    *)
(* (lib/billing/tierRevocationModel.ts) and the record of the grantor      *)
(* (lib/billing/subscriptionRecord.ts).                                    *)
(*                                                                         *)
(* Polar is the environment.  It sends order.paid for a subscription that  *)
(* was bought or renewed, and subscription.revoked or canceled when it has *)
(* ended; an event is delivered until it is acknowledged and may be        *)
(* delivered again after that, in any order.  A handler dies or throws     *)
(* between any two of its calls, and is then delivered again.              *)
(***************************************************************************)
EXTENDS Integers, FiniteSets

CONSTANTS NSubs,        \* subscriptions, numbered in the order they are bought
          Tiers,        \* the ranks of paid plans; 0 is free
          Handlers      \* handlers that may run at the same time

ASSUME TierAssumption == NSubs \in Nat \ {0} /\ Tiers \subseteq Nat \ {0}

Subs == 1 .. NSubs
FreePlan == 0
Ranks == Tiers \cup {FreePlan}
NoGrantor == 0
Events == {"paid", "ended"} \X Subs

VARIABLES polar,        \* what Polar holds of each subscription
          plan,         \* Organization.plan, by rank
          grant,        \* the Subscription row: stripeId, and whether its status is active
          handler,
          begun, acked, \* events that were delivered once, and acknowledged once
          disorder      \* history: what the route does not prevent and a property may except

tierVars == <<polar, plan, grant, handler, begun, acked, disorder>>

\* "overlap": a handler was started while another one ran; "late": an order.paid came after that of a
\* later subscription; "torn": a handler failed between the two writes of a grant.
Disorders == {"overlap", "late", "torn"}

Grants == [grantor : Subs \cup {NoGrantor}, live : BOOLEAN]
Reads == {"plan", "record"}
AtRest == [at |-> "rest", event |-> <<"paid", 1>>, unread |-> {}, plan |-> FreePlan,
           grant |-> [grantor |-> NoGrantor, live |-> FALSE]]
Started(e) ==
    IF e[1] = "paid" THEN [AtRest EXCEPT !.at = "fetch", !.event = e]
                     ELSE [AtRest EXCEPT !.at = "decide", !.event = e, !.unread = Reads]
Steps == {"rest", "fetch", "setPlan", "record", "decide", "clearPlan", "retire", "reply"}

TierTypeOK ==
    /\ polar \in [Subs -> [status : {"none", "active", "ended"}, tier : Ranks]]
    /\ plan \in Ranks /\ grant \in Grants
    /\ handler \in [Handlers -> [at : Steps, event : Events, unread : SUBSET Reads,
                               plan : Ranks, grant : Grants]]
    /\ begun \subseteq Events /\ acked \subseteq begun /\ disorder \subseteq Disorders

TierInit ==
    /\ polar = [s \in Subs |-> [status |-> "none", tier |-> FreePlan]]
    /\ plan = FreePlan
    /\ grant = AtRest.grant
    /\ handler = [h \in Handlers |-> AtRest]
    /\ begun = {} /\ acked = {} /\ disorder = {}
-----------------------------------------------------------------------------
(* Polar *)

\* The owner checks out a plan, the subscription before it ended or not: it may be cancelled at the
\* end of its period and paid until then.
Subscribe(s) ==
    /\ polar[s].status = "none"
    /\ \A t \in 1 .. s - 1 : polar[t].status # "none"
    /\ \E r \in Tiers : polar' = [polar EXCEPT ![s] = [status |-> "active", tier |-> r]]
    /\ UNCHANGED <<plan, grant, handler, begun, acked, disorder>>

\* Cancelled at once, not paid, or at the end of its period.
SubscriptionEnds(s) ==
    /\ polar[s].status = "active"
    /\ polar' = [polar EXCEPT ![s].status = "ended"]
    /\ UNCHANGED <<plan, grant, handler, begun, acked, disorder>>

Sent(e) == polar[e[2]].status \in (IF e[1] = "paid" THEN {"active", "ended"} ELSE {"ended"})

Overlaps(h) == \E k \in Handlers \ {h} : handler[k].at # "rest"
Late(e) == e[1] = "paid" /\ \E s \in Subs : s > e[2] /\ <<"paid", s>> \in begun

Deliver(h, e) ==
    /\ handler[h].at = "rest"
    /\ Sent(e)
    /\ handler' = [handler EXCEPT ![h] = Started(e)]
    /\ begun' = begun \cup {e}
    /\ disorder' = disorder \cup (IF Overlaps(h) THEN {"overlap"} ELSE {})
                            \cup (IF Late(e) THEN {"late"} ELSE {})
    /\ UNCHANGED <<polar, plan, grant, acked>>
-----------------------------------------------------------------------------
(* The handlers *)

Of(h) == handler[h].event[2]

HandlerGoes(h, from, to) ==
    /\ handler[h].at = from
    /\ handler' = [handler EXCEPT ![h].at = to]

\* Mutation of Entitles: the state the event was built with is trusted.
MutEntitles(s) == polar[s].status # "none"

\* subscriptionEntitlesTier, of the subscription as Polar holds it now.
Entitles(s) == polar[s].status = "active"

FencePaid(h) ==
    /\ HandlerGoes(h, "fetch", IF Entitles(Of(h)) THEN "setPlan" ELSE "reply")
    /\ UNCHANGED <<polar, plan, grant, begun, acked, disorder>>

\* setOrgPlan, then upsertOrgSubscription: two writes.
GrantPlan(h) ==
    /\ HandlerGoes(h, "setPlan", "record")
    /\ plan' = polar[Of(h)].tier
    /\ UNCHANGED <<polar, grant, begun, acked, disorder>>

RecordGrantor(h) ==
    /\ HandlerGoes(h, "record", "reply")
    /\ grant' = [grantor |-> Of(h), live |-> TRUE]
    /\ UNCHANGED <<polar, plan, begun, acked, disorder>>

\* applyTierRevocation asks for the plan and for the record at once.
ReadPlan(h) ==
    /\ "plan" \in handler[h].unread
    /\ handler' = [handler EXCEPT ![h].plan = plan, ![h].unread = @ \ {"plan"}]
    /\ UNCHANGED <<polar, plan, grant, begun, acked, disorder>>

ReadRecord(h) ==
    /\ "record" \in handler[h].unread
    /\ handler' = [handler EXCEPT ![h].grant = grant, ![h].unread = @ \ {"record"}]
    /\ UNCHANGED <<polar, plan, grant, begun, acked, disorder>>

\* Mutation of Replaced: the grantor on record is not looked at.
MutReplaced(dying, g) == FALSE

\* decideTierRevocation: another subscription holds the tier, or the plan outranks what this one gave.
Replaced(dying, g) == g.live /\ g.grantor # dying

Overrides(dying, p) == p > polar[dying].tier

DecideRevocation(h) ==
    /\ handler[h].unread = {}
    /\ HandlerGoes(h, "decide", IF Replaced(Of(h), handler[h].grant) \/ Overrides(Of(h), handler[h].plan)
                                THEN "reply" ELSE "clearPlan")
    /\ UNCHANGED <<polar, plan, grant, begun, acked, disorder>>

ClearPlan(h) ==
    /\ HandlerGoes(h, "clearPlan", "retire")
    /\ plan' = FreePlan
    /\ UNCHANGED <<polar, grant, begun, acked, disorder>>

RetireGrantor(h) ==
    /\ HandlerGoes(h, "retire", "reply")
    /\ grant' = [grantor |-> Of(h), live |-> FALSE]
    /\ UNCHANGED <<polar, plan, begun, acked, disorder>>

Acknowledge(h) ==
    /\ handler[h].at = "reply"
    /\ handler' = [handler EXCEPT ![h] = AtRest]
    /\ acked' = acked \cup {handler[h].event}
    /\ UNCHANGED <<polar, plan, grant, begun, disorder>>

\* The fetch, a read or a write throws, or the process dies: no acknowledgement, whatever was written.
HandlerFails(h) ==
    /\ handler[h].at # "rest"
    /\ handler' = [handler EXCEPT ![h] = AtRest]
    /\ disorder' = disorder \cup (IF handler[h].at = "record" THEN {"torn"} ELSE {})
    /\ UNCHANGED <<polar, plan, grant, begun, acked>>

TierNext ==
    \/ \E s \in Subs : Subscribe(s) \/ SubscriptionEnds(s)
    \/ \E h \in Handlers :
           \/ \E e \in Events : Deliver(h, e)
           \/ FencePaid(h) \/ GrantPlan(h) \/ RecordGrantor(h)
           \/ ReadPlan(h) \/ ReadRecord(h) \/ DecideRevocation(h) \/ ClearPlan(h) \/ RetireGrantor(h)
           \/ Acknowledge(h) \/ HandlerFails(h)

TierSpec == TierInit /\ [][TierNext]_tierVars
-----------------------------------------------------------------------------
(* Properties *)

\* Nothing is under way, and Polar has nothing left that it must deliver.
Quiet == /\ \A h \in Handlers : handler[h].at = "rest"
         /\ \A e \in Events : Sent(e) => e \in acked

\* The subscription that was bought last, while it is active.
Paying(s) == polar[s].status = "active" /\ \A t \in s + 1 .. NSubs : polar[t].status = "none"

\* Once all is delivered, an organization whose newest subscription is active has at least its plan,
\* whatever ended before, in whatever order and however often the news of it came (the rule of
\* tierRevocationModel.ts:5-13).  Handlers that overlapped and payments that came late are excepted:
\* the route serializes nothing, and either can strip the plan.
PayerKeepsTier ==
    Quiet /\ disorder \subseteq {"torn"} => \A s \in Subs : Paying(s) => plan >= polar[s].tier

\* "Its revoke must not strip the tier the replacement pays for" (tierRevocationModel.ts:9): once all is
\* delivered, an organization that pays for its newest subscription is not on the free plan.
RevokeSparesReplacement == Quiet => \A s \in Subs : Paying(s) => plan # FreePlan

\* A plan "is NOT a one-way, permanent grant" (route.ts:13): once all is delivered and no subscription is
\* active, the plan is free.  Handlers that overlapped are excepted, and a failure between the two
\* writes of a grant: it leaves the plan of one subscription with the record of another, and the end
\* of either then leaves the plan.  Late payments are not.
TierEndsWithItsPayer ==
    Quiet /\ disorder \subseteq {"late"} /\ (\A s \in Subs : polar[s].status # "active") =>
        plan = FreePlan
=============================================================================
