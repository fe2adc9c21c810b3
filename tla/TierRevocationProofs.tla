------------------------- MODULE TierRevocationProofs -------------------------
(***************************************************************************)
(* Theorems about TierRevocation, for any number of subscriptions, tiers   *)
(* and handlers.  The organization is on no plan that nobody bought.  As   *)
(* long as no two handlers have overlapped: once nothing is active the     *)
(* plan ends, and as long as no payment came late either, the payer of the *)
(* newest subscription keeps its plan.  The route prevents neither, so     *)
(* both are history in the properties and no assumption; TLC finds the     *)
(* plan lost after a late payment (TierReplaced.cfg).  At the end, what is *)
(* proved of the three sides of billing is put together for MCCredits.     *)
(***************************************************************************)
EXTENDS MCCredits, CreditLedgerProofs, RescoreJobProofs, TLAPS

\* At most one handler is busy.
OneBusy == \A h, k \in Handlers : handler[h].at # "rest" /\ handler[k].at # "rest" => h = k

\* All but this one are at rest.
Alone(w) == \A k \in Handlers \ {w} : handler[k].at = "rest"

\* Where the handler of a payment may be, and that of an end.
PaidSteps == {"fetch", "setPlan", "record", "reply"}
EndedSteps == {"decide", "clearPlan", "retire", "reply"}

\* Nothing is delivered that was not sent, and the organization's grantor was bought once.
DeliveredOK ==
    /\ \A e \in begun : Sent(e)
    /\ grant.live => grant.grantor \in Subs /\ polar[grant.grantor].status # "none"

\* What a busy handler is at, and that no later payment has come when it handles one.
BusyOK(h) ==
    /\ handler[h].unread # {} => handler[h].at = "decide"
    /\ handler[h].at # "rest" =>
        /\ handler[h].event \in begun
        /\ handler[h].event[1] = "paid" =>
               /\ handler[h].at \in PaidSteps
               /\ "late" \notin disorder => \A s \in Subs : s > handler[h].event[2] => <<"paid", s>> \notin begun
        /\ handler[h].event[1] = "ended" => handler[h].at \in EndedSteps

\* What it has read still stands, for nobody else writes.
ReadsOK(h) ==
    handler[h].at = "decide" =>
        /\ "plan" \notin handler[h].unread => handler[h].plan = plan
        /\ "record" \notin handler[h].unread => handler[h].grant = grant

\* Both writes of the grant of s stand.
Granted(s) == plan = polar[s].tier /\ grant = [grantor |-> s, live |-> TRUE]

\* A grant that is written, as far as it is.
GrantOK(h) ==
    handler[h].at # "rest" /\ handler[h].event[1] = "paid" =>
        /\ handler[h].at = "record" => plan = polar[Of(h)].tier
        /\ handler[h].at = "reply" /\ polar[Of(h)].status = "active" => Granted(Of(h))

\* The newest subscription, its payment handled, holds the plan, and nobody is about to clear it.
PlanOK ==
    "late" \notin disorder => \A s \in Subs : Paying(s) /\ <<"paid", s>> \in acked =>
        /\ Granted(s)
        /\ \A h \in Handlers : handler[h].at \notin {"clearPlan", "retire"}

\* The inductive invariant; EndOK is kept with its help.
TierInv ==
    /\ TierTypeOK /\ DeliveredOK /\ PlanOK
    /\ \A h \in Handlers : BusyOK(h) /\ ReadsOK(h) /\ GrantOK(h)

\* As long as no grant was torn, a plan has its grantor on record, whose end is not handled.
EndOK ==
    "torn" \notin disorder =>
        /\ \/ plan = FreePlan
           \/ \E h \in Handlers : handler[h].at = "record"
           \/ grant.live /\ plan = polar[grant.grantor].tier
        /\ grant.live => <<"ended", grant.grantor>> \notin acked
        /\ \A h \in Handlers :
              /\ handler[h].at \in {"setPlan", "record"} => <<"ended", Of(h)>> \notin begun
              /\ handler[h].at = "retire" => plan = FreePlan
              /\ handler[h].at = "reply" /\ handler[h].event[1] = "ended" =>
                     ~(grant.live /\ grant.grantor = Of(h))

\* An event is its kind and its subscription.
LEMMA EventParts ==
    ASSUME NEW e \in Events
    PROVE  e[1] \in {"paid", "ended"} /\ e[2] \in Subs /\ e = <<e[1], e[2]>>
  BY DEF Events

\* The plan's side and the end's side, as one handler sees them.
PlanOf(w) ==
    "late" \notin disorder => \A s \in Subs : Paying(s) /\ <<"paid", s>> \in acked =>
        Granted(s) /\ handler[w].at \notin {"clearPlan", "retire"}

EndOf(w) ==
    "torn" \notin disorder =>
        /\ \/ plan = FreePlan
           \/ handler[w].at = "record"
           \/ grant.live /\ plan = polar[grant.grantor].tier
        /\ grant.live => <<"ended", grant.grantor>> \notin acked
        /\ handler[w].at \in {"setPlan", "record"} => <<"ended", Of(w)>> \notin begun
        /\ handler[w].at = "retire" => plan = FreePlan
        /\ handler[w].at = "reply" /\ handler[w].event[1] = "ended" =>
               ~(grant.live /\ grant.grantor = Of(w))

\* What a handler's own step keeps.
OwnInv(w) == TierTypeOK /\ DeliveredOK /\ PlanOf(w) /\ BusyOK(w) /\ ReadsOK(w) /\ GrantOK(w)

\* Nothing was bought, so nothing is granted and nobody is at work.
LEMMA TierInitInv ==
    ASSUME TierInit
    PROVE  TierInv /\ EndOK
  <1>1. 1 \in Subs /\ <<"paid", 1>> \in Events
    BY TierAssumption DEF Subs, Events
  <1>2. AtRest \in [at : Steps, event : Events, unread : SUBSET Reads, plan : Ranks, grant : Grants]
    BY <1>1 DEF AtRest, Steps, Ranks, FreePlan, Grants, NoGrantor
  <1>3. TierTypeOK
    BY <1>2 DEF TierInit, TierTypeOK, AtRest, Ranks, FreePlan, Grants, NoGrantor
  <1>4. \A h \in Handlers : handler[h] = AtRest
    BY DEF TierInit
  <1>5. DeliveredOK /\ PlanOK
    BY DEF TierInit, DeliveredOK, PlanOK, AtRest
  <1>6. \A h \in Handlers : BusyOK(h) /\ ReadsOK(h) /\ GrantOK(h)
    BY <1>4 DEF AtRest, BusyOK, ReadsOK, GrantOK
  <1>7. EndOK
    BY <1>4 DEF TierInit, EndOK, AtRest
  <1> QED BY <1>3, <1>5, <1>6, <1>7 DEF TierInv

\* What Polar holds of a subscription whose event was delivered.
LEMMA BegunWasBought ==
    ASSUME TierInv, NEW e \in begun
    PROVE  /\ e \in Events /\ e[2] \in Subs
           /\ polar[e[2]].status # "none"
           /\ e[1] = "ended" => polar[e[2]].status = "ended"
  <1>1. e \in Events /\ Sent(e)
    BY DEF TierInv, TierTypeOK, DeliveredOK
  <1> QED BY <1>1, EventParts DEF Sent

\* What Polar holds of a subscription whose payment was handled.
LEMMA AckedWasBought ==
    ASSUME TierInv, NEW s \in Subs, <<"paid", s>> \in acked
    PROVE  polar[s].status # "none" /\ <<"paid", s>> \in begun
  <1>1. <<"paid", s>> \in begun
    BY DEF TierInv, TierTypeOK
  <1> QED BY <1>1, BegunWasBought

\* Whoever pays last and whose payment is handled is not before the payment at hand.
LEMMA PayerIsAtHand ==
    ASSUME TierInv, "late" \notin disorder, NEW w \in Handlers, handler[w].at # "rest", handler[w].event[1] = "paid",
           NEW s \in Subs, Paying(s), <<"paid", s>> \in acked
    PROVE  s = Of(w)
  <1>1. handler[w].event \in begun /\ \A t \in Subs : t > Of(w) => <<"paid", t>> \notin begun
    BY DEF TierInv, BusyOK, Of
  <1>2. Of(w) \in Subs /\ polar[Of(w)].status # "none"
    BY <1>1, BegunWasBought DEF Of
  <1>3. ~(s > Of(w))
    BY <1>1, AckedWasBought
  <1>4. ~(Of(w) > s)
    BY <1>2, TierAssumption DEF Paying, Subs
  <1> QED BY <1>2, <1>3, <1>4, TierAssumption DEF Subs

\* Polar's own steps.
LEMMA PolarStep ==
    ASSUME TierInv, NEW s \in Subs, Subscribe(s) \/ SubscriptionEnds(s)
    PROVE  TierInv' /\ (EndOK => EndOK')
  <1>1. /\ polar \in [Subs -> [status : {"none", "active", "ended"}, tier : Ranks]]
        /\ acked \subseteq begun /\ begun \subseteq Events
    BY DEF TierInv, TierTypeOK
  <1>2. UNCHANGED <<plan, grant, handler, begun, acked, disorder>>
    BY DEF Subscribe, SubscriptionEnds
  <1>3. /\ polar' \in [Subs -> [status : {"none", "active", "ended"}, tier : Ranks]]
        /\ polar'[s].status # "none" /\ polar[s].status # "ended"
        /\ polar[s].status # "none" => polar'[s].tier = polar[s].tier /\ polar'[s].status = "ended"
        /\ \A t \in Subs : t # s => polar'[t] = polar[t]
    BY <1>1 DEF Subscribe, SubscriptionEnds, Ranks
  <1>4. TierTypeOK'
    BY <1>2, <1>3 DEF TierInv, TierTypeOK
  <1>5. \A e \in begun : Sent(e)' /\ e[2] \in Subs /\ polar[e[2]].status # "none"
    <2>1. SUFFICES ASSUME NEW e \in begun PROVE Sent(e)' /\ e[2] \in Subs /\ polar[e[2]].status # "none"
      OBVIOUS
    <2>2. e[1] \in {"paid", "ended"} /\ e[2] \in Subs /\ Sent(e)
      BY <1>1, EventParts DEF TierInv, DeliveredOK
    <2>3. CASE e[2] = s
      BY <1>3, <2>2, <2>3 DEF Sent
    <2>4. CASE e[2] # s
      BY <1>3, <2>2, <2>4 DEF Sent
    <2> QED BY <2>3, <2>4
  <1>6. DeliveredOK'
    <2>1. grant.live => grant.grantor \in Subs /\ polar'[grant.grantor].status # "none"
      BY <1>3 DEF TierInv, DeliveredOK
    <2> QED BY <1>2, <1>5, <2>1 DEF DeliveredOK
  <1>7. \A t \in Subs : polar[t].status # "none" => polar'[t].tier = polar[t].tier
                        /\ (polar'[t].status = "active" => polar[t].status = "active")
    BY <1>3
  <1>8. \A t \in Subs : <<"paid", t>> \in acked /\ Paying(t)' => Paying(t)
    <2>1. SUFFICES ASSUME NEW t \in Subs, <<"paid", t>> \in acked, Paying(t)' PROVE Paying(t)
      OBVIOUS
    <2>2. polar[t].status = "active"
      BY <1>7, <2>1, AckedWasBought DEF Paying
    <2>3. \A u \in t + 1 .. NSubs : u \in Subs /\ polar'[u].status = "none" /\ u # s
      BY <1>3, <2>1, TierAssumption DEF Paying, Subs
    <2> QED BY <1>3, <2>2, <2>3 DEF Paying
  <1>9. PlanOK'
    <2>1. SUFFICES ASSUME "late" \notin disorder, NEW t \in Subs, Paying(t)', <<"paid", t>> \in acked
                   PROVE  Granted(t)' /\ \A h \in Handlers : handler[h].at \notin {"clearPlan", "retire"}
      BY <1>2 DEF PlanOK
    <2>2. Granted(t) /\ \A h \in Handlers : handler[h].at \notin {"clearPlan", "retire"}
      BY <1>8, <2>1 DEF TierInv, PlanOK
    <2> QED BY <1>2, <1>7, <2>1, <2>2, AckedWasBought DEF Granted
  <1>10. \A h \in Handlers : BusyOK(h)' /\ ReadsOK(h)' /\ GrantOK(h)'
    <2>1. SUFFICES ASSUME NEW h \in Handlers PROVE BusyOK(h)' /\ ReadsOK(h)' /\ GrantOK(h)'
      OBVIOUS
    <2>2. BusyOK(h) /\ ReadsOK(h) /\ GrantOK(h)
      BY DEF TierInv
    <2>3. BusyOK(h)' /\ ReadsOK(h)'
      BY <1>2, <2>2 DEF BusyOK, ReadsOK
    <2>4. handler[h].at # "rest" => Of(h) \in Subs /\ polar[Of(h)].status # "none"
      BY <1>5, <2>2 DEF BusyOK, Of
    <2>5. GrantOK(h)'
      BY <1>2, <1>7, <2>2, <2>4 DEF GrantOK, Granted, Of
    <2> QED BY <2>3, <2>5
  <1>11. EndOK => EndOK'
    <2>1. grant.live => polar'[grant.grantor].tier = polar[grant.grantor].tier
      BY <1>7 DEF TierInv, DeliveredOK
    <2> QED BY <1>2, <2>1 DEF EndOK, Of
  <1> QED BY <1>4, <1>6, <1>9, <1>10, <1>11 DEF TierInv

\* A busy handler's calls.
HandlerAct(h) ==
    \/ FencePaid(h) \/ GrantPlan(h) \/ RecordGrantor(h)
    \/ ReadPlan(h) \/ ReadRecord(h) \/ DecideRevocation(h) \/ ClearPlan(h) \/ RetireGrantor(h)

\* Every step of a handler keeps the types.
LEMMA TierTypeStep ==
    ASSUME TierTypeOK, NEW h \in Handlers,
           HandlerAct(h) \/ (\E e \in Events : Deliver(h, e)) \/ Acknowledge(h) \/ HandlerFails(h),
           handler[h].event \in Events, handler[h].at # "rest" => handler[h].event \in begun
    PROVE  TierTypeOK'
  <1>1. 1 \in Subs
    BY TierAssumption DEF Subs
  <1>2. AtRest \in [at : Steps, event : Events, unread : SUBSET Reads, plan : Ranks, grant : Grants]
    BY <1>1 DEF AtRest, Steps, Events, Ranks, FreePlan, Grants, NoGrantor
  <1>3. Of(h) \in Subs
    BY EventParts DEF Of
  <1>4. polar[Of(h)].tier \in Ranks
    BY <1>3 DEF TierTypeOK
  <1>5. CASE HandlerAct(h)
    <2>1. handler[h] \in [at : Steps, event : Events, unread : SUBSET Reads, plan : Ranks, grant : Grants]
      BY DEF TierTypeOK
    <2>2. CASE ReadPlan(h)
      BY <2>1, <2>2 DEF ReadPlan, TierTypeOK
    <2>3. CASE ReadRecord(h)
      BY <2>1, <2>3 DEF ReadRecord, TierTypeOK
    <2>4. CASE FencePaid(h) \/ DecideRevocation(h)
      BY <2>1, <2>4 DEF FencePaid, DecideRevocation, HandlerGoes, TierTypeOK, Steps
    <2>5. CASE GrantPlan(h) \/ ClearPlan(h)
      <3>1. plan' \in Ranks
        BY <2>5, <1>4 DEF GrantPlan, ClearPlan, Ranks
      <3>2. UNCHANGED <<polar, grant, begun, acked, disorder>>
            /\ \E at \in Steps : handler' = [handler EXCEPT ![h].at = at]
        BY <2>5 DEF GrantPlan, ClearPlan, HandlerGoes, Steps
      <3> QED BY <2>1, <3>1, <3>2 DEF TierTypeOK
    <2>6. CASE RecordGrantor(h) \/ RetireGrantor(h)
      <3>1. grant' \in Grants
        <4>1. grant' = [grantor |-> Of(h), live |-> TRUE] \/ grant' = [grantor |-> Of(h), live |-> FALSE]
          BY <2>6 DEF RecordGrantor, RetireGrantor
        <4>2. \A b \in BOOLEAN : [grantor |-> Of(h), live |-> b] \in Grants
          BY <1>3 DEF Grants
        <4> QED BY <4>1, <4>2
      <3>2. UNCHANGED <<polar, plan, begun, acked, disorder>>
            /\ handler' = [handler EXCEPT ![h].at = "reply"]
        BY <2>6 DEF RecordGrantor, RetireGrantor, HandlerGoes
      <3> QED BY <2>1, <3>1, <3>2 DEF TierTypeOK, Steps
    <2> QED BY <1>5, <2>2, <2>3, <2>4, <2>5, <2>6 DEF HandlerAct
  <1>6. CASE \E e \in Events : Deliver(h, e)
    <2>1. PICK e \in Events : Deliver(h, e)
      BY <1>6
    <2>2. Started(e) \in [at : Steps, event : Events, unread : SUBSET Reads, plan : Ranks, grant : Grants]
      BY <1>2 DEF Started, AtRest, Steps, Reads
    <2> QED BY <2>1, <2>2 DEF Deliver, TierTypeOK, Disorders
  <1>7. CASE Acknowledge(h)
    BY <1>2, <1>7 DEF Acknowledge, TierTypeOK
  <1>8. CASE HandlerFails(h)
    BY <1>2, <1>8 DEF HandlerFails, TierTypeOK, Disorders
  <1> QED BY <1>5, <1>6, <1>7, <1>8

\* An event that a handler is busy with was delivered.
BusyBegun == \A h \in Handlers : handler[h].at # "rest" => handler[h].event \in begun

\* However many handlers there are, all keep the types.
LEMMA AllTypesStep ==
    ASSUME TierTypeOK, BusyBegun, [TierNext]_tierVars
    PROVE  TierTypeOK' /\ BusyBegun'
  <1>1. CASE \E s \in Subs : Subscribe(s) \/ SubscriptionEnds(s)
    <2>1. PICK s \in Subs : Subscribe(s) \/ SubscriptionEnds(s)
      BY <1>1
    <2>2. polar' \in [Subs -> [status : {"none", "active", "ended"}, tier : Ranks]]
      BY <2>1 DEF Subscribe, SubscriptionEnds, TierTypeOK, Ranks
    <2> QED BY <2>1, <2>2 DEF Subscribe, SubscriptionEnds, TierTypeOK, BusyBegun
  <1>2. ASSUME NEW h \in Handlers,
               HandlerAct(h) \/ (\E e \in Events : Deliver(h, e)) \/ Acknowledge(h) \/ HandlerFails(h)
        PROVE  TierTypeOK' /\ BusyBegun'
    <2>1. handler[h].event \in Events /\ (handler[h].at # "rest" => handler[h].event \in begun)
      BY DEF TierTypeOK, BusyBegun
    <2>2. TierTypeOK'
      BY <1>2, <2>1, TierTypeStep
    <2>3. \A k \in Handlers \ {h} : handler'[k] = handler[k]
      BY <1>2 DEF TierTypeOK, HandlerAct, FencePaid, GrantPlan, RecordGrantor, ReadPlan, ReadRecord, DecideRevocation,
                  ClearPlan, RetireGrantor, HandlerGoes, Deliver, Acknowledge, HandlerFails
    <2>4. begun \subseteq begun' /\ (handler'[h].at # "rest" => handler'[h].event \in begun')
      <3>1. CASE HandlerAct(h)
        <4>1. handler'[h].event = handler[h].event /\ begun' = begun
          BY <3>1 DEF TierTypeOK, HandlerAct, FencePaid, GrantPlan, RecordGrantor, ReadPlan, ReadRecord,
                      DecideRevocation, ClearPlan, RetireGrantor, HandlerGoes
        <4>2. handler[h].at = "rest" => handler'[h].at = "rest"
          BY <3>1 DEF TierTypeOK, HandlerAct, FencePaid, GrantPlan, RecordGrantor, ReadPlan, ReadRecord,
                      DecideRevocation, ClearPlan, RetireGrantor, HandlerGoes
        <4> QED BY <2>1, <4>1, <4>2
      <3>2. CASE \E e \in Events : Deliver(h, e)
        <4>1. PICK e \in Events : Deliver(h, e)
          BY <3>2
        <4>2. Started(e).event = e
          BY DEF Started, AtRest
        <4> QED BY <4>1, <4>2 DEF Deliver, TierTypeOK
      <3>3. CASE Acknowledge(h) \/ HandlerFails(h)
        BY <3>3 DEF Acknowledge, HandlerFails, TierTypeOK, AtRest
      <3> QED BY <1>2, <3>1, <3>2, <3>3
    <2> QED BY <2>2, <2>3, <2>4 DEF BusyBegun
  <1>3. CASE UNCHANGED tierVars
    BY <1>3 DEF tierVars, TierTypeOK, BusyBegun
  <1> QED BY <1>1, <1>2, <1>3 DEF TierNext, HandlerAct

\* Polar's subscriptions, the plan, the record and the handlers keep their types, however many
\* handlers run at the same time.
THEOREM TierTypeCorrect == TierSpec => []TierTypeOK
  <1>1. TierInit => TierTypeOK /\ BusyBegun
    <2>1. TierInit => TierTypeOK
      BY TierInitInv DEF TierInv
    <2>2. TierInit => BusyBegun
      BY DEF TierInit, BusyBegun, AtRest
    <2> QED BY <2>1, <2>2
  <1> QED BY <1>1, AllTypesStep, PTL DEF TierSpec

-----------------------------------------------------------------------------
(* Any number of handlers, and payments in any order.                        *)

\* A plan that is not free is one whose payment was delivered, and so is the grantor that counts.
PlansWereBought ==
    /\ plan # FreePlan => \E s \in Subs : <<"paid", s>> \in begun /\ polar[s].tier = plan
    /\ grant.live => <<"paid", grant.grantor>> \in begun

\* What was delivered was sent, and only the handlers of payments write a grant.
GrantsArePayments ==
    /\ \A e \in begun : Sent(e)
    /\ \A h \in Handlers : handler[h].at \in {"fetch", "setPlan", "record"} => handler[h].event[1] = "paid"

\* Polar's steps leave what was paid for as it is.
LEMMA BoughtStaysBought ==
    ASSUME TierTypeOK, GrantsArePayments, PlansWereBought, NEW s \in Subs, Subscribe(s) \/ SubscriptionEnds(s)
    PROVE  GrantsArePayments' /\ PlansWereBought'
  <1>1. UNCHANGED <<plan, grant, handler, begun>>
    BY DEF Subscribe, SubscriptionEnds
  <1>2. /\ polar'[s].status # "none"
        /\ polar[s].status # "none" => polar'[s].tier = polar[s].tier /\ polar'[s].status = "ended"
        /\ \A t \in Subs : t # s => polar'[t] = polar[t]
    BY DEF Subscribe, SubscriptionEnds, TierTypeOK
  <1>3. ASSUME NEW e \in begun PROVE Sent(e)' /\ polar'[e[2]].tier = polar[e[2]].tier
    <2>1. e[2] \in Subs /\ Sent(e) /\ e[1] \in {"paid", "ended"}
      BY EventParts DEF TierTypeOK, GrantsArePayments
    <2>2. polar[e[2]].status # "none"
      BY <2>1 DEF Sent
    <2>3. polar[s].status = "active" \/ polar[s].status = "none"
      BY DEF Subscribe, SubscriptionEnds
    <2> QED BY <1>2, <2>1, <2>2, <2>3 DEF Sent
  <1>4. \A t \in Subs : <<"paid", t>> \in begun => polar'[t].tier = polar[t].tier
    BY <1>3
  <1> QED BY <1>1, <1>3, <1>4 DEF GrantsArePayments, PlansWereBought

\* Of the handlers' steps, those of a payment alone write a plan or a grantor.
LEMMA HandlersGrantWhatWasBought ==
    ASSUME TierTypeOK, BusyBegun, GrantsArePayments, PlansWereBought, NEW h \in Handlers,
           HandlerAct(h) \/ (\E e \in Events : Deliver(h, e)) \/ Acknowledge(h) \/ HandlerFails(h)
    PROVE  GrantsArePayments' /\ PlansWereBought'
  <1> DEFINE GrantSteps == {"fetch", "setPlan", "record"}
  <1>1. polar' = polar /\ \A k \in Handlers \ {h} : handler'[k] = handler[k]
    BY DEF TierTypeOK, HandlerAct, FencePaid, GrantPlan, RecordGrantor, ReadPlan, ReadRecord, DecideRevocation,
           ClearPlan, RetireGrantor, HandlerGoes, Deliver, Acknowledge, HandlerFails
  <1>2. handler[h].at \in GrantSteps =>
            /\ handler[h].event = <<"paid", Of(h)>> /\ Of(h) \in Subs /\ handler[h].event \in begun
    <2>1. handler[h].event \in Events
      BY DEF TierTypeOK
    <2> QED BY <2>1, EventParts DEF GrantsArePayments, BusyBegun, Of
  <1>3. CASE HandlerAct(h)
    <2>1. begun' = begun /\ handler'[h].event = handler[h].event
      BY <1>3 DEF TierTypeOK, HandlerAct, FencePaid, GrantPlan, RecordGrantor, ReadPlan, ReadRecord,
                  DecideRevocation, ClearPlan, RetireGrantor, HandlerGoes
    <2>2. handler'[h].at \in GrantSteps => handler[h].at \in GrantSteps
      BY <1>3 DEF TierTypeOK, HandlerAct, FencePaid, GrantPlan, RecordGrantor, ReadPlan, ReadRecord,
                  DecideRevocation, ClearPlan, RetireGrantor, HandlerGoes
    <2>3. GrantsArePayments'
      BY <1>1, <2>1, <2>2 DEF GrantsArePayments, Sent
    <2>4. CASE GrantPlan(h)
      <3>1. plan' = polar[Of(h)].tier /\ grant' = grant /\ handler[h].at = "setPlan"
        BY <2>4 DEF GrantPlan, HandlerGoes
      <3> QED BY <1>1, <1>2, <2>1, <2>3, <3>1 DEF PlansWereBought
    <2>5. CASE RecordGrantor(h)
      <3>1. plan' = plan /\ grant'.grantor = Of(h) /\ handler[h].at = "record"
        BY <2>5 DEF RecordGrantor, HandlerGoes
      <3> QED BY <1>1, <1>2, <2>1, <2>3, <3>1 DEF PlansWereBought
    <2>6. CASE ClearPlan(h) \/ RetireGrantor(h)
      <3>1. (plan' = plan \/ plan' = FreePlan) /\ (grant' = grant \/ ~grant'.live)
        BY <2>6 DEF ClearPlan, RetireGrantor
      <3> QED BY <1>1, <2>1, <2>3, <3>1 DEF PlansWereBought
    <2>7. CASE FencePaid(h) \/ ReadPlan(h) \/ ReadRecord(h) \/ DecideRevocation(h)
      <3>1. plan' = plan /\ grant' = grant
        BY <2>7 DEF FencePaid, ReadPlan, ReadRecord, DecideRevocation
      <3> QED BY <1>1, <2>1, <2>3, <3>1 DEF PlansWereBought
    <2> QED BY <1>3, <2>4, <2>5, <2>6, <2>7 DEF HandlerAct
  <1>4. CASE \E e \in Events : Deliver(h, e)
    <2>1. PICK e \in Events : Deliver(h, e)
      BY <1>4
    <2>2. /\ Sent(e) /\ begun' = begun \cup {e} /\ plan' = plan /\ grant' = grant
          /\ handler'[h] = Started(e)
      BY <2>1 DEF Deliver, TierTypeOK
    <2>3. Started(e).at \in GrantSteps => Started(e).event[1] = "paid"
      BY DEF Started, AtRest
    <2> QED BY <1>1, <2>2, <2>3 DEF GrantsArePayments, PlansWereBought, Sent
  <1>5. CASE Acknowledge(h) \/ HandlerFails(h)
    <2>1. handler'[h] = AtRest /\ begun' = begun /\ plan' = plan /\ grant' = grant
      BY <1>5 DEF Acknowledge, HandlerFails, TierTypeOK
    <2>2. AtRest.at \notin GrantSteps
      BY DEF AtRest
    <2> QED BY <1>1, <2>1, <2>2 DEF GrantsArePayments, PlansWereBought, Sent
  <1> QED BY <1>3, <1>4, <1>5

\* However many handlers overlap, however late and often events come and wherever handlers fail, the
\* organization is never on a plan that nobody bought.
THEOREM PlansAreBought == TierSpec => []PlansWereBought
  <1> DEFINE BInv == TierTypeOK /\ BusyBegun /\ GrantsArePayments /\ PlansWereBought
  <1>1. TierInit => BInv
    <2> SUFFICES ASSUME TierInit PROVE BInv
      OBVIOUS
    <2>1. TierTypeOK
      BY TierInitInv DEF TierInv
    <2>2. \A h \in Handlers : handler[h].at = "rest"
      BY DEF TierInit, AtRest
    <2>3. begun = {} /\ plan = FreePlan /\ ~grant.live
      BY DEF TierInit, AtRest
    <2> QED BY <2>1, <2>2, <2>3 DEF BusyBegun, GrantsArePayments, PlansWereBought
  <1>2. BInv /\ [TierNext]_tierVars => BInv'
    <2> SUFFICES ASSUME BInv, [TierNext]_tierVars PROVE BInv'
      OBVIOUS
    <2>1. TierTypeOK' /\ BusyBegun'
      BY AllTypesStep
    <2>2. CASE UNCHANGED tierVars
      BY <2>1, <2>2 DEF tierVars, GrantsArePayments, PlansWereBought, Sent
    <2>3. ASSUME NEW s \in Subs, Subscribe(s) \/ SubscriptionEnds(s) PROVE BInv'
      BY <2>1, <2>3, BoughtStaysBought
    <2>4. ASSUME NEW h \in Handlers,
                 HandlerAct(h) \/ (\E e \in Events : Deliver(h, e)) \/ Acknowledge(h) \/ HandlerFails(h)
          PROVE  BInv'
      BY <2>1, <2>4, HandlersGrantWhatWasBought
    <2> QED BY <2>2, <2>3, <2>4 DEF TierNext, HandlerAct
  <1> HIDE DEF BInv
  <1>3. BInv => PlansWereBought
    BY DEF BInv
  <1> QED BY <1>1, <1>2, <1>3, PTL DEF TierSpec

-----------------------------------------------------------------------------
(* One handler at a time.                                                    *)

\* A payment is delivered before those of later subscriptions; an end has everything to read.
LEMMA DeliverStep ==
    ASSUME TierInv, NEW w \in Handlers, NEW e \in Events, Deliver(w, e)
    PROVE  OwnInv(w)' /\ (EndOf(w) => EndOf(w)')
  <1>1. TierTypeOK'
    BY TierTypeStep DEF TierInv, TierTypeOK, Deliver
  <1>2. /\ UNCHANGED <<polar, plan, grant, acked>> /\ begun' = begun \cup {e}
        /\ handler'[w] = Started(e) /\ Sent(e)
        /\ disorder \subseteq disorder' /\ ("torn" \in disorder' => "torn" \in disorder)
        /\ e[1] = "paid" /\ "late" \notin disorder' =>
               \A s \in Subs : s > e[2] => <<"paid", s>> \notin begun
    BY DEF TierInv, TierTypeOK, Deliver, Late
  <1>3. e[1] \in {"paid", "ended"} /\ e[2] \in Subs /\ e = <<e[1], e[2]>>
    BY EventParts
  <1>4. DeliveredOK'
    BY <1>2 DEF TierInv, DeliveredOK, Sent
  <1>5. /\ handler'[w].event = e
        /\ e[1] = "paid" => handler'[w].at = "fetch" /\ handler'[w].unread = {}
        /\ e[1] = "ended" => handler'[w].at = "decide" /\ handler'[w].unread = Reads
    BY <1>2, <1>3 DEF Started, AtRest
  <1>6. e[1] = "paid" /\ "late" \notin disorder' => \A s \in Subs : s > e[2] => <<"paid", s>> \notin begun'
    <2>1. SUFFICES ASSUME e[1] = "paid", "late" \notin disorder', NEW s \in Subs, s > e[2]
                   PROVE  <<"paid", s>> \notin begun'
      OBVIOUS
    <2>2. <<"paid", s>> # e
      BY <1>3, <2>1, TierAssumption DEF Subs
    <2> QED BY <1>2, <2>1, <2>2
  <1>7. BusyOK(w)' /\ ReadsOK(w)' /\ GrantOK(w)'
    <2>1. BusyOK(w)'
      BY <1>2, <1>3, <1>5, <1>6 DEF BusyOK, PaidSteps, EndedSteps
    <2>2. ReadsOK(w)'
      BY <1>3, <1>5 DEF ReadsOK, Reads
    <2>3. GrantOK(w)'
      BY <1>5 DEF GrantOK
    <2> QED BY <2>1, <2>2, <2>3
  <1>8. "late" \notin disorder' => \A s \in Subs : Paying(s)' /\ <<"paid", s>> \in acked' =>
               Granted(s)' /\ handler'[w].at \notin {"clearPlan", "retire"}
    BY <1>2, <1>3, <1>5 DEF TierInv, PlanOK, Paying, Granted
  <1>9. EndOf(w) => EndOf(w)'
    BY <1>2, <1>3, <1>5 DEF EndOf, Deliver, Of
  <1> QED BY <1>1, <1>4, <1>7, <1>8, <1>9 DEF OwnInv, PlanOf

\* Who passes the fence is active, so its end was not sent.
LEMMA FencePaidStep ==
    ASSUME TierInv, NEW w \in Handlers, FencePaid(w)
    PROVE  OwnInv(w)' /\ (EndOf(w) => EndOf(w)')
  <1>1. /\ UNCHANGED <<polar, plan, grant, begun, acked, disorder>>
        /\ handler[w].at = "fetch" /\ handler[w].unread = {}
        /\ handler'[w] = [handler[w] EXCEPT !.at = IF Entitles(Of(w)) THEN "setPlan" ELSE "reply"]
    BY DEF TierInv, TierTypeOK, FencePaid, HandlerGoes, BusyOK
  <1>2. handler[w].event \in Events /\ handler[w].event \in begun /\ handler[w].event[1] = "paid"
    BY <1>1, EventParts DEF TierInv, TierTypeOK, BusyOK, EndedSteps
  <1>3. TierTypeOK'
    BY <1>2, TierTypeStep DEF TierInv, HandlerAct
  <1>4. /\ handler'[w].event = handler[w].event /\ handler'[w].unread = {} /\ Of(w)' = Of(w)
        /\ handler'[w].at = IF Entitles(Of(w)) THEN "setPlan" ELSE "reply"
    BY <1>1 DEF TierInv, TierTypeOK, Of
  <1>5. DeliveredOK'
    BY <1>1 DEF TierInv, DeliveredOK, Sent
  <1>6. BusyOK(w)' /\ ReadsOK(w)' /\ GrantOK(w)'
    BY <1>1, <1>2, <1>4 DEF TierInv, BusyOK, ReadsOK, GrantOK, PaidSteps, Entitles
  <1>7. "late" \notin disorder => \A s \in Subs : Paying(s)' /\ <<"paid", s>> \in acked' =>
               Granted(s)' /\ handler'[w].at \notin {"clearPlan", "retire"}
    BY <1>1, <1>4 DEF TierInv, PlanOK, Paying, Granted
  <1>8. EndOf(w) => EndOf(w)'
    <2>1. handler'[w].at = "setPlan" => <<"ended", Of(w)>> \notin begun
      <3>1. <<"ended", Of(w)>> \in begun => polar[Of(w)].status = "ended"
        BY BegunWasBought
      <3> QED BY <1>4, <3>1 DEF Entitles
    <2> QED BY <1>1, <1>2, <1>4, <2>1 DEF EndOf
  <1> QED BY <1>1, <1>3, <1>5, <1>6, <1>7, <1>8 DEF OwnInv, PlanOf

\* The first write of a grant: if somebody holds the plan already, it is the payer at hand.
LEMMA GrantPlanStep ==
    ASSUME TierInv, NEW w \in Handlers, GrantPlan(w)
    PROVE  OwnInv(w)' /\ (EndOf(w) => EndOf(w)')
  <1>1. /\ UNCHANGED <<polar, grant, begun, acked, disorder>> /\ plan' = polar[Of(w)].tier
        /\ handler[w].at = "setPlan" /\ handler[w].unread = {}
        /\ handler'[w] = [handler[w] EXCEPT !.at = "record"]
    BY DEF TierInv, TierTypeOK, GrantPlan, HandlerGoes, BusyOK
  <1>2. handler[w].event \in Events /\ handler[w].event \in begun /\ handler[w].event[1] = "paid"
    BY <1>1, EventParts DEF TierInv, TierTypeOK, BusyOK, EndedSteps
  <1>3. TierTypeOK'
    BY <1>2, TierTypeStep DEF TierInv, HandlerAct
  <1>4. /\ handler'[w].event = handler[w].event /\ handler'[w].unread = {} /\ Of(w)' = Of(w)
        /\ handler'[w].at = "record"
    BY <1>1 DEF TierInv, TierTypeOK, Of
  <1>5. DeliveredOK'
    BY <1>1 DEF TierInv, DeliveredOK, Sent
  <1>6. BusyOK(w)' /\ ReadsOK(w)' /\ GrantOK(w)'
    BY <1>1, <1>2, <1>4 DEF TierInv, BusyOK, ReadsOK, GrantOK, PaidSteps
  <1>7. ASSUME "late" \notin disorder, NEW s \in Subs, Paying(s)', <<"paid", s>> \in acked'
        PROVE  Granted(s)' /\ handler'[w].at \notin {"clearPlan", "retire"}
    <2>1. Paying(s) /\ <<"paid", s>> \in acked
      BY <1>1, <1>7 DEF Paying
    <2>2. s = Of(w)
      BY <1>1, <1>2, <1>7, <2>1, PayerIsAtHand
    <2>3. Granted(s)
      BY <1>7, <2>1 DEF TierInv, PlanOK
    <2> QED BY <1>1, <1>4, <2>2, <2>3 DEF Granted
  <1>8. EndOf(w) => EndOf(w)'
    BY <1>1, <1>2, <1>4 DEF EndOf
  <1> QED BY <1>1, <1>3, <1>5, <1>6, <1>7, <1>8 DEF OwnInv, PlanOf

\* The second write completes the grant.
LEMMA RecordGrantorStep ==
    ASSUME TierInv, NEW w \in Handlers, RecordGrantor(w)
    PROVE  OwnInv(w)' /\ (EndOf(w) => EndOf(w)')
  <1>1. /\ UNCHANGED <<polar, plan, begun, acked, disorder>> /\ grant' = [grantor |-> Of(w), live |-> TRUE]
        /\ handler[w].at = "record" /\ handler[w].unread = {}
        /\ handler'[w] = [handler[w] EXCEPT !.at = "reply"]
    BY DEF TierInv, TierTypeOK, RecordGrantor, HandlerGoes, BusyOK
  <1>2. handler[w].event \in Events /\ handler[w].event \in begun /\ handler[w].event[1] = "paid"
    BY <1>1, EventParts DEF TierInv, TierTypeOK, BusyOK, EndedSteps
  <1>3. TierTypeOK'
    BY <1>2, TierTypeStep DEF TierInv, HandlerAct
  <1>4. /\ handler'[w].event = handler[w].event /\ handler'[w].unread = {} /\ Of(w)' = Of(w)
        /\ handler'[w].at = "reply"
    BY <1>1 DEF TierInv, TierTypeOK, Of
  <1>5. DeliveredOK'
    BY <1>1, <1>2, BegunWasBought DEF TierInv, DeliveredOK, Sent, Of
  <1>6. plan = polar[Of(w)].tier
    BY <1>1, <1>2 DEF TierInv, GrantOK
  <1>7. BusyOK(w)' /\ ReadsOK(w)' /\ GrantOK(w)'
    BY <1>1, <1>2, <1>4, <1>6 DEF TierInv, BusyOK, ReadsOK, GrantOK, PaidSteps, Granted
  <1>8. ASSUME "late" \notin disorder, NEW s \in Subs, Paying(s)', <<"paid", s>> \in acked'
        PROVE  Granted(s)' /\ handler'[w].at \notin {"clearPlan", "retire"}
    <2>1. Paying(s) /\ <<"paid", s>> \in acked
      BY <1>1, <1>8 DEF Paying
    <2>2. s = Of(w)
      BY <1>1, <1>2, <1>8, <2>1, PayerIsAtHand
    <2> QED BY <1>1, <1>4, <1>6, <2>2 DEF Granted
  <1>9. EndOf(w) => EndOf(w)'
    <2>1. acked \subseteq begun
      BY DEF TierInv, TierTypeOK
    <2> QED BY <1>1, <1>2, <1>4, <1>6, <2>1 DEF EndOf
  <1> QED BY <1>1, <1>3, <1>5, <1>7, <1>8, <1>9 DEF OwnInv, PlanOf

\* Plans can be compared.
LEMMA TiersAreRanks ==
    ASSUME TierInv, NEW s \in Subs
    PROVE  polar[s].tier \in Nat
  <1>1. polar[s].tier \in Ranks
    BY DEF TierInv, TierTypeOK
  <1>2. Ranks \subseteq Nat
    BY TierAssumption DEF Ranks, FreePlan
  <1> QED BY <1>1, <1>2

\* A read is of what is there, and stays so.
LEMMA ReadStep ==
    ASSUME TierInv, NEW w \in Handlers, ReadPlan(w) \/ ReadRecord(w)
    PROVE  OwnInv(w)' /\ (EndOf(w) => EndOf(w)')
  <1>1. /\ UNCHANGED <<polar, plan, grant, begun, acked, disorder>>
        /\ handler[w].unread # {} /\ handler[w].at = "decide"
        /\ handler'[w].event = handler[w].event /\ handler'[w].at = "decide"
    BY DEF TierInv, TierTypeOK, ReadPlan, ReadRecord, BusyOK
  <1>2. handler[w].event \in Events /\ handler[w].event \in begun /\ handler[w].event[1] = "ended"
    BY <1>1, EventParts DEF TierInv, TierTypeOK, BusyOK, PaidSteps
  <1>3. TierTypeOK'
    BY <1>2, TierTypeStep DEF TierInv, HandlerAct
  <1>4. DeliveredOK'
    BY <1>1 DEF TierInv, DeliveredOK, Sent
  <1>5. ReadsOK(w)'
    <2>1. ReadsOK(w) /\ handler[w].unread \subseteq Reads
      BY DEF TierInv, TierTypeOK
    <2>2. CASE ReadPlan(w)
      <3>1. handler'[w].plan = plan /\ handler'[w].grant = handler[w].grant
            /\ handler'[w].unread = handler[w].unread \ {"plan"}
        BY <2>2 DEF TierInv, TierTypeOK, ReadPlan
      <3> QED BY <1>1, <2>1, <3>1 DEF ReadsOK
    <2>3. CASE ReadRecord(w)
      <3>1. handler'[w].grant = grant /\ handler'[w].plan = handler[w].plan
            /\ handler'[w].unread = handler[w].unread \ {"record"}
        BY <2>3 DEF TierInv, TierTypeOK, ReadRecord
      <3> QED BY <1>1, <2>1, <3>1 DEF ReadsOK
    <2> QED BY <2>2, <2>3
  <1>6. BusyOK(w)' /\ GrantOK(w)'
    BY <1>1, <1>2 DEF BusyOK, GrantOK, EndedSteps
  <1>7. "late" \notin disorder => \A s \in Subs : Paying(s)' /\ <<"paid", s>> \in acked' =>
               Granted(s)' /\ handler'[w].at \notin {"clearPlan", "retire"}
    BY <1>1 DEF TierInv, PlanOK, Paying, Granted
  <1>8. EndOf(w) => EndOf(w)'
    BY <1>1 DEF EndOf
  <1> QED BY <1>1, <1>3, <1>4, <1>5, <1>6, <1>7, <1>8 DEF OwnInv, PlanOf

\* The one decision: who revokes has ended, so it is not who pays last.
LEMMA DecideStep ==
    ASSUME TierInv, NEW w \in Handlers, DecideRevocation(w)
    PROVE  OwnInv(w)' /\ (EndOf(w) => EndOf(w)')
  <1> DEFINE keeps == Replaced(Of(w), grant) \/ Overrides(Of(w), plan)
  <1>1. /\ UNCHANGED <<polar, plan, grant, begun, acked, disorder>>
        /\ handler[w].at = "decide" /\ handler[w].unread = {}
        /\ handler[w].plan = plan /\ handler[w].grant = grant
        /\ handler' = [handler EXCEPT ![w].at = IF Replaced(Of(w), handler[w].grant)
                                                   \/ Overrides(Of(w), handler[w].plan)
                                                THEN "reply" ELSE "clearPlan"]
    BY DEF TierInv, DecideRevocation, HandlerGoes, ReadsOK
  <1>2. handler[w].event \in Events /\ handler[w].event \in begun /\ handler[w].event[1] = "ended"
    BY <1>1, EventParts DEF TierInv, TierTypeOK, BusyOK, PaidSteps
  <1>3. TierTypeOK'
    BY <1>2, TierTypeStep DEF TierInv, HandlerAct
  <1>4. /\ handler'[w].event = handler[w].event /\ handler'[w].unread = {} /\ Of(w)' = Of(w)
        /\ handler'[w].at = IF keeps THEN "reply" ELSE "clearPlan"
    BY <1>1 DEF TierInv, TierTypeOK, Of
  <1>5. DeliveredOK'
    BY <1>1 DEF TierInv, DeliveredOK, Sent
  <1>6. BusyOK(w)' /\ ReadsOK(w)' /\ GrantOK(w)'
    BY <1>1, <1>2, <1>4 DEF BusyOK, ReadsOK, GrantOK, EndedSteps
  <1>7. Of(w) \in Subs /\ polar[Of(w)].status = "ended"
    BY <1>2, BegunWasBought DEF Of
  <1>8. ASSUME "late" \notin disorder, NEW s \in Subs, Paying(s)', <<"paid", s>> \in acked'
        PROVE  Granted(s)' /\ handler'[w].at \notin {"clearPlan", "retire"}
    <2>1. Paying(s) /\ <<"paid", s>> \in acked
      BY <1>1, <1>8 DEF Paying
    <2>2. Granted(s)
      BY <1>8, <2>1 DEF TierInv, PlanOK
    <2>3. s # Of(w)
      BY <1>7, <2>1 DEF Paying
    <2>4. keeps
      BY <2>2, <2>3 DEF Granted, Replaced
    <2> QED BY <1>1, <1>4, <2>2, <2>4 DEF Granted
  <1>9. EndOf(w) => EndOf(w)'
    <2>1. SUFFICES ASSUME EndOf(w), "torn" \notin disorder, handler'[w].at = "reply", grant.live,
                          grant.grantor = Of(w)
                   PROVE  FALSE
      <3>1. EndOf(w) /\ ~(handler'[w].at = "reply" /\ grant.live /\ grant.grantor = Of(w)) => EndOf(w)'
        BY <1>1, <1>4 DEF EndOf
      <3> QED BY <1>1, <2>1, <3>1 DEF EndOf
    <2>2. plan = FreePlan \/ plan = polar[Of(w)].tier
      BY <1>1, <2>1 DEF EndOf
    <2>3. polar[Of(w)].tier \in Nat
      BY <1>7, TiersAreRanks
    <2>4. ~Overrides(Of(w), plan)
      BY <2>2, <2>3 DEF Overrides, FreePlan
    <2>5. ~keeps
      BY <2>1, <2>4 DEF Replaced
    <2> QED BY <1>4, <2>1, <2>5
  <1> QED BY <1>1, <1>3, <1>5, <1>6, <1>8, <1>9 DEF OwnInv, PlanOf

\* The plan is cleared when nobody who pays holds it.
LEMMA ClearPlanStep ==
    ASSUME TierInv, NEW w \in Handlers, ClearPlan(w)
    PROVE  OwnInv(w)' /\ (EndOf(w) => EndOf(w)')
  <1>1. /\ UNCHANGED <<polar, grant, begun, acked, disorder>> /\ plan' = FreePlan
        /\ handler[w].at = "clearPlan" /\ handler[w].unread = {}
        /\ handler' = [handler EXCEPT ![w].at = "retire"]
    BY DEF TierInv, ClearPlan, HandlerGoes, BusyOK
  <1>2. handler[w].event \in Events /\ handler[w].event \in begun /\ handler[w].event[1] = "ended"
    BY <1>1, EventParts DEF TierInv, TierTypeOK, BusyOK, PaidSteps
  <1>3. TierTypeOK'
    BY <1>2, TierTypeStep DEF TierInv, HandlerAct
  <1>4. handler'[w].event = handler[w].event /\ handler'[w].unread = {} /\ handler'[w].at = "retire"
    BY <1>1 DEF TierInv, TierTypeOK
  <1>5. DeliveredOK'
    BY <1>1 DEF TierInv, DeliveredOK, Sent
  <1>6. BusyOK(w)' /\ ReadsOK(w)' /\ GrantOK(w)'
    BY <1>1, <1>2, <1>4 DEF BusyOK, ReadsOK, GrantOK, EndedSteps
  <1>7. "late" \notin disorder => \A s \in Subs : ~(Paying(s)' /\ <<"paid", s>> \in acked')
    BY <1>1 DEF TierInv, PlanOK, Paying
  <1>8. EndOf(w) => EndOf(w)'
    BY <1>1, <1>4 DEF EndOf
  <1> QED BY <1>1, <1>3, <1>5, <1>6, <1>7, <1>8 DEF OwnInv, PlanOf

\* The record of whoever pays is not retired.
LEMMA RetireStep ==
    ASSUME TierInv, NEW w \in Handlers, RetireGrantor(w)
    PROVE  OwnInv(w)' /\ (EndOf(w) => EndOf(w)')
  <1>1. /\ UNCHANGED <<polar, plan, begun, acked, disorder>> /\ grant' = [grantor |-> Of(w), live |-> FALSE]
        /\ handler[w].at = "retire" /\ handler[w].unread = {}
        /\ handler' = [handler EXCEPT ![w].at = "reply"]
    BY DEF TierInv, RetireGrantor, HandlerGoes, BusyOK
  <1>2. handler[w].event \in Events /\ handler[w].event \in begun /\ handler[w].event[1] = "ended"
    BY <1>1, EventParts DEF TierInv, TierTypeOK, BusyOK, PaidSteps
  <1>3. TierTypeOK'
    BY <1>2, TierTypeStep DEF TierInv, HandlerAct
  <1>4. handler'[w].event = handler[w].event /\ handler'[w].unread = {} /\ handler'[w].at = "reply"
    BY <1>1 DEF TierInv, TierTypeOK
  <1>5. DeliveredOK'
    BY <1>1 DEF TierInv, DeliveredOK, Sent
  <1>6. BusyOK(w)' /\ ReadsOK(w)' /\ GrantOK(w)'
    BY <1>1, <1>2, <1>4 DEF BusyOK, ReadsOK, GrantOK, EndedSteps
  <1>7. "late" \notin disorder => \A s \in Subs : ~(Paying(s)' /\ <<"paid", s>> \in acked')
    BY <1>1 DEF TierInv, PlanOK, Paying
  <1>8. EndOf(w) => EndOf(w)'
    BY <1>1, <1>4 DEF EndOf
  <1> QED BY <1>1, <1>3, <1>5, <1>6, <1>7, <1>8 DEF OwnInv, PlanOf

\* An acknowledged payment is granted in full; an acknowledged end leaves no live record of its own.
LEMMA AcknowledgeStep ==
    ASSUME TierInv, NEW w \in Handlers, Acknowledge(w)
    PROVE  OwnInv(w)' /\ (EndOf(w) => EndOf(w)')
  <1>1. /\ UNCHANGED <<polar, plan, grant, begun, disorder>> /\ acked' = acked \cup {handler[w].event}
        /\ handler[w].at = "reply" /\ handler'[w] = AtRest
    BY DEF TierInv, TierTypeOK, Acknowledge
  <1>2. handler[w].event \in Events /\ handler[w].event \in begun
    BY <1>1 DEF TierInv, TierTypeOK, BusyOK
  <1>3. TierTypeOK'
    BY <1>2, TierTypeStep DEF TierInv
  <1>4. handler'[w].at = "rest" /\ handler'[w].unread = {}
    BY <1>1 DEF AtRest
  <1>5. DeliveredOK'
    BY <1>1 DEF TierInv, DeliveredOK, Sent
  <1>6. BusyOK(w)' /\ ReadsOK(w)' /\ GrantOK(w)'
    BY <1>4 DEF BusyOK, ReadsOK, GrantOK
  <1>7. ASSUME "late" \notin disorder, NEW s \in Subs, Paying(s)', <<"paid", s>> \in acked'
        PROVE  Granted(s)' /\ handler'[w].at \notin {"clearPlan", "retire"}
    <2>1. Paying(s) /\ (<<"paid", s>> \in acked \/ <<"paid", s>> = handler[w].event)
      BY <1>1, <1>7 DEF Paying
    <2>2. CASE <<"paid", s>> \in acked
      BY <1>1, <1>4, <1>7, <2>1, <2>2 DEF TierInv, PlanOK, Granted
    <2>3. CASE <<"paid", s>> = handler[w].event
      <3>1. handler[w].event[1] = "paid" /\ Of(w) = s
        BY <2>3 DEF Of
      <3>2. Granted(s)
        BY <1>1, <2>1, <3>1 DEF TierInv, GrantOK, Paying
      <3> QED BY <1>1, <1>4, <3>2 DEF Granted
    <2> QED BY <2>1, <2>2, <2>3
  <1>8. EndOf(w) => EndOf(w)'
    <2>1. SUFFICES ASSUME EndOf(w), "torn" \notin disorder PROVE EndOf(w)'
      BY <1>1 DEF EndOf
    <2>2. plan = FreePlan \/ (grant.live /\ plan = polar[grant.grantor].tier)
      BY <1>1, <2>1 DEF EndOf
    <2>3. grant.live => <<"ended", grant.grantor>> \notin acked'
      <3>1. SUFFICES ASSUME grant.live, <<"ended", grant.grantor>> = handler[w].event PROVE FALSE
        BY <1>1, <2>1 DEF EndOf
      <3>2. handler[w].event[1] = "ended" /\ Of(w) = grant.grantor
        BY <3>1 DEF Of
      <3> QED BY <1>1, <2>1, <3>1, <3>2 DEF EndOf
    <2> QED BY <1>1, <1>4, <2>2, <2>3 DEF EndOf
  <1> QED BY <1>1, <1>3, <1>5, <1>6, <1>7, <1>8 DEF OwnInv, PlanOf

\* A failure leaves what was written, and says so if that was half a grant.
LEMMA FailStep ==
    ASSUME TierInv, NEW w \in Handlers, HandlerFails(w)
    PROVE  OwnInv(w)' /\ (EndOf(w) => EndOf(w)')
  <1>1. /\ UNCHANGED <<polar, plan, grant, begun, acked>>
        /\ disorder' = disorder \cup (IF handler[w].at = "record" THEN {"torn"} ELSE {})
        /\ handler[w].at # "rest" /\ handler'[w] = AtRest
    BY DEF TierInv, TierTypeOK, HandlerFails
  <1>2. handler[w].event \in Events /\ handler[w].event \in begun
    BY <1>1 DEF TierInv, TierTypeOK, BusyOK
  <1>3. TierTypeOK'
    BY <1>2, TierTypeStep DEF TierInv
  <1>4. handler'[w].at = "rest" /\ handler'[w].unread = {}
    BY <1>1 DEF AtRest
  <1>5. DeliveredOK'
    BY <1>1 DEF TierInv, DeliveredOK, Sent
  <1>6. BusyOK(w)' /\ ReadsOK(w)' /\ GrantOK(w)'
    BY <1>4 DEF BusyOK, ReadsOK, GrantOK
  <1>7. "late" \notin disorder => \A s \in Subs : Paying(s)' /\ <<"paid", s>> \in acked' =>
               Granted(s)' /\ handler'[w].at \notin {"clearPlan", "retire"}
    BY <1>1, <1>4 DEF TierInv, PlanOK, Paying, Granted
  <1>8. EndOf(w) => EndOf(w)'
    BY <1>1, <1>4 DEF EndOf
  <1> QED BY <1>1, <1>3, <1>5, <1>6, <1>7, <1>8 DEF OwnInv, PlanOf

\* A handler's step leaves the others as they are.
LEMMA OthersStay ==
    ASSUME TierTypeOK, NEW h \in Handlers,
           HandlerAct(h) \/ (\E e \in Events : Deliver(h, e)) \/ Acknowledge(h) \/ HandlerFails(h)
    PROVE  \A k \in Handlers \ {h} : handler'[k] = handler[k]
  BY DEF TierTypeOK, HandlerAct, FencePaid, GrantPlan, RecordGrantor, ReadPlan, ReadRecord, DecideRevocation,
         ClearPlan, RetireGrantor, HandlerGoes, Deliver, Acknowledge, HandlerFails

\* While the others rest, what its own step keeps is what all steps keep.
LEMMA AloneInv ==
    ASSUME TierInv, NEW w \in Handlers, Alone(w), \A k \in Handlers \ {w} : handler'[k] = handler[k],
           OwnInv(w)', EndOf(w) => EndOf(w)'
    PROVE  TierInv' /\ OneBusy' /\ (EndOK => EndOK')
  <1>1. \A k \in Handlers \ {w} : handler[k].at = "rest" /\ handler'[k].at = "rest"
    BY DEF Alone
  <1>2. \A k \in Handlers \ {w} : BusyOK(k)' /\ ReadsOK(k)' /\ GrantOK(k)'
    BY <1>1 DEF TierInv, BusyOK, ReadsOK, GrantOK
  <1>3. PlanOK'
    BY <1>1 DEF OwnInv, PlanOf, PlanOK
  <1>4. TierInv'
    BY <1>2, <1>3 DEF OwnInv, TierInv
  <1>5. EndOK => EndOf(w)
    BY <1>1 DEF EndOK, EndOf
  <1>6. EndOf(w)' => EndOK'
    BY <1>1 DEF EndOK, EndOf
  <1> QED BY <1>1, <1>4, <1>5, <1>6 DEF OneBusy

\* Every step keeps both, unless handlers overlap.
LEMMA TierStep ==
    ASSUME TierInv, OneBusy, [TierNext]_tierVars, "overlap" \notin disorder'
    PROVE  TierInv' /\ OneBusy' /\ (EndOK => EndOK')
  <1>1. CASE UNCHANGED tierVars
    BY <1>1 DEF tierVars, TierInv, TierTypeOK, DeliveredOK, Sent, PlanOK, Paying, Granted, BusyOK, ReadsOK,
                GrantOK, EndOK, Of, OneBusy
  <1>2. CASE \E s \in Subs : Subscribe(s) \/ SubscriptionEnds(s)
    BY <1>2, PolarStep DEF Subscribe, SubscriptionEnds, OneBusy
  <1>3. ASSUME NEW w \in Handlers,
               HandlerAct(w) \/ (\E e \in Events : Deliver(w, e)) \/ Acknowledge(w) \/ HandlerFails(w)
        PROVE  TierInv' /\ OneBusy' /\ (EndOK => EndOK')
    <2>1. \A k \in Handlers \ {w} : handler'[k] = handler[k]
      BY <1>3, OthersStay DEF TierInv
    <2>2. Alone(w)
      <3>1. CASE \E e \in Events : Deliver(w, e)
        BY <3>1 DEF Deliver, Overlaps, Alone
      <3>2. CASE HandlerAct(w) \/ Acknowledge(w) \/ HandlerFails(w)
        <4>1. handler[w].at # "rest"
          BY <3>2 DEF HandlerAct, FencePaid, GrantPlan, RecordGrantor, ReadPlan, ReadRecord, DecideRevocation,
                      ClearPlan, RetireGrantor, HandlerGoes, Acknowledge, HandlerFails, TierInv, BusyOK
        <4> QED BY <4>1 DEF OneBusy, Alone
      <3> QED BY <1>3, <3>1, <3>2
    <2>3. OwnInv(w)' /\ (EndOf(w) => EndOf(w)')
      <3>1. CASE \E e \in Events : Deliver(w, e)
        BY <3>1, DeliverStep
      <3>2. CASE FencePaid(w) \/ GrantPlan(w) \/ RecordGrantor(w)
        BY <3>2, FencePaidStep, GrantPlanStep, RecordGrantorStep
      <3>3. CASE ReadPlan(w) \/ ReadRecord(w) \/ DecideRevocation(w)
        BY <3>3, ReadStep, DecideStep
      <3>4. CASE ClearPlan(w) \/ RetireGrantor(w)
        BY <3>4, ClearPlanStep, RetireStep
      <3>5. CASE Acknowledge(w) \/ HandlerFails(w)
        BY <3>5, AcknowledgeStep, FailStep
      <3> QED BY <1>3, <3>1, <3>2, <3>3, <3>4, <3>5 DEF HandlerAct
    <2> QED BY <2>1, <2>2, <2>3, AloneInv
  <1> QED BY <1>1, <1>2, <1>3 DEF TierNext, HandlerAct

\* What held before an overlap holds no longer; that there was one is not forgotten.
OrderInv == "overlap" \notin disorder => TierInv /\ OneBusy /\ EndOK

\* However many handlers there are, wherever they fail and however often events come: as long as no two
\* have overlapped, what is delivered was sent, what a handler has read stands, what a grant has written
\* stands, and a plan whose grant was not torn has its grantor on record.
THEOREM TierInvHolds == TierSpec => []OrderInv
  <1>1. TierInit => OrderInv
    <2>1. TierInit => OneBusy
      BY DEF TierInit, OneBusy, AtRest
    <2> QED BY <2>1, TierInitInv DEF OrderInv
  <1>2. OrderInv /\ [TierNext]_tierVars => OrderInv'
    <2>1. SUFFICES ASSUME OrderInv, [TierNext]_tierVars, "overlap" \notin disorder' PROVE OrderInv'
      BY DEF OrderInv
    <2>2. disorder \subseteq disorder'
      BY <2>1 DEF TierNext, tierVars, Subscribe, SubscriptionEnds, Deliver, FencePaid, GrantPlan, RecordGrantor,
                  ReadPlan, ReadRecord, DecideRevocation, ClearPlan, RetireGrantor, Acknowledge, HandlerFails
    <2> QED BY <2>1, <2>2, TierStep DEF OrderInv
  <1> QED BY <1>1, <1>2, PTL DEF TierSpec

\* PayerKeepsTier: once all is delivered, whoever pays for the newest subscription has at least its plan,
\* for the fence refuses what has ended, and the decision spares a tier that has another grantor.
THEOREM PayersKeepTiers == TierSpec => []PayerKeepsTier
  <1>1. OrderInv => PayerKeepsTier
    <2>1. SUFFICES ASSUME TierInv, "late" \notin disorder, Quiet, NEW s \in Subs, Paying(s)
                   PROVE  plan >= polar[s].tier
      BY DEF PayerKeepsTier, OrderInv
    <2>2. <<"paid", s>> \in Events /\ Sent(<<"paid", s>>)
      BY <2>1 DEF Events, Sent, Paying
    <2>3. Granted(s)
      BY <2>1, <2>2 DEF Quiet, TierInv, PlanOK
    <2>4. polar[s].tier \in Nat
      BY <2>1, TiersAreRanks
    <2> QED BY <2>3, <2>4 DEF Granted
  <1> QED BY <1>1, TierInvHolds, PTL

\* TierEndsWithItsPayer: once all is delivered and nobody pays, the plan is free, for a plan has its
\* grantor on record, and the end of a grantor on record is not answered before it cleared the plan.
\* This needs no order of the payments.
THEOREM TiersEndWithTheirPayers == TierSpec => []TierEndsWithItsPayer
  <1>1. OrderInv => TierEndsWithItsPayer
    <2>1. SUFFICES ASSUME TierInv, EndOK, Quiet, "torn" \notin disorder,
                          \A s \in Subs : polar[s].status # "active", plan # FreePlan
                   PROVE  FALSE
      BY DEF TierEndsWithItsPayer, OrderInv
    <2>2. grant.live
      BY <2>1 DEF EndOK, Quiet
    <2> DEFINE g == grant.grantor
    <2>3. g \in Subs /\ polar[g].status # "none" /\ polar[g].status # "active"
      BY <2>1, <2>2 DEF TierInv, DeliveredOK
    <2>4. polar[g].status = "ended"
      BY <2>1, <2>3 DEF TierInv, TierTypeOK
    <2>5. <<"ended", g>> \in Events /\ Sent(<<"ended", g>>)
      BY <2>3, <2>4 DEF Events, Sent
    <2> QED BY <2>1, <2>2, <2>5 DEF Quiet, EndOK
  <1> QED BY <1>1, TierInvHolds, PTL

-----------------------------------------------------------------------------
(* The ledger, the queued scans and the plans together.                      *)

\* A step of the three is a step of each, or leaves it alone.
LEMMA CreditParts ==
    ASSUME [CreditsNext]_creditsVars
    PROVE  [Next]_vars /\ [JobNext]_jobVars /\ [TierNext]_tierVars
  BY DEF CreditsNext, creditsVars

\* A behaviour of the three is one of each: what is proved of one holds where it is checked.
THEOREM CreditsAreTheirParts == CreditsSpec => Spec /\ JobSpec /\ TierSpec
  <1>1. CreditsInit => Init /\ JobInit /\ TierInit
    BY DEF CreditsInit
  <1> QED BY <1>1, CreditParts, PTL DEF CreditsSpec, Spec, JobSpec, TierSpec

\* CreditTypesOK: the ledger, the queued scans and the plans keep their types.
THEOREM CreditTypesCorrect == CreditsSpec => []CreditTypesOK
  <1>1. TypeOK /\ JobTypeOK /\ TierTypeOK => CreditTypesOK
    BY DEF CreditTypesOK
  <1> QED BY <1>1, CreditsAreTheirParts, CreditTypeCorrect, RescoreTypeCorrect, TierTypeCorrect, PTL
=============================================================================
