------------------------------ MODULE MCServices ------------------------------
(***************************************************************************)
(* Five services that share no state, for one run of TLC: the asks of      *)
(* Athena, the members of an organization, a shared scan, a bucket of the  *)
(* public allowance and a webhook delivery.  A behaviour moves one of      *)
(* them, so that their states add up instead of multiplying; no property   *)
(* of one of them depends on the others.                                   *)
(***************************************************************************)
EXTENDS AthenaProposals, Membership, ScanCoalesce, PublicScanQuota, WebhookDelivery

VARIABLE focus      \* the service that moves

servicesVars == <<focus, proposalVars, memberVars, coalesceVars, quotaVars, deliveryVars>>

TypesOK == ProposalTypeOK /\ MemberTypeOK /\ CoalesceTypeOK /\ QuotaTypeOK /\ DeliveryTypeOK

\* A service that does not move has one initial state.
ServicesInit ==
    /\ focus \in {"asks", "members", "scans", "allowance", "deliveries"}
    /\ ProposalInit /\ (focus # "asks" => proposal.status = "open" /\ watched)
    /\ MemberInit /\ (focus # "members" => invite.role = CHOOSE r \in AssignedRoles : TRUE)
    /\ CoalesceInit
    /\ QuotaInit
    /\ DeliveryInit /\ (focus # "deliveries" => \A q \in Posts : post[q].box = CHOOSE b \in Boxes : TRUE)

ServicesNext ==
    /\ UNCHANGED focus
    /\ \/ focus = "asks" /\ ProposalNext
          /\ UNCHANGED <<memberVars, coalesceVars, quotaVars, deliveryVars>>
       \/ focus = "members" /\ MemberNext
          /\ UNCHANGED <<proposalVars, coalesceVars, quotaVars, deliveryVars>>
       \/ focus = "scans" /\ CoalesceNext
          /\ UNCHANGED <<proposalVars, memberVars, quotaVars, deliveryVars>>
       \/ focus = "allowance" /\ QuotaNext
          /\ UNCHANGED <<proposalVars, memberVars, coalesceVars, deliveryVars>>
       \/ focus = "deliveries" /\ DeliveryNext
          /\ UNCHANGED <<proposalVars, memberVars, coalesceVars, quotaVars>>

\* Each service has its own fairness, and only while it is the one that moves; of a scan that does
\* not move, no timer is running.
ServicesSpec ==
    /\ ServicesInit
    /\ [][ServicesNext]_servicesVars
    /\ \/ focus = "asks" /\ ProposalFairness
       \/ focus = "deliveries" /\ DeliveryFairness
       \/ focus \in {"scans", "members", "allowance"} /\ CoalesceFairness

\* EveryAskIsClosed of AthenaProposals, where asks move: every ask of an organization that
\* keeps a watched repository is answered, interrupted or expired in the end.
AsksAreClosed == (focus = "asks") => EveryAskIsClosed

\* ProcessedInTheEnd of WebhookDelivery, where deliveries move: no failure, kill or lost release
\* keeps an id from ever being worked on.
DeliveriesAreProcessed == (focus = "deliveries") => ProcessedInTheEnd
=============================================================================
