-------------------------- MODULE MCRazorpayWebhook --------------------------
(* Three deliveries of up to four events: a subscription is activated,        *)
(* charged (the delivery comes without an id), fails a payment and ends.      *)
(* The activation and the charge concern one subscription of one user.        *)
EXTENDS RazorpayWebhook, TLC

CONSTANTS activated, charged, failed, ended, kA, kF, kE, alice, s1

MCEvents == {activated, charged, failed, ended}
MCKeys == {kA, kF, kE, NoKey}
MCKeyOf ==
  [e \in MCEvents |-> CASE e = activated -> kA
                        [] e = failed -> kF
                        [] e = ended -> kE
                        [] OTHER -> NoKey]
MCKind ==
  [e \in MCEvents |-> CASE e = activated -> "activated"
                        [] e = charged -> "charged"
                        [] e = failed -> "payment_failed"
                        [] OTHER -> "ended"]
MCUserOf == [e \in MCEvents |-> IF e \in {activated, failed} THEN alice ELSE NoUser]
MCSubOf == [e \in MCEvents |-> IF e = failed THEN NoSub ELSE s1]
MCUsers == {alice}
MCSubIds == {s1}

(* Deliveries are interchangeable; not used with liveness. *)
Symmetry == Permutations(Deliveries)

(* Two events suffice for liveness: one with an id, one without. *)
MCFewEvents == {activated, charged}
MCFewKeyOf == [e \in MCFewEvents |-> MCKeyOf[e]]
MCFewKind == [e \in MCFewEvents |-> MCKind[e]]
MCFewUserOf == [e \in MCFewEvents |-> MCUserOf[e]]
MCFewSubOf == [e \in MCFewEvents |-> MCSubOf[e]]
==============================================================================
