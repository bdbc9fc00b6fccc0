--------------------------- MODULE MCSubscriptions ---------------------------
(* Three deliveries of the events of one subscription, in the order Stripe    *)
(* issues them: it is bought, its first invoice is paid, it is deleted.  Two  *)
(* handlers read it, in one process or in two; the status lives one tick in   *)
(* Redis and two in an L1 cache (30 s and 600 s in the code).                 *)
EXTENDS Subscriptions, TLC

CONSTANTS bought, paid, deleted, kB, kP, kD, alice, s1, p1, p2, c1, c2

MCEvents == {bought, paid, deleted}
MCKeys == {kB, kP, kD, NoKey}
MCKeyOf == (bought :> kB) @@ (paid :> kP) @@ (deleted :> kD)
MCKind == (bought :> "activated") @@ (paid :> "payment_succeeded")
            @@ (deleted :> "ended")
MCUserOf == [e \in MCEvents |-> alice]
MCSubOf == [e \in MCEvents |-> s1]
MCUsers == {alice}
MCSubIds == {s1}

MCProcesses == {p1, p2}
MCClients == {c1, c2}
MCDeployments == {(c1 :> p1) @@ (c2 :> p1), (c1 :> p1) @@ (c2 :> p2)}
==============================================================================
