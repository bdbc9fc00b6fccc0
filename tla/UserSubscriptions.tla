-------------------------- MODULE UserSubscriptions --------------------------
(* The user_subscriptions table as the billing code writes it: one row per    *)
(* e-mail (unique user_email), holding the Pro flag and the id of the payment *)
(* provider's subscription.  The operators are the committed effects of the   *)
(* repository functions of app/repositories/subscription.py.                  *)

CONSTANTS Users,    \* e-mail addresses
          SubIds,   \* provider subscription ids
          NoUser,   \* the event names no e-mail (the code's "" or None)
          NoSub,    \* the event carries no subscription id ("" of Razorpay)
          Unset     \* the NULL of a row no event has given an id

ASSUME UserAssumption ==
  /\ NoUser \notin Users
  /\ NoSub \notin SubIds
  /\ Unset \notin SubIds \cup {NoSub}

Row == [exists : BOOLEAN, pro : BOOLEAN, sub : SubIds \cup {NoSub, Unset}]
Table == [Users -> Row]

EmptyTable == [u \in Users |-> [exists |-> FALSE, pro |-> FALSE, sub |-> Unset]]

(* upsert_subscription(email, {is_pro, razorpay_subscription_id}) *)
UpsertProSub(t, u, p, s) ==
  [t EXCEPT ![u] = [exists |-> TRUE, pro |-> p, sub |-> s]]

(* upsert_subscription(email, {is_pro}): the subscription id of an existing *)
(* row is left as it is.                                                    *)
UpsertPro(t, u, p) == [t EXCEPT ![u] = [@ EXCEPT !.exists = TRUE, !.pro = p]]

(* update_by_razorpay_id(id, {is_pro}): every row with that id, possibly none. *)
(* The empty id is an id like any other here: it meets the rows that an event *)
(* without one has written, and no NULL.                                      *)
UpdateBySub(t, s, p) ==
  [u \in Users |-> IF t[u].exists /\ t[u].sub = s
                     THEN [t[u] EXCEPT !.pro = p]
                     ELSE t[u]]
==============================================================================
