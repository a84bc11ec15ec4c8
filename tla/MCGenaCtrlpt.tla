----------------------------- MODULE MCGenaCtrlpt -----------------------------
(* A small instance of GenaCtrlpt for TLC: two threads that may play any part *)
(* (application, pool, mini server), two client handles that can be reused.   *)
EXTENDS GenaCtrlpt

CONSTANTS t1, t2

Bound(r, s, e, c) == [regs |-> r, subs |-> s, events |-> e, calls |-> c]

\* A client with two subscriptions and renewals; one that is unregistered while
\* its handle is given out again; two clients with a subscription each that
\* need no renewal; many calls, and many renewals, for one subscription.
SmallBounds ==
    {Bound(1, 2, 2, 2), Bound(2, 1, 2, 2), Bound(2, 2, 0, 2),
     Bound(1, 1, 2, 3), Bound(1, 1, 3, 2)}

OneSubscription == {Bound(2, 1, 0, 2)}
=============================================================================
