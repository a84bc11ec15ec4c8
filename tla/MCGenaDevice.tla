---------------------------- MODULE MCGenaDevice ----------------------------
(* Small instances of GenaDevice for TLC: one or two subscriptions. *)
EXTENDS GenaDevice

CONSTANTS s1, s2

Scenario(sids, events, time, refuse, max) ==
    [sids |-> sids, events |-> events, time |-> time, refuse |-> refuse, max |-> max]

\* Two subscriptions that may expire; two while the pool refuses jobs; two
\* with enough events to fill their queues, and a limit that is lowered; one
\* whose events grow old.
Expiring == Scenario({s1, s2}, 3, 2, FALSE, {})
Refusing == Scenario({s1, s2}, 3, 1, TRUE, {})
Sharing  == Scenario({s1, s2}, 4, 1, FALSE, {1})
Ageing   == Scenario({s1}, 5, 2, FALSE, {})
AllScenarios == {Expiring, Refusing, Sharing, Ageing}

\* The disagreement.
RefusingOne == {Scenario({s1}, 2, 1, TRUE, {})}

FiniteOrNot == {-1, 0}
NoLimit == -1
=============================================================================
