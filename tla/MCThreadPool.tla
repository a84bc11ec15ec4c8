---------------------------- MODULE MCThreadPool ----------------------------
(* Small instances of ThreadPool for TLC. *)
EXTENDS ThreadPool, TLC

CONSTANTS c1, c2, w1, w2, j1, j2, j3, j4, p1, p2, p3

Attr(min, max, jobs) ==
    [minThreads |-> min, maxThreads |-> max, jobsPerThread |-> 1,
     maxJobsTotal |-> jobs, starvationTime |-> 1, maxIdleTime |-> MaxAge]

Scenario(min, max, age, jobs, calls) ==
    [attr |-> Attr(min, max, 2), jobs |-> jobs, age |-> age,
     calls |-> [x \in Client \cup Job |-> IF x \in DOMAIN calls THEN calls[x] ELSE {}]]

\* Two clients of which one also adds a persistent job and removes jobs, with
\* one thread or two, and in a pool that starts without threads and has room for
\* one: the first two submissions then both want to create it.
Submit(min, max) ==
    Scenario(min, max, 0, {j1, j2, p1}, c1 :> {"add"} @@ c2 :> {"add", "pers", "remove"})

\* New attributes, and their failure, while jobs are added.
Reset     == Scenario(1, 2, 1, {j1, p1}, c1 :> {"setattr"} @@ c2 :> {"add", "pers"})
ResetFull == Scenario(1, 2, 0, {p1, p2}, c1 :> {"setattr"} @@ c2 :> {"pers", "getattr"})

\* The end of the pool while jobs that add jobs still run.
Finish  == Scenario(1, 2, 0, {j1, j2, p1}, c1 :> {"add", "pers", "shutdown"} @@ j1 :> {"add"})
Nested  == Scenario(1, 2, 1, {j1, p1, p2}, c1 :> {"add", "pers", "shutdown"} @@ j1 :> {"pers"})

\* More persistent jobs than threads.
Full == Scenario(1, 2, 1, {p1, p2, p3}, c1 :> {"pers", "remove"} @@ p1 :> {"pers"})

\* One worker and high priority jobs without end.
Endless == Scenario(1, 1, 1, {j1, j3, j4}, c1 :> {"add"})

AllScenarios == {Submit(0, 1), Submit(1, 2), Reset, ResetFull, Finish, Nested, Full, Endless}
NewAttrs == {Attr(2, 2, 2), Attr(1, 1, 2)}

\* The disagreements.
RemoveScenario == {Scenario(1, 2, 0, {j1, j2, p1}, c1 :> {"add", "remove"} @@ c2 :> {"pers"})}
FullScenario   == {Scenario(1, 2, 0, {p1, p2, p3}, c1 :> {"pers"} @@ c2 :> {"pers"})}

Priorities == [j \in Job |-> IF j = j1 THEN "low" ELSE IF j = j2 THEN "med" ELSE "high"]

NoAttrs == {}
WorkerSymmetry == Permutations(Worker)
=============================================================================
