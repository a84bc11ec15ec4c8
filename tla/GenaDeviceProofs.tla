--------------------------- MODULE GenaDeviceProofs ---------------------------
(***************************************************************************)
(* Theorems about GenaDevice for every number of subscriptions and events, *)
(* every limit on the queues and on the key, and every scenario.           *)
(***************************************************************************)
EXTENDS GenaDevice, SequenceLemmas, FiniteSetTheorems

-----------------------------------------------------------------------------
(* The inductive invariant *)

\* The events of s in the pool, and being sent.
Waiting(s) == {e \in Event : [sid |-> s, ev |-> e] \in pool}
InFlight(s) == {e \in Event : [sid |-> s, ev |-> e] \in sending}

\* The events of a queue behind its head.
Behind(q) == {q[i].ev : i \in 2..Len(q)}

\* The length that maybeDiscardEvents() leaves, and the new event.
QueueLimit == Max({EQMaxLen, 1}) + 1

\* The events of a queue are in the order they happened, up to the last one, top.
Ordered(q, top) ==
    /\ \A i, j \in 1..Len(q) : i < j => q[i].ev < q[j].ev
    /\ \A i \in 1..Len(q) : q[i].ev <= top

QueueFits(b, top) ==
    /\ ~b.active => b.outgoing = <<>>
    /\ Len(b.outgoing) <= QueueLimit
    /\ Ordered(b.outgoing, top)

\* Of one subscription at most one event is on its way: w in the pool, f being sent.
WayFits(w, f, top) ==
    /\ \A e \in w \cup f : e <= top
    /\ \A d, e \in w \cup f : d = e
    /\ w \cap f = {}

\* The head of the queue is on its way, and its job alone is marked so.
HeadFits(q, w, f) ==
    /\ q # <<>> => q[1].ev \in w \cup f
    /\ \A i \in 1..Len(q) : q[i].stale <=> i = 1

FollowingKey(seq) == IF seq = KeyMax THEN 1 ELSE seq + 1

\* While an event is being sent the key is the one it is sent with; otherwise it
\* is the one that follows, and the whole queue is newer than what was last sent.
SentFits(b, f, last) ==
    /\ f # {} => last.ev \in f /\ last.seq = b.ToSendEventKey
    /\ f = {} => /\ b.ToSendEventKey = FollowingKey(last.seq)
                 /\ \A i \in 1..Len(b.outgoing) : b.outgoing[i].ev > last.ev

\* Until it has been sent, the initial event is the head.
FirstFits(b, last, first) ==
    b.active /\ last.ev = 0 => b.outgoing # <<>> /\ b.outgoing[1].ev = first

\* A subscription of the list: what is on its way is its head.
Served(b, w, f, last, top) ==
    /\ QueueFits(b, top) /\ WayFits(w, f, top)
    /\ \A e \in w \cup f : b.outgoing # <<>> /\ e = b.outgoing[1].ev
    /\ SentFits(b, f, last)
    /\ last.ev <= top

\* One of which the pool has refused no job: its head is on its way.
Prompt(b, w, f, last, first) ==
    HeadFits(b.outgoing, w, f) /\ FirstFits(b, last, first)

\* One that is not in the list: a notification of it may remain.
Gone(b, w, f, last, top) ==
    /\ ~b.active
    /\ QueueFits(b, top) /\ WayFits(w, f, top)
    /\ last.ev <= top

ListKept ==
    /\ TotalSubscriptions = Len(subscriptionList)
    /\ IsInjective(subscriptionList)
    /\ Listed \subseteq used
    /\ ~registered => subscriptionList = <<>>

\* Nothing is left of an identity that no subscription has had.
UnusedKept ==
    \A s \in Sid \ used : /\ Waiting(s) = {} /\ InFlight(s) = {}
                          /\ lastSent[s].ev = 0 /\ lastSent[s].seq = -1

Fitting(s) ==
    /\ s \in Listed => Served(sub[s], Waiting(s), InFlight(s), lastSent[s], lastEvent)
    /\ s \in Listed \ refused =>
          Prompt(sub[s], Waiting(s), InFlight(s), lastSent[s], initial[s])
    /\ s \notin Listed => Gone(sub[s], Waiting(s), InFlight(s), lastSent[s], lastEvent)

SubscriptionsKept == \A s \in Sid : Fitting(s)

\* The subscriptions that hold the event e behind the heads of their queues, and
\* those of which it is on its way.  As a queue holds an event once, the counter of
\* e can be compared with the sizes of these two sets.
Back(e) == {s \in Sid : e \in Behind(sub[s].outgoing)}
Held(e) == {s \in Sid : e \in Waiting(s) \cup InFlight(s)}

Covers(r, B, H) == r >= Cardinality(B) + Cardinality(H)
Matches(r, B, H) == r = Cardinality(B) + Cardinality(H)

CountsKept ==
    \A e \in Event :
        /\ Covers(reference_count[e], Back(e), Held(e))
        /\ refused = {} => Matches(reference_count[e], Back(e), Held(e))

IInv == TypeOK /\ ListKept /\ UnusedKept /\ SubscriptionsKept /\ CountsKept

-----------------------------------------------------------------------------
(* Counting, and the operators on lists and queues *)

\* Two sets one of which names the other's members have as many members.
LEMMA SameNumber ==
    ASSUME NEW A, NEW B, IsFiniteSet(B), NEW f \in [A -> B],
           \A x, y \in A : f[x] = f[y] => x = y,
           \A z \in B : \E x \in A : f[x] = z
    PROVE  IsFiniteSet(A) /\ Cardinality(A) = Cardinality(B)
  <1>1. f \in Injection(A, B)
    BY Zenon DEF Injection, IsInjective
  <1>2. f \in Surjection(A, B)
    BY DEF Surjection
  <1> QED BY <1>1, <1>2, FS_Injection

\* The list that remains when the subscriptions S leave it (RemoveSubscriptionSID()):
\* the others, each once, and as many fewer as S has members.
LEMMA WithoutKeeps ==
    ASSUME NEW T, NEW list \in Seq(T), IsInjective(list),
           NEW S, S \subseteq Range(list)
    PROVE  /\ Without(list, S) \in Seq(T)
           /\ Range(Without(list, S)) = Range(list) \ S
           /\ IsInjective(Without(list, S))
           /\ Len(Without(list, S)) = Len(list) - Cardinality(S)
           /\ IsFiniteSet(S)
  <1> DEFINE D    == 1..Len(list)
             kept == {i \in D : list[i] \notin S}
             c    == Cardinality(kept)
             upto(i) == {j \in kept : j <= i}
             rank == [i \in kept |-> Cardinality(upto(i))]
             at(k) == CHOOSE i \in kept : Cardinality(upto(i)) = k
  <1>1. Len(list) \in Nat /\ DOMAIN list = D /\ list \in [D -> T]
    BY LenProperties
  <1>2. IsFiniteSet(D) /\ Cardinality(D) = Len(list)
    BY <1>1, FS_Interval
  <1>3. IsFiniteSet(kept) /\ c \in Nat
    BY <1>2, FS_Subset, FS_CardinalityType
  <1>4. \A i \in kept : IsFiniteSet(upto(i)) /\ Cardinality(upto(i)) \in 1..c
    <2> TAKE i \in kept
    <2>1. IsFiniteSet(upto(i)) /\ Cardinality(upto(i)) <= c
      BY <1>3, FS_Subset
    <2>2. Cardinality(upto(i)) \in Nat /\ upto(i) # {}
      <3>1. i \in upto(i)
        OBVIOUS
      <3> QED BY <2>1, <3>1, FS_CardinalityType
    <2>3. Cardinality(upto(i)) # 0
      BY <2>1, <2>2, FS_EmptySet
    <2> QED BY <1>3, <2>1, <2>2, <2>3
  <1>5. rank \in Injection(kept, 1..c)
    <2>1. rank \in [kept -> 1..c]
      BY <1>4
    <2>2. ASSUME NEW i \in kept, NEW j \in kept, i < j
          PROVE  Cardinality(upto(i)) # Cardinality(upto(j))
      <3>1. upto(i) \in SUBSET upto(j)
        BY <1>1, <2>2
      <3>2. j \in upto(j) /\ j \notin upto(i)
        BY <1>1, <2>2
      <3>3. IsFiniteSet(upto(j))
        BY <1>4
      <3> HIDE DEF upto
      <3> QED BY <3>1, <3>2, <3>3, FS_Subset
    <2>3. ASSUME NEW i \in kept, NEW j \in kept, rank[i] = rank[j]
          PROVE  i = j
      <3>1. i < j \/ j < i \/ i = j
        BY <1>1
      <3> QED BY <2>2, <2>3, <3>1
    <2> HIDE DEF rank
    <2> QED BY <2>1, <2>3 DEF Injection, IsInjective
  <1>6. IsFiniteSet(1..c) /\ Cardinality(1..c) = c
    BY <1>3, FS_Interval
  <1>7. rank \in Surjection(kept, 1..c)
    BY <1>3, <1>5, <1>6, FS_Injection
  <1>8. ASSUME NEW k \in 1..c
        PROVE  at(k) \in kept /\ Cardinality(upto(at(k))) = k
    <2>1. \E i \in kept : rank[i] = k
      BY <1>7 DEF Surjection
    <2>2. \E i \in kept : Cardinality(upto(i)) = k
      BY <2>1
    <2> HIDE DEF kept, upto
    <2> QED BY <2>2
  <1>9. \A i \in kept : \E k \in 1..c : at(k) = i
    <2> TAKE i \in kept
    <2> DEFINE k == Cardinality(upto(i))
    <2>1. k \in 1..c
      BY <1>4
    <2>2. at(k) \in kept /\ rank[at(k)] = rank[i]
      BY <1>8, <2>1
    <2>3. at(k) = i
      BY <1>5, <2>2, Zenon DEF Injection, IsInjective
    <2> QED BY <2>1, <2>3
  <1> DEFINE new == [k \in 1..c |-> list[at(k)]]
  <1>10. Without(list, S) = new
    BY <1>1 DEF Without
  <1> HIDE DEF at, kept
  <1>11. \A i \in kept : i \in D /\ list[i] \in T /\ list[i] \notin S
    BY <1>1 DEF kept
  <1>12. new \in Seq(T) /\ Len(new) = c /\ DOMAIN new = 1..c
    <2>1. new \in [1..c -> T]
      BY <1>8, <1>11
    <2> HIDE DEF c, new
    <2>2. new \in Seq(T) /\ DOMAIN new = 1..c
      BY <1>3, <2>1, SeqDef
    <2> QED BY <1>3, <2>2, LenProperties
  <1>13. Range(new) = Range(list) \ S
    <2>1. ASSUME NEW x \in Range(new) PROVE x \in Range(list) \ S
      <3>1. PICK k \in 1..c : x = list[at(k)]
        BY <1>12 DEF Range
      <3> QED BY <1>1, <1>8, <1>11, <3>1 DEF Range
    <2>2. ASSUME NEW x \in Range(list) \ S PROVE x \in Range(new)
      <3>1. PICK i \in D : x = list[i]
        BY <1>1 DEF Range
      <3>2. i \in kept
        BY <2>2, <3>1 DEF kept
      <3>3. PICK k \in 1..c : at(k) = i
        BY <1>9, <3>2
      <3>4. new[k] = x
        BY <3>1, <3>3
      <3> QED BY <1>12, <3>4 DEF Range
    <2> QED BY <2>1, <2>2
  <1>14. IsInjective(new)
    <2>1. ASSUME NEW k \in 1..c, NEW l \in 1..c, new[k] = new[l]
          PROVE  k = l
      <3>1. at(k) \in D /\ at(l) \in D /\ list[at(k)] = list[at(l)]
        BY <1>8, <1>11, <2>1
      <3>2. at(k) = at(l)
        BY <1>1, <3>1 DEF IsInjective
      <3>3. Cardinality(upto(at(k))) = k /\ Cardinality(upto(at(l))) = l
        BY <1>8
      <3> QED BY <3>2, <3>3
    <2> HIDE DEF new
    <2> QED BY <1>12, <2>1 DEF IsInjective
  <1> DEFINE out == {i \in D : list[i] \in S}
             f   == [i \in out |-> list[i]]
  <1>15. IsFiniteSet(S) /\ Cardinality(S) = Cardinality(out)
    <2>1. IsFiniteSet(out)
      BY <1>2, FS_Subset
    <2>2. f \in Surjection(out, S)
      <3>1. f \in [out -> S]
        OBVIOUS
      <3>2. ASSUME NEW x \in S PROVE \E i \in out : f[i] = x
        BY <1>1 DEF Range
      <3> QED BY <3>1, <3>2 DEF Surjection
    <2>3. f \in Injection(out, S)
      <3>1. \A i, j \in out : f[i] = f[j] => i = j
        BY <1>1 DEF IsInjective
      <3>2. f \in [out -> S]
        OBVIOUS
      <3> HIDE DEF f, out
      <3> QED BY <3>1, <3>2, Zenon DEF Injection, IsInjective
    <2> QED BY <2>1, <2>2, <2>3, FS_Surjection
  <1>16. c = Len(list) - Cardinality(S)
    <2>1. kept = D \ out /\ D \cap out = out
      BY DEF kept
    <2>2. IsFiniteSet(out) /\ Cardinality(out) \in Nat
      BY <1>2, FS_Subset, FS_CardinalityType
    <2> HIDE DEF D, out
    <2>3. c = Cardinality(D) - Cardinality(D \cap out)
      BY <1>2, <2>1, FS_Difference
    <2> QED BY <1>1, <1>2, <1>15, <2>1, <2>2, <2>3
  <1> QED BY <1>10, <1>12, <1>13, <1>14, <1>15, <1>16

\* The larger of two numbers.
LEMMA LargerOfTwo ==
    ASSUME NEW a \in Int, NEW b \in Int
    PROVE  Max({a, b}) \in {a, b} /\ a <= Max({a, b}) /\ b <= Max({a, b})
  <1>1. \E x \in {a, b} : \A y \in {a, b} : x >= y
    <2>1. CASE a >= b
      BY <2>1
    <2>2. CASE b >= a
      BY <2>2
    <2> QED BY <2>1, <2>2
  <1>2. Max({a, b}) \in {a, b} /\ \A y \in {a, b} : Max({a, b}) >= y
    BY <1>1 DEF Max
  <1> QED BY <1>2

\* The limit on the events of a queue.
LEMMA LimitBounds == QueueLimit \in Nat /\ EQMaxLen + 1 <= QueueLimit /\ 2 <= QueueLimit
  <1>1. PICK one : one = 1
    OBVIOUS
  <1>2. EQMaxLen \in Int /\ one \in Int
    BY <1>1, GenaAssumption
  <1>3. /\ Max({EQMaxLen, one}) \in {EQMaxLen, one}
        /\ EQMaxLen <= Max({EQMaxLen, one}) /\ one <= Max({EQMaxLen, one})
    BY <1>2, LargerOfTwo
  <1> QED BY <1>1, <1>3, GenaAssumption DEF QueueLimit

\* maybeDiscardEvents() leaves the head of a queue, and no more than the limit.
LEMMA DiscardsBounded ==
    ASSUME NEW q \in Seq(QueuedJob)
    PROVE  /\ Discards(q) \in Nat /\ Discards(q) <= Len(q)
           /\ q # <<>> => Discards(q) < Len(q)
           /\ q = <<>> => Discards(q) = 0
           /\ Len(q) - Discards(q) + 1 <= QueueLimit
           /\ QueueLimit \in Nat
  <1> DEFINE Stops(k) == \/ Len(q) - k <= 1
                         \/ /\ ~TooMany(Len(q) - k)
                            /\ now - q[2 + k].ctime <= EQMaxAge
             T == {k \in 0..Len(q) : Stops(k)}
  <1>1. Discards(q) = Min(T)
    BY DEF Discards
  <1>2. Len(q) \in Nat /\ (q # <<>> => Len(q) >= 1) /\ (q = <<>> => Len(q) = 0)
    BY EmptySeq, LenProperties
  <1>3. Len(q) \in T /\ T \subseteq Nat
    BY <1>2
  <1>4. Min(T) \in T /\ \A y \in T : Min(T) <= y
    BY <1>3, LeastExists
  <1>5. QueueLimit \in Nat /\ EQMaxLen + 1 <= QueueLimit /\ 2 <= QueueLimit
    BY LimitBounds
  <1> DEFINE m == Min(T)
  <1>6. m \in Nat /\ m <= Len(q) /\ Stops(m)
    BY <1>2, <1>4
  <1>7. Len(q) - m + 1 <= QueueLimit
    <2>1. (Len(q) - m <= 1) \/ (Len(q) - m <= EQMaxLen)
      BY <1>2, <1>6, GenaAssumption DEF TooMany
    <2> HIDE DEF m
    <2> QED BY <1>2, <1>5, <1>6, <2>1, GenaAssumption
  <1>8. ASSUME q # <<>> PROVE m < Len(q)
    <2>1. Len(q) - 1 \in T
      BY <1>2, <1>8
    <2>2. m <= Len(q) - 1
      BY <1>4, <2>1
    <2> HIDE DEF m
    <2> QED BY <1>2, <1>6, <2>2
  <1> HIDE DEF m
  <1>9. m = Discards(q)
    BY <1>1 DEF m
  <1> QED BY <1>2, <1>5, <1>6, <1>7, <1>8, <1>9

-----------------------------------------------------------------------------
(* What each operation does to one subscription *)

\* The types of the observation lastSent.
LastSent == [ev: 0..MaxEvents, seq: (-1)..KeyMax]

\* A queue stays in order when the device goes on.
LEMMA QueueLater ==
    ASSUME NEW b \in Subscription, NEW top \in Int, NEW later \in Int, top <= later,
           QueueFits(b, top)
    PROVE  QueueFits(b, later)
  <1>0. b.outgoing \in Seq(QueuedJob) /\ Event \subseteq Int
    BY GenaAssumption DEF Subscription, Event
  <1>1. \A i \in 1..Len(b.outgoing) : b.outgoing[i].ev \in Int
    <2>1. \A i \in 1..Len(b.outgoing) : b.outgoing[i] \in QueuedJob
      BY <1>0
    <2> QED BY <1>0, <2>1 DEF QueuedJob
  <1>2. Ordered(b.outgoing, later)
    BY <1>1 DEF QueueFits, Ordered
  <1> QED BY <1>2 DEF QueueFits

\* Nothing happens to the subscription but that the device goes on.
LEMMA FitsLater ==
    ASSUME NEW b \in Subscription, NEW w \in SUBSET Event, NEW f \in SUBSET Event,
           NEW last \in LastSent, NEW top \in Int, NEW later \in Int, top <= later
    PROVE  /\ Served(b, w, f, last, top) => Served(b, w, f, last, later)
           /\ Gone(b, w, f, last, top) => Gone(b, w, f, last, later)
  <1>0. last.ev \in Int /\ w \cup f \subseteq Int
    BY GenaAssumption DEF LastSent, Event
  <1>1. QueueFits(b, top) => QueueFits(b, later)
    BY QueueLater
  <1>2. WayFits(w, f, top) => WayFits(w, f, later)
    BY <1>0 DEF WayFits
  <1>3. last.ev <= top => last.ev <= later
    BY <1>0
  <1> QED BY <1>1, <1>2, <1>3 DEF Served, Gone

\* A new structure has an empty queue.
LEMMA NewFits ==
    ASSUME NEW x, NEW top
    PROVE  /\ NewSubscription(x).active = FALSE
           /\ NewSubscription(x).ToSendEventKey = 0
           /\ NewSubscription(x).outgoing = <<>> /\ Len(NewSubscription(x).outgoing) = 0
           /\ QueueFits(NewSubscription(x), top)
  <1>1. /\ NewSubscription(x).active = FALSE
        /\ NewSubscription(x).ToSendEventKey = 0
        /\ NewSubscription(x).outgoing = <<>> /\ Len(NewSubscription(x).outgoing) = 0
    BY DEF NewSubscription
  <1>2. 0 <= QueueLimit
    BY LimitBounds
  <1>3. \A i \in 1..0 : FALSE
    OBVIOUS
  <1> HIDE DEF NewSubscription
  <1>4. QueueFits(NewSubscription(x), top)
    BY <1>1, <1>2, <1>3 DEF QueueFits, Ordered
  <1> QED BY <1>1, <1>4

\* The subscription is removed.
LEMMA FitsRemoved ==
    ASSUME NEW w \in SUBSET Event, NEW f \in SUBSET Event, NEW last \in LastSent,
           NEW top \in Int, WayFits(w, f, top), last.ev <= top
    PROVE  Gone(NewSubscription(0), w, f, last, top)
  BY NewFits DEF Gone

\* The subscription is made.
LEMMA FitsMade ==
    ASSUME NEW last \in LastSent, NEW first, NEW top \in Nat, NEW x,
           last.ev = 0, last.seq = -1
    PROVE  /\ Served(NewSubscription(x), {}, {}, last, top)
           /\ Prompt(NewSubscription(x), {}, {}, last, first)
  <1>1. PICK b : b = NewSubscription(x)
    OBVIOUS
  <1>2. /\ b.active = FALSE /\ b.ToSendEventKey = 0 /\ b.outgoing = <<>> /\ Len(b.outgoing) = 0
        /\ QueueFits(b, top)
    BY <1>1, NewFits
  <1>3. \A i \in 1..0 : FALSE
    OBVIOUS
  <1>4. SentFits(b, {}, last)
    BY <1>2, <1>3, GenaAssumption DEF SentFits, FollowingKey
  <1>5. WayFits({}, {}, top)
    BY DEF WayFits
  <1>6. HeadFits(b.outgoing, {}, {}) /\ FirstFits(b, last, first)
    BY <1>2, <1>3 DEF HeadFits, FirstFits
  <1>7. last.ev <= top
    OBVIOUS
  <1>8. Served(b, {}, {}, last, top) /\ Prompt(b, {}, {}, last, first)
    BY <1>2, <1>4, <1>5, <1>6, <1>7 DEF Served, Prompt
  <1> QED BY <1>1, <1>8

\* Its time is changed, or it becomes active without an event in its queue.
LEMMA FitsTouched ==
    ASSUME NEW b \in Subscription, NEW w \in SUBSET Event,
           NEW f \in SUBSET Event, NEW last \in LastSent,
           NEW top \in Int, NEW b2 \in Subscription,
           b2.outgoing = b.outgoing, b2.ToSendEventKey = b.ToSendEventKey,
           b.active => b2.active,
           Served(b, w, f, last, top)
    PROVE  /\ Served(b2, w, f, last, top)
           /\ \A first : (b2.active => b.active) /\ Prompt(b, w, f, last, first) =>
                 Prompt(b2, w, f, last, first)
  <1>1. QueueFits(b2, top)
    BY DEF Served, QueueFits
  <1>2. SentFits(b2, f, last)
    BY DEF Served, SentFits
  <1>3. Served(b2, w, f, last, top)
    BY <1>1, <1>2 DEF Served
  <1>4. \A first : (b2.active => b.active) /\ Prompt(b, w, f, last, first) =>
           Prompt(b2, w, f, last, first)
    BY DEF Prompt, FirstFits
  <1> QED BY <1>3, <1>4

\* The initial event is queued and given to the pool.
LEMMA FitsAccepted ==
    ASSUME NEW b \in Subscription, NEW w \in SUBSET Event,
           NEW f \in SUBSET Event, NEW last \in LastSent,
           NEW top \in Nat, NEW e \in Event, top < e,
           NEW b2 \in Subscription, NEW w2 \in SUBSET Event, e \in w2, w2 \subseteq w \cup {e},
           b2.active, b2.ToSendEventKey = b.ToSendEventKey,
           Len(b2.outgoing) = 1, b2.outgoing[1].ev = e, b2.outgoing[1].stale,
           ~b.active, Served(b, w, f, last, top)
    PROVE  Served(b2, w2, f, last, e) /\ Prompt(b2, w2, f, last, e)
  <1>0. e \in Int
    BY GenaAssumption DEF Event
  <1>1. b.outgoing = <<>> /\ w = {} /\ f = {} /\ w2 = {e} /\ last.ev <= top
    BY DEF Served, QueueFits
  <1>2. /\ Len(b2.outgoing) = 1 /\ b2.outgoing[1].ev = e /\ b2.outgoing[1].stale
        /\ b2.outgoing # <<>>
    <2>1. b2.outgoing \in Seq(QueuedJob)
      BY DEF Subscription
    <2> QED BY <2>1, EmptySeq
  <1>3. 1 <= QueueLimit
    BY LimitBounds
  <1>4. QueueFits(b2, e)
    BY <1>0, <1>2, <1>3 DEF QueueFits, Ordered
  <1>5. WayFits(w2, f, e)
    BY <1>0, <1>1 DEF WayFits
  <1>6. SentFits(b2, f, last)
    <2>1. b.ToSendEventKey = FollowingKey(last.seq)
      BY <1>1 DEF Served, SentFits
    <2>2. last.ev < e
      BY <1>0, <1>1 DEF LastSent
    <2> QED BY <1>1, <1>2, <2>1, <2>2 DEF SentFits
  <1>7. last.ev <= e
    BY <1>0, <1>1 DEF LastSent
  <1>8. \A d \in w2 \cup f : b2.outgoing # <<>> /\ d = b2.outgoing[1].ev
    BY <1>1, <1>2
  <1>9. HeadFits(b2.outgoing, w2, f)
    BY <1>1, <1>2 DEF HeadFits
  <1>10. FirstFits(b2, last, e)
    BY <1>2 DEF FirstFits
  <1> QED BY <1>4, <1>5, <1>6, <1>7, <1>8, <1>9, <1>10 DEF Served, Prompt

\* The queue after maybeDiscardEvents() and the append of a new job.
Grown(q, job) == Append(Discarded(q), job)

\* Its head stays, and the new job comes after what is left of the others.
LEMMA GrownQueue ==
    ASSUME NEW q \in Seq(QueuedJob), NEW job \in QueuedJob
    PROVE  /\ Grown(q, job) \in Seq(QueuedJob)
           /\ Len(Grown(q, job)) = (Len(q) - Discards(q)) + 1
           /\ q # <<>> => Len(q) - Discards(q) >= 1 /\ Grown(q, job)[1] = q[1]
           /\ q = <<>> => Len(q) - Discards(q) = 0 /\ Grown(q, job)[1] = job
           /\ \A i \in 2..(Len(q) - Discards(q)) : Grown(q, job)[i] = q[i + Discards(q)]
           /\ Grown(q, job)[(Len(q) - Discards(q)) + 1] = job
           /\ Discarded(q) = <<>> <=> q = <<>>
  <1>1. PICK k : k = Discards(q)
    OBVIOUS
  <1>2. /\ k \in Nat /\ k <= Len(q) /\ Len(q) \in Nat
        /\ q # <<>> => k < Len(q)
        /\ q = <<>> => k = 0 /\ Len(q) = 0
    BY <1>1, DiscardsBounded, EmptySeq, LenProperties
  <1> DEFINE r == [i \in 1..(Len(q) - k) |-> IF i = 1 THEN q[1] ELSE q[i + k]]
  <1>3. Discarded(q) = r
    BY <1>1 DEF Discarded
  <1>4. r \in Seq(QueuedJob) /\ Len(r) = Len(q) - k
    <2>1. Len(q) - k \in Nat
      BY <1>2
    <2>2. ASSUME NEW i \in 1..(Len(q) - k) PROVE r[i] \in QueuedJob
      <3>1. 1 \in 1..Len(q) /\ i + k \in 1..Len(q)
        BY <1>2
      <3> QED BY <3>1
    <2>3. r \in [1..(Len(q) - k) -> QueuedJob]
      BY <2>2
    <2>4. DOMAIN r = 1..(Len(q) - k)
      OBVIOUS
    <2> HIDE DEF r
    <2> QED BY <2>1, <2>3, <2>4, SeqDef, LenProperties
  <1>5. \A i \in 1..(Len(q) - k) : r[i] = IF i = 1 THEN q[1] ELSE q[i + k]
    OBVIOUS
  <1> HIDE DEF r
  <1>6. /\ Append(r, job) \in Seq(QueuedJob)
        /\ Len(Append(r, job)) = Len(r) + 1
        /\ \A i \in 1..Len(r) : Append(r, job)[i] = r[i]
        /\ Append(r, job)[Len(r) + 1] = job
    BY <1>4, AppendProperties
  <1>7. Grown(q, job) = Append(r, job)
    BY <1>3 DEF Grown
  <1>8. r = <<>> <=> q = <<>>
    <2>1. CASE q = <<>>
      BY <1>2, <1>4, <2>1, EmptySeq
    <2>2. CASE q # <<>>
      BY <1>2, <1>4, <2>2, EmptySeq
    <2> QED BY <2>1, <2>2
  <1>9. q # <<>> => Len(q) - k >= 1 /\ Append(r, job)[1] = q[1]
    BY <1>2, <1>4, <1>5, <1>6
  <1>10. q = <<>> => Len(q) - k = 0 /\ Append(r, job)[1] = job
    BY <1>2, <1>4, <1>6
  <1>11. \A i \in 2..(Len(q) - k) : Append(r, job)[i] = q[i + k]
    BY <1>2, <1>4, <1>5, <1>6
  <1> QED BY <1>1, <1>3, <1>4, <1>6, <1>7, <1>8, <1>9, <1>10, <1>11

\* The members of a queue, their events and their order.
LEMMA QueueMembers ==
    ASSUME NEW q \in Seq(QueuedJob)
    PROVE  /\ Len(q) \in Nat /\ DOMAIN q = 1..Len(q)
           /\ q = <<>> <=> Len(q) = 0
           /\ \A i \in 1..Len(q) : q[i] \in QueuedJob /\ q[i].ev \in Event /\ q[i].ev \in Int
           /\ Event \subseteq Int /\ \A e \in Event : e # 0
  <1>1. Len(q) \in Nat /\ DOMAIN q = 1..Len(q)
    BY LenProperties
  <1>2. \A i \in 1..Len(q) : q[i] \in QueuedJob
    OBVIOUS
  <1>3. Event \subseteq Int /\ \A e \in Event : e # 0
    BY GenaAssumption DEF Event
  <1>4. q = <<>> <=> Len(q) = 0
    BY EmptySeq
  <1>5. \A x \in QueuedJob : x.ev \in Event
    BY DEF QueuedJob
  <1> QED BY <1>1, <1>2, <1>3, <1>4, <1>5

\* A queue that grows stays in order and within its limit.
LEMMA GrownOrdered ==
    ASSUME NEW q \in Seq(QueuedJob), NEW job \in QueuedJob, NEW top \in Nat,
           NEW e \in Int, top < e, job.ev = e, Ordered(q, top)
    PROVE  Ordered(Grown(q, job), e) /\ Len(Grown(q, job)) <= QueueLimit
  <1>1. PICK k : k = Discards(q)
    OBVIOUS
  <1>2. PICK r : r = Grown(q, job)
    OBVIOUS
  <1>3. /\ k \in Nat /\ k <= Len(q) /\ Len(q) \in Nat
        /\ q # <<>> => k < Len(q)
        /\ q = <<>> => k = 0 /\ Len(q) = 0
        /\ (Len(q) - k) + 1 <= QueueLimit
    BY <1>1, DiscardsBounded, LimitBounds, EmptySeq, LenProperties
  <1>4. /\ r \in Seq(QueuedJob)
        /\ Len(r) = (Len(q) - k) + 1
        /\ q # <<>> => Len(q) - k >= 1 /\ r[1] = q[1]
        /\ q = <<>> => Len(q) - k = 0 /\ r[1] = job
        /\ \A i \in 2..(Len(q) - k) : r[i] = q[i + k]
        /\ r[(Len(q) - k) + 1] = job
    BY <1>1, <1>2, GrownQueue
  <1>5. \A i \in 1..Len(q) : q[i].ev \in Int /\ q[i].ev <= top
    BY QueueMembers DEF Ordered
  <1> DEFINE from(i) == IF i = 1 THEN 1 ELSE i + k
  <1>6. ASSUME NEW i \in 1..(Len(q) - k)
        PROVE  from(i) \in 1..Len(q) /\ r[i] = q[from(i)]
    <2>1. q # <<>>
      BY <1>3
    <2>2. CASE i = 1
      BY <1>3, <1>4, <2>1, <2>2
    <2>3. CASE i # 1
      BY <1>3, <1>4, <2>1, <2>3
    <2> QED BY <2>2, <2>3
  <1>7. \A i, j \in 1..(Len(q) - k) : i < j => from(i) < from(j)
    BY <1>3
  <1> HIDE DEF from
  <1>8. ASSUME NEW i \in 1..Len(r), NEW j \in 1..Len(r), i < j
        PROVE  r[i].ev < r[j].ev
    <2>1. i \in 1..(Len(q) - k)
      BY <1>3, <1>4, <1>8
    <2>2. r[i].ev = q[from(i)].ev /\ from(i) \in 1..Len(q)
      BY <1>6, <2>1
    <2>3. CASE j = (Len(q) - k) + 1
      <3>1. r[j].ev = e
        BY <1>4, <2>3
      <3> QED BY <1>5, <2>2, <3>1
    <2>4. CASE j # (Len(q) - k) + 1
      <3>1. j \in 1..(Len(q) - k)
        BY <1>3, <1>4, <2>4
      <3>2. r[j].ev = q[from(j)].ev /\ from(j) \in 1..Len(q) /\ from(i) < from(j)
        BY <1>6, <1>7, <1>8, <2>1, <3>1
      <3> QED BY <2>2, <3>2 DEF Ordered
    <2> QED BY <2>3, <2>4
  <1>9. ASSUME NEW i \in 1..Len(r) PROVE r[i].ev <= e
    <2>1. CASE i = (Len(q) - k) + 1
      BY <1>4, <2>1
    <2>2. CASE i # (Len(q) - k) + 1
      <3>1. i \in 1..(Len(q) - k)
        BY <1>3, <1>4, <2>2
      <3> QED BY <1>5, <1>6, <3>1
    <2> QED BY <2>1, <2>2
  <1>10. Ordered(r, e)
    BY <1>8, <1>9 DEF Ordered
  <1> QED BY <1>2, <1>3, <1>4, <1>10

\* Which events are behind the head of a queue that has grown.
LEMMA GrownBehind ==
    ASSUME NEW q \in Seq(QueuedJob), NEW job \in QueuedJob, NEW top \in Nat,
           NEW e \in Int, top < e, job.ev = e, Ordered(q, top), NEW d \in Event
    PROVE  /\ d = e => (d \in Behind(Grown(q, job)) <=> q # <<>>)
           /\ d # e => (d \in Behind(Grown(q, job)) <=>
                 d \in Behind(q) /\ ~ \E i \in 2..(1 + Discards(q)) : q[i].ev = d)
  <1>1. PICK k : k = Discards(q)
    OBVIOUS
  <1>2. PICK r : r = Grown(q, job)
    OBVIOUS
  <1>3. /\ k \in Nat /\ k <= Len(q) /\ Len(q) \in Nat
        /\ q # <<>> => k < Len(q)
        /\ q = <<>> => k = 0 /\ Len(q) = 0
    BY <1>1, DiscardsBounded, EmptySeq, LenProperties
  <1>4. /\ r \in Seq(QueuedJob)
        /\ Len(r) = (Len(q) - k) + 1
        /\ q # <<>> => Len(q) - k >= 1 /\ r[1] = q[1]
        /\ q = <<>> => Len(q) - k = 0 /\ r[1] = job
        /\ \A i \in 2..(Len(q) - k) : r[i] = q[i + k]
        /\ r[(Len(q) - k) + 1] = job
    BY <1>1, <1>2, GrownQueue
  <1>5. \A i \in 1..Len(q) : q[i].ev \in Int /\ q[i].ev <= top
    BY QueueMembers DEF Ordered
  <1>6. ASSUME d = e PROVE d \in Behind(r) <=> q # <<>>
    <2>1. CASE q = <<>>
      <3>1. Len(r) = 1
        BY <1>4, <2>1
      <3> QED BY <2>1, <3>1 DEF Behind
    <2>2. CASE q # <<>>
      <3>1. Len(r) \in 2..Len(r) /\ r[Len(r)].ev = d
        BY <1>3, <1>4, <1>6, <2>2
      <3> QED BY <2>2, <3>1 DEF Behind
    <2> QED BY <2>1, <2>2
  <1>7. ASSUME d # e, d \in Behind(r)
        PROVE  d \in Behind(q) /\ ~ \E i \in 2..(1 + k) : q[i].ev = d
    <2>1. PICK i \in 2..Len(r) : r[i].ev = d
      BY <1>7 DEF Behind
    <2>2. i \in 2..(Len(q) - k) /\ r[i] = q[i + k]
      BY <1>3, <1>4, <1>7, <2>1
    <2>3. i + k \in 2..Len(q) /\ q[i + k].ev = d
      BY <1>3, <2>1, <2>2
    <2>4. ASSUME NEW j \in 2..(1 + k), q[j].ev = d PROVE FALSE
      <3>1. j \in 1..Len(q) /\ i + k \in 1..Len(q) /\ j < i + k
        BY <1>3, <2>2, <2>3
      <3>2. q[j].ev < q[i + k].ev
        BY <3>1 DEF Ordered
      <3> QED BY <1>5, <2>3, <2>4, <3>1, <3>2
    <2> QED BY <2>3, <2>4 DEF Behind
  <1>8. ASSUME d # e, d \in Behind(q), ~ \E i \in 2..(1 + k) : q[i].ev = d
        PROVE  d \in Behind(r)
    <2>1. PICK j \in 2..Len(q) : q[j].ev = d
      BY <1>8 DEF Behind
    <2>2. j \notin 2..(1 + k)
      BY <1>8, <2>1
    <2>3. j - k \in 2..(Len(q) - k) /\ (j - k) + k = j
      BY <1>3, <2>1, <2>2
    <2>4. r[j - k] = q[j] /\ j - k \in 2..Len(r)
      BY <1>3, <1>4, <2>3
    <2> QED BY <2>1, <2>4 DEF Behind
  <1> QED BY <1>1, <1>2, <1>6, <1>7, <1>8

\* A new event comes to the queue of an active subscription: behind others, or
\* alone, when the pool takes it, or alone when the pool refuses it.
LEMMA FitsNotified ==
    ASSUME NEW b \in Subscription, NEW w \in SUBSET Event,
           NEW f \in SUBSET Event, NEW last \in LastSent,
           NEW top \in Nat, NEW e \in Event, top < e,
           NEW b2 \in Subscription, NEW job \in QueuedJob, job.ev = e,
           b2.active, b2.ToSendEventKey = b.ToSendEventKey,
           b2.outgoing = Grown(b.outgoing, job), NEW w2 \in SUBSET Event,
           \/ b.outgoing # <<>> /\ w2 = w
           \/ b.outgoing = <<>> /\ w2 \subseteq w \cup {e},
           b.active, Served(b, w, f, last, top)
    PROVE  /\ Served(b2, w2, f, last, e)
           /\ \A first :
                 /\ Prompt(b, w, f, last, first)
                 /\ job.stale <=> b.outgoing = <<>>
                 /\ b.outgoing = <<>> => e \in w2
                 => Prompt(b2, w2, f, last, first)
  <1>1. PICK q \in Seq(QueuedJob) : q = b.outgoing
    BY DEF Subscription
  <1>2. PICK r \in Seq(QueuedJob) : r = b2.outgoing
    BY DEF Subscription
  <1>3. Ordered(q, top) /\ r = Grown(q, job)
    BY <1>1, <1>2 DEF Served, QueueFits
  <1>0. e \in Int
    BY GenaAssumption DEF Event
  <1>4. Ordered(r, e) /\ Len(r) <= QueueLimit
    BY <1>0, <1>3, GrownOrdered
  <1>5. PICK k \in Int : k = Len(q) - Discards(q)
    BY DiscardsBounded, LenProperties
  <1>6. /\ Len(r) = k + 1
        /\ q # <<>> => k >= 1 /\ r[1] = q[1]
        /\ q = <<>> => k = 0 /\ r[1] = job
        /\ \A i \in 2..k : r[i] = q[i + Discards(q)]
        /\ r[k + 1] = job
    <2>1. /\ Len(Grown(q, job)) = (Len(q) - Discards(q)) + 1
          /\ q # <<>> => Len(q) - Discards(q) >= 1 /\ Grown(q, job)[1] = q[1]
          /\ q = <<>> => Len(q) - Discards(q) = 0 /\ Grown(q, job)[1] = job
          /\ \A i \in 2..(Len(q) - Discards(q)) : Grown(q, job)[i] = q[i + Discards(q)]
          /\ Grown(q, job)[(Len(q) - Discards(q)) + 1] = job
      BY GrownQueue
    <2> QED BY <1>3, <1>5, <2>1
  <1>7. /\ \A i \in 1..Len(q) : q[i].ev \in Int /\ q[i].ev <= top
        /\ \A i \in 1..Len(r) : r[i].ev \in Int
        /\ q = <<>> <=> Len(q) = 0
        /\ r = <<>> <=> Len(r) = 0
        /\ Event \subseteq Int /\ Len(q) \in Nat
    BY <1>3, QueueMembers DEF Ordered
  <1>8. Discards(q) \in Nat /\ r # <<>> /\ k <= Len(q)
    <2>1. Discards(q) \in Nat
      BY DiscardsBounded
    <2>2. Len(r) >= 1
      BY <1>6, <1>7
    <2> QED BY <1>5, <1>7, <2>1, <2>2
  <1>9. \A i \in 1..Len(r) : \/ r[i] = job
                             \/ \E j \in 1..Len(q) : r[i] = q[j]
    <2> TAKE i \in 1..Len(r)
    <2>1. CASE i = k + 1
      BY <1>6, <2>1
    <2>2. CASE i # k + 1 /\ i = 1
      BY <1>5, <1>6, <1>7, <1>8, <2>2
    <2>3. CASE i # k + 1 /\ i # 1
      <3>0. PICK m \in Nat : m = Discards(q)
        BY <1>8
      <3>2. i \in 2..k /\ k = Len(q) - m
        BY <1>5, <1>6, <2>3, <3>0
      <3>3. i + m \in 1..Len(q)
        BY <1>7, <3>2
      <3>1. i \in 2..k /\ i + Discards(q) \in 1..Len(q)
        BY <3>0, <3>2, <3>3
      <3> QED BY <1>6, <3>1
    <2> QED BY <2>1, <2>2, <2>3
  <1>10. /\ \A x \in w \cup f : x <= top
         /\ \A x, y \in w \cup f : x = y
         /\ w \cap f = {}
         /\ \A x \in w \cup f : q # <<>> /\ x = q[1].ev
    BY <1>1 DEF Served, WayFits
  <1>11. last.ev \in Int /\ last.ev <= top
    BY GenaAssumption DEF Served, LastSent
  <1>12. QueueFits(b2, e)
    BY <1>2, <1>4 DEF QueueFits
  <1>13. WayFits(w2, f, e) /\ \A x \in w2 \cup f : r # <<>> /\ x = r[1].ev
    <2>1. CASE q # <<>>
      <3>1. w2 = w /\ r # <<>> /\ r[1] = q[1]
        BY <1>1, <1>6, <1>8, <2>1
      <3>2. \A x \in w2 \cup f : x <= e
        BY <1>0, <1>7, <1>10, <3>1
      <3> QED BY <1>10, <3>1, <3>2 DEF WayFits
    <2>2. CASE q = <<>>
      <3>1. w = {} /\ f = {} /\ w2 \subseteq {e} /\ r # <<>> /\ r[1] = job
        BY <1>1, <1>6, <1>8, <1>10, <2>2
      <3> QED BY <1>7, <3>1 DEF WayFits
    <2> QED BY <2>1, <2>2
  <1>14. SentFits(b2, f, last)
    <2>1. CASE f # {}
      BY <2>1 DEF Served, SentFits
    <2>2. CASE f = {}
      <3>1. /\ b.ToSendEventKey = FollowingKey(last.seq)
            /\ \A i \in 1..Len(q) : q[i].ev > last.ev
        BY <1>1, <2>2 DEF Served, SentFits
      <3>2. ASSUME NEW i \in 1..Len(r) PROVE r[i].ev > last.ev
        <4>1. CASE r[i] = job
          BY <1>0, <1>11, <4>1
        <4>2. CASE \E j \in 1..Len(q) : r[i] = q[j]
          BY <3>1, <4>2
        <4> QED BY <1>9, <4>1, <4>2
      <3> QED BY <1>2, <2>2, <3>1, <3>2 DEF SentFits
    <2> QED BY <2>1, <2>2
  <1>15. last.ev <= e
    BY <1>0, <1>11
  <1>16. Served(b2, w2, f, last, e)
    BY <1>2, <1>12, <1>13, <1>14, <1>15 DEF Served
  <1>17. ASSUME NEW first, Prompt(b, w, f, last, first), job.stale <=> q = <<>>,
                q = <<>> => e \in w2
         PROVE  Prompt(b2, w2, f, last, first)
    <2>1. HeadFits(r, w2, f)
      <3>1. CASE q # <<>>
        <4>1. w2 = w /\ r[1] = q[1] /\ k >= 1 /\ ~job.stale
          BY <1>1, <1>6, <1>17, <3>1
        <4>2. q[1].ev \in w \cup f /\ \A i \in 1..Len(q) : q[i].stale <=> i = 1
          BY <1>1, <1>17, <3>1 DEF Prompt, HeadFits
        <4>3. ASSUME NEW i \in 1..Len(r) PROVE r[i].stale <=> i = 1
          <5>1. CASE i = 1
            BY <1>7, <3>1, <4>1, <4>2, <5>1
          <5>2. CASE i = k + 1
            BY <1>6, <4>1, <5>2
          <5>3. CASE i # 1 /\ i # k + 1
            <6>0. PICK m \in Nat : m = Discards(q)
              BY <1>8
            <6>5. i \in 2..k /\ k = Len(q) - m
              BY <1>5, <1>6, <5>3, <6>0
            <6>6. i + m \in 2..Len(q)
              BY <1>7, <6>5
            <6>1. i \in 2..k /\ i + Discards(q) \in 2..Len(q)
              BY <6>0, <6>5, <6>6
            <6>2. r[i] = q[i + Discards(q)]
              BY <1>6, <6>1
            <6>3. i + Discards(q) \in 1..Len(q) /\ i + Discards(q) # 1
              BY <1>8, <6>1
            <6>4. ~ q[i + Discards(q)].stale
              BY <4>2, <6>3
            <6> QED BY <5>3, <6>2, <6>4
          <5> QED BY <5>1, <5>2, <5>3
        <4> QED BY <4>1, <4>2, <4>3 DEF HeadFits
      <3>2. CASE q = <<>>
        <4>1. e \in w2 /\ job.stale
          BY <1>17, <3>2
        <4>2. k = 0 /\ Len(r) = 1 /\ r[1] = job
          BY <1>6, <3>2
        <4> QED BY <4>1, <4>2 DEF HeadFits
      <3> QED BY <3>1, <3>2
    <2>2. FirstFits(b2, last, first)
      <3>1. ASSUME last.ev = 0 PROVE r # <<>> /\ r[1].ev = first
        <4>1. q # <<>> /\ q[1].ev = first
          BY <1>1, <1>17, <3>1 DEF Prompt, FirstFits
        <4> QED BY <1>6, <1>8, <4>1
      <3> QED BY <1>2, <3>1 DEF FirstFits
    <2> QED BY <1>2, <2>1, <2>2 DEF Prompt
  <1> QED BY <1>1, <1>16, <1>17

\* The event of last2 goes from the pool to those being sent, with the key of b.
Begun(b, w, f, last2, w2, f2) ==
    /\ last2.ev \in w /\ last2.seq = b.ToSendEventKey
    /\ w2 = w \ {last2.ev} /\ f2 = f \cup {last2.ev}

\* What is sent comes after what was sent before, and the initial event first.
Follows(last, last2) == last2.ev > last.ev /\ last2.seq = FollowingKey(last.seq)
Opens(last, last2, first) == last.ev = 0 => last2.ev = first

\* The job of the head begins to send it.
LEMMA FitsStarted ==
    ASSUME NEW b \in Subscription, NEW w \in SUBSET Event,
           NEW f \in SUBSET Event, NEW last \in LastSent,
           NEW top \in Nat, NEW last2 \in LastSent,
           NEW w2 \in SUBSET Event, NEW f2 \in SUBSET Event,
           Begun(b, w, f, last2, w2, f2), Served(b, w, f, last, top)
    PROVE  /\ Served(b, w2, f2, last2, top)
           /\ Follows(last, last2)
           /\ \A first : Prompt(b, w, f, last, first) =>
                 Prompt(b, w2, f2, last2, first) /\ Opens(last, last2, first)
  <1> USE DEF Begun, Follows, Opens
  <1>0. PICK e \in w : e = last2.ev
    OBVIOUS
  <1>1. PICK q \in Seq(QueuedJob) : q = b.outgoing
    BY DEF Subscription
  <1>2. w = {e} /\ f = {} /\ q # <<>> /\ q[1].ev = e /\ e <= top
    BY <1>1 DEF Served, WayFits
  <1>3. e # 0 /\ 1 \in 1..Len(q)
    BY <1>2, QueueMembers
  <1>4. WayFits({}, {e}, top)
    BY <1>2 DEF WayFits
  <1>5. SentFits(b, {e}, last2)
    BY <1>0 DEF SentFits
  <1>6. w2 = {} /\ f2 = {e}
    BY <1>0, <1>2
  <1>7. b.ToSendEventKey = FollowingKey(last.seq) /\ q[1].ev > last.ev
    BY <1>1, <1>2, <1>3 DEF Served, SentFits
  <1>8. Served(b, {}, {e}, last2, top)
    BY <1>0, <1>1, <1>2, <1>4, <1>5 DEF Served
  <1>9. ASSUME NEW first, Prompt(b, w, f, last, first)
        PROVE  Prompt(b, {}, {e}, last2, first) /\ (last.ev = 0 => e = first)
    <2>1. HeadFits(q, {}, {e})
      BY <1>1, <1>2, <1>9 DEF Prompt, HeadFits
    <2>2. FirstFits(b, last2, first)
      BY <1>0, <1>3 DEF FirstFits
    <2>3. b.active
      BY <1>1, <1>2 DEF Served, QueueFits
    <2>4. last.ev = 0 => e = first
      BY <1>1, <1>2, <1>9, <2>3 DEF Prompt, FirstFits
    <2> QED BY <1>1, <2>1, <2>2, <2>4 DEF Prompt
  <1> QED BY <1>0, <1>2, <1>6, <1>7, <1>8, <1>9

\* The head has been sent, and the next job is given to the pool.
LEMMA FitsDone ==
    ASSUME NEW b \in Subscription, NEW w \in SUBSET Event,
           NEW f \in SUBSET Event, NEW last \in LastSent,
           NEW top \in Nat, NEW e \in f,
           NEW b2 \in Subscription, b2.active <=> b.active,
           b2.ToSendEventKey = NextKey(b.ToSendEventKey),
           Len(b2.outgoing) = Len(b.outgoing) - 1,
           \A i \in 1..Len(b2.outgoing) :
              /\ b2.outgoing[i].ev = b.outgoing[i + 1].ev
              /\ b2.outgoing[i].stale <=> (i = 1 \/ b.outgoing[i + 1].stale),
           NEW w2 \in SUBSET Event,
           \/ w2 = w
           \/ b2.outgoing # <<>> /\ w2 = w \cup {b2.outgoing[1].ev},
           Served(b, w, f, last, top)
    PROVE  /\ Served(b2, w2, f \ {e}, last, top)
           /\ \A first :
                 /\ Prompt(b, w, f, last, first)
                 /\ b2.outgoing # <<>> => w2 = w \cup {b2.outgoing[1].ev}
                 => Prompt(b2, w2, f \ {e}, last, first)
  <1>1. PICK q \in Seq(QueuedJob) : q = b.outgoing
    BY DEF Subscription
  <1>2. PICK r \in Seq(QueuedJob) : r = b2.outgoing
    BY DEF Subscription
  <1>3. w = {} /\ f = {e} /\ f \ {e} = {} /\ q # <<>> /\ q[1].ev = e /\ e <= top
    BY <1>1 DEF Served, WayFits
  <1>4. /\ \A i \in 1..Len(q) : q[i].ev \in Int
        /\ \A i \in 1..Len(r) : r[i].ev \in Int
        /\ q = <<>> <=> Len(q) = 0
        /\ r = <<>> <=> Len(r) = 0
        /\ Event \subseteq Int /\ Len(q) \in Nat /\ Len(r) \in Nat
        /\ e # 0
    BY QueueMembers
  <1>5. /\ Len(r) = Len(q) - 1
        /\ \A i \in 1..Len(r) : r[i].ev = q[i + 1].ev /\ (r[i].stale <=> (i = 1 \/ q[i + 1].stale))
    BY <1>1, <1>2
  <1>6. /\ \A i, j \in 1..Len(q) : i < j => q[i].ev < q[j].ev
        /\ \A i \in 1..Len(q) : q[i].ev <= top
        /\ Len(q) <= QueueLimit
        /\ q # <<>> => b.active
    BY <1>1 DEF Served, QueueFits, Ordered
  <1>7. \A i \in 1..Len(r) : i + 1 \in 1..Len(q) /\ 1 \in 1..Len(q) /\ 1 < i + 1
    BY <1>4, <1>5
  <1>8. \A i \in 1..Len(r) : r[i].ev > e /\ r[i].ev <= top
    BY <1>3, <1>4, <1>5, <1>6, <1>7
  <1>9. QueueFits(b2, top)
    <2>1. \A i, j \in 1..Len(r) : i < j => r[i].ev < r[j].ev
      <3> TAKE i, j \in 1..Len(r)
      <3> HAVE i < j
      <3>1. i + 1 \in 1..Len(q) /\ j + 1 \in 1..Len(q) /\ i + 1 < j + 1
        BY <1>4, <1>7
      <3>2. q[i + 1].ev < q[j + 1].ev
        BY <1>6, <3>1
      <3> QED BY <1>5, <3>2
    <2>2. Ordered(r, top)
      BY <1>8, <2>1 DEF Ordered
    <2>3. Len(r) <= QueueLimit
      BY <1>4, <1>5, <1>6, LimitBounds
    <2>4. b2.active
      BY <1>3, <1>6
    <2> QED BY <1>2, <2>2, <2>3, <2>4 DEF QueueFits
  <1>10. w2 \subseteq {r[1].ev} /\ (w2 # {} => r # <<>>)
    BY <1>2, <1>3
  <1>11. WayFits(w2, {}, top) /\ \A x \in w2 \cup {} : r # <<>> /\ x = r[1].ev
    <2>1. ASSUME NEW x \in w2 \cup {} PROVE x = r[1].ev /\ r # <<>> /\ x <= top
      <3>1. x = r[1].ev /\ r # <<>>
        BY <1>10
      <3>2. 1 \in 1..Len(r)
        BY <1>4, <3>1
      <3> QED BY <1>8, <3>1, <3>2
    <2>2. \A x, y \in w2 \cup {} : x = y
      BY <2>1
    <2> QED BY <2>1, <2>2 DEF WayFits
  <1>12. last.ev = e /\ last.seq = b.ToSendEventKey
    BY <1>3 DEF Served, SentFits
  <1>13. SentFits(b2, {}, last)
    <2>1. b2.ToSendEventKey = FollowingKey(last.seq)
      BY <1>12 DEF FollowingKey, NextKey
    <2> QED BY <1>2, <1>8, <1>12, <2>1 DEF SentFits
  <1>14. Served(b2, w2, {}, last, top)
    BY <1>2, <1>3, <1>9, <1>11, <1>12, <1>13 DEF Served
  <1>15. ASSUME NEW first, Prompt(b, w, f, last, first), r # <<>> => w2 = w \cup {r[1].ev}
         PROVE  Prompt(b2, w2, {}, last, first)
    <2>1. FirstFits(b2, last, first)
      BY <1>4, <1>12 DEF FirstFits
    <2>2. \A i \in 1..Len(q) : q[i].stale <=> i = 1
      BY <1>1, <1>15 DEF Prompt, HeadFits
    <2>3. ASSUME NEW i \in 1..Len(r) PROVE r[i].stale <=> i = 1
      <3>1. i + 1 \in 1..Len(q) /\ i + 1 # 1
        BY <1>4, <1>7
      <3>2. ~ q[i + 1].stale
        BY <2>2, <3>1
      <3> QED BY <1>5, <3>2
    <2>4. HeadFits(r, w2, {})
      BY <1>15, <2>3 DEF HeadFits
    <2> QED BY <1>2, <2>1, <2>4 DEF Prompt
  <1>16. ASSUME NEW first, Prompt(b, w, f, last, first),
                b2.outgoing # <<>> => w2 = w \cup {b2.outgoing[1].ev}
         PROVE  Prompt(b2, w2, f \ {e}, last, first)
    <2>1. r # <<>> => w2 = w \cup {r[1].ev}
      BY <1>2, <1>16
    <2>2. Prompt(b2, w2, {}, last, first)
      BY <1>15, <1>16, <2>1
    <2> QED BY <1>3, <2>2
  <1>17. Served(b2, w2, f \ {e}, last, top)
    BY <1>3, <1>14
  <1> QED BY <1>16, <1>17

-----------------------------------------------------------------------------
(* The reference counters *)

\* The subscriptions that hold the event e at one of the places P.
HoldersAt(P, e) ==
    {s \in Sid : \E i \in 1..Len(sub[s].outgoing) :
        <<s, i>> \in P /\ sub[s].outgoing[i].ev = e}

Ascending == \A s \in Sid : Ordered(sub[s].outgoing, lastEvent)

\* As a queue holds an event once, the places that are released are as many as
\* the subscriptions they belong to.
LEMMA ReleasedOnce ==
    ASSUME TypeOK, Ascending, NEW P, NEW e \in Event,
           \A x \in P : \E s \in Sid, i \in Nat : i \in 1..Len(sub[s].outgoing) /\ x = <<s, i>>
    PROVE  /\ Released(P)[e] = reference_count[e] - Cardinality(HoldersAt(P, e))
           /\ IsFiniteSet(HoldersAt(P, e))
           /\ Cardinality({x \in P : sub[x[1]].outgoing[x[2]].ev = e})
                 = Cardinality(HoldersAt(P, e))
  <1> DEFINE A == {x \in P : sub[x[1]].outgoing[x[2]].ev = e}
             f == [x \in A |-> x[1]]
  <1>1. IsFiniteSet(HoldersAt(P, e))
    BY GenaAssumption, FS_Subset DEF HoldersAt
  <1>2. ASSUME NEW x \in A
        PROVE  \E s \in Sid, i \in Nat :
                  i \in 1..Len(sub[s].outgoing) /\ x = <<s, i>> /\ sub[s].outgoing[i].ev = e
    <2>1. PICK s \in Sid, i \in Nat : i \in 1..Len(sub[s].outgoing) /\ x = <<s, i>>
      BY <1>2
    <2>2. x[1] = s /\ x[2] = i
      BY <2>1
    <2> QED BY <2>1, <2>2
  <1>3. f \in [A -> HoldersAt(P, e)]
    <2>1. ASSUME NEW x \in A PROVE x[1] \in HoldersAt(P, e)
      <3>1. PICK s \in Sid, i \in Nat :
               i \in 1..Len(sub[s].outgoing) /\ x = <<s, i>> /\ sub[s].outgoing[i].ev = e
        BY <1>2
      <3> QED BY <2>1, <3>1 DEF HoldersAt
    <2> QED BY <2>1
  <1>4. ASSUME NEW x \in A, NEW y \in A, f[x] = f[y] PROVE x = y
    <2>1. PICK s \in Sid, i \in Nat :
             i \in 1..Len(sub[s].outgoing) /\ x = <<s, i>> /\ sub[s].outgoing[i].ev = e
      BY <1>2
    <2>2. PICK t \in Sid, j \in Nat :
             j \in 1..Len(sub[t].outgoing) /\ y = <<t, j>> /\ sub[t].outgoing[j].ev = e
      BY <1>2
    <2>3. s = t
      BY <1>4, <2>1, <2>2
    <2>4. PICK q \in Seq(QueuedJob) : q = sub[s].outgoing
      BY DEF TypeOK, Subscription
    <2>5. i \in 1..Len(q) /\ j \in 1..Len(q) /\ q[i].ev = q[j].ev /\ q[i].ev \in Int
      BY <2>1, <2>2, <2>3, <2>4, QueueMembers
    <2>6. Len(q) \in Nat /\ \A k, l \in 1..Len(q) : k < l => q[k].ev < q[l].ev
      BY <2>4, QueueMembers DEF Ascending, Ordered
    <2>7. i = j
      BY <2>5, <2>6
    <2> QED BY <2>1, <2>2, <2>3, <2>7
  <1>5. ASSUME NEW s \in HoldersAt(P, e) PROVE \E x \in A : f[x] = s
    <2>1. PICK i \in 1..Len(sub[s].outgoing) : <<s, i>> \in P /\ sub[s].outgoing[i].ev = e
      BY DEF HoldersAt
    <2>2. <<s, i>> \in A /\ f[<<s, i>>] = s
      BY <2>1
    <2> QED BY <2>2
  <1> HIDE DEF f
  <1>6. Cardinality(A) = Cardinality(HoldersAt(P, e))
    <2>1. /\ \A x, y \in A : f[x] = f[y] => x = y
          /\ \A z \in HoldersAt(P, e) : \E x \in A : f[x] = z
      BY <1>4, <1>5
    <2> HIDE DEF A
    <2> QED BY <1>1, <1>3, <2>1, SameNumber
  <1> QED BY <1>1, <1>6 DEF Released

\* The members of Places.
LEMMA PlaceMembers ==
    ASSUME NEW S, S \subseteq Sid, NEW n \in Nat \ {0}
    PROVE  /\ \A x \in Places(S, n) : \E s \in Sid, i \in Nat : i \in 1..Len(sub[s].outgoing) /\ x = <<s, i>>
           /\ \A s, i : <<s, i>> \in Places(S, n) <=> s \in S /\ i \in n..Len(sub[s].outgoing)
  <1>1. ASSUME NEW x \in Places(S, n)
        PROVE  \E s \in S : \E i \in n..Len(sub[s].outgoing) : x = <<s, i>>
    BY DEF Places
  <1>2. ASSUME NEW s \in S, NEW i \in n..Len(sub[s].outgoing)
        PROVE  <<s, i>> \in Places(S, n)
    BY DEF Places
  <1>3. \A s : \A i \in n..Len(sub[s].outgoing) : i \in 1..Len(sub[s].outgoing)
    OBVIOUS
  <1>4. ASSUME NEW x \in Places(S, n)
        PROVE  \E s \in Sid, i \in Nat : i \in 1..Len(sub[s].outgoing) /\ x = <<s, i>>
    BY <1>1, <1>3
  <1>5. ASSUME NEW s, NEW i, <<s, i>> \in Places(S, n)
        PROVE  s \in S /\ i \in n..Len(sub[s].outgoing)
    <2>1. PICK t \in S : \E j \in n..Len(sub[t].outgoing) : <<s, i>> = <<t, j>>
      BY <1>1, <1>5
    <2>2. PICK j \in n..Len(sub[t].outgoing) : <<s, i>> = <<t, j>>
      BY <2>1
    <2>3. s = t /\ i = j
      BY <2>2
    <2> QED BY <2>2, <2>3
  <1> QED BY <1>2, <1>4, <1>5

\* freeSubscriptionQueuedEvents() for the subscriptions S releases what they hold
\* behind the heads of their queues.
LEMMA ReleasedQueues ==
    ASSUME TypeOK, Ascending, NEW S, S \subseteq Sid, NEW e \in Event
    PROVE  /\ Released(QueuedEvents(S))[e] = reference_count[e] - Cardinality(Back(e) \cap S)
           /\ IsFiniteSet(Back(e))
           /\ Cardinality({x \in QueuedEvents(S) : sub[x[1]].outgoing[x[2]].ev = e})
                 = Cardinality(Back(e) \cap S)
  <1>0. PICK two \in Nat \ {0} : two = 2
    OBVIOUS
  <1>1. /\ \A x \in Places(S, two) : \E s \in Sid, i \in Nat : i \in 1..Len(sub[s].outgoing) /\ x = <<s, i>>
        /\ \A s, i : <<s, i>> \in Places(S, two) <=> s \in S /\ i \in two..Len(sub[s].outgoing)
    BY PlaceMembers
  <1>2. /\ Released(Places(S, two))[e] =
              reference_count[e] - Cardinality(HoldersAt(Places(S, two), e))
        /\ Cardinality({x \in Places(S, two) : sub[x[1]].outgoing[x[2]].ev = e})
              = Cardinality(HoldersAt(Places(S, two), e))
    BY <1>1, ReleasedOnce
  <1>3. HoldersAt(Places(S, two), e) = Back(e) \cap S
    <2>1. ASSUME NEW s \in HoldersAt(Places(S, two), e) PROVE s \in Back(e) \cap S
      BY <1>0, <1>1 DEF HoldersAt, Back, Behind
    <2>2. ASSUME NEW s \in Back(e) \cap S PROVE s \in HoldersAt(Places(S, two), e)
      <3>1. PICK i \in 2..Len(sub[s].outgoing) : sub[s].outgoing[i].ev = e
        BY DEF Back, Behind
      <3>2. s \in Sid /\ <<s, i>> \in Places(S, two)
        BY <1>0, <1>1
      <3> QED BY <3>1, <3>2 DEF HoldersAt
    <2> QED BY <2>1, <2>2
  <1>4. IsFiniteSet(Back(e))
    BY GenaAssumption, FS_Subset DEF Back
  <1> QED BY <1>0, <1>2, <1>3, <1>4 DEF QueuedEvents

\* Counting after some holders behind the heads have gone.
LEMMA FewerBehind ==
    ASSUME NEW B, IsFiniteSet(B), NEW X
    PROVE  /\ IsFiniteSet(B \ X) /\ Cardinality(B \ X) \in Nat /\ Cardinality(B) \in Nat
           /\ Cardinality(B \cap X) \in Nat
           /\ Cardinality(B \ X) = Cardinality(B) - Cardinality(B \cap X)
  <1>1. IsFiniteSet(B \ X) /\ Cardinality(B \ X) = Cardinality(B) - Cardinality(B \cap X)
    BY FS_Difference
  <1>2. IsFiniteSet(B \cap X)
    BY FS_Intersection
  <1> QED BY <1>1, <1>2, FS_CardinalityType

\* Counting after a job has ended.
LEMMA CountEnded ==
    ASSUME NEW r \in Int, NEW B, NEW H, IsFiniteSet(B), IsFiniteSet(H), NEW s \in H
    PROVE  /\ Covers(r, B, H) => Covers(r - 1, B, H \ {s})
           /\ Matches(r, B, H) => Matches(r - 1, B, H \ {s})
  <1>1. Cardinality(B) \in Nat /\ Cardinality(H) \in Nat
    BY FS_CardinalityType
  <1>2. Cardinality(H \ {s}) = Cardinality(H) - 1
    BY FS_RemoveElement
  <1> QED BY <1>1, <1>2 DEF Covers, Matches

\* Counting after the next job has been given to the pool.
LEMMA CountMoved ==
    ASSUME NEW r \in Int, NEW B, NEW H, IsFiniteSet(B), IsFiniteSet(H), NEW s \in B, s \notin H
    PROVE  /\ Covers(r, B, H) => Covers(r, B \ {s}, H \cup {s})
           /\ Matches(r, B, H) => Matches(r, B \ {s}, H \cup {s})
  <1>1. Cardinality(B) \in Nat /\ Cardinality(H) \in Nat
    BY FS_CardinalityType
  <1>2. Cardinality(B \ {s}) = Cardinality(B) - 1
    BY FS_RemoveElement
  <1>3. Cardinality(H \cup {s}) = Cardinality(H) + 1
    BY FS_AddElement
  <1> QED BY <1>1, <1>2, <1>3 DEF Covers, Matches

\* Counting after the pool has refused the next job.
LEMMA CountLeaked ==
    ASSUME NEW r \in Int, NEW B, NEW H, IsFiniteSet(B), IsFiniteSet(H), NEW s,
           Covers(r, B, H)
    PROVE  Covers(r, B \ {s}, H)
  <1>1. Cardinality(B) \in Nat /\ Cardinality(H) \in Nat
    BY FS_CardinalityType
  <1>2. Cardinality(B \ {s}) <= Cardinality(B) /\ Cardinality(B \ {s}) \in Nat
    <2>1. B \ {s} \in SUBSET B
      OBVIOUS
    <2> QED BY <2>1, FS_Subset, FS_CardinalityType
  <1> QED BY <1>1, <1>2 DEF Covers

-----------------------------------------------------------------------------
(* The steps *)

\* A subscription that a step does not touch.
LEMMA FitsUntouched ==
    ASSUME TypeOK, NEW s \in Sid, Fitting(s),
           s \in Listed' <=> s \in Listed, sub'[s] = sub[s],
           Waiting(s)' = Waiting(s), InFlight(s)' = InFlight(s),
           lastSent'[s] = lastSent[s], initial'[s] = initial[s],
           s \in refused' <=> s \in refused,
           lastEvent' \in Nat, lastEvent <= lastEvent'
    PROVE  Fitting(s)'
  <1>1. /\ sub[s] \in Subscription /\ Waiting(s) \in SUBSET Event
        /\ InFlight(s) \in SUBSET Event /\ lastSent[s] \in LastSent
        /\ lastEvent \in Int /\ lastEvent' \in Int
    BY GenaAssumption DEF TypeOK, Waiting, InFlight, LastSent
  <1>2. PICK b \in Subscription : b = sub[s]
    BY <1>1
  <1>3. PICK w \in SUBSET Event : w = Waiting(s)
    BY <1>1
  <1>4. PICK f \in SUBSET Event : f = InFlight(s)
    BY <1>1
  <1>5. PICK last \in LastSent : last = lastSent[s]
    BY <1>1
  <1>6. /\ Served(b, w, f, last, lastEvent) => Served(b, w, f, last, lastEvent')
        /\ Gone(b, w, f, last, lastEvent) => Gone(b, w, f, last, lastEvent')
    BY <1>1, FitsLater
  <1>7. /\ s \in Listed => Served(b, w, f, last, lastEvent)
        /\ s \in Listed \ refused => Prompt(b, w, f, last, initial[s])
        /\ s \notin Listed => Gone(b, w, f, last, lastEvent)
    BY <1>2, <1>3, <1>4, <1>5 DEF Fitting
  <1>8. b = sub'[s] /\ w = Waiting(s)' /\ f = InFlight(s)' /\ last = lastSent'[s]
    BY <1>2, <1>3, <1>4, <1>5
  <1>9. /\ s \in Listed' => Served(b, w, f, last, lastEvent')
        /\ s \in Listed' \ refused' => Prompt(b, w, f, last, initial'[s])
        /\ s \notin Listed' => Gone(b, w, f, last, lastEvent')
    BY <1>6, <1>7
  <1> QED BY <1>8, <1>9 DEF Fitting

\* What holds of every subscription in a state where the invariant holds.
LEMMA Facts ==
    ASSUME IInv
    PROVE  /\ Ascending
           /\ \A s \in Sid : /\ sub[s] \in Subscription /\ sub[s].outgoing \in Seq(QueuedJob)
                             /\ Waiting(s) \in SUBSET Event /\ InFlight(s) \in SUBSET Event
                             /\ lastSent[s] \in LastSent
           /\ lastEvent \in Nat /\ Event \subseteq Int
           /\ \A e \in Event : /\ IsFiniteSet(Back(e)) /\ IsFiniteSet(Held(e))
                               /\ reference_count[e] \in Int
           /\ Listed \subseteq Sid
  <1>1. \A s \in Sid : /\ sub[s] \in Subscription
                       /\ Waiting(s) \in SUBSET Event /\ InFlight(s) \in SUBSET Event
                       /\ lastSent[s] \in LastSent
    BY DEF IInv, TypeOK, Waiting, InFlight, LastSent
  <1>2. \A b \in Subscription : b.outgoing \in Seq(QueuedJob)
    BY DEF Subscription
  <1>3. Ascending
    <2>1. ASSUME NEW s \in Sid PROVE Ordered(sub[s].outgoing, lastEvent)
      <3>1. Fitting(s)
        BY DEF IInv, SubscriptionsKept
      <3> QED BY <3>1 DEF Fitting, Served, Gone, QueueFits
    <2> QED BY <2>1 DEF Ascending
  <1>4. lastEvent \in Nat /\ Event \subseteq Int
    BY GenaAssumption DEF IInv, TypeOK, Event
  <1>5. \A e \in Event : reference_count[e] \in Int
    BY DEF IInv, TypeOK
  <1>6. \A e \in Event : IsFiniteSet(Back(e)) /\ IsFiniteSet(Held(e))
    <2> TAKE e \in Event
    <2>1. Back(e) \in SUBSET Sid /\ Held(e) \in SUBSET Sid
      BY DEF Back, Held
    <2> QED BY <2>1, GenaAssumption, FS_Subset
  <1>7. Listed \subseteq Sid
    <2>1. subscriptionList \in Seq(Sid)
      BY DEF IInv, TypeOK
    <2>2. \A i \in DOMAIN subscriptionList : subscriptionList[i] \in Sid
      BY <2>1
    <2> QED BY <2>2 DEF Listed, Range
  <1> QED BY <1>1, <1>2, <1>3, <1>4, <1>5, <1>6, <1>7

\* A notification is the event of a subscription.
LEMMA NotificationEvents ==
    ASSUME NEW n \in Notification
    PROVE  /\ n = [sid |-> n.sid, ev |-> n.ev] /\ n.sid \in Sid /\ n.ev \in Event
           /\ \A s, e : n = [sid |-> s, ev |-> e] <=> n.sid = s /\ n.ev = e
  BY DEF Notification

\* The list and its counter when the subscriptions S leave.
LEMMA UnlinkKeeps ==
    ASSUME IInv, NEW S, S \subseteq Listed, Unlink(S)
    PROVE  /\ subscriptionList' \in Seq(Sid)
           /\ Listed' = Listed \ S
           /\ TotalSubscriptions' = Len(subscriptionList')
           /\ TotalSubscriptions' \in Int
           /\ IsInjective(subscriptionList')
  <1>1. PICK list \in Seq(Sid) : list = subscriptionList
    BY DEF IInv, TypeOK
  <1>2. IsInjective(list) /\ S \subseteq Range(list)
    BY <1>1 DEF IInv, ListKept, Listed
  <1>3. /\ Without(list, S) \in Seq(Sid)
        /\ Range(Without(list, S)) = Range(list) \ S
        /\ IsInjective(Without(list, S))
        /\ Len(Without(list, S)) = Len(list) - Cardinality(S)
    BY <1>2, WithoutKeeps
  <1>4. subscriptionList' = Without(list, S) /\ TotalSubscriptions' = Len(list) - Cardinality(S)
    BY <1>1 DEF Unlink, TotalWithout, IInv, ListKept
  <1>5. Len(Without(list, S)) \in Int
    BY <1>3, LenProperties
  <1> QED BY <1>1, <1>3, <1>4, <1>5 DEF Listed

\* Fewer notifications of a subscription that has gone.
LEMMA FitsLess ==
    ASSUME NEW b \in Subscription, NEW w \in SUBSET Event,
           NEW f \in SUBSET Event, NEW last \in LastSent,
           NEW top \in Int, NEW w2 \in SUBSET w, NEW f2 \in SUBSET f,
           Gone(b, w, f, last, top)
    PROVE  Gone(b, w2, f2, last, top)
  <1>1. WayFits(w2, f2, top)
    BY DEF Gone, WayFits
  <1> QED BY <1>1 DEF Gone

\* Subscriptions are removed, and perhaps the notification that found one of them
\* gone ends.
LEMMA RemovalKeeps ==
    ASSUME IInv, NEW S, S \subseteq Listed, Unlink(S),
           sub' = [s \in Sid |-> IF s \in S THEN NewSubscription(0) ELSE sub[s]],
           NEW R, R \subseteq pool \cup sending,
           \A n \in R : n.sid \notin Listed \ S,
           \A n, m \in R : n = m,
           pool' = pool \ R, sending' = sending \ R,
           reference_count' \in [Event -> Int],
           \A e \in Event : reference_count'[e] =
              (reference_count[e] - Cardinality(Back(e) \cap S))
                - (IF \E n \in R : n.ev = e THEN 1 ELSE 0),
           \/ registered' = registered
           \/ registered' = FALSE /\ S = Listed,
           UNCHANGED <<MaxSubscriptions, scenario, used, lastEvent, now, seenVars>>
    PROVE  IInv'
  <1> USE DEF seenVars
  <1>0. /\ subscriptionList' \in Seq(Sid)
        /\ Listed' = Listed \ S
        /\ TotalSubscriptions' = Len(subscriptionList')
        /\ TotalSubscriptions' \in Int
        /\ IsInjective(subscriptionList')
    BY UnlinkKeeps
  <1>1. TypeOK'
    <2>1. NewSubscription(0) \in Subscription
      BY GenaAssumption DEF NewSubscription, Subscription
    <2>2. sub' \in [Sid -> Subscription]
      BY <2>1 DEF IInv, TypeOK
    <2>3. pool' \subseteq Notification /\ sending' \subseteq Notification
      BY DEF IInv, TypeOK
    <2>4. registered' \in BOOLEAN
      BY DEF IInv, TypeOK
    <2> QED BY <1>0, <2>2, <2>3, <2>4 DEF IInv, TypeOK
  <1>2. ListKept'
    <2>1. ~registered' => subscriptionList' = <<>>
      <3>1. SUFFICES ASSUME ~registered' PROVE Listed' = {}
        <4>1. ASSUME Listed' = {} PROVE subscriptionList' = <<>>
          <5>1. \A i \in DOMAIN subscriptionList' : FALSE
            BY <4>1 DEF Listed, Range
          <5>2. DOMAIN subscriptionList' = 1..Len(subscriptionList') /\ Len(subscriptionList') \in Nat
            BY <1>0, LenProperties
          <5>3. Len(subscriptionList') = 0
            BY <5>1, <5>2
          <5> QED BY <1>0, <5>3, EmptySeq
        <4> QED BY <4>1
      <3>2. CASE registered' = registered
        <4>1. subscriptionList = <<>>
          BY <3>1, <3>2 DEF IInv, ListKept
        <4>2. Listed = {}
          BY <4>1 DEF Listed, Range
        <4> QED BY <1>0, <4>2
      <3>3. CASE S = Listed
        BY <1>0, <3>3
      <3> QED BY <3>2, <3>3
    <2> QED BY <1>0, <2>1 DEF IInv, ListKept
  <1>3. \A s \in Sid : /\ Waiting(s)' \in SUBSET Waiting(s) /\ InFlight(s)' \in SUBSET InFlight(s)
                       /\ Waiting(s)' \in SUBSET Event /\ InFlight(s)' \in SUBSET Event
    BY DEF Waiting, InFlight
  <1>4. UnusedKept'
    BY <1>3 DEF IInv, UnusedKept
  <1>5. SubscriptionsKept'
    <2>1. SUFFICES ASSUME NEW s \in Sid PROVE Fitting(s)'
      BY DEF SubscriptionsKept
    <2>2. Fitting(s)
      BY DEF IInv, SubscriptionsKept
    <2>3. /\ sub[s] \in Subscription /\ Waiting(s) \in SUBSET Event
          /\ InFlight(s) \in SUBSET Event /\ lastSent[s] \in LastSent
          /\ lastEvent \in Nat /\ lastEvent \in Int
      BY Facts
    <2>5. CASE s \in S
      <3>1. Served(sub[s], Waiting(s), InFlight(s), lastSent[s], lastEvent)
        BY <2>2, <2>5 DEF Fitting
      <3>2. PICK w2 \in SUBSET Event : w2 = Waiting(s)'
        BY <1>3
      <3>3. PICK f2 \in SUBSET Event : f2 = InFlight(s)'
        BY <1>3
      <3>4. w2 \subseteq Waiting(s) /\ f2 \subseteq InFlight(s)
        BY <1>3, <3>2, <3>3
      <3>5. WayFits(w2, f2, lastEvent) /\ lastSent[s].ev <= lastEvent
        BY <3>1, <3>4 DEF Served, WayFits
      <3>6. Gone(NewSubscription(0), w2, f2, lastSent[s], lastEvent)
        BY <2>3, <3>5, FitsRemoved
      <3>7. s \notin Listed' /\ sub'[s] = NewSubscription(0)
        BY <1>0, <2>5
      <3> HIDE DEF NewSubscription
      <3> QED BY <3>2, <3>3, <3>6, <3>7 DEF Fitting
    <2>6. CASE s \notin S /\ s \notin Listed
      <3>1. Gone(sub[s], Waiting(s), InFlight(s), lastSent[s], lastEvent)
        BY <2>2, <2>6 DEF Fitting
      <3>2. Gone(sub[s], Waiting(s)', InFlight(s)', lastSent[s], lastEvent)
        BY <1>3, <2>3, <3>1, FitsLess
      <3>3. s \notin Listed' /\ sub'[s] = sub[s]
        BY <1>0, <2>6
      <3> QED BY <3>2, <3>3 DEF Fitting
    <2>7. CASE s \notin S /\ s \in Listed
      <3>1. s \in Listed' /\ sub'[s] = sub[s]
        BY <1>0, <2>7
      <3>2. \A e \in Event : [sid |-> s, ev |-> e] \notin R
        <4> TAKE e \in Event
        <4>1. [sid |-> s, ev |-> e].sid = s
          OBVIOUS
        <4> QED BY <2>7, <4>1
      <3>3. Waiting(s)' = Waiting(s) /\ InFlight(s)' = InFlight(s)
        BY <3>2 DEF Waiting, InFlight
      <3> QED BY <2>2, <2>3, <2>7, <3>1, <3>3, FitsUntouched DEF IInv
    <2> QED BY <2>5, <2>6, <2>7
  <1>6. CountsKept'
    <2>1. SUFFICES ASSUME NEW e \in Event
                   PROVE  /\ Covers(reference_count'[e], Back(e)', Held(e)')
                          /\ refused' = {} => Matches(reference_count'[e], Back(e)', Held(e)')
      BY DEF CountsKept
    <2>2. /\ IsFiniteSet(Back(e)) /\ IsFiniteSet(Held(e)) /\ reference_count[e] \in Int
          /\ Listed \subseteq Sid
      BY Facts
    <2>4. /\ Covers(reference_count[e], Back(e), Held(e))
          /\ refused = {} => Matches(reference_count[e], Back(e), Held(e))
      BY DEF IInv, CountsKept
    <2>5. Back(e)' = Back(e) \ S
      <3>1. NewSubscription(0).outgoing = <<>> /\ Len(<<>>) = 0
        BY DEF NewSubscription
      <3>2. Behind(NewSubscription(0).outgoing) = {}
        BY <3>1 DEF Behind
      <3>3. ASSUME NEW s \in Sid
            PROVE  e \in Behind(sub'[s].outgoing) <=> e \in Behind(sub[s].outgoing) /\ s \notin S
        <4>1. CASE s \in S
          <5>1. sub'[s] = NewSubscription(0)
            BY <4>1
          <5> HIDE DEF NewSubscription
          <5> QED BY <3>2, <4>1, <5>1
        <4>2. CASE s \notin S
          <5>1. sub'[s] = sub[s]
            BY <4>2
          <5> QED BY <4>2, <5>1
        <4> QED BY <4>1, <4>2
      <3> QED BY <3>3 DEF Back
    <2>6. PICK r \in Int : r = reference_count[e] - Cardinality(Back(e) \cap S)
      <3>1. Cardinality(Back(e) \cap S) \in Nat
        BY <2>2, FS_Intersection, FS_CardinalityType
      <3> QED BY <2>2, <3>1
    <2>7. /\ Covers(r, Back(e)', Held(e)) /\ IsFiniteSet(Back(e)')
          /\ refused = {} => Matches(r, Back(e)', Held(e))
      <3>1. PICK B : B = Back(e)'
        OBVIOUS
      <3>2. B = Back(e) \ S
        BY <2>5, <3>1
      <3>3. /\ Covers(r, B, Held(e)) /\ IsFiniteSet(B)
            /\ refused = {} => Matches(r, B, Held(e))
        <4>1. /\ IsFiniteSet(B) /\ Cardinality(B) \in Nat /\ Cardinality(Back(e)) \in Nat
              /\ Cardinality(Back(e) \cap S) \in Nat
              /\ Cardinality(B) = Cardinality(Back(e)) - Cardinality(Back(e) \cap S)
          BY <2>2, <3>2, FewerBehind
        <4>2. Cardinality(Held(e)) \in Nat
          BY <2>2, FS_CardinalityType
        <4> QED BY <2>2, <2>4, <2>6, <4>1, <4>2 DEF Covers, Matches
      <3> QED BY <3>1, <3>3
    <2>8. CASE \E n \in R : n.ev = e
      <3>1. PICK n \in R : n.ev = e
        BY <2>8
      <3>2. n \in Notification /\ (n \in pool \/ n \in sending) /\ R = {n}
        BY DEF IInv, TypeOK
      <3>3. n = [sid |-> n.sid, ev |-> e] /\ n.sid \in Sid
        BY <3>1, <3>2, NotificationEvents
      <3>4. n.sid \in Held(e)
        BY <3>2, <3>3 DEF Held, Waiting, InFlight
      <3>5. \A s \in Sid : [sid |-> s, ev |-> e] = n <=> s = n.sid
        BY <3>3
      <3>6. \A s \in Sid : e \in Waiting(s)' \cup InFlight(s)' <=>
                              e \in Waiting(s) \cup InFlight(s) /\ s # n.sid
        BY <3>2, <3>5 DEF Waiting, InFlight
      <3>7. Held(e)' = Held(e) \ {n.sid}
        BY <3>6 DEF Held
      <3>8. reference_count'[e] = r - 1
        BY <2>6, <2>8
      <3>9. PICK B : B = Back(e)'
        OBVIOUS
      <3>10. IsFiniteSet(B)
        BY <2>7, <3>9
      <3>11. /\ Covers(r, B, Held(e)) => Covers(r - 1, B, Held(e) \ {n.sid})
             /\ Matches(r, B, Held(e)) => Matches(r - 1, B, Held(e) \ {n.sid})
        BY <2>2, <3>4, <3>10, CountEnded
      <3> QED BY <2>7, <3>7, <3>8, <3>9, <3>11
    <2>9. CASE ~ \E n \in R : n.ev = e
      <3>1. \A s \in Sid : [sid |-> s, ev |-> e] \notin R
        <4> TAKE s \in Sid
        <4>1. [sid |-> s, ev |-> e].ev = e
          OBVIOUS
        <4> QED BY <2>9, <4>1
      <3>2. Held(e)' = Held(e)
        BY <3>1 DEF Held, Waiting, InFlight
      <3>3. reference_count'[e] = r
        BY <2>6, <2>9
      <3> QED BY <2>7, <3>2, <3>3
    <2> QED BY <2>8, <2>9
  <1> QED BY <1>1, <1>2, <1>4, <1>5, <1>6 DEF IInv

\* RemoveSubscriptionSID() and the lookups that find S expired.
LEMMA RemoveSubscriptionsKeeps ==
    ASSUME IInv, NEW S, S \subseteq Listed, RemoveSubscriptions(S),
           \/ registered' = registered
           \/ registered' = FALSE /\ S = Listed,
           UNCHANGED <<MaxSubscriptions, scenario, used, pool, sending, lastEvent, now, seenVars>>
    PROVE  IInv'
  <1>1. /\ Unlink(S) /\ reference_count' = Released(QueuedEvents(S))
        /\ sub' = [s \in Sid |-> IF s \in S THEN NewSubscription(0) ELSE sub[s]]
    BY DEF RemoveSubscriptions
  <1>2. TypeOK /\ Ascending /\ S \subseteq Sid
    BY Facts DEF IInv
  <1>3. \A e \in Event : /\ Released(QueuedEvents(S))[e] =
                               reference_count[e] - Cardinality(Back(e) \cap S)
                         /\ Released(QueuedEvents(S))[e] \in Int
    <2> TAKE e \in Event
    <2>1. IsFiniteSet(Back(e)) /\ reference_count[e] \in Int
      BY Facts
    <2>2. Cardinality(Back(e) \cap S) \in Nat
      BY <2>1, FewerBehind
    <2>3. Released(QueuedEvents(S))[e] = reference_count[e] - Cardinality(Back(e) \cap S)
      BY <1>2, ReleasedQueues
    <2> QED BY <2>1, <2>2, <2>3
  <1>4. reference_count' \in [Event -> Int]
    <2>1. DOMAIN Released(QueuedEvents(S)) = Event
      BY DEF Released
    <2>2. \A e \in Event : Released(QueuedEvents(S))[e] \in Int
      BY <1>3
    <2>3. Released(QueuedEvents(S)) = [e \in Event |-> Released(QueuedEvents(S))[e]]
      BY DEF Released
    <2> QED BY <1>1, <2>1, <2>2, <2>3
  <1>5. PICK R : R = {}
    OBVIOUS
  <1>6. \A e \in Event : reference_count'[e] =
           (reference_count[e] - Cardinality(Back(e) \cap S))
             - (IF \E n \in R : n.ev = e THEN 1 ELSE 0)
    BY <1>1, <1>3, <1>5
  <1>7. /\ R \subseteq pool \cup sending
        /\ \A n \in R : n.sid \notin Listed \ S
        /\ \A n, m \in R : n = m
        /\ pool' = pool \ R /\ sending' = sending \ R
    BY <1>5
  <1>8. UNCHANGED <<MaxSubscriptions, scenario, used, lastEvent, now, seenVars>>
    OBVIOUS
  <1> QED BY <1>1, <1>4, <1>6, <1>7, <1>8, RemovalKeeps

\* A notification finds its subscription gone.
LEMMA VoidKeeps ==
    ASSUME IInv, NEW n \in pool \cup sending, ~Found(n.sid),
           Unlink(Dropped(n.sid)),
           sub' = [s \in Sid |-> IF s \in Dropped(n.sid) THEN NewSubscription(0) ELSE sub[s]],
           reference_count' = [Released(QueuedEvents(Dropped(n.sid))) EXCEPT ![n.ev] = @ - 1],
           pool' = pool \ {n}, sending' = sending \ {n},
           UNCHANGED <<handleVars, used, lastEvent, now, seenVars>>
    PROVE  IInv'
  <1>1. PICK S : S = Dropped(n.sid)
    OBVIOUS
  <1>2. S \subseteq Listed /\ n.sid \notin Listed \ S
    <2>1. S \subseteq Listed
      BY <1>1 DEF Dropped
    <2>2. CASE registered
      BY <1>1, <2>2 DEF Dropped, Found
    <2>3. CASE ~registered
      <3>1. Listed = {}
        BY <2>3 DEF IInv, ListKept, Listed, Range
      <3> QED BY <2>1, <3>1
    <2> QED BY <2>1, <2>2, <2>3
  <1>3. TypeOK /\ Ascending /\ S \subseteq Sid
    BY <1>2, Facts DEF IInv
  <1>4. \A e \in Event : /\ Released(QueuedEvents(S))[e] =
                               reference_count[e] - Cardinality(Back(e) \cap S)
                         /\ Released(QueuedEvents(S))[e] \in Int
    <2> TAKE e \in Event
    <2>1. IsFiniteSet(Back(e)) /\ reference_count[e] \in Int
      BY Facts
    <2>2. Cardinality(Back(e) \cap S) \in Nat
      BY <2>1, FewerBehind
    <2>3. Released(QueuedEvents(S))[e] = reference_count[e] - Cardinality(Back(e) \cap S)
      BY <1>3, ReleasedQueues
    <2> QED BY <2>1, <2>2, <2>3
  <1>5. n \in Notification
    BY DEF IInv, TypeOK
  <1>6. n.sid \in Sid /\ n.ev \in Event
    BY <1>5, NotificationEvents
  <1>7. PICK rel : rel = Released(QueuedEvents(S))
    OBVIOUS
  <1>8. rel \in [Event -> Int]
    <2>1. \A e \in Event : Released(QueuedEvents(S))[e] \in Int
      BY <1>4
    <2>2. Released(QueuedEvents(S)) = [e \in Event |-> Released(QueuedEvents(S))[e]]
      BY DEF Released
    <2> QED BY <1>7, <2>1, <2>2
  <1>9. reference_count' = [rel EXCEPT ![n.ev] = rel[n.ev] - 1]
    BY <1>1, <1>7
  <1>10. reference_count' \in [Event -> Int]
    <2>1. rel[n.ev] - 1 \in Int
      BY <1>6, <1>8
    <2> QED BY <1>6, <1>8, <1>9, <2>1
  <1>11. PICK R : R = {n}
    OBVIOUS
  <1>12. \A e \in Event : reference_count'[e] =
           (reference_count[e] - Cardinality(Back(e) \cap S))
             - (IF \E m \in R : m.ev = e THEN 1 ELSE 0)
    <2> TAKE e \in Event
    <2>1. rel[e] = reference_count[e] - Cardinality(Back(e) \cap S) /\ rel[e] \in Int
      BY <1>4, <1>7, <1>8
    <2>2. (\E m \in R : m.ev = e) <=> n.ev = e
      BY <1>11
    <2>3. CASE n.ev = e
      BY <1>8, <1>9, <2>1, <2>2, <2>3
    <2>4. CASE n.ev # e
      BY <1>8, <1>9, <2>1, <2>2, <2>4
    <2> QED BY <2>3, <2>4
  <1>13. /\ R \subseteq pool \cup sending
         /\ \A m \in R : m.sid \notin Listed \ S
         /\ \A l, m \in R : l = m
         /\ pool' = pool \ R /\ sending' = sending \ R
    BY <1>2, <1>11
  <1>14. /\ Unlink(S)
         /\ sub' = [s \in Sid |-> IF s \in S THEN NewSubscription(0) ELSE sub[s]]
    BY <1>1
  <1>15. /\ UNCHANGED <<MaxSubscriptions, scenario, used, lastEvent, now, seenVars>>
         /\ registered' = registered
    BY DEF handleVars
  <1> QED BY <1>2, <1>10, <1>12, <1>13, <1>14, <1>15, RemovalKeeps

\* Nothing but the time or the limit changes.
LEMMA QuietKeeps ==
    ASSUME IInv, now' \in Nat, MaxSubscriptions' \in Nat \cup {UPNP_INFINITE},
           UNCHANGED <<registered, scenario, subscriptionList, TotalSubscriptions, sub, used,
                       pool, sending, lastEvent, reference_count, seenVars>>
    PROVE  IInv'
  <1> USE DEF seenVars
  <1>1. TypeOK'
    BY DEF IInv, TypeOK
  <1>2. Listed' = Listed
    BY DEF Listed
  <1>3. ListKept'
    BY <1>2 DEF IInv, ListKept
  <1>4. \A s : Waiting(s)' = Waiting(s) /\ InFlight(s)' = InFlight(s)
    BY DEF Waiting, InFlight
  <1>5. UnusedKept'
    BY <1>4 DEF IInv, UnusedKept
  <1>6. SubscriptionsKept'
    <2>1. ASSUME NEW s \in Sid PROVE Fitting(s)'
      <3>1. Fitting(s) /\ TypeOK /\ lastEvent \in Nat
        BY Facts DEF IInv, SubscriptionsKept
      <3> QED BY <1>2, <1>4, <3>1, FitsUntouched
    <2> QED BY <2>1 DEF SubscriptionsKept
  <1>7. CountsKept'
    <2>1. \A e : Back(e)' = Back(e)
      BY DEF Back
    <2>2. \A e : Held(e)' = Held(e)
      BY <1>4 DEF Held
    <2>3. ASSUME NEW e \in Event
          PROVE  /\ Covers(reference_count'[e], Back(e)', Held(e)')
                 /\ refused' = {} => Matches(reference_count'[e], Back(e)', Held(e)')
      <3>1. /\ Covers(reference_count[e], Back(e), Held(e))
            /\ refused = {} => Matches(reference_count[e], Back(e), Held(e))
        BY DEF IInv, CountsKept
      <3> QED BY <2>1, <2>2, <3>1
    <2> QED BY <2>3 DEF CountsKept
  <1> QED BY <1>1, <1>3, <1>5, <1>6, <1>7 DEF IInv

\* The clock keeps the invariant.
LEMMA TickKeeps == IInv /\ Tick => IInv'
  <1> SUFFICES ASSUME IInv, Tick PROVE IInv'
    OBVIOUS
  <1>1. now' \in Nat /\ MaxSubscriptions' \in Nat \cup {UPNP_INFINITE}
    BY DEF Tick, IInv, TypeOK, listVars, handleVars
  <1>2. UNCHANGED <<registered, scenario, subscriptionList, TotalSubscriptions, sub, used,
                    pool, sending, lastEvent, reference_count, seenVars>>
    BY DEF Tick, listVars, handleVars
  <1> QED BY <1>1, <1>2, QuietKeeps

\* UpnpSetMaxSubscriptions() keeps the invariant.
LEMMA SetMaxSubscriptionsKeeps == IInv /\ SetMaxSubscriptions => IInv'
  <1> SUFFICES ASSUME IInv, SetMaxSubscriptions PROVE IInv'
    OBVIOUS
  <1>1. MaxSubscriptions' \in Nat \cup {UPNP_INFINITE}
    BY GenaAssumption DEF SetMaxSubscriptions, IInv, TypeOK
  <1>2. now' \in Nat
    BY DEF SetMaxSubscriptions, IInv, TypeOK
  <1>3. UNCHANGED <<registered, scenario, subscriptionList, TotalSubscriptions, sub, used,
                    pool, sending, lastEvent, reference_count, seenVars>>
    BY DEF SetMaxSubscriptions
  <1> QED BY <1>1, <1>2, <1>3, QuietKeeps

\* genaUnregisterDevice() keeps the invariant.
LEMMA UnregisterKeeps == IInv /\ UnregisterDevice => IInv'
  <1> SUFFICES ASSUME IInv, UnregisterDevice PROVE IInv'
    OBVIOUS
  <1> QED BY RemoveSubscriptionsKeeps DEF UnregisterDevice

\* gena_process_unsubscribe_request() keeps the invariant.
LEMMA UnsubscribeKeeps == ASSUME IInv, NEW s \in Sid, Unsubscribe(s) PROVE IInv'
  <1>1. RemoveSubscriptions({s}) /\ {s} \subseteq Listed
    BY DEF Unsubscribe
  <1>2. /\ registered' = registered
        /\ UNCHANGED <<MaxSubscriptions, scenario, used, pool, sending, lastEvent, now, seenVars>>
    BY DEF Unsubscribe, handleVars
  <1> QED BY <1>1, <1>2, RemoveSubscriptionsKeeps

\* A step that touches the subscription s alone.
LEMMA OneTouched ==
    ASSUME IInv, NEW s \in Sid, Fitting(s)', lastEvent' \in Nat, lastEvent <= lastEvent',
           \A t \in Sid \ {s} :
              /\ t \in Listed' <=> t \in Listed
              /\ t \in refused' <=> t \in refused
              /\ sub'[t] = sub[t] /\ lastSent'[t] = lastSent[t] /\ initial'[t] = initial[t]
              /\ Waiting(t)' = Waiting(t) /\ InFlight(t)' = InFlight(t)
    PROVE  SubscriptionsKept'
  <1>1. ASSUME NEW t \in Sid \ {s} PROVE Fitting(t)'
    <2>1. Fitting(t) /\ TypeOK
      BY DEF IInv, SubscriptionsKept
    <2> QED BY <1>1, <2>1, FitsUntouched
  <1>2. \A t \in Sid : Fitting(t)'
    BY <1>1
  <1> QED BY <1>2 DEF SubscriptionsKept

\* The time granted to a subscription.
LEMMA ExpireTimeType ==
    ASSUME IInv, NEW timeout \in Timeouts
    PROVE  ExpireTime(timeout) \in Nat
  <1>1. now \in Nat /\ timeout \in Nat \cup {-1}
    BY GenaAssumption DEF IInv, TypeOK
  <1>2. MaxSubscriptionTimeOut \in Nat \cup {-1}
    BY GenaAssumption DEF UPNP_INFINITE
  <1> QED BY <1>1, <1>2 DEF ExpireTime

\* The counters of a step that leaves queues and notifications alone.
LEMMA SameCounts ==
    ASSUME IInv, reference_count' = reference_count, refused' = refused,
           \A t \in Sid : sub'[t].outgoing = sub[t].outgoing,
           pool' = pool, sending' = sending
    PROVE  CountsKept'
  <1>1. \A e : Back(e)' = Back(e)
    BY DEF Back
  <1>2. \A e : Held(e)' = Held(e)
    BY DEF Held, Waiting, InFlight
  <1>3. ASSUME NEW e \in Event
        PROVE  /\ Covers(reference_count'[e], Back(e)', Held(e)')
               /\ refused' = {} => Matches(reference_count'[e], Back(e)', Held(e)')
    <2>1. /\ Covers(reference_count[e], Back(e), Held(e))
          /\ refused = {} => Matches(reference_count[e], Back(e), Held(e))
      BY DEF IInv, CountsKept
    <2> QED BY <1>1, <1>2, <2>1
  <1> QED BY <1>3 DEF CountsKept

\* gena_process_subscription_request() keeps the invariant.
LEMMA SubscribeKeeps == ASSUME IInv, NEW s \in Sid, Subscribe(s) PROVE IInv'
  <1> USE DEF seenVars, handleVars
  <1>1. PICK timeout \in Timeouts : sub' = [sub EXCEPT ![s] = NewSubscription(ExpireTime(timeout))]
    BY DEF Subscribe
  <1>2. /\ registered /\ s \notin used
        /\ used' = used \cup {s}
        /\ subscriptionList' = <<s>> \o subscriptionList
        /\ TotalSubscriptions' = TotalSubscriptions + 1
        /\ UNCHANGED <<registered, MaxSubscriptions, scenario, pool, sending, lastEvent,
                       reference_count, now, lastSent, initial, refused>>
    BY DEF Subscribe
  <1>3. PICK x \in Nat : x = ExpireTime(timeout)
    BY ExpireTimeType
  <1>4. NewSubscription(x) \in Subscription
    BY <1>3, GenaAssumption DEF NewSubscription, Subscription
  <1>5. sub' = [sub EXCEPT ![s] = NewSubscription(x)]
    BY <1>1, <1>3
  <1> HIDE DEF NewSubscription
  <1>6. /\ sub' \in [Sid -> Subscription]
        /\ sub'[s] = NewSubscription(x)
        /\ \A t \in Sid \ {s} : sub'[t] = sub[t]
    BY <1>4, <1>5 DEF IInv, TypeOK
  <1>7. PICK list \in Seq(Sid) : list = subscriptionList
    BY DEF IInv, TypeOK
  <1>8. /\ subscriptionList' \in Seq(Sid)
        /\ Len(subscriptionList') = Len(list) + 1
        /\ \A i \in 1..(Len(list) + 1) : subscriptionList'[i] = IF i = 1 THEN s ELSE list[i - 1]
    <2>1. <<s>> \in Seq(Sid) /\ Len(<<s>>) = 1 /\ <<s>>[1] = s
      OBVIOUS
    <2>2. PICK one \in Seq(Sid) : one = <<s>>
      BY <2>1
    <2>3. /\ one \o list \in Seq(Sid) /\ Len(one \o list) = Len(one) + Len(list)
          /\ \A i \in 1..(Len(one) + Len(list)) :
                (one \o list)[i] = IF i <= Len(one) THEN one[i] ELSE list[i - Len(one)]
      BY ConcatProperties
    <2>4. Len(one) = 1 /\ one[1] = s /\ subscriptionList' = one \o list /\ Len(list) \in Nat
      BY <1>2, <1>7, <2>1, <2>2, LenProperties
    <2> QED BY <2>3, <2>4
  <1>9. /\ Len(list) \in Nat /\ DOMAIN list = 1..Len(list)
        /\ DOMAIN subscriptionList' = 1..(Len(list) + 1)
        /\ IsInjective(list) /\ s \notin Range(list)
        /\ TotalSubscriptions = Len(list)
    BY <1>2, <1>7, <1>8, LenProperties DEF IInv, ListKept, Listed
  <1>10. Listed' = Listed \cup {s}
    <2>1. ASSUME NEW t \in Listed' PROVE t \in Listed \cup {s}
      <3>1. PICK i \in 1..(Len(list) + 1) : t = subscriptionList'[i]
        BY <1>9 DEF Listed, Range
      <3>2. CASE i = 1
        BY <1>8, <3>1, <3>2
      <3>3. CASE i # 1
        <4>1. i - 1 \in 1..Len(list) /\ t = list[i - 1]
          BY <1>8, <1>9, <3>1, <3>3
        <4> QED BY <1>7, <1>9, <4>1 DEF Listed, Range
      <3> QED BY <3>2, <3>3
    <2>2. ASSUME NEW t \in Listed PROVE t \in Listed'
      <3>1. PICK i \in 1..Len(list) : t = list[i]
        BY <1>7, <1>9 DEF Listed, Range
      <3>2. i + 1 \in 1..(Len(list) + 1) /\ i + 1 # 1 /\ (i + 1) - 1 = i
        BY <1>9
      <3>3. subscriptionList'[i + 1] = t
        BY <1>8, <3>1, <3>2
      <3> QED BY <1>9, <3>2, <3>3 DEF Listed, Range
    <2>3. s \in Listed'
      <3>1. 1 \in DOMAIN subscriptionList' /\ subscriptionList'[1] = s
        BY <1>8, <1>9
      <3> QED BY <3>1 DEF Listed, Range
    <2> QED BY <2>1, <2>2, <2>3
  <1>11. IsInjective(subscriptionList')
    <2>1. ASSUME NEW i \in 1..(Len(list) + 1), NEW j \in 1..(Len(list) + 1), i < j
          PROVE  subscriptionList'[i] # subscriptionList'[j]
      <3>1. j - 1 \in 1..Len(list) /\ subscriptionList'[j] = list[j - 1]
        BY <1>8, <1>9, <2>1
      <3>2. CASE i = 1
        BY <1>8, <1>9, <3>1, <3>2 DEF Range
      <3>3. CASE i # 1
        <4>1. i - 1 \in 1..Len(list) /\ subscriptionList'[i] = list[i - 1] /\ i - 1 # j - 1
          BY <1>8, <1>9, <2>1, <3>3
        <4> QED BY <1>9, <3>1, <4>1 DEF IsInjective
      <3> QED BY <3>2, <3>3
    <2>2. \A i, j \in 1..(Len(list) + 1) : i < j \/ j < i \/ i = j
      BY <1>9
    <2> QED BY <1>9, <2>1, <2>2 DEF IsInjective
  <1>12. TotalSubscriptions' = Len(subscriptionList') /\ TotalSubscriptions' \in Int
    BY <1>2, <1>8, <1>9
  <1>13. TypeOK'
    BY <1>2, <1>6, <1>8, <1>12 DEF IInv, TypeOK
  <1>14. ListKept'
    BY <1>2, <1>10, <1>11, <1>12 DEF IInv, ListKept
  <1>15. \A t : Waiting(t)' = Waiting(t) /\ InFlight(t)' = InFlight(t)
    BY <1>2 DEF Waiting, InFlight
  <1>16. UnusedKept'
    BY <1>2, <1>15 DEF IInv, UnusedKept
  <1>17. Fitting(s)'
    <2>1. Waiting(s) = {} /\ InFlight(s) = {} /\ lastSent[s].ev = 0 /\ lastSent[s].seq = -1
      BY <1>2 DEF IInv, UnusedKept
    <2>2. lastSent[s] \in LastSent /\ lastEvent \in Nat
      BY Facts
    <2>3. /\ Served(NewSubscription(x), {}, {}, lastSent[s], lastEvent)
          /\ Prompt(NewSubscription(x), {}, {}, lastSent[s], initial[s])
      BY <2>1, <2>2, FitsMade
    <2>4. s \in Listed'
      BY <1>10
    <2> QED BY <1>2, <1>6, <1>15, <2>1, <2>3, <2>4 DEF Fitting
  <1>18. SubscriptionsKept'
    <2>1. lastEvent \in Nat
      BY Facts
    <2>2. \A t \in Sid \ {s} :
             /\ t \in Listed' <=> t \in Listed
             /\ t \in refused' <=> t \in refused
             /\ sub'[t] = sub[t] /\ lastSent'[t] = lastSent[t] /\ initial'[t] = initial[t]
             /\ Waiting(t)' = Waiting(t) /\ InFlight(t)' = InFlight(t)
      BY <1>2, <1>6, <1>10, <1>15
    <2>3. lastEvent' \in Nat /\ lastEvent <= lastEvent'
      BY <1>2, <2>1
    <2> QED BY <1>17, <2>2, <2>3, OneTouched
  <1>19. CountsKept'
    <2>1. sub[s].outgoing = <<>>
      <3>1. Fitting(s) /\ s \notin Listed
        BY <1>7, <1>9 DEF IInv, SubscriptionsKept, Listed
      <3> QED BY <3>1 DEF Fitting, Gone, QueueFits
    <2>2. NewSubscription(x).outgoing = <<>>
      BY DEF NewSubscription
    <2>3. \A t \in Sid : sub'[t].outgoing = sub[t].outgoing
      BY <1>6, <2>1, <2>2
    <2> QED BY <1>2, <2>3, SameCounts
  <1> QED BY <1>13, <1>14, <1>16, <1>18, <1>19 DEF IInv

\* The new time of a subscription that is renewed.
LEMMA RenewedKeeps ==
    ASSUME IInv, NEW s \in Sid, NEW timeout \in Timeouts, s \in Listed,
           sub' = [sub EXCEPT ![s].expireTime = ExpireTime(timeout)],
           UNCHANGED <<subscriptionList, TotalSubscriptions, reference_count, handleVars, used,
                       pool, sending, lastEvent, now, seenVars>>
    PROVE  IInv'
  <1> USE DEF seenVars, handleVars
  <1>1. PICK x \in Nat : x = ExpireTime(timeout)
    BY ExpireTimeType
  <1>2. PICK b \in Subscription : b = sub[s]
    BY DEF IInv, TypeOK
  <1>3. PICK b2 : b2 = [b EXCEPT !.expireTime = x]
    OBVIOUS
  <1>4. /\ b2 \in Subscription /\ b2.active = b.active
        /\ b2.ToSendEventKey = b.ToSendEventKey /\ b2.outgoing = b.outgoing
    BY <1>3 DEF Subscription
  <1>5. sub' = [sub EXCEPT ![s] = b2]
    BY <1>1, <1>2, <1>3
  <1>6. /\ sub' \in [Sid -> Subscription] /\ sub'[s] = b2
        /\ \A t \in Sid \ {s} : sub'[t] = sub[t]
    BY <1>4, <1>5 DEF IInv, TypeOK
  <1>7. TypeOK'
    BY <1>6 DEF IInv, TypeOK
  <1>8. Listed' = Listed
    BY DEF Listed
  <1>9. ListKept'
    BY <1>8 DEF IInv, ListKept
  <1>10. \A t : Waiting(t)' = Waiting(t) /\ InFlight(t)' = InFlight(t)
    BY DEF Waiting, InFlight
  <1>11. UnusedKept'
    BY <1>10 DEF IInv, UnusedKept
  <1>12. Fitting(s)'
    <2>1. Fitting(s)
      BY DEF IInv, SubscriptionsKept
    <2>2. /\ Served(b, Waiting(s), InFlight(s), lastSent[s], lastEvent)
          /\ s \notin refused => Prompt(b, Waiting(s), InFlight(s), lastSent[s], initial[s])
      BY <1>2, <2>1 DEF Fitting
    <2>3. /\ Waiting(s) \in SUBSET Event /\ InFlight(s) \in SUBSET Event
          /\ lastSent[s] \in LastSent /\ lastEvent \in Int
      BY Facts
    <2>4. /\ Served(b2, Waiting(s), InFlight(s), lastSent[s], lastEvent)
          /\ \A first : Prompt(b, Waiting(s), InFlight(s), lastSent[s], first) =>
                Prompt(b2, Waiting(s), InFlight(s), lastSent[s], first)
      BY <1>4, <2>2, <2>3, FitsTouched
    <2> QED BY <1>6, <1>8, <1>10, <2>2, <2>4 DEF Fitting
  <1>13. SubscriptionsKept'
    <2>1. lastEvent \in Nat
      BY Facts
    <2> QED BY <1>6, <1>8, <1>10, <1>12, <2>1, OneTouched
  <1>14. CountsKept'
    <2>1. \A t \in Sid : sub'[t].outgoing = sub[t].outgoing
      BY <1>2, <1>4, <1>6
    <2> QED BY <2>1, SameCounts
  <1> QED BY <1>7, <1>9, <1>11, <1>13, <1>14 DEF IInv

\* gena_process_subscription_renewal_request() keeps the invariant.
LEMMA RenewKeeps == ASSUME IInv, NEW s \in Sid, Renew(s) PROVE IInv'
  <1>1. UNCHANGED <<handleVars, used, pool, sending, lastEvent, now, seenVars>>
    BY DEF Renew
  <1>2. /\ registered' = registered
        /\ UNCHANGED <<MaxSubscriptions, scenario, used, pool, sending, lastEvent, now, seenVars>>
    BY <1>1 DEF handleVars
  <1>3. CASE RemoveSubscriptions(Dropped(s))
    <2>1. Dropped(s) \subseteq Listed
      BY DEF Dropped
    <2> QED BY <1>2, <1>3, <2>1, RemoveSubscriptionsKeeps
  <1>4. CASE Found(s) /\ RemoveSubscriptions({s})
    <2>1. {s} \subseteq Listed
      BY <1>4 DEF Found
    <2> QED BY <1>2, <1>4, <2>1, RemoveSubscriptionsKeeps
  <1>5. CASE /\ Found(s)
             /\ \E timeout \in Timeouts : sub' = [sub EXCEPT ![s].expireTime = ExpireTime(timeout)]
             /\ UNCHANGED <<subscriptionList, TotalSubscriptions, reference_count>>
    <2>1. PICK timeout \in Timeouts : sub' = [sub EXCEPT ![s].expireTime = ExpireTime(timeout)]
      BY <1>5
    <2>2. s \in Listed
      BY <1>5 DEF Found
    <2> QED BY <1>1, <1>5, <2>1, <2>2, RenewedKeeps
  <1> QED BY <1>3, <1>4, <1>5 DEF Renew

\* A property set that has just been made is in no queue and on no way.
LEMMA NewEvent ==
    ASSUME IInv, lastEvent < scenario.events
    PROVE  /\ lastEvent + 1 \in Event /\ lastEvent + 1 \in 0..MaxEvents /\ lastEvent \in Nat
           /\ Back(lastEvent + 1) = {} /\ Held(lastEvent + 1) = {}
  <1>1. scenario.events \in 0..MaxEvents /\ lastEvent \in 0..MaxEvents /\ MaxEvents \in Nat
    BY GenaAssumption DEF IInv, TypeOK
  <1>2. lastEvent + 1 \in Event /\ lastEvent + 1 \in 0..MaxEvents /\ lastEvent \in Nat
    BY <1>1 DEF Event
  <1>3. PICK e \in Int : e = lastEvent + 1
    BY <1>2
  <1>4. ASSUME NEW s \in Back(e) PROVE FALSE
    <2>1. s \in Sid /\ e \in Behind(sub[s].outgoing)
      BY DEF Back
    <2>2. PICK i \in 2..Len(sub[s].outgoing) : sub[s].outgoing[i].ev = e
      BY <2>1 DEF Behind
    <2>3. Ordered(sub[s].outgoing, lastEvent) /\ i \in 1..Len(sub[s].outgoing)
      BY <2>1, Facts DEF Ascending
    <2>4. e <= lastEvent
      BY <2>2, <2>3 DEF Ordered
    <2> QED BY <1>2, <1>3, <2>4
  <1>5. ASSUME NEW s \in Held(e) PROVE FALSE
    <2>1. s \in Sid /\ e \in Waiting(s) \cup InFlight(s)
      BY DEF Held
    <2>2. Fitting(s)
      BY <2>1 DEF IInv, SubscriptionsKept
    <2>3. e <= lastEvent
      BY <2>1, <2>2 DEF Fitting, Served, Gone, WayFits
    <2> QED BY <1>2, <1>3, <2>3
  <1> QED BY <1>2, <1>3, <1>4, <1>5

\* UpnpAcceptSubscription(): the initial event is queued, and the pool takes it.
LEMMA AcceptedKeeps ==
    ASSUME IInv, NEW s \in Sid, s \in Listed, ~sub[s].active,
           lastEvent < scenario.events,
           NEW e, e = lastEvent + 1,
           NEW job, job = [ev |-> e, ctime |-> now, stale |-> TRUE],
           sub' = [sub EXCEPT ![s].active = TRUE, ![s].outgoing = Append(@, job)],
           pool' = pool \cup {[sid |-> s, ev |-> e]},
           reference_count' = [reference_count EXCEPT ![e] = 1],
           lastEvent' = e,
           initial' = [initial EXCEPT ![s] = e],
           UNCHANGED <<refused, listVars, used, sending, now, lastSent>>
    PROVE  IInv'
  <1> USE DEF handleVars, listVars
  <1>1. /\ e \in Event /\ e \in 0..MaxEvents /\ lastEvent \in Nat /\ e \in Nat
        /\ Back(e) = {} /\ Held(e) = {}
    BY NewEvent
  <1>2. job \in QueuedJob /\ job.ev = e /\ job.stale = TRUE
    BY <1>1 DEF IInv, TypeOK, QueuedJob
  <1>3. PICK b \in Subscription : b = sub[s]
    BY DEF IInv, TypeOK
  <1>4. b.outgoing = <<>>
    <2>1. Fitting(s)
      BY DEF IInv, SubscriptionsKept
    <2> QED BY <1>3, <2>1 DEF Fitting, Served, QueueFits
  <1>5. PICK q \in Seq(QueuedJob) : q = Append(b.outgoing, job)
    <2>1. b.outgoing \in Seq(QueuedJob)
      BY DEF Subscription
    <2> QED BY <1>2, <2>1, AppendProperties
  <1>6. Len(q) = 1
    BY <1>4, <1>5
  <1>7. PICK b2 : b2 = [b EXCEPT !.active = TRUE, !.outgoing = q]
    OBVIOUS
  <1>8. /\ b2 \in Subscription /\ b2.active = TRUE
        /\ b2.ToSendEventKey = b.ToSendEventKey /\ b2.outgoing = q
    BY <1>7 DEF Subscription
  <1>9. sub' = [sub EXCEPT ![s] = b2]
    BY <1>3, <1>5, <1>7
  <1>10. /\ sub' \in [Sid -> Subscription] /\ sub'[s] = b2
         /\ \A t \in Sid \ {s} : sub'[t] = sub[t]
    BY <1>8, <1>9 DEF IInv, TypeOK
  <1>11. TypeOK'
    <2>1. [sid |-> s, ev |-> e] \in Notification
      BY <1>1 DEF Notification
    <2>2. pool' \subseteq Notification
      BY <2>1 DEF IInv, TypeOK
    <2>3. reference_count' \in [Event -> Int] /\ initial' \in [Sid -> 0..MaxEvents]
      BY <1>1 DEF IInv, TypeOK
    <2> QED BY <1>1, <1>10, <2>2, <2>3 DEF IInv, TypeOK
  <1>12. Listed' = Listed
    BY DEF Listed
  <1>13. ListKept'
    BY <1>12 DEF IInv, ListKept
  <1>14. /\ \A t \in Sid : InFlight(t)' = InFlight(t)
         /\ \A t \in Sid \ {s} : Waiting(t)' = Waiting(t)
         /\ Waiting(s)' = Waiting(s) \cup {e}
    BY <1>1 DEF Waiting, InFlight
  <1>15. UnusedKept'
    <2>1. s \in used
      BY DEF IInv, ListKept
    <2> QED BY <1>14, <2>1 DEF IInv, UnusedKept
  <1>16. Fitting(s)'
    <2>1. Fitting(s)
      BY DEF IInv, SubscriptionsKept
    <2>2. Served(b, Waiting(s), InFlight(s), lastSent[s], lastEvent) /\ ~b.active
      BY <1>3, <2>1 DEF Fitting
    <2>3. /\ Waiting(s) \in SUBSET Event /\ InFlight(s) \in SUBSET Event
          /\ lastSent[s] \in LastSent
      BY Facts
    <2>4. PICK d \in Event : d = e
      BY <1>1
    <2>5. PICK w2 \in SUBSET Event : w2 = Waiting(s) \cup {d}
      BY <2>3
    <2>6. d \in w2 /\ w2 \subseteq Waiting(s) \cup {d}
      BY <2>5
    <2>7. /\ Len(b2.outgoing) = 1 /\ b2.outgoing[1].ev = d /\ b2.outgoing[1].stale
          /\ b2.active /\ b2 \in Subscription /\ b2.ToSendEventKey = b.ToSendEventKey
          /\ lastEvent \in Nat /\ lastEvent < d
      BY <1>1, <1>2, <1>4, <1>5, <1>6, <1>8, <2>4
    <2>8. /\ Served(b2, w2, InFlight(s), lastSent[s], d)
          /\ Prompt(b2, w2, InFlight(s), lastSent[s], d)
      BY <2>2, <2>3, <2>6, <2>7, FitsAccepted
    <2>9. initial'[s] = d /\ lastEvent' = d /\ Waiting(s)' = w2
      BY <1>14, <2>4, <2>5 DEF IInv, TypeOK
    <2> QED BY <1>10, <1>12, <1>14, <2>8, <2>9 DEF Fitting
  <1>17. SubscriptionsKept'
    <2>1. \A t \in Sid \ {s} :
             /\ t \in Listed' <=> t \in Listed
             /\ t \in refused' <=> t \in refused
             /\ sub'[t] = sub[t] /\ lastSent'[t] = lastSent[t] /\ initial'[t] = initial[t]
             /\ Waiting(t)' = Waiting(t) /\ InFlight(t)' = InFlight(t)
      BY <1>10, <1>12, <1>14 DEF IInv, TypeOK
    <2>2. lastEvent' \in Nat /\ lastEvent <= lastEvent'
      BY <1>1
    <2> QED BY <1>16, <2>1, <2>2, OneTouched
  <1>18. CountsKept'
    <2>1. \A t \in Sid : Behind(sub'[t].outgoing) = Behind(sub[t].outgoing)
      <3>1. Behind(q) = {} /\ Behind(b.outgoing) = {}
        BY <1>4, <1>6 DEF Behind
      <3> QED BY <1>3, <1>8, <1>10, <3>1
    <2>2. \A d : Back(d)' = Back(d)
      BY <2>1 DEF Back
    <2>3. ASSUME NEW d \in Event
          PROVE  /\ Covers(reference_count'[d], Back(d)', Held(d)')
                 /\ refused' = {} => Matches(reference_count'[d], Back(d)', Held(d)')
      <3>1. CASE d = e
        <4>1. Held(d)' = {s}
          <5>1. \A t \in Sid : d \in Waiting(t)' \cup InFlight(t)' <=> t = s
            BY <1>1, <1>14, <3>1 DEF Held
          <5> QED BY <5>1 DEF Held
        <4>2. Cardinality(Held(d)') = 1 /\ Cardinality(Back(d)') = 0
          BY <1>1, <2>2, <3>1, <4>1, FS_Singleton, FS_EmptySet
        <4>3. reference_count'[d] = 1
          BY <3>1 DEF IInv, TypeOK
        <4> QED BY <4>2, <4>3 DEF Covers, Matches
      <3>2. CASE d # e
        <4>1. \A t \in Sid : d \in Waiting(t)' \cup InFlight(t)' <=> d \in Waiting(t) \cup InFlight(t)
          BY <1>14, <3>2
        <4>2. Held(d)' = Held(d)
          BY <4>1 DEF Held
        <4>3. reference_count'[d] = reference_count[d]
          BY <3>2 DEF IInv, TypeOK
        <4>4. /\ Covers(reference_count[d], Back(d), Held(d))
              /\ refused = {} => Matches(reference_count[d], Back(d), Held(d))
          BY DEF IInv, CountsKept
        <4> QED BY <2>2, <4>2, <4>3, <4>4
      <3> QED BY <3>1, <3>2
    <2> QED BY <2>3 DEF CountsKept
  <1> QED BY <1>11, <1>13, <1>15, <1>17, <1>18 DEF IInv

\* The pool refuses the initial event: the subscription is active without it.
LEMMA InitRefusedKeeps ==
    ASSUME IInv, NEW s \in Sid, s \in Listed,
           sub' = [sub EXCEPT ![s].active = TRUE],
           refused' = refused \cup {s},
           UNCHANGED <<pool, reference_count, lastEvent, initial, listVars, used, sending,
                       now, lastSent>>
    PROVE  IInv'
  <1> USE DEF handleVars, listVars
  <1>1. PICK b \in Subscription : b = sub[s]
    BY DEF IInv, TypeOK
  <1>2. PICK b2 : b2 = [b EXCEPT !.active = TRUE]
    OBVIOUS
  <1>3. /\ b2 \in Subscription /\ b2.active = TRUE
        /\ b2.ToSendEventKey = b.ToSendEventKey /\ b2.outgoing = b.outgoing
    BY <1>2 DEF Subscription
  <1>4. sub' = [sub EXCEPT ![s] = b2]
    BY <1>1, <1>2
  <1>5. /\ sub' \in [Sid -> Subscription] /\ sub'[s] = b2
        /\ \A t \in Sid \ {s} : sub'[t] = sub[t]
    BY <1>3, <1>4 DEF IInv, TypeOK
  <1>6. TypeOK'
    BY <1>5 DEF IInv, TypeOK
  <1>7. Listed' = Listed
    BY DEF Listed
  <1>8. ListKept'
    BY <1>7 DEF IInv, ListKept
  <1>9. \A t : Waiting(t)' = Waiting(t) /\ InFlight(t)' = InFlight(t)
    BY DEF Waiting, InFlight
  <1>10. UnusedKept'
    BY <1>9 DEF IInv, UnusedKept
  <1>11. Fitting(s)'
    <2>1. Fitting(s)
      BY DEF IInv, SubscriptionsKept
    <2>2. Served(b, Waiting(s), InFlight(s), lastSent[s], lastEvent)
      BY <1>1, <2>1 DEF Fitting
    <2>3. /\ Waiting(s) \in SUBSET Event /\ InFlight(s) \in SUBSET Event
          /\ lastSent[s] \in LastSent /\ lastEvent \in Int
      BY Facts
    <2>4. Served(b2, Waiting(s), InFlight(s), lastSent[s], lastEvent)
      BY <1>3, <2>2, <2>3, FitsTouched
    <2>5. s \in refused'
      OBVIOUS
    <2> QED BY <1>5, <1>7, <1>9, <2>4, <2>5 DEF Fitting
  <1>12. SubscriptionsKept'
    <2>1. \A t \in Sid \ {s} :
             /\ t \in Listed' <=> t \in Listed
             /\ t \in refused' <=> t \in refused
             /\ sub'[t] = sub[t] /\ lastSent'[t] = lastSent[t] /\ initial'[t] = initial[t]
             /\ Waiting(t)' = Waiting(t) /\ InFlight(t)' = InFlight(t)
      BY <1>5, <1>7, <1>9
    <2>2. lastEvent' \in Nat /\ lastEvent <= lastEvent'
      BY Facts
    <2> QED BY <1>11, <2>1, <2>2, OneTouched
  <1>13. CountsKept'
    <2>1. \A e : Back(e)' = Back(e)
      BY <1>1, <1>3, <1>5 DEF Back
    <2>2. \A e : Held(e)' = Held(e)
      BY <1>9 DEF Held
    <2>3. ASSUME NEW e \in Event
          PROVE  /\ Covers(reference_count'[e], Back(e)', Held(e)')
                 /\ refused' = {} => Matches(reference_count'[e], Back(e)', Held(e)')
      <3>1. /\ Covers(reference_count[e], Back(e), Held(e))
            /\ refused = {} => Matches(reference_count[e], Back(e), Held(e))
        BY DEF IInv, CountsKept
      <3>2. refused' # {}
        OBVIOUS
      <3> QED BY <2>1, <2>2, <3>1, <3>2 DEF Covers, Matches
    <2> QED BY <2>3 DEF CountsKept
  <1> QED BY <1>6, <1>8, <1>10, <1>12, <1>13 DEF IInv

\* UpnpAcceptSubscription() keeps the invariant.
LEMMA InitNotifyKeeps == ASSUME IInv, NEW s \in Sid, InitNotify(s) PROVE IInv'
  <1>1. CASE /\ RemoveSubscriptions(Dropped(s))
             /\ UNCHANGED <<handleVars, used, pool, sending, lastEvent, now, seenVars>>
    <2>1. Dropped(s) \subseteq Listed
      BY DEF Dropped
    <2>2. /\ registered' = registered
          /\ UNCHANGED <<MaxSubscriptions, scenario, used, pool, sending, lastEvent, now, seenVars>>
      BY <1>1 DEF handleVars
    <2> QED BY <1>1, <2>1, <2>2, RemoveSubscriptionsKeeps
  <1>2. CASE /\ Found(s) /\ ~sub[s].active /\ lastEvent < scenario.events
             /\ UNCHANGED <<listVars, used, sending, now, lastSent>>
    <2>0. s \in Listed
      BY <1>2 DEF Found
    <2>1. PICK e : e = lastEvent + 1
      OBVIOUS
    <2>2. PICK job : job = [ev |-> e, ctime |-> now, stale |-> TRUE]
      OBVIOUS
    <2>3. CASE /\ sub' = [sub EXCEPT ![s].active = TRUE, ![s].outgoing = Append(@, job)]
               /\ pool' = pool \cup {[sid |-> s, ev |-> e]}
               /\ reference_count' = [reference_count EXCEPT ![e] = 1]
               /\ lastEvent' = e
               /\ initial' = [initial EXCEPT ![s] = e]
               /\ UNCHANGED refused
      BY <1>2, <2>0, <2>1, <2>2, <2>3, AcceptedKeeps
    <2>4. CASE /\ sub' = [sub EXCEPT ![s].active = TRUE]
               /\ refused' = refused \cup {s}
               /\ UNCHANGED <<pool, reference_count, lastEvent, initial>>
      BY <1>2, <2>0, <2>4, InitRefusedKeeps
    <2>5. \/ Dropped(s) # {} /\ RemoveSubscriptions(Dropped(s))
          \/ /\ sub' = [sub EXCEPT ![s].active = TRUE, ![s].outgoing = Append(@, job)]
             /\ pool' = pool \cup {[sid |-> s, ev |-> e]}
             /\ reference_count' = [reference_count EXCEPT ![e] = 1]
             /\ lastEvent' = e
             /\ initial' = [initial EXCEPT ![s] = e]
             /\ UNCHANGED refused
          \/ /\ sub' = [sub EXCEPT ![s].active = TRUE]
             /\ refused' = refused \cup {s}
             /\ UNCHANGED <<pool, reference_count, lastEvent, initial>>
      BY <2>1, <2>2 DEF InitNotify
    <2>6. Dropped(s) = {}
      BY <1>2 DEF Dropped, Found
    <2> QED BY <2>3, <2>4, <2>5, <2>6
  <1> QED BY <1>1, <1>2 DEF InitNotify

\* The job of the head begins to send it; the control point sees the next event.
LEMMA StartedKeeps ==
    ASSUME IInv, NEW n \in pool, Found(n.sid), NotifyStart(n)
    PROVE  /\ IInv'
           /\ n.ev > lastSent[n.sid].ev
           /\ sub[n.sid].ToSendEventKey = FollowingKey(lastSent[n.sid].seq)
           /\ lastSent[n.sid].ev = 0 => n.ev = initial[n.sid] \/ n.sid \in refused
  <1>a. /\ pool' = pool \ {n} /\ sending' = sending \cup {n}
        /\ lastSent' = [lastSent EXCEPT ![n.sid] =
              [ev |-> n.ev, seq |-> sub[n.sid].ToSendEventKey]]
    BY DEF NotifyStart
  <1>b. UNCHANGED <<registered, MaxSubscriptions, scenario, subscriptionList, TotalSubscriptions,
                    sub, used, lastEvent, reference_count, now, initial, refused>>
    BY DEF NotifyStart, handleVars
  <1>c. n.sid \in Listed
    BY DEF Found
  <1>1. PICK s \in Sid : s = n.sid
    BY NotificationEvents DEF IInv, TypeOK
  <1>2. PICK e \in Event : e = n.ev
    BY NotificationEvents DEF IInv, TypeOK
  <1>3. n = [sid |-> s, ev |-> e] /\ n \in Notification
    BY <1>1, <1>2, NotificationEvents DEF IInv, TypeOK
  <1>4. PICK b \in Subscription : b = sub[s]
    BY DEF IInv, TypeOK
  <1>5. [ev |-> e, seq |-> b.ToSendEventKey] \in LastSent
    <2>1. b.ToSendEventKey \in 0..KeyMax
      BY DEF Subscription
    <2>2. e \in 0..MaxEvents /\ b.ToSendEventKey \in (-1)..KeyMax
      BY <2>1, GenaAssumption DEF Event
    <2> QED BY <2>2 DEF LastSent
  <1>0. PICK last2 \in LastSent : last2 = [ev |-> e, seq |-> b.ToSendEventKey]
    BY <1>5
  <1>6. last2 \in LastSent /\ last2.ev = e /\ last2.seq = b.ToSendEventKey
    BY <1>0
  <1>7. lastSent' = [lastSent EXCEPT ![s] = last2]
    BY <1>a, <1>1, <1>2, <1>4, <1>0
  <1>8. /\ lastSent' \in [Sid -> LastSent] /\ lastSent'[s] = last2
        /\ \A t \in Sid \ {s} : lastSent'[t] = lastSent[t]
    <2>1. lastSent \in [Sid -> LastSent]
      BY DEF IInv, TypeOK, LastSent
    <2> QED BY <1>6, <1>7, <2>1
  <1>9. TypeOK'
    <2>1. pool' \subseteq Notification /\ sending' \subseteq Notification
      BY <1>3, <1>a DEF IInv, TypeOK
    <2>2. lastSent' \in [Sid -> [ev: 0..MaxEvents, seq: (-1)..KeyMax]]
      BY <1>8 DEF LastSent
    <2> QED BY <1>b, <2>1, <2>2 DEF IInv, TypeOK
  <1>10. Listed' = Listed
    BY <1>b DEF Listed
  <1>11. ListKept'
    BY <1>b, <1>10 DEF IInv, ListKept
  <1>12. \A t \in Sid, d \in Event : [sid |-> t, ev |-> d] = n <=> t = s /\ d = e
    BY <1>3
  <1>13. /\ \A t \in Sid \ {s} : Waiting(t)' = Waiting(t) /\ InFlight(t)' = InFlight(t)
         /\ Waiting(s)' = Waiting(s) \ {e} /\ InFlight(s)' = InFlight(s) \cup {e}
         /\ e \in Waiting(s)
    BY <1>3, <1>a, <1>12 DEF Waiting, InFlight
  <1>14. UnusedKept'
    <2>1. s \in used
      BY <1>1, <1>c DEF IInv, ListKept
    <2> QED BY <1>b, <1>8, <1>13, <2>1 DEF IInv, UnusedKept
  <1>15. /\ Served(b, Waiting(s), InFlight(s), lastSent[s], lastEvent)
         /\ s \notin refused => Prompt(b, Waiting(s), InFlight(s), lastSent[s], initial[s])
    <2>1. Fitting(s)
      BY DEF IInv, SubscriptionsKept
    <2> QED BY <1>1, <1>4, <1>c, <2>1 DEF Fitting
  <1>16. /\ Waiting(s) \in SUBSET Event /\ InFlight(s) \in SUBSET Event
         /\ lastSent[s] \in LastSent /\ lastEvent \in Nat
    BY Facts
  <1>17. /\ Served(b, Waiting(s) \ {e}, InFlight(s) \cup {e}, last2, lastEvent)
         /\ e > lastSent[s].ev
         /\ last2.seq = FollowingKey(lastSent[s].seq)
         /\ \A first : Prompt(b, Waiting(s), InFlight(s), lastSent[s], first) =>
               /\ Prompt(b, Waiting(s) \ {e}, InFlight(s) \cup {e}, last2, first)
               /\ lastSent[s].ev = 0 => e = first
    <2>1. PICK w \in SUBSET Event : w = Waiting(s)
      BY <1>16
    <2>2. PICK f \in SUBSET Event : f = InFlight(s)
      BY <1>16
    <2>3. PICK last \in LastSent : last = lastSent[s]
      BY <1>16
    <2>4. PICK w2 \in SUBSET Event : w2 = w \ {last2.ev}
      OBVIOUS
    <2>5. PICK f2 \in SUBSET Event : f2 = f \cup {last2.ev}
      BY <1>6
    <2>6. PICK top \in Nat : top = lastEvent
      BY <1>16
    <2>7. Served(b, w, f, last, top) /\ last2.ev \in w /\ last2.seq = b.ToSendEventKey
      BY <1>6, <1>13, <1>15, <2>1, <2>2, <2>3, <2>6
    <2>8. /\ Served(b, w2, f2, last2, top)
          /\ Follows(last, last2)
          /\ \A first : Prompt(b, w, f, last, first) =>
                Prompt(b, w2, f2, last2, first) /\ Opens(last, last2, first)
      <3>1. Begun(b, w, f, last2, w2, f2)
        BY <2>4, <2>5, <2>7 DEF Begun
      <3> QED BY <2>7, <3>1, FitsStarted
    <2> QED BY <1>6, <2>1, <2>2, <2>3, <2>4, <2>5, <2>6, <2>8 DEF Follows, Opens
  <1>18. Fitting(s)'
    BY <1>1, <1>4, <1>8, <1>10, <1>13, <1>15, <1>17, <1>b, <1>c DEF Fitting
  <1>19. SubscriptionsKept'
    <2>1. \A t \in Sid \ {s} :
             /\ t \in Listed' <=> t \in Listed
             /\ t \in refused' <=> t \in refused
             /\ sub'[t] = sub[t] /\ lastSent'[t] = lastSent[t] /\ initial'[t] = initial[t]
             /\ Waiting(t)' = Waiting(t) /\ InFlight(t)' = InFlight(t)
      BY <1>b, <1>8, <1>10, <1>13
    <2>2. lastEvent' \in Nat /\ lastEvent <= lastEvent'
      BY <1>b, <1>16
    <2> QED BY <1>18, <2>1, <2>2, OneTouched
  <1>20. CountsKept'
    <2>1. \A t \in Sid : Waiting(t)' \cup InFlight(t)' = Waiting(t) \cup InFlight(t)
      BY <1>13
    <2>2. \A d : Held(d)' = Held(d) /\ Back(d)' = Back(d)
      BY <1>b, <2>1 DEF Held, Back
    <2>3. ASSUME NEW d \in Event
          PROVE  /\ Covers(reference_count'[d], Back(d)', Held(d)')
                 /\ refused' = {} => Matches(reference_count'[d], Back(d)', Held(d)')
      <3>1. /\ Covers(reference_count[d], Back(d), Held(d))
            /\ refused = {} => Matches(reference_count[d], Back(d), Held(d))
        BY DEF IInv, CountsKept
      <3> QED BY <1>b, <2>2, <3>1
    <2> QED BY <2>3 DEF CountsKept
  <1>21. IInv'
    BY <1>9, <1>11, <1>14, <1>19, <1>20 DEF IInv
  <1>22. lastSent[s].ev = 0 => e = initial[s] \/ s \in refused
    BY <1>15, <1>17
  <1> QED BY <1>1, <1>2, <1>4, <1>6, <1>17, <1>21, <1>22

\* Up to the sending, a job keeps the invariant, and what it sends comes after
\* what was sent before.
LEMMA NotifyStartKeeps ==
    ASSUME IInv, NEW n \in pool, NotifyStart(n)
    PROVE  /\ IInv'
           /\ lastSent' # lastSent =>
                /\ lastSent' = [lastSent EXCEPT ![n.sid] =
                      [ev |-> n.ev, seq |-> sub[n.sid].ToSendEventKey]]
                /\ n.ev > lastSent[n.sid].ev
                /\ sub[n.sid].ToSendEventKey = FollowingKey(lastSent[n.sid].seq)
                /\ lastSent[n.sid].ev = 0 => n.ev = initial[n.sid] \/ n.sid \in refused
  <1>1. n \notin sending
    <2>1. n \in Notification
      BY DEF IInv, TypeOK
    <2>2. n.sid \in Sid /\ n.ev \in Event /\ n = [sid |-> n.sid, ev |-> n.ev]
      BY <2>1, NotificationEvents
    <2>3. Fitting(n.sid)
      BY <2>2 DEF IInv, SubscriptionsKept
    <2>4. WayFits(Waiting(n.sid), InFlight(n.sid), lastEvent)
      BY <2>3 DEF Fitting, Served, Gone
    <2>5. n.ev \in Waiting(n.sid)
      BY <2>2 DEF Waiting
    <2>6. n.ev \notin InFlight(n.sid)
      BY <2>4, <2>5 DEF WayFits
    <2> QED BY <2>2, <2>6 DEF InFlight
  <1>2. /\ pool' = pool \ {n}
        /\ UNCHANGED <<handleVars, used, lastEvent, now, initial, refused>>
    BY DEF NotifyStart
  <1>3. CASE Found(n.sid)
    <2>1. /\ sending' = sending \cup {n}
          /\ lastSent' = [lastSent EXCEPT ![n.sid] =
                [ev |-> n.ev, seq |-> sub[n.sid].ToSendEventKey]]
          /\ UNCHANGED <<subscriptionList, TotalSubscriptions, sub, reference_count>>
          /\ n.sid \in Listed
      BY <1>3 DEF NotifyStart, Found
    <2> QED BY <1>3, <2>1, StartedKeeps
  <1>4. CASE ~Found(n.sid)
    <2>1. /\ Unlink(Dropped(n.sid))
          /\ sub' = [s \in Sid |-> IF s \in Dropped(n.sid) THEN NewSubscription(0) ELSE sub[s]]
          /\ reference_count' = [Released(QueuedEvents(Dropped(n.sid)))
                                    EXCEPT ![n.ev] = @ - 1]
          /\ UNCHANGED <<sending, lastSent>>
      BY <1>4 DEF NotifyStart
    <2>2. sending' = sending \ {n} /\ n \in pool \cup sending
      BY <1>1, <2>1
    <2>3. UNCHANGED <<handleVars, used, lastEvent, now, seenVars>>
      BY <1>2, <2>1 DEF seenVars
    <2>4. IInv'
      BY <1>2, <1>4, <2>1, <2>2, <2>3, VoidKeeps
    <2> QED BY <2>1, <2>4
  <1> QED BY <1>3, <1>4

\* How a step that ends a job of s changes what is counted of the event d: the job
\* ends, a queued job is released, or one is given to the pool or refused by it.
Counted(d, s) ==
    \/ /\ s \in Held(d) /\ Held(d)' = Held(d) \ {s} /\ Back(d)' = Back(d)
       /\ reference_count'[d] = reference_count[d] - 1
    \/ /\ s \in Back(d) /\ Back(d)' = Back(d) \ {s} /\ Held(d)' = Held(d)
       /\ reference_count'[d] = reference_count[d] - 1
    \/ /\ s \in Back(d) /\ s \notin Held(d)
       /\ Back(d)' = Back(d) \ {s} /\ Held(d)' = Held(d) \cup {s}
       /\ reference_count'[d] = reference_count[d]
    \/ /\ refused' # {} /\ Back(d)' = Back(d) \ {s} /\ Held(d)' = Held(d)
       /\ reference_count'[d] = reference_count[d]
    \/ /\ Back(d)' = Back(d) /\ Held(d)' = Held(d)
       /\ reference_count'[d] = reference_count[d]

\* Counting after a queued job has been released.
LEMMA CountReleased ==
    ASSUME NEW r \in Int, NEW B, NEW H, IsFiniteSet(B), IsFiniteSet(H), NEW s \in B
    PROVE  /\ Covers(r, B, H) => Covers(r - 1, B \ {s}, H)
           /\ Matches(r, B, H) => Matches(r - 1, B \ {s}, H)
  <1>1. Cardinality(B) \in Nat /\ Cardinality(H) \in Nat
    BY FS_CardinalityType
  <1>2. Cardinality(B \ {s}) = Cardinality(B) - 1
    BY FS_RemoveElement
  <1> QED BY <1>1, <1>2 DEF Covers, Matches

\* A step that ends a job of s keeps the counters right.
LEMMA CountedOnce ==
    ASSUME IInv, NEW s \in Sid, \A d \in Event : Counted(d, s), refused \subseteq refused'
    PROVE  CountsKept'
  <1>1. SUFFICES ASSUME NEW d \in Event
                 PROVE  /\ Covers(reference_count'[d], Back(d)', Held(d)')
                        /\ refused' = {} => Matches(reference_count'[d], Back(d)', Held(d)')
    BY DEF CountsKept
  <1>2. /\ IsFiniteSet(Back(d)) /\ IsFiniteSet(Held(d)) /\ reference_count[d] \in Int
    BY Facts
  <1>3. /\ Covers(reference_count[d], Back(d), Held(d))
        /\ refused = {} => Matches(reference_count[d], Back(d), Held(d))
    BY DEF IInv, CountsKept
  <1>4. PICK r \in Int : r = reference_count[d]
    BY <1>2
  <1>5. PICK B : B = Back(d)
    OBVIOUS
  <1>6. PICK H : H = Held(d)
    OBVIOUS
  <1>7. IsFiniteSet(B) /\ IsFiniteSet(H) /\ Covers(r, B, H) /\ (refused = {} => Matches(r, B, H))
    BY <1>2, <1>3, <1>4, <1>5, <1>6
  <1>8. refused' = {} => refused = {}
    OBVIOUS
  <1>9. CASE /\ s \in H /\ Held(d)' = H \ {s} /\ Back(d)' = B
             /\ reference_count'[d] = r - 1
    <2>1. /\ Covers(r, B, H) => Covers(r - 1, B, H \ {s})
          /\ Matches(r, B, H) => Matches(r - 1, B, H \ {s})
      BY <1>7, <1>9, CountEnded
    <2> QED BY <1>7, <1>8, <1>9, <2>1
  <1>10. CASE /\ s \in B /\ Held(d)' = H /\ Back(d)' = B \ {s}
              /\ reference_count'[d] = r - 1
    <2>1. /\ Covers(r, B, H) => Covers(r - 1, B \ {s}, H)
          /\ Matches(r, B, H) => Matches(r - 1, B \ {s}, H)
      BY <1>7, <1>10, CountReleased
    <2> QED BY <1>7, <1>8, <1>10, <2>1
  <1>11. CASE /\ s \in B /\ s \notin H /\ Held(d)' = H \cup {s} /\ Back(d)' = B \ {s}
              /\ reference_count'[d] = r
    <2>1. /\ Covers(r, B, H) => Covers(r, B \ {s}, H \cup {s})
          /\ Matches(r, B, H) => Matches(r, B \ {s}, H \cup {s})
      BY <1>7, <1>11, CountMoved
    <2> QED BY <1>7, <1>8, <1>11, <2>1
  <1>12. CASE /\ refused' # {} /\ Held(d)' = H /\ Back(d)' = B \ {s}
              /\ reference_count'[d] = r
    <2>1. Covers(r, B \ {s}, H)
      BY <1>7, CountLeaked
    <2> QED BY <1>12, <2>1
  <1>13. CASE Held(d)' = H /\ Back(d)' = B /\ reference_count'[d] = r
    BY <1>7, <1>8, <1>13
  <1>14. Counted(d, s)
    OBVIOUS
  <1> QED BY <1>4, <1>5, <1>6, <1>9, <1>10, <1>11, <1>12, <1>13, <1>14 DEF Counted

\* What a queue is like whose head is being sent: the events behind it, the first of
\* which is the next one, are others.
LEMMA SentQueue ==
    ASSUME IInv, NEW n \in sending, n.sid \in Listed
    PROVE  /\ n \in Notification /\ n.sid \in Sid /\ n.ev \in Event
           /\ n = [sid |-> n.sid, ev |-> n.ev]
           /\ Served(sub[n.sid], Waiting(n.sid), InFlight(n.sid), lastSent[n.sid], lastEvent)
           /\ Waiting(n.sid) = {} /\ InFlight(n.sid) = {n.ev}
           /\ sub[n.sid].outgoing \in Seq(QueuedJob)
           /\ sub[n.sid].outgoing # <<>> /\ sub[n.sid].outgoing[1].ev = n.ev
           /\ \A i, j \in 1..Len(sub[n.sid].outgoing) :
                 sub[n.sid].outgoing[i].ev = sub[n.sid].outgoing[j].ev => i = j
  <1>1. n \in Notification
    BY DEF IInv, TypeOK
  <1>2. n.sid \in Sid /\ n.ev \in Event /\ n = [sid |-> n.sid, ev |-> n.ev]
    BY <1>1, NotificationEvents
  <1>3. PICK s \in Sid : s = n.sid
    BY <1>2
  <1>4. PICK e \in Event : e = n.ev
    BY <1>2
  <1>5. e \in InFlight(s)
    BY <1>2, <1>3, <1>4 DEF InFlight
  <1>6. Served(sub[s], Waiting(s), InFlight(s), lastSent[s], lastEvent)
    <2>1. Fitting(s)
      BY DEF IInv, SubscriptionsKept
    <2> QED BY <1>3, <2>1 DEF Fitting
  <1>7. Waiting(s) = {} /\ InFlight(s) = {e}
    BY <1>5, <1>6 DEF Served, WayFits
  <1>8. sub[s].outgoing # <<>> /\ sub[s].outgoing[1].ev = e
    BY <1>5, <1>6 DEF Served
  <1>9. PICK q \in Seq(QueuedJob) : q = sub[s].outgoing
    BY Facts
  <1>10. \A i, j \in 1..Len(q) : i < j => q[i].ev < q[j].ev
    BY <1>6, <1>9 DEF Served, QueueFits, Ordered
  <1>11. Len(q) \in Nat /\ \A i \in 1..Len(q) : q[i].ev \in Int
    BY QueueMembers
  <1>12. \A i, j \in 1..Len(q) : q[i].ev = q[j].ev => i = j
    <2> TAKE i, j \in 1..Len(q)
    <2>1. q[i].ev \in Int /\ q[j].ev \in Int /\ i \in Int /\ j \in Int
      BY <1>11
    <2>2. (i < j => q[i].ev < q[j].ev) /\ (j < i => q[j].ev < q[i].ev)
      BY <1>10
    <2> QED BY <2>1, <2>2
  <1> QED BY <1>1, <1>2, <1>3, <1>4, <1>6, <1>7, <1>8, <1>9, <1>12

\* Of the events of s, n.ev is not on its way any more, and the next one, if the pool
\* has taken it, is.
LEMMA HeldAfter ==
    ASSUME IInv, NEW n \in sending, n.sid \in Listed, NEW W \in SUBSET Event,
           n.ev \notin W, sending' = sending \ {n},
           pool' = pool \cup {[sid |-> n.sid, ev |-> x] : x \in W}
    PROVE  /\ \A t \in Sid \ {n.sid} : Waiting(t)' = Waiting(t) /\ InFlight(t)' = InFlight(t)
           /\ Waiting(n.sid)' = W /\ InFlight(n.sid)' = {}
           /\ n.sid \in Held(n.ev) /\ Held(n.ev)' = Held(n.ev) \ {n.sid}
           /\ \A d \in W : n.sid \notin Held(d) /\ Held(d)' = Held(d) \cup {n.sid}
           /\ \A d \in Event : d # n.ev /\ d \notin W => Held(d)' = Held(d)
  <1>1. PICK s \in Sid : s = n.sid
    BY SentQueue
  <1>2. PICK e \in Event : e = n.ev
    BY SentQueue
  <1>3. n = [sid |-> s, ev |-> e] /\ Waiting(s) = {} /\ InFlight(s) = {e}
    BY <1>1, <1>2, SentQueue
  <1>4. \A t \in Sid, d \in Event : [sid |-> t, ev |-> d] = n <=> t = s /\ d = e
    BY <1>3
  <1>5. \A t \in Sid, d \in Event :
           [sid |-> t, ev |-> d] \in {[sid |-> s, ev |-> x] : x \in W} <=> t = s /\ d \in W
    <2> TAKE t \in Sid, d \in Event
    <2>1. \A x : [sid |-> t, ev |-> d] = [sid |-> s, ev |-> x] <=> t = s /\ d = x
      <3> TAKE x
      <3>1. [sid |-> t, ev |-> d].sid = t /\ [sid |-> t, ev |-> d].ev = d
        OBVIOUS
      <3>2. [sid |-> s, ev |-> x].sid = s /\ [sid |-> s, ev |-> x].ev = x
        OBVIOUS
      <3> QED BY <3>1, <3>2
    <2> QED BY <2>1
  <1>6. \A t \in Sid \ {s} : Waiting(t)' = Waiting(t) /\ InFlight(t)' = InFlight(t)
    BY <1>1, <1>4, <1>5 DEF Waiting, InFlight
  <1>7. Waiting(s)' = W /\ InFlight(s)' = {}
    <2>1. Waiting(s)' = Waiting(s) \cup W
      BY <1>1, <1>5 DEF Waiting
    <2>2. InFlight(s)' = InFlight(s) \ {e}
      BY <1>4 DEF InFlight
    <2> QED BY <1>3, <2>1, <2>2
  <1>8. s \in Held(e) /\ Held(e)' = Held(e) \ {s}
    BY <1>2, <1>3, <1>6, <1>7 DEF Held
  <1>9. ASSUME NEW d \in W PROVE s \notin Held(d) /\ Held(d)' = Held(d) \cup {s}
    BY <1>2, <1>3, <1>6, <1>7 DEF Held
  <1>10. ASSUME NEW d \in Event, d # e, d \notin W PROVE Held(d)' = Held(d)
    BY <1>3, <1>6, <1>7, <1>10 DEF Held
  <1> QED BY <1>1, <1>2, <1>6, <1>7, <1>8, <1>9, <1>10

\* The event that follows the head of a queue.
Following(q) == IF Len(q) > 1 THEN {q[2].ev} ELSE {}

\* When the head goes, the next event is not behind it any more.
LEMMA BackKept ==
    ASSUME IInv, NEW n \in sending, n.sid \in Listed, NEW b2 \in Subscription,
           sub' = [sub EXCEPT ![n.sid] = b2],
           Len(b2.outgoing) = Len(sub[n.sid].outgoing) - 1,
           \A i \in 1..Len(b2.outgoing) : b2.outgoing[i].ev = sub[n.sid].outgoing[i + 1].ev,
           NEW d \in Event
    PROVE  /\ d \in Following(sub[n.sid].outgoing) =>
                n.sid \in Back(d) /\ Back(d)' = Back(d) \ {n.sid}
           /\ d \notin Following(sub[n.sid].outgoing) => Back(d)' = Back(d)
           /\ n.ev \notin Following(sub[n.sid].outgoing)
  <1>1. PICK s \in Sid : s = n.sid
    BY SentQueue
  <1>2. PICK q \in Seq(QueuedJob) : q = sub[s].outgoing
    BY <1>1, SentQueue
  <1>3. PICK r \in Seq(QueuedJob) : r = b2.outgoing
    BY DEF Subscription
  <1>4. Len(q) \in Nat /\ Len(r) \in Nat /\ Len(q) # 0
    BY <1>1, <1>2, SentQueue, QueueMembers
  <1>5. Len(r) = Len(q) - 1 /\ \A i \in 1..Len(r) : r[i].ev = q[i + 1].ev
    BY <1>1, <1>2, <1>3
  <1>6. \A i, j \in 1..Len(q) : q[i].ev = q[j].ev => i = j
    BY <1>1, <1>2, SentQueue
  <1>7. sub'[s] = b2 /\ \A t \in Sid \ {s} : sub'[t] = sub[t]
    BY <1>1 DEF IInv, TypeOK
  <1>8. \A t \in Sid \ {s} : t \in Back(d)' <=> t \in Back(d)
    BY <1>7 DEF Back
  <1>9. s \in Back(d)' <=> d \in Behind(r)
    BY <1>3, <1>7 DEF Back
  <1>10. s \in Back(d) <=> d \in Behind(q)
    BY <1>2 DEF Back
  <1>a. Back(d) \subseteq Sid /\ Back(d)' \subseteq Sid
    BY DEF Back
  <1>13. n.ev \notin Following(q)
    <2>1. q[1].ev = n.ev
      BY <1>1, <1>2, SentQueue
    <2>2. Len(q) > 1 => 1 \in 1..Len(q) /\ 2 \in 1..Len(q)
      BY <1>4
    <2> QED BY <1>6, <2>1, <2>2 DEF Following
  <1>11. CASE d \in Following(q)
    <2>1. Len(q) > 1 /\ d = q[2].ev
      BY <1>4, <1>11 DEF Following
    <2>2. d \in Behind(q)
      BY <1>4, <2>1 DEF Behind
    <2>3. d \notin Behind(r)
      <3>1. SUFFICES ASSUME NEW i \in 2..Len(r), r[i].ev = d PROVE FALSE
        BY DEF Behind
      <3>2. i \in 1..Len(r) /\ i + 1 \in 1..Len(q) /\ 2 \in 1..Len(q) /\ i + 1 # 2
        BY <1>4, <1>5
      <3> QED BY <1>5, <1>6, <2>1, <3>1, <3>2
    <2>4. s \in Back(d) /\ s \notin Back(d)'
      BY <1>9, <1>10, <2>2, <2>3
    <2>5. Back(d)' = Back(d) \ {s}
      BY <1>a, <1>8, <2>4
    <2> QED BY <1>1, <1>2, <1>11, <1>13, <2>4, <2>5
  <1>12. CASE d \notin Following(q)
    <2>1. d \in Behind(r) <=> d \in Behind(q)
      <3>1. ASSUME d \in Behind(r) PROVE d \in Behind(q)
        <4>1. PICK i \in 2..Len(r) : r[i].ev = d
          BY <3>1 DEF Behind
        <4>2. i \in 1..Len(r) /\ i + 1 \in 2..Len(q)
          BY <1>4, <1>5
        <4>3. q[i + 1].ev = d
          BY <1>5, <4>1, <4>2
        <4> QED BY <4>2, <4>3 DEF Behind
      <3>2. ASSUME d \in Behind(q) PROVE d \in Behind(r)
        <4>1. PICK i \in 2..Len(q) : q[i].ev = d
          BY <3>2 DEF Behind
        <4>2. i # 2
          BY <1>4, <1>12, <4>1 DEF Following
        <4>3. PICK j \in Int : j = i - 1
          OBVIOUS
        <4>4. j \in 2..Len(r) /\ j \in 1..Len(r) /\ j + 1 = i
          BY <1>4, <1>5, <4>2, <4>3
        <4>5. r[j].ev = d
          BY <1>5, <4>1, <4>4
        <4> QED BY <4>4, <4>5 DEF Behind
      <3> QED BY <3>1, <3>2
    <2>2. s \in Back(d)' <=> s \in Back(d)
      BY <1>9, <1>10, <2>1
    <2>3. Back(d)' = Back(d)
      <3>1. \A t \in Sid : t \in Back(d)' <=> t \in Back(d)
        BY <1>8, <2>2
      <3> QED BY <1>a, <3>1
    <2> QED BY <1>1, <1>2, <1>12, <1>13, <2>3
  <1> QED BY <1>1, <1>2, <1>11, <1>12, <1>13

\* When the subscription goes with its head, what follows the next event is released.
LEMMA BackGone ==
    ASSUME IInv, NEW n \in sending, n.sid \in Listed,
           sub' = [sub EXCEPT ![n.sid] = NewSubscription(0)],
           reference_count' = [Released(Places({n.sid}, 3)) EXCEPT ![n.ev] = @ - 1],
           NEW d \in Event
    PROVE  /\ Back(d)' = Back(d) \ {n.sid}
           /\ n.ev \notin Following(sub[n.sid].outgoing)
           /\ d = n.ev => n.sid \notin Back(d) /\ reference_count'[d] = reference_count[d] - 1
           /\ d \in Following(sub[n.sid].outgoing) =>
                n.sid \in Back(d) /\ reference_count'[d] = reference_count[d]
           /\ d # n.ev /\ d \notin Following(sub[n.sid].outgoing) =>
                \/ n.sid \in Back(d) /\ reference_count'[d] = reference_count[d] - 1
                \/ n.sid \notin Back(d) /\ reference_count'[d] = reference_count[d]
  <1>1. PICK s \in Sid : s = n.sid
    BY SentQueue
  <1>2. PICK e \in Event : e = n.ev
    BY SentQueue
  <1>3. PICK q \in Seq(QueuedJob) : q = sub[s].outgoing
    BY <1>1, SentQueue
  <1>4. Len(q) \in Nat /\ Len(q) # 0 /\ q[1].ev = e
    BY <1>1, <1>2, <1>3, SentQueue, QueueMembers
  <1>5. \A i, j \in 1..Len(q) : q[i].ev = q[j].ev => i = j
    BY <1>1, <1>3, SentQueue
  <1>6. Back(d)' = Back(d) \ {s}
    <2>1. sub'[s] = NewSubscription(0) /\ \A t \in Sid \ {s} : sub'[t] = sub[t]
      BY <1>1 DEF IInv, TypeOK
    <2>2. NewSubscription(0).outgoing = <<>> /\ Len(<<>>) = 0
      BY DEF NewSubscription
    <2>3. Behind(sub'[s].outgoing) = {}
      BY <2>1, <2>2 DEF Behind
    <2> QED BY <2>1, <2>3 DEF Back
  <1>7. s \in Back(d) <=> d \in Behind(q)
    BY <1>3 DEF Back
  <1>8. e \notin Following(q) /\ e \notin Behind(q)
    <2>1. Len(q) > 1 => 1 \in 1..Len(q) /\ 2 \in 1..Len(q)
      BY <1>4
    <2>2. \A i \in 2..Len(q) : i \in 1..Len(q) /\ 1 \in 1..Len(q) /\ i # 1
      BY <1>4
    <2> QED BY <1>4, <1>5, <2>1, <2>2 DEF Following, Behind
  <1>9. PICK three \in Nat \ {0} : three = 3
    OBVIOUS
  <1>10. PICK P : P = Places({s}, three)
    OBVIOUS
  <1>11. /\ \A x \in P : \E t \in Sid, i \in Nat : i \in 1..Len(sub[t].outgoing) /\ x = <<t, i>>
         /\ \A t, i : <<t, i>> \in P <=> t \in {s} /\ i \in three..Len(sub[t].outgoing)
    <2>1. {s} \subseteq Sid
      OBVIOUS
    <2> QED BY <1>10, <2>1, PlaceMembers
  <1>12. Released(P)[d] = reference_count[d] - Cardinality(HoldersAt(P, d))
    BY <1>11, Facts, ReleasedOnce DEF IInv
  <1>13. HoldersAt(P, d) = IF d \in Behind(q) \ Following(q) THEN {s} ELSE {}
    <2>1. ASSUME NEW t \in HoldersAt(P, d) PROVE t = s /\ d \in Behind(q) \ Following(q)
      <3>1. PICK i \in 1..Len(sub[t].outgoing) : <<t, i>> \in P /\ sub[t].outgoing[i].ev = d
        BY DEF HoldersAt
      <3>2. t = s /\ i \in 3..Len(q) /\ q[i].ev = d
        BY <1>3, <1>9, <1>11, <3>1
      <3>3. i \in 2..Len(q) /\ i \in 1..Len(q) /\ 2 \in 1..Len(q) /\ i # 2
        BY <1>4, <3>2
      <3> QED BY <1>5, <3>2, <3>3 DEF Behind, Following
    <2>2. ASSUME d \in Behind(q) \ Following(q) PROVE s \in HoldersAt(P, d)
      <3>1. PICK i \in 2..Len(q) : q[i].ev = d
        BY <2>2 DEF Behind
      <3>2. i # 2
        BY <1>4, <2>2, <3>1 DEF Following
      <3>3. i \in 3..Len(q) /\ i \in 1..Len(q)
        BY <1>4, <3>2
      <3>4. <<s, i>> \in P
        BY <1>3, <1>9, <1>11, <3>3
      <3> QED BY <1>3, <3>1, <3>3, <3>4 DEF HoldersAt
    <2> QED BY <2>1, <2>2
  <1>14. Following(q) \subseteq Behind(q)
    BY <1>4 DEF Following, Behind
  <1>15. /\ d \in Behind(q) \ Following(q) => Released(P)[d] = reference_count[d] - 1
         /\ d \notin Behind(q) \ Following(q) => Released(P)[d] = reference_count[d]
    <2>1. Cardinality({s}) = 1 /\ Cardinality({}) = 0
      BY FS_Singleton, FS_EmptySet
    <2>2. reference_count[d] \in Int
      BY Facts
    <2> QED BY <1>12, <1>13, <2>1, <2>2
  <1>16. reference_count' = [Released(P) EXCEPT ![e] = @ - 1]
    BY <1>1, <1>2, <1>9, <1>10
  <1>17. DOMAIN Released(P) = Event
    BY DEF Released
  <1>18. /\ d = e => reference_count'[d] = Released(P)[d] - 1
         /\ d # e => reference_count'[d] = Released(P)[d]
    BY <1>16, <1>17
  <1> QED BY <1>1, <1>2, <1>3, <1>6, <1>7, <1>8, <1>14, <1>15, <1>18

\* What is given to the pool when a job has sent its event.
LEMMA DonePool ==
    ASSUME IInv, NEW n \in sending, NEW reply, NotifyDone(n, reply)
    PROVE  /\ n.sid \in Listed
           /\ \E W \in SUBSET Event :
                 /\ pool' = pool \cup {[sid |-> n.sid, ev |-> x] : x \in W}
                 /\ \/ W = Following(sub[n.sid].outgoing) /\ refused' = refused
                    \/ W = {} /\ refused' = refused \cup {n.sid}
  <1>1. n.sid \in Listed
    BY DEF NotifyDone, Found
  <1>2. PICK q \in Seq(QueuedJob) : q = sub[n.sid].outgoing
    BY <1>1, SentQueue
  <1>3. q # <<>> /\ Len(q) \in Nat
    BY <1>1, <1>2, SentQueue, QueueMembers
  <1>4. PICK rest \in Seq(QueuedJob) : rest = Tail(q)
    BY <1>3, HeadTailProperties
  <1>5. Len(rest) = Len(q) - 1 /\ \A i \in 1..Len(rest) : rest[i] = q[i + 1]
    BY <1>3, <1>4, HeadTailProperties
  <1>6. rest # <<>> <=> Len(q) > 1
    BY <1>3, <1>5, QueueMembers
  <1>7. rest # <<>> => Following(q) = {rest[1].ev} /\ rest[1].ev \in Event
    <2> HAVE rest # <<>>
    <2>1. 1 \in 1..Len(rest)
      BY <1>3, <1>5, <1>6
    <2>2. rest[1] = q[2] /\ rest[1].ev \in Event
      BY <1>5, <2>1, QueueMembers
    <2> QED BY <1>6, <2>2 DEF Following
  <1>8. rest = <<>> => Following(q) = {}
    BY <1>6 DEF Following
  <1>9. \E taken \in {rest # <<>>, rest # <<>> /\ ~scenario.refuse} :
           /\ pool' = IF taken THEN pool \cup {[sid |-> n.sid, ev |-> rest[1].ev]} ELSE pool
           /\ refused' = IF rest # <<>> /\ ~taken THEN refused \cup {n.sid} ELSE refused
    BY <1>2, <1>3, <1>4 DEF NotifyDone, ActivatesNext
  <1>10. \/ /\ rest # <<>> /\ pool' = pool \cup {[sid |-> n.sid, ev |-> rest[1].ev]}
            /\ refused' = refused
         \/ rest # <<>> /\ pool' = pool /\ refused' = refused \cup {n.sid}
         \/ rest = <<>> /\ pool' = pool /\ refused' = refused
    BY <1>9
  <1>11. CASE /\ rest # <<>> /\ pool' = pool \cup {[sid |-> n.sid, ev |-> rest[1].ev]}
              /\ refused' = refused
    <2>1. Following(q) \in SUBSET Event
      BY <1>7, <1>11
    <2>2. {[sid |-> n.sid, ev |-> x] : x \in Following(q)} = {[sid |-> n.sid, ev |-> rest[1].ev]}
      BY <1>7, <1>11
    <2>3. pool' = pool \cup {[sid |-> n.sid, ev |-> x] : x \in Following(q)}
      BY <1>11, <2>2
    <2> QED BY <1>1, <1>2, <1>11, <2>1, <2>3
  <1>12. CASE rest # <<>> /\ pool' = pool /\ refused' = refused \cup {n.sid}
    <2>1. pool' = pool \cup {[sid |-> n.sid, ev |-> x] : x \in {}}
      BY <1>12
    <2> QED BY <1>1, <1>12, <2>1
  <1>13. CASE rest = <<>> /\ pool' = pool /\ refused' = refused
    <2>1. pool' = pool \cup {[sid |-> n.sid, ev |-> x] : x \in Following(q)}
      BY <1>8, <1>13
    <2>2. Following(q) \in SUBSET Event
      BY <1>8, <1>13
    <2> QED BY <1>1, <1>2, <1>13, <2>1, <2>2
  <1> QED BY <1>10, <1>11, <1>12, <1>13

\* The queue when its head has been sent, unless the subscription goes.
LEMMA DoneQueue ==
    ASSUME IInv, NEW n \in sending, NEW reply, NotifyDone(n, reply)
    PROVE  \/ /\ \E b2 \in Subscription :
                    /\ sub' = [sub EXCEPT ![n.sid] = b2]
                    /\ b2.active <=> sub[n.sid].active
                    /\ b2.ToSendEventKey = NextKey(sub[n.sid].ToSendEventKey)
                    /\ Len(b2.outgoing) = Len(sub[n.sid].outgoing) - 1
                    /\ \A i \in 1..Len(b2.outgoing) :
                          /\ b2.outgoing[i].ev = sub[n.sid].outgoing[i + 1].ev
                          /\ b2.outgoing[i].stale <=>
                                (i = 1 \/ sub[n.sid].outgoing[i + 1].stale)
              /\ Unlink({}) /\ reference_count' = [reference_count EXCEPT ![n.ev] = @ - 1]
           \/ /\ sub' = [sub EXCEPT ![n.sid] = NewSubscription(0)]
              /\ Unlink({n.sid})
              /\ reference_count' = [Released(Places({n.sid}, 3)) EXCEPT ![n.ev] = @ - 1]
  <1>1. n.sid \in Listed
    BY DEF NotifyDone, Found
  <1>2. PICK s \in Sid : s = n.sid
    BY <1>1, SentQueue
  <1>3. PICK b \in Subscription : b = sub[s]
    BY DEF IInv, TypeOK
  <1>4. PICK q \in Seq(QueuedJob) : q = b.outgoing
    BY DEF Subscription
  <1>5. q # <<>> /\ Len(q) \in Nat
    BY <1>1, <1>2, <1>3, <1>4, SentQueue, QueueMembers
  <1>6. PICK rest \in Seq(QueuedJob) : rest = Tail(q)
    BY <1>5, HeadTailProperties
  <1>7. Len(rest) = Len(q) - 1 /\ \A i \in 1..Len(rest) : rest[i] = q[i + 1]
    BY <1>5, <1>6, HeadTailProperties
  <1>8. CASE reply = "remove_sub"
    BY <1>8 DEF NotifyDone
  <1>9. CASE reply # "remove_sub"
    <2>1. PICK r : r = IF rest # <<>> THEN [rest EXCEPT ![1].stale = TRUE] ELSE rest
      OBVIOUS
    <2>2. /\ r \in Seq(QueuedJob) /\ Len(r) = Len(rest)
          /\ \A i \in 1..Len(r) : /\ r[i].ev = rest[i].ev
                                  /\ r[i].stale <=> (i = 1 \/ rest[i].stale)
      <3>1. CASE rest = <<>>
        <4>1. r = rest /\ Len(rest) = 0
          BY <2>1, <3>1, QueueMembers
        <4> QED BY <4>1
      <3>2. CASE rest # <<>>
        <4>1. Len(rest) \in Nat /\ DOMAIN rest = 1..Len(rest) /\ 1 \in 1..Len(rest)
          BY <3>2, QueueMembers
        <4>2. PICK h \in QueuedJob : h = [rest[1] EXCEPT !.stale = TRUE]
          <5>1. rest[1] \in QueuedJob
            BY <4>1
          <5> QED BY <5>1 DEF QueuedJob
        <4>3. h.ev = rest[1].ev /\ h.stale
          <5>1. rest[1] \in QueuedJob
            BY <4>1
          <5> QED BY <4>2, <5>1 DEF QueuedJob
        <4>4. r = [rest EXCEPT ![1] = h]
          BY <2>1, <3>2, <4>1, <4>2
        <4>5. r \in Seq(QueuedJob) /\ Len(r) = Len(rest)
          BY <4>1, <4>4, ExceptSeq
        <4>6. r[1] = h /\ \A i \in 1..Len(rest) : i # 1 => r[i] = rest[i]
          BY <4>1, <4>4
        <4>7. \A i \in 1..Len(r) : /\ r[i].ev = rest[i].ev
                                   /\ r[i].stale <=> (i = 1 \/ rest[i].stale)
          BY <4>3, <4>5, <4>6
        <4> QED BY <4>5, <4>7
      <3> QED BY <3>1, <3>2
    <2>3. PICK k : k = NextKey(b.ToSendEventKey)
      OBVIOUS
    <2>4. k \in 0..KeyMax
      <3>1. b.ToSendEventKey \in 0..KeyMax
        BY DEF Subscription
      <3> QED BY <2>3, <3>1, GenaAssumption DEF NextKey
    <2>5. PICK b2 : b2 = [b EXCEPT !.ToSendEventKey = k, !.outgoing = r]
      OBVIOUS
    <2>6. /\ b2 \in Subscription /\ b2.active = b.active /\ b2.ToSendEventKey = k
          /\ b2.outgoing = r
      BY <2>2, <2>4, <2>5 DEF Subscription
    <2>7. sub' = [sub EXCEPT ![s] = b2]
      <3>1. /\ sub[s].outgoing # <<>> /\ ActivatesNext(reply) /\ Tail(sub[s].outgoing) = rest
        BY <1>3, <1>4, <1>5, <1>6 DEF ActivatesNext
      <3>2. sub' = [sub EXCEPT ![s] = [@ EXCEPT !.ToSendEventKey = NextKey(sub[s].ToSendEventKey),
                       !.outgoing = IF rest # <<>> THEN [rest EXCEPT ![1].stale = TRUE] ELSE rest]]
        BY <1>2, <1>9, <3>1 DEF NotifyDone
      <3> QED BY <1>3, <2>1, <2>3, <2>5, <3>2
    <2>8. Unlink({})
      BY <1>9 DEF NotifyDone
    <2>9. reference_count' = [reference_count EXCEPT ![n.ev] = @ - 1]
      <3>1. reference_count' = [Released(Places({}, 3)) EXCEPT ![n.ev] = @ - 1]
        BY <1>9 DEF NotifyDone
      <3>2. Places({}, 3) = {}
        BY DEF Places
      <3>3. Released({}) = reference_count
        <4>1. \A e \in Event : {x \in {} : sub[x[1]].outgoing[x[2]].ev = e} = {}
          OBVIOUS
        <4>2. \A e \in Event : Released({})[e] = reference_count[e]
          <5>1. Cardinality({}) = 0 /\ \A e \in Event : reference_count[e] \in Int
            BY FS_EmptySet, Facts
          <5> QED BY <4>1, <5>1 DEF Released
        <4>3. DOMAIN Released({}) = Event
          BY DEF Released
        <4>4. Released({}) = [e \in Event |-> Released({})[e]]
          BY DEF Released
        <4>5. reference_count = [e \in Event |-> reference_count[e]]
          BY DEF IInv, TypeOK
        <4> QED BY <4>2, <4>4, <4>5
      <3> QED BY <3>1, <3>2, <3>3
    <2>10. /\ sub' = [sub EXCEPT ![n.sid] = b2]
           /\ b2.active <=> sub[n.sid].active
           /\ b2.ToSendEventKey = NextKey(sub[n.sid].ToSendEventKey)
           /\ Len(b2.outgoing) = Len(sub[n.sid].outgoing) - 1
      BY <1>2, <1>3, <1>4, <1>7, <2>2, <2>3, <2>6, <2>7
    <2>11. \A i \in 1..Len(b2.outgoing) :
              /\ b2.outgoing[i].ev = sub[n.sid].outgoing[i + 1].ev
              /\ b2.outgoing[i].stale <=> (i = 1 \/ sub[n.sid].outgoing[i + 1].stale)
      BY <1>2, <1>3, <1>4, <1>7, <2>2, <2>6
    <2> QED BY <2>6, <2>8, <2>9, <2>10, <2>11
  <1> QED BY <1>8, <1>9

\* What the two ways in which a job may end have in common: if the list, the counters
\* and the subscription are right, all is.
LEMMA EndedKeeps ==
    ASSUME IInv, NEW n \in sending, n.sid \in Listed, NEW W \in SUBSET Event,
           n.ev \notin W, sending' = sending \ {n},
           pool' = pool \cup {[sid |-> n.sid, ev |-> x] : x \in W},
           refused' = refused \/ refused' = refused \cup {n.sid},
           NEW b2 \in Subscription, sub' = [sub EXCEPT ![n.sid] = b2],
           NEW S, S \subseteq {n.sid}, Unlink(S),
           reference_count' \in [Event -> Int],
           Fitting(n.sid)', CountsKept',
           UNCHANGED <<handleVars, used, lastEvent, now, lastSent, initial>>
    PROVE  IInv'
  <1> USE DEF handleVars
  <1>1. PICK s \in Sid : s = n.sid
    BY SentQueue
  <1>2. /\ subscriptionList' \in Seq(Sid)
        /\ Listed' = Listed \ S
        /\ TotalSubscriptions' = Len(subscriptionList')
        /\ TotalSubscriptions' \in Int
        /\ IsInjective(subscriptionList')
    BY UnlinkKeeps
  <1>3. TypeOK'
    <2>1. sub' \in [Sid -> Subscription]
      BY DEF IInv, TypeOK
    <2>2. sending' \subseteq Notification
      BY DEF IInv, TypeOK
    <2>3. pool' \subseteq Notification
      <3>1. \A x \in W : [sid |-> n.sid, ev |-> x] \in Notification
        BY <1>1 DEF Notification
      <3>2. pool \subseteq Notification
        BY DEF IInv, TypeOK
      <3> QED BY <3>1, <3>2
    <2>4. refused' \subseteq Sid
      BY <1>1 DEF IInv, TypeOK
    <2> QED BY <1>2, <2>1, <2>2, <2>3, <2>4 DEF IInv, TypeOK
  <1>4. ListKept'
    <2>1. registered
      <3>1. SUFFICES ASSUME ~registered PROVE FALSE
        OBVIOUS
      <3>2. subscriptionList = <<>>
        BY <3>1 DEF IInv, ListKept
      <3>3. Listed = {}
        BY <3>2 DEF Listed, Range
      <3> QED BY <3>3
    <2> QED BY <1>2, <2>1 DEF IInv, ListKept
  <1>5. /\ \A t \in Sid \ {s} : Waiting(t)' = Waiting(t) /\ InFlight(t)' = InFlight(t)
    BY <1>1, HeldAfter
  <1>6. UnusedKept'
    <2>1. s \in used
      BY <1>1 DEF IInv, ListKept
    <2> QED BY <1>5, <2>1 DEF IInv, UnusedKept
  <1>7. SubscriptionsKept'
    <2>1. Fitting(s)'
      BY <1>1
    <2>2. \A t \in Sid \ {s} :
             /\ t \in Listed' <=> t \in Listed
             /\ t \in refused' <=> t \in refused
             /\ sub'[t] = sub[t] /\ lastSent'[t] = lastSent[t] /\ initial'[t] = initial[t]
             /\ Waiting(t)' = Waiting(t) /\ InFlight(t)' = InFlight(t)
      BY <1>1, <1>2, <1>5 DEF IInv, TypeOK
    <2>3. lastEvent' \in Nat /\ lastEvent <= lastEvent'
      BY Facts
    <2> QED BY <2>1, <2>2, <2>3, OneTouched
  <1> QED BY <1>3, <1>4, <1>6, <1>7 DEF IInv

\* The head has been sent, and the subscription stays.
LEMMA StayedKeeps ==
    ASSUME IInv, NEW n \in sending, n.sid \in Listed, NEW W \in SUBSET Event,
           sending' = sending \ {n},
           pool' = pool \cup {[sid |-> n.sid, ev |-> x] : x \in W},
           \/ W = Following(sub[n.sid].outgoing) /\ refused' = refused
           \/ W = {} /\ refused' = refused \cup {n.sid},
           NEW b2 \in Subscription, sub' = [sub EXCEPT ![n.sid] = b2],
           b2.active <=> sub[n.sid].active,
           b2.ToSendEventKey = NextKey(sub[n.sid].ToSendEventKey),
           Len(b2.outgoing) = Len(sub[n.sid].outgoing) - 1,
           \A i \in 1..Len(b2.outgoing) :
              /\ b2.outgoing[i].ev = sub[n.sid].outgoing[i + 1].ev
              /\ b2.outgoing[i].stale <=> (i = 1 \/ sub[n.sid].outgoing[i + 1].stale),
           Unlink({}), reference_count' = [reference_count EXCEPT ![n.ev] = @ - 1],
           UNCHANGED <<handleVars, used, lastEvent, now, lastSent, initial>>
    PROVE  IInv'
  <1>1. PICK s \in Sid : s = n.sid
    BY SentQueue
  <1>2. PICK e \in Event : e = n.ev
    BY SentQueue
  <1>3. \A d \in Event :
           /\ d \in Following(sub[s].outgoing) => s \in Back(d) /\ Back(d)' = Back(d) \ {s}
           /\ d \notin Following(sub[s].outgoing) => Back(d)' = Back(d)
           /\ e \notin Following(sub[s].outgoing)
    BY <1>1, <1>2, BackKept
  <1>4. n.ev \notin W
    BY <1>1, <1>2, <1>3
  <1>5. /\ Waiting(s)' = W /\ InFlight(s)' = {}
        /\ s \in Held(e) /\ Held(e)' = Held(e) \ {s}
        /\ \A d \in W : s \notin Held(d) /\ Held(d)' = Held(d) \cup {s}
        /\ \A d \in Event : d # e /\ d \notin W => Held(d)' = Held(d)
    BY <1>1, <1>2, <1>4, HeldAfter
  <1>6. reference_count' \in [Event -> Int]
    BY <1>2 DEF IInv, TypeOK
  <1>7. /\ reference_count'[e] = reference_count[e] - 1
        /\ \A d \in Event : d # e => reference_count'[d] = reference_count[d]
    BY <1>2 DEF IInv, TypeOK
  <1>8. CountsKept'
    <2>1. ASSUME NEW d \in Event PROVE Counted(d, s)
      <3>1. CASE d = e
        BY <1>3, <1>5, <1>7, <3>1 DEF Counted
      <3>2. CASE d # e /\ d \in W
        BY <1>1, <1>3, <1>5, <1>7, <3>2 DEF Counted
      <3>3. CASE d # e /\ d \notin W /\ d \in Following(sub[s].outgoing)
        BY <1>1, <1>3, <1>5, <1>7, <3>3 DEF Counted
      <3>4. CASE d # e /\ d \notin W /\ d \notin Following(sub[s].outgoing)
        BY <1>3, <1>5, <1>7, <3>4 DEF Counted
      <3> QED BY <3>1, <3>2, <3>3, <3>4
    <2>2. refused \subseteq refused'
      OBVIOUS
    <2> QED BY <2>1, <2>2, CountedOnce
  <1>9. Fitting(n.sid)'
    <2>1. PICK b \in Subscription : b = sub[s]
      BY DEF IInv, TypeOK
    <2>2. PICK w \in SUBSET Event : w = Waiting(s)
      BY Facts
    <2>3. PICK f \in SUBSET Event : f = InFlight(s)
      BY Facts
    <2>4. PICK last \in LastSent : last = lastSent[s]
      BY Facts
    <2>5. PICK top \in Nat : top = lastEvent
      BY Facts
    <2>6. Served(b, w, f, last, top) /\ w = {} /\ f = {e}
      BY <1>1, <1>2, <2>1, <2>2, <2>3, <2>4, <2>5, SentQueue
    <2>7. /\ b2.active <=> b.active
          /\ b2.ToSendEventKey = NextKey(b.ToSendEventKey)
          /\ Len(b2.outgoing) = Len(b.outgoing) - 1
          /\ \A i \in 1..Len(b2.outgoing) :
                /\ b2.outgoing[i].ev = b.outgoing[i + 1].ev
                /\ b2.outgoing[i].stale <=> (i = 1 \/ b.outgoing[i + 1].stale)
      BY <1>1, <2>1
    <2>8. /\ Following(b.outgoing) # {} =>
                b2.outgoing # <<>> /\ Following(b.outgoing) = {b2.outgoing[1].ev}
          /\ b2.outgoing # <<>> => Following(b.outgoing) = {b2.outgoing[1].ev}
      <3>1. b.outgoing \in Seq(QueuedJob) /\ b2.outgoing \in Seq(QueuedJob)
        BY DEF Subscription
      <3>2. Len(b.outgoing) \in Nat /\ (b2.outgoing = <<>> <=> Len(b2.outgoing) = 0)
        BY <3>1, QueueMembers
      <3>3. b2.outgoing # <<>> => b2.outgoing[1].ev = b.outgoing[2].ev
        <4> HAVE b2.outgoing # <<>>
        <4>1. Len(b2.outgoing) \in Nat /\ 1 \in 1..Len(b2.outgoing)
          BY <3>1, <3>2, QueueMembers
        <4> QED BY <2>7, <4>1
      <3>4. Len(b.outgoing) > 1 <=> b2.outgoing # <<>>
        BY <2>7, <3>2
      <3> QED BY <3>3, <3>4 DEF Following
    <2>9. \/ W = w
          \/ b2.outgoing # <<>> /\ W = w \cup {b2.outgoing[1].ev}
      BY <1>1, <2>1, <2>6, <2>8
    <2>10. f \ {e} = {} /\ e \in f
      BY <2>6
    <2>11. /\ Served(b2, W, f \ {e}, last, top)
           /\ \A first :
                 /\ Prompt(b, w, f, last, first)
                 /\ b2.outgoing # <<>> => W = w \cup {b2.outgoing[1].ev}
                 => Prompt(b2, W, f \ {e}, last, first)
      BY <2>6, <2>7, <2>9, <2>10, FitsDone
    <2>12. s \notin refused' => Prompt(b2, W, f \ {e}, last, initial[s])
      <3> HAVE s \notin refused'
      <3>1. s \notin refused /\ W = Following(b.outgoing)
        BY <1>1, <2>1
      <3>2. Fitting(s)
        BY DEF IInv, SubscriptionsKept
      <3>3. Prompt(b, w, f, last, initial[s])
        BY <1>1, <2>1, <2>2, <2>3, <2>4, <3>1, <3>2 DEF Fitting
      <3>4. b2.outgoing # <<>> => W = w \cup {b2.outgoing[1].ev}
        BY <2>6, <2>8, <3>1
      <3> QED BY <2>11, <3>3, <3>4
    <2>13. Listed' = Listed
      BY UnlinkKeeps
    <2>14. sub'[s] = b2 /\ lastSent' = lastSent /\ initial' = initial /\ lastEvent' = lastEvent
      BY <1>1 DEF IInv, TypeOK
    <2>15. Fitting(s)'
      BY <1>1, <1>5, <2>4, <2>5, <2>10, <2>11, <2>12, <2>13, <2>14 DEF Fitting
    <2> QED BY <1>1, <2>15
  <1>10. refused' = refused \/ refused' = refused \cup {n.sid}
    OBVIOUS
  <1>11. PICK S : S = {}
    OBVIOUS
  <1>12. S \subseteq {n.sid} /\ Unlink(S)
    BY <1>11
  <1> QED BY <1>4, <1>6, <1>8, <1>9, <1>10, <1>12, EndedKeeps

\* The head has been sent, and the control point does not know the subscription.
LEMMA LeftKeeps ==
    ASSUME IInv, NEW n \in sending, n.sid \in Listed, NEW W \in SUBSET Event,
           sending' = sending \ {n},
           pool' = pool \cup {[sid |-> n.sid, ev |-> x] : x \in W},
           \/ W = Following(sub[n.sid].outgoing) /\ refused' = refused
           \/ W = {} /\ refused' = refused \cup {n.sid},
           sub' = [sub EXCEPT ![n.sid] = NewSubscription(0)],
           Unlink({n.sid}),
           reference_count' = [Released(Places({n.sid}, 3)) EXCEPT ![n.ev] = @ - 1],
           UNCHANGED <<handleVars, used, lastEvent, now, lastSent, initial>>
    PROVE  IInv'
  <1>1. PICK s \in Sid : s = n.sid
    BY SentQueue
  <1>2. PICK e \in Event : e = n.ev
    BY SentQueue
  <1>3. \A d \in Event :
           /\ Back(d)' = Back(d) \ {s}
           /\ e \notin Following(sub[s].outgoing)
           /\ d = e => s \notin Back(d) /\ reference_count'[d] = reference_count[d] - 1
           /\ d \in Following(sub[s].outgoing) =>
                s \in Back(d) /\ reference_count'[d] = reference_count[d]
           /\ d # e /\ d \notin Following(sub[s].outgoing) =>
                \/ s \in Back(d) /\ reference_count'[d] = reference_count[d] - 1
                \/ s \notin Back(d) /\ reference_count'[d] = reference_count[d]
    BY <1>1, <1>2, BackGone
  <1>4. n.ev \notin W
    BY <1>1, <1>2, <1>3
  <1>5. /\ Waiting(s)' = W /\ InFlight(s)' = {}
        /\ s \in Held(e) /\ Held(e)' = Held(e) \ {s}
        /\ \A d \in W : s \notin Held(d) /\ Held(d)' = Held(d) \cup {s}
        /\ \A d \in Event : d # e /\ d \notin W => Held(d)' = Held(d)
    BY <1>1, <1>2, <1>4, HeldAfter
  <1>6. reference_count' \in [Event -> Int]
    <2>1. ASSUME NEW d \in Event PROVE reference_count'[d] \in Int
      <3>1. reference_count[d] \in Int
        BY Facts
      <3>2. \/ reference_count'[d] = reference_count[d]
            \/ reference_count'[d] = reference_count[d] - 1
        BY <1>3
      <3>3. PICK r \in Int : r = reference_count[d]
        BY <3>1
      <3>4. reference_count'[d] = r \/ reference_count'[d] = r - 1
        BY <3>2, <3>3
      <3>5. r - 1 \in Int
        OBVIOUS
      <3> QED BY <3>4, <3>5
    <2>2. reference_count' = [d \in Event |-> reference_count'[d]]
      BY DEF Released
    <2> QED BY <2>1, <2>2
  <1>7. CountsKept'
    <2>1. ASSUME NEW d \in Event PROVE Counted(d, s)
      <3>0. s \notin Back(d) => Back(d) \ {s} = Back(d)
        OBVIOUS
      <3>1. CASE d = e
        BY <1>3, <1>5, <3>0, <3>1 DEF Counted
      <3>2. CASE d # e /\ d \in W
        BY <1>1, <1>3, <1>5, <3>2 DEF Counted
      <3>3. CASE d # e /\ d \notin W /\ d \in Following(sub[s].outgoing)
        BY <1>1, <1>3, <1>5, <3>3 DEF Counted
      <3>4. CASE d # e /\ d \notin W /\ d \notin Following(sub[s].outgoing)
        BY <1>3, <1>5, <3>0, <3>4 DEF Counted
      <3> QED BY <3>1, <3>2, <3>3, <3>4
    <2>2. refused \subseteq refused'
      OBVIOUS
    <2> QED BY <2>1, <2>2, CountedOnce
  <1>8. PICK b2 \in Subscription : b2 = NewSubscription(0)
    <2>1. NewSubscription(0) \in Subscription
      BY GenaAssumption DEF NewSubscription, Subscription
    <2> QED BY <2>1
  <1>9. Fitting(n.sid)'
    <2>1. PICK last \in LastSent : last = lastSent[s]
      BY Facts
    <2>2. PICK top \in Int : top = lastEvent
      BY Facts
    <2>3. Served(sub[s], Waiting(s), InFlight(s), last, top)
      BY <1>1, <2>1, <2>2, SentQueue
    <2>4. last.ev <= top
      BY <2>3 DEF Served
    <2>5. WayFits(W, {}, top)
      <3>1. PICK q \in Seq(QueuedJob) : q = sub[s].outgoing
        BY Facts
      <3>2. \A i \in 1..Len(q) : q[i].ev <= top
        BY <2>3, <3>1 DEF Served, QueueFits, Ordered
      <3>3. Len(q) \in Nat
        BY QueueMembers
      <3>4. \A x \in W : Len(q) > 1 /\ x = q[2].ev
        BY <1>1, <3>1 DEF Following
      <3>5. \A x \in W : x <= top
        BY <3>2, <3>3, <3>4
      <3> QED BY <3>4, <3>5 DEF WayFits
    <2>6. Gone(b2, W, {}, last, top)
      <3>1. PICK f \in SUBSET Event : f = {}
        OBVIOUS
      <3>2. Gone(NewSubscription(0), W, f, last, top)
        BY <2>4, <2>5, <3>1, FitsRemoved
      <3> QED BY <1>8, <3>1, <3>2
    <2>7. s \notin Listed'
      <3>1. Listed' = Listed \ {n.sid}
        BY UnlinkKeeps
      <3> QED BY <1>1, <3>1
    <2>8. sub'[s] = b2
      BY <1>1, <1>8 DEF IInv, TypeOK
    <2>9. Fitting(s)'
      BY <1>5, <2>1, <2>2, <2>6, <2>7, <2>8 DEF Fitting
    <2> QED BY <1>1, <2>9
  <1>10. refused' = refused \/ refused' = refused \cup {n.sid}
    OBVIOUS
  <1>11. PICK S : S = {n.sid}
    OBVIOUS
  <1>12. S \subseteq {n.sid} /\ Unlink(S)
    BY <1>11
  <1>13. sub' = [sub EXCEPT ![n.sid] = b2]
    BY <1>8
  <1> QED BY <1>4, <1>6, <1>7, <1>9, <1>10, <1>12, <1>13, EndedKeeps

\* After the sending, a job keeps the invariant.
LEMMA NotifyEndKeeps == ASSUME IInv, NEW n \in sending, NotifyEnd(n) PROVE IInv'
  <1>1. /\ sending' = sending \ {n}
        /\ UNCHANGED <<handleVars, used, lastEvent, now, lastSent, initial>>
    BY DEF NotifyEnd
  <1>2. CASE NotifyVoid(n)
    <2>1. n \notin pool
      <3>1. n \in Notification
        BY DEF IInv, TypeOK
      <3>2. n.sid \in Sid /\ n.ev \in Event /\ n = [sid |-> n.sid, ev |-> n.ev]
        BY <3>1, NotificationEvents
      <3>3. Fitting(n.sid)
        BY <3>2 DEF IInv, SubscriptionsKept
      <3>4. WayFits(Waiting(n.sid), InFlight(n.sid), lastEvent)
        BY <3>3 DEF Fitting, Served, Gone
      <3>5. n.ev \in InFlight(n.sid)
        BY <3>2 DEF InFlight
      <3>6. n.ev \notin Waiting(n.sid)
        BY <3>4, <3>5 DEF WayFits
      <3> QED BY <3>2, <3>6 DEF Waiting
    <2>2. /\ ~Found(n.sid) /\ Unlink(Dropped(n.sid))
          /\ sub' = [s \in Sid |-> IF s \in Dropped(n.sid) THEN NewSubscription(0) ELSE sub[s]]
          /\ reference_count' = [Released(QueuedEvents(Dropped(n.sid)))
                                    EXCEPT ![n.ev] = @ - 1]
          /\ UNCHANGED <<pool, refused>>
      BY <1>2 DEF NotifyVoid
    <2>3. pool' = pool \ {n} /\ n \in pool \cup sending
      BY <2>1, <2>2
    <2>4. UNCHANGED <<handleVars, used, lastEvent, now, seenVars>>
      BY <1>1, <2>2 DEF seenVars
    <2> QED BY <1>1, <2>2, <2>3, <2>4, VoidKeeps
  <1>3. ASSUME NEW reply, NotifyDone(n, reply) PROVE IInv'
    <2>1. n.sid \in Listed
      BY <1>3, DonePool
    <2>2. PICK W \in SUBSET Event :
             /\ pool' = pool \cup {[sid |-> n.sid, ev |-> x] : x \in W}
             /\ \/ W = Following(sub[n.sid].outgoing) /\ refused' = refused
                \/ W = {} /\ refused' = refused \cup {n.sid}
      BY <1>3, DonePool
    <2>3. CASE /\ sub' = [sub EXCEPT ![n.sid] = NewSubscription(0)]
               /\ Unlink({n.sid})
               /\ reference_count' = [Released(Places({n.sid}, 3)) EXCEPT ![n.ev] = @ - 1]
      BY <1>1, <2>1, <2>2, <2>3, LeftKeeps
    <2>4. CASE /\ \E b2 \in Subscription :
                     /\ sub' = [sub EXCEPT ![n.sid] = b2]
                     /\ b2.active <=> sub[n.sid].active
                     /\ b2.ToSendEventKey = NextKey(sub[n.sid].ToSendEventKey)
                     /\ Len(b2.outgoing) = Len(sub[n.sid].outgoing) - 1
                     /\ \A i \in 1..Len(b2.outgoing) :
                           /\ b2.outgoing[i].ev = sub[n.sid].outgoing[i + 1].ev
                           /\ b2.outgoing[i].stale <=>
                                 (i = 1 \/ sub[n.sid].outgoing[i + 1].stale)
               /\ Unlink({}) /\ reference_count' = [reference_count EXCEPT ![n.ev] = @ - 1]
      BY <1>1, <2>1, <2>2, <2>4, StayedKeeps
    <2> QED BY <1>3, <2>3, <2>4, DoneQueue
  <1> QED BY <1>2, <1>3 DEF NotifyEnd

-----------------------------------------------------------------------------
(* The loop of genaNotifyAllCommon() *)

\* The subscriptions of S whose queues are empty.
Idle(S) == {s \in S : sub[s].outgoing = <<>>}

\* The places that maybeDiscardEvents() drops from the queues of S.
Trimmed(S) == UNION {{<<s, i>> : i \in 2..(1 + Discards(sub[s].outgoing))} : s \in S}

\* The job of the new event for s, when the pool refuses those of F.
Told(s, S, F, job) ==
    /\ job \in QueuedJob /\ job.ev = lastEvent + 1
    /\ job.stale <=> s \in Idle(S) \ F
    /\ sub'[s].active /\ sub'[s].ToSendEventKey = sub[s].ToSendEventKey
    /\ sub'[s].outgoing = Grown(sub[s].outgoing, job)

\* What the loop does that finds X expired, tells S, and ends at F.
Announced(X, S, F) ==
    /\ Unlink(X)
    /\ sub' \in [Sid -> Subscription]
    /\ \A s \in X : sub'[s] = NewSubscription(0)
    /\ \A s \in S : \E job : Told(s, S, F, job)
    /\ \A s \in Sid \ (X \cup S) : sub'[s] = sub[s]
    /\ pool' = pool \cup {[sid |-> s, ev |-> lastEvent + 1] : s \in Idle(S) \ F}
    /\ reference_count' = [Released(QueuedEvents(X) \cup Trimmed(S))
                              EXCEPT ![lastEvent + 1] = Cardinality(S)]
    /\ refused' = refused \cup F

\* The subscriptions that a loop over the list takes.
Taken(X, S, F) ==
    /\ X \subseteq Listed /\ S \subseteq Listed /\ X \cap S = {} /\ F \subseteq Idle(S)
    /\ \A s \in S : sub[s].active

\* The loop in these words.
LEMMA LoopFacts ==
    ASSUME IInv, NotifyAll
    PROVE  \E X, S, F : Taken(X, S, F) /\ Announced(X, S, F)
  <1>1. lastEvent + 1 \in Event /\ lastEvent \in Nat
    BY NewEvent DEF NotifyAll
  <1>2. PICK list \in Seq(Sid) : list = subscriptionList
    BY DEF IInv, TypeOK
  <1>3. PICK last \in 1..(Len(subscriptionList) + 1) :
          LET e       == lastEvent + 1
              seen    == {subscriptionList[i] : i \in 1..Min({last, Len(subscriptionList)})}
              expired == {s \in seen : Expired(s)}
              S       == {s \in seen : sub[s].active /\ ~Expired(s)}
              kicked  == {s \in S : Kickstart(Discarded(sub[s].outgoing))}
              failing == IF last > Len(subscriptionList) THEN {} ELSE {subscriptionList[last]}
              gone    == UNION {{<<s, i>> : i \in 2..(1 + Discards(sub[s].outgoing))} : s \in S}
              job(s)  == [ev |-> e, ctime |-> now, stale |-> s \in kicked \ failing]
          IN  /\ failing # {} => scenario.refuse
              /\ failing \subseteq kicked
              /\ Unlink(expired)
              /\ sub' = [s \in Sid |->
                    CASE s \in expired -> NewSubscription(0)
                      [] s \in S -> [sub[s] EXCEPT !.outgoing = Append(Discarded(@), job(s))]
                      [] OTHER -> sub[s]]
              /\ pool' = pool \cup {[sid |-> s, ev |-> e] : s \in kicked \ failing}
              /\ reference_count' = [Released(QueuedEvents(expired) \cup gone)
                                        EXCEPT ![e] = Cardinality(S)]
              /\ refused' = refused \cup failing
    BY DEF NotifyAll
  <1> DEFINE seen == {subscriptionList[i] : i \in 1..Min({last, Len(subscriptionList)})}
             X == {s \in seen : Expired(s)}
             S == {s \in seen : sub[s].active /\ ~Expired(s)}
             K == {s \in S : Kickstart(Discarded(sub[s].outgoing))}
             F == IF last > Len(subscriptionList) THEN {} ELSE {subscriptionList[last]}
             job(s) == [ev |-> lastEvent + 1, ctime |-> now, stale |-> s \in K \ F]
  <1>4. /\ F \subseteq K /\ Unlink(X)
        /\ sub' = [s \in Sid |->
              CASE s \in X -> NewSubscription(0)
                [] s \in S -> [sub[s] EXCEPT !.outgoing = Append(Discarded(@), job(s))]
                [] OTHER -> sub[s]]
        /\ pool' = pool \cup {[sid |-> s, ev |-> lastEvent + 1] : s \in K \ F}
        /\ reference_count' = [Released(QueuedEvents(X) \cup Trimmed(S))
                                  EXCEPT ![lastEvent + 1] = Cardinality(S)]
        /\ refused' = refused \cup F
    <2>1. Trimmed(S) = UNION {{<<s, i>> : i \in 2..(1 + Discards(sub[s].outgoing))} : s \in S}
      BY DEF Trimmed
    <2> QED BY <1>3, <2>1
  <1>5. seen \subseteq Listed
    <2>1. Len(list) \in Nat /\ last \in Nat /\ DOMAIN list = 1..Len(list)
      BY <1>2, LenProperties
    <2>2. {last, Len(list)} \subseteq Nat /\ {last, Len(list)} # {}
      BY <2>1
    <2>3. Min({last, Len(list)}) <= Len(list) /\ Min({last, Len(list)}) \in Nat
      <3>1. /\ Min({last, Len(list)}) \in {last, Len(list)}
            /\ \A y \in {last, Len(list)} : Min({last, Len(list)}) <= y
        BY <2>2, LeastExists
      <3> QED BY <2>1, <3>1
    <2>4. \A i \in 1..Min({last, Len(list)}) : i \in DOMAIN list
      BY <2>1, <2>3
    <2>5. seen = {list[i] : i \in 1..Min({last, Len(list)})}
      BY <1>2
    <2> QED BY <1>2, <2>4, <2>5 DEF Listed, Range
  <1>6. X \subseteq Listed /\ S \subseteq Listed /\ X \cap S = {} /\ \A s \in S : sub[s].active
    BY <1>5
  <1>7. Listed \subseteq Sid
    BY Facts
  <1>8. K = Idle(S)
    <2>1. ASSUME NEW s \in S
          PROVE  Kickstart(Discarded(sub[s].outgoing)) <=> sub[s].outgoing = <<>>
      <3>1. PICK q \in Seq(QueuedJob) : q = sub[s].outgoing
        BY <1>6, <1>7, Facts
      <3>2. Discarded(q) = <<>> <=> q = <<>>
        <4>1. PICK j \in QueuedJob : j = [ev |-> lastEvent + 1, ctime |-> now, stale |-> TRUE]
          BY <1>1 DEF QueuedJob, IInv, TypeOK
        <4> QED BY GrownQueue
      <3> QED BY <3>1, <3>2 DEF Kickstart
    <2> QED BY <2>1 DEF Idle
  <1>9. \A s \in S : job(s) \in QueuedJob /\ job(s).ev = lastEvent + 1
                     /\ (job(s).stale <=> s \in Idle(S) \ F)
    <2>1. \A s : (s \in K \ F) \in BOOLEAN
      OBVIOUS
    <2> HIDE DEF K, F, S
    <2>2. now \in Nat
      BY DEF IInv, TypeOK
    <2> QED BY <1>1, <1>8, <2>1, <2>2 DEF QueuedJob
  <1> HIDE DEF K, F, S, X, seen, job
  <1>10. /\ \A s \in X : sub'[s] = NewSubscription(0)
         /\ \A s \in S : sub'[s] = [sub[s] EXCEPT !.outgoing = Append(Discarded(@), job(s))]
         /\ \A s \in Sid \ (X \cup S) : sub'[s] = sub[s]
         /\ DOMAIN sub' = Sid
    BY <1>4, <1>6, <1>7
  <1>11. ASSUME NEW s \in S
         PROVE  sub'[s] \in Subscription /\ Told(s, S, F, job(s))
    <2>1. s \in Sid
      BY <1>6, <1>7
    <2>2. PICK b \in Subscription : b = sub[s]
      BY <2>1, Facts
    <2>3. PICK q \in Seq(QueuedJob) : q = b.outgoing
      BY DEF Subscription
    <2>4. PICK j \in QueuedJob : j = job(s)
      BY <1>9
    <2>5. PICK r : r = Grown(q, j)
      OBVIOUS
    <2>6. r \in Seq(QueuedJob)
      BY <2>5, GrownQueue
    <2>7. sub'[s] = [b EXCEPT !.outgoing = r]
      BY <1>10, <2>2, <2>3, <2>4, <2>5 DEF Grown
    <2>8. /\ sub'[s] \in Subscription /\ sub'[s].active = b.active
          /\ sub'[s].ToSendEventKey = b.ToSendEventKey /\ sub'[s].outgoing = r
      BY <2>6, <2>7 DEF Subscription
    <2>9. sub[s].active
      BY <1>6
    <2> QED BY <1>9, <2>2, <2>3, <2>4, <2>5, <2>8, <2>9 DEF Told
  <1>12. sub' \in [Sid -> Subscription]
    <2>1. NewSubscription(0) \in Subscription
      BY GenaAssumption DEF NewSubscription, Subscription
    <2>2. \A s \in Sid : sub'[s] \in Subscription
      BY <1>10, <1>11, <2>1, Facts
    <2>3. sub' = [s \in Sid |-> sub'[s]]
      BY <1>4
    <2> QED BY <2>2, <2>3
  <1>13. Taken(X, S, F)
    BY <1>4, <1>6, <1>8 DEF Taken
  <1>14. Announced(X, S, F)
    BY <1>4, <1>8, <1>10, <1>11, <1>12 DEF Announced
  <1> QED BY <1>13, <1>14

\* What is on its way after the loop.
LEMMA AnnouncedWay ==
    ASSUME IInv, lastEvent < scenario.events, NEW X, NEW S, NEW F,
           Taken(X, S, F), Announced(X, S, F), sending' = sending
    PROVE  /\ \A t \in Sid : InFlight(t)' = InFlight(t)
           /\ \A t \in Idle(S) \ F : Waiting(t)' = Waiting(t) \cup {lastEvent + 1}
           /\ \A t \in Sid : t \notin Idle(S) \ F => Waiting(t)' = Waiting(t)
           /\ \A d \in Event : d = lastEvent + 1 => Held(d)' = Idle(S) \ F
           /\ \A d \in Event : d # lastEvent + 1 => Held(d)' = Held(d)
  <1>1. PICK e \in Event : e = lastEvent + 1
    BY NewEvent
  <1>2. PICK K : K = Idle(S) \ F
    OBVIOUS
  <1>3. K \subseteq Sid
    BY <1>2, Facts DEF Taken, Idle
  <1>4. pool' = pool \cup {[sid |-> s, ev |-> e] : s \in K}
    BY <1>1, <1>2 DEF Announced
  <1>5. \A t \in Sid, d \in Event :
           [sid |-> t, ev |-> d] \in {[sid |-> s, ev |-> e] : s \in K} <=> t \in K /\ d = e
    <2> TAKE t \in Sid, d \in Event
    <2>1. \A s : [sid |-> t, ev |-> d] = [sid |-> s, ev |-> e] <=> t = s /\ d = e
      <3> TAKE s
      <3>1. [sid |-> t, ev |-> d].sid = t /\ [sid |-> t, ev |-> d].ev = d
        OBVIOUS
      <3>2. [sid |-> s, ev |-> e].sid = s /\ [sid |-> s, ev |-> e].ev = e
        OBVIOUS
      <3> QED BY <3>1, <3>2
    <2> QED BY <2>1
  <1>6. \A t \in Sid : InFlight(t)' = InFlight(t)
    BY DEF InFlight
  <1>7. \A t \in Sid, d \in Event : d \in Waiting(t)' <=> d \in Waiting(t) \/ (t \in K /\ d = e)
    BY <1>4, <1>5 DEF Waiting
  <1>8. \A t \in Sid : Waiting(t) \subseteq Event /\ Waiting(t)' \subseteq Event
    BY DEF Waiting
  <1>9. \A t \in K : Waiting(t)' = Waiting(t) \cup {e}
    BY <1>3, <1>7, <1>8
  <1>10. \A t \in Sid : t \notin K => Waiting(t)' = Waiting(t)
    BY <1>7, <1>8
  <1>11. Held(e)' = K
    <2>1. Held(e) = {}
      BY <1>1, NewEvent
    <2>2. \A t \in Sid : e \notin Waiting(t) \cup InFlight(t)
      BY <2>1 DEF Held
    <2>3. \A t \in Sid : e \in Waiting(t)' \cup InFlight(t)' <=> t \in K
      BY <1>6, <1>7, <2>2
    <2> QED BY <1>3, <2>3 DEF Held
  <1>12. ASSUME NEW d \in Event, d # e PROVE Held(d)' = Held(d)
    <2>1. \A t \in Sid : d \in Waiting(t)' \cup InFlight(t)' <=> d \in Waiting(t) \cup InFlight(t)
      BY <1>6, <1>7, <1>12
    <2> QED BY <2>1 DEF Held
  <1> QED BY <1>1, <1>2, <1>6, <1>9, <1>10, <1>11, <1>12

\* Every subscription after the loop.
LEMMA AnnouncedFits ==
    ASSUME IInv, lastEvent < scenario.events, NEW X, NEW S, NEW F,
           Taken(X, S, F), Announced(X, S, F), sending' = sending,
           lastEvent' = lastEvent + 1, lastSent' = lastSent, initial' = initial,
           NEW s \in Sid
    PROVE  Fitting(s)'
  <1>1. PICK e \in Event : e = lastEvent + 1
    BY NewEvent
  <1>2. PICK b \in Subscription : b = sub[s]
    BY Facts
  <1>3. PICK w \in SUBSET Event : w = Waiting(s)
    BY Facts
  <1>4. PICK f \in SUBSET Event : f = InFlight(s)
    BY Facts
  <1>5. PICK last \in LastSent : last = lastSent[s]
    BY Facts
  <1>6. PICK top \in Nat : top = lastEvent
    BY Facts
  <1>7. /\ e \in Int /\ top < e /\ top <= e /\ lastEvent' = e
    <2>1. Event \subseteq Int
      BY Facts
    <2> QED BY <1>1, <1>6, <2>1
  <1>8. Fitting(s)
    BY DEF IInv, SubscriptionsKept
  <1>9. Listed' = Listed \ X
    BY UnlinkKeeps DEF Announced, Taken
  <1>10. InFlight(s)' = f
    BY <1>4, AnnouncedWay
  <1>11. CASE s \in X
    <2>1. s \notin S /\ s \in Listed
      BY <1>11 DEF Taken
    <2>2. s \notin Idle(S) \ F
      BY <2>1 DEF Idle
    <2>3. Waiting(s)' = w
      BY <1>3, <2>2, AnnouncedWay
    <2>4. Served(b, w, f, last, top)
      BY <1>2, <1>3, <1>4, <1>5, <1>6, <1>8, <2>1 DEF Fitting
    <2>5. Served(b, w, f, last, e)
      BY <1>7, <2>4, FitsLater
    <2>6. WayFits(w, f, e) /\ last.ev <= e
      BY <2>5 DEF Served
    <2>7. Gone(NewSubscription(0), w, f, last, e)
      BY <1>7, <2>6, FitsRemoved
    <2>8. sub'[s] = NewSubscription(0)
      BY <1>11 DEF Announced
    <2>9. s \notin Listed'
      BY <1>9, <1>11
    <2> HIDE DEF NewSubscription
    <2> QED BY <1>5, <1>7, <1>10, <2>3, <2>7, <2>8, <2>9 DEF Fitting
  <1>12. CASE s \in S
    <2>1. s \in Listed /\ s \notin X /\ b.active
      BY <1>2, <1>12 DEF Taken
    <2>2. PICK job : Told(s, S, F, job)
      BY <1>12 DEF Announced
    <2>3. PICK b2 \in Subscription : b2 = sub'[s]
      BY DEF Announced
    <2>4. /\ job \in QueuedJob /\ job.ev = e /\ (job.stale <=> s \in Idle(S) \ F)
          /\ b2.active /\ b2.ToSendEventKey = b.ToSendEventKey
          /\ b2.outgoing = Grown(b.outgoing, job)
      BY <1>1, <1>2, <2>2, <2>3 DEF Told
    <2>5. s \in Idle(S) <=> b.outgoing = <<>>
      BY <1>2, <1>12 DEF Idle
    <2>6. PICK w2 \in SUBSET Event : w2 = Waiting(s)'
      BY DEF Waiting
    <2>7. /\ s \in Idle(S) \ F => w2 = w \cup {e}
          /\ s \notin Idle(S) \ F => w2 = w
      BY <1>1, <1>3, <2>6, AnnouncedWay
    <2>8. \/ b.outgoing # <<>> /\ w2 = w
          \/ b.outgoing = <<>> /\ w2 \subseteq w \cup {e}
      BY <2>5, <2>7
    <2>9. Served(b, w, f, last, top)
      BY <1>2, <1>3, <1>4, <1>5, <1>6, <1>8, <2>1 DEF Fitting
    <2>10. PICK j \in QueuedJob : j = job
      BY <2>4
    <2>11. j.ev = e /\ b2.outgoing = Grown(b.outgoing, j)
      BY <2>4, <2>10
    <2>12. /\ Served(b2, w2, f, last, e)
           /\ \A first :
                 /\ Prompt(b, w, f, last, first)
                 /\ j.stale <=> b.outgoing = <<>>
                 /\ b.outgoing = <<>> => e \in w2
                 => Prompt(b2, w2, f, last, first)
      BY <1>7, <2>1, <2>4, <2>8, <2>9, <2>11, FitsNotified
    <2>13. s \notin refused' => Prompt(b2, w2, f, last, initial[s])
      <3> HAVE s \notin refused'
      <3>1. s \notin F /\ s \notin refused
        BY DEF Announced
      <3>2. Prompt(b, w, f, last, initial[s])
        BY <1>2, <1>3, <1>4, <1>5, <1>8, <2>1, <3>1 DEF Fitting
      <3>3. (j.stale <=> b.outgoing = <<>>) /\ (b.outgoing = <<>> => e \in w2)
        BY <2>4, <2>5, <2>7, <2>10, <3>1
      <3> QED BY <2>12, <3>2, <3>3
    <2>14. s \in Listed'
      BY <1>9, <2>1
    <2> QED BY <1>5, <1>7, <1>10, <2>3, <2>6, <2>12, <2>13, <2>14 DEF Fitting
  <1>13. CASE s \notin X /\ s \notin S
    <2>1. s \notin Idle(S) /\ s \notin F
      BY <1>13 DEF Idle, Taken
    <2>2. Waiting(s)' = Waiting(s) /\ InFlight(s)' = InFlight(s)
      BY <2>1, AnnouncedWay
    <2>3. sub'[s] = sub[s]
      BY <1>13 DEF Announced
    <2>4. (s \in refused' <=> s \in refused) /\ (s \in Listed' <=> s \in Listed)
      BY <1>9, <1>13, <2>1 DEF Announced
    <2>5. lastEvent' \in Nat /\ lastEvent <= lastEvent' /\ TypeOK
      BY <1>6, <1>7 DEF IInv
    <2> QED BY <1>8, <2>2, <2>3, <2>4, <2>5, FitsUntouched
  <1> QED BY <1>11, <1>12, <1>13

\* The new event after the loop: it is behind the heads of the queues that were not
\* empty.
LEMMA AnnouncedNew ==
    ASSUME IInv, lastEvent < scenario.events, NEW X, NEW S, NEW F,
           Taken(X, S, F), Announced(X, S, F), NEW e \in Event
    PROVE  e = lastEvent + 1 => Back(e)' = S \ Idle(S) /\ reference_count'[e] = Cardinality(S)
  <1>1. SUFFICES ASSUME e = lastEvent + 1
                 PROVE  Back(e)' = S \ Idle(S) /\ reference_count'[e] = Cardinality(S)
    OBVIOUS
  <1>2. S \subseteq Sid /\ X \subseteq Sid
    BY Facts DEF Taken
  <1>3. Back(e) = {} /\ lastEvent \in Nat /\ e \in Int /\ lastEvent < e
    <2>1. Back(e) = {} /\ lastEvent \in Nat
      BY <1>1, NewEvent
    <2> QED BY <1>1, <2>1
  <1>4. ASSUME NEW s \in Sid PROVE s \in Back(e)' <=> s \in S /\ s \notin Idle(S)
    <2>1. CASE s \in X
      <3>1. sub'[s] = NewSubscription(0) /\ s \notin S
        BY <2>1 DEF Announced, Taken
      <3>2. NewSubscription(0).outgoing = <<>> /\ Len(<<>>) = 0
        BY DEF NewSubscription
      <3>3. Behind(sub'[s].outgoing) = {}
        BY <3>1, <3>2 DEF Behind
      <3> QED BY <3>1, <3>3 DEF Back
    <2>2. CASE s \in S
      <3>1. PICK job : Told(s, S, F, job)
        BY <2>2 DEF Announced
      <3>2. PICK j \in QueuedJob : j = job /\ j.ev = e /\ sub'[s].outgoing = Grown(sub[s].outgoing, j)
        BY <1>1, <3>1 DEF Told
      <3>3. PICK q \in Seq(QueuedJob) : q = sub[s].outgoing
        BY Facts
      <3>4. Ordered(q, lastEvent)
        BY <3>3, Facts DEF Ascending
      <3>5. PICK top \in Nat : top = lastEvent
        BY <1>3
      <3>6. top < e /\ Ordered(q, top)
        BY <1>3, <3>4, <3>5
      <3>7. e \in Behind(Grown(q, j)) <=> q # <<>>
        BY <1>3, <3>2, <3>6, GrownBehind
      <3> QED BY <2>2, <3>2, <3>3, <3>7 DEF Back, Idle
    <2>3. CASE s \notin X /\ s \notin S
      <3>1. sub'[s] = sub[s]
        BY <2>3 DEF Announced
      <3>2. s \in Back(e)' <=> s \in Back(e)
        BY <3>1 DEF Back
      <3> QED BY <1>3, <2>3, <3>2
    <2> QED BY <2>1, <2>2, <2>3
  <1>5. Back(e)' \subseteq Sid
    BY DEF Back
  <1>6. Back(e)' = S \ Idle(S)
    BY <1>2, <1>4, <1>5
  <1>7. reference_count'[e] = Cardinality(S)
    <2>1. DOMAIN Released(QueuedEvents(X) \cup Trimmed(S)) = Event
      BY DEF Released
    <2> QED BY <1>1, <2>1 DEF Announced
  <1> QED BY <1>6, <1>7

\* An earlier event after the loop: the counter goes down by as many as it is not
\* behind any more.
LEMMA AnnouncedOld ==
    ASSUME IInv, lastEvent < scenario.events, NEW X, NEW S, NEW F,
           Taken(X, S, F), Announced(X, S, F), NEW d \in Event, d # lastEvent + 1
    PROVE  \E R : /\ R \subseteq Back(d) /\ Back(d)' = Back(d) \ R
                  /\ reference_count'[d] = reference_count[d] - Cardinality(R)
  <1>1. PICK e \in Event : e = lastEvent + 1
    BY NewEvent
  <1>2. S \subseteq Sid /\ X \subseteq Sid /\ X \cap S = {}
    BY Facts DEF Taken
  <1>3. lastEvent \in Nat /\ e \in Int /\ lastEvent < e /\ d # e
    <2>1. lastEvent \in Nat
      BY NewEvent
    <2> QED BY <1>1, <2>1
  <1>4. PICK P : P = QueuedEvents(X) \cup Trimmed(S)
    OBVIOUS
  <1>5. PICK two \in Nat \ {0} : two = 2
    OBVIOUS
  <1>6. /\ \A x \in QueuedEvents(X) :
              \E s \in Sid, i \in Nat : i \in 1..Len(sub[s].outgoing) /\ x = <<s, i>>
        /\ \A s, i : <<s, i>> \in QueuedEvents(X) <=> s \in X /\ i \in 2..Len(sub[s].outgoing)
    <2>1. QueuedEvents(X) = Places(X, two)
      BY <1>5 DEF QueuedEvents
    <2>2. /\ \A x \in Places(X, two) :
                \E s \in Sid, i \in Nat : i \in 1..Len(sub[s].outgoing) /\ x = <<s, i>>
          /\ \A s, i : <<s, i>> \in Places(X, two) <=> s \in X /\ i \in two..Len(sub[s].outgoing)
      BY <1>2, PlaceMembers
    <2> QED BY <1>5, <2>1, <2>2
  <1>7. \A s \in Sid : \A i \in 2..(1 + Discards(sub[s].outgoing)) : i \in 2..Len(sub[s].outgoing)
    <2> TAKE s \in Sid
    <2>1. PICK q \in Seq(QueuedJob) : q = sub[s].outgoing
      BY Facts
    <2>2. /\ Discards(q) \in Nat /\ Len(q) \in Nat
          /\ q # <<>> => Discards(q) < Len(q)
          /\ q = <<>> => Discards(q) = 0
      BY DiscardsBounded, QueueMembers
    <2>3. \A i \in 2..(1 + Discards(q)) : i \in 2..Len(q)
      BY <2>2
    <2> QED BY <2>1, <2>3
  <1>8. /\ \A x \in Trimmed(S) :
              \E s \in Sid, i \in Nat : i \in 1..Len(sub[s].outgoing) /\ x = <<s, i>>
        /\ \A s, i : <<s, i>> \in Trimmed(S) <=>
                        s \in S /\ i \in 2..(1 + Discards(sub[s].outgoing))
    <2>1. ASSUME NEW x \in Trimmed(S)
          PROVE  \E s \in S : \E i \in 2..(1 + Discards(sub[s].outgoing)) : x = <<s, i>>
      BY DEF Trimmed
    <2>2. ASSUME NEW s \in S, NEW i \in 2..(1 + Discards(sub[s].outgoing))
          PROVE  <<s, i>> \in Trimmed(S)
      BY DEF Trimmed
    <2>3. ASSUME NEW x \in Trimmed(S)
          PROVE  \E s \in Sid, i \in Nat : i \in 1..Len(sub[s].outgoing) /\ x = <<s, i>>
      <3>1. PICK s \in S : \E i \in 2..(1 + Discards(sub[s].outgoing)) : x = <<s, i>>
        BY <2>1
      <3>2. PICK i \in 2..(1 + Discards(sub[s].outgoing)) : x = <<s, i>>
        BY <3>1
      <3>3. s \in Sid /\ i \in 2..Len(sub[s].outgoing)
        BY <1>2, <1>7
      <3>4. i \in Nat /\ i \in 1..Len(sub[s].outgoing)
        BY <3>3
      <3> QED BY <3>2, <3>3, <3>4
    <2>4. ASSUME NEW s, NEW i, <<s, i>> \in Trimmed(S)
          PROVE  s \in S /\ i \in 2..(1 + Discards(sub[s].outgoing))
      <3>1. PICK t \in S : \E j \in 2..(1 + Discards(sub[t].outgoing)) : <<s, i>> = <<t, j>>
        BY <2>1, <2>4
      <3>2. PICK j \in 2..(1 + Discards(sub[t].outgoing)) : <<s, i>> = <<t, j>>
        BY <3>1
      <3>3. s = t /\ i = j
        BY <3>2
      <3> QED BY <3>2, <3>3
    <2> QED BY <2>2, <2>3, <2>4
  <1>9. \A x \in P : \E s \in Sid, i \in Nat : i \in 1..Len(sub[s].outgoing) /\ x = <<s, i>>
    BY <1>4, <1>6, <1>8
  <1>10. Released(P)[d] = reference_count[d] - Cardinality(HoldersAt(P, d))
    BY <1>9, Facts, ReleasedOnce DEF IInv
  <1>11. ASSUME NEW s \in Sid
         PROVE  /\ s \in HoldersAt(P, d) => s \in Back(d)
                /\ s \in Back(d)' <=> s \in Back(d) /\ s \notin HoldersAt(P, d)
    <2>1. PICK q \in Seq(QueuedJob) : q = sub[s].outgoing
      BY Facts
    <2>2. s \in Back(d) <=> d \in Behind(q)
      BY <2>1 DEF Back
    <2>3. s \in HoldersAt(P, d) <=> \E i \in 1..Len(q) : <<s, i>> \in P /\ q[i].ev = d
      BY <2>1 DEF HoldersAt
    <2>4. Len(q) \in Nat
      BY QueueMembers
    <2>5. CASE s \in X
      <3>1. \A i : <<s, i>> \in P <=> i \in 2..Len(q)
        BY <1>2, <1>4, <1>6, <1>8, <2>1, <2>5
      <3>2. \A i \in 2..Len(q) : i \in 1..Len(q)
        BY <2>4
      <3>3. s \in HoldersAt(P, d) <=> d \in Behind(q)
        BY <2>3, <3>1, <3>2 DEF Behind
      <3>4. s \notin Back(d)'
        <4>1. sub'[s] = NewSubscription(0)
          BY <2>5 DEF Announced
        <4>2. NewSubscription(0).outgoing = <<>> /\ Len(<<>>) = 0
          BY DEF NewSubscription
        <4>3. Behind(sub'[s].outgoing) = {}
          BY <4>1, <4>2 DEF Behind
        <4> QED BY <4>3 DEF Back
      <3> QED BY <2>2, <3>3, <3>4
    <2>6. CASE s \in S
      <3>1. \A i : <<s, i>> \in P <=> i \in 2..(1 + Discards(q))
        BY <1>2, <1>4, <1>6, <1>8, <2>1, <2>6
      <3>2. \A i \in 2..(1 + Discards(q)) : i \in 2..Len(q) /\ i \in 1..Len(q)
        <4>1. \A i \in 2..(1 + Discards(q)) : i \in 2..Len(q)
          BY <1>7, <2>1
        <4>2. \A i \in 2..Len(q) : i \in 1..Len(q)
          BY <2>4
        <4> QED BY <4>1, <4>2
      <3>3. s \in HoldersAt(P, d) <=> \E i \in 2..(1 + Discards(q)) : q[i].ev = d
        BY <2>3, <3>1, <3>2
      <3>4. s \in HoldersAt(P, d) => d \in Behind(q)
        BY <3>2, <3>3 DEF Behind
      <3>5. PICK job : Told(s, S, F, job)
        BY <2>6 DEF Announced
      <3>6. PICK j \in QueuedJob : j = job /\ j.ev = e /\ sub'[s].outgoing = Grown(q, j)
        BY <1>1, <2>1, <3>5 DEF Told
      <3>7. Ordered(q, lastEvent)
        BY <2>1, Facts DEF Ascending
      <3>8. PICK top \in Nat : top = lastEvent
        BY <1>3
      <3>9. top < e /\ Ordered(q, top)
        BY <1>3, <3>7, <3>8
      <3>10. d \in Behind(Grown(q, j)) <=>
                d \in Behind(q) /\ ~ \E i \in 2..(1 + Discards(q)) : q[i].ev = d
        BY <1>3, <3>6, <3>9, GrownBehind
      <3>11. s \in Back(d)' <=> d \in Behind(Grown(q, j))
        BY <3>6 DEF Back
      <3> QED BY <2>2, <3>3, <3>4, <3>10, <3>11
    <2>7. CASE s \notin X /\ s \notin S
      <3>1. \A i : <<s, i>> \notin P
        BY <1>4, <1>6, <1>8, <2>7
      <3>2. sub'[s] = sub[s]
        BY <2>7 DEF Announced
      <3> QED BY <2>3, <3>1, <3>2 DEF Back
    <2> QED BY <2>5, <2>6, <2>7
  <1>12. /\ HoldersAt(P, d) \subseteq Sid /\ Back(d) \subseteq Sid /\ Back(d)' \subseteq Sid
    BY DEF HoldersAt, Back
  <1>13. HoldersAt(P, d) \subseteq Back(d) /\ Back(d)' = Back(d) \ HoldersAt(P, d)
    BY <1>11, <1>12
  <1>14. reference_count'[d] = Released(P)[d]
    <2>1. DOMAIN Released(P) = Event
      BY DEF Released
    <2> QED BY <1>4, <2>1 DEF Announced
  <1> QED BY <1>10, <1>13, <1>14

\* The counters after the loop.
LEMMA AnnouncedCounts ==
    ASSUME IInv, lastEvent < scenario.events, NEW X, NEW S, NEW F,
           Taken(X, S, F), Announced(X, S, F), sending' = sending
    PROVE  CountsKept' /\ reference_count' \in [Event -> Int]
  <1>1. S \subseteq Sid /\ Idle(S) \subseteq S /\ F \subseteq Idle(S)
    BY Facts DEF Taken, Idle
  <1>2. IsFiniteSet(S) /\ IsFiniteSet(Idle(S))
    <2>1. S \in SUBSET Sid /\ Idle(S) \in SUBSET Sid
      BY <1>1
    <2> QED BY <2>1, GenaAssumption, FS_Subset
  <1>3. refused' = {} => refused = {} /\ F = {}
    BY DEF Announced
  <1>4. ASSUME NEW d \in Event
        PROVE  /\ Covers(reference_count'[d], Back(d)', Held(d)')
               /\ refused' = {} => Matches(reference_count'[d], Back(d)', Held(d)')
               /\ reference_count'[d] \in Int
    <2>1. CASE d = lastEvent + 1
      <3>1. /\ Back(d)' = S \ Idle(S) /\ Held(d)' = Idle(S) \ F
            /\ reference_count'[d] = Cardinality(S)
        BY <2>1, AnnouncedNew, AnnouncedWay
      <3>2. PICK K : K = Idle(S)
        OBVIOUS
      <3>3. /\ Cardinality(S) \in Nat /\ Cardinality(S \cap K) \in Nat
            /\ Cardinality(S \ K) = Cardinality(S) - Cardinality(S \cap K)
        BY <1>2, FewerBehind
      <3>4. /\ Cardinality(K) \in Nat /\ Cardinality(K \cap F) \in Nat
            /\ Cardinality(K \ F) = Cardinality(K) - Cardinality(K \cap F)
        BY <1>2, <3>2, FewerBehind
      <3>5. S \cap K = K
        BY <1>1, <3>2
      <3>6. F = {} => Cardinality(K \cap F) = 0
        <4>1. F = {} => K \cap F = {}
          OBVIOUS
        <4> QED BY <4>1, FS_EmptySet
      <3>7. Covers(Cardinality(S), S \ K, K \ F)
        BY <3>3, <3>4, <3>5 DEF Covers
      <3>8. F = {} => Matches(Cardinality(S), S \ K, K \ F)
        <4> HAVE F = {}
        <4>1. Cardinality(K \ F) = Cardinality(K)
          BY <3>4, <3>6
        <4>2. Cardinality(S \ K) = Cardinality(S) - Cardinality(K)
          BY <3>3, <3>5
        <4>3. PICK a \in Nat : a = Cardinality(S)
          BY <3>3
        <4>4. PICK c \in Nat : c = Cardinality(K)
          BY <3>4
        <4>5. a = (a - c) + c
          OBVIOUS
        <4> QED BY <4>1, <4>2, <4>3, <4>4, <4>5 DEF Matches
      <3> QED BY <1>3, <3>1, <3>2, <3>3, <3>7, <3>8
    <2>2. CASE d # lastEvent + 1
      <3>1. PICK R : /\ R \subseteq Back(d) /\ Back(d)' = Back(d) \ R
                     /\ reference_count'[d] = reference_count[d] - Cardinality(R)
        BY <2>2, AnnouncedOld
      <3>2. Held(d)' = Held(d)
        BY <2>2, AnnouncedWay
      <3>3. IsFiniteSet(Back(d)) /\ IsFiniteSet(Held(d)) /\ reference_count[d] \in Int
        BY Facts
      <3>4. /\ Covers(reference_count[d], Back(d), Held(d))
            /\ refused = {} => Matches(reference_count[d], Back(d), Held(d))
        BY DEF IInv, CountsKept
      <3>5. PICK B : B = Back(d)
        OBVIOUS
      <3>6. PICK H : H = Held(d)
        OBVIOUS
      <3>7. PICK r \in Int : r = reference_count[d]
        BY <3>3
      <3>8. /\ Cardinality(B \ R) \in Nat /\ Cardinality(B) \in Nat /\ Cardinality(B \cap R) \in Nat
            /\ Cardinality(B \ R) = Cardinality(B) - Cardinality(B \cap R)
        BY <3>3, <3>5, FewerBehind
      <3>9. B \cap R = R
        BY <3>1, <3>5
      <3>10. Cardinality(H) \in Nat
        BY <3>3, <3>6, FS_CardinalityType
      <3>11. PICK c \in Nat : c = Cardinality(R)
        BY <3>8, <3>9
      <3>12. Cardinality(B \ R) = Cardinality(B) - c
        BY <3>8, <3>9, <3>11
      <3>13. /\ Covers(r, B, H) => Covers(r - c, B \ R, H)
             /\ Matches(r, B, H) => Matches(r - c, B \ R, H)
             /\ r - c \in Int
        BY <3>8, <3>10, <3>12 DEF Covers, Matches
      <3> QED BY <1>3, <3>1, <3>2, <3>4, <3>5, <3>6, <3>7, <3>11, <3>13
    <2> QED BY <2>1, <2>2
  <1>5. reference_count' = [d \in Event |-> reference_count'[d]]
    BY DEF Announced, Released
  <1> QED BY <1>4, <1>5 DEF CountsKept

\* The loop keeps the invariant.
LEMMA NotifyAllKeeps == IInv /\ NotifyAll => IInv'
  <1> SUFFICES ASSUME IInv, NotifyAll PROVE IInv'
    OBVIOUS
  <1>1. /\ registered /\ lastEvent < scenario.events /\ lastEvent' = lastEvent + 1
        /\ UNCHANGED <<registered, MaxSubscriptions, scenario, used, sending, now, lastSent, initial>>
    BY DEF NotifyAll, handleVars
  <1>2. PICK X, S, F : Taken(X, S, F) /\ Announced(X, S, F)
    BY LoopFacts
  <1>3. CountsKept' /\ reference_count' \in [Event -> Int]
    BY <1>1, <1>2, AnnouncedCounts
  <1>4. SubscriptionsKept'
    <2>1. ASSUME NEW s \in Sid PROVE Fitting(s)'
      BY <1>1, <1>2, AnnouncedFits
    <2> QED BY <2>1 DEF SubscriptionsKept
  <1>5. /\ subscriptionList' \in Seq(Sid)
        /\ Listed' = Listed \ X
        /\ TotalSubscriptions' = Len(subscriptionList')
        /\ TotalSubscriptions' \in Int
        /\ IsInjective(subscriptionList')
    BY <1>2, UnlinkKeeps DEF Taken, Announced
  <1>6. ListKept'
    BY <1>1, <1>5 DEF IInv, ListKept
  <1>7. Idle(S) \subseteq Listed /\ F \subseteq Listed /\ Listed \subseteq Sid
    BY <1>2, Facts DEF Taken, Idle
  <1>8. UnusedKept'
    <2>1. ASSUME NEW s \in Sid \ used
          PROVE  /\ Waiting(s)' = {} /\ InFlight(s)' = {}
                 /\ lastSent'[s].ev = 0 /\ lastSent'[s].seq = -1
      <3>1. s \notin Listed
        BY DEF IInv, ListKept
      <3>2. Waiting(s)' = Waiting(s) /\ InFlight(s)' = InFlight(s)
        BY <1>1, <1>2, <1>7, <3>1, AnnouncedWay
      <3> QED BY <1>1, <3>2 DEF IInv, UnusedKept
    <2> QED BY <1>1, <2>1 DEF UnusedKept
  <1>9. TypeOK'
    <2>1. lastEvent + 1 \in Event /\ lastEvent' \in 0..MaxEvents
      BY <1>1, NewEvent
    <2>2. sub' \in [Sid -> Subscription]
      BY <1>2 DEF Announced
    <2>3. pool' \subseteq Notification
      <3>1. \A s \in Sid : [sid |-> s, ev |-> lastEvent + 1] \in Notification
        BY <2>1 DEF Notification
      <3>2. pool \subseteq Notification
        BY DEF IInv, TypeOK
      <3>3. \A s \in Idle(S) \ F : s \in Sid
        BY <1>7
      <3> QED BY <1>2, <3>1, <3>2, <3>3 DEF Announced
    <2>4. refused' \subseteq Sid
      BY <1>2, <1>7 DEF Announced, IInv, TypeOK
    <2> QED BY <1>1, <1>3, <1>5, <2>1, <2>2, <2>3, <2>4 DEF IInv, TypeOK
  <1> QED BY <1>3, <1>4, <1>6, <1>8, <1>9 DEF IInv

-----------------------------------------------------------------------------
(* The theorems *)

\* The invariant holds when the device has just been registered.
LEMMA InitKeeps == Init => IInv
  <1> SUFFICES ASSUME Init PROVE IInv
    OBVIOUS
  <1>1. /\ subscriptionList = <<>> /\ TotalSubscriptions = 0 /\ used = {} /\ pool = {}
        /\ sending = {} /\ lastEvent = 0 /\ refused = {} /\ registered /\ now = 1
        /\ sub = [s \in Sid |-> NewSubscription(0)]
        /\ reference_count = [e \in Event |-> 0]
        /\ lastSent = [s \in Sid |-> [ev |-> 0, seq |-> -1]]
        /\ initial = [s \in Sid |-> 0]
    BY DEF Init
  <1>2. NewSubscription(0) \in Subscription
    BY GenaAssumption DEF NewSubscription, Subscription
  <1>3. PICK last \in LastSent : last = [ev |-> 0, seq |-> -1]
    <2>1. 0 \in 0..MaxEvents /\ -1 \in (-1)..KeyMax
      BY GenaAssumption
    <2> QED BY <2>1 DEF LastSent
  <1>4. TypeOK
    <2>1. lastEvent \in 0..MaxEvents /\ initial \in [Sid -> 0..MaxEvents]
      BY <1>1, GenaAssumption
    <2>2. reference_count \in [Event -> Int]
      BY <1>1
    <2>3. lastSent \in [Sid -> [ev: 0..MaxEvents, seq: (-1)..KeyMax]]
      BY <1>1, <1>3 DEF LastSent
    <2>4. sub \in [Sid -> Subscription]
      BY <1>1, <1>2
    <2>5. /\ scenario \in Scenarios /\ MaxSubscriptions \in Nat \cup {UPNP_INFINITE}
          /\ registered \in BOOLEAN
      BY DEF Init
    <2>6. /\ subscriptionList \in Seq(Sid) /\ TotalSubscriptions \in Int /\ now \in Nat
          /\ used \subseteq Sid /\ pool \subseteq Notification /\ sending \subseteq Notification
          /\ refused \subseteq Sid
      BY <1>1
    <2> QED BY <2>1, <2>2, <2>3, <2>4, <2>5, <2>6 DEF TypeOK
  <1>5. Listed = {}
    BY <1>1 DEF Listed, Range
  <1>6. ListKept
    <2>1. Len(<<>>) = 0 /\ IsInjective(<<>>)
      BY DEF IsInjective
    <2> QED BY <1>1, <1>5, <2>1 DEF ListKept
  <1>7. \A s \in Sid : Waiting(s) = {} /\ InFlight(s) = {} /\ lastSent[s] = last
                       /\ sub[s] = NewSubscription(0)
    BY <1>1, <1>3 DEF Waiting, InFlight
  <1>8. last.ev = 0 /\ last.seq = -1
    BY <1>3
  <1>9. UnusedKept
    BY <1>7, <1>8 DEF UnusedKept
  <1>10. SubscriptionsKept
    <2>1. PICK w \in SUBSET Event : w = {}
      OBVIOUS
    <2>2. PICK top \in Int : top = 0
      OBVIOUS
    <2>3. WayFits(w, w, top) /\ last.ev <= top
      BY <1>8, <2>1, <2>2 DEF WayFits
    <2>4. Gone(NewSubscription(0), w, w, last, top)
      BY <2>3, FitsRemoved
    <2>5. ASSUME NEW s \in Sid PROVE Fitting(s)
      <3> HIDE DEF NewSubscription
      <3> QED BY <1>1, <1>5, <1>7, <2>1, <2>2, <2>4 DEF Fitting
    <2> QED BY <2>5 DEF SubscriptionsKept
  <1>11. CountsKept
    <2>1. SUFFICES ASSUME NEW e \in Event
                   PROVE  /\ Covers(reference_count[e], Back(e), Held(e))
                          /\ refused = {} => Matches(reference_count[e], Back(e), Held(e))
      BY DEF CountsKept
    <2>2. Held(e) = {}
      BY <1>7 DEF Held
    <2>3. Back(e) = {}
      <3>1. NewSubscription(0).outgoing = <<>> /\ Len(<<>>) = 0
        BY DEF NewSubscription
      <3>2. \A s \in Sid : Behind(sub[s].outgoing) = {}
        BY <1>7, <3>1 DEF Behind
      <3> QED BY <3>2 DEF Back
    <2>4. reference_count[e] = 0 /\ Cardinality({}) = 0
      BY <1>1, FS_EmptySet
    <2> QED BY <2>2, <2>3, <2>4 DEF Covers, Matches
  <1> QED BY <1>4, <1>6, <1>9, <1>10, <1>11 DEF IInv

\* Nothing changes the invariant when nothing changes.
LEMMA StutterKeeps == IInv /\ UNCHANGED vars => IInv'
  <1> SUFFICES ASSUME IInv, UNCHANGED vars PROVE IInv'
    OBVIOUS
  <1>1. UNCHANGED <<registered, scenario, subscriptionList, TotalSubscriptions, sub, used,
                    pool, sending, lastEvent, reference_count, seenVars>>
    BY DEF vars, listVars, handleVars
  <1>2. now' \in Nat /\ MaxSubscriptions' \in Nat \cup {UPNP_INFINITE}
    BY DEF vars, listVars, handleVars, IInv, TypeOK
  <1> QED BY <1>1, <1>2, QuietKeeps

\* Every step keeps the invariant.
LEMMA NextKeeps == IInv /\ [Next]_vars => IInv'
  <1> SUFFICES ASSUME IInv, [Next]_vars PROVE IInv'
    OBVIOUS
  <1>1. ASSUME NEW s \in Sid, Subscribe(s) PROVE IInv'
    BY <1>1, SubscribeKeeps
  <1>2. ASSUME NEW s \in Sid, Renew(s) PROVE IInv'
    BY <1>2, RenewKeeps
  <1>3. ASSUME NEW s \in Sid, Unsubscribe(s) PROVE IInv'
    BY <1>3, UnsubscribeKeeps
  <1>4. ASSUME NEW s \in Sid, InitNotify(s) PROVE IInv'
    BY <1>4, InitNotifyKeeps
  <1>5. ASSUME NEW n \in pool, NotifyStart(n) PROVE IInv'
    BY <1>5, NotifyStartKeeps
  <1>6. ASSUME NEW n \in sending, NotifyEnd(n) PROVE IInv'
    BY <1>6, NotifyEndKeeps
  <1> QED BY <1>1, <1>2, <1>3, <1>4, <1>5, <1>6, SetMaxSubscriptionsKeeps, UnregisterKeeps,
             NotifyAllKeeps, TickKeeps, StutterKeeps DEF Next, Request

\* In every reachable state the invariant holds.
LEMMA Invariance == Spec => []IInv
  BY InitKeeps, NextKeeps, PTL DEF Spec

\* The type invariant, ToSendEventKey within an int among it, for every number of
\* subscriptions and events, every limit on the queues and every way the pool refuses.
THEOREM TypeCorrect == Spec => []TypeOK
  <1>1. IInv => TypeOK
    BY DEF IInv
  <1> QED BY <1>1, Invariance, PTL

\* TotalSubscriptions, which gena_process_subscription_request() compares with the limit,
\* is the number of subscriptions however they leave the list.
THEOREM TotalCorrect == Spec => []TotalIsLength
  <1>1. IInv => TotalIsLength
    BY DEF IInv, ListKept, TotalIsLength
  <1> QED BY <1>1, Invariance, PTL

\* maybeDiscardEvents() bounds every queue, whatever the control point answers, by one
\* event more than its comment says.
THEOREM QueueCorrect == Spec => []OneAboveMaximum
  <1>1. ASSUME IInv PROVE OneAboveMaximum
    <2>1. ASSUME NEW s \in Sid PROVE Len(sub[s].outgoing) <= QueueLimit
      <3>1. Fitting(s)
        BY <1>1 DEF IInv, SubscriptionsKept
      <3> QED BY <3>1 DEF Fitting, Served, Gone, QueueFits
    <2> QED BY <2>1 DEF OneAboveMaximum, QueueLimit
  <1> QED BY <1>1, Invariance, PTL

\* Of the notifications of a subscription at most one is in the pool or being sent, and
\* of a listed one that the pool has refused no job it is exactly the head of the queue,
\* which the assertion on jobId in genaNotifyThread() and freeSubscriptionQueuedEvents()
\* rely on.
THEOREM HeadCorrect == Spec => []HeadOnTheWay
  <1>1. ASSUME IInv PROVE HeadOnTheWay
    <2>1. ASSUME NEW s \in Sid
          PROVE  /\ Cardinality(OnTheWay(s)) <= 1
                 /\ s \in Listed \ refused =>
                      /\ OnTheWay(s) = IF sub[s].outgoing = <<>> THEN {}
                                       ELSE {[sid |-> s, ev |-> sub[s].outgoing[1].ev]}
                      /\ \A i \in DOMAIN sub[s].outgoing : sub[s].outgoing[i].stale <=> i = 1
      <3>1. Fitting(s)
        BY <1>1 DEF IInv, SubscriptionsKept
      <3>2. WayFits(Waiting(s), InFlight(s), lastEvent)
        BY <3>1 DEF Fitting, Served, Gone
      <3>3. \A d, e \in Waiting(s) \cup InFlight(s) : d = e
        BY <3>2 DEF WayFits
      <3>4. pool \cup sending \subseteq Notification
        BY <1>1 DEF IInv, TypeOK
      <3>5. ASSUME NEW n \in OnTheWay(s)
            PROVE  n = [sid |-> s, ev |-> n.ev] /\ n.ev \in Waiting(s) \cup InFlight(s)
        <4>1. n \in pool \cup sending /\ n.sid = s /\ n \in Notification
          BY <3>4 DEF OnTheWay
        <4>2. n = [sid |-> s, ev |-> n.ev] /\ n.ev \in Event
          BY <4>1, NotificationEvents
        <4> QED BY <4>1, <4>2 DEF Waiting, InFlight
      <3>6. ASSUME NEW e \in Waiting(s) \cup InFlight(s)
            PROVE  [sid |-> s, ev |-> e] \in OnTheWay(s)
        BY DEF Waiting, InFlight, OnTheWay
      <3>7. Cardinality(OnTheWay(s)) <= 1
        <4>1. CASE OnTheWay(s) = {}
          BY <4>1, FS_EmptySet
        <4>2. CASE OnTheWay(s) # {}
          <5>1. PICK m : m \in OnTheWay(s)
            BY <4>2
          <5>2. \A n \in OnTheWay(s) : n = m
            BY <3>3, <3>5, <5>1
          <5>3. OnTheWay(s) = {m}
            BY <5>1, <5>2
          <5>4. Cardinality({m}) = 1
            BY FS_Singleton
          <5> QED BY <5>3, <5>4
        <4> QED BY <4>1, <4>2
      <3>8. ASSUME s \in Listed \ refused
            PROVE  /\ OnTheWay(s) = IF sub[s].outgoing = <<>> THEN {}
                                    ELSE {[sid |-> s, ev |-> sub[s].outgoing[1].ev]}
                   /\ \A i \in DOMAIN sub[s].outgoing : sub[s].outgoing[i].stale <=> i = 1
        <4>1. PICK q \in Seq(QueuedJob) : q = sub[s].outgoing
          BY <1>1, Facts
        <4>2. \A e \in Waiting(s) \cup InFlight(s) : q # <<>> /\ e = q[1].ev
          BY <3>1, <3>8, <4>1 DEF Fitting, Served
        <4>3. /\ q # <<>> => q[1].ev \in Waiting(s) \cup InFlight(s)
              /\ \A i \in 1..Len(q) : q[i].stale <=> i = 1
          BY <3>1, <3>8, <4>1 DEF Fitting, Prompt, HeadFits
        <4>4. DOMAIN q = 1..Len(q)
          BY QueueMembers
        <4>5. q = <<>> => OnTheWay(s) = {}
          BY <3>5, <4>2
        <4>6. q # <<>> => OnTheWay(s) = {[sid |-> s, ev |-> q[1].ev]}
          <5> HAVE q # <<>>
          <5>1. [sid |-> s, ev |-> q[1].ev] \in OnTheWay(s)
            BY <3>6, <4>3
          <5>2. \A n \in OnTheWay(s) : n = [sid |-> s, ev |-> q[1].ev]
            BY <3>5, <4>2
          <5> QED BY <5>1, <5>2
        <4> QED BY <4>1, <4>3, <4>4, <4>5, <4>6
      <3> QED BY <3>7, <3>8
    <2>2. \A s \in Listed : s \in Sid
      BY <1>1, Facts
    <2> QED BY <2>1, <2>2 DEF HeadOnTheWay
  <1> QED BY <1>1, Invariance, PTL

\* A notification is known by the subscription that holds it.
LEMMA HeldNotifications ==
    ASSUME IInv, NEW e \in Event
    PROVE  Cardinality({n \in pool \cup sending : n.ev = e}) = Cardinality(Held(e))
  <1> DEFINE A == {n \in pool \cup sending : n.ev = e}
             f == [n \in A |-> n.sid]
  <1>1. ASSUME NEW n \in A
        PROVE  n = [sid |-> n.sid, ev |-> e] /\ n.sid \in Held(e)
    <2>1. n \in Notification /\ n.ev = e
      BY DEF IInv, TypeOK
    <2>2. n = [sid |-> n.sid, ev |-> e] /\ n.sid \in Sid
      BY <2>1, NotificationEvents
    <2> QED BY <2>2 DEF Held, Waiting, InFlight
  <1>2. f \in [A -> Held(e)]
    BY <1>1
  <1>3. ASSUME NEW n \in A, NEW m \in A, f[n] = f[m] PROVE n = m
    BY <1>1, <1>3
  <1>4. ASSUME NEW s \in Held(e) PROVE \E n \in A : f[n] = s
    <2>1. PICK n : n = [sid |-> s, ev |-> e]
      OBVIOUS
    <2>2. n \in A /\ n.sid = s
      BY <2>1 DEF Held, Waiting, InFlight
    <2> QED BY <2>2
  <1>5. IsFiniteSet(Held(e))
    BY Facts
  <1>6. /\ \A x, y \in A : f[x] = f[y] => x = y
        /\ \A z \in Held(e) : \E x \in A : f[x] = z
    BY <1>3, <1>4
  <1> HIDE DEF A, f
  <1>7. Cardinality(A) = Cardinality(Held(e))
    BY <1>2, <1>5, <1>6, SameNumber
  <1> QED BY <1>7 DEF A

\* The counter of a property set is never less than the number of structures that share
\* it, so that free_notify_struct() frees it with the last of them and never before, and
\* is that number as long as the pool has refused nothing, so that none is leaked.
THEOREM CountsCorrect == Spec => []CountsHolders
  <1>1. ASSUME IInv PROVE CountsHolders
    <2>1. ASSUME NEW e \in Event
          PROVE  Holders(e) = Cardinality(Back(e)) + Cardinality(Held(e))
      <3>1. Listed \subseteq Sid /\ Ascending /\ TypeOK
        BY <1>1, Facts DEF IInv
      <3>2. Back(e) \cap Listed = Back(e)
        <4>1. ASSUME NEW s \in Back(e) PROVE s \in Listed
          <5>1. SUFFICES ASSUME s \notin Listed PROVE FALSE
            OBVIOUS
          <5>2. s \in Sid /\ e \in Behind(sub[s].outgoing)
            BY DEF Back
          <5>3. Fitting(s)
            BY <1>1, <5>2 DEF IInv, SubscriptionsKept
          <5>4. sub[s].outgoing = <<>>
            BY <5>1, <5>3 DEF Fitting, Gone, QueueFits
          <5>5. Behind(<<>>) = {}
            <6>1. Len(<<>>) = 0
              OBVIOUS
            <6> QED BY <6>1 DEF Behind
          <5> QED BY <5>2, <5>4, <5>5
        <4> QED BY <4>1
      <3>3. Cardinality({x \in QueuedEvents(Listed) : sub[x[1]].outgoing[x[2]].ev = e})
               = Cardinality(Back(e) \cap Listed)
        BY <3>1, ReleasedQueues
      <3>4. Cardinality({n \in pool \cup sending : n.ev = e}) = Cardinality(Held(e))
        BY <1>1, HeldNotifications
      <3>5. Cardinality({x \in Places(Listed, 2) : sub[x[1]].outgoing[x[2]].ev = e})
               = Cardinality(Back(e))
        BY <3>2, <3>3 DEF QueuedEvents
      <3> QED BY <3>4, <3>5 DEF Holders
    <2>2. \A e \in Event : /\ Covers(reference_count[e], Back(e), Held(e))
                           /\ refused = {} => Matches(reference_count[e], Back(e), Held(e))
      BY <1>1 DEF IInv, CountsKept
    <2> QED BY <2>1, <2>2 DEF CountsHolders, Covers, Matches
  <1> QED BY <1>1, Invariance, PTL

\* What a step sends: only a job that starts to send changes what a control point sees.
LEMMA StepSends ==
    ASSUME IInv, [Next]_vars, NEW s \in Sid, lastSent'[s] # lastSent[s]
    PROVE  /\ lastSent'[s].ev > lastSent[s].ev
           /\ lastSent'[s].seq = FollowingKey(lastSent[s].seq)
           /\ lastSent[s].ev = 0 => (lastSent'[s].ev = initial[s] \/ s \in refused)
  <1>1. lastSent' # lastSent
    OBVIOUS
  <1>2. \E n \in pool : NotifyStart(n)
    <2>1. ~ UNCHANGED vars
      BY <1>1 DEF vars, seenVars
    <2>2. ASSUME NEW t \in Sid PROVE ~ (Request(t) \/ InitNotify(t))
      BY <1>1 DEF Request, Subscribe, Renew, Unsubscribe, InitNotify, seenVars
    <2>3. ~ SetMaxSubscriptions /\ ~ UnregisterDevice /\ ~ NotifyAll /\ ~ Tick
      BY <1>1 DEF SetMaxSubscriptions, UnregisterDevice, NotifyAll, Tick, seenVars
    <2>4. ASSUME NEW n \in sending PROVE ~ NotifyEnd(n)
      BY <1>1 DEF NotifyEnd
    <2> QED BY <2>1, <2>2, <2>3, <2>4 DEF Next
  <1>3. PICK n \in pool : NotifyStart(n)
    BY <1>2
  <1>4. /\ lastSent' = [lastSent EXCEPT ![n.sid] =
              [ev |-> n.ev, seq |-> sub[n.sid].ToSendEventKey]]
        /\ n.ev > lastSent[n.sid].ev
        /\ sub[n.sid].ToSendEventKey = FollowingKey(lastSent[n.sid].seq)
        /\ lastSent[n.sid].ev = 0 => n.ev = initial[n.sid] \/ n.sid \in refused
    BY <1>1, <1>3, NotifyStartKeeps
  <1>5. DOMAIN lastSent = Sid
    BY DEF IInv, TypeOK
  <1>6. s = n.sid
    BY <1>4, <1>5
  <1>7. lastSent'[s] = [ev |-> n.ev, seq |-> sub[n.sid].ToSendEventKey]
    BY <1>4, <1>5, <1>6
  <1>8. lastSent'[s].ev = n.ev /\ lastSent'[s].seq = sub[n.sid].ToSendEventKey
    BY <1>7
  <1> QED BY <1>4, <1>6, <1>8

\* A control point sees the events of its subscription in the order they happened, the
\* initial event first and with SEQ 0, 1, 2, ..., although genaNotifyThread() sends
\* without the handle lock, events are discarded and sending fails.
THEOREM OrderCorrect == Spec => SentInOrder
  <1>1. IInv /\ [Next]_vars =>
           [\A s \in Sid : lastSent'[s] # lastSent[s] =>
               /\ lastSent'[s].ev > lastSent[s].ev
               /\ lastSent'[s].seq = IF lastSent[s].seq = KeyMax THEN 1
                                     ELSE lastSent[s].seq + 1
               /\ lastSent[s].ev = 0 => (lastSent'[s].ev = initial[s] \/ s \in refused)]_vars
    BY StepSends DEF FollowingKey
  <1> QED BY <1>1, Invariance, PTL DEF Spec, SentInOrder

=============================================================================
