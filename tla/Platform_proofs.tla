---------------------------- MODULE Platform_proofs ----------------------------
(***************************************************************************)
(* What the web server promises its clients, and the requests to the       *)
(* language models.                                                        *)
(*                                                                         *)
(* Admission keeps its places (PlacesKept): for every set of requests,     *)
(* any of which may be media, every limit, and every order in which        *)
(* grants, timers, disconnects, cancellations and the shutdown meet.       *)
(*                                                                         *)
(* The event stream keeps its promise (EventsArrive): for any number of    *)
(* coroutines, events, deletions and connections, any limits of queue and  *)
(* replay, and every order of commits, publications and deliveries.        *)
(*                                                                         *)
(* A composed prompt is new or refused (NewPrompts), for any texts, any    *)
(* number of candidates and any ladder of budgets.  Two things carry that  *)
(* proof.  What a mode excludes stays excluded: a redraw only adds to it.  *)
(* And the requests sent so far are pinned from both sides by the          *)
(* candidate and the step of its plan that are next: no candidate before   *)
(* took more than the whole plan, and each one that ended on its budget    *)
(* took the whole ladder.                                                  *)
(*                                                                         *)
(* A request is sent in its turn, within the slots its service has in the  *)
(* document at hand, and not to a service that failed it while another one *)
(* was usable (RoutedFairly).  The turn and the slots are read in the step *)
(* that sends; the last part needs an invariant over the retries: what     *)
(* failed since the request last waited is excluded from its next choice.  *)
(***************************************************************************)
EXTENDS Admission, EventStream, PromptComposition, ModelRouting,
        FiniteSetTheorems, NaturalsInduction, SequenceTheorems, WellFoundedInduction, TLAPS

Queued(r) == \E k \in DOMAIN waiters : waiters[k] = r
OnceEach(q) == \A j, k \in DOMAIN q : q[j] = q[k] => j = k
Holders == {r \in Requests : Holds(r)}

(* Who waits in the queue waits in its acquire task as well, with a ticket *)
(* that nobody has decided about.                                          *)
QueueInv ==
    /\ OnceEach(waiters)
    /\ closed => waiters = << >>
    /\ \A r \in Requests : Queued(r) =>
           ticket[r] = NewTicket /\ acquiring[r] \in {"waiting", "expiring", "cancelling"}

(* What a request may hold at each stage of its acquire task ...           *)
AcquireInv(r) ==
    /\ acquiring[r] \in {"none", "new"} => ticket[r] = NoTicket
    /\ acquiring[r] \in {"waiting", "expiring", "cancelling"} =>
           Queued(r) \/ Holds(r) \/ ticket[r].future = "exception"
    /\ acquiring[r] \in {"raised", "cancelled"} => ~Holds(r)
    /\ ticket[r].future = "exception" => ticket[r].released
(* ... and of its handler.                                                 *)
HandlerInv(r) ==
    /\ handler[r] = "idle" <=> acquiring[r] = "none"
    /\ handler[r] = "running" => acquiring[r] = "returned"
    /\ handler[r] = "streaming" => acquiring[r] = "returned" /\ ~Holds(r)
    /\ handler[r] \in {"queued", "gone", "running"} /\ acquiring[r] = "returned" => Holds(r)
    /\ handler[r] = "refusing" => acquiring[r] = "raised"
    /\ handler[r] = "leaving" => acquiring[r] \in {"cancelling"} \cup Ended
    /\ acquiring[r] = "cancelling" => handler[r] = "leaving"
    /\ handler[r] = "done" => acquiring[r] \in Ended /\ ~Holds(r)

AdmissionInv ==
    /\ TypeOK
    /\ QueueInv
    /\ Accounting
    /\ NoIdleCapacity
    /\ \A r \in Requests : AcquireInv(r) /\ HandlerInv(r)
-----------------------------------------------------------------------------
(* Counting.                                                               *)

LEMMA LastOf ==
    ASSUME NEW n \in Nat, NEW S \in SUBSET (1 .. n), S # {}
    PROVE  \E k \in S : \A j \in S : j <= k
    <1> DEFINE T == {n - k : k \in S}
               R == OpToRel(<, Nat)
    <1>1. T \subseteq Nat /\ T # {}
        <2>1. \A k \in S : n - k \in Nat
            OBVIOUS
        <2>2. QED
            BY <2>1
    <1>2. PICK t \in T : \A u \in T : <<u, t>> \notin R
        <2> HIDE DEF T, R
        <2>1. IsWellFoundedOn(R, Nat)
            BY NatLessThanWellFounded DEF R
        <2>2. QED
            BY <1>1, <2>1, WFMin
    <1>3. PICK k \in S : t = n - k
        BY <1>2
    <1>4. ASSUME NEW j \in S PROVE j <= k
        <2>1. n - j \in T /\ n - j \in Nat /\ t \in Nat
            BY <1>1
        <2>2. ~(n - j < t)
            BY <1>2, <2>1 DEF OpToRel
        <2>3. QED
            BY <1>3, <2>2
    <1>5. QED
        BY <1>4

LEMMA FiniteCounts ==
    ASSUME NEW n \in Nat, NEW S \in SUBSET (1 .. n)
    PROVE  IsFiniteSet(S) /\ Cardinality(S) \in Nat
    <1>1. IsFiniteSet(1 .. n)
        BY FS_Interval
    <1>2. QED
        BY <1>1, FS_Subset, FS_CardinalityType

CountBefore(S, k) == Cardinality({j \in S : j < k})

LEMMA DisjointSum ==
    ASSUME NEW S, NEW T, IsFiniteSet(S), IsFiniteSet(T), S \cap T = {}
    PROVE  /\ Cardinality(S \cup T) = Cardinality(S) + Cardinality(T)
           /\ Cardinality(S) \in Nat /\ Cardinality(T) \in Nat
    <1>1. /\ Cardinality(S \cup T) = Cardinality(S) + Cardinality(T) - Cardinality(S \cap T)
          /\ Cardinality(S) \in Nat /\ Cardinality(T) \in Nat
        BY FS_Union, FS_CardinalityType
    <1>2. Cardinality(S \cap T) = 0
        BY FS_EmptySet
    <1>3. QED
        BY <1>1, <1>2

(* What is granted one by one within a limit is within it as a whole.      *)
LEMMA WithinLimit ==
    ASSUME NEW n \in Nat, NEW S \in SUBSET (1 .. n), NEW a \in Nat, NEW limit \in Nat,
           a <= limit,
           \A k \in S : a + CountBefore(S, k) < limit
    PROVE  a + Cardinality(S) <= limit
    <1>1. CASE S = {}
        BY <1>1, FS_EmptySet
    <1>2. CASE S # {}
        <2>1. PICK k \in S : \A j \in S : j <= k
            BY <1>2, LastOf
        <2> DEFINE B == {j \in S : j < k}
        <2>2. S = B \cup {k} /\ k \notin B
            <3>1. \A j \in S : j \in Int /\ k \in Int
                OBVIOUS
            <3>2. \A j \in S : j = k \/ j < k
                BY <2>1, <3>1
            <3>3. ~(k < k)
                BY <3>1
            <3>4. QED
                BY <3>2, <3>3
        <2>3. IsFiniteSet(B) /\ Cardinality(B) \in Nat
            BY FiniteCounts
        <2>4. Cardinality(S) = Cardinality(B) + 1
            <3> HIDE DEF B
            <3>1. QED
                BY <2>2, <2>3, FS_AddElement
        <2>5. QED
            BY <2>3, <2>4 DEF CountBefore
    <1>3. QED
        BY <1>1, <1>2

LEMMA FewerBefore ==
    ASSUME NEW n \in Nat, NEW S \in SUBSET (1 .. n), NEW k \in 1 .. n, NEW l \in 1 .. n, k <= l
    PROVE  /\ CountBefore(S, k) <= CountBefore(S, l)
           /\ CountBefore(S, l) <= Cardinality(S)
           /\ CountBefore(S, k) \in Nat /\ CountBefore(S, l) \in Nat /\ Cardinality(S) \in Nat
    <1>1. {j \in S : j < k} \subseteq {j \in S : j < l} /\ {j \in S : j < l} \subseteq S
        <2>1. \A j \in S : j < k => j < l
            <3>1. \A j \in S : j \in Int
                OBVIOUS
            <3>2. QED
                BY <3>1
        <2>2. QED
            BY <2>1
    <1>2. QED
        BY <1>1, FiniteCounts, FS_Subset DEF CountBefore

-----------------------------------------------------------------------------
(* Without(q, gone) lists the positions that are left in their order.      *)

LEMMA WithoutKeepsOrder ==
    ASSUME NEW S, NEW q \in Seq(S), NEW gone
    PROVE  /\ Without(q, gone) \in Seq(S)
           /\ \E at \in [Left(q, gone) -> DOMAIN Without(q, gone)] :
                  /\ \A k \in Left(q, gone) : Without(q, gone)[at[k]] = q[k]
                  /\ \A k, l \in Left(q, gone) : k < l => at[k] < at[l]
                  /\ \A i \in DOMAIN Without(q, gone) : \E k \in Left(q, gone) : at[k] = i
    <1> DEFINE F == Left(q, gone)
               c == Cardinality(F)
               at == [k \in F |-> UpTo(F, k)]
               w == Without(q, gone)
    <1>1. F \in SUBSET (1 .. Len(q)) /\ Len(q) \in Nat
        BY DEF Left
    <1>2. IsFiniteSet(F) /\ c \in Nat
        BY <1>1, FiniteCounts
    <1>3. \A k \in F : UpTo(F, k) \in 1 .. c
        <2> SUFFICES ASSUME NEW k \in F PROVE UpTo(F, k) \in 1 .. c
            OBVIOUS
        <2> DEFINE B == {j \in F : j <= k}
        <2>1. k \in B /\ B \subseteq F
            BY <1>1
        <2> HIDE DEF B, F
        <2>2. IsFiniteSet(B) /\ Cardinality(B) \in Nat /\ Cardinality(B) <= c
            BY <1>1, <1>2, <2>1, FS_Subset, FS_CardinalityType
        <2>3. Cardinality(B) # 0
            BY <2>1, <2>2, FS_EmptySet
        <2>4. QED
            BY <1>2, <2>2, <2>3 DEF UpTo, B
    <1>4. \A k, l \in F : k < l => UpTo(F, k) < UpTo(F, l)
        <2> SUFFICES ASSUME NEW k \in F, NEW l \in F, k < l PROVE UpTo(F, k) < UpTo(F, l)
            OBVIOUS
        <2> DEFINE B == {j \in F : j <= k}
                   D == {j \in F : j <= l}
        <2>1. B \subseteq D /\ l \in D /\ l \notin B /\ D \subseteq F
            BY <1>1
        <2> HIDE DEF B, D, F
        <2>2. IsFiniteSet(D) /\ Cardinality(D) \in Nat
            BY <1>2, <2>1, FS_Subset, FS_CardinalityType
        <2>3. Cardinality(B) <= Cardinality(D) /\ Cardinality(B) # Cardinality(D)
              /\ Cardinality(B) \in Nat
            BY <2>1, <2>2, FS_Subset, FS_CardinalityType
        <2>4. QED
            BY <2>2, <2>3 DEF UpTo, B, D
    <1>5. at \in Injection(F, 1 .. c)
        <2> HIDE DEF F, c
        <2>1. at \in [F -> 1 .. c]
            BY <1>3
        <2>2. \A k, l \in F : at[k] = at[l] => k = l
            <3>1. \A k, l \in F : k < l \/ l < k \/ k = l
                BY <1>1
            <3>2. \A k \in F : UpTo(F, k) \in Int
                BY <1>2, <1>3
            <3>3. QED
                BY <1>4, <3>1, <3>2
        <2>3. QED
            BY <2>1, <2>2 DEF Injection, IsInjective
    <1>6. at \in Surjection(F, 1 .. c)
        <2> HIDE DEF F, c, at
        <2>1. IsFiniteSet(1 .. c) /\ Cardinality(1 .. c) = c
            BY <1>2, FS_Interval
        <2>2. QED
            BY <1>5, <2>1, FS_Injection DEF c
    <1>7. w = [j \in 1 .. c |-> q[CHOOSE k \in F : UpTo(F, k) = j]]
        BY DEF Without
    <1>8. \A k \in F : w[at[k]] = q[k]
        <2> SUFFICES ASSUME NEW k \in F PROVE w[at[k]] = q[k]
            OBVIOUS
        <2> DEFINE l == CHOOSE l \in F : UpTo(F, l) = at[k]
        <2>1. l \in F /\ UpTo(F, l) = at[k]
            OBVIOUS
        <2>2. l = k
            <3> HIDE DEF l, F, c
            <3>1. at[l] = at[k]
                BY <2>1
            <3>2. QED
                BY <1>5, <2>1, <3>1 DEF Injection, IsInjective
        <2>3. at[k] \in 1 .. c
            BY <1>3
        <2> HIDE DEF F, c, at, w
        <2>4. w[at[k]] = q[l]
            BY <1>7, <2>3
        <2>5. QED
            BY <2>2, <2>4
    <1>9. DOMAIN w = 1 .. c /\ w \in Seq(S)
        <2>1. \A j \in 1 .. c : w[j] \in S
            <3> SUFFICES ASSUME NEW j \in 1 .. c PROVE w[j] \in S
                OBVIOUS
            <3>1. PICK k \in F : at[k] = j
                <4> HIDE DEF F, c, at
                <4>1. QED
                    BY <1>6 DEF Surjection
            <3>2. w[j] = q[k]
                BY <1>8, <3>1
            <3>3. k \in 1 .. Len(q)
                BY <1>1
            <3>4. QED
                BY <3>2, <3>3
        <2> HIDE DEF F, c, w
        <2>2. w \in [1 .. c -> S]
            BY <1>7, <2>1
        <2>3. QED
            BY <1>2, <2>2
    <1>10. /\ at \in [F -> DOMAIN w]
           /\ \A k, l \in F : k < l => at[k] < at[l]
           /\ \A i \in DOMAIN w : \E k \in F : at[k] = i
        <2>1. \A k, l \in F : k < l => at[k] < at[l]
            BY <1>4
        <2> HIDE DEF F, c, at, w
        <2>2. QED
            BY <1>5, <1>6, <1>9, <2>1 DEF Injection, Surjection
    <1> HIDE DEF at
    <1>11. QED
        BY <1>8, <1>9, <1>10
(* Nothing is listed that is not there, nothing twice.                     *)
LEMMA WithoutElements ==
    ASSUME NEW S, NEW q \in Seq(S), NEW gone
    PROVE  /\ Without(q, gone) \in Seq(S)
           /\ \A i \in DOMAIN Without(q, gone) :
                  \E k \in DOMAIN q : q[k] \notin gone /\ Without(q, gone)[i] = q[k]
           /\ \A k \in DOMAIN q : q[k] \notin gone =>
                  \E i \in DOMAIN Without(q, gone) : Without(q, gone)[i] = q[k]
           /\ OnceEach(q) => OnceEach(Without(q, gone))
    <1> DEFINE w == Without(q, gone)
    <1>1. PICK at \in [Left(q, gone) -> DOMAIN w] :
              /\ \A k \in Left(q, gone) : w[at[k]] = q[k]
              /\ \A k, l \in Left(q, gone) : k < l => at[k] < at[l]
              /\ \A i \in DOMAIN w : \E k \in Left(q, gone) : at[k] = i
        BY WithoutKeepsOrder
    <1>2. w \in Seq(S)
        BY WithoutKeepsOrder
    <1> HIDE DEF w
    <1>3. \A i \in DOMAIN w : \E k \in DOMAIN q : q[k] \notin gone /\ w[i] = q[k]
        BY <1>1 DEF Left
    <1>4. \A k \in DOMAIN q : q[k] \notin gone => \E i \in DOMAIN w : w[i] = q[k]
        BY <1>1 DEF Left
    <1>5. ASSUME OnceEach(q) PROVE OnceEach(w)
        <2>1. ASSUME NEW i \in DOMAIN w, NEW j \in DOMAIN w, w[i] = w[j] PROVE i = j
            <3>1. PICK k \in Left(q, gone) : at[k] = i
                BY <1>1
            <3>2. PICK l \in Left(q, gone) : at[l] = j
                BY <1>1
            <3>3. q[k] = q[l]
                BY <1>1, <2>1, <3>1, <3>2
            <3>4. QED
                BY <1>5, <3>1, <3>2, <3>3 DEF OnceEach, Left
        <2>2. QED
            BY <2>1 DEF OnceEach
    <1>6. QED
        BY <1>2, <1>3, <1>4, <1>5 DEF w

-----------------------------------------------------------------------------
(* drain() fills the places and no more, and passes over a waiter only if  *)
(* it is media and media has no place left.                                *)

HoldsIn(t, r) == t[r].admitted /\ ~t[r].released
Granted == [NewTicket EXCEPT !.admitted = TRUE, !.future = "result"]

LEMMA CountOnce ==
    ASSUME NEW q \in Seq(Requests), OnceEach(q), NEW A \in SUBSET DOMAIN q
    PROVE  /\ IsFiniteSet({q[k] : k \in A})
           /\ Cardinality({q[k] : k \in A}) = Cardinality(A)
           /\ IsFiniteSet(A) /\ Cardinality(A) \in Nat
    <1> DEFINE f == [k \in A |-> q[k]]
               T == {q[k] : k \in A}
    <1>1. IsFiniteSet(A) /\ Cardinality(A) \in Nat
        <2>1. A \in SUBSET (1 .. Len(q)) /\ Len(q) \in Nat
            OBVIOUS
        <2>2. QED
            BY <2>1, FiniteCounts
    <1>2. f \in Surjection(A, T) /\ f \in Injection(A, T)
        BY DEF Surjection, Injection, IsInjective, OnceEach
    <1> HIDE DEF f, T
    <1>3. IsFiniteSet(T) /\ Cardinality(T) = Cardinality(A)
        BY <1>1, <1>2, FS_Surjection
    <1>4. QED
        BY <1>1, <1>3 DEF T

Drained(q, t, A) ==
    /\ \A r \in Requests : ticket'[r] = IF \E k \in A : q[k] = r THEN Granted ELSE t[r]
    /\ ticket' \in [Requests -> Ticket]
    /\ waiters' \in Seq(Requests) /\ OnceEach(waiters') /\ (closed => waiters' = << >>)
    /\ \A i \in DOMAIN waiters' : \E k \in DOMAIN q \ A : waiters'[i] = q[k]
    /\ \A k \in DOMAIN q \ A : \E i \in DOMAIN waiters' : waiters'[i] = q[k]
    /\ Accounting' /\ NoIdleCapacity'
    /\ \A j, k \in DOMAIN q : j < k /\ k \in A /\ j \notin A =>
           q[j] \in Media /\ q[k] \notin Media /\ media' = MediaLimit

LEMMA DrainEffects ==
    ASSUME NEW q \in Seq(Requests), NEW a, NEW m, NEW t \in [Requests -> Ticket],
           OnceEach(q), closed \in BOOLEAN, closed => q = << >>,
           \A k \in DOMAIN q : t[q[k]] = NewTicket,
           a = Cardinality({r \in Requests : HoldsIn(t, r)}), a <= ActiveLimit,
           m = Cardinality({r \in Media : HoldsIn(t, r)}), m <= MediaLimit,
           Drain(q, a, m, t)
    PROVE  \E A \in SUBSET DOMAIN q : Drained(q, t, A)
    <1>1. PICK A \in SUBSET DOMAIN q :
              /\ \A k \in DOMAIN q : k \in A <=> ~closed /\ Admits(q, A, k, a, m)
              /\ waiters' = Without(q, {q[k] : k \in A})
              /\ active' = a + Cardinality({q[k] : k \in A})
              /\ media' = m + Cardinality({q[k] : k \in A} \cap Media)
              /\ ticket' = [r \in Requests |->
                               IF r \in {q[k] : k \in A}
                               THEN [t[r] EXCEPT !.admitted = TRUE, !.future = "result"]
                               ELSE t[r]]
        BY DEF Drain
    <1> DEFINE G == {q[k] : k \in A}
               M == {k \in A : q[k] \in Media}
               GM == {q[k] : k \in M}
               H == {r \in Requests : HoldsIn(t, r)}
               HM == {r \in Media : HoldsIn(t, r)}
               n == Len(q)
    <1>2. /\ n \in Nat /\ DOMAIN q = 1 .. n /\ A \in SUBSET (1 .. n) /\ M \in SUBSET (1 .. n)
          /\ M \in SUBSET DOMAIN q
          /\ GM = G \cap Media /\ G \subseteq Requests
        OBVIOUS
    <1>3. /\ IsFiniteSet(G) /\ Cardinality(G) = Cardinality(A) /\ Cardinality(A) \in Nat
          /\ IsFiniteSet(GM) /\ Cardinality(GM) = Cardinality(M) /\ Cardinality(M) \in Nat
        <2> HIDE DEF M
        <2>1. QED
            BY <1>2, CountOnce
    <1>4. /\ IsFiniteSet(H) /\ a \in Nat /\ IsFiniteSet(HM) /\ m \in Nat
          /\ ActiveLimit \in Nat /\ MediaLimit \in Nat
        <2>1. H \subseteq Requests /\ HM \subseteq Requests
            BY LimitsAssumption
        <2> HIDE DEF H, HM
        <2>2. IsFiniteSet(H) /\ IsFiniteSet(HM)
            BY <2>1, LimitsAssumption, FS_Subset
        <2>3. ActiveLimit \in Nat /\ MediaLimit \in Nat
            BY LimitsAssumption
        <2>4. QED
            BY <2>2, <2>3, FS_CardinalityType DEF H, HM
    <1>5. \A r \in G : t[r] = NewTicket /\ ~HoldsIn(t, r)
        BY <1>2 DEF HoldsIn, NewTicket, NoTicket
    <1>6. ticket' \in [Requests -> Ticket]
          /\ \A r \in Requests : ticket'[r] = IF r \in G THEN Granted ELSE t[r]
        <2>1. Granted \in Ticket /\ Granted.admitted /\ ~Granted.released
            BY DEF Granted, NewTicket, NoTicket, Ticket
        <2>2. \A r \in Requests : ticket'[r] = IF r \in G THEN Granted ELSE t[r]
            BY <1>1, <1>5 DEF Granted
        <2>3. ticket' = [r \in Requests |-> IF r \in G THEN Granted ELSE t[r]]
            BY <1>1, <1>5 DEF Granted
        <2>4. QED
            BY <2>1, <2>2, <2>3
    <1>7. \A r \in Requests : Holds(r)' <=> r \in G \/ HoldsIn(t, r)
        BY <1>6 DEF Holds, HoldsIn, Granted, NewTicket, NoTicket
    <1>8. active' = Cardinality({r \in Requests : Holds(r)'}) /\ active' = a + Cardinality(A)
        <2>1. {r \in Requests : Holds(r)'} = H \cup G /\ H \cap G = {}
            BY <1>2, <1>5, <1>7
        <2> HIDE DEF H, G
        <2>2. Cardinality(H \cup G) = Cardinality(H) + Cardinality(G)
            BY <1>3, <1>4, <2>1, DisjointSum
        <2>3. QED
            BY <1>1, <1>3, <2>1, <2>2 DEF H, G
    <1>9. media' = Cardinality({r \in Media : Holds(r)'}) /\ media' = m + Cardinality(M)
        <2>1. {r \in Media : Holds(r)'} = HM \cup GM /\ HM \cap GM = {}
            BY <1>2, <1>5, <1>7, LimitsAssumption
        <2> HIDE DEF HM, GM, M
        <2>2. Cardinality(HM \cup GM) = Cardinality(HM) + Cardinality(GM)
            BY <1>3, <1>4, <2>1, DisjointSum
        <2>3. QED
            BY <1>1, <1>2, <1>3, <2>1, <2>2 DEF HM
    <1>10. \A k \in DOMAIN q : Admits(q, A, k, a, m) <=>
               /\ a + CountBefore(A, k) < ActiveLimit
               /\ q[k] \in Media => m + CountBefore(M, k) < MediaLimit
        <2>1. \A k \in DOMAIN q : {j \in {i \in A : i < k} : q[j] \in Media} = {j \in M : j < k}
            OBVIOUS
        <2>2. QED
            BY <2>1 DEF Admits, CountBefore
    <1>11. active' <= ActiveLimit /\ media' <= MediaLimit
        <2>1. \A k \in A : a + CountBefore(A, k) < ActiveLimit
            BY <1>1, <1>10
        <2>2. \A k \in M : m + CountBefore(M, k) < MediaLimit
            BY <1>1, <1>10
        <2> HIDE DEF M
        <2>3. a + Cardinality(A) <= ActiveLimit /\ m + Cardinality(M) <= MediaLimit
            BY <1>2, <1>4, <2>1, <2>2, WithinLimit
        <2>4. QED
            BY <1>8, <1>9, <2>3
    <1>12. Accounting'
        BY <1>8, <1>9, <1>11 DEF Accounting
    <1>13. /\ waiters' \in Seq(Requests) /\ OnceEach(waiters') /\ (closed => waiters' = << >>)
           /\ \A i \in DOMAIN waiters' : \E k \in DOMAIN q \ A : waiters'[i] = q[k]
           /\ \A k \in DOMAIN q \ A : \E i \in DOMAIN waiters' : waiters'[i] = q[k]
        <2>1. /\ waiters' \in Seq(Requests) /\ OnceEach(waiters')
              /\ \A i \in DOMAIN waiters' : \E k \in DOMAIN q : q[k] \notin G /\ waiters'[i] = q[k]
              /\ \A k \in DOMAIN q : q[k] \notin G => \E i \in DOMAIN waiters' : waiters'[i] = q[k]
            <3>1. waiters' = Without(q, G)
                BY <1>1
            <3> HIDE DEF G
            <3>2. QED
                BY <3>1, WithoutElements
        <2>2. \A k \in DOMAIN q : q[k] \in G <=> k \in A
            BY DEF OnceEach
        <2>3. closed => waiters' = << >>
            <3>1. closed => DOMAIN q = {}
                OBVIOUS
            <3>2. closed => DOMAIN waiters' = {}
                BY <2>1, <3>1
            <3>3. waiters' \in Seq(Requests)
                BY <2>1
            <3>4. QED
                BY <3>2, <3>3, EmptySeq
        <2>4. QED
            BY <2>1, <2>2, <2>3
    <1>14. ASSUME NEW k \in DOMAIN q, k \notin A
           PROVE  \/ a + CountBefore(A, k) >= ActiveLimit
                  \/ q[k] \in Media /\ m + CountBefore(M, k) >= MediaLimit
        <2>1. ~closed
            BY <1>14
        <2>2. ~Admits(q, A, k, a, m)
            BY <1>1, <1>14, <2>1
        <2> HIDE DEF M
        <2>3. CountBefore(A, k) \in Nat /\ CountBefore(M, k) \in Nat
            <3>1. k \in 1 .. n /\ k <= k
                BY <1>2
            <3>2. QED
                BY <1>2, <3>1, FewerBefore
        <2>4. QED
            BY <1>4, <1>10, <2>2, <2>3
    <1>15. ASSUME NEW k \in DOMAIN q, k \notin A
           PROVE  active' = ActiveLimit \/ (q[k] \in Media /\ media' = MediaLimit)
        <2> HIDE DEF M
        <2>1. /\ CountBefore(A, k) \in Nat /\ CountBefore(M, k) \in Nat
              /\ CountBefore(A, k) <= Cardinality(A)
              /\ CountBefore(M, k) <= Cardinality(M)
            <3>1. k \in 1 .. n /\ k <= k
                BY <1>2
            <3>2. QED
                BY <1>2, <3>1, FewerBefore
        <2>2. \/ a + CountBefore(A, k) >= ActiveLimit
              \/ q[k] \in Media /\ m + CountBefore(M, k) >= MediaLimit
            BY <1>14, <1>15
        <2>3. /\ active' = a + Cardinality(A) /\ active' <= ActiveLimit
              /\ media' = m + Cardinality(M) /\ media' <= MediaLimit
            BY <1>8, <1>9, <1>11
        <2>4. /\ a \in Nat /\ ActiveLimit \in Nat /\ Cardinality(A) \in Nat
              /\ m \in Nat /\ MediaLimit \in Nat /\ Cardinality(M) \in Nat
            BY <1>3, <1>4
        <2>5. a + CountBefore(A, k) >= ActiveLimit => active' = ActiveLimit
            BY <2>1, <2>3, <2>4
        <2>6. m + CountBefore(M, k) >= MediaLimit => media' = MediaLimit
            BY <2>1, <2>3, <2>4
        <2>7. QED
            BY <2>2, <2>5, <2>6
    <1>16. NoIdleCapacity'
        BY <1>13, <1>15 DEF NoIdleCapacity
    <1>17. ASSUME NEW j \in DOMAIN q, NEW k \in DOMAIN q, j < k, k \in A, j \notin A
           PROVE  q[j] \in Media /\ q[k] \notin Media /\ media' = MediaLimit
        <2> HIDE DEF M
        <2>1. /\ CountBefore(A, j) \in Nat /\ CountBefore(M, j) \in Nat
              /\ CountBefore(A, k) \in Nat /\ CountBefore(M, k) \in Nat
              /\ CountBefore(A, j) <= CountBefore(A, k)
              /\ CountBefore(M, j) <= CountBefore(M, k)
              /\ CountBefore(M, j) <= Cardinality(M)
            <3>1. j \in 1 .. n /\ k \in 1 .. n /\ j <= k
                BY <1>2, <1>17
            <3>2. /\ CountBefore(A, j) <= CountBefore(A, k)
                  /\ CountBefore(A, j) \in Nat /\ CountBefore(A, k) \in Nat
                BY <1>2, <3>1, FewerBefore
            <3>3. /\ CountBefore(M, j) <= CountBefore(M, k)
                  /\ CountBefore(M, j) \in Nat /\ CountBefore(M, k) \in Nat
                BY <1>2, <3>1, FewerBefore
            <3>4. CountBefore(M, j) <= Cardinality(M)
                BY <1>2, <3>1, FewerBefore
            <3>5. QED
                BY <3>2, <3>3, <3>4
        <2>2. /\ a + CountBefore(A, k) < ActiveLimit
              /\ q[k] \in Media => m + CountBefore(M, k) < MediaLimit
            BY <1>1, <1>10, <1>17
        <2>3. \/ a + CountBefore(A, j) >= ActiveLimit
              \/ q[j] \in Media /\ m + CountBefore(M, j) >= MediaLimit
            BY <1>14, <1>17
        <2>4. media' = m + Cardinality(M) /\ media' <= MediaLimit
            BY <1>9, <1>11
        <2>5. QED
            BY <1>3, <1>4, <2>1, <2>2, <2>3, <2>4
    <1>18. \A r \in Requests : ticket'[r] = IF \E k \in A : q[k] = r THEN Granted ELSE t[r]
        BY <1>6
    <1> HIDE DEF G, M, GM, H, HM
    <1>19. QED
        BY <1>1, <1>6, <1>12, <1>13, <1>16, <1>17, <1>18 DEF Drained
-----------------------------------------------------------------------------
(* What the step of one request does to the queue and to the others: they  *)
(* stay as they are, or are granted a place in their turn.                 *)

InTurnStep ==
    \A j, k \in DOMAIN waiters :
        (j < k /\ ticket'[waiters[k]].admitted) =>
            \/ \A i \in DOMAIN waiters' : waiters'[i] # waiters[j]
            \/ waiters[j] \in Media /\ waiters[k] \notin Media /\ media' = MediaLimit

SameOther(h) == ticket'[h] = ticket[h] /\ (Queued(h)' <=> Queued(h))
ServedOther(h) == Queued(h) /\ ~Queued(h)' /\ ticket'[h] = Granted
QueueMoves(r) ==
    /\ ticket' \in [Requests -> Ticket]
    /\ waiters' \in Seq(Requests) /\ OnceEach(waiters') /\ (closed => waiters' = << >>)
    /\ Accounting' /\ NoIdleCapacity'
    /\ \A h \in Requests \ {r} : SameOther(h) \/ ServedOther(h)
    /\ InTurnStep

LEMMA QueuedIsNew ==
    ASSUME AdmissionInv, NEW r \in Requests, Queued(r)
    PROVE  /\ ticket[r] = NewTicket /\ ~Holds(r)
           /\ ~ticket[r].admitted /\ ~ticket[r].released /\ ticket[r].future = "pending"
           /\ acquiring[r] \in {"waiting", "expiring", "cancelling"}
    BY DEF AdmissionInv, QueueInv, NewTicket, NoTicket, Holds

LEMMA StillQueue ==
    ASSUME AdmissionInv, UNCHANGED queue, NEW r
    PROVE  QueueMoves(r) /\ SameOther(r)
    <1>1. \A h : SameOther(h)
        BY DEF SameOther, Queued, queue
    <1>2. Accounting' /\ NoIdleCapacity'
        BY DEF AdmissionInv, Accounting, NoIdleCapacity, Holds, queue
    <1>3. InTurnStep
        <2>1. \A k \in DOMAIN waiters : waiters[k] \in Requests /\ ~ticket[waiters[k]].admitted
            BY QueuedIsNew DEF AdmissionInv, TypeOK, Queued
        <2>2. QED
            BY <2>1 DEF InTurnStep, queue
    <1>4. QED
        BY <1>1, <1>2, <1>3 DEF QueueMoves, AdmissionInv, TypeOK, QueueInv, queue

(* The queue as release() hands it to drain().                             *)
LEMMA ReleaseEffects ==
    ASSUME AdmissionInv, NEW r \in Requests, Release(r)
    PROVE  QueueMoves(r) /\ ticket'[r].released /\ ~Queued(r)'
    <1>1. CASE ticket[r].released
        <2>1. UNCHANGED queue
            BY <1>1 DEF Release
        <2>2. ~Queued(r)
            BY <1>1, QueuedIsNew
        <2>3. QED
            BY <1>1, <2>1, <2>2, StillQueue DEF SameOther
    <1>2. CASE ~ticket[r].released
        <2> DEFINE q == Without(waiters, {r})
                   t == [ticket EXCEPT ![r].released = TRUE]
                   a == active - Indicator(ticket[r].admitted)
                   m == media - Indicator(ticket[r].admitted /\ r \in Media)
                   H == {h \in Requests : Holds(h)}
                   HM == {h \in Media : Holds(h)}
        <2>0. /\ waiters \in Seq(Requests) /\ OnceEach(waiters) /\ closed \in BOOLEAN
              /\ (closed => waiters = << >>) /\ ticket \in [Requests -> Ticket]
            BY DEF AdmissionInv, TypeOK, QueueInv
        <2>1. Drain(q, a, m, t)
            BY <1>2 DEF Release
        <2>2. /\ q \in Seq(Requests) /\ OnceEach(q)
              /\ \A i \in DOMAIN q : \E k \in DOMAIN waiters : waiters[k] # r /\ q[i] = waiters[k]
              /\ \A k \in DOMAIN waiters : waiters[k] # r => \E i \in DOMAIN q : q[i] = waiters[k]
            <3> DEFINE gone == {r}
            <3>1. q = Without(waiters, gone) /\ \A x : x \notin gone <=> x # r
                OBVIOUS
            <3> HIDE DEF q, gone
            <3>2. /\ q \in Seq(Requests) /\ (OnceEach(waiters) => OnceEach(q))
                  /\ \A i \in DOMAIN q : \E k \in DOMAIN waiters : waiters[k] \notin gone /\ q[i] = waiters[k]
                  /\ \A k \in DOMAIN waiters : waiters[k] \notin gone => \E i \in DOMAIN q : q[i] = waiters[k]
                <4>1. waiters \in Seq(Requests)
                    BY <2>0
                <4>2. QED
                    BY <3>1, <4>1, WithoutElements
            <3>3. QED
                BY <2>0, <3>1, <3>2
        <2>3. closed => q = << >>
            <3>1. closed => DOMAIN waiters = {}
                BY <2>0
            <3>2. closed => DOMAIN q = {}
                BY <2>2, <3>1
            <3>3. QED
                BY <2>2, <3>2, EmptySeq
        <2>4. t \in [Requests -> Ticket] /\ t[r].released
              /\ \A h \in Requests \ {r} : t[h] = ticket[h]
            BY <2>0 DEF Ticket
        <2>5. \A k \in DOMAIN q : q[k] \in Requests \ {r} /\ t[q[k]] = NewTicket
            <3>1. \A k \in DOMAIN waiters : waiters[k] \in Requests /\ ticket[waiters[k]] = NewTicket
                BY QueuedIsNew, <2>0 DEF Queued
            <3> HIDE DEF q, t
            <3>2. ASSUME NEW i \in DOMAIN q PROVE q[i] \in Requests \ {r} /\ t[q[i]] = NewTicket
                <4>1. PICK k \in DOMAIN waiters : waiters[k] # r /\ q[i] = waiters[k]
                    BY <2>2
                <4>2. QED
                    BY <2>4, <3>1, <4>1
            <3>3. QED
                BY <3>2
        <2>6. /\ {h \in Requests : HoldsIn(t, h)} = H \ {r}
              /\ {h \in Media : HoldsIn(t, h)} = HM \ {r}
            BY <2>4, LimitsAssumption DEF HoldsIn, Holds
        <2>7. /\ a = Cardinality(H \ {r}) /\ m = Cardinality(HM \ {r})
              /\ a <= ActiveLimit /\ m <= MediaLimit
            <3>1. H \subseteq Requests /\ HM \subseteq Requests
                  /\ (r \in H <=> ticket[r].admitted)
                  /\ (r \in HM <=> ticket[r].admitted /\ r \in Media)
                BY <1>2, LimitsAssumption DEF Holds
            <3>2. active = Cardinality(H) /\ media = Cardinality(HM)
                  /\ active <= ActiveLimit /\ media <= MediaLimit
                BY DEF AdmissionInv, Accounting
            <3>3. ActiveLimit \in Nat /\ MediaLimit \in Nat
                BY LimitsAssumption
            <3> HIDE DEF H, HM
            <3>4. /\ Cardinality(H) \in Nat /\ Cardinality(HM) \in Nat
                  /\ Cardinality(H \ {r}) = IF r \in H THEN Cardinality(H) - 1 ELSE Cardinality(H)
                  /\ Cardinality(HM \ {r}) = IF r \in HM THEN Cardinality(HM) - 1 ELSE Cardinality(HM)
                BY <3>1, LimitsAssumption, FS_Subset, FS_CardinalityType, FS_RemoveElement
            <3>5. QED
                BY <3>1, <3>2, <3>3, <3>4 DEF Indicator
        <2> HIDE DEF q, t, a, m, H, HM
        <2>8. PICK A \in SUBSET DOMAIN q : Drained(q, t, A)
            <3>1. \A k \in DOMAIN q : t[q[k]] = NewTicket
                BY <2>5
            <3>2. /\ a = Cardinality({h \in Requests : HoldsIn(t, h)})
                  /\ m = Cardinality({h \in Media : HoldsIn(t, h)})
                BY <2>6, <2>7
            <3>3. QED
                BY <2>0, <2>1, <2>2, <2>3, <2>4, <2>7, <3>1, <3>2, DrainEffects
        <2>9. ticket'[r].released /\ ~Queued(r)'
            BY <2>4, <2>5, <2>8 DEF Queued, Drained
        <2>10. ASSUME NEW h \in Requests \ {r} PROVE SameOther(h) \/ ServedOther(h)
            <3>1. CASE \E k \in A : q[k] = h
                <4>1. ticket'[h] = Granted /\ Queued(h)
                    BY <2>2, <2>8, <3>1 DEF Queued, Drained
                <4>2. ~Queued(h)'
                    BY <2>2, <2>8, <3>1 DEF Queued, OnceEach, Drained
                <4>3. QED
                    BY <4>1, <4>2 DEF ServedOther
            <3>2. CASE ~\E k \in A : q[k] = h
                <4>1. ticket'[h] = ticket[h]
                    BY <2>4, <2>8, <3>2 DEF Drained
                <4>2. Queued(h) <=> \E k \in DOMAIN q : q[k] = h
                    BY <2>2, <2>10 DEF Queued
                <4>3. Queued(h)' <=> \E k \in DOMAIN q : q[k] = h
                    BY <2>8, <3>2 DEF Queued, Drained
                <4>4. QED
                    BY <4>1, <4>2, <4>3 DEF SameOther
            <3>3. QED
                BY <3>1, <3>2
        <2>11. InTurnStep
            <3> SUFFICES ASSUME NEW j \in DOMAIN waiters, NEW k \in DOMAIN waiters,
                                j < k, ticket'[waiters[k]].admitted,
                                NEW i \in DOMAIN waiters', waiters'[i] = waiters[j]
                         PROVE  waiters[j] \in Media /\ waiters[k] \notin Media /\ media' = MediaLimit
                BY DEF InTurnStep
            <3>1. PICK at \in [Left(waiters, {r}) -> DOMAIN q] :
                      /\ \A l \in Left(waiters, {r}) : q[at[l]] = waiters[l]
                      /\ \A l, n \in Left(waiters, {r}) : l < n => at[l] < at[n]
                BY <2>0, WithoutKeepsOrder DEF q
            <3>2. ~ticket[waiters[k]].admitted /\ waiters[k] \in Requests
                BY <2>0, QueuedIsNew DEF Queued
            <3>3. waiters[k] # r
                <4>1. ~t[r].admitted \/ waiters[k] # r
                    BY <2>0, <3>2 DEF t, Ticket
                <4>2. waiters[k] = r => ticket'[waiters[k]] = t[r]
                    BY <2>5, <2>8, <3>2 DEF Drained
                <4>3. QED
                    BY <4>1, <4>2
            <3>4. PICK l \in A : q[l] = waiters[k]
                BY <2>4, <2>8, <3>2, <3>3 DEF Drained
            <3>5. PICK n \in DOMAIN q \ A : waiters'[i] = q[n]
                BY <2>8 DEF Drained
            <3>6. waiters[j] # r
                BY <2>5, <3>5
            <3>7. at[j] = n /\ at[k] = l /\ at[j] < at[k]
                <4>1. j \in Left(waiters, {r}) /\ k \in Left(waiters, {r})
                    BY <3>3, <3>6 DEF Left
                <4>2. /\ at[j] \in DOMAIN q /\ q[at[j]] = q[n] /\ at[k] \in DOMAIN q /\ q[at[k]] = q[l]
                      /\ at[j] < at[k]
                    BY <3>1, <3>4, <3>5, <4>1
                <4>3. QED
                    BY <2>2, <3>4, <3>5, <4>2 DEF OnceEach
            <3>8. QED
                BY <2>8, <3>4, <3>5, <3>7 DEF Drained
        <2>12. QED
            BY <2>8, <2>9, <2>10, <2>11 DEF QueueMoves, Drained
    <1>3. QED
        BY <1>1, <1>2
(* acquire() puts its ticket at the end of the queue and drains it.        *)
LEMMA EnqueueEffects ==
    ASSUME AdmissionInv, NEW r \in Requests, acquiring[r] = "new", ~closed,
           Drain(Append(waiters, r), active, media, [ticket EXCEPT ![r] = NewTicket])
    PROVE  /\ QueueMoves(r)
           /\ \/ ticket'[r] = Granted /\ ~Queued(r)'
              \/ ticket'[r] = NewTicket /\ Queued(r)'
    <1> DEFINE q == Append(waiters, r)
               t == [ticket EXCEPT ![r] = NewTicket]
    <1>0. /\ waiters \in Seq(Requests) /\ OnceEach(waiters) /\ closed \in BOOLEAN
          /\ ticket \in [Requests -> Ticket] /\ ticket[r] = NoTicket /\ ~Queued(r)
        BY QueuedIsNew DEF AdmissionInv, TypeOK, QueueInv, AcquireInv
    <1>1. /\ q \in Seq(Requests) /\ DOMAIN q = 1 .. Len(waiters) + 1 /\ Len(waiters) \in Nat
          /\ DOMAIN waiters = 1 .. Len(waiters)
          /\ \A k \in DOMAIN waiters : k \in DOMAIN q /\ q[k] = waiters[k]
          /\ q[Len(waiters) + 1] = r
        BY <1>0
    <1>2. \A k \in DOMAIN q : k \in DOMAIN waiters \/ k = Len(waiters) + 1
        BY <1>1
    <1>3. \A k \in DOMAIN waiters : waiters[k] # r /\ waiters[k] \in Requests
              /\ ticket[waiters[k]] = NewTicket /\ Queued(waiters[k])
        BY <1>0, QueuedIsNew DEF Queued
    <1>4. t \in [Requests -> Ticket] /\ t[r] = NewTicket /\ \A h \in Requests \ {r} : t[h] = ticket[h]
        BY <1>0 DEF Ticket, NewTicket, NoTicket
    <1> HIDE DEF q, t
    <1>5. OnceEach(q)
        BY <1>0, <1>1, <1>2, <1>3 DEF OnceEach
    <1>6. \A k \in DOMAIN q : t[q[k]] = NewTicket
        BY <1>1, <1>2, <1>3, <1>4
    <1>7. /\ active = Cardinality({h \in Requests : HoldsIn(t, h)}) /\ active <= ActiveLimit
          /\ media = Cardinality({h \in Media : HoldsIn(t, h)}) /\ media <= MediaLimit
        <2>1. \A h \in Requests : HoldsIn(t, h) <=> Holds(h)
            BY <1>0, <1>4 DEF HoldsIn, Holds, NewTicket, NoTicket
        <2>2. /\ {h \in Requests : HoldsIn(t, h)} = {h \in Requests : Holds(h)}
              /\ {h \in Media : HoldsIn(t, h)} = {h \in Media : Holds(h)}
            BY <2>1, LimitsAssumption
        <2>3. QED
            BY <2>2 DEF AdmissionInv, Accounting
    <1>8. PICK A \in SUBSET DOMAIN q : Drained(q, t, A)
        <2>1. Drain(q, active, media, t) /\ (closed => q = << >>)
            BY DEF q, t
        <2>2. QED
            BY <1>0, <1>1, <1>4, <1>5, <1>6, <1>7, <2>1, DrainEffects
    <1>9. \/ ticket'[r] = Granted /\ ~Queued(r)'
          \/ ticket'[r] = NewTicket /\ Queued(r)'
        <2> DEFINE last == Len(waiters) + 1
        <2>1. last \in DOMAIN q /\ q[last] = r
            BY <1>1
        <2> HIDE DEF last
        <2>2. CASE last \in A
            BY <1>5, <1>8, <2>1, <2>2 DEF Drained, Queued, OnceEach
        <2>3. CASE last \notin A
            BY <1>4, <1>5, <1>8, <2>1, <2>3 DEF Drained, Queued, OnceEach
        <2>4. QED
            BY <2>2, <2>3
    <1>10. ASSUME NEW h \in Requests \ {r} PROVE SameOther(h) \/ ServedOther(h)
        <2>1. Queued(h) <=> \E k \in DOMAIN q : q[k] = h
            BY <1>1, <1>2, <1>10 DEF Queued
        <2>2. CASE \E k \in A : q[k] = h
            <3>1. ~Queued(h)'
                BY <1>5, <1>8, <2>2 DEF Queued, OnceEach, Drained
            <3>2. QED
                BY <1>8, <2>1, <2>2, <3>1 DEF ServedOther, Drained
        <2>3. CASE ~\E k \in A : q[k] = h
            <3>1. Queued(h)' <=> \E k \in DOMAIN q : q[k] = h
                BY <1>8, <2>3 DEF Queued, Drained
            <3>2. ticket'[h] = ticket[h]
                BY <1>4, <1>8, <2>3 DEF Drained
            <3>3. QED
                BY <2>1, <3>1, <3>2 DEF SameOther
        <2>4. QED
            BY <2>2, <2>3
    <1>11. InTurnStep
        <2> SUFFICES ASSUME NEW j \in DOMAIN waiters, NEW k \in DOMAIN waiters,
                            j < k, ticket'[waiters[k]].admitted,
                            NEW i \in DOMAIN waiters', waiters'[i] = waiters[j]
                     PROVE  waiters[j] \in Media /\ waiters[k] \notin Media /\ media' = MediaLimit
            BY DEF InTurnStep
        <2>1. j \in DOMAIN q /\ k \in DOMAIN q /\ q[j] = waiters[j] /\ q[k] = waiters[k]
            BY <1>1
        <2>2. ~NewTicket.admitted
            BY DEF NewTicket, NoTicket
        <2>3. t[waiters[k]] = NewTicket /\ waiters[k] \in Requests
            BY <1>3, <1>6, <2>1
        <2>4. PICK l \in A : q[l] = waiters[k]
            BY <1>8, <2>2, <2>3 DEF Drained
        <2>5. PICK n \in DOMAIN q \ A : waiters'[i] = q[n]
            BY <1>8 DEF Drained
        <2>6. l = k /\ n = j
            BY <1>5, <2>1, <2>4, <2>5 DEF OnceEach
        <2>7. QED
            BY <1>8, <2>1, <2>4, <2>5, <2>6 DEF Drained
    <1>12. QED
        BY <1>8, <1>9, <1>10, <1>11 DEF QueueMoves, Drained

-----------------------------------------------------------------------------
(* Every step is one of one request, or the shutdown.                      *)

RequestMoves(r) ==
    /\ QueueMoves(r)
    /\ closed' = closed
    /\ acquiring' \in [Requests -> AcquiringStates]
    /\ watching' \in [Requests -> WatchingStates]
    /\ handler' \in [Requests -> HandlerStates]
    /\ \A h \in Requests \ {r} : acquiring'[h] = acquiring[h] /\ handler'[h] = handler[h]
    /\ Queued(r)' => ticket'[r] = NewTicket /\ acquiring'[r] \in {"waiting", "expiring", "cancelling"}
    /\ AcquireInv(r)' /\ HandlerInv(r)'

LEMMA GrantedHolds ==
    /\ Granted.admitted /\ ~Granted.released /\ Granted.future = "result"
    /\ ~NewTicket.admitted /\ ~NewTicket.released /\ NewTicket.future = "pending"
    /\ ~NoTicket.admitted /\ ~NoTicket.released /\ NoTicket.future = "none"
    /\ Granted # NewTicket /\ NoTicket # NewTicket
    BY DEF Granted, NewTicket, NoTicket

LEMMA CountsAreBounded ==
    ASSUME NEW t
    PROVE  /\ Cardinality({r \in Requests : HoldsIn(t, r)}) \in 0 .. Cardinality(Requests)
           /\ Cardinality({r \in Media : HoldsIn(t, r)}) \in 0 .. Cardinality(Requests)
    <1> DEFINE H == {r \in Requests : HoldsIn(t, r)}
               HM == {r \in Media : HoldsIn(t, r)}
    <1>1. H \subseteq Requests /\ HM \subseteq Requests /\ IsFiniteSet(Requests)
        BY LimitsAssumption
    <1> HIDE DEF H, HM
    <1>2. /\ Cardinality(H) \in Nat /\ Cardinality(HM) \in Nat /\ Cardinality(Requests) \in Nat
          /\ Cardinality(H) <= Cardinality(Requests) /\ Cardinality(HM) <= Cardinality(Requests)
        BY <1>1, FS_Subset, FS_CardinalityType
    <1>3. Cardinality(H) \in 0 .. Cardinality(Requests) /\ Cardinality(HM) \in 0 .. Cardinality(Requests)
        BY <1>2
    <1>4. QED
        BY <1>3 DEF H, HM

(* A request that is served while it waits may go on; the others are as    *)
(* they were.                                                              *)
LEMMA AdmissionStep ==
    ASSUME AdmissionInv, NEW r \in Requests, RequestMoves(r)
    PROVE  AdmissionInv' /\ InTurnStep
    <1>1. ASSUME NEW h \in Requests \ {r}
          PROVE  /\ AcquireInv(h)' /\ HandlerInv(h)'
                 /\ Queued(h)' => ticket'[h] = NewTicket
                                  /\ acquiring'[h] \in {"waiting", "expiring", "cancelling"}
        <2>1. /\ acquiring'[h] = acquiring[h] /\ handler'[h] = handler[h]
              /\ AcquireInv(h) /\ HandlerInv(h)
              /\ SameOther(h) \/ ServedOther(h)
            BY <1>1 DEF RequestMoves, QueueMoves, AdmissionInv
        <2>2. CASE SameOther(h)
            <3>1. Holds(h)' <=> Holds(h)
                BY <2>2 DEF SameOther, Holds
            <3>2. QED
                BY <1>1, <2>1, <2>2, <3>1, QueuedIsNew DEF SameOther, AcquireInv, HandlerInv
        <2>3. CASE ServedOther(h)
            <3>1. Holds(h)' /\ ~Holds(h) /\ acquiring[h] \in {"waiting", "expiring", "cancelling"}
                BY <1>1, <2>3, QueuedIsNew, GrantedHolds DEF ServedOther, Holds
            <3>2. QED
                BY <2>1, <2>3, <3>1, GrantedHolds DEF ServedOther, AcquireInv, HandlerInv, Ended
        <2>4. QED
            BY <2>1, <2>2, <2>3
    <1>2. \A h \in Requests :
              /\ AcquireInv(h)' /\ HandlerInv(h)'
              /\ Queued(h)' => ticket'[h] = NewTicket
                               /\ acquiring'[h] \in {"waiting", "expiring", "cancelling"}
        BY <1>1 DEF RequestMoves
    <1>3. QueueInv'
        BY <1>2 DEF QueueInv, RequestMoves, QueueMoves
    <1>4. TypeOK'
        <2>1. active' \in 0 .. Cardinality(Requests) /\ media' \in 0 .. Cardinality(Requests)
            <3>1. /\ active' = Cardinality({h \in Requests : HoldsIn(ticket', h)})
                  /\ media' = Cardinality({h \in Media : HoldsIn(ticket', h)})
                BY DEF RequestMoves, QueueMoves, Accounting, Holds, HoldsIn
            <3>2. QED
                BY <3>1, CountsAreBounded
        <2>2. QED
            BY <2>1 DEF RequestMoves, QueueMoves, AdmissionInv, TypeOK
    <1>5. QED
        BY <1>2, <1>3, <1>4 DEF AdmissionInv, RequestMoves, QueueMoves
-----------------------------------------------------------------------------
(* Each step of a request is such a move.                                  *)

LEMMA TypesOf ==
    ASSUME AdmissionInv, NEW r \in Requests
    PROVE  /\ acquiring \in [Requests -> AcquiringStates] /\ acquiring[r] \in AcquiringStates
           /\ watching \in [Requests -> WatchingStates] /\ watching[r] \in WatchingStates
           /\ handler \in [Requests -> HandlerStates] /\ handler[r] \in HandlerStates
           /\ AcquireInv(r) /\ HandlerInv(r)
           /\ Queued(r) => ticket[r] = NewTicket /\ acquiring[r] \in {"waiting", "expiring", "cancelling"}
    BY DEF AdmissionInv, TypeOK, QueueInv

LEMMA AcquireMoves ==
    ASSUME AdmissionInv, NEW r \in Requests, AcquireStep(r) \/ Expire(r)
    PROVE  RequestMoves(r)
    <1>0. /\ acquiring \in [Requests -> AcquiringStates]
          /\ watching \in [Requests -> WatchingStates]
          /\ handler \in [Requests -> HandlerStates]
          /\ AcquireInv(r) /\ HandlerInv(r)
          /\ Queued(r) => ticket[r] = NewTicket /\ acquiring[r] \in {"waiting", "expiring", "cancelling"}
        BY TypesOf
    <1>1. ASSUME NEW how \in AcquiringStates, AcquireEnds(r, how)
          PROVE  /\ acquiring' \in [Requests -> AcquiringStates] /\ acquiring'[r] = how
                 /\ \A h \in Requests \ {r} : acquiring'[h] = acquiring[h]
        BY <1>0, <1>1 DEF AcquireEnds
    <1>2. CASE AcquireRefused(r)
        <2>1. UNCHANGED queue /\ UNCHANGED <<closed, watching, handler>> /\ AcquireEnds(r, "raised")
              /\ acquiring[r] = "new"
            BY <1>2 DEF AcquireRefused
        <2>2. QueueMoves(r) /\ SameOther(r)
            BY <2>1, StillQueue
        <2>3. QED
            BY <1>0, <1>1, <2>1, <2>2, GrantedHolds
               DEF RequestMoves, SameOther, AcquireInv, HandlerInv, Holds, AcquiringStates, Ended
    <1>3. CASE AcquireQueued(r)
        <2>1. /\ UNCHANGED <<closed, watching, handler>> /\ acquiring[r] = "new"
              /\ AcquireEnds(r, IF ticket'[r].admitted THEN "returned" ELSE "waiting")
            BY <1>3 DEF AcquireQueued
        <2>2. /\ QueueMoves(r)
              /\ \/ ticket'[r] = Granted /\ ~Queued(r)'
                 \/ ticket'[r] = NewTicket /\ Queued(r)'
            BY <1>3, EnqueueEffects DEF AcquireQueued
        <2>3. CASE ticket'[r] = Granted /\ ~Queued(r)'
            <3>1. AcquireEnds(r, "returned") /\ Holds(r)'
                BY <2>1, <2>3, GrantedHolds DEF Holds
            <3>2. QED
                BY <1>0, <1>1, <2>1, <2>2, <2>3, <3>1, GrantedHolds
                   DEF RequestMoves, AcquireInv, HandlerInv, AcquiringStates, Ended
        <2>4. CASE ticket'[r] = NewTicket /\ Queued(r)'
            <3>1. AcquireEnds(r, "waiting") /\ ~Holds(r)'
                BY <2>1, <2>4, GrantedHolds DEF Holds
            <3>2. QED
                BY <1>0, <1>1, <2>1, <2>2, <2>4, <3>1, GrantedHolds
                   DEF RequestMoves, AcquireInv, HandlerInv, AcquiringStates, Ended
        <2>5. QED
            BY <2>2, <2>3, <2>4
    <1>4. CASE AcquireResumes(r)
        <2>1. /\ UNCHANGED queue /\ UNCHANGED <<closed, watching, handler>> /\ AcquireEnds(r, "returned")
              /\ acquiring[r] = "waiting" /\ ticket[r].future = "result"
            BY <1>4 DEF AcquireResumes
        <2>2. QueueMoves(r) /\ SameOther(r) /\ ~Queued(r) /\ Holds(r)
            BY <1>0, <2>1, StillQueue, GrantedHolds DEF AcquireInv
        <2>3. Holds(r)'
            BY <2>2 DEF SameOther, Holds
        <2>4. QED
            BY <1>0, <1>1, <2>1, <2>2, <2>3
               DEF RequestMoves, SameOther, AcquireInv, HandlerInv, AcquiringStates, Ended
    <1>5. ASSUME NEW how \in {"raised", "cancelled"},
                 Release(r), UNCHANGED <<closed, watching, handler>>, AcquireEnds(r, how),
                 acquiring[r] \in {"waiting", "expiring", "cancelling"},
                 handler[r] = "leaving" \/ how = "raised",
                 acquiring[r] = "cancelling" => how = "cancelled"
          PROVE  RequestMoves(r)
        <2>1. QueueMoves(r) /\ ticket'[r].released /\ ~Queued(r)'
            BY <1>5, ReleaseEffects
        <2>2. ~Holds(r)'
            BY <2>1 DEF Holds
        <2>3. QED
            BY <1>0, <1>1, <1>5, <2>1, <2>2
               DEF RequestMoves, AcquireInv, HandlerInv, AcquiringStates, Ended
    <1>6. CASE AcquireFails(r) \/ AcquireExpired(r)
        BY <1>5, <1>6 DEF AcquireFails, AcquireExpired
    <1>7. CASE AcquireCancelled(r)
        <2>1. handler[r] = "leaving"
            BY <1>0, <1>7 DEF AcquireCancelled, HandlerInv
        <2>2. QED
            BY <1>5, <1>7, <2>1 DEF AcquireCancelled
    <1>8. CASE Expire(r)
        <2>1. /\ UNCHANGED queue /\ UNCHANGED <<closed, watching, handler>> /\ AcquireEnds(r, "expiring")
              /\ acquiring[r] = "waiting"
            BY <1>8 DEF Expire
        <2>2. QueueMoves(r) /\ SameOther(r)
            BY <2>1, StillQueue
        <2>3. Holds(r)' <=> Holds(r)
            BY <2>2 DEF SameOther, Holds
        <2>4. QED
            BY <1>0, <1>1, <2>1, <2>2, <2>3
               DEF RequestMoves, SameOther, AcquireInv, HandlerInv, AcquiringStates, Ended
    <1>9. QED
        BY <1>2, <1>3, <1>4, <1>6, <1>7, <1>8 DEF AcquireStep

LEMMA HandlerMoves ==
    ASSUME AdmissionInv, NEW r \in Requests,
           \/ Arrive(r) \/ Watch(r) \/ HandlerStep(r)
           \/ ResponseStart(r) \/ Finish(r) \/ CancelHandler(r)
    PROVE  RequestMoves(r)
    <1>0. /\ acquiring \in [Requests -> AcquiringStates]
          /\ watching \in [Requests -> WatchingStates]
          /\ handler \in [Requests -> HandlerStates]
          /\ AcquireInv(r) /\ HandlerInv(r)
          /\ Queued(r) => ticket[r] = NewTicket /\ acquiring[r] \in {"waiting", "expiring", "cancelling"}
        BY TypesOf
    <1>1. ASSUME UNCHANGED queue
          PROVE  QueueMoves(r) /\ ticket'[r] = ticket[r] /\ (Queued(r)' <=> Queued(r))
                 /\ (Holds(r)' <=> Holds(r))
        BY <1>1, StillQueue DEF SameOther, Holds
    <1>2. CASE Arrive(r)
        BY <1>0, <1>1, <1>2 DEF Arrive, RequestMoves, AcquireInv, HandlerInv, AcquiringStates,
                                WatchingStates, HandlerStates, Ended
    <1>3. CASE Watch(r)
        BY <1>0, <1>1, <1>3 DEF Watch, RequestMoves, AcquireInv, HandlerInv, WatchingStates
    <1>4. CASE ClientGone(r)
        BY <1>0, <1>1, <1>4 DEF ClientGone, RequestMoves, AcquireInv, HandlerInv, HandlerStates
    <1>5. CASE StartApp(r)
        BY <1>0, <1>1, <1>5 DEF StartApp, AcquireDone, RequestMoves, AcquireInv, HandlerInv,
                                WatchingStates, HandlerStates
    <1>6. CASE Refuse(r)
        BY <1>0, <1>1, <1>6 DEF Refuse, AcquireDone, RequestMoves, AcquireInv, HandlerInv,
                                WatchingStates, HandlerStates
    <1>7. ASSUME Release(r)
          PROVE  QueueMoves(r) /\ ticket'[r].released /\ ~Queued(r)' /\ ~Holds(r)'
        BY <1>7, ReleaseEffects DEF Holds
    <1>8. CASE ResponseStart(r)
        BY <1>0, <1>7, <1>8 DEF ResponseStart, RequestMoves, AcquireInv, HandlerInv, HandlerStates
    <1>9. CASE Leave(r)
        <2>1. CASE acquiring[r] = "returned"
            BY <1>0, <1>7, <1>9, <2>1 DEF Leave, RequestMoves, AcquireInv, HandlerInv, HandlerStates, Ended
        <2>2. CASE acquiring[r] # "returned"
            BY <1>0, <1>1, <1>9, <2>2 DEF Leave, RequestMoves, AcquireInv, HandlerInv, HandlerStates, Ended
        <2>3. QED
            BY <2>1, <2>2
    <1>10. ASSUME BeginLeave(r), handler[r] \in HandlerStates \ {"idle", "leaving", "done"}
           PROVE  RequestMoves(r)
        <2>1. /\ handler' \in [Requests -> HandlerStates] /\ handler'[r] = "leaving"
              /\ watching' \in [Requests -> WatchingStates] /\ closed' = closed
              /\ \A h \in Requests \ {r} : handler'[h] = handler[h]
            BY <1>0, <1>10 DEF BeginLeave, HandlerStates, WatchingStates
        <2>2. PICK how \in AcquiringStates :
                  /\ AcquireEnds(r, how)
                  /\ \/ acquiring[r] = "new" /\ how = "cancelled"
                     \/ acquiring[r] \in {"waiting", "expiring"} /\ how = "cancelling"
                     \/ acquiring[r] \notin {"none", "new", "waiting", "expiring"} /\ how = acquiring[r]
            BY <1>0, <1>10 DEF BeginLeave, CancelAcquiring, HandlerInv, AcquiringStates, Ended
        <2>3. /\ acquiring' \in [Requests -> AcquiringStates] /\ acquiring'[r] = how
              /\ \A h \in Requests \ {r} : acquiring'[h] = acquiring[h]
            BY <1>0, <2>2 DEF AcquireEnds
        <2>4. CASE handler[r] \in {"running", "streaming"}
            <3>1. Release(r) /\ acquiring[r] = "returned" /\ how = "returned"
                BY <1>0, <1>10, <2>2, <2>4 DEF BeginLeave, HandlerInv
            <3>2. QED
                BY <1>0, <1>7, <2>1, <2>3, <3>1 DEF RequestMoves, AcquireInv, HandlerInv, Ended
        <2>5. CASE handler[r] \notin {"running", "streaming"}
            <3>1. UNCHANGED queue
                BY <1>10, <2>5 DEF BeginLeave
            <3>2. acquiring[r] = "new" => ~Holds(r) /\ ~Queued(r)
                BY <1>0, GrantedHolds DEF AcquireInv, Holds
            <3>3. QED
                BY <1>0, <1>1, <2>1, <2>2, <2>3, <3>1, <3>2
                   DEF RequestMoves, AcquireInv, HandlerInv, AcquiringStates, Ended
        <2>6. QED
            BY <2>4, <2>5
    <1>11. CASE Finish(r)
        BY <1>10, <1>11 DEF Finish, HandlerStates
    <1>12. CASE CancelHandler(r)
        BY <1>10, <1>12 DEF CancelHandler
    <1>13. QED
        BY <1>2, <1>3, <1>4, <1>5, <1>6, <1>8, <1>9, <1>11, <1>12 DEF HandlerStep

(* The shutdown refuses everyone who waits; who holds a place keeps it.    *)
LEMMA CloseStep ==
    ASSUME AdmissionInv, Close
    PROVE  AdmissionInv' /\ InTurnStep
    <1>1. /\ closed' = TRUE /\ waiters' = << >>
          /\ UNCHANGED <<active, media, acquiring, watching, handler>>
          /\ ticket \in [Requests -> Ticket]
        BY DEF Close, AdmissionInv, TypeOK
    <1>2. \A h \in Requests : ticket'[h] = IF Queued(h) THEN [ticket[h] EXCEPT !.released = TRUE, !.future = "exception"]
                                          ELSE ticket[h]
        BY DEF Close, Queued
    <1>3. \A h : ~Queued(h)'
        BY <1>1 DEF Queued
    <1>4. \A h \in Requests :
              /\ ticket'[h] \in Ticket /\ (Holds(h)' <=> Holds(h))
              /\ Queued(h) => ticket'[h].future = "exception" /\ ticket'[h].released /\ ~ticket'[h].admitted
              /\ ~Queued(h) => ticket'[h] = ticket[h]
        BY <1>1, <1>2, QueuedIsNew DEF Ticket, Holds
    <1>5. Accounting'
        <2>1. {h \in Requests : Holds(h)'} = {h \in Requests : Holds(h)}
              /\ {h \in Media : Holds(h)'} = {h \in Media : Holds(h)}
            BY <1>4, LimitsAssumption
        <2>2. QED
            BY <1>1, <2>1 DEF AdmissionInv, Accounting
    <1>6. ticket' \in [Requests -> Ticket]
        <2>1. ticket' = [h \in Requests |-> ticket'[h]]
            BY DEF Close
        <2>2. QED
            BY <1>4, <2>1
    <1>7. QueueInv' /\ NoIdleCapacity' /\ TypeOK'
        BY <1>1, <1>3, <1>6 DEF QueueInv, NoIdleCapacity, OnceEach, AdmissionInv, TypeOK
    <1>8. \A h \in Requests : AcquireInv(h)' /\ HandlerInv(h)'
        <2> SUFFICES ASSUME NEW h \in Requests PROVE AcquireInv(h)' /\ HandlerInv(h)'
            OBVIOUS
        <2>1. CASE Queued(h)
            BY <1>1, <1>4, <2>1, QueuedIsNew DEF AdmissionInv, AcquireInv, HandlerInv
        <2>2. CASE ~Queued(h)
            BY <1>1, <1>3, <1>4, <2>2 DEF AdmissionInv, AcquireInv, HandlerInv
        <2>3. QED
            BY <2>1, <2>2
    <1>9. InTurnStep
        BY <1>1 DEF InTurnStep
    <1>10. QED
        BY <1>5, <1>7, <1>8, <1>9 DEF AdmissionInv

-----------------------------------------------------------------------------
LEMMA AdmissionInit == Init => AdmissionInv
    <1> SUFFICES ASSUME Init PROVE AdmissionInv
        OBVIOUS
    <1>1. /\ {r \in Requests : Holds(r)} = {} /\ {r \in Media : Holds(r)} = {}
          /\ NoTicket \in Ticket /\ \A r : ~Queued(r)
        BY LimitsAssumption DEF Init, Holds, NoTicket, Ticket, Queued
    <1>2. Accounting
        <2>1. /\ Cardinality({r \in Requests : Holds(r)}) = 0
              /\ Cardinality({r \in Media : Holds(r)}) = 0
            BY <1>1, FS_EmptySet
        <2>2. active = 0 /\ media = 0 /\ 0 <= ActiveLimit /\ 0 <= MediaLimit
            BY LimitsAssumption DEF Init
        <2>3. QED
            BY <2>1, <2>2 DEF Accounting
    <1>3. TypeOK
        <2>1. 0 \in 0 .. Cardinality(Requests)
            <3>1. Cardinality(Requests) \in Nat
                BY LimitsAssumption, FS_CardinalityType
            <3>2. QED
                BY <3>1
        <2>2. active \in 0 .. Cardinality(Requests) /\ media \in 0 .. Cardinality(Requests)
            BY <2>1 DEF Init
        <2>3. waiters \in Seq(Requests) /\ closed \in BOOLEAN
            <3>1. waiters = << >> /\ closed = FALSE
                BY DEF Init
            <3>2. << >> \in Seq(Requests)
                BY EmptySeq
            <3>3. FALSE \in BOOLEAN
                OBVIOUS
            <3>4. QED
                BY <3>1, <3>2, <3>3, Zenon
        <2>4. ticket \in [Requests -> Ticket]
            BY <1>1 DEF Init
        <2>5. /\ acquiring \in [Requests -> AcquiringStates]
              /\ watching \in [Requests -> WatchingStates]
              /\ handler \in [Requests -> HandlerStates]
            BY DEF Init, AcquiringStates, WatchingStates, HandlerStates
        <2>6. QED
            BY <2>2, <2>3, <2>4, <2>5 DEF TypeOK
    <1>4. QueueInv /\ NoIdleCapacity
        BY <1>1 DEF Init, QueueInv, NoIdleCapacity, OnceEach
    <1>5. \A r \in Requests : AcquireInv(r) /\ HandlerInv(r)
        BY GrantedHolds DEF Init, AcquireInv, HandlerInv
    <1>6. QED
        BY <1>2, <1>3, <1>4, <1>5 DEF AdmissionInv

LEMMA AdmissionNext == AdmissionInv /\ [Next]_vars => AdmissionInv' /\ (InTurnStep \/ UNCHANGED vars)
    <1> SUFFICES ASSUME AdmissionInv, [Next]_vars
                 PROVE  AdmissionInv' /\ (InTurnStep \/ UNCHANGED vars)
        OBVIOUS
    <1>1. CASE Close
        BY <1>1, CloseStep
    <1>2. ASSUME NEW r \in Requests,
                 \/ Arrive(r) \/ Watch(r) \/ Expire(r) \/ AcquireStep(r) \/ HandlerStep(r)
                 \/ ResponseStart(r) \/ Finish(r) \/ CancelHandler(r)
          PROVE  AdmissionInv' /\ InTurnStep
        BY <1>2, AcquireMoves, HandlerMoves, AdmissionStep
    <1>3. CASE UNCHANGED vars
        BY <1>3 DEF vars, AdmissionInv, TypeOK, QueueInv, Accounting, NoIdleCapacity, AcquireInv,
                    HandlerInv, Holds, Queued
    <1>4. QED
        BY <1>1, <1>2, <1>3 DEF Next

(* In every reachable state the queue holds each waiter once, with an      *)
(* undecided ticket, and what a request holds follows from the stages of   *)
(* its acquire task and of its handler.                                    *)
THEOREM AdmissionInvariance == Spec => []AdmissionInv
    BY AdmissionInit, AdmissionNext, PTL DEF Spec

(* The counters are those of the places held, within both limits; no place *)
(* is idle while somebody waits who may have it; who is over holds nothing *)
(* and the application runs only with a place; and nobody is passed by a   *)
(* younger waiter, but for media that has no place left.                   *)
THEOREM PlacesAreKept == Spec => PlacesKept
    <1>1. AdmissionInv => Accounting /\ NoIdleCapacity /\ NothingLeaks
        <2> SUFFICES ASSUME AdmissionInv PROVE NothingLeaks
            BY DEF AdmissionInv
        <2>1. ASSUME NEW r \in Requests
              PROVE  /\ handler[r] = "done" => ~Holds(r) /\ ~Queued(r)
                     /\ handler[r] = "running" => Holds(r)
                     /\ acquiring[r] \in {"raised", "cancelled"} => ~Holds(r)
            BY TypesOf DEF AcquireInv, HandlerInv, Ended
        <2>2. QED
            BY <2>1 DEF NothingLeaks, Queued
    <1>2. AdmissionInv /\ [Next]_vars =>
              [\A j, k \in DOMAIN waiters :
                  (j < k /\ ticket'[waiters[k]].admitted) =>
                      \/ \A i \in DOMAIN waiters' : waiters'[i] # waiters[j]
                      \/ waiters[j] \in Media /\ waiters[k] \notin Media /\ media' = MediaLimit
              ]_vars
        BY AdmissionNext DEF InTurnStep
    <1>3. QED
        BY <1>1, <1>2, AdmissionInvariance, PTL DEF Spec, PlacesKept, OldestFirst

-----------------------------------------------------------------------------
(* The event stream.                                                       *)

EventType == [n : Nat, id : Nat, by : Publishers]
Committed == {pending[p][1] : p \in {q \in Publishers : pending[q] # Nothing}}
Fresh(e) == e.n \notin issued.again

EventsType ==
    /\ store \subseteq EventType /\ IsFiniteSet(store) /\ written \in Nat
    /\ pending \in [Publishers -> {Nothing} \cup {<<e>> : e \in EventType}]
    /\ conn \in {"closed", "subscribed", "replaying", "live"}
    /\ buffer \in Seq(EventType) /\ replay \in Seq(EventType) /\ log \in Seq(EventType)
    /\ high \in Nat /\ after \in Nat
    /\ client \in [query : Nat, latest : Nat, seen : Nat]
    /\ issued \in [top : Nat, again : SUBSET Nat]
    /\ excused \subseteq Nat /\ offered \subseteq Nat

(* Events are numbered as they are made, and ids are handed out upwards    *)
(* but for those that come back.                                           *)
Known == store \cup Committed \cup Range(buffer) \cup Range(replay) \cup Range(log)
NumberInv ==
    /\ \A e \in Known : e.n <= written /\ e.id <= issued.top
    /\ \A n \in issued.again \cup offered : n <= written
    /\ \A d, e \in Known : d.n = e.n => d = e
    /\ \A d, e \in Known : d.n < e.n /\ Fresh(e) /\ e.id # NoId => d.id < e.id
    /\ \A e \in Known : e.n \in offered => e.id = NoId
RowsInv ==
    /\ \A e \in store \cup Committed \cup Range(replay) : e.id # NoId
    /\ \A d, e \in store : d.id = e.id => d = e
    /\ \A p \in Publishers : pending[p] # Nothing => pending[p][1].by = p
    /\ {high, after, client.query, client.latest, client.seen} \subseteq 0 .. issued.top

(* What waits to be sent is there once, in the order of its coroutine.     *)
BufferInv ==
    /\ \A j, k \in DOMAIN buffer : j < k => buffer[j].n # buffer[k].n
                                   /\ (buffer[j].by = buffer[k].by => buffer[j].n < buffer[k].n)
    /\ \A e \in Range(buffer) : \A d \in Committed : e.n # d.n /\ (e.by = d.by => e.n < d.n)
ReplayInv ==
    /\ conn \in {"closed", "live"} => replay = << >>
    /\ conn = "closed" => buffer = << >>
    /\ conn = "subscribed" => log = << >> /\ replay = << >> /\ high = after
    /\ \A j, k \in DOMAIN replay : j < k => replay[j].id < replay[k].id
    /\ \A e \in Range(replay) : high < e.id
    /\ conn = "replaying" => \A e \in Range(log) : Replayed(e)

(* What was sent and may come again is skipped, and what is not skipped is *)
(* sent in order.                                                          *)
Coming == Range(buffer) \cup Committed
LogInv ==
    /\ \A e \in Coming : e.n \in Delivered /\ conn # "closed" => Replayed(e)
    /\ \A d \in Range(log) : \A e \in Coming :
           /\ d.by = e.by /\ NoId \notin {d.id, e.id} /\ Fresh(d) /\ Fresh(e)
           /\ ~Replayed(e) /\ conn # "closed"
           => d.n < e.n

(* Where an event is that a connection owes its browser.                   *)
InBuffer == {e.n : e \in Range(buffer)}
InReplay == {e.n : e \in Range(replay)}
OwedInv ==
    /\ conn # "closed" => offered \subseteq Delivered \cup excused \cup InBuffer
    /\ conn \in {"replaying", "live"} =>
           \A e \in store : Fresh(e) /\ e.id > after =>
               /\ e.n \in Delivered \cup excused \cup Awaiting \cup InBuffer \cup InReplay
               /\ (e.id <= high \/ \E r \in Range(replay) : e.id <= r.id) =>
                      e.n \in Delivered \cup InReplay

StreamInv ==
    /\ EventsType /\ NumberInv /\ RowsInv /\ BufferInv /\ ReplayInv /\ LogInv /\ OwedInv
    /\ DeliveredOnce /\ PublisherOrder
-----------------------------------------------------------------------------
(* Counting and sorting.                                                   *)


(* The places of a finite set of numbers are 1, 2, ... in their order.     *)
LEMMA PlacesInOrder ==
    ASSUME NEW F, IsFiniteSet(F), F \subseteq Int
    PROVE  /\ Cardinality(F) \in Nat
           /\ \A k \in F : UpTo(F, k) \in 1 .. Cardinality(F)
           /\ \A k, l \in F : k < l => UpTo(F, k) < UpTo(F, l)
           /\ \A p \in 1 .. Cardinality(F) : \E k \in F : UpTo(F, k) = p
    <1> DEFINE c == Cardinality(F)
               at == [k \in F |-> UpTo(F, k)]
    <1>0. \A k \in F : k \in Int
        OBVIOUS
    <1>1. c \in Nat
        BY FS_CardinalityType
    <1>2. \A k \in F : UpTo(F, k) \in 1 .. c
        <2> SUFFICES ASSUME NEW k \in F PROVE UpTo(F, k) \in 1 .. c
            OBVIOUS
        <2> DEFINE B == {j \in F : j <= k}
        <2>1. k \in B /\ B \subseteq F
            BY <1>0
        <2> HIDE DEF B
        <2>2. IsFiniteSet(B) /\ Cardinality(B) \in Nat /\ Cardinality(B) <= c
            BY <1>1, <2>1, FS_Subset, FS_CardinalityType
        <2>3. Cardinality(B) # 0
            BY <2>1, <2>2, FS_EmptySet
        <2>4. QED
            BY <1>1, <2>2, <2>3 DEF UpTo, B
    <1>3. \A k, l \in F : k < l => UpTo(F, k) < UpTo(F, l)
        <2> SUFFICES ASSUME NEW k \in F, NEW l \in F, k < l PROVE UpTo(F, k) < UpTo(F, l)
            OBVIOUS
        <2> DEFINE B == {j \in F : j <= k}
                   D == {j \in F : j <= l}
        <2>1. B \subseteq D /\ l \in D /\ l \notin B /\ D \subseteq F
            <3>1. (\A j \in F : j <= k => j <= l) /\ ~(l <= k) /\ l <= l
                BY <1>0
            <3>2. QED
                BY <3>1
        <2> HIDE DEF B, D
        <2>2. IsFiniteSet(D) /\ Cardinality(D) \in Nat
            BY <1>1, <2>1, FS_Subset, FS_CardinalityType
        <2>3. Cardinality(B) <= Cardinality(D) /\ Cardinality(B) # Cardinality(D)
              /\ Cardinality(B) \in Nat
            BY <2>1, <2>2, FS_Subset, FS_CardinalityType
        <2>4. QED
            BY <2>2, <2>3 DEF UpTo, B, D
    <1>4. at \in Injection(F, 1 .. c)
        <2>1. \A k, l \in F : k < l \/ l < k \/ k = l
            BY <1>0
        <2> HIDE DEF c
        <2>2. \A k \in F : UpTo(F, k) \in Int
            BY <1>1, <1>2
        <2>3. \A k, l \in F : at[k] = at[l] => k = l
            BY <1>3, <2>1, <2>2
        <2>4. at \in [F -> 1 .. c]
            BY <1>2
        <2>5. QED
            BY <2>3, <2>4 DEF Injection, IsInjective
    <1>5. at \in Surjection(F, 1 .. c)
        <2> HIDE DEF at
        <2>1. IsFiniteSet(1 .. c) /\ Cardinality(1 .. c) = c
            BY <1>1, FS_Interval
        <2>2. QED
            BY <1>4, <2>1, FS_Injection
    <1>6. \A p \in 1 .. c : \E k \in F : at[k] = p
        <2> HIDE DEF at, c
        <2>1. QED
            BY <1>5 DEF Surjection
    <1>7. QED
        BY <1>1, <1>2, <1>3, <1>6

(* The numbers of a bounded set have a largest one, which Max finds.       *)
LEMMA LargestOf ==
    ASSUME NEW n \in Nat, NEW S \in SUBSET (0 .. n), S # {}
    PROVE  Max(S) \in S /\ \A j \in S : j <= Max(S)
    <1> DEFINE T == {n - k : k \in S}
               R == OpToRel(<, Nat)
    <1>1. T \subseteq Nat /\ T # {}
        <2>1. \A k \in S : n - k \in Nat
            OBVIOUS
        <2>2. QED
            BY <2>1
    <1>2. PICK t \in T : \A u \in T : <<u, t>> \notin R
        <2> HIDE DEF T, R
        <2>1. IsWellFoundedOn(R, Nat)
            BY NatLessThanWellFounded DEF R
        <2>2. QED
            BY <1>1, <2>1, WFMin
    <1>3. PICK k \in S : t = n - k
        BY <1>2
    <1>4. ASSUME NEW j \in S PROVE j <= k
        <2>1. n - j \in T /\ n - j \in Nat /\ t \in Nat
            BY <1>1
        <2>2. ~(n - j < t)
            BY <1>2, <2>1 DEF OpToRel
        <2>3. QED
            BY <1>3, <2>2
    <1>5. \E x \in S : \A y \in S : y <= x
        BY <1>4
    <1>6. \A x, y \in S : y <= x <=> x >= y
        OBVIOUS
    <1>7. QED
        BY <1>5, <1>6 DEF Max

-----------------------------------------------------------------------------
(* Sequences and what is in them.                                          *)

LEMMA RangeIs ==
    ASSUME NEW S, NEW s \in Seq(S)
    PROVE  /\ Len(s) \in Nat /\ DOMAIN s = 1 .. Len(s)
           /\ Range(s) \subseteq S
           /\ \A i \in 1 .. Len(s) : s[i] \in Range(s)
           /\ \A x \in Range(s) : \E i \in 1 .. Len(s) : s[i] = x
    BY DEF Range

LEMMA NothingIn == Range(<< >>) = {} /\ DOMAIN << >> = {}
    BY DEF Range

LEMMA AppendIs ==
    ASSUME NEW S, NEW s \in Seq(S), NEW e \in S
    PROVE  /\ Append(s, e) \in Seq(S)
           /\ DOMAIN Append(s, e) = 1 .. Len(s) + 1
           /\ \A i \in 1 .. Len(s) : Append(s, e)[i] = s[i]
           /\ Append(s, e)[Len(s) + 1] = e
           /\ Range(Append(s, e)) = Range(s) \cup {e}
    <1>1. /\ Append(s, e) \in Seq(S) /\ Len(s) \in Nat
          /\ DOMAIN Append(s, e) = 1 .. Len(s) + 1 /\ DOMAIN s = 1 .. Len(s)
          /\ \A i \in 1 .. Len(s) : Append(s, e)[i] = s[i]
          /\ Append(s, e)[Len(s) + 1] = e
        OBVIOUS
    <1>2. Range(Append(s, e)) \subseteq Range(s) \cup {e}
        BY <1>1 DEF Range
    <1>3. Range(s) \cup {e} \subseteq Range(Append(s, e))
        BY <1>1 DEF Range
    <1>4. QED
        BY <1>1, <1>2, <1>3

LEMMA TailIs ==
    ASSUME NEW S, NEW s \in Seq(S), s # << >>
    PROVE  /\ Head(s) \in S /\ Head(s) \in Range(s) /\ Tail(s) \in Seq(S)
           /\ 1 \in DOMAIN s /\ Head(s) = s[1]
           /\ \A j \in DOMAIN Tail(s) : j + 1 \in DOMAIN s /\ Tail(s)[j] = s[j + 1] /\ j \in Nat
                                      /\ 1 < j + 1
           /\ Range(s) = {Head(s)} \cup Range(Tail(s))
    <1>1. /\ Len(s) \in Nat \ {0} /\ Head(s) \in S /\ Head(s) = s[1] /\ Tail(s) \in Seq(S)
          /\ DOMAIN s = 1 .. Len(s) /\ DOMAIN Tail(s) = 1 .. Len(s) - 1
          /\ \A i \in 1 .. Len(s) - 1 : Tail(s)[i] = s[i + 1]
        BY HeadTailProperties, EmptySeq
    <1>2. /\ Range(s) = {s[i] : i \in 1 .. Len(s)}
          /\ Range(Tail(s)) = {Tail(s)[j] : j \in 1 .. Len(s) - 1}
        BY <1>1 DEF Range
    <1>3. ASSUME NEW i \in 1 .. Len(s)
          PROVE  s[i] = s[1] \/ \E j \in 1 .. Len(s) - 1 : s[i] = Tail(s)[j]
        <2>1. i # 1 => i - 1 \in 1 .. Len(s) - 1 /\ (i - 1) + 1 = i
            BY <1>1
        <2>2. QED
            BY <1>1, <2>1
    <1>4. /\ \A j \in 1 .. Len(s) - 1 : j + 1 \in 1 .. Len(s) /\ 1 < j + 1
          /\ 1 \in 1 .. Len(s)
        BY <1>1
    <1>5. Range(s) = {Head(s)} \cup Range(Tail(s))
        BY <1>1, <1>2, <1>3, <1>4
    <1>6. QED
        BY <1>1, <1>4, <1>5

-----------------------------------------------------------------------------
(* What the types give.                                                    *)

LEMMA CommittedIs ==
    ASSUME EventsType
    PROVE  /\ Committed \subseteq EventType
           /\ \A p \in Publishers : pending[p] # Nothing => pending[p][1] \in Committed
           /\ \A d \in Committed : \E p \in Publishers : pending[p] # Nothing /\ d = pending[p][1]
           /\ Awaiting = {d.n : d \in Committed}
    BY DEF EventsType, Committed, Awaiting, Nothing

LEMMA KnownTyped ==
    ASSUME EventsType
    PROVE  \A e \in Known : e \in EventType /\ e.n \in Nat /\ e.id \in Nat
    <1>1. Committed \subseteq EventType /\ store \subseteq EventType
        BY CommittedIs DEF EventsType
    <1>2. Range(buffer) \subseteq EventType /\ Range(replay) \subseteq EventType
          /\ Range(log) \subseteq EventType
        BY RangeIs DEF EventsType
    <1>3. \A e \in EventType : e.n \in Nat /\ e.id \in Nat
        BY DEF EventType
    <1>4. QED
        BY <1>1, <1>2, <1>3 DEF Known

(* The next id is larger than that of every row.                           *)
LEMMA NextIdIs ==
    ASSUME EventsType, NumberInv
    PROVE  NextId \in Nat /\ NextId # NoId /\ \A e \in store : e.id < NextId
    <1> DEFINE S == {0} \cup {e.id : e \in store}
    <1>1. issued.top \in Nat
        BY DEF EventsType
    <1>2. \A e \in store : e.id \in Nat /\ e.id <= issued.top
        BY KnownTyped DEF NumberInv, Known
    <1>3. S \in SUBSET (0 .. issued.top) /\ S # {}
        BY <1>1, <1>2
    <1>4. Max(S) \in S /\ \A j \in S : j <= Max(S)
        <2> HIDE DEF S
        <2>1. QED
            BY <1>1, <1>3, LargestOf
    <1>5. Max(S) \in Nat /\ \A e \in store : e.id <= Max(S)
        BY <1>2, <1>4
    <1>6. NextId = 1 + Max(S)
        BY DEF NextId
    <1>7. QED
        <2> HIDE DEF S
        <2>1. QED
            BY <1>2, <1>5, <1>6 DEF NoId

(* Nothing new is known and nothing is numbered.                           *)
LEMMA NumbersStay ==
    ASSUME NumberInv, Known' \subseteq Known, offered' \subseteq offered,
           written' = written, issued' = issued
    PROVE  NumberInv'
    BY DEF NumberInv, Fresh

(* One event more is known, the latest one.                                *)
LEMMA NumbersGrow ==
    ASSUME EventsType, NumberInv, NEW e \in EventType,
           Known' \subseteq Known \cup {e}, e.n = written + 1, written' = e.n,
           issued' \in [top : Nat, again : SUBSET Nat],
           issued.top <= issued'.top, e.id <= issued'.top,
           issued.again \subseteq issued'.again, issued'.again \subseteq issued.again \cup {e.n},
           e.n \notin issued'.again /\ e.id # NoId => issued.top < e.id,
           offered' = offered \/ (e.id = NoId /\ offered' = offered \cup {e.n})
    PROVE  NumberInv'
    <1>1. written \in Nat /\ issued.top \in Nat /\ issued'.top \in Nat /\ e.id \in Nat
        BY DEF EventsType, EventType
    <1>2. \A d \in Known : d.n \in Nat /\ d.id \in Nat /\ d.n <= written /\ d.id <= issued.top
        BY KnownTyped DEF NumberInv
    <1>3. \A d \in Known : d.n # e.n /\ ~(e.n < d.n) /\ d.n <= written' /\ d.id <= issued'.top
        BY <1>1, <1>2
    <1>4. \A d \in Known' : d.n <= written' /\ d.id <= issued'.top
        BY <1>1, <1>3
    <1>5. \A n \in issued'.again \cup offered' : n <= written'
        <2>1. \A n \in issued.again \cup offered : n \in Nat /\ n <= written
            BY DEF EventsType, NumberInv
        <2>2. \A n \in issued'.again \cup offered' : n \in issued.again \cup offered \/ n = e.n
            OBVIOUS
        <2>3. QED
            BY <1>1, <2>1, <2>2
    <1>6. \A c, d \in Known' : c.n = d.n => c = d
        BY <1>3 DEF NumberInv
    <1>7. \A c, d \in Known' : c.n < d.n /\ d.n \notin issued'.again /\ d.id # NoId => c.id < d.id
        <2> SUFFICES ASSUME NEW c \in Known', NEW d \in Known',
                            c.n < d.n, d.n \notin issued'.again, d.id # NoId
                     PROVE  c.id < d.id
            OBVIOUS
        <2>1. CASE c = e
            BY <1>1, <1>3, <2>1
        <2>2. CASE c # e /\ d = e
            BY <1>1, <1>2, <2>2
        <2>3. CASE c # e /\ d # e
            BY <2>3 DEF NumberInv, Fresh
        <2>4. QED
            BY <2>1, <2>2, <2>3
    <1>8. \A d \in Known' : d.n \in offered' => d.id = NoId
        BY <1>1, <1>3 DEF NumberInv
    <1>9. QED
        BY <1>4, <1>5, <1>6, <1>7, <1>8 DEF NumberInv, Fresh

-----------------------------------------------------------------------------
(* The rows.                                                               *)

LEMMA CommitKeeps ==
    ASSUME StreamInv, NEW p \in Publishers, CommitEvent(p)
    PROVE  StreamInv'
    <1>1. /\ EventsType /\ NumberInv /\ RowsInv /\ BufferInv /\ ReplayInv /\ LogInv /\ OwedInv
          /\ DeliveredOnce /\ PublisherOrder
        BY DEF StreamInv
    <1>3. NextId \in Nat /\ NextId # NoId /\ \A d \in store : d.id < NextId
        BY <1>1, NextIdIs
    <1>4. /\ written \in Nat /\ issued.top \in Nat /\ issued.again \subseteq Nat
          /\ pending \in [Publishers -> {Nothing} \cup {<<d>> : d \in EventType}]
          /\ store \subseteq EventType /\ IsFiniteSet(store)
        BY <1>1 DEF EventsType
    <1>5. PICK e \in EventType : /\ e = [n |-> written + 1, id |-> NextId, by |-> p]
                                /\ e.n = written + 1 /\ e.id = NextId /\ e.by = p
        <2>1. [n |-> written + 1, id |-> NextId, by |-> p] \in EventType
            BY <1>3, <1>4 DEF EventType
        <2>2. QED
            BY <2>1
    <1>2. /\ pending[p] = Nothing
          /\ store' = store \cup {e} /\ pending' = [pending EXCEPT ![p] = <<e>>]
          /\ written' = written + 1
          /\ issued' = [top |-> Larger(issued.top, NextId),
                        again |-> issued.again \cup IF NextId <= issued.top THEN {written'} ELSE {}]
          /\ UNCHANGED <<conn, buffer, replay, high, client, log, excused, after, offered>>
        BY <1>5 DEF CommitEvent, connection
    <1>6. /\ issued' \in [top : Nat, again : SUBSET Nat]
          /\ issued.top <= issued'.top /\ e.id <= issued'.top
          /\ issued.again \subseteq issued'.again /\ issued'.again \subseteq issued.again \cup {e.n}
          /\ e.n \notin issued'.again => issued.top < e.id
        BY <1>2, <1>3, <1>4, <1>5 DEF Larger
    <1>7. /\ pending' \in [Publishers -> {Nothing} \cup {<<d>> : d \in EventType}]
          /\ pending'[p] # Nothing /\ pending'[p][1] = e
          /\ \A q \in Publishers : q # p => pending'[q] = pending[q]
        BY <1>2, <1>4, <1>5 DEF Nothing
    <1>8. EventsType'
        <2>1. IsFiniteSet(store')
            BY <1>2, <1>4, FS_AddElement
        <2>2. QED
            BY <1>1, <1>2, <1>4, <1>5, <1>6, <1>7, <2>1 DEF EventsType
    <1>9. Committed' = Committed \cup {e}
        <2>1. /\ Committed = {pending[q][1] : q \in {r \in Publishers : pending[r] # Nothing}}
              /\ Committed' = {pending'[q][1] : q \in {r \in Publishers : pending'[r] # Nothing}}
            BY DEF Committed
        <2>2. QED
            BY <1>2, <1>7, <2>1
    <1>10. Known' = Known \cup {e}
        BY <1>2, <1>9 DEF Known
    <1>11. NumberInv'
        <2>1. /\ Known' \subseteq Known \cup {e} /\ written' = e.n /\ offered' = offered
              /\ e.n \notin issued'.again /\ e.id # NoId => issued.top < e.id
            BY <1>2, <1>5, <1>6, <1>10
        <2>2. QED
            BY <1>1, <1>5, <1>6, <2>1, NumbersGrow
    <1>12. \A d \in Known : d.n \in Nat /\ d.id \in Nat /\ d.n <= written /\ d.id <= issued.top
        BY <1>1, KnownTyped DEF NumberInv
    <1>13. RowsInv'
        <2>1. \A d \in store' \cup Committed' \cup Range(replay') : d.id # NoId
            BY <1>1, <1>2, <1>3, <1>5, <1>9 DEF RowsInv
        <2>2. \A c, d \in store' : c.id = d.id => c = d
            <3>1. \A d \in store : d.id \in Nat /\ d.id # e.id
                BY <1>3, <1>5, <1>12 DEF Known
            <3>2. QED
                BY <1>1, <1>2, <3>1 DEF RowsInv
        <2>3. \A q \in Publishers : pending'[q] # Nothing => pending'[q][1].by = q
            BY <1>1, <1>5, <1>7 DEF RowsInv
        <2>4. {high, after, client.query, client.latest, client.seen} \subseteq 0 .. issued'.top
            <3>1. 0 .. issued.top \subseteq 0 .. issued'.top
                BY <1>4, <1>6
            <3>2. QED
                BY <1>1, <3>1 DEF RowsInv
        <2>5. QED
            BY <1>2, <2>1, <2>2, <2>3, <2>4 DEF RowsInv
    <1>14. BufferInv'
        <2>1. \A d \in Range(buffer) : d.n # e.n /\ d.n < e.n
            BY <1>4, <1>5, <1>12 DEF Known
        <2>2. QED
            BY <1>1, <1>2, <1>9, <2>1 DEF BufferInv
    <1>15. ReplayInv'
        BY <1>1, <1>2 DEF ReplayInv, Replayed
    <1>16. LogInv'
        <2>1. \A d \in Range(log) : d.n # e.n /\ d.n < e.n
            BY <1>4, <1>5, <1>12 DEF Known
        <2>2. e.n \notin Delivered /\ Delivered' = Delivered
            BY <1>2, <2>1 DEF Delivered
        <2>3. Coming' = Coming \cup {e}
            BY <1>2, <1>9 DEF Coming
        <2>4. \A d \in Coming' : d.n \in Delivered' /\ conn' # "closed" => d.id # NoId /\ d.id <= high
            BY <1>1, <1>2, <2>2, <2>3 DEF LogInv, Replayed
        <2>5. \A c \in Range(log) : \A d \in Coming' :
                  /\ c.by = d.by /\ NoId \notin {c.id, d.id} /\ Fresh(c) /\ Fresh(d)
                  /\ ~(d.id # NoId /\ d.id <= high) /\ conn # "closed"
                  => c.n < d.n
            BY <1>1, <2>1, <2>3 DEF LogInv, Replayed
        <2>6. QED
            BY <1>2, <1>6, <2>4, <2>5 DEF LogInv, Replayed, Fresh
    <1>17. OwedInv'
        <2>1. /\ Delivered' = Delivered /\ InBuffer' = InBuffer /\ InReplay' = InReplay
            BY <1>2 DEF Delivered, InBuffer, InReplay
        <2>2. Awaiting = {d.n : d \in Committed} /\ Awaiting' = {d.n : d \in Committed'}
            <3>1. \A q \in Publishers : pending'[q] # Nothing => pending'[q][1] \in Committed'
                BY DEF Committed
            <3>2. QED
                BY <1>1, CommittedIs DEF Awaiting, Committed
        <2>3. Awaiting' = Awaiting \cup {e.n}
            BY <1>9, <2>2
        <2>4. \A d \in store' : d.n \notin issued'.again => d = e \/ (d \in store /\ Fresh(d))
            BY <1>2, <1>6 DEF Fresh
        <2>5. e.n \notin issued'.again
              => ~(e.id <= high) /\ \A r \in Range(replay) : ~(e.id <= r.id)
            <3>1. high \in Nat /\ high <= issued.top
                BY <1>1, <1>4 DEF RowsInv
            <3>2. \A r \in Range(replay) : r.id \in Nat /\ r.id <= issued.top
                BY <1>12 DEF Known
            <3>3. QED
                BY <1>3, <1>4, <1>5, <1>6, <3>1, <3>2
        <2>6. conn' \in {"replaying", "live"} =>
                \A d \in store' : d.n \notin issued'.again /\ d.id > after' =>
                   /\ d.n \in Delivered' \cup excused' \cup Awaiting' \cup InBuffer' \cup InReplay'
                   /\ (d.id <= high' \/ \E r \in Range(replay') : d.id <= r.id) =>
                          d.n \in Delivered' \cup InReplay'
            <3> SUFFICES ASSUME conn \in {"replaying", "live"},
                                NEW d \in store', d.n \notin issued'.again, d.id > after
                         PROVE  /\ d.n \in Delivered \cup excused \cup Awaiting' \cup InBuffer \cup InReplay
                                /\ (d.id <= high \/ \E r \in Range(replay) : d.id <= r.id) =>
                                       d.n \in Delivered \cup InReplay
                BY <1>2, <2>1
            <3>1. CASE d = e
                BY <2>3, <2>5, <3>1
            <3>2. CASE d # e
                BY <1>1, <2>3, <2>4, <3>2 DEF OwedInv
            <3>3. QED
                BY <3>1, <3>2
        <2>7. QED
            BY <1>1, <1>2, <2>1, <2>6 DEF OwedInv, Fresh
    <1>18. DeliveredOnce' /\ PublisherOrder'
        BY <1>1, <1>2, <1>6 DEF DeliveredOnce, PublisherOrder
    <1>19. QED
        BY <1>8, <1>11, <1>13, <1>14, <1>15, <1>16, <1>17, <1>18 DEF StreamInv

LEMMA DeleteKeeps ==
    ASSUME StreamInv, NEW p \in Publishers, DeleteGeneration(p)
    PROVE  StreamInv'
    <1>1. /\ EventsType /\ NumberInv /\ RowsInv /\ BufferInv /\ ReplayInv /\ LogInv /\ OwedInv
          /\ DeliveredOnce /\ PublisherOrder
        BY DEF StreamInv
    <1>2. /\ store' \subseteq store
          /\ UNCHANGED <<conn, buffer, replay, high, client, log, excused, after, offered>>
          /\ UNCHANGED <<written, pending, issued>>
        BY DEF DeleteGeneration, connection
    <1>3. EventsType'
        <2>1. IsFiniteSet(store')
            BY <1>1, <1>2, FS_Subset DEF EventsType
        <2>2. QED
            BY <1>1, <1>2, <2>1 DEF EventsType
    <1>4. Committed' = Committed /\ Awaiting' = Awaiting
        BY <1>2 DEF Committed, Awaiting
    <1>5. NumberInv'
        <2>1. Known' \subseteq Known
            BY <1>2, <1>4 DEF Known
        <2>2. QED
            BY <1>1, <1>2, <2>1, NumbersStay
    <1>6. RowsInv'
        BY <1>1, <1>2, <1>4 DEF RowsInv
    <1>7. BufferInv' /\ ReplayInv' /\ LogInv'
        BY <1>1, <1>2, <1>4 DEF BufferInv, ReplayInv, LogInv, Replayed, Coming, Delivered, Fresh
    <1>8. OwedInv'
        BY <1>1, <1>2, <1>4 DEF OwedInv, Delivered, InBuffer, InReplay, Fresh
    <1>9. DeliveredOnce' /\ PublisherOrder'
        BY <1>1, <1>2 DEF DeliveredOnce, PublisherOrder
    <1>10. QED
        BY <1>3, <1>5, <1>6, <1>7, <1>8, <1>9 DEF StreamInv

-----------------------------------------------------------------------------
(* The broker.                                                             *)

(* An event that comes after what its coroutine has queued and before what *)
(* it has committed is queued, excused or nobody is there.                 *)
LEMMA OfferKeeps ==
    ASSUME EventsType, BufferInv, NEW e \in EventType, Offer(e), Committed' \subseteq Committed,
           \A d \in Range(buffer) : d.n # e.n /\ (d.by = e.by => d.n < e.n),
           \A d \in Committed' : e.n # d.n /\ (e.by = d.by => e.n < d.n)
    PROVE  /\ BufferInv' /\ buffer' \in Seq(EventType)
           /\ Range(buffer') \subseteq Range(buffer) \cup {e}
           /\ InBuffer \subseteq InBuffer'
           /\ excused \subseteq excused' /\ excused' \subseteq excused \cup {e.n}
           /\ conn # "closed" => e.n \in InBuffer' \cup excused'
           /\ conn = "closed" => buffer' = buffer
    <1>1. buffer \in Seq(EventType)
        BY DEF EventsType
    <1>2. CASE Subscribed /\ HasRoom
        <2>1. buffer' = Append(buffer, e) /\ excused' = excused /\ conn # "closed"
            BY <1>2 DEF Offer, Subscribed
        <2>2. Len(buffer) \in Nat /\ DOMAIN buffer = 1 .. Len(buffer)
              /\ \A i \in 1 .. Len(buffer) : buffer[i] \in Range(buffer)
            BY <1>1, RangeIs
        <2>3. /\ buffer' \in Seq(EventType)
              /\ DOMAIN buffer' = 1 .. Len(buffer) + 1
              /\ \A i \in 1 .. Len(buffer) : buffer'[i] = buffer[i]
              /\ buffer'[Len(buffer) + 1] = e
              /\ Range(buffer') = Range(buffer) \cup {e}
            BY <1>1, <2>1, AppendIs
        <2>4. \A j, k \in DOMAIN buffer' : j < k =>
                  buffer'[j].n # buffer'[k].n /\ (buffer'[j].by = buffer'[k].by => buffer'[j].n < buffer'[k].n)
            <3> SUFFICES ASSUME NEW j \in DOMAIN buffer', NEW k \in DOMAIN buffer', j < k
                         PROVE  /\ buffer'[j].n # buffer'[k].n
                                /\ buffer'[j].by = buffer'[k].by => buffer'[j].n < buffer'[k].n
                OBVIOUS
            <3>1. j \in 1 .. Len(buffer)
                BY <2>2, <2>3
            <3>2. CASE k \in 1 .. Len(buffer)
                BY <2>2, <2>3, <3>1, <3>2 DEF BufferInv
            <3>3. CASE k = Len(buffer) + 1
                BY <2>2, <2>3, <3>1, <3>3
            <3>4. QED
                BY <2>2, <2>3, <3>2, <3>3
        <2>5. \A d \in Range(buffer') : \A c \in Committed' : d.n # c.n /\ (d.by = c.by => d.n < c.n)
            BY <2>3 DEF BufferInv
        <2>6. QED
            BY <2>1, <2>3, <2>4, <2>5 DEF BufferInv, InBuffer
    <1>3. CASE ~(Subscribed /\ HasRoom)
        <2>1. buffer' = buffer
            BY <1>3 DEF Offer
        <2>2. BufferInv'
            BY <2>1 DEF BufferInv
        <2>3. excused \subseteq excused' /\ excused' \subseteq excused \cup {e.n}
              /\ (conn # "closed" => e.n \in excused')
            BY <1>3 DEF Offer, Subscribed
        <2>4. QED
            BY <1>1, <2>1, <2>2, <2>3 DEF InBuffer
    <1>4. QED
        BY <1>2, <1>3

LEMMA PublishKeeps ==
    ASSUME StreamInv, NEW p \in Publishers, Publish(p)
    PROVE  StreamInv'
    <1>1. /\ EventsType /\ NumberInv /\ RowsInv /\ BufferInv /\ ReplayInv /\ LogInv /\ OwedInv
          /\ DeliveredOnce /\ PublisherOrder
        BY DEF StreamInv
    <1>2. pending[p] # Nothing
        BY DEF Publish
    <1>3. PICK e \in EventType : e = pending[p][1] /\ e \in Committed
        BY <1>1, <1>2, CommittedIs
    <1>4. /\ pending' = [pending EXCEPT ![p] = Nothing] /\ Offer(e)
          /\ UNCHANGED <<store, written, issued>>
        BY <1>3 DEF Publish, Offer
    <1>5. e.n \in Nat /\ e.id \in Nat /\ e.id # NoId /\ e.by = p
        BY <1>1, <1>2, <1>3 DEF RowsInv, EventType
    <1>6. UNCHANGED <<conn, replay, high, client, log, after, offered>>
        BY <1>4, <1>5 DEF Offer
    <1>7. /\ pending \in [Publishers -> {Nothing} \cup {<<d>> : d \in EventType}]
          /\ pending' \in [Publishers -> {Nothing} \cup {<<d>> : d \in EventType}]
          /\ pending'[p] = Nothing
          /\ \A q \in Publishers : q # p => pending'[q] = pending[q]
        BY <1>1, <1>4 DEF EventsType
    <1>8. /\ \A d \in Committed : d = e \/ d \in Committed'
          /\ \A d \in Committed' : d \in Committed /\ d.by # p
        <2>1. /\ Committed = {pending[q][1] : q \in {r \in Publishers : pending[r] # Nothing}}
              /\ Committed' = {pending'[q][1] : q \in {r \in Publishers : pending'[r] # Nothing}}
            BY DEF Committed
        <2>2. \A q \in Publishers : pending[q] # Nothing => pending[q][1].by = q
            BY <1>1 DEF RowsInv
        <2>3. QED
            BY <1>3, <1>7, <2>1, <2>2
    <1>9. /\ Committed' \subseteq Committed
          /\ \A d \in Committed' : e.n # d.n /\ (e.by = d.by => e.n < d.n)
        BY <1>1, <1>3, <1>5, <1>8 DEF NumberInv, Known
    <1>10. \A d \in Range(buffer) : d.n # e.n /\ (d.by = e.by => d.n < e.n)
        BY <1>1, <1>3 DEF BufferInv
    <1>11. /\ BufferInv' /\ buffer' \in Seq(EventType)
           /\ Range(buffer') \subseteq Range(buffer) \cup {e}
           /\ InBuffer \subseteq InBuffer'
           /\ excused \subseteq excused' /\ excused' \subseteq excused \cup {e.n}
           /\ conn # "closed" => e.n \in InBuffer' \cup excused'
           /\ conn = "closed" => buffer' = buffer
        BY <1>1, <1>4, <1>9, <1>10, OfferKeeps
    <1>12. EventsType'
        BY <1>1, <1>4, <1>5, <1>6, <1>7, <1>11 DEF EventsType
    <1>13. NumberInv'
        <2>1. Known' \subseteq Known
            BY <1>3, <1>4, <1>6, <1>9, <1>11 DEF Known
        <2>2. QED
            BY <1>1, <1>4, <1>6, <2>1, NumbersStay
    <1>14. RowsInv'
        <2>1. \A q \in Publishers : pending'[q] # Nothing => pending'[q][1].by = q
            BY <1>1, <1>7 DEF RowsInv
        <2>2. QED
            BY <1>1, <1>4, <1>6, <1>9, <2>1 DEF RowsInv
    <1>15. ReplayInv'
        BY <1>1, <1>6, <1>11 DEF ReplayInv, Replayed
    <1>16. LogInv'
        <2>1. Coming' \subseteq Coming
            BY <1>3, <1>9, <1>11 DEF Coming
        <2>2. QED
            BY <1>1, <1>4, <1>6, <2>1 DEF LogInv, Replayed, Delivered, Fresh
    <1>17. OwedInv'
        <2>1. Delivered' = Delivered /\ InReplay' = InReplay
            BY <1>6 DEF Delivered, InReplay
        <2>2. Awaiting \subseteq Awaiting' \cup {e.n}
            <3>1. Awaiting = {d.n : d \in Committed} /\ Awaiting' = {d.n : d \in Committed'}
                BY DEF Awaiting, Committed
            <3>2. QED
                BY <1>8, <3>1
        <2>3. QED
            BY <1>1, <1>4, <1>6, <1>11, <2>1, <2>2 DEF OwedInv, Fresh
    <1>18. DeliveredOnce' /\ PublisherOrder'
        BY <1>1, <1>4, <1>6 DEF DeliveredOnce, PublisherOrder
    <1>19. QED
        BY <1>11, <1>12, <1>13, <1>14, <1>15, <1>16, <1>17, <1>18 DEF StreamInv

LEMMA EphemeralKeeps ==
    ASSUME StreamInv, NEW p \in Publishers, PublishEphemeral(p)
    PROVE  StreamInv'
    <1>1. /\ EventsType /\ NumberInv /\ RowsInv /\ BufferInv /\ ReplayInv /\ LogInv /\ OwedInv
          /\ DeliveredOnce /\ PublisherOrder
        BY DEF StreamInv
    <1>2. written \in Nat /\ issued \in [top : Nat, again : SUBSET Nat] /\ offered \subseteq Nat
        BY <1>1 DEF EventsType
    <1>3. PICK e \in EventType : /\ e = [n |-> written + 1, id |-> NoId, by |-> p]
                                /\ e.n = written + 1 /\ e.id = NoId /\ e.by = p
        <2>1. [n |-> written + 1, id |-> NoId, by |-> p] \in EventType
            BY <1>2 DEF EventType, NoId
        <2>2. QED
            BY <2>1
    <1>4. /\ pending[p] = Nothing /\ Offer(e) /\ written' = e.n
          /\ UNCHANGED <<store, pending, issued>>
        BY <1>3 DEF PublishEphemeral
    <1>5. /\ UNCHANGED <<conn, replay, high, client, log, after>>
          /\ offered' = offered \/ (e.id = NoId /\ offered' = offered \cup {e.n})
          /\ conn = "closed" => offered' = offered
        BY <1>3, <1>4 DEF Offer, Subscribed
    <1>6. Committed' = Committed /\ Awaiting' = Awaiting
        BY <1>4 DEF Committed, Awaiting
    <1>7. \A d \in Known : d.n \in Nat /\ d.n <= written
        BY <1>1, KnownTyped DEF NumberInv
    <1>8. \A d \in Known : d.n # e.n /\ d.n < e.n
        BY <1>2, <1>3, <1>7
    <1>9. \A d \in Committed' : e.n # d.n /\ (e.by = d.by => e.n < d.n)
        <2>1. \A d \in Committed : d.by # p
            BY <1>1, <1>4, CommittedIs DEF RowsInv
        <2>2. QED
            BY <1>3, <1>6, <1>8, <2>1 DEF Known
    <1>10. /\ BufferInv' /\ buffer' \in Seq(EventType)
           /\ Range(buffer') \subseteq Range(buffer) \cup {e}
           /\ InBuffer \subseteq InBuffer'
           /\ excused \subseteq excused' /\ excused' \subseteq excused \cup {e.n}
           /\ conn # "closed" => e.n \in InBuffer' \cup excused'
           /\ conn = "closed" => buffer' = buffer
        <2>1. \A d \in Range(buffer) : d.n # e.n /\ (d.by = e.by => d.n < e.n)
            BY <1>8 DEF Known
        <2>2. QED
            BY <1>1, <1>4, <1>6, <1>9, <2>1, OfferKeeps
    <1>11. EventsType'
        <2>1. e.n \in Nat
            BY <1>2, <1>3
        <2>2. written' \in Nat /\ excused' \subseteq Nat /\ offered' \subseteq Nat
            BY <1>1, <1>2, <1>4, <1>5, <1>10, <2>1 DEF EventsType
        <2>3. QED
            BY <1>1, <1>4, <1>5, <1>10, <2>2 DEF EventsType
    <1>12. NumberInv'
        <2>1. Known' \subseteq Known \cup {e}
            BY <1>4, <1>5, <1>6, <1>10 DEF Known
        <2>2. /\ issued' \in [top : Nat, again : SUBSET Nat] /\ issued.top <= issued'.top
              /\ e.id <= issued'.top
              /\ issued.again \subseteq issued'.again /\ issued'.again \subseteq issued.again \cup {e.n}
              /\ e.n \notin issued'.again /\ e.id # NoId => issued.top < e.id
            BY <1>2, <1>3, <1>4 DEF NoId
        <2>3. QED
            BY <1>1, <1>3, <1>4, <1>5, <2>1, <2>2, NumbersGrow
    <1>13. RowsInv'
        BY <1>1, <1>4, <1>5, <1>6 DEF RowsInv
    <1>14. ReplayInv'
        BY <1>1, <1>5, <1>10 DEF ReplayInv, Replayed
    <1>15. LogInv'
        <2>1. Coming' \subseteq Coming \cup {e}
            BY <1>6, <1>10 DEF Coming
        <2>2. Delivered' = Delivered /\ e.n \notin Delivered
            BY <1>5, <1>8 DEF Delivered, Known
        <2>3. QED
            BY <1>1, <1>3, <1>4, <1>5, <2>1, <2>2 DEF LogInv, Replayed, Fresh
    <1>16. OwedInv'
        <2>1. Delivered' = Delivered /\ InReplay' = InReplay
            BY <1>5 DEF Delivered, InReplay
        <2>2. QED
            BY <1>1, <1>4, <1>5, <1>6, <1>10, <2>1 DEF OwedInv, Fresh
    <1>17. DeliveredOnce' /\ PublisherOrder'
        BY <1>1, <1>4, <1>5 DEF DeliveredOnce, PublisherOrder
    <1>18. QED
        BY <1>10, <1>11, <1>12, <1>13, <1>14, <1>15, <1>16, <1>17 DEF StreamInv

-----------------------------------------------------------------------------
(* The rows a connection is given.                                         *)

LEMMA OldestIs ==
    ASSUME NEW S, S \subseteq EventType, IsFiniteSet(S),
           \A d, e \in S : d.id = e.id => d = e
    PROVE  /\ Oldest(S) \in Seq(S)
           /\ Range(Oldest(S)) = S
           /\ \A j, k \in 1 .. Len(Oldest(S)) : j < k => Oldest(S)[j].id < Oldest(S)[k].id
    <1> DEFINE ids == {e.id : e \in S}
               at(k) == CHOOSE e \in S : UpTo(ids, e.id) = k
    <1>1. ids \subseteq Int /\ ids \subseteq Nat
        BY DEF EventType
    <1>2. IsFiniteSet(ids)
        <2> DEFINE f == [e \in S |-> e.id]
        <2>1. f \in [S -> ids] /\ \A i \in ids : \E e \in S : f[e] = i
            OBVIOUS
        <2>2. f \in Surjection(S, ids)
            BY <2>1 DEF Surjection
        <2> HIDE DEF f, ids
        <2>3. QED
            BY <2>2, FS_Surjection
    <1> DEFINE c == Cardinality(ids)
    <1>3. /\ c \in Nat
          /\ \A k \in ids : UpTo(ids, k) \in 1 .. c
          /\ \A k, l \in ids : k < l => UpTo(ids, k) < UpTo(ids, l)
          /\ \A p \in 1 .. c : \E k \in ids : UpTo(ids, k) = p
        <2> HIDE DEF ids
        <2>1. QED
            BY <1>1, <1>2, PlacesInOrder
    <1>4. \A e \in S : e.id \in ids
        OBVIOUS
    <1>5. \A p \in 1 .. c : \E e \in S : UpTo(ids, e.id) = p
        <2>1. \A k \in ids : \E e \in S : k = e.id
            OBVIOUS
        <2> HIDE DEF ids, c
        <2>2. QED
            BY <1>3, <2>1
    <1>6. Oldest(S) = [k \in 1 .. c |-> at(k)]
        BY DEF Oldest, UpTo
    <1> HIDE DEF ids, c
    <1>7. \A k \in 1 .. c : at(k) \in S /\ UpTo(ids, at(k).id) = k
        BY <1>5
    <1>8. \A e \in S : at(UpTo(ids, e.id)) = e
        <2> SUFFICES ASSUME NEW e \in S PROVE at(UpTo(ids, e.id)) = e
            OBVIOUS
        <2>1. PICK d \in S : d = at(UpTo(ids, e.id)) /\ UpTo(ids, d.id) = UpTo(ids, e.id)
            BY <1>3, <1>4, <1>7
        <2>2. d.id \in Nat /\ e.id \in Nat /\ d.id \in ids /\ e.id \in ids
            BY <1>1, <1>4, <2>1
        <2>3. UpTo(ids, d.id) \in Nat /\ UpTo(ids, e.id) \in Nat
            BY <1>3, <2>2
        <2>4. ~(d.id < e.id) /\ ~(e.id < d.id)
            BY <1>3, <2>1, <2>2, <2>3
        <2>5. d = e
            BY <2>1, <2>2, <2>4
        <2>6. QED
            BY <2>1, <2>5
    <1> HIDE DEF at
    <1>9. Oldest(S) \in [1 .. c -> S] /\ Oldest(S) \in Seq(S) /\ Len(Oldest(S)) = c
        BY <1>3, <1>6, <1>7
    <1>10. \A k \in 1 .. c : Oldest(S)[k] = at(k)
        BY <1>6
    <1>11. Range(Oldest(S)) = S
        <2>1. Range(Oldest(S)) = {Oldest(S)[k] : k \in 1 .. c}
            BY <1>9 DEF Range
        <2>2. \A e \in S : UpTo(ids, e.id) \in 1 .. c
            BY <1>3, <1>4
        <2>3. QED
            BY <1>7, <1>8, <1>10, <2>1, <2>2
    <1>12. ASSUME NEW j \in 1 .. c, NEW k \in 1 .. c, j < k
           PROVE  at(j).id < at(k).id
        <2>1. /\ at(j).id \in ids /\ at(k).id \in ids
              /\ UpTo(ids, at(j).id) = j /\ UpTo(ids, at(k).id) = k
            BY <1>4, <1>7
        <2>2. at(j).id \in Nat /\ at(k).id \in Nat /\ j \in Nat /\ k \in Nat
            <3>1. j \in Nat /\ k \in Nat
                OBVIOUS
            <3>2. QED
                BY <1>1, <2>1, <3>1
        <2>3. ~(at(k).id < at(j).id) /\ at(k).id # at(j).id
            BY <1>3, <1>12, <2>1, <2>2
        <2>4. QED
            BY <2>2, <2>3
    <1>13. QED
        BY <1>9, <1>10, <1>11, <1>12

(* Of the oldest rows past the id that was asked for, those the LIMIT      *)
(* leaves, in order; none that is left out is older than one that is kept. *)
LEMMA ReplayIs ==
    ASSUME EventsType, RowsInv, LoadReplay
    PROVE  /\ replay' \in Seq(EventType) /\ Range(replay') \subseteq store
           /\ \A e \in Range(replay') : after < e.id
           /\ \A j, k \in DOMAIN replay' : j < k => replay'[j].id < replay'[k].id
           /\ excused \subseteq excused' /\ excused' \subseteq Nat
           /\ \A e \in store : e.id > after => e \in Range(replay') \/ e.n \in excused'
           /\ \A e \in store : e.id > after /\ (\E r \in Range(replay') : e.id <= r.id)
                  => e \in Range(replay')
    <1> DEFINE S == {e \in store : e.id > after}
               c == IF Len(Oldest(S)) > ReplayLimit THEN ReplayLimit ELSE Len(Oldest(S))
    <1>1. store \subseteq EventType /\ IsFiniteSet(store) /\ after \in Nat /\ excused \subseteq Nat
        BY DEF EventsType
    <1>2. /\ S \subseteq store /\ IsFiniteSet(S) /\ S \subseteq EventType
          /\ \A d, e \in S : d.id = e.id => d = e
        BY <1>1, FS_Subset DEF RowsInv
    <1>3. \A e \in store : e.id \in Nat /\ e.n \in Nat /\ (e \in S <=> e.id > after)
        BY <1>1 DEF EventType
    <1>4. /\ replay' = SubSeq(Oldest(S), 1, c)
          /\ excused' = excused \cup {e.n : e \in Range(Oldest(S)) \ Range(SubSeq(Oldest(S), 1, c))}
        BY DEF LoadReplay
    <1> HIDE DEF S
    <1>5. PICK rows \in Seq(S) : /\ rows = Oldest(S) /\ Range(rows) = S
              /\ \A j, k \in 1 .. Len(rows) : j < k => rows[j].id < rows[k].id
        BY <1>2, OldestIs
    <1>6. PICK m \in Nat : m = c /\ m <= Len(rows)
        BY <1>5, EventLimitsAssumption, LenProperties
    <1>7. replay' = SubSeq(rows, 1, m) /\ excused' = excused \cup {e.n : e \in S \ Range(replay')}
        BY <1>4, <1>5, <1>6
    <1> HIDE DEF c
    <1>8. Len(rows) \in Nat /\ DOMAIN rows = 1 .. Len(rows) /\ \A i \in 1 .. Len(rows) : rows[i] \in S
        BY <1>5, LenProperties, ElementOfSeq
    <1>9. \A i \in 1 .. m : i \in 1 .. Len(rows)
        BY <1>6, <1>8
    <1>10. /\ replay' \in Seq(S) /\ Len(replay') = m /\ DOMAIN replay' = 1 .. m
           /\ \A i \in 1 .. m : replay'[i] = rows[i]
        <2>1. \A i \in 1 .. m : rows[i] \in S
            BY <1>8, <1>9
        <2>2. /\ SubSeq(rows, 1, m) \in Seq(S)
              /\ Len(SubSeq(rows, 1, m)) = IF 1 <= m THEN m - 1 + 1 ELSE 0
              /\ \A i \in 1 .. m - 1 + 1 : SubSeq(rows, 1, m)[i] = rows[1 + i - 1]
            BY <1>6, <2>1, SubSeqProperties
        <2>3. (IF 1 <= m THEN m - 1 + 1 ELSE 0) = m /\ m - 1 + 1 = m /\ \A i \in 1 .. m : 1 + i - 1 = i
            BY <1>6
        <2>4. QED
            BY <1>7, <2>2, <2>3, LenProperties
    <1>11. Range(replay') = {rows[i] : i \in 1 .. m}
        BY <1>10 DEF Range
    <1>12. \A j, k \in DOMAIN replay' : j < k => replay'[j].id < replay'[k].id
        BY <1>5, <1>9, <1>10
    <1>13. Range(replay') \subseteq S /\ replay' \in Seq(EventType)
        BY <1>2, <1>8, <1>9, <1>10, <1>11, SeqMonotonic
    <1>14. ASSUME NEW e \in S, NEW r \in Range(replay'), e.id <= r.id
           PROVE  e \in Range(replay')
        <2>1. PICK k \in 1 .. m : rows[k] = r
            BY <1>11
        <2>2. PICK j \in 1 .. Len(rows) : rows[j] = e
            BY <1>5, RangeIs
        <2>3. e.id \in Nat /\ r.id \in Nat
            BY <1>2, <1>3, <1>13
        <2>4. ~(k < j)
            BY <1>5, <1>9, <1>14, <2>1, <2>2, <2>3
        <2>5. j \in 1 .. m
            BY <1>6, <1>8, <2>4
        <2>6. QED
            BY <1>11, <2>2, <2>5
    <1>15. \A e \in Range(replay') : e \in store /\ after < e.id
        BY <1>1, <1>2, <1>3, <1>13
    <1>16. \A e \in store : e.id > after => e \in Range(replay') \/ e.n \in excused'
        BY <1>3, <1>7
    <1>17. excused' \subseteq Nat
        BY <1>1, <1>2, <1>3, <1>7
    <1>18. QED
        BY <1>3, <1>7, <1>12, <1>13, <1>14, <1>15, <1>16, <1>17

LEMMA LoadKeeps ==
    ASSUME StreamInv, LoadReplay
    PROVE  StreamInv'
    <1>1. /\ EventsType /\ NumberInv /\ RowsInv /\ BufferInv /\ ReplayInv /\ LogInv /\ OwedInv
          /\ DeliveredOnce /\ PublisherOrder
        BY DEF StreamInv
    <1>2. /\ conn = "subscribed" /\ conn' = "replaying"
          /\ UNCHANGED <<store, written, pending, buffer, high, client, log, after, offered, issued>>
        BY DEF LoadReplay
    <1>3. log = << >> /\ replay = << >> /\ high = after /\ high \in Nat
        BY <1>1, <1>2 DEF ReplayInv, EventsType
    <1>4. /\ replay' \in Seq(EventType) /\ Range(replay') \subseteq store
          /\ \A e \in Range(replay') : after < e.id
          /\ \A j, k \in DOMAIN replay' : j < k => replay'[j].id < replay'[k].id
          /\ excused \subseteq excused' /\ excused' \subseteq Nat
          /\ \A e \in store : e.id > after => e \in Range(replay') \/ e.n \in excused'
          /\ \A e \in store : e.id > after /\ (\E r \in Range(replay') : e.id <= r.id)
                 => e \in Range(replay')
        BY <1>1, ReplayIs
    <1>5. Committed' = Committed /\ Coming' = Coming
        BY <1>2 DEF Committed, Coming
    <1>6. Range(log) = {} /\ Delivered' = {} /\ DOMAIN log = {} /\ Delivered = {}
        BY <1>2, <1>3, NothingIn DEF Delivered
    <1>7. EventsType'
        BY <1>1, <1>2, <1>4 DEF EventsType
    <1>8. NumberInv'
        <2>1. Known' \subseteq Known
            BY <1>2, <1>4, <1>5 DEF Known
        <2>2. QED
            BY <1>1, <1>2, <2>1, NumbersStay
    <1>9. RowsInv'
        BY <1>1, <1>2, <1>4, <1>5 DEF RowsInv
    <1>10. BufferInv'
        BY <1>1, <1>2, <1>5 DEF BufferInv
    <1>11. ReplayInv'
        BY <1>2, <1>3, <1>4, <1>6 DEF ReplayInv
    <1>12. LogInv'
        BY <1>2, <1>6 DEF LogInv
    <1>13. OwedInv'
        <2>1. InBuffer' = InBuffer /\ InReplay' = {e.n : e \in Range(replay')}
            BY <1>2 DEF InBuffer, InReplay
        <2>2. \A e \in store : e.id > after =>
                 /\ e.n \in excused' \cup InReplay'
                 /\ (e.id <= high \/ \E r \in Range(replay') : e.id <= r.id) => e.n \in InReplay'
            <3> SUFFICES ASSUME NEW e \in store, e.id > after
                         PROVE  /\ e.n \in excused' \cup InReplay'
                                /\ (e.id <= high \/ \E r \in Range(replay') : e.id <= r.id) => e.n \in InReplay'
                OBVIOUS
            <3>1. ~(e.id <= high)
                <4>1. e.id \in Nat
                    BY <1>1 DEF EventsType, EventType
                <4>2. QED
                    BY <1>3, <4>1
            <3>2. QED
                BY <1>4, <2>1, <3>1
        <2>3. QED
            BY <1>1, <1>2, <1>4, <1>6, <2>1, <2>2 DEF OwedInv
    <1>14. DeliveredOnce' /\ PublisherOrder'
        BY <1>1, <1>2 DEF DeliveredOnce, PublisherOrder
    <1>15. QED
        BY <1>7, <1>8, <1>9, <1>10, <1>11, <1>12, <1>13, <1>14 DEF StreamInv

-----------------------------------------------------------------------------
(* The connection.                                                         *)

ClientType == [query : Nat, latest : Nat, seen : Nat]

LEMMA ClientIs ==
    ASSUME NEW c \in ClientType, NEW x \in Nat, NEW y \in Nat
    PROVE  /\ [c EXCEPT !.query = x, !.latest = y] \in ClientType
           /\ [c EXCEPT !.query = x, !.latest = y].query = x
           /\ [c EXCEPT !.query = x, !.latest = y].latest = y
           /\ [c EXCEPT !.query = x, !.latest = y].seen = c.seen
           /\ [c EXCEPT !.latest = x, !.seen = y] \in ClientType
           /\ [c EXCEPT !.latest = x, !.seen = y].query = c.query
           /\ [c EXCEPT !.latest = x, !.seen = y].latest = x
           /\ [c EXCEPT !.latest = x, !.seen = y].seen = y
    BY DEF ClientType

LEMMA ConnectKeeps ==
    ASSUME StreamInv, NEW fresh \in BOOLEAN, Connect(fresh)
    PROVE  StreamInv'
    <1>1. /\ EventsType /\ NumberInv /\ RowsInv /\ BufferInv /\ ReplayInv /\ LogInv /\ OwedInv
          /\ DeliveredOnce /\ PublisherOrder
        BY DEF StreamInv
    <1>2. /\ conn = "closed" /\ conn' = "subscribed"
          /\ buffer' = << >> /\ log' = << >> /\ excused' = {} /\ offered' = {}
          /\ UNCHANGED <<store, written, pending, replay, issued>>
          /\ client' = IF fresh THEN [client EXCEPT !.query = client.seen, !.latest = 0] ELSE client
          /\ after' = Larger(client'.query, client'.latest) /\ high' = after'
        BY DEF Connect
    <1>3. /\ client \in [query : Nat, latest : Nat, seen : Nat] /\ issued.top \in Nat
          /\ {client.query, client.latest, client.seen} \subseteq 0 .. issued.top
        BY <1>1 DEF EventsType, RowsInv
    <1>4. /\ client' \in [query : Nat, latest : Nat, seen : Nat]
          /\ client'.query \in 0 .. issued.top /\ client'.latest \in 0 .. issued.top
          /\ client'.seen \in 0 .. issued.top
        <2>1. client \in ClientType /\ client.seen \in Nat /\ 0 \in 0 .. issued.top
            BY <1>3 DEF ClientType
        <2>2. CASE fresh
            BY <1>2, <1>3, <2>1, <2>2, ClientIs DEF ClientType
        <2>3. CASE ~fresh
            BY <1>2, <1>3, <2>3
        <2>4. QED
            BY <2>2, <2>3
    <1>5. after' \in 0 .. issued.top /\ high' \in 0 .. issued.top /\ after' \in Nat /\ high' \in Nat
        BY <1>2, <1>3, <1>4 DEF Larger
    <1>6. Committed' = Committed /\ replay' = << >>
        BY <1>1, <1>2 DEF Committed, ReplayInv
    <1>7. /\ Range(buffer') = {} /\ Range(replay') = {} /\ Range(log') = {}
          /\ DOMAIN buffer' = {} /\ DOMAIN replay' = {} /\ DOMAIN log' = {}
        BY <1>2, <1>6, NothingIn
    <1>8. EventsType'
        <2>1. buffer' \in Seq(EventType) /\ log' \in Seq(EventType)
            BY <1>2
        <2>2. QED
            BY <1>1, <1>2, <1>4, <1>5, <2>1 DEF EventsType
    <1>9. NumberInv'
        <2>1. Known' \subseteq Known
            BY <1>2, <1>6, <1>7 DEF Known
        <2>2. QED
            BY <1>1, <1>2, <2>1, NumbersStay
    <1>10. RowsInv'
        BY <1>1, <1>2, <1>4, <1>5, <1>6, <1>7 DEF RowsInv
    <1>11. BufferInv' /\ ReplayInv' /\ LogInv'
        BY <1>2, <1>6, <1>7 DEF BufferInv, ReplayInv, LogInv, Delivered
    <1>12. OwedInv'
        BY <1>2 DEF OwedInv
    <1>13. DeliveredOnce' /\ PublisherOrder'
        BY <1>7 DEF DeliveredOnce, PublisherOrder
    <1>14. QED
        BY <1>8, <1>9, <1>10, <1>11, <1>12, <1>13 DEF StreamInv

LEMMA GoLiveKeeps ==
    ASSUME StreamInv, GoLive
    PROVE  StreamInv'
    <1>1. /\ EventsType /\ NumberInv /\ RowsInv /\ BufferInv /\ ReplayInv /\ LogInv /\ OwedInv
          /\ DeliveredOnce /\ PublisherOrder
        BY DEF StreamInv
    <1>2. /\ conn = "replaying" /\ replay = << >> /\ conn' = "live"
          /\ UNCHANGED <<store, written, pending, buffer, replay, high, client, log, excused,
                         after, offered, issued>>
        BY DEF GoLive
    <1>3. /\ Committed' = Committed /\ Coming' = Coming /\ Known' = Known /\ Awaiting' = Awaiting
          /\ Delivered' = Delivered /\ InBuffer' = InBuffer /\ InReplay' = InReplay
        BY <1>2 DEF Committed, Coming, Known, Awaiting, Delivered, InBuffer, InReplay
    <1>4. EventsType' /\ RowsInv' /\ BufferInv'
        BY <1>1, <1>2, <1>3 DEF EventsType, RowsInv, BufferInv
    <1>5. NumberInv'
        BY <1>1, <1>2, <1>3, NumbersStay
    <1>6. ReplayInv'
        BY <1>1, <1>2 DEF ReplayInv
    <1>7. LogInv'
        BY <1>1, <1>2, <1>3 DEF LogInv, Replayed, Fresh
    <1>8. OwedInv'
        BY <1>1, <1>2, <1>3 DEF OwedInv, Fresh
    <1>9. DeliveredOnce' /\ PublisherOrder'
        BY <1>1, <1>2 DEF DeliveredOnce, PublisherOrder
    <1>10. QED
        BY <1>4, <1>5, <1>6, <1>7, <1>8, <1>9 DEF StreamInv

LEMMA DisconnectKeeps ==
    ASSUME StreamInv, Disconnect
    PROVE  StreamInv'
    <1>1. /\ EventsType /\ NumberInv /\ RowsInv /\ BufferInv /\ ReplayInv /\ LogInv /\ OwedInv
          /\ DeliveredOnce /\ PublisherOrder
        BY DEF StreamInv
    <1>2. /\ conn' = "closed" /\ buffer' = << >> /\ replay' = << >>
          /\ UNCHANGED <<store, written, pending, high, client, log, excused, after, offered, issued>>
        BY DEF Disconnect
    <1>3. /\ Range(buffer') = {} /\ Range(replay') = {}
          /\ DOMAIN buffer' = {} /\ DOMAIN replay' = {}
        BY <1>2, NothingIn
    <1>4. Committed' = Committed
        BY <1>2 DEF Committed
    <1>5. EventsType'
        <2>1. buffer' \in Seq(EventType) /\ replay' \in Seq(EventType)
            BY <1>2
        <2>2. QED
            BY <1>1, <1>2, <2>1 DEF EventsType
    <1>6. NumberInv'
        <2>1. Known' \subseteq Known
            BY <1>2, <1>3, <1>4 DEF Known
        <2>2. QED
            BY <1>1, <1>2, <2>1, NumbersStay
    <1>7. RowsInv' /\ BufferInv'
        BY <1>1, <1>2, <1>3, <1>4 DEF RowsInv, BufferInv
    <1>8. ReplayInv' /\ LogInv' /\ OwedInv'
        BY <1>2, <1>3 DEF ReplayInv, LogInv, OwedInv
    <1>9. DeliveredOnce' /\ PublisherOrder'
        BY <1>1, <1>2 DEF DeliveredOnce, PublisherOrder
    <1>10. QED
        BY <1>5, <1>6, <1>7, <1>8, <1>9 DEF StreamInv

-----------------------------------------------------------------------------
(* What is sent.                                                           *)

(* An event that is sent: what is logged, and what the browser remembers.  *)
LEMMA DeliverIs ==
    ASSUME EventsType, RowsInv, NEW e \in EventType, e.id <= issued.top, Deliver(e)
    PROVE  /\ log' \in Seq(EventType) /\ Range(log') = Range(log) \cup {e}
           /\ Delivered' = Delivered \cup {e.n}
           /\ client' \in [query : Nat, latest : Nat, seen : Nat]
           /\ {client'.query, client'.latest, client'.seen} \subseteq 0 .. issued.top
    <1>1. log \in Seq(EventType) /\ client \in ClientType /\ e.id \in Nat /\ issued.top \in Nat
        BY DEF EventsType, ClientType, EventType
    <1>2. log' = Append(log, e)
        BY DEF Deliver
    <1>3. log' \in Seq(EventType) /\ Range(log') = Range(log) \cup {e}
        BY <1>1, <1>2, AppendIs
    <1>4. {client.query, client.latest, client.seen} \subseteq 0 .. issued.top
        BY DEF RowsInv
    <1>5. client' \in ClientType /\ {client'.query, client'.latest, client'.seen} \subseteq 0 .. issued.top
        <2>1. CASE e.id = NoId
            <3>1. client' = client
                BY <2>1 DEF Deliver
            <3>2. QED
                BY <1>1, <1>4, <3>1
        <2>2. CASE e.id # NoId
            <3>1. PICK y \in Nat : y = Larger(client.seen, e.id) /\ y <= issued.top
                BY <1>1, <1>4 DEF Larger
            <3>2. client' = [client EXCEPT !.latest = e.id, !.seen = y]
                BY <2>2, <3>1 DEF Deliver
            <3>3. client' \in ClientType /\ client'.query = client.query /\ client'.latest = e.id
                  /\ client'.seen = y
                BY <1>1, <3>1, <3>2, ClientIs DEF ClientType
            <3>4. QED
                BY <1>1, <1>4, <3>1, <3>3
        <2>3. QED
            BY <2>1, <2>2
    <1>6. QED
        BY <1>3, <1>5 DEF Delivered, ClientType

(* The log stays without duplicates and in the order of each coroutine.    *)
LEMMA LogGrows ==
    ASSUME EventsType, DeliveredOnce, PublisherOrder, NEW e \in EventType, Deliver(e),
           issued' = issued,
           e.n \notin Delivered,
           \A d \in Range(log) :
               d.by = e.by /\ NoId \notin {d.id, e.id} /\ Fresh(d) /\ Fresh(e) => d.n < e.n
    PROVE  DeliveredOnce' /\ PublisherOrder'
    <1>1. log \in Seq(EventType) /\ log' = Append(log, e)
        BY DEF EventsType, Deliver
    <1>2. /\ Len(log) \in Nat /\ DOMAIN log = 1 .. Len(log)
          /\ \A i \in 1 .. Len(log) : log[i] \in Range(log)
        BY <1>1, RangeIs
    <1>3. /\ DOMAIN log' = 1 .. Len(log) + 1
          /\ \A i \in 1 .. Len(log) : log'[i] = log[i]
          /\ log'[Len(log) + 1] = e
        BY <1>1, AppendIs
    <1>4. \A i \in 1 .. Len(log) + 1 : i \in 1 .. Len(log) \/ i = Len(log) + 1
        BY <1>2
    <1>5. \A i \in 1 .. Len(log) : log[i].n # e.n
        BY <1>2 DEF Delivered
    <1>6. DeliveredOnce'
        BY <1>2, <1>3, <1>4, <1>5 DEF DeliveredOnce
    <1>7. ASSUME NEW j \in 1 .. Len(log) + 1, NEW k \in 1 .. Len(log) + 1,
                 j < k, log'[j].by = log'[k].by, NoId \notin {log'[j].id, log'[k].id},
                 {log'[j].n, log'[k].n} \cap issued.again = {}
          PROVE  log'[j].n < log'[k].n
        <2>1. j \in 1 .. Len(log)
            BY <1>2, <1>7
        <2>2. CASE k \in 1 .. Len(log)
            BY <1>2, <1>3, <1>7, <2>1, <2>2 DEF PublisherOrder
        <2>3. CASE k = Len(log) + 1
            BY <1>2, <1>3, <1>7, <2>1, <2>3 DEF Fresh
        <2>4. QED
            BY <1>4, <2>2, <2>3
    <1>8. PublisherOrder'
        BY <1>3, <1>7 DEF PublisherOrder
    <1>9. QED
        BY <1>6, <1>8

LEMMA SendReplayKeeps ==
    ASSUME StreamInv, SendReplay
    PROVE  StreamInv'
    <1>1. /\ EventsType /\ NumberInv /\ RowsInv /\ BufferInv /\ ReplayInv /\ LogInv /\ OwedInv
          /\ DeliveredOnce /\ PublisherOrder
        BY DEF StreamInv
    <1>2. replay \in Seq(EventType) /\ replay # << >> /\ conn = "replaying"
        BY <1>1 DEF EventsType, SendReplay
    <1>3. PICK h \in EventType : h = Head(replay)
        BY <1>2, TailIs
    <1>4. /\ Deliver(h) /\ high' = Larger(high, h.id) /\ replay' = Tail(replay)
          /\ UNCHANGED <<store, written, pending, conn, buffer, excused, after, offered, issued>>
        BY <1>3 DEF SendReplay, Deliver
    <1>5. /\ h \in Range(replay) /\ replay' \in Seq(EventType)
          /\ 1 \in DOMAIN replay /\ h = replay[1]
          /\ \A j \in DOMAIN replay' : j + 1 \in DOMAIN replay /\ replay'[j] = replay[j + 1] /\ j \in Nat
                                        /\ 1 < j + 1
          /\ Range(replay) = {h} \cup Range(replay')
        BY <1>2, <1>3, <1>4, TailIs
    <1>6. /\ \A e \in Known : e.n \in Nat /\ e.id \in Nat /\ e.id <= issued.top
          /\ h \in Known /\ issued.top \in Nat /\ high \in Nat
        BY <1>1, <1>5, KnownTyped DEF NumberInv, Known, EventsType
    <1>7. high < h.id /\ h.id # NoId /\ h.id \in Nat /\ high' = h.id /\ h.id <= issued.top
        BY <1>1, <1>2, <1>4, <1>5, <1>6 DEF ReplayInv, RowsInv, Larger
    <1>8. /\ log' \in Seq(EventType) /\ Range(log') = Range(log) \cup {h}
          /\ Delivered' = Delivered \cup {h.n}
          /\ client' \in [query : Nat, latest : Nat, seen : Nat]
          /\ {client'.query, client'.latest, client'.seen} \subseteq 0 .. issued.top
        BY <1>1, <1>4, <1>7, DeliverIs
    <1>9. Committed' = Committed /\ Coming' = Coming /\ Awaiting' = Awaiting /\ InBuffer' = InBuffer
        BY <1>4 DEF Committed, Coming, Awaiting, InBuffer
    <1>10. EventsType'
        BY <1>1, <1>4, <1>5, <1>7, <1>8 DEF EventsType
    <1>11. NumberInv'
        <2>1. Known' \subseteq Known
            BY <1>4, <1>5, <1>8, <1>9 DEF Known
        <2>2. QED
            BY <1>1, <1>4, <2>1, NumbersStay
    <1>12. RowsInv'
        <2>1. high' \in 0 .. issued.top
            BY <1>6, <1>7
        <2>2. QED
            BY <1>1, <1>4, <1>5, <1>8, <1>9, <2>1 DEF RowsInv
    <1>13. BufferInv'
        BY <1>1, <1>4, <1>9 DEF BufferInv
    <1>14. \A e \in Range(log) : e.id # NoId /\ e.id <= high /\ e \in Known
        BY <1>1, <1>2 DEF ReplayInv, Replayed, Known
    <1>15. ReplayInv'
        <2>1. \A j, k \in DOMAIN replay' : j < k => replay'[j].id < replay'[k].id
            <3>1. \A j, k \in DOMAIN replay' : j < k => j + 1 < k + 1
                BY <1>5
            <3>2. QED
                BY <1>1, <1>5, <3>1 DEF ReplayInv
        <2>2. \A e \in Range(replay') : high' < e.id
            <3>1. ASSUME NEW e \in Range(replay') PROVE h.id < e.id
                <4>1. PICK j \in DOMAIN replay' : replay'[j] = e
                    BY <1>5, RangeIs
                <4>2. QED
                    BY <1>1, <1>5, <4>1 DEF ReplayInv
            <3>2. QED
                BY <1>7, <3>1
        <2>3. \A e \in Range(log') : e.id # NoId /\ e.id <= high'
            BY <1>6, <1>7, <1>8, <1>14
        <2>4. QED
            BY <1>2, <1>4, <2>1, <2>2, <2>3 DEF ReplayInv, Replayed
    <1>16. \A e \in Known : e.n = h.n => e = h
        BY <1>1, <1>6 DEF NumberInv
    <1>17. LogInv'
        <2>1. \A e \in Coming : e \in Known
            BY DEF Coming, Known
        <2>2. \A e \in Coming : e.n \in Delivered \cup {h.n} => e.id # NoId /\ e.id <= high'
            <3> SUFFICES ASSUME NEW e \in Coming, e.n \in Delivered \cup {h.n}
                         PROVE  e.id # NoId /\ e.id <= high'
                OBVIOUS
            <3>1. CASE e.n = h.n
                BY <1>7, <1>16, <2>1, <3>1
            <3>2. CASE e.n \in Delivered
                <4>1. e.id # NoId /\ e.id <= high
                    BY <1>1, <1>2, <3>2 DEF LogInv, Replayed
                <4>2. QED
                    BY <1>6, <1>7, <2>1, <4>1
            <3>3. QED
                BY <3>1, <3>2
        <2>3. \A d \in Range(log) \cup {h} : \A e \in Coming :
                  /\ d.by = e.by /\ NoId \notin {d.id, e.id} /\ Fresh(d) /\ Fresh(e)
                  /\ ~(e.id <= high')
                  => d.n < e.n
            <3> SUFFICES ASSUME NEW d \in Range(log) \cup {h}, NEW e \in Coming,
                                d.by = e.by, NoId \notin {d.id, e.id}, Fresh(d), Fresh(e),
                                ~(e.id <= high')
                         PROVE  d.n < e.n
                OBVIOUS
            <3>1. e.id \in Nat /\ e.n \in Nat /\ h.n \in Nat /\ ~(e.id <= high)
                BY <1>6, <1>7, <2>1
            <3>2. CASE d \in Range(log)
                BY <1>1, <1>2, <3>1, <3>2 DEF LogInv, Replayed
            <3>3. CASE d = h
                <4>1. e.n # h.n
                    BY <1>7, <1>16, <2>1, <3>1
                <4>2. ~(e.n < h.n)
                    <5>1. e.n < h.n => e.id < h.id
                        BY <1>1, <1>6, <1>7, <2>1, <3>3 DEF NumberInv
                    <5>2. QED
                        BY <1>7, <3>1, <5>1
                <4>3. QED
                    BY <3>1, <3>3, <4>1, <4>2
            <3>4. QED
                BY <3>2, <3>3
        <2>4. QED
            BY <1>4, <1>8, <1>9, <2>2, <2>3 DEF LogInv, Replayed, Fresh
    <1>18. OwedInv'
        <2>1. InReplay = InReplay' \cup {h.n}
            BY <1>5 DEF InReplay
        <2>2. Delivered' \cup InReplay' = Delivered \cup InReplay
            BY <1>8, <2>1
        <2>3. \A e \in store :
                 e.id <= high' \/ (\E r \in Range(replay') : e.id <= r.id)
                 => e.id <= high \/ \E r \in Range(replay) : e.id <= r.id
            BY <1>5, <1>7
        <2>4. \A n : n \in Delivered' \cup InReplay' <=> n \in Delivered \cup InReplay
            BY <2>2
        <2>5. \A n : /\ n \in Delivered => n \in Delivered'
                     /\ n \in InReplay => n \in Delivered' \cup InReplay'
            BY <1>8, <2>4
        <2>6. offered' \subseteq Delivered' \cup excused' \cup InBuffer'
            BY <1>1, <1>2, <1>4, <1>9, <2>5 DEF OwedInv
        <2>7. ASSUME NEW e \in store, e.n \notin issued.again, e.id > after
              PROVE  /\ e.n \in Delivered' \cup excused \cup Awaiting \cup InBuffer \cup InReplay'
                     /\ (e.id <= high' \/ \E r \in Range(replay') : e.id <= r.id) =>
                            e.n \in Delivered' \cup InReplay'
            <3>1. /\ e.n \in Delivered \cup excused \cup Awaiting \cup InBuffer \cup InReplay
                  /\ (e.id <= high \/ \E r \in Range(replay) : e.id <= r.id) =>
                         e.n \in Delivered \cup InReplay
                BY <1>1, <1>2, <2>7 DEF OwedInv, Fresh
            <3>2. QED
                BY <2>3, <2>4, <2>5, <3>1
        <2>8. QED
            BY <1>2, <1>4, <1>9, <2>6, <2>7 DEF OwedInv, Fresh
    <1>19. DeliveredOnce' /\ PublisherOrder'
        <2>1. h.n \notin Delivered
            <3>1. \A e \in Range(log) : e.n # h.n
                BY <1>6, <1>7, <1>14, <1>16
            <3>2. QED
                BY <3>1 DEF Delivered
        <2>2. \A d \in Range(log) : Fresh(d) => d.n < h.n
            <3> SUFFICES ASSUME NEW d \in Range(log), Fresh(d) PROVE d.n < h.n
                OBVIOUS
            <3>1. d \in Known /\ d.id # NoId /\ d.id <= high /\ d.id \in Nat /\ d.n \in Nat /\ h.n \in Nat
                BY <1>6, <1>14
            <3>2. d.n # h.n
                BY <2>1 DEF Delivered
            <3>3. h.n < d.n => h.id < d.id
                BY <1>1, <1>6, <3>1 DEF NumberInv
            <3>4. QED
                BY <1>6, <1>7, <3>1, <3>2, <3>3
        <2>3. \A d \in Range(log) :
                  d.by = h.by /\ NoId \notin {d.id, h.id} /\ Fresh(d) /\ Fresh(h) => d.n < h.n
            BY <2>2
        <2>4. issued' = issued
            BY <1>4
        <2>5. QED
            BY <1>1, <1>3, <1>4, <2>1, <2>3, <2>4, LogGrows
    <1>20. QED
        BY <1>10, <1>11, <1>12, <1>13, <1>15, <1>17, <1>18, <1>19 DEF StreamInv

LEMMA SendLiveKeeps ==
    ASSUME StreamInv, SendLive
    PROVE  StreamInv'
    <1>1. /\ EventsType /\ NumberInv /\ RowsInv /\ BufferInv /\ ReplayInv /\ LogInv /\ OwedInv
          /\ DeliveredOnce /\ PublisherOrder
        BY DEF StreamInv
    <1>2. /\ buffer \in Seq(EventType) /\ buffer # << >> /\ conn = "live"
          /\ replay = << >> /\ Range(replay) = {}
        BY <1>1, NothingIn DEF EventsType, SendLive, ReplayInv
    <1>3. PICK h \in EventType : h = Head(buffer)
        BY <1>2, TailIs
    <1>4. /\ buffer' = Tail(buffer)
          /\ UNCHANGED <<store, written, pending, conn, replay, high, excused, after, offered, issued>>
          /\ Replayed(h) => UNCHANGED <<log, client>>
          /\ ~Replayed(h) => Deliver(h)
        BY <1>3 DEF SendLive, Deliver
    <1>5. /\ h \in Range(buffer) /\ buffer' \in Seq(EventType)
          /\ 1 \in DOMAIN buffer /\ h = buffer[1]
          /\ \A j \in DOMAIN buffer' : j + 1 \in DOMAIN buffer /\ buffer'[j] = buffer[j + 1] /\ j \in Nat
                                        /\ 1 < j + 1
          /\ Range(buffer) = {h} \cup Range(buffer')
        BY <1>2, <1>3, <1>4, TailIs
    <1>6. /\ \A e \in Known : e.n \in Nat /\ e.id \in Nat /\ e.id <= issued.top
          /\ h \in Known
        BY <1>1, <1>5, KnownTyped DEF NumberInv, Known
    <1>7. Committed' = Committed /\ Awaiting' = Awaiting /\ InReplay' = {} /\ InReplay = {}
        BY <1>2, <1>4, NothingIn DEF Committed, Awaiting, InReplay
    <1>8. InBuffer = InBuffer' \cup {h.n}
        BY <1>5 DEF InBuffer
    \* What waits behind it is another event, and later if of the same coroutine.
    <1>9. \A e \in Coming' : e \in Coming /\ h.n # e.n /\ (h.by = e.by => h.n < e.n)
        <2>1. \A e \in Range(buffer') : h.n # e.n /\ (h.by = e.by => h.n < e.n)
            <3>1. ASSUME NEW e \in Range(buffer') PROVE h.n # e.n /\ (h.by = e.by => h.n < e.n)
                <4>1. PICK j \in DOMAIN buffer' : buffer'[j] = e
                    BY <1>5, RangeIs
                <4>2. QED
                    BY <1>1, <1>5, <4>1 DEF BufferInv
            <3>2. QED
                BY <3>1
        <2>2. \A e \in Committed : h.n # e.n /\ (h.by = e.by => h.n < e.n)
            BY <1>1, <1>5 DEF BufferInv
        <2>3. QED
            BY <1>5, <1>7, <2>1, <2>2 DEF Coming
    <1>10. BufferInv'
        <2>1. \A j, k \in DOMAIN buffer' : j < k =>
                  buffer'[j].n # buffer'[k].n /\ (buffer'[j].by = buffer'[k].by => buffer'[j].n < buffer'[k].n)
            <3>1. \A j, k \in DOMAIN buffer' : j < k => j + 1 < k + 1
                BY <1>5
            <3>2. QED
                BY <1>1, <1>5, <3>1 DEF BufferInv
        <2>2. QED
            BY <1>1, <1>5, <1>7, <2>1 DEF BufferInv
    <1>11. ReplayInv'
        BY <1>1, <1>2, <1>4 DEF ReplayInv
    <1>12. /\ log' \in Seq(EventType) /\ Range(log') \subseteq Range(log) \cup {h}
           /\ ~Replayed(h) => Range(log') = Range(log) \cup {h} /\ Delivered' = Delivered \cup {h.n}
           /\ Replayed(h) => Range(log') = Range(log) /\ Delivered' = Delivered
           /\ client' \in [query : Nat, latest : Nat, seen : Nat]
           /\ {client'.query, client'.latest, client'.seen} \subseteq 0 .. issued.top
        <2>1. CASE Replayed(h)
            BY <1>1, <1>4, <2>1 DEF EventsType, RowsInv, Delivered
        <2>2. CASE ~Replayed(h)
            BY <1>1, <1>4, <1>6, <2>2, DeliverIs
        <2>3. QED
            BY <2>1, <2>2
    <1>13. EventsType'
        BY <1>1, <1>4, <1>5, <1>12 DEF EventsType
    <1>14. NumberInv'
        <2>1. Known' \subseteq Known
            BY <1>4, <1>5, <1>7, <1>12 DEF Known
        <2>2. QED
            BY <1>1, <1>4, <2>1, NumbersStay
    <1>15. RowsInv'
        BY <1>1, <1>4, <1>7, <1>12 DEF RowsInv
    <1>16. LogInv'
        <2>1. \A e \in Coming' : e.n \in Delivered' => e.id # NoId /\ e.id <= high
            BY <1>1, <1>2, <1>9, <1>12 DEF LogInv, Replayed
        <2>2. \A d \in Range(log') : \A e \in Coming' :
                  /\ d.by = e.by /\ NoId \notin {d.id, e.id} /\ Fresh(d) /\ Fresh(e)
                  /\ ~(e.id # NoId /\ e.id <= high)
                  => d.n < e.n
            <3> SUFFICES ASSUME NEW d \in Range(log'), NEW e \in Coming',
                                d.by = e.by, NoId \notin {d.id, e.id}, Fresh(d), Fresh(e),
                                ~(e.id # NoId /\ e.id <= high)
                         PROVE  d.n < e.n
                OBVIOUS
            <3>1. CASE d = h
                BY <1>9, <3>1
            <3>2. CASE d \in Range(log)
                BY <1>1, <1>2, <1>9, <3>2 DEF LogInv, Replayed
            <3>3. QED
                BY <1>12, <3>1, <3>2
        <2>3. QED
            BY <1>4, <2>1, <2>2 DEF LogInv, Replayed, Fresh
    <1>17. OwedInv'
        <2>1. \A n : n \in Delivered => n \in Delivered'
            BY <1>12
        <2>2. h.n \in offered => h.n \in Delivered'
            <3>1. h.n \in offered => ~Replayed(h)
                BY <1>1, <1>6 DEF NumberInv, Replayed
            <3>2. QED
                BY <1>12, <3>1
        <2>3. offered' \subseteq Delivered' \cup excused' \cup InBuffer'
            BY <1>1, <1>2, <1>4, <1>8, <2>1, <2>2 DEF OwedInv
        <2>4. ASSUME NEW e \in store, e.n \notin issued.again, e.id > after
              PROVE  /\ e.n \in Delivered' \cup excused \cup Awaiting \cup InBuffer' \cup InReplay'
                     /\ e.id <= high => e.n \in Delivered' \cup InReplay'
            <3>1. /\ e.n \in Delivered \cup excused \cup Awaiting \cup InBuffer \cup InReplay
                  /\ e.id <= high => e.n \in Delivered \cup InReplay
                BY <1>1, <1>2, <2>4 DEF OwedInv, Fresh
            <3>2. e.n = h.n => e.n \in Delivered'
                <4>1. e.n = h.n => e = h
                    BY <1>1, <1>6 DEF NumberInv, Known
                <4>2. CASE Replayed(h)
                    BY <1>7, <2>1, <3>1, <4>1, <4>2 DEF Replayed
                <4>3. CASE ~Replayed(h)
                    BY <1>12, <4>3
                <4>4. QED
                    BY <4>2, <4>3
            <3>3. QED
                BY <1>7, <1>8, <2>1, <3>1, <3>2
        <2>5. QED
            BY <1>2, <1>4, <1>7, <2>3, <2>4 DEF OwedInv, Fresh
    <1>18. DeliveredOnce' /\ PublisherOrder'
        <2>1. CASE Replayed(h)
            BY <1>1, <1>4, <2>1 DEF DeliveredOnce, PublisherOrder
        <2>2. CASE ~Replayed(h)
            <3>1. h \in Coming
                BY <1>5 DEF Coming
            <3>2. h.n \notin Delivered
                BY <1>1, <1>2, <2>2, <3>1 DEF LogInv
            <3>3. \A d \in Range(log) :
                      d.by = h.by /\ NoId \notin {d.id, h.id} /\ Fresh(d) /\ Fresh(h) => d.n < h.n
                BY <1>1, <1>2, <2>2, <3>1 DEF LogInv
            <3>4. issued' = issued
                BY <1>4
            <3>5. QED
                BY <1>1, <1>3, <1>4, <2>2, <3>2, <3>3, <3>4, LogGrows
        <2>3. QED
            BY <2>1, <2>2
    <1>19. QED
        BY <1>10, <1>11, <1>13, <1>14, <1>15, <1>16, <1>17, <1>18 DEF StreamInv

-----------------------------------------------------------------------------
LEMMA StreamInitially == EventsInit => StreamInv
    <1> SUFFICES ASSUME EventsInit PROVE StreamInv
        OBVIOUS
    <1>1. /\ store = {} /\ written = 0 /\ pending = [p \in Publishers |-> Nothing]
          /\ conn = "closed" /\ buffer = << >> /\ replay = << >> /\ high = 0 /\ after = 0
          /\ client = [query |-> 0, latest |-> 0, seen |-> 0]
          /\ log = << >> /\ excused = {} /\ offered = {}
          /\ issued = [top |-> 0, again |-> {}]
        BY DEF EventsInit
    <1>2. /\ Range(buffer) = {} /\ Range(replay) = {} /\ Range(log) = {}
          /\ DOMAIN buffer = {} /\ DOMAIN replay = {} /\ DOMAIN log = {}
        BY <1>1, NothingIn
    <1>3. Committed = {}
        BY <1>1 DEF Committed
    <1>4. Known = {}
        BY <1>1, <1>2, <1>3 DEF Known
    <1>5. EventsType
        <2>1. IsFiniteSet(store)
            BY <1>1, FS_EmptySet
        <2>2. buffer \in Seq(EventType) /\ replay \in Seq(EventType) /\ log \in Seq(EventType)
            BY <1>1
        <2>3. QED
            BY <1>1, <2>1, <2>2 DEF EventsType
    <1>6. NumberInv
        BY <1>1, <1>4 DEF NumberInv
    <1>7. RowsInv
        BY <1>1, <1>2, <1>3 DEF RowsInv
    <1>8. BufferInv /\ ReplayInv /\ LogInv /\ OwedInv
        BY <1>1, <1>2, <1>3 DEF BufferInv, ReplayInv, LogInv, OwedInv
    <1>9. DeliveredOnce /\ PublisherOrder
        BY <1>2 DEF DeliveredOnce, PublisherOrder
    <1>10. QED
        BY <1>5, <1>6, <1>7, <1>8, <1>9 DEF StreamInv

LEMMA StreamInductive == StreamInv /\ [EventsNext]_eventVars => StreamInv'
    <1> SUFFICES ASSUME StreamInv, [EventsNext]_eventVars PROVE StreamInv'
        OBVIOUS
    <1>1. ASSUME NEW p \in Publishers,
                 CommitEvent(p) \/ DeleteGeneration(p) \/ Publish(p) \/ PublishEphemeral(p)
          PROVE  StreamInv'
        BY <1>1, CommitKeeps, DeleteKeeps, PublishKeeps, EphemeralKeeps
    <1>2. ASSUME NEW fresh \in BOOLEAN, Connect(fresh) PROVE StreamInv'
        BY <1>2, ConnectKeeps
    <1>3. CASE LoadReplay
        BY <1>3, LoadKeeps
    <1>4. CASE SendReplay
        BY <1>4, SendReplayKeeps
    <1>5. CASE GoLive
        BY <1>5, GoLiveKeeps
    <1>6. CASE SendLive
        BY <1>6, SendLiveKeeps
    <1>7. CASE Disconnect
        BY <1>7, DisconnectKeeps
    <1>8. CASE UNCHANGED eventVars
        BY <1>8 DEF eventVars, StreamInv, EventsType, NumberInv, RowsInv, BufferInv, ReplayInv, LogInv,
                    OwedInv, DeliveredOnce, PublisherOrder, Known, Committed, Fresh, Replayed, Coming,
                    Delivered, InBuffer, InReplay, Awaiting
    <1>9. QED
        BY <1>1, <1>2, <1>3, <1>4, <1>5, <1>6, <1>7, <1>8 DEF EventsNext

(* In every behaviour of the stream events are numbered, queued, replayed  *)
(* and skipped as StreamInv says.                                          *)
THEOREM StreamInvariance == EventsSpec => []StreamInv
    BY StreamInitially, StreamInductive, PTL DEF EventsSpec

(* A connection delivers no event twice (the subscription that precedes    *)
(* the replay makes some arrive twice, the high-water mark drops them),    *)
(* the rows of a coroutine arrive as it committed them, and a stream that  *)
(* has caught up has lost none but for a full queue, a replay that was cut *)
(* off or an id SQLite gave out again.                                     *)
THEOREM EventsDoArrive == EventsSpec => []EventsArrive
    <1>1. StreamInv => EventsArrive
        <2> SUFFICES ASSUME StreamInv PROVE EventsArrive
            OBVIOUS
        <2>1. OwedInv /\ ReplayInv /\ DeliveredOnce /\ PublisherOrder
            BY DEF StreamInv
        <2>2. ASSUME conn = "live", buffer = << >>
              PROVE  /\ \A e \in store : Fresh(e) /\ e.id > after =>
                             e.n \in Delivered \cup excused \cup Awaiting
                     /\ offered \subseteq Delivered \cup excused
            <3>1. InBuffer = {} /\ InReplay = {}
                BY <2>1, <2>2, NothingIn DEF InBuffer, InReplay, ReplayInv
            <3>2. QED
                BY <2>1, <2>2, <3>1 DEF OwedInv
        <2>3. NoneLost
            BY <2>2 DEF NoneLost, CaughtUp, Fresh
        <2>4. QED
            BY <2>1, <2>3 DEF EventsArrive
    <1>2. QED
        BY <1>1, StreamInvariance, PTL

-----------------------------------------------------------------------------
(* The composition of a prompt.                                            *)
Codes == {"open", "answered", "generate_error", "declined", "invalid_response",
          "output_budget_exhausted", "prompt_refinement_unchanged",
          "prompt_creation_unchanged", "vision_check_invalid_response"}

(* Excludes, written for the three modes.                                  *)
Kept ==
    /\ task.mode = "create" => {Input} \cup History \subseteq task.excluded
    /\ task.mode = "refine" => {Input} \cup History \subseteq task.excluded

Failings == {"budget", "malformed", "echo", "repeated", "unchanged", "invalid"}

Typed ==
    /\ task \in [mode : Requested, think : BOOLEAN, excluded : SUBSET Texts]
    /\ attempt \in 1 .. Candidates
    /\ rung \in 1 .. PlanLength
    /\ result \in Codes
    /\ sends \in Nat
    /\ refused \in BOOLEAN
    /\ DOMAIN told \subseteq 1 .. Candidates

(* What the requests sent so far come to.                                  *)
Effort ==
    /\ result = "open" =>
        /\ DOMAIN told = 1 .. attempt - 1
        /\ sends <= (attempt - 1) * (Budgets + 1) + rung - 1
        /\ (\A i \in 1 .. attempt - 1 : told[i] = "budget") => sends >= (attempt - 1) * Budgets + rung - 1
    /\ result # "open" => sends <= Candidates * (Budgets + 1)
    /\ result = "output_budget_exhausted" => sends >= Candidates * Budgets

(* The inductive invariant.                                                *)
CompositionInv ==
    /\ Typed /\ Kept /\ Effort
    /\ NewPrompt /\ RefusalEnds

-----------------------------------------------------------------------------
(* The arithmetic of the bounds.                                           *)
LEMMA Times ==
    ASSUME NEW n \in Nat \ {0}, NEW b \in Nat
    PROVE  /\ n * b \in Nat /\ (n - 1) * b \in Nat
           /\ n * b = (n - 1) * b + b
  OBVIOUS

LEMMA TimesGrows ==
    ASSUME NEW n \in Nat, NEW m \in Nat, NEW b \in Nat, n <= m
    PROVE  n * b <= m * b
  <1>1. PICK d \in Nat : m = n + d
    <2>1. m - n \in Nat /\ m = n + (m - n) OBVIOUS
    <2> QED BY <2>1
  <1>2. m * b = n * b + d * b /\ d * b \in Nat /\ n * b \in Nat BY <1>1
  <1> QED BY <1>2

(* The plan is the ladder, and one more step if the model may think.       *)
LEMMA PlanLengths ==
    PlanLength \in Nat /\ Budgets <= PlanLength /\ PlanLength <= Budgets + 1 /\ 1 <= PlanLength
  BY CompositionAssumption DEF PlanLength

(* A send that leaves the composition open is one of at most the plan.     *)
LEMMA EffortBound ==
    ASSUME Typed, Effort, result = "open"
    PROVE  /\ sends + 1 <= (attempt - 1) * (Budgets + 1) + rung
           /\ sends + 1 <= attempt * (Budgets + 1)
           /\ sends + 1 <= Candidates * (Budgets + 1)
  <1>1. /\ attempt \in Nat \ {0} /\ Candidates \in Nat /\ attempt <= Candidates
        /\ Budgets + 1 \in Nat /\ rung \in Nat /\ rung <= Budgets + 1 /\ sends \in Nat
    BY PlanLengths, CompositionAssumption DEF Typed
  <1>2. sends <= (attempt - 1) * (Budgets + 1) + rung - 1 BY DEF Effort
  <1>3. attempt * (Budgets + 1) = (attempt - 1) * (Budgets + 1) + (Budgets + 1)
        /\ (attempt - 1) * (Budgets + 1) \in Nat /\ attempt * (Budgets + 1) \in Nat
    BY <1>1, Times
  <1>4. attempt * (Budgets + 1) <= Candidates * (Budgets + 1) /\ Candidates * (Budgets + 1) \in Nat
    BY <1>1, TimesGrows
  <1> DEFINE x == (attempt - 1) * (Budgets + 1)
             y == attempt * (Budgets + 1)
             z == Candidates * (Budgets + 1)
  <1> HIDE DEF x, y, z
  <1>5. sends + 1 <= x + rung /\ sends + 1 <= y /\ sends + 1 <= z
    BY <1>1, <1>2, <1>3, <1>4 DEF x, y, z
  <1> QED BY <1>5 DEF x, y, z

-----------------------------------------------------------------------------
(* A redraw with the next seed, or giving up.                              *)
LEMMA Redraw ==
    ASSUME CompositionInv, Sends, UNCHANGED refused,
           NEW end \in Failings, NEW excluded \in SUBSET Texts,
           task.mode # "vision" => task.excluded \subseteq excluded,
           end = "budget" => Budgets <= rung,
           NextCandidate(end, excluded)
    PROVE  CompositionInv'
  <1> DEFINE ends == [i \in 1 .. attempt |-> IF i = attempt THEN end ELSE told[i]]
  <1>1. /\ result = "open" /\ sends \in Nat /\ sends' = sends + 1
        /\ ~refused' /\ refused' \in BOOLEAN
        /\ attempt \in Nat \ {0} /\ Candidates \in Nat \ {0} /\ attempt <= Candidates
        /\ rung \in Nat \ {0} /\ Budgets \in Nat \ {0}
    BY CompositionAssumption, PlanLengths DEF CompositionInv, Typed, RefusalEnds, Sends
  <1>2. told' = ends /\ task' = [task EXCEPT !.excluded = excluded] /\ text' = text
    BY DEF NextCandidate
  <1>3. /\ task' \in [mode : Requested, think : BOOLEAN, excluded : SUBSET Texts]
        /\ task'.mode = task.mode /\ task'.think = task.think /\ PlanLength' = PlanLength
    BY <1>2 DEF CompositionInv, Typed, PlanLength
  <1>4. Kept' BY <1>2, <1>3 DEF CompositionInv, Kept, Typed
  <1>5. DOMAIN told' = 1 .. attempt /\ \A i \in 1 .. attempt - 1 : told'[i] = told[i]
    BY <1>1, <1>2
  <1>6. told'[attempt] = end BY <1>1, <1>2
  <1>7. /\ sends + 1 <= attempt * (Budgets + 1)
        /\ sends + 1 <= Candidates * (Budgets + 1)
    BY <1>1, EffortBound DEF CompositionInv
  <1>8. ASSUME \A i \in 1 .. attempt : told'[i] = "budget"
        PROVE  attempt * Budgets <= sends + 1
    <2>1. end = "budget" /\ \A i \in 1 .. attempt - 1 : told[i] = "budget"
      <3>1. attempt \in 1 .. attempt /\ 1 .. attempt - 1 \subseteq 1 .. attempt BY <1>1
      <3> QED BY <1>5, <1>6, <1>8, <3>1
    <2>2. sends >= (attempt - 1) * Budgets + rung - 1 /\ Budgets <= rung
      BY <1>1, <2>1 DEF CompositionInv, Effort
    <2>3. attempt * Budgets = (attempt - 1) * Budgets + Budgets /\ (attempt - 1) * Budgets \in Nat
      BY <1>1, Times
    <2> DEFINE x == (attempt - 1) * Budgets
               y == attempt * Budgets
    <2> HIDE DEF x, y
    <2>4. y <= sends + 1 BY <1>1, <2>2, <2>3 DEF x, y
    <2> QED BY <2>4 DEF y
  <1>9. CASE attempt < Candidates
    <2>1. attempt' = attempt + 1 /\ rung' = 1 /\ result' = "open"
      BY <1>1, <1>9 DEF NextCandidate
    <2>2. Typed'
      <3>1. attempt' \in 1 .. Candidates /\ DOMAIN told' \subseteq 1 .. Candidates
        BY <1>1, <1>5, <1>9, <2>1
      <3>2. rung' \in 1 .. PlanLength' BY <1>3, <2>1, PlanLengths
      <3> QED BY <1>1, <1>3, <2>1, <3>1, <3>2 DEF Typed, Codes
    <2>3. Effort'
      <3>1. attempt' - 1 = attempt /\ rung' - 1 = 0 BY <1>1, <2>1
      <3>2. DOMAIN told' = 1 .. attempt' - 1 BY <1>5, <3>1
      <3>3. sends' <= (attempt' - 1) * (Budgets + 1) + rung' - 1
        <4>1. attempt * (Budgets + 1) \in Nat BY <1>1, Times
        <4> QED BY <1>1, <1>7, <2>1, <3>1, <4>1
      <3>4. (\A i \in 1 .. attempt' - 1 : told'[i] = "budget")
                => sends' >= (attempt' - 1) * Budgets + rung' - 1
        <4>1. attempt * Budgets \in Nat BY <1>1, Times
        <4> QED BY <1>1, <1>8, <2>1, <3>1, <4>1
      <3> QED BY <2>1, <3>2, <3>3, <3>4 DEF Effort
    <2> QED BY <1>1, <1>4, <2>1, <2>2, <2>3 DEF CompositionInv, NewPrompt, RefusalEnds
  <1>10. CASE ~(attempt < Candidates)
    <2>1. attempt' = attempt /\ rung' = rung /\ result' = Exhausted(ends) /\ attempt = Candidates
      BY <1>1, <1>10 DEF NextCandidate
    <2>2. result' \in Codes \ {"open", "answered"} BY <2>1 DEF Exhausted, Codes
    <2>3. result' = "output_budget_exhausted" => \A i \in 1 .. attempt : told'[i] = "budget"
      BY <1>2, <2>1 DEF Exhausted
    <2>4. Typed'
      <3>1. DOMAIN told' \subseteq 1 .. Candidates BY <1>5, <2>1
      <3> QED BY <1>1, <1>3, <2>1, <2>2, <3>1 DEF CompositionInv, Typed
    <2>5. Effort'
      <3>1. Candidates * Budgets \in Nat BY <1>1, Times
      <3> QED BY <1>1, <1>7, <1>8, <2>1, <2>2, <2>3, <3>1 DEF Effort
    <2> QED BY <1>1, <1>4, <2>2, <2>4, <2>5 DEF CompositionInv, NewPrompt, RefusalEnds
  <1> QED BY <1>9, <1>10

(* A send that ends the composition with an error that is not Exhausted.   *)
LEMMA Stops ==
    ASSUME CompositionInv, Sends,
           NEW code \in {"generate_error", "declined", "invalid_response"}, End(code),
           refused' \in BOOLEAN, refused' => code = "declined"
    PROVE  CompositionInv'
  <1>1. result = "open" /\ sends \in Nat /\ sends' = sends + 1
    BY DEF CompositionInv, Typed, Sends
  <1>2. /\ result' = code /\ task' = task /\ attempt' = attempt /\ rung' = rung
        /\ told' = told /\ text' = text
    BY DEF End
  <1>3. Typed' BY <1>1, <1>2 DEF CompositionInv, Typed, Codes, PlanLength
  <1>4. Kept' BY <1>2 DEF CompositionInv, Kept
  <1>5. Effort' BY <1>1, <1>2, EffortBound DEF CompositionInv, Effort
  <1> QED BY <1>2, <1>3, <1>4, <1>5 DEF CompositionInv, NewPrompt, RefusalEnds

(* A send whose answer is taken.                                           *)
LEMMA Accepts ==
    ASSUME CompositionInv, Sends, UNCHANGED refused, NEW t, Taken(t),
           task.mode # "vision" => ~Rejected(t)
    PROVE  CompositionInv'
  <1>1. result = "open" /\ sends \in Nat /\ sends' = sends + 1 /\ ~refused'
    BY DEF CompositionInv, Typed, RefusalEnds, Sends
  <1>2. /\ result' = "answered" /\ task' = task /\ attempt' = attempt /\ rung' = rung
        /\ told' = told /\ text' = t
    BY DEF Taken
  <1>3. Typed' BY <1>1, <1>2 DEF CompositionInv, Typed, Codes, PlanLength
  <1>4. Kept' BY <1>2 DEF CompositionInv, Kept
  <1>5. Effort' BY <1>1, <1>2, EffortBound DEF CompositionInv, Effort
  <1>6. NewPrompt' BY <1>2 DEF CompositionInv, Typed, Requested, Kept, NewPrompt, Rejected
  <1> QED BY <1>1, <1>3, <1>4, <1>5, <1>6 DEF CompositionInv, RefusalEnds

-----------------------------------------------------------------------------
LEMMA InvInit == CompositionInit => CompositionInv
  <1> SUFFICES ASSUME CompositionInit PROVE CompositionInv OBVIOUS
  <1>1. Direction \in Texts BY CompositionAssumption DEF Direction
  <1>2. task \in [mode : Requested, think : BOOLEAN, excluded : SUBSET Texts]
    BY <1>1, CompositionAssumption DEF CompositionInit, Excludes, Requested
  <1>3. Typed
    <2>1. 1 \in 1 .. Candidates /\ 1 \in 1 .. PlanLength BY CompositionAssumption, PlanLengths
    <2>2. DOMAIN told = {} BY DEF CompositionInit
    <2> QED BY <1>2, <2>1, <2>2 DEF CompositionInit, Typed, Codes
  <1>4. Kept BY DEF CompositionInit, Kept, Excludes
  <1>5. Effort
    <2>1. 1 .. 0 = {} /\ DOMAIN told = {} BY DEF CompositionInit
    <2>2. (1 - 1) * (Budgets + 1) = 0 /\ (1 - 1) * Budgets = 0 BY CompositionAssumption
    <2> QED BY <2>1, <2>2 DEF CompositionInit, Effort
  <1> QED BY <1>3, <1>4, <1>5 DEF CompositionInit, CompositionInv, NewPrompt, RefusalEnds

LEMMA InvNext == CompositionInv /\ [CompositionNext]_compositionVars => CompositionInv'
  <1> SUFFICES ASSUME CompositionInv, [CompositionNext]_compositionVars PROVE CompositionInv'
    OBVIOUS
  <1>0. refused \in BOOLEAN /\ task.excluded \in SUBSET Texts /\ rung \in Nat
    BY PlanLengths DEF CompositionInv, Typed
  <1>a. ASSUME Sends PROVE ~refused BY <1>a DEF CompositionInv, RefusalEnds, Sends
  <1>1. CASE Raises BY <1>0, <1>1, <1>a, Stops DEF Raises
  <1>2. CASE OverBudget
    <2>1. CASE rung < PlanLength
      <3>1. /\ result' = "open" /\ task' = task /\ attempt' = attempt /\ rung' = rung + 1
            /\ told' = told /\ text' = text /\ refused' = refused /\ sends' = sends + 1
            /\ result = "open"
        BY <1>2, <2>1 DEF OverBudget, Sends
      <3>2. Typed'
        <4>1. rung' \in 1 .. PlanLength' BY <1>0, <2>1, <3>1, PlanLengths DEF PlanLength
        <4> QED BY <3>1, <4>1 DEF CompositionInv, Typed, Codes
      <3>3. Effort'
        <4>1. /\ attempt \in Nat \ {0} /\ Budgets \in Nat /\ sends \in Nat
              /\ (attempt - 1) * (Budgets + 1) \in Nat /\ (attempt - 1) * Budgets \in Nat
          BY CompositionAssumption, Times DEF CompositionInv, Typed
        <4> DEFINE x == (attempt - 1) * (Budgets + 1)
                   y == (attempt - 1) * Budgets
        <4>2. /\ DOMAIN told = 1 .. attempt - 1 /\ sends <= x + rung - 1
              /\ (\A i \in 1 .. attempt - 1 : told[i] = "budget") => sends >= y + rung - 1
          BY <3>1 DEF CompositionInv, Effort
        <4> HIDE DEF x, y
        <4>3. /\ sends + 1 <= x + (rung + 1) - 1
              /\ (\A i \in 1 .. attempt - 1 : told[i] = "budget") => sends + 1 >= y + (rung + 1) - 1
          BY <1>0, <4>1, <4>2 DEF x, y
        <4> QED BY <3>1, <4>2, <4>3 DEF Effort, x, y
      <3> QED BY <3>1, <3>2, <3>3 DEF CompositionInv, Kept, NewPrompt, RefusalEnds
    <2>2. CASE ~(rung < PlanLength)
      <3>1. Budgets <= rung BY <1>0, <2>2, PlanLengths, CompositionAssumption
      <3> QED BY <1>0, <1>2, <2>2, <3>1, Redraw DEF OverBudget, Failings
    <2> QED BY <2>1, <2>2
  <1>3. ASSUME NEW nsfw \in BOOLEAN, Malformed(nsfw) PROVE CompositionInv'
    <2>1. Sends /\ refused' = (~nsfw /\ (~Unthinking \/ task.mode = "vision"))
      BY <1>0, <1>3, <1>a DEF Malformed
    <2>2. CASE task.mode = "vision" /\ ~nsfw BY <1>3, <2>1, <2>2, Stops DEF Malformed
    <2>3. CASE task.mode = "vision" /\ nsfw
      <3>1. refused' = FALSE /\ refused = FALSE BY <1>0, <1>a, <2>1, <2>3
      <3> QED BY <1>3, <2>1, <2>3, <3>1, Redraw DEF Malformed, Failings
    <2>4. CASE task.mode # "vision" /\ Unthinking
      <3>1. refused' = FALSE /\ refused = FALSE BY <1>0, <1>a, <2>1, <2>4
      <3>2. Budgets <= rung BY <1>0, <2>4, CompositionAssumption DEF Unthinking
      <3> QED BY <1>0, <1>3, <2>1, <2>4, <3>1, <3>2, Redraw DEF Malformed, Failings
    <2>5. CASE task.mode # "vision" /\ ~Unthinking BY <1>3, <2>1, <2>5, Stops DEF Malformed
    <2> QED BY <2>2, <2>3, <2>4, <2>5
  <1>4. CASE Anonymous BY <1>0, <1>4, <1>a, Stops DEF Anonymous
  <1>5. CASE Refuses BY <1>5, Stops DEF Refuses
  <1>6. ASSUME NEW t \in Texts, Prompt(t) PROVE CompositionInv'
    <2>1. Sends /\ task.mode # "vision" /\ UNCHANGED refused BY <1>6 DEF Prompt
    <2>2. CASE ~Rejected(t) BY <1>6, <2>1, <2>2, Accepts DEF Prompt
    <2>3. CASE Rejected(t)
      <3>1. PICK end \in Failings \ {"budget"}, excluded \in SUBSET Texts :
                task.excluded \subseteq excluded /\ NextCandidate(end, excluded)
        BY <1>0, <1>6, <2>3 DEF Prompt, Failings
      <3> QED BY <2>1, <3>1, Redraw
    <2> QED BY <2>2, <2>3
  <1>7. ASSUME NEW valid \in BOOLEAN, Sheet(valid) PROVE CompositionInv'
    <2>1. CASE valid BY <1>7, <2>1, Accepts DEF Sheet
    <2>2. CASE ~valid BY <1>7, <2>2, Redraw DEF Sheet, Failings
    <2> QED BY <2>1, <2>2
  <1>8. CASE UNCHANGED compositionVars
    BY <1>8 DEF compositionVars, CompositionInv, Typed, Kept, Effort, NewPrompt, RefusalEnds, PlanLength
  <1> QED BY <1>1, <1>2, <1>3, <1>4, <1>5, <1>6, <1>7, <1>8 DEF CompositionNext

(* The inductive invariant: what is excluded stays so, and the requests    *)
(* sent are pinned by the candidate and the step of its plan.              *)
THEOREM CompositionInvariance == CompositionSpec => []CompositionInv
  <1>1. CompositionInit => CompositionInv BY InvInit
  <1>2. CompositionInv /\ [CompositionNext]_compositionVars => CompositionInv' BY InvNext
  <1> QED BY <1>1, <1>2, PTL DEF CompositionSpec

(* An accepted prompt is new, a refusal is neither redrawn nor accepted,   *)
(* and no composition sends more than its plan for each of its candidates, *)
(* or gives up on the budget before it has used it.                        *)
THEOREM CompositionKeeps == CompositionSpec => []NewPrompts
  <1>1. CompositionInv => NewPrompts
    <2> SUFFICES ASSUME CompositionInv PROVE BoundedEffort BY DEF CompositionInv, NewPrompts
    <2>1. CASE result = "open"
      <3>1. /\ sends + 1 <= Candidates * (Budgets + 1) /\ sends \in Nat
            /\ Candidates * (Budgets + 1) \in Nat
        BY <2>1, EffortBound, CompositionAssumption, Times DEF CompositionInv, Typed
      <3> QED BY <2>1, <3>1 DEF BoundedEffort
    <2>2. CASE result # "open" BY <2>2 DEF CompositionInv, Effort, BoundedEffort
    <2> QED BY <2>1, <2>2
  <1> QED BY <1>1, CompositionInvariance, PTL

-----------------------------------------------------------------------------
(* The routing of requests.                                                *)

Documents == Document \cup {NoDoc}
Answer    == [kind : {"none", "same", "new"}, doc : Documents]
Phases    == Settled \cup {"choosing", "reading", "read", "rereading", "queued", "sent", "pausing"}
Request   == [pc : Phases, svc : Called \cup {NoService}, exclude : SUBSET Called,
              dropped : BOOLEAN, attempt : 1 .. Attempts, waited : 0 .. Patience,
              failed : SUBSET Called]

(* What failed a request since it last waited is excluded from its next    *)
(* choice, unless nothing did.                                             *)
RequestFits(r) ==
    /\ r.failed \subseteq r.exclude /\ (r.dropped => r.failed = {})
    /\ r.pc \in {"queued", "sent"} => r.svc \in Called
    /\ r.pc = "pausing" => r.waited < Patience

DocumentsOK ==
    /\ router \in Document /\ doc \in Documents /\ etag \in Documents
    /\ events \in Seq(Documents) /\ reads \in [Readers -> Answer]
RequestsOK ==
    /\ req \in [Asking -> Request] /\ \A q \in Asking : RequestFits(req[q])
LinesOK == line \in [Called -> Seq(Asking)]

RoutingInv == DocumentsOK /\ RequestsOK /\ LinesOK

Fair == InSlots /\ FirstGoes /\ NotChosenAgain

LEMMA LeastOf ==
    ASSUME NEW S, S \subseteq Nat, S # {}
    PROVE  \E k \in S : \A j \in S : k <= j
    <1> DEFINE R == OpToRel(<, Nat)
    <1>1. IsWellFoundedOn(R, Nat)
        BY NatLessThanWellFounded DEF R
    <1>2. PICK k \in S : \A j \in S : <<j, k>> \notin R
        <2> HIDE DEF R
        <2>1. QED
            BY <1>1, WFMin
    <1>3. ASSUME NEW j \in S PROVE k <= j
        <2>1. ~(j < k)
            BY <1>2 DEF OpToRel
        <2>2. QED
            BY <2>1
    <1>4. QED
        BY <1>3

(* The first of a list that is in a set.                                   *)
LEMMA FirstIs ==
    ASSUME NEW T, NEW list \in Seq(T), NEW S, Range(list) \cap S # {}
    PROVE  FirstOf(list, S) \in S /\ FirstOf(list, S) \in T
    <1> DEFINE I == {i \in DOMAIN list : list[i] \in S}
               First(i) == list[i] \in S /\ \A j \in 1 .. i - 1 : list[j] \notin S
    <1>1. I \subseteq Nat /\ I # {}
        <2>1. DOMAIN list = 1 .. Len(list) /\ Len(list) \in Nat
            OBVIOUS
        <2>2. QED
            BY <2>1 DEF Range
    <1>2. PICK k \in I : \A j \in I : k <= j
        BY <1>1, LeastOf
    <1>3. k \in DOMAIN list /\ First(k)
        <2>1. DOMAIN list = 1 .. Len(list) /\ Len(list) \in Nat
            OBVIOUS
        <2>2. ASSUME NEW j \in 1 .. k - 1 PROVE list[j] \notin S
            <3>1. j \in DOMAIN list /\ ~(k <= j)
                BY <2>1
            <3>2. QED
                BY <1>2, <3>1
        <2>3. QED
            BY <2>2
    <1>4. PICK i \in DOMAIN list : i = (CHOOSE n \in DOMAIN list : First(n)) /\ First(i)
        <2> HIDE DEF First
        <2>1. QED
            BY <1>3
    <1>5. FirstOf(list, S) = list[i]
        BY <1>4 DEF FirstOf
    <1>6. QED
        BY <1>4, <1>5

(* A choice is to wait, that nothing is available, or a name; with a       *)
(* document it is untried with respect to the names excluded.                *)
LEMMA ChoiceIs ==
    ASSUME DocumentsOK, NEW q \in Asking, NEW excluded
    PROVE  LET n == Choice(q, excluded)
           IN  n \in {"wait", "unavailable"} \/ (n \in Called /\ (doc # NoDoc => Untried(q, n, excluded)))
    <1> DEFINE Good(n) == n \in {"wait", "unavailable"} \/ (n \in Called /\ (doc # NoDoc => Untried(q, n, excluded)))
               usable == Usable(q, excluded)
    <1>0. Good("wait") /\ Good("unavailable")
        OBVIOUS
    <1>1. ASSUME doc # NoDoc
          PROVE  /\ usable \subseteq Services /\ doc.up \in Seq(Services)
                 /\ \A s \in usable : s \in Range(doc.up) /\ Identities(s) \cap excluded = {}
                 /\ \A s \in Range(doc.up) : doc.means[s] = s
        <2>1. doc \in Document
            BY <1>1 DEF DocumentsOK, Documents
        <2>2. doc.up \in Seq(Services) /\ \A s \in Range(doc.up) : doc.means[s] = s
            BY <2>1, RoutingAssumption DEF Contents
        <2>3. QED
            BY <2>2 DEF Usable, Serves
    <1>2. ASSUME doc # NoDoc, NEW n \in Called, doc.means[n] \in usable PROVE Good(n)
        <2>1. Identities(doc.means[n]) \cap excluded = {}
            BY <1>1, <1>2
        <2>2. n \in Identities(doc.means[n])
            BY DEF Identities
        <2>3. QED
            BY <2>1, <2>2 DEF Untried
    <1>3. ASSUME doc # NoDoc, NEW S, S \subseteq usable, S # {} PROVE Good(FirstOf(doc.up, S))
        <2>1. Range(doc.up) \cap S # {}
            BY <1>1, <1>3
        <2>2. FirstOf(doc.up, S) \in S
            BY <1>1, <1>3, <2>1, FirstIs
        <2>3. FirstOf(doc.up, S) \in Called /\ doc.means[FirstOf(doc.up, S)] \in usable
            BY <1>1, <1>3, <2>2, RoutingAssumption
        <2>4. QED
            BY <1>2, <1>3, <2>3
    <1>4. Wanted(usable) \subseteq usable
        BY DEF Wanted
    <1>5. Good(ByCapability(q, excluded))
        <2> HIDE DEF Good
        <2>1. QED
            BY <1>0, <1>3, <1>4 DEF ByCapability
    <1>6. ASSUME Names # << >> PROVE Good(ByName(q, excluded))
        <2>1. Names[1] \in Called
            BY <1>6, RoutingAssumption
        <2>2. CASE doc = NoDoc
            BY <2>1, <2>2 DEF ByName
        <2>3. CASE doc # NoDoc
            <3> DEFINE named == {n \in Range(Names) : doc.means[n] \in Usable(q, excluded)}
            <3>1. ASSUME named # {} PROVE Good(FirstOf(Names, named))
                <4>1. Range(Names) \cap named # {}
                    BY <3>1
                <4> HIDE DEF named
                <4>2. FirstOf(Names, named) \in named /\ FirstOf(Names, named) \in Called
                    BY <4>1, FirstIs, RoutingAssumption
                <4>3. doc.means[FirstOf(Names, named)] \in usable
                    BY <4>2 DEF named
                <4> HIDE DEF Good
                <4>4. QED
                    BY <1>2, <2>3, <4>2, <4>3
            <3>2. ByName(q, excluded) \in {"wait", "unavailable"}
                      \/ (named # {} /\ ByName(q, excluded) = FirstOf(Names, named))
                BY <2>3 DEF ByName
            <3> HIDE DEF named, Good
            <3>3. QED
                BY <1>0, <3>1, <3>2
        <2>4. QED
            BY <2>2, <2>3
    <1>7. Good(Automatic(q, excluded))
        BY <1>5, <1>6 DEF Automatic
    <1>8. Good(Choice(q, excluded))
        <2>1. CASE Pin[q] = NoService \/ Automatic(q, excluded) = "wait"
            BY <1>7, <2>1 DEF Choice
        <2>2. CASE Pin[q] # NoService /\ Automatic(q, excluded) # "wait"
            <3>1. Pin[q] \in Called
                BY <2>2, RoutingAssumption
            <3>2. CASE doc = NoDoc
                BY <2>2, <3>1, <3>2 DEF Choice
            <3>3. CASE doc # NoDoc /\ Pin[q] \notin excluded /\ Serves(q, doc.means[Pin[q]])
                BY <2>2, <3>1, <3>3 DEF Choice, Untried
            <3>4. CASE doc # NoDoc /\ ~(Pin[q] \notin excluded /\ Serves(q, doc.means[Pin[q]]))
                BY <1>7, <2>2, <3>4 DEF Choice
            <3>5. QED
                BY <3>2, <3>3, <3>4
        <2>3. QED
            BY <2>1, <2>2
    <1>9. QED
        BY <1>8

LEMMA ActiveFinite ==
    ASSUME NEW n
    PROVE  IsFiniteSet(Active(n)) /\ Cardinality(Active(n)) \in Nat
    <1>1. Active(n) \in SUBSET Asking
        BY DEF Active
    <1>2. QED
        BY <1>1, FS_Subset, FS_CardinalityType, RoutingAssumption

(* Where no other request gets under way, no name has more of them.        *)
LEMMA SlotsKept ==
    ASSUME \A q \in Asking : req'[q].pc = "sent" => req'[q].svc = req[q].svc /\ req[q].pc = "sent"
    PROVE  InSlots
    <1>1. ASSUME NEW n \in Called PROVE Cardinality(Active(n)') <= Cardinality(Active(n))
        <2>1. Active(n)' \subseteq Active(n)
            BY DEF Active
        <2>2. QED
            BY <2>1, ActiveFinite, FS_Subset
    <1>2. QED
        BY <1>1 DEF InSlots

LEMMA OneGoesOn ==
    ASSUME RequestsOK, NEW q \in Asking, NEW r \in Request, RequestFits(r), r.pc # "sent",
           r.pc = "queued" /\ doc # NoDoc => Untried(q, r.svc, req[q].failed),
           req' = [req EXCEPT ![q] = r]
    PROVE  RequestsOK' /\ Fair
    <1>1. req'[q] = r /\ \A p \in Asking : p # q => req'[p] = req[p]
        BY DEF RequestsOK
    <1>2. RequestsOK'
        BY <1>1 DEF RequestsOK
    <1>3. InSlots
        BY <1>1, SlotsKept
    <1>4. FirstGoes
        BY <1>1 DEF FirstGoes
    <1>5. NotChosenAgain
        BY <1>1 DEF NotChosenAgain
    <1>6. QED
        BY <1>2, <1>3, <1>4, <1>5 DEF Fair

LEMMA NoneGoesOn ==
    ASSUME RequestsOK, UNCHANGED req
    PROVE  RequestsOK' /\ Fair
    <1>1. RequestsOK'
        BY DEF RequestsOK
    <1>2. InSlots
        BY SlotsKept
    <1>3. FirstGoes /\ NotChosenAgain
        BY DEF FirstGoes, NotChosenAgain
    <1>4. QED
        BY <1>1, <1>2, <1>3 DEF Fair

LEMMA Asks ==
    ASSUME DocumentsOK, NEW a \in Readers, Ask(a), UNCHANGED <<router, doc, etag, events>>
    PROVE  DocumentsOK'
    <1>1. Answered(a) \in Answer
        BY DEF Answered, NoAnswer, Answer, DocumentsOK, Documents
    <1>2. reads' \in [Readers -> Answer]
        BY <1>1 DEF Ask, DocumentsOK
    <1>3. QED
        BY <1>2 DEF DocumentsOK

LEMMA Takes ==
    ASSUME DocumentsOK, NEW a \in Readers, Take(a), UNCHANGED <<router, events>>
    PROVE  DocumentsOK'
    <1>1. NoAnswer \in Answer /\ reads[a] \in Answer
        BY DEF NoAnswer, Answer, DocumentsOK, Documents
    <1>2. reads' \in [Readers -> Answer]
        BY <1>1 DEF Take, DocumentsOK
    <1>3. doc' \in Documents /\ etag' \in Documents
        BY <1>1 DEF Take, DocumentsOK, Answer
    <1>4. QED
        BY <1>2, <1>3 DEF DocumentsOK

LEMMA SameDocuments ==
    ASSUME DocumentsOK, UNCHANGED <<router, doc, etag, events, reads>>
    PROVE  DocumentsOK'
    BY DEF DocumentsOK

(* The document and those who read it.                                     *)
LEMMA DocumentStep ==
    ASSUME RoutingInv,
           \/ RouterChanges \/ WatchReads \/ Connects \/ StreamEnds \/ DocumentEvent
           \/ \E a \in Readers : ReadFails(a)
           \/ UNCHANGED routingVars
    PROVE  RoutingInv' /\ Fair
    <1> USE DEF RoutingInv
    <1>1. UNCHANGED <<req, line>>
        BY DEF RouterChanges, WatchReads, Connects, StreamEnds, DocumentEvent, ReadFails, routingVars
    <1>2. RequestsOK' /\ Fair /\ LinesOK'
        BY <1>1, NoneGoesOn DEF LinesOK
    <1>3. Document \subseteq Documents /\ NoAnswer \in Answer /\ Subscriber \in Readers
        BY DEF Documents, NoAnswer, Answer, Readers
    <1>4. CASE RouterChanges
        <2>1. router' \in Document /\ UNCHANGED <<doc, etag, reads>>
            BY <1>4 DEF RouterChanges
        <2>2. events' \in Seq(Documents)
            <3>1. events \in Seq(Documents) /\ router' \in Documents
                BY <1>3, <2>1 DEF DocumentsOK
            <3>2. Append(events, router') \in Seq(Documents)
                BY <3>1
            <3>3. QED
                BY <1>4, <3>1, <3>2 DEF RouterChanges
        <2>3. QED
            BY <1>2, <2>1, <2>2 DEF DocumentsOK
    <1>5. CASE WatchReads
        BY <1>2, <1>3, <1>5, Takes DEF WatchReads
    <1>6. CASE Connects
        <2>1. events' = <<router>> /\ UNCHANGED <<router, doc, etag, reads>>
            BY <1>6 DEF Connects
        <2>2. <<router>> \in Seq(Documents)
            BY <1>3 DEF DocumentsOK
        <2>3. QED
            BY <1>2, <2>1, <2>2 DEF DocumentsOK
    <1>7. CASE StreamEnds
        <2>1. events' = << >> /\ Ask(Subscriber) /\ UNCHANGED <<router, doc, etag>>
            BY <1>7 DEF StreamEnds
        <2>2. Answered(Subscriber) \in Answer
            BY DEF Answered, NoAnswer, Answer, DocumentsOK, Documents
        <2>3. reads' \in [Readers -> Answer] /\ << >> \in Seq(Documents)
            BY <1>3, <2>1, <2>2 DEF Ask, DocumentsOK
        <2>4. QED
            BY <1>2, <2>1, <2>3 DEF DocumentsOK
    <1>8. CASE DocumentEvent
        <2>1. /\ events # << >> /\ events' = Tail(events) /\ doc' = Head(events)
              /\ UNCHANGED <<router, etag, reads>>
            BY <1>8 DEF DocumentEvent
        <2>2. Head(events) \in Documents /\ Tail(events) \in Seq(Documents)
            BY <2>1 DEF DocumentsOK
        <2>3. QED
            BY <1>2, <2>1, <2>2 DEF DocumentsOK
    <1>9. ASSUME NEW a \in Readers, ReadFails(a) PROVE RoutingInv' /\ Fair
        <2>1. reads' = [reads EXCEPT ![a] = NoAnswer] /\ UNCHANGED <<router, doc, etag, events>>
            BY <1>9 DEF ReadFails
        <2>2. reads' \in [Readers -> Answer]
            BY <1>3, <2>1 DEF DocumentsOK
        <2>3. QED
            BY <1>2, <2>1, <2>2 DEF DocumentsOK
    <1>10. CASE UNCHANGED routingVars
        BY <1>2, <1>10, SameDocuments DEF routingVars
    <1>11. QED
        BY <1>4, <1>5, <1>6, <1>7, <1>8, <1>9, <1>10

(* A choice.                                                               *)
LEMMA ChooseStep ==
    ASSUME RoutingInv, NEW q \in Asking, ChooseNow(q) \/ ChooseRead(q)
    PROVE  RoutingInv' /\ Fair
    <1> USE DEF RoutingInv
    <1>1. Choose(q) /\ UNCHANGED <<router, doc, etag, events, reads>>
        BY DEF ChooseNow, ChooseRead
    <1>2. DocumentsOK'
        BY <1>1, SameDocuments
    <1>3. req[q] \in Request /\ RequestFits(req[q]) /\ req[q].failed \subseteq Excluded(q)
        BY DEF RequestsOK, RequestFits, Excluded
    <1>4. PICK s : s = Choice(q, Excluded(q))
        OBVIOUS
    <1>5. s \in {"wait", "unavailable"} \/ (s \in Called /\ (doc # NoDoc => Untried(q, s, Excluded(q))))
        BY <1>4, ChoiceIs
    <1>6. CASE s \in {"wait", "unavailable"}
        <2>1. PICK pc \in {"failed", "pausing"} :
                  /\ pc = "pausing" => ~(req[q].waited >= Patience)
                  /\ To(q, pc) /\ UNCHANGED line
            BY <1>1, <1>4, <1>6 DEF Choose
        <2> DEFINE r == [req[q] EXCEPT !.pc = pc]
        <2>2. /\ r \in Request /\ r.pc = pc /\ r.failed = req[q].failed /\ r.exclude = req[q].exclude
              /\ r.dropped = req[q].dropped /\ r.waited = req[q].waited
            BY <1>3 DEF Request, Phases, Settled
        <2>3. req' = [req EXCEPT ![q] = r]
            BY <2>1 DEF To
        <2> HIDE DEF r
        <2>4. req[q].waited \in 0 .. Patience
            BY <1>3 DEF Request
        <2>5. RequestFits(r)
            BY <1>3, <2>1, <2>2, <2>4, RoutingAssumption DEF RequestFits
        <2>6. RequestsOK' /\ Fair
            BY <2>2, <2>3, <2>5, OneGoesOn
        <2>7. QED
            BY <1>2, <2>1, <2>6 DEF LinesOK
    <1>7. CASE s \in Called /\ s \notin {"wait", "unavailable"}
        <2> DEFINE r == [req[q] EXCEPT !.pc = "queued", !.svc = s]
        <2>1. req' = [req EXCEPT ![q] = r] /\ line' = [line EXCEPT ![s] = Append(@, q)]
            BY <1>1, <1>4, <1>7 DEF Choose, Becomes
        <2>2. /\ r \in Request /\ r.pc = "queued" /\ r.svc = s /\ r.failed = req[q].failed
              /\ r.exclude = req[q].exclude /\ r.dropped = req[q].dropped
            BY <1>3, <1>7 DEF Request, Phases
        <2> HIDE DEF r
        <2>3. RequestFits(r)
            BY <1>3, <1>7, <2>2 DEF RequestFits
        <2>4. doc # NoDoc => Untried(q, r.svc, req[q].failed)
            BY <1>3, <1>5, <1>7, <2>2 DEF Untried
        <2>5. RequestsOK' /\ Fair
            BY <2>1, <2>2, <2>3, <2>4, OneGoesOn
        <2>6. LinesOK'
            <3>1. Append(line[s], q) \in Seq(Asking)
                BY <1>7 DEF LinesOK
            <3>2. QED
                BY <2>1, <3>1 DEF LinesOK
        <2>7. QED
            BY <1>2, <2>5, <2>6
    <1>8. QED
        BY <1>5, <1>6, <1>7

(* The reads of a request, its pauses and its cancellation.                *)
LEMMA ReadStep ==
    ASSUME RoutingInv, NEW q \in Asking, Ensure(q) \/ Reads(q) \/ Pause(q)
    PROVE  RoutingInv' /\ Fair
    <1> USE DEF RoutingInv
    <1>1. req[q] \in Request /\ RequestFits(req[q]) /\ q \in Readers /\ UNCHANGED line
        BY DEF RequestsOK, Readers, Ensure, Reads, Pause
    <1>2. LinesOK'
        BY <1>1 DEF LinesOK
    <1>3. ASSUME NEW pc \in {"reading", "read", "choosing"}, To(q, pc)
          PROVE  RequestsOK' /\ Fair
        <2> DEFINE r == [req[q] EXCEPT !.pc = pc]
        <2>1. /\ r \in Request /\ r.pc = pc /\ r.failed = req[q].failed /\ r.exclude = req[q].exclude
              /\ r.dropped = req[q].dropped
            BY <1>1 DEF Request, Phases
        <2>2. req' = [req EXCEPT ![q] = r]
            BY <1>3 DEF To
        <2> HIDE DEF r
        <2>3. RequestFits(r)
            BY <1>1, <2>1 DEF RequestFits
        <2>4. QED
            BY <2>1, <2>2, <2>3, OneGoesOn
    <1>4. CASE Ensure(q)
        BY <1>1, <1>2, <1>3, <1>4, Asks DEF Ensure
    <1>5. CASE Reads(q)
        BY <1>1, <1>2, <1>3, <1>5, Takes DEF Reads
    <1>6. CASE Pause(q)
        <2> DEFINE r == [req[q] EXCEPT !.pc = "choosing", !.waited = @ + 1, !.dropped = TRUE, !.failed = {}]
        <2>1. req[q].waited \in 0 .. Patience /\ req[q].waited < Patience
            BY <1>1, <1>6 DEF Pause, Request, RequestFits
        <2>2. req[q].waited + 1 \in 0 .. Patience
            BY <2>1, RoutingAssumption
        <2>3. r \in Request /\ r.pc = "choosing" /\ r.failed = {}
            BY <1>1, <2>2 DEF Request, Phases
        <2>4. req' = [req EXCEPT ![q] = r]
            BY <1>6 DEF Pause, Becomes
        <2> HIDE DEF r
        <2>5. RequestFits(r)
            BY <2>3 DEF RequestFits
        <2>6. RequestsOK' /\ Fair
            BY <2>3, <2>4, <2>5, OneGoesOn
        <2>7. QED
            BY <1>2, <1>6, <2>6, SameDocuments DEF Pause
    <1>7. QED
        BY <1>4, <1>5, <1>6

LEMMA WaiterGone ==
    ASSUME NEW asked \in Seq(Asking), NEW q
    PROVE  WithoutWaiter(asked, q) \in Seq(Asking)
    <1>1. CASE q \notin Range(asked)
        BY <1>1 DEF WithoutWaiter
    <1>2. CASE q \in Range(asked)
        <2>1. \E i \in DOMAIN asked : asked[i] = q
            BY <1>2 DEF Range
        <2>2. PICK i \in DOMAIN asked : i = CHOOSE n \in DOMAIN asked : asked[n] = q
            BY <2>1
        <2>3. i \in 1 .. Len(asked) /\ WithoutWaiter(asked, q) = RemoveAt(asked, i)
            BY <1>2, <2>2 DEF WithoutWaiter
        <2> DEFINE front == SubSeq(asked, 1, i - 1)
                   back  == SubSeq(asked, i + 1, Len(asked))
        <2>4. front \in Seq(Asking) /\ back \in Seq(Asking)
            BY <2>3
        <2> HIDE DEF front, back
        <2>5. front \o back \in Seq(Asking)
            BY <2>4, ConcatProperties
        <2>6. QED
            BY <2>3, <2>5 DEF RemoveAt, front, back
    <1>3. QED
        BY <1>1, <1>2

LEMMA CancelStep ==
    ASSUME RoutingInv, NEW q \in Asking, Cancelled(q)
    PROVE  RoutingInv' /\ Fair
    <1> USE DEF RoutingInv
    <1>1. /\ To(q, "failed") /\ reads' = [reads EXCEPT ![q] = NoAnswer]
          /\ line' = [n \in Called |-> WithoutWaiter(line[n], q)]
          /\ UNCHANGED <<router, doc, etag, events>>
        BY DEF Cancelled
    <1>2. DocumentsOK'
        <2>1. NoAnswer \in Answer
            BY DEF NoAnswer, Answer, Documents
        <2>2. reads' \in [Readers -> Answer]
            BY <1>1, <2>1 DEF DocumentsOK
        <2>3. QED
            BY <1>1, <2>2 DEF DocumentsOK
    <1>3. LinesOK'
        <2>1. ASSUME NEW n \in Called PROVE WithoutWaiter(line[n], q) \in Seq(Asking)
            BY WaiterGone DEF LinesOK
        <2>2. QED
            BY <1>1, <2>1 DEF LinesOK
    <1> DEFINE r == [req[q] EXCEPT !.pc = "failed"]
    <1>4. req[q] \in Request /\ RequestFits(req[q])
        BY DEF RequestsOK
    <1>5. /\ r \in Request /\ r.pc = "failed" /\ r.failed = req[q].failed /\ r.exclude = req[q].exclude
          /\ r.dropped = req[q].dropped
        BY <1>4 DEF Request, Phases, Settled
    <1>6. req' = [req EXCEPT ![q] = r]
        BY <1>1 DEF To
    <1> HIDE DEF r
    <1>7. RequestFits(r)
        BY <1>4, <1>5 DEF RequestFits
    <1>8. RequestsOK' /\ Fair
        BY <1>5, <1>6, <1>7, OneGoesOn
    <1>9. QED
        BY <1>2, <1>3, <1>8

LEMMA SlotsAre ==
    ASSUME DocumentsOK, NEW n \in Called
    PROVE  SlotsOf(n) \in Nat
    <1>1. CASE doc = NoDoc \/ doc.means[n] = NoService
        BY <1>1 DEF SlotsOf
    <1>2. CASE doc # NoDoc /\ doc.means[n] # NoService
        <2>1. doc \in Contents
            BY <1>2, RoutingAssumption DEF DocumentsOK, Documents
        <2>2. doc.means[n] \in Services /\ doc.slots \in [Services -> Nat \ {0}]
            BY <1>2, <2>1 DEF Contents
        <2>3. QED
            BY <1>2, <2>2 DEF SlotsOf
    <1>3. QED
        BY <1>1, <1>2

(* A slot is given.                                                        *)
LEMMA SendStep ==
    ASSUME RoutingInv, NEW q \in Asking, Send(q)
    PROVE  RoutingInv' /\ Fair
    <1> USE DEF RoutingInv
    <1> DEFINE s == req[q].svc
    <1>1. /\ req[q].pc = "queued" /\ Head(line[s]) = q /\ Cardinality(Active(s)) < SlotsOf(s)
          /\ line' = [line EXCEPT ![s] = WithoutWaiter(@, q)] /\ To(q, "sent")
          /\ UNCHANGED <<router, doc, etag, events, reads>>
        BY DEF Send, MaySend
    <1>2. req[q] \in Request /\ RequestFits(req[q]) /\ s \in Called /\ line[s] \in Seq(Asking)
        BY <1>1 DEF RequestsOK, RequestFits, LinesOK
    <1> DEFINE r == [req[q] EXCEPT !.pc = "sent"]
    <1>3. /\ r \in Request /\ r.pc = "sent" /\ r.svc = s /\ r.failed = req[q].failed
          /\ r.exclude = req[q].exclude /\ r.dropped = req[q].dropped
        BY <1>2 DEF Request, Phases
    <1>4. req' = [req EXCEPT ![q] = r]
        BY <1>1 DEF To
    <1> HIDE DEF r
    <1>5. req'[q] = r /\ \A p \in Asking : p # q => req'[p] = req[p]
        BY <1>4 DEF RequestsOK
    <1>6. RequestFits(r)
        BY <1>2, <1>3 DEF RequestFits
    <1>7. RequestsOK'
        BY <1>3, <1>4, <1>5, <1>6 DEF RequestsOK
    <1>8. LinesOK'
        BY <1>1, <1>2, WaiterGone DEF LinesOK
    <1>9. InSlots
        <2>1. ASSUME NEW n \in Called
              PROVE  \/ Cardinality(Active(n)') <= Cardinality(Active(n))
                     \/ Cardinality(Active(n)') <= SlotsOf(n)
            <3>1. Active(n)' \subseteq Active(n) \cup {q}
                BY <1>5 DEF Active
            <3>2. IsFiniteSet(Active(n)) /\ Cardinality(Active(n)) \in Nat
                BY ActiveFinite
            <3>3. CASE n = s
                <4>1. IsFiniteSet(Active(n) \cup {q}) /\ Cardinality(Active(n) \cup {q}) <= Cardinality(Active(n)) + 1
                    <5>1. Cardinality(Active(n) \cup {q}) \in {Cardinality(Active(n)), Cardinality(Active(n)) + 1}
                        BY <3>2, FS_AddElement, Zenon
                    <5>2. IsFiniteSet(Active(n) \cup {q})
                        BY <3>2, FS_AddElement
                    <5>3. QED
                        BY <3>2, <5>1, <5>2
                <4>2. /\ Cardinality(Active(n)') <= Cardinality(Active(n) \cup {q})
                      /\ Cardinality(Active(n)') \in Nat /\ Cardinality(Active(n) \cup {q}) \in Nat
                    BY <3>1, <4>1, FS_Subset, FS_CardinalityType
                <4>3. SlotsOf(n) \in Nat
                    BY <1>2, <3>3, SlotsAre
                <4>4. Cardinality(Active(n)) < SlotsOf(n)
                    BY <1>1, <3>3
                <4> HIDE DEF s
                <4>5. QED
                    BY <3>2, <4>1, <4>2, <4>3, <4>4
            <3>4. CASE n # s
                <4>1. Active(n)' \subseteq Active(n)
                    BY <1>3, <1>5, <3>4 DEF Active
                <4>2. QED
                    BY <3>2, <4>1, FS_Subset
            <3>5. QED
                BY <3>3, <3>4
        <2>2. QED
            BY <2>1 DEF InSlots
    <1>10. FirstGoes
        <2>1. ASSUME NEW p \in Asking, req[p].pc = "queued", req'[p].pc = "sent",
                     NEW i \in DOMAIN line[req[p].svc], line[req[p].svc][i] # p
              PROVE  \E j \in 1 .. i - 1 : line[req[p].svc][j] = p
            <3>1. p = q
                BY <1>5, <2>1
            <3>2. i \in 1 .. Len(line[s]) /\ line[s][1] = q
                BY <1>1, <1>2, <2>1, <3>1
            <3>3. i # 1 /\ 1 \in 1 .. i - 1
                BY <2>1, <3>1, <3>2
            <3>4. QED
                BY <3>1, <3>2, <3>3
        <2>2. QED
            BY <2>1 DEF FirstGoes
    <1>11. NotChosenAgain
        BY <1>3, <1>5 DEF NotChosenAgain
    <1>12. QED
        BY <1>1, <1>7, <1>8, <1>9, <1>10, <1>11, SameDocuments DEF Fair

(* An answer, from the request as it was, to the request as it goes on.    *)
LEMMA GoesOnWith ==
    ASSUME RoutingInv, NEW q \in Asking, NEW r \in Request, RequestFits(r), r.pc \notin {"sent", "queued"},
           Becomes(q, r), UNCHANGED <<router, doc, etag, events, line>>,
           Ask(q) \/ UNCHANGED reads
    PROVE  RoutingInv' /\ Fair
    <1> USE DEF RoutingInv
    <1>1. RequestsOK' /\ Fair
        BY OneGoesOn DEF Becomes
    <1>2. DocumentsOK'
        BY Asks, SameDocuments DEF Readers
    <1>3. QED
        BY <1>1, <1>2 DEF LinesOK

LEMMA AgainWith ==
    ASSUME RoutingInv, NEW q \in Asking, NEW r \in Request, r.failed \subseteq r.exclude, ~r.dropped,
           Again(q, r), UNCHANGED <<router, doc, etag, events, line>>
    PROVE  RoutingInv' /\ Fair
    <1>1. PICK pc \in {"choosing", "rereading"} :
              Becomes(q, [r EXCEPT !.pc = pc]) /\ (Ask(q) \/ UNCHANGED reads)
        BY DEF Again
    <1> DEFINE next == [r EXCEPT !.pc = pc]
    <1>2. next \in Request /\ next.pc = pc /\ next.failed = r.failed /\ next.exclude = r.exclude /\ next.dropped = r.dropped
        BY DEF Request, Phases
    <1> HIDE DEF next
    <1>3. RequestFits(next)
        BY <1>2 DEF RequestFits
    <1>4. Becomes(q, next)
        BY <1>1 DEF next
    <1>5. QED
        BY <1>1, <1>2, <1>3, <1>4, GoesOnWith

LEMMA ResponseStep ==
    ASSUME RoutingInv, NEW q \in Asking, Response(q)
    PROVE  RoutingInv' /\ Fair
    <1>1. req[q].pc = "sent" /\ UNCHANGED <<router, doc, etag, events, line>>
        BY DEF Response
    <1>2. /\ req[q] \in Request /\ req[q].failed \subseteq req[q].exclude
          /\ (req[q].dropped => req[q].failed = {}) /\ req[q].svc \in Called
        BY <1>1 DEF RoutingInv, RequestsOK, RequestFits
    <1>3. ASSUME NEW pc \in {"done", "failed"}, To(q, pc), UNCHANGED reads PROVE RoutingInv' /\ Fair
        <2> DEFINE r == [req[q] EXCEPT !.pc = pc]
        <2>1. /\ r \in Request /\ r.pc = pc /\ r.failed = req[q].failed /\ r.exclude = req[q].exclude
              /\ r.dropped = req[q].dropped
            BY <1>2 DEF Request, Phases, Settled
        <2>2. Becomes(q, r)
            BY <1>3 DEF To, Becomes, RoutingInv, RequestsOK
        <2> HIDE DEF r
        <2>3. RequestFits(r)
            BY <1>2, <2>1 DEF RequestFits
        <2>4. QED
            BY <1>1, <1>3, <2>1, <2>2, <2>3, GoesOnWith
    <1>4. ASSUME Retry(q) PROVE RoutingInv' /\ Fair
        <2>1. CASE To(q, "failed") /\ UNCHANGED reads
            BY <1>3, <2>1
        <2>2. CASE req[q].attempt < Attempts
            <3> DEFINE r == [req[q] EXCEPT !.pc = "choosing", !.attempt = @ + 1, !.dropped = FALSE]
            <3>1. req[q].attempt + 1 \in 1 .. Attempts
                BY <1>2, <2>2, RoutingAssumption DEF Request
            <3>2. /\ r \in Request /\ r.pc = "choosing" /\ r.failed = req[q].failed
                  /\ r.exclude = req[q].exclude /\ ~r.dropped
                BY <1>2, <3>1 DEF Request, Phases
            <3>3. Becomes(q, r) /\ UNCHANGED reads
                BY <1>4, <2>2 DEF Retry
            <3> HIDE DEF r
            <3>4. RequestFits(r)
                BY <1>2, <3>2 DEF RequestFits
            <3>5. QED
                BY <1>1, <3>2, <3>3, <3>4, GoesOnWith
        <2>3. QED
            BY <1>4, <2>1, <2>2 DEF Retry
    <1>5. ASSUME FallBack(q) PROVE RoutingInv' /\ Fair
        <2> DEFINE r == [req[q] EXCEPT !.exclude = @ \cup {req[q].svc}, !.failed = @ \cup {req[q].svc},
                                       !.dropped = FALSE]
        <2>1. r \in Request /\ r.failed \subseteq r.exclude /\ ~r.dropped
            BY <1>2 DEF Request
        <2>2. Again(q, r)
            BY <1>5 DEF FallBack
        <2> HIDE DEF r
        <2>3. QED
            BY <1>1, <2>1, <2>2, AgainWith
    <1>6. CASE Draining(q)
        <2>1. CASE To(q, "failed") /\ UNCHANGED reads
            BY <1>3, <2>1
        <2>2. CASE ~(req[q].waited >= Patience)
            <3> DEFINE r == [req[q] EXCEPT !.waited = @ + 1, !.exclude = {}, !.dropped = FALSE, !.failed = {}]
            <3>1. req[q].waited + 1 \in 0 .. Patience
                BY <1>2, <2>2, RoutingAssumption DEF Request
            <3>2. r \in Request /\ r.failed \subseteq r.exclude /\ ~r.dropped
                BY <1>2, <3>1 DEF Request
            <3>3. Again(q, r)
                BY <1>6, <2>2 DEF Draining
            <3> HIDE DEF r
            <3>4. QED
                BY <1>1, <3>2, <3>3, AgainWith
        <2>3. QED
            BY <1>6, <2>1, <2>2 DEF Draining
    <1>7. CASE Offline(q) \/ Unhealthy(q) \/ Transient(q)
        BY <1>2, <1>4, <1>5, <1>7 DEF Offline, Unhealthy, Transient
    <1>8. CASE GivesUp(q) \/ Succeeds(q)
        BY <1>3, <1>8 DEF GivesUp, Succeeds
    <1>9. QED
        BY <1>6, <1>7, <1>8 DEF Response

LEMMA RoutingStarts == ModelRoutingInit => RoutingInv
    <1> SUFFICES ASSUME ModelRoutingInit PROVE RoutingInv
        OBVIOUS
    <1>1. DocumentsOK
        <2>1. /\ router \in Document /\ doc = NoDoc /\ etag = NoDoc
              /\ events = << >> /\ reads = [a \in Readers |-> NoAnswer]
            BY DEF ModelRoutingInit
        <2>2. NoAnswer \in Answer /\ NoDoc \in Documents
            BY DEF NoAnswer, Answer, Documents
        <2>3. QED
            BY <2>1, <2>2 DEF DocumentsOK
    <1>2. req = [q \in Asking |-> New]
        BY DEF ModelRoutingInit
    <1>3. New \in Request /\ New.pc = "choosing" /\ New.failed = {} /\ New.svc = NoService
        BY RoutingAssumption DEF New, Request, Phases
    <1>4. RequestsOK
        <2>1. RequestFits(New)
            BY <1>3 DEF RequestFits
        <2>2. QED
            BY <1>2, <1>3, <2>1 DEF RequestsOK
    <1>5. LinesOK
        BY DEF ModelRoutingInit, LinesOK
    <1>6. QED
        BY <1>1, <1>4, <1>5 DEF RoutingInv

LEMMA RoutingSteps == RoutingInv /\ [ModelRoutingNext]_routingVars => RoutingInv' /\ Fair
    <1> SUFFICES ASSUME RoutingInv, [ModelRoutingNext]_routingVars PROVE RoutingInv' /\ Fair
        OBVIOUS
    <1>1. CASE \/ RouterChanges \/ WatchReads \/ Connects \/ StreamEnds \/ DocumentEvent
               \/ \E a \in Readers : ReadFails(a)
               \/ UNCHANGED routingVars
        BY <1>1, DocumentStep
    <1>2. ASSUME NEW q \in Asking, RequestStep(q) \/ Cancelled(q) PROVE RoutingInv' /\ Fair
        BY <1>2, ReadStep, ChooseStep, SendStep, ResponseStep, CancelStep DEF RequestStep
    <1>3. QED
        BY <1>1, <1>2 DEF ModelRoutingNext

(* The invariant: what the subscriber and the requests hold of documents,  *)
(* and that what failed a request since it last waited is excluded.        *)
THEOREM RoutingInvariance == ModelRoutingSpec => []RoutingInv
    BY RoutingStarts, RoutingSteps, PTL DEF ModelRoutingSpec

(* Whatever documents the router publishes: a name gets no further request *)
(* beyond the slots its service has in the document of the moment and lets *)
(* none overtake (_ServiceSlots.hold), and a service that failed is not    *)
(* chosen again under any of its names before the request has waited, as   *)
(* long as there is a document and unless the account has chosen the name  *)
(* (_choose, _generate).                                                   *)
THEOREM RoutingIsFair == ModelRoutingSpec => RoutedFairly
    <1>1. RoutingInv /\ [ModelRoutingNext]_routingVars => InSlots /\ FirstGoes /\ NotChosenAgain
        BY RoutingSteps DEF Fair
    <1>2. QED
        BY <1>1, RoutingInvariance, PTL
           DEF ModelRoutingSpec, RoutedFairly, WithinSlots, InTurn, FailedNotAgainKnowing
=============================================================================
