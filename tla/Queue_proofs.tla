---------------------------- MODULE Queue_proofs ----------------------------
(***************************************************************************)
(* What stands before the queue and behind it. A submission key has one    *)
(* effect, a refusal is final and every item of a run is accounted for     *)
(* (KeysHold), for any keys, items, attempts and bounds and every order in *)
(* which requests are lost, delayed, repeated and served. And TextRuns     *)
(* implements TextPromise for any number of prompt runs, slots and faults: *)
(* whatever the row's blind writes meet, a run that ComfyUI may have is    *)
(* never back in the queue.                                                *)
(* Between the two, the claims take the owners in turn and the work of     *)
(* each in order (OwnersInTurn), for any pool of workers.                  *)
(***************************************************************************)
EXTENDS MCQueue, FiniteSetTheorems, SequenceTheorems, WellFoundedInduction, TLAPS

Words == {"nothing", "waiting", "accepted", "refused", "gone", "forgotten"}
RowType == [key : Keys, run : Nat, status : RowStatus]
RunType == [total : Nat, refused : Nat, succeeded : Nat, cancelled : Nat, failed : Nat]

TablesType ==
    /\ receipts \in [Keys -> Seq(Nat)]
    /\ rows \in Seq(RowType)
    /\ runs \in Seq(RunType)

KeysType ==
    /\ pending \in Keys \cup {NoKey}
    /\ told \in [Keys -> Words]
    /\ stale \in [Keys -> Nat]
    /\ TablesType

(* Nothing came of the key so far and nothing is on its way that could.    *)
Quiet(k) == receipts[k] = NoReceipt /\ stale[k] = 0

(* What the tab may conclude: the first attempt of a key is alone, and so  *)
(* is a key that was not offered yet or was refused.                       *)
KnowledgeInv ==
    /\ call.kind # "none" => pending # NoKey
    /\ pending # NoKey => told[pending] = "waiting"
    /\ call.kind = "post" => call.uncertain \/ Quiet(pending)
    /\ \A k \in Keys : told[k] = "nothing" => Quiet(k)
    /\ \A k \in Keys \ Checks : told[k] = "refused" => Quiet(k)

(* A row is named at one place of the receipt of its key, and receipts     *)
(* name rows that exist.                                                   *)
NamedOnce(r) ==
    LET names == receipts[rows[r].key]
    IN  \E i \in DOMAIN names : names[i] = r /\ \A j \in DOMAIN names : names[j] = r => j = i
EffectInv ==
    /\ \A k \in Keys : \A i \in DOMAIN receipts[k] : receipts[k][i] <= Len(rows)
    /\ \A r \in DOMAIN rows : NamedOnce(r)

Members(n) == {r \in DOMAIN rows : rows[r].run = n}
KeptRows(n) == {r \in Members(n) : rows[r].status # "deleted"}
Past(run) == run.refused + run.succeeded + run.cancelled + run.failed
RunsInv ==
    /\ \A r \in DOMAIN rows : rows[r].run \in DOMAIN runs
    /\ \A r \in DOMAIN rows : rows[r].run < Len(runs) => ~Active(r)
    /\ \A n \in DOMAIN runs : runs[n].total = Cardinality(KeptRows(n)) + Past(runs[n])

TablesInv == TablesType /\ EffectInv /\ RunsInv
KeysInv == KeysType /\ KnowledgeInv /\ EffectInv /\ RunsInv
-----------------------------------------------------------------------------
(* Counting.                                                               *)

UpTo(F, k) == Cardinality({j \in F : j <= k})

(* The places of the accepted items are 1, 2, ... in their order, each     *)
(* taken by one of them.                                                   *)
LEMMA PlacesInOrder ==
    ASSUME NEW n \in Nat, NEW F \in SUBSET (1 .. n)
    PROVE  /\ Cardinality(F) \in Nat /\ Cardinality(F) <= n
           /\ \A k \in F : UpTo(F, k) \in 1 .. Cardinality(F)
           /\ \A p \in 1 .. Cardinality(F) : \E k \in F :
                  UpTo(F, k) = p /\ \A l \in F : UpTo(F, l) = p => l = k
    <1> DEFINE c == Cardinality(F)
               at == [k \in F |-> UpTo(F, k)]
    <1>1. IsFiniteSet(F) /\ c \in Nat /\ c <= n
        <2>1. IsFiniteSet(1 .. n) /\ Cardinality(1 .. n) = n
            BY FS_Interval
        <2>2. QED
            BY <2>1, FS_Subset, FS_CardinalityType
    <1>0. \A k \in F : k \in Int
        OBVIOUS
    <1>2. \A k \in F : UpTo(F, k) \in 1 .. c
        <2> SUFFICES ASSUME NEW k \in F PROVE UpTo(F, k) \in 1 .. c
            OBVIOUS
        <2> DEFINE B == {j \in F : j <= k}
        <2>1. k \in B /\ B \subseteq F
            BY <1>0
        <2> HIDE DEF B
        <2>2. IsFiniteSet(B) /\ Cardinality(B) \in Nat /\ Cardinality(B) <= c
            BY <1>1, <2>1, FS_Subset, FS_CardinalityType
        <2>3. Cardinality(B) # 0
            BY <2>1, <2>2, FS_EmptySet
        <2>4. QED
            BY <1>1, <2>2, <2>3 DEF UpTo, B
    <1>3. \A k, l \in F : k < l => UpTo(F, k) < UpTo(F, l)
        <2> SUFFICES ASSUME NEW k \in F, NEW l \in F, k < l PROVE UpTo(F, k) < UpTo(F, l)
            OBVIOUS
        <2> DEFINE B == {j \in F : j <= k}
                   D == {j \in F : j <= l}
        <2>1. B \subseteq D /\ l \in D /\ l \notin B /\ D \subseteq F
            <3>1. (\A j \in F : j <= k => j <= l) /\ ~(l <= k) /\ l <= l
                BY <1>0
            <3>2. QED
                BY <3>1
        <2> HIDE DEF B, D
        <2>2. IsFiniteSet(D) /\ Cardinality(D) \in Nat
            BY <1>1, <2>1, FS_Subset, FS_CardinalityType
        <2>3. Cardinality(B) <= Cardinality(D) /\ Cardinality(B) # Cardinality(D)
              /\ Cardinality(B) \in Nat
            BY <2>1, <2>2, FS_Subset, FS_CardinalityType
        <2>4. QED
            BY <2>2, <2>3 DEF UpTo, B, D
    <1>4. \A k, l \in F : at[k] = at[l] => k = l
        <2>1. \A k, l \in F : k < l \/ l < k \/ k = l
            BY <1>0
        <2> HIDE DEF c
        <2>2. \A k \in F : UpTo(F, k) \in Int
            BY <1>1, <1>2
        <2>3. QED
            BY <1>3, <2>1, <2>2
    <1>5. at \in Injection(F, 1 .. c)
        <2> HIDE DEF c
        <2>1. at \in [F -> 1 .. c]
            BY <1>2
        <2>2. QED
            BY <1>4, <2>1 DEF Injection, IsInjective
    <1>6. at \in Surjection(F, 1 .. c)
        <2> HIDE DEF at
        <2>1. IsFiniteSet(1 .. c) /\ Cardinality(1 .. c) = c
            BY <1>1, FS_Interval
        <2>2. QED
            BY <1>5, <2>1, FS_Injection
    <1>7. \A p \in 1 .. c : \E k \in F : at[k] = p
        <2> HIDE DEF at, c
        <2>1. QED
            BY <1>6 DEF Surjection
    <1>8. QED
        <2>1. \A p \in 1 .. c : \E k \in F : at[k] = p /\ \A l \in F : at[l] = p => l = k
            <3> HIDE DEF at, c
            <3>1. QED
                BY <1>4, <1>7
        <2>2. QED
            BY <1>1, <1>2, <2>1

LEMMA FiniteRows ==
    ASSUME TablesType, NEW S \in SUBSET DOMAIN rows
    PROVE  IsFiniteSet(S) /\ Cardinality(S) \in Nat
    <1>1. DOMAIN rows = 1 .. Len(rows) /\ Len(rows) \in Nat
        BY DEF TablesType
    <1>2. IsFiniteSet(DOMAIN rows)
        BY <1>1, FS_Interval
    <1>3. QED
        BY <1>2, FS_Subset, FS_CardinalityType

-----------------------------------------------------------------------------
(* The server.                                                             *)

LEMMA ExceptAt ==
    ASSUME NEW S, NEW s \in Seq(S), NEW c \in DOMAIN s, NEW v \in S
    PROVE  LET t == [s EXCEPT ![c] = v]
           IN  /\ t \in Seq(S) /\ Len(t) = Len(s) /\ DOMAIN t = DOMAIN s /\ t[c] = v
               /\ \A d \in DOMAIN s : d # c => t[d] = s[d]
    OBVIOUS

LEMMA PastCounts ==
    ASSUME NEW r \in RunType
    PROVE  Past(r) \in Nat /\ r.total \in Nat /\ r.refused \in Nat
    BY DEF RunType, Past

LEMMA TotalSet ==
    ASSUME NEW r \in RunType, NEW e \in Nat
    PROVE  LET v == [r EXCEPT !.total = e]
           IN  v \in RunType /\ v.total = e /\ Past(v) = Past(r)
    BY DEF RunType, Past

LEMMA RefusedSet ==
    ASSUME NEW r \in RunType, NEW e \in Nat
    PROVE  LET v == [r EXCEPT !.refused = e]
           IN  v \in RunType /\ v.total = r.total /\ Past(v) = (Past(r) - r.refused) + e
    BY DEF RunType, Past

LEMMA OutcomeSet ==
    ASSUME NEW r \in RunType, NEW s \in {"succeeded", "cancelled", "failed"}
    PROVE  LET v == [r EXCEPT ![s] = @ + 1]
           IN  v \in RunType /\ v.total = r.total /\ Past(v) = Past(r) + 1
    <1>1. CASE s = "succeeded"
        BY <1>1 DEF RunType, Past
    <1>2. CASE s = "cancelled"
        BY <1>2 DEF RunType, Past
    <1>3. CASE s = "failed"
        BY <1>3 DEF RunType, Past
    <1>4. QED
        BY <1>1, <1>2, <1>3

(* The run that takes n more items is the last one, or a new one after a   *)
(* run with no active member.                                              *)
LEMMA RunTakes ==
    ASSUME TablesType, RunsInv, NEW n \in Nat
    PROVE  LET used == RunsFor(n)
               u == Len(used)
           IN  /\ used \in Seq(RunType) /\ u \in Nat \ {0} /\ DOMAIN used = 1 .. u
               /\ \A m \in DOMAIN used : m # u => m \in DOMAIN runs /\ used[m] = runs[m]
               /\ \/ /\ u = Len(runs) /\ u \in DOMAIN runs
                     /\ used[u].total = runs[u].total + n /\ Past(used[u]) = Past(runs[u])
                  \/ /\ u = Len(runs) + 1
                     /\ used[u].total = n /\ Past(used[u]) = 0
                     /\ \A r \in DOMAIN rows : rows[r].run = Len(runs) => ~Active(r)
    <1> DEFINE last == Len(runs)
               open == last > 0 /\ \E r \in DOMAIN rows : rows[r].run = last /\ Active(r)
               base == IF open THEN runs ELSE Append(runs, NewRun)
               u == Len(base)
               v == [base[u] EXCEPT !.total = @ + n]
    <1>1. runs \in Seq(RunType) /\ last \in Nat /\ DOMAIN runs = 1 .. last
        BY DEF TablesType
    <1>2. NewRun \in RunType /\ NewRun.total = 0 /\ Past(NewRun) = 0
        BY DEF NewRun, RunType, Past
    <1>3. open => u = last /\ base = runs /\ last # 0
        <2>1. open => last # 0
            BY <1>1
        <2> HIDE DEF open
        <2>2. QED
            BY <1>1, <2>1
    <1>4. ~open => /\ u = last + 1 /\ base[u] = NewRun
                   /\ \A m \in 1 .. last : base[m] = runs[m]
        <2> HIDE DEF open
        <2>1. QED
            BY <1>1, <1>2
    <1>5. base \in Seq(RunType) /\ u \in Nat /\ DOMAIN base = 1 .. u
        <2> HIDE DEF open
        <2>1. QED
            BY <1>1, <1>2
    <1>6. ~open => \A r \in DOMAIN rows : rows[r].run = last => ~Active(r)
        <2>1. \A r \in DOMAIN rows : rows[r].run \in DOMAIN runs
            BY DEF RunsInv
        <2>2. last = 0 => \A r \in DOMAIN rows : rows[r].run # last
            BY <1>1, <2>1
        <2>3. QED
            BY <1>1, <2>2
    <1>7. RunsFor(n) = [base EXCEPT ![u] = v]
        BY Zenon DEF RunsFor
    <1> HIDE DEF open, base, u
    <1>8. u # 0 /\ u \in DOMAIN base /\ base[u] \in RunType
        <2>1. u # 0
            BY <1>1, <1>3, <1>4
        <2>2. u \in 1 .. u
            BY <1>5, <2>1
        <2>3. \A m \in DOMAIN base : base[m] \in RunType
            <3>1. base \in Seq(RunType)
                BY <1>5
            <3>2. QED
                BY <3>1
        <2>4. QED
            BY <1>5, <2>1, <2>2, <2>3
    <1>9. v \in RunType /\ v.total = base[u].total + n /\ Past(v) = Past(base[u])
        <2>1. base[u].total + n \in Nat
            BY <1>8, PastCounts
        <2>2. QED
            BY <1>8, <2>1, TotalSet
    <1> HIDE DEF v
    <1>10. /\ RunsFor(n) \in Seq(RunType) /\ Len(RunsFor(n)) = u
           /\ DOMAIN RunsFor(n) = 1 .. u /\ RunsFor(n)[u] = v
           /\ \A m \in 1 .. u : m # u => RunsFor(n)[m] = base[m]
        <2>1. Len(base) = u
            BY DEF u
        <2>2. QED
            BY <1>5, <1>7, <1>8, <1>9, <2>1, ExceptAt
    <1>11. \A m \in 1 .. u : m # u => m \in 1 .. last /\ RunsFor(n)[m] = runs[m]
        BY <1>1, <1>3, <1>4, <1>5, <1>10
    <1>12. CASE open
        BY <1>1, <1>3, <1>5, <1>8, <1>9, <1>10, <1>11, <1>12
    <1>13. CASE ~open
        <2>1. u = last + 1 /\ v.total = n /\ Past(v) = 0
            BY <1>2, <1>4, <1>9, <1>13
        <2>2. QED
            BY <1>1, <1>5, <1>6, <1>8, <1>10, <1>11, <1>13, <2>1
    <1>14. QED
        BY <1>12, <1>13

LEMMA DisjointSum ==
    ASSUME NEW S, NEW T, IsFiniteSet(S), IsFiniteSet(T), S \cap T = {}
    PROVE  Cardinality(S \cup T) = Cardinality(S) + Cardinality(T)
    <1>1. /\ Cardinality(S \cup T) = Cardinality(S) + Cardinality(T) - Cardinality(S \cap T)
          /\ Cardinality(S) \in Nat /\ Cardinality(T) \in Nat
        BY FS_Union, FS_CardinalityType
    <1>2. Cardinality(S \cap T) = 0
        BY FS_EmptySet
    <1>3. QED
        BY <1>1, <1>2

(* An accepted submission: its rows follow those that are there, its       *)
(* receipt names each of them once, and its run counts every item.         *)
LEMMA AcceptKeeps ==
    ASSUME TablesInv, NEW k \in Keys, receipts[k] = NoReceipt,
           NEW ok \in SUBSET (1 .. Items[k]), Accept(k, ok)
    PROVE  TablesInv' /\ \A l \in Keys \ {k} : receipts'[l] = receipts[l]
    <1> DEFINE N == Items[k]
               L == Len(rows)
               c == Cardinality(ok)
               used == RunsFor(N)
               P == [i \in 1 .. N |-> IF i \in ok THEN L + UpTo(ok, i) ELSE 0]
    <1>0. TablesType /\ EffectInv /\ RunsInv
        BY DEF TablesInv
    <1>1. N \in Nat /\ L \in Nat /\ DOMAIN rows = 1 .. L /\ DOMAIN runs = 1 .. Len(runs) /\ Len(runs) \in Nat
        BY <1>0, SubmissionsAssumption DEF TablesType
    <1>2. /\ c \in Nat /\ c <= N
          /\ \A i \in ok : i \in 1 .. N /\ UpTo(ok, i) \in 1 .. c
          /\ \A q \in 1 .. c : \E i \in ok : UpTo(ok, i) = q /\ \A j \in ok : UpTo(ok, j) = q => j = i
        BY <1>1, PlacesInOrder
    <1>3. PICK u \in Nat \ {0} :
          /\ used \in Seq(RunType) /\ u = Len(used) /\ DOMAIN used = 1 .. u
          /\ \A m \in DOMAIN used : m # u => m \in DOMAIN runs /\ used[m] = runs[m]
          /\ \/ /\ u = Len(runs) /\ u \in DOMAIN runs
                /\ used[u].total = runs[u].total + N /\ Past(used[u]) = Past(runs[u])
             \/ /\ u = Len(runs) + 1
                /\ used[u].total = N /\ Past(used[u]) = 0
                /\ \A r \in DOMAIN rows : rows[r].run = Len(runs) => ~Active(r)
        BY <1>0, <1>1, RunTakes
    <1> DEFINE row == [key |-> k, run |-> u, status |-> "active"]
               new == [n \in 1 .. c |-> row]
               v == [used[u] EXCEPT !.refused = @ + N - c]
    <1>4. /\ rows' = rows \o new
          /\ runs' = [used EXCEPT ![u] = v]
          /\ receipts' = [receipts EXCEPT ![k] = P]
        BY <1>3 DEF Accept, UpTo
    <1> HIDE DEF N, used, v, c, P, row, L
    <1>30. /\ u \in Nat /\ u # 0 /\ Len(runs) \in Nat
           /\ u = Len(runs) \/ u = Len(runs) + 1
        BY <1>1, <1>3
    <1>5. P \in Seq(Nat) /\ DOMAIN P = 1 .. N
          /\ \A i \in 1 .. N : P[i] = IF i \in ok THEN L + UpTo(ok, i) ELSE 0
        <2>1. \A i \in 1 .. N : (IF i \in ok THEN L + UpTo(ok, i) ELSE 0) \in Nat
            BY <1>1, <1>2
        <2>2. P \in [1 .. N -> Nat] /\ DOMAIN P = 1 .. N
              /\ \A i \in 1 .. N : P[i] = IF i \in ok THEN L + UpTo(ok, i) ELSE 0
            BY <2>1 DEF P
        <2>3. QED
            BY <1>1, <2>2
    <1>6. /\ receipts' \in [Keys -> Seq(Nat)] /\ receipts'[k] = P
          /\ \A l \in Keys \ {k} : receipts'[l] = receipts[l]
        BY <1>0, <1>4, <1>5 DEF TablesType
    <1>7. /\ rows' \in Seq(RowType) /\ Len(rows') = L + c /\ DOMAIN rows' = 1 .. L + c
          /\ \A r \in 1 .. L : rows'[r] = rows[r]
          /\ \A r \in L + 1 .. L + c : rows'[r] = row
        <2>1. row \in RowType
            <3>1. "active" \in RowStatus /\ u \in Nat
                BY <1>3 DEF RowStatus
            <3>2. QED
                BY <3>1 DEF row, RowType
        <2>2. new \in Seq(RowType) /\ Len(new) = c /\ \A n \in 1 .. c : new[n] = row
            <3>1. new \in [1 .. c -> RowType] /\ \A n \in 1 .. c : new[n] = row
                BY <2>1
            <3> HIDE DEF new
            <3>2. QED
                BY <1>2, <3>1
        <2>3. rows \in Seq(RowType) /\ Len(rows) = L
            BY <1>0 DEF TablesType, L
        <2> HIDE DEF new
        <2>4. /\ rows' \in Seq(RowType) /\ Len(rows') = L + c
              /\ \A i \in 1 .. L + c : rows'[i] = IF i <= L THEN rows[i] ELSE new[i - L]
            BY <1>4, <2>2, <2>3, ConcatProperties
        <2>5. \A r \in 1 .. L : r \in 1 .. L + c /\ r <= L
            BY <1>1, <1>2
        <2>6. \A r \in L + 1 .. L + c : r \in 1 .. L + c /\ ~(r <= L) /\ r - L \in 1 .. c
            BY <1>1, <1>2
        <2>7. DOMAIN rows' = 1 .. Len(rows')
            BY <2>4
        <2>8. QED
            BY <2>2, <2>4, <2>5, <2>6, <2>7
    <1>8. /\ runs' \in Seq(RunType) /\ Len(runs') = u /\ DOMAIN runs' = 1 .. u
          /\ runs'[u].total = used[u].total /\ Past(runs'[u]) = Past(used[u]) + (N - c)
          /\ \A m \in 1 .. u : m # u => m \in DOMAIN runs /\ runs'[m] = runs[m]
        <2>1. u \in DOMAIN used /\ Len(used) = u
            <3>1. Len(used) = u
                BY <1>3
            <3>2. u \in 1 .. u
                BY <1>3
            <3>3. QED
                BY <1>3, <3>1, <3>2
        <2>2. used[u] \in RunType
            BY <1>3, <2>1
        <2>3. used[u].refused + N - c \in Nat /\ used[u].refused \in Nat /\ Past(used[u]) \in Nat
            <3>1. used[u].refused \in Nat /\ Past(used[u]) \in Nat
                BY <2>2, PastCounts
            <3>2. QED
                BY <1>1, <1>2, <3>1
        <2>4. /\ v \in RunType /\ v.total = used[u].total
              /\ Past(v) = (Past(used[u]) - used[u].refused) + (used[u].refused + N - c)
            BY <2>2, <2>3, RefusedSet DEF v
        <2>5. Past(v) = Past(used[u]) + (N - c)
            BY <1>1, <1>2, <2>3, <2>4
        <2>6. /\ runs' \in Seq(RunType) /\ Len(runs') = u /\ DOMAIN runs' = DOMAIN used /\ runs'[u] = v
              /\ \A d \in DOMAIN used : d # u => runs'[d] = used[d]
            BY <1>3, <1>4, <2>1, <2>4, ExceptAt
        <2>7. QED
            BY <1>3, <2>4, <2>5, <2>6
    <1> HIDE DEF new
    <1>9. EffectInv'
        <2>1. ASSUME NEW l \in Keys, NEW i \in DOMAIN receipts'[l]
              PROVE  receipts'[l][i] <= Len(rows')
            <3>1. CASE l = k
                <4>1. i \in 1 .. N /\ receipts'[l][i] = P[i]
                    BY <1>5, <1>6, <2>1, <3>1
                <4>2. P[i] <= L + c
                    BY <1>1, <1>2, <1>5, <4>1
                <4>3. QED
                    BY <1>7, <4>1, <4>2
            <3>2. CASE l # k
                <4>1. receipts'[l] = receipts[l] /\ receipts[l] \in Seq(Nat)
                    BY <1>0, <1>6, <3>2 DEF TablesType
                <4>2. receipts[l][i] <= L /\ receipts[l][i] \in Nat
                    BY <1>0, <2>1, <4>1 DEF EffectInv, L
                <4>3. QED
                    BY <1>1, <1>2, <1>7, <4>1, <4>2
            <3>3. QED
                BY <3>1, <3>2
        <2>2. ASSUME NEW r \in 1 .. L
              PROVE  NamedOnce(r)'
            <3>0. r \in DOMAIN rows /\ rows \in Seq(RowType)
                BY <1>0, <1>1 DEF TablesType
            <3>1. NamedOnce(r) /\ rows[r].key \in Keys /\ rows'[r] = rows[r]
                <4>1. rows[r] \in RowType
                    BY <3>0
                <4>2. rows[r].key \in Keys
                    BY <4>1 DEF RowType
                <4>3. NamedOnce(r)
                    BY <1>0, <3>0 DEF EffectInv
                <4>4. QED
                    BY <1>7, <4>2, <4>3
            <3>2. rows[r].key # k
                BY <3>1 DEF NamedOnce, NoReceipt
            <3>3. receipts'[rows'[r].key] = receipts[rows[r].key]
                BY <1>6, <3>1, <3>2
            <3>4. QED
                BY <3>1, <3>3 DEF NamedOnce
        <2>3. ASSUME NEW r \in L + 1 .. L + c
              PROVE  NamedOnce(r)'
            <3>1. receipts'[rows'[r].key] = P
                BY <1>6, <1>7 DEF row
            <3>2. r - L \in 1 .. c
                BY <1>1, <1>2
            <3>3. PICK i \in ok : UpTo(ok, i) = r - L /\ \A j \in ok : UpTo(ok, j) = r - L => j = i
                BY <1>2, <3>2
            <3>4. i \in 1 .. N
                BY <1>2
            <3>5. P[i] = r
                BY <1>1, <1>5, <3>3, <3>4
            <3>6. ASSUME NEW j \in 1 .. N, P[j] = r PROVE j = i
                <4>1. j \in ok
                    BY <1>1, <1>5, <3>6
                <4>2. UpTo(ok, j) \in Int /\ L + UpTo(ok, j) = r
                    BY <1>2, <1>5, <3>6, <4>1
                <4>3. QED
                    BY <1>1, <3>3, <4>1, <4>2
            <3>7. \E n \in DOMAIN P : P[n] = r /\ \A j \in DOMAIN P : P[j] = r => j = n
                BY <1>5, <3>4, <3>5, <3>6
            <3>8. QED
                BY <3>1, <3>7 DEF NamedOnce
        <2>4. \A r \in DOMAIN rows' : r \in 1 .. L \/ r \in L + 1 .. L + c
            BY <1>1, <1>2, <1>7
        <2>5. QED
            BY <2>1, <2>2, <2>3, <2>4 DEF EffectInv
    <1>10. RunsInv'
        <2>1. /\ \A r \in 1 .. L : rows[r].run \in DOMAIN runs
              /\ \A r \in 1 .. L : rows[r].run < Len(runs) => ~Active(r)
              /\ \A m \in DOMAIN runs : runs[m].total = Cardinality(KeptRows(m)) + Past(runs[m])
            BY <1>0, <1>1 DEF RunsInv
        <2>2. /\ u = Len(runs) \/ u = Len(runs) + 1
              /\ u \in 1 .. u /\ u \in Int
            BY <1>3
        <2>3. \A r \in DOMAIN rows' : rows'[r].run \in DOMAIN runs'
            <3>1. ASSUME NEW r \in 1 .. L PROVE rows'[r].run \in DOMAIN runs'
                <4>1. rows'[r].run \in 1 .. Len(runs)
                    BY <1>1, <1>7, <2>1
                <4>2. QED
                    BY <1>8, <1>30, <4>1
            <3>2. ASSUME NEW r \in L + 1 .. L + c PROVE rows'[r].run \in DOMAIN runs'
                BY <1>7, <1>8, <2>2 DEF row
            <3>3. QED
                BY <1>1, <1>2, <1>7, <3>1, <3>2
        <2>4. \A r \in DOMAIN rows' : rows'[r].run < Len(runs') => ~Active(r)'
            <3>1. ASSUME NEW r \in 1 .. L, rows'[r].run < Len(runs') PROVE ~Active(r)'
                <4>1. rows'[r] = rows[r] /\ rows[r].run \in DOMAIN runs /\ rows[r].run < u
                    BY <1>7, <1>8, <2>1, <3>1
                <4>2. rows[r].run < Len(runs) \/ (u = Len(runs) + 1 /\ rows[r].run = Len(runs))
                    <5>1. rows[r].run \in 1 .. Len(runs) /\ rows[r].run < u
                        BY <1>1, <4>1
                    <5>2. QED
                        BY <1>30, <5>1
                <4>3. ~Active(r)
                    <5>1. CASE rows[r].run < Len(runs)
                        BY <2>1, <5>1
                    <5>2. CASE u = Len(runs) + 1 /\ rows[r].run = Len(runs)
                        <6>1. u # Len(runs)
                            BY <1>30, <5>2
                        <6>2. QED
                            BY <1>1, <1>3, <5>2, <6>1
                    <5>3. QED
                        BY <4>2, <5>1, <5>2
                <4>4. QED
                    BY <4>1, <4>3 DEF Active
            <3>2. ASSUME NEW r \in L + 1 .. L + c PROVE ~(rows'[r].run < Len(runs'))
                BY <1>3, <1>7, <1>8 DEF row
            <3>3. QED
                BY <1>1, <1>2, <1>7, <3>1, <3>2
        <2>5. \A m \in DOMAIN runs' : runs'[m].total = Cardinality(KeptRows(m)') + Past(runs'[m])
            <3>1. ASSUME NEW m \in 1 .. u, m # u
                  PROVE  runs'[m].total = Cardinality(KeptRows(m)') + Past(runs'[m])
                <4>1. KeptRows(m)' = KeptRows(m)
                    <5>1. \A r \in 1 .. L : r \in KeptRows(m)' <=> r \in KeptRows(m)
                        BY <1>1, <1>2, <1>7 DEF KeptRows, Members
                    <5>2. \A r \in L + 1 .. L + c : r \notin KeptRows(m)'
                        BY <1>7, <3>1 DEF KeptRows, Members, row
                    <5>3. KeptRows(m) \subseteq 1 .. L /\ KeptRows(m)' \subseteq (1 .. L) \cup (L + 1 .. L + c)
                        BY <1>1, <1>2, <1>7 DEF KeptRows, Members
                    <5>4. QED
                        BY <5>1, <5>2, <5>3
                <4>2. QED
                    BY <1>8, <2>1, <3>1, <4>1
            <3>2. runs'[u].total = Cardinality(KeptRows(u)') + Past(runs'[u])
                <4>1. KeptRows(u)' = KeptRows(u) \cup (L + 1 .. L + c)
                    <5>1. \A r \in 1 .. L : r \in KeptRows(u)' <=> r \in KeptRows(u)
                        BY <1>1, <1>2, <1>7 DEF KeptRows, Members
                    <5>2. \A r \in L + 1 .. L + c : r \in KeptRows(u)'
                        BY <1>1, <1>2, <1>7 DEF KeptRows, Members, row
                    <5>3. KeptRows(u) \subseteq 1 .. L /\ KeptRows(u)' \subseteq (1 .. L) \cup (L + 1 .. L + c)
                        BY <1>1, <1>2, <1>7 DEF KeptRows, Members
                    <5>4. QED
                        BY <5>1, <5>2, <5>3
                <4>2. IsFiniteSet(KeptRows(u)) /\ Cardinality(KeptRows(u)) \in Nat
                    BY <1>0, FiniteRows DEF KeptRows, Members
                <4>3. IsFiniteSet(L + 1 .. L + c) /\ Cardinality(L + 1 .. L + c) = c
                    <5>1. /\ IsFiniteSet(L + 1 .. L + c)
                          /\ Cardinality(L + 1 .. L + c) = IF L + 1 > L + c THEN 0 ELSE (L + c) - (L + 1) + 1
                        <6>1. L + 1 \in Int /\ L + c \in Int
                            BY <1>1, <1>2
                        <6>2. QED
                            BY <6>1, FS_Interval
                    <5>2. QED
                        BY <1>1, <1>2, <5>1
                <4>4. KeptRows(u) \cap (L + 1 .. L + c) = {}
                    <5>1. KeptRows(u) \subseteq 1 .. L
                        BY <1>1 DEF KeptRows, Members
                    <5>2. QED
                        BY <1>1, <1>2, <5>1
                <4>5. Cardinality(KeptRows(u)') = Cardinality(KeptRows(u)) + c
                    BY <4>1, <4>2, <4>3, <4>4, DisjointSum
                <4>6. CASE u = Len(runs)
                    <5>1. u \in DOMAIN runs /\ runs[u] \in RunType
                          /\ used[u].total = runs[u].total + N /\ Past(used[u]) = Past(runs[u])
                        <6>1. u # Len(runs) + 1
                            BY <1>30, <4>6
                        <6>2. u \in DOMAIN runs /\ runs \in Seq(RunType)
                            BY <1>0, <1>3, <6>1 DEF TablesType
                        <6>3. QED
                            BY <1>3, <6>1, <6>2
                    <5>2. runs[u].total = Cardinality(KeptRows(u)) + Past(runs[u])
                        BY <2>1, <5>1
                    <5>3. runs[u].total \in Nat /\ Past(runs[u]) \in Nat
                        BY <5>1, PastCounts
                    <5>4. QED
                        BY <1>1, <1>2, <1>8, <4>2, <4>5, <5>1, <5>2, <5>3
                <4>7. CASE u = Len(runs) + 1
                    <5>1. KeptRows(u) = {}
                        <6>1. \A r \in DOMAIN rows : rows[r].run # u
                            BY <1>1, <2>1, <4>7
                        <6>2. QED
                            BY <6>1 DEF KeptRows, Members
                    <5>2. Cardinality(KeptRows(u)) = 0
                        BY <5>1, FS_EmptySet
                    <5>3. used[u].total = N /\ Past(used[u]) = 0
                        <6>1. u # Len(runs)
                            BY <1>30, <4>7
                        <6>2. QED
                            BY <1>3, <6>1
                    <5>4. QED
                        BY <1>1, <1>2, <1>8, <4>5, <5>2, <5>3
                <4>8. QED
                    BY <2>2, <4>6, <4>7
            <3>3. QED
                BY <1>8, <3>1, <3>2
        <2>6. QED
            BY <2>3, <2>4, <2>5 DEF RunsInv
    <1>11. QED
        BY <1>6, <1>7, <1>8, <1>9, <1>10 DEF TablesInv, TablesType

LEMMA TablesStay ==
    ASSUME TablesInv, UNCHANGED tables
    PROVE  TablesInv'
    <1>1. receipts' = receipts /\ rows' = rows /\ runs' = runs
        BY DEF tables
    <1>2. TablesType' /\ RunsInv'
        <2>1. \A m : KeptRows(m)' = KeptRows(m)
            BY <1>1 DEF KeptRows, Members
        <2>2. \A r : Active(r)' <=> Active(r)
            BY <1>1 DEF Active
        <2>3. QED
            BY <1>1, <2>1, <2>2 DEF TablesInv, TablesType, RunsInv
    <1>3. EffectInv'
        <2>1. \A r : NamedOnce(r)' <=> NamedOnce(r)
            BY <1>1 DEF NamedOnce
        <2>2. QED
            BY <1>1, <2>1 DEF TablesInv, EffectInv
    <1>4. QED
        BY <1>2, <1>3 DEF TablesInv

LEMMA ServeKeeps ==
    ASSUME TablesInv, NEW k \in Keys, NEW answer, Serve(k, answer)
    PROVE  /\ TablesInv'
           /\ \A l \in Keys \ {k} : receipts'[l] = receipts[l]
           /\ answer # "ok" => receipts' = receipts
           /\ answer = "503" => k \in Checks
    <1>1. CASE answer = Refusal(k) /\ answer # "none" /\ UNCHANGED tables
        <2>1. answer # "503"
            BY <1>1 DEF Refusal
        <2>2. TablesInv'
            BY <1>1, TablesStay
        <2>3. QED
            BY <1>1, <2>1, <2>2 DEF tables
    <1>2. CASE Refusal(k) = "none" /\ answer \in {"422", "503"} /\ UNCHANGED tables
        <2>1. answer = "503" => k \in Checks
            BY <1>2 DEF Serve
        <2>2. TablesInv'
            BY <1>2, TablesStay
        <2>3. QED
            BY <1>2, <2>1, <2>2 DEF tables
    <1>3. ASSUME Refusal(k) = "none", NEW ok \in SUBSET (1 .. Items[k]), answer = "ok", Accept(k, ok)
          PROVE  TablesInv' /\ \A l \in Keys \ {k} : receipts'[l] = receipts[l]
        <2>1. receipts[k] = NoReceipt
            BY <1>3 DEF Refusal
        <2>2. QED
            BY <1>3, <2>1, AcceptKeeps
    <1>4. QED
        BY <1>1, <1>2, <1>3 DEF Serve

-----------------------------------------------------------------------------
(* A row that is settled or deleted.                                       *)

LEMMA RowChanges ==
    ASSUME TablesType, EffectInv, NEW r \in DOMAIN rows, NEW s \in RowStatus,
           rows' = [rows EXCEPT ![r].status = s], receipts' = receipts
    PROVE  /\ rows' \in Seq(RowType) /\ DOMAIN rows' = DOMAIN rows
           /\ \A q \in DOMAIN rows :
                  /\ rows'[q].key = rows[q].key /\ rows'[q].run = rows[q].run
                  /\ rows'[q].status = IF q = r THEN s ELSE rows[q].status
           /\ EffectInv'
    <1> DEFINE v == [rows[r] EXCEPT !.status = s]
    <1>1. rows \in Seq(RowType) /\ rows[r] \in RowType
        BY DEF TablesType
    <1>2. v \in RowType /\ v.key = rows[r].key /\ v.run = rows[r].run /\ v.status = s
        BY <1>1 DEF RowType
    <1>3. rows' = [rows EXCEPT ![r] = v]
        OBVIOUS
    <1> HIDE DEF v
    <1>4. /\ rows' \in Seq(RowType) /\ Len(rows') = Len(rows) /\ DOMAIN rows' = DOMAIN rows
          /\ rows'[r] = v /\ \A q \in DOMAIN rows : q # r => rows'[q] = rows[q]
        BY <1>1, <1>2, <1>3, ExceptAt
    <1>5. \A q \in DOMAIN rows :
              /\ rows'[q].key = rows[q].key /\ rows'[q].run = rows[q].run
              /\ rows'[q].status = IF q = r THEN s ELSE rows[q].status
        BY <1>2, <1>4
    <1>6. EffectInv'
        <2>1. ASSUME NEW q \in DOMAIN rows PROVE NamedOnce(q)'
            <3>1. receipts'[rows'[q].key] = receipts[rows[q].key]
                BY <1>5
            <3>2. NamedOnce(q)
                BY DEF EffectInv
            <3>3. QED
                BY <3>1, <3>2 DEF NamedOnce
        <2>2. QED
            BY <1>4, <2>1 DEF EffectInv
    <1>7. QED
        BY <1>4, <1>5, <1>6

LEMMA SettleKeeps ==
    ASSUME TablesInv, NEW r \in DOMAIN rows, Settle(r)
    PROVE  TablesInv'
    <1>0. TablesType /\ EffectInv /\ RunsInv /\ rows[r].status = "active"
        BY DEF TablesInv, Settle, Active
    <1>1. PICK s \in {"succeeded", "failed", "cancelled"} : rows' = [rows EXCEPT ![r].status = s]
        BY DEF Settle
    <1>2. receipts' = receipts /\ runs' = runs /\ s \in RowStatus
        BY <1>1 DEF Settle, RowStatus
    <1>3. /\ rows' \in Seq(RowType) /\ DOMAIN rows' = DOMAIN rows
          /\ \A q \in DOMAIN rows :
                 /\ rows'[q].key = rows[q].key /\ rows'[q].run = rows[q].run
                 /\ rows'[q].status = IF q = r THEN s ELSE rows[q].status
          /\ EffectInv'
        BY <1>0, <1>1, <1>2, RowChanges
    <1>4. \A m \in DOMAIN runs : KeptRows(m)' = KeptRows(m)
        BY <1>0, <1>1, <1>3 DEF KeptRows, Members
    <1>5. \A q \in DOMAIN rows : Active(q)' => Active(q)
        BY <1>1, <1>3 DEF Active
    <1>6. RunsInv'
        BY <1>0, <1>2, <1>3, <1>4, <1>5 DEF RunsInv
    <1>7. QED
        BY <1>0, <1>2, <1>3, <1>6 DEF TablesInv, TablesType

LEMMA DeleteKeeps ==
    ASSUME TablesInv, NEW r \in DOMAIN rows, Delete(r)
    PROVE  TablesInv'
    <1> DEFINE n == rows[r].run
               s == IF Active(r) THEN "cancelled" ELSE rows[r].status
               v == [runs[n] EXCEPT ![s] = @ + 1]
    <1>0. TablesType /\ EffectInv /\ RunsInv /\ rows[r].status # "deleted"
        BY DEF TablesInv, Delete
    <1>1. /\ rows' = [rows EXCEPT ![r].status = "deleted"] /\ receipts' = receipts
          /\ runs' = [runs EXCEPT ![n] = v]
        BY DEF Delete
    <1>2. s \in {"succeeded", "cancelled", "failed"}
        <2>1. rows[r] \in RowType
            BY <1>0 DEF TablesType
        <2>2. rows[r].status \in RowStatus
            BY <2>1 DEF RowType
        <2>3. QED
            BY <1>0, <2>2 DEF RowStatus, Active
    <1>3. n \in DOMAIN runs /\ runs \in Seq(RunType) /\ runs[n] \in RunType
        BY <1>0 DEF RunsInv, TablesType
    <1> HIDE DEF n, s
    <1>4. v \in RunType /\ v.total = runs[n].total /\ Past(v) = Past(runs[n]) + 1
        BY <1>2, <1>3, OutcomeSet
    <1> HIDE DEF v
    <1>5. /\ runs' \in Seq(RunType) /\ Len(runs') = Len(runs) /\ DOMAIN runs' = DOMAIN runs
          /\ runs'[n] = v /\ \A m \in DOMAIN runs : m # n => runs'[m] = runs[m]
        BY <1>1, <1>3, <1>4, ExceptAt
    <1>6. /\ rows' \in Seq(RowType) /\ DOMAIN rows' = DOMAIN rows
          /\ \A q \in DOMAIN rows :
                 /\ rows'[q].key = rows[q].key /\ rows'[q].run = rows[q].run
                 /\ rows'[q].status = IF q = r THEN "deleted" ELSE rows[q].status
          /\ EffectInv'
        <2>1. "deleted" \in RowStatus
            BY DEF RowStatus
        <2>2. QED
            BY <1>0, <1>1, <2>1, RowChanges
    <1>7. ASSUME NEW m \in DOMAIN runs
          PROVE  runs'[m].total = Cardinality(KeptRows(m)') + Past(runs'[m])
        <2>1. runs[m].total = Cardinality(KeptRows(m)) + Past(runs[m])
            BY <1>0 DEF RunsInv
        <2>2. CASE m = n
            <3>1. KeptRows(m)' = KeptRows(m) \ {r} /\ r \in KeptRows(m)
                BY <1>0, <1>6, <2>2 DEF KeptRows, Members, n
            <3>2. IsFiniteSet(KeptRows(m)) /\ Cardinality(KeptRows(m)) \in Nat
                BY <1>0, FiniteRows DEF KeptRows, Members
            <3>3. Cardinality(KeptRows(m)') = Cardinality(KeptRows(m)) - 1
                BY <3>1, <3>2, FS_RemoveElement
            <3>4. Past(runs[m]) \in Nat
                BY <1>3, <2>2, PastCounts
            <3>5. runs'[m].total = runs[m].total /\ Past(runs'[m]) = Past(runs[m]) + 1
                BY <1>4, <1>5, <2>2
            <3>6. QED
                BY <2>1, <3>2, <3>3, <3>4, <3>5
        <2>3. CASE m # n
            <3>1. KeptRows(m)' = KeptRows(m)
                BY <1>6, <2>3 DEF KeptRows, Members, n
            <3>2. QED
                BY <1>5, <2>1, <2>3, <3>1
        <2>4. QED
            BY <2>2, <2>3
    <1>8. \A q \in DOMAIN rows : Active(q)' => Active(q)
        BY <1>6 DEF Active
    <1>9. RunsInv'
        BY <1>0, <1>5, <1>6, <1>7, <1>8 DEF RunsInv
    <1>10. QED
        BY <1>0, <1>1, <1>5, <1>6, <1>9 DEF TablesInv, TablesType

-----------------------------------------------------------------------------
(* Nothing that happens to one key is news of another.                     *)

LEMMA KnowledgeKeeps ==
    ASSUME KeysInv, NEW k \in Keys, pending = k, NEW word \in Words \ {"nothing"},
           told' = [told EXCEPT ![pending] = word], stale' \in [Keys -> Nat],
           \A l \in Keys \ {k} : stale'[l] = stale[l] /\ receipts'[l] = receipts[l],
           word = "refused" => k \in Checks \/ Quiet(k)',
           \/ pending' = NoKey /\ call' = NoCall
           \/ /\ pending' = pending /\ word = "waiting"
              /\ call' = NoCall \/ call'.uncertain
    PROVE  told' \in [Keys -> Words] /\ pending' \in Keys \cup {NoKey} /\ KnowledgeInv'
    <1>1. told \in [Keys -> Words] /\ NoKey \notin Keys
        BY SubmissionsAssumption DEF KeysInv, KeysType
    <1>2. /\ told' \in [Keys -> Words] /\ told'[pending] = word
          /\ \A l \in Keys \ {k} : told'[l] = told[l]
        BY <1>1
    <1>3. \A l \in Keys \ {k} : Quiet(l) => Quiet(l)'
        BY DEF Quiet
    <1>0. told'[k] = word /\ word # "nothing"
        BY <1>2
    <1>4. \A l \in Keys : told'[l] = "nothing" => Quiet(l)'
        BY <1>0, <1>2, <1>3 DEF KeysInv, KnowledgeInv
    <1>5. \A l \in Keys \ Checks : told'[l] = "refused" => Quiet(l)'
        BY <1>0, <1>2, <1>3 DEF KeysInv, KnowledgeInv
    <1>6. CASE pending' = NoKey /\ call' = NoCall
        BY <1>2, <1>4, <1>5, <1>6 DEF KnowledgeInv, NoCall
    <1>7. CASE pending' = pending /\ word = "waiting" /\ (call' = NoCall \/ call'.uncertain)
        <2>1. pending' # NoKey
            BY <1>1, <1>7
        <2>2. call'.kind = "post" => call'.uncertain
            BY <1>7 DEF NoCall
        <2>3. QED
            BY <1>2, <1>4, <1>5, <1>7, <2>1, <2>2 DEF KnowledgeInv
    <1>8. QED
        BY <1>6, <1>7

LEMMA ToldSame ==
    ASSUME KeysInv, pending \in Keys, told' = told
    PROVE  told' = [told EXCEPT ![pending] = "waiting"]
    <1>1. told \in [Keys -> Words] /\ told[pending] = "waiting"
        BY SubmissionsAssumption DEF KeysInv, KeysType, KnowledgeInv
    <1>2. QED
        BY <1>1

(* A step of the call of the saved key.                                    *)
CallStep ==
    \/ \E answer \in Answers : Answered(answer)
    \/ Unanswered \/ RecoverSubmission \/ Recovered \/ LookupFails \/ Reload

LEMMA CallKeeps ==
    ASSUME KeysInv, CallStep, NEW k \in Keys, pending = k
    PROVE  KeysInv'
    <1>0. /\ TablesInv /\ stale \in [Keys -> Nat] /\ told \in [Keys -> Words]
          /\ call.kind = "post" => call.uncertain \/ Quiet(k)
        BY DEF KeysInv, KeysType, KnowledgeInv, TablesInv
    <1>1. ASSUME TablesInv', stale' \in [Keys -> Nat], NEW word \in Words \ {"nothing"},
                 told' = [told EXCEPT ![pending] = word],
                 \A l \in Keys \ {k} : stale'[l] = stale[l] /\ receipts'[l] = receipts[l],
                 word = "refused" => k \in Checks \/ Quiet(k)',
                 \/ pending' = NoKey /\ call' = NoCall
                 \/ pending' = pending /\ word = "waiting" /\ (call' = NoCall \/ call'.uncertain)
          PROVE  KeysInv'
        <2>1. told' \in [Keys -> Words] /\ pending' \in Keys \cup {NoKey} /\ KnowledgeInv'
            BY <1>1, KnowledgeKeeps
        <2>2. QED
            BY <1>1, <2>1 DEF KeysInv, KeysType, TablesInv
    <1>2. ASSUME TablesInv', stale' \in [Keys -> Nat],
                 pending' = pending, told' = told, call' = NoCall \/ call'.uncertain,
                 \A l \in Keys \ {k} : stale'[l] = stale[l] /\ receipts'[l] = receipts[l]
          PROVE  KeysInv'
        <2>1. told' = [told EXCEPT ![pending] = "waiting"]
            BY <1>2, ToldSame
        <2>2. "waiting" \in Words \ {"nothing"}
            BY DEF Words
        <2>3. QED
            BY <1>1, <1>2, <2>1, <2>2
    <1>3. ASSUME NEW answer \in Answers, Answered(answer)
          PROVE  KeysInv'
        <2>1. /\ TablesInv'
              /\ \A l \in Keys \ {k} : receipts'[l] = receipts[l]
              /\ answer # "ok" => receipts' = receipts
              /\ answer = "503" => k \in Checks
            BY <1>0, <1>3, ServeKeeps DEF Answered
        <2>2. stale' = stale /\ call.kind = "post"
            BY <1>3 DEF Answered
        <2>3. ASSUME NEW word \in {"accepted", "refused"}, Finish(word),
                     word = "refused" => k \in Checks \/ Quiet(k)'
              PROVE  KeysInv'
            <3>1. word \in Words \ {"nothing"}
                BY DEF Words
            <3>2. QED
                BY <1>0, <1>1, <2>1, <2>2, <2>3, <3>1 DEF Finish
        <2>4. ASSUME Unknown PROVE KeysInv'
            BY <1>0, <1>2, <2>1, <2>2, <2>4 DEF Unknown
        <2>5. CASE answer = "ok"
            BY <1>3, <2>3, <2>5 DEF Answered
        <2>6. CASE answer = "503"
            BY <1>3, <2>1, <2>3, <2>6 DEF Answered
        <2>7. CASE answer \notin {"ok", "503"}
            <3>1. Concludes
                BY <1>3, <2>7 DEF Answered
            <3>2. CASE call.uncertain
                BY <2>4, <3>1, <3>2 DEF Concludes
            <3>3. CASE ~call.uncertain
                <4>1. Quiet(k)'
                    BY <1>0, <2>1, <2>2, <2>7, <3>3 DEF Quiet
                <4>2. Finish("refused")
                    BY <3>1, <3>3 DEF Concludes
                <4>3. QED
                    BY <2>3, <4>1, <4>2
            <3>4. QED
                BY <3>2, <3>3
        <2>8. QED
            BY <2>5, <2>6, <2>7
    <1>4. CASE Unanswered
        <2>1. pending' = pending /\ told' = told /\ (call' = NoCall \/ call'.uncertain)
            BY <1>4 DEF Unanswered, Retries, Unknown, Post
        <2>2. /\ TablesInv' /\ stale' \in [Keys -> Nat]
              /\ \A l \in Keys \ {k} : stale'[l] = stale[l] /\ receipts'[l] = receipts[l]
            <3>1. CASE UNCHANGED <<stale, tables>>
                BY <1>0, <3>1, TablesStay DEF tables
            <3>2. ASSUME UNCHANGED stale, NEW answer, Serve(pending, answer)
                  PROVE  /\ TablesInv' /\ stale' \in [Keys -> Nat]
                         /\ \A l \in Keys \ {k} : stale'[l] = stale[l] /\ receipts'[l] = receipts[l]
                BY <1>0, <3>2, ServeKeeps
            <3>3. CASE stale' = [stale EXCEPT ![pending] = @ + 1] /\ UNCHANGED tables
                BY <1>0, <3>3, TablesStay DEF tables
            <3>4. QED
                BY <1>4, <3>1, <3>2, <3>3 DEF Unanswered
        <2>3. QED
            BY <1>2, <2>1, <2>2
    <1>5. CASE RecoverSubmission
        BY <1>0, <1>2, <1>5, TablesStay DEF RecoverSubmission, tables
    <1>6. CASE Recovered
        <2>1. /\ TablesInv' /\ stale' \in [Keys -> Nat]
              /\ \A l \in Keys \ {k} : stale'[l] = stale[l] /\ receipts'[l] = receipts[l]
            BY <1>0, <1>6, TablesStay DEF Recovered, tables
        <2>2. \/ \E word \in {"accepted", "gone"} : Finish(word)
              \/ Post(1, TRUE) /\ UNCHANGED <<pending, told>>
            BY <1>6 DEF Recovered
        <2>3. ASSUME NEW word \in {"accepted", "gone"}, Finish(word)
              PROVE  KeysInv'
            <3>1. word \in Words \ {"nothing"} /\ word # "refused"
                BY DEF Words
            <3>2. QED
                BY <1>1, <2>1, <2>3, <3>1 DEF Finish
        <2>4. CASE Post(1, TRUE) /\ UNCHANGED <<pending, told>>
            BY <1>2, <2>1, <2>4 DEF Post
        <2>5. QED
            BY <2>2, <2>3, <2>4
    <1>7. CASE LookupFails
        BY <1>0, <1>2, <1>7, TablesStay DEF LookupFails, Unknown, tables
    <1>8. CASE Reload
        <2>1. /\ stale' \in [Keys -> Nat] /\ \A l \in Keys \ {k} : stale'[l] = stale[l]
            BY <1>0, <1>8 DEF Reload
        <2>2. QED
            BY <1>0, <1>2, <1>8, <2>1, TablesStay DEF Reload, Unknown, tables
    <1>9. QED
        BY <1>3, <1>4, <1>5, <1>6, <1>7, <1>8 DEF CallStep

LEMMA SubmitKeeps ==
    ASSUME KeysInv, NEW k \in Keys, SubmitGeneration(k)
    PROVE  KeysInv'
    <1>1. TablesInv /\ Quiet(k) /\ told \in [Keys -> Words] /\ k # NoKey
        BY SubmissionsAssumption DEF KeysInv, KeysType, KnowledgeInv, TablesInv, SubmitGeneration
    <1>2. /\ pending' = k /\ told' = [told EXCEPT ![k] = "waiting"] /\ stale' = stale
          /\ call'.kind = "post" /\ UNCHANGED tables
        BY DEF SubmitGeneration, Post
    <1>3. TablesInv'
        BY <1>1, <1>2, TablesStay
    <1>4. \A l \in Keys : Quiet(l)' <=> Quiet(l)
        BY <1>2 DEF Quiet, tables
    <1>5. /\ told' \in [Keys -> Words] /\ told'[k] = "waiting"
          /\ \A l \in Keys \ {k} : told'[l] = told[l]
        BY <1>1, <1>2 DEF Words
    <1>6. KnowledgeInv'
        <2>1. \A l \in Keys : told'[l] = "nothing" => Quiet(l)'
            BY <1>4, <1>5 DEF KeysInv, KnowledgeInv
        <2>2. \A l \in Keys \ Checks : told'[l] = "refused" => Quiet(l)'
            BY <1>4, <1>5 DEF KeysInv, KnowledgeInv
        <2>3. Quiet(pending)'
            BY <1>1, <1>2, <1>4 DEF Quiet
        <2>4. QED
            BY <1>1, <1>2, <1>5, <2>1, <2>2, <2>3 DEF KnowledgeInv
    <1>7. QED
        BY <1>2, <1>3, <1>5, <1>6 DEF KeysInv, KeysType, TablesInv

LEMMA ServeStaleKeeps ==
    ASSUME KeysInv, NEW k \in Keys, ServeStale(k)
    PROVE  KeysInv'
    <1>1. /\ TablesInv /\ ~Quiet(k) /\ stale \in [Keys -> Nat]
          /\ pending # NoKey => pending \in Keys
        BY DEF KeysInv, KeysType, TablesInv, ServeStale, Quiet
    <1>2. TablesInv' /\ \A l \in Keys \ {k} : receipts'[l] = receipts[l]
        BY <1>1, ServeKeeps DEF ServeStale
    <1>3. /\ stale' \in [Keys -> Nat] /\ \A l \in Keys \ {k} : stale'[l] = stale[l]
          /\ pending' = pending /\ call' = call /\ told' = told
        BY <1>1 DEF ServeStale, tab
    <1>4. \A l \in Keys : Quiet(l) => Quiet(l)'
        BY <1>1, <1>2, <1>3 DEF Quiet
    <1>5. KnowledgeInv'
        <2>1. call.kind = "post" /\ ~call.uncertain => Quiet(pending)'
            <3>1. \A l \in Keys : l = pending /\ Quiet(l)' => Quiet(pending)'
                BY <1>3 DEF Quiet
            <3>2. call.kind = "post" /\ ~call.uncertain => pending \in Keys /\ Quiet(pending)
                BY <1>1 DEF KeysInv, KnowledgeInv
            <3>3. QED
                BY <1>4, <3>1, <3>2
        <2>2. QED
            BY <1>3, <1>4, <2>1 DEF KeysInv, KnowledgeInv
    <1>6. QED
        BY <1>2, <1>3, <1>5 DEF KeysInv, KeysType, TablesInv

LEMMA TabStays ==
    ASSUME KeysInv, TablesInv', UNCHANGED <<tab, stale, receipts>>
    PROVE  KeysInv'
    <1>1. KnowledgeInv'
        BY DEF KeysInv, KnowledgeInv, Quiet, tab
    <1>2. QED
        BY <1>1 DEF KeysInv, KeysType, TablesInv, tab

LEMMA CloseAccountKeeps ==
    ASSUME KeysInv, CloseAccount
    PROVE  KeysInv'
    <1>1. /\ TablesInv /\ stale \in [Keys -> Nat] /\ pending \in Keys \cup {NoKey}
          /\ call.kind = "post" => pending # NoKey
        BY DEF KeysInv, KeysType, TablesInv, KnowledgeInv
    <1>2. TablesInv' /\ receipts' = receipts
        BY <1>1, TablesStay DEF CloseAccount, tables
    <1>3. CASE pending = NoKey
        BY <1>1, <1>2, <1>3, TabStays DEF CloseAccount
    <1>4. ASSUME NEW k \in Keys, pending = k
          PROVE  KeysInv'
        <2>1. k # NoKey
            BY SubmissionsAssumption
        <2>2. stale' \in [Keys -> Nat] /\ \A l \in Keys \ {k} : stale'[l] = stale[l]
            BY <1>1, <1>4 DEF CloseAccount
        <2>3. told' = [told EXCEPT ![pending] = "forgotten"] /\ pending' = NoKey /\ call' = NoCall
            BY <1>4, <2>1 DEF CloseAccount, Finish
        <2>4. "forgotten" \in Words \ {"nothing"} /\ "forgotten" # "refused"
            BY DEF Words
        <2>5. told' \in [Keys -> Words] /\ pending' \in Keys \cup {NoKey} /\ KnowledgeInv'
            BY <1>2, <1>4, <2>2, <2>3, <2>4, KnowledgeKeeps
        <2>6. QED
            BY <1>2, <2>2, <2>5 DEF KeysInv, KeysType, TablesInv
    <1>5. QED
        BY <1>1, <1>3, <1>4

-----------------------------------------------------------------------------
LEMMA KeysInitially == SubmissionsInit => KeysInv
    <1> SUFFICES ASSUME SubmissionsInit PROVE KeysInv
        OBVIOUS
    <1>1. KeysType
        BY EmptySeq DEF SubmissionsInit, KeysType, TablesType, Words, NoReceipt
    <1>2. KnowledgeInv
        BY DEF SubmissionsInit, KnowledgeInv, NoCall, Quiet
    <1>3. EffectInv /\ RunsInv
        <2>1. \A k \in Keys : DOMAIN receipts[k] = {}
            BY DEF SubmissionsInit, NoReceipt
        <2>2. DOMAIN rows = {} /\ DOMAIN runs = {}
            BY DEF SubmissionsInit
        <2>3. QED
            BY <2>1, <2>2 DEF EffectInv, RunsInv
    <1>4. QED
        BY <1>1, <1>2, <1>3 DEF KeysInv

LEMMA KeysInductive ==
    ASSUME KeysInv, [SubmissionsNext]_submissionVars
    PROVE  KeysInv'
    <1>0. TablesInv /\ pending \in Keys \cup {NoKey}
        BY DEF KeysInv, KeysType, TablesInv
    <1>1. ASSUME NEW k \in Keys, SubmitGeneration(k) PROVE KeysInv'
        BY <1>1, SubmitKeeps
    <1>2. ASSUME NEW k \in Keys, ServeStale(k) PROVE KeysInv'
        BY <1>2, ServeStaleKeeps
    <1>3. CASE CallStep
        <2>1. pending # NoKey \/ Reload
            BY <1>3 DEF CallStep, Answered, Unanswered, RecoverSubmission, Recovered, LookupFails,
                        KeysInv, KnowledgeInv
        <2>2. CASE pending # NoKey
            BY <1>0, <1>3, <2>2, CallKeeps
        <2>3. CASE Reload /\ pending = NoKey
            <3>1. call.kind = "none"
                BY <2>3 DEF KeysInv, KnowledgeInv
            <3>2. TablesInv' /\ stale' = stale /\ pending' = pending /\ told' = told /\ call' = NoCall
                  /\ receipts' = receipts
                BY <1>0, <2>3, <3>1, TablesStay DEF Reload, Unknown, tables
            <3>3. KnowledgeInv'
                BY <2>3, <3>2 DEF KeysInv, KnowledgeInv, Quiet, NoCall
            <3>4. QED
                BY <3>2, <3>3 DEF KeysInv, KeysType, TablesInv
        <2>4. QED
            BY <2>1, <2>2, <2>3
    <1>4. ASSUME NEW r \in DOMAIN rows, Settle(r) PROVE KeysInv'
        <2>1. TablesInv' /\ UNCHANGED <<tab, stale, receipts>>
            BY <1>0, <1>4, SettleKeeps DEF Settle
        <2>2. QED
            BY <2>1, TabStays
    <1>5. ASSUME NEW r \in DOMAIN rows, Delete(r) PROVE KeysInv'
        <2>1. TablesInv' /\ UNCHANGED <<tab, stale, receipts>>
            BY <1>0, <1>5, DeleteKeeps DEF Delete
        <2>2. QED
            BY <2>1, TabStays
    <1>6. CASE Toggle
        <2>1. TablesInv' /\ UNCHANGED <<tab, stale, receipts>>
            BY <1>0, <1>6, TablesStay DEF Toggle, tables
        <2>2. QED
            BY <2>1, TabStays
    <1>7. CASE CloseAccount
        BY <1>7, CloseAccountKeeps
    <1>8. CASE UNCHANGED submissionVars
        <2>1. TablesInv' /\ UNCHANGED <<tab, stale, receipts>>
            BY <1>0, <1>8, TablesStay DEF submissionVars, tables
        <2>2. QED
            BY <2>1, TabStays
    <1>9. QED
        BY <1>1, <1>2, <1>3, <1>4, <1>5, <1>6, <1>7, <1>8 DEF SubmissionsNext, TabStep, CallStep

LEMMA KeysFollow == ASSUME KeysInv PROVE KeysHold
    <1>1. OncePerKey
        <2> SUFFICES ASSUME NEW r \in DOMAIN rows
                     PROVE  LET k == rows[r].key
                            IN  /\ receipts[k] # NoReceipt
                                /\ Cardinality({i \in DOMAIN receipts[k] : receipts[k][i] = r}) = 1
            BY DEF OncePerKey
        <2> DEFINE names == receipts[rows[r].key]
        <2>1. PICK i \in DOMAIN names : names[i] = r /\ \A j \in DOMAIN names : names[j] = r => j = i
            BY DEF KeysInv, EffectInv, NamedOnce
        <2>2. {j \in DOMAIN names : names[j] = r} = {i}
            BY <2>1
        <2>3. names # NoReceipt
            BY <2>1 DEF NoReceipt
        <2>4. QED
            BY <2>2, <2>3, FS_Singleton
    <1>2. RefusedMeansRefused
        BY DEF KeysInv, KnowledgeInv, RefusedMeansRefused, Quiet
    <1>3. RunsComplete
        <2> SUFFICES ASSUME NEW n \in DOMAIN runs
                     PROVE  LET members == {r \in DOMAIN rows : rows[r].run = n}
                                kept == {r \in members : rows[r].status # "deleted"}
                                run == runs[n]
                            IN  /\ n < Len(runs) => \A r \in members : ~Active(r)
                                /\ run.total = Cardinality(kept) + run.refused
                                               + run.succeeded + run.cancelled + run.failed
            BY DEF RunsComplete
        <2>1. runs[n] \in RunType
            BY DEF KeysInv, KeysType, TablesType
        <2>2. /\ \A r \in DOMAIN rows : rows[r].run < Len(runs) => ~Active(r)
              /\ runs[n].total = Cardinality(KeptRows(n)) + Past(runs[n])
            BY DEF KeysInv, RunsInv
        <2>3. Cardinality(KeptRows(n)) \in Nat
            BY FiniteRows DEF KeysInv, KeysType, KeptRows, Members
        <2>4. runs[n].total = Cardinality(KeptRows(n)) + runs[n].refused
                             + runs[n].succeeded + runs[n].cancelled + runs[n].failed
            BY <2>1, <2>2, <2>3 DEF Past, RunType
        <2>5. QED
            BY <2>2, <2>4 DEF KeptRows, Members
    <1>4. QED
        BY <1>1, <1>2, <1>3 DEF KeysHold

(* The tab, the network, the server and the rest of the system keep what   *)
(* the first attempt of a key, its receipt and its run have been told:     *)
(* KeysInv is an invariant.                                                *)
THEOREM SubmissionsInvariance == SubmissionsSpec => []KeysInv
    <1>1. KeysInv /\ [SubmissionsNext]_submissionVars => KeysInv'
        BY KeysInductive
    <1>2. QED
        BY <1>1, KeysInitially, PTL DEF SubmissionsSpec

(* A key has one effect however often it is offered, a key the tab was     *)
(* told is refused has none, and every item of a run stays accounted for.  *)
THEOREM KeysAreKept == SubmissionsSpec => []KeysHold
    <1>1. KeysInv => KeysHold
        BY KeysFollow
    <1>2. QED
        BY <1>1, SubmissionsInvariance, PTL

-----------------------------------------------------------------------------
(* Prompt runs. The row and the executor's stage follow each other         *)
(* (RowOf): a stage is only reached over rows that fit it, and a row that  *)
(* is queued or dispatching belongs to a run ComfyUI never had.            *)

(* The row, the recorded prompt and the submissions of a run at each stage *)
(* of its executor.                                                        *)
Fresh(t) == t \notin saved /\ sent[t] = 0
RowOf(t) ==
    /\ executor[t] \in {"mark"} => status[t] = "dispatching"
    /\ executor[t] \in {"submit", "requeue"} => status[t] = "submitting" /\ Fresh(t)
    /\ executor[t] = "save" => status[t] = "submitting" /\ t \notin saved /\ sent[t] > 0
    /\ executor[t] \in {"poll", "succeed"} => status[t] = "running"
    /\ executor[t] = "fail" => status[t] \in {"submitting", "running"}
    /\ executor[t] = "load" => status[t] \in {"dispatching", "running", "succeeded", "failed"}
    /\ executor[t] = "end" => status[t] \in TextFinal \cup {"queued", "dispatching"}
    /\ status[t] \in {"queued", "dispatching"} => Fresh(t)
    /\ status[t] = "queued" => executor[t] \in {"none", "end"}
    /\ status[t] = "submitting" => t \notin saved
    /\ status[t] = "running" => t \in saved /\ sent[t] > 0

(* Before the dispatcher is up only a run with a prompt has an executor,   *)
(* and none does if the instance is gone.  So nobody but recovery touches  *)
(* a run it listed without one, unless it is discarded.                    *)
Early == process \in {"starting", "recovering"}
Listed(t) ==
    /\ Early /\ executor[t] # "none" => runtime /\ t \in saved
    /\ listed[t] # "no" => process = "recovering"
    /\ listed[t] = "queue" => status[t] = "dispatching"
    /\ listed[t] = "watch" => runtime /\ t \in saved /\ status[t] \in {"running", "succeeded", "failed"}
    /\ listed[t] = "fail" => /\ executor[t] = "none"
                             /\ status[t] \in TextActive \/ (status[t] = "discarded" /\ sent[t] = 0)

TextRunsInv ==
    /\ status \in [Texts -> TextActive \cup TextFinal]
    /\ executor \in [Texts -> Stages]
    /\ sent \in [Texts -> Nat]
    /\ process \in {"down", "starting", "recovering", "up", "stopping"}
    /\ listed \in [Texts -> {"no", "fail", "queue", "watch"}]
    /\ process = "down" => \A t \in Texts : executor[t] = "none" /\ listed[t] = "no"
    /\ \A t \in Kept : RowOf(t) /\ Listed(t)

-----------------------------------------------------------------------------
LEMMA InvInit == TextRunsInit => TextRunsInv
  BY SMT DEF TextRunsInit, TextRunsInv, RowOf, Listed, Early, Fresh, Stages, TextActive, TextFinal, Kept

(* A step of one executor, or of what happens to its run.                  *)
LEMMA InvExecutor ==
    ASSUME TextRunsInv, NEW u \in Texts, Claim(u) \/ Execute(u) \/ NativeEnds(u) \/ Discard(u) \/ Abandon(u)
    PROVE  TextRunsInv'
  <1> USE DEF TextRunsInv, RowOf, Listed, Early, Fresh, Stages, TextActive, TextFinal, Goes, Sets, Kept, recoveryVars
  <1>1. CASE Claim(u) BY <1>1 DEF Claim
  <1>2. CASE Load(u) BY <1>2 DEF Load
  <1>3. CASE Mark(u) BY <1>3 DEF Mark
  <1>4. CASE Submit(u) BY <1>4 DEF Submit, Reaches
  <1>5. CASE Save(u) BY <1>5 DEF Save
  <1>6. CASE Poll(u) BY <1>6 DEF Poll
  <1>7. CASE Conclude(u) BY <1>7 DEF Conclude
  <1>8. CASE End(u) BY <1>8 DEF End
  <1>9. CASE NativeEnds(u) BY <1>9 DEF NativeEnds
  <1>10. CASE Discard(u) BY <1>10 DEF Discard
  <1>11. CASE Abandon(u) BY <1>11 DEF Abandon
  <1> QED BY <1>1, <1>2, <1>3, <1>4, <1>5, <1>6, <1>7, <1>8, <1>9, <1>10, <1>11 DEF Execute

(* The end of the process, its start and recovery.                         *)
LEMMA InvProcess ==
    ASSUME TextRunsInv, Stop \/ Crash \/ Recovery \/ RecoverAgain
    PROVE  TextRunsInv'
  <1> USE DEF TextRunsInv, RowOf, Listed, Early, Fresh, Stages, TextActive, TextFinal, Kept
  <1>1. CASE Stop BY <1>1 DEF Stop, Nothing, Cancels
  <1>2. CASE Crash BY <1>2 DEF Crash, Nothing
  <1>3. ASSUME NEW configured \in BOOLEAN, Begin(configured) PROVE TextRunsInv'
    BY <1>3 DEF Begin
  <1>4. CASE List BY <1>4 DEF List, Verdict
  <1>5. ASSUME NEW u \in Texts, Recover(u) PROVE TextRunsInv'
    <2>1. CASE listed[u] = "fail" BY <1>5, <2>1 DEF Recover, Sets
    <2>2. CASE listed[u] = "queue" BY <1>5, <2>2 DEF Recover, Sets
    <2>3. CASE listed[u] = "watch" BY <1>5, <2>3 DEF Recover, Goes
    <2> QED BY <1>5, <2>1, <2>2, <2>3 DEF Recover
  <1>6. CASE Ready BY <1>6 DEF Ready, Nothing
  <1>7. CASE RecoverAgain BY <1>7 DEF RecoverAgain, Nothing
  <1> QED BY <1>1, <1>2, <1>3, <1>4, <1>5, <1>6, <1>7 DEF Recovery

LEMMA InvNext == TextRunsInv /\ [TextRunsNext]_textVars => TextRunsInv'
  <1> SUFFICES ASSUME TextRunsInv, [TextRunsNext]_textVars PROVE TextRunsInv' OBVIOUS
  <1>1. CASE UNCHANGED textVars BY <1>1 DEF textVars, TextRunsInv, RowOf, Listed, Early, Fresh, Kept
  <1> QED BY <1>1, InvExecutor, InvProcess DEF TextRunsNext

(* What holds of every run, row, executor and prompt in every state.       *)
THEOREM TextRunsInvariance == TextRunsSpec => []TextRunsInv
  <1> QED BY InvInit, InvNext, PTL DEF TextRunsSpec

-----------------------------------------------------------------------------
(* What the promise sees of a state.                                       *)
PromiseView == <<Outcome, {t \in Kept : sent[t] > 0}>>

(* A step of one run is a step of the promise for it, or is not seen.      *)
LEMMA ExecutorKeeps ==
    ASSUME TextRunsInv, NEW u \in Texts, Claim(u) \/ Execute(u) \/ NativeEnds(u) \/ Discard(u) \/ Abandon(u)
    PROVE  Promise!TextPromiseNext \/ UNCHANGED PromiseView
  <1> USE DEF TextRunsInv, TextActive, TextFinal, Goes, Sets, Kept, Outcome, PromiseView, Promise!To
  <1>1. CASE u \notin Kept
    <2>1. \A t \in Kept : status'[t] = status[t] /\ sent'[t] = sent[t]
      BY <1>1 DEF Claim, Execute, Load, Mark, Submit, Reaches, Save, Poll, Conclude, End,
                  NativeEnds, Discard, Abandon
    <2> QED BY <2>1
  <1>2. CASE u \in Kept
    <2>1. CASE Claim(u)
      <3>1. Promise!Starts(u) BY <1>2, <2>1 DEF Claim, Promise!Starts
      <3> QED BY <1>2, <3>1 DEF Promise!TextPromiseNext
    <2>2. CASE Load(u) \/ Poll(u) \/ End(u) \/ NativeEnds(u)
      BY <2>2 DEF Load, Poll, End, NativeEnds
    <2>3. CASE Mark(u) BY <1>2, <2>3 DEF Mark, RowOf
    <2>4. CASE Submit(u)
      <3>1. status[u] = "submitting" /\ sent[u] = 0 BY <1>2, <2>4 DEF Submit, RowOf, Fresh
      <3>2. Promise!Gives(u) \/ UNCHANGED PromiseView
        BY <1>2, <2>4, <3>1 DEF Submit, Reaches, Promise!Gives
      <3> QED BY <1>2, <3>2 DEF Promise!TextPromiseNext
    <2>5. CASE Save(u) BY <1>2, <2>5 DEF Save, RowOf
    <2>6. CASE Conclude(u)
      <3>1. CASE executor[u] = "succeed"
        <4>1. Promise!Succeeds(u) BY <1>2, <2>6, <3>1 DEF Conclude, RowOf, Promise!Succeeds
        <4> QED BY <1>2, <4>1 DEF Promise!TextPromiseNext
      <3>2. CASE executor[u] = "fail"
        <4>1. Promise!Fails(u) BY <1>2, <2>6, <3>2 DEF Conclude, RowOf, Promise!Fails
        <4> QED BY <1>2, <4>1 DEF Promise!TextPromiseNext
      <3>3. CASE executor[u] = "requeue"
        <4>1. status[u] = "submitting" /\ sent[u] = 0 BY <1>2, <3>3 DEF RowOf, Fresh
        <4>2. status' = [status EXCEPT ![u] = "queued"] /\ sent' = sent BY <2>6, <3>3 DEF Conclude
        <4>3. Outcome[u] = "active" /\ u \notin {t \in Kept : sent[t] > 0} BY <1>2, <4>1
        <4>4. Outcome' = [Outcome EXCEPT ![u] = "queued"] BY <1>2, <4>2
        <4>5. UNCHANGED {t \in Kept : sent[t] > 0} BY <4>2
        <4>6. Promise!Returns(u) BY <4>3, <4>4, <4>5 DEF Promise!Returns
        <4> QED BY <1>2, <4>6 DEF Promise!TextPromiseNext
      <3> QED BY <2>6, <3>1, <3>2, <3>3 DEF Conclude
    <2>7. CASE Discard(u)
      <3>1. Promise!Discards(u) BY <1>2, <2>7 DEF Discard, Promise!Discards
      <3> QED BY <1>2, <3>1 DEF Promise!TextPromiseNext
    <2>8. CASE Abandon(u) BY <1>2, <2>8 DEF Abandon
    <2> QED BY <2>1, <2>2, <2>3, <2>4, <2>5, <2>6, <2>7, <2>8 DEF Execute
  <1> QED BY <1>1, <1>2

(* Of a stop, a crash and a start only what recovery does with each run is *)
(* seen.                                                                   *)
LEMMA ProcessKeeps ==
    ASSUME TextRunsInv, Stop \/ Crash \/ Recovery \/ RecoverAgain
    PROVE  Promise!TextPromiseNext \/ UNCHANGED PromiseView
  <1> USE DEF TextRunsInv, TextActive, TextFinal, Kept, Outcome, PromiseView, Promise!To
  <1>1. CASE \/ Stop \/ Crash \/ List \/ Ready \/ RecoverAgain
             \/ \E configured \in BOOLEAN : Begin(configured)
    BY <1>1 DEF Stop, Crash, List, Ready, RecoverAgain, Begin
  <1>2. ASSUME NEW u \in Texts, Recover(u) PROVE Promise!TextPromiseNext \/ UNCHANGED PromiseView
    <2>1. CASE u \notin Kept \/ listed[u] = "watch"
      <3>1. \A t \in Kept : status'[t] = status[t] /\ sent'[t] = sent[t] BY <1>2, <2>1 DEF Recover, Sets
      <3> QED BY <3>1
    <2>2. CASE u \in Kept /\ listed[u] = "queue"
      <3>1. status[u] = "dispatching" /\ sent[u] = 0 BY <2>2 DEF RowOf, Listed, Fresh
      <3>2. status' = [status EXCEPT ![u] = "queued"] /\ sent' = sent BY <1>2, <2>2 DEF Recover, Sets
      <3>3. Outcome[u] = "active" /\ u \notin {t \in Kept : sent[t] > 0} BY <2>2, <3>1
      <3>4. Outcome' = [Outcome EXCEPT ![u] = "queued"] BY <2>2, <3>2
      <3>5. UNCHANGED {t \in Kept : sent[t] > 0} BY <3>2
      <3>6. Promise!Returns(u) BY <3>3, <3>4, <3>5 DEF Promise!Returns
      <3> QED BY <2>2, <3>6 DEF Promise!TextPromiseNext
    <2>3. CASE u \in Kept /\ listed[u] = "fail"
      <3>1. status[u] \in TextActive \/ (status[u] = "discarded" /\ sent[u] = 0) BY <2>3 DEF Listed
      <3>2. status' = [status EXCEPT ![u] = "failed"] /\ sent' = sent BY <1>2, <2>3 DEF Recover, Sets
      <3>3. \/ Outcome[u] \in {"queued", "active"}
            \/ Outcome[u] = "discarded" /\ u \notin {t \in Kept : sent[t] > 0}
        BY <2>3, <3>1
      <3>4. Outcome' = [Outcome EXCEPT ![u] = "failed"] BY <2>3, <3>2
      <3>5. UNCHANGED {t \in Kept : sent[t] > 0} BY <3>2
      <3>6. Promise!Fails(u) \/ Promise!Retells(u) BY <3>3, <3>4, <3>5 DEF Promise!Fails, Promise!Retells
      <3> QED BY <2>3, <3>6 DEF Promise!TextPromiseNext
    <2> QED BY <1>2, <2>1, <2>2, <2>3 DEF Recover
  <1> QED BY <1>1, <1>2 DEF Recovery

(* Prompt runs keep the promise the preparations rely on: ComfyUI is given *)
(* a run at most once, a run goes back to the queue only if it was not,    *)
(* success and failure stay, and a discarded run is never taken up again   *)
(* (a recovery that listed it before may write that it failed), through    *)
(* lost answers, stops, crashes and recovery, for every run of an account  *)
(* that is not being deleted.                                              *)
THEOREM TextPromiseKept == TextRunsSpec => KeepsTextPromise
  <1>1. TextRunsInit => Promise!TextPromiseInit
    BY DEF TextRunsInit, Promise!TextPromiseInit, Outcome, Kept, TextFinal
  <1>2. TextRunsInv /\ [TextRunsNext]_textVars => [Promise!TextPromiseNext]_(Promise!textPromiseVars)
    <2> SUFFICES ASSUME TextRunsInv, [TextRunsNext]_textVars
                 PROVE  Promise!TextPromiseNext \/ UNCHANGED PromiseView
      BY DEF PromiseView, Promise!textPromiseVars
    <2>1. CASE UNCHANGED textVars BY <2>1 DEF textVars, PromiseView, Outcome, Kept
    <2> QED BY <2>1, ExecutorKeeps, ProcessKeeps DEF TextRunsNext
  <1> QED BY <1>1, <1>2, TextRunsInvariance, PTL
          DEF TextRunsSpec, KeepsTextPromise, Promise!TextPromiseSpec

-----------------------------------------------------------------------------
(* The order of claims.                                                    *)

LEMMA SomeFirst ==
    ASSUME NEW S, S \subseteq Nat, S # {}
    PROVE  \E k \in S : \A j \in S : k <= j
  <1> DEFINE R == OpToRel(<, Nat)
  <1>1. PICK k \in S : \A j \in S : <<j, k>> \notin R
    <2> HIDE DEF R
    <2>1. IsWellFoundedOn(R, Nat) BY NatLessThanWellFounded DEF R
    <2> QED BY <2>1, WFMin
  <1>2. ASSUME NEW j \in S PROVE k <= j
    <2>1. ~(j < k) BY <1>1 DEF OpToRel
    <2> QED BY <2>1
  <1> QED BY <1>2

(* What is waiting for a worker are places of the queue.                   *)
LEMMA PlacesOfQueue ==
    ASSUME FairClaimTypeOK, NEW w
    PROVE  Claimable(w) \subseteq Nat /\ Claimable(w) \subseteq DOMAIN queue
  <1> QED BY DEF FairClaimTypeOK, Claimable

LEMMA RowsOfQueue ==
    ASSUME FairClaimTypeOK, NEW i \in DOMAIN queue
    PROVE  /\ queue[i] \in QueuedWork
           /\ queue[i].owner \in Owners /\ queue[i].automatic \in BOOLEAN
  <1>1. queue[i] \in QueuedWork BY DEF FairClaimTypeOK
  <1> QED BY <1>1 DEF QueuedWork

(* The choice of _claim_next is one of the rows that wait, the first of    *)
(* its owner, of an owner whose turn it is.                                *)
LEMMA ChosenWaits ==
    ASSUME NEW S, S \subseteq Nat, S # {}, S \subseteq DOMAIN queue, NEW last,
           \A i \in S : queue[i].automatic \in BOOLEAN
    PROVE  \E first \in Turn(Oldest(S), last) :
             /\ \A k \in Turn(Oldest(S), last) : first <= k
             /\ Chosen(S, last) \in S
             /\ queue[Chosen(S, last)].owner = queue[first].owner
             /\ \A j \in S : queue[j].owner = queue[first].owner =>
                    j = Chosen(S, last) \/ Before(Chosen(S, last), j)
  <1> DEFINE turn == Turn(Oldest(S), last)
             first == CHOOSE k \in turn : \A j \in turn : k <= j
             own == {i \in S : queue[i].owner = queue[first].owner}
  <1>1. turn # {} /\ turn \subseteq S
    <2>1. PICK k \in S : \A j \in S : k <= j BY SomeFirst
    <2>2. k \in Oldest(S) BY <2>1 DEF Oldest
    <2> QED BY <2>2 DEF Turn, Oldest
  <1>2. first \in turn /\ \A k \in turn : first <= k
    <2> HIDE DEF turn
    <2> QED BY <1>1, SomeFirst
  <1>3. \E i \in own : \A j \in own \ {i} : Before(i, j)
    <2> DEFINE manual == {i \in own : ~queue[i].automatic}
    <2>1. own \subseteq Nat /\ first \in own
      <3> HIDE DEF turn
      <3> QED BY <1>1, <1>2
    <2> HIDE DEF first, own
    <2>2. \A j \in own : queue[j].automatic \in BOOLEAN BY DEF own
    <2>3. CASE manual = {}
      <3>1. PICK i \in own : \A j \in own : i <= j BY <2>1, SomeFirst
      <3>2. \A j \in own \ {i} : i < j BY <2>1, <3>1
      <3>3. \A j \in own : queue[j].automatic = queue[i].automatic BY <2>2, <2>3
      <3> QED BY <3>2, <3>3 DEF Before
    <2>4. CASE manual # {}
      <3>1. manual \subseteq Nat BY <2>1
      <3> HIDE DEF manual
      <3>2. PICK i \in manual : \A j \in manual : i <= j BY <2>4, <3>1, SomeFirst
      <3>3. i \in own /\ ~queue[i].automatic BY DEF manual
      <3>4. ASSUME NEW j \in own \ {i} PROVE Before(i, j)
        <4>1. CASE queue[j].automatic BY <3>3, <4>1 DEF Before
        <4>2. CASE ~queue[j].automatic
          <5>1. j \in manual BY <4>2 DEF manual
          <5>2. i < j BY <2>1, <3>2, <3>3, <5>1
          <5>3. queue[i].automatic = queue[j].automatic BY <2>2, <3>3, <4>2
          <5> QED BY <5>2, <5>3 DEF Before
        <4> QED BY <4>1, <4>2
      <3> QED BY <3>3, <3>4
    <2> QED BY <2>3, <2>4
  <1>4. Chosen(S, last) = CHOOSE i \in own : \A j \in own \ {i} : Before(i, j) BY DEF Chosen
  <1>5. Chosen(S, last) \in own /\ \A j \in own \ {Chosen(S, last)} : Before(Chosen(S, last), j)
    <2> HIDE DEF own
    <2> QED BY <1>3, <1>4
  <1> HIDE DEF first
  <1> QED BY <1>2, <1>5

(* A claim takes what Chosen says; nothing else is taken.                  *)
LEMMA ClaimTakes ==
    ASSUME FairClaimTypeOK, ClaimNext, NEW i \in DOMAIN queue, NEW w \in WorkerSet,
           queue[i].at = Nobody, queue'[i].at = w
    PROVE  /\ i = Chosen(Claimable(w), cursor[Scope(w)])
           /\ Claimable(w) # {}
  <1>1. Nobody \notin WorkerSet BY FairClaimAssumption
  <1>2. PICK v : v = Head(offers) OBVIOUS
  <1>3. Claimable(v) # {}
    <2> SUFFICES ASSUME Claimable(v) = {} PROVE FALSE OBVIOUS
    <2>1. queue' = queue BY <1>2 DEF ClaimNext
    <2> QED BY <1>1, <2>1
  <1>4. PICK c : c = Chosen(Claimable(v), cursor[Scope(v)]) OBVIOUS
  <1>5. queue' = [queue EXCEPT ![c].at = v] BY <1>2, <1>3, <1>4 DEF ClaimNext
  <1>6. i = c
    <2> SUFFICES ASSUME i # c PROVE FALSE OBVIOUS
    <2>1. queue'[i] = queue[i] BY <1>5
    <2> QED BY <1>1, <2>1
  <1>7. queue'[i].at = v
    <2>1. queue[i] \in QueuedWork BY DEF FairClaimTypeOK
    <2> QED BY <1>5, <1>6, <2>1 DEF QueuedWork
  <1> QED BY <1>3, <1>4, <1>6, <1>7

LEMMA TurnHolds ==
    ASSUME FairClaimTypeOK, ClaimNext, NEW i \in DOMAIN queue, NEW w \in WorkerSet,
           queue[i].at = Nobody, queue'[i].at = w
    PROVE  OwnOrder(i, w) /\ InTurn(i, w)
  <1> DEFINE S == Claimable(w)
             last == cursor[Scope(w)]
  <1>1. i = Chosen(S, last) /\ S # {} BY ClaimTakes
  <1>2. S \subseteq Nat /\ S \subseteq DOMAIN queue BY PlacesOfQueue
  <1> HIDE DEF S, last
  <1>3. \A j \in S : queue[j].automatic \in BOOLEAN BY <1>2, RowsOfQueue
  <1>4. PICK first \in Turn(Oldest(S), last) :
             /\ \A k \in Turn(Oldest(S), last) : first <= k
             /\ i \in S /\ queue[i].owner = queue[first].owner
             /\ \A j \in S : queue[j].owner = queue[first].owner => j = i \/ Before(i, j)
    <2> DEFINE c == Chosen(S, last)
    <2>1. \E first \in Turn(Oldest(S), last) :
             /\ \A k \in Turn(Oldest(S), last) : first <= k
             /\ c \in S /\ queue[c].owner = queue[first].owner
             /\ \A j \in S : queue[j].owner = queue[first].owner => j = c \/ Before(c, j)
      BY <1>1, <1>2, <1>3, ChosenWaits
    <2> HIDE DEF c
    <2>2. i = c BY <1>1 DEF c
    <2> QED BY <2>1, <2>2, Zenon
  <1>5. OwnOrder(i, w)
    <2> SUFFICES ASSUME NEW j \in S, queue[j].owner = queue[i].owner
                 PROVE  /\ queue[i].automatic => queue[j].automatic
                        /\ queue[i].automatic = queue[j].automatic => i <= j
      BY DEF OwnOrder, S
    <2>1. j = i \/ Before(i, j) BY <1>4
    <2>2. i \in Nat /\ j \in Nat BY <1>2, <1>4
    <2>3. CASE j = i BY <2>2, <2>3
    <2>4. CASE Before(i, j)
      <3>1. queue[i].automatic \in BOOLEAN /\ queue[j].automatic \in BOOLEAN BY <1>3, <1>4
      <3>2. i < j => i <= j BY <2>2
      <3> HIDE DEF S
      <3> QED BY <2>4, <3>1, <3>2, Zenon DEF Before
    <2> QED BY <2>1, <2>3, <2>4
  <1>6. InTurn(i, w)
    <2> SUFFICES ASSUME queue[i].owner = last, NEW j \in Oldest(S)
                 PROVE  \E k \in Oldest(S) : queue[k].owner = queue[i].owner /\ j <= k
      BY DEF InTurn, S, last
    <2>1. Oldest(S) \subseteq S BY DEF Oldest
    <2>2. first \in Oldest(S) BY <1>4 DEF Turn
    <2>3. j \in Nat /\ first \in Nat BY <1>2, <2>1, <2>2
    <2>4. CASE j <= first BY <1>4, <2>2, <2>4
    <2>5. CASE first < j
      <3> DEFINE later == {m \in Oldest(S) : \E k \in Oldest(S) : queue[k].owner = last /\ k < m}
      <3>1. j \in later BY <1>4, <2>2, <2>5
      <3>2. Turn(Oldest(S), last) = later BY <3>1 DEF Turn
      <3>3. PICK k \in Oldest(S) : queue[k].owner = last /\ k < first BY <1>4, <3>2
      <3>4. first <= k
        <4>1. k \in S /\ first \in S BY <2>1, <2>2
        <4>2. queue[k].owner = queue[first].owner BY <1>4, <3>3
        <4> QED BY <2>2, <4>1, <4>2 DEF Oldest
      <3>5. k \in Nat BY <1>2, <2>1
      <3> QED BY <2>3, <3>3, <3>4, <3>5
    <2> QED BY <2>3, <2>4, <2>5
  <1> QED BY <1>5, <1>6

-----------------------------------------------------------------------------
(* The order in which free capacity is offered is a sequence of workers:   *)
(* the members of the pool can be ranked.                                  *)
LEMMA CountsAreNat ==
    ASSUME FairClaimTypeOK, NEW w PROVE ActiveCount(w) \in Nat
  <1>1. IsFiniteSet(DOMAIN queue)
    <2>1. DOMAIN queue = 1 .. Len(queue) /\ Len(queue) \in Nat BY DEF FairClaimTypeOK
    <2> QED BY <2>1, FS_Interval
  <1>2. {i \in DOMAIN queue : queue[i].at = w} \subseteq DOMAIN queue OBVIOUS
  <1> QED BY <1>1, <1>2, FS_Subset, FS_CardinalityType DEF ActiveCount

PoolPlaces == 1 .. PoolSize
AheadOf(j, k) == Ahead(Workers[j], Workers[k])

LEMMA PlacesOfPool ==
    /\ PoolSize \in Nat /\ PoolPlaces \subseteq DOMAIN Workers
    /\ \A k \in PoolPlaces : Workers[k] \in Pool /\ Workers[k] \in WorkerSet /\ Place(Workers[k]) = k
  <1>1. /\ PoolSize \in Nat /\ PoolSize <= Len(Workers) /\ Len(Workers) \in Nat
        /\ DOMAIN Workers = 1 .. Len(Workers)
        /\ \A j, k \in DOMAIN Workers : Workers[j] = Workers[k] => j = k
    BY FairClaimAssumption DEF IsInjective
  <1>2. PoolPlaces \subseteq DOMAIN Workers BY <1>1 DEF PoolPlaces
  <1> QED BY <1>1, <1>2 DEF PoolPlaces, Pool, Place, WorkerSet

LEMMA AheadOrders ==
    ASSUME FairClaimTypeOK, NEW i \in PoolPlaces, NEW j \in PoolPlaces, NEW k \in PoolPlaces
    PROVE  /\ ~AheadOf(i, i)
           /\ AheadOf(i, j) /\ AheadOf(j, k) => AheadOf(i, k)
           /\ i # j => AheadOf(i, j) \/ AheadOf(j, i)
  <1>1. \A m \in PoolPlaces : Place(Workers[m]) = m /\ m \in Nat /\ ActiveCount(Workers[m]) \in Nat
    BY PlacesOfPool, CountsAreNat DEF PoolPlaces
  <1>2. \A m, n \in PoolPlaces :
           AheadOf(m, n) <=> \/ ActiveCount(Workers[m]) < ActiveCount(Workers[n])
                             \/ ActiveCount(Workers[m]) = ActiveCount(Workers[n]) /\ m < n
    BY <1>1 DEF AheadOf, Ahead
  <1> QED BY <1>1, <1>2

LEMMA PoolRanked ==
    ASSUME FairClaimTypeOK
    PROVE  \E s \in [1 .. PoolSize -> Pool] : \A j, k \in 1 .. PoolSize : j < k => Ahead(s[j], s[k])
  <1> DEFINE NotBehind(k) == {j \in PoolPlaces : j = k \/ AheadOf(j, k)}
             at == [k \in PoolPlaces |-> Cardinality(NotBehind(k))]
  <1>1. IsFiniteSet(PoolPlaces) /\ Cardinality(PoolPlaces) = PoolSize /\ PoolSize \in Nat
    BY PlacesOfPool, FS_Interval DEF PoolPlaces
  <1>2. ASSUME NEW k \in PoolPlaces
        PROVE  IsFiniteSet(NotBehind(k)) /\ Cardinality(NotBehind(k)) \in PoolPlaces
    <2>1. k \in NotBehind(k) /\ NotBehind(k) \subseteq PoolPlaces OBVIOUS
    <2> HIDE DEF NotBehind
    <2>2. /\ IsFiniteSet(NotBehind(k)) /\ Cardinality(NotBehind(k)) \in Nat /\ Cardinality(NotBehind(k)) <= PoolSize
          /\ Cardinality(NotBehind(k)) # 0
      BY <1>1, <2>1, FS_Subset, FS_CardinalityType, FS_EmptySet
    <2> QED BY <1>1, <2>2 DEF PoolPlaces
  <1>3. ASSUME NEW j \in PoolPlaces, NEW k \in PoolPlaces, AheadOf(j, k)
        PROVE  Cardinality(NotBehind(j)) < Cardinality(NotBehind(k))
    <2>1. j # k BY <1>3, AheadOrders
    <2>2. NotBehind(j) \subseteq NotBehind(k) BY <1>3, AheadOrders
    <2>3. k \in NotBehind(k) /\ k \notin NotBehind(j) BY <1>3, <2>1, AheadOrders
    <2>4. IsFiniteSet(NotBehind(k)) /\ Cardinality(NotBehind(j)) \in Nat /\ Cardinality(NotBehind(k)) \in Nat
      <3> HIDE DEF NotBehind
      <3> QED BY <1>1, <1>2 DEF PoolPlaces
    <2> HIDE DEF NotBehind
    <2>5. Cardinality(NotBehind(j)) <= Cardinality(NotBehind(k)) /\ Cardinality(NotBehind(j)) # Cardinality(NotBehind(k))
      BY <2>2, <2>3, <2>4, FS_Subset
    <2> QED BY <2>4, <2>5
  <1>4. at \in [PoolPlaces -> PoolPlaces] BY <1>2
  <1>5. \A j, k \in PoolPlaces : at[j] = at[k] => j = k
    <2> SUFFICES ASSUME NEW j \in PoolPlaces, NEW k \in PoolPlaces, at[j] = at[k], j # k PROVE FALSE
      OBVIOUS
    <2>1. AheadOf(j, k) \/ AheadOf(k, j) BY AheadOrders
    <2>2. Cardinality(NotBehind(j)) = Cardinality(NotBehind(k)) /\ Cardinality(NotBehind(j)) \in Nat
      <3> HIDE DEF NotBehind
      <3> QED BY <1>1, <1>2 DEF PoolPlaces
    <2> HIDE DEF NotBehind
    <2> QED BY <1>3, <2>1, <2>2
  <1>6. \A j, k \in PoolPlaces : at[j] < at[k] => AheadOf(j, k)
    <2> SUFFICES ASSUME NEW j \in PoolPlaces, NEW k \in PoolPlaces, at[j] < at[k], ~AheadOf(j, k) PROVE FALSE
      OBVIOUS
    <2>1. at[j] \in Int /\ at[k] \in Int
      <3> HIDE DEF at
      <3> QED BY <1>4 DEF PoolPlaces
    <2>2. j # k BY <2>1
    <2>3. AheadOf(k, j) BY <2>2, AheadOrders
    <2>4. at[k] < at[j]
      <3> HIDE DEF NotBehind
      <3> QED BY <1>3, <2>3
    <2> HIDE DEF at
    <2> QED BY <2>1, <2>4
  <1> HIDE DEF at
  <1>7. \A p \in PoolPlaces : \E k \in PoolPlaces : at[k] = p
    <2>1. at \in Injection(PoolPlaces, PoolPlaces) BY <1>4, <1>5 DEF Injection, IsInjective
    <2>2. at \in Surjection(PoolPlaces, PoolPlaces) BY <1>1, <2>1, FS_Injection
    <2> QED BY <2>2 DEF Surjection
  <1> DEFINE who == [p \in PoolPlaces |-> CHOOSE k \in PoolPlaces : at[k] = p]
             s == [p \in PoolPlaces |-> Workers[who[p]]]
  <1>8. \A p \in PoolPlaces : who[p] \in PoolPlaces /\ at[who[p]] = p BY <1>7
  <1> HIDE DEF who
  <1>9. s \in [PoolPlaces -> Pool] BY <1>8, PlacesOfPool
  <1>10. \A j, k \in PoolPlaces : j < k => Ahead(s[j], s[k])
    BY <1>6, <1>8 DEF AheadOf
  <1> HIDE DEF s
  <1> QED BY <1>9, <1>10 DEF PoolPlaces

LEMMA OrderOfWorkers ==
    ASSUME FairClaimTypeOK PROVE DispatchOrder \in Seq(WorkerSet)
  <1> DEFINE ranked == CHOOSE s \in [1 .. PoolSize -> Pool] :
                           \A j, k \in 1 .. PoolSize : j < k => Ahead(s[j], s[k])
             others == SubSeq(Workers, PoolSize + 1, Len(Workers))
  <1>1. ranked \in [1 .. PoolSize -> Pool] BY PoolRanked
  <1>2. Pool \subseteq WorkerSet /\ PoolSize \in Nat
    BY PlacesOfPool DEF Pool, PoolPlaces, WorkerSet
  <1> HIDE DEF ranked
  <1>3. ranked \in Seq(WorkerSet)
    <2>1. ranked \in [1 .. PoolSize -> WorkerSet] BY <1>1, <1>2
    <2> QED BY <1>2, <2>1
  <1>4. others \in Seq(WorkerSet)
    <2>1. Workers \in Seq(WorkerSet) /\ PoolSize + 1 \in Nat \ {0} /\ Len(Workers) \in Nat
      BY FairClaimAssumption, <1>2
    <2> QED BY <2>1
  <1> HIDE DEF others
  <1>5. DispatchOrder = ranked \o others BY DEF DispatchOrder, ranked, others
  <1> QED BY <1>3, <1>4, <1>5

(* One row of the queue changes, or goes.                                  *)
LEMMA RowClaimed ==
    ASSUME FairClaimTypeOK, NEW i \in DOMAIN queue, NEW w \in WorkerSet \cup {Nobody},
           queue' = [queue EXCEPT ![i].at = w]
    PROVE  queue' \in Seq(QueuedWork) /\ Len(queue') <= MaxQueue
  <1>1. queue \in Seq(QueuedWork) /\ queue[i] \in QueuedWork /\ Len(queue) <= MaxQueue
    BY DEF FairClaimTypeOK
  <1>2. [queue[i] EXCEPT !.at = w] \in QueuedWork BY <1>1 DEF QueuedWork
  <1> DEFINE row == [queue[i] EXCEPT !.at = w]
  <1>3. queue' = [queue EXCEPT ![i] = row] OBVIOUS
  <1> HIDE DEF row
  <1>4. row \in QueuedWork BY <1>2 DEF row
  <1>5. queue' \in Seq(QueuedWork) /\ Len(queue') = Len(queue) BY <1>1, <1>3, <1>4
  <1> QED BY <1>1, <1>5

LEMMA RowGone ==
    ASSUME FairClaimTypeOK, NEW i \in DOMAIN queue, queue' = RemoveAt(queue, i)
    PROVE  queue' \in Seq(QueuedWork) /\ Len(queue') <= MaxQueue
  <1>1. queue \in Seq(QueuedWork) /\ Len(queue) <= MaxQueue /\ i \in 1 .. Len(queue) /\ Len(queue) \in Nat
    BY DEF FairClaimTypeOK
  <1> DEFINE front == SubSeq(queue, 1, i - 1)
             back  == SubSeq(queue, i + 1, Len(queue))
  <1>2. front \in Seq(QueuedWork) /\ Len(front) = i - 1 BY <1>1
  <1>3. back \in Seq(QueuedWork) /\ Len(back) = Len(queue) - i BY <1>1
  <1>4. queue' = front \o back BY DEF RemoveAt
  <1> HIDE DEF front, back
  <1>5. front \o back \in Seq(QueuedWork) /\ Len(front \o back) = Len(front) + Len(back)
    BY <1>2, <1>3, ConcatProperties
  <1>6. queue' \in Seq(QueuedWork) /\ Len(queue') = Len(queue) - 1 BY <1>1, <1>2, <1>3, <1>4, <1>5
  <1> QED BY <1>1, <1>6, FairClaimAssumption

LEMMA ClaimKeepsTypes ==
    ASSUME FairClaimTypeOK, ClaimNext PROVE FairClaimTypeOK'
  <1> USE DEF FairClaimTypeOK
  <1>1. left > 0 /\ offers # << >> /\ left \in Nat /\ left \in 0 .. Concurrency /\ Concurrency \in Nat
    BY FairClaimAssumption DEF ClaimNext
  <1>2. PICK w \in WorkerSet : w = Head(offers) BY <1>1
  <1>3. Tail(offers) \in Seq(WorkerSet) BY <1>1
  <1>4. available' = available BY DEF ClaimNext
  <1>5. CASE Claimable(w) = {}
    <2>1. left' = 0 /\ offers' = Tail(offers) /\ UNCHANGED <<queue, cursor>> BY <1>2, <1>5 DEF ClaimNext
    <2> QED BY <1>1, <1>3, <1>4, <2>1
  <1>6. CASE Claimable(w) # {}
    <2>1. PICK i : i = Chosen(Claimable(w), cursor[Scope(w)]) OBVIOUS
    <2>2. /\ queue' = [queue EXCEPT ![i].at = w]
          /\ cursor' = [cursor EXCEPT ![Scope(w)] = queue[i].owner]
          /\ left' = left - 1
          /\ offers' = IF left = 1 THEN Tail(offers) ELSE offers
      BY <1>2, <1>6, <2>1 DEF ClaimNext
    <2>3. i \in Claimable(w) /\ i \in DOMAIN queue
      <3>1. Claimable(w) \subseteq Nat /\ Claimable(w) \subseteq DOMAIN queue BY PlacesOfQueue
      <3>2. \A j \in Claimable(w) : queue[j].automatic \in BOOLEAN BY <3>1, RowsOfQueue
      <3> QED BY <1>6, <2>1, <3>1, <3>2, ChosenWaits
    <2>4. queue' \in Seq(QueuedWork) /\ Len(queue') <= MaxQueue BY <2>2, <2>3, RowClaimed
    <2>5. queue[i].owner \in Owners BY <2>3, RowsOfQueue
    <2>6. Scope(w) \in {Scope(v) : v \in WorkerSet} OBVIOUS
    <2>7. cursor' \in [{Scope(v) : v \in WorkerSet} -> Owners \cup {Nobody}] BY <2>2, <2>5, <2>6
    <2>8. left' \in 0 .. Concurrency /\ (left' > 0 => left # 1) BY <1>1, <2>2
    <2>9. offers' \in Seq(WorkerSet) /\ (left' > 0 => offers' # << >>) BY <1>1, <1>3, <2>2, <2>8
    <2> QED BY <1>4, <2>4, <2>7, <2>8, <2>9
  <1> QED BY <1>5, <1>6

LEMMA FairClaimTypesInductive ==
    ASSUME FairClaimTypeOK, [FairClaimNext]_claimVars PROVE FairClaimTypeOK'
  <1> USE FairClaimAssumption DEF FairClaimTypeOK
  <1>1. CASE BeginIteration
    <2>1. offers' \in Seq(WorkerSet) BY <1>1, OrderOfWorkers DEF BeginIteration
    <2>2. left = 0 BY <1>1 DEF BeginIteration
    <2> QED BY <1>1, <2>1, <2>2 DEF BeginIteration
  <1>2. CASE Offer
    <2>1. offers # << >> /\ UNCHANGED <<queue, cursor, available>> BY <1>2 DEF Offer
    <2>2. PICK w : w = Head(offers) OBVIOUS
    <2>3. ActiveCount(w) \in Nat BY CountsAreNat
    <2>4. Tail(offers) \in Seq(WorkerSet) BY <2>1
    <2>5. PICK n \in Nat : n = ActiveCount(w) BY <2>3
    <2>6. \/ offers' = Tail(offers) /\ left' = 0
          \/ offers' = offers /\ left' = Concurrency - n /\ ~(Concurrency - n <= 0)
      BY <1>2, <2>2, <2>5 DEF Offer
    <2>7. CASE offers' = Tail(offers) /\ left' = 0 BY <2>1, <2>4, <2>7
    <2>8. CASE offers' = offers /\ left' = Concurrency - n /\ ~(Concurrency - n <= 0)
      <3>1. left' \in 0 .. Concurrency BY <2>8
      <3> QED BY <2>1, <2>8, <3>1
    <2> QED BY <2>6, <2>7, <2>8
  <1>3. CASE ClaimNext BY <1>3, ClaimKeepsTypes
  <1>4. ASSUME NEW o \in Owners, NEW k \in Kinds[o], Enqueue(o, k) PROVE FairClaimTypeOK'
    <2>1. k \in [text : BOOLEAN, automatic : BOOLEAN, on : SUBSET WorkerSet] OBVIOUS
    <2> DEFINE row == [owner |-> o, text |-> k.text, automatic |-> k.automatic, on |-> k.on, at |-> Nobody]
    <2>2. row \in QueuedWork BY <2>1 DEF QueuedWork
    <2>3. queue' = Append(queue, row) /\ Len(queue) < MaxQueue BY <1>4 DEF Enqueue
    <2> HIDE DEF row
    <2>4. queue' \in Seq(QueuedWork) /\ Len(queue') <= MaxQueue BY <2>2, <2>3
    <2> QED BY <1>4, <2>4 DEF Enqueue
  <1>5. ASSUME NEW i \in DOMAIN queue, Ends(i) \/ Withdraw(i) PROVE FairClaimTypeOK'
    <2>1. queue' = RemoveAt(queue, i) BY <1>5 DEF Ends, Withdraw
    <2>2. UNCHANGED <<cursor, offers, left, available>> BY <1>5 DEF Ends, Withdraw
    <2> QED BY <2>1, <2>2, RowGone
  <1>6. ASSUME NEW i \in DOMAIN queue, Requeue(i) PROVE FairClaimTypeOK'
    <2>1. queue' = [queue EXCEPT ![i].at = Nobody] /\ UNCHANGED <<cursor, offers, left, available>>
      BY <1>6 DEF Requeue
    <2> QED BY <2>1, RowClaimed
  <1>7. ASSUME NEW w \in WorkerSet, Health(w) PROVE FairClaimTypeOK' BY <1>7 DEF Health
  <1>8. CASE UNCHANGED claimVars BY <1>8 DEF claimVars
  <1> QED BY <1>1, <1>2, <1>3, <1>4, <1>5, <1>6, <1>7, <1>8 DEF FairClaimNext

LEMMA FairClaimTypesInitially == FairClaimInit => FairClaimTypeOK
  <1> SUFFICES ASSUME FairClaimInit PROVE FairClaimTypeOK OBVIOUS
  <1>1. queue \in Seq(QueuedWork) /\ Len(queue) = 0 /\ offers \in Seq(WorkerSet) BY EmptySeq DEF FairClaimInit
  <1> QED BY <1>1, FairClaimAssumption DEF FairClaimInit, FairClaimTypeOK

(* The queue, the cursor and what is offered stay well-formed, the members *)
(* of the pool ranked by their load for any pool.                          *)
THEOREM FairClaimTypes == FairClaimSpec => []FairClaimTypeOK
  <1> QED BY FairClaimTypesInitially, FairClaimTypesInductive, PTL DEF FairClaimSpec

(* Work is taken in turn: of one owner by hand before automatic and the    *)
(* oldest first, and no owner is served twice in a row while another that  *)
(* waits for the worker came after it.                                     *)
THEOREM TurnsAreKept == FairClaimSpec => OwnersInTurn
  <1>1. ASSUME FairClaimTypeOK, [FairClaimNext]_claimVars
        PROVE  [\A i \in DOMAIN queue, w \in WorkerSet :
                  ClaimNext /\ queue[i].at = Nobody /\ queue'[i].at = w =>
                      OwnOrder(i, w) /\ InTurn(i, w)]_claimVars
    BY <1>1, TurnHolds
  <1> QED BY <1>1, FairClaimTypes, PTL DEF FairClaimSpec, OwnersInTurn

-----------------------------------------------------------------------------
(* The types of the three parts together.                                  *)
CallType ==
    call \in [kind : {"none", "post", "lookup"}, attempt : 0 .. Attempts, uncertain : BOOLEAN]

LEMMA CallTypeInductive ==
    ASSUME CallType, [SubmissionsNext]_submissionVars PROVE CallType'
  <1> USE SubmissionsAssumption DEF CallType
  <1>1. NoCall \in [kind : {"none", "post", "lookup"}, attempt : 0 .. Attempts, uncertain : BOOLEAN]
    BY DEF NoCall
  <1>2. ASSUME NEW n \in 1 .. Attempts, NEW uncertain \in BOOLEAN, Post(n, uncertain) PROVE CallType'
    BY <1>2 DEF Post
  <1>3. ASSUME Unknown \/ call' = NoCall \/ call' = call PROVE CallType'
    <2>1. call' = NoCall \/ call' = call BY <1>3 DEF Unknown
    <2> QED BY <1>1, <2>1, Zenon
  <1>4. 1 \in 1 .. Attempts OBVIOUS
  <1>5. ASSUME Post(1, TRUE) \/ Post(1, FALSE) PROVE CallType'
    BY <1>2, <1>4, <1>5, Zenon
  <1>6. ASSUME Unanswered PROVE CallType'
    <2>1. CASE call.attempt < Attempts
      <3>1. call.attempt + 1 \in 1 .. Attempts BY <2>1
      <3>2. Post(call.attempt + 1, TRUE) BY <1>6, <2>1 DEF Unanswered, Retries
      <3> QED BY <3>1, <3>2 DEF Post
    <2>2. CASE ~(call.attempt < Attempts) BY <1>3, <1>6, <2>2 DEF Unanswered, Retries
    <2> QED BY <2>1, <2>2
  <1>7. ASSUME NEW answer \in Answers, Answered(answer) PROVE CallType'
    <2>1. Finish("accepted") \/ Finish("refused") \/ Unknown BY <1>7 DEF Answered, Concludes
    <2> QED BY <1>3, <2>1 DEF Finish
  <1>8. ASSUME RecoverSubmission PROVE CallType' BY <1>4, <1>8 DEF RecoverSubmission
  <1>9. ASSUME Recovered PROVE CallType'
    <2>1. Finish("accepted") \/ Finish("gone") \/ Post(1, TRUE) BY <1>9 DEF Recovered
    <2> QED BY <1>3, <1>5, <2>1 DEF Finish
  <1>10. ASSUME LookupFails \/ Reload PROVE CallType' BY <1>3, <1>10 DEF LookupFails, Reload
  <1>11. ASSUME CloseAccount PROVE CallType'
    <2>1. call' = call \/ call' = NoCall BY <1>11 DEF CloseAccount, Finish, tab
    <2> QED BY <1>3, <2>1
  <1>12. ASSUME NEW k \in Keys, SubmitGeneration(k) \/ ServeStale(k) PROVE CallType'
    BY <1>3, <1>5, <1>12 DEF SubmitGeneration, ServeStale, tab
  <1>13. ASSUME NEW r \in DOMAIN rows, Settle(r) \/ Delete(r) PROVE CallType'
    BY <1>3, <1>13 DEF Settle, Delete, tab
  <1>14. ASSUME Toggle \/ UNCHANGED submissionVars PROVE CallType'
    BY <1>3, <1>14 DEF Toggle, submissionVars, tab
  <1> QED BY <1>6, <1>7, <1>8, <1>9, <1>10, <1>11, <1>12, <1>13, <1>14 DEF SubmissionsNext, TabStep

LEMMA SubmissionTypesFollow == ASSUME KeysInv, CallType PROVE SubmissionsTypeOK
  <1>1. \A r \in DOMAIN rows : rows[r] \in RowType BY DEF KeysInv, KeysType, TablesType
  <1>2. \A r \in DOMAIN rows : rows[r].key \in Keys /\ rows[r].status \in RowStatus /\ rows[r].run \in DOMAIN runs
    BY <1>1 DEF RowType, KeysInv, RunsInv
  <1> QED BY <1>2 DEF KeysInv, KeysType, KnowledgeInv, Words, CallType, SubmissionsTypeOK

LEMMA TextTypesInitially == TextRunsInit => TextRunsTypeOK
  <1> QED BY TextRunsAssumption DEF TextRunsInit, TextRunsTypeOK, TextActive, Stages

LEMMA TextTypesInductive ==
    ASSUME TextRunsTypeOK, [TextRunsNext]_textVars PROVE TextRunsTypeOK'
  <1> USE TextRunsAssumption DEF TextRunsTypeOK, TextActive, TextFinal, Stages, Goes, Sets, Troubles, recoveryVars
  <1>1. ASSUME NEW t \in Texts, Claim(t) \/ Discard(t) \/ Abandon(t) \/ NativeEnds(t) PROVE TextRunsTypeOK'
    BY <1>1 DEF Claim, Discard, Abandon, NativeEnds
  <1>2. ASSUME NEW t \in Texts, Execute(t) PROVE TextRunsTypeOK'
    <2>1. CASE Load(t) \/ Mark(t) \/ Poll(t) \/ End(t) BY <2>1 DEF Load, Mark, Poll, End
    <2>2. CASE Submit(t) BY <2>2 DEF Submit, Reaches
    <2>3. CASE Save(t) BY <2>3 DEF Save
    <2>4. CASE Conclude(t) BY <2>4 DEF Conclude
    <2> QED BY <1>2, <2>1, <2>2, <2>3, <2>4 DEF Execute
  <1>3. CASE Stop \/ Crash BY <1>3 DEF Stop, Crash, Nothing, Cancels
  <1>4. CASE Recovery
    <2>1. CASE \E configured \in BOOLEAN : Begin(configured) BY <2>1 DEF Begin
    <2>2. CASE List \/ Ready BY <2>2 DEF List, Ready, Verdict
    <2>3. ASSUME NEW t \in Texts, Recover(t) PROVE TextRunsTypeOK' BY <2>3 DEF Recover
    <2> QED BY <1>4, <2>1, <2>2, <2>3 DEF Recovery
  <1>5. CASE RecoverAgain BY <1>5 DEF RecoverAgain, Nothing
  <1>6. CASE UNCHANGED textVars BY <1>6 DEF textVars
  <1> QED BY <1>1, <1>2, <1>3, <1>4, <1>5, <1>6 DEF TextRunsNext

QueueInv == KeysInv /\ CallType /\ FairClaimTypeOK /\ TextRunsTypeOK

LEMMA QueueInductive == QueueInv /\ [Next]_vars => QueueInv'
  <1> SUFFICES ASSUME QueueInv, [Next]_vars PROVE QueueInv' OBVIOUS
  <1> USE DEF QueueInv
  <1>1. [SubmissionsNext]_submissionVars BY DEF Next, OfS, OfC, OfT, vars
  <1>2. [FairClaimNext]_claimVars BY DEF Next, OfS, OfC, OfT, vars
  <1>3. [TextRunsNext]_textVars BY DEF Next, OfS, OfC, OfT, vars
  <1> QED BY <1>1, <1>2, <1>3, KeysInductive, CallTypeInductive, FairClaimTypesInductive, TextTypesInductive

(* The state of the queue's three parts keeps its types whatever the       *)
(* clients, the network, the workers and ComfyUI do.                       *)
THEOREM QueueTypes == Spec => []TypesOK
  <1>1. Init => QueueInv
    BY KeysInitially, FairClaimTypesInitially, TextTypesInitially, SubmissionsAssumption
       DEF Init, QueueInv, CallType, SubmissionsInit, NoCall
  <1>2. QueueInv => TypesOK BY SubmissionTypesFollow DEF QueueInv, TypesOK
  <1> QED BY <1>1, <1>2, QueueInductive, PTL DEF Spec
=============================================================================
