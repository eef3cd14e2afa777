--------------------------- MODULE Storage_proofs ---------------------------
(***************************************************************************)
(* What is on disk survives: the files of a generation (ImageArchive) and  *)
(* the releases with their data (ProductionUpdate).                        *)
(*                                                                         *)
(* FilesKept holds for every history of a prompt, wherever calls fail and  *)
(* processes end.  A path is held by one of the rows, the executor, the    *)
(* maintenance and the deletion of the result, and each removes only what  *)
(* it holds (PathsFit); what ComfyUI is asked to remove was archived, and  *)
(* an archived final image has a row that neither a later insertion nor    *)
(* the choice of what a result keeps takes away (SourcesFit); the last     *)
(* pass clears the failure of whatever has a row (FailuresFit).            *)
(*                                                                         *)
(* UpdateSafe holds for any number of runs of the release runner, any      *)
(* number of releases and of writes, wherever a run fails or is killed.    *)
(* The application that is up always runs on data of its own release that  *)
(* miss nothing (Serves).  Between runs, and for a run that only looks, a  *)
(* container that is down can be started again if the files agree with it  *)
(* (Resumable): this is what the preflight relies on.  In between, each    *)
(* stage of a run fixes how far the files, the container, the record and   *)
(* the data have moved from the release before to the target (Holds).      *)
(***************************************************************************)
EXTENDS ImageArchive, ProductionUpdate, FiniteSetTheorems, SequenceTheorems, WellFoundedInduction, TLAPS

-----------------------------------------------------------------------------
(* The files of a generation (ImageArchive).                               *)
ArchiveRow == [file : Files, path : Paths]

(* The steps that have a file in hand, and those after the last of them.   *)
OnFile == {"fetch", "insert", "discard", "prune", "mark", "clear", "fail"}
AtEnd  == {"sources", "record", "commit"}
Archiving == {"discard", "prune", "mark", "clear"}

(* The prompt was answered from the cache: nothing of it can be fetched.   *)
FromCache == prompt = "success" /\ rows = << >> /\ \A f \in Files : source[f] = "gone"

JobFits ==
    /\ (job.path # 0) = (job.at \in {"insert", "discard"})
    /\ job.prune # {} => job.at \in {"prune", "finish"}
    /\ job.at \in OnFile => job.file \in Written
    /\ Range(job.left) \subseteq Written
    /\ job.at \notin OnFile => job.left = << >>
    /\ job.at \in OnFile \cup AtEnd => status = "running"
    /\ job.at \in AtEnd => job.last
    /\ job.last => prompt # "running"
    /\ job.at \in {"fetch", "insert", "fail"} => ~RowOf(job.file)
    /\ job.at = "insert" => source[job.file] = "present"
    /\ job.at \in Archiving /\ job.file \in Finals => RowOf(job.file)

(* What has a row is on disk, and in nobody's hands.                       *)
PathsFit ==
    /\ \A i, j \in DOMAIN rows : rows[i].path = rows[j].path => i = j
    /\ PathsOf(rows) \subseteq disk
    /\ PathsOf(rows) \cap (job.prune \cup upkeep.prune \cup leaving) = {}
    /\ job.path # 0 =>
          job.path \in disk \ (PathsOf(rows) \cup job.prune \cup upkeep.prune \cup leaving)

UpkeepFits ==
    /\ upkeep.prune # {} => upkeep.at = "prune"
    /\ upkeep.at # "off" => status \in Results \cup {"deleted"}
    /\ process = "down" => job = NoTask /\ upkeep = NoUpkeep /\ leaving = {}

(* What ComfyUI removed was archived, and what was archived has a row.     *)
SourcesFit ==
    /\ \A f \in Files : RowOf(f) => f \in Written
    /\ \A f \in Files : source[f] = "gone" => f \in archived \/ FromCache
    /\ status # "deleted" =>
          \A f \in archived \cap Finals :
              IF status = "failed" THEN \E g \in Finals : RowOf(g) ELSE RowOf(f)

(* The last pass clears the failure of whatever has a row by now.          *)
FailuresFit ==
    job.last /\ prompt = "success" =>
        \A f \in Files : failed[f] # "no" /\ RowOf(f) =>
            f \in Range(job.left) \/ (job.file = f /\ job.at \in Archiving)

ArchiveInv ==
    /\ ArchiveTypeOK /\ JobFits /\ PathsFit /\ UpkeepFits /\ NothingStranded /\ RowsHaveFiles
    /\ SourcesFit /\ FailuresFit

-----------------------------------------------------------------------------
(* Sets of numbers, and orders, on finitely many things.                   *)
LEMMA SomeLeast ==
    ASSUME NEW S, S \subseteq Nat, S # {}
    PROVE  \E k \in S : \A j \in S : k <= j
  <1> DEFINE R == OpToRel(<, Nat)
  <1>1. PICK k \in S : \A j \in S : <<j, k>> \notin R
    <2> HIDE DEF R
    <2>1. IsWellFoundedOn(R, Nat) BY NatLessThanWellFounded DEF R
    <2> QED BY <2>1, WFMin
  <1>2. ASSUME NEW j \in S PROVE k <= j
    <2>1. ~(j < k) BY <1>1 DEF OpToRel
    <2> QED BY <2>1
  <1> QED BY <1>2

(* Each of finitely many things has its place in an order.                 *)
Orders(R, I) ==
    /\ \A i, j \in I : i # j => <<i, j>> \in R \/ <<j, i>> \in R
    /\ \A i \in I : <<i, i>> \notin R
    /\ \A i, j, k \in I : <<i, j>> \in R /\ <<j, k>> \in R => <<i, k>> \in R

PlaceIn(R, I) == [k \in I |-> Cardinality({j \in I : j = k \/ <<j, k>> \in R})]

LEMMA Counted ==
    ASSUME NEW I, IsFiniteSet(I), NEW R, Orders(R, I)
    PROVE  /\ PlaceIn(R, I) \in [I -> 1 .. Cardinality(I)] /\ Cardinality(I) \in Nat
           /\ \A j, k \in I : <<j, k>> \in R => PlaceIn(R, I)[j] < PlaceIn(R, I)[k]
           /\ \A j, k \in I : PlaceIn(R, I)[j] = PlaceIn(R, I)[k] => j = k
           /\ \A p \in 1 .. Cardinality(I) : \E k \in I : PlaceIn(R, I)[k] = p
  <1> DEFINE UpTo(k) == {j \in I : j = k \/ <<j, k>> \in R}
             at == [k \in I |-> Cardinality(UpTo(k))]
  <1>1. Cardinality(I) \in Nat BY FS_CardinalityType
  <1>2. ASSUME NEW k \in I
        PROVE  /\ IsFiniteSet(UpTo(k)) /\ Cardinality(UpTo(k)) \in Nat
               /\ Cardinality(UpTo(k)) \in 1 .. Cardinality(I)
    <2>1. k \in UpTo(k) /\ UpTo(k) \subseteq I OBVIOUS
    <2> HIDE DEF UpTo
    <2>2. /\ IsFiniteSet(UpTo(k)) /\ Cardinality(UpTo(k)) \in Nat /\ Cardinality(UpTo(k)) <= Cardinality(I)
          /\ Cardinality(UpTo(k)) # 0
      BY <2>1, FS_Subset, FS_CardinalityType, FS_EmptySet
    <2> QED BY <1>1, <2>2
  <1>3. ASSUME NEW j \in I, NEW k \in I, <<j, k>> \in R
        PROVE  Cardinality(UpTo(j)) < Cardinality(UpTo(k))
    <2>1. j # k BY <1>3 DEF Orders
    <2>2. UpTo(j) \subseteq UpTo(k) BY <1>3 DEF Orders
    <2>3. k \in UpTo(k) /\ k \notin UpTo(j) BY <1>3, <2>1 DEF Orders
    <2> HIDE DEF UpTo
    <2>4. Cardinality(UpTo(j)) <= Cardinality(UpTo(k)) /\ Cardinality(UpTo(j)) # Cardinality(UpTo(k))
      BY <1>2, <2>2, <2>3, FS_Subset
    <2> QED BY <1>2, <2>4
  <1>4. at \in [I -> 1 .. Cardinality(I)] BY <1>2
  <1>5. \A j, k \in I : at[j] = at[k] => j = k
    <2> SUFFICES ASSUME NEW j \in I, NEW k \in I, at[j] = at[k], j # k PROVE FALSE
      OBVIOUS
    <2>1. Cardinality(UpTo(j)) = Cardinality(UpTo(k)) OBVIOUS
    <2> HIDE DEF UpTo
    <2>2. Cardinality(UpTo(j)) \in Nat /\ Cardinality(UpTo(k)) \in Nat BY <1>2
    <2>3. <<j, k>> \in R \/ <<k, j>> \in R BY DEF Orders
    <2>4. ~(Cardinality(UpTo(j)) < Cardinality(UpTo(k))) /\ ~(Cardinality(UpTo(k)) < Cardinality(UpTo(j)))
      BY <2>1, <2>2
    <2> QED BY <1>3, <2>3, <2>4
  <1>6. \A j, k \in I : <<j, k>> \in R => at[j] < at[k]
    <2> HIDE DEF UpTo
    <2> QED BY <1>3
  <1>7. \A p \in 1 .. Cardinality(I) : \E k \in I : at[k] = p
    <2> HIDE DEF at
    <2>1. at \in Injection(I, 1 .. Cardinality(I)) BY <1>4, <1>5 DEF Injection, IsInjective
    <2>2. /\ IsFiniteSet(1 .. Cardinality(I)) /\ Cardinality(1 .. Cardinality(I)) = Cardinality(I)
      BY <1>1, FS_Interval
    <2>3. at \in Surjection(I, 1 .. Cardinality(I)) BY <2>1, <2>2, FS_Injection
    <2> QED BY <2>3 DEF Surjection
  <1>8. at = PlaceIn(R, I) BY DEF PlaceIn
  <1> HIDE DEF at
  <1> QED BY <1>1, <1>4, <1>5, <1>6, <1>7, <1>8

(* One of them is the last.                                                *)
LEMMA SomeLast ==
    ASSUME NEW I, IsFiniteSet(I), I # {}, NEW R, Orders(R, I)
    PROVE  \E b \in I : \A j \in I \ {b} : <<j, b>> \in R
  <1> DEFINE at == PlaceIn(R, I)
  <1>1. /\ at \in [I -> 1 .. Cardinality(I)] /\ Cardinality(I) \in Nat
        /\ \A j, k \in I : <<j, k>> \in R => at[j] < at[k]
        /\ \A p \in 1 .. Cardinality(I) : \E k \in I : at[k] = p
    BY Counted
  <1>2. Cardinality(I) # 0 BY FS_EmptySet
  <1> HIDE DEF at
  <1>3. PICK b \in I : at[b] = Cardinality(I) BY <1>1, <1>2
  <1>4. ASSUME NEW j \in I \ {b} PROVE <<j, b>> \in R
    <2>1. ~(at[b] < at[j]) BY <1>1, <1>3
    <2> QED BY <1>1, <2>1 DEF Orders
  <1> QED BY <1>4

(* What is taken of a sequence keeps its elements, each as often as it was *)
(* there.                                                                  *)
LEMMA InOrderIs ==
    ASSUME NEW S, NEW s \in Seq(S), NEW I, I \subseteq DOMAIN s
    PROVE  /\ InOrder(s, I) \in Seq(S)
           /\ \A k \in DOMAIN InOrder(s, I) : \E i \in I : InOrder(s, I)[k] = s[i]
           /\ \A i \in I : \E k \in DOMAIN InOrder(s, I) : InOrder(s, I)[k] = s[i]
           /\ \E h \in [DOMAIN InOrder(s, I) -> I] :
                 /\ \A k \in DOMAIN InOrder(s, I) : InOrder(s, I)[k] = s[h[k]]
                 /\ \A k, l \in DOMAIN InOrder(s, I) : h[k] = h[l] => k = l
           /\ InOrder(s, I) = << >> <=> I = {}
  <1> DEFINE R == {r \in I \X I : r[1] < r[2]}
             at == PlaceIn(R, I)
             N == Cardinality(I)
  <1>1. DOMAIN s = 1 .. Len(s) /\ Len(s) \in Nat /\ \A i \in DOMAIN s : s[i] \in S OBVIOUS
  <1>2. IsFiniteSet(I)
    <2>1. IsFiniteSet(1 .. Len(s)) BY <1>1, FS_Interval
    <2> HIDE DEF R, at, N
    <2> QED BY <1>1, <2>1, FS_Subset
  <1>3. I \subseteq Int BY <1>1
  <1>4. \A i, j \in I : <<i, j>> \in R <=> i < j OBVIOUS
  <1>5. Orders(R, I)
    <2> HIDE DEF R
    <2> QED BY <1>3, <1>4 DEF Orders
  <1>6. /\ at \in [I -> 1 .. N] /\ N \in Nat
        /\ \A j, k \in I : at[j] = at[k] => j = k
        /\ \A p \in 1 .. N : \E k \in I : at[k] = p
    <2> HIDE DEF R
    <2> QED BY <1>2, <1>5, Counted
  <1>7. ASSUME NEW i \in I PROVE at[i] = Cardinality({j \in I : j <= i})
    <2>1. {j \in I : j = i \/ <<j, i>> \in R} = {j \in I : j <= i}
      <3> HIDE DEF R
      <3> QED BY <1>3, <1>4
    <2> HIDE DEF R
    <2> QED BY <2>1 DEF PlaceIn
  <1> DEFINE h == [k \in 1 .. N |-> CHOOSE i \in I : Cardinality({j \in I : j <= i}) = k]
             t == InOrder(s, I)
  <1>8. ASSUME NEW k \in 1 .. N PROVE h[k] \in I /\ at[h[k]] = k
    <2> HIDE DEF at
    <2>1. \E i \in I : Cardinality({j \in I : j <= i}) = k BY <1>6, <1>7
    <2>2. h[k] \in I /\ Cardinality({j \in I : j <= h[k]}) = k BY <2>1
    <2> HIDE DEF h
    <2> QED BY <1>7, <2>2
  <1>9. t = [k \in 1 .. N |-> s[h[k]]] BY DEF InOrder
  <1> HIDE DEF at, h, t, N
  <1>10. t \in [1 .. N -> S] BY <1>1, <1>8, <1>9
  <1>11. t \in Seq(S) /\ DOMAIN t = 1 .. N BY <1>6, <1>10
  <1>12. ASSUME NEW k \in 1 .. N PROVE t[k] = s[h[k]] BY <1>9
  <1>13. ASSUME NEW i \in I PROVE \E k \in 1 .. N : t[k] = s[i]
    <2>1. at[i] \in 1 .. N BY <1>6
    <2>2. h[at[i]] = i BY <1>6, <1>8, <2>1
    <2> QED BY <1>12, <2>1, <2>2
  <1>14. h \in [1 .. N -> I] BY <1>8 DEF h
  <1>15. \A k, l \in 1 .. N : h[k] = h[l] => k = l BY <1>8
  <1>16. t = << >> <=> I = {}
    <2>1. CASE I = {}
      <3>1. N = 0 BY <2>1, FS_EmptySet DEF N
      <3>2. Len(t) = 0 BY <1>10, <1>11, <3>1
      <3> QED BY <1>11, <2>1, <3>2
    <2>2. CASE I # {}
      <3>1. PICK i \in I : TRUE BY <2>2
      <3>2. DOMAIN t # {} BY <1>11, <1>13, <3>1
      <3>3. DOMAIN << >> = {} OBVIOUS
      <3> QED BY <2>2, <3>2, <3>3
    <2> QED BY <2>1, <2>2
  <1>17. /\ \A k \in DOMAIN t : \E i \in I : t[k] = s[i]
         /\ \A i \in I : \E k \in DOMAIN t : t[k] = s[i]
    BY <1>8, <1>11, <1>12, <1>13
  <1>18. \E g \in [DOMAIN t -> I] :
            /\ \A k \in DOMAIN t : t[k] = s[g[k]]
            /\ \A k, l \in DOMAIN t : g[k] = g[l] => k = l
    BY <1>11, <1>12, <1>14, <1>15
  <1> QED BY <1>11, <1>16, <1>17, <1>18 DEF t

-----------------------------------------------------------------------------
(* Rows, and which of them is shown.                                       *)
LEMMA FilesAre ==
    /\ IsFiniteSet(Files) /\ Files # {} /\ Cardinality(Files) <= Len(HistoryOrder)
    /\ \A i \in DOMAIN HistoryOrder : HistoryOrder[i] \in Files
    /\ Finals \subseteq Files
  <1>1. HistoryOrder \in Seq(Files) /\ HistoryOrder # << >> BY ArchiveAssumption
  <1>2. DOMAIN HistoryOrder = 1 .. Len(HistoryOrder) /\ Len(HistoryOrder) \in Nat BY <1>1
  <1>3. /\ IsFiniteSet(DOMAIN HistoryOrder)
        /\ Cardinality(DOMAIN HistoryOrder) = Len(HistoryOrder)
    <2> DEFINE n == Len(HistoryOrder)
    <2>1. n \in Nat BY <1>2
    <2> HIDE DEF n
    <2>2. IsFiniteSet(1 .. n) /\ Cardinality(1 .. n) = n BY <2>1, FS_Interval
    <2> QED BY <1>2, <2>2 DEF n
  <1>4. HistoryOrder \in Surjection(DOMAIN HistoryOrder, Files)
    BY <1>1 DEF Surjection, Files, Range
  <1>5. IsFiniteSet(Files) /\ Cardinality(Files) <= Len(HistoryOrder)
    BY <1>3, <1>4, FS_Surjection
  <1>6. Files # {}
    <2>1. Len(HistoryOrder) # 0 BY <1>1
    <2>2. 1 \in DOMAIN HistoryOrder BY <1>2, <2>1
    <2> QED BY <2>2 DEF Files, Range
  <1> QED BY <1>1, <1>5, <1>6 DEF Files, Range, Finals

LEMMA PicturesOf ==
    ASSUME NEW s \in Seq(ArchiveRow)
    PROVE  /\ Pictures(s) \subseteq DOMAIN s /\ IsFiniteSet(Pictures(s)) /\ Pictures(s) \subseteq Int
           /\ \A i \in Pictures(s) : /\ s[i] \in ArchiveRow /\ s[i].file \in Files
                                     /\ Rank[s[i].file] \in Nat /\ Batch[s[i].file] \in Nat
  <1>1. DOMAIN s = 1 .. Len(s) /\ Len(s) \in Nat OBVIOUS
  <1>2. IsFiniteSet(DOMAIN s) BY <1>1, FS_Interval
  <1>3. Pictures(s) \subseteq DOMAIN s BY DEF Pictures
  <1>4. IsFiniteSet(Pictures(s)) BY <1>2, <1>3, FS_Subset
  <1>0. \A i \in DOMAIN s : s[i] \in ArchiveRow OBVIOUS
  <1>5. \A i \in DOMAIN s : s[i] \in ArchiveRow /\ s[i].file \in Files BY <1>0 DEF ArchiveRow
  <1> QED BY <1>1, <1>3, <1>4, <1>5, ArchiveAssumption

LEMMA BeforeOrders ==
    ASSUME NEW s \in Seq(ArchiveRow)
    PROVE  /\ \A i, j \in Pictures(s) : i # j => Before(s, i, j) \/ Before(s, j, i)
           /\ \A i \in Pictures(s) : ~Before(s, i, i)
           /\ \A i, j, k \in Pictures(s) : Before(s, i, j) /\ Before(s, j, k) => Before(s, i, k)
  <1>1. ASSUME NEW i \in Pictures(s), NEW j \in Pictures(s), i # j
        PROVE  Before(s, i, j) \/ Before(s, j, i)
    BY <1>1, PicturesOf DEF Before
  <1>2. ASSUME NEW i \in Pictures(s) PROVE ~Before(s, i, i)
    BY PicturesOf DEF Before
  <1>3. ASSUME NEW i \in Pictures(s), NEW j \in Pictures(s), NEW k \in Pictures(s),
               Before(s, i, j), Before(s, j, k)
        PROVE  Before(s, i, k)
    BY <1>3, PicturesOf DEF Before
  <1> QED BY <1>1, <1>2, <1>3

LEMMA LatestIs ==
    ASSUME NEW s \in Seq(ArchiveRow), Pictures(s) # {}
    PROVE  Latest(s) \in Pictures(s)
  <1> DEFINE R == {r \in Pictures(s) \X Pictures(s) : Before(s, r[1], r[2])}
  <1>1. \A i, j \in Pictures(s) : <<i, j>> \in R <=> Before(s, i, j) OBVIOUS
  <1> HIDE DEF R
  <1>2. Orders(R, Pictures(s)) BY <1>1, BeforeOrders DEF Orders
  <1>3. \E b \in Pictures(s) : \A j \in Pictures(s) \ {b} : <<j, b>> \in R
    <2>1. IsFiniteSet(Pictures(s)) BY PicturesOf
    <2> QED BY <1>2, <2>1, SomeLast
  <1>4. \E b \in Pictures(s) : \A j \in Pictures(s) \ {b} : Before(s, j, b)
    BY <1>1, <1>3
  <1> QED BY <1>4 DEF Latest

LEMMA BestIs ==
    ASSUME NEW s \in Seq(ArchiveRow), Pictures(s) # {}
    PROVE  /\ BestOf(s) \in Pictures(s)
           /\ (\E i \in Pictures(s) : s[i].file \in Finals) => s[BestOf(s)].file \in Finals
  <1> DEFINE R == {r \in Pictures(s) \X Pictures(s) : Lesser(s, r[1], r[2])}
             role(i) == Rank[s[i].file] \div 1000
             durable(i) == s[i].file \in Durable
  <1>1. \A i, j \in Pictures(s) : <<i, j>> \in R <=> Lesser(s, i, j) OBVIOUS
  <1> HIDE DEF R
  <1>2. \A i \in Pictures(s) : role(i) \in Int BY PicturesOf
  <1>3. \A i, j \in Pictures(s) :
           Lesser(s, i, j) <=> \/ role(i) < role(j)
                               \/ role(i) = role(j) /\ ~durable(i) /\ durable(j)
                               \/ role(i) = role(j) /\ durable(i) = durable(j) /\ Before(s, i, j)
    BY DEF Lesser
  <1>4. Orders(R, Pictures(s))
    <2> HIDE DEF role, durable
    <2>1. ASSUME NEW i \in Pictures(s), NEW j \in Pictures(s), i # j
          PROVE  Lesser(s, i, j) \/ Lesser(s, j, i)
      <3>1. role(i) < role(j) \/ role(j) < role(i) \/ role(i) = role(j) BY <1>2
      <3>2. Before(s, i, j) \/ Before(s, j, i) BY <2>1, BeforeOrders
      <3>3. durable(i) = durable(j) \/ (~durable(i) /\ durable(j)) \/ (durable(i) /\ ~durable(j))
        BY DEF durable
      <3>4. CASE role(i) = role(j)
        <4>1. CASE durable(i) = durable(j) BY <1>3, <3>2, <3>4, <4>1
        <4>2. CASE ~durable(i) /\ durable(j) BY <1>3, <3>4, <4>2
        <4>3. CASE durable(i) /\ ~durable(j) BY <1>3, <3>4, <4>3
        <4> QED BY <3>3, <4>1, <4>2, <4>3
      <3> QED BY <1>3, <3>1, <3>4
    <2>2. ASSUME NEW i \in Pictures(s) PROVE ~Lesser(s, i, i)
      BY <1>2, <1>3, BeforeOrders
    <2>3. ASSUME NEW i \in Pictures(s), NEW j \in Pictures(s), NEW k \in Pictures(s),
                 Lesser(s, i, j), Lesser(s, j, k)
          PROVE  Lesser(s, i, k)
      <3>1. Before(s, i, j) /\ Before(s, j, k) => Before(s, i, k) BY BeforeOrders
      <3>2. role(i) \in Int /\ role(j) \in Int /\ role(k) \in Int BY <1>2
      <3> QED BY <1>3, <2>3, <3>1, <3>2
    <2> QED BY <1>1, <2>1, <2>2, <2>3 DEF Orders
  <1>5. \E b \in Pictures(s) : \A j \in Pictures(s) \ {b} : <<j, b>> \in R
    <2>1. IsFiniteSet(Pictures(s)) BY PicturesOf
    <2> QED BY <1>4, <2>1, SomeLast
  <1>6. \E b \in Pictures(s) : \A j \in Pictures(s) \ {b} : Lesser(s, j, b)
    BY <1>1, <1>5
  <1>7. BestOf(s) \in Pictures(s) /\ \A j \in Pictures(s) \ {BestOf(s)} : Lesser(s, j, BestOf(s))
    BY <1>6 DEF BestOf
  <1>8. ASSUME NEW i \in Pictures(s), s[i].file \in Finals, i # BestOf(s)
        PROVE  s[BestOf(s)].file \in Finals
    <2>1. role(i) <= role(BestOf(s))
      <3> HIDE DEF role, durable
      <3>1. Lesser(s, i, BestOf(s)) BY <1>7, <1>8
      <3> QED BY <1>2, <1>3, <1>7, <3>1
    <2>2. \A a, b \in Nat : a >= 4000 /\ a \div 1000 <= b \div 1000 => b >= 4000 OBVIOUS
    <2>3. Rank[s[i].file] \in Nat /\ Rank[s[BestOf(s)].file] \in Nat /\ s[BestOf(s)].file \in Files
      BY <1>7, PicturesOf
    <2>4. Rank[s[i].file] >= 4000 BY <1>8 DEF Finals
    <2>5. Rank[s[BestOf(s)].file] >= 4000 BY <2>1, <2>2, <2>3, <2>4
    <2> QED BY <2>3, <2>5 DEF Finals
  <1> QED BY <1>7, <1>8

LEMMA FirstIs ==
    ASSUME NEW finals \in Seq(ArchiveRow), finals # << >>, \A i \in DOMAIN finals : finals[i].file \in Finals
    PROVE  \E i \in DOMAIN finals : First(finals) = finals[i].file
  <1>1. DOMAIN finals # {}
    <2>1. DOMAIN finals = 1 .. Len(finals) /\ Len(finals) \in Nat /\ Len(finals) # 0 OBVIOUS
    <2> QED BY <2>1
  <1>2. \A i \in DOMAIN finals : finals[i].file \in Files /\ Batch[finals[i].file] \in Nat
    BY ArchiveAssumption DEF Finals
  <1> DEFINE B == {Batch[finals[i].file] : i \in DOMAIN finals}
  <1>3. B \subseteq Nat /\ B # {} BY <1>1, <1>2
  <1>4. PICK b \in B : \A c \in B : b <= c
    <2> HIDE DEF B
    <2> QED BY <1>3, SomeLeast
  <1>5. PICK i \in DOMAIN finals : b = Batch[finals[i].file] BY <1>4
  <1>6. \A j \in DOMAIN finals : Rank[finals[i].file] = Rank[finals[j].file] /\ Batch[finals[i].file] <= Batch[finals[j].file]
    BY <1>4, <1>5, FinalsAssumption
  <1> QED BY <1>6 DEF First

(* Rows that were taken of others.                                         *)
ArePart(t, s) ==
    /\ t \in Seq(ArchiveRow)
    /\ \E h \in [DOMAIN t -> DOMAIN s] :
          /\ \A k \in DOMAIN t : t[k] = s[h[k]]
          /\ \A k, l \in DOMAIN t : h[k] = h[l] => k = l

OwnPaths(s) == \A i, j \in DOMAIN s : s[i].path = s[j].path => i = j

LEMMA PartKeeps ==
    ASSUME NEW s, NEW t, ArePart(t, s)
    PROVE  /\ PathsOf(t) \subseteq PathsOf(s)
           /\ \A k \in DOMAIN t : \E i \in DOMAIN s : t[k] = s[i]
           /\ OwnPaths(s) => OwnPaths(t)
  <1>1. PICK h \in [DOMAIN t -> DOMAIN s] :
           /\ \A k \in DOMAIN t : t[k] = s[h[k]]
           /\ \A k, l \in DOMAIN t : h[k] = h[l] => k = l
    BY DEF ArePart
  <1>2. \A k \in DOMAIN t : h[k] \in DOMAIN s /\ t[k] = s[h[k]] BY <1>1
  <1>3. PathsOf(t) \subseteq PathsOf(s) BY <1>2 DEF PathsOf
  <1>4. OwnPaths(s) => OwnPaths(t) BY <1>1, <1>2 DEF OwnPaths
  <1> QED BY <1>2, <1>3, <1>4

LEMMA InOrderIsPart ==
    ASSUME NEW s \in Seq(ArchiveRow), NEW I, I \subseteq DOMAIN s
    PROVE  /\ ArePart(InOrder(s, I), s)
           /\ \A k \in DOMAIN InOrder(s, I) : \E i \in I : InOrder(s, I)[k] = s[i]
           /\ \A i \in I : \E k \in DOMAIN InOrder(s, I) : InOrder(s, I)[k] = s[i]
           /\ InOrder(s, I) = << >> <=> I = {}
  <1> DEFINE t == InOrder(s, I)
  <1>1. /\ t \in Seq(ArchiveRow)
        /\ \A k \in DOMAIN t : \E i \in I : t[k] = s[i]
        /\ \A i \in I : \E k \in DOMAIN t : t[k] = s[i]
        /\ \E h \in [DOMAIN t -> I] :
              /\ \A k \in DOMAIN t : t[k] = s[h[k]]
              /\ \A k, l \in DOMAIN t : h[k] = h[l] => k = l
        /\ t = << >> <=> I = {}
    BY InOrderIs
  <1> HIDE DEF t
  <1>2. \E h \in [DOMAIN t -> DOMAIN s] :
              /\ \A k \in DOMAIN t : t[k] = s[h[k]]
              /\ \A k, l \in DOMAIN t : h[k] = h[l] => k = l
    BY <1>1
  <1> QED BY <1>1, <1>2 DEF ArePart, t

LEMMA WithoutIs ==
    ASSUME NEW s \in Seq(ArchiveRow), NEW drop
    PROVE  /\ ArePart(Without(s, drop), s)
           /\ PathsOf(Without(s, drop)) = PathsOf(s) \ drop
           /\ \A i \in DOMAIN s : s[i].path \notin drop =>
                 \E k \in DOMAIN Without(s, drop) : Without(s, drop)[k] = s[i]
  <1> DEFINE I == {i \in DOMAIN s : s[i].path \notin drop}
             t == InOrder(s, I)
  <1>1. /\ ArePart(t, s)
        /\ \A k \in DOMAIN t : \E i \in I : t[k] = s[i]
        /\ \A i \in I : \E k \in DOMAIN t : t[k] = s[i]
    <2> HIDE DEF t
    <2> QED BY InOrderIsPart DEF t
  <1>2. Without(s, drop) = t BY DEF Without
  <1> HIDE DEF t
  <1>3. PathsOf(t) = PathsOf(s) \ drop
    <2>1. ASSUME NEW p \in PathsOf(t) PROVE p \in PathsOf(s) \ drop
      <3>1. PICK k \in DOMAIN t : p = t[k].path BY <2>1 DEF PathsOf
      <3>2. PICK i \in I : t[k] = s[i] BY <1>1
      <3> QED BY <3>1, <3>2 DEF PathsOf
    <2>2. ASSUME NEW p \in PathsOf(s) \ drop PROVE p \in PathsOf(t)
      <3>1. PICK i \in DOMAIN s : p = s[i].path BY <2>2 DEF PathsOf
      <3>2. PICK k \in DOMAIN t : t[k] = s[i] BY <1>1, <2>2, <3>1
      <3> QED BY <3>1, <3>2 DEF PathsOf
    <2> QED BY <2>1, <2>2
  <1> QED BY <1>1, <1>2, <1>3

LEMMA FinalRowsAre ==
    ASSUME NEW s \in Seq(ArchiveRow)
    PROVE  /\ FinalRows(s) \in Seq(ArchiveRow)
           /\ \A k \in DOMAIN FinalRows(s) :
                 FinalRows(s)[k].file \in Finals /\ \E i \in Pictures(s) : FinalRows(s)[k] = s[i]
           /\ \A i \in DOMAIN s : s[i].file \in Finals => \E k \in DOMAIN FinalRows(s) : FinalRows(s)[k] = s[i]
           /\ FinalRows(s) # << >> <=> \E i \in DOMAIN s : s[i].file \in Finals
           /\ FinalRows(s) # << >> => Pictures(s) # {}
  <1> DEFINE I == {i \in DOMAIN s : s[i].file \in Finals}
             t == InOrder(s, I)
  <1>1. /\ ArePart(t, s)
        /\ \A k \in DOMAIN t : \E i \in I : t[k] = s[i]
        /\ \A i \in I : \E k \in DOMAIN t : t[k] = s[i]
        /\ t = << >> <=> I = {}
    <2> HIDE DEF t
    <2> QED BY InOrderIsPart DEF t
  <1>2. FinalRows(s) = t BY DEF FinalRows
  <1> HIDE DEF t
  <1>3. I \subseteq Pictures(s) BY FinalsAssumption DEF Pictures
  <1>4. ASSUME NEW k \in DOMAIN t PROVE t[k].file \in Finals /\ \E i \in Pictures(s) : t[k] = s[i]
    <2>1. PICK i \in I : t[k] = s[i] BY <1>1
    <2> QED BY <1>3, <2>1
  <1>5. t \in Seq(ArchiveRow) BY <1>1 DEF ArePart
  <1> QED BY <1>1, <1>2, <1>3, <1>4, <1>5

(* A result keeps pictures, at least one if there is one, the final ones   *)
(* of a success, and a final one if there is one.                          *)
LEMMA RetainedIs ==
    ASSUME NEW s \in Seq(ArchiveRow), NEW success \in BOOLEAN
    PROVE  /\ Retained(s, success) \in Seq(ArchiveRow)
           /\ \A k \in DOMAIN Retained(s, success) : \E i \in Pictures(s) : Retained(s, success)[k] = s[i]
           /\ Retained(s, success) # << >> <=> Pictures(s) # {}
           /\ \A i \in DOMAIN s : success /\ s[i].file \in Finals =>
                 \E k \in DOMAIN Retained(s, success) : Retained(s, success)[k] = s[i]
           /\ (\E i \in DOMAIN s : s[i].file \in Finals) =>
                 \E k \in DOMAIN Retained(s, success) : Retained(s, success)[k].file \in Finals
  <1> DEFINE t == Retained(s, success)
             u == FinalRows(s)
  <1>0. /\ u \in Seq(ArchiveRow)
        /\ \A k \in DOMAIN u : u[k].file \in Finals /\ \E i \in Pictures(s) : u[k] = s[i]
        /\ \A i \in DOMAIN s : s[i].file \in Finals => \E k \in DOMAIN u : u[k] = s[i]
        /\ u # << >> <=> \E i \in DOMAIN s : s[i].file \in Finals
        /\ u # << >> => Pictures(s) # {}
    BY FinalRowsAre
  <1> HIDE DEF u
  <1>1. CASE success /\ u # << >>
    <2>1. t = u BY <1>1 DEF Retained, u
    <2>2. ASSUME NEW i \in DOMAIN s, s[i].file \in Finals
          PROVE  \E k \in DOMAIN u : u[k].file \in Finals
      BY <1>0, <2>2
    <2> HIDE DEF t
    <2> QED BY <1>0, <1>1, <2>1, <2>2 DEF t
  <1>2. CASE ~(success /\ u # << >>) /\ Pictures(s) = {}
    <2>1. t = << >> BY <1>2 DEF Retained, u
    <2>2. \A i \in DOMAIN s : s[i].file \notin Finals BY <1>2, FinalsAssumption DEF Pictures
    <2>3. t \in Seq(ArchiveRow) /\ DOMAIN t = {} BY <2>1
    <2> HIDE DEF t
    <2> QED BY <1>2, <2>1, <2>2, <2>3 DEF t
  <1>3. CASE ~(success /\ u # << >>) /\ Pictures(s) # {}
    <2>1. t = <<s[BestOf(s)]>> BY <1>3 DEF Retained, u
    <2>2. BestOf(s) \in Pictures(s) /\ s[BestOf(s)] \in ArchiveRow BY <1>3, BestIs, PicturesOf
    <2>3. t \in Seq(ArchiveRow) /\ DOMAIN t = {1} /\ t[1] = s[BestOf(s)] /\ t # << >> BY <2>1, <2>2
    <2> HIDE DEF t
    <2>4. \A i \in DOMAIN s : s[i].file \in Finals => i \in Pictures(s)
      BY FinalsAssumption DEF Pictures
    <2>5. (\E i \in DOMAIN s : s[i].file \in Finals) => t[1].file \in Finals
      BY <1>3, <2>3, <2>4, BestIs
    <2>6. ~success \/ \A i \in DOMAIN s : s[i].file \notin Finals BY <1>0, <1>3
    <2> QED BY <1>3, <2>2, <2>3, <2>5, <2>6 DEF t
  <1> QED BY <1>1, <1>2, <1>3

(* What a result keeps of its rows, all of them or the pictures it retains.*)
LEMMA KeptIs ==
    ASSUME rows \in Seq(ArchiveRow), OwnPaths(rows), NEW success \in BOOLEAN
    PROVE  /\ ArePart(Kept(success), rows)
           /\ \A i \in DOMAIN rows : rows[i].path \in PathsOf(Retained(rows, success)) =>
                 \E k \in DOMAIN Kept(success) : Kept(success)[k] = rows[i]
           /\ success => \A i \in DOMAIN rows : rows[i].file \in Finals =>
                 \E k \in DOMAIN Kept(success) : Kept(success)[k] = rows[i]
           /\ (\E i \in DOMAIN rows : rows[i].file \in Finals) =>
                 \E k \in DOMAIN Kept(success) : Kept(success)[k].file \in Finals
           /\ PathsOf(Kept(success)) \subseteq PathsOf(rows)
  <1> DEFINE I == {i \in DOMAIN rows : \/ rows[i].file \notin Images
                                       \/ rows[i].path \in PathsOf(Retained(rows, success))}
             t == InOrder(rows, I)
             u == Retained(rows, success)
  <1>1. Kept(success) = t BY DEF Kept
  <1>2. /\ ArePart(t, rows)
        /\ \A i \in I : \E k \in DOMAIN t : t[k] = rows[i]
    <2> HIDE DEF t
    <2> QED BY InOrderIsPart DEF t
  <1>3. /\ u \in Seq(ArchiveRow)
        /\ \A k \in DOMAIN u : \E i \in Pictures(rows) : u[k] = rows[i]
        /\ \A i \in DOMAIN rows : success /\ rows[i].file \in Finals =>
                 \E k \in DOMAIN u : u[k] = rows[i]
        /\ (\E i \in DOMAIN rows : rows[i].file \in Finals) => \E k \in DOMAIN u : u[k].file \in Finals
    BY RetainedIs
  <1> HIDE DEF t, u
  <1>4. \A i \in DOMAIN rows : rows[i].path \in PathsOf(u) => \E k \in DOMAIN t : t[k] = rows[i]
    BY <1>2 DEF u
  <1>5. ASSUME success, NEW i \in DOMAIN rows, rows[i].file \in Finals
        PROVE  \E k \in DOMAIN t : t[k] = rows[i]
    <2>1. PICK k \in DOMAIN u : u[k] = rows[i] BY <1>3, <1>5
    <2>2. rows[i].path \in PathsOf(u) BY <2>1 DEF PathsOf
    <2> QED BY <1>4, <2>2
  <1>6. ASSUME \E i \in DOMAIN rows : rows[i].file \in Finals
        PROVE  \E k \in DOMAIN t : t[k].file \in Finals
    <2>1. PICK k \in DOMAIN u : u[k].file \in Finals BY <1>3, <1>6
    <2>2. PICK i \in Pictures(rows) : u[k] = rows[i] BY <1>3
    <2>3. rows[i].path \in PathsOf(u) BY <2>2 DEF PathsOf
    <2>4. i \in DOMAIN rows BY DEF Pictures
    <2>5. PICK l \in DOMAIN t : t[l] = rows[i] BY <1>4, <2>3, <2>4
    <2> QED BY <2>1, <2>2, <2>5
  <1>7. PathsOf(t) \subseteq PathsOf(rows) BY <1>2, PartKeeps
  <1> QED BY <1>1, <1>2, <1>4, <1>5, <1>6, <1>7 DEF u

(* The picture that is shown is one of the rows that are kept.             *)
LEMMA ShownIs ==
    ASSUME rows \in Seq(ArchiveRow), OwnPaths(rows), NEW success \in BOOLEAN
    PROVE  /\ Shown(Retained(rows, success)) \in Files \cup {NoSource}
           /\ Pictures(Kept(success)) # {} =>
                 Shown(Retained(rows, success)) \in {Kept(success)[i].file : i \in Pictures(Kept(success))}
           /\ success /\ FinalRows(rows) # << >> =>
                 First(FinalRows(rows)) \in {Kept(success)[i].file : i \in Pictures(Kept(success))}
           /\ FinalRows(rows) # << >> => First(FinalRows(rows)) \in Files
  <1> DEFINE t == Kept(success)
             u == Retained(rows, success)
             v == FinalRows(rows)
  <1>1. /\ ArePart(t, rows)
        /\ \A i \in DOMAIN rows : rows[i].path \in PathsOf(u) => \E k \in DOMAIN t : t[k] = rows[i]
        /\ success => \A i \in DOMAIN rows : rows[i].file \in Finals =>
                 \E k \in DOMAIN t : t[k] = rows[i]
    BY KeptIs
  <1>2. /\ u \in Seq(ArchiveRow)
        /\ \A k \in DOMAIN u : \E i \in Pictures(rows) : u[k] = rows[i]
        /\ u # << >> <=> Pictures(rows) # {}
    BY RetainedIs
  <1>3. /\ v \in Seq(ArchiveRow)
        /\ \A k \in DOMAIN v : v[k].file \in Finals /\ \E i \in Pictures(rows) : v[k] = rows[i]
    BY FinalRowsAre
  <1> HIDE DEF t, u, v
  <1>4. \A i \in Pictures(rows) : i \in DOMAIN rows /\ rows[i].file \in Images /\ rows[i].file \in Files
    BY PicturesOf DEF Pictures
  <1>5. ASSUME NEW k \in DOMAIN t, NEW i \in Pictures(rows), t[k] = rows[i]
        PROVE  rows[i].file \in {t[l].file : l \in Pictures(t)}
    BY <1>4, <1>5 DEF Pictures
  <1>6. ASSUME u # << >>
        PROVE  \E i \in Pictures(rows) : Shown(u) = rows[i].file /\ rows[i].path \in PathsOf(u)
    <2>1. Pictures(u) # {}
      <3>1. DOMAIN u = 1 .. Len(u) /\ Len(u) \in Nat /\ Len(u) # 0 BY <1>2, <1>6
      <3>2. 1 \in DOMAIN u BY <3>1
      <3>3. PICK i \in Pictures(rows) : u[1] = rows[i] BY <1>2, <3>2
      <3> QED BY <1>4, <3>2, <3>3 DEF Pictures
    <2>2. BestOf(u) \in Pictures(u) BY <1>2, <2>1, BestIs
    <2>3. BestOf(u) \in DOMAIN u BY <2>2 DEF Pictures
    <2>4. PICK i \in Pictures(rows) : u[BestOf(u)] = rows[i] BY <1>2, <2>3
    <2>5. Shown(u) = u[BestOf(u)].file BY <1>6 DEF Shown
    <2>6. rows[i].path \in PathsOf(u) BY <2>3, <2>4 DEF PathsOf
    <2> QED BY <2>4, <2>5, <2>6
  <1>7. Shown(u) \in Files \cup {NoSource}
    <2>1. CASE u = << >> BY <2>1 DEF Shown
    <2>2. CASE u # << >> BY <1>4, <1>6, <2>2
    <2> QED BY <2>1, <2>2
  <1>8. ASSUME Pictures(t) # {} PROVE Shown(u) \in {t[l].file : l \in Pictures(t)}
    <2>1. PICK k \in Pictures(t) : TRUE BY <1>8
    <2>2. k \in DOMAIN t /\ t[k].file \in Images BY DEF Pictures
    <2>3. PICK i \in DOMAIN rows : t[k] = rows[i] BY <1>1, <2>2, PartKeeps
    <2>4. u # << >> BY <1>2, <2>2, <2>3 DEF Pictures
    <2>5. PICK j \in Pictures(rows) : Shown(u) = rows[j].file /\ rows[j].path \in PathsOf(u) BY <1>6, <2>4
    <2>6. PICK l \in DOMAIN t : t[l] = rows[j] BY <1>1, <1>4, <2>5
    <2> QED BY <1>5, <2>5, <2>6
  <1>9. ASSUME v # << >> PROVE \E k \in DOMAIN v : First(v) = v[k].file
    BY <1>3, <1>9, FirstIs
  <1>10. ASSUME v # << >>, success PROVE First(v) \in {t[l].file : l \in Pictures(t)}
    <2>1. PICK k \in DOMAIN v : First(v) = v[k].file BY <1>9, <1>10
    <2>2. PICK i \in Pictures(rows) : v[k] = rows[i] BY <1>3
    <2>3. PICK l \in DOMAIN t : t[l] = rows[i] BY <1>1, <1>3, <1>4, <1>10, <2>2
    <2> QED BY <1>5, <2>1, <2>2, <2>3
  <1>11. v # << >> => First(v) \in Files BY <1>3, <1>9, FilesAre
  <1> QED BY <1>7, <1>8, <1>10, <1>11 DEF t, u, v

(* No image of an earlier stage, and no other of its batch, replaces a     *)
(* final one; and what is not worth a row already has one.                 *)
LEMMA SupersededIs ==
    ASSUME rows \in Seq(ArchiveRow), NEW f \in Files
    PROVE  \A i \in Superseded(f) : i \in DOMAIN rows /\ (rows[i].file \in Finals => rows[i].file = f)
  <1>1. CASE Pictures(rows) = {} BY <1>1 DEF Superseded
  <1>2. CASE Pictures(rows) # {}
    <2> DEFINE c == rows[Latest(rows)].file
    <2>1. c \in Files /\ Rank[c] \in Nat /\ Rank[f] \in Nat
      BY <1>2, LatestIs, PicturesOf, ArchiveAssumption
    <2> SUFFICES ASSUME NEW i \in Superseded(f), rows[i].file \in Finals
                 PROVE  rows[i].file = f
      <3>1. \A i \in Superseded(f) : i \in Pictures(rows) BY <1>2 DEF Superseded
      <3> QED BY <3>1 DEF Pictures
    <2>2. /\ i \in Pictures(rows)
          /\ IF Rank[f] > Rank[c] THEN Rank[rows[i].file] < Rank[f]
             ELSE /\ Rank[rows[i].file] = Rank[f]
                  /\ Output[rows[i].file] = Output[f] /\ Batch[rows[i].file] = Batch[f]
      BY <1>2 DEF Superseded
    <2> HIDE DEF c
    <2>3. Rank[rows[i].file] \in Nat /\ Rank[rows[i].file] >= 4000 BY <2>2, PicturesOf DEF Finals
    <2>4. CASE Rank[f] > Rank[c]
      <3>1. Rank[rows[i].file] < Rank[f] /\ f \in Finals BY <2>1, <2>2, <2>3, <2>4 DEF Finals
      <3>2. Rank[rows[i].file] = Rank[f] BY <3>1, FinalsAssumption
      <3> QED BY <2>1, <2>3, <3>1, <3>2
    <2>5. CASE ~(Rank[f] > Rank[c])
      <3>1. Output[rows[i].file] = Output[f] /\ Batch[rows[i].file] = Batch[f] BY <2>2, <2>5
      <3>2. f \in Finals BY <3>1, FinalsAssumption
      <3> QED BY <3>1, <3>2, FinalsAssumption
    <2> QED BY <2>4, <2>5
  <1> QED BY <1>1, <1>2

LEMMA UselessIs ==
    ASSUME rows \in Seq(ArchiveRow), NEW f \in Finals, Useless(f)
    PROVE  RowOf(f)
  <1>1. CASE \E i \in DOMAIN rows : LET g == rows[i].file IN
               Output[g] = Output[f] /\ Batch[g] = Batch[f] /\ Bytes[g] = Bytes[f]
    <2>1. PICK i \in DOMAIN rows : Output[rows[i].file] = Output[f] /\ Batch[rows[i].file] = Batch[f]
      BY <1>1
    <2>2. rows[i] \in ArchiveRow OBVIOUS
    <2>3. rows[i].file \in Files BY <2>2 DEF ArchiveRow
    <2>4. rows[i].file \in Finals BY <2>1, <2>3, FinalsAssumption
    <2>5. rows[i].file = f BY <2>1, <2>4, FinalsAssumption
    <2> QED BY <2>5 DEF RowOf
  <1>2. CASE Pictures(rows) # {} /\ Rank[f] < Rank[rows[Latest(rows)].file]
    <2> DEFINE c == rows[Latest(rows)].file
    <2>1. c \in Files /\ Rank[c] \in Nat BY <1>2, LatestIs, PicturesOf
    <2>2. f \in Files /\ Rank[f] \in Nat /\ Rank[f] >= 4000 BY ArchiveAssumption DEF Finals
    <2>3. Rank[f] < Rank[c] BY <1>2
    <2> HIDE DEF c
    <2>4. c \in Finals BY <2>1, <2>2, <2>3 DEF Finals
    <2>5. Rank[f] = Rank[c] BY <2>4, FinalsAssumption
    <2> QED BY <2>1, <2>2, <2>3, <2>5
  <1> QED BY <1>1, <1>2 DEF Useless

LEMMA FreePathIs ==
    ASSUME Free # {}
    PROVE  FreePath \in Free /\ FreePath \in Paths
  <1>1. Free \subseteq Paths BY DEF Free
  <1>2. Paths \subseteq Nat BY ArchiveAssumption DEF Paths
  <1>3. \E p \in Free : \A q \in Free : p <= q BY <1>1, <1>2, SomeLeast
  <1> QED BY <1>1, <1>3 DEF FreePath

(* The prompt's files in its history.                                      *)
LEMMA HistoryIs ==
    HistoryFiles \in Seq(Files) /\ Range(HistoryFiles) = Written
  <1> DEFINE I == {i \in DOMAIN HistoryOrder : HistoryOrder[i] \in Written}
             t == InOrder(HistoryOrder, I)
  <1>1. HistoryOrder \in Seq(Files) BY ArchiveAssumption
  <1>2. /\ t \in Seq(Files)
        /\ \A k \in DOMAIN t : \E i \in I : t[k] = HistoryOrder[i]
        /\ \A i \in I : \E k \in DOMAIN t : t[k] = HistoryOrder[i]
    <2>1. I \subseteq DOMAIN HistoryOrder OBVIOUS
    <2> HIDE DEF I
    <2>2. /\ t \in Seq(Files)
          /\ \A k \in DOMAIN t : \E i \in I : t[k] = HistoryOrder[i]
          /\ \A i \in I : \E k \in DOMAIN t : t[k] = HistoryOrder[i]
          /\ \E h \in [DOMAIN t -> I] :
                 /\ \A k \in DOMAIN t : t[k] = HistoryOrder[h[k]]
                 /\ \A k, l \in DOMAIN t : h[k] = h[l] => k = l
          /\ t = << >> <=> I = {}
      BY <1>1, <2>1, InOrderIs
    <2> QED BY <2>2
  <1>3. HistoryFiles = t BY DEF HistoryFiles
  <1> HIDE DEF t
  <1>4. ASSUME NEW f \in Written PROVE \E k \in DOMAIN t : t[k] = f
    <2>1. PICK i \in DOMAIN HistoryOrder : HistoryOrder[i] = f BY DEF Written, Files, Range
    <2> QED BY <1>2, <2>1
  <1>5. \A k \in DOMAIN t : t[k] \in Written BY <1>2
  <1>6. Range(t) = {t[k] : k \in DOMAIN t} BY DEF Range
  <1> QED BY <1>2, <1>3, <1>4, <1>5, <1>6

-----------------------------------------------------------------------------
(* The executor's records.                                                 *)
JobRecords ==
    [at : {"idle", "fetch", "insert", "discard", "prune", "mark", "clear", "fail",
           "sources", "record", "commit", "finish"},
     file : Files \cup {NoSource}, path : Paths \cup {0}, left : Seq(Files),
     last : BOOLEAN, prune : SUBSET Paths, ok : BOOLEAN]

LEMMA BegunIs ==
    ASSUME NEW left \in Seq(Files), NEW last \in BOOLEAN
    PROVE  /\ Begun(left, last) \in JobRecords
           /\ Begun(left, last).path = 0 /\ Begun(left, last).prune = {}
           /\ Begun(left, last).last = last
           /\ left = << >> => /\ Begun(left, last).at = IF last THEN "sources" ELSE "idle"
                              /\ Begun(left, last).left = << >>
           /\ left # << >> => /\ Begun(left, last).at = IF RowOf(left[1]) THEN "mark" ELSE "fetch"
                              /\ Begun(left, last).file = left[1] /\ left[1] \in Files
                              /\ Begun(left, last).left = Tail(left)
                              /\ Range(left) = {left[1]} \cup Range(Tail(left))
  <1>1. CASE left = << >>
    <2>1. << >> \in Seq(Files) OBVIOUS
    <2> QED BY <1>1, <2>1 DEF Begun, JobRecords, NoTask
  <1>2. CASE left # << >>
    <2>1. /\ left[1] \in Files /\ Tail(left) \in Seq(Files) /\ Len(left) \in Nat /\ Len(left) # 0
          /\ DOMAIN left = 1 .. Len(left)
      BY <1>2
    <2>2. Range(left) = {left[1]} \cup Range(Tail(left))
      <3>1. /\ DOMAIN Tail(left) = 1 .. Len(left) - 1
            /\ \A k \in 1 .. Len(left) - 1 : Tail(left)[k] = left[k + 1]
        BY <2>1
      <3> DEFINE t == Tail(left)
      <3> HIDE DEF t
      <3>2. ASSUME NEW k \in DOMAIN left PROVE left[k] = left[1] \/ \E l \in DOMAIN t : t[l] = left[k]
        <4>1. CASE k = 1 BY <4>1
        <4>2. CASE k # 1
          <5>1. k - 1 \in 1 .. Len(left) - 1 /\ (k - 1) + 1 = k BY <2>1, <4>2
          <5> QED BY <3>1, <5>1 DEF t
        <4> QED BY <4>1, <4>2
      <3>3. ASSUME NEW l \in DOMAIN t PROVE \E k \in DOMAIN left : t[l] = left[k]
        <4>1. l + 1 \in DOMAIN left /\ t[l] = left[l + 1] BY <2>1, <3>1 DEF t
        <4> QED BY <4>1
      <3>4. 1 \in DOMAIN left BY <2>1
      <3> QED BY <3>2, <3>3, <3>4 DEF Range, t
    <2>3. Begun(left, last) = [NoTask EXCEPT !.at = IF RowOf(left[1]) THEN "mark" ELSE "fetch",
                      !.file = left[1], !.left = Tail(left), !.last = last]
      BY <1>2 DEF Begun
    <2> QED BY <1>2, <2>1, <2>2, <2>3 DEF JobRecords, NoTask
  <1> QED BY <1>1, <1>2

(* A pass that begins, or goes on, fits.                                   *)
LEMMA BegunFits ==
    ASSUME NEW left \in Seq(Files), NEW last \in BOOLEAN, Range(left) \subseteq Written,
           status = "running", last => prompt # "running", job' = Begun(left, last),
           UNCHANGED <<prompt, source, rows, status>>
    PROVE  /\ JobFits' /\ job' \in JobRecords /\ job'.path = 0 /\ job'.prune = {} /\ job'.last = last
           /\ \A f \in Range(left) : RowOf(f) => f \in Range(job'.left) \/ (job'.file = f /\ job'.at \in Archiving)
  <1>1. Written' = Written /\ \A f : RowOf(f)' <=> RowOf(f) BY DEF Written, RowOf
  <1>2. CASE left = << >>
    <2>1. job'.at = (IF last THEN "sources" ELSE "idle") /\ job'.left = << >> /\ job'.path = 0
          /\ job'.prune = {} /\ job'.last = last /\ job' \in JobRecords
      BY <1>2, BegunIs
    <2>2. Range(<< >>) = {} BY DEF Range
    <2> QED BY <1>2, <2>1, <2>2 DEF JobFits, OnFile, AtEnd, Archiving
  <1>3. CASE left # << >>
    <2>1. /\ job'.at = (IF RowOf(left[1]) THEN "mark" ELSE "fetch") /\ job'.left = Tail(left)
          /\ job'.path = 0 /\ job'.prune = {} /\ job'.last = last /\ job' \in JobRecords
          /\ job'.file = left[1] /\ Range(left) = {left[1]} \cup Range(Tail(left))
      BY <1>3, BegunIs
    <2> QED BY <1>1, <1>3, <2>1 DEF JobFits, OnFile, AtEnd, Archiving
  <1> QED BY <1>2, <1>3

LEMMA ArchiveStarts == ArchiveInit => ArchiveInv
  <1> SUFFICES ASSUME ArchiveInit PROVE ArchiveInv
    OBVIOUS
  <1>1. /\ job = NoTask /\ upkeep = NoUpkeep /\ leaving = {} /\ archived = {}
        /\ failed = [f \in Files |-> "no"] /\ cleaned = FALSE /\ retried = FALSE
        /\ lost = {} /\ mishaps = 0
    BY DEF ArchiveInit
  <1>2. /\ source \in [Files -> {"none", "present", "gone"}] /\ \A f \in Files : source[f] # "gone"
        /\ status \in {"running"} \cup Results /\ process \in {"up", "down"}
        /\ prompt \in {"running", "success", "error"}
    BY DEF ArchiveInit, Results
  <1>3. /\ rows \in Seq(ArchiveRow) /\ disk \subseteq Paths /\ PathsOf(rows) = disk /\ OwnPaths(rows)
        /\ \A f \in Files : RowOf(f) => source[f] # "none"
        /\ best \in Files \cup {NoSource}
        /\ status \in Results /\ Pictures(rows) # {} => best \in {rows[i].file : i \in Pictures(rows)}
    <2>1. CASE rows = << >> /\ disk = {} /\ status = "running" /\ best = NoSource
      BY <2>1 DEF PathsOf, OwnPaths, RowOf, Results
    <2>2. CASE /\ source = [f \in Files |-> "present"]
               /\ rows = [i \in DOMAIN HistoryOrder |-> [file |-> HistoryOrder[i], path |-> i]]
               /\ disk = DOMAIN HistoryOrder /\ best = HistoryOrder[1]
      <3>1. /\ HistoryOrder \in Seq(Files) /\ HistoryOrder # << >> /\ HistoryOrder[1] \in Images
            /\ MaxPaths \in Nat /\ Len(HistoryOrder) <= MaxPaths
        BY ArchiveAssumption
      <3>2. /\ DOMAIN HistoryOrder = 1 .. Len(HistoryOrder) /\ Len(HistoryOrder) \in Nat
            /\ Len(HistoryOrder) # 0 /\ \A i \in DOMAIN HistoryOrder : HistoryOrder[i] \in Files
        BY <3>1
      <3>3. DOMAIN HistoryOrder \subseteq Paths BY <3>1, <3>2 DEF Paths
      <3>4. /\ DOMAIN rows = DOMAIN HistoryOrder
            /\ \A i \in DOMAIN rows : rows[i] \in ArchiveRow /\ rows[i].path = i
                                      /\ rows[i].file = HistoryOrder[i]
        BY <2>2, <3>2, <3>3 DEF ArchiveRow
      <3>5. rows \in Seq(ArchiveRow)
        <4>1. rows \in [1 .. Len(HistoryOrder) -> ArchiveRow] BY <2>2, <3>2, <3>4
        <4> QED BY <3>2, <4>1
      <3>6. PathsOf(rows) = disk BY <2>2, <3>4 DEF PathsOf
      <3>7. 1 \in Pictures(rows) /\ best = rows[1].file BY <2>2, <3>1, <3>2, <3>4 DEF Pictures
      <3>8. best \in Files BY <2>2, <3>2
      <3> QED BY <2>2, <3>3, <3>4, <3>5, <3>6, <3>7, <3>8 DEF OwnPaths
    <2> QED BY <2>1, <2>2 DEF ArchiveInit
  <1>4. ArchiveTypeOK
    <2>1. job \in JobRecords
      <3>1. << >> \in Seq(Files) OBVIOUS
      <3> QED BY <1>1, <3>1 DEF JobRecords, NoTask
    <2>2. 0 \in 0 .. MaxMishaps BY ArchiveAssumption
    <2> QED BY <1>1, <1>2, <1>3, <2>1, <2>2 DEF ArchiveTypeOK, JobRecords, ArchiveRow, NoUpkeep
  <1>5. JobFits BY <1>1 DEF JobFits, NoTask, OnFile, AtEnd, Archiving, Range
  <1>6. PathsFit BY <1>1, <1>3 DEF PathsFit, NoTask, NoUpkeep, OwnPaths
  <1>7. UpkeepFits BY <1>1 DEF UpkeepFits, NoTask, NoUpkeep
  <1>8. NothingStranded BY <1>3 DEF NothingStranded, Held
  <1>9. RowsHaveFiles BY <1>3 DEF RowsHaveFiles
  <1>10. SourcesFit BY <1>1, <1>2, <1>3 DEF SourcesFit, Written
  <1>11. FailuresFit BY <1>1 DEF FailuresFit, NoTask
  <1> QED BY <1>4, <1>5, <1>6, <1>7, <1>8, <1>9, <1>10, <1>11 DEF ArchiveInv

-----------------------------------------------------------------------------
(* Every step keeps the types.                                             *)
LEMMA JobStaysTyped ==
    ASSUME ArchiveInv, ArchiveNext
    PROVE  job' \in JobRecords
  <1>1. job \in JobRecords /\ upkeep.prune \subseteq Paths BY DEF ArchiveInv, ArchiveTypeOK, JobRecords
  <1>2. NoTask \in JobRecords
    <2>1. << >> \in Seq(Files) OBVIOUS
    <2> QED BY <2>1 DEF NoTask, JobRecords
  <1>3. CASE UNCHANGED job BY <1>1, <1>3
  <1>4. CASE job' = NoTask BY <1>2, <1>4
  <1>5. CASE NodeExecuted
    <2>1. PICK f \in Written : job' = Begun(<<f>>, FALSE) BY <1>5 DEF NodeExecuted
    <2>2. <<f>> \in Seq(Files) BY DEF Written
    <2> QED BY <2>1, <2>2, BegunIs
  <1>6. CASE Finalize
    <2>1. << >> \in Seq(Files) /\ HistoryFiles \in Seq(Files) BY HistoryIs
    <2> QED BY <1>6, <2>1, BegunIs DEF Finalize
  <1>7. CASE Clear \/ Fail
    <2>1. job.left \in Seq(Files) /\ job.last \in BOOLEAN BY <1>1 DEF JobRecords
    <2> QED BY <1>7, <2>1, BegunIs DEF Clear, Fail
  <1>8. CASE Fetch
    <2>1. Free # {} => FreePath \in Paths BY FreePathIs
    <2> QED BY <1>1, <1>8, <2>1 DEF Fetch, JobRecords
  <1>9. CASE Insert
    <2>1. rows \in Seq(ArchiveRow) BY DEF ArchiveInv, ArchiveTypeOK, ArchiveRow
    <2>2. \A i \in DOMAIN rows : rows[i] \in ArchiveRow BY <2>1
    <2>3. job.file \in Files BY <1>9 DEF Insert, Doing, ArchiveInv, JobFits, OnFile, Written
    <2>4. PathsAt(rows, Superseded(job.file)) \subseteq Paths
      BY <2>1, <2>2, <2>3, SupersededIs DEF PathsAt, ArchiveRow
    <2>5. \/ job' = [job EXCEPT !.at = "discard"]
          \/ \E old \in SUBSET Paths : job' = [job EXCEPT !.at = "prune", !.path = 0, !.prune = old]
      BY <1>9, <2>4 DEF Insert
    <2> QED BY <1>1, <2>5 DEF JobRecords
  <1>10. CASE Discard \/ Prune \/ Mark BY <1>1, <1>10 DEF Discard, Prune, Mark, JobRecords
  <1>11. CASE CleanSources BY <1>1, <1>11 DEF CleanSources, JobRecords
  <1>12. CASE RecordCleaning BY <1>1, <1>12 DEF RecordCleaning, JobRecords
  <1>13. CASE Commit
    <2>1. rows \in Seq(ArchiveRow) BY DEF ArchiveInv, ArchiveTypeOK, ArchiveRow
    <2>2. \A i \in DOMAIN rows : rows[i] \in ArchiveRow BY <2>1
    <2>3. \A b \in BOOLEAN : PrunedBy(b) \subseteq Paths BY <2>2 DEF PrunedBy, PathsOf, ArchiveRow
    <2>4. \/ job' = NoTask
          \/ \E old \in SUBSET Paths : job' = [NoTask EXCEPT !.at = "finish", !.prune = old]
      BY <1>13, <2>3 DEF Commit
    <2> QED BY <1>2, <2>4 DEF JobRecords
  <1>14. CASE DeletePruned \/ LosePruned \/ Exit \/ Kill BY <1>4, <1>14 DEF DeletePruned, LosePruned, Exit, Kill
  <1>15. CASE \/ Write \/ EndPrompt \/ Prepare \/ Compact \/ RemoveCompacted \/ CleanAgain \/ RecordAgain
              \/ Delete \/ RemoveDeleted \/ StopProcess \/ Start
    BY <1>3, <1>15 DEF Write, EndPrompt, Prepare, Compact, RemoveCompacted, CleanAgain, RecordAgain,
       Delete, RemoveDeleted, StopProcess, Start
  <1> QED BY <1>5, <1>6, <1>7, <1>8, <1>9, <1>10, <1>11, <1>12, <1>13, <1>14, <1>15 DEF ArchiveNext

(* What is committed, or compacted.                                        *)
LEMMA ResultIs ==
    ASSUME ArchiveInv, NEW success \in BOOLEAN
    PROVE  /\ Kept(success) \in Seq(ArchiveRow) /\ OwnPaths(Kept(success))
           /\ PathsOf(Kept(success)) \subseteq PathsOf(rows)
           /\ PathsOf(rows) = PathsOf(Kept(success)) \cup PrunedBy(success)
           /\ PathsOf(Kept(success)) \cap PrunedBy(success) = {}
           /\ rows = << >> => Kept(success) = << >>
           /\ \A f : (\E k \in DOMAIN Kept(success) : Kept(success)[k].file = f) => RowOf(f)
           /\ success => \A f \in Finals : RowOf(f) => \E k \in DOMAIN Kept(success) : Kept(success)[k].file = f
           /\ (\E f \in Finals : RowOf(f)) =>
                 \E f \in Finals : \E k \in DOMAIN Kept(success) : Kept(success)[k].file = f
  <1>1. rows \in Seq(ArchiveRow) /\ OwnPaths(rows)
    BY DEF ArchiveInv, ArchiveTypeOK, ArchiveRow, PathsFit, OwnPaths
  <1> DEFINE t == Kept(success)
  <1>2. /\ ArePart(t, rows)
        /\ success => \A i \in DOMAIN rows : rows[i].file \in Finals => \E k \in DOMAIN t : t[k] = rows[i]
        /\ (\E i \in DOMAIN rows : rows[i].file \in Finals) => \E k \in DOMAIN t : t[k].file \in Finals
    BY <1>1, KeptIs
  <1>3. PrunedBy(success) = PathsOf(rows) \ PathsOf(t) BY DEF PrunedBy
  <1> HIDE DEF t
  <1>4. /\ t \in Seq(ArchiveRow) /\ OwnPaths(t) /\ PathsOf(t) \subseteq PathsOf(rows)
        /\ \A k \in DOMAIN t : \E i \in DOMAIN rows : t[k] = rows[i]
    BY <1>1, <1>2, PartKeeps DEF ArePart
  <1>5. ASSUME rows = << >> PROVE t = << >>
    <2>0. DOMAIN << >> = {} OBVIOUS
    <2>1. DOMAIN t = {} BY <1>4, <1>5, <2>0
    <2>2. DOMAIN t = 1 .. Len(t) /\ Len(t) \in Nat BY <1>4
    <2>3. Len(t) = 0 BY <2>1, <2>2
    <2> QED BY <1>4, <2>3
  <1>6. \A f : (\E k \in DOMAIN t : t[k].file = f) => RowOf(f) BY <1>4 DEF RowOf
  <1>7. success => \A f \in Finals : RowOf(f) => \E k \in DOMAIN t : t[k].file = f BY <1>2 DEF RowOf
  <1>8. (\E f \in Finals : RowOf(f)) => \E f \in Finals : \E k \in DOMAIN t : t[k].file = f
    BY <1>2 DEF RowOf
  <1>9. PathsOf(rows) = PathsOf(t) \cup PrunedBy(success) /\ PathsOf(t) \cap PrunedBy(success) = {}
    BY <1>3, <1>4
  <1> QED BY <1>4, <1>5, <1>6, <1>7, <1>8, <1>9 DEF t

(* What the insertion of a file makes of the rows.                         *)
LEMMA InsertedIs ==
    ASSUME ArchiveInv, NEW f \in Files, NEW p \in Paths, NEW old,
           old \in {{}, PathsAt(rows, Superseded(f))}, p \notin PathsOf(rows), ~RowOf(f),
           rows' = Append(Without(rows, old), [file |-> f, path |-> p])
    PROVE  /\ rows' \in Seq(ArchiveRow) /\ OwnPaths(rows') /\ rows' # << >>
           /\ old \subseteq PathsOf(rows) /\ PathsOf(rows') = (PathsOf(rows) \ old) \cup {p}
           /\ \A g : RowOf(g)' => RowOf(g) \/ g = f
           /\ \A g \in Finals : RowOf(g) => RowOf(g)'
           /\ RowOf(f)'
  <1>1. rows \in Seq(ArchiveRow) /\ OwnPaths(rows)
    BY DEF ArchiveInv, ArchiveTypeOK, ArchiveRow, PathsFit, OwnPaths
  <1> DEFINE t == Without(rows, old)
             r == [file |-> f, path |-> p]
  <1>2. /\ ArePart(t, rows) /\ PathsOf(t) = PathsOf(rows) \ old
        /\ \A i \in DOMAIN rows : rows[i].path \notin old => \E k \in DOMAIN t : t[k] = rows[i]
    BY <1>1, WithoutIs
  <1>3. rows' = Append(t, r) /\ r \in ArchiveRow /\ r.file = f /\ r.path = p BY DEF ArchiveRow
  <1> HIDE DEF t, r
  <1>4. /\ t \in Seq(ArchiveRow) /\ OwnPaths(t)
        /\ \A k \in DOMAIN t : \E i \in DOMAIN rows : t[k] = rows[i]
    BY <1>1, <1>2, PartKeeps DEF ArePart
  <1>5. /\ DOMAIN t = 1 .. Len(t) /\ Len(t) \in Nat
        /\ rows' \in Seq(ArchiveRow) /\ DOMAIN rows' = 1 .. Len(t) + 1
        /\ rows'[Len(t) + 1] = r /\ \A k \in 1 .. Len(t) : rows'[k] = t[k]
    <2>1. r \in ArchiveRow BY <1>3
    <2>2. /\ Append(t, r) \in Seq(ArchiveRow) /\ Len(Append(t, r)) = Len(t) + 1
          /\ Append(t, r)[Len(t) + 1] = r /\ \A k \in 1 .. Len(t) : Append(t, r)[k] = t[k]
      BY <1>4, <2>1, AppendProperties
    <2>3. DOMAIN Append(t, r) = 1 .. Len(Append(t, r)) /\ DOMAIN t = 1 .. Len(t) /\ Len(t) \in Nat
      BY <1>4, <2>2
    <2> QED BY <1>3, <2>2, <2>3
  <1>6. DOMAIN rows' = DOMAIN t \cup {Len(t) + 1} BY <1>5
  <1>7. /\ \A k \in DOMAIN t : rows'[k] = t[k] /\ k \in DOMAIN rows'
        /\ \A k \in DOMAIN rows' : k \in DOMAIN t \/ rows'[k] = r
    BY <1>5, <1>6
  <1>8. PathsOf(rows') = (PathsOf(rows) \ old) \cup {p}
    <2>1. PathsOf(rows') = PathsOf(t) \cup {p} BY <1>3, <1>5, <1>6, <1>7 DEF PathsOf
    <2> QED BY <1>2, <2>1
  <1>9. OwnPaths(rows')
    <2>1. p \notin PathsOf(t) BY <1>2
    <2>2. \A k \in DOMAIN t : t[k].path # p BY <2>1 DEF PathsOf
    <2>3. SUFFICES ASSUME NEW k \in DOMAIN rows', NEW l \in DOMAIN rows', rows'[k].path = rows'[l].path
                   PROVE  k = l
      BY DEF OwnPaths
    <2>4. CASE k \in DOMAIN t /\ l \in DOMAIN t BY <1>4, <1>7, <2>3, <2>4 DEF OwnPaths
    <2>5. CASE k \in DOMAIN t /\ l = Len(t) + 1 BY <1>3, <1>5, <1>7, <2>2, <2>3, <2>5
    <2>6. CASE l \in DOMAIN t /\ k = Len(t) + 1 BY <1>3, <1>5, <1>7, <2>2, <2>3, <2>6
    <2>7. CASE k = Len(t) + 1 /\ l = Len(t) + 1 BY <2>7
    <2> QED BY <1>6, <2>4, <2>5, <2>6, <2>7
  <1>10. \A g : RowOf(g)' => RowOf(g) \/ g = f
    <2> SUFFICES ASSUME NEW g, NEW k \in DOMAIN rows', rows'[k].file = g PROVE RowOf(g) \/ g = f
      BY DEF RowOf
    <2>1. CASE k \in DOMAIN t
      <3>1. PICK i \in DOMAIN rows : t[k] = rows[i] BY <1>4, <2>1
      <3> QED BY <1>7, <2>1, <3>1 DEF RowOf
    <2>2. CASE rows'[k] = r BY <1>3, <2>2
    <2> QED BY <1>7, <2>1, <2>2
  <1>11. old \subseteq PathsOf(rows) BY <1>1, SupersededIs DEF PathsAt, PathsOf
  <1>12. ASSUME NEW g \in Finals, RowOf(g) PROVE RowOf(g)'
    <2>1. PICK i \in DOMAIN rows : rows[i].file = g BY <1>12 DEF RowOf
    <2>2. rows[i].path \notin old
      <3> SUFFICES ASSUME rows[i].path \in old PROVE FALSE
        OBVIOUS
      <3>1. PICK j \in Superseded(f) : rows[j].path = rows[i].path BY DEF PathsAt
      <3>2. j = i BY <1>1, <3>1, SupersededIs DEF OwnPaths
      <3>3. g = f BY <1>1, <2>1, <3>1, <3>2, SupersededIs
      <3> QED BY <1>12, <3>3
    <2>3. PICK k \in DOMAIN t : t[k] = rows[i] BY <1>2, <2>2
    <2> QED BY <1>7, <2>1, <2>3 DEF RowOf
  <1>13. RowOf(f)' /\ rows' # << >>
    <2>1. Len(t) + 1 \in DOMAIN rows' BY <1>6
    <2>2. DOMAIN rows' # {} /\ DOMAIN << >> = {} BY <2>1
    <2> QED BY <1>3, <1>5, <2>1, <2>2 DEF RowOf
  <1> QED BY <1>5, <1>8, <1>9, <1>10, <1>11, <1>12, <1>13

LEMMA RowsStayTyped ==
    ASSUME ArchiveInv, ArchiveNext
    PROVE  rows' \in Seq(ArchiveRow) /\ best' \in Files \cup {NoSource}
  <1>1. /\ rows \in Seq(ArchiveRow) /\ best \in Files \cup {NoSource} /\ job \in JobRecords
        /\ OwnPaths(rows) /\ << >> \in Seq(ArchiveRow)
    BY DEF ArchiveInv, ArchiveTypeOK, ArchiveRow, JobRecords, PathsFit, OwnPaths
  <1>2. CASE UNCHANGED <<rows, best>> BY <1>1, <1>2
  <1>3. CASE Insert
    <2>1. job.file \in Files /\ ~RowOf(job.file)
      BY <1>3 DEF Insert, Doing, ArchiveInv, JobFits, OnFile, Written
    <2>2. job.path \in Paths /\ job.path \notin PathsOf(rows)
      BY <1>1, <1>3 DEF Insert, Doing, ArchiveInv, JobFits, PathsFit, JobRecords
    <2>3. CASE UNCHANGED <<rows, best>> BY <1>2, <2>3
    <2>4. CASE ~Useless(job.file)
      <3>1. PICK old \in {{}, PathsAt(rows, Superseded(job.file))} :
               rows' = Append(Without(rows, old), [file |-> job.file, path |-> job.path])
        BY <1>3, <2>4 DEF Insert
      <3>2. rows' \in Seq(ArchiveRow) BY <2>1, <2>2, <3>1, InsertedIs
      <3>3. best' \in {best, job.file} BY <1>3, <2>4 DEF Insert
      <3> QED BY <1>1, <2>1, <3>2, <3>3
    <2> QED BY <1>3, <2>3, <2>4 DEF Insert
  <1>4. CASE Commit
    <2>1. \A b \in BOOLEAN : Kept(b) \in Seq(ArchiveRow) /\ Shown(Retained(rows, b)) \in Files \cup {NoSource}
      BY <1>1, ResultIs, ShownIs
    <2>2. FinalRows(rows) # << >> => First(FinalRows(rows)) \in Files BY <1>1, ShownIs
    <2>3. \/ UNCHANGED <<rows, best>>
          \/ \E b \in BOOLEAN :
                /\ rows' = Kept(b)
                /\ best' = IF b /\ FinalRows(rows) # << >> THEN First(FinalRows(rows))
                           ELSE Shown(Retained(rows, b))
      BY <1>4 DEF Commit
    <2> QED BY <1>2, <2>1, <2>2, <2>3
  <1>5. CASE Compact
    <2>1. \A b \in BOOLEAN : Kept(b) \in Seq(ArchiveRow) /\ Shown(Retained(rows, b)) \in Files \cup {NoSource}
      BY <1>1, ResultIs, ShownIs
    <2>2. \/ UNCHANGED <<rows, best>>
          \/ \E b \in BOOLEAN : rows' = Kept(b) /\ best' = Shown(Retained(rows, b))
      BY <1>5 DEF Compact
    <2> QED BY <1>2, <2>1, <2>2
  <1>6. CASE Delete BY <1>1, <1>6 DEF Delete
  <1>7. CASE \/ Write \/ EndPrompt \/ NodeExecuted \/ Finalize \/ Fetch \/ Discard \/ Prune \/ Mark \/ Clear \/ Fail
             \/ CleanSources \/ RecordCleaning \/ DeletePruned \/ LosePruned
             \/ Prepare \/ RemoveCompacted \/ CleanAgain \/ RecordAgain
             \/ RemoveDeleted \/ StopProcess \/ Exit \/ Kill \/ Start
    BY <1>2, <1>7 DEF Write, EndPrompt, NodeExecuted, Finalize, Fetch, Discard, Prune, Mark, Clear, Fail,
       CleanSources, RecordCleaning, DeletePruned, LosePruned, Prepare, RemoveCompacted, CleanAgain, RecordAgain,
       RemoveDeleted, StopProcess, Exit, Kill, Start
  <1> QED BY <1>3, <1>4, <1>5, <1>6, <1>7 DEF ArchiveNext

(* ComfyUI's files, and what is known of them.                             *)
LEMMA SourcesStayTyped ==
    ASSUME ArchiveInv, ArchiveNext
    PROVE  /\ source' \in [Files -> {"none", "present", "gone"}] /\ archived' \subseteq Files
           /\ failed' \in [Files -> {"no", "absent", "error"}]
           /\ {cleaned', retried'} \subseteq BOOLEAN
  <1>1. /\ source \in [Files -> {"none", "present", "gone"}] /\ archived \subseteq Files
        /\ failed \in [Files -> {"no", "absent", "error"}]
        /\ {cleaned, retried} \subseteq BOOLEAN
        /\ rows \in Seq(ArchiveRow) /\ job \in JobRecords /\ upkeep.ok \in BOOLEAN
    BY DEF ArchiveInv, ArchiveTypeOK, ArchiveRow, JobRecords
  <1>2. \A i \in DOMAIN rows : rows[i].file \in Files
    <2>1. \A i \in DOMAIN rows : rows[i] \in ArchiveRow BY <1>1
    <2> QED BY <2>1 DEF ArchiveRow
  <1>3. Removed \in [Files -> {"none", "present", "gone"}] BY <1>1 DEF Removed
  <1>4. job.ok \in BOOLEAN BY <1>1 DEF JobRecords
  <1>5. source' \in [Files -> {"none", "present", "gone"}]
    <2>1. CASE UNCHANGED source BY <1>1, <2>1
    <2>2. CASE Write \/ EndPrompt \/ Commit BY <1>1, <2>2 DEF Write, EndPrompt, Commit
    <2>3. CASE CleanSources \/ CleanAgain
      BY <1>1, <1>3, <2>3 DEF CleanSources, CleanAgain, RemovesSources
    <2>4. CASE \/ NodeExecuted \/ Finalize \/ Fetch \/ Insert \/ Discard \/ Prune \/ Mark \/ Clear \/ Fail
               \/ RecordCleaning \/ DeletePruned \/ LosePruned \/ Prepare \/ Compact \/ RemoveCompacted \/ RecordAgain
               \/ Delete \/ RemoveDeleted \/ StopProcess \/ Exit \/ Kill \/ Start
      BY <2>1, <2>4 DEF NodeExecuted, Finalize, Fetch, Insert, Discard, Prune, Mark, Clear, Fail,
         RecordCleaning, DeletePruned, LosePruned, Prepare, Compact, RemoveCompacted, RecordAgain,
         Delete, RemoveDeleted, StopProcess, Exit, Kill, Start
    <2> QED BY <2>2, <2>3, <2>4 DEF ArchiveNext
  <1>6. archived' \subseteq Files
    <2>1. CASE UNCHANGED archived BY <1>1, <2>1
    <2>2. CASE Mark BY <1>1, <2>2 DEF Mark, Doing, ArchiveInv, JobFits, OnFile, Written
    <2>3. CASE Commit BY <1>1, <2>3 DEF Commit
    <2>4. CASE Prepare BY <1>1, <1>2, <2>4 DEF Prepare
    <2>5. CASE \/ Write \/ EndPrompt \/ NodeExecuted \/ Finalize \/ Fetch \/ Insert \/ Discard \/ Prune
               \/ Clear \/ Fail \/ CleanSources \/ RecordCleaning \/ DeletePruned \/ LosePruned
               \/ Compact \/ RemoveCompacted \/ CleanAgain \/ RecordAgain
               \/ Delete \/ RemoveDeleted \/ StopProcess \/ Exit \/ Kill \/ Start
      BY <2>1, <2>5 DEF Write, EndPrompt, NodeExecuted, Finalize, Fetch, Insert, Discard, Prune, Clear, Fail,
         CleanSources, RecordCleaning, DeletePruned, LosePruned, Compact, RemoveCompacted, CleanAgain, RecordAgain,
         Delete, RemoveDeleted, StopProcess, Exit, Kill, Start
    <2> QED BY <2>2, <2>3, <2>4, <2>5 DEF ArchiveNext
  <1>7. failed' \in [Files -> {"no", "absent", "error"}]
    <2>1. CASE UNCHANGED failed BY <1>1, <2>1
    <2>2. CASE Clear \/ Fail \/ Commit BY <1>1, <2>2 DEF Clear, Fail, Commit
    <2>3. CASE \/ Write \/ EndPrompt \/ NodeExecuted \/ Finalize \/ Fetch \/ Insert \/ Discard \/ Prune \/ Mark
               \/ CleanSources \/ RecordCleaning \/ DeletePruned \/ LosePruned
               \/ Prepare \/ Compact \/ RemoveCompacted \/ CleanAgain \/ RecordAgain
               \/ Delete \/ RemoveDeleted \/ StopProcess \/ Exit \/ Kill \/ Start
      BY <2>1, <2>3 DEF Write, EndPrompt, NodeExecuted, Finalize, Fetch, Insert, Discard, Prune, Mark,
         CleanSources, RecordCleaning, DeletePruned, LosePruned, Prepare, Compact, RemoveCompacted, CleanAgain, RecordAgain,
         Delete, RemoveDeleted, StopProcess, Exit, Kill, Start
    <2> QED BY <2>2, <2>3 DEF ArchiveNext
  <1>8. {cleaned', retried'} \subseteq BOOLEAN
    <2>1. CASE UNCHANGED <<cleaned, retried>> BY <1>1, <2>1
    <2>2. CASE Mark
      <3>1. cleaned' \in BOOLEAN /\ UNCHANGED retried BY <2>2 DEF Mark
      <3> QED BY <1>1, <3>1
    <2>3. CASE RecordCleaning BY <1>1, <1>4, <2>3 DEF RecordCleaning
    <2>4. CASE Commit BY <1>1, <2>4 DEF Commit
    <2>5. CASE RecordAgain BY <1>1, <2>5 DEF RecordAgain
    <2>6. CASE Kill BY <1>1, <2>6 DEF Kill
    <2>7. CASE \/ Write \/ EndPrompt \/ NodeExecuted \/ Finalize \/ Fetch \/ Insert \/ Discard \/ Prune
               \/ Clear \/ Fail \/ CleanSources \/ DeletePruned \/ LosePruned
               \/ Prepare \/ Compact \/ RemoveCompacted \/ CleanAgain
               \/ Delete \/ RemoveDeleted \/ StopProcess \/ Exit \/ Start
      BY <2>1, <2>7 DEF Write, EndPrompt, NodeExecuted, Finalize, Fetch, Insert, Discard, Prune, Clear, Fail,
         CleanSources, DeletePruned, LosePruned, Prepare, Compact, RemoveCompacted, CleanAgain,
         Delete, RemoveDeleted, StopProcess, Exit, Start
    <2> QED BY <2>2, <2>3, <2>4, <2>5, <2>6, <2>7 DEF ArchiveNext
  <1> QED BY <1>5, <1>6, <1>7, <1>8

LEMMA ArchiveTypesKept ==
    ASSUME ArchiveInv, ArchiveNext
    PROVE  ArchiveTypeOK'
  <1>1. /\ prompt \in {"running", "success", "error", "lost"}
        /\ {disk, leaving, lost} \subseteq SUBSET Paths /\ job.prune \subseteq Paths
        /\ status \in {"running", "deleted"} \cup Results
        /\ upkeep \in [at : {"off", "prepare", "compact", "prune", "sources", "record"},
                       prune : SUBSET Paths, ok : BOOLEAN]
        /\ process \in {"up", "stopping", "down"} /\ mishaps \in 0 .. MaxMishaps
        /\ rows \in Seq(ArchiveRow) /\ {cleaned} \subseteq BOOLEAN
    BY DEF ArchiveInv, ArchiveTypeOK, ArchiveRow
  <1>2. PathsOf(rows) \subseteq Paths
    <2>1. \A i \in DOMAIN rows : rows[i] \in ArchiveRow BY <1>1
    <2> QED BY <2>1 DEF ArchiveRow, PathsOf
  <1>3. prompt' \in {"running", "success", "error", "lost"} /\ status' \in {"running", "deleted"} \cup Results
    <2>1. CASE UNCHANGED <<prompt, status>> BY <1>1, <2>1
    <2>2. CASE EndPrompt BY <1>1, <2>2 DEF EndPrompt
    <2>3. CASE Commit BY <1>1, <2>3 DEF Commit, Results
    <2>4. CASE Delete BY <1>1, <2>4 DEF Delete
    <2>5. CASE \/ Write \/ NodeExecuted \/ Finalize \/ Fetch \/ Insert \/ Discard \/ Prune \/ Mark
               \/ Clear \/ Fail \/ CleanSources \/ RecordCleaning \/ DeletePruned \/ LosePruned
               \/ Prepare \/ Compact \/ RemoveCompacted \/ CleanAgain \/ RecordAgain
               \/ RemoveDeleted \/ StopProcess \/ Exit \/ Kill \/ Start
      BY <2>1, <2>5 DEF Write, NodeExecuted, Finalize, Fetch, Insert, Discard, Prune, Mark, Clear, Fail,
         CleanSources, RecordCleaning, DeletePruned, LosePruned, Prepare, Compact, RemoveCompacted, CleanAgain, RecordAgain,
         RemoveDeleted, StopProcess, Exit, Kill, Start
    <2> QED BY <2>2, <2>3, <2>4, <2>5 DEF ArchiveNext
  <1>4. {disk', leaving', lost'} \subseteq SUBSET Paths
    <2>1. CASE UNCHANGED <<disk, leaving, lost>> BY <1>1, <2>1
    <2>2. CASE Fetch BY <1>1, <2>2, FreePathIs DEF Fetch
    <2>3. CASE Discard \/ Prune \/ DeletePruned \/ RemoveCompacted \/ RemoveDeleted
      BY <1>1, <2>3 DEF Discard, Prune, DeletePruned, RemoveCompacted, RemoveDeleted
    <2>4. CASE Delete \/ Kill \/ LosePruned BY <1>1, <1>2, <2>4 DEF Delete, Kill, LosePruned
    <2>5. CASE \/ Write \/ EndPrompt \/ NodeExecuted \/ Finalize \/ Insert \/ Mark \/ Clear \/ Fail
               \/ CleanSources \/ RecordCleaning \/ Commit \/ Prepare \/ Compact \/ CleanAgain
               \/ RecordAgain \/ StopProcess \/ Exit \/ Start
      BY <2>1, <2>5 DEF Write, EndPrompt, NodeExecuted, Finalize, Insert, Mark, Clear, Fail,
         CleanSources, RecordCleaning, Commit, Prepare, Compact, CleanAgain, RecordAgain,
         StopProcess, Exit, Start
    <2> QED BY <2>2, <2>3, <2>4, <2>5 DEF ArchiveNext
  <1>5. upkeep' \in [at : {"off", "prepare", "compact", "prune", "sources", "record"},
                     prune : SUBSET Paths, ok : BOOLEAN]
    <2>1. CASE UNCHANGED upkeep BY <1>1, <2>1
    <2>2. CASE Prepare BY <1>1, <2>2 DEF Prepare
    <2>3. CASE Compact
      <3>1. \A b \in BOOLEAN : PrunedBy(b) \subseteq Paths BY <1>2 DEF PrunedBy
      <3>2. \/ upkeep' = [upkeep EXCEPT !.at = "prune"]
            \/ \E old \in SUBSET Paths : upkeep' = [upkeep EXCEPT !.at = "prune", !.prune = old]
        BY <2>3, <3>1 DEF Compact
      <3> QED BY <1>1, <3>2
    <2>4. CASE RemoveCompacted \/ RecordAgain \/ Exit \/ Kill \/ Start
      <3>1. \/ upkeep' = [NoUpkeep EXCEPT !.at = "sources"] \/ upkeep' = NoUpkeep
            \/ upkeep' = [NoUpkeep EXCEPT !.at = "prepare"]
        BY <2>4 DEF RemoveCompacted, RecordAgain, Exit, Kill, Start
      <3>2. \E a \in {"sources", "off", "prepare"} : upkeep' = [at |-> a, prune |-> {}, ok |-> TRUE]
        BY <3>1 DEF NoUpkeep
      <3> QED BY <3>2
    <2>5. CASE CleanAgain
      <3>1. \/ upkeep' = NoUpkeep
            \/ \E ok \in BOOLEAN : upkeep' = [upkeep EXCEPT !.at = "record", !.ok = ok]
        BY <2>5 DEF CleanAgain
      <3>2. CASE upkeep' = NoUpkeep BY <3>2 DEF NoUpkeep
      <3>3. ASSUME NEW ok \in BOOLEAN, upkeep' = [upkeep EXCEPT !.at = "record", !.ok = ok]
            PROVE  upkeep' \in [at : {"off", "prepare", "compact", "prune", "sources", "record"},
                                prune : SUBSET Paths, ok : BOOLEAN]
        BY <1>1, <3>3
      <3> QED BY <3>1, <3>2, <3>3
    <2>6. CASE \/ Write \/ EndPrompt \/ NodeExecuted \/ Finalize \/ Fetch \/ Insert \/ Discard \/ Prune \/ Mark
               \/ Clear \/ Fail \/ CleanSources \/ RecordCleaning \/ Commit \/ DeletePruned \/ LosePruned
               \/ Delete \/ RemoveDeleted \/ StopProcess
      BY <2>1, <2>6 DEF Write, EndPrompt, NodeExecuted, Finalize, Fetch, Insert, Discard, Prune, Mark,
         Clear, Fail, CleanSources, RecordCleaning, Commit, DeletePruned, LosePruned, Delete, RemoveDeleted, StopProcess
    <2> QED BY <2>2, <2>3, <2>4, <2>5, <2>6 DEF ArchiveNext
  <1>6. process' \in {"up", "stopping", "down"} /\ mishaps' \in 0 .. MaxMishaps
    <2>1. MaxMishaps \in Nat BY ArchiveAssumption
    <2>2. NoMishap => mishaps' \in 0 .. MaxMishaps BY <1>1 DEF NoMishap
    <2>3. Mishap => mishaps' \in 0 .. MaxMishaps BY <1>1, <2>1 DEF Mishap
    <2>4. CASE UNCHANGED <<process, mishaps>> BY <1>1, <2>4
    <2>5. CASE EndPrompt \/ Fetch \/ CleanSources \/ LosePruned \/ CleanAgain
      BY <1>1, <2>2, <2>3, <2>5 DEF EndPrompt, Fetch, CleanSources, LosePruned, CleanAgain, RemovesSources
    <2>6. CASE StopProcess \/ Exit \/ Kill \/ Start
      BY <1>1, <2>3, <2>6 DEF StopProcess, Exit, Kill, Start
    <2>7. CASE \/ Write \/ NodeExecuted \/ Finalize \/ Insert \/ Discard \/ Prune \/ Mark
               \/ Clear \/ Fail \/ RecordCleaning \/ Commit \/ DeletePruned
               \/ Prepare \/ Compact \/ RemoveCompacted \/ RecordAgain \/ Delete \/ RemoveDeleted
      BY <2>4, <2>7 DEF Write, NodeExecuted, Finalize, Insert, Discard, Prune, Mark, Clear, Fail,
         RecordCleaning, Commit, DeletePruned, Prepare, Compact, RemoveCompacted, RecordAgain,
         Delete, RemoveDeleted
    <2> QED BY <2>5, <2>6, <2>7 DEF ArchiveNext
  <1> QED BY <1>3, <1>4, <1>5, <1>6, JobStaysTyped, RowsStayTyped, SourcesStayTyped
       DEF ArchiveTypeOK, JobRecords, ArchiveRow, Results

-----------------------------------------------------------------------------
(* Every step leaves the executor with a record that fits.                 *)
LEMMA SourcesOnlyGrow ==
    ASSUME ArchiveInv, Write \/ CleanSources \/ CleanAgain
    PROVE  /\ Written \subseteq Written' /\ UNCHANGED <<rows, prompt, status>>
           /\ \A f \in Files : source'[f] = "gone" => source[f] = "gone" \/ f \in archived
           /\ (\A f \in Files : source[f] = "gone") => Write \/ \A f \in Files : source'[f] = "gone"
           /\ Write => \A f \in Files : source[f] = "present" => source'[f] = "present"
  <1>1. source \in [Files -> {"none", "present", "gone"}] BY DEF ArchiveInv, ArchiveTypeOK
  <1>2. CASE Write BY <1>1, <1>2 DEF Write, Written
  <1>3. CASE CleanSources \/ CleanAgain
    <2>1. source' = source \/ source' = Removed BY <1>3 DEF CleanSources, CleanAgain, RemovesSources
    <2>2. ~Write \/ Write OBVIOUS
    <2>3. UNCHANGED <<rows, prompt, status>> BY <1>3 DEF CleanSources, CleanAgain
    <2>4. /\ Written \subseteq Written'
          /\ \A f \in Files : source'[f] = "gone" => source[f] = "gone" \/ f \in archived
          /\ (\A f \in Files : source[f] = "gone") => \A f \in Files : source'[f] = "gone"
      BY <1>1, <2>1 DEF Removed, Written
    <2> QED BY <1>1, <1>2, <2>3, <2>4
  <1> QED BY <1>2, <1>3

LEMMA JobFitsKept ==
    ASSUME ArchiveInv, ArchiveNext
    PROVE  JobFits'
  <1>1. JobFits /\ UpkeepFits /\ job \in JobRecords /\ SourcesFit
    BY DEF ArchiveInv, ArchiveTypeOK, JobRecords
  <1>2. job.left \in Seq(Files) /\ job.last \in BOOLEAN BY <1>1 DEF JobRecords
  <1>3. CASE UNCHANGED <<job, status, prompt, source, rows>>
    BY <1>1, <1>3 DEF JobFits, Written, RowOf
  <1>4. CASE job' = NoTask BY <1>4 DEF JobFits, NoTask, OnFile, AtEnd, Archiving, Range
  <1>5. CASE Write
    <2>1. /\ UNCHANGED <<job, rows, prompt, status>> /\ Written \subseteq Written'
          /\ \A f \in Files : source[f] = "present" => source'[f] = "present"
      BY <1>5, SourcesOnlyGrow DEF Write
    <2>2. job.at \in OnFile => job.file \in Files BY <1>1 DEF JobFits, Written
    <2> QED BY <1>1, <2>1, <2>2 DEF JobFits, RowOf, OnFile
  <1>6. CASE EndPrompt
    <2>1. UNCHANGED <<job, rows, status>> /\ prompt = "running" /\ prompt' # "running"
      BY <1>6 DEF EndPrompt
    <2>2. UNCHANGED source \/ Written = {} BY <1>6 DEF EndPrompt
    <2>3. CASE UNCHANGED source BY <1>1, <2>1, <2>3 DEF JobFits, Written, RowOf
    <2>4. CASE Written = {}
      <3>1. job.at \notin OnFile /\ job.left = << >> BY <1>1, <2>4 DEF JobFits
      <3>2. Range(<< >>) = {} BY DEF Range
      <3> QED BY <1>1, <2>1, <3>1, <3>2 DEF JobFits, OnFile, AtEnd, Archiving
    <2> QED BY <2>2, <2>3, <2>4
  <1>7. CASE NodeExecuted
    <2>1. PICK f \in Written : job' = Begun(<<f>>, FALSE) BY <1>7 DEF NodeExecuted
    <2>2. <<f>> \in Seq(Files) /\ Range(<<f>>) \subseteq Written BY DEF Written, Range
    <2>3. status = "running" /\ UNCHANGED <<prompt, source, rows, status>> BY <1>7 DEF NodeExecuted, Active
    <2> QED BY <2>1, <2>2, <2>3, BegunFits
  <1>8. CASE Finalize
    <2>1. PICK left : left \in {<< >>, HistoryFiles} /\ job' = Begun(left, TRUE) BY <1>8 DEF Finalize
    <2>2. left \in Seq(Files) /\ Range(left) \subseteq Written
      <3>1. << >> \in Seq(Files) /\ Range(<< >>) = {} BY DEF Range
      <3> QED BY <2>1, <3>1, HistoryIs
    <2>3. /\ status = "running" /\ prompt # "running" /\ UNCHANGED <<prompt, source, rows, status>>
      BY <1>8 DEF Finalize, Active
    <2> QED BY <2>1, <2>2, <2>3, BegunFits
  <1>9. CASE Clear \/ Fail
    <2>1. /\ status = "running" /\ Range(job.left) \subseteq Written /\ (job.last => prompt # "running")
      BY <1>1, <1>9 DEF Clear, Fail, Doing, JobFits, OnFile
    <2>2. job' = Begun(job.left, job.last) /\ UNCHANGED <<prompt, source, rows, status>>
      BY <1>9 DEF Clear, Fail
    <2> QED BY <1>2, <2>1, <2>2, BegunFits
  <1>10. CASE Fetch
    <2>1. /\ job.at = "fetch" /\ UNCHANGED <<status, prompt, source, rows>>
          /\ \/ Free # {} /\ source[job.file] = "present" /\ job' = [job EXCEPT !.at = "insert", !.path = FreePath]
             \/ job' = [job EXCEPT !.at = "fail"]
             \/ job' = [job EXCEPT !.at = "fail", !.ok = FALSE]
      BY <1>10 DEF Fetch, Doing
    <2>2. /\ job'.file = job.file /\ job'.left = job.left /\ job'.last = job.last /\ job'.prune = job.prune
          /\ \/ job'.at = "insert" /\ source[job.file] = "present" /\ job'.path \in Paths
             \/ job'.at = "fail" /\ job'.path = job.path
      BY <1>1, <2>1, FreePathIs DEF JobRecords
    <2>3. 0 \notin Paths BY DEF Paths
    <2> QED BY <1>1, <2>1, <2>2, <2>3 DEF JobFits, Written, RowOf, OnFile, AtEnd, Archiving
  <1>11. CASE Insert
    <2>1. /\ job.at = "insert" /\ UNCHANGED <<status, prompt, source>> /\ job.file \in Files
          /\ ~RowOf(job.file) /\ job.path \in Paths /\ job.path \notin PathsOf(rows)
          /\ rows \in Seq(ArchiveRow)
      BY <1>1, <1>11 DEF Insert, Doing, JobFits, OnFile, Written, ArchiveInv, PathsFit, JobRecords,
         ArchiveTypeOK, ArchiveRow
    <2>2. CASE Useless(job.file)
      <3>1. job' = [job EXCEPT !.at = "discard"] /\ rows' = rows BY <1>11, <2>2 DEF Insert
      <3>2. /\ job'.file = job.file /\ job'.left = job.left /\ job'.last = job.last /\ job'.prune = job.prune
            /\ job'.at = "discard" /\ job'.path = job.path
        BY <1>1, <3>1 DEF JobRecords
      <3>3. job.file \in Finals => RowOf(job.file) BY <2>1, <2>2, UselessIs
      <3> QED BY <1>1, <2>1, <3>1, <3>2, <3>3 DEF JobFits, Written, RowOf, OnFile, AtEnd, Archiving
    <2>3. CASE ~Useless(job.file)
      <3>1. PICK old \in {{}, PathsAt(rows, Superseded(job.file))} :
               /\ rows' = Append(Without(rows, old), [file |-> job.file, path |-> job.path])
               /\ job' = [job EXCEPT !.at = "prune", !.path = 0, !.prune = old]
        BY <1>11, <2>3 DEF Insert
      <3>2. /\ job'.file = job.file /\ job'.left = job.left /\ job'.last = job.last
            /\ job'.at = "prune" /\ job'.path = 0
        BY <1>1, <3>1 DEF JobRecords
      <3>3. RowOf(job.file)' BY <2>1, <3>1, InsertedIs
      <3>4. \E i \in DOMAIN rows' : rows'[i].file = job'.file BY <3>2, <3>3 DEF RowOf
      <3>5. Written' = Written BY <2>1 DEF Written
      <3> QED BY <1>1, <2>1, <3>2, <3>4, <3>5 DEF JobFits, RowOf, OnFile, AtEnd, Archiving
    <2> QED BY <2>2, <2>3
  <1>12. CASE Discard \/ Prune \/ Mark
    <2>1. /\ UNCHANGED <<status, prompt, source, rows>> /\ job.at \in {"discard", "prune", "mark"}
          /\ \/ job' = [job EXCEPT !.at = "mark", !.path = 0] /\ job.at = "discard"
             \/ job' = [job EXCEPT !.at = "mark", !.prune = {}] /\ job.at = "prune"
             \/ job' = [job EXCEPT !.at = "clear"] /\ job.at = "mark"
      BY <1>12 DEF Discard, Prune, Mark, Doing
    <2>2. /\ job'.file = job.file /\ job'.left = job.left /\ job'.last = job.last
          /\ job'.at \in {"mark", "clear"} /\ job'.path = 0 /\ job'.prune = {}
      BY <1>1, <2>1 DEF JobRecords, JobFits
    <2> QED BY <1>1, <2>1, <2>2 DEF JobFits, Written, RowOf, OnFile, AtEnd, Archiving
  <1>13. CASE CleanSources
    <2>1. /\ UNCHANGED <<rows, prompt, status>> /\ Written \subseteq Written' BY <1>13, SourcesOnlyGrow
    <2>2. job.at = "sources" /\ \E ok \in BOOLEAN : job' = [job EXCEPT !.at = "record", !.ok = ok]
      BY <1>13 DEF CleanSources, Doing
    <2>3. /\ job'.file = job.file /\ job'.left = job.left /\ job'.last = job.last
          /\ job'.at = "record" /\ job'.path = job.path /\ job'.prune = job.prune
      BY <1>1, <2>2 DEF JobRecords
    <2> QED BY <1>1, <2>1, <2>2, <2>3 DEF JobFits, RowOf, OnFile, AtEnd, Archiving
  <1>14. CASE RecordCleaning
    <2>1. /\ UNCHANGED <<status, prompt, source, rows>> /\ job.at = "record"
          /\ job' = [job EXCEPT !.at = "commit", !.ok = TRUE]
      BY <1>14 DEF RecordCleaning, Doing
    <2>2. /\ job'.file = job.file /\ job'.left = job.left /\ job'.last = job.last
          /\ job'.at = "commit" /\ job'.path = job.path /\ job'.prune = job.prune
      BY <1>1, <2>1 DEF JobRecords
    <2> QED BY <1>1, <2>1, <2>2 DEF JobFits, Written, RowOf, OnFile, AtEnd, Archiving
  <1>15. CASE Commit
    <2>1. \/ job' = NoTask
          \/ \E b \in BOOLEAN : job' = [NoTask EXCEPT !.at = "finish", !.prune = PrunedBy(b)]
      BY <1>15 DEF Commit
    <2>2. ASSUME NEW b \in BOOLEAN, job' = [NoTask EXCEPT !.at = "finish", !.prune = PrunedBy(b)]
          PROVE  JobFits'
      <3>1. job'.at = "finish" /\ job'.path = 0 /\ job'.left = << >> /\ job'.last = FALSE BY <2>2 DEF NoTask
      <3>2. Range(<< >>) = {} BY DEF Range
      <3> QED BY <3>1, <3>2 DEF JobFits, OnFile, AtEnd, Archiving
    <2> QED BY <1>4, <2>1, <2>2
  <1>16. CASE Compact \/ CleanAgain \/ Delete
    <2>1. status # "running" BY <1>1, <1>16 DEF Compact, CleanAgain, Delete, Keeps, UpkeepFits, Results
    <2>2. job.at \notin OnFile \cup AtEnd BY <1>1, <2>1 DEF JobFits
    <2>3. UNCHANGED <<job, prompt>> /\ Written \subseteq Written'
      BY <1>16, SourcesOnlyGrow DEF Compact, CleanAgain, Delete, Written
    <2> QED BY <1>1, <2>2, <2>3 DEF JobFits, OnFile, AtEnd, Archiving
  <1>17. CASE DeletePruned \/ LosePruned \/ Exit \/ Kill BY <1>4, <1>17 DEF DeletePruned, LosePruned, Exit, Kill
  <1>18. CASE Prepare \/ RemoveCompacted \/ RecordAgain \/ RemoveDeleted \/ StopProcess \/ Start
    BY <1>3, <1>18 DEF Prepare, RemoveCompacted, RecordAgain, RemoveDeleted, StopProcess, Start
  <1> QED BY <1>5, <1>6, <1>7, <1>8, <1>9, <1>10, <1>11, <1>12, <1>13, <1>14, <1>15, <1>16, <1>17, <1>18
       DEF ArchiveNext

LEMMA UpkeepFitsKept ==
    ASSUME ArchiveInv, ArchiveNext
    PROVE  UpkeepFits'
  <1>1. /\ UpkeepFits /\ process \in {"up", "stopping", "down"} /\ JobFits
        /\ upkeep \in [at : {"off", "prepare", "compact", "prune", "sources", "record"},
                       prune : SUBSET Paths, ok : BOOLEAN]
        /\ status \in {"running", "deleted"} \cup Results
    BY DEF ArchiveInv, ArchiveTypeOK
  <1>2. CASE UNCHANGED <<upkeep, status>> /\ process' # "down" BY <1>1, <1>2 DEF UpkeepFits
  <1>3. CASE \/ NodeExecuted \/ Finalize \/ Fetch \/ Insert \/ Discard \/ Prune \/ Mark \/ Clear \/ Fail
             \/ CleanSources \/ RecordCleaning \/ DeletePruned \/ LosePruned \/ StopProcess \/ RemoveDeleted
    BY <1>2, <1>3 DEF NodeExecuted, Finalize, Fetch, Insert, Discard, Prune, Mark, Clear, Fail,
       CleanSources, RecordCleaning, DeletePruned, LosePruned, StopProcess, RemoveDeleted, Doing
  <1>4. CASE Write \/ EndPrompt
    BY <1>1, <1>4 DEF Write, EndPrompt, UpkeepFits
  <1>5. CASE Commit
    <2>1. status = "running" /\ UNCHANGED upkeep /\ process' # "down"
      BY <1>1, <1>5 DEF Commit, Doing, JobFits, AtEnd
    <2> QED BY <1>1, <2>1 DEF UpkeepFits, Results
  <1>6. CASE Delete BY <1>1, <1>6 DEF Delete, UpkeepFits
  <1>7. CASE Prepare \/ Compact \/ CleanAgain
    <2>1. /\ process' # "down" /\ UNCHANGED status /\ upkeep.at # "off"
          /\ \/ /\ upkeep' = [upkeep EXCEPT !.at = "compact", !.ok = ~cleaned]
                /\ upkeep.at = "prepare"
             \/ upkeep' = [upkeep EXCEPT !.at = "prune"]
             \/ \E p : upkeep' = [upkeep EXCEPT !.at = "prune", !.prune = p]
             \/ upkeep' = NoUpkeep
             \/ \E ok : upkeep' = [upkeep EXCEPT !.at = "record", !.ok = ok] /\ upkeep.at = "sources"
      BY <1>7 DEF Prepare, Compact, CleanAgain, Keeps
    <2>2. upkeep'.prune = {} \/ upkeep'.at = "prune"
      <3>1. upkeep.prune = {} \/ upkeep.at = "prune" BY <1>1 DEF UpkeepFits
      <3>2. CASE upkeep' = NoUpkeep BY <3>2 DEF NoUpkeep
      <3>3. ASSUME NEW p, upkeep' = [upkeep EXCEPT !.at = "prune", !.prune = p]
            PROVE  upkeep'.at = "prune"
        BY <1>1, <3>3
      <3>4. CASE upkeep' = [upkeep EXCEPT !.at = "prune"] BY <1>1, <3>4
      <3>5. ASSUME NEW a, NEW ok, upkeep' = [upkeep EXCEPT !.at = a, !.ok = ok], upkeep.at # "prune"
            PROVE  upkeep'.prune = {}
        BY <1>1, <3>1, <3>5
      <3>6. \/ upkeep' = NoUpkeep \/ upkeep' = [upkeep EXCEPT !.at = "prune"]
            \/ \E p : upkeep' = [upkeep EXCEPT !.at = "prune", !.prune = p]
            \/ /\ upkeep.at # "prune"
               /\ \E a, ok : upkeep' = [upkeep EXCEPT !.at = a, !.ok = ok]
        BY <2>1, Zenon
      <3> QED BY <3>2, <3>3, <3>4, <3>5, <3>6
    <2> QED BY <1>1, <2>1, <2>2 DEF UpkeepFits
  <1>8. CASE RemoveCompacted \/ RecordAgain
    <2>1. /\ process' # "down" /\ UNCHANGED status /\ upkeep.at # "off" /\ upkeep'.prune = {}
      BY <1>8 DEF RemoveCompacted, RecordAgain, Keeps, NoUpkeep
    <2> QED BY <1>1, <2>1 DEF UpkeepFits
  <1>9. CASE Exit \/ Kill
    <2>1. job' = NoTask /\ upkeep' = NoUpkeep /\ leaving' = {} BY <1>9 DEF Exit, Kill
    <2> QED BY <2>1 DEF UpkeepFits, NoUpkeep
  <1>10. CASE Start
    <2>1. process' = "up" /\ UNCHANGED status /\ upkeep'.prune = {} /\ (upkeep'.at # "off" => status \in Results)
      BY <1>10 DEF Start, NoUpkeep
    <2> QED BY <2>1 DEF UpkeepFits
  <1> QED BY <1>3, <1>4, <1>5, <1>6, <1>7, <1>8, <1>9, <1>10 DEF ArchiveNext

-----------------------------------------------------------------------------
(* Who holds which path: the rows, the executor, the maintenance, or the   *)
(* deletion of the result.                                                 *)
LEMMA PathsFitKept ==
    ASSUME ArchiveInv, ArchiveNext
    PROVE  /\ OwnPaths(rows') /\ PathsOf(rows') \subseteq disk'
           /\ PathsOf(rows') \cap (job'.prune \cup upkeep'.prune \cup leaving') = {}
           /\ job'.path # 0 => job'.path \in disk' \ (PathsOf(rows') \cup job'.prune \cup upkeep'.prune \cup leaving')
           /\ disk' \subseteq {job'.path} \cup job'.prune \cup upkeep'.prune \cup leaving' \cup PathsOf(rows') \cup lost'
  <1> DEFINE goal == /\ OwnPaths(rows') /\ PathsOf(rows') \subseteq disk'
                     /\ PathsOf(rows') \cap (job'.prune \cup upkeep'.prune \cup leaving') = {}
                     /\ job'.path # 0 => job'.path \in disk' \ (PathsOf(rows') \cup job'.prune \cup upkeep'.prune \cup leaving')
                     /\ disk' \subseteq {job'.path} \cup job'.prune \cup upkeep'.prune \cup leaving' \cup PathsOf(rows') \cup lost'
  <1>1. /\ OwnPaths(rows) /\ PathsOf(rows) \subseteq disk
        /\ PathsOf(rows) \cap (job.prune \cup upkeep.prune \cup leaving) = {}
        /\ job.path # 0 => job.path \in disk \ (PathsOf(rows) \cup job.prune \cup upkeep.prune \cup leaving)
        /\ disk \subseteq {job.path} \cup job.prune \cup upkeep.prune \cup leaving \cup PathsOf(rows) \cup lost
    BY DEF ArchiveInv, PathsFit, OwnPaths, NothingStranded, Held
  <1>2. /\ (job.path # 0) = (job.at \in {"insert", "discard"}) /\ (job.prune # {} => job.at \in {"prune", "finish"})
        /\ upkeep.prune # {} => upkeep.at = "prune"
        /\ process = "down" => job = NoTask /\ upkeep = NoUpkeep /\ leaving = {}
        /\ job \in JobRecords /\ disk \subseteq Paths /\ 0 \notin Paths
        /\ upkeep \in [at : {"off", "prepare", "compact", "prune", "sources", "record"},
                       prune : SUBSET Paths, ok : BOOLEAN]
    BY DEF ArchiveInv, JobFits, UpkeepFits, ArchiveTypeOK, JobRecords, Paths
  <1>3. CASE UNCHANGED <<disk, rows, leaving, lost, job, upkeep>> BY <1>1, <1>3
  <1>4. CASE NodeExecuted \/ Finalize \/ Clear \/ Fail
    <2>1. UNCHANGED <<disk, rows, leaving, lost, upkeep>> /\ job.path = 0 /\ job.prune = {}
      BY <1>2, <1>4 DEF NodeExecuted, Finalize, Clear, Fail, Doing
    <2>2. \E left, last : job' = Begun(left, last) BY <1>4 DEF NodeExecuted, Finalize, Clear, Fail
    <2>3. \A left, last : Begun(left, last).path = 0 /\ Begun(left, last).prune = {}
      BY DEF Begun, NoTask
    <2> QED BY <1>1, <2>1, <2>2, <2>3
  <1>5. CASE Fetch
    <2>1. CASE Free # {} /\ job' = [job EXCEPT !.at = "insert", !.path = FreePath] /\ disk' = disk \cup {FreePath}
      <3>1. job'.path = FreePath /\ job'.prune = job.prune BY <1>2, <2>1 DEF JobRecords
      <3>2. FreePath \in Free /\ job.path = 0 BY <1>2, <1>5, <2>1, FreePathIs DEF Fetch, Doing
      <3>3. FreePath \notin disk \cup job.prune \cup upkeep.prune \cup leaving \cup PathsOf(rows)
        BY <3>2 DEF Free, Held
      <3>4. UNCHANGED <<rows, leaving, lost, upkeep>> BY <1>5 DEF Fetch
      <3> QED BY <1>1, <1>2, <2>1, <3>1, <3>2, <3>3, <3>4
    <2>2. CASE disk' = disk /\ (job' = [job EXCEPT !.at = "fail"] \/ job' = [job EXCEPT !.at = "fail", !.ok = FALSE])
      <3>1. job'.path = job.path /\ job'.prune = job.prune BY <1>2, <2>2 DEF JobRecords
      <3>2. UNCHANGED <<rows, leaving, lost, upkeep>> BY <1>5 DEF Fetch
      <3> QED BY <1>1, <2>2, <3>1, <3>2
    <2> QED BY <1>5, <2>1, <2>2 DEF Fetch
  <1>6. CASE Insert
    <2>1. UNCHANGED <<disk, leaving, lost, upkeep>> /\ job.at = "insert" /\ job.prune = {}
      BY <1>2, <1>6 DEF Insert, Doing
    <2>2. CASE job' = [job EXCEPT !.at = "discard"] /\ UNCHANGED rows
      <3>1. job'.path = job.path /\ job'.prune = job.prune BY <1>2, <2>2 DEF JobRecords
      <3> QED BY <1>1, <2>1, <2>2, <3>1
    <2>3. CASE ~Useless(job.file)
      <3>1. PICK old \in {{}, PathsAt(rows, Superseded(job.file))} :
               /\ rows' = Append(Without(rows, old), [file |-> job.file, path |-> job.path])
               /\ job' = [job EXCEPT !.at = "prune", !.path = 0, !.prune = old]
        BY <1>6, <2>3 DEF Insert
      <3>2. job'.path = 0 /\ job'.prune = old BY <1>2, <3>1 DEF JobRecords
      <3>3. job.file \in Files /\ ~RowOf(job.file) /\ job.path \in Paths
        BY <1>2, <2>1 DEF ArchiveInv, JobFits, OnFile, Written, JobRecords
      <3>4. job.path \notin PathsOf(rows) /\ job.path \in disk BY <1>1, <1>2, <2>1
      <3>5. /\ OwnPaths(rows') /\ old \subseteq PathsOf(rows)
            /\ PathsOf(rows') = (PathsOf(rows) \ old) \cup {job.path}
        BY <3>1, <3>3, <3>4, InsertedIs
      <3>6. job.path \notin upkeep.prune \cup leaving BY <1>1, <1>2, <2>1
      <3> QED BY <1>1, <1>2, <2>1, <3>2, <3>4, <3>5, <3>6
    <2> QED BY <1>6, <2>2, <2>3 DEF Insert
  <1>7. CASE Discard
    <2>1. /\ disk' = disk \ {job.path} /\ job' = [job EXCEPT !.at = "mark", !.path = 0]
          /\ UNCHANGED <<rows, leaving, lost, upkeep>> /\ job.at = "discard"
      BY <1>7 DEF Discard, Doing
    <2>2. job'.path = 0 /\ job'.prune = job.prune BY <1>2, <2>1 DEF JobRecords
    <2> QED BY <1>1, <1>2, <2>1, <2>2
  <1>8. CASE Prune
    <2>1. /\ disk' = disk \ job.prune /\ job' = [job EXCEPT !.at = "mark", !.prune = {}]
          /\ UNCHANGED <<rows, leaving, lost, upkeep>> /\ job.at = "prune"
      BY <1>8 DEF Prune, Doing
    <2>2. job'.path = 0 /\ job'.prune = {} /\ job.path = 0 BY <1>2, <2>1 DEF JobRecords
    <2> QED BY <1>1, <2>1, <2>2
  <1>9. CASE Mark \/ CleanSources \/ RecordCleaning
    <2>1. /\ UNCHANGED <<disk, rows, leaving, lost, upkeep>>
          /\ \E a, ok : job' = [job EXCEPT !.at = a, !.ok = ok] \/ job' = [job EXCEPT !.at = a]
      BY <1>9 DEF Mark, CleanSources, RecordCleaning
    <2>2. job'.path = job.path /\ job'.prune = job.prune BY <1>2, <2>1 DEF JobRecords
    <2> QED BY <1>1, <2>1, <2>2
  <1>10. CASE Commit
    <2>1. /\ UNCHANGED <<disk, leaving, lost, upkeep>> /\ job.path = 0 /\ job.prune = {}
      BY <1>2, <1>10 DEF Commit, Doing
    <2>2. CASE job' = NoTask /\ UNCHANGED rows
      <3>1. job'.path = 0 /\ job'.prune = {} BY <2>2 DEF NoTask
      <3> QED BY <1>1, <2>1, <2>2, <3>1
    <2>3. ASSUME NEW b \in BOOLEAN, rows' = Kept(b), job' = [NoTask EXCEPT !.at = "finish", !.prune = PrunedBy(b)]
          PROVE  goal
      <3>1. job'.path = 0 /\ job'.prune = PrunedBy(b) BY <2>3 DEF NoTask
      <3>2. /\ OwnPaths(rows') /\ PathsOf(rows') \subseteq PathsOf(rows)
            /\ PathsOf(rows) = PathsOf(rows') \cup PrunedBy(b) /\ PathsOf(rows') \cap PrunedBy(b) = {}
        BY <2>3, ResultIs
      <3> QED BY <1>1, <2>1, <3>1, <3>2
    <2>4. \/ job' = NoTask /\ UNCHANGED rows
          \/ \E b \in BOOLEAN : rows' = Kept(b) /\ job' = [NoTask EXCEPT !.at = "finish", !.prune = PrunedBy(b)]
      BY <1>10 DEF Commit
    <2> QED BY <2>2, <2>3, <2>4
  <1>11. CASE DeletePruned
    <2>1. /\ disk' = disk \ job.prune /\ job' = NoTask
          /\ UNCHANGED <<rows, leaving, lost, upkeep>> /\ job.at = "finish"
      BY <1>11 DEF DeletePruned, Doing
    <2>2. job'.path = 0 /\ job'.prune = {} /\ job.path = 0 BY <1>2, <2>1 DEF NoTask
    <2> QED BY <1>1, <2>1, <2>2
  <1>21. CASE LosePruned
    <2>1. /\ lost' = lost \cup job.prune /\ job' = NoTask
          /\ UNCHANGED <<disk, rows, leaving, upkeep>> /\ job.at = "finish"
      BY <1>21 DEF LosePruned, Doing
    <2>2. job'.path = 0 /\ job'.prune = {} /\ job.path = 0 BY <1>2, <2>1 DEF NoTask
    <2> QED BY <1>1, <2>1, <2>2
  <1>12. CASE Prepare
    <2>1. /\ upkeep' = [upkeep EXCEPT !.at = "compact", !.ok = ~cleaned]
          /\ UNCHANGED <<disk, rows, leaving, lost, job>>
      BY <1>12 DEF Prepare
    <2>2. upkeep'.prune = upkeep.prune BY <1>2, <2>1
    <2> QED BY <1>1, <2>1, <2>2
  <1>13. CASE Compact
    <2>1. UNCHANGED <<disk, leaving, lost, job>> /\ upkeep.prune = {} BY <1>2, <1>13 DEF Compact, Keeps
    <2>2. CASE upkeep' = [upkeep EXCEPT !.at = "prune"] /\ UNCHANGED rows
      <3>1. upkeep'.prune = {} BY <1>2, <2>1, <2>2
      <3> QED BY <1>1, <2>1, <2>2, <3>1
    <2>3. ASSUME NEW b \in BOOLEAN, rows' = Kept(b), upkeep' = [upkeep EXCEPT !.at = "prune", !.prune = PrunedBy(b)]
          PROVE  goal
      <3>1. upkeep'.prune = PrunedBy(b) BY <1>2, <2>3
      <3>2. /\ OwnPaths(rows') /\ PathsOf(rows') \subseteq PathsOf(rows)
            /\ PathsOf(rows) = PathsOf(rows') \cup PrunedBy(b) /\ PathsOf(rows') \cap PrunedBy(b) = {}
        BY <2>3, ResultIs
      <3> QED BY <1>1, <2>1, <3>1, <3>2
    <2>4. \/ upkeep' = [upkeep EXCEPT !.at = "prune"] /\ UNCHANGED rows
          \/ \E b \in BOOLEAN : rows' = Kept(b) /\ upkeep' = [upkeep EXCEPT !.at = "prune", !.prune = PrunedBy(b)]
      BY <1>13 DEF Compact
    <2> QED BY <2>2, <2>3, <2>4
  <1>14. CASE RemoveCompacted
    <2>1. /\ disk' = disk \ upkeep.prune /\ UNCHANGED <<rows, leaving, lost, job>> /\ upkeep'.prune = {}
      BY <1>14 DEF RemoveCompacted, NoUpkeep
    <2> QED BY <1>1, <2>1
  <1>15. CASE CleanAgain \/ RecordAgain
    <2>1. UNCHANGED <<disk, rows, leaving, lost, job>> /\ upkeep.prune = {}
      BY <1>2, <1>15 DEF CleanAgain, RecordAgain, Keeps
    <2>2. upkeep' = NoUpkeep \/ \E ok : upkeep' = [upkeep EXCEPT !.at = "record", !.ok = ok]
      BY <1>15 DEF CleanAgain, RecordAgain
    <2>3. upkeep'.prune = {}
      <3>1. CASE upkeep' = NoUpkeep BY <3>1 DEF NoUpkeep
      <3>2. ASSUME NEW ok, upkeep' = [upkeep EXCEPT !.at = "record", !.ok = ok] PROVE upkeep'.prune = {}
        BY <1>2, <2>1, <3>2
      <3> QED BY <2>2, <3>1, <3>2
    <2> QED BY <1>1, <2>1, <2>3
  <1>16. CASE Delete
    <2>1. /\ UNCHANGED <<disk, lost, job, upkeep>> /\ leaving' = leaving \cup PathsOf(rows) /\ rows' = << >>
      BY <1>16 DEF Delete
    <2>2. PathsOf(<< >>) = {} /\ OwnPaths(<< >>) BY DEF PathsOf, OwnPaths
    <2> QED BY <1>1, <2>1, <2>2
  <1>17. CASE RemoveDeleted
    <2>1. UNCHANGED <<rows, lost, job, upkeep>> /\ disk' = disk \ leaving /\ leaving' = {}
      BY <1>17 DEF RemoveDeleted
    <2> QED BY <1>1, <2>1
  <1>18. CASE Exit \/ Kill
    <2>1. UNCHANGED <<disk, rows>> /\ job' = NoTask /\ upkeep' = NoUpkeep BY <1>18 DEF Exit, Kill
    <2>2. job'.path = 0 /\ job'.prune = {} /\ upkeep'.prune = {} BY <2>1 DEF NoTask, NoUpkeep
    <2>3. CASE Kill
      <3>1. leaving' = {} /\ lost' = lost \cup (disk \ PathsOf(rows)) BY <2>3 DEF Kill
      <3> QED BY <1>1, <2>1, <2>2, <3>1
    <2>4. CASE Exit
      <3>1. /\ UNCHANGED <<lost, leaving>> /\ leaving = {} /\ upkeep.prune = {} /\ job.path = 0 /\ job.prune = {}
        BY <1>2, <2>4 DEF Exit
      <3> QED BY <1>1, <2>1, <2>2, <3>1
    <2> QED BY <1>18, <2>3, <2>4
  <1>19. CASE Start
    <2>1. UNCHANGED <<disk, rows, leaving, lost, job>> /\ upkeep = NoUpkeep /\ upkeep'.prune = {} /\ upkeep.prune = {}
      BY <1>2, <1>19 DEF Start, NoUpkeep
    <2> QED BY <1>1, <2>1
  <1>20. CASE Write \/ EndPrompt \/ StopProcess BY <1>3, <1>20 DEF Write, EndPrompt, StopProcess
  <1> QED BY <1>4, <1>5, <1>6, <1>7, <1>8, <1>9, <1>10, <1>11, <1>12, <1>13, <1>14, <1>15, <1>16, <1>17,
             <1>18, <1>19, <1>20, <1>21 DEF ArchiveNext

LEMMA RowsShownKept ==
    ASSUME ArchiveInv, ArchiveNext
    PROVE  status' \in Results /\ Pictures(rows') # {} => best' \in {rows'[i].file : i \in Pictures(rows')}
  <1>1. /\ status \in Results /\ Pictures(rows) # {} => best \in {rows[i].file : i \in Pictures(rows)}
        /\ rows \in Seq(ArchiveRow) /\ OwnPaths(rows)
    BY DEF ArchiveInv, RowsHaveFiles, ArchiveTypeOK, ArchiveRow, PathsFit, OwnPaths
  <1>2. CASE UNCHANGED <<status, rows, best>> BY <1>1, <1>2
  <1>3. CASE Insert
    <2>1. status' = "running" BY <1>3 DEF Insert, Doing, ArchiveInv, JobFits, OnFile
    <2> QED BY <2>1 DEF Results
  <1>4. ASSUME NEW b \in BOOLEAN, rows' = Kept(b), best' = Shown(Retained(rows, b)), Pictures(rows') # {}
        PROVE  best' \in {rows'[i].file : i \in Pictures(rows')}
    BY <1>1, <1>4, ShownIs
  <1>5. ASSUME rows' = Kept(TRUE), best' = First(FinalRows(rows)), FinalRows(rows) # << >>
        PROVE  best' \in {rows'[i].file : i \in Pictures(rows')}
    BY <1>1, <1>5, ShownIs
  <1>6. CASE Commit
    <2>1. CASE status' = status
      <3>1. status = "running" BY <1>6 DEF Commit, Doing, ArchiveInv, JobFits, AtEnd
      <3> QED BY <2>1, <3>1 DEF Results
    <2>2. CASE status' # status
      <3>1. PICK b \in BOOLEAN :
               /\ rows' = Kept(b)
               /\ best' = IF b /\ FinalRows(rows) # << >> THEN First(FinalRows(rows)) ELSE Shown(Retained(rows, b))
        BY <1>6, <2>2 DEF Commit
      <3>2. CASE b /\ FinalRows(rows) # << >>
        <4>1. b = TRUE BY <3>2
        <4> QED BY <1>5, <3>1, <3>2, <4>1
      <3>3. CASE ~(b /\ FinalRows(rows) # << >>) BY <1>4, <3>1, <3>3
      <3> QED BY <3>2, <3>3
    <2> QED BY <2>1, <2>2
  <1>7. CASE Compact
    <2>1. \/ UNCHANGED <<status, rows, best>>
          \/ \E b \in BOOLEAN : rows' = Kept(b) /\ best' = Shown(Retained(rows, b))
      BY <1>7 DEF Compact
    <2> QED BY <1>2, <1>4, <2>1
  <1>8. CASE Delete BY <1>8 DEF Delete, Results
  <1>9. CASE \/ Write \/ EndPrompt \/ NodeExecuted \/ Finalize \/ Fetch \/ Discard \/ Prune \/ Mark \/ Clear \/ Fail
             \/ CleanSources \/ RecordCleaning \/ DeletePruned \/ LosePruned
             \/ Prepare \/ RemoveCompacted \/ CleanAgain \/ RecordAgain
             \/ RemoveDeleted \/ StopProcess \/ Exit \/ Kill \/ Start
    BY <1>2, <1>9 DEF Write, EndPrompt, NodeExecuted, Finalize, Fetch, Discard, Prune, Mark, Clear, Fail,
       CleanSources, RecordCleaning, DeletePruned, LosePruned, Prepare, RemoveCompacted, CleanAgain, RecordAgain,
       RemoveDeleted, StopProcess, Exit, Kill, Start
  <1> QED BY <1>3, <1>6, <1>7, <1>8, <1>9 DEF ArchiveNext

-----------------------------------------------------------------------------
(* What ComfyUI removed was archived, and still has its row.               *)
LEMMA SourcesFitKept ==
    ASSUME ArchiveInv, ArchiveNext
    PROVE  SourcesFit'
  <1>1. /\ \A f \in Files : RowOf(f) => f \in Written
        /\ \A f \in Files : source[f] = "gone" => f \in archived \/ FromCache
        /\ status # "deleted" => \A f \in archived \cap Finals :
                                    IF status = "failed" THEN \E g \in Finals : RowOf(g) ELSE RowOf(f)
        /\ rows \in Seq(ArchiveRow) /\ source \in [Files -> {"none", "present", "gone"}]
        /\ Finals \subseteq Files
    BY DEF ArchiveInv, SourcesFit, ArchiveTypeOK, ArchiveRow, Finals
  <1>2. DOMAIN << >> = {} OBVIOUS
  <1>3. CASE UNCHANGED <<source, rows, prompt, archived, status>>
    BY <1>1, <1>3 DEF SourcesFit, RowOf, Written, FromCache
  <1>4. CASE Write
    <2>1. /\ prompt = "running" /\ UNCHANGED <<rows, prompt, archived, status>> /\ Written \subseteq Written'
          /\ source' \in [Files -> {"none", "present", "gone"}]
          /\ \E g : source' = [source EXCEPT ![g] = "present"]
      BY <1>4, SourcesOnlyGrow, SourcesStayTyped DEF Write, ArchiveNext
    <2>2. \A f \in Files : source'[f] = "gone" => source[f] = "gone" BY <1>1, <2>1
    <2>3. ~FromCache BY <2>1 DEF FromCache
    <2> QED BY <1>1, <2>1, <2>2, <2>3 DEF SourcesFit, RowOf
  <1>5. CASE EndPrompt
    <2>1. prompt = "running" /\ UNCHANGED <<rows, archived, status>> BY <1>5 DEF EndPrompt
    <2>2. ~FromCache BY <2>1 DEF FromCache
    <2>3. CASE UNCHANGED source BY <1>1, <2>1, <2>2, <2>3 DEF SourcesFit, RowOf, Written
    <2>4. CASE Written = {} /\ prompt' = "success" /\ source' = [f \in Files |-> "gone"]
      <3>1. rows = << >>
        <4>1. ASSUME NEW i \in DOMAIN rows PROVE FALSE
          <5>1. rows[i] \in ArchiveRow BY <1>1
          <5>2. rows[i].file \in Files /\ RowOf(rows[i].file) BY <5>1 DEF ArchiveRow, RowOf
          <5> QED BY <1>1, <2>4, <5>2
        <4>2. DOMAIN rows = 1 .. Len(rows) /\ Len(rows) \in Nat BY <1>1
        <4>3. Len(rows) = 0 BY <4>1, <4>2
        <4> QED BY <1>1, <4>3
      <3>2. rows' = << >> /\ \A f \in Files : source'[f] = "gone" BY <2>1, <2>4, <3>1
      <3>3. FromCache' BY <2>4, <3>2 DEF FromCache
      <3>4. \A f : ~RowOf(f) /\ ~RowOf(f)' BY <1>2, <3>1, <3>2 DEF RowOf
      <3> QED BY <1>1, <2>1, <3>3, <3>4 DEF SourcesFit
    <2> QED BY <1>5, <2>3, <2>4 DEF EndPrompt
  <1>6. CASE Insert
    <2>1. /\ job.at = "insert" /\ UNCHANGED <<source, prompt, archived, status>> /\ status = "running"
          /\ job.file \in Written /\ job.file \in Files /\ ~RowOf(job.file) /\ source[job.file] = "present"
      BY <1>6 DEF Insert, Doing, ArchiveInv, JobFits, OnFile, Written
    <2>2. CASE UNCHANGED rows BY <1>3, <2>1, <2>2
    <2>3. CASE ~Useless(job.file)
      <3>1. PICK old \in {{}, PathsAt(rows, Superseded(job.file))} :
               rows' = Append(Without(rows, old), [file |-> job.file, path |-> job.path])
        BY <1>6, <2>3 DEF Insert
      <3>2. job.path \in Paths /\ job.path \notin PathsOf(rows)
        BY <2>1 DEF ArchiveInv, ArchiveTypeOK, JobFits, PathsFit
      <3>3. /\ \A g : RowOf(g)' => RowOf(g) \/ g = job.file
            /\ \A g \in Finals : RowOf(g) => RowOf(g)'
        BY <2>1, <3>1, <3>2, InsertedIs
      <3>4. ~FromCache BY <2>1 DEF FromCache
      <3>5. Written' = Written BY <2>1 DEF Written
      <3> QED BY <1>1, <2>1, <3>3, <3>4, <3>5 DEF SourcesFit
    <2> QED BY <1>6, <2>2, <2>3 DEF Insert
  <1>7. CASE Mark
    <2>1. /\ UNCHANGED <<source, rows, prompt, status>> /\ archived' = archived \cup {job.file}
          /\ status = "running" /\ (job.file \in Finals => RowOf(job.file))
      BY <1>7 DEF Mark, Doing, ArchiveInv, JobFits, OnFile, Archiving
    <2> QED BY <1>1, <2>1 DEF SourcesFit, RowOf, Written, FromCache
  <1>8. CASE CleanSources \/ CleanAgain
    <2>1. UNCHANGED <<rows, prompt, status, archived>> /\ Written \subseteq Written'
      BY <1>8, SourcesOnlyGrow DEF CleanSources, CleanAgain
    <2>2. source' = source \/ source' = Removed BY <1>8 DEF CleanSources, CleanAgain, RemovesSources
    <2>3. /\ \A f \in Files : source'[f] = "gone" => source[f] = "gone" \/ f \in archived
          /\ \A f \in Files : source[f] = "gone" => source'[f] = "gone"
      BY <1>1, <2>2 DEF Removed
    <2>4. FromCache => FromCache' BY <2>1, <2>3 DEF FromCache
    <2> QED BY <1>1, <2>1, <2>3, <2>4 DEF SourcesFit, RowOf
  <1>9. ASSUME NEW b \in BOOLEAN, rows' = Kept(b), UNCHANGED <<source, prompt, archived>>,
               status \in {"running", status'}, status' = IF b THEN "succeeded" ELSE "failed"
        PROVE  SourcesFit'
    <2>1. /\ rows = << >> => rows' = << >>
          /\ \A f : RowOf(f)' => RowOf(f)
          /\ b => \A f \in Finals : RowOf(f) => RowOf(f)'
          /\ (\E f \in Finals : RowOf(f)) => \E f \in Finals : RowOf(f)'
      BY <1>9, ResultIs DEF RowOf
    <2>2. FromCache => FromCache' BY <1>9, <2>1 DEF FromCache
    <2>3. Written' = Written BY <1>9 DEF Written
    <2>4. status # "deleted" BY <1>9
    <2>5. CASE b
      <3>1. status # "failed" /\ status' # "failed" BY <1>9, <2>5
      <3>2. \A f \in archived \cap Finals : RowOf(f)' BY <1>1, <2>1, <2>4, <2>5, <3>1
      <3> QED BY <1>1, <1>9, <2>1, <2>2, <2>3, <3>1, <3>2 DEF SourcesFit
    <2>6. CASE ~b
      <3>1. status' = "failed" BY <1>9, <2>6
      <3>2. \A f \in archived \cap Finals : \E g \in Finals : RowOf(g)' BY <1>1, <2>1, <2>4
      <3> QED BY <1>1, <1>9, <2>1, <2>2, <2>3, <3>1, <3>2 DEF SourcesFit
    <2> QED BY <2>5, <2>6
  <1>10. CASE Commit
    <2>1. status = "running" BY <1>10 DEF Commit, Doing, ArchiveInv, JobFits, AtEnd
    <2>2. CASE prompt = "success" /\ Unarchived # {} /\ GivenBack
      <3>1. /\ rows = << >> /\ rows' = << >> /\ archived' = {} /\ source' = [f \in Files |-> "none"]
        BY <1>10, <2>2 DEF Commit, GivenBack
      <3> QED BY <1>2, <3>1 DEF SourcesFit, RowOf
    <2>3. CASE ~(prompt = "success" /\ Unarchived # {} /\ GivenBack)
      <3>1. PICK b \in BOOLEAN : rows' = Kept(b) /\ status' = IF b THEN "succeeded" ELSE "failed"
        BY <1>10, <2>3 DEF Commit
      <3>2. UNCHANGED <<source, prompt, archived>> BY <1>10, <2>3 DEF Commit
      <3> QED BY <1>9, <2>1, <3>1, <3>2
    <2> QED BY <2>2, <2>3
  <1>11. CASE Compact
    <2>1. status \in Results \cup {"deleted"} BY <1>11 DEF Compact, Keeps, ArchiveInv, UpkeepFits
    <2>2. UNCHANGED <<source, prompt, archived, status>> BY <1>11 DEF Compact
    <2>3. CASE UNCHANGED rows BY <1>3, <2>2, <2>3
    <2>4. CASE status # "deleted" /\ rows' = Kept(status = "succeeded")
      <3>1. /\ (status = "succeeded") \in BOOLEAN
            /\ status' = IF status = "succeeded" THEN "succeeded" ELSE "failed"
        BY <2>1, <2>2, <2>4 DEF Results
      <3>2. CASE status = "succeeded"
        <4>1. rows' = Kept(TRUE) BY <2>4, <3>2
        <4> QED BY <1>9, <2>2, <3>2, <4>1
      <3>3. CASE status # "succeeded"
        <4>1. rows' = Kept(FALSE) /\ status' = "failed" BY <2>4, <3>1, <3>3
        <4> QED BY <1>9, <2>2, <4>1
      <3> QED BY <3>2, <3>3
    <2> QED BY <1>11, <2>3, <2>4 DEF Compact
  <1>12. CASE Prepare
    <2>1. UNCHANGED <<source, rows, prompt, status>> BY <1>12 DEF Prepare
    <2>2. CASE UNCHANGED archived BY <1>3, <2>1, <2>2
    <2>3. CASE archived = {} /\ archived' = {rows[i].file : i \in DOMAIN rows}
      <3>1. \A f \in archived' : RowOf(f) BY <2>3 DEF RowOf
      <3> QED BY <1>1, <2>1, <2>3, <3>1 DEF SourcesFit, RowOf, Written, FromCache
    <2> QED BY <1>12, <2>2, <2>3 DEF Prepare
  <1>13. CASE Delete
    <2>1. rows' = << >> /\ status' = "deleted" /\ UNCHANGED <<source, prompt, archived>> BY <1>13 DEF Delete
    <2>2. FromCache => FromCache' BY <2>1 DEF FromCache
    <2> QED BY <1>1, <1>2, <2>1, <2>2 DEF SourcesFit, RowOf
  <1>14. CASE \/ NodeExecuted \/ Finalize \/ Fetch \/ Discard \/ Prune \/ Clear \/ Fail
              \/ RecordCleaning \/ DeletePruned \/ LosePruned \/ RemoveCompacted \/ RecordAgain
              \/ RemoveDeleted \/ StopProcess \/ Exit \/ Kill \/ Start
    BY <1>3, <1>14 DEF NodeExecuted, Finalize, Fetch, Discard, Prune, Clear, Fail, RecordCleaning,
       DeletePruned, LosePruned, RemoveCompacted, RecordAgain, RemoveDeleted, StopProcess, Exit, Kill, Start
  <1> QED BY <1>4, <1>5, <1>6, <1>7, <1>8, <1>10, <1>11, <1>12, <1>13, <1>14 DEF ArchiveNext

(* The last pass clears the failure of whatever has a row by now.          *)
LEMMA FailuresFitKept ==
    ASSUME ArchiveInv, ArchiveNext
    PROVE  FailuresFit'
  <1>1. /\ FailuresFit /\ JobFits /\ job \in JobRecords /\ failed \in [Files -> {"no", "absent", "error"}]
        /\ \A f \in Files : RowOf(f) => f \in Written
    BY DEF ArchiveInv, ArchiveTypeOK, JobRecords, SourcesFit
  <1>2. job.left \in Seq(Files) /\ job.last \in BOOLEAN BY <1>1 DEF JobRecords
  <1>3. CASE UNCHANGED <<job, prompt, failed, rows>> BY <1>1, <1>3 DEF FailuresFit, RowOf
  <1>4. CASE job' = NoTask BY <1>4 DEF FailuresFit, NoTask
  <1>5. CASE EndPrompt
    <2>1. UNCHANGED job /\ ~job.last BY <1>1, <1>5 DEF EndPrompt, JobFits
    <2> QED BY <2>1 DEF FailuresFit
  <1>6. CASE NodeExecuted
    <2>1. PICK f \in Written : job' = Begun(<<f>>, FALSE) BY <1>6 DEF NodeExecuted
    <2>2. <<f>> \in Seq(Files) BY DEF Written
    <2>3. job'.last = FALSE BY <2>1, <2>2, BegunIs
    <2> QED BY <2>3 DEF FailuresFit
  <1>7. CASE Finalize
    <2>1. CASE prompt = "lost"
      <3>1. prompt' # "success" BY <1>7, <2>1 DEF Finalize
      <3> QED BY <3>1 DEF FailuresFit
    <2>2. CASE prompt # "lost"
      <3>1. /\ job' = Begun(HistoryFiles, TRUE) /\ UNCHANGED <<prompt, source, rows, status, failed>>
            /\ status = "running" /\ prompt # "running"
        BY <1>7, <2>2 DEF Finalize, Active
      <3>2. HistoryFiles \in Seq(Files) /\ Range(HistoryFiles) = Written BY HistoryIs
      <3>3. \A f \in Written : RowOf(f) => f \in Range(job'.left) \/ (job'.file = f /\ job'.at \in Archiving)
        BY <3>1, <3>2, BegunFits
      <3>4. \A f : RowOf(f)' <=> RowOf(f) BY <3>1 DEF RowOf
      <3> QED BY <1>1, <3>3, <3>4 DEF FailuresFit
    <2> QED BY <2>1, <2>2
  <1>8. CASE Clear \/ Fail
    <2>1. /\ job' = Begun(job.left, job.last) /\ UNCHANGED <<prompt, source, rows, status>> /\ status = "running"
          /\ Range(job.left) \subseteq Written /\ (job.last => prompt # "running")
          /\ job.file \in Files
      BY <1>1, <1>8 DEF Clear, Fail, Doing, JobFits, OnFile, Written
    <2>2. /\ job'.last = job.last
          /\ \A f \in Range(job.left) : RowOf(f) => f \in Range(job'.left) \/ (job'.file = f /\ job'.at \in Archiving)
      BY <1>2, <2>1, BegunFits
    <2>3. \A f : RowOf(f)' <=> RowOf(f) BY <2>1 DEF RowOf
    <2>4. ASSUME job.last, prompt = "success", NEW f \in Files, failed'[f] # "no", RowOf(f)
          PROVE  f \in Range(job.left)
      <3>1. CASE Clear
        <4>1. f # job.file /\ failed[f] # "no" BY <1>1, <2>1, <2>4, <3>1 DEF Clear
        <4> QED BY <1>1, <2>4, <4>1 DEF FailuresFit
      <3>2. CASE Fail
        <4>1. ~RowOf(job.file) /\ job.at = "fail" BY <1>1, <3>2 DEF Fail, Doing, JobFits
        <4>2. f # job.file BY <2>4, <4>1
        <4>3. failed[f] # "no" BY <1>1, <2>1, <2>4, <3>2, <4>2 DEF Fail
        <4> QED BY <1>1, <2>4, <4>2, <4>3 DEF FailuresFit
      <3> QED BY <1>8, <3>1, <3>2
    <2> QED BY <2>1, <2>2, <2>3, <2>4 DEF FailuresFit
  <1>9. CASE Fetch \/ CleanSources \/ RecordCleaning
    <2>1. /\ UNCHANGED <<prompt, failed, rows>> /\ job.at \notin Archiving
          /\ \E a, p, ok : job' = [job EXCEPT !.at = a, !.path = p] \/ job' = [job EXCEPT !.at = a, !.ok = ok]
                           \/ job' = [job EXCEPT !.at = a]
      BY <1>9 DEF Fetch, CleanSources, RecordCleaning, Doing, Archiving
    <2>2. job'.left = job.left /\ job'.last = job.last BY <1>1, <2>1 DEF JobRecords
    <2> QED BY <1>1, <2>1, <2>2 DEF FailuresFit, RowOf
  <1>10. CASE Insert
    <2>1. /\ UNCHANGED <<prompt, failed>> /\ job.at = "insert" /\ job.at \notin Archiving
          /\ job.file \in Files /\ ~RowOf(job.file)
      BY <1>1, <1>10 DEF Insert, Doing, Archiving, JobFits, OnFile, Written
    <2>2. CASE UNCHANGED rows /\ job' = [job EXCEPT !.at = "discard"]
      <3>1. job'.left = job.left /\ job'.last = job.last BY <1>1, <2>2 DEF JobRecords
      <3> QED BY <1>1, <2>1, <2>2, <3>1 DEF FailuresFit, RowOf
    <2>3. CASE ~Useless(job.file)
      <3>1. PICK old \in {{}, PathsAt(rows, Superseded(job.file))} :
               /\ rows' = Append(Without(rows, old), [file |-> job.file, path |-> job.path])
               /\ job' = [job EXCEPT !.at = "prune", !.path = 0, !.prune = old]
        BY <1>10, <2>3 DEF Insert
      <3>2. job'.left = job.left /\ job'.last = job.last /\ job'.file = job.file /\ job'.at = "prune"
        BY <1>1, <3>1 DEF JobRecords
      <3>3. job.path \in Paths /\ job.path \notin PathsOf(rows)
        BY <2>1 DEF ArchiveInv, ArchiveTypeOK, JobFits, PathsFit
      <3>4. \A g : RowOf(g)' => RowOf(g) \/ g = job.file BY <2>1, <3>1, <3>3, InsertedIs
      <3> QED BY <1>1, <2>1, <3>2, <3>4 DEF FailuresFit, Archiving
    <2> QED BY <1>10, <2>2, <2>3 DEF Insert
  <1>11. CASE Discard \/ Prune \/ Mark
    <2>1. /\ UNCHANGED <<prompt, failed, rows>>
          /\ \/ job' = [job EXCEPT !.at = "mark", !.path = 0]
             \/ job' = [job EXCEPT !.at = "mark", !.prune = {}]
             \/ job' = [job EXCEPT !.at = "clear"]
      BY <1>11 DEF Discard, Prune, Mark
    <2>2. job'.left = job.left /\ job'.last = job.last /\ job'.file = job.file /\ job'.at \in {"mark", "clear"}
      BY <1>1, <2>1 DEF JobRecords
    <2> QED BY <1>1, <2>1, <2>2 DEF FailuresFit, RowOf, Archiving
  <1>12. CASE Commit
    <2>1. job' = NoTask \/ \E old : job' = [NoTask EXCEPT !.at = "finish", !.prune = old] BY <1>12 DEF Commit
    <2>2. NoTask.last = FALSE /\ \A old : [NoTask EXCEPT !.at = "finish", !.prune = old].last = FALSE
      BY DEF NoTask
    <2>3. job'.last = FALSE BY <2>1, <2>2
    <2> QED BY <2>3 DEF FailuresFit
  <1>13. CASE Compact
    <2>1. UNCHANGED <<job, prompt, failed>> BY <1>13 DEF Compact
    <2>2. UNCHANGED rows \/ \E b \in BOOLEAN : rows' = Kept(b) BY <1>13 DEF Compact
    <2>3. CASE UNCHANGED rows BY <1>3, <2>1, <2>3
    <2>4. ASSUME NEW b \in BOOLEAN, rows' = Kept(b) PROVE FailuresFit'
      <3>1. \A f : (\E k \in DOMAIN Kept(b) : Kept(b)[k].file = f) => RowOf(f) BY ResultIs
      <3>2. \A f : RowOf(f)' => RowOf(f) BY <2>4, <3>1 DEF RowOf
      <3> QED BY <1>1, <2>1, <3>2 DEF FailuresFit
    <2> QED BY <2>2, <2>3, <2>4
  <1>14. CASE Delete
    <2>1. UNCHANGED <<job, prompt, failed>> /\ rows' = << >> BY <1>14 DEF Delete
    <2>2. DOMAIN << >> = {} OBVIOUS
    <2>3. \A f : ~RowOf(f)' BY <2>1, <2>2 DEF RowOf
    <2> QED BY <2>3 DEF FailuresFit
  <1>15. CASE DeletePruned \/ LosePruned \/ Exit \/ Kill BY <1>4, <1>15 DEF DeletePruned, LosePruned, Exit, Kill
  <1>16. CASE Write \/ Prepare \/ RemoveCompacted \/ CleanAgain \/ RecordAgain \/ RemoveDeleted \/ StopProcess \/ Start
    BY <1>3, <1>16 DEF Write, Prepare, RemoveCompacted, CleanAgain, RecordAgain, RemoveDeleted, StopProcess, Start
  <1> QED BY <1>5, <1>6, <1>7, <1>8, <1>9, <1>10, <1>11, <1>12, <1>13, <1>14, <1>15, <1>16 DEF ArchiveNext

-----------------------------------------------------------------------------
(* A stutter leaves everything as it is.                                   *)
LEMMA ArchiveStutters ==
    ASSUME ArchiveInv, UNCHANGED archiveVars
    PROVE  ArchiveInv'
  BY DEF ArchiveInv, archiveVars, ArchiveTypeOK, JobFits, PathsFit, UpkeepFits, NothingStranded,
     RowsHaveFiles, SourcesFit, FailuresFit, FromCache, RowOf, Written, Held, PathsOf, Pictures

LEMMA ArchiveInvKept ==
    ASSUME ArchiveInv, [ArchiveNext]_archiveVars
    PROVE  ArchiveInv'
  <1>1. CASE ArchiveNext
    <2>1. PathsFit' BY <1>1, PathsFitKept DEF PathsFit, OwnPaths, PathsOf
    <2>2. NothingStranded'
      <3>1. disk' \subseteq {job'.path} \cup job'.prune \cup upkeep'.prune \cup leaving' \cup PathsOf(rows') \cup lost'
        BY <1>1, PathsFitKept
      <3> QED BY <3>1 DEF NothingStranded, Held, PathsOf
    <2>3. RowsHaveFiles'
      <3>1. PathsOf(rows') \subseteq disk' BY <1>1, PathsFitKept
      <3>2. status' \in Results /\ Pictures(rows') # {} => best' \in {rows'[i].file : i \in Pictures(rows')}
        BY <1>1, RowsShownKept
      <3> QED BY <3>1, <3>2 DEF RowsHaveFiles, PathsOf, Pictures
    <2> QED BY <1>1, <2>1, <2>2, <2>3, ArchiveTypesKept, JobFitsKept, UpkeepFitsKept, SourcesFitKept, FailuresFitKept
         DEF ArchiveInv
  <1>2. CASE UNCHANGED archiveVars BY <1>2, ArchiveStutters
  <1> QED BY <1>1, <1>2

(* A success fails only for a final file that has no row.                  *)
LEMMA MissingFails ==
    ASSUME ArchiveInv, ArchiveNext, status = "running", status' = "failed", prompt = "success"
    PROVE  \E f \in Finals : ~RowOf(f)
  <1>1. CASE Commit
    <2>1. /\ job.at = "commit" /\ job.last /\ job.left = << >> /\ FailuresFit
      BY <1>1 DEF Commit, Doing, ArchiveInv, JobFits, AtEnd, OnFile
    <2>2. Range(<< >>) = {} BY DEF Range
    <2>3. Unarchived # {} BY <1>1 DEF Commit
    <2>4. PICK f \in Finals : failed[f] # "no" BY <2>3 DEF Unarchived
    <2>5. f \in Files BY DEF Finals
    <2> QED BY <2>1, <2>2, <2>4, <2>5 DEF FailuresFit, Archiving
  <1>2. CASE \/ Write \/ EndPrompt \/ NodeExecuted \/ Finalize \/ Fetch \/ Insert \/ Discard \/ Prune \/ Mark
             \/ Clear \/ Fail \/ CleanSources \/ RecordCleaning \/ DeletePruned \/ LosePruned
             \/ Prepare \/ Compact \/ RemoveCompacted \/ CleanAgain \/ RecordAgain
             \/ RemoveDeleted \/ StopProcess \/ Exit \/ Kill \/ Start
    BY <1>2 DEF Write, EndPrompt, NodeExecuted, Finalize, Fetch, Insert, Discard, Prune, Mark,
       Clear, Fail, CleanSources, RecordCleaning, DeletePruned, LosePruned, Prepare, Compact, RemoveCompacted,
       CleanAgain, RecordAgain, RemoveDeleted, StopProcess, Exit, Kill, Start
  <1>3. CASE Delete BY <1>3 DEF Delete
  <1> QED BY <1>1, <1>2, <1>3 DEF ArchiveNext

(* ArchiveInv holds in every state: each path is held by one of the rows,  *)
(* the executor, the maintenance and the deletion, and what ComfyUI was    *)
(* asked to remove has a row.                                              *)
THEOREM ArchiveInvariance == ArchiveSpec => []ArchiveInv
  <1>1. ArchiveInit => ArchiveInv BY ArchiveStarts
  <1>2. ArchiveInv /\ [ArchiveNext]_archiveVars => ArchiveInv' BY ArchiveInvKept
  <1> QED BY <1>1, <1>2, PTL DEF ArchiveSpec

(* The rows of a generation never name a file that is gone, a result shows *)
(* an image it kept, no file is left without an owner unless a process was *)
(* lost, no final image is lost, and a success of ComfyUI fails only for *)
(* a final file that was not archived.                                     *)
THEOREM FilesAreKept == ArchiveSpec => FilesKept
  <1>1. ArchiveInv => ArchiveTypeOK /\ RowsHaveFiles /\ NothingStranded /\ FinalSomewhere
    <2> SUFFICES ASSUME ArchiveInv PROVE FinalSomewhere
      BY DEF ArchiveInv
    <2>1. /\ \A f \in Files : source[f] = "gone" => f \in archived \/ FromCache
          /\ status # "deleted" => \A f \in archived \cap Finals :
                                      IF status = "failed" THEN \E g \in Finals : RowOf(g) ELSE RowOf(f)
      BY DEF ArchiveInv, SourcesFit
    <2>2. SUFFICES ASSUME status # "deleted",
                          ~(prompt = "success" /\ \A f \in Files : source[f] = "gone" /\ ~RowOf(f)),
                          NEW f \in Finals, source[f] = "gone"
                   PROVE  IF status = "failed" THEN \E g \in Finals : RowOf(g) ELSE RowOf(f)
      BY DEF FinalSomewhere
    <2>3. DOMAIN << >> = {} OBVIOUS
    <2>4. ~FromCache BY <2>2, <2>3 DEF FromCache, RowOf
    <2>5. f \in Files BY DEF Finals
    <2> QED BY <2>1, <2>2, <2>4, <2>5
  <1>2. ArchiveInv /\ [ArchiveNext]_archiveVars =>
           [status = "running" /\ status' = "failed" /\ prompt = "success" => \E f \in Finals : ~RowOf(f)]_archiveVars
    BY MissingFails
  <1>3. ArchiveInit => ArchiveInv BY ArchiveStarts
  <1>4. ArchiveInv /\ [ArchiveNext]_archiveVars => ArchiveInv' BY ArchiveInvKept
  <1> QED BY <1>1, <1>2, <1>3, <1>4, PTL DEF ArchiveSpec, FilesKept, FailsForMissing

-----------------------------------------------------------------------------
(* The update of an installation (ProductionUpdate).                       *)
Contents == [Releases -> Nat]
Data     == [schema : Releases \cup {None}, content : Contents]
Records  == [candidate : Releases, previous : Releases \cup {None}]
Stages   == {"start", "preflight", "operational", "restart", "build", "receipt", "smoke", "stop", "archive",
             "archived", "restore", "cutover", "up", "verify", "prune archives", "prune images",
             "report", "recover", "check original", "database", "files", "up again",
             "check rollback", "stranded", "leaving", "over"}
Endings  == {"none", "refused", "checked", "current", "failed", "updated", "original-preserved",
             "rolled-back", "operator-required", "killed"}
RunState == [at : Stages, mode : Commands \cup {"none"}, target : Releases, before : Releases,
             state : Records, stopped : BOOLEAN, cutover : BOOLEAN, pruned : BOOLEAN,
             outcome : Endings]

UpdateTyped ==
    /\ lock \in Runs \cup {Nobody}
    /\ run \in [Runs -> RunState]
    /\ app \in [image : Releases, up : BOOLEAN]
    /\ compose \in Releases
    /\ state \in Records
    /\ data \in Data
    /\ archives \in [DOMAIN archives -> Data]
    /\ DOMAIN archives \subseteq Runs
    /\ images \subseteq Releases /\ receipts \subseteq Releases
    /\ accepted \in Contents

(* Every write that was answered is in the database.                       *)
Intact == data # NoData /\ data.content = accepted

Serves    == app.up => Intact /\ data.schema = app.image
Resumable == compose = app.image /\ state.candidate = app.image /\ data # NoData =>
                 Intact /\ data.schema <= app.image

(* The lock is its owner's until it leaves; one that was killed keeps it.  *)
Locked == \A j \in Runs :
    /\ run[j].at \notin {"start", "over"} => lock = j
    /\ lock = j => run[j].at # "start"

(* What the stages know of the cutover.                                    *)
Uncut == {"start", "preflight", "operational", "restart", "build", "receipt", "smoke", "stop", "archive",
          "archived", "restore", "cutover", "check original"}
Cut   == {"up", "verify", "prune archives", "prune images", "report", "database", "files",
          "up again", "check rollback", "stranded"}

(* Up to the cutover the application is the one before, on its own data.   *)
Unmoved(j) ==
    /\ app.image = run[j].before /\ compose = run[j].before
    /\ state.candidate = run[j].before /\ run[j].state.candidate = run[j].before
    /\ Intact /\ data.schema <= run[j].before
    /\ run[j].at \notin {"operational", "restart"} /\ ~Install(j) => run[j].before < run[j].target
    /\ run[j].at \in {"archived", "cutover"} /\ ~Install(j) =>
           ~app.up /\ j \in DOMAIN archives /\ archives[j] = data
    /\ run[j].at \in {"receipt", "smoke", "stop", "archive", "archived", "restore", "cutover"} /\ ~Install(j) =>
           run[j].target \in images
    /\ run[j].at = "operational" /\ run[j].mode \in {"update", "restart"} =>
           run[j].before <= run[j].target

(* A rollback of the run finds what it needs.                              *)
Way(j) == run[j].before \in images /\ (~Install(j) => j \in DOMAIN archives)

(* From there on the container is the one before, down, or the target, and *)
(* the archive misses only what the target was given.                      *)
Moved(j) ==
    /\ compose = Target(j) /\ compose \in images
    /\ app.image \in {run[j].before, Target(j)}
    /\ state.candidate \in {run[j].before, Target(j)} /\ run[j].state.candidate = run[j].before
    /\ Intact /\ data.schema <= app.image
    /\ ~Install(j) => /\ run[j].before < run[j].target
                      /\ app.up => app.image = run[j].target
                      /\ archives[j] # NoData /\ archives[j].schema <= run[j].before
                      /\ \A r \in Releases : r # run[j].target => archives[j].content[r] = accepted[r]
    /\ run[j].at \in {"prune archives", "prune images", "report"} =>
           /\ app = [image |-> Target(j), up |-> TRUE]
           /\ state = [candidate |-> Target(j), previous |-> run[j].before]
    /\ run[j].at = "database" => ~Install(j) /\ ~app.up

(* The data are those of the release before again.                         *)
Restored(j) ==
    /\ Intact /\ data.schema <= run[j].before
    /\ run[j].before <= Target(j)
    /\ app.image \in {run[j].before, Target(j)}
    /\ run[j].at = "files" => /\ ~app.up
                              /\ compose = Target(j) /\ compose \in images
                              /\ state.candidate \in {run[j].before, Target(j)}
                              /\ run[j].state.candidate = run[j].before
    /\ run[j].at # "files" => compose = run[j].before /\ state.candidate = run[j].before
    /\ run[j].at = "up again" => ~app.up
    /\ app.up => app.image = run[j].before

Holds(j) ==
    /\ run[j].at \in Uncut => ~run[j].cutover
    /\ run[j].at \in Cut => run[j].cutover
    /\ run[j].at \in Uncut \ {"start", "preflight"} => Unmoved(j)
    /\ run[j].at = "recover" => IF run[j].cutover THEN Moved(j) ELSE Unmoved(j)
    /\ run[j].at \in {"up", "verify", "prune archives", "prune images", "report", "database"} => Moved(j)
    /\ run[j].at \in {"files", "up again", "check rollback", "stranded"} => Restored(j)
    /\ run[j].at \in {"preflight", "leaving"} => Resumable

(* OutcomeHolds and RollbackKept, of one run.                              *)
Succeeded(j) ==
    At(j, "leaving") /\ run[j].outcome \in {"updated", "rolled-back", "original-preserved"} =>
        /\ app.up
        /\ app.image = compose /\ app.image = state.candidate /\ data.schema = app.image
        /\ app.image = IF run[j].outcome = "updated" THEN Target(j) ELSE run[j].before
WayBack(j) == lock = j /\ run[j].cutover => Way(j)

World == Serves /\ app.image \in images /\ state.candidate \in images

(* The inductive invariant.                                                *)
UpdateInv ==
    /\ UpdateTyped /\ Locked /\ World
    /\ lock = Nobody => Resumable
    /\ \A j \in Runs : Holds(j) /\ Succeeded(j) /\ WayBack(j)

-----------------------------------------------------------------------------
(* The types.                                                              *)
LEMMA MigratedType ==
    ASSUME UpdateTyped, NEW image \in Releases
    PROVE  Migrated(image) \in Data
  BY DEF UpdateTyped, Migrated, Data, Contents

LEMMA ComesUpType ==
    ASSUME UpdateTyped, NEW image \in Releases, ComesUp(image)
    PROVE  app' \in [image : Releases, up : BOOLEAN] /\ data' \in Data
  BY MigratedType DEF ComesUp

LEMMA ReconcileType ==
    ASSUME UpdateTyped, NEW j, NEW there, NEW failing, Reconcile(j, there, failing)
    PROVE  app' \in [image : Releases, up : BOOLEAN] /\ data' \in Data
  <1>1. app \in [image : Releases, up : BOOLEAN] /\ data \in Data /\ compose \in Releases
    BY DEF UpdateTyped
  <1>2. CASE ComesUp(compose) BY <1>1, <1>2, ComesUpType
  <1>3. CASE UNCHANGED <<app, data>> BY <1>1, <1>3
  <1>4. CASE app' = [image |-> compose, up |-> FALSE] /\ UNCHANGED data
    <2>1. [image |-> compose, up |-> FALSE] \in [image : Releases, up : BOOLEAN] BY <1>1
    <2> QED BY <1>1, <1>4, <2>1
  <1> QED BY <1>2, <1>3, <1>4 DEF Reconcile

RunsTyped == run \in [Runs -> RunState]

LEMMA GoesType ==
    ASSUME RunsTyped, NEW j \in Runs, NEW there \in Stages, Goes(j, there)
    PROVE  RunsTyped'
  <1>1. [run[j] EXCEPT !.at = there] \in RunState BY DEF RunsTyped, RunState
  <1>2. run' = [run EXCEPT ![j] = [run[j] EXCEPT !.at = there]] BY DEF RunsTyped, Goes
  <1> HIDE DEF RunState
  <1> QED BY <1>1, <1>2 DEF RunsTyped

LEMMA EndsType ==
    ASSUME RunsTyped, NEW j \in Runs, NEW there \in {"leaving", "over"}, NEW outcome \in Endings,
           run' = [run EXCEPT ![j].at = there, ![j].outcome = outcome]
    PROVE  RunsTyped'
  <1>1. [run[j] EXCEPT !.at = there, !.outcome = outcome] \in RunState
    BY DEF RunsTyped, RunState, Stages
  <1>2. run' = [run EXCEPT ![j] = [run[j] EXCEPT !.at = there, !.outcome = outcome]]
    BY DEF RunsTyped
  <1> QED BY <1>1, <1>2 DEF RunsTyped

LEMMA RunsType ==
    ASSUME UpdateTyped, NEW j \in Runs, Deploy(j) \/ Transaction(j) \/ Recovery(j) \/ Fails(j) \/ Killed(j)
    PROVE  RunsTyped'
  <1>0. RunsTyped /\ \A e \in Endings : Ends(j, e) => RunsTyped'
    BY EndsType DEF UpdateTyped, RunsTyped, Ends
  <1>1. ASSUME NEW r \in RunState, run' = [run EXCEPT ![j] = r] PROVE RunsTyped'
    BY <1>0, <1>1 DEF RunsTyped
  <1>2. run[j] \in RunState BY <1>0 DEF RunsTyped
  <1>3. CASE Deploy(j)
    <2>1. CASE TakesLock(j)
      <3>1. PICK m \in Commands, t \in Releases :
              run' = [run EXCEPT ![j].at = "preflight", ![j].mode = m, ![j].target = t]
        BY <2>1 DEF TakesLock
      <3>2. [run[j] EXCEPT !.at = "preflight", !.mode = m, !.target = t] \in RunState
        BY <1>2 DEF RunState, Stages
      <3>3. run' = [run EXCEPT ![j] = [run[j] EXCEPT !.at = "preflight", !.mode = m, !.target = t]]
        BY <1>0, <3>1 DEF RunsTyped
      <3> QED BY <1>1, <3>2, <3>3
    <2>2. CASE Preflight(j)
      <3>1. [run[j] EXCEPT !.at = "operational", !.before = app.image, !.state = state] \in RunState
        BY <1>2 DEF UpdateTyped, RunState, Stages
      <3>2. run' = [run EXCEPT ![j] = [run[j] EXCEPT !.at = "operational", !.before = app.image,
                                                     !.state = state]]
        BY <1>0, <2>2 DEF RunsTyped, Preflight, BackupPreflight, FetchesSource
      <3> QED BY <1>1, <3>1, <3>2
    <2>3. CASE FindsLock(j) BY <1>0, <2>3, EndsType DEF FindsLock, Endings
    <2>4. CASE Operational(j) BY <1>0, <2>4, GoesType DEF Operational, Endings, Stages, RecoverApplication, ApplicationReady
    <2>5. CASE RequestedRestart(j) BY <1>0, <2>5 DEF RequestedRestart, Endings
    <2>6. CASE Leaves(j) BY <1>0, <2>6, GoesType DEF Leaves, Stages
    <2> QED BY <1>3, <2>1, <2>2, <2>3, <2>4, <2>5, <2>6 DEF Deploy
  <1>4. CASE Transaction(j)
    <2>1. CASE \/ Build(j) \/ Receipt(j) \/ SmokeImage(j) \/ Stop(j) \/ Archive(j)
               \/ Up(j) \/ Save(j) \/ Report(j)
      BY <1>0, <2>1, GoesType
         DEF Build, Receipt, SmokeImage, Stop, Archive, Up, Reconcile, Save, Report, Endings, Stages
    <2>2. CASE Archived(j)
      <3>1. [run[j] EXCEPT !.at = "cutover", !.stopped = TRUE] \in RunState
        BY <1>2 DEF RunState, Stages
      <3>2. run' = [run EXCEPT ![j] = [run[j] EXCEPT !.at = "cutover", !.stopped = TRUE]]
        BY <1>0, <2>2 DEF RunsTyped, Archived, VerifyArchive
      <3> QED BY <1>1, <3>1, <3>2
    <2>3. CASE Cutover(j)
      <3>1. [run[j] EXCEPT !.at = "up", !.cutover = TRUE] \in RunState BY <1>2 DEF RunState, Stages
      <3>2. run' = [run EXCEPT ![j] = [run[j] EXCEPT !.at = "up", !.cutover = TRUE]]
        BY <1>0, <2>3 DEF RunsTyped, Cutover
      <3> QED BY <1>1, <3>1, <3>2
    <2>4. CASE PruneArchives(j) \/ PruneImages(j)
      <3>1. PICK at \in {"prune images", "report"}, p \in BOOLEAN :
              run' = [run EXCEPT ![j].at = at, ![j].pruned = p]
        <4>1. run[j].pruned \in BOOLEAN BY <1>2 DEF RunState
        <4> QED BY <1>0, <2>4, <4>1 DEF PruneArchives, PruneImages, RunsTyped, Untagged, HoldsLock
      <3>2. [run[j] EXCEPT !.at = at, !.pruned = p] \in RunState BY <1>2 DEF RunState, Stages
      <3>3. run' = [run EXCEPT ![j] = [run[j] EXCEPT !.at = at, !.pruned = p]]
        BY <1>0, <3>1 DEF RunsTyped
      <3> QED BY <1>1, <3>2, <3>3
    <2> QED BY <1>4, <2>1, <2>2, <2>3, <2>4 DEF Transaction, EnforceRetention
  <1>5. CASE Recovery(j)
    BY <1>0, <1>5, GoesType
       DEF Recovery, RestartsAfterArchive, Preserve, CheckOriginal, StopCandidate, RestoreDatabase,
           RestoreFiles, UpAgain, Reconcile, CheckRollback, Endings, Stages, RestartOriginal, VerifyArchive
  <1>6. CASE Fails(j) BY <1>0, <1>6, GoesType DEF Fails, Endings, Stages
  <1>7. CASE Killed(j) BY <1>0, <1>7, EndsType DEF Killed, Endings
  <1> QED BY <1>3, <1>4, <1>5, <1>6, <1>7

LEMMA TypedNext ==
    ASSUME UpdateTyped, [UpdateNext]_updateVars
    PROVE  UpdateTyped'
  <1>1. ASSUME NEW j \in Runs, Deploy(j) \/ Transaction(j) \/ Recovery(j) \/ Fails(j) \/ Killed(j)
        PROVE  UpdateTyped'
    <2>1. run' \in [Runs -> RunState] BY <1>1, RunsType DEF RunsTyped
    <2>2. Target(j) \in Releases /\ run[j].before \in Releases /\ run[j].state \in Records
          /\ run[j].target \in Releases
      BY DEF UpdateTyped, RunState, Target
    <2>3. app.image \in Releases /\ compose \in Releases BY DEF UpdateTyped
    <2> USE <2>1, <2>2, <2>3, ComesUpType DEF UpdateTyped, world
    <2>4. CASE TakesLock(j) \/ FindsLock(j) \/ Preflight(j) \/ Leaves(j)
      BY <2>4 DEF TakesLock, FindsLock, Preflight, Leaves, BackupPreflight, FetchesSource
    <2>5. CASE Operational(j) BY <2>5 DEF Operational, RecoverApplication, ApplicationReady
    <2>6. CASE RequestedRestart(j) BY <2>6 DEF RequestedRestart
    <2>7. CASE Build(j) \/ Receipt(j) \/ SmokeImage(j) \/ Stop(j) \/ Report(j)
      BY <2>7 DEF Build, Receipt, SmokeImage, Stop, Report
    <2>8. CASE Archive(j) BY <2>8 DEF Archive
    <2>9. CASE Archived(j) \/ Cutover(j) BY <2>9 DEF Archived, Cutover, VerifyArchive
    <2>10. CASE Up(j)
      <3>1. app' \in [image : Releases, up : BOOLEAN] /\ data' \in Data BY <2>10, ReconcileType DEF Up
      <3> QED BY <2>10, <3>1 DEF Up
    <2>11. CASE Save(j) BY <2>11 DEF Save, Records
    <2>12. CASE PruneArchives(j) BY <2>12 DEF PruneArchives, HoldsLock
    <2>13. CASE PruneImages(j) BY <2>13 DEF PruneImages, Untagged, HoldsLock
    <2>14. CASE RestartsAfterArchive(j) BY <2>14 DEF RestartsAfterArchive, RestartOriginal
    <2>15. CASE Preserve(j) BY <2>15 DEF Preserve
    <2>16. CASE CheckOriginal(j) \/ StopCandidate(j) BY <2>16 DEF CheckOriginal, StopCandidate
    <2>17. CASE RestoreDatabase(j)
      <3>1. NoData \in Data /\ \A i \in DOMAIN archives : archives[i] \in Data /\ archives[i].content \in Contents
        BY DEF NoData, None, Data, Contents
      <3>2. data' \in Data BY <2>17, <3>1 DEF RestoreDatabase, VerifyArchive
      <3>3. accepted' \in Contents BY <2>17, <3>1 DEF RestoreDatabase, Contents, VerifyArchive
      <3>4. UNCHANGED <<lock, app, compose, state, archives, images, receipts>> BY <2>17 DEF RestoreDatabase, VerifyArchive
      <3> QED BY <3>2, <3>3, <3>4
    <2>18. CASE RestoreFiles(j) BY <2>18 DEF RestoreFiles
    <2>19. CASE UpAgain(j)
      <3>1. app' \in [image : Releases, up : BOOLEAN] /\ data' \in Data BY <2>19, ReconcileType DEF UpAgain
      <3> QED BY <2>19, <3>1 DEF UpAgain
    <2>20. CASE CheckRollback(j) \/ Fails(j) \/ Killed(j) BY <2>20 DEF CheckRollback, Fails, Killed
    <2> QED BY <1>1, <2>4, <2>5, <2>6, <2>7, <2>8, <2>9, <2>10, <2>11, <2>12, <2>13, <2>14, <2>15,
               <2>16, <2>17, <2>18, <2>19, <2>20
            DEF Deploy, Transaction, Recovery, EnforceRetention
  <1>2. CASE UserWrites BY <1>2 DEF UserWrites, UpdateTyped, Data, Contents
  <1>3. CASE UNCHANGED updateVars BY <1>3 DEF updateVars, world, UpdateTyped
  <1> QED BY <1>1, <1>2, <1>3 DEF UpdateNext
-----------------------------------------------------------------------------
(* What a step does to the record of its run.                              *)
SameRun(j) ==
    /\ run'[j].mode = run[j].mode /\ run'[j].target = run[j].target
    /\ run'[j].before = run[j].before /\ run'[j].state = run[j].state
    /\ Install(j)' = Install(j) /\ Target(j)' = Target(j)
OthersSame(j) == \A i \in Runs \ {j} : run'[i] = run[i]

LEMMA GoesKeeps ==
    ASSUME RunsTyped, NEW j \in Runs, NEW there, Goes(j, there)
    PROVE  /\ run'[j].at = there /\ run'[j].cutover = run[j].cutover
           /\ run'[j].outcome = run[j].outcome /\ SameRun(j) /\ OthersSame(j)
           /\ run'[j].stopped = run[j].stopped
  BY DEF RunsTyped, RunState, Goes, SameRun, OthersSame, Install, Target

LEMMA EndsKeeps ==
    ASSUME RunsTyped, NEW j \in Runs, NEW outcome, Ends(j, outcome)
    PROVE  /\ run'[j].at = "leaving" /\ run'[j].cutover = run[j].cutover
           /\ run'[j].outcome = outcome /\ SameRun(j) /\ OthersSame(j)
  BY DEF RunsTyped, RunState, Ends, SameRun, OthersSame, Install, Target

(* A run that is under way owns the lock.                                  *)
LEMMA Owner ==
    ASSUME UpdateInv, NEW j \in Runs, run[j].at \notin {"start", "over"}
    PROVE  /\ lock = j /\ RunsTyped /\ World /\ Holds(j)
           /\ run[j].target \in Releases /\ run[j].before \in Releases /\ Target(j) \in Releases
           /\ run[j].cutover \in BOOLEAN /\ app.image \in Releases /\ compose \in Releases
           /\ state.candidate \in Releases /\ app.up \in BOOLEAN
  BY DEF UpdateInv, UpdateTyped, Locked, RunsTyped, RunState, Target, Records

LEMMA OwnStep ==
    ASSUME UpdateInv, NEW j \in Runs, lock = j, UNCHANGED lock, UpdateTyped', OthersSame(j),
           run'[j].at # "start", World', Holds(j)', Succeeded(j)', WayBack(j)'
    PROVE  UpdateInv'
  <1>1. \A i \in Runs \ {j} : run'[i] = run[i] /\ run'[i].at \in {"start", "over"}
    BY DEF UpdateInv, Locked, OthersSame
  <1>2. Locked' BY <1>1 DEF Locked
  <1>3. lock' # Nobody BY UpdateAssumption
  <1>4. ASSUME NEW i \in Runs \ {j} PROVE Holds(i)' /\ Succeeded(i)' /\ WayBack(i)'
    <2>1. run[i].at \in Uncut => ~run[i].cutover BY DEF UpdateInv, Holds
    <2> QED BY <1>1, <2>1 DEF Holds, Uncut, Cut, Succeeded, WayBack, At
  <1> QED BY <1>2, <1>3, <1>4 DEF UpdateInv

(* What is not touched keeps what it holds.                                *)
LEMMA SameWorld ==
    ASSUME NEW i \in Runs, UNCHANGED <<lock, world>>, run'[i] = run[i],
           Holds(i), Succeeded(i), WayBack(i)
    PROVE  Holds(i)' /\ Succeeded(i)' /\ WayBack(i)'
  <1> USE DEF world, At, Install, Target
  <1>1. Unmoved(i) => Unmoved(i)' BY DEF Unmoved, Intact
  <1>2. Moved(i) => Moved(i)' BY DEF Moved, Intact
  <1>3. Restored(i) => Restored(i)' BY DEF Restored, Intact
  <1>4. Resumable => Resumable' BY DEF Resumable, Intact
  <1>5. Holds(i)' BY <1>1, <1>2, <1>3, <1>4 DEF Holds
  <1>6. Succeeded(i)' BY DEF Succeeded
  <1>7. WayBack(i)' BY DEF WayBack, Way
  <1> QED BY <1>5, <1>6, <1>7

(* The container comes up on data it fits.                                 *)
LEMMA ComesUpServes ==
    ASSUME UpdateTyped, NEW image \in Releases, Intact, data.schema <= image, UNCHANGED accepted, ComesUp(image)
    PROVE  /\ app' = [image |-> image, up |-> TRUE] /\ app'.image = image /\ app'.up
           /\ data'.schema = image /\ Intact' /\ Serves'
  <1>1. data.schema \in Releases \cup {None} /\ data = [schema |-> data.schema, content |-> data.content]
    BY DEF UpdateTyped, Data
  <1>2. data' = [data EXCEPT !.schema = image]
    BY <1>1 DEF ComesUp, Migrated, Releases, None
  <1>3. data'.schema = image /\ data'.content = data.content BY <1>1, <1>2
  <1>4. data' # NoData BY <1>3, UpdateAssumption DEF NoData, Releases
  <1> QED BY <1>3, <1>4 DEF ComesUp, Intact, Serves
-----------------------------------------------------------------------------
(* deploy, before anything is changed                                      *)
LEMMA InvDeploy ==
    ASSUME UpdateInv, UpdateTyped', NEW j \in Runs, Deploy(j)
    PROVE  UpdateInv'
  <1>0. RunsTyped /\ Serves /\ World /\ (lock = Nobody => Resumable) /\ Nobody \notin Runs
    BY UpdateAssumption DEF UpdateInv, UpdateTyped, RunsTyped, World
  <1>1. CASE TakesLock(j)
    <2>1. lock = Nobody /\ lock' = j /\ run[j].at = "start" /\ ~run[j].cutover /\ UNCHANGED world
      BY <1>1 DEF TakesLock, At, UpdateInv, Holds, Uncut
    <2>2. run'[j].at = "preflight" /\ run'[j].cutover = run[j].cutover /\ OthersSame(j)
      BY <1>0, <1>1 DEF TakesLock, RunsTyped, RunState, OthersSame
    <2>3. \A i \in Runs : run[i].at \in {"start", "over"} BY <1>0, <2>1 DEF UpdateInv, Locked
    <2>4. \A i \in Runs \ {j} : run'[i] = run[i] BY <2>2 DEF OthersSame
    <2>5. World' /\ Resumable' BY <1>0, <2>1 DEF world, World, Serves, Resumable, Intact
    <2>6. Locked' BY <2>1, <2>2, <2>3, <2>4 DEF Locked
    <2>7. \A i \in Runs : Holds(i)' /\ Succeeded(i)' /\ WayBack(i)'
      <3>1. Holds(j)' /\ Succeeded(j)' /\ WayBack(j)'
        BY <2>1, <2>2, <2>5 DEF Holds, Uncut, Cut, Succeeded, WayBack, At
      <3>2. ASSUME NEW i \in Runs \ {j} PROVE Holds(i)' /\ Succeeded(i)' /\ WayBack(i)'
        <4>1. run[i].at \in Uncut => ~run[i].cutover BY DEF UpdateInv, Holds
        <4> QED BY <2>1, <2>3, <2>4, <4>1 DEF Holds, Uncut, Cut, Succeeded, WayBack, At
      <3> QED BY <3>1, <3>2
    <2>8. lock' # Nobody BY <1>0, <2>1
    <2> QED BY <2>5, <2>6, <2>7, <2>8 DEF UpdateInv
  <1>2. CASE FindsLock(j)
    <2>1. /\ run[j].at = "start" /\ lock # Nobody /\ lock # j /\ run'[j].at = "over"
          /\ UNCHANGED <<lock, world>> /\ OthersSame(j)
      BY <1>0, <1>2 DEF FindsLock, At, UpdateInv, Locked, RunsTyped, RunState, OthersSame
    <2>2. World' BY <1>0, <2>1 DEF world, World, Serves, Intact
    <2>3. Locked' BY <2>1 DEF OthersSame, UpdateInv, Locked
    <2>4. ASSUME NEW i \in Runs PROVE Holds(i)' /\ Succeeded(i)' /\ WayBack(i)'
      <3>1. CASE i = j BY <2>1, <3>1 DEF Holds, Uncut, Cut, Succeeded, WayBack, At
      <3>2. CASE i # j
        <4>1. run'[i] = run[i] /\ Holds(i) /\ Succeeded(i) /\ WayBack(i)
          BY <2>1, <3>2 DEF OthersSame, UpdateInv
        <4> QED BY <2>1, <4>1, SameWorld
      <3> QED BY <3>1, <3>2
    <2> QED BY <2>1, <2>2, <2>3, <2>4 DEF UpdateInv
  <1>3. CASE Preflight(j)
    <2>1. run[j].at = "preflight" BY <1>3 DEF Preflight, At, BackupPreflight, FetchesSource
    <2>2. lock = j /\ Holds(j) BY <2>1, Owner
    <2>3. Resumable /\ ~run[j].cutover BY <2>1, <2>2 DEF Holds, Uncut
    <2>4. /\ run'[j].at = "operational" /\ run'[j].before = app.image /\ run'[j].state = state
          /\ run'[j].cutover = run[j].cutover /\ OthersSame(j)
          /\ run'[j].mode = run[j].mode /\ run'[j].target = run[j].target
          /\ UNCHANGED <<lock, world>>
      BY <1>0, <1>3 DEF Preflight, RunsTyped, RunState, OthersSame, BackupPreflight, FetchesSource
    <2>5. Intact /\ data.schema <= app.image /\ compose = app.image /\ state.candidate = app.image
      BY <1>3, <2>3 DEF Preflight, Resumable, BackupPreflight, FetchesSource
    <2>6. run[j].mode \in {"update", "restart"} => app.image <= run[j].target
      BY <1>3 DEF Preflight, BackupPreflight, FetchesSource
    <2>7. World' BY <1>0, <2>4 DEF world, World, Serves, Intact
    <2>8. Unmoved(j)' BY <2>4, <2>5, <2>6 DEF world, Unmoved, Intact
    <2>9. Holds(j)' /\ Succeeded(j)' /\ WayBack(j)'
      BY <2>3, <2>4, <2>8 DEF Holds, Uncut, Cut, Succeeded, WayBack, At
    <2> QED BY <2>2, <2>4, <2>7, <2>9, OwnStep
  <1>4. CASE Operational(j)
    <2>1. run[j].at = "operational" BY <1>4 DEF Operational, At, RecoverApplication, ApplicationReady
    <2>2. lock = j /\ Unmoved(j) /\ ~run[j].cutover /\ app.image \in Releases
      BY <2>1, Owner DEF Holds, Uncut
    <2>3. /\ app.image = run[j].before /\ compose = app.image /\ state.candidate = app.image
          /\ run[j].state.candidate = app.image /\ Intact /\ data.schema <= app.image
          /\ run[j].mode \in {"update", "restart"} => run[j].before <= run[j].target
      BY <2>1, <2>2 DEF Unmoved
    <2>4. UNCHANGED <<lock, compose, state, archives, images, receipts, accepted>>
      BY <1>4 DEF Operational, RecoverApplication, ApplicationReady
    <2>5. Serves' /\ Intact' /\ app'.image = app.image /\ data'.schema <= app'.image
      <3>1. CASE UNCHANGED <<app, data>> BY <1>0, <2>3, <2>4, <3>1 DEF Serves, Intact
      <3>2. CASE ComesUp(app.image)
        <4>1. app'.image = app.image /\ data'.schema = app.image /\ Intact' /\ Serves'
          BY <2>2, <2>3, <2>4, <3>2, ComesUpServes DEF UpdateInv
        <4> QED BY <2>2, <4>1 DEF Releases
      <3> QED BY <1>4, <3>1, <3>2 DEF Operational, RecoverApplication, ApplicationReady
    <2>6. World' BY <1>0, <2>4, <2>5 DEF World
    <2>7. CASE Ends(j, "checked") \/ Ends(j, "current")
      <3>1. Resumable' BY <2>5 DEF Resumable
      <3>2. /\ run'[j].at = "leaving" /\ ~run'[j].cutover /\ OthersSame(j)
            /\ run'[j].outcome \in {"checked", "current"}
        BY <1>0, <2>2, <2>7, EndsKeeps
      <3>3. Holds(j)' /\ Succeeded(j)' /\ WayBack(j)'
        BY <3>1, <3>2 DEF Holds, Uncut, Cut, Succeeded, WayBack, At
      <3> QED BY <2>2, <2>4, <2>6, <3>2, <3>3, OwnStep
    <2>8. ASSUME NEW there \in {"restart", "build", "cutover"}, Goes(j, there),
                 there = "build" => ~Install(j) /\ run[j].before < run[j].target,
                 there = "cutover" => Install(j)
          PROVE  UpdateInv'
      <3>1. run'[j].at = there /\ ~run'[j].cutover /\ SameRun(j) /\ OthersSame(j)
        BY <1>0, <2>2, <2>8, GoesKeeps
      <3>2. Unmoved(j)' BY <2>3, <2>4, <2>5, <2>8, <3>1 DEF Unmoved, SameRun
      <3>3. Holds(j)' /\ Succeeded(j)' /\ WayBack(j)'
        BY <3>1, <3>2 DEF Holds, Uncut, Cut, Succeeded, WayBack, At
      <3> QED BY <2>2, <2>4, <2>6, <3>1, <3>3, OwnStep
    <2>9. run[j].mode \in {"update", "restart"} /\ run[j].target # run[j].before =>
              ~Install(j) /\ run[j].before < run[j].target
      BY <2>1, <2>3, Owner DEF Install, Releases
    <2> QED BY <1>4, <2>7, <2>8, <2>9 DEF Operational, RecoverApplication, ApplicationReady
  <1>5. CASE RequestedRestart(j)
    <2>1. run[j].at = "restart" BY <1>5 DEF RequestedRestart, At
    <2>2. lock = j /\ Unmoved(j) /\ ~run[j].cutover /\ app.image \in Releases
      BY <2>1, Owner DEF Holds, Uncut
    <2>3. UNCHANGED <<lock, compose, state, archives, images, receipts, accepted>>
      BY <1>5 DEF RequestedRestart
    <2>4. Intact /\ data.schema <= app.image BY <2>2 DEF Unmoved
    <2>5. Serves' /\ Intact' /\ app'.image = app.image /\ data'.schema <= app'.image
      <3>1. CASE ComesUp(app.image)
        <4>1. app'.image = app.image /\ data'.schema = app.image /\ Intact' /\ Serves'
          BY <2>2, <2>3, <2>4, <3>1, ComesUpServes DEF UpdateInv
        <4> QED BY <2>2, <4>1 DEF Releases
      <3>2. CASE app' = [app EXCEPT !.up = FALSE] /\ UNCHANGED data
        BY <2>3, <2>4, <3>2 DEF UpdateInv, UpdateTyped, Serves, Intact
      <3> QED BY <1>5, <3>1, <3>2 DEF RequestedRestart
    <2>6. World' /\ Resumable' BY <1>0, <2>3, <2>5 DEF World, Resumable
    <2>7. /\ run'[j].at = "leaving" /\ ~run'[j].cutover /\ OthersSame(j)
          /\ run'[j].outcome \in {"current", "failed"}
      BY <1>0, <1>5, <2>2, EndsKeeps DEF RequestedRestart
    <2>8. Holds(j)' /\ Succeeded(j)' /\ WayBack(j)'
      BY <2>6, <2>7 DEF Holds, Uncut, Cut, Succeeded, WayBack, At
    <2> QED BY <2>2, <2>3, <2>6, <2>7, <2>8, OwnStep
  <1>6. CASE Leaves(j)
    <2>1. run[j].at = "leaving" BY <1>6 DEF Leaves, At
    <2>2. lock = j /\ Resumable BY <2>1, Owner DEF Holds
    <2>3. run'[j].at = "over" /\ OthersSame(j) /\ lock' = Nobody /\ UNCHANGED world
      BY <1>0, <1>6, GoesKeeps DEF Leaves
    <2>4. World' /\ Resumable' BY <1>0, <2>2, <2>3 DEF world, World, Serves, Resumable, Intact
    <2>5. \A i \in Runs : run'[i].at \in {"start", "over"}
      BY <2>2, <2>3 DEF OthersSame, UpdateInv, Locked
    <2>6. Locked' BY <1>0, <2>3, <2>5 DEF Locked
    <2>7. ASSUME NEW i \in Runs PROVE Holds(i)' /\ Succeeded(i)' /\ WayBack(i)'
      <3>1. run'[i].at \in Uncut => ~run'[i].cutover
        BY <2>3 DEF OthersSame, UpdateInv, Holds, Uncut
      <3> QED BY <1>0, <2>3, <2>5, <3>1 DEF Holds, Uncut, Cut, Succeeded, WayBack, At
    <2> QED BY <2>4, <2>6, <2>7 DEF UpdateInv
  <1> QED BY <1>1, <1>2, <1>3, <1>4, <1>5, <1>6 DEF Deploy
-----------------------------------------------------------------------------
(* transaction, before the cutover                                         *)

(* A step that stays before the cutover.                                   *)
LEMMA UncutStep ==
    ASSUME UpdateInv, UpdateTyped', NEW j \in Runs, lock = j, UNCHANGED lock, ~run'[j].cutover,
           run'[j].at \in (Uncut \ {"start", "preflight"}) \cup {"recover"},
           OthersSame(j), World', Unmoved(j)'
    PROVE  UpdateInv'
  <1>1. Holds(j)' /\ Succeeded(j)' /\ WayBack(j)' BY DEF Holds, Uncut, Cut, Succeeded, WayBack, At
  <1>2. run'[j].at # "start" BY DEF Uncut
  <1> QED BY <1>1, <1>2, OwnStep

LEMMA InvPrepare ==
    ASSUME UpdateInv, UpdateTyped', NEW j \in Runs,
           Build(j) \/ Receipt(j) \/ SmokeImage(j) \/ Stop(j) \/ Archive(j) \/ Archived(j)
    PROVE  UpdateInv'
  <1>0. RunsTyped /\ run[j].at \in {"build", "receipt", "smoke", "stop", "archive", "archived"} /\ UNCHANGED lock
    BY DEF UpdateInv, UpdateTyped, RunsTyped, Build, Receipt, SmokeImage, Stop, Archive, Archived,
           At, world
  <1>1. lock = j /\ World /\ Unmoved(j) /\ ~run[j].cutover
    BY <1>0, Owner DEF Holds, Uncut
  <1>2. Serves /\ app.image \in images /\ state.candidate \in images BY <1>1 DEF World
  <1>3. CASE Build(j)
    <2>1. run'[j].at = "receipt" /\ ~run'[j].cutover /\ SameRun(j) /\ OthersSame(j)
      BY <1>0, <1>1, <1>3, GoesKeeps DEF Build
    <2>2. World' BY <1>2, <1>3 DEF Build, World, Serves, Intact
    <2>3. Unmoved(j)' BY <1>0, <1>1, <1>3, <2>1 DEF Build, At, Unmoved, SameRun, Intact
    <2> QED BY <1>0, <1>1, <2>1, <2>2, <2>3, UncutStep DEF Uncut
  <1>4. CASE Receipt(j)
    <2>1. run'[j].at = "smoke" /\ ~run'[j].cutover /\ SameRun(j) /\ OthersSame(j)
      BY <1>0, <1>1, <1>4, GoesKeeps DEF Receipt
    <2>2. World' BY <1>2, <1>4 DEF Receipt, World, Serves, Intact
    <2>3. Unmoved(j)' BY <1>0, <1>1, <1>4, <2>1 DEF Receipt, At, Unmoved, SameRun, Intact
    <2> QED BY <1>0, <1>1, <2>1, <2>2, <2>3, UncutStep DEF Uncut
  <1>5. CASE Stop(j)
    <2>1. run'[j].at = "archive" /\ ~run'[j].cutover /\ SameRun(j) /\ OthersSame(j)
      BY <1>0, <1>1, <1>5, GoesKeeps DEF Stop
    <2>2. app'.image = app.image /\ (app'.up => app.up)
      BY <1>5 DEF Stop, UpdateInv, UpdateTyped
    <2>3. World' BY <1>2, <1>5, <2>2 DEF Stop, World, Serves, Intact
    <2>4. Unmoved(j)' BY <1>0, <1>1, <1>5, <2>1, <2>2 DEF Stop, At, Unmoved, SameRun, Intact
    <2> QED BY <1>0, <1>1, <2>1, <2>3, <2>4, UncutStep DEF Uncut
  <1>6. CASE Archive(j)
    <2>1. run'[j].at = "archived" /\ ~run'[j].cutover /\ SameRun(j) /\ OthersSame(j)
      BY <1>0, <1>1, <1>6, GoesKeeps DEF Archive
    <2>2. j \in DOMAIN archives' /\ archives'[j] = data /\ ~app.up BY <1>6 DEF Archive
    <2>3. World' BY <1>2, <1>6 DEF Archive, World, Serves, Intact
    <2>4. Unmoved(j)' BY <1>0, <1>1, <1>6, <2>1, <2>2 DEF Archive, At, Unmoved, SameRun, Intact
    <2> QED BY <1>0, <1>1, <2>1, <2>3, <2>4, UncutStep DEF Uncut
  <1>7. CASE Archived(j)
    <2>1. run'[j].at = "cutover" /\ ~run'[j].cutover /\ SameRun(j) /\ OthersSame(j) /\ UNCHANGED world
      BY <1>0, <1>1, <1>7 DEF Archived, RunsTyped, RunState, SameRun, OthersSame, Install, Target, VerifyArchive
    <2>2. World' BY <1>2, <2>1 DEF world, World, Serves, Intact
    <2>3. Unmoved(j)' BY <1>0, <1>1, <1>7, <2>1 DEF world, Archived, At, Unmoved, SameRun, Intact, VerifyArchive
    <2> QED BY <1>0, <1>1, <2>1, <2>2, <2>3, UncutStep DEF Uncut
  <1>8. CASE SmokeImage(j)
    <2>1. run'[j].at = "stop" /\ ~run'[j].cutover /\ SameRun(j) /\ OthersSame(j) /\ UNCHANGED world
      BY <1>0, <1>1, <1>8, GoesKeeps DEF SmokeImage
    <2>2. World' BY <1>2, <2>1 DEF world, World, Serves, Intact
    <2>3. Unmoved(j)' BY <1>0, <1>1, <1>8, <2>1 DEF world, SmokeImage, At, Unmoved, SameRun, Intact
    <2> QED BY <1>0, <1>1, <2>1, <2>2, <2>3, UncutStep DEF Uncut
  <1> QED BY <1>3, <1>4, <1>5, <1>6, <1>7, <1>8

(* transaction, from the cutover on                                        *)
LEMMA CutStep ==
    ASSUME UpdateInv, UpdateTyped', NEW j \in Runs, lock = j, UNCHANGED lock, run'[j].cutover,
           run'[j].at \in {"up", "verify", "prune archives", "prune images", "report", "recover", "database"},
           OthersSame(j), World', Moved(j)', Way(j)'
    PROVE  UpdateInv'
  <1>1. Holds(j)' /\ Succeeded(j)' /\ WayBack(j)' BY DEF Holds, Uncut, Cut, Succeeded, WayBack, At
  <1> QED BY <1>1, OwnStep

LEMMA InvCutover ==
    ASSUME UpdateInv, UpdateTyped', NEW j \in Runs, Cutover(j)
    PROVE  UpdateInv'
  <1>0. RunsTyped /\ run[j].at = "cutover" /\ UNCHANGED lock
    BY DEF UpdateInv, UpdateTyped, RunsTyped, Cutover, At
  <1>1. lock = j /\ World /\ Unmoved(j) /\ ~run[j].cutover BY <1>0, Owner DEF Holds, Uncut
  <1>2. Serves /\ app.image \in images /\ state.candidate \in images BY <1>1 DEF World
  <1>3. run'[j].at = "up" /\ run'[j].cutover /\ SameRun(j) /\ OthersSame(j)
    BY <1>0 DEF Cutover, RunsTyped, RunState, SameRun, OthersSame, Install, Target
  <1>4. compose' = Target(j) /\ UNCHANGED <<app, state, data, archives, images, receipts, accepted>>
    BY DEF Cutover
  <1>5. World' BY <1>2, <1>4 DEF World, Serves, Intact
  <1>6. Target(j) \in images BY <1>0, <1>1, <1>2 DEF Unmoved, Target
  <1>7. Moved(j)'
    <2>1. ~Install(j) => ~app.up /\ archives[j] = data BY <1>0, <1>1 DEF Unmoved
    <2>2. ~Install(j) => run[j].before < run[j].target BY <1>0, <1>1 DEF Unmoved
    <2> QED BY <1>1, <1>3, <1>4, <1>6, <2>1, <2>2 DEF Unmoved, Moved, SameRun, Intact
  <1>8. Way(j)' BY <1>0, <1>1, <1>2, <1>3, <1>4 DEF Unmoved, Way, SameRun
  <1> QED BY <1>0, <1>1, <1>3, <1>5, <1>7, <1>8, CutStep
(* A run that was cut over has all that a rollback needs.                  *)
LEMMA CutOver ==
    ASSUME UpdateInv, NEW j \in Runs, run[j].cutover, run[j].at \notin {"start", "over"}
    PROVE  /\ lock = j /\ lock # Nobody /\ Way(j) /\ Serves
           /\ app.image \in images /\ state.candidate \in images
           /\ app.image \in Releases /\ Target(j) \in Releases /\ run[j].before \in Releases
  BY Owner, UpdateAssumption DEF UpdateInv, WayBack, World, At

LEMMA MovedFits ==
    ASSUME UpdateInv, NEW j \in Runs, Moved(j), run[j].at \notin {"start", "over"}
    PROVE  data.schema <= compose /\ compose \in Releases /\ run[j].before <= compose
  <1>1. /\ run[j].before \in Releases /\ Target(j) \in Releases /\ compose = Target(j)
        /\ app.image \in {run[j].before, Target(j)} /\ data.schema <= app.image
        /\ ~Install(j) => run[j].before < run[j].target
    BY Owner DEF Moved
  <1>2. run[j].before <= Target(j) BY <1>1 DEF Target, Releases
  <1>3. data.schema \in Int BY DEF UpdateInv, UpdateTyped, Data, Releases, None
  <1> QED BY <1>1, <1>2, <1>3 DEF Releases

LEMMA InvUp ==
    ASSUME UpdateInv, UpdateTyped', NEW j \in Runs, Up(j)
    PROVE  UpdateInv'
  <1>0. RunsTyped /\ run[j].at = "up" /\ UNCHANGED <<lock, compose, state, archives, images, receipts, accepted>>
    BY DEF UpdateInv, UpdateTyped, RunsTyped, Up, At
  <1>1. run[j].cutover /\ Moved(j) BY <1>0, Owner DEF Holds, Cut
  <1>2. lock = j /\ Way(j) /\ Serves /\ app.image \in images /\ state.candidate \in images
        /\ Target(j) \in Releases
    BY <1>0, <1>1, CutOver
  <1>3. data.schema <= compose /\ compose \in Releases BY <1>0, <1>1, MovedFits
  <1>4. compose \in images /\ compose = Target(j) /\ Intact BY <1>1 DEF Moved
  <1>5. run'[j].at \in {"verify", "recover"} /\ run'[j].cutover /\ SameRun(j) /\ OthersSame(j)
    BY <1>0, <1>1, GoesKeeps DEF Up, Reconcile
  <1>6. Serves' /\ Intact' /\ app'.image \in {app.image, compose} /\ data'.schema <= app'.image
        /\ (app'.up => app'.image = compose \/ UNCHANGED app)
    <2>1. CASE UNCHANGED <<app, data>> BY <1>0, <1>1, <1>2, <2>1 DEF Moved, Serves, Intact
    <2>2. CASE app' = [image |-> compose, up |-> FALSE] /\ UNCHANGED data
      BY <1>0, <1>3, <1>4, <2>2 DEF Serves, Intact
    <2>3. CASE ComesUp(compose)
      <3>1. app'.image = compose /\ data'.schema = compose /\ Intact' /\ Serves'
        BY <1>0, <1>3, <1>4, <2>3, ComesUpServes DEF UpdateInv
      <3> QED BY <1>3, <3>1 DEF Releases
    <2> QED BY <2>1, <2>2, <2>3 DEF Up, Reconcile
  <1>7. World' BY <1>0, <1>2, <1>4, <1>6 DEF World
  <1>8. Moved(j)'
    <2>1. ~Install(j) => compose = run[j].target BY <1>4 DEF Target
    <2> QED BY <1>0, <1>1, <1>4, <1>5, <1>6, <2>1 DEF Moved, SameRun
  <1>9. Way(j)' BY <1>0, <1>2, <1>5 DEF Way, SameRun
  <1> QED BY <1>0, <1>2, <1>5, <1>7, <1>8, <1>9, CutStep

LEMMA InvSave ==
    ASSUME UpdateInv, UpdateTyped', NEW j \in Runs, Save(j)
    PROVE  UpdateInv'
  <1>0. RunsTyped /\ run[j].at = "verify"
        /\ UNCHANGED <<lock, app, compose, data, archives, images, receipts, accepted>>
    BY DEF UpdateInv, UpdateTyped, RunsTyped, Save, At
  <1>1. run[j].cutover /\ Moved(j) BY <1>0, Owner DEF Holds, Cut
  <1>2. lock = j /\ Way(j) /\ Serves /\ app.image \in images BY <1>0, <1>1, CutOver
  <1>3. run'[j].at \in {"report", "prune archives"} /\ run'[j].cutover /\ SameRun(j) /\ OthersSame(j)
    BY <1>0, <1>1, GoesKeeps DEF Save
  <1>4. app = [image |-> Target(j), up |-> TRUE]
        /\ state' = [candidate |-> Target(j), previous |-> run[j].before]
    BY DEF Save
  <1>5. World' BY <1>0, <1>2, <1>4 DEF World, Serves, Intact
  <1>6. Moved(j)' BY <1>0, <1>1, <1>3, <1>4 DEF Moved, SameRun, Intact
  <1>7. Way(j)' BY <1>0, <1>2, <1>3 DEF Way, SameRun
  <1> QED BY <1>0, <1>1, <1>2, <1>3, <1>5, <1>6, <1>7, CutStep

LEMMA InvPrune ==
    ASSUME UpdateInv, UpdateTyped', NEW j \in Runs, PruneArchives(j) \/ PruneImages(j)
    PROVE  UpdateInv'
  <1>0. RunsTyped /\ run[j].at \in {"prune archives", "prune images"}
        /\ UNCHANGED <<lock, app, compose, state, data, receipts, accepted>>
    BY DEF UpdateInv, UpdateTyped, RunsTyped, PruneArchives, PruneImages, At, Untagged, HoldsLock
  <1>1. run[j].cutover /\ Moved(j) BY <1>0, Owner DEF Holds, Cut
  <1>2. lock = j /\ Way(j) /\ Serves /\ app.image \in images /\ state.candidate \in images
    BY <1>0, <1>1, CutOver
  <1>3. run'[j].at \in {"prune images", "report"} /\ run'[j].cutover /\ SameRun(j) /\ OthersSame(j)
    <2>1. CASE At(j, "prune archives")
      <3>1. run' = [run EXCEPT ![j].at = "prune images", ![j].pruned = DOMAIN archives' # DOMAIN archives]
        BY <2>1 DEF PruneArchives, PruneImages, At, Untagged, HoldsLock
      <3> QED BY <1>0, <1>1, <3>1 DEF RunsTyped, RunState, SameRun, OthersSame, Install, Target
    <2>2. CASE At(j, "prune images")
      <3>1. run' = [run EXCEPT ![j].at = "report", ![j].pruned = @ \/ images' # images]
        BY <2>2 DEF PruneArchives, PruneImages, At, Untagged, HoldsLock
      <3> QED BY <1>0, <1>1, <3>1 DEF RunsTyped, RunState, SameRun, OthersSame, Install, Target
    <2> QED BY <1>0, <2>1, <2>2 DEF At
  <1>4. /\ j \in DOMAIN archives => j \in DOMAIN archives' /\ archives'[j] = archives[j]
        /\ images \cap Protected(j) \subseteq images'
    BY DEF PruneArchives, PruneImages, Untagged, HoldsLock
  <1>5. app.image \in images' /\ state.candidate \in images' /\ compose \in images' /\ run[j].before \in images'
    BY <1>1, <1>2, <1>4 DEF Protected, Moved, Way
  <1>6. World' BY <1>0, <1>2, <1>5 DEF World, Serves, Intact
  <1>7. Moved(j)'
    <2>1. ~Install(j) => archives'[j] = archives[j] BY <1>2, <1>4 DEF Way
    <2>2. app = [image |-> Target(j), up |-> TRUE] /\ state = [candidate |-> Target(j), previous |-> run[j].before]
      BY <1>0, <1>1 DEF Moved
    <2> QED BY <1>0, <1>1, <1>3, <1>5, <2>1, <2>2 DEF Moved, SameRun, Intact
  <1>8. Way(j)' BY <1>2, <1>3, <1>4, <1>5 DEF Way, SameRun
  <1> QED BY <1>0, <1>1, <1>2, <1>3, <1>6, <1>7, <1>8, CutStep

(* A run that leaves.                                                      *)
LEMMA EndStep ==
    ASSUME UpdateInv, UpdateTyped', NEW j \in Runs, lock = j, UNCHANGED lock, NEW outcome, Ends(j, outcome),
           World', Resumable', Succeeded(j)',
           run[j].cutover => Way(j)'
    PROVE  UpdateInv'
  <1>1. /\ run'[j].at = "leaving" /\ run'[j].outcome = outcome /\ OthersSame(j)
        /\ run'[j].cutover = run[j].cutover
    BY EndsKeeps DEF UpdateInv, UpdateTyped, RunsTyped
  <1>2. Holds(j)' /\ WayBack(j)' BY <1>1 DEF Holds, Uncut, Cut, WayBack, At
  <1> QED BY <1>1, <1>2, OwnStep

LEMMA InvReport ==
    ASSUME UpdateInv, UpdateTyped', NEW j \in Runs, Report(j)
    PROVE  UpdateInv'
  <1>0. RunsTyped /\ run[j].at = "report" /\ UNCHANGED <<lock, world>> /\ Ends(j, "updated")
    BY DEF UpdateInv, UpdateTyped, RunsTyped, Report, At
  <1>1. run[j].cutover /\ Moved(j) BY <1>0, Owner DEF Holds, Cut
  <1>2. lock = j /\ Way(j) /\ Serves /\ app.image \in images /\ state.candidate \in images
    BY <1>0, <1>1, CutOver
  <1>3. /\ app = [image |-> Target(j), up |-> TRUE] /\ state.candidate = Target(j)
        /\ compose = Target(j) /\ Intact /\ data.schema = app.image
    BY <1>0, <1>1, <1>2 DEF Moved, Serves
  <1>4. SameRun(j) /\ run'[j].outcome = "updated" BY <1>0, EndsKeeps
  <1>5. World' BY <1>0, <1>2 DEF world, World, Serves, Intact
  <1>6. Resumable' BY <1>0, <1>1 DEF world, Resumable, Intact, Moved
  <1>7. Succeeded(j)' BY <1>0, <1>3, <1>4 DEF world, Succeeded, SameRun
  <1>8. Way(j)' BY <1>0, <1>2, <1>4 DEF world, Way, SameRun
  <1> QED BY <1>0, <1>2, <1>5, <1>6, <1>7, <1>8, EndStep
-----------------------------------------------------------------------------
(* Failure and recovery                                                    *)
LEMMA InvFails ==
    ASSUME UpdateInv, UpdateTyped', NEW j \in Runs, Fails(j)
    PROVE  UpdateInv'
  <1>0. RunsTyped /\ run[j].at \in BeforeTransaction \cup InTransaction /\ UNCHANGED <<lock, world>>
    BY DEF UpdateInv, UpdateTyped, RunsTyped, Fails, BeforeTransaction, InTransaction
  <1>1. lock = j /\ World /\ Holds(j) /\ run[j].cutover \in BOOLEAN
    BY <1>0, Owner DEF BeforeTransaction, InTransaction
  <1>2. World' BY <1>0, <1>1 DEF world, World, Serves, Intact
  <1>3. CASE run[j].at \in BeforeTransaction
    <2>1. Ends(j, "failed") BY <1>3 DEF Fails, BeforeTransaction, InTransaction
    <2>2. Resumable /\ ~run[j].cutover
      <3>1. CASE run[j].at = "preflight" BY <1>1, <3>1 DEF Holds, Uncut
      <3>2. CASE run[j].at \in {"operational", "restart"} BY <1>1, <3>2 DEF Holds, Uncut, Unmoved, Resumable
      <3> QED BY <1>3, <3>1, <3>2 DEF BeforeTransaction
    <2>3. Resumable' BY <1>0, <2>2 DEF world, Resumable, Intact
    <2>4. Succeeded(j)'
      <3>1. run'[j].outcome = "failed" BY <1>0, <2>1, EndsKeeps
      <3> QED BY <3>1 DEF Succeeded
    <2> QED BY <1>0, <1>1, <1>2, <2>1, <2>2, <2>3, <2>4, EndStep
  <1>4. CASE run[j].at \in InTransaction
    <2>1. /\ run'[j].at = (IF run[j].at \in {"stop", "archive"} THEN "restore" ELSE "recover")
          /\ run'[j].cutover = run[j].cutover /\ SameRun(j) /\ OthersSame(j)
      BY <1>0, <1>4, GoesKeeps DEF Fails, BeforeTransaction, InTransaction
    <2>2. CASE run[j].at \in {"build", "receipt", "smoke", "stop", "archive", "archived", "cutover"}
      <3>1. Unmoved(j) /\ ~run[j].cutover BY <1>1, <2>2 DEF Holds, Uncut
      <3>2. Unmoved(j)' BY <1>0, <2>1, <2>2, <3>1 DEF world, Unmoved, SameRun, Intact
      <3> QED BY <1>0, <1>1, <1>2, <2>1, <2>2, <3>1, <3>2, UncutStep DEF Uncut
    <2>3. CASE run[j].at \in {"up", "verify", "prune archives", "prune images", "report"}
      <3>1. Moved(j) /\ run[j].cutover BY <1>1, <2>3 DEF Holds, Cut
      <3>2. Way(j) BY <1>0, <2>3, <3>1, CutOver
      <3>3. Moved(j)' BY <1>0, <2>1, <2>3, <3>1 DEF world, Moved, SameRun, Intact
      <3>4. Way(j)' BY <1>0, <2>1, <3>2 DEF world, Way, SameRun
      <3> QED BY <1>0, <1>1, <1>2, <2>1, <2>3, <3>1, <3>3, <3>4, CutStep
    <2> QED BY <1>4, <2>2, <2>3 DEF InTransaction
  <1> QED BY <1>0, <1>3, <1>4

LEMMA InvPreserve ==
    ASSUME UpdateInv, UpdateTyped', NEW j \in Runs,
           RestartsAfterArchive(j) \/ Preserve(j) \/ CheckOriginal(j)
    PROVE  UpdateInv'
  <1>0. /\ RunsTyped /\ run[j].at \in {"restore", "recover", "check original"}
        /\ run[j].at = "recover" => ~run[j].cutover
        /\ UNCHANGED <<lock, compose, state, archives, images, receipts, accepted>>
    BY DEF UpdateInv, UpdateTyped, RunsTyped, RestartsAfterArchive, Preserve, CheckOriginal, At, world, RestartOriginal
  <1>1. lock = j /\ World /\ Unmoved(j) /\ ~run[j].cutover /\ app.image \in Releases
    BY <1>0, Owner DEF Holds, Uncut
  <1>2. /\ Serves /\ app.image \in images /\ state.candidate \in images
        /\ Intact /\ data.schema <= app.image /\ app.image = run[j].before
        /\ compose = run[j].before /\ state.candidate = run[j].before
    BY <1>1 DEF World, Unmoved
  <1>3. Serves' /\ Intact' /\ app'.image = app.image /\ data'.schema <= app'.image
    <2>1. CASE UNCHANGED <<app, data>> BY <1>0, <1>2, <2>1 DEF Serves, Intact
    <2>2. CASE ComesUp(app.image)
      <3>1. app'.image = app.image /\ data'.schema = app.image /\ Intact' /\ Serves'
        BY <1>0, <1>1, <1>2, <2>2, ComesUpServes DEF UpdateInv
      <3> QED BY <1>1, <3>1 DEF Releases
    <2> QED BY <2>1, <2>2 DEF RestartsAfterArchive, Preserve, CheckOriginal, world, RestartOriginal
  <1>4. World' /\ Resumable' BY <1>0, <1>2, <1>3 DEF World, Resumable
  <1>5. ASSUME NEW there \in {"recover", "check original"}, Goes(j, there) PROVE UpdateInv'
    <2>1. run'[j].at = there /\ run'[j].cutover = run[j].cutover /\ SameRun(j) /\ OthersSame(j)
      BY <1>0, <1>5, GoesKeeps
    <2>2. Unmoved(j)' BY <1>0, <1>1, <1>2, <1>3, <2>1 DEF Unmoved, SameRun
    <2> QED BY <1>0, <1>1, <1>4, <2>1, <2>2, UncutStep DEF Uncut
  <1>6. ASSUME NEW outcome \in {"operator-required", "original-preserved"}, Ends(j, outcome),
               outcome = "original-preserved" => app' = [image |-> run[j].before, up |-> TRUE]
        PROVE  UpdateInv'
    <2>1. SameRun(j) /\ run'[j].outcome = outcome BY <1>0, <1>6, EndsKeeps
    <2>2. Succeeded(j)'
      <3>1. CASE outcome = "operator-required" BY <2>1, <3>1 DEF Succeeded
      <3>2. CASE outcome = "original-preserved"
        <4>1. app'.up /\ data'.schema = app'.image BY <1>3, <1>6, <3>2 DEF Serves
        <4>2. app'.image = compose' /\ app'.image = state'.candidate /\ app'.image = run'[j].before
          BY <1>0, <1>2, <1>3, <2>1 DEF SameRun
        <4> QED BY <2>1, <3>2, <4>1, <4>2 DEF Succeeded
      <3> QED BY <3>1, <3>2
    <2> QED BY <1>0, <1>1, <1>4, <1>6, <2>2, EndStep
  <1> QED BY <1>5, <1>6 DEF RestartsAfterArchive, Preserve, CheckOriginal, world, RestartOriginal
LEMMA InvStopCandidate ==
    ASSUME UpdateInv, UpdateTyped', NEW j \in Runs, StopCandidate(j)
    PROVE  UpdateInv'
  <1>0. /\ RunsTyped /\ run[j].at = "recover" /\ run[j].cutover
        /\ UNCHANGED <<lock, compose, state, data, archives, images, receipts, accepted>>
    BY DEF UpdateInv, UpdateTyped, RunsTyped, StopCandidate, At
  <1>1. Moved(j) BY <1>0, Owner DEF Holds
  <1>2. lock = j /\ Way(j) /\ Serves /\ app.image \in images /\ state.candidate \in images
    BY <1>0, CutOver
  <1>3. app'.image = app.image /\ (app'.up => app.up)
    BY DEF StopCandidate, UpdateInv, UpdateTyped
  <1>4. World' BY <1>0, <1>2, <1>3 DEF World, Serves, Intact
  <1>5. CASE Ends(j, "operator-required")
    <2>1. Resumable' BY <1>0, <1>1, <1>3 DEF Resumable, Moved, Intact
    <2>2. run'[j].outcome = "operator-required" /\ SameRun(j) BY <1>0, <1>5, EndsKeeps
    <2>3. Succeeded(j)' BY <2>2 DEF Succeeded
    <2>4. Way(j)' BY <1>0, <1>2, <2>2 DEF Way, SameRun
    <2> QED BY <1>0, <1>2, <1>4, <1>5, <2>1, <2>3, <2>4, EndStep
  <1>6. CASE app' = [app EXCEPT !.up = FALSE] /\ Goes(j, IF Install(j) THEN "files" ELSE "database")
    <2>1. /\ run'[j].at = (IF Install(j) THEN "files" ELSE "database")
          /\ run'[j].cutover = run[j].cutover /\ SameRun(j) /\ OthersSame(j)
      BY <1>0, <1>6, GoesKeeps
    <2>2. Way(j)' BY <1>0, <1>2, <2>1 DEF Way, SameRun
    <2>3. ~app'.up BY <1>6 DEF UpdateInv, UpdateTyped
    <2>4. CASE Install(j)
      <3>1. Target(j) = run[j].before BY <2>4 DEF Target
      <3>2. run[j].before \in Nat BY <1>0, Owner DEF Releases
      <3>3. Restored(j)'
        BY <1>0, <1>1, <1>3, <2>1, <2>3, <2>4, <3>1, <3>2 DEF Moved, Restored, SameRun, Intact
      <3>4. Holds(j)' /\ Succeeded(j)' /\ WayBack(j)'
        BY <1>0, <2>1, <2>2, <2>4, <3>3 DEF Holds, Uncut, Cut, Succeeded, WayBack, At
      <3> QED BY <1>0, <1>2, <1>4, <2>1, <2>4, <3>4, OwnStep
    <2>5. CASE ~Install(j)
      <3>1. Moved(j)' BY <1>0, <1>1, <1>3, <2>1, <2>3, <2>5 DEF Moved, SameRun, Intact
      <3> QED BY <1>0, <1>2, <1>4, <2>1, <2>2, <2>5, <3>1, CutStep
    <2> QED BY <2>4, <2>5
  <1> QED BY <1>5, <1>6 DEF StopCandidate

(* A step of the recovery whose data are those of the release before.      *)
LEMMA BackStep ==
    ASSUME UpdateInv, UpdateTyped', NEW j \in Runs, lock = j, UNCHANGED lock, run'[j].cutover,
           run'[j].at \in {"files", "up again", "check rollback", "stranded"},
           OthersSame(j), World', Restored(j)', Way(j)'
    PROVE  UpdateInv'
  <1>1. Holds(j)' /\ Succeeded(j)' /\ WayBack(j)' BY DEF Holds, Uncut, Cut, Succeeded, WayBack, At
  <1> QED BY <1>1, OwnStep

LEMMA InvRestoreDatabase ==
    ASSUME UpdateInv, UpdateTyped', NEW j \in Runs, RestoreDatabase(j)
    PROVE  UpdateInv'
  <1>0. /\ RunsTyped /\ run[j].at = "database"
        /\ UNCHANGED <<lock, app, compose, state, archives, images, receipts>>
    BY DEF UpdateInv, UpdateTyped, RunsTyped, RestoreDatabase, At, VerifyArchive
  <1>1. Moved(j) /\ run[j].cutover BY <1>0, Owner DEF Holds, Cut
  <1>2. /\ lock = j /\ Way(j) /\ app.image \in images /\ state.candidate \in images
        /\ run[j].before \in Releases
    BY <1>0, <1>1, CutOver
  <1>3. ~Install(j) /\ ~app.up /\ Target(j) = run[j].target BY <1>0, <1>1 DEF Moved, Target
  <1>4. World' BY <1>0, <1>2, <1>3 DEF World, Serves
  <1>5. CASE data' \in {data, NoData} /\ Ends(j, "operator-required") /\ UNCHANGED accepted
    <2>1. Resumable' BY <1>0, <1>1, <1>5 DEF Resumable, Moved, Intact
    <2>2. run'[j].outcome = "operator-required" /\ SameRun(j) BY <1>0, <1>5, EndsKeeps
    <2>3. Succeeded(j)' BY <2>2 DEF Succeeded
    <2>4. Way(j)' BY <1>0, <1>2, <2>2 DEF Way, SameRun
    <2> QED BY <1>0, <1>2, <1>4, <1>5, <2>1, <2>3, <2>4, EndStep
  <1>6. CASE /\ j \in DOMAIN archives /\ data' = archives[j] /\ Goes(j, "files")
             /\ accepted' = [r \in Releases |-> IF r = run[j].target THEN archives[j].content[r]
                                                ELSE accepted[r]]
    <2>1. run'[j].at = "files" /\ run'[j].cutover = run[j].cutover /\ SameRun(j) /\ OthersSame(j)
      BY <1>0, <1>6, GoesKeeps
    <2>2. Way(j)' BY <1>0, <1>2, <2>1 DEF Way, SameRun
    <2>3. Intact'
      <3>1. archives[j].content \in [Releases -> Nat] /\ archives[j] # NoData
        BY <1>1, <1>3, <1>6 DEF Moved, UpdateInv, UpdateTyped, Data, Contents
      <3>2. \A r \in Releases : accepted'[r] = archives[j].content[r] BY <1>1, <1>3, <1>6 DEF Moved
      <3>3. accepted' \in [Releases -> Nat] BY DEF UpdateTyped, Contents
      <3>4. accepted' = archives[j].content BY <3>1, <3>2, <3>3
      <3> QED BY <1>6, <3>1, <3>4 DEF Intact
    <2>4. data'.schema <= run[j].before BY <1>1, <1>3, <1>6 DEF Moved
    <2>5. run[j].before <= Target(j)
      <3>1. run[j].before < run[j].target /\ run[j].before \in Int /\ run[j].target \in Int
        BY <1>0, <1>1, <1>3 DEF Moved, RunsTyped, RunState, Releases
      <3> QED BY <1>3, <3>1
    <2>6. Restored(j)'
      BY <1>0, <1>1, <1>3, <2>1, <2>3, <2>4, <2>5 DEF Moved, Restored, SameRun
    <2> QED BY <1>0, <1>1, <1>2, <1>4, <2>1, <2>2, <2>6, BackStep
  <1> QED BY <1>5, <1>6 DEF RestoreDatabase, VerifyArchive

LEMMA InvRestoreFiles ==
    ASSUME UpdateInv, UpdateTyped', NEW j \in Runs, RestoreFiles(j)
    PROVE  UpdateInv'
  <1>0. /\ RunsTyped /\ run[j].at = "files"
        /\ UNCHANGED <<lock, app, data, archives, images, receipts, accepted>>
    BY DEF UpdateInv, UpdateTyped, RunsTyped, RestoreFiles, At
  <1>1. Restored(j) /\ run[j].cutover BY <1>0, Owner DEF Holds, Cut
  <1>2. /\ lock = j /\ Way(j) /\ app.image \in images /\ state.candidate \in images
        /\ run[j].before \in Releases /\ Target(j) \in Releases /\ Serves
    BY <1>0, <1>1, CutOver
  <1>3. CASE Ends(j, "operator-required") /\ UNCHANGED state
    <2>1. data.schema \in Int BY DEF UpdateInv, UpdateTyped, Data, Releases, None
    <2>2. data.schema <= app.image
      <3>1. /\ data.schema <= run[j].before /\ run[j].before <= Target(j)
            /\ app.image \in {run[j].before, Target(j)}
        BY <1>1 DEF Restored
      <3>2. run[j].before \in Int /\ Target(j) \in Int BY <1>2 DEF Releases
      <3> QED BY <2>1, <3>1, <3>2
    <2>3. Resumable' /\ World' BY <1>0, <1>1, <1>2, <1>3, <2>2 DEF Resumable, Restored, World, Serves, Intact
    <2>4. run'[j].outcome = "operator-required" /\ SameRun(j) BY <1>0, <1>3, EndsKeeps
    <2>5. Succeeded(j)' BY <2>4 DEF Succeeded
    <2>6. Way(j)' BY <1>0, <1>2, <2>4 DEF Way, SameRun
    <2> QED BY <1>0, <1>2, <1>3, <2>3, <2>5, <2>6, EndStep
  <1>4. CASE compose' = run[j].before /\ state' = run[j].state /\ Goes(j, "up again")
    <2>1. run'[j].at = "up again" /\ run'[j].cutover = run[j].cutover /\ SameRun(j) /\ OthersSame(j)
      BY <1>0, <1>4, GoesKeeps
    <2>2. Way(j)' BY <1>0, <1>2, <2>1 DEF Way, SameRun
    <2>3. run[j].state.candidate = run[j].before BY <1>0, <1>1 DEF Restored
    <2>4. World' BY <1>0, <1>2, <1>4, <2>3 DEF World, Serves, Intact, Way
    <2>5. Restored(j)' BY <1>0, <1>1, <1>4, <2>1, <2>3 DEF Restored, SameRun, Intact
    <2> QED BY <1>0, <1>1, <1>2, <2>1, <2>2, <2>4, <2>5, BackStep
  <1> QED BY <1>3, <1>4 DEF RestoreFiles

LEMMA InvUpAgain ==
    ASSUME UpdateInv, UpdateTyped', NEW j \in Runs, UpAgain(j)
    PROVE  UpdateInv'
  <1>0. /\ RunsTyped /\ run[j].at = "up again"
        /\ UNCHANGED <<lock, compose, state, archives, images, receipts, accepted>>
    BY DEF UpdateInv, UpdateTyped, RunsTyped, UpAgain, At
  <1>1. Restored(j) /\ run[j].cutover BY <1>0, Owner DEF Holds, Cut
  <1>2. /\ lock = j /\ Way(j) /\ app.image \in images /\ state.candidate \in images /\ Serves
        /\ run[j].before \in Releases
    BY <1>0, <1>1, CutOver
  <1>3. compose = run[j].before /\ Intact /\ data.schema <= compose /\ compose \in images
    BY <1>0, <1>1, <1>2 DEF Restored, Way
  <1>4. /\ run'[j].at \in {"check rollback", "stranded"} /\ run'[j].cutover /\ SameRun(j) /\ OthersSame(j)
    BY <1>0, <1>1, GoesKeeps DEF UpAgain, Reconcile
  <1>5. Serves' /\ Intact' /\ app'.image \in {app.image, compose} /\ data'.schema <= compose
        /\ (app'.up => app'.image = compose)
    <2>1. CASE UNCHANGED <<app, data>>
      BY <1>0, <1>1, <1>2, <1>3, <2>1 DEF Restored, Serves, Intact
    <2>2. CASE app' = [image |-> compose, up |-> FALSE] /\ UNCHANGED data
      BY <1>0, <1>3, <2>2 DEF Serves, Intact
    <2>3. CASE ComesUp(compose)
      <3>1. app'.image = compose /\ data'.schema = compose /\ Intact' /\ Serves'
        BY <1>0, <1>2, <1>3, <2>3, ComesUpServes DEF UpdateInv
      <3> QED BY <1>2, <1>3, <3>1 DEF Releases
    <2> QED BY <2>1, <2>2, <2>3 DEF UpAgain, Reconcile
  <1>6. World' BY <1>0, <1>2, <1>3, <1>5 DEF World
  <1>7. Restored(j)' BY <1>0, <1>1, <1>3, <1>4, <1>5 DEF Restored, SameRun
  <1>8. Way(j)' BY <1>0, <1>2, <1>4 DEF Way, SameRun
  <1> QED BY <1>0, <1>2, <1>4, <1>6, <1>7, <1>8, BackStep

LEMMA InvCheckRollback ==
    ASSUME UpdateInv, UpdateTyped', NEW j \in Runs, CheckRollback(j)
    PROVE  UpdateInv'
  <1>0. /\ RunsTyped /\ run[j].at \in {"check rollback", "stranded"} /\ UNCHANGED <<lock, world>>
    BY DEF UpdateInv, UpdateTyped, RunsTyped, CheckRollback, At
  <1>1. Restored(j) /\ run[j].cutover BY <1>0, Owner DEF Holds, Cut
  <1>2. /\ lock = j /\ Way(j) /\ app.image \in images /\ state.candidate \in images /\ Serves
        /\ run[j].before \in Releases /\ Target(j) \in Releases
    BY <1>0, <1>1, CutOver
  <1>3. World' BY <1>0, <1>2 DEF world, World, Serves, Intact
  <1>4. /\ compose = run[j].before /\ state.candidate = run[j].before /\ Intact
        /\ data.schema <= run[j].before
    BY <1>0, <1>1 DEF Restored
  <1>5. Resumable' BY <1>0, <1>4 DEF world, Resumable, Intact
  <1>6. PICK outcome \in {"rolled-back", "operator-required"} :
            /\ Ends(j, outcome)
            /\ outcome = "rolled-back" => app = [image |-> run[j].before, up |-> TRUE]
    BY DEF CheckRollback
  <1>7. SameRun(j) /\ run'[j].outcome = outcome BY <1>0, <1>6, EndsKeeps
  <1>8. Succeeded(j)'
    <2>1. CASE outcome = "operator-required" BY <1>7, <2>1 DEF Succeeded
    <2>2. CASE outcome = "rolled-back"
      <3>1. app.up /\ app.image = run[j].before /\ data.schema = app.image
        BY <1>2, <1>6, <2>2 DEF Serves
      <3> QED BY <1>0, <1>4, <1>7, <2>2, <3>1 DEF world, Succeeded, SameRun
    <2> QED BY <2>1, <2>2
  <1>9. Way(j)' BY <1>0, <1>2, <1>7 DEF world, Way, SameRun
  <1> QED BY <1>0, <1>2, <1>3, <1>5, <1>6, <1>8, <1>9, EndStep

LEMMA InvKilled ==
    ASSUME UpdateInv, UpdateTyped', NEW j \in Runs, Killed(j)
    PROVE  UpdateInv'
  <1>0. RunsTyped /\ run[j].at \notin {"start", "over"} /\ UNCHANGED <<lock, world>>
    BY DEF UpdateInv, UpdateTyped, RunsTyped, Killed
  <1>1. lock = j /\ World /\ run[j].cutover \in BOOLEAN BY <1>0, Owner
  <1>2. run'[j].at = "over" /\ run'[j].cutover = run[j].cutover /\ SameRun(j) /\ OthersSame(j)
    BY <1>0 DEF Killed, RunsTyped, RunState, SameRun, OthersSame, Install, Target
  <1>3. World' BY <1>0, <1>1 DEF world, World, Serves, Intact
  <1>4. WayBack(j)'
    <2>1. run[j].cutover => Way(j) BY <1>0, CutOver
    <2> QED BY <1>0, <1>2, <2>1 DEF world, WayBack, Way, SameRun
  <1>5. Holds(j)' /\ Succeeded(j)' BY <1>2 DEF Holds, Uncut, Cut, Succeeded, At
  <1> QED BY <1>0, <1>1, <1>2, <1>3, <1>4, <1>5, OwnStep

LEMMA InvUserWrites ==
    ASSUME UpdateInv, UpdateTyped', UserWrites
    PROVE  UpdateInv'
  <1>1. /\ app.up /\ Intact /\ data.schema = app.image /\ app.image \in Releases
        /\ data \in Data /\ accepted \in [Releases -> Nat]
        /\ UNCHANGED <<lock, run, app, compose, state, archives, images, receipts>>
    BY DEF UserWrites, UpdateInv, World, Serves, UpdateTyped, Contents
  <1>2. data'.schema = data.schema /\ data'.content = [data.content EXCEPT ![app.image] = @ + 1]
        /\ accepted' = [accepted EXCEPT ![app.image] = @ + 1]
    BY <1>1 DEF UserWrites, Data
  <1>3. Intact'
    <2>1. data' # NoData BY <1>1, <1>2, UpdateAssumption DEF NoData, Releases
    <2> QED BY <1>1, <1>2, <2>1 DEF Intact
  <1>4. Serves' /\ World' BY <1>1, <1>2, <1>3 DEF UpdateInv, World, Serves
  <1>5. Resumable' BY <1>1, <1>2, <1>3 DEF Resumable, Releases
  <1>6. ASSUME NEW j \in Runs PROVE Holds(j)' /\ Succeeded(j)' /\ WayBack(j)'
    <2> USE DEF At, Install, Target
    <2>1. Unmoved(j) => Unmoved(j)' BY <1>1, <1>2, <1>3 DEF Unmoved
    <2>2. Moved(j) => Moved(j)'
      <3>1. ASSUME Moved(j), ~Install(j), NEW r \in Releases, r # run[j].target
            PROVE  archives[j].content[r] = accepted'[r]
        BY <1>1, <1>2, <3>1 DEF Moved
      <3> QED BY <1>1, <1>2, <1>3, <3>1 DEF Moved
    <2>3. Restored(j) => Restored(j)' BY <1>1, <1>2, <1>3 DEF Restored
    <2>4. Holds(j)' BY <1>1, <1>5, <2>1, <2>2, <2>3 DEF UpdateInv, Holds
    <2>5. Succeeded(j)' BY <1>1, <1>2 DEF UpdateInv, Succeeded
    <2>6. WayBack(j)' BY <1>1 DEF UpdateInv, WayBack, Way
    <2> QED BY <2>4, <2>5, <2>6
  <1>7. Locked' BY <1>1 DEF UpdateInv, Locked
  <1> QED BY <1>4, <1>5, <1>6, <1>7 DEF UpdateInv

-----------------------------------------------------------------------------
LEMMA InvInit == UpdateInit => UpdateInv
  <1> SUFFICES ASSUME UpdateInit PROVE UpdateInv OBVIOUS
  <1>0. 0 \in Releases /\ None \notin Releases BY UpdateAssumption DEF Releases, None
  <1>1. UpdateTyped
    <2>1. state \in Records /\ [r \in Releases |-> 0] \in Contents BY <1>0 DEF UpdateInit, Records, Contents
    <2>2. \A j \in Runs : run[j] \in RunState
      BY <1>0, <2>1 DEF UpdateInit, Idle, RunState, Stages, Endings
    <2>3. run \in [Runs -> RunState] BY <2>2 DEF UpdateInit
    <2>4. data \in Data /\ archives \in [DOMAIN archives -> Data] /\ DOMAIN archives \subseteq Runs
      BY <1>0, <2>1 DEF UpdateInit, Data
    <2> QED BY <1>0, <2>1, <2>3, <2>4 DEF UpdateInit, UpdateTyped
  <1>2. World /\ Resumable BY <1>0 DEF UpdateInit, World, Serves, Resumable, Intact, NoData
  <1>3. Locked BY UpdateAssumption DEF UpdateInit, Locked, Idle
  <1>4. \A j \in Runs : Holds(j) /\ Succeeded(j) /\ WayBack(j)
    BY DEF UpdateInit, Idle, Holds, Uncut, Cut, Succeeded, WayBack, At
  <1> QED BY <1>1, <1>2, <1>3, <1>4 DEF UpdateInv

LEMMA InvNext == UpdateInv /\ [UpdateNext]_updateVars => UpdateInv'
  <1> SUFFICES ASSUME UpdateInv, [UpdateNext]_updateVars PROVE UpdateInv' OBVIOUS
  <1>1. UpdateTyped' BY TypedNext DEF UpdateInv
  <1>2. CASE UNCHANGED updateVars
    <2>1. UNCHANGED <<lock, world>> /\ \A j \in Runs : run'[j] = run[j] BY <1>2 DEF updateVars
    <2>2. \A j \in Runs : Holds(j)' /\ Succeeded(j)' /\ WayBack(j)' BY <2>1, SameWorld DEF UpdateInv
    <2>3. World' /\ Locked' /\ (lock' = Nobody => Resumable')
      BY <2>1 DEF world, UpdateInv, World, Serves, Locked, Resumable, Intact
    <2> QED BY <1>1, <2>2, <2>3 DEF UpdateInv
  <1>3. ASSUME NEW j \in Runs, Deploy(j) PROVE UpdateInv' BY <1>1, <1>3, InvDeploy
  <1>4. ASSUME NEW j \in Runs, Transaction(j) PROVE UpdateInv'
    BY <1>1, <1>4, InvPrepare, InvCutover, InvUp, InvSave, InvPrune, InvReport DEF Transaction, EnforceRetention
  <1>5. ASSUME NEW j \in Runs, Recovery(j) PROVE UpdateInv'
    BY <1>1, <1>5, InvPreserve, InvStopCandidate, InvRestoreDatabase, InvRestoreFiles, InvUpAgain,
       InvCheckRollback DEF Recovery
  <1>6. ASSUME NEW j \in Runs, Fails(j) \/ Killed(j) PROVE UpdateInv' BY <1>1, <1>6, InvFails, InvKilled
  <1>7. CASE UserWrites BY <1>1, <1>7, InvUserWrites
  <1> QED BY <1>2, <1>3, <1>4, <1>5, <1>6, <1>7 DEF UpdateNext

(* The inductive invariant: how far each stage of a run has moved the      *)
(* files, the container, the record and the data.                          *)
THEOREM UpdateInvariance == UpdateSpec => []UpdateInv
  <1> QED BY InvInit, InvNext, PTL DEF UpdateSpec

(* No release runs on data of a later one, no answered write is lost, a    *)
(* run that reports success has left one and the same release everywhere,  *)
(* and what a rollback needs is kept: for any number of runs, releases and *)
(* writes, and wherever the runs fail or are killed.                       *)
THEOREM UpdateIsSafe == UpdateSpec => []UpdateSafe
  <1>1. UpdateInv => UpdateSafe
    <2> SUFFICES ASSUME UpdateInv PROVE UpdateSafe OBVIOUS
    <2>1. CodeFitsData
      <3>1. app.image \in Nat BY DEF UpdateInv, UpdateTyped, Releases
      <3> QED BY <3>1 DEF UpdateInv, World, Serves, CodeFitsData
    <2>2. NothingLost BY DEF UpdateInv, World, Serves, Intact, NothingLost
    <2>3. OutcomeHolds BY DEF UpdateInv, Succeeded, OutcomeHolds
    <2>4. RollbackKept BY DEF UpdateInv, WayBack, Way, RollbackKept
    <2> QED BY <2>1, <2>2, <2>3, <2>4 DEF UpdateSafe
  <1> QED BY <1>1, UpdateInvariance, PTL
=============================================================================
