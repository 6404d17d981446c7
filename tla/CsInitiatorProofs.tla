-------------------------- MODULE CsInitiatorProofs --------------------------
(***************************************************************************)
(* Proofs about the parts of Channel Sounding on SS2 beside its buffer: a  *)
(* session, for any peers, any distances and every size of the window; the *)
(* report of a procedure, for any steps; and the parts together.           *)
(***************************************************************************)
EXTENDS CsInitiator, CsRangingProofs

----------------------------------------------------------------------------
(* The chain of the set-up. *)

Reached(stages) == stage \in stages \cup {"ranging"}

(* What each stage of the chain leaves behind for the peer of this link. *)
FeaturesKnown ==
    Reached({"capabilities", "configuration", "security", "enable"}) =>
        /\ ras_feature_bits = peer.realtime
        /\ subscriptions = IF peer.realtime THEN {"realtime"} ELSE FirstSubscriptions(4)
RttNegotiated ==
    Reached({"configuration", "security", "enable"}) => negotiated_rtt_type = RttType(peer)
Configured == Reached({"security", "enable"}) => cs_config = RttType(peer)
IntervalSet ==
    Reached({"enable"}) => procedure_interval = IF peer.realtime THEN 5 ELSE 10

SettingTypes ==
    /\ peer \in Peers /\ stage \in Stages
    /\ ras_feature_bits \in BOOLEAN
    /\ negotiated_rtt_type \in RttTypes /\ cs_config \in RttTypes \cup {Nothing}
    /\ procedure_interval \in {0, 5, 10}
ChainInv == SettingTypes /\ FeaturesKnown /\ RttNegotiated /\ Configured /\ IntervalSet

LEMMA PeerTypes ==
    ASSUME NEW p \in Peers
    PROVE  p.realtime \in BOOLEAN /\ p.sounding \in BOOLEAN /\ p.random \in BOOLEAN
  BY SessionAssumption

LEMMA ChainInit == SessionInit => ChainInv
  BY DEF SessionInit, ChainInv, SettingTypes, FeaturesKnown, RttNegotiated, Configured, IntervalSet,
         Reached, Stages, RttTypes

LEMMA ChainNext == ChainInv /\ [SessionNext]_sessionVars => ChainInv'
<1> SUFFICES ASSUME ChainInv, [SessionNext]_sessionVars PROVE ChainInv'
  OBVIOUS
<1> USE DEF ChainInv, SettingTypes, FeaturesKnown, RttNegotiated, Configured, IntervalSet, Reached,
        Stages, RttTypes, Request, settingVars, linkVars
<1>1. ASSUME NEW p \in Peers, CsInitiatorStart(p) PROVE ChainInv'
  BY <1>1 DEF CsInitiatorStart
<1>2. CASE LinkLost
  BY <1>2 DEF LinkLost
<1>3. CASE RasDmCompleted
  BY <1>3 DEF RasDmCompleted
<1>4. CASE RasFeaturesRead
  <2>1. PICK made \in {{"realtime"}} \cup {FirstSubscriptions(n) : n \in 0..4} :
          /\ subscriptions' = made /\ ras_feature_bits' = peer.realtime
          /\ \/ Subscribed(made) /\ stage' \in {"capabilities", "idle"}
             \/ stage' = "idle"
    BY <1>4 DEF RasFeaturesRead
  <2>2. Subscribed(made) =>
          subscriptions' = IF peer.realtime THEN {"realtime"} ELSE FirstSubscriptions(4)
    BY <2>1 DEF Subscribed
  <2>3. UNCHANGED <<peer, negotiated_rtt_type, cs_config, procedure_interval>>
    BY <1>4 DEF RasFeaturesRead
  <2> QED BY <2>1, <2>2, <2>3, PeerTypes
<1>5. CASE RemoteCapabilities
  BY <1>5, PeerTypes DEF RemoteCapabilities, RttType
<1>6. CASE ConfigCreated
  BY <1>6 DEF ConfigCreated
<1>7. CASE SecurityEnabled
  BY <1>7 DEF SecurityEnabled, DesiredInterval
<1>8. CASE ProcedureEnabled
  BY <1>8 DEF ProcedureEnabled
<1>9. CASE StageFails
  BY <1>9 DEF StageFails
<1>10. ASSUME NEW estimate \in Distances \cup {NaN}, ProcedureParsed(estimate) PROVE ChainInv'
  BY <1>10 DEF ProcedureParsed
<1>11. CASE UNCHANGED sessionVars
  BY <1>11, ZenonT(60) DEF sessionVars
<1> QED BY <1>1, <1>2, <1>3, <1>4, <1>5, <1>6, <1>7, <1>8, <1>9, <1>10, <1>11 DEF SessionNext

LEMMA ChainInvariant == SessionSpec => []ChainInv
  BY ChainInit, ChainNext, PTL DEF SessionSpec

(* Procedures only run with everything set up for the peer of this link, however
   many links and peers there were before. *)
THEOREM EquippedCorrect == SessionSpec => []RangingIsEquipped
<1>1. ChainInv => RangingIsEquipped
  BY PeerTypes
     DEF ChainInv, SettingTypes, FeaturesKnown, RttNegotiated, Configured, IntervalSet, Reached,
         RangingIsEquipped, RttType
<1> QED BY <1>1, ChainInvariant, PTL

----------------------------------------------------------------------------
(* The order of a window's values. *)

WindowType(w) ==
    /\ w.estimates \in [Places -> Int]
    /\ w.num_valid \in 0..DE_SLIDING_WINDOW_SIZE

LEMMA FinitePlacesFinite ==
    ASSUME NEW w, WindowType(w)
    PROVE  /\ IsFiniteSet(FinitePlaces(w)) /\ Count(w) \in Nat
           /\ \A k \in FinitePlaces(w) : k \in Nat /\ k \in Places /\ w.estimates[k] \in Int
<1>1. FinitePlaces(w) \subseteq Places
  BY SessionAssumption DEF FinitePlaces, WindowType, Places
<1>2. IsFiniteSet(Places)
  BY FS_Interval, SessionAssumption DEF Places
<1>3. IsFiniteSet(FinitePlaces(w)) /\ Count(w) \in Nat
  BY <1>1, <1>2, FS_Subset, FS_CardinalityType DEF Count
<1> QED BY <1>1, <1>3, SessionAssumption DEF WindowType, Places

(* It is a strict and total order of the places. *)
LEMMA BeforeIsOrder ==
    ASSUME NEW w, WindowType(w),
           NEW i \in FinitePlaces(w), NEW j \in FinitePlaces(w), NEW k \in FinitePlaces(w)
    PROVE  /\ ~Before(w, i, i)
           /\ Before(w, i, j) /\ Before(w, j, k) => Before(w, i, k)
           /\ i = j \/ Before(w, i, j) \/ Before(w, j, i)
  BY FinitePlacesFinite DEF Before

Predecessors(w, k) == {j \in FinitePlaces(w) : Before(w, j, k)}

LEMMA RankType ==
    ASSUME NEW w, WindowType(w), NEW k \in FinitePlaces(w)
    PROVE  /\ IsFiniteSet(Predecessors(w, k)) /\ Rank(w, k) = Cardinality(Predecessors(w, k))
           /\ Rank(w, k) \in 0..(Count(w) - 1)
<1>1. Predecessors(w, k) \in SUBSET FinitePlaces(w) /\ k \notin Predecessors(w, k)
  BY BeforeIsOrder DEF Predecessors
<1>2. /\ IsFiniteSet(Predecessors(w, k)) /\ Cardinality(Predecessors(w, k)) <= Count(w)
      /\ Cardinality(Predecessors(w, k)) # Count(w)
  BY <1>1, FinitePlacesFinite, FS_Subset DEF Count
<1>3. Cardinality(Predecessors(w, k)) \in Nat
  BY <1>2, FS_CardinalityType
<1> QED BY <1>2, <1>3, FinitePlacesFinite DEF Rank, Predecessors

(* A place before another has the lower rank, so no rank comes twice. *)
LEMMA RankIncreases ==
    ASSUME NEW w, WindowType(w), NEW j \in FinitePlaces(w), NEW k \in FinitePlaces(w),
           Before(w, j, k)
    PROVE  Rank(w, j) < Rank(w, k)
<1>1. Predecessors(w, j) \in SUBSET Predecessors(w, k)
  BY BeforeIsOrder DEF Predecessors
<1>2. j \in Predecessors(w, k) /\ j \notin Predecessors(w, j)
  BY BeforeIsOrder DEF Predecessors
<1>3. /\ Cardinality(Predecessors(w, j)) <= Cardinality(Predecessors(w, k))
      /\ Cardinality(Predecessors(w, j)) # Cardinality(Predecessors(w, k))
  BY <1>1, <1>2, RankType, FS_Subset
<1> QED BY <1>3, RankType

(* Every rank below the number of places is somebody's: the values can be
   sorted. *)
LEMMA RankIsTaken ==
    ASSUME NEW w, WindowType(w), NEW n \in 0..(Count(w) - 1)
    PROVE  \E k \in FinitePlaces(w) : Rank(w, k) = n
<1> DEFINE ranks == 0..(Count(w) - 1)
           rank == [k \in FinitePlaces(w) |-> Rank(w, k)]
<1>1. rank \in [FinitePlaces(w) -> ranks]
  BY RankType
<1>2. \A j, k \in FinitePlaces(w) : rank[j] = rank[k] => j = k
  <2> SUFFICES ASSUME NEW j \in FinitePlaces(w), NEW k \in FinitePlaces(w), j # k
               PROVE  Rank(w, j) # Rank(w, k)
    OBVIOUS
  <2>1. Before(w, j, k) \/ Before(w, k, j)
    BY BeforeIsOrder
  <2>2. Rank(w, j) \in Int /\ Rank(w, k) \in Int
    BY RankType
  <2> QED BY <2>1, <2>2, RankIncreases
<1>3. IsFiniteSet(ranks) /\ Cardinality(ranks) = Count(w)
  BY FinitePlacesFinite, FS_Interval
<1> HIDE DEF ranks, rank
<1>4. rank \in Injection(FinitePlaces(w), ranks)
  BY <1>1, <1>2 DEF Injection, IsInjective
<1>5. rank \in Surjection(FinitePlaces(w), ranks)
  BY <1>3, <1>4, FS_Injection DEF Count
<1>6. PICK k \in FinitePlaces(w) : rank[k] = n
  BY <1>5 DEF Surjection, ranks
<1> QED BY <1>6 DEF rank

LEMMA SortedHasRank ==
    ASSUME NEW w, WindowType(w), NEW n \in 0..(Count(w) - 1)
    PROVE  \E k \in FinitePlaces(w) : Rank(w, k) = n /\ Sorted(w, n) = w.estimates[k]
  BY RankIsTaken DEF Sorted

----------------------------------------------------------------------------
(* The median. *)

Inside(w, low, high) == {k \in FinitePlaces(w) : w.estimates[k] \in low..high}

(* With most values inside a range, so is one with about as many before as after
   it: otherwise all those inside are on the same side of it. *)
LEMMA MiddleIsInside ==
    ASSUME NEW w, WindowType(w), NEW low \in Int, NEW high \in Int,
           2 * Cardinality(Inside(w, low, high)) > Count(w),
           NEW n \in 0..(Count(w) - 1), 2 * n <= Count(w), 2 * (n + 1) >= Count(w)
    PROVE  Sorted(w, n) \in low..high
<1>1. PICK k \in FinitePlaces(w) : Rank(w, k) = n /\ Sorted(w, n) = w.estimates[k]
  BY SortedHasRank
<1>2. /\ IsFiniteSet(FinitePlaces(w)) /\ Count(w) \in Nat /\ w.estimates[k] \in Int
      /\ \A j \in FinitePlaces(w) : w.estimates[j] \in Int
  BY FinitePlacesFinite
<1>3. IsFiniteSet(Predecessors(w, k)) /\ Cardinality(Predecessors(w, k)) = n
  BY <1>1, RankType
<1>4. Inside(w, low, high) \in SUBSET FinitePlaces(w)
  BY DEF Inside
<1>5. IsFiniteSet(Inside(w, low, high)) /\ Cardinality(Inside(w, low, high)) \in Nat
  BY <1>2, <1>4, FS_Subset, FS_CardinalityType
<1>6. CASE w.estimates[k] < low
  <2> DEFINE rest == FinitePlaces(w) \ Predecessors(w, k)
  <2>1. Inside(w, low, high) \in SUBSET (rest \ {k})
    BY <1>2, <1>6 DEF Inside, Predecessors, Before
  <2>2. k \in rest
    BY BeforeIsOrder DEF Predecessors
  <2>3. FinitePlaces(w) \cap Predecessors(w, k) = Predecessors(w, k)
    BY DEF Predecessors
  <2>4. IsFiniteSet(rest) /\ Cardinality(rest) = Count(w) - n
    BY <1>2, <1>3, <2>3, FS_Difference DEF Count
  <2> HIDE DEF rest
  <2>5. IsFiniteSet(rest \ {k}) /\ Cardinality(rest \ {k}) = Count(w) - n - 1
    BY <2>2, <2>4, FS_RemoveElement
  <2>6. Cardinality(Inside(w, low, high)) <= Count(w) - n - 1
    BY <2>1, <2>5, FS_Subset
  <2> QED BY <1>2, <1>5, <2>6
<1>7. CASE w.estimates[k] > high
  <2>1. Inside(w, low, high) \in SUBSET Predecessors(w, k)
    BY <1>2, <1>7 DEF Inside, Predecessors, Before
  <2>2. Cardinality(Inside(w, low, high)) <= n
    BY <1>3, <2>1, FS_Subset
  <2> QED BY <1>2, <1>5, <2>2
<1> QED BY <1>1, <1>2, <1>6, <1>7

(* So is the median, the middle one or the mean of the two middle ones. *)
LEMMA MedianIsInside ==
    ASSUME NEW w, WindowType(w), NEW low \in Int, NEW high \in Int,
           2 * Cardinality(Inside(w, low, high)) > Count(w)
    PROVE  Median(w) \in low..high
<1> DEFINE n == Count(w)
           m == Count(w) \div 2
<1>1. n \in Nat
  BY FinitePlacesFinite
<1>2. n # 0
  <2>1. Inside(w, low, high) \in SUBSET FinitePlaces(w) /\ IsFiniteSet(FinitePlaces(w))
    BY FinitePlacesFinite DEF Inside
  <2>2. Cardinality(Inside(w, low, high)) \in Nat /\ Cardinality(Inside(w, low, high)) <= n
    BY <2>1, FS_Subset, FS_CardinalityType DEF Count
  <2> QED BY <1>1, <2>2
<1>3. /\ m \in 0..(n - 1)
      /\ n % 2 = 0 => n = 2 * m /\ m - 1 \in 0..(n - 1)
      /\ n % 2 # 0 => n = 2 * m + 1
  BY <1>1, <1>2
<1>4. m \in 0..(Count(w) - 1) /\ 2 * m <= Count(w) /\ 2 * (m + 1) >= Count(w)
  BY <1>1, <1>3
<1>5. Sorted(w, m) \in low..high
  BY <1>4, MiddleIsInside
<1>6. CASE n % 2 = 0
  <2>1. m - 1 \in 0..(Count(w) - 1) /\ 2 * (m - 1) <= Count(w) /\ 2 * ((m - 1) + 1) >= Count(w)
    BY <1>1, <1>3, <1>6
  <2>2. Sorted(w, m - 1) \in low..high
    BY <2>1, MiddleIsInside
  <2>3. \A a, b \in low..high : (a + b) \div 2 \in low..high
    OBVIOUS
  <2>4. Median(w) = (Sorted(w, m) + Sorted(w, m - 1)) \div 2
    BY <1>2, <1>6 DEF Median
  <2> QED BY <1>5, <2>2, <2>3, <2>4
<1>7. CASE n % 2 # 0
  <2>1. Median(w) = Sorted(w, m)
    BY <1>2, <1>7 DEF Median
  <2> QED BY <1>5, <2>1
<1> QED BY <1>6, <1>7

(* It is a number that may be shown, if there is one. *)
LEMMA MedianType ==
    ASSUME NEW w, WindowType(w), \A k \in FinitePlaces(w) : w.estimates[k] \in Distances
    PROVE  Median(w) \in Nat \cup {NaN}
<1> DEFINE n == Count(w)
           m == Count(w) \div 2
<1>1. CASE n = 0
  BY <1>1 DEF Median
<1>2. CASE n # 0
  <2>1. n \in Nat
    BY FinitePlacesFinite
  <2>2. m \in 0..(n - 1) /\ (n % 2 = 0 => m - 1 \in 0..(n - 1))
    BY <1>2, <2>1
  <2>3. \A j \in 0..(n - 1) : Sorted(w, j) \in Distances
    BY SortedHasRank
  <2>4. \A d \in Distances : d \in Nat /\ (d + d) \div 2 = d
    BY SessionAssumption
  <2>5. Median(w) = IF n % 2 = 0 THEN (Sorted(w, m) + Sorted(w, m - 1)) \div 2 ELSE Sorted(w, m)
    BY <1>2 DEF Median
  <2>6. \A a, b \in Distances : (a + b) \div 2 \in Nat
    BY SessionAssumption
  <2>7. CASE n % 2 = 0
    BY <2>2, <2>3, <2>5, <2>6, <2>7
  <2>8. CASE n % 2 # 0
    <3>1. Sorted(w, m) \in Distances
      BY <2>2, <2>3
    <3>2. Sorted(w, m) \in Nat
      BY <2>4, <3>1
    <3> QED BY <2>5, <2>8, <3>2
  <2> QED BY <2>7, <2>8
<1> QED BY <1>1, <1>2

----------------------------------------------------------------------------
(* The window and the smoothed distance. *)

Windows ==
    [estimates : [Places -> Distances \cup {NaN, 0}], num_valid : 0..DE_SLIDING_WINDOW_SIZE,
     index : Places]

(* The window fills up from its beginning. *)
Filled ==
    /\ \A k \in 0..(window.num_valid - 1) : window.estimates[k] \in Distances \cup {NaN}
    /\ window.num_valid < DE_SLIDING_WINDOW_SIZE => window.index = window.num_valid
Smoothed ==
    /\ smoothed_distance_valid \in BOOLEAN /\ smoothed_distance_m \in Nat
    /\ \/ medians = <<>>
       \/ Len(medians) = 2 /\ medians[1] \in Nat /\ medians[2] \in Nat
          /\ medians[1] <= medians[2]

(* The average is valid only since the first median of the link. *)
ValidSinceMedian == stage # "no link" /\ smoothed_distance_valid => medians # <<>>

(* How many estimates ago a place was written, if all were; a place has one of
   this link's if they were that many. *)
Behind(k) ==
    IF k < window.index THEN window.index - k ELSE window.index + DE_SLIDING_WINDOW_SIZE - k
OwnAreLast ==
    /\ own \in SUBSET Places /\ taken \in 0..DE_SLIDING_WINDOW_SIZE
    /\ \A k \in Places : k \in own <=> Behind(k) <= taken

DistanceInv == /\ stage \in Stages
               /\ window \in Windows
               /\ Filled
               /\ Smoothed
               /\ ValidSinceMedian
               /\ SmoothedWithinMedians
               /\ OwnAreLast

(* A window of the program is one the lemmas are about. *)
LEMMA WindowsAreTyped ==
    ASSUME NEW w \in Windows,
           \A k \in 0..(w.num_valid - 1) : w.estimates[k] \in Distances \cup {NaN}
    PROVE  WindowType(w) /\ \A k \in FinitePlaces(w) : w.estimates[k] \in Distances
<1>1. Distances \cup {NaN, 0} \subseteq Int
  BY SessionAssumption DEF NaN
<1>2. WindowType(w)
  BY <1>1 DEF Windows, WindowType
<1> QED BY <1>2 DEF FinitePlaces

LEMMA DistanceInit == SessionInit => DistanceInv
<1> SUFFICES ASSUME SessionInit PROVE DistanceInv
  OBVIOUS
<1> DEFINE zeros == [k \in Places |-> 0]
<1>1. window = [estimates |-> zeros, num_valid |-> 0, index |-> 0]
  BY DEF SessionInit
<1>2. 0 \in Places /\ 0 \in 0..DE_SLIDING_WINDOW_SIZE
  BY SessionAssumption DEF Places
<1>3. zeros \in [Places -> Distances \cup {NaN, 0}]
  OBVIOUS
<1> HIDE DEF zeros
<1>4. window.estimates = zeros /\ window.num_valid = 0 /\ window.index = 0
  BY <1>1
<1>5. window \in Windows
  BY <1>1, <1>2, <1>3 DEF Windows
<1>6. Filled
  BY <1>4 DEF Filled
<1>7. smoothed_distance_valid = FALSE /\ smoothed_distance_m = 0 /\ medians = <<>>
      /\ stage = "no link"
  BY DEF SessionInit
<1>8. smoothed_distance_valid \in BOOLEAN
  BY <1>7, Zenon
<1>9. Smoothed
  BY <1>7, <1>8 DEF Smoothed
<1>10. SmoothedWithinMedians /\ stage \in Stages
  BY <1>7 DEF SmoothedWithinMedians, Stages
<1>11. ValidSinceMedian
  BY <1>7, Zenon DEF ValidSinceMedian
<1>12. OwnAreLast
  <2>1. own = {} /\ taken = 0
    BY DEF SessionInit
  <2>2. \A k \in Places : Behind(k) = DE_SLIDING_WINDOW_SIZE - k
    BY <1>4, SessionAssumption DEF Behind, Places
  <2> QED BY <1>2, <2>1, <2>2, SessionAssumption DEF OwnAreLast, Places
<1> QED BY <1>5, <1>6, <1>9, <1>10, <1>11, <1>12 DEF DistanceInv

LEMMA NextPlace ==
    ASSUME NEW n \in Nat \ {0}, NEW k \in 0..(n - 1)
    PROVE  (k + 1) % n = IF k + 1 = n THEN 0 ELSE k + 1
<1>1. CASE k + 1 = n
  <2>1. n % n = 0
    OBVIOUS
  <2> QED BY <1>1, <2>1
<1>2. CASE k + 1 # n
  <2>1. k + 1 \in 0..(n - 1)
    BY <1>2
  <2>2. \A a \in 0..(n - 1) : a % n = a
    OBVIOUS
  <2> QED BY <1>2, <2>1, <2>2
<1> QED BY <1>1, <1>2

(* The average, rounded down or up, lies between the old one and the median. *)
LEMMA AverageIsBetween ==
    ASSUME NEW old \in Nat, NEW d \in Nat, NEW x \in MovingAverage(old, d)
    PROVE  x \in Nat /\ (old <= x \/ d <= x) /\ (x <= old \/ x <= d)
<1>1. \A sum \in Nat : \A y \in {sum \div 20, (sum + 19) \div 20} :
        y \in Nat /\ sum - 19 <= 20 * y /\ 20 * y <= sum + 19
  OBVIOUS
<1>2. 17 * old + 3 * d \in Nat
  OBVIOUS
<1>3. x \in Nat /\ (17 * old + 3 * d) - 19 <= 20 * x /\ 20 * x <= (17 * old + 3 * d) + 19
  BY <1>1, <1>2 DEF MovingAverage
<1>4. old <= d => 20 * old <= 17 * old + 3 * d /\ 17 * old + 3 * d <= 20 * d
  OBVIOUS
<1>5. d <= old => 20 * d <= 17 * old + 3 * d /\ 17 * old + 3 * d <= 20 * old
  OBVIOUS
<1> QED BY <1>3, <1>4, <1>5

(* A median widens the range of the medians, and holds what lay in it. *)
LEMMA RangeWidens ==
    ASSUME NEW low \in Nat, NEW high \in Nat, low <= high, NEW d \in Nat
    PROVE  /\ Least(low, d) \in Nat /\ Greatest(high, d) \in Nat
           /\ Least(low, d) <= Greatest(high, d)
           /\ d \in Least(low, d)..Greatest(high, d)
           /\ \A m \in low..high : MovingAverage(m, d) \subseteq Least(low, d)..Greatest(high, d)
<1>1. /\ Least(low, d) \in Nat /\ Greatest(high, d) \in Nat
      /\ Least(low, d) <= d /\ d <= Greatest(high, d)
      /\ Least(low, d) <= low /\ high <= Greatest(high, d)
  BY DEF Least, Greatest
<1>2. ASSUME NEW m \in low..high, NEW x \in MovingAverage(m, d)
      PROVE  x \in Least(low, d)..Greatest(high, d)
  <2>1. m \in Nat
    OBVIOUS
  <2>2. x \in Nat /\ (m <= x \/ d <= x) /\ (x <= m \/ x <= d)
    BY <2>1, AverageIsBetween
  <2> QED BY <1>1, <2>2
<1> QED BY <1>1, <1>2

(* store_distance_estimates_in_buffer() *)
LEMMA StoreStep ==
    ASSUME DistanceInv, NEW estimate \in Distances \cup {NaN}, Store(estimate)
    PROVE  window' \in Windows /\ Filled'
<1> USE SessionAssumption DEF Places
<1>1. /\ window.estimates \in [Places -> Distances \cup {NaN, 0}] /\ window.index \in Places
      /\ window.num_valid \in 0..DE_SLIDING_WINDOW_SIZE
  BY DEF DistanceInv, Windows
<1>2. (window.index + 1) % DE_SLIDING_WINDOW_SIZE =
        IF window.index + 1 = DE_SLIDING_WINDOW_SIZE THEN 0 ELSE window.index + 1
  BY <1>1, NextPlace
<1>3. /\ window'.estimates = [window.estimates EXCEPT ![window.index] = estimate]
      /\ window'.num_valid = IF window.num_valid < DE_SLIDING_WINDOW_SIZE
                             THEN window.num_valid + 1 ELSE window.num_valid
      /\ window'.index = IF window.index + 1 = DE_SLIDING_WINDOW_SIZE THEN 0 ELSE window.index + 1
      /\ window' = [estimates |-> window'.estimates, num_valid |-> window'.num_valid,
                    index |-> window'.index]
  BY <1>2 DEF Store
<1>4. window' \in Windows
  <2>1. window'.estimates \in [Places -> Distances \cup {NaN, 0}]
    BY <1>1, <1>3
  <2>2. window'.num_valid \in 0..DE_SLIDING_WINDOW_SIZE /\ window'.index \in Places
    BY <1>1, <1>3
  <2> QED BY <1>3, <2>1, <2>2 DEF Windows
<1>5. Filled'
  <2>1. ASSUME NEW k \in 0..(window'.num_valid - 1)
        PROVE  window'.estimates[k] \in Distances \cup {NaN}
    <3>1. CASE k = window.index
      BY <1>1, <1>3, <3>1
    <3>2. CASE k # window.index
      <4>1. k \in Places /\ k \in 0..(window.num_valid - 1)
        BY <1>1, <1>3, <3>2 DEF DistanceInv, Filled
      <4> QED BY <1>1, <1>3, <3>2, <4>1 DEF DistanceInv, Filled
    <3> QED BY <3>1, <3>2
  <2>2. window'.num_valid < DE_SLIDING_WINDOW_SIZE => window'.index = window'.num_valid
    BY <1>1, <1>3 DEF DistanceInv, Filled
  <2> QED BY <2>1, <2>2 DEF Filled
<1> QED BY <1>4, <1>5

(* The new estimate takes the place that was written longest ago. *)
LEMMA OwnStep ==
    ASSUME DistanceInv, NEW estimate, Store(estimate), Take
    PROVE  OwnAreLast'
<1> USE SessionAssumption DEF Places
<1> DEFINE size == DE_SLIDING_WINDOW_SIZE
           x == window.index
<1>1. x \in 0..(size - 1) /\ size \in Nat \ {0}
  BY DEF DistanceInv, Windows
<1>2. window'.index = IF x + 1 = size THEN 0 ELSE x + 1
  BY <1>1, NextPlace DEF Store
<1>3. own' = own \cup {x} /\ taken' = IF taken < size THEN taken + 1 ELSE taken
  BY DEF Take
<1>4. own \in SUBSET (0..(size - 1)) /\ taken \in 0..size
      /\ \A k \in 0..(size - 1) : k \in own <=> Behind(k) <= taken
  BY DEF DistanceInv, OwnAreLast
<1>5. \A k \in 0..(size - 1) : Behind(k) = IF k < x THEN x - k ELSE x + size - k
  BY DEF Behind
<1>6. \A k \in 0..(size - 1) :
        Behind(k)' = IF k < window'.index THEN window'.index - k ELSE window'.index + size - k
  BY DEF Behind
<1> HIDE DEF size, x
<1>7. ASSUME NEW k \in 0..(size - 1) PROVE Behind(k)' = IF k = x THEN 1 ELSE Behind(k) + 1
  BY <1>1, <1>2, <1>5, <1>6
<1>8. \A k \in 0..(size - 1) : Behind(k) \in 1..size /\ (k # x => Behind(k) < size)
  BY <1>1, <1>5
<1>9. ASSUME NEW k \in 0..(size - 1) PROVE k \in own' <=> Behind(k)' <= taken'
  <2>1. taken' \in 1..size
    BY <1>1, <1>3, <1>4
  <2>2. CASE k = x
    BY <1>3, <1>7, <2>1, <2>2
  <2>3. CASE k # x
    <3>1. k \in own' <=> Behind(k) <= taken
      BY <1>3, <1>4, <2>3
    <3> QED BY <1>1, <1>3, <1>4, <1>7, <1>8, <2>3, <3>1
  <2> QED BY <2>2, <2>3
<1>10. own' \in SUBSET (0..(size - 1)) /\ taken' \in 0..size
  BY <1>1, <1>3, <1>4
<1> QED BY <1>9, <1>10 DEF OwnAreLast, size

(* distance_estimate_print() *)
LEMMA SmoothStep ==
    ASSUME DistanceInv, stage = "ranging", stage' = stage, NEW d \in Nat \cup {NaN}, Smooth(d)
    PROVE  Smoothed' /\ ValidSinceMedian' /\ SmoothedWithinMedians'
<1> USE SessionAssumption DEF NaN
<1>1. CASE d = NaN
  BY <1>1 DEF Smooth, DistanceInv, Smoothed, ValidSinceMedian, SmoothedWithinMedians
<1>2. CASE d # NaN
  <2>1. d \in Nat
    BY <1>2
  <2>2. smoothed_distance_valid' = TRUE
    BY <1>2 DEF Smooth
  <2>3. smoothed_distance_valid' \in BOOLEAN /\ smoothed_distance_valid'
    BY <2>2, Zenon
  <2>4. CASE medians = <<>>
    <3>1. medians' = <<d, d>>
      BY <1>2, <2>4 DEF Smooth
    <3>2. ~smoothed_distance_valid
      BY <2>4 DEF DistanceInv, ValidSinceMedian
    <3>3. smoothed_distance_m' = d
      BY <1>2, <3>2 DEF Smooth
    <3>4. Len(medians') = 2 /\ medians' # <<>> /\ medians'[1] = d /\ medians'[2] = d
      BY <3>1
    <3> QED BY <2>1, <2>3, <3>3, <3>4 DEF Smoothed, ValidSinceMedian, SmoothedWithinMedians
  <2>5. CASE medians # <<>>
    <3> DEFINE low == medians[1]
               high == medians[2]
    <3>1. low \in Nat /\ high \in Nat /\ low <= high
      BY <2>5 DEF DistanceInv, Smoothed
    <3>2. medians' = <<Least(low, d), Greatest(high, d)>>
      BY <1>2, <2>5 DEF Smooth
    <3>3. smoothed_distance_valid /\ smoothed_distance_m \in low..high
      BY <2>5 DEF DistanceInv, SmoothedWithinMedians
    <3>4. smoothed_distance_m' \in MovingAverage(smoothed_distance_m, d)
      BY <1>2, <3>3 DEF Smooth
    <3> HIDE DEF low, high
    <3>5. /\ Least(low, d) \in Nat /\ Greatest(high, d) \in Nat
          /\ Least(low, d) <= Greatest(high, d)
          /\ \A m \in low..high : MovingAverage(m, d) \subseteq Least(low, d)..Greatest(high, d)
      BY <2>1, <3>1, RangeWidens
    <3>6. smoothed_distance_m' \in Least(low, d)..Greatest(high, d)
      BY <3>3, <3>4, <3>5
    <3>7. smoothed_distance_m' \in Nat
      BY <3>5, <3>6
    <3>8. /\ Len(medians') = 2 /\ medians' # <<>>
          /\ medians'[1] = Least(low, d) /\ medians'[2] = Greatest(high, d)
      BY <3>2
    <3>9. Smoothed'
      BY <2>3, <3>5, <3>7, <3>8 DEF Smoothed
    <3>10. SmoothedWithinMedians' /\ ValidSinceMedian'
      BY <2>3, <3>6, <3>8 DEF SmoothedWithinMedians, ValidSinceMedian
    <3> QED BY <3>9, <3>10
  <2> QED BY <2>4, <2>5
<1> QED BY <1>1, <1>2

LEMMA DistanceNext == DistanceInv /\ [SessionNext]_sessionVars => DistanceInv'
<1> SUFFICES ASSUME DistanceInv, [SessionNext]_sessionVars PROVE DistanceInv'
  OBVIOUS
<1>1. ASSUME NEW estimate \in Distances \cup {NaN}, ProcedureParsed(estimate) PROVE DistanceInv'
  <2>1. stage = "ranging" /\ stage' = stage /\ Store(estimate) /\ Take /\ Smooth(Median(window'))
    BY <1>1 DEF ProcedureParsed
  <2>2. window' \in Windows /\ Filled'
    BY <2>1, StoreStep
  <2>3. Median(window') \in Nat \cup {NaN}
    BY <2>2, WindowsAreTyped, MedianType DEF Filled
  <2>4. Smoothed' /\ ValidSinceMedian' /\ SmoothedWithinMedians'
    BY <2>1, <2>3, SmoothStep
  <2>5. OwnAreLast'
    BY <2>1, OwnStep
  <2> QED BY <2>1, <2>2, <2>4, <2>5 DEF DistanceInv
<1>2. ASSUME stage' \in Stages, UNCHANGED distanceVars, stage' = "no link" \/ stage # "no link"
      PROVE  DistanceInv'
  BY <1>2 DEF distanceVars, DistanceInv, Filled, Smoothed, ValidSinceMedian, SmoothedWithinMedians,
              OwnAreLast, Behind
<1> USE DEF Stages, Request
<1>3. ASSUME NEW p \in Peers, CsInitiatorStart(p) PROVE DistanceInv'
  <2>1. /\ stage' \in {"discovery", "idle"} /\ UNCHANGED <<window, smoothed_distance_m>>
        /\ smoothed_distance_valid' = FALSE /\ medians' = <<>> /\ own' = {} /\ taken' = 0
    BY <1>3 DEF CsInitiatorStart, ForgetSmoothed
  <2>2. smoothed_distance_valid' \in BOOLEAN /\ ~smoothed_distance_valid'
    BY <2>1, Zenon
  <2>3. OwnAreLast'
    <3>1. \A k \in Places : Behind(k)' = Behind(k)
      BY <2>1 DEF Behind
    <3>2. window.index \in Places
      BY DEF DistanceInv, Windows
    <3>3. \A k \in Places : Behind(k) \in Nat \ {0}
      <4> SUFFICES ASSUME NEW k \in Places PROVE Behind(k) \in Nat \ {0}
        OBVIOUS
      <4> DEFINE i == window.index
      <4>1. i \in Int /\ i >= 0 /\ k \in Int /\ k < DE_SLIDING_WINDOW_SIZE
        BY <3>2, SessionAssumption DEF Places
      <4>2. Behind(k) = IF k < i THEN i - k ELSE i + DE_SLIDING_WINDOW_SIZE - k
        BY DEF Behind
      <4> HIDE DEF i
      <4> QED BY <4>1, <4>2, SessionAssumption
    <3> QED BY <2>1, <3>1, <3>3, SessionAssumption DEF OwnAreLast
  <2>4. Smoothed' /\ ValidSinceMedian' /\ SmoothedWithinMedians'
    BY <2>1, <2>2 DEF DistanceInv, Smoothed, ValidSinceMedian, SmoothedWithinMedians
  <2> QED BY <2>1, <2>3, <2>4 DEF DistanceInv, Filled
<1>4. CASE LinkLost \/ RasDmCompleted \/ StageFails
  BY <1>2, <1>4 DEF LinkLost, RasDmCompleted, StageFails
<1>5. CASE RasFeaturesRead
  <2>1. stage # "no link" /\ stage' \in {"capabilities", "idle"} /\ UNCHANGED distanceVars
    BY <1>5 DEF RasFeaturesRead
  <2> QED BY <1>2, <2>1
<1>6. CASE RemoteCapabilities \/ ConfigCreated \/ SecurityEnabled \/ ProcedureEnabled
  BY <1>2, <1>6 DEF RemoteCapabilities, ConfigCreated, SecurityEnabled, ProcedureEnabled
<1>7. CASE UNCHANGED sessionVars
  BY <1>2, <1>7 DEF sessionVars, distanceVars, DistanceInv, Filled, Smoothed, ValidSinceMedian,
                    SmoothedWithinMedians, OwnAreLast, Behind
<1> QED BY <1>1, <1>3, <1>4, <1>5, <1>6, <1>7 DEF SessionNext

LEMMA DistanceInvariant == SessionSpec => []DistanceInv
  BY DistanceInit, DistanceNext, PTL DEF SessionSpec

(* The distance is robust, for every size of the window and all distances: most
   of the values in the window, wherever they are, bound the median; from the
   first median of a link on, the moving average stays within its medians; and
   after one window of estimates none of an earlier link is left in it. *)
THEOREM DistanceCorrect == SessionSpec => []DistanceIsRobust
<1>1. DistanceInv => OutliersRejected
  <2> SUFFICES ASSUME DistanceInv, NEW low \in Distances, NEW high \in Distances,
                      2 * Cardinality(Inside(window, low, high)) > Count(window)
               PROVE  Median(window) \in low..high
    BY DEF OutliersRejected, Inside
  <2>1. WindowType(window)
    BY WindowsAreTyped DEF DistanceInv, Filled
  <2>2. low \in Int /\ high \in Int
    BY SessionAssumption
  <2> QED BY <2>1, <2>2, MedianIsInside
<1>2. DistanceInv => SmoothedWithinMedians
  BY DEF DistanceInv
<1>3. DistanceInv => WindowIsRenewed
  <2>1. DistanceInv => \A k \in Places : Behind(k) <= DE_SLIDING_WINDOW_SIZE
    BY SessionAssumption DEF DistanceInv, Windows, Behind, Places
  <2> QED BY <2>1 DEF DistanceInv, OwnAreLast, WindowIsRenewed
<1> QED BY <1>1, <1>2, <1>3, DistanceInvariant, PTL DEF DistanceIsRobust

(* Every variable keeps its type: the settings, and the window's index and
   count. *)
THEOREM SessionTypeCorrect == SessionSpec => []SessionTypeOK
<1>1. ChainInv /\ DistanceInv => SessionTypeOK
  BY DEF ChainInv, SettingTypes, DistanceInv, Windows, Smoothed, OwnAreLast, SessionTypeOK
<1> QED BY <1>1, ChainInvariant, DistanceInvariant, PTL

----------------------------------------------------------------------------
(* The report of a procedure. *)

StepsInv == StepsTypeOK /\ TonesAreGenuine /\ TimesAreGenuine

LEMMA StepNumbers ==
    ASSUME StepsTypeOK
    PROVE  /\ IsFiniteSet(StepNo) /\ Cardinality(StepNo) = Len(processed)
           /\ Len(processed) \in Nat /\ \A k \in StepNo : StepOf(k) \in StepPairs
<1>1. Len(processed) \in Nat /\ 0 \in Int /\ Len(processed) - 1 \in Int
  BY DEF StepsTypeOK
<1>2. IsFiniteSet(StepNo) /\ Cardinality(StepNo) = Len(processed)
  <2>1. /\ IsFiniteSet(0..(Len(processed) - 1))
        /\ Cardinality(0..(Len(processed) - 1))
             = IF 0 > Len(processed) - 1 THEN 0 ELSE (Len(processed) - 1) - 0 + 1
    BY <1>1, FS_Interval
  <2> QED BY <1>1, <2>1 DEF StepNo
<1>3. \A k \in StepNo : StepOf(k) \in StepPairs
  BY <1>1 DEF StepNo, StepOf, StepsTypeOK
<1> QED BY <1>1, <1>2, <1>3

(* What is counted is counted once a step. *)
LEMMA CountsBounded ==
    ASSUME StepsTypeOK, NEW K, K \subseteq StepNo
    PROVE  IsFiniteSet(K) /\ Cardinality(K) \in Nat /\ Cardinality(K) <= Len(processed)
BY StepNumbers, FS_Subset, FS_CardinalityType

(* The mean of one sample more. *)
LEMMA MeanStep ==
    ASSUME NEW avg \in Fractions, NEW m \in Nat, NEW sum \in Int, NEW v \in Int,
           m * avg.num = avg.den * sum
    PROVE  /\ cumulate_mean(avg, v, m + 1) \in Fractions
           /\ (m + 1) * cumulate_mean(avg, v, m + 1).num
                = cumulate_mean(avg, v, m + 1).den * (sum + v)
<1> DEFINE num == avg.num
           den == avg.den
<1>1. num \in Int /\ den \in Nat \ {0}
  BY DEF Fractions
<1>2. cumulate_mean(avg, v, m + 1) = [num |-> v * den + m * num, den |-> (m + 1) * den]
  BY DEF cumulate_mean
<1> HIDE DEF num, den
<1>3. v * den + m * num \in Int /\ (m + 1) * den \in Nat \ {0}
  BY <1>1
<1>4. v * den + m * num = den * (sum + v)
  BY <1>1 DEF num, den
<1>5. (m + 1) * (den * (sum + v)) = ((m + 1) * den) * (sum + v)
  BY <1>1
<1> QED BY <1>2, <1>3, <1>4, <1>5 DEF Fractions

(* The tones extract_pcts() takes of a step for a bin are the usable one, and no
   more. *)
LEMMA SampleIsUsable ==
    ASSUME StepsTypeOK, NEW s \in StepPairs, s.mode \in {2, 3}, NEW b \in Bins
    PROVE  /\ SampleAt(s, b) = {t \in 1..n_ap : UsableTone(s, b, t)}
           /\ \A t, u \in SampleAt(s, b) : t = u
<1>1. /\ IsPermutation(s.permutation) /\ n_ap \in 1..MaxAp /\ MaxAp \in Nat
      /\ \A t \in 1..MaxAp : s.tones[t].high \subseteq BothEnds
  BY StepsAssumption DEF StepsTypeOK
<1>2. \A t \in 1..n_ap : High(s.tones[t]) <=> \A end \in BothEnds : end \in s.tones[t].high
  <2>1. \A t \in 1..n_ap : t \in 1..MaxAp
    BY <1>1
  <2> QED BY <1>1, <2>1 DEF High
<1>3. ASSUME NEW t \in 1..n_ap
      PROVE  /\ antenna_path(s, t) >= 0 <=> Len(s.permutation) = n_ap
             /\ Len(s.permutation) = n_ap => antenna_path(s, t) = s.permutation[t] /\ t \in DOMAIN s.permutation
  BY <1>1 DEF antenna_path, IsPermutation
<1>4. \A t \in 1..n_ap : 1..t \subseteq 1..n_ap
  BY <1>1
<1>5. ASSUME NEW t \in 1..n_ap
      PROVE  t \in Extracted(s) <=>
               /\ Len(s.permutation) = n_ap
               /\ \A u \in 1..t, end \in BothEnds : end \in s.tones[u].high
  <2>1. t \in 1..t
    BY <1>1
  <2> QED BY <1>2, <1>3, <1>4, <2>1 DEF Extracted
<1>6. b = <<b[1], b[2]>>
  BY DEF Bins
<1>7. ASSUME NEW t \in 1..n_ap PROVE t \in SampleAt(s, b) <=> UsableTone(s, b, t)
  BY <1>3, <1>5, <1>6 DEF SampleAt, UsableTone
<1>8. SampleAt(s, b) \subseteq 1..n_ap
  BY DEF SampleAt, Extracted
<1>9. ASSUME NEW t \in 1..n_ap, NEW u \in 1..n_ap, UsableTone(s, b, t), UsableTone(s, b, u)
      PROVE  t = u
  BY <1>1, <1>3, <1>9 DEF UsableTone, IsPermutation
<1> QED BY <1>7, <1>8, <1>9

(* The step after those that were processed; what was counted of them stays. *)
LEMMA NextStepNo ==
    ASSUME StepsTypeOK, NEW s \in StepPairs, process_step_data(s), NEW n, n = Len(processed)
    PROVE  /\ StepNo' = StepNo \cup {n} /\ n \notin StepNo
           /\ Len(processed)' = n + 1 /\ n + 1 <= MaxSteps
           /\ processed' \in Seq(StepPairs) /\ n_ap' = n_ap
           /\ \A k \in StepNo : StepOf(k)' = StepOf(k)
           /\ StepOf(n)' = s
<1>1. processed' = Append(processed, s) /\ processed \in Seq(StepPairs) /\ Len(processed) \in Nat
      /\ Len(processed) < MaxSteps /\ n_ap' = n_ap /\ MaxSteps \in Nat
  BY StepsAssumption DEF process_step_data, StepsTypeOK
<1>2. Len(processed') = Len(processed) + 1 /\ processed' \in Seq(StepPairs)
  BY <1>1
<1>3. StepNo' = StepNo \cup {n} /\ n \notin StepNo
  BY <1>1, <1>2 DEF StepNo
<1>4. \A k \in StepNo : StepOf(k)' = StepOf(k)
  BY <1>1 DEF StepNo, StepOf
<1>5. StepOf(n)' = s
  BY <1>1 DEF StepOf
<1> QED BY <1>1, <1>2, <1>3, <1>4, <1>5

(* A sum over the steps gets the value of the last one. *)
LEMMA NextSum ==
    ASSUME NEW n \in Nat, NEW v, NEW w, \A k \in 0..(n - 1) : w[k] = v[k]
    PROVE  SumOf(w, n + 1) = SumOf(v, n) + w[n]
<1>1. SumOf(v, n) = SumOf(w, n)
  BY SumOfSame
<1> QED BY <1>1, SumOfNext

----------------------------------------------------------------------------
(* One bin in one step. *)

BinInv(b) ==
    /\ m_n_iqs[b] = Cardinality(Usable(b))
    /\ IsMeanOf(i_local[b], m_n_iqs[b], SamplesOf(b, "local"))
    /\ IsMeanOf(i_remote[b], m_n_iqs[b], SamplesOf(b, "remote"))

LEMMA SamplesTyped ==
    ASSUME StepsTypeOK, NEW b \in Bins, NEW end \in BothEnds
    PROVE  /\ \A k \in StepNo : SamplesOf(b, end)[k] \in Int
           /\ SumOf(SamplesOf(b, end), Len(processed)) \in Int
<1>1. ASSUME NEW k \in StepNo PROVE SamplesOf(b, end)[k] \in Int
  <2>1. CASE k \in Usable(b)
    <3> DEFINE t == CHOOSE u \in 1..n_ap : UsableTone(StepOf(k), b, u)
    <3>1. t \in 1..n_ap
      BY <2>1 DEF Usable
    <3>2. t \in 1..MaxAp
      BY <3>1, StepsAssumption DEF StepsTypeOK
    <3>3. StepOf(k).tones[t][end] \in Int
      BY <3>2, StepNumbers, StepsAssumption
    <3> QED BY <2>1, <3>3 DEF SamplesOf, SampleOf
  <2>2. CASE k \notin Usable(b)
    BY <2>2 DEF SamplesOf
  <2> QED BY <2>1, <2>2
<1>2. Len(processed) \in Nat
  BY StepNumbers
<1>3. \A k \in 0..(Len(processed) - 1) : SamplesOf(b, end)[k] \in Int
  BY <1>1 DEF StepNo
<1> QED BY <1>1, <1>2, <1>3, SumOfType

(* The sample of a step depends on the step and the number of paths alone. *)
LEMMA SampleStays ==
    ASSUME n_ap' = n_ap, NEW k, StepOf(k)' = StepOf(k), NEW b, NEW end
    PROVE  SampleOf(StepOf(k), b, end)' = SampleOf(StepOf(k), b, end)
<1> PICK s : s = StepOf(k)
  OBVIOUS
<1>1. (CHOOSE t \in 1..n_ap : UsableTone(s, b, t))' = CHOOSE t \in 1..n_ap : UsableTone(s, b, t)
  BY DEF UsableTone
<1>2. SampleOf(s, b, end)' = SampleOf(s, b, end)
  BY <1>1 DEF SampleOf
<1>3. SampleOf(StepOf(k), b, end)' = SampleOf(s, b, end)'
  BY DEF SampleOf, UsableTone
<1> QED BY <1>2, <1>3

(* A step without a usable sample for a bin leaves it alone. *)
LEMMA NoSampleStep ==
    ASSUME StepsTypeOK, NEW s \in StepPairs, process_step_data(s), NEW b \in Bins,
           \A t \in 1..n_ap : ~UsableTone(s, b, t)
    PROVE  /\ m_n_iqs'[b] = m_n_iqs[b] /\ i_local'[b] = i_local[b] /\ i_remote'[b] = i_remote[b]
           /\ Usable(b)' = Usable(b)
           /\ \A end \in BothEnds :
                SumOf(SamplesOf(b, end), Len(processed))' = SumOf(SamplesOf(b, end), Len(processed))
<1> PICK n : n = Len(processed)
  OBVIOUS
<1>1. /\ m_n_iqs'[b] = m_n_iqs[b] /\ i_local'[b] = i_local[b] /\ i_remote'[b] = i_remote[b]
  <2>1. CASE s.mode \in {2, 3}
    <3>1. SampleAt(s, b) = {}
      BY <2>1, SampleIsUsable
    <3>2. m_n_iqs[b] \in Int
      BY DEF StepsTypeOK
    <3> QED BY <2>1, <3>1, <3>2 DEF process_step_data, extract_pcts, Accumulated
  <2>2. CASE s.mode \notin {2, 3}
    BY <2>2 DEF process_step_data
  <2> QED BY <2>1, <2>2
<1>2. /\ StepNo' = StepNo \cup {n} /\ n \notin StepNo /\ Len(processed)' = n + 1 /\ n_ap' = n_ap
      /\ \A k \in StepNo : StepOf(k)' = StepOf(k)
      /\ StepOf(n)' = s
  BY NextStepNo
<1>3. \A k \in StepNo, t \in 1..n_ap : UsableTone(StepOf(k), b, t)' <=> UsableTone(StepOf(k), b, t)
  BY <1>2 DEF UsableTone
<1>4. \A t \in 1..n_ap : UsableTone(StepOf(n), b, t)' <=> UsableTone(s, b, t)
  BY <1>2 DEF UsableTone
<1>5. Usable(b)' = Usable(b)
  BY <1>2, <1>3, <1>4 DEF Usable
<1>6. ASSUME NEW end \in BothEnds
      PROVE  SumOf(SamplesOf(b, end), Len(processed))' = SumOf(SamplesOf(b, end), Len(processed))
  <2>1. ASSUME NEW k \in StepNo PROVE SamplesOf(b, end)'[k] = SamplesOf(b, end)[k]
    <3>1. SampleOf(StepOf(k), b, end)' = SampleOf(StepOf(k), b, end)
      BY <1>2, SampleStays
    <3> QED BY <1>2, <1>5, <3>1 DEF SamplesOf
  <2>2. SamplesOf(b, end)'[n] = 0
    BY <1>2, <1>5 DEF SamplesOf, Usable
  <2>3. n \in Nat /\ \A k \in 0..(n - 1) : SamplesOf(b, end)'[k] = SamplesOf(b, end)[k]
    BY <2>1, StepNumbers DEF StepNo
  <2>4. SumOf(SamplesOf(b, end)', n + 1) = SumOf(SamplesOf(b, end), n) + SamplesOf(b, end)'[n]
    BY <2>3, NextSum
  <2>5. SumOf(SamplesOf(b, end), n) \in Int
    BY SamplesTyped
  <2>6. SumOf(SamplesOf(b, end)', n + 1) = SumOf(SamplesOf(b, end), n)
    BY <2>2, <2>4, <2>5
  <2> QED BY <2>6, <1>2
<1> QED BY <1>1, <1>5, <1>6

(* A step with a usable sample adds it to the samples and to the mean. *)
LEMMA SampleStep ==
    ASSUME StepsTypeOK, NEW s \in StepPairs, process_step_data(s), NEW b \in Bins, BinInv(b),
           NEW t \in 1..n_ap, UsableTone(s, b, t)
    PROVE  BinInv(b)' /\ i_local'[b] \in Fractions /\ i_remote'[b] \in Fractions
<1> PICK n : n = Len(processed)
  OBVIOUS
<1>1. s.mode \in {2, 3} /\ n \in Nat /\ m_n_iqs[b] \in Nat
  BY StepNumbers DEF UsableTone, StepsTypeOK
<1>2. SampleAt(s, b) = {u \in 1..n_ap : UsableTone(s, b, u)} /\ \A u \in SampleAt(s, b) : u = t
  BY <1>1, SampleIsUsable
<1>3. /\ StepNo' = StepNo \cup {n} /\ n \notin StepNo /\ Len(processed)' = n + 1 /\ n_ap' = n_ap
      /\ \A k \in StepNo : StepOf(k)' = StepOf(k)
      /\ StepOf(n)' = s
  BY NextStepNo
<1>4. (CHOOSE u \in SampleAt(s, b) : TRUE) = t /\ (CHOOSE u \in 1..n_ap : UsableTone(s, b, u)) = t
  BY <1>2
<1>5. \A end \in BothEnds : s.tones[t][end] \in Int
  <2>1. t \in 1..MaxAp
    BY StepsAssumption DEF StepsTypeOK
  <2> QED BY <2>1, StepsAssumption
<1>6. m_n_iqs'[b] = m_n_iqs[b] + 1
  BY <1>1, <1>2 DEF process_step_data, extract_pcts
<1>7. /\ i_local'[b] = cumulate_mean(i_local[b], s.tones[t]["local"], m_n_iqs[b] + 1)
      /\ i_remote'[b] = cumulate_mean(i_remote[b], s.tones[t]["remote"], m_n_iqs[b] + 1)
  BY <1>1, <1>2, <1>4, <1>6 DEF process_step_data, extract_pcts, Accumulated
<1>8. Usable(b)' = Usable(b) \cup {n} /\ n \notin Usable(b)
  <2>1. \A k \in StepNo, u \in 1..n_ap : UsableTone(StepOf(k), b, u)' <=> UsableTone(StepOf(k), b, u)
    BY <1>3 DEF UsableTone
  <2>2. UsableTone(StepOf(n), b, t)' /\ t \in (1..n_ap)'
    BY <1>3 DEF UsableTone
  <2> QED BY <1>3, <2>1, <2>2 DEF Usable
<1>9. m_n_iqs'[b] = Cardinality(Usable(b)')
  <2>1. IsFiniteSet(Usable(b))
    BY CountsBounded DEF Usable
  <2>2. Cardinality(Usable(b) \cup {n}) = Cardinality(Usable(b)) + 1
    BY <1>8, <2>1, FS_AddElement
  <2> QED BY <1>6, <1>8, <2>2 DEF BinInv
<1>10. ASSUME NEW end \in BothEnds
       PROVE  /\ SumOf(SamplesOf(b, end), Len(processed))'
                   = SumOf(SamplesOf(b, end), n) + s.tones[t][end]
              /\ SumOf(SamplesOf(b, end), n) \in Int
  <2>1. ASSUME NEW k \in StepNo PROVE SamplesOf(b, end)'[k] = SamplesOf(b, end)[k]
    <3>1. SampleOf(StepOf(k), b, end)' = SampleOf(StepOf(k), b, end)
      BY <1>3, SampleStays
    <3> QED BY <1>3, <1>8, <3>1 DEF SamplesOf
  <2>2. SamplesOf(b, end)'[n] = s.tones[t][end]
    <3>1. SamplesOf(b, end)'[n] = SampleOf(StepOf(n), b, end)'
      BY <1>3, <1>8 DEF SamplesOf
    <3>2. SampleOf(StepOf(n), b, end)' = SampleOf(s, b, end)'
      BY <1>3 DEF SampleOf, UsableTone
    <3>3. (CHOOSE u \in 1..n_ap : UsableTone(s, b, u))' = CHOOSE u \in 1..n_ap : UsableTone(s, b, u)
      BY <1>3 DEF UsableTone
    <3> QED BY <1>4, <3>1, <3>2, <3>3 DEF SampleOf
  <2>3. \A k \in 0..(n - 1) : SamplesOf(b, end)'[k] = SamplesOf(b, end)[k]
    BY <2>1 DEF StepNo
  <2>4. SumOf(SamplesOf(b, end)', n + 1) = SumOf(SamplesOf(b, end), n) + SamplesOf(b, end)'[n]
    BY <1>1, <2>3, NextSum
  <2>5. SumOf(SamplesOf(b, end), n) \in Int
    BY SamplesTyped
  <2> QED BY <1>3, <2>2, <2>4, <2>5
<1>11. i_local[b] \in Fractions /\ i_remote[b] \in Fractions
  BY DEF StepsTypeOK
<1>12. /\ m_n_iqs[b] * i_local[b].num = i_local[b].den * SumOf(SamplesOf(b, "local"), n)
       /\ m_n_iqs[b] * i_remote[b].num = i_remote[b].den * SumOf(SamplesOf(b, "remote"), n)
  BY DEF BinInv, IsMeanOf
<1>13. "local" \in BothEnds /\ "remote" \in BothEnds
  BY DEF BothEnds
<1>14. /\ i_local'[b] \in Fractions
       /\ (m_n_iqs[b] + 1) * i_local'[b].num
            = i_local'[b].den * (SumOf(SamplesOf(b, "local"), n) + s.tones[t]["local"])
  <2>1. PICK m, avg, v, sum : /\ m = m_n_iqs[b] /\ avg = i_local[b] /\ v = s.tones[t]["local"]
                              /\ sum = SumOf(SamplesOf(b, "local"), n)
    OBVIOUS
  <2>2. m \in Nat /\ avg \in Fractions /\ v \in Int /\ sum \in Int
    BY <1>1, <1>5, <1>10, <1>11, <1>13, <2>1
  <2>3. m * avg.num = avg.den * sum /\ i_local'[b] = cumulate_mean(avg, v, m + 1)
    BY <1>7, <1>12, <2>1
  <2>4. /\ cumulate_mean(avg, v, m + 1) \in Fractions
        /\ (m + 1) * cumulate_mean(avg, v, m + 1).num
             = cumulate_mean(avg, v, m + 1).den * (sum + v)
    BY <2>2, <2>3, MeanStep
  <2> QED BY <2>1, <2>3, <2>4
<1>15. /\ i_remote'[b] \in Fractions
       /\ (m_n_iqs[b] + 1) * i_remote'[b].num
            = i_remote'[b].den * (SumOf(SamplesOf(b, "remote"), n) + s.tones[t]["remote"])
  <2>1. PICK m, avg, v, sum : /\ m = m_n_iqs[b] /\ avg = i_remote[b] /\ v = s.tones[t]["remote"]
                              /\ sum = SumOf(SamplesOf(b, "remote"), n)
    OBVIOUS
  <2>2. m \in Nat /\ avg \in Fractions /\ v \in Int /\ sum \in Int
    BY <1>1, <1>5, <1>10, <1>11, <1>13, <2>1
  <2>3. m * avg.num = avg.den * sum /\ i_remote'[b] = cumulate_mean(avg, v, m + 1)
    BY <1>7, <1>12, <2>1
  <2>4. /\ cumulate_mean(avg, v, m + 1) \in Fractions
        /\ (m + 1) * cumulate_mean(avg, v, m + 1).num
             = cumulate_mean(avg, v, m + 1).den * (sum + v)
    BY <2>2, <2>3, MeanStep
  <2> QED BY <2>1, <2>3, <2>4
<1>16. /\ SumOf(SamplesOf(b, "local"), Len(processed))'
            = SumOf(SamplesOf(b, "local"), n) + s.tones[t]["local"]
       /\ SumOf(SamplesOf(b, "remote"), Len(processed))'
            = SumOf(SamplesOf(b, "remote"), n) + s.tones[t]["remote"]
  BY <1>10, <1>13
<1> QED BY <1>6, <1>9, <1>14, <1>15, <1>16 DEF BinInv, IsMeanOf

(* What a step makes of any bin. *)
LEMMA BinStep ==
    ASSUME StepsTypeOK, NEW s \in StepPairs, process_step_data(s), NEW b \in Bins, BinInv(b)
    PROVE  BinInv(b)' /\ i_local'[b] \in Fractions /\ i_remote'[b] \in Fractions
<1>1. CASE \E t \in 1..n_ap : UsableTone(s, b, t)
  BY <1>1, SampleStep
<1>2. CASE \A t \in 1..n_ap : ~UsableTone(s, b, t)
  <2>1. /\ m_n_iqs'[b] = m_n_iqs[b] /\ i_local'[b] = i_local[b] /\ i_remote'[b] = i_remote[b]
        /\ Usable(b)' = Usable(b)
        /\ \A end \in BothEnds :
             SumOf(SamplesOf(b, end), Len(processed))' = SumOf(SamplesOf(b, end), Len(processed))
    BY <1>2, NoSampleStep
  <2>2. "local" \in BothEnds /\ "remote" \in BothEnds
    BY DEF BothEnds
  <2>3. /\ SumOf(SamplesOf(b, "local"), Len(processed))' = SumOf(SamplesOf(b, "local"), Len(processed))
        /\ SumOf(SamplesOf(b, "remote"), Len(processed))' = SumOf(SamplesOf(b, "remote"), Len(processed))
    BY <2>1, <2>2
  <2> QED BY <2>1, <2>3 DEF BinInv, IsMeanOf, StepsTypeOK
<1> QED BY <1>1, <1>2

----------------------------------------------------------------------------
(* The round-trip times. *)

LEMMA TimesTyped ==
    ASSUME StepsTypeOK
    PROVE  /\ \A k \in StepNo : TimesOfSteps[k] \in Int
           /\ SumOf(TimesOfSteps, Len(processed)) \in Int
<1>1. ASSUME NEW k \in StepNo PROVE TimesOfSteps[k] \in Int
  <2>1. StepOf(k).rtt.toa_tod_initiator \in Int /\ StepOf(k).rtt.tod_toa_reflector \in Int
    BY StepNumbers, StepsAssumption
  <2> QED BY <2>1 DEF TimesOfSteps
<1>2. Len(processed) \in Nat /\ \A k \in 0..(Len(processed) - 1) : TimesOfSteps[k] \in Int
  BY <1>1, StepNumbers DEF StepNo
<1> QED BY <1>1, <1>2, SumOfType

LEMMA TimesStep ==
    ASSUME StepsTypeOK, NEW s \in StepPairs, process_step_data(s), TimesAreGenuine
    PROVE  TimesAreGenuine' /\ rtt_accumulated_half_ns' \in Int
<1> PICK n : n = Len(processed)
  OBVIOUS
<1> DEFINE isTimed == s.mode \in {1, 3} /\ \A end \in BothEnds : end \in s.rtt.good
           time == IF isTimed THEN s.rtt.toa_tod_initiator - s.rtt.tod_toa_reflector ELSE 0
<1>1. /\ StepNo' = StepNo \cup {n} /\ n \notin StepNo /\ Len(processed)' = n + 1
      /\ \A k \in StepNo : StepOf(k)' = StepOf(k)
      /\ StepOf(n)' = s /\ n \in Nat
  BY NextStepNo, StepNumbers
<1>2. Timed' = Timed \cup (IF isTimed THEN {n} ELSE {}) /\ n \notin Timed
  BY <1>1 DEF Timed
<1>3. s.rtt.toa_tod_initiator \in Int /\ s.rtt.tod_toa_reflector \in Int /\ time \in Int
  BY StepsAssumption
<1>4. /\ rtt_count' = rtt_count + (IF isTimed THEN 1 ELSE 0)
      /\ rtt_accumulated_half_ns' = rtt_accumulated_half_ns + time
  <2>1. s.rtt.good = BothEnds <=> \A end \in BothEnds : end \in s.rtt.good
    BY StepsAssumption
  <2>2. rtt_count \in Int /\ rtt_accumulated_half_ns \in Int
    BY StepsAssumption DEF StepsTypeOK
  <2> QED BY <2>1, <2>2, <1>3 DEF process_step_data, extract_rtt_timings
<1>5. rtt_count' = Cardinality(Timed')
  <2>1. IsFiniteSet(Timed) /\ Cardinality(Timed) \in Nat
    BY CountsBounded DEF Timed
  <2>2. Cardinality(Timed \cup {n}) = Cardinality(Timed) + 1
    BY <1>2, <2>1, FS_AddElement
  <2>3. rtt_count = Cardinality(Timed)
    BY DEF TimesAreGenuine
  <2> HIDE DEF isTimed, time
  <2>4. CASE isTimed
    BY <1>2, <1>4, <2>2, <2>3, <2>4
  <2>5. CASE ~isTimed
    <3>1. Timed' = Timed /\ rtt_count' = rtt_count + 0
      BY <1>2, <1>4, <2>5
    <3> QED BY <2>1, <2>3, <3>1
  <2> QED BY <2>4, <2>5
<1>6. SumOf(TimesOfSteps, Len(processed))' = SumOf(TimesOfSteps, n) + time
  <2>1. \A k \in StepNo : TimesOfSteps'[k] = TimesOfSteps[k]
    BY <1>1, <1>2 DEF TimesOfSteps
  <2>2. TimesOfSteps'[n] = time
    BY <1>1, <1>2 DEF TimesOfSteps
  <2>3. \A k \in 0..(n - 1) : TimesOfSteps'[k] = TimesOfSteps[k]
    BY <2>1 DEF StepNo
  <2>4. SumOf(TimesOfSteps', n + 1) = SumOf(TimesOfSteps, n) + TimesOfSteps'[n]
    BY <1>1, <2>3, NextSum
  <2> QED BY <1>1, <2>2, <2>4
<1>7. rtt_accumulated_half_ns = SumOf(TimesOfSteps, n) /\ SumOf(TimesOfSteps, n) \in Int
  BY TimesTyped DEF TimesAreGenuine
<1> QED BY <1>3, <1>4, <1>5, <1>6, <1>7 DEF TimesAreGenuine

----------------------------------------------------------------------------
(* The whole report. *)

Empty ==
    /\ n_ap \in 1..MaxAp /\ m_n_iqs = NoSamples /\ i_local = Zero /\ i_remote = Zero
    /\ rtt_accumulated_half_ns = 0 /\ rtt_count = 0 /\ processed = <<>>

LEMMA EmptyReport == Empty => StepsInv
<1> SUFFICES ASSUME Empty PROVE StepsInv
  OBVIOUS
<1> USE DEF Empty
<1>1. StepsTypeOK
  <2>1. [num |-> 0, den |-> 1] \in Fractions /\ 0 \in 0..MaxSteps
    BY StepsAssumption DEF Fractions
  <2>2. processed \in Seq(StepPairs) /\ Len(processed) = 0 /\ MaxSteps \in Nat
    BY StepsAssumption
  <2> QED BY <2>1, <2>2 DEF StepsTypeOK, NoSamples, Zero
<1>2. StepNo = {}
  BY DEF StepNo
<1>3. TonesAreGenuine
  <2>1. ASSUME NEW b \in Bins
        PROVE  Usable(b) = {} /\ m_n_iqs[b] = 0 /\ i_local[b] = [num |-> 0, den |-> 1]
               /\ i_remote[b] = [num |-> 0, den |-> 1]
    BY <1>2 DEF Usable, NoSamples, Zero
  <2>2. Cardinality({}) = 0 /\ Len(processed) = 0
    BY FS_EmptySet
  <2>3. \A v : SumOf(v, Len(processed)) = 0
    BY <2>2, SumOfNone
  <2>4. ASSUME NEW v, NEW b \in Bins
        PROVE  IsMeanOf(i_local[b], m_n_iqs[b], v) /\ IsMeanOf(i_remote[b], m_n_iqs[b], v)
    BY <2>1, <2>3 DEF IsMeanOf
  <2> QED BY <2>1, <2>2, <2>4 DEF TonesAreGenuine
<1>4. TimesAreGenuine
  <2>1. Timed = {} /\ Len(processed) = 0
    BY <1>2 DEF Timed
  <2>2. Cardinality({}) = 0 /\ \A v : SumOf(v, 0) = 0
    BY FS_EmptySet, SumOfNone
  <2> QED BY <2>1, <2>2 DEF TimesAreGenuine
<1> QED BY <1>1, <1>3, <1>4 DEF StepsInv

(* The number of paths of a header. *)
LEMMA PathsOfHeader ==
    ASSUME NEW mask \in SUBSET ApPaths
    PROVE  (IF mask = {} THEN 1 ELSE Cardinality(mask)) \in 1..MaxAp
<1>1. MaxAp \in Nat \ {0} /\ 0 \in Int /\ MaxAp - 1 \in Int
  BY StepsAssumption
<1>2. IsFiniteSet(0..(MaxAp - 1))
      /\ Cardinality(0..(MaxAp - 1)) = IF 0 > MaxAp - 1 THEN 0 ELSE (MaxAp - 1) - 0 + 1
  BY <1>1, FS_Interval
<1>3. IsFiniteSet(mask) /\ Cardinality(mask) <= MaxAp
  <2>1. mask \in SUBSET (0..(MaxAp - 1)) /\ Cardinality(0..(MaxAp - 1)) = MaxAp
    BY <1>1, <1>2 DEF ApPaths
  <2> QED BY <1>2, <2>1, FS_Subset
<1>4. Cardinality(mask) \in Nat /\ (mask # {} => Cardinality(mask) # 0)
  BY <1>3, FS_CardinalityType, FS_EmptySet
<1> QED BY <1>1, <1>3, <1>4

LEMMA StepsInitInv == StepsInit => StepsInv
<1>1. 1 \in 1..MaxAp
  BY StepsAssumption
<1> QED BY <1>1, EmptyReport DEF StepsInit, Empty

LEMMA ProcessStep ==
    ASSUME StepsInv, NEW s \in StepPairs, process_step_data(s)
    PROVE  StepsInv'
<1>1. StepsTypeOK
  BY DEF StepsInv
<1>2. \A b \in Bins : BinInv(b)
  BY DEF StepsInv, TonesAreGenuine, BinInv
<1>3. \A b \in Bins : BinInv(b)' /\ i_local'[b] \in Fractions /\ i_remote'[b] \in Fractions
  BY <1>1, <1>2, BinStep
<1>4. TonesAreGenuine'
  BY <1>3 DEF TonesAreGenuine, BinInv
<1>5. TimesAreGenuine' /\ rtt_accumulated_half_ns' \in Int
  BY <1>1, TimesStep DEF StepsInv
<1>6. processed' \in Seq(StepPairs) /\ Len(processed') <= MaxSteps /\ n_ap' = n_ap
      /\ MaxSteps \in Nat /\ Len(processed') \in Nat
  <2>1. PICK n : n = Len(processed)
    OBVIOUS
  <2> QED BY <1>1, <2>1, NextStepNo, StepNumbers, StepsAssumption
<1>7. /\ IsFiniteSet(StepNo') /\ Cardinality(StepNo') = Len(processed')
  <2>1. 0 \in Int /\ Len(processed') - 1 \in Int
    BY <1>6
  <2>2. /\ IsFiniteSet(0..(Len(processed') - 1))
        /\ Cardinality(0..(Len(processed') - 1))
             = IF 0 > Len(processed') - 1 THEN 0 ELSE (Len(processed') - 1) - 0 + 1
    BY <2>1, FS_Interval
  <2> QED BY <1>6, <2>1, <2>2 DEF StepNo
<1>8. ASSUME NEW K \in SUBSET StepNo' PROVE Cardinality(K) \in 0..MaxSteps
  <2>1. IsFiniteSet(K) /\ Cardinality(K) <= Cardinality(StepNo')
    BY <1>7, FS_Subset
  <2>2. Cardinality(K) \in Nat
    BY <2>1, FS_CardinalityType
  <2> QED BY <1>6, <1>7, <2>1, <2>2
<1>9. \A b \in Bins : m_n_iqs'[b] \in 0..MaxSteps
  <2>1. \A b \in Bins : Usable(b)' \subseteq StepNo' /\ m_n_iqs'[b] = Cardinality(Usable(b)')
    BY <1>3 DEF Usable, BinInv
  <2> QED BY <1>8, <2>1
<1>10. rtt_count' \in 0..MaxSteps
  <2>1. Timed' \subseteq StepNo' /\ rtt_count' = Cardinality(Timed')
    BY <1>5 DEF Timed, TimesAreGenuine
  <2> QED BY <1>8, <2>1
<1>11. /\ m_n_iqs' = [b \in Bins |-> m_n_iqs'[b]]
       /\ i_local' = [b \in Bins |-> i_local'[b]] /\ i_remote' = [b \in Bins |-> i_remote'[b]]
  BY <1>1 DEF process_step_data, extract_pcts, Accumulated, StepsTypeOK
<1>12. StepsTypeOK'
  <2>1. /\ m_n_iqs' \in [Bins -> 0..MaxSteps]
        /\ i_local' \in [Bins -> Fractions] /\ i_remote' \in [Bins -> Fractions]
    BY <1>3, <1>9, <1>11
  <2> QED BY <1>1, <1>5, <1>6, <1>10, <2>1 DEF StepsTypeOK
<1> QED BY <1>4, <1>5, <1>12 DEF StepsInv

LEMMA StepsNextInv == StepsInv /\ [StepsNext]_stepsVars => StepsInv'
<1> SUFFICES ASSUME StepsInv, [StepsNext]_stepsVars PROVE StepsInv'
  OBVIOUS
<1>1. CASE BeginProcedure
  <2>1. n_ap' \in 1..MaxAp
    BY <1>1, PathsOfHeader DEF BeginProcedure
  <2>2. /\ m_n_iqs' = NoSamples /\ i_local' = Zero /\ i_remote' = Zero
        /\ rtt_accumulated_half_ns' = 0 /\ rtt_count' = 0 /\ processed' = <<>>
    BY <1>1 DEF BeginProcedure
  <2>3. Empty'
    BY <2>1, <2>2 DEF Empty, NoSamples, Zero
  <2> QED BY <2>3, EmptyReport, PTL
<1>2. ASSUME NEW s \in StepPairs, process_step_data(s) PROVE StepsInv'
  BY <1>2, ProcessStep
<1>3. CASE UNCHANGED stepsVars
  <2>1. /\ UNCHANGED <<n_ap, m_n_iqs, i_local, i_remote, processed>>
        /\ UNCHANGED <<rtt_accumulated_half_ns, rtt_count>>
    BY <1>3 DEF stepsVars, reportVars
  <2>2. StepsTypeOK'
    BY <2>1 DEF StepsInv, StepsTypeOK
  <2>3. StepNo' = StepNo /\ \A k : StepOf(k)' = StepOf(k)
    BY <2>1 DEF StepNo, StepOf
  <2>4. Timed' = Timed /\ TimesOfSteps' = TimesOfSteps
    BY <2>3 DEF Timed, TimesOfSteps
  <2>5. TimesAreGenuine'
    BY <2>1, <2>4 DEF StepsInv, TimesAreGenuine
  <2>6. ASSUME NEW b \in Bins PROVE BinInv(b)'
    <3>1. Usable(b)' = Usable(b)
      BY <2>1, <2>3 DEF Usable, UsableTone
    <3>2. ASSUME NEW end PROVE SamplesOf(b, end)' = SamplesOf(b, end)
      <4>1. ASSUME NEW k PROVE SampleOf(StepOf(k), b, end)' = SampleOf(StepOf(k), b, end)
        BY <2>1, <2>3, SampleStays
      <4> QED BY <2>3, <3>1, <4>1 DEF SamplesOf
    <3>3. BinInv(b)
      BY DEF StepsInv, TonesAreGenuine, BinInv
    <3> QED BY <2>1, <3>1, <3>2, <3>3 DEF BinInv, IsMeanOf
  <2>7. TonesAreGenuine'
    BY <2>6 DEF TonesAreGenuine, BinInv
  <2> QED BY <2>2, <2>5, <2>7 DEF StepsInv
<1> QED BY <1>1, <1>2, <1>3 DEF StepsNext

LEMMA StepsInvariant == StepsSpec => []StepsInv
  BY StepsInitInv, StepsNextInv, PTL DEF StepsSpec

(* The report of a procedure is genuine, for any number of antenna paths, channels
   and steps, whatever was sampled. *)
THEOREM ReportCorrect == StepsSpec => []ReportIsGenuine
<1>1. StepsInv => QualityIsGenuine
  <2> SUFFICES ASSUME StepsInv PROVE QualityIsGenuine
    OBVIOUS
  <2>1. ASSUME NEW b \in Bins PROVE m_n_iqs[b] >= 1 <=> Usable(b) # {}
    <3>1. IsFiniteSet(Usable(b)) /\ Cardinality(Usable(b)) \in Nat
      BY CountsBounded DEF Usable, StepsInv
    <3>2. Cardinality(Usable(b)) = 0 <=> Usable(b) = {}
      BY <3>1, FS_EmptySet
    <3> QED BY <3>1, <3>2 DEF StepsInv, TonesAreGenuine
  <2>2. ASSUME NEW ap \in ApPaths
        PROVE  {c \in channel_map : m_n_iqs[<<ap, c>>] >= 1}
                 = {c \in channel_map : Usable(<<ap, c>>) # {}}
    <3>1. \A c \in channel_map : <<ap, c>> \in Bins
      BY StepsAssumption DEF Bins
    <3> QED BY <2>1, <3>1
  <2> QED BY <2>2 DEF QualityIsGenuine, tone_quality_ok
<1> QED BY <1>1, StepsInvariant, PTL DEF StepsInv, ReportIsGenuine

(* Every variable of the report keeps its type: a procedure has no more samples of
   a path and channel, and no more times, than steps. *)
THEOREM StepsTypeCorrect == StepsSpec => []StepsTypeOK
<1>1. StepsInv => StepsTypeOK
  BY DEF StepsInv
<1> QED BY <1>1, StepsInvariant, PTL

----------------------------------------------------------------------------
(* The parts together. *)

LEMMA InitiatorParts == AllSpec => Spec /\ SessionSpec /\ StepsSpec
<1>1. AllInit => Init /\ SessionInit /\ StepsInit
  BY DEF AllInit
<1>2. [AllNext]_allVars => [Next]_vars
  BY DEF AllNext, allVars
<1>3. [AllNext]_allVars => [SessionNext]_sessionVars
  BY DEF AllNext, allVars
<1>4. [AllNext]_allVars => [StepsNext]_stepsVars
  BY DEF AllNext, allVars
<1> QED BY <1>1, <1>2, <1>3, <1>4, PTL DEF AllSpec, Spec, SessionSpec, StepsSpec

(* Every variable of the three parts keeps its type, in every behaviour that runs
   one of them. *)
THEOREM InitiatorTypeCorrect == AllSpec => []AllTypesOK
<1>1. TypeOK /\ SessionTypeOK /\ StepsTypeOK => AllTypesOK
  BY DEF AllTypesOK
<1> QED BY <1>1, InitiatorParts, RangingTypeCorrect, SessionTypeCorrect, StepsTypeCorrect, PTL
=============================================================================
