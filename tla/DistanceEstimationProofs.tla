---------------------- MODULE DistanceEstimationProofs ----------------------
(***************************************************************************)
(* Proofs about the estimate of a distance, for inputs of any length, any  *)
(* channels and any phases.  The inductive invariant EstInvariant has one  *)
(* part for each loop: what the parser has put where, of which tones the   *)
(* angles are, what bubblesort_2() has sorted, which phases are on the     *)
(* line, and of which flights the mean is.                                 *)
(***************************************************************************)
EXTENDS DistanceEstimation, ArithmeticProofs

----------------------------------------------------------------------------
(* The estimate: what the parser leaves in the arrays. *)

Loops == {"parse", "collect", "sort", "unwrap", "average", "done"}
Samples == [failed : BOOLEAN, channel : Nat, local_phase : Int, peer_phase : Int]
Timings == [failed : BOOLEAN, toa_tod_initiator : Int, tod_toa_reflector : Int]

ArrayTypes ==
    /\ input \in Inputs /\ doing \in Loops /\ local_steps \in BOOLEAN /\ at \in 0..input.len
    /\ mode_1_data \in [Positions -> Timings] /\ mode_2_data \in [Positions -> Samples]

Tones == {p \in Positions : IsTone(input.local[p])}

(* Whether a slot of either end has been parsed, and what of it is in the arrays. *)
LocalSeen(p) == ~local_steps \/ p < at
PeerSeen(p) == ~local_steps /\ p < at
FailureSeen(p) ==
    (LocalSeen(p) /\ input.local[p].failed) \/ (PeerSeen(p) /\ input.peer[p].failed)

ToneHeld(p) ==
    LET sample == mode_2_data[Ordinal(Tones, p)]
    IN  /\ sample.failed <=> FailureSeen(p)
        /\ LocalSeen(p) => /\ sample.channel = Channel(p)
                           /\ sample.local_phase = input.local[p].value
        /\ PeerSeen(p) => sample.peer_phase = input.peer[p].value
InitiatorSeen(p) == IF input.role = "initiator" THEN LocalSeen(p) ELSE PeerSeen(p)
ReflectorSeen(p) == IF input.role = "initiator" THEN PeerSeen(p) ELSE LocalSeen(p)
AtEnd(p, end) == IF input.role = end THEN input.local[p].value ELSE input.peer[p].value
PacketHeld(p) ==
    LET timing == mode_1_data[Ordinal(Packets, p)]
    IN  /\ timing.failed <=> FailureSeen(p)
        /\ InitiatorSeen(p) => timing.toa_tod_initiator = AtEnd(p, "initiator")
        /\ ReflectorSeen(p) => timing.tod_toa_reflector = AtEnd(p, "reflector")

ParseInv ==
    /\ ArrayTypes
    /\ mode_2_data_index = Ordinal(Tones, at) /\ mode_1_data_index = Ordinal(Packets, at)
    /\ \A p \in Tones : ToneHeld(p)
    /\ \A p \in Packets : PacketHeld(p)
    /\ doing # "parse" => ~local_steps /\ at = input.len

(* The angles are those of the good tones, and all of them. *)
Angles == 0..(num_angles - 1)
Genuine(k) ==
    \E p \in GoodTones :
        frequencies[k] = Channel(p) /\ (theta[k] - Phase(p)) % (2 * HalfTurn) = 0
Collected(p) == \E k \in Angles : frequencies[k] = Channel(p)

AnglesInv ==
    /\ frequencies \in [Positions -> Nat] /\ theta \in [Positions -> Int]
    /\ num_angles \in 0..input.len
    /\ doing = "parse" => num_angles = 0
    /\ doing = "collect" => i \in 0..mode_2_data_index /\ num_angles <= i
    /\ \A k \in Angles : Genuine(k)
    /\ \A p \in GoodTones :
         Collected(p) \/ doing = "parse" \/ (doing = "collect" /\ i <= Ordinal(Tones, p))

(* There are two angles if there are two good tones, of one channel, too. *)
Reached(p) == p \in GoodTones /\ Ordinal(Tones, p) < i
CountInv ==
    /\ doing = "collect" =>
         /\ i \in Nat /\ num_angles \in Nat
         /\ num_angles >= 1 <=> \E p \in GoodTones : Reached(p)
         /\ num_angles >= 2 <=> \E p, q \in GoodTones : p # q /\ Reached(p) /\ Reached(q)
    /\ doing \notin {"parse", "collect"} => (num_angles >= 2 <=> TwoTones)

(* bubblesort_2(): the last i angles are in their places, and angle j is no less
   than those before it. *)
Ascending(last) == \A k, l \in Angles : k < l /\ l <= last => frequencies[k] <= frequencies[l]
SortInv ==
    /\ doing \in {"collect", "sort"} => \A k \in Angles : theta[k] \in (1 - HalfTurn)..HalfTurn
    /\ doing \in {"sort", "unwrap"} => num_angles >= 2
    /\ doing = "sort" =>
         /\ i \in 0..(num_angles - 2) /\ j \in 0..(num_angles - i - 1)
         /\ \A k, l \in Angles : k < l /\ num_angles - i <= l => frequencies[k] <= frequencies[l]
         /\ \A k \in 0..j : frequencies[k] <= frequencies[j]
         /\ ~swapped => Ascending(j)
    /\ doing = "unwrap" => Ascending(num_angles - 1)

(* The phases before i lie on a line, and those from i - 1 on within a turn. *)
Apart(k, d) == theta[k] - theta[0] = -d * (frequencies[k] - frequencies[0])
UnwrapInv ==
    /\ doing = "unwrap" =>
         /\ i \in 1..num_angles
         /\ \A k, l \in (i - 1)..(num_angles - 1) :
              theta[k] - theta[l] \in (1 - 2 * HalfTurn)..(2 * HalfTurn - 1)
         /\ \A d \in Slopes : Falls(d) /\ Unambiguous(d) => \A k \in 0..(i - 1) : Apart(k, d)
    /\ doing \in {"parse", "collect", "sort", "unwrap"} => slope = Fraction(0, 1)
    /\ doing \in {"average", "done"} => SlopeRecovered

(* The mean of the first i flights. *)
Differences ==
    [k \in Positions |-> mode_1_data[k].toa_tod_initiator - mode_1_data[k].tod_toa_reflector]
Halves == [k \in Positions |-> Half(Differences[k])]
Bounded ==
    /\ \E t \in Flights : tof_mean.num <= tof_mean.den * t
    /\ \E t \in Flights : tof_mean.num >= tof_mean.den * t
MeanOf(n) ==
    /\ tof_mean \in [num : Int, den : Nat \ {0}]
    /\ Bounded \/ (n = 0 /\ ~FirstFailed)
    /\ (\A p \in Packets : ~Failed(p)) => n * tof_mean.num = tof_mean.den * SumOf(Halves, n)
FlightInv ==
    /\ doing \notin {"average", "done"} => tof_mean = Fraction(0, 1)
    /\ doing = "average" => i \in 0..mode_1_data_index /\ MeanOf(i)
    /\ doing = "done" => MeanOf(mode_1_data_index)
EstInvariant == ParseInv /\ AnglesInv /\ CountInv /\ SortInv /\ UnwrapInv /\ FlightInv

----------------------------------------------------------------------------
(* The parser. *)

LEMMA InputTypes ==
    ASSUME input \in Inputs
    PROVE  /\ input.len \in Nat /\ input.role \in {"initiator", "reflector"}
           /\ Positions = 0..(input.len - 1)
           /\ Tones \in SUBSET (0..(input.len - 1)) /\ Packets \in SUBSET (0..(input.len - 1))
           /\ \A p \in Positions :
                /\ input.local[p].failed \in BOOLEAN /\ input.peer[p].failed \in BOOLEAN
                /\ input.local[p].value \in Int /\ input.peer[p].value \in Int
                /\ input.local[p].channel \in Nat /\ input.peer[p].channel \in Nat
                /\ IsTone(input.local[p]) <=> IsTone(input.peer[p])
                /\ IsPacket(input.local[p]) <=> IsPacket(input.peer[p])
<1>1. Positions = 0..(input.len - 1)
  BY DEF Positions
<1>2. /\ Tones \in SUBSET (0..(input.len - 1)) /\ Packets \in SUBSET (0..(input.len - 1))
  BY <1>1 DEF Tones, Packets
<1>3. input.len \in Nat /\ input.role \in {"initiator", "reflector"}
  BY EstimationAssumption
<1>4. \A p \in 0..(input.len - 1) :
         /\ \A s \in {input.local[p], input.peer[p]} :
              s.channel \in Nat /\ s.failed \in BOOLEAN /\ s.value \in Int
         /\ IsTone(input.local[p]) <=> IsTone(input.peer[p])
         /\ IsPacket(input.local[p]) <=> IsPacket(input.peer[p])
  BY EstimationAssumption
<1> QED BY <1>1, <1>2, <1>3, <1>4

(* The numbers of tones and packets count through the arrays. *)
LEMMA Numbers ==
    ASSUME input \in Inputs
    PROVE  /\ \A p \in Tones : Ordinal(Tones, p) \in Positions
           /\ \A p \in Packets : Ordinal(Packets, p) \in Positions
           /\ \A p, q \in Tones : p # q => Ordinal(Tones, p) # Ordinal(Tones, q)
           /\ \A p, q \in Packets : p # q => Ordinal(Packets, p) # Ordinal(Packets, q)
           /\ Ordinal(Tones, 0) = 0 /\ Ordinal(Packets, 0) = 0
           /\ \A p \in Positions :
                /\ Ordinal(Tones, p + 1) = IF p \in Tones THEN Ordinal(Tones, p) + 1 ELSE Ordinal(Tones, p)
                /\ Ordinal(Packets, p + 1) =
                     IF p \in Packets THEN Ordinal(Packets, p) + 1 ELSE Ordinal(Packets, p)
<1>1. /\ input.len \in Nat /\ Positions = 0..(input.len - 1)
      /\ Tones \in SUBSET (0..(input.len - 1)) /\ Packets \in SUBSET (0..(input.len - 1))
  BY InputTypes
<1>2. ASSUME NEW n \in Nat, NEW S \in SUBSET (0..(n - 1))
      PROVE  /\ \A p \in S : Ordinal(S, p) \in 0..(n - 1)
             /\ \A p, q \in S : p # q => Ordinal(S, p) # Ordinal(S, q)
             /\ Ordinal(S, 0) = 0
             /\ \A p \in 0..(n - 1) :
                  Ordinal(S, p + 1) = IF p \in S THEN Ordinal(S, p) + 1 ELSE Ordinal(S, p)
  <2>1. 0 \in 0..n
    OBVIOUS
  <2>2. \A p \in S : Ordinal(S, p) \in 0..(n - 1)
    BY OrdinalPlace
  <2>3. \A p, q \in S : p # q => Ordinal(S, p) # Ordinal(S, q)
    BY OrdinalDiffers
  <2>4. Ordinal(S, 0) = 0
    BY <2>1, OrdinalType
  <2>5. \A p \in 0..(n - 1) :
          Ordinal(S, p + 1) = IF p \in S THEN Ordinal(S, p) + 1 ELSE Ordinal(S, p)
    BY OrdinalNext
  <2> QED BY <2>2, <2>3, <2>4, <2>5
<1>3. PICK n \in Nat : n = input.len
  BY <1>1
<1>4. Positions = 0..(n - 1) /\ Tones \in SUBSET (0..(n - 1)) /\ Packets \in SUBSET (0..(n - 1))
  BY <1>1, <1>3
<1>5. /\ \A p \in Tones : Ordinal(Tones, p) \in Positions
      /\ \A p, q \in Tones : p # q => Ordinal(Tones, p) # Ordinal(Tones, q)
      /\ Ordinal(Tones, 0) = 0
      /\ \A p \in Positions :
           Ordinal(Tones, p + 1) = IF p \in Tones THEN Ordinal(Tones, p) + 1 ELSE Ordinal(Tones, p)
  BY <1>2, <1>4
<1>6. /\ \A p \in Packets : Ordinal(Packets, p) \in Positions
      /\ \A p, q \in Packets : p # q => Ordinal(Packets, p) # Ordinal(Packets, q)
      /\ Ordinal(Packets, 0) = 0
      /\ \A p \in Positions :
           Ordinal(Packets, p + 1) = IF p \in Packets THEN Ordinal(Packets, p) + 1 ELSE Ordinal(Packets, p)
  BY <1>2, <1>4
<1> QED BY <1>5, <1>6

(* What is ranged does not change. *)
LEMMA InputStays ==
    ASSUME input' = input
    PROVE  /\ Positions' = Positions /\ Tones' = Tones /\ Packets' = Packets
           /\ GoodTones' = GoodTones
           /\ \A p : /\ Channel(p)' = Channel(p) /\ Phase(p)' = Phase(p)
                     /\ RoundTrip(p)' = RoundTrip(p) /\ Failed(p)' = Failed(p)
BY DEF Positions, Tones, Packets, GoodTones, Channel, Phase, RoundTrip, Failed

LEMMA ParseInit == EstimateInit => ParseInv
<1> SUFFICES ASSUME EstimateInit PROVE ParseInv
  OBVIOUS
<1>1. input \in Inputs /\ doing = "parse" /\ local_steps = TRUE /\ at = 0
  BY DEF EstimateInit
<1>2. /\ mode_1_data = [p \in Positions |->
             [failed |-> FALSE, toa_tod_initiator |-> 0, tod_toa_reflector |-> 0]]
      /\ mode_2_data = [p \in Positions |->
             [failed |-> FALSE, channel |-> 0, local_phase |-> 0, peer_phase |-> 0]]
  BY DEF EstimateInit
<1>3. ArrayTypes
  <2>1. [failed |-> FALSE, toa_tod_initiator |-> 0, tod_toa_reflector |-> 0] \in Timings
    BY DEF Timings
  <2>2. [failed |-> FALSE, channel |-> 0, local_phase |-> 0, peer_phase |-> 0] \in Samples
    BY DEF Samples
  <2>3. 0 \in 0..input.len
    BY <1>1, InputTypes
  <2> QED BY <1>1, <1>2, <2>1, <2>2, <2>3 DEF ArrayTypes, Loops
<1>4. mode_2_data_index = Ordinal(Tones, at) /\ mode_1_data_index = Ordinal(Packets, at)
  BY <1>1, Numbers DEF EstimateInit
<1>5. \A p \in Positions : ~LocalSeen(p) /\ ~PeerSeen(p)
  BY <1>1, InputTypes DEF LocalSeen, PeerSeen
<1>6. Tones \subseteq Positions /\ Packets \subseteq Positions
  BY DEF Tones, Packets
<1>7. \A p \in Tones : ToneHeld(p)
  BY <1>1, <1>2, <1>5, <1>6, Numbers DEF ToneHeld, FailureSeen
<1>8. \A p \in Packets : PacketHeld(p)
  BY <1>1, <1>2, <1>5, <1>6, Numbers DEF PacketHeld, FailureSeen, InitiatorSeen, ReflectorSeen
<1> QED BY <1>1, <1>3, <1>4, <1>7, <1>8 DEF ParseInv

(* What one more slot of one end changes. *)
LEMMA SeenNext ==
    ASSUME ParseInv, at \in Positions, at' = at + 1, UNCHANGED <<input, local_steps>>
    PROVE  /\ \A p \in Positions \ {at} :
                (LocalSeen(p)' <=> LocalSeen(p)) /\ (PeerSeen(p)' <=> PeerSeen(p))
<1>1. at \in Int /\ \A p \in Positions : p \in Int
  BY InputTypes DEF ParseInv, ArrayTypes
<1> QED BY <1>1 DEF LocalSeen, PeerSeen

(* A step that leaves the arrays alone. *)
LEMMA ParseStays ==
    ASSUME ParseInv, UNCHANGED <<input, parseVars>>, doing' \in Loops,
           doing' # "parse" => ~local_steps /\ at = input.len
    PROVE  ParseInv'
<1>1. UNCHANGED <<input, local_steps, at, mode_1_data, mode_1_data_index, mode_2_data, mode_2_data_index>>
  BY DEF parseVars, dataVars
<1>2. Positions' = Positions /\ Tones' = Tones /\ Packets' = Packets
  BY <1>1, InputStays
<1>3. ArrayTypes'
  BY <1>1, <1>2 DEF ParseInv, ArrayTypes
<1>4. \A p : /\ LocalSeen(p)' <=> LocalSeen(p)
             /\ PeerSeen(p)' <=> PeerSeen(p)
             /\ FailureSeen(p)' <=> FailureSeen(p)
  BY <1>1 DEF LocalSeen, PeerSeen, FailureSeen
<1>5. ASSUME NEW p \in Tones PROVE ToneHeld(p)'
  <2>1. ToneHeld(p)
    BY DEF ParseInv
  <2> QED BY <1>1, <1>2, <1>4, <2>1 DEF ToneHeld, Channel
<1>6. ASSUME NEW p \in Packets PROVE PacketHeld(p)'
  <2>1. PacketHeld(p)
    BY DEF ParseInv
  <2>2. InitiatorSeen(p)' <=> InitiatorSeen(p)
    BY <1>1, <1>4 DEF InitiatorSeen
  <2>3. ReflectorSeen(p)' <=> ReflectorSeen(p)
    BY <1>1, <1>4 DEF ReflectorSeen
  <2> QED BY <1>1, <1>2, <1>4, <2>1, <2>2, <2>3 DEF PacketHeld, AtEnd
<1> QED BY <1>1, <1>2, <1>3, <1>5, <1>6 DEF ParseInv

(* The slots that are not parsed in a step are held as before. *)
LEMMA OthersHeld ==
    ASSUME ParseInv, at \in Positions, at' = at + 1, UNCHANGED <<input, local_steps>>
    PROVE  /\ \A p \in Tones \ {at} :
                mode_2_data'[Ordinal(Tones, p)] = mode_2_data[Ordinal(Tones, p)] => ToneHeld(p)'
           /\ \A p \in Packets \ {at} :
                mode_1_data'[Ordinal(Packets, p)] = mode_1_data[Ordinal(Packets, p)] => PacketHeld(p)'
<1>1. Positions' = Positions /\ Tones' = Tones /\ Packets' = Packets
  BY InputStays
<1>2. Tones \subseteq Positions /\ Packets \subseteq Positions
  BY DEF Tones, Packets
<1>3. \A p \in Positions \ {at} :
         /\ LocalSeen(p)' <=> LocalSeen(p)
         /\ PeerSeen(p)' <=> PeerSeen(p)
         /\ FailureSeen(p)' <=> FailureSeen(p)
  BY SeenNext DEF FailureSeen
<1>4. ASSUME NEW p \in Tones \ {at}, mode_2_data'[Ordinal(Tones, p)] = mode_2_data[Ordinal(Tones, p)]
      PROVE  ToneHeld(p)'
  <2>1. ToneHeld(p) /\ p \in Positions \ {at}
    BY <1>2 DEF ParseInv
  <2> QED BY <1>1, <1>3, <1>4, <2>1 DEF ToneHeld, Channel
<1>5. ASSUME NEW p \in Packets \ {at},
             mode_1_data'[Ordinal(Packets, p)] = mode_1_data[Ordinal(Packets, p)]
      PROVE  PacketHeld(p)'
  <2>1. PacketHeld(p) /\ p \in Positions \ {at}
    BY <1>2 DEF ParseInv
  <2>2. InitiatorSeen(p)' <=> InitiatorSeen(p)
    BY <1>3, <2>1 DEF InitiatorSeen
  <2>3. ReflectorSeen(p)' <=> ReflectorSeen(p)
    BY <1>3, <2>1 DEF ReflectorSeen
  <2> QED BY <1>1, <1>3, <1>5, <2>1, <2>2, <2>3 DEF PacketHeld, AtEnd
<1> QED BY <1>4, <1>5

LEMMA SlotType ==
    ASSUME ParseInv, at \in Positions
    PROVE  /\ Slot.channel \in Nat /\ Slot.value \in Int /\ Slot.failed \in BOOLEAN
           /\ IsTone(Slot) <=> at \in Tones
           /\ IsPacket(Slot) <=> at \in Packets
           /\ ~(at \in Tones /\ at \in Packets)
<1>1. /\ input.local[at].failed \in BOOLEAN /\ input.peer[at].failed \in BOOLEAN
      /\ input.local[at].value \in Int /\ input.peer[at].value \in Int
      /\ input.local[at].channel \in Nat /\ input.peer[at].channel \in Nat
      /\ IsTone(input.local[at]) <=> IsTone(input.peer[at])
      /\ IsPacket(input.local[at]) <=> IsPacket(input.peer[at])
  BY InputTypes DEF ParseInv, ArrayTypes
<1>2. at \in Tones <=> IsTone(input.local[at])
  BY DEF Tones
<1>3. at \in Packets <=> IsPacket(input.local[at])
  BY DEF Packets
<1>4. ~(at \in Tones /\ at \in Packets)
  BY <1>2, <1>3 DEF IsTone, IsPacket
<1>5. CASE local_steps
  BY <1>1, <1>2, <1>3, <1>4, <1>5 DEF Slot
<1>6. CASE ~local_steps
  BY <1>1, <1>2, <1>3, <1>4, <1>6 DEF Slot
<1> QED BY <1>5, <1>6

LEMMA ToneStep ==
    ASSUME ParseInv, at \in Tones, TakeTone(Slot), at' = at + 1, UNCHANGED <<input, local_steps>>
    PROVE  /\ mode_2_data' \in [Positions -> Samples]
           /\ \A p \in Tones : ToneHeld(p)'
<1> DEFINE m == Ordinal(Tones, at)
           sample == mode_2_data[m]
           new == [failed |-> sample.failed \/ Slot.failed,
                   channel |-> IF local_steps THEN Slot.channel ELSE sample.channel,
                   local_phase |-> IF local_steps THEN Slot.value ELSE sample.local_phase,
                   peer_phase |-> IF local_steps THEN sample.peer_phase ELSE Slot.value]
<1>1. input \in Inputs /\ mode_2_data \in [Positions -> Samples] /\ mode_2_data_index = m
  BY DEF ParseInv, ArrayTypes
<1>2. at \in Positions /\ m \in Positions
  BY <1>1, Numbers DEF Tones
<1>3. mode_2_data' = [mode_2_data EXCEPT ![m] = new]
  BY <1>1 DEF TakeTone
<1>4. /\ sample \in Samples /\ Slot.channel \in Nat /\ Slot.value \in Int /\ Slot.failed \in BOOLEAN
  BY <1>1, <1>2, SlotType
<1>5. new \in Samples
  BY <1>4 DEF Samples
<1>6. mode_2_data'[m] = new
  BY <1>1, <1>2, <1>3
<1>7. ASSUME NEW p \in Tones \ {at} PROVE ToneHeld(p)'
  <2>1. Ordinal(Tones, p) # m
    BY <1>1, Numbers
  <2>2. mode_2_data'[Ordinal(Tones, p)] = mode_2_data[Ordinal(Tones, p)]
    BY <1>1, <1>3, <2>1, Numbers
  <2> QED BY <1>2, <2>2, OthersHeld
<1>8. ASSUME NEW p, p = at PROVE ToneHeld(p)'
  <2>1. Tones' = Tones /\ Ordinal(Tones, p) = m /\ Channel(p)' = Channel(p)
    BY <1>8, InputStays
  <2>2. LocalSeen(p)' /\ (PeerSeen(p)' <=> ~local_steps) /\ ~PeerSeen(p) /\ (LocalSeen(p) <=> ~local_steps)
    <3>1. p \in Int
      BY <1>1, <1>2, <1>8, InputTypes
    <3> QED BY <1>8, <3>1 DEF LocalSeen, PeerSeen
  <2>3. /\ sample.failed <=> ~local_steps /\ input.local[p].failed
        /\ ~local_steps => sample.channel = Channel(p) /\ sample.local_phase = input.local[p].value
    <3>1. ToneHeld(p)
      BY <1>8 DEF ParseInv
    <3> QED BY <1>8, <2>1, <2>2, <3>1 DEF ToneHeld, FailureSeen
  <2>4. FailureSeen(p)' <=> input.local[p].failed \/ (~local_steps /\ input.peer[p].failed)
    BY <2>2 DEF FailureSeen
  <2>5. CASE local_steps
    <3>1. /\ new.failed <=> FailureSeen(p)'
          /\ new.channel = Channel(p) /\ new.local_phase = input.local[p].value
      BY <1>8, <2>3, <2>4, <2>5 DEF Slot, Channel
    <3> QED BY <1>6, <2>1, <2>2, <2>5, <3>1 DEF ToneHeld
  <2>6. CASE ~local_steps
    <3>1. /\ new.failed <=> FailureSeen(p)'
          /\ new.channel = Channel(p) /\ new.local_phase = input.local[p].value
          /\ new.peer_phase = input.peer[p].value
      BY <1>8, <2>3, <2>4, <2>6 DEF Slot
    <3> QED BY <1>6, <2>1, <2>2, <2>6, <3>1 DEF ToneHeld
  <2> QED BY <2>5, <2>6
<1>9. mode_2_data' \in [Positions -> Samples]
  BY <1>1, <1>3, <1>5
<1> QED BY <1>7, <1>8, <1>9

LEMMA PacketStep ==
    ASSUME ParseInv, at \in Packets, TakePacket(Slot), at' = at + 1, UNCHANGED <<input, local_steps>>
    PROVE  /\ mode_1_data' \in [Positions -> Timings]
           /\ \A p \in Packets : PacketHeld(p)'
<1> DEFINE m == Ordinal(Packets, at)
           timing == mode_1_data[m]
           new == [failed |-> timing.failed \/ Slot.failed,
                   toa_tod_initiator |-> IF AtInitiator THEN Slot.value ELSE timing.toa_tod_initiator,
                   tod_toa_reflector |-> IF AtInitiator THEN timing.tod_toa_reflector ELSE Slot.value]
<1>1. input \in Inputs /\ mode_1_data \in [Positions -> Timings] /\ mode_1_data_index = m
  BY DEF ParseInv, ArrayTypes
<1>2. at \in Positions /\ m \in Positions
  BY <1>1, Numbers DEF Packets
<1>3. mode_1_data' = [mode_1_data EXCEPT ![m] = new]
  BY <1>1 DEF TakePacket
<1>4. timing \in Timings /\ Slot.value \in Int /\ Slot.failed \in BOOLEAN
  BY <1>1, <1>2, SlotType
<1>5. new \in Timings
  BY <1>4 DEF Timings
<1>6. mode_1_data'[m] = new
  BY <1>1, <1>2, <1>3
<1>7. ASSUME NEW p \in Packets \ {at} PROVE PacketHeld(p)'
  <2>1. Ordinal(Packets, p) # m
    BY <1>1, Numbers
  <2>2. mode_1_data'[Ordinal(Packets, p)] = mode_1_data[Ordinal(Packets, p)]
    BY <1>1, <1>3, <2>1, Numbers
  <2> QED BY <1>2, <2>2, OthersHeld
<1>8. ASSUME NEW p, p = at PROVE PacketHeld(p)'
  <2>1. Packets' = Packets /\ Ordinal(Packets, p) = m /\ (\A end : AtEnd(p, end)' = AtEnd(p, end))
    BY <1>8, InputStays DEF AtEnd
  <2>2. LocalSeen(p)' /\ (PeerSeen(p)' <=> ~local_steps) /\ ~PeerSeen(p) /\ (LocalSeen(p) <=> ~local_steps)
    <3>1. p \in Int
      BY <1>1, <1>2, <1>8, InputTypes
    <3> QED BY <1>8, <3>1 DEF LocalSeen, PeerSeen
  <2>3. /\ timing.failed <=> ~local_steps /\ input.local[p].failed
        /\ InitiatorSeen(p) => timing.toa_tod_initiator = AtEnd(p, "initiator")
        /\ ReflectorSeen(p) => timing.tod_toa_reflector = AtEnd(p, "reflector")
    <3>1. PacketHeld(p)
      BY <1>8 DEF ParseInv
    <3> QED BY <1>8, <2>1, <2>2, <3>1 DEF PacketHeld, FailureSeen
  <2>4. FailureSeen(p)' <=> input.local[p].failed \/ (~local_steps /\ input.peer[p].failed)
    BY <2>2 DEF FailureSeen
  <2>5. new.failed <=> FailureSeen(p)'
    BY <1>8, <2>3, <2>4 DEF Slot
  <2>6. input.role \in {"initiator", "reflector"}
    BY <1>1, InputTypes
  <2>7. /\ InitiatorSeen(p)' => new.toa_tod_initiator = AtEnd(p, "initiator")
        /\ ReflectorSeen(p)' => new.tod_toa_reflector = AtEnd(p, "reflector")
    <3>1. CASE input.role = "initiator"
      BY <1>8, <2>2, <2>3, <3>1 DEF InitiatorSeen, ReflectorSeen, AtEnd, AtInitiator, Slot
    <3>2. CASE input.role = "reflector"
      BY <1>8, <2>2, <2>3, <3>2 DEF InitiatorSeen, ReflectorSeen, AtEnd, AtInitiator, Slot
    <3> QED BY <2>6, <3>1, <3>2
  <2> QED BY <1>6, <2>1, <2>5, <2>7 DEF PacketHeld
<1>9. mode_1_data' \in [Positions -> Timings]
  BY <1>1, <1>3, <1>5
<1> QED BY <1>7, <1>8, <1>9

LEMMA SlotStep == ASSUME ParseInv, process_step_data PROVE ParseInv'
<1>1. /\ doing = "parse" /\ at \in Nat /\ at < input.len /\ at' = at + 1 /\ input \in Inputs
      /\ UNCHANGED <<input, local_steps, doing>>
  BY InputTypes DEF ParseInv, ArrayTypes, process_step_data
<1>2. /\ Positions' = Positions /\ Tones' = Tones /\ Packets' = Packets
      /\ at \in Positions /\ at' \in 0..input.len
      /\ Tones \subseteq Positions /\ Packets \subseteq Positions
  BY <1>1, InputStays, InputTypes
<1>3. /\ Ordinal(Tones, at') = IF at \in Tones THEN mode_2_data_index + 1 ELSE mode_2_data_index
      /\ Ordinal(Packets, at') = IF at \in Packets THEN mode_1_data_index + 1 ELSE mode_1_data_index
  BY <1>1, <1>2, Numbers DEF ParseInv
<1>4. CASE IsTone(Slot) /\ TakeTone(Slot)
  <2>1. at \in Tones /\ at \notin Packets
    BY <1>2, <1>4, SlotType
  <2>2. /\ mode_2_data' \in [Positions -> Samples] /\ \A p \in Tones : ToneHeld(p)'
    BY <1>1, <1>4, <2>1, ToneStep
  <2>3. mode_2_data_index' = mode_2_data_index + 1 /\ UNCHANGED <<mode_1_data, mode_1_data_index>>
    BY <1>4 DEF TakeTone
  <2>4. \A p \in Packets : PacketHeld(p)'
    BY <1>1, <1>2, <2>1, <2>3, OthersHeld
  <2>5. ArrayTypes'
    BY <1>1, <1>2, <2>2, <2>3 DEF ParseInv, ArrayTypes
  <2> QED BY <1>1, <1>2, <1>3, <2>1, <2>2, <2>3, <2>4, <2>5 DEF ParseInv
<1>5. CASE IsPacket(Slot) /\ TakePacket(Slot)
  <2>1. at \in Packets /\ at \notin Tones
    BY <1>2, <1>5, SlotType
  <2>2. /\ mode_1_data' \in [Positions -> Timings] /\ \A p \in Packets : PacketHeld(p)'
    BY <1>1, <1>5, <2>1, PacketStep
  <2>3. mode_1_data_index' = mode_1_data_index + 1 /\ UNCHANGED <<mode_2_data, mode_2_data_index>>
    BY <1>5 DEF TakePacket
  <2>4. \A p \in Tones : ToneHeld(p)'
    BY <1>1, <1>2, <2>1, <2>3, OthersHeld
  <2>5. ArrayTypes'
    BY <1>1, <1>2, <2>2, <2>3 DEF ParseInv, ArrayTypes
  <2> QED BY <1>1, <1>2, <1>3, <2>1, <2>2, <2>3, <2>4, <2>5 DEF ParseInv
<1>6. CASE ~IsTone(Slot) /\ ~IsPacket(Slot) /\ UNCHANGED dataVars
  <2>1. at \notin Tones /\ at \notin Packets
    BY <1>2, <1>6, SlotType
  <2>2. UNCHANGED <<mode_1_data, mode_1_data_index, mode_2_data, mode_2_data_index>>
    BY <1>6 DEF dataVars
  <2>3. (\A p \in Tones : ToneHeld(p)') /\ (\A p \in Packets : PacketHeld(p)')
    BY <1>1, <1>2, <2>1, <2>2, OthersHeld
  <2>4. ArrayTypes'
    BY <1>1, <1>2, <2>2 DEF ParseInv, ArrayTypes
  <2> QED BY <1>1, <1>2, <1>3, <2>1, <2>2, <2>3, <2>4 DEF ParseInv
<1> QED BY <1>4, <1>5, <1>6 DEF process_step_data

LEMMA PeerStepsNext == ASSUME ParseInv, ParsePeerSteps PROVE ParseInv'
<1>1. /\ doing = "parse" /\ local_steps = TRUE /\ at = input.len /\ input \in Inputs
      /\ UNCHANGED <<input, doing, mode_1_data, mode_2_data>> /\ local_steps' = FALSE /\ at' = 0
      /\ mode_1_data_index' = 0 /\ mode_2_data_index' = 0
  BY DEF ParseInv, ArrayTypes, ParsePeerSteps
<1>2. Positions' = Positions /\ Tones' = Tones /\ Packets' = Packets /\ input.len \in Nat
      /\ Tones \subseteq Positions /\ Packets \subseteq Positions
  BY <1>1, InputStays, InputTypes
<1>3. \A p \in Positions :
         /\ LocalSeen(p)' /\ LocalSeen(p)
         /\ ~PeerSeen(p)' /\ ~PeerSeen(p)
  BY <1>1, <1>2 DEF LocalSeen, PeerSeen, Positions
<1>4. \A p \in Positions : FailureSeen(p)' <=> FailureSeen(p)
  BY <1>1, <1>3 DEF FailureSeen
<1>5. ASSUME NEW p \in Tones PROVE ToneHeld(p)'
  <2>1. ToneHeld(p)
    BY DEF ParseInv
  <2> QED BY <1>1, <1>2, <1>3, <1>4, <2>1 DEF ToneHeld, Channel
<1>6. ASSUME NEW p \in Packets PROVE PacketHeld(p)'
  <2>1. PacketHeld(p)
    BY DEF ParseInv
  <2>2. InitiatorSeen(p)' <=> InitiatorSeen(p)
    BY <1>1, <1>2, <1>3 DEF InitiatorSeen
  <2>3. ReflectorSeen(p)' <=> ReflectorSeen(p)
    BY <1>1, <1>2, <1>3 DEF ReflectorSeen
  <2> QED BY <1>1, <1>2, <1>4, <2>1, <2>2, <2>3 DEF PacketHeld, AtEnd
<1>7. ArrayTypes'
  <2>1. at' \in 0..input.len
    BY <1>1, <1>2
  <2>2. local_steps' \in BOOLEAN
    BY <1>1
  <2> QED BY <1>1, <1>2, <2>1, <2>2 DEF ParseInv, ArrayTypes
<1>8. Ordinal(Tones, 0) = 0 /\ Ordinal(Packets, 0) = 0
  BY <1>1, Numbers
<1> QED BY <1>1, <1>2, <1>5, <1>6, <1>7, <1>8 DEF ParseInv

LEMMA ParseNext == ParseInv /\ [EstimateNext]_estimateVars => ParseInv'
<1> SUFFICES ASSUME ParseInv, [EstimateNext]_estimateVars PROVE ParseInv'
  OBVIOUS
<1>1. CASE process_step_data
  BY <1>1, SlotStep
<1>2. CASE ParsePeerSteps
  BY <1>2, PeerStepsNext
<1>3. CASE \/ StepsParsed \/ CollectAngle \/ AnglesCollected \/ Compare \/ PassEnds \/ Unwrap
           \/ Regress \/ Average \/ Finish \/ UNCHANGED estimateVars
  <2>1. UNCHANGED <<input, parseVars>> /\ doing \in Loops
    BY <1>3 DEF StepsParsed, CollectAngle, AnglesCollected, Compare, PassEnds, Unwrap, Regress,
                Average, Finish, estimateVars, ParseInv, ArrayTypes
  <2>2. doing' \in Loops /\ (doing' # "parse" => ~local_steps /\ at = input.len)
    BY <1>3 DEF StepsParsed, CollectAngle, AnglesCollected, Compare, PassEnds, Unwrap, Regress,
                Average, Finish, estimateVars, ParseInv, ArrayTypes, Loops
  <2> QED BY <2>1, <2>2, ParseStays
<1> QED BY <1>1, <1>2, <1>3 DEF EstimateNext

----------------------------------------------------------------------------
(* Whole turns. *)

LEMMA TurnsAreMultiples ==
    ASSUME NEW x \in Int
    PROVE  x % (2 * HalfTurn) = 0 <=> \E z \in Int : x = 2 * HalfTurn * z
<1>1. PICK m \in Nat \ {0} : m = 2 * HalfTurn
  BY EstimationAssumption
<1>2. x % m \in 0..(m - 1) /\ x \div m \in Int /\ x = m * (x \div m) + (x % m)
  BY ModDef
<1>3. ASSUME x % m = 0 PROVE \E z \in Int : x = m * z
  <2>1. PICK q \in Int, w \in Int : q = x \div m /\ w = x % m /\ x = m * q + w
    BY <1>2
  <2>2. x = m * q
    BY <1>3, <2>1
  <2> QED BY <2>2
<1>4. ASSUME NEW z \in Int, x = m * z PROVE x % m = 0
  <2>1. 0 \in 0..(m - 1) /\ x = m * z + 0
    BY <1>4
  <2> QED BY <2>1, ModUnique
<1> QED BY <1>1, <1>3, <1>4

LEMMA WrappedPhase ==
    ASSUME NEW x \in Int
    PROVE  Wrapped(x) \in (1 - HalfTurn)..HalfTurn /\ (Wrapped(x) - x) % (2 * HalfTurn) = 0
<1>1. PICK m \in Nat \ {0} : m = 2 * HalfTurn
  BY EstimationAssumption
<1>2. HalfTurn \in Nat \ {0} /\ x + HalfTurn - 1 \in Int
  BY EstimationAssumption
<1>3. PICK y \in Int : y = x + HalfTurn - 1
  BY <1>2
<1>4. y % m \in 0..(m - 1) /\ y \div m \in Int /\ y = m * (y \div m) + (y % m)
  BY ModDef
<1>5. PICK q \in Int, w \in 0..(m - 1) : q = y \div m /\ w = y % m /\ y = m * q + w
  BY <1>4
<1>6. Wrapped(x) = w - HalfTurn + 1
  BY <1>1, <1>3, <1>5 DEF Wrapped
<1>7. Wrapped(x) \in (1 - HalfTurn)..HalfTurn
  BY <1>1, <1>2, <1>6
<1>8. Wrapped(x) - x = m * (-q) /\ -q \in Int /\ Wrapped(x) - x \in Int
  <2>1. m * q \in Int /\ m * (-q) = -(m * q)
    OBVIOUS
  <2> QED BY <1>2, <1>3, <1>5, <1>6, <2>1
<1> QED BY <1>1, <1>7, <1>8, TurnsAreMultiples

----------------------------------------------------------------------------
(* The angles. *)

LEMMA AnglesInit == EstimateInit => AnglesInv
<1> SUFFICES ASSUME EstimateInit PROVE AnglesInv
  OBVIOUS
<1>1. /\ input \in Inputs /\ doing = "parse" /\ num_angles = 0
      /\ frequencies = [p \in Positions |-> 0] /\ theta = [p \in Positions |-> 0]
  BY DEF EstimateInit
<1>2. Angles = {} /\ num_angles \in 0..input.len
  BY <1>1, InputTypes DEF Angles
<1> QED BY <1>1, <1>2 DEF AnglesInv

(* A step that leaves the angles alone. *)
LEMMA AnglesStay ==
    ASSUME AnglesInv, UNCHANGED <<input, angleVars>>,
           doing' \notin {"parse", "collect"},
           doing \notin {"parse", "collect"} \/ \A p \in GoodTones : Collected(p)
    PROVE  AnglesInv'
<1>1. UNCHANGED <<input, frequencies, theta, num_angles>>
  BY DEF angleVars
<1>2. /\ Positions' = Positions /\ GoodTones' = GoodTones /\ Angles' = Angles
      /\ \A p : Channel(p)' = Channel(p) /\ Phase(p)' = Phase(p)
  BY <1>1, InputStays DEF Angles
<1>3. \A k \in Angles : Genuine(k)'
  BY <1>1, <1>2 DEF Genuine, AnglesInv
<1>4. \A p \in GoodTones : Collected(p)
  BY DEF AnglesInv
<1>5. \A p \in GoodTones : Collected(p)'
  BY <1>1, <1>2, <1>4 DEF Collected
<1> QED BY <1>1, <1>2, <1>3, <1>5 DEF AnglesInv

(* While the parser runs there are none. *)
LEMMA AnglesWait ==
    ASSUME ParseInv, AnglesInv, process_step_data \/ ParsePeerSteps \/ StepsParsed
    PROVE  AnglesInv'
<1>1. /\ UNCHANGED <<input, frequencies, theta, num_angles>> /\ doing = "parse"
      /\ doing' = "parse" \/ (doing' = "collect" /\ i' = 0 /\ UNCHANGED <<at, mode_2_data_index>>)
  BY DEF angleVars, parseVars, dataVars, process_step_data, ParsePeerSteps, StepsParsed
<1>2. num_angles = 0 /\ Angles' = {} /\ Positions' = Positions /\ GoodTones' = GoodTones /\ Tones' = Tones
  BY <1>1, InputStays DEF AnglesInv, Angles
<1>3. /\ input \in Inputs /\ at \in 0..input.len /\ input.len \in Nat
      /\ Tones \in SUBSET (0..(input.len - 1)) /\ GoodTones \subseteq Tones
  BY InputTypes DEF ParseInv, ArrayTypes, GoodTones, Tones
<1>4. /\ Ordinal(Tones, at) \in 0..input.len
      /\ \A p \in GoodTones : Ordinal(Tones, p) \in Nat
  <2>1. \A p \in GoodTones : p \in 0..input.len
    BY <1>3
  <2>2. \A p \in 0..input.len : Ordinal(Tones, p) \in 0..input.len
    BY <1>3, OrdinalType
  <2> QED BY <1>3, <2>1, <2>2
<1>5. CASE doing' = "parse"
  BY <1>1, <1>2, <1>5 DEF AnglesInv
<1>6. CASE doing' = "collect" /\ i' = 0 /\ UNCHANGED <<at, mode_2_data_index>>
  <2>1. i' \in (0..mode_2_data_index)' /\ num_angles' <= i'
    BY <1>1, <1>2, <1>4, <1>6 DEF ParseInv
  <2>2. \A p \in GoodTones : i' <= Ordinal(Tones, p)
    BY <1>4, <1>6
  <2> QED BY <1>1, <1>2, <1>6, <2>1, <2>2 DEF AnglesInv
<1> QED BY <1>1, <1>5, <1>6

(* What the parser leaves. *)
LEMMA DataParsed ==
    ASSUME ParseInv, doing # "parse"
    PROVE  /\ mode_2_data_index = Ordinal(Tones, input.len)
           /\ mode_1_data_index = Ordinal(Packets, input.len)
           /\ {mode_1_data_index, mode_2_data_index} \subseteq 0..input.len
           /\ \A k \in Nat : k < mode_2_data_index => \E p \in Tones : Ordinal(Tones, p) = k
           /\ \A k \in Nat : k < mode_1_data_index => \E p \in Packets : Ordinal(Packets, p) = k
           /\ \A p \in Tones : Ordinal(Tones, p) < mode_2_data_index
           /\ \A p \in Tones :
                LET sample == mode_2_data[Ordinal(Tones, p)]
                IN  /\ sample.failed <=> Failed(p)
                    /\ sample.channel = Channel(p)
                    /\ sample.local_phase = input.local[p].value
                    /\ sample.peer_phase = input.peer[p].value
           /\ \A p \in Packets :
                LET timing == mode_1_data[Ordinal(Packets, p)]
                IN  /\ timing.failed <=> Failed(p)
                    /\ timing.toa_tod_initiator - timing.tod_toa_reflector = RoundTrip(p)
<1>1. ~local_steps /\ at = input.len /\ input \in Inputs
  BY DEF ParseInv, ArrayTypes
<1>2. PICK n \in Nat : n = input.len
  BY <1>1, InputTypes
<1>3. /\ Positions = 0..(n - 1) /\ input.role \in {"initiator", "reflector"}
      /\ Tones \in SUBSET (0..(n - 1)) /\ Packets \in SUBSET (0..(n - 1)) /\ n \in 0..n
  BY <1>1, <1>2, InputTypes
<1>4. mode_2_data_index = Ordinal(Tones, n) /\ mode_1_data_index = Ordinal(Packets, n)
  BY <1>1, <1>2 DEF ParseInv
<1>5. Ordinal(Tones, n) \in 0..n /\ Ordinal(Packets, n) \in 0..n
  BY <1>3, OrdinalType
<1>6. /\ \A k \in Nat : k < Ordinal(Tones, n) => \E p \in Tones : Ordinal(Tones, p) = k
      /\ \A k \in Nat : k < Ordinal(Packets, n) => \E p \in Packets : Ordinal(Packets, p) = k
  BY <1>3, OrdinalOnto, ZenonT(60)
<1>7. \A p \in Tones : Ordinal(Tones, p) < Ordinal(Tones, n)
  <2>1. \A p \in Tones : p < n
    BY <1>3
  <2> QED BY <1>3, <2>1, OrdinalLess
<1>8. \A p \in Positions : LocalSeen(p) /\ PeerSeen(p) /\ (FailureSeen(p) <=> Failed(p))
  BY <1>1, <1>2, <1>3 DEF LocalSeen, PeerSeen, FailureSeen, Failed
<1>9. Tones \subseteq Positions /\ Packets \subseteq Positions
  BY DEF Tones, Packets
<1>10. ASSUME NEW p \in Tones
       PROVE  LET sample == mode_2_data[Ordinal(Tones, p)]
              IN  /\ sample.failed <=> Failed(p)
                  /\ sample.channel = Channel(p)
                  /\ sample.local_phase = input.local[p].value
                  /\ sample.peer_phase = input.peer[p].value
  <2>1. ToneHeld(p)
    BY DEF ParseInv
  <2> QED BY <1>8, <1>9, <2>1 DEF ToneHeld
<1>11. ASSUME NEW p \in Packets
       PROVE  LET timing == mode_1_data[Ordinal(Packets, p)]
              IN  /\ timing.failed <=> Failed(p)
                  /\ timing.toa_tod_initiator - timing.tod_toa_reflector = RoundTrip(p)
  <2>1. PacketHeld(p)
    BY DEF ParseInv
  <2>2. InitiatorSeen(p) /\ ReflectorSeen(p)
    BY <1>8, <1>9 DEF InitiatorSeen, ReflectorSeen
  <2> QED BY <1>3, <1>8, <1>9, <2>1, <2>2 DEF PacketHeld, AtEnd, RoundTrip
<1> QED BY <1>2, <1>4, <1>5, <1>6, <1>7, <1>10, <1>11

LEMMA AngleCollected == ASSUME ParseInv, AnglesInv, CollectAngle PROVE AnglesInv'
<1>1. /\ doing = "collect" /\ doing' = "collect" /\ i \in Nat /\ i < mode_2_data_index /\ i' = i + 1
      /\ UNCHANGED <<input, mode_2_data, mode_2_data_index>> /\ num_angles <= i
      /\ input \in Inputs /\ mode_2_data \in [Positions -> Samples]
      /\ frequencies \in [Positions -> Nat] /\ theta \in [Positions -> Int]
      /\ num_angles \in 0..input.len
  <2>1. mode_2_data_index \in 0..input.len /\ input.len \in Nat
    BY DataParsed, InputTypes DEF ParseInv, ArrayTypes, CollectAngle
  <2> QED BY <2>1 DEF ParseInv, ArrayTypes, AnglesInv, CollectAngle, parseVars, dataVars
<1>2. /\ mode_2_data_index \in 0..input.len /\ input.len \in Nat /\ Positions = 0..(input.len - 1)
      /\ Tones \in SUBSET (0..(input.len - 1))
      /\ Positions' = Positions /\ Tones' = Tones /\ GoodTones' = GoodTones
      /\ \A q : Channel(q)' = Channel(q) /\ Phase(q)' = Phase(q)
  BY <1>1, DataParsed, InputTypes, InputStays
<1>3. PICK p \in Tones : Ordinal(Tones, p) = i
  BY <1>1, DataParsed
<1>4. LET sample == mode_2_data[i]
      IN  /\ sample.failed <=> Failed(p)
          /\ sample.channel = Channel(p)
          /\ sample.local_phase = input.local[p].value
          /\ sample.peer_phase = input.peer[p].value
  BY <1>1, <1>3, DataParsed
<1>5. \A q \in GoodTones : q \in Tones /\ ~Failed(q) /\ (Ordinal(Tones, q) = i => q = p)
  BY <1>1, <1>3, Numbers DEF GoodTones, Tones
<1>6. \A q \in GoodTones : Collected(q) \/ i <= Ordinal(Tones, q)
  BY <1>1 DEF AnglesInv
<1>7. \A q \in GoodTones : Ordinal(Tones, q) \in Nat
  <2>1. \A q \in Tones : Ordinal(Tones, q) \in Positions
    BY <1>1, Numbers
  <2>2. Positions \subseteq Nat
    BY <1>2
  <2> QED BY <1>5, <2>1, <2>2
<1>8. \A k \in Angles : Genuine(k)
  BY DEF AnglesInv
<1>9. i' \in (0..mode_2_data_index)'
  BY <1>1, <1>2
<1>10. CASE mode_2_data[i].failed
  <2>1. UNCHANGED <<frequencies, theta, num_angles>>
    BY <1>10 DEF CollectAngle, angleVars
  <2>2. \A k \in Angles : Genuine(k)'
    BY <1>2, <1>8, <2>1 DEF Genuine
  <2>3. ASSUME NEW q \in GoodTones PROVE Collected(q)' \/ i' <= Ordinal(Tones, q)
    <3>1. CASE Collected(q)
      BY <1>2, <2>1, <3>1 DEF Collected, Angles
    <3>2. CASE i <= Ordinal(Tones, q)
      <4>1. Ordinal(Tones, q) # i
        BY <1>4, <1>5, <1>10
      <4> QED BY <1>1, <1>7, <3>2, <4>1
    <3> QED BY <1>6, <3>1, <3>2
  <2>4. Angles' = Angles /\ num_angles' <= i'
    BY <1>1, <1>2, <2>1 DEF Angles
  <2> QED BY <1>1, <1>2, <1>9, <2>1, <2>2, <2>3, <2>4 DEF AnglesInv
<1>11. CASE ~mode_2_data[i].failed
  <2> DEFINE n == num_angles
             sample == mode_2_data[i]
  <2>1. /\ frequencies' = [frequencies EXCEPT ![n] = sample.channel]
        /\ theta' = [theta EXCEPT ![n] = CombinedPhase(sample)]
        /\ num_angles' = n + 1
    BY <1>11 DEF CollectAngle
  <2>2. n \in Positions /\ n + 1 <= i' /\ n + 1 \in 0..input.len /\ Angles' = Angles \cup {n}
        /\ n \notin Angles /\ Angles \subseteq Positions
    BY <1>1, <1>2, <2>1 DEF Angles
  <2>3. p \in GoodTones /\ p \in Positions
    BY <1>2, <1>3, <1>4, <1>11 DEF GoodTones, Tones
  <2>4. /\ Channel(p) \in Nat /\ Phase(p) \in Int /\ CombinedPhase(sample) = Wrapped(Phase(p))
    BY <1>1, <1>4, <2>3, InputTypes DEF Channel, Phase, CombinedPhase
  <2>5. /\ CombinedPhase(sample) \in Int
        /\ (CombinedPhase(sample) - Phase(p)) % (2 * HalfTurn) = 0
    <3>1. Wrapped(Phase(p)) \in (1 - HalfTurn)..HalfTurn /\ HalfTurn \in Nat
          /\ (Wrapped(Phase(p)) - Phase(p)) % (2 * HalfTurn) = 0
      BY <2>4, WrappedPhase, EstimationAssumption
    <3> QED BY <2>4, <3>1
  <2> HIDE DEF n, sample
  <2>6. sample.channel = Channel(p)
    BY <1>4 DEF sample
  <2>7. /\ frequencies' \in [Positions -> Nat] /\ theta' \in [Positions -> Int]
        /\ frequencies'[n] = Channel(p) /\ theta'[n] = CombinedPhase(sample)
        /\ \A k \in Angles : frequencies'[k] = frequencies[k] /\ theta'[k] = theta[k]
    BY <1>1, <2>1, <2>2, <2>4, <2>5, <2>6
  <2>8. ASSUME NEW k \in Angles' PROVE Genuine(k)'
    <3>1. CASE k \in Angles
      BY <1>2, <1>8, <2>7, <3>1 DEF Genuine
    <3>2. CASE k = n
      BY <1>2, <2>3, <2>5, <2>7, <3>2 DEF Genuine
    <3> QED BY <2>2, <3>1, <3>2
  <2>9. ASSUME NEW q \in GoodTones PROVE Collected(q)' \/ i' <= Ordinal(Tones, q)
    <3>1. CASE Collected(q)
      BY <1>2, <2>2, <2>7, <3>1 DEF Collected
    <3>2. CASE i <= Ordinal(Tones, q) /\ Ordinal(Tones, q) # i
      BY <1>1, <1>7, <3>2
    <3>3. CASE Ordinal(Tones, q) = i
      BY <1>2, <1>5, <2>2, <2>7, <3>3 DEF Collected
    <3> QED BY <1>6, <3>1, <3>2, <3>3
  <2>10. num_angles' \in 0..input'.len /\ num_angles' <= i'
    BY <1>1, <2>1, <2>2
  <2> QED BY <1>1, <1>2, <1>9, <2>7, <2>8, <2>9, <2>10 DEF AnglesInv
<1> QED BY <1>10, <1>11

(* Two neighbours change places, in both arrays. *)
LEMMA AnglesSwapped ==
    ASSUME ParseInv, AnglesInv, SortInv, Compare, frequencies[j] > frequencies[j + 1]
    PROVE  /\ frequencies' \in [Positions -> Nat]
           /\ frequencies'[j] = frequencies[j + 1] /\ frequencies'[j + 1] = frequencies[j]
           /\ \A l \in Positions \ {j, j + 1} : frequencies'[l] = frequencies[l]
           /\ theta' \in [Positions -> Int]
           /\ theta'[j] = theta[j + 1] /\ theta'[j + 1] = theta[j]
           /\ \A l \in Positions \ {j, j + 1} : theta'[l] = theta[l]
<1>1. /\ i \in 0..(num_angles - 2) /\ j \in 0..(num_angles - i - 1) /\ j < num_angles - i - 1
      /\ input \in Inputs /\ num_angles \in 0..input.len
      /\ frequencies \in [Positions -> Nat] /\ theta \in [Positions -> Int]
  BY DEF ParseInv, ArrayTypes, AnglesInv, SortInv, Compare
<1>2. input.len \in Nat /\ Positions = 0..(input.len - 1)
  BY <1>1, InputTypes
<1>3. j \in Positions /\ j + 1 \in Positions /\ j # j + 1
  BY <1>1, <1>2
<1>4. frequencies' = Exchange(frequencies, j) /\ theta' = Exchange(theta, j)
  BY DEF Compare, SwapBoth
<1>5. /\ frequencies' \in [Positions -> Nat]
      /\ frequencies'[j] = frequencies[j + 1] /\ frequencies'[j + 1] = frequencies[j]
      /\ \A l \in Positions \ {j, j + 1} : frequencies'[l] = frequencies[l]
  BY <1>1, <1>3, <1>4 DEF Exchange
<1>6. /\ theta' \in [Positions -> Int]
      /\ theta'[j] = theta[j + 1] /\ theta'[j + 1] = theta[j]
      /\ \A l \in Positions \ {j, j + 1} : theta'[l] = theta[l]
  BY <1>1, <1>3, <1>4 DEF Exchange
<1> QED BY <1>5, <1>6

LEMMA AnglesCompared == ASSUME ParseInv, AnglesInv, SortInv, Compare PROVE AnglesInv'
<1>1. /\ doing = "sort" /\ doing' = "sort" /\ UNCHANGED <<input, num_angles>>
      /\ i \in 0..(num_angles - 2) /\ j \in 0..(num_angles - i - 1) /\ j < num_angles - i - 1
      /\ input \in Inputs /\ num_angles \in 0..input.len
      /\ frequencies \in [Positions -> Nat] /\ theta \in [Positions -> Int]
  BY DEF ParseInv, ArrayTypes, AnglesInv, SortInv, Compare
<1>2. /\ Positions' = Positions /\ GoodTones' = GoodTones /\ Angles' = Angles
      /\ \A p : Channel(p)' = Channel(p) /\ Phase(p)' = Phase(p)
  BY <1>1, InputStays DEF Angles
<1>3. input.len \in Nat /\ Positions = 0..(input.len - 1)
  BY <1>1, InputTypes
<1>4. j \in Angles /\ j + 1 \in Angles /\ Angles \subseteq Positions /\ j # j + 1
  BY <1>1, <1>3 DEF Angles
<1>5. (\A k \in Angles : Genuine(k)) /\ (\A p \in GoodTones : Collected(p))
  BY <1>1 DEF AnglesInv
<1>6. CASE frequencies[j] > frequencies[j + 1]
  <2>2. /\ frequencies' \in [Positions -> Nat]
        /\ frequencies'[j] = frequencies[j + 1] /\ frequencies'[j + 1] = frequencies[j]
        /\ \A l \in Positions \ {j, j + 1} : frequencies'[l] = frequencies[l]
    BY <1>6, AnglesSwapped
  <2>3. /\ theta' \in [Positions -> Int]
        /\ theta'[j] = theta[j + 1] /\ theta'[j + 1] = theta[j]
        /\ \A l \in Positions \ {j, j + 1} : theta'[l] = theta[l]
    BY <1>6, AnglesSwapped
  <2>4. ASSUME NEW k \in Angles PROVE Genuine(k)'
    <3>1. PICK l \in Angles : frequencies'[k] = frequencies[l] /\ theta'[k] = theta[l]
      BY <1>4, <2>2, <2>3
    <3> QED BY <1>2, <1>5, <3>1 DEF Genuine
  <2>5. ASSUME NEW p \in GoodTones PROVE Collected(p)'
    <3>1. PICK k \in Angles : frequencies[k] = Channel(p)
      BY <1>5 DEF Collected
    <3>2. \E l \in Angles : frequencies'[l] = frequencies[k]
      BY <1>4, <2>2
    <3> QED BY <1>2, <3>1, <3>2 DEF Collected
  <2> QED BY <1>1, <1>2, <2>2, <2>3, <2>4, <2>5 DEF AnglesInv
<1>7. CASE ~(frequencies[j] > frequencies[j + 1])
  <2>1. UNCHANGED angleVars
    BY <1>1, <1>7 DEF Compare, angleVars
  <2> QED BY <1>1, <1>5, <2>1, AnglesStay
<1> QED BY <1>6, <1>7

LEMMA AnglesUnwrapped ==
    ASSUME ParseInv, AnglesInv, UnwrapInv, Unwrap
    PROVE  AnglesInv'
<1>1. /\ doing = "unwrap" /\ doing' = "unwrap" /\ UNCHANGED <<input, num_angles, frequencies>>
      /\ input \in Inputs /\ num_angles \in 0..input.len /\ i \in 1..num_angles
      /\ frequencies \in [Positions -> Nat] /\ theta \in [Positions -> Int]
  BY DEF ParseInv, ArrayTypes, AnglesInv, UnwrapInv, Unwrap
<1>2. /\ Positions' = Positions /\ GoodTones' = GoodTones /\ Angles' = Angles
      /\ \A p : Channel(p)' = Channel(p) /\ Phase(p)' = Phase(p)
  BY <1>1, InputStays DEF Angles
<1>3. Angles \subseteq Positions /\ \A p \in GoodTones : Phase(p) \in Int
  BY <1>1, InputTypes DEF Angles, GoodTones, Phase
<1>4. (\A k \in Angles : Genuine(k)) /\ (\A p \in GoodTones : Collected(p))
  BY <1>1 DEF AnglesInv
<1>5. PICK turn \in {-1, 0, 1} : theta' = ShiftFrom(i, 2 * HalfTurn * turn)
  <2>1. /\ 2 * HalfTurn * 1 = 2 * HalfTurn /\ 2 * HalfTurn * 0 = 0
        /\ 2 * HalfTurn * (-1) = -2 * HalfTurn
    BY EstimationAssumption
  <2> QED BY <2>1 DEF Unwrap
<1>6. PICK m \in Nat : m = 2 * HalfTurn
  BY EstimationAssumption
<1>7. theta' = [k \in Positions |-> IF k < i THEN theta[k] ELSE theta[k] + m * turn]
  BY <1>1, <1>5, <1>6 DEF ShiftFrom
<1>8. m * turn \in Int
  OBVIOUS
<1>9. theta' \in [Positions -> Int]
  BY <1>1, <1>7, <1>8
<1>10. ASSUME NEW k \in Angles PROVE Genuine(k)'
  <2>1. PICK p \in GoodTones : frequencies[k] = Channel(p) /\ (theta[k] - Phase(p)) % (2 * HalfTurn) = 0
    BY <1>4 DEF Genuine
  <2>2. theta[k] \in Int /\ Phase(p) \in Int /\ theta'[k] \in Int
    BY <1>1, <1>3, <1>9
  <2>3. PICK z \in Int : theta[k] - Phase(p) = m * z
    BY <1>6, <2>1, <2>2, TurnsAreMultiples
  <2>4. CASE theta'[k] = theta[k]
    BY <1>1, <1>2, <2>1, <2>4 DEF Genuine
  <2>5. CASE theta'[k] = theta[k] + m * turn
    <3>1. theta'[k] - Phase(p) = m * (z + turn) /\ z + turn \in Int
      BY <2>2, <2>3, <2>5
    <3>2. (theta'[k] - Phase(p)) % (2 * HalfTurn) = 0
      BY <1>6, <2>2, <3>1, TurnsAreMultiples
    <3> QED BY <1>1, <1>2, <2>1, <3>2 DEF Genuine
  <2> QED BY <1>3, <1>7, <2>4, <2>5
<1>11. \A p \in GoodTones : Collected(p)'
  BY <1>1, <1>2, <1>4 DEF Collected
<1> QED BY <1>1, <1>2, <1>9, <1>10, <1>11 DEF AnglesInv

LEMMA AnglesNext ==
    ParseInv /\ AnglesInv /\ SortInv /\ UnwrapInv /\ [EstimateNext]_estimateVars => AnglesInv'
<1> SUFFICES ASSUME ParseInv, AnglesInv, SortInv, UnwrapInv, [EstimateNext]_estimateVars
             PROVE  AnglesInv'
  OBVIOUS
<1>1. CASE process_step_data \/ ParsePeerSteps \/ StepsParsed
  BY <1>1, AnglesWait
<1>2. CASE CollectAngle
  BY <1>2, AngleCollected
<1>3. CASE AnglesCollected
  <2>1. /\ doing = "collect" /\ i = mode_2_data_index /\ doing' \notin {"parse", "collect"}
        /\ UNCHANGED <<input, angleVars>>
    BY <1>3 DEF AnglesCollected
  <2>2. /\ mode_2_data_index \in 0..input.len /\ input.len \in Nat
        /\ \A p \in Tones : Ordinal(Tones, p) < mode_2_data_index /\ Ordinal(Tones, p) \in Nat
        /\ GoodTones \subseteq Tones
    <3>1. input \in Inputs /\ doing # "parse"
      BY <2>1 DEF ParseInv, ArrayTypes
    <3>2. \A p \in Tones : Ordinal(Tones, p) \in Nat
      BY <3>1, Numbers, InputTypes
    <3> QED BY <3>1, <3>2, DataParsed, InputTypes DEF GoodTones, Tones
  <2>3. \A p \in GoodTones : Collected(p)
    BY <2>1, <2>2 DEF AnglesInv
  <2> QED BY <2>1, <2>3, AnglesStay
<1>4. CASE Compare
  BY <1>4, AnglesCompared
<1>5. CASE Unwrap
  BY <1>5, AnglesUnwrapped
<1>6. CASE PassEnds \/ Regress \/ Average \/ Finish
  <2>1. UNCHANGED <<input, angleVars>> /\ doing' \notin {"parse", "collect"}
        /\ doing \notin {"parse", "collect"}
    BY <1>6 DEF PassEnds, Regress, Average, Finish
  <2> QED BY <2>1, AnglesStay
<1>7. CASE UNCHANGED estimateVars
  <2>1. UNCHANGED <<input, doing, frequencies, theta, num_angles, i, mode_2_data_index>>
    BY <1>7 DEF estimateVars, angleVars, loopVars, parseVars, dataVars
  <2>2. /\ Positions' = Positions /\ GoodTones' = GoodTones /\ Angles' = Angles /\ Tones' = Tones
        /\ \A p : Channel(p)' = Channel(p) /\ Phase(p)' = Phase(p)
    BY <2>1, InputStays DEF Angles
  <2> QED BY <2>1, <2>2 DEF AnglesInv, Genuine, Collected
<1> QED BY <1>1, <1>2, <1>3, <1>4, <1>5, <1>6, <1>7 DEF EstimateNext

----------------------------------------------------------------------------
(* The sort. *)

----------------------------------------------------------------------------
(* The number of angles. *)

LEMMA CountInit == EstimateInit => CountInv
  BY DEF EstimateInit, CountInv

LEMMA CountBegins == ASSUME ParseInv, AnglesInv, StepsParsed PROVE CountInv'
<1>1. doing = "parse" /\ doing' = "collect" /\ i' = 0 /\ UNCHANGED <<input, num_angles>>
  BY DEF StepsParsed, angleVars
<1>2. num_angles = 0 /\ GoodTones' = GoodTones /\ Tones' = Tones /\ input \in Inputs
  BY <1>1, InputStays DEF ParseInv, ArrayTypes, AnglesInv
<1>3. \A p \in GoodTones : ~(Ordinal(Tones, p) < 0)
  <2>1. \A p \in GoodTones : Ordinal(Tones, p) \in Nat
    <3>1. \A p \in Tones : Ordinal(Tones, p) \in Nat
      BY <1>2, Numbers, InputTypes
    <3> QED BY <3>1 DEF GoodTones, Tones
  <2> QED BY <2>1
<1>4. \A p \in GoodTones' : ~Reached(p)'
  BY <1>1, <1>2, <1>3 DEF Reached
<1> QED BY <1>1, <1>2, <1>4 DEF CountInv

LEMMA AngleCounted == ASSUME ParseInv, AnglesInv, CountInv, CollectAngle PROVE CountInv'
<1>1. /\ doing = "collect" /\ doing' = "collect" /\ i \in Nat /\ i < mode_2_data_index /\ i' = i + 1
      /\ input' = input /\ num_angles \in Nat /\ input \in Inputs
      /\ num_angles' = IF mode_2_data[i].failed THEN num_angles ELSE num_angles + 1
  BY DEF ParseInv, ArrayTypes, CountInv, CollectAngle, angleVars
<1>2. GoodTones' = GoodTones /\ Tones' = Tones
  BY <1>1, InputStays
<1>3. PICK p \in Tones : Ordinal(Tones, p) = i
  BY <1>1, DataParsed
<1>4. mode_2_data[i].failed <=> p \notin GoodTones
  <2>1. mode_2_data[i].failed <=> Failed(p)
    BY <1>1, <1>3, DataParsed
  <2> QED BY <2>1 DEF GoodTones, Tones
<1>5. \A q \in GoodTones : Ordinal(Tones, q) \in Nat /\ (Ordinal(Tones, q) = i => q = p)
  <2>1. \A q \in Tones : Ordinal(Tones, q) \in Nat /\ (q # p => Ordinal(Tones, q) # i)
    BY <1>1, <1>3, Numbers, InputTypes
  <2> QED BY <2>1 DEF GoodTones, Tones
<1>6. \A q \in GoodTones : Reached(q)' <=> Reached(q) \/ q = p
  <2> SUFFICES ASSUME NEW q \in GoodTones
               PROVE  Ordinal(Tones, q) < i + 1 <=> Ordinal(Tones, q) < i \/ q = p
    BY <1>1, <1>2 DEF Reached
  <2> QED BY <1>1, <1>3, <1>5
<1>7. ~Reached(p)
  BY <1>1, <1>3 DEF Reached
<1>8. /\ num_angles >= 1 <=> \E q \in GoodTones : Reached(q)
      /\ num_angles >= 2 <=> \E q, r \in GoodTones : q # r /\ Reached(q) /\ Reached(r)
  BY <1>1 DEF CountInv
<1>9. CASE p \notin GoodTones
  <2>1. \A q \in GoodTones : Reached(q)' <=> Reached(q)
    BY <1>6, <1>9
  <2>2. num_angles' = num_angles
    BY <1>1, <1>4, <1>9
  <2> QED BY <1>1, <1>2, <1>8, <2>1, <2>2 DEF CountInv
<1>10. CASE p \in GoodTones
  <2>1. num_angles' = num_angles + 1
    BY <1>1, <1>4, <1>10
  <2>2. \E q \in GoodTones : Reached(q)'
    BY <1>6, <1>10
  <2>3. (\E q, r \in GoodTones : q # r /\ Reached(q)' /\ Reached(r)') <=> num_angles >= 1
    BY <1>6, <1>7, <1>8, <1>10, Zenon
  <2>4. num_angles' >= 1 /\ (num_angles' >= 2 <=> num_angles >= 1) /\ num_angles' \in Nat
        /\ i' \in Nat
    BY <1>1, <2>1
  <2> QED BY <1>1, <1>2, <2>2, <2>3, <2>4 DEF CountInv
<1> QED BY <1>9, <1>10

LEMMA AnglesCounted == ASSUME ParseInv, CountInv, AnglesCollected PROVE CountInv'
<1>1. /\ doing = "collect" /\ doing' \notin {"parse", "collect"} /\ i = mode_2_data_index
      /\ UNCHANGED <<input, num_angles>>
  BY DEF AnglesCollected, angleVars
<1>2. TwoTones' <=> TwoTones
  BY <1>1, InputStays DEF TwoTones
<1>3. \A p \in GoodTones : Reached(p)
  <2>1. \A p \in Tones : Ordinal(Tones, p) < mode_2_data_index
    BY <1>1, DataParsed
  <2> QED BY <1>1, <2>1 DEF Reached, GoodTones, Tones
<1> QED BY <1>1, <1>2, <1>3 DEF CountInv, TwoTones

LEMMA CountNext ==
    ParseInv /\ AnglesInv /\ CountInv /\ [EstimateNext]_estimateVars => CountInv'
<1> SUFFICES ASSUME ParseInv, AnglesInv, CountInv, [EstimateNext]_estimateVars PROVE CountInv'
  OBVIOUS
<1>1. CASE process_step_data \/ ParsePeerSteps
  BY <1>1 DEF process_step_data, ParsePeerSteps, CountInv
<1>2. CASE StepsParsed
  BY <1>2, CountBegins
<1>3. CASE CollectAngle
  BY <1>3, AngleCounted
<1>4. CASE AnglesCollected
  BY <1>4, AnglesCounted
<1>5. CASE Compare \/ PassEnds \/ Unwrap \/ Regress \/ Average \/ Finish
  <2>1. /\ doing \notin {"parse", "collect"} /\ doing' \notin {"parse", "collect"}
        /\ UNCHANGED <<input, num_angles>>
    BY <1>5 DEF Compare, PassEnds, Unwrap, Regress, Average, Finish, angleVars
  <2>2. TwoTones' <=> TwoTones
    BY <2>1, InputStays DEF TwoTones
  <2> QED BY <2>1, <2>2 DEF CountInv
<1>6. CASE UNCHANGED estimateVars
  <2>1. UNCHANGED <<input, doing, num_angles, i>>
    BY <1>6 DEF estimateVars, angleVars, loopVars
  <2>2. (TwoTones' <=> TwoTones) /\ GoodTones' = GoodTones /\ Tones' = Tones
    BY <2>1, InputStays DEF TwoTones
  <2>3. \A p : Reached(p)' <=> Reached(p)
    BY <2>1, <2>2 DEF Reached
  <2> QED BY <2>1, <2>2, <2>3 DEF CountInv
<1> QED BY <1>1, <1>2, <1>3, <1>4, <1>5, <1>6 DEF EstimateNext

LEMMA SortInit == EstimateInit => SortInv
  BY DEF EstimateInit, SortInv

(* The angle that the loop adds is within a turn. *)
LEMMA AngleWraps == ASSUME ParseInv, AnglesInv, SortInv, CollectAngle PROVE SortInv'
<1>1. /\ doing = "collect" /\ doing' = "collect"
      /\ mode_2_data \in [Positions -> Samples] /\ input \in Inputs /\ i \in Nat
      /\ i < mode_2_data_index /\ theta \in [Positions -> Int]
      /\ num_angles \in 0..input.len /\ num_angles <= i /\ input.len \in Nat
      /\ i \in Positions /\ Positions = 0..(input.len - 1)
  <2>1. /\ mode_2_data_index \in 0..input.len /\ input.len \in Nat
        /\ Positions = 0..(input.len - 1)
    BY DataParsed, InputTypes DEF ParseInv, ArrayTypes, CollectAngle
  <2> QED BY <2>1 DEF ParseInv, ArrayTypes, AnglesInv, CollectAngle
<1>2. \A k \in Angles : theta[k] \in (1 - HalfTurn)..HalfTurn
  BY <1>1 DEF SortInv
<1>3. CASE mode_2_data[i].failed
  <2>1. UNCHANGED <<theta, num_angles>>
    BY <1>3 DEF CollectAngle, angleVars
  <2> QED BY <1>1, <1>2, <2>1 DEF SortInv, Angles
<1>4. CASE ~mode_2_data[i].failed
  <2>1. /\ theta' = [theta EXCEPT ![num_angles] = CombinedPhase(mode_2_data[i])]
        /\ num_angles' = num_angles + 1
    BY <1>4 DEF CollectAngle
  <2>2. mode_2_data[i].local_phase + mode_2_data[i].peer_phase \in Int
    BY <1>1 DEF Samples
  <2>3. CombinedPhase(mode_2_data[i]) \in (1 - HalfTurn)..HalfTurn
    BY <2>2, WrappedPhase DEF CombinedPhase
  <2>4. num_angles \in Positions /\ Angles' = Angles \cup {num_angles} /\ num_angles \notin Angles
        /\ Angles \subseteq Positions
    BY <1>1, <2>1 DEF Angles
  <2>5. \A k \in Angles' : theta'[k] \in (1 - HalfTurn)..HalfTurn
    BY <1>1, <1>2, <2>1, <2>3, <2>4
  <2> QED BY <1>1, <2>5 DEF SortInv
<1> QED BY <1>3, <1>4

LEMMA SortCompares == ASSUME ParseInv, AnglesInv, SortInv, Compare PROVE SortInv'
<1>1. /\ doing = "sort" /\ doing' = "sort" /\ UNCHANGED <<i, num_angles>> /\ j' = j + 1
      /\ i \in 0..(num_angles - 2) /\ j \in 0..(num_angles - i - 1) /\ j < num_angles - i - 1
      /\ num_angles >= 2 /\ num_angles \in Nat
      /\ input \in Inputs /\ num_angles \in 0..input.len
      /\ frequencies \in [Positions -> Nat] /\ theta \in [Positions -> Int]
  <2>1. num_angles \in Nat
    BY InputTypes DEF ParseInv, ArrayTypes, AnglesInv
  <2> QED BY <2>1 DEF ParseInv, ArrayTypes, AnglesInv, SortInv, Compare
<1>2. input.len \in Nat /\ Positions = 0..(input.len - 1)
  BY <1>1, InputTypes
<1>3. /\ j \in Angles /\ j + 1 \in Angles /\ Angles \subseteq Positions /\ Angles' = Angles
      /\ 0..(j + 1) \subseteq Angles /\ Angles \subseteq Nat
  BY <1>1, <1>2 DEF Angles
<1>4. /\ \A k \in Angles : theta[k] \in (1 - HalfTurn)..HalfTurn
      /\ \A k, l \in Angles : k < l /\ num_angles - i <= l => frequencies[k] <= frequencies[l]
      /\ \A k \in 0..j : frequencies[k] <= frequencies[j]
      /\ ~swapped => Ascending(j)
  BY <1>1 DEF SortInv
<1>5. \A k \in Angles : frequencies[k] \in Nat
  BY <1>1, <1>3
<1>6. j' \in 0..(num_angles - i - 1)
  BY <1>1
<1>7. CASE frequencies[j] > frequencies[j + 1]
  <2>1. /\ frequencies'[j] = frequencies[j + 1] /\ frequencies'[j + 1] = frequencies[j]
        /\ \A l \in Positions \ {j, j + 1} : frequencies'[l] = frequencies[l]
        /\ theta'[j] = theta[j + 1] /\ theta'[j + 1] = theta[j]
        /\ \A l \in Positions \ {j, j + 1} : theta'[l] = theta[l]
    BY <1>7, AnglesSwapped
  <2>2. \A k \in Angles : theta'[k] \in (1 - HalfTurn)..HalfTurn
    BY <1>3, <1>4, <2>1
  <2>3. ASSUME NEW k \in Angles, NEW l \in Angles, k < l, num_angles - i <= l
        PROVE  frequencies'[k] <= frequencies'[l]
    <3>1. l \in Positions \ {j, j + 1} /\ j < l /\ j + 1 < l
      BY <1>1, <1>3, <2>3
    <3>2. frequencies'[l] = frequencies[l]
      BY <2>1, <3>1
    <3>3. \E m \in Angles : m < l /\ frequencies'[k] = frequencies[m]
      <4>1. CASE k = j
        BY <1>3, <2>1, <3>1, <4>1
      <4>2. CASE k = j + 1
        BY <1>3, <2>1, <3>1, <4>2
      <4>3. CASE k \notin {j, j + 1}
        BY <1>3, <2>1, <2>3, <4>3
      <4> QED BY <4>1, <4>2, <4>3
    <3> QED BY <1>4, <2>3, <3>2, <3>3
  <2>4. \A k \in 0..(j + 1) : frequencies'[k] <= frequencies'[j + 1]
    <3> SUFFICES ASSUME NEW k \in 0..(j + 1) PROVE frequencies'[k] <= frequencies[j]
      BY <2>1
    <3>1. CASE k = j
      BY <1>3, <1>5, <1>7, <2>1, <3>1
    <3>2. CASE k = j + 1
      BY <1>3, <1>5, <2>1, <3>2
    <3>3. CASE k \notin {j, j + 1}
      <4>1. k \in 0..j /\ k \in Positions \ {j, j + 1}
        BY <1>1, <1>3, <3>3
      <4> QED BY <1>4, <2>1, <4>1
    <3> QED BY <3>1, <3>2, <3>3
  <2>5. swapped' = TRUE
    BY <1>7 DEF Compare, SwapBoth
  <2> QED BY <1>1, <1>3, <1>6, <2>2, <2>3, <2>4, <2>5 DEF SortInv
<1>8. CASE ~(frequencies[j] > frequencies[j + 1])
  <2>1. UNCHANGED <<frequencies, theta, swapped>>
    BY <1>8 DEF Compare
  <2>2. \A k \in 0..(j + 1) : frequencies[k] <= frequencies[j + 1]
    <3> SUFFICES ASSUME NEW k \in 0..(j + 1) PROVE frequencies[k] <= frequencies[j + 1]
      OBVIOUS
    <3>1. frequencies[j] <= frequencies[j + 1] /\ frequencies[j] \in Nat
          /\ frequencies[j + 1] \in Nat /\ frequencies[k] \in Nat
      BY <1>3, <1>5, <1>8
    <3>2. CASE k = j + 1
      BY <3>1, <3>2
    <3>3. CASE k # j + 1
      <4>1. frequencies[k] <= frequencies[j]
        BY <1>1, <1>4, <3>3
      <4> QED BY <3>1, <4>1
    <3> QED BY <3>2, <3>3
  <2>3. ASSUME ~swapped PROVE Ascending(j)'
    <3> SUFFICES ASSUME NEW k \in Angles, NEW l \in Angles, k < l, l <= j + 1
                 PROVE  frequencies[k] <= frequencies[l]
      BY <1>1, <1>3, <2>1 DEF Ascending
    <3>1. CASE l = j + 1
      <4>1. k \in 0..(j + 1)
        BY <1>1, <1>3, <3>1
      <4> QED BY <2>2, <3>1, <4>1
    <3>2. CASE l # j + 1
      <4>1. l <= j
        BY <1>1, <1>3, <3>2
      <4> QED BY <1>4, <2>3, <4>1 DEF Ascending
    <3> QED BY <3>1, <3>2
  <2>4. \A k, l \in Angles : k < l /\ num_angles - i <= l => frequencies'[k] <= frequencies'[l]
    BY <1>4, <2>1
  <2>5. \A k \in 0..(j + 1) : frequencies'[k] <= frequencies'[j + 1]
    BY <2>1, <2>2
  <2>6. \A k \in Angles : theta'[k] \in (1 - HalfTurn)..HalfTurn
    BY <1>4, <2>1
  <2> QED BY <1>1, <1>3, <1>6, <2>1, <2>3, <2>4, <2>5, <2>6 DEF SortInv
<1> QED BY <1>7, <1>8

(* A pass puts one more angle into its place; the last one sorts them. *)
LEMMA PassSorts == ASSUME ParseInv, AnglesInv, SortInv, PassEnds PROVE SortInv'
<1>1. /\ doing = "sort" /\ UNCHANGED <<frequencies, theta, num_angles>>
      /\ i \in 0..(num_angles - 2) /\ j = num_angles - i - 1
      /\ num_angles >= 2 /\ num_angles \in Nat
      /\ input \in Inputs /\ num_angles \in 0..input.len
      /\ frequencies \in [Positions -> Nat]
  <2>1. num_angles \in Nat
    BY InputTypes DEF ParseInv, ArrayTypes, AnglesInv
  <2> QED BY <2>1 DEF ParseInv, ArrayTypes, AnglesInv, SortInv, PassEnds, angleVars
<1>2. Angles' = Angles /\ Angles = 0..(num_angles - 1) /\ j \in Nat
  BY <1>1 DEF Angles
<1>3. /\ \A k \in Angles : theta[k] \in (1 - HalfTurn)..HalfTurn
      /\ \A k, l \in Angles : k < l /\ num_angles - i <= l => frequencies[k] <= frequencies[l]
      /\ \A k \in 0..j : frequencies[k] <= frequencies[j]
      /\ ~swapped => Ascending(j)
  BY <1>1 DEF SortInv
<1>4. \A k, l \in Angles : k < l /\ j <= l => frequencies[k] <= frequencies[l]
  <2> SUFFICES ASSUME NEW k \in Angles, NEW l \in Angles, k < l, j <= l
               PROVE  frequencies[k] <= frequencies[l]
    OBVIOUS
  <2>1. CASE l = j
    <3>1. k \in 0..j
      BY <1>2, <2>1
    <3> QED BY <1>3, <2>1, <3>1
  <2>2. CASE l # j
    <3>1. num_angles - i <= l
      BY <1>1, <1>2, <2>2
    <3> QED BY <1>3, <3>1
  <2> QED BY <2>1, <2>2
<1>5. CASE swapped /\ i + 1 < num_angles - 1
  <2>1. i' = i + 1 /\ j' = 0 /\ swapped' = FALSE /\ doing' = "sort"
    BY <1>1, <1>5 DEF PassEnds
  <2>2. i' \in 0..(num_angles - 2) /\ j' \in 0..(num_angles - i' - 1)
    BY <1>1, <1>5, <2>1
  <2>3. \A k, l \in Angles : k < l /\ num_angles - i' <= l => frequencies'[k] <= frequencies'[l]
    <3>1. num_angles - i' = j
      BY <1>1, <2>1
    <3> QED BY <1>1, <1>4, <3>1
  <2>4. \A k \in 0..j' : frequencies'[k] <= frequencies'[j']
    <3>1. 0 \in Angles /\ frequencies[0] \in Nat
      <4>1. 0 \in Positions
        BY <1>1, InputTypes
      <4> QED BY <1>1, <1>2, <4>1
    <3>2. \A k \in 0..j' : k = 0
      BY <2>1
    <3> QED BY <1>1, <2>1, <3>1, <3>2
  <2>5. Ascending(j)'
    <3>1. \A k, l \in Angles : ~(k < l /\ l <= 0)
      BY <1>1, <1>2
    <3> QED BY <1>2, <2>1, <3>1 DEF Ascending
  <2> QED BY <1>1, <1>2, <1>3, <2>1, <2>2, <2>3, <2>4, <2>5 DEF SortInv
<1>6. CASE ~(swapped /\ i + 1 < num_angles - 1)
  <2>1. doing' = "unwrap"
    BY <1>6 DEF PassEnds
  <2>2. Ascending(num_angles - 1)'
    <3> SUFFICES ASSUME NEW k \in Angles, NEW l \in Angles, k < l
                 PROVE  frequencies[k] <= frequencies[l]
      BY <1>1, <1>2 DEF Ascending
    <3>1. CASE j <= l
      BY <1>4, <3>1
    <3>2. CASE ~(j <= l)
      <4>1. CASE swapped
        <5>1. j = 1
          BY <1>1, <1>6, <4>1
        <5> QED BY <1>2, <3>2, <5>1
      <4>2. CASE ~swapped
        <5>1. l <= j
          BY <1>2, <3>2
        <5> QED BY <1>3, <4>2, <5>1 DEF Ascending
      <4> QED BY <4>1, <4>2
    <3> QED BY <3>1, <3>2
  <2> QED BY <1>1, <2>1, <2>2 DEF SortInv
<1> QED BY <1>5, <1>6

LEMMA SortNext ==
    ParseInv /\ AnglesInv /\ SortInv /\ [EstimateNext]_estimateVars => SortInv'
<1> SUFFICES ASSUME ParseInv, AnglesInv, SortInv, [EstimateNext]_estimateVars PROVE SortInv'
  OBVIOUS
<1>0. num_angles \in Nat
  BY InputTypes DEF ParseInv, ArrayTypes, AnglesInv
<1>1. CASE process_step_data \/ ParsePeerSteps \/ StepsParsed
  <2>1. doing = "parse" /\ doing' \in {"parse", "collect"} /\ UNCHANGED num_angles
    BY <1>1 DEF process_step_data, ParsePeerSteps, StepsParsed, angleVars
  <2>2. Angles' = {}
    BY <2>1 DEF AnglesInv, Angles
  <2> QED BY <2>1, <2>2 DEF SortInv
<1>2. CASE CollectAngle
  BY <1>2, AngleWraps
<1>3. CASE AnglesCollected
  <2>1. /\ doing = "collect" /\ UNCHANGED <<theta, frequencies, num_angles>>
        /\ doing' = IF num_angles < 2 THEN "average" ELSE "sort"
        /\ i' = 0 /\ j' = 0 /\ swapped' = FALSE
    BY <1>3 DEF AnglesCollected, angleVars
  <2>2. Angles' = Angles /\ Angles = 0..(num_angles - 1)
    BY <2>1 DEF Angles
  <2>3. CASE num_angles < 2
    BY <2>1, <2>3 DEF SortInv
  <2>4. CASE ~(num_angles < 2)
    <3>1. i' \in 0..(num_angles - 2) /\ j' \in 0..(num_angles - i' - 1) /\ num_angles >= 2
      BY <1>0, <2>1, <2>4
    <3>2. \A k, l \in Angles : ~(num_angles - i' <= l)
      BY <1>0, <2>1, <2>2
    <3>3. \A k \in 0..j' : frequencies'[k] <= frequencies'[j']
      <4>1. frequencies[0] \in Nat
        <5>1. 0 \in Positions /\ frequencies \in [Positions -> Nat]
          BY <1>0, <2>4, InputTypes DEF ParseInv, ArrayTypes, AnglesInv
        <5> QED BY <5>1
      <4>2. \A k \in 0..j' : k = 0
        BY <2>1
      <4> QED BY <2>1, <4>1, <4>2
    <3>4. Ascending(j)'
      <4>1. \A k, l \in Angles : ~(k < l /\ l <= 0)
        BY <1>0, <2>2
      <4> QED BY <2>1, <2>2, <4>1 DEF Ascending
    <3> QED BY <2>1, <2>2, <2>4, <3>1, <3>2, <3>3, <3>4 DEF SortInv
  <2> QED BY <2>3, <2>4
<1>4. CASE Compare
  BY <1>4, SortCompares
<1>5. CASE PassEnds
  BY <1>5, PassSorts
<1>6. CASE Unwrap
  <2>1. doing = "unwrap" /\ doing' = "unwrap" /\ UNCHANGED <<frequencies, num_angles>>
    BY <1>6 DEF Unwrap
  <2> QED BY <2>1 DEF SortInv, Ascending, Angles
<1>7. CASE Regress \/ Average \/ Finish
  <2>1. doing' \in {"average", "done"}
    BY <1>7 DEF Regress, Average, Finish
  <2> QED BY <2>1 DEF SortInv
<1>8. CASE UNCHANGED estimateVars
  <2>1. UNCHANGED <<doing, frequencies, theta, num_angles, i, j, swapped>>
    BY <1>8 DEF estimateVars, angleVars, loopVars
  <2> QED BY <2>1 DEF SortInv, Ascending, Angles
<1> QED BY <1>1, <1>2, <1>3, <1>4, <1>5, <1>6, <1>7, <1>8 DEF EstimateNext

----------------------------------------------------------------------------
(* Unwrapping. *)

LEMMA UnwrapInit == EstimateInit => UnwrapInv
  BY DEF EstimateInit, UnwrapInv

(* What there is to be found depends on the input. *)
LEMMA TruthStays ==
    ASSUME input' = input
    PROVE  /\ (TwoTones' <=> TwoTones) /\ (OneChannel' <=> OneChannel)
           /\ \A d : (Falls(d)' <=> Falls(d)) /\ (Unambiguous(d)' <=> Unambiguous(d))
<1>1. GoodTones' = GoodTones /\ \A p : Channel(p)' = Channel(p) /\ Phase(p)' = Phase(p)
  BY InputStays
<1>2. \A p, q : Neighbours(p, q)' <=> Neighbours(p, q)
  BY <1>1 DEF Neighbours
<1>3. \A d : Falls(d)' <=> Falls(d)
  BY <1>1 DEF Falls
<1>4. \A d : Unambiguous(d)' <=> Unambiguous(d)
  BY <1>1, <1>2 DEF Unambiguous
<1> QED BY <1>1, <1>3, <1>4 DEF TwoTones, OneChannel

(* An array is sorted, and the first phase is on the line. *)
LEMMA UnwrapBegins == ASSUME ParseInv, AnglesInv, SortInv, UnwrapInv, PassEnds PROVE UnwrapInv'
<1>1. /\ doing = "sort" /\ UNCHANGED <<frequencies, theta, num_angles, slope>>
      /\ num_angles >= 2 /\ num_angles \in Nat /\ slope = Fraction(0, 1)
      /\ input \in Inputs /\ num_angles \in 0..input.len
      /\ frequencies \in [Positions -> Nat] /\ theta \in [Positions -> Int]
  <2>1. num_angles \in Nat
    BY InputTypes DEF ParseInv, ArrayTypes, AnglesInv
  <2> QED BY <2>1 DEF ParseInv, ArrayTypes, AnglesInv, SortInv, UnwrapInv, PassEnds, angleVars
<1>2. CASE doing' = "sort"
  BY <1>1, <1>2 DEF UnwrapInv
<1>3. CASE doing' = "unwrap" /\ i' = 1
  <2>1. \A k \in 0..(num_angles - 1) : theta[k] \in (1 - HalfTurn)..HalfTurn
    BY <1>1 DEF SortInv, Angles
  <2>2. ASSUME NEW k \in 0..(num_angles - 1), NEW l \in 0..(num_angles - 1)
        PROVE  theta[k] - theta[l] \in (1 - 2 * HalfTurn)..(2 * HalfTurn - 1)
    <3>1. /\ theta[k] \in (1 - HalfTurn)..HalfTurn /\ theta[l] \in (1 - HalfTurn)..HalfTurn
          /\ HalfTurn \in Nat
      BY <2>1, EstimationAssumption
    <3> QED BY <3>1
  <2>3. ASSUME NEW d \in Slopes PROVE \A k \in 0..0 : Apart(k, d)
    <3>1. d \in Int /\ theta[0] \in Int /\ frequencies[0] \in Nat
      <4>1. 0 \in Positions
        BY <1>1, InputTypes
      <4> QED BY <1>1, <4>1, EstimationAssumption
    <3>2. -d * (frequencies[0] - frequencies[0]) = 0 /\ theta[0] - theta[0] = 0
      BY <3>1
    <3>3. Apart(0, d)
      BY <3>2 DEF Apart
    <3> QED BY <3>3
  <2>4. i' \in (1..num_angles)'
    BY <1>1, <1>3
  <2>5. (i' - 1) = 0
    BY <1>3
  <2>6. ((i - 1)..(num_angles - 1))' = 0..(num_angles - 1) /\ (0..(i - 1))' = 0..0
    BY <1>1, <2>5
  <2>7. \A d \in Slopes : \A k \in 0..0 : Apart(k, d)'
    BY <1>1, <2>3 DEF Apart
  <2>8. \A k, l \in ((i - 1)..(num_angles - 1))' :
          theta'[k] - theta'[l] \in (1 - 2 * HalfTurn)..(2 * HalfTurn - 1)
    BY <1>1, <2>2, <2>6
  <2>9. \A d \in Slopes : (Falls(d) /\ Unambiguous(d))' => \A k \in (0..(i - 1))' : Apart(k, d)'
    BY <2>6, <2>7
  <2> QED BY <1>1, <1>3, <2>4, <2>8, <2>9 DEF UnwrapInv
<1> QED BY <1>1, <1>2, <1>3 DEF PassEnds

(* How far two neighbouring angles really are apart. *)
LEMMA TrueDifference ==
    ASSUME ParseInv, AnglesInv, SortInv, doing = "unwrap", num_angles \in 0..input.len,
           NEW d \in Slopes, Falls(d), Unambiguous(d),
           NEW k \in 1..(num_angles - 1)
    PROVE  \E z \in Int :
              /\ -d * (frequencies[k] - frequencies[k - 1]) \in (1 - HalfTurn)..(HalfTurn - 1)
              /\ theta[k] - theta[k - 1] =
                   -d * (frequencies[k] - frequencies[k - 1]) + 2 * HalfTurn * z
<1>1. /\ input \in Inputs /\ input.len \in Nat /\ Positions = 0..(input.len - 1)
      /\ frequencies \in [Positions -> Nat] /\ theta \in [Positions -> Int]
      /\ num_angles \in Nat
  BY InputTypes DEF ParseInv, ArrayTypes, AnglesInv
<1>2. k \in Angles /\ k - 1 \in Angles /\ Angles \subseteq Positions /\ Angles \subseteq Nat
  BY <1>1 DEF Angles
<1>3. d \in Int /\ HalfTurn \in Nat \ {0} /\ frequencies[k] \in Nat /\ frequencies[k - 1] \in Nat
      /\ theta[k] \in Int /\ theta[k - 1] \in Int
  BY <1>1, <1>2, EstimationAssumption
<1>4. PICK p \in GoodTones : frequencies[k] = Channel(p) /\ (theta[k] - Phase(p)) % (2 * HalfTurn) = 0
  BY <1>2 DEF AnglesInv, Genuine
<1>5. PICK q \in GoodTones :
        frequencies[k - 1] = Channel(q) /\ (theta[k - 1] - Phase(q)) % (2 * HalfTurn) = 0
  BY <1>2 DEF AnglesInv, Genuine
<1>6. Phase(p) \in Int /\ Phase(q) \in Int /\ Channel(p) \in Nat /\ Channel(q) \in Nat
  <2>1. \A r \in Positions : Phase(r) \in Int /\ Channel(r) \in Nat
    BY <1>1, InputTypes DEF Phase, Channel
  <2>2. p \in Positions /\ q \in Positions
    BY DEF GoodTones
  <2> QED BY <2>1, <2>2
<1>7. (Phase(p) - Phase(q) + d * (Channel(p) - Channel(q))) % (2 * HalfTurn) = 0
  BY DEF Falls
<1> DEFINE step == d * (Channel(p) - Channel(q))
<1>8. step \in Int /\ -d * (frequencies[k] - frequencies[k - 1]) = -step
  <2>1. PICK x \in Nat, y \in Nat : x = Channel(p) /\ y = Channel(q)
    BY <1>6
  <2>2. d * (x - y) \in Int /\ -d * (x - y) = -(d * (x - y))
    BY <1>3
  <2> QED BY <1>4, <1>5, <2>1, <2>2
<1> HIDE DEF step
<1>9. \E z \in Int : theta[k] - theta[k - 1] = -step + 2 * HalfTurn * z
  <2>1. PICK m \in Nat : m = 2 * HalfTurn
    BY <1>3
  <2>2. PICK z1 \in Int : theta[k] - Phase(p) = m * z1
    <3>1. theta[k] - Phase(p) \in Int
      BY <1>3, <1>6
    <3> QED BY <1>4, <2>1, <3>1, TurnsAreMultiples
  <2>3. PICK z2 \in Int : theta[k - 1] - Phase(q) = m * z2
    <3>1. theta[k - 1] - Phase(q) \in Int
      BY <1>3, <1>6
    <3> QED BY <1>5, <2>1, <3>1, TurnsAreMultiples
  <2>4. PICK z3 \in Int : Phase(p) - Phase(q) + step = m * z3
    <3>1. Phase(p) - Phase(q) + step \in Int
      BY <1>6, <1>8
    <3>2. (Phase(p) - Phase(q) + step) % (2 * HalfTurn) = 0
      BY <1>7 DEF step
    <3> QED BY <2>1, <3>1, <3>2, TurnsAreMultiples
  <2>5. m * z1 - m * z2 + m * z3 = m * (z1 - z2 + z3) /\ z1 - z2 + z3 \in Int
        /\ m * z1 \in Int /\ m * z2 \in Int /\ m * z3 \in Int
    OBVIOUS
  <2>6. theta[k] - theta[k - 1] = -step + m * (z1 - z2 + z3)
    <3>1. PICK a \in Int, b \in Int, e \in Int : a = m * z1 /\ b = m * z2 /\ e = m * z3
      BY <2>5
    <3>2. PICK x \in Int, y \in Int, v \in Int, w \in Int :
            x = theta[k] /\ y = theta[k - 1] /\ v = Phase(p) /\ w = Phase(q)
      BY <1>3, <1>6
    <3>3. x - v = a /\ y - w = b /\ v - w + step = e
      BY <2>2, <2>3, <2>4, <3>1, <3>2
    <3>4. x - y = -step + (a - b + e)
      BY <1>8, <3>3
    <3> QED BY <2>5, <3>1, <3>2, <3>4
  <2> QED BY <2>1, <2>5, <2>6
<1>10. -step \in (1 - HalfTurn)..(HalfTurn - 1)
  <2>1. Channel(q) <= Channel(p)
    <3>1. k - 1 < k /\ k <= num_angles - 1
      BY <1>1, <1>2
    <3> QED BY <1>2, <1>4, <1>5, <3>1 DEF SortInv, Ascending
  <2>2. CASE Channel(q) = Channel(p)
    <3>1. step = 0
      BY <1>3, <1>6, <2>2 DEF step
    <3> QED BY <1>3, <3>1
  <2>3. CASE Channel(q) # Channel(p)
    <3>1. ASSUME NEW r \in GoodTones PROVE ~(Channel(q) < Channel(r) /\ Channel(r) < Channel(p))
      <4>1. PICK m \in Angles : frequencies[m] = Channel(r)
        BY DEF AnglesInv, Collected
      <4>2. m \in Nat /\ m <= num_angles - 1 /\ Channel(r) \in Nat
        BY <1>1, <1>2, <4>1 DEF Angles
      <4>3. CASE m < k - 1
        <5>1. k - 1 <= num_angles - 1
          BY <1>1
        <5>2. frequencies[m] <= frequencies[k - 1]
          BY <1>2, <4>3, <5>1 DEF SortInv, Ascending
        <5> QED BY <1>5, <1>6, <4>1, <4>2, <5>2
      <4>4. CASE m > k
        <5>1. frequencies[k] <= frequencies[m]
          BY <1>2, <4>2, <4>4 DEF SortInv, Ascending
        <5> QED BY <1>4, <1>6, <4>1, <4>2, <5>1
      <4>5. CASE m \in {k - 1, k}
        BY <1>4, <1>5, <1>6, <4>1, <4>5
      <4> QED BY <1>2, <4>2, <4>3, <4>4, <4>5
    <3>2. Neighbours(q, p)
      BY <1>6, <2>1, <2>3, <3>1 DEF Neighbours
    <3>3. step \in (1 - HalfTurn)..(HalfTurn - 1)
      BY <3>2 DEF Unambiguous, step
    <3> QED BY <1>3, <3>3
  <2> QED BY <2>2, <2>3
<1> QED BY <1>8, <1>9, <1>10

(* A whole turn is taken off or put on exactly if one was lost. *)
LEMMA TurnPutBack ==
    ASSUME NEW delta \in (1 - 2 * HalfTurn)..(2 * HalfTurn - 1),
           NEW s \in (1 - HalfTurn)..(HalfTurn - 1),
           \E z \in Int : delta = s + 2 * HalfTurn * z
    PROVE  delta + (IF delta > HalfTurn THEN -2 * HalfTurn
                    ELSE IF delta < -HalfTurn THEN 2 * HalfTurn ELSE 0) = s
<1>1. PICK h \in Nat \ {0} : h = HalfTurn
  BY EstimationAssumption
<1>2. PICK z \in Int : delta = s + 2 * h * z
  BY <1>1
<1>3. delta \in (1 - 2 * h)..(2 * h - 1) /\ s \in (1 - h)..(h - 1)
  BY <1>1
<1> SUFFICES delta + (IF delta > h THEN -2 * h ELSE IF delta < -h THEN 2 * h ELSE 0) = s
  BY <1>1
<1>4. CASE z >= 2
  <2>1. PICK y \in Nat : z = 2 + y
    <3>1. z - 2 \in Nat /\ z = 2 + (z - 2)
      BY <1>4
    <3> QED BY <3>1
  <2>2. 2 * h * (2 + y) = 4 * h + 2 * (h * y) /\ h * y \in Nat
    OBVIOUS
  <2> QED BY <1>2, <1>3, <2>1, <2>2
<1>5. CASE z <= -2
  <2>1. PICK y \in Nat : z = -2 - y
    <3>1. -2 - z \in Nat /\ z = -2 - (-2 - z)
      BY <1>5
    <3> QED BY <3>1
  <2>2. 2 * h * (-2 - y) = -4 * h - 2 * (h * y) /\ h * y \in Nat
    OBVIOUS
  <2> QED BY <1>2, <1>3, <2>1, <2>2
<1>6. CASE z = 1
  BY <1>2, <1>3, <1>6
<1>7. CASE z = -1
  <2>1. 2 * h * (-1) = -2 * h
    OBVIOUS
  <2> QED BY <1>2, <1>3, <1>7, <2>1
<1>8. CASE z = 0
  BY <1>2, <1>3, <1>8
<1> QED BY <1>4, <1>5, <1>6, <1>7, <1>8

LEMMA UnwrapsOne == ASSUME ParseInv, AnglesInv, SortInv, UnwrapInv, Unwrap PROVE UnwrapInv'
<1>1. /\ doing = "unwrap" /\ doing' = "unwrap" /\ UNCHANGED <<input, frequencies, num_angles, slope>>
      /\ i \in 1..num_angles /\ i < num_angles /\ i' = i + 1 /\ slope = Fraction(0, 1)
      /\ input \in Inputs /\ num_angles \in 0..input.len
      /\ frequencies \in [Positions -> Nat] /\ theta \in [Positions -> Int]
  BY DEF ParseInv, ArrayTypes, AnglesInv, UnwrapInv, Unwrap
<1>2. input.len \in Nat /\ Positions = 0..(input.len - 1) /\ num_angles \in Nat /\ HalfTurn \in Nat \ {0}
  BY <1>1, InputTypes, EstimationAssumption
<1> DEFINE delta == theta[i] - theta[i - 1]
           c == IF delta > HalfTurn THEN -2 * HalfTurn
                ELSE IF delta < -HalfTurn THEN 2 * HalfTurn ELSE 0
<1>3. theta' = [k \in Positions |-> IF k < i THEN theta[k] ELSE theta[k] + c]
  BY <1>1 DEF Unwrap, ShiftFrom
<1>4. \A k, l \in (i - 1)..(num_angles - 1) :
         theta[k] - theta[l] \in (1 - 2 * HalfTurn)..(2 * HalfTurn - 1)
  BY <1>1 DEF UnwrapInv
<1>5. delta \in (1 - 2 * HalfTurn)..(2 * HalfTurn - 1) /\ c \in Int
  <2>1. i \in (i - 1)..(num_angles - 1) /\ i - 1 \in (i - 1)..(num_angles - 1)
    BY <1>1, <1>2
  <2>2. delta \in (1 - 2 * HalfTurn)..(2 * HalfTurn - 1)
    BY <1>4, <2>1
  <2>3. c \in {-2 * HalfTurn, 2 * HalfTurn, 0}
    OBVIOUS
  <2> QED BY <1>2, <2>2, <2>3
<1>6. i' \in (1..num_angles)'
  BY <1>1, <1>2
<1> HIDE DEF c
<1>7. ASSUME NEW k \in ((i - 1)..(num_angles - 1))', NEW l \in ((i - 1)..(num_angles - 1))'
      PROVE  theta'[k] - theta'[l] \in (1 - 2 * HalfTurn)..(2 * HalfTurn - 1)
  <2>1. k \in i..(num_angles - 1) /\ l \in i..(num_angles - 1)
    BY <1>1
  <2>2. k \in Positions /\ l \in Positions /\ ~(k < i) /\ ~(l < i)
        /\ k \in (i - 1)..(num_angles - 1) /\ l \in (i - 1)..(num_angles - 1)
    BY <1>1, <1>2, <2>1
  <2>3. theta'[k] = theta[k] + c /\ theta'[l] = theta[l] + c /\ theta[k] \in Int /\ theta[l] \in Int
    BY <1>1, <1>3, <2>2
  <2>4. theta'[k] - theta'[l] = theta[k] - theta[l]
    BY <1>5, <2>3
  <2> QED BY <1>4, <2>2, <2>4
<1>8. ASSUME NEW d \in Slopes, Falls(d), Unambiguous(d), NEW k \in 0..i PROVE Apart(k, d)'
  <2>1. \A m \in 0..(i - 1) : Apart(m, d)
    BY <1>1, <1>8 DEF UnwrapInv
  <2>2. 0 \in Positions /\ 0 < i /\ theta'[0] = theta[0]
    BY <1>1, <1>2, <1>3
  <2>3. CASE k < i
    <3>1. k \in 0..(i - 1) /\ k \in Positions /\ theta'[k] = theta[k]
      BY <1>1, <1>2, <1>3, <2>3
    <3> QED BY <1>1, <2>1, <2>2, <3>1 DEF Apart
  <2>4. CASE k = i
    <3>1. i \in 1..(num_angles - 1) /\ i \in Positions /\ i - 1 \in Positions /\ i - 1 \in 0..(i - 1)
      BY <1>1, <1>2
    <3>2. PICK z \in Int :
            /\ -d * (frequencies[i] - frequencies[i - 1]) \in (1 - HalfTurn)..(HalfTurn - 1)
            /\ delta = -d * (frequencies[i] - frequencies[i - 1]) + 2 * HalfTurn * z
      BY <1>1, <1>8, <3>1, TrueDifference
    <3>3. PICK s \in (1 - HalfTurn)..(HalfTurn - 1) :
            s = -d * (frequencies[i] - frequencies[i - 1]) /\ delta = s + 2 * HalfTurn * z
      BY <3>2
    <3>4. delta + c = s
      <4> HIDE DEF delta
      <4>1. \E y \in Int : delta = s + 2 * HalfTurn * y
        BY <3>3
      <4> QED BY <1>5, <4>1, TurnPutBack DEF c
    <3>5. theta'[i] = theta[i] + c
      BY <1>3, <3>1
    <3>6. PICK f0 \in Int, f1 \in Int, f2 \in Int, t0 \in Int, t1 \in Int, t2 \in Int :
            /\ f0 = frequencies[0] /\ f1 = frequencies[i - 1] /\ f2 = frequencies[i]
            /\ t0 = theta[0] /\ t1 = theta[i - 1] /\ t2 = theta[i]
      <4>1. /\ {frequencies[0], frequencies[i - 1], frequencies[i]} \subseteq Int
            /\ {theta[0], theta[i - 1], theta[i]} \subseteq Int
        BY <1>1, <2>2, <3>1
      <4> QED BY <4>1
    <3>7. t1 - t0 = -d * (f1 - f0)
      BY <2>1, <3>1, <3>6 DEF Apart
    <3>8. t2 - t1 + c = -d * (f2 - f1)
      BY <3>3, <3>4, <3>6
    <3>9. d \in Int
      BY EstimationAssumption
    <3>10. -d * (f2 - f1) + (-d * (f1 - f0)) = -d * (f2 - f0)
      BY <3>9
    <3>11. t2 + c - t0 = -d * (f2 - f0)
      BY <1>5, <3>7, <3>8, <3>9, <3>10
    <3>12. theta'[i] - theta'[0] = -d * (frequencies'[i] - frequencies'[0])
      <4>1. frequencies'[i] = f2 /\ frequencies'[0] = f0
        BY <1>1, <3>6
      <4>2. theta'[i] = t2 + c /\ theta'[0] = t0
        BY <2>2, <3>5, <3>6
      <4>3. theta'[i] - theta'[0] = t2 + c - t0
        BY <1>5, <4>2
      <4> QED BY <3>11, <4>1, <4>3
    <3> QED BY <2>4, <3>12 DEF Apart
  <2> QED BY <1>1, <2>3, <2>4
<1>9. \A d \in Slopes : (Falls(d) /\ Unambiguous(d))' => \A k \in (0..(i - 1))' : Apart(k, d)'
  <2>1. \A d : (Falls(d)' <=> Falls(d)) /\ (Unambiguous(d)' <=> Unambiguous(d))
    BY <1>1, TruthStays
  <2>2. (0..(i - 1))' = 0..i
    BY <1>1
  <2> QED BY <1>8, <2>1, <2>2
<1> QED BY <1>1, <1>6, <1>7, <1>9 DEF UnwrapInv

----------------------------------------------------------------------------
(* The regression of values on a line finds its slope. *)

Sloped(y, e, x, n) ==
    \A k \in 0..(n - 1) : x[k] \in Int /\ y[k] \in Int /\ y[k] - y[0] = e * (x[k] - x[0])

LEMMA DeviationOfLine ==
    ASSUME NEW n \in Nat \ {0}, NEW e \in Int, NEW x, NEW y, Sloped(y, e, x, n)
    PROVE  \A k \in 0..(n - 1) : /\ Deviations(x, n)[k] \in Int
                                 /\ Deviations(x, n)[k] = n * x[k] - SumOf(x, n)
                                 /\ Deviations(y, n)[k] = e * Deviations(x, n)[k]
<1>1. x[0] \in Int /\ y[0] \in Int
  BY 0 \in 0..(n - 1) DEF Sloped
<1>2. PICK x0 \in Int, y0 \in Int : x0 = x[0] /\ y0 = y[0]
  BY <1>1
<1>3. PICK c \in Int : c = y0 - e * x0
  OBVIOUS
<1>4. \A k \in 0..(n - 1) : x[k] \in Int /\ y[k] = c + e * x[k]
  <2> SUFFICES ASSUME NEW k \in 0..(n - 1) PROVE x[k] \in Int /\ y[k] = c + e * x[k]
    OBVIOUS
  <2>1. PICK a \in Int, b \in Int : a = x[k] /\ b = y[k] /\ b - y0 = e * (a - x0)
    BY <1>2 DEF Sloped
  <2>2. e * (a - x0) = e * a - e * x0 /\ e * a \in Int /\ e * x0 \in Int
    OBVIOUS
  <2>3. b = c + e * a
    <3>1. PICK f \in Int, g \in Int : f = e * a /\ g = e * x0
      BY <2>2
    <3>2. b - y0 = f - g /\ c = y0 - g
      BY <1>3, <2>1, <2>2, <3>1
    <3>3. b = c + f
      BY <3>2
    <3> QED BY <3>1, <3>3
  <2> QED BY <2>1, <2>3
<1>5. SumOf(y, n) = n * c + e * SumOf(x, n) /\ SumOf(x, n) \in Int
  <2>1. OnLine(y, c, e, x, n)
    BY <1>4 DEF OnLine
  <2> QED BY <2>1, SumOfLine
<1>6. PICK s \in Int : s = SumOf(x, n)
  BY <1>5
<1> SUFFICES ASSUME NEW k \in 0..(n - 1)
             PROVE  /\ Deviations(x, n)[k] \in Int
                    /\ Deviations(x, n)[k] = n * x[k] - SumOf(x, n)
                    /\ Deviations(y, n)[k] = e * Deviations(x, n)[k]
  OBVIOUS
<1>7. Deviations(x, n)[k] = n * x[k] - s /\ Deviations(y, n)[k] = n * y[k] - SumOf(y, n)
  BY <1>6 DEF Deviations
<1>8. PICK a \in Int : a = x[k] /\ y[k] = c + e * a
  BY <1>4
<1>9. n * (c + e * a) - (n * c + e * s) = e * (n * a - s)
  OBVIOUS
<1>10. n * a - s \in Int
  OBVIOUS
<1>11. Deviations(y, n)[k] = e * (n * a - s)
  BY <1>5, <1>6, <1>7, <1>8, <1>9
<1> QED BY <1>6, <1>7, <1>8, <1>10, <1>11

LEMMA SlopeType ==
    ASSUME NEW n \in Nat \ {0}, NEW x, NEW y, \A k \in 0..(n - 1) : x[k] \in Int /\ y[k] \in Int
    PROVE  linear_regression(x, y, n).den \in Int
<1>1. SumOf(x, n) \in Int
  BY SumOfType
<1>2. \A k \in 0..(n - 1) : Deviations(x, n)[k] \in Int
  BY <1>1 DEF Deviations
<1>3. \A k \in 0..(n - 1) : Products(Deviations(x, n), Deviations(x, n), n)[k] \in Int
  BY <1>2 DEF Products
<1>4. SumOf(Products(Deviations(x, n), Deviations(x, n), n), n) \in Int
  BY <1>3, SumOfType
<1> QED BY <1>4 DEF linear_regression, Fraction

LEMMA LineFound ==
    ASSUME NEW n \in Nat \ {0}, NEW e \in Int, NEW x, NEW y,
           Sloped(y, e, x, n), NEW found, found = linear_regression(x, y, n)
    PROVE  /\ found.num = e * found.den
           /\ (\E k, l \in 0..(n - 1) : x[k] # x[l]) => found.den > 0
<1> DEFINE dx == Deviations(x, n)
           dy == Deviations(y, n)
           xx == Products(dx, dx, n)
           xy == Products(dx, dy, n)
<1>1. \A k \in 0..(n - 1) : dx[k] \in Int /\ dx[k] = n * x[k] - SumOf(x, n) /\ dy[k] = e * dx[k]
  BY DeviationOfLine
<1>2. found.num = SumOf(xy, n) /\ found.den = SumOf(xx, n)
  BY DEF linear_regression, Fraction
<1>3. \A k \in 0..(n - 1) : xx[k] = dx[k] * dx[k] /\ xy[k] = dx[k] * dy[k]
  BY DEF Products
<1> HIDE DEF dx, dy, xx, xy
<1>4. \A k \in 0..(n - 1) : xx[k] \in Nat /\ xy[k] = e * xx[k] /\ (dx[k] # 0 => xx[k] > 0)
  <2> SUFFICES ASSUME NEW k \in 0..(n - 1)
               PROVE  xx[k] \in Nat /\ xy[k] = e * xx[k] /\ (dx[k] # 0 => xx[k] > 0)
    OBVIOUS
  <2>1. PICK a \in Int : a = dx[k] /\ xx[k] = a * a /\ xy[k] = a * (e * a)
    BY <1>1, <1>3
  <2>2. a * (e * a) = e * (a * a)
    OBVIOUS
  <2>3. a * a \in Nat /\ (a # 0 => a * a > 0)
    <3>1. CASE a > 0
      BY <3>1
    <3>2. CASE a < 0
      BY <3>2
    <3> QED BY <3>1, <3>2
  <2> QED BY <2>1, <2>2, <2>3
<1>5. SumOf(xy, n) = e * SumOf(xx, n)
  <2>1. \A k \in 0..(n - 1) : xx[k] \in Int /\ xy[k] = 0 + e * xx[k]
    <3> SUFFICES ASSUME NEW k \in 0..(n - 1) PROVE xx[k] \in Int /\ xy[k] = 0 + e * xx[k]
      OBVIOUS
    <3>1. PICK b \in Int : b = xx[k] /\ xy[k] = e * b
      BY <1>4
    <3>2. e * b = 0 + e * b
      OBVIOUS
    <3> QED BY <3>1, <3>2
  <2>2. SumOf(xy, n) = n * 0 + e * SumOf(xx, n) /\ SumOf(xx, n) \in Int
    <3>1. OnLine(xy, 0, e, xx, n)
      BY <2>1 DEF OnLine
    <3> QED BY <3>1, SumOfLine
  <2>3. PICK b \in Int : b = SumOf(xx, n)
    BY <2>2
  <2>4. n * 0 + e * b = e * b
    OBVIOUS
  <2> QED BY <2>2, <2>3, <2>4
<1>6. ASSUME NEW k \in 0..(n - 1), NEW l \in 0..(n - 1), x[k] # x[l]
      PROVE  found.den > 0
  <2>1. PICK a \in Int, b \in Int, s \in Int :
          /\ a = x[k] /\ b = x[l] /\ s = SumOf(x, n) /\ dx[k] = n * a - s /\ dx[l] = n * b - s
    <3>1. SumOf(x, n) \in Int
      <4>1. \A m \in 0..(n - 1) : x[m] \in Int
        BY DEF Sloped
      <4> QED BY <4>1, SumOfType
    <3>2. x[k] \in Int /\ x[l] \in Int
      BY DEF Sloped
    <3> QED BY <1>1, <3>1, <3>2
  <2>2. n * a # n * b
    <3>1. CASE a > b
      <4>1. PICK m \in Nat : a = b + 1 + m
        <5>1. a - b - 1 \in Nat /\ a = b + 1 + (a - b - 1)
          BY <3>1
        <5> QED BY <5>1
      <4>2. n * (b + 1 + m) = n * b + n + n * m /\ n * m \in Nat /\ n * b \in Int
        OBVIOUS
      <4> QED BY <4>1, <4>2
    <3>2. CASE b > a
      <4>1. PICK m \in Nat : b = a + 1 + m
        <5>1. b - a - 1 \in Nat /\ b = a + 1 + (b - a - 1)
          BY <3>2
        <5> QED BY <5>1
      <4>2. n * (a + 1 + m) = n * a + n + n * m /\ n * m \in Nat /\ n * a \in Int
        OBVIOUS
      <4> QED BY <4>1, <4>2
    <3> QED BY <1>6, <2>1, <3>1, <3>2
  <2>3. dx[k] # 0 \/ dx[l] # 0
    <3>1. PICK f \in Int, g \in Int : f = n * a /\ g = n * b
      OBVIOUS
    <3>2. f # g /\ dx[k] = f - s /\ dx[l] = g - s
      BY <2>1, <2>2, <3>1
    <3> QED BY <3>2
  <2>4. PICK m \in 0..(n - 1) : xx[m] > 0
    BY <1>4, <2>3
  <2>5. SumOf(xx, n) > 0
    BY <1>4, <2>4, SumOfPositive
  <2> QED BY <1>2, <2>5
<1> QED BY <1>2, <1>5, <1>6

(* The denominator depends on the x alone. *)
LEMMA DenominatorPositive ==
    ASSUME NEW n \in Nat \ {0}, NEW x, NEW y, \A k \in 0..(n - 1) : x[k] \in Int,
           \E k, l \in 0..(n - 1) : x[k] # x[l]
    PROVE  linear_regression(x, y, n).den > 0
<1>1. Sloped(x, 1, x, n)
  <2> SUFFICES ASSUME NEW k \in 0..(n - 1) PROVE x[k] - x[0] = 1 * (x[k] - x[0])
    BY DEF Sloped
  <2>1. PICK a \in Int, b \in Int : a = x[k] /\ b = x[0]
    <3>1. 0 \in 0..(n - 1)
      OBVIOUS
    <3> QED BY <3>1
  <2>2. a - b = 1 * (a - b)
    OBVIOUS
  <2> QED BY <2>1, <2>2
<1>2. linear_regression(x, x, n).den > 0
  BY <1>1, LineFound
<1>3. linear_regression(x, x, n).den = linear_regression(x, y, n).den
  BY DEF linear_regression, Fraction
<1> QED BY <1>2, <1>3

(* Values of x that are all the same leave 0/0. *)
LEMMA NoSlope ==
    ASSUME NEW n \in Nat \ {0}, NEW x, NEW y, \A k \in 0..(n - 1) : x[k] \in Int /\ y[k] \in Int,
           \A k, l \in 0..(n - 1) : x[k] = x[l]
    PROVE  linear_regression(x, y, n) = Fraction(0, 0)
<1> DEFINE dx == Deviations(x, n)
           dy == Deviations(y, n)
<1>1. PICK a \in Int : \A k \in 0..(n - 1) : x[k] = a
  <2>1. 0 \in 0..(n - 1)
    OBVIOUS
  <2> QED BY <2>1
<1> DEFINE w == [k \in 0..(n - 1) |-> 0]
<1>2. SumOf(x, n) = n * a + 0 * SumOf(w, n) /\ SumOf(w, n) \in Int
  <2>1. \A k \in 0..(n - 1) : w[k] \in Int /\ x[k] = a + 0 * w[k]
    BY <1>1
  <2> HIDE DEF w
  <2>2. OnLine(x, a, 0, w, n)
    BY <2>1 DEF OnLine
  <2> QED BY <2>2, SumOfLine
<1> HIDE DEF w
<1>3. SumOf(x, n) = n * a
  BY <1>2
<1>4. \A k \in 0..(n - 1) : dx[k] = 0
  <2> SUFFICES ASSUME NEW k \in 0..(n - 1) PROVE n * x[k] - SumOf(x, n) = 0
    BY DEF Deviations
  <2>1. n * a - n * a = 0
    OBVIOUS
  <2> QED BY <1>1, <1>3, <2>1
<1>5. \A k \in 0..(n - 1) : dy[k] \in Int
  <2>1. SumOf(y, n) \in Int
    BY SumOfType
  <2> SUFFICES ASSUME NEW k \in 0..(n - 1) PROVE n * y[k] - SumOf(y, n) \in Int
    BY DEF Deviations
  <2> QED BY <2>1
<1> HIDE DEF dx, dy
<1>6. ASSUME NEW v, \A k \in 0..(n - 1) : v[k] \in Int PROVE SumOf(Products(dx, v, n), n) = 0
  <2> DEFINE xv == Products(dx, v, n)
  <2>1. \A k \in 0..(n - 1) : xv[k] = 0
    <3> SUFFICES ASSUME NEW k \in 0..(n - 1) PROVE dx[k] * v[k] = 0
      BY DEF Products
    <3>1. PICK b \in Int : b = v[k]
      BY <1>6
    <3>2. 0 * b = 0
      OBVIOUS
    <3> QED BY <1>4, <3>1, <3>2
  <2> HIDE DEF xv
  <2>2. SumOf(xv, n) = n * 0 + 0 * SumOf(xv, n) /\ SumOf(xv, n) \in Int
    <3>1. \A k \in 0..(n - 1) : xv[k] \in Int /\ xv[k] = 0 + 0 * xv[k]
      BY <2>1
    <3>2. OnLine(xv, 0, 0, xv, n)
      BY <3>1 DEF OnLine
    <3> QED BY <3>2, SumOfLine
  <2>3. SumOf(xv, n) = 0
    BY <2>2
  <2> QED BY <2>3 DEF xv
<1>7. SumOf(Products(dx, dy, n), n) = 0 /\ SumOf(Products(dx, dx, n), n) = 0
  BY <1>4, <1>5, <1>6
<1> QED BY <1>7 DEF linear_regression, dx, dy

LEMMA SlopeFound ==
    ASSUME ParseInv, AnglesInv, CountInv, SortInv, UnwrapInv, Regress
    PROVE  UnwrapInv'
<1>1. /\ doing = "unwrap" /\ doing' = "average" /\ UNCHANGED <<input, frequencies, theta, num_angles>>
      /\ i = num_angles /\ slope' = linear_regression(frequencies, theta, num_angles)
      /\ num_angles \in Nat \ {0} /\ num_angles \in 0..input.len
      /\ input \in Inputs
      /\ frequencies \in [Positions -> Nat] /\ theta \in [Positions -> Int]
  <2>1. num_angles \in Nat
    BY InputTypes DEF ParseInv, ArrayTypes, AnglesInv
  <2> QED BY <2>1 DEF ParseInv, ArrayTypes, AnglesInv, SortInv, UnwrapInv, Regress, angleVars
<1>2. input.len \in Nat /\ Positions = 0..(input.len - 1) /\ Angles \subseteq Positions
  BY <1>1, InputTypes DEF Angles
<1>3. PICK n \in Nat \ {0} : n = num_angles
  BY <1>1
<1>4. \A k \in 0..(n - 1) : frequencies[k] \in Int /\ theta[k] \in Int
  BY <1>1, <1>2, <1>3 DEF Angles
<1>5. slope' = linear_regression(frequencies, theta, n)
  BY <1>1, <1>3
<1>6. TwoTones
  BY <1>1 DEF CountInv, SortInv
<1>7. OneChannel <=> \A k, l \in 0..(n - 1) : frequencies[k] = frequencies[l]
  <2>1. \A p \in GoodTones : \E k \in 0..(n - 1) : frequencies[k] = Channel(p)
    BY <1>1, <1>3 DEF AnglesInv, Collected, Angles
  <2>2. \A k \in 0..(n - 1) : \E p \in GoodTones : frequencies[k] = Channel(p)
    BY <1>3 DEF AnglesInv, Genuine, Angles
  <2> QED BY <2>1, <2>2 DEF OneChannel
<1>8. OneChannel => slope' = Fraction(0, 0)
  BY <1>4, <1>5, <1>7, NoSlope
<1>9. ~OneChannel => slope'.den > 0
  BY <1>4, <1>5, <1>7, DenominatorPositive
<1>10. ASSUME NEW d \in Slopes, Falls(d), Unambiguous(d)
       PROVE  slope'.num = -d * slope'.den
  <2>1. \A k \in 0..(n - 1) : theta[k] - theta[0] = (-d) * (frequencies[k] - frequencies[0])
    <3>1. \A k \in 0..(i - 1) : Apart(k, d)
      BY <1>1, <1>10 DEF UnwrapInv
    <3>2. i - 1 = n - 1
      BY <1>1, <1>3
    <3> SUFFICES ASSUME NEW k \in 0..(n - 1)
                 PROVE  theta[k] - theta[0] = (-d) * (frequencies[k] - frequencies[0])
      OBVIOUS
    <3>3. theta[k] - theta[0] = -(d * (frequencies[k] - frequencies[0]))
      BY <3>1, <3>2 DEF Apart
    <3>4. PICK f \in Int : f = frequencies[k] - frequencies[0]
      <4>1. 0 \in 0..(n - 1)
        OBVIOUS
      <4> QED BY <1>4, <4>1
    <3>5. -(d * f) = (-d) * f
      BY EstimationAssumption
    <3> QED BY <3>3, <3>4, <3>5
  <2>2. -d \in Int
    BY EstimationAssumption
  <2>3. slope'.num = -d * slope'.den
    <3>1. slope' = linear_regression(frequencies, theta, n)
      BY <1>5
    <3>2. Sloped(theta, -d, frequencies, n)
      BY <1>4, <2>1 DEF Sloped
    <3>3. PICK e \in Int, found \in {slope'} : e = -d
      BY <2>2
    <3>4. Sloped(theta, e, frequencies, n) /\ found = linear_regression(frequencies, theta, n)
      BY <3>1, <3>2, <3>3
    <3>5. found.num = e * found.den
      BY <3>4, LineFound
    <3>6. -(d * found.den) = e * found.den
      <4>1. d \in Int /\ found.den \in Int
        <5>1. linear_regression(frequencies, theta, n).den \in Int
          BY <1>4, SlopeType
        <5> QED BY <3>4, <5>1, EstimationAssumption
      <4> QED BY <3>3, <4>1
    <3> QED BY <3>3, <3>5, <3>6
  <2> QED BY <2>3
<1>11. SlopeRecovered'
  <2>1. /\ (TwoTones' <=> TwoTones) /\ (OneChannel' <=> OneChannel)
        /\ \A d : (Falls(d)' <=> Falls(d)) /\ (Unambiguous(d)' <=> Unambiguous(d))
    BY <1>1, TruthStays
  <2> QED BY <1>6, <1>8, <1>9, <1>10, <2>1 DEF SlopeRecovered
<1> QED BY <1>1, <1>11 DEF UnwrapInv

(* Fewer than two angles leave no slope to be found. *)
LEMMA SlopeMissing ==
    ASSUME ParseInv, AnglesInv, CountInv, UnwrapInv, AnglesCollected
    PROVE  UnwrapInv'
<1>1. /\ doing = "collect" /\ UNCHANGED <<input, num_angles, slope>>
      /\ doing' = IF num_angles < 2 THEN "average" ELSE "sort"
      /\ slope = Fraction(0, 1) /\ num_angles \in Nat
  BY DEF AnglesCollected, CountInv, UnwrapInv, angleVars
<1>2. CASE num_angles < 2
  <2>1. (TwoTones' <=> TwoTones) /\ (OneChannel' <=> OneChannel)
    BY <1>1, TruthStays
  <2>2. ~TwoTones
    <3>1. CountInv' /\ doing' = "average" /\ ~(num_angles' >= 2)
      BY <1>1, <1>2, AnglesCounted
    <3> QED BY <2>1, <3>1 DEF CountInv
  <2>3. OneChannel
    BY <2>2 DEF TwoTones, OneChannel
  <2>4. SlopeRecovered'
    BY <1>1, <2>1, <2>2, <2>3 DEF SlopeRecovered
  <2> QED BY <1>1, <1>2, <2>4 DEF UnwrapInv
<1>3. CASE ~(num_angles < 2)
  BY <1>1, <1>3 DEF UnwrapInv
<1> QED BY <1>2, <1>3

LEMMA UnwrapNext ==
    ParseInv /\ AnglesInv /\ CountInv /\ SortInv /\ UnwrapInv /\ [EstimateNext]_estimateVars => UnwrapInv'
<1> SUFFICES ASSUME ParseInv, AnglesInv, CountInv, SortInv, UnwrapInv, [EstimateNext]_estimateVars
             PROVE  UnwrapInv'
  OBVIOUS
<1>1. CASE process_step_data \/ ParsePeerSteps \/ StepsParsed \/ CollectAngle \/ Compare
  <2>1. /\ doing \in {"parse", "collect", "sort"} /\ doing' \in {"parse", "collect", "sort"}
        /\ UNCHANGED slope
    BY <1>1 DEF process_step_data, ParsePeerSteps, StepsParsed, CollectAngle, Compare
  <2> QED BY <2>1 DEF UnwrapInv
<1>2. CASE AnglesCollected
  BY <1>2, SlopeMissing
<1>3. CASE PassEnds
  BY <1>3, UnwrapBegins
<1>4. CASE Unwrap
  BY <1>4, UnwrapsOne
<1>5. CASE Regress
  BY <1>5, SlopeFound
<1>6. CASE Average \/ Finish
  <2>1. doing = "average" /\ doing' \in {"average", "done"} /\ UNCHANGED <<input, slope>>
    BY <1>6 DEF Average, Finish
  <2>2. /\ (TwoTones' <=> TwoTones) /\ (OneChannel' <=> OneChannel)
        /\ \A d : (Falls(d)' <=> Falls(d)) /\ (Unambiguous(d)' <=> Unambiguous(d))
    BY <2>1, TruthStays
  <2>3. SlopeRecovered'
    BY <2>1, <2>2 DEF UnwrapInv, SlopeRecovered
  <2> QED BY <2>1, <2>3 DEF UnwrapInv
<1>7. CASE UNCHANGED estimateVars
  <2>1. UNCHANGED <<input, doing, frequencies, theta, num_angles, i, slope>>
    BY <1>7 DEF estimateVars, angleVars, loopVars
  <2>2. /\ (TwoTones' <=> TwoTones) /\ (OneChannel' <=> OneChannel)
        /\ \A d : (Falls(d)' <=> Falls(d)) /\ (Unambiguous(d)' <=> Unambiguous(d))
    BY <2>1, TruthStays
  <2>3. SlopeRecovered' <=> SlopeRecovered
    BY <2>1, <2>2 DEF SlopeRecovered
  <2>4. \A k, d : Apart(k, d)' <=> Apart(k, d)
    BY <2>1 DEF Apart
  <2> QED BY <2>1, <2>2, <2>3, <2>4 DEF UnwrapInv
<1> QED BY <1>1, <1>2, <1>3, <1>4, <1>5, <1>6, <1>7 DEF EstimateNext

----------------------------------------------------------------------------
(* The mean of the flights. *)

LEMMA HalfType ==
    ASSUME NEW x \in Int PROVE Half(x) \in Int /\ 2 * Half(x) - x \in (-1)..1
<1>1. CASE x >= 0
  BY <1>1 DEF Half
<1>2. CASE ~(x >= 0)
  BY <1>2 DEF Half
<1> QED BY <1>1, <1>2

LEMMA FlightInit == EstimateInit => FlightInv
  BY DEF EstimateInit, FlightInv

LEMMA FlightsStay ==
    ASSUME UNCHANGED <<input, mode_1_data>>
    PROVE  /\ Packets' = Packets /\ Flights' = Flights /\ Halves' = Halves
           /\ \A p : Failed(p)' = Failed(p)
           /\ FirstFailed' <=> FirstFailed
<1>1. /\ Positions' = Positions /\ Packets' = Packets
      /\ \A p : RoundTrip(p)' = RoundTrip(p) /\ Failed(p)' = Failed(p)
  BY InputStays
<1>2. FirstFailed' <=> FirstFailed
  BY <1>1 DEF FirstFailed
<1>3. Flights' = Flights
  BY <1>1, <1>2 DEF Flights
<1>4. Halves' = Halves
  BY <1>1 DEF Halves, Differences
<1> QED BY <1>1, <1>2, <1>3, <1>4

LEMMA FlightTypes ==
    ASSUME input \in Inputs
    PROVE  /\ Flights \subseteq Int /\ (FirstFailed => 0 \in Flights)
           /\ \A p \in Packets : RoundTrip(p) \in Int /\ (~Failed(p) => Half(RoundTrip(p)) \in Flights)
<1>1. \A p \in Packets : RoundTrip(p) \in Int
  <2>1. \A p \in Packets : p \in Positions
    BY DEF Packets
  <2> QED BY <2>1, InputTypes DEF RoundTrip
<1>2. \A p \in Packets : Half(RoundTrip(p)) \in Int
  BY <1>1, HalfType
<1> QED BY <1>1, <1>2 DEF Flights

LEMMA MeanBegins ==
    ASSUME ParseInv, UNCHANGED <<input, mode_1_data>>, tof_mean = Fraction(0, 1), tof_mean' = tof_mean
    PROVE  MeanOf(0)'
<1>1. FirstFailed => 0 \in Flights
  BY FlightTypes DEF ParseInv, ArrayTypes
<1>2. /\ Flights' = Flights /\ (FirstFailed' <=> FirstFailed)
      /\ tof_mean' = [num |-> 0, den |-> 1]
  BY FlightsStay DEF Fraction
<1>3. SumOf(Halves', 0) = 0
  BY SumOfNone
<1>4. tof_mean' \in [num : Int, den : Nat \ {0}] /\ tof_mean'.num = 0 /\ tof_mean'.den = 1
  BY <1>2
<1>5. 0 <= 1 * 0 /\ 0 >= 1 * 0 /\ 0 * 0 = 1 * 0
  OBVIOUS
<1>6. Bounded' \/ ~FirstFailed'
  <2>1. CASE FirstFailed
    BY <1>1, <1>2, <1>4, <1>5, <2>1 DEF Bounded
  <2> QED BY <1>2, <2>1
<1> QED BY <1>3, <1>4, <1>5, <1>6 DEF MeanOf

(* The first packet fills the first entry. *)
LEMMA FirstCounted ==
    ASSUME input \in Inputs, NEW p \in Packets, Ordinal(Packets, p) = 0, ~FirstFailed
    PROVE  ~Failed(p)
<1>1. PICK first \in Packets : (\A q \in Packets : first <= q) /\ ~Failed(first)
  BY DEF FirstFailed
<1>2. PICK n \in Nat : n = input.len
  BY InputTypes
<1>3. Packets \in SUBSET (0..(n - 1)) /\ \A q \in Packets : q \in Nat /\ q \in 0..n
  BY <1>2, InputTypes
<1>4. ASSUME first < p PROVE FALSE
  <2>1. Ordinal(Packets, first) < Ordinal(Packets, p)
    BY <1>3, <1>4, OrdinalLess
  <2>2. Ordinal(Packets, first) \in 0..n
    BY <1>3, OrdinalType
  <2> QED BY <2>1, <2>2
<1>5. p = first
  <2>1. p \in Nat /\ first \in Nat /\ first <= p
    BY <1>1, <1>3
  <2> QED BY <1>4, <2>1
<1> QED BY <1>1, <1>5

LEMMA MeanMoves == ASSUME ParseInv, FlightInv, Average PROVE FlightInv'
<1>1. /\ doing = "average" /\ doing' = "average" /\ i' = i + 1 /\ i \in Nat
      /\ i < mode_1_data_index /\ MeanOf(i) /\ input \in Inputs
      /\ UNCHANGED <<input, mode_1_data, mode_1_data_index>>
      /\ mode_1_data \in [Positions -> Timings]
      /\ mode_1_data_index \in 0..input.len /\ input.len \in Nat
  <2>1. mode_1_data_index \in 0..input.len /\ input.len \in Nat
    BY DataParsed, InputTypes DEF ParseInv, ArrayTypes, Average
  <2>2. UNCHANGED <<input, mode_1_data, mode_1_data_index>>
    BY DEF Average, parseVars, dataVars
  <2> QED BY <2>1, <2>2 DEF ParseInv, ArrayTypes, FlightInv, Average
<1>2. /\ Packets' = Packets /\ Flights' = Flights /\ Halves' = Halves
      /\ (\A p : Failed(p)' = Failed(p)) /\ (FirstFailed' <=> FirstFailed)
  BY <1>1, FlightsStay
<1>3. PICK p \in Packets : Ordinal(Packets, p) = i
  BY <1>1, DataParsed
<1> DEFINE timing == mode_1_data[i]
           tof == Half(timing.toa_tod_initiator - timing.tod_toa_reflector)
<1>4. /\ timing.failed <=> Failed(p)
      /\ timing.toa_tod_initiator - timing.tod_toa_reflector = RoundTrip(p)
  BY <1>1, <1>3, DataParsed
<1>5. i \in Positions /\ Positions = 0..(input.len - 1)
  BY <1>1, InputTypes
<1>6. Halves[i] = tof /\ tof = Half(RoundTrip(p))
  BY <1>4, <1>5 DEF Halves, Differences
<1>7. tof \in Int /\ (~Failed(p) => tof \in Flights) /\ Flights \subseteq Int
  BY <1>1, <1>6, FlightTypes, HalfType
<1>8. tof_mean' = IF timing.failed THEN tof_mean ELSE MovingAverage(tof_mean, tof, i + 1)
  BY DEF Average
<1>9. i' \in (0..mode_1_data_index)'
  BY <1>1
<1> HIDE DEF timing, tof
<1>10. CASE Failed(p)
  <2>1. tof_mean' = tof_mean
    BY <1>4, <1>8, <1>10
  <2>2. ~(\A q \in Packets : ~Failed(q))
    BY <1>10
  <2>3. Bounded
    <3>1. ~(i = 0 /\ ~FirstFailed)
      BY <1>1, <1>3, <1>10, FirstCounted
    <3> QED BY <1>1, <3>1 DEF MeanOf
  <2>4. Bounded'
    BY <1>2, <2>1, <2>3 DEF Bounded
  <2>5. MeanOf(i)'
    BY <1>1, <1>2, <2>1, <2>2, <2>4 DEF MeanOf
  <2> QED BY <1>1, <1>9, <2>5 DEF FlightInv
<1>11. CASE ~Failed(p)
  <2>1. PICK k \in Nat, num \in Int, den \in Nat \ {0} : k = i /\ num = tof_mean.num /\ den = tof_mean.den
    BY <1>1 DEF MeanOf
  <2>2. tof_mean' = Fraction(k * num + tof * den, (k + 1) * den)
    <3>1. tof_mean' = MovingAverage(tof_mean, tof, k + 1)
      BY <1>4, <1>8, <1>11, <2>1
    <3>2. (k + 1) - 1 = k
      OBVIOUS
    <3> QED BY <2>1, <3>1, <3>2 DEF MovingAverage
  <2>3. tof_mean'.num = k * num + tof * den /\ tof_mean'.den = (k + 1) * den
    BY <2>2 DEF Fraction
  <2>4. tof_mean' \in [num : Int, den : Nat \ {0}]
    <3>1. k * num + tof * den \in Int /\ (k + 1) * den \in Int
      BY <1>7
    <3>2. (k + 1) * den > 0
      <4>1. (k + 1) * den = k * den + den /\ k * den \in Nat
        OBVIOUS
      <4> QED BY <4>1
    <3> QED BY <2>2, <3>1, <3>2 DEF Fraction
  <2>5. ASSUME Bounded PROVE Bounded'
    <3>1. PICK t1 \in Flights : num <= den * t1
      BY <2>1, <2>5 DEF Bounded
    <3>2. PICK t2 \in Flights : num >= den * t2
      BY <2>1, <2>5 DEF Bounded
    <3>3. PICK u1 \in {t1, tof} : k * num + tof * den <= (k + 1) * den * u1
      BY <1>7, <3>1, MeanBelow
    <3>4. PICK u2 \in {t2, tof} : k * num + tof * den >= (k + 1) * den * u2
      BY <1>7, <3>2, MeanAbove
    <3>5. u1 \in Flights /\ u2 \in Flights
      BY <1>7, <1>11
    <3> QED BY <1>2, <2>3, <3>3, <3>4, <3>5 DEF Bounded
  <2>6. ASSUME k = 0 PROVE Bounded'
    <3>1. tof_mean'.num = tof_mean'.den * tof
      <4>1. 0 * num + tof * den = (0 + 1) * den * tof
        BY <1>7
      <4> QED BY <2>3, <2>6, <4>1
    <3>2. tof_mean'.num <= tof_mean'.den * tof /\ tof_mean'.num >= tof_mean'.den * tof
      BY <2>4, <3>1
    <3> QED BY <1>2, <1>7, <1>11, <3>2 DEF Bounded
  <2>7. ASSUME \A q \in Packets : ~Failed(q)
        PROVE  (k + 1) * tof_mean'.num = tof_mean'.den * SumOf(Halves, k + 1)
    <3>1. k * num = den * SumOf(Halves, k)
      BY <1>1, <2>1, <2>7 DEF MeanOf
    <3>2. SumOf(Halves, k + 1) = SumOf(Halves, k) + tof
      BY <1>6, <2>1, SumOfNext
    <3>3. PICK s \in Int : s = SumOf(Halves, k)
      <4>1. \A m \in 0..(k - 1) : Halves[m] \in Int
        <5> SUFFICES ASSUME NEW m \in 0..(k - 1) PROVE Halves[m] \in Int
          OBVIOUS
        <5>1. m \in Positions
          BY <1>1, <1>5, <2>1
        <5>2. mode_1_data[m] \in Timings
          BY <1>1, <5>1
        <5>3. Differences[m] \in Int /\ Halves[m] = Half(Differences[m])
          BY <5>1, <5>2 DEF Timings, Differences, Halves
        <5> QED BY <5>3, HalfType
      <4> QED BY <4>1, SumOfType
    <3>4. (k + 1) * (den * s + tof * den) = (k + 1) * den * (s + tof)
      BY <1>7
    <3> QED BY <2>3, <3>1, <3>2, <3>3, <3>4
  <2>8. MeanOf(k + 1)'
    <3>1. Bounded'
      BY <1>1, <2>1, <2>5, <2>6 DEF MeanOf
    <3> QED BY <1>2, <2>4, <2>7, <3>1 DEF MeanOf
  <2> QED BY <1>1, <1>9, <2>1, <2>8 DEF FlightInv
<1> QED BY <1>10, <1>11

LEMMA FlightNext ==
    ParseInv /\ AnglesInv /\ FlightInv /\ [EstimateNext]_estimateVars => FlightInv'
<1> SUFFICES ASSUME ParseInv, AnglesInv, FlightInv, [EstimateNext]_estimateVars PROVE FlightInv'
  OBVIOUS
<1>1. CASE \/ process_step_data \/ ParsePeerSteps \/ StepsParsed \/ CollectAngle \/ Compare
           \/ PassEnds \/ Unwrap
  <2>1. doing \notin {"average", "done"} /\ doing' \notin {"average", "done"} /\ UNCHANGED tof_mean
    BY <1>1 DEF process_step_data, ParsePeerSteps, StepsParsed, CollectAngle, Compare, PassEnds, Unwrap
  <2> QED BY <2>1 DEF FlightInv
<1>2. CASE AnglesCollected \/ Regress
  <2>1. /\ doing \notin {"parse", "average", "done"} /\ doing' # "done"
        /\ UNCHANGED <<input, mode_1_data, mode_1_data_index, tof_mean>> /\ i' = 0
    BY <1>2 DEF AnglesCollected, Regress, parseVars, dataVars
  <2>2. tof_mean = Fraction(0, 1)
    BY <2>1 DEF FlightInv
  <2>3. MeanOf(0)'
    BY <2>1, <2>2, MeanBegins
  <2>4. i' \in (0..mode_1_data_index)'
    <3>1. mode_1_data_index \in 0..input.len /\ input.len \in Nat
      BY <2>1, DataParsed, InputTypes DEF ParseInv, ArrayTypes
    <3> QED BY <2>1, <3>1
  <2> QED BY <2>1, <2>2, <2>3, <2>4 DEF FlightInv
<1>3. CASE Average
  BY <1>3, MeanMoves
<1>4. CASE Finish
  <2>1. /\ doing = "average" /\ doing' = "done" /\ i = mode_1_data_index
        /\ UNCHANGED <<input, mode_1_data, mode_1_data_index, tof_mean>>
    BY <1>4 DEF Finish, parseVars, dataVars
  <2>2. MeanOf(mode_1_data_index)
    BY <2>1 DEF FlightInv
  <2>3. MeanOf(mode_1_data_index)'
    BY <2>1, <2>2, FlightsStay DEF MeanOf, Bounded
  <2> QED BY <2>1, <2>3 DEF FlightInv
<1>5. CASE UNCHANGED estimateVars
  <2>1. UNCHANGED <<input, doing, mode_1_data, mode_1_data_index, i, tof_mean>>
    BY <1>5 DEF estimateVars, parseVars, dataVars, loopVars
  <2>2. \A n : MeanOf(n)' <=> MeanOf(n)
    BY <2>1, FlightsStay DEF MeanOf, Bounded
  <2> QED BY <2>1, <2>2 DEF FlightInv
<1> QED BY <1>1, <1>2, <1>3, <1>4, <1>5 DEF EstimateNext

----------------------------------------------------------------------------
(* Packets are numbered without gaps, so that the sum over them is the sum over
   all slots. *)
LEMMA RoundTripsSummed ==
    ASSUME ParseInv, doing # "parse"
    PROVE  /\ mode_1_data_index = Cardinality(Packets)
           /\ SumOf(RoundTrips, input.len) = SumOf(Differences, mode_1_data_index)
<1>1. input \in Inputs
  BY DEF ParseInv, ArrayTypes
<1>2. PICK len \in Nat : len = input.len
  BY <1>1, InputTypes
<1>3. Positions = 0..(len - 1) /\ Packets \in SUBSET (0..(len - 1))
  BY <1>1, <1>2, InputTypes
<1>4. mode_1_data_index = Ordinal(Packets, len)
  BY <1>2, DataParsed
<1>5. Ordinal(Packets, len) = Cardinality(Packets)
  <2>1. {q \in Packets : q < len} = Packets
    <3>1. \A q \in Packets : q \in 0..(len - 1)
      BY <1>3
    <3>2. \A q \in Packets : q < len
      BY <3>1
    <3> QED BY <3>2
  <2> QED BY <2>1 DEF Ordinal
<1>6. \A p \in Packets : Differences[Ordinal(Packets, p)] = RoundTrip(p)
  <2>1. \A p \in Packets : Ordinal(Packets, p) \in Positions
    BY <1>1, Numbers
  <2> QED BY <2>1, DataParsed DEF Differences
<1> DEFINE T == {p \in Nat : p <= len => SumOf(RoundTrips, p) = SumOf(Differences, Ordinal(Packets, p))}
<1>7. 0 \in T
  <2>1. Ordinal(Packets, 0) = 0
    BY <1>1, Numbers
  <2> QED BY <2>1, SumOfNone
<1>8. ASSUME NEW p \in Nat, p \in T PROVE p + 1 \in T
  <2> SUFFICES ASSUME p + 1 <= len
               PROVE  SumOf(RoundTrips, p + 1) = SumOf(Differences, Ordinal(Packets, p + 1))
    OBVIOUS
  <2>1. p \in Positions /\ p \in 0..len /\ SumOf(RoundTrips, p) = SumOf(Differences, Ordinal(Packets, p))
    BY <1>3, <1>8
  <2>2. SumOf(RoundTrips, p + 1) = SumOf(RoundTrips, p) + RoundTrips[p]
    BY SumOfNext
  <2>3. Ordinal(Packets, p + 1) = IF p \in Packets THEN Ordinal(Packets, p) + 1 ELSE Ordinal(Packets, p)
    BY <1>1, <2>1, Numbers
  <2>4. Ordinal(Packets, p) \in Nat
    <3>1. Ordinal(Packets, p) \in 0..len
      BY <1>3, <2>1, OrdinalType
    <3> QED BY <3>1
  <2>5. CASE p \in Packets
    <3>1. RoundTrips[p] = Differences[Ordinal(Packets, p)]
      BY <1>6, <2>1, <2>5 DEF RoundTrips
    <3>2. SumOf(Differences, Ordinal(Packets, p) + 1)
            = SumOf(Differences, Ordinal(Packets, p)) + Differences[Ordinal(Packets, p)]
      BY <2>4, SumOfNext
    <3> QED BY <2>1, <2>2, <2>3, <2>5, <3>1, <3>2
  <2>6. CASE p \notin Packets
    <3>1. RoundTrips[p] = 0
      BY <2>1, <2>6 DEF RoundTrips
    <3>2. SumOf(RoundTrips, p) \in Int
      <4>1. \A k \in Positions : RoundTrips[k] \in Int
        BY <1>1, FlightTypes DEF RoundTrips
      <4>2. \A k \in 0..(p - 1) : k \in Positions
        BY <1>3, <2>1
      <4> QED BY <4>1, <4>2, SumOfType
    <3> QED BY <2>1, <2>2, <2>3, <2>6, <3>1, <3>2
  <2> QED BY <2>5, <2>6
<1> HIDE DEF T
<1>9. len \in T
  BY <1>7, <1>8, SetInduction
<1> QED BY <1>2, <1>4, <1>5, <1>9 DEF T

(* Every division by 2 rounds by at most half a unit. *)
LEMMA HalvesSummed ==
    ASSUME NEW n \in Nat, NEW x, NEW y, \A k \in 0..(n - 1) : x[k] \in Int /\ y[k] = Half(x[k])
    PROVE  /\ SumOf(x, n) \in Int /\ SumOf(y, n) \in Int
           /\ 2 * SumOf(y, n) - SumOf(x, n) \in (-n)..n
<1>1. \A k \in 0..(n - 1) : y[k] \in Int /\ 2 * y[k] - x[k] \in (-1)..1
  BY HalfType
<1> DEFINE T == {m \in Nat : m <= n => 2 * SumOf(y, m) - SumOf(x, m) \in (-m)..m}
<1>2. 0 \in T
  <2>1. SumOf(x, 0) = 0 /\ SumOf(y, 0) = 0
    BY SumOfNone
  <2> QED BY <2>1
<1>3. ASSUME NEW m \in Nat, m \in T PROVE m + 1 \in T
  <2> SUFFICES ASSUME m + 1 <= n
               PROVE  2 * SumOf(y, m + 1) - SumOf(x, m + 1) \in (-(m + 1))..(m + 1)
    OBVIOUS
  <2>1. m \in 0..(n - 1) /\ \A k \in 0..(m - 1) : x[k] \in Int /\ y[k] \in Int
    BY <1>1
  <2>2. SumOf(x, m) \in Int /\ SumOf(y, m) \in Int
    BY <2>1, SumOfType
  <2>3. SumOf(x, m + 1) = SumOf(x, m) + x[m] /\ SumOf(y, m + 1) = SumOf(y, m) + y[m]
    BY SumOfNext
  <2>4. x[m] \in Int /\ y[m] \in Int /\ 2 * y[m] - x[m] \in (-1)..1
    BY <1>1, <2>1
  <2>5. 2 * SumOf(y, m) - SumOf(x, m) \in (-m)..m
    BY <1>3
  <2> QED BY <2>2, <2>3, <2>4, <2>5
<1> HIDE DEF T
<1>4. n \in T
  BY <1>2, <1>3, SetInduction
<1>5. SumOf(x, n) \in Int /\ SumOf(y, n) \in Int
  BY <1>1, SumOfType
<1> QED BY <1>4, <1>5 DEF T

LEMMA FlightRight ==
    ASSUME ParseInv, FlightInv, doing = "done" PROVE TofIsMean
<1>1. /\ input \in Inputs /\ MeanOf(mode_1_data_index) /\ mode_1_data_index \in Nat
      /\ mode_1_data_index \in 0..input.len
      /\ mode_1_data_index = Cardinality(Packets)
      /\ SumOf(RoundTrips, input.len) = SumOf(Differences, mode_1_data_index)
  <2>1. mode_1_data_index \in 0..input.len /\ input.len \in Nat
    BY DataParsed, InputTypes DEF ParseInv, ArrayTypes
  <2> QED BY <2>1, RoundTripsSummed DEF ParseInv, ArrayTypes, FlightInv
<1>2. PICK n \in Nat, num \in Int, den \in Nat \ {0} :
        n = mode_1_data_index /\ num = tof_mean.num /\ den = tof_mean.den
  BY <1>1 DEF MeanOf
<1>3. \A k \in 0..(n - 1) : Differences[k] \in Int /\ Halves[k] = Half(Differences[k])
  <2> SUFFICES ASSUME NEW k \in 0..(n - 1)
               PROVE  Differences[k] \in Int /\ Halves[k] = Half(Differences[k])
    OBVIOUS
  <2>1. k \in Positions
    BY <1>1, <1>2, InputTypes
  <2>2. mode_1_data[k] \in Timings
    BY <2>1 DEF ParseInv, ArrayTypes
  <2> QED BY <2>1, <2>2 DEF Timings, Differences, Halves
<1>4. PICK s \in Int, h \in Int :
        s = SumOf(Differences, n) /\ h = SumOf(Halves, n) /\ 2 * h - s \in (-n)..n
  BY <1>3, HalvesSummed
<1>5. ASSUME \A p \in Packets : ~Failed(p)
      PROVE  2 * (n * num) - den * s \in (-(n * den))..(n * den)
  <2>1. n * num = den * h
    BY <1>1, <1>2, <1>4, <1>5 DEF MeanOf
  <2>2. 2 * (den * h) - den * s = den * (2 * h - s) /\ den * (-n) = -(n * den) /\ den * n = n * den
    OBVIOUS
  <2>3. den * (-n) <= den * (2 * h - s) /\ den * (2 * h - s) <= den * n
    <3>1. den \in Nat /\ -n \in Int /\ n \in Int /\ 2 * h - s \in Int
          /\ -n <= 2 * h - s /\ 2 * h - s <= n
      BY <1>4
    <3> QED BY <3>1, TimesMonotone
  <2>4. den * (2 * h - s) \in Int /\ n * den \in Int
    OBVIOUS
  <2> QED BY <2>1, <2>2, <2>3, <2>4
<1>6. (\A p \in Packets : ~Failed(p)) =>
        LET m == Cardinality(Packets)
            error == 2 * (m * tof_mean.num) - tof_mean.den * SumOf(RoundTrips, input.len)
        IN  error \in -(m * tof_mean.den)..(m * tof_mean.den)
  BY <1>1, <1>2, <1>4, <1>5
<1>7. Bounded
  <2>1. CASE n = 0 /\ ~FirstFailed
    <3>1. PICK p \in Packets : TRUE
      BY <2>1 DEF FirstFailed
    <3>2. PICK len \in Nat : len = input.len
      BY <1>1, InputTypes
    <3>3. Packets \in SUBSET (0..(len - 1)) /\ p \in 0..len /\ p < len /\ len \in 0..len
      BY <1>1, <3>2, InputTypes
    <3>4. Ordinal(Packets, p) < Ordinal(Packets, len) /\ Ordinal(Packets, p) \in 0..len
      BY <3>3, OrdinalLess, OrdinalType
    <3>5. mode_1_data_index = Ordinal(Packets, len)
      BY <3>2, DataParsed
    <3>6. PICK a \in Nat : a = Ordinal(Packets, p) /\ a < Ordinal(Packets, len)
      BY <3>4
    <3>7. Ordinal(Packets, len) = 0
      BY <1>2, <2>1, <3>5
    <3>8. FALSE
      BY <3>6, <3>7
    <3> QED BY <3>8
  <2>2. CASE ~(n = 0 /\ ~FirstFailed)
    BY <1>1, <1>2, <2>2 DEF MeanOf
  <2> QED BY <2>1, <2>2
<1> QED BY <1>1, <1>2, <1>6, <1>7 DEF TofIsMean, MeanOf, Bounded

----------------------------------------------------------------------------
(* The estimate. *)

LEMMA EstInit == EstimateInit => EstInvariant
  BY ParseInit, AnglesInit, CountInit, SortInit, UnwrapInit, FlightInit DEF EstInvariant

LEMMA EstNext == EstInvariant /\ [EstimateNext]_estimateVars => EstInvariant'
  BY ParseNext, AnglesNext, CountNext, SortNext, UnwrapNext, FlightNext DEF EstInvariant

LEMMA EstRight == EstInvariant => EstimateIsRight
<1> SUFFICES ASSUME EstInvariant, doing = "done" PROVE SlopeRecovered /\ TofIsMean
  BY DEF EstimateIsRight
<1> QED BY FlightRight DEF EstInvariant, UnwrapInv

(* Whatever the steps that both ends report, in whatever order the channels come
   and whichever slots fail, the angles are sorted and unwrapped so that the
   regression finds the slope they have, if there is one: it is 0/0 exactly for
   several good tones of one channel.  The time of flight is a mean of the halved
   round trips that were measured, off by at most half a unit if no sample failed;
   only a first sample that failed mixes in a 0 (estimate_distance()). *)
THEOREM EstimateCorrect == EstimateSpec => []EstimateIsRight
<1>1. EstimateInit => EstInvariant
  BY EstInit
<1>2. EstInvariant /\ [EstimateNext]_estimateVars => EstInvariant'
  BY EstNext
<1>3. EstInvariant => EstimateIsRight
  BY EstRight
<1> QED BY <1>1, <1>2, <1>3, PTL DEF EstimateSpec
=============================================================================
