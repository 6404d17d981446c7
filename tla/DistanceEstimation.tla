------------------------- MODULE DistanceEstimation -------------------------
(***************************************************************************)
(* What the reference initiator computes from the steps of one procedure   *)
(* (initiator/src/distance_estimation.c), loop by loop; nothing else looks *)
(* at this state.  Phases are whole numbers of which HalfTurn make pi;     *)
(* slopes and means are fractions, and so exact.  Physical units are left  *)
(* out.                                                                    *)
(*                                                                         *)
(* The parser hands over the slots of one step after the other; the slots  *)
(* of all steps are counted through.  Both ends report the same steps.     *)
(***************************************************************************)
EXTENDS Integers, FiniteSets, Sums

CONSTANTS
    HalfTurn,          \* pi
    Inputs,            \* what may be ranged: records of role and len and, for
                       \* each end, len slots of
                       \*   mode, extension, channel, failed, and
                       \*   value: a tone's phase or a packet's time
    Slopes             \* the slopes to be found: how far the phase falls from
                       \* one channel to the next

(* process_step_data() takes the tones of mode 2 and the packets of mode 1. *)
IsTone(slot) == slot.mode = 2 /\ ~slot.extension
IsPacket(slot) == slot.mode = 1

(* The indices of the arrays have 8 bits: with one antenna path a procedure has
   no more tones or packets than they count. *)
ASSUME EstimationAssumption ==
    /\ HalfTurn \in Nat \ {0} /\ Slopes \subseteq Int
    /\ \A r \in Inputs :
         /\ r.len \in Nat /\ r.role \in {"initiator", "reflector"}
         /\ \A p \in 0..(r.len - 1) :
              /\ \A s \in {r.local[p], r.peer[p]} :
                    s.channel \in Nat /\ s.failed \in BOOLEAN /\ s.value \in Int
              /\ IsTone(r.local[p]) <=> IsTone(r.peer[p])
              /\ IsPacket(r.local[p]) <=> IsPacket(r.peer[p])
         /\ Cardinality({p \in 0..(r.len - 1) : IsTone(r.local[p])}) < 256
         /\ Cardinality({p \in 0..(r.len - 1) : IsPacket(r.local[p])}) < 256

VARIABLES
    input,
    doing,                               \* the loop that runs
    local_steps, at,                     \* the parser: the end and the slot
    mode_1_data, mode_1_data_index,
    mode_2_data, mode_2_data_index,
    frequencies, theta, num_angles,
    i, j, swapped,                       \* of the loop that runs
    slope, tof_mean                      \* the results

dataVars == <<mode_1_data, mode_1_data_index, mode_2_data, mode_2_data_index>>
parseVars == <<local_steps, at, dataVars>>
angleVars == <<frequencies, theta, num_angles>>
loopVars == <<i, j, swapped>>
estimateVars == <<input, doing, parseVars, angleVars, loopVars, slope, tof_mean>>

Positions == 0..(input.len - 1)
Fraction(num, den) == [num |-> num, den |-> den]

EstimateInit ==
    /\ input \in Inputs
    /\ doing = "parse" /\ local_steps = TRUE /\ at = 0
    /\ mode_1_data = [p \in Positions |->
                        [failed |-> FALSE, toa_tod_initiator |-> 0, tod_toa_reflector |-> 0]]
    /\ mode_2_data = [p \in Positions |->
                        [failed |-> FALSE, channel |-> 0, local_phase |-> 0, peer_phase |-> 0]]
    /\ mode_1_data_index = 0 /\ mode_2_data_index = 0
    /\ frequencies = [p \in Positions |-> 0] /\ theta = [p \in Positions |-> 0]
    /\ num_angles = 0
    /\ i = 0 /\ j = 0 /\ swapped = FALSE
    /\ slope = Fraction(0, 1) /\ tof_mean = Fraction(0, 1)

----------------------------------------------------------------------------
(* process_step_data(), first with the local steps, then with the peer's. *)

Slot == IF local_steps THEN input.local[at] ELSE input.peer[at]

TakeTone(slot) ==
    LET sample == mode_2_data[mode_2_data_index]
    IN  /\ mode_2_data' = [mode_2_data EXCEPT ![mode_2_data_index] =
              [failed |-> sample.failed \/ slot.failed,
               channel |-> IF local_steps THEN slot.channel ELSE sample.channel,
               local_phase |-> IF local_steps THEN slot.value ELSE sample.local_phase,
               peer_phase |-> IF local_steps THEN sample.peer_phase ELSE slot.value]]
        /\ mode_2_data_index' = mode_2_data_index + 1
        /\ UNCHANGED <<mode_1_data, mode_1_data_index>>

AtInitiator == local_steps <=> input.role = "initiator"
TakePacket(slot) ==
    LET timing == mode_1_data[mode_1_data_index]
    IN  /\ mode_1_data' = [mode_1_data EXCEPT ![mode_1_data_index] =
              [failed |-> timing.failed \/ slot.failed,
               toa_tod_initiator |-> IF AtInitiator THEN slot.value ELSE timing.toa_tod_initiator,
               tod_toa_reflector |-> IF AtInitiator THEN timing.tod_toa_reflector ELSE slot.value]]
        /\ mode_1_data_index' = mode_1_data_index + 1
        /\ UNCHANGED <<mode_2_data, mode_2_data_index>>

process_step_data ==
    /\ doing = "parse" /\ at < input.len
    /\ at' = at + 1
    /\ \/ IsTone(Slot) /\ TakeTone(Slot)
       \/ IsPacket(Slot) /\ TakePacket(Slot)
       \/ ~IsTone(Slot) /\ ~IsPacket(Slot) /\ UNCHANGED dataVars
    /\ UNCHANGED <<input, doing, local_steps, angleVars, loopVars, slope, tof_mean>>

ParsePeerSteps ==
    /\ doing = "parse" /\ local_steps /\ at = input.len
    /\ local_steps' = FALSE /\ at' = 0
    /\ mode_1_data_index' = 0 /\ mode_2_data_index' = 0
    /\ UNCHANGED <<input, doing, mode_1_data, mode_2_data, angleVars, loopVars, slope, tof_mean>>

StepsParsed ==
    /\ doing = "parse" /\ ~local_steps /\ at = input.len
    /\ doing' = "collect" /\ i' = 0
    /\ UNCHANGED <<input, parseVars, angleVars, j, swapped, slope, tof_mean>>

----------------------------------------------------------------------------
(* estimate_distance_using_phase_slope() *)

(* The phase of the product of two samples, from atan2(). *)
Wrapped(phase) == ((phase + HalfTurn - 1) % (2 * HalfTurn)) - HalfTurn + 1
CombinedPhase(sample) == Wrapped(sample.local_phase + sample.peer_phase)

CollectAngle ==
    /\ doing = "collect" /\ i < mode_2_data_index
    /\ i' = i + 1
    /\ IF mode_2_data[i].failed THEN UNCHANGED angleVars
       ELSE /\ frequencies' = [frequencies EXCEPT ![num_angles] = mode_2_data[i].channel]
            /\ theta' = [theta EXCEPT ![num_angles] = CombinedPhase(mode_2_data[i])]
            /\ num_angles' = num_angles + 1
    /\ UNCHANGED <<input, doing, parseVars, j, swapped, slope, tof_mean>>

AnglesCollected ==
    /\ doing = "collect" /\ i = mode_2_data_index
    /\ doing' = IF num_angles < 2 THEN "average" ELSE "sort"
    /\ i' = 0 /\ j' = 0 /\ swapped' = FALSE
    /\ UNCHANGED <<input, parseVars, angleVars, slope, tof_mean>>

(* bubblesort_2() *)
Exchange(array, k) == [array EXCEPT ![k] = array[k + 1], ![k + 1] = array[k]]

(* Mutant of SwapBoth: the second array is not moved along. *)
SwapFirst == frequencies' = Exchange(frequencies, j) /\ theta' = theta /\ swapped' = TRUE
SwapBoth ==
    frequencies' = Exchange(frequencies, j) /\ theta' = Exchange(theta, j) /\ swapped' = TRUE

Compare ==
    /\ doing = "sort" /\ j < num_angles - i - 1
    /\ j' = j + 1
    /\ IF frequencies[j] > frequencies[j + 1] THEN SwapBoth
       ELSE UNCHANGED <<frequencies, theta, swapped>>
    /\ UNCHANGED <<input, doing, parseVars, num_angles, i, slope, tof_mean>>

PassEnds ==
    /\ doing = "sort" /\ j = num_angles - i - 1
    /\ IF swapped /\ i + 1 < num_angles - 1
       THEN i' = i + 1 /\ j' = 0 /\ swapped' = FALSE /\ UNCHANGED doing
       ELSE doing' = "unwrap" /\ i' = 1 /\ UNCHANGED <<j, swapped>>
    /\ UNCHANGED <<input, parseVars, angleVars, slope, tof_mean>>

ShiftFrom(first, by) == [k \in DOMAIN theta |-> IF k < first THEN theta[k] ELSE theta[k] + by]

Unwrap ==
    /\ doing = "unwrap" /\ i < num_angles
    /\ i' = i + 1
    /\ LET difference == theta[i] - theta[i - 1]
       IN  theta' = ShiftFrom(i, IF difference > HalfTurn THEN -2 * HalfTurn
                                 ELSE IF difference < -HalfTurn THEN 2 * HalfTurn ELSE 0)
    /\ UNCHANGED <<input, doing, parseVars, frequencies, num_angles, j, swapped, slope, tof_mean>>

(* Both sums are taken n^2 times, the deviations from the means n times.  Values of
   x that are all the same leave 0/0, which in C is no number (NaN). *)
Deviations(v, n) == [k \in 0..(n - 1) |-> n * v[k] - SumOf(v, n)]
Products(v, w, n) == [k \in 0..(n - 1) |-> v[k] * w[k]]
linear_regression(x_values, y_values, n) ==
    LET dx == Deviations(x_values, n)
        dy == Deviations(y_values, n)
    IN  Fraction(SumOf(Products(dx, dy, n), n), SumOf(Products(dx, dx, n), n))

(* A distance is minus the slope times a constant. *)
Regress ==
    /\ doing = "unwrap" /\ i = num_angles
    /\ slope' = linear_regression(frequencies, theta, num_angles)
    /\ doing' = "average" /\ i' = 0
    /\ UNCHANGED <<input, parseVars, angleVars, j, swapped, tof_mean>>

----------------------------------------------------------------------------
(* estimate_distance_using_time_of_flight() *)

(* C's division by 2, which truncates. *)
Half(n) == IF n >= 0 THEN n \div 2 ELSE -((-n) \div 2)

(* mean + (tof - mean) / n *)
MovingAverage(mean, tof, n) == Fraction((n - 1) * mean.num + tof * mean.den, n * mean.den)

(* A failed sample is skipped but counted in the divisor. *)
Average ==
    /\ doing = "average" /\ i < mode_1_data_index
    /\ i' = i + 1
    /\ LET timing == mode_1_data[i]
           tof == Half(timing.toa_tod_initiator - timing.tod_toa_reflector)
       IN  tof_mean' = IF timing.failed THEN tof_mean ELSE MovingAverage(tof_mean, tof, i + 1)
    /\ UNCHANGED <<input, doing, parseVars, angleVars, j, swapped, slope>>

Finish ==
    /\ doing = "average" /\ i = mode_1_data_index
    /\ doing' = "done"
    /\ UNCHANGED <<input, parseVars, angleVars, loopVars, slope, tof_mean>>

EstimateNext ==
    \/ process_step_data \/ ParsePeerSteps \/ StepsParsed
    \/ CollectAngle \/ AnglesCollected \/ Compare \/ PassEnds \/ Unwrap \/ Regress
    \/ Average \/ Finish

EstimateSpec == EstimateInit /\ [][EstimateNext]_estimateVars

----------------------------------------------------------------------------
(* What was ranged. *)

Failed(p) == input.local[p].failed \/ input.peer[p].failed
GoodTones == {p \in Positions : IsTone(input.local[p]) /\ ~Failed(p)}
Packets == {p \in Positions : IsPacket(input.local[p])}

Channel(p) == input.local[p].channel
Phase(p) == input.local[p].value + input.peer[p].value
RoundTrip(p) ==
    IF input.role = "initiator" THEN input.local[p].value - input.peer[p].value
                                ELSE input.peer[p].value - input.local[p].value

(* The phase falls by d with each channel, up to whole turns. *)
Falls(d) ==
    \A p, q \in GoodTones :
        (Phase(p) - Phase(q) + d * (Channel(p) - Channel(q))) % (2 * HalfTurn) = 0

Neighbours(p, q) ==
    Channel(p) < Channel(q)
      /\ \A r \in GoodTones : ~(Channel(p) < Channel(r) /\ Channel(r) < Channel(q))
Unambiguous(d) ==
    \A p, q \in GoodTones :
        Neighbours(p, q) => d * (Channel(q) - Channel(p)) \in (1 - HalfTurn)..(HalfTurn - 1)

(* From the tones of any order that both ends measured well, the slope that the
   phase really has is found, whatever multiples of a turn were lost: as long as
   it changes by less than half a turn between neighbours (estimate_distance).
   One good tone gives no slope; several, but of one channel, give 0/0, which is
   not 0 in C, and is printed as a distance. *)
TwoTones == \E p, q \in GoodTones : p # q
OneChannel == \A p, q \in GoodTones : Channel(p) = Channel(q)
SlopeRecovered ==
    /\ ~TwoTones => slope = Fraction(0, 1)
    /\ TwoTones /\ OneChannel => slope = Fraction(0, 0)
    /\ ~OneChannel =>
         /\ slope.den > 0
         /\ \A d \in Slopes : Falls(d) /\ Unambiguous(d) => slope.num = -d * slope.den

(* The time of flight is a mean of halved round trips, each truncated.  If no
   sample failed it is off by at most half a unit from half their mean.  A sample
   that failed adds nothing but is counted, so that those before it weigh more;
   and if the very first failed, there are none before it, and the mean has a 0
   among its flights which nobody measured. *)
FirstFailed == \A p \in Packets : (\A q \in Packets : p <= q) => Failed(p)
Flights ==
    {Half(RoundTrip(p)) : p \in {q \in Packets : ~Failed(q)}}
      \cup (IF FirstFailed THEN {0} ELSE {})
RoundTrips == [p \in Positions |-> IF p \in Packets THEN RoundTrip(p) ELSE 0]
TofIsMean ==
    /\ tof_mean.den > 0
    /\ \E t \in Flights : tof_mean.num <= tof_mean.den * t
    /\ \E t \in Flights : tof_mean.num >= tof_mean.den * t
    /\ (\A p \in Packets : ~Failed(p)) =>
         LET n == Cardinality(Packets)
             error == 2 * (n * tof_mean.num) - tof_mean.den * SumOf(RoundTrips, input.len)
         IN  error \in -(n * tof_mean.den)..(n * tof_mean.den)

(* Either method finds what was ranged, with the two exceptions named above. *)
EstimateIsRight == doing = "done" => SlopeRecovered /\ TofIsMean
=============================================================================
