---------------------------- MODULE MCCsSample ----------------------------
(* The reference applications (CsSample) and the estimate of a distance
   (DistanceEstimation) for inputs whose distance is known. *)
EXTENDS CsSample, DistanceEstimation

VARIABLE shown                 \* "applications" or "estimate"

allVars == <<shown, estimateVars, sampleVars>>

(* Both ends well; both subevents are for nothing, for one end or the other; and
   steps that do not fit. *)
Result(done, stepsFit) == [done |-> done, stepsFit |-> stepsFit]
Well == <<Result("complete", TRUE)>>
TooLong == <<Result("complete", FALSE)>>
Aborted == <<Result("aborted", FALSE)>>
Split == <<Result("partial", TRUE), Result("complete", TRUE)>>
Outcome(l, r) == [i |-> l, r |-> r]
SomeOutcomes ==
    {Outcome(Well, Well), Outcome(Split, Aborted), Outcome(Aborted, Well),
     Outcome(TooLong, Split)}

----------------------------------------------------------------------------
(* Three tones of any channels, also twice the same one, in any order on one
   antenna, after each an extension slot that may not be looked at; the phase both
   ends measure together falls by the slope with each channel. *)
SomeSlopes == -1..3

SlotOf(mode, extension, channel, failed, value) ==
    [mode |-> mode, extension |-> extension, channel |-> channel, failed |-> failed,
     value |-> value]
ToneSlots(channels, values, failed) ==
    [p \in 0..5 |-> LET k == p \div 2 + 1
                    IN  IF p % 2 = 0 THEN SlotOf(2, FALSE, channels[k], k \in failed, values[k])
                                     ELSE SlotOf(2, TRUE, channels[k], FALSE, 1)]

LocalPhases == <<-2, 3, -2>>
Toned(channels, d, offset, lowLocal, lowPeer) ==
    [role |-> "initiator", len |-> 6, local |-> ToneSlots(channels, LocalPhases, lowLocal),
     peer |-> ToneSlots(channels,
                        [k \in 1..3 |-> Wrapped(offset - d * channels[k] - LocalPhases[k])],
                        lowPeer)]
OneEnd == {<<{}, {}>>, <<{1}, {}>>, <<{}, {3}>>, <<{2}, {2}>>, <<{1}, {3}>>}
TonedInputs ==
    {Toned(channels, d, offset, low[1], low[2]) :
        channels \in [1..3 -> {1, 2, 4}], d \in SomeSlopes, offset \in {-3, 4}, low \in OneEnd}

(* Three round trips: the times at either end, and which are good. *)
Timed(role, local, peer) ==
    [role |-> role, len |-> 3, local |-> [p \in 0..2 |-> SlotOf(1, FALSE, 1, local[p].bad, local[p].time)],
     peer |-> [p \in 0..2 |-> SlotOf(1, FALSE, 1, peer[p].bad, peer[p].time)]]
Times == {[bad |-> FALSE, time |-> 7], [bad |-> FALSE, time |-> -5], [bad |-> TRUE, time |-> 4]}
PeerTimes == [0..2 -> {[bad |-> FALSE, time |-> 0], [bad |-> FALSE, time |-> 2]}]
             \cup {[p \in 0..2 |-> [bad |-> p = 1, time |-> 2]]}
TimedInputs ==
    {Timed(role, local, peer) :
        role \in {"initiator", "reflector"}, local \in [0..2 -> Times], peer \in PeerTimes}

SomeInputs == TonedInputs \cup TimedInputs

----------------------------------------------------------------------------
AllInit ==
    /\ SampleInit /\ EstimateInit
    /\ shown \in {"applications", "estimate"}
    /\ shown = "applications" => input = CHOOSE r \in Inputs : TRUE

AllNext ==
    /\ UNCHANGED shown
    /\ \/ shown = "applications" /\ SampleNext /\ UNCHANGED estimateVars
       \/ shown = "estimate" /\ EstimateNext /\ UNCHANGED sampleVars

AllSpec ==
    /\ AllInit /\ [][AllNext]_allVars
    /\ shown = "applications" => SampleFairness
=============================================================================
