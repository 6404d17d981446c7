------------------------------ MODULE CsSteps ------------------------------
(***************************************************************************)
(* What SS2 makes of the steps of one procedure (Blonky/src/               *)
(* cs_initiator.c): the parse in ranging_data_cb() hands every pair of a   *)
(* local and a peer step to process_step_data(), which gathers the tones   *)
(* of each antenna path and channel and the round-trip times.  The local   *)
(* and the remote sample of a tone stand for their two components each;    *)
(* the means are fractions, and so exact.                                  *)
(*                                                                         *)
(* External: the parser, which pairs the steps, and the steps themselves.  *)
(***************************************************************************)
EXTENDS Integers, Sequences, FiniteSets, Sums

CONSTANTS
    MaxAp,                \* antenna paths (CONFIG_BT_RAS_MAX_ANTENNA_PATHS)
    ToneChannels,         \* channel indices
    channel_map,          \* those of them the configuration uses
    TONE_QI_OK_TONE_COUNT_THRESHOLD,
    StepPairs,            \* what the parser may hand over, records of
                          \* mode, channel, permutation, tones, rtt:
                          \*   permutation: the path of each tone, or <<>>
                          \*   tones: of each the samples and who has it good
                          \*   rtt: both times and who has them good
    MaxSteps              \* bound: steps of a procedure

ApPaths == 0..(MaxAp - 1)
Bins == ApPaths \X ToneChannels
BothEnds == {"local", "remote"}
IsPermutation(q) ==
    /\ q \in Seq(0..(Len(q) - 1))
    /\ \A t, u \in DOMAIN q : q[t] = q[u] => t = u

ASSUME StepsAssumption ==
    /\ MaxAp \in Nat \ {0} /\ MaxSteps \in Nat
    /\ channel_map \subseteq ToneChannels /\ IsFiniteSet(ToneChannels)
    /\ TONE_QI_OK_TONE_COUNT_THRESHOLD \in Nat
    /\ \A s \in StepPairs :
         /\ s.mode \in 0..3 /\ s.channel \in ToneChannels
         /\ IsPermutation(s.permutation)
         /\ \A t \in 1..MaxAp :
              /\ s.tones[t].high \subseteq BothEnds
              /\ \A end \in BothEnds : s.tones[t][end] \in Int
         /\ s.rtt.good \subseteq BothEnds
         /\ {s.rtt.toa_tod_initiator, s.rtt.tod_toa_reflector} \subseteq Int

VARIABLES
    n_ap,
    m_n_iqs,                          \* samples of each path and channel
    i_local, i_remote,                \* iq_tones: their means, fractions
    rtt_accumulated_half_ns, rtt_count,
    processed                         \* history: the steps of this procedure

reportVars == <<n_ap, m_n_iqs, i_local, i_remote, rtt_accumulated_half_ns, rtt_count>>
stepsVars == <<reportVars, processed>>

Fractions == [num : Int, den : Nat \ {0}]

StepsTypeOK ==
    /\ n_ap \in 1..MaxAp
    /\ m_n_iqs \in [Bins -> 0..MaxSteps]
    /\ i_local \in [Bins -> Fractions] /\ i_remote \in [Bins -> Fractions]
    /\ rtt_accumulated_half_ns \in Int
    /\ rtt_count \in 0..MaxSteps
    /\ processed \in Seq(StepPairs) /\ Len(processed) <= MaxSteps

NoSamples == [b \in Bins |-> 0]
Zero == [b \in Bins |-> [num |-> 0, den |-> 1]]

StepsInit ==
    /\ n_ap = 1 /\ m_n_iqs = NoSamples
    /\ i_local = Zero /\ i_remote = Zero
    /\ rtt_accumulated_half_ns = 0 /\ rtt_count = 0
    /\ processed = <<>>

(* The memsets in ranging_data_cb(), and process_ranging_header(): a header
   without any antenna path counts for one. *)
BeginProcedure ==
    /\ m_n_iqs' = NoSamples
    /\ i_local' = Zero /\ i_remote' = Zero
    /\ rtt_accumulated_half_ns' = 0 /\ rtt_count' = 0
    /\ \E mask \in SUBSET ApPaths : n_ap' = IF mask = {} THEN 1 ELSE Cardinality(mask)
    /\ processed' = <<>>

----------------------------------------------------------------------------
(* bt_le_cs_get_antenna_path(): negative unless the permutation is one of so
   many paths. *)
antenna_path(s, t) == IF Len(s.permutation) = n_ap THEN s.permutation[t] ELSE -1

(* Mutant of High: only the local tone is looked at. *)
HighLocally(tone) == "local" \in tone.high
High(tone) == tone.high = BothEnds

(* extract_pcts() goes through the tones and stops at one that has no path or
   is not good at both ends: what follows it in the step is lost. *)
Extracted(s) ==
    {t \in 1..n_ap : \A u \in 1..t : antenna_path(s, u) >= 0 /\ High(s.tones[u])}
SampleAt(s, b) ==
    {t \in Extracted(s) : b = <<antenna_path(s, t), s.channel>>}

(* new_value / n + (1 - 1 / n) * avg: of the first sample the sample itself. *)
cumulate_mean(avg, new_value, n) ==
    [num |-> new_value * avg.den + (n - 1) * avg.num, den |-> n * avg.den]

Accumulated(means, s, end) ==
    [b \in Bins |->
        IF SampleAt(s, b) = {} THEN means[b]
        ELSE LET t == CHOOSE u \in SampleAt(s, b) : TRUE
             IN  cumulate_mean(means[b], s.tones[t][end], m_n_iqs'[b])]

extract_pcts(s) ==
    /\ m_n_iqs' = [b \in Bins |-> m_n_iqs[b] + (IF SampleAt(s, b) = {} THEN 0 ELSE 1)]
    /\ i_local' = Accumulated(i_local, s, "local")
    /\ i_remote' = Accumulated(i_remote, s, "remote")

extract_rtt_timings(s) ==
    IF s.rtt.good = BothEnds
    THEN /\ rtt_accumulated_half_ns' =
                rtt_accumulated_half_ns + (s.rtt.toa_tod_initiator - s.rtt.tod_toa_reflector)
         /\ rtt_count' = rtt_count + 1
    ELSE UNCHANGED <<rtt_accumulated_half_ns, rtt_count>>

process_step_data(s) ==
    /\ Len(processed) < MaxSteps
    /\ processed' = Append(processed, s)
    /\ IF s.mode \in {2, 3} THEN extract_pcts(s)
                            ELSE UNCHANGED <<m_n_iqs, i_local, i_remote>>
    /\ IF s.mode \in {1, 3} THEN extract_rtt_timings(s)
                            ELSE UNCHANGED <<rtt_accumulated_half_ns, rtt_count>>
    /\ UNCHANGED n_ap

StepsNext == BeginProcedure \/ \E s \in StepPairs : process_step_data(s)

StepsSpec == StepsInit /\ [][StepsNext]_stepsVars

tone_quality_ok(ap) ==
    Cardinality({c \in channel_map : m_n_iqs[<<ap, c>>] >= 1}) >= TONE_QI_OK_TONE_COUNT_THRESHOLD

----------------------------------------------------------------------------
(* What both ends measured well in this procedure.  Its steps are counted from 0. *)

StepNo == 0..(Len(processed) - 1)
StepOf(k) == processed[k + 1]

(* The steps with a sample for bin b that no bad tone hides. *)
UsableTone(s, b, t) ==
    /\ s.mode \in {2, 3} /\ s.channel = b[2] /\ Len(s.permutation) = n_ap
    /\ t \in 1..n_ap /\ s.permutation[t] = b[1]
    /\ \A u \in 1..t, end \in BothEnds : end \in s.tones[u].high
Usable(b) == {k \in StepNo : \E t \in 1..n_ap : UsableTone(StepOf(k), b, t)}

(* The sample of each step, and 0 of the others. *)
SampleOf(s, b, end) == s.tones[CHOOSE t \in 1..n_ap : UsableTone(s, b, t)][end]
SamplesOf(b, end) ==
    [k \in StepNo |-> IF k \in Usable(b) THEN SampleOf(StepOf(k), b, end) ELSE 0]

Timed == {k \in StepNo : /\ StepOf(k).mode \in {1, 3}
                         /\ \A end \in BothEnds : end \in StepOf(k).rtt.good}
TimesOfSteps ==
    [k \in StepNo |->
        IF k \in Timed THEN StepOf(k).rtt.toa_tod_initiator - StepOf(k).rtt.tod_toa_reflector
        ELSE 0]

IsMeanOf(mean, n, samples) == n * mean.num = mean.den * SumOf(samples, Len(processed))

TonesAreGenuine ==
    \A b \in Bins :
        /\ m_n_iqs[b] = Cardinality(Usable(b))
        /\ IsMeanOf(i_local[b], m_n_iqs[b], SamplesOf(b, "local"))
        /\ IsMeanOf(i_remote[b], m_n_iqs[b], SamplesOf(b, "remote"))
TimesAreGenuine ==
    /\ rtt_count = Cardinality(Timed)
    /\ rtt_accumulated_half_ns = SumOf(TimesOfSteps, Len(processed))
QualityIsGenuine ==
    \A ap \in ApPaths :
        tone_quality_ok(ap) <=>
            Cardinality({c \in channel_map : Usable(<<ap, c>>) # {}})
                >= TONE_QI_OK_TONE_COUNT_THRESHOLD

(* The report a distance is computed from holds what both ends measured well in
   this very procedure: the tones of a path and channel are the means of the
   samples, without those that follow a bad tone of their step; the round-trip
   times are summed up and counted; the tones pass for good exactly with samples
   on enough of the configured channels. *)
ReportIsGenuine == TonesAreGenuine /\ TimesAreGenuine /\ QualityIsGenuine
=============================================================================
