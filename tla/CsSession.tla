----------------------------- MODULE CsSession -----------------------------
(***************************************************************************)
(* A Channel Sounding session on SS2 (Blonky/src/cs_initiator.c): the      *)
(* chain of callbacks that sets ranging up on a link, and what becomes of  *)
(* the estimates of its procedures: the window, its median and the         *)
(* smoothed distance that is shown.  Every failure on the way is printed   *)
(* and ends the chain.  Links follow each other; the program's variables   *)
(* outlive them.                                                           *)
(*                                                                         *)
(* External: the peer, the controller, the GATT library, and cs_de_calc(), *)
(* which makes an estimate, or none, of a report.                          *)
(***************************************************************************)
EXTENDS Integers, Sequences, FiniteSets

CONSTANTS
    Peers,                    \* records: has the peer real-time ranging data,
                              \* sounding-sequence RTT, random-payload RTT
    DE_SLIDING_WINDOW_SIZE,
    Distances                 \* even numbers: estimates, in half units

ASSUME SessionAssumption ==
    /\ \A p \in Peers : {p.realtime, p.sounding, p.random} \subseteq BOOLEAN
    /\ DE_SLIDING_WINDOW_SIZE \in Nat \ {0}
    /\ Distances \subseteq {d \in Nat : d % 2 = 0}

NaN == -1
Nothing == "nothing"
RttTypes == {"AA_ONLY", "32_BIT_SOUNDING", "128_BIT_RANDOM"}
OnDemandSubscriptions == <<"overwritten", "ready", "on-demand data", "control point">>

VARIABLES
    peer,                  \* of the present link, or the last one
    stage,                 \* what the chain waits for; "idle": nothing,
                           \* "no link": there is no link
    ras_feature_bits,      \* RAS_FEAT_REALTIME_RD
    subscriptions,         \* made on this link
    negotiated_rtt_type,
    cs_config,             \* its RTT type
    procedure_interval,    \* controller: of the procedures of this link
    window,                \* distance_estimate_buffers[0]: estimates[].ifft,
                           \* num_valid, index
    smoothed_distance_valid, smoothed_distance_m,
    medians,               \* history: the least and the greatest median that
                           \* was taken on this link, or <<>>
    own, taken             \* history: the places of the window with estimates
                           \* of this link; how many it made, up to a window

settingVars == <<ras_feature_bits, negotiated_rtt_type, cs_config>>
linkVars == <<subscriptions, procedure_interval>>
distanceVars == <<window, smoothed_distance_valid, smoothed_distance_m, medians, own, taken>>
sessionVars == <<peer, stage, settingVars, linkVars, distanceVars>>

Places == 0..(DE_SLIDING_WINDOW_SIZE - 1)
Stages == {"no link", "idle", "discovery", "features", "capabilities", "configuration", "security",
           "enable", "ranging"}

SessionTypeOK ==
    /\ peer \in Peers
    /\ stage \in Stages
    /\ ras_feature_bits \in BOOLEAN /\ smoothed_distance_valid \in BOOLEAN
    /\ negotiated_rtt_type \in RttTypes
    /\ cs_config \in RttTypes \cup {Nothing}
    /\ procedure_interval \in {0, 5, 10}
    /\ window.estimates \in [Places -> Distances \cup {NaN, 0}]
    /\ window.num_valid \in 0..DE_SLIDING_WINDOW_SIZE /\ window.index \in Places
    /\ smoothed_distance_m \in Nat
    /\ own \in SUBSET Places /\ taken \in 0..DE_SLIDING_WINDOW_SIZE

SessionInit ==
    /\ peer \in Peers /\ stage = "no link"
    /\ ras_feature_bits = FALSE /\ subscriptions = {}
    /\ negotiated_rtt_type = "AA_ONLY" /\ cs_config = Nothing
    /\ procedure_interval = 0
    /\ window = [estimates |-> [k \in Places |-> 0], num_valid |-> 0, index |-> 0]
    /\ smoothed_distance_valid = FALSE /\ smoothed_distance_m = 0 /\ medians = <<>>
    /\ own = {} /\ taken = 0

----------------------------------------------------------------------------
(* The next request of the chain is queued, or fails at once. *)
Request(next) == stage' \in {next, "idle"}

(* Mutant of ForgetSmoothed: the distance of the last link is averaged on. *)
KeepSmoothed == UNCHANGED smoothed_distance_valid
ForgetSmoothed == smoothed_distance_valid' = FALSE

(* cs_initiator_start() on a new link. *)
CsInitiatorStart(p) ==
    /\ stage = "no link"
    /\ peer' = p
    /\ ForgetSmoothed
    /\ medians' = <<>> /\ own' = {} /\ taken' = 0
    /\ Request("discovery")
    /\ UNCHANGED <<settingVars, linkVars, window, smoothed_distance_m>>

LinkLost ==
    /\ stage # "no link"
    /\ stage' = "no link"
    /\ subscriptions' = {} /\ procedure_interval' = 0
    /\ UNCHANGED <<peer, settingVars, distanceVars>>

(* ras_dm_completed(): handles, default settings, and the features are read. *)
RasDmCompleted ==
    /\ stage = "discovery"
    /\ Request("features")
    /\ UNCHANGED <<peer, settingVars, linkVars, distanceVars>>

(* An answer with an error, of any stage: ras_dm_not_found(), ras_dm_error(),
   or the status of the other callbacks. *)
StageFails ==
    /\ stage \notin {"no link", "idle", "ranging"}
    /\ stage' = "idle"
    /\ UNCHANGED <<peer, settingVars, linkVars, distanceVars>>

FirstSubscriptions(n) == {OnDemandSubscriptions[k] : k \in 1..n}

Subscribed(made) ==
    made = IF ras_feature_bits' THEN {"realtime"} ELSE FirstSubscriptions(4)

(* ras_features_read_cb(): the subscriptions are made one after the other, up to
   the first that fails. *)
RasFeaturesRead ==
    /\ stage = "features"
    /\ ras_feature_bits' = peer.realtime
    /\ \E made \in {{"realtime"}} \cup {FirstSubscriptions(n) : n \in 0..4} :
         /\ ("realtime" \in made) => ras_feature_bits'
         /\ (made \ {"realtime"} # {}) => ~ras_feature_bits'
         /\ subscriptions' = made
         /\ IF Subscribed(made) THEN Request("capabilities") ELSE stage' = "idle"
    /\ UNCHANGED <<peer, negotiated_rtt_type, cs_config, procedure_interval, distanceVars>>

(* Mutant of RttType: a peer without sounding sequence and random payload leaves
   the type that an earlier peer had. *)
RttTypeKept(p) ==
    IF p.sounding THEN "32_BIT_SOUNDING"
    ELSE IF p.random THEN "128_BIT_RANDOM" ELSE negotiated_rtt_type
RttType(p) ==
    IF p.sounding THEN "32_BIT_SOUNDING"
    ELSE IF p.random THEN "128_BIT_RANDOM" ELSE "AA_ONLY"

(* remote_capabilities_cb() *)
RemoteCapabilities ==
    /\ stage = "capabilities"
    /\ negotiated_rtt_type' = RttType(peer)
    /\ Request("configuration")
    /\ UNCHANGED <<peer, ras_feature_bits, cs_config, linkVars, distanceVars>>

(* config_create_cb(): the controller confirms what cs_config_get() asked for. *)
ConfigCreated ==
    /\ stage = "configuration"
    /\ cs_config' = negotiated_rtt_type
    /\ Request("security")
    /\ UNCHANGED <<peer, ras_feature_bits, negotiated_rtt_type, linkVars, distanceVars>>

DesiredInterval == IF ras_feature_bits THEN 5 ELSE 10

(* security_enable_cb(): the procedures get their parameters and are enabled. *)
SecurityEnabled ==
    /\ stage = "security"
    /\ \/ procedure_interval' = DesiredInterval /\ Request("enable")
       \/ stage' = "idle" /\ UNCHANGED procedure_interval
    /\ UNCHANGED <<peer, settingVars, subscriptions, distanceVars>>

(* procedure_enable_cb() *)
ProcedureEnabled ==
    /\ stage = "enable"
    /\ stage' = "ranging"
    /\ UNCHANGED <<peer, settingVars, linkVars, distanceVars>>

----------------------------------------------------------------------------
(* The distance. *)

(* store_distance_estimates_in_buffer() *)
Store(estimate) ==
    window' = [estimates |-> [window.estimates EXCEPT ![window.index] = estimate],
               num_valid |-> IF window.num_valid < DE_SLIDING_WINDOW_SIZE
                             THEN window.num_valid + 1 ELSE window.num_valid,
               index |-> (window.index + 1) % DE_SLIDING_WINDOW_SIZE]

(* The estimate is one of this link. *)
Take ==
    /\ own' = own \cup {window.index}
    /\ taken' = IF taken < DE_SLIDING_WINDOW_SIZE THEN taken + 1 ELSE taken

FinitePlaces(w) == {k \in 0..(w.num_valid - 1) : w.estimates[k] # NaN}

(* The places of w in the order qsort() brings their values into: the number of
   places before k. *)
Before(w, j, k) ==
    \/ w.estimates[j] < w.estimates[k]
    \/ w.estimates[j] = w.estimates[k] /\ j < k
Rank(w, k) == Cardinality({j \in FinitePlaces(w) : Before(w, j, k)})
Sorted(w, n) ==
    w.estimates[CHOOSE k \in FinitePlaces(w) : Rank(w, k) = n]

Count(w) == Cardinality(FinitePlaces(w))

(* get_distance() and median_inplace() *)
Median(w) ==
    IF Count(w) = 0 THEN NaN
    ELSE IF Count(w) % 2 = 0
    THEN (Sorted(w, Count(w) \div 2) + Sorted(w, Count(w) \div 2 - 1)) \div 2
    ELSE Sorted(w, Count(w) \div 2)

Least(a, b) == IF a <= b THEN a ELSE b
Greatest(a, b) == IF a <= b THEN b ELSE a

(* An average of which 0.15, CS_DISPLAY_EMA_ALPHA, is new: a whole number of half
   units, rounded down or up. *)
MovingAverage(old, d) ==
    LET sum == 17 * old + 3 * d IN {sum \div 20, (sum + 19) \div 20}

(* distance_estimate_print(): smoothed_distance_m is printed every time, also
   before it is valid. *)
Smooth(d) ==
    IF d = NaN
    THEN UNCHANGED <<smoothed_distance_valid, smoothed_distance_m, medians>>
    ELSE /\ smoothed_distance_valid' = TRUE
         /\ smoothed_distance_m' \in IF smoothed_distance_valid
                                    THEN MovingAverage(smoothed_distance_m, d) ELSE {d}
         /\ medians' = IF medians = <<>> THEN <<d, d>>
                       ELSE <<Least(medians[1], d), Greatest(medians[2], d)>>

(* The end of ranging_data_cb(): the report of a procedure has an estimate, with
   tones good enough for a distance, or for its round-trip time only. *)
ProcedureParsed(estimate) ==
    /\ stage = "ranging"
    /\ Store(estimate)
    /\ Take
    /\ Smooth(Median(window'))
    /\ UNCHANGED <<peer, stage, settingVars, linkVars>>

----------------------------------------------------------------------------
SessionNext ==
    \/ \E p \in Peers : CsInitiatorStart(p)
    \/ LinkLost
    \/ RasDmCompleted \/ RasFeaturesRead \/ RemoteCapabilities \/ ConfigCreated
    \/ SecurityEnabled \/ ProcedureEnabled \/ StageFails
    \/ \E estimate \in Distances \cup {NaN} : ProcedureParsed(estimate)

SessionSpec == SessionInit /\ [][SessionNext]_sessionVars

(* Procedures run only with everything they need set up for the peer of this
   link, although all settings outlive the links: how its data come, the
   subscriptions for that, the best RTT type it has, and the interval. *)
RangingIsEquipped ==
    stage = "ranging" =>
        /\ ras_feature_bits = peer.realtime
        /\ subscriptions = IF peer.realtime THEN {"realtime"} ELSE FirstSubscriptions(4)
        /\ peer.sounding => cs_config = "32_BIT_SOUNDING"
        /\ ~peer.sounding /\ peer.random => cs_config = "128_BIT_RANDOM"
        /\ ~peer.sounding /\ ~peer.random => cs_config = "AA_ONLY"
        /\ procedure_interval = IF peer.realtime THEN 5 ELSE 10

(* A minority of outliers does not move the median out of the range of the
   others, however full the window is and wherever it begins. *)
OutliersRejected ==
    \A low, high \in Distances :
        LET Inside == {k \in FinitePlaces(window) : window.estimates[k] \in low..high}
        IN  2 * Cardinality(Inside) > Count(window) => Median(window) \in low..high

(* From the first finite median of a link on, the distance shown stays within
   the range of the medians taken on this link: nothing of the last link's
   average is carried over.  Before that it is the last link's, or 0. *)
SmoothedWithinMedians ==
    stage # "no link" /\ medians # <<>> =>
        /\ smoothed_distance_valid
        /\ smoothed_distance_m \in medians[1]..medians[2]

(* The window outlives the link, so its first medians are of the last link's
   estimates; but after DE_SLIDING_WINDOW_SIZE estimates none of them is left. *)
WindowIsRenewed == taken = DE_SLIDING_WINDOW_SIZE => own = Places

(* What is shown as the distance is robust against a minority of outliers, and
   what it keeps of the last link ends: the average with the first median, the
   estimates within one window. *)
DistanceIsRobust == OutliersRejected /\ SmoothedWithinMedians /\ WindowIsRenewed
=============================================================================
