---------------------------- MODULE MCCsRanging ----------------------------
(* Channel Sounding on SS2 with the peers and the steps it may meet. *)
EXTENDS CsInitiator

(* Data fetched on demand, up to two procedures behind, of a peer that reports
   complete procedures only; its transfers may fail, the buffer is too small for
   two subevents, and the link may be lost. *)
OnDemand == [realtime |-> FALSE, lossy |-> TRUE, keepsAborted |-> FALSE, early |-> FALSE,
             relinks |-> 1, window |-> 2, capacity |-> 1]

(* Data sent by the peer itself, before the next procedure or not at all, also
   those of aborted procedures, on one link after another; the buffer has room. *)
RealTime == [realtime |-> TRUE, lossy |-> TRUE, keepsAborted |-> TRUE, early |-> FALSE,
             relinks |-> 1, window |-> 1, capacity |-> 2]

(* On one link, of all procedures, late or early, with the small buffer. *)
UnrulyOnDemand == [OnDemand EXCEPT !.keepsAborted = TRUE, !.early = TRUE, !.relinks = 0]
UnrulyRealTime == [UnrulyOnDemand EXCEPT !.realtime = TRUE]

AllModes == {OnDemand, RealTime, UnrulyOnDemand, UnrulyRealTime}

(* Each RTT type is the best of one of the peers. *)
ThreePeers == {[realtime |-> FALSE, sounding |-> TRUE, random |-> TRUE],
               [realtime |-> TRUE, sounding |-> FALSE, random |-> TRUE],
               [realtime |-> TRUE, sounding |-> FALSE, random |-> FALSE]}

(* Two antenna paths on one channel or another: the tones of a step are good at
   both ends, or bad at one of them; a step's permutation is one of two paths, of
   the first path alone, or invalid. *)
Tone(high, local, remote) == [high |-> high, local |-> local, remote |-> remote]
Tones == {Tone(BothEnds, 6, 0), Tone(BothEnds, 0, 12),
          Tone({"local"}, 6, 6), Tone({"remote"}, 6, 6)}
Rtt(good, toa, tod) == [good |-> good, toa_tod_initiator |-> toa, tod_toa_reflector |-> tod]
NoTones == <<Tone({}, 0, 0), Tone({}, 0, 0)>>
NoRtt == Rtt({}, 0, 0)

ToneStep(c, q, t, u) ==
    [mode |-> 2, channel |-> c, permutation |-> q, tones |-> <<t, u>>, rtt |-> NoRtt]
PairsOfTones ==
    {ToneStep(1, <<0, 1>>, t, u) : t \in Tones, u \in Tones}
    \cup {ToneStep(2, <<1, 0>>, t, Tone(BothEnds, 0, 12)) : t \in Tones}
    \cup {ToneStep(1, <<0>>, t, Tone(BothEnds, 0, 12)) : t \in Tones}
    \cup {ToneStep(2, <<>>, Tone(BothEnds, 6, 0), Tone(BothEnds, 6, 0))}
PairsOfTimes == {[mode |-> 1, channel |-> 1, permutation |-> <<>>, tones |-> NoTones, rtt |-> r] :
                   r \in {Rtt(BothEnds, 5, 2), Rtt(BothEnds, 1, 4), Rtt({"local"}, 9, 9)}}
Mode3Pair == [mode |-> 3, channel |-> 2, permutation |-> <<0, 1>>, tones |-> <<Tone(BothEnds, 6, 0),
              Tone({"remote"}, 6, 6)>>, rtt |-> Rtt(BothEnds, 7, 1)]
SomePairs == PairsOfTones \cup PairsOfTimes \cup {Mode3Pair}

(* The session and the parse take no notice of the peer's way to report, nor
   the others of its capabilities. *)
MCInit ==
    /\ AllInit
    /\ shown # "buffer" => mode = RealTime
    /\ shown # "session" => peer = CHOOSE p \in Peers : TRUE

MCSpec == MCInit /\ [][AllNext]_allVars /\ AllFairness
=============================================================================
