----------------------------- MODULE MCSS1Main -----------------------------
(* The main thread of SS1 with what the sensor makes of the bus (Sht3x). *)
EXTENDS SS1MainThread, Sht3x

(* -45.00, -0.04 and 130.00 degrees; 0, 50 and 100 percent. *)
Coldest == Frame(<<0, 0>>, <<0, 0>>)
Freezing == Frame(<<65, 198>>, <<128, 0>>)
Hottest == Frame(<<255, 255>>, <<255, 255>>)

(* Frames as they were sent, and one of them with any damage to one byte: what
   the checksum notices does not depend on the frame. *)
Readings == {Reading(f, f) : f \in {Coldest, Freezing, Hottest}} \cup DamagedReadings(Freezing)

Sensing == [readings |-> Readings, uart |-> TRUE, led |-> FALSE]
Handling == [readings |-> {Reading(Freezing, Freezing)}, uart |-> FALSE, led |-> TRUE]
BothEnvironments == {Sensing, Handling}

(* The notify loop takes no notice of what main is given and begins with. *)
MCInit ==
    /\ ThreadInit
    /\ shown = "notify loop" => environment = Handling /\ last_maint_button = 0

MCSpec == MCInit /\ [][ThreadNext]_allVars /\ ThreadFairness
=============================================================================
