------------------------------ MODULE SS1Main ------------------------------
(***************************************************************************)
(* The main loop of SS1 (main() in blinky/src/main.c): the sensor and its  *)
(* averages, what is notified and sent over the auxiliary UART, and the    *)
(* maintenance LED, which the button's interrupt and the writes of the     *)
(* clients reach as well.                                                  *)
(*                                                                         *)
(* Main has the lowest priority: the interrupt and the receive thread run  *)
(* between any two of its steps, and are not interrupted by it.  Time is   *)
(* measured in ticks.  Instead of the times the code stores, the model     *)
(* keeps how long ago they were, now_age for now; a difference of two      *)
(* times is the difference of their ages.                                  *)
(*                                                                         *)
(* External: the clock, the sensor's readings (module Sht3x), the pin, the *)
(* clients.  Who gets a notification is the subject of SS1Notify.          *)
(***************************************************************************)
EXTENDS AuxUart, Sums

CONSTANTS
    SAMPLE_PERIOD, NOTIFY_PERIOD, AUX_TX_PERIOD, BUTTON_DEBOUNCE,    \* ticks
    AVG_WINDOW,                     \* TEMP_ and HUM_AVG_WINDOW_SAMPLES
    FAKE_LOW, FAKE_STEP, FAKE_HIGH, \* the numbers of fake_temp_cdeg()
    MaxPass,                        \* bound: ticks one pass of the loop takes
    Environments                    \* what happens around the loop, records of
                                    \* readings, what the sensor may send;
                                    \* uart, is the UART ready;
                                    \* led, are button and LED used

ASSUME PeriodsAssumption ==
    /\ {SAMPLE_PERIOD, NOTIFY_PERIOD, AUX_TX_PERIOD, BUTTON_DEBOUNCE, AVG_WINDOW} \subseteq Nat \ {0}
    /\ MaxPass \in Nat \ {0}
    /\ SAMPLE_PERIOD + MaxPass <= NOTIFY_PERIOD /\ SAMPLE_PERIOD + MaxPass <= AUX_TX_PERIOD
ASSUME ReadingsAssumption ==
    /\ FAKE_LOW \in Int /\ FAKE_HIGH \in Int /\ FAKE_STEP \in Nat /\ FAKE_LOW <= FAKE_HIGH
    /\ \A e \in Environments : \A reading \in e.readings :
         reading.valid \in BOOLEAN /\ reading.temp \in Int /\ reading.hum \in Nat

VARIABLES
    environment,
    at,                    \* what main does next
    now_age, last_sample, last_notify, last_aux_tx, last_maint_button,    \* ages
    sensor,                \* temp_samples_cdeg, hum_samples_cpercent; the index
                           \* and the count, which they share; fake
    temp_avg_cdeg, hum_avg_cpercent,
    recent,                \* history: the last AVG_WINDOW samples, oldest first,
                           \* with their sources
    sample_age,            \* history: how long ago the last sample was taken
    aux_seq,
    wire,                  \* the packets last sent
    maint_button_pending,
    unanswered,            \* history: a press since main last took one up
    led_state, pin,        \* the variable and the hardware
    led_value,             \* the value main is about to notify
    heard,                 \* history: the value clients were last notified of
    overtaken,             \* history: where in main's set_led_state() the last
                           \* write came, or "no"
    pin_failed             \* history: the pin could not be set

ageVars == <<now_age, last_sample, last_notify, last_aux_tx, last_maint_button, sample_age>>
sensorVars == <<sensor, temp_avg_cdeg, hum_avg_cpercent, recent>>
auxVars == <<aux_seq, wire>>
buttonVars == <<maint_button_pending, unanswered>>
ledVars == <<led_state, pin, led_value, heard, overtaken, pin_failed>>
mainVars == <<environment, at, ageVars, sensorVars, auxVars, buttonVars, ledVars>>

Slots == 0..(AVG_WINDOW - 1)
MaxAge(period) == period + 2 * MaxPass
Ages(period) == 0..MaxAge(period)
Never == -1

MainTypeOK ==
    /\ environment \in Environments
    /\ at \in {"sleep", "sample", "notify", "aux_temp", "aux_hum", "button", "clear",
               "debounce", "led", "pin", "value", "send"}
    /\ now_age \in 0..MaxPass
    /\ last_sample \in Ages(SAMPLE_PERIOD) /\ last_notify \in Ages(NOTIFY_PERIOD)
    /\ last_aux_tx \in Ages(AUX_TX_PERIOD) /\ last_maint_button \in Ages(BUTTON_DEBOUNCE)
    /\ sensor.index \in Slots /\ sensor.count \in 0..AVG_WINDOW
    /\ sensor.fake \in FAKE_LOW..FAKE_HIGH
    /\ DOMAIN sensor.temps = Slots /\ DOMAIN sensor.hums = Slots
    /\ aux_seq \in 0..(SeqNumbers - 1)
    /\ {maint_button_pending, unanswered, pin_failed} \subseteq BOOLEAN
    /\ overtaken \in {"no", "pin", "value", "send"}
    /\ {led_state, pin, led_value, heard} \subseteq 0..1

MainInit ==
    /\ environment \in Environments
    /\ at = "sleep" /\ now_age = 0
    /\ last_sample = 0 /\ last_notify = 0 /\ last_aux_tx = 0
    /\ last_maint_button \in Ages(BUTTON_DEBOUNCE)
    /\ sensor = [temps |-> [s \in Slots |-> 0], hums |-> [s \in Slots |-> 0],
                 index |-> 0, count |-> 0, fake |-> FAKE_LOW]
    /\ temp_avg_cdeg = 0 /\ hum_avg_cpercent = 0
    /\ recent = <<>> /\ sample_age = Never
    /\ aux_seq = 0 /\ wire = <<>>
    /\ maint_button_pending = FALSE /\ unanswered = FALSE
    /\ led_state = 0 /\ pin = 0 /\ led_value = 0 /\ heard = 0
    /\ overtaken = "no" /\ pin_failed = FALSE

----------------------------------------------------------------------------
(* Time passes at most MaxPass ticks for each pass.  Ages are counted up to the
   point from which they make no difference. *)
Older(age, period) == IF age < MaxAge(period) THEN age + 1 ELSE age

ClockTick ==
    /\ now_age < MaxPass
    /\ now_age' = now_age + 1
    /\ last_sample' = Older(last_sample, SAMPLE_PERIOD)
    /\ last_notify' = Older(last_notify, NOTIFY_PERIOD)
    /\ last_aux_tx' = Older(last_aux_tx, AUX_TX_PERIOD)
    /\ last_maint_button' = Older(last_maint_button, BUTTON_DEBOUNCE)
    /\ sample_age' = IF sample_age = Never THEN Never ELSE Older(sample_age, SAMPLE_PERIOD)
    /\ UNCHANGED <<environment, at, sensorVars, auxVars, buttonVars, ledVars>>

Due(last, period) == last - now_age >= period

(* A pass begins: now = k_uptime_get(). *)
Wake ==
    /\ at = "sleep"
    /\ at' = "sample" /\ now_age' = 0
    /\ UNCHANGED <<environment, last_sample, last_notify, last_aux_tx, last_maint_button,
                   sample_age, sensorVars, auxVars, buttonVars, ledVars>>

----------------------------------------------------------------------------
(* update_sensor_averages() *)

NextFake == IF sensor.fake + FAKE_STEP > FAKE_HIGH THEN FAKE_LOW
            ELSE sensor.fake + FAKE_STEP

(* read_sht3x_sample().  The values of a failed reading are made up; the caller
   does not look at the result that says so. *)
Sample(reading) ==
    IF reading.valid
    THEN [temp |-> reading.temp, hum |-> reading.hum,
          source |-> IF reading.genuine THEN "sensor" ELSE "damaged"]
    ELSE [temp |-> NextFake, hum |-> 0, source |-> "made up"]

(* Mutant of NextCount: the slots that were not filled yet count as well. *)
NextCountFull == AVG_WINDOW
NextCount == IF sensor.count < AVG_WINDOW THEN sensor.count + 1 ELSE sensor.count

(* The mean of the first count slots, truncated. *)
Average(samples, count) == Quotient(SumOf(samples, count), count)

UpdateSensorAverages(reading) ==
    LET sample == Sample(reading)
    IN  /\ sensor' = [temps |-> [sensor.temps EXCEPT ![sensor.index] = sample.temp],
                      hums |-> [sensor.hums EXCEPT ![sensor.index] = sample.hum],
                      index |-> (sensor.index + 1) % AVG_WINDOW,
                      count |-> NextCount,
                      fake |-> IF reading.valid THEN sensor.fake ELSE NextFake]
        /\ temp_avg_cdeg' = Average(sensor'.temps, sensor'.count)
        /\ hum_avg_cpercent' = Average(sensor'.hums, sensor'.count)
        /\ recent' = IF Len(recent) = AVG_WINDOW THEN Append(Tail(recent), sample)
                     ELSE Append(recent, sample)

SampleSensor ==
    /\ at = "sample"
    /\ at' = "notify"
    /\ IF Due(last_sample, SAMPLE_PERIOD)
       THEN /\ last_sample' = now_age
            /\ \E reading \in environment.readings : UpdateSensorAverages(reading)
            /\ sample_age' = 0
       ELSE UNCHANGED <<last_sample, sample_age, sensorVars>>
    /\ UNCHANGED <<environment, now_age, last_notify, last_aux_tx, last_maint_button, auxVars,
                   buttonVars, ledVars>>

(* notify_temperature() and notify_humidity(). *)
NotifyAverages ==
    /\ at = "notify"
    /\ at' = "aux_temp"
    /\ last_notify' = IF Due(last_notify, NOTIFY_PERIOD) THEN now_age ELSE last_notify
    /\ UNCHANGED <<environment, now_age, last_sample, last_aux_tx, last_maint_button, sample_age,
                   sensorVars, auxVars, buttonVars, ledVars>>

(* aux_uart_send_temp_humidity(): two packets, each with a number of its own,
   and nothing if the UART is not ready. *)
SendPackets(msg) ==
    IF environment.uart
    THEN wire' = Packets(aux_seq, msg) /\ aux_seq' = NextSeq(aux_seq)
    ELSE UNCHANGED auxVars

SendTemperature ==
    /\ at = "aux_temp"
    /\ IF Due(last_aux_tx, AUX_TX_PERIOD)
       THEN /\ at' = "aux_hum"
            /\ last_aux_tx' = now_age
            /\ SendPackets(format_temp_msg(temp_avg_cdeg))
       ELSE at' = "button" /\ UNCHANGED <<last_aux_tx, auxVars>>
    /\ UNCHANGED <<environment, now_age, last_sample, last_notify, last_maint_button, sample_age,
                   sensorVars, buttonVars, ledVars>>

SendHumidity ==
    /\ at = "aux_hum"
    /\ at' = "button"
    /\ SendPackets(format_hum_msg(hum_avg_cpercent))
    /\ UNCHANGED <<environment, ageVars, sensorVars, buttonVars, ledVars>>

----------------------------------------------------------------------------
(* The button. *)

(* maint_button_pressed_cb(), in the interrupt. *)
Press ==
    /\ environment.led
    /\ maint_button_pending' = TRUE
    /\ unanswered' = TRUE
    /\ UNCHANGED <<environment, at, ageVars, sensorVars, auxVars, ledVars>>

CheckButton ==
    /\ at = "button"
    /\ at' = IF maint_button_pending THEN "clear" ELSE "sleep"
    /\ UNCHANGED <<environment, ageVars, sensorVars, auxVars, buttonVars, ledVars>>

(* The flag is cleared before the debounce test: a press up to then is taken up
   with the one that was seen, a later one has the next pass. *)
ClearButton ==
    /\ at = "clear"
    /\ at' = "debounce"
    /\ maint_button_pending' = FALSE
    /\ UNCHANGED <<environment, ageVars, sensorVars, auxVars, unanswered, ledVars>>

(* Mutant of IgnoreBounce: a press that is ignored starts the interval anew. *)
BounceRestarts == last_maint_button' = now_age
IgnoreBounce == UNCHANGED last_maint_button

Debounce ==
    /\ at = "debounce"
    /\ IF Due(last_maint_button, BUTTON_DEBOUNCE)
       THEN at' = "led" /\ last_maint_button' = now_age
       ELSE at' = "sleep" /\ IgnoreBounce
    /\ unanswered' = FALSE
    /\ UNCHANGED <<environment, now_age, last_sample, last_notify, last_aux_tx, sample_age,
                   sensorVars, auxVars, maint_button_pending, ledVars>>

----------------------------------------------------------------------------
(* set_led_state(0, true) in the main thread. *)

unchangedByLed == <<environment, ageVars, sensorVars, auxVars, buttonVars>>

(* Mutant of FlagStays: the flag is cleared when the press has been dealt with. *)
FlagClearedLate == maint_button_pending' = FALSE
FlagStays == UNCHANGED maint_button_pending

SetLed ==
    /\ at = "led"
    /\ at' = "pin"
    /\ FlagStays
    /\ led_state' = 0
    /\ overtaken' = "no" /\ pin_failed' = FALSE
    /\ UNCHANGED <<environment, ageVars, sensorVars, auxVars, unanswered,
                   pin, led_value, heard>>

(* The argument of gpio_pin_set_dt() is the value just stored, or is read again. *)
SetPin ==
    /\ at = "pin"
    /\ \/ pin' \in {0, led_state} /\ at' = "value" /\ UNCHANGED pin_failed
       \/ pin_failed' = TRUE /\ at' = "sleep" /\ UNCHANGED pin
    /\ UNCHANGED <<unchangedByLed, led_state, led_value, heard, overtaken>>

LedValue ==
    /\ at = "value"
    /\ at' = "send"
    /\ led_value' = led_state
    /\ UNCHANGED <<unchangedByLed, led_state, pin, heard, overtaken, pin_failed>>

NotifyLed ==
    /\ at = "send"
    /\ at' = "sleep"
    /\ heard' = led_value
    /\ UNCHANGED <<unchangedByLed, led_state, pin, led_value, overtaken, pin_failed>>

(* write_led_cb() in the receive thread: the whole of set_led_state(v, true),
   uninterrupted.  It takes precedence over the write before it. *)
InSetLed == at \in {"pin", "value", "send"}

(* Mutant of TellClients: the other clients are not notified of a write. *)
TellNobody(v) == UNCHANGED heard
TellClients(v) == heard' = v

WriteLed(v) ==
    /\ environment.led
    /\ led_state' = v
    /\ overtaken' = IF InSetLed THEN at ELSE "no"
    /\ \/ pin' = v /\ TellClients(v) /\ pin_failed' = FALSE
       \/ pin_failed' = TRUE /\ UNCHANGED <<pin, heard>>
    /\ UNCHANGED <<unchangedByLed, at, led_value>>

(* read_led_cb(): a client asks. *)
ReadLed ==
    /\ environment.led
    /\ heard' = led_state
    /\ UNCHANGED <<unchangedByLed, at, led_state, pin, led_value, overtaken, pin_failed>>

----------------------------------------------------------------------------
MainStep ==
    \/ Wake \/ SampleSensor \/ NotifyAverages \/ SendTemperature \/ SendHumidity
    \/ CheckButton \/ ClearButton \/ Debounce \/ SetLed \/ SetPin \/ LedValue \/ NotifyLed

MainNext ==
    \/ MainStep
    \/ ClockTick
    \/ Press
    \/ \E v \in 0..1 : WriteLed(v)
    \/ ReadLed

MainSpec == MainInit /\ [][MainNext]_mainVars

(* The averages are the means of the last AVG_WINDOW samples, or of all there
   are so far, truncated: the ring forgets exactly the oldest one. *)
RecentTemps == [k \in 0..(Len(recent) - 1) |-> recent[k + 1].temp]
RecentHums == [k \in 0..(Len(recent) - 1) |-> recent[k + 1].hum]
AveragesAreMeans ==
    recent # <<>> =>
        /\ temp_avg_cdeg = Average(RecentTemps, Len(recent))
        /\ hum_avg_cpercent = Average(RecentHums, Len(recent))

(* Each sample is what the sensor sent or what fake_temp_cdeg() made up, which
   no reader of the averages can tell apart: no damage to a single byte passes
   for a reading. *)
SamplesAccounted ==
    \A k \in 1..Len(recent) :
        \/ recent[k].source = "sensor"
        \/ /\ recent[k].source = "made up"
           /\ recent[k].temp \in FAKE_LOW..FAKE_HIGH /\ recent[k].hum = 0

(* What is notified or sent includes a sample taken less than one period and
   one pass ago; in particular nothing goes out before the first sample. *)
Publishing ==
    \/ at = "notify" /\ Due(last_notify, NOTIFY_PERIOD)
    \/ at = "aux_temp" /\ Due(last_aux_tx, AUX_TX_PERIOD)
    \/ at = "aux_hum"
FreshValues ==
    Publishing => sample_age # Never /\ sample_age < SAMPLE_PERIOD + MaxPass

(* What clients and the UART get is the mean of the last samples, a recent one
   among them, each of which the sensor sent or, where a reading failed, the
   program made up.  So it is the sensor's only while none of the last
   AVG_WINDOW readings failed; with failures, made-up temperatures and zero
   humidities are averaged in and published like the others. *)
PublishedIsAccounted == AveragesAreMeans /\ SamplesAccounted /\ FreshValues

(* The numbers of the packets follow each other without gap or repetition, and
   the packet that wraps to 0 is a status packet, as aux_uart.h:20-23 says. *)
Sent(packets) == LET Before == IF wire = <<>> THEN <<>> ELSE <<wire[Len(wire)]>> IN Before \o packets
SequenceGapless ==
    [][wire' # wire =>
         LET run == Sent(wire')
         IN  \A k \in 1..(Len(run) - 1) :
               /\ run[k + 1].seq = Successor(run[k].seq)
               /\ run[k + 1].seq = 0 <=> run[k + 1].msg = aux_status_msg]_mainVars

(* A packet says the average to within half a tenth, as long as it has two
   digits, and has a minus sign only before a number that is not zero. *)
Near(msg, value) ==
    Magnitude(value) < 9995 => Magnitude(10 * Tenths(msg) - value) <= 5
SentRounded ==
    [][wire' # wire =>
         LET msg == Head(wire').msg
         IN  /\ Near(msg, IF msg.kind = "temp" THEN temp_avg_cdeg ELSE hum_avg_cpercent)
             /\ msg.minus => Tenths(msg) < 0]_mainVars

(* The receiver of the packets misses none unnoticed and reads the averages. *)
PacketsAreRight == SequenceGapless /\ SentRounded

(* A press is never lost between the interrupt and the loop, whichever steps of
   the test, the clearing and the debounce it falls between: as long as main has
   not taken it up, the flag stands or the debounce test is next. *)
PressNotLost == unanswered => maint_button_pending \/ at = "debounce"

(* Variable, pin and clients agree about the LED whenever main is not about to
   set it and the pin could be set, but for a write that came in the middle of
   main's last change: before main's gpio_pin_set_dt() it can leave the pin with
   main's value, before main's notification it can leave the clients with it,
   and no write does both or leaves the three with different stories anywhere
   else. *)
LedAgrees ==
    ~InSetLed /\ ~pin_failed =>
        /\ overtaken # "pin" => led_state = pin
        /\ overtaken # "send" => led_state = heard

(* Maintenance between the interrupt, main and the clients: both facts. *)
MaintenanceIsKept == PressNotLost /\ LedAgrees

(* Main runs and time passes. *)
MainFairness == WF_mainVars(MainStep) /\ WF_mainVars(ClockTick)
MainFairSpec == MainSpec /\ MainFairness

(* A contact that bounces without end does not keep the button from working:
   if it is pressed again and again, the LED is cleared again and again. *)
BouncingIsAnswered == []<>maint_button_pending => []<>(at = "led")
=============================================================================
