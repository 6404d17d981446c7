# A TLA+ model of Smart-Sentry

Smart-Sentry is two boards. **SS1** ("blinky") is a Bluetooth LE peripheral with a temperature and
humidity sensor; **SS2** ("Blonky") is the central that finds SS1, proves with a certificate that it
may listen, subscribes to the sensor values and measures its distance to SS1 with Channel Sounding.
These modules model how the two programs behave over many links: which callbacks, works and timers
run in which order, what they leave behind, and what must stay true in between.

## 1. Inventory

| Part | Source | State | Operations | Status |
|---|---|---|---|---|
| SS1 connection manager | `blinky/src/main.c` | `connections[]`, `active_conn_count`, `reconnect_quiet`, `cold_reboot_pending`, `unpair_addr`, `unpair_attempts`, the works `adv_work`, `reconnect_quiet_work`, `unpair_work` | `connected`, `disconnected`, `security_changed`, `pairing_failed`, the three work handlers, `advertising_start` | modelled: `SS1Link` |
| SS1 certificate authentication | `blinky/src/sentry_auth.c` | `slots[]`: connection, nonce, flags, time-out work | `sentry_auth_conn_added/removed`, `read_challenge_cb`, `write_response_cb`, `verify_response`, `auth_timeout` | modelled: `SS1Link`, abstract promise in `LinkTable` |
| SS1 main loop, sensor, notifications | `blinky/src/main.c` | sample rings, averages, four stored times, button flag, LED | the loop, `read_sht3x_sample`, `update_sensor_averages`, three notify loops, button interrupt, `set_led_state`, `read_led_cb`, `write_led_cb` | modelled: `SS1Main`, `Sht3x`, `SS1Notify` |
| SS1 auxiliary UART | `blinky/src/aux_uart.c` | sequence number | format two values, send them, status packet when the number wraps | modelled: `AuxUart`, called by `SS1Main` |
| SS1 Channel Sounding reflector | `blinky/src/cs_reflector.c` | none | `cs_reflector_conn_ready`; the callbacks only print | partly: the step of the authentication |
| SS2 central | `Blonky/src/main.c` | `default_conn`, recovery flags, GATT handles, six delayable works | scan match, connection callbacks, security and pairing callbacks, GATT callbacks, the work handlers | `SS2Central`; the notification callbacks and the signing are left out |
| SS2 ranging data | `Blonky/src/cs_initiator.c` | step buffer, semaphore, two counters; the report of a procedure; window of estimates, smoothed distance | `subevent_result_cb`, `ranging_data_ready_cb`, `ranging_data_cb`, `process_step_data`, median, moving average | modelled: `CsRanging`, `CsSteps`, `CsSession` |
| SS2 Channel Sounding set-up | `Blonky/src/cs_initiator.c` | feature bits, RTT type, configuration | a chain of eight callbacks from discovery to the enabled procedure | modelled: `CsSession` |
| Reference initiator/reflector | `initiator/`, `reflector/` (the same files in both) | semaphores, step buffers, procedure counters | two mains, connection and set-up callbacks, `subevent_result_cb`, a long GATT write, `estimate_distance` | `CsSample`, `DistanceEstimation`; the reflector's set-up callbacks, whose semaphores nobody takes, are left out |
| Controller test applications | `cs_test_*.c` | | samples for the controller's test mode; not in the build | not modelled |
| Certificate tool | `enroll.py` | files | makes keys and certificates | not modelled: file I/O and cryptography |

**Interaction.** SS1's connection manager calls the authentication (`sentry_auth_conn_added` from
`security_changed`, `sentry_auth_conn_removed` from `disconnected`, `sentry_auth_is_authenticated`
from `disconnected` and the notify loops); the authentication calls `cs_reflector_conn_ready` and
`bt_conn_disconnect`. On SS2 `main.c` starts `cs_initiator.c` at the end of the GATT set-up. The two
boards meet in the Bluetooth stack only: links, security events, GATT requests, ranging data.

**What is hard.** Connection objects and slots are reused; a link may be half-dead while its peer is
already back; `verify_response` blocks the receive thread while timers and `disconnected` go on;
every restart of advertising or scanning hangs on one of several works; a security failure on SS2
starts a clean-up that competes with the stack's teardown and with the next scan; SS1's main thread
has the lowest priority, so an interrupt and the receive thread change the button's flag, the LED and
`connections[]` between any two of its reads; a procedure of Channel Sounding is assembled from two
streams that a counter of twelve bits pairs; and almost everything `cs_initiator.c` keeps outlives
the link it belongs to. The `hazards` of
`PROJECT.json` list them at their lines.

**What makes each part correct.** *Connection manager:* the table, its count and the stack's links
agree; SS1 comes back to advertising unless the stack refuses; a pending reboot happens and no link is
taken before it; no peer has two usable links; a bond that failed is removed or looked after. *Authentication:* a connection counts as
authenticated only by what its present link proved; an encrypted link is authenticated or closed.
*SS2 central:* one link at a time, no timer of an old link hits a new one, every silent failure of
the set-up is noticed, a rejected bond is gone before the retry and a good one is kept, scanning
resumes. *Main loop:* the averages are those of the last samples, none of them a damaged reading taken
for a good one, what is published is fresh, packets are numbered without gap and say the average, no
press is lost, and variable, pin and clients agree about the LED or differ in one known way. *Ranging:* the set-up ends with what this peer
needs, the two halves parsed together are of one procedure and complete, the report holds what both
ends measured well, outliers do not move the median, and the semaphore comes back. *Reference
applications:* an estimate is made from one procedure's steps of both ends when that procedure found
both programs waiting and ended well, and estimates go on.

## 2. Modules

| Module | Role |
|---|---|
| `LinkTable` | the abstract table and authentication, as the rest of SS1 sees them |
| `SS1Link` | SS1's connection manager and authentication, composed: they share links and callbacks |
| `SS1LinkProofs` | theorems about `SS1Link` for any number of objects, peers and security events: the table, advertising, the authentication, the reboot and the bonds, and that it implements `LinkTable` |
| `SS1Notify`, `MCSS1Notify` | SS1's notify loops in the main thread, composed with `LinkTable` |
| `MCSS1Link` | `SS1Link` for TLC, with the symmetry of the peers |
| `SS2Central`, `MCSS2Central` | SS2's connection, security, recovery and GATT set-up |
| `SS2CentralProofs` | theorems about `SS2Central` for any number of objects and all durations |
| `SS1Main` | SS1's main loop with the button's interrupt and the writes to the LED |
| `Sht3x` | what SS1 makes of the bytes of the sensor; only TLC's module uses it, since it takes `Bitwise` |
| `AuxUart` | rounding and numbering of the packets; `SS1Main` extends it |
| `SS1MainThread` | the main loop and the notify loops it calls, as one thread |
| `SS1MainProofs` | theorems about `SS1MainThread`: for all periods, windows, values, packet numbers and numbers of connection objects |
| `MCSS1Main` | `SS1MainThread` with `Sht3x`, for TLC |
| `CsRanging` | SS2's step buffer between the controller and the peer's data, over several links |
| `CsRangingProofs` | theorems about `CsRanging` for counters of any width and any number of subevents |
| `CsSession` | SS2's set-up of Channel Sounding, window, median and smoothed distance |
| `CsSteps` | the report SS2 gathers from the steps of one procedure |
| `CsInitiator` | these three together: Channel Sounding on SS2 |
| `CsInitiatorProofs` | theorems about `CsSession`, `CsSteps` and `CsInitiator` for any peers, windows of any size, all distances and any steps |
| `MCCsRanging` | `CsInitiator` for TLC |
| `CsSample` | the two reference applications and the link, the procedures and the write between them |
| `CsSampleProofs` | theorems about `CsSample` for any counters, outcomes and lengths of a write |
| `DistanceEstimation` | the reference initiator's estimate, loop by loop: parsing, sorting, unwrapping, regression, moving average |
| `DistanceEstimationProofs` | theorem about the estimate for inputs of any length, any channels and any phases |
| `MCCsSample` | `CsSample` and `DistanceEstimation` for TLC, with inputs whose distance is known |
| `Sums` | the sum over an array, which three of the modules take |
| `ArithmeticProofs` | what the proofs need of sums, means, remainders and numberings, whatever the program |

Operators that a comment calls "mutant" are no part of the specifications: each is a plausible
mistake in the definition below it, and replacing the definition by it makes TLC report the
property that `PROJECT.json` names. A property that joins several facts about one hazard names each
of them (`PublishedIsAccounted == AveragesAreMeans /\ SamplesAccounted /\ FreshValues`). A module that joins components which share no variable
(`SS1MainThread`, `CsInitiator`, `MCCsSample`) has a variable `shown`: a behaviour is one of one of them
while the others stay as they began.

### SS1Link

*State.* `link`, `held`, `peer`, `enc`, `advertising`, `stale` are the stack's: for each object of its pool
whether its link is free, up or being torn down, whether the object outlives its link, its address and
its successful security events, whether the advertiser is on, and the peers whose stored bond failed
to encrypt. `start_failed` is history: the last `bt_le_adv_start` was refused. The other variables are the
C variables of the same name. A slot records who has *heard* the nonce it holds instead of the nonce:
only a peer that read it can sign it, and an all-zero slot is heard by everybody. `rx` is the
verification the receive thread is blocked in, with the slot pointer it took before. `proved` and
`dirty` are the controller's: links on which Channel Sounding was set up, and whether it lost one of
them to a supervision timeout and was not reset since.

*Steps.* Each callback and each work handler is one action; `Connected` splits into the reboot-pending,
ordinary and duplicate branches, `WriteResponse` into the handler up to the first signature check,
`CertChecked` and `NonceChecked`. While `rx` is not idle no other receive-thread callback runs, but
the works do. `disconnected` is left free to run as well: nothing in this code excludes it, and a
model with more behaviours is the safe side. `Disconnected` with the last tracked link while a reboot is needed is
`sys_reboot()`. `disconnected` does not free the object: `Released` does, as much later as it likes, and
until then `bt_conn_lookup_addr_le` finds it (`Held`).

*Refused starts.* `advertising_start` may be refused for any reason at every call, and is refused
when every object is held. The code prints the error and tries no more, so `AdvertisingIsOwed` and
`AdvertisingResumes` have `start_failed` as one of their alternatives: they say that it is the only
one without an end. A peer-less SS1 whose start was refused does nothing ever again; that is why
the runs of `SS1Link` without fairness do not check for deadlock.

*The look and the removal of a bond* are one step (`UnpairWork`). The handler runs in the system
workqueue, whose default priority is cooperative (`CONFIG_SYSTEM_WORKQUEUE_PRIORITY`; no
configuration of this repository changes it): no other thread of the host runs between
`bt_conn_lookup_addr_le` and `bt_unpair`. That no bond is removed under a link is therefore the
handler's own guard and no property. What is one, `LastFailedBondHandled`, is that the failure of
one pairing gets its own looks, whatever earlier failures used up.

*Assumed of the stack.* A new link takes the first free object and stops advertising;
`bt_conn_disconnect` on a link that is up leads to `disconnected`. `FailingPeers` are those whose
pairing may fail; they are all but in `ss1_link_live`, where they are a bound. The security handlers run for live links, at most `MaxSecurityEvents`
times successfully for each.

`LinkTable` states what the rest of SS1 relies on: a connection takes the first free entry of
`connections[]`, starts unauthenticated, and keeps entry and authentication until it ends. `SS1Link`
implements it with `authenticated` as the connections for which `sentry_auth_is_authenticated` holds.

### SS1Notify

`main` runs at the lowest priority, so callbacks may run between any two of its reads. The module
takes `LinkTable` for those callbacks, adds the subscriptions the GATT server keeps, and makes each
read of `connections[i]` a step: the check of the entry, its authentication, `bt_gatt_is_subscribed`,
`bt_gatt_notify`. The three loops have one shape; `Start` may begin any of them. `owed` and `sent`
are history: who has been entitled to the value since the loop began, and who got it. Reading the
subscription of no connection goes through a null pointer and may give any answer;
`bt_gatt_notify` of no connection serves every subscriber.

### SS1Main, Sht3x, AuxUart

*State.* `at` is the place in the loop. The code stores times; the model keeps how long ago they
were, and a difference of times is a difference of ages. So `now_age` is the age of `now`, which is
read once a pass, and every test of the pass compares with it, however late it is made. The rings of
temperature and humidity share their index and count, which the code keeps twice and moves together.
`recent` (the samples and where each came from), `sample_age`, `unanswered`, `heard`, `overtaken` and
`pin_failed` are history.

*Steps.* One per `if` of the loop, and for the button the test of the flag, its clearing and the debounce
are three, with the interrupt between any two; the two packets of one call are two steps. A failed reading, for
whatever reason, gives the next made-up temperature and no humidity. `set_led_state(0, true)` is four
steps in the main thread (variable, pin, value, notification) and one in `write_led_cb`, which runs
in a thread that main cannot interrupt. `Press` is the interrupt. The pin cannot always be set, and
then the clients are not told.

*Data.* `Sht3x` computes the checksum and the conversions of the code; frames of the sensor reach the
loop as they were sent or with one byte damaged in any way. `AuxUart` keeps of a message its kind,
sign, digits and decimal, and of a packet its number and message. The characters around them, and the
identity in them, are left out.

`SamplesAccounted`, a part of `PublishedIsAccounted`, says what the code does and no more: a sample is what
the sensor sent, or made up because the reading failed, and made-up ones are averaged and published
like the others. `LedAgrees`, a part of `MaintenanceIsKept`, names where a write in the middle of main's
own `set_led_state()` overtakes it (`overtaken`): before the pin is set it may leave the pin with main's
value, before the notification the clients, each only one of the two, until the next change; at any
other moment the three agree. `SentRounded`, a part of `PacketsAreRight`, ends at 99.95, where
the two digits saturate and the decimal does not: 100 % goes out as `99.0`.

### SS2Central

*State.* A connection object is free, connecting, up, closing, or down (lost but still held by the
stack). `op` is the ATT operation that is waited for. `bond` says whether SS2's bond is one SS1 will
encrypt with. The works are booleans, except the two `disconnected` starts together, whose lengths
decide: 250 ms looks of the bond clean-up against a scan restart after 500 ms or 2 s. Those two count
quarters of a second, and `Tick` lets a quarter pass only when no such work is due.

`max_release`, fixed at the beginning, is how long the stack may hold a lost object.

*Steps.* One per callback and work. Each GATT request is queued or fails at once, each of its
callbacks may bring an error, and the code only prints most of these; so `op` falls back to `none`
and a watchdog has to notice. A scan match whose connection cannot be created, for want of an object
(`refused` is "object") or for any other reason ("error"), leaves the library stopped: SS2
gives it no handler for this error. `ScanResumes` says that this is the one silence of SS2, and that
objects are lacking only if the stack holds one until the scan restarts. The system may stop
there, and the runs of `SS2Central` therefore do not check for deadlock.

### CsRanging

*State.* The buffer is the set of (procedure, subevent) pairs stored in it. Procedure counters are
16 bits and ranging counters their low 12; the model keeps both widths as constants, one a
multiple of the other. The controller delivers subevents, partial, complete or aborted, with or
without step data; `measured` is what it really delivered. The peer reports procedures in order and
up to `window` behind.

*Steps.* `SubeventResult` has the four outcomes of `subevent_result_cb`: the procedure was dropped
already, the buffer is taken, the steps do not fit, the steps are stored (an abort resets the buffer
and gives the semaphore back). `RangingDataReady` fetches or not, `RangingData` parses or not,
`RangingDataFails` is the callback with an error. `PeerIsEarly` has the peer report the present
procedure before its last results are here. `NewLink` puts a new link with a new count of
procedures in the place of the old one at any moment; buffer, semaphore and counters stay, as in the
code. The steps of the old link are marked `old`.

*What the code does not guarantee.* The buffer, its semaphore and two counters do not keep procedures
apart in every case. `spoiled` is history and says when they do not: data of an earlier procedure, or
early ones, or a failed fetch, reset the buffer and give it back in the middle of the procedure that
holds it (`SpoiledByReset`); a new procedure has the buffer's counter and goes on in it
(`SpoiledByTaking`); or a new link finds it as the last one left it. `PairedSteps` is unconditional
otherwise, for peers that are late, early, lossy and report aborted procedures, and `spoiled` ends when
the next procedure takes the buffer empty. `Forgotten` says when a taken buffer waits for nobody: only
on demand, and only after the transfer of its data failed, its procedure overflowed and aborted, or
the link was lost (`ForgottenByFailure`, a part of `RangingGoesOn`); then all procedures are dropped
until the ranging counter comes round, 4096 of them. In real-time mode the semaphore always comes
back. No document promises more, so these are hazards and not findings.

### CsSession and CsSteps

`CsSession` is the chain from `cs_initiator_start` to the enabled procedure. `stage` says which
answer is waited for; every request may fail at once and every answer may be an error, and either
ends the chain in `idle`. Settings (`ras_feature_bits`, `negotiated_rtt_type`, `cs_config`) outlive
the links, subscriptions and the procedures' parameters do not. A parsed procedure brings one
estimate or none, and `ProcedureParsed` does what `ranging_data_cb` does with it: window, median,
moving average. Only the estimate that is shown (`ifft`) on one antenna path is kept; the other two
go through the same functions. Distances are whole numbers of half a unit, and the moving average
of weight 0.15 is rounded up or down (`MovingAverage`). `own` and `taken` are history: which places
of the window hold estimates of this link. Two things outlive a link: the
distance that is printed before the first finite median is the last link's (`smoothed_distance_m`
is printed whether it is valid or not), and the window begins with the last link's estimates.
`DistanceIsRobust` says when each ends: with the first median, and after one window.

`CsSteps` is the callback the parser calls for every pair of steps. Each tone has a path, a sample of
either end and the ends that measured it well; the two components of a sample are treated alike, so
one number stands for both. The running mean of `cumulate_mean` is a fraction, and so exact: floating
point is left out. Its invariant says from the list of steps what the report must contain.

### CsSample and DistanceEstimation

*State.* The variables with `i_` and `r_` are those of the two programs; `i_main` and `r_main` are
the semaphores their mains wait for. A semaphore counts to 1, so the given ones are a set. Steps are
known by the procedure they belong to; `transfer` is the part of the reflector's buffer that has been
sent, piece by piece, from the buffer as it is at that moment.

*Steps.* One per callback, and one per stretch of a main between two semaphores. Every call may
fail, every answer may be an error, the link may go at any moment, the reflector gives up after ten
seconds, and late answers still come. `Outcomes` says how the results of a procedure come out at
either end.

*When procedures come.* At any moment, also during a write or an estimate; only that the results of
one procedure are delivered before the next one ends is assumed of time. So two procedures do get
mixed, and `unmatched` says when that may be: the procedure ended while a program was still at work
on an earlier one (`AtRest`) or discovering; it ended well for the reflector but not for the
initiator, or left no steps with one of them; or the reflector's steps arrived before the
initiator's own. `PairedEstimates` says that no other estimate is mixed, and that a procedure which
finds both waiting and ends well is paired again, whatever the one before left in the buffers and
semaphores.

`DistanceEstimation` is one call of `estimate_distance`. `doing` says which of its loops runs, and
an action is one turn of it: one step of the parser, one angle, one comparison of the bubble sort, one
phase unwrapped, one flight. `i`, `j`, `swapped` and the arrays are the C variables; two arrays that
are moved or shifted together change together. Phases are whole numbers of which `HalfTurn` make
pi, slopes and means are fractions; so the rounding of floating point is left out, and C's truncating
division is not (`Half`). What must come out is said of the input alone: of the tones both ends
measured well (`SlopeRecovered`) and of the round trips (`TofIsMean`), wherever the loops left them.
`Unambiguous` is a premise the method needs: a phase that changes by half a turn or more from one
channel to the next cannot be unwrapped. Good tones of one channel only make the regression divide
0 by 0: the C code prints NaN as a distance, and `SlopeRecovered` says that this happens in this case and
no other. A time that failed adds nothing but is counted: if it was the first, the mean has a 0 that
nobody measured among its flights, and otherwise the flights before it weigh more than those after.
`TofIsMean` allows the 0 only in the first case and is exact only if none failed.

## 3. Runs

| Run | Instance | What it shows |
|---|---|---|
| `ss1_link` | 2 peers, 2 objects | count, table and slots agree; authentication is earned by the present link; an encrypted link is timed; one usable link per peer; the quiet period; advertising is owed by something that ends, or was refused; the reboot waits for something that ends; no link on a dirty controller; the bond of the last failed pairing is removed or looked after; SS1 implements `LinkTable` |
| `ss1_link_live` | 2 peers, one of which may fail to pair, 2 objects, fair | encrypted links resolve, advertising resumes unless refused, the reboot happens if clients leave |
| `ss1_main` | 3 connections in the notify loops (`CONFIG_BT_MAX_CONN`); ticks of 125 ms, rings of 3, 4 packet numbers; fair | whoever is entitled to a notification throughout a loop gets it; averages are means of readings or made-up values; damaged readings are noticed; values are fresh; packets are gapless and say the average; no press is lost, bouncing does not silence the button; variable, pin and clients agree about the LED, but for two named traces |
| `ss2_central` | 2 objects, release within 1 or 5 quarters, fair | one link at a time, no leftover work, the set-up is watched; recovery from a rejected bond; a link is authenticated or closed whatever SS1 answers; scanning resumes unless the connection cannot be created |
| `cs_ranging` | ranging counter modulo 4, four modes: on demand and lossy with a window of 2 and a buffer for one subevent; real-time, lossy, aborts reported, buffer for two; both with one new link; and both with early data, aborts and the small buffer on one link; fair. Sessions with 3 kinds of peer, window of 3. Procedures of 3 steps with 2 paths and 2 channels | the parse pairs complete steps of one procedure, or the buffer was spoiled in a named way and heals; the semaphore comes back after overflow, aborts, lost links and losses, or a named failure forgot it on demand; procedures are equipped; outliers are rejected; the smoothed distance stays within the link's medians from the first on; the window is renewed; the report is genuine |
| `cs_sample` | 2 procedure counters, 2 pieces, 4 outcomes, fair; 3 tones, each of any of 3 channels, the bad ones in 5 combinations, half a turn is 4; 3 round trips at either role, good and bad | estimates pair the steps of one procedure that found both waiting and ended well; estimates go on; the slope and the time of flight the inputs were made from are found |

States and times on two workers: `ss1_link` 472 495 distinct states (45 s), `ss1_link_live` 210 272 (2 min),
`ss1_main` 958 578 (100 s), `ss2_central` 12 487 (7 s), `cs_ranging` 501 662 (105 s), `cs_sample` 360 426 (110 s).

Six runs end in a counterexample on purpose; each is a finding of `PROJECT.json`:

| Run | What the code does, against what a comment or document says |
|---|---|
| `ss1_notify_null` | the notify loops read `connections[i]` again for `bt_gatt_notify`; if the link went meanwhile the call gets NULL and serves every subscribed connection, authenticated or not |
| `ss1_rekey` | `security_changed` at L2 twice on one link takes two slots and `disconnected` frees one: the next link on the object may be authenticated from the start |
| `ss1_no_deadline` | the authentication timer starts with encryption, so a link that never encrypts has none |
| `ss1_quiet_too_short` | the quiet period ends after a fixed time, although the half-dead link may still be there |
| `ss1_stale_bond` | one `unpair_addr`: a second failed pairing makes SS1 forget the first stale bond |
| `ss2_no_subscription` | after the certificate the watchdog is off, and a failed discovery or subscription is only printed |

**Bounds.** In `SS1Link`, two peers suffice for one peer's nonce or slot to meet another's link, and
two objects for a duplicate, a half-dead link, a reuse and a full table. SS1 is built with three
(`CONFIG_BT_MAX_CONN`): the properties of the table, the links and advertising are proved for every
number (section 4), and so is the authentication under `MaxSecurityEvents = 1`; `ss1_quiet_too_short` uses three. `MaxSecurityEvents = 1` is the hypothesis of the
passing SS1 runs, not a mere bound: with 2, `AuthIsEarned` and `SlotsMirrorLinks` fail (`ss1_rekey`).
`UnpairTries` is 6 in the code; 1 or 2 already separates first, last and no look, and `ss1_stale_bond`
uses 6. `FailingPeers` is one peer in `ss1_link_live`, to which failures add states and no wait. In
`SS2Central`, release within five quarters is what "the connection object has finished
tearing down" in the comment of `bond_cleanup_work_fn` needs: the sixth and last look comes after six
quarters, so a longer teardown leaves the rejected bond. `ScanResumes` needs a release before the
scan restarts, or names the refusal (`refused`). In `SS1Main` a tick is an
eighth of a second: the periods are 4, 8, 8 and 2 ticks, and a pass of the loop takes at most one
(`MaxPass`; 50 ms of sleep, 20 ms of measurement and the work). Ages are counted up to the point
from which they make no difference. Rings of three instead of six are partly filled, full and
wrap; four packet numbers instead of 256 wrap as well, `FAKE_LOW`, `FAKE_STEP` and `FAKE_HIGH` make two
made-up temperatures. The sensor sends the coldest, one slightly negative and the hottest value; of
one of them TLC tries each of the 1530 ways to damage a byte, because what the checksum notices does
not depend on the frame. Button and LED are tried in an environment of their own (`Environments`).
In `CsRanging` eight procedure and four ranging counters come round, and two subevents separate the first,
the last and the only one. The two modes with a new link are calm otherwise, the two unruly ones
stay on one link: each way to spoil or to forget the buffer is in one of them. `window` and
`capacity` are 1 or 2: the procedure before the present one, or none; a buffer that a procedure overflows, or does not.
In `CsSession` a window of three holds an odd, an even
and a wrapped number of estimates, of which the two distances and the missing one are apart; in
`CsSteps` `MaxSteps` is 3: a step that is bad, one before it and one after it. In `DistanceEstimation`
three tones are sorted in up to two passes, are unwrapped twice, and leave two or one when some are
bad, or are all of one channel; with half a turn of 4, slopes from -1 to 3 make neighbours that are and that are not unambiguous.
The extension slots between them must be skipped. In `CsSample` two pieces let a buffer change in the middle of a write, and two procedure
counters tell the present procedure from the last, which is all the code compares; the theorem is for any
number. The four outcomes are: well at both ends; split at the initiator, aborted for the reflector; aborted for the initiator,
well for the reflector; and too long for the initiator, split for the reflector.

**Fairness.** SS1: delayable works run once scheduled, a verification returns, a requested teardown is
completed. SS2: the same, an attempt to connect ends, a lost object is released, and a scan start
that is tried again and again succeeds (strong fairness: the work retries every 500 ms). Ranging: the
controller measures, the peer reports, and not every transfer fails, or is cut off by a lost link,
for ever (strong fairness). Main loop: main runs and time passes; presses are not assumed,
`BouncingIsAnswered` has them as its premise. Reference applications: both programs run and are
answered, and procedures that end well at both ends come again and again (strong fairness, because
outcomes alternate); `EstimatesGoOn` lists what stops them. The two programs may both
return, so `cs_sample` does not check for deadlock. No peer is assumed to send, answer, authenticate or leave; `RebootHappens` states its own premise, that
no link stays for ever.

## 4. Proofs

Every invariant and every action property of the passing runs is also a theorem, for every value of
the constants; the end of this section says what stays with TLC. The assumptions are the `ASSUME`s of the modules (positive
sizes and periods, finite sets, types of what comes from outside) and, where a theorem says so, one
of three hypotheses:

| Hypothesis | What it says, and why |
|---|---|
| `MaxSecurityEvents = 1` | a link has one successful security change; with two, `ss1_rekey` shows the leaked slot |
| `ReleasedInTime` | the stack lets go of a lost object before the last look of the bond clean-up, as its comment expects |
| `GenuineReadings` | no damaged reading passes the checks; `Sht3x` computes that for every damage to a byte (`ss1_main`) |

| Module | Theorem | Property | Hypothesis |
|---|---|---|---|
| `SS1LinkProofs` | `TypeCorrect` | `TypeOK` | |
| | `CountCorrect` | `CountMatchesTable` | |
| | `TableCorrect` | `TableMirrorsLinks` | |
| | `RebootCorrect` | `RebootWaitsForLinks` | |
| | `UsableCorrect` | `OneUsableLinkPerPeer` | |
| | `QuietCorrect` | `QuietPeriod` | |
| | `OwedCorrect` | `AdvertisingIsOwed` | |
| | `SlotsCorrect` | `SlotsMirrorLinks` | `MaxSecurityEvents = 1` |
| | `EarnedCorrect` | `AuthIsEarned` | `MaxSecurityEvents = 1` |
| | `TimedCorrect` | `UnauthenticatedIsTimed` | `MaxSecurityEvents = 1` |
| | `DirtyCorrect` | `NoNewLinkOnDirtyController` | `MaxSecurityEvents = 1` |
| | `FailedBondCorrect` | `LastFailedBondHandled` | |
| | `Implements` | `TableSpec` (refinement) | `MaxSecurityEvents = 1` |
| `SS1MainProofs` | `AveragesCorrect`, `FreshCorrect` | parts of the next | |
| | `PublishedCorrect` | `PublishedIsAccounted` | `GenuineReadings` |
| | `GaplessCorrect` | a part of the next | |
| | `PacketsCorrect` | `PacketsAreRight` | |
| | `MaintenanceCorrect` | `MaintenanceIsKept` | |
| | `NobodyMissedCorrect` | `NobodyMissed` | |
| | `MainTypeCorrect` | `MainTypeOK`, in the next | |
| | `ThreadTypeCorrect` | `AllTypesOK` of `SS1MainThread` | |
| `SS2CentralProofs` | `CentralTypeCorrect` | `TypeOK` | |
| | `DefaultConnCorrect` | `DefaultConnIsTheLink` | |
| | `WorksCorrect` | `NoLeftoverWork` | |
| | `WatchedCorrect` | `SetupIsWatched` | |
| | `PairsFreshCorrect` | `RetryPairsFresh` | `ReleasedInTime` |
| | `CleanupCorrect` | `CleanupIsOwed` | `ReleasedInTime` |
| `CsRangingProofs` | `PairedStepsCorrect` | `PairedSteps` | |
| | `RangingTypeCorrect` | `TypeOK`, in `AllTypesOK` of `CsInitiator` | |
| `CsInitiatorProofs` | `EquippedCorrect` | `RangingIsEquipped` | |
| | `DistanceCorrect` | `DistanceIsRobust` | |
| | `ReportCorrect` | `ReportIsGenuine` | |
| | `SessionTypeCorrect`, `StepsTypeCorrect` | parts of the next | |
| | `InitiatorTypeCorrect` | `AllTypesOK` of `CsInitiator` | |
| `CsSampleProofs` | `PairedCorrect` | `PairedEstimates` | |
| | `SampleTypeCorrect` | `SampleTypeOK` | |
| `DistanceEstimationProofs` | `EstimateCorrect` | `EstimateIsRight` | |

None of the properties is inductive alone. The arguments, and what each invariant adds:

*The table of SS1* (`TableInv`) joins `TypeOK`, `CountMatchesTable` and `TableMirrorsLinks` with three
facts about the rest of the state: the counter of the unpair work stays below its bound while the
work is scheduled, a live link has a peer, and a blocked verification names a connection and a slot.
The count needs the table (storing into an empty entry adds one, removing an object that is there
once takes one away), and the table needs that its entries are distinct: otherwise
`connection_remove`, which clears one entry, would leave a dead one. That `connection_store` always
finds room for a link that stays up follows from counting: distinct live entries cannot fill the
table while the new object is not among them. The remaining theorems are steps from `TableInv`: a
pending reboot has a tracked link because the only step that removes one tests the count after it; a
duplicate never has two usable links because an accepted link has no tracked namesake and every
usable link is tracked; advertising is owed by induction over the actions that stop it or spend a
work, each of which starts it or sets `start_failed`; the last failed bond is handled because the one
step that ends the work without removing it has used the last look.

*The authentication of SS1* (`AuthInv`, `FreshLinks`). Slots are distinct, belong to encrypted links
that are still there, and their flag is what the link proved. The difficult part is `RxOwnsSlot`: the
slot whose pointer the blocked verification holds is still its own connection's, or belongs to
nobody, because the connection object is not freed while the receive thread is in the callback. Then
the write at the end of the verification cannot authenticate anybody else. That a link takes one slot
only needs that no earlier event of its object took one, hence the hypothesis, and `FreshLinks`: an
object without a link keeps nothing. From these the map to `LinkTable` sends every step to a step of
the table or to none. `RebootOnDirty` adds that a lost Channel Sounding link leaves the reboot pending,
since its connection was authenticated when `disconnected` asked.

*The notify loops* (`LoopInv`): whoever is owed a notification has an entry that is still to come or
has been served; no entry moves, so none slips past the loop's index.

*The main loop of SS1.* `RingInv`: the ring holds the last readings at the places the index says, full
or not, so that the sum over its places is the sum over the readings in order (`SumOf...` lemmas).
`AgeInv`: what is due in a pass is decided by one `now`, and the sample comes before whatever is
published in it. `PacketInv`: the number that will be sent next follows the last on the wire.
`LedInv`: between the four steps of `set_led_state` the parts that have been written agree, or a write came
in between, at a step that is known.

*SS2.* `LinkInv` ties `default_conn`, the scan and the works together: SS2 scans, waits to scan or has
a connection, one at a time. `CleanupInv` is a race of two works that start together: so many tries
of the clean-up are over, so old is the lost object and so far away is still the scan; the
object is released first and the scan starts last.

*The step buffer of SS2* (`RangingInv`). `WaitingInv`: what the peer has still to report is less old
than the counter is wide, so counters tell those procedures apart (`WaitingCounters`, from the
arithmetic of two counters of which one is a multiple of the other wide). While the buffer is not
`spoiled`, `FreeInv`: a free buffer is empty; `CurrentInv`: the procedure that is measured fills it alone
unless it was dropped; `ReportInv`: one that is waited for and has the buffer's counter is the one in it.
Nothing has to be known of a spoiled buffer, and a procedure that takes it empty establishes
the three anew, from `WaitingInv` alone.

*A session of SS2.* `ChainInv`: what each stage of the chain needs was set on this link. For the
distance: `Rank` numbers the places of the window, so among more than half of them, lying in a range,
are those on both sides of the middle (`MiddleIsInside`), by counting the places before and
after. `DistanceInv` adds that the window fills up from its beginning, that the medians of the link
enclose the average (`AverageIsBetween`, from the weights 17 and 3 of 20), and that the places this link has taken
are the last ones before the index, so that a full round is all of them.

*The report of a procedure* (`StepsInv`). The samples of a path and channel are those of the usable tones
of the steps so far, counted as cardinalities, and the mean times their number is their sum:
`cumulate_mean` keeps that equation when it moves the mean by a fraction of the new difference
(`MeanStep`). A step adds at most one sample to a path and channel because the tones' paths are a
permutation (`SampleIsUsable`); that is also why no count exceeds the number of steps, which
`StepsTypeOK` says and cannot show alone. Nothing is kept from the last procedure because the
report and the list of steps begin together.

*The estimate* (`EstInvariant`) has one part for each loop, and each loop needs what the one before it
left. `ParseInv`: the place of a tone in the arrays is the number of tones before it (`Ordinal`), the same
for both ends, so the peer's half meets the local half of the same step. `AnglesInv`: the angles are
those of the good tones, all of them, each with its phase up to whole turns; an exchange keeps that
only if both arrays are exchanged. `SortInv`: the last `i` angles are in their places, angle `j` is
no less than those before it, and a pass without an exchange was over a sorted array. `UnwrapInv`: the
phases before `i` lie on the line, and those not yet reached differ by less than a turn, so that one
turn more or less is enough; that the difference of two neighbours is the right one of all that
differ by turns is where `Unambiguous` comes in. The regression of points on a line is its slope
(`SumOfLine`), and its denominator is positive as soon as two channels differ (`DenominatorPositive`); if
none do, both sums are 0 (`NoSlope`). `CountInv` counts whether none, one or two good tones were reached. `FlightInv`: the mean
lies between the flights, from the first one that counts on (`FirstCounted`), and when none failed, it is exactly that of the halves, of which each
is off by at most half a unit.

*The reference applications* (`SampleInv`). `Always` holds in any case: a procedure's results are delivered
before the next one's, and a write begins with nothing. `Matched` holds as long as the present
procedure is not `unmatched`: the reflector's steps are in one place at a time on their
way to the estimate, announced, being written, received, or used (`OnePlace`), they are of the present
procedure (`OfThisProcedure`), and while they are on the way the initiator has or will get its own
(`Partner`) and has been told (`Told`). A procedure that is not `unmatched` establishes `Matched` from
`Always` (`MatchedAnew`), whatever happened before; so a mix does not outlive the procedures it is made of.

*Sums over all numbers.* The prover cannot instantiate the library's induction theorems, which take an
operator. `SetInduction` gets around it: a set that holds 0 and is closed under +1 holds all
numbers, from the well-foundedness of < as the library states it. Recursion in the modules with
theorems is written as recursive functions, and cardinalities take the place of folds.

*Only model-checked.* All liveness properties (`EncryptedLinkResolves`, `AdvertisingResumes`,
`RebootHappens`, `SetupResolves`, `ScanResumes`, `RangingGoesOn`, `BouncingIsAnswered`,
`EstimatesGoOn`), since liveness under fairness and `ENABLED` are out of the prover's reach; and what
`Sht3x` computes for every damaged byte, since `Bitwise` cannot be used from a module with theorems:
`PublishedCorrect` has it as its hypothesis `GenuineReadings`. The three hypotheses themselves are about
the stack and the peers and are not proved. Where components are composed without a shared variable,
the theorems other than those of the types are about each component's own specification.

## 5. Left out

Cryptography (who can sign is decided by who heard the nonce), key storage, the initialisation of
devices, the display of values, the memory layout of the programs, and Bluetooth below the host's
callbacks. In `SS2Central`: notifications, `bt_conn_ref` counts and the addresses of other devices,
since scanning filters on SS1. In `CsSample`: the memory of a main that has returned, which a late
answer may still write to. `cs_de_calc`, which turns a report
into an estimate, and the parser of ranging data are libraries. The two halves of `cs_initiator.c`
(`CsRanging` and `CsSession`) are modelled apart: what they share, the parsed procedure, is an input
of the second. *Not modelled:* the controller test applications, which are not built, and `enroll.py`,
which is file I/O and cryptography.

## 6. Plan

Done: SS1 (`LinkTable`, `SS1Link`, `SS1Notify`, `SS1Main`, `Sht3x`, `AuxUart`), SS2 (`SS2Central`,
`CsRanging`, `CsSession`, `CsSteps`), the reference applications (`CsSample`, `DistanceEstimation`),
and the proofs of section 4.

What would come next:

1. A composition of `SS1Link` and `SS2Central` through one stack: a session of SS2 that ends set up
   is one that SS1 holds open.
2. The start of Channel Sounding between the two: `cs_reflector_conn_ready` on SS1 against
   `cs_initiator_start` on SS2.
3. The parsed procedure as the link between `CsRanging` and `CsSteps`: today the second takes any
   procedure, and `PairedSteps` says of the first that it hands over complete ones.
4. A bound on what floating point adds to the exact means and the regression.
