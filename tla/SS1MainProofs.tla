--------------------------- MODULE SS1MainProofs ---------------------------
(***************************************************************************)
(* Proofs about SS1's main thread, for every period, every size of the     *)
(* averages' window and any number of connection objects: what the         *)
(* averages, the packets and the LED say, and that the notify loops miss   *)
(* nobody.                                                                 *)
(***************************************************************************)
EXTENDS SS1MainThread, ArithmeticProofs, SequenceTheorems

----------------------------------------------------------------------------
(* The averages. *)

Sources == {"sensor", "damaged", "made up"}
Samples == [temp : Int, hum : Nat, source : Sources]
Sensors ==
    [temps : [Slots -> Int], hums : [Slots -> Nat], index : Slots, count : 0..AVG_WINDOW,
     fake : FAKE_LOW..FAKE_HIGH]

(* The slot of the k-th of the recent samples. *)
SlotOf(k) ==
    IF sensor.count < AVG_WINDOW THEN k
    ELSE IF sensor.index + k < AVG_WINDOW THEN sensor.index + k
    ELSE sensor.index + k - AVG_WINDOW

(* The ring holds the recent samples from the index on, and its sums are theirs
   although their order is another; the averages are of the ring. *)
SensorTypes == environment \in Environments /\ sensor \in Sensors /\ recent \in Seq(Samples)
RingFill ==
    /\ Len(recent) = sensor.count
    /\ sensor.count < AVG_WINDOW => sensor.index = sensor.count
RingHoldsRecent ==
    \A k \in 0..(Len(recent) - 1) :
        /\ sensor.temps[SlotOf(k)] = recent[k + 1].temp
        /\ sensor.hums[SlotOf(k)] = recent[k + 1].hum
SumsAgree ==
    /\ SumOf(sensor.temps, sensor.count) = SumOf(RecentTemps, Len(recent))
    /\ SumOf(sensor.hums, sensor.count) = SumOf(RecentHums, Len(recent))
AveragesOfRing ==
    recent # <<>> =>
        /\ temp_avg_cdeg = Average(sensor.temps, sensor.count)
        /\ hum_avg_cpercent = Average(sensor.hums, sensor.count)
AveragesTyped == temp_avg_cdeg \in Int /\ hum_avg_cpercent \in Nat

RingInv == SensorTypes /\ RingFill /\ RingHoldsRecent /\ SumsAgree /\ AveragesOfRing /\ AveragesTyped

(* The ring is empty at the start. *)
LEMMA RingInit == MainInit => RingInv
<1> SUFFICES ASSUME MainInit PROVE RingInv
  OBVIOUS
<1> USE PeriodsAssumption, ReadingsAssumption DEF MainInit
<1>1. SensorTypes
  BY DEF SensorTypes, Sensors, Slots
<1>2. RingFill /\ RingHoldsRecent /\ AveragesOfRing /\ AveragesTyped
  BY DEF RingFill, RingHoldsRecent, AveragesOfRing, AveragesTyped
<1>3. SumsAgree
  BY SumOfNone DEF SumsAgree
<1> QED BY <1>1, <1>2, <1>3 DEF RingInv

(* What a reading, or the lack of one, adds is a sample. *)
LEMMA SampleType ==
    ASSUME SensorTypes, NEW reading \in environment.readings
    PROVE  Sample(reading) \in Samples /\ NextFake \in FAKE_LOW..FAKE_HIGH
           /\ (IF reading.valid THEN sensor.fake ELSE NextFake) \in FAKE_LOW..FAKE_HIGH
<1>1. reading.valid \in BOOLEAN /\ reading.temp \in Int /\ reading.hum \in Nat
  BY ReadingsAssumption DEF SensorTypes
<1>2. sensor.fake \in FAKE_LOW..FAKE_HIGH
  BY DEF SensorTypes, Sensors
<1>3. NextFake \in FAKE_LOW..FAKE_HIGH
  BY <1>2, ReadingsAssumption DEF NextFake
<1>4. Sample(reading) \in Samples
  BY <1>1, <1>3, ReadingsAssumption DEF Sample, Samples, Sources
<1> QED BY <1>2, <1>3, <1>4

LEMMA SampleFields == \A x \in Samples : x.temp \in Int /\ x.hum \in Nat /\ x.hum \in Int
  BY SMTT(30) DEF Samples

(* The average of count > 0 slots is a number of their kind. *)
LEMMA AverageType ==
    ASSUME NEW T \in {Nat, Int}, NEW v, NEW n \in Nat \ {0}, \A k \in 0..(n - 1) : v[k] \in T
    PROVE  Average(v, n) \in T
<1>1. SumOf(v, n) \in T
  BY SumOfType
<1>2. \A a \in Nat : a \div n \in Nat
  OBVIOUS
<1>3. \A a \in Int : Quotient(a, n) \in Int
  BY <1>2 DEF Quotient
<1>4. \A a \in Nat : Quotient(a, n) \in Nat
  BY <1>2 DEF Quotient
<1> QED BY <1>1, <1>3, <1>4 DEF Average

(* A ring v that is not full and a list r have the same sum; both get the same
   value at the end. *)
LEMMA SumsFill ==
    ASSUME NEW v, NEW w, NEW r, NEW q, NEW n \in Nat, SumOf(v, n) = SumOf(r, n),
           \A k \in 0..(n - 1) : w[k] = v[k] /\ q[k] = r[k],
           w[n] = q[n], NEW m, m = n + 1
    PROVE  SumOf(w, m) = SumOf(q, m)
<1>1. SumOf(w, n) = SumOf(v, n)
  BY SumOfSame
<1>2. SumOf(q, n) = SumOf(r, n)
  BY SumOfSame
<1> QED BY <1>1, <1>2, SumOfNext

(* A full ring and a list have the same sum; a value replaces the one that was
   first in the list, which goes, and is last in the list. *)
LEMMA SumsTurn ==
    ASSUME NEW v, NEW w, NEW r, NEW q, NEW n \in Nat \ {0}, NEW j \in 0..(n - 1),
           SumOf(v, n) = SumOf(r, n),
           \A k \in 0..(n - 1) : v[k] \in Int /\ w[k] \in Int /\ r[k] \in Int /\ q[k] \in Int,
           \A k \in 0..(n - 1) : k # j => v[k] = w[k],
           \A k \in 0..((n - 1) - 1) : q[k] = r[k + 1],
           v[j] = r[0], w[j] = q[n - 1]
    PROVE  SumOf(w, n) = SumOf(q, n)
<1>1. SumOf(w, n) = SumOf(v, n) - v[j] + w[j]
  BY SumOfUpdate
<1>2. n - 1 \in Nat /\ (n - 1) + 1 = n
  OBVIOUS
<1>3. SumOf(q, n - 1) = SumOf(r, (n - 1) + 1) - r[0]
  <2>1. \A k \in 0..(n - 1) : r[k] \in Int
    OBVIOUS
  <2> QED BY <1>2, <2>1, SumOfTail
<1>4. SumOf(q, (n - 1) + 1) = SumOf(q, n - 1) + q[n - 1]
  BY <1>2, SumOfNext
<1>5. SumOf(v, n) \in Int
  BY SumOfType
<1>6. v[j] \in Int /\ w[j] \in Int /\ r[0] \in Int /\ q[n - 1] \in Int
  OBVIOUS
<1>7. SumOf(q, n) = SumOf(r, n) - r[0] + q[n - 1]
  BY <1>2, <1>3, <1>4
<1> QED BY <1>1, <1>5, <1>6, <1>7

LEMMA NextSlot ==
    ASSUME NEW w \in Nat \ {0}, NEW k \in 0..(w - 1)
    PROVE  (k + 1) % w = IF k + 1 = w THEN 0 ELSE k + 1
<1>1. CASE k + 1 = w
  <2>1. w % w = 0
    OBVIOUS
  <2> QED BY <1>1, <2>1
<1>2. CASE k + 1 # w
  <2>1. k + 1 \in 0..(w - 1)
    BY <1>2
  <2>2. \A a \in 0..(w - 1) : a % w = a
    OBVIOUS
  <2> QED BY <1>2, <2>1, <2>2
<1> QED BY <1>1, <1>2

(* A sample is taken while the ring is not full, and when it is. *)
LEMMA RingStep ==
    ASSUME RingInv, NEW reading \in environment.readings, UpdateSensorAverages(reading),
           environment' = environment
    PROVE  RingInv'
<1> DEFINE c == sensor.count
           x == sensor.index
           s == Sample(reading)
<1> USE PeriodsAssumption
<1>1. /\ environment \in Environments
      /\ sensor.temps \in [Slots -> Int] /\ sensor.hums \in [Slots -> Nat]
      /\ x \in Slots /\ c \in 0..AVG_WINDOW /\ recent \in Seq(Samples) /\ Len(recent) = c
      /\ c < AVG_WINDOW => x = c
  BY DEF RingInv, SensorTypes, Sensors, RingFill
<1>2. s.temp \in Int /\ s.hum \in Nat /\ s \in Samples
  BY SampleType DEF RingInv, Samples
<1>3. /\ sensor'.temps = [sensor.temps EXCEPT ![x] = s.temp]
      /\ sensor'.hums = [sensor.hums EXCEPT ![x] = s.hum]
      /\ sensor'.count = IF c < AVG_WINDOW THEN c + 1 ELSE c
      /\ sensor'.index = IF x + 1 = AVG_WINDOW THEN 0 ELSE x + 1
  <2>1. (x + 1) % AVG_WINDOW = IF x + 1 = AVG_WINDOW THEN 0 ELSE x + 1
    BY <1>1, NextSlot DEF Slots
  <2> QED BY <2>1 DEF UpdateSensorAverages, NextCount
<1>4. sensor' \in Sensors
  <2>1. sensor' = [temps |-> sensor'.temps, hums |-> sensor'.hums, index |-> sensor'.index,
                   count |-> sensor'.count, fake |-> sensor'.fake]
        /\ sensor'.fake \in FAKE_LOW..FAKE_HIGH
    BY SampleType DEF UpdateSensorAverages, RingInv
  <2>2. sensor'.temps \in [Slots -> Int] /\ sensor'.hums \in [Slots -> Nat]
    BY <1>1, <1>2, <1>3
  <2>3. sensor'.index \in Slots
    <3>1. x \in 0..(AVG_WINDOW - 1) /\ sensor'.index = IF x + 1 = AVG_WINDOW THEN 0 ELSE x + 1
      BY <1>1, <1>3 DEF Slots
    <3> HIDE DEF x
    <3> QED BY <3>1 DEF Slots
  <2>4. sensor'.count \in 0..AVG_WINDOW
    <3>1. c \in 0..AVG_WINDOW /\ sensor'.count = IF c < AVG_WINDOW THEN c + 1 ELSE c
      BY <1>1, <1>3
    <3> HIDE DEF c
    <3> QED BY <3>1
  <2> QED BY <2>1, <2>2, <2>3, <2>4 DEF Sensors
<1>5. recent' = IF c = AVG_WINDOW THEN Append(Tail(recent), s) ELSE Append(recent, s)
  BY <1>1 DEF UpdateSensorAverages
<1>6. recent' \in Seq(Samples) /\ Len(recent') = sensor'.count /\ Len(recent') # 0
  BY <1>1, <1>2, <1>3, <1>5
<1>7. SensorTypes' /\ RingFill'
  BY <1>1, <1>3, <1>4, <1>6 DEF SensorTypes, RingFill, Slots
<1>8. /\ RecentTemps = [k \in 0..(c - 1) |-> recent[k + 1].temp]
      /\ RecentHums = [k \in 0..(c - 1) |-> recent[k + 1].hum]
      /\ RecentTemps' = [k \in 0..(Len(recent') - 1) |-> recent'[k + 1].temp]
      /\ RecentHums' = [k \in 0..(Len(recent') - 1) |-> recent'[k + 1].hum]
  BY <1>1 DEF RecentTemps, RecentHums
<1>9. \A k \in 0..(c - 1) : recent[k + 1] \in Samples
  BY <1>1
<1>10. /\ SumOf(sensor.temps, c) = SumOf(RecentTemps, c)
       /\ SumOf(sensor.hums, c) = SumOf(RecentHums, c)
  BY <1>1 DEF RingInv, SumsAgree
<1> HIDE DEF c, x, s
<1>11. ASSUME c < AVG_WINDOW PROVE RingHoldsRecent' /\ SumsAgree'
  <2>1. x = c /\ sensor'.count = c + 1 /\ Len(recent') = c + 1 /\ recent' = Append(recent, s)
    BY <1>1, <1>3, <1>5, <1>6, <1>11
  <2>2. recent'[c + 1] = s /\ \A k \in 0..(c - 1) : recent'[k + 1] = recent[k + 1]
    BY <1>1, <2>1, SMTT(30)
  <2>3. /\ sensor'.temps[c] = s.temp /\ sensor'.hums[c] = s.hum
        /\ \A k \in 0..(c - 1) : sensor'.temps[k] = sensor.temps[k] /\ sensor'.hums[k] = sensor.hums[k]
    BY <1>1, <1>3, <1>11, <2>1, SMTT(30) DEF Slots
  <2>4. RingHoldsRecent'
    <3>1. \A k \in 0..(Len(recent') - 1) : SlotOf(k)' = k
      BY <1>1, <1>3, <1>11, <2>1 DEF SlotOf, Slots
    <3>2. \A k \in 0..(c - 1) : sensor.temps[k] = recent[k + 1].temp /\ sensor.hums[k] = recent[k + 1].hum
      BY <1>1, <1>11 DEF RingInv, RingHoldsRecent, SlotOf, c
    <3>3. \A k \in 0..(Len(recent') - 1) : k = c \/ k \in 0..(c - 1)
      BY <1>1, <2>1
    <3>4. ASSUME NEW k \in 0..(Len(recent') - 1)
          PROVE  sensor'.temps[k] = recent'[k + 1].temp /\ sensor'.hums[k] = recent'[k + 1].hum
      BY <2>2, <2>3, <3>2, <3>3
    <3> QED BY <3>1, <3>4 DEF RingHoldsRecent
  <2>5. SumsAgree'
    <3>1. RecentTemps'[c] = s.temp /\ \A k \in 0..(c - 1) : RecentTemps'[k] = RecentTemps[k]
      BY <1>1, <1>8, <2>1, <2>2, SMTT(30)
    <3>2. RecentHums'[c] = s.hum /\ \A k \in 0..(c - 1) : RecentHums'[k] = RecentHums[k]
      BY <1>1, <1>8, <2>1, <2>2
    <3>3. SumOf(sensor'.temps, c + 1) = SumOf(RecentTemps', c + 1)
      <4> DEFINE v == sensor.temps  w == sensor'.temps  r == RecentTemps  q == RecentTemps'
      <4>1. /\ c \in Nat /\ w[c] = q[c] /\ SumOf(v, c) = SumOf(r, c)
            /\ \A k \in 0..(c - 1) : w[k] = v[k] /\ q[k] = r[k]
        BY <1>1, <1>10, <2>3, <3>1
      <4> HIDE DEF v, w, r, q
      <4>2. SumOf(w, c + 1) = SumOf(q, c + 1)
        <5>1. \A m : m = c + 1 => SumOf(w, m) = SumOf(q, m)
          BY <4>1, SumsFill
        <5> QED BY <5>1
      <4> QED BY <4>2 DEF w, q
    <3>4. SumOf(sensor'.hums, c + 1) = SumOf(RecentHums', c + 1)
      <4> DEFINE v == sensor.hums  w == sensor'.hums  r == RecentHums  q == RecentHums'
      <4>1. /\ c \in Nat /\ w[c] = q[c] /\ SumOf(v, c) = SumOf(r, c)
            /\ \A k \in 0..(c - 1) : w[k] = v[k] /\ q[k] = r[k]
        BY <1>1, <1>10, <2>3, <3>2
      <4> HIDE DEF v, w, r, q
      <4>2. SumOf(w, c + 1) = SumOf(q, c + 1)
        <5>1. \A m : m = c + 1 => SumOf(w, m) = SumOf(q, m)
          BY <4>1, SumsFill
        <5> QED BY <5>1
      <4> QED BY <4>2 DEF w, q
    <3> QED BY <2>1, <3>3, <3>4 DEF SumsAgree
  <2> QED BY <2>4, <2>5
<1>12. ASSUME c = AVG_WINDOW PROVE RingHoldsRecent' /\ SumsAgree'
  <2>1. /\ c \in Nat \ {0} /\ sensor'.count = c /\ Len(recent') = c /\ Len(recent) = c
        /\ recent' = Append(Tail(recent), s) /\ x \in 0..(c - 1) /\ Slots = 0..(c - 1)
    BY <1>1, <1>3, <1>5, <1>6, <1>12 DEF Slots
  <2>2. recent'[c] = s /\ \A k \in 0..((c - 1) - 1) : recent'[k + 1] = recent[k + 2]
    BY <1>1, <2>1, SMTT(30)
  <2>3. /\ sensor'.temps[x] = s.temp /\ sensor'.hums[x] = s.hum
        /\ \A k \in 0..(c - 1) : k # x => sensor'.temps[k] = sensor.temps[k] /\ sensor'.hums[k] = sensor.hums[k]
    BY <1>1, <1>3, <2>1
  <2>4. \A k \in 0..(c - 1) : SlotOf(k) = IF x + k < c THEN x + k ELSE x + k - c
    BY <1>12 DEF SlotOf, c, x
  <2>5. \A k \in 0..(c - 1) : SlotOf(k)' = IF k = c - 1 THEN x ELSE SlotOf(k + 1)
    <3>1. \A k \in 0..(c - 1) : SlotOf(k)' =
             IF sensor'.index + k < c THEN sensor'.index + k ELSE sensor'.index + k - c
      BY <1>12, <2>1 DEF SlotOf
    <3>2. sensor'.index = IF x + 1 = c THEN 0 ELSE x + 1
      BY <1>3, <1>12
    <3>3. x \in 0..(c - 1) /\ c \in Nat
      BY <2>1
    <3> SUFFICES ASSUME NEW k \in 0..(c - 1)
                 PROVE  SlotOf(k)' = IF k = c - 1 THEN x ELSE SlotOf(k + 1)
      OBVIOUS
    <3>4. SlotOf(k)' = IF sensor'.index + k < c THEN sensor'.index + k ELSE sensor'.index + k - c
      BY <3>1
    <3>5. k # c - 1 => SlotOf(k + 1) = IF x + (k + 1) < c THEN x + (k + 1) ELSE x + (k + 1) - c
      BY <2>4, <3>3
    <3> QED BY <3>2, <3>3, <3>4, <3>5
  <2>6. \A k \in 0..(c - 1) : sensor.temps[SlotOf(k)] = recent[k + 1].temp
                              /\ sensor.hums[SlotOf(k)] = recent[k + 1].hum
    BY <2>1 DEF RingInv, RingHoldsRecent
  <2>7. RingHoldsRecent'
    <3> SUFFICES ASSUME NEW k \in 0..(c - 1)
                 PROVE  /\ sensor'.temps[SlotOf(k)'] = recent'[k + 1].temp
                        /\ sensor'.hums[SlotOf(k)'] = recent'[k + 1].hum
      BY <2>1 DEF RingHoldsRecent
    <3>1. CASE k = c - 1
      BY <2>1, <2>2, <2>3, <2>5, <3>1
    <3>2. CASE k # c - 1
      <4>1. k + 1 \in 0..(c - 1) /\ k \in 0..((c - 1) - 1) /\ (k + 1) + 1 = k + 2
        BY <2>1, <3>2
      <4>2. SlotOf(k)' = SlotOf(k + 1) /\ SlotOf(k + 1) \in 0..(c - 1) /\ SlotOf(k + 1) # x
        <5>1. SlotOf(k)' = SlotOf(k + 1)
          BY <2>5, <3>2
        <5>2. SlotOf(k + 1) = IF x + (k + 1) < c THEN x + (k + 1) ELSE x + (k + 1) - c
          BY <2>4, <4>1
        <5>3. x \in 0..(c - 1) /\ c \in Nat
          BY <2>1
        <5> QED BY <3>2, <5>1, <5>2, <5>3
      <4>3. sensor.temps[SlotOf(k + 1)] = recent[k + 2].temp
            /\ sensor.hums[SlotOf(k + 1)] = recent[k + 2].hum
        BY <2>6, <4>1
      <4> QED BY <2>2, <2>3, <4>1, <4>2, <4>3
    <3> QED BY <3>1, <3>2
  <2>8. sensor.temps[x] = recent[1].temp /\ sensor.hums[x] = recent[1].hum
    <3>1. 0 \in 0..(c - 1) /\ SlotOf(0) = x
      BY <2>1, <2>4
    <3> QED BY <2>6, <3>1
  <2>9. SumsAgree'
    <3>1. RecentTemps[0] = sensor.temps[x] /\ RecentTemps'[c - 1] = s.temp
          /\ \A k \in 0..((c - 1) - 1) : RecentTemps'[k] = RecentTemps[k + 1]
      BY <1>8, <2>1, <2>2, <2>8, SMTT(30)
    <3>2. RecentHums[0] = sensor.hums[x] /\ RecentHums'[c - 1] = s.hum
          /\ \A k \in 0..((c - 1) - 1) : RecentHums'[k] = RecentHums[k + 1]
      BY <1>8, <2>1, <2>2, <2>8, SMTT(30)
    <3>3. \A k \in 0..(c - 1) : recent[k + 1] \in Samples /\ recent'[k + 1] \in Samples
      BY <1>6, <1>9, <2>1
    <3>4. \A k \in 0..(c - 1) : RecentTemps[k] \in Int /\ RecentTemps'[k] \in Int
                                /\ RecentHums[k] \in Int /\ RecentHums'[k] \in Int
      <4>1. \A k \in 0..(c - 1) : /\ recent[k + 1].temp \in Int /\ recent'[k + 1].temp \in Int
                                 /\ recent[k + 1].hum \in Int /\ recent'[k + 1].hum \in Int
        BY <3>3, SampleFields
      <4>2. \A k \in 0..(c - 1) :
              /\ RecentTemps[k] = recent[k + 1].temp /\ RecentTemps'[k] = recent'[k + 1].temp
              /\ RecentHums[k] = recent[k + 1].hum /\ RecentHums'[k] = recent'[k + 1].hum
        BY <1>8, <2>1
      <4> QED BY <4>1, <4>2
    <3>5. \A k \in 0..(c - 1) : sensor.temps[k] \in Int /\ sensor'.temps[k] \in Int
                                /\ sensor.hums[k] \in Int /\ sensor'.hums[k] \in Int
      <4>1. sensor'.temps \in [Slots -> Int] /\ sensor'.hums \in [Slots -> Nat]
        BY <1>4 DEF Sensors
      <4>2. \A k \in Slots : sensor.temps[k] \in Int /\ sensor'.temps[k] \in Int
                            /\ sensor.hums[k] \in Int /\ sensor'.hums[k] \in Int
        BY <1>1, <4>1, SMTT(30)
      <4> QED BY <2>1, <4>2
    <3>6. SumOf(sensor'.temps, c) = SumOf(RecentTemps', c)
      <4> DEFINE v == sensor.temps  w == sensor'.temps  r == RecentTemps  q == RecentTemps'
      <4>1. \A k \in 0..(c - 1) : k # x => v[k] = w[k]
        BY <2>3
      <4>2. \A k \in 0..(c - 1) : v[k] \in Int /\ w[k] \in Int /\ r[k] \in Int /\ q[k] \in Int
        BY <3>4, <3>5
      <4>3. /\ c \in Nat \ {0} /\ x \in 0..(c - 1) /\ v[x] = r[0] /\ w[x] = q[c - 1]
            /\ SumOf(v, c) = SumOf(r, c)
            /\ \A k \in 0..((c - 1) - 1) : q[k] = r[k + 1]
        BY <1>10, <2>1, <2>3, <3>1
      <4> HIDE DEF v, w, r, q
      <4>4. SumOf(w, c) = SumOf(q, c)
        BY <4>1, <4>2, <4>3, SumsTurn
      <4> QED BY <4>4 DEF w, q
    <3>7. SumOf(sensor'.hums, c) = SumOf(RecentHums', c)
      <4> DEFINE v == sensor.hums  w == sensor'.hums  r == RecentHums  q == RecentHums'
      <4>1. \A k \in 0..(c - 1) : k # x => v[k] = w[k]
        BY <2>3
      <4>2. \A k \in 0..(c - 1) : v[k] \in Int /\ w[k] \in Int /\ r[k] \in Int /\ q[k] \in Int
        BY <3>4, <3>5
      <4>3. /\ c \in Nat \ {0} /\ x \in 0..(c - 1) /\ v[x] = r[0] /\ w[x] = q[c - 1]
            /\ SumOf(v, c) = SumOf(r, c)
            /\ \A k \in 0..((c - 1) - 1) : q[k] = r[k + 1]
        BY <1>10, <2>1, <2>3, <3>2
      <4> HIDE DEF v, w, r, q
      <4>4. SumOf(w, c) = SumOf(q, c)
        BY <4>1, <4>2, <4>3, SumsTurn
      <4> QED BY <4>4 DEF w, q
    <3> QED BY <2>1, <3>6, <3>7 DEF SumsAgree
  <2> QED BY <2>7, <2>9
<1>13. RingHoldsRecent' /\ SumsAgree'
  BY <1>1, <1>11, <1>12
<1>14. AveragesOfRing' /\ AveragesTyped'
  <2>1. temp_avg_cdeg' = Average(sensor'.temps, sensor'.count)
        /\ hum_avg_cpercent' = Average(sensor'.hums, sensor'.count)
    BY DEF UpdateSensorAverages
  <2>2. sensor'.count \in Nat \ {0}
        /\ \A k \in 0..(sensor'.count - 1) : sensor'.temps[k] \in Int /\ sensor'.hums[k] \in Nat
    <3>1. sensor'.count \in 0..AVG_WINDOW /\ sensor'.temps \in [Slots -> Int]
          /\ sensor'.hums \in [Slots -> Nat]
      BY <1>4 DEF Sensors
    <3>2. sensor'.count \in Nat \ {0}
      BY <1>6, <3>1
    <3>3. \A k \in Slots : sensor'.temps[k] \in Int /\ sensor'.hums[k] \in Nat
      BY <3>1
    <3>4. \A k \in 0..(sensor'.count - 1) : k \in Slots
      BY <3>1 DEF Slots
    <3> QED BY <3>2, <3>3, <3>4
  <2>3. Average(sensor'.temps, sensor'.count) \in Int /\ Average(sensor'.hums, sensor'.count) \in Nat
    BY <2>2, AverageType
  <2> QED BY <2>1, <2>3 DEF AveragesOfRing, AveragesTyped
<1> QED BY <1>7, <1>13, <1>14 DEF RingInv

(* No other step reads or writes the ring. *)
LEMMA RingKept ==
    ASSUME RingInv, UNCHANGED <<environment, sensor, temp_avg_cdeg, hum_avg_cpercent, recent>>
    PROVE  RingInv'
  BY DEF RingInv, SensorTypes, RingFill, RingHoldsRecent, SumsAgree, AveragesOfRing, AveragesTyped,
         SlotOf, RecentTemps, RecentHums

LEMMA RingNext == RingInv /\ [MainNext]_mainVars => RingInv'
<1> SUFFICES ASSUME RingInv, [MainNext]_mainVars PROVE RingInv'
  OBVIOUS
<1> DEFINE ringVars == <<environment, sensor, temp_avg_cdeg, hum_avg_cpercent, recent>>
<1> USE DEF sensorVars
<1>1. CASE SampleSensor
  <2>1. environment' = environment
    BY <1>1 DEF SampleSensor
  <2>2. CASE Due(last_sample, SAMPLE_PERIOD)
    <3>1. PICK reading \in environment.readings : UpdateSensorAverages(reading)
      BY <1>1, <2>2 DEF SampleSensor
    <3> QED BY <2>1, <3>1, RingStep
  <2>3. CASE ~Due(last_sample, SAMPLE_PERIOD)
    BY <1>1, <2>1, <2>3, RingKept DEF SampleSensor
  <2> QED BY <2>2, <2>3
<1>2. CASE Wake \/ NotifyAverages \/ SendTemperature \/ SendHumidity
        \/ CheckButton \/ ClearButton \/ Debounce
  <2>1. UNCHANGED ringVars
    BY <1>2 DEF Wake, NotifyAverages, SendTemperature, SendHumidity, CheckButton,
              ClearButton, Debounce
  <2> QED BY <2>1, RingKept
<1>3. CASE SetLed \/ SetPin \/ LedValue \/ NotifyLed \/ ReadLed \/ \E v \in 0..1 : WriteLed(v)
  <2>1. UNCHANGED ringVars
    BY <1>3 DEF SetLed, SetPin, LedValue, NotifyLed, ReadLed, WriteLed, unchangedByLed
  <2> QED BY <2>1, RingKept
<1>4. CASE ClockTick \/ Press \/ UNCHANGED mainVars
  <2>1. UNCHANGED ringVars
    BY <1>4 DEF ClockTick, Press, mainVars
  <2> QED BY <2>1, RingKept
<1> QED BY <1>1, <1>2, <1>3, <1>4 DEF MainNext, MainStep

LEMMA RingInvariant == MainSpec => []RingInv
  BY RingInit, RingNext, PTL DEF MainSpec

(* update_sensor_averages(): the averages are always the means of the last
   AVG_WINDOW samples, or of all there are so far, wherever in the ring they
   are; for every size of the window. *)
THEOREM AveragesCorrect == MainSpec => []AveragesAreMeans
<1>1. RingInv => AveragesAreMeans
  BY DEF RingInv, RingFill, SumsAgree, AveragesOfRing, AveragesAreMeans, Average
<1> QED BY <1>1, RingInvariant, PTL

----------------------------------------------------------------------------
(* Ages. *)

AgeTypes ==
    /\ now_age \in 0..MaxPass
    /\ last_sample \in Ages(SAMPLE_PERIOD) /\ last_notify \in Ages(NOTIFY_PERIOD)
    /\ last_aux_tx \in Ages(AUX_TX_PERIOD) /\ last_maint_button \in Ages(BUTTON_DEBOUNCE)
    /\ sample_age \in Ages(SAMPLE_PERIOD) \cup {Never}
    /\ at \in {"sleep", "sample", "notify", "aux_temp", "aux_hum", "button", "clear",
               "debounce", "led", "pin", "value", "send"}

(* A sample is taken at the time main has noted for it, or later. *)
NotedBefore == sample_age <= last_sample
(* In the rest of a pass the last sample was not due at its beginning. *)
SampleNotDue == at \notin {"sleep", "sample"} => last_sample - now_age < SAMPLE_PERIOD
(* Until the first sample the other times are no older than its time, which is
   counted up to MaxAge only. *)
NothingSent ==
    sample_age = Never =>
        /\ at # "aux_hum"
        /\ \/ last_sample = MaxAge(SAMPLE_PERIOD)
           \/ last_notify <= last_sample /\ last_aux_tx <= last_sample

AgeInv == AgeTypes /\ NotedBefore /\ SampleNotDue /\ NothingSent

LEMMA AgeInit == MainInit => AgeInv
  BY PeriodsAssumption
     DEF MainInit, AgeInv, AgeTypes, NotedBefore, SampleNotDue, NothingSent, Ages, MaxAge, Never

(* Due to be sent, there is a sample. *)
LEMMA SampledWhenDue ==
    ASSUME AgeInv, at \notin {"sleep", "sample"},
           Due(last_notify, NOTIFY_PERIOD) \/ Due(last_aux_tx, AUX_TX_PERIOD)
    PROVE  sample_age # Never
  BY PeriodsAssumption
     DEF AgeInv, AgeTypes, SampleNotDue, NothingSent, Ages, MaxAge, Due

LEMMA AgeNext == AgeInv /\ [MainNext]_mainVars => AgeInv'
<1> SUFFICES ASSUME AgeInv, [MainNext]_mainVars PROVE AgeInv'
  OBVIOUS
<1> USE PeriodsAssumption DEF AgeInv, AgeTypes, NotedBefore, SampleNotDue, NothingSent, Ages, MaxAge,
        Never
<1>1. CASE ClockTick
  BY <1>1 DEF ClockTick, Older
<1>2. CASE Wake
  BY <1>2 DEF Wake
<1>3. CASE SampleSensor
  BY <1>3 DEF SampleSensor, Due
<1>4. CASE NotifyAverages
  BY <1>4, SampledWhenDue DEF NotifyAverages
<1>5. CASE SendTemperature
  BY <1>5, SampledWhenDue DEF SendTemperature
<1>6. CASE SendHumidity
  BY <1>6 DEF SendHumidity, ageVars
<1>7. CASE CheckButton
  BY <1>7 DEF CheckButton, ageVars
<1>12. CASE ClearButton
  BY <1>12 DEF ClearButton, ageVars
<1>8. CASE Debounce
  BY <1>8 DEF Debounce, IgnoreBounce
<1>9. CASE SetLed \/ SetPin \/ LedValue \/ NotifyLed
  BY <1>9 DEF SetLed, SetPin, LedValue, NotifyLed, unchangedByLed, ageVars
<1>10. CASE ReadLed \/ \E v \in 0..1 : WriteLed(v)
  BY <1>10 DEF ReadLed, WriteLed, unchangedByLed, ageVars
<1>11. CASE Press \/ UNCHANGED mainVars
  BY <1>11 DEF Press, mainVars, ageVars
<1> QED BY <1>1, <1>2, <1>3, <1>4, <1>5, <1>6, <1>7, <1>8, <1>9, <1>10, <1>11, <1>12
       DEF MainNext, MainStep

LEMMA AgeInvariant == MainSpec => []AgeInv
  BY AgeInit, AgeNext, PTL DEF MainSpec

(* What is notified or sent includes a sample less than one period and one pass
   old; for all periods of which that of the sensor is the shorter. *)
THEOREM FreshCorrect == MainSpec => []FreshValues
<1>1. AgeInv => FreshValues
  <2> SUFFICES ASSUME AgeInv, Publishing
               PROVE  sample_age # Never /\ sample_age < SAMPLE_PERIOD + MaxPass
    BY DEF FreshValues
  <2>1. at \notin {"sleep", "sample"} /\ sample_age # Never
    BY SampledWhenDue DEF Publishing, AgeInv, NothingSent
  <2> QED BY <2>1, PeriodsAssumption DEF AgeInv, AgeTypes, NotedBefore, SampleNotDue, Ages, MaxAge
<1> QED BY <1>1, AgeInvariant, PTL

(* How a reading passes the checks only when it is what the sensor sent. *)
GenuineReadings ==
    \A e \in Environments : \A reading \in e.readings : reading.valid => reading.genuine

(* If the checksums let no damaged reading pass (which module Sht3x computes for
   every damage to a byte), what is published is the mean of the last samples,
   one of them fresh, and each is the sensor's or made up by the program for a
   reading that failed; for every window and every sequence of failures.  That
   no made-up sample is published is not stated: they are. *)
THEOREM PublishedCorrect ==
    ASSUME GenuineReadings PROVE MainSpec => []PublishedIsAccounted
<1>1. MainInit => SamplesAccounted
  <2>1. MainInit => recent = <<>>
    BY DEF MainInit
  <2>2. \A k \in 1..Len(<<>>) : FALSE
    OBVIOUS
  <2> QED BY <2>1, <2>2, Zenon DEF SamplesAccounted
<1>2. RingInv /\ SamplesAccounted /\ [MainNext]_mainVars => SamplesAccounted'
  <2> SUFFICES ASSUME RingInv, SamplesAccounted, [MainNext]_mainVars PROVE SamplesAccounted'
    OBVIOUS
  <2> USE DEF sensorVars
  <2>0. UNCHANGED recent => SamplesAccounted'
    BY DEF SamplesAccounted
  <2>1. ASSUME NEW reading \in environment.readings, UpdateSensorAverages(reading)
        PROVE  SamplesAccounted'
    <3> DEFINE s == Sample(reading)
    <3>1. reading.valid \in BOOLEAN /\ (reading.valid => reading.genuine)
      BY ReadingsAssumption DEF GenuineReadings, RingInv, SensorTypes
    <3>2. NextFake \in FAKE_LOW..FAKE_HIGH /\ s \in Samples
      BY SampleType DEF RingInv
    <3>3. \/ s.source = "sensor"
          \/ s.source = "made up" /\ s.temp \in FAKE_LOW..FAKE_HIGH /\ s.hum = 0
      BY <3>1, <3>2 DEF Sample
    <3>4. recent \in Seq(Samples)
          /\ recent' = IF Len(recent) = AVG_WINDOW THEN Append(Tail(recent), s) ELSE Append(recent, s)
      BY <2>1 DEF UpdateSensorAverages, RingInv, SensorTypes
    <3> HIDE DEF s
    <3>5. CASE Len(recent) = AVG_WINDOW
      <4>1. recent # <<>>
        BY <3>5, PeriodsAssumption
      <4>2. Len(recent') = Len(recent) /\ recent'[Len(recent)] = s
            /\ \A k \in 1..(Len(recent) - 1) : recent'[k] = recent[k + 1] /\ k + 1 \in 1..Len(recent)
        BY <3>2, <3>4, <3>5, <4>1, SMTT(30)
      <4>3. Len(recent) \in Nat /\ \A k \in 1..Len(recent) : k = Len(recent) \/ k \in 1..(Len(recent) - 1)
        BY <3>4
      <4>4. ASSUME NEW k \in 1..Len(recent)
            PROVE  \/ recent'[k].source = "sensor"
                   \/ /\ recent'[k].source = "made up"
                      /\ recent'[k].temp \in FAKE_LOW..FAKE_HIGH /\ recent'[k].hum = 0
        <5>1. CASE k = Len(recent)
          BY <3>3, <4>2, <5>1, Zenon
        <5>2. CASE k \in 1..(Len(recent) - 1)
          <6>1. recent'[k] = recent[k + 1] /\ k + 1 \in 1..Len(recent)
            BY <4>2, <5>2
          <6> QED BY <6>1, Zenon DEF SamplesAccounted
        <5> QED BY <4>3, <5>1, <5>2
      <4> QED BY <4>2, <4>4, Zenon DEF SamplesAccounted
    <3>6. CASE Len(recent) # AVG_WINDOW
      <4>1. Len(recent') = Len(recent) + 1 /\ recent'[Len(recent) + 1] = s
            /\ \A k \in 1..Len(recent) : recent'[k] = recent[k]
        BY <3>2, <3>4, <3>6, SMTT(30)
      <4>2. Len(recent) \in Nat
            /\ \A k \in 1..(Len(recent) + 1) : k = Len(recent) + 1 \/ k \in 1..Len(recent)
        BY <3>4
      <4>3. ASSUME NEW k \in 1..(Len(recent) + 1)
            PROVE  \/ recent'[k].source = "sensor"
                   \/ /\ recent'[k].source = "made up"
                      /\ recent'[k].temp \in FAKE_LOW..FAKE_HIGH /\ recent'[k].hum = 0
        <5>1. CASE k = Len(recent) + 1
          BY <3>3, <4>1, <5>1, Zenon
        <5>2. CASE k \in 1..Len(recent)
          <6>1. recent'[k] = recent[k]
            BY <4>1, <5>2
          <6> QED BY <5>2, <6>1, Zenon DEF SamplesAccounted
        <5> QED BY <4>2, <5>1, <5>2
      <4> QED BY <4>1, <4>3, Zenon DEF SamplesAccounted
    <3> QED BY <3>5, <3>6
  <2>2. CASE SampleSensor
    BY <2>0, <2>1, <2>2 DEF SampleSensor
  <2>3. CASE Wake \/ NotifyAverages \/ SendTemperature \/ SendHumidity
             \/ CheckButton \/ ClearButton \/ Debounce
    BY <2>0, <2>3 DEF Wake, NotifyAverages, SendTemperature, SendHumidity, CheckButton,
                      ClearButton, Debounce
  <2>4. CASE SetLed \/ SetPin \/ LedValue \/ NotifyLed \/ ReadLed \/ \E v \in 0..1 : WriteLed(v)
    BY <2>0, <2>4 DEF SetLed, SetPin, LedValue, NotifyLed, ReadLed, WriteLed, unchangedByLed
  <2>5. CASE ClockTick \/ Press \/ UNCHANGED mainVars
    BY <2>0, <2>5 DEF ClockTick, Press, mainVars
  <2> QED BY <2>2, <2>3, <2>4, <2>5 DEF MainNext, MainStep
<1>3. MainSpec => []SamplesAccounted
  BY <1>1, <1>2, RingInvariant, PTL DEF MainSpec
<1>4. AveragesAreMeans /\ SamplesAccounted /\ FreshValues => PublishedIsAccounted
  BY DEF PublishedIsAccounted
<1> QED BY <1>3, <1>4, AveragesCorrect, FreshCorrect, PTL

----------------------------------------------------------------------------
(* The packets. *)

DataMessage(msg) == msg.kind # "status"

(* The next number follows that of the last packet, and is not the status
   packet's. *)
NextNumber == aux_seq # 0 /\ aux_seq = Successor(wire[Len(wire)].seq)
PacketInv ==
    /\ aux_seq \in 0..(SeqNumbers - 1)
    /\ wire = <<>> \/ (Len(wire) \in {1, 2} /\ NextNumber)

(* The number of a packet is followed by the next one's. *)
LEMMA Numbers ==
    ASSUME NEW seq \in 0..(SeqNumbers - 1)
    PROVE  /\ Successor(seq) = IF seq = SeqNumbers - 1 THEN 0 ELSE seq + 1
           /\ NextSeq(seq) \in 1..(SeqNumbers - 1)
           /\ NextSeq(seq) = IF Successor(seq) = 0 THEN Successor(0) ELSE Successor(seq)
<1>1. \A n \in 0..(SeqNumbers - 1) : (n + 1) % SeqNumbers = IF n = SeqNumbers - 1 THEN 0 ELSE n + 1
  BY SeqNumbersAssumption
<1> QED BY <1>1, SeqNumbersAssumption DEF Successor, NextSeq

LEMMA NumbersFollow ==
    ASSUME PacketInv, NEW msg, SendPackets(msg)
    PROVE  PacketInv'
<1>1. CASE environment.uart
  <2>1. wire' = Packets(aux_seq, msg) /\ aux_seq' = NextSeq(aux_seq) /\ aux_seq \in 0..(SeqNumbers - 1)
    BY <1>1 DEF SendPackets, PacketInv
  <2>0. aux_seq' \in 1..(SeqNumbers - 1)
    BY <2>1, Numbers
  <2>2. CASE Successor(aux_seq) = 0
    <3>1. wire' = <<Packet(aux_seq, msg), Packet(0, aux_status_msg)>> /\ aux_seq' = Successor(0)
      BY <2>1, <2>2, Numbers DEF Packets
    <3>2. Len(wire') = 2 /\ wire'[Len(wire')].seq = 0
      BY <3>1 DEF Packet
    <3> QED BY <2>0, <3>1, <3>2, SeqNumbersAssumption DEF PacketInv, NextNumber
  <2>3. CASE Successor(aux_seq) # 0
    <3>1. wire' = <<Packet(aux_seq, msg)>> /\ aux_seq' = Successor(aux_seq)
      BY <2>1, <2>3, Numbers DEF Packets
    <3>2. Len(wire') = 1 /\ wire'[Len(wire')].seq = aux_seq
      BY <3>1 DEF Packet
    <3> QED BY <2>0, <3>1, <3>2, SeqNumbersAssumption DEF PacketInv, NextNumber
  <2> QED BY <2>2, <2>3
<1>2. CASE ~environment.uart
  BY <1>2 DEF SendPackets, auxVars, PacketInv, NextNumber
<1> QED BY <1>1, <1>2

LEMMA PacketNext == PacketInv /\ [MainNext]_mainVars => PacketInv'
<1> SUFFICES ASSUME PacketInv, [MainNext]_mainVars PROVE PacketInv'
  OBVIOUS
<1>1. CASE UNCHANGED auxVars
  BY <1>1 DEF auxVars, PacketInv, NextNumber
<1>2. CASE SendTemperature
  BY <1>1, <1>2, NumbersFollow DEF SendTemperature
<1>3. CASE SendHumidity
  BY <1>3, NumbersFollow DEF SendHumidity
<1>4. CASE Wake \/ SampleSensor \/ NotifyAverages \/ CheckButton \/ ClearButton \/ Debounce
  BY <1>1, <1>4 DEF Wake, SampleSensor, NotifyAverages, CheckButton, ClearButton, Debounce
<1>5. CASE SetLed \/ SetPin \/ LedValue \/ NotifyLed \/ ReadLed \/ \E v \in 0..1 : WriteLed(v)
  BY <1>1, <1>5 DEF SetLed, SetPin, LedValue, NotifyLed, ReadLed, WriteLed, unchangedByLed
<1>6. CASE ClockTick \/ Press \/ UNCHANGED mainVars
  BY <1>1, <1>6 DEF ClockTick, Press, mainVars
<1> QED BY <1>2, <1>3, <1>4, <1>5, <1>6 DEF MainNext, MainStep

LEMMA PacketInvariant == MainSpec => []PacketInv
<1>1. MainInit => PacketInv
  BY SeqNumbersAssumption DEF MainInit, PacketInv
<1> QED BY <1>1, PacketNext, PTL DEF MainSpec

(* What goes out is the text of one of the averages. *)
LEMMA WireStep ==
    ASSUME [MainNext]_mainVars, wire' # wire
    PROVE  \/ wire' = Packets(aux_seq, format_temp_msg(temp_avg_cdeg))
           \/ wire' = Packets(aux_seq, format_hum_msg(hum_avg_cpercent))
<1>1. CASE SendTemperature
  BY <1>1 DEF SendTemperature, SendPackets, auxVars
<1>2. CASE SendHumidity
  BY <1>2 DEF SendHumidity, SendPackets, auxVars
<1>3. CASE Wake \/ SampleSensor \/ NotifyAverages \/ CheckButton \/ ClearButton \/ Debounce
  BY <1>3 DEF Wake, SampleSensor, NotifyAverages, CheckButton, ClearButton, Debounce, auxVars
<1>4. CASE SetLed \/ SetPin \/ LedValue \/ NotifyLed \/ ReadLed \/ \E v \in 0..1 : WriteLed(v)
  BY <1>4 DEF SetLed, SetPin, LedValue, NotifyLed, ReadLed, WriteLed, unchangedByLed, auxVars
<1>5. CASE ClockTick \/ Press \/ UNCHANGED mainVars
  BY <1>5 DEF ClockTick, Press, mainVars, auxVars
<1> QED BY <1>1, <1>2, <1>3, <1>4, <1>5 DEF MainNext, MainStep

(* The packets of one step, after the last one of the step before. *)
GaplessStep ==
    wire' # wire =>
        LET run == Sent(wire')
        IN  \A k \in 1..(Len(run) - 1) :
              /\ run[k + 1].seq = Successor(run[k].seq)
              /\ run[k + 1].seq = 0 <=> run[k + 1].msg = aux_status_msg

LEMMA RunIsGapless ==
    ASSUME PacketInv, NEW msg, DataMessage(msg), NEW run, run = Sent(Packets(aux_seq, msg))
    PROVE  \A k \in 1..(Len(run) - 1) :
              /\ run[k + 1].seq = Successor(run[k].seq)
              /\ run[k + 1].seq = 0 <=> run[k + 1].msg = aux_status_msg
<1> DEFINE first == Packet(aux_seq, msg)
           status == Packet(0, aux_status_msg)
<1>1. /\ first.seq = aux_seq /\ first.msg = msg /\ msg # aux_status_msg
      /\ status.seq = 0 /\ status.msg = aux_status_msg
  BY DEF Packet, DataMessage, aux_status_msg
<1>2. wire # <<>> => aux_seq # 0 /\ aux_seq = Successor(wire[Len(wire)].seq)
  BY DEF PacketInv, NextNumber
<1> HIDE DEF first, status
<1>3. CASE wire = <<>>
  <2>1. run = IF Successor(aux_seq) = 0 THEN <<>> \o <<first, status>> ELSE <<>> \o <<first>>
    BY <1>3 DEF Sent, Packets, first, status
  <2> QED BY <1>1, <2>1
<1>4. CASE wire # <<>>
  <2> DEFINE last == wire[Len(wire)]
  <2> HIDE DEF last
  <2>1. run = IF Successor(aux_seq) = 0 THEN <<last>> \o <<first, status>> ELSE <<last>> \o <<first>>
    BY <1>4 DEF Sent, Packets, first, status, last
  <2>2. aux_seq # 0 /\ aux_seq = Successor(last.seq)
    BY <1>2, <1>4 DEF last
  <2>3. /\ <<last>> \in Seq({last, first, status}) /\ <<first>> \in Seq({last, first, status})
        /\ <<first, status>> \in Seq({last, first, status})
        /\ Len(<<last>>) = 1 /\ Len(<<first>>) = 1 /\ Len(<<first, status>>) = 2
    OBVIOUS
  <2>4. CASE Successor(aux_seq) = 0
    <3>1. run = <<last>> \o <<first, status>>
      BY <2>1, <2>4
    <3>2. /\ Len(run) = Len(<<last>>) + Len(<<first, status>>)
          /\ \A k \in 1..(Len(<<last>>) + Len(<<first, status>>)) :
               run[k] = IF k <= Len(<<last>>) THEN <<last>>[k] ELSE <<first, status>>[k - Len(<<last>>)]
      BY <2>3, <3>1, ConcatProperties
    <3>3. Len(run) = 3 /\ run[1] = last /\ run[2] = first /\ run[3] = status
      BY <2>3, <3>2
    <3>4. \A k \in 1..(Len(run) - 1) : k = 1 \/ k = 2
      BY <3>3
    <3> QED BY <1>1, <2>2, <2>4, <3>3, <3>4
  <2>5. CASE Successor(aux_seq) # 0
    <3>1. run = <<last>> \o <<first>>
      BY <2>1, <2>5
    <3>2. /\ Len(run) = Len(<<last>>) + Len(<<first>>)
          /\ \A k \in 1..(Len(<<last>>) + Len(<<first>>)) :
               run[k] = IF k <= Len(<<last>>) THEN <<last>>[k] ELSE <<first>>[k - Len(<<last>>)]
      BY <2>3, <3>1, ConcatProperties
    <3>3. Len(run) = 2 /\ run[1] = last /\ run[2] = first
      BY <2>3, <3>2
    <3>4. \A k \in 1..(Len(run) - 1) : k = 1
      BY <3>3
    <3> QED BY <1>1, <2>2, <2>5, <3>3, <3>4
  <2> QED BY <2>4, <2>5
<1> QED BY <1>3, <1>4

(* advance_sequence(): numbers follow each other without gap or repetition and
   status packets have 0, for every number of sequence numbers above one. *)
THEOREM GaplessCorrect == MainSpec => SequenceGapless
<1>1. PacketInv /\ [MainNext]_mainVars => GaplessStep
  <2> SUFFICES ASSUME PacketInv, [MainNext]_mainVars, wire' # wire PROVE GaplessStep
    BY DEF GaplessStep
  <2>1. PICK msg : wire' = Packets(aux_seq, msg) /\ DataMessage(msg)
    BY WireStep DEF DataMessage, format_temp_msg, format_hum_msg, Message
  <2>2. Sent(wire') = Sent(Packets(aux_seq, msg))
    BY <2>1
  <2> QED BY <2>1, <2>2, RunIsGapless DEF GaplessStep
<1>2. SequenceGapless <=> [][GaplessStep]_mainVars
  BY PTL DEF SequenceGapless, GaplessStep
<1> QED BY <1>1, <1>2, PacketInvariant, PTL DEF MainSpec

(* Up to 99.9, what a message says is the number of tenths it was made from. *)
LEMMA TenthsOfMessage ==
    ASSUME NEW kind, NEW deci \in Int, Magnitude(deci) <= 999
    PROVE  Tenths(Message(kind, deci < 0, deci)) = deci
<1> DEFINE m == Magnitude(deci)
<1>1. m \in 0..999 /\ deci = IF deci < 0 THEN -m ELSE m
  BY DEF Magnitude
<1> HIDE DEF m
<1>2. m \div 10 \in 0..99 /\ 10 * (m \div 10) + (m % 10) = m /\ m % 10 \in 0..9
  BY <1>1
<1>3. ASSUME NEW minus \in BOOLEAN
      PROVE  Tenths(Message(kind, minus, deci)) = m * (IF minus THEN -1 ELSE 1)
  <2>1. LET msg == Message(kind, minus, deci)
        IN  msg.whole = m \div 10 /\ msg.frac = m % 10 /\ msg.minus = minus
    BY <1>2 DEF Message, m
  <2> QED BY <1>2, <2>1 DEF Tenths
<1>4. CASE deci < 0
  <2>1. (deci < 0) = TRUE /\ deci = -m
    BY <1>1, <1>4
  <2>2. Tenths(Message(kind, TRUE, deci)) = m * (IF TRUE THEN -1 ELSE 1)
    BY <1>3, Zenon
  <2>3. m * (IF TRUE THEN -1 ELSE 1) = -m
    BY <1>1
  <2> QED BY <2>1, <2>2, <2>3
<1>5. CASE ~(deci < 0)
  <2>1. (deci < 0) = FALSE /\ deci = m
    BY <1>1, <1>5
  <2>2. Tenths(Message(kind, FALSE, deci)) = m * (IF FALSE THEN -1 ELSE 1)
    BY <1>3, Zenon
  <2>3. m * (IF FALSE THEN -1 ELSE 1) = m
    BY <1>1
  <2> QED BY <2>1, <2>2, <2>3
<1> QED BY <1>4, <1>5

(* Rounding to tenths, away from zero for a half. *)
LEMMA TempDeciRounds ==
    ASSUME NEW v \in Int, Magnitude(v) < 9995
    PROVE  /\ TempDeci(v) \in Int /\ Magnitude(TempDeci(v)) <= 999
           /\ Magnitude(10 * TempDeci(v) - v) <= 5
<1>1. \A n \in Nat : n < 9995 => LET d == (n + 5) \div 10
                                 IN  d \in 0..999 /\ 10 * d - n <= 5 /\ n - 10 * d <= 5
  OBVIOUS
<1>2. CASE v >= 0
  <2>1. TempDeci(v) = (v + 5) \div 10
    BY <1>2 DEF TempDeci, Quotient
  <2>2. v \in Nat /\ v < 9995
    BY <1>2 DEF Magnitude
  <2> QED BY <1>1, <2>1, <2>2 DEF Magnitude
<1>3. CASE v < 0
  <2>1. TempDeci(v) = -(((-v) + 5) \div 10)
    BY <1>3 DEF TempDeci, Quotient
  <2>2. -v \in Nat /\ -v < 9995
    BY <1>3 DEF Magnitude
  <2> QED BY <1>1, <2>1, <2>2 DEF Magnitude
<1> QED BY <1>2, <1>3

(* format_temp_msg() and format_hum_msg() for every value. *)
LEMMA MessagesRound ==
    /\ \A v \in Int : Near(format_temp_msg(v), v)
    /\ \A v \in Nat : Near(format_hum_msg(v), v)
<1>1. ASSUME NEW v \in Int, Magnitude(v) < 9995
      PROVE  Magnitude(10 * Tenths(format_temp_msg(v)) - v) <= 5
  <2>1. TempDeci(v) \in Int /\ Magnitude(TempDeci(v)) <= 999
        /\ Magnitude(10 * TempDeci(v) - v) <= 5
    BY <1>1, TempDeciRounds
  <2>2. Tenths(Message("temp", TempDeci(v) < 0, TempDeci(v))) = TempDeci(v)
    <3> DEFINE d == TempDeci(v)
    <3>1. d \in Int /\ Magnitude(d) <= 999
      BY <2>1
    <3> HIDE DEF d
    <3>2. Tenths(Message("temp", d < 0, d)) = d
      BY <3>1, TenthsOfMessage
    <3> QED BY <3>2 DEF d
  <2>3. Tenths(format_temp_msg(v)) = TempDeci(v)
    BY <2>2 DEF format_temp_msg
  <2> QED BY <2>1, <2>3
<1>2. ASSUME NEW v \in Nat, Magnitude(v) < 9995
      PROVE  Magnitude(10 * Tenths(format_hum_msg(v)) - v) <= 5
  <2>1. v \in Nat /\ v < 9995
    BY <1>2 DEF Magnitude
  <2>2. HumDeci(v) \in 0..999 /\ 10 * HumDeci(v) - v <= 5 /\ v - 10 * HumDeci(v) <= 5
    BY <2>1 DEF HumDeci
  <2>3. (HumDeci(v) < 0) = FALSE /\ Magnitude(HumDeci(v)) <= 999 /\ HumDeci(v) \in Int
    BY <2>2 DEF Magnitude
  <2>4. Tenths(format_hum_msg(v)) = HumDeci(v)
    BY <2>3, TenthsOfMessage DEF format_hum_msg
  <2> QED BY <2>1, <2>2, <2>4 DEF Magnitude
<1> QED BY <1>1, <1>2 DEF Near

(* Only a number below zero has a minus sign, however many digits it has. *)
LEMMA MinusIsNegative ==
    ASSUME NEW kind, NEW deci \in Int, Message(kind, deci < 0, deci).minus
    PROVE  Tenths(Message(kind, deci < 0, deci)) < 0
<1> DEFINE m == Magnitude(deci)
           w == IF m \div 10 > 99 THEN 99 ELSE m \div 10
<1>1. deci < 0
  BY DEF Message
<1>2. m \in Nat \ {0}
  BY <1>1 DEF Magnitude
<1> HIDE DEF m
<1>3. m \div 10 \in Nat /\ m % 10 \in 0..9 /\ m = 10 * (m \div 10) + (m % 10)
  BY <1>2
<1>4. w \in Nat /\ 10 * w + (m % 10) > 0
  BY <1>2, <1>3
<1>5. LET msg == Message(kind, TRUE, deci) IN msg.whole = w /\ msg.frac = m % 10 /\ msg.minus = TRUE
  BY DEF Message, m
<1> HIDE DEF w
<1>6. Tenths(Message(kind, TRUE, deci)) = (10 * w + (m % 10)) * (-1)
  BY <1>5, Zenon DEF Tenths
<1>7. Tenths(Message(kind, TRUE, deci)) < 0
  <2>1. 10 * w + (m % 10) \in Int
    BY <1>3, <1>4
  <2>2. \A n \in Int : n > 0 => n * (-1) < 0
    OBVIOUS
  <2> QED BY <1>4, <1>6, <2>1, <2>2
<1>8. (deci < 0) = TRUE
  BY <1>1
<1> QED BY <1>7, <1>8

LEMMA MinusSigns ==
    /\ \A v \in Int : format_temp_msg(v).minus => Tenths(format_temp_msg(v)) < 0
    /\ \A v \in Int : ~format_hum_msg(v).minus
<1>1. \A v \in Int : TempDeci(v) \in Int
  <2>1. \A n \in Int : Quotient(n, 10) \in Int
    BY DEF Quotient
  <2> QED BY <2>1 DEF TempDeci
<1>2. ASSUME NEW v \in Int, format_temp_msg(v).minus PROVE Tenths(format_temp_msg(v)) < 0
  BY <1>1, <1>2, MinusIsNegative DEF format_temp_msg
<1>3. \A v \in Int : ~format_hum_msg(v).minus
  BY DEF format_hum_msg, Message
<1> QED BY <1>2, <1>3

(* What the wire says is an average to half a tenth, with a minus sign only below
   zero, and the packets are numbered without gap: for every window and every
   value. *)
THEOREM PacketsCorrect == MainSpec => PacketsAreRight
<1> DEFINE RoundedStep ==
        wire' # wire =>
          LET msg == Head(wire').msg
          IN  /\ Near(msg, IF msg.kind = "temp" THEN temp_avg_cdeg ELSE hum_avg_cpercent)
              /\ msg.minus => Tenths(msg) < 0
<1>1. RingInv /\ [MainNext]_mainVars => RoundedStep
  <2> SUFFICES ASSUME RingInv, [MainNext]_mainVars, wire' # wire
               PROVE  LET msg == Head(wire').msg
                      IN  /\ Near(msg, IF msg.kind = "temp" THEN temp_avg_cdeg ELSE hum_avg_cpercent)
                          /\ msg.minus => Tenths(msg) < 0
    OBVIOUS
  <2>1. temp_avg_cdeg \in Int /\ hum_avg_cpercent \in Nat
    BY DEF RingInv, AveragesTyped
  <2>2. \A msg : Head(Packets(aux_seq, msg)).msg = msg
    BY DEF Packets, Packet
  <2>3. /\ format_temp_msg(temp_avg_cdeg).kind = "temp"
        /\ format_hum_msg(hum_avg_cpercent).kind = "hum"
    BY DEF format_temp_msg, format_hum_msg, Message
  <2>4. CASE wire' = Packets(aux_seq, format_temp_msg(temp_avg_cdeg))
    BY <2>1, <2>2, <2>3, <2>4, MessagesRound, MinusSigns
  <2>5. CASE wire' = Packets(aux_seq, format_hum_msg(hum_avg_cpercent))
    BY <2>1, <2>2, <2>3, <2>5, MessagesRound, MinusSigns
  <2> QED BY <2>4, <2>5, WireStep
<1>2. MainSpec => [][RoundedStep]_mainVars
  BY <1>1, RingInvariant, PTL DEF MainSpec
<1>3. SentRounded <=> [][RoundedStep]_mainVars
  BY PTL DEF SentRounded
<1> QED BY <1>2, <1>3, GaplessCorrect, PTL DEF PacketsAreRight

----------------------------------------------------------------------------
(* Button and LED. *)

FlagTypes == maint_button_pending \in BOOLEAN /\ unanswered \in BOOLEAN /\ pin_failed \in BOOLEAN
LedTypes ==
    /\ led_state \in 0..1 /\ pin \in 0..1 /\ led_value \in 0..1 /\ heard \in 0..1
    /\ overtaken \in {"no", "pin", "value", "send"}

(* How far main has got with clearing the LED, for each place where a write can
   have come between. *)
LedOnTheWay ==
    /\ at = "pin" => overtaken = "pin" \/ (overtaken = "no" /\ led_state = 0)
    /\ at \in {"value", "send"} /\ overtaken # "pin" /\ ~pin_failed => pin = led_state
    /\ at = "send" /\ overtaken # "send" => led_value = led_state

LedInv == FlagTypes /\ LedTypes /\ PressNotLost /\ LedAgrees /\ LedOnTheWay

LEMMA LedInit == MainInit => LedInv
<1> SUFFICES ASSUME MainInit PROVE LedInv
  OBVIOUS
<1>1. FlagTypes /\ PressNotLost
  BY Zenon DEF MainInit, FlagTypes, PressNotLost
<1>2. LedTypes /\ LedAgrees /\ LedOnTheWay
  BY DEF MainInit, LedTypes, LedAgrees, LedOnTheWay, InSetLed
<1> QED BY <1>1, <1>2 DEF LedInv

(* The flags, and the press. *)
LEMMA FlagsNext == LedInv /\ [MainNext]_mainVars => FlagTypes' /\ PressNotLost'
<1> SUFFICES ASSUME LedInv, [MainNext]_mainVars PROVE FlagTypes' /\ PressNotLost'
  OBVIOUS
<1> USE DEF LedInv, FlagTypes, PressNotLost
<1>1. CASE Wake \/ SampleSensor \/ NotifyAverages \/ SendTemperature \/ SendHumidity \/ CheckButton
  <2>1. UNCHANGED <<buttonVars, ledVars>> /\ at # "debounce"
    BY <1>1 DEF Wake, SampleSensor, NotifyAverages, SendTemperature, SendHumidity, CheckButton
  <2>2. UNCHANGED <<maint_button_pending, unanswered, pin_failed>>
    BY <2>1 DEF buttonVars, ledVars
  <2> QED BY <2>1, <2>2, Zenon
<1>2. CASE ClearButton
  BY <1>2, Zenon DEF ClearButton, ledVars
<1>3. CASE Debounce
  BY <1>3, Zenon DEF Debounce, ledVars
<1>4. CASE Press
  BY <1>4, Zenon DEF Press, ledVars
<1>5. CASE ClockTick \/ UNCHANGED mainVars
  <2>1. UNCHANGED <<at, maint_button_pending, unanswered, pin_failed>>
    BY <1>5 DEF ClockTick, mainVars, buttonVars, ledVars
  <2> QED BY <2>1, Zenon
<1>6. CASE SetLed
  <2>1. at # "debounce"
    BY <1>6 DEF SetLed
  <2> QED BY <1>6, <2>1, Zenon DEF SetLed, FlagStays
<1>7. CASE SetPin
  <2>1. at # "debounce" /\ UNCHANGED <<maint_button_pending, unanswered>>
    BY <1>7 DEF SetPin, unchangedByLed, buttonVars
  <2>2. UNCHANGED pin_failed \/ pin_failed' = TRUE
    BY <1>7, Zenon DEF SetPin
  <2> QED BY <2>1, <2>2, Zenon
<1>8. CASE LedValue \/ NotifyLed
  <2>1. at # "debounce" /\ UNCHANGED <<maint_button_pending, unanswered, pin_failed>>
    BY <1>8 DEF LedValue, NotifyLed, unchangedByLed, buttonVars
  <2> QED BY <2>1, Zenon
<1>9. ASSUME NEW v \in 0..1, WriteLed(v) PROVE FlagTypes' /\ PressNotLost'
  <2>1. UNCHANGED <<at, maint_button_pending, unanswered>>
    BY <1>9 DEF WriteLed, unchangedByLed, buttonVars
  <2>2. pin_failed' = FALSE \/ pin_failed' = TRUE
    BY <1>9, Zenon DEF WriteLed
  <2> QED BY <2>1, <2>2, Zenon
<1>10. CASE ReadLed
  <2>1. UNCHANGED <<at, maint_button_pending, unanswered, pin_failed>>
    BY <1>10 DEF ReadLed, unchangedByLed, buttonVars
  <2> QED BY <2>1, Zenon
<1> QED BY <1>1, <1>2, <1>3, <1>4, <1>5, <1>6, <1>7, <1>8, <1>9, <1>10 DEF MainNext, MainStep

LEMMA LedNext == LedInv /\ [MainNext]_mainVars => LedInv'
<1> SUFFICES ASSUME LedInv, [MainNext]_mainVars PROVE LedTypes' /\ LedAgrees' /\ LedOnTheWay'
  BY FlagsNext DEF LedInv
<1> USE DEF LedInv, FlagTypes, LedTypes, LedAgrees, LedOnTheWay, InSetLed
<1>1. CASE Wake \/ SampleSensor \/ NotifyAverages \/ SendTemperature \/ SendHumidity
           \/ CheckButton \/ ClearButton \/ Debounce
  <2>1. UNCHANGED ledVars /\ at' \notin {"pin", "value", "send"} /\ at \notin {"pin", "value", "send"}
    BY <1>1 DEF Wake, SampleSensor, NotifyAverages, SendTemperature, SendHumidity, CheckButton,
                ClearButton, Debounce
  <2> QED BY <2>1 DEF ledVars
<1>2. CASE Press \/ ClockTick \/ UNCHANGED mainVars
  <2>1. UNCHANGED ledVars /\ at' = at
    BY <1>2 DEF Press, ClockTick, mainVars
  <2> QED BY <2>1 DEF ledVars
<1>3. CASE SetLed
  <2>1. at' = "pin" /\ led_state' = 0 /\ overtaken' = "no" /\ UNCHANGED <<pin, led_value, heard>>
    BY <1>3 DEF SetLed
  <2> QED BY <2>1
<1>4. CASE SetPin
  <2>1. at = "pin" /\ UNCHANGED <<led_state, led_value, heard, overtaken>>
    BY <1>4 DEF SetPin
  <2>2. CASE pin' \in {0, led_state} /\ at' = "value" /\ UNCHANGED pin_failed
    BY <2>1, <2>2
  <2>3. CASE pin_failed' = TRUE /\ at' = "sleep" /\ UNCHANGED pin
    <3>1. pin_failed'
      BY <2>3, Zenon
    <3>2. at' = "sleep" /\ pin' = pin
      BY <2>3
    <3> QED BY <2>1, <3>1, <3>2
  <2> QED BY <1>4, <2>2, <2>3 DEF SetPin
<1>5. CASE LedValue
  BY <1>5 DEF LedValue
<1>6. CASE NotifyLed
  BY <1>6 DEF NotifyLed
<1>7. ASSUME NEW v \in 0..1, WriteLed(v) PROVE LedTypes' /\ LedAgrees' /\ LedOnTheWay'
  <2>1. led_state' = v /\ UNCHANGED <<at, led_value>>
        /\ overtaken' = IF at \in {"pin", "value", "send"} THEN at ELSE "no"
    BY <1>7 DEF WriteLed, unchangedByLed
  <2>2. CASE pin' = v /\ TellClients(v) /\ pin_failed' = FALSE
    BY <2>1, <2>2 DEF TellClients
  <2>3. CASE pin_failed' = TRUE /\ UNCHANGED <<pin, heard>>
    <3>1. pin_failed'
      BY <2>3, Zenon
    <3> QED BY <2>1, <2>3, <3>1
  <2> QED BY <1>7, <2>2, <2>3 DEF WriteLed
<1>8. CASE ReadLed
  BY <1>8 DEF ReadLed
<1> QED BY <1>1, <1>2, <1>3, <1>4, <1>5, <1>6, <1>7, <1>8 DEF MainNext, MainStep

LEMMA LedInvariant == MainSpec => []LedInv
  BY LedInit, LedNext, PTL DEF MainSpec

(* The button's interrupt, main and the writes of the clients: no press is lost,
   whichever of main's steps it comes between, and variable, pin and clients
   agree about the LED except after a write between main's store and its
   gpio_pin_set_dt() (the pin may then differ) or between its reading of the value
   and its notification (the clients may then have main's). *)
THEOREM MaintenanceCorrect == MainSpec => []MaintenanceIsKept
<1>1. LedInv => MaintenanceIsKept
  BY DEF LedInv, MaintenanceIsKept
<1> QED BY <1>1, LedInvariant, PTL

(* Every variable of the main loop keeps its type: the ring's index and count,
   the made-up temperature, the ages, and the packet numbers. *)
THEOREM MainTypeCorrect == MainSpec => []MainTypeOK
<1>1. RingInv /\ AgeInv /\ PacketInv /\ LedInv => MainTypeOK
  BY DEF RingInv, SensorTypes, Sensors, AgeInv, AgeTypes, PacketInv, LedInv, FlagTypes, LedTypes,
         MainTypeOK
<1> QED BY <1>1, RingInvariant, AgeInvariant, PacketInvariant, LedInvariant, PTL

----------------------------------------------------------------------------
(* The notify loops. *)

(* No connection has two entries; while the loop calls the stack its index is
   that of an entry; and whoever the loop owes a notification still has a
   claim to it and was served or has an entry that is still to come. *)
EntriesDistinct == \A j, k \in Index :
    connections[j] = connections[k] => j = k \/ connections[j] = NULL
IndexInTable == pc \in {"authentication", "subscription", "send"} => i \in Index
OwedAhead ==
    pc # "idle" => \A c \in owed :
        /\ c \in authenticated /\ c \in subscribed
        /\ \E k \in Index : connections[k] = c /\ (k >= i \/ c \in sent)

LoopInv == TypeOK /\ EntriesDistinct /\ IndexInTable /\ OwedAhead

----------------------------------------------------------------------------
(* The invariant holds at the start: the table is empty and main is not in a
   loop. *)
LEMMA LoopInit == Init => LoopInv
  BY MaxConnAssumption
     DEF Init, TableInit, LoopInv, TypeOK, EntriesDistinct, IndexInTable, OwedAhead,
         Index, Conns, NULL

(* No callback takes an owed connection's entry away without its claim. *)
LEMMA CallbackStep ==
    ASSUME LoopInv, NEW c \in Conns,
           Connected(c) \/ Authenticated(c) \/ Disconnected(c) \/ CccWritten(c)
    PROVE  LoopInv'
<1> USE MaxConnAssumption DEF LoopInv, Index, Conns, NULL
<1>1. CASE Connected(c)
  <2>1. PICK k \in Index : Store(c, k) /\ UNCHANGED <<subscribed, loopVars, owed>>
    BY <1>1 DEF Connected
  <2>2. connections' = [connections EXCEPT ![k] = c] /\ connections[k] = NULL
        /\ UNCHANGED <<authenticated, subscribed, pc, i, sent, owed>>
    BY <2>1 DEF Store, loopVars
  <2>3. \A j \in Index : connections[j] # c
    BY <2>1 DEF Store, Tracked
  <2>4. TypeOK' /\ EntriesDistinct' /\ IndexInTable'
    BY <2>2, <2>3 DEF TypeOK, EntriesDistinct, IndexInTable
  <2>5. OwedAhead'
    BY <2>2 DEF OwedAhead, TypeOK
  <2> QED BY <2>4, <2>5
<1>2. CASE Authenticated(c)
  BY <1>2 DEF Authenticated, Authenticate, loopVars, TypeOK, EntriesDistinct, IndexInTable,
     OwedAhead
<1>3. CASE Disconnected(c)
  <2>1. /\ connections' = [j \in Index |-> IF connections[j] = c THEN NULL ELSE connections[j]]
        /\ authenticated' = authenticated \ {c} /\ subscribed' = subscribed \ {c}
        /\ owed' \subseteq owed /\ owed' \subseteq authenticated'
        /\ UNCHANGED <<pc, i, sent>>
    BY <1>3 DEF Disconnected, Remove, StillOwed, Ready, loopVars
  <2>2. TypeOK' /\ EntriesDistinct' /\ IndexInTable'
    BY <2>1 DEF TypeOK, EntriesDistinct, IndexInTable
  <2>3. OwedAhead'
    BY <2>1 DEF OwedAhead, TypeOK
  <2> QED BY <2>2, <2>3
<1>4. CASE CccWritten(c)
  <2>1. /\ subscribed' \in SUBSET Conns
        /\ owed' \subseteq owed /\ owed' \subseteq subscribed'
        /\ UNCHANGED <<connections, authenticated, pc, i, sent>>
    BY <1>4 DEF CccWritten, StillOwed, Ready, loopVars, tableVars, TypeOK
  <2> QED BY <2>1 DEF TypeOK, EntriesDistinct, IndexInTable, OwedAhead
<1> QED BY <1>1, <1>2, <1>3, <1>4

(* The loop passes an entry only if nothing is owed to its connection or it
   has just been served. *)
LEMMA LoopStep ==
    ASSUME LoopInv, CheckEntry \/ CheckAuthenticated \/ CheckSubscription \/ Send
    PROVE  LoopInv'
<1> USE MaxConnAssumption DEF LoopInv, Index, Conns, NULL
<1>1. UNCHANGED <<connections, authenticated, subscribed, owed>>
  BY DEF CheckEntry, CheckAuthenticated, CheckSubscription, Send, tableVars
<1>2. pc # "idle" /\ i \in Index
  BY DEF CheckEntry, CheckAuthenticated, CheckSubscription, Send, IndexInTable, TypeOK
<1>3. sent \subseteq sent' /\ sent' \in SUBSET Conns
  BY <1>2 DEF CheckEntry, CheckAuthenticated, CheckSubscription, Send, Recipients, TypeOK
<1>4. \/ \E step \in {"authentication", "subscription", "send"} : GoTo(step)
      \/ NextEntry /\ (connections[i] \in owed => connections[i] \in sent')
  <2>1. CASE CheckEntry
    <3>1. connections[i] = NULL => connections[i] \notin owed
      BY <1>2 DEF OwedAhead, TypeOK
    <3> QED BY <2>1, <3>1 DEF CheckEntry
  <2>4. CASE CheckAuthenticated
    BY <2>4, <1>2 DEF CheckAuthenticated, OwedAhead
  <2>2. CASE CheckSubscription
    BY <2>2, <1>2 DEF CheckSubscription, OwedAhead
  <2>3. CASE Send
    <3>1. connections[i] \in owed => connections[i] \in subscribed /\ connections[i] # NULL
      BY <1>2 DEF OwedAhead, TypeOK
    <3> QED BY <2>3, <3>1 DEF Send, Recipients
  <2> QED BY <2>1, <2>2, <2>3, <2>4
<1>5. CASE \E step \in {"authentication", "subscription", "send"} : GoTo(step)
  BY <1>1, <1>2, <1>3, <1>5
     DEF GoTo, TypeOK, EntriesDistinct, IndexInTable, OwedAhead
<1>6. CASE NextEntry /\ (connections[i] \in owed => connections[i] \in sent')
  <2>1. i' = i + 1 /\ pc' = "check"
    BY <1>6 DEF NextEntry
  <2>2. TypeOK' /\ EntriesDistinct' /\ IndexInTable'
    BY <1>1, <1>2, <1>3, <2>1 DEF TypeOK, EntriesDistinct, IndexInTable
  <2>3. ASSUME NEW c \in owed
        PROVE  /\ c \in authenticated /\ c \in subscribed
               /\ \E k \in Index : connections[k] = c /\ (k >= i + 1 \/ c \in sent')
    <3>1. PICK k \in Index : connections[k] = c /\ (k >= i \/ c \in sent)
      BY <1>2 DEF OwedAhead
    <3>2. k >= i + 1 \/ c \in sent'
      <4>1. CASE k = i
        BY <4>1, <3>1, <1>6
      <4>2. CASE k # i
        <5>1. k \in Nat /\ i \in Nat
          BY <1>2
        <5>2. c \in sent => c \in sent'
          BY <1>3
        <5> QED BY <3>1, <4>2, <5>1, <5>2
      <4> QED BY <4>1, <4>2
    <3>3. c \in authenticated /\ c \in subscribed
      BY <1>2 DEF OwedAhead
    <3> QED BY <3>1, <3>2, <3>3
  <2>4. OwedAhead'
    BY <1>1, <2>1, <2>3 DEF OwedAhead
  <2> QED BY <2>2, <2>4
<1> QED BY <1>4, <1>5, <1>6

(* Every step keeps the invariant. *)
LEMMA LoopNext == LoopInv /\ [Next]_vars => LoopInv'
<1> SUFFICES ASSUME LoopInv, [Next]_vars PROVE LoopInv'
  OBVIOUS
<1>1. CASE \E c \in Conns : Connected(c) \/ Authenticated(c) \/ Disconnected(c) \/ CccWritten(c)
  BY <1>1, CallbackStep
<1>2. CASE Reboot
  BY <1>2, MaxConnAssumption
     DEF Reboot, Restart, LoopInv, TypeOK, EntriesDistinct, IndexInTable, OwedAhead,
         Index, Conns, NULL
<1>3. CASE Start
  <2>1. UNCHANGED <<connections, authenticated, subscribed>> /\ pc' = "check" /\ i' = 1
        /\ owed' = Ready /\ sent' = {}
    BY <1>3 DEF Start, tableVars
  <2> QED BY <2>1, MaxConnAssumption
             DEF LoopInv, Ready, Tracked, TypeOK, EntriesDistinct, IndexInTable, OwedAhead,
                 Index
<1>4. CASE CheckEntry \/ CheckAuthenticated \/ CheckSubscription \/ Send
  BY <1>4, LoopStep
<1>5. CASE LoopDone
  BY <1>5 DEF LoopDone, LeaveAtEnd, GoTo, tableVars, LoopInv, TypeOK, EntriesDistinct,
              IndexInTable, OwedAhead
<1>6. CASE UNCHANGED vars
  BY <1>6 DEF vars, tableVars, loopVars, LoopInv, TypeOK, EntriesDistinct, IndexInTable,
              OwedAhead
<1> QED BY <1>1, <1>2, <1>3, <1>4, <1>5, <1>6 DEF Next

----------------------------------------------------------------------------
(* A connection that is authenticated and subscribed throughout a loop of
   notify_temperature() or its kin is notified by it, however many connections
   there are and whoever comes and goes. *)
THEOREM NobodyMissedCorrect == Spec => []NobodyMissed
<1>1. LoopInv => NobodyMissed
  BY MaxConnAssumption DEF LoopInv, TypeOK, OwedAhead, NobodyMissed, Index
<1> QED BY LoopInit, LoopNext, <1>1, PTL DEF Spec

(* No variable of the notify loops leaves its type, the index included. *)
LEMMA NotifyTypeCorrect == Spec => []TypeOK
<1>1. LoopInv => TypeOK
  BY DEF LoopInv
<1> QED BY LoopInit, LoopNext, <1>1, PTL DEF Spec

----------------------------------------------------------------------------
(* The thread is a loop and a notify loop, each of which behaves as it does
   alone: what is proved of one of them holds of the thread. *)
LEMMA ThreadParts == ThreadSpec => MainSpec /\ Spec
<1>1. ThreadInit => MainInit /\ Init
  BY DEF ThreadInit
<1>2. [ThreadNext]_allVars => [MainNext]_mainVars
  BY DEF ThreadNext, allVars
<1>3. [ThreadNext]_allVars => [Next]_vars
  BY DEF ThreadNext, allVars
<1> QED BY <1>1, <1>2, <1>3, PTL DEF ThreadSpec, MainSpec, Spec

(* Every variable of main's loop and of the notify loops keeps its type, in
   every behaviour of the thread. *)
THEOREM ThreadTypeCorrect == ThreadSpec => []AllTypesOK
<1>1. TypeOK /\ MainTypeOK => AllTypesOK
  BY DEF AllTypesOK
<1> QED BY <1>1, ThreadParts, MainTypeCorrect, NotifyTypeCorrect, PTL
=============================================================================
