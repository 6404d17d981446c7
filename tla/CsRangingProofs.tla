-------------------------- MODULE CsRangingProofs --------------------------
(***************************************************************************)
(* Proofs about the one step buffer of SS2: the steps it holds when the    *)
(* peer's data are parsed are those of the same procedure, for every       *)
(* number of subevents and counters of any width, unless one of the three  *)
(* events has happened that spoil the buffer; and a procedure that takes   *)
(* it empty ends that.  Nothing is assumed of the order in which the       *)
(* peer's data come, how many are lost, and of which procedures they are.  *)
(***************************************************************************)
EXTENDS CsRanging, ArithmeticProofs

StepsOf(p) == {s \in measured : s.proc = p}

(* What the peer has still to report is recent, and the controller's procedure is
   known to the buffer, or was dropped. *)
WaitingInv ==
    /\ \A q \in Waiting : Age(q) < mode.window
    /\ ~ended => Dropped(proc) \/ ~NewProcedure(proc)

FreeInv == sem_local_steps = 1 => latest_local_steps = {}

(* The procedure that is measured fills the buffer alone, unless it was dropped. *)
CurrentInv ==
    /\ dropped_ranging_counter \in {None, proc}
    /\ ~ended /\ ~Dropped(proc) => sem_local_steps = 0 /\ latest_local_steps = StepsOf(proc)
    /\ ~ended /\ Dropped(proc) /\ ~NewProcedure(proc) => latest_local_steps = {}

(* One that is waited for and whose counter the buffer has is the one in it. *)
ReportInv ==
    \A q \in Waiting : ~NewProcedure(q) => latest_local_steps \in {{}, StepsOf(q)}

BufferInv == FreeInv /\ CurrentInv /\ ReportInv

(* The invariant.  The counter may come round: a new procedure whose counter is
   that of the buffer spoils it, so nothing needs to be known of older ones. *)
RangingInv == TypeOK /\ WaitingInv /\ (~spoiled => BufferInv)

----------------------------------------------------------------------------
(* The distance between two counters of m values. *)
LEMMA CounterDistance ==
    ASSUME NEW m \in Nat \ {0}, NEW a \in 0..(m - 1), NEW b \in 0..(m - 1)
    PROVE  (a - b) % m = IF a >= b THEN a - b ELSE (a - b) + m
<1>1. CASE a >= b
  <2>1. a - b \in 0..(m - 1) /\ a - b = m * 0 + (a - b)
    BY <1>1
  <2>2. (a - b) % m = a - b
    BY <2>1, ModUnique
  <2> QED BY <1>1, <2>2
<1>2. CASE ~(a >= b)
  <2> DEFINE r == (a - b) + m
  <2>1. r \in 0..(m - 1) /\ a - b = m * (-1) + r /\ -1 \in Int
    BY <1>2
  <2> HIDE DEF r
  <2>2. (a - b) % m = r
    BY <2>1, ModUnique
  <2> QED BY <1>2, <2>2 DEF r
<1> QED BY <1>1, <1>2

LEMMA CounterNext ==
    ASSUME NEW m \in Nat \ {0}, NEW a \in 0..(m - 1)
    PROVE  (a + 1) % m = IF a = m - 1 THEN 0 ELSE a + 1
<1>1. CASE a = m - 1
  <2>1. a + 1 = m * 1 + 0 /\ 0 \in 0..(m - 1)
    BY <1>1
  <2> QED BY <1>1, <2>1, ModUnique
<1>2. CASE a # m - 1
  <2>1. a + 1 \in 0..(m - 1) /\ a + 1 = m * 0 + (a + 1)
    BY <1>2
  <2>2. (a + 1) % m = a + 1
    BY <2>1, ModUnique
  <2> QED BY <1>2, <2>2
<1> QED BY <1>1, <1>2

(* The ranging counter. *)
LEMMA Multiple == \E k \in Nat : ProcedureCounters = RangingCounters * k
<1>1. ProcedureCounters \in Int /\ ProcedureCounters % RangingCounters = 0
      /\ RangingCounters \in Nat \ {0} /\ ProcedureCounters > 0
  BY CountersAssumption
<1> DEFINE k == ProcedureCounters \div RangingCounters
<1>2. k \in Int /\ ProcedureCounters = RangingCounters * k + 0
  BY <1>1, ModDef
<1> HIDE DEF k
<1>3. ProcedureCounters = RangingCounters * k /\ k >= 0
  BY <1>1, <1>2
<1> QED BY <1>2, <1>3

LEMMA RangingCounterType ==
    ASSUME NEW p \in Procedures
    PROVE  RangingCounter(p) \in 0..(RangingCounters - 1)
  BY CountersAssumption, ModDef DEF RangingCounter, Procedures

(* The ranging counter counts the procedures, too. *)
LEMMA NextRangingCounter ==
    ASSUME NEW p \in Procedures
    PROVE  RangingCounter((p + 1) % ProcedureCounters) = (RangingCounter(p) + 1) % RangingCounters
<1> USE CountersAssumption DEF Procedures
<1> DEFINE R == RangingCounters
           d == p \div R
           s == p % R
           n == (p + 1) % ProcedureCounters
<1>1. s \in 0..(R - 1) /\ d \in Int /\ p = R * d + s
  BY ModDef
<1> HIDE DEF d, s, n
<1>2. PICK k \in Nat : ProcedureCounters = R * k
  BY Multiple
<1>3. CASE p = ProcedureCounters - 1
  <2>1. n = 0
    BY <1>3, CounterNext DEF n
  <2>2. R * d \in Int /\ R * k \in Int /\ R * k = ProcedureCounters
    BY <1>1, <1>2
  <2>3. s + 1 = 0 + R * (k - d) /\ k - d \in Int
    BY <1>1, <1>2, <1>3, <2>2
  <2>4. (s + 1) % R = 0 % R
    BY <2>3, ModSame
  <2> QED BY <2>1, <2>4 DEF RangingCounter, s, n
<1>4. CASE p # ProcedureCounters - 1
  <2>1. n = p + 1
    BY <1>4, CounterNext DEF n
  <2> DEFINE t == s + 1
  <2>2. p + 1 = t + R * d /\ t \in Int
    BY <1>1
  <2> HIDE DEF t
  <2>3. (p + 1) % R = t % R
    BY <1>1, <2>2, ModSame, ZenonT(60)
  <2> QED BY <2>1, <2>3 DEF t, RangingCounter, s, n
<1> QED BY <1>3, <1>4

(* The counters tell how many procedures ago q was, as long as it is fewer than they
   have values. *)
LEMMA CountersTell ==
    ASSUME NEW p \in Procedures, NEW q \in Procedures,
           (p - q) % ProcedureCounters < RangingCounters
    PROVE  (RangingCounter(p) - RangingCounter(q)) % RangingCounters = (p - q) % ProcedureCounters
<1> USE CountersAssumption DEF Procedures
<1> DEFINE R == RangingCounters
           age == (p - q) % ProcedureCounters
           dp == p \div R
           dq == q \div R
           sp == p % R
           sq == q % R
<1>1. /\ sp \in 0..(R - 1) /\ dp \in Int /\ p = R * dp + sp
      /\ sq \in 0..(R - 1) /\ dq \in Int /\ q = R * dq + sq
  BY ModDef
<1>2. age \in 0..(R - 1)
  BY ModDef
<1>3. \E z \in {0, 1} : age = (p - q) + z * ProcedureCounters
  BY CounterDistance
<1> HIDE DEF age, dp, dq, sp, sq
<1>4. PICK k \in Nat : ProcedureCounters = R * k
  BY Multiple
<1>5. PICK j \in Int : age = (p - q) + R * j
  <2>1. CASE age = p - q
    <3>1. age = (p - q) + R * 0
      BY <2>1
    <3> QED BY <3>1
  <2>2. CASE age = (p - q) + ProcedureCounters
    BY <1>4, <2>2
  <2> QED BY <1>3, <2>1, <2>2
<1>6. age = (sp - sq) + R * ((dp - dq) + j)
  <2>1. R * dp \in Int /\ R * dq \in Int /\ R * j \in Int
    BY <1>1
  <2>2. R * ((dp - dq) + j) = ((R * dp) - (R * dq)) + R * j
    BY <1>1
  <2> QED BY <1>1, <1>5, <2>1, <2>2
<1>7. age % R = (sp - sq) % R
  <2>1. sp - sq \in Int /\ (dp - dq) + j \in Int
    BY <1>1
  <2> QED BY <1>6, <2>1, ModSame
<1>8. age % R = age
  <2>1. age = R * 0 + age
    BY <1>2
  <2> QED BY <1>2, <2>1, ModUnique
<1> QED BY <1>7, <1>8 DEF RangingCounter, age, sp, sq

LEMMA SameCounter ==
    ASSUME NEW p \in Procedures, NEW q \in Procedures,
           (p - q) % ProcedureCounters < RangingCounters, RangingCounter(p) = RangingCounter(q)
    PROVE  p = q
<1> DEFINE c == RangingCounter(p)
<1>1. (c - c) % RangingCounters = (p - q) % ProcedureCounters
  BY CountersTell
<1>2. c \in 0..(RangingCounters - 1)
  BY RangingCounterType
<1> HIDE DEF c
<1>3. (c - c) % RangingCounters = 0
  BY <1>2, CounterDistance, CountersAssumption
<1>4. (p - q) % ProcedureCounters = IF p >= q THEN p - q ELSE (p - q) + ProcedureCounters
  BY CounterDistance, CountersAssumption DEF Procedures
<1> QED BY <1>1, <1>3, <1>4, CountersAssumption DEF Procedures

----------------------------------------------------------------------------
(* The present procedure and the next one. *)

LEMMA Widths ==
    ASSUME TypeOK
    PROVE  /\ mode.window \in Nat \ {0} /\ mode.window < RangingCounters
           /\ RangingCounters \in Nat \ {0, 1} /\ ProcedureCounters \in Nat \ {0, 1}
           /\ RangingCounters <= ProcedureCounters
<1>1. mode.window \in Nat \ {0} /\ mode.window < RangingCounters
  BY BoundsAssumption DEF TypeOK
<1>2. PICK k \in Nat : ProcedureCounters = RangingCounters * k
  BY Multiple
<1>3. RangingCounters \in Nat \ {0} /\ ProcedureCounters \in Nat \ {0}
  BY CountersAssumption
<1>4. k # 0
  BY <1>2, <1>3
<1>5. RangingCounters * k = RangingCounters + RangingCounters * (k - 1) /\ RangingCounters * (k - 1) >= 0
  BY <1>3, <1>4
<1> QED BY <1>1, <1>2, <1>3, <1>5

LEMMA Ages ==
    ASSUME TypeOK
    PROVE  /\ \A q \in Procedures : Age(q) \in 0..(ProcedureCounters - 1)
           /\ Age(proc) = 0
           /\ \A q, r \in Procedures : Age(q) = Age(r) => q = r
<1>1. \A q \in Procedures : Age(q) = IF proc >= q THEN proc - q ELSE (proc - q) + ProcedureCounters
  BY CounterDistance, CountersAssumption DEF Procedures, Age, TypeOK
<1>2. proc \in 0..(ProcedureCounters - 1) /\ ProcedureCounters \in Nat \ {0}
  BY CountersAssumption DEF TypeOK, Procedures
<1> QED BY <1>1, <1>2 DEF Procedures

LEMMA NextAges ==
    ASSUME TypeOK, NEW p, p = (proc + 1) % ProcedureCounters
    PROVE  /\ p \in Procedures /\ p # proc
           /\ Age(p) = ProcedureCounters - 1
           /\ \A q \in Procedures :
                (p - q) % ProcedureCounters = IF q = p THEN 0 ELSE Age(q) + 1
<1>1. proc \in 0..(ProcedureCounters - 1) /\ ProcedureCounters \in Nat \ {0, 1}
  BY Widths DEF TypeOK, Procedures
<1>2. p = IF proc = ProcedureCounters - 1 THEN 0 ELSE proc + 1
  BY <1>1, CounterNext
<1>3. p \in 0..(ProcedureCounters - 1) /\ p # proc
  BY <1>1, <1>2
<1>4. \A q \in Procedures :
         /\ Age(q) = IF proc >= q THEN proc - q ELSE (proc - q) + ProcedureCounters
         /\ (p - q) % ProcedureCounters = IF p >= q THEN p - q ELSE (p - q) + ProcedureCounters
  BY <1>1, <1>3, CounterDistance DEF Procedures, Age
<1> QED BY <1>1, <1>2, <1>3, <1>4 DEF Procedures

----------------------------------------------------------------------------
(* Types. *)

LEMMA TypeInit == Init => TypeOK
<1> SUFFICES ASSUME Init PROVE TypeOK
  OBVIOUS
<1>1. ended \in BOOLEAN /\ ahead \in BOOLEAN /\ spoiled \in BOOLEAN
  BY Zenon DEF Init
<1>2. mode.relinks \in Nat /\ ProcedureCounters - 1 \in Procedures
  BY CountersAssumption, BoundsAssumption DEF Init, Procedures
<1> QED BY <1>1, <1>2, BoundsAssumption DEF Init, TypeOK

LEMMA StepTypes ==
    ASSUME NEW p \in Procedures, NEW n \in 1..MaxSubevents
    PROVE  Step(p, n) \in Steps
  BY DEF Step, Steps

LEMMA TypeNext == TypeOK /\ [Next]_vars => TypeOK'
<1> SUFFICES ASSUME TypeOK, [Next]_vars PROVE TypeOK'
  OBVIOUS
<1> USE DEF vars, bufferVars, counterVars, controllerVars
<1>1. ASSUME NEW p \in Procedures, NEW n \in 1..MaxSubevents,
             NEW done \in {"partial", "complete", "aborted"}, SubeventResult(p, n, done)
      PROVE  TypeOK'
  <2>1. PICK steps \in {{}, {Step(p, n)}} :
           /\ Measure(p, steps)
           /\ \/ IgnoreResult(p) \/ DropProcedure(p)
              \/ StoreSteps(p, steps, done) \/ StoreFails(p, steps)
    BY <1>1 DEF SubeventResult
  <2>2. steps \subseteq Steps
    BY <2>1, StepTypes
  <2>3. ended' \in BOOLEAN /\ ahead' \in BOOLEAN
    BY <1>1, Zenon DEF SubeventResult, Subevent
  <2>4. spoiled' \in BOOLEAN
    <3>1. spoiled' = spoiled \/ spoiled' = SpoiledByTaking(p)
      BY <2>1, Zenon DEF IgnoreResult, DropProcedure, StoreSteps, StoreFails
    <3>2. spoiled \in BOOLEAN /\ ended \in BOOLEAN
      BY DEF TypeOK
    <3> QED BY <3>1, <3>2, Zenon DEF SpoiledByTaking
  <2>5. /\ proc' \in Procedures /\ subevents' \in 0..MaxSubevents
        /\ outstanding' \in SUBSET Procedures /\ mode' = mode /\ fetching' = fetching
        /\ relinks' = relinks
    BY <1>1, BoundsAssumption DEF SubeventResult, Subevent, TypeOK
  <2>6. measured' \in SUBSET Steps
    BY <2>1, <2>2 DEF Measure, TypeOK
  <2>7. RangingCounter(p) \in 0..(RangingCounters - 1)
    BY RangingCounterType
  <2>8. /\ sem_local_steps' \in 0..1 /\ latest_local_steps' \in SUBSET Steps
        /\ most_recent_local_ranging_counter' \in 0..(RangingCounters - 1) \cup {None}
        /\ dropped_ranging_counter' \in Procedures \cup {None}
    <3>1. CASE IgnoreResult(p) \/ DropProcedure(p)
      BY <3>1 DEF IgnoreResult, DropProcedure, TypeOK
    <3>2. CASE StoreSteps(p, steps, done)
      BY <2>2, <2>7, <3>2 DEF StoreSteps, ResetAndGive, k_sem_give, SemTaken, TypeOK
    <3>3. CASE StoreFails(p, steps)
      BY <2>7, <3>3 DEF StoreFails, SemTaken, TypeOK
    <3> QED BY <2>1, <3>1, <3>2, <3>3
  <2> QED BY <2>3, <2>4, <2>5, <2>6, <2>8 DEF TypeOK
<1>2. ASSUME NEW p \in Procedures, RangingDataReady(p) PROVE TypeOK'
  <2>1. ended' \in BOOLEAN /\ ahead' \in BOOLEAN /\ spoiled' \in BOOLEAN
    BY <1>2, Zenon DEF RangingDataReady, Fetch, FetchFails, Spoils, TypeOK
  <2> QED BY <1>2, <2>1 DEF RangingDataReady, Fetch, FetchFails, ResetAndGive, k_sem_give, TypeOK
<1>3. ASSUME NEW p \in Procedures, RangingData(p) PROVE TypeOK'
  <2>1. ended' \in BOOLEAN /\ ahead' \in BOOLEAN /\ spoiled' \in BOOLEAN
    BY <1>3, Zenon DEF RangingData, Spoils, TypeOK
  <2> QED BY <1>3, <2>1
          DEF RangingData, Arrives, MatchEnds, MismatchEnds, ResetAndGive, k_sem_give, TypeOK
<1>4. ASSUME NEW p \in Procedures, RangingDataFails(p) PROVE TypeOK'
  <2>1. ended' \in BOOLEAN /\ ahead' \in BOOLEAN /\ spoiled' \in BOOLEAN
    BY <1>4, Zenon DEF RangingDataFails, TypeOK
  <2> QED BY <1>4, <2>1 DEF RangingDataFails, Arrives, TypeOK
<1>5. CASE NewLink
  <2>1. ended' \in BOOLEAN /\ ahead' \in BOOLEAN /\ spoiled' \in BOOLEAN
    BY <1>5, Zenon DEF NewLink
  <2>2. latest_local_steps' \in SUBSET Steps
    <3>1. \A s \in Steps : [s EXCEPT !.old = TRUE] \in Steps
      BY DEF Steps
    <3> QED BY <1>5, <3>1 DEF NewLink, TypeOK
  <2>3. ProcedureCounters - 1 \in Procedures /\ mode.relinks \in Nat
    BY CountersAssumption, BoundsAssumption DEF Procedures, TypeOK
  <2>4. relinks' \in 0..mode.relinks
    BY <1>5, <2>3 DEF NewLink, TypeOK
  <2> QED BY <1>5, <2>1, <2>2, <2>3, <2>4, BoundsAssumption DEF NewLink, TypeOK
<1>6. CASE PeerIsEarly
  <2>1. ended' \in BOOLEAN /\ ahead' \in BOOLEAN /\ spoiled' \in BOOLEAN
    BY <1>6, Zenon DEF PeerIsEarly, TypeOK
  <2> QED BY <1>6, <2>1 DEF PeerIsEarly, TypeOK
<1>7. CASE UNCHANGED vars
  BY <1>7 DEF TypeOK
<1> QED BY <1>1, <1>2, <1>3, <1>4, <1>5, <1>6, <1>7 DEF Next

----------------------------------------------------------------------------
(* What is waited for. *)

LEMMA WaitingInit == Init => WaitingInv
<1> SUFFICES ASSUME Init PROVE WaitingInv
  OBVIOUS
<1>1. Waiting = {}
  BY DEF Init, Waiting
<1>2. ended
  BY Zenon DEF Init
<1> QED BY <1>1, <1>2 DEF WaitingInv

(* The next procedure was not waited for, and all that are get one procedure older;
   those of the present one stay as they are. *)
LEMMA SubeventAges ==
    ASSUME TypeOK, WaitingInv, NEW p \in Procedures, NEW n \in 1..MaxSubevents,
           NEW done \in {"partial", "complete", "aborted"}, SubeventResult(p, n, done)
    PROVE  /\ ended => p \notin Waiting
           /\ Waiting' \subseteq Waiting \cup {p} /\ Waiting' \subseteq Procedures
           /\ \A q \in Waiting' : (p - q) % ProcedureCounters < mode.window
<1>1. \A q \in Waiting : q \in Procedures /\ Age(q) < mode.window
  BY DEF WaitingInv, Waiting, TypeOK
<1>2. mode.window \in Nat \ {0} /\ mode.window < ProcedureCounters
  BY Widths
<1>3. (p - p) % ProcedureCounters = 0
  BY CounterDistance, CountersAssumption DEF Procedures
<1>4. /\ ended => p \notin Waiting
      /\ \A q \in Waiting : (p - q) % ProcedureCounters < mode.window
  <2>1. CASE ended
    <3>1. p = (proc + 1) % ProcedureCounters /\ \A q \in Waiting : Age(q) + 1 < mode.window
      BY <2>1 DEF SubeventResult, Subevent
    <3>2. /\ Age(p) = ProcedureCounters - 1
          /\ \A q \in Procedures :
                (p - q) % ProcedureCounters = IF q = p THEN 0 ELSE Age(q) + 1
      BY <3>1, NextAges
    <3>3. p \notin Waiting
      BY <1>2, <3>1, <3>2, CountersAssumption
    <3>4. ASSUME NEW q \in Waiting PROVE (p - q) % ProcedureCounters < mode.window
      <4>1. q # p /\ q \in Procedures
        BY <1>1, <3>3
      <4>2. (p - q) % ProcedureCounters = Age(q) + 1
        BY <3>2, <4>1
      <4> QED BY <3>1, <4>2
    <3> QED BY <3>3, <3>4
  <2>2. CASE ~ended
    <3>1. p = proc
      BY <2>2 DEF SubeventResult, Subevent
    <3> QED BY <1>1, <2>2, <3>1 DEF Age
  <2> QED BY <2>1, <2>2
<1>5. Waiting' \subseteq Waiting \cup {p}
  <2>1. outstanding' \subseteq outstanding \cup {p} /\ fetching' = fetching
    BY DEF SubeventResult, Subevent
  <2> QED BY <2>1 DEF Waiting
<1> QED BY <1>1, <1>2, <1>3, <1>4, <1>5

LEMMA WaitingNext ==
    ASSUME TypeOK, WaitingInv, [Next]_vars
    PROVE  WaitingInv'
<1> USE DEF vars, bufferVars, counterVars, controllerVars
<1>1. ASSUME NEW p \in Procedures, NEW n \in 1..MaxSubevents,
             NEW done \in {"partial", "complete", "aborted"}, SubeventResult(p, n, done)
      PROVE  WaitingInv'
  <2>1. PICK steps \in {{}, {Step(p, n)}} :
           \/ IgnoreResult(p) \/ DropProcedure(p)
           \/ StoreSteps(p, steps, done) \/ StoreFails(p, steps)
    BY <1>1 DEF SubeventResult
  <2>2. \A q \in Waiting' : (p - q) % ProcedureCounters < mode.window
    BY <1>1, SubeventAges
  <2>3. proc' = p /\ mode' = mode
    BY <1>1 DEF SubeventResult, Subevent
  <2>4. Dropped(p)' \/ ~NewProcedure(p)'
    BY <2>1 DEF IgnoreResult, DropProcedure, StoreSteps, StoreFails, Dropped, NewProcedure
  <2>5. Dropped(proc)' \/ ~NewProcedure(proc)'
    BY <2>3, <2>4 DEF Dropped, NewProcedure
  <2> QED BY <2>2, <2>3, <2>5 DEF WaitingInv, Age
<1>2. ASSUME NEW p \in Procedures, RangingDataReady(p) \/ RangingData(p) \/ RangingDataFails(p)
      PROVE  WaitingInv'
  <2>1. /\ UNCHANGED <<mode, proc, ended, dropped_ranging_counter,
                       most_recent_local_ranging_counter>>
        /\ Waiting' \subseteq Waiting
    BY <1>2 DEF RangingDataReady, RangingData, RangingDataFails, Arrives, Due, Oldest, Fetch,
       FetchFails, Waiting
  <2> QED BY <2>1 DEF WaitingInv, Age, Dropped, NewProcedure
<1>3. CASE PeerIsEarly
  <2>1. /\ UNCHANGED <<mode, proc, ended, dropped_ranging_counter,
                       most_recent_local_ranging_counter>>
        /\ Waiting' = Waiting \cup {proc}
    BY <1>3 DEF PeerIsEarly, Waiting
  <2>2. Age(proc) = 0 /\ mode.window \in Nat \ {0}
    BY Ages, Widths
  <2>3. Age(proc) < mode.window
    BY <2>2
  <2> QED BY <2>1, <2>3 DEF WaitingInv, Age, Dropped, NewProcedure
<1>4. CASE NewLink
  <2>1. ended' /\ Waiting' = {}
    BY <1>4 DEF NewLink, Waiting
  <2> QED BY <2>1 DEF WaitingInv
<1>5. CASE UNCHANGED vars
  BY <1>5 DEF WaitingInv, Waiting, Age, Dropped, NewProcedure
<1> QED BY <1>1, <1>2, <1>3, <1>4, <1>5 DEF Next

----------------------------------------------------------------------------
(* The buffer. *)

LEMMA BufferInit == Init => BufferInv
<1> SUFFICES ASSUME Init PROVE BufferInv
  OBVIOUS
<1>1. /\ latest_local_steps = {} /\ Waiting = {} /\ dropped_ranging_counter = None
  BY DEF Init, Waiting
<1>2. ended
  BY Zenon DEF Init
<1> QED BY <1>1, <1>2 DEF BufferInv, FreeInv, CurrentInv, ReportInv

(* The steps of an earlier procedure that is waited for are kept, and those of the
   present one collected. *)
LEMMA MeasuredSteps ==
    ASSUME TypeOK, WaitingInv, NEW p \in Procedures, NEW n \in 1..MaxSubevents,
           NEW done \in {"partial", "complete", "aborted"}, SubeventResult(p, n, done),
           NEW steps \in {{}, {Step(p, n)}}, Measure(p, steps)
    PROVE  /\ StepsOf(p)' = (IF ended THEN {} ELSE StepsOf(p)) \cup steps
           /\ \A q \in Waiting \ {p} : StepsOf(q)' = StepsOf(q)
<1>1. ended => p \notin Waiting
  BY SubeventAges
<1>2. \A s \in steps : s.proc = p
  BY DEF Step
<1>3. measured' = {s \in measured : s.proc \in Waiting \/ (s.proc = p /\ ~ended)} \cup steps
  BY DEF Measure
<1>4. StepsOf(p)' = (IF ended THEN {} ELSE StepsOf(p)) \cup steps
  BY <1>1, <1>2, <1>3 DEF StepsOf
<1>5. ASSUME NEW q \in Waiting \ {p} PROVE StepsOf(q)' = StepsOf(q)
  BY <1>2, <1>3 DEF StepsOf
<1> QED BY <1>4, <1>5

(* A procedure that takes the empty buffer, or goes on with its own, is alone in
   it, and known by its counter. *)
LEMMA StoreKeeps ==
    ASSUME TypeOK, WaitingInv, NEW p \in Procedures, NEW n \in 1..MaxSubevents,
           NEW done \in {"partial", "complete", "aborted"}, SubeventResult(p, n, done),
           NEW steps \in {{}, {Step(p, n)}}, Measure(p, steps),
           StoreSteps(p, steps, done) \/ StoreFails(p, steps),
           SemTaken(p) = 0,
           latest_local_steps = IF ended THEN {} ELSE StepsOf(p)
    PROVE  BufferInv'
<1>1. /\ proc' = p /\ most_recent_local_ranging_counter' = RangingCounter(p)
      /\ dropped_ranging_counter' \in {None, p}
  BY DEF SubeventResult, Subevent, StoreSteps, StoreFails
<1>2. ended' <=> done # "partial"
  BY Zenon DEF SubeventResult, Subevent
<1>3. StepsOf(p)' = latest_local_steps \cup steps
  <2>1. StepsOf(p)' = (IF ended THEN {} ELSE StepsOf(p)) \cup steps
    BY MeasuredSteps
  <2> QED BY <2>1
<1>4. ASSUME NEW q \in Waiting', RangingCounter(q) = RangingCounter(p) PROVE q = p
  <2>1. q \in Procedures /\ (p - q) % ProcedureCounters < mode.window
    BY SubeventAges
  <2>2. (p - q) % ProcedureCounters \in Int
    BY <2>1, CountersAssumption, ModDef DEF Procedures
  <2>3. (p - q) % ProcedureCounters < RangingCounters
    BY <2>1, <2>2, Widths
  <2> QED BY <1>4, <2>1, <2>3, SameCounter
<1>5. \/ /\ sem_local_steps' = 0 /\ latest_local_steps' = StepsOf(p)'
         /\ dropped_ranging_counter' = None
      \/ /\ latest_local_steps' = {} /\ done = "aborted"
      \/ /\ sem_local_steps' = 0 /\ latest_local_steps' = {} /\ dropped_ranging_counter' = p
  BY <1>3 DEF StoreSteps, StoreFails, ResetAndGive
<1>6. p # None
  BY DEF Procedures, None
<1>7. FreeInv'
  BY <1>5 DEF FreeInv
<1>8. CurrentInv'
  BY <1>1, <1>2, <1>5, <1>6 DEF CurrentInv, Dropped
<1>9. ReportInv'
  <2> SUFFICES ASSUME NEW q \in Waiting', ~NewProcedure(q)'
               PROVE  latest_local_steps' \in {{}, StepsOf(q)'}
    BY DEF ReportInv
  <2>1. RangingCounter(q) = RangingCounter(p)
    BY <1>1 DEF NewProcedure, RangingCounter
  <2>2. q = p
    BY <1>4, <2>1
  <2> QED BY <1>5, <2>2
<1> QED BY <1>7, <1>8, <1>9 DEF BufferInv

(* A procedure that finds the buffer taken is dropped, and the buffer stays as it
   is; so it does for the further results of a procedure that was dropped. *)
LEMMA DropKeeps ==
    ASSUME TypeOK, WaitingInv, BufferInv, NEW p \in Procedures, NEW n \in 1..MaxSubevents,
           NEW done \in {"partial", "complete", "aborted"}, SubeventResult(p, n, done),
           NEW steps \in {{}, {Step(p, n)}}, Measure(p, steps),
           DropProcedure(p) \/ IgnoreResult(p)
    PROVE  BufferInv'
<1>1. /\ proc' = p /\ dropped_ranging_counter' = p
      /\ UNCHANGED <<sem_local_steps, latest_local_steps, most_recent_local_ranging_counter>>
  BY DEF SubeventResult, Subevent, DropProcedure, IgnoreResult, Dropped, bufferVars, counterVars
<1>2. ~NewProcedure(p) => latest_local_steps = {}
  <2>1. CASE DropProcedure(p)
    BY <2>1 DEF DropProcedure, NoBuffer
  <2>2. CASE IgnoreResult(p)
    <3>1. dropped_ranging_counter = p /\ p # None
      BY <2>2 DEF IgnoreResult, Dropped, Procedures, None
    <3>2. proc = p
      BY <3>1 DEF BufferInv, CurrentInv
    <3>3. ~ended
      <4>1. ended => p = (proc + 1) % ProcedureCounters
        BY DEF SubeventResult, Subevent
      <4> QED BY <3>2, <4>1, NextAges
    <3> QED BY <3>1, <3>2, <3>3 DEF BufferInv, CurrentInv, Dropped
  <2> QED BY <2>1, <2>2
<1>3. Waiting' \subseteq Waiting \cup {p}
  BY SubeventAges
<1>4. \A q \in Waiting \ {p} : StepsOf(q)' = StepsOf(q)
  BY MeasuredSteps
<1>5. \A q \in Waiting' : NewProcedure(q)' <=> NewProcedure(q)
  BY <1>1 DEF NewProcedure, RangingCounter
<1>6. NewProcedure(p)' <=> NewProcedure(p)
  BY <1>1 DEF NewProcedure, RangingCounter
<1>7. FreeInv'
  BY <1>1 DEF BufferInv, FreeInv
<1>8. CurrentInv'
  <2>1. NewProcedure(proc)' <=> NewProcedure(p)
    BY <1>1 DEF NewProcedure, RangingCounter
  <2> QED BY <1>1, <1>2, <2>1 DEF CurrentInv, Dropped
<1>9. ReportInv'
  <2> SUFFICES ASSUME NEW q \in Waiting', ~NewProcedure(q)'
               PROVE  latest_local_steps' \in {{}, StepsOf(q)'}
    BY DEF ReportInv
  <2>1. CASE q = p
    BY <1>1, <1>2, <1>6, <2>1
  <2>2. CASE q # p
    <3>1. q \in Waiting \ {p} /\ ~NewProcedure(q)
      BY <1>3, <1>5, <2>2
    <3> QED BY <1>1, <1>4, <3>1 DEF BufferInv, ReportInv
  <2> QED BY <2>1, <2>2
<1> QED BY <1>7, <1>8, <1>9 DEF BufferInv

(* subevent_result_cb(): a procedure that stores its steps has just taken the empty
   buffer, or has it already. *)
LEMMA SubeventKeeps ==
    ASSUME TypeOK, WaitingInv, ~spoiled => BufferInv, ~spoiled',
           NEW p \in Procedures, NEW n \in 1..MaxSubevents,
           NEW done \in {"partial", "complete", "aborted"}, SubeventResult(p, n, done)
    PROVE  BufferInv'
<1>1. PICK steps \in {{}, {Step(p, n)}} :
         /\ Measure(p, steps)
         /\ \/ IgnoreResult(p) \/ DropProcedure(p)
            \/ StoreSteps(p, steps, done) \/ StoreFails(p, steps)
  BY DEF SubeventResult
<1>2. CASE IgnoreResult(p) \/ DropProcedure(p)
  <2>1. ~spoiled
    BY <1>2, Zenon DEF IgnoreResult, DropProcedure
  <2> QED BY <1>1, <1>2, <2>1, DropKeeps
<1>3. CASE StoreSteps(p, steps, done) \/ StoreFails(p, steps)
  <2>1. ~Dropped(p) /\ (NewProcedure(p) => sem_local_steps = 1)
    BY <1>3 DEF StoreSteps, StoreFails, NoBuffer, TypeOK
  <2>2. ~SpoiledByTaking(p)
    BY <1>3, Zenon DEF StoreSteps, StoreFails
  <2>3. IF ended THEN p = (proc + 1) % ProcedureCounters ELSE p = proc
    BY DEF SubeventResult, Subevent
  <2>4. CASE NewProcedure(p)
    <3>1. ended
      BY <2>1, <2>3, <2>4 DEF WaitingInv
    <3>2. latest_local_steps = {}
      <4>1. ~spoiled \/ latest_local_steps = {}
        BY <2>2, <2>4, Zenon DEF SpoiledByTaking
      <4> QED BY <2>1, <2>4, <4>1 DEF BufferInv, FreeInv
    <3>3. SemTaken(p) = 0
      BY <2>4 DEF SemTaken
    <3> QED BY <1>1, <1>3, <3>1, <3>2, <3>3, StoreKeeps
  <2>5. CASE ~NewProcedure(p)
    <3>1. ~spoiled /\ ~ended
      BY <2>2, <2>5, Zenon DEF SpoiledByTaking
    <3>2. sem_local_steps = 0 /\ latest_local_steps = StepsOf(p)
      BY <2>1, <2>3, <3>1 DEF BufferInv, CurrentInv
    <3>3. SemTaken(p) = 0
      BY <2>5, <3>2 DEF SemTaken
    <3> QED BY <1>1, <1>3, <3>1, <3>2, <3>3, StoreKeeps
  <2> QED BY <2>4, <2>5
<1> QED BY <1>1, <1>2, <1>3

(* The buffer is given back when the peer's data come or cannot be fetched: not in
   the middle of the procedure that holds it, or it is spoiled. *)
LEMMA ReleaseKeeps ==
    ASSUME BufferInv, ResetAndGive, ~SpoiledByReset, UNCHANGED <<counterVars, controllerVars>>
    PROVE  BufferInv'
<1> USE DEF counterVars, controllerVars
<1>1. latest_local_steps' = {}
  BY DEF ResetAndGive
<1>2. ended' \/ Dropped(proc)'
  <2>1. ended \/ dropped_ranging_counter = proc
    BY DEF SpoiledByReset
  <2> QED BY <2>1 DEF Dropped
<1>3. CurrentInv'
  BY <1>1, <1>2 DEF BufferInv, CurrentInv
<1> QED BY <1>1, <1>3 DEF BufferInv, FreeInv, ReportInv

(* What leaves the buffer alone and asks for nothing new. *)
LEMMA NothingKeeps ==
    ASSUME BufferInv, UNCHANGED <<bufferVars, counterVars, controllerVars>>,
           Waiting' \subseteq Waiting
    PROVE  BufferInv'
<1> USE DEF bufferVars, counterVars, controllerVars
<1>1. ReportInv'
  <2> SUFFICES ASSUME NEW q \in Waiting', ~NewProcedure(q)'
               PROVE  latest_local_steps' \in {{}, StepsOf(q)'}
    BY DEF ReportInv
  <2>1. q \in Waiting /\ ~NewProcedure(q) /\ StepsOf(q)' = StepsOf(q)
    BY DEF NewProcedure, RangingCounter, StepsOf
  <2> QED BY <2>1 DEF BufferInv, ReportInv
<1>2. FreeInv'
  BY DEF BufferInv, FreeInv
<1>3. CurrentInv'
  BY DEF BufferInv, CurrentInv, Dropped, NewProcedure, RangingCounter, StepsOf
<1> QED BY <1>1, <1>2, <1>3 DEF BufferInv

(* ranging_data_ready_cb() and ranging_data_cb() *)
LEMMA DataKeeps ==
    ASSUME TypeOK, ~spoiled => BufferInv, ~spoiled', NEW p \in Procedures,
           RangingDataReady(p) \/ RangingData(p) \/ RangingDataFails(p)
    PROVE  BufferInv'
<1>1. \/ ResetAndGive /\ Spoils(SpoiledByReset)
      \/ UNCHANGED <<bufferVars, spoiled>> /\ Waiting' \subseteq Waiting
  <2>1. CASE RangingDataReady(p)
    <3>1. \/ FetchFails
          \/ /\ UNCHANGED <<bufferVars, spoiled>> /\ fetching' \in {fetching, p}
             /\ p \in outstanding /\ outstanding' \subseteq outstanding
      BY <2>1 DEF RangingDataReady, Fetch, Oldest
    <3> QED BY <3>1 DEF FetchFails, Waiting
  <2>2. CASE RangingData(p)
    BY <2>2 DEF RangingData, MatchEnds, MismatchEnds
  <2>3. CASE RangingDataFails(p)
    BY <2>3 DEF RangingDataFails, Arrives, Due, Oldest, Waiting
  <2> QED BY <2>1, <2>2, <2>3
<1>2. UNCHANGED <<counterVars, controllerVars>>
  BY DEF RangingDataReady, RangingData, RangingDataFails
<1>3. CASE ResetAndGive /\ Spoils(SpoiledByReset)
  <2>1. ~spoiled /\ ~SpoiledByReset
    BY <1>3, Zenon DEF Spoils
  <2> QED BY <1>2, <1>3, <2>1, ReleaseKeeps
<1>4. CASE UNCHANGED <<bufferVars, spoiled>> /\ Waiting' \subseteq Waiting
  <2>1. ~spoiled
    BY <1>4, Zenon
  <2> QED BY <1>2, <1>4, <2>1, NothingKeeps
<1> QED BY <1>1, <1>3, <1>4

(* The peer is early: the buffer has the steps of that procedure so far. *)
LEMMA EarlyKeeps ==
    ASSUME TypeOK, WaitingInv, BufferInv, PeerIsEarly
    PROVE  BufferInv'
<1> USE DEF bufferVars, counterVars, controllerVars
<1>1. ~ended /\ Waiting' = Waiting \cup {proc}
      /\ UNCHANGED <<bufferVars, counterVars, controllerVars>>
  BY DEF PeerIsEarly, Waiting
<1>2. ~NewProcedure(proc) => latest_local_steps \in {{}, StepsOf(proc)}
  BY <1>1 DEF BufferInv, CurrentInv
<1>3. ReportInv'
  <2> SUFFICES ASSUME NEW q \in Waiting', ~NewProcedure(q)'
               PROVE  latest_local_steps' \in {{}, StepsOf(q)'}
    BY DEF ReportInv
  <2>1. q \in Waiting \cup {proc} /\ ~NewProcedure(q) /\ StepsOf(q)' = StepsOf(q)
    BY <1>1 DEF NewProcedure, RangingCounter, StepsOf
  <2> QED BY <1>1, <1>2, <2>1 DEF BufferInv, ReportInv
<1>4. FreeInv'
  BY <1>1 DEF BufferInv, FreeInv
<1>5. CurrentInv'
  BY <1>1 DEF BufferInv, CurrentInv, Dropped, NewProcedure, RangingCounter, StepsOf
<1> QED BY <1>3, <1>4, <1>5 DEF BufferInv

LEMMA BufferNext ==
    ASSUME RangingInv, ~spoiled', [Next]_vars
    PROVE  BufferInv'
<1> USE DEF RangingInv
<1>1. ASSUME NEW p \in Procedures, NEW n \in 1..MaxSubevents,
             NEW done \in {"partial", "complete", "aborted"}, SubeventResult(p, n, done)
      PROVE  BufferInv'
  BY <1>1, SubeventKeeps
<1>2. ASSUME NEW p \in Procedures, RangingDataReady(p) \/ RangingData(p) \/ RangingDataFails(p)
      PROVE  BufferInv'
  BY <1>2, DataKeeps
<1>3. CASE PeerIsEarly
  <2>1. ~spoiled
    BY <1>3, Zenon DEF PeerIsEarly
  <2> QED BY <1>3, <2>1, EarlyKeeps
<1>4. CASE NewLink
  <2>1. spoiled'
    BY <1>4, Zenon DEF NewLink
  <2> QED BY <2>1
<1>5. CASE UNCHANGED vars
  <2>1. ~spoiled
    BY <1>5, Zenon DEF vars
  <2>2. Waiting' \subseteq Waiting
    BY <1>5 DEF vars, Waiting
  <2> QED BY <1>5, <2>1, <2>2, NothingKeeps DEF vars
<1> QED BY <1>1, <1>2, <1>3, <1>4, <1>5 DEF Next

LEMMA RangingInvariant == Spec => []RangingInv
<1>1. Init => RangingInv
  BY TypeInit, WaitingInit, BufferInit DEF RangingInv
<1>2. RangingInv /\ [Next]_vars => RangingInv'
  <2> SUFFICES ASSUME RangingInv, [Next]_vars PROVE RangingInv'
    OBVIOUS
  <2>1. TypeOK' /\ WaitingInv'
    BY TypeNext, WaitingNext DEF RangingInv
  <2>2. ~spoiled' => BufferInv'
    BY BufferNext
  <2> QED BY <2>1, <2>2 DEF RangingInv
<1> QED BY <1>1, <1>2, PTL DEF Spec

(* Local steps and the peer's data that are parsed together are of one procedure,
   complete, and a free buffer is empty, unless a new link, a reset in the middle of
   a procedure or a counter that came round has spoiled the buffer since it was last
   taken empty: for counters of any width, buffers of any size and any number of
   subevents, whichever data the peer reports, early, late or not at all. *)
THEOREM PairedStepsCorrect == Spec => []PairedSteps
<1>1. RangingInv => PairedSteps
  <2> SUFFICES ASSUME RangingInv PROVE PairedSteps
    OBVIOUS
  <2>1. FreeBufferIsEmpty
    BY DEF RangingInv, BufferInv, FreeInv, FreeBufferIsEmpty
  <2>2. ASSUME NEW p \in Procedures, Parsed(p), ~spoiled
        PROVE  latest_local_steps = {s \in measured : s.proc = p}
    <3>1. p \in Waiting /\ ~NewProcedure(p) /\ latest_local_steps # {}
      BY <2>2 DEF Parsed, Due, Oldest, Matches, Waiting, NewProcedure, Procedures, None
    <3> QED BY <2>2, <3>1 DEF RangingInv, BufferInv, ReportInv, StepsOf
  <2> QED BY <2>1, <2>2 DEF PairedSteps
<1> QED BY <1>1, RangingInvariant, PTL

(* The semaphore never exceeds its limit, the buffer holds steps only, and the
   counters keep their widths, however the peer is set up. *)
THEOREM RangingTypeCorrect == Spec => []TypeOK
  BY TypeInit, TypeNext, PTL DEF Spec

=============================================================================
