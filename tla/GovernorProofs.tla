--------------------------- MODULE GovernorProofs ---------------------------
(***************************************************************************)
(* Proofs about module Governor, for every set of workers, every limit and *)
(* every provider.  The rate bound needs to know that permits are handed   *)
(* out at refills only (Metered); the opening, that what was handed out    *)
(* and what is left fit in the inflow (Frugal); the storm, that every 429  *)
(* counted is inside the window (Windowed); the floor, that the forgotten  *)
(* floor is in the past (Floored); the slots, when the next restoration    *)
(* was scheduled (Scheduled).                                              *)
(***************************************************************************)
EXTENDS Governor, TLAPS

LEMMA MinuteFact == Minute \in Nat /\ Minute = 2 * HalfMinute /\ Minute > 0
  BY ClockAssumption DEF Minute

LEMMA HalfFact == Half \in 0 .. Parallel - 1
  BY WorkersAssumption DEF Half

(* Products of naturals are naturals, and distribute over a difference.    *)
LEMMA Product == ASSUME NEW a \in Nat, NEW b \in Nat PROVE a * b \in Nat
  OBVIOUS

LEMMA Split == ASSUME NEW r \in Nat, NEW a \in Int, NEW b \in Int, NEW c \in Int
               PROVE  r * (c - b) + r * (b - a) = r * (c - a)
  OBVIOUS

LEMMA OneMore == ASSUME NEW m \in Nat, NEW p \in Int
                 PROVE  (p + 1) * m = p * m + m
  OBVIOUS

(* What a refill leaves in the bucket is at most its capacity and at most  *)
(* what flowed in on top of what was there.                                *)
LEMMA RefilledFact ==
  ASSUME TypeClock, TypeBucket
  PROVE  /\ Refilled \in 0 .. MaxRpm * Minute
         /\ Refilled <= rpm_tokens + MaxRpm * (now - rpm_last_refill)
         /\ Refilled <= MaxRpm * Minute
<1>1. MaxRpm * Minute \in Nat
  BY MinuteFact, LimitAssumption, Product
<1>2. now - rpm_last_refill \in Nat
  BY ClockAssumption DEF TypeClock
<1>3. MaxRpm * (now - rpm_last_refill) \in Nat
  BY <1>2, LimitAssumption, Product
<1> DEFINE full == rpm_tokens + MaxRpm * (now - rpm_last_refill)
           cap == MaxRpm * Minute
<1>4. full \in Nat
  BY <1>1, <1>3 DEF TypeBucket
<1> HIDE DEF full, cap
<1>5. Refilled = IF full <= cap THEN full ELSE cap
  BY DEF Refilled, full, cap
<1>6. cap \in Nat
  BY <1>1 DEF cap
<1>7. Refilled \in 0 .. cap /\ Refilled <= full /\ Refilled <= cap
  BY <1>4, <1>5, <1>6
<1> QED
  BY <1>7 DEF full, cap

LEMMA CeilFact ==
  ASSUME NEW a \in Nat, NEW b \in Nat, b > 0
  PROVE  CeilDiv(a, b) \in Nat
  BY DEF CeilDiv

LEMMA FirstTokensFact == FirstTokens \in 0 .. MaxRpm * Minute
<1>1. CASE MaxRpm = 0
  BY <1>1, MinuteFact DEF FirstTokens
<1>2. CASE MaxRpm > 0
  <2>1. MaxRpm * Minute >= Minute
    BY <1>2, MinuteFact, LimitAssumption
  <2> QED
    BY <1>2, <2>1, MinuteFact, LimitAssumption, Product DEF FirstTokens
<1> QED
  BY <1>1, <1>2, LimitAssumption

----------------------------------------------------------------------------
(* Types                                                                   *)

LEMMA TypeInit == Init => TypeOK
<1> SUFFICES ASSUME Init PROVE TypeOK
  OBVIOUS
<1>1. TypeClock
  BY ClockAssumption DEF Init, TypeClock
<1>2. TypeBucket
  BY FirstTokensFact DEF Init, TypeBucket
<1>3. TypeFloor
  BY DEF Init, TypeFloor
<1>4. TypeAimd
  BY WorkersAssumption DEF Init, TypeAimd, None
<1>5. TypeWorkers
  <2>1. At("out", 0) \in [at : Places, timer : Nat]
    BY DEF At, Places
  <2>2. worker = [w \in Workers |-> At("out", 0)]
    BY DEF Init
  <2>3. worker \in [Workers -> [at : Places, timer : Nat]]
    BY <2>1, <2>2
  <2>4. cancelled = FALSE /\ reports = 0
    BY DEF Init
  <2>5. reports \in 0 .. MaxReports
    BY <2>4, LimitAssumption
  <2> QED
    BY <2>3, <2>4, <2>5 DEF TypeWorkers
<1> QED
  BY <1>1, <1>2, <1>3, <1>4, <1>5 DEF TypeOK

(* Moving a worker keeps the table of workers well formed.                 *)
LEMMA MoveType ==
  ASSUME TypeWorkers, NEW w \in Workers, NEW place \in Places, NEW timer \in Nat,
         Move(w, place, timer)
  PROVE  worker' \in [Workers -> [at : Places, timer : Nat]]
  BY DEF TypeWorkers, Move, At

(* Every step of a worker keeps what it does not touch; one lemma for the  *)
(* acquisition, one for the reports.                                       *)
LEMMA TypeAcquire ==
  ASSUME TypeOK, NEW w \in Workers, Ask(w) \/ Acquire(w)
  PROVE  TypeOK'
<1> USE DEF TypeOK
<1>m. /\ "asking" \in Places /\ "refused" \in Places /\ "running" \in Places
      /\ "sleeping" \in Places /\ "delayed" \in Places /\ "permitted" \in Places
  BY DEF Places
<1>t. now \in Nat /\ worker[w].timer \in Nat
  BY ClockAssumption DEF TypeClock, TypeWorkers
<1>1. CASE Ask(w) \/ RefuseEarly(w) \/ Wake(w) \/ CancelSleep(w)
  <2>1. worker' \in [Workers -> [at : Places, timer : Nat]]
    BY <1>1, <1>m, MoveType DEF Ask, RefuseEarly, Wake, CancelSleep
  <2>2. UNCHANGED <<now, bucketVars, floorVars, aimdVars, cancelled, reports>>
    BY <1>1 DEF Ask, RefuseEarly, Wake, CancelSleep
  <2> QED
    BY <2>1, <2>2 DEF TypeClock, TypeBucket, TypeFloor, TypeAimd, TypeWorkers,
                      bucketVars, floorVars, aimdVars
<1>2. CASE Settle(w)
  <2>1. worker' \in [Workers -> [at : Places, timer : Nat]]
    BY <1>2, <1>m, <1>t, MoveType, LimitAssumption DEF Settle
  <2>2. UNCHANGED <<now, bucketVars, floorVars, aimdVars, cancelled, reports>>
    BY <1>2 DEF Settle
  <2> QED
    BY <2>1, <2>2 DEF TypeClock, TypeBucket, TypeFloor, TypeAimd, TypeWorkers,
                      bucketVars, floorVars, aimdVars
<1>3. CASE Check(w)
  <2>1. Refilled \in 0 .. MaxRpm * Minute
    BY RefilledFact
  <2>2. worker' \in [Workers -> [at : Places, timer : Nat]]
    <3>1. CASE CheckFloor(w)
      <4>1. retry_after_until - now \in Nat
        BY <3>1, <1>t DEF CheckFloor, FloorAhead, TypeFloor, None
      <4> QED
        BY <3>1, <4>1, <1>m, MoveType DEF CheckFloor
    <3>2. CASE CheckBucket(w)
      <4>1. Minute - Refilled \in Nat /\ MaxRpm > 0
        BY <3>2, <2>1, MinuteFact DEF CheckBucket, Dry
      <4>2. CeilDiv(Minute - Refilled, MaxRpm) \in Nat
        BY <4>1, CeilFact, LimitAssumption
      <4> QED
        BY <3>2, <4>2, <1>m, MoveType DEF CheckBucket
    <3>3. CASE Consume(w)
      BY <3>3, <1>m, MoveType DEF Consume
    <3> QED
      BY <1>3, <3>1, <3>2, <3>3 DEF Check
  <2>3. rpm_tokens' \in 0 .. MaxRpm * Minute
    <3>1. CASE CheckFloor(w) \/ CheckBucket(w)
      BY <3>1, <2>1 DEF CheckFloor, CheckBucket
    <3>2. CASE Consume(w)
      <4>1. MaxRpm * Minute \in Nat
        BY MinuteFact, LimitAssumption, Product
      <4> QED
        BY <3>2, <2>1, <4>1, MinuteFact, LimitAssumption DEF Consume, Dry
    <3> QED
      BY <1>3, <3>1, <3>2 DEF Check
  <2>4. permits' \in [0 .. Horizon -> Nat]
    BY <1>3 DEF Check, CheckFloor, CheckBucket, Consume, TypeBucket, TypeClock
  <2>5. retry_after_until' \in Nat \cup {None}
    BY <1>3 DEF Check, CheckFloor, CheckBucket, Consume, TypeFloor
  <2>6. UNCHANGED <<now, aimdVars, cancelled, floor_asked, reports>>
    BY <1>3 DEF Check
  <2>7. rpm_last_refill' = now
    BY <1>3 DEF Check
  <2>8. TypeClock'
    BY <2>6, <2>7 DEF TypeClock, aimdVars
  <2>9. TypeBucket' /\ TypeFloor'
    BY <2>3, <2>4, <2>5, <2>6 DEF TypeBucket, TypeFloor
  <2>10. TypeAimd' /\ TypeWorkers'
    BY <2>2, <2>6 DEF TypeAimd, TypeWorkers, aimdVars
  <2> QED
    BY <2>8, <2>9, <2>10
<1> QED
  BY <1>1, <1>2, <1>3 DEF Acquire

LEMMA BareType ==
  ASSUME TypeClock, TypeAimd
  PROVE  LastBare \in Seq(0 .. Horizon)
<1> DEFINE all == Append(bare, now)
<1>1. all \in Seq(0 .. Horizon) /\ Len(all) > 0
  BY DEF TypeClock, TypeAimd
<1> HIDE DEF all
<1>2. all # <<>>
  BY <1>1
<1>3. Tail(all) \in Seq(0 .. Horizon)
  BY <1>1, <1>2
<1> QED
  BY <1>1, <1>3 DEF LastBare, all

LEMMA TypeAttempt ==
  ASSUME TypeOK, NEW w \in Workers, Attempt(w)
  PROVE  TypeOK'
<1> USE DEF TypeOK
<1>m. "out" \in Places /\ "running" \in Places
  BY DEF Places
<1>t. now \in Nat /\ worker[w].timer \in Nat
  BY ClockAssumption DEF TypeClock, TypeWorkers
<1>1. CASE Finish(w)
  <2>1. worker' \in [Workers -> [at : Places, timer : Nat]]
    BY <1>1, <1>m, <1>t, MoveType DEF Finish
  <2>2. UNCHANGED <<now, bucketVars, floorVars, aimdVars, cancelled, reports>>
    BY <1>1 DEF Finish
  <2> QED
    BY <2>1, <2>2 DEF TypeClock, TypeBucket, TypeFloor, TypeAimd, TypeWorkers,
                            bucketVars, floorVars, aimdVars
<1>2. ASSUME NEW secs \in RetryAfters, ReportRetryAfter(w, secs) PROVE TypeOK'
  <2>0. secs \in Nat
    BY ClockAssumption
  <2>1. worker' \in [Workers -> [at : Places, timer : Nat]]
    BY <1>2, <1>m, MoveType DEF ReportRetryAfter
  <2>2. TypeClock'
    BY <1>2, <1>t DEF ReportRetryAfter, TypeClock, bucketVars
  <2>3. TypeFloor'
    BY <1>2, <1>t, <2>0 DEF ReportRetryAfter, TypeFloor, Floor
  <2>4. TypeBucket' /\ TypeWorkers'
    BY <1>2, <2>1, LimitAssumption DEF ReportRetryAfter, TypeBucket, TypeWorkers, bucketVars
  <2>5. TypeAimd'
    BY <1>2 DEF ReportRetryAfter, TypeAimd
  <2> QED
    BY <2>2, <2>3, <2>4, <2>5
<1>3. CASE ReportBare(w)
  <2>1. worker' \in [Workers -> [at : Places, timer : Nat]]
    BY <1>3, <1>m, MoveType DEF ReportBare
  <2>2. TypeClock'
    BY <1>3, <1>t DEF ReportBare, TypeClock, bucketVars
  <2>3. TypeBucket' /\ TypeFloor' /\ TypeWorkers'
    BY <1>3, <2>1, LimitAssumption
       DEF ReportBare, TypeBucket, TypeFloor, TypeWorkers, bucketVars, floorVars
  <2>4. TypeAimd'
    <3>1. bare' \in Seq(0 .. Horizon)
      <4>1. LastBare \in Seq(0 .. Horizon) /\ <<>> \in Seq(0 .. Horizon)
        BY BareType
      <4>2. bare' = <<>> \/ bare' = LastBare
        BY <1>3 DEF ReportBare
      <4> QED
        BY <4>1, <4>2
    <3>2. consecutive_no_ra_429s' \in Nat
      BY <1>3 DEF ReportBare, Counted, TypeAimd
    <3>3. CASE Storm
      <4>1. FirstRestore \in Nat
        BY <1>t, MinuteFact, ClockAssumption DEF FirstRestore
      <4>2. /\ suppressed_slots' = Half
            /\ next_slot_restoration' = FirstRestore
        BY <1>3, <3>3 DEF ReportBare
      <4>3. FirstRestore # None
        BY <4>1 DEF None
      <4> QED
        BY <3>1, <3>2, <4>1, <4>2, <4>3, HalfFact DEF TypeAimd
    <3>4. CASE ~Storm
      BY <1>3, <3>1, <3>2, <3>4 DEF ReportBare, TypeAimd
    <3> QED
      BY <3>3, <3>4
  <2> QED
    BY <2>2, <2>3, <2>4
<1> QED
  BY <1>1, <1>2, <1>3 DEF Attempt

LEMMA TypeStep == TypeOK /\ [Next]_vars => TypeOK'
<1> SUFFICES ASSUME TypeOK, [Next]_vars PROVE TypeOK'
  OBVIOUS
<1>1. CASE \E w \in Workers : Ask(w) \/ Acquire(w) \/ Attempt(w)
  BY <1>1, TypeAcquire, TypeAttempt
<1>2. CASE TickAimd
  <2>1. TypeClock' /\ TypeBucket' /\ TypeFloor' /\ TypeWorkers'
    BY <1>2 DEF TickAimd, TypeOK, TypeClock, TypeBucket, TypeFloor, TypeWorkers,
                bucketVars, floorVars
  <2>2. TypeAimd'
    <3>1. now + HalfMinute \in Nat /\ now + HalfMinute # None
      BY ClockAssumption DEF TypeOK, TypeClock, None
    <3> QED
      BY <1>2, <3>1, WorkersAssumption DEF TickAimd, TypeOK, TypeAimd
  <2> QED
    BY <2>1, <2>2 DEF TypeOK
<1>3. CASE Cancel \/ Over \/ UNCHANGED vars
  BY <1>3 DEF Cancel, Over, vars, TypeOK, TypeClock, TypeBucket, TypeFloor, TypeAimd,
              TypeWorkers, bucketVars, floorVars, aimdVars
<1>4. CASE Pass
  <2>1. TypeClock'
    BY <1>4, ClockAssumption DEF Pass, TypeOK, TypeClock, aimdVars
  <2>2. TypeBucket'
    BY <1>4, ClockAssumption DEF Pass, TypeOK, TypeClock, TypeBucket
  <2>3. TypeFloor' /\ TypeAimd' /\ TypeWorkers'
    BY <1>4 DEF Pass, TypeOK, TypeFloor, TypeAimd, TypeWorkers, floorVars, aimdVars
  <2> QED
    BY <2>1, <2>2, <2>3 DEF TypeOK
<1> QED
  BY <1>1, <1>2, <1>3, <1>4 DEF Next

(* The governor's state always has its shape: in particular the bucket is  *)
(* never overdrawn and the dispatcher always has a slot left.              *)
THEOREM TypeCorrect == Spec => []TypeOK
  BY TypeInit, TypeStep, PTL DEF Spec

----------------------------------------------------------------------------
(* The bucket                                                              *)

(* Handed out after instant t, counted in fractions.                       *)
After(t) == (permits[now] - permits[t]) * Minute

(* Since the last refill no permit was handed out; up to it, what was      *)
(* handed out and what is left fit in the capacity and what flowed in.     *)
Quiet == \A t \in rpm_last_refill .. now : permits[t] = permits[now]
Metered == \A t \in 0 .. rpm_last_refill :
             After(t) + rpm_tokens <= MaxRpm * Minute + MaxRpm * (rpm_last_refill - t)

LEMMA MeteredInit == Init => Quiet /\ Metered
<1> SUFFICES ASSUME Init PROVE Quiet /\ Metered
  OBVIOUS
<1>1. now = 0 /\ rpm_last_refill = 0 /\ rpm_tokens = FirstTokens
  BY DEF Init
<1>2. Quiet
  BY <1>1 DEF Quiet
<1>3. Metered
  <2>1. FirstTokens <= MaxRpm * Minute /\ MaxRpm * Minute \in Nat /\ FirstTokens \in Nat
    BY FirstTokensFact, MinuteFact, LimitAssumption, Product
  <2>2. permits[0] \in Int
    BY ClockAssumption DEF Init
  <2>3. (permits[0] - permits[0]) * Minute = 0 /\ MaxRpm * (0 - 0) = 0
    BY <2>2, MinuteFact, LimitAssumption
  <2> QED
    BY <1>1, <2>1, <2>3 DEF Metered, After
<1> QED
  BY <1>2, <1>3

(* What a refill at `now` finds: after any instant t, the permits already  *)
(* handed out and the refilled bucket fit in the capacity and the inflow.  *)
LEMMA RefillFits ==
  ASSUME TypeClock, TypeBucket, Quiet, Metered, NEW t \in 0 .. now
  PROVE  After(t) + Refilled <= MaxRpm * Minute + MaxRpm * (now - t)
<1>0. /\ now \in Nat /\ rpm_last_refill \in Nat /\ rpm_last_refill <= now
      /\ t \in Nat /\ t <= now /\ now <= Horizon
  BY ClockAssumption DEF TypeClock
<1>1. /\ Refilled \in Int
      /\ Refilled <= rpm_tokens + MaxRpm * (now - rpm_last_refill)
      /\ Refilled <= MaxRpm * Minute
  BY RefilledFact, MinuteFact, LimitAssumption, Product
<1>2. MaxRpm * Minute \in Nat /\ MaxRpm * (now - t) \in Nat
  BY <1>0, MinuteFact, LimitAssumption, Product
<1>3. permits[now] \in Nat /\ permits[t] \in Nat
  BY <1>0, ClockAssumption DEF TypeBucket
<1>4. CASE t >= rpm_last_refill
  <2>1. permits[t] = permits[now]
    BY <1>0, <1>4 DEF Quiet
  <2>2. After(t) = 0
    BY <2>1, <1>3, MinuteFact DEF After
  <2> QED
    BY <2>2, <1>1, <1>2
<1>5. CASE t < rpm_last_refill
  <2>1. After(t) + rpm_tokens <= MaxRpm * Minute + MaxRpm * (rpm_last_refill - t)
    BY <1>0, <1>5 DEF Metered
  <2>2. MaxRpm * (now - rpm_last_refill) + MaxRpm * (rpm_last_refill - t) = MaxRpm * (now - t)
    BY <1>0, LimitAssumption, Split
  <2>3. /\ MaxRpm * (now - rpm_last_refill) \in Int
        /\ MaxRpm * (rpm_last_refill - t) \in Int
    BY <1>0, LimitAssumption
  <2>4. After(t) \in Int
    BY <1>3, MinuteFact DEF After
  <2>5. rpm_tokens \in Int
    BY <1>2 DEF TypeBucket
  <2> DEFINE a == After(t)
             in1 == MaxRpm * (now - rpm_last_refill)
             in2 == MaxRpm * (rpm_last_refill - t)
             in3 == MaxRpm * (now - t)
             cap == MaxRpm * Minute
  <2>6. /\ a \in Int /\ in1 \in Int /\ in2 \in Int /\ in3 \in Int /\ cap \in Int
        /\ a + rpm_tokens <= cap + in2
        /\ in1 + in2 = in3
        /\ Refilled <= rpm_tokens + in1
    BY <1>1, <1>2, <2>1, <2>2, <2>3, <2>4
  <2> HIDE DEF a, in1, in2, in3, cap
  <2>7. a + Refilled <= cap + in3
    BY <2>6, <2>5, <1>1
  <2> QED
    BY <2>7 DEF a, in3, cap
<1> QED
  BY <1>0, <1>4, <1>5

LEMMA MeteredStep ==
  TypeOK /\ MaxRpm > 0 /\ Quiet /\ Metered /\ [Next]_vars => Quiet' /\ Metered'
<1> SUFFICES ASSUME TypeOK, MaxRpm > 0, Quiet, Metered, [Next]_vars
             PROVE  Quiet' /\ Metered'
  OBVIOUS
<1>t. TypeClock /\ TypeBucket
  BY DEF TypeOK
<1>0. /\ now \in Nat /\ rpm_last_refill \in Nat /\ rpm_last_refill <= now /\ now <= Horizon
  BY <1>t, ClockAssumption DEF TypeClock
<1>1. ASSUME NEW w \in Workers, Check(w) PROVE Quiet' /\ Metered'
  <2>1. now' = now /\ rpm_last_refill' = now
    BY <1>1 DEF Check
  <2>2. Quiet'
    BY <2>1, <1>0 DEF Quiet
  <2>3. CASE CheckFloor(w) \/ CheckBucket(w)
    <3>1. permits' = permits /\ rpm_tokens' = Refilled
      BY <2>3 DEF CheckFloor, CheckBucket
    <3>2. \A t \in 0 .. now : After(t) + Refilled <= MaxRpm * Minute + MaxRpm * (now - t)
      BY <1>t, RefillFits
    <3> QED
      BY <2>1, <2>2, <3>1, <3>2 DEF Metered, After
  <2>4. CASE Consume(w)
    <3>1. permits' = [permits EXCEPT ![now] = @ + 1] /\ rpm_tokens' = Refilled - Minute
      BY <2>4 DEF Consume
    <3>2. ASSUME NEW t \in 0 .. now
          PROVE  (permits'[now] - permits'[t]) * Minute + rpm_tokens'
                   <= MaxRpm * Minute + MaxRpm * (now - t)
      <4>0. /\ permits[now] \in Nat /\ permits[t] \in Nat /\ Refilled \in Int
            /\ Refilled <= MaxRpm * Minute
        <5>0. now \in 0 .. Horizon /\ t \in 0 .. Horizon
          BY <1>0, ClockAssumption
        <5>1. permits[now] \in Nat /\ permits[t] \in Nat
          BY <1>t, <5>0 DEF TypeBucket
        <5>2. Refilled \in 0 .. MaxRpm * Minute /\ MaxRpm * Minute \in Nat
          BY <1>t, RefilledFact, MinuteFact, LimitAssumption, Product
        <5> QED
          BY <5>1, <5>2
      <4>1. MaxRpm * Minute \in Nat /\ MaxRpm * (now - t) \in Nat
        BY <1>0, MinuteFact, LimitAssumption, Product
      <4>2. CASE t = now
        <5>1. (permits'[now] - permits'[t]) * Minute = 0
          BY <4>2, <4>0, <3>1, <1>t, <1>0, MinuteFact DEF TypeBucket
        <5> QED
          BY <5>1, <4>0, <4>1, <3>1, MinuteFact
      <4>3. CASE t < now
        <5>1. permits'[now] = permits[now] + 1 /\ permits'[t] = permits[t]
          BY <4>3, <3>1, <1>t, <1>0 DEF TypeBucket
        <5>2. (permits'[now] - permits'[t]) * Minute = After(t) + Minute
          <6>1. permits'[now] - permits'[t] = (permits[now] - permits[t]) + 1
            BY <5>1, <4>0
          <6> QED
            BY <6>1, <4>0, MinuteFact, OneMore DEF After
        <5>3. After(t) + Refilled <= MaxRpm * Minute + MaxRpm * (now - t)
          BY <1>t, RefillFits
        <5>4. After(t) \in Int
          BY <4>0, MinuteFact DEF After
        <5> QED
          BY <5>2, <5>3, <5>4, <4>0, <4>1, <3>1, MinuteFact
      <4> QED
        BY <4>2, <4>3, <1>0
    <3>3. Metered'
      BY <2>1, <3>2 DEF Metered, After
    <3> QED
      BY <2>2, <3>3
  <2> QED
    BY <1>1, <2>3, <2>4 DEF Check
<1>2. CASE Pass
  <2>1. /\ now' = now + 1 /\ now + 1 \in 0 .. Horizon
        /\ permits' = [permits EXCEPT ![now + 1] = permits[now]]
        /\ rpm_tokens' = rpm_tokens /\ rpm_last_refill' = rpm_last_refill
    BY <1>2, <1>0, ClockAssumption DEF Pass
  <2>2. permits'[now'] = permits[now]
    BY <2>1, <1>t DEF TypeBucket
  <2>3. \A t \in 0 .. now : permits'[t] = permits[t]
    BY <2>1, <1>t, <1>0 DEF TypeBucket
  <2>4. Quiet'
    BY <2>1, <2>2, <2>3, <1>0 DEF Quiet
  <2>5. \A t \in 0 .. rpm_last_refill : After(t)' = After(t)
    BY <2>2, <2>3, <1>0 DEF After
  <2>6. Metered'
    BY <2>1, <2>5, <1>0 DEF Metered, After
  <2> QED
    BY <2>4, <2>6
<1>3. ASSUME UNCHANGED <<now, rpm_tokens, rpm_last_refill, permits>>
      PROVE  Quiet' /\ Metered'
  BY <1>3 DEF Quiet, Metered, After
<1>4. ASSUME NEW w \in Workers,
             Ask(w) \/ RefuseEarly(w) \/ Settle(w) \/ Wake(w) \/ CancelSleep(w) \/ Attempt(w)
      PROVE  Quiet' /\ Metered'
  <2>1. UNCHANGED <<now, rpm_tokens, rpm_last_refill, permits>>
    BY <1>4 DEF Ask, RefuseEarly, Settle, Wake, CancelSleep, Attempt, Finish,
                ReportRetryAfter, ReportBare, bucketVars
  <2> QED
    BY <2>1, <1>3
<1>5. CASE TickAimd \/ Cancel \/ Over \/ UNCHANGED vars
  <2>1. UNCHANGED <<now, rpm_tokens, rpm_last_refill, permits>>
    BY <1>5 DEF TickAimd, Cancel, Over, vars, bucketVars
  <2> QED
    BY <2>1, <1>3
<1> QED
  BY <1>1, <1>2, <1>4, <1>5 DEF Next, Acquire

(* Instants that are over keep their bound; at the present one it follows  *)
(* from Metered, or from Quiet since the last refill.                      *)
LEMMA BoundNow ==
  ASSUME TypeClock, TypeBucket, Quiet, Metered, NEW t \in 0 .. now
  PROVE  (permits[now] - permits[t]) * Minute <= MaxRpm * Minute + MaxRpm * (now - t)
<1>1. After(t) + Refilled <= MaxRpm * Minute + MaxRpm * (now - t)
  BY RefillFits
<1>2. Refilled \in Nat
  BY RefilledFact, MinuteFact, LimitAssumption, Product
<1>3. permits[now] \in Nat /\ permits[t] \in Nat /\ now - t \in Nat
  BY ClockAssumption DEF TypeBucket, TypeClock
<1>4. /\ After(t) \in Int /\ MaxRpm * Minute \in Int /\ MaxRpm * (now - t) \in Int
  BY <1>3, MinuteFact, LimitAssumption DEF After
<1>5. After(t) <= MaxRpm * Minute + MaxRpm * (now - t)
  BY <1>1, <1>2, <1>4
<1> QED
  BY <1>5 DEF After

NowBounded ==
  \A t \in 0 .. now :
    (permits[now] - permits[t]) * Minute <= MaxRpm * Minute + MaxRpm * (now - t)

LEMMA BoundStep ==
  TypeOK /\ TypeOK' /\ (MaxRpm > 0 => NowBounded') /\ RateBounded /\ [Next]_vars
    => RateBounded'
<1> SUFFICES ASSUME TypeOK, TypeOK', MaxRpm > 0, NowBounded', RateBounded, [Next]_vars,
                    NEW a \in 0 .. now', NEW b \in 0 .. now', a <= b
             PROVE  (permits'[b] - permits'[a]) * Minute <= MaxRpm * Minute + MaxRpm * (b - a)
  BY DEF RateBounded
<1>0. now \in Nat /\ now' \in Nat /\ now <= Horizon /\ now' <= Horizon
  BY ClockAssumption DEF TypeOK, TypeClock
<1>1. CASE b = now'
  BY <1>1 DEF NowBounded
<1>2. CASE b < now'
  <2>1. (now' = now /\ \A t \in 0 .. Horizon : t < now => permits'[t] = permits[t])
          \/ (now' = now + 1 /\ \A t \in 0 .. now : permits'[t] = permits[t])
    <3>1. CASE Pass
      BY <3>1, <1>0, ClockAssumption DEF Pass, TypeOK, TypeBucket
    <3>2. ASSUME NEW w \in Workers, Check(w)
          PROVE  now' = now /\ \A t \in 0 .. Horizon : t < now => permits'[t] = permits[t]
      BY <3>2, <1>0 DEF Check, CheckFloor, CheckBucket, Consume, TypeOK, TypeBucket
    <3>3. ASSUME NEW w \in Workers,
                 Ask(w) \/ RefuseEarly(w) \/ Settle(w) \/ Wake(w) \/ CancelSleep(w)
                   \/ Attempt(w)
          PROVE  UNCHANGED <<now, permits>>
      BY <3>3 DEF Ask, RefuseEarly, Settle, Wake, CancelSleep, Attempt, Finish,
                  ReportRetryAfter, ReportBare, bucketVars
    <3>4. CASE TickAimd \/ Cancel \/ Over \/ UNCHANGED vars
      BY <3>4 DEF TickAimd, Cancel, Over, vars, bucketVars
    <3> QED
      BY <3>1, <3>2, <3>3, <3>4 DEF Next, Acquire
  <2>2. a \in 0 .. now /\ b \in 0 .. now /\ permits'[a] = permits[a] /\ permits'[b] = permits[b]
    BY <2>1, <1>0, <1>2, ClockAssumption
  <2> QED
    BY <2>2 DEF RateBounded
<1> QED
  BY <1>0, <1>1, <1>2

(* However the workers race, sleep and wake, and whatever is reported, over*)
(* any interval the governor lets at most the bucket's capacity and what   *)
(* flowed in meanwhile through.                                            *)
THEOREM RateIsBounded == Spec => []RateBounded
<1> DEFINE I == TypeOK /\ (MaxRpm > 0 => Quiet /\ Metered)
           N == MaxRpm > 0 => NowBounded
<1>1. Init => I
  BY TypeInit, MeteredInit
<1>2. I /\ [Next]_vars => I'
  BY TypeStep, MeteredStep
<1>3. I => N
  BY BoundNow DEF NowBounded, TypeOK
<1>4. Init => RateBounded
  <2> SUFFICES ASSUME Init PROVE RateBounded
    OBVIOUS
  <2>1. N /\ now = 0
    BY <1>1, <1>3 DEF Init
  <2> QED
    BY <2>1 DEF RateBounded, NowBounded
<1>5. I /\ I' /\ N' /\ RateBounded /\ [Next]_vars => RateBounded'
  BY BoundStep
<1> QED
  BY <1>1, <1>2, <1>3, <1>4, <1>5, PTL DEF Spec

(* What was handed out since the start and what is left fit in the first   *)
(* request and what flowed in.                                             *)
Frugal == permits[now] * Minute + rpm_tokens <= Minute + MaxRpm * rpm_last_refill

LEMMA RefillFrugal ==
  ASSUME TypeClock, TypeBucket, Frugal
  PROVE  permits[now] * Minute + Refilled <= Minute + MaxRpm * now
<1>0. now \in Nat /\ rpm_last_refill \in Nat /\ rpm_last_refill <= now /\ now <= Horizon
  BY ClockAssumption DEF TypeClock
<1>1. /\ Refilled \in Int
      /\ Refilled <= rpm_tokens + MaxRpm * (now - rpm_last_refill)
  BY RefilledFact, MinuteFact, LimitAssumption, Product
<1>2. permits[now] \in Nat
  BY <1>0, ClockAssumption DEF TypeBucket
<1>3. MaxRpm * (now - rpm_last_refill) + MaxRpm * (rpm_last_refill - 0) = MaxRpm * (now - 0)
  BY <1>0, LimitAssumption, Split
<1> DEFINE in1 == MaxRpm * (now - rpm_last_refill)
           in2 == MaxRpm * rpm_last_refill
           in3 == MaxRpm * now
           out == permits[now] * Minute
<1>4. /\ in1 \in Int /\ in2 \in Int /\ in3 \in Int /\ out \in Int /\ in1 + in2 = in3
      /\ out + rpm_tokens <= Minute + in2 /\ Refilled <= rpm_tokens + in1
  BY <1>0, <1>1, <1>2, <1>3, MinuteFact, LimitAssumption, Product DEF Frugal
<1>5. rpm_tokens \in Int
  BY MinuteFact, LimitAssumption, Product DEF TypeBucket
<1> HIDE DEF in1, in2, in3, out
<1>6. out + Refilled <= Minute + in3
  BY <1>1, <1>4, <1>5, MinuteFact
<1> QED
  BY <1>6 DEF in3, out

Opened == \A t \in 0 .. now : permits[t] * Minute <= Minute + MaxRpm * t

LEMMA FrugalStep ==
  TypeOK /\ MaxRpm > 0 /\ Frugal /\ Opened /\ [Next]_vars => Frugal' /\ Opened'
<1> SUFFICES ASSUME TypeOK, MaxRpm > 0, Frugal, Opened, [Next]_vars PROVE Frugal' /\ Opened'
  OBVIOUS
<1>t. TypeClock /\ TypeBucket
  BY DEF TypeOK
<1>0. /\ now \in Nat /\ rpm_last_refill \in Nat /\ rpm_last_refill <= now /\ now <= Horizon
      /\ permits[now] \in Nat
  BY <1>t, ClockAssumption DEF TypeClock, TypeBucket
<1>f. permits[now] * Minute + Refilled <= Minute + MaxRpm * now
  BY <1>t, RefillFrugal
<1>i. /\ Refilled \in Nat /\ permits[now] * Minute \in Nat /\ MaxRpm * now \in Nat
      /\ (permits[now] + 1) * Minute = permits[now] * Minute + Minute
  BY <1>t, <1>0, RefilledFact, MinuteFact, LimitAssumption, Product, OneMore
<1>1. ASSUME NEW w \in Workers, Check(w) PROVE Frugal' /\ Opened'
  <2>1. now' = now /\ rpm_last_refill' = now
    BY <1>1 DEF Check
  <2>2. CASE CheckFloor(w) \/ CheckBucket(w)
    BY <1>f, <2>1, <2>2 DEF CheckFloor, CheckBucket, Frugal, Opened
  <2>3. CASE Consume(w)
    <3>1. permits' = [permits EXCEPT ![now] = @ + 1] /\ rpm_tokens' = Refilled - Minute
      BY <2>3 DEF Consume
    <3>2. permits'[now] = permits[now] + 1 /\ \A t \in 0 .. now : t # now => permits'[t] = permits[t]
      BY <1>0, <1>t, <3>1 DEF TypeBucket
    <3>3. permits'[now] * Minute + rpm_tokens' = permits[now] * Minute + Refilled
      BY <1>i, <3>1, <3>2, MinuteFact
    <3>4. permits'[now] * Minute <= Minute + MaxRpm * now
      <4>1. ~(Refilled < Minute)
        BY <2>3 DEF Consume, Dry
      <4> QED
        BY <1>f, <1>i, <3>2, <4>1, MinuteFact
    <3> QED
      BY <1>f, <2>1, <3>2, <3>3, <3>4 DEF Frugal, Opened
  <2> QED
    BY <1>1, <2>2, <2>3 DEF Check
<1>2. CASE Pass
  <2>1. /\ now' = now + 1 /\ now + 1 \in 0 .. Horizon
        /\ permits' = [permits EXCEPT ![now + 1] = permits[now]]
        /\ rpm_tokens' = rpm_tokens /\ rpm_last_refill' = rpm_last_refill
    BY <1>2, <1>0, ClockAssumption DEF Pass
  <2>2. permits'[now'] = permits[now] /\ \A t \in 0 .. now : permits'[t] = permits[t]
    BY <2>1, <1>t, <1>0 DEF TypeBucket
  <2>3. permits[now] * Minute <= Minute + MaxRpm * (now + 1)
    <3>1. MaxRpm * (now + 1) = MaxRpm * now + MaxRpm
      BY <1>0, LimitAssumption
    <3> QED
      BY <1>f, <1>i, <3>1, MinuteFact, LimitAssumption
  <2>4. \A t \in 0 .. now' : t \in 0 .. now \/ t = now'
    BY <1>0, <2>1
  <2> QED
    BY <2>1, <2>2, <2>3, <2>4 DEF Frugal, Opened
<1>3. ASSUME UNCHANGED <<now, rpm_tokens, rpm_last_refill, permits>>
      PROVE  Frugal' /\ Opened'
  BY <1>3 DEF Frugal, Opened
<1>4. ASSUME NEW w \in Workers,
             Ask(w) \/ RefuseEarly(w) \/ Settle(w) \/ Wake(w) \/ CancelSleep(w) \/ Attempt(w)
      PROVE  Frugal' /\ Opened'
  <2>1. UNCHANGED <<now, rpm_tokens, rpm_last_refill, permits>>
    BY <1>4 DEF Ask, RefuseEarly, Settle, Wake, CancelSleep, Attempt, Finish,
                ReportRetryAfter, ReportBare, bucketVars
  <2> QED
    BY <2>1, <1>3
<1>5. CASE TickAimd \/ Cancel \/ Over \/ UNCHANGED vars
  <2>1. UNCHANGED <<now, rpm_tokens, rpm_last_refill, permits>>
    BY <1>5 DEF TickAimd, Cancel, Over, vars, bucketVars
  <2> QED
    BY <2>1, <1>3
<1> QED
  BY <1>1, <1>2, <1>4, <1>5 DEF Next, Acquire

(* A sweep does not open with a burst: the first request and the rate      *)
(* bound what was let through up to any instant (GovernorInner::new).      *)
THEOREM OpensWithoutBurst == Spec => []NoStartupBurst
<1> DEFINE I == TypeOK /\ (MaxRpm > 0 => Frugal /\ Opened)
<1>1. Init => I
  <2> SUFFICES ASSUME Init, MaxRpm > 0 PROVE Frugal /\ Opened
    BY TypeInit
  <2>1. now = 0 /\ rpm_last_refill = 0 /\ rpm_tokens = Minute /\ permits[0] = 0
    BY ClockAssumption DEF Init, FirstTokens
  <2>2. 0 * Minute = 0 /\ MaxRpm * 0 = 0
    BY MinuteFact, LimitAssumption
  <2> QED
    BY <2>1, <2>2, MinuteFact DEF Frugal, Opened
<1>2. I /\ [Next]_vars => I'
  BY TypeStep, FrugalStep
<1>3. I => NoStartupBurst
  BY DEF NoStartupBurst, Opened
<1> QED
  BY <1>1, <1>2, <1>3, PTL DEF Spec

----------------------------------------------------------------------------
(* The storm                                                               *)

(* The bare answers the governor has counted are among the last ones, and  *)
(* none of them is older than the window.                                  *)
Low(a, b) == IF a <= b THEN a ELSE b
Windowed ==
  /\ Low(consecutive_no_ra_429s, Threshold) <= Len(bare)
  /\ \A i \in 1 .. Len(bare) :
       i > Len(bare) - consecutive_no_ra_429s => bare[i] >= window_start

LEMMA WindowedBare ==
  ASSUME TypeOK, Windowed, NEW w \in Workers, ReportBare(w)
  PROVE  /\ Windowed'
         /\ Storm => /\ Len(bare) >= Threshold - 1
                     /\ now - bare[Len(bare) - (Threshold - 2)] <= Minute
<1> DEFINE c == consecutive_no_ra_429s
           n == Len(bare)
<1>0. /\ bare \in Seq(0 .. Horizon) /\ n \in Nat /\ c \in Nat /\ now \in Nat /\ now <= Horizon
      /\ window_start \in Nat /\ window_start <= now /\ Minute \in Nat
  BY ClockAssumption, MinuteFact DEF TypeOK, TypeAimd, TypeClock
<1>w. Low(c, 3) <= n /\ \A i \in 1 .. n : i > n - c => bare[i] >= window_start
  BY DEF Windowed, Threshold
<1>1. CASE Storm
  <2>1. Windowed'
    <3>1. bare' = <<>> /\ consecutive_no_ra_429s' = 0
      BY <1>1 DEF ReportBare
    <3> QED
      BY <3>1 DEF Windowed, Low, Threshold
  <2>2. c >= 2 /\ ~Expired
    BY <1>0, <1>1 DEF Storm, Counted, Threshold
  <2>3. n >= 2
    BY <1>0, <1>w, <2>2 DEF Low
  <2>4. bare[n - 1] >= window_start /\ bare[n - 1] \in Nat
    <3>1. n - 1 \in 1 .. n /\ n - 1 > n - c
      BY <1>0, <2>2, <2>3
    <3> QED
      BY <1>0, <1>w, <3>1, ClockAssumption
  <2>5. now - bare[n - 1] <= Minute
    BY <1>0, <2>2, <2>4 DEF Expired
  <2> QED
    BY <2>1, <2>3, <2>5 DEF Threshold
<1>2. CASE ~Storm
  <2>1. /\ consecutive_no_ra_429s' = Counted /\ bare' = LastBare
        /\ window_start' = IF Expired THEN now ELSE window_start
    BY <1>2 DEF ReportBare
  <2> DEFINE all == Append(bare, now)
  <2>2. /\ all \in Seq(0 .. Horizon) /\ Len(all) = n + 1 /\ all[n + 1] = now
        /\ \A i \in 1 .. n : all[i] = bare[i]
    BY <1>0
  <2> HIDE DEF all
  <2>3. window_start' <= now /\ window_start' \in Nat /\ Counted \in Nat /\ Counted >= 1
    BY <1>0, <2>1 DEF Counted
  <2>4. ASSUME NEW i \in 1 .. n + 1, i > n + 1 - Counted PROVE all[i] >= window_start'
    <3>1. CASE i = n + 1
      BY <1>0, <2>2, <2>3, <3>1
    <3>2. CASE i # n + 1
      <4>1. i \in 1 .. n
        BY <1>0, <3>2
      <4>2. ~Expired /\ Counted = c + 1
        BY <1>0, <2>4, <4>1 DEF Counted
      <4>3. i > n - c
        BY <1>0, <2>4, <4>1, <4>2
      <4> QED
        BY <1>w, <2>1, <2>2, <4>1, <4>2, <4>3
    <3> QED
      BY <3>1, <3>2
  <2>5. Low(Counted, 3) <= n + 1
    BY <1>0, <1>w, <2>3 DEF Low, Counted
  <2>6. LastBare = IF n + 1 <= 3 THEN all ELSE Tail(all)
    BY <2>2 DEF LastBare, Threshold, all
  <2>7. CASE n + 1 <= 3
    <3>1. bare' = all /\ Len(bare') = n + 1
      BY <2>1, <2>2, <2>6, <2>7
    <3>2. Low(consecutive_no_ra_429s', Threshold) <= Len(bare')
      BY <2>1, <2>5, <3>1 DEF Threshold, Low
    <3>3. ASSUME NEW i \in 1 .. Len(bare'), i > Len(bare') - consecutive_no_ra_429s'
          PROVE  bare'[i] >= window_start'
      <4>1. i \in 1 .. n + 1 /\ i > n + 1 - Counted
        BY <1>0, <2>1, <2>3, <3>1, <3>3
      <4> QED
        BY <2>4, <3>1, <4>1
    <3> QED
      BY <1>2, <3>2, <3>3 DEF Windowed, Threshold, Low
  <2>8. CASE ~(n + 1 <= 3)
    <3>1. bare' = Tail(all)
      BY <2>1, <2>6, <2>8
    <3>2. Len(bare') = n /\ \A i \in 1 .. n : bare'[i] = all[i + 1]
      BY <1>0, <2>2, <3>1
    <3>3. Low(Counted, 3) <= n
      BY <1>0, <2>3, <2>8 DEF Low
    <3>4. ASSUME NEW i \in 1 .. n, i > n - Counted PROVE bare'[i] >= window_start'
      <4>1. i + 1 \in 1 .. n + 1 /\ i + 1 > n + 1 - Counted
        BY <1>0, <2>3, <3>4
      <4>2. all[i + 1] >= window_start'
        BY <2>4, <4>1
      <4> QED
        BY <3>2, <4>2
    <3>5. Low(consecutive_no_ra_429s', Threshold) <= Len(bare')
      BY <2>1, <3>2, <3>3 DEF Threshold
    <3>6. ASSUME NEW i \in 1 .. Len(bare'), i > Len(bare') - consecutive_no_ra_429s'
          PROVE  bare'[i] >= window_start'
      <4>1. i \in 1 .. n /\ i > n - Counted
        BY <2>1, <3>2, <3>6
      <4> QED
        BY <3>4, <4>1
    <3> QED
      BY <1>2, <3>5, <3>6 DEF Windowed, Threshold, Low
  <2> QED
    BY <1>2, <2>7, <2>8
<1> QED
  BY <1>1, <1>2

LEMMA StormStep ==
  ASSUME TypeOK, Windowed, [Next]_vars
  PROVE  /\ Windowed'
         /\ suppressed_slots' > suppressed_slots =>
              /\ Len(bare) >= Threshold - 1
              /\ now - bare[Len(bare) - (Threshold - 2)] <= Minute
<1>0. suppressed_slots \in Int
  BY WorkersAssumption DEF TypeOK, TypeAimd
<1>1. ASSUME NEW w \in Workers, ReportBare(w)
      PROVE  /\ Windowed'
             /\ suppressed_slots' > suppressed_slots =>
                  /\ Len(bare) >= Threshold - 1
                  /\ now - bare[Len(bare) - (Threshold - 2)] <= Minute
  <2>1. ~Storm => suppressed_slots' = suppressed_slots
    BY <1>1 DEF ReportBare
  <2> QED
    BY <1>0, <1>1, <2>1, WindowedBare
<1>2. ASSUME UNCHANGED <<consecutive_no_ra_429s, window_start, bare>>,
             ~(suppressed_slots' > suppressed_slots)
      PROVE  Windowed' /\ ~(suppressed_slots' > suppressed_slots)
  BY <1>2 DEF Windowed
<1>3. ASSUME NEW w \in Workers, NEW secs \in RetryAfters, ReportRetryAfter(w, secs)
      PROVE  Windowed' /\ ~(suppressed_slots' > suppressed_slots)
  <2>1. bare' = <<>> /\ consecutive_no_ra_429s' = 0 /\ suppressed_slots' = suppressed_slots
    BY <1>3 DEF ReportRetryAfter
  <2> QED
    BY <1>0, <2>1 DEF Windowed, Low, Threshold
<1>4. ASSUME NEW w \in Workers, Ask(w) \/ Acquire(w) \/ Finish(w)
      PROVE  Windowed' /\ ~(suppressed_slots' > suppressed_slots)
  <2>1. UNCHANGED aimdVars
    BY <1>4 DEF Ask, Acquire, RefuseEarly, Check, Settle, Wake, CancelSleep, Finish
  <2> QED
    BY <1>0, <1>2, <2>1 DEF aimdVars
<1>5. CASE TickAimd
  BY <1>0, <1>2, <1>5 DEF TickAimd
<1>6. CASE Cancel \/ Pass \/ Over \/ UNCHANGED vars
  <2>1. UNCHANGED aimdVars
    BY <1>6 DEF Cancel, Pass, Over, vars
  <2> QED
    BY <1>0, <1>2, <2>1 DEF aimdVars
<1> QED
  BY <1>1, <1>3, <1>4, <1>5, <1>6 DEF Next, Attempt

(* Slots are taken away only when the three last bare 429s lie within one  *)
(* minute and no Retry-After came between them (report_429), whoever       *)
(* reported them.                                                          *)
THEOREM HalvedByStormOnly == Spec => HalvedOnlyByStorm
<1>1. Init => Windowed
  BY DEF Init, Windowed, Low, Threshold
<1>2. TypeOK /\ Windowed /\ [Next]_vars => Windowed'
  BY StormStep
<1>3. TypeOK /\ Windowed /\ [Next]_vars =>
        [suppressed_slots' > suppressed_slots =>
           /\ Len(bare) >= Threshold - 1
           /\ now - bare[Len(bare) - (Threshold - 2)] <= Minute]_vars
  BY StormStep
<1> QED
  BY <1>1, <1>2, <1>3, TypeCorrect, PTL DEF Spec, HalvedOnlyByStorm

----------------------------------------------------------------------------
(* The Retry-After floor                                                   *)

(* A floor that is ahead has not been forgotten, and none was made up.     *)
Floored == /\ retry_after_until <= floor_asked
           /\ floor_asked > now => retry_after_until = floor_asked

LEMMA FlooredStep == TypeOK /\ Floored /\ [Next]_vars => Floored'
<1> SUFFICES ASSUME TypeOK, Floored, [Next]_vars PROVE Floored'
  OBVIOUS
<1>0. /\ now \in Nat /\ floor_asked \in Nat /\ retry_after_until \in Int
      /\ None \in Int /\ None < 0
  BY ClockAssumption DEF TypeOK, TypeClock, TypeFloor, None
<1>1. ASSUME NEW w \in Workers, Check(w) PROVE Floored'
  BY <1>0, <1>1 DEF Check, CheckFloor, CheckBucket, Consume, FloorAhead, Floored
<1>2. ASSUME NEW w \in Workers, NEW secs \in RetryAfters, ReportRetryAfter(w, secs)
      PROVE  Floored'
  <2>1. secs \in Nat
    BY ClockAssumption
  <2> QED
    BY <1>0, <1>2, <2>1 DEF ReportRetryAfter, Floor, Floored
<1>3. CASE Pass
  BY <1>0, <1>3 DEF Pass, Floored, floorVars
<1>4. ASSUME NEW w \in Workers,
             Ask(w) \/ RefuseEarly(w) \/ Settle(w) \/ Wake(w) \/ CancelSleep(w)
               \/ Finish(w) \/ ReportBare(w)
      PROVE  Floored'
  BY <1>4 DEF Ask, RefuseEarly, Settle, Wake, CancelSleep, Finish, ReportBare,
              Floored, floorVars
<1>5. CASE TickAimd \/ Cancel \/ Over \/ UNCHANGED vars
  BY <1>5 DEF TickAimd, Cancel, Over, vars, Floored, floorVars
<1> QED
  BY <1>1, <1>2, <1>3, <1>4, <1>5 DEF Next, Acquire, Attempt

LEMMA PermitAfterFloor ==
  ASSUME TypeOK, Floored, [Next]_vars,
         NEW w \in Workers, worker'[w].at = "permitted", worker[w].at # "permitted"
  PROVE  now >= floor_asked
<1>1. ASSUME NEW v \in Workers, NEW place \in Places, NEW timer, Move(v, place, timer),
             place # "permitted"
      PROVE  FALSE
  BY <1>1 DEF Move, At, TypeOK, TypeWorkers
<1>2. ASSUME NEW v \in Workers,
             Ask(v) \/ RefuseEarly(v) \/ Settle(v) \/ Wake(v) \/ CancelSleep(v) \/ Attempt(v)
      PROVE  FALSE
  <2>1. /\ "asking" \in Places /\ "refused" \in Places /\ "running" \in Places
        /\ "sleeping" \in Places /\ "out" \in Places
    BY DEF Places
  <2> QED
    BY <1>1, <1>2, <2>1 DEF Ask, RefuseEarly, Settle, Wake, CancelSleep, Attempt,
                            Finish, ReportRetryAfter, ReportBare
<1>3. ASSUME NEW v \in Workers, Check(v) PROVE now >= floor_asked
  <2>1. ~FloorAhead
    <3>1. ASSUME CheckFloor(v) PROVE FALSE
      BY <1>1, <3>1 DEF CheckFloor, Places
    <3> QED
      BY <1>3, <3>1 DEF Check, CheckBucket, Consume
  <2> QED
    BY <2>1, ClockAssumption
       DEF Floored, FloorAhead, TypeOK, TypeClock, TypeFloor, None
<1>4. CASE TickAimd \/ Cancel \/ Pass \/ Over \/ UNCHANGED vars
  BY <1>4 DEF TickAimd, Cancel, Pass, Over, vars
<1> QED
  BY <1>2, <1>3, <1>4 DEF Next, Acquire

(* No worker is let through before an instant some Retry-After named.      *)
THEOREM FloorIsKept == Spec => FloorHolds
<1>1. Init => Floored
  BY ClockAssumption DEF Init, Floored, None
<1>2. TypeOK /\ Floored /\ [Next]_vars
        => [\A w \in Workers :
              (worker'[w].at = "permitted" /\ worker[w].at # "permitted")
                => now >= floor_asked]_vars
  BY PermitAfterFloor
<1> QED
  BY <1>1, <1>2, FlooredStep, TypeCorrect, PTL DEF Spec, FloorHolds

----------------------------------------------------------------------------
(* The worker slots implement AimdSlots                                    *)

(* A restoration is scheduled no further ahead than the stay that applies. *)
StayOf(n) == IF n = Half THEN 3 * HalfMinute ELSE HalfMinute
Scheduled == /\ suppressed_slots <= Half
             /\ suppressed_slots > 0
                  => next_slot_restoration <= now + StayOf(suppressed_slots)

LEMMA SlotStep ==
  ASSUME TypeOK, Scheduled, [Next]_vars
  PROVE  Scheduled' /\ [Aimd!Next]_<<suppressed_slots, Since>>
<1>0. /\ now \in Nat /\ HalfMinute \in Nat /\ Half \in Nat
      /\ suppressed_slots \in Nat
      /\ suppressed_slots > 0 => next_slot_restoration \in Nat
  BY ClockAssumption, HalfFact, WorkersAssumption DEF TypeOK, TypeClock, TypeAimd, None
<1>h. Aimd!Half = Half
  BY DEF Aimd!Half, Half
<1>1. CASE UNCHANGED <<now, suppressed_slots, next_slot_restoration>>
  BY <1>1 DEF Scheduled, Since, StayOf
<1>2. ASSUME NEW w \in Workers, ReportBare(w), Storm
      PROVE  Scheduled' /\ [Aimd!Next]_<<suppressed_slots, Since>>
  <2>1. /\ suppressed_slots = 0 /\ suppressed_slots' = Half /\ now' = now
        /\ next_slot_restoration' = now + 3 * HalfMinute
    BY <1>0, <1>2, MinuteFact DEF ReportBare, Storm, FirstRestore
  <2>2. Scheduled'
    BY <2>1, <1>0 DEF Scheduled, StayOf
  <2>3. Since' = 0
    BY <2>1, <1>0 DEF Since
  <2>4. Aimd!Reduce
    BY <2>1, <2>3, <1>h DEF Aimd!Reduce
  <2> QED
    BY <2>2, <2>4 DEF Aimd!Next
<1>3. CASE TickAimd
  <2>1. /\ suppressed_slots > 0 /\ now >= next_slot_restoration
        /\ suppressed_slots' = suppressed_slots - 1 /\ now' = now
        /\ suppressed_slots > 1 => next_slot_restoration' = now + HalfMinute
    BY <1>3, <1>0 DEF TickAimd
  <2>2. suppressed_slots' # Half /\ suppressed_slots' <= Half
    BY <2>1, <1>0 DEF Scheduled
  <2>3. Scheduled'
    BY <2>1, <2>2, <1>0 DEF Scheduled, StayOf
  <2>4. Since' = 0
    BY <2>1, <2>2, <1>0 DEF Since
  <2>5. Since >= Aimd!Stay(suppressed_slots)
    BY <2>1, <1>0, <1>h DEF Since, Aimd!Stay
  <2>6. Aimd!Restore
    BY <2>1, <2>4, <2>5 DEF Aimd!Restore
  <2> QED
    BY <2>3, <2>6 DEF Aimd!Next
<1>4. CASE Pass
  <2>1. /\ now' = now + 1
        /\ UNCHANGED <<suppressed_slots, next_slot_restoration>>
    BY <1>4 DEF Pass, aimdVars
  <2>2. Scheduled'
    BY <2>1, <1>0 DEF Scheduled, StayOf
  <2>3. CASE suppressed_slots = 0
    BY <2>1, <2>2, <2>3 DEF Since
  <2>4. CASE suppressed_slots > 0
    <3>1. Since' = Since + 1
      BY <2>1, <2>4, <1>0 DEF Since
    <3>2. Aimd!Pass
      BY <3>1, <2>1, <2>4 DEF Aimd!Pass
    <3> QED
      BY <2>2, <3>2 DEF Aimd!Next
  <2> QED
    BY <2>3, <2>4, <1>0
<1>5. ASSUME NEW w \in Workers,
             Ask(w) \/ Acquire(w) \/ Finish(w) \/ (ReportBare(w) /\ ~Storm)
               \/ \E secs \in RetryAfters : ReportRetryAfter(w, secs)
      PROVE  UNCHANGED <<now, suppressed_slots, next_slot_restoration>>
  BY <1>5 DEF Ask, Acquire, RefuseEarly, Check, Settle, Wake, CancelSleep, Finish,
              ReportBare, ReportRetryAfter, aimdVars
<1>6. CASE Cancel \/ Over \/ UNCHANGED vars
  BY <1>1, <1>6 DEF Cancel, Over, vars, aimdVars
<1> QED
  BY <1>1, <1>2, <1>3, <1>4, <1>5, <1>6 DEF Next, Attempt

(* The governor, workers, clock and dispatcher together keep the promise   *)
(* about worker slots that AimdSlots states.                               *)
THEOREM ImplementsAimd == Spec => AimdSpec
<1>1. Init => Scheduled
  BY HalfFact, WorkersAssumption DEF Init, Scheduled
<1>2. Init => Aimd!Init
  BY DEF Init, Since, Aimd!Init
<1>3. TypeOK /\ Scheduled /\ [Next]_vars => Scheduled' /\ [Aimd!Next]_<<suppressed_slots, Since>>
  BY SlotStep
<1> QED
  BY <1>1, <1>2, <1>3, TypeCorrect, PTL DEF Spec, AimdSpec, Aimd!Spec, Aimd!vars

=============================================================================
