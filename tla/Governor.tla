------------------------------ MODULE Governor ------------------------------
(***************************************************************************)
(* The adaptive rate-limit governor of a sweep, src/run/rate_limit.rs: a   *)
(* token bucket for --max-rpm, a floor set by Retry-After answers, and the *)
(* suppression of worker slots after a storm of bare 429 answers.  Every   *)
(* worker acquires a permit at the top of an attempt (run_one in           *)
(* src/run/swebench.rs) and reports at its end; the dispatcher ticks the   *)
(* slot restoration.  The governor's mutex makes each of check, report and *)
(* tick one step; between them workers, dispatcher, the cancellation and   *)
(* the clock interleave freely, and a sleeper may be woken late.           *)
(*                                                                         *)
(* Time is counted in ticks, HalfMinute of them in 30 s.  Tokens are       *)
(* counted in fractions: a request costs Minute of them and MaxRpm flow in *)
(* per tick, so that no rounding is needed.  The input-token bucket is     *)
(* left out: its only callers estimate 0 tokens, which it never gates.     *)
(***************************************************************************)
EXTENDS Integers, Sequences

CONSTANTS
  Workers,
  Parallel,     \* the sweep's --parallel, after max(1)
  MaxRpm,       \* --max-rpm; 0 is "not set"
  HalfMinute,   \* ticks in 30 s
  RetryAfters,  \* delays a provider may ask for, in ticks
  MaxReports,   \* bound: 429 answers during one behaviour
  MaxPermits,   \* bound: permits of the bucket before nobody asks again
  Horizon       \* bound: the last instant of the clock

Minute == 2 * HalfMinute
Threshold == 3
None == -1

ASSUME WorkersAssumption == Parallel \in Nat \ {0}
ASSUME ClockAssumption == /\ HalfMinute \in Nat \ {0}
                          /\ Horizon \in Nat
                          /\ RetryAfters \subseteq Nat
ASSUME LimitAssumption == /\ MaxRpm \in Nat
                          /\ MaxReports \in Nat
                          /\ MaxPermits \in Nat

VARIABLES
  now,                   \* Instant::now()
  rpm_tokens,            \* the bucket, in fractions of a request
  rpm_last_refill,
  retry_after_until,     \* the global floor, None when there is none
  consecutive_no_ra_429s,
  window_start,
  suppressed_slots,
  next_slot_restoration, \* None when nothing is scheduled
  worker,                \* where each worker is in acquire_inner, and its timer
  cancelled,             \* the sweep's cancellation token
  permits,               \* history: permits of the bucket up to each instant
  floor_asked,           \* history: the furthest instant a Retry-After named
  bare,                  \* history: the last bare 429s since one was answered
  reports                \* history: 429 answers so far

bucketVars == <<rpm_tokens, rpm_last_refill, permits>>
floorVars == <<retry_after_until, floor_asked>>
aimdVars == <<consecutive_no_ra_429s, window_start, suppressed_slots,
              next_slot_restoration, bare>>
vars == <<now, bucketVars, floorVars, aimdVars, worker, cancelled, reports>>

Places == {"out", "asking", "delayed", "permitted", "sleeping", "running", "refused"}
At(place, timer) == [at |-> place, timer |-> timer]
Move(w, place, timer) == worker' = [worker EXCEPT ![w] = At(place, timer)]
Waiting(w) == worker[w].at \in {"asking", "delayed", "permitted", "sleeping"}

FirstTokens_Full == MaxRpm * Minute

(* One request may leave at once, not a whole minute's worth.              *)
FirstTokens == IF MaxRpm > 0 THEN Minute ELSE 0

Init ==
  /\ now = 0
  /\ rpm_tokens = FirstTokens
  /\ rpm_last_refill = 0
  /\ retry_after_until = None
  /\ consecutive_no_ra_429s = 0
  /\ window_start = 0
  /\ suppressed_slots = 0
  /\ next_slot_restoration = None
  /\ worker = [w \in Workers |-> At("out", 0)]
  /\ cancelled = FALSE
  /\ permits = [t \in 0 .. Horizon |-> 0]
  /\ floor_asked = 0
  /\ bare = <<>>
  /\ reports = 0

----------------------------------------------------------------------------
(* acquire_until_cancelled                                                 *)

(* run_one reaches the gate at the top of an attempt.                      *)
Ask(w) ==
  /\ worker[w].at = "out"
  /\ permits[now] < MaxPermits
  /\ Move(w, "asking", 0)
  /\ UNCHANGED <<now, bucketVars, floorVars, aimdVars, cancelled, reports>>

RefuseEarly(w) ==
  /\ worker[w].at = "asking"
  /\ cancelled
  /\ Move(w, "refused", 0)
  /\ UNCHANGED <<now, bucketVars, floorVars, aimdVars, cancelled, reports>>

Refilled_Uncapped == rpm_tokens + MaxRpm * (now - rpm_last_refill)

Refilled == LET full == rpm_tokens + MaxRpm * (now - rpm_last_refill)
            IN  IF full <= MaxRpm * Minute THEN full ELSE MaxRpm * Minute

CeilDiv(a, b) == (a + b - 1) \div b

(* check_and_maybe_consume refills, then asks the floor, then the bucket.  *)
FloorAhead == retry_after_until > now
Dry == MaxRpm > 0 /\ Refilled < Minute

CheckFloor(w) ==
  /\ FloorAhead
  /\ rpm_tokens' = Refilled
  /\ Move(w, "delayed", retry_after_until - now)
  /\ UNCHANGED <<retry_after_until, permits>>

CheckBucket(w) ==
  /\ ~FloorAhead
  /\ Dry
  /\ rpm_tokens' = Refilled
  /\ Move(w, "delayed", CeilDiv(Minute - Refilled, MaxRpm))
  /\ retry_after_until' = None
  /\ UNCHANGED permits

Consume(w) ==
  /\ ~FloorAhead
  /\ ~Dry
  /\ rpm_tokens' = IF MaxRpm > 0 THEN Refilled - Minute ELSE 0
  /\ permits' = IF MaxRpm > 0 THEN [permits EXCEPT ![now] = @ + 1] ELSE permits
  /\ Move(w, "permitted", 0)
  /\ retry_after_until' = None

Check(w) ==
  /\ worker[w].at = "asking"
  /\ ~cancelled
  /\ CheckFloor(w) \/ CheckBucket(w) \/ Consume(w)
  /\ rpm_last_refill' = now
  /\ UNCHANGED <<now, aimdVars, cancelled, floor_asked, reports>>

(* After the check the token is read once more: a permit obtained meanwhile*)
(* is lost.  Otherwise the worker runs, or starts to sleep now.            *)
Settle(w) ==
  /\ \/ /\ worker[w].at \in {"permitted", "delayed"}
        /\ cancelled
        /\ Move(w, "refused", 0)
     \/ /\ worker[w].at = "permitted"
        /\ ~cancelled
        /\ Move(w, "running", 0)
     \/ /\ worker[w].at = "delayed"
        /\ ~cancelled
        /\ Move(w, "sleeping", now + worker[w].timer)
  /\ UNCHANGED <<now, bucketVars, floorVars, aimdVars, cancelled, reports>>

Wake(w) ==
  /\ worker[w].at = "sleeping"
  /\ now >= worker[w].timer
  /\ Move(w, "asking", 0)
  /\ UNCHANGED <<now, bucketVars, floorVars, aimdVars, cancelled, reports>>

CancelSleep_Deaf(w) ==
  /\ worker[w].at = "sleeping"
  /\ now >= worker[w].timer
  /\ cancelled
  /\ Move(w, "refused", 0)
  /\ UNCHANGED <<now, bucketVars, floorVars, aimdVars, cancelled, reports>>

CancelSleep(w) ==
  /\ worker[w].at = "sleeping"
  /\ cancelled
  /\ Move(w, "refused", 0)
  /\ UNCHANGED <<now, bucketVars, floorVars, aimdVars, cancelled, reports>>

----------------------------------------------------------------------------
(* The attempt under way, and its report.                                  *)

Finish(w) ==
  /\ worker[w].at = "running"
  /\ Move(w, "out", 0)
  /\ UNCHANGED <<now, bucketVars, floorVars, aimdVars, cancelled, reports>>

Floor_Latest(until) == until

(* The furthest floor wins when workers race.                              *)
Floor(until) == IF retry_after_until >= until THEN retry_after_until ELSE until

(* report_429(Some(secs)): explicit guidance also restarts the counting.   *)
ReportRetryAfter(w, secs) ==
  /\ worker[w].at = "running"
  /\ reports < MaxReports
  /\ retry_after_until' = Floor(now + secs)
  /\ floor_asked' = IF floor_asked >= now + secs THEN floor_asked ELSE now + secs
  /\ consecutive_no_ra_429s' = 0
  /\ window_start' = now
  /\ bare' = <<>>
  /\ reports' = reports + 1
  /\ Move(w, "out", 0)
  /\ UNCHANGED <<now, bucketVars, suppressed_slots, next_slot_restoration,
                 cancelled>>

Expired_Never == FALSE
Expired == now - window_start > Minute
Counted == IF Expired THEN 1 ELSE consecutive_no_ra_429s + 1
Storm == Counted >= Threshold /\ suppressed_slots = 0
Half == IF Parallel \div 2 <= Parallel - 1 THEN Parallel \div 2 ELSE Parallel - 1
FirstRestore_Hold == now + Minute
FirstRestore == now + Minute + HalfMinute

(* The last Threshold bare answers, this one included.                     *)
LastBare == LET all == Append(bare, now)
            IN  IF Len(all) <= Threshold THEN all ELSE Tail(all)

(* report_429(None): count it in its window; the third one in the window   *)
(* suppresses half of the slots, unless some are suppressed already.       *)
ReportBare(w) ==
  /\ worker[w].at = "running"
  /\ reports < MaxReports
  /\ IF Storm
     THEN /\ suppressed_slots' = Half
          /\ next_slot_restoration' = FirstRestore
          /\ consecutive_no_ra_429s' = 0
          /\ window_start' = now
     ELSE /\ consecutive_no_ra_429s' = Counted
          /\ window_start' = IF Expired THEN now ELSE window_start
          /\ UNCHANGED <<suppressed_slots, next_slot_restoration>>
  /\ bare' = IF Storm THEN <<>> ELSE LastBare
  /\ reports' = reports + 1
  /\ Move(w, "out", 0)
  /\ UNCHANGED <<now, bucketVars, floorVars, cancelled>>

----------------------------------------------------------------------------
(* tick_aimd, called by the dispatcher before each dispatch: at most one   *)
(* slot per call, and the next one half a minute after the call.           *)
TickAimd ==
  /\ suppressed_slots > 0
  /\ next_slot_restoration # None
  /\ now >= next_slot_restoration
  /\ suppressed_slots' = suppressed_slots - 1
  /\ next_slot_restoration' = IF suppressed_slots > 1 THEN now + HalfMinute ELSE None
  /\ UNCHANGED <<now, bucketVars, floorVars, consecutive_no_ra_429s, window_start,
                 bare, worker, cancelled, reports>>

Cancel ==
  /\ ~cancelled
  /\ cancelled' = TRUE
  /\ UNCHANGED <<now, bucketVars, floorVars, aimdVars, worker, reports>>

(* The clock moves on, whoever is late.                                    *)
Pass ==
  /\ now < Horizon
  /\ now' = now + 1
  /\ permits' = [permits EXCEPT ![now + 1] = permits[now]]
  /\ UNCHANGED <<rpm_tokens, rpm_last_refill, floorVars, aimdVars, worker,
                 cancelled, reports>>

(* Every worker has been sent home or has nothing left to ask for.         *)
Over == /\ \A w \in Workers : \/ worker[w].at = "refused"
                              \/ worker[w].at = "out" /\ permits[now] >= MaxPermits
        /\ UNCHANGED vars

Acquire(w) == RefuseEarly(w) \/ Check(w) \/ Settle(w) \/ Wake(w) \/ CancelSleep(w)
Attempt(w) == \/ Finish(w)
              \/ \E secs \in RetryAfters : ReportRetryAfter(w, secs)
              \/ ReportBare(w)

Next == \/ \E w \in Workers : Ask(w) \/ Acquire(w) \/ Attempt(w)
        \/ TickAimd
        \/ Cancel
        \/ Pass
        \/ Over

Spec == Init /\ [][Next]_vars

(* tokio polls a worker that can go on; nothing is assumed of the clock,   *)
(* of the provider or of whoever cancels.                                  *)
FairSpec == Spec /\ \A w \in Workers : WF_vars(Acquire(w))

----------------------------------------------------------------------------
(* The state has its shape: the bucket is never overdrawn or overfull, a   *)
(* worker slot is always left to the dispatcher, a restoration is scheduled*)
(* whenever slots are suppressed.                                          *)
TypeClock == /\ now \in 0 .. Horizon
             /\ rpm_last_refill \in 0 .. now
             /\ window_start \in 0 .. now
TypeBucket == /\ rpm_tokens \in 0 .. MaxRpm * Minute
              /\ permits \in [0 .. Horizon -> Nat]
TypeFloor == /\ retry_after_until \in Nat \cup {None}
             /\ floor_asked \in Nat
TypeAimd == /\ consecutive_no_ra_429s \in Nat
            /\ suppressed_slots \in 0 .. Parallel - 1
            /\ next_slot_restoration \in Nat \cup {None}
            /\ suppressed_slots > 0 => next_slot_restoration # None
            /\ bare \in Seq(0 .. Horizon)
TypeWorkers == /\ worker \in [Workers -> [at : Places, timer : Nat]]
               /\ cancelled \in BOOLEAN
               /\ reports \in 0 .. MaxReports
TypeOK == TypeClock /\ TypeBucket /\ TypeFloor /\ TypeAimd /\ TypeWorkers

(* Over any interval the bucket hands out at most its capacity and what    *)
(* flows in meanwhile, however workers race, sleep and wake: the guarantee *)
(* of refill_rpm and check_and_maybe_consume.                              *)
RateBounded ==
  MaxRpm > 0 =>
    \A from \in 0 .. now, to \in 0 .. now :
      from <= to =>
        (permits[to] - permits[from]) * Minute <= MaxRpm * Minute + MaxRpm * (to - from)

(* A sweep does not open with a burst: up to any instant there were no more*)
(* permits than the first one and the configured rate allow                *)
(* (GovernorInner::new, "prevents an artificial burst").                   *)
NoStartupBurst ==
  MaxRpm > 0 => \A t \in 0 .. now : permits[t] * Minute <= Minute + MaxRpm * t

(* No worker is let through before an instant some Retry-After named,      *)
(* whoever reported it, in whatever order the reports came, and although   *)
(* the floor is forgotten once it has passed.                              *)
FloorHolds ==
  [][\A w \in Workers :
       (worker'[w].at = "permitted" /\ worker[w].at # "permitted") => now >= floor_asked]_vars

(* Slots are taken away only when the three last bare 429s lie within one  *)
(* minute and no Retry-After came between them (report_429).               *)
HalvedOnlyByStorm ==
  [][suppressed_slots' > suppressed_slots =>
       /\ Len(bare) >= Threshold - 1
       /\ now - bare[Len(bare) - (Threshold - 2)] <= Minute]_vars

(* The slots behave as the abstract specification promises.                *)
Since == IF suppressed_slots = 0
         THEN 0
         ELSE now - (next_slot_restoration
                       - (IF suppressed_slots = Half THEN 3 * HalfMinute ELSE HalfMinute))
Aimd == INSTANCE AimdSlots WITH suppressed <- suppressed_slots, since <- Since
AimdSpec == Aimd!Spec

(* Once the sweep is cancelled no worker stays at the gate, not even one   *)
(* that sleeps until a floor an hour away (acquire_inner's select).        *)
CancelReleases == cancelled ~> \A w \in Workers : ~Waiting(w)

=============================================================================
