---------------------------- MODULE RateLimiter ----------------------------
(***************************************************************************)
(* The token bucket with adaptive backoff that every API request of the    *)
(* process shares (api/rate_limiter.py), under the callers that use it:    *)
(* get_with_ngsw with its retries of a 429, _make_rate_limited_request     *)
(* around it, and the 429 that the WebSocket reports out of band.          *)
(*                                                                         *)
(* Time is counted in units of token_refill_interval, so the bucket gains  *)
(* one token a unit; the limiter is enabled and adaptive.  A slot is       *)
(* reserved under the lock and slept for outside it: the steps of one      *)
(* request are apart.                                                      *)
(***************************************************************************)
EXTENDS Integers, Sequences, FiniteSets, FiniteSetsExt, SequencesExt

CONSTANTS
    Callers,        \* tasks that send requests
    Burst,          \* rate_limiting_burst_size
    RetryAfter,     \* rate_limiting_retry_after_seconds
    Factor,         \* rate_limiting_backoff_factor
    MaxBackoff,     \* rate_limiting_max_backoff_seconds
    Window,         \* length of request_outcomes (1000)
    MinHistory,     \* outcomes needed before a floor is learned (10)
    FloorGain,      \* steepness of the learned floor (20)
    FloorCap,       \* its cap in seconds (20)
    MaxRetries,     \* api_max_retries
    OuterDelay,     \* rate_limit_delay of _make_rate_limited_request
    MaxTime,        \* bound: the clock
    MaxRequests,    \* bound: requests sent
    MaxOutOfBand    \* bound: 429s the WebSocket reports

ASSUME LimiterAssumption ==
    /\ Burst \in Nat \ {0} /\ RetryAfter \in Nat /\ MaxBackoff \in Nat
    /\ Factor \in Nat \ {0} /\ Window \in Nat \ {0} /\ MinHistory \in Nat \ {0}
    /\ FloorGain \in Nat /\ FloorCap \in Nat \ {0}
    /\ MaxRetries \in Nat \ {0} /\ OuterDelay \in Nat
    /\ MaxTime \in Nat \ {0} /\ MaxRequests \in Nat /\ MaxOutOfBand \in Nat

Lower(a, b) == Min({a, b})
Higher(a, b) == Max({a, b})

VARIABLES
    now,        \* time.time()
    tokens, lastRefill,          \* the bucket
    backoff, lastBackoff,        \* current_backoff_seconds, last_backoff_time
    violations,                  \* rate_limit_violations > 0
    badRun, goodRun,             \* consecutive violations and successes
    floor,                       \* learned_floor
    outcomes,                    \* request_outcomes
    nextAllowed, lastRequest,    \* _next_allowed_at, last_request_time
    call,                        \* per caller: where its request is
    count,                       \* requests sent, 429s out of band
    shutUntil                    \* history: end of the window the last 429 opened

bucket == <<tokens, lastRefill>>
window == <<backoff, lastBackoff, shutUntil>>
learned == <<violations, badRun, goodRun, floor, outcomes>>
limiterVars == <<now, bucket, window, learned, nextAllowed, lastRequest, call, count>>

Idle == [at |-> "idle", due |-> 0, try |-> 0]

LimiterTypeOK ==
    /\ now \in 0..MaxTime /\ tokens \in 0..Burst /\ lastRefill \in Nat
    /\ backoff \in 0..Higher(MaxBackoff, FloorCap) /\ lastBackoff \in 0..MaxTime
    /\ violations \in BOOLEAN /\ badRun \in Nat /\ goodRun \in 0..2
    /\ floor \in 0..FloorCap /\ outcomes \in SeqOf(BOOLEAN, Window)
    /\ nextAllowed \in Nat /\ lastRequest \in 0..MaxTime
    /\ call \in [Callers -> [at : {"idle", "reserve", "sleep", "token", "flight",
                                   "outer"},
                             due : Nat, try : 0..MaxRetries]]
    /\ count \in [sent : 0..MaxRequests, oob : 0..MaxOutOfBand]
    /\ shutUntil \in Nat

LimiterInit ==
    /\ now = 1 /\ tokens = Burst /\ lastRefill = 1
    /\ backoff = 0 /\ lastBackoff = 0 /\ shutUntil = 0
    /\ violations = FALSE /\ badRun = 0 /\ goodRun = 0 /\ floor = 0
    /\ outcomes = <<>>
    /\ nextAllowed = 0 /\ lastRequest = 0
    /\ call = [c \in Callers |-> Idle]
    /\ count = [sent |-> 0, oob |-> 0]

-----------------------------------------------------------------------------
(* The operators of the limiter.                                           *)

InBackoff == backoff > 0 /\ now - lastBackoff < backoff

\* _calculate_minimum_floor over a window of outcomes: up at once with the
\* share of violations, down by a twentieth only when a whole window is clean,
\* and not to nothing after a 429.  Floors are whole units: a decay takes one.
MinimumFloor(f, outs, everViolated) ==
    LET n == Len(outs)
        bad == Cardinality({i \in DOMAIN outs : ~outs[i]})
        steep == Lower(FloorCap, 1 + (bad * FloorGain * Factor) \div n)
    IN CASE n < MinHistory -> f
         [] n >= MinHistory /\ bad > 0 -> Higher(f, steep)
         [] n >= MinHistory /\ bad = 0 /\ n = Window /\ f > 0 ->
                IF everViolated THEN Higher(1, f - 1) ELSE f - 1
         [] OTHER -> f

\* Faulty variant: the bucket overflows, or is refilled twice.
RefilledOverflows ==
    [tokens |-> tokens + Higher(0, now - lastRefill), at |-> Higher(now, lastRefill)]
RefilledAgain ==
    [tokens |-> Lower(Burst, tokens + Higher(0, now - lastRefill)), at |-> lastRefill]

\* _refill_tokens, for a clock past the last refill.
Refilled == IF now > lastRefill
            THEN [tokens |-> Lower(Burst, tokens + (now - lastRefill)), at |-> now]
            ELSE [tokens |-> tokens, at |-> lastRefill]

\* The length of the window that the next 429 opens: it grows with each one in
\* a row, up to max_backoff_seconds.
Lengths == {n \in 0..MaxBackoff : n = Lower(MaxBackoff, RetryAfter * (Factor ^ badRun))}

\* Faulty variant: a 429 leaves the bucket alone.
ViolatedKeepsTokens == \E grown \in Lengths :
    /\ violations' = TRUE /\ badRun' = badRun + 1 /\ goodRun' = 0
    /\ backoff' = grown /\ lastBackoff' = now /\ shutUntil' = now + grown
    /\ UNCHANGED <<bucket, floor, nextAllowed>>

\* 429: grow the window, empty the bucket, and no refill until the window ends.
Violated == \E grown \in Lengths :
    /\ violations' = TRUE
    /\ badRun' = badRun + 1
    /\ goodRun' = 0
    /\ backoff' = grown
    /\ lastBackoff' = now
    /\ tokens' = 0
    /\ lastRefill' = now + grown
    /\ shutUntil' = now + grown
    /\ UNCHANGED <<floor, nextAllowed>>

\* 2xx while a backoff is in force: the window rolls forward, and after two in
\* a row it shrinks, down to the floor.
Eased(outs) ==
    LET least == MinimumFloor(floor, outs, violations)
        smaller == Higher(least, backoff \div Factor)
        end == now + (IF least <= 0 THEN 0 ELSE smaller)
    IN
    /\ lastBackoff' = now
    /\ IF goodRun + 1 < 2
       THEN /\ goodRun' = goodRun + 1
            /\ UNCHANGED <<backoff, badRun, floor, nextAllowed, lastRefill, shutUntil>>
       ELSE /\ goodRun' = 0
            /\ floor' = least
            /\ backoff' = IF least <= 0 THEN 0 ELSE smaller
            /\ badRun' = IF least <= 0 THEN 0 ELSE Higher(0, badRun - 1)
            /\ nextAllowed' = Lower(nextAllowed, now + smaller)
            /\ lastRefill' = Lower(lastRefill, end)
            /\ shutUntil' = Lower(shutUntil, end)
    /\ UNCHANGED <<violations, tokens>>

\* record_response.  Server errors count against the floor, other client errors
\* do not, and only a 429 opens a backoff.
Statuses == {"ok", "client", "error", "429"}
Record(status) ==
    LET outs == LET all == Append(outcomes, status \in {"ok", "client"}) IN
                IF Len(all) > Window THEN Tail(all) ELSE all
    IN
    /\ outcomes' = outs
    /\ \/ status = "429" /\ Violated
       \/ status = "ok" /\ backoff > 0 /\ Eased(outs)
       \/ /\ status \in {"client", "error"} \/ (status = "ok" /\ backoff = 0)
          /\ UNCHANGED <<violations, badRun, goodRun, floor, bucket, window,
                         nextAllowed>>

-----------------------------------------------------------------------------
(* The steps of a request.                                                 *)

At(c, place, due) == call' = [call EXCEPT ![c].at = place, ![c].due = due]

Begin(c) ==
    /\ call[c].at = "idle"
    /\ call' = [call EXCEPT ![c] = [Idle EXCEPT !.at = "reserve"]]
    /\ UNCHANGED <<now, bucket, window, learned, nextAllowed, lastRequest, count>>

\* _reserve_slot: the cursor moves on at least one refill interval, so that
\* waiters line up even before a floor is learned.
Reserve(c) ==
    /\ call[c].at = "reserve"
    /\ LET least == MinimumFloor(floor, outcomes, violations)
           base == Max({now, nextAllowed,
                        IF InBackoff THEN lastBackoff + backoff ELSE 0})
           target == IF least > 0 /\ lastRequest > 0
                     THEN Higher(base, lastRequest + least) ELSE base
       IN /\ floor' = least
          /\ nextAllowed' = target + Higher(least, 1)
          /\ At(c, "sleep", target)
    /\ UNCHANGED <<now, bucket, window, violations, badRun, goodRun, outcomes,
                   lastRequest, count>>

\* The sleep to the reserved slot ends.
Woken(c) ==
    /\ call[c].at = "sleep" /\ now >= call[c].due
    /\ At(c, "token", now)
    /\ UNCHANGED <<now, bucket, window, learned, nextAllowed, lastRequest, count>>

\* One turn of the loop over the bucket: take a token and send, or wait a unit.
TakeToken(c) ==
    /\ call[c].at = "token" /\ now >= call[c].due
    /\ LET r == Refilled IN
        /\ lastRefill' = r.at
        /\ IF r.tokens >= 1
           THEN /\ count.sent < MaxRequests
                /\ tokens' = r.tokens - 1
                /\ lastRequest' = now
                /\ count' = [count EXCEPT !.sent = @ + 1]
                /\ At(c, "flight", now)
           ELSE /\ tokens' = r.tokens
                /\ At(c, "token", now + 1)
                /\ UNCHANGED <<lastRequest, count>>
    /\ UNCHANGED <<now, window, learned, nextAllowed>>

\* The response: get_with_ngsw tries a 429 again, the last one goes to the
\* loop around it, which waits and starts over.
Respond(c) ==
    /\ call[c].at = "flight"
    /\ \E status \in Statuses :
        /\ Record(status)
        /\ IF status # "429" THEN call' = [call EXCEPT ![c] = Idle]
           ELSE IF call[c].try < MaxRetries - 1
           THEN call' = [call EXCEPT ![c].at = "reserve", ![c].try = @ + 1]
           ELSE call' = [call EXCEPT ![c] = [Idle EXCEPT !.at = "outer",
                                                         !.due = now + OuterDelay]]
    /\ UNCHANGED <<now, lastRequest, count>>

OuterRetry(c) ==
    /\ call[c].at = "outer" /\ now >= call[c].due
    /\ call' = [call EXCEPT ![c] = [Idle EXCEPT !.at = "reserve"]]
    /\ UNCHANGED <<now, bucket, window, learned, nextAllowed, lastRequest, count>>

\* _handle_websocket_rate_limited.
OutOfBand ==
    /\ count.oob < MaxOutOfBand
    /\ count' = [count EXCEPT !.oob = @ + 1]
    /\ Record("429")
    /\ UNCHANGED <<now, lastRequest, call>>

Tick ==
    /\ now < MaxTime
    /\ now' = now + 1
    /\ UNCHANGED <<bucket, window, learned, nextAllowed, lastRequest, call, count>>

LimiterNext ==
    \/ \E c \in Callers : \/ Begin(c) \/ Reserve(c) \/ Woken(c) \/ TakeToken(c)
                          \/ Respond(c) \/ OuterRetry(c)
    \/ OutOfBand
    \/ Tick

LimiterSpec == LimiterInit /\ [][LimiterNext]_limiterVars

-----------------------------------------------------------------------------
(* Properties.                                                             *)

\* No request leaves inside the window that the latest 429 opened, not even
\* one that had reserved its slot before the 429 came; two successes in a row
\* may shorten the window (_apply_adaptive_backoff, async_wait_for_request).
BackoffHonoured ==
    [][(count'.sent > count.sent) => (now >= shutUntil)]_limiterVars

\* Every token in the bucket or spent was earned: the burst, and one per unit
\* of time the bucket was refilled for, whatever the 429s and the reductions
\* that move the last refill.  With it the requests sent by any time are at
\* most the burst and one per unit (_refill_tokens, _apply_adaptive_backoff).
TokensEarned == count.sent + tokens <= Burst + Lower(now, lastRefill) - 1

=============================================================================
