----------------------------- MODULE ValTiming -----------------------------
(***************************************************************************)
(* The arithmetic of time of val_core.c: the bounds of the timeouts, the   *)
(* estimator of the round trip time, the timeout of an operation and the   *)
(* slices in which val_internal_recv_until_deadline waits.  Times are      *)
(* milliseconds of a counter that wraps at TickMod (2^32: uint32_t).       *)
(***************************************************************************)
EXTENDS Integers

CONSTANTS
    TickMod,       \* the tick counter counts modulo this
    DefaultMin,    \* 200 ms: min_timeout_ms when not configured
    DefaultMax,    \* 8000 ms: max_timeout_ms when not configured
    MaxSlice       \* the longest single wait of recv_until_deadline

ASSUME TickAssumption ==
    /\ TickMod \in Nat
    /\ TickMod > 1
    /\ DefaultMin \in 1..(TickMod - 1)
    /\ DefaultMax \in 1..(TickMod - 1)
    /\ MaxSlice \in 1..(TickMod - 1)

Ticks == 0..(TickMod - 1)

Least(a, b) == IF a <= b THEN a ELSE b
Greatest(a, b) == IF a >= b THEN a ELSE b

\* val_sanitize_timeouts_pair: defaults for what is not configured, and the two
\* exchanged when they are the wrong way round
SanitizeTimeouts(inMin, inMax) ==
    LET lower == IF inMin = 0 THEN DefaultMin ELSE inMin
        upper == IF inMax = 0 THEN DefaultMax ELSE inMax
    IN  [min |-> Least(lower, upper), max |-> Greatest(lower, upper)]

\* val__clamp_u32
Clamp(v, lower, upper) ==
    IF v < lower THEN lower ELSE IF v > upper THEN upper ELSE v

-----------------------------------------------------------------------------
(* The estimator.  A sample of 0 ms counts as 1.                           *)

Rtt(measured) == IF measured = 0 THEN 1 ELSE measured

\* Mutant: shifted by 2, as the variation is
SmoothShort(srtt, rtt) == (7 * srtt + rtt) \div 4

\* SRTT = 7/8 SRTT + 1/8 RTT, in 64 bits and rounded down
Smooth(srtt, rtt) == (7 * srtt + rtt) \div 8

Distance(a, b) == IF a > b THEN a - b ELSE b - a

\* RTTVAR = 3/4 RTTVAR + 1/4 |SRTT - RTT|
Vary(rttvar, srtt, rtt) == (3 * rttvar + Distance(srtt, rtt)) \div 4

\* val_internal_init_timing: what the estimator holds before any sample
InitialSrtt(maxTimeout) == maxTimeout \div 2
InitialRttvar(maxTimeout) == maxTimeout \div 4

Multiplier(op) ==
    CASE op = "HANDSHAKE" -> 5
      [] op \in {"META", "DONE_ACK", "EOT_ACK"} -> 4
      [] op = "DATA_RECV" -> 6
      [] OTHER -> 3

\* val_internal_get_timeout
GetTimeout(op, srtt, rttvar, min, max) ==
    LET rto == (srtt + 4 * rttvar) * Multiplier(op)
    IN  Clamp(Least(rto, TickMod - 1), min, max)

-----------------------------------------------------------------------------
(* Waiting.                                                                *)

\* Unsigned arithmetic on the counter
After(now, d) == (now + d) % TickMod
Since(now, start) == (now - start) % TickMod

\* The next slice of recv_until_deadline: what is left, at most MaxSlice and at
\* least 1 ms
Slice(now, deadline) ==
    Greatest(1, Least(MaxSlice, IF now < deadline THEN deadline - now ELSE 0))

\* Mutant: the wait ends one tick after its deadline
ExpiredLate(now, deadline) == now > deadline

\* The test that ends the wait compares the two counters as they are
Expired(now, deadline) == now >= deadline

\* val_internal_backoff_step: the next delay, doubled up to a ceiling
NextBackoff(backoff, ceiling) == Least(2 * backoff, ceiling)
=============================================================================
