---------------------------- MODULE ValExchange ----------------------------
(***************************************************************************)
(* The waits of val_send_files in time: for every window of a file the     *)
(* wait for its DATA_ACKs (wait_for_window_ack), then the waits for        *)
(* DONE_ACK and EOT_ACK (val_internal_wait_control), with the tick counter *)
(* they read, the round trip estimate they feed and are bounded by, the    *)
(* connection health counters of a diagnostics build, and the cancel flag, *)
(* which is last_error.code.  What the frames carry is the business of     *)
(* ValSender; here a file is a number of packets, and the peer answers     *)
(* when it likes or not at all.                                            *)
(***************************************************************************)
EXTENDS ValTiming

CONSTANTS
    MinTimeouts,     \* timeouts.min_timeout_ms, 0 when not configured
    MaxTimeouts,     \* timeouts.max_timeout_ms, 0 when not configured
    StartTicks,      \* values of the tick counter when the call is made
    Files,           \* number of files of the batch
    FileSizes,       \* sizes of a file, in packets
    MaxWindow,       \* largest window, in packets
    AckRetries,      \* retries.ack_retries
    BackoffBase,     \* retries.backoff_ms_base
    BackoffCeiling,  \* 4000 ms
    HealthAttempts,  \* 64: attempts before the health of the link is judged
    HealthRetries,   \* 8: retries that are never too many
    SoftTrips,       \* 2: soft trips that end the transfer
    Jitter,          \* how much longer than asked a slice may last
    MaxNoise,        \* bound on stale or late DATA_ACKs and on DATA_NAKs
    CancelAllowed    \* may a callback call val_emergency_cancel?

ASSUME ExchangeAssumption ==
    /\ \A t \in MinTimeouts : t \in Ticks
    /\ \A t \in MaxTimeouts : t \in Ticks
    /\ \A t \in StartTicks : t \in Ticks
    /\ Files \in Nat
    /\ \A n \in FileSizes : n \in Nat
    /\ MaxWindow \in Nat /\ MaxWindow > 0
    /\ AckRetries \in 0..255
    /\ BackoffBase \in Nat
    /\ BackoffCeiling \in Nat
    /\ HealthAttempts \in Nat
    /\ HealthRetries \in Nat
    /\ SoftTrips \in Nat /\ SoftTrips > 1
    /\ Jitter \in Nat
    /\ MaxNoise \in Nat
    /\ CancelAllowed \in BOOLEAN

VARIABLES
    ticks,          \* what get_ticks_ms returns
    bounds,         \* timing.min_timeout_ms and timing.max_timeout_ms
    srtt, rttvar,   \* the estimate
    sampled,        \* timing.samples_taken > 0
    inRetransmit,   \* timing.in_retransmit
    low, high,      \* history: the least and the greatest sample recorded
    pc,             \* where the call is
    file, size,     \* files completed, size of the current one
    acked, target,  \* last_acked and target_ack of this file
    wait,           \* the current wait: its locals, and how long it has lasted,
                    \* up to a whole turn of the counter
    tries, backoff,
    ops, retries, softTrips,  \* health
    noise,          \* stale or late DATA_ACKs and DATA_NAKs so far
    lastError,      \* last_error.code
    asked,          \* history: a callback has cancelled
    status,         \* what val_send_files returns
    verdict         \* history: set by the step that ends a wait in a timeout

estimateVars == <<srtt, rttvar, sampled, low, high>>
healthVars == <<ops, retries, softTrips>>
fileVars == <<file, size, acked, target>>

exchangeVars == <<ticks, bounds, estimateVars, inRetransmit, pc, fileVars, wait,
                  tries, backoff, healthVars, noise, lastError, asked, status,
                  verdict>>

NoWait == [timeout |-> 0, t0 |-> 0, deadline |-> 0, lasted |-> 0]
NoVerdict == [early |-> 0, late |-> 0, overflow |-> FALSE, wrapped |-> FALSE]

Waits == {"acks", "done_wait", "eot_wait"}

-----------------------------------------------------------------------------
\* val_internal_init_timing and the rest of what val_session_create sets
ExchangeInit ==
    /\ ticks \in StartTicks
    /\ \E min \in MinTimeouts, max \in MaxTimeouts :
           bounds = SanitizeTimeouts(min, max)
    /\ srtt = InitialSrtt(bounds.max)
    /\ rttvar = InitialRttvar(bounds.max)
    /\ sampled = FALSE
    /\ inRetransmit = FALSE
    /\ low = 0 /\ high = 0
    /\ pc = "idle"
    /\ file = 0 /\ size = 0 /\ acked = 0 /\ target = 0
    /\ wait = NoWait
    /\ tries = 0 /\ backoff = 0
    /\ ops = 0 /\ retries = 0 /\ softTrips = 0
    /\ noise = 0
    /\ lastError = "OK"
    /\ asked = FALSE
    /\ status = "NONE"
    /\ verdict = NoVerdict

\* val_check_for_cancel
Cancelled == lastError = "ABORTED"

\* The call ends with an error
Fail(st) ==
    /\ pc' = "returned"
    /\ status' = st
    /\ wait' = NoWait

\* The call goes on, outside a wait
Go(to) ==
    /\ pc' = to
    /\ wait' = NoWait
    /\ UNCHANGED status

\* To fill a window and wait with a given timeout
Refill(timeout) ==
    /\ pc' = "arm"
    /\ wait' = [timeout |-> timeout, t0 |-> 0, deadline |-> 0, lasted |-> 0]
    /\ UNCHANGED status

\* A callback returns, having cancelled the session or not
Callback ==
    \E c \in {FALSE, CancelAllowed} :
        /\ lastError' = IF c THEN "ABORTED" ELSE lastError
        /\ asked' = (asked \/ c)

\* The timeout of an operation, from the estimate of the moment
Timeout(op) == GetTimeout(op, srtt, rttvar, bounds.min, bounds.max)

\* A wait begins: its timeout, its start and its deadline
StartWait(timeout) ==
    wait' = [timeout |-> timeout, t0 |-> ticks,
             deadline |-> After(ticks, timeout), lasted |-> 0]

\* The wait goes on after a frame, with a new deadline
RenewWait(now) ==
    wait' = [timeout |-> wait.timeout, t0 |-> wait.t0,
             deadline |-> After(now, wait.timeout), lasted |-> 0]

\* val_internal_record_rtt, outside a retransmission
RecordRtt(measured) ==
    LET rtt == Rtt(measured)
    IN  /\ srtt' = IF sampled THEN Smooth(srtt, rtt) ELSE rtt
        /\ rttvar' = IF sampled THEN Vary(rttvar, srtt, rtt) ELSE rtt \div 2
        /\ sampled' = TRUE
        /\ low' = IF sampled THEN Least(low, rtt) ELSE rtt
        /\ high' = IF sampled THEN Greatest(high, rtt) ELSE rtt

\* The callers take a sample only when the exchange began at a tick other than 0
\* and nothing was sent again
Sample(now) ==
    IF wait.t0 # 0 /\ ~inRetransmit
    THEN RecordRtt(Since(now, wait.t0))
    ELSE UNCHANGED estimateVars

-----------------------------------------------------------------------------
(* The batch and the windows of a file.                                    *)

BeginCall ==
    /\ pc = "idle"
    /\ IF Cancelled THEN Fail("ABORTED") ELSE Go("file")
    /\ verdict' = NoVerdict
    /\ UNCHANGED <<ticks, bounds, estimateVars, inRetransmit, fileVars, tries,
                   backoff, healthVars, noise, lastError, asked>>

\* on_file_start, after the exchanges that open a file, the first of which looks
\* at the cancel flag; or the end of the batch.  The next look at the flag is that
\* of Top or, with no window, of Send
NextFile ==
    /\ pc = "file"
    /\ IF file < Files /\ Cancelled
       THEN Fail("ABORTED")
       ELSE Go(IF file < Files THEN "top" ELSE "eot")
    /\ IF file < Files /\ ~Cancelled
       THEN Callback
       ELSE UNCHANGED <<lastError, asked>>
    /\ size' \in IF file < Files THEN FileSizes ELSE {0}
    /\ acked' = 0
    /\ target' = 0
    /\ verdict' = NoVerdict
    /\ UNCHANGED <<ticks, bounds, estimateVars, inRetransmit, file, tries, backoff,
                   healthVars, noise>>

\* val_internal_check_health
Unhealthy(o, r) ==
    /\ o + r >= HealthAttempts
    /\ r >= HealthRetries
    /\ 2 * r > o + r

\* The head of the loop over the windows: the cancel flag, the health of the
\* link, the timeout and the retries of this window.  A soft trip also marks an error of
\* the transmission, which ValSender models
Top ==
    /\ pc = "top"
    /\ acked < size
    /\ IF Cancelled
       THEN /\ Fail("ABORTED")
            /\ UNCHANGED <<ops, softTrips, tries, lastError>>
       ELSE /\ ops' = ops + 1
            /\ tries' = IF AckRetries = 0 THEN 1 ELSE AckRetries
            /\ IF Unhealthy(ops + 1, retries)
               THEN /\ softTrips' = softTrips + 1
                    /\ lastError' = "PERFORMANCE"
                    /\ IF softTrips + 1 >= SoftTrips
                       THEN Fail("PERFORMANCE")
                       ELSE Refill(Timeout("DATA_ACK"))
               ELSE /\ Refill(Timeout("DATA_ACK"))
                    /\ UNCHANGED <<softTrips, lastError>>
    /\ verdict' = NoVerdict
    /\ UNCHANGED <<ticks, bounds, estimateVars, inRetransmit, fileVars, backoff,
                   retries, noise, asked>>

\* A file that is empty or skipped has no window: DONE follows at once
EmptyFile ==
    /\ pc = "top"
    /\ acked = size
    /\ Go("done")
    /\ verdict' = NoVerdict
    /\ UNCHANGED <<ticks, bounds, estimateVars, inRetransmit, fileVars, tries,
                   backoff, healthVars, noise, lastError, asked>>

\* The window is filled and the wait for its DATA_ACKs begins
Arm ==
    /\ pc = "arm"
    /\ \E w \in 1..MaxWindow : target' = Least(acked + w, size)
    /\ StartWait(wait.timeout)
    /\ inRetransmit' = FALSE
    /\ pc' = "acks"
    /\ verdict' = NoVerdict
    /\ UNCHANGED <<ticks, bounds, estimateVars, file, size, acked, tries, backoff,
                   healthVars, noise, lastError, asked, status>>

\* Mutant: progress leaves the soft trips as they are
AckedSticky ==
    /\ tries' = AckRetries
    /\ inRetransmit' = FALSE
    /\ UNCHANGED softTrips

\* A DATA_ACK that advances last_acked: what it resets
Acked ==
    /\ softTrips' = 0
    /\ tries' = AckRetries
    /\ inRetransmit' = FALSE

\* A DATA_ACK within the slice: a stale one takes its sample and is ignored,
\* one that advances calls on_progress
DataAck ==
    /\ pc = "acks"
    /\ \E d \in 0..Slice(ticks, wait.deadline), off \in acked..target :
        /\ ticks' = After(ticks, d)
        /\ Sample(After(ticks, d))
        /\ RenewWait(After(ticks, d))
        /\ acked' = off
        /\ IF off = acked
           THEN /\ noise < MaxNoise
                /\ noise' = noise + 1
                /\ UNCHANGED <<pc, softTrips, tries, inRetransmit>>
           ELSE /\ Acked
                /\ pc' = "progress"
                /\ UNCHANGED noise
    /\ verdict' = NoVerdict
    /\ UNCHANGED <<bounds, file, size, target, backoff, ops, retries, lastError, asked,
                   status>>

\* Mutant: the cancel flag is left to the next look at it
ProgressUnchecked ==
    /\ pc = "progress"
    /\ Callback
    /\ IF acked < target
       THEN pc' = "acks" /\ UNCHANGED <<wait, status>>
       ELSE Go(IF acked < size THEN "top" ELSE "done")
    /\ verdict' = NoVerdict
    /\ UNCHANGED <<ticks, bounds, estimateVars, inRetransmit, fileVars, tries,
                   backoff, healthVars, noise>>

\* on_progress, and the look at the cancel flag after it
Progress ==
    /\ pc = "progress"
    /\ Callback
    /\ IF lastError' = "ABORTED"
       THEN Fail("ABORTED")
       ELSE IF acked < target
            THEN pc' = "acks" /\ UNCHANGED <<wait, status>>
            ELSE Go(IF acked < size THEN "top" ELSE "done")
    /\ verdict' = NoVerdict
    /\ UNCHANGED <<ticks, bounds, estimateVars, inRetransmit, fileVars, tries,
                   backoff, healthVars, noise>>

\* A DATA_NAK: what it acknowledges is adopted and the window starts again
DataNak ==
    /\ pc = "acks"
    /\ noise < MaxNoise
    /\ noise' = noise + 1
    /\ \E d \in 0..Slice(ticks, wait.deadline) : ticks' = After(ticks, d)
    /\ acked' \in acked..target
    /\ inRetransmit' = TRUE
    /\ Refill(wait.timeout)
    /\ verdict' = NoVerdict
    /\ UNCHANGED <<bounds, estimateVars, file, size, target, tries, backoff, healthVars,
                   lastError, asked>>

-----------------------------------------------------------------------------
(* DONE and EOT, and their waits.                                          *)

\* DONE (EOT) is sent and val_internal_wait_control begins, looking at the
\* cancel flag first
Send(from, op, to) ==
    /\ pc = from
    /\ inRetransmit' = FALSE
    /\ tries' = AckRetries
    /\ backoff' = BackoffBase
    /\ IF Cancelled
       THEN Fail("ABORTED")
       ELSE /\ pc' = to
            /\ StartWait(Timeout(op))
            /\ UNCHANGED status
    /\ verdict' = NoVerdict
    /\ UNCHANGED <<ticks, bounds, estimateVars, fileVars, healthVars, noise,
                   lastError, asked>>

SendDone == Send("done", "DONE_ACK", "done_wait")
SendEot == Send("eot", "EOT_ACK", "eot_wait")

\* The answer comes within the slice: a sample, unless the counter reads 0
Answered ==
    \E d \in 0..Slice(ticks, wait.deadline) :
        /\ ticks' = After(ticks, d)
        /\ IF After(ticks, d) # 0 THEN Sample(After(ticks, d))
           ELSE UNCHANGED estimateVars

\* A frame that is not the answer, a late DATA_ACK say: the wait begins anew
Benign ==
    /\ pc \in {"done_wait", "eot_wait"}
    /\ noise < MaxNoise
    /\ noise' = noise + 1
    /\ \E d \in 0..Slice(ticks, wait.deadline) :
        /\ ticks' = After(ticks, d)
        /\ RenewWait(After(ticks, d))
    /\ verdict' = NoVerdict
    /\ UNCHANGED <<bounds, estimateVars, inRetransmit, pc, fileVars, tries, backoff,
                   healthVars, lastError, asked, status>>

\* DONE_ACK: on_file_complete, and the next file
DoneAck ==
    /\ pc = "done_wait"
    /\ Answered
    /\ Callback
    /\ file' = file + 1
    /\ Go("file")
    /\ verdict' = NoVerdict
    /\ UNCHANGED <<bounds, inRetransmit, size, acked, target, tries, backoff, healthVars,
                   noise>>

EotAck ==
    /\ pc = "eot_wait"
    /\ Answered
    /\ pc' = "returned"
    /\ status' = "OK"
    /\ wait' = NoWait
    /\ verdict' = NoVerdict
    /\ UNCHANGED <<bounds, inRetransmit, fileVars, tries, backoff, healthVars,
                   noise, lastError, asked>>

-----------------------------------------------------------------------------
(* Slices in which no good frame came.                                     *)

\* How a wait that ends now compares with its timeout.  overflow: its deadline
\* wrapped around; wrapped: the counter did, during the wait
Verdict(now, lasted) ==
    [early |-> Greatest(0, wait.timeout - lasted),
     late |-> Greatest(0, lasted - wait.timeout),
     overflow |-> wait.deadline < wait.timeout,
     wrapped |-> now < lasted]

\* Out of time: with tries left the window starts again (wait_for_window_ack), or
\* the packet is sent again after the backoff (val_internal_wait_control)
OutOfTime(now) ==
    /\ IF tries = 0
       THEN Fail("TIMEOUT") /\ UNCHANGED <<retries, inRetransmit, tries>>
       ELSE /\ retries' = retries + 1
            /\ inRetransmit' = TRUE
            /\ tries' = tries - 1
    /\ IF tries = 0
       THEN ticks' = now /\ UNCHANGED backoff
       ELSE IF pc = "acks"
       THEN Refill(wait.timeout) /\ ticks' = now /\ backoff' = 0
       ELSE /\ ticks' = After(now, backoff)
            /\ backoff' = NextBackoff(backoff, BackoffCeiling)
            /\ RenewWait(After(now, backoff))
            /\ UNCHANGED <<pc, status>>

\* A slice of recv_until_deadline without a good frame: it lasts the slice and up
\* to Jitter more, or less when a damaged frame ended it
Miss ==
    /\ pc \in Waits
    /\ \E d \in 0..(Slice(ticks, wait.deadline) + Jitter) :
        LET now == After(ticks, d)
            lasted == Least(wait.lasted + d, TickMod)
        IN  /\ lastError' = IF d < Slice(ticks, wait.deadline)
                            THEN "CRC" ELSE "TIMEOUT"
            /\ IF Expired(now, wait.deadline)
               THEN verdict' = Verdict(now, lasted) /\ OutOfTime(now)
               ELSE /\ verdict' = NoVerdict
                    /\ ticks' = now
                    /\ wait' = [wait EXCEPT !.lasted = lasted]
                    /\ UNCHANGED <<pc, status, retries, inRetransmit, tries, backoff>>
    /\ UNCHANGED <<bounds, estimateVars, fileVars, ops, softTrips, noise, asked>>

\* CANCEL or ERROR from the peer, or a transport that fails
GivenUp ==
    /\ pc \in Waits
    /\ \E st \in {"ABORTED", "PROTOCOL", "IO"} :
        /\ Fail(st)
        /\ lastError' = IF st = "PROTOCOL" THEN lastError ELSE st
    /\ verdict' = NoVerdict
    /\ UNCHANGED <<ticks, bounds, estimateVars, inRetransmit, fileVars, tries,
                   backoff, healthVars, noise, asked>>

-----------------------------------------------------------------------------
\* The steps that move a packet, and so change the session's metrics
Traffic == Arm \/ DataAck \/ DataNak \/ SendDone \/ SendEot \/ Benign \/ DoneAck
    \/ EotAck \/ GivenUp

Quiet == BeginCall \/ NextFile \/ Top \/ EmptyFile \/ Progress \/ Miss

ExchangeNext == Traffic \/ Quiet

ExchangeSpec == ExchangeInit /\ [][ExchangeNext]_exchangeVars

-----------------------------------------------------------------------------
(* Properties.                                                             *)

\* A wait bounded by val_internal_recv_until_deadline ends before its timeout only
\* if its deadline overflowed the tick counter, and later than its last slice
\* allows only if the counter wrapped around while it waited: the comparisons of
\* now with the deadline are exact everywhere else
TimeoutPunctual ==
    /\ verdict.early > 0 => verdict.overflow
    /\ verdict.late > Jitter => verdict.wrapped

\* Whatever samples val_internal_record_rtt is given and in whatever order, the
\* smoothed round trip time lies between the least and the greatest of them and
\* the variation does not exceed the greatest: the integer arithmetic does not
\* drift
EstimateBounded ==
    sampled => /\ low <= srtt
               /\ srtt <= high
               /\ rttvar <= high

\* The health check of the data loop never ends a transfer: a window is left only
\* by a DATA_ACK that advanced, which resets soft_trips, so that no second soft
\* trip follows the first
NeverUnhealthy ==
    /\ softTrips < SoftTrips
    /\ status # "PERFORMANCE"

\* A cancel from a callback is seen before anything else overwrites last_error:
\* no DATA and no wait follow it, and val_send_files returns VAL_ERR_ABORTED
CancelHonoured ==
    asked => /\ pc \notin {"arm", "acks", "done_wait", "eot_wait"}
             /\ pc = "returned" => status = "ABORTED"

-----------------------------------------------------------------------------
(* Not true of the code.                                                   *)

\* No wait of recv_until_deadline ends before its timeout.  One does whose deadline
\* overflows the tick counter
NeverEarly == verdict.early = 0
=============================================================================
