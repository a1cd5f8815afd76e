----------------------------- MODULE ValSender -----------------------------
(***************************************************************************)
(* The sender's data phase: the part of send_file_data_adaptive            *)
(* (val_sender.c) after the resume negotiation, with wait_for_window_ack,  *)
(* send_data_packet, handle_nak_retransmit, the wait for DONE_ACK and the  *)
(* AIMD window of val_core.c.  One action per packet sent, packet received *)
(* or timer expired.                                                       *)
(***************************************************************************)
EXTENDS ValLink

CONSTANTS
    NegotiatedWindow,  \* s->negotiated_window_packets
    InitialCwnd,       \* s->current_window_packets after the handshake
    DegradeThreshold,  \* degrade_error_threshold
    RecoverThreshold,  \* recovery_success_threshold
    AckRetries,        \* retries.ack_retries, a uint8_t
    ExtraTries         \* first_ack_extra_tries: one per 256 MiB resumed, at most 6

ASSUME WindowAssumption ==
    /\ NegotiatedWindow \in Nat \ {0}
    /\ InitialCwnd \in 1..NegotiatedWindow
    /\ DegradeThreshold \in Nat \ {0}
    /\ RecoverThreshold \in Nat \ {0}

ASSUME RetryAssumption ==
    /\ AckRetries \in 0..255
    /\ ExtraTries \in 0..6
    /\ ResumeOff = 0 => ExtraTries = 0

VARIABLES
    spc,            \* where send_file_data_adaptive is
    last_acked,     \* cumulative acknowledgement
    next_to_send,   \* next file offset to read and send
    inflight,       \* packets counted against the window
    win,            \* window of the current fill (local win)
    target_ack,     \* end of the window being waited for
    tries,          \* retries left in this wait
    in_retransmit,  \* timing.in_retransmit: no RTT samples while set
    cwnd,           \* s->current_window_packets
    errs,           \* s->consecutive_errors, up to DegradeThreshold
    succs           \* s->consecutive_successes, up to RecoverThreshold

windowVars == <<last_acked, next_to_send, inflight, target_ack>>
aimdVars == <<cwnd, errs, succs>>
senderVars == <<spc, windowVars, win, tries, in_retransmit, aimdVars>>

\* top is the head of the outer loop, fill and wait the inner loop, done the
\* wait for DONE_ACK.  The others are results: ok is VAL_OK, fail
\* VAL_ERR_TIMEOUT, cancelled and aborted VAL_ERR_ABORTED after a cancel of
\* this side and of the peer
SenderActive == {"top", "fill", "wait", "done"}
SenderStates == SenderActive \cup {"ok", "fail", "cancelled", "aborted"}

SenderTypeOK ==
    /\ spc \in SenderStates
    /\ last_acked \in Nat
    /\ next_to_send \in 0..FileSize
    /\ inflight \in Nat
    /\ win \in 1..NegotiatedWindow
    /\ target_ack \in Nat
    /\ tries \in 0..255
    /\ in_retransmit \in BOOLEAN
    /\ cwnd \in 1..NegotiatedWindow
    /\ errs \in 0..DegradeThreshold
    /\ succs \in 0..RecoverThreshold

-----------------------------------------------------------------------------
(* Helpers.                                                                *)

Smaller(a, b) == IF a <= b THEN a ELSE b
Larger(a, b) == IF a <= b THEN b ELSE a
CeilDiv(a, b) == (a + b - 1) \div b

\* include_offset: the first packet of a window carries its offset, the
\* others leave it implied
IncludeOffset == next_to_send = last_acked

\* to_read of send_data_packet
ToRead(explicit) ==
    Smaller(FileSize - next_to_send,
            IF explicit THEN MaxPayload - OffsetLen ELSE MaxPayload)

\* tries_rem at the top of the outer loop, a uint8_t: at least one try, and
\* more for the first DATA_ACK after a resume
TriesRem ==
    ((IF AckRetries = 0 THEN 1 ELSE AckRetries)
        + (IF last_acked = ResumeOff THEN ExtraTries ELSE 0)) % 256

\* Mutant: rounds the outstanding packets down
OutstandingRoundedDown(off) == Larger(next_to_send - off, 0) \div MaxPayload

\* packets outstanding once off is acknowledged, as wait_for_window_ack
\* recomputes them
Outstanding(off) == CeilDiv(Larger(next_to_send - off, 0), MaxPayload)

\* val_internal_record_transmission_error: after DegradeThreshold errors in a
\* row the window is halved; errors keep counting while it is already 1
Halved(w) == Larger(w \div 2, 1)

RecordError ==
    LET e == Smaller(errs + 1, DegradeThreshold)
        degrade == e >= DegradeThreshold /\ Halved(cwnd) # cwnd
    IN  /\ cwnd' = IF degrade THEN Halved(cwnd) ELSE cwnd
        /\ errs' = IF degrade THEN 0 ELSE e
        /\ succs' = 0

\* Mutant: grows beyond the negotiated cap
RecordSuccessUncapped ==
    LET s == Smaller(succs + 1, RecoverThreshold)
    IN  /\ cwnd' = IF s >= RecoverThreshold THEN cwnd + 1 ELSE cwnd
        /\ succs' = IF s >= RecoverThreshold THEN 1 ELSE s
        /\ errs' = 0

\* val_internal_record_transmission_success: after RecoverThreshold successes
\* in a row the window grows by one, up to the negotiated cap
RecordSuccess ==
    LET s == Smaller(succs + 1, RecoverThreshold)
        grow == s >= RecoverThreshold /\ cwnd < NegotiatedWindow
    IN  /\ cwnd' = IF grow THEN cwnd + 1 ELSE cwnd
        /\ succs' = IF grow THEN 1 ELSE s
        /\ errs' = 0

-----------------------------------------------------------------------------
SenderInit ==
    /\ spc = "top"
    /\ last_acked = ResumeOff
    /\ next_to_send = ResumeOff
    /\ inflight = 0
    /\ win = InitialCwnd
    /\ target_ack = ResumeOff
    /\ tries = AckRetries
    /\ in_retransmit = FALSE
    /\ cwnd = InitialCwnd
    /\ errs = 0
    /\ succs = 0

\* The outer loop: bytes are left, start a window with fresh retries
StartWindow ==
    /\ spc = "top"
    /\ last_acked < FileSize
    /\ spc' = "fill"
    /\ tries' = TriesRem
    /\ UNCHANGED <<windowVars, win, in_retransmit, aimdVars, linkVars>>

\* Mutant: sends DONE when the last packet is still to be acknowledged
SendDoneOneShort ==
    /\ spc = "top"
    /\ last_acked + MaxPayload >= FileSize
    /\ spc' = "done"
    /\ tries' = AckRetries
    /\ in_retransmit' = FALSE
    /\ dataLink' = Append(dataLink, Done)
    /\ UNCHANGED <<windowVars, win, aimdVars, ackLink, losses, dups>>

\* The outer loop: the file is acknowledged, send DONE and wait for DONE_ACK
SendDone ==
    /\ spc = "top"
    /\ last_acked >= FileSize
    /\ spc' = "done"
    /\ tries' = AckRetries
    /\ in_retransmit' = FALSE
    /\ dataLink' = Append(dataLink, Done)
    /\ UNCHANGED <<windowVars, win, aimdVars, ackLink, losses, dups>>

\* Mutant: lets another thread cancel while the sender waits for DONE_ACK
SenderCancelAnytime ==
    /\ CancelAllowed
    /\ spc \in {"top", "done"}
    /\ spc' = "cancelled"
    /\ dataLink' = dataLink \o Cancels
    /\ UNCHANGED <<windowVars, win, tries, in_retransmit, aimdVars,
                   ackLink, losses, dups>>

\* The application cancels from on_file_start or the first on_progress: the
\* session lock is held for the whole transfer, so only callbacks can
SenderCancel ==
    /\ CancelAllowed
    /\ spc = "top"
    /\ last_acked = ResumeOff
    /\ spc' = "cancelled"
    /\ dataLink' = dataLink \o Cancels
    /\ UNCHANGED <<windowVars, win, tries, in_retransmit, aimdVars,
                   ackLink, losses, dups>>

\* Mutant: fills the window to one packet more than it holds
SendDataOneMore ==
    /\ spc = "fill"
    /\ inflight <= win
    /\ next_to_send < FileSize
    /\ LET len == ToRead(IncludeOffset)
           off == IF IncludeOffset THEN next_to_send ELSE IMPLIED
       IN  /\ dataLink' = Append(dataLink, Data(off, next_to_send, len))
           /\ next_to_send' = next_to_send + len
    /\ inflight' = inflight + 1
    /\ UNCHANGED <<spc, last_acked, win, target_ack, tries, in_retransmit,
                   aimdVars, ackLink, losses, dups>>

\* Mutant: moves on by a full payload though the offset took part of it
SendDataSkips ==
    /\ spc = "fill"
    /\ inflight < win
    /\ next_to_send < FileSize
    /\ LET off == IF IncludeOffset THEN next_to_send ELSE IMPLIED
       IN  dataLink' = Append(dataLink, Data(off, next_to_send, ToRead(IncludeOffset)))
    /\ next_to_send' = Smaller(FileSize, next_to_send + MaxPayload)
    /\ inflight' = inflight + 1
    /\ UNCHANGED <<spc, last_acked, win, target_ack, tries, in_retransmit,
                   aimdVars, ackLink, losses, dups>>

\* One turn of the fill loop: send_data_packet
SendData ==
    /\ spc = "fill"
    /\ inflight < win
    /\ next_to_send < FileSize
    /\ LET len == ToRead(IncludeOffset)
           off == IF IncludeOffset THEN next_to_send ELSE IMPLIED
       IN  /\ dataLink' = Append(dataLink, Data(off, next_to_send, len))
           /\ next_to_send' = next_to_send + len
    /\ inflight' = inflight + 1
    /\ UNCHANGED <<spc, last_acked, win, target_ack, tries, in_retransmit,
                   aimdVars, ackLink, losses, dups>>

\* The window is full or the file is out: set target_ack, clear in_retransmit
\* and enter wait_for_window_ack
StartWait ==
    /\ spc = "fill"
    /\ ~(inflight < win /\ next_to_send < FileSize)
    /\ spc' = "wait"
    /\ target_ack' = next_to_send
    /\ in_retransmit' = FALSE
    /\ UNCHANGED <<last_acked, next_to_send, inflight, win, tries, aimdVars,
                   linkVars>>

-----------------------------------------------------------------------------
(* wait_for_window_ack                                                     *)

\* Read the next frame from the receiver in state s
Read(s) ==
    /\ spc = s
    /\ ackLink # <<>>
    /\ ackLink' = Tail(ackLink)
    /\ UNCHANGED <<losses, dups>>

HeadIs(type) == Head(ackLink).type = type

\* off <= *last_acked: an acknowledgement that brings nothing new
Stale(off) == off <= last_acked

\* Mutant: takes any DATA_ACK for the whole window
AckAdvancesWindow ==
    /\ Read("wait")
    /\ HeadIs("DATA_ACK")
    /\ ~Stale(Head(ackLink).off)
    /\ last_acked' = target_ack
    /\ IF in_retransmit THEN UNCHANGED aimdVars ELSE RecordSuccess
    /\ in_retransmit' = FALSE
    /\ inflight' = Outstanding(last_acked')
    /\ UNCHANGED <<next_to_send, target_ack, win>>

\* What every advancing DATA_ACK does before the target is looked at
AckAdvances ==
    /\ Read("wait")
    /\ HeadIs("DATA_ACK")
    /\ ~Stale(Head(ackLink).off)
    /\ last_acked' = Head(ackLink).off
    /\ IF in_retransmit THEN UNCHANGED aimdVars ELSE RecordSuccess
    /\ in_retransmit' = FALSE
    /\ inflight' = Outstanding(last_acked')
    /\ UNCHANGED <<next_to_send, target_ack, win>>

\* Part of the window is acknowledged: keep waiting, the retries start over
RecvAckPartial ==
    /\ AckAdvances
    /\ last_acked' < target_ack
    /\ tries' = AckRetries
    /\ UNCHANGED <<spc, dataLink>>

\* The whole window is acknowledged: back to the outer loop
RecvAckWindow ==
    /\ AckAdvances
    /\ last_acked' >= target_ack
    /\ tries' = AckRetries
    /\ spc' = "top"
    /\ UNCHANGED dataLink

\* The application cancels from on_progress, which an advancing DATA_ACK calls
\* before inflight, tries and in_retransmit are brought up to date
RecvAckCancel ==
    /\ CancelAllowed
    /\ Read("wait")
    /\ HeadIs("DATA_ACK")
    /\ ~Stale(Head(ackLink).off)
    /\ last_acked' = Head(ackLink).off
    /\ IF in_retransmit THEN UNCHANGED aimdVars ELSE RecordSuccess
    /\ spc' = "cancelled"
    /\ dataLink' = dataLink \o Cancels
    /\ UNCHANGED <<next_to_send, inflight, target_ack, win, tries,
                   in_retransmit>>

\* A DATA_ACK that acknowledges nothing new is ignored
RecvAckStale ==
    /\ Read("wait")
    /\ HeadIs("DATA_ACK")
    /\ Stale(Head(ackLink).off)
    /\ UNCHANGED <<senderVars, dataLink>>

\* Mutant: forgets to rewind the read position
RewindKeepsCursor ==
    /\ inflight' = 0
    /\ win' = cwnd'
    /\ in_retransmit' = TRUE
    /\ spc' = "fill"
    /\ UNCHANGED <<next_to_send, target_ack>>

\* Go back to last_acked and refill with the window the session has now
Rewind ==
    /\ next_to_send' = last_acked'
    /\ inflight' = 0
    /\ win' = cwnd'
    /\ in_retransmit' = TRUE
    /\ spc' = "fill"
    /\ UNCHANGED target_ack

\* Mutant: adopts the offset of every DATA_NAK
AdoptNakAny(off) == off

\* last_acked after a DATA_NAK
AdoptNak(off) ==
    IF off > last_acked /\ off <= FileSize THEN off ELSE last_acked

\* DATA_NAK: adopt its offset if it advances, then handle_nak_retransmit
RecvNak ==
    /\ Read("wait")
    /\ HeadIs("DATA_NAK")
    /\ last_acked' = AdoptNak(Head(ackLink).off)
    /\ RecordError
    /\ Rewind
    /\ UNCHANGED <<tries, dataLink>>

\* CANCEL, here or while waiting for DONE_ACK
RecvCancel ==
    /\ Read("wait") \/ Read("done")
    /\ HeadIs("CANCEL")
    /\ spc' = "aborted"
    /\ UNCHANGED <<windowVars, win, tries, in_retransmit, aimdVars,
                   dataLink>>

\* Mutant: waits on, sending nothing again and counting no retry
AckTimeoutForever ==
    /\ spc = "wait"
    /\ tries > 0
    /\ in_retransmit' = TRUE
    /\ RecordError
    /\ UNCHANGED <<spc, windowVars, win, tries, linkVars>>

\* The timer expires with retries left: go back to last_acked
AckTimeout ==
    /\ spc = "wait"
    /\ tries > 0
    /\ tries' = tries - 1
    /\ last_acked' = last_acked
    /\ RecordError
    /\ Rewind
    /\ UNCHANGED linkVars

\* The timer expires with no retry left
AckTimeoutFatal ==
    /\ spc = "wait"
    /\ tries = 0
    /\ spc' = "fail"
    /\ UNCHANGED <<windowVars, win, tries, in_retransmit, aimdVars,
                   linkVars>>

-----------------------------------------------------------------------------
(* val_internal_wait_done_ack                                              *)

\* Mutant: takes a late DATA_ACK for the DONE_ACK
RecvDoneAckAny ==
    /\ Read("done")
    /\ HeadIs("DONE_ACK") \/ HeadIs("DATA_ACK")
    /\ spc' = "ok"
    /\ RecordSuccess
    /\ UNCHANGED <<windowVars, win, tries, in_retransmit, dataLink>>

\* accept_done_ack_cb
RecvDoneAck ==
    /\ Read("done")
    /\ HeadIs("DONE_ACK")
    /\ spc' = "ok"
    /\ RecordSuccess
    /\ UNCHANGED <<windowVars, win, tries, in_retransmit, dataLink>>

\* Anything else is benign
RecvWhileDone ==
    /\ Read("done")
    /\ Head(ackLink).type \in {"DATA_ACK", "DATA_NAK"}
    /\ UNCHANGED <<senderVars, dataLink>>

\* Mutant: waits on, sending nothing again and counting no retry
DoneTimeoutForever ==
    /\ spc = "done"
    /\ tries > 0
    /\ in_retransmit' = TRUE
    /\ RecordError
    /\ UNCHANGED <<spc, windowVars, win, tries, linkVars>>

\* retry_send_done_cb
DoneTimeout ==
    /\ spc = "done"
    /\ tries > 0
    /\ tries' = tries - 1
    /\ in_retransmit' = TRUE
    /\ RecordError
    /\ dataLink' = Append(dataLink, Done)
    /\ UNCHANGED <<spc, windowVars, win, ackLink, losses, dups>>

DoneTimeoutFatal ==
    /\ spc = "done"
    /\ tries = 0
    /\ spc' = "fail"
    /\ UNCHANGED <<windowVars, win, tries, in_retransmit, aimdVars,
                   linkVars>>

-----------------------------------------------------------------------------
SenderLocal == StartWindow \/ SendDone \/ SendData \/ StartWait

SenderReads ==
    \/ RecvAckPartial \/ RecvAckWindow \/ RecvAckStale \/ RecvNak
    \/ RecvCancel \/ RecvDoneAck \/ RecvWhileDone

SenderCancels == SenderCancel \/ RecvAckCancel

SenderTimeout ==
    AckTimeout \/ AckTimeoutFatal \/ DoneTimeout \/ DoneTimeoutFatal
=============================================================================
