---------------------------- MODULE ValTransfer ----------------------------
(***************************************************************************)
(* The data phase of one file: a sender and a receiver of this             *)
(* implementation over a lossy FIFO transport in each direction, from the  *)
(* end of the resume negotiation to DONE_ACK.                              *)
(***************************************************************************)
EXTENDS ValSender, ValReceiver

vars == <<senderVars, receiverVars, linkVars>>

Init == LinkInit /\ SenderInit /\ ReceiverInit

\* Unless Premature, the sender's timer expires only when no answer can come:
\* both directions are drained, or the receiver no longer replies
AnswerPending ==
    \/ ackLink # <<>>
    \/ dataLink # <<>> /\ rpc \in {"open", "data"}

\* Unless Premature, the receiver's timer, which runs at max_timeout_ms since a
\* receiver takes no RTT samples, outlasts the retries of a live sender
SenderGone == dataLink = <<>> /\ spc \in {"fail", "cancelled", "aborted"}

SenderStep ==
    \/ SenderLocal /\ UNCHANGED receiverVars
    \/ SenderReads /\ UNCHANGED receiverVars
    \/ (Premature \/ ~AnswerPending) /\ SenderTimeout /\ UNCHANGED receiverVars

ReceiverStep ==
    \/ ReceiverReads /\ UNCHANGED senderVars
    \/ (Premature \/ SenderGone) /\ ReceiverTimeout /\ UNCHANGED senderVars

\* What the environment may do and need not: cancels and transport faults
EnvStep ==
    \/ SenderCancels /\ UNCHANGED receiverVars
    \/ ReceiverCancels /\ UNCHANGED senderVars
    \/ LinkNext /\ UNCHANGED <<senderVars, receiverVars>>
    \/ RecvDamaged /\ UNCHANGED senderVars

SenderStopped == spc \notin SenderActive
ReceiverStopped == rpc \notin ReceiverActive \/ (rpc = "meta" /\ spc = "ok")

\* The file is over on both sides; what follows is another file or EOT
Terminated ==
    /\ SenderStopped
    /\ ReceiverStopped
    /\ UNCHANGED vars

Next == SenderStep \/ ReceiverStep \/ EnvStep \/ Terminated

Spec == Init /\ [][Next]_vars

\* Both sides are blocking calls that run on: each takes a step when it can.
\* Faults and cancels are never forced
FairSpec == Spec /\ WF_vars(SenderStep) /\ WF_vars(ReceiverStep)

-----------------------------------------------------------------------------
(* Safety.                                                                 *)

TypeOK == LinkTypeOK /\ SenderTypeOK /\ ReceiverTypeOK

\* When val_internal_send_file returns VAL_OK the receiver has reported the
\* file complete, and its copy is the sender's file
OkMeansDelivered ==
    spc = "ok" =>
        /\ delivered
        /\ written = FileSize
        /\ \A p \in 0..(FileSize - 1) : file[p] = p

\* No acknowledgement on the way, and none the sender has acted on, covers a
\* unit that is not in the receiver's file
AckedIsWritten ==
    /\ last_acked <= written
    /\ \A i \in DOMAIN ackLink :
          ackLink[i].type \in {"DATA_ACK", "DATA_NAK"} => ackLink[i].off <= written

\* The explicit offset of a window is one the receiver already holds or expects,
\* so its sender-ahead branch, and with it DATA_NAK, is never taken between two
\* instances of this implementation
NeverAhead ==
    /\ \A i \in DOMAIN dataLink :
          dataLink[i].type = "DATA" => dataLink[i].off <= written
    /\ \A i \in DOMAIN ackLink : ackLink[i].type # "DATA_NAK"

\* The receiver is never sent more DATA than the window it agreed to, counting
\* all frames still on their way: each DATA frame is among the first
\* NegotiatedWindow of them
WindowRespected ==
    \A i \in DOMAIN dataLink : dataLink[i].type = "DATA" => i <= NegotiatedWindow

\* A local cancel of the sender keeps the receiver from reporting success: DONE
\* is never sent after it
CancelMeansNotDelivered == spc = "cancelled" => ~delivered

\* A wait for DATA_ACK in which nothing has gone wrong yet has a retry left, so
\* that a single dropped frame leads to a retransmission
AckWaitHasRetry ==
    spc = "wait" /\ losses = 0 /\ ~Premature => tries > 0

-----------------------------------------------------------------------------
(* Inductive invariants.                                                   *)

\* TypeOK with what keeps next_to_send within the file: the inner loop runs only
\* below the end of the file, and waits for nothing beyond it
TypeInv ==
    /\ TypeOK
    /\ target_ack <= FileSize
    /\ spc \in {"fill", "wait"} => last_acked <= FileSize

\* Length of the DATA packet that carries its offset and starts at off
Chunk(off) == Smaller(FileSize - off, MaxPayload - OffsetLen)

\* DONE has been sent only after the last acknowledgement
DoneSent == spc \in {"done", "ok", "fail", "aborted"} /\ last_acked = FileSize

\* With a window of one packet, the frames that may be on their way: DATA with
\* its true offset and no further than the current packet, answers to those
StopAndWaitFrames ==
    {m \in DataPackets : m.off = m.src /\ m.src <= last_acked /\ m.len = Chunk(m.src)}
        \cup {Cancel} \cup {m \in {Done} : DoneSent}

StopAndWaitAnswers ==
    {m \in Feedback : m.type = "DATA_ACK" /\ (m.off <= last_acked \/ m.off = written)}
        \cup {Cancel} \cup {m \in {DoneAck} : delivered}

\* The receiver has what is acknowledged, or that and the packet being sent
OnePacketApart ==
    /\ last_acked <= FileSize
    /\ written \in {last_acked, last_acked + Chunk(last_acked)}

StopAndWaitLinks ==
    /\ dataLink \in Seq(StopAndWaitFrames)
    /\ ackLink \in Seq(StopAndWaitAnswers)

\* The sender is before the current packet or right behind it
AtPacket(sent) ==
    next_to_send = IF sent THEN last_acked + Chunk(last_acked) ELSE last_acked

StopAndWaitControl ==
    /\ spc = "top" => AtPacket(FALSE) /\ inflight = 0
    /\ spc = "fill" => /\ last_acked < FileSize
                       /\ inflight \in {0, 1}
                       /\ AtPacket(inflight = 1)
    /\ spc = "wait" => /\ last_acked < FileSize
                       /\ AtPacket(TRUE)
                       /\ target_ack = next_to_send

DoneInOrder ==
    /\ spc \in {"done", "ok"} => last_acked = FileSize
    /\ spc = "ok" => delivered
    /\ delivered => DoneSent
    /\ rpc = "meta" => delivered

\* With a window of one packet the sender and the receiver are never more than
\* one packet apart, no frame on its way can part them further, and DONE and
\* DONE_ACK follow the last acknowledgement
StopAndWait ==
    /\ OnePacketApart
    /\ StopAndWaitLinks
    /\ StopAndWaitControl
    /\ DoneInOrder

\* The DATA in s is one row of at most k packets from w to n, in front of all else
IsData(s, i) == i \in 1..Len(s) /\ s[i].type = "DATA"

Row(s, w, n, k) ==
    /\ IsData(s, 1) \/ w = n
    /\ IsData(s, 1) => s[1].src = w
    /\ \A i \in 1..Len(s) : IsData(s, i) =>
          /\ i <= k
          /\ s[i].off \in {IMPLIED, s[i].src}
          /\ s[i].src + s[i].len <= n
          /\ ~IsData(s, i + 1) => s[i].src + s[i].len = n
    /\ \A i \in 1..Len(s) : IsData(s, i + 1) =>
          IsData(s, i) /\ s[i + 1].src = s[i].src + s[i].len

EndsWith(s, m) == s # <<>> /\ s[Len(s)] = m

\* The last frame on its way to the sender is what the receiver has to say, and
\* there is none only when the sender has read it
LastAnswer ==
    /\ rpc \in {"open", "data"} =>
          (ackLink = <<>> /\ last_acked = written) \/ EndsWith(ackLink, DataAck(written))
    /\ spc \in SenderActive =>
          /\ rpc = "meta" => EndsWith(ackLink, DoneAck)
          /\ rpc = "cancelled" => EndsWith(ackLink, Cancel)
          /\ rpc \notin {"aborted", "fail"}

\* DONE and CANCEL are the last words of a sender that has no more to send, and
\* DONE_ACK the answer of a receiver that has reported the file
SenderWords ==
    {m \in ToReceiver :
        /\ m.type = "CANCEL" => spc = "cancelled"
        /\ m.type = "DONE" => /\ spc \in {"done", "ok", "aborted"}
                             /\ dataLink = <<Done>> /\ written = FileSize /\ ~delivered}

ReceiverWords == {m \in ToSender : m.type = "DONE_ACK" => delivered}

LastWords == dataLink \in Seq(SenderWords) /\ ackLink \in Seq(ReceiverWords)

WindowControl ==
    /\ spc = "top" => dataLink = <<>> /\ next_to_send = last_acked /\ inflight = 0
    /\ spc = "fill" => /\ last_acked < FileSize
                       /\ Len(dataLink) <= inflight /\ inflight <= win
                       /\ last_acked <= next_to_send
                       /\ inflight = 0 <=> next_to_send = last_acked
    /\ spc = "wait" => last_acked < target_ack /\ target_ack = next_to_send
    /\ spc = "done" => /\ last_acked = FileSize
                       /\ rpc \in {"open", "data"} => dataLink = <<Done>>
    /\ spc = "ok" \/ rpc = "meta" => delivered
    /\ delivered => /\ spc \notin {"top", "fill", "wait", "cancelled"}
                    /\ rpc \notin {"open", "data"}
                    /\ written = FileSize

\* Over a transport that loses and repeats nothing, and with timers that wait for
\* the answers on their way, the DATA on its way is one row of packets from
\* written to next_to_send, no longer than the window, and a side that waits has
\* something to wait for
Windowed ==
    /\ Row(dataLink, written, next_to_send, win)
    /\ LastAnswer
    /\ LastWords
    /\ WindowControl

-----------------------------------------------------------------------------
(* Action properties.                                                      *)

\* Once the receiver has reported a file complete its copy never changes again,
\* and a byte once written is never overwritten
FileStable ==
    [][ /\ delivered => file' = file
        /\ \A p \in 0..(written - 1) : file'[p] = file[p] ]_vars

\* The flag that suppresses RTT samples after a timeout is cleared only when an
\* acknowledgement advances
KarnFlag ==
    [][in_retransmit /\ ~in_retransmit' => last_acked' > last_acked]_vars

-----------------------------------------------------------------------------
(* Refinement of FileDelivery.                                             *)

SentResult ==
    IF spc = "ok" THEN "ok" ELSE IF spc \in SenderActive THEN "running" ELSE "failed"

ReceivedResult ==
    IF delivered THEN "ok" ELSE IF rpc \in ReceiverActive THEN "running" ELSE "failed"

Delivery == INSTANCE FileDelivery WITH
    Size <- FileSize, Start <- ResumeOff,
    content <- file, sent <- SentResult, received <- ReceivedResult

\* The transfer keeps the promises of FileDelivery: every step of sender,
\* receiver or transport is a step of it or changes nothing it can see
ImplementsDelivery == Delivery!DeliverySpec

-----------------------------------------------------------------------------
(* Liveness.                                                               *)

\* Both blocking calls come to an end, or the receiver is waiting for the next
\* file of a sender that goes on
Terminates == <>[](SenderStopped /\ ReceiverStopped)

\* The file is acknowledged to its end unless a side cancels: losses within the
\* retry budget are recovered from
EventuallyAcked == <>(last_acked >= FileSize \/ "cancelled" \in {spc, rpc})

\* A file the receiver has reported complete is reported complete by the sender
ReliableCompletion == delivered ~> (spc = "ok")

\* A cancel by either side stops the other, though up to two of its three CANCEL
\* frames are lost
CancelPropagates ==
    /\ spc = "cancelled" ~> rpc \in {"aborted", "cancelled"}
    /\ rpc = "cancelled" ~> spc \in {"aborted", "cancelled", "ok"}
=============================================================================
